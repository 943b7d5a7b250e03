--------------------------- MODULE MCExtraction ----------------------------
(***************************************************************************)
(* A module with a function Serve that dispatches through interface Store, *)
(* a Hub with a channel, a mutex and a map, and two stores.                *)
(***************************************************************************)
EXTENDS Extraction

I(op, on) == [op |-> op, on |-> on]
Operation(recv, params, results, code) ==
    [recv |-> recv, params |-> params, results |-> results,
     variadic |-> FALSE, code |-> code, reflects |-> Does(code, "reflect")]
Fn(owner, ptr, name, op) ==
    [pkg |-> "app", owner |-> owner, ptr |-> ptr, name |-> name, base |-> name,
     exported |-> TRUE, op |-> op]
Request(recv, code) ==
    Operation(recv, <<"context", "value">>, <<"value", "error">>, code)

\* Types: 1 Hub, 2 WebConn, 3 SQL, 4 Store (an interface).  Method 1 is Put.
Cell(owner, type, tags) ==
    [pkg |-> "app", owner |-> owner, type |-> type, tags |-> tags]
TheCells == <<
    Cell(0, "int", {}),                             \* 1 count
    Cell(1, "chan", {}),                            \* 2 Hub.ch
    Cell(1, "map", {"connections", "fanout"}),      \* 3 Hub.connections
    Cell(1, "sync.Mutex", {"mutex"}),               \* 4 Hub.mu
    Cell(1, "int", {}),                             \* 5 Hub.seq
    Cell(2, "map", {"session"}),                    \* 6 WebConn.deadQueue
    Cell(2, "int", {}),                             \* 7 WebConn.last
    Cell(3, "sql.DB", {}),                          \* 8 SQL.db
    Cell(1, "map", {"fanout"}) >>                   \* 9 Hub.sends

Program(serve, literal, helper, run, send, put) == [
    packages |-> {"app"},
    cell |-> TheCells,
    targets |-> <<{6, 7}>>,
    iface |-> [t \in {4} |->
        [names |-> <<"Put">>, ops |-> <<Request("", NoBody)>>, impls |-> {2, 3}]],
    fn |-> <<
        Fn(0, FALSE, "Serve", Request("", serve)),
        [Fn(0, FALSE, "Serve$1", Operation("", <<>>, <<"error">>, literal))
            EXCEPT !.base = "Serve"],
        [Fn(0, FALSE, "helper", Request("", helper)) EXCEPT !.exported = FALSE],
        Fn(1, TRUE, "Run", Operation("mutex", <<"context">>, <<"error">>, run)),
        Fn(1, TRUE, "Send", Request("value", send)),
        Fn(2, TRUE, "Put", Request("value", put)),
        Fn(3, FALSE, "Put", Request("value", {I("read", 8)})),
        [Fn(0, FALSE, "Log", Request("", {})) EXCEPT !.pkg = "ext"],
        Fn(3, FALSE, "Get", Request("value", {I("read", 8)})),
        Fn(3, TRUE, "Del", Request("value", {I("read", 8), I("call", 9)})),
        Fn(0, FALSE, "Handle", Operation("", <<"writer", "request">>, <<>>,
                                         {I("call", 3)})) >>]

Serves == <<
    {I("call", 3), I("value", 2), I("invoke", 1), I("make", 2)},
    {I("call", 3), I("value", 2), I("call", 8), I("call", 5)}>>
Literals == <<{I("call", 1)}, {I("hijack", 0)}, {I("call", 8), I("plugin", 0)}>>
Helpers == <<{}, {I("setglobal", 1)}, {I("setglobal", 1), I("lock", 0)},
            {I("read", 1), I("reflect", 0)}>>
Loop == {I("recv", 2), I("loop", 0)}
Runs == <<Loop \cup {I("setfield", 5), I("call", 5)},
         Loop \cup {I("lock", 4), I("go", 0)},
         {I("setfield", 5), I("lock", 4), I("setglobal", 1)},
         {I("read", 5), I("call", 5)}>>
Sends == <<{I("send", 2), I("lock", 4), I("setfield", 5)},
          {I("elem", 3), I("lock", 4), I("invoke", 1)},
          {I("setfield", 5), I("send", 2), I("call", 4)},
          {I("read", 9), I("send", 2)}>>
PlainPut == {I("setfield", 7), I("elem", 6)}
Puts == <<PlainPut, {I("setfield", 7), I("lock", 0)},
          {I("read", 7), I("mutate", 0)}>>

Root(id, surface, type, name) ==
    [id |-> id, pkg |-> "app", surface |-> surface, type |-> type, name |-> name,
     methods |-> {}, state |-> "", affinity |-> "", transport |-> "",
     registry |-> ""]
Serve == Root("Serve", "function", 0, "Serve")
Hub   == Root("Hub", "struct", 1, "Hub")
Conn  == Root("WebConn", "struct", 2, "WebConn")
Keyed(r) == [r EXCEPT !.registry = "key"]

Regions == <<
    <<Serve>>, <<Hub>>, <<[Hub EXCEPT !.methods = {"Run"}]>>,
    <<Root("Hub.Run", "method", 1, "Run")>>,
    <<Root("Store", "interface", 4, "Store")>>,
    <<Hub, Serve>>, <<Hub, Serve, Conn>>, <<Conn>>,
    <<Root("SQL", "struct", 3, "SQL")>>, <<Root("Handle", "function", 0, "Handle")>>,
    <<Keyed(Serve)>>, <<Keyed(Hub), Keyed(Serve)>>,
    <<[Hub EXCEPT !.methods = {"Send"}, !.state = "singleton"], Conn>>,
    <<[Hub EXCEPT !.methods = {"Run", "Send"}], [Serve EXCEPT !.pkg = "gone"]>>,
    <<[Conn EXCEPT !.state = "stateless"]>>,
    <<[Serve EXCEPT !.state = "affinity", !.transport = "grpc"]>>>>

\* Which literal, helper and store Serve meets, for one Hub; and each Hub.
Picks == {<<s, l, h, 1, 2, p>> : s \in 1..2, l \in 1..3, h \in 1..4, p \in 1..2}
         \cup {<<s, 1, 1, 1, 1, 3>> : s \in 1..2}
         \cup {<<s, 1, 1, r, d, 1>> : s \in 1..2, r \in 1..4, d \in 1..4}
TheInputs ==
    {[prog |-> Program(Serves[k[1]], Literals[k[2]], Helpers[k[3]],
                       Runs[k[4]], Sends[k[5]], Puts[k[6]]),
      region |-> Regions[g]] : k \in Picks, g \in DOMAIN Regions}
=============================================================================
