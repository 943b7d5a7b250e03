--------------------------- MODULE MCEntryProbe ----------------------------
(***************************************************************************)
(* A small server for the entry-path probe.  main passes handle through    *)
(* two wrappers to lib.Handle, and guard$1 as it is; handle calls the       *)
(* region root, serve.  Register 17 of main is a phi of 11 and 18.          *)
(***************************************************************************)
EXTENDS EntryProbe

I(op, val, addr, vals, callee, def, types) ==
    [op |-> op, val |-> val, addr |-> addr, vals |-> vals, callee |-> callee,
     def |-> def, types |-> types]
Call(callee, vals, def) == I("call", <<callee, 0>>, NoVal, vals, callee, def, <<>>)
Go(callee, vals) == I("go", <<callee, 0>>, NoVal, vals, callee, NoVal, <<>>)
Dynamic(val, vals, def, types) == I("call", val, NoVal, vals, 0, def, types)
Store(val, addr) == I("store", val, addr, <<>>, 0, NoVal, <<>>)
Give(val) == I("return", NoVal, NoVal, <<val>>, 0, NoVal, <<>>)
Close(callee, vals, def) == I("closure", NoVal, NoVal, vals, callee, def, <<>>)
Convert(val, def) == I("pass", val, NoVal, <<>>, 0, def, <<>>)
F(pkg, recv, params, code) == [pkg |-> pkg, recv |-> recv, params |-> params, code |-> code]

(* Functions: 1 (Router).Add, 2 app.guard, 3 app.guard$1, 4 app.handle,    *)
(* 5 app.main, 6 app.serve, 7 app.wrap, 8 lib.Handle, 9 lib.keep.          *)
Fn(via) == <<
    F(2, TRUE, <<"router", "handler">>, <<Store(<<1, 2>>, <<1, 11>>)>>),
    F(1, FALSE, <<"handler">>, <<Close(3, <<<<2, 1>>>>, <<2, 11>>), Give(<<2, 11>>)>>),
    F(1, FALSE, <<"writer">>, <<>>),
    F(1, FALSE, <<"writer">>, <<Call(6, <<>>, <<4, 11>>)>>),
    F(1, FALSE, <<>>,
      <<Convert(<<4, 0>>, <<5, 11>>),
        Call(2, <<<<5, 11>>>>, <<5, 12>>),
        Call(7, <<<<5, 12>>>>, <<5, 13>>),
        CASE via = "method" -> Call(1, <<<<5, 14>>, <<5, 13>>>>, <<5, 15>>)
          [] via = "itself" -> Dynamic(<<5, 13>>, <<<<5, 13>>>>, <<5, 15>>, <<"iface">>)
          [] via = "lib" -> Call(8, <<<<5, 13>>>>, <<5, 15>>),
        Call(8, <<<<3, 0>>>>, <<5, 16>>),
        Convert(<<5, 11>>, <<5, 17>>), Convert(<<5, 18>>, <<5, 17>>),
        Convert(<<5, 17>>, <<5, 18>>)>>),
    F(1, FALSE, <<>>, <<>>),
    F(1, FALSE, <<"handler">>, <<Store(<<7, 1>>, <<7, 11>>), Give(<<7, 1>>)>>),
    F(2, FALSE, <<"handler">>,
      <<Store(<<8, 1>>, <<8, 11>>), Go(9, <<<<8, 1>>>>),
        Dynamic(<<8, 12>>, <<<<8, 1>>>>, <<8, 13>>, <<"iface">>)>>),
    F(2, FALSE, <<"iface">>, <<Store(<<9, 1>>, <<9, 11>>)>>)>>

V(kind, type, under, key) == [kind |-> kind, type |-> type, under |-> under, key |-> key]
\* The parameters of guard and wrap are both called next, or are not.
Val(alike) ==
    [f \in {<<n, 0>> : n \in 0..9} |-> V("function", "other", "other", f[1])]
    @@ (<<1, 1>> :> V("param", "router", "other", 11))
    @@ (<<1, 2>> :> V("param", "handler", "other", 12))
    @@ (<<1, 11>> :> V("field", "handler", "serving", 13))
    @@ (<<2, 1>> :> V("param", "handler", "other", 21))
    @@ (<<2, 11>> :> V("register", "handlerfunc", "other", 22))
    @@ (<<3, 1>> :> V("param", "writer", "other", 31))
    @@ (<<4, 1>> :> V("param", "writer", "other", 42))
    @@ (<<4, 11>> :> V("register", "other", "other", 41))
    @@ (<<5, 11>> :> V("register", "handlerfunc", "other", 51))
    @@ (<<5, 12>> :> V("register", "handler", "other", 52))
    @@ (<<5, 13>> :> V("register", "handler", "other", 53))
    @@ (<<5, 14>> :> V("register", "router", "other", 54))
    @@ (<<5, 15>> :> V("register", "other", "other", 55))
    @@ [v \in {<<5, n>> : n \in 16..18} |-> V("register", "other", "other", 40 + v[2])]
    @@ (<<7, 1>> :> V("param", "handler", "other", IF alike THEN 21 ELSE 71))
    @@ (<<7, 11>> :> V("global", "handler", "other", 72))
    @@ (<<8, 1>> :> V("param", "handler", "other", 81))
    @@ (<<8, 11>> :> V("field", "handler", "server", 82))
    @@ (<<8, 12>> :> V("register", "other", "other", 83))
    @@ (<<8, 13>> :> V("register", "other", "other", 84))
    @@ (<<9, 1>> :> V("param", "iface", "other", 91))
    @@ (<<9, 11>> :> V("element", "iface", "other", 92))

Graph(edges) == [nodes |-> 1..9, edges |-> edges]
Direct == {<<5, 2>>, <<5, 7>>, <<5, 8>>, <<8, 9>>, <<4, 6>>}
Program(alike, via, rta) ==
    [fn |-> Fn(via), val |-> Val(alike), rta |-> rta,
     vta |-> Graph(Direct \cup {<<3, 4>>, <<5, 3>>})]
Rta == Graph(Direct \cup {<<3, 4>>, <<2, 3>>, <<9, 3>>, <<7, 9>>, <<1, 9>>})
Server == Program(FALSE, "lib", Rta)
Collapsed == Program(FALSE, "lib", Graph(Direct))
Alike == Program(TRUE, "lib", Rta)
ByMethod == Program(FALSE, "method", Rta)
PassedItself == Program(FALSE, "itself", Rta)

Default ==
    [clock |-> FALSE, index |-> FALSE, maxIndex |-> 0, targets |-> 0, uses |-> 0,
     depth |-> 3, reverse |-> 0, adjacent |-> 0, candidates |-> 0, packages |-> 0,
     reach |-> 1, starts |-> 0, owners |-> 0, perPackage |-> 0, instrs |-> 0]
NoOracle == [nodes |-> {}, starts |-> {}]
Input(prog_, mode, boundary, opts_) ==
    [prog |-> prog_, main |-> TRUE, roots |-> {6}, mode |-> mode,
     boundary |-> boundary, spec |-> NoOracle, opts |-> opts_]

Timed == [Default EXCEPT !.clock = TRUE]
Hurried == [Default EXCEPT !.index = TRUE]

MCInputs ==
    {Input(p, m, "all", o) :
        p \in {Server, Collapsed}, m \in {"all", "reverse-path", "http-sinks", "targeted",
                              "bridge", "oracle-bridge"},
        o \in {Default, Hurried, [Default EXCEPT !.maxIndex = 2]}}
    \cup {Input(Server, "targeted", b, o) :
        b \in {"all", "frontier"},
        o \in {Timed, [Default EXCEPT !.targets = 6], [Default EXCEPT !.uses = 6],
               [Default EXCEPT !.depth = 1]}}
    \cup {Input(p, m, "frontier", o) :
        p \in {Server, Collapsed}, m \in {"http-sinks", "targeted"},
        o \in {Default, Timed, [Default EXCEPT !.reach = 2],
               [Default EXCEPT !.reach = 0],
               [Default EXCEPT !.reverse = 2], [Default EXCEPT !.adjacent = 2],
               [Default EXCEPT !.candidates = 2], [Default EXCEPT !.packages = 1]}}
    \cup {Input(p, "bridge", "all", o) :
        p \in {Server, Collapsed},
        o \in {Default, Timed, [Default EXCEPT !.starts = 1], [Default EXCEPT !.owners = 4],
               [Default EXCEPT !.perPackage = 1], [Default EXCEPT !.perPackage = 2],
               [Default EXCEPT !.instrs = 4],
               [Default EXCEPT !.candidates = 2], [Default EXCEPT !.packages = 1]}}
    \cup {[Input(Server, "oracle-bridge", "all", o) EXCEPT !.spec = s] :
        s \in {[nodes |-> {4, 8}, starts |-> {}], [nodes |-> {4, 8}, starts |-> {4}]},
        o \in {Default, Timed, [Default EXCEPT !.owners = 2],
               [Default EXCEPT !.perPackage = 3]}}
    \cup {[Input(Server, m, "all", Default) EXCEPT !.main = FALSE] :
        m \in {"reverse-path", "bridge"}}
    \cup {Input(p, "all", "all", Default) : p \in {Alike, ByMethod, PassedItself}}
=============================================================================
