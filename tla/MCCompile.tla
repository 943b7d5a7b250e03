----------------------------- MODULE MCCompile -----------------------------
(***************************************************************************)
(* Applications for the demo compiler: main packages of up to eight        *)
(* statements with one to three interfaces to extract, among them those    *)
(* whose plan is refused or whose extraction breaks off, and packages of   *)
(* several interfaces.                                                     *)
(***************************************************************************)
EXTENDS Compile

Stmt(kind, defs, args) ==
    [kind |-> kind, file |-> 1, top |-> FALSE, exec |-> TRUE, block |-> TRUE,
     form |-> "call", first |-> IF defs = <<>> THEN 0 ELSE defs[1],
     defs |-> ToSet(defs), others |-> {}, args |-> args,
     uses |-> ToSet(args) \ {Inlined, Opaque}]
Assign(defs, args) == Stmt("assign", defs, args)
Call(args) == Stmt("expr", <<>>, args)
If(args) == Stmt("control", <<>>, args)
Top(defs, args) == [Stmt("decl", defs, args) EXCEPT !.top = TRUE, !.exec = FALSE]
In(file, s) == [s EXCEPT !.file = file]
Inner(s) == [s EXCEPT !.exec = FALSE]

Ids(n) == [v \in 1..n |-> v]
Main(n, code) == [files |-> 2, id |-> Ids(n), code |-> code]
Same(m, v, w) == [m EXCEPT !.id[v] = m.id[w]]

\* cfg, (db, err), a check, a pool that is used, and two services.
Shop == Main(6, <<Top(<<1>>, <<>>), Assign(<<3, 2>>, <<1>>), If(<<2>>),
                  Assign(<<6>>, <<3>>), Call(<<6, 3>>), Assign(<<4>>, <<3, Inlined>>),
                  Assign(<<5>>, <<4, 6>>), Call(<<5>>)>>)
\* A composite, an alias, and a statement whose variable is resolved later.
Chain == Main(6, <<Top(<<1>>, <<>>), Assign(<<2>>, <<1>>), Assign(<<3>>, <<2>>),
                   Assign(<<4>>, <<Inlined>>), Call(<<4>>), Call(<<4, 3>>),
                   Assign(<<5>>, <<3>>), Assign(<<6>>, <<5, 4>>)>>)
\* Two files with a service each, and a declaration in the second.
Split == Main(4, <<Top(<<1>>, <<>>), Assign(<<2>>, <<1>>), In(2, Top(<<3>>, <<1>>)),
                   In(2, Assign(<<4>>, <<3>>))>>)
\* A variable passed twice; two of one declaration.
Twice == Main(3, <<Assign(<<1>>, <<>>), Assign(<<2>>, <<1, 1>>), Assign(<<3>>, <<Inlined>>)>>)
Pair == Main(3, <<Assign(<<1, 2>>, <<>>), Assign(<<3>>, <<1, 2>>)>>)
\* Two variables of the same name: in another function, and shadowed.
Homonym == Same(Main(4, <<Inner(Assign(<<1>>, <<Inlined>>)), Assign(<<2>>, <<>>),
                          Assign(<<3>>, <<2>>), Assign(<<4>>, <<3, 2>>)>>), 1, 2)
Shadow == Same(Main(3, <<Assign(<<1>>, <<>>), Inner(Assign(<<2>>, <<1>>)),
                         Assign(<<3>>, <<2>>)>>), 1, 2)
\* What is not supported: a value-less declaration, a field, an operation,
\* an assignment to a variable that exists, an unknown form.
NoValue == Main(2, <<[Stmt("decl", <<1>>, <<>>) EXCEPT !.form = "none"],
                     Assign(<<2>>, <<1>>)>>)
Field == Main(3, <<Assign(<<1>>, <<>>), Call(<<1, 3>>), Assign(<<2>>, <<1>>)>>)
Operation == Main(2, <<Assign(<<1>>, <<>>), Assign(<<2>>, <<1, Opaque>>)>>)
Again == Main(2, <<Assign(<<1>>, <<>>), [Assign(<<2>>, <<1>>) EXCEPT !.defs = {}]>>)
Form == Main(2, <<[Assign(<<1>>, <<>>) EXCEPT !.form = "other"], Assign(<<2>>, <<1>>)>>)
\* A group of declarations, a call within a call, a statement of a case.
Group == Main(3, <<[Top(<<1>>, <<>>) EXCEPT !.others = {2}], Assign(<<3>>, <<2>>)>>)
Nested == Main(2, <<Assign(<<1>>, <<>>),
                    [Assign(<<2>>, <<Inlined>>) EXCEPT !.uses = {1}]>>)
Case == Main(2, <<Assign(<<1>>, <<>>), [Assign(<<2>>, <<1>>) EXCEPT !.block = FALSE]>>)

Iface(name, stmt) == [name |-> name, pragmas |-> 1, implementers |-> 1,
                      called |-> TRUE, stmt |-> stmt, methods |-> "ok",
                      declares |-> {"get"}, has |-> {"get"}]
App(m, ifaces) == [main |-> m, ifaces |-> ifaces, manifest |-> "deployment", port |-> TRUE]

\* Three services of one package.
Trio == Main(3, <<Assign(<<1>>, <<>>), Assign(<<2>>, <<>>), Assign(<<3>>, <<>>)>>)
With(i, declares, has) == [i EXCEPT !.declares = declares, !.has = has]
Reader(stmt) == Iface("user", stmt)
Writer(stmt) == With(Reader(stmt), {"put"}, {"put"})
Both(stmt) == With(Reader(stmt), {"get", "put"}, {"get", "put"})
Embeds(stmt) == With(Reader(stmt), {"put"}, {"get", "put"})
OnePackage ==
    {App(Trio, <<a, b, c>>) :
        a \in {Reader(1), Both(1)}, b \in {Reader(2), Writer(2)}, c \in {Both(3), Embeds(3)}}
    \cup {App(Trio, <<Embeds(1), Both(2)>>), App(Trio, <<Embeds(1), Iface("post", 2)>>)}

Plain2 == App(Shop, <<Iface("user", 6), Iface("post", 7)>>)
Apps ==
    {Plain2, App(Shop, <<Iface("user", 7), Iface("user", 6)>>),
     App(Shop, <<Iface("user", 6), Iface("post", 6)>>),
     App(Chain, <<Iface("user", 8)>>),
     App(Split, <<Iface("user", 2), Iface("post", 4)>>)}
    \cup {App(m, <<Iface("user", Len(m.code)), Iface("post", Len(m.code) - 1)>>) :
             m \in {Twice, Pair, Homonym, Shadow}}
    \cup {App(m, <<Iface("user", Len(m.code))>>) :
             m \in {NoValue, Field, Operation, Again, Form, Group, Nested, Case}}
Others ==
    {[Plain2 EXCEPT !.ifaces[1].pragmas = 0], [Plain2 EXCEPT !.ifaces[1].implementers = 2],
     [Plain2 EXCEPT !.ifaces[1].called = FALSE], [Plain2 EXCEPT !.ifaces[2].stmt = None],
     [Plain2 EXCEPT !.ifaces[1].methods = "unsupported"],
     [Plain2 EXCEPT !.ifaces[2].methods = "panic"],
     [Plain2 EXCEPT !.ifaces[1].pragmas = 0, !.ifaces[2].pragmas = 0],
     [Plain2 EXCEPT !.manifest = "missing"], [Plain2 EXCEPT !.manifest = "other"],
     [Plain2 EXCEPT !.port = FALSE]}
MCInputs == Apps \cup Others \cup OnePackage
=============================================================================
