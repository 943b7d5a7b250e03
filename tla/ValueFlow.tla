----------------------------- MODULE ValueFlow ------------------------------
(***************************************************************************)
(* The augmentation passes of pkg/activation: how they recognise function  *)
(* values that are stored, passed on and called elsewhere, and the edges   *)
(* they add (structfield.go, predicates.go, goroutine.go, pkgvar.go,       *)
(* funcarg.go, mapfunc.go, interfacefield.go).  ActivationSearch takes     *)
(* what a pass connects as given; here it is computed from the program.    *)
(*                                                                         *)
(* A function has parameters, SSA instructions, and says whether it is     *)
(* generic, a bound method wrapper, and what concrete types it returns.    *)
(* Instructions:                                                           *)
(*   "store"  val into addr               "update"  val into map           *)
(*   "call"   of value, statically callee (0 if none), with args;          *)
(*            how is "call", "go", "defer" or "invoke"                     *)
(*   "return" vals                                                         *)
(* A value has a kind k, with the conversions around it taken off:         *)
(*   "fn" f              a function        "closure" f over binds          *)
(*   "param" i           a parameter       "result"  of callee f with args *)
(*   "cell" c            the address of a local variable, "load" c         *)
(*   "free" i            a captured variable                               *)
(*   "field", "global"   loaded from key   "element" of map, "made" by a   *)
(*   "impl" type         another value               call of an element    *)
(* An address is a value of kind "cell", "field" or "global" or "slot".    *)
(* Every captured variable is captured by its address: a binding is a cell *)
(* unless it is the receiver of a bound method.                            *)
(***************************************************************************)
EXTENDS Integers, SequencesExt, Listing

CONSTANTS
    Inputs,     \* [fn, nodes, fields, method, predicates]: programs and graphs
    MaxRounds   \* propagateMapParamStores: 20

Listed(s) == s \in Seq(ToSet(s))

\* Functions, instructions and arguments are slices.
ASSUME ProgramAssumption ==
    /\ MaxRounds \in Nat
    /\ \A P \in Inputs :
          /\ Listed(P.fn)
          /\ \A f \in DOMAIN P.fn :
                /\ P.fn[f].params \in Nat /\ Listed(P.fn[f].code)
                /\ \A i \in ToSet(P.fn[f].code) : i.op = "call" => Listed(i.args)

VARIABLES
    prog,       \* the program
    callGraph,  \* [nodes, edges]
    stage,      \* the pass to run next
    memo,       \* AugmentFuncArgs: the parameters <<f, i>> it knows about, [yes, no]
    index,      \* mapFuncIndex: [stores, facts]
    rounds,     \* PropagationIterations
    propagationLimitHit \* PropagationLimitHit
mapVars == <<index, rounds, propagationLimitHit>>
flowVars == <<prog, callGraph, stage, memo, mapVars>>

Fns     == DOMAIN prog.fn
Ordered == [i \in 1..Len(prog.fn) |-> i]    \* functions are named in this order
Code(f) == prog.fn[f].code
Instrs(f) == ToSet(Code(f))
CallsIn(f) == {i \in Instrs(f) : i.op = "call"}
Stores(f)  == {i \in Instrs(f) : i.op = "store"}
NoFn == 0

TheOne(s) == IF Cardinality(s) = 1 THEN CHOOSE x \in s : TRUE ELSE NoFn

-----------------------------------------------------------------------------
(* Function values.                                                        *)

\* A bound method stands for the method it calls.
ClosureTarget(f) ==
    LET callees == {i.callee : i \in CallsIn(f)} \ {NoFn}
    IN  IF prog.fn[f].bound /\ TheOne(callees) # NoFn
        THEN TheOne(callees) ELSE f

\* The captured variable a closure calls, if it calls but one.
FreeCalls(f) == {i \in CallsIn(f) : i.how # "invoke" /\ i.value.k = "free"}
SingleCalledFreeVar(f) == TheOne({i.value.i : i \in FreeCalls(f)})

\* A parameter, or the only one that is stored in the variable.
ParamOfBinding(f, v) ==
    CASE v.k = "param" -> v.i
      [] v.k = "cell"  -> TheOne({i.val.i : i \in {j \in Stores(f) :
                                     j.addr = v /\ j.val.k = "param"}})
      [] OTHER -> NoFn

\* The parameter that a closure made in f calls.
ParamOfClosure(f, v) ==
    IF v.k = "closure" /\ SingleCalledFreeVar(v.f) \in DOMAIN v.binds
    THEN ParamOfBinding(f, v.binds[SingleCalledFreeVar(v.f)]) ELSE NoFn

\* A wrapper returns once, and then a closure that calls a parameter.
IsReturn(i) == i.op = "return"
Returns(w)  == SelectSeq(Code(w), IsReturn)
DelegatedParam(w) ==
    LET returns == Returns(w)
    IN  IF Len(returns) = 1 /\ Len(returns[1].vals) = 1
        THEN ParamOfClosure(w, returns[1].vals[1]) ELSE NoFn

\* What a wrapper is given to call, if v is the result of one.
Unwrapped(v) ==
    IF v.k = "result" /\ DelegatedParam(v.f) \in DOMAIN v.args
    THEN v.args[DelegatedParam(v.f)] ELSE v

\* A value under more and more of its wrappers; what such a sequence ends in;
\* the function a value is behind them all, or NoFn.
Layers(v) == LET at[n \in Nat] == IF n = 0 THEN v ELSE Unwrapped(at[n - 1]) IN at
Settled(at) ==
    LET end[n \in Nat] == IF at[n + 1] = at[n] THEN at[n] ELSE end[n + 1]
    IN  end[0]
Resolved(v) ==
    LET inner == Settled(Layers(v))
    IN  CASE inner.k = "fn"      -> inner.f
          [] inner.k = "closure" -> ClosureTarget(inner.f)
          [] OTHER -> NoFn

ResolvedIn(vals) == {Resolved(v) : v \in vals} \ {NoFn}

-----------------------------------------------------------------------------
(* Edges.                                                                  *)

WithEdges(g, f, targets) ==
    LET real == {t \in targets : ~prog.fn[t].generic}
    IN  [nodes |-> g.nodes \cup real, edges |-> g.edges \cup ({f} \X real)]

\* A walk over all functions: one that is not yet a node when it is its turn
\* is passed over.
Walk(g, targets) ==
    FoldLeft(LAMBDA h, f : IF f \in h.nodes THEN WithEdges(h, f, targets[f]) ELSE h,
             g, Ordered)

\* A walk over a copy of the nodes.
WalkSnapshot(g, targets) ==
    FoldLeft(LAMBDA h, f : IF f \in g.nodes THEN WithEdges(h, f, targets[f]) ELSE h,
             g, Ordered)

Field(key)  == [k |-> "field", key |-> key]
Global(key) == [k |-> "global", key |-> key]

\* Everything the program stores there.
StoredAt(addr) == UNION {{i.val : i \in {j \in Stores(f) : j.addr = addr}} : f \in Fns}

FieldStores(key) == ResolvedIn(StoredAt(Field(key)))

\* Only a plain call is a read: a field that is launched or deferred is not.
ReadsField(f, key) ==
    \E i \in CallsIn(f) : i.how = "call" /\ i.value = Field(key)

ConnectFields(g) ==
    LET Read(h, key) == Walk(h, [f \in Fns |->
                IF ReadsField(f, key) THEN FieldStores(key) ELSE {}])
    IN  FoldLeft(Read, g, prog.fields)

\* A predicate is one of DefaultFrameworkPredicates whose type the program has;
\* its dispatch function becomes a node.
ApplyPredicate(g, p) ==
    IF p.dispatch = NoFn THEN g
    ELSE WithEdges([g EXCEPT !.nodes = @ \cup {p.dispatch}], p.dispatch, FieldStores(p.key))

GoTargets(f) ==
    {IF i.value.k = "fn" THEN i.value.f
     ELSE IF i.value.k = "closure" THEN ClosureTarget(i.value.f)
     ELSE IF i.callee = NoFn THEN NoFn ELSE ClosureTarget(i.callee)
        : i \in {j \in CallsIn(f) : j.how = "go"}} \ {NoFn}

\* Functions and concrete types stored in a package variable.
GlobalFuncs(key) == {ClosureTarget(f) : f \in ResolvedIn(StoredAt(Global(key)))}
GlobalTypes(key) == {v.type : v \in {w \in StoredAt(Global(key)) : w.k = "impl"}}
MethodsOf(types) == {prog.method[t] : t \in types \cap DOMAIN prog.method}

GlobalTargets(f) ==
    UNION {IF i.how = "invoke" THEN MethodsOf(GlobalTypes(i.value.key))
                               ELSE GlobalFuncs(i.value.key)
             : i \in {j \in CallsIn(f) : j.value.k = "global"}}

Goto(p) == stage' = p

StructFields ==
    /\ stage = "structfield" /\ Goto("predicates")
    /\ callGraph' = ConnectFields(callGraph)
    /\ UNCHANGED <<prog, memo, mapVars>>

Predicates ==
    /\ stage = "predicates" /\ Goto("goroutine")
    /\ callGraph' = FoldLeft(ApplyPredicate, callGraph, prog.predicates)
    /\ UNCHANGED <<prog, memo, mapVars>>

Goroutines ==
    /\ stage = "goroutine" /\ Goto("pkgvars")
    /\ callGraph' = WalkSnapshot(callGraph, [f \in Fns |-> GoTargets(f)])
    /\ UNCHANGED <<prog, memo, mapVars>>

PackageVars ==
    /\ stage = "pkgvars" /\ Goto("funcargs")
    /\ callGraph' = Walk(callGraph, [f \in Fns |-> GlobalTargets(f)])
    /\ UNCHANGED <<prog, memo, mapVars>>

-----------------------------------------------------------------------------
(* Callback arguments.                                                     *)

\* What a closure captures, and what is stored in the variable a value is
\* loaded from.  A binding that is the address of a variable is not looked into.
Within(f, v) ==
    CASE v.k = "closure" -> ToSet(v.binds)
      [] v.k = "load"    -> {s.val : s \in {t \in Stores(f) : t.addr = [k |-> "cell", c |-> v.c]}}
      [] OTHER -> {}

\* Whether v, in f, is the i-th parameter or may hold it.
Opened(f, values) == UNION {{w} \cup Within(f, w) : w \in values}
Held(f, v) ==
    LET held[n \in Nat] == IF n = 0 THEN {v} ELSE Opened(f, held[n - 1]) IN held
Matches(f, v, i) == \E w \in Settled(Held(f, v)) : w.k = "param" /\ w.i = i

BeyondLocal(addr) == addr.k \in {"field", "global", "slot"}
Yes     == <<>>
Nothing == <<NoFn>>
Keys == UNION {{f} \X (1..prog.fn[f].params) : f \in Fns}

\* What an instruction does with the i-th parameter of f: it registers or calls
\* it (Yes), or hands it on, argument by argument, as a parameter that g has.
HandedAs(f, i, n) ==
    [j \in 1..Len(n.args) |-> IF <<n.callee, j>> \in Keys /\ Matches(f, n.args[j], i)
                              THEN <<n.callee, j>> ELSE Nothing]
Registers(f, i, n) ==
    \/ n.op = "call"   /\ Matches(f, n.value, i)
    \/ n.op = "store"  /\ Matches(f, n.val, i) /\ BeyondLocal(n.addr)
    \/ n.op = "update" /\ Matches(f, n.val, i)
    \/ n.op = "return" /\ \E j \in DOMAIN n.vals : Matches(f, n.vals[j], i)
Uses(f, i, n) ==
    IF Registers(f, i, n) THEN <<Yes>>
    ELSE IF n.op = "call" /\ n.callee # NoFn THEN HandedAs(f, i, n) ELSE <<>>

AllUses(key) ==
    LET code == Code(key[1])
    IN  Concat([n \in 1..Len(code) |-> Uses(key[1], key[2], code[n])])

\* A mutant: the memo forgets which parameter it was about.
RememberFn(m, key, answer) ==
    LET keys == {key[1]} \X (1..prog.fn[key[1]].params)
    IN  IF answer THEN [m EXCEPT !.yes = @ \cup keys] ELSE [m EXCEPT !.no = @ \cup keys]

Remember(m, key, answer) ==
    IF answer THEN [m EXCEPT !.yes = @ \cup {key}] ELSE [m EXCEPT !.no = @ \cup {key}]

\* A question: may key call back, given what is known and which parameters are
\* being asked about?
Memos     == [yes : SUBSET Keys, no : SUBSET Keys]
Replies   == [answer : BOOLEAN, memo : Memos]
Questions == [key : Keys, memo : Memos, visiting : SUBSET Keys]
Question(key, m, visiting) == [key |-> key, memo |-> m, visiting |-> visiting]
Reply(answer, m) == [answer |-> answer, memo |-> m]
Known(m) == m.yes \cup m.no

\* The uses of a parameter in turn: the first that calls back answers; the
\* parameters it is handed on as are asked by replies.
Use(replies, q, r, use) ==
    IF r.answer \/ use = Nothing THEN r
    ELSE IF use = Yes THEN Reply(TRUE, r.memo)
    ELSE replies[Question(use, r.memo, q.visiting \cup {q.key})]
AskEach(replies, q, uses) ==
    LET asked[n \in 0..Len(uses)] ==
            IF n = 0 THEN Reply(FALSE, q.memo) ELSE Use(replies, q, asked[n - 1], uses[n])
    IN  asked[Len(uses)]
Ask(replies, q) ==
    LET end == AskEach(replies, q, AllUses(q.key))
    IN  Reply(end.answer, Remember(end.memo, q.key, end.answer))

\* parameterMayCallback: what is known is not asked again, and a parameter that
\* is being asked about does not call back.  Every call within a call asks
\* about one parameter more.
Closed(q) == Reply(q.key \in q.memo.yes, q.memo)
Open(q)   == q.key \notin Known(q.memo) \cup q.visiting
Deeper(replies) ==
    [q \in Questions |-> IF Open(q) THEN Ask(replies, q) ELSE Closed(q)]
MayCallback(q) ==
    LET replies[depth \in 0..Cardinality(Keys)] ==
            IF depth = 0 THEN [r \in Questions |-> Closed(r)] ELSE Deeper(replies[depth - 1])
    IN  replies[Cardinality(Keys)][q]

\* Whether to connect an argument of a call.  A parameter that the callee lacks
\* does not call back.
Asked(m, a) ==
    IF Resolved(a.value) = NoFn THEN Reply(FALSE, m)
    ELSE IF a.callee = NoFn THEN Reply(TRUE, m)
    ELSE IF <<a.callee, a.at>> \in Keys THEN MayCallback(Question(<<a.callee, a.at>>, m, {}))
    ELSE Reply(FALSE, m)

\* The arguments of the calls in the functions that are nodes.
Arguments ==
    LET InCall(f, call) ==
            [j \in 1..Len(call.args) |->
                [caller |-> f, callee |-> call.callee, at |-> j, value |-> call.args[j]]]
        InInstr(f, i) == IF i.op = "call" THEN InCall(f, i) ELSE <<>>
        InFn(f) ==
            IF f \notin callGraph.nodes THEN <<>>
            ELSE Concat([n \in 1..Len(Code(f)) |-> InInstr(f, Code(f)[n])])
    IN  Concat([f \in Fns |-> InFn(f)])

NothingKnown == [yes |-> {}, no |-> {}]

FuncArgs ==
    LET all == Arguments
        known[n \in 0..Len(all)] ==
            IF n = 0 THEN NothingKnown ELSE Asked(known[n - 1], all[n]).memo
        connected == {n \in 1..Len(all) : Asked(known[n - 1], all[n]).answer}
        To(f) == {Resolved(all[n].value) : n \in {k \in connected : all[k].caller = f}}
    IN  /\ stage = "funcargs" /\ Goto("mapscan")
        /\ callGraph' = FoldLeft(LAMBDA g, f : WithEdges(g, f, To(f)), callGraph, Ordered)
        /\ memo' = known[Len(all)]
        /\ UNCHANGED <<prog, mapVars>>

-----------------------------------------------------------------------------
(* Maps of functions.  A map is named by the package variable it is loaded *)
(* from, any other by its type.                                            *)

ParamOf(f, v) ==
    IF v.k = "load" THEN ParamOfBinding(f, [k |-> "cell", c |-> v.c])
                    ELSE ParamOfBinding(f, v)
StoredParam(f, v) == IF v.k = "closure" THEN ParamOfClosure(f, v) ELSE ParamOf(f, v)

\* mapFuncStore: function t is stored in map m; mapParamStore: what f is given
\* as its i-th parameter is.
Stored(m, v) == {<<m, ClosureTarget(t)>> : t \in ResolvedIn({v})}
Fact(f, m, i) == IF i = NoFn THEN {} ELSE {<<f, m, i>>}

Updates(f) == {i \in Instrs(f) : i.op = "update"}
DirectStores == UNION {UNION {Stored(u.map, u.val) : u \in Updates(f)} : f \in Fns}
DirectFacts ==
    UNION {UNION {Fact(f, u.map, StoredParam(f, u.val)) : u \in Updates(f)} : f \in Fns}

Callsites ==
    UNION {{[caller |-> f, callee |-> i.callee, args |-> i.args]
              : i \in {j \in CallsIn(f) : j.callee # NoFn}} : f \in Fns}

ScanMaps ==
    /\ stage = "mapscan" /\ Goto("propagate")
    /\ index' = [stores |-> DirectStores, facts |-> DirectFacts]
    /\ UNCHANGED <<prog, callGraph, memo, rounds, propagationLimitHit>>

\* propagateMapParamFact at every call of a function with a fact.
Links == {l \in index.facts \X Callsites :
            l[2].callee = l[1][1] /\ l[1][3] \in DOMAIN l[2].args}
Arg(l) == l[2].args[l[1][3]]
NewStores == UNION {Stored(l[1][2], Arg(l)) : l \in Links}

FactsOf(l) == Fact(l[2].caller, l[1][2], ParamOf(l[2].caller, Arg(l)))

\* A mutant: a function has one fact of a map, whatever its parameter.
FirstFacts ==
    LET new == UNION {FactsOf(l) : l \in Links}
    IN  {n \in new : \A k \in new \cup index.facts :
                        (k[1] = n[1] /\ k[2] = n[2]) => n[3] <= k[3]}

NewFacts == UNION {FactsOf(l) : l \in Links}

PropagateMaps ==
    /\ stage = "propagate" /\ rounds < MaxRounds
    /\ index' = [stores |-> index.stores \cup NewStores,
                 facts |-> index.facts \cup NewFacts]
    /\ rounds' = rounds + 1
    /\ stage' = IF index' = index THEN "lookups" ELSE stage
    /\ UNCHANGED <<prog, callGraph, memo, propagationLimitHit>>

StopPropagation ==
    /\ stage = "propagate" /\ rounds >= MaxRounds
    /\ propagationLimitHit' = TRUE /\ Goto("lookups")
    /\ UNCHANGED <<prog, callGraph, memo, index, rounds>>

InMap(m) == {s[2] : s \in {r \in index.stores : r[1] = m}}
Looked(f) == {i.value.map : i \in {j \in CallsIn(f) : j.value.k = "element"}}

LookUps ==
    /\ stage = "lookups" /\ Goto("interfaces")
    /\ callGraph' = Walk(callGraph, [f \in Fns |-> UNION {InMap(m) : m \in Looked(f)}])
    /\ UNCHANGED <<prog, memo, mapVars>>

-----------------------------------------------------------------------------
(* Interface fields.  Only what the call of a map element returns has known *)
(* types: the conversion to an interface is taken off any other value       *)
(* before its type is read.                                                 *)

ResultTypes(v) ==
    IF v.k = "made" THEN UNION {prog.fn[t].results : t \in InMap(v.map)} ELSE {}

FieldTypes(key) == UNION {ResultTypes(v) : v \in StoredAt(Field(key))}

InvokeTargets(f) ==
    UNION {MethodsOf(FieldTypes(i.value.key))
             : i \in {j \in CallsIn(f) : j.how = "invoke" /\ j.value.k = "field"}}

InterfaceFields ==
    /\ stage = "interfaces" /\ Goto("done")
    /\ callGraph' = Walk(callGraph, [f \in Fns |-> InvokeTargets(f)])
    /\ UNCHANGED <<prog, memo, mapVars>>

FlowInit ==
    /\ prog \in Inputs
    /\ callGraph = [nodes |-> prog.nodes, edges |-> {}]
    /\ stage = "structfield" /\ memo = NothingKnown
    /\ index = [stores |-> {}, facts |-> {}] /\ rounds = 0 /\ propagationLimitHit = FALSE

FlowNext ==
    \/ StructFields \/ Predicates \/ Goroutines \/ PackageVars \/ FuncArgs
    \/ ScanMaps \/ PropagateMaps \/ StopPropagation \/ LookUps
    \/ InterfaceFields

FlowSpec == FlowInit /\ [][FlowNext]_flowVars

-----------------------------------------------------------------------------
(* Properties.                                                             *)

UsesOf(key) == ToSet(AllUses(key)) \ {Nothing}

\* Sets of parameters that hold every parameter with a use in them or with a
\* call, and sets that hold what the parameters in them are handed on as.
ClosedBack(uses) ==
    {S \in SUBSET Keys : \A k \in Keys \ S : uses[k] \cap ({Yes} \cup S) = {}}
ClosedOn(uses) == {S \in SUBSET Keys : \A k \in S : uses[k] \ {Yes} \subseteq S}

\* The parameters that are called or registered, at once or further down.
CallsBack(key) ==
    LET uses == [k \in Keys |-> UsesOf(k)] IN \A S \in ClosedBack(uses) : key \in S

\* Those a parameter is handed on as, at once or further down.
HandsTo(key) ==
    LET uses == [k \in Keys |-> UsesOf(k)]
    IN  {k \in Keys : \A S \in ClosedOn(uses) : UsesOf(key) \ {Yes} \subseteq S => k \in S}
Circular(key) == \E k \in {key} \cup HandsTo(key) : k \in HandsTo(k)

\* What the pass remembers of a parameter is so, whichever call came first and
\* whatever it asked on the way, unless the parameter is handed round in a
\* circle: then the answer given in the middle of the circle is kept
\* (funcarg.go:117-119, 165).
CallbacksAreFound ==
    /\ \A key \in memo.yes : CallsBack(key)
    /\ \A key \in memo.no : CallsBack(key) => Circular(key)

Positions == UNION {DOMAIN s.args : s \in Callsites}
Handed    == UNION {ToSet(s.args) : s \in Callsites}

\* A chain of n calls c, innermost first, hands the argument of the last to the
\* parameter a fact is about: call j passes it on as its argument p[j].
Chain(n, fact, c, p) ==
    /\ c[1].callee = fact[1] /\ p[1] = fact[3]
    /\ \A j \in 1..n : p[j] \in DOMAIN c[j].args
    /\ \A j \in 1..(n - 1) : /\ c[j + 1].callee = c[j].caller
                             /\ p[j + 1] = ParamOf(c[j].caller, c[j].args[p[j]])

\* What such a chain hands to a map; what is handed through at most max calls.
HandedBy(n, s) ==
    \E fact \in DirectFacts : \E c \in [1..n -> Callsites] : \E p \in [1..n -> Positions] :
        Chain(n, fact, c, p) /\ s \in Stored(fact[2], c[n].args[p[n]])
Carried(max) ==
    {s \in UNION {Stored(fact[2], v) : fact \in DirectFacts, v \in Handed} :
        \E n \in 1..max : HandedBy(n, s)}

\* A map holds what is stored in it and what reaches it through wrappers, as
\* many as there are rounds; if more would reach it through longer chains, the
\* limit is reported (mapfunc.go:136-171).
MapStoresAreExact ==
    stage \in {"lookups", "interfaces", "done"} =>
        /\ index.stores = DirectStores \cup Carried(MaxRounds)
        /\ ~propagationLimitHit => Carried(MaxRounds + 1) \subseteq index.stores
=============================================================================
