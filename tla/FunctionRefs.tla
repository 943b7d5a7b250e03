--------------------------- MODULE FunctionRefs ----------------------------
(***************************************************************************)
(* What the entry-path probe (pkg/compiler/entrypath) reads in a program:  *)
(* references to function values, evidence of a boundary, neighbours in    *)
(* the call graph, and the order in which owners are indexed.              *)
(*                                                                         *)
(* Functions, numbered in the order of functionSortKey, have a package, a  *)
(* receiver or not, the types of their SSA parameters (the receiver first) *)
(* and instructions:                                                       *)
(*   "store"  val into addr           "return"  vals                       *)
(*   "closure" of callee over vals    "call", "go"  val, statically callee *)
(*   "pass"   a conversion of val     "other"   anything else that uses val*)
(* with def the value defined; no callee is 0.  Value <<f, 0>> is function *)
(* f, <<f, k>> its k-th parameter, and larger numbers its registers.       *)
(***************************************************************************)
EXTENDS Integers, SequencesExt, Listing

VARIABLE input      \* [prog, main, roots, mode, boundary, spec, opts]

prog == input.prog  \* [fn, val, rta, vta]; val: [kind, type, under, key]
opts == input.opts
Fns  == DOMAIN prog.fn
Pkg(f)  == prog.fn[f].pkg
Code(f) == prog.fn[f].code
Instrs(f) == ToSet(Code(f))
NoVal == <<0, 0>>

\* Whether n things exhaust a limit; 0 stands for a limit that is not met.
AtLimit(n, limit) == limit > 0 /\ n >= limit

-----------------------------------------------------------------------------
(* References.                                                             *)

Calls == {"call", "go"}

RefsAt(f, n) ==
    LET i == Code(f)[n]
        Ref(kind, arg, v) ==
            [owner |-> f, at |-> n, kind |-> kind, arg |-> arg, operand |-> v]
        Each(kind) == {Ref(kind, k, i.vals[k]) : k \in DOMAIN i.vals}
    IN  CASE i.op = "store"   -> {Ref("store", 0, i.val)}
          [] i.op = "return"  -> Each("return")
          [] i.op = "closure" -> Each("capture")
          [] i.op = "call"    -> {Ref("direct_invoke", 0, i.val)} \cup Each("call_arg")
          [] i.op = "go"      -> {Ref("go_launch", 0, i.val)} \cup Each("go_arg")
          [] OTHER            -> {Ref("operand", 0, i.val)}

Refs(f) == UNION {RefsAt(f, n) : n \in DOMAIN Code(f)}
InstrOf(ref) == Code(ref.owner)[ref.at]
IsArg(ref) == ref.kind \in {"call_arg", "go_arg"}

\* The static callee a reference is passed to.
CalleesForRef(ref) ==
    IF IsArg(ref) THEN {InstrOf(ref).callee} \ {0} ELSE {}

StaticCallees(f) == {i.callee : i \in {j \in Instrs(f) : j.op \in Calls}} \ {0}

\* The functions a reference leads the targeted expansion to.
ExpansionOwners(ref) ==
    CASE ref.kind = "return"  -> {ref.owner}
      [] ref.kind = "capture" -> {InstrOf(ref).callee}
      [] OTHER                -> CalleesForRef(ref)

-----------------------------------------------------------------------------
(* The net/http predicate.  It matches the type of a value, and that of    *)
(* the struct a field address lies in or the pointer a value is read from. *)

IsBoundary(type) == type \in {"handler", "handlerfunc", "server", "serving"}
IsInterface(type) == type \in {"handler", "iface"}
Matches(types) == Cardinality({k \in DOMAIN types : IsBoundary(types[k])})

Params(f) == IF prog.fn[f].recv THEN Tail(prog.fn[f].params) ELSE prog.fn[f].params

\* callParamType: the types of a call's arguments as its signature has them.
ParamTypes(i) == IF i.callee = 0 THEN i.types ELSE prog.fn[i.callee].params

InstrEvidence(i) ==
    LET Value(v) == Matches(<<prog.val[v].type, prog.val[v].under>>)
    IN  CASE i.op = "store" -> Value(i.val) + Value(i.addr)
          [] i.op \in Calls ->
                 (IF i.callee = 0 THEN 0 ELSE Matches(Params(i.callee)))
                 + Matches(ParamTypes(i))
                 + Total([k \in DOMAIN i.vals |-> Value(i.vals[k])])
          [] OTHER -> 0

Evidence(f) ==
    Matches(Params(f))
    + Total([n \in DOMAIN Code(f) |-> InstrEvidence(Code(f)[n])])
HasEvidence(f) == Evidence(f) > 0

-----------------------------------------------------------------------------
(* The call graph: rapid type analysis from main and the init functions,   *)
(* or variable type analysis when it has a leaf that accepts a handler.    *)

NoGraph == [nodes |-> {}, edges |-> {}]
FallbackNeeded(g) ==
    \E f \in g.nodes : /\ \A e \in g.edges : e[1] # f
                       /\ Matches(Params(f)) > 0
ApplicationGraph ==
    CASE ~input.main -> NoGraph
      [] input.main /\ FallbackNeeded(prog.rta) -> prog.vta
      [] OTHER -> prog.rta

CallersIn(g, f) == {e[1] : e \in {d \in g.edges : d[2] = f}}
AdjacentIn(g, f) ==
    (CallersIn(g, f) \cup {e[2] : e \in {d \in g.edges : d[1] = f}}
     \cup StaticCallees(f)) \ {f}

-----------------------------------------------------------------------------
(* The order of the owners in the index of the bridge: by class, then by   *)
(* evidence, by references to a start, by package selected, by name.       *)

Class(why, evidence, selected, matched) ==
    CASE "bridge" \notin why -> 4
      [] "boundary" \in why \/ evidence > 0 -> 0
      [] selected /\ matched > 0 -> 1
      [] selected -> 2
      [] OTHER -> 3

\* A mutant: the owners are left in the order of their names.
BeforeByName(a, b, rank) == a < b

Before(a, b, rank) ==
    LET x == rank[a]
        y == rank[b]
    IN  \/ x.class < y.class
        \/ x.class = y.class /\ x.evidence > y.evidence
        \/ /\ x.class = y.class /\ x.evidence = y.evidence
           /\ x.matched > y.matched
        \/ /\ x.class = y.class /\ x.evidence = y.evidence
           /\ x.matched = y.matched /\ x.selected /\ ~y.selected
        \/ /\ x.class = y.class /\ x.evidence = y.evidence
           /\ x.matched = y.matched /\ x.selected = y.selected /\ a < b

Sorted(rank) ==
    InOrder(DOMAIN rank,
            {p \in (DOMAIN rank) \X (DOMAIN rank) : Before(p[1], p[2], rank)})
=============================================================================
