---------------------------- MODULE ActivationSearch --------------------------
(***************************************************************************)
(* Analyze (pkg/activation/analyzer.go): is the target reached from an     *)
(* entry point, and along which path?  Rapid type analysis gives a first   *)
(* call graph, Augment adds what it cannot see (function values in fields, *)
(* variables, maps and arguments) and explores what it added, and a        *)
(* breadth-first search looks for the target.                              *)
(*                                                                         *)
(* The program under analysis is three relations chosen at the start:      *)
(* calls resolved without types, calls resolved by types some other        *)
(* function makes live, and the flows the augmentation passes recognise.   *)
(***************************************************************************)
EXTENDS Naturals, Sequences, FiniteSets

CONSTANTS
    Functions,         \* the SSA functions of the program
    Entrypoints,       \* the main functions
    PossibleCalls,     \* <<caller, callee>>
    PossibleDispatch,  \* [caller, maker, callee]: caller reaches callee once
                       \*   maker, which makes its type live, is reachable
    PossibleFlows,     \* [pass, from, to]: what an augmentation pass connects
    Targets,           \* functions to look for
    Modes,             \* augmentation modes
    MaxIterations      \* maxAugmentIterations

\* runAugmentationPasses
PassesOf(mode) ==
    CASE mode = "all" -> <<"structfield", "predicates", "goroutine", "pkgvars",
                           "funcargs", "mapfuncs", "interfacefields">>
      [] mode = "predicates"  -> <<"structfield", "predicates">>
      [] mode = "structfield" -> <<"structfield">>
      [] mode = "goroutine"   -> <<"goroutine">>
      [] OTHER                -> << >>

\* These two walk a copy of the nodes made when they start; the others look
\* a reader up in the growing graph.
SnapshotPasses == {"goroutine", "funcargs"}

ASSUME ActivationAssumption ==
    /\ IsFiniteSet(Functions)
    /\ Entrypoints \subseteq Functions /\ Targets \subseteq Functions
    /\ PossibleCalls \subseteq Functions \X Functions
    /\ \A d \in PossibleDispatch :
          d.caller \in Functions /\ d.maker \in Functions /\ d.callee \in Functions
    /\ \A r \in PossibleFlows : r.from \in Functions /\ r.to \in Functions
    /\ MaxIterations \in Nat

VARIABLES
    calls, dispatch, flows,   \* the program
    target,                   \* the function to find
    mode, skip,               \* cfg.Augment, cfg.SkipAugmentWhenRTAReachable
    pc,                       \* the running phase
    expired,                  \* the context is done
    nodes, edges,             \* the graph
    iterations, limitHit,     \* graph.AugmentIterations, AugmentLimitHit
    snapshot,                 \* nodes when the iteration began
    explored,                 \* state.exploredRoots
    pass, scan, todo,         \* the running pass, its copy of the nodes, its flows
    queue, seen, prev,        \* the search; prev[f] = f for an entry point
    path,                     \* the functions of result.Path, built backwards
    category                  \* result.Category, "none" for a path, "" until then

given   == <<calls, dispatch, flows, target, mode, skip>>
graph   == <<nodes, edges>>
augment == <<iterations, limitHit, snapshot, explored, pass, scan, todo>>
search  == <<queue, seen, prev, path>>
vars    == <<given, pc, expired, graph, augment, search, category>>

Phases == {"load", "resolve-target", "entrypoints", "rta", "augment", "bfs",
           "path", "done"}

TypeOK ==
    /\ calls \subseteq PossibleCalls
    /\ dispatch \subseteq PossibleDispatch
    /\ flows \subseteq PossibleFlows
    /\ target \in Targets
    /\ mode \in Modes /\ skip \in BOOLEAN
    /\ pc \in Phases
    /\ expired \in BOOLEAN /\ limitHit \in BOOLEAN
    /\ nodes \subseteq Functions /\ edges \subseteq nodes \X nodes
    /\ iterations \in 0..MaxIterations
    /\ snapshot \subseteq nodes /\ explored \subseteq nodes /\ scan \subseteq nodes
    /\ pass \in 0..Len(PassesOf(mode)) + 1
    /\ todo \subseteq flows
    /\ queue \in Seq(nodes) /\ seen \subseteq nodes
    /\ prev \in [seen -> seen]
    /\ path \in Seq(nodes)
    /\ category \in {"", "none", "target-unreachable", "package-load-failure",
                     "timeout", "target-not-found"}

-----------------------------------------------------------------------------
\* Rapid type analysis from roots: the least set of functions that contains
\* them and is closed under calls and under dispatch to live types.

ClosedUnderRTA(S) ==
    /\ \A c \in calls : c[1] \in S => c[2] \in S
    /\ \A d \in dispatch : d.caller \in S /\ d.maker \in S => d.callee \in S

RTAReach(roots) ==
    {f \in Functions :
        \A S \in SUBSET Functions : roots \subseteq S /\ ClosedUnderRTA(S) => f \in S}

RTAEdges(roots) ==
    LET live == RTAReach(roots)
    IN  {c \in calls : c[1] \in live}
        \cup {<<d.caller, d.callee>> :
                 d \in {x \in dispatch : x.caller \in live /\ x.maker \in live}}

\* The functions of S one after the other; by their names in the code, which
\* the model leaves open.
Lists(S) == {q \in [1..Cardinality(S) -> S] : \A f \in S : \E i \in 1..Cardinality(S) : q[i] = f}

-----------------------------------------------------------------------------
Init ==
    /\ calls \in SUBSET PossibleCalls
    /\ dispatch \in SUBSET PossibleDispatch
    /\ flows \in SUBSET PossibleFlows
    /\ target \in Targets
    /\ mode \in Modes /\ skip \in BOOLEAN
    /\ pc = "load" /\ expired = FALSE /\ category = ""
    /\ nodes = {} /\ edges = {}
    /\ iterations = 0 /\ limitHit = FALSE
    /\ snapshot = {} /\ explored = {} /\ pass = 0 /\ scan = {} /\ todo = {}
    /\ queue = << >> /\ seen = {} /\ prev = [f \in {} |-> f] /\ path = << >>

Done(result) ==
    /\ pc' = "done" /\ category' = result

\* checkContext: a phase's result is used only while the context is live.
GoOn(phase) ==
    IF expired THEN Done("timeout") ELSE pc' = phase /\ UNCHANGED category

\* The caller's deadline may pass at any time; nothing is interrupted by it.
Expire ==
    /\ pc # "done" /\ ~expired
    /\ expired' = TRUE
    /\ UNCHANGED <<given, pc, graph, augment, search, category>>

\* The phases before the graph, each with the category of its failure.
Prepare(phase, next, failure) ==
    /\ pc = phase
    /\ \/ GoOn(next)
       \/ Done(IF expired THEN "timeout" ELSE failure)
    /\ UNCHANGED <<given, expired, graph, augment, search>>

Load           == Prepare("load", "resolve-target", "package-load-failure")
ResolveTarget  == Prepare("resolve-target", "entrypoints", "target-not-found")
FindEntrypoints == Prepare("entrypoints", "rta", "target-unreachable")

BuildRTA ==
    /\ pc = "rta"
    /\ nodes' = RTAReach(Entrypoints)
    /\ edges' = RTAEdges(Entrypoints)
    /\ GoOn("augment")
    /\ UNCHANGED <<given, expired, augment, search>>

BeginSearch ==
    LET starts == Entrypoints \cap nodes IN
    /\ GoOn("bfs")
    /\ queue' \in Lists(starts) /\ seen' = starts /\ prev' = [f \in starts |-> f]
    /\ UNCHANGED path

\* Every node of the RTA graph is reached from an entry point, so the first
\* ShortestPath finds the target when it is a node.
SkipAugment ==
    /\ pc = "augment" /\ pass = 0
    /\ skip /\ target \in nodes
    /\ BeginSearch
    /\ UNCHANGED <<given, expired, graph, augment>>

-----------------------------------------------------------------------------
\* Augment

FlowsOf(k) ==
    {r \in flows : k <= Len(PassesOf(mode)) /\ r.pass = PassesOf(mode)[k]}

StartPass(k, present) ==
    /\ pass' = k
    /\ scan' = present
    /\ todo' = FlowsOf(k)

StartIteration(present) ==
    /\ snapshot' = present
    /\ StartPass(1, present)

BeginAugment ==
    /\ pc = "augment" /\ pass = 0
    /\ ~(skip /\ target \in nodes)
    /\ StartIteration(nodes)
    /\ UNCHANGED <<given, pc, expired, graph, iterations, limitHit, explored, search,
                   category>>

\* Where the running pass looks for the function that holds the flow.
Readers == IF PassesOf(mode)[pass] \in SnapshotPasses THEN scan ELSE nodes

\* ApplyPredicates adds the framework's dispatch function when it is missing.
Found(r) == r.pass = "predicates" \/ r.from \in Readers

\* One flow of the running pass, in any order.
Connect ==
    /\ pc = "augment"
    /\ \E r \in todo :
          /\ todo' = todo \ {r}
          /\ IF Found(r)
             THEN nodes' = nodes \cup {r.from, r.to}
                  /\ edges' = edges \cup {<<r.from, r.to>>}
             ELSE UNCHANGED graph
    /\ UNCHANGED <<given, pc, expired, iterations, limitHit, snapshot, explored, pass,
                   scan, search, category>>

NextPass ==
    /\ pc = "augment" /\ pass \in 1..Len(PassesOf(mode)) /\ todo = {}
    /\ StartPass(pass + 1, nodes)
    /\ UNCHANGED <<given, pc, expired, graph, iterations, limitHit, snapshot, explored,
                   search, category>>

PassesDone == pc = "augment" /\ pass = Len(PassesOf(mode)) + 1

\* graph.NewFunctionsSince(snapshot)
NewFunctions == nodes \ snapshot

Converge ==
    /\ PassesDone /\ NewFunctions = {}
    /\ BeginSearch
    /\ UNCHANGED <<given, expired, graph, augment>>

\* Mutant: the loop stops at the limit without saying so.
StopQuietly ==
    /\ PassesDone /\ NewFunctions # {}
    /\ iterations >= MaxIterations
    /\ BeginSearch
    /\ UNCHANGED <<given, expired, graph, augment>>

StopAtLimit ==
    /\ PassesDone /\ NewFunctions # {}
    /\ iterations >= MaxIterations
    /\ limitHit' = TRUE
    /\ BeginSearch
    /\ UNCHANGED <<given, expired, graph, iterations, snapshot, explored, pass, scan,
                   todo>>

\* The new functions are the roots of an analysis of their own, which is
\* merged into the graph.
ExploreCallees ==
    /\ PassesDone /\ NewFunctions # {}
    /\ iterations < MaxIterations
    /\ iterations' = iterations + 1
    /\ nodes' = nodes \cup RTAReach(NewFunctions)
    /\ edges' = edges \cup RTAEdges(NewFunctions)
    /\ explored' = explored \cup NewFunctions
    /\ StartIteration(nodes')
    /\ UNCHANGED <<given, pc, expired, limitHit, search, category>>

-----------------------------------------------------------------------------
\* ShortestPath

\* Mutant: the newest function is visited first.
VisitLatest ==
    /\ pc = "bfs" /\ target \in nodes
    /\ queue # << >> /\ Head(queue) # target
    /\ LET node  == Head(queue)
           fresh == {f \in nodes : <<node, f>> \in edges /\ f \notin seen}
       IN  /\ \E q \in Lists(fresh) : queue' = q \o Tail(queue)
           /\ seen' = seen \cup fresh
           /\ prev' = [f \in seen \cup fresh |-> IF f \in fresh THEN node ELSE prev[f]]
    /\ UNCHANGED <<given, pc, expired, graph, augment, path, category>>

\* Mutant: what has been seen is visited again.
VisitAgain ==
    /\ pc = "bfs" /\ target \in nodes
    /\ queue # << >> /\ Head(queue) # target
    /\ LET node  == Head(queue)
           fresh == {f \in nodes : <<node, f>> \in edges /\ f \notin seen}
       IN  /\ \E q \in Lists({f \in nodes : <<node, f>> \in edges}) : queue' = Tail(queue) \o q
           /\ seen' = seen \cup fresh
           /\ prev' = [f \in seen \cup fresh |-> IF f \in fresh THEN node ELSE prev[f]]
    /\ UNCHANGED <<given, pc, expired, graph, augment, path, category>>

Visit ==
    /\ pc = "bfs" /\ target \in nodes
    /\ queue # << >> /\ Head(queue) # target
    /\ LET node  == Head(queue)
           fresh == {f \in nodes : <<node, f>> \in edges /\ f \notin seen}
       IN  /\ \E q \in Lists(fresh) : queue' = Tail(queue) \o q
           /\ seen' = seen \cup fresh
           /\ prev' = [f \in seen \cup fresh |-> IF f \in fresh THEN node ELSE prev[f]]
    /\ UNCHANGED <<given, pc, expired, graph, augment, path, category>>

Reach ==
    /\ pc = "bfs" /\ queue # << >> /\ Head(queue) = target
    /\ pc' = "path" /\ path' = <<target>>
    /\ UNCHANGED <<given, expired, graph, augment, queue, seen, prev, category>>

Miss ==
    /\ pc = "bfs"
    /\ target \notin nodes \/ queue = << >>
    /\ Done(IF expired THEN "timeout" ELSE "target-unreachable")
    /\ UNCHANGED <<given, expired, graph, augment, search>>

\* buildPath
StepBack ==
    /\ pc = "path" /\ prev[Head(path)] # Head(path)
    /\ path' = <<prev[Head(path)]>> \o path
    /\ UNCHANGED <<given, pc, expired, graph, augment, queue, seen, prev, category>>

ReturnPath ==
    /\ pc = "path" /\ prev[Head(path)] = Head(path)
    /\ Done(IF expired THEN "timeout" ELSE "none")
    /\ UNCHANGED <<given, expired, graph, augment, search>>

-----------------------------------------------------------------------------
Analyze ==
    \/ Load \/ ResolveTarget \/ FindEntrypoints \/ BuildRTA
    \/ SkipAugment \/ BeginAugment \/ Connect \/ NextPass
    \/ Converge \/ StopAtLimit \/ ExploreCallees
    \/ Visit \/ Reach \/ Miss \/ StepBack \/ ReturnPath

Next == Analyze \/ Expire

\* Analyze runs on the goroutine of its caller.
Spec == Init /\ [][Next]_vars /\ WF_vars(Analyze)

-----------------------------------------------------------------------------
\* Properties

\* The graph holds what a complete augmentation would find: the calls of every
\* function in it, and the flows of every function in it.
Complete ==
    /\ \A c \in calls : c[1] \in nodes => c \in edges
    /\ \A k \in 1..Len(PassesOf(mode)) : \A r \in FlowsOf(k) :
          r.from \in nodes => <<r.from, r.to>> \in edges

\* An augmentation that was neither skipped nor stopped at its limit leaves no
\* function of the graph half explored, although each pass runs on the graph
\* of its own moment and each analysis starts from the new functions only.
ConvergedIsComplete ==
    pc \in {"bfs", "path"} /\ pass > 0 /\ ~limitHit => Complete

\* exploredRoots filters nothing, and yet no function is the root of two
\* analyses.
RootsExploredOnce ==
    [][iterations' # iterations => NewFunctions \cap explored = {}]_vars

\* What can run at all: the least set that holds the entry points and the
\* frameworks' dispatch functions and is closed under every relation.
Runs(f) ==
    \A S \in SUBSET Functions :
        /\ Entrypoints \subseteq S
        /\ \A r \in flows : r.pass = "predicates" \/ r.from \in S => {r.from, r.to} \subseteq S
        /\ ClosedUnderRTA(S)
        => f \in S

\* The path of a result starts at an entry point, follows edges of the graph,
\* ends at the target, and only leads through functions that can run.
PathIsReal ==
    category = "none" =>
        /\ path # << >> /\ path[1] \in Entrypoints /\ path[Len(path)] = target
        /\ \A i \in 1..Len(path) - 1 : <<path[i], path[i + 1]>> \in edges
        /\ \A i \in 1..Len(path) : Runs(path[i])

\* A path of n functions of the graph, from an entry point to the target.
Arrives(n, w) ==
    /\ w[1] \in Entrypoints /\ w[n] = target
    /\ \A i \in 1..n - 1 : <<w[i], w[i + 1]>> \in edges

\* No path of the graph is shorter.
PathIsShortest ==
    category = "none" =>
        \A n \in 1..Len(path) - 1 : \A w \in [1..n -> nodes] : ~Arrives(n, w)

\* f is in every set of nodes that holds the entry points and their successors.
Reached(f) ==
    \A S \in SUBSET nodes :
        /\ Entrypoints \cap nodes \subseteq S
        /\ \A e \in edges : e[1] \in S => e[2] \in S
        => f \in S

\* A target reported as unreachable is not reachable in the graph.
MissIsReal ==
    category = "target-unreachable" => target \notin nodes \/ ~Reached(target)

\* The analysis ends, with a verdict.
AnalysisEnds == <>(pc = "done" /\ category # "")

=============================================================================
