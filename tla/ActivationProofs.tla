--------------------------- MODULE ActivationProofs ---------------------------
(***************************************************************************)
(* Proofs about ActivationSearch, for every program, mode and limit: an    *)
(* augmentation that converges is complete, no function is explored twice, *)
(* a path is real and none is shorter, a miss is a miss of the whole graph.*)
(* And about ValueFlow, for every program: the maps of functions hold what *)
(* is handed to them, and what is remembered of callbacks is so.           *)
(***************************************************************************)
EXTENDS ActivationSearch, ValueFlow, FiniteSetTheorems, SequenceTheorems, WellFoundedInduction, TLAPS

\* The number of passes is a natural number.
LEMMA PassCount == Len(PassesOf(mode)) \in Nat
<1>1. CASE mode = "all"
  BY <1>1 DEF PassesOf
<1>2. CASE mode = "predicates"
  BY <1>2 DEF PassesOf
<1>3. CASE mode \in {"structfield", "goroutine"}
  BY <1>3 DEF PassesOf
<1>4. CASE mode \notin {"all", "predicates", "structfield", "goroutine"}
  BY <1>4 DEF PassesOf
<1>5. QED
  BY <1>1, <1>2, <1>3, <1>4

\* A sequence of nodes is one of any larger set of nodes.
LEMMA SeqGrows ==
    ASSUME NEW S, NEW T, S \subseteq T, NEW s \in Seq(S)
    PROVE  s \in Seq(T)
OBVIOUS

\* A sequence that is not empty starts with its head.
LEMMA NonEmptyStarts ==
    ASSUME NEW S, NEW s \in Seq(S), s # << >>
    PROVE  Head(s) = s[1] /\ Len(s) \in Nat \ {0}
<1>1. Len(s) \in Nat /\ Head(s) = s[1]
  BY LenProperties
<1>2. Len(s) # 0
  BY EmptySeq
<1>3. QED
  BY <1>1, <1>2

\* RTAReach(roots) contains the roots and is closed under calls and dispatch.
LEMMA ReachClosed ==
    ASSUME NEW roots \in SUBSET Functions,
           calls \subseteq PossibleCalls, dispatch \subseteq PossibleDispatch
    PROVE  /\ roots \subseteq RTAReach(roots)
           /\ RTAReach(roots) \subseteq Functions
           /\ ClosedUnderRTA(RTAReach(roots))
<1>1. roots \subseteq RTAReach(roots) /\ RTAReach(roots) \subseteq Functions
  BY DEF RTAReach
<1>2. ASSUME NEW c \in calls, c[1] \in RTAReach(roots)
      PROVE  c[2] \in RTAReach(roots)
  <2>1. c[2] \in Functions
    BY ActivationAssumption
  <2>2. ASSUME NEW S \in SUBSET Functions, roots \subseteq S, ClosedUnderRTA(S)
        PROVE  c[2] \in S
    BY <1>2, <2>2 DEF RTAReach, ClosedUnderRTA
  <2>3. QED
    BY <2>1, <2>2 DEF RTAReach
<1>3. ASSUME NEW d \in dispatch,
             d.caller \in RTAReach(roots), d.maker \in RTAReach(roots)
      PROVE  d.callee \in RTAReach(roots)
  <2>1. d.callee \in Functions
    BY ActivationAssumption
  <2>2. ASSUME NEW S \in SUBSET Functions, roots \subseteq S, ClosedUnderRTA(S)
        PROVE  d.callee \in S
    BY <1>3, <2>2 DEF RTAReach, ClosedUnderRTA
  <2>3. QED
    BY <2>1, <2>2 DEF RTAReach
<1>4. QED
  BY <1>1, <1>2, <1>3 DEF ClosedUnderRTA

\* The edges of an analysis lie between the functions it reaches.
LEMMA EdgesWithin ==
    ASSUME NEW roots \in SUBSET Functions,
           calls \subseteq PossibleCalls, dispatch \subseteq PossibleDispatch
    PROVE  RTAEdges(roots) \subseteq RTAReach(roots) \X RTAReach(roots)
<1> DEFINE live == RTAReach(roots)
<1>1. ClosedUnderRTA(live)
  BY ReachClosed
<1> HIDE DEF live
<1>2. \A c \in calls : c[1] \in live => c \in live \X live
  BY <1>1, ActivationAssumption DEF ClosedUnderRTA
<1>3. \A d \in dispatch : d.caller \in live /\ d.maker \in live
                            => <<d.caller, d.callee>> \in live \X live
  BY <1>1 DEF ClosedUnderRTA
<1>4. QED
  BY <1>2, <1>3 DEF RTAEdges, live

\* What can run from functions that can run can run.
LEMMA ReachRuns ==
    ASSUME NEW roots \in SUBSET Functions, \A f \in roots : Runs(f)
    PROVE  \A f \in RTAReach(roots) : Runs(f)
BY DEF RTAReach, Runs

\* A listing of a set of functions is a sequence that holds each of them.
LEMMA ListsAre ==
    ASSUME NEW S, IsFiniteSet(S), NEW q \in Lists(S)
    PROVE  /\ q \in Seq(S)
           /\ \A f \in S : \E i \in 1..Len(q) : q[i] = f
<1>1. Cardinality(S) \in Nat
  BY FS_CardinalityType
<1>2. q \in Seq(S) /\ Len(q) = Cardinality(S)
  BY <1>1 DEF Lists
<1>3. QED
  BY <1>2 DEF Lists

-----------------------------------------------------------------------------
\* The inductive invariant.

Empty == nodes = {} /\ edges = {} /\ snapshot = {} /\ explored = {}

EarlyOK ==
    /\ pc \in {"load", "resolve-target", "entrypoints", "rta"} =>
          /\ Empty /\ pass = 0 /\ todo = {} /\ limitHit = FALSE
    /\ pc = "augment" => limitHit = FALSE
    /\ pc # "done" => category = ""

AllRun == \A f \in nodes : Runs(f)

\* An iteration begins on a graph whose every function has been explored.
SnapshotOK ==
    /\ pass = 0 => /\ explored = {} /\ todo = {}
                   /\ \A c \in calls : c[1] \in nodes => c \in edges
    /\ pass > 0 =>
          /\ explored \subseteq snapshot /\ snapshot \subseteq scan
          /\ \A c \in calls : c[1] \in snapshot => c \in edges

\* The passes that have run have connected that graph.
FlowsOK ==
    pass > 0 =>
        \A k \in 1..Len(PassesOf(mode)) : \A r \in FlowsOf(k) :
            r.from \in snapshot /\ (k < pass \/ (k = pass /\ r \notin todo))
                => <<r.from, r.to>> \in edges

ConvergedOK ==
    pc \in {"bfs", "path"} /\ pass > 0 /\ ~limitHit =>
        nodes = snapshot /\ pass = Len(PassesOf(mode)) + 1

\* The search: what has been seen and is not waiting has been looked through.
SearchOK ==
    /\ pc \in {"bfs", "path"} =>
          /\ Entrypoints \cap nodes \subseteq seen
          /\ \A f \in seen : prev[f] # f => <<prev[f], f>> \in edges
          /\ \A f \in seen : prev[f] = f => f \in Entrypoints
    /\ pc = "bfs" =>
          /\ queue \in Seq(seen)
          /\ \A e \in edges : e[1] \in seen /\ e[2] \notin seen =>
                \E i \in 1..Len(queue) : queue[i] = e[1]
          /\ target \in seen => \E i \in 1..Len(queue) : queue[i] = target
    /\ pc = "path" =>
          /\ path \in Seq(seen) /\ path # << >>
          /\ path[Len(path)] = target
          /\ \A i \in 1..Len(path) - 1 : <<path[i], path[i + 1]>> \in edges

ActInv ==
    /\ TypeOK /\ EarlyOK /\ AllRun /\ SnapshotOK /\ FlowsOK /\ ConvergedOK /\ SearchOK
    /\ PathIsReal /\ MissIsReal

USE DEF given, graph, augment, search

LEMMA InvInit == Init => ActInv
<1> SUFFICES ASSUME Init
             PROVE  ActInv
  OBVIOUS
<1>1. TypeOK
  <2>1. prev \in [seen -> seen]
    BY DEF Init
  <2>2. pass \in 0..Len(PassesOf(mode)) + 1
    <3>1. pass = 0
      BY DEF Init
    <3>2. QED
      BY <3>1, PassCount
  <2>3. iterations \in 0..MaxIterations
    <3>1. iterations = 0 /\ MaxIterations \in Nat
      BY ActivationAssumption DEF Init
    <3>2. QED
      BY <3>1
  <2>4. queue \in Seq(nodes) /\ path \in Seq(nodes)
    <3>1. queue = << >> /\ path = << >>
      BY DEF Init
    <3>2. QED
      BY <3>1
  <2>5. QED
    BY <2>1, <2>2, <2>3, <2>4 DEF Init, TypeOK, Phases
<1>2. EarlyOK /\ AllRun /\ SnapshotOK /\ FlowsOK /\ ConvergedOK /\ SearchOK
  BY DEF Init, EarlyOK, Empty, AllRun, SnapshotOK, FlowsOK, ConvergedOK, SearchOK
<1>3. PathIsReal /\ MissIsReal
  BY DEF Init, PathIsReal, MissIsReal
<1>4. QED
  BY <1>1, <1>2, <1>3 DEF ActInv

\* Whether a function runs is a matter of the program alone.
LEMMA RunsKept ==
    ASSUME UNCHANGED given, NEW f, Runs(f)
    PROVE  Runs(f)'
BY DEF Runs, ClosedUnderRTA

-----------------------------------------------------------------------------
\* One lemma for each action, or for actions of one shape.

LEMMA PrepareInv ==
    ASSUME ActInv, NEW phase \in {"load", "resolve-target", "entrypoints"},
           NEW next \in {"resolve-target", "entrypoints", "rta"},
           NEW failure \in {"package-load-failure", "target-not-found",
                            "target-unreachable"},
           Prepare(phase, next, failure)
    PROVE  ActInv'
<1>1. TypeOK'
  BY DEF ActInv, TypeOK, Prepare, GoOn, Done, Phases
<1>2. EarlyOK' /\ nodes' = {}
  BY DEF ActInv, TypeOK, EarlyOK, Empty, Prepare, GoOn, Done
<1>3. AllRun' /\ SnapshotOK' /\ FlowsOK'
  BY DEF ActInv, EarlyOK, Empty, AllRun, SnapshotOK, FlowsOK, FlowsOf, Prepare, GoOn, Done
<1>4. ConvergedOK' /\ SearchOK' /\ PathIsReal' /\ MissIsReal'
  BY <1>2 DEF ActInv, EarlyOK, Empty, ConvergedOK, SearchOK, PathIsReal, MissIsReal,
              Prepare, GoOn, Done
<1>5. QED
  BY <1>1, <1>2, <1>3, <1>4 DEF ActInv

LEMMA BuildRTAInv == ActInv /\ BuildRTA => ActInv'
<1> SUFFICES ASSUME ActInv, BuildRTA
             PROVE  ActInv'
  OBVIOUS
<1>1. /\ Entrypoints \subseteq nodes' /\ nodes' \subseteq Functions
      /\ edges' \subseteq nodes' \X nodes'
  BY ReachClosed, EdgesWithin, ActivationAssumption DEF ActInv, TypeOK, BuildRTA
<1>2. TypeOK'
  <2>1. snapshot = {} /\ explored = {} /\ scan \subseteq nodes /\ nodes = {}
    BY DEF ActInv, TypeOK, EarlyOK, Empty, BuildRTA
  <2>2. seen = {}
    BY <2>1 DEF ActInv, TypeOK
  <2>3. queue' \in Seq(nodes') /\ path' \in Seq(nodes')
    <3>1. queue \in Seq(nodes) /\ path \in Seq(nodes) /\ nodes \subseteq nodes'
      BY <2>1 DEF ActInv, TypeOK
    <3>2. queue \in Seq(nodes') /\ path \in Seq(nodes')
      BY <3>1, SeqGrows
    <3>3. QED
      BY <3>2 DEF BuildRTA
  <2>4. QED
    BY <1>1, <2>1, <2>2, <2>3 DEF ActInv, TypeOK, BuildRTA, GoOn, Done, Phases
<1>3. EarlyOK'
  BY DEF ActInv, EarlyOK, BuildRTA, GoOn, Done
<1>4. AllRun'
  <2>1. \A f \in Entrypoints : Runs(f)
    BY DEF Runs
  <2>2. \A f \in nodes' : Runs(f)
    BY <2>1, ReachRuns, ActivationAssumption DEF BuildRTA
  <2>3. UNCHANGED given
    BY DEF BuildRTA
  <2>4. QED
    BY <2>2, <2>3, RunsKept DEF AllRun
<1>5. SnapshotOK' /\ FlowsOK' /\ ConvergedOK' /\ SearchOK'
  <2>1. \A c \in calls : c[1] \in nodes' => c \in edges'
    BY DEF BuildRTA, RTAEdges
  <2>2. QED
    BY <2>1 DEF ActInv, EarlyOK, Empty, SnapshotOK, FlowsOK, ConvergedOK, SearchOK,
                BuildRTA, GoOn, Done
<1>6. PathIsReal' /\ MissIsReal'
  BY DEF ActInv, EarlyOK, PathIsReal, MissIsReal, BuildRTA, GoOn, Done
<1>7. QED
  BY <1>2, <1>3, <1>4, <1>5, <1>6 DEF ActInv

\* Only the passes move: the graph is as it was.
LEMMA GraphKept ==
    ASSUME ActInv, UNCHANGED <<given, pc, expired, graph, limitHit, search, category>>,
           pc = "augment"
    PROVE  EarlyOK' /\ AllRun' /\ ConvergedOK' /\ SearchOK' /\ PathIsReal' /\ MissIsReal'
<1>1. AllRun'
  BY RunsKept DEF ActInv, AllRun
<1>2. EarlyOK' /\ ConvergedOK' /\ SearchOK'
  BY DEF ActInv, EarlyOK, ConvergedOK, SearchOK
<1>3. PathIsReal' /\ MissIsReal'
  BY DEF ActInv, EarlyOK, PathIsReal, MissIsReal
<1>4. QED
  BY <1>1, <1>2, <1>3

LEMMA BeginAugmentInv == ActInv /\ BeginAugment => ActInv'
<1> SUFFICES ASSUME ActInv, BeginAugment
             PROVE  ActInv'
  OBVIOUS
<1> USE DEF BeginAugment, StartIteration, StartPass
<1>1. TypeOK'
  <2>1. pass' \in 0..Len(PassesOf(mode)) + 1
    BY PassCount
  <2>2. todo' \subseteq flows
    BY DEF FlowsOf
  <2>3. QED
    BY <2>1, <2>2 DEF ActInv, TypeOK
<1>2. SnapshotOK'
  <2>1. /\ explored = {} /\ pass' = 1 /\ nodes' = nodes /\ edges' = edges
        /\ \A c \in calls : c[1] \in nodes => c \in edges
    BY DEF ActInv, SnapshotOK
  <2>2. QED
    BY <2>1 DEF SnapshotOK
<1>3. FlowsOK'
  BY PassCount DEF FlowsOK, FlowsOf
<1>4. QED
  BY <1>1, <1>2, <1>3, GraphKept DEF ActInv

LEMMA NextPassInv == ActInv /\ NextPass => ActInv'
<1> SUFFICES ASSUME ActInv, NextPass
             PROVE  ActInv'
  OBVIOUS
<1> USE DEF NextPass, StartPass
<1>1. TypeOK'
  <2>1. pass' \in 0..Len(PassesOf(mode)) + 1
    BY PassCount
  <2>2. todo' \subseteq flows
    BY DEF FlowsOf
  <2>3. QED
    BY <2>1, <2>2 DEF ActInv, TypeOK
<1>2. SnapshotOK'
  <2>1. pass > 0 /\ pass' > 0
    BY PassCount
  <2>2. /\ explored \subseteq snapshot /\ snapshot \subseteq nodes
        /\ \A c \in calls : c[1] \in snapshot => c \in edges
    BY <2>1 DEF ActInv, SnapshotOK, TypeOK
  <2>3. QED
    BY <2>1, <2>2 DEF SnapshotOK
<1>3. FlowsOK'
  BY PassCount DEF ActInv, FlowsOK, FlowsOf
<1>4. QED
  BY <1>1, <1>2, <1>3, GraphKept DEF ActInv

LEMMA ConnectInv == ActInv /\ Connect => ActInv'
<1> SUFFICES ASSUME ActInv, pc = "augment",
                    NEW r \in todo,
                    todo' = todo \ {r},
                    IF Found(r)
                    THEN /\ nodes' = nodes \cup {r.from, r.to}
                         /\ edges' = edges \cup {<<r.from, r.to>>}
                    ELSE UNCHANGED graph,
                    UNCHANGED <<given, pc, expired, iterations, limitHit, snapshot,
                                explored, pass, scan, search, category>>
             PROVE  ActInv'
  BY DEF Connect
<1>1. /\ r \in flows /\ r.from \in Functions /\ r.to \in Functions
      /\ pass \in 1..Len(PassesOf(mode)) + 1
  <2>1. r \in flows /\ r \in PossibleFlows
    BY DEF ActInv, TypeOK
  <2>2. r.from \in Functions /\ r.to \in Functions
    BY <2>1, ActivationAssumption
  <2>3. pass # 0 /\ pass \in 0..Len(PassesOf(mode)) + 1
    BY DEF ActInv, TypeOK, SnapshotOK
  <2>4. QED
    BY <2>1, <2>2, <2>3, PassCount
<1>2. /\ nodes \subseteq nodes' /\ nodes' \subseteq Functions
      /\ edges \subseteq edges' /\ edges' \subseteq nodes' \X nodes'
  <2>1. nodes \subseteq Functions /\ edges \subseteq nodes \X nodes
    BY DEF ActInv, TypeOK
  <2>2. CASE Found(r)
    BY <1>1, <2>1, <2>2
  <2>3. CASE ~Found(r)
    BY <2>1, <2>3
  <2>4. QED
    BY <2>2, <2>3
<1>3. TypeOK'
  <2>1. queue' \in Seq(nodes') /\ path' \in Seq(nodes')
    <3>1. queue \in Seq(nodes) /\ path \in Seq(nodes) /\ nodes \subseteq nodes'
      BY <1>2 DEF ActInv, TypeOK
    <3>2. queue \in Seq(nodes') /\ path \in Seq(nodes')
      BY <3>1, SeqGrows
    <3>3. QED
      BY <3>2
  <2>2. QED
    BY <1>1, <1>2, <2>1 DEF ActInv, TypeOK
<1>4. AllRun'
  <2>1. CASE Found(r)
    <3>1. r.pass = "predicates" \/ Runs(r.from)
      BY <2>1 DEF Found, Readers, ActInv, TypeOK, AllRun
    <3>2. Runs(r.from) /\ Runs(r.to)
      BY <1>1, <3>1 DEF Runs
    <3>3. \A f \in nodes' : Runs(f)
      BY <2>1, <3>2 DEF ActInv, AllRun
    <3>4. QED
      BY <3>3, RunsKept DEF AllRun
  <2>2. CASE ~Found(r)
    BY <2>2, RunsKept DEF ActInv, AllRun
  <2>3. QED
    BY <2>1, <2>2
<1>5. SnapshotOK'
  BY <1>1, <1>2 DEF ActInv, SnapshotOK
<1>6. FlowsOK'
  <2>1. r.from \in snapshot => <<r.from, r.to>> \in edges'
    <3>1. pass > 0
      BY <1>1, PassCount
    <3>2. snapshot \subseteq scan /\ scan \subseteq nodes
      BY <3>1 DEF ActInv, SnapshotOK, TypeOK
    <3>3. r.from \in snapshot => Found(r)
      BY <3>2 DEF Found, Readers
    <3>4. QED
      BY <3>3
  <2>2. QED
    BY <1>2, <2>1 DEF ActInv, FlowsOK, FlowsOf
<1>7. EarlyOK' /\ ConvergedOK' /\ SearchOK' /\ PathIsReal' /\ MissIsReal'
  BY DEF ActInv, EarlyOK, ConvergedOK, SearchOK, PathIsReal, MissIsReal
<1>8. QED
  BY <1>3, <1>4, <1>5, <1>6, <1>7 DEF ActInv

LEMMA ExploreInv == ActInv /\ ExploreCallees => ActInv'
<1> SUFFICES ASSUME ActInv, ExploreCallees
             PROVE  ActInv'
  OBVIOUS
<1> USE DEF ExploreCallees, StartIteration, StartPass
<1>1. NewFunctions \in SUBSET Functions
  BY DEF NewFunctions, ActInv, TypeOK
<1>2. /\ NewFunctions \subseteq RTAReach(NewFunctions)
      /\ RTAReach(NewFunctions) \subseteq Functions
      /\ RTAEdges(NewFunctions) \subseteq RTAReach(NewFunctions) \X RTAReach(NewFunctions)
  BY <1>1, ReachClosed, EdgesWithin DEF ActInv, TypeOK
<1>3. /\ nodes \subseteq nodes' /\ nodes' \subseteq Functions
      /\ edges \subseteq edges' /\ edges' \subseteq nodes' \X nodes'
  BY <1>2 DEF ActInv, TypeOK
<1>4. TypeOK'
  <2>1. pass' \in 0..Len(PassesOf(mode)) + 1
    BY PassCount
  <2>2. todo' \subseteq flows
    BY DEF FlowsOf
  <2>3. queue' \in Seq(nodes') /\ path' \in Seq(nodes')
    <3>1. queue \in Seq(nodes) /\ path \in Seq(nodes) /\ nodes \subseteq nodes'
      BY <1>3 DEF ActInv, TypeOK
    <3>2. queue \in Seq(nodes') /\ path \in Seq(nodes')
      BY <3>1, SeqGrows
    <3>3. QED
      BY <3>2
  <2>4. iterations' \in 0..MaxIterations
    <3>1. iterations \in 0..MaxIterations /\ MaxIterations \in Nat
      BY ActivationAssumption DEF ActInv, TypeOK
    <3>2. iterations < MaxIterations /\ iterations' = iterations + 1
      OBVIOUS
    <3>3. QED
      BY <3>1, <3>2
  <2>5. explored' \subseteq nodes'
    BY <1>3, NewFunctions \subseteq nodes DEF NewFunctions, ActInv, TypeOK
  <2>6. QED
    BY <1>3, <2>1, <2>2, <2>3, <2>4, <2>5 DEF ActInv, TypeOK
<1>5. AllRun'
  <2>1. \A f \in nodes' : Runs(f)
    BY <1>1, ReachRuns DEF NewFunctions, ActInv, AllRun
  <2>2. QED
    BY <2>1, RunsKept DEF AllRun
<1>6. SnapshotOK'
  <2>1. pass > 0
    BY PassCount DEF PassesDone
  <2>2. \A c \in calls : c[1] \in nodes' => c \in edges'
    <3>1. ASSUME NEW c \in calls, c[1] \in RTAReach(NewFunctions)
          PROVE  c \in edges'
      BY <3>1 DEF RTAEdges
    <3>2. ASSUME NEW c \in calls, c[1] \in nodes
          PROVE  c \in edges'
      BY <1>2, <2>1, <3>1, <3>2 DEF NewFunctions, ActInv, SnapshotOK
    <3>3. QED
      BY <3>1, <3>2
  <2>3. explored' \subseteq snapshot'
    BY <1>3 DEF NewFunctions, ActInv, TypeOK
  <2>4. QED
    BY <2>2, <2>3 DEF SnapshotOK
<1>7. FlowsOK'
  BY PassCount DEF FlowsOK, FlowsOf
<1>8. EarlyOK' /\ ConvergedOK' /\ SearchOK' /\ PathIsReal' /\ MissIsReal'
  BY DEF PassesDone, ActInv, EarlyOK, ConvergedOK, SearchOK, PathIsReal, MissIsReal
<1>9. QED
  BY <1>4, <1>5, <1>6, <1>7, <1>8 DEF ActInv


\* A search begins: what a search needs, whatever the augmentation has found.
LEMMA BeginSearchInv ==
    ASSUME ActInv, pc = "augment", BeginSearch,
           UNCHANGED <<given, expired, graph>>,
           UNCHANGED <<iterations, snapshot, explored, pass, scan, todo>>,
           limitHit' \in BOOLEAN,
           pass > 0 /\ ~limitHit' => nodes = snapshot /\ pass = Len(PassesOf(mode)) + 1
    PROVE  ActInv'
<1> DEFINE starts == Entrypoints \cap nodes
<1>1. /\ queue' \in Seq(starts) /\ seen' = starts /\ prev' = [f \in starts |-> f]
      /\ \A f \in starts : \E i \in 1..Len(queue') : queue'[i] = f
  <2>1. IsFiniteSet(starts)
    BY ActivationAssumption, FS_Subset
  <2>2. queue' \in Lists(starts)
    BY DEF BeginSearch
  <2> HIDE DEF starts
  <2>3. /\ queue' \in Seq(starts)
        /\ \A f \in starts : \E i \in 1..Len(queue') : queue'[i] = f
    BY <2>1, <2>2, ListsAre
  <2> USE DEF starts
  <2>4. QED
    BY <2>3 DEF BeginSearch
<1>2. TypeOK'
  <2>1. prev' \in [seen' -> seen']
    BY <1>1
  <2>2. queue' \in Seq(nodes') /\ path' \in Seq(nodes')
    <3>1. path' \in Seq(nodes')
      BY DEF BeginSearch, ActInv, TypeOK
    <3>2. queue' \in Seq(nodes')
      BY <1>1, SeqGrows
    <3>3. QED
      BY <3>1, <3>2
  <2>3. seen' \subseteq nodes'
    BY <1>1
  <2>4. pc' \in Phases /\ category' \in {"", "timeout"}
    BY DEF BeginSearch, GoOn, Done, Phases, ActInv, EarlyOK
  <2>5. QED
    BY <2>1, <2>2, <2>3, <2>4 DEF ActInv, TypeOK
<1>3. pc' \in {"bfs", "done"} /\ category' \in {"", "timeout"} /\ (pc' = "bfs" => category' = "")
  BY DEF BeginSearch, GoOn, Done, ActInv, EarlyOK
<1>4. EarlyOK' /\ ConvergedOK' /\ PathIsReal' /\ MissIsReal'
  BY <1>3 DEF EarlyOK, ConvergedOK, PathIsReal, MissIsReal
<1>5. AllRun'
  BY RunsKept DEF ActInv, AllRun
<1>6. SnapshotOK' /\ FlowsOK'
  BY DEF ActInv, SnapshotOK, FlowsOK, FlowsOf
<1>7. SearchOK'
  <2>1. /\ (Entrypoints \cap nodes)' \subseteq seen'
        /\ \A f \in seen' : prev'[f] = f /\ f \in Entrypoints
    BY <1>1
  <2>2. \A f \in seen' : \E i \in 1..Len(queue') : queue'[i] = f
    BY <1>1
  <2>3. queue' \in Seq(seen')
    BY <1>1
  <2>4. QED
    BY <1>3, <2>1, <2>2, <2>3 DEF SearchOK
<1>8. QED
  BY <1>2, <1>4, <1>5, <1>6, <1>7 DEF ActInv

LEMMA SearchStarts ==
    ASSUME ActInv, SkipAugment \/ Converge \/ StopAtLimit
    PROVE  ActInv'
<1>1. CASE SkipAugment
  <2>1. pc = "augment" /\ pass = 0 /\ BeginSearch
    BY <1>1 DEF SkipAugment
  <2>2. UNCHANGED <<given, expired, graph, augment>>
    BY <1>1 DEF SkipAugment
  <2>3. limitHit' \in BOOLEAN
    BY <2>2 DEF ActInv, TypeOK
  <2>4. QED
    BY <2>1, <2>2, <2>3, BeginSearchInv
<1>2. CASE Converge
  <2>1. pc = "augment" /\ pass = Len(PassesOf(mode)) + 1 /\ BeginSearch
    BY <1>2 DEF Converge, PassesDone
  <2>2. UNCHANGED <<given, expired, graph, augment>>
    BY <1>2 DEF Converge
  <2>3. limitHit' \in BOOLEAN
    BY <2>2 DEF ActInv, TypeOK
  <2>4. nodes = snapshot
    BY <1>2 DEF Converge, NewFunctions, ActInv, TypeOK
  <2>5. QED
    BY <2>1, <2>2, <2>3, <2>4, BeginSearchInv
<1>3. CASE StopAtLimit
  <2>1. pc = "augment" /\ BeginSearch /\ limitHit' = TRUE
    BY <1>3 DEF StopAtLimit, PassesDone
  <2>2. /\ UNCHANGED <<given, expired, graph>>
        /\ UNCHANGED <<iterations, snapshot, explored, pass, scan, todo>>
    BY <1>3 DEF StopAtLimit
  <2>3. QED
    BY <2>1, <2>2, BeginSearchInv
<1>4. QED
  BY <1>1, <1>2, <1>3

\* The augmentation is over: its part of the invariant is left alone.
LEMMA AugmentKept ==
    ASSUME ActInv, pc \in {"bfs", "path"}, pc' \in {"bfs", "path", "done"},
           UNCHANGED <<given, graph, augment>>, pc' # "done" => category' = category
    PROVE  EarlyOK' /\ AllRun' /\ SnapshotOK' /\ FlowsOK' /\ ConvergedOK'
<1>1. AllRun'
  BY RunsKept DEF ActInv, AllRun
<1>2. EarlyOK' /\ SnapshotOK' /\ FlowsOK' /\ ConvergedOK'
  BY DEF ActInv, EarlyOK, SnapshotOK, FlowsOK, FlowsOf, ConvergedOK
<1>3. QED
  BY <1>1, <1>2

LEMMA VisitInv == ActInv /\ Visit => ActInv'
<1> DEFINE node  == Head(queue)
           fresh == {f \in nodes : <<node, f>> \in edges /\ f \notin seen}
<1> SUFFICES ASSUME ActInv, pc = "bfs", queue # << >>, node # target,
                    NEW q \in Lists(fresh),
                    queue' = Tail(queue) \o q,
                    seen' = seen \cup fresh,
                    prev' = [f \in seen \cup fresh |-> IF f \in fresh THEN node ELSE prev[f]],
                    UNCHANGED <<given, pc, expired, graph, augment, path, category>>
             PROVE  ActInv'
  BY DEF Visit
<1>1. /\ q \in Seq(fresh)
      /\ \A f \in fresh : \E i \in 1..Len(q) : q[i] = f
  <2>1. IsFiniteSet(fresh)
    BY ActivationAssumption, FS_Subset DEF ActInv, TypeOK
  <2> HIDE DEF fresh
  <2>2. QED
    BY <2>1, ListsAre
<1>2. /\ queue \in Seq(seen) /\ node \in seen /\ seen \subseteq nodes
      /\ prev \in [seen -> seen]
  BY HeadTailProperties DEF ActInv, TypeOK, SearchOK
<1>3. /\ seen' \subseteq nodes' /\ prev' \in [seen' -> seen'] /\ seen \subseteq seen'
      /\ \A f \in fresh : f \in seen' /\ f \notin seen /\ <<node, f>> \in edges /\ prev'[f] = node
      /\ \A f \in seen : prev'[f] = prev[f]
  BY <1>2
<1>4. \A e \in edges : e[1] = node /\ e[2] \notin seen => e[2] \in fresh
  <2>1. edges \subseteq nodes \X nodes
    BY DEF ActInv, TypeOK
  <2>2. \A e \in edges : e = <<e[1], e[2]>> /\ e[2] \in nodes
    BY <2>1
  <2>3. QED
    BY <2>2
<1> HIDE DEF fresh
<1>5. /\ queue' \in Seq(seen') /\ queue' \in Seq(nodes')
      /\ \A i \in 2..Len(queue) : \E j \in 1..Len(queue') : queue'[j] = queue[i]
      /\ \A f \in fresh : \E j \in 1..Len(queue') : queue'[j] = f
  <2>1. /\ Tail(queue) \in Seq(seen') /\ Len(Tail(queue)) = Len(queue) - 1
        /\ \A i \in 1..Len(Tail(queue)) : Tail(queue)[i] = queue[i + 1]
    BY <1>2, <1>3, HeadTailProperties, SeqGrows
  <2>2. q \in Seq(seen')
    BY <1>1, <1>3, SeqGrows
  <2> DEFINE rest == Tail(queue)
  <2> HIDE DEF rest
  <2>3. rest \in Seq(seen') /\ queue' = rest \o q
    BY <2>1 DEF rest
  <2>4. /\ queue' \in Seq(seen')
        /\ Len(queue') = Len(rest) + Len(q)
        /\ \A i \in 1..Len(rest) : queue'[i] = rest[i]
        /\ \A i \in 1..Len(q) : queue'[Len(rest) + i] = q[i]
    <3>1. /\ rest \o q \in Seq(seen')
          /\ Len(rest \o q) = Len(rest) + Len(q)
          /\ \A i \in 1..Len(rest) : (rest \o q)[i] = rest[i]
          /\ \A i \in 1..Len(q) : (rest \o q)[Len(rest) + i] = q[i]
      BY <2>2, <2>3
    <3>2. QED
      BY <2>3, <3>1
  <2>5. Len(rest) \in Nat /\ Len(q) \in Nat /\ Len(queue) \in Nat
    BY <1>2, <2>2, <2>3, LenProperties
  <2>6. queue' \in Seq(nodes')
    BY <1>3, <2>4, SeqGrows
  <2>7. ASSUME NEW i \in 2..Len(queue)
        PROVE  \E j \in 1..Len(queue') : queue'[j] = queue[i]
    <3>1. i - 1 \in 1..Len(rest) /\ i - 1 \in 1..Len(queue')
      BY <2>1, <2>4, <2>5 DEF rest
    <3>2. rest[i - 1] = queue[i]
      BY <2>1, <2>5, <3>1 DEF rest
    <3>3. QED
      BY <2>4, <3>1, <3>2
  <2>8. ASSUME NEW f \in fresh
        PROVE  \E j \in 1..Len(queue') : queue'[j] = f
    <3>1. PICK i \in 1..Len(q) : q[i] = f
      BY <1>1
    <3>2. Len(rest) + i \in 1..Len(queue')
      BY <2>4, <2>5
    <3>3. QED
      BY <2>4, <3>1, <3>2
  <2>9. QED
    BY <2>4, <2>6, <2>7, <2>8
<1>6. \A f \in seen : f # node /\ (\E i \in 1..Len(queue) : queue[i] = f)
        => \E j \in 1..Len(queue') : queue'[j] = f
  <2>1. node = queue[1] /\ Len(queue) \in Nat
    BY <1>2, LenProperties, HeadTailProperties
  <2>2. ASSUME NEW f \in seen, f # node, NEW i \in 1..Len(queue), queue[i] = f
        PROVE  \E j \in 1..Len(queue') : queue'[j] = f
    <3>1. i \in 2..Len(queue)
      BY <2>1, <2>2
    <3>2. QED
      BY <1>5, <2>2, <3>1
  <2>3. QED
    BY <2>2
<1> HIDE DEF node
<1>7. TypeOK'
  BY <1>3, <1>5 DEF ActInv, TypeOK
<1>8. SearchOK'
  <2>1. Entrypoints \cap nodes' \subseteq seen'
    BY <1>3 DEF ActInv, SearchOK
  <2>2. \A f \in seen' : prev'[f] # f => <<prev'[f], f>> \in edges'
    BY <1>3 DEF ActInv, SearchOK
  <2>3. \A f \in seen' : prev'[f] = f => f \in Entrypoints
    BY <1>2, <1>3 DEF ActInv, SearchOK
  <2>4. ASSUME NEW e \in edges, e[1] \in seen', e[2] \notin seen'
        PROVE  \E i \in 1..Len(queue') : queue'[i] = e[1]
    <3>1. CASE e[1] \in fresh
      BY <1>5, <3>1
    <3>2. CASE e[1] \in seen
      <4>1. e[1] # node
        BY <1>3, <1>4, <2>4
      <4>2. \E i \in 1..Len(queue) : queue[i] = e[1]
        BY <1>3, <2>4, <3>2 DEF ActInv, SearchOK
      <4>3. QED
        BY <1>6, <3>2, <4>1, <4>2
    <3>3. QED
      BY <2>4, <3>1, <3>2
  <2>5. target \in seen' => \E i \in 1..Len(queue') : queue'[i] = target
    <3>1. CASE target \in fresh
      BY <1>5, <3>1
    <3>2. CASE target \in seen
      BY <1>6, <3>2 DEF ActInv, SearchOK
    <3>3. QED
      BY <3>1, <3>2
  <2>6. QED
    BY <1>5, <2>1, <2>2, <2>3, <2>4, <2>5 DEF SearchOK
<1>9. PathIsReal' /\ MissIsReal'
  BY DEF ActInv, EarlyOK, PathIsReal, MissIsReal
<1>10. EarlyOK' /\ AllRun' /\ SnapshotOK' /\ FlowsOK' /\ ConvergedOK'
  BY AugmentKept
<1>11. QED
  BY <1>7, <1>8, <1>9, <1>10 DEF ActInv


LEMMA ReachInv == ActInv /\ Reach => ActInv'
<1> SUFFICES ASSUME ActInv, Reach
             PROVE  ActInv'
  OBVIOUS
<1> USE DEF Reach
<1>1. target \in seen /\ seen \subseteq nodes /\ path' = <<target>>
  BY HeadTailProperties DEF ActInv, TypeOK, SearchOK
<1>2. path' \in Seq(seen') /\ path' \in Seq(nodes') /\ path' # << >> /\ Len(path') = 1
  BY <1>1
<1>3. TypeOK'
  BY <1>2 DEF ActInv, TypeOK, Phases
<1>4. SearchOK'
  BY <1>1, <1>2 DEF ActInv, SearchOK
<1>5. PathIsReal' /\ MissIsReal'
  BY DEF ActInv, EarlyOK, PathIsReal, MissIsReal
<1>6. EarlyOK' /\ AllRun' /\ SnapshotOK' /\ FlowsOK' /\ ConvergedOK'
  BY AugmentKept
<1>7. QED
  BY <1>3, <1>4, <1>5, <1>6 DEF ActInv

LEMMA MissInv == ActInv /\ Miss => ActInv'
<1> SUFFICES ASSUME ActInv, Miss
             PROVE  ActInv'
  OBVIOUS
<1> USE DEF Miss, Done
<1>1. TypeOK' /\ SearchOK' /\ PathIsReal'
  BY DEF ActInv, TypeOK, Phases, SearchOK, PathIsReal
<1>2. MissIsReal'
  <2>1. CASE target \notin nodes
    BY <2>1 DEF MissIsReal
  <2>2. CASE queue = << >>
    <3>1. ~(\E i \in 1..Len(queue) : TRUE)
      BY <2>2
    <3>2. target \notin seen
      BY <3>1 DEF ActInv, SearchOK
    <3>3. Entrypoints \cap nodes \subseteq seen /\ \A e \in edges : e[1] \in seen => e[2] \in seen
      BY <3>1 DEF ActInv, SearchOK
    <3>4. seen \in SUBSET nodes
      BY DEF ActInv, TypeOK
    <3>5. ~Reached(target)
      BY <3>2, <3>3, <3>4 DEF Reached
    <3>6. ~Reached(target)'
      BY <3>5 DEF Reached
    <3>7. QED
      BY <3>6 DEF MissIsReal
  <2>3. QED
    BY <2>1, <2>2
<1>3. EarlyOK' /\ AllRun' /\ SnapshotOK' /\ FlowsOK' /\ ConvergedOK'
  BY AugmentKept
<1>4. QED
  BY <1>1, <1>2, <1>3 DEF ActInv

LEMMA StepBackInv == ActInv /\ StepBack => ActInv'
<1> DEFINE before == prev[Head(path)]
<1> SUFFICES ASSUME ActInv, pc = "path", before # Head(path),
                    path' = <<before>> \o path,
                    UNCHANGED <<given, pc, expired, graph, augment, queue, seen, prev,
                                category>>
             PROVE  ActInv'
  BY DEF StepBack
<1>1. /\ path \in Seq(seen) /\ path # << >> /\ prev \in [seen -> seen] /\ seen \subseteq nodes
      /\ Head(path) = path[1] /\ Len(path) \in Nat \ {0}
      /\ path[Len(path)] = target
      /\ \A i \in 1..Len(path) - 1 : <<path[i], path[i + 1]>> \in edges
  <2>1. /\ path \in Seq(seen) /\ path # << >> /\ prev \in [seen -> seen]
        /\ seen \subseteq nodes /\ path[Len(path)] = target
        /\ \A i \in 1..Len(path) - 1 : <<path[i], path[i + 1]>> \in edges
    BY DEF ActInv, TypeOK, SearchOK
  <2>2. QED
    BY <2>1, NonEmptyStarts
<1>2. Head(path) \in seen
  BY <1>1
<1>3. before \in seen /\ <<before, path[1]>> \in edges
  BY <1>1, <1>2 DEF ActInv, SearchOK
<1> HIDE DEF before
<1>4. /\ path' \in Seq(seen') /\ path' # << >> /\ Len(path') = Len(path) + 1
      /\ path'[1] = before
      /\ \A i \in 1..Len(path) : path'[i + 1] = path[i]
  <2>1. /\ <<before>> \o path \in Seq(seen)
        /\ Len(<<before>> \o path) = Len(path) + 1
        /\ (<<before>> \o path)[1] = before
        /\ \A i \in 1..Len(path) : (<<before>> \o path)[i + 1] = path[i]
    BY <1>1, <1>3
  <2>2. QED
    BY <1>1, <2>1
<1>5. TypeOK'
  <2>1. path' \in Seq(nodes')
    BY <1>1, <1>4, SeqGrows
  <2>2. QED
    BY <2>1 DEF ActInv, TypeOK
<1>6. SearchOK'
  <2>1. path'[Len(path')] = target
    BY <1>1, <1>4
  <2>2. ASSUME NEW i \in 1..Len(path') - 1
        PROVE  <<path'[i], path'[i + 1]>> \in edges
    <3>1. CASE i = 1
      BY <1>1, <1>3, <1>4, <3>1
    <3>2. CASE i # 1
      <4>1. i - 1 \in 1..Len(path) - 1 /\ i \in 1..Len(path)
        BY <1>1, <1>4, <2>2, <3>2
      <4>2. path'[i] = path[i - 1] /\ path'[i + 1] = path[i]
        BY <1>1, <1>4, <4>1
      <4>3. QED
        BY <1>1, <4>1, <4>2
    <3>3. QED
      BY <3>1, <3>2
  <2>3. QED
    BY <1>4, <2>1, <2>2 DEF ActInv, SearchOK
<1>7. PathIsReal' /\ MissIsReal'
  BY DEF ActInv, EarlyOK, PathIsReal, MissIsReal
<1>8. EarlyOK' /\ AllRun' /\ SnapshotOK' /\ FlowsOK' /\ ConvergedOK'
  BY AugmentKept
<1>9. QED
  BY <1>5, <1>6, <1>7, <1>8 DEF ActInv

LEMMA ReturnPathInv == ActInv /\ ReturnPath => ActInv'
<1> SUFFICES ASSUME ActInv, ReturnPath
             PROVE  ActInv'
  OBVIOUS
<1> USE DEF ReturnPath, Done
<1>1. TypeOK' /\ SearchOK' /\ MissIsReal'
  BY DEF ActInv, TypeOK, Phases, SearchOK, MissIsReal
<1>2. /\ path \in Seq(seen) /\ path # << >> /\ seen \subseteq nodes
      /\ Head(path) = path[1] /\ Len(path) \in Nat \ {0}
  <2>1. path \in Seq(seen) /\ path # << >> /\ seen \subseteq nodes
    BY DEF ActInv, TypeOK, SearchOK
  <2>2. QED
    BY <2>1, NonEmptyStarts
<1>3. path[1] \in Entrypoints
  BY <1>2 DEF ActInv, SearchOK
<1>4. \A i \in 1..Len(path) : path[i] \in nodes
  BY <1>2
<1>5. \A i \in 1..Len(path) : Runs(path[i])
  BY <1>4 DEF ActInv, AllRun
<1>6. EarlyOK' /\ AllRun' /\ SnapshotOK' /\ FlowsOK' /\ ConvergedOK'
  BY AugmentKept
<1>7. PathIsReal'
  <2>1. \A i \in 1..Len(path) : Runs(path[i])'
    BY <1>4, <1>6 DEF AllRun
  <2>2. QED
    BY <1>2, <1>3, <2>1 DEF ActInv, SearchOK, PathIsReal
<1>8. QED
  BY <1>1, <1>6, <1>7 DEF ActInv

LEMMA ExpireInv == ActInv /\ Expire => ActInv'
<1> SUFFICES ASSUME ActInv, Expire
             PROVE  ActInv'
  OBVIOUS
<1> USE DEF Expire
<1>1. TypeOK' /\ EarlyOK' /\ SnapshotOK' /\ FlowsOK' /\ ConvergedOK' /\ SearchOK'
  BY DEF ActInv, TypeOK, EarlyOK, Empty, SnapshotOK, FlowsOK, FlowsOf, ConvergedOK,
         SearchOK
<1>2. AllRun'
  BY RunsKept DEF ActInv, AllRun
<1>3. PathIsReal' /\ MissIsReal'
  BY DEF ActInv, EarlyOK, PathIsReal, MissIsReal
<1>4. QED
  BY <1>1, <1>2, <1>3 DEF ActInv

LEMMA InvNext == ActInv /\ [Next]_vars => ActInv'
<1> SUFFICES ASSUME ActInv, [Next]_vars
             PROVE  ActInv'
  OBVIOUS
<1>1. CASE Load \/ ResolveTarget \/ FindEntrypoints
  BY <1>1, PrepareInv DEF Load, ResolveTarget, FindEntrypoints
<1>2. CASE BuildRTA
  BY <1>2, BuildRTAInv
<1>3. CASE SkipAugment \/ Converge \/ StopAtLimit
  BY <1>3, SearchStarts
<1>4. CASE BeginAugment
  BY <1>4, BeginAugmentInv
<1>5. CASE Connect
  BY <1>5, ConnectInv
<1>6. CASE NextPass
  BY <1>6, NextPassInv
<1>7. CASE ExploreCallees
  BY <1>7, ExploreInv
<1>8. CASE Visit
  BY <1>8, VisitInv
<1>9. CASE Reach
  BY <1>9, ReachInv
<1>10. CASE Miss
  BY <1>10, MissInv
<1>11. CASE StepBack
  BY <1>11, StepBackInv
<1>12. CASE ReturnPath
  BY <1>12, ReturnPathInv
<1>13. CASE Expire
  BY <1>13, ExpireInv
<1>14. CASE UNCHANGED vars
  <2>1. TypeOK' /\ EarlyOK' /\ SnapshotOK' /\ FlowsOK' /\ ConvergedOK' /\ SearchOK'
    BY <1>14 DEF vars, ActInv, TypeOK, EarlyOK, Empty, SnapshotOK, FlowsOK, FlowsOf,
                 ConvergedOK, SearchOK
  <2>2. UNCHANGED given
    BY <1>14 DEF vars
  <2>3. AllRun'
    BY <1>14, <2>2, RunsKept DEF vars, ActInv, AllRun
  <2>4. MissIsReal'
    BY <1>14 DEF vars, ActInv, MissIsReal, Reached
  <2>5. PathIsReal'
    BY <1>14, <2>2, RunsKept DEF vars, ActInv, PathIsReal
  <2>6. QED
    BY <2>1, <2>3, <2>4, <2>5 DEF ActInv
<1>15. QED
  BY <1>1, <1>2, <1>3, <1>4, <1>5, <1>6, <1>7, <1>8, <1>9, <1>10, <1>11, <1>12, <1>13,
     <1>14 DEF Next, Analyze

-----------------------------------------------------------------------------
\* The invariant holds in every reachable state.
THEOREM Invariant == Spec => []ActInv
BY InvInit, InvNext, PTL DEF Spec

\* Every variable keeps its type.
THEOREM TypeCorrect == Spec => []TypeOK
<1>1. ActInv => TypeOK
  BY DEF ActInv
<1>2. QED
  BY Invariant, <1>1, PTL

\* An augmentation that converges has followed every call and every flow of
\* every function in the graph.
THEOREM ConvergedComplete == Spec => []ConvergedIsComplete
<1>1. ActInv => ConvergedIsComplete
  <2> SUFFICES ASSUME ActInv, pc \in {"bfs", "path"}, pass > 0, ~limitHit
               PROVE  Complete
    BY DEF ConvergedIsComplete
  <2>1. nodes = snapshot /\ pass = Len(PassesOf(mode)) + 1
    BY DEF ActInv, ConvergedOK
  <2>2. \A c \in calls : c[1] \in nodes => c \in edges
    BY <2>1 DEF ActInv, SnapshotOK
  <2>3. \A k \in 1..Len(PassesOf(mode)) : k < pass
    BY <2>1, PassCount
  <2>4. \A k \in 1..Len(PassesOf(mode)) : \A r \in FlowsOf(k) :
            r.from \in nodes => <<r.from, r.to>> \in edges
    BY <2>1, <2>3 DEF ActInv, FlowsOK
  <2>5. QED
    BY <2>2, <2>4 DEF Complete
<1>2. QED
  BY Invariant, <1>1, PTL

\* A reported path starts at an entry point, follows edges of the graph, ends at
\* the target and leads only through functions that can run.
THEOREM PathReal == Spec => []PathIsReal
<1>1. ActInv => PathIsReal
  BY DEF ActInv
<1>2. QED
  BY Invariant, <1>1, PTL

\* A target reported as unreachable is reached by no path of the graph.
THEOREM MissReal == Spec => []MissIsReal
<1>1. ActInv => MissIsReal
  BY DEF ActInv
<1>2. QED
  BY Invariant, <1>1, PTL

\* No function is the root of two analyses, with nothing filtering them.
THEOREM ExploredOnce == Spec => RootsExploredOnce
<1>1. ActInv /\ [Next]_vars
        => [iterations' # iterations => NewFunctions \cap explored = {}]_vars
  <2> SUFFICES ASSUME ActInv, Next, iterations' # iterations
               PROVE  NewFunctions \cap explored = {}
    BY DEF vars
  <2>1. PassesDone
    BY DEF Next, Analyze, Load, ResolveTarget, FindEntrypoints, Prepare, BuildRTA,
           SkipAugment, BeginAugment, Connect, NextPass, Converge, StopAtLimit,
           ExploreCallees, Visit, Reach, Miss, StepBack, ReturnPath, Expire, BeginSearch
  <2>2. pass > 0
    BY <2>1, PassCount DEF PassesDone
  <2>3. QED
    BY <2>2 DEF ActInv, SnapshotOK, NewFunctions
<1>2. QED
  BY Invariant, <1>1, PTL DEF Spec, RootsExploredOnce
-----------------------------------------------------------------------------
\* Why the path is a shortest one: d numbers the functions seen by the edges
\* that led to each.

Levels(d) ==
    /\ \A f \in seen : f \in Entrypoints => d[f] = 0
    /\ \A f \in seen : d[f] = IF prev[f] = f THEN 0 ELSE d[prev[f]] + 1

\* The queue is in the order of d, and spans two levels at most.
ByLevel(d) ==
    \A i \in 1..Len(queue) :
        /\ d[queue[i]] <= d[queue[1]] + 1
        /\ \A j \in i..Len(queue) : d[queue[i]] <= d[queue[j]]

Waiting(f) == \E i \in 1..Len(queue) : queue[i] = f

\* What has been visited is no further than what waits, and its successors
\* are one level further at most.
Visited(d) ==
    \A f \in seen : ~Waiting(f) =>
        /\ \A i \in 1..Len(queue) : d[f] <= d[queue[i]]
        /\ \A g \in nodes : <<f, g>> \in edges => g \in seen /\ d[g] <= d[f] + 1

\* No path of m functions or fewer leads to the target.
Far(m) == \A n \in 1..m : \A w \in [1..n -> nodes] : ~Arrives(n, w)

Layered == \E d \in [seen -> Nat] : Levels(d) /\ ByLevel(d) /\ Visited(d)

Measured ==
    \E d \in [seen -> Nat] :
        /\ Levels(d)
        /\ d[target] = d[path[1]] + Len(path) - 1
        /\ Far(d[target])

ShortInv ==
    /\ pc = "bfs" => Layered
    /\ pc = "path" => Measured
    /\ PathIsShortest

\* A non-empty set of numbers has a least one.
LEMMA Least ==
    ASSUME NEW T, T \subseteq Nat, T # {}
    PROVE  \E m \in T : \A n \in T : m <= n
<1>1. PICK m \in T : \A w \in T : ~(<<w, m>> \in OpToRel(<, Nat))
  BY NatLessThanWellFounded, WFMin
<1>2. ASSUME NEW w \in T
      PROVE  ~(w < m)
  <2>1. w \in Nat /\ m \in Nat
    OBVIOUS
  <2>2. w < m => <<w, m>> \in OpToRel(<, Nat)
    BY <2>1, Zenon DEF OpToRel
  <2>3. QED
    BY <1>1, <2>2, Zenon
<1>3. QED
  BY <1>2

\* A search begins with the entry points, all at level 0.
LEMMA BeginLayered ==
    ASSUME ActInv, ShortInv, pc = "augment", BeginSearch, UNCHANGED <<given, graph>>
    PROVE  ShortInv'
<1> DEFINE starts == Entrypoints \cap nodes
<1>1. /\ queue' \in Seq(starts) /\ seen' = starts /\ prev' = [f \in starts |-> f]
      /\ \A f \in starts : \E i \in 1..Len(queue') : queue'[i] = f
  <2>1. IsFiniteSet(starts)
    BY ActivationAssumption, FS_Subset
  <2>2. queue' \in Lists(starts)
    BY DEF BeginSearch
  <2> HIDE DEF starts
  <2>3. /\ queue' \in Seq(starts)
        /\ \A f \in starts : \E i \in 1..Len(queue') : queue'[i] = f
    BY <2>1, <2>2, ListsAre
  <2> USE DEF starts
  <2>4. QED
    BY <2>3 DEF BeginSearch
<1>2. pc' \in {"bfs", "done"} /\ category' # "none"
  BY DEF BeginSearch, GoOn, Done, ActInv, EarlyOK
<1> HIDE DEF starts
<1>3. PICK d : d = [f \in starts |-> 0]
  OBVIOUS
<1>4. Layered'
  <2>1. d \in [seen' -> Nat] /\ \A f \in seen' : d[f] = 0
    BY <1>1, <1>3
  <2>2. Levels(d)'
    BY <1>1, <2>1 DEF Levels
  <2>3. ByLevel(d)'
    <3>1. ASSUME NEW i \in 1..Len(queue')
          PROVE  d[queue'[i]] = 0
      BY <1>1, <2>1
    <3>2. Len(queue') \in Nat
      BY <1>1, LenProperties
    <3>3. \A i \in 1..Len(queue') :
              1 \in 1..Len(queue') /\ \A j \in i..Len(queue') : j \in 1..Len(queue')
      BY <3>2
    <3>4. QED
      BY <3>1, <3>3 DEF ByLevel
  <2>4. Visited(d)'
    <3>1. \A f \in seen' : Waiting(f)'
      BY <1>1 DEF Waiting
    <3>2. QED
      BY <3>1 DEF Visited
  <2>5. QED
    BY <2>1, <2>2, <2>3, <2>4 DEF Layered
<1>5. PathIsShortest'
  BY <1>2 DEF PathIsShortest
<1>6. QED
  BY <1>2, <1>4, <1>5 DEF ShortInv

\* A visit: what is met for the first time is one level below the function
\* visited.
LEMMA VisitLayered == ActInv /\ ShortInv /\ Visit => ShortInv'
<1> DEFINE node  == Head(queue)
           fresh == {f \in nodes : <<node, f>> \in edges /\ f \notin seen}
           rest  == Tail(queue)
<1> SUFFICES ASSUME ActInv, ShortInv, pc = "bfs", queue # << >>,
                    NEW q \in Lists(fresh),
                    queue' = rest \o q,
                    seen' = seen \cup fresh,
                    prev' = [f \in seen \cup fresh |-> IF f \in fresh THEN node ELSE prev[f]],
                    UNCHANGED <<given, pc, expired, graph, augment, path, category>>
             PROVE  ShortInv'
  BY DEF Visit
<1>1. /\ q \in Seq(fresh)
      /\ \A f \in fresh : \E i \in 1..Len(q) : q[i] = f
  <2>1. IsFiniteSet(fresh)
    BY ActivationAssumption, FS_Subset DEF ActInv, TypeOK
  <2> HIDE DEF fresh
  <2>2. QED
    BY <2>1, ListsAre
<1>2. /\ queue \in Seq(seen) /\ node = queue[1] /\ Len(queue) \in Nat \ {0}
      /\ seen \subseteq nodes /\ prev \in [seen -> seen]
      /\ Entrypoints \cap nodes \subseteq seen
  <2>1. /\ queue \in Seq(seen) /\ seen \subseteq nodes /\ prev \in [seen -> seen]
        /\ Entrypoints \cap nodes \subseteq seen
    BY DEF ActInv, TypeOK, SearchOK
  <2>2. QED
    BY <2>1, NonEmptyStarts
<1>3. node \in seen
  BY <1>2
<1>4. /\ rest \in Seq(seen) /\ Len(rest) = Len(queue) - 1
      /\ \A i \in 1..Len(rest) : rest[i] = queue[i + 1]
  BY <1>2, HeadTailProperties
<1>5. /\ \A f \in fresh : f \notin seen /\ f \notin Entrypoints /\ f \in nodes
      /\ \A g \in nodes : <<node, g>> \in edges => g \in seen \/ g \in fresh
  BY <1>2
<1> HIDE DEF fresh, rest
<1>6. /\ Len(queue') = Len(rest) + Len(q)
      /\ \A i \in 1..Len(rest) : queue'[i] = rest[i]
      /\ \A i \in 1..Len(q) : queue'[Len(rest) + i] = q[i]
  <2>1. q \in Seq(seen \cup fresh) /\ rest \in Seq(seen \cup fresh)
    BY <1>1, <1>4, SeqGrows
  <2>2. /\ Len(rest \o q) = Len(rest) + Len(q)
        /\ \A i \in 1..Len(rest) : (rest \o q)[i] = rest[i]
        /\ \A i \in 1..Len(q) : (rest \o q)[Len(rest) + i] = q[i]
    BY <2>1
  <2>3. QED
    BY <2>2
<1>7. Len(rest) \in Nat /\ Len(q) \in Nat
  BY <1>1, <1>4, LenProperties
<1>8. PICK d \in [seen -> Nat] : Levels(d) /\ ByLevel(d) /\ Visited(d)
  BY DEF ShortInv, Layered
<1> HIDE DEF node
<1>9. PICK e : e = [f \in seen \cup fresh |-> IF f \in fresh THEN d[node] + 1 ELSE d[f]]
  OBVIOUS
<1>10. /\ e \in [seen' -> Nat] /\ seen \subseteq seen' /\ fresh \subseteq seen'
       /\ \A f \in seen : e[f] = d[f] /\ e[f] \in Nat
       /\ \A f \in fresh : e[f] = d[node] + 1
       /\ d[node] \in Nat
  <2>1. d[node] \in Nat
    BY <1>3
  <2>2. QED
    BY <1>5, <1>9, <2>1
\* What waits after the visit waited before it, or has just been met.
<1>11. ASSUME NEW i \in 1..Len(queue')
       PROVE  \/ i \in 1..Len(rest) /\ i + 1 \in 1..Len(queue) /\ queue'[i] = queue[i + 1]
              \/ i \in Len(rest) + 1..Len(queue') /\ queue'[i] \in fresh
  <2>1. CASE i <= Len(rest)
    BY <1>4, <1>6, <1>7, <2>1
  <2>2. CASE i > Len(rest)
    <3>1. i - Len(rest) \in 1..Len(q) /\ Len(rest) + (i - Len(rest)) = i
      BY <1>6, <1>7, <2>2
    <3>2. queue'[i] = q[i - Len(rest)]
      BY <1>6, <3>1
    <3>3. QED
      BY <1>1, <1>6, <1>7, <2>2, <3>1, <3>2
  <2>3. QED
    BY <1>6, <1>7, <2>1, <2>2
<1>12. ASSUME NEW i \in 1..Len(queue')
       PROVE  /\ queue'[i] \in seen' /\ e[queue'[i]] \in Nat
              /\ d[node] <= e[queue'[i]] /\ e[queue'[i]] <= d[node] + 1
  <2>1. CASE queue'[i] \in fresh
    <3>1. e[queue'[i]] = d[node] + 1 /\ queue'[i] \in seen'
      BY <1>10, <2>1
    <3>2. QED
      BY <1>10, <3>1
  <2>2. CASE i + 1 \in 1..Len(queue) /\ queue'[i] = queue[i + 1]
    <3>1. queue[i + 1] \in seen /\ 1 \in 1..Len(queue) /\ i + 1 \in 1..Len(queue)
      BY <1>2, <2>2
    <3>2. /\ d[queue[i + 1]] <= d[queue[1]] + 1
          /\ d[queue[1]] <= d[queue[i + 1]]
      <4>1. i + 1 \in 1..Len(queue)
        BY <3>1
      <4>2. QED
        BY <1>8, <3>1, <4>1 DEF ByLevel
    <3>3. e[queue[i + 1]] = d[queue[i + 1]] /\ queue[1] = node
      BY <1>2, <1>10, <3>1
    <3>4. QED
      BY <1>10, <2>2, <3>1, <3>2, <3>3
  <2>3. QED
    BY <1>11, <2>1, <2>2
<1>13. Levels(e)'
  <2>1. ASSUME NEW f \in seen', f \in Entrypoints
        PROVE  e[f] = 0
    BY <1>5, <1>8, <1>10, <2>1 DEF Levels
  <2>2. ASSUME NEW f \in seen'
        PROVE  e[f] = IF prev'[f] = f THEN 0 ELSE e[prev'[f]] + 1
    <3>1. CASE f \in fresh
      <4>1. prev'[f] = node /\ node # f /\ e[node] = d[node]
        BY <1>3, <1>5, <1>10, <3>1
      <4>2. QED
        BY <1>10, <3>1, <4>1
    <3>2. CASE f \in seen
      <4>1. prev'[f] = prev[f] /\ prev[f] \in seen
        BY <1>2, <1>5, <3>2
      <4>2. d[f] = IF prev[f] = f THEN 0 ELSE d[prev[f]] + 1
        BY <1>8, <3>2 DEF Levels
      <4>3. e[f] = d[f] /\ e[prev[f]] = d[prev[f]]
        BY <1>10, <3>2, <4>1
      <4>4. QED
        BY <4>1, <4>2, <4>3
    <3>3. QED
      BY <3>1, <3>2
  <2>3. QED
    BY <2>1, <2>2 DEF Levels
<1>14. ByLevel(e)'
  <2>1. ASSUME NEW i \in 1..Len(queue')
        PROVE  e[queue'[i]] <= e[queue'[1]] + 1
    <3>1. 1 \in 1..Len(queue')
      BY <1>6, <1>7
    <3>2. QED
      BY <1>10, <1>12, <3>1
  <2>2. ASSUME NEW i \in 1..Len(queue'), NEW j \in i..Len(queue')
        PROVE  e[queue'[i]] <= e[queue'[j]]
    <3>1. j \in 1..Len(queue') /\ i <= j
      BY <1>6, <1>7
    <3>2. CASE queue'[j] \in fresh
      <4>1. e[queue'[j]] = d[node] + 1
        BY <1>10, <3>2
      <4>2. QED
        BY <1>12, <4>1
    <3>3. CASE j \in 1..Len(rest) /\ j + 1 \in 1..Len(queue) /\ queue'[j] = queue[j + 1]
      <4>1. /\ i \in 1..Len(rest) /\ i + 1 \in 1..Len(queue)
            /\ j + 1 \in i + 1..Len(queue)
        BY <1>2, <1>4, <1>7, <3>1, <3>3
      <4>2. queue'[i] = queue[i + 1]
        <5>1. ~(i \in Len(rest) + 1..Len(queue'))
          BY <1>6, <1>7, <4>1
        <5>2. QED
          BY <1>11, <5>1
      <4>3. d[queue[i + 1]] <= d[queue[j + 1]]
        <5>1. /\ i + 1 \in 1..Len(queue)
              /\ j + 1 \in i + 1..Len(queue)
          BY <4>1
        <5>2. QED
          BY <1>8, <5>1 DEF ByLevel
      <4>4. /\ e[queue[i + 1]] = d[queue[i + 1]]
            /\ e[queue[j + 1]] = d[queue[j + 1]]
        <5>1. queue[i + 1] \in seen /\ queue[j + 1] \in seen
          BY <1>2, <3>3, <4>1
        <5>2. QED
          BY <1>10, <5>1
      <4>5. QED
        BY <3>3, <4>2, <4>3, <4>4
    <3>4. QED
      BY <1>11, <3>1, <3>2, <3>3
  <2>3. QED
    BY <2>1, <2>2 DEF ByLevel
<1>15. Visited(e)'
  <2>1. ASSUME NEW f \in fresh
        PROVE  Waiting(f)'
    <3>1. PICK i \in 1..Len(q) : q[i] = f
      BY <1>1
    <3>2. Len(rest) + i \in 1..Len(queue')
      BY <1>6, <1>7
    <3>3. queue'[Len(rest) + i] = f
      BY <1>6, <3>1
    <3>4. QED
      BY <3>2, <3>3 DEF Waiting
  <2>2. ASSUME NEW f \in seen, f # node, Waiting(f)
        PROVE  Waiting(f)'
    <3>1. PICK i \in 1..Len(queue) : queue[i] = f
      BY <2>2 DEF Waiting
    <3>2. i # 1 /\ i - 1 \in 1..Len(rest) /\ (i - 1) + 1 = i
      BY <1>2, <1>4, <1>7, <2>2, <3>1
    <3>3. i - 1 \in 1..Len(queue') /\ queue'[i - 1] = f
      BY <1>4, <1>6, <1>7, <3>1, <3>2
    <3>4. QED
      BY <3>3 DEF Waiting
  <2>3. ASSUME NEW f \in seen', ~Waiting(f)'
        PROVE  /\ \A i \in 1..Len(queue') : e[f] <= e[queue'[i]]
               /\ \A g \in nodes : <<f, g>> \in edges => g \in seen' /\ e[g] <= e[f] + 1
    <3>1. f \in seen /\ (f = node \/ ~Waiting(f))
      BY <2>1, <2>2, <2>3
    <3>2. 1 \in 1..Len(queue) /\ queue[1] = node
      BY <1>2
    <3>3. e[f] <= d[node] /\ e[f] = d[f] /\ e[f] \in Nat
      BY <1>8, <1>10, <3>1, <3>2 DEF Visited
    <3>4. ASSUME NEW i \in 1..Len(queue')
          PROVE  e[f] <= e[queue'[i]]
      BY <1>10, <1>12, <3>3
    <3>5. ASSUME NEW g \in nodes, <<f, g>> \in edges
          PROVE  g \in seen' /\ e[g] <= e[f] + 1
      <4>1. CASE ~Waiting(f)
        <5>1. g \in seen /\ d[g] <= d[f] + 1
          BY <1>8, <3>1, <3>5, <4>1 DEF Visited
        <5>2. QED
          BY <1>10, <3>3, <5>1
      <4>2. CASE f = node /\ g \in fresh
        <5>1. e[g] = d[node] + 1 /\ g \in seen'
          BY <1>10, <4>2
        <5>2. QED
          BY <1>10, <3>3, <4>2, <5>1
      <4>3. CASE f = node /\ g \in seen
        <5>1. CASE Waiting(g)
          <6>1. PICK i \in 1..Len(queue) : queue[i] = g
            BY <5>1 DEF Waiting
          <6>2. d[g] <= d[queue[1]] + 1
            BY <1>8, <6>1 DEF ByLevel
          <6>3. QED
            BY <1>10, <3>2, <3>3, <4>3, <6>2
        <5>2. CASE ~Waiting(g)
          <6>1. d[g] <= d[node] /\ d[g] \in Nat
            BY <1>8, <3>2, <4>3, <5>2 DEF Visited
          <6>2. QED
            BY <1>10, <3>3, <4>3, <6>1
        <5>3. QED
          BY <5>1, <5>2
      <4>4. QED
        BY <1>5, <3>1, <3>5, <4>1, <4>2, <4>3
    <3>6. QED
      BY <3>4, <3>5
  <2>4. QED
    BY <2>3 DEF Visited
<1>16. Layered'
  BY <1>10, <1>13, <1>14, <1>15 DEF Layered
<1>17. PathIsShortest'
  BY DEF ActInv, EarlyOK, PathIsShortest
<1>18. QED
  BY <1>16, <1>17 DEF ShortInv

\* The target comes up at its level: a path shorter than that would have had
\* every one of its functions seen at its own place or before.
LEMMA TargetIsFar ==
    ASSUME ActInv, pc = "bfs", queue # << >>, Head(queue) = target,
           NEW d \in [seen -> Nat], Levels(d), ByLevel(d), Visited(d)
    PROVE  Far(d[target])
<1> SUFFICES ASSUME NEW n \in 1..d[target], NEW w \in [1..n -> nodes], Arrives(n, w)
             PROVE  FALSE
  BY DEF Far
<1>1. /\ queue \in Seq(seen) /\ target = queue[1] /\ Len(queue) \in Nat \ {0}
      /\ Entrypoints \cap nodes \subseteq seen
  <2>1. queue \in Seq(seen) /\ Entrypoints \cap nodes \subseteq seen
    BY DEF ActInv, SearchOK
  <2>2. QED
    BY <2>1, NonEmptyStarts
<1>2. target \in seen /\ d[target] \in Nat /\ n \in Nat \ {0} /\ n <= d[target]
  <2>1. target \in seen
    BY <1>1
  <2>2. d[target] \in Nat
    BY <2>1
  <2>3. QED
    BY <2>1, <2>2
<1> DEFINE Late == {i \in 1..n : ~(w[i] \in seen /\ d[w[i]] <= i - 1)}
<1>3. n \in Late
  <2>1. w[n] = target /\ ~(d[target] <= n - 1) /\ n \in 1..n
    BY <1>2 DEF Arrives
  <2>2. QED
    BY <2>1
<1>4. 1 \notin Late
  <2>1. w[1] \in Entrypoints /\ w[1] \in nodes
    BY <1>2 DEF Arrives
  <2>2. w[1] \in seen /\ d[w[1]] = 0
    BY <1>1, <2>1 DEF Levels
  <2>3. QED
    BY <2>2
<1>5. PICK k \in Late : \A i \in Late : k <= i
  <2>1. Late \subseteq Nat
    BY <1>2
  <2> HIDE DEF Late
  <2>2. QED
    BY <1>3, <2>1, Least
<1>6. k \in 2..n /\ k - 1 \in 1..n - 1 /\ (k - 1) + 1 = k /\ k - 1 \notin Late
  <2>1. k \in 1..n /\ k # 1
    BY <1>4, <1>5
  <2>2. ~(k <= k - 1)
    BY <2>1
  <2>3. QED
    BY <1>2, <1>5, <2>1, <2>2
<1>7. w[k - 1] \in seen /\ d[w[k - 1]] <= (k - 1) - 1
  <2>1. k - 1 \in 1..n
    BY <1>2, <1>6
  <2>2. QED
    BY <1>6, <2>1
<1>8. ~Waiting(w[k - 1])
  <2>1. ASSUME NEW i \in 1..Len(queue), queue[i] = w[k - 1]
        PROVE  FALSE
    <3>1. 1 \in 1..Len(queue) /\ i \in 1..Len(queue)
      BY <1>1
    <3>2. d[queue[1]] <= d[queue[i]]
      BY <3>1 DEF ByLevel
    <3>3. d[w[k - 1]] \in Nat
      BY <1>7
    <3>4. QED
      BY <1>1, <1>2, <1>6, <1>7, <2>1, <3>2, <3>3
  <2>2. QED
    BY <2>1 DEF Waiting
<1>9. <<w[k - 1], w[k]>> \in edges /\ w[k] \in nodes
  <2>1. k \in 1..n
    BY <1>6
  <2>2. <<w[k - 1], w[(k - 1) + 1]>> \in edges
    BY <1>6 DEF Arrives
  <2>3. QED
    BY <1>6, <2>1, <2>2
<1>10. w[k] \in seen /\ d[w[k]] <= d[w[k - 1]] + 1
  BY <1>7, <1>8, <1>9 DEF Visited
<1>11. d[w[k]] <= k - 1
  <2>1. d[w[k]] \in Nat /\ d[w[k - 1]] \in Nat
    BY <1>7, <1>10
  <2>2. QED
    BY <1>6, <1>7, <1>10, <2>1
<1>12. QED
  BY <1>5, <1>10, <1>11

LEMMA ReachMeasured == ActInv /\ ShortInv /\ Reach => ShortInv'
<1> SUFFICES ASSUME ActInv, ShortInv, Reach
             PROVE  ShortInv'
  OBVIOUS
<1> USE DEF Reach
<1>1. PICK d \in [seen -> Nat] : Levels(d) /\ ByLevel(d) /\ Visited(d)
  BY DEF ShortInv, Layered
<1>2. Far(d[target]) /\ target \in seen /\ d[target] \in Nat
  <2>1. target \in seen
    BY HeadTailProperties DEF ActInv, SearchOK
  <2>2. QED
    BY <1>1, <2>1, TargetIsFar
<1>3. PICK m : m = d[target]
  OBVIOUS
<1>4. Far(m)'
  BY <1>2, <1>3 DEF Far, Arrives
<1>5. path'[1] = target /\ Len(path') = 1
  OBVIOUS
<1>6. Levels(d)'
  BY <1>1 DEF Levels
<1>7. /\ d[target'] = d[path'[1]] + Len(path') - 1
      /\ d[target'] = m
  BY <1>2, <1>3, <1>5
<1>8. Measured'
  BY <1>4, <1>6, <1>7 DEF Measured
<1>9. PathIsShortest'
  BY DEF ActInv, EarlyOK, PathIsShortest
<1>10. QED
  BY <1>8, <1>9 DEF ShortInv

LEMMA StepBackMeasured == ActInv /\ ShortInv /\ StepBack => ShortInv'
<1> DEFINE before == prev[Head(path)]
<1> SUFFICES ASSUME ActInv, ShortInv, pc = "path", before # Head(path),
                    path' = <<before>> \o path,
                    UNCHANGED <<given, pc, expired, graph, augment, queue, seen, prev,
                                category>>
             PROVE  ShortInv'
  BY DEF StepBack
<1>1. /\ path \in Seq(seen) /\ prev \in [seen -> seen]
      /\ Head(path) = path[1] /\ Len(path) \in Nat \ {0}
  <2>1. path \in Seq(seen) /\ path # << >> /\ prev \in [seen -> seen]
    BY DEF ActInv, TypeOK, SearchOK
  <2>2. QED
    BY <2>1, NonEmptyStarts
<1>2. path[1] \in seen /\ before \in seen /\ before = prev[path[1]]
  BY <1>1
<1> HIDE DEF before
<1>3. Len(path') = Len(path) + 1 /\ path'[1] = before
  BY <1>1, <1>2
<1>4. PICK d \in [seen -> Nat] : /\ Levels(d)
                                 /\ d[target] = d[path[1]] + Len(path) - 1
                                 /\ Far(d[target])
  BY DEF ShortInv, Measured
<1>5. d[path[1]] = d[before] + 1 /\ d[before] \in Nat
  BY <1>1, <1>2, <1>4 DEF Levels
<1>6. PICK m : m = d[target]
  OBVIOUS
<1>7. Far(m)'
  BY <1>4, <1>6 DEF Far, Arrives
<1>8. Levels(d)'
  BY <1>4 DEF Levels
<1>9. /\ d[target'] = d[path'[1]] + Len(path') - 1
      /\ d[target'] = m
  <2>1. target' = target
    OBVIOUS
  <2>2. d[target] = (d[before] + 1) + Len(path) - 1
    BY <1>4, <1>5
  <2>3. d[target] = d[before] + (Len(path) + 1) - 1
    BY <1>1, <1>5, <2>2
  <2>4. QED
    BY <1>3, <1>6, <2>1, <2>3
<1>10. Measured'
  BY <1>7, <1>8, <1>9 DEF Measured
<1>11. PathIsShortest'
  BY DEF ActInv, EarlyOK, PathIsShortest
<1>12. QED
  BY <1>10, <1>11 DEF ShortInv

LEMMA ReturnMeasured == ActInv /\ ShortInv /\ ReturnPath => ShortInv'
<1> SUFFICES ASSUME ActInv, ShortInv, ReturnPath
             PROVE  ShortInv'
  OBVIOUS
<1> USE DEF ReturnPath, Done
<1>1. /\ path \in Seq(seen) /\ Head(path) = path[1] /\ Len(path) \in Nat \ {0}
  <2>1. path \in Seq(seen) /\ path # << >>
    BY DEF ActInv, TypeOK, SearchOK
  <2>2. QED
    BY <2>1, NonEmptyStarts
<1>2. PICK d \in [seen -> Nat] : /\ Levels(d)
                                 /\ d[target] = d[path[1]] + Len(path) - 1
                                 /\ Far(d[target])
  BY DEF ShortInv, Measured
<1>3. path[1] \in seen /\ d[path[1]] = 0
  BY <1>1, <1>2 DEF Levels
<1>4. d[target] = Len(path) - 1
  BY <1>1, <1>2, <1>3
<1>5. PathIsShortest'
  BY <1>2, <1>4 DEF PathIsShortest, Far, Arrives
<1>6. QED
  BY <1>5 DEF ShortInv

\* Nothing of the search moves.
LEMMA ShortKept ==
    ASSUME ShortInv, UNCHANGED <<given, graph, search>>,
           pc' \in {"bfs", "path"} => pc' = pc,
           category' = "none" => category = "none"
    PROVE  ShortInv'
<1>1. \A d : /\ Levels(d)' <=> Levels(d)
             /\ ByLevel(d)' <=> ByLevel(d)
             /\ Visited(d)' <=> Visited(d)
             /\ Far(d)' <=> Far(d)
  BY DEF Levels, ByLevel, Visited, Waiting, Far, Arrives
<1>2. Layered' <=> Layered
  BY <1>1 DEF Layered
<1>3. Measured' <=> Measured
  BY DEF Measured, Levels, Far, Arrives
<1>4. PathIsShortest'
  BY DEF ShortInv, PathIsShortest, Arrives
<1>5. QED
  BY <1>2, <1>3, <1>4 DEF ShortInv

\* Before the search there is nothing to measure.
LEMMA ShortEarly ==
    ASSUME category' # "none", pc' \notin {"bfs", "path"}
    PROVE  ShortInv'
BY DEF ShortInv, PathIsShortest

LEMMA ShortNext == ActInv /\ ShortInv /\ [Next]_vars => ShortInv'
<1> SUFFICES ASSUME ActInv, ShortInv, [Next]_vars
             PROVE  ShortInv'
  OBVIOUS
<1>1. CASE Load \/ ResolveTarget \/ FindEntrypoints \/ BuildRTA
  <2>1. category' # "none" /\ pc' \notin {"bfs", "path"}
    BY <1>1 DEF Load, ResolveTarget, FindEntrypoints, Prepare, BuildRTA, GoOn, Done,
                ActInv, EarlyOK
  <2>2. QED
    BY <2>1, ShortEarly
<1>2. CASE SkipAugment \/ Converge \/ StopAtLimit
  <2>1. pc = "augment" /\ BeginSearch /\ UNCHANGED <<given, graph>>
    BY <1>2 DEF SkipAugment, Converge, StopAtLimit, PassesDone
  <2>2. QED
    BY <2>1, BeginLayered
<1>3. CASE BeginAugment \/ Connect \/ NextPass \/ ExploreCallees
  <2>1. category' # "none" /\ pc' \notin {"bfs", "path"}
    BY <1>3 DEF BeginAugment, Connect, NextPass, ExploreCallees, PassesDone, ActInv, EarlyOK
  <2>2. QED
    BY <2>1, ShortEarly
<1>4. CASE Visit
  BY <1>4, VisitLayered
<1>5. CASE Reach
  BY <1>5, ReachMeasured
<1>6. CASE Miss
  <2>1. /\ UNCHANGED <<given, graph, search>> /\ pc' = "done" /\ category' # "none"
    BY <1>6 DEF Miss, Done
  <2>2. QED
    BY <2>1, ShortKept
<1>7. CASE StepBack
  BY <1>7, StepBackMeasured
<1>8. CASE ReturnPath
  BY <1>8, ReturnMeasured
<1>9. CASE Expire \/ UNCHANGED vars
  <2>1. UNCHANGED <<given, graph, search>> /\ pc' = pc /\ category' = category
    BY <1>9 DEF Expire, vars
  <2>2. QED
    BY <2>1, ShortKept
<1>10. QED
  BY <1>1, <1>2, <1>3, <1>4, <1>5, <1>6, <1>7, <1>8, <1>9 DEF Next, Analyze

\* No path of the graph from an entry point to the target is shorter than the
\* one reported, although functions are met in an order of their names and the
\* path is read backwards from the target.
THEOREM PathShortest == Spec => []PathIsShortest
<1>1. Init => ShortInv
  BY DEF Init, ShortInv, PathIsShortest
<1>2. ActInv /\ ShortInv /\ [Next]_vars => ShortInv'
  BY ShortNext
<1>3. ShortInv => PathIsShortest
  BY DEF ShortInv
<1>4. QED
  BY Invariant, <1>1, <1>2, <1>3, PTL DEF Spec

-----------------------------------------------------------------------------
(* Maps of functions: what is handed to a map along chains of calls.       *)

\* What a fact says after a chain of calls: a parameter of the outermost caller
\* ends up in the map.
Outer(n, fact, c, p) == <<c[n].caller, fact[2], ParamOf(c[n].caller, c[n].args[p[n]])>>

\* Facts that a chain of n calls gives.
Passed(n, g) ==
    \E fact \in DirectFacts : \E c \in [1..n -> Callsites] : \E p \in [1..n -> Positions] :
        Chain(n, fact, c, p) /\ g[3] # NoFn /\ g = Outer(n, fact, c, p)

\* A fact after n calls.
FactAfter(n, g) == IF n = 0 THEN g \in DirectFacts ELSE Passed(n, g)
Meets(g, call) == call.callee = g[1] /\ g[3] \in DOMAIN call.args

\* Arguments are counted from one.
LEMMA ArgumentPlaces ==
    ASSUME prog \in Inputs, NEW call \in Callsites
    PROVE  NoFn \notin DOMAIN call.args
<1>1. PICK f \in Fns : \E i \in CallsIn(f) : call.args = i.args
  BY DEF Callsites
<1>2. PICK i \in CallsIn(f) : call.args = i.args
  BY <1>1
<1>3. Listed(i.args)
  BY ProgramAssumption DEF CallsIn, Instrs, Code, Fns
<1>4. QED
  BY <1>2, <1>3 DEF Listed, NoFn

LEMMA DirectFactShape ==
    ASSUME NEW g \in DirectFacts
    PROVE  g = <<g[1], g[2], g[3]>> /\ g[3] # NoFn
<1>1. PICK f \in Fns : g \in UNION {Fact(f, u.map, StoredParam(f, u.val)) : u \in Updates(f)}
  BY DEF DirectFacts
<1>2. PICK u \in Updates(f) : g \in Fact(f, u.map, StoredParam(f, u.val))
  BY <1>1
<1>3. QED
  BY <1>2 DEF Fact

LEMMA FactShape ==
    ASSUME NEW n \in Nat, NEW g, FactAfter(n, g)
    PROVE  g = <<g[1], g[2], g[3]>> /\ g[3] # NoFn
<1>1. CASE n = 0
  BY <1>1, DirectFactShape DEF FactAfter
<1>2. CASE n # 0
  BY <1>2 DEF FactAfter, Passed, Outer
<1>3. QED
  BY <1>1, <1>2

\* A call that passes on what a fact is about makes a chain one call longer.
LEMMA ChainGrows ==
    ASSUME prog \in Inputs, NEW n \in Nat, NEW g, FactAfter(n, g),
           NEW call \in Callsites, Meets(g, call)
    PROVE  /\ \A s \in Stored(g[2], call.args[g[3]]) : HandedBy(n + 1, s)
           /\ \A h \in Fact(call.caller, g[2], ParamOf(call.caller, call.args[g[3]])) :
                 Passed(n + 1, h)
<1>1. g[3] \in Positions
  BY DEF Meets, Positions
<1>2. ASSUME NEW fact \in DirectFacts, NEW c \in [1..(n + 1) -> Callsites],
             NEW p \in [1..(n + 1) -> Positions],
             Chain(n + 1, fact, c, p), fact[2] = g[2], c[n + 1] = call, p[n + 1] = g[3]
      PROVE  /\ \A s \in Stored(g[2], call.args[g[3]]) : HandedBy(n + 1, s)
             /\ \A h \in Fact(call.caller, g[2], ParamOf(call.caller, call.args[g[3]])) :
                   Passed(n + 1, h)
  <2>1. \A s \in Stored(g[2], call.args[g[3]]) : HandedBy(n + 1, s)
    BY <1>2 DEF HandedBy
  <2>2. ASSUME NEW h \in Fact(call.caller, g[2], ParamOf(call.caller, call.args[g[3]]))
        PROVE  Passed(n + 1, h)
    <3>1. h = Outer(n + 1, fact, c, p) /\ h[3] # NoFn
      BY <1>2, <2>2 DEF Fact, Outer
    <3>2. QED
      BY <1>2, <3>1 DEF Passed
  <2>3. QED
    BY <2>1, <2>2
<1>3. CASE n = 0
  <2> DEFINE c == [j \in 1..1 |-> call]
             p == [j \in 1..1 |-> g[3]]
  <2>1. n + 1 = 1 /\ g \in DirectFacts
    BY <1>3 DEF FactAfter
  <2>2. /\ c \in [1..1 -> Callsites] /\ p \in [1..1 -> Positions]
        /\ c[1] = call /\ p[1] = g[3]
    BY <1>1
  <2>3. Chain(1, g, c, p)
    <3> HIDE DEF c, p
    <3> QED
      BY <2>2 DEF Chain, Meets
  <2> HIDE DEF c, p
  <2>4. QED
    BY <1>2, <2>1, <2>2, <2>3
<1>4. CASE n # 0
  <2>1. PICK fact \in DirectFacts, d \in [1..n -> Callsites], q \in [1..n -> Positions] :
             Chain(n, fact, d, q) /\ g[3] # NoFn /\ g = Outer(n, fact, d, q)
    BY <1>4 DEF FactAfter, Passed
  <2> DEFINE c == [j \in 1..(n + 1) |-> IF j = n + 1 THEN call ELSE d[j]]
             p == [j \in 1..(n + 1) |-> IF j = n + 1 THEN g[3] ELSE q[j]]
  <2>2. c \in [1..(n + 1) -> Callsites] /\ p \in [1..(n + 1) -> Positions]
    BY <1>1
  <2>3. /\ c[n + 1] = call /\ p[n + 1] = g[3]
        /\ \A j \in 1..n : c[j] = d[j] /\ p[j] = q[j]
    OBVIOUS
  <2>4. Chain(n + 1, fact, c, p)
    <3> HIDE DEF c, p
    <3>1. 1 \in 1..n /\ n \in 1..n
      BY <1>4
    <3>2. c[1].callee = fact[1] /\ p[1] = fact[3]
      BY <2>1, <2>3, <3>1 DEF Chain
    <3>3. ASSUME NEW j \in 1..(n + 1) PROVE p[j] \in DOMAIN c[j].args
      <4>1. CASE j \in 1..n
        BY <2>1, <2>3, <4>1 DEF Chain
      <4>2. CASE j = n + 1
        BY <2>3, <4>2 DEF Meets
      <4>3. QED
        BY <4>1, <4>2
    <3>4. ASSUME NEW j \in 1..n
          PROVE  /\ c[j + 1].callee = c[j].caller
                 /\ p[j + 1] = ParamOf(c[j].caller, c[j].args[p[j]])
      <4>1. CASE j = n
        BY <2>1, <2>3, <3>1, <4>1 DEF Meets, Outer
      <4>2. CASE j # n
        <5>1. j \in 1..(n - 1) /\ j + 1 \in 1..n
          BY <4>2
        <5>2. QED
          BY <2>1, <2>3, <5>1 DEF Chain
      <4>3. QED
        BY <4>1, <4>2
    <3>5. (n + 1) - 1 = n
      OBVIOUS
    <3>6. QED
      BY <3>2, <3>3, <3>4, <3>5 DEF Chain
  <2>5. fact[2] = g[2]
    BY <2>1 DEF Outer
  <2> HIDE DEF c, p
  <2>6. QED
    BY <1>2, <2>2, <2>3, <2>4, <2>5
<1>5. QED
  BY <1>3, <1>4

\* A chain is one call after a shorter chain.
LEMMA ChainShrinks ==
    ASSUME prog \in Inputs, NEW n \in Nat, NEW fact \in DirectFacts,
           NEW c \in [1..(n + 1) -> Callsites], NEW p \in [1..(n + 1) -> Positions],
           Chain(n + 1, fact, c, p)
    PROVE  \E g : /\ FactAfter(n, g) /\ Meets(g, c[n + 1])
                  /\ g[2] = fact[2] /\ g[3] = p[n + 1]
<1>1. n + 1 \in 1..(n + 1) /\ (n + 1) - 1 = n
  OBVIOUS
<1>2. CASE n = 0
  <2>1. FactAfter(n, fact) /\ Meets(fact, c[n + 1]) /\ fact[3] = p[n + 1]
    BY <1>1, <1>2 DEF FactAfter, Meets, Chain
  <2>2. QED
    BY <2>1
<1>3. CASE n # 0
  <2>1. n \in 1..n /\ n \in 1..(n + 1) /\ 1 \in 1..n
    BY <1>3
  <2> DEFINE d == [j \in 1..n |-> c[j]]
             q == [j \in 1..n |-> p[j]]
             g == Outer(n, fact, d, q)
  <2>2. /\ d \in [1..n -> Callsites] /\ q \in [1..n -> Positions]
        /\ \A j \in 1..n : d[j] = c[j] /\ q[j] = p[j]
    OBVIOUS
  <2>3. /\ g[1] = c[n].caller /\ g[2] = fact[2]
        /\ g[3] = ParamOf(c[n].caller, c[n].args[p[n]])
    BY <2>1, <2>2 DEF Outer
  <2>4. Chain(n, fact, d, q)
    <3> HIDE DEF d, q
    <3>1. \A j \in 1..n : q[j] \in DOMAIN d[j].args
      BY <2>2 DEF Chain
    <3>2. \A j \in 1..(n - 1) : j \in 1..n /\ j + 1 \in 1..n
      OBVIOUS
    <3>3. \A j \in 1..(n - 1) : /\ d[j + 1].callee = d[j].caller
                                /\ q[j + 1] = ParamOf(d[j].caller, d[j].args[q[j]])
      BY <1>1, <2>2, <3>2 DEF Chain
    <3>4. QED
      BY <2>1, <2>2, <3>1, <3>3 DEF Chain
  <2>5. /\ c[n + 1].callee = c[n].caller /\ p[n + 1] \in DOMAIN c[n + 1].args
        /\ p[n + 1] = ParamOf(c[n].caller, c[n].args[p[n]])
    BY <1>1, <2>1 DEF Chain
  <2>6. g[3] # NoFn
    <3> HIDE DEF g, d, q
    <3>1. c[n + 1] \in Callsites
      BY <1>1
    <3>2. QED
      BY <2>3, <2>5, <3>1, ArgumentPlaces
  <2>7. FactAfter(n, g) /\ Meets(g, c[n + 1]) /\ g[3] = p[n + 1]
    <3>1. Passed(n, g)
      <4>1. g = Outer(n, fact, d, q)
        OBVIOUS
      <4> HIDE DEF g, d, q
      <4>2. QED
        BY <2>2, <2>4, <2>6, <4>1 DEF Passed
    <3> HIDE DEF g, d, q
    <3>2. QED
      BY <1>3, <2>3, <2>5, <3>1 DEF FactAfter, Meets
  <2>8. QED
    BY <2>3, <2>7
<1>4. QED
  BY <1>2, <1>3

\* The program is the same at every step, and so is what is read from it.
LEMMA SameResolved ==
    ASSUME prog' = prog
    PROVE  /\ Fns' = Fns /\ \A f : CallsIn(f)' = CallsIn(f) /\ Stores(f)' = Stores(f)
           /\ \A f : Code(f)' = Code(f) /\ Updates(f)' = Updates(f)
           /\ \A f : ClosureTarget(f)' = ClosureTarget(f)
           /\ \A f, v : ParamOfBinding(f, v)' = ParamOfBinding(f, v)
           /\ \A f, v : ParamOfClosure(f, v)' = ParamOfClosure(f, v)
           /\ \A v : Resolved(v)' = Resolved(v)
<1>1. /\ Fns' = Fns /\ \A f : CallsIn(f)' = CallsIn(f) /\ Stores(f)' = Stores(f)
      /\ \A f : Code(f)' = Code(f) /\ Updates(f)' = Updates(f)
  BY DEF Fns, CallsIn, Stores, Instrs, Code, Updates
<1>2. \A f : ClosureTarget(f)' = ClosureTarget(f)
  BY <1>1 DEF ClosureTarget
<1>3. \A f : SingleCalledFreeVar(f)' = SingleCalledFreeVar(f)
  <2>1. \A f : FreeCalls(f)' = FreeCalls(f)
    BY <1>1 DEF FreeCalls
  <2>2. QED
    BY <2>1 DEF SingleCalledFreeVar
<1>4. \A f, v : ParamOfBinding(f, v)' = ParamOfBinding(f, v)
  BY <1>1 DEF ParamOfBinding, TheOne
<1>5. \A f, v : ParamOfClosure(f, v)' = ParamOfClosure(f, v)
  BY <1>3, <1>4 DEF ParamOfClosure
<1>6. \A w : DelegatedParam(w)' = DelegatedParam(w)
  <2>1. \A w : Returns(w)' = Returns(w)
    BY <1>1 DEF Returns
  <2>2. QED
    BY <1>5, <2>1 DEF DelegatedParam
<1>7. \A v : Unwrapped(v)' = Unwrapped(v)
  BY <1>6 DEF Unwrapped
<1>8. \A v : Resolved(v)' = Resolved(v)
  <2>1. \A v : Layers(v)' = Layers(v)
    BY <1>7 DEF Layers
  <2>2. QED
    BY <1>2, <2>1 DEF Resolved
<1>9. QED
  BY <1>1, <1>2, <1>4, <1>5, <1>8

LEMMA SameFacts ==
    ASSUME prog' = prog
    PROVE  /\ \A m, v : Stored(m, v)' = Stored(m, v)
           /\ \A f, v : ParamOf(f, v)' = ParamOf(f, v)
           /\ DirectStores' = DirectStores /\ DirectFacts' = DirectFacts
           /\ Callsites' = Callsites
           /\ \A n, g : FactAfter(n, g)' <=> FactAfter(n, g)
           /\ \A n, s : HandedBy(n, s)' <=> HandedBy(n, s)
           /\ \A max : Carried(max)' = Carried(max)
<1>1. \A m, v : Stored(m, v)' = Stored(m, v)
  <2>1. \A s : ResolvedIn(s)' = ResolvedIn(s)
    BY SameResolved DEF ResolvedIn
  <2>2. QED
    BY <2>1, SameResolved DEF Stored
<1>2. \A f, v : ParamOf(f, v)' = ParamOf(f, v)
  BY SameResolved DEF ParamOf
<1>3. \A f, v : StoredParam(f, v)' = StoredParam(f, v)
  BY <1>2, SameResolved DEF StoredParam
<1>4. DirectStores' = DirectStores
  BY <1>1, SameResolved DEF DirectStores
<1>5. DirectFacts' = DirectFacts
  BY <1>3, SameResolved DEF DirectFacts
<1>6. Callsites' = Callsites
  BY SameResolved DEF Callsites
<1>7. Positions' = Positions /\ Handed' = Handed
  BY <1>6 DEF Positions, Handed
<1>8. \A n, fact, c, p : Chain(n, fact, c, p)' <=> Chain(n, fact, c, p)
  BY <1>2 DEF Chain
<1>9. \A n, fact, c, p : Outer(n, fact, c, p)' = Outer(n, fact, c, p)
  BY <1>2 DEF Outer
<1>10. \A n, g : Passed(n, g)' <=> Passed(n, g)
  BY <1>5, <1>6, <1>7, <1>8, <1>9 DEF Passed
<1>11. \A n, g : FactAfter(n, g)' <=> FactAfter(n, g)
  BY <1>5, <1>10 DEF FactAfter
<1>12. \A n, s : HandedBy(n, s)' <=> HandedBy(n, s)
  BY <1>1, <1>5, <1>6, <1>7, <1>8 DEF HandedBy
<1>13. \A max : Carried(max)' = Carried(max)
  <2>1. UNION {Stored(fact[2], v) : fact \in DirectFacts, v \in Handed}'
          = UNION {Stored(fact[2], v) : fact \in DirectFacts, v \in Handed}
    BY <1>1, <1>5, <1>7
  <2>2. QED
    BY <1>12, <2>1 DEF Carried
<1>14. QED
  BY <1>1, <1>2, <1>4, <1>5, <1>6, <1>11, <1>12, <1>13

\* What is carried is what some chain hands over.
LEMMA CarriedIs ==
    ASSUME NEW max \in Nat, NEW s
    PROVE  s \in Carried(max) <=> \E n \in 1..max : HandedBy(n, s)
<1>1. ASSUME NEW n \in 1..max, HandedBy(n, s)
      PROVE  s \in UNION {Stored(fact[2], v) : fact \in DirectFacts, v \in Handed}
  <2>1. PICK fact \in DirectFacts, c \in [1..n -> Callsites], p \in [1..n -> Positions] :
             Chain(n, fact, c, p) /\ s \in Stored(fact[2], c[n].args[p[n]])
    BY <1>1 DEF HandedBy
  <2>2. n \in 1..n /\ c[n] \in Callsites /\ p[n] \in DOMAIN c[n].args
    BY <2>1 DEF Chain
  <2>3. c[n].args[p[n]] \in Handed
    BY <2>2 DEF Handed, ToSet
  <2>4. QED
    BY <2>1, <2>3
<1>2. QED
  BY <1>1 DEF Carried

\* After so many rounds, the index has the facts and the stores of chains of as
\* many calls.
IndexIs(r) ==
    /\ \A g : g \in index.facts <=> \E n \in 0..r : FactAfter(n, g)
    /\ \A s : s \in index.stores <=> (s \in DirectStores \/ \E n \in 1..r : HandedBy(n, s))

LEMMA LinkIs ==
    ASSUME NEW g \in index.facts, NEW call \in Callsites, Meets(g, call)
    PROVE  /\ \A s \in Stored(g[2], call.args[g[3]]) : s \in NewStores
           /\ \A h \in Fact(call.caller, g[2], ParamOf(call.caller, call.args[g[3]])) :
                 h \in NewFacts
<1> DEFINE l == <<g, call>>
<1>1. l \in Links /\ l[1] = g /\ l[2] = call
  BY DEF Links, Meets
<1> HIDE DEF l
<1>2. /\ Stored(l[1][2], Arg(l)) \subseteq NewStores /\ FactsOf(l) \subseteq NewFacts
  BY <1>1 DEF NewStores, NewFacts
<1>3. QED
  BY <1>1, <1>2 DEF FactsOf, Arg

LEMMA LinkOf ==
    /\ \A s \in NewStores : \E g \in index.facts, call \in Callsites :
          Meets(g, call) /\ s \in Stored(g[2], call.args[g[3]])
    /\ \A h \in NewFacts : \E g \in index.facts, call \in Callsites :
          Meets(g, call) /\ h \in Fact(call.caller, g[2], ParamOf(call.caller, call.args[g[3]]))
<1>1. ASSUME NEW s \in NewStores
      PROVE  \E g \in index.facts, call \in Callsites :
                Meets(g, call) /\ s \in Stored(g[2], call.args[g[3]])
  <2>1. PICK l \in Links : s \in Stored(l[1][2], Arg(l))
    BY DEF NewStores
  <2>2. l[1] \in index.facts /\ l[2] \in Callsites /\ Meets(l[1], l[2])
    BY DEF Links, Meets
  <2>3. QED
    BY <2>1, <2>2 DEF Arg
<1>2. ASSUME NEW h \in NewFacts
      PROVE  \E g \in index.facts, call \in Callsites :
                Meets(g, call)
                /\ h \in Fact(call.caller, g[2], ParamOf(call.caller, call.args[g[3]]))
  <2>1. PICK l \in Links : h \in FactsOf(l)
    BY DEF NewFacts
  <2>2. l[1] \in index.facts /\ l[2] \in Callsites /\ Meets(l[1], l[2])
    BY DEF Links, Meets
  <2>3. QED
    BY <2>1, <2>2 DEF Arg, FactsOf
<1>3. QED
  BY <1>1, <1>2

\* A chain one call longer ends in a link of the index.
LEMMA LongerLinks ==
    ASSUME prog \in Inputs, NEW n \in Nat,
           \A g : FactAfter(n, g) => g \in index.facts
    PROVE  /\ \A s : HandedBy(n + 1, s) => s \in NewStores
           /\ \A h : Passed(n + 1, h) => h \in NewFacts
<1>1. ASSUME NEW fact \in DirectFacts, NEW c \in [1..(n + 1) -> Callsites],
             NEW p \in [1..(n + 1) -> Positions], Chain(n + 1, fact, c, p)
      PROVE  /\ \A s \in Stored(fact[2], c[n + 1].args[p[n + 1]]) : s \in NewStores
             /\ \A h : h[3] # NoFn /\ h = Outer(n + 1, fact, c, p) => h \in NewFacts
  <2>1. PICK g : /\ FactAfter(n, g) /\ Meets(g, c[n + 1])
                 /\ g[2] = fact[2] /\ g[3] = p[n + 1]
    BY <1>1, ChainShrinks
  <2>2. g \in index.facts /\ c[n + 1] \in Callsites
    BY <2>1
  <2>3. /\ \A s \in Stored(g[2], c[n + 1].args[g[3]]) : s \in NewStores
        /\ \A h \in Fact(c[n + 1].caller, g[2], ParamOf(c[n + 1].caller, c[n + 1].args[g[3]])) :
                 h \in NewFacts
    BY <2>1, <2>2, LinkIs
  <2>4. ASSUME NEW h, h[3] # NoFn, h = Outer(n + 1, fact, c, p)
        PROVE  h \in NewFacts
    <3>1. h \in Fact(c[n + 1].caller, g[2], ParamOf(c[n + 1].caller, c[n + 1].args[g[3]]))
      BY <2>1, <2>4 DEF Fact, Outer
    <3>2. QED
      BY <2>3, <3>1
  <2>5. QED
    BY <2>1, <2>3, <2>4
<1>2. QED
  BY <1>1 DEF HandedBy, Passed

LEMMA RoundGrows ==
    ASSUME prog \in Inputs, NEW r \in Nat, IndexIs(r)
    PROVE  /\ \A g : g \in index.facts \cup NewFacts <=> \E n \in 0..(r + 1) : FactAfter(n, g)
           /\ \A s : s \in index.stores \cup NewStores
                        <=> (s \in DirectStores \/ \E n \in 1..(r + 1) : HandedBy(n, s))
<1>1. ASSUME NEW g \in index.facts, NEW call \in Callsites, Meets(g, call)
      PROVE  \E n \in 0..r :
                /\ \A s \in Stored(g[2], call.args[g[3]]) : HandedBy(n + 1, s)
                /\ \A h \in Fact(call.caller, g[2], ParamOf(call.caller, call.args[g[3]])) :
                      Passed(n + 1, h)
  <2>1. PICK n \in 0..r : FactAfter(n, g)
    BY DEF IndexIs
  <2>2. QED
    BY <1>1, <2>1, ChainGrows
<1>2. ASSUME NEW g \in NewFacts PROVE \E n \in 0..(r + 1) : FactAfter(n, g)
  <2>1. PICK n \in 0..r : Passed(n + 1, g)
    BY <1>1, LinkOf
  <2>2. n + 1 \in 0..(r + 1) /\ n + 1 # 0
    OBVIOUS
  <2>3. QED
    BY <2>1, <2>2 DEF FactAfter
<1>3. ASSUME NEW s \in NewStores PROVE \E n \in 1..(r + 1) : HandedBy(n, s)
  <2>1. PICK n \in 0..r : HandedBy(n + 1, s)
    BY <1>1, LinkOf
  <2>2. n + 1 \in 1..(r + 1)
    OBVIOUS
  <2>3. QED
    BY <2>1, <2>2
<1>4. \A g : FactAfter(r, g) => g \in index.facts
  BY DEF IndexIs
<1>5. /\ \A s : HandedBy(r + 1, s) => s \in NewStores
      /\ \A h : Passed(r + 1, h) => h \in NewFacts
  BY <1>4, LongerLinks
<1>6. ASSUME NEW g, NEW n \in 0..(r + 1), FactAfter(n, g) PROVE g \in index.facts \cup NewFacts
  <2>1. CASE n \in 0..r
    BY <1>6, <2>1 DEF IndexIs
  <2>2. CASE n = r + 1
    BY <1>5, <1>6, <2>2 DEF FactAfter
  <2>3. QED
    BY <2>1, <2>2
<1>7. ASSUME NEW s, NEW n \in 1..(r + 1), HandedBy(n, s)
      PROVE  s \in index.stores \cup NewStores
  <2>1. CASE n \in 1..r
    BY <1>7, <2>1 DEF IndexIs
  <2>2. CASE n = r + 1
    BY <1>5, <1>7, <2>2
  <2>3. QED
    BY <2>1, <2>2
<1>8. \A n \in 0..r : n \in 0..(r + 1)
  OBVIOUS
<1>9. \A n \in 1..r : n \in 1..(r + 1)
  OBVIOUS
<1>10. QED
  BY <1>2, <1>3, <1>6, <1>7, <1>8, <1>9 DEF IndexIs

\* A set with zero and the successors of its members holds every number.
LEMMA Climbing ==
    ASSUME NEW T, 0 \in T, \A n \in Nat : n \in T => n + 1 \in T
    PROVE  Nat \subseteq T
<1> DEFINE M == {n \in Nat : n \notin T}
<1>1. SUFFICES ASSUME M # {} PROVE FALSE
  OBVIOUS
<1>2. PICK m \in M : \A n \in M : m <= n
  BY <1>1, Least
<1>3. m \in Nat /\ m # 0 /\ m \notin T
  OBVIOUS
<1>4. m - 1 \in Nat /\ m - 1 \notin M /\ (m - 1) + 1 = m
  BY <1>2, <1>3
<1>5. QED
  BY <1>3, <1>4

\* Before the propagation; while it runs; and when it has ended because nothing
\* was new, or because there were too many rounds.
Scanning    == {"structfield", "predicates", "goroutine", "pkgvars", "funcargs", "mapscan"}
Propagated  == {"lookups", "interfaces", "done"}
NothingNew  == NewStores \subseteq index.stores /\ NewFacts \subseteq index.facts
MapInv ==
    /\ prog \in Inputs
    /\ \/ stage \in Scanning /\ rounds = 0 /\ ~propagationLimitHit
       \/ stage = "propagate" /\ rounds \in 0..MaxRounds /\ ~propagationLimitHit /\ IndexIs(rounds)
       \/ /\ stage \in Propagated /\ rounds \in 0..MaxRounds /\ IndexIs(rounds)
          /\ IF propagationLimitHit THEN rounds = MaxRounds ELSE NothingNew

LEMMA SameIndex ==
    ASSUME prog' = prog, index' = index
    PROVE  /\ \A r : IndexIs(r)' <=> IndexIs(r)
           /\ NothingNew' <=> NothingNew
<1>1. \A r : IndexIs(r)' <=> IndexIs(r)
  BY SameFacts DEF IndexIs
<1>2. Links' = Links
  BY SameFacts DEF Links
<1>3. \A l : Arg(l)' = Arg(l)
  BY DEF Arg
<1>4. NewStores' = NewStores
  BY <1>2, <1>3, SameFacts DEF NewStores
<1>5. \A l : FactsOf(l)' = FactsOf(l)
  BY <1>3, SameFacts DEF FactsOf
<1>6. NewFacts' = NewFacts
  BY <1>2, <1>5 DEF NewFacts
<1>7. QED
  BY <1>1, <1>4, <1>6 DEF NothingNew

LEMMA ScanMapsStarts ==
    ASSUME MapInv, ScanMaps
    PROVE  MapInv'
<1>1. /\ prog' = prog /\ rounds = 0 /\ rounds' = 0 /\ ~propagationLimitHit' /\ stage' = "propagate"
      /\ index'.stores = DirectStores /\ index'.facts = DirectFacts
  BY DEF MapInv, ScanMaps, Goto, Scanning, Propagated
<1>2. IndexIs(0)'
  <2>1. \A g : FactAfter(0, g) <=> g \in DirectFacts
    BY DEF FactAfter
  <2>2. \A g : g \in index'.facts <=> \E n \in 0..0 : FactAfter(n, g)'
    BY <1>1, <2>1, SameFacts
  <2>3. \A s : s \in index'.stores <=> s \in DirectStores' \/ \E n \in 1..0 : HandedBy(n, s)'
    BY <1>1, SameFacts
  <2>4. QED
    BY <2>2, <2>3 DEF IndexIs
<1>3. QED
  BY <1>1, <1>2, ProgramAssumption DEF MapInv

LEMMA PropagateMapsGrows ==
    ASSUME MapInv, PropagateMaps
    PROVE  MapInv'
<1>1. /\ prog \in Inputs /\ prog' = prog /\ rounds \in 0..MaxRounds /\ rounds < MaxRounds
      /\ rounds' = rounds + 1
      /\ ~propagationLimitHit' /\ IndexIs(rounds)
      /\ index'.stores = index.stores \cup NewStores
      /\ index'.facts = index.facts \cup NewFacts
      /\ stage' = (IF index' = index THEN "lookups" ELSE "propagate")
  BY DEF MapInv, PropagateMaps, Scanning, Propagated
<1>2. rounds \in Nat /\ rounds' \in 0..MaxRounds
  BY <1>1, ProgramAssumption
<1>3. PICK r \in Nat : r = rounds
  BY <1>2
<1>4. IndexIs(r + 1)'
  <2>1. /\ \A g : g \in index'.facts <=> \E n \in 0..(r + 1) : FactAfter(n, g)
        /\ \A s : s \in index'.stores
                     <=> (s \in DirectStores \/ \E n \in 1..(r + 1) : HandedBy(n, s))
    BY <1>1, <1>3, RoundGrows
  <2>2. QED
    BY <1>1, <2>1, SameFacts DEF IndexIs
<1>5. rounds' = r + 1
  BY <1>1, <1>3
<1>6. CASE index' = index
  <2>1. NothingNew
    BY <1>1, <1>6 DEF NothingNew
  <2>2. NothingNew'
    BY <1>1, <1>6, <2>1, SameIndex
  <2>3. QED
    BY <1>1, <1>2, <1>4, <1>5, <1>6, <2>2 DEF MapInv, Propagated
<1>7. CASE index' # index
  BY <1>1, <1>2, <1>4, <1>5, <1>7 DEF MapInv
<1>8. QED
  BY <1>6, <1>7

\* The steps that leave the index alone.
LEMMA MapInvKept ==
    ASSUME MapInv, prog' = prog, index' = index, rounds' = rounds,
           \/ /\ propagationLimitHit' = propagationLimitHit
              /\ \/ stage' = stage
                 \/ stage \in Scanning /\ stage' \in Scanning
                 \/ stage \in Propagated /\ stage' \in Propagated
           \/ stage = "propagate" /\ stage' \in Propagated /\ propagationLimitHit'
              /\ rounds >= MaxRounds
    PROVE  MapInv'
<1>1. PICK r : r = rounds
  OBVIOUS
<1>2. IndexIs(r)' <=> IndexIs(r)
  BY SameIndex
<1>3. NothingNew' <=> NothingNew
  BY SameIndex
<1>4. rounds' = r
  BY <1>1
<1>5. QED
  BY <1>1, <1>2, <1>3, <1>4, ProgramAssumption DEF MapInv, Scanning, Propagated

LEMMA MapInvNext ==
    ASSUME MapInv, [FlowNext]_flowVars
    PROVE  MapInv'
<1>1. CASE StructFields
  BY <1>1, MapInvKept DEF StructFields, Goto, Scanning, mapVars
<1>2. CASE Predicates
  BY <1>2, MapInvKept DEF Predicates, Goto, Scanning, mapVars
<1>3. CASE Goroutines
  BY <1>3, MapInvKept DEF Goroutines, Goto, Scanning, mapVars
<1>4. CASE PackageVars
  BY <1>4, MapInvKept DEF PackageVars, Goto, Scanning, mapVars
<1>5. CASE FuncArgs
  BY <1>5, MapInvKept DEF FuncArgs, Goto, Scanning, mapVars
<1>6. CASE StopPropagation
  BY <1>6, MapInvKept DEF StopPropagation, Goto, Propagated
<1>7. CASE LookUps
  BY <1>7, MapInvKept DEF LookUps, Goto, Propagated, mapVars
<1>8. CASE InterfaceFields
  BY <1>8, MapInvKept DEF InterfaceFields, Goto, Propagated, mapVars
<1>9. CASE UNCHANGED flowVars
  BY <1>9, MapInvKept DEF flowVars, mapVars
<1>10. QED
  BY <1>1, <1>2, <1>3, <1>4, <1>5, <1>6, <1>7, <1>8, <1>9, ScanMapsStarts, PropagateMapsGrows
     DEF FlowNext

\* When nothing is new, no chain has more to hand on, however long it is.
LEMMA SettledHoldsAll ==
    ASSUME prog \in Inputs, NEW r \in Nat, IndexIs(r), NothingNew
    PROVE  /\ \A n \in Nat : \A g : FactAfter(n, g) => g \in index.facts
           /\ \A n \in Nat \ {0} : \A s : HandedBy(n, s) => s \in index.stores
<1> DEFINE T == {n \in Nat : \A g : FactAfter(n, g) => g \in index.facts}
<1>1. 0 \in T
  BY DEF IndexIs
<1>2. ASSUME NEW n \in Nat, n \in T PROVE n + 1 \in T
  <2>1. \A h : Passed(n + 1, h) => h \in NewFacts
    BY <1>2, LongerLinks
  <2>2. QED
    BY <2>1 DEF NothingNew, FactAfter
<1> HIDE DEF T
<1>3. Nat \subseteq T
  BY <1>1, <1>2, Climbing
<1>4. \A n \in Nat : \A g : FactAfter(n, g) => g \in index.facts
  BY <1>3 DEF T
<1>5. ASSUME NEW n \in Nat \ {0}, NEW s, HandedBy(n, s) PROVE s \in index.stores
  <2>1. PICK k \in Nat : n = k + 1
    <3>1. n - 1 \in Nat /\ n = (n - 1) + 1
      OBVIOUS
    <3>2. QED
      BY <3>1
  <2>2. s \in NewStores
    BY <1>4, <1>5, <2>1, LongerLinks
  <2>3. QED
    BY <2>2 DEF NothingNew
<1>6. QED
  BY <1>4, <1>5

\* A map holds exactly what is stored in it and what at most MaxRounds nested
\* calls hand to it, whatever the program; and if one more call would hand it
\* anything else, the limit is reported.
THEOREM MapStoresExact == FlowSpec => []MapStoresAreExact
<1>1. FlowInit => MapInv
  BY DEF FlowInit, MapInv, Scanning
<1>2. MapInv /\ [FlowNext]_flowVars => MapInv'
  BY MapInvNext
<1>3. MapInv => MapStoresAreExact
  <2>1. SUFFICES ASSUME MapInv, stage \in Propagated PROVE MapStoresAreExact
    BY DEF MapStoresAreExact, Propagated
  <2>2. /\ prog \in Inputs /\ rounds \in 0..MaxRounds /\ IndexIs(rounds)
        /\ IF propagationLimitHit THEN rounds = MaxRounds ELSE NothingNew
    BY <2>1 DEF MapInv, Scanning, Propagated
  <2>3. rounds \in Nat /\ MaxRounds \in Nat /\ MaxRounds + 1 \in Nat
    BY <2>2, ProgramAssumption
  <2>4. \A s : s \in Carried(MaxRounds) <=> \E n \in 1..MaxRounds : HandedBy(n, s)
    BY <2>3, CarriedIs
  <2>5. \A s : s \in Carried(MaxRounds + 1) <=> \E n \in 1..(MaxRounds + 1) : HandedBy(n, s)
    BY <2>3, CarriedIs
  <2>6. \A n \in 1..rounds : n \in 1..MaxRounds
    BY <2>2, <2>3
  <2>7. \A s : s \in index.stores => s \in DirectStores \cup Carried(MaxRounds)
    BY <2>2, <2>4, <2>6 DEF IndexIs
  <2>8. \A s : s \in DirectStores => s \in index.stores
    BY <2>2 DEF IndexIs
  <2>9. CASE propagationLimitHit
    <3>1. \A s : s \in Carried(MaxRounds) => s \in index.stores
      BY <2>2, <2>4, <2>9 DEF IndexIs
    <3>2. index.stores = DirectStores \cup Carried(MaxRounds)
      BY <2>7, <2>8, <3>1
    <3>3. QED
      BY <2>9, <3>2 DEF MapStoresAreExact
  <2>10. CASE ~propagationLimitHit
    <3>1. \A n \in Nat \ {0} : \A s : HandedBy(n, s) => s \in index.stores
      BY <2>2, <2>3, <2>10, SettledHoldsAll
    <3>2. \A n \in 1..(MaxRounds + 1) : n \in Nat \ {0}
      BY <2>3
    <3>3. \A n \in 1..MaxRounds : n \in Nat \ {0}
      BY <2>3
    <3>4. /\ \A s : s \in Carried(MaxRounds) => s \in index.stores
          /\ Carried(MaxRounds + 1) \subseteq index.stores
      BY <2>4, <2>5, <3>1, <3>2, <3>3
    <3>5. index.stores = DirectStores \cup Carried(MaxRounds)
      BY <2>7, <2>8, <3>4
    <3>6. QED
      BY <3>4, <3>5 DEF MapStoresAreExact
  <2>11. QED
    BY <2>9, <2>10
<1>4. QED
  BY <1>1, <1>2, <1>3, PTL DEF FlowSpec

-----------------------------------------------------------------------------
(* Callbacks: what is remembered of a parameter.                           *)

\* What is defined step by step along the positions of a list exists.
Stepwise(N, b, step, f) == f[0] = b /\ \A n \in 1..N : f[n] = step[n][f[n - 1]]

LEMMA Recursion ==
    ASSUME NEW N \in Nat, NEW S, NEW b \in S, NEW step \in [1..N -> [S -> S]]
    PROVE  \E f \in [0..N -> S] : Stepwise(N, b, step, f)
<1> DEFINE OK(n, f) == f[0] = b /\ \A i \in 1..n : f[i] = step[i][f[i - 1]]
           T == {n \in Nat : n <= N => \E f \in [0..n -> S] : OK(n, f)}
<1>1. 0 \in T
  <2>1. [i \in 0..0 |-> b] \in [0..0 -> S] /\ OK(0, [i \in 0..0 |-> b])
    OBVIOUS
  <2>2. QED BY <2>1
<1>2. ASSUME NEW n \in Nat, n \in T PROVE n + 1 \in T
  <2>1. SUFFICES ASSUME n + 1 <= N PROVE \E f \in [0..(n + 1) -> S] : OK(n + 1, f)
    OBVIOUS
  <2>2. PICK f \in [0..n -> S] : OK(n, f)
    BY <1>2, <2>1
  <2> DEFINE g == [i \in 0..(n + 1) |-> IF i = n + 1 THEN step[n + 1][f[n]] ELSE f[i]]
  <2>3. step[n + 1][f[n]] \in S
    BY <2>1
  <2>4. g \in [0..(n + 1) -> S]
    BY <2>3
  <2>5. ASSUME NEW i \in 1..(n + 1) PROVE g[i] = step[i][g[i - 1]]
    <3>1. CASE i = n + 1
      <4>1. i \in 0..(n + 1) /\ i - 1 \in 0..(n + 1) /\ i - 1 = n /\ n # n + 1
        BY <3>1
      <4>2. g[i] = step[n + 1][f[n]] /\ g[i - 1] = f[n]
        BY <3>1, <4>1
      <4> HIDE DEF g
      <4>3. QED BY <3>1, <4>2
    <3>2. CASE i # n + 1
      <4>1. i \in 1..n /\ i - 1 \in 0..n /\ i - 1 # n + 1
        BY <3>2
      <4>2. g[i] = f[i] /\ g[i - 1] = f[i - 1]
        BY <4>1
      <4>3. f[i] = step[i][f[i - 1]]
        BY <2>2, <4>1
      <4> HIDE DEF g
      <4>4. QED BY <4>2, <4>3
    <3>3. QED BY <3>1, <3>2
  <2>6. g[0] = b
    BY <2>2
  <2>7. QED BY <2>4, <2>5, <2>6
<1>3. N \in T
  <2> HIDE DEF T
  <2> QED BY <1>1, <1>2, Climbing
<1>4. QED BY <1>3 DEF Stepwise

\* Lists one after another are a list of their elements.
LEMMA ConcatIs ==
    ASSUME NEW S, NEW lists \in Seq(Seq(S))
    PROVE  Concat(lists) \in Seq(S)
<1> DEFINE N == Len(lists)
           upto == CHOOSE g : g = [n \in 0..N |-> IF n = 0 THEN <<>> ELSE g[n - 1] \o lists[n]]
           step == [n \in 1..N |-> [s \in Seq(S) |-> s \o lists[n]]]
<1>1. N \in Nat /\ DOMAIN lists = 1..N /\ \A n \in 1..N : lists[n] \in Seq(S)
  OBVIOUS
<1>2. Concat(lists) = upto[N]
  BY DEF Concat
<1>3. step \in [1..N -> [Seq(S) -> Seq(S)]]
  <2>1. \A n \in 1..N : \A s \in Seq(S) : s \o lists[n] \in Seq(S)
    BY <1>1
  <2>2. QED
    BY <2>1
<1>4. PICK f \in [0..N -> Seq(S)] :
          f[0] = <<>> /\ \A n \in 1..N : f[n] = step[n][f[n - 1]]
  <2>1. <<>> \in Seq(S)
    OBVIOUS
  <2> HIDE DEF step, N
  <2>2. \E f \in [0..N -> Seq(S)] : Stepwise(N, <<>>, step, f)
    BY <1>1, <1>3, <2>1, Recursion
  <2>3. QED
    BY <2>2 DEF Stepwise
<1>5. f = [n \in 0..N |-> IF n = 0 THEN <<>> ELSE f[n - 1] \o lists[n]]
  <2>1. ASSUME NEW n \in 0..N
        PROVE  f[n] = IF n = 0 THEN <<>> ELSE f[n - 1] \o lists[n]
    <3>1. CASE n = 0
      BY <1>4, <3>1
    <3>2. CASE n # 0
      <4>1. n \in 1..N /\ n - 1 \in 0..N
        BY <1>1, <3>2
      <4>2. f[n - 1] \in Seq(S)
        BY <4>1
      <4>3. QED
        BY <1>4, <3>2, <4>1, <4>2
    <3>3. QED
      BY <3>1, <3>2
  <2> HIDE DEF step, N
  <2>2. QED
    BY <2>1
<1>6. upto = [n \in 0..N |-> IF n = 0 THEN <<>> ELSE upto[n - 1] \o lists[n]]
  <2> HIDE DEF N, step
  <2> QED
    BY <1>5
<1> HIDE DEF upto, step
<1> DEFINE T == {n \in Nat : n <= N => upto[n] \in Seq(S)}
<1>7. 0 \in T
  <2>1. upto[0] = <<>>
    BY <1>1, <1>6
  <2>2. <<>> \in Seq(S)
    OBVIOUS
  <2>3. QED
    BY <2>1, <2>2
<1>8. ASSUME NEW n \in Nat, n \in T PROVE n + 1 \in T
  <2>1. SUFFICES ASSUME n + 1 <= N PROVE upto[n + 1] \in Seq(S)
    OBVIOUS
  <2>2. n + 1 \in 0..N /\ n + 1 # 0 /\ (n + 1) - 1 = n /\ n + 1 \in 1..N /\ n <= N
    BY <1>1, <2>1
  <2>3. upto[n + 1] = upto[n] \o lists[n + 1]
    BY <1>6, <2>2
  <2>4. upto[n] \in Seq(S) /\ lists[n + 1] \in Seq(S)
    BY <1>1, <1>8, <2>2
  <2>5. QED
    BY <2>3, <2>4
<1>9. N \in T
  <2> HIDE DEF T, N
  <2> QED
    BY <1>1, <1>7, <1>8, Climbing
<1>10. QED
  BY <1>1, <1>2, <1>9

\* What the assumption says of the program at hand.
LEMMA ProgramIs ==
    ASSUME prog \in Inputs
    PROVE  /\ Len(prog.fn) \in Nat /\ Fns = 1..Len(prog.fn)
           /\ \A f \in Fns :
                 /\ prog.fn[f].params \in Nat
                 /\ Len(Code(f)) \in Nat /\ DOMAIN Code(f) = 1..Len(Code(f))
                 /\ \A n \in 1..Len(Code(f)) :
                       Code(f)[n].op = "call" =>
                          Len(Code(f)[n].args) \in Nat
<1>1. Listed(prog.fn)
  BY ProgramAssumption
<1>2. Len(prog.fn) \in Nat /\ Fns = 1..Len(prog.fn)
  BY <1>1 DEF Listed, Fns
<1>3. ASSUME NEW f \in Fns
      PROVE  /\ prog.fn[f].params \in Nat /\ Listed(Code(f))
             /\ \A i \in ToSet(Code(f)) : i.op = "call" => Listed(i.args)
  BY ProgramAssumption DEF Fns, Code
<1>4. ASSUME NEW f \in Fns
      PROVE  /\ Len(Code(f)) \in Nat /\ DOMAIN Code(f) = 1..Len(Code(f))
             /\ \A n \in 1..Len(Code(f)) : Code(f)[n] \in ToSet(Code(f))
  BY <1>3 DEF Listed, ToSet
<1>5. ASSUME NEW s, Listed(s) PROVE Len(s) \in Nat
  BY <1>5 DEF Listed
<1>6. QED
  BY <1>2, <1>3, <1>4, <1>5

LEMMA KeysFinite ==
    ASSUME prog \in Inputs
    PROVE  /\ IsFiniteSet(Keys) /\ Cardinality(Keys) \in Nat
           /\ \A key \in Keys : key[1] \in Fns /\ key # Yes /\ key # Nothing
<1>1. /\ Len(prog.fn) \in Nat /\ Fns = 1..Len(prog.fn)
      /\ \A f \in Fns : prog.fn[f].params \in Nat
  BY ProgramIs
<1> DEFINE Of(f) == {f} \X (1..prog.fn[f].params)
           Upto(n) == UNION {Of(f) : f \in 1..n}
           T == {n \in Nat : n <= Len(prog.fn) => IsFiniteSet(Upto(n))}
<1>2. ASSUME NEW f \in Fns PROVE IsFiniteSet(Of(f))
  <2>1. prog.fn[f].params \in Int /\ 1 \in Int
    BY <1>1
  <2>2. IsFiniteSet({f}) /\ IsFiniteSet(1..prog.fn[f].params)
    BY <2>1, FS_Singleton, FS_Interval
  <2>3. QED
    BY <2>2, FS_Product
<1> HIDE DEF Of
<1>3. 0 \in T
  <2>1. Upto(0) = {}
    OBVIOUS
  <2>2. QED
    BY <2>1, FS_EmptySet
<1>4. ASSUME NEW n \in Nat, n \in T PROVE n + 1 \in T
  <2>1. SUFFICES ASSUME n + 1 <= Len(prog.fn)
                 PROVE  IsFiniteSet(Upto(n + 1))
    OBVIOUS
  <2>2. n + 1 \in Fns /\ n <= Len(prog.fn)
    BY <1>1, <2>1
  <2>3. IsFiniteSet(Upto(n)) /\ IsFiniteSet(Of(n + 1))
    BY <1>2, <1>4, <2>2
  <2>4. Upto(n + 1) = Upto(n) \cup Of(n + 1)
    OBVIOUS
  <2> HIDE DEF Upto
  <2>5. IsFiniteSet(Upto(n) \cup Of(n + 1))
    BY <2>3, FS_Union
  <2>6. QED
    BY <2>4, <2>5
<1>5. IsFiniteSet(Keys)
  <2>1. Len(prog.fn) \in T
    <3> HIDE DEF T
    <3> QED
      BY <1>1, <1>3, <1>4, Climbing
  <2>2. Keys = Upto(Len(prog.fn))
    BY <1>1 DEF Keys, Of, Upto
  <2>3. IsFiniteSet(Upto(Len(prog.fn)))
    <3> HIDE DEF Upto
    <3> QED
      BY <1>1, <2>1
  <2>4. QED
    BY <2>2, <2>3
<1>6. ASSUME NEW key \in Keys PROVE key[1] \in Fns /\ key # Yes /\ key # Nothing
  <2>1. PICK f \in Fns : key \in {f} \X (1..prog.fn[f].params)
    BY DEF Keys
  <2>2. PICK i : key = <<f, i>>
    BY <2>1
  <2>3. QED
    BY <2>2 DEF Yes, Nothing
<1>7. QED
  BY <1>5, <1>6, FS_CardinalityType

LEMMA FunctionsAreSeqs ==
    ASSUME NEW S, NEW n \in Nat, NEW f \in [1..n -> S]
    PROVE  f \in Seq(S)
OBVIOUS

\* Every use is one of a known parameter, or says what becomes of it at once.
LEMMA UsesAre ==
    ASSUME prog \in Inputs, NEW key \in Keys
    PROVE  /\ AllUses(key) \in Seq({Yes, Nothing} \cup Keys)
           /\ UsesOf(key) \subseteq {Yes} \cup Keys
<1> DEFINE S == {Yes, Nothing} \cup Keys
           code == Code(key[1])
<1>1. key[1] \in Fns
  BY KeysFinite
<1>2. ASSUME NEW n \in 1..Len(code) PROVE Uses(key[1], key[2], code[n]) \in Seq(S)
  <2>1. PICK i : i = code[n]
    OBVIOUS
  <2>2. <<Yes>> \in Seq(S) /\ <<>> \in Seq(S)
    OBVIOUS
  <2>3. i.op = "call" => HandedAs(key[1], key[2], i) \in Seq(S)
    <3> DEFINE as == HandedAs(key[1], key[2], i)
    <3>1. i.op = "call" => Len(i.args) \in Nat
      BY <1>1, <2>1, ProgramIs
    <3>2. \A j \in 1..Len(i.args) : as[j] \in S
      BY DEF HandedAs
    <3>3. as \in [1..Len(i.args) -> S]
      BY DEF HandedAs
    <3> HIDE DEF as, S
    <3>4. i.op = "call" => as \in Seq(S)
      BY <3>1, <3>3, FunctionsAreSeqs
    <3>5. QED
      BY <3>4 DEF as
  <2> HIDE DEF S, code
  <2>4. QED
    BY <2>1, <2>2, <2>3 DEF Uses
<1>3. [n \in 1..Len(code) |-> Uses(key[1], key[2], code[n])] \in Seq(Seq(S))
  <2>1. Len(code) \in Nat
    BY <1>1, ProgramIs
  <2> HIDE DEF code, S
  <2>2. QED
    BY <1>2, <2>1
<1>4. AllUses(key) \in Seq(S)
  <2> HIDE DEF S
  <2> QED
    BY <1>3, ConcatIs DEF AllUses
<1>5. ToSet(AllUses(key)) \subseteq S
  <2> HIDE DEF S
  <2> QED
    BY <1>4 DEF ToSet
<1>6. QED
  BY <1>4, <1>5 DEF UsesOf

\* A parameter calls back if it is used so, and only then.
LEMMA CallsBackIs ==
    ASSUME prog \in Inputs, NEW key \in Keys
    PROVE  /\ Yes \in UsesOf(key) => CallsBack(key)
           /\ \A k \in UsesOf(key) \cap Keys : CallsBack(k) => CallsBack(key)
           /\ CallsBack(key) => \/ Yes \in UsesOf(key)
                                \/ \E k \in UsesOf(key) \cap Keys : CallsBack(k)
<1> DEFINE uses == [k \in Keys |-> UsesOf(k)]
           Holds(S) == \A k \in Keys : UsesOf(k) \cap ({Yes} \cup S) # {} => k \in S
<1>1. \A S \in SUBSET Keys : S \in ClosedBack(uses) <=> Holds(S)
  BY DEF ClosedBack
<1>2. \A k : CallsBack(k) <=> \A S \in SUBSET Keys : Holds(S) => k \in S
  <2> HIDE DEF uses, Holds
  <2>1. ClosedBack(uses) \subseteq SUBSET Keys
    BY DEF ClosedBack
  <2>2. \A k : CallsBack(k) <=> \A S \in ClosedBack(uses) : k \in S
    BY DEF CallsBack, uses
  <2>3. QED
    BY <1>1, <2>1, <2>2
<1>3. ASSUME NEW j \in Keys, Yes \in UsesOf(j) PROVE CallsBack(j)
  BY <1>2, <1>3
<1>4. ASSUME NEW j \in Keys, NEW k \in UsesOf(j) \cap Keys, CallsBack(k) PROVE CallsBack(j)
  <2>1. ASSUME NEW S \in SUBSET Keys, Holds(S) PROVE j \in S
    <3>1. k \in S
      <4> HIDE DEF Holds
      <4> QED
        BY <1>2, <1>4, <2>1
    <3>2. QED
      BY <1>4, <2>1, <3>1
  <2> HIDE DEF Holds
  <2>2. QED
    BY <1>2, <2>1
<1>5. ASSUME CallsBack(key)
      PROVE  Yes \in UsesOf(key) \/ \E k \in UsesOf(key) \cap Keys : CallsBack(k)
  <2> DEFINE S == {j \in Keys : \/ Yes \in UsesOf(j)
                                \/ \E k \in UsesOf(j) \cap Keys : CallsBack(k)}
  <2>1. \A k \in S : CallsBack(k)
    BY <1>3, <1>4
  <2>2. Holds(S)
    <3>1. ASSUME NEW j \in Keys, UsesOf(j) \cap ({Yes} \cup S) # {} PROVE j \in S
      <4>1. CASE Yes \in UsesOf(j)
        BY <4>1
      <4>2. CASE Yes \notin UsesOf(j)
        <5>1. PICK k \in UsesOf(j) : k \in S
          BY <3>1, <4>2
        <5>2. k \in Keys /\ CallsBack(k)
          BY <2>1, <5>1
        <5>3. QED
          BY <5>1, <5>2
      <4>3. QED
        BY <4>1, <4>2
    <3>2. QED
      BY <3>1
  <2>3. key \in S
    <3>1. S \in SUBSET Keys
      OBVIOUS
    <3> HIDE DEF Holds, S
    <3>2. QED
      BY <1>2, <1>5, <2>2, <3>1
  <2>4. QED
    BY <2>3
<1>6. QED
  BY <1>3, <1>4, <1>5

\* What a parameter is handed on as, and what that is handed on as.
LEMMA HandsToIs ==
    ASSUME prog \in Inputs, NEW key \in Keys
    PROVE  /\ HandsTo(key) \subseteq Keys
           /\ \A k \in UsesOf(key) \cap Keys : k \in HandsTo(key)
           /\ \A k \in HandsTo(key) : HandsTo(k) \subseteq HandsTo(key)
           /\ \A k \in HandsTo(key) : Circular(k) => Circular(key)
<1> DEFINE uses == [k \in Keys |-> UsesOf(k)]
<1>1. \A j, k : k \in HandsTo(j) <=> /\ k \in Keys
                /\ \A S \in ClosedOn(uses) : UsesOf(j) \ {Yes} \subseteq S => k \in S
  <2> HIDE DEF uses
  <2> QED
    BY DEF HandsTo, uses
<1>2. \A S \in ClosedOn(uses) : \A k \in S : k \in Keys /\ UsesOf(k) \ {Yes} \subseteq S
  BY DEF ClosedOn
<1> HIDE DEF uses
<1>3. ASSUME NEW k \in UsesOf(key) \cap Keys PROVE k \in HandsTo(key)
  <2>1. k # Yes
    BY KeysFinite
  <2>2. QED
    BY <1>1, <2>1
<1>4. ASSUME NEW k \in HandsTo(key), NEW j \in HandsTo(k) PROVE j \in HandsTo(key)
  <2>1. ASSUME NEW S \in ClosedOn(uses), UsesOf(key) \ {Yes} \subseteq S PROVE j \in S
    <3>1. k \in S
      BY <1>1, <2>1
    <3>2. QED
      BY <1>1, <1>2, <3>1
  <2>2. QED
    BY <1>1, <2>1
<1>5. ASSUME NEW k \in HandsTo(key), Circular(k) PROVE Circular(key)
  <2>1. PICK j \in {k} \cup HandsTo(k) : j \in HandsTo(j)
    BY <1>5 DEF Circular
  <2>2. j \in HandsTo(key)
    BY <1>4, <2>1
  <2>3. QED
    BY <2>1, <2>2 DEF Circular
<1>6. QED
  BY <1>1, <1>3, <1>4, <1>5

LEMMA ReplyMade ==
    ASSUME NEW m \in Memos, NEW b \in BOOLEAN
    PROVE  Reply(b, m) \in Replies /\ Reply(b, m).answer = b /\ Reply(b, m).memo = m
BY DEF Reply, Replies

LEMMA RememberIs ==
    ASSUME NEW m \in Memos, NEW key \in Keys, NEW b \in BOOLEAN
    PROVE  /\ Remember(m, key, b) \in Memos
           /\ Remember(m, key, b).yes \subseteq m.yes \cup (IF b THEN {key} ELSE {})
           /\ Remember(m, key, b).no \subseteq m.no \cup (IF b THEN {} ELSE {key})
BY DEF Remember, Memos

LEMMA ReplyIs ==
    ASSUME NEW r \in Replies
    PROVE  r.answer \in BOOLEAN /\ r.memo \in Memos
BY DEF Replies

LEMMA QuestionIs ==
    ASSUME NEW key \in Keys, NEW m \in Memos, NEW visiting \in SUBSET Keys
    PROVE  /\ Question(key, m, visiting) \in Questions
           /\ Question(key, m, visiting).key = key
           /\ Question(key, m, visiting).memo = m
           /\ Question(key, m, visiting).visiting = visiting
BY DEF Question, Questions

LEMMA QuestionHas ==
    ASSUME NEW q \in Questions
    PROVE  q.key \in Keys /\ q.memo \in Memos /\ q.visiting \in SUBSET Keys
BY DEF Questions

\* What becomes of the answer at a use.
LEMMA UseIs ==
    ASSUME prog \in Inputs, NEW replies \in [Questions -> Replies], NEW q \in Questions,
           NEW r \in Replies, NEW use \in {Yes, Nothing} \cup Keys
    PROVE  /\ Use(replies, q, r, use) \in Replies
           /\ \/ Use(replies, q, r, use) = r /\ (r.answer \/ use = Nothing)
              \/ ~r.answer /\ use = Yes /\ Use(replies, q, r, use) = Reply(TRUE, r.memo)
              \/ /\ ~r.answer /\ use \in Keys
                 /\ Use(replies, q, r, use)
                      = replies[Question(use, r.memo, q.visiting \cup {q.key})]
<1>1. /\ r.memo \in Memos /\ q.key \in Keys /\ q.visiting \cup {q.key} \in SUBSET Keys
  BY ReplyIs, QuestionHas
<1>2. CASE r.answer \/ use = Nothing
  BY <1>2 DEF Use
<1>3. CASE ~(r.answer \/ use = Nothing) /\ use = Yes
  <2>1. Use(replies, q, r, use) = Reply(TRUE, r.memo)
    BY <1>3 DEF Use
  <2>2. Reply(TRUE, r.memo) \in Replies
    BY <1>1, ReplyMade
  <2>3. QED
    BY <1>3, <2>1, <2>2
<1>4. CASE ~(r.answer \/ use = Nothing) /\ use # Yes
  <2>1. use \in Keys
    BY <1>4
  <2>2. Question(use, r.memo, q.visiting \cup {q.key}) \in Questions
    BY <1>1, <2>1, QuestionIs
  <2>3. Use(replies, q, r, use) = replies[Question(use, r.memo, q.visiting \cup {q.key})]
    BY <1>4 DEF Use
  <2>4. QED
    BY <1>4, <2>1, <2>2, <2>3
<1>5. QED
  BY <1>2, <1>3, <1>4

\* The uses are gone through one after another.
LEMMA AskEachRuns ==
    ASSUME prog \in Inputs, NEW replies \in [Questions -> Replies], NEW q \in Questions,
           NEW uses \in Seq({Yes, Nothing} \cup Keys)
    PROVE  \E asked \in [0..Len(uses) -> Replies] :
               /\ asked[0] = Reply(FALSE, q.memo)
               /\ \A n \in 1..Len(uses) : asked[n] = Use(replies, q, asked[n - 1], uses[n])
               /\ AskEach(replies, q, uses) = asked[Len(uses)]
<1> DEFINE N == Len(uses)
           loop == CHOOSE g : g = [n \in 0..N |->
                      IF n = 0 THEN Reply(FALSE, q.memo) ELSE Use(replies, q, g[n - 1], uses[n])]
           step == [n \in 1..N |-> [r \in Replies |-> Use(replies, q, r, uses[n])]]
<1>1. N \in Nat /\ \A n \in 1..N : uses[n] \in {Yes, Nothing} \cup Keys
  OBVIOUS
<1>2. AskEach(replies, q, uses) = loop[N]
  BY DEF AskEach
<1>3. step \in [1..N -> [Replies -> Replies]]
  <2>1. \A n \in 1..N : \A r \in Replies : Use(replies, q, r, uses[n]) \in Replies
    BY <1>1, UseIs
  <2>2. QED
    BY <2>1
<1>4. Reply(FALSE, q.memo) \in Replies
  BY QuestionHas, ReplyMade
<1>5. PICK f \in [0..N -> Replies] :
          f[0] = Reply(FALSE, q.memo) /\ \A n \in 1..N : f[n] = step[n][f[n - 1]]
  <2> HIDE DEF step, N
  <2>1. \E f \in [0..N -> Replies] : Stepwise(N, Reply(FALSE, q.memo), step, f)
    BY <1>1, <1>3, <1>4, Recursion
  <2>2. QED
    BY <2>1 DEF Stepwise
<1>6. \A n \in 1..N : f[n] = Use(replies, q, f[n - 1], uses[n])
  <2>1. \A n \in 1..N : n - 1 \in 0..N
    BY <1>1
  <2>2. QED
    BY <1>5, <2>1
<1>7. f = [n \in 0..N |->
             IF n = 0 THEN Reply(FALSE, q.memo) ELSE Use(replies, q, f[n - 1], uses[n])]
  <2>1. ASSUME NEW n \in 0..N
        PROVE  f[n] = IF n = 0 THEN Reply(FALSE, q.memo)
                      ELSE Use(replies, q, f[n - 1], uses[n])
    <3>1. n = 0 \/ n \in 1..N
      BY <1>1
    <3>2. QED
      BY <1>5, <1>6, <3>1
  <2> HIDE DEF step, N
  <2>2. QED
    BY <2>1
<1>8. loop = [n \in 0..N |->
             IF n = 0 THEN Reply(FALSE, q.memo) ELSE Use(replies, q, loop[n - 1], uses[n])]
  <2> HIDE DEF N, step
  <2> QED
    BY <1>7
<1> HIDE DEF loop, step
<1>9. loop[0] = Reply(FALSE, q.memo)
  BY <1>1, <1>8
<1>10. ASSUME NEW n \in 1..N PROVE loop[n] = Use(replies, q, loop[n - 1], uses[n])
  <2>1. n \in 0..N /\ n # 0
    BY <1>1
  <2>2. QED
    BY <1>8, <2>1
<1> DEFINE T == {n \in Nat : n <= N => loop[n] \in Replies}
<1>11. 0 \in T
  BY <1>4, <1>9
<1>12. ASSUME NEW n \in Nat, n \in T PROVE n + 1 \in T
  <2>1. SUFFICES ASSUME n + 1 <= N PROVE loop[n + 1] \in Replies
    OBVIOUS
  <2>2. n + 1 \in 1..N /\ (n + 1) - 1 = n /\ n <= N
    BY <1>1, <2>1
  <2>3. loop[n + 1] = Use(replies, q, loop[n], uses[n + 1]) /\ loop[n] \in Replies
    BY <1>10, <1>12, <2>2
  <2>4. QED
    BY <1>1, <2>2, <2>3, UseIs
<1>13. \A n \in 0..N : loop[n] \in Replies
  <2> HIDE DEF T, N
  <2>1. Nat \subseteq T
    BY <1>11, <1>12, Climbing
  <2>2. QED
    BY <1>1, <2>1 DEF T
<1>14. loop \in [0..N -> Replies]
  <2> HIDE DEF N
  <2>1. loop = [n \in 0..N |-> loop[n]]
    BY <1>8
  <2>2. QED
    BY <1>13, <2>1
<1>15. QED
  BY <1>2, <1>9, <1>10, <1>14

\* A function that is defined depth by depth exists.
LEMMA DeeperTyped ==
    ASSUME prog \in Inputs, NEW replies \in [Questions -> Replies]
    PROVE  /\ \A q \in Questions : Ask(replies, q) \in Replies /\ Closed(q) \in Replies
           /\ Deeper(replies) \in [Questions -> Replies]
           /\ [q \in Questions |-> Closed(q)] \in [Questions -> Replies]
<1>1. ASSUME NEW q \in Questions PROVE Ask(replies, q) \in Replies
  <2>1. q.key \in Keys
    BY QuestionHas
  <2>2. AllUses(q.key) \in Seq({Yes, Nothing} \cup Keys)
    BY <2>1, UsesAre
  <2>3. PICK uses : uses = AllUses(q.key)
    OBVIOUS
  <2>4. Len(uses) \in Nat /\ uses \in Seq({Yes, Nothing} \cup Keys)
    BY <2>2, <2>3
  <2>5. PICK asked \in [0..Len(uses) -> Replies] : AskEach(replies, q, uses) = asked[Len(uses)]
    BY <2>4, AskEachRuns
  <2>6. AskEach(replies, q, uses) \in Replies
    BY <2>4, <2>5
  <2>7. PICK end \in Replies : end = AskEach(replies, q, uses)
    BY <2>6
  <2>8. end.answer \in BOOLEAN /\ end.memo \in Memos
    BY ReplyIs
  <2>9. Remember(end.memo, q.key, end.answer) \in Memos
    BY <2>1, <2>8, RememberIs
  <2>10. Reply(end.answer, Remember(end.memo, q.key, end.answer)) \in Replies
    BY <2>8, <2>9, ReplyMade
  <2>11. QED
    BY <2>3, <2>7, <2>10 DEF Ask
<1>2. ASSUME NEW q \in Questions PROVE Closed(q) \in Replies
  <2>1. q.memo \in Memos /\ q.key \in Keys /\ (q.key \in q.memo.yes) \in BOOLEAN
    BY QuestionHas
  <2>2. QED
    BY <2>1, ReplyMade DEF Closed
<1>3. QED
  BY <1>1, <1>2 DEF Deeper

\* What is known of parameters is so, circles aside; an answer about key is so,
\* and so is what is known after it.
Right(m) ==
    /\ m \in Memos
    /\ \A k \in m.yes : CallsBack(k)
    /\ \A k \in m.no : CallsBack(k) => Circular(k)
Fair(key, r) ==
    /\ r \in Replies /\ Right(r.memo)
    /\ r.answer => CallsBack(key)
    /\ ~r.answer /\ CallsBack(key) => Circular(key)

\* A question that comes up: each parameter being asked about is handed on as
\* the next, and so many are not being asked about.
Posed(q, depth) ==
    /\ Right(q.memo)
    /\ \A v \in q.visiting : q.key \in HandsTo(v)
    /\ Cardinality(Keys \ q.visiting) <= depth
AllFair(replies, depth) == \A q \in Questions : Posed(q, depth) => Fair(q.key, replies[q])

LEMMA ClosedFair ==
    ASSUME prog \in Inputs, NEW q \in Questions, Right(q.memo),
           \A v \in q.visiting : q.key \in HandsTo(v), ~Open(q)
    PROVE  Fair(q.key, Closed(q))
<1>1. q.memo \in Memos /\ q.key \in Keys /\ (q.key \in q.memo.yes) \in BOOLEAN
  BY QuestionHas
<1>2. /\ Closed(q) \in Replies /\ Closed(q).answer = (q.key \in q.memo.yes)
      /\ Closed(q).memo = q.memo
  <2>1. PICK b \in BOOLEAN : b = (q.key \in q.memo.yes)
    BY <1>1
  <2>2. Closed(q) = Reply(b, q.memo)
    BY <2>1, Zenon DEF Closed
  <2>3. /\ Reply(b, q.memo) \in Replies /\ Reply(b, q.memo).answer = b
        /\ Reply(b, q.memo).memo = q.memo
    BY <1>1, ReplyMade
  <2>4. QED
    BY <2>1, <2>2, <2>3, Zenon
<1>3. Closed(q).answer => CallsBack(q.key)
  BY <1>2 DEF Right
<1>4. ASSUME ~Closed(q).answer, CallsBack(q.key) PROVE Circular(q.key)
  <2>1. q.key \in q.memo.no \/ q.key \in q.visiting
    BY <1>2, <1>4 DEF Open, Known
  <2>2. CASE q.key \in q.memo.no
    BY <1>4, <2>2 DEF Right
  <2>3. CASE q.key \in q.visiting
    BY <2>3 DEF Circular
  <2>4. QED
    BY <2>1, <2>2, <2>3
<1>5. QED
  BY <1>2, <1>3, <1>4 DEF Fair

\* What a parameter is handed on as is asked about with one parameter more.
LEMMA PosedDeeper ==
    ASSUME prog \in Inputs, NEW q \in Questions, NEW depth \in Nat, Posed(q, depth + 1),
           Open(q), NEW use \in UsesOf(q.key) \cap Keys, NEW m, Right(m)
    PROVE  Posed(Question(use, m, q.visiting \cup {q.key}), depth)
<1>1. q.key \in Keys /\ q.visiting \in SUBSET Keys /\ m \in Memos
  BY QuestionHas DEF Right
<1> DEFINE next == Question(use, m, q.visiting \cup {q.key})
<1>2. next.key = use /\ next.memo = m /\ next.visiting = q.visiting \cup {q.key}
  BY <1>1, QuestionIs
<1>3. use \in HandsTo(q.key)
  BY <1>1, HandsToIs
<1>4. ASSUME NEW v \in q.visiting PROVE use \in HandsTo(v)
  <2>1. v \in Keys /\ q.key \in HandsTo(v)
    BY <1>1 DEF Posed
  <2>2. QED
    BY <1>3, <2>1, HandsToIs
<1>5. Cardinality(Keys \ (q.visiting \cup {q.key})) <= depth
  <2>1. IsFiniteSet(Keys \ q.visiting)
    BY KeysFinite, FS_Subset
  <2>2. q.key \in Keys \ q.visiting
    BY <1>1 DEF Open
  <2>3. Cardinality((Keys \ q.visiting) \ {q.key}) = Cardinality(Keys \ q.visiting) - 1
    BY <2>1, <2>2, FS_RemoveElement
  <2>4. (Keys \ q.visiting) \ {q.key} = Keys \ (q.visiting \cup {q.key})
    OBVIOUS
  <2>5. PICK n \in Nat : n = Cardinality(Keys \ q.visiting)
    BY <2>1, FS_CardinalityType
  <2>6. n <= depth + 1
    BY <2>5 DEF Posed
  <2>7. Cardinality(Keys \ (q.visiting \cup {q.key})) = n - 1
    BY <2>3, <2>4, <2>5
  <2>8. n - 1 <= depth
    BY <2>6
  <2>9. QED
    BY <2>7, <2>8
<1> HIDE DEF next
<1>6. Posed(next, depth)
  BY <1>2, <1>3, <1>4, <1>5 DEF Posed
<1>7. QED
  BY <1>6 DEF next

\* The uses gone through: the answer is yes for a reason, or none of them so far
\* is one, circles aside.
LEMMA AskFair ==
    ASSUME prog \in Inputs, NEW replies \in [Questions -> Replies], NEW q \in Questions,
           NEW depth \in Nat, AllFair(replies, depth), Posed(q, depth + 1), Open(q)
    PROVE  Fair(q.key, Ask(replies, q))
<1>1. q.key \in Keys /\ q.memo \in Memos /\ q.visiting \in SUBSET Keys
  BY QuestionHas
<1>2. PICK uses : uses = AllUses(q.key)
  OBVIOUS
<1>3. uses \in Seq({Yes, Nothing} \cup Keys) /\ UsesOf(q.key) = ToSet(uses) \ {Nothing}
  BY <1>1, <1>2, UsesAre DEF UsesOf
<1>4. PICK N : N = Len(uses)
  OBVIOUS
<1>5. /\ N \in Nat /\ DOMAIN uses = 1..N
      /\ \A n \in 1..N : uses[n] \in {Yes, Nothing} \cup Keys
  BY <1>3, <1>4
<1>6. \A n \in 1..N : uses[n] \in ToSet(uses)
  BY <1>5 DEF ToSet
<1>7. PICK asked \in [0..N -> Replies] :
          /\ asked[0] = Reply(FALSE, q.memo)
          /\ \A n \in 1..N : asked[n] = Use(replies, q, asked[n - 1], uses[n])
          /\ AskEach(replies, q, uses) = asked[N]
  BY <1>3, <1>4, AskEachRuns
<1> DEFINE Spent(n) == /\ Right(asked[n].memo)
                       /\ asked[n].answer => CallsBack(q.key)
                       /\ ~asked[n].answer =>
                             \A i \in 1..n : /\ uses[i] # Yes
                                             /\ uses[i] \in Keys /\ CallsBack(uses[i])
                                                   => Circular(uses[i])
           T == {n \in Nat : n <= N => Spent(n)}
<1>8. 0 \in T
  <2>1. asked[0].memo = q.memo /\ asked[0].answer = FALSE
    <3>1. FALSE \in BOOLEAN
      OBVIOUS
    <3>2. Reply(FALSE, q.memo).answer = FALSE /\ Reply(FALSE, q.memo).memo = q.memo
      BY <1>1, <3>1, ReplyMade
    <3>3. QED
      BY <1>7, <3>2
  <2>2. Right(q.memo)
    BY DEF Posed
  <2>3. Spent(0)
    BY <2>1, <2>2
  <2> HIDE DEF Spent
  <2>4. QED
    BY <2>3
<1>9. ASSUME NEW n \in Nat, n + 1 <= N, Spent(n) PROVE Spent(n + 1)
  <2>1. /\ n \in 0..N /\ n + 1 \in 0..N /\ n + 1 \in 1..N /\ (n + 1) - 1 = n
        /\ \A i \in 1..(n + 1) : i \in 1..n \/ i = n + 1
    BY <1>5, <1>9
  <2>2. PICK r \in Replies : r = asked[n]
    BY <2>1
  <2>3. PICK use \in {Yes, Nothing} \cup Keys : use = uses[n + 1]
    BY <1>5, <2>1
  <2>4. PICK s \in Replies : s = asked[n + 1]
    BY <2>1
  <2>5. s = Use(replies, q, r, use)
    BY <1>7, <2>1, <2>2, <2>3, <2>4
  <2>6. r.answer \in BOOLEAN /\ r.memo \in Memos
    BY ReplyIs
  <2>7. \/ s = r /\ (r.answer \/ use = Nothing)
        \/ ~r.answer /\ use = Yes /\ s = Reply(TRUE, r.memo)
        \/ /\ ~r.answer /\ use \in Keys
           /\ s = replies[Question(use, r.memo, q.visiting \cup {q.key})]
    <3>1. \/ Use(replies, q, r, use) = r /\ (r.answer \/ use = Nothing)
          \/ ~r.answer /\ use = Yes /\ Use(replies, q, r, use) = Reply(TRUE, r.memo)
          \/ /\ ~r.answer /\ use \in Keys
             /\ Use(replies, q, r, use)
                  = replies[Question(use, r.memo, q.visiting \cup {q.key})]
      BY UseIs
    <3>2. QED
      BY <2>5, <3>1
  <2>8. /\ Right(r.memo) /\ (r.answer => CallsBack(q.key))
        /\ ~r.answer => \A i \in 1..n : /\ uses[i] # Yes
                                        /\ uses[i] \in Keys /\ CallsBack(uses[i])
                                              => Circular(uses[i])
    BY <1>9, <2>2
  <2>9. use # Nothing => use \in UsesOf(q.key)
    BY <1>3, <1>6, <2>1, <2>3
  <2>10. ASSUME NEW u \in Replies, u = s, Right(u.memo), u.answer => CallsBack(q.key),
               ~u.answer => /\ ~r.answer /\ use # Yes
                            /\ use \in Keys /\ CallsBack(use) => Circular(use)
         PROVE  Spent(n + 1)
    BY <2>1, <2>3, <2>4, <2>8, <2>10
  <2> HIDE DEF Spent
  <2>11. CASE s = r /\ (r.answer \/ use = Nothing)
    <3>1. Nothing \notin Keys /\ Nothing # Yes
      BY KeysFinite DEF Nothing, Yes
    <3>2. QED
      BY <2>8, <2>10, <2>11, <3>1
  <2>12. CASE ~r.answer /\ use = Yes /\ s = Reply(TRUE, r.memo)
    <3>1. s.answer = TRUE /\ s.memo = r.memo
      BY <2>6, <2>12, ReplyMade
    <3>2. Yes # Nothing
      BY DEF Yes, Nothing
    <3>3. CallsBack(q.key)
      BY <1>1, <2>9, <2>12, <3>2, CallsBackIs
    <3>4. QED
      BY <2>8, <2>10, <3>1, <3>3
  <2>13. CASE /\ ~r.answer /\ use \in Keys
              /\ s = replies[Question(use, r.memo, q.visiting \cup {q.key})]
    <3>1. use # Yes /\ use # Nothing
      BY <2>13, KeysFinite
    <3>2. use \in UsesOf(q.key) \cap Keys
      BY <2>9, <2>13, <3>1
    <3>3. PICK next : next = Question(use, r.memo, q.visiting \cup {q.key})
      OBVIOUS
    <3>4. next \in Questions /\ next.key = use
      BY <1>1, <2>6, <3>2, <3>3, QuestionIs
    <3>5. Posed(next, depth)
      BY <2>8, <3>2, <3>3, PosedDeeper
    <3>6. Fair(use, s)
      BY <2>13, <3>3, <3>4, <3>5 DEF AllFair
    <3>7. CallsBack(use) => CallsBack(q.key)
      BY <1>1, <3>2, CallsBackIs
    <3>8. QED
      BY <2>10, <2>13, <3>1, <3>6, <3>7 DEF Fair
  <2>14. QED
    BY <2>7, <2>11, <2>12, <2>13
<1>10. Spent(N)
  <2> HIDE DEF Spent
  <2>1. ASSUME NEW n \in Nat, n \in T PROVE n + 1 \in T
    BY <1>5, <1>9, <2>1
  <2> HIDE DEF T
  <2>2. Nat \subseteq T
    BY <1>8, <2>1, Climbing
  <2>3. QED
    BY <1>5, <2>2 DEF T
<1>11. PICK end \in Replies : end = asked[N]
  BY <1>5
<1>12. end.answer \in BOOLEAN /\ end.memo \in Memos
  BY ReplyIs
<1>13. Ask(replies, q) = Reply(end.answer, Remember(end.memo, q.key, end.answer))
  BY <1>2, <1>7, <1>11 DEF Ask
<1>14. /\ Right(end.memo) /\ (end.answer => CallsBack(q.key))
       /\ ~end.answer => \A i \in 1..N : /\ uses[i] # Yes
                                         /\ uses[i] \in Keys /\ CallsBack(uses[i])
                                               => Circular(uses[i])
  BY <1>10, <1>11
<1>15. ~end.answer /\ CallsBack(q.key) => Circular(q.key)
  <2>1. SUFFICES ASSUME ~end.answer, CallsBack(q.key) PROVE Circular(q.key)
    OBVIOUS
  <2>2. \A k \in UsesOf(q.key) : \E i \in 1..N : k = uses[i]
    BY <1>3, <1>5 DEF ToSet
  <2>3. Yes \notin UsesOf(q.key)
    BY <1>14, <2>1, <2>2
  <2>4. PICK k \in UsesOf(q.key) \cap Keys : CallsBack(k)
    BY <1>1, <2>1, <2>3, CallsBackIs
  <2>5. Circular(k)
    BY <1>14, <2>1, <2>2, <2>4
  <2>6. k \in HandsTo(q.key)
    BY <1>1, <2>4, HandsToIs
  <2>7. QED
    BY <1>1, <2>5, <2>6, HandsToIs
<1>16. PICK m : m = Remember(end.memo, q.key, end.answer)
  OBVIOUS
<1>17. /\ m \in Memos
       /\ m.yes \subseteq end.memo.yes \cup (IF end.answer THEN {q.key} ELSE {})
       /\ m.no \subseteq end.memo.no \cup (IF end.answer THEN {} ELSE {q.key})
  BY <1>1, <1>12, <1>16, RememberIs
<1>18. Right(m)
  BY <1>12, <1>14, <1>15, <1>17 DEF Right
<1>19. /\ Ask(replies, q) \in Replies /\ Ask(replies, q).answer = end.answer
       /\ Ask(replies, q).memo = m
  BY <1>12, <1>13, <1>16, <1>17, ReplyMade
<1>20. QED
  BY <1>14, <1>15, <1>18, <1>19 DEF Fair

\* Nothing is asked when every parameter is being asked about.
LEMMA NothingLeft ==
    ASSUME prog \in Inputs, NEW q \in Questions, Posed(q, 0)
    PROVE  ~Open(q)
<1>1. q.key \in Keys /\ q.visiting \in SUBSET Keys
  BY QuestionHas
<1>2. IsFiniteSet(Keys \ q.visiting)
  BY KeysFinite, FS_Subset
<1>3. PICK n \in Nat : n = Cardinality(Keys \ q.visiting)
  BY <1>2, FS_CardinalityType
<1>4. n <= 0
  BY <1>3 DEF Posed
<1>5. Keys \ q.visiting = {}
  BY <1>2, <1>3, <1>4, FS_EmptySet
<1>6. QED
  BY <1>1, <1>5 DEF Open

LEMMA DeeperFair ==
    ASSUME prog \in Inputs, NEW replies \in [Questions -> Replies], NEW depth \in Nat,
           AllFair(replies, depth)
    PROVE  AllFair(Deeper(replies), depth + 1)
<1>1. ASSUME NEW q \in Questions, Posed(q, depth + 1)
      PROVE  Fair(q.key, Deeper(replies)[q])
  <2>1. CASE Open(q)
    <3>1. Deeper(replies)[q] = Ask(replies, q)
      BY <2>1 DEF Deeper
    <3>2. Fair(q.key, Ask(replies, q))
      BY <1>1, <2>1, AskFair
    <3>3. QED
      BY <3>1, <3>2
  <2>2. CASE ~Open(q)
    <3>1. Deeper(replies)[q] = Closed(q)
      BY <2>2 DEF Deeper
    <3>2. Fair(q.key, Closed(q))
      BY <1>1, <2>2, ClosedFair DEF Posed
    <3>3. QED
      BY <3>1, <3>2
  <2>3. QED
    BY <2>1, <2>2
<1>2. QED
  BY <1>1 DEF AllFair

\* parameterMayCallback answers fairly what is asked from outside.
LEMMA MayCallbackFair ==
    ASSUME prog \in Inputs, NEW key \in Keys, NEW m, Right(m)
    PROVE  Fair(key, MayCallback(Question(key, m, {})))
<1> DEFINE N == Cardinality(Keys)
           S == [Questions -> Replies]
           base == [r \in Questions |-> Closed(r)]
           replies == CHOOSE g : g = [depth \in 0..N |->
                         IF depth = 0 THEN base ELSE Deeper(g[depth - 1])]
           step == [n \in 1..N |-> [g \in S |-> Deeper(g)]]
<1>1. N \in Nat
  BY KeysFinite
<1>2. \A q : MayCallback(q) = replies[N][q]
  BY DEF MayCallback
<1>3. \A g \in S : Deeper(g) \in S
  BY DeeperTyped
<1>4. base \in S
  <2>1. \A q \in Questions : Closed(q) \in Replies
    <3>1. ASSUME NEW q \in Questions PROVE Closed(q) \in Replies
      <4>1. q.memo \in Memos /\ q.key \in Keys /\ (q.key \in q.memo.yes) \in BOOLEAN
        BY QuestionHas
      <4>2. QED
        BY <4>1, ReplyMade DEF Closed
    <3>2. QED
      BY <3>1
  <2>2. QED
    BY <2>1
<1>5. step \in [1..N -> [S -> S]]
  <2> HIDE DEF S, N
  <2> QED
    BY <1>3
<1>6. PICK f \in [0..N -> S] : f[0] = base /\ \A n \in 1..N : f[n] = step[n][f[n - 1]]
  <2> HIDE DEF step, N, S, base
  <2>1. \E f \in [0..N -> S] : Stepwise(N, base, step, f)
    BY <1>1, <1>4, <1>5, Recursion
  <2>2. QED
    BY <2>1 DEF Stepwise
<1>7. f = [depth \in 0..N |-> IF depth = 0 THEN base ELSE Deeper(f[depth - 1])]
  <2> HIDE DEF N, S, base
  <2>1. ASSUME NEW n \in 0..N
        PROVE  f[n] = IF n = 0 THEN base ELSE Deeper(f[n - 1])
    <3>1. CASE n = 0
      BY <1>6, <3>1
    <3>2. CASE n # 0
      <4>1. n \in 1..N /\ n - 1 \in 0..N
        BY <1>1, <3>2
      <4>2. f[n - 1] \in S
        BY <4>1
      <4>3. QED
        BY <1>6, <3>2, <4>1, <4>2
    <3>3. QED
      BY <3>1, <3>2
  <2> HIDE DEF step
  <2>2. QED
    BY <2>1
<1>8. replies = [depth \in 0..N |-> IF depth = 0 THEN base ELSE Deeper(replies[depth - 1])]
  <2> HIDE DEF N, step, base, S
  <2> QED
    BY <1>7
<1> HIDE DEF replies, step, N, S, base
<1> DEFINE T == {n \in Nat : n <= N => replies[n] \in S /\ AllFair(replies[n], n)}
<1>9. 0 \in T
  <2>1. replies[0] = base
    BY <1>1, <1>8
  <2>2. ASSUME NEW q \in Questions, Posed(q, 0) PROVE Fair(q.key, base[q])
    <3>1. ~Open(q)
      BY <2>2, NothingLeft
    <3>2. Fair(q.key, Closed(q))
      BY <2>2, <3>1, ClosedFair DEF Posed
    <3>3. base[q] = Closed(q)
      BY DEF base
    <3>4. QED
      BY <3>2, <3>3
  <2>3. AllFair(base, 0)
    BY <2>2 DEF AllFair
  <2>4. QED
    BY <1>4, <2>1, <2>3
<1>10. ASSUME NEW n \in Nat, n \in T PROVE n + 1 \in T
  <2>1. SUFFICES ASSUME n + 1 <= N
                 PROVE  replies[n + 1] \in S /\ AllFair(replies[n + 1], n + 1)
    OBVIOUS
  <2>2. n + 1 \in 0..N /\ n + 1 # 0 /\ (n + 1) - 1 = n /\ n <= N
    BY <1>1, <2>1
  <2>3. replies[n + 1] = Deeper(replies[n])
    BY <1>8, <2>2
  <2>4. PICK g : g = replies[n]
    OBVIOUS
  <2>5. g \in S /\ AllFair(g, n)
    BY <1>10, <2>2, <2>4
  <2>6. AllFair(Deeper(g), n + 1)
    BY <2>5, DeeperFair DEF S
  <2>7. QED
    BY <1>3, <2>3, <2>4, <2>5, <2>6
<1>11. replies[N] \in S /\ AllFair(replies[N], N)
  <2> HIDE DEF T
  <2>1. N \in T
    BY <1>1, <1>9, <1>10, Climbing
  <2>2. QED
    BY <1>1, <2>1 DEF T
<1>12. PICK q : q = Question(key, m, {})
  OBVIOUS
<1>13. m \in Memos /\ {} \in SUBSET Keys
  BY DEF Right
<1>14. q \in Questions /\ q.key = key /\ q.memo = m /\ q.visiting = {}
  BY <1>12, <1>13, QuestionIs
<1>15. Posed(q, N)
  <2>1. Keys \ q.visiting = Keys
    BY <1>14
  <2>2. Cardinality(Keys \ q.visiting) <= N
    <3>1. Cardinality(Keys \ q.visiting) = N
      BY <2>1 DEF N
    <3>2. QED
      BY <1>1, <3>1
  <2>3. QED
    BY <1>14, <2>2 DEF Posed
<1>16. Fair(q.key, replies[N][q])
  BY <1>11, <1>14, <1>15 DEF AllFair
<1>17. QED
  BY <1>2, <1>12, <1>14, <1>16

\* A list of the arguments there are has a length.
LEMMA ArgumentsAreListed ==
    ASSUME prog \in Inputs
    PROVE  Len(Arguments) \in Nat
<1> DEFINE InCall(f, call) ==
               [j \in 1..Len(call.args) |->
                   [caller |-> f, callee |-> call.callee, at |-> j, value |-> call.args[j]]]
           InInstr(f, i) == IF i.op = "call" THEN InCall(f, i) ELSE <<>>
           InFn(f) == IF f \notin callGraph.nodes THEN <<>>
                      ELSE Concat([n \in 1..Len(Code(f)) |-> InInstr(f, Code(f)[n])])
           S == UNION {UNION {{InInstr(f, Code(f)[n])[j] :
                                  j \in 1..Len(Code(f)[n].args)} : n \in 1..Len(Code(f))}
                         : f \in Fns}
<1>1. Arguments = Concat([f \in Fns |-> InFn(f)])
  BY DEF Arguments
<1>2. ASSUME NEW f \in Fns, NEW n \in 1..Len(Code(f))
      PROVE  InInstr(f, Code(f)[n]) \in Seq(S)
  <2>1. PICK i : i = Code(f)[n]
    OBVIOUS
  <2>2. CASE i.op = "call"
    <3>1. PICK N \in Nat : N = Len(i.args)
      BY <2>1, <2>2, ProgramIs
    <3>2. InInstr(f, i) = InCall(f, i)
      BY <2>2
    <3>3. PICK as : as = InInstr(f, i)
      OBVIOUS
    <3>4. DOMAIN as = 1..N /\ as = [j \in 1..N |-> as[j]]
      BY <3>1, <3>2, <3>3
    <3> HIDE DEF InInstr, InCall
    <3>5. \A j \in 1..N : as[j] \in S
      BY <2>1, <3>1, <3>3
    <3> HIDE DEF S
    <3>6. as \in [1..N -> S]
      BY <3>4, <3>5
    <3>7. as \in Seq(S)
      BY <3>1, <3>6, FunctionsAreSeqs
    <3>8. QED
      BY <2>1, <3>3, <3>7
  <2>3. CASE i.op # "call"
    <3>1. InInstr(f, i) = <<>>
      BY <2>3
    <3> HIDE DEF S, InInstr
    <3>2. QED
      BY <2>1, <3>1
  <2>4. QED
    BY <2>2, <2>3
<1> HIDE DEF InInstr, S
<1>3. ASSUME NEW f \in Fns PROVE InFn(f) \in Seq(S)
  <2>1. Len(Code(f)) \in Nat
    BY ProgramIs
  <2> DEFINE lists == [n \in 1..Len(Code(f)) |-> InInstr(f, Code(f)[n])]
  <2>2. lists \in Seq(Seq(S))
    BY <1>2, <2>1
  <2> HIDE DEF lists
  <2>3. Concat(lists) \in Seq(S) /\ <<>> \in Seq(S)
    BY <2>2, ConcatIs
  <2>4. InFn(f) = (IF f \notin callGraph.nodes THEN <<>> ELSE Concat(lists))
    BY DEF lists
  <2> HIDE DEF InFn
  <2>5. QED
    BY <2>3, <2>4
<1> HIDE DEF InFn
<1>4. [f \in Fns |-> InFn(f)] \in Seq(Seq(S))
  BY <1>3, ProgramIs
<1>5. Arguments \in Seq(S)
  BY <1>1, <1>4, ConcatIs
<1>6. QED
  BY <1>5

\* What is known stays right whatever argument is asked about.
LEMMA AskedRight ==
    ASSUME prog \in Inputs, NEW m, Right(m), NEW a
    PROVE  Right(Asked(m, a).memo)
<1>1. m \in Memos
  BY DEF Right
<1>2. \A b \in BOOLEAN : Reply(b, m).memo = m
  BY <1>1, ReplyMade
<1>3. CASE <<a.callee, a.at>> \in Keys
  <2>1. Fair(<<a.callee, a.at>>, MayCallback(Question(<<a.callee, a.at>>, m, {})))
    BY <1>3, MayCallbackFair
  <2>2. Right(MayCallback(Question(<<a.callee, a.at>>, m, {})).memo)
    BY <2>1 DEF Fair
  <2>3. QED
    BY <1>2, <2>2 DEF Asked
<1>4. CASE <<a.callee, a.at>> \notin Keys
  BY <1>2, <1>4 DEF Asked
<1>5. QED
  BY <1>3, <1>4

\* AugmentFuncArgs starts with nothing known, and asks about one argument after
\* another.
LEMMA NothingIsRight == Right(NothingKnown)
BY DEF Right, NothingKnown, Memos

LEMMA FuncArgsRight ==
    ASSUME prog \in Inputs, FuncArgs
    PROVE  Right(memo')
<1> DEFINE all == Arguments
           N == Len(all)
           known == CHOOSE g : g = [n \in 0..N |->
                       IF n = 0 THEN NothingKnown ELSE Asked(g[n - 1], all[n]).memo]
           S == {m \in Memos : Right(m)}
           step == [n \in 1..N |-> [m \in S |-> Asked(m, all[n]).memo]]
<1>1. memo' = known[N]
  BY DEF FuncArgs
<1>2. N \in Nat
  BY ArgumentsAreListed
<1>3. \A m : Right(m) <=> m \in S
  BY DEF Right
<1>4. NothingKnown \in S
  BY <1>3, NothingIsRight
<1> HIDE DEF S, N, known
<1>5. \A m \in S : \A a : Asked(m, a).memo \in S
  BY <1>3, AskedRight
<1>6. step \in [1..N -> [S -> S]]
  BY <1>5
<1>7. PICK f \in [0..N -> S] :
          f[0] = NothingKnown /\ \A n \in 1..N : f[n] = step[n][f[n - 1]]
  <2> HIDE DEF step
  <2>1. \E f \in [0..N -> S] : Stepwise(N, NothingKnown, step, f)
    BY <1>2, <1>4, <1>6, Recursion
  <2>2. QED
    BY <2>1 DEF Stepwise
<1>8. f = [n \in 0..N |-> IF n = 0 THEN NothingKnown ELSE Asked(f[n - 1], all[n]).memo]
  <2>1. ASSUME NEW n \in 0..N
        PROVE  f[n] = IF n = 0 THEN NothingKnown ELSE Asked(f[n - 1], all[n]).memo
    <3>1. CASE n = 0
      BY <1>7, <3>1
    <3>2. CASE n # 0
      <4>1. n \in 1..N /\ n - 1 \in 0..N
        BY <1>2, <3>2
      <4>2. f[n - 1] \in S
        BY <4>1
      <4>3. QED
        BY <1>7, <3>2, <4>1, <4>2
    <3>3. QED
      BY <3>1, <3>2
  <2> HIDE DEF step
  <2>2. QED
    BY <2>1
<1>9. known = [n \in 0..N |->
                  IF n = 0 THEN NothingKnown ELSE Asked(known[n - 1], all[n]).memo]
  <2> HIDE DEF step
  <2>1. QED
    BY <1>8 DEF known
<1> DEFINE T == {n \in Nat : n <= N => known[n] \in S}
<1>10. 0 \in T
  BY <1>2, <1>4, <1>9
<1>11. ASSUME NEW n \in Nat, n \in T PROVE n + 1 \in T
  <2>1. SUFFICES ASSUME n + 1 <= N PROVE known[n + 1] \in S
    OBVIOUS
  <2>2. n + 1 \in 0..N /\ n + 1 # 0 /\ (n + 1) - 1 = n /\ n <= N
    BY <1>2, <2>1
  <2>3. known[n + 1] = Asked(known[n], all[n + 1]).memo
    BY <1>9, <2>2
  <2>4. known[n] \in S
    BY <1>11, <2>2
  <2>5. QED
    BY <1>5, <2>3, <2>4
<1>12. known[N] \in S
  <2> HIDE DEF T
  <2>1. N \in T
    BY <1>2, <1>10, <1>11, Climbing
  <2>2. QED
    BY <1>2, <2>1 DEF T
<1>13. QED
  BY <1>1, <1>3, <1>12

\* The program is the same at every step, and so is what calls back.
LEMMA SameCalls ==
    ASSUME prog' = prog
    PROVE  \A m : Right(m)' <=> Right(m)
<1>1. Keys' = Keys
  BY SameResolved DEF Keys
<1>2. \A f, v : Within(f, v)' = Within(f, v)
  BY SameResolved DEF Within
<1>3. \A f, v : Held(f, v)' = Held(f, v)
  <2>1. \A f, values : Opened(f, values)' = Opened(f, values)
    BY <1>2 DEF Opened
  <2>2. QED
    BY <2>1 DEF Held
<1>4. \A f, v, i : Matches(f, v, i)' <=> Matches(f, v, i)
  BY <1>3 DEF Matches
<1>5. \A f, i, n : HandedAs(f, i, n)' = HandedAs(f, i, n)
  BY <1>1, <1>4 DEF HandedAs
<1>6. \A f, i, n : Registers(f, i, n)' <=> Registers(f, i, n)
  BY <1>4 DEF Registers
<1>7. \A f, i, n : Uses(f, i, n)' = Uses(f, i, n)
  BY <1>5, <1>6 DEF Uses
<1>8. \A k : AllUses(k)' = AllUses(k)
  BY <1>7, SameResolved DEF AllUses
<1>9. \A k : UsesOf(k)' = UsesOf(k)
  BY <1>8 DEF UsesOf
<1>10. \A u : ClosedBack(u)' = ClosedBack(u) /\ ClosedOn(u)' = ClosedOn(u)
  BY <1>1 DEF ClosedBack, ClosedOn
<1>11. \A k : CallsBack(k)' <=> CallsBack(k)
  BY <1>1, <1>9, <1>10 DEF CallsBack
<1>12. \A k : HandsTo(k)' = HandsTo(k)
  BY <1>1, <1>9, <1>10 DEF HandsTo
<1>13. \A k : Circular(k)' <=> Circular(k)
  BY <1>12 DEF Circular
<1>14. Memos' = Memos
  BY <1>1 DEF Memos
<1>15. QED
  BY <1>11, <1>13, <1>14 DEF Right

CallInv == prog \in Inputs /\ Right(memo)

LEMMA CallInvNext ==
    ASSUME CallInv, [FlowNext]_flowVars
    PROVE  CallInv'
<1>1. prog' = prog /\ (FuncArgs \/ memo' = memo)
  BY DEF FlowNext, flowVars, mapVars, StructFields, Predicates, Goroutines, PackageVars,
         FuncArgs, ScanMaps, PropagateMaps, StopPropagation, LookUps, InterfaceFields
<1>2. Right(memo')
  BY <1>1, FuncArgsRight DEF CallInv
<1>3. QED
  BY <1>1, <1>2, SameCalls DEF CallInv

\* What AugmentFuncArgs remembers of a parameter is so, whatever the program, the
\* order of its calls and what was asked on the way: a parameter kept as calling
\* back is called or registered somewhere down the calls it is handed to, and one
\* kept as not is nowhere, unless parameters on its way are handed round in a
\* circle.
THEOREM CallbacksFound == FlowSpec => []CallbacksAreFound
<1>1. FlowInit => CallInv
  BY NothingIsRight DEF FlowInit, CallInv
<1>2. CallInv /\ [FlowNext]_flowVars => CallInv'
  BY CallInvNext
<1>3. CallInv => CallbacksAreFound
  BY DEF CallInv, Right, CallbacksAreFound
<1>4. QED
  BY <1>1, <1>2, <1>3, PTL DEF FlowSpec
=============================================================================
