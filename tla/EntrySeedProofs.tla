--------------------------- MODULE EntrySeedProofs ---------------------------
(***************************************************************************)
(* Proofs about the seeds of the entry-path probe, for all programs in SSA *)
(* form and all options: that a search no limit has cut finds the seeds    *)
(* its mode means.  The types, the limits and the bridge's bookkeeping are *)
(* those of EntryProofs.                                                   *)
(***************************************************************************)
EXTENDS EntryProofs

-----------------------------------------------------------------------------
(* A search that no limit has cut finds its seeds.  First what lies above  *)
(* the roots, and what lies around a set.                                  *)

Up == Upward(input.roots)
Reach == IF input.main THEN opts.reach ELSE 0

LEMMA CallersAre ==
    ASSUME NEW f, NEW g
    PROVE  g \in CallersIn(graph, f) <=> \E e \in graph.edges : e[2] = f /\ e[1] = g
BY DEF CallersIn

LEMMA UpwardIs ==
    ASSUME input \in Inputs, GraphOK
    PROVE  /\ Up \subseteq Fns /\ input.roots \subseteq Up
           /\ \A f \in Up : CallersIn(graph, f) \subseteq Up
           /\ \A V : /\ input.roots \subseteq V
                     /\ \A f \in V : CallersIn(graph, f) \subseteq V
                     => Up \subseteq V
<1>1. graph.edges \subseteq Fns \X Fns /\ input.roots \subseteq Fns /\ IsFiniteSet(Fns)
  BY ProgramIs DEF GraphOK, GraphsOn
<1>2. PICK U, s, pairs :
          U = Fns /\ s = input.roots /\ pairs = {<<e[2], e[1]>> : e \in graph.edges}
  OBVIOUS
<1>3. \A d : d \in pairs <=> \E e \in graph.edges : d = <<e[2], e[1]>>
  BY <1>2
<1>4. IsFiniteSet(U) /\ s \subseteq U /\ pairs \subseteq U \X U
  BY <1>1, <1>2, <1>3
<1>9. PICK R : R = Within(s, Cardinality(U), pairs)
  OBVIOUS
<1>5. /\ R \in SUBSET U /\ s \subseteq R /\ Closed(R, pairs)
      /\ \A V : s \subseteq V /\ Closed(V, pairs) => R \subseteq V
  BY <1>4, <1>9, WithinCloses
<1>6. R = Up
  BY <1>2, <1>9 DEF Up, Upward
<1>7. ASSUME NEW V
      PROVE  Closed(V, pairs) <=> \A f \in V : CallersIn(graph, f) \subseteq V
  <2>1. ASSUME Closed(V, pairs), NEW f \in V, NEW g \in CallersIn(graph, f)
        PROVE  g \in V
    <3>1. PICK e \in graph.edges : e[2] = f /\ e[1] = g
      BY CallersAre
    <3>2. PICK d \in pairs : d = <<f, g>>
      BY <1>3, <3>1
    <3>3. d[1] = f /\ d[2] = g
      BY <3>2
    <3>4. QED
      BY <2>1, <3>3 DEF Closed
  <2>2. ASSUME \A f \in V : CallersIn(graph, f) \subseteq V, NEW d \in pairs, d[1] \in V
        PROVE  d[2] \in V
    <3>1. PICK e \in graph.edges : d = <<e[2], e[1]>>
      BY <1>3
    <3>2. d[1] = e[2] /\ d[2] = e[1]
      BY <3>1
    <3>3. e[1] \in CallersIn(graph, e[2])
      BY CallersAre
    <3>4. QED
      BY <2>2, <3>2, <3>3
  <2>3. QED
    BY <2>1, <2>2 DEF Closed
<1>8. QED
  BY <1>2, <1>5, <1>6, <1>7

\* One step more than some.
LEMMA WithinGrows ==
    ASSUME NEW U, NEW s, NEW pairs, s \subseteq U, pairs \subseteq U \X U
    PROVE  \A n \in Nat :
               /\ Within(s, 0, pairs) = s
               /\ Within(s, n + 1, pairs) =
                      Within(s, n, pairs) \cup After(Within(s, n, pairs), pairs)
               /\ Within(s, n, pairs) \subseteq U
<1>15. \A k \in Nat : \E w : Run(U, s, k, pairs, w) /\ Within(s, k, pairs) = w[k]
  <2>1. ASSUME NEW k \in Nat
        PROVE  \E w : Run(U, s, k, pairs, w) /\ Within(s, k, pairs) = w[k]
    BY WithinRuns
  <2>2. QED
    BY <2>1
<1> TAKE n \in Nat
<1>1. PICK o \in Nat : o = 0
  OBVIOUS
<1>2. PICK z : Run(U, s, o, pairs, z) /\ Within(s, o, pairs) = z[o]
  BY <1>15
<1>3. PICK w : Run(U, s, n, pairs, w) /\ Within(s, n, pairs) = w[n]
  BY <1>15
<1>4. PICK m \in Nat : m = n + 1
  OBVIOUS
<1>5. PICK v : Run(U, s, m, pairs, v) /\ Within(s, m, pairs) = v[m]
  BY <1>4, <1>15
<1>6. /\ v[0] = s /\ \A k \in 1..m : v[k] = v[k - 1] \cup After(v[k - 1], pairs)
      /\ w[0] = s /\ \A k \in 1..n : w[k] = w[k - 1] \cup After(w[k - 1], pairs)
      /\ w \in [0..n -> SUBSET U]
  BY <1>3, <1>5 DEF Run
<1> DEFINE T == {k \in Nat : k <= n => v[k] = w[k]}
<1>7. 0 \in T
  BY <1>6
<1>8. ASSUME NEW k \in Nat, k \in T
      PROVE  k + 1 \in T
  <2>1. SUFFICES ASSUME k + 1 <= n
                 PROVE  v[k + 1] = w[k + 1]
    OBVIOUS
  <2>2. k + 1 \in 1..n /\ k + 1 \in 1..m /\ (k + 1) - 1 = k /\ v[k] = w[k]
    BY <1>4, <1>8, <2>1
  <2>3. QED
    BY <1>6, <2>2
<1>9. n \in T
  <2> HIDE DEF T
  <2>1. QED
    BY <1>7, <1>8, Climbing
<1>10. v[n] = w[n] /\ w[n] \in SUBSET U
  BY <1>6, <1>9
<1>11. m \in 1..m /\ m - 1 = n
  BY <1>4
<1>12. v[m] = v[n] \cup After(v[n], pairs)
  BY <1>6, <1>11
<1>13. z[0] = s
  BY <1>2 DEF Run
<1>14. QED
  BY <1>1, <1>2, <1>3, <1>4, <1>5, <1>10, <1>12, <1>13

LEMMA AroundIs ==
    ASSUME input \in Inputs, GraphOK, NEW S, S \subseteq Fns
    PROVE  /\ Around(S, 0) = S
           /\ \A n \in Nat :
                  /\ Around(S, n) \subseteq Fns /\ Around(S, n) \subseteq Around(S, n + 1)
                  /\ \A f \in Around(S, n) : AdjacentIn(graph, f) \subseteq Around(S, n + 1)
                  /\ \A g \in Around(S, n + 1) : g \notin Around(S, n) =>
                         \E f \in Around(S, n) : g \in AdjacentIn(graph, f)
<1>1. PICK U, pairs : U = Fns /\ pairs = {d \in Fns \X Fns : d[2] \in AdjacentIn(graph, d[1])}
  OBVIOUS
<1>2. pairs \subseteq U \X U /\ S \subseteq U
  BY <1>1
<1>3. \A n : Around(S, n) = Within(S, n, pairs)
  BY <1>1 DEF Around
<1>4. 0 \in Nat /\ Within(S, 0, pairs) = S
  BY <1>2, WithinGrows
<1>5. ASSUME NEW n \in Nat
      PROVE  /\ Around(S, n) \subseteq Fns /\ Around(S, n) \subseteq Around(S, n + 1)
             /\ \A f \in Around(S, n) : AdjacentIn(graph, f) \subseteq Around(S, n + 1)
             /\ \A g \in Around(S, n + 1) : g \notin Around(S, n) =>
                    \E f \in Around(S, n) : g \in AdjacentIn(graph, f)
  <2>1. PICK A, B : A = Around(S, n) /\ B = Around(S, n + 1)
    OBVIOUS
  <2>2. B = A \cup After(A, pairs) /\ A \subseteq U
    BY <1>2, <1>3, <2>1, WithinGrows
  <2>3. ASSUME NEW f \in A, NEW g \in AdjacentIn(graph, f)
        PROVE  g \in B
    <3>1. g \in Fns /\ f \in Fns
      BY <1>1, <2>2, <2>3, NeighboursIn
    <3>2. PICK d : d = <<f, g>>
      OBVIOUS
    <3>3. d[1] = f /\ d[2] = g /\ d \in Fns \X Fns
      BY <3>1, <3>2
    <3>4. d \in pairs
      BY <1>1, <2>3, <3>3
    <3>5. QED
      BY <2>2, <2>3, <3>3, <3>4 DEF After
  <2>4. ASSUME NEW g \in B, g \notin A
        PROVE  \E f \in A : g \in AdjacentIn(graph, f)
    <3>1. PICK d \in pairs : d[1] \in A /\ g = d[2]
      BY <2>2, <2>4 DEF After
    <3>2. QED
      BY <1>1, <3>1
  <2>5. QED
    BY <1>1, <2>1, <2>2, <2>3, <2>4
<1>6. QED
  BY <1>3, <1>4, <1>5

-----------------------------------------------------------------------------
(* The reverse search.                                                     *)

Uncut == "reverse_bfs_bound_exceeded" \notin diags

\* The callers found for a root are all there are; while it is searched from, those of
\* what is still queued are missing.
Traced(r) == \A f \in {r} \cup callers[r] : CallersIn(graph, f) \subseteq callers[r]
Tracing(r) ==
    /\ visited = {r} \cup callers[r] /\ ToSet(queue) \subseteq visited
    /\ \A f \in visited \ ToSet(queue) : CallersIn(graph, f) \subseteq callers[r]
Searching ==
    phase = "reverse" =>
    /\ \A k \in at..Len(RootSeq) : callers[RootSeq[k]] = {}
    /\ Uncut => \A k \in 1..(at - 1) : IF k = at - 1 /\ queue # <<>>
                                       THEN Tracing(RootSeq[k]) ELSE Traced(RootSeq[k])
TraceInv ==
    /\ graph.edges \subseteq graph.nodes \X graph.nodes
    /\ phase = "callgraph" => \A r \in input.roots : callers[r] = {}
    /\ phase # "callgraph" /\ Uncut => \A r \in input.roots : callers[r] \subseteq Up
    /\ Searching
    /\ phase \notin {"callgraph", "reverse"} /\ Uncut => input.roots \cup Starts = Up

LEMMA SameGraph ==
    ASSUME UNCHANGED <<input, graph>>
    PROVE  /\ Up' = Up /\ RootSeq' = RootSeq /\ Reach' = Reach
           /\ \A f : CallersIn(graph', f) = CallersIn(graph, f)
           /\ \A f : AdjacentIn(graph, f)' = AdjacentIn(graph, f)
           /\ \A S, n : Around(S, n)' = Around(S, n)
<1>1. prog' = prog /\ opts' = opts /\ Fns' = Fns
  BY DEF prog, opts, Fns
<1>2. \A f : AdjacentIn(graph, f)' = AdjacentIn(graph, f)
  BY <1>1 DEF AdjacentIn, CallersIn, StaticCallees, Instrs, Code
<1>3. \A S, n : Around(S, n)' = Around(S, n)
  BY <1>1, <1>2 DEF Around
<1>4. Up' = Up
  BY <1>1 DEF Up, Upward
<1>5. QED
  BY <1>1, <1>2, <1>3, <1>4 DEF RootSeq, Reach

LEMMA RootsDistinct ==
    ASSUME input \in Inputs
    PROVE  /\ \A i, j \in 1..Len(RootSeq) : RootSeq[i] = RootSeq[j] => i = j
           /\ \A r \in input.roots : \E k \in 1..Len(RootSeq) : r = RootSeq[k]
<1>1. input.roots \subseteq Fns
  BY ProgramIs
<1>2. \A i, j \in 1..Len(RootSeq) : RootSeq[i] = RootSeq[j] => i = j
  BY <1>1, AscendingDistinct DEF RootSeq
<1>3. DOMAIN RootSeq = 1..Len(RootSeq) /\ ToSet(RootSeq) = input.roots
  BY RootsListed
<1>4. QED
  BY <1>2, <1>3 DEF ToSet

LEMMA BuildGraphTraced ==
    ASSUME TypeInv, TraceInv, BuildGraph
    PROVE  TraceInv'
<1>1. /\ phase = "callgraph" /\ phase' = "reverse" /\ UNCHANGED <<input, callers, queue, at>>
      /\ graph' = ApplicationGraph /\ input \in Inputs
  BY DEF BuildGraph, TypeInv
<1>2. at = 1
  BY <1>1 DEF TypeInv, PlaceOK
<1>3. /\ prog.rta.edges \subseteq prog.rta.nodes \X prog.rta.nodes
      /\ prog.vta.edges \subseteq prog.vta.nodes \X prog.vta.nodes
  BY <1>1, EntryAssumption DEF prog
<1>4. NoGraph.edges \subseteq NoGraph.nodes \X NoGraph.nodes
  BY DEF NoGraph
<1>5. graph' \in {NoGraph, prog.rta, prog.vta}
  BY <1>1 DEF ApplicationGraph
<1>6. graph'.edges \subseteq graph'.nodes \X graph'.nodes
  BY <1>3, <1>4, <1>5
<1>7. \A r \in input.roots : callers'[r] = {}
  BY <1>1 DEF TraceInv
<1>8. RootSeq' = RootSeq /\ \A k \in 1..Len(RootSeq) : RootSeq[k] \in input.roots
  BY <1>1, RootsListed DEF RootSeq
<1>9. Searching'
  BY <1>1, <1>2, <1>7, <1>8 DEF Searching
<1>10. QED
  BY <1>1, <1>6, <1>7, <1>9 DEF TraceInv

LEMMA NoCallers ==
    ASSUME TraceInv, NEW f, f \notin graph.nodes
    PROVE  CallersIn(graph, f) = {}
<1>1. \A e \in graph.edges : e[2] \in graph.nodes
  BY DEF TraceInv
<1>2. QED
  BY <1>1, CallersAre

LEMMA SearchesOn ==
    ASSUME NEW s, s = RootSeq', \A k \in at'..Len(s) : callers'[s[k]] = {},
           Uncut' => \A k \in 1..(at' - 1) : IF k = at' - 1 /\ queue' # <<>>
                                             THEN Tracing(s[k])' ELSE Traced(s[k])'
    PROVE  Searching'
BY DEF Searching, Tracing, Traced

LEMMA OpenReverseTraced ==
    ASSUME TypeInv, TraceInv, OpenReverse
    PROVE  TraceInv'
<1>0. PICK s : s = RootSeq
  OBVIOUS
<1>1. PICK root, known :
          /\ root = s[at] /\ known = {root} \cap graph.nodes
          /\ phase = "reverse" /\ queue = <<>> /\ at <= Len(s) /\ visited' = known
          /\ queue' = Ascending(known) /\ at' = at + 1
          /\ UNCHANGED <<input, phase, graph, callers, diags>> /\ input \in Inputs
  BY <1>0 DEF OpenReverse, TypeInv
<1>2. /\ at \in Nat /\ at >= 1 /\ Len(s) \in Nat
      /\ \A k \in 1..Len(s) : s[k] \in input.roots /\ s[k] \in Fns
  BY <1>0, <1>1, RootsListed DEF TypeInv, PlaceOK
<1>3. root \in Fns /\ root \in input.roots /\ at \in 1..Len(s)
  BY <1>1, <1>2
<1>4. known \subseteq Fns
  BY <1>1, <1>3
<1>5. ToSet(queue') = known /\ queue' \in Seq(known)
  BY <1>1, <1>4, FnsListed
<1>6. /\ \A k \in at..Len(s) : callers[s[k]] = {}
      /\ Uncut => \A k \in 1..(at - 1) : Traced(s[k])
  BY <1>0, <1>1 DEF TraceInv, Searching
<1>7. callers[root] = {}
  BY <1>1, <1>3, <1>6
<1>8. /\ s = RootSeq' /\ (Uncut <=> Uncut')
      /\ \A f : CallersIn(graph', f) = CallersIn(graph, f)
  BY <1>0, <1>1, SameGraph DEF Uncut
<1>9. \A r : Traced(r) => Traced(r)'
  BY <1>1 DEF Traced
<1>10. at' - 1 = at /\ \A k \in at'..Len(s) : callers'[s[k]] = {}
  BY <1>1, <1>2, <1>6
<1>11. IF queue' # <<>> THEN Tracing(root)' ELSE Traced(root)'
  <2>1. CASE root \in graph.nodes
    <3>1. visited' = {root} /\ ToSet(queue') = {root}
      BY <1>1, <1>5, <2>1
    <3>2. queue' # <<>>
      BY <3>1 DEF ToSet
    <3>3. Tracing(root)'
      BY <1>1, <1>7, <3>1 DEF Tracing
    <3>4. QED
      BY <3>2, <3>3
  <2>2. CASE root \notin graph.nodes
    <3>1. queue' \in Seq({})
      BY <1>1, <1>5, <2>2
    <3>2. queue' = <<>>
      BY <3>1
    <3>3. Traced(root)
      BY <1>7, <2>2, NoCallers DEF Traced
    <3>4. QED
      BY <1>9, <3>2, <3>3
  <2>3. QED
    BY <2>1, <2>2
<1>12. Uncut' => \A k \in 1..(at' - 1) : IF k = at' - 1 /\ queue' # <<>>
                                         THEN Tracing(s[k])' ELSE Traced(s[k])'
  <2>1. SUFFICES ASSUME Uncut', NEW k \in 1..at
                 PROVE  IF k = at /\ queue' # <<>> THEN Tracing(s[k])' ELSE Traced(s[k])'
    BY <1>10
  <2>2. CASE k = at
    BY <1>1, <1>11, <2>2
  <2>3. CASE k # at
    <3>1. k \in 1..(at - 1)
      BY <1>2, <2>3
    <3>2. Traced(s[k])
      BY <1>6, <1>8, <2>1, <3>1
    <3>3. Traced(s[k])'
      BY <1>9, <3>2
    <3>4. QED
      BY <2>3, <3>3
  <2>4. QED
    BY <2>2, <2>3
<1>13. Searching'
  BY <1>8, <1>10, <1>12, SearchesOn
<1>14. QED
  BY <1>1, <1>8, <1>13, SameGraph DEF TraceInv

LEMMA VisitNodeTraced ==
    ASSUME TypeInv, TraceInv, VisitNode
    PROVE  TraceInv'
<1>0. PICK s : s = RootSeq
  OBVIOUS
<1>18. PICK r, head, from, new :
          /\ r = RootSeq[at - 1] /\ head = Head(queue)
          /\ from = CallersIn(graph, Head(queue)) /\ new = CallersIn(graph, Head(queue)) \ visited
  OBVIOUS
<1>19. PICK taken \in SUBSET (CallersIn(graph, Head(queue)) \ visited) :
          /\ callers' = [callers EXCEPT ![RootSeq[at - 1]] = @ \cup CallersIn(graph, Head(queue))]
          /\ visited' = visited \cup taken
          /\ queue' = Tail(queue) \o Ascending(taken)
          /\ diags' = IF taken = CallersIn(graph, Head(queue)) \ visited THEN diags
                      ELSE diags \cup {"reverse_bfs_bound_exceeded"}
  BY ZenonT(60) DEF VisitNode
<1>1. /\ r = s[at - 1] /\ head = Head(queue)
      /\ from = CallersIn(graph, head) /\ new = from \ visited /\ taken \in SUBSET new
      /\ phase = "reverse" /\ queue # <<>>
      /\ callers' = [callers EXCEPT ![r] = @ \cup from]
      /\ visited' = visited \cup taken
      /\ queue' = Tail(queue) \o Ascending(taken)
      /\ diags' = IF taken = new THEN diags ELSE diags \cup {"reverse_bfs_bound_exceeded"}
      /\ UNCHANGED <<input, phase, graph, at>> /\ input \in Inputs
  <2>1. phase = "reverse" /\ queue # <<>> /\ UNCHANGED <<input, phase, graph, at>> /\ input \in Inputs
    BY DEF VisitNode, TypeInv
  <2>2. QED
    BY <1>0, <1>18, <1>19, <2>1
<1>2. /\ queue \in Seq(Fns) /\ at \in 1..(Len(s) + 1) /\ at > 1 /\ Len(s) \in Nat
      /\ \A k \in 1..Len(s) : s[k] \in input.roots
      /\ \A i, j \in 1..Len(s) : s[i] = s[j] => i = j
      /\ \A x \in input.roots : \E k \in 1..Len(s) : x = s[k]
  BY <1>0, <1>1, RootsListed, RootsDistinct DEF TypeInv, PlaceOK
<1>3. r \in input.roots /\ at - 1 \in 1..Len(s)
  BY <1>1, <1>2
<1>4. /\ \A k \in at..Len(s) : callers[s[k]] = {}
      /\ Uncut => /\ Tracing(r)
                  /\ \A k \in 1..(at - 1) : k # at - 1 => Traced(s[k])
                  /\ \A x \in input.roots : callers[x] \subseteq Up
  <2>1. \A k \in at..Len(s) : callers[s[k]] = {}
    BY <1>0, <1>1 DEF TraceInv, Searching
  <2>2. Uncut => \A k \in 1..(at - 1) : IF k = at - 1 THEN Tracing(s[k]) ELSE Traced(s[k])
    BY <1>0, <1>1 DEF TraceInv, Searching
  <2>3. at - 1 \in 1..(at - 1)
    BY <1>2
  <2>4. Uncut => \A x \in input.roots : callers[x] \subseteq Up
    BY <1>1 DEF TraceInv
  <2>5. QED
    BY <1>1, <2>1, <2>2, <2>3, <2>4
<1>5. /\ callers \in [input.roots -> SUBSET Fns] /\ GraphOK /\ from \subseteq Fns /\ taken \subseteq Fns
      /\ input.roots \subseteq Up /\ \A f \in Up : CallersIn(graph, f) \subseteq Up
  BY <1>1, NeighboursIn, UpwardIs DEF TypeInv, GraphOK
<1>6. /\ callers'[r] = callers[r] \cup from
      /\ \A x \in input.roots : x # r => callers'[x] = callers[x]
  BY <1>1, <1>3, <1>5
<1>7. /\ Ascending(taken) \in Seq(Fns) /\ ToSet(Ascending(taken)) = taken
  BY <1>1, <1>5, FnsListed
<1>8. /\ Tail(queue) \in Seq(Fns) /\ head \in ToSet(queue)
      /\ ToSet(Tail(queue)) \subseteq ToSet(queue)
      /\ \A x \in ToSet(queue) : x = head \/ x \in ToSet(Tail(queue))
  BY <1>1, <1>2, TakenFrom
<1>9. ToSet(queue') = ToSet(Tail(queue)) \cup taken
  <2>1. PICK S, a, b : S = Fns /\ a = Tail(queue) /\ b = Ascending(taken)
    OBVIOUS
  <2>2. a \in Seq(S) /\ b \in Seq(S)
    BY <1>7, <1>8, <2>1
  <2>3. ToSet(a \o b) = ToSet(a) \cup ToSet(b)
    BY <2>2, JoinedSet
  <2>4. QED
    BY <1>1, <1>7, <2>1, <2>3
<1>10. /\ s = RootSeq' /\ (Uncut' => Uncut /\ taken = new) /\ Up' = Up
       /\ \A f : CallersIn(graph', f) = CallersIn(graph, f)
  BY <1>0, <1>1, SameGraph DEF Uncut
<1>11. \A x \in input.roots : x # r /\ Traced(x) => Traced(x)'
  BY <1>1, <1>6 DEF Traced
<1>12. \A k \in at'..Len(s) : callers'[s[k]] = {}
  <2>1. ASSUME NEW k \in at..Len(s)
        PROVE  callers'[s[k]] = {}
    <3>1. k \in 1..Len(s) /\ k # at - 1
      BY <1>2
    <3>2. s[k] # r /\ s[k] \in input.roots
      BY <1>1, <1>2, <1>3, <3>1
    <3>3. QED
      BY <1>4, <1>6, <3>2
  <2>2. QED
    BY <1>1, <2>1
<1>13. ASSUME Uncut'
       PROVE  IF queue' # <<>> THEN Tracing(r)' ELSE Traced(r)'
  <2>1. Uncut /\ taken = from \ visited
    BY <1>1, <1>10, <1>13
  <2>2. /\ visited = {r} \cup callers[r] /\ ToSet(queue) \subseteq visited
        /\ \A f \in visited \ ToSet(queue) : CallersIn(graph, f) \subseteq callers[r]
    BY <1>4, <2>1 DEF Tracing
  <2>3. /\ visited' = {r} \cup callers'[r] /\ ToSet(queue') \subseteq visited'
    BY <1>1, <1>6, <1>8, <1>9, <2>1, <2>2
  <2>4. \A f \in visited' \ ToSet(queue') : CallersIn(graph, f) \subseteq callers'[r]
    <3>1. ASSUME NEW f \in visited', f \notin ToSet(queue')
          PROVE  CallersIn(graph, f) \subseteq callers'[r]
      <4>1. f \in visited /\ f \notin ToSet(Tail(queue))
        BY <1>1, <1>9, <3>1
      <4>2. CASE f = head
        BY <1>1, <1>6, <4>2
      <4>3. CASE f # head
        BY <1>6, <1>8, <2>2, <4>1, <4>3
      <4>4. QED
        BY <4>2, <4>3
    <3>2. QED
      BY <3>1
  <2>5. Tracing(r)'
    BY <1>10, <2>3, <2>4 DEF Tracing
  <2>6. CASE queue' = <<>>
    <3>1. ToSet(queue') = {}
      BY <2>6 DEF ToSet
    <3>2. Traced(r)'
      BY <1>10, <2>3, <2>4, <3>1 DEF Traced
    <3>3. QED
      BY <2>6, <3>2
  <2>7. QED
    BY <2>5, <2>6
<1>14. Uncut' => \A k \in 1..(at' - 1) : IF k = at' - 1 /\ queue' # <<>>
                                         THEN Tracing(s[k])' ELSE Traced(s[k])'
  <2>1. SUFFICES ASSUME Uncut', NEW k \in 1..(at - 1)
                 PROVE  IF k = at - 1 /\ queue' # <<>> THEN Tracing(s[k])' ELSE Traced(s[k])'
    BY <1>1
  <2>2. CASE k = at - 1
    BY <1>1, <1>13, <2>1, <2>2
  <2>3. CASE k # at - 1
    <3>1. k \in 1..Len(s) /\ Uncut
      BY <1>2, <1>10, <2>1
    <3>2. s[k] # r /\ s[k] \in input.roots
      BY <1>1, <1>2, <1>3, <2>3, <3>1
    <3>3. Traced(s[k])
      BY <1>4, <2>3, <3>1
    <3>4. Traced(s[k])'
      BY <1>11, <3>2, <3>3
    <3>5. QED
      BY <2>3, <3>4
  <2>4. QED
    BY <2>2, <2>3
<1>15. Searching'
  BY <1>10, <1>12, <1>14, SearchesOn
<1>16. Uncut' => \A x \in input.roots : callers'[x] \subseteq Up
  <2>1. SUFFICES ASSUME Uncut', NEW x \in input.roots
                 PROVE  callers'[x] \subseteq Up
    OBVIOUS
  <2>2. Uncut /\ callers[x] \subseteq Up /\ callers[r] \subseteq Up
    BY <1>3, <1>4, <1>10, <2>1
  <2>3. head \in Up
    BY <1>3, <1>4, <1>5, <1>8, <2>2 DEF Tracing
  <2>4. from \subseteq Up
    BY <1>1, <1>5, <2>3
  <2>5. QED
    BY <1>6, <2>2, <2>4
<1>17. QED
  BY <1>1, <1>10, <1>15, <1>16 DEF TraceInv

LEMMA CloseReverseTraced ==
    ASSUME TypeInv, TraceInv, CloseReverse
    PROVE  TraceInv'
<1>0. PICK s : s = RootSeq
  OBVIOUS
<1>1. /\ phase = "reverse" /\ queue = <<>> /\ at > Len(s)
      /\ phase' = First /\ UNCHANGED <<input, graph, callers, diags>> /\ input \in Inputs
  BY <1>0 DEF CloseReverse, TypeInv
<1>2. phase' \notin {"callgraph", "reverse"}
  BY <1>1, FirstIs
<1>3. /\ at - 1 = Len(s) /\ Len(s) \in Nat
      /\ \A x \in input.roots : \E k \in 1..Len(s) : x = s[k]
  BY <1>0, <1>1, RootsListed, RootsDistinct DEF TypeInv, PlaceOK
<1>4. Uncut => \A x \in input.roots : Traced(x) /\ callers[x] \subseteq Up
  BY <1>0, <1>1, <1>3 DEF TraceInv, Searching
<1>5. GraphOK /\ input.roots \subseteq Up
  BY <1>1, UpwardIs DEF TypeInv
<1>6. ASSUME Uncut
      PROVE  input.roots \cup Starts = Up
  <2>1. input.roots \cup Starts \subseteq Up
    BY <1>4, <1>5, <1>6 DEF Starts
  <2>2. PICK V : V = input.roots \cup Starts
    OBVIOUS
  <2>3. ASSUME NEW f \in V
        PROVE  CallersIn(graph, f) \subseteq V
    <3>1. PICK x \in input.roots : f \in {x} \cup callers[x]
      BY <2>2 DEF Starts
    <3>2. CallersIn(graph, f) \subseteq callers[x]
      BY <1>4, <1>6, <3>1 DEF Traced
    <3>3. QED
      BY <2>2, <3>1, <3>2 DEF Starts
  <2>4. Up \subseteq V
    BY <1>1, <1>5, <2>2, <2>3, UpwardIs
  <2>5. QED
    BY <2>1, <2>2, <2>4
<1>7. Up' = Up /\ Uncut' = Uncut /\ Starts' = Starts
  BY <1>1, SameGraph DEF Uncut, Starts
<1>8. QED
  BY <1>1, <1>2, <1>4, <1>6, <1>7 DEF TraceInv, Searching

\* The steps after the reverse search change nothing of it.
LEMMA TracedKept ==
    ASSUME TraceInv, UNCHANGED <<input, graph, callers>>, phase \notin {"callgraph", "reverse"},
           phase' \notin {"callgraph", "reverse"}, Uncut' => Uncut
    PROVE  TraceInv'
<1>1. Up' = Up /\ Starts' = Starts
  BY SameGraph DEF Starts
<1>2. QED
  BY <1>1 DEF TraceInv, Searching

-----------------------------------------------------------------------------
(* What holds of the seeds before the index, and what then makes them      *)
(* complete, part by part.                                                 *)

Unseeded == why = [f \in Fns |-> {}]
Calm == found.stops \subseteq {"depth_budget"}
Indexed == "function_ref_index_budget_exceeded" \notin diags
Near == Around(Up, Reach)

PathsDone == Mode = "reverse-path" /\ Uncut => Owners = Up \cup UNION {StaticCallees(f) : f \in Up}
SinksDone == Mode = "http-sinks" /\ ~Frontier /\ Indexed => Owners = Bounded(Fns)
FrontDone ==
    /\ Mode = "http-sinks" /\ Frontier /\ Calm => Owners = Bounded(Near)
    /\ Mode = "targeted" /\ Frontier /\ Calm => Up \cup Bounded(Near) \subseteq Owners
ExpandDone ==
    "targeted_completed" \in diags /\ Indexed
    /\ ~AtLimit(Cardinality(Owners) - 1, opts.maxIndex) =>
        \A f \in Owners : \A r \in Refs(f) : ExpansionOwners(r) \subseteq Owners
BridgeDone == Mode = "bridge" /\ found.stops = {} => Owners = BridgeOf(Starts)
OracleDone ==
    Mode = "oracle-bridge" /\ OracleStops \cap diags = {} =>
        Owners = UNION {BridgeOf({s}) : s \in OracleStarts}
DoneInv ==
    Seeded =>
        PathsDone /\ SinksDone /\ FrontDone /\ ExpandDone /\ BridgeDone /\ OracleDone

\* What the phases are of, and those before which there are no seeds.
Early == {"callgraph", "reverse", "paths", "starts", "bridge", "frontier", "callers", "adjacent"}
PhaseInv ==
    /\ phase \in Early \/ (phase = "sinks" /\ Mode # "targeted") => Unseeded
    /\ phase = "paths" => Mode = "reverse-path" \/ (Mode = "targeted" /\ ~Frontier)
    /\ phase = "sinks" => Mode \in {"http-sinks", "targeted"} /\ ~Frontier
    /\ phase \in {"frontier", "callers", "adjacent"} =>
           /\ Mode \notin {"all", "bridge", "reverse-path", "oracle-bridge"}
           /\ Frontier \/ Mode \notin {"http-sinks", "targeted"}
    /\ phase = "expand" => Mode = "targeted"
    /\ phase = "oracle" => Mode = "oracle-bridge"
    /\ "targeted_completed" \in diags => Seeded

\* The reverse part of the frontier: what has been taken, and followed.
Evenly(s) == s.reverse = s.owners /\ s.candidates = s.owners /\ s.adjacent = {}
ReverseInv ==
    /\ phase = "frontier" /\ Calm =>
           /\ Evenly(found) /\ found.owners = {RootSeq[k] : k \in 1..(at - 1)}
           /\ at \in 1..(Len(RootSeq) + 1) /\ visited = found.owners \cap graph.nodes
    /\ phase = "callers" /\ Calm =>
           /\ Evenly(found) /\ found.owners = input.roots \cup visited /\ visited \subseteq Up
           /\ input.roots \cap graph.nodes \subseteq visited /\ ToSet(queue) \subseteq visited
           /\ \A f \in visited \ ToSet(queue) : CallersIn(graph, f) \subseteq visited
           /\ queue # <<>> =>
                  \A k \in 1..(at - 1) : Ascending(CallersIn(graph, Head(queue)))[k] \in visited

\* The adjacent part: an owner lies at its depth, and when it has been left, so do those
\* next to it.
Leads(f, g) == g \in found.owners /\ found.depth[g] <= found.depth[f] + 1
Left(f) == found.depth[f] >= Reach \/ \A g \in AdjacentIn(graph, f) : Leads(f, g)
Leaving(f) == \A k \in 1..(at - 1) : Leads(f, Ascending(AdjacentIn(graph, f))[k])
Lies(f) == found.depth[f] <= Reach /\ f \in Around(Up, found.depth[f])
LaidOut ==
    /\ found.candidates = found.owners /\ found.owners \ found.adjacent = Up
    /\ visited \subseteq found.owners /\ \A f \in Up : found.depth[f] = 0
    /\ \A f \in found.owners : Lies(f)
Levelled ==
    /\ queue # <<>> => \A f \in found.owners : found.depth[f] <= found.depth[Head(queue)] + 1
    /\ at = 1 \/ (queue # <<>> /\ Head(queue) \in visited)
Spread ==
    IF Reach = 0 THEN found.adjacent = {} /\ queue = <<>>
    ELSE /\ \A f \in found.owners : f \in visited \/ f \in ToSet(queue)
         /\ \A f \in visited : IF at > 1 /\ f = Head(queue) THEN Leaving(f) ELSE Left(f)
AdjacentInv == phase = "adjacent" /\ Calm => LaidOut /\ Levelled /\ Spread
FrontSeeds == phase = "expand" => FrontDone

\* The bridge: what it has gathered of the packages of the starts.
Part(starts, p) == Holders(starts, p) \cup PassedTo(starts, p)
                   \cup {f \in Fns : Pkg(f) = p /\ HasEvidence(f)}
Hit(f) == {r \in Refs(f) : \E s \in found.starts : Pkg(s) = Pkg(f) /\ r.operand = <<s, 0>>}
Gathered(f) == /\ HasEvidence(f) => f \in found.owners
               /\ \A r \in Hit(f) : CalleesForRef(r) \subseteq found.owners
GatherInv ==
    phase = "bridge" =>
    /\ found.owners \subseteq found.starts \cup UNION {Part(found.starts, p) : p \in DOMAIN cover}
    /\ found.bounded \subseteq found.owners /\ DOMAIN cover = {Pkg(s) : s \in found.starts}
    /\ found.stops = {} =>
           /\ found.starts = Starts /\ Starts \subseteq found.owners
           /\ \A f \in found.candidates : HasEvidence(f) => f \in found.owners
           /\ \A f \in found.scanned : Gathered(f)
OracleInv ==
    phase = "oracle" /\ OracleStops \cap diags = {} =>
        /\ at - 1 <= Cardinality(OracleStarts)
        /\ Owners = UNION {BridgeOf({Ascending(OracleStarts)[k]}) : k \in 1..(at - 1)}

SeedInv == /\ TraceInv /\ PhaseInv /\ DoneInv /\ ReverseInv /\ AdjacentInv /\ FrontSeeds
           /\ GatherInv /\ OracleInv

\* Before the seeds there are none.
LEMMA NoOwners == ASSUME Unseeded PROVE Owners = {}
BY DEF Unseeded, Owners

LEMMA GraphSeeds ==
    ASSUME TypeInv, SeedInv, BuildGraph \/ OpenReverse \/ VisitNode
    PROVE  SeedInv'
<1>1. TraceInv'
  BY BuildGraphTraced, OpenReverseTraced, VisitNodeTraced DEF SeedInv
<1>2. /\ phase \in {"callgraph", "reverse"} /\ phase' = "reverse" /\ UNCHANGED <<input, why>>
      /\ "targeted_completed" \in diags' => "targeted_completed" \in diags
  <2>1. CASE BuildGraph
    BY <2>1 DEF BuildGraph
  <2>2. CASE OpenReverse
    BY <2>2 DEF OpenReverse
  <2>3. CASE VisitNode
    BY <2>3 DEF VisitNode
  <2>4. QED
    BY <2>1, <2>2, <2>3
<1>3. Fns' = Fns
  BY <1>2, SameProgram
<1>4. PhaseInv'
  BY <1>2, <1>3 DEF SeedInv, PhaseInv, Early, Unseeded, Seeded
<1>5. QED
  BY <1>1, <1>2, <1>4 DEF SeedInv, DoneInv, Seeded, ReverseInv, AdjacentInv, FrontSeeds,
     GatherInv, OracleInv

LEMMA SameSeeds ==
    ASSUME UNCHANGED input
    PROVE  /\ Mode' = Mode /\ Frontier' = Frontier /\ opts' = opts /\ Fns' = Fns
           /\ \A f : StaticCallees(f)' = StaticCallees(f) /\ HasEvidence(f)' = HasEvidence(f)
           /\ \A S : Bounded(S)' = Bounded(S)
           /\ \A f : Refs(f)' = Refs(f) /\ Pkg(f)' = Pkg(f)
           /\ \A r : ExpansionOwners(r)' = ExpansionOwners(r)
           /\ \A r : CalleesForRef(r)' = CalleesForRef(r)
           /\ \A S, p : Part(S, p)' = Part(S, p)
           /\ \A S : BridgeOf(S)' = BridgeOf(S) /\ OracleStarts' = OracleStarts
           /\ UNCHANGED why => Owners' = Owners /\ Unseeded' = Unseeded
<1>1. prog' = prog /\ Fns' = Fns /\ Mode' = Mode /\ Frontier' = Frontier /\ opts' = opts
  BY DEF prog, Fns, Mode, Frontier, opts
<1>2. \A f : StaticCallees(f)' = StaticCallees(f)
  BY <1>1 DEF StaticCallees, Instrs, Code
<1>3. \A f : HasEvidence(f)' = HasEvidence(f)
  BY <1>1 DEF HasEvidence, Evidence, InstrEvidence, Params, ParamTypes, Code, Total, Matches,
     IsBoundary
<1>4. \A S : Bounded(S)' = Bounded(S)
  BY <1>3 DEF Bounded
<1>5. \A f : Refs(f)' = Refs(f) /\ Pkg(f)' = Pkg(f)
  BY SameProgram
<1>6. \A r : CalleesForRef(r)' = CalleesForRef(r) /\ InstrOf(r)' = InstrOf(r)
  BY <1>1 DEF CalleesForRef, InstrOf, Code
<1>7. \A r : ExpansionOwners(r)' = ExpansionOwners(r)
  BY <1>6 DEF ExpansionOwners
<1>8. \A S, p : Holders(S, p)' = Holders(S, p)
  BY SameWork
<1>9. \A S, p : PassedTo(S, p)' = PassedTo(S, p)
  BY <1>5, <1>6, <1>8 DEF PassedTo
<1>10. \A S, p : Part(S, p)' = Part(S, p)
  BY <1>1, <1>3, <1>5, <1>8, <1>9 DEF Part
<1>11. \A S : BridgeOf(S)' = BridgeOf(S)
  BY <1>1, <1>3, <1>5, <1>8, <1>9 DEF BridgeOf
<1>12. OracleStarts' = OracleStarts
  BY DEF OracleStarts
<1>13. UNCHANGED why => Owners' = Owners /\ Unseeded' = Unseeded
  BY <1>1 DEF Owners, Unseeded
<1>14. QED
  BY <1>1, <1>2, <1>3, <1>4, <1>5, <1>6, <1>7, <1>10, <1>11, <1>12, <1>13

LEMMA FirstOf ==
    /\ First = "index" => Mode = "all"
    /\ First \in {"starts", "bridge"} => Mode = "bridge"
    /\ First = "oracle" => Mode = "oracle-bridge"
    /\ First = "paths" => Mode = "reverse-path" \/ (Mode = "targeted" /\ ~Frontier)
    /\ First = "sinks" => Mode = "http-sinks" /\ ~Frontier
    /\ First = "frontier" => /\ Mode \notin {"all", "bridge", "reverse-path", "oracle-bridge"}
                             /\ Frontier \/ Mode \notin {"http-sinks", "targeted"}
BY DEF First

LEMMA CloseReverseSeeds ==
    ASSUME TypeInv, FrontLimits, SeedInv, CloseReverse
    PROVE  SeedInv'
<1>1. /\ phase = "reverse" /\ phase' = First /\ at' = 1 /\ visited' = {}
      /\ UNCHANGED <<input, graph, callers, why, diags, found>> /\ input \in Inputs
  BY DEF CloseReverse, TypeInv
<1>2. TraceInv'
  BY CloseReverseTraced DEF SeedInv
<1>3. Unseeded /\ "targeted_completed" \notin diags
  BY <1>1 DEF SeedInv, PhaseInv, Early, Seeded
<1>4. /\ Mode' = Mode /\ Frontier' = Frontier /\ Unseeded' /\ Owners' = {}
      /\ First \in {"paths", "sinks", "starts", "oracle", "frontier", "index"}
  BY <1>1, <1>3, SameSeeds, NoOwners, FirstIs
<1>5. PhaseInv'
  BY <1>1, <1>3, <1>4, FirstOf DEF PhaseInv
<1>6. DoneInv'
  <2>1. Seeded' => Mode' = "all"
    BY <1>1, <1>4, FirstOf DEF Seeded
  <2>2. QED
    BY <1>1, <1>3, <2>1 DEF DoneInv, PathsDone, SinksDone, FrontDone, ExpandDone, BridgeDone,
       OracleDone
<1>7. ReverseInv'
  <2>1. /\ found.reverse = {} /\ found.owners = {} /\ found.candidates = {} /\ found.adjacent = {}
    BY <1>1 DEF FrontLimits, Nothing
  <2>2. {RootSeq'[k] : k \in 1..(at' - 1)} = {} /\ at' \in 1..(Len(RootSeq') + 1)
    <3>1. Len(RootSeq) \in Nat /\ RootSeq' = RootSeq
      BY <1>1, RootsListed DEF RootSeq
    <3>2. QED
      BY <1>1, <3>1
  <2>3. QED
    BY <1>1, <1>4, <2>1, <2>2 DEF ReverseInv, Evenly
<1>8. OracleInv'
  <2>1. UNION {BridgeOf({Ascending(OracleStarts)[k]})' : k \in 1..(at' - 1)} = {}
    BY <1>1
  <2>2. at' - 1 <= Cardinality(OracleStarts)'
    <3>1. PICK S : S = OracleStarts
      OBVIOUS
    <3>2. S \subseteq Fns
      BY <1>1, <3>1, EntryAssumption DEF OracleStarts, Fns, prog
    <3>3. Cardinality(S) \in Nat
      BY <1>1, <3>2, FnsListed
    <3>4. OracleStarts' = S
      BY <1>1, <3>1, SameSeeds
    <3>5. QED
      BY <1>1, <3>3, <3>4
  <2>3. QED
    BY <1>4, <2>1, <2>2 DEF OracleInv
<1>9. AdjacentInv' /\ FrontSeeds' /\ GatherInv'
  BY <1>1, <1>4 DEF AdjacentInv, FrontSeeds, GatherInv
<1>10. QED
  BY <1>2, <1>5, <1>6, <1>7, <1>8, <1>9 DEF SeedInv

\* The phases of the other parts of the invariant.
LEMMA OtherPhases ==
    ASSUME phase' \notin {"frontier", "callers", "adjacent", "bridge", "oracle"},
           TraceInv', PhaseInv', DoneInv', FrontSeeds'
    PROVE  SeedInv'
BY DEF SeedInv, ReverseInv, AdjacentInv, GatherInv, OracleInv

LEMMA AddedOwners ==
    ASSUME NEW w \in [Fns -> SUBSET SeedReasons], NEW fs, NEW reason, why' = Add(w, fs, reason),
           UNCHANGED input
    PROVE  Owners' = {f \in Fns : w[f] # {}} \cup (fs \cap Fns)
BY SameSeeds DEF Owners, Add

LEMMA AddedBoundary ==
    ASSUME NEW w \in [Fns -> SUBSET SeedReasons], NEW fs, why' = AddBoundary(w, fs), UNCHANGED input
    PROVE  Owners' = {f \in Fns : w[f] # {}} \cup (Bounded(fs) \cap Fns)
<1>1. PICK B : B = Bounded(fs)
  OBVIOUS
<1>2. why' = [f \in Fns |-> IF f \in B THEN (IF f \in B THEN w[f] \cup {"boundary"} ELSE w[f])
                                            \cup {"http_sink"}
                            ELSE (IF f \in B THEN w[f] \cup {"boundary"} ELSE w[f])]
  BY <1>1 DEF AddBoundary, Add
<1>3. Owners' = {f \in Fns : why'[f] # {}}
  BY SameSeeds DEF Owners
<1>4. QED
  BY <1>1, <1>2, <1>3

LEMMA SeedPathsSeeds ==
    ASSUME TypeInv, SeedInv, SeedPaths
    PROVE  SeedInv'
<1>1. /\ phase = "paths" /\ why' = Add(why, PathOwners, "reverse_path")
      /\ phase' = IF Mode = "targeted" THEN "sinks" ELSE "index"
      /\ UNCHANGED <<input, graph, callers, diags>> /\ input \in Inputs
  BY DEF SeedPaths, TypeInv
<1>2. TraceInv'
  BY <1>1, TracedKept DEF SeedInv, Uncut
<1>3. /\ Unseeded /\ "targeted_completed" \notin diags
      /\ Mode = "reverse-path" \/ (Mode = "targeted" /\ ~Frontier)
  BY <1>1 DEF SeedInv, PhaseInv, Early, Seeded
<1>4. Mode' = Mode /\ Frontier' = Frontier /\ Up' = Up /\ Uncut' = Uncut
  BY <1>1, SameSeeds, SameGraph DEF Uncut
<1>5. PhaseInv'
  BY <1>1, <1>3, <1>4 DEF PhaseInv, Early
<1>6. PathsDone'
  <2>1. SUFFICES ASSUME Mode = "reverse-path", Uncut
                 PROVE  Owners' = Up' \cup UNION {StaticCallees(f)' : f \in Up'}
    BY <1>4 DEF PathsDone
  <2>2. input.roots \cup Starts = Up
    BY <1>1, <2>1 DEF SeedInv, TraceInv
  <2>3. PathOwners = Up \cup UNION {StaticCallees(f) : f \in Up}
    BY <2>2 DEF PathOwners
  <2>4. Owners' = {f \in Fns : why[f] # {}} \cup (PathOwners \cap Fns)
    BY <1>1, AddedOwners DEF TypeInv, SeedsOK
  <2>5. {f \in Fns : why[f] # {}} = {}
    BY <1>3, NoOwners DEF Owners
  <2>6. PathOwners \subseteq Fns
    <3>1. Up \subseteq Fns /\ \A f \in Fns : StaticCallees(f) \subseteq Fns
      BY <1>1, UpwardIs, NeighboursIn DEF TypeInv
    <3>2. QED
      BY <2>3, <3>1
  <2>7. \A f : StaticCallees(f)' = StaticCallees(f)
    BY <1>1, SameSeeds
  <2>8. UNION {StaticCallees(f)' : f \in Up'} = UNION {StaticCallees(f) : f \in Up}
    BY <1>4, <2>7
  <2>9. QED
    BY <1>4, <2>3, <2>4, <2>5, <2>6, <2>8
<1>7. DoneInv'
  <2>1. Seeded' => Mode = "reverse-path"
    BY <1>1, <1>3 DEF Seeded
  <2>2. QED
    BY <1>1, <1>3, <1>4, <1>6, <2>1 DEF DoneInv, SinksDone, FrontDone, ExpandDone, BridgeDone,
       OracleDone
<1>8. FrontSeeds'
  BY <1>1 DEF FrontSeeds
<1>9. QED
  BY <1>1, <1>2, <1>5, <1>7, <1>8, OtherPhases

LEMMA SeedSinksSeeds ==
    ASSUME TypeInv, SeedInv, SeedSinks
    PROVE  SeedInv'
<1>1. /\ phase = "sinks" /\ phase' = IF Mode = "targeted" THEN "expand" ELSE "index"
      /\ UNCHANGED <<input, graph, callers>> /\ input \in Inputs
  BY DEF SeedSinks, TypeInv
<1>2. PICK seen \in SUBSET Fns :
          /\ why' = AddBoundary(why, seen)
          /\ diags' = IF seen = Fns THEN diags
                      ELSE diags \cup {"function_ref_index_budget_exceeded"}
                           \cup (IF Mode = "targeted"
                                 THEN {"targeted_index_budget_exceeded"} ELSE {})
  BY DEF SeedSinks
<1>3. TraceInv'
  <2>1. Uncut' => Uncut
    BY <1>2 DEF Uncut
  <2>2. QED
    BY <1>1, <2>1, TracedKept DEF SeedInv
<1>4. /\ "targeted_completed" \notin diags' /\ Mode \in {"http-sinks", "targeted"} /\ ~Frontier
      /\ Mode # "targeted" => Unseeded
  BY <1>1, <1>2 DEF SeedInv, PhaseInv, Seeded
<1>5. Mode' = Mode /\ Frontier' = Frontier /\ Fns' = Fns
  BY <1>1, SameSeeds
<1>6. PhaseInv'
  BY <1>1, <1>4, <1>5 DEF PhaseInv, Early
<1>7. SinksDone'
  <2>1. SUFFICES ASSUME Mode = "http-sinks", Indexed'
                 PROVE  Owners' = Bounded(Fns)'
    BY <1>5 DEF SinksDone
  <2>2. seen = Fns
    BY <1>2, <2>1 DEF Indexed
  <2>3. Owners' = {f \in Fns : why[f] # {}} \cup (Bounded(seen) \cap Fns)
    BY <1>1, <1>2, AddedBoundary DEF TypeInv, SeedsOK
  <2>4. {f \in Fns : why[f] # {}} = {}
    BY <1>4, <2>1, NoOwners DEF Owners
  <2>5. \A f : HasEvidence(f)' = HasEvidence(f)
    BY <1>1, SameSeeds
  <2>6. QED
    BY <1>5, <2>2, <2>3, <2>4, <2>5 DEF Bounded
<1>8. DoneInv'
  BY <1>1, <1>4, <1>5, <1>7 DEF DoneInv, Seeded, PathsDone, FrontDone, ExpandDone, BridgeDone,
     OracleDone
<1>9. FrontSeeds'
  BY <1>4, <1>5 DEF FrontSeeds, FrontDone
<1>10. QED
  BY <1>1, <1>3, <1>6, <1>8, <1>9, OtherPhases

\* A trial index that neither the time nor the limit cuts has all references of the owners.
LEMMA TrialWhole ==
    ASSUME TypeInv, NEW trial \in Trials, ~trial.late,
           ~AtLimit(Cardinality(Owners) - 1, opts.maxIndex)
    PROVE  \A f \in Owners : Refs(f) \subseteq trial.refs
<1> DEFINE order == Ascending(Owners)
           Scan(n, cut) ==
               [refs |-> (UNION {Refs(order[k]) : k \in 1..n})
                         \cup (IF n < TrialLimit
                               THEN UNION {RefsAt(order[n + 1], k) : k \in 1..cut}
                               ELSE {}),
                late |-> n < TrialLimit]
           more == UNION {{Scan(n, c) : c \in 0..Len(Code(order[n + 1]))} :
                             n \in 0..(TrialLimit - 1)}
<1>1. /\ Owners \subseteq Fns /\ opts.maxIndex \in Nat /\ Cardinality(Owners) \in Nat
      /\ ToSet(order) = Owners /\ Len(order) = Cardinality(Owners) /\ order \in Seq(Owners)
  <2>1. Owners \subseteq Fns /\ opts.maxIndex \in Nat /\ input \in Inputs
    BY EntryAssumption DEF TypeInv, Owners, opts, Numbers
  <2>2. QED
    BY <2>1, FnsListed
<1>2. TrialLimit \in Nat /\ TrialLimit = Cardinality(Owners)
  BY <1>1 DEF TrialLimit, AtLimit
<1>3. Trials = {Scan(TrialLimit, 0)} \cup (IF opts.index \/ late THEN more ELSE {})
  BY Zenon DEF Trials
<1>4. \A n, cut : /\ Scan(n, cut).late = (n < TrialLimit)
                  /\ UNION {Refs(order[k]) : k \in 1..n} \subseteq Scan(n, cut).refs
  OBVIOUS
<1>5. \A f \in Owners : \E k \in 1..TrialLimit : f = order[k]
  <2>1. ToSet(order) = {order[k] : k \in 1..Len(order)}
    BY <1>1 DEF ToSet
  <2>2. QED
    BY <1>1, <1>2, <2>1
<1> HIDE DEF Scan, order
<1>6. trial = Scan(TrialLimit, 0)
  <2>1. ASSUME NEW n \in 0..(TrialLimit - 1), NEW c, trial = Scan(n, c)
        PROVE  FALSE
    <3>1. n < TrialLimit
      BY <1>2
    <3>2. trial.late
      BY <1>4, <2>1, <3>1
    <3>3. QED
      BY <3>2
  <2>2. QED
    BY <1>3, <2>1
<1>7. UNION {Refs(order[k]) : k \in 1..TrialLimit} \subseteq trial.refs
  BY <1>4, <1>6
<1>8. QED
  BY <1>5, <1>7

\* What a step of the expansion adds, and when it is said to be complete.
LEMMA ExpandAdds ==
    ASSUME Expand
    PROVE  /\ phase = "expand" /\ phase' \in {"expand", "index"}
           /\ UNCHANGED <<input, graph, callers, found>> /\ diags \subseteq diags'
           /\ why' = why \/ \E fs : why' = Add(why, fs, "on_demand_expansion")
           /\ "reverse_bfs_bound_exceeded" \in diags' => "reverse_bfs_bound_exceeded" \in diags
           /\ "targeted_completed" \in diags' => "targeted_completed" \in diags \/
                  /\ phase' = "index"
                  /\ \E trial \in Trials :
                        LET To == UNION {ExpansionOwners(r) : r \in
                                      {x \in trial.refs : ExpansionOwners(x) # {}}}
                        IN  /\ trial.late => ~Indexed'
                            /\ To \subseteq Owners /\ why' = Add(why, To, "on_demand_expansion")
<1>1. phase = "expand" /\ UNCHANGED <<input, graph, callers, found>>
  BY DEF Expand
<1>2. phase' \in {"expand", "index"}
  BY <1>1, Zenon DEF Expand, ExpandStop, ExpandWith
<1>3. diags \subseteq diags'
  BY DEF Expand, ExpandStop, ExpandWith
<1>4. why' = why \/ \E fs : why' = Add(why, fs, "on_demand_expansion")
  BY DEF Expand, ExpandStop, ExpandWith
<1>5. "reverse_bfs_bound_exceeded" \in diags' => "reverse_bfs_bound_exceeded" \in diags
  <2>1. \/ diags' = diags \cup {"function_ref_index_budget_exceeded",
                               "targeted_index_budget_exceeded"}
        \/ diags' = diags \cup {"targeted_expansion_budget_exceeded"}
        \/ \E trial \in Trials : ExpandWith(trial)
    BY DEF Expand, ExpandStop
  <2>2. ASSUME NEW trial \in Trials, ExpandWith(trial)
        PROVE  \/ diags' = diags \cup {"targeted_expansion_budget_exceeded"}
               \/ diags' = diags \cup {"targeted_queue_overflow"}
               \/ \E a, b, c : /\ diags' = diags \cup (IF a THEN {"function_ref_index_budget_exceeded",
                                                     "targeted_index_budget_exceeded"} ELSE {})
                                           \cup (IF b THEN {"targeted_completed"} ELSE {})
                                           \cup (IF c THEN {"targeted_expansion_budget_exceeded"}
                                                 ELSE {})
    BY <2>2, ZenonT(30) DEF ExpandWith
  <2>3. QED
    BY <2>1, <2>2
<1>6. ASSUME "targeted_completed" \in diags', "targeted_completed" \notin diags
      PROVE  /\ phase' = "index"
             /\ \E trial \in Trials :
                   LET To == UNION {ExpansionOwners(r) : r \in
                                 {x \in trial.refs : ExpansionOwners(x) # {}}}
                   IN  /\ trial.late => ~Indexed'
                       /\ To \subseteq Owners /\ why' = Add(why, To, "on_demand_expansion")
  <2>1. PICK trial \in Trials : ExpandWith(trial)
    BY <1>6 DEF Expand, ExpandStop
  <2>2. PICK leads, To : /\ leads = {x \in trial.refs : ExpansionOwners(x) # {}}
                         /\ To = UNION {ExpansionOwners(r) : r \in leads}
    OBVIOUS
  <2>3. /\ why' = Add(why, To, "on_demand_expansion") /\ To \subseteq Owners
        /\ phase' = "index" /\ (trial.late => "function_ref_index_budget_exceeded" \in diags')
    BY <1>6, <2>1, <2>2 DEF ExpandWith
  <2>4. QED
    BY <2>2, <2>3 DEF Indexed
<1>7. QED
  BY <1>1, <1>2, <1>3, <1>4, <1>5, <1>6

LEMMA ExpandSeeds ==
    ASSUME TypeInv, SeedInv, Expand
    PROVE  SeedInv'
<1>1. /\ phase = "expand" /\ phase' \in {"expand", "index"}
      /\ UNCHANGED <<input, graph, callers, found>> /\ diags \subseteq diags'
      /\ why' = why \/ \E fs : why' = Add(why, fs, "on_demand_expansion")
      /\ Uncut' => Uncut
      /\ input \in Inputs /\ why \in [Fns -> SUBSET SeedReasons]
  BY ExpandAdds DEF TypeInv, SeedsOK, Uncut
<1>2. TraceInv'
  BY <1>1, TracedKept DEF SeedInv
<1>3. Mode = "targeted" /\ "targeted_completed" \notin diags
  BY <1>1 DEF SeedInv, PhaseInv, Seeded
<1>4. /\ Mode' = Mode /\ Frontier' = Frontier /\ Fns' = Fns /\ opts' = opts /\ Calm' = Calm
      /\ Near' = Near /\ Up' = Up /\ \A S : Bounded(S)' = Bounded(S)
  <2>1. Near' = Near /\ Up' = Up
    <3>1. PICK u, n : u = Up /\ n = Reach /\ u = Up' /\ n = Reach'
      BY <1>1, SameGraph
    <3>2. Around(u, n)' = Around(u, n)
      BY <1>1, SameGraph
    <3>3. QED
      BY <3>1, <3>2 DEF Near
  <2>2. QED
    BY <1>1, <2>1, SameSeeds DEF Calm
<1>5. PhaseInv'
  BY <1>1, <1>3, <1>4, ExpandAdds DEF PhaseInv, Early, Seeded
<1>6. Owners \subseteq Owners'
  <2>1. CASE why' = why
    BY <1>1, <2>1, SameSeeds
  <2>2. ASSUME NEW fs, why' = Add(why, fs, "on_demand_expansion")
        PROVE  Owners \subseteq Owners'
    BY <1>1, <2>2, AddedOwners DEF Owners
  <2>3. QED
    BY <1>1, <2>1, <2>2
<1>7. FrontDone'
  <2>1. FrontDone
    BY <1>1 DEF SeedInv, FrontSeeds
  <2>2. Bounded(Near)' = Bounded(Near)
    <3>1. PICK N : N = Near /\ N = Near'
      BY <1>4
    <3>2. Bounded(N)' = Bounded(N)
      BY <1>4
    <3>3. QED
      BY <3>1, <3>2 DEF Bounded
  <2>3. QED
    BY <1>3, <1>4, <1>6, <2>1, <2>2 DEF FrontDone
<1>8. ExpandDone'
  <2>1. SUFFICES ASSUME "targeted_completed" \in diags', Indexed',
                        ~AtLimit(Cardinality(Owners') - 1, opts'.maxIndex),
                        NEW f \in Owners', NEW r \in Refs(f)'
                 PROVE  ExpansionOwners(r)' \subseteq Owners'
    BY DEF ExpandDone, AtLimit
  <2>2. PICK trial \in Trials :
            LET To == UNION {ExpansionOwners(x) : x \in
                          {y \in trial.refs : ExpansionOwners(y) # {}}}
            IN  /\ trial.late => ~Indexed'
                /\ To \subseteq Owners /\ why' = Add(why, To, "on_demand_expansion")
    BY <1>3, <2>1, ExpandAdds
  <2>3. PICK To : /\ To = UNION {ExpansionOwners(x) : x \in
                              {y \in trial.refs : ExpansionOwners(y) # {}}}
                  /\ To \subseteq Owners /\ why' = Add(why, To, "on_demand_expansion")
    BY <2>2
  <2>4. Owners' = Owners
    <3>1. PICK W : W = {g \in Fns : why[g] # {}}
      OBVIOUS
    <3>2. W = Owners
      BY <3>1 DEF Owners
    <3>3. Owners' = W \cup (To \cap Fns)
      BY <1>1, <2>3, <3>1, AddedOwners
    <3>4. QED
      BY <2>3, <3>2, <3>3
  <2>5. Refs(f)' = Refs(f) /\ ExpansionOwners(r)' = ExpansionOwners(r)
    BY <1>1, SameSeeds
  <2>6. ~trial.late /\ ~AtLimit(Cardinality(Owners) - 1, opts.maxIndex)
    BY <1>4, <2>1, <2>2, <2>4
  <2>7. r \in trial.refs
    BY <2>1, <2>4, <2>5, <2>6, TrialWhole
  <2>8. ExpansionOwners(r) \subseteq To
    BY <2>3, <2>7
  <2>9. QED
    BY <2>3, <2>4, <2>5, <2>8
<1>9. DoneInv' /\ FrontSeeds'
  BY <1>3, <1>4, <1>7, <1>8 DEF DoneInv, FrontSeeds, PathsDone, SinksDone, BridgeDone, OracleDone
<1>10. QED
  BY <1>1, <1>2, <1>5, <1>9, OtherPhases

\* A stop other than at the depth.
LEMMA StoppedHere ==
    ASSUME NEW s \in FoundType, NEW reason \in StopReasons \ {"depth_budget"},
           NEW a, a = Stop(s, reason)
    PROVE  /\ s.stops \subseteq a.stops /\ ~(a.stops \subseteq {"depth_budget"})
           /\ a.owners = s.owners /\ a.reverse = s.reverse /\ a.adjacent = s.adjacent
<1>1. /\ a.stops = s.stops \cup {reason} /\ a.owners = s.owners /\ a.reverse = s.reverse
      /\ a.adjacent = s.adjacent
  BY DEF Stop, FoundType
<1>2. QED
  BY <1>1

\* What the reverse part takes, it takes as an owner and as a candidate, unless it stops.
LEMMA ReverseTaken ==
    ASSUME NEW s \in FoundType, NEW f \in Fns, NEW t, NEW a, a = AddReverse(s, f, t)
    PROVE  /\ a \in FoundType /\ a.depth = s.depth /\ s.stops \subseteq a.stops
           /\ a.stops \subseteq {"depth_budget"} /\ Evenly(s) =>
                  /\ a.reverse = s.reverse \cup {f} /\ a.owners = s.owners \cup {f}
                  /\ a.candidates = s.candidates /\ a.adjacent = {}
<1>1. a \in FoundType /\ a.depth = s.depth
  BY AddReverseIs DEF Grown
<1> DEFINE more == [s EXCEPT !.owners = @ \cup {f}, !.packages = @ \cup {Pkg(f)}]
           whole == [more EXCEPT !.reverse = @ \cup {f}]
<1>2. \/ a = s /\ (f \in s.reverse \/ f \in s.owners)
      \/ \E reason \in {"duration_budget", "reverse_owner_budget", "package_budget"} :
             a = Stop(s, reason)
      \/ a = [s EXCEPT !.reverse = @ \cup {f}] /\ f \in s.owners
      \/ a = whole
  <2>1. PICK added : added = AddOwner(s, f)
    OBVIOUS
  <2>2. \/ added = s /\ f \in s.owners
        \/ added = Stop(s, "package_budget") /\ f \notin s.owners
        \/ added = more
    BY <2>1 DEF AddOwner
  <2>3. Stop(s, "package_budget").owners = s.owners
    BY StoppedHere DEF StopReasons
  <2>4. \/ a = s /\ f \in s.reverse
        \/ a = Stop(s, "duration_budget")
        \/ a = Stop(s, "reverse_owner_budget")
        \/ f \in added.owners /\ a = [added EXCEPT !.reverse = @ \cup {f}]
        \/ f \notin added.owners /\ a = added
    BY <2>1 DEF AddReverse
  <2>5. f \in more.owners
    BY DEF FoundType
  <2> HIDE DEF more
  <2>6. QED
    BY <2>2, <2>3, <2>4, <2>5
<1>3. /\ whole.owners = s.owners \cup {f} /\ whole.reverse = s.reverse \cup {f}
      /\ whole.candidates = s.candidates /\ whole.adjacent = s.adjacent
      /\ whole.stops = s.stops
  BY DEF FoundType
<1>4. \A reason \in {"duration_budget", "reverse_owner_budget", "package_budget"} :
          /\ s.stops \subseteq Stop(s, reason).stops
          /\ ~(Stop(s, reason).stops \subseteq {"depth_budget"})
  <2>1. ASSUME NEW reason \in {"duration_budget", "reverse_owner_budget", "package_budget"}
        PROVE  /\ s.stops \subseteq Stop(s, reason).stops
               /\ ~(Stop(s, reason).stops \subseteq {"depth_budget"})
    <3>1. reason \in StopReasons \ {"depth_budget"}
      BY DEF StopReasons
    <3>2. QED
      BY <3>1, StoppedHere
  <2>2. QED
    BY <2>1
<1>5. PICK u : u = [s EXCEPT !.reverse = @ \cup {f}]
  OBVIOUS
<1>6. /\ u.owners = s.owners /\ u.reverse = s.reverse \cup {f} /\ u.candidates = s.candidates
      /\ u.adjacent = s.adjacent /\ u.stops = s.stops
  BY <1>5 DEF FoundType
<1> HIDE DEF whole
<1>9. s.stops \subseteq a.stops
  BY <1>2, <1>3, <1>4, <1>5, <1>6
<1>10. ASSUME a.stops \subseteq {"depth_budget"}, Evenly(s)
       PROVE  /\ a.reverse = s.reverse \cup {f} /\ a.owners = s.owners \cup {f}
              /\ a.candidates = s.candidates /\ a.adjacent = {}
  <2>1. \/ a = s /\ f \in s.owners
        \/ a = u /\ f \in s.owners
        \/ a = whole
    BY <1>2, <1>4, <1>5, <1>10 DEF Evenly
  <2>2. QED
    BY <1>3, <1>6, <1>10, <2>1 DEF Evenly
<1>11. QED
  BY <1>1, <1>9, <1>10

LEMMA CandidateTaken ==
    ASSUME NEW s \in FoundType, NEW f \in Fns, NEW t, NEW a, a = ScanCandidate(s, f, t)
    PROVE  /\ a \in FoundType /\ a.depth = s.depth /\ s.stops \subseteq a.stops
           /\ a.owners = s.owners /\ a.reverse = s.reverse /\ a.adjacent = s.adjacent
           /\ a.stops \subseteq {"depth_budget"} => a.candidates = s.candidates \cup {f}
<1>1. a \in FoundType /\ a.depth = s.depth
  BY ScanCandidateIs DEF Grown
<1>2. PICK u : u = [s EXCEPT !.candidates = @ \cup {f}]
  OBVIOUS
<1>3. /\ u.owners = s.owners /\ u.reverse = s.reverse /\ u.candidates = s.candidates \cup {f}
      /\ u.adjacent = s.adjacent /\ u.stops = s.stops
  BY <1>2 DEF FoundType
<1>4. \A reason \in {"duration_budget", "boundary_candidate_budget"} :
          LET v == Stop(s, reason)
          IN  /\ s.stops \subseteq v.stops /\ ~(v.stops \subseteq {"depth_budget"})
              /\ v.owners = s.owners /\ v.reverse = s.reverse /\ v.adjacent = s.adjacent
  <2>1. ASSUME NEW reason \in {"duration_budget", "boundary_candidate_budget"}
        PROVE  reason \in StopReasons \ {"depth_budget"}
    BY DEF StopReasons
  <2>2. QED
    BY <2>1, StoppedHere
<1>5. \/ a = s /\ f \in s.candidates
      \/ \E reason \in {"duration_budget", "boundary_candidate_budget"} : a = Stop(s, reason)
      \/ a = u
  BY <1>2 DEF ScanCandidate
<1>6. a.stops \subseteq {"depth_budget"} => a.candidates = s.candidates \cup {f}
  BY <1>3, <1>4, <1>5
<1>7. QED
  BY <1>1, <1>3, <1>4, <1>5, <1>6

LEMMA AdjacentTaken ==
    ASSUME NEW s \in FoundType, NEW f \in Fns, NEW t, NEW a, a = AddAdjacent(s, f, t)
    PROVE  /\ a \in FoundType /\ a.depth = s.depth /\ s.stops \subseteq a.stops
           /\ a.stops \subseteq {"depth_budget"} =>
                  /\ a.owners = s.owners \cup {f} /\ a.candidates = s.candidates
                  /\ a.adjacent = s.adjacent \cup ({f} \ s.owners)
<1>1. a \in FoundType /\ a.depth = s.depth
  BY AddAdjacentIs DEF Grown
<1> DEFINE more == [s EXCEPT !.owners = @ \cup {f}, !.packages = @ \cup {Pkg(f)}]
           whole == [more EXCEPT !.adjacent = @ \cup {f}]
<1>2. \/ a = s /\ f \in s.owners
      \/ \E reason \in {"duration_budget", "adjacent_owner_budget", "package_budget"} :
             a = Stop(s, reason)
      \/ a = whole /\ f \notin s.owners
  <2>1. PICK added : added = AddOwner(s, f)
    OBVIOUS
  <2>2. \/ added = s /\ f \in s.owners
        \/ added = Stop(s, "package_budget") /\ f \notin s.owners
        \/ added = more
    BY <2>1 DEF AddOwner
  <2>3. Stop(s, "package_budget").owners = s.owners
    BY StoppedHere DEF StopReasons
  <2>4. \/ a = s /\ f \in s.owners
        \/ a = Stop(s, "duration_budget")
        \/ a = Stop(s, "adjacent_owner_budget")
        \/ /\ f \notin s.owners
           /\ \/ f \in added.owners /\ a = [added EXCEPT !.adjacent = @ \cup {f}]
              \/ f \notin added.owners /\ a = added
    BY <2>1 DEF AddAdjacent
  <2>5. f \in more.owners
    BY DEF FoundType
  <2> HIDE DEF more
  <2>6. QED
    BY <2>2, <2>3, <2>4, <2>5
<1>3. /\ whole.owners = s.owners \cup {f} /\ whole.adjacent = s.adjacent \cup {f}
      /\ whole.candidates = s.candidates /\ whole.stops = s.stops
  BY DEF FoundType
<1>4. \A reason \in {"duration_budget", "adjacent_owner_budget", "package_budget"} :
          /\ s.stops \subseteq Stop(s, reason).stops
          /\ ~(Stop(s, reason).stops \subseteq {"depth_budget"})
  <2>1. ASSUME NEW reason \in {"duration_budget", "adjacent_owner_budget", "package_budget"}
        PROVE  /\ s.stops \subseteq Stop(s, reason).stops
               /\ ~(Stop(s, reason).stops \subseteq {"depth_budget"})
    <3>1. reason \in StopReasons \ {"depth_budget"}
      BY DEF StopReasons
    <3>2. QED
      BY <3>1, StoppedHere
  <2>2. QED
    BY <2>1
<1> HIDE DEF whole
<1>5. s.stops \subseteq a.stops
  BY <1>2, <1>3, <1>4
<1>6. a.stops \subseteq {"depth_budget"} =>
          /\ a.owners = s.owners \cup {f} /\ a.candidates = s.candidates
          /\ a.adjacent = s.adjacent \cup ({f} \ s.owners)
  BY <1>2, <1>3, <1>4
<1>7. QED
  BY <1>1, <1>5, <1>6

\* A root or a caller, taken and looked at.
LEMMA BothTaken ==
    ASSUME NEW s \in FoundType, NEW f \in Fns, NEW t, NEW u, NEW a,
           a = ScanCandidate(AddReverse(s, f, t), f, u)
    PROVE  /\ a \in FoundType /\ s.stops \subseteq a.stops
           /\ a.stops \subseteq {"depth_budget"} /\ Evenly(s) =>
                  Evenly(a) /\ a.owners = s.owners \cup {f}
<1>1. PICK b : b = AddReverse(s, f, t)
  OBVIOUS
<1>2. /\ b \in FoundType /\ s.stops \subseteq b.stops
      /\ b.stops \subseteq {"depth_budget"} /\ Evenly(s) =>
             /\ b.reverse = s.reverse \cup {f} /\ b.owners = s.owners \cup {f}
             /\ b.candidates = s.candidates /\ b.adjacent = {}
  BY <1>1, ReverseTaken
<1>3. /\ a \in FoundType /\ b.stops \subseteq a.stops
      /\ a.owners = b.owners /\ a.reverse = b.reverse /\ a.adjacent = b.adjacent
      /\ a.stops \subseteq {"depth_budget"} => a.candidates = b.candidates \cup {f}
  BY <1>1, <1>2, CandidateTaken
<1>4. QED
  BY <1>2, <1>3 DEF Evenly

\* The steps of the search touch no seeds.
LEMMA FrontierPhases ==
    ASSUME SeedInv, phase \in {"frontier", "callers", "adjacent"},
           phase' \in {"frontier", "callers", "adjacent"},
           UNCHANGED <<input, graph, callers, why, diags>>, ReverseInv', AdjacentInv'
    PROVE  SeedInv'
<1>1. TraceInv'
  BY TracedKept DEF SeedInv, Uncut
<1>2. Mode' = Mode /\ Frontier' = Frontier /\ Unseeded' = Unseeded
  BY SameSeeds
<1>3. PhaseInv'
  BY <1>2 DEF SeedInv, PhaseInv, Early, Seeded
<1>4. DoneInv' /\ FrontSeeds' /\ GatherInv' /\ OracleInv'
  BY DEF DoneInv, Seeded, FrontSeeds, GatherInv, OracleInv
<1>5. QED
  BY <1>1, <1>3, <1>4 DEF SeedInv

\* The reverse part ends with all that lies above the roots, or with a stop.
LEMMA ToAdjacentSeeds ==
    ASSUME input \in Inputs, GraphOK, UNCHANGED <<input, graph>>, NEW s \in FoundType,
           \A f \in Fns : s.depth[f] = 0,
           s.stops \subseteq {"depth_budget"} => Evenly(s) /\ s.owners = Up,
           ToAdjacent(s)
    PROVE  phase' = "adjacent" /\ AdjacentInv'
<1>1. /\ found' = s \/ found' = Stop(s, "depth_budget")
      /\ queue' = IF input.main /\ opts.reach > 0 THEN Ascending(s.owners) ELSE <<>>
      /\ phase' = "adjacent" /\ at' = 1 /\ visited' = {}
  BY DEF ToAdjacent
<1>2. /\ found'.owners = s.owners /\ found'.candidates = s.candidates
      /\ found'.adjacent = s.adjacent /\ found'.depth = s.depth /\ s.stops \subseteq found'.stops
  BY <1>1 DEF Stop, FoundType
<1>3. SUFFICES ASSUME Calm'
               PROVE  LaidOut' /\ Levelled' /\ Spread'
  BY <1>1 DEF AdjacentInv
<1>4. Evenly(s) /\ s.owners = Up
  BY <1>2, <1>3 DEF Calm
<1>5. Up' = Up /\ Reach' = Reach /\ Up \subseteq Fns /\ Reach \in Nat
      /\ \A S, n : Around(S, n)' = Around(S, n)
  <2>1. Reach \in Nat
    BY EntryAssumption DEF Reach, opts, Numbers
  <2>2. QED
    BY <2>1, SameGraph, UpwardIs
<1>6. ASSUME NEW f \in Up
      PROVE  Lies(f)'
  <2>1. found'.depth[f] = 0
    BY <1>2, <1>5, <1>6
  <2>2. f \in Around(Up, 0)
    BY <1>5, <1>6, AroundIs
  <2>3. QED
    BY <1>5, <2>1, <2>2 DEF Lies
<1>7. LaidOut'
  BY <1>1, <1>2, <1>4, <1>5, <1>6 DEF LaidOut, Evenly
<1>8. queue' \in Seq(Up)
  <2>1. Ascending(s.owners) \in Seq(Up) /\ <<>> \in Seq(Up)
    BY <1>4, <1>5, FnsListed
  <2>2. QED
    BY <1>1, <2>1
<1>9. Levelled'
  <2>1. queue' # <<>> => Head(queue') \in Up
    BY <1>8
  <2>2. \A f \in Up : found'.depth[f] = 0
    BY <1>2, <1>5
  <2>3. QED
    BY <1>1, <1>2, <1>4, <2>1, <2>2 DEF Levelled
<1>10. Spread'
  <2>1. CASE Reach = 0
    <3>1. ~(input.main /\ opts.reach > 0)
      BY <2>1 DEF Reach
    <3>2. QED
      BY <1>1, <1>2, <1>4, <1>5, <2>1, <3>1 DEF Spread, Evenly
  <2>2. CASE Reach # 0
    <3>1. input.main /\ opts.reach > 0
      BY <1>5, <2>2 DEF Reach
    <3>2. ToSet(queue') = s.owners
      BY <1>1, <1>4, <1>5, <3>1, FnsListed
    <3>3. QED
      BY <1>1, <1>2, <1>5, <2>2, <3>2 DEF Spread
  <2>3. QED
    BY <2>1, <2>2
<1>11. QED
  BY <1>7, <1>9, <1>10

LEMMA FrontierRootSeeds ==
    ASSUME TypeInv, FrontLimits, SeedInv, FrontierRoot
    PROVE  SeedInv'
<1> DEFINE root == RootSeq[at]
<1>1. /\ UNCHANGED <<input, graph, callers, why, diags>> /\ phase = "frontier"
      /\ at <= Len(RootSeq) /\ input \in Inputs /\ GraphOK /\ found \in FoundType
      /\ \A f \in Fns : found.depth[f] = 0
  BY DEF FrontierRoot, FrontierUnchanged, TypeInv, FoundOK, FrontLimits
<1>2. PICK t \in Ticks(3, opts.clock) : \E added :
         /\ added = AddReverse(found, root, t[1])
         /\ \/ /\ root \notin added.reverse \/ t[2]
               /\ ToAdjacent(IF t[2] THEN Stop(added, "duration_budget") ELSE added)
            \/ /\ found' = ScanCandidate(added, root, t[3]) /\ at' = at + 1
               /\ visited' = visited \cup ({root} \cap graph.nodes)
               /\ UNCHANGED <<phase, queue>>
  BY DEF FrontierRoot
<1>3. root \in Fns /\ at \in 1..Len(RootSeq)
  <2>1. at \in Nat \ {0} /\ Len(RootSeq) \in Nat
    BY <1>1, RootsListed DEF TypeInv, PlaceOK
  <2>2. QED
    BY <1>1, <2>1, RootsListed
<1>4. Calm => /\ Evenly(found) /\ found.owners = {RootSeq[k] : k \in 1..(at - 1)}
              /\ visited = found.owners \cap graph.nodes
  BY <1>1 DEF SeedInv, ReverseInv
<1> HIDE DEF root
<1>9. PICK added :
         /\ added = AddReverse(found, root, t[1])
         /\ \/ /\ root \notin added.reverse \/ t[2]
               /\ ToAdjacent(IF t[2] THEN Stop(added, "duration_budget") ELSE added)
            \/ /\ found' = ScanCandidate(added, root, t[3]) /\ at' = at + 1
               /\ visited' = visited \cup ({root} \cap graph.nodes)
               /\ UNCHANGED <<phase, queue>>
  BY <1>2
<1>5. /\ added \in FoundType /\ added.depth = found.depth /\ found.stops \subseteq added.stops
      /\ added.stops \subseteq {"depth_budget"} /\ Evenly(found) => root \in added.reverse
  BY <1>1, <1>3, <1>9, ReverseTaken
<1>6. CASE /\ root \notin added.reverse \/ t[2]
           /\ ToAdjacent(IF t[2] THEN Stop(added, "duration_budget") ELSE added)
  <2>1. PICK s : s = IF t[2] THEN Stop(added, "duration_budget") ELSE added
    OBVIOUS
  <2>2. /\ s \in FoundType /\ \A f \in Fns : s.depth[f] = 0
        /\ ~(s.stops \subseteq {"depth_budget"})
    <3>1. CASE t[2]
      <4>1. "duration_budget" \in StopReasons \ {"depth_budget"}
        BY DEF StopReasons
      <4>2. s = Stop(added, "duration_budget")
        BY <2>1, <3>1
      <4>3. s \in FoundType /\ s.depth = added.depth
        BY <1>5, <4>1, <4>2, StopIs
      <4>4. ~(s.stops \subseteq {"depth_budget"})
        BY <1>5, <4>1, <4>2, StoppedHere
      <4>5. QED
        BY <1>1, <1>5, <4>3, <4>4
    <3>2. CASE ~t[2]
      BY <1>1, <1>4, <1>5, <1>6, <2>1, <3>2 DEF Calm
    <3>3. QED
      BY <3>1, <3>2
  <2>3. phase' = "adjacent" /\ AdjacentInv'
    BY <1>1, <1>6, <2>1, <2>2, ToAdjacentSeeds
  <2>4. ReverseInv'
    BY <2>3 DEF ReverseInv
  <2>5. QED
    BY <1>1, <2>3, <2>4, FrontierPhases
<1>7. CASE /\ found' = ScanCandidate(added, root, t[3]) /\ at' = at + 1
           /\ visited' = visited \cup ({root} \cap graph.nodes)
           /\ UNCHANGED <<phase, queue>>
  <2>1. /\ found.stops \subseteq found'.stops
        /\ found'.stops \subseteq {"depth_budget"} /\ Evenly(found) =>
               Evenly(found') /\ found'.owners = found.owners \cup {root}
    BY <1>1, <1>3, <1>9, <1>7, BothTaken
  <2>2. AdjacentInv'
    BY <1>1, <1>7 DEF AdjacentInv
  <2>3. ReverseInv'
    <3>1. SUFFICES ASSUME Calm'
                   PROVE  /\ Evenly(found)' /\ found'.owners = {RootSeq'[k] : k \in 1..(at' - 1)}
                          /\ at' \in 1..(Len(RootSeq') + 1)
                          /\ visited' = found'.owners \cap graph'.nodes
      BY <1>1, <1>7 DEF ReverseInv
    <3>2. /\ Evenly(found') /\ found'.owners = found.owners \cup {root}
          /\ found.owners = {RootSeq[k] : k \in 1..(at - 1)}
          /\ visited = found.owners \cap graph.nodes
      BY <1>4, <2>1, <3>1 DEF Calm
    <3>3. /\ RootSeq' = RootSeq /\ at' \in 1..(Len(RootSeq) + 1) /\ Len(RootSeq) \in Nat
          /\ \A k : k \in 1..(at' - 1) <=> k \in 1..(at - 1) \/ k = at
      <4>1. RootSeq' = RootSeq /\ Len(RootSeq) \in Nat
        BY <1>1, RootsListed DEF RootSeq
      <4>2. QED
        BY <1>3, <1>7, <4>1
    <3>4. found'.owners = {RootSeq[k] : k \in 1..(at' - 1)}
      BY <3>2, <3>3 DEF root
    <3>5. Evenly(found)'
      BY <3>2 DEF Evenly
    <3>6. visited' = found'.owners \cap graph.nodes
      BY <1>7, <3>2
    <3>7. QED
      BY <1>1, <3>3, <3>4, <3>5, <3>6
  <2>4. QED
    BY <1>1, <1>7, <2>2, <2>3, FrontierPhases
<1>8. QED
  BY <1>6, <1>7, <1>9

LEMMA FrontierRootsSeeds ==
    ASSUME TypeInv, SeedInv, FrontierRoots
    PROVE  SeedInv'
<1>1. /\ UNCHANGED <<input, graph, callers, why, diags, found, visited>> /\ phase = "frontier"
      /\ at > Len(RootSeq) /\ input \in Inputs /\ GraphOK /\ phase' = "callers" /\ at' = 1
      /\ queue' = Ascending(input.roots \cap graph.nodes)
  BY DEF FrontierRoots, FrontierUnchanged, TypeInv
<1>2. AdjacentInv'
  BY <1>1 DEF AdjacentInv
<1>3. ReverseInv'
  <2>1. SUFFICES ASSUME Calm
                 PROVE  /\ Evenly(found) /\ found.owners = input.roots \cup visited
                        /\ visited \subseteq Up
                        /\ input.roots \cap graph.nodes \subseteq visited
                        /\ ToSet(queue') \subseteq visited
                        /\ \A f \in visited \ ToSet(queue') : CallersIn(graph, f) \subseteq visited
    <3>1. Up' = Up /\ Calm' = Calm /\ (Evenly(found)' <=> Evenly(found))
      BY <1>1, SameGraph DEF Calm, Evenly
    <3>2. \A k \in 1..(at' - 1) : FALSE
      BY <1>1
    <3>3. \A f : CallersIn(graph', f) = CallersIn(graph, f)
      BY <1>1, SameGraph
    <3>4. QED
      BY <1>1, <2>1, <3>1, <3>2, <3>3 DEF ReverseInv
  <2>2. /\ Evenly(found) /\ found.owners = {RootSeq[k] : k \in 1..(at - 1)}
        /\ at \in 1..(Len(RootSeq) + 1) /\ visited = found.owners \cap graph.nodes
    BY <1>1, <2>1 DEF SeedInv, ReverseInv
  <2>3. found.owners = input.roots
    <3>1. at - 1 = Len(RootSeq) /\ Len(RootSeq) \in Nat
      BY <1>1, <2>2, RootsListed
    <3>2. /\ \A k \in 1..Len(RootSeq) : RootSeq[k] \in input.roots
          /\ \A r \in input.roots : \E k \in 1..Len(RootSeq) : r = RootSeq[k]
      BY <1>1, RootsListed, RootsDistinct
    <3>3. QED
      BY <2>2, <3>1, <3>2
  <2>4. ToSet(queue') = input.roots \cap graph.nodes
    <3>1. input.roots \cap graph.nodes \subseteq Fns
      BY <1>1, ProgramIs
    <3>2. QED
      BY <1>1, <3>1, FnsListed
  <2>5. input.roots \subseteq Up
    BY <1>1, UpwardIs
  <2>6. QED
    BY <2>2, <2>3, <2>4, <2>5
<1>4. QED
  BY <1>1, <1>2, <1>3, FrontierPhases

LEMMA FrontierCallerSeeds ==
    ASSUME TypeInv, FrontLimits, SeedInv, FrontierCaller
    PROVE  SeedInv'
<1> DEFINE order == Ascending(CallersIn(graph, Head(queue)))
           caller == order[at]
           new == IF caller \in visited THEN <<>> ELSE <<caller>>
           rest == IF at < Len(order) THEN queue ELSE Tail(queue)
           full == Cardinality(found.reverse)
<1>1. /\ UNCHANGED <<input, graph, callers, why, diags>> /\ phase = "callers" /\ queue # <<>>
      /\ input \in Inputs /\ GraphOK /\ found \in FoundType
      /\ \A f \in Fns : found.depth[f] = 0
  BY DEF FrontierCaller, FrontierUnchanged, TypeInv, FoundOK, FrontLimits
<1>2. PICK t \in Ticks(3, opts.clock) :
         \/ /\ ~Checked(t[1], full, opts.reverse)
            /\ ToAdjacent(Check(found, t[1], full, opts.reverse, "reverse_owner_budget"))
         \/ queue' = Tail(queue) /\ UNCHANGED <<phase, found, at, visited>> /\ order = <<>>
         \/ /\ order # <<>>
            /\ found' = ScanCandidate(AddReverse(found, caller, t[2]), caller, t[3])
            /\ queue' = rest \o new
            /\ at' = IF at < Len(order) THEN at + 1 ELSE 1
            /\ visited' = visited \cup {caller}
            /\ UNCHANGED phase
  BY DEF FrontierCaller
<1>3. /\ at \in Nat \ {0} /\ queue \in Seq(Fns)
      /\ at # 1 => at <= Cardinality(CallersIn(graph, Head(queue)))
  BY <1>1 DEF TypeInv, PlaceOK
<1>4. PICK from : from = CallersIn(graph, Head(queue))
  OBVIOUS
<1>5. /\ from \subseteq Fns /\ order \in Seq(Fns) /\ Len(order) = Cardinality(from)
      /\ Len(order) \in Nat /\ ToSet(order) = from
  BY <1>1, <1>4, NeighboursIn, FnsListed
<1>6. Calm => /\ Evenly(found) /\ found.owners = input.roots \cup visited /\ visited \subseteq Up
              /\ input.roots \cap graph.nodes \subseteq visited /\ ToSet(queue) \subseteq visited
              /\ \A f \in visited \ ToSet(queue) : CallersIn(graph, f) \subseteq visited
              /\ \A k \in 1..(at - 1) : order[k] \in visited
  BY <1>1 DEF SeedInv, ReverseInv
<1>7. /\ Tail(queue) \in Seq(Fns) /\ Head(queue) \in ToSet(queue)
      /\ ToSet(Tail(queue)) \subseteq ToSet(queue)
      /\ \A x \in ToSet(queue) : x = Head(queue) \/ x \in ToSet(Tail(queue))
  BY <1>1, <1>3, TakenFrom
<1>8. /\ Up' = Up /\ \A f : CallersIn(graph', f) = CallersIn(graph, f)
      /\ \A f \in Up : CallersIn(graph, f) \subseteq Up
  BY <1>1, SameGraph, UpwardIs
<1> HIDE DEF order, caller, new, rest, full
<1>9. CASE /\ ~Checked(t[1], full, opts.reverse)
           /\ ToAdjacent(Check(found, t[1], full, opts.reverse, "reverse_owner_budget"))
  <2>1. PICK s : s = Check(found, t[1], full, opts.reverse, "reverse_owner_budget")
    OBVIOUS
  <2>2. \E reason \in {"duration_budget", "reverse_owner_budget"} : s = Stop(found, reason)
    BY <1>9, <2>1 DEF Check, Checked
  <2>3. /\ s \in FoundType /\ \A f \in Fns : s.depth[f] = 0
        /\ ~(s.stops \subseteq {"depth_budget"})
    <3>1. PICK reason \in {"duration_budget", "reverse_owner_budget"} : s = Stop(found, reason)
      BY <2>2
    <3>2. reason \in StopReasons \ {"depth_budget"}
      BY DEF StopReasons
    <3>3. s \in FoundType /\ s.depth = found.depth
      BY <1>1, <3>1, <3>2, StopIs
    <3>4. ~(s.stops \subseteq {"depth_budget"})
      BY <1>1, <3>1, <3>2, StoppedHere
    <3>5. QED
      BY <1>1, <3>3, <3>4
  <2>4. phase' = "adjacent" /\ AdjacentInv'
    BY <1>1, <1>9, <2>1, <2>3, ToAdjacentSeeds
  <2>5. ReverseInv'
    BY <2>4 DEF ReverseInv
  <2>6. QED
    BY <1>1, <2>4, <2>5, FrontierPhases
<1>10. CASE queue' = Tail(queue) /\ UNCHANGED <<phase, found, at, visited>> /\ order = <<>>
  <2>1. from = {}
    BY <1>5, <1>10 DEF ToSet
  <2>2. at = 1
    BY <1>3, <1>4, <1>5, <1>10, <2>1, FS_EmptySet
  <2>3. AdjacentInv'
    BY <1>1, <1>10 DEF AdjacentInv
  <2>4. ReverseInv'
    <3>1. SUFFICES ASSUME Calm
                   PROVE  /\ Evenly(found) /\ found.owners = input.roots \cup visited
                          /\ visited \subseteq Up
                          /\ input.roots \cap graph.nodes \subseteq visited
                          /\ ToSet(queue') \subseteq visited
                          /\ \A f \in visited \ ToSet(queue') : CallersIn(graph, f) \subseteq visited
      <4>1. (Calm' <=> Calm) /\ (Evenly(found)' <=> Evenly(found)) /\ \A k \in 1..(at' - 1) : FALSE
        BY <1>10, <2>2 DEF Calm, Evenly
      <4>2. QED
        BY <1>1, <1>8, <1>10, <3>1, <4>1 DEF ReverseInv
    <3>2. QED
      BY <1>4, <1>6, <1>7, <1>10, <2>1, <3>1
  <2>5. QED
    BY <1>1, <1>10, <2>3, <2>4, FrontierPhases
<1>11. CASE /\ order # <<>>
            /\ found' = ScanCandidate(AddReverse(found, caller, t[2]), caller, t[3])
            /\ queue' = rest \o new
            /\ at' = IF at < Len(order) THEN at + 1 ELSE 1
            /\ visited' = visited \cup {caller}
            /\ UNCHANGED phase
  <2>1. at \in 1..Len(order)
    <3>1. Len(order) # 0
      BY <1>5, <1>11
    <3>2. QED
      BY <1>3, <1>4, <1>5, <3>1
  <2>2. caller \in from /\ caller \in Fns
    BY <1>5, <2>1 DEF ToSet, caller
  <2>3. /\ found.stops \subseteq found'.stops
        /\ found'.stops \subseteq {"depth_budget"} /\ Evenly(found) =>
               Evenly(found') /\ found'.owners = found.owners \cup {caller}
    BY <1>1, <1>11, <2>2, BothTaken
  <2>4. AdjacentInv'
    BY <1>1, <1>11 DEF AdjacentInv
  <2>5. /\ rest \in Seq(Fns) /\ new \in Seq(Fns)
        /\ rest = IF at < Len(order) THEN queue ELSE Tail(queue)
        /\ ToSet(new) = IF caller \in visited THEN {} ELSE {caller}
    BY <1>3, <1>7, <2>2 DEF rest, new, ToSet
  <2>6. ToSet(queue') = ToSet(rest) \cup ToSet(new)
    <3>1. PICK S, a, b : S = Fns /\ a = rest /\ b = new
      OBVIOUS
    <3>2. a \in Seq(S) /\ b \in Seq(S)
      BY <2>5, <3>1
    <3>3. ToSet(a \o b) = ToSet(a) \cup ToSet(b)
      BY <3>2, JoinedSet
    <3>4. QED
      BY <1>11, <3>1, <3>3
  <2>7. ReverseInv'
    <3>1. SUFFICES ASSUME Calm'
                   PROVE  /\ Evenly(found)' /\ found'.owners = input.roots \cup visited'
                          /\ visited' \subseteq Up
                          /\ input.roots \cap graph.nodes \subseteq visited'
                          /\ ToSet(queue') \subseteq visited'
                          /\ \A f \in visited' \ ToSet(queue') :
                                 CallersIn(graph, f) \subseteq visited'
                          /\ queue' # <<>> => \A k \in 1..(at' - 1) :
                                 Ascending(CallersIn(graph, Head(queue')))[k] \in visited'
      BY <1>1, <1>8, <1>11 DEF ReverseInv
    <3>2. Calm
      BY <2>3, <3>1 DEF Calm
    <3>3. Evenly(found') /\ found'.owners = found.owners \cup {caller}
      BY <1>6, <2>3, <3>1, <3>2 DEF Calm
    <3>4. Evenly(found)'
      BY <3>3 DEF Evenly
    <3>5. /\ found'.owners = input.roots \cup visited'
          /\ input.roots \cap graph.nodes \subseteq visited' /\ visited \subseteq visited'
      BY <1>6, <1>11, <3>2, <3>3
    <3>6. visited' \subseteq Up
      BY <1>4, <1>6, <1>7, <1>8, <1>11, <2>2, <3>2
    <3>7. ToSet(queue') \subseteq visited'
      BY <1>6, <1>7, <1>11, <2>5, <2>6, <3>2
    <3>8. \A k \in 1..at : order[k] \in visited'
      <4>1. \A k \in 1..at : k \in 1..(at - 1) \/ k = at
        BY <2>1
      <4>2. QED
        BY <1>6, <1>11, <3>2, <4>1 DEF caller
    <3>9. ASSUME NEW f \in visited', f \notin ToSet(queue')
          PROVE  CallersIn(graph, f) \subseteq visited'
      <4>1. f \in visited /\ f \notin ToSet(rest)
        BY <1>11, <2>5, <2>6, <3>9
      <4>2. CASE f \notin ToSet(queue)
        BY <1>6, <3>2, <3>5, <4>1, <4>2
      <4>3. CASE f \in ToSet(queue)
        <5>1. f = Head(queue) /\ ~(at < Len(order))
          BY <1>7, <2>5, <4>1, <4>3
        <5>2. at = Len(order)
          BY <2>1, <5>1
        <5>3. \A x \in from : \E k \in 1..at : x = order[k]
          BY <1>5, <5>2 DEF ToSet
        <5>4. QED
          BY <1>4, <3>8, <5>1, <5>3
      <4>4. QED
        BY <4>2, <4>3
    <3>10. ASSUME queue' # <<>>, NEW k \in 1..(at' - 1)
           PROVE  Ascending(CallersIn(graph, Head(queue')))[k] \in visited'
      <4>1. at < Len(order)
        BY <1>11, <3>10
      <4>2. at' - 1 = at
        BY <1>11, <2>1, <4>1
      <4>3. queue' = queue \o new
        BY <1>11, <2>5, <4>1
      <4>4. Head(queue') = Head(queue)
        BY <1>1, <1>3, <2>5, <4>3
      <4>5. QED
        BY <3>8, <3>10, <4>2, <4>4 DEF order
    <3>11. QED
      BY <3>4, <3>5, <3>6, <3>7, <3>9, <3>10
  <2>8. QED
    BY <1>1, <1>11, <2>4, <2>7, FrontierPhases
<1>12. QED
  BY <1>2, <1>9, <1>10, <1>11

LEMMA FrontierReversedSeeds ==
    ASSUME TypeInv, FrontLimits, SeedInv, FrontierReversed
    PROVE  SeedInv'
<1>1. /\ UNCHANGED <<input, graph, callers, why, diags>> /\ phase = "callers" /\ queue = <<>>
      /\ input \in Inputs /\ GraphOK /\ found \in FoundType /\ ToAdjacent(found)
      /\ TraceInv /\ \A f \in Fns : found.depth[f] = 0
  BY DEF FrontierReversed, FrontierUnchanged, TypeInv, FoundOK, FrontLimits, SeedInv
<1>2. ASSUME Calm
      PROVE  Evenly(found) /\ found.owners = Up
  <2>1. /\ Evenly(found) /\ found.owners = input.roots \cup visited /\ visited \subseteq Up
        /\ input.roots \cap graph.nodes \subseteq visited
        /\ \A f \in visited \ ToSet(queue) : CallersIn(graph, f) \subseteq visited
    BY <1>1, <1>2 DEF SeedInv, ReverseInv
  <2>2. ToSet(queue) = {}
    BY <1>1 DEF ToSet
  <2>3. PICK V : V = found.owners
    OBVIOUS
  <2>4. ASSUME NEW f \in V
        PROVE  CallersIn(graph, f) \subseteq V
    <3>1. CASE f \in visited
      BY <2>1, <2>2, <2>3, <3>1
    <3>2. CASE f \notin visited
      <4>1. f \notin graph.nodes
        BY <2>1, <2>3, <2>4, <3>2
      <4>2. QED
        BY <1>1, <4>1, NoCallers
    <3>3. QED
      BY <3>1, <3>2
  <2>5. Up \subseteq V /\ input.roots \subseteq Up
    BY <1>1, <2>1, <2>3, <2>4, UpwardIs
  <2>6. QED
    BY <2>1, <2>3, <2>5
<1>3. phase' = "adjacent" /\ AdjacentInv'
  BY <1>1, <1>2, ToAdjacentSeeds DEF Calm
<1>4. ReverseInv'
  BY <1>3 DEF ReverseInv
<1>5. QED
  BY <1>1, <1>3, <1>4, FrontierPhases

\* The adjacent part after a step, by what the step leaves in found.
LEMMA NextTo ==
    ASSUME UNCHANGED <<input, graph>>
    PROVE  /\ Up' = Up /\ Reach' = Reach
           /\ \A f : Lies(f)' <=> /\ found'.depth[f] <= Reach
                                  /\ f \in Around(Up, found'.depth[f])
           /\ \A f, s : s = AdjacentIn(graph, f) =>
                  (Left(f)' <=> \/ found'.depth[f] >= Reach
                                \/ \A g \in s : /\ g \in found'.owners
                                                /\ found'.depth[g] <= found'.depth[f] + 1)
           /\ \A f, o : o = Ascending(AdjacentIn(graph, f)) =>
                  (Leaving(f)' <=> \A k \in 1..(at' - 1) :
                                       /\ o[k] \in found'.owners
                                       /\ found'.depth[o[k]] <= found'.depth[f] + 1)
<1>1. /\ Up' = Up /\ Reach' = Reach /\ \A f : AdjacentIn(graph, f)' = AdjacentIn(graph, f)
      /\ \A S, n : Around(S, n)' = Around(S, n)
  BY SameGraph
<1>2. \A f : Lies(f)' <=> found'.depth[f] <= Reach /\ f \in Around(Up, found'.depth[f])
  BY <1>1 DEF Lies
<1>3. \A f, s : s = AdjacentIn(graph, f) =>
          (Left(f)' <=> \/ found'.depth[f] >= Reach
                        \/ \A g \in s : /\ g \in found'.owners
                                        /\ found'.depth[g] <= found'.depth[f] + 1)
  BY <1>1 DEF Left, Leads
<1>4. \A f, o : o = Ascending(AdjacentIn(graph, f)) =>
          (Leaving(f)' <=> \A k \in 1..(at' - 1) :
                               /\ o[k] \in found'.owners
                               /\ found'.depth[o[k]] <= found'.depth[f] + 1)
  BY <1>1 DEF Leaving, Leads
<1>5. QED
  BY <1>1, <1>2, <1>3, <1>4

\* The item at the head is dropped.
LEMMA DroppedSeeds ==
    ASSUME TypeInv, FrontLimits, AdjacentInv, phase = "adjacent", queue # <<>>,
           UNCHANGED <<input, graph>>, NEW owner, owner = Head(queue),
           DropAdjacent(owner, found.depth[owner]),
           queue' = Tail(queue), at' = at, visited' = visited \cup {owner},
           found' = found \/ found' = Stop(found, "depth_budget"), Calm'
    PROVE  LaidOut' /\ Levelled' /\ Spread'
<1>1. /\ found'.owners = found.owners /\ found'.candidates = found.candidates
      /\ found'.adjacent = found.adjacent /\ found'.depth = found.depth
      /\ found.stops \subseteq found'.stops /\ found \in FoundType
      /\ found.depth \in [Fns -> Nat] /\ found.owners \subseteq Fns
  BY DEF Stop, FoundType, TypeInv, FoundOK
<1>2. LaidOut /\ Levelled /\ Spread
  BY <1>1 DEF AdjacentInv, Calm
<1>3. /\ at \in Nat \ {0} /\ queue \in Seq(found.owners)
      /\ at # 1 => /\ found.depth[owner] < opts.reach
                   /\ at <= Cardinality(AdjacentIn(graph, owner))
  BY DEF TypeInv, PlaceOK
<1>4. /\ owner \in found.owners /\ owner \in Fns /\ owner = queue[1] /\ queue \in Seq(Fns)
      /\ found.depth[owner] \in Nat
  BY <1>1, <1>3
<1>5. opts.reach \in Nat /\ Reach \in Nat /\ Reach <= opts.reach /\ input \in Inputs /\ GraphOK
  BY LimitsAre DEF TypeInv, Reach
<1>6. at = 1
  <2>1. CASE owner \in visited /\ at = 1
    BY <2>1
  <2>2. CASE found.depth[owner] >= opts.reach
    BY <1>3, <1>4, <1>5, <2>2
  <2>3. CASE AdjacentIn(graph, owner) = {}
    <3>1. Cardinality(AdjacentIn(graph, owner)) = 0
      BY <2>3, FS_EmptySet
    <3>2. QED
      BY <1>3, <3>1
  <2>4. QED
    BY <2>1, <2>2, <2>3 DEF DropAdjacent
<1>7. /\ Up' = Up /\ Reach' = Reach /\ \A f : Lies(f)' <=> Lies(f)
      /\ \A f : Left(f)' <=> Left(f)
  BY <1>1, NextTo DEF Lies, Left, Leads
<1>8. LaidOut'
  BY <1>1, <1>2, <1>4, <1>7 DEF LaidOut
<1>9. /\ Tail(queue) \in Seq(found.owners) /\ Head(queue) \in ToSet(queue)
      /\ \A x \in ToSet(queue) : x = Head(queue) \/ x \in ToSet(Tail(queue))
  <2>1. PICK S, q : S = found.owners /\ q = queue
    OBVIOUS
  <2>2. q \in Seq(S) /\ q # <<>>
    BY <1>3, <2>1
  <2>3. /\ Tail(q) \in Seq(S) /\ Head(q) \in ToSet(q)
        /\ \A x \in ToSet(q) : x = Head(q) \/ x \in ToSet(Tail(q))
    BY <2>2, TakenFrom
  <2>4. QED
    BY <2>1, <2>3
<1>10. Levelled'
  <2>1. ASSUME queue' # <<>>, NEW f \in found.owners
        PROVE  found.depth[f] <= found.depth[Head(queue')] + 1
    <3>1. ByDepth(queue, found.depth)
      BY DEF FrontLimits
    <3>2. \A i \in 1..Len(Tail(queue)) : found.depth[owner] <= found.depth[Tail(queue)[i]]
      BY <1>1, <1>4, <3>1, TailByDepth
    <3>3. 1 \in 1..Len(Tail(queue)) /\ Head(queue') = Tail(queue)[1] /\ Head(queue') \in Fns
      BY <1>1, <1>9, <2>1
    <3>4. found.depth[owner] <= found.depth[Head(queue')]
      BY <3>2, <3>3
    <3>5. found.depth[f] <= found.depth[owner] + 1
      BY <1>2, <2>1 DEF Levelled
    <3>6. found.depth[f] \in Nat /\ found.depth[Head(queue')] \in Nat
      BY <1>1, <3>3
    <3>7. PICK a, b, c : /\ a = found.depth[f] /\ b = found.depth[owner]
                         /\ c = found.depth[Head(queue')]
      OBVIOUS
    <3>8. a \in Nat /\ b \in Nat /\ c \in Nat /\ b <= c /\ a <= b + 1
      BY <1>4, <3>4, <3>5, <3>6, <3>7
    <3>9. a <= c + 1
      BY <3>8
    <3>10. QED
      BY <3>7, <3>9
  <2>2. QED
    BY <1>1, <1>6, <2>1 DEF Levelled
<1>11. Reach # 0
  BY <1>2 DEF Spread
<1>12. \A f \in found.owners : f \in visited' \/ f \in ToSet(queue')
  BY <1>2, <1>9, <1>11 DEF Spread
<1>13. ASSUME NEW f \in visited'
       PROVE  Left(f)
  <2>1. CASE f \in visited
    BY <1>2, <1>6, <1>11, <2>1 DEF Spread
  <2>2. CASE f \notin visited
    <3>1. f = owner /\ (found.depth[owner] >= opts.reach \/ AdjacentIn(graph, owner) = {})
      BY <1>13, <2>2 DEF DropAdjacent
    <3>2. QED
      BY <1>4, <1>5, <3>1 DEF Left
  <2>3. QED
    BY <2>1, <2>2
<1>14. Spread'
  BY <1>1, <1>6, <1>7, <1>11, <1>12, <1>13 DEF Spread
<1>15. QED
  BY <1>8, <1>10, <1>14

(* A queue of one: its head is the owner appended to an empty one. *)
LEMMA AloneAtHead ==
  ASSUME NEW S, NEW r \in Seq(S), NEW x \in S, r = <<>>
  PROVE  Append(r, x) # <<>> /\ Head(Append(r, x)) = x
<1>1. Len(r) = 0
  OBVIOUS
<1>2. /\ Append(r, x) \in Seq(S) /\ Len(Append(r, x)) = Len(r) + 1
      /\ Append(r, x)[Len(r) + 1] = x
  OBVIOUS
<1>3. PICK q : q = Append(r, x)
  OBVIOUS
<1>4. q \in Seq(S) /\ Len(q) = 1 /\ q[1] = x
  BY <1>1, <1>2, <1>3
<1>5. q # <<>>
  <2>1. PICK e : e = <<>> /\ Len(e) = 0
    OBVIOUS
  <2>2. QED
    BY <1>4, <2>1
<1>6. Head(q) = q[1]
  BY <1>4, <1>5
<1>7. QED
  BY <1>3, <1>4, <1>5, <1>6

\* The next neighbour of the head is taken.
Moving(owner, depth, order, next, new, rest) ==
    /\ owner = Head(queue) /\ depth = found.depth[owner] /\ ~DropAdjacent(owner, depth)
    /\ order = Ascending(AdjacentIn(graph, owner)) /\ next = order[at]
    /\ new = {next} \ found.owners /\ rest = IF at < Len(order) THEN queue ELSE Tail(queue)
    /\ found'.owners = found.owners \cup {next}
    /\ found'.candidates = found.candidates \cup {next}
    /\ found'.adjacent = found.adjacent \cup new
    /\ \A f \in Fns : found'.depth[f] = IF f \in new THEN depth + 1 ELSE found.depth[f]
    /\ queue' = IF new = {} THEN rest ELSE Append(rest, next)
    /\ at' = IF at < Len(order) THEN at + 1 ELSE 1
    /\ visited' = visited \cup {owner}

LEMMA MovedSeeds ==
    ASSUME TypeInv, FrontLimits, AdjacentInv, Calm, phase = "adjacent", queue # <<>>,
           UNCHANGED <<input, graph>>, NEW owner, NEW depth, NEW order, NEW next, NEW new,
           NEW rest, Moving(owner, depth, order, next, new, rest)
    PROVE  LaidOut' /\ Levelled' /\ Spread'
<1>23. /\ owner = Head(queue) /\ depth = found.depth[owner] /\ ~DropAdjacent(owner, depth)
       /\ order = Ascending(AdjacentIn(graph, owner)) /\ next = order[at]
       /\ new = {next} \ found.owners
       /\ rest = IF at < Len(order) THEN queue ELSE Tail(queue)
       /\ found'.owners = found.owners \cup {next}
       /\ found'.candidates = found.candidates \cup {next}
       /\ found'.adjacent = found.adjacent \cup new
       /\ \A f \in Fns : found'.depth[f] = IF f \in new THEN depth + 1 ELSE found.depth[f]
       /\ queue' = IF new = {} THEN rest ELSE Append(rest, next)
       /\ at' = IF at < Len(order) THEN at + 1 ELSE 1
       /\ visited' = visited \cup {owner}
  BY DEF Moving
<1> USE <1>23
<1>1. /\ found \in FoundType /\ found.depth \in [Fns -> Nat] /\ found.owners \subseteq Fns
      /\ input \in Inputs /\ GraphOK
  BY DEF FoundType, TypeInv, FoundOK
<1>2. LaidOut /\ Levelled /\ Spread
  BY <1>1 DEF AdjacentInv, Calm
<1>3. /\ at \in Nat \ {0} /\ queue \in Seq(found.owners)
      /\ at # 1 => at <= Cardinality(AdjacentIn(graph, owner))
  BY DEF TypeInv, PlaceOK
<1>4. /\ owner \in found.owners /\ owner \in Fns /\ owner = queue[1] /\ queue \in Seq(Fns)
      /\ depth \in Nat
  BY <1>1, <1>3
<1>5. PICK next2 : next2 = AdjacentIn(graph, owner)
  OBVIOUS
<1>6. /\ next2 \subseteq Fns /\ order \in Seq(Fns) /\ Len(order) = Cardinality(next2)
      /\ Len(order) \in Nat /\ ToSet(order) = next2
  BY <1>1, <1>4, <1>5, NeighboursIn, FnsListed
<1>7. Reach \in Nat /\ Reach # 0 /\ Reach = opts.reach /\ Up' = Up /\ Reach' = Reach
  <2>1. opts.reach \in Nat
    BY <1>1, LimitsAre
  <2>2. Reach # 0
    BY <1>2 DEF Spread
  <2>3. QED
    BY <2>1, <2>2, NextTo DEF Reach
<1>8. depth < Reach /\ next2 # {} /\ (owner \in visited => at # 1)
  BY <1>4, <1>5, <1>7 DEF DropAdjacent
<1>9. at \in 1..Len(order)
  <2>1. Len(order) # 0
    BY <1>6, <1>8 DEF ToSet
  <2>2. QED
    BY <1>3, <1>5, <1>6, <2>1
<1>10. next \in next2 /\ next \in Fns
  BY <1>6, <1>9 DEF ToSet
<1>11. /\ \A f \in found.owners : found'.depth[f] = found.depth[f] /\ found.depth[f] \in Nat
       /\ \A f \in found.owners : found.depth[f] <= depth + 1
       /\ new # {} => next \notin found.owners /\ found'.depth[next] = depth + 1
       /\ found'.depth[next] <= depth + 1 /\ found'.depth[next] \in Nat
  <2>1. \A f \in found.owners : found'.depth[f] = found.depth[f] /\ found.depth[f] \in Nat
    BY <1>1
  <2>2. \A f \in found.owners : found.depth[f] <= depth + 1
    BY <1>2 DEF Levelled
  <2>3. CASE next \in found.owners
    BY <2>1, <2>2, <2>3
  <2>4. CASE next \notin found.owners
    BY <1>4, <1>10, <2>1, <2>2, <2>4
  <2>5. QED
    BY <2>3, <2>4, <2>1, <2>2
<1>12. LaidOut'
  <2>1. found'.candidates = found'.owners /\ visited' \subseteq found'.owners
    BY <1>2, <1>4 DEF LaidOut
  <2>2. found'.owners \ found'.adjacent = Up
    BY <1>2 DEF LaidOut
  <2>3. \A f \in Up : found'.depth[f] = 0
    BY <1>2, <1>11 DEF LaidOut
  <2>4. ASSUME NEW f \in found'.owners
        PROVE  found'.depth[f] <= Reach /\ f \in Around(Up, found'.depth[f])
    <3>1. CASE f \in found.owners
      BY <1>2, <1>11, <3>1 DEF LaidOut, Lies
    <3>2. CASE f \notin found.owners
      <4>1. f = next /\ found'.depth[f] = depth + 1
        BY <1>11, <3>2
      <4>2. depth + 1 <= Reach
        BY <1>4, <1>7, <1>8
      <4>3. owner \in Around(Up, depth)
        BY <1>2, <1>4 DEF LaidOut, Lies
      <4>4. next \in Around(Up, depth + 1)
        <5>1. Up \subseteq Fns
          BY <1>1, UpwardIs
        <5>2. AdjacentIn(graph, owner) \subseteq Around(Up, depth + 1)
          BY <1>1, <1>4, <4>3, <5>1, AroundIs
        <5>3. QED
          BY <1>5, <1>10, <5>2
      <4>5. QED
        BY <4>1, <4>2, <4>4
    <3>3. QED
      BY <3>1, <3>2
  <2>5. \A f \in found'.owners : Lies(f)'
    BY <2>4, NextTo
  <2>6. QED
    BY <1>7, <2>1, <2>2, <2>3, <2>5 DEF LaidOut
<1>13. /\ Tail(queue) \in Seq(found.owners) /\ Head(queue) \in ToSet(queue)
       /\ \A x \in ToSet(queue) : x = Head(queue) \/ x \in ToSet(Tail(queue))
  <2>1. PICK S, q : S = found.owners /\ q = queue
    OBVIOUS
  <2>2. q \in Seq(S) /\ q # <<>>
    BY <1>3, <2>1
  <2>3. /\ Tail(q) \in Seq(S) /\ Head(q) \in ToSet(q)
        /\ \A x \in ToSet(q) : x = Head(q) \/ x \in ToSet(Tail(q))
    BY <2>2, TakenFrom
  <2>4. QED
    BY <2>1, <2>3
<1>14. /\ rest \in Seq(found.owners) /\ rest \in Seq(Fns)
       /\ \A x \in ToSet(queue) : x = owner \/ x \in ToSet(rest)
       /\ at < Len(order) => rest = queue
  <2>1. rest \in Seq(found.owners)
    BY <1>3, <1>13
  <2>2. QED
    BY <1>1, <1>13, <2>1
<1>15. /\ \A x \in ToSet(rest) : x \in ToSet(queue')
       /\ new # {} => next \in ToSet(queue')
  <2>1. CASE new = {}
    BY <2>1
  <2>2. CASE new # {}
    <3>1. /\ queue' = Append(rest, next) /\ Len(queue') = Len(rest) + 1 /\ Len(rest) \in Nat
          /\ queue'[Len(rest) + 1] = next /\ \A i \in 1..Len(rest) : queue'[i] = rest[i]
      BY <1>14, <2>2
    <3>2. DOMAIN queue' = 1..(Len(rest) + 1) /\ DOMAIN rest = 1..Len(rest)
      BY <1>14, <3>1
    <3>3. next \in ToSet(queue')
      BY <3>1, <3>2 DEF ToSet
    <3>4. \A x \in ToSet(rest) : x \in ToSet(queue')
      BY <3>1, <3>2 DEF ToSet
    <3>5. QED
      BY <3>3, <3>4
  <2>3. QED
    BY <2>1, <2>2
<1>16. /\ at < Len(order) => queue' # <<>> /\ Head(queue') = owner
       /\ rest # <<>> => queue' # <<>> /\ Head(queue') = Head(rest)
       /\ rest = <<>> /\ queue' # <<>> => new # {} /\ Head(queue') = next
  <2>1. at < Len(order) => rest # <<>> /\ Head(rest) = owner
    BY <1>14
  <2>2. rest # <<>> => queue' # <<>> /\ Head(queue') = Head(rest)
    BY <1>14
  <2>3. ASSUME rest = <<>>, queue' # <<>>
        PROVE  new # {} /\ Head(queue') = next
    <3>1. new # {}
      BY <2>3
    <3>2. rest \in Seq(Fns) /\ next \in Fns
      BY <1>10, <1>14
    <3>3. Head(Append(rest, next)) = next
      <4>1. PICK r, x, S : r = rest /\ x = next /\ S = Fns
        OBVIOUS
      <4>2. r \in Seq(S) /\ x \in S /\ r = <<>>
        BY <2>3, <3>2, <4>1
      <4>3. Head(Append(r, x)) = x
        BY <4>2, AloneAtHead
      <4>4. QED
        BY <4>1, <4>3
    <3>4. queue' = Append(rest, next)
      BY <3>1
    <3>5. QED
      BY <3>1, <3>3, <3>4
  <2>4. QED
    BY <2>1, <2>2, <2>3
<1>17. Levelled'
  <2>1. PICK h, d : h = Head(queue') /\ d = found'.depth
    OBVIOUS
  <2>2. ASSUME queue' # <<>>
        PROVE  depth <= d[h] /\ d[h] \in Nat
    <3>1. CASE rest = <<>>
      <4>1. h = next /\ d[next] = depth + 1
        BY <1>11, <1>16, <2>1, <2>2, <3>1
      <4>2. QED
        BY <1>4, <4>1
    <3>2. CASE rest = queue
      <4>1. h = owner
        BY <1>16, <2>1, <3>2
      <4>2. d[owner] = depth
        BY <1>4, <1>11, <2>1
      <4>3. QED
        BY <1>4, <4>1, <4>2
    <3>3. CASE rest # <<>> /\ rest = Tail(queue)
      <4>1. ByDepth(queue, found.depth)
        BY DEF FrontLimits
      <4>2. \A i \in 1..Len(Tail(queue)) : depth <= found.depth[Tail(queue)[i]]
        BY <1>1, <1>4, <4>1, TailByDepth
      <4>3. 1 \in 1..Len(Tail(queue)) /\ h = Tail(queue)[1] /\ h \in found.owners
        BY <1>13, <1>16, <2>1, <3>3
      <4>4. depth <= found.depth[h] /\ d[h] = found.depth[h] /\ found.depth[h] \in Nat
        BY <1>11, <2>1, <4>2, <4>3
      <4>5. QED
        BY <4>4
    <3>4. QED
      BY <3>1, <3>2, <3>3
  <2>3. ASSUME queue' # <<>>, NEW f \in found'.owners
        PROVE  found'.depth[f] <= found'.depth[Head(queue')] + 1
    <3>1. PICK a, b : a = d[f] /\ b = d[h]
      OBVIOUS
    <3>2. f \in found.owners \/ f = next
      BY <2>3
    <3>3. a \in Nat /\ a <= depth + 1
      BY <1>11, <2>1, <3>1, <3>2
    <3>4. b \in Nat /\ depth <= b
      BY <2>2, <2>3, <3>1
    <3>5. a <= b + 1
      BY <1>4, <3>3, <3>4
    <3>6. QED
      BY <2>1, <3>1, <3>5
  <2>4. at' = 1 \/ (queue' # <<>> /\ Head(queue') \in visited')
    BY <1>16
  <2>5. QED
    BY <2>3, <2>4 DEF Levelled
<1>18. \A f \in found'.owners : f \in visited' \/ f \in ToSet(queue')
  <2>1. ASSUME NEW f \in found'.owners
        PROVE  f \in visited' \/ f \in ToSet(queue')
    <3>1. CASE f \in found.owners
      <4>1. f \in visited \/ f \in ToSet(queue)
        BY <1>2, <1>7, <3>1 DEF Spread
      <4>2. QED
        BY <1>14, <1>15, <4>1
    <3>2. CASE f \notin found.owners
      <4>1. f = next /\ new # {}
        BY <2>1, <3>2
      <4>2. QED
        BY <1>15, <4>1
    <3>3. QED
      BY <3>1, <3>2
  <2>2. QED
    BY <2>1
<1>19. \A k \in 1..at : /\ order[k] \in found'.owners
                        /\ found'.depth[order[k]] <= found'.depth[owner] + 1
  <2>1. found'.depth[owner] = depth
    BY <1>4, <1>11
  <2>2. SUFFICES ASSUME NEW k \in 1..at
                 PROVE  /\ order[k] \in found'.owners
                        /\ found'.depth[order[k]] <= depth + 1
    BY <2>1
  <2>3. CASE k = at
    BY <1>11, <2>3
  <2>4. CASE k # at
    <3>1. k \in 1..(at - 1) /\ at > 1
      BY <1>9, <2>2, <2>4
    <3>2. owner \in visited
      BY <1>2, <3>1 DEF Levelled
    <3>3. Leaving(owner)
      BY <1>2, <1>7, <3>1, <3>2 DEF Spread
    <3>4. order[k] \in found.owners /\ found.depth[order[k]] <= depth + 1
      BY <3>1, <3>3 DEF Leaving, Leads
    <3>5. QED
      BY <1>11, <3>4
  <2>5. QED
    BY <2>3, <2>4
<1>20. ASSUME NEW f \in visited'
       PROVE  IF at' > 1 /\ f = Head(queue') THEN Leaving(f)' ELSE Left(f)'
  <2>1. CASE f = owner /\ at < Len(order)
    <3>1. at' > 1 /\ f = Head(queue') /\ at' - 1 = at
      BY <1>9, <1>16, <2>1
    <3>2. Leaving(f)'
      BY <1>19, <2>1, <3>1, NextTo
    <3>3. QED
      BY <3>1, <3>2
  <2>2. CASE f = owner /\ ~(at < Len(order))
    <3>1. ~(at' > 1) /\ at = Len(order)
      BY <1>9, <2>2
    <3>2. \A g \in next2 : \E k \in 1..at : g = order[k]
      BY <1>6, <3>1 DEF ToSet
    <3>3. \A g \in next2 : /\ g \in found'.owners /\ found'.depth[g] <= found'.depth[owner] + 1
      BY <1>19, <3>2
    <3>4. Left(f)'
      BY <1>5, <2>2, <3>3, NextTo
    <3>5. QED
      BY <3>1, <3>4
  <2>3. CASE f # owner
    <3>1. f \in visited /\ f \in found.owners
      BY <1>2, <1>20, <2>3 DEF LaidOut
    <3>2. Left(f)
      BY <1>2, <1>7, <2>3, <3>1 DEF Spread
    <3>3. PICK s : s = AdjacentIn(graph, f)
      OBVIOUS
    <3>4. \/ found.depth[f] >= Reach
          \/ \A g \in s : g \in found.owners /\ found.depth[g] <= found.depth[f] + 1
      BY <3>2, <3>3 DEF Left, Leads
    <3>5. \/ found'.depth[f] >= Reach
          \/ \A g \in s : g \in found'.owners /\ found'.depth[g] <= found'.depth[f] + 1
      BY <1>11, <3>1, <3>4
    <3>6. Left(f)'
      BY <3>3, <3>5, NextTo
    <3>7. ~(at' > 1 /\ f = Head(queue'))
      BY <1>16, <2>3
    <3>8. QED
      BY <3>6, <3>7
  <2>4. QED
    BY <2>1, <2>2, <2>3
<1>21. Spread'
  BY <1>7, <1>18, <1>20 DEF Spread
<1>22. QED
  BY <1>12, <1>17, <1>21

LEMMA AdjacentOwnerSeeds ==
    ASSUME TypeInv, FrontLimits, SeedInv, AdjacentOwner
    PROVE  SeedInv'
<1> DEFINE owner == Head(queue)
           depth == found.depth[owner]
           order == Ascending(AdjacentIn(graph, owner))
           full == Cardinality(found.adjacent)
           next == order[at]
           rest == IF at < Len(order) THEN queue ELSE Tail(queue)
           Deeper(s, new) == [s EXCEPT !.depth = [f \in Fns |-> IF f \in new THEN depth + 1
                                                                ELSE found.depth[f]]]
<1>1. /\ UNCHANGED <<input, graph, callers, why, diags, phase>> /\ phase = "adjacent"
      /\ queue # <<>> /\ input \in Inputs /\ GraphOK /\ AdjacentInv
      /\ found \in FoundType /\ found.owners \subseteq Fns /\ found.depth \in [Fns -> Nat]
  BY DEF AdjacentOwner, FrontierUnchanged, TypeInv, SeedInv, FoundOK, FoundType
<1>2. PICK t \in Ticks(3, opts.clock) :
         \/ /\ ~Checked(t[1], full, opts.adjacent)
            /\ found' = Check(found, t[1], full, opts.adjacent, "adjacent_owner_budget")
         \/ /\ DropAdjacent(owner, depth)
            /\ queue' = Tail(queue) /\ at' = at /\ visited' = visited \cup {owner}
            /\ found' = found \/ found' = Stop(found, "depth_budget")
         \/ /\ ~DropAdjacent(owner, depth) /\ visited' = visited \cup {owner}
            /\ at' = IF at < Len(order) THEN at + 1 ELSE 1
            /\ \E added, new :
                  /\ added = AddAdjacent(found, next, t[2])
                  /\ new = added.owners \ found.owners
                  /\ found' = Deeper(IF next \in added.owners
                                     THEN ScanCandidate(added, next, t[3])
                                     ELSE added, new)
                  /\ queue' = IF new = {} THEN rest ELSE Append(rest, next)
  <2>1. PICK t \in Ticks(3, opts.clock) :
           /\ late' = t[3]
           /\ IF ~Checked(t[1], full, opts.adjacent)
              THEN /\ found' = Check(found, t[1], full, opts.adjacent,
                                     "adjacent_owner_budget")
                   /\ queue' = <<>> /\ UNCHANGED <<at, visited>>
              ELSE /\ visited' = visited \cup {owner}
                   /\ IF DropAdjacent(owner, depth)
                      THEN /\ queue' = Tail(queue) /\ UNCHANGED at
                           /\ found' = IF owner \notin visited /\ depth >= opts.reach
                                          /\ ~(ToSet(order) \subseteq found.owners)
                                       THEN Stop(found, "depth_budget") ELSE found
                      ELSE LET added == AddAdjacent(found, next, t[2])
                               new == added.owners \ found.owners
                           IN  /\ found' = Deeper(IF next \in added.owners
                                                  THEN ScanCandidate(added, next, t[3])
                                                  ELSE added, new)
                               /\ queue' = IF new = {} THEN rest ELSE Append(rest, next)
                               /\ at' = IF at < Len(order) THEN at + 1 ELSE 1
    BY DEF AdjacentOwner
  <2> HIDE DEF owner, depth, order, next, rest, Deeper, full
  <2>2. QED
    BY <2>1
<1>3. /\ at \in Nat \ {0} /\ queue \in Seq(found.owners)
      /\ at # 1 => at <= Cardinality(AdjacentIn(graph, owner))
  BY <1>1 DEF TypeInv, PlaceOK
<1>4. owner \in found.owners /\ owner \in Fns /\ depth \in Nat
  BY <1>1, <1>3
<1>5. /\ order \in Seq(Fns) /\ Len(order) = Cardinality(AdjacentIn(graph, owner))
      /\ Len(order) \in Nat /\ ToSet(order) = AdjacentIn(graph, owner)
      /\ AdjacentIn(graph, owner) \subseteq Fns
  BY <1>1, <1>4, NeighboursIn, FnsListed
<1>6. AdjacentIn(graph, owner) # {} => next \in Fns
  <2>1. SUFFICES ASSUME AdjacentIn(graph, owner) # {}
                 PROVE  next \in Fns
    OBVIOUS
  <2>2. Len(order) # 0
    BY <1>5, <2>1 DEF ToSet
  <2>3. at \in 1..Len(order)
    BY <1>3, <1>5, <2>2
  <2>4. QED
    BY <1>5, <2>3
<1>7. \A o, d, p, q, s :
          (o = owner /\ d = depth /\ p = order /\ q = next /\ s = rest) =>
          /\ o = Head(queue) /\ d = found.depth[o] /\ p = Ascending(AdjacentIn(graph, o))
          /\ q = p[at] /\ s = IF at < Len(p) THEN queue ELSE Tail(queue)
  OBVIOUS
<1> HIDE DEF owner, depth, order, next, rest, Deeper, full
<1>8. CASE /\ ~Checked(t[1], full, opts.adjacent)
           /\ found' = Check(found, t[1], full, opts.adjacent, "adjacent_owner_budget")
  <2>1. \E reason \in {"duration_budget", "adjacent_owner_budget"} : found' = Stop(found, reason)
    BY <1>8 DEF Check, Checked
  <2>2. PICK reason \in {"duration_budget", "adjacent_owner_budget"} :
           found' = Stop(found, reason)
    BY <2>1
  <2>3. reason \in StopReasons \ {"depth_budget"}
    BY DEF StopReasons
  <2>4. ~(found'.stops \subseteq {"depth_budget"})
    BY <1>1, <2>2, <2>3, StoppedHere
  <2>5. AdjacentInv'
    BY <2>4 DEF AdjacentInv, Calm
  <2>6. QED
    BY <1>1, <2>5, FrontierPhases DEF ReverseInv
<1>9. CASE /\ DropAdjacent(owner, depth)
           /\ queue' = Tail(queue) /\ at' = at /\ visited' = visited \cup {owner}
           /\ found' = found \/ found' = Stop(found, "depth_budget")
  <2>1. PICK o : o = owner
    OBVIOUS
  <2>2. o = Head(queue) /\ DropAdjacent(o, found.depth[o]) /\ visited' = visited \cup {o}
    BY <1>7, <1>9, <2>1
  <2>3. Calm' => LaidOut' /\ Levelled' /\ Spread'
    BY <1>1, <1>9, <2>2, DroppedSeeds
  <2>4. AdjacentInv'
    BY <2>3 DEF AdjacentInv
  <2>5. QED
    BY <1>1, <2>4, FrontierPhases DEF ReverseInv
<1>10. CASE /\ ~DropAdjacent(owner, depth) /\ visited' = visited \cup {owner}
            /\ at' = IF at < Len(order) THEN at + 1 ELSE 1
            /\ \E added, new :
                  /\ added = AddAdjacent(found, next, t[2])
                  /\ new = added.owners \ found.owners
                  /\ found' = Deeper(IF next \in added.owners
                                     THEN ScanCandidate(added, next, t[3])
                                     ELSE added, new)
                  /\ queue' = IF new = {} THEN rest ELSE Append(rest, next)
  <2>1. PICK added, new :
           /\ added = AddAdjacent(found, next, t[2])
           /\ new = added.owners \ found.owners
           /\ found' = Deeper(IF next \in added.owners THEN ScanCandidate(added, next, t[3])
                              ELSE added, new)
           /\ queue' = IF new = {} THEN rest ELSE Append(rest, next)
    BY <1>10
  <2>2. next \in Fns
    BY <1>6, <1>10 DEF DropAdjacent
  <2>3. PICK s : s = IF next \in added.owners THEN ScanCandidate(added, next, t[3]) ELSE added
    OBVIOUS
  <2>4. /\ added \in FoundType /\ added.depth = found.depth /\ found.stops \subseteq added.stops
        /\ added.stops \subseteq {"depth_budget"} =>
               /\ added.owners = found.owners \cup {next}
               /\ added.candidates = found.candidates
               /\ added.adjacent = found.adjacent \cup ({next} \ found.owners)
    <3>1. added = AddAdjacent(found, next, t[2]) /\ found \in FoundType
      BY <1>1, <2>1
    <3>2. QED
      BY <2>2, <3>1, AdjacentTaken
  <2>5. /\ s \in FoundType /\ s.depth = added.depth /\ added.stops \subseteq s.stops
        /\ (next \in added.owners /\ s.stops \subseteq {"depth_budget"}) =>
               /\ s.owners = added.owners /\ s.adjacent = added.adjacent
               /\ s.candidates = added.candidates \cup {next}
    <3>1. CASE next \in added.owners
      BY <2>2, <2>3, <2>4, <3>1, CandidateTaken
    <3>2. CASE next \notin added.owners
      BY <2>3, <2>4, <3>2
    <3>3. QED
      BY <3>1, <3>2
  <2>6. PICK d : d = [f \in Fns |-> IF f \in new THEN depth + 1 ELSE found.depth[f]]
    OBVIOUS
  <2>7. found' = [s EXCEPT !.depth = d]
    BY <2>1, <2>3, <2>6 DEF Deeper
  <2>8. /\ found'.owners = s.owners /\ found'.candidates = s.candidates
        /\ found'.adjacent = s.adjacent /\ found'.stops = s.stops /\ found'.depth = d
    BY <2>5, <2>7 DEF FoundType
  <2>9. Calm' => LaidOut' /\ Levelled' /\ Spread'
    <3>1. SUFFICES ASSUME Calm'
                   PROVE  LaidOut' /\ Levelled' /\ Spread'
      OBVIOUS
    <3>2. s.stops \subseteq {"depth_budget"} /\ added.stops \subseteq {"depth_budget"} /\ Calm
      BY <2>4, <2>5, <2>8, <3>1 DEF Calm
    <3>3. PICK o, b, p, q, r : /\ o = owner /\ b = depth /\ p = order /\ q = next /\ r = rest
      OBVIOUS
    <3>4. /\ o = Head(queue) /\ b = found.depth[o] /\ p = Ascending(AdjacentIn(graph, o))
          /\ q = p[at] /\ r = IF at < Len(p) THEN queue ELSE Tail(queue)
      BY <1>7, <3>3
    <3>5. /\ new = {q} \ found.owners /\ found'.owners = found.owners \cup {q}
          /\ found'.candidates = found.candidates \cup {q}
          /\ found'.adjacent = found.adjacent \cup new
      BY <2>1, <2>4, <2>5, <2>8, <3>2, <3>3
    <3>6. \A f \in Fns : found'.depth[f] = IF f \in new THEN b + 1 ELSE found.depth[f]
      BY <2>6, <2>8, <3>3
    <3>7. /\ ~DropAdjacent(o, b) /\ visited' = visited \cup {o}
          /\ at' = IF at < Len(p) THEN at + 1 ELSE 1
          /\ queue' = IF new = {} THEN r ELSE Append(r, q)
      BY <1>10, <2>1, <3>3
    <3>8. Moving(o, b, p, q, new, r)
      BY <3>4, <3>5, <3>6, <3>7 DEF Moving
    <3>9. QED
      BY <1>1, <3>2, <3>8, MovedSeeds
  <2>10. AdjacentInv'
    BY <2>9 DEF AdjacentInv
  <2>11. QED
    BY <1>1, <2>10, FrontierPhases DEF ReverseInv
<1>11. QED
  BY <1>2, <1>8, <1>9, <1>10

\* What has been left, to the depth of the search, is all that lies around.
LEMMA AroundMore ==
    ASSUME input \in Inputs, GraphOK, NEW S, S \subseteq Fns
    PROVE  \A m, n \in Nat : m <= n => Around(S, m) \subseteq Around(S, n)
<1>1. SUFFICES ASSUME NEW m \in Nat
               PROVE  \A n \in Nat : m <= n => Around(S, m) \subseteq Around(S, n)
  OBVIOUS
<1>2. PICK T : T = {k \in Nat : Around(S, m) \subseteq Around(S, m + k)}
  OBVIOUS
<1>3. 0 \in T
  <2>1. m + 0 = m
    OBVIOUS
  <2>2. Around(S, m) = Around(S, m + 0)
    BY <2>1
  <2>3. QED
    BY <1>2, <2>2
<1>4. ASSUME NEW k \in Nat, k \in T
      PROVE  k + 1 \in T
  <2>1. PICK j \in Nat : j = m + k /\ j + 1 = m + (k + 1)
    OBVIOUS
  <2>2. Around(S, j) \subseteq Around(S, j + 1)
    BY AroundIs
  <2>3. Around(S, m) \subseteq Around(S, j + 1)
    BY <1>2, <1>4, <2>1, <2>2
  <2>4. Around(S, m) \subseteq Around(S, m + (k + 1))
    BY <2>1, <2>3
  <2>5. QED
    BY <1>2, <2>4
<1>5. Nat \subseteq T
  BY <1>3, <1>4, Climbing
<1>6. ASSUME NEW n \in Nat, m <= n
      PROVE  Around(S, m) \subseteq Around(S, n)
  <2>1. PICK k \in Nat : n = m + k
    <3>1. n - m \in Nat /\ n = m + (n - m)
      BY <1>6
    <3>2. QED
      BY <3>1
  <2>2. Around(S, m) \subseteq Around(S, m + k)
    BY <1>2, <1>5
  <2>3. QED
    BY <2>1, <2>2
<1>7. QED
  BY <1>6

LEMMA NearOwners ==
    ASSUME TypeInv, LaidOut, Levelled, Spread, queue = <<>>
    PROVE  found.owners = Near /\ found.candidates = Near /\ found.owners \ found.adjacent = Up
<1>1. /\ input \in Inputs /\ GraphOK /\ found \in FoundType /\ found.depth \in [Fns -> Nat]
      /\ found.owners \subseteq Fns /\ Up \subseteq Fns /\ Reach \in Nat
  <2>1. input \in Inputs /\ GraphOK /\ found \in FoundType
    BY DEF TypeInv, FoundOK
  <2>2. opts.reach \in Nat
    BY <2>1, LimitsAre
  <2>3. QED
    BY <2>1, <2>2, UpwardIs DEF Reach, FoundType
<1>2. /\ at = 1 /\ found.candidates = found.owners /\ found.owners \ found.adjacent = Up
      /\ \A f \in Up : found.depth[f] = 0
      /\ \A f \in found.owners : Lies(f)
  BY DEF LaidOut, Levelled
<1>3. PICK A : A = [n \in Nat |-> Around(Up, n)]
  OBVIOUS
<1>4. /\ A[0] = Up
      /\ \A n \in Nat : \A g \in A[n + 1] : g \notin A[n] =>
             \E f \in A[n] : g \in AdjacentIn(graph, f)
  <2>1. PICK S : S = Up
    OBVIOUS
  <2>2. /\ Around(S, 0) = S
        /\ \A n \in Nat : \A g \in Around(S, n + 1) : g \notin Around(S, n) =>
               \E f \in Around(S, n) : g \in AdjacentIn(graph, f)
    <3>1. S \subseteq Fns
      BY <1>1, <2>1
    <3>2. /\ Around(S, 0) = S
          /\ \A n \in Nat :
                 /\ Around(S, n) \subseteq Fns /\ Around(S, n) \subseteq Around(S, n + 1)
                 /\ \A f \in Around(S, n) : AdjacentIn(graph, f) \subseteq Around(S, n + 1)
                 /\ \A g \in Around(S, n + 1) : g \notin Around(S, n) =>
                        \E f \in Around(S, n) : g \in AdjacentIn(graph, f)
      BY <1>1, <3>1, AroundIs, Zenon
    <3>3. QED
      BY <3>2, Zenon
  <2>3. \A n \in Nat : n + 1 \in Nat /\ A[n] = Around(S, n) /\ A[n + 1] = Around(S, n + 1)
    BY <1>3, <2>1
  <2>4. 0 \in Nat
    OBVIOUS
  <2>5. QED
    BY <2>1, <2>2, <2>3, <2>4
<1>5. found.owners \subseteq Near
  <2>1. ASSUME NEW f \in found.owners
        PROVE  f \in Near
    <3>1. PICK n : n = found.depth[f]
      OBVIOUS
    <3>2. n \in Nat /\ n <= Reach /\ f \in Around(Up, n)
      BY <1>1, <1>2, <3>1 DEF Lies
    <3>3. PICK S, r : S = Up /\ r = Reach
      OBVIOUS
    <3>4. Around(S, n) \subseteq Around(S, r)
      BY <1>1, <3>2, <3>3, AroundMore
    <3>5. QED
      BY <3>2, <3>3, <3>4 DEF Near
  <2>2. QED
    BY <2>1
<1>6. Near \subseteq found.owners
  <2>1. CASE Reach = 0
    <3>1. found.owners = Up
      BY <1>2, <2>1 DEF Spread
    <3>2. Near = A[0]
      BY <1>3, <2>1 DEF Near
    <3>3. QED
      BY <1>4, <3>1, <3>2
  <2>2. CASE Reach # 0
    <3>1. ToSet(queue) = {}
      BY DEF ToSet
    <3>2. \A f \in found.owners : Left(f)
      BY <1>2, <2>2, <3>1 DEF Spread
    <3>3. PICK T : T = {n \in Nat : n <= Reach =>
                           \A g \in A[n] : g \in found.owners /\ found.depth[g] <= n}
      OBVIOUS
    <3>4. 0 \in T
      <4>1. \A g \in A[0] : g \in found.owners /\ found.depth[g] = 0
        BY <1>2, <1>4
      <4>2. QED
        BY <3>3, <4>1
    <3>5. ASSUME NEW n \in Nat, n \in T
          PROVE  n + 1 \in T
      <4>1. SUFFICES ASSUME n + 1 <= Reach, NEW g \in A[n + 1]
                     PROVE  g \in found.owners /\ found.depth[g] <= n + 1
        BY <3>3
      <4>2. \A h \in A[n] : h \in found.owners /\ found.depth[h] <= n
        BY <1>1, <3>3, <3>5, <4>1
      <4>3. CASE g \in A[n]
        <5>1. found.depth[g] \in Nat /\ found.depth[g] <= n /\ g \in found.owners
          BY <1>1, <4>2, <4>3
        <5>2. QED
          BY <5>1
      <4>4. CASE g \notin A[n]
        <5>1. PICK h \in A[n] : g \in AdjacentIn(graph, h)
          BY <1>4, <4>4
        <5>2. h \in found.owners /\ found.depth[h] <= n /\ found.depth[h] \in Nat
          BY <1>1, <4>2
        <5>3. ~(found.depth[h] >= Reach)
          BY <1>1, <4>1, <5>2
        <5>4. g \in found.owners /\ found.depth[g] <= found.depth[h] + 1
          BY <3>2, <5>1, <5>2, <5>3 DEF Left, Leads
        <5>5. PICK a, b : a = found.depth[g] /\ b = found.depth[h]
          OBVIOUS
        <5>6. a \in Nat /\ b \in Nat /\ a <= b + 1 /\ b <= n
          BY <1>1, <5>2, <5>4, <5>5
        <5>7. a <= n + 1
          BY <5>6
        <5>8. QED
          BY <5>4, <5>5, <5>7
      <4>5. QED
        BY <4>3, <4>4
    <3>6. Nat \subseteq T
      BY <3>4, <3>5, Climbing
    <3>7. Near = A[Reach] /\ Reach <= Reach
      BY <1>1, <1>3 DEF Near
    <3>8. QED
      BY <1>1, <3>3, <3>6, <3>7
  <2>3. QED
    BY <2>1, <2>2
<1>7. QED
  BY <1>2, <1>5, <1>6

LEMMA AssembleFrontierSeeds ==
    ASSUME TypeInv, SeedInv, AssembleFrontier
    PROVE  SeedInv'
<1>1. /\ phase = "adjacent" /\ queue = <<>> /\ UNCHANGED <<input, graph, callers, diags, found>>
      /\ why' = AddBoundary(IF Mode = "targeted"
                            THEN Add(why, found.owners \ found.adjacent, "reverse_path")
                            ELSE why, found.candidates)
      /\ phase' = IF Mode = "targeted" THEN "expand" ELSE "index"
      /\ input \in Inputs /\ GraphOK /\ why \in [Fns -> SUBSET SeedReasons]
  BY DEF AssembleFrontier, FrontierUnchanged, TypeInv, SeedsOK
<1>2. TraceInv'
  BY <1>1, TracedKept DEF SeedInv, Uncut
<1>3. /\ Unseeded /\ Mode \notin {"all", "bridge", "reverse-path", "oracle-bridge"}
      /\ Frontier \/ Mode \notin {"http-sinks", "targeted"}
      /\ "targeted_completed" \notin diags
  BY <1>1 DEF SeedInv, PhaseInv, Early, Seeded
<1>4. Calm => found.owners = Near /\ found.candidates = Near /\ found.owners \ found.adjacent = Up
  BY <1>1, NearOwners DEF SeedInv, AdjacentInv
<1>5. /\ Mode' = Mode /\ Frontier' = Frontier /\ \A S : Bounded(S)' = Bounded(S)
      /\ Up' = Up /\ Near' = Near /\ Calm' = Calm
  <2>1. Up' = Up /\ Reach' = Reach /\ \A S, n : Around(S, n)' = Around(S, n)
    BY <1>1, SameGraph
  <2>2. QED
    BY <1>1, <2>1, SameSeeds DEF Near, Calm
<1>6. PICK C, U : C = found.candidates /\ U = found.owners \ found.adjacent
  OBVIOUS
<1>7. Mode # "targeted" => Owners' = Bounded(C) \cap Fns
  <2>1. SUFFICES ASSUME Mode # "targeted"
                 PROVE  Owners' = Bounded(C) \cap Fns
    OBVIOUS
  <2>2. PICK w \in [Fns -> SUBSET SeedReasons] : w = why
    BY <1>1
  <2>3. why' = AddBoundary(w, C) /\ {f \in Fns : w[f] # {}} = {}
    BY <1>1, <1>3, <1>6, <2>1, <2>2 DEF Unseeded
  <2>4. Owners' = {f \in Fns : w[f] # {}} \cup (Bounded(C) \cap Fns)
    BY <1>1, <2>3, AddedBoundary
  <2>5. QED
    BY <2>3, <2>4
<1>8. Mode = "targeted" => Owners' = (U \cap Fns) \cup (Bounded(C) \cap Fns)
  <2>1. SUFFICES ASSUME Mode = "targeted"
                 PROVE  Owners' = (U \cap Fns) \cup (Bounded(C) \cap Fns)
    OBVIOUS
  <2>2. PICK w : w = Add(why, U, "reverse_path")
    OBVIOUS
  <2>3. w \in [Fns -> SUBSET SeedReasons]
    BY <1>1, <2>2, AddIs DEF SeedReasons
  <2>4. why' = AddBoundary(w, C)
    BY <1>1, <1>6, <2>1, <2>2
  <2>5. \A f \in Fns : w[f] # {} <=> f \in U
    BY <1>3, <2>2 DEF Unseeded, Add
  <2>6. Owners' = {f \in Fns : w[f] # {}} \cup (Bounded(C) \cap Fns)
    BY <1>1, <2>3, <2>4, AddedBoundary
  <2>7. QED
    BY <2>5, <2>6
<1>9. FrontDone'
  <2>1. Calm => C = Near /\ U = Up
    BY <1>4, <1>6
  <2>2. Up \subseteq Fns /\ Near \subseteq Fns
    <3>1. Up \subseteq Fns /\ Reach \in Nat
      <4>1. opts.reach \in Nat
        BY <1>1, LimitsAre
      <4>2. QED
        BY <1>1, <4>1, UpwardIs DEF Reach
    <3>2. PICK S, r : S = Up /\ r = Reach
      OBVIOUS
    <3>3. Around(S, r) \subseteq Fns
      BY <1>1, <3>1, <3>2, AroundIs
    <3>4. QED
      BY <3>1, <3>2, <3>3 DEF Near
  <2>3. PICK W, N : W = Owners' /\ N = Near
    OBVIOUS
  <2>4. Bounded(N) \subseteq Fns
    BY <2>2, <2>3 DEF Bounded
  <2>5. Calm /\ Mode # "targeted" => W = Bounded(N)
    BY <1>7, <2>1, <2>3, <2>4
  <2>6. Calm /\ Mode = "targeted" => Up \cup Bounded(N) \subseteq W
    BY <1>8, <2>1, <2>2, <2>3, <2>4
  <2>7. Bounded(Near)' = Bounded(N)
    BY <1>5, <2>3
  <2>8. QED
    BY <1>5, <2>3, <2>5, <2>6, <2>7 DEF FrontDone
<1>10. DoneInv'
  BY <1>1, <1>3, <1>5, <1>9 DEF DoneInv, PathsDone, SinksDone, ExpandDone, BridgeDone, OracleDone
<1>11. PhaseInv'
  BY <1>1, <1>3, <1>5 DEF PhaseInv, Early
<1>12. QED
  BY <1>1, <1>2, <1>9, <1>10, <1>11, OtherPhases DEF FrontSeeds

-----------------------------------------------------------------------------
(* What the collector of the bridge gains, as long as nothing stops it.    *)

\* A candidate with evidence is an owner, and what has evidence is an owner.
Shown(a) == \A f \in a.found.candidates : HasEvidence(f) => f \in a.found.owners
Inside(a) == a.found.bounded \subseteq a.found.owners

\* The new owners are of P.
Gains(P, a, b) ==
    /\ a.found.stops \subseteq b.found.stops
    /\ a.found.owners \subseteq b.found.owners /\ b.found.owners \subseteq a.found.owners \cup P
    /\ Inside(a) => Inside(b)
    /\ b.found.stops = {} => b.ok = a.ok /\ (Shown(a) => Shown(b))

LEMMA GainsOn ==
    ASSUME NEW P, NEW Q, NEW R, NEW a, NEW b, NEW c, Gains(P, a, b), Gains(Q, b, c),
           P \cup Q \subseteq R
    PROVE  Gains(R, a, c)
BY DEF Gains

LEMMA GainsNothing == ASSUME NEW P, NEW a PROVE Gains(P, a, a)
BY DEF Gains

LEMMA EndedGains ==
    ASSUME NEW d, NEW pkg \in d \cup {NoPackage}, NEW a \in Col(d), NEW reason, NEW P, NEW b,
           b = Ended(a, pkg, reason), reason \in StopReasons, NoPackage \notin d
    PROVE  Gains(P, a, b) /\ b.found.bounded = a.found.bounded /\ b.found.stops # {}
<1>1. PICK s : /\ s = StopIn(a, pkg, reason) /\ s \in Col(d) /\ Cut(a.found, s.found, reason)
  BY StopInIs
<1>2. s.found.bounded = a.found.bounded
  <2>1. a.found \in FoundType
    BY DEF Col
  <2>2. CASE reason \in a.found.stops
    BY <1>1, <2>2 DEF StopIn
  <2>3. CASE reason \notin a.found.stops
    <3>1. PICK t : t = [a EXCEPT !.found = Stop(@, reason)]
      OBVIOUS
    <3>2. t.found.bounded = a.found.bounded /\ t \in [found : FoundType, cover : [d -> CoverType], ok : BOOLEAN]
      <4>1. Stop(a.found, reason) \in FoundType /\ Stop(a.found, reason).bounded = a.found.bounded
        BY <2>1 DEF Stop, FoundType
      <4>2. QED
        BY <3>1, <4>1 DEF Col
    <3>3. CASE pkg = NoPackage
      <4>1. s = t
        BY <1>1, <2>3, <3>1, <3>3 DEF StopIn
      <4>2. QED
        BY <3>2, <4>1
    <3>4. CASE pkg # NoPackage
      <4>1. s = [t EXCEPT !.cover[pkg].stops = @ \cup {reason},
                          !.cover[pkg].causes = @ \cup {reason}]
        BY <1>1, <2>3, <3>1, <3>4 DEF StopIn
      <4>2. s.found = t.found
        BY <3>2, <4>1
      <4>3. QED
        BY <3>2, <4>2
    <3>5. QED
      BY <3>3, <3>4
  <2>4. QED
    BY <2>2, <2>3
<1>3. b.found = s.found
  BY <1>1 DEF Ended, Col
<1>4. QED
  BY <1>1, <1>2, <1>3 DEF Gains, Inside, Cut

LEMMA AddBridgeGains ==
    ASSUME input \in Inputs, NEW d, NEW pkg \in d \cup {NoPackage}, NEW a \in Col(d),
           NoPackage \notin d, NEW f \in Fns, pkg = NoPackage => Pkg(f) \in d, NEW b,
           b = AddBridge(a, pkg, f)
    PROVE  /\ Gains({f}, a, b) /\ b.found.bounded = a.found.bounded
           /\ b.found.stops = {} => f \in b.found.owners
<1>1. /\ a.found \in FoundType /\ a.cover \in [d -> CoverType] /\ a.ok \in BOOLEAN
  BY ColIs
<1>2. CASE f \in a.found.owners
  <2>1. b.found = a.found /\ b.ok = a.ok
    <3>1. CASE pkg = NoPackage
      BY <1>2, <3>1 DEF AddBridge
    <3>2. CASE pkg # NoPackage
      <4>1. b = [a EXCEPT !.cover[pkg].causes = @ \cup {"duplicate_suppression"}]
        BY <1>2, <3>2 DEF AddBridge
      <4>2. QED
        BY <4>1 DEF Col
    <3>3. QED
      BY <3>1, <3>2
  <2>2. QED
    BY <1>2, <2>1 DEF Gains, Inside, Shown
<1>3. CASE f \notin a.found.owners /\ AtLimit(Cardinality(a.found.owners), opts.owners)
  <2>1. b = Ended(a, pkg, "owner_budget") /\ "owner_budget" \in StopReasons
    BY <1>3 DEF AddBridge, Ended, StopReasons
  <2>2. QED
    BY <2>1, EndedGains
<1>4. CASE f \notin a.found.owners /\ ~AtLimit(Cardinality(a.found.owners), opts.owners)
  <2> DEFINE q == IF pkg = NoPackage THEN Pkg(f) ELSE pkg
  <2>1. b = [a EXCEPT !.found.owners = @ \cup {f}, !.cover[q].owners = @ + 1]
    BY <1>4 DEF AddBridge
  <2> HIDE DEF q
  <2>2. /\ b.found.owners = a.found.owners \cup {f} /\ b.found.bounded = a.found.bounded
        /\ b.found.candidates = a.found.candidates /\ b.found.stops = a.found.stops
        /\ b.ok = a.ok
    <3>1. b.found = [a.found EXCEPT !.owners = @ \cup {f}] /\ b.ok = a.ok
      BY <2>1 DEF Col
    <3>2. QED
      BY <1>1, <3>1 DEF FoundType
  <2>3. QED
    BY <2>2 DEF Gains, Inside, Shown
<1>5. QED
  BY <1>2, <1>3, <1>4

LEMMA ScanBoundaryGains ==
    ASSUME input \in Inputs, NEW d, NEW pkg \in d, NEW a \in Col(d), NoPackage \notin d,
           NEW f \in Fns, NEW b, b = ScanBoundary(a, pkg, f)
    PROVE  /\ Gains(Bounded({f}), a, b)
           /\ b.found.stops = {} => f \in b.found.candidates
<1>1. a.found \in FoundType /\ a.cover \in [d -> CoverType] /\ a.ok \in BOOLEAN
  BY ColIs
<1>2. CASE f \in a.found.candidates
  <2>1. b = a
    BY <1>2 DEF ScanBoundary
  <2>2. QED
    BY <1>2, <2>1, GainsNothing
<1>3. CASE f \notin a.found.candidates
           /\ AtLimit(Cardinality(a.found.candidates), opts.candidates)
  <2>1. "boundary_owner_budget" \in StopReasons
    BY DEF StopReasons
  <2>2. PICK s : /\ s = StopIn(a, pkg, "boundary_owner_budget") /\ s \in Col(d)
    BY <2>1, StopInIs
  <2>3. PICK e : e = Ended(a, pkg, "boundary_owner_budget")
    OBVIOUS
  <2>4. Gains({}, a, e) /\ e.found.bounded = a.found.bounded /\ e.found.stops # {}
    BY <2>1, <2>3, EndedGains
  <2>5. e.found = s.found /\ s.found \in FoundType
    BY <2>2, <2>3 DEF Ended, Col
  <2>6. b = [s EXCEPT !.found.skipped = @ \cup {f}]
    BY <1>3, <2>2 DEF ScanBoundary
  <2>7. /\ b.found.owners = e.found.owners /\ b.found.stops = e.found.stops
        /\ b.found.bounded = e.found.bounded
    <3>1. b.found = [s.found EXCEPT !.skipped = @ \cup {f}]
      BY <2>2, <2>6 DEF Col
    <3>2. QED
      BY <2>5, <3>1 DEF FoundType
  <2>8. QED
    BY <2>4, <2>7 DEF Gains, Inside
<1>4. CASE f \notin a.found.candidates
           /\ ~AtLimit(Cardinality(a.found.candidates), opts.candidates)
  <2>1. PICK seen : seen = [a EXCEPT !.found.candidates = @ \cup {f}]
    OBVIOUS
  <2>2. PICK added : added = AddBridge(seen, pkg, f)
    OBVIOUS
  <2>3. /\ seen \in Col(d) /\ seen.ok = a.ok /\ seen.found.owners = a.found.owners
        /\ seen.found.stops = a.found.stops /\ seen.found.bounded = a.found.bounded
        /\ seen.found.candidates = a.found.candidates \cup {f}
    <3>1. PICK g : g = [a.found EXCEPT !.candidates = @ \cup {f}]
      OBVIOUS
    <3>2. /\ g \in FoundType /\ g.owners = a.found.owners /\ g.stops = a.found.stops
          /\ g.bounded = a.found.bounded /\ g.candidates = a.found.candidates \cup {f}
      BY <1>1, <3>1 DEF FoundType
    <3>3. seen = [a EXCEPT !.found = g]
      BY <2>1, <3>1
    <3>4. seen \in Col(d) /\ seen.found = g /\ seen.ok = a.ok
      BY <3>2, <3>3 DEF Col
    <3>5. QED
      BY <3>2, <3>4
  <2>4. CASE ~HasEvidence(f)
    <3>1. b = seen
      BY <1>4, <2>1, <2>4 DEF ScanBoundary
    <3>2. QED
      BY <2>3, <2>4, <3>1 DEF Gains, Inside, Shown
  <2>5. CASE HasEvidence(f)
    <3>1. /\ Gains({f}, seen, added) /\ added.found.bounded = seen.found.bounded
          /\ added.found.stops = {} => f \in added.found.owners
      BY <2>2, <2>3, AddBridgeGains
    <3>2. added.found.candidates = seen.found.candidates /\ added \in Col(d)
      BY <2>2, <2>3, AddBridgeIs DEF Goes
    <3>3. Bounded({f}) = {f}
      BY <2>5 DEF Bounded
    <3>4. CASE f \notin added.found.owners
      <4>1. b = [added EXCEPT !.ok = a.ok]
        BY <1>4, <2>1, <2>2, <2>5, <3>4 DEF ScanBoundary
      <4>2. b.found = added.found
        BY <3>2, <4>1 DEF Col
      <4>3. QED
        BY <2>3, <3>1, <3>3, <3>4, <4>2 DEF Gains, Inside
    <3>5. CASE f \in added.found.owners
      <4>1. b = [added EXCEPT !.found.bounded = @ \cup {f}, !.cover[pkg].boundary = @ + 1]
        BY <1>4, <2>1, <2>2, <2>5, <3>5 DEF ScanBoundary
      <4>2. /\ b.found.owners = added.found.owners /\ b.found.stops = added.found.stops
            /\ b.found.bounded = added.found.bounded \cup {f} /\ b.ok = added.ok
            /\ b.found.candidates = added.found.candidates
        <5>1. b.found = [added.found EXCEPT !.bounded = @ \cup {f}] /\ b.ok = added.ok
          BY <3>2, <4>1 DEF Col
        <5>2. added.found \in FoundType
          BY <3>2 DEF Col
        <5>3. QED
          BY <5>1, <5>2 DEF FoundType
      <4>3. Shown(a) /\ b.found.stops = {} => Shown(b)
        BY <2>3, <3>1, <3>2, <3>5, <4>2 DEF Gains, Shown
      <4>4. QED
        BY <2>3, <3>1, <3>2, <3>3, <3>5, <4>2, <4>3 DEF Gains, Inside
    <3>6. QED
      BY <3>4, <3>5
  <2>6. QED
    BY <2>4, <2>5
<1>5. QED
  BY <1>2, <1>3, <1>4

LEMMA MatchRefGains ==
    ASSUME input \in Inputs, NEW d, NEW pkg \in d, NEW a \in Col(d), NoPackage \notin d,
           NEW ref, ref.owner \in Fns, InstrOf(ref).callee \in {0} \cup Fns, NEW b,
           b = MatchRef(a, pkg, ref)
    PROVE  /\ Gains({ref.owner} \cup CalleesForRef(ref), a, b)
           /\ b.found.stops = {} /\ a.ok => CalleesForRef(ref) \subseteq b.found.owners
<1> DEFINE callee == InstrOf(ref).callee
<1>1. PICK m : m = [a EXCEPT !.found.matched[ref.owner] = @ + 1]
  OBVIOUS
<1>2. PICK owned : owned = AddBridge(m, pkg, ref.owner)
  OBVIOUS
<1>3. PICK added : added = AddBridge(owned, pkg, callee)
  OBVIOUS
<1>4. a.found \in FoundType
  BY DEF Col
<1>5. /\ m \in Col(d) /\ m.ok = a.ok /\ m.found.owners = a.found.owners
      /\ m.found.stops = a.found.stops /\ m.found.bounded = a.found.bounded
      /\ m.found.candidates = a.found.candidates
  <2>1. PICK more : more = [a.found.matched EXCEPT ![ref.owner] = @ + 1]
    OBVIOUS
  <2>2. more \in [Fns -> Nat]
    BY <1>4, <2>1 DEF FoundType
  <2>3. PICK g : g = [a.found EXCEPT !.matched = more]
    OBVIOUS
  <2>4. /\ g \in FoundType /\ g.owners = a.found.owners /\ g.stops = a.found.stops
        /\ g.bounded = a.found.bounded /\ g.candidates = a.found.candidates
    BY <1>4, <2>2, <2>3 DEF FoundType
  <2>5. m = [a EXCEPT !.found = g]
    BY <1>1, <2>1, <2>3
  <2>6. m \in Col(d) /\ m.found = g /\ m.ok = a.ok
    BY <2>4, <2>5 DEF Col
  <2>7. QED
    BY <2>4, <2>6
<1> HIDE DEF callee
<1>6. Gains({}, a, m)
  BY <1>5 DEF Gains, Inside, Shown
<1>7. Gains({ref.owner}, m, owned) /\ owned \in Col(d)
  BY <1>2, <1>5, AddBridgeGains, AddBridgeIs DEF Goes
<1>8. Gains({ref.owner} \cup CalleesForRef(ref), a, owned)
  BY <1>6, <1>7, GainsOn
<1>9. b = IF ~owned.ok \/ callee \notin CalleesForRef(ref) THEN owned
          ELSE IF added.ok THEN ScanBoundary(added, pkg, callee) ELSE added
  BY <1>1, <1>2, <1>3 DEF MatchRef, callee
<1>10. CalleesForRef(ref) \subseteq {callee}
  BY DEF CalleesForRef, callee
<1>11. CASE callee \notin CalleesForRef(ref)
  BY <1>8, <1>9, <1>10, <1>11
<1>12. CASE ~owned.ok /\ callee \in CalleesForRef(ref)
  <2>1. b = owned
    BY <1>9, <1>12
  <2>2. b.found.stops = {} => ~a.ok
    BY <1>8, <1>12, <2>1 DEF Gains
  <2>3. QED
    BY <1>8, <2>1, <2>2
<1>13. CASE owned.ok /\ callee \in CalleesForRef(ref)
  <2>1. callee \in Fns
    BY <1>13 DEF CalleesForRef, callee
  <2>2. /\ Gains({callee}, owned, added) /\ added \in Col(d)
        /\ added.found.stops = {} => callee \in added.found.owners
    BY <1>3, <1>7, <2>1, AddBridgeGains, AddBridgeIs DEF Goes
  <2>3. Gains({ref.owner} \cup CalleesForRef(ref), a, added)
    BY <1>8, <1>13, <2>2, GainsOn
  <2>4. CASE ~added.ok
    <3>1. b = added
      BY <1>9, <1>13, <2>4
    <3>2. QED
      BY <1>10, <2>2, <2>3, <3>1
  <2>5. CASE added.ok
    <3>1. b = ScanBoundary(added, pkg, callee)
      BY <1>9, <1>13, <2>5
    <3>2. Gains(Bounded({callee}), added, b)
      BY <2>1, <2>2, <3>1, ScanBoundaryGains
    <3>3. Gains({ref.owner} \cup CalleesForRef(ref), a, b)
      <4>1. Bounded({callee}) \subseteq {callee}
        BY DEF Bounded
      <4>2. ({ref.owner} \cup CalleesForRef(ref)) \cup Bounded({callee})
            \subseteq {ref.owner} \cup CalleesForRef(ref)
        BY <1>13, <4>1
      <4>3. QED
        BY <2>3, <3>2, <4>2, GainsOn
    <3>4. b.found.stops = {} => callee \in b.found.owners
      BY <2>2, <3>2 DEF Gains
    <3>5. QED
      BY <1>10, <3>3, <3>4
  <2>6. QED
    BY <2>4, <2>5
<1>14. QED
  BY <1>11, <1>12, <1>13

\* The hits of an instruction, in the order of their places.
LEMMA HitsListed ==
    ASSUME input \in Inputs, NEW f \in Fns, NEW n \in DOMAIN Code(f), NEW hits,
           hits \subseteq RefsAt(f, n)
    PROVE  LET args == Ascending({r.arg : r \in hits})
               RefOf(k) == CHOOSE r \in hits : r.arg = args[k]
           IN  /\ Len(args) \in Nat
               /\ \A k \in 1..Len(args) : RefOf(k) \in hits
               /\ \A r \in hits : \E k \in 1..Len(args) : r = RefOf(k)
<1> DEFINE A == {r.arg : r \in hits}
           args == Ascending(A)
           RefOf(k) == CHOOSE r \in hits : r.arg = args[k]
<1>1. A \subseteq Nat
  BY RefIs DEF RefType
<1>2. IsFiniteSet(A)
  <2>1. IsFiniteSet(RefsAt(f, n))
    BY RefsFinite
  <2>2. IsFiniteSet(hits)
    BY <2>1, FS_Subset
  <2> DEFINE h == [r \in hits |-> r.arg]
  <2>3. DOMAIN h = hits /\ A = {h[r] : r \in DOMAIN h}
    OBVIOUS
  <2> HIDE DEF h, A
  <2>4. QED
    BY <2>2, <2>3, ImageFinite
<1>3. args \in Seq(A) /\ ToSet(args) = A
  <2> HIDE DEF A
  <2>1. QED
    BY <1>1, <1>2, AscendingLists
<1>4. Len(args) \in Nat /\ \A k \in 1..Len(args) : args[k] \in A
  <2> HIDE DEF A, args
  <2>1. QED
    BY <1>3
<1>5. \A r \in hits : \E k \in 1..Len(args) : r.arg = args[k]
  <2>1. \A x \in A : \E k \in 1..Len(args) : x = args[k]
    <3> HIDE DEF A, args
    <3>1. DOMAIN args = 1..Len(args)
      BY <1>3
    <3>2. QED
      BY <1>3, <3>1 DEF ToSet
  <2>2. QED
    BY <2>1
<1>6. \A k \in 1..Len(args) : RefOf(k) \in hits /\ RefOf(k).arg = args[k]
  <2>1. \A k \in 1..Len(args) : \E r \in hits : r.arg = args[k]
    BY <1>4
  <2> HIDE DEF args, A
  <2>2. QED
    BY <2>1
<1>7. ASSUME NEW r \in hits
      PROVE  \E k \in 1..Len(args) : r = RefOf(k)
  <2>1. PICK k \in 1..Len(args) : r.arg = args[k]
    BY <1>5
  <2>2. PICK s : s = RefOf(k)
    OBVIOUS
  <2>3. s \in hits /\ s.arg = r.arg
    BY <1>6, <2>1, <2>2
  <2>4. r = s
    BY <2>3, RefByPlace
  <2>5. QED
    BY <2>1, <2>2, <2>4
<1> HIDE DEF A, args, RefOf
<1>8. /\ Len(args) \in Nat
      /\ \A k \in 1..Len(args) : RefOf(k) \in hits
      /\ \A r \in hits : \E k \in 1..Len(args) : r = RefOf(k)
  BY <1>4, <1>6, <1>7
<1>9. QED
  BY <1>8 DEF A, args, RefOf

\* What an instruction leads to.
Led(f, n, pkg) == {g \in {f} : Hits(f, n, pkg) # {}}
                  \cup UNION {CalleesForRef(r) : r \in Hits(f, n, pkg)}

LEMMA ScanInstrGains ==
    ASSUME input \in Inputs, NEW d, NEW pkg \in d, NEW a \in Col(d), NoPackage \notin d,
           NEW f \in Fns, NEW n \in DOMAIN Code(f), NEW timely, NEW b,
           b = ScanInstr(a, pkg, f, n, timely)
    PROVE  /\ Gains(Led(f, n, pkg), a, b)
           /\ b.found.stops = {} /\ a.ok =>
                  \A r \in Hits(f, n, pkg) : CalleesForRef(r) \subseteq b.found.owners
<1> DEFINE counted == [a EXCEPT !.found.instrs = @ + 1, !.cover[pkg].instrs = @ + 1]
           hits == {r \in RefsAt(f, n) : r.operand \in {<<s, 0>> : s \in StartsOf(pkg)}}
           args == Ascending({r.arg : r \in hits})
           RefOf(k) == CHOOSE r \in hits : r.arg = args[k]
           N == Len(args)
           after == CHOOSE h : h = [k \in 0..N |->
                        IF k = 0 THEN counted
                        ELSE IF h[k - 1].ok THEN MatchRef(h[k - 1], pkg, RefOf(k))
                        ELSE h[k - 1]]
<1>1. CASE ~a.ok
  <2>1. b = a
    BY <1>1 DEF ScanInstr
  <2>2. QED
    BY <1>1, <2>1, GainsNothing
<1>2. CASE \E reason \in StopReasons : b = Ended(a, pkg, reason)
  BY <1>2, EndedGains
<1>3. CASE a.ok /\ b = after[N]
  <2>1. counted \in Col(d) /\ Gains({}, a, counted) /\ counted.ok = a.ok
    <3>1. a.found \in FoundType /\ a.cover \in [d -> CoverType]
      BY DEF Col
    <3> DEFINE g == [a.found EXCEPT !.instrs = @ + 1]
               e == [a.cover EXCEPT ![pkg].instrs = @ + 1]
    <3>2. /\ g \in FoundType /\ g.owners = a.found.owners /\ g.stops = a.found.stops
          /\ g.candidates = a.found.candidates /\ g.bounded = a.found.bounded
      BY <3>1 DEF FoundType
    <3>3. e \in [d -> CoverType]
      BY <3>1 DEF CoverType
    <3>4. PICK c : c = [a EXCEPT !.found = g, !.cover = e]
      OBVIOUS
    <3>5. c = counted
      BY <3>4
    <3> HIDE DEF g, e, counted
    <3>6. c \in Col(d) /\ c.found = g /\ c.ok = a.ok
      BY <3>2, <3>3, <3>4 DEF Col
    <3>7. QED
      BY <3>2, <3>5, <3>6 DEF Gains, Inside, Shown
  <2>2. /\ N \in Nat /\ \A k \in 1..N : RefOf(k) \in hits
        /\ \A r \in hits : \E k \in 1..N : r = RefOf(k)
    BY HitsListed
  <2>3. \A r \in hits : r.owner = f /\ InstrOf(r).callee \in {0} \cup Fns
    BY RefIs, InstrIs
  <2>4. hits = Hits(f, n, pkg)
    BY DEF Hits
  <2> DEFINE Step(k, x) == IF x.ok THEN MatchRef(x, pkg, RefOf(k)) ELSE x
             step == [k \in 1..N |-> [x \in Col(d) |-> Step(k, x)]]
             P == Led(f, n, pkg)
  <2>5. after = CHOOSE h : h = [k \in 0..N |-> IF k = 0 THEN counted ELSE Step(k, h[k - 1])]
    OBVIOUS
  <2>6. ASSUME NEW k \in 1..N, NEW x \in Col(d)
        PROVE  /\ Step(k, x) \in Col(d) /\ Gains(P, x, Step(k, x))
               /\ Step(k, x).found.stops = {} /\ x.ok =>
                      CalleesForRef(RefOf(k)) \subseteq Step(k, x).found.owners
    <3>1. CASE x.ok
      <4>0. Step(k, x) = MatchRef(x, pkg, RefOf(k)) /\ RefOf(k) \in hits
        BY <2>2, <3>1
      <4> HIDE DEF RefOf, Step, hits
      <4>1. PICK r, y : r = RefOf(k) /\ y = Step(k, x)
        OBVIOUS
      <4>2. y = MatchRef(x, pkg, r)
        BY <4>0, <4>1
      <4>3. r \in hits /\ r.owner = f /\ InstrOf(r).callee \in {0} \cup Fns
        BY <2>3, <4>0, <4>1
      <4>4. Goes(d, pkg, x, y)
        BY <4>2, <4>3, MatchRefIs
      <4>5. /\ Gains({r.owner} \cup CalleesForRef(r), x, y)
            /\ y.found.stops = {} /\ x.ok => CalleesForRef(r) \subseteq y.found.owners
        BY <4>2, <4>3, MatchRefGains
      <4>6. {r.owner} \cup CalleesForRef(r) \subseteq P
        BY <2>4, <4>3 DEF Led
      <4>7. Gains(P, x, y)
        BY <4>5, <4>6 DEF Gains
      <4>8. QED
        BY <4>1, <4>4, <4>5, <4>7 DEF Goes
    <3>2. CASE ~x.ok
      BY <3>2, GainsNothing
    <3>3. QED
      BY <3>1, <3>2
  <2> HIDE DEF counted, hits, args, RefOf, N, Step, after, P
  <2>7. step \in [1..N -> [Col(d) -> Col(d)]]
    BY <2>6
  <2>8. PICK h \in [0..N -> Col(d)] : h[0] = counted /\ \A k \in 1..N : h[k] = step[k][h[k - 1]]
    <3> HIDE DEF step
    <3>1. \E h \in [0..N -> Col(d)] : Stepwise(N, counted, step, h)
      BY <2>1, <2>2, <2>7, Recursion
    <3>2. QED
      BY <3>1 DEF Stepwise
  <2>9. h = [k \in 0..N |-> IF k = 0 THEN counted ELSE Step(k, h[k - 1])]
    <3>1. ASSUME NEW k \in 0..N
          PROVE  h[k] = IF k = 0 THEN counted ELSE Step(k, h[k - 1])
      <4>1. CASE k = 0
        BY <2>8, <4>1
      <4>2. CASE k # 0
        <5>1. k \in 1..N /\ k - 1 \in 0..N
          BY <2>2, <4>2
        <5>2. h[k - 1] \in Col(d)
          BY <5>1
        <5>3. QED
          BY <2>8, <4>2, <5>1, <5>2
      <4>3. QED
        BY <4>1, <4>2
    <3>2. QED
      BY <3>1
  <2>10. after = [k \in 0..N |-> IF k = 0 THEN counted ELSE Step(k, after[k - 1])]
    BY <2>5, <2>9
  <2> DEFINE T == {k \in Nat : k <= N =>
                      /\ after[k] \in Col(d) /\ Gains(P, a, after[k])
                      /\ after[k].found.stops = {} => \A j \in 1..k :
                             CalleesForRef(RefOf(j)) \subseteq after[k].found.owners}
  <2>11. 0 \in T
    <3>1. after[0] = counted
      BY <2>2, <2>10
    <3>2. Gains(P, a, counted)
      BY <2>1 DEF Gains
    <3>3. QED
      BY <2>1, <3>1, <3>2
  <2>12. ASSUME NEW k \in Nat, k \in T
         PROVE  k + 1 \in T
    <3>1. SUFFICES ASSUME k + 1 <= N
                   PROVE  /\ after[k + 1] \in Col(d) /\ Gains(P, a, after[k + 1])
                          /\ after[k + 1].found.stops = {} => \A j \in 1..(k + 1) :
                                 CalleesForRef(RefOf(j)) \subseteq after[k + 1].found.owners
      OBVIOUS
    <3>2. k + 1 \in 1..N /\ k + 1 \in 0..N /\ k + 1 # 0 /\ (k + 1) - 1 = k /\ k <= N
      BY <2>2, <3>1
    <3>3. PICK x, y : x = after[k] /\ y = after[k + 1]
      OBVIOUS
    <3>4. y = Step(k + 1, x)
      BY <2>10, <3>2, <3>3
    <3>5. /\ x \in Col(d) /\ Gains(P, a, x)
          /\ x.found.stops = {} => \A j \in 1..k : CalleesForRef(RefOf(j)) \subseteq x.found.owners
      BY <2>12, <3>2, <3>3
    <3>6. /\ y \in Col(d) /\ Gains(P, x, y)
          /\ y.found.stops = {} /\ x.ok => CalleesForRef(RefOf(k + 1)) \subseteq y.found.owners
      BY <2>6, <3>2, <3>4, <3>5
    <3>7. Gains(P, a, y)
      BY <3>5, <3>6, GainsOn
    <3>8. ASSUME y.found.stops = {}, NEW j \in 1..(k + 1)
          PROVE  CalleesForRef(RefOf(j)) \subseteq y.found.owners
      <4>1. x.found.stops = {} /\ x.found.owners \subseteq y.found.owners
        BY <3>6, <3>8 DEF Gains
      <4>2. x.ok
        BY <1>3, <3>5, <4>1 DEF Gains
      <4>3. j = k + 1 \/ j \in 1..k
        OBVIOUS
      <4>4. QED
        BY <3>5, <3>6, <3>8, <4>1, <4>2, <4>3
    <3>9. QED
      BY <3>3, <3>6, <3>7, <3>8
  <2>13. N \in T
    <3> HIDE DEF T
    <3>1. QED
      BY <2>2, <2>11, <2>12, Climbing
  <2>14. /\ Gains(P, a, b)
         /\ b.found.stops = {} => \A j \in 1..N : CalleesForRef(RefOf(j)) \subseteq b.found.owners
    BY <1>3, <2>2, <2>13
  <2>15. b.found.stops = {} => \A r \in hits : CalleesForRef(r) \subseteq b.found.owners
    BY <2>2, <2>14
  <2>16. QED
    BY <2>4, <2>14, <2>15 DEF P
<1>4. \/ ~a.ok
      \/ \E reason \in StopReasons : b = Ended(a, pkg, reason)
      \/ a.ok /\ b = after[N]
  <2>1. SUFFICES ASSUME a.ok
                 PROVE  \/ \E reason \in StopReasons : b = Ended(a, pkg, reason)
                        \/ b = after[N]
    OBVIOUS
  <2>2. b = IF ~timely THEN Ended(a, pkg, "duration_budget")
            ELSE IF AtLimit(a.found.instrs, opts.instrs)
            THEN Ended(a, pkg, "instruction_budget")
            ELSE IF AtLimit(Cardinality(a.found.owners), opts.owners)
            THEN Ended(a, pkg, "owner_budget")
            ELSE after[N]
    BY <2>1 DEF ScanInstr, Ended
  <2> HIDE DEF after
  <2>3. {"duration_budget", "instruction_budget", "owner_budget"} \subseteq StopReasons
    BY DEF StopReasons
  <2>4. QED
    BY <2>2, <2>3
<1>5. QED
  BY <1>1, <1>2, <1>3, <1>4

LEMMA LedIsPart ==
    ASSUME NEW pkg, NEW f \in Fns, Pkg(f) = pkg, NEW n \in DOMAIN Code(f)
    PROVE  Led(f, n, pkg) \subseteq Part(found.starts, pkg)
<1>1. \A r \in Hits(f, n, pkg) :
          r \in Refs(f) /\ \E s \in found.starts : Pkg(s) = pkg /\ r.operand = <<s, 0>>
  BY DEF Hits, Refs, StartsOf
<1>2. Hits(f, n, pkg) # {} => f \in Holders(found.starts, pkg)
  BY <1>1 DEF Holders
<1>3. \A r \in Hits(f, n, pkg) : CalleesForRef(r) \subseteq PassedTo(found.starts, pkg)
  BY <1>1, <1>2 DEF PassedTo
<1>4. QED
  BY <1>2, <1>3 DEF Led, Part

LEMMA ScanOwnerGains ==
    ASSUME input \in Inputs, FoundOK, NEW d, d = DOMAIN cover, NEW pkg \in d, NoPackage \notin d,
           NEW f \in Fns, Pkg(f) = pkg, NEW cut \in 0..Len(Code(f)) + 1,
           cut # Len(Code(f)) + 1 => opts.clock, NEW b, b = ScanOwner(pkg, f, cut)
    PROVE  /\ Gains(Part(found.starts, pkg), AtWork, b)
           /\ b.found.stops = {} /\ Shown(AtWork) =>
                  /\ HasEvidence(f) => f \in b.found.owners
                  /\ \A r \in Hit(f) : CalleesForRef(r) \subseteq b.found.owners
<1> DEFINE N == Len(Code(f))
           open == [AtWork EXCEPT !.cover[pkg].functions = @ + 1, !.found.scanned = @ \cup {f}]
           after == CHOOSE h : h = [n \in 0..N |->
                        IF n = 0 THEN ScanBoundary(open, pkg, f)
                        ELSE ScanInstr(h[n - 1], pkg, f, n, n < cut)]
           P == Part(found.starts, pkg)
<1>1. AtWork \in Col(d) /\ AtWork.ok = TRUE /\ AtWork.found = found /\ AtWork.cover = cover
  BY AtWorkIs
<1>2. N \in Nat /\ DOMAIN Code(f) = 1..N
  BY ProgramIs
<1>3. CASE \E reason \in StopReasons : b = Ended(AtWork, pkg, reason)
  BY <1>1, <1>3, EndedGains
<1>4. CASE b = after[N]
  <2>1. /\ open \in Col(d) /\ open.ok = TRUE /\ Gains({}, AtWork, open)
        /\ Shown(AtWork) => Shown(open)
    <3>1. found \in FoundType /\ cover \in [d -> CoverType]
      BY DEF FoundOK, IsCover
    <3> DEFINE g == [found EXCEPT !.scanned = @ \cup {f}]
               e == [cover EXCEPT ![pkg].functions = @ + 1]
    <3>2. /\ g \in FoundType /\ g.owners = found.owners /\ g.stops = found.stops
          /\ g.candidates = found.candidates /\ g.bounded = found.bounded
      BY <3>1 DEF FoundType
    <3>3. e \in [d -> CoverType]
      <4>1. PICK q : q = [cover[pkg] EXCEPT !.functions = @ + 1]
        OBVIOUS
      <4>2. cover[pkg] \in CoverType
        BY <3>1
      <4>3. q \in CoverType
        BY <4>1, <4>2 DEF CoverType
      <4>4. e = [cover EXCEPT ![pkg] = q]
        BY <4>1
      <4>5. QED
        BY <3>1, <4>3, <4>4
    <3>4. PICK c : c = [AtWork EXCEPT !.found = g, !.cover = e]
      OBVIOUS
    <3>5. c = open
      BY <1>1, <3>4
    <3> HIDE DEF g, e, open
    <3>6. c \in Col(d) /\ c.found = g /\ c.ok = TRUE
      BY <1>1, <3>2, <3>3, <3>4 DEF Col
    <3>7. QED
      BY <1>1, <3>2, <3>5, <3>6 DEF Gains, Inside, Shown
  <2> DEFINE Step(n, x) == ScanInstr(x, pkg, f, n, n < cut)
             first == ScanBoundary(open, pkg, f)
             step == [n \in 1..N |-> [x \in Col(d) |-> Step(n, x)]]
  <2>2. after = CHOOSE h : h = [n \in 0..N |-> IF n = 0 THEN first ELSE Step(n, h[n - 1])]
    OBVIOUS
  <2> HIDE DEF open
  <2>3. /\ first \in Col(d) /\ Gains(Bounded({f}), open, first)
        /\ first.found.stops = {} => f \in first.found.candidates
    BY <2>1, ScanBoundaryIs, ScanBoundaryGains DEF Goes
  <2>4. ASSUME NEW n \in 1..N, NEW x \in Col(d)
        PROVE  /\ Step(n, x) \in Col(d) /\ Gains(P, x, Step(n, x))
               /\ Step(n, x).found.stops = {} /\ x.ok =>
                      \A r \in Hits(f, n, pkg) : CalleesForRef(r) \subseteq Step(n, x).found.owners
    <3>1. n \in DOMAIN Code(f) /\ (~(n < cut) => opts.clock)
      BY <1>2
    <3>2. Step(n, x) \in Col(d)
      BY <3>1, ScanInstrIs DEF Goes
    <3>3. /\ Gains(Led(f, n, pkg), x, Step(n, x))
          /\ Step(n, x).found.stops = {} /\ x.ok =>
                 \A r \in Hits(f, n, pkg) : CalleesForRef(r) \subseteq Step(n, x).found.owners
      BY <3>1, ScanInstrGains
    <3>4. Led(f, n, pkg) \subseteq P
      BY <3>1, LedIsPart
    <3> HIDE DEF Step, P
    <3>5. Gains(P, x, Step(n, x))
      BY <3>3, <3>4 DEF Gains
    <3>6. QED
      BY <3>2, <3>3, <3>5
  <2>5. Gains(P, open, first)
    <3>1. Bounded({f}) \subseteq P
      BY DEF Bounded, Part
    <3> HIDE DEF P, first
    <3>2. QED
      BY <2>3, <3>1 DEF Gains
  <2> HIDE DEF N, Step, after, first, P
  <2>6. step \in [1..N -> [Col(d) -> Col(d)]]
    BY <2>4
  <2>7. PICK h \in [0..N -> Col(d)] : h[0] = first /\ \A n \in 1..N : h[n] = step[n][h[n - 1]]
    <3> HIDE DEF step
    <3>1. \E h \in [0..N -> Col(d)] : Stepwise(N, first, step, h)
      BY <1>2, <2>3, <2>6, Recursion
    <3>2. QED
      BY <3>1 DEF Stepwise
  <2>8. h = [n \in 0..N |-> IF n = 0 THEN first ELSE Step(n, h[n - 1])]
    <3>1. ASSUME NEW n \in 0..N
          PROVE  h[n] = IF n = 0 THEN first ELSE Step(n, h[n - 1])
      <4>1. CASE n = 0
        BY <2>7, <4>1
      <4>2. CASE n # 0
        <5>1. n \in 1..N /\ n - 1 \in 0..N
          BY <1>2, <4>2
        <5>2. h[n - 1] \in Col(d)
          BY <5>1
        <5>3. QED
          BY <2>7, <4>2, <5>1, <5>2
      <4>3. QED
        BY <4>1, <4>2
    <3>2. QED
      BY <3>1
  <2>9. after = [n \in 0..N |-> IF n = 0 THEN first ELSE Step(n, after[n - 1])]
    BY <2>2, <2>8
  <2> DEFINE Gathering(n) == \A k \in 1..n : \A r \in Hits(f, k, pkg) :
                                CalleesForRef(r) \subseteq after[n].found.owners
             T == {n \in Nat : n <= N =>
                      /\ after[n] \in Col(d) /\ Gains(P, open, after[n]) /\ Gains(P, first, after[n])
                      /\ after[n].found.stops = {} => Gathering(n)}
  <2>10. 0 \in T
    <3>1. after[0] = first
      BY <1>2, <2>9
    <3>2. QED
      BY <2>3, <2>5, <3>1, GainsNothing
  <2>11. ASSUME NEW n \in Nat, n \in T
         PROVE  n + 1 \in T
    <3>1. SUFFICES ASSUME n + 1 <= N
                   PROVE  /\ after[n + 1] \in Col(d) /\ Gains(P, open, after[n + 1])
                          /\ Gains(P, first, after[n + 1])
                          /\ after[n + 1].found.stops = {} => Gathering(n + 1)
      OBVIOUS
    <3>2. n + 1 \in 1..N /\ n + 1 \in 0..N /\ n + 1 # 0 /\ (n + 1) - 1 = n /\ n <= N
      BY <1>2, <3>1
    <3>3. PICK x, y : x = after[n] /\ y = after[n + 1]
      OBVIOUS
    <3>4. y = Step(n + 1, x)
      BY <2>9, <3>2, <3>3
    <3>5. /\ x \in Col(d) /\ Gains(P, open, x) /\ Gains(P, first, x)
          /\ x.found.stops = {} => \A k \in 1..n : \A r \in Hits(f, k, pkg) :
                                       CalleesForRef(r) \subseteq x.found.owners
      BY <2>11, <3>2, <3>3
    <3>6. /\ y \in Col(d) /\ Gains(P, x, y)
          /\ y.found.stops = {} /\ x.ok =>
                 \A r \in Hits(f, n + 1, pkg) : CalleesForRef(r) \subseteq y.found.owners
      BY <2>4, <3>2, <3>4, <3>5
    <3>7. Gains(P, open, y) /\ Gains(P, first, y)
      BY <3>5, <3>6, GainsOn
    <3>8. ASSUME y.found.stops = {}, NEW k \in 1..(n + 1), NEW r \in Hits(f, k, pkg)
          PROVE  CalleesForRef(r) \subseteq y.found.owners
      <4>1. x.found.stops = {} /\ x.found.owners \subseteq y.found.owners
        BY <3>6, <3>8 DEF Gains
      <4>2. x.ok
        BY <2>1, <3>5, <4>1 DEF Gains
      <4>3. k = n + 1 \/ k \in 1..n
        OBVIOUS
      <4>4. QED
        BY <3>5, <3>6, <3>8, <4>1, <4>2, <4>3
    <3>9. QED
      BY <3>3, <3>6, <3>7, <3>8
  <2>12. N \in T
    <3> HIDE DEF T
    <3>1. QED
      BY <1>2, <2>10, <2>11, Climbing
  <2>13. /\ Gains(P, open, b) /\ Gains(P, first, b)
         /\ b.found.stops = {} => \A k \in 1..N : \A r \in Hits(f, k, pkg) :
                                      CalleesForRef(r) \subseteq b.found.owners
    BY <1>2, <1>4, <2>12
  <2>14. Gains(P, AtWork, b)
    BY <2>1, <2>13, GainsOn
  <2>15. ASSUME b.found.stops = {}, Shown(AtWork), HasEvidence(f)
         PROVE  f \in b.found.owners
    <3>1. first.found.stops = {} /\ first.found.owners \subseteq b.found.owners
      BY <2>13, <2>15 DEF Gains
    <3>2. Shown(first)
      BY <2>1, <2>3, <2>15, <3>1 DEF Gains
    <3>3. QED
      BY <2>3, <2>15, <3>1, <3>2 DEF Shown
  <2>16. ASSUME NEW r \in Hit(f)
         PROVE  \E k \in 1..N : r \in Hits(f, k, pkg)
    <3>1. PICK k \in DOMAIN Code(f) : r \in RefsAt(f, k)
      BY DEF Hit, Refs
    <3>2. r \in Hits(f, k, pkg)
      BY <3>1 DEF Hit, Hits, StartsOf
    <3>3. QED
      BY <1>2, <3>1, <3>2
  <2>17. QED
    BY <2>13, <2>14, <2>15, <2>16 DEF P
<1>5. \/ \E reason \in StopReasons : b = Ended(AtWork, pkg, reason)
      \/ b = after[N]
  <2>1. b = CASE cut = 0 -> Ended(AtWork, pkg, "duration_budget")
              [] cut > 0 /\ AtLimit(Cardinality(found.owners), opts.owners) ->
                     Ended(AtWork, pkg, "owner_budget")
              [] cut > 0 /\ AtLimit(found.instrs, opts.instrs) ->
                     Ended(AtWork, pkg, "instruction_budget")
              [] cut > 0 /\ AtLimit(cover[pkg].functions, opts.perPackage) ->
                     Ended(AtWork, pkg, "package_function_budget")
              [] OTHER -> after[N]
    BY DEF ScanOwner, Ended, AtWork
  <2> HIDE DEF after
  <2>2. {"duration_budget", "instruction_budget", "owner_budget", "package_function_budget"}
        \subseteq StopReasons
    BY DEF StopReasons
  <2>3. \/ b = Ended(AtWork, pkg, "duration_budget")
        \/ b = Ended(AtWork, pkg, "owner_budget")
        \/ b = Ended(AtWork, pkg, "instruction_budget")
        \/ b = Ended(AtWork, pkg, "package_function_budget")
        \/ b = after[N]
    BY <2>1
  <2>4. QED
    BY <2>2, <2>3
<1>6. QED
  BY <1>3, <1>4, <1>5

LEMMA TakeStartsGains ==
    ASSUME input \in Inputs, NEW d, NoPackage \notin d, NEW a \in Col(d), a.ok, NEW chosen,
           chosen \in Seq(Fns), \A k \in 1..Len(chosen) : Pkg(chosen[k]) \in d, NEW b,
           b = Taken(a, chosen)
    PROVE  /\ Gains(ToSet(chosen), a, b)
           /\ b.found.stops = {} => ToSet(chosen) \subseteq b.found.owners
<1> DEFINE N == Len(chosen)
           P == ToSet(chosen)
           after == CHOOSE h : h = [k \in 0..N |->
                        IF k = 0 THEN a
                        ELSE IF h[k - 1].ok THEN AddBridge(h[k - 1], NoPackage, chosen[k])
                        ELSE h[k - 1]]
           Step(k, s) == IF s.ok THEN AddBridge(s, NoPackage, chosen[k]) ELSE s
           step == [k \in 1..N |-> [s \in Col(d) |-> Step(k, s)]]
<1>1. N \in Nat /\ DOMAIN chosen = 1..N /\ \A k \in 1..N : chosen[k] \in Fns
  OBVIOUS
<1>2. P = {chosen[k] : k \in 1..N}
  BY <1>1 DEF ToSet
<1>3. b = after[N]
  BY DEF Taken
<1>4. ASSUME NEW k \in 1..N, NEW s \in Col(d)
      PROVE  /\ Step(k, s) \in Col(d) /\ Gains(P, s, Step(k, s))
             /\ Step(k, s).found.stops = {} /\ s.ok => chosen[k] \in Step(k, s).found.owners
  <2>1. CASE s.ok
    <3>1. Step(k, s) = AddBridge(s, NoPackage, chosen[k])
      BY <2>1
    <3> HIDE DEF Step, P, N
    <3>2. PICK t : t = AddBridge(s, NoPackage, chosen[k])
      OBVIOUS
    <3>3. t \in Col(d)
      <4>1. Goes(d, NoPackage, s, t)
        BY <1>1, <3>2, AddBridgeIs DEF N
      <4>2. QED
        BY <4>1 DEF Goes
    <3>4. Gains({chosen[k]}, s, t) /\ (t.found.stops = {} => chosen[k] \in t.found.owners)
      BY <1>1, <3>2, AddBridgeGains DEF N
    <3>5. {chosen[k]} \subseteq P
      BY <1>2
    <3>6. Gains(P, s, t)
      BY <3>4, <3>5 DEF Gains
    <3>7. QED
      BY <3>1, <3>2, <3>3, <3>4, <3>6
  <2>2. CASE ~s.ok
    BY <2>2, GainsNothing
  <2>3. QED
    BY <2>1, <2>2
<1> HIDE DEF P
<1>5. step \in [1..N -> [Col(d) -> Col(d)]]
  BY <1>4
<1>6. PICK h \in [0..N -> Col(d)] : Stepwise(N, a, step, h)
  <2> HIDE DEF N, step
  <2>1. QED
    BY <1>1, <1>5, Recursion
<1>7. h = [k \in 0..N |-> IF k = 0 THEN a ELSE Step(k, h[k - 1])]
  <2>1. \A k \in 1..N : h[k] = Step(k, h[k - 1])
    <3>1. ASSUME NEW k \in 1..N
          PROVE  h[k] = Step(k, h[k - 1])
      <4>1. h[k - 1] \in Col(d) /\ h[k] = step[k][h[k - 1]]
        <5> HIDE DEF step, N
        <5>1. k - 1 \in 0..N
          BY <1>1
        <5>2. QED
          BY <1>6, <5>1 DEF Stepwise
      <4>2. QED
        BY <4>1
    <3>2. QED
      BY <3>1
  <2>2. h[0] = a
    BY <1>6 DEF Stepwise
  <2> HIDE DEF Step, N
  <2>3. QED
    BY <1>1, <1>6, <2>1, <2>2
<1>8. after = [k \in 0..N |-> IF k = 0 THEN a ELSE Step(k, after[k - 1])]
  BY <1>7
<1> DEFINE T == {n \in Nat : n <= N =>
                    /\ after[n] \in Col(d) /\ Gains(P, a, after[n])
                    /\ after[n].found.stops = {} => \A k \in 1..n : chosen[k] \in after[n].found.owners}
<1> HIDE DEF after, Step
<1>9. 0 \in T
  <2>1. after[0] = a
    BY <1>1, <1>8
  <2>2. QED
    BY <2>1, GainsNothing
<1>10. ASSUME NEW n \in Nat, n \in T
       PROVE  n + 1 \in T
  <2>1. SUFFICES ASSUME n + 1 <= N
                 PROVE  /\ after[n + 1] \in Col(d) /\ Gains(P, a, after[n + 1])
                        /\ after[n + 1].found.stops = {} =>
                               \A k \in 1..(n + 1) : chosen[k] \in after[n + 1].found.owners
    OBVIOUS
  <2>2. n + 1 \in 1..N /\ n + 1 \in 0..N /\ n + 1 # 0 /\ (n + 1) - 1 = n /\ n <= N
    BY <1>1, <2>1
  <2>3. PICK x, y : x = after[n] /\ y = after[n + 1]
    OBVIOUS
  <2>4. y = Step(n + 1, x)
    BY <1>8, <2>2, <2>3
  <2>5. /\ x \in Col(d) /\ Gains(P, a, x)
        /\ x.found.stops = {} => \A k \in 1..n : chosen[k] \in x.found.owners
    BY <1>10, <2>2, <2>3
  <2>6. /\ y \in Col(d) /\ Gains(P, x, y)
        /\ y.found.stops = {} /\ x.ok => chosen[n + 1] \in y.found.owners
    BY <1>4, <2>2, <2>4, <2>5
  <2>7. Gains(P, a, y)
    BY <2>5, <2>6, GainsOn
  <2>8. ASSUME y.found.stops = {}, NEW k \in 1..(n + 1)
        PROVE  chosen[k] \in y.found.owners
    <3>1. x.found.stops = {} /\ x.found.owners \subseteq y.found.owners
      BY <2>6, <2>8 DEF Gains
    <3>2. x.ok
      BY <2>5, <3>1 DEF Gains
    <3>3. k = n + 1 \/ k \in 1..n
      OBVIOUS
    <3>4. QED
      BY <2>5, <2>6, <2>8, <3>1, <3>2, <3>3
  <2>9. QED
    BY <2>3, <2>6, <2>7, <2>8
<1>11. N \in T
  <2> HIDE DEF T
  <2>1. QED
    BY <1>1, <1>9, <1>10, Climbing
<1>12. QED
  BY <1>1, <1>2, <1>3, <1>11 DEF P

\* All starts, in the order in which they are taken.
LEMMA StartsListed ==
    ASSUME input \in Inputs, NEW S, S \subseteq Fns
    PROVE  ToSet(StartSeq(S)) = S
<1> DEFINE P == {f \in S : ~prog.fn[f].recv}
           Q == {f \in S : prog.fn[f].recv}
<1>1. P \subseteq Fns /\ Q \subseteq Fns /\ P \cup Q = S /\ StartSeq(S) = Ascending(P) \o Ascending(Q)
  BY DEF StartSeq
<1> HIDE DEF P, Q
<1>2. /\ Ascending(P) \in Seq(P) /\ Ascending(Q) \in Seq(Q)
      /\ ToSet(Ascending(P)) = P /\ ToSet(Ascending(Q)) = Q
  BY <1>1, FnsListed
<1>3. PICK a, b : a = Ascending(P) /\ b = Ascending(Q)
  OBVIOUS
<1>4. a \in Seq(S) /\ b \in Seq(S)
  BY <1>1, <1>2, <1>3
<1>5. ToSet(a \o b) = ToSet(a) \cup ToSet(b)
  BY <1>4, JoinedSet
<1>6. QED
  BY <1>1, <1>2, <1>3, <1>5

\* As long as the bridge goes on, only what it has gathered changes.
LEMMA StillBridging ==
    ASSUME SeedInv, phase \in {"starts", "bridge"}, phase' = "bridge",
           UNCHANGED <<input, graph, callers, why, diags>>, GatherInv'
    PROVE  SeedInv'
<1>1. TraceInv'
  BY TracedKept DEF SeedInv, Uncut
<1>2. Unseeded /\ "targeted_completed" \notin diags
  BY DEF SeedInv, PhaseInv, Early, Seeded
<1>3. PhaseInv'
  BY <1>2, SameSeeds DEF PhaseInv
<1>4. DoneInv' /\ ReverseInv' /\ AdjacentInv' /\ FrontSeeds' /\ OracleInv'
  BY DEF DoneInv, Seeded, ReverseInv, AdjacentInv, FrontSeeds, OracleInv
<1>5. QED
  BY <1>1, <1>3, <1>4 DEF SeedInv

LEMMA SameParts ==
    ASSUME UNCHANGED input, found'.starts = found.starts
    PROVE  /\ \A p : Part(found.starts, p)' = Part(found.starts, p)
           /\ \A f : Hit(f)' = Hit(f)
<1>1. /\ Fns' = Fns /\ \A f : HasEvidence(f)' = HasEvidence(f)
      /\ \A f : Refs(f)' = Refs(f) /\ Pkg(f)' = Pkg(f)
      /\ \A r : CalleesForRef(r)' = CalleesForRef(r)
  BY SameSeeds
<1>2. \A p : Holders(found.starts, p)' = Holders(found.starts, p)
  BY <1>1 DEF Holders
<1>3. \A p : PassedTo(found.starts, p)' = PassedTo(found.starts, p)
  BY <1>1, <1>2 DEF PassedTo
<1>4. \A p : Part(found.starts, p)' = Part(found.starts, p)
  BY <1>1, <1>2, <1>3 DEF Part
<1>5. \A f : Hit(f)' = Hit(f)
  BY <1>1 DEF Hit
<1>6. QED
  BY <1>4, <1>5

LEMMA SelectStartsSeeds ==
    ASSUME TypeInv, SeedInv, SelectStarts
    PROVE  SeedInv'
<1>1. UNCHANGED <<input, graph, callers, why, diags>> /\ phase = "starts" /\ phase' = "bridge"
      /\ input \in Inputs /\ Starts \subseteq Fns
  BY DEF SelectStarts, BridgeUnchanged, TypeInv, GraphOK, Starts
<1> DEFINE order == StartSeq(Starts)
           limit == IF opts.starts > 0 /\ opts.starts < Len(order)
                    THEN opts.starts ELSE Len(order)
           chosen == SubSeq(order, 1, limit)
           S == ToSet(chosen)
           d == {Pkg(f) : f \in S}
           Size(p) == Cardinality({f \in S : Pkg(f) = p})
           stop == IF limit < Len(order) THEN {"start_budget"} ELSE {}
           a == [found |-> [Nothing EXCEPT !.starts = S, !.stops = stop],
                 cover |-> [p \in d |-> NewCover(Size(p))], ok |-> TRUE]
           b == LET after[k \in 0..Len(chosen)] ==
                        IF k = 0 THEN a
                        ELSE IF after[k - 1].ok
                        THEN AddBridge(after[k - 1], NoPackage, chosen[k])
                        ELSE after[k - 1]
                IN  after[Len(chosen)]
           size == [p \in d |-> Size(p)]
<1>2. found' = b.found /\ cover' = b.cover
  BY DEF SelectStarts
<1>3. a = Fresh(d, size, S, stop)
  <2>1. [p \in d |-> NewCover(size[p])] = [p \in d |-> NewCover(Size(p))]
    OBVIOUS
  <2>2. QED
    BY <2>1 DEF Fresh
<1>4. /\ d = {Pkg(f) : f \in S} /\ size = [p \in d |-> Cardinality({f \in S : Pkg(f) = p})]
      /\ stop = IF limit < Len(order) THEN {"start_budget"} ELSE {}
  OBVIOUS
<1>5. /\ order = StartSeq(Starts)
      /\ limit = IF opts.starts > 0 /\ opts.starts < Len(order)
                 THEN opts.starts ELSE Len(order)
      /\ chosen = SubSeq(order, 1, limit) /\ S = ToSet(chosen)
  OBVIOUS
<1>6. b = Taken(a, chosen)
  BY DEF Taken
<1>7. a.ok /\ a.found = [Nothing EXCEPT !.starts = S, !.stops = stop]
  OBVIOUS
<1> HIDE DEF order, limit, chosen, S, d, Size, stop, a, b, size
<1>8. /\ chosen \in Seq(Starts) /\ Len(chosen) = limit /\ limit \in Nat
      /\ S \subseteq Fns /\ \A k \in 1..limit : chosen[k] \in S
  BY <1>1, <1>5, ChosenStarts
<1>9. d \subseteq Pkgs /\ NoPackage \notin d /\ size \in [d -> Nat]
  <2>1. \A f \in Fns : Pkg(f) \in Nat \ {0}
    BY <1>1, ProgramIs
  <2>2. \A p : Cardinality({f \in S : Pkg(f) = p}) \in Nat
    BY <1>1, <1>8, FnsListed
  <2>3. QED
    BY <1>4, <1>8, <2>1, <2>2 DEF Pkgs, NoPackage
<1>10. /\ a \in Col(d) /\ a.found.starts = S /\ a.found.owners = {} /\ a.found.bounded = {}
       /\ a.found.scanned = {} /\ a.found.candidates = {} /\ a.found.stops = stop
  <2>1. stop \subseteq {"start_budget"}
    BY <1>4
  <2>2. IsFresh(d, S, stop, a)
    BY <1>1, <1>3, <1>8, <1>9, <2>1, FreshIs
  <2>3. a.found.owners = {} /\ a.found.bounded = {} /\ a.found.scanned = {}
    BY <1>7 DEF Nothing
  <2>4. QED
    BY <2>2, <2>3 DEF IsFresh
<1>11. chosen \in Seq(Fns) /\ \A k \in 1..Len(chosen) : Pkg(chosen[k]) \in d
  BY <1>1, <1>4, <1>8
<1>12. /\ Goes(d, NoPackage, a, b) /\ b.found.candidates = {} /\ Gains(S, a, b)
       /\ b.found.stops = {} => S \subseteq b.found.owners
  <2>1. Goes(d, NoPackage, a, b) /\ b.found.candidates = {}
    BY <1>1, <1>6, <1>9, <1>10, <1>11, TakeStarts
  <2>2. /\ Gains(ToSet(chosen), a, b)
        /\ b.found.stops = {} => ToSet(chosen) \subseteq b.found.owners
    BY <1>1, <1>6, <1>7, <1>9, <1>10, <1>11, TakeStartsGains
  <2>3. QED
    BY <1>5, <2>1, <2>2
<1>13. /\ b.found.starts = S /\ b.found.scanned = {} /\ b.found.owners \subseteq S
       /\ b.found.bounded \subseteq b.found.owners /\ DOMAIN b.cover = d
       /\ b.found.stops = {} => stop = {}
  BY <1>10, <1>12 DEF Goes, Moves, Col, Gains, Inside
<1>14. stop = {} => S = Starts
  <2>1. SUFFICES ASSUME stop = {}
                 PROVE  S = Starts
    OBVIOUS
  <2>2. PICK o, n : o = order /\ n = Len(o) /\ n \in Nat /\ o \in Seq(Starts)
    BY <1>1, <1>5, StartSeqIs
  <2>3. limit = n
    <3>1. opts.starts \in Nat
      BY <1>1, EntryAssumption DEF opts, Numbers
    <3>2. ~(limit < n)
      BY <1>4, <2>1, <2>2
    <3>3. QED
      BY <1>5, <2>2, <3>1, <3>2
  <2>4. chosen = o
    BY <1>5, <2>2, <2>3
  <2>5. QED
    BY <1>1, <1>5, <2>2, <2>4, StartsListed
<1>15. GatherInv'
  <2>1. Starts' = Starts /\ DOMAIN cover' = {Pkg(s)' : s \in found'.starts}
    <3>1. \A f : Pkg(f)' = Pkg(f)
      BY <1>1, SameSeeds
    <3>2. QED
      BY <1>1, <1>2, <1>4, <1>13, <3>1 DEF Starts
  <2>2. found'.owners \subseteq found'.starts /\ found'.bounded \subseteq found'.owners
    BY <1>2, <1>13
  <2>3. found'.stops = {} => /\ found'.starts = Starts' /\ Starts' \subseteq found'.owners
                             /\ found'.candidates = {} /\ found'.scanned = {}
    BY <1>2, <1>12, <1>13, <1>14, <2>1
  <2>4. QED
    BY <2>1, <2>2, <2>3 DEF GatherInv
<1>16. QED
  BY <1>1, <1>15, StillBridging

LEMMA StartPackageSeeds ==
    ASSUME TypeInv, SeedInv, StartPackage
    PROVE  SeedInv'
<1>1. /\ UNCHANGED <<input, graph, callers, why, diags>> /\ phase = "bridge" /\ phase' = "bridge"
      /\ queue # <<>> /\ input \in Inputs /\ FoundOK /\ queue \in Seq(DOMAIN cover)
  BY DEF StartPackage, BridgeUnchanged, TypeInv, PlaceOK
<1>2. PICK pkg, full : pkg = Head(queue) /\ full = AtLimit(Cardinality(found.packages), opts.packages)
  OBVIOUS
<1>3. PICK t \in Ticks(1, opts.clock) :
          LET st == [found |-> found, cover |-> [cover EXCEPT ![pkg].scheduled = TRUE],
                     ok |-> TRUE]
              end == IF t[1] THEN StopIn(st, pkg, "duration_budget")
                     ELSE IF full THEN StopIn(st, pkg, "package_budget")
                     ELSE [st EXCEPT !.found.packages = @ \cup {pkg},
                                     !.cover[pkg].scanned = TRUE]
          IN  found' = end.found /\ cover' = end.cover
  BY <1>2 DEF StartPackage
<1> DEFINE d == DOMAIN cover
<1>4. /\ pkg \in d /\ NoPackage \notin d /\ cover \in [d -> CoverType] /\ found \in FoundType
  <2>1. NoPackage \notin Pkgs /\ d \subseteq Pkgs
    BY <1>1, ProgramIs DEF Pkgs, NoPackage, FoundOK, IsCover
  <2>2. QED
    BY <1>1, <1>2, <2>1 DEF FoundOK, IsCover
<1> HIDE DEF d
<1>5. PICK st : st = [found |-> found, cover |-> [cover EXCEPT ![pkg].scheduled = TRUE], ok |-> TRUE]
  OBVIOUS
<1>6. st \in Col(d) /\ st.found = found
  <2>1. PICK q : q = [cover[pkg] EXCEPT !.scheduled = TRUE]
    OBVIOUS
  <2>2. cover[pkg] \in CoverType
    BY <1>4
  <2>3. q \in CoverType
    BY <2>1, <2>2 DEF CoverType
  <2>4. [cover EXCEPT ![pkg] = q] \in [d -> CoverType]
    BY <1>4, <2>3
  <2>5. [cover EXCEPT ![pkg].scheduled = TRUE] = [cover EXCEPT ![pkg] = q]
    BY <2>1
  <2>6. QED
    BY <1>4, <1>5, <2>4, <2>5 DEF Col
<1> DEFINE Same(g) == /\ g.owners = found.owners /\ g.starts = found.starts
                      /\ g.bounded = found.bounded /\ g.candidates = found.candidates
                      /\ g.scanned = found.scanned
<1>7. /\ Same(found') /\ DOMAIN cover' = d
      /\ found'.stops = {} => found.stops = {}
  <2>1. ASSUME NEW reason \in StopReasons, found' = StopIn(st, pkg, reason).found,
               cover' = StopIn(st, pkg, reason).cover
        PROVE  Same(found') /\ DOMAIN cover' = d /\ (found'.stops = {} => found.stops = {})
    <3>1. PICK s : s = StopIn(st, pkg, reason)
      OBVIOUS
    <3>2. s \in Col(d) /\ Cut(found, s.found, reason)
      BY <1>4, <1>6, <3>1, StopInIs
    <3>3. s.found.bounded = found.bounded
      <4>1. PICK e : e = Ended(st, pkg, reason)
        OBVIOUS
      <4>2. e.found = s.found
        BY <3>1, <3>2, <4>1 DEF Ended, Col
      <4>3. e.found.bounded = st.found.bounded
        BY <1>4, <1>6, <4>1, EndedGains
      <4>4. QED
        BY <1>6, <4>2, <4>3
    <3>4. QED
      BY <2>1, <3>1, <3>2, <3>3 DEF Cut, Col
  <2>2. CASE t[1] \/ full
    <3>1. "duration_budget" \in StopReasons /\ "package_budget" \in StopReasons
      BY DEF StopReasons
    <3>2. \E reason \in StopReasons : /\ found' = StopIn(st, pkg, reason).found
                                      /\ cover' = StopIn(st, pkg, reason).cover
      BY <1>3, <1>5, <2>2, <3>1
    <3>3. QED
      BY <2>1, <3>2
  <2>3. CASE ~(t[1] \/ full)
    <3>1. PICK e : e = [st EXCEPT !.found.packages = @ \cup {pkg}, !.cover[pkg].scanned = TRUE]
      OBVIOUS
    <3>2. found' = e.found /\ cover' = e.cover
      BY <1>3, <1>5, <2>3, <3>1
    <3>3. e.found = [found EXCEPT !.packages = @ \cup {pkg}] /\ DOMAIN e.cover = d
      BY <1>6, <3>1 DEF Col
    <3>4. QED
      BY <1>4, <3>2, <3>3 DEF FoundType
  <2>4. QED
    BY <2>2, <2>3
<1>8. GatherInv'
  <2>1. /\ Starts' = Starts /\ \A f : Pkg(f)' = Pkg(f) /\ HasEvidence(f)' = HasEvidence(f)
    BY <1>1, SameSeeds DEF Starts
  <2>0. \A p : Part(found.starts, p)' = Part(found.starts, p)
    BY <1>1, <1>7, SameParts
  <2>2. \A f : Gathered(f) => Gathered(f)'
    <3>1. \A f : Refs(f)' = Refs(f) /\ \A r : CalleesForRef(r)' = CalleesForRef(r)
      BY <1>1, SameSeeds
    <3>2. \A f : Hit(f)' = Hit(f)
      BY <1>1, <1>7, SameParts
    <3>3. QED
      BY <1>7, <2>1, <3>1, <3>2 DEF Gathered
  <2>3. (UNION {Part(found.starts, p) : p \in DOMAIN cover})'
        = UNION {Part(found.starts, p) : p \in DOMAIN cover}
    BY <1>7, <2>0 DEF d
  <2>4. QED
    BY <1>1, <1>7, <2>1, <2>2, <2>3 DEF GatherInv, SeedInv, d
<1>9. QED
  BY <1>1, <1>8, StillBridging

LEMMA ScanOwnerKeeps ==
    ASSUME input \in Inputs, FoundOK, NEW d, d = DOMAIN cover, NEW pkg \in d, NoPackage \notin d,
           NEW f \in Fns, NEW cut \in 0..Len(Code(f)) + 1,
           cut # Len(Code(f)) + 1 => opts.clock, NEW b, b = ScanOwner(pkg, f, cut)
    PROVE  /\ b \in Col(d) /\ b.found.starts = found.starts
           /\ b.found.scanned \subseteq found.scanned \cup {f}
<1>1. AtWork \in Col(d) /\ AtWork.found = found
  BY AtWorkIs
<1>2. Goes(d, pkg, AtWork, b) \/ WellScanned(d, pkg, f, b)
  BY ScanOwnerIs
<1>3. CASE Goes(d, pkg, AtWork, b)
  BY <1>1, <1>3 DEF Goes, Moves
<1>4. CASE WellScanned(d, pkg, f, b)
  <2>1. PICK c : Opens(d, pkg, f, AtWork, c) /\ Goes(d, pkg, c, b)
    BY <1>4 DEF WellScanned
  <2>2. /\ c.found.starts = found.starts /\ c.found.scanned = found.scanned \cup {f}
    BY <1>1, <2>1 DEF Opens
  <2>3. QED
    BY <2>1, <2>2 DEF Goes, Moves
<1>5. QED
  BY <1>2, <1>3, <1>4

LEMMA BridgeOwnerSeeds ==
    ASSUME TypeInv, Bridging, SeedInv, BridgeOwner
    PROVE  SeedInv'
<1>1. /\ UNCHANGED <<input, graph, callers, why, diags>> /\ phase = "bridge" /\ phase' = "bridge"
      /\ at > 0 /\ input \in Inputs /\ FoundOK
  BY DEF BridgeOwner, BridgeUnchanged, TypeInv
<1>2. PICK pkg, order, whole : /\ pkg = Head(queue) /\ order = FnsOf(pkg)
                               /\ whole = (at > Len(order))
  OBVIOUS
<1>3. PICK never : never = IF whole THEN 0 ELSE Len(Code(order[at])) + 1
  OBVIOUS
<1>4. PICK cut \in IF opts.clock THEN 0..never ELSE {never} :
          LET st == IF whole THEN [found |-> found, cover |-> cover, ok |-> TRUE]
                    ELSE ScanOwner(pkg, order[at], cut)
          IN  found' = st.found /\ cover' = [st.cover EXCEPT ![pkg].completed = whole]
  BY <1>2, <1>3 DEF BridgeOwner
<1> DEFINE d == DOMAIN cover
<1>5. /\ queue # <<>> /\ pkg \in d /\ NoPackage \notin d /\ at \in Nat
      /\ Len(order) \in Nat /\ ToSet(order) = {f \in Fns : Pkg(f) = pkg}
      /\ ToSet(order) = {order[k] : k \in 1..Len(order)}
  <2>1. /\ at \in Nat /\ (at > 0 => queue # <<>>) /\ NoPackage \notin DOMAIN cover
        /\ queue # <<>> => Head(queue) \in DOMAIN cover
        /\ \A p : /\ Len(FnsOf(p)) \in Nat /\ ToSet(FnsOf(p)) = {f \in Fns : Pkg(f) = p}
                  /\ ToSet(FnsOf(p)) = {FnsOf(p)[k] : k \in 1..Len(FnsOf(p))}
    BY <1>1, BridgeAt
  <2>2. QED
    BY <1>1, <1>2, <2>1
<1>6. /\ AtWork \in Col(d) /\ AtWork.ok = TRUE /\ AtWork.found = found /\ AtWork.cover = cover
  BY <1>1, AtWorkIs
<1> HIDE DEF d
<1>7. \E b, f : /\ Gains(Part(found.starts, pkg), AtWork, b) /\ b \in Col(d)
                /\ b.found.starts = found.starts
                /\ b.found.scanned \subseteq found.scanned \cup f
                /\ b.found.stops = {} /\ Shown(AtWork) => \A g \in f :
                       /\ HasEvidence(g) => g \in b.found.owners
                       /\ \A r \in Hit(g) : CalleesForRef(r) \subseteq b.found.owners
                /\ found' = b.found /\ DOMAIN cover' = DOMAIN b.cover
  <2>1. CASE whole
    <3>1. found' = found /\ cover' = [cover EXCEPT ![pkg].completed = whole]
      BY <1>4, <2>1
    <3>2. DOMAIN cover' = d
      BY <3>1 DEF d
    <3>3. Gains(Part(found.starts, pkg), AtWork, AtWork)
      BY GainsNothing
    <3>4. DOMAIN AtWork.cover = d
      BY <1>6 DEF d
    <3>5. /\ AtWork.found.scanned \subseteq found.scanned \cup {}
          /\ found' = AtWork.found /\ DOMAIN cover' = DOMAIN AtWork.cover
          /\ AtWork.found.starts = found.starts
      BY <1>6, <3>1, <3>2, <3>4
    <3>6. QED
      BY <1>6, <3>3, <3>5
  <2>2. CASE ~whole
    <3>1. PICK f, b : f = order[at] /\ b = ScanOwner(pkg, f, cut)
      OBVIOUS
    <3>2. f \in Fns /\ Pkg(f) = pkg
      <4>1. PICK n : n = Len(order) /\ n \in Nat
        BY <1>5
      <4>2. ~(at > n)
        BY <1>2, <2>2, <4>1
      <4>3. at > 0
        BY <1>1
      <4>4. at \in 1..n
        BY <1>5, <4>1, <4>2, <4>3
      <4>5. QED
        BY <1>5, <3>1, <4>1, <4>4
    <3>3. Len(Code(f)) \in Nat
      BY <1>1, <3>2, ProgramIs
    <3>4. cut \in 0..Len(Code(f)) + 1 /\ (cut # Len(Code(f)) + 1 => opts.clock)
      BY <1>3, <1>4, <2>2, <3>1, <3>3
    <3>5. /\ b \in Col(d) /\ b.found.starts = found.starts
          /\ b.found.scanned \subseteq found.scanned \cup {f}
      BY <1>1, <1>5, <3>1, <3>2, <3>4, ScanOwnerKeeps DEF d
    <3>6. /\ Gains(Part(found.starts, pkg), AtWork, b)
          /\ b.found.stops = {} /\ Shown(AtWork) =>
                 /\ HasEvidence(f) => f \in b.found.owners
                 /\ \A r \in Hit(f) : CalleesForRef(r) \subseteq b.found.owners
      BY <1>1, <1>5, <3>1, <3>2, <3>4, ScanOwnerGains DEF d
    <3>7. found' = b.found /\ cover' = [b.cover EXCEPT ![pkg].completed = whole]
      BY <1>4, <2>2, <3>1
    <3>8. DOMAIN cover' = DOMAIN b.cover
      BY <3>7
    <3>9. b.found.stops = {} /\ Shown(AtWork) => \A g \in {f} :
              /\ HasEvidence(g) => g \in b.found.owners
              /\ \A r \in Hit(g) : CalleesForRef(r) \subseteq b.found.owners
      BY <3>6
    <3>10. QED
      BY <3>5, <3>6, <3>7, <3>8, <3>9
  <2>3. QED
    BY <2>1, <2>2
<1>8. PICK b, F : /\ Gains(Part(found.starts, pkg), AtWork, b) /\ b \in Col(d)
                  /\ b.found.starts = found.starts
                  /\ b.found.scanned \subseteq found.scanned \cup F
                  /\ b.found.stops = {} /\ Shown(AtWork) => \A g \in F :
                         /\ HasEvidence(g) => g \in b.found.owners
                         /\ \A r \in Hit(g) : CalleesForRef(r) \subseteq b.found.owners
                  /\ found' = b.found /\ DOMAIN cover' = DOMAIN b.cover
  BY <1>7
<1>9. DOMAIN cover' = d
  BY <1>8 DEF Col
<1>10. /\ found.owners \subseteq found.starts \cup UNION {Part(found.starts, p) : p \in d}
       /\ found.bounded \subseteq found.owners /\ d = {Pkg(s) : s \in found.starts}
       /\ found.stops = {} => /\ found.starts = Starts /\ Starts \subseteq found.owners
                              /\ Shown(AtWork) /\ \A f \in found.scanned : Gathered(f)
  BY <1>1, <1>6 DEF SeedInv, GatherInv, Shown, d
<1>11. /\ found.owners \subseteq found'.owners
       /\ found'.owners \subseteq found.owners \cup Part(found.starts, pkg)
       /\ found'.bounded \subseteq found'.owners /\ found'.starts = found.starts
       /\ found'.stops = {} => found.stops = {} /\ Shown(b)
  BY <1>6, <1>8, <1>10 DEF Gains, Inside
<1>12. /\ Starts' = Starts /\ \A f : Pkg(f)' = Pkg(f) /\ HasEvidence(f)' = HasEvidence(f)
  BY <1>1, SameSeeds DEF Starts
<1>13. /\ \A p : Part(found.starts, p)' = Part(found.starts, p)
       /\ \A f : Hit(f)' = Hit(f)
  BY <1>1, <1>11, SameParts
<1>14. (UNION {Part(found.starts, p) : p \in DOMAIN cover})' = UNION {Part(found.starts, p) : p \in d}
  BY <1>9, <1>13
<1>15. ASSUME found'.stops = {}
       PROVE  /\ found'.starts = Starts' /\ Starts' \subseteq found'.owners
              /\ \A f \in found'.candidates : HasEvidence(f)' => f \in found'.owners
              /\ \A f \in found'.scanned : Gathered(f)'
  <2>1. found'.starts = Starts' /\ Starts' \subseteq found'.owners
    BY <1>10, <1>11, <1>12, <1>15
  <2>2. \A f \in found'.candidates : HasEvidence(f)' => f \in found'.owners
    BY <1>8, <1>11, <1>12, <1>15 DEF Shown
  <2>3. ASSUME NEW f \in found'.scanned
        PROVE  /\ HasEvidence(f) => f \in found'.owners
               /\ \A r \in Hit(f) : CalleesForRef(r) \subseteq found'.owners
    <3>1. CASE f \in found.scanned
      BY <1>10, <1>11, <1>15, <3>1 DEF Gathered
    <3>2. CASE f \in F
      BY <1>8, <1>10, <1>11, <1>15, <3>2
    <3>3. QED
      BY <1>8, <3>1, <3>2
  <2>4. \A r : CalleesForRef(r)' = CalleesForRef(r)
    BY <1>1, SameSeeds
  <2>5. \A f \in found'.scanned : Gathered(f)'
    BY <1>12, <1>13, <2>3, <2>4 DEF Gathered
  <2>6. QED
    BY <2>1, <2>2, <2>5
<1>16. GatherInv'
  <2>1. found'.owners \subseteq found'.starts \cup UNION {Part(found.starts, p) : p \in d}
    BY <1>5, <1>10, <1>11
  <2>2. DOMAIN cover' = {Pkg(s)' : s \in found'.starts}
    BY <1>9, <1>10, <1>11, <1>12
  <2>3. QED
    BY <1>11, <1>14, <1>15, <2>1, <2>2 DEF GatherInv
<1>17. QED
  BY <1>1, <1>16, StillBridging

\* When no limit has stopped the bridge, it has gathered all there is.
LEMMA GatheredAll ==
    ASSUME TypeInv, Bridging, GatherInv, phase = "bridge", at = 0, queue = <<>>,
           found.stops = {}
    PROVE  found.owners = BridgeOf(Starts)
<1>1. PICK S, O, d : S = Starts /\ O = found.owners /\ d = DOMAIN cover
  OBVIOUS
<1>2. /\ found.starts = S /\ S \subseteq O /\ d = {Pkg(s) : s \in S}
      /\ O \subseteq S \cup UNION {Part(S, p) : p \in d}
      /\ \A f \in found.scanned : Gathered(f)
  BY <1>1 DEF GatherInv
<1>3. BridgeOf(S) = S \cup UNION {Part(S, p) : p \in d}
  BY <1>2, Zenon DEF BridgeOf, Part
<1>4. ASSUME NEW p \in d
      PROVE  Part(S, p) \subseteq O
  <2>1. /\ Holders(S, p) \subseteq O
        /\ \A f \in Fns : Pkg(f) = p => f \in found.scanned
    <3>1. ToSet(queue) = {}
      BY DEF ToSet
    <3>2. cover[p].scheduled /\ cover[p].completed
      BY <1>1, <1>4, <3>1 DEF Bridging, AtHand, Tried
    <3>3. Whole(p)
      BY <1>1, <1>4, <3>2 DEF Bridging
    <3>4. ToSet(FnsOf(p)) = {f \in Fns : Pkg(f) = p}
      BY FnsListed DEF TypeInv, FnsOf
    <3>5. QED
      BY <1>1, <1>2, <3>3, <3>4 DEF Whole
  <2>2. ASSUME NEW f \in Fns, Pkg(f) = p
        PROVE  /\ HasEvidence(f) => f \in O
               /\ \A r \in Refs(f) : (\E s \in S : Pkg(s) = p /\ r.operand = <<s, 0>>) =>
                      CalleesForRef(r) \subseteq O
    BY <1>1, <1>2, <2>1, <2>2 DEF Gathered, Hit
  <2>3. PassedTo(S, p) \subseteq O
    <3>1. ASSUME NEW g \in PassedTo(S, p)
          PROVE  g \in O
      <4>0. PICK f \in Holders(S, p) : \E r \in Refs(f) :
                (\E s \in S : Pkg(s) = p /\ r.operand = <<s, 0>>) /\ g \in CalleesForRef(r)
        BY <3>1, Zenon DEF PassedTo
      <4>1. PICK r \in Refs(f) :
                (\E s \in S : Pkg(s) = p /\ r.operand = <<s, 0>>) /\ g \in CalleesForRef(r)
        BY <4>0
      <4>2. f \in Fns /\ Pkg(f) = p
        BY <4>1 DEF Holders
      <4>3. QED
        BY <2>2, <4>1, <4>2
    <3>2. QED
      BY <3>1
  <2>4. QED
    BY <2>1, <2>2, <2>3 DEF Part
<1>5. QED
  BY <1>1, <1>2, <1>3, <1>4

LEMMA AssembleBridgeSeeds ==
    ASSUME TypeInv, ModeInv, Bridging, SeedInv, AssembleBridge
    PROVE  SeedInv'
<1>1. /\ UNCHANGED <<input, graph, callers, diags, found>> /\ phase = "bridge" /\ at = 0
      /\ queue = <<>> /\ phase' = "index" /\ input \in Inputs
      /\ why' = AddBoundary(Add(why, found.owners, "bridge"), found.bounded)
  BY DEF AssembleBridge, BridgeUnchanged, TypeInv
<1>2. Unseeded /\ "targeted_completed" \notin diags /\ Mode = "bridge" /\ GatherInv
  BY <1>1 DEF SeedInv, PhaseInv, Early, Seeded, ModeInv
<1>3. /\ Mode' = Mode /\ Frontier' = Frontier /\ Starts' = Starts
      /\ \A T : BridgeOf(T)' = BridgeOf(T)
  BY <1>1, SameSeeds DEF Starts
<1>4. TraceInv'
  BY <1>1, TracedKept DEF SeedInv, Uncut
<1>5. PhaseInv'
  BY <1>1, <1>2, <1>3 DEF PhaseInv, Early
<1>6. Owners' = found.owners
  <2>1. "bridge" \in SeedReasons /\ why \in [Fns -> SUBSET SeedReasons]
    BY DEF SeedReasons, SeedsOK, TypeInv
  <2>2. PICK w : w = Add(why, found.owners, "bridge")
    OBVIOUS
  <2>3. w \in [Fns -> SUBSET SeedReasons] /\ {f \in Fns : w[f] # {}} = found.owners
    <3>1. w \in [Fns -> SUBSET SeedReasons]
      BY <2>1, <2>2, AddIs
    <3>2. found.owners \subseteq Fns
      BY DEF TypeInv, FoundOK, FoundType
    <3>3. \A f \in Fns : w[f] = IF f \in found.owners THEN {"bridge"} ELSE {}
      BY <1>2, <2>2 DEF Add, Unseeded
    <3>4. QED
      BY <3>1, <3>2, <3>3
  <2>4. Owners' = {f \in Fns : w[f] # {}} \cup (Bounded(found.bounded) \cap Fns)
    BY <1>1, <2>2, <2>3, AddedBoundary
  <2>5. Bounded(found.bounded) \subseteq found.owners
    BY <1>1, <1>2 DEF GatherInv, Bounded
  <2>6. QED
    BY <2>3, <2>4, <2>5
<1>7. BridgeDone'
  <2>1. found.stops = {} => Owners' = BridgeOf(Starts)
    BY <1>1, <1>2, <1>6, GatheredAll
  <2>2. BridgeOf(Starts)' = BridgeOf(Starts)
    <3>1. PICK T : T = Starts
      OBVIOUS
    <3>2. BridgeOf(T)' = BridgeOf(T)
      BY <1>3
    <3>3. BridgeOf(Starts)' = BridgeOf(T)'
      BY <1>3, <3>1 DEF BridgeOf, Holders, PassedTo
    <3>4. QED
      BY <3>1, <3>2, <3>3
  <2>3. QED
    BY <1>1, <2>1, <2>2 DEF BridgeDone
<1>8. DoneInv'
  BY <1>1, <1>2, <1>3, <1>7 DEF DoneInv, PathsDone, SinksDone, FrontDone, ExpandDone, OracleDone
<1>9. FrontSeeds'
  BY <1>1 DEF FrontSeeds
<1>10. QED
  BY <1>1, <1>4, <1>5, <1>8, <1>9, OtherPhases

-----------------------------------------------------------------------------
(* The oracle.                                                             *)

LEMMA CalleesIn ==
    ASSUME input \in Inputs, NEW f \in Fns, NEW r \in Refs(f)
    PROVE  CalleesForRef(r) \subseteq Fns
<1>1. PICK n \in DOMAIN Code(f) : r \in RefsAt(f, n)
  BY DEF Refs
<1>2. InstrOf(r) = Code(f)[n]
  BY <1>1, RefIs
<1>3. InstrOf(r).callee \in {0} \cup Fns
  BY <1>2, InstrIs
<1>4. QED
  BY <1>3 DEF CalleesForRef

LEMMA SetEnds ==
    ASSUME NEW n \in Nat, NEW T, T \subseteq 1..n, NEW m, m = Max({0} \cup T), ~(m < n)
    PROVE  m = n
<1>1. PICK V : V = {0} \cup T
  OBVIOUS
<1>2. V \subseteq 0..n /\ 0 \in V
  BY <1>1
<1>3. PICK W : W = {n - v : v \in V}
  OBVIOUS
<1>4. W \subseteq Nat /\ W # {}
  BY <1>2, <1>3
<1>5. PICK w \in W : \A y \in W : w <= y
  BY <1>4, Least
<1>6. PICK x \in V : w = n - x
  BY <1>3, <1>5
<1>7. \A y \in V : x >= y
  <2>1. ASSUME NEW y \in V
        PROVE  x >= y
    <3>1. n - y \in W
      BY <1>3
    <3>2. n - x <= n - y
      BY <1>5, <1>6, <3>1
    <3>3. x \in 0..n /\ y \in 0..n
      BY <1>2
    <3>4. QED
      BY <3>2, <3>3
  <2>2. QED
    BY <2>1
<1>8. Max(V) \in V
  BY <1>7 DEF Max
<1>9. m \in 0..n
  BY <1>1, <1>2, <1>8
<1>10. QED
  BY <1>9

StepsFrom(start, owners) ==
    Concat([k \in DOMAIN owners |-> <<owners[k]>> \o Ascending(ReceiversOf(start, owners[k]))])

\* A start whose package is looked through to the end brings the bridge from it.
LEMMA OracleGathers ==
    ASSUME input \in Inputs, NEW start \in Fns, NEW n, n = Len(FnsOf(Pkg(start))),
           NEW looked, looked = OracleOwners(start, n),
           NEW steps, steps = StepsFrom(start, Ascending(looked.hold \cup looked.evident))
    PROVE  /\ steps \in Seq(Fns) /\ looked.evident \subseteq Fns
           /\ Bounded(looked.evident) = looked.evident
           /\ BridgeOf({start}) = ({start} \cup looked.evident) \cup ToSet(steps)
<1>1. PICK p, q : p = Pkg(start) /\ q = FnsOf(p)
  OBVIOUS
<1>0. PICK owners : owners = Ascending(looked.hold \cup looked.evident)
  OBVIOUS
<1>2. q \in Seq(Fns) /\ ToSet(q) = {f \in Fns : Pkg(f) = p} /\ n = Len(q)
  <2>1. PICK S : S = {f \in Fns : Pkg(f) = p}
    OBVIOUS
  <2>2. S \subseteq Fns /\ q = Ascending(S)
    BY <1>1, <2>1 DEF FnsOf
  <2>3. QED
    BY <1>1, <2>1, <2>2, FnsListed
<1>3. SubSeq(q, 1, n) = q
  BY <1>2
<1>4. PICK H, E : H = looked.hold /\ E = looked.evident
  OBVIOUS
<1>5. /\ H = {f \in Fns : Pkg(f) = p /\ \E r \in Refs(f) : r.operand = <<start, 0>>}
      /\ E = {f \in Fns : Pkg(f) = p /\ HasEvidence(f)}
  <2>1. PICK seen : seen = ToSet(q)
    OBVIOUS
  <2>2. /\ looked.hold = {f \in seen : \E r \in Refs(f) : r.operand = <<start, 0>>}
        /\ looked.evident = Bounded(seen)
    BY <1>1, <1>3, <2>1 DEF OracleOwners
  <2>3. QED
    BY <1>2, <1>4, <2>1, <2>2 DEF Bounded
<1>6. H \subseteq Fns /\ E \subseteq Fns /\ Bounded(E) = E
  BY <1>5 DEF Bounded
<1>7. owners \in Seq(Fns) /\ ToSet(owners) = H \cup E
  <2>1. PICK S : S = H \cup E
    OBVIOUS
  <2>2. S \subseteq Fns /\ owners = Ascending(S)
    BY <1>0, <1>4, <1>6, <2>1
  <2>3. QED
    BY <2>1, <2>2, FnsListed
<1>8. PICK R : R = [f \in Fns |-> ReceiversOf(start, f)]
  OBVIOUS
<1>9. ASSUME NEW f \in Fns
      PROVE  R[f] \subseteq Fns /\ (f \notin H /\ Pkg(f) = p => R[f] = {})
  <2>1. R[f] = UNION {CalleesForRef(r) : r \in {x \in Refs(f) : x.operand = <<start, 0>>}}
    BY <1>8 DEF ReceiversOf
  <2>2. \A r \in Refs(f) : CalleesForRef(r) \subseteq Fns
    BY CalleesIn
  <2>3. QED
    BY <1>5, <2>1, <2>2
<1>10. PICK lists : lists = [k \in DOMAIN owners |-> <<owners[k]>> \o Ascending(R[owners[k]])]
  OBVIOUS
<1>11. steps = Concat(lists)
  <2>1. \A k \in DOMAIN owners : owners[k] \in Fns
    BY <1>7
  <2>2. lists = [k \in DOMAIN owners |-> <<owners[k]>> \o Ascending(ReceiversOf(start, owners[k]))]
    BY <1>8, <1>10, <2>1
  <2>3. QED
    BY <1>0, <2>2 DEF StepsFrom
<1>12. ASSUME NEW f \in Fns
       PROVE  /\ <<f>> \o Ascending(R[f]) \in Seq(Fns)
              /\ ToSet(<<f>> \o Ascending(R[f])) = {f} \cup R[f]
  <2>1. PICK a, b : a = <<f>> /\ b = Ascending(R[f])
    OBVIOUS
  <2>2. b \in Seq(Fns) /\ ToSet(b) = R[f]
    BY <1>9, <2>1, FnsListed
  <2>3. a \in Seq(Fns) /\ ToSet(a) = {f}
    BY <2>1 DEF ToSet
  <2>4. a \o b \in Seq(Fns) /\ ToSet(a \o b) = ToSet(a) \cup ToSet(b)
    BY <2>2, <2>3, JoinedSet
  <2>5. QED
    BY <2>1, <2>2, <2>3, <2>4
<1>13. PICK m \in Nat : DOMAIN owners = 1..m /\ \A k \in 1..m : owners[k] \in Fns
  <2>1. Len(owners) \in Nat /\ DOMAIN owners = 1..Len(owners)
    BY <1>7
  <2>2. \A k \in DOMAIN owners : owners[k] \in Fns
    BY <1>7
  <2>3. QED
    BY <2>1, <2>2
<1>14. lists \in Seq(Seq(Fns)) /\ DOMAIN lists = 1..m
       /\ \A k \in 1..m : ToSet(lists[k]) = {owners[k]} \cup R[owners[k]]
  <2>1. DOMAIN lists = 1..m
        /\ \A k \in 1..m : lists[k] = <<owners[k]>> \o Ascending(R[owners[k]])
    BY <1>10, <1>13
  <2>2. ASSUME NEW k \in 1..m
        PROVE  lists[k] \in Seq(Fns) /\ ToSet(lists[k]) = {owners[k]} \cup R[owners[k]]
    <3>1. PICK f \in Fns : f = owners[k]
      BY <1>13
    <3>2. lists[k] = <<f>> \o Ascending(R[f])
      BY <2>1, <3>1
    <3>3. QED
      BY <1>12, <3>1, <3>2
  <2>3. lists = [k \in 1..m |-> lists[k]]
    BY <1>10, <1>13
  <2>4. PICK S : S = Seq(Fns)
    OBVIOUS
  <2>5. lists \in [1..m -> S]
    BY <2>2, <2>3, <2>4
  <2>6. lists \in Seq(S)
    BY <2>5
  <2>7. QED
    BY <2>1, <2>2, <2>4, <2>6
<1>15. steps \in Seq(Fns) /\ ToSet(steps) = UNION {ToSet(lists[k]) : k \in DOMAIN lists}
  <2>1. PICK S : S = Fns
    OBVIOUS
  <2>2. lists \in Seq(Seq(S))
    BY <1>14, <2>1
  <2>3. /\ Concat(lists) \in Seq(S)
        /\ ToSet(Concat(lists)) = UNION {ToSet(lists[k]) : k \in DOMAIN lists}
    BY <2>2, ConcatIs
  <2>4. QED
    BY <1>11, <2>1, <2>3
<1>16. H \cup E = {owners[k] : k \in 1..m}
  BY <1>7, <1>13 DEF ToSet
<1>17. ASSUME NEW g
       PROVE  g \in ToSet(steps) <=> \E f \in H \cup E : g = f \/ g \in R[f]
  <2>1. g \in ToSet(steps) <=> \E k \in 1..m : g \in ToSet(lists[k])
    <3>1. DOMAIN lists = 1..m
      BY <1>14
    <3>2. ToSet(steps) = UNION {ToSet(lists[k]) : k \in DOMAIN lists}
      BY <1>15
    <3>3. QED
      BY <3>1, <3>2, Zenon
  <2>2. g \in ToSet(steps) <=> \E k \in 1..m : g = owners[k] \/ g \in R[owners[k]]
    BY <1>14, <2>1
  <2>3. QED
    BY <1>16, <2>2
<1>18. ToSet(steps) = (H \cup E) \cup UNION {R[f] : f \in H}
  <2>1. \A f \in H \cup E : f \in H \/ R[f] = {}
    BY <1>5, <1>9
  <2>2. QED
    BY <1>17, <2>1
<1>19. Holders({start}, p) = H
  BY <1>1, <1>5 DEF Holders
<1>20. PassedTo({start}, p) = UNION {R[f] : f \in H}
  <2>1. ASSUME NEW g
        PROVE  g \in PassedTo({start}, p) <=>
                   \E f \in H : \E r \in Refs(f) : r.operand = <<start, 0>> /\ g \in CalleesForRef(r)
    BY <1>1, <1>19 DEF PassedTo
  <2>2. ASSUME NEW g
        PROVE  g \in UNION {R[f] : f \in H} <=>
                   \E f \in H : \E r \in Refs(f) : r.operand = <<start, 0>> /\ g \in CalleesForRef(r)
    <3>1. \A f \in H : g \in R[f] <=> \E r \in Refs(f) : r.operand = <<start, 0>> /\ g \in CalleesForRef(r)
      BY <1>6, <1>8 DEF ReceiversOf
    <3>2. QED
      BY <3>1
  <2>3. QED
    BY <2>1, <2>2
<1>21. BridgeOf({start}) = {start} \cup (Holders({start}, p) \cup PassedTo({start}, p) \cup E)
  <2>1. {Pkg(s) : s \in {start}} = {p}
    BY <1>1
  <2>2. BridgeOf({start}) = {start} \cup UNION {Holders({start}, x) \cup PassedTo({start}, x)
                           \cup {f \in Fns : Pkg(f) = x /\ HasEvidence(f)} : x \in {p}}
    BY <2>1 DEF BridgeOf
  <2>3. QED
    BY <1>5, <2>2
<1>22. QED
  BY <1>4, <1>6, <1>15, <1>18, <1>19, <1>20, <1>21

\* What a step of the oracle does: to a start, as far as its clock and limits let it.
Oracled(start, t, n, looked, steps, taken) ==
    LET order == FnsOf(Pkg(start))
        most == IF opts.perPackage > 0 /\ opts.perPackage < n THEN opts.perPackage ELSE n
        first == AddBoundary(Add(why, {start}, "oracle_bridge"), looked.evident)
        full == taken < Len(steps)
        Seeds(k) == {f \in Fns : first[f] # {}} \cup ToSet(SubSeq(steps, 1, k))
    IN  /\ t[1] \/ n = Len(order)
        /\ looked = OracleOwners(start, most)
        /\ steps = StepsFrom(start, Ascending(looked.hold \cup looked.evident))
        /\ taken = Max({0} \cup {k \in 1..Len(steps) :
                       ~AtLimit(Cardinality(Seeds(k - 1)), opts.owners)})
        /\ why' = Add(first, ToSet(SubSeq(steps, 1, taken)), "oracle_bridge")
        /\ diags' = diags \cup (IF t[1] THEN {"oracle_bridge_duration_exceeded"} ELSE {})
                          \cup (IF most < n THEN {"oracle_bridge_package_budget_exceeded"} ELSE {})
                          \cup (IF full THEN {"oracle_bridge_owner_budget_exceeded"} ELSE {})
        /\ phase' = IF full THEN "index" ELSE phase
        /\ at' = IF full THEN 1 ELSE at + 1

LEMMA OracleDoes ==
    ASSUME OracleStart
    PROVE  \E t \in Ticks(1, opts.clock) :
           \E n \in 0..Len(FnsOf(Pkg(Ascending(OracleStarts)[at]))) : \E looked, steps, taken :
               Oracled(Ascending(OracleStarts)[at], t, n, looked, steps, taken)
<1> DEFINE start == Ascending(OracleStarts)[at]
           order == FnsOf(Pkg(start))
           beyond == order = <<>> \/ Last(order) # Cardinality(Fns)
           Most(n) == IF opts.perPackage > 0 /\ opts.perPackage < n THEN opts.perPackage ELSE n
           looked(n) == OracleOwners(start, Most(n))
           owners(n) == Ascending(looked(n).hold \cup looked(n).evident)
           steps(n) == Concat([k \in DOMAIN owners(n) |->
                           <<owners(n)[k]>> \o Ascending(ReceiversOf(start, owners(n)[k]))])
           first(n) == AddBoundary(Add(why, {start}, "oracle_bridge"), looked(n).evident)
           Seeds(n, k) == {f \in Fns : first(n)[f] # {}} \cup ToSet(SubSeq(steps(n), 1, k))
           taken(n) == Max({0} \cup {k \in 1..Len(steps(n)) :
                               ~AtLimit(Cardinality(Seeds(n, k - 1)), opts.owners)})
           full(n) == taken(n) < Len(steps(n))
<1>1. PICK t \in Ticks(1, opts.clock), n \in 0..Len(order) :
          /\ IF t[1] THEN n = Len(order) => beyond ELSE n = Len(order)
          /\ why' = Add(first(n), ToSet(SubSeq(steps(n), 1, taken(n))), "oracle_bridge")
          /\ diags' = diags
                 \cup (IF t[1] THEN {"oracle_bridge_duration_exceeded"} ELSE {})
                 \cup (IF Most(n) < n THEN {"oracle_bridge_package_budget_exceeded"} ELSE {})
                 \cup (IF full(n) THEN {"oracle_bridge_owner_budget_exceeded"} ELSE {})
          /\ phase' = IF full(n) THEN "index" ELSE phase
          /\ at' = IF full(n) THEN 1 ELSE at + 1
  BY ZenonT(60) DEF OracleStart
<1>2. Oracled(start, t, n, looked(n), steps(n), taken(n))
  BY <1>1, ZenonT(60) DEF Oracled, StepsFrom
<1> HIDE DEF looked, steps, taken
<1>3. QED
  BY <1>2

LEMMA OracleAdds ==
    ASSUME why \in [Fns -> SUBSET SeedReasons], NEW start \in Fns, NEW E, NEW T, UNCHANGED input,
           why' = Add(AddBoundary(Add(why, {start}, "oracle_bridge"), E), T, "oracle_bridge")
    PROVE  Owners' = Owners \cup (({start} \cup (Bounded(E) \cap Fns)) \cup (T \cap Fns))
<1>1. "oracle_bridge" \in SeedReasons
  BY DEF SeedReasons
<1>2. PICK v : v = Add(why, {start}, "oracle_bridge")
  OBVIOUS
<1>3. PICK w : w = AddBoundary(v, E)
  OBVIOUS
<1>4. v \in [Fns -> SUBSET SeedReasons]
  BY <1>1, <1>2, AddIs
<1>5. w \in [Fns -> SUBSET SeedReasons]
  BY <1>3, <1>4, AddBoundaryIs
<1>6. why' = Add(w, T, "oracle_bridge")
  BY <1>2, <1>3
<1>7. Owners' = {f \in Fns : w[f] # {}} \cup (T \cap Fns)
  BY <1>5, <1>6, AddedOwners
<1>8. {f \in Fns : v[f] # {}} = Owners \cup {start}
  BY <1>2 DEF Add, Owners
<1>9. {f \in Fns : w[f] # {}} = {f \in Fns : v[f] # {}} \cup (Bounded(E) \cap Fns)
  <2>1. PICK B : B = Bounded(E)
    OBVIOUS
  <2>2. w = [f \in Fns |-> IF f \in B THEN (IF f \in B THEN v[f] \cup {"boundary"} ELSE v[f])
                                           \cup {"http_sink"}
                           ELSE (IF f \in B THEN v[f] \cup {"boundary"} ELSE v[f])]
    BY <1>3, <2>1 DEF AddBoundary, Add
  <2>3. QED
    BY <2>1, <2>2
<1>10. QED
  BY <1>7, <1>8, <1>9

LEMMA StartIs ==
    ASSUME input \in Inputs, at \in Nat \ {0}, at <= Cardinality(OracleStarts)
    PROVE  Ascending(OracleStarts)[at] \in Fns
<1>1. PICK S : S = OracleStarts
  OBVIOUS
<1>2. S \subseteq Fns
  BY <1>1, EntryAssumption DEF OracleStarts, Fns, prog
<1>3. PICK q : q = Ascending(S)
  OBVIOUS
<1>4. q \in Seq(Fns) /\ Len(q) = Cardinality(S) /\ Cardinality(S) \in Nat
  BY <1>2, <1>3, FnsListed
<1>5. at \in 1..Len(q)
  BY <1>1, <1>4
<1>6. QED
  BY <1>1, <1>3, <1>4, <1>5

LEMMA OracleStartSeeds ==
    ASSUME TypeInv, SeedInv, OracleStart
    PROVE  SeedInv'
<1>1. /\ UNCHANGED <<input, graph, callers, found>> /\ phase = "oracle" /\ input \in Inputs
      /\ at <= Cardinality(OracleStarts)
  BY DEF OracleStart, BridgeUnchanged, TypeInv
<1>2. at \in Nat \ {0}
  BY <1>1 DEF TypeInv, PlaceOK
<1>3. PICK start \in Fns : start = Ascending(OracleStarts)[at]
  BY <1>1, <1>2, StartIs
<1>4. PICK t \in Ticks(1, opts.clock), n \in 0..Len(FnsOf(Pkg(start))) : \E looked, steps, taken :
          Oracled(start, t, n, looked, steps, taken)
  BY <1>3, OracleDoes, Zenon
<1>5. PICK looked, steps, taken : Oracled(start, t, n, looked, steps, taken)
  BY <1>4, Zenon
<1>6. PICK full : full = (taken < Len(steps))
  OBVIOUS
<1>7. /\ phase' = IF full THEN "index" ELSE "oracle"
      /\ at' = IF full THEN 1 ELSE at + 1
      /\ diags \subseteq diags' /\ diags' \subseteq diags \cup OracleStops
      /\ t[1] => "oracle_bridge_duration_exceeded" \in diags'
      /\ full => "oracle_bridge_owner_budget_exceeded" \in diags'
      /\ opts.perPackage > 0 /\ opts.perPackage < n =>
             "oracle_bridge_package_budget_exceeded" \in diags'
  BY <1>1, <1>5, <1>6 DEF Oracled, OracleStops
<1>8. /\ "targeted_completed" \notin diags' /\ Mode = "oracle-bridge"
      /\ "reverse_bfs_bound_exceeded" \notin diags' <=> Uncut
  <2>1. "targeted_completed" \notin diags /\ Mode = "oracle-bridge"
    BY <1>1 DEF SeedInv, PhaseInv, Seeded
  <2>2. "targeted_completed" \notin OracleStops /\ "reverse_bfs_bound_exceeded" \notin OracleStops
    BY DEF OracleStops
  <2>3. QED
    BY <1>7, <2>1, <2>2 DEF Uncut
<1>9. /\ Mode' = Mode /\ Frontier' = Frontier /\ OracleStarts' = OracleStarts
      /\ \A S : BridgeOf(S)' = BridgeOf(S)
  BY <1>1, SameSeeds
<1>10. TraceInv'
  BY <1>1, <1>7, <1>8, TracedKept DEF SeedInv, Uncut
<1>11. PhaseInv'
  BY <1>7, <1>8, <1>9 DEF PhaseInv, Early, Seeded
<1>12. ASSUME OracleStops \cap diags' = {}
       PROVE  /\ phase' = "oracle" /\ at' = at + 1 /\ OracleStops \cap diags = {}
              /\ Owners' = Owners \cup BridgeOf({start})
  <2>1. ~t[1] /\ ~full /\ ~(opts.perPackage > 0 /\ opts.perPackage < n)
    BY <1>7, <1>12 DEF OracleStops
  <2>2. n = Len(FnsOf(Pkg(start))) /\ looked = OracleOwners(start, n)
    BY <1>5, <2>1 DEF Oracled
  <2>4. steps = StepsFrom(start, Ascending(looked.hold \cup looked.evident))
    BY <1>5 DEF Oracled
  <2>5. /\ steps \in Seq(Fns) /\ looked.evident \subseteq Fns
        /\ Bounded(looked.evident) = looked.evident
        /\ BridgeOf({start}) = ({start} \cup looked.evident) \cup ToSet(steps)
    BY <1>1, <2>2, <2>4, OracleGathers
  <2>6. taken = Len(steps)
    <3>1. PICK m \in Nat : m = Len(steps)
      BY <2>5
    <3>2. PICK T : T \subseteq 1..m /\ taken = Max({0} \cup T)
      BY <1>5, <3>1 DEF Oracled
    <3>3. ~(taken < m)
      BY <1>6, <2>1, <3>1
    <3>4. QED
      BY <3>1, <3>2, <3>3, SetEnds
  <2>7. SubSeq(steps, 1, taken) = steps
    BY <2>5, <2>6
  <2>8. PICK E, T : E = looked.evident /\ T = ToSet(steps)
    OBVIOUS
  <2>9. why' = Add(AddBoundary(Add(why, {start}, "oracle_bridge"), E), T, "oracle_bridge")
    BY <1>5, <2>7, <2>8 DEF Oracled
  <2>10. why \in [Fns -> SUBSET SeedReasons]
    BY DEF TypeInv, SeedsOK
  <2>11. Owners' = Owners \cup (({start} \cup (Bounded(E) \cap Fns)) \cup (T \cap Fns))
    BY <1>1, <2>9, <2>10, OracleAdds
  <2>12. T \subseteq Fns /\ E \subseteq Fns /\ Bounded(E) = E
    BY <2>5, <2>8 DEF ToSet
  <2>13. QED
    BY <1>7, <1>12, <2>1, <2>5, <2>8, <2>11, <2>12
<1>13. OracleInv'
  <2>1. SUFFICES ASSUME OracleStops \cap diags' = {}
                 PROVE  Owners' = UNION {BridgeOf({Ascending(OracleStarts)[k]})' : k \in 1..at}
    <3>1. OracleStops \cap diags' = {} =>
              at' - 1 <= Cardinality(OracleStarts)' /\ at' - 1 = at
      <4>1. Cardinality(OracleStarts)' = Cardinality(OracleStarts)
        BY <1>9
      <4>2. QED
        BY <1>1, <1>2, <1>12, <4>1
    <3>2. QED
      BY <3>1 DEF OracleInv
  <2>2. Owners = UNION {BridgeOf({Ascending(OracleStarts)[k]}) : k \in 1..(at - 1)}
    BY <1>1, <1>12, <2>1 DEF SeedInv, OracleInv
  <2>3. PICK q : q = Ascending(OracleStarts)
    OBVIOUS
  <2>4. Ascending(OracleStarts)' = q
    BY <1>9, <2>3
  <2>5. PICK B : B = [k \in 1..at |-> BridgeOf({q[k]})]
    OBVIOUS
  <2>6. \A k \in 1..at : B[k] = BridgeOf({Ascending(OracleStarts)[k]})'
    <3>1. \A f : BridgeOf({f})' = BridgeOf({f})
      BY <1>9
    <3>2. \A k : BridgeOf({Ascending(OracleStarts)[k]})' = BridgeOf({q[k]})'
      BY <2>4 DEF BridgeOf
    <3>3. QED
      BY <2>5, <3>1, <3>2
  <2>7. Owners = UNION {B[k] : k \in 1..(at - 1)}
    <3>1. \A k \in 1..(at - 1) : B[k] = BridgeOf({Ascending(OracleStarts)[k]})
      BY <1>2, <2>3, <2>5
    <3>2. QED
      BY <2>2, <3>1
  <2>8. BridgeOf({start}) = B[at]
    BY <1>2, <1>3, <2>3, <2>5
  <2>9. UNION {B[k] : k \in 1..at} = (UNION {B[k] : k \in 1..(at - 1)}) \cup B[at]
    BY <1>2
  <2>10. Owners' = UNION {B[k] : k \in 1..at}
    BY <1>12, <2>1, <2>7, <2>8, <2>9
  <2>11. QED
    BY <2>6, <2>10
<1>14. DoneInv'
  <2>1. Seeded' => full
    BY <1>7 DEF Seeded
  <2>2. full => OracleStops \cap diags' # {}
    BY <1>7 DEF OracleStops
  <2>3. QED
    BY <1>8, <1>9, <2>1, <2>2 DEF DoneInv, PathsDone, SinksDone, FrontDone, ExpandDone, BridgeDone,
       OracleDone
<1>15. ReverseInv' /\ AdjacentInv' /\ FrontSeeds' /\ GatherInv'
  BY <1>7 DEF ReverseInv, AdjacentInv, FrontSeeds, GatherInv
<1>16. QED
  BY <1>10, <1>11, <1>13, <1>14, <1>15 DEF SeedInv

LEMMA LastStart ==
    ASSUME input \in Inputs, at \in Nat \ {0}, at > Cardinality(OracleStarts),
           at - 1 <= Cardinality(OracleStarts), NEW q, q = Ascending(OracleStarts)
    PROVE  /\ \A k \in 1..(at - 1) : q[k] \in OracleStarts
           /\ \A s \in OracleStarts : \E k \in 1..(at - 1) : s = q[k]
<1>1. PICK S : S = OracleStarts
  OBVIOUS
<1>2. S \subseteq Fns
  BY <1>1, EntryAssumption DEF OracleStarts, Fns, prog
<1>3. PICK n : n = Cardinality(S)
  OBVIOUS
<1>4. q \in Seq(S) /\ Len(q) = n /\ n \in Nat /\ ToSet(q) = S
  BY <1>1, <1>2, <1>3, FnsListed
<1>5. at - 1 = n
  BY <1>1, <1>3, <1>4
<1>6. DOMAIN q = 1..n
  BY <1>4
<1>7. QED
  BY <1>1, <1>4, <1>5, <1>6 DEF ToSet

LEMMA OracleEndSeeds ==
    ASSUME TypeInv, SeedInv, OracleEnd
    PROVE  SeedInv'
<1>1. /\ UNCHANGED <<input, graph, callers, found, why>> /\ phase = "oracle" /\ input \in Inputs
      /\ at > Cardinality(OracleStarts) /\ phase' = "index"
  BY DEF OracleEnd, BridgeUnchanged, TypeInv
<1>2. /\ diags \subseteq diags'
      /\ diags' \subseteq diags \cup {"oracle_bridge_spec_missing", "oracle_bridge_duration_exceeded"}
  BY DEF OracleEnd
<1>3. /\ "targeted_completed" \notin diags' /\ Mode = "oracle-bridge"
      /\ "reverse_bfs_bound_exceeded" \notin diags' <=> Uncut
  BY <1>1, <1>2 DEF SeedInv, PhaseInv, Seeded, Uncut
<1>4. /\ Mode' = Mode /\ Frontier' = Frontier /\ OracleStarts' = OracleStarts /\ Owners' = Owners
      /\ \A S : BridgeOf(S)' = BridgeOf(S)
  BY <1>1, SameSeeds
<1>5. TraceInv'
  BY <1>1, <1>3, TracedKept DEF SeedInv, Uncut
<1>6. PhaseInv'
  BY <1>1, <1>3, <1>4 DEF PhaseInv, Early, Seeded
<1>7. OracleDone'
  <2>1. SUFFICES ASSUME OracleStops \cap diags = {}
                 PROVE  Owners = UNION {BridgeOf({s})' : s \in OracleStarts}
    BY <1>2, <1>4 DEF OracleDone
  <2>2. PICK q : q = Ascending(OracleStarts)
    OBVIOUS
  <2>3. Owners = UNION {BridgeOf({q[k]}) : k \in 1..(at - 1)}
    BY <1>1, <2>1, <2>2 DEF SeedInv, OracleInv
  <2>4. /\ \A k \in 1..(at - 1) : q[k] \in OracleStarts
        /\ \A s \in OracleStarts : \E k \in 1..(at - 1) : s = q[k]
    <3>1. at \in Nat \ {0} /\ at - 1 <= Cardinality(OracleStarts)
      BY <1>1, <2>1 DEF SeedInv, OracleInv, TypeInv, PlaceOK
    <3>2. QED
      BY <1>1, <2>2, <3>1, LastStart
  <2>5. \A f : BridgeOf({f})' = BridgeOf({f})
    BY <1>4
  <2>6. QED
    BY <2>3, <2>4, <2>5
<1>8. DoneInv'
  BY <1>3, <1>4, <1>7 DEF DoneInv, PathsDone, SinksDone, FrontDone, ExpandDone, BridgeDone
<1>9. FrontSeeds'
  BY <1>1 DEF FrontSeeds
<1>10. QED
  BY <1>1, <1>5, <1>6, <1>8, <1>9, OtherPhases

-----------------------------------------------------------------------------
(* From the index on, the seeds stay as they are.                          *)

LEMMA SameBridgeOf ==
    ASSUME UNCHANGED <<input, graph, callers>>
    PROVE  /\ BridgeOf(Starts)' = BridgeOf(Starts) /\ Starts' = Starts
           /\ \A s : BridgeOf({s})' = BridgeOf({s})
           /\ Near' = Near /\ Up' = Up /\ Bounded(Near)' = Bounded(Near)
           /\ Bounded(Fns)' = Bounded(Fns)
<1>1. /\ \A T : BridgeOf(T)' = BridgeOf(T)
      /\ \A T : Bounded(T)' = Bounded(T)
      /\ Fns' = Fns /\ Starts' = Starts
  BY SameSeeds DEF Starts
<1>2. PICK T : T = Starts
  OBVIOUS
<1>3. BridgeOf(T)' = BridgeOf(T)
  BY <1>1
<1>4. BridgeOf(Starts)' = BridgeOf(T)'
  BY <1>1, <1>2 DEF BridgeOf, Holders, PassedTo
<1>5. Near' = Near /\ Up' = Up
  <2>1. PICK U, n : U = Up /\ n = Reach
    OBVIOUS
  <2>2. Up' = U /\ Reach' = n
    BY <2>1, SameGraph
  <2>3. Around(U, n)' = Around(U, n)
    BY SameGraph
  <2>4. Near' = Around(U, n)'
    BY <2>2 DEF Near, Around
  <2>5. QED
    BY <2>1, <2>2, <2>3, <2>4 DEF Near
<1>6. Bounded(Near)' = Bounded(Near)
  BY <1>5, SameSeeds DEF Bounded
<1>7. Bounded(Fns)' = Bounded(Fns)
  BY <1>1, SameSeeds DEF Bounded
<1>8. QED
  BY <1>1, <1>2, <1>3, <1>4, <1>5, <1>6, <1>7

\* What has been done stays done, whatever more is said of what was cut short.
LEMMA StaysDone ==
    ASSUME DoneInv, Seeded, UNCHANGED <<input, graph, callers, why>>, diags \subseteq diags',
           found.stops \subseteq found'.stops,
           "targeted_completed" \in diags' => "targeted_completed" \in diags
    PROVE  DoneInv'
<1>1. /\ PathsDone /\ SinksDone /\ FrontDone /\ ExpandDone /\ BridgeDone /\ OracleDone
  BY DEF DoneInv
<1>2. /\ Mode' = Mode /\ Frontier' = Frontier /\ opts' = opts /\ Owners' = Owners
      /\ OracleStarts' = OracleStarts
      /\ \A f : StaticCallees(f)' = StaticCallees(f) /\ Refs(f)' = Refs(f)
      /\ \A r : ExpansionOwners(r)' = ExpansionOwners(r)
  BY SameSeeds
<1>3. (Uncut' => Uncut) /\ (Indexed' => Indexed) /\ (Calm' => Calm)
  BY DEF Uncut, Indexed, Calm
<1>4. /\ BridgeOf(Starts)' = BridgeOf(Starts) /\ \A s : BridgeOf({s})' = BridgeOf({s})
      /\ Up' = Up /\ Bounded(Near)' = Bounded(Near) /\ Bounded(Fns)' = Bounded(Fns)
  BY SameBridgeOf
<1>5. PathsDone'
  BY <1>1, <1>2, <1>3, <1>4 DEF PathsDone
<1>6. SinksDone'
  BY <1>1, <1>2, <1>3, <1>4 DEF SinksDone
<1>7. FrontDone'
  BY <1>1, <1>2, <1>3, <1>4 DEF FrontDone
<1>8. ExpandDone'
  BY <1>1, <1>2, <1>3 DEF ExpandDone
<1>9. BridgeDone'
  BY <1>1, <1>2, <1>4 DEF BridgeDone
<1>10. OracleDone'
  <2>1. OracleStops \cap diags' = {} => OracleStops \cap diags = {}
    OBVIOUS
  <2>2. UNION {BridgeOf({s})' : s \in OracleStarts} = UNION {BridgeOf({s}) : s \in OracleStarts}
    BY <1>4
  <2>3. QED
    BY <1>1, <1>2, <2>1, <2>2 DEF OracleDone
<1>11. QED
  BY <1>5, <1>6, <1>7, <1>8, <1>9, <1>10 DEF DoneInv

LEMMA StaysSeeded ==
    ASSUME SeedInv, Seeded, Seeded', UNCHANGED <<input, graph, callers, why>>,
           diags \subseteq diags', found.stops \subseteq found'.stops,
           "targeted_completed" \in diags' => "targeted_completed" \in diags
    PROVE  SeedInv'
<1>1. phase \notin {"callgraph", "reverse"} /\ phase' \notin {"callgraph", "reverse"}
  BY DEF Seeded
<1>2. TraceInv'
  BY <1>1, TracedKept DEF SeedInv, Uncut
<1>3. DoneInv'
  BY StaysDone DEF SeedInv
<1>4. PhaseInv' /\ FrontSeeds'
  BY DEF PhaseInv, Early, Seeded, FrontSeeds
<1>5. phase' \notin {"frontier", "callers", "adjacent", "bridge", "oracle"}
  BY DEF Seeded
<1>6. QED
  BY <1>2, <1>3, <1>4, <1>5, OtherPhases

LEMMA IndexSeeds ==
    ASSUME TypeInv, SeedInv, OpenIndex \/ IndexOwner \/ CloseIndex \/ FlowValue \/ EndFlow \/ Return
    PROVE  SeedInv'
<1>1. Seeded /\ Seeded' /\ UNCHANGED <<input, graph, callers, why>>
  <2>1. CASE OpenIndex
    BY <2>1 DEF OpenIndex, Seeded
  <2>2. CASE IndexOwner
    BY <2>2 DEF IndexOwner, Seeded
  <2>3. CASE CloseIndex
    BY <2>3 DEF CloseIndex, Seeded
  <2>4. CASE FlowValue
    BY <2>4 DEF FlowValue, Seeded
  <2>5. CASE EndFlow
    BY <2>5 DEF EndFlow, Seeded
  <2>6. CASE Return
    BY <2>6 DEF Return, Seeded, vars
  <2>7. QED
    BY <2>1, <2>2, <2>3, <2>4, <2>5, <2>6
<1>2. /\ diags \subseteq diags' /\ found.stops \subseteq found'.stops
      /\ diags' \subseteq diags \cup {"function_ref_index_budget_exceeded",
                                      "funcvalue_terminated_at_unknown_sink"}
  <2>1. CASE OpenIndex \/ IndexOwner \/ FlowValue \/ Return
    BY <2>1 DEF OpenIndex, IndexOwner, FlowValue, Return, vars
  <2>2. CASE EndFlow
    BY <2>2 DEF EndFlow
  <2>3. CASE CloseIndex
    <3>1. \/ UNCHANGED <<diags, found>>
          \/ /\ diags' = diags \cup {"function_ref_index_budget_exceeded"}
             /\ found' = Stop(found, "index_budget")
      BY <2>3 DEF CloseIndex
    <3>2. found' = Stop(found, "index_budget") => found.stops \subseteq found'.stops
      BY DEF TypeInv, FoundOK, FoundType, Stop
    <3>3. QED
      BY <3>1, <3>2
  <2>4. QED
    BY <2>1, <2>2, <2>3
<1>3. "targeted_completed" \in diags' => "targeted_completed" \in diags
  BY <1>2
<1>4. QED
  BY <1>1, <1>2, <1>3, StaysSeeded

LEMMA SameSeedInv ==
    ASSUME SeedInv, UNCHANGED vars
    PROVE  SeedInv'
<1>1. UNCHANGED <<input, phase, graph, callers, why, diags, found, cover, queue, at, visited>>
  BY DEF vars
<1>2. /\ Mode' = Mode /\ Frontier' = Frontier /\ opts' = opts /\ Fns' = Fns
      /\ Owners' = Owners /\ Unseeded' = Unseeded
      /\ \A f : Refs(f)' = Refs(f) /\ Pkg(f)' = Pkg(f) /\ HasEvidence(f)' = HasEvidence(f)
      /\ \A r : CalleesForRef(r)' = CalleesForRef(r)
      /\ \A S, p : Part(S, p)' = Part(S, p) /\ OracleStarts' = OracleStarts
  BY <1>1, SameSeeds
<1>3. /\ Up' = Up /\ RootSeq' = RootSeq /\ Reach' = Reach
      /\ \A f : CallersIn(graph, f)' = CallersIn(graph, f)
      /\ \A f : AdjacentIn(graph, f)' = AdjacentIn(graph, f)
      /\ \A S, n : Around(S, n)' = Around(S, n)
  <2>1. \A f : CallersIn(graph, f)' = CallersIn(graph, f)
    BY <1>1 DEF CallersIn
  <2>2. QED
    BY <1>1, <2>1, SameGraph
<1>4. /\ Starts' = Starts /\ Near' = Near /\ Bounded(Near)' = Bounded(Near)
      /\ \A s : BridgeOf({s})' = BridgeOf({s})
  BY <1>1, SameBridgeOf
<1>5. TraceInv'
  BY <1>1, <1>3, <1>4 DEF SeedInv, TraceInv, Searching, Traced, Tracing, Uncut
<1>6. PhaseInv'
  BY <1>1, <1>2 DEF SeedInv, PhaseInv, Seeded
<1>7. DoneInv'
  <2>1. CASE Seeded
    BY <1>1, <2>1, StaysDone DEF SeedInv
  <2>2. CASE ~Seeded
    BY <1>1, <2>2 DEF DoneInv, Seeded
  <2>3. QED
    BY <2>1, <2>2
<1>8. ReverseInv'
  BY <1>1, <1>3 DEF SeedInv, ReverseInv, Evenly, Calm
<1>9. AdjacentInv'
  BY <1>1, <1>3 DEF SeedInv, AdjacentInv, LaidOut, Levelled, Spread, Leads, Left, Leaving, Lies, Calm
<1>10. FrontSeeds'
  BY <1>1, <1>2, <1>3, <1>4 DEF SeedInv, FrontSeeds, FrontDone, Calm
<1>11. GatherInv'
  <2>1. \A f : Gathered(f)' = Gathered(f)
    BY <1>1, <1>2, SameParts DEF Gathered
  <2>2. \A p : Part(found.starts, p)' = Part(found.starts, p)
    BY <1>1, SameParts
  <2>3. QED
    BY <1>1, <1>2, <1>4, <2>1, <2>2 DEF SeedInv, GatherInv
<1>12. OracleInv'
  <2>1. \A k : BridgeOf({Ascending(OracleStarts)[k]})' = BridgeOf({Ascending(OracleStarts)[k]})
    <3>1. PICK q : q = Ascending(OracleStarts)
      OBVIOUS
    <3>2. Ascending(OracleStarts)' = q
      BY <1>2, <3>1
    <3>3. \A k : BridgeOf({Ascending(OracleStarts)[k]})' = BridgeOf({q[k]})'
      BY <3>2 DEF BridgeOf, Holders, PassedTo
    <3>4. QED
      BY <1>4, <3>1, <3>3
  <2>2. QED
    BY <1>1, <1>2, <2>1 DEF SeedInv, OracleInv
<1>13. QED
  BY <1>5, <1>6, <1>7, <1>8, <1>9, <1>10, <1>11, <1>12 DEF SeedInv

-----------------------------------------------------------------------------
(* Every step keeps what is known of the seeds.                            *)

LEMMA SeedInit == Init => SeedInv
<1> SUFFICES ASSUME Init
             PROVE  SeedInv
  OBVIOUS
<1>1. /\ phase = "callgraph" /\ diags = {} /\ graph = NoGraph
      /\ callers = [r \in input.roots |-> {}] /\ why = [f \in Fns |-> {}]
  BY DEF Init
<1>2. TraceInv
  BY <1>1 DEF TraceInv, Searching, NoGraph
<1>3. PhaseInv
  BY <1>1 DEF PhaseInv, Unseeded
<1>4. QED
  BY <1>1, <1>2, <1>3 DEF SeedInv, DoneInv, Seeded, ReverseInv, AdjacentInv, FrontSeeds,
     GatherInv, OracleInv

LEMMA SeedNext == ProbeInv /\ StopsInv /\ SeedInv /\ [Next]_vars => SeedInv'
<1> SUFFICES ASSUME ProbeInv, StopsInv, SeedInv, [Next]_vars
             PROVE  SeedInv'
  OBVIOUS
<1>1. TypeInv /\ ModeInv /\ BridgeInv /\ FrontLimits
  BY DEF ProbeInv, StopsInv
<1>2. CASE BuildGraph \/ OpenReverse \/ VisitNode
  BY <1>1, <1>2, GraphSeeds
<1>3. CASE CloseReverse
  BY <1>1, <1>3, CloseReverseSeeds
<1>4. CASE SeedPaths
  BY <1>1, <1>4, SeedPathsSeeds
<1>5. CASE SeedSinks
  BY <1>1, <1>5, SeedSinksSeeds
<1>6. CASE Expand
  BY <1>1, <1>6, ExpandSeeds
<1>7. CASE FrontierStep
  <2>1. CASE FrontierRoot
    BY <1>1, <2>1, FrontierRootSeeds
  <2>2. CASE FrontierRoots
    BY <1>1, <2>2, FrontierRootsSeeds
  <2>3. CASE FrontierCaller
    BY <1>1, <2>3, FrontierCallerSeeds
  <2>4. CASE FrontierReversed
    BY <1>1, <2>4, FrontierReversedSeeds
  <2>5. CASE AdjacentOwner
    BY <1>1, <2>5, AdjacentOwnerSeeds
  <2>6. CASE AssembleFrontier
    BY <1>1, <2>6, AssembleFrontierSeeds
  <2>7. QED
    BY <1>7, <2>1, <2>2, <2>3, <2>4, <2>5, <2>6 DEF FrontierStep
<1>8. phase = "bridge" => Bridging
  BY <1>1 DEF BridgeInv, ModeInv
<1>9. CASE BridgeStep
  <2>1. CASE SelectStarts
    BY <1>1, <2>1, SelectStartsSeeds
  <2>2. CASE StartPackage
    BY <1>1, <2>2, StartPackageSeeds
  <2>3. CASE BridgeOwner
    <3>1. Bridging
      BY <1>8, <2>3 DEF BridgeOwner
    <3>2. QED
      BY <1>1, <2>3, <3>1, BridgeOwnerSeeds
  <2>4. CASE AssembleBridge
    <3>1. Bridging
      BY <1>8, <2>4 DEF AssembleBridge
    <3>2. QED
      BY <1>1, <2>4, <3>1, AssembleBridgeSeeds
  <2>5. CASE OracleStart
    BY <1>1, <2>5, OracleStartSeeds
  <2>6. CASE OracleEnd
    BY <1>1, <2>6, OracleEndSeeds
  <2>7. QED
    BY <1>9, <2>1, <2>2, <2>3, <2>4, <2>5, <2>6 DEF BridgeStep
<1>10. CASE OpenIndex \/ IndexOwner \/ CloseIndex \/ FlowValue \/ EndFlow \/ Return
  BY <1>1, <1>10, IndexSeeds
<1>11. CASE UNCHANGED vars
  BY <1>11, SameSeedInv
<1>12. QED
  BY <1>2, <1>3, <1>4, <1>5, <1>6, <1>7, <1>9, <1>10, <1>11 DEF Next

LEMMA SeedsHold == SeedInv => SeedsAreComplete
<1> SUFFICES ASSUME SeedInv, Seeded,
                    diags \cap {"reverse_bfs_bound_exceeded",
                                "function_ref_index_budget_exceeded"} = {}
             PROVE  SeedsAreComplete
  BY DEF SeedsAreComplete
<1>1. Uncut /\ Indexed
  BY DEF Uncut, Indexed
<1>2. /\ PathsDone /\ SinksDone /\ FrontDone /\ ExpandDone /\ BridgeDone /\ OracleDone
  BY DEF SeedInv, DoneInv
<1>3. found.stops \ {"depth_budget"} = {} <=> Calm
  BY DEF Calm
<1>4. /\ Mode = "reverse-path" => Owners = Up \cup UNION {StaticCallees(f) : f \in Up}
      /\ Mode = "http-sinks" /\ ~Frontier => Owners = Bounded(Fns)
      /\ Mode = "http-sinks" /\ Frontier /\ Calm => Owners = Bounded(Near)
      /\ Mode = "targeted" /\ Frontier /\ Calm => Up \cup Bounded(Near) \subseteq Owners
      /\ "targeted_completed" \in diags
         /\ ~AtLimit(Cardinality(Owners) - 1, opts.maxIndex) =>
             \A f \in Owners : \A r \in Refs(f) : ExpansionOwners(r) \subseteq Owners
      /\ Mode = "bridge" /\ found.stops = {} => Owners = BridgeOf(Starts)
      /\ Mode = "oracle-bridge" /\ OracleStops \cap diags = {} =>
             Owners = UNION {BridgeOf({s}) : s \in OracleStarts}
  BY <1>1, <1>2 DEF PathsDone, SinksDone, FrontDone, ExpandDone, BridgeDone, OracleDone
<1>5. QED
  BY <1>3, <1>4, ZenonT(60) DEF SeedsAreComplete, Up, Near, Reach

\* Whatever the program, the roots and the options, when no limit has cut a search its
\* seeds are those its mode means: the functions above the roots and what they call;
\* every function with evidence, or every one near the roots' callers that has it; the
\* bridge of the starts to the boundary in their packages, or that of the oracle's; and
\* no other.  Where the targeted mode searches over the frontier its seeds have at least
\* the functions above the roots and those near them with evidence, and an expansion said
\* to be complete is closed.  The queues, the marks, the order in which packages and
\* owners are met and the limits that did not bite lose none.
THEOREM SeedsComplete == Spec => []SeedsAreComplete
<1>1. Init => (ProbeInv /\ StopsInv) /\ SeedInv
  BY ProbeInit, StopsInit, SeedInit
<1>2. ((ProbeInv /\ StopsInv) /\ SeedInv) /\ [Next]_vars => ((ProbeInv /\ StopsInv) /\ SeedInv)'
  BY ProbeNext, StopsNext, SeedNext
<1>3. (ProbeInv /\ StopsInv) /\ SeedInv => SeedsAreComplete
  BY SeedsHold
<1>4. QED
  BY <1>1, <1>2, <1>3, PTL DEF Spec
=============================================================================
