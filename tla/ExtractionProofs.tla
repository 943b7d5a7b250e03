-------------------------- MODULE ExtractionProofs --------------------------
(***************************************************************************)
(* Proofs about the report on a region, for every program that compiles    *)
(* and every region: the closure of each root is what the root reaches,    *)
(* the seams are the fields the roots share, and what the report says of   *)
(* assigned state and of actors.                                           *)
(***************************************************************************)
EXTENDS Extraction, FiniteSetTheorems, SequenceTheorems, WellFoundedInduction, TLAPS

(* The numbers of a set in their order.                                    *)

\* The rank of a number in a set: how many of the set are smaller.
Smaller(s, x) == {y \in s : y < x}
Rank(s, x) == Cardinality(Smaller(s, x))

LEMMA RankGrows ==
    ASSUME NEW s, s \subseteq Nat, IsFiniteSet(s)
    PROVE  /\ \A x \in s : Rank(s, x) \in 0..Cardinality(s) - 1
           /\ \A x, y \in s : x < y => Rank(s, x) < Rank(s, y)
<1>1. /\ Cardinality(s) \in Nat
      /\ \A t \in SUBSET s : IsFiniteSet(t) /\ Cardinality(t) \in Nat
  BY FS_CardinalityType, FS_Subset
<1>2. ASSUME NEW x \in s
      PROVE  Rank(s, x) \in 0..Cardinality(s) - 1
  <2>1. Smaller(s, x) \in SUBSET s /\ x \notin Smaller(s, x)
    BY DEF Smaller
  <2>2. /\ Cardinality(Smaller(s, x)) <= Cardinality(s)
        /\ Cardinality(Smaller(s, x)) # Cardinality(s)
    BY <2>1, FS_Subset
  <2>3. QED
    BY <1>1, <2>1, <2>2 DEF Rank
<1>3. ASSUME NEW x \in s, NEW y \in s, x < y
      PROVE  Rank(s, x) < Rank(s, y)
  <2>1. Smaller(s, x) \in SUBSET Smaller(s, y)
    <3>1. \A z \in s : z < x => z < y
      BY <1>3
    <3>2. QED
      BY <3>1 DEF Smaller
  <2>2. x \in Smaller(s, y) /\ x \notin Smaller(s, x) /\ Smaller(s, y) \in SUBSET s
    BY <1>3 DEF Smaller
  <2>3. /\ Cardinality(Smaller(s, x)) <= Cardinality(Smaller(s, y))
        /\ Cardinality(Smaller(s, x)) # Cardinality(Smaller(s, y))
    BY <1>1, <2>1, <2>2, FS_Subset
  <2>4. Cardinality(Smaller(s, x)) \in Nat /\ Cardinality(Smaller(s, y)) \in Nat
    BY <1>1, <2>1, <2>2
  <2>5. QED
    BY <2>3, <2>4 DEF Rank
<1>4. QED
  BY <1>2, <1>3

\* A finite set of numbers, listed: each of them, and nothing else.
LEMMA AscendingLists ==
    ASSUME NEW s, s \subseteq Nat, IsFiniteSet(s)
    PROVE  Ascending(s) \in Seq(s) /\ ToSet(Ascending(s)) = s
<1> DEFINE N == Cardinality(s)
           rank == [x \in s |-> Rank(s, x) + 1]
<1>1. N \in Nat /\ \A x \in s : Rank(s, x) \in 0..N - 1
  BY FS_CardinalityType, RankGrows
<1>2. rank \in [s -> 1..N]
  BY <1>1
<1>3. \A x, y \in s : rank[x] = rank[y] => x = y
  <2>1. ASSUME NEW x \in s, NEW y \in s, Rank(s, x) + 1 = Rank(s, y) + 1
        PROVE  x = y
    <3>1. ~(x < y) /\ ~(y < x)
      <4>1. Rank(s, x) \in Int /\ Rank(s, y) \in Int
        BY <1>1
      <4>2. ~(Rank(s, x) < Rank(s, y)) /\ ~(Rank(s, y) < Rank(s, x))
        BY <2>1, <4>1
      <4>3. QED
        BY <4>2, RankGrows
    <3>2. x \in Nat /\ y \in Nat
      OBVIOUS
    <3>3. QED
      BY <3>1, <3>2
  <2>2. QED
    BY <2>1
<1>4. rank \in Injection(s, 1..N)
  BY <1>2, <1>3 DEF Injection, IsInjective
<1>5. IsFiniteSet(1..N) /\ Cardinality(1..N) = N
  BY <1>1, FS_Interval
<1>6. rank \in Surjection(s, 1..N)
  BY <1>4, <1>5, FS_Injection
<1>7. \A i \in 1..N : \E x \in s : rank[x] = i
  BY <1>6 DEF Surjection
<1> DEFINE At(i) == CHOOSE x \in s : Cardinality({y \in s : y < x}) = i - 1
<1>8. ASSUME NEW i \in 1..N
      PROVE  At(i) \in s /\ rank[At(i)] = i
  <2>1. PICK x \in s : rank[x] = i
    BY <1>7
  <2>2. Cardinality({y \in s : y < x}) = i - 1
    <3>1. Rank(s, x) + 1 = i /\ Rank(s, x) \in Int
      BY <1>1, <2>1
    <3>2. QED
      BY <3>1 DEF Rank, Smaller
  <2>3. At(i) \in s /\ Cardinality({y \in s : y < At(i)}) = i - 1
    BY <2>2
  <2>4. Rank(s, At(i)) = i - 1
    BY <2>3 DEF Rank, Smaller
  <2>5. QED
    BY <2>3, <2>4
<1>9. Ascending(s) = [i \in 1..N |-> At(i)]
  BY DEF Ascending
<1> HIDE DEF At, rank
<1>10. Ascending(s) \in [1..N -> s]
  BY <1>8, <1>9
<1>11. Ascending(s) \in Seq(s) /\ DOMAIN Ascending(s) = 1..N
  BY <1>1, <1>10, SeqDef
<1>12. ASSUME NEW x \in s
       PROVE  \E i \in 1..N : Ascending(s)[i] = x
  <2>1. rank[x] \in 1..N
    BY <1>2
  <2>2. At(rank[x]) = x
    BY <1>3, <1>8, <2>1
  <2>3. QED
    BY <1>9, <2>1, <2>2
<1>13. ToSet(Ascending(s)) = s
  BY <1>10, <1>11, <1>12 DEF ToSet
<1>14. QED
  BY <1>11, <1>13

-----------------------------------------------------------------------------
(* What a root reaches.                                                    *)

\* The program of an input, typed.
LEMMA Compiles ==
    ASSUME input \in Inputs
    PROVE  /\ roots \in Seq(ToSet(roots)) /\ Len(roots) \in Nat \ {0}
           /\ DOMAIN roots = 1..Len(roots)
           /\ IsFiniteSet(Fns) /\ Fns \subseteq Nat /\ Cardinality(Fns) \in Nat
           /\ IsFiniteSet(Cells) /\ Cells \subseteq Nat
           /\ \A f \in Fns : \A j \in Code(prog, f) :
                 /\ j.op \in {"call", "value"} => j.on \in Fns
                 /\ j.op = "invoke" => prog.targets[j.on] \subseteq Fns
                 /\ j.on \in Cells =>
                       /\ j.op \in {"send", "recv"} => prog.cell[j.on].type = "chan"
                       /\ j.op = "lock" => prog.cell[j.on].type # "chan"
<1>1. roots \in Seq(ToSet(roots)) /\ roots # <<>>
  BY ExtractionAssumption DEF roots
<1>2. Len(roots) \in Nat \ {0} /\ DOMAIN roots = 1..Len(roots)
  BY <1>1, LenProperties, EmptySeq
<1>3. IsFiniteSet(Fns) /\ Fns \subseteq Nat /\ IsFiniteSet(Cells) /\ Cells \subseteq Nat
  BY ExtractionAssumption DEF Fns, Cells, prog
<1>4. Cardinality(Fns) \in Nat
  BY <1>3, FS_CardinalityType
<1>5. \A f \in Fns : \A j \in Code(prog, f) :
                 /\ j.op \in {"call", "value"} => j.on \in Fns
                 /\ j.op = "invoke" => prog.targets[j.on] \subseteq Fns
                 /\ j.on \in Cells =>
                       /\ j.op \in {"send", "recv"} => prog.cell[j.on].type = "chan"
                       /\ j.op = "lock" => prog.cell[j.on].type # "chan"
  BY ExtractionAssumption DEF Fns, Cells, prog
<1>6. QED
  BY <1>1, <1>2, <1>3, <1>4, <1>5

\* g is a function of the module that f calls, may dispatch to or has as a value.
Leads(f, g) == g \in Targets(f, "value") \cup Callees(NoGraph, f) /\ Internal(g)

ClosedSet(T) == \A f \in T : \A g \in Fns : Leads(f, g) => g \in T

\* S lies in every closed set of functions that holds those of the root.
Inside(r, S) ==
    \A T \in SUBSET Fns : RootFunctions(r) \subseteq T /\ ClosedSet(T) => S \subseteq T

LEMMA LeadsWithin ==
    ASSUME input \in Inputs, NEW f \in Fns
    PROVE  /\ Targets(f, "value") \subseteq Fns
           /\ \A graph : Callees(graph, f) \subseteq Callees(NoGraph, f)
           /\ Callees(NoGraph, f) \subseteq Fns
<1>1. \A j \in Code(prog, f) :
         /\ j.op \in {"call", "value"} => j.on \in Fns
         /\ j.op = "invoke" => prog.targets[j.on] \subseteq Fns
  BY Compiles
<1>2. Targets(f, "value") \subseteq Fns /\ Targets(f, "call") \subseteq Fns
  BY <1>1 DEF Targets
<1>3. \A m \in Targets(f, "invoke") : prog.targets[m] \subseteq Fns
  BY <1>1 DEF Targets
<1>4. \A graph : \A m : Dispatch(graph, f, m) \subseteq Dispatch(NoGraph, f, m)
  BY DEF Dispatch
<1>5. \A m \in Targets(f, "invoke") : Dispatch(NoGraph, f, m) \subseteq Fns
  BY <1>3 DEF Dispatch
<1>6. QED
  BY <1>2, <1>4, <1>5 DEF Callees

LEMMA SuccessorsAre ==
    ASSUME input \in Inputs, NEW S \in SUBSET Fns
    PROVE  /\ Successors(S) \in SUBSET Fns
           /\ \A g : g \in Successors(S) <=> \E f \in S : Leads(f, g)
<1>1. \A g : g \in Successors(S) <=> \E f \in S : Leads(f, g)
  BY DEF Successors, Leads
<1>2. \A f \in S : \A g : Leads(f, g) => g \in Fns
  BY LeadsWithin DEF Leads
<1>3. QED
  BY <1>1, <1>2

LEMMA RootsWithin == \A r : RootFunctions(r) \in SUBSET Fns
BY DEF RootFunctions, Exposed

\* The sets by which reachability is defined, and that there are such sets.
Steps(r, N, w) ==
    /\ w[0] = RootFunctions(r)
    /\ \A n \in 1..N : w[n] = w[n - 1] \cup Successors(w[n - 1])

\* A non-empty set of numbers has a least one.
LEMMA Least ==
    ASSUME NEW T, T \subseteq Nat, T # {}
    PROVE  \E m \in T : \A n \in T : m <= n
<1>1. PICK m \in T : \A w \in T : ~(<<w, m>> \in OpToRel(<, Nat))
  BY NatLessThanWellFounded, WFMin
<1>2. ASSUME NEW w \in T
      PROVE  ~(w < m)
  <2>1. w \in Nat /\ m \in Nat
    OBVIOUS
  <2>2. w < m => <<w, m>> \in OpToRel(<, Nat)
    BY <2>1, Zenon DEF OpToRel
  <2>3. QED
    BY <1>1, <2>2, Zenon
<1>3. QED
  BY <1>2

LEMMA Climb ==
    ASSUME NEW T, 0 \in T, \A n \in Nat : n \in T => n + 1 \in T
    PROVE  Nat \subseteq T
<1> DEFINE M == {n \in Nat : n \notin T}
<1>1. SUFFICES ASSUME M # {}
               PROVE  FALSE
  OBVIOUS
<1>2. PICK m \in M : \A n \in M : m <= n
  BY <1>1, Least
<1>3. m \in Nat /\ m # 0 /\ m \notin T
  OBVIOUS
<1>4. m - 1 \in Nat /\ m - 1 \notin M /\ (m - 1) + 1 = m
  BY <1>2, <1>3
<1>5. QED
  BY <1>3, <1>4

LEMMA StepsExist ==
    ASSUME input \in Inputs, NEW r, NEW N \in Nat
    PROVE  \E w \in [0..N -> SUBSET Fns] : Steps(r, N, w)
<1> DEFINE T == {n \in Nat : \E w \in [0..n -> SUBSET Fns] : Steps(r, n, w)}
<1>1. 0 \in T
  <2> DEFINE w == [i \in 0..0 |-> RootFunctions(r)]
  <2>1. w \in [0..0 -> SUBSET Fns] /\ Steps(r, 0, w)
    BY RootsWithin DEF Steps
  <2>2. QED
    BY <2>1
<1>2. ASSUME NEW n \in Nat, n \in T
      PROVE  n + 1 \in T
  <2>1. PICK w \in [0..n -> SUBSET Fns] : Steps(r, n, w)
    BY <1>2
  <2> DEFINE last == w[n] \cup Successors(w[n])
             g == [i \in 0..n + 1 |-> IF i = n + 1 THEN last ELSE w[i]]
  <2>2. last \in SUBSET Fns
    <3>1. w[n] \in SUBSET Fns
      BY <2>1
    <3>2. QED
      BY <3>1, SuccessorsAre
  <2> HIDE DEF last
  <2>3. /\ g \in [0..n + 1 -> SUBSET Fns]
        /\ g[n + 1] = last /\ \A i \in 0..n : g[i] = w[i]
    BY <2>2
  <2> HIDE DEF g
  <2>4. ASSUME NEW i \in 1..n + 1
        PROVE  g[i] = g[i - 1] \cup Successors(g[i - 1])
    <3>1. CASE i = n + 1
      <4>1. i - 1 = n /\ g[n] = w[n]
        BY <2>3, <3>1
      <4>2. QED
        BY <2>3, <3>1, <4>1 DEF last
    <3>2. CASE i # n + 1
      <4>1. i \in 1..n /\ i \in 0..n /\ i - 1 \in 0..n
        BY <3>2
      <4>2. g[i] = w[i] /\ g[i - 1] = w[i - 1]
        BY <2>3, <4>1
      <4>3. QED
        BY <2>1, <4>1, <4>2 DEF Steps
    <3>3. QED
      BY <3>1, <3>2
  <2>5. g[0] = RootFunctions(r)
    BY <2>1, <2>3 DEF Steps
  <2>6. Steps(r, n + 1, g)
    BY <2>4, <2>5 DEF Steps
  <2>7. n + 1 \in Nat /\ \E v \in [0..n + 1 -> SUBSET Fns] : Steps(r, n + 1, v)
    BY <2>3, <2>6
  <2>8. QED
    BY <2>7
<1> HIDE DEF T
<1>3. N \in T
  BY <1>1, <1>2, Climb
<1>4. QED
  BY <1>3 DEF T

LEMMA WithinSteps ==
    ASSUME input \in Inputs, NEW r
    PROVE  /\ Within(r) \in [0..Cardinality(Fns) -> SUBSET Fns]
           /\ Steps(r, Cardinality(Fns), Within(r))
<1> DEFINE N == Cardinality(Fns)
           Next_(v) == [n \in 0..N |-> IF n = 0 THEN RootFunctions(r)
                                       ELSE v[n - 1] \cup Successors(v[n - 1])]
<1>1. N \in Nat
  BY Compiles
<1>2. PICK w \in [0..N -> SUBSET Fns] : Steps(r, N, w)
  BY <1>1, StepsExist
<1>3. w = Next_(w)
  <2>1. \A n \in 0..N : w[n] = IF n = 0 THEN RootFunctions(r)
                               ELSE w[n - 1] \cup Successors(w[n - 1])
    BY <1>1, <1>2 DEF Steps
  <2>2. QED
    BY <2>1
<1>4. Within(r) = CHOOSE v : v = Next_(v)
  BY DEF Within
<1>5. Within(r) = Next_(Within(r))
  BY <1>3, <1>4
<1> DEFINE v == Within(r)
<1> HIDE DEF v
<1>6. v = Next_(v)
  BY <1>5 DEF v
<1> HIDE DEF N
\* Two functions that satisfy the equation agree.
<1> DEFINE T == {n \in Nat : n <= N => v[n] = w[n]}
<1>7. \A n \in 0..N : v[n] = IF n = 0 THEN RootFunctions(r)
                             ELSE v[n - 1] \cup Successors(v[n - 1])
  <2>1. DOMAIN v = 0..N
    BY <1>6
  <2>2. QED
    BY <1>6
<1>8. 0 \in T
  <2>1. 0 \in 0..N /\ w[0] = RootFunctions(r)
    BY <1>1, <1>2 DEF Steps
  <2>2. v[0] = RootFunctions(r)
    BY <1>7, <2>1
  <2>3. QED
    BY <2>1, <2>2
<1>9. ASSUME NEW n \in Nat, n \in T
      PROVE  n + 1 \in T
  <2>1. SUFFICES ASSUME n + 1 <= N
                 PROVE  v[n + 1] = w[n + 1]
    OBVIOUS
  <2>2. v[n] = w[n]
    BY <1>1, <1>9, <2>1
  <2>3. n + 1 \in 0..N /\ n + 1 \in 1..N /\ n + 1 # 0 /\ (n + 1) - 1 = n
    BY <1>1, <2>1
  <2>4. v[n + 1] = v[n] \cup Successors(v[n])
    BY <1>7, <2>3
  <2>5. w[n + 1] = w[n] \cup Successors(w[n])
    BY <1>2, <2>3 DEF Steps
  <2>6. QED
    BY <2>2, <2>4, <2>5
<1>10. Nat \subseteq T
  <2> HIDE DEF T
  <2>1. QED
    BY <1>8, <1>9, Climb
<1>11. \A n \in 0..N : v[n] = w[n]
  BY <1>1, <1>10
<1>12. DOMAIN v = 0..N /\ v = [n \in 0..N |-> v[n]]
  BY <1>6
<1>13. v = w
  BY <1>2, <1>11, <1>12
<1>14. QED
  BY <1>2, <1>13 DEF v, N

\* What a root reaches is the least closed set that holds its functions.
LEMMA ReachableIs ==
    ASSUME input \in Inputs, NEW r
    PROVE  /\ Reachable(r) \in SUBSET Fns
           /\ RootFunctions(r) \subseteq Reachable(r)
           /\ ClosedSet(Reachable(r))
           /\ Inside(r, Reachable(r))
<1> DEFINE N == Cardinality(Fns)
           w == Within(r)
<1>1. N \in Nat /\ w \in [0..N -> SUBSET Fns] /\ Steps(r, N, w)
  BY Compiles, WithinSteps
<1>2. IsFiniteSet(Fns) /\ \A S \in SUBSET Fns : IsFiniteSet(S) /\ Cardinality(S) \in Nat
  BY Compiles, FS_Subset, FS_CardinalityType
<1> HIDE DEF w
<1>3. \A n \in 0..N : w[n] \in SUBSET Fns
  BY <1>1
\* Each step keeps what there is, adds something, or is the last that could.
<1> DEFINE T == {n \in Nat : n <= N =>
                    /\ RootFunctions(r) \subseteq w[n]
                    /\ Inside(r, w[n])
                    /\ Cardinality(w[n]) >= n \/ ClosedSet(w[n])}
<1>4. 0 \in T
  <2>1. w[0] = RootFunctions(r) /\ 0 \in 0..N
    BY <1>1 DEF Steps
  <2>2. Cardinality(w[0]) >= 0
    BY <1>2, <1>3, <2>1
  <2>3. QED
    BY <2>1, <2>2 DEF Inside
<1>5. ASSUME NEW n \in Nat, n \in T
      PROVE  n + 1 \in T
  <2>1. SUFFICES ASSUME n + 1 <= N
                 PROVE  /\ RootFunctions(r) \subseteq w[n + 1]
                        /\ Inside(r, w[n + 1])
                        /\ Cardinality(w[n + 1]) >= n + 1 \/ ClosedSet(w[n + 1])
    OBVIOUS
  <2>2. /\ RootFunctions(r) \subseteq w[n] /\ Inside(r, w[n])
        /\ Cardinality(w[n]) >= n \/ ClosedSet(w[n])
    BY <1>1, <1>5, <2>1
  <2>3. n \in 0..N /\ n + 1 \in 0..N /\ n + 1 \in 1..N /\ (n + 1) - 1 = n
    BY <1>1, <2>1
  <2>4. w[n + 1] = w[n] \cup Successors(w[n])
    BY <1>1, <2>3 DEF Steps
  <2> DEFINE S == w[n]
             U == w[n + 1]
  <2>5. S \in SUBSET Fns /\ U \in SUBSET Fns /\ U = S \cup Successors(S)
    BY <1>3, <2>3, <2>4
  <2> HIDE DEF S, U
  <2>6. \A g : g \in U <=> g \in S \/ \E f \in S : Leads(f, g)
    BY <2>5, SuccessorsAre
  <2>7. Inside(r, U)
    <3>1. ASSUME NEW V \in SUBSET Fns, RootFunctions(r) \subseteq V, ClosedSet(V)
          PROVE  U \subseteq V
      <4>1. S \subseteq V
        BY <2>2, <3>1 DEF S, Inside
      <4>2. QED
        BY <2>5, <2>6, <3>1, <4>1 DEF ClosedSet
    <3>2. QED
      BY <3>1 DEF Inside
  <2>8. Cardinality(U) >= n + 1 \/ ClosedSet(U)
    <3>1. CASE U = S
      <4>1. ClosedSet(U)
        BY <2>6, <3>1 DEF ClosedSet
      <4>2. QED
        BY <4>1
    <3>2. CASE U # S
      <4>1. ~ClosedSet(S)
        BY <2>5, <2>6, <3>2 DEF ClosedSet
      <4>2. S \in SUBSET U /\ IsFiniteSet(U)
        BY <1>2, <2>5
      <4>3. Cardinality(S) <= Cardinality(U) /\ Cardinality(S) # Cardinality(U)
        BY <3>2, <4>2, FS_Subset
      <4>4. Cardinality(S) \in Nat /\ Cardinality(U) \in Nat
        BY <1>2, <2>5
      <4>5. Cardinality(S) >= n
        BY <2>2, <4>1 DEF S
      <4>6. QED
        BY <4>3, <4>4, <4>5
    <3>3. QED
      BY <3>1, <3>2
  <2>9. RootFunctions(r) \subseteq U
    BY <2>2, <2>5 DEF S
  <2>10. QED
    BY <2>7, <2>8, <2>9 DEF U
<1>6. N \in T
  <2>1. Nat \subseteq T
    <3> HIDE DEF T
    <3>1. QED
      BY <1>4, <1>5, Climb
  <2>2. QED
    BY <1>1, <2>1
<1>7. /\ RootFunctions(r) \subseteq w[N] /\ Inside(r, w[N])
      /\ Cardinality(w[N]) >= N \/ ClosedSet(w[N])
  BY <1>1, <1>6
<1>8. w[N] \in SUBSET Fns
  BY <1>1, <1>3
<1>9. ClosedSet(w[N])
  <2>1. CASE Cardinality(w[N]) >= N
    <3>1. Cardinality(w[N]) <= N /\ (N = Cardinality(w[N]) => Fns = w[N])
      BY <1>2, <1>8, FS_Subset
    <3>2. Cardinality(w[N]) \in Nat
      BY <1>2, <1>8
    <3>3. Fns = w[N]
      BY <1>1, <2>1, <3>1, <3>2
    <3>4. QED
      BY <3>3 DEF ClosedSet
  <2>2. QED
    BY <1>7, <2>1
<1>10. Reachable(r) = w[N]
  BY DEF Reachable, w
<1>11. QED
  BY <1>7, <1>8, <1>9, <1>10


-----------------------------------------------------------------------------
(* The closures of the roots.                                              *)

\* What Analyze works on is given.
LEMMA Given ==
    ASSUME UNCHANGED input
    PROVE  /\ prog' = prog /\ roots' = roots /\ root' = root
           /\ Fns' = Fns /\ Cells' = Cells
           /\ \A r : RootFunctions(r)' = RootFunctions(r)
           /\ \A g : Internal(g)' <=> Internal(g)
           /\ \A f, g : Leads(f, g)' <=> Leads(f, g)
<1>1. prog' = prog /\ roots' = roots
  BY DEF prog, roots
<1>2. Fns' = Fns /\ Cells' = Cells /\ root' = root
  BY <1>1 DEF Fns, Cells, root
<1>3. \A r : RootFunctions(r)' = RootFunctions(r)
  <2>1. \A r : Exposed(r)' = Exposed(r)
    BY <1>1, <1>2 DEF Exposed
  <2>2. QED
    BY <1>1, <1>2, <2>1 DEF RootFunctions
<1>4. \A g : Internal(g)' <=> Internal(g)
  BY <1>1 DEF Internal
<1>5. \A f, g : Leads(f, g)' <=> Leads(f, g)
  <2>1. \A f, op : Targets(f, op)' = Targets(f, op)
    BY <1>1 DEF Targets
  <2>2. \A f, m : Dispatch(NoGraph, f, m)' = Dispatch(NoGraph, f, m)
    BY <1>1 DEF Dispatch, NoGraph
  <2>3. \A f : Callees(NoGraph, f)' = Callees(NoGraph, f)
    BY <2>1, <2>2 DEF Callees
  <2>4. QED
    BY <1>4, <2>1, <2>3 DEF Leads
<1>6. QED
  BY <1>1, <1>2, <1>3, <1>4, <1>5

\* What a closed root has: functions that the root reaches, and all of them
\* when no registry key narrows the dispatch.
Closure(r, S) ==
    /\ S \in SUBSET Fns /\ Inside(r, S)
    /\ r.registry = "" => RootFunctions(r) \subseteq S /\ ClosedSet(S)

Loaded(i) == roots[i].pkg \in prog.packages

\* The worklist and the functions visited hold what the root starts from and
\* what a function visited leads to.
Worklist(r) ==
    /\ queue \in Seq(Fns) /\ visited \in SUBSET Fns
    /\ Inside(r, visited) /\ Inside(r, ToSet(queue))
    /\ RootFunctions(r) \subseteq visited \cup ToSet(queue)
    /\ r.registry = "" =>
          \A f \in visited : \A g \in Fns :
              Leads(f, g) => g \in visited \cup ToSet(queue)

Phases == {"start", "closure", "seams", "state", "refuse", "done"}

ClosureInv ==
    /\ input \in Inputs /\ phase \in Phases
    /\ at \in Nat \ {0} /\ open \in BOOLEAN
    /\ reach \in [DOMAIN roots -> SUBSET Fns]
    /\ open => phase = "closure" /\ at \in DOMAIN roots /\ Worklist(roots[at])
    /\ phase \notin {"start", "closure"} => at > Len(roots)
    /\ \A i \in DOMAIN roots : i < at /\ Loaded(i) => Closure(roots[i], reach[i])

LEMMA InsideKept ==
    ASSUME UNCHANGED input, NEW r, NEW S
    PROVE  /\ Inside(r, S)' <=> Inside(r, S)
           /\ ClosedSet(S)' <=> ClosedSet(S)
           /\ Closure(r, S)' <=> Closure(r, S)
<1>1. \A T : ClosedSet(T)' <=> ClosedSet(T)
  BY Given DEF ClosedSet
<1>2. Inside(r, S)' <=> Inside(r, S)
  BY <1>1, Given DEF Inside
<1>3. QED
  BY <1>1, <1>2, Given DEF Closure

\* Nothing of the closures moves.
LEMMA ClosureKept ==
    ASSUME ClosureInv, UNCHANGED <<input, at, reach>>,
           phase' \in Phases, open' \in BOOLEAN,
           open' => FALSE, phase' \notin {"start", "closure"} => at > Len(roots)
    PROVE  ClosureInv'
<1>1. roots' = roots /\ Fns' = Fns /\ \A i : Loaded(i)' <=> Loaded(i)
  BY Given DEF Loaded
<1>2. \A i : Closure(roots[i], reach[i])' <=> Closure(roots[i], reach[i])
  BY <1>1, InsideKept
<1>3. QED
  BY <1>1, <1>2 DEF ClosureInv


LEMMA SeqGrows ==
    ASSUME NEW S, NEW T, S \subseteq T, NEW s \in Seq(S)
    PROVE  s \in Seq(T)
OBVIOUS

\* The elements of a sequence, of its tail, and of two after one another.
LEMMA SetOfTail ==
    ASSUME NEW S, NEW q \in Seq(S), q # <<>>
    PROVE  /\ Head(q) \in S /\ Tail(q) \in Seq(S)
           /\ ToSet(q) \subseteq S /\ ToSet(q) = {Head(q)} \cup ToSet(Tail(q))
<1>1. /\ Head(q) = q[1] /\ Len(q) \in Nat \ {0} /\ DOMAIN q = 1..Len(q)
      /\ Tail(q) \in Seq(S) /\ Len(Tail(q)) = Len(q) - 1
      /\ \A i \in 1..Len(q) - 1 : Tail(q)[i] = q[i + 1]
      /\ \A i \in 1..Len(q) : q[i] \in S
  <2>1. Len(q) \in Nat /\ Len(q) # 0 /\ DOMAIN q = 1..Len(q)
    BY LenProperties, EmptySeq
  <2>2. /\ Head(q) = q[1] /\ Tail(q) \in Seq(S) /\ Len(Tail(q)) = Len(q) - 1
        /\ \A i \in 1..Len(q) - 1 : Tail(q)[i] = q[i + 1]
    BY <2>1, HeadTailProperties
  <2>3. \A i \in 1..Len(q) : q[i] \in S
    OBVIOUS
  <2>4. QED
    BY <2>1, <2>2, <2>3
<1> DEFINE t == Tail(q)
           N == Len(q)
<1> HIDE DEF t, N
<1>2. DOMAIN t = 1..N - 1 /\ \A i \in 1..N - 1 : t[i] = q[i + 1]
  <2>1. t \in Seq(S) /\ Len(t) = N - 1
    BY <1>1 DEF t, N
  <2>2. DOMAIN t = 1..N - 1
    BY <2>1, LenProperties
  <2>3. QED
    BY <1>1, <2>2 DEF t, N
<1>3. \A i \in 1..N : i = 1 \/ (i - 1 \in 1..N - 1 /\ (i - 1) + 1 = i)
  BY <1>1 DEF N
<1>4. \A i \in 1..N - 1 : i + 1 \in 1..N
  BY <1>1 DEF N
<1>5. N \in Nat \ {0} /\ DOMAIN q = 1..N /\ 1 \in 1..N
  BY <1>1 DEF N
<1>6. ToSet(q) = {q[1]} \cup ToSet(t)
  <2>1. ASSUME NEW x \in ToSet(q)
        PROVE  x \in {q[1]} \cup ToSet(t)
    <3>1. PICK i \in 1..N : x = q[i]
      BY <1>5 DEF ToSet
    <3>2. CASE i = 1
      BY <3>1, <3>2
    <3>3. CASE i # 1
      <4>1. i - 1 \in DOMAIN t /\ t[i - 1] = x
        BY <1>2, <1>3, <3>1, <3>3
      <4>2. QED
        BY <4>1 DEF ToSet
    <3>4. QED
      BY <3>2, <3>3
  <2>2. ASSUME NEW x \in ToSet(t)
        PROVE  x \in ToSet(q)
    <3>1. PICK i \in 1..N - 1 : x = t[i]
      BY <1>2 DEF ToSet
    <3>2. QED
      BY <1>2, <1>4, <1>5, <3>1 DEF ToSet
  <2>3. q[1] \in ToSet(q)
    BY <1>5 DEF ToSet
  <2>4. QED
    BY <2>1, <2>2, <2>3
<1>7. ToSet(q) \subseteq S
  BY <1>1 DEF ToSet
<1>8. QED
  BY <1>1, <1>5, <1>6, <1>7 DEF t, N

LEMMA SetOfJoin ==
    ASSUME NEW S, NEW a \in Seq(S), NEW b \in Seq(S)
    PROVE  a \o b \in Seq(S) /\ ToSet(a \o b) = ToSet(a) \cup ToSet(b)
<1> DEFINE c == a \o b
<1>1. /\ c \in Seq(S) /\ Len(c) = Len(a) + Len(b)
      /\ \A i \in 1..Len(a) + Len(b) : c[i] = IF i <= Len(a) THEN a[i] ELSE b[i - Len(a)]
  BY ConcatProperties
<1>2. /\ Len(a) \in Nat /\ Len(b) \in Nat
      /\ DOMAIN a = 1..Len(a) /\ DOMAIN b = 1..Len(b)
  BY LenProperties
<1> HIDE DEF c
<1>3. DOMAIN c = 1..Len(a) + Len(b)
  BY <1>1, LenProperties
<1>4. ASSUME NEW x \in ToSet(a)
      PROVE  x \in ToSet(c)
  <2>1. PICK i \in 1..Len(a) : x = a[i]
    BY <1>2 DEF ToSet
  <2>2. i \in 1..Len(a) + Len(b) /\ i <= Len(a)
    BY <1>2
  <2>3. QED
    BY <1>1, <1>3, <2>1, <2>2 DEF ToSet
<1>5. ASSUME NEW x \in ToSet(b)
      PROVE  x \in ToSet(c)
  <2>1. PICK i \in 1..Len(b) : x = b[i]
    BY <1>2 DEF ToSet
  <2>2. /\ Len(a) + i \in 1..Len(a) + Len(b) /\ ~(Len(a) + i <= Len(a))
        /\ (Len(a) + i) - Len(a) = i
    BY <1>2
  <2>3. c[Len(a) + i] = b[(Len(a) + i) - Len(a)]
    BY <1>1, <2>2
  <2>4. QED
    BY <1>3, <2>1, <2>2, <2>3 DEF ToSet
<1>6. ASSUME NEW x \in ToSet(c)
      PROVE  x \in ToSet(a) \cup ToSet(b)
  <2>1. PICK i \in 1..Len(a) + Len(b) : x = c[i]
    BY <1>3 DEF ToSet
  <2>2. CASE i <= Len(a)
    <3>1. i \in 1..Len(a)
      BY <1>2, <2>2
    <3>2. QED
      BY <1>1, <1>2, <2>1, <2>2, <3>1 DEF ToSet
  <2>3. CASE ~(i <= Len(a))
    <3>1. i - Len(a) \in 1..Len(b)
      BY <1>2, <2>3
    <3>2. QED
      BY <1>1, <1>2, <2>1, <2>3, <3>1 DEF ToSet
  <2>4. QED
    BY <2>2, <2>3
<1>7. QED
  BY <1>1, <1>4, <1>5, <1>6 DEF c

-----------------------------------------------------------------------------
\* The steps of the closures.

LEMMA OpenRootInv == ClosureInv /\ OpenRoot => ClosureInv'
<1> SUFFICES ASSUME ClosureInv, OpenRoot
             PROVE  ClosureInv'
  OBVIOUS
<1>1. /\ phase = "closure" /\ at <= Len(roots) /\ UNCHANGED <<input, phase, at, reach>>
      /\ open' = TRUE /\ visited' = {} /\ queue' = Ascending(RootFunctions(roots[at]))
  BY DEF OpenRoot
<1>2. at \in DOMAIN roots /\ input \in Inputs
  BY <1>1, Compiles DEF ClosureInv
<1>3. PICK r : r = roots[at]
  OBVIOUS
<1>4. queue' \in Seq(Fns) /\ ToSet(queue') = RootFunctions(r)
  <2>1. RootFunctions(r) \in SUBSET Fns /\ Fns \subseteq Nat /\ IsFiniteSet(Fns)
    BY <1>2, Compiles, RootsWithin
  <2>2. RootFunctions(r) \subseteq Nat /\ IsFiniteSet(RootFunctions(r))
    BY <2>1, FS_Subset
  <2>3. /\ Ascending(RootFunctions(r)) \in Seq(RootFunctions(r))
        /\ ToSet(Ascending(RootFunctions(r))) = RootFunctions(r)
    BY <2>2, AscendingLists
  <2> DEFINE F == RootFunctions(r)
  <2> HIDE DEF F
  <2>4. Ascending(F) \in Seq(F) /\ F \in SUBSET Fns
    BY <2>1, <2>3 DEF F
  <2>5. Ascending(F) \in Seq(Fns)
    BY <2>4
  <2>6. QED
    BY <1>1, <1>3, <2>3, <2>5 DEF F
<1>5. UNCHANGED input /\ roots' = roots /\ Fns' = Fns
  BY <1>1, Given
<1>6. Worklist(r)'
  <2>1. /\ Fns' = Fns /\ RootFunctions(r)' = RootFunctions(r)
        /\ \A f, g : Leads(f, g)' <=> Leads(f, g)
    BY <1>5, Given
  <2>2. PICK F : F = RootFunctions(r)
    OBVIOUS
  <2>3. Inside(r, F) /\ Inside(r, {})
    BY <2>2 DEF Inside
  <2>4. Inside(r, F)' /\ Inside(r, {})'
    BY <1>5, <2>3, InsideKept
  <2>5. ToSet(queue') = F /\ visited' = {}
    BY <1>1, <1>4, <2>2
  <2>6. Inside(r, ToSet(queue))' /\ Inside(r, visited)'
    BY <2>4, <2>5
  <2>7. QED
    BY <1>4, <2>1, <2>2, <2>5, <2>6 DEF Worklist
<1>7. \A i : Loaded(i)' <=> Loaded(i)
  BY <1>5, Given DEF Loaded
<1>8. \A i : Closure(roots[i], reach[i])' <=> Closure(roots[i], reach[i])
  BY <1>1, <1>5, InsideKept
<1>9. Worklist(roots[at])'
  BY <1>1, <1>3, <1>5, <1>6
<1>10. QED
  BY <1>1, <1>2, <1>5, <1>7, <1>8, <1>9 DEF ClosureInv

\* A function is visited: what it leads to is queued, and no more than that.
LEMMA VisitKeeps ==
    ASSUME input \in Inputs, NEW r, r = roots[at], Worklist(r), Visit
    PROVE  Worklist(r)'
<1> DEFINE f == Head(queue)
           rest == Tail(queue)
           called == Callees(Graph(r), f)
           found == {g \in called \cup Targets(f, "value") : Internal(g)}
<1>1. /\ queue # <<>> /\ UNCHANGED input
      /\ IF f \in visited THEN queue' = rest /\ visited' = visited
         ELSE queue' = rest \o Ascending(found) /\ visited' = visited \cup {f}
  BY DEF Visit
<1>2. /\ f \in Fns /\ rest \in Seq(Fns) /\ ToSet(queue) \subseteq Fns
      /\ ToSet(queue) = {f} \cup ToSet(rest)
  <2>1. queue \in Seq(Fns)
    BY DEF Worklist
  <2>2. QED
    BY <1>1, <2>1, SetOfTail
<1>3. \A g : g \in found => g \in Fns /\ Leads(f, g)
  BY <1>2, LeadsWithin DEF Leads
<1>4. r.registry = "" => \A g : Leads(f, g) => g \in found
  <2>1. r.registry = "" => Graph(r) = NoGraph
    BY DEF Graph
  <2>2. QED
    BY <2>1 DEF Leads
<1> HIDE DEF found, f, rest
<1>5. Ascending(found) \in Seq(Fns) /\ ToSet(Ascending(found)) = found
  <2>1. found \in SUBSET Fns /\ Fns \subseteq Nat /\ IsFiniteSet(Fns)
    BY <1>3, Compiles
  <2>2. found \subseteq Nat /\ IsFiniteSet(found)
    BY <2>1, FS_Subset
  <2>3. Ascending(found) \in Seq(found) /\ ToSet(Ascending(found)) = found
    BY <2>2, AscendingLists
  <2>4. Ascending(found) \in Seq(Fns)
    BY <2>1, <2>3, SeqGrows
  <2>5. QED
    BY <2>3, <2>4
<1>6. Inside(r, {f}) /\ Inside(r, visited) /\ Inside(r, ToSet(rest))
  BY <1>2 DEF Worklist, Inside
<1>7. Inside(r, found)
  BY <1>3, <1>6 DEF Inside, ClosedSet
<1>8. /\ Fns' = Fns /\ RootFunctions(r)' = RootFunctions(r)
      /\ \A h, g : Leads(h, g)' <=> Leads(h, g)
      /\ \A S : Inside(r, S)' <=> Inside(r, S)
  BY <1>1, Given, InsideKept
<1>9. CASE f \in visited
  <2>1. visited' = visited /\ ToSet(queue') = ToSet(rest) /\ queue' \in Seq(Fns)
    BY <1>1, <1>2, <1>9
  <2>2. visited \cup ToSet(queue) = visited' \cup ToSet(queue')
    BY <1>2, <1>9, <2>1
  <2>3. Inside(r, visited)' /\ Inside(r, ToSet(queue))'
    <3>1. PICK V, Q : V = visited /\ Q = ToSet(rest)
      OBVIOUS
    <3>2. Inside(r, V)' /\ Inside(r, Q)'
      BY <1>6, <1>8, <3>1
    <3>3. QED
      BY <2>1, <3>1, <3>2
  <2>4. QED
    BY <1>8, <2>1, <2>2, <2>3 DEF Worklist
<1>10. CASE f \notin visited
  <2>1. /\ visited' = visited \cup {f} /\ ToSet(queue') = ToSet(rest) \cup found
        /\ queue' \in Seq(Fns)
    <3>1. queue' = rest \o Ascending(found) /\ visited' = visited \cup {f}
      BY <1>1, <1>10
    <3>2. PICK a : a = Ascending(found)
      OBVIOUS
    <3>3. rest \o a \in Seq(Fns) /\ ToSet(rest \o a) = ToSet(rest) \cup ToSet(a)
      BY <1>2, <1>5, <3>2, SetOfJoin
    <3>4. QED
      BY <1>5, <3>1, <3>2, <3>3
  <2>2. visited' \cup ToSet(queue') = (visited \cup ToSet(queue)) \cup found
    BY <1>2, <2>1
  <2>3. Inside(r, visited)' /\ Inside(r, ToSet(queue))'
    <3>1. PICK V, Q : V = visited \cup {f} /\ Q = ToSet(rest) \cup found
      OBVIOUS
    <3>2. Inside(r, V) /\ Inside(r, Q)
      BY <1>6, <1>7, <3>1 DEF Inside
    <3>3. Inside(r, V)' /\ Inside(r, Q)'
      BY <1>8, <3>2
    <3>4. QED
      BY <2>1, <3>1, <3>3
  <2>4. r.registry = "" =>
          \A h \in visited' : \A g \in Fns :
              Leads(h, g) => g \in visited' \cup ToSet(queue')
    BY <1>4, <2>1, <2>2 DEF Worklist
  <2>5. /\ visited' \in SUBSET Fns
        /\ RootFunctions(r) \subseteq visited' \cup ToSet(queue')
    BY <1>2, <2>1, <2>2 DEF Worklist
  <2>6. QED
    BY <1>8, <2>1, <2>3, <2>4, <2>5 DEF Worklist
<1>11. QED
  BY <1>9, <1>10

LEMMA VisitInv == ClosureInv /\ Visit => ClosureInv'
<1> SUFFICES ASSUME ClosureInv, Visit
             PROVE  ClosureInv'
  OBVIOUS
<1>1. /\ phase = "closure" /\ open /\ UNCHANGED <<input, phase, at, open, reach>>
  BY DEF Visit
<1>2. at \in DOMAIN roots /\ input \in Inputs /\ Worklist(roots[at])
  BY <1>1 DEF ClosureInv
<1>3. PICK r : r = roots[at]
  OBVIOUS
<1>4. Worklist(r)'
  BY <1>2, <1>3, VisitKeeps
<1>5. UNCHANGED input /\ roots' = roots /\ Fns' = Fns
  BY <1>1, Given
<1>6. Worklist(roots[at])'
  BY <1>1, <1>3, <1>4, <1>5
<1>7. \A i : Loaded(i)' <=> Loaded(i)
  BY <1>5, Given DEF Loaded
<1>8. \A i : Closure(roots[i], reach[i])' <=> Closure(roots[i], reach[i])
  BY <1>1, <1>5, InsideKept
<1>9. QED
  BY <1>1, <1>2, <1>5, <1>6, <1>7, <1>8 DEF ClosureInv

\* A root is closed when nothing is left to visit.
LEMMA CloseRootInv == ClosureInv /\ CloseRoot => ClosureInv'
<1> SUFFICES ASSUME ClosureInv, CloseRoot
             PROVE  ClosureInv'
  OBVIOUS
<1>1. /\ phase = "closure" /\ open /\ queue = <<>> /\ UNCHANGED <<input, phase>>
      /\ reach' = [reach EXCEPT ![at] = visited] /\ open' = FALSE /\ at' = at + 1
  BY DEF CloseRoot
<1>2. at \in DOMAIN roots /\ input \in Inputs /\ Worklist(roots[at]) /\ at \in Nat \ {0}
  BY <1>1 DEF ClosureInv
<1>3. DOMAIN roots = 1..Len(roots) /\ Len(roots) \in Nat
  BY <1>2, Compiles
<1>4. Closure(roots[at], visited)
  <2>1. ToSet(queue) = {}
    BY <1>1 DEF ToSet
  <2>2. QED
    BY <1>2, <2>1 DEF Worklist, Closure, ClosedSet
<1>5. UNCHANGED input /\ roots' = roots /\ Fns' = Fns
  BY <1>1, Given
<1>6. \A i : Loaded(i)' <=> Loaded(i)
  BY <1>5, Given DEF Loaded
<1>7. ASSUME NEW i \in DOMAIN roots, i < at', Loaded(i)'
      PROVE  Closure(roots[i], reach[i])'
  <2>1. PICK r, S : r = roots[i] /\ S = reach'[i]
    OBVIOUS
  <2>2. CASE i = at
    <3>1. S = visited
      BY <1>1, <1>2, <2>1, <2>2 DEF ClosureInv
    <3>2. Closure(r, S)
      BY <1>4, <2>1, <2>2, <3>1
    <3>3. Closure(r, S)'
      BY <1>5, <3>2, InsideKept
    <3>4. QED
      BY <1>5, <2>1, <3>3
  <2>3. CASE i # at
    <3>1. i < at
      BY <1>1, <1>2, <1>3, <1>7, <2>3
    <3>2. Closure(r, S)
      BY <1>1, <1>6, <1>7, <2>1, <2>3, <3>1 DEF ClosureInv
    <3>3. Closure(r, S)'
      BY <1>5, <3>2, InsideKept
    <3>4. QED
      BY <1>5, <2>1, <3>3
  <2>4. QED
    BY <2>2, <2>3
<1>8. reach' \in [DOMAIN roots' -> SUBSET Fns'] /\ at' \in Nat \ {0}
  <2>1. visited \in SUBSET Fns /\ Fns' = Fns
    BY <1>2, <1>5, Given DEF Worklist
  <2>2. QED
    BY <1>1, <1>2, <1>5, <2>1 DEF ClosureInv
<1>9. QED
  BY <1>1, <1>2, <1>5, <1>7, <1>8 DEF ClosureInv

\* A root outside the program is left out: nothing is said of it.
LEMMA SkipRootInv == ClosureInv /\ SkipRoot => ClosureInv'
<1> SUFFICES ASSUME ClosureInv, SkipRoot
             PROVE  ClosureInv'
  OBVIOUS
<1>1. /\ phase = "closure" /\ ~open /\ at' = at + 1 /\ ~Loaded(at)
      /\ UNCHANGED <<input, phase, open, reach>>
  BY DEF SkipRoot, Loaded
<1>2. input \in Inputs /\ at \in Nat \ {0}
  BY DEF ClosureInv
<1>3. DOMAIN roots = 1..Len(roots) /\ Len(roots) \in Nat
  BY <1>2, Compiles
<1>4. UNCHANGED input /\ roots' = roots /\ Fns' = Fns
  BY <1>1, Given
<1>5. \A i : Loaded(i)' <=> Loaded(i)
  BY <1>4, Given DEF Loaded
<1>6. \A i : Closure(roots[i], reach[i])' <=> Closure(roots[i], reach[i])
  BY <1>1, <1>4, InsideKept
<1>7. ASSUME NEW i \in DOMAIN roots, i < at', Loaded(i)
      PROVE  i < at
  BY <1>1, <1>2, <1>3, <1>7
<1>8. \A i \in DOMAIN roots : i < at' /\ Loaded(i) => Closure(roots[i], reach[i])
  BY <1>7 DEF ClosureInv
<1>9. QED
  BY <1>1, <1>2, <1>4, <1>5, <1>6, <1>8 DEF ClosureInv

LEMMA ClosureInit == Init => ClosureInv
<1> SUFFICES ASSUME Init
             PROVE  ClosureInv
  OBVIOUS
<1>1. input \in Inputs /\ at = 1 /\ phase = "start" /\ open = FALSE
      /\ reach = [i \in DOMAIN roots |-> {}]
  BY DEF Init
<1>2. DOMAIN roots = 1..Len(roots) /\ Len(roots) \in Nat
  BY <1>1, Compiles
<1>3. \A i \in DOMAIN roots : ~(i < at)
  BY <1>1, <1>2
<1>4. open \in BOOLEAN /\ ~open
  BY <1>1, Zenon
<1>5. at \in Nat \ {0} /\ phase \in Phases /\ phase \in {"start", "closure"}
  BY <1>1 DEF Phases
<1>6. reach \in [DOMAIN roots -> SUBSET Fns]
  BY <1>1
<1>7. QED
  BY <1>1, <1>3, <1>4, <1>5, <1>6 DEF ClosureInv

LEMMA ClosureNext == ClosureInv /\ [Next]_vars => ClosureInv'
<1> SUFFICES ASSUME ClosureInv, [Next]_vars
             PROVE  ClosureInv'
  OBVIOUS
<1>1. CASE OpenRoot
  BY <1>1, OpenRootInv
<1>2. CASE Visit
  BY <1>2, VisitInv
<1>3. CASE CloseRoot
  BY <1>3, CloseRootInv
<1>4. CASE SkipRoot
  BY <1>4, SkipRootInv
<1>5. CASE Admit \/ EndClosure
  <2>1. /\ UNCHANGED <<input, at, reach>> /\ open' = FALSE
        /\ phase' \in Phases /\ (phase' \notin {"start", "closure"} => at > Len(roots))
    BY <1>5 DEF Admit, EndClosure, Phases, ClosureInv
  <2>2. QED
    BY <2>1, ClosureKept
<1>6. CASE ScanRoot \/ EndSeams \/ InferState \/ Refuse
  <2>1. /\ UNCHANGED <<input, at, reach>> /\ UNCHANGED open /\ phase' \in Phases
        /\ phase \in Phases \ {"start", "closure"}
    BY <1>6 DEF ScanRoot, EndSeams, InferState, Refuse, Phases
  <2>2. open = FALSE /\ at > Len(roots)
    BY <2>1 DEF ClosureInv
  <2>3. QED
    BY <2>1, <2>2, ClosureKept
<1>7. CASE UNCHANGED vars
  <2>1. UNCHANGED <<input, phase, at, open, queue, visited, reach>>
    BY <1>7 DEF vars
  <2>2. /\ roots' = roots /\ Fns' = Fns /\ \A i : Loaded(i)' <=> Loaded(i)
    BY <2>1, Given DEF Loaded
  <2>3. \A i : Closure(roots[i], reach[i])' <=> Closure(roots[i], reach[i])
    BY <2>1, <2>2, InsideKept
  <2>4. Worklist(roots[at])' <=> Worklist(roots[at])
    <3>1. PICK r, V, Q : r = roots[at] /\ V = visited /\ Q = ToSet(queue)
      OBVIOUS
    <3>2. /\ RootFunctions(r)' = RootFunctions(r)
          /\ \A f, g : Leads(f, g)' <=> Leads(f, g)
          /\ Inside(r, V)' <=> Inside(r, V)
          /\ Inside(r, Q)' <=> Inside(r, Q)
      BY <2>1, Given, InsideKept
    <3>3. Worklist(r)' <=> Worklist(r)
      BY <2>1, <2>2, <3>1, <3>2 DEF Worklist
    <3>4. QED
      BY <2>1, <2>2, <3>1, <3>3
  <2>5. QED
    BY <2>1, <2>2, <2>3, <2>4 DEF ClosureInv
<1>8. QED
  BY <1>1, <1>2, <1>3, <1>4, <1>5, <1>6, <1>7 DEF Next, Return

LEMMA ClosureHolds == Spec => []ClosureInv
BY ClosureInit, ClosureNext, PTL DEF Spec

\* The closure of a root is what the root reaches, whatever roots were closed
\* before it; a registry key only narrows it.
THEOREM ClosuresExact == Spec => []ClosureIsExact
<1>1. ClosureInv => ClosureIsExact
  <2> SUFFICES ASSUME ClosureInv, Done, NEW i \in DOMAIN roots, Loaded(i)
               PROVE  /\ reach[i] \subseteq Reachable(roots[i])
                      /\ roots[i].registry = "" => reach[i] = Reachable(roots[i])
    BY DEF ClosureIsExact, Loaded
  <2>1. input \in Inputs /\ at \in Nat /\ at > Len(roots)
    BY DEF ClosureInv, Done
  <2>2. i < at
    BY <2>1, Compiles
  <2>3. Closure(roots[i], reach[i])
    BY <2>2 DEF ClosureInv
  <2> DEFINE r == roots[i]
  <2> HIDE DEF r
  <2>4. Closure(r, reach[i])
    BY <2>3 DEF r
  <2>5. /\ Reachable(r) \in SUBSET Fns /\ RootFunctions(r) \subseteq Reachable(r)
        /\ ClosedSet(Reachable(r)) /\ Inside(r, Reachable(r))
    BY <2>1, ReachableIs
  <2>6. reach[i] \subseteq Reachable(r)
    BY <2>4, <2>5 DEF Closure, Inside
  <2>7. r.registry = "" => Reachable(r) \subseteq reach[i]
    BY <2>4, <2>5 DEF Closure, Inside
  <2>8. QED
    BY <2>6, <2>7 DEF r
<1>2. QED
  BY ClosureHolds, <1>1, PTL

-----------------------------------------------------------------------------
(* The seams between the roots.                                            *)

Writes(i, c) == \/ ChanField(c) /\ Uses(i, c, "send")
                \/ SyncField(c) /\ Uses(i, c, "lock")
Reads(i, c) == \/ ChanField(c) /\ Uses(i, c, "recv")
               \/ SyncField(c) /\ Uses(i, c, "lock")

\* What is collected of a field is what the roots scanned so far do to it.
Collected ==
    \A c \in Cells : \A i \in DOMAIN roots :
        /\ i \in access[c].writers <=> i \in scanned /\ Writes(i, c)
        /\ i \in access[c].readers <=> i \in scanned /\ Reads(i, c)

\* SeamsAreExact, of the seams as they are.
Real(s) ==
    /\ s.cell \in Cells
    /\ Cardinality(s.writers \cup s.readers) > 1
    /\ s.writers \subseteq DOMAIN roots /\ s.readers \subseteq DOMAIN roots
    /\ \A i \in DOMAIN roots :
          /\ i \in s.writers <=> Uses(i, s.cell, "send") \/ Uses(i, s.cell, "lock")
          /\ i \in s.readers <=> Uses(i, s.cell, "recv") \/ Uses(i, s.cell, "lock")
Shared(c, i, j) ==
    /\ i # j
    /\ \/ ChanField(c) /\ RootOwned(c)
          /\ Uses(i, c, "send") /\ Uses(j, c, "recv") /\ ~Uses(i, c, "recv")
       \/ SyncField(c) /\ Uses(i, c, "lock") /\ Uses(j, c, "lock")
AllReal(seams) ==
    /\ \A s \in seams : Real(s)
    /\ \A c \in Cells, i, j \in DOMAIN roots :
          Shared(c, i, j) => \E s \in seams : s.cell = c

SeamInv ==
    /\ DOMAIN report = DOMAIN Blank
    /\ scanned \subseteq DOMAIN roots
    /\ access \in [Cells -> [writers : SUBSET DOMAIN roots, readers : SUBSET DOMAIN roots]]
    /\ phase \in {"start", "closure"} => scanned = {}
    /\ Collected
    /\ phase \in {"state", "refuse", "done"} => AllReal(report.seams)

\* The program and the closures are as they were, and so is what they use.
LEMMA UsesKept ==
    ASSUME UNCHANGED <<input, reach>>
    PROVE  /\ \A c : ChanField(c)' <=> ChanField(c)
           /\ \A c : SyncField(c)' <=> SyncField(c)
           /\ \A c : RootOwned(c)' <=> RootOwned(c)
           /\ \A i, c, op : Uses(i, c, op)' <=> Uses(i, c, op)
           /\ \A i, c : Writes(i, c)' <=> Writes(i, c)
           /\ \A i, c : Reads(i, c)' <=> Reads(i, c)
           /\ \A S : AllReal(S)' <=> AllReal(S)
<1>1. prog' = prog /\ roots' = roots /\ Cells' = Cells
  BY Given
<1>2. \A i, c, op : Uses(i, c, op)' <=> Uses(i, c, op)
  BY <1>1 DEF Uses
<1>3. /\ \A c : ChanField(c)' <=> ChanField(c)
      /\ \A c : SyncField(c)' <=> SyncField(c)
      /\ \A c : RootOwned(c)' <=> RootOwned(c)
  BY <1>1 DEF ChanField, SyncField, RootOwned
<1>4. /\ \A i, c : Writes(i, c)' <=> Writes(i, c)
      /\ \A i, c : Reads(i, c)' <=> Reads(i, c)
  BY <1>2, <1>3 DEF Writes, Reads
<1>5. \A s : Real(s)' <=> Real(s)
  BY <1>1, <1>2 DEF Real
<1>6. \A c, i, j : Shared(c, i, j)' <=> Shared(c, i, j)
  BY <1>2, <1>3 DEF Shared
<1>7. \A S : AllReal(S)' <=> AllReal(S)
  BY <1>1, <1>5, <1>6 DEF AllReal
<1>8. QED
  BY <1>2, <1>3, <1>4, <1>7

\* A channel is not locked, and a mutex neither sent to nor received from.
LEMMA UsesApart ==
    ASSUME ClosureInv, NEW c \in Cells, NEW i \in DOMAIN roots
    PROVE  /\ ChanField(c) => ~Uses(i, c, "lock") /\ ~SyncField(c)
           /\ SyncField(c) => ~Uses(i, c, "send") /\ ~Uses(i, c, "recv")
<1>1. input \in Inputs /\ reach[i] \in SUBSET Fns
  BY DEF ClosureInv
<1>2. \A f \in reach[i] : \A j \in Code(prog, f) :
         j.on = c => /\ j.op \in {"send", "recv"} => prog.cell[c].type = "chan"
                     /\ j.op = "lock" => prog.cell[c].type # "chan"
  BY <1>1, Compiles
<1>3. ChanField(c) => ~SyncField(c) /\ prog.cell[c].type = "chan"
  BY DEF ChanField, SyncField, MutexTypes
<1>4. SyncField(c) => prog.cell[c].type # "chan"
  BY DEF SyncField, MutexTypes
<1>5. Uses(i, c, "lock") => prog.cell[c].type # "chan"
  BY <1>2 DEF Uses, On
<1>6. Uses(i, c, "send") \/ Uses(i, c, "recv") => prog.cell[c].type = "chan"
  BY <1>2 DEF Uses, On
<1>7. QED
  BY <1>3, <1>4, <1>5, <1>6

\* Two elements make a finite set one of more than one.
LEMMA TwoElements ==
    ASSUME NEW S, IsFiniteSet(S)
    PROVE  Cardinality(S) > 1 <=> \E x, y \in S : x # y
<1>1. /\ Cardinality(S) \in Nat
      /\ Cardinality(S) = 0 <=> S = {}
      /\ Cardinality(S) = 1 <=> \E x : S = {x}
  BY FS_CardinalityType, FS_EmptySet, FS_Singleton
<1>2. ASSUME Cardinality(S) > 1
      PROVE  \E x, y \in S : x # y
  <2>1. S # {} /\ ~(\E x : S = {x})
    <3>1. Cardinality(S) # 0 /\ Cardinality(S) # 1
      BY <1>1, <1>2
    <3>2. QED
      BY <1>1, <3>1, Zenon
  <2>2. QED
    BY <2>1
<1>3. ASSUME NEW x \in S, NEW y \in S, x # y
      PROVE  Cardinality(S) > 1
  <2>1. Cardinality(S) # 0 /\ Cardinality(S) # 1
    BY <1>1, <1>3
  <2>2. QED
    BY <1>1, <2>1
<1>4. QED
  BY <1>2, <1>3

\* When every root has been scanned, the seams found are the real ones.
LEMMA SeamsFound ==
    ASSUME ClosureInv, SeamInv, scanned = DOMAIN roots
    PROVE  AllReal({[cell |-> c, writers |-> access[c].writers,
                     readers |-> access[c].readers] : c \in {d \in Cells : IsSeam(d)}})
<1> DEFINE seam(c) == [cell |-> c, writers |-> access[c].writers,
                       readers |-> access[c].readers]
           seams == {seam(c) : c \in {d \in Cells : IsSeam(d)}}
<1>1. IsFiniteSet(DOMAIN roots)
  <2>1. DOMAIN roots = 1..Len(roots) /\ Len(roots) \in Nat
    BY Compiles DEF ClosureInv
  <2>2. QED
    BY <2>1, FS_Interval
<1>2. ASSUME NEW c \in Cells
      PROVE  /\ access[c].writers \in SUBSET DOMAIN roots
             /\ access[c].readers \in SUBSET DOMAIN roots
             /\ IsFiniteSet(access[c].writers \cup access[c].readers)
             /\ \A i \in DOMAIN roots :
                   /\ i \in access[c].writers <=> Writes(i, c)
                   /\ i \in access[c].readers <=> Reads(i, c)
  <2>1. /\ access[c].writers \in SUBSET DOMAIN roots
        /\ access[c].readers \in SUBSET DOMAIN roots
    BY DEF SeamInv
  <2>2. access[c].writers \cup access[c].readers \in SUBSET DOMAIN roots
    BY <2>1
  <2>3. IsFiniteSet(access[c].writers \cup access[c].readers)
    BY <1>1, <2>2, FS_Subset
  <2>4. QED
    BY <2>1, <2>3 DEF SeamInv, Collected
<1>3. ASSUME NEW c \in Cells, IsSeam(c)
      PROVE  Real(seam(c))
  <2>1. seam(c).cell = c /\ seam(c).writers = access[c].writers
        /\ seam(c).readers = access[c].readers
    OBVIOUS
  <2> HIDE DEF seam
  <2>2. Cardinality(access[c].writers \cup access[c].readers) > 1
    <3>1. CASE ChanField(c) /\ access[c].writers # access[c].readers
               /\ access[c].writers # {} /\ access[c].readers # {}
      <4>1. \E x, y \in access[c].writers \cup access[c].readers : x # y
        BY <3>1
      <4>2. QED
        BY <1>2, <4>1, TwoElements
    <3>2. CASE Cardinality(Touched(c)) >= 2
      <4>1. Cardinality(access[c].writers \cup access[c].readers) \in Nat
        BY <1>2, FS_CardinalityType
      <4>2. QED
        BY <3>2, <4>1 DEF Touched
    <3>3. QED
      BY <1>3, <3>1, <3>2 DEF IsSeam
  <2>3. ChanField(c) \/ SyncField(c)
    BY <1>3 DEF IsSeam
  <2>4. ASSUME NEW i \in DOMAIN roots
        PROVE  /\ Writes(i, c) <=> Uses(i, c, "send") \/ Uses(i, c, "lock")
               /\ Reads(i, c) <=> Uses(i, c, "recv") \/ Uses(i, c, "lock")
    BY <2>3, UsesApart DEF Writes, Reads
  <2>5. QED
    BY <1>2, <2>1, <2>2, <2>4 DEF Real
<1>4. ASSUME NEW c \in Cells, NEW i \in DOMAIN roots, NEW j \in DOMAIN roots,
             Shared(c, i, j)
      PROVE  IsSeam(c)
  <2>1. CASE ChanField(c) /\ RootOwned(c)
             /\ Uses(i, c, "send") /\ Uses(j, c, "recv") /\ ~Uses(i, c, "recv")
    <3>1. Writes(i, c) /\ Reads(j, c) /\ ~Reads(i, c)
      BY <2>1, UsesApart DEF Writes, Reads
    <3>2. i \in access[c].writers /\ j \in access[c].readers /\ i \notin access[c].readers
      BY <1>2, <3>1
    <3>3. QED
      BY <2>1, <3>2 DEF IsSeam
  <2>2. CASE i # j /\ SyncField(c) /\ Uses(i, c, "lock") /\ Uses(j, c, "lock")
    <3>1. i \in access[c].writers /\ j \in access[c].writers
      BY <1>2, <2>2 DEF Writes
    <3>2. Cardinality(access[c].writers \cup access[c].readers) > 1
      BY <1>2, <2>2, <3>1, TwoElements
    <3>3. Cardinality(access[c].writers \cup access[c].readers) \in Nat
      BY <1>2, FS_CardinalityType
    <3>4. QED
      BY <2>2, <3>2, <3>3 DEF IsSeam, Touched
  <2>3. QED
    BY <1>4, <2>1, <2>2 DEF Shared
<1>5. \A c : seam(c).cell = c
  OBVIOUS
<1> HIDE DEF seam
<1>6. AllReal(seams)
  BY <1>3, <1>4, <1>5 DEF AllReal
<1>7. QED
  BY <1>6 DEF seam

LEMMA ScanRootInv == ClosureInv /\ SeamInv /\ ScanRoot => SeamInv'
<1> SUFFICES ASSUME ClosureInv, SeamInv, ScanRoot
             PROVE  SeamInv'
  OBVIOUS
<1>1. PICK i \in DOMAIN roots \ scanned :
        /\ scanned' = scanned \cup {i}
        /\ access' = [c \in Cells |->
             [writers |-> access[c].writers \cup IF Writes(i, c) THEN {i} ELSE {},
              readers |-> access[c].readers \cup IF Reads(i, c) THEN {i} ELSE {}]]
  BY DEF ScanRoot, Writes, Reads
<1>2. phase = "seams" /\ UNCHANGED <<input, reach, phase, report>>
  BY DEF ScanRoot
<1>3. roots' = roots /\ Cells' = Cells
  BY <1>2, Given
<1>4. /\ \A k, c : Writes(k, c)' <=> Writes(k, c)
      /\ \A k, c : Reads(k, c)' <=> Reads(k, c)
  BY <1>2, UsesKept
<1>5. ASSUME NEW c \in Cells
      PROVE  /\ access'[c].writers = access[c].writers \cup IF Writes(i, c) THEN {i} ELSE {}
             /\ access'[c].readers = access[c].readers \cup IF Reads(i, c) THEN {i} ELSE {}
  BY <1>1
<1>6. access' \in [Cells -> [writers : SUBSET DOMAIN roots, readers : SUBSET DOMAIN roots]]
  BY <1>1 DEF SeamInv
<1>7. ASSUME NEW c \in Cells, NEW k \in DOMAIN roots
      PROVE  /\ k \in access'[c].writers <=> k \in scanned' /\ Writes(k, c)
             /\ k \in access'[c].readers <=> k \in scanned' /\ Reads(k, c)
  <2>1. /\ k \in access[c].writers <=> k \in scanned /\ Writes(k, c)
        /\ k \in access[c].readers <=> k \in scanned /\ Reads(k, c)
    BY DEF SeamInv, Collected
  <2>2. QED
    BY <1>1, <1>5, <2>1
<1>8. Collected'
  BY <1>3, <1>4, <1>7 DEF Collected
<1>9. scanned' \subseteq DOMAIN roots
  BY <1>1 DEF SeamInv
<1>10. QED
  BY <1>2, <1>3, <1>6, <1>8, <1>9 DEF SeamInv

LEMMA EndSeamsInv == ClosureInv /\ SeamInv /\ EndSeams => SeamInv'
<1> SUFFICES ASSUME ClosureInv, SeamInv, EndSeams
             PROVE  SeamInv'
  OBVIOUS
<1> DEFINE found == {[cell |-> c, writers |-> access[c].writers,
                      readers |-> access[c].readers] : c \in {d \in Cells : IsSeam(d)}}
<1>1. /\ scanned = DOMAIN roots /\ report' = [report EXCEPT !.seams = found]
      /\ phase' = "state" /\ UNCHANGED <<input, reach, access, scanned>>
  BY DEF EndSeams
<1>2. PICK S : S = found
  OBVIOUS
<1>3. AllReal(S)
  BY <1>1, <1>2, SeamsFound
<1> HIDE DEF found
<1>4. DOMAIN report' = DOMAIN Blank /\ report'.seams = S
  BY <1>1, <1>2 DEF SeamInv, Blank
<1>5. AllReal(S)'
  BY <1>1, <1>3, UsesKept
<1>6. AllReal(report.seams)'
  BY <1>4, <1>5
<1>7. /\ roots' = roots /\ Cells' = Cells
      /\ \A k, c : Writes(k, c)' <=> Writes(k, c)
      /\ \A k, c : Reads(k, c)' <=> Reads(k, c)
  BY <1>1, Given, UsesKept
<1>8. Collected'
  BY <1>1, <1>7 DEF SeamInv, Collected
<1>9. QED
  BY <1>1, <1>4, <1>6, <1>7, <1>8 DEF SeamInv

\* Before the seams nothing is collected; after them nothing is.
LEMMA SeamsUntouched ==
    ASSUME ClosureInv, SeamInv, UNCHANGED <<input, access, scanned>>,
           DOMAIN report' = DOMAIN report, phase' \in Phases,
           \/ phase \in {"start", "closure"} /\ phase' \in {"start", "closure", "seams"}
           \/ /\ UNCHANGED reach
              /\ phase' \in {"start", "closure"} => phase \in {"start", "closure"}
              /\ phase' \in {"state", "refuse", "done"} =>
                    /\ phase \in {"state", "refuse", "done"}
                    /\ report'.seams = report.seams
    PROVE  SeamInv'
<1>1. roots' = roots /\ Cells' = Cells
  BY Given
<1>2. Collected'
  <2>1. CASE phase \in {"start", "closure"}
    <3>1. scanned' = {}
      BY <2>1 DEF SeamInv
    <3>2. \A c \in Cells : \A i \in DOMAIN roots :
              i \notin access'[c].writers /\ i \notin access'[c].readers
      BY <2>1 DEF SeamInv, Collected
    <3>3. QED
      BY <1>1, <3>1, <3>2 DEF Collected
  <2>2. CASE UNCHANGED reach
    <3>1. /\ \A k, c : Writes(k, c)' <=> Writes(k, c)
          /\ \A k, c : Reads(k, c)' <=> Reads(k, c)
      BY <2>2, UsesKept
    <3>2. QED
      BY <1>1, <3>1 DEF SeamInv, Collected
  <2>3. QED
    BY <2>1, <2>2
<1>3. phase' \in {"state", "refuse", "done"} => AllReal(report.seams)'
  <2>1. SUFFICES ASSUME phase' \in {"state", "refuse", "done"}
                 PROVE  AllReal(report.seams)'
    OBVIOUS
  <2>2. /\ UNCHANGED reach /\ phase \in {"state", "refuse", "done"}
        /\ report'.seams = report.seams
    BY <2>1
  <2>3. PICK S : S = report.seams
    OBVIOUS
  <2>4. AllReal(S)
    BY <2>2, <2>3 DEF SeamInv
  <2>5. AllReal(S)'
    BY <2>2, <2>4, UsesKept
  <2>6. QED
    BY <2>2, <2>3, <2>5
<1>4. phase' \in {"start", "closure"} => scanned' = {}
  BY DEF SeamInv
<1>5. QED
  BY <1>1, <1>2, <1>3, <1>4 DEF SeamInv

LEMMA SeamInit == Init => SeamInv
<1> SUFFICES ASSUME Init
             PROVE  SeamInv
  OBVIOUS
<1>1. /\ scanned = {} /\ report = Blank /\ phase = "start"
      /\ access = [c \in Cells |-> [writers |-> {}, readers |-> {}]]
  BY DEF Init
<1>2. \A c \in Cells : access[c].writers = {} /\ access[c].readers = {}
  BY <1>1
<1>3. Collected
  BY <1>1, <1>2 DEF Collected
<1>4. access \in [Cells -> [writers : SUBSET DOMAIN roots, readers : SUBSET DOMAIN roots]]
  BY <1>1
<1>5. QED
  BY <1>1, <1>3, <1>4 DEF SeamInv

LEMMA SeamNext == ClosureInv /\ SeamInv /\ [Next]_vars => SeamInv'
<1> SUFFICES ASSUME ClosureInv, SeamInv, [Next]_vars
             PROVE  SeamInv'
  OBVIOUS
<1>1. CASE ScanRoot
  BY <1>1, ScanRootInv
<1>2. CASE EndSeams
  BY <1>2, EndSeamsInv
<1>3. CASE OpenRoot \/ Visit \/ CloseRoot \/ SkipRoot \/ EndClosure
  <2>1. /\ UNCHANGED <<input, access, scanned>> /\ report' = report
        /\ phase = "closure" /\ phase' \in {"closure", "seams"}
    BY <1>3 DEF OpenRoot, Visit, CloseRoot, SkipRoot, EndClosure
  <2>2. phase' \in Phases
    BY <2>1 DEF Phases
  <2>3. QED
    BY <2>1, <2>2, SeamsUntouched
<1>4. CASE Admit
  <2>1. /\ UNCHANGED <<input, access, scanned>>
        /\ phase = "start" /\ phase' = "closure" /\ phase' \in Phases
    BY <1>4 DEF Admit, Phases
  <2>2. DOMAIN report' = DOMAIN report
    BY <1>4 DEF Admit, SeamInv, Blank
  <2>3. QED
    BY <2>1, <2>2, SeamsUntouched
<1>5. CASE InferState
  <2>1. /\ UNCHANGED <<input, access, scanned, reach>>
        /\ phase = "state" /\ phase' = "refuse" /\ phase' \in Phases
    BY <1>5 DEF InferState, Phases
  <2>2. DOMAIN report' = DOMAIN report /\ report'.seams = report.seams
    BY <1>5 DEF InferState, SeamInv, Blank
  <2>3. QED
    BY <2>1, <2>2, SeamsUntouched
<1>6. CASE Refuse
  <2>1. /\ UNCHANGED <<input, access, scanned, reach>>
        /\ phase = "refuse" /\ phase' = "done" /\ phase' \in Phases
    BY <1>6 DEF Refuse, Phases
  <2>2. DOMAIN report' = DOMAIN report /\ report'.seams = report.seams
    BY <1>6 DEF Refuse, SeamInv, Blank
  <2>3. QED
    BY <2>1, <2>2, SeamsUntouched
<1>7. CASE UNCHANGED vars
  <2>1. UNCHANGED <<input, access, scanned, reach, phase, report>>
    BY <1>7 DEF vars
  <2>2. phase' \in Phases
    BY <2>1 DEF ClosureInv
  <2>3. QED
    BY <2>1, <2>2, SeamsUntouched
<1>8. QED
  BY <1>1, <1>2, <1>3, <1>4, <1>5, <1>6, <1>7 DEF Next, Return

LEMMA SeamHolds == Spec => []SeamInv
<1>1. ClosureInv /\ SeamInv /\ [Next]_vars => SeamInv'
  BY SeamNext
<1>2. QED
  BY ClosureHolds, SeamInit, <1>1, PTL DEF Spec

\* A seam is a field that two roots really share, and no shared channel of a
\* root type and no mutex two roots lock is missing, in whatever order the
\* roots were scanned.
THEOREM SeamsExact == Spec => []SeamsAreExact
<1>1. SeamInv => SeamsAreExact
  <2> SUFFICES ASSUME SeamInv, Done
               PROVE  SeamsAreExact
    BY DEF SeamsAreExact
  <2>1. AllReal(report.seams)
    BY DEF SeamInv, Done
  <2>2. ASSUME NEW s \in report.seams
        PROVE  /\ Cardinality(s.writers \cup s.readers) > 1
               /\ s.writers = {i \in DOMAIN roots :
                                 Uses(i, s.cell, "send") \/ Uses(i, s.cell, "lock")}
               /\ s.readers = {i \in DOMAIN roots :
                                 Uses(i, s.cell, "recv") \/ Uses(i, s.cell, "lock")}
    BY <2>1 DEF AllReal, Real
  <2>3. ASSUME NEW c \in Cells, NEW i \in DOMAIN roots, NEW j \in DOMAIN roots,
               Shared(c, i, j)
        PROVE  \E s \in report.seams : s.cell = c
    BY <2>1, <2>3 DEF AllReal
  <2>4. QED
    BY <2>2, <2>3 DEF SeamsAreExact, Shared
<1>2. QED
  BY SeamHolds, <1>1, PTL

-----------------------------------------------------------------------------
(* Assigned state, in the operators of StateClass.                         *)

\* A cell that is assigned in the region's scope is a seed.
LEMMA AssignedIsSeed ==
    ASSUME NEW p, NEW r, NEW fs, NEW c \in DOMAIN p.cell,
           InScope(p, r, c), Stores(p, fs, c) # {}
    PROVE  c \in Seeds(p, r, fs)
<1>1. Referenced(p, fs, c)
  BY DEF Stores, Referenced, On, Plain
<1>2. ~Skipped(p, fs, c)
  BY DEF Skipped
<1>3. QED
  BY <1>1, <1>2 DEF Seeds

\* Its class is not one of what may be replicated, whatever rule applies.
LEMMA AssignedClass ==
    ASSUME NEW p, NEW fs, NEW c, Stores(p, fs, c) # {}
    PROVE  InferClass(p.cell[c], Seed(p, fs, c)).class \in
               {"externalized-durable", "shared-mutable", "singleton-mutable", ""}
<1> DEFINE cell == p.cell[c]
           seed == Seed(p, fs, c)
<1>1. seed.stored
  BY DEF Seed
<1> HIDE DEF cell, seed
<1>2. InferClass(cell, seed).class \in
               {"externalized-durable", "shared-mutable", "singleton-mutable", ""}
  BY <1>1 DEF InferClass
<1>3. QED
  BY <1>2 DEF cell, seed

LEMMA RowIs ==
    ASSUME NEW cell, NEW seed
    PROVE  InferSeed(cell, seed, "") =
               [cell |-> seed.cell,
                class |-> IF InferClass(cell, seed).class = "" THEN "stateless"
                          ELSE InferClass(cell, seed).class,
                disposition |-> IF InferClass(cell, seed).class = "" THEN "refused"
                                ELSE DispositionForClass(InferClass(cell, seed).class),
                evidence |-> IF InferClass(cell, seed).class = "" THEN <<"", 0>>
                             ELSE InferClass(cell, seed).evidence,
                declared |-> FALSE]
<1>1. PICK class, evidence : /\ class = InferClass(cell, seed).class
                             /\ evidence = InferClass(cell, seed).evidence
  OBVIOUS
<1>2. CASE class = ""
  BY <1>1, <1>2 DEF InferSeed
<1>3. CASE class # ""
  BY <1>1, <1>3 DEF InferSeed
<1>4. QED
  BY <1>2, <1>3

LEMMA AssignedRow ==
    ASSUME NEW p, NEW fs, NEW c, Stores(p, fs, c) # {}
    PROVE  \E class, disposition, evidence, declared :
               /\ InferSeed(p.cell[c], Seed(p, fs, c), "") =
                      [cell |-> c, class |-> class, disposition |-> disposition,
                       evidence |-> evidence, declared |-> declared]
               /\ disposition # "replicated"
<1>1. PICK cell, seed, class : /\ cell = p.cell[c] /\ seed = Seed(p, fs, c)
                               /\ class = InferClass(cell, seed).class
  OBVIOUS
<1>2. class \in {"externalized-durable", "shared-mutable", "singleton-mutable", ""}
  BY <1>1, AssignedClass
<1>3. seed.cell = c
  BY <1>1 DEF Seed
<1>4. PICK row : row = InferSeed(cell, seed, "")
  OBVIOUS
<1>5. row = [cell |-> c,
             class |-> IF class = "" THEN "stateless" ELSE class,
             disposition |-> IF class = "" THEN "refused" ELSE DispositionForClass(class),
             evidence |-> IF class = "" THEN <<"", 0>> ELSE InferClass(cell, seed).evidence,
             declared |-> FALSE]
  BY <1>1, <1>3, <1>4, RowIs
<1>6. (IF class = "" THEN "refused" ELSE DispositionForClass(class)) # "replicated"
  BY <1>2 DEF DispositionForClass
<1>7. QED
  BY <1>1, <1>4, <1>5, <1>6

\* Merging rows loses none: a row is there, or the root's row that agrees.
LEMMA CoalesceKeeps ==
    ASSUME NEW rows, NEW row \in rows
    PROVE  \E w \in Coalesce(rows) : w = row \/ w = [row EXCEPT !.cell = 0]
BY DEF Coalesce

Unreplicated(rows, c) == \E w \in rows : w.cell \in {c, 0} /\ w.disposition # "replicated"

\* A root without a declaration, of which nothing is refused, has for each
\* cell it assigns a row that does not replicate it.
LEMMA AssignedHasRow ==
    ASSUME NEW p, NEW r, NEW fs, NEW exposed, NEW c \in DOMAIN p.cell,
           InScope(p, r, c), Stores(p, fs, c) # {},
           r.state = "", r.registry = "", Infer(p, r, fs, exposed).codes = {}
    PROVE  Unreplicated(Infer(p, r, fs, exposed).rows, c)
<1> DEFINE seeds == Seeds(p, r, fs)
           all == {InferSeed(p.cell[d], Seed(p, fs, d), r.state) : d \in seeds}
           row == InferSeed(p.cell[c], Seed(p, fs, c), "")
           db == EmbeddedDB(p, seeds, exposed)
<1>1. c \in seeds
  BY AssignedIsSeed
<1>2. row \in all
  BY <1>1
<1>3. \E class, disposition, evidence, declared :
          /\ row = [cell |-> c, class |-> class, disposition |-> disposition,
                    evidence |-> evidence, declared |-> declared]
          /\ disposition # "replicated"
  BY AssignedRow
<1> HIDE DEF row
<1>4. db = {}
  <2>1. db # {} => "MLV2_CLOSURE_TOO_LARGE" \in Infer(p, r, fs, exposed).codes
    BY <1>1 DEF Infer
  <2>2. QED
    BY <2>1
<1>5. Infer(p, r, fs, exposed).rows = Coalesce(all)
  BY <1>1, <1>4 DEF Infer
<1> HIDE DEF all
<1>6. PICK w \in Coalesce(all) : w = row \/ w = [row EXCEPT !.cell = 0]
  BY <1>2, CoalesceKeeps
<1>7. w.cell \in {c, 0} /\ w.disposition # "replicated"
  <2>1. PICK class, disposition, evidence, declared :
            /\ row = [cell |-> c, class |-> class, disposition |-> disposition,
                      evidence |-> evidence, declared |-> declared]
            /\ disposition # "replicated"
    BY <1>3
  <2>2. CASE w = row
    BY <2>1, <2>2
  <2>3. CASE w = [row EXCEPT !.cell = 0]
    BY <2>1, <2>3
  <2>4. QED
    BY <1>6, <2>2, <2>3
<1>8. QED
  BY <1>5, <1>6, <1>7 DEF Unreplicated

-----------------------------------------------------------------------------
(* Actors, in the operators of StateClass.                                 *)

\* The smallest and the greatest of a finite set of numbers are of the set.
LEMMA EndsInside ==
    ASSUME NEW T, T \subseteq Nat, IsFiniteSet(T), T # {}
    PROVE  Min(T) \in T /\ Max(T) \in T
<1>1. \E m \in T : \A n \in T : m <= n
  BY Least
<1>2. \E m \in T : \A n \in T : m >= n
  <2> DEFINE N == Cardinality(T)
             below == {N - Rank(T, x) : x \in T}
  <2>1. /\ N \in Nat
        /\ \A x \in T : Rank(T, x) \in 0..N - 1
        /\ \A x, y \in T : x < y => Rank(T, x) < Rank(T, y)
    BY FS_CardinalityType, RankGrows
  <2> HIDE DEF N
  <2>2. below \subseteq Nat /\ below # {}
    <3>1. \A x \in T : N - Rank(T, x) \in Nat
      BY <2>1
    <3>2. QED
      BY <3>1
  <2>3. PICK l \in below : \A n \in below : l <= n
    <3> HIDE DEF below
    <3>1. QED
      BY <2>2, Least
  <2>4. PICK x \in T : l = N - Rank(T, x)
    OBVIOUS
  <2>5. ASSUME NEW y \in T
        PROVE  x >= y
    <3>1. N - Rank(T, x) <= N - Rank(T, y)
      BY <2>3, <2>4
    <3>2. ~(Rank(T, x) < Rank(T, y))
      BY <2>1, <3>1
    <3>3. ~(x < y)
      BY <2>1, <3>2
    <3>4. x \in Nat /\ y \in Nat
      OBVIOUS
    <3>5. QED
      BY <3>3, <3>4
  <2>6. QED
    BY <2>5
<1>3. QED
  BY <1>1, <1>2 DEF Min, Max

LEMMA PrimaryInside ==
    ASSUME NEW T, T \subseteq DOMAIN Priority, T # {}
    PROVE  SelectPrimary(T) \in T
<1>1. DOMAIN Priority = {"hub", "actor", "fanout", "keyed", "session"}
  BY DEF Priority
<1>2. /\ Priority["hub"] = 150 /\ Priority["actor"] = 100
      /\ Priority["fanout"] = 75 /\ Priority["keyed"] = 50
      /\ Priority["session"] = 40
  BY DEF Priority
<1>3. \E a \in T : \A b \in T : Priority[b] <= Priority[a]
  <2>1. CASE "hub" \in T
    BY <1>1, <1>2, <2>1
  <2>2. CASE "hub" \notin T /\ "actor" \in T
    BY <1>1, <1>2, <2>2
  <2>3. CASE T \cap {"hub", "actor"} = {} /\ "fanout" \in T
    BY <1>1, <1>2, <2>3
  <2>4. CASE T \cap {"hub", "actor", "fanout"} = {} /\ "keyed" \in T
    BY <1>1, <1>2, <2>4
  <2>5. CASE T \cap {"hub", "actor", "fanout", "keyed"} = {}
    BY <1>1, <1>2, <2>5
  <2>6. QED
    BY <2>1, <2>2, <2>3, <2>4, <2>5
<1>4. QED
  BY <1>3 DEF SelectPrimary

\* A cell of an actor is a field, protected, and its effects are an actor's.
LEMMA ActorCell ==
    ASSUME NEW cell, NEW seed, NEW effects,
           ClassifyRegion(cell, seed, effects).primary = "actor"
    PROVE  /\ cell.owner # 0 /\ seed.protected
           /\ effects["effects.no-global-writes"] = "Hold"
           /\ \A e \in Effects : effects[e] \in {"Hold", "Unknown"}
<1> DEFINE some == Candidates(cell, seed, effects)
           left == Subsume(some)
<1>1. some \subseteq DOMAIN Priority
  BY DEF Candidates, Required, Priority
<1>2. left \subseteq some \cup {"hub"} /\ "hub" \in DOMAIN Priority
  BY DEF Subsume, Priority
<1>3. left # {} /\ SelectPrimary(left) = "actor"
  BY DEF ClassifyRegion
<1>4. SelectPrimary(left) \in left
  <2> HIDE DEF left
  <2>1. left \subseteq DOMAIN Priority
    <3> HIDE DEF some
    <3>1. QED
      BY <1>1, <1>2
  <2>2. QED
    BY <1>3, <2>1, PrimaryInside
<1>5. "actor" \in some
  <2> HIDE DEF left, some
  <2>1. QED
    BY <1>2, <1>3, <1>4
<1>6. Required["actor"] \subseteq Evidence(cell, seed, effects)
  BY <1>5 DEF Candidates
<1>7. Required["actor"] = Effects \cup {"state.mutex-encloses-store",
                                        "state.receiver-owned"}
  BY DEF Required
<1>8. cell.owner # 0 /\ seed.protected
  BY <1>6, <1>7 DEF Evidence, Effects
<1>9. ASSUME NEW e \in Effects
      PROVE  /\ effects[e] \in {"Hold", "Unknown"}
             /\ e = "effects.no-global-writes" => effects[e] = "Hold"
  <2>1. e \in Evidence(cell, seed, effects)
    BY <1>6, <1>7
  <2>2. QED
    BY <2>1 DEF Evidence, Effects
<1>10. QED
  BY <1>8, <1>9 DEF Effects

\* A region is an actor for a seed that is a field and is assigned or a
\* connection.
LEMMA ActorSeed ==
    ASSUME NEW p, NEW r, NEW fs, NEW effects,
           IsFiniteSet(DOMAIN p.cell), DOMAIN p.cell \subseteq Nat,
           Classification(p, r, fs, effects).primary = "actor"
    PROVE  /\ \E c \in Seeds(p, r, fs) :
                 /\ p.cell[c].owner # 0
                 /\ Stores(p, fs, c) # {} \/ "connections" \in p.cell[c].tags
           /\ effects["effects.no-global-writes"] = "Hold"
           /\ \A e \in Effects : effects[e] \in {"Hold", "Unknown"}
<1> DEFINE of(c) == ClassifyRegion(p.cell[c], Seed(p, fs, c), effects)
           named == {c \in Seeds(p, r, fs) : of(c).primary # ""}
           open_ == {c \in named : of(c).kind = "alternative_set"}
<1>1. named # {} /\ of(IF open_ = {} THEN Min(named) ELSE Max(open_)).primary = "actor"
  BY DEF Classification
<1>2. /\ open_ \subseteq named /\ named \subseteq Seeds(p, r, fs)
      /\ Seeds(p, r, fs) \subseteq DOMAIN p.cell
  BY DEF Seeds
<1> HIDE DEF of, named, open_
<1>3. /\ IsFiniteSet(named) /\ named \subseteq Nat
      /\ IsFiniteSet(open_) /\ open_ \subseteq Nat
  BY <1>2, FS_Subset
<1>4. PICK c \in named : of(c).primary = "actor"
  <2>1. CASE open_ = {}
    BY <1>1, <1>3, <2>1, EndsInside
  <2>2. CASE open_ # {}
    BY <1>1, <1>2, <1>3, <2>2, EndsInside
  <2>3. QED
    BY <2>1, <2>2
<1>5. /\ p.cell[c].owner # 0 /\ Seed(p, fs, c).protected
      /\ effects["effects.no-global-writes"] = "Hold"
      /\ \A e \in Effects : effects[e] \in {"Hold", "Unknown"}
  BY <1>4, ActorCell DEF of
<1>6. Stores(p, fs, c) # {} \/ "connections" \in p.cell[c].tags
  BY <1>5 DEF Seed
<1>7. QED
  BY <1>2, <1>4, <1>5, <1>6

\* Effects that are read off the operations and are an actor's come each from
\* an operation that keeps it.
LEMMA EffectsFound ==
    ASSUME NEW ops, NEW effects, \A e \in Effects : effects[e] \in Readings(ops, e),
           effects["effects.no-global-writes"] = "Hold",
           \A e \in Effects : effects[e] \in {"Hold", "Unknown"}
    PROVE  \A e \in Effects : \E i \in DOMAIN ops : Verdict(ops[i], e) = "Hold"
<1> DEFINE known(e) == {Verdict(ops[i], e) : i \in DOMAIN ops} \ {"Unknown"}
<1>1. ASSUME NEW e \in Effects
      PROVE  /\ known(e) = {} => effects[e] = "Unknown"
             /\ known(e) # {} => effects[e] \in known(e)
  BY <1>1 DEF Readings
<1>2. \A e \in Effects, i \in DOMAIN ops :
          /\ ops[i].code = NoBody => Verdict(ops[i], e) = "Unknown"
          /\ ops[i].code # NoBody => Verdict(ops[i], e) \in {"Hold", "Violate"}
  BY DEF Effects, Verdict, EffectVerdict, OfBody
<1>3. PICK i \in DOMAIN ops : ops[i].code # NoBody
  <2>1. "effects.no-global-writes" \in Effects
    BY DEF Effects
  <2>2. known("effects.no-global-writes") # {}
    BY <1>1, <2>1
  <2>3. QED
    BY <1>2, <2>1, <2>2
<1>4. ASSUME NEW e \in Effects
      PROVE  \E j \in DOMAIN ops : Verdict(ops[j], e) = "Hold"
  <2>1. Verdict(ops[i], e) \in known(e)
    BY <1>2, <1>3
  <2>2. effects[e] \in known(e)
    BY <1>1, <2>1
  <2>3. effects[e] = "Hold"
    BY <2>2
  <2>4. QED
    BY <2>2, <2>3
<1>5. QED
  BY <1>4

-----------------------------------------------------------------------------
(* What the report says of the state.                                      *)

\* Of a root without a declaration that nothing refuses, the rows replicate
\* no cell that is assigned.
RowsHold(p, r, fs, rows, codes) ==
    r.state = "" /\ r.registry = "" /\ codes = {} =>
        \A c \in DOMAIN p.cell :
            InScope(p, r, c) /\ Stores(p, fs, c) # {} => Unreplicated(rows, c)

\* What an actor stands on.
Backed(p, r, fs, ops) ==
    /\ \E c \in Seeds(p, r, fs) :
          /\ p.cell[c].owner # 0
          /\ Stores(p, fs, c) # {} \/ "connections" \in p.cell[c].tags
    /\ \A e \in Effects : \E i \in DOMAIN ops : Verdict(ops[i], e) = "Hold"

StateInv ==
    /\ phase \in {"refuse", "done"} =>
          /\ RowsHold(prog, root, ReachableFuncs, report.rows, report.codes)
          /\ report.archetype = "actor" =>
                Backed(prog, root, ReachableFuncs, Operations(root))
    /\ phase = "done" =>
          /\ report.verdict = "accept" => report.codes = {}
          /\ "actor" \in report.adapters => report.archetype = "actor"

\* The cells and the operations of a root are given as well.
LEMMA OperationsKept ==
    ASSUME UNCHANGED <<input, reach>>
    PROVE  /\ ReachableFuncs' = ReachableFuncs
           /\ Operations(root)' = Operations(root)
<1>1. prog' = prog /\ roots' = roots /\ root' = root /\ Fns' = Fns
  BY Given
<1>2. ReachableFuncs' = ReachableFuncs
  BY <1>1 DEF ReachableFuncs
<1>3. PICK r, p : r = root /\ p = prog
  OBVIOUS
<1>4. Exposed(r)' = Exposed(r) /\ Declared(r)' = Declared(r)
  BY <1>1 DEF Exposed, Declared
<1>5. \A fs : OpsOf(fs)' = OpsOf(fs)
  BY <1>1 DEF OpsOf
<1>6. Operations(r)' = Operations(r)
  BY <1>1, <1>4, <1>5 DEF Operations
<1>7. QED
  BY <1>1, <1>2, <1>3, <1>6

LEMMA InferStateInv == ClosureInv /\ SeamInv /\ InferState => StateInv'
<1> SUFFICES ASSUME ClosureInv, SeamInv, InferState
             PROVE  StateInv'
  OBVIOUS
<1> DEFINE state == Infer(prog, root, ReachableFuncs, ExposedNames(root))
<1>1. PICK effects \in [Effects -> {"Hold", "Unknown", "Violate"}] :
          /\ \A e \in Effects : effects[e] \in Readings(Operations(root), e)
          /\ report' = [report EXCEPT
                 !.rows = state.rows, !.codes = @ \cup state.codes,
                 !.archetype = Classification(prog, root, ReachableFuncs,
                                              effects).primary]
  BY DEF InferState
<1>2. PICK p, r, fs, ops, exposed, inferred, kind :
          /\ p = prog /\ r = root /\ fs = ReachableFuncs /\ ops = Operations(root)
          /\ exposed = ExposedNames(root) /\ inferred = Infer(p, r, fs, exposed)
          /\ kind = Classification(p, r, fs, effects).primary
  OBVIOUS
<1>3. /\ p = prog' /\ r = root' /\ fs = ReachableFuncs' /\ ops = Operations(root)'
  <2>1. UNCHANGED <<input, reach>>
    BY DEF InferState
  <2>2. QED
    BY <1>2, <2>1, Given, OperationsKept
<1>4. /\ report'.rows = inferred.rows
      /\ report'.codes = report.codes \cup inferred.codes
      /\ report'.archetype = kind
  <2>1. DOMAIN report = DOMAIN Blank
    BY DEF SeamInv
  <2>2. QED
    BY <1>1, <1>2, <2>1 DEF Blank
<1>5. phase' = "refuse"
  BY DEF InferState
<1>6. RowsHold(p, r, fs, report'.rows, report'.codes)
  <2> SUFFICES ASSUME r.state = "", r.registry = "", report'.codes = {},
                      NEW c \in DOMAIN p.cell, InScope(p, r, c), Stores(p, fs, c) # {}
               PROVE  Unreplicated(inferred.rows, c)
    BY <1>4 DEF RowsHold
  <2>1. /\ c \in DOMAIN p.cell /\ InScope(p, r, c) /\ Stores(p, fs, c) # {}
        /\ r.state = "" /\ r.registry = "" /\ Infer(p, r, fs, exposed).codes = {}
    BY <1>2, <1>4
  <2>2. Unreplicated(Infer(p, r, fs, exposed).rows, c)
    BY <2>1, AssignedHasRow
  <2>3. QED
    BY <1>2, <2>2
<1>7. ASSUME kind = "actor"
      PROVE  Backed(p, r, fs, ops)
  <2>1. IsFiniteSet(DOMAIN p.cell) /\ DOMAIN p.cell \subseteq Nat
    BY <1>2, ExtractionAssumption DEF ClosureInv, prog
  <2>2. Classification(p, r, fs, effects).primary = "actor"
    BY <1>2, <1>7
  <2>3. /\ \E c \in Seeds(p, r, fs) :
              /\ p.cell[c].owner # 0
              /\ Stores(p, fs, c) # {} \/ "connections" \in p.cell[c].tags
        /\ effects["effects.no-global-writes"] = "Hold"
        /\ \A e \in Effects : effects[e] \in {"Hold", "Unknown"}
    BY <2>1, <2>2, ActorSeed
  <2>4. \A e \in Effects : effects[e] \in Readings(ops, e)
    BY <1>1, <1>2
  <2>5. \A e \in Effects : \E i \in DOMAIN ops : Verdict(ops[i], e) = "Hold"
    BY <2>3, <2>4, EffectsFound
  <2>6. QED
    BY <2>3, <2>5 DEF Backed
<1>8. QED
  BY <1>3, <1>4, <1>5, <1>6, <1>7 DEF StateInv

LEMMA RefuseInv == ClosureInv /\ SeamInv /\ StateInv /\ Refuse => StateInv'
<1> SUFFICES ASSUME ClosureInv, SeamInv, StateInv, Refuse
             PROVE  StateInv'
  OBVIOUS
<1>1. PICK p, r, fs, ops, rows, codes :
          /\ p = prog /\ r = root /\ fs = ReachableFuncs /\ ops = Operations(root)
          /\ rows = report.rows /\ codes = report.codes \cup SurfaceCodes \cup UnboundedCodes
  OBVIOUS
<1>2. p = prog' /\ r = root' /\ fs = ReachableFuncs' /\ ops = Operations(root)'
  <2>1. UNCHANGED <<input, reach>>
    BY DEF Refuse
  <2>2. QED
    BY <1>1, <2>1, Given, OperationsKept
<1>3. /\ report'.rows = rows /\ report'.codes = codes
      /\ report'.archetype = report.archetype /\ report'.adapters = Adapters
      /\ report'.verdict = IF codes = {} THEN "accept" ELSE "refuse-blocking"
  <2>1. DOMAIN report = DOMAIN Blank
    BY DEF SeamInv
  <2>2. QED
    BY <1>1, <2>1 DEF Refuse, Blank
<1>4. phase = "refuse" /\ phase' = "done"
  BY DEF Refuse
<1>5. RowsHold(p, r, fs, rows, codes)
  <2>1. RowsHold(p, r, fs, rows, report.codes)
    BY <1>1, <1>4 DEF StateInv
  <2>2. codes = {} => report.codes = {}
    BY <1>1
  <2>3. QED
    BY <2>1, <2>2 DEF RowsHold
<1>6. report.archetype = "actor" => Backed(p, r, fs, ops)
  BY <1>1, <1>4 DEF StateInv
<1>7. "actor" \in Adapters => report.archetype = "actor"
  BY DEF Adapters
<1>8. QED
  BY <1>2, <1>3, <1>4, <1>5, <1>6, <1>7 DEF StateInv

LEMMA StateNext == ClosureInv /\ SeamInv /\ StateInv /\ [Next]_vars => StateInv'
<1> SUFFICES ASSUME ClosureInv, SeamInv, StateInv, [Next]_vars
             PROVE  StateInv'
  OBVIOUS
<1>1. CASE InferState
  BY <1>1, InferStateInv
<1>2. CASE Refuse
  BY <1>2, RefuseInv
<1>3. CASE Admit \/ SkipRoot \/ OpenRoot \/ Visit \/ CloseRoot \/ EndClosure
           \/ ScanRoot \/ EndSeams
  <2>1. phase' \in {"closure", "seams", "state"}
    BY <1>3 DEF Admit, SkipRoot, OpenRoot, Visit, CloseRoot, EndClosure, ScanRoot,
                EndSeams
  <2>2. QED
    BY <2>1 DEF StateInv
<1>4. CASE UNCHANGED vars
  <2>1. UNCHANGED <<input, reach>> /\ phase' = phase /\ report' = report
    BY <1>4 DEF vars
  <2>2. /\ prog' = prog /\ root' = root
        /\ ReachableFuncs' = ReachableFuncs /\ Operations(root)' = Operations(root)
    BY <2>1, Given, OperationsKept
  <2>3. QED
    BY <2>1, <2>2 DEF StateInv
<1>5. QED
  BY <1>1, <1>2, <1>3, <1>4 DEF Next, Return

LEMMA StateHolds == Spec => []StateInv
<1>1. Init => StateInv
  BY DEF Init, StateInv
<1>2. ClosureInv /\ SeamInv /\ StateInv /\ [Next]_vars => StateInv'
  BY StateNext
<1>3. QED
  BY ClosureHolds, SeamHolds, <1>1, <1>2, PTL DEF Spec

\* An accepted region whose developer declared nothing never replicates a
\* variable or a field that its functions are seen to assign.
THEOREM AssignedNotReplicated == Spec => []AssignedIsNeverReplicated
<1>1. StateInv => AssignedIsNeverReplicated
  <2> SUFFICES ASSUME StateInv, Done, report.verdict = "accept",
                      root.state = "", root.registry = "",
                      NEW c \in Cells, InScope(prog, root, c),
                      Stores(prog, ReachableFuncs, c) # {}
               PROVE  \E w \in Row(c) \cup Row(0) : w.disposition # "replicated"
    BY DEF AssignedIsNeverReplicated
  <2>1. PICK w \in report.rows : w.cell \in {c, 0} /\ w.disposition # "replicated"
    BY DEF StateInv, Done, RowsHold, Cells, Unreplicated
  <2>2. QED
    BY <2>1 DEF Row
<1>2. QED
  BY StateHolds, <1>1, PTL

\* A region gets the actor adapter only when a field of its package is
\* protected or assigned and no operation, taken alone, breaks all that an
\* actor relies on.
THEOREM ActorsBacked == Spec => []ActorIsBacked
<1>1. StateInv => ActorIsBacked
  <2> SUFFICES ASSUME StateInv, Done, "actor" \in report.adapters
               PROVE  Backed(prog, root, ReachableFuncs, Operations(root))
    BY DEF ActorIsBacked, Backed
  <2>1. QED
    BY DEF StateInv, Done
<1>2. QED
  BY StateHolds, <1>1, PTL
=============================================================================
