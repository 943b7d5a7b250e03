--------------------------- MODULE MonolithProofs ---------------------------
(***************************************************************************)
(* Proofs about the demo monolith: what its lists, timelines and posts     *)
(* keep under every interleaving of handlers and workers, for every number *)
(* of callers, workers, users and posts, every set of requests and every   *)
(* number of failing calls.                                                *)
(***************************************************************************)
EXTENDS Monolith, FiniteSetTheorems, SequenceTheorems, WellFoundedInduction, TLAPS

(* Recursive functions over the positions of a list. *)

\* A non-empty set of numbers has a least one.
LEMMA Least ==
    ASSUME NEW T, T \subseteq Nat, T # {}
    PROVE  \E m \in T : \A n \in T : m <= n
<1>1. PICK m \in T : \A w \in T : ~(<<w, m>> \in OpToRel(<, Nat))
  BY NatLessThanWellFounded, WFMin
<1>2. ASSUME NEW w \in T PROVE ~(w < m)
  <2>1. w \in Nat /\ m \in Nat
    OBVIOUS
  <2>2. w < m => <<w, m>> \in OpToRel(<, Nat)
    BY <2>1, Zenon DEF OpToRel
  <2>3. QED BY <1>1, <2>2, Zenon
<1>3. QED BY <1>2

LEMMA Climb ==
    ASSUME NEW T, 0 \in T, \A n \in Nat : n \in T => n + 1 \in T
    PROVE  Nat \subseteq T
<1> DEFINE M == {n \in Nat : n \notin T}
<1>1. SUFFICES ASSUME M # {} PROVE FALSE
  OBVIOUS
<1>2. PICK m \in M : \A n \in M : m <= n
  BY <1>1, Least
<1>3. m \in Nat /\ m # 0 /\ m \notin T
  OBVIOUS
<1>4. m - 1 \in Nat /\ m - 1 \notin M /\ (m - 1) + 1 = m
  BY <1>2, <1>3
<1>5. QED BY <1>3, <1>4

\* What is defined step by step along the positions of a list exists.
Stepwise(N, b, step, f) == f[0] = b /\ \A n \in 1..N : f[n] = step[n][f[n - 1]]

LEMMA Recursion ==
    ASSUME NEW N \in Nat, NEW S, NEW b \in S, NEW step \in [1..N -> [S -> S]]
    PROVE  \E f \in [0..N -> S] : Stepwise(N, b, step, f)
<1> DEFINE OK(n, f) == f[0] = b /\ \A i \in 1..n : f[i] = step[i][f[i - 1]]
           T == {n \in Nat : n <= N => \E f \in [0..n -> S] : OK(n, f)}
<1>1. 0 \in T
  <2>1. [i \in 0..0 |-> b] \in [0..0 -> S] /\ OK(0, [i \in 0..0 |-> b])
    OBVIOUS
  <2>2. QED BY <2>1
<1>2. ASSUME NEW n \in Nat, n \in T PROVE n + 1 \in T
  <2>1. SUFFICES ASSUME n + 1 <= N PROVE \E f \in [0..(n + 1) -> S] : OK(n + 1, f)
    OBVIOUS
  <2>2. PICK f \in [0..n -> S] : OK(n, f)
    BY <1>2, <2>1
  <2> DEFINE g == [i \in 0..(n + 1) |-> IF i = n + 1 THEN step[n + 1][f[n]] ELSE f[i]]
  <2>3. step[n + 1][f[n]] \in S
    BY <2>1
  <2>4. g \in [0..(n + 1) -> S]
    BY <2>3
  <2>5. ASSUME NEW i \in 1..(n + 1) PROVE g[i] = step[i][g[i - 1]]
    <3>1. CASE i = n + 1
      <4>1. i \in 0..(n + 1) /\ i - 1 \in 0..(n + 1) /\ i - 1 = n /\ n # n + 1
        BY <3>1
      <4>2. g[i] = step[n + 1][f[n]] /\ g[i - 1] = f[n]
        BY <3>1, <4>1
      <4> HIDE DEF g
      <4>3. QED BY <3>1, <4>2
    <3>2. CASE i # n + 1
      <4>1. i \in 1..n /\ i - 1 \in 0..n /\ i - 1 # n + 1
        BY <3>2
      <4>2. g[i] = f[i] /\ g[i - 1] = f[i - 1]
        BY <4>1
      <4>3. f[i] = step[i][f[i - 1]]
        BY <2>2, <4>1
      <4> HIDE DEF g
      <4>4. QED BY <4>2, <4>3
    <3>3. QED BY <3>1, <3>2
  <2>6. g[0] = b
    BY <2>2
  <2>7. QED BY <2>4, <2>5, <2>6
<1>3. N \in T
  <2> HIDE DEF T
  <2> QED BY <1>1, <1>2, Climb
<1>4. QED BY <1>3 DEF Stepwise

(* What the operators on lists keep and drop. *)

LEMMA Elements ==
    ASSUME NEW S, NEW list \in Seq(S)
    PROVE  /\ ToSet(list) \subseteq S
           /\ \A x : Contains(list, x) <=> x \in ToSet(list)
           /\ \A x \in S : /\ Append(list, x) \in Seq(S)
                           /\ ToSet(Append(list, x)) = ToSet(list) \cup {x}
<1>1. Len(list) \in Nat /\ DOMAIN list = 1..Len(list)
  OBVIOUS
<1>2. ASSUME NEW x \in S PROVE ToSet(Append(list, x)) = ToSet(list) \cup {x}
  <2> DEFINE a == Append(list, x)
  <2>1. /\ DOMAIN a = 1..(Len(list) + 1) /\ a[Len(list) + 1] = x
        /\ \A i \in 1..Len(list) : a[i] = list[i]
    BY <1>1
  <2> HIDE DEF a
  <2>2. ToSet(a) = ToSet(list) \cup {x}
    BY <1>1, <2>1 DEF ToSet
  <2>3. QED BY <2>2 DEF a
<1>3. \A x \in S : Append(list, x) \in Seq(S)
  OBVIOUS
<1>4. ToSet(list) \subseteq S /\ \A x : Contains(list, x) <=> x \in ToSet(list)
  BY <1>1 DEF ToSet, Contains
<1>5. QED BY <1>2, <1>3, <1>4

LEMMA Part ==
    ASSUME NEW S, NEW list \in Seq(S), NEW m \in Nat \ {0}, NEW n \in Nat, n <= Len(list)
    PROVE  /\ SubSeq(list, m, n) \in Seq(S)
           /\ ToSet(SubSeq(list, m, n)) \subseteq ToSet(list)
<1>1. Len(list) \in Nat /\ DOMAIN list = 1..Len(list)
  OBVIOUS
<1>2. \A i \in m..n : i \in 1..Len(list) /\ list[i] \in S
  BY <1>1
<1> DEFINE s == SubSeq(list, m, n)
<1>3. /\ s \in Seq(S) /\ Len(s) = IF m <= n THEN n - m + 1 ELSE 0
      /\ \A i \in 1..(n - m + 1) : s[i] = list[m + i - 1]
  BY <1>2, SubSeqProperties
<1>4. DOMAIN s = 1..Len(s)
  BY <1>3
<1> HIDE DEF s
<1>5. \A i \in DOMAIN s : m + i - 1 \in DOMAIN list /\ s[i] = list[m + i - 1]
  BY <1>1, <1>3, <1>4
<1>6. QED BY <1>3, <1>5 DEF s, ToSet

\* A list followed by another.
Chained(S, A, B, C) ==
    /\ C \in Seq(S) /\ Len(C) = Len(A) + Len(B)
    /\ \A i \in 1..Len(A) : C[i] = A[i]
    /\ \A i \in 1..Len(B) : C[Len(A) + i] = B[i]

LEMMA Joined ==
    ASSUME NEW S, NEW A \in Seq(S), NEW B \in Seq(S)
    PROVE  Chained(S, A, B, A \o B)
<1>1. Len(A) \in Nat /\ Len(B) \in Nat
  OBVIOUS
<1>2. /\ A \o B \in Seq(S) /\ Len(A \o B) = Len(A) + Len(B)
      /\ \A i \in 1..(Len(A) + Len(B)) :
            (A \o B)[i] = IF i <= Len(A) THEN A[i] ELSE B[i - Len(A)]
  BY ConcatProperties
<1> DEFINE C == A \o B
<1> HIDE DEF C
<1>3. \A i \in 1..Len(A) : C[i] = A[i]
  BY <1>1, <1>2 DEF C
<1>4. ASSUME NEW i \in 1..Len(B) PROVE C[Len(A) + i] = B[i]
  <2>1. /\ Len(A) + i \in 1..(Len(A) + Len(B))
        /\ ~(Len(A) + i <= Len(A)) /\ (Len(A) + i) - Len(A) = i
    BY <1>1
  <2>2. C[Len(A) + i] = B[(Len(A) + i) - Len(A)]
    BY <1>2, <2>1 DEF C
  <2>3. QED BY <2>1, <2>2
<1>5. QED BY <1>2, <1>3, <1>4 DEF C, Chained

LEMMA Wider ==
    ASSUME NEW S, NEW T, S \subseteq T, NEW list \in Seq(S)
    PROVE  list \in Seq(T) /\ \A i \in 1..Len(list) : list[i] \in S
<1>1. list \in [1..Len(list) -> S] /\ Len(list) \in Nat
  OBVIOUS
<1>2. list \in [1..Len(list) -> T]
  BY <1>1
<1>3. QED BY <1>1, <1>2

LEMMA Listing ==
    ASSUME NEW S, NEW n \in Nat, NEW f \in [1..n -> S]
    PROVE  f \in Seq(S) /\ Len(f) = n /\ DOMAIN f = 1..n
<1>1. f \in Seq(S)
  BY SeqDef
<1>2. Len(f) \in Nat /\ DOMAIN f = 1..Len(f) /\ DOMAIN f = 1..n
  BY <1>1, LenProperties
<1> DEFINE m == Len(f)
<1> HIDE DEF m
<1>3. m \in Nat /\ 1..m = 1..n
  BY <1>2 DEF m
<1>4. m = n
  <2>1. CASE m < n
    <3>1. m + 1 \in 1..n /\ m + 1 \notin 1..m
      BY <1>3, <2>1
    <3>2. QED BY <1>3, <3>1
  <2>2. CASE n < m
    <3>1. n + 1 \in 1..m /\ n + 1 \notin 1..n
      BY <1>3, <2>2
    <3>2. QED BY <1>3, <3>1
  <2>3. QED BY <1>3, <2>1, <2>2
<1>5. QED BY <1>1, <1>2, <1>4 DEF m

LEMMA WithoutIs ==
    ASSUME NEW S, NEW list \in Seq(S), NEW x
    PROVE  /\ Without(list, x) \in Seq(S)
           /\ ToSet(Without(list, x)) = ToSet(list) \ {x}
<1> DEFINE N == Len(list)
           kept == CHOOSE g : g = [n \in 0..N |->
                      IF n = 0 THEN <<>>
                      ELSE IF list[n] = x THEN g[n - 1] ELSE Append(g[n - 1], list[n])]
           step == [n \in 1..N |-> [s \in Seq(S) |->
                      IF list[n] = x THEN s ELSE Append(s, list[n])]]
<1>1. N \in Nat /\ DOMAIN list = 1..N /\ \A n \in 1..N : list[n] \in S
  OBVIOUS
<1>2. Without(list, x) = kept[N]
  BY DEF Without
<1>3. step \in [1..N -> [Seq(S) -> Seq(S)]]
  BY <1>1
<1>4. PICK f \in [0..N -> Seq(S)] :
          f[0] = <<>> /\ \A n \in 1..N : f[n] = step[n][f[n - 1]]
  <2>1. <<>> \in Seq(S)
    OBVIOUS
  <2> HIDE DEF step, N
  <2>2. \E f \in [0..N -> Seq(S)] : Stepwise(N, <<>>, step, f)
    BY <1>1, <1>3, <2>1, Recursion
  <2>3. QED BY <2>2 DEF Stepwise
<1>5. f = [n \in 0..N |-> IF n = 0 THEN <<>>
             ELSE IF list[n] = x THEN f[n - 1] ELSE Append(f[n - 1], list[n])]
  <2>1. ASSUME NEW n \in 1..N
        PROVE  f[n] = IF list[n] = x THEN f[n - 1] ELSE Append(f[n - 1], list[n])
    <3>1. n - 1 \in 0..N
      BY <1>1
    <3>2. f[n - 1] \in Seq(S)
      BY <3>1
    <3>3. QED BY <1>4, <3>2
  <2> DEFINE h == [n \in 0..N |-> IF n = 0 THEN <<>>
                   ELSE IF list[n] = x THEN f[n - 1] ELSE Append(f[n - 1], list[n])]
  <2>2. ASSUME NEW n \in 0..N PROVE f[n] = h[n]
    <3>1. CASE n = 0
      BY <1>4, <3>1
    <3>2. CASE n # 0
      <4>1. n \in 1..N
        BY <1>1, <3>2
      <4>2. QED BY <2>1, <3>2, <4>1
    <3>3. QED BY <3>1, <3>2
  <2>3. f = [n \in 0..N |-> f[n]]
    BY <1>4
  <2>4. QED BY <2>2, <2>3
<1>6. kept = [n \in 0..N |-> IF n = 0 THEN <<>>
                ELSE IF list[n] = x THEN kept[n - 1] ELSE Append(kept[n - 1], list[n])]
  <2> HIDE DEF N, step
  <2> QED BY <1>5
<1> HIDE DEF kept, step
<1> DEFINE T == {n \in Nat : n <= N =>
                    /\ kept[n] \in Seq(S)
                    /\ ToSet(kept[n]) = {list[i] : i \in 1..n} \ {x}}
<1>7. 0 \in T
  <2>1. kept[0] = <<>>
    BY <1>1, <1>6
  <2>2. QED BY <2>1 DEF ToSet
<1>8. ASSUME NEW n \in Nat, n \in T PROVE n + 1 \in T
  <2>1. SUFFICES ASSUME n + 1 <= N
                 PROVE  /\ kept[n + 1] \in Seq(S)
                        /\ ToSet(kept[n + 1]) = {list[i] : i \in 1..(n + 1)} \ {x}
    OBVIOUS
  <2>2. kept[n] \in Seq(S) /\ ToSet(kept[n]) = {list[i] : i \in 1..n} \ {x}
    BY <1>1, <1>8, <2>1
  <2>3. n + 1 \in 0..N /\ n + 1 # 0 /\ (n + 1) - 1 = n /\ n + 1 \in 1..N
    BY <1>1, <2>1
  <2>4. kept[n + 1] = IF list[n + 1] = x THEN kept[n] ELSE Append(kept[n], list[n + 1])
    BY <1>6, <2>3
  <2>5. {list[i] : i \in 1..(n + 1)} = {list[i] : i \in 1..n} \cup {list[n + 1]}
    OBVIOUS
  <2>6. CASE list[n + 1] = x
    BY <2>2, <2>4, <2>5, <2>6
  <2>7. CASE list[n + 1] # x
    <3>1. list[n + 1] \in S
      BY <1>1, <2>3
    <3>2. /\ Append(kept[n], list[n + 1]) \in Seq(S)
          /\ ToSet(Append(kept[n], list[n + 1])) = ToSet(kept[n]) \cup {list[n + 1]}
      BY <2>2, <3>1, Elements
    <3>3. QED BY <2>2, <2>4, <2>5, <2>7, <3>2
  <2>8. QED BY <2>6, <2>7
<1>9. N \in T
  <2> HIDE DEF T
  <2> QED BY <1>1, <1>7, <1>8, Climb
<1>10. kept[N] \in Seq(S) /\ ToSet(kept[N]) = {list[i] : i \in 1..N} \ {x}
  BY <1>1, <1>9
<1>11. QED BY <1>1, <1>2, <1>10 DEF ToSet

LEMMA PlacedIs ==
    ASSUME NEW S, NEW list \in Seq(S), NEW x \in S
    PROVE  /\ Placed(list, x) \in Seq(S)
           /\ ToSet(Placed(list, x)) \subseteq ToSet(list) \cup {x}
<1> DEFINE newer == Cardinality({i \in DOMAIN list : list[i] >= x})
           A == SubSeq(list, 1, newer)
           B == SubSeq(list, newer + 1, Len(list))
<1>1. Len(list) \in Nat /\ DOMAIN list = 1..Len(list)
  OBVIOUS
<1>2. newer \in Nat /\ newer <= Len(list)
  <2>1. IsFiniteSet(1..Len(list)) /\ Cardinality(1..Len(list)) = Len(list)
    BY <1>1, FS_Interval
  <2>2. {i \in DOMAIN list : list[i] >= x} \in SUBSET (1..Len(list))
    BY <1>1
  <2>3. QED BY <2>1, <2>2, FS_Subset, FS_CardinalityType
<1>3. Placed(list, x) = (A \o <<x>>) \o B
  BY DEF Placed
<1> HIDE DEF newer
<1>4. A \in Seq(S) /\ ToSet(A) \subseteq ToSet(list)
  BY <1>1, <1>2, Part
<1>5. B \in Seq(S) /\ ToSet(B) \subseteq ToSet(list)
  BY <1>1, <1>2, Part
<1> HIDE DEF A, B
<1>6. Append(A, x) \in Seq(S) /\ ToSet(Append(A, x)) = ToSet(A) \cup {x}
  BY <1>4, Elements
<1>7. A \o <<x>> = Append(A, x)
  BY <1>4, AppendIsConcat
<1> DEFINE C == Append(A, x)
<1>8. C \o B \in Seq(S) /\ ToSet(C \o B) \subseteq ToSet(C) \cup ToSet(B)
  <2> HIDE DEF C
  <2>1. /\ C \o B \in Seq(S) /\ Len(C \o B) = Len(C) + Len(B)
        /\ \A i \in 1..(Len(C) + Len(B)) :
              (C \o B)[i] = IF i <= Len(C) THEN C[i] ELSE B[i - Len(C)]
    BY <1>5, <1>6, ConcatProperties DEF C
  <2> DEFINE D == C \o B
  <2>2. Len(C) \in Nat /\ Len(B) \in Nat /\ DOMAIN C = 1..Len(C) /\ DOMAIN B = 1..Len(B)
    BY <1>5, <1>6 DEF C
  <2>3. DOMAIN D = 1..(Len(C) + Len(B))
    BY <2>1
  <2> HIDE DEF D
  <2>4. ASSUME NEW i \in DOMAIN D PROVE D[i] \in ToSet(C) \cup ToSet(B)
    <3>1. CASE i <= Len(C)
      <4>1. i \in DOMAIN C /\ D[i] = C[i]
        BY <2>1, <2>2, <2>3, <3>1 DEF D
      <4>2. QED BY <4>1 DEF ToSet
    <3>2. CASE ~(i <= Len(C))
      <4>1. i - Len(C) \in DOMAIN B /\ D[i] = B[i - Len(C)]
        BY <2>1, <2>2, <2>3, <3>2 DEF D
      <4>2. QED BY <4>1 DEF ToSet
    <3>3. QED BY <3>1, <3>2
  <2>5. ToSet(D) \subseteq ToSet(C) \cup ToSet(B)
    BY <2>4 DEF ToSet
  <2>6. QED BY <2>1, <2>5 DEF D
<1>9. QED BY <1>3, <1>4, <1>5, <1>6, <1>7, <1>8

LEMMA NewestFirstIs ==
    ASSUME NEW S, NEW list \in Seq(S)
    PROVE  /\ NewestFirst(list) \in Seq(S)
           /\ ToSet(NewestFirst(list)) \subseteq ToSet(list)
<1> DEFINE N == Len(list)
           sorted == CHOOSE g : g = [n \in 0..N |->
                        IF n = 0 THEN <<>> ELSE Placed(g[n - 1], list[n])]
           step == [n \in 1..N |-> [s \in Seq(S) |-> Placed(s, list[n])]]
<1>1. N \in Nat /\ DOMAIN list = 1..N /\ \A n \in 1..N : list[n] \in S
  OBVIOUS
<1>2. NewestFirst(list) = sorted[N]
  BY DEF NewestFirst
<1>3. step \in [1..N -> [Seq(S) -> Seq(S)]]
  BY <1>1, PlacedIs
<1>4. PICK f \in [0..N -> Seq(S)] :
          f[0] = <<>> /\ \A n \in 1..N : f[n] = step[n][f[n - 1]]
  <2>1. <<>> \in Seq(S)
    OBVIOUS
  <2> HIDE DEF step, N
  <2>2. \E f \in [0..N -> Seq(S)] : Stepwise(N, <<>>, step, f)
    BY <1>1, <1>3, <2>1, Recursion
  <2>3. QED BY <2>2 DEF Stepwise
<1>5. f = [n \in 0..N |-> IF n = 0 THEN <<>> ELSE Placed(f[n - 1], list[n])]
  <2>1. ASSUME NEW n \in 1..N PROVE f[n] = Placed(f[n - 1], list[n])
    <3>1. n - 1 \in 0..N
      BY <1>1
    <3>2. f[n - 1] \in Seq(S)
      BY <3>1
    <3>3. QED BY <1>4, <3>2
  <2> DEFINE h == [n \in 0..N |-> IF n = 0 THEN <<>> ELSE Placed(f[n - 1], list[n])]
  <2>2. ASSUME NEW n \in 0..N PROVE f[n] = h[n]
    <3>1. CASE n = 0
      BY <1>4, <3>1
    <3>2. CASE n # 0
      <4>1. n \in 1..N
        BY <1>1, <3>2
      <4>2. QED BY <2>1, <3>2, <4>1
    <3>3. QED BY <3>1, <3>2
  <2>3. f = [n \in 0..N |-> f[n]]
    BY <1>4
  <2>4. QED BY <2>2, <2>3
<1>6. sorted = [n \in 0..N |-> IF n = 0 THEN <<>> ELSE Placed(sorted[n - 1], list[n])]
  <2> HIDE DEF N, step
  <2> QED BY <1>5
<1> HIDE DEF sorted, step
<1> DEFINE T == {n \in Nat : n <= N =>
                    sorted[n] \in Seq(S) /\ ToSet(sorted[n]) \subseteq ToSet(list)}
<1>7. 0 \in T
  <2>1. sorted[0] = <<>>
    BY <1>1, <1>6
  <2>2. QED BY <2>1 DEF ToSet
<1>8. ASSUME NEW n \in Nat, n \in T PROVE n + 1 \in T
  <2>1. SUFFICES ASSUME n + 1 <= N
                 PROVE  /\ sorted[n + 1] \in Seq(S)
                        /\ ToSet(sorted[n + 1]) \subseteq ToSet(list)
    OBVIOUS
  <2>2. sorted[n] \in Seq(S) /\ ToSet(sorted[n]) \subseteq ToSet(list)
    BY <1>1, <1>8, <2>1
  <2>3. n + 1 \in 0..N /\ n + 1 # 0 /\ (n + 1) - 1 = n /\ n + 1 \in 1..N
    BY <1>1, <2>1
  <2>4. sorted[n + 1] = Placed(sorted[n], list[n + 1])
    BY <1>6, <2>3
  <2>5. list[n + 1] \in S /\ list[n + 1] \in ToSet(list)
    BY <1>1, <2>3 DEF ToSet
  <2>6. /\ Placed(sorted[n], list[n + 1]) \in Seq(S)
        /\ ToSet(Placed(sorted[n], list[n + 1])) \subseteq ToSet(sorted[n]) \cup {list[n + 1]}
    <3> DEFINE l == sorted[n]
               x == list[n + 1]
    <3>1. l \in Seq(S) /\ x \in S
      BY <2>2, <2>5
    <3> HIDE DEF l, x
    <3>2. Placed(l, x) \in Seq(S) /\ ToSet(Placed(l, x)) \subseteq ToSet(l) \cup {x}
      BY <3>1, PlacedIs
    <3>3. QED BY <3>2 DEF l, x
  <2>7. QED BY <2>2, <2>4, <2>5, <2>6
<1>9. N \in T
  <2> HIDE DEF T
  <2> QED BY <1>1, <1>7, <1>8, Climb
<1>10. QED BY <1>1, <1>2, <1>9

EditNames == {"add", "drop", "append", "set", "toggle", "unpost", "post"}

\* An edit adds nothing but its argument; a removal removes just that.
LEMMA EditedIs ==
    ASSUME NEW S, NEW list \in Seq(S), NEW x \in S, NEW edit \in EditNames
    PROVE  /\ Edited(edit, list, x) \in Seq(S)
           /\ ToSet(Edited(edit, list, x)) \subseteq ToSet(list) \cup {x}
           /\ edit \in {"drop", "unpost"} =>
                 ToSet(Edited(edit, list, x)) = ToSet(list) \ {x}
<1> DEFINE a == Append(list, x)
           Fits(l) == l \in Seq(S) /\ ToSet(l) \subseteq ToSet(list) \cup {x}
<1>1. a \in Seq(S) /\ ToSet(a) = ToSet(list) \cup {x}
  BY Elements
<1>2. MaxFollows \in Nat \ {0} /\ MaxTimelineSize \in Nat \ {0}
  BY MonolithAssumption
<1>3. Fits(list) /\ Fits(a)
  BY <1>1
<1>4. Fits(Without(list, x)) /\ ToSet(Without(list, x)) = ToSet(list) \ {x}
  BY WithoutIs
<1>5. CASE edit = "add"
  <2>1. Len(a) \in Nat
    BY <1>1
  <2> HIDE DEF a
  <2>2. Latest(a) \in Seq(S) /\ ToSet(Latest(a)) \subseteq ToSet(a)
    <3> DEFINE m == IF Len(a) > MaxFollows THEN Len(a) - MaxFollows + 1 ELSE 1
    <3>1. m \in Nat \ {0}
      BY <1>2, <2>1
    <3>2. Latest(a) = SubSeq(a, m, Len(a))
      BY DEF Latest
    <3> HIDE DEF m
    <3>3. QED BY <1>1, <2>1, <3>1, <3>2, Part
  <2>3. Edited(edit, list, x) = Latest(a)
    BY <1>5 DEF Edited, a
  <2>4. QED BY <1>1, <1>5, <2>2, <2>3
<1>6. CASE edit = "post"
  <2>1. NewestFirst(a) \in Seq(S) /\ ToSet(NewestFirst(a)) \subseteq ToSet(a)
    BY <1>1, NewestFirstIs
  <2> DEFINE f == NewestFirst(a)
             n == IF Len(f) > MaxTimelineSize THEN MaxTimelineSize ELSE Len(f)
  <2> HIDE DEF a
  <2>2. n \in Nat /\ n <= Len(f)
    BY <1>2, <2>1
  <2>3. Newest(f) = SubSeq(f, 1, n)
    BY DEF Newest
  <2> HIDE DEF f, n
  <2>4. Newest(f) \in Seq(S) /\ ToSet(Newest(f)) \subseteq ToSet(f)
    BY <2>1, <2>2, <2>3, Part DEF f
  <2>5. Edited(edit, list, x) \in {list, Newest(f)}
    BY <1>6 DEF Edited, a, f
  <2>6. QED BY <1>1, <1>3, <1>6, <2>1, <2>4, <2>5 DEF f
<1>7. CASE edit = "set"
  <2>1. <<x>> \in Seq(S) /\ ToSet(<<x>>) = {x}
    BY DEF ToSet
  <2>2. QED BY <1>7, <2>1 DEF Edited
<1>8. CASE edit \in {"drop", "unpost"}
  BY <1>4, <1>8 DEF Edited
<1>9. CASE edit \in {"append", "toggle"}
  BY <1>3, <1>4, <1>9 DEF Edited
<1>10. QED BY <1>5, <1>6, <1>7, <1>8, <1>9 DEF EditNames

-----------------------------------------------------------------------------
(* The inductive invariant of the store and of the programs.                 *)

FollowKeys == {"followees", "followers"} \X Users
Timelines  == {"user", "home"} \X Users
Remarks    == {"comm", "upv", "meta"} \X Posts
PostItems  == {"img", "cont", "meta", "comm", "upv"} \X Posts
Creds      == {"cred"} \X Users

\* What the list stored under a key holds.
Held(k) == IF k \in Timelines THEN Posts ELSE IF k \in Creds THEN Callers ELSE Users

\* The steps of all programs.
StepSet(kind, keys, edits, args) ==
    [kind : {kind}, key : keys, edit : edits, arg : args,
     bulk : BOOLEAN, skip : BOOLEAN]

FollowSteps == StepSet("edit", FollowKeys, {"add", "drop"}, Users)
RemarkSteps == StepSet("edit", Remarks, {"append", "toggle", "set"}, Users)
PostSteps   == {s \in StepSet("edit", Timelines, {"post", "unpost"}, Posts) : s.bulk}
EditSteps   == FollowSteps \cup RemarkSteps \cup PostSteps
CredSteps   == StepSet("put", Creds, {""}, Seq(Callers))
ItemSteps   == StepSet("put", PostItems, {""}, Seq(Users))
PutSteps    == CredSteps \cup ItemSteps
ShowSteps   == {s \in StepSet("show", {"cont"} \X Posts, {""}, Posts) :
                  s.key = <<"cont", s.arg>>}
DelSteps    == {s \in StepSet("del", PostItems, {""}, Posts) : s.key[2] = s.arg}
ListSteps   == StepSet("list", Timelines, {""}, {0})
FanSteps    == StepSet("fanout", {"followers"} \X Users, {""}, Posts)
OtherSteps  == StepSet("check", Creds, {""}, Callers)
               \cup StepSet("send", {"cont"} \X Posts, {""}, Posts)
Steps == EditSteps \cup PutSteps \cup ShowSteps \cup DelSteps \cup ListSteps
         \cup FanSteps \cup OtherSteps

Job    == [op : {"save", "delete"}, user : Users, on : Posts]
Phases == {"none", "fresh", "stale", "noetag", "confirm"}
Read   == [phase : Phases, list : Seq(Users) \cup Seq(Posts)]

Typed ==
    /\ DOMAIN store = Keys
    /\ \A k \in Keys : store[k] = Missing \/ store[k] \in Seq(Held(k))
    /\ pending \in [Callers -> Seq(Request)]
    /\ now \in [Procs -> Request \cup {[op |-> "idle"]}]
    /\ todo \in [Procs -> Seq(Steps)]
    /\ got \in [Procs -> Read]
    /\ queue \in Seq(Job)
    /\ removed \subseteq Posts
    /\ banned \in [Callers -> SUBSET Posts] /\ DOMAIN served = Callers

\* t is what remains of the program.
Rest(t, program) ==
    /\ Len(t) <= Len(program)
    /\ \A i \in 1..Len(t) : t[i] = program[Len(program) - Len(t) + i]

\* A busy process has the rest of its program to do; the lists a timeline
\* request and a fan-out run into come after their last step.
ProgramFits(p, r, t) ==
    t # <<>> =>
        /\ p \in Callers =>
              /\ r \in Request
              /\ \/ Rest(t, Program(p, r))
                 \/ r.op \in {"home", "user"} /\ \A i \in DOMAIN t : t[i] \in ShowSteps
        /\ p \in Workers =>
              /\ r \in Job
              /\ \/ Rest(t, JobProgram(r))
                 \/ /\ r.op = "save"
                    /\ \A i \in DOMAIN t : t[i] \in PostSteps /\ t[i].key[1] = "home"

Programs == \A p \in Procs : ProgramFits(p, now[p], todo[p])

\* A read r belongs to the step it was made for, the first of t; with a fresh
\* ETag it is what the store has.
ReadFits(r, t, s) ==
    /\ r.phase = "none" => r = NoRead
    /\ r.phase # "none" => t # <<>>
    /\ r.phase \in {"fresh", "stale", "noetag"} =>
          Head(t) \in EditSteps /\ r.list \in Seq(Held(Head(t).key))
    /\ r.phase = "fresh" => r.list = s[Head(t).key]
    /\ r.phase = "noetag" => r.list = <<>>
    /\ r.phase = "confirm" => Head(t) \in EditSteps \cup PutSteps /\ ~Head(t).bulk

Reads == \A p \in Procs : ReadFits(got[p], todo[p], store)

StoreInv == Typed /\ Programs /\ Reads

LEMMA StepKinds ==
    ASSUME NEW s \in Steps
    PROVE  /\ s.key \in Keys
           /\ s.kind = "edit" => s \in EditSteps
           /\ s.kind = "put" => s \in PutSteps
           /\ s.kind = "show" => s \in ShowSteps
           /\ s.kind = "del" => s \in DelSteps
           /\ s.kind = "list" => s \in ListSteps
           /\ s.kind = "fanout" => s \in FanSteps
<1> USE DEF StepSet, Keys, FollowKeys, Timelines, Remarks, PostItems, Creds
<1>1. CASE s \in FollowSteps
  BY <1>1 DEF FollowSteps, EditSteps
<1>2. CASE s \in RemarkSteps
  BY <1>2 DEF RemarkSteps, EditSteps
<1>3. CASE s \in PostSteps
  BY <1>3 DEF PostSteps, EditSteps
<1>4. CASE s \in PutSteps
  BY <1>4 DEF PutSteps, CredSteps, ItemSteps
<1>5. CASE s \in ShowSteps \cup DelSteps \cup ListSteps \cup FanSteps \cup OtherSteps
  BY <1>5 DEF ShowSteps, DelSteps, ListSteps, FanSteps, OtherSteps
<1>6. QED BY <1>1, <1>2, <1>3, <1>4, <1>5 DEF Steps, EditSteps

LEMMA EditKinds ==
    ASSUME NEW s \in EditSteps
    PROVE  /\ s \in Steps /\ s.kind = "edit" /\ s.edit \in EditNames
           /\ s.key \in FollowKeys \cup Remarks \cup Timelines /\ s.key \in Keys
           /\ s.arg \in Held(s.key)
           /\ s.edit \in {"add", "drop"} <=> s.key \in FollowKeys
           /\ s.edit \in {"post", "unpost"} <=> s.key \in Timelines
           /\ Seq(Held(s.key)) \subseteq Seq(Users) \cup Seq(Posts)
<1>1. s \in Steps /\ s.kind = "edit"
  BY DEF Steps, EditSteps, FollowSteps, RemarkSteps, PostSteps, StepSet
<1>2. s.key \in Keys
  BY <1>1, StepKinds
<1> USE DEF StepSet, FollowKeys, Timelines, Remarks, Creds, EditNames, Held
<1>3. CASE s \in FollowSteps
  BY <1>1, <1>2, <1>3 DEF FollowSteps
<1>4. CASE s \in RemarkSteps
  BY <1>1, <1>2, <1>4 DEF RemarkSteps
<1>5. CASE s \in PostSteps
  BY <1>1, <1>2, <1>5 DEF PostSteps
<1>6. QED BY <1>3, <1>4, <1>5 DEF EditSteps

LEMMA PutKinds ==
    ASSUME NEW s \in PutSteps
    PROVE  /\ s \in Steps /\ s.kind = "put" /\ s.key \in Keys
           /\ s.key \in Creds \cup PostItems
           /\ s.key \notin FollowKeys \cup Timelines
           /\ s.arg \in Seq(Held(s.key))
<1>1. s \in Steps /\ s.kind = "put"
  BY DEF Steps, PutSteps, CredSteps, ItemSteps, StepSet
<1>2. s.key \in Keys
  BY <1>1, StepKinds
<1> USE DEF StepSet, FollowKeys, Timelines, PostItems, Creds, Held
<1>3. CASE s \in CredSteps
  BY <1>1, <1>2, <1>3 DEF CredSteps
<1>4. CASE s \in ItemSteps
  BY <1>1, <1>2, <1>4 DEF ItemSteps
<1>5. QED BY <1>3, <1>4 DEF PutSteps

(* The programs. *)

LEMMA FollowIs ==
    ASSUME NEW u \in Users, NEW v \in Users, NEW edit \in {"add", "drop"}
    PROVE  /\ Edit(<<"followees", u>>, edit, v) \in FollowSteps
           /\ Edit(<<"followers", v>>, edit, u) \in FollowSteps
BY DEF Edit, Do, FollowSteps, StepSet, FollowKeys

LEMMA SendIs ==
    ASSUME NEW p \in Posts
    PROVE  Send(p) \in Seq(Steps) /\ Len(Send(p)) = 1 /\ Send(p)[1].kind = "send"
<1> DEFINE d == Do("send", <<"cont", p>>, "", p)
<1>1. d \in Steps /\ d.kind = "send"
  BY DEF Do, Steps, OtherSteps, StepSet
<1>2. Send(p) = <<d>>
  BY DEF Send
<1> HIDE DEF d
<1>3. QED BY <1>1, <1>2

LEMMA SaveIs ==
    ASSUME NEW u \in Users, NEW p \in Posts
    PROVE  /\ SavePost(u, p) \o Send(p) \in Seq(Steps)
           /\ Len(SavePost(u, p) \o Send(p)) = 6
           /\ (SavePost(u, p) \o Send(p))[6].kind = "send"
           /\ \A i \in 1..5 : /\ (SavePost(u, p) \o Send(p))[i] \in ItemSteps
                              /\ (SavePost(u, p) \o Send(p))[i].key[2] = p
<1> DEFINE I == {s \in ItemSteps : s.key[2] = p}
           A == SavePost(u, p)
           B == Send(p)
<1>1. <<u>> \in Seq(Users) /\ <<>> \in Seq(Users)
  OBVIOUS
<1>2. /\ Bulk(Put(<<"img", p>>, <<u>>)) \in I /\ Put(<<"cont", p>>, <<u>>) \in I
      /\ Put(<<"meta", p>>, <<>>) \in I /\ Put(<<"comm", p>>, <<>>) \in I
      /\ Put(<<"upv", p>>, <<>>) \in I
  BY <1>1 DEF Bulk, Put, Do, ItemSteps, StepSet, PostItems
<1>3. I \subseteq ItemSteps /\ ItemSteps \subseteq Steps /\ \A s \in I : s.key[2] = p
  BY DEF Steps, PutSteps
<1> HIDE DEF I
<1>4. A \in Seq(I) /\ Len(A) = 5
  BY <1>2 DEF SavePost
<1>5. B \in Seq(Steps) /\ Len(B) = 1 /\ B[1].kind = "send"
  BY SendIs
<1> HIDE DEF A, B
<1>6. A \in Seq(Steps) /\ \A i \in 1..5 : A[i] \in I
  <2>1. I \subseteq Steps
    BY <1>3
  <2>2. QED BY <1>4, <2>1, Wider
<1>7. /\ A \o B \in Seq(Steps) /\ Len(A \o B) = 6
      /\ \A i \in 1..5 : (A \o B)[i] = A[i]
      /\ (A \o B)[6] = B[1]
  <2>1. Chained(Steps, A, B, A \o B)
    BY <1>5, <1>6, Joined
  <2>2. 1 \in 1..1 /\ 5 + 1 = 6
    OBVIOUS
  <2> DEFINE C == A \o B
  <2> HIDE DEF C
  <2>3. QED BY <1>4, <1>5, <2>1, <2>2 DEF Chained, C
<1> DEFINE C == A \o B
<1> HIDE DEF C
<1>8. /\ C \in Seq(Steps) /\ Len(C) = 6 /\ C[6].kind = "send"
      /\ \A i \in 1..5 : C[i] \in ItemSteps /\ C[i].key[2] = p
  BY <1>3, <1>5, <1>6, <1>7 DEF C
<1>9. QED BY <1>8 DEF C, A, B

LEMMA DeleteIs ==
    ASSUME NEW p \in Posts
    PROVE  /\ DeletePost(p) \o Send(p) \in Seq(Steps)
           /\ Len(DeletePost(p) \o Send(p)) = 5
           /\ \A i \in 1..4 : /\ (DeletePost(p) \o Send(p))[i] \in DelSteps
                              /\ (DeletePost(p) \o Send(p))[i].kind = "del"
           /\ (DeletePost(p) \o Send(p))[1].key = <<"cont", p>>
           /\ (DeletePost(p) \o Send(p))[5].kind = "send"
<1> DEFINE K == <<"cont", "meta", "comm", "upv">>
           D(k) == Logged(Do("del", <<k, p>>, "", p))
           A == DeletePost(p)
           B == Send(p)
<1>1. /\ \A i \in 1..4 : K[i] \in {"cont", "meta", "comm", "upv"}
      /\ K[1] = "cont"
  OBVIOUS
<1>2. A = [i \in 1..4 |-> D(K[i])]
  BY DEF DeletePost
<1>3. \A k \in {"cont", "meta", "comm", "upv"} :
          D(k) \in DelSteps /\ D(k).kind = "del" /\ D(k).key = <<k, p>>
  BY DEF Logged, Do, DelSteps, StepSet, PostItems
<1>4. DelSteps \subseteq Steps
  BY DEF Steps
<1>5. B \in Seq(Steps) /\ Len(B) = 1 /\ B[1].kind = "send"
  BY SendIs
<1> HIDE DEF K, D, A, B
<1>6. /\ A \in [1..4 -> DelSteps]
      /\ \A i \in 1..4 : A[i] \in DelSteps /\ A[i].kind = "del"
      /\ A[1].key = <<"cont", p>>
  BY <1>1, <1>2, <1>3
<1>7. A \in Seq(Steps) /\ Len(A) = 4 /\ DOMAIN A = 1..4
  <2>1. A \in [1..4 -> Steps]
    BY <1>4, <1>6
  <2>2. 4 \in Nat
    OBVIOUS
  <2>3. QED BY <2>1, <2>2, Listing
<1>8. /\ A \o B \in Seq(Steps) /\ Len(A \o B) = 5
      /\ \A i \in 1..4 : (A \o B)[i] = A[i]
      /\ (A \o B)[5] = B[1]
  <2>1. Chained(Steps, A, B, A \o B)
    BY <1>5, <1>7, Joined
  <2>2. 1 \in 1..1 /\ 4 + 1 = 5
    OBVIOUS
  <2> DEFINE C == A \o B
  <2> HIDE DEF C
  <2>3. QED BY <1>5, <1>7, <2>1, <2>2 DEF Chained, C
<1> DEFINE C == A \o B
<1> HIDE DEF C
<1>9. /\ C \in Seq(Steps) /\ Len(C) = 5 /\ C[5].kind = "send"
      /\ \A i \in 1..4 : C[i] \in DelSteps /\ C[i].kind = "del"
      /\ C[1].key = <<"cont", p>>
  BY <1>5, <1>6, <1>8 DEF C
<1>10. QED BY <1>9 DEF C, A, B

LEMMA RegisterIs ==
    ASSUME NEW c \in Callers, NEW u \in Users
    PROVE  /\ Register(c, u) \in Seq(Steps) /\ Len(Register(c, u)) = 4
           /\ \A i \in 1..2 : /\ Register(c, u)[i] \in CredSteps \cup OtherSteps
                              /\ Register(c, u)[i].kind \in {"check", "put"}
           /\ Register(c, u)[3] = Edit(<<"followees", u>>, "add", u)
           /\ Register(c, u)[4] = Edit(<<"followers", u>>, "add", u)
<1> DEFINE a == Do("check", <<"cred", u>>, "", c)
           b == Put(<<"cred", u>>, <<c>>)
           e == Edit(<<"followees", u>>, "add", u)
           g == Edit(<<"followers", u>>, "add", u)
<1>1. <<c>> \in Seq(Callers)
  OBVIOUS
<1>2. /\ a \in OtherSteps /\ a.kind = "check"
      /\ b \in CredSteps /\ b.kind = "put"
  BY <1>1 DEF Put, Do, OtherSteps, CredSteps, StepSet, Creds
<1>3. a \in Steps /\ b \in Steps /\ e \in Steps /\ g \in Steps
  BY <1>2, FollowIs DEF Steps, PutSteps, EditSteps
<1>4. Register(c, u) = <<a, b>> \o <<e, g>>
  BY DEF Register, Follow
<1> HIDE DEF a, b, e, g
<1>5. /\ <<a, b>> \o <<e, g>> \in Seq(Steps) /\ Len(<<a, b>> \o <<e, g>>) = 4
      /\ (<<a, b>> \o <<e, g>>)[1] = a /\ (<<a, b>> \o <<e, g>>)[2] = b
      /\ (<<a, b>> \o <<e, g>>)[3] = e /\ (<<a, b>> \o <<e, g>>)[4] = g
  BY <1>3
<1> DEFINE C == <<a, b>> \o <<e, g>>
<1> HIDE DEF C
<1>6. /\ C \in Seq(Steps) /\ Len(C) = 4 /\ C[3] = e /\ C[4] = g
      /\ \A i \in 1..2 : /\ C[i] \in CredSteps \cup OtherSteps
                         /\ C[i].kind \in {"check", "put"}
  BY <1>2, <1>5 DEF C
<1>7. QED BY <1>4, <1>6 DEF C, e, g

LEMMA TimelineStep ==
    ASSUME NEW k \in {"user", "home"}, NEW u \in Users, NEW add \in BOOLEAN, NEW p \in Posts
    PROVE  /\ UpdateSpecificTimeline(k, u, add, p) \in PostSteps
           /\ UpdateSpecificTimeline(k, u, add, p).key = <<k, u>>
           /\ UpdateSpecificTimeline(k, u, add, p).arg = p
           /\ UpdateSpecificTimeline(k, u, add, p).edit = IF add THEN "post" ELSE "unpost"
BY DEF UpdateSpecificTimeline, Logged, Bulk, Edit, Do, PostSteps, StepSet, Timelines

LEMMA JobIs ==
    ASSUME NEW j \in Job
    PROVE  /\ JobProgram(j) \in Seq(Steps)
           /\ Len(JobProgram(j)) = IF j.op = "save" THEN 2 ELSE 1
           /\ JobProgram(j)[1] \in PostSteps
           /\ JobProgram(j)[1].key = <<"user", j.user>> /\ JobProgram(j)[1].arg = j.on
           /\ JobProgram(j)[1].edit = IF j.op = "save" THEN "post" ELSE "unpost"
           /\ j.op = "save" => /\ JobProgram(j)[2] \in FanSteps
                               /\ JobProgram(j)[2].arg = j.on
<1> DEFINE add == j.op = "save"
           a == UpdateSpecificTimeline("user", j.user, add, j.on)
           b == Do("fanout", <<"followers", j.user>>, "", j.on)
<1>1. j.user \in Users /\ j.on \in Posts /\ add \in BOOLEAN
  BY DEF Job
<1> HIDE DEF add
<1>2. /\ a \in PostSteps /\ a.key = <<"user", j.user>> /\ a.arg = j.on
      /\ a.edit = IF add THEN "post" ELSE "unpost"
  BY <1>1, TimelineStep
<1>3. b \in FanSteps /\ b.arg = j.on
  BY <1>1 DEF Do, FanSteps, StepSet
<1>4. a \in Steps /\ b \in Steps
  BY <1>2, <1>3 DEF Steps, EditSteps
<1>5. JobProgram(j) = <<a>> \o IF j.op = "save" THEN <<b>> ELSE <<>>
  BY DEF JobProgram, add
<1> HIDE DEF a, b
<1>6. CASE j.op = "save"
  <2>1. <<a>> \in Seq(Steps) /\ <<b>> \in Seq(Steps)
    BY <1>4
  <2>2. /\ JobProgram(j) \in Seq(Steps) /\ Len(JobProgram(j)) = 2
        /\ JobProgram(j)[1] = a /\ JobProgram(j)[2] = b
    BY <1>4, <1>5, <1>6, <2>1
  <2>3. QED BY <1>2, <1>3, <1>6, <2>2 DEF add
<1>7. CASE j.op # "save"
  <2>1. JobProgram(j) = <<a>>
    BY <1>4, <1>5, <1>7
  <2>2. QED BY <1>2, <1>4, <1>7, <2>1 DEF add
<1>8. QED BY <1>6, <1>7

LEMMA ListFacts ==
    ASSUME NEW S, NEW t \in Seq(S), t # <<>>
    PROVE  /\ Len(t) \in Nat \ {0} /\ Head(t) = t[1] /\ Head(t) \in S
           /\ Tail(t) \in Seq(S) /\ Len(Tail(t)) = Len(t) - 1
           /\ \A i \in 1..Len(Tail(t)) : Tail(t)[i] = t[i + 1] /\ i + 1 \in 1..Len(t)
           /\ DOMAIN t = 1..Len(t) /\ DOMAIN Tail(t) = 1..Len(Tail(t))
           /\ 1 \in 1..Len(t)
<1>1. /\ Len(t) \in Nat /\ DOMAIN t = 1..Len(t) /\ Len(t) # 0
  BY EmptySeq, LenProperties
<1>2. /\ Head(t) \in S /\ Tail(t) \in Seq(S) /\ Len(Tail(t)) = Len(t) - 1
      /\ \A i \in 1..Len(Tail(t)) : Tail(t)[i] = t[i + 1]
  BY HeadTailProperties
<1>3. Head(t) = t[1]
  OBVIOUS
<1>4. DOMAIN Tail(t) = 1..Len(Tail(t))
  BY <1>2, LenProperties
<1>5. 1 \in 1..Len(t) /\ \A i \in 1..Len(Tail(t)) : i + 1 \in 1..Len(t)
  BY <1>1, <1>2
<1>6. QED BY <1>1, <1>2, <1>3, <1>4, <1>5

\* The current step of what remains of a program, and what remains after it.
LEMMA RestIs ==
    ASSUME NEW t \in Seq(Steps), t # <<>>, NEW program, Len(program) \in Nat,
           Rest(t, program)
    PROVE  /\ Len(t) \in 1..Len(program)
           /\ Head(t) = program[Len(program) - Len(t) + 1]
           /\ Rest(Tail(t), program)
<1> DEFINE n == Len(program)
           u == Tail(t)
<1>1. /\ Len(t) \in Nat \ {0} /\ Head(t) = t[1] /\ Len(u) = Len(t) - 1
      /\ \A i \in 1..Len(u) : u[i] = t[i + 1] /\ i + 1 \in 1..Len(t)
      /\ 1 \in 1..Len(t)
  BY ListFacts
<1>2. n \in Nat /\ Len(t) <= n /\ \A i \in 1..Len(t) : t[i] = program[n - Len(t) + i]
  BY DEF Rest
<1> HIDE DEF n, u
<1>3. ASSUME NEW i \in 1..Len(u) PROVE u[i] = program[n - Len(u) + i]
  <2>1. u[i] = t[i + 1] /\ i + 1 \in 1..Len(t)
    BY <1>1
  <2>2. n - Len(t) + (i + 1) = n - Len(u) + i
    BY <1>1, <1>2
  <2>3. t[i + 1] = program[n - Len(t) + (i + 1)]
    BY <1>2, <2>1
  <2>4. QED BY <2>1, <2>2, <2>3
<1>4. Len(u) <= n
  BY <1>1, <1>2
<1>5. QED BY <1>1, <1>2, <1>3, <1>4 DEF Rest, n, u

\* What a caller is doing, by its request r and the steps t it has left.
Pairs(r, t, edit) ==
    \/ Len(t) = 2 /\ Head(t) = Edit(<<"followees", r.user>>, edit, r.on)
    \/ Len(t) = 1 /\ Head(t) = Edit(<<"followers", r.on>>, edit, r.user)
Registers(r, t) ==
    \/ Len(t) \in 3..4 /\ Head(t) \in CredSteps \cup OtherSteps
       /\ Head(t).kind \in {"check", "put"}
    \/ Len(t) = 2 /\ Head(t) = Edit(<<"followees", r.user>>, "add", r.user)
    \/ Len(t) = 1 /\ Head(t) = Edit(<<"followers", r.user>>, "add", r.user)
Saves(r, t) ==
    \/ Len(t) \in 2..6 /\ Head(t) \in ItemSteps /\ Head(t).key[2] = r.on
    \/ Len(t) = 1 /\ Head(t).kind = "send"
Erases(r, t) ==
    \/ /\ Len(t) \in 2..5 /\ Head(t) \in DelSteps
       /\ Len(t) = 5 => Head(t).key = <<"cont", r.on>>
    \/ Len(t) = 1 /\ Head(t).kind = "send"

Calling(r, t) ==
    /\ r.op = "follow" => Pairs(r, t, "add")
    /\ r.op = "unfollow" => Pairs(r, t, "drop")
    /\ r.op = "register" => Registers(r, t)
    /\ r.op = "save" => Saves(r, t)
    /\ r.op = "delete" => Erases(r, t)
    /\ r.op \in {"comment", "upvote", "meta"} => Len(t) = 1 /\ Head(t) \in RemarkSteps
    /\ r.op \in {"home", "user"} =>
          \/ Len(t) = 1 /\ Head(t) \in ListSteps
          \/ Head(t) \in ShowSteps

\* What a worker is doing.
Working(r, t) ==
    \/ /\ Head(t) \in PostSteps /\ Head(t).key = <<"user", r.user>> /\ Head(t).arg = r.on
       /\ Head(t).edit = IF r.op = "save" THEN "post" ELSE "unpost"
       /\ Len(t) = IF r.op = "save" THEN 2 ELSE 1
    \/ /\ r.op = "save" /\ Len(t) = 1
       /\ Head(t) \in FanSteps /\ Head(t).arg = r.on
    \/ r.op = "save" /\ Head(t) \in PostSteps /\ Head(t).key[1] = "home"

LEMMA RequestIs ==
    ASSUME NEW r \in Request
    PROVE  /\ r.user \in Users
           /\ r.op \in {"follow", "unfollow", "register"} => r.on \in Users
           /\ r.op \in {"save", "delete", "comment", "upvote", "meta"} => r.on \in Posts
           /\ r.op \in {"follow", "unfollow", "register", "save", "delete",
                        "comment", "upvote", "meta", "home", "user"}
BY DEF Request

LEMMA ProgramIs ==
    ASSUME NEW c \in Callers, NEW r \in Request
    PROVE  /\ Program(c, r) \in Seq(Steps)
           /\ r.op = "follow" => Program(c, r) = Follow(r.user, r.on)
           /\ r.op = "unfollow" => Program(c, r) = Unfollow(r.user, r.on)
           /\ r.op = "register" => Program(c, r) = Register(c, r.user)
           /\ r.op = "save" => Program(c, r) = SavePost(r.user, r.on) \o Send(r.on)
           /\ r.op = "delete" => Program(c, r) = DeletePost(r.on) \o Send(r.on)
           /\ r.op \in {"comment", "upvote", "meta"} =>
                 \E s \in RemarkSteps : Program(c, r) = <<s>>
           /\ r.op \in {"home", "user"} => \E s \in ListSteps : Program(c, r) = <<s>>
<1>1. /\ r.user \in Users
      /\ r.op \in {"follow", "unfollow", "register"} => r.on \in Users
      /\ r.op \in {"save", "delete", "comment", "upvote", "meta"} => r.on \in Posts
  BY RequestIs
<1>2. RemarkSteps \subseteq Steps /\ FollowSteps \subseteq Steps /\ ListSteps \subseteq Steps
  BY DEF Steps, EditSteps
<1>3. CASE r.op = "follow"
  <2>1. Program(c, r) = Follow(r.user, r.on)
    BY <1>3 DEF Program
  <2>2. Follow(r.user, r.on) \in Seq(Steps)
    <3> DEFINE a == Edit(<<"followees", r.user>>, "add", r.on)
               b == Edit(<<"followers", r.on>>, "add", r.user)
    <3>1. a \in Steps /\ b \in Steps
      BY <1>1, <1>2, <1>3, FollowIs
    <3>2. Follow(r.user, r.on) = <<a, b>>
      BY DEF Follow
    <3> HIDE DEF a, b
    <3>3. QED BY <3>1, <3>2
  <2>3. QED BY <1>3, <2>1, <2>2
<1>4. CASE r.op = "unfollow"
  <2>1. Program(c, r) = Unfollow(r.user, r.on)
    BY <1>4 DEF Program
  <2>2. Unfollow(r.user, r.on) \in Seq(Steps)
    <3> DEFINE a == Edit(<<"followees", r.user>>, "drop", r.on)
               b == Edit(<<"followers", r.on>>, "drop", r.user)
    <3>1. a \in Steps /\ b \in Steps
      BY <1>1, <1>2, <1>4, FollowIs
    <3>2. Unfollow(r.user, r.on) = <<a, b>>
      BY DEF Unfollow
    <3> HIDE DEF a, b
    <3>3. QED BY <3>1, <3>2
  <2>3. QED BY <1>4, <2>1, <2>2
<1>5. CASE r.op = "register"
  <2>1. Program(c, r) = Register(c, r.user)
    BY <1>5 DEF Program
  <2>2. QED BY <1>1, <1>5, <2>1, RegisterIs
<1>6. CASE r.op = "save"
  <2>1. Program(c, r) = SavePost(r.user, r.on) \o Send(r.on)
    BY <1>6 DEF Program
  <2>2. SavePost(r.user, r.on) \o Send(r.on) \in Seq(Steps)
    BY <1>1, <1>6, SaveIs
  <2>3. QED BY <1>6, <2>1, <2>2
<1>7. CASE r.op = "delete"
  <2>1. Program(c, r) = DeletePost(r.on) \o Send(r.on)
    BY <1>7 DEF Program
  <2>2. DeletePost(r.on) \o Send(r.on) \in Seq(Steps)
    BY <1>1, <1>7, DeleteIs
  <2>3. QED BY <1>7, <2>1, <2>2
<1>8. CASE r.op \in {"comment", "upvote", "meta"}
  <2> DEFINE a == Edit(<<"comm", r.on>>, "append", r.user)
             b == Edit(<<"upv", r.on>>, "toggle", r.user)
             d == Edit(<<"meta", r.on>>, "set", r.user)
  <2>1. a \in RemarkSteps /\ b \in RemarkSteps /\ d \in RemarkSteps
    BY <1>1, <1>8 DEF Edit, Do, RemarkSteps, StepSet, Remarks
  <2>2. Program(c, r) = CASE r.op = "comment" -> <<a>> [] r.op = "upvote" -> <<b>>
                          [] r.op = "meta" -> <<d>>
    BY <1>8 DEF Program
  <2> HIDE DEF a, b, d
  <2>3. \E s \in RemarkSteps : Program(c, r) = <<s>>
    BY <1>8, <2>1, <2>2
  <2>4. \A s \in RemarkSteps : <<s>> \in Seq(Steps)
    BY <1>2
  <2>5. QED BY <1>8, <2>3, <2>4
<1>9. CASE r.op \in {"home", "user"}
  <2> DEFINE a == Do("list", <<r.op, r.user>>, "", 0)
  <2>1. a \in ListSteps
    BY <1>1, <1>9 DEF Do, ListSteps, StepSet, Timelines
  <2>2. Program(c, r) = <<a>>
    BY <1>9 DEF Program
  <2> HIDE DEF a
  <2>3. <<a>> \in Seq(Steps)
    BY <1>2, <2>1
  <2>4. QED BY <1>9, <2>1, <2>2, <2>3
<1>10. QED BY <1>3, <1>4, <1>5, <1>6, <1>7, <1>8, <1>9, RequestIs

LEMMA CallingIs ==
    ASSUME NEW c \in Callers, NEW r, NEW t \in Seq(Steps), t # <<>>, ProgramFits(c, r, t)
    PROVE  r \in Request /\ Calling(r, t)
<1> DEFINE P == Program(c, r)
           n == Len(t)
<1>1. r \in Request
  BY DEF ProgramFits
<1>2. P \in Seq(Steps) /\ Len(P) \in Nat
  BY <1>1, ProgramIs
<1>3. CASE ~Rest(t, P)
  <2>1. r.op \in {"home", "user"} /\ \A i \in DOMAIN t : t[i] \in ShowSteps
    BY <1>3 DEF ProgramFits
  <2>2. Head(t) \in ShowSteps
    BY <2>1, ListFacts
  <2>3. QED BY <1>1, <2>1, <2>2 DEF Calling
<1>4. CASE Rest(t, P)
  <2>1. n \in 1..Len(P) /\ Head(t) = P[Len(P) - n + 1]
    BY <1>2, <1>4, RestIs
  <2> HIDE DEF n
  <2>2. CASE r.op \in {"follow", "unfollow"}
    <3> DEFINE e == IF r.op = "follow" THEN "add" ELSE "drop"
               a == Edit(<<"followees", r.user>>, e, r.on)
               b == Edit(<<"followers", r.on>>, e, r.user)
    <3>1. P = <<a, b>>
      BY <1>1, <2>2, ProgramIs DEF Follow, Unfollow
    <3> HIDE DEF a, b
    <3>2. Len(P) = 2 /\ P[1] = a /\ P[2] = b
      BY <3>1
    <3>3. (n = 2 /\ Head(t) = a) \/ (n = 1 /\ Head(t) = b)
      BY <2>1, <3>2
    <3>4. Pairs(r, t, e)
      BY <3>3 DEF Pairs, a, b, n
    <3>5. QED BY <1>1, <2>2, <3>4 DEF Calling
  <2>3. CASE r.op = "register"
    <3>1. /\ Len(P) = 4
          /\ \A i \in 1..2 : P[i] \in CredSteps \cup OtherSteps /\ P[i].kind \in {"check", "put"}
          /\ P[3] = Edit(<<"followees", r.user>>, "add", r.user)
          /\ P[4] = Edit(<<"followers", r.user>>, "add", r.user)
      <4> DEFINE R == Register(c, r.user)
      <4>1. P = R /\ r.user \in Users
        BY <1>1, <2>3, ProgramIs, RequestIs
      <4>2. /\ Len(R) = 4
            /\ \A i \in 1..2 : R[i] \in CredSteps \cup OtherSteps /\ R[i].kind \in {"check", "put"}
            /\ R[3] = Edit(<<"followees", r.user>>, "add", r.user)
            /\ R[4] = Edit(<<"followers", r.user>>, "add", r.user)
        BY <4>1, RegisterIs
      <4> HIDE DEF P, R
      <4>3. QED BY <4>1, <4>2
    <3> HIDE DEF P
    <3>2. n \in 3..4 => 4 - n + 1 \in 1..2
      BY <2>1, <3>1
    <3>3. /\ n = 2 => 4 - n + 1 = 3
          /\ n = 1 => 4 - n + 1 = 4
          /\ n \in 3..4 \/ n = 2 \/ n = 1
      BY <2>1, <3>1
    <3>4. Registers(r, t)
      BY <2>1, <3>1, <3>2, <3>3 DEF Registers, n
    <3>5. QED BY <1>1, <2>3, <3>4 DEF Calling
  <2>4. CASE r.op = "save"
    <3>1. /\ Len(P) = 6 /\ P[6].kind = "send"
          /\ \A i \in 1..5 : P[i] \in ItemSteps /\ P[i].key[2] = r.on
      <4> DEFINE R == SavePost(r.user, r.on) \o Send(r.on)
      <4>1. P = R /\ r.user \in Users /\ r.on \in Posts
        BY <1>1, <2>4, ProgramIs, RequestIs
      <4>2. /\ Len(R) = 6 /\ R[6].kind = "send"
            /\ \A i \in 1..5 : R[i] \in ItemSteps /\ R[i].key[2] = r.on
        BY <4>1, SaveIs
      <4> HIDE DEF P, R
      <4>3. QED BY <4>1, <4>2
    <3> HIDE DEF P
    <3>2. /\ n \in 2..6 => 6 - n + 1 \in 1..5
          /\ n = 1 => 6 - n + 1 = 6
          /\ n \in 2..6 \/ n = 1
      BY <2>1, <3>1
    <3>3. Saves(r, t)
      BY <2>1, <3>1, <3>2 DEF Saves, n
    <3>4. QED BY <1>1, <2>4, <3>3 DEF Calling
  <2>5. CASE r.op = "delete"
    <3>1. /\ Len(P) = 5 /\ P[5].kind = "send" /\ P[1].key = <<"cont", r.on>>
          /\ \A i \in 1..4 : P[i] \in DelSteps
      BY <1>1, <2>5, ProgramIs, DeleteIs, RequestIs
    <3> HIDE DEF P
    <3>2. /\ n \in 2..5 => 5 - n + 1 \in 1..4
          /\ n = 1 => 5 - n + 1 = 5
          /\ n = 5 => 5 - n + 1 = 1
          /\ n \in 2..5 \/ n = 1
      BY <2>1, <3>1
    <3>3. Erases(r, t)
      BY <2>1, <3>1, <3>2 DEF Erases, n
    <3>4. QED BY <1>1, <2>5, <3>3 DEF Calling
  <2>6. CASE r.op \in {"comment", "upvote", "meta"}
    <3>1. PICK s \in RemarkSteps : P = <<s>>
      BY <1>1, <2>6, ProgramIs
    <3>2. Len(P) = 1 /\ P[1] = s
      BY <3>1
    <3>3. n = 1 /\ Head(t) = s
      BY <2>1, <3>2
    <3>4. QED BY <1>1, <2>6, <3>3 DEF Calling, n
  <2>7. CASE r.op \in {"home", "user"}
    <3>1. PICK s \in ListSteps : P = <<s>>
      BY <1>1, <2>7, ProgramIs
    <3>2. Len(P) = 1 /\ P[1] = s
      BY <3>1
    <3>3. n = 1 /\ Head(t) = s
      BY <2>1, <3>2
    <3>4. QED BY <1>1, <2>7, <3>3 DEF Calling, n
  <2>8. QED BY <1>1, <2>2, <2>3, <2>4, <2>5, <2>6, <2>7, RequestIs
<1>5. QED BY <1>3, <1>4

LEMMA WorkingIs ==
    ASSUME NEW w \in Workers, NEW r, NEW t \in Seq(Steps), t # <<>>, ProgramFits(w, r, t)
    PROVE  r \in Job /\ Working(r, t)
<1> DEFINE P == JobProgram(r)
           n == Len(t)
<1>1. r \in Job
  BY DEF ProgramFits
<1>2. /\ P \in Seq(Steps) /\ Len(P) \in Nat
      /\ Len(P) = IF r.op = "save" THEN 2 ELSE 1
      /\ P[1] \in PostSteps
      /\ P[1].key = <<"user", r.user>> /\ P[1].arg = r.on
      /\ P[1].edit = IF r.op = "save" THEN "post" ELSE "unpost"
      /\ r.op = "save" => P[2] \in FanSteps /\ P[2].arg = r.on
  BY <1>1, JobIs
<1>3. CASE ~Rest(t, P)
  <2>1. r.op = "save" /\ \A i \in DOMAIN t : t[i] \in PostSteps /\ t[i].key[1] = "home"
    BY <1>3 DEF ProgramFits
  <2>2. Head(t) \in PostSteps /\ Head(t).key[1] = "home"
    BY <2>1, ListFacts
  <2>3. QED BY <1>1, <2>1, <2>2 DEF Working
<1>4. CASE Rest(t, P)
  <2>1. n \in 1..Len(P) /\ Head(t) = P[Len(P) - n + 1]
    BY <1>2, <1>4, RestIs
  <2> HIDE DEF n, P
  <2>2. \/ n = Len(P) /\ Head(t) = P[1]
        \/ r.op = "save" /\ n = 1 /\ Head(t) = P[2]
    BY <1>2, <2>1
  <2>3. QED BY <1>1, <1>2, <2>2 DEF Working, n
<1>5. QED BY <1>3, <1>4

(* The steps keep it. *)

LEMMA NoReadFits ==
    /\ NoRead \in Read
    /\ \A t, s : ReadFits(NoRead, t, s)
<1>1. <<>> \in Seq(Users)
  OBVIOUS
<1>2. NoRead \in Read
  BY <1>1 DEF NoRead, Read, Phases
<1>3. ASSUME NEW t, NEW s PROVE ReadFits(NoRead, t, s)
  BY DEF ReadFits, NoRead
<1>4. QED BY <1>2, <1>3

\* What remains when a step is done still fits the program.
LEMMA TailFits ==
    ASSUME NEW p \in Procs, NEW r, NEW t \in Seq(Steps), t # <<>>, ProgramFits(p, r, t)
    PROVE  ProgramFits(p, r, Tail(t)) /\ ProgramFits(p, r, <<>>)
<1> DEFINE u == Tail(t)
<1>1. /\ \A i \in 1..Len(u) : u[i] = t[i + 1] /\ i + 1 \in 1..Len(t)
      /\ DOMAIN t = 1..Len(t) /\ DOMAIN u = 1..Len(u)
  BY ListFacts
<1>3. ASSUME p \in Callers, u # <<>>
      PROVE  \/ Rest(u, Program(p, r))
             \/ r.op \in {"home", "user"} /\ \A i \in DOMAIN u : u[i] \in ShowSteps
  <2>1. CASE Rest(t, Program(p, r))
    <3>1. r \in Request
      BY <1>3 DEF ProgramFits
    <3>2. Len(Program(p, r)) \in Nat
      BY <1>3, <3>1, ProgramIs
    <3>3. QED BY <2>1, <3>2, RestIs
  <2>2. CASE ~Rest(t, Program(p, r))
    <3>1. r.op \in {"home", "user"} /\ \A i \in DOMAIN t : t[i] \in ShowSteps
      BY <1>3, <2>2 DEF ProgramFits
    <3> HIDE DEF u
    <3>2. QED BY <1>1, <3>1
  <2>3. QED BY <2>1, <2>2
<1>4. ASSUME p \in Workers, u # <<>>
      PROVE  \/ Rest(u, JobProgram(r))
             \/ /\ r.op = "save"
                /\ \A i \in DOMAIN u : u[i] \in PostSteps /\ u[i].key[1] = "home"
  <2>1. CASE Rest(t, JobProgram(r))
    <3>1. r \in Job
      BY <1>4 DEF ProgramFits
    <3>2. Len(JobProgram(r)) \in Nat
      BY <1>4, <3>1, JobIs
    <3>3. QED BY <2>1, <3>2, RestIs
  <2>2. CASE ~Rest(t, JobProgram(r))
    <3>1. r.op = "save" /\ \A i \in DOMAIN t : t[i] \in PostSteps /\ t[i].key[1] = "home"
      BY <1>4, <2>2 DEF ProgramFits
    <3> HIDE DEF u
    <3>2. QED BY <1>1, <3>1
  <2>3. QED BY <2>1, <2>2
<1>5. /\ p \in Callers => r \in Request
      /\ p \in Workers => r \in Job
  BY DEF ProgramFits
<1> HIDE DEF u
<1>6. ProgramFits(p, r, u)
  BY <1>3, <1>4, <1>5 DEF ProgramFits
<1>7. ProgramFits(p, r, <<>>)
  BY DEF ProgramFits
<1>8. QED BY <1>6, <1>7 DEF u

LEMMA StepIs ==
    ASSUME StoreInv, NEW p \in Procs, Busy(p)
    PROVE  /\ todo[p] \in Seq(Steps) /\ todo[p] # <<>> /\ Tail(todo[p]) \in Seq(Steps)
           /\ Step(p) \in Steps /\ Step(p).key \in Keys
           /\ ProgramFits(p, now[p], Tail(todo[p])) /\ ProgramFits(p, now[p], <<>>)
           /\ p \in Callers => now[p] \in Request /\ Calling(now[p], todo[p])
           /\ p \in Workers => now[p] \in Job /\ Working(now[p], todo[p])
           /\ Step(p).kind \notin {"edit", "put"} => got[p] = NoRead
<1>1. todo[p] \in Seq(Steps) /\ todo[p] # <<>> /\ ProgramFits(p, now[p], todo[p])
  BY DEF StoreInv, Typed, Programs, Busy
<1>2. Tail(todo[p]) \in Seq(Steps) /\ Step(p) \in Steps
  BY <1>1, ListFacts DEF Step
<1>3. Step(p).key \in Keys
  BY <1>2, StepKinds
<1>4. ProgramFits(p, now[p], Tail(todo[p])) /\ ProgramFits(p, now[p], <<>>)
  BY <1>1, TailFits
<1>5. /\ p \in Callers => now[p] \in Request /\ Calling(now[p], todo[p])
      /\ p \in Workers => now[p] \in Job /\ Working(now[p], todo[p])
  BY <1>1, CallingIs, WorkingIs
<1>6. ASSUME Step(p).kind \notin {"edit", "put"} PROVE got[p] = NoRead
  <2>1. ReadFits(got[p], todo[p], store) /\ got[p] \in Read
    BY DEF StoreInv, Reads, Typed
  <2>2. Step(p) \notin EditSteps \cup PutSteps
    BY <1>6, EditKinds, PutKinds
  <2>3. got[p].phase \in Phases
    BY <2>1 DEF Read
  <2>4. QED BY <2>1, <2>2, <2>3 DEF ReadFits, Step, Phases
<1>7. QED BY <1>1, <1>2, <1>3, <1>4, <1>5, <1>6

\* A step of p that leaves it with the steps t.
LEMMA Frame ==
    ASSUME StoreInv, NEW p \in Procs, NEW t \in Seq(Steps), NEW r,
           DOMAIN store' = Keys,
           \A k \in Keys : store'[k] = Missing \/ store'[k] \in Seq(Held(k)),
           pending' \in [Callers -> Seq(Request)],
           r \in Request \cup {[op |-> "idle"]}, now' = [now EXCEPT ![p] = r],
           todo' = [todo EXCEPT ![p] = t], ProgramFits(p, r, t),
           got' \in [Procs -> Read],
           \A q \in Procs : ReadFits(got'[q], todo'[q], store'),
           queue' \in Seq(Job), removed' \subseteq Posts,
           banned' \in [Callers -> SUBSET Posts], DOMAIN served' = Callers
    PROVE  StoreInv'
<1>1. now \in [Procs -> Request \cup {[op |-> "idle"]}] /\ todo \in [Procs -> Seq(Steps)]
  BY DEF StoreInv, Typed
<1>2. Typed'
  BY <1>1 DEF Typed
<1>3. ASSUME NEW q \in Procs PROVE ProgramFits(q, now[q], todo[q])'
  <2>1. CASE q = p
    BY <1>1, <2>1
  <2>2. CASE q # p
    <3>1. now'[q] = now[q] /\ todo'[q] = todo[q]
      BY <1>1, <2>2
    <3>2. ProgramFits(q, now[q], todo[q])
      BY DEF StoreInv, Programs
    <3>3. QED BY <3>1, <3>2
  <2>3. QED BY <2>1, <2>2
<1>4. Programs'
  BY <1>3 DEF Programs
<1>5. Reads'
  BY DEF Reads
<1>6. QED BY <1>2, <1>4, <1>5 DEF StoreInv

\* A step that writes nothing.
LEMMA Moved ==
    ASSUME StoreInv, NEW p \in Procs, NEW t \in Seq(Steps), NEW g \in Read,
           store' = store, pending' = pending, now' = now,
           todo' = [todo EXCEPT ![p] = t], ProgramFits(p, now[p], t),
           got' = [got EXCEPT ![p] = g], ReadFits(g, t, store),
           queue' \in Seq(Job), removed' \subseteq Posts,
           banned' = banned, DOMAIN served' = Callers
    PROVE  StoreInv'
<1>1. /\ DOMAIN store = Keys
      /\ \A k \in Keys : store[k] = Missing \/ store[k] \in Seq(Held(k))
      /\ pending \in [Callers -> Seq(Request)]
      /\ now \in [Procs -> Request \cup {[op |-> "idle"]}]
      /\ todo \in [Procs -> Seq(Steps)] /\ got \in [Procs -> Read]
      /\ banned \in [Callers -> SUBSET Posts]
  BY DEF StoreInv, Typed
<1>2. now[p] \in Request \cup {[op |-> "idle"]} /\ now' = [now EXCEPT ![p] = now[p]]
  BY <1>1
<1>3. got' \in [Procs -> Read]
  BY <1>1
<1>4. ASSUME NEW q \in Procs PROVE ReadFits(got'[q], todo'[q], store')
  <2>1. CASE q = p
    BY <1>1, <2>1
  <2>2. CASE q # p
    <3>1. got'[q] = got[q] /\ todo'[q] = todo[q]
      BY <1>1, <2>2
    <3>2. ReadFits(got[q], todo[q], store)
      BY DEF StoreInv, Reads
    <3>3. QED BY <3>1, <3>2
  <2>3. QED BY <2>1, <2>2
<1>5. QED BY <1>1, <1>2, <1>3, <1>4, Frame

\* A step that writes the list under a key.
LEMMA Wrote ==
    ASSUME StoreInv, NEW p \in Procs, NEW t \in Seq(Steps), NEW k \in Keys, NEW list,
           NEW mine \in Read, list = Missing \/ list \in Seq(Held(k)),
           Write(p, k, list, mine), pending' = pending, now' = now,
           todo' = [todo EXCEPT ![p] = t], ProgramFits(p, now[p], t),
           ReadFits(mine, t, store'), UNCHANGED <<queue, removed, banned, served>>
    PROVE  StoreInv'
<1>1. /\ DOMAIN store = Keys
      /\ \A l \in Keys : store[l] = Missing \/ store[l] \in Seq(Held(l))
      /\ pending \in [Callers -> Seq(Request)]
      /\ now \in [Procs -> Request \cup {[op |-> "idle"]}]
      /\ todo \in [Procs -> Seq(Steps)] /\ got \in [Procs -> Read]
      /\ queue \in Seq(Job) /\ removed \subseteq Posts
      /\ banned \in [Callers -> SUBSET Posts] /\ DOMAIN served = Callers
  BY DEF StoreInv, Typed
<1>2. now[p] \in Request \cup {[op |-> "idle"]} /\ now' = [now EXCEPT ![p] = now[p]]
  BY <1>1
<1>3. store' = [store EXCEPT ![k] = list]
  BY DEF Write
<1>4. /\ DOMAIN store' = Keys
      /\ \A l \in Keys : store'[l] = Missing \/ store'[l] \in Seq(Held(l))
      /\ \A l \in Keys : l # k => store'[l] = store[l]
  BY <1>1, <1>3
<1>5. ASSUME NEW q \in Procs
      PROVE  got'[q] = IF q = p THEN mine
                       ELSE IF got[q].phase = "fresh" /\ Step(q).key = k
                            THEN [got[q] EXCEPT !.phase = "stale"] ELSE got[q]
  BY DEF Write
<1>6. ASSUME NEW q \in Procs, q # p
      PROVE  got'[q] \in Read /\ ReadFits(got'[q], todo[q], store')
  <2>1. got[q] \in Read /\ ReadFits(got[q], todo[q], store) /\ todo[q] \in Seq(Steps)
    BY <1>1 DEF StoreInv, Reads
  <2>2. CASE got[q].phase = "fresh" /\ Step(q).key = k
    <3>1. got'[q] = [got[q] EXCEPT !.phase = "stale"]
      BY <1>5, <1>6, <2>2
    <3>2. /\ got'[q] \in Read /\ got'[q].phase = "stale" /\ got'[q].list = got[q].list
      BY <2>1, <3>1 DEF Read, Phases
    <3>3. QED BY <2>1, <2>2, <3>2 DEF ReadFits
  <2>3. CASE got[q].phase = "fresh" /\ Step(q).key # k
    <3>1. got'[q] = got[q]
      BY <1>5, <1>6, <2>3
    <3>2. Head(todo[q]) \in EditSteps
      BY <2>1, <2>3 DEF ReadFits
    <3>3. store'[Head(todo[q]).key] = store[Head(todo[q]).key]
      BY <1>4, <2>3, <3>2, EditKinds DEF Step
    <3>4. QED BY <2>1, <2>3, <3>1, <3>3 DEF ReadFits
  <2>4. CASE got[q].phase # "fresh"
    <3>1. got'[q] = got[q]
      BY <1>5, <1>6, <2>4
    <3>2. QED BY <2>1, <2>4, <3>1 DEF ReadFits
  <2>5. QED BY <2>2, <2>3, <2>4
<1>7. got'[p] = mine /\ todo'[p] = t
  BY <1>1, <1>5
<1>8. got' \in [Procs -> Read]
  <2>1. DOMAIN got' = Procs /\ got' = [q \in Procs |-> got'[q]]
    BY DEF Write
  <2>2. \A q \in Procs : got'[q] \in Read
    BY <1>6, <1>7
  <2>3. QED BY <2>1, <2>2
<1>9. ASSUME NEW q \in Procs PROVE ReadFits(got'[q], todo'[q], store')
  <2>1. q # p => todo'[q] = todo[q]
    BY <1>1
  <2>2. QED BY <1>6, <1>7, <2>1
<1>10. QED BY <1>1, <1>2, <1>4, <1>8, <1>9, Frame

LEMMA FailKeeps ==
    ASSUME StoreInv, NEW p \in Procs, Busy(p), Fail(p),
           UNCHANGED <<store, pending, now, queue, removed, banned, served>>
    PROVE  StoreInv'
<1> DEFINE t == IF Step(p).skip THEN Tail(todo[p]) ELSE <<>>
<1>1. /\ queue \in Seq(Job) /\ removed \subseteq Posts /\ DOMAIN served = Callers
      /\ todo \in [Procs -> Seq(Steps)]
  BY DEF StoreInv, Typed
<1>2. todo' = [todo EXCEPT ![p] = t] /\ got' = [got EXCEPT ![p] = NoRead]
  BY <1>1 DEF Fail, Step
<1>3. t \in Seq(Steps) /\ ProgramFits(p, now[p], t)
  BY StepIs
<1> HIDE DEF t
<1>4. NoRead \in Read /\ ReadFits(NoRead, t, store)
  BY NoReadFits
<1>5. QED BY <1>1, <1>2, <1>3, <1>4, Moved

\* The next step, or the steps "more" first.
LEMMA ProceedKeeps ==
    ASSUME StoreInv, NEW p \in Procs, Busy(p), Proceed(p, <<>>),
           got' = [got EXCEPT ![p] = NoRead] \/ (got' = got /\ got[p] = NoRead),
           UNCHANGED <<store, pending, now, banned>>,
           queue' \in Seq(Job), removed' \subseteq Posts, DOMAIN served' = Callers
    PROVE  StoreInv'
<1> DEFINE t == Tail(todo[p])
<1>1. todo \in [Procs -> Seq(Steps)] /\ got \in [Procs -> Read]
  BY DEF StoreInv, Typed
<1>2. t \in Seq(Steps) /\ ProgramFits(p, now[p], t)
  BY StepIs
<1>3. <<>> \o t = t
  BY <1>2, ConcatEmptySeq
<1>4. todo' = [todo EXCEPT ![p] = t] /\ got' = [got EXCEPT ![p] = NoRead]
  BY <1>1, <1>3 DEF Proceed
<1> HIDE DEF t
<1>5. NoRead \in Read /\ ReadFits(NoRead, t, store)
  BY NoReadFits
<1>6. QED BY <1>2, <1>4, <1>5, Moved

LEMMA EmptyTail == ASSUME NEW S, NEW t \in Seq(S), Len(t) = 1 PROVE Tail(t) = <<>>
<1>1. t # <<>>
  OBVIOUS
<1>2. Tail(t) \in Seq(S) /\ Len(Tail(t)) = 0
  BY <1>1, ListFacts
<1>3. QED BY <1>2, EmptySeq

LEMMA KindIs ==
    /\ \A s \in EditSteps : s.kind = "edit"
    /\ \A s \in CredSteps \cup ItemSteps : s.kind = "put"
    /\ \A s \in OtherSteps : s.kind # "put"
    /\ \A s \in ShowSteps : s.kind = "show" /\ s.key = <<"cont", s.arg>> /\ s.arg \in Posts
    /\ \A s \in DelSteps : s.kind = "del" /\ s.key[2] = s.arg
    /\ \A s \in ListSteps : s.kind = "list" /\ s.key \in Timelines
    /\ \A s \in FanSteps : /\ s.kind = "fanout" /\ s.arg \in Posts
                           /\ s.key \in {"followers"} \X Users
    /\ RemarkSteps \subseteq EditSteps /\ PostSteps \subseteq EditSteps
    /\ \A edit, k, x : Edit(k, edit, x).kind = "edit"
BY DEF EditSteps, FollowSteps, RemarkSteps, PostSteps, CredSteps, ItemSteps, ShowSteps,
       OtherSteps, DelSteps, ListSteps, FanSteps, StepSet, Edit, Do

\* Which processes take a step of a kind, and when.
LEMMA WhoDoes ==
    ASSUME StoreInv, NEW p \in Procs, Busy(p)
    PROVE  /\ Step(p).kind = "list" =>
                 /\ p \in Callers /\ now[p].op \in {"home", "user"} /\ Len(todo[p]) = 1
                 /\ Step(p) \in ListSteps
           /\ Step(p).kind = "show" =>
                 /\ p \in Callers /\ now[p].op \in {"home", "user"} /\ Step(p) \in ShowSteps
           /\ Step(p).kind = "fanout" =>
                 /\ p \in Workers /\ now[p].op = "save" /\ Len(todo[p]) = 1
                 /\ Step(p) \in FanSteps /\ Step(p).arg = now[p].on
           /\ Step(p).kind = "send" =>
                 p \in Callers /\ now[p].op \in {"save", "delete"} /\ Len(todo[p]) = 1
           /\ Step(p).kind = "del" =>
                 /\ p \in Callers /\ now[p].op = "delete" /\ Len(todo[p]) \in 2..5
                 /\ Step(p) \in DelSteps
                 /\ Len(todo[p]) = 5 => Step(p).key = <<"cont", now[p].on>>
           /\ Step(p).kind = "put" =>
                 /\ p \in Callers /\ Step(p) \in PutSteps
                 /\ \/ /\ now[p].op = "register" /\ Len(todo[p]) \in 3..4
                       /\ Step(p) \in CredSteps
                    \/ now[p].op = "save" /\ Step(p).key[2] = now[p].on
           /\ Step(p).kind = "check" =>
                 p \in Callers /\ now[p].op = "register" /\ Len(todo[p]) \in 3..4
<1>1. /\ Step(p) \in Steps
      /\ p \in Callers => now[p] \in Request /\ Calling(now[p], todo[p])
      /\ p \in Workers => now[p] \in Job /\ Working(now[p], todo[p])
  BY StepIs
<1>2. CASE p \in Workers
  <2>1. Step(p) = Head(todo[p])
    BY DEF Step
  <2>2. QED BY <1>1, <1>2, <2>1, KindIs DEF Working
<1>3. CASE p \in Callers
  <2> DEFINE t == todo[p]
             r == now[p]
  <2>1. Step(p) = Head(t) /\ r \in Request /\ Calling(r, t)
    BY <1>1, <1>3 DEF Step
  <2> HIDE DEF t, r
  <2>2. CASE r.op \in {"follow", "unfollow"}
    <3>1. Step(p).kind = "edit"
      BY <2>1, <2>2, KindIs DEF Calling, Pairs
    <3>2. QED BY <3>1
  <2>3. CASE r.op = "register"
    <3>1. \/ Step(p).kind = "edit"
          \/ Len(t) \in 3..4 /\ Step(p).kind = "check"
          \/ Len(t) \in 3..4 /\ Step(p).kind = "put" /\ Step(p) \in CredSteps
      BY <2>1, <2>3, KindIs DEF Calling, Registers
    <3>2. QED BY <1>1, <1>3, <2>3, <3>1, StepKinds DEF t, r
  <2>4. CASE r.op = "save"
    <3>1. \/ Step(p).kind = "put" /\ Step(p).key[2] = r.on
          \/ Step(p).kind = "send" /\ Len(t) = 1
      BY <2>1, <2>4, KindIs DEF Calling, Saves
    <3>2. QED BY <1>1, <1>3, <2>4, <3>1, StepKinds DEF t, r
  <2>5. CASE r.op = "delete"
    <3>1. \/ /\ Step(p).kind = "del" /\ Len(t) \in 2..5 /\ Step(p) \in DelSteps
             /\ Len(t) = 5 => Step(p).key = <<"cont", r.on>>
          \/ Step(p).kind = "send" /\ Len(t) = 1
      BY <2>1, <2>5, KindIs DEF Calling, Erases
    <3>2. QED BY <1>3, <2>5, <3>1 DEF t, r
  <2>6. CASE r.op \in {"comment", "upvote", "meta"}
    <3>1. Step(p).kind = "edit"
      BY <2>1, <2>6, KindIs DEF Calling
    <3>2. QED BY <3>1
  <2>7. CASE r.op \in {"home", "user"}
    <3>1. \/ Len(t) = 1 /\ Step(p) \in ListSteps /\ Step(p).kind = "list"
          \/ Step(p) \in ShowSteps /\ Step(p).kind = "show"
      BY <2>1, <2>7, KindIs DEF Calling
    <3>2. QED BY <1>3, <2>7, <3>1 DEF t, r
  <2>8. QED BY <2>1, <2>2, <2>3, <2>4, <2>5, <2>6, <2>7, RequestIs
<1>4. QED BY <1>2, <1>3 DEF Procs

LEMMA FanoutKeeps ==
    ASSUME StoreInv, NEW w \in Procs, Fanout(w) PROVE StoreInv'
<1> DEFINE followers == ListAt(Step(w).key)
           t == [i \in 1..Len(followers) |->
                   UpdateSpecificTimeline("home", followers[i], TRUE, Step(w).arg)]
<1>1. /\ Busy(w) /\ Step(w).kind = "fanout"
      /\ todo' = [todo EXCEPT ![w] = t \o Tail(@)]
      /\ UNCHANGED <<store, pending, now, got, queue, removed, banned, served>>
  BY DEF Fanout, At, Proceed, history
<1>2. /\ w \in Workers /\ now[w].op = "save" /\ Len(todo[w]) = 1
      /\ Step(w).arg \in Posts /\ Step(w).key \in {"followers"} \X Users
  BY <1>1, WhoDoes, KindIs
<1>3. /\ todo[w] \in Seq(Steps) /\ got[w] = NoRead /\ now[w] \in Job
  BY <1>1, <1>2, StepIs
<1>4. /\ todo \in [Procs -> Seq(Steps)] /\ got \in [Procs -> Read] /\ queue \in Seq(Job)
      /\ removed \subseteq Posts /\ DOMAIN served = Callers
  BY DEF StoreInv, Typed
<1>5. followers \in Seq(Users)
  <2>1. Step(w).key \in Keys /\ Held(Step(w).key) = Users
    BY <1>2 DEF Keys, Held, Timelines, Creds
  <2>2. store[Step(w).key] = Missing \/ store[Step(w).key] \in Seq(Users)
    BY <2>1 DEF StoreInv, Typed
  <2>3. <<>> \in Seq(Users)
    OBVIOUS
  <2>4. QED BY <2>2, <2>3 DEF ListAt
<1> HIDE DEF followers
<1>6. Len(followers) \in Nat /\ \A i \in 1..Len(followers) : followers[i] \in Users
  BY <1>5, LenProperties, ElementOfSeq
<1>7. ASSUME NEW u \in Users
      PROVE  /\ UpdateSpecificTimeline("home", u, TRUE, Step(w).arg) \in PostSteps
             /\ UpdateSpecificTimeline("home", u, TRUE, Step(w).arg) \in Steps
             /\ UpdateSpecificTimeline("home", u, TRUE, Step(w).arg).key[1] = "home"
  <2> DEFINE x == Step(w).arg
             d == UpdateSpecificTimeline("home", u, TRUE, x)
  <2>1. x \in Posts
    BY <1>2
  <2> HIDE DEF x
  <2>2. d \in PostSteps /\ d.key = <<"home", u>>
    BY <2>1, TimelineStep
  <2> HIDE DEF d
  <2>3. d \in Steps /\ d.key[1] = "home"
    BY <2>2 DEF Steps, EditSteps
  <2>4. QED BY <2>2, <2>3 DEF d, x
<1>8. t \in [1..Len(followers) -> Steps]
  BY <1>6, <1>7
<1>9. t \in Seq(Steps) /\ DOMAIN t = 1..Len(followers)
  BY <1>6, <1>8, Listing
<1>10. \A i \in DOMAIN t : t[i] \in PostSteps /\ t[i].key[1] = "home"
  BY <1>6, <1>7, <1>9
<1> HIDE DEF t
<1>11. Tail(todo[w]) = <<>> /\ t \o <<>> = t
  BY <1>2, <1>3, <1>9, EmptyTail, ConcatEmptySeq
<1>12. todo' = [todo EXCEPT ![w] = t] /\ got' = [got EXCEPT ![w] = NoRead]
  BY <1>1, <1>3, <1>4, <1>11
<1>13. w \notin Callers
  BY <1>2, MonolithAssumption
<1>14. ProgramFits(w, now[w], t)
  BY <1>2, <1>3, <1>10, <1>13 DEF ProgramFits
<1>15. NoRead \in Read /\ ReadFits(NoRead, t, store)
  BY NoReadFits
<1>16. QED BY <1>1, <1>4, <1>9, <1>12, <1>14, <1>15, Moved

LEMMA ReadTimelineKeeps ==
    ASSUME StoreInv, NEW c \in Procs, ReadTimeline(c) PROVE StoreInv'
<1> DEFINE list == ListAt(Step(c).key)
           t == [i \in 1..Len(list) |-> Logged(Do("show", <<"cont", list[i]>>, "", list[i]))]
<1>1. /\ Busy(c) /\ Step(c).kind = "list"
      /\ todo' = [todo EXCEPT ![c] = t \o Tail(@)]
      /\ UNCHANGED <<store, pending, now, got, queue, removed, banned, served>>
  BY DEF ReadTimeline, At, Proceed, history
<1>2. /\ c \in Callers /\ now[c].op \in {"home", "user"} /\ Len(todo[c]) = 1
      /\ Step(c).key \in Timelines
  BY <1>1, WhoDoes, KindIs
<1>3. todo[c] \in Seq(Steps) /\ got[c] = NoRead /\ now[c] \in Request
  BY <1>1, <1>2, StepIs
<1>4. /\ todo \in [Procs -> Seq(Steps)] /\ got \in [Procs -> Read] /\ queue \in Seq(Job)
      /\ removed \subseteq Posts /\ DOMAIN served = Callers
  BY DEF StoreInv, Typed
<1>5. list \in Seq(Posts)
  <2>1. Step(c).key \in Keys /\ Held(Step(c).key) = Posts
    BY <1>2 DEF Keys, Held, Timelines
  <2>2. store[Step(c).key] = Missing \/ store[Step(c).key] \in Seq(Posts)
    BY <2>1 DEF StoreInv, Typed
  <2>3. <<>> \in Seq(Posts)
    OBVIOUS
  <2>4. QED BY <2>2, <2>3 DEF ListAt
<1> HIDE DEF list
<1>6. Len(list) \in Nat /\ \A i \in 1..Len(list) : list[i] \in Posts
  BY <1>5, LenProperties, ElementOfSeq
<1>7. ASSUME NEW x \in Posts
      PROVE  /\ Logged(Do("show", <<"cont", x>>, "", x)) \in ShowSteps
             /\ Logged(Do("show", <<"cont", x>>, "", x)) \in Steps
  <2>1. Logged(Do("show", <<"cont", x>>, "", x)) \in ShowSteps
    BY DEF Logged, Do, ShowSteps, StepSet
  <2>2. QED BY <2>1 DEF Steps
<1>8. t \in [1..Len(list) -> Steps]
  BY <1>6, <1>7
<1>9. t \in Seq(Steps) /\ DOMAIN t = 1..Len(list)
  BY <1>6, <1>8, Listing
<1>10. \A i \in DOMAIN t : t[i] \in ShowSteps
  BY <1>6, <1>7, <1>9
<1> HIDE DEF t
<1>11. Tail(todo[c]) = <<>> /\ t \o <<>> = t
  BY <1>2, <1>3, <1>9, EmptyTail, ConcatEmptySeq
<1>12. todo' = [todo EXCEPT ![c] = t] /\ got' = [got EXCEPT ![c] = NoRead]
  BY <1>1, <1>3, <1>4, <1>11
<1>13. c \notin Workers
  BY <1>2, MonolithAssumption
<1>14. ProgramFits(c, now[c], t)
  BY <1>2, <1>3, <1>10, <1>13 DEF ProgramFits
<1>15. NoRead \in Read /\ ReadFits(NoRead, t, store)
  BY NoReadFits
<1>16. QED BY <1>1, <1>4, <1>9, <1>12, <1>14, <1>15, Moved

\* What an edit has read, and what it is about to save.
LEMMA SaveFacts ==
    ASSUME StoreInv, NEW p \in Procs, ToSave(p)
    PROVE  /\ Busy(p) /\ Step(p) \in EditSteps /\ Step(p).key \in Keys
           /\ Step(p).edit \in EditNames
           /\ got[p].list \in Seq(Held(Step(p).key)) /\ Step(p).arg \in Held(Step(p).key)
           /\ Edited(Step(p).edit, got[p].list, Step(p).arg) \in Seq(Held(Step(p).key))
           /\ got[p].phase = "fresh" => got[p].list = store[Step(p).key]
           /\ got[p].phase = "noetag" => got[p].list = <<>>
<1>1. /\ Busy(p) /\ got[p].phase \in {"fresh", "stale", "noetag"}
      /\ ReadFits(got[p], todo[p], store)
  BY DEF ToSave, HasRead, At, StoreInv, Reads
<1>2. /\ Step(p) \in EditSteps /\ got[p].list \in Seq(Held(Step(p).key))
      /\ got[p].phase = "fresh" => got[p].list = store[Step(p).key]
      /\ got[p].phase = "noetag" => got[p].list = <<>>
  BY <1>1 DEF ReadFits, Step
<1>3. /\ Step(p).edit \in EditNames /\ Step(p).key \in Keys
      /\ Step(p).arg \in Held(Step(p).key)
  BY <1>2, EditKinds
<1>4. Edited(Step(p).edit, got[p].list, Step(p).arg) \in Seq(Held(Step(p).key))
  BY <1>2, <1>3, EditedIs
<1>5. QED BY <1>1, <1>2, <1>3, <1>4

\* A saved item is read back, or the step is done.
LEMMA SavedKeeps ==
    ASSUME StoreInv, NEW p \in Procs, Busy(p), Step(p) \in EditSteps \cup PutSteps,
           NEW list \in Seq(Held(Step(p).key)),
           Write(p, Step(p).key, list, AfterSave(p)), SavedStep(p),
           UNCHANGED <<pending, now, queue, removed, banned, served>>
    PROVE  StoreInv'
<1>1. /\ todo[p] \in Seq(Steps) /\ todo[p] # <<>> /\ Tail(todo[p]) \in Seq(Steps)
      /\ ProgramFits(p, now[p], todo[p]) /\ ProgramFits(p, now[p], Tail(todo[p]))
      /\ Step(p).key \in Keys
  BY StepIs DEF StoreInv, Programs
<1>2. todo \in [Procs -> Seq(Steps)]
  BY DEF StoreInv, Typed
<1>3. CASE AfterSave(p) = NoRead
  <2>1. <<>> \o Tail(todo[p]) = Tail(todo[p])
    BY <1>1, ConcatEmptySeq
  <2>2. todo' = [todo EXCEPT ![p] = Tail(todo[p])]
    BY <1>2, <1>3, <2>1 DEF SavedStep, Proceed
  <2>3. AfterSave(p) \in Read /\ ReadFits(AfterSave(p), Tail(todo[p]), store')
    BY <1>3, NoReadFits
  <2>4. QED BY <1>1, <2>2, <2>3, Wrote
<1>4. CASE AfterSave(p) # NoRead
  <2>1. AfterSave(p) = [NoRead EXCEPT !.phase = "confirm"]
    BY <1>4 DEF AfterSave
  <2>2. todo' = [todo EXCEPT ![p] = todo[p]]
    BY <1>2, <1>4 DEF SavedStep
  <2>3. <<>> \in Seq(Users)
    OBVIOUS
  <2>4. /\ AfterSave(p) \in Read /\ AfterSave(p).phase = "confirm"
    BY <2>1, <2>3 DEF NoRead, Read, Phases
  <2>5. ReadFits(AfterSave(p), todo[p], store')
    <3>1. ~Step(p).bulk
      BY <1>4 DEF AfterSave
    <3>2. QED BY <1>1, <2>4, <3>1 DEF ReadFits, Step
  <2>6. QED BY <1>1, <2>2, <2>4, <2>5, Wrote
<1>5. QED BY <1>3, <1>4

LEMMA GetKeeps ==
    ASSUME StoreInv, NEW p \in Procs, Get(p) PROVE StoreInv'
<1>1. /\ Busy(p) /\ Step(p).kind = "edit" /\ got[p] = NoRead
      /\ UNCHANGED <<store, client, pending, now, queue, faults, removed, banned, served>>
  BY DEF Get, At, history
<1>2. CASE store[Step(p).key] = Missing /\ Step(p).edit = "set"
  <2>1. Fail(p)
    BY <1>2 DEF Get
  <2>2. QED BY <1>1, <2>1, FailKeeps
<1>3. CASE ~(store[Step(p).key] = Missing /\ Step(p).edit = "set")
  <2> DEFINE g == IF store[Step(p).key] = Missing THEN [phase |-> "noetag", list |-> <<>>]
                  ELSE [phase |-> "fresh", list |-> store[Step(p).key]]
  <2>1. got' = [got EXCEPT ![p] = g] /\ todo' = todo
    BY <1>3 DEF Get
  <2>2. /\ todo[p] \in Seq(Steps) /\ todo[p] # <<>> /\ ProgramFits(p, now[p], todo[p])
        /\ Step(p) \in EditSteps
    BY <1>1, StepIs, StepKinds DEF StoreInv, Programs
  <2>3. Step(p).key \in Keys /\ Seq(Held(Step(p).key)) \subseteq Seq(Users) \cup Seq(Posts)
    BY <2>2, EditKinds
  <2>4. store[Step(p).key] = Missing \/ store[Step(p).key] \in Seq(Held(Step(p).key))
    BY <2>3 DEF StoreInv, Typed
  <2>5. <<>> \in Seq(Held(Step(p).key))
    OBVIOUS
  <2>6. g \in Read /\ ReadFits(g, todo[p], store)
    BY <2>2, <2>3, <2>4, <2>5 DEF Read, Phases, ReadFits, Step
  <2>7. /\ todo' = [todo EXCEPT ![p] = todo[p]] /\ queue \in Seq(Job)
        /\ removed \subseteq Posts /\ DOMAIN served = Callers
    BY <2>1 DEF StoreInv, Typed
  <2> HIDE DEF g
  <2>8. QED BY <1>1, <2>1, <2>2, <2>6, <2>7, Moved
<1>4. QED BY <1>2, <1>3

LEMMA RetryKeeps ==
    ASSUME StoreInv, NEW p \in Procs, Retry(p) PROVE StoreInv'
<1>1. /\ Busy(p) /\ got' = [got EXCEPT ![p] = NoRead] /\ todo' = todo
      /\ UNCHANGED <<store, pending, now, queue, removed, banned, served>>
  BY DEF Retry, ToSave, HasRead, At, history
<1>2. /\ todo[p] \in Seq(Steps) /\ ProgramFits(p, now[p], todo[p])
      /\ todo' = [todo EXCEPT ![p] = todo[p]]
      /\ queue \in Seq(Job) /\ removed \subseteq Posts /\ DOMAIN served = Callers
  BY <1>1 DEF StoreInv, Typed, Programs
<1>3. NoRead \in Read /\ ReadFits(NoRead, todo[p], store)
  BY NoReadFits
<1>4. QED BY <1>1, <1>2, <1>3, Moved

LEMMA EnqueueKeeps ==
    ASSUME StoreInv, NEW c \in Procs, Enqueue(c) PROVE StoreInv'
<1>1. /\ Busy(c) /\ Step(c).kind = "send" /\ queue' = Append(queue, now[c])
      /\ Proceed(c, <<>>) /\ UNCHANGED <<store, pending, now, got, banned, served>>
      /\ removed' \subseteq removed \cup {now[c].on}
  BY DEF Enqueue, At
<1>2. c \in Callers /\ now[c].op \in {"save", "delete"}
  BY <1>1, WhoDoes
<1>3. now[c] \in Request /\ got[c] = NoRead
  BY <1>1, <1>2, StepIs
<1>4. now[c] \in Job /\ now[c].on \in Posts
  BY <1>2, <1>3 DEF Request, Job
<1>5. /\ queue' \in Seq(Job) /\ removed' \subseteq Posts /\ DOMAIN served' = Callers
  BY <1>1, <1>4 DEF StoreInv, Typed
<1>6. QED BY <1>1, <1>3, <1>5, ProceedKeeps

LEMMA RunKeeps ==
    ASSUME StoreInv, NEW p \in Procs, Run(p) PROVE StoreInv'
<1>0. /\ queue \in Seq(Job) /\ removed \subseteq Posts /\ DOMAIN served = Callers
  BY DEF StoreInv, Typed
<1>1. CASE Get(p)
  BY <1>1, GetKeeps
<1>2. CASE NoChange(p)
  <2>1. /\ Busy(p) /\ Proceed(p, <<>>) /\ got' = [got EXCEPT ![p] = NoRead]
        /\ UNCHANGED <<store, pending, now, queue, removed, banned, served>>
    BY <1>2 DEF NoChange, HasRead, At, history
  <2>2. queue' \in Seq(Job) /\ removed' \subseteq Posts /\ DOMAIN served' = Callers
    BY <1>0, <2>1
  <2>3. got' = [got EXCEPT ![p] = NoRead] \/ (got' = got /\ got[p] = NoRead)
    BY <2>1
  <2>4. UNCHANGED <<store, pending, now, banned>>
    BY <2>1
  <2>5. QED BY <2>1, <2>2, <2>3, <2>4, ProceedKeeps, Zenon
<1>3. CASE Save(p)
  <2>1. /\ ToSave(p) /\ SavedStep(p)
        /\ Write(p, Step(p).key, Edited(Step(p).edit, got[p].list, Step(p).arg), AfterSave(p))
        /\ UNCHANGED <<pending, now, queue, removed, banned, served>>
    BY <1>3 DEF Save
  <2>2. QED BY <2>1, SaveFacts, SavedKeeps
<1>4. CASE Retry(p)
  BY <1>4, RetryKeeps
<1>5. CASE GiveUp(p)
  BY <1>5, FailKeeps DEF GiveUp, ToSave, HasRead, At
<1>6. CASE Confirm(p)
  <2>1. /\ Busy(p)
        /\ Fail(p) \/ (Proceed(p, <<>>) /\ got' = [got EXCEPT ![p] = NoRead])
        /\ UNCHANGED <<store, pending, now, queue, removed, banned, served>>
    BY <1>6 DEF Confirm
  <2>2. queue' \in Seq(Job) /\ removed' \subseteq Posts /\ DOMAIN served' = Callers
    BY <1>0, <2>1
  <2>3. CASE Fail(p)
    BY <2>1, <2>3, FailKeeps
  <2>4. CASE Proceed(p, <<>>) /\ got' = [got EXCEPT ![p] = NoRead]
    <3>1. got' = [got EXCEPT ![p] = NoRead] \/ (got' = got /\ got[p] = NoRead)
      BY <2>4
    <3>2. UNCHANGED <<store, pending, now, banned>>
      BY <2>1
    <3>3. QED BY <2>1, <2>2, <2>4, <3>1, <3>2, ProceedKeeps, Zenon
  <2>5. QED BY <2>1, <2>3, <2>4
<1>7. CASE Store(p)
  <2>1. /\ Busy(p) /\ Step(p).kind = "put" /\ SavedStep(p)
        /\ Write(p, Step(p).key, Step(p).arg, AfterSave(p))
        /\ UNCHANGED <<pending, now, queue, removed, banned, served>>
    BY <1>7 DEF Store, At
  <2>2. Step(p) \in PutSteps
    BY <2>1, WhoDoes
  <2>3. Step(p).arg \in Seq(Held(Step(p).key))
    BY <2>2, PutKinds
  <2>4. QED BY <2>1, <2>2, <2>3, SavedKeeps
<1>8. CASE Delete(p)
  <2>1. /\ Busy(p) /\ Write(p, Step(p).key, Missing, NoRead) /\ Proceed(p, <<>>)
        /\ UNCHANGED <<pending, now, queue, removed, banned, served>>
    BY <1>8 DEF Delete, At
  <2>2. /\ Tail(todo[p]) \in Seq(Steps) /\ ProgramFits(p, now[p], Tail(todo[p]))
        /\ Step(p).key \in Keys
    BY <2>1, StepIs
  <2>3. <<>> \o Tail(todo[p]) = Tail(todo[p])
    BY <2>2, ConcatEmptySeq
  <2>4. todo' = [todo EXCEPT ![p] = Tail(todo[p])]
    BY <2>1, <2>3 DEF Proceed, StoreInv, Typed
  <2>5. NoRead \in Read /\ ReadFits(NoRead, Tail(todo[p]), store')
    BY NoReadFits
  <2>6. QED BY <2>1, <2>2, <2>4, <2>5, Wrote
<1>9. CASE Check(p)
  <2>1. Busy(p) /\ got[p] = NoRead
    BY <1>9, StepIs DEF Check, At
  <2>2. QED BY <1>0, <1>9, <2>1, FailKeeps, ProceedKeeps DEF Check
<1>10. CASE Enqueue(p)
  BY <1>10, EnqueueKeeps
<1>11. CASE Fanout(p)
  BY <1>11, FanoutKeeps
<1>12. CASE ReadTimeline(p)
  BY <1>12, ReadTimelineKeeps
<1>13. CASE ReadPost(p)
  <2>1. /\ Busy(p) /\ got[p] = NoRead /\ DOMAIN served' = Callers
    BY <1>0, <1>13, StepIs DEF ReadPost, At
  <2>2. QED BY <1>0, <1>13, <2>1, ProceedKeeps DEF ReadPost
<1>14. CASE Fault(p)
  <2>1. CASE At(p, "fanout")
    <3>1. Busy(p) /\ got[p] = NoRead
      BY <2>1, StepIs DEF At
    <3>2. QED BY <1>0, <1>14, <2>1, <3>1, ProceedKeeps DEF Fault
  <2>2. CASE ~At(p, "fanout")
    BY <1>14, <2>2, FailKeeps DEF Fault
  <2>3. QED BY <2>1, <2>2
<1>15. QED BY <1>1, <1>2, <1>3, <1>4, <1>5, <1>6, <1>7, <1>8, <1>9, <1>10, <1>11, <1>12,
              <1>13, <1>14 DEF Run

LEMMA IdleIs ==
    ASSUME StoreInv, NEW p \in Procs, ~Busy(p)
    PROVE  got[p] = NoRead
<1>1. ReadFits(got[p], todo[p], store) /\ todo[p] = <<>>
  BY DEF StoreInv, Reads, Busy
<1>2. QED BY <1>1 DEF ReadFits

LEMMA WholeRest ==
    ASSUME NEW P \in Seq(Steps) PROVE Rest(P, P)
<1>1. Len(P) \in Nat
  OBVIOUS
<1>2. \A i \in 1..Len(P) : Len(P) - Len(P) + i = i
  BY <1>1
<1>3. QED BY <1>1, <1>2 DEF Rest

LEMMA CallKeeps ==
    ASSUME StoreInv, NEW c \in Callers, Call(c) PROVE StoreInv'
<1> DEFINE r == Head(pending[c])
           P == Program(c, r)
<1>1. /\ DOMAIN store = Keys
      /\ \A k \in Keys : store[k] = Missing \/ store[k] \in Seq(Held(k))
      /\ pending \in [Callers -> Seq(Request)]
      /\ todo \in [Procs -> Seq(Steps)] /\ got \in [Procs -> Read] /\ queue \in Seq(Job)
      /\ removed \subseteq Posts /\ banned \in [Callers -> SUBSET Posts]
      /\ DOMAIN served = Callers
  BY DEF StoreInv, Typed
<1>2. /\ ~Busy(c) /\ pending[c] # <<>>
      /\ now' = [now EXCEPT ![c] = r] /\ todo' = [todo EXCEPT ![c] = P]
      /\ pending' = [pending EXCEPT ![c] = Tail(@)]
      /\ banned' = [banned EXCEPT ![c] = removed]
      /\ served' = [served EXCEPT ![c] = {}]
      /\ UNCHANGED <<store, got, queue, removed>>
  BY DEF Call, Begin
<1>3. pending[c] \in Seq(Request)
  BY <1>1
<1>4. r \in Request /\ Tail(pending[c]) \in Seq(Request)
  BY <1>2, <1>3, ListFacts
<1>5. P \in Seq(Steps)
  BY <1>4, ProgramIs
<1>6. c \in Procs /\ c \notin Workers
  BY MonolithAssumption DEF Procs
<1>7. Rest(P, P)
  BY <1>5, WholeRest
<1> HIDE DEF r
<1>8. ProgramFits(c, r, P)
  BY <1>4, <1>6, <1>7 DEF ProgramFits
<1> HIDE DEF P
<1>9. pending' \in [Callers -> Seq(Request)] /\ banned' \in [Callers -> SUBSET Posts]
  BY <1>1, <1>2, <1>4
<1>10. ASSUME NEW q \in Procs PROVE ReadFits(got'[q], todo'[q], store')
  <2>1. CASE q = c
    <3>1. got'[q] = NoRead
      BY <1>2, <1>6, <2>1, IdleIs
    <3>2. QED BY <3>1, NoReadFits
  <2>2. CASE q # c
    <3>1. todo'[q] = todo[q] /\ got'[q] = got[q] /\ store' = store
      BY <1>1, <1>2, <2>2
    <3>2. QED BY <3>1 DEF StoreInv, Reads
  <2>3. QED BY <2>1, <2>2
<1>11. DOMAIN served' = Callers
  BY <1>1, <1>2
<1>12. QED BY <1>1, <1>2, <1>4, <1>5, <1>6, <1>8, <1>9, <1>10, <1>11, Frame

LEMMA TakeKeeps ==
    ASSUME StoreInv, NEW w \in Workers, Take(w) PROVE StoreInv'
<1> DEFINE r == Head(queue)
           P == JobProgram(r)
<1>1. /\ DOMAIN store = Keys
      /\ \A k \in Keys : store[k] = Missing \/ store[k] \in Seq(Held(k))
      /\ pending \in [Callers -> Seq(Request)]
      /\ todo \in [Procs -> Seq(Steps)] /\ got \in [Procs -> Read] /\ queue \in Seq(Job)
      /\ removed \subseteq Posts /\ banned \in [Callers -> SUBSET Posts]
      /\ DOMAIN served = Callers
  BY DEF StoreInv, Typed
<1>2. /\ ~Busy(w) /\ queue # <<>> /\ queue' = Tail(queue)
      /\ now' = [now EXCEPT ![w] = r] /\ todo' = [todo EXCEPT ![w] = P]
      /\ UNCHANGED <<store, pending, got, removed, banned, served>>
  BY DEF Take, Begin
<1>3. r \in Job /\ queue' \in Seq(Job)
  BY <1>1, <1>2, ListFacts
<1>4. P \in Seq(Steps) /\ r \in Request
  BY <1>3, JobIs DEF Job, Request
<1>5. w \in Procs /\ w \notin Callers
  BY MonolithAssumption DEF Procs
<1>6. Rest(P, P)
  BY <1>4, WholeRest
<1> HIDE DEF r
<1>7. ProgramFits(w, r, P)
  BY <1>3, <1>5, <1>6 DEF ProgramFits
<1> HIDE DEF P
<1>8. ASSUME NEW q \in Procs PROVE ReadFits(got'[q], todo'[q], store')
  <2>1. CASE q = w
    <3>1. got'[q] = NoRead
      BY <1>2, <1>5, <2>1, IdleIs
    <3>2. QED BY <3>1, NoReadFits
  <2>2. CASE q # w
    <3>1. todo'[q] = todo[q] /\ got'[q] = got[q] /\ store' = store
      BY <1>1, <1>2, <2>2
    <3>2. QED BY <3>1 DEF StoreInv, Reads
  <2>3. QED BY <2>1, <2>2
<1>9. QED BY <1>1, <1>2, <1>3, <1>4, <1>5, <1>7, <1>8, Frame

\* A finite set can be listed.
LEMMA ListOf ==
    ASSUME NEW S, IsFiniteSet(S)
    PROVE  SetToSeq(S) \in Seq(S) /\ ToSet(SetToSeq(S)) = S
<1> DEFINE n == Cardinality(S)
<1>1. n \in Nat /\ ExistsBijection(1..n, S)
  BY FS_CardinalityType
<1> HIDE DEF n
<1>2. \E f \in [1..n -> S] : IsInjective(f)
  BY <1>1 DEF ExistsBijection, Bijection, Injection, IsInjective
<1> DEFINE f == SetToSeq(S)
<1>3. f = CHOOSE g \in [1..n -> S] : IsInjective(g)
  BY DEF SetToSeq, n
<1> HIDE DEF f
<1>4. f \in [1..n -> S] /\ IsInjective(f)
  BY <1>2, <1>3
<1>5. f \in Injection(1..n, S)
  BY <1>4 DEF Injection, IsInjective
<1>6. Cardinality(1..n) = n
  BY <1>1, FS_Interval
<1>7. f \in Surjection(1..n, S)
  BY <1>5, <1>6, FS_Injection DEF n
<1>8. \A x \in S : \E i \in 1..n : f[i] = x
  BY <1>7 DEF Surjection
<1>9. f \in Seq(S) /\ DOMAIN f = 1..n
  BY <1>1, <1>4, Listing
<1>10. ToSet(f) = S
  BY <1>4, <1>8, <1>9 DEF ToSet
<1>11. QED BY <1>9, <1>10 DEF f

\* Whom u follows, and who follows v, at the start.
Chosen(u) == {f \in Friends : f[1] = u}
Choosing(v) == {f \in Friends : f[2] = v}

LEMMA FriendLists ==
    ASSUME NEW u \in Users
    PROVE  /\ SetToSeq({f[2] : f \in Chosen(u)}) \in Seq(Users)
           /\ ToSet(SetToSeq({f[2] : f \in Chosen(u)})) = {f[2] : f \in Chosen(u)}
           /\ SetToSeq({f[1] : f \in Choosing(u)}) \in Seq(Users)
           /\ ToSet(SetToSeq({f[1] : f \in Choosing(u)})) = {f[1] : f \in Choosing(u)}
<1>1. Friends \subseteq Users \X Users /\ IsFiniteSet(Friends)
  BY MonolithAssumption
<1>2. IsFiniteSet(Chosen(u)) /\ IsFiniteSet(Choosing(u))
  <2>1. Chosen(u) \in SUBSET Friends /\ Choosing(u) \in SUBSET Friends
    BY DEF Chosen, Choosing
  <2>2. QED BY <1>1, <2>1, FS_Subset
<1> DEFINE S == {f[2] : f \in Chosen(u)}
           T == {f[1] : f \in Choosing(u)}
<1>3. S \subseteq Users /\ T \subseteq Users
  BY <1>1 DEF Chosen, Choosing
<1>4. IsFiniteSet(S)
  <2>1. [f \in Chosen(u) |-> f[2]] \in Surjection(Chosen(u), S)
    BY DEF Surjection
  <2>2. QED BY <1>2, <2>1, FS_Surjection
<1>5. IsFiniteSet(T)
  <2>1. [f \in Choosing(u) |-> f[1]] \in Surjection(Choosing(u), T)
    BY DEF Surjection
  <2>2. QED BY <1>2, <2>1, FS_Surjection
<1> HIDE DEF S, T
<1>6. /\ SetToSeq(S) \in Seq(S) /\ ToSet(SetToSeq(S)) = S
      /\ SetToSeq(T) \in Seq(T) /\ ToSet(SetToSeq(T)) = T
  BY <1>4, <1>5, ListOf
<1>7. SetToSeq(S) \in Seq(Users) /\ SetToSeq(T) \in Seq(Users)
  BY <1>3, <1>6, Wider
<1>8. QED BY <1>6, <1>7 DEF S, T

LEMMA StoreAtStart ==
    ASSUME Init
    PROVE  /\ \A u \in Users :
                 /\ store[<<"followees", u>>] = IF Chosen(u) # {}
                       THEN SetToSeq({f[2] : f \in Chosen(u)}) ELSE Missing
                 /\ store[<<"followers", u>>] = IF Choosing(u) # {}
                       THEN SetToSeq({f[1] : f \in Choosing(u)}) ELSE Missing
           /\ \A k \in Keys \ FollowKeys : store[k] = Missing
<1>0. Friends \subseteq Users \X Users
  BY MonolithAssumption
<1>1. ASSUME NEW k \in Keys
      PROVE  store[k] = LET mine == {f \in Friends : k = <<"followees", f[1]>>}
                            theirs == {f \in Friends : k = <<"followers", f[2]>>}
                        IN  IF mine # {} THEN SetToSeq({f[2] : f \in mine})
                            ELSE IF theirs # {} THEN SetToSeq({f[1] : f \in theirs})
                            ELSE Missing
  BY DEF Init
<1>2. \A k \in Keys \ FollowKeys :
          /\ {f \in Friends : k = <<"followees", f[1]>>} = {}
          /\ {f \in Friends : k = <<"followers", f[2]>>} = {}
  BY <1>0 DEF FollowKeys
<1>3. ASSUME NEW u \in Users
      PROVE  /\ store[<<"followees", u>>] = IF Chosen(u) # {}
                   THEN SetToSeq({f[2] : f \in Chosen(u)}) ELSE Missing
             /\ store[<<"followers", u>>] = IF Choosing(u) # {}
                   THEN SetToSeq({f[1] : f \in Choosing(u)}) ELSE Missing
  <2>1. <<"followees", u>> \in Keys /\ <<"followers", u>> \in Keys
    BY DEF Keys
  <2>2. /\ {f \in Friends : <<"followees", u>> = <<"followees", f[1]>>} = Chosen(u)
        /\ {f \in Friends : <<"followees", u>> = <<"followers", f[2]>>} = {}
        /\ {f \in Friends : <<"followers", u>> = <<"followees", f[1]>>} = {}
        /\ {f \in Friends : <<"followers", u>> = <<"followers", f[2]>>} = Choosing(u)
    BY DEF Chosen, Choosing
  <2>3. store[<<"followees", u>>] = IF Chosen(u) # {}
            THEN SetToSeq({f[2] : f \in Chosen(u)}) ELSE Missing
    BY <1>1, <2>1, <2>2
  <2>4. store[<<"followers", u>>] = IF Choosing(u) # {}
            THEN SetToSeq({f[1] : f \in Choosing(u)}) ELSE Missing
    BY <1>1, <2>1, <2>2
  <2>5. QED BY <2>3, <2>4
<1>4. \A k \in Keys \ FollowKeys : store[k] = Missing
  BY <1>1, <1>2
<1>5. QED BY <1>3, <1>4

LEMMA StoreInit == Init => StoreInv
<1> SUFFICES ASSUME Init PROVE StoreInv
  OBVIOUS
<1>1. ASSUME NEW k \in Keys PROVE store[k] = Missing \/ store[k] \in Seq(Held(k))
  <2>1. CASE k \notin FollowKeys
    BY <2>1, StoreAtStart
  <2>2. CASE k \in FollowKeys
    <3>1. PICK u \in Users : k = <<"followees", u>> \/ k = <<"followers", u>>
      BY <2>2 DEF FollowKeys
    <3>2. Held(k) = Users
      BY <2>2 DEF Held, FollowKeys, Timelines, Creds
    <3>3. store[k] = Missing \/ store[k] \in Seq(Users)
      BY <3>1, StoreAtStart, FriendLists
    <3>4. QED BY <3>2, <3>3
  <2>3. QED BY <2>1, <2>2
<1>2. DOMAIN store = Keys
  BY DEF Init
<1>3. pending \in [Callers -> Seq(Request)]
  BY MonolithAssumption DEF Init
<1>4. <<>> \in Seq(Steps) /\ <<>> \in Seq(Job)
  OBVIOUS
<1>5. Typed
  BY <1>1, <1>2, <1>3, <1>4, NoReadFits DEF Init, Typed
<1>6. Programs
  BY DEF Init, Programs, ProgramFits
<1>7. Reads
  BY NoReadFits DEF Init, Reads
<1>8. QED BY <1>5, <1>6, <1>7 DEF StoreInv

LEMMA StoreNext == StoreInv /\ [Next]_vars => StoreInv'
<1> SUFFICES ASSUME StoreInv, [Next]_vars PROVE StoreInv'
  OBVIOUS
<1>1. CASE vars' = vars
  <2>1. UNCHANGED <<store, pending, now, todo, got, queue, removed, banned, served>>
    BY <1>1 DEF vars
  <2>2. QED BY <2>1 DEF StoreInv, Typed, Programs, Reads
<1>2. ASSUME NEW c \in Callers, Call(c) PROVE StoreInv'
  BY <1>2, CallKeeps
<1>3. ASSUME NEW w \in Workers, Take(w) PROVE StoreInv'
  BY <1>3, TakeKeeps
<1>4. ASSUME NEW p \in Procs, Run(p) PROVE StoreInv'
  BY <1>4, RunKeeps
<1>5. QED BY <1>1, <1>2, <1>3, <1>4 DEF Next

THEOREM StoreHolds == Spec => []StoreInv
<1>1. QED BY StoreInit, StoreNext, PTL DEF Spec

-----------------------------------------------------------------------------
(* What was acknowledged stays.                                              *)

Survives ==
    /\ \A a \in acked : a = <<a[1], a[2]>> /\ a[1] \in Keys
    /\ AcceptedSurvives

LEMMA NotMissing ==
    ASSUME NEW k \in Keys, NEW list \in Seq(Held(k))
    PROVE  list # Missing
BY MonolithAssumption DEF Held

\* Only three steps write to the store.
LEMMA Writers ==
    ASSUME NEW p \in Procs, Run(p)
    PROVE  \/ Save(p) \/ Store(p) \/ Delete(p)
           \/ UNCHANGED <<store, acked, blind>>
BY DEF Run, Get, NoChange, Retry, GiveUp, Confirm, Check, Enqueue, Fanout, ReadTimeline,
       ReadPost, Fault, history

LEMMA SurvivesSave ==
    ASSUME StoreInv, Survives, NEW p \in Procs, Save(p) PROVE Survives'
<1> DEFINE s == Step(p)
           k == Step(p).key
           list == got[p].list
           new == Edited(s.edit, list, s.arg)
           dropped == ToSet(Append(list, s.arg)) \ ToSet(new)
<1>1. /\ ToSave(p) /\ got[p].phase \in {"fresh", "noetag"}
      /\ store' = [store EXCEPT ![k] = new]
      /\ blind' = IF got[p].phase = "noetag" /\ store[k] # Missing THEN blind \cup {k} ELSE blind
      /\ acked' = (acked \ ({k} \X dropped)) \cup ({k} \X (ToSet(new) \cap {s.arg}))
  BY DEF Save, SaveAccepted, Write
<1>2. /\ k \in Keys /\ list \in Seq(Held(k)) /\ s.arg \in Held(k) /\ new \in Seq(Held(k))
      /\ got[p].phase = "fresh" => list = store[k]
  BY <1>1, SaveFacts
<1>3. new # Missing /\ DOMAIN store = Keys
  BY <1>2, NotMissing DEF StoreInv, Typed
<1>4. /\ \A x : Contains(new, x) <=> x \in ToSet(new)
      /\ \A x : Contains(list, x) <=> x \in ToSet(list)
      /\ ToSet(Append(list, s.arg)) = ToSet(list) \cup {s.arg}
  BY <1>2, Elements
<1> HIDE DEF s, k, list, new
<1>5. store'[k] = new /\ \A l \in Keys : l # k => store'[l] = store[l]
  BY <1>1, <1>2, <1>3
<1>6. ASSUME NEW a \in acked'
      PROVE  /\ a = <<a[1], a[2]>> /\ a[1] \in Keys
             /\ a[1] \in blind' \/ (store'[a[1]] # Missing /\ Contains(store'[a[1]], a[2]))
  <2>1. CASE a \in {k} \X (ToSet(new) \cap {s.arg})
    <3>1. a = <<a[1], a[2]>> /\ a[1] = k /\ a[2] \in ToSet(new)
      BY <2>1
    <3>2. QED BY <1>2, <1>3, <1>4, <1>5, <3>1
  <2>2. CASE a \notin {k} \X (ToSet(new) \cap {s.arg})
    <3>1. a \in acked /\ a \notin {k} \X dropped
      BY <1>1, <1>6, <2>2
    <3>2. /\ a = <<a[1], a[2]>> /\ a[1] \in Keys
          /\ a[1] \in blind \/ (store[a[1]] # Missing /\ Contains(store[a[1]], a[2]))
      BY <3>1 DEF Survives, AcceptedSurvives
    <3>3. blind \subseteq blind'
      BY <1>1
    <3>4. CASE a[1] # k
      BY <1>5, <3>2, <3>3, <3>4
    <3>5. CASE a[1] = k
      <4>1. a[2] \notin dropped
        BY <3>1, <3>2, <3>5
      <4>2. CASE a[1] \in blind
        BY <3>2, <3>3, <4>2
      <4>3. CASE a[1] \notin blind /\ got[p].phase = "noetag"
        BY <1>1, <3>2, <3>5, <4>3
      <4>4. CASE a[1] \notin blind /\ got[p].phase = "fresh"
        <5>1. a[2] \in ToSet(list)
          BY <1>2, <1>4, <3>2, <3>5, <4>4
        <5>2. a[2] \in ToSet(new)
          BY <1>4, <4>1, <5>1
        <5>3. QED BY <1>3, <1>4, <1>5, <3>2, <3>5, <5>2
      <4>5. QED BY <1>1, <4>2, <4>3, <4>4
    <3>6. QED BY <3>4, <3>5
  <2>3. QED BY <2>1, <2>2
<1>7. QED BY <1>6 DEF Survives, AcceptedSurvives

LEMMA SurvivesStore ==
    ASSUME StoreInv, Survives, NEW p \in Procs, Store(p) PROVE Survives'
<1> DEFINE k == Step(p).key
           new == Step(p).arg
<1>1. /\ Busy(p) /\ Step(p).kind = "put"
      /\ store' = [store EXCEPT ![k] = new]
      /\ blind' = IF store[k] # Missing THEN blind \cup {k} ELSE blind
      /\ acked' = acked \cup ({k} \X ToSet(new))
  BY DEF Store, Write, At
<1>2. k \in Keys /\ new \in Seq(Held(k))
  BY <1>1, WhoDoes, PutKinds
<1>3. new # Missing /\ DOMAIN store = Keys
  BY <1>2, NotMissing DEF StoreInv, Typed
<1>4. \A x : Contains(new, x) <=> x \in ToSet(new)
  BY <1>2, Elements
<1> HIDE DEF k, new
<1>5. store'[k] = new /\ \A l \in Keys : l # k => store'[l] = store[l]
  BY <1>1, <1>2, <1>3
<1>6. ASSUME NEW a \in acked'
      PROVE  /\ a = <<a[1], a[2]>> /\ a[1] \in Keys
             /\ a[1] \in blind' \/ (store'[a[1]] # Missing /\ Contains(store'[a[1]], a[2]))
  <2>1. CASE a \in {k} \X ToSet(new)
    <3>1. a = <<a[1], a[2]>> /\ a[1] = k /\ a[2] \in ToSet(new)
      BY <2>1
    <3>2. QED BY <1>2, <1>3, <1>4, <1>5, <3>1
  <2>2. CASE a \in acked
    <3>1. /\ a = <<a[1], a[2]>> /\ a[1] \in Keys
          /\ a[1] \in blind \/ (store[a[1]] # Missing /\ Contains(store[a[1]], a[2]))
      BY <2>2 DEF Survives, AcceptedSurvives
    <3>2. QED BY <1>1, <1>5, <3>1
  <2>3. QED BY <1>1, <1>6, <2>1, <2>2
<1>7. QED BY <1>6 DEF Survives, AcceptedSurvives

LEMMA SurvivesDelete ==
    ASSUME StoreInv, Survives, NEW p \in Procs, Delete(p) PROVE Survives'
<1> DEFINE k == Step(p).key
<1>1. /\ store' = [store EXCEPT ![k] = Missing] /\ blind' = blind
      /\ acked' = {a \in acked : a[1] # k}
  BY DEF Delete, Write
<1> HIDE DEF k
<1>2. DOMAIN store = Keys
  BY DEF StoreInv, Typed
<1>3. ASSUME NEW a \in acked'
      PROVE  /\ a = <<a[1], a[2]>> /\ a[1] \in Keys
             /\ a[1] \in blind' \/ (store'[a[1]] # Missing /\ Contains(store'[a[1]], a[2]))
  <2>1. a \in acked /\ a[1] # k
    BY <1>1, <1>3
  <2>2. /\ a = <<a[1], a[2]>> /\ a[1] \in Keys
        /\ a[1] \in blind \/ (store[a[1]] # Missing /\ Contains(store[a[1]], a[2]))
    BY <2>1 DEF Survives, AcceptedSurvives
  <2>3. store'[a[1]] = store[a[1]]
    BY <1>1, <1>2, <2>1, <2>2
  <2>4. QED BY <1>1, <2>2, <2>3
<1>4. QED BY <1>3 DEF Survives, AcceptedSurvives

(* AcceptedSurvives holds for every number of processes and requests: an    *)
(* element whose save was accepted is there until a step means to remove    *)
(* it, unless its list was overwritten without an ETag.                     *)
THEOREM SavesSurvive == Spec => []AcceptedSurvives
<1>1. Init => Survives
  BY DEF Init, Survives, AcceptedSurvives
<1>2. StoreInv /\ Survives /\ [Next]_vars => Survives'
  <2> SUFFICES ASSUME StoreInv, Survives, [Next]_vars PROVE Survives'
    OBVIOUS
  <2>1. CASE UNCHANGED <<store, acked, blind>>
    BY <2>1 DEF Survives, AcceptedSurvives
  <2>2. CASE vars' = vars
    BY <2>1, <2>2 DEF vars
  <2>3. ASSUME NEW c \in Callers, Call(c) PROVE Survives'
    BY <2>1, <2>3 DEF Call
  <2>4. ASSUME NEW w \in Workers, Take(w) PROVE Survives'
    BY <2>1, <2>4 DEF Take
  <2>5. ASSUME NEW p \in Procs, Run(p) PROVE Survives'
    BY <2>1, <2>5, Writers, SurvivesSave, SurvivesStore, SurvivesDelete
  <2>6. QED BY <2>2, <2>3, <2>4, <2>5 DEF Next
<1>3. Survives => AcceptedSurvives
  BY DEF Survives
<1>4. QED BY <1>1, <1>2, <1>3, StoreHolds, PTL DEF Spec

-----------------------------------------------------------------------------
(* Posts are saved before anything else happens to them.                     *)

\* q is about the post that r saves.
About(r, q) == r.op = "save" /\ q.op \in {"save", "delete"} /\ r.on = q.on

OwnInv ==
    /\ OwnPosts(pending)
    /\ \A c, d \in Callers : Busy(c) => \A j \in DOMAIN pending[d] :
          /\ About(now[c], pending[d][j]) => c = d /\ now[c].user = pending[d][j].user
          /\ ~About(pending[d][j], now[c])
    /\ \A c, d \in Callers : (Busy(c) /\ Busy(d) /\ About(now[c], now[d])) => c = d

\* What a step of p leaves alone.
LEMMA RunFrame ==
    ASSUME StoreInv, NEW p \in Procs, Run(p)
    PROVE  /\ Busy(p) /\ pending' = pending /\ now' = now /\ banned' = banned
           /\ \A q \in Procs \ {p} : todo'[q] = todo[q]
           /\ \A q \in Procs : Busy(q)' => Busy(q)
           /\ disturbed \subseteq disturbed' /\ blind \subseteq blind'
           /\ Enqueue(p) \/ (queue' = queue /\ removed' = removed)
           /\ ReadPost(p) \/ served' = served
<1>1. todo \in [Procs -> Seq(Steps)]
  BY DEF StoreInv, Typed
<1>2. Busy(p)
  BY DEF Run, Get, NoChange, Save, Retry, GiveUp, Confirm, Store, Delete, Check, Enqueue,
         Fanout, ReadTimeline, ReadPost, Fault, ToSave, HasRead, At
<1>3. /\ pending' = pending /\ now' = now /\ banned' = banned
      /\ Enqueue(p) \/ (queue' = queue /\ removed' = removed)
      /\ ReadPost(p) \/ served' = served
  BY DEF Run, Get, NoChange, Save, Retry, GiveUp, Confirm, Store, Delete, Check, Enqueue,
         Fanout, ReadTimeline, ReadPost, Fault, history
<1>4. disturbed \subseteq disturbed' /\ blind \subseteq blind'
  BY DEF Run, Get, NoChange, Save, Retry, GiveUp, Confirm, Store, Delete, Check, Enqueue,
         Fanout, ReadTimeline, ReadPost, Fault, history, Fail
<1>5. ASSUME NEW q \in Procs \ {p} PROVE todo'[q] = todo[q]
  BY <1>1, <1>5 DEF Run, Get, NoChange, Save, Retry, GiveUp, Confirm, Store, Delete, Check,
         Enqueue, Fanout, ReadTimeline, ReadPost, Fault, history, Fail, Proceed, SavedStep
<1>6. \A q \in Procs : Busy(q)' => Busy(q)
  BY <1>2, <1>5 DEF Busy
<1>7. QED BY <1>2, <1>3, <1>4, <1>5, <1>6

\* A call takes the first request that waits.
LEMMA CallIs ==
    ASSUME StoreInv, NEW c \in Callers, Call(c)
    PROVE  /\ ~Busy(c) /\ now'[c] = pending[c][1] /\ 1 \in DOMAIN pending[c]
           /\ \A d \in Callers \ {c} : pending'[d] = pending[d]
           /\ \A q \in Procs \ {c} : now'[q] = now[q] /\ todo'[q] = todo[q]
           /\ \A j \in DOMAIN pending'[c] :
                 /\ pending'[c][j] = pending[c][j + 1] /\ j + 1 \in DOMAIN pending[c]
                 /\ j \in Nat \ {0}
           /\ UNCHANGED <<store, queue, removed, acked, blind>>
           /\ banned' = [banned EXCEPT ![c] = removed] /\ served' = [served EXCEPT ![c] = {}]
           /\ disturbed \subseteq disturbed'
<1>1. /\ ~Busy(c) /\ pending[c] # <<>> /\ now' = [now EXCEPT ![c] = Head(pending[c])]
      /\ pending' = [pending EXCEPT ![c] = Tail(@)]
      /\ todo' = [todo EXCEPT ![c] = Program(c, Head(pending[c]))]
      /\ UNCHANGED <<store, queue, removed, acked, blind>>
      /\ banned' = [banned EXCEPT ![c] = removed] /\ served' = [served EXCEPT ![c] = {}]
      /\ disturbed \subseteq disturbed'
  BY DEF Call, Begin
<1>2. /\ pending \in [Callers -> Seq(Request)] /\ DOMAIN now = Procs /\ DOMAIN todo = Procs
      /\ c \in Procs
  BY DEF StoreInv, Typed, Procs
<1> DEFINE l == pending[c]
<1>3. /\ Head(l) = l[1] /\ 1 \in 1..Len(l)
      /\ \A i \in 1..Len(Tail(l)) : Tail(l)[i] = l[i + 1] /\ i + 1 \in 1..Len(l)
      /\ DOMAIN l = 1..Len(l) /\ DOMAIN Tail(l) = 1..Len(Tail(l))
  BY <1>1, <1>2, ListFacts
<1>4. /\ pending'[c] = Tail(l) /\ now'[c] = Head(l)
      /\ \A d \in Callers \ {c} : pending'[d] = pending[d]
      /\ \A q \in Procs \ {c} : now'[q] = now[q] /\ todo'[q] = todo[q]
  BY <1>1, <1>2
<1> DEFINE m == Tail(l)
<1>5. \A j \in DOMAIN m : /\ m[j] = l[j + 1] /\ j + 1 \in DOMAIN l
                         /\ j \in Nat \ {0}
  <2> HIDE DEF l, m
  <2> QED BY <1>3 DEF m
<1>6. \A j \in DOMAIN pending'[c] :
         /\ pending'[c][j] = pending[c][j + 1] /\ j + 1 \in DOMAIN pending[c]
         /\ j \in Nat \ {0}
  <2> HIDE DEF m
  <2> QED BY <1>4, <1>5 DEF m
<1>7. now'[c] = pending[c][1] /\ 1 \in DOMAIN pending[c]
  <2> HIDE DEF m
  <2> QED BY <1>3, <1>4
<1> HIDE DEF l, m
<1>8. QED BY <1>1, <1>4, <1>6, <1>7

LEMMA TakeIs ==
    ASSUME StoreInv, NEW w \in Workers, Take(w)
    PROVE  /\ ~Busy(w) /\ now'[w] = queue[1] /\ 1 \in DOMAIN queue
           /\ \A q \in Procs \ {w} : now'[q] = now[q] /\ todo'[q] = todo[q]
           /\ \A j \in DOMAIN queue' :
                 queue'[j] = queue[j + 1] /\ j + 1 \in DOMAIN queue /\ j \in Nat \ {0}
           /\ UNCHANGED <<store, pending, removed, acked, blind, banned, served>>
           /\ disturbed \subseteq disturbed'
<1>1. /\ ~Busy(w) /\ queue # <<>> /\ now' = [now EXCEPT ![w] = Head(queue)]
      /\ queue' = Tail(queue)
      /\ todo' = [todo EXCEPT ![w] = JobProgram(Head(queue))]
      /\ UNCHANGED <<store, pending, removed, acked, blind, banned, served>>
      /\ disturbed \subseteq disturbed'
  BY DEF Take, Begin
<1>2. queue \in Seq(Job) /\ DOMAIN now = Procs /\ DOMAIN todo = Procs /\ w \in Procs
  BY DEF StoreInv, Typed, Procs
<1>3. /\ Head(queue) = queue[1] /\ 1 \in 1..Len(queue)
      /\ \A i \in 1..Len(Tail(queue)) : Tail(queue)[i] = queue[i + 1] /\ i + 1 \in 1..Len(queue)
      /\ DOMAIN queue = 1..Len(queue) /\ DOMAIN Tail(queue) = 1..Len(Tail(queue))
  BY <1>1, <1>2, ListFacts
<1>4. /\ now'[w] = Head(queue)
      /\ \A q \in Procs \ {w} : now'[q] = now[q] /\ todo'[q] = todo[q]
  BY <1>1, <1>2
<1>5. QED BY <1>1, <1>3, <1>4

LEMMA OwnCall ==
    ASSUME StoreInv, OwnInv, NEW c \in Callers, Call(c) PROVE OwnInv'
<1> USE DEF About
<1>1. /\ ~Busy(c) /\ now'[c] = pending[c][1] /\ 1 \in DOMAIN pending[c]
      /\ \A d \in Callers \ {c} : pending'[d] = pending[d] /\ now'[d] = now[d]
                                  /\ todo'[d] = todo[d]
      /\ \A j \in DOMAIN pending'[c] :
            /\ pending'[c][j] = pending[c][j + 1] /\ j + 1 \in DOMAIN pending[c]
            /\ j \in Nat \ {0}
  BY CallIs DEF Procs
<1>2. \A d \in Callers : DOMAIN pending[d] \subseteq Nat /\ DOMAIN pending'[d] \subseteq Nat
  <2>1. StoreInv'
    BY CallKeeps
  <2>2. QED BY <2>1 DEF StoreInv, Typed
<1>3. \A d \in Callers \ {c} : Busy(d)' <=> Busy(d)
  BY <1>1 DEF Busy
<1>4. OwnPosts(pending)'
  <2>1. ASSUME NEW a \in Callers, NEW b \in Callers,
               NEW i \in DOMAIN pending'[a], NEW j \in DOMAIN pending'[b],
               About(pending'[a][i], pending'[b][j])
        PROVE  a = b /\ i <= j /\ pending'[a][i].user = pending'[b][j].user
    <3> DEFINE m == IF a = c THEN i + 1 ELSE i
               n == IF b = c THEN j + 1 ELSE j
    <3>1. /\ pending'[a][i] = pending[a][m] /\ m \in DOMAIN pending[a]
          /\ pending'[b][j] = pending[b][n] /\ n \in DOMAIN pending[b]
      BY <1>1
    <3>2. i \in Nat /\ j \in Nat
      BY <1>2
    <3> HIDE DEF m, n
    <3>3. a = b /\ m <= n /\ pending[a][m].user = pending[b][n].user
      BY <2>1, <3>1 DEF OwnInv, OwnPosts
    <3>4. i <= j
      BY <3>2, <3>3 DEF m, n
    <3>5. QED BY <3>1, <3>3, <3>4
  <2>2. QED BY <2>1 DEF OwnPosts
<1>5. ASSUME NEW a \in Callers, NEW d \in Callers, Busy(a)', NEW j \in DOMAIN pending'[d]
      PROVE  /\ About(now'[a], pending'[d][j]) => a = d /\ now'[a].user = pending'[d][j].user
             /\ ~About(pending'[d][j], now'[a])
  <2> DEFINE n == IF d = c THEN j + 1 ELSE j
  <2>1. pending'[d][j] = pending[d][n] /\ n \in DOMAIN pending[d] /\ j \in Nat
    BY <1>1, <1>2
  <2>2. CASE a # c
    <3> HIDE DEF n
    <3>1. now'[a] = now[a] /\ Busy(a)
      BY <1>1, <1>3, <1>5, <2>2
    <3>2. QED BY <2>1, <3>1 DEF OwnInv
  <2>3. CASE a = c
    <3>1. now'[a] = pending[c][1] /\ 1 \in DOMAIN pending[c]
      BY <1>1, <2>3
    <3>2. About(pending[c][1], pending[d][n]) => c = d /\ pending[c][1].user = pending[d][n].user
      BY <2>1, <3>1 DEF OwnInv, OwnPosts
    <3>3. About(pending[d][n], pending[c][1]) => d = c /\ n <= 1
      BY <2>1, <3>1 DEF OwnInv, OwnPosts
    <3>4. d = c => ~(n <= 1)
      BY <1>1
    <3> HIDE DEF n
    <3>5. QED BY <2>1, <2>3, <3>1, <3>2, <3>3, <3>4
  <2>4. QED BY <2>2, <2>3
<1>6. ASSUME NEW a \in Callers, NEW d \in Callers, Busy(a)', Busy(d)', About(now'[a], now'[d])
      PROVE  a = d
  <2>1. CASE a # c /\ d # c
    BY <1>1, <1>3, <1>6, <2>1 DEF OwnInv
  <2>2. CASE a # c /\ d = c
    BY <1>1, <1>3, <1>6, <2>2 DEF OwnInv
  <2>3. CASE a = c /\ d # c
    BY <1>1, <1>3, <1>6, <2>3 DEF OwnInv
  <2>4. QED BY <2>1, <2>2, <2>3
<1>7. QED BY <1>4, <1>5, <1>6 DEF OwnInv

LEMMA OwnRun ==
    ASSUME StoreInv, OwnInv, NEW p \in Procs, Run(p) PROVE OwnInv'
<1>1. pending' = pending /\ now' = now /\ \A q \in Callers : Busy(q)' => Busy(q)
  BY RunFrame DEF Procs
<1>2. QED BY <1>1 DEF OwnInv, OwnPosts

LEMMA OwnTake ==
    ASSUME StoreInv, OwnInv, NEW w \in Workers, Take(w) PROVE OwnInv'
<1>1. w \notin Callers
  BY MonolithAssumption
<1>2. pending' = pending /\ \A q \in Callers : now'[q] = now[q] /\ (Busy(q)' => Busy(q))
  BY <1>1, TakeIs DEF Procs, Busy
<1>3. QED BY <1>2 DEF OwnInv, OwnPosts

\* Where a request or job is: not sent yet, with a handler, in the channel,
\* with a worker.
Waiting(r) == \E c \in Callers : \E i \in DOMAIN pending[c] : pending[c][i] = r
Handled(r) == \E c \in Callers : Busy(c) /\ now[c] = r
Queued(j)  == \E i \in DOMAIN queue : queue[i] = j
Worked(j)  == \E w \in Workers : Busy(w) /\ now[w] = j

\* The job that saves a post enters the channel before one that deletes it,
\* and leaves it first; workers on jobs of one post disturb each other.
JobsInv ==
    /\ \A r \in Job : (r.op = "save" /\ (Waiting(r) \/ Handled(r))) =>
          /\ r.on \notin removed
          /\ \A q \in Job : q.on = r.on => ~Queued(q) /\ ~Worked(q)
    /\ \A i, k \in DOMAIN queue :
          (queue[i].op = "save" /\ queue[k].op = "delete" /\ queue[i].on = queue[k].on)
              => i < k
    /\ \A j, q \in Job :
          (j.op = "delete" /\ q.op = "save" /\ j.on = q.on /\ Worked(j)) => ~Queued(q)
    /\ \A w, x \in Workers :
          (w # x /\ Busy(w) /\ Busy(x) /\ now[w].on = now[x].on)
              => <<"job", now[w].on>> \in disturbed

LEMMA Subjects ==
    /\ \A w \in Workers : now[w] \in Job => Subject(w) = <<"job", now[w].on>>
    /\ \A c \in Callers : now[c].op \in {"save", "delete"} => Subject(c) = <<"call", now[c].on>>
<1>1. Callers \cap Workers = {}
  BY MonolithAssumption
<1>2. ASSUME NEW w \in Workers, now[w] \in Job
      PROVE  Subject(w) = <<"job", now[w].on>>
  <2>1. now[w].op \notin {"follow", "unfollow"} /\ now[w].op # "register"
    BY <1>2 DEF Job
  <2>2. w \notin Callers
    BY <1>1
  <2>3. QED BY <2>1, <2>2 DEF Subject
<1>3. ASSUME NEW c \in Callers, now[c].op \in {"save", "delete"}
      PROVE  Subject(c) = <<"call", now[c].on>>
  <2>1. /\ now[c].op \notin {"follow", "unfollow"} /\ now[c].op # "register"
        /\ c \notin Workers
    BY <1>1, <1>3
  <2>2. QED BY <1>3, <2>1 DEF Subject
<1>4. QED BY <1>2, <1>3

LEMMA EnqueueIs ==
    ASSUME StoreInv, NEW c \in Procs, Enqueue(c)
    PROVE  /\ c \in Callers /\ Busy(c) /\ now[c] \in Job /\ ~Busy(c)'
           /\ pending' = pending /\ now' = now /\ store' = store
           /\ \A q \in Procs : Busy(q)' => Busy(q)
           /\ queue' = Append(queue, now[c]) /\ queue \in Seq(Job)
           /\ UNCHANGED <<blind, disturbed, banned, served>>
           /\ removed' = IF now[c].op = "delete" /\ Subject(c) \notin disturbed
                         THEN removed \cup {now[c].on} ELSE removed
<1>1. /\ Busy(c) /\ Step(c).kind = "send" /\ queue' = Append(queue, now[c])
      /\ Proceed(c, <<>>)
      /\ UNCHANGED <<store, pending, now, blind, disturbed, banned, served>>
      /\ removed' = IF now[c].op = "delete" /\ Subject(c) \notin disturbed
                    THEN removed \cup {now[c].on} ELSE removed
  BY DEF Enqueue, At
<1>2. c \in Callers /\ now[c].op \in {"save", "delete"} /\ Len(todo[c]) = 1
  BY <1>1, WhoDoes
<1>3. /\ now[c] \in Request /\ todo[c] \in Seq(Steps) /\ queue \in Seq(Job)
      /\ DOMAIN todo = Procs
  BY <1>1, <1>2, StepIs DEF StoreInv, Typed
<1>4. now[c] \in Job
  BY <1>2, <1>3 DEF Request, Job
<1>5. Tail(todo[c]) = <<>>
  BY <1>2, <1>3, EmptyTail
<1>6. todo'[c] = <<>>
  BY <1>1, <1>3, <1>5 DEF Proceed
<1>7. \A q \in Procs : Busy(q)' => Busy(q)
  BY <1>1, <1>3 DEF Proceed, Busy
<1>8. QED BY <1>1, <1>2, <1>3, <1>4, <1>6, <1>7 DEF Busy

LEMMA JobsRun ==
    ASSUME StoreInv, JobsInv, NEW p \in Procs, Run(p), ~Enqueue(p) PROVE JobsInv'
<1>1. /\ pending' = pending /\ now' = now /\ queue' = queue /\ removed' = removed
      /\ disturbed \subseteq disturbed'
      /\ \A q \in Callers \cup Workers : Busy(q)' => Busy(q)
  BY RunFrame DEF Procs
<1>2. \A r : /\ Waiting(r)' => Waiting(r)
             /\ Handled(r)' => Handled(r)
             /\ Queued(r)' => Queued(r)
             /\ Worked(r)' => Worked(r)
  BY <1>1 DEF Waiting, Handled, Queued, Worked
<1>3. QED BY <1>1, <1>2 DEF JobsInv

LEMMA JobsCall ==
    ASSUME StoreInv, JobsInv, NEW c \in Callers, Call(c) PROVE JobsInv'
<1>1. c \notin Workers
  BY MonolithAssumption
<1>2. /\ now'[c] = pending[c][1] /\ 1 \in DOMAIN pending[c]
      /\ \A d \in Callers \ {c} : pending'[d] = pending[d]
      /\ \A q \in Procs \ {c} : now'[q] = now[q] /\ todo'[q] = todo[q]
      /\ \A j \in DOMAIN pending'[c] :
            pending'[c][j] = pending[c][j + 1] /\ j + 1 \in DOMAIN pending[c]
      /\ queue' = queue /\ removed' = removed /\ disturbed \subseteq disturbed'
  BY CallIs
<1>3. \A w \in Workers : now'[w] = now[w] /\ (Busy(w)' <=> Busy(w))
  BY <1>1, <1>2 DEF Procs, Busy
<1>4. \A d \in Callers \ {c} : now'[d] = now[d] /\ (Busy(d)' <=> Busy(d))
  BY <1>2 DEF Procs, Busy
<1>5. ASSUME NEW r PROVE Waiting(r)' => Waiting(r)
  BY <1>2 DEF Waiting
<1>6. ASSUME NEW r PROVE Handled(r)' => Handled(r) \/ Waiting(r)
  BY <1>2, <1>4 DEF Handled, Waiting
<1>7. \A r : (Queued(r)' <=> Queued(r)) /\ (Worked(r)' <=> Worked(r))
  BY <1>2, <1>3 DEF Queued, Worked
<1>8. QED BY <1>2, <1>3, <1>5, <1>6, <1>7 DEF JobsInv

LEMMA JobsTake ==
    ASSUME StoreInv, JobsInv, NEW w \in Workers, Take(w) PROVE JobsInv'
<1>1. w \notin Callers /\ w \in Procs
  BY MonolithAssumption DEF Procs
<1>2. /\ ~Busy(w) /\ now'[w] = queue[1] /\ 1 \in DOMAIN queue
      /\ \A q \in Procs \ {w} : now'[q] = now[q] /\ todo'[q] = todo[q]
      /\ \A j \in DOMAIN queue' :
            queue'[j] = queue[j + 1] /\ j + 1 \in DOMAIN queue /\ j \in Nat \ {0}
      /\ pending' = pending /\ removed' = removed /\ disturbed \subseteq disturbed'
  BY TakeIs
<1>3. \A c \in Callers : now'[c] = now[c] /\ (Busy(c)' <=> Busy(c))
  BY <1>1, <1>2 DEF Procs, Busy
<1>4. \A x \in Workers \ {w} : now'[x] = now[x] /\ (Busy(x)' <=> Busy(x))
  BY <1>2 DEF Procs, Busy
<1>5. \A r : (Waiting(r)' <=> Waiting(r)) /\ (Handled(r)' <=> Handled(r))
  BY <1>2, <1>3 DEF Waiting, Handled
<1>6. ASSUME NEW r PROVE Queued(r)' => Queued(r)
  BY <1>2 DEF Queued
<1>7. ASSUME NEW r PROVE Worked(r)' => Worked(r) \/ r = queue[1]
  BY <1>2, <1>4 DEF Worked
<1>8. Queued(queue[1]) /\ queue[1] \in Job
  BY <1>2 DEF Queued, StoreInv, Typed
<1>9. ASSUME NEW r \in Job, r.op = "save", Waiting(r)' \/ Handled(r)'
      PROVE  /\ r.on \notin removed'
             /\ \A q \in Job : q.on = r.on => ~Queued(q)' /\ ~Worked(q)'
  BY <1>2, <1>5, <1>6, <1>7, <1>8, <1>9 DEF JobsInv
<1>10. ASSUME NEW i \in DOMAIN queue', NEW k \in DOMAIN queue',
              queue'[i].op = "save", queue'[k].op = "delete", queue'[i].on = queue'[k].on
       PROVE  i < k
  <2>1. i + 1 < k + 1
    BY <1>2, <1>10 DEF JobsInv
  <2>2. QED BY <1>2, <2>1
<1>11. ASSUME NEW j \in Job, NEW q \in Job, j.op = "delete", q.op = "save", j.on = q.on,
              Worked(j)', Queued(q)'
       PROVE  FALSE
  <2>1. CASE Worked(j)
    BY <1>6, <1>11, <2>1 DEF JobsInv
  <2>2. CASE j = queue[1]
    <3>1. PICK i \in DOMAIN queue' : queue'[i] = q
      BY <1>11 DEF Queued
    <3>2. i + 1 < 1
      BY <1>2, <1>11, <2>2, <3>1 DEF JobsInv
    <3>3. QED BY <1>2, <3>2
  <2>3. QED BY <1>7, <1>11, <2>1, <2>2
<1>12. ASSUME NEW x \in Workers, NEW y \in Workers, x # y, Busy(x)', Busy(y)',
              now'[x].on = now'[y].on
       PROVE  <<"job", now'[x].on>> \in disturbed'
  <2>1. CASE x # w /\ y # w
    BY <1>2, <1>4, <1>12, <2>1 DEF JobsInv
  <2>2. ASSUME NEW z \in Workers, z # w, Busy(z), now[z].on = now'[w].on
        PROVE  <<"job", now'[w].on>> \in disturbed'
    <3>1. Subject(w)' = <<"job", now'[w].on>>
      <4>1. now'[w].op \notin {"follow", "unfollow"} /\ now'[w].op # "register"
        BY <1>2, <1>8 DEF Job
      <4>2. QED BY <1>1, <4>1 DEF Subject
    <3>2. now[z] \in Job
      BY <2>2, StepIs DEF Procs
    <3>3. Subject(z) = <<"job", now[z].on>>
      BY <3>2, Subjects
    <3>4. z \in {q \in Procs \ {w} : Busy(q) /\ Subject(q) = Subject(w)'}
      BY <2>2, <3>1, <3>3 DEF Procs
    <3>5. disturbed' = disturbed \cup
             (IF {q \in Procs \ {w} : Busy(q) /\ Subject(q) = Subject(w)'} = {}
              THEN {} ELSE {Subject(w)'})
      BY DEF Take, Begin
    <3>6. QED BY <3>1, <3>4, <3>5
  <2>3. CASE x = w
    BY <1>4, <1>12, <2>2, <2>3
  <2>4. CASE y = w
    BY <1>4, <1>12, <2>2, <2>4
  <2>5. QED BY <2>1, <2>3, <2>4
<1>13. QED BY <1>9, <1>10, <1>11, <1>12 DEF JobsInv

LEMMA JobsEnqueue ==
    ASSUME StoreInv, OwnInv, JobsInv, NEW c \in Procs, Enqueue(c) PROVE JobsInv'
<1> DEFINE j == now[c]
           n == Len(queue)
<1>1. /\ c \in Callers /\ Busy(c) /\ j \in Job /\ ~Busy(c)'
      /\ pending' = pending /\ now' = now
      /\ \A q \in Callers \cup Workers : Busy(q)' => Busy(q)
      /\ queue' = Append(queue, j) /\ queue \in Seq(Job) /\ disturbed' = disturbed
      /\ removed' \subseteq removed \cup {j.on}
  BY EnqueueIs DEF Procs
<1>2. Handled(j)
  BY <1>1 DEF Handled
<1>3. /\ n \in Nat /\ DOMAIN queue = 1..n /\ DOMAIN queue' = 1..(n + 1)
      /\ queue'[n + 1] = j /\ \A i \in 1..n : queue'[i] = queue[i]
  BY <1>1
<1>4. \A i \in DOMAIN queue : Queued(queue[i]) /\ queue[i] \in Job
  BY <1>1 DEF Queued
<1> HIDE DEF n
<1>5. ASSUME NEW r PROVE Queued(r)' => Queued(r) \/ r = j
  BY <1>3 DEF Queued
<1>6. \A r : /\ Waiting(r)' => Waiting(r)
             /\ Handled(r)' => Handled(r)
             /\ Worked(r)' => Worked(r)
  BY <1>1 DEF Waiting, Handled, Worked
<1>7. ASSUME NEW r \in Job, r.op = "save", Waiting(r)' \/ Handled(r)'
      PROVE  j.on # r.on
  <2>1. SUFFICES ASSUME About(r, j) PROVE FALSE
    BY <1>1, <1>7 DEF About, Job
  <2>2. CASE Waiting(r)'
    BY <1>1, <2>1, <2>2 DEF Waiting, OwnInv
  <2>3. CASE Handled(r)'
    <3>1. PICK d \in Callers : Busy(d)' /\ now'[d] = r
      BY <2>3 DEF Handled
    <3>2. Busy(d) /\ now[d] = r
      BY <1>1, <3>1
    <3>3. d = c
      BY <1>1, <2>1, <3>2 DEF OwnInv
    <3>4. QED BY <1>1, <3>1, <3>3
  <2>4. QED BY <1>7, <2>2, <2>3
<1>8. ASSUME NEW r \in Job, r.op = "save", Waiting(r)' \/ Handled(r)'
      PROVE  /\ r.on \notin removed'
             /\ \A q \in Job : q.on = r.on => ~Queued(q)' /\ ~Worked(q)'
  <2>1. j.on # r.on
    BY <1>7, <1>8
  <2>2. QED BY <1>1, <1>5, <1>6, <1>8, <2>1 DEF JobsInv
<1>9. ASSUME NEW i \in DOMAIN queue', NEW k \in DOMAIN queue',
             queue'[i].op = "save", queue'[k].op = "delete", queue'[i].on = queue'[k].on
      PROVE  i < k
  <2>1. CASE i \in 1..n /\ k \in 1..n
    BY <1>3, <1>9, <2>1 DEF JobsInv
  <2>2. CASE i \in 1..n /\ k = n + 1
    BY <1>3, <2>2
  <2>3. CASE i = n + 1 /\ k \in 1..n
    <3>1. queue[k] \in Job /\ Queued(queue[k]) /\ j.op = "save" /\ queue[k].on = j.on
      BY <1>3, <1>4, <1>9, <2>3
    <3>2. QED BY <1>1, <1>2, <3>1 DEF JobsInv
  <2>4. CASE i = n + 1 /\ k = n + 1
    BY <1>3, <1>9, <2>4
  <2>5. QED BY <1>3, <2>1, <2>2, <2>3, <2>4
<1>10. ASSUME NEW d \in Job, NEW q \in Job, d.op = "delete", q.op = "save", d.on = q.on,
              Worked(d)', Queued(q)'
       PROVE  FALSE
  <2>1. Worked(d) /\ (Queued(q) \/ q = j)
    BY <1>5, <1>6, <1>10
  <2>2. QED BY <1>1, <1>2, <1>10, <2>1 DEF JobsInv
<1>11. \A x, y \in Workers : (x # y /\ Busy(x)' /\ Busy(y)' /\ now'[x].on = now'[y].on)
          => <<"job", now'[x].on>> \in disturbed'
  BY <1>1 DEF JobsInv
<1>12. QED BY <1>8, <1>9, <1>10, <1>11 DEF JobsInv

OrderInv == OwnInv /\ JobsInv

LEMMA OrderInit == Init => OrderInv
<1> SUFFICES ASSUME Init PROVE OrderInv
  OBVIOUS
<1>1. OwnPosts(pending)
  BY MonolithAssumption DEF Init
<1>2. \A p \in Procs : ~Busy(p)
  BY DEF Init, Busy
<1>3. OwnInv
  BY <1>1, <1>2 DEF OwnInv, Procs
<1>4. JobsInv
  BY <1>2 DEF Init, JobsInv, Queued, Worked, Procs
<1>5. QED BY <1>3, <1>4 DEF OrderInv

LEMMA OrderNext == StoreInv /\ OrderInv /\ [Next]_vars => OrderInv'
<1> SUFFICES ASSUME StoreInv, OrderInv, [Next]_vars PROVE OrderInv'
  OBVIOUS
<1> USE DEF OrderInv
<1>1. CASE vars' = vars
  BY <1>1 DEF vars, OwnInv, JobsInv, Busy, OwnPosts, Waiting, Handled, Queued, Worked
<1>2. ASSUME NEW c \in Callers, Call(c) PROVE OrderInv'
  BY <1>2, OwnCall, JobsCall
<1>3. ASSUME NEW w \in Workers, Take(w) PROVE OrderInv'
  BY <1>3, OwnTake, JobsTake
<1>4. ASSUME NEW p \in Procs, Run(p) PROVE OrderInv'
  BY <1>4, OwnRun, JobsRun, JobsEnqueue
<1>5. QED BY <1>1, <1>2, <1>3, <1>4 DEF Next

(* Posts whose deletion was answered. *)

ServedInv ==
    /\ \A c \in Callers : banned[c] \subseteq removed
    /\ \A x \in removed : store[<<"cont", x>>] = Missing
    /\ \A c \in Callers : (Busy(c) /\ now[c].op = "delete" /\ Len(todo[c]) < 5) =>
          \/ <<"call", now[c].on>> \in disturbed
          \/ store[<<"cont", now[c].on>>] = Missing
    /\ DeletedIsNotServed

\* The content of a post appears with its save only.
LEMMA ContentIs ==
    ASSUME StoreInv, NEW p \in Procs, Run(p), NEW x \in Posts,
           store[<<"cont", x>>] = Missing, store'[<<"cont", x>>] # Missing
    PROVE  p \in Callers /\ now[p] \in Job /\ now[p].op = "save" /\ now[p].on = x
<1> DEFINE k == <<"cont", x>>
<1>1. k \in Keys /\ DOMAIN store = Keys
  BY DEF Keys, StoreInv, Typed
<1>2. CASE Save(p)
  <2>1. ToSave(p) /\ \E list : store' = [store EXCEPT ![Step(p).key] = list]
    BY <1>2 DEF Save, Write
  <2>2. Step(p).key # k
    BY <2>1, SaveFacts, EditKinds DEF FollowKeys, Remarks, Timelines
  <2>3. QED BY <1>1, <2>1, <2>2
<1>3. CASE Delete(p)
  <2>1. store' = [store EXCEPT ![Step(p).key] = Missing]
    BY <1>3 DEF Delete, Write
  <2>2. QED BY <1>1, <2>1
<1>4. CASE Store(p)
  <2>1. /\ Busy(p) /\ Step(p).kind = "put"
        /\ store' = [store EXCEPT ![Step(p).key] = Step(p).arg]
    BY <1>4 DEF Store, Write, At
  <2>2. Step(p).key = k
    BY <1>1, <2>1
  <2>3. Step(p) \notin CredSteps
    <3>1. Step(p).key[1] = "cont"
      BY <2>2
    <3>2. \A s \in CredSteps : s.key[1] = "cred"
      BY DEF CredSteps, Creds, StepSet
    <3>3. QED BY <3>1, <3>2
  <2>4. p \in Callers /\ now[p].op = "save" /\ Step(p).key[2] = now[p].on
    BY <2>1, <2>3, WhoDoes
  <2>5. now[p] \in Request
    BY <2>1, <2>4, StepIs
  <2>6. QED BY <2>2, <2>4, <2>5 DEF Request, Job
<1>5. CASE store' = store
  BY <1>5
<1>6. QED BY <1>2, <1>3, <1>4, <1>5, Writers

LEMMA DeleteSteps ==
    ASSUME StoreInv, NEW c \in Callers, Run(c), now[c].op = "delete"
    PROVE  Delete(c) \/ Enqueue(c) \/ Fail(c)
<1>1. c \in Procs /\ Busy(c)
  BY RunFrame DEF Procs
<1>2. Calling(now[c], todo[c])
  BY <1>1, StepIs
<1>3. Step(c).kind \in {"del", "send"}
  <2>1. Erases(now[c], todo[c])
    BY <1>2 DEF Calling
  <2>2. QED BY <2>1, KindIs DEF Erases, Step
<1>4. got[c] = NoRead
  BY <1>1, <1>3, StepIs
<1>5. /\ ~At(c, "edit") /\ ~At(c, "put") /\ ~At(c, "check") /\ ~At(c, "fanout")
      /\ ~At(c, "list") /\ ~At(c, "show") /\ got[c].phase # "confirm"
  BY <1>3, <1>4 DEF At, NoRead
<1>6. QED BY <1>5 DEF Run, Get, NoChange, Save, Retry, GiveUp, Confirm, Store, Check, Fanout,
                      ReadTimeline, ReadPost, Fault, ToSave, HasRead

LEMMA ServedRun ==
    ASSUME StoreInv, OrderInv, ServedInv, NEW p \in Procs, Run(p) PROVE ServedInv'
<1>1. /\ Busy(p) /\ pending' = pending /\ now' = now /\ banned' = banned
      /\ \A q \in Procs \ {p} : todo'[q] = todo[q]
      /\ \A q \in Procs : Busy(q)' => Busy(q)
      /\ disturbed \subseteq disturbed'
      /\ Enqueue(p) \/ (queue' = queue /\ removed' = removed)
      /\ ReadPost(p) \/ served' = served
  BY RunFrame
<1>2. removed \subseteq Posts
  BY DEF StoreInv, Typed
<1>3. ASSUME NEW x \in removed PROVE store'[<<"cont", x>>] = Missing
  <2>1. SUFFICES ASSUME store'[<<"cont", x>>] # Missing PROVE FALSE
    OBVIOUS
  <2>2. p \in Callers /\ now[p] \in Job /\ now[p].op = "save" /\ now[p].on = x
    BY <1>2, <2>1, ContentIs DEF ServedInv
  <2>3. Handled(now[p])
    BY <1>1, <2>2 DEF Handled
  <2>4. QED BY <2>2, <2>3 DEF OrderInv, JobsInv
<1>4. removed \subseteq removed' /\ \A x \in removed' : store'[<<"cont", x>>] = Missing
  <2>1. CASE removed' = removed
    BY <1>3, <2>1
  <2>2. CASE Enqueue(p)
    <3>1. /\ p \in Callers /\ now[p] \in Job /\ store' = store
          /\ removed' = IF now[p].op = "delete" /\ Subject(p) \notin disturbed
                        THEN removed \cup {now[p].on} ELSE removed
      BY <2>2, EnqueueIs
    <3>2. CASE now[p].op = "delete" /\ Subject(p) \notin disturbed
      <4>1. <<"call", now[p].on>> \notin disturbed
        BY <3>1, <3>2, Subjects
      <4>2. Len(todo[p]) < 5
        <5>1. Step(p).kind = "send"
          BY <2>2 DEF Enqueue, At
        <5>2. Len(todo[p]) = 1
          BY <1>1, <5>1, WhoDoes
        <5>3. QED BY <5>2
      <4>3. store[<<"cont", now[p].on>>] = Missing
        BY <1>1, <3>1, <3>2, <4>1, <4>2 DEF ServedInv
      <4>4. QED BY <1>3, <3>1, <3>2, <4>3
    <3>3. QED BY <1>3, <3>1, <3>2
  <2>3. QED BY <1>1, <2>1, <2>2
<1>5. ASSUME NEW c \in Callers, Busy(c)', now'[c].op = "delete", Len(todo'[c]) < 5
      PROVE  \/ <<"call", now'[c].on>> \in disturbed'
             \/ store'[<<"cont", now'[c].on>>] = Missing
  <2>1. c \in Procs /\ Busy(c) /\ now[c].op = "delete" /\ now'[c] = now[c]
    BY <1>1, <1>5 DEF Procs
  <2>2. now[c] \in Request
    BY <2>1, StepIs
  <2>3. now[c].on \in Posts
    BY <2>1, <2>2, RequestIs
  <2>4. CASE /\ Len(todo[c]) < 5
             /\ p \notin Callers \/ now[p].op # "save" \/ now[p].on # now[c].on
    BY <1>1, <2>1, <2>3, <2>4, ContentIs DEF ServedInv
  <2>5. CASE c # p
    <3>1. Len(todo[c]) < 5
      BY <1>1, <1>5, <2>1, <2>5
    <3>2. p \in Callers => ~About(now[p], now[c])
      BY <1>1, <2>1, <2>5 DEF OrderInv, OwnInv
    <3>3. QED BY <2>1, <2>4, <3>1, <3>2 DEF About
  <2>6. CASE c = p /\ Delete(p)
    <3>1. /\ store' = [store EXCEPT ![Step(p).key] = Missing] /\ Step(p).kind = "del"
          /\ todo' = [todo EXCEPT ![p] = <<>> \o Tail(@)]
      BY <2>6 DEF Delete, Write, Proceed, At
    <3>2. /\ Step(p).key \in Keys /\ DOMAIN store = Keys /\ Len(todo[p]) \in 2..5
          /\ Len(todo[p]) = 5 => Step(p).key = <<"cont", now[p].on>>
      BY <1>1, <3>1, WhoDoes, StepIs DEF StoreInv, Typed
    <3>3. CASE Len(todo[p]) = 5
      <4>1. store'[<<"cont", now[p].on>>] = Missing
        BY <3>1, <3>2, <3>3
      <4>2. QED BY <2>1, <2>6, <4>1
    <3>4. CASE Len(todo[p]) < 5
      BY <2>1, <2>4, <2>6, <3>4
    <3>5. Len(todo[p]) = 5 \/ Len(todo[p]) < 5
      <4>1. \A n \in 2..5 : n = 5 \/ n < 5
        OBVIOUS
      <4>2. QED BY <3>2, <4>1, Zenon
    <3>6. QED BY <3>3, <3>4, <3>5, Zenon
  <2>7. CASE c = p /\ Enqueue(p)
    BY <1>5, <2>7, EnqueueIs
  <2>8. CASE c = p /\ Fail(p)
    <3>1. Subject(p) = <<"call", now[p].on>>
      BY <2>1, <2>8, Subjects
    <3>2. QED BY <2>1, <2>8, <3>1 DEF Fail
  <2>9. QED BY <2>1, <2>5, <2>6, <2>7, <2>8, DeleteSteps
<1>6. ASSUME NEW c \in Callers PROVE served'[c] \cap banned'[c] = {}
  <2>1. served[c] \cap banned[c] = {} /\ banned[c] \subseteq removed
    BY DEF ServedInv, DeletedIsNotServed
  <2>2. CASE served' = served
    BY <1>1, <2>1, <2>2
  <2>3. CASE ReadPost(p) /\ store[Step(p).key] = Missing
    BY <1>1, <2>1, <2>3 DEF ReadPost
  <2>4. CASE ReadPost(p) /\ store[Step(p).key] # Missing
    <3>1. /\ Step(p).kind = "show"
          /\ served' = [served EXCEPT ![p] = @ \cup {Step(p).arg}]
      BY <2>4 DEF ReadPost, At
    <3>2. Step(p).key = <<"cont", Step(p).arg>>
      BY <1>1, <3>1, WhoDoes, KindIs
    <3>3. Step(p).arg \notin removed
      BY <2>4, <3>2 DEF ServedInv
    <3>4. served'[c] \subseteq served[c] \cup {Step(p).arg}
      <4>1. DOMAIN served = Callers
        BY DEF StoreInv, Typed
      <4>2. QED BY <3>1, <4>1
    <3>5. QED BY <1>1, <2>1, <3>3, <3>4
  <2>5. QED BY <1>1, <2>2, <2>3, <2>4
<1>7. QED BY <1>1, <1>4, <1>5, <1>6 DEF ServedInv, DeletedIsNotServed

LEMMA ServedCall ==
    ASSUME StoreInv, ServedInv, NEW c \in Callers, Call(c) PROVE ServedInv'
<1>1. /\ \A q \in Procs \ {c} : now'[q] = now[q] /\ todo'[q] = todo[q]
      /\ UNCHANGED <<store, removed>> /\ disturbed \subseteq disturbed'
      /\ banned' = [banned EXCEPT ![c] = removed] /\ served' = [served EXCEPT ![c] = {}]
      /\ now'[c] = pending[c][1] /\ 1 \in DOMAIN pending[c]
  BY CallIs
<1>2. /\ DOMAIN banned = Callers /\ DOMAIN served = Callers /\ todo \in [Procs -> Seq(Steps)]
      /\ c \in Procs /\ pending[c] \in Seq(Request)
  BY DEF StoreInv, Typed, Procs
<1>3. \A d \in Callers : banned'[d] \subseteq removed'
  BY <1>1, <1>2 DEF ServedInv
<1>4. \A d \in Callers : served'[d] \cap banned'[d] = {}
  BY <1>1, <1>2 DEF ServedInv, DeletedIsNotServed
<1>5. ASSUME NEW d \in Callers, Busy(d)', now'[d].op = "delete", Len(todo'[d]) < 5
      PROVE  \/ <<"call", now'[d].on>> \in disturbed'
             \/ store'[<<"cont", now'[d].on>>] = Missing
  <2>1. CASE d # c
    BY <1>1, <1>5, <2>1 DEF ServedInv, Busy, Procs
  <2>2. CASE d = c
    <3> DEFINE r == pending[c][1]
    <3>1. r \in Request
      BY <1>1, <1>2
    <3>2. Head(pending[c]) = r
      BY <1>2
    <3>3. todo'[c] = Program(c, r)
      BY <1>2, <3>2 DEF Call, Begin
    <3>4. r.op = "delete" /\ r.on \in Posts
      BY <1>1, <1>5, <2>2, <3>1, RequestIs
    <3> HIDE DEF r
    <3>5. Len(Program(c, r)) = 5
      BY <3>1, <3>4, ProgramIs, DeleteIs
    <3>6. QED BY <1>5, <2>2, <3>3, <3>5
  <2>3. QED BY <2>1, <2>2
<1>6. QED BY <1>1, <1>3, <1>4, <1>5 DEF ServedInv, DeletedIsNotServed

LEMMA ServedNext == StoreInv /\ OrderInv /\ ServedInv /\ [Next]_vars => ServedInv'
<1> SUFFICES ASSUME StoreInv, OrderInv, ServedInv, [Next]_vars PROVE ServedInv'
  OBVIOUS
<1>1. CASE vars' = vars
  BY <1>1 DEF vars, ServedInv, DeletedIsNotServed, Busy
<1>2. ASSUME NEW c \in Callers, Call(c) PROVE ServedInv'
  BY <1>2, ServedCall
<1>3. ASSUME NEW w \in Workers, Take(w) PROVE ServedInv'
  <2>1. w \notin Callers
    BY MonolithAssumption
  <2>2. /\ \A c \in Callers : now'[c] = now[c] /\ todo'[c] = todo[c]
        /\ UNCHANGED <<store, removed, banned, served>> /\ disturbed \subseteq disturbed'
    BY <1>3, <2>1, TakeIs DEF Procs
  <2>3. QED BY <2>2 DEF ServedInv, DeletedIsNotServed, Busy
<1>4. ASSUME NEW p \in Procs, Run(p) PROVE ServedInv'
  BY <1>4, ServedRun
<1>5. QED BY <1>1, <1>2, <1>3, <1>4 DEF Next

(* DeletedIsNotServed holds for every number of callers and workers: a post *)
(* whose deletion has been answered, content and all, is not served to a    *)
(* request that begins afterwards, whatever the timelines still list and    *)
(* whichever store calls fail.                                              *)
THEOREM DeletedIsGone == Spec => []DeletedIsNotServed
<1>1. Init => ServedInv
  BY DEF Init, ServedInv, DeletedIsNotServed, Busy, Procs
<1>2. ServedInv => DeletedIsNotServed
  BY DEF ServedInv
<1>3. QED BY <1>1, <1>2, ServedNext, OrderInit, OrderNext, StoreHolds, PTL DEF Spec

-----------------------------------------------------------------------------
(* Deleted posts leave their author's timeline.                              *)

\* Who edits which list.
LEMMA WhoEdits ==
    ASSUME StoreInv, NEW p \in Procs, Busy(p), Step(p) \in EditSteps
    PROVE  /\ Step(p).key \in Timelines =>
                 /\ p \in Workers /\ Step(p).bulk
                 /\ Step(p).key[1] = "user" =>
                       /\ Step(p).key = <<"user", now[p].user>> /\ Step(p).arg = now[p].on
                       /\ Step(p).edit = IF now[p].op = "save" THEN "post" ELSE "unpost"
                 /\ Step(p).key[1] = "home" => now[p].op = "save"
           /\ Step(p).key \in FollowKeys =>
                 p \in Callers /\ now[p].op \in {"follow", "unfollow", "register"}
<1>1. /\ p \in Callers => now[p] \in Request /\ Calling(now[p], todo[p])
      /\ p \in Workers => now[p] \in Job /\ Working(now[p], todo[p])
      /\ Step(p) = Head(todo[p]) /\ Step(p).kind = "edit"
  BY StepIs, KindIs DEF Step
<1>2. /\ \A s \in PostSteps : s.key \in Timelines /\ s.key \notin FollowKeys /\ s.bulk
      /\ \A s \in RemarkSteps : s.key \notin Timelines \cup FollowKeys
  BY DEF PostSteps, RemarkSteps, StepSet, Timelines, FollowKeys, Remarks
<1>3. CASE p \in Workers
  <2>1. Step(p) \in PostSteps
    BY <1>1, <1>3, KindIs DEF Working
  <2>2. Step(p).key[1] = "user" \/ Step(p).key[1] = "home"
    BY <2>1 DEF PostSteps, StepSet, Timelines
  <2>3. \/ /\ Step(p).key = <<"user", now[p].user>> /\ Step(p).arg = now[p].on
           /\ Step(p).edit = IF now[p].op = "save" THEN "post" ELSE "unpost"
        \/ now[p].op = "save" /\ Step(p).key[1] = "home"
    BY <1>1, <1>3, KindIs DEF Working
  <2>4. QED BY <1>2, <1>3, <2>1, <2>2, <2>3
<1>4. CASE p \in Callers
  <2>1. \A k, e, x : Edit(k, e, x).key = k
    BY DEF Edit, Do
  <2>2. \A u : <<"followees", u>> \notin Timelines /\ <<"followers", u>> \notin Timelines
    BY DEF Timelines
  <2> DEFINE r == now[p]
             t == todo[p]
  <2>3. Step(p) = Head(t) /\ r \in Request /\ Calling(r, t) /\ Head(t).kind = "edit"
    BY <1>1, <1>4
  <2> HIDE DEF r, t
  <2>4. \/ r.op \in {"follow", "unfollow", "register"} /\ Head(t).key \notin Timelines
        \/ Head(t) \in RemarkSteps
    <3>1. CASE r.op \in {"follow", "unfollow"}
      <4>1. \E e : Pairs(r, t, e)
        BY <2>3, <3>1 DEF Calling
      <4>2. PICK e : \/ Head(t) = Edit(<<"followees", r.user>>, e, r.on)
                     \/ Head(t) = Edit(<<"followers", r.on>>, e, r.user)
        BY <4>1 DEF Pairs
      <4>3. Head(t).key \in {<<"followees", r.user>>, <<"followers", r.on>>}
        BY <2>1, <4>2
      <4>4. QED BY <2>2, <3>1, <4>3
    <3>2. CASE r.op = "register"
      BY <2>1, <2>2, <2>3, <3>2 DEF Calling, Registers
    <3>3. CASE r.op = "save"
      BY <2>3, <3>3, KindIs DEF Calling, Saves
    <3>4. CASE r.op = "delete"
      BY <2>3, <3>4, KindIs DEF Calling, Erases
    <3>5. CASE r.op \in {"comment", "upvote", "meta"}
      BY <2>3, <3>5 DEF Calling
    <3>6. CASE r.op \in {"home", "user"}
      BY <2>3, <3>6, KindIs DEF Calling
    <3>7. QED BY <2>3, <3>1, <3>2, <3>3, <3>4, <3>5, <3>6, RequestIs
  <2>5. QED BY <1>2, <1>4, <2>3, <2>4 DEF r
<1>5. QED BY <1>3, <1>4 DEF Procs

\* The author's timeline lists the post, or a job that adds it is under way.
Saved(u, x) ==
    \/ Listed(<<"user", u>>, x)
    \/ \E j \in Job : j.op = "save" /\ j.user = u /\ j.on = x /\ (Queued(j) \/ Worked(j))

Dropping(j, x) == j \in Job /\ j.op = "delete" /\ j.on = x
DropQueued(x) == \E j : Dropping(j, x) /\ Queued(j)
DropWorked(x) == \E j : Dropping(j, x) /\ Worked(j)

LeaveInv ==
    /\ \A x \in Posts, u \in Users : Saved(u, x) =>
          \A j : (Dropping(j, x) /\ (Waiting(j) \/ Handled(j) \/ Queued(j) \/ Worked(j)))
                    => j.user = u
    /\ \A x \in removed : <<"job", x>> \notin disturbed =>
          /\ \A j \in Job : (j.op = "save" /\ j.on = x /\ (Queued(j) \/ Worked(j)))
                => DropQueued(x)
          /\ \A u \in Users : (<<"user", u>> \notin blind /\ Listed(<<"user", u>>, x))
                => DropQueued(x) \/ DropWorked(x)

\* A timeline gains a post by the job that adds it only, and the job that
\* drops a post leaves the timeline without it.
LEMMA TimelineSave ==
    ASSUME StoreInv, NEW p \in Procs, Save(p), NEW u \in Users, NEW x \in Posts,
           Listed(<<"user", u>>, x)'
    PROVE  /\ Listed(<<"user", u>>, x)
              \/ /\ p \in Workers /\ Busy(p) /\ now[p] \in Job
                 /\ now[p].op = "save" /\ now[p].user = u /\ now[p].on = x
           /\ ~(p \in Workers /\ now[p].op = "delete" /\ now[p].user = u /\ now[p].on = x)
<1> DEFINE k == <<"user", u>>
           s == Step(p)
           new == Edited(s.edit, got[p].list, s.arg)
<1>1. k \in Keys /\ k \in Timelines /\ k[1] = "user" /\ DOMAIN store = Keys
  BY DEF Keys, Timelines, StoreInv, Typed
<1>2. /\ ToSave(p) /\ got[p].phase \in {"fresh", "noetag"}
      /\ store' = [store EXCEPT ![s.key] = new]
  BY DEF Save, SaveAccepted, Write
<1>3. /\ Busy(p) /\ s \in EditSteps /\ s.key \in Keys /\ s.edit \in EditNames
      /\ got[p].list \in Seq(Held(s.key)) /\ s.arg \in Held(s.key) /\ new \in Seq(Held(s.key))
      /\ got[p].phase = "fresh" => got[p].list = store[s.key]
      /\ got[p].phase = "noetag" => got[p].list = <<>>
  BY <1>2, SaveFacts
<1>4. CASE s.key # k
  <2>1. store'[k] = store[k]
    BY <1>1, <1>2, <1>4
  <2>2. Listed(k, x)
    BY <2>1 DEF Listed
  <2>3. ASSUME p \in Workers, now[p].op = "delete", now[p].user = u PROVE FALSE
    <3>1. Working(now[p], todo[p]) /\ s = Head(todo[p]) /\ s.kind = "edit"
      BY <1>3, <2>3, StepIs, KindIs DEF Step
    <3>2. QED BY <1>4, <2>3, <3>1, KindIs DEF Working
  <2>4. QED BY <2>2, <2>3
<1>5. CASE s.key = k
  <2>1. /\ p \in Workers /\ now[p] \in Job /\ k = <<"user", now[p].user>> /\ s.arg = now[p].on
        /\ s.edit = IF now[p].op = "save" THEN "post" ELSE "unpost"
    BY <1>1, <1>3, <1>5, WhoEdits, StepIs
  <2>2. store'[k] = new
    BY <1>1, <1>2, <1>5
  <2>3. /\ ToSet(new) \subseteq ToSet(got[p].list) \cup {s.arg}
        /\ s.edit = "unpost" => ToSet(new) = ToSet(got[p].list) \ {s.arg}
    <3> DEFINE S == Held(s.key)
               list == got[p].list
               edit == s.edit
               arg == s.arg
    <3>1. list \in Seq(S) /\ arg \in S /\ edit \in EditNames
      BY <1>3
    <3> HIDE DEF S, list, edit, arg, s
    <3>2. /\ ToSet(Edited(edit, list, arg)) \subseteq ToSet(list) \cup {arg}
          /\ edit \in {"drop", "unpost"} =>
                ToSet(Edited(edit, list, arg)) = ToSet(list) \ {arg}
      BY <3>1, EditedIs
    <3>3. QED BY <3>2 DEF list, edit, arg
  <2>4. x \in ToSet(new)
    BY <1>3, <2>2, Elements DEF Listed
  <2>5. ASSUME x \in ToSet(got[p].list) PROVE Listed(k, x)
    <3>1. got[p].phase = "fresh"
      BY <1>2, <1>3, <2>5 DEF ToSet
    <3>2. store[k] # Missing /\ Contains(store[k], x)
      BY <1>1, <1>3, <1>5, <2>5, <3>1, Elements, NotMissing
    <3>3. QED BY <3>2 DEF Listed
  <2>6. now[p].user = u
    BY <2>1
  <2>7. now[p].op = "save" \/ (now[p].op = "delete" /\ s.edit = "unpost")
    BY <2>1 DEF Job
  <2>8. QED BY <1>3, <2>1, <2>3, <2>4, <2>5, <2>6, <2>7
<1>6. QED BY <1>4, <1>5

LEMMA TimelineGains ==
    ASSUME StoreInv, NEW p \in Procs, Run(p), NEW u \in Users, NEW x \in Posts,
           Listed(<<"user", u>>, x)'
    PROVE  Saved(u, x)
<1> DEFINE k == <<"user", u>>
<1>1. k \in Keys /\ k \in Timelines /\ DOMAIN store = Keys
  BY DEF Keys, Timelines, StoreInv, Typed
<1>2. CASE Save(p)
  BY <1>2, TimelineSave DEF Saved, Worked
<1>3. CASE Store(p)
  <2>1. /\ Busy(p) /\ Step(p).kind = "put"
        /\ store' = [store EXCEPT ![Step(p).key] = Step(p).arg]
    BY <1>3 DEF Store, Write, At
  <2>2. Step(p).key # k
    BY <1>1, <2>1, WhoDoes, PutKinds
  <2>3. store'[k] = store[k]
    BY <1>1, <2>1, <2>2
  <2>4. QED BY <2>3 DEF Listed, Saved
<1>4. CASE Delete(p)
  <2>1. store' = [store EXCEPT ![Step(p).key] = Missing]
    BY <1>4 DEF Delete, Write
  <2>2. store'[k] = store[k]
    BY <1>1, <2>1 DEF Listed
  <2>3. QED BY <2>2 DEF Listed, Saved
<1>5. CASE store' = store
  BY <1>5 DEF Listed, Saved
<1>6. QED BY <1>2, <1>3, <1>4, <1>5, Writers

\* A worker on a job that drops a post stays on it until it fails or saves.
LEMMA DropSteps ==
    ASSUME StoreInv, NEW w \in Workers, Run(w), now[w].op = "delete"
    PROVE  todo' = todo \/ Fail(w) \/ Save(w)
<1>1. w \in Procs /\ Busy(w)
  BY RunFrame DEF Procs
<1>2. Working(now[w], todo[w])
  BY <1>1, StepIs
<1>3. Step(w) \in PostSteps /\ Step(w).kind = "edit" /\ Step(w).edit = "unpost"
  BY <1>2, KindIs DEF Working, Step
<1>4. got[w].phase # "confirm"
  <2>1. ReadFits(got[w], todo[w], store)
    BY <1>1 DEF StoreInv, Reads
  <2>2. Step(w).bulk
    BY <1>3 DEF PostSteps
  <2>3. QED BY <2>1, <2>2 DEF ReadFits, Step
<1>5. ~NothingToSave(Step(w).edit, got[w].list, Step(w).arg)
  BY <1>3 DEF NothingToSave
<1>6. /\ ~At(w, "put") /\ ~At(w, "check") /\ ~At(w, "fanout") /\ ~At(w, "del")
      /\ ~At(w, "list") /\ ~At(w, "show") /\ ~At(w, "send")
  BY <1>3 DEF At
<1>7. QED BY <1>3, <1>4, <1>5, <1>6 DEF Run, Get, NoChange, Save, Retry, GiveUp, Confirm,
             Store, Delete, Check, Enqueue, Fanout, ReadTimeline, ReadPost, Fault, history

LEMMA LeaveRun ==
    ASSUME StoreInv, LeaveInv, NEW p \in Procs, Run(p), ~Enqueue(p) PROVE LeaveInv'
<1>1. /\ pending' = pending /\ now' = now /\ queue' = queue /\ removed' = removed
      /\ disturbed \subseteq disturbed' /\ blind \subseteq blind'
      /\ \A q \in Procs \ {p} : todo'[q] = todo[q]
      /\ \A q \in Callers \cup Workers : Busy(q)' => Busy(q)
  BY RunFrame DEF Procs
<1>2. \A r : /\ Waiting(r)' => Waiting(r)
             /\ Handled(r)' => Handled(r)
             /\ Queued(r)' <=> Queued(r)
             /\ Worked(r)' => Worked(r)
  BY <1>1 DEF Waiting, Handled, Queued, Worked
<1>3. ASSUME NEW u \in Users, NEW x \in Posts, Saved(u, x)' PROVE Saved(u, x)
  BY <1>2, <1>3, TimelineGains DEF Saved
<1>4. ASSUME NEW x \in Posts, NEW u \in Users, Saved(u, x)', NEW j, Dropping(j, x),
             Waiting(j)' \/ Handled(j)' \/ Queued(j)' \/ Worked(j)'
      PROVE  j.user = u
  BY <1>2, <1>3, <1>4 DEF LeaveInv
<1>5. \A x : DropQueued(x)' <=> DropQueued(x)
  BY <1>2 DEF DropQueued, Dropping
<1>6. ASSUME NEW x \in removed', <<"job", x>> \notin disturbed', NEW j \in Job,
             j.op = "save", j.on = x, Queued(j)' \/ Worked(j)'
      PROVE  DropQueued(x)'
  BY <1>1, <1>2, <1>5, <1>6 DEF LeaveInv
<1>7. ASSUME NEW x \in removed', <<"job", x>> \notin disturbed', NEW u \in Users,
             <<"user", u>> \notin blind', Listed(<<"user", u>>, x)'
      PROVE  DropQueued(x)' \/ DropWorked(x)'
  <2>1. x \in Posts /\ x \in removed /\ <<"job", x>> \notin disturbed /\ <<"user", u>> \notin blind
    BY <1>1, <1>7 DEF StoreInv, Typed
  <2>2. Saved(u, x)
    BY <1>7, <2>1, TimelineGains
  <2>3. DropQueued(x) \/ DropWorked(x)
    BY <2>1, <2>2 DEF LeaveInv, Saved
  <2>4. CASE DropWorked(x)
    <3>1. PICK w \in Workers : Busy(w) /\ Dropping(now[w], x)
      BY <2>4 DEF DropWorked, Worked
    <3>2. now[w].user = u /\ now[w].op = "delete" /\ now[w].on = x /\ now[w] \in Job
      BY <2>1, <2>2, <3>1 DEF LeaveInv, Worked, Dropping
    <3>3. Busy(w)' => DropWorked(x)'
      BY <1>1, <3>1 DEF DropWorked, Worked, Dropping
    <3>4. CASE w # p
      BY <1>1, <3>1, <3>3, <3>4 DEF Busy, Procs
    <3>5. CASE w = p /\ todo' = todo
      BY <3>1, <3>3, <3>5 DEF Busy
    <3>6. CASE w = p /\ Fail(w)
      BY <1>7, <3>2, <3>6, Subjects DEF Fail
    <3>7. CASE w = p /\ Save(w)
      BY <1>7, <2>1, <3>2, <3>7, TimelineSave
    <3>8. QED BY <3>2, <3>4, <3>5, <3>6, <3>7, DropSteps
  <2>5. QED BY <1>5, <2>3, <2>4
<1>8. QED BY <1>4, <1>6, <1>7 DEF LeaveInv, Dropping

LEMMA LeaveCall ==
    ASSUME StoreInv, LeaveInv, NEW c \in Callers, Call(c) PROVE LeaveInv'
<1>1. c \notin Workers
  BY MonolithAssumption
<1>2. /\ now'[c] = pending[c][1] /\ 1 \in DOMAIN pending[c]
      /\ \A d \in Callers \ {c} : pending'[d] = pending[d]
      /\ \A q \in Procs \ {c} : now'[q] = now[q] /\ todo'[q] = todo[q]
      /\ \A j \in DOMAIN pending'[c] :
            pending'[c][j] = pending[c][j + 1] /\ j + 1 \in DOMAIN pending[c]
      /\ UNCHANGED <<store, queue, removed, blind>> /\ disturbed \subseteq disturbed'
  BY CallIs
<1>3. \A w \in Workers : now'[w] = now[w] /\ (Busy(w)' <=> Busy(w))
  BY <1>1, <1>2 DEF Procs, Busy
<1>4. \A d \in Callers \ {c} : now'[d] = now[d] /\ (Busy(d)' <=> Busy(d))
  BY <1>2 DEF Procs, Busy
<1>5. ASSUME NEW r PROVE Waiting(r)' => Waiting(r)
  BY <1>2 DEF Waiting
<1>6. ASSUME NEW r PROVE Handled(r)' => Handled(r) \/ Waiting(r)
  BY <1>2, <1>4 DEF Handled, Waiting
<1>7. \A r : (Queued(r)' <=> Queued(r)) /\ (Worked(r)' <=> Worked(r))
  BY <1>2, <1>3 DEF Queued, Worked
<1>8. \A u, x : /\ Saved(u, x)' <=> Saved(u, x)
                /\ Listed(<<"user", u>>, x)' <=> Listed(<<"user", u>>, x)
  BY <1>2, <1>7 DEF Saved, Listed
<1>9. \A x : (DropQueued(x)' <=> DropQueued(x)) /\ (DropWorked(x)' <=> DropWorked(x))
  BY <1>7 DEF DropQueued, DropWorked, Dropping
<1>10. ASSUME NEW x \in Posts, NEW u \in Users, Saved(u, x)', NEW j, Dropping(j, x),
              Waiting(j)' \/ Handled(j)' \/ Queued(j)' \/ Worked(j)'
       PROVE  j.user = u
  BY <1>5, <1>6, <1>7, <1>8, <1>10 DEF LeaveInv
<1>11. ASSUME NEW x \in removed', <<"job", x>> \notin disturbed', NEW j \in Job,
              j.op = "save", j.on = x, Queued(j)' \/ Worked(j)'
       PROVE  DropQueued(x)'
  BY <1>2, <1>7, <1>9, <1>11 DEF LeaveInv
<1>12. ASSUME NEW x \in removed', <<"job", x>> \notin disturbed', NEW u \in Users,
              <<"user", u>> \notin blind', Listed(<<"user", u>>, x)'
       PROVE  DropQueued(x)' \/ DropWorked(x)'
  BY <1>2, <1>8, <1>9, <1>12 DEF LeaveInv
<1>13. QED BY <1>10, <1>11, <1>12 DEF LeaveInv, Dropping

LEMMA LeaveTake ==
    ASSUME StoreInv, JobsInv, LeaveInv, NEW w \in Workers, Take(w) PROVE LeaveInv'
<1>1. w \notin Callers /\ w \in Procs
  BY MonolithAssumption DEF Procs
<1>2. /\ ~Busy(w) /\ now'[w] = queue[1] /\ 1 \in DOMAIN queue
      /\ \A q \in Procs \ {w} : now'[q] = now[q] /\ todo'[q] = todo[q]
      /\ \A j \in DOMAIN queue' :
            queue'[j] = queue[j + 1] /\ j + 1 \in DOMAIN queue /\ j \in Nat \ {0}
      /\ UNCHANGED <<store, pending, removed, blind>> /\ disturbed \subseteq disturbed'
  BY TakeIs
<1>3. \A c \in Callers : now'[c] = now[c] /\ (Busy(c)' <=> Busy(c))
  BY <1>1, <1>2 DEF Procs, Busy
<1>4. \A x \in Workers \ {w} : now'[x] = now[x] /\ (Busy(x)' <=> Busy(x))
  BY <1>2 DEF Procs, Busy
<1>5. queue \in Seq(Job) /\ queue # <<>> /\ queue[1] \in Job /\ Head(queue) = queue[1]
  <2>1. queue \in Seq(Job) /\ queue # <<>>
    BY DEF Take, StoreInv, Typed
  <2>2. QED BY <2>1
<1>6. Busy(w)'
  <2>1. JobProgram(queue[1]) # <<>>
    <3>1. PICK j \in Job : j = queue[1]
      BY <1>5
    <3>2. PICK program \in Seq(Steps) : program = JobProgram(j)
      BY JobIs
    <3>3. Len(program) # 0
      BY <3>2, JobIs
    <3>4. program # <<>>
      BY <3>3
    <3>5. QED
      BY <3>1, <3>2, <3>4
  <2>2. todo' = [todo EXCEPT ![w] = JobProgram(queue[1])]
    BY <1>5 DEF Take, Begin
  <2>3. DOMAIN todo = Procs
    BY DEF StoreInv, Typed
  <2>4. QED BY <1>1, <2>1, <2>2, <2>3 DEF Busy
<1>7. \A r : (Waiting(r)' <=> Waiting(r)) /\ (Handled(r)' <=> Handled(r))
  BY <1>2, <1>3 DEF Waiting, Handled
<1>8. ASSUME NEW r PROVE Queued(r)' => Queued(r)
  BY <1>2 DEF Queued
<1>9. ASSUME NEW r, r = queue[1] PROVE Queued(r) /\ Worked(r)'
  BY <1>2, <1>6, <1>9 DEF Queued, Worked
<1>10. ASSUME NEW r
       PROVE  (Worked(r)' => Worked(r) \/ r = queue[1]) /\ (Worked(r) => Worked(r)')
  BY <1>2, <1>4 DEF Worked
<1>11. ASSUME NEW r, Queued(r) PROVE Queued(r)' \/ r = queue[1]
  <2>1. PICK i \in DOMAIN queue : queue[i] = r
    BY <1>11 DEF Queued
  <2>2. queue' = Tail(queue)
    BY DEF Take
  <2>3. CASE i = 1
    BY <2>1, <2>3
  <2>4. CASE i # 1
    <3> DEFINE k == i - 1
    <3>1. k \in DOMAIN queue' /\ queue'[k] = queue[k + 1] /\ k + 1 = i
      BY <1>5, <2>1, <2>2, <2>4
    <3> HIDE DEF k
    <3>2. QED BY <2>1, <3>1 DEF Queued
  <2>5. QED BY <2>3, <2>4
<1>12. JobsInv'
  BY JobsTake
<1>13. ASSUME NEW u, NEW x, Saved(u, x)' PROVE Saved(u, x)
  BY <1>2, <1>8, <1>9, <1>10, <1>13 DEF Saved, Listed
<1>14. ASSUME NEW x \in removed', <<"job", x>> \notin disturbed', NEW j \in Job,
              j.op = "save", j.on = x, Queued(j)' \/ Worked(j)'
       PROVE  DropQueued(x)'
  <2>1. x \in removed /\ <<"job", x>> \notin disturbed
    BY <1>2, <1>14
  <2>2. Queued(j) \/ Worked(j)
    BY <1>8, <1>9, <1>10, <1>14
  <2>3. PICK d : Dropping(d, x) /\ Queued(d)
    BY <1>14, <2>1, <2>2 DEF LeaveInv, DropQueued
  <2>4. ~Worked(d)'
    <3>1. SUFFICES ASSUME Worked(d)' PROVE FALSE
      OBVIOUS
    <3>2. ~Queued(j)'
      BY <1>12, <1>14, <2>3, <3>1 DEF JobsInv, Dropping
    <3>3. PICK y \in Workers : Busy(y)' /\ now'[y] = d
      BY <3>1 DEF Worked
    <3>4. PICK z \in Workers : Busy(z)' /\ now'[z] = j
      BY <1>14, <3>2 DEF Worked
    <3>5. y # z /\ now'[y].on = x /\ now'[z].on = x
      BY <1>14, <2>3, <3>3, <3>4 DEF Dropping
    <3>6. QED BY <1>12, <1>14, <3>3, <3>4, <3>5 DEF JobsInv
  <2>5. Queued(d)'
    BY <1>9, <1>11, <2>3, <2>4
  <2>6. QED BY <2>3, <2>5 DEF DropQueued, Dropping
<1>15. ASSUME NEW x \in removed', <<"job", x>> \notin disturbed', NEW u \in Users,
              <<"user", u>> \notin blind', Listed(<<"user", u>>, x)'
       PROVE  DropQueued(x)' \/ DropWorked(x)'
  <2>1. Listed(<<"user", u>>, x)
    BY <1>2, <1>15 DEF Listed
  <2>2. DropQueued(x) \/ DropWorked(x)
    BY <1>2, <1>15, <2>1 DEF LeaveInv
  <2>3. PICK d : Dropping(d, x) /\ (Queued(d) \/ Worked(d))
    BY <2>2 DEF DropQueued, DropWorked
  <2>4. Queued(d)' \/ Worked(d)'
    BY <1>9, <1>10, <1>11, <2>3
  <2>5. QED BY <2>3, <2>4 DEF DropQueued, DropWorked, Dropping
<1>16. ASSUME NEW x \in Posts, NEW u \in Users, Saved(u, x)', NEW j, Dropping(j, x),
              Waiting(j)' \/ Handled(j)' \/ Queued(j)' \/ Worked(j)'
       PROVE  j.user = u
  BY <1>7, <1>8, <1>9, <1>10, <1>13, <1>16 DEF LeaveInv
<1>17. QED BY <1>14, <1>15, <1>16 DEF LeaveInv, Dropping

LEMMA LeaveEnqueue ==
    ASSUME StoreInv, OrderInv, LeaveInv, NEW c \in Procs, Enqueue(c) PROVE LeaveInv'
<1> DEFINE j == now[c]
           n == Len(queue)
<1> USE DEF OrderInv
<1>1. /\ c \in Callers /\ Busy(c) /\ j \in Job /\ ~Busy(c)'
      /\ pending' = pending /\ now' = now /\ store' = store
      /\ \A q \in Callers \cup Workers : Busy(q)' => Busy(q)
      /\ queue' = Append(queue, j) /\ queue \in Seq(Job)
      /\ disturbed' = disturbed /\ blind' = blind
      /\ removed' = removed \/ (j.op = "delete" /\ removed' = removed \cup {j.on})
  BY EnqueueIs DEF Procs
<1>2. Handled(j) /\ \A q \in Procs \ {c} : todo'[q] = todo[q]
  <2>1. Run(c)
    BY DEF Run
  <2>2. QED BY <1>1, <2>1, RunFrame DEF Handled
<1>3. /\ n \in Nat /\ DOMAIN queue = 1..n /\ DOMAIN queue' = 1..(n + 1)
      /\ queue'[n + 1] = j /\ \A i \in 1..n : queue'[i] = queue[i]
  BY <1>1
<1> HIDE DEF n
<1>4. ASSUME NEW r PROVE Queued(r)' <=> (Queued(r) \/ r = j)
  BY <1>3 DEF Queued
<1>5. c \notin Workers
  BY <1>1, MonolithAssumption
<1>6. \A w \in Workers : Busy(w)' <=> Busy(w)
  BY <1>2, <1>5 DEF Busy, Procs
<1>7. \A r : /\ Waiting(r)' => Waiting(r)
             /\ Handled(r)' => Handled(r)
             /\ Worked(r)' <=> Worked(r)
  BY <1>1, <1>6 DEF Waiting, Handled, Worked
<1>8. \A u, x : Listed(<<"user", u>>, x)' <=> Listed(<<"user", u>>, x)
  BY <1>1 DEF Listed
<1>9. ASSUME NEW x \in Posts, NEW u \in Users, Saved(u, x)', NEW d, Dropping(d, x),
             Waiting(d)' \/ Handled(d)' \/ Queued(d)' \/ Worked(d)'
      PROVE  d.user = u
  <2>1. Waiting(d) \/ Handled(d) \/ Queued(d) \/ Worked(d)
    BY <1>2, <1>4, <1>7, <1>9
  <2>2. CASE Saved(u, x)
    BY <1>9, <2>1, <2>2 DEF LeaveInv
  <2>3. CASE ~Saved(u, x)
    <3>1. j.op = "save" /\ j.user = u /\ j.on = x
      BY <1>4, <1>7, <1>8, <1>9, <2>3 DEF Saved
    <3>2. d \in Job /\ d.op = "delete" /\ d.on = x /\ About(j, d)
      BY <1>9, <3>1 DEF Dropping, About
    <3>3. ~Queued(d) /\ ~Worked(d)
      BY <1>1, <1>2, <3>1, <3>2 DEF JobsInv
    <3>4. ~Handled(d)
      <4>1. SUFFICES ASSUME NEW e \in Callers, Busy(e), now[e] = d PROVE FALSE
        BY DEF Handled
      <4>2. e = c
        BY <1>1, <3>2, <4>1 DEF OwnInv
      <4>3. QED BY <3>1, <3>2, <4>1, <4>2
    <3>5. PICK e \in Callers : \E i \in DOMAIN pending[e] : pending[e][i] = d
      BY <2>1, <3>3, <3>4 DEF Waiting
    <3>6. QED BY <1>1, <3>1, <3>2, <3>5 DEF OwnInv
  <2>4. QED BY <2>2, <2>3
<1>10. ASSUME NEW x \in removed', x \notin removed PROVE DropQueued(x)'
  BY <1>1, <1>4, <1>10 DEF DropQueued, Dropping
<1>11. ASSUME NEW x, DropQueued(x) \/ DropWorked(x)
       PROVE  (DropQueued(x) => DropQueued(x)') /\ (DropWorked(x) => DropWorked(x)')
  BY <1>4, <1>7 DEF DropQueued, DropWorked, Dropping
<1>12. ASSUME NEW x \in removed', <<"job", x>> \notin disturbed', NEW q \in Job,
              q.op = "save", q.on = x, Queued(q)' \/ Worked(q)'
       PROVE  DropQueued(x)'
  <2>1. CASE x \in removed
    <3>1. q # j
      BY <1>1, <1>2, <1>12, <2>1 DEF JobsInv
    <3>2. DropQueued(x)
      BY <1>1, <1>4, <1>7, <1>12, <2>1, <3>1 DEF LeaveInv
    <3>3. QED BY <1>11, <3>2
  <2>2. QED BY <1>10, <1>12, <2>1
<1>13. ASSUME NEW x \in removed', <<"job", x>> \notin disturbed', NEW u \in Users,
              <<"user", u>> \notin blind', Listed(<<"user", u>>, x)'
       PROVE  DropQueued(x)' \/ DropWorked(x)'
  <2>1. CASE x \in removed
    <3>1. DropQueued(x) \/ DropWorked(x)
      BY <1>1, <1>8, <1>13, <2>1 DEF LeaveInv
    <3>2. QED BY <1>11, <3>1
  <2>2. QED BY <1>10, <1>13, <2>1
<1>14. QED BY <1>9, <1>12, <1>13 DEF LeaveInv, Dropping

LEMMA LeaveInit == Init => LeaveInv
<1> SUFFICES ASSUME Init PROVE LeaveInv
  OBVIOUS
<1>1. \A u \in Users : \A x : ~Listed(<<"user", u>>, x)
  <2>1. \A u \in Users : <<"user", u>> \in Keys \ FollowKeys
    BY DEF Keys, FollowKeys
  <2>2. \A u \in Users : store[<<"user", u>>] = Missing
    BY <2>1, StoreAtStart
  <2>3. QED BY <2>2 DEF Listed
<1>2. queue = <<>> /\ removed = {} /\ \A p \in Procs : ~Busy(p)
  BY DEF Init, Busy
<1>3. \A j : ~Queued(j) /\ ~Worked(j)
  BY <1>2 DEF Queued, Worked, Procs
<1>4. QED BY <1>1, <1>2, <1>3 DEF LeaveInv, Saved

LEMMA LeaveNext == StoreInv /\ OrderInv /\ LeaveInv /\ [Next]_vars => LeaveInv'
<1> SUFFICES ASSUME StoreInv, OrderInv, LeaveInv, [Next]_vars PROVE LeaveInv'
  OBVIOUS
<1>1. CASE vars' = vars
  <2>1. \A r : /\ Waiting(r)' <=> Waiting(r)
               /\ Handled(r)' <=> Handled(r)
               /\ Queued(r)' <=> Queued(r)
               /\ Worked(r)' <=> Worked(r)
    BY <1>1 DEF vars, Waiting, Handled, Queued, Worked, Busy
  <2>2. /\ removed' = removed /\ disturbed' = disturbed /\ blind' = blind
        /\ \A u, x : Listed(<<"user", u>>, x)' <=> Listed(<<"user", u>>, x)
    BY <1>1 DEF vars, Listed
  <2>3. \A u, x : Saved(u, x)' <=> Saved(u, x)
    BY <2>1, <2>2 DEF Saved
  <2>4. \A x : (DropQueued(x)' <=> DropQueued(x)) /\ (DropWorked(x)' <=> DropWorked(x))
    BY <2>1 DEF DropQueued, DropWorked, Dropping
  <2>5. QED BY <2>1, <2>2, <2>3, <2>4 DEF LeaveInv, Dropping
<1>2. ASSUME NEW c \in Callers, Call(c) PROVE LeaveInv'
  BY <1>2, LeaveCall
<1>3. ASSUME NEW w \in Workers, Take(w) PROVE LeaveInv'
  BY <1>3, LeaveTake DEF OrderInv
<1>4. ASSUME NEW p \in Procs, Run(p) PROVE LeaveInv'
  BY <1>4, LeaveRun, LeaveEnqueue
<1>5. QED BY <1>1, <1>2, <1>3, <1>4 DEF Next

(* DeletedLeavesTimeline holds for every number of callers and workers and  *)
(* every size of the channel: once the workers are idle, a post whose       *)
(* deletion has been answered is off its author's timeline, unless its jobs *)
(* overlapped or failed or the timeline was overwritten without an ETag.    *)
THEOREM DeletedLeaves == Spec => []DeletedLeavesTimeline
<1>1. LeaveInv => DeletedLeavesTimeline
  <2> SUFFICES ASSUME LeaveInv, Idle, NEW x \in removed, NEW u \in Users,
                      <<"job", x>> \notin disturbed, <<"user", u>> \notin blind,
                      Listed(<<"user", u>>, x)
               PROVE  FALSE
    BY DEF DeletedLeavesTimeline
  <2>1. ~DropQueued(x) /\ ~DropWorked(x)
    BY DEF Idle, DropQueued, DropWorked, Queued, Worked, Procs
  <2>2. QED BY <2>1 DEF LeaveInv
<1>2. QED BY <1>1, LeaveInit, LeaveNext, OrderInit, OrderNext, StoreHolds, PTL DEF Spec

-----------------------------------------------------------------------------
(* Followees and followers.                                                  *)

\* An element that is added is the last of the list, and stays.
LEMMA AddedIs ==
    ASSUME NEW S, NEW list \in Seq(S), NEW x \in S
    PROVE  x \in ToSet(Edited("add", list, x))
<1> DEFINE a == Append(list, x)
           n == Len(a)
           m == IF n > MaxFollows THEN n - MaxFollows + 1 ELSE 1
           new == SubSeq(a, m, n)
<1>1. a \in Seq(S) /\ n \in Nat \ {0} /\ a[n] = x
  OBVIOUS
<1>2. MaxFollows \in Nat \ {0}
  BY MonolithAssumption
<1>3. Edited("add", list, x) = new
  BY DEF Edited, Latest
<1> HIDE DEF a
<1>4. m \in Nat \ {0} /\ m <= n
  BY <1>1, <1>2
<1> HIDE DEF m
<1>5. \A i \in m..n : i \in 1..n /\ a[i] \in S
  BY <1>1, <1>4
<1>6. /\ Len(new) = n - m + 1 /\ new \in Seq(S)
      /\ new[n - m + 1] = a[m + (n - m + 1) - 1]
  BY <1>1, <1>4, <1>5, SubSeqProperties
<1>7. m + (n - m + 1) - 1 = n /\ n - m + 1 \in 1..(n - m + 1)
  BY <1>1, <1>4
<1> HIDE DEF new
<1>8. DOMAIN new = 1..(n - m + 1)
  BY <1>6
<1>9. QED BY <1>1, <1>3, <1>6, <1>7, <1>8 DEF ToSet

\* The pair an entry of a follow list stands for.
PairOf(k, x) == IF k[1] = "followees" THEN <<k[2], x>> ELSE <<x, k[2]>>

\* A step changes an entry of a follow list by the edit that is for it, or
\* trims it from a full list.
LEMMA EntryKeeps ==
    ASSUME StoreInv, NEW p \in Procs, Run(p), NEW k \in FollowKeys, NEW x \in Users,
           k \notin blind', PairOf(k, x) \notin disturbed'
    PROVE  IF Save(p) /\ Step(p).key = k /\ Step(p).arg = x
           THEN Listed(k, x)' <=> Step(p).edit = "add"
           ELSE Listed(k, x)' <=> Listed(k, x)
<1>1. k \in Keys /\ DOMAIN store = Keys
  BY DEF FollowKeys, Keys, StoreInv, Typed
<1>2. CASE Save(p) /\ Step(p).key = k
  <2> DEFINE list == got[p].list
             arg == Step(p).arg
             edit == Step(p).edit
             new == Edited(edit, list, arg)
             dropped == ToSet(Append(list, arg)) \ ToSet(new)
             S == Held(k)
  <2>1. /\ ToSave(p) /\ got[p].phase \in {"fresh", "noetag"}
        /\ store' = [store EXCEPT ![k] = new]
        /\ blind' = IF got[p].phase = "noetag" /\ store[k] # Missing
                    THEN blind \cup {k} ELSE blind
        /\ disturbed' = disturbed \cup
              (IF edit # "add" THEN {} ELSE
                 {IF k[1] = "followees" THEN <<k[2], y>> ELSE <<y, k[2]>> : y \in dropped})
    BY <1>2 DEF Save, SaveAccepted, Write
  <2>2. /\ Step(p) \in EditSteps /\ list \in Seq(S) /\ arg \in S /\ new \in Seq(S)
        /\ edit \in EditNames
        /\ got[p].phase = "fresh" => list = store[k]
        /\ got[p].phase = "noetag" => list = <<>>
    BY <1>2, <2>1, SaveFacts
  <2>3. edit \in {"add", "drop"}
    BY <1>2, <2>2, EditKinds
  <2>4. new # Missing
    BY <1>1, <2>2, NotMissing
  <2>5. list # Missing
    BY <1>1, <2>2, NotMissing
  <2>6. store'[k] = new
    BY <1>1, <2>1
  <2>7. edit = "add" => \A y \in dropped : PairOf(k, y) \in disturbed'
    BY <2>1 DEF PairOf
  <2>8. got[p].phase = "noetag" => store[k] = Missing
    BY <2>1
  <2> HIDE DEF list, arg, edit, S
  <2>9. /\ ToSet(new) \subseteq ToSet(list) \cup {arg}
        /\ edit \in {"drop", "unpost"} => ToSet(new) = ToSet(list) \ {arg}
    <3>1. list \in Seq(S) /\ arg \in S /\ edit \in EditNames
      BY <2>2
    <3>2. QED BY <3>1, EditedIs
  <2>10. edit = "add" => arg \in ToSet(new)
    BY <2>2, AddedIs
  <2> HIDE DEF new
  <2>11. /\ \A y : Contains(new, y) <=> y \in ToSet(new)
         /\ \A y : Contains(list, y) <=> y \in ToSet(list)
         /\ ToSet(Append(list, arg)) = ToSet(list) \cup {arg}
    BY <2>2, Elements
  <2>12. Listed(k, x)' <=> x \in ToSet(new)
    BY <2>4, <2>6, <2>11 DEF Listed
  <2>13. Listed(k, x) <=> x \in ToSet(list)
    <3>1. CASE got[p].phase = "fresh"
      BY <2>2, <2>5, <2>11, <3>1 DEF Listed
    <3>2. CASE got[p].phase = "noetag"
      BY <2>2, <2>8, <3>2 DEF Listed, ToSet
    <3>3. QED BY <2>1, <3>1, <3>2
  <2>14. CASE edit = "drop"
    BY <1>2, <2>9, <2>12, <2>13, <2>14 DEF arg, edit
  <2>15. CASE edit = "add"
    <3>1. x \notin dropped
      BY <2>7, <2>15
    <3>2. CASE x = arg
      BY <1>2, <2>10, <2>12, <2>15, <3>2 DEF arg, edit
    <3>3. CASE x # arg
      BY <1>2, <2>9, <2>11, <2>12, <2>13, <2>15, <3>1, <3>3 DEF arg
    <3>4. QED BY <3>2, <3>3
  <2>16. QED BY <2>3, <2>14, <2>15
<1>3. CASE ~(Save(p) /\ Step(p).key = k)
  <2>1. store'[k] = store[k]
    <3>1. CASE Save(p)
      BY <1>1, <1>3, <3>1 DEF Save, Write
    <3>2. CASE Store(p)
      <4>1. /\ Busy(p) /\ Step(p).kind = "put"
            /\ store' = [store EXCEPT ![Step(p).key] = Step(p).arg]
        BY <3>2 DEF Store, Write, At
      <4>2. Step(p).key # k
        BY <4>1, WhoDoes, PutKinds
      <4>3. QED BY <1>1, <4>1, <4>2
    <3>3. CASE Delete(p)
      <4>1. /\ Busy(p) /\ Step(p).kind = "del"
            /\ store' = [store EXCEPT ![Step(p).key] = Missing]
        BY <3>3 DEF Delete, Write, At
      <4>2. Step(p).key # k
        <5>1. Step(p) \in DelSteps
          BY <4>1, WhoDoes
        <5>2. \A s \in DelSteps : s.key \notin FollowKeys
          BY DEF DelSteps, StepSet, PostItems, FollowKeys
        <5>3. QED BY <5>1, <5>2
      <4>3. QED BY <1>1, <4>1, <4>2
    <3>4. QED BY <3>1, <3>2, <3>3, Writers
  <2>2. QED BY <1>3, <2>1 DEF Listed
<1>4. QED BY <1>2, <1>3

\* What a step leaves of the others' reads.
LEMMA OthersRead ==
    ASSUME StoreInv, NEW p \in Procs, Run(p), NEW q \in Procs \ {p}
    PROVE  /\ got'[q].list = got[q].list
           /\ got'[q].phase = got[q].phase \/ (got[q].phase = "fresh" /\ got'[q].phase = "stale")
<1>1. got \in [Procs -> Read]
  BY DEF StoreInv, Typed
<1>2. CASE \E k, list, mine : Write(p, k, list, mine)
  <2>1. PICK k, list, mine : Write(p, k, list, mine)
    BY <1>2
  <2>2. got'[q] = IF got[q].phase = "fresh" /\ Step(q).key = k
                  THEN [got[q] EXCEPT !.phase = "stale"] ELSE got[q]
    BY <2>1 DEF Write
  <2>3. got[q] \in Read
    BY <1>1
  <2>4. QED BY <2>2, <2>3 DEF Read
<1>3. CASE \E mine : got' = [got EXCEPT ![p] = mine]
  BY <1>1, <1>3
<1>4. CASE got' = got
  BY <1>4
<1>5. Save(p) \/ Store(p) \/ Delete(p) => \E k, list, mine : Write(p, k, list, mine)
  BY DEF Save, Store, Delete
<1>6. Save(p) \/ Store(p) \/ Delete(p)
      \/ (\E mine : got' = [got EXCEPT ![p] = mine]) \/ got' = got
  BY DEF Run, Get, NoChange, Retry, GiveUp, Confirm, Check, Enqueue, Fanout, ReadTimeline,
         ReadPost, Fault, Fail
<1>7. QED BY <1>2, <1>3, <1>4, <1>5, <1>6

\* c writes the two lists of the pair <<u, v>>.
Pairing(c) == c \in Callers /\ Busy(c) /\ now[c].op \in {"follow", "unfollow", "register"}
On(c, u, v) == Pairing(c) /\ Subject(c) = <<u, v>>
Adds(c) == now[c].op # "unfollow"
Change(c) == IF Adds(c) THEN "add" ELSE "drop"

\* The first list is written and the second is not.
Half(c) == \/ Len(todo[c]) = 1 /\ got[c].phase # "confirm"
           \/ Len(todo[c]) = 2 /\ got[c].phase = "confirm"

\* What c has read still says whether the entry it is about is there.
ReadRight(c) ==
    HasRead(c) => (Contains(got[c].list, Step(c).arg) <=> Listed(Step(c).key, Step(c).arg))

Fol(u, v)   == Listed(<<"followees", u>>, v)
Lower(u, v) == Listed(<<"followers", v>>, u)

Settled(u, v) == /\ <<u, v>> \notin disturbed
                 /\ {<<"followees", u>>, <<"followers", v>>} \cap blind = {}

PairInv(u, v) ==
    Settled(u, v) =>
        /\ \A c : On(c, u, v) => ReadRight(c) /\ (Half(c) => (Fol(u, v) <=> Adds(c)))
        /\ (\A c : On(c, u, v) => ~Half(c)) => (Fol(u, v) <=> Lower(u, v))

\* Two callers at one pair disturb each other.
Alone == \A c, d : (c # d /\ Pairing(c) /\ Pairing(d) /\ Subject(c) = Subject(d))
                       => Subject(c) \in disturbed

MatchInv == Alone /\ \A u, v \in Users : PairInv(u, v)

\* Where c is in its program.
First(c, u, v)  == Len(todo[c]) = 2 /\ Step(c) = Edit(<<"followees", u>>, Change(c), v)
Second(c, u, v) == Len(todo[c]) = 1 /\ Step(c) = Edit(<<"followers", v>>, Change(c), u)
Before(c)       == Len(todo[c]) \in 3..4 /\ Step(c).kind \in {"check", "put"}

LEMMA PairSteps ==
    ASSUME StoreInv, NEW c, NEW u, NEW v, On(c, u, v)
    PROVE  /\ u \in Users /\ v \in Users /\ c \in Procs /\ todo[c] \in Seq(Steps)
           /\ First(c, u, v) \/ Second(c, u, v) \/ Before(c)
<1>1. /\ c \in Callers /\ Busy(c) /\ now[c].op \in {"follow", "unfollow", "register"}
      /\ c \in Procs /\ c \notin Workers /\ Subject(c) = <<u, v>>
  BY MonolithAssumption DEF On, Pairing, Procs
<1>2. now[c] \in Request /\ Calling(now[c], todo[c]) /\ todo[c] \in Seq(Steps)
  BY <1>1, StepIs
<1> DEFINE r == now[c]
           t == todo[c]
<1>3. CASE r.op \in {"follow", "unfollow"}
  <2>1. Subject(c) = <<r.user, r.on>>
    BY <1>1, <1>3 DEF Subject
  <2>2. u = r.user /\ v = r.on /\ u \in Users /\ v \in Users
    BY <1>1, <1>2, <1>3, <2>1, RequestIs
  <2>3. Pairs(r, t, Change(c))
    BY <1>2, <1>3 DEF Calling, Change, Adds
  <2>4. QED BY <1>1, <1>2, <2>2, <2>3 DEF Pairs, First, Second, Step
<1>4. CASE r.op = "register"
  <2>1. Subject(c) = <<r.user, r.user>>
    BY <1>1, <1>4 DEF Subject
  <2>2. u = r.user /\ v = r.user /\ u \in Users
    BY <1>1, <1>2, <1>4, <2>1, RequestIs
  <2>3. Registers(r, t) /\ Change(c) = "add"
    BY <1>2, <1>4 DEF Calling, Change, Adds
  <2>4. QED BY <1>1, <1>2, <2>2, <2>3 DEF Registers, First, Second, Before, Step
<1>5. QED BY <1>1, <1>3, <1>4

LEMMA EditFields ==
    \A k, e, x : /\ Edit(k, e, x).key = k /\ Edit(k, e, x).edit = e /\ Edit(k, e, x).arg = x
                 /\ Edit(k, e, x).kind = "edit"
BY DEF Edit, Do

LEMMA WhoPairs ==
    ASSUME StoreInv, NEW p \in Procs, Busy(p), Step(p) \in EditSteps, NEW u, NEW v,
           \/ Step(p).key = <<"followees", u>> /\ Step(p).arg = v
           \/ Step(p).key = <<"followers", v>> /\ Step(p).arg = u,
           Step(p).key \in FollowKeys
    PROVE  On(p, u, v)
<1>1. Pairing(p)
  BY WhoEdits DEF Pairing
<1>2. \E x, y : Subject(p) = <<x, y>>
  BY <1>1 DEF Pairing, Subject
<1>3. PICK x, y : On(p, x, y)
  BY <1>1, <1>2 DEF On
<1>4. First(p, x, y) \/ Second(p, x, y) \/ Before(p)
  BY <1>3, PairSteps
<1>5. Step(p).kind = "edit"
  BY KindIs
<1>6. \/ Step(p).key = <<"followees", x>> /\ Step(p).arg = y
      \/ Step(p).key = <<"followers", y>> /\ Step(p).arg = x
  BY <1>4, <1>5, EditFields DEF First, Second, Before
<1>7. x = u /\ y = v
  BY <1>6
<1>8. QED BY <1>3, <1>7

\* A step that is not one of the pair's own leaves the pair as it is.
LEMMA OthersPair ==
    ASSUME StoreInv, NEW p \in Procs, Run(p), NEW u \in Users, NEW v \in Users,
           PairInv(u, v), ~On(p, u, v)
    PROVE  PairInv(u, v)'
<1> SUFFICES ASSUME Settled(u, v)' PROVE PairInv(u, v)'
  BY DEF PairInv
<1>1. /\ pending' = pending /\ now' = now /\ disturbed \subseteq disturbed'
      /\ blind \subseteq blind'
      /\ \A q \in Procs \ {p} : todo'[q] = todo[q]
      /\ \A q \in Procs : Busy(q)' => Busy(q)
  BY RunFrame
<1>2. Settled(u, v)
  BY <1>1 DEF Settled
<1>3. /\ <<"followees", u>> \in FollowKeys /\ <<"followers", v>> \in FollowKeys
      /\ <<"followees", u>> \notin blind' /\ <<"followers", v>> \notin blind'
      /\ PairOf(<<"followees", u>>, v) \notin disturbed'
      /\ PairOf(<<"followers", v>>, u) \notin disturbed'
  BY DEF FollowKeys, Settled, PairOf
<1>4. ASSUME NEW k \in {<<"followees", u>>, <<"followers", v>>}, NEW x,
             Save(p), Step(p).key = k, Step(p).arg = x,
             (k = <<"followees", u>> /\ x = v) \/ (k = <<"followers", v>> /\ x = u)
      PROVE  FALSE
  <2>1. Busy(p) /\ Step(p) \in EditSteps
    BY <1>4, SaveFacts DEF Save
  <2>2. Step(p).key \in FollowKeys
    BY <1>3, <1>4
  <2>3. QED BY <1>4, <2>1, <2>2, WhoPairs
<1>5. (Fol(u, v)' <=> Fol(u, v)) /\ (Lower(u, v)' <=> Lower(u, v))
  BY <1>3, <1>4, EntryKeeps DEF Fol, Lower
<1>6. ASSUME NEW c, On(c, u, v)' PROVE c # p /\ On(c, u, v) /\ c \in Procs
  <2>1. c \in Callers /\ Busy(c)' /\ now'[c].op \in {"follow", "unfollow", "register"}
    BY <1>6 DEF On, Pairing
  <2>2. Subject(c)' = Subject(c)
    BY <1>1 DEF Subject
  <2>3. On(c, u, v)
    BY <1>1, <1>6, <2>1, <2>2 DEF On, Pairing, Procs
  <2>4. QED BY <2>1, <2>3 DEF Procs
<1>7. ASSUME NEW c, On(c, u, v), c # p PROVE On(c, u, v)'
  <2>1. c \in Callers /\ c \in Procs
    BY <1>7 DEF On, Pairing, Procs
  <2>2. Busy(c)' /\ Subject(c)' = Subject(c)
    BY <1>1, <1>7, <2>1 DEF Busy, Subject, On, Pairing
  <2>3. QED BY <1>1, <1>7, <2>2 DEF On, Pairing
<1>8. ASSUME NEW c \in Procs \ {p}
      PROVE  /\ Step(c)' = Step(c) /\ (Half(c)' <=> Half(c)) /\ (HasRead(c)' <=> HasRead(c))
             /\ got'[c].list = got[c].list
  <2>1. todo'[c] = todo[c]
    BY <1>1
  <2>2. QED BY <2>1, OthersRead DEF Step, Half, HasRead, At, Busy
<1>9. ASSUME NEW c, On(c, u, v)', HasRead(c)'
      PROVE  Contains(got'[c].list, Step(c)'.arg) <=> Listed(Step(c).key, Step(c).arg)'
  <2>1. c \in Procs \ {p} /\ On(c, u, v)
    BY <1>6, <1>9
  <2>2. /\ Step(c)' = Step(c) /\ HasRead(c) /\ got'[c].list = got[c].list
    BY <1>8, <1>9, <2>1
  <2>3. \/ Step(c).key = <<"followees", u>> /\ Step(c).arg = v
        \/ Step(c).key = <<"followers", v>> /\ Step(c).arg = u
    <3>1. Step(c).kind = "edit"
      BY <2>2 DEF HasRead, At
    <3>2. First(c, u, v) \/ Second(c, u, v) \/ Before(c)
      BY <2>1, PairSteps
    <3>3. QED BY <3>1, <3>2, EditFields DEF First, Second, Before
  <2>4. Listed(Step(c).key, Step(c).arg)' <=> Listed(Step(c).key, Step(c).arg)
    BY <1>5, <2>2, <2>3 DEF Fol, Lower
  <2>5. ReadRight(c)
    BY <1>2, <2>1 DEF PairInv
  <2>6. QED BY <2>2, <2>4, <2>5 DEF ReadRight
<1>10. ASSUME NEW c, On(c, u, v)', Half(c)' PROVE Fol(u, v)' <=> Adds(c)'
  <2>1. c \in Procs \ {p} /\ On(c, u, v)
    BY <1>6, <1>10
  <2>2. Half(c) /\ (Adds(c)' <=> Adds(c))
    BY <1>1, <1>8, <1>10, <2>1 DEF Adds
  <2>3. QED BY <1>2, <1>5, <2>1, <2>2 DEF PairInv
<1>11. ASSUME \A c : On(c, u, v)' => ~Half(c)' PROVE Fol(u, v)' <=> Lower(u, v)'
  <2>1. ASSUME NEW c, On(c, u, v) PROVE ~Half(c)
    <3>1. c \in Procs \ {p} /\ On(c, u, v)'
      BY <1>7, <2>1 DEF On, Pairing, Procs
    <3>2. QED BY <1>8, <1>11, <3>1
  <2>2. QED BY <1>2, <1>5, <2>1 DEF PairInv
<1>12. QED BY <1>9, <1>10, <1>11 DEF PairInv, ReadRight

\* The steps a caller at a pair takes while nothing disturbs it.
LEMMA PairMoves ==
    ASSUME StoreInv, NEW p, NEW u, NEW v, On(p, u, v), Run(p), <<u, v>> \notin disturbed'
    PROVE  /\ ~Fail(p)
           /\ \/ Get(p) \/ NoChange(p) \/ Save(p) \/ Retry(p) \/ Confirm(p)
              \/ Store(p) \/ Check(p)
<1>1. /\ p \in Procs /\ p \in Callers /\ p \notin Workers /\ Busy(p) /\ Subject(p) = <<u, v>>
      /\ now[p].op \in {"follow", "unfollow", "register"}
  BY MonolithAssumption DEF On, Pairing, Procs
<1>2. ~Fail(p)
  BY <1>1 DEF Fail
<1>3. Step(p).kind \notin {"list", "show", "fanout", "send", "del"}
  BY <1>1, WhoDoes
<1>4. QED BY <1>1, <1>2, <1>3 DEF Run, GiveUp, Delete, Enqueue, Fanout, ReadTimeline,
                                  ReadPost, Fault, At

\* The caller's own steps keep the pair.
LEMMA OwnPair ==
    ASSUME StoreInv, Alone, NEW p, NEW u, NEW v, On(p, u, v), Run(p), PairInv(u, v)
    PROVE  PairInv(u, v)'
<1> SUFFICES ASSUME Settled(u, v)' PROVE PairInv(u, v)'
  BY DEF PairInv
<1> DEFINE n == Len(todo[p])
<1>1. /\ p \in Procs /\ p \in Callers /\ Busy(p) /\ u \in Users /\ v \in Users
      /\ todo[p] \in Seq(Steps) /\ todo[p] # <<>> /\ n \in Nat \ {0}
      /\ First(p, u, v) \/ Second(p, u, v) \/ Before(p)
  <2>1. p \in Procs /\ p \in Callers /\ Busy(p) /\ todo[p] \in Seq(Steps) /\ todo[p] # <<>>
    BY PairSteps DEF On, Pairing, Busy
  <2>2. u \in Users /\ v \in Users /\ (First(p, u, v) \/ Second(p, u, v) \/ Before(p))
    BY PairSteps
  <2>3. n \in Nat \ {0}
    BY <2>1
  <2>4. QED BY <2>1, <2>2, <2>3
<1>2. /\ now' = now /\ disturbed \subseteq disturbed' /\ blind \subseteq blind'
      /\ \A q \in Procs : Busy(q)' => Busy(q)
  BY <1>1, RunFrame
<1>3. Settled(u, v) /\ <<u, v>> \notin disturbed'
  BY <1>2 DEF Settled
<1>4. ASSUME NEW c, On(c, u, v) PROVE c = p
  BY <1>3, <1>4 DEF Alone, On, Settled
<1>5. ASSUME NEW c, On(c, u, v)' PROVE c = p
  <2>1. c \in Callers /\ c \in Procs /\ Busy(c)'
    BY <1>5 DEF On, Pairing, Procs
  <2>2. Subject(c)' = Subject(c)
    BY <1>2 DEF Subject
  <2>3. On(c, u, v)
    BY <1>2, <1>5, <2>1, <2>2 DEF On, Pairing
  <2>4. QED BY <1>4, <2>3
<1>6. Busy(p)' => On(p, u, v)'
  <2>1. Subject(p)' = Subject(p)
    BY <1>2 DEF Subject
  <2>2. QED BY <1>2, <2>1 DEF On, Pairing
<1>7. /\ ReadRight(p)
      /\ Half(p) => (Fol(u, v) <=> Adds(p))
      /\ ~Half(p) => (Fol(u, v) <=> Lower(u, v))
  BY <1>3, <1>4 DEF PairInv
<1>8. /\ First(p, u, v) => n = 2 /\ Step(p).key = <<"followees", u>> /\ Step(p).arg = v
      /\ Second(p, u, v) => n = 1 /\ Step(p).key = <<"followers", v>> /\ Step(p).arg = u
      /\ First(p, u, v) \/ Second(p, u, v) => Step(p).edit = Change(p) /\ Step(p).kind = "edit"
      /\ Before(p) => n \in 3..4 /\ Step(p).kind \in {"check", "put"}
  BY EditFields DEF First, Second, Before
<1>9. /\ Save(p) /\ First(p, u, v) => (Fol(u, v)' <=> Adds(p)) /\ (Lower(u, v)' <=> Lower(u, v))
      /\ Save(p) /\ Second(p, u, v) => (Fol(u, v)' <=> Fol(u, v)) /\ (Lower(u, v)' <=> Adds(p))
      /\ ~Save(p) => (Fol(u, v)' <=> Fol(u, v)) /\ (Lower(u, v)' <=> Lower(u, v))
  <2>1. /\ <<"followees", u>> \in FollowKeys /\ <<"followers", v>> \in FollowKeys
        /\ <<"followees", u>> \notin blind' /\ <<"followers", v>> \notin blind'
        /\ PairOf(<<"followees", u>>, v) \notin disturbed'
        /\ PairOf(<<"followers", v>>, u) \notin disturbed'
    BY <1>1 DEF FollowKeys, Settled, PairOf
  <2>2. IF Save(p) /\ Step(p).key = <<"followees", u>> /\ Step(p).arg = v
        THEN Fol(u, v)' <=> Step(p).edit = "add" ELSE Fol(u, v)' <=> Fol(u, v)
    BY <1>1, <2>1, EntryKeeps DEF Fol
  <2>3. IF Save(p) /\ Step(p).key = <<"followers", v>> /\ Step(p).arg = u
        THEN Lower(u, v)' <=> Step(p).edit = "add" ELSE Lower(u, v)' <=> Lower(u, v)
    BY <1>1, <2>1, EntryKeeps DEF Lower
  <2>4. <<"followees", u>> # <<"followers", v>>
    OBVIOUS
  <2>5. Change(p) = "add" <=> Adds(p)
    BY DEF Change
  <2>6. QED BY <1>8, <2>2, <2>3, <2>4, <2>5
<1>10. SUFFICES /\ Busy(p)' => ReadRight(p)'
                /\ Half(p)' => (Fol(u, v)' <=> Adds(p))
                /\ ~Half(p)' => (Fol(u, v)' <=> Lower(u, v)')
  <2>1. Half(p)' => Busy(p)'
    BY DEF Half, Busy
  <2>2. Adds(p)' <=> Adds(p)
    BY <1>2 DEF Adds
  <2>3. \A c : On(c, u, v)' => c = p /\ Busy(p)'
    BY <1>5 DEF On, Pairing
  <2>4. QED BY <1>6, <1>10, <2>1, <2>2, <2>3 DEF PairInv
<1>11. /\ todo \in [Procs -> Seq(Steps)] /\ got \in [Procs -> Read]
  BY DEF StoreInv, Typed
<1>12. ASSUME Proceed(p, <<>>) PROVE Len(todo'[p]) = n - 1
  <2>1. Tail(todo[p]) \in Seq(Steps) /\ Len(Tail(todo[p])) = n - 1
    BY <1>1, ListFacts
  <2>2. <<>> \o Tail(todo[p]) = Tail(todo[p])
    BY <2>1, ConcatEmptySeq
  <2>3. todo'[p] = Tail(todo[p])
    BY <1>1, <1>11, <1>12, <2>2 DEF Proceed
  <2>4. QED BY <2>1, <2>3
<1> HIDE DEF n
<1>13. n = 2 <=> First(p, u, v)
  BY <1>1, <1>8
\* A step that is done leaves nothing read.
<1>14. ASSUME Len(todo'[p]) = n - 1, got'[p].phase = "none",
              Before(p) => (Fol(u, v)' <=> Fol(u, v)) /\ (Lower(u, v)' <=> Lower(u, v)),
              First(p, u, v) => (Fol(u, v)' <=> Adds(p)),
              Second(p, u, v) => (Fol(u, v)' <=> Lower(u, v)')
       PROVE  /\ Busy(p)' => ReadRight(p)'
              /\ Half(p)' => (Fol(u, v)' <=> Adds(p))
              /\ ~Half(p)' => (Fol(u, v)' <=> Lower(u, v)')
  <2>1. ReadRight(p)'
    BY <1>14 DEF ReadRight, HasRead
  <2>2. Half(p)' <=> n = 2
    BY <1>1, <1>14 DEF Half
  <2>3. Before(p) => n # 2 /\ ~Half(p)
    BY <1>8 DEF Half, n
  <2>4. QED BY <1>1, <1>7, <1>8, <1>14, <2>1, <2>2, <2>3
<1>15. CASE Get(p)
  <2> DEFINE k == Step(p).key
  <2>1. /\ got[p] = NoRead /\ todo' = todo /\ store' = store
        /\ got' = [got EXCEPT ![p] =
              IF store[k] = Missing THEN [phase |-> "noetag", list |-> <<>>]
              ELSE [phase |-> "fresh", list |-> store[k]]]
    BY <1>3, <1>15, PairMoves DEF Get
  <2> HIDE DEF k
  <2>2. /\ got'[p].phase \in {"noetag", "fresh"}
        /\ got'[p].list = IF store[k] = Missing THEN <<>> ELSE store[k]
    BY <1>1, <1>11, <2>1
  <2>3. got[p].phase = "none"
    BY <2>1 DEF NoRead
  <2>4. Half(p)' <=> Half(p)
    BY <2>1, <2>2, <2>3 DEF Half
  <2>5. \A x : ~Contains(<<>>, x)
    BY DEF Contains
  <2>6. Step(p)' = Step(p)
    BY <2>1 DEF Step
  <2>7. ReadRight(p)'
    BY <2>1, <2>2, <2>5, <2>6 DEF ReadRight, Listed, k
  <2>8. ~Save(p)
    BY <2>3 DEF Save, ToSave, HasRead
  <2>9. QED BY <1>7, <1>9, <2>4, <2>7, <2>8
<1>16. CASE NoChange(p)
  <2>1. /\ HasRead(p) /\ NothingToSave(Step(p).edit, got[p].list, Step(p).arg)
        /\ Proceed(p, <<>>) /\ got' = [got EXCEPT ![p] = NoRead]
    BY <1>16 DEF NoChange
  <2>2. Len(todo'[p]) = n - 1 /\ got'[p].phase = "none"
    BY <1>1, <1>11, <1>12, <2>1 DEF NoRead
  <2>3. ~Save(p) /\ ~Before(p)
    BY <1>8, <2>1 DEF Save, ToSave, HasRead, At
  <2>4. Listed(Step(p).key, Step(p).arg) <=> Adds(p)
    <3>1. Step(p).edit = Change(p)
      BY <1>1, <1>8, <2>3
    <3>2. QED BY <1>7, <2>1, <3>1 DEF ReadRight, NothingToSave, Change
  <2>5. ASSUME First(p, u, v) PROVE Fol(u, v)' <=> Adds(p)
    BY <1>8, <1>9, <2>3, <2>4, <2>5 DEF Fol
  <2>6. ASSUME Second(p, u, v) PROVE Fol(u, v)' <=> Lower(u, v)'
    <3>1. Half(p)
      BY <1>8, <2>1, <2>6 DEF Half, HasRead, n
    <3>2. Lower(u, v) <=> Adds(p)
      BY <1>8, <2>4, <2>6 DEF Lower
    <3>3. QED BY <1>7, <1>9, <2>3, <3>1, <3>2
  <2>7. QED BY <1>14, <2>2, <2>3, <2>5, <2>6
<1>17. CASE Save(p)
  <2>1. HasRead(p) /\ SavedStep(p) /\ got'[p] = AfterSave(p)
    BY <1>1, <1>17 DEF Save, ToSave, Write
  <2>2. ~Before(p) /\ got[p].phase # "confirm"
    BY <1>8, <2>1 DEF HasRead, At
  <2>3. First(p, u, v) => (Fol(u, v)' <=> Adds(p))
    BY <1>9, <1>17
  <2>4. ASSUME Second(p, u, v) PROVE Fol(u, v)' <=> Lower(u, v)'
    <3>1. Half(p)
      BY <1>8, <2>2, <2>4 DEF Half, n
    <3>2. QED BY <1>7, <1>9, <1>17, <2>4, <3>1
  <2>5. CASE AfterSave(p) = NoRead
    <3>1. Len(todo'[p]) = n - 1 /\ got'[p].phase = "none"
      BY <1>12, <2>1, <2>5 DEF SavedStep, NoRead
    <3>2. QED BY <1>14, <2>2, <2>3, <2>4, <3>1
  <2>6. CASE AfterSave(p) # NoRead
    <3>1. todo' = todo /\ got'[p].phase = "confirm"
      BY <2>1, <2>6 DEF SavedStep, AfterSave, NoRead
    <3>2. ReadRight(p)'
      BY <3>1 DEF ReadRight, HasRead
    <3>3. Half(p)' <=> n = 2
      BY <3>1 DEF Half, n
    <3>4. QED BY <1>1, <1>13, <2>2, <2>3, <2>4, <3>2, <3>3
  <2>7. QED BY <2>5, <2>6
<1>18. CASE Retry(p)
  <2>1. /\ todo' = todo /\ got' = [got EXCEPT ![p] = NoRead] /\ ~Save(p) /\ HasRead(p)
    BY <1>18 DEF Retry, ToSave, Save
  <2>2. got'[p].phase = "none"
    BY <1>1, <1>11, <2>1 DEF NoRead
  <2>3. Half(p)' <=> Half(p)
    BY <2>1, <2>2 DEF Half, HasRead
  <2>4. ReadRight(p)'
    BY <2>2 DEF ReadRight, HasRead
  <2>5. QED BY <1>7, <1>9, <2>1, <2>3, <2>4
<1>19. CASE Confirm(p)
  <2>1. /\ got[p].phase = "confirm" /\ Proceed(p, <<>>) /\ got' = [got EXCEPT ![p] = NoRead]
    BY <1>3, <1>19, PairMoves DEF Confirm
  <2>2. Len(todo'[p]) = n - 1 /\ got'[p].phase = "none"
    BY <1>1, <1>11, <1>12, <2>1 DEF NoRead
  <2>3. ~Save(p)
    BY <2>1 DEF Save, ToSave, HasRead
  <2>4. Half(p) <=> n = 2
    BY <2>1 DEF Half, n
  <2>5. Second(p, u, v) => ~First(p, u, v)
    BY <1>8
  <2>6. QED BY <1>7, <1>13, <1>9, <1>14, <2>2, <2>3, <2>4, <2>5
<1>20. CASE Store(p)
  <2>1. Step(p).kind = "put" /\ got[p] = NoRead /\ SavedStep(p) /\ got'[p] = AfterSave(p)
    BY <1>1, <1>20 DEF Store, At, Write
  <2>2. ~Save(p) /\ ~First(p, u, v) /\ ~Second(p, u, v)
    BY <1>8, <2>1 DEF Save, ToSave, HasRead, At
  <2>3. CASE AfterSave(p) = NoRead
    <3>1. Len(todo'[p]) = n - 1 /\ got'[p].phase = "none"
      BY <1>12, <2>1, <2>3 DEF SavedStep, NoRead
    <3>2. QED BY <1>9, <1>14, <2>2, <3>1
  <2>4. CASE AfterSave(p) # NoRead
    <3>1. todo' = todo /\ got'[p].phase = "confirm"
      BY <2>1, <2>4 DEF SavedStep, AfterSave, NoRead
    <3>2. ReadRight(p)'
      BY <3>1 DEF ReadRight, HasRead
    <3>3. n \in 3..4
      BY <1>1, <1>8, <2>2
    <3>4. n # 1 /\ n # 2
      BY <3>3
    <3>5. ~Half(p) /\ ~Half(p)'
      BY <3>1, <3>4 DEF Half, n
    <3>6. QED BY <1>7, <1>9, <2>2, <3>2, <3>5
  <2>5. QED BY <2>3, <2>4
<1>21. CASE Check(p)
  <2>1. /\ Step(p).kind = "check" /\ Proceed(p, <<>>) /\ got' = got
    BY <1>3, <1>21, PairMoves DEF Check, At
  <2>2. got[p] = NoRead
    BY <1>1, <2>1, StepIs
  <2>3. Len(todo'[p]) = n - 1 /\ got'[p].phase = "none"
    BY <1>12, <2>1, <2>2 DEF NoRead
  <2>4. ~Save(p) /\ ~First(p, u, v) /\ ~Second(p, u, v)
    BY <1>8, <2>1 DEF Save, ToSave, HasRead, At
  <2>5. QED BY <1>9, <1>14, <2>3, <2>4
<1>22. QED BY <1>3, <1>15, <1>16, <1>17, <1>18, <1>19, <1>20, <1>21, PairMoves

LEMMA MatchRun ==
    ASSUME StoreInv, MatchInv, NEW p \in Procs, Run(p) PROVE MatchInv'
<1>1. /\ now' = now /\ disturbed \subseteq disturbed'
      /\ \A q \in Callers : Busy(q)' => Busy(q)
  BY RunFrame DEF Procs
<1>2. \A c : (Pairing(c)' => Pairing(c)) /\ Subject(c)' = Subject(c)
  BY <1>1 DEF Pairing, Subject
<1>3. Alone'
  BY <1>1, <1>2 DEF MatchInv, Alone
<1>4. ASSUME NEW u \in Users, NEW v \in Users PROVE PairInv(u, v)'
  BY OwnPair, OthersPair DEF MatchInv
<1>5. QED BY <1>3, <1>4 DEF MatchInv

\* A pair is left as it is while its lists, and the callers at it, are.
LEMMA PairFrame ==
    ASSUME NEW u, NEW v, PairInv(u, v),
           UNCHANGED <<store, blind, got>>, disturbed \subseteq disturbed',
           NEW p, ~On(p, u, v), On(p, u, v)' => ~Half(p)' /\ ~HasRead(p)',
           \A c : c # p => /\ On(c, u, v)' <=> On(c, u, v)
                           /\ On(c, u, v) => todo'[c] = todo[c] /\ now'[c] = now[c]
    PROVE  PairInv(u, v)'
<1> SUFFICES ASSUME Settled(u, v)' PROVE PairInv(u, v)'
  BY DEF PairInv
<1>1. Settled(u, v)
  BY DEF Settled
<1>2. (Fol(u, v)' <=> Fol(u, v)) /\ (Lower(u, v)' <=> Lower(u, v))
  BY DEF Fol, Lower, Listed
<1>3. ASSUME NEW c, c # p, On(c, u, v)
      PROVE  /\ Half(c)' <=> Half(c)
             /\ Adds(c)' <=> Adds(c)
             /\ ReadRight(c)' <=> ReadRight(c)
  <2>1. todo'[c] = todo[c] /\ now'[c] = now[c] /\ got' = got /\ store' = store
    BY <1>3
  <2>2. Step(c)' = Step(c)
    BY <2>1 DEF Step
  <2>3. QED BY <2>1, <2>2 DEF Half, Adds, ReadRight, HasRead, At, Busy, Listed
<1>4. ASSUME NEW c, On(c, u, v)'
      PROVE  ReadRight(c)' /\ (Half(c)' => (Fol(u, v)' <=> Adds(c)'))
  <2>1. CASE c = p
    BY <1>4, <2>1 DEF ReadRight
  <2>2. CASE c # p
    BY <1>1, <1>2, <1>3, <1>4, <2>2 DEF PairInv
  <2>3. QED BY <2>1, <2>2
<1>5. ASSUME \A c : On(c, u, v)' => ~Half(c)' PROVE Fol(u, v)' <=> Lower(u, v)'
  <2>1. \A c : On(c, u, v) => ~Half(c)
    BY <1>3, <1>5
  <2>2. QED BY <1>1, <1>2, <2>1 DEF PairInv
<1>6. QED BY <1>4, <1>5 DEF PairInv

LEMMA MatchCall ==
    ASSUME StoreInv, MatchInv, NEW c \in Callers, Call(c) PROVE MatchInv'
<1>1. /\ ~Busy(c) /\ now'[c] = pending[c][1] /\ 1 \in DOMAIN pending[c]
      /\ \A q \in Procs \ {c} : now'[q] = now[q] /\ todo'[q] = todo[q]
      /\ UNCHANGED <<store, blind>> /\ disturbed \subseteq disturbed'
  BY CallIs
<1>2. c \in Procs /\ got' = got /\ got[c] = NoRead
  BY <1>1, IdleIs DEF Procs, Call
<1>3. ASSUME NEW d \in Callers, d # c
      PROVE  /\ Subject(d)' = Subject(d) /\ now'[d] = now[d] /\ todo'[d] = todo[d]
             /\ Pairing(d)' <=> Pairing(d)
  <2>1. now'[d] = now[d] /\ todo'[d] = todo[d]
    BY <1>1, <1>3 DEF Procs
  <2>2. QED BY <1>3, <2>1 DEF Subject, Pairing, Busy
<1>4. disturbed' = disturbed \cup
         (IF {q \in Procs \ {c} : Busy(q) /\ Subject(q) = Subject(c)'} = {}
          THEN {} ELSE {Subject(c)'})
  BY DEF Call, Begin
<1>5. ASSUME NEW d \in Callers, d # c, Pairing(d), Subject(d) = Subject(c)'
      PROVE  Subject(c)' \in disturbed'
  <2>1. d \in {q \in Procs \ {c} : Busy(q) /\ Subject(q) = Subject(c)'}
    BY <1>5 DEF Pairing, Procs
  <2>2. QED BY <1>4, <2>1
<1>6. ASSUME NEW a, NEW b, a # b, Pairing(a)', Pairing(b)', Subject(a)' = Subject(b)'
      PROVE  Subject(a)' \in disturbed'
  <2>1. a \in Callers /\ b \in Callers
    BY <1>6 DEF Pairing
  <2>2. CASE a # c /\ b # c
    BY <1>1, <1>3, <1>6, <2>1, <2>2 DEF MatchInv, Alone
  <2>3. CASE a = c
    BY <1>3, <1>5, <1>6, <2>1, <2>3
  <2>4. CASE b = c
    BY <1>3, <1>5, <1>6, <2>1, <2>4
  <2>5. QED BY <2>2, <2>3, <2>4
<1>7. ASSUME Pairing(c)' PROVE ~Half(c)' /\ ~HasRead(c)'
  <2> DEFINE r == pending[c][1]
             P == Program(c, r)
  <2>1. r \in Request /\ todo' = [todo EXCEPT ![c] = P] /\ DOMAIN todo = Procs
    <3>1. pending[c] \in Seq(Request) /\ pending[c] # <<>> /\ DOMAIN todo = Procs
      BY DEF Call, StoreInv, Typed
    <3>2. Head(pending[c]) = r /\ r \in Request
      BY <3>1
    <3>3. QED BY <3>1, <3>2 DEF Call, Begin
  <2>2. r.op \in {"follow", "unfollow", "register"}
    BY <1>1, <1>7 DEF Pairing
  <2> HIDE DEF r
  <2>3. P \in {Follow(r.user, r.on), Unfollow(r.user, r.on), Register(c, r.user)}
    BY <2>1, <2>2, ProgramIs
  <2>4. Len(P) \in {2, 4}
    <3>1. \A x, y : Len(Follow(x, y)) = 2 /\ Len(Unfollow(x, y)) = 2
      BY DEF Follow, Unfollow
    <3>2. Len(Register(c, r.user)) = 4
      BY <2>1, RequestIs, RegisterIs
    <3>3. QED BY <2>3, <3>1, <3>2
  <2>5. todo'[c] = P
    BY <1>2, <2>1
  <2>6. got'[c].phase = "none"
    BY <1>2 DEF NoRead
  <2>7. QED BY <2>4, <2>5, <2>6 DEF Half, HasRead
<1>8. ASSUME NEW u \in Users, NEW v \in Users PROVE PairInv(u, v)'
  <2>1. ~On(c, u, v) /\ (On(c, u, v)' => ~Half(c)' /\ ~HasRead(c)')
    BY <1>1, <1>7 DEF On, Pairing
  <2>2. ASSUME NEW d, d # c
        PROVE  /\ On(d, u, v)' <=> On(d, u, v)
               /\ On(d, u, v) => todo'[d] = todo[d] /\ now'[d] = now[d]
    BY <1>3, <2>2 DEF On, Pairing
  <2>3. PairInv(u, v) /\ UNCHANGED <<store, blind, got>>
    BY <1>1, <1>2 DEF MatchInv
  <2>4. QED BY <1>1, <2>1, <2>2, <2>3, PairFrame
<1>9. QED BY <1>6, <1>8 DEF MatchInv, Alone

LEMMA MatchTake ==
    ASSUME StoreInv, MatchInv, NEW w \in Workers, Take(w) PROVE MatchInv'
<1>1. w \notin Callers
  BY MonolithAssumption
<1>2. /\ \A q \in Procs \ {w} : now'[q] = now[q] /\ todo'[q] = todo[q]
      /\ UNCHANGED <<store, blind, got>> /\ disturbed \subseteq disturbed'
  BY TakeIs DEF Take
<1>3. ASSUME NEW d \in Callers
      PROVE  /\ Subject(d)' = Subject(d) /\ now'[d] = now[d] /\ todo'[d] = todo[d]
             /\ Pairing(d)' <=> Pairing(d)
  <2>1. now'[d] = now[d] /\ todo'[d] = todo[d]
    BY <1>1, <1>2, <1>3 DEF Procs
  <2>2. QED BY <1>3, <2>1 DEF Subject, Pairing, Busy
<1>4. Alone'
  BY <1>2, <1>3 DEF MatchInv, Alone, Pairing
<1>5. ASSUME NEW u \in Users, NEW v \in Users PROVE PairInv(u, v)'
  <2>1. ~On(w, u, v) /\ ~On(w, u, v)'
    BY <1>1 DEF On, Pairing
  <2>2. ASSUME NEW d, d # w
        PROVE  /\ On(d, u, v)' <=> On(d, u, v)
               /\ On(d, u, v) => todo'[d] = todo[d] /\ now'[d] = now[d]
    BY <1>3 DEF On, Pairing
  <2>3. PairInv(u, v)
    BY DEF MatchInv
  <2>4. QED BY <1>2, <2>1, <2>2, <2>3, PairFrame
<1>6. QED BY <1>4, <1>5 DEF MatchInv

LEMMA MatchInit == Init => MatchInv
<1> SUFFICES ASSUME Init PROVE MatchInv
  OBVIOUS
<1>1. \A p \in Procs : ~Busy(p)
  BY DEF Init, Busy
<1>2. \A c : ~Pairing(c)
  BY <1>1 DEF Pairing, Procs
<1>3. ASSUME NEW u \in Users, NEW v \in Users PROVE Fol(u, v) <=> Lower(u, v)
  <2> DEFINE A == {f[2] : f \in Chosen(u)}
             B == {f[1] : f \in Choosing(v)}
  <2>1. Friends \subseteq Users \X Users
    BY MonolithAssumption
  <2>2. v \in A <=> <<u, v>> \in Friends
    BY <2>1 DEF Chosen
  <2>3. u \in B <=> <<u, v>> \in Friends
    BY <2>1 DEF Choosing
  <2>4. /\ store[<<"followees", u>>] = IF Chosen(u) # {} THEN SetToSeq(A) ELSE Missing
        /\ store[<<"followers", v>>] = IF Choosing(v) # {} THEN SetToSeq(B) ELSE Missing
        /\ SetToSeq(A) \in Seq(Users) /\ ToSet(SetToSeq(A)) = A
        /\ SetToSeq(B) \in Seq(Users) /\ ToSet(SetToSeq(B)) = B
    BY StoreAtStart, FriendLists
  <2>5. (Chosen(u) = {} => A = {}) /\ (Choosing(v) = {} => B = {})
    OBVIOUS
  <2> HIDE DEF A, B
  <2>6. SetToSeq(A) # Missing /\ SetToSeq(B) # Missing
    BY <2>4, MonolithAssumption
  <2>7. (\A x : Contains(SetToSeq(A), x) <=> x \in A) /\ (\A x : Contains(SetToSeq(B), x) <=> x \in B)
    BY <2>4, Elements
  <2>8. Fol(u, v) <=> v \in A
    BY <2>4, <2>5, <2>6, <2>7 DEF Fol, Listed
  <2>9. Lower(u, v) <=> u \in B
    BY <2>4, <2>5, <2>6, <2>7 DEF Lower, Listed
  <2>10. QED BY <2>2, <2>3, <2>8, <2>9
<1>4. QED BY <1>2, <1>3 DEF MatchInv, Alone, PairInv, On

LEMMA MatchNext == StoreInv /\ MatchInv /\ [Next]_vars => MatchInv'
<1> SUFFICES ASSUME StoreInv, MatchInv, [Next]_vars PROVE MatchInv'
  OBVIOUS
<1>1. CASE vars' = vars
  <2>1. /\ now' = now /\ todo' = todo /\ UNCHANGED <<store, blind, got>>
        /\ disturbed' = disturbed
    BY <1>1 DEF vars
  <2>2. \A c : /\ Pairing(c)' <=> Pairing(c)
               /\ Subject(c)' = Subject(c)
    BY <2>1 DEF Pairing, Busy, Subject
  <2>3. \A c, u, v : On(c, u, v)' <=> On(c, u, v)
    BY <2>2 DEF On
  <2>4. ASSUME NEW u \in Users, NEW v \in Users PROVE PairInv(u, v)'
    <3>1. /\ (Fol(u, v)' <=> Fol(u, v)) /\ (Lower(u, v)' <=> Lower(u, v))
          /\ Settled(u, v)' <=> Settled(u, v)
      BY <2>1 DEF Fol, Lower, Listed, Settled
    <3>2. \A c : (Half(c)' <=> Half(c)) /\ (Adds(c)' <=> Adds(c))
      BY <2>1 DEF Half, Adds
    <3>3. \A c : ReadRight(c)' <=> ReadRight(c)
      BY <2>1 DEF ReadRight, HasRead, At, Busy, Step, Listed
    <3>4. QED BY <2>3, <3>1, <3>2, <3>3 DEF MatchInv, PairInv
  <2>5. Alone'
    BY <2>1, <2>2 DEF MatchInv, Alone
  <2>6. QED BY <2>4, <2>5 DEF MatchInv
<1>2. ASSUME NEW c \in Callers, Call(c) PROVE MatchInv'
  BY <1>2, MatchCall
<1>3. ASSUME NEW w \in Workers, Take(w) PROVE MatchInv'
  BY <1>3, MatchTake
<1>4. ASSUME NEW p \in Procs, Run(p) PROVE MatchInv'
  BY <1>4, MatchRun
<1>5. QED BY <1>1, <1>2, <1>3, <1>4 DEF Next

(* FollowsMatch holds for every number of callers and every size of the     *)
(* lists: when nothing is under way the two lists of a pair agree, except   *)
(* where a call on the pair failed half way or overlapped with another, a   *)
(* full list lost the entry, or a list was overwritten without an ETag.     *)
THEOREM FollowListsMatch == Spec => []FollowsMatch
<1>1. MatchInv => FollowsMatch
  <2> SUFFICES ASSUME MatchInv, Idle, NEW u \in Users, NEW v \in Users, Settled(u, v)
               PROVE  Fol(u, v) <=> Lower(u, v)
    BY DEF FollowsMatch, Settled, Fol, Lower
  <2>1. \A c : ~On(c, u, v)
    BY DEF Idle, On, Pairing, Procs
  <2>2. QED BY <2>1 DEF MatchInv, PairInv
<1>2. QED BY <1>1, MatchInit, MatchNext, StoreHolds, PTL DEF Spec
=============================================================================
