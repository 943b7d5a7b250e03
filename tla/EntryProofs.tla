----------------------------- MODULE EntryProofs -----------------------------
(***************************************************************************)
(* Proofs about the entry-path probe, for all programs in SSA form and all *)
(* options: that the flow of function values finds the registrations, and  *)
(* that what is skipped has a reason.                                      *)
(***************************************************************************)
EXTENDS EntryProbe, FiniteSetTheorems, SequenceTheorems, WellFoundedInduction, TLAPS

(* Numbers, sets in an order, and lists of lists.                          *)

LEMMA Least ==
    ASSUME NEW T, T \subseteq Nat, T # {}
    PROVE  \E m \in T : \A n \in T : m <= n
<1>1. PICK m \in T : \A w \in T : ~(<<w, m>> \in OpToRel(<, Nat))
  BY NatLessThanWellFounded, WFMin
<1>2. ASSUME NEW w \in T
      PROVE  ~(w < m)
  <2>1. w \in Nat /\ m \in Nat
    OBVIOUS
  <2>2. w < m => <<w, m>> \in OpToRel(<, Nat)
    BY <2>1, Zenon DEF OpToRel
  <2>3. QED
    BY <1>1, <2>2, Zenon
<1>3. QED
  BY <1>2

\* A set with zero and the successors of its members holds every number.
LEMMA Climbing ==
    ASSUME NEW T, 0 \in T, \A n \in Nat : n \in T => n + 1 \in T
    PROVE  Nat \subseteq T
<1> DEFINE M == {n \in Nat : n \notin T}
<1>1. SUFFICES ASSUME M # {} PROVE FALSE
  OBVIOUS
<1>2. PICK m \in M : \A n \in M : m <= n
  BY <1>1, Least
<1>3. m \in Nat /\ m # 0 /\ m \notin T
  OBVIOUS
<1>4. m - 1 \in Nat /\ m - 1 \notin M /\ (m - 1) + 1 = m
  BY <1>2, <1>3
<1>5. QED
  BY <1>3, <1>4

\* A strict order on a set, as pairs; and how many come before an element.
StrictOrder(s, before) ==
    /\ \A x \in s : <<x, x>> \notin before
    /\ \A x, y \in s : x # y => <<x, y>> \in before \/ <<y, x>> \in before
    /\ \A x, y, z \in s : <<x, y>> \in before /\ <<y, z>> \in before => <<x, z>> \in before
Ahead(s, before, x) == {y \in s : <<y, x>> \in before}
Rank(s, before, x) == Cardinality(Ahead(s, before, x))

LEMMA RankGrows ==
    ASSUME NEW s, IsFiniteSet(s), NEW before, StrictOrder(s, before)
    PROVE  /\ \A x \in s : Rank(s, before, x) \in 0..Cardinality(s) - 1
           /\ \A x, y \in s :
                 <<x, y>> \in before => Rank(s, before, x) < Rank(s, before, y)
<1>1. /\ Cardinality(s) \in Nat
      /\ \A t \in SUBSET s : IsFiniteSet(t) /\ Cardinality(t) \in Nat
  BY FS_CardinalityType, FS_Subset
<1>2. ASSUME NEW x \in s
      PROVE  Rank(s, before, x) \in 0..Cardinality(s) - 1
  <2>1. Ahead(s, before, x) \in SUBSET s /\ x \notin Ahead(s, before, x)
    BY DEF Ahead, StrictOrder
  <2>2. /\ Cardinality(Ahead(s, before, x)) <= Cardinality(s)
        /\ Cardinality(Ahead(s, before, x)) # Cardinality(s)
    BY <2>1, FS_Subset
  <2>3. QED
    BY <1>1, <2>1, <2>2 DEF Rank
<1>3. ASSUME NEW x \in s, NEW y \in s, <<x, y>> \in before
      PROVE  Rank(s, before, x) < Rank(s, before, y)
  <2>1. Ahead(s, before, x) \in SUBSET Ahead(s, before, y)
    BY <1>3 DEF Ahead, StrictOrder
  <2>2. /\ x \in Ahead(s, before, y) /\ x \notin Ahead(s, before, x)
        /\ Ahead(s, before, y) \in SUBSET s
    BY <1>3 DEF Ahead, StrictOrder
  <2>3. /\ Cardinality(Ahead(s, before, x)) <= Cardinality(Ahead(s, before, y))
        /\ Cardinality(Ahead(s, before, x)) # Cardinality(Ahead(s, before, y))
    BY <1>1, <2>1, <2>2, FS_Subset
  <2>4. /\ Cardinality(Ahead(s, before, x)) \in Nat
        /\ Cardinality(Ahead(s, before, y)) \in Nat
    BY <1>1, <2>1, <2>2
  <2>5. QED
    BY <2>3, <2>4 DEF Rank
<1>4. QED
  BY <1>2, <1>3

\* A finite set in a strict order: each element once, and in order.
LEMMA InOrderLists ==
    ASSUME NEW s, IsFiniteSet(s), NEW before, StrictOrder(s, before)
    PROVE  /\ InOrder(s, before) \in Seq(s) /\ ToSet(InOrder(s, before)) = s
           /\ Cardinality(s) \in Nat /\ Len(InOrder(s, before)) = Cardinality(s)
           /\ \A i, j \in 1..Cardinality(s) :
                 i < j => <<InOrder(s, before)[i], InOrder(s, before)[j]>> \in before
<1> DEFINE N == Cardinality(s)
           rank == [x \in s |-> Rank(s, before, x) + 1]
           A == InOrder(s, before)
<1>1. N \in Nat /\ \A x \in s : Rank(s, before, x) \in 0..N - 1
  BY FS_CardinalityType, RankGrows
<1>2. rank \in [s -> 1..N]
  BY <1>1
<1>3. \A x, y \in s : rank[x] = rank[y] => x = y
  <2>1. ASSUME NEW x \in s, NEW y \in s, Rank(s, before, x) + 1 = Rank(s, before, y) + 1
        PROVE  x = y
    <3>1. Rank(s, before, x) \in Int /\ Rank(s, before, y) \in Int
      BY <1>1
    <3>2. /\ ~(Rank(s, before, x) < Rank(s, before, y))
          /\ ~(Rank(s, before, y) < Rank(s, before, x))
      BY <2>1, <3>1
    <3>3. <<x, y>> \notin before /\ <<y, x>> \notin before
      BY <3>2, RankGrows
    <3>4. QED
      BY <3>3 DEF StrictOrder
  <2>2. QED
    BY <2>1
<1>4. rank \in Injection(s, 1..N)
  BY <1>2, <1>3 DEF Injection, IsInjective
<1>5. IsFiniteSet(1..N) /\ Cardinality(1..N) = N
  BY <1>1, FS_Interval
<1>6. rank \in Surjection(s, 1..N)
  BY <1>4, <1>5, FS_Injection
<1>7. \A i \in 1..N : \E x \in s : rank[x] = i
  BY <1>6 DEF Surjection
<1> DEFINE At(i) == CHOOSE x \in s : Cardinality({y \in s : <<y, x>> \in before}) = i - 1
<1>8. ASSUME NEW i \in 1..N
      PROVE  At(i) \in s /\ rank[At(i)] = i
  <2>1. PICK x \in s : rank[x] = i
    BY <1>7
  <2>2. Cardinality({y \in s : <<y, x>> \in before}) = i - 1
    <3>1. Rank(s, before, x) + 1 = i /\ Rank(s, before, x) \in Int
      BY <1>1, <2>1
    <3>2. QED
      BY <3>1 DEF Rank, Ahead
  <2>3. At(i) \in s /\ Cardinality({y \in s : <<y, At(i)>> \in before}) = i - 1
    BY <2>2
  <2>4. Rank(s, before, At(i)) = i - 1
    BY <2>3 DEF Rank, Ahead
  <2>5. QED
    BY <2>3, <2>4
<1>9. A = [i \in 1..N |-> At(i)]
  BY DEF InOrder
<1> HIDE DEF At, rank, A
<1>10. A \in [1..N -> s]
  BY <1>8, <1>9
<1>11. A \in Seq(s) /\ DOMAIN A = 1..N
  BY <1>1, <1>10, SeqDef
<1>12. ASSUME NEW x \in s
       PROVE  \E i \in 1..N : A[i] = x
  <2>1. rank[x] \in 1..N
    BY <1>2
  <2>2. At(rank[x]) = x
    BY <1>3, <1>8, <2>1
  <2>3. QED
    BY <1>9, <2>1, <2>2
<1>13. ToSet(A) = s
  BY <1>10, <1>11, <1>12 DEF ToSet
<1>14. ASSUME NEW i \in 1..N, NEW j \in 1..N, i < j
       PROVE  <<A[i], A[j]>> \in before
  <2>1. /\ A[i] = At(i) /\ A[j] = At(j)
        /\ At(i) \in s /\ At(j) \in s /\ rank[At(i)] = i /\ rank[At(j)] = j
    BY <1>8, <1>9
  <2>2. \A x \in s : Rank(s, before, x) = rank[x] - 1
    BY <1>1 DEF rank
  <2>3. ~(Rank(s, before, At(j)) < Rank(s, before, At(i))) /\ At(i) # At(j)
    <3>1. Rank(s, before, At(i)) = i - 1 /\ Rank(s, before, At(j)) = j - 1
      BY <2>1, <2>2
    <3>2. i \in Int /\ j \in Int
      BY <1>1
    <3>3. QED
      BY <1>14, <2>1, <3>1, <3>2
  <2>4. <<At(j), At(i)>> \notin before
    BY <2>1, <2>3, RankGrows
  <2>5. QED
    BY <2>1, <2>3, <2>4 DEF StrictOrder
<1>15. Len(A) = N
  BY <1>1, <1>11
<1>16. QED
  BY <1>1, <1>11, <1>13, <1>14, <1>15 DEF A

\* A finite set of numbers, listed: each of them, nothing else, and in order.
LEMMA AscendingLists ==
    ASSUME NEW s, s \subseteq Nat, IsFiniteSet(s)
    PROVE  /\ Ascending(s) \in Seq(s) /\ ToSet(Ascending(s)) = s
           /\ Cardinality(s) \in Nat /\ Len(Ascending(s)) = Cardinality(s)
           /\ \A i, j \in 1..Cardinality(s) : i < j => Ascending(s)[i] < Ascending(s)[j]
<1> DEFINE R == {p \in s \X s : p[1] < p[2]}
<1>1. StrictOrder(s, R)
  <2>1. \A x, y \in s : <<x, y>> \in R <=> x < y
    OBVIOUS
  <2> HIDE DEF R
  <2>2. \A x \in s : x \in Nat
    OBVIOUS
  <2>3. QED
    BY <2>1, <2>2 DEF StrictOrder
<1>2. \A x \in s : {y \in s : <<y, x>> \in R} = {y \in s : y < x}
  OBVIOUS
<1>3. Ascending(s) = InOrder(s, R)
  <2> DEFINE P(x, i) == Cardinality({y \in s : y < x}) = i - 1
             Q(x, i) == Cardinality({y \in s : <<y, x>> \in R}) = i - 1
  <2>1. \A i : \A x \in s : P(x, i) <=> Q(x, i)
    BY <1>2
  <2> HIDE DEF P, Q, R
  <2>2. \A i : (CHOOSE x \in s : P(x, i)) = (CHOOSE x \in s : Q(x, i))
    BY <2>1, Zenon
  <2>3. [i \in 1..Cardinality(s) |-> CHOOSE x \in s : P(x, i)]
        = [i \in 1..Cardinality(s) |-> CHOOSE x \in s : Q(x, i)]
    BY <2>2
  <2>4. QED
    BY <2>3 DEF P, Q, Ascending, InOrder
<1>4. \A x, y : <<x, y>> \in R => x < y
  OBVIOUS
<1> HIDE DEF R
<1>5. QED
  BY <1>1, <1>3, <1>4, InOrderLists

\* One list after another.
LEMMA JoinedSet ==
    ASSUME NEW S, NEW a \in Seq(S), NEW b \in Seq(S)
    PROVE  a \o b \in Seq(S) /\ ToSet(a \o b) = ToSet(a) \cup ToSet(b)
<1>1. PICK m, n, c :
         /\ m \in Nat /\ n \in Nat
         /\ m = Len(a) /\ n = Len(b) /\ c = a \o b
         /\ DOMAIN a = 1..m /\ DOMAIN b = 1..n
  <2>1. Len(a) \in Nat /\ DOMAIN a = 1..Len(a)
    OBVIOUS
  <2>2. Len(b) \in Nat /\ DOMAIN b = 1..Len(b)
    OBVIOUS
  <2>3. QED
    BY <2>1, <2>2
<1>2. /\ c \in Seq(S) /\ DOMAIN c = 1..(m + n) /\ Len(c) = m + n
      /\ \A i \in 1..(m + n) : c[i] = IF i <= m THEN a[i] ELSE b[i - m]
  BY <1>1
<1>3. ASSUME NEW i \in 1..(m + n)
      PROVE  \/ i \in 1..m /\ i <= m /\ c[i] = a[i]
             \/ i - m \in 1..n /\ ~(i <= m) /\ c[i] = b[i - m]
  BY <1>1, <1>2
<1>4. ToSet(c) \subseteq ToSet(a) \cup ToSet(b)
  <2>1. ASSUME NEW i \in 1..(m + n)
        PROVE  c[i] \in ToSet(a) \cup ToSet(b)
    BY <1>1, <1>3 DEF ToSet
  <2>2. QED
    BY <1>2, <2>1 DEF ToSet
<1>5. ToSet(a) \subseteq ToSet(c)
  <2>1. ASSUME NEW i \in 1..m
        PROVE  a[i] \in ToSet(c)
    <3>1. i \in 1..(m + n) /\ i <= m
      BY <1>1
    <3>2. c[i] = a[i]
      BY <1>2, <3>1
    <3>3. QED
      BY <1>2, <3>1, <3>2 DEF ToSet
  <2>2. QED
    BY <1>1, <2>1 DEF ToSet
<1>6. ToSet(b) \subseteq ToSet(c)
  <2>1. ASSUME NEW i \in 1..n
        PROVE  b[i] \in ToSet(c)
    <3>1. PICK j : j = i + m
      OBVIOUS
    <3>2. j \in 1..(m + n) /\ ~(j <= m) /\ j - m = i
      BY <1>1, <3>1
    <3>3. c[j] = b[i]
      BY <1>2, <3>2
    <3>4. QED
      BY <1>2, <3>2, <3>3 DEF ToSet
  <2>2. QED
    BY <1>1, <2>1 DEF ToSet
<1>7. QED
  BY <1>1, <1>2, <1>4, <1>5, <1>6

\* A function from a first value by steps exists, and any two agree.
Stepwise(N, b, step, f) == f[0] = b /\ \A i \in 1..N : f[i] = step[i][f[i - 1]]

LEMMA Recursion ==
    ASSUME NEW N \in Nat, NEW S, NEW b \in S, NEW step \in [1..N -> [S -> S]]
    PROVE  \E f \in [0..N -> S] : Stepwise(N, b, step, f)
<1> DEFINE OK(n, f) == f[0] = b /\ \A i \in 1..n : f[i] = step[i][f[i - 1]]
           T == {n \in Nat : n <= N => \E f \in [0..n -> S] : OK(n, f)}
<1>1. 0 \in T
  <2>1. [i \in 0..0 |-> b] \in [0..0 -> S] /\ OK(0, [i \in 0..0 |-> b])
    OBVIOUS
  <2>2. QED
    BY <2>1
<1>2. ASSUME NEW n \in Nat, n \in T
      PROVE  n + 1 \in T
  <2>1. SUFFICES ASSUME n + 1 <= N
                 PROVE  \E f \in [0..(n + 1) -> S] : OK(n + 1, f)
    OBVIOUS
  <2>2. PICK f \in [0..n -> S] : OK(n, f)
    BY <1>2, <2>1
  <2> DEFINE g == [i \in 0..(n + 1) |-> IF i = n + 1 THEN step[n + 1][f[n]] ELSE f[i]]
  <2>3. step[n + 1][f[n]] \in S
    BY <2>1
  <2>4. g \in [0..(n + 1) -> S]
    BY <2>3
  <2>5. ASSUME NEW i \in 1..(n + 1)
        PROVE  g[i] = step[i][g[i - 1]]
    <3>1. CASE i = n + 1
      <4>1. i \in 0..(n + 1) /\ i - 1 \in 0..(n + 1) /\ i - 1 = n /\ n # n + 1
        BY <3>1
      <4>2. g[i] = step[n + 1][f[n]] /\ g[i - 1] = f[n]
        BY <3>1, <4>1
      <4> HIDE DEF g
      <4>3. QED
        BY <3>1, <4>2
    <3>2. CASE i # n + 1
      <4>1. i \in 1..n /\ i - 1 \in 0..n /\ i - 1 # n + 1
        BY <3>2
      <4>2. g[i] = f[i] /\ g[i - 1] = f[i - 1]
        BY <4>1
      <4>3. f[i] = step[i][f[i - 1]]
        BY <2>2, <4>1
      <4> HIDE DEF g
      <4>4. QED
        BY <4>2, <4>3
    <3>3. QED
      BY <3>1, <3>2
  <2>6. g[0] = b
    BY <2>2
  <2>7. QED
    BY <2>4, <2>5, <2>6
<1>3. N \in T
  <2> HIDE DEF T
  <2>1. QED
    BY <1>1, <1>2, Climbing
<1>4. QED
  BY <1>3 DEF Stepwise

\* Lists one after another have the elements of each.
LEMMA ConcatIs ==
    ASSUME NEW S, NEW lists \in Seq(Seq(S))
    PROVE  /\ Concat(lists) \in Seq(S)
           /\ ToSet(Concat(lists)) = UNION {ToSet(lists[k]) : k \in DOMAIN lists}
<1> DEFINE N == Len(lists)
           upto == CHOOSE g : g = [n \in 0..N |-> IF n = 0 THEN <<>> ELSE g[n - 1] \o lists[n]]
           step == [n \in 1..N |-> [s \in Seq(S) |-> s \o lists[n]]]
<1>1. N \in Nat /\ DOMAIN lists = 1..N /\ \A n \in 1..N : lists[n] \in Seq(S)
  OBVIOUS
<1>2. Concat(lists) = upto[N]
  BY DEF Concat
<1>3. step \in [1..N -> [Seq(S) -> Seq(S)]]
  <2>1. \A n \in 1..N : \A s \in Seq(S) : s \o lists[n] \in Seq(S)
    BY <1>1
  <2>2. QED
    BY <2>1
<1>4. PICK f \in [0..N -> Seq(S)] :
          f[0] = <<>> /\ \A n \in 1..N : f[n] = step[n][f[n - 1]]
  <2>1. <<>> \in Seq(S)
    OBVIOUS
  <2> HIDE DEF step, N
  <2>2. \E f \in [0..N -> Seq(S)] : Stepwise(N, <<>>, step, f)
    BY <1>1, <1>3, <2>1, Recursion
  <2>3. QED
    BY <2>2 DEF Stepwise
<1>5. f = [n \in 0..N |-> IF n = 0 THEN <<>> ELSE f[n - 1] \o lists[n]]
  <2>1. ASSUME NEW n \in 0..N
        PROVE  f[n] = IF n = 0 THEN <<>> ELSE f[n - 1] \o lists[n]
    <3>1. CASE n = 0
      BY <1>4, <3>1
    <3>2. CASE n # 0
      <4>1. n \in 1..N /\ n - 1 \in 0..N
        BY <1>1, <3>2
      <4>2. f[n - 1] \in Seq(S)
        BY <4>1
      <4>3. QED
        BY <1>4, <3>2, <4>1, <4>2
    <3>3. QED
      BY <3>1, <3>2
  <2> HIDE DEF step, N
  <2>2. QED
    BY <2>1
<1>6. upto = [n \in 0..N |-> IF n = 0 THEN <<>> ELSE upto[n - 1] \o lists[n]]
  <2> HIDE DEF N, step
  <2>1. QED
    BY <1>5
<1> HIDE DEF upto, step
<1> DEFINE All(n) == UNION {ToSet(lists[k]) : k \in 1..n}
           T == {n \in Nat : n <= N => upto[n] \in Seq(S) /\ ToSet(upto[n]) = All(n)}
<1>7. 0 \in T
  <2>1. upto[0] = <<>>
    BY <1>1, <1>6
  <2>2. <<>> \in Seq(S) /\ ToSet(<<>>) = {} /\ All(0) = {}
    BY DEF ToSet
  <2>3. QED
    BY <2>1, <2>2
<1>8. ASSUME NEW n \in Nat, n \in T
      PROVE  n + 1 \in T
  <2>1. SUFFICES ASSUME n + 1 <= N
                 PROVE  upto[n + 1] \in Seq(S) /\ ToSet(upto[n + 1]) = All(n + 1)
    OBVIOUS
  <2>2. n + 1 \in 0..N /\ n + 1 # 0 /\ (n + 1) - 1 = n /\ n + 1 \in 1..N /\ n <= N
    BY <1>1, <2>1
  <2>3. upto[n + 1] = upto[n] \o lists[n + 1]
    BY <1>6, <2>2
  <2>4. upto[n] \in Seq(S) /\ lists[n + 1] \in Seq(S) /\ ToSet(upto[n]) = All(n)
    BY <1>1, <1>8, <2>2
  <2>5. ToSet(upto[n + 1]) = ToSet(upto[n]) \cup ToSet(lists[n + 1])
    BY <2>3, <2>4, JoinedSet
  <2>6. 1..(n + 1) = 1..n \cup {n + 1}
    OBVIOUS
  <2>7. All(n + 1) = All(n) \cup ToSet(lists[n + 1])
    BY <2>6
  <2>8. QED
    BY <2>3, <2>4, <2>5, <2>7
<1>9. N \in T
  <2> HIDE DEF T, N
  <2>1. QED
    BY <1>1, <1>7, <1>8, Climbing
<1>10. QED
  BY <1>1, <1>2, <1>9

-----------------------------------------------------------------------------
(* What a relation leads to.                                               *)

After(X, pairs) == {e[2] : e \in {d \in pairs : d[1] \in X}}
Closed(X, pairs) == \A d \in pairs : d[1] \in X => d[2] \in X

Run(U, s, n, pairs, w) ==
    /\ w \in [0..n -> SUBSET U] /\ w[0] = s
    /\ \A k \in 1..n : w[k] = w[k - 1] \cup After(w[k - 1], pairs)

\* Step by step, what lies within some steps of a set.
LEMMA WithinRuns ==
    ASSUME NEW U, NEW s, NEW n \in Nat, NEW pairs, s \subseteq U, pairs \subseteq U \X U
    PROVE  \E w : Run(U, s, n, pairs, w) /\ Within(s, n, pairs) = w[n]
<1> DEFINE w == CHOOSE g : g = [k \in 0..n |-> IF k = 0 THEN s
                                     ELSE g[k - 1] \cup After(g[k - 1], pairs)]
           step == [k \in 1..n |-> [X \in SUBSET U |-> X \cup After(X, pairs)]]
<1>1. \A X \in SUBSET U : X \cup After(X, pairs) \in SUBSET U
  BY DEF After
<1>2. step \in [1..n -> [SUBSET U -> SUBSET U]]
  BY <1>1
<1>3. PICK f \in [0..n -> SUBSET U] :
          f[0] = s /\ \A k \in 1..n : f[k] = step[k][f[k - 1]]
  <2> HIDE DEF step
  <2>1. \E f \in [0..n -> SUBSET U] : Stepwise(n, s, step, f)
    BY <1>2, Recursion
  <2>2. QED
    BY <2>1 DEF Stepwise
<1>4. \A k \in 1..n : f[k] = f[k - 1] \cup After(f[k - 1], pairs)
  <2>1. ASSUME NEW k \in 1..n
        PROVE  f[k] = f[k - 1] \cup After(f[k - 1], pairs)
    <3>1. k - 1 \in 0..n /\ f[k - 1] \in SUBSET U
      OBVIOUS
    <3>2. QED
      BY <1>3, <3>1
  <2>2. QED
    BY <2>1
<1>5. f = [k \in 0..n |-> IF k = 0 THEN s ELSE f[k - 1] \cup After(f[k - 1], pairs)]
  <2>1. ASSUME NEW k \in 0..n
        PROVE  f[k] = IF k = 0 THEN s ELSE f[k - 1] \cup After(f[k - 1], pairs)
    BY <1>3, <1>4
  <2>2. QED
    BY <2>1
<1>6. w = [k \in 0..n |-> IF k = 0 THEN s ELSE w[k - 1] \cup After(w[k - 1], pairs)]
  BY <1>5
<1>7. Within(s, n, pairs) = w[n]
  BY DEF Within, After
<1> HIDE DEF w, step
<1> DEFINE T == {k \in Nat : k <= n => w[k] \in SUBSET U}
<1>8. 0 \in T
  BY <1>6
<1>9. ASSUME NEW k \in Nat, k \in T
      PROVE  k + 1 \in T
  <2>1. SUFFICES ASSUME k + 1 <= n
                 PROVE  w[k + 1] \in SUBSET U
    OBVIOUS
  <2>2. k + 1 \in 0..n /\ k + 1 # 0 /\ (k + 1) - 1 = k /\ w[k] \in SUBSET U
    BY <1>9, <2>1
  <2>3. w[k + 1] = w[k] \cup After(w[k], pairs)
    BY <1>6, <2>2
  <2>4. QED
    BY <1>1, <2>2, <2>3
<1>10. Nat \subseteq T
  <2> HIDE DEF T
  <2>1. QED
    BY <1>8, <1>9, Climbing
<1>11. w \in [0..n -> SUBSET U]
  <2>1. \A k \in 0..n : w[k] \in SUBSET U
    BY <1>10
  <2>2. w = [k \in 0..n |-> w[k]]
    BY <1>6
  <2>3. QED
    BY <2>1, <2>2
<1>12. w[0] = s /\ \A k \in 1..n : w[k] = w[k - 1] \cup After(w[k - 1], pairs)
  <2>1. w[0] = s
    BY <1>6
  <2>2. ASSUME NEW k \in 1..n
        PROVE  w[k] = w[k - 1] \cup After(w[k - 1], pairs)
    <3>1. k \in 0..n /\ k # 0
      OBVIOUS
    <3>2. QED
      BY <1>6, <3>1
  <2>3. QED
    BY <2>1, <2>2
<1>13. QED
  BY <1>7, <1>11, <1>12 DEF Run

\* Within as many steps as there are things lies the least closed set.
LEMMA WithinCloses ==
    ASSUME NEW U, IsFiniteSet(U), NEW s, NEW pairs, s \subseteq U, pairs \subseteq U \X U
    PROVE  LET R == Within(s, Cardinality(U), pairs)
           IN  /\ R \in SUBSET U /\ s \subseteq R /\ Closed(R, pairs)
               /\ \A V : s \subseteq V /\ Closed(V, pairs) => R \subseteq V
<1> DEFINE N == Cardinality(U)
<1>1. N \in Nat /\ \A S \in SUBSET U : IsFiniteSet(S) /\ Cardinality(S) \in Nat
  BY FS_CardinalityType, FS_Subset
<1> HIDE DEF N
<1>2. PICK w : Run(U, s, N, pairs, w) /\ Within(s, N, pairs) = w[N]
  <2>1. N \in Nat
    BY <1>1
  <2>2. QED
    BY <2>1, WithinRuns
<1>10. /\ w \in [0..N -> SUBSET U] /\ w[0] = s
       /\ \A k \in 1..N : w[k] = w[k - 1] \cup After(w[k - 1], pairs)
  BY <1>2 DEF Run
\* Each step keeps what there is, adds something, or is the last that could.
<1> DEFINE Least_(X) == \A V : s \subseteq V /\ Closed(V, pairs) => X \subseteq V
           T == {n \in Nat : n <= N => /\ s \subseteq w[n] /\ Least_(w[n])
                                       /\ Cardinality(w[n]) >= n \/ Closed(w[n], pairs)}
<1>3. 0 \in T
  <2>1. 0 \in 0..N /\ w[0] \in SUBSET U
    BY <1>1, <1>10
  <2>2. Cardinality(w[0]) >= 0
    BY <1>1, <2>1
  <2>3. QED
    BY <1>10, <2>2
<1>4. ASSUME NEW n \in Nat, n \in T
      PROVE  n + 1 \in T
  <2>1. SUFFICES ASSUME n + 1 <= N
                 PROVE  /\ s \subseteq w[n + 1] /\ Least_(w[n + 1])
                        /\ Cardinality(w[n + 1]) >= n + 1 \/ Closed(w[n + 1], pairs)
    OBVIOUS
  <2>2. n \in 0..N /\ n + 1 \in 0..N /\ n + 1 \in 1..N /\ (n + 1) - 1 = n
    BY <1>1, <2>1
  <2>3. PICK S, X : /\ S = w[n] /\ X = w[n + 1] /\ S \in SUBSET U /\ X \in SUBSET U
                    /\ X = S \cup After(S, pairs)
    BY <1>10, <2>2
  <2>4. s \subseteq S /\ Least_(S) /\ (Cardinality(S) >= n \/ Closed(S, pairs))
    BY <1>1, <1>4, <2>1, <2>2, <2>3
  <2>5. s \subseteq X
    BY <2>3, <2>4
  <2>6. Least_(X)
    <3>1. ASSUME NEW V, s \subseteq V, Closed(V, pairs)
          PROVE  X \subseteq V
      <4>1. S \subseteq V
        BY <2>4, <3>1
      <4>2. QED
        BY <2>3, <3>1, <4>1 DEF Closed, After
    <3>2. QED
      BY <3>1
  <2>7. Cardinality(X) >= n + 1 \/ Closed(X, pairs)
    <3>1. CASE X = S
      <4>1. Closed(X, pairs)
        BY <2>3, <3>1 DEF Closed, After
      <4>2. QED
        BY <4>1
    <3>2. CASE X # S
      <4>1. ~Closed(S, pairs)
        BY <2>3, <3>2 DEF Closed, After
      <4>2. S \in SUBSET X /\ IsFiniteSet(X)
        BY <1>1, <2>3
      <4>3. Cardinality(S) <= Cardinality(X) /\ Cardinality(S) # Cardinality(X)
        BY <3>2, <4>2, FS_Subset
      <4>4. Cardinality(S) \in Nat /\ Cardinality(X) \in Nat
        BY <1>1, <2>3
      <4>5. Cardinality(S) >= n
        BY <2>4, <4>1
      <4>6. QED
        BY <4>3, <4>4, <4>5
    <3>3. QED
      BY <3>1, <3>2
  <2>8. QED
    BY <2>3, <2>5, <2>6, <2>7
<1>5. N \in T
  <2> HIDE DEF T
  <2>1. QED
    BY <1>1, <1>3, <1>4, Climbing
<1>6. /\ s \subseteq w[N] /\ Least_(w[N])
      /\ Cardinality(w[N]) >= N \/ Closed(w[N], pairs)
  BY <1>1, <1>5
<1>7. w[N] \in SUBSET U
  BY <1>1, <1>10
<1>8. Closed(w[N], pairs)
  <2>1. CASE Cardinality(w[N]) >= N
    <3>1. Cardinality(w[N]) <= N /\ (N = Cardinality(w[N]) => U = w[N])
      BY <1>7, FS_Subset DEF N
    <3>2. Cardinality(w[N]) \in Nat
      BY <1>1, <1>7
    <3>3. U = w[N]
      BY <1>1, <2>1, <3>1, <3>2
    <3>4. QED
      BY <3>3 DEF Closed
  <2>2. QED
    BY <1>6, <2>1
<1>9. QED
  BY <1>2, <1>6, <1>7, <1>8 DEF N

LEMMA ImageFinite ==
    ASSUME NEW f, IsFiniteSet(DOMAIN f)
    PROVE  IsFiniteSet({f[x] : x \in DOMAIN f})
<1> DEFINE g == [x \in DOMAIN f |-> f[x]]
           T == {f[x] : x \in DOMAIN f}
<1>1. g \in Surjection(DOMAIN f, T)
  BY DEF Surjection
<1> HIDE DEF g, T
<1>2. IsFiniteSet(T)
  BY <1>1, FS_Surjection
<1>3. QED
  BY <1>2 DEF T

-----------------------------------------------------------------------------
(* The program at hand, and the references in it.                          *)

Vals == DOMAIN prog.val
Kinds == {"store", "return", "capture", "direct_invoke", "call_arg", "go_launch",
          "go_arg", "operand"}
RefType == [owner : Fns, at : Nat, kind : Kinds, arg : Nat, operand : Vals]

LEMMA ProgramIs ==
    ASSUME input \in Inputs
    PROVE  /\ Len(prog.fn) \in Nat /\ Fns = 1..Len(prog.fn) /\ Fns \subseteq Nat
           /\ IsFiniteSet(Fns) /\ Cardinality(Fns) \in Nat /\ 0 \notin Fns
           /\ Vals \subseteq {NoVal} \cup (Fns \X Nat) /\ IsFiniteSet(Vals)
           /\ Cardinality(Vals) \in Nat /\ NoVal \in Vals
           /\ \A v \in Vals : KeyOf(v) \in Nat
           /\ \A f \in Fns : /\ Pkg(f) \in Nat \ {0} /\ prog.fn[f].recv \in BOOLEAN
                             /\ prog.fn[f].params \in Seq(STRING)
                             /\ Code(f) \in Seq(InstrsOn(Fns, Vals)) /\ <<f, 0>> \in Vals
                             /\ \A k \in DOMAIN prog.fn[f].params : <<f, k>> \in Vals
           /\ input.roots \subseteq Fns
<1> DEFINE FnType == [pkg : Nat \ {0}, recv : BOOLEAN, params : Seq(STRING),
                      code : Seq(InstrsOn(Fns, Vals))]
<1>1. /\ prog.fn \in Seq(FnType)
      /\ Vals \subseteq {NoVal} \cup (Fns \X Nat) /\ IsFiniteSet(Vals)
      /\ NoVal \in Vals /\ input.roots \subseteq Fns
      /\ prog.val \in [Vals -> [kind : STRING, type : STRING, under : STRING, key : Nat]]
      /\ \A f \in Fns : /\ <<f, 0>> \in Vals
                        /\ \A k \in DOMAIN prog.fn[f].params : <<f, k>> \in Vals
  BY EntryAssumption DEF prog, Fns, Vals
<1> HIDE DEF FnType
<1>2. Len(prog.fn) \in Nat /\ Fns = 1..Len(prog.fn) /\ \A f \in Fns : prog.fn[f] \in FnType
  BY <1>1 DEF Fns
<1>3. IsFiniteSet(Fns) /\ Cardinality(Fns) \in Nat /\ Fns \subseteq Nat /\ 0 \notin Fns
  <2>1. IsFiniteSet(1..Len(prog.fn))
    BY <1>2, FS_Interval
  <2>2. QED
    BY <1>2, <2>1, FS_CardinalityType
<1>4. Cardinality(Vals) \in Nat
  BY <1>1, FS_CardinalityType
<1>5. \A v \in Vals : KeyOf(v) \in Nat
  BY <1>1 DEF KeyOf
<1>6. \A f \in Fns : /\ Pkg(f) \in Nat \ {0} /\ prog.fn[f].recv \in BOOLEAN
                     /\ prog.fn[f].params \in Seq(STRING)
                     /\ Code(f) \in Seq(InstrsOn(Fns, Vals))
  BY <1>2 DEF FnType, Pkg, Code
<1>7. QED
  BY <1>1, <1>2, <1>3, <1>4, <1>5, <1>6

\* An instruction, and what it defines.
LEMMA InstrIs ==
    ASSUME input \in Inputs, NEW f \in Fns, NEW n \in DOMAIN Code(f)
    PROVE  LET i == Code(f)[n]
           IN  /\ i \in InstrsOn(Fns, Vals) /\ n \in Nat /\ n \in 1..Len(Code(f))
               /\ i.val \in Vals /\ i.addr \in Vals /\ i.vals \in Seq(Vals)
               /\ i.callee \in {0} \cup Fns /\ i.def \in Vals /\ i.types \in Seq(STRING)
               /\ i.op \in {"closure", "pass"} => i.def # NoVal
               /\ i.op = "closure" => i.callee \in Fns
<1>1. Code(f) \in Seq(InstrsOn(Fns, Vals))
  BY ProgramIs
<1>2. n \in 1..Len(Code(f)) /\ Code(f)[n] \in InstrsOn(Fns, Vals) /\ n \in Nat
  BY <1>1
<1>3. /\ Code(f)[n].op \in {"closure", "pass"} => Code(f)[n].def # NoVal
      /\ Code(f)[n].op = "closure" => Code(f)[n].callee # 0
  BY EntryAssumption DEF Fns, prog, Code
<1>4. QED
  BY <1>2, <1>3 DEF InstrsOn

\* A reference is to an operand of its instruction.
Shape(r) ==
    LET i == InstrOf(r)
        Arg == r.arg \in DOMAIN i.vals /\ r.operand = i.vals[r.arg]
        One == r.arg = 0 /\ r.operand = i.val
    IN  \/ i.op = "store" /\ r.kind = "store" /\ One
        \/ i.op = "return" /\ r.kind = "return" /\ Arg
        \/ i.op = "closure" /\ r.kind = "capture" /\ Arg
        \/ i.op = "call" /\ r.kind = "direct_invoke" /\ One
        \/ i.op = "call" /\ r.kind = "call_arg" /\ Arg
        \/ i.op = "go" /\ r.kind = "go_launch" /\ One
        \/ i.op = "go" /\ r.kind = "go_arg" /\ Arg
        \/ /\ i.op \notin {"store", "return", "closure", "call", "go"}
           /\ r.kind = "operand" /\ One

LEMMA RefIs ==
    ASSUME input \in Inputs, NEW f \in Fns, NEW n \in DOMAIN Code(f), NEW r \in RefsAt(f, n)
    PROVE  /\ r \in RefType /\ r.owner = f /\ r.at = n /\ InstrOf(r) = Code(f)[n]
           /\ Shape(r)
<1> DEFINE i == Code(f)[n]
           Ref(kind, arg, v) ==
               [owner |-> f, at |-> n, kind |-> kind, arg |-> arg, operand |-> v]
<1>1. /\ i.val \in Vals /\ i.vals \in Seq(Vals) /\ n \in Nat
      /\ \A k \in DOMAIN i.vals : k \in Nat /\ i.vals[k] \in Vals
  BY InstrIs
<1>2. PICK kind \in Kinds, arg \in Nat, v \in Vals :
         /\ r = Ref(kind, arg, v)
         /\ \/ i.op = "store" /\ kind = "store" /\ arg = 0 /\ v = i.val
            \/ i.op = "return" /\ kind = "return" /\ arg \in DOMAIN i.vals /\ v = i.vals[arg]
            \/ i.op = "closure" /\ kind = "capture" /\ arg \in DOMAIN i.vals /\ v = i.vals[arg]
            \/ i.op = "call" /\ kind = "direct_invoke" /\ arg = 0 /\ v = i.val
            \/ i.op = "call" /\ kind = "call_arg" /\ arg \in DOMAIN i.vals /\ v = i.vals[arg]
            \/ i.op = "go" /\ kind = "go_launch" /\ arg = 0 /\ v = i.val
            \/ i.op = "go" /\ kind = "go_arg" /\ arg \in DOMAIN i.vals /\ v = i.vals[arg]
            \/ /\ i.op \notin {"store", "return", "closure", "call", "go"}
               /\ kind = "operand" /\ arg = 0 /\ v = i.val
  <2> HIDE DEF i
  <2>1. CASE i.op = "store"
    BY <1>1, <2>1 DEF RefsAt, Kinds, i
  <2>2. CASE i.op = "return"
    BY <1>1, <2>2 DEF RefsAt, Kinds, i
  <2>3. CASE i.op = "closure"
    BY <1>1, <2>3 DEF RefsAt, Kinds, i
  <2>4. CASE i.op = "call"
    BY <1>1, <2>4 DEF RefsAt, Kinds, i
  <2>5. CASE i.op = "go"
    BY <1>1, <2>5 DEF RefsAt, Kinds, i
  <2>6. CASE i.op \notin {"store", "return", "closure", "call", "go"}
    BY <1>1, <2>6 DEF RefsAt, Kinds, i
  <2>7. QED
    BY <2>1, <2>2, <2>3, <2>4, <2>5, <2>6
<1>3. /\ r \in RefType /\ r.owner = f /\ r.at = n /\ r.kind = kind /\ r.arg = arg
      /\ r.operand = v
  BY <1>1, <1>2 DEF RefType
<1>4. InstrOf(r) = i
  BY <1>3 DEF InstrOf
<1> HIDE DEF i, Ref
<1>5. Shape(r)
  BY <1>2, <1>3, <1>4 DEF Shape
<1>6. QED
  BY <1>3, <1>4, <1>5 DEF i

\* A reference of an instruction is known by its operand's place.
LEMMA RefByPlace ==
    ASSUME input \in Inputs, NEW f \in Fns, NEW n \in DOMAIN Code(f),
           NEW r \in RefsAt(f, n), NEW s \in RefsAt(f, n), r.arg = s.arg
    PROVE  r = s
<1>1. /\ r \in RefType /\ s \in RefType /\ r.owner = s.owner /\ r.at = s.at
      /\ Shape(r) /\ Shape(s) /\ InstrOf(r) = InstrOf(s)
  BY RefIs
<1>2. DOMAIN InstrOf(r).vals = 1..Len(InstrOf(r).vals)
  BY InstrIs, RefIs
<1>3. 0 \notin DOMAIN InstrOf(r).vals
  BY <1>2
<1>4. r.kind = s.kind /\ r.operand = s.operand
  BY <1>1, <1>3 DEF Shape
<1>5. QED
  BY <1>1, <1>4 DEF RefType

LEMMA RefsFinite ==
    ASSUME input \in Inputs, NEW f \in Fns
    PROVE  /\ \A n \in DOMAIN Code(f) : IsFiniteSet(RefsAt(f, n))
           /\ IsFiniteSet(Refs(f)) /\ Refs(f) \subseteq RefType
<1>1. ASSUME NEW n \in DOMAIN Code(f)
      PROVE  IsFiniteSet(RefsAt(f, n))
  <2> DEFINE M == Len(Code(f)[n].vals)
             place == [r \in RefsAt(f, n) |-> r.arg]
  <2>1. M \in Nat /\ DOMAIN Code(f)[n].vals = 1..M
    BY InstrIs
  <2>2. \A r \in RefsAt(f, n) : r.arg \in 0..M
    BY <2>1, RefIs DEF Shape
  <2>3. \A r, s \in RefsAt(f, n) : r.arg = s.arg => r = s
    BY RefByPlace
  <2>4. place \in Injection(RefsAt(f, n), 0..M)
    BY <2>2, <2>3 DEF Injection, IsInjective
  <2>5. IsFiniteSet(0..M)
    BY <2>1, FS_Interval
  <2>6. QED
    BY <2>4, <2>5, FS_Injection
<1>2. IsFiniteSet(DOMAIN Code(f))
  <2>1. DOMAIN Code(f) = 1..Len(Code(f)) /\ Len(Code(f)) \in Nat
    BY ProgramIs
  <2>2. QED
    BY <2>1, FS_Interval
<1> DEFINE g == [n \in DOMAIN Code(f) |-> RefsAt(f, n)]
           T == {g[n] : n \in DOMAIN g}
<1>3. DOMAIN g = DOMAIN Code(f) /\ Refs(f) = UNION T
  BY DEF Refs
<1>4. \A R \in T : IsFiniteSet(R)
  BY <1>1
<1> HIDE DEF g
<1>5. IsFiniteSet(T)
  BY <1>2, <1>3, ImageFinite
<1>6. IsFiniteSet(UNION T)
  BY <1>4, <1>5, FS_UNION
<1>7. Refs(f) \subseteq RefType
  BY RefIs DEF Refs
<1>8. QED
  BY <1>1, <1>3, <1>6, <1>7

\* The program stays what it is.
LEMMA SameProgram ==
    ASSUME UNCHANGED input
    PROVE  /\ Fns' = Fns /\ Vals' = Vals /\ RefType' = RefType /\ prog' = prog
           /\ opts' = opts /\ Mode' = Mode /\ Frontier' = Frontier
           /\ \A f : Code(f)' = Code(f) /\ Pkg(f)' = Pkg(f)
           /\ \A f, n : RefsAt(f, n)' = RefsAt(f, n)
           /\ \A f : Refs(f)' = Refs(f)
           /\ \A r : InstrOf(r)' = InstrOf(r) /\ Shape(r)' = Shape(r)
           /\ \A v : KeyOf(v)' = KeyOf(v)
<1>1. prog' = prog /\ opts' = opts /\ Mode' = Mode /\ Frontier' = Frontier
  BY DEF prog, opts, Mode, Frontier
<1>2. Fns' = Fns /\ Vals' = Vals
  BY <1>1 DEF Fns, Vals
<1>3. \A f : Code(f)' = Code(f) /\ Pkg(f)' = Pkg(f)
  BY <1>1 DEF Code, Pkg
<1>4. RefType' = RefType
  BY <1>2 DEF RefType
<1>5. ASSUME NEW f, NEW n
      PROVE  RefsAt(f, n)' = RefsAt(f, n)
  <2>1. Code(f)' = Code(f)
    BY <1>3
  <2>2. QED
    BY <2>1 DEF RefsAt
<1>6. \A f : Refs(f)' = Refs(f)
  BY <1>3, <1>5 DEF Refs
<1>7. \A r : InstrOf(r)' = InstrOf(r)
  BY <1>3 DEF InstrOf
<1>8. \A r : Shape(r)' = Shape(r)
  BY <1>7 DEF Shape
<1>9. \A v : KeyOf(v)' = KeyOf(v)
  BY <1>1 DEF KeyOf
<1>10. QED
  BY <1>1, <1>2, <1>3, <1>4, <1>5, <1>6, <1>7, <1>8, <1>9

\* What is counted is a number.
LEMMA TotalIs ==
    ASSUME NEW map, IsFiniteSet(DOMAIN map), \A x \in DOMAIN map : map[x] \in Nat
    PROVE  Total(map) \in Nat
<1> DEFINE g == [x \in DOMAIN map |-> {x} \X (1..map[x])]
           T == {g[x] : x \in DOMAIN g}
<1>1. DOMAIN g = DOMAIN map
      /\ UNION T = UNION {{x} \X (1..map[x]) : x \in DOMAIN map}
  OBVIOUS
<1>2. \A x \in DOMAIN map : IsFiniteSet({x} \X (1..map[x]))
  <2>1. ASSUME NEW x \in DOMAIN map
        PROVE  IsFiniteSet({x} \X (1..map[x]))
    <3>1. 1 \in Int /\ map[x] \in Int
      OBVIOUS
    <3>2. IsFiniteSet(1..map[x])
      BY <3>1, FS_Interval
    <3>3. IsFiniteSet({x})
      BY FS_Singleton
    <3>4. QED
      BY <3>2, <3>3, FS_Product
  <2>2. QED
    BY <2>1
<1>3. \A S \in T : IsFiniteSet(S)
  BY <1>2
<1> HIDE DEF g
<1>4. IsFiniteSet(T)
  BY <1>1, ImageFinite
<1>5. IsFiniteSet(UNION T)
  BY <1>3, <1>4, FS_UNION
<1>6. QED
  BY <1>1, <1>5, FS_CardinalityType DEF Total

LEMMA MatchesIs ==
    ASSUME NEW S, NEW types \in Seq(S)
    PROVE  Matches(types) \in Nat
<1>1. IsFiniteSet(DOMAIN types)
  <2>1. DOMAIN types = 1..Len(types) /\ Len(types) \in Nat
    OBVIOUS
  <2>2. QED
    BY <2>1, FS_Interval
<1>2. {k \in DOMAIN types : IsBoundary(types[k])} \in SUBSET (DOMAIN types)
  OBVIOUS
<1>3. QED
  BY <1>1, <1>2, FS_Subset, FS_CardinalityType DEF Matches

LEMMA EvidenceIs ==
    ASSUME input \in Inputs, NEW f \in Fns
    PROVE  Evidence(f) \in Nat
<1>1. ASSUME NEW g \in Fns
      PROVE  Params(g) \in Seq(STRING) /\ prog.fn[g].params \in Seq(STRING)
  <2>1. prog.fn[g].params \in Seq(STRING)
    BY ProgramIs
  <2>2. prog.fn[g].recv => prog.fn[g].params # <<>>
    BY EntryAssumption DEF prog, Fns
  <2>3. \A p \in Seq(STRING) : p # <<>> => Tail(p) \in Seq(STRING)
    OBVIOUS
  <2>4. Params(g) = IF prog.fn[g].recv THEN Tail(prog.fn[g].params) ELSE prog.fn[g].params
    BY DEF Params
  <2>5. QED
    BY <2>1, <2>2, <2>3, <2>4
<1>2. ASSUME NEW v \in Vals
      PROVE  Matches(<<prog.val[v].type, prog.val[v].under>>) \in Nat
  <2>1. <<prog.val[v].type, prog.val[v].under>>
        \in Seq({prog.val[v].type, prog.val[v].under})
    OBVIOUS
  <2>2. QED
    BY <2>1, MatchesIs
<1>3. ASSUME NEW n \in DOMAIN Code(f)
      PROVE  InstrEvidence(Code(f)[n]) \in Nat
  <2>1. PICK i : i = Code(f)[n]
    OBVIOUS
  <2>2. /\ i.val \in Vals /\ i.addr \in Vals /\ i.vals \in Seq(Vals)
        /\ i.callee \in {0} \cup Fns /\ i.types \in Seq(STRING)
    BY <2>1, InstrIs
  <2> DEFINE map == [k \in DOMAIN i.vals |->
                        Matches(<<prog.val[i.vals[k]].type, prog.val[i.vals[k]].under>>)]
  <2>3. IsFiniteSet(DOMAIN map)
    <3>1. DOMAIN map = 1..Len(i.vals) /\ Len(i.vals) \in Nat
      BY <2>2
    <3>2. QED
      BY <3>1, FS_Interval
  <2>4. \A k \in DOMAIN map : map[k] \in Nat
    BY <1>2, <2>2
  <2>5. Total(map) \in Nat
    <3> HIDE DEF map
    <3>1. QED
      BY <2>3, <2>4, TotalIs
  <2>6. i.callee # 0 => Matches(Params(i.callee)) \in Nat
    BY <1>1, <2>2, MatchesIs
  <2>7. Matches(ParamTypes(i)) \in Nat
    <3>1. ParamTypes(i) \in Seq(STRING)
      BY <1>1, <2>2 DEF ParamTypes
    <3>2. QED
      BY <3>1, MatchesIs
  <2>8. /\ Matches(<<prog.val[i.val].type, prog.val[i.val].under>>) \in Nat
        /\ Matches(<<prog.val[i.addr].type, prog.val[i.addr].under>>) \in Nat
    BY <1>2, <2>2
  <2>9. InstrEvidence(i) \in Nat
    BY <2>5, <2>6, <2>7, <2>8 DEF InstrEvidence
  <2>10. QED
    BY <2>1, <2>9
<1> DEFINE sum == [n \in DOMAIN Code(f) |-> InstrEvidence(Code(f)[n])]
<1>4. IsFiniteSet(DOMAIN sum)
  <2>1. DOMAIN sum = 1..Len(Code(f)) /\ Len(Code(f)) \in Nat
    BY ProgramIs
  <2>2. QED
    BY <2>1, FS_Interval
<1>5. \A n \in DOMAIN sum : sum[n] \in Nat
  BY <1>3
<1>6. Total(sum) \in Nat
  <2> HIDE DEF sum
  <2>1. QED
    BY <1>4, <1>5, TotalIs
<1>7. Matches(Params(f)) \in Nat
  BY <1>1, MatchesIs
<1>8. QED
  BY <1>6, <1>7 DEF Evidence

-----------------------------------------------------------------------------
(* Types.                                                                  *)

Pkgs == {Pkg(f) : f \in Fns}
StopReasons ==
    {"duration_budget", "reverse_owner_budget", "adjacent_owner_budget",
     "boundary_candidate_budget", "boundary_owner_budget", "package_budget",
     "start_budget", "owner_budget", "instruction_budget", "package_function_budget",
     "depth_budget", "index_budget"}
SkipReasons == {"", "index_budget", "max_functions"}
SeedReasons == {"boundary", "http_sink", "reverse_path", "on_demand_expansion", "bridge",
                "oracle_bridge", "all"}
FoundType ==
    [owners : SUBSET Fns, reverse : SUBSET Fns, adjacent : SUBSET Fns,
     candidates : SUBSET Fns, bounded : SUBSET Fns, starts : SUBSET Fns,
     skipped : SUBSET Fns, scanned : SUBSET Fns, packages : SUBSET Pkgs,
     depth : [Fns -> Nat], instrs : Nat, matched : [Fns -> Nat], stops : SUBSET StopReasons]
CoverType ==
    [starts : Nat, scheduled : BOOLEAN, scanned : BOOLEAN, completed : BOOLEAN,
     functions : Nat, instrs : Nat, owners : Nat, boundary : Nat,
     stops : SUBSET StopReasons,
     causes : SUBSET (StopReasons \cup {"duplicate_suppression"})]
IsCover(c) == DOMAIN c \subseteq Pkgs /\ c \in [DOMAIN c -> CoverType]
IndexType ==
    [order : Seq(Fns), scanned : SUBSET Fns, refs : SUBSET RefType,
     sources : SUBSET (Vals \X Fns), skipped : [Fns -> SkipReasons]]
Real(refs) == \A r \in refs : r.at \in DOMAIN Code(r.owner) /\ r \in RefsAt(r.owner, r.at)

GraphOK == graph \in GraphsOn(Fns) /\ callers \in [input.roots -> SUBSET Fns]
SeedsOK == /\ why \in [Fns -> SUBSET SeedReasons] /\ noted \in [Fns -> Nat]
           /\ late \in BOOLEAN
FoundOK == found \in FoundType /\ IsCover(cover)
IndexOK == index \in IndexType /\ IsFiniteSet(index.refs) /\ Real(index.refs)

\* Where the probe is: what is queued, and the place in what it looks through.
PlaceOK ==
    \/ phase = "callgraph" /\ queue = <<>> /\ at = 1
    \/ /\ phase = "reverse" /\ queue \in Seq(Fns)
       /\ at \in 1..Len(RootSeq) + 1 /\ (queue # <<>> => at > 1)
    \/ /\ phase \in {"paths", "sinks", "starts", "oracle", "frontier", "expand", "index",
                     "scan"}
       /\ queue = <<>> /\ at \in Nat \ {0}
    \/ /\ phase = "callers" /\ queue \in Seq(Fns) /\ at \in Nat \ {0}
       /\ at # 1 /\ queue # <<>> => at <= Cardinality(CallersIn(graph, Head(queue)))
    \/ /\ phase = "adjacent" /\ queue \in Seq(found.owners) /\ at \in Nat \ {0}
       /\ at # 1 /\ queue # <<>> => /\ found.depth[Head(queue)] < opts.reach
                                    /\ at <= Cardinality(AdjacentIn(graph, Head(queue)))
    \/ /\ phase = "bridge" /\ queue \in Seq(DOMAIN cover) /\ at \in Nat
       /\ at # 0 => queue # <<>>
    \/ phase \in {"flow", "done"}

TypeInv == input \in Inputs /\ GraphOK /\ SeedsOK /\ FoundOK /\ IndexOK /\ PlaceOK

LEMMA SameTypes ==
    ASSUME UNCHANGED input
    PROVE  /\ Fns' = Fns /\ Vals' = Vals /\ Pkgs' = Pkgs /\ FoundType' = FoundType
           /\ IndexType' = IndexType /\ RootSeq' = RootSeq
           /\ UNCHANGED <<graph, callers>> => (GraphOK' <=> GraphOK)
           /\ UNCHANGED <<why, noted, late>> => (SeedsOK' <=> SeedsOK)
           /\ UNCHANGED <<found, cover>> => (FoundOK' <=> FoundOK)
           /\ UNCHANGED index => (IndexOK' <=> IndexOK)
<1>1. /\ Fns' = Fns /\ Vals' = Vals /\ RefType' = RefType
      /\ \A f : Code(f)' = Code(f) /\ Pkg(f)' = Pkg(f)
      /\ \A f, n : RefsAt(f, n)' = RefsAt(f, n)
  BY SameProgram
<1>2. Pkgs' = Pkgs
  BY <1>1 DEF Pkgs
<1>3. FoundType' = FoundType /\ IndexType' = IndexType
  BY <1>1, <1>2 DEF FoundType, IndexType
<1>4. UNCHANGED <<graph, callers>> => (GraphOK' <=> GraphOK)
  BY <1>1 DEF GraphOK
<1>5. UNCHANGED <<why, noted, late>> => (SeedsOK' <=> SeedsOK)
  BY <1>1 DEF SeedsOK
<1>6. UNCHANGED <<found, cover>> => (FoundOK' <=> FoundOK)
  BY <1>2, <1>3 DEF FoundOK, IsCover
<1>7. \A refs : Real(refs)' <=> Real(refs)
  BY <1>1 DEF Real
<1>8. UNCHANGED index => (IndexOK' <=> IndexOK)
  BY <1>3, <1>7 DEF IndexOK
<1>9. RootSeq' = RootSeq
  BY DEF RootSeq
<1>10. QED
  BY <1>1, <1>2, <1>3, <1>4, <1>5, <1>6, <1>8, <1>9

\* Sets of functions, listed.
LEMMA FnsListed ==
    ASSUME input \in Inputs, NEW S, S \subseteq Fns
    PROVE  /\ IsFiniteSet(S) /\ Cardinality(S) \in Nat
           /\ Ascending(S) \in Seq(S) /\ Ascending(S) \in Seq(Fns)
           /\ Len(Ascending(S)) = Cardinality(S) /\ ToSet(Ascending(S)) = S
<1>1. IsFiniteSet(Fns) /\ Fns \subseteq Nat
  BY ProgramIs
<1>2. IsFiniteSet(S) /\ S \subseteq Nat
  BY <1>1, FS_Subset
<1>3. /\ Ascending(S) \in Seq(S) /\ ToSet(Ascending(S)) = S
      /\ Cardinality(S) \in Nat /\ Len(Ascending(S)) = Cardinality(S)
  BY <1>2, AscendingLists
<1>4. Ascending(S) \in Seq(Fns)
  BY <1>3
<1>5. QED
  BY <1>2, <1>3, <1>4

LEMMA RootsListed ==
    ASSUME input \in Inputs
    PROVE  /\ RootSeq \in Seq(Fns) /\ Len(RootSeq) \in Nat /\ ToSet(RootSeq) = input.roots
           /\ \A k \in 1..Len(RootSeq) : RootSeq[k] \in input.roots /\ RootSeq[k] \in Fns
<1>1. RootSeq \in Seq(input.roots) /\ RootSeq \in Seq(Fns) /\ ToSet(RootSeq) = input.roots
  BY ProgramIs, FnsListed DEF RootSeq
<1>2. QED
  BY <1>1

LEMMA NeighboursIn ==
    ASSUME input \in Inputs, GraphOK, NEW f
    PROVE  /\ CallersIn(graph, f) \subseteq Fns
           /\ f \in Fns => AdjacentIn(graph, f) \subseteq Fns /\ StaticCallees(f) \subseteq Fns
<1>1. graph.edges \subseteq Fns \X Fns
  BY DEF GraphOK, GraphsOn
<1>2. CallersIn(graph, f) \subseteq Fns
  BY <1>1 DEF CallersIn
<1>3. f \in Fns => StaticCallees(f) \subseteq Fns
  <2>1. SUFFICES ASSUME f \in Fns
                 PROVE  StaticCallees(f) \subseteq Fns
    OBVIOUS
  <2>2. ASSUME NEW n \in DOMAIN Code(f)
        PROVE  Code(f)[n].callee \in {0} \cup Fns
    <3>1. PICK i : i = Code(f)[n]
      OBVIOUS
    <3>2. i.callee \in {0} \cup Fns
      BY <2>1, <3>1, InstrIs
    <3>3. QED
      BY <3>1, <3>2
  <2>3. \A i \in Instrs(f) : i.callee \in {0} \cup Fns
    BY <2>2 DEF Instrs, ToSet
  <2>4. QED
    BY <2>3 DEF StaticCallees
<1>4. {e[2] : e \in {d \in graph.edges : d[1] = f}} \subseteq Fns
  BY <1>1
<1>5. QED
  BY <1>2, <1>3, <1>4 DEF AdjacentIn

LEMMA TypeInit == Init => TypeInv
<1> SUFFICES ASSUME Init
             PROVE  TypeInv
  OBVIOUS
<1> USE DEF Init
<1>1. GraphOK
  BY DEF GraphOK, GraphsOn, NoGraph
<1>2. SeedsOK
  BY DEF SeedsOK
<1>3. FoundOK
  <2>1. Nothing \in FoundType
    BY DEF Nothing, FoundType
  <2>2. DOMAIN cover = {} /\ cover \in [{} -> CoverType]
    OBVIOUS
  <2>3. QED
    BY <2>1, <2>2 DEF FoundOK, IsCover
<1>4. IndexOK
  <2>1. EmptyIndex \in IndexType /\ EmptyIndex.refs = {}
    <3>1. <<>> \in Seq(Fns) /\ [f \in Fns |-> ""] \in [Fns -> SkipReasons]
      BY DEF SkipReasons
    <3>2. QED
      BY <3>1 DEF EmptyIndex, IndexType
  <2>2. QED
    BY <2>1, FS_EmptySet DEF IndexOK, Real
<1>5. PlaceOK
  BY DEF PlaceOK
<1>6. QED
  BY <1>1, <1>2, <1>3, <1>4, <1>5 DEF TypeInv

\* What a step leaves alone keeps its type.
LEMMA Kept ==
    ASSUME TypeInv, UNCHANGED input
    PROVE  /\ input' \in Inputs /\ input \in Inputs
           /\ GraphOK /\ SeedsOK /\ FoundOK /\ IndexOK
           /\ UNCHANGED <<graph, callers>> => GraphOK'
           /\ UNCHANGED <<why, noted, late>> => SeedsOK'
           /\ UNCHANGED <<found, cover>> => FoundOK'
           /\ UNCHANGED index => IndexOK'
           /\ Fns' = Fns /\ Pkgs' = Pkgs /\ RootSeq' = RootSeq
           /\ FoundType' = FoundType /\ IndexType' = IndexType
BY SameTypes DEF TypeInv

LEMMA BuildGraphType == TypeInv /\ BuildGraph => TypeInv'
<1> SUFFICES ASSUME TypeInv, BuildGraph
             PROVE  TypeInv'
  OBVIOUS
<1>1. UNCHANGED <<input, callers, why, noted, found, cover, queue, at, index, late>>
      /\ phase = "callgraph" /\ phase' = "reverse" /\ graph' = ApplicationGraph
  BY DEF BuildGraph
<1>2. /\ input' \in Inputs /\ SeedsOK' /\ FoundOK' /\ IndexOK' /\ Fns' = Fns
      /\ RootSeq' = RootSeq /\ GraphOK /\ input \in Inputs
  BY <1>1, Kept
<1>3. GraphOK'
  <2>1. prog.rta \in GraphsOn(Fns) /\ prog.vta \in GraphsOn(Fns)
    BY <1>2, EntryAssumption DEF prog, Fns
  <2>2. NoGraph \in GraphsOn(Fns)
    BY DEF NoGraph, GraphsOn
  <2>3. ApplicationGraph \in GraphsOn(Fns)
    <3>1. input.main \in BOOLEAN
      BY <1>2, EntryAssumption
    <3>2. QED
      BY <2>1, <2>2, <3>1 DEF ApplicationGraph
  <2>4. GraphsOn(Fns') = GraphsOn(Fns)
    BY <1>2
  <2>5. QED
    BY <1>1, <1>2, <2>3, <2>4 DEF GraphOK, GraphsOn
<1>4. PlaceOK'
  <2>1. queue' = <<>> /\ at' = 1
    BY <1>1 DEF TypeInv, PlaceOK
  <2>2. Len(RootSeq) \in Nat /\ <<>> \in Seq(Fns)
    BY <1>2, RootsListed
  <2>3. 1 \in 1..Len(RootSeq) + 1
    BY <2>2
  <2>4. QED
    BY <1>1, <1>2, <2>1, <2>2, <2>3 DEF PlaceOK
<1>5. QED
  BY <1>2, <1>3, <1>4 DEF TypeInv

LEMMA OpenReverseType == TypeInv /\ OpenReverse => TypeInv'
<1> SUFFICES ASSUME TypeInv, OpenReverse
             PROVE  TypeInv'
  OBVIOUS
<1>1. /\ UNCHANGED <<input, phase, graph, callers, why, noted, found, cover, index, late>>
      /\ phase = "reverse" /\ at <= Len(RootSeq) /\ at' = at + 1
      /\ queue' = Ascending({RootSeq[at]} \cap graph.nodes)
  BY DEF OpenReverse
<1>2. /\ input' \in Inputs /\ GraphOK' /\ SeedsOK' /\ FoundOK' /\ IndexOK' /\ Fns' = Fns
      /\ RootSeq' = RootSeq /\ input \in Inputs /\ GraphOK
  BY <1>1, Kept
<1>3. PlaceOK'
  <2>1. at \in 1..Len(RootSeq) + 1
    BY <1>1 DEF TypeInv, PlaceOK
  <2>2. Len(RootSeq) \in Nat
    BY <1>2, RootsListed
  <2>3. at' \in 1..Len(RootSeq) + 1 /\ at' > 1
    BY <1>1, <2>1, <2>2
  <2>4. {RootSeq[at]} \cap graph.nodes \subseteq Fns
    BY <1>2 DEF GraphOK, GraphsOn
  <2>5. queue' \in Seq(Fns)
    BY <1>1, <1>2, <2>4, FnsListed
  <2>6. QED
    BY <1>1, <1>2, <2>3, <2>5 DEF PlaceOK
<1>4. QED
  BY <1>2, <1>3 DEF TypeInv

LEMMA VisitNodeType == TypeInv /\ VisitNode => TypeInv'
<1> SUFFICES ASSUME TypeInv, VisitNode
             PROVE  TypeInv'
  OBVIOUS
<1> DEFINE from == CallersIn(graph, Head(queue))
<1>1. /\ UNCHANGED <<input, phase, graph, why, noted, found, cover, at, index, late>>
      /\ phase = "reverse" /\ queue # <<>>
      /\ \E taken \in SUBSET (from \ visited) :
             /\ callers' = [callers EXCEPT ![RootSeq[at - 1]] = @ \cup from]
             /\ queue' = Tail(queue) \o Ascending(taken)
  BY DEF VisitNode
<1>2. /\ input' \in Inputs /\ SeedsOK' /\ FoundOK' /\ IndexOK' /\ Fns' = Fns
      /\ RootSeq' = RootSeq /\ input \in Inputs /\ GraphOK
  BY <1>1, Kept
<1>3. from \subseteq Fns
  BY <1>2, NeighboursIn
<1> HIDE DEF from
<1>4. GraphOK'
  BY <1>1, <1>2, <1>3 DEF GraphOK, GraphsOn
<1>5. PlaceOK'
  <2>1. at \in 1..Len(RootSeq) + 1 /\ at > 1 /\ queue \in Seq(Fns)
    BY <1>1 DEF TypeInv, PlaceOK
  <2>2. PICK taken \in SUBSET (from \ visited) : queue' = Tail(queue) \o Ascending(taken)
    BY <1>1
  <2>3. Ascending(taken) \in Seq(Fns)
    BY <1>2, <1>3, FnsListed
  <2>4. Tail(queue) \in Seq(Fns)
    BY <1>1, <2>1
  <2>5. queue' \in Seq(Fns)
    BY <2>2, <2>3, <2>4
  <2>6. QED
    BY <1>1, <1>2, <2>1, <2>5 DEF PlaceOK
<1>6. QED
  BY <1>2, <1>4, <1>5 DEF TypeInv

LEMMA FirstIs ==
    First \in {"paths", "sinks", "starts", "oracle", "frontier", "index"}
BY DEF First

LEMMA CloseReverseType == TypeInv /\ CloseReverse => TypeInv'
<1> SUFFICES ASSUME TypeInv, CloseReverse
             PROVE  TypeInv'
  OBVIOUS
<1>1. /\ UNCHANGED <<input, graph, callers, why, noted, found, cover, queue, index, late>>
      /\ queue = <<>> /\ phase' = First /\ at' = 1
  BY DEF CloseReverse
<1>2. /\ input' \in Inputs /\ GraphOK' /\ SeedsOK' /\ FoundOK' /\ IndexOK' /\ Fns' = Fns
  BY <1>1, Kept
<1>3. PlaceOK'
  BY <1>1, FirstIs DEF PlaceOK
<1>4. QED
  BY <1>2, <1>3 DEF TypeInv

\* Reasons added for a set of owners.
LEMMA AddIs ==
    ASSUME NEW w \in [Fns -> SUBSET SeedReasons], NEW fs, NEW reason \in SeedReasons
    PROVE  Add(w, fs, reason) \in [Fns -> SUBSET SeedReasons]
BY DEF Add

LEMMA AddBoundaryIs ==
    ASSUME NEW w \in [Fns -> SUBSET SeedReasons], NEW fs
    PROVE  AddBoundary(w, fs) \in [Fns -> SUBSET SeedReasons]
<1>1. "boundary" \in SeedReasons /\ "http_sink" \in SeedReasons
  BY DEF SeedReasons
<1>2. Add(w, Bounded(fs), "boundary") \in [Fns -> SUBSET SeedReasons]
  BY <1>1, AddIs
<1>3. QED
  BY <1>1, <1>2, AddIs DEF AddBoundary

LEMMA NoteIs ==
    ASSUME input \in Inputs, noted \in [Fns -> Nat], NEW fs
    PROVE  Note(fs) \in [Fns -> Nat]
<1>1. ASSUME NEW f \in Fns
      PROVE  noted[f] + Evidence(f) \in Nat
  BY EvidenceIs
<1>2. QED
  BY <1>1 DEF Note

LEMMA SeedPathsType == TypeInv /\ SeedPaths => TypeInv'
<1> SUFFICES ASSUME TypeInv, SeedPaths
             PROVE  TypeInv'
  OBVIOUS
<1>1. /\ UNCHANGED <<input, graph, callers, noted, found, cover, queue, at, index, late>>
      /\ phase = "paths" /\ phase' \in {"sinks", "index"}
      /\ why' = Add(why, PathOwners, "reverse_path")
  BY DEF SeedPaths
<1>2. /\ input' \in Inputs /\ GraphOK' /\ SeedsOK /\ FoundOK' /\ IndexOK' /\ Fns' = Fns
  BY <1>1, Kept
<1>3. SeedsOK'
  <2>1. "reverse_path" \in SeedReasons
    BY DEF SeedReasons
  <2>2. why' \in [Fns -> SUBSET SeedReasons]
    BY <1>1, <1>2, <2>1, AddIs DEF SeedsOK
  <2>3. QED
    BY <1>1, <1>2, <2>2 DEF SeedsOK
<1>4. PlaceOK'
  BY <1>1 DEF TypeInv, PlaceOK
<1>5. QED
  BY <1>2, <1>3, <1>4 DEF TypeInv

LEMMA SeedSinksType == TypeInv /\ SeedSinks => TypeInv'
<1> SUFFICES ASSUME TypeInv, SeedSinks
             PROVE  TypeInv'
  OBVIOUS
<1>1. PICK seen \in SUBSET Fns :
         /\ late' = (seen # Fns) /\ why' = AddBoundary(why, seen) /\ noted' = Note(seen)
  BY DEF SeedSinks
<1>2. /\ UNCHANGED <<input, graph, callers, found, cover, queue, at, index>>
      /\ phase = "sinks" /\ phase' \in {"expand", "index"}
  BY DEF SeedSinks
<1>3. /\ input' \in Inputs /\ GraphOK' /\ SeedsOK /\ FoundOK' /\ IndexOK' /\ Fns' = Fns
      /\ input \in Inputs
  BY <1>2, Kept
<1>4. SeedsOK'
  <2>1. why' \in [Fns -> SUBSET SeedReasons]
    BY <1>1, <1>3, AddBoundaryIs DEF SeedsOK
  <2>2. noted' \in [Fns -> Nat]
    BY <1>1, <1>3, NoteIs DEF SeedsOK
  <2>3. QED
    BY <1>1, <1>3, <2>1, <2>2 DEF SeedsOK
<1>5. PlaceOK'
  BY <1>2 DEF TypeInv, PlaceOK
<1>6. QED
  BY <1>3, <1>4, <1>5 DEF TypeInv

LEMMA ExpandType == TypeInv /\ Expand => TypeInv'
<1> SUFFICES ASSUME TypeInv, Expand
             PROVE  TypeInv'
  OBVIOUS
<1>1. /\ UNCHANGED <<input, graph, callers, noted, found, cover, queue, index>>
      /\ phase = "expand"
  BY DEF Expand
<1>2. /\ input' \in Inputs /\ GraphOK' /\ SeedsOK /\ FoundOK' /\ IndexOK' /\ Fns' = Fns
  BY <1>1, Kept
<1>3. /\ why' = why \/ \E fs : why' = Add(why, fs, "on_demand_expansion")
      /\ late' = late \/ late' = TRUE \/ \E trial \in Trials : late' = trial.late
      /\ \/ phase' = "index" /\ at' = 1
         \/ phase' = phase /\ at' = at + 1
  BY DEF Expand, ExpandStop, ExpandWith
<1>4. \A trial \in Trials : trial.late \in BOOLEAN
  <2> DEFINE Scan(n, cut) ==
                 [refs |-> (UNION {Refs(Ascending(Owners)[k]) : k \in 1..n})
                           \cup (IF n < TrialLimit
                                 THEN UNION {RefsAt(Ascending(Owners)[n + 1], k) : k \in 1..cut}
                                 ELSE {}),
                  late |-> n < TrialLimit]
  <2>1. \A trial \in Trials : \E n, cut : trial = Scan(n, cut)
    <3> DEFINE more == UNION {{Scan(n, c) : c \in 0..Len(Code(Ascending(Owners)[n + 1]))} :
                                 n \in 0..(TrialLimit - 1)}
    <3>1. Trials = {Scan(TrialLimit, 0)} \cup (IF opts.index \/ late THEN more ELSE {})
      BY Zenon DEF Trials
    <3> HIDE DEF Scan
    <3>2. \A trial \in more : \E n, cut : trial = Scan(n, cut)
      OBVIOUS
    <3>3. QED
      BY <3>1, <3>2
  <2>2. \A n, cut : Scan(n, cut).late \in BOOLEAN
    OBVIOUS
  <2> HIDE DEF Scan
  <2>3. QED
    BY <2>1, <2>2
<1>5. SeedsOK'
  <2>1. "on_demand_expansion" \in SeedReasons
    BY DEF SeedReasons
  <2>2. why' \in [Fns -> SUBSET SeedReasons]
    BY <1>2, <1>3, <2>1, AddIs DEF SeedsOK
  <2>3. late' \in BOOLEAN
    BY <1>2, <1>3, <1>4 DEF SeedsOK
  <2>4. QED
    BY <1>1, <1>2, <2>2, <2>3 DEF SeedsOK
<1>6. PlaceOK'
  <2>1. queue = <<>> /\ at \in Nat \ {0}
    BY <1>1 DEF TypeInv, PlaceOK
  <2>2. at' \in Nat \ {0}
    BY <1>3, <2>1
  <2>3. QED
    BY <1>1, <1>3, <2>1, <2>2 DEF PlaceOK
<1>7. QED
  BY <1>2, <1>5, <1>6 DEF TypeInv

-----------------------------------------------------------------------------
(* Types, in the frontier.                                                 *)

LEMMA StopIs ==
    ASSUME NEW s \in FoundType, NEW reason \in StopReasons
    PROVE  /\ Stop(s, reason) \in FoundType
           /\ Stop(s, reason).owners = s.owners /\ Stop(s, reason).depth = s.depth
BY DEF Stop, FoundType

\* A step of the search keeps the owners there are and how far they lie.
Grown(s, t) == t \in FoundType /\ s.owners \subseteq t.owners /\ t.depth = s.depth

LEMMA AddOwnerIs ==
    ASSUME NEW s \in FoundType, NEW f \in Fns
    PROVE  Grown(s, AddOwner(s, f))
<1>1. Pkg(f) \in Pkgs
  BY DEF Pkgs
<1>2. "package_budget" \in StopReasons
  BY DEF StopReasons
<1>3. Grown(s, Stop(s, "package_budget"))
  BY <1>2, StopIs DEF Grown
<1>4. Grown(s, [s EXCEPT !.owners = @ \cup {f}, !.packages = @ \cup {Pkg(f)}])
  BY <1>1 DEF FoundType, Grown
<1>5. Grown(s, s)
  BY DEF Grown
<1>6. QED
  BY <1>3, <1>4, <1>5 DEF AddOwner

LEMMA AddReverseIs ==
    ASSUME NEW s \in FoundType, NEW f \in Fns, NEW t
    PROVE  Grown(s, AddReverse(s, f, t))
<1> DEFINE added == AddOwner(s, f)
<1>1. "duration_budget" \in StopReasons /\ "reverse_owner_budget" \in StopReasons
  BY DEF StopReasons
<1>2. Grown(s, Stop(s, "duration_budget")) /\ Grown(s, Stop(s, "reverse_owner_budget"))
  BY <1>1, StopIs DEF Grown
<1>3. Grown(s, added)
  BY AddOwnerIs
<1>4. Grown(s, s)
  BY DEF Grown
<1>5. AddReverse(s, f, t) =
        IF f \in s.reverse THEN s
        ELSE IF t THEN Stop(s, "duration_budget")
        ELSE IF AtLimit(Cardinality(s.reverse), opts.reverse)
        THEN Stop(s, "reverse_owner_budget")
        ELSE IF f \in added.owners THEN [added EXCEPT !.reverse = @ \cup {f}] ELSE added
  BY DEF AddReverse
<1> HIDE DEF added
<1>6. Grown(s, [added EXCEPT !.reverse = @ \cup {f}])
  BY <1>3 DEF FoundType, Grown
<1>7. QED
  BY <1>2, <1>3, <1>4, <1>5, <1>6

LEMMA AddAdjacentIs ==
    ASSUME NEW s \in FoundType, NEW f \in Fns, NEW t
    PROVE  /\ Grown(s, AddAdjacent(s, f, t))
           /\ AddAdjacent(s, f, t).owners \subseteq s.owners \cup {f}
<1> DEFINE added == AddOwner(s, f)
<1>1. "duration_budget" \in StopReasons /\ "adjacent_owner_budget" \in StopReasons
      /\ "package_budget" \in StopReasons
  BY DEF StopReasons
<1>2. /\ Grown(s, Stop(s, "duration_budget")) /\ Grown(s, Stop(s, "adjacent_owner_budget"))
      /\ Stop(s, "duration_budget").owners = s.owners
      /\ Stop(s, "adjacent_owner_budget").owners = s.owners
  BY <1>1, StopIs DEF Grown
<1>3. Grown(s, added) /\ added.owners \subseteq s.owners \cup {f}
  <2>1. Stop(s, "package_budget").owners = s.owners
    BY <1>1, StopIs
  <2>2. [s EXCEPT !.owners = @ \cup {f}, !.packages = @ \cup {Pkg(f)}].owners
        = s.owners \cup {f}
    BY DEF FoundType
  <2>3. QED
    BY <2>1, <2>2, AddOwnerIs DEF AddOwner
<1>4. Grown(s, s)
  BY DEF Grown
<1>5. AddAdjacent(s, f, t) =
        IF f \in s.owners THEN s
        ELSE IF t THEN Stop(s, "duration_budget")
        ELSE IF AtLimit(Cardinality(s.adjacent), opts.adjacent)
        THEN Stop(s, "adjacent_owner_budget")
        ELSE IF f \in added.owners THEN [added EXCEPT !.adjacent = @ \cup {f}] ELSE added
  BY DEF AddAdjacent
<1> HIDE DEF added
<1>6. /\ Grown(s, [added EXCEPT !.adjacent = @ \cup {f}])
      /\ [added EXCEPT !.adjacent = @ \cup {f}].owners = added.owners
  BY <1>3 DEF FoundType, Grown
<1>7. QED
  BY <1>2, <1>3, <1>4, <1>5, <1>6

LEMMA ScanCandidateIs ==
    ASSUME NEW s \in FoundType, NEW f \in Fns, NEW t
    PROVE  /\ Grown(s, ScanCandidate(s, f, t))
           /\ ScanCandidate(s, f, t).owners = s.owners
<1>1. "duration_budget" \in StopReasons /\ "boundary_candidate_budget" \in StopReasons
  BY DEF StopReasons
<1>2. /\ Grown(s, Stop(s, "duration_budget")) /\ Grown(s, Stop(s, "boundary_candidate_budget"))
      /\ Stop(s, "duration_budget").owners = s.owners
      /\ Stop(s, "boundary_candidate_budget").owners = s.owners
  BY <1>1, StopIs DEF Grown
<1>3. /\ Grown(s, [s EXCEPT !.candidates = @ \cup {f}])
      /\ [s EXCEPT !.candidates = @ \cup {f}].owners = s.owners
  BY DEF FoundType, Grown
<1>4. Grown(s, s)
  BY DEF Grown
<1>5. QED
  BY <1>2, <1>3, <1>4 DEF ScanCandidate

LEMMA TicksAre ==
    ASSUME NEW n \in Nat, NEW limited, NEW t \in Ticks(n, limited)
    PROVE  \A k \in 1..n : t[k] \in BOOLEAN
BY DEF Ticks

LEMMA ToAdjacentType ==
    ASSUME input \in Inputs, GraphOK, NEW s \in FoundType, UNCHANGED <<input, graph, cover>>,
           IsCover(cover), ToAdjacent(s)
    PROVE  FoundOK' /\ PlaceOK'
<1> DEFINE order == Ascending(s.owners)
<1>1. /\ \/ found' = s
         \/ found' = Stop(s, "depth_budget")
      /\ queue' = order \/ queue' = <<>>
      /\ phase' = "adjacent" /\ at' = 1
  BY DEF ToAdjacent
<1>2. "depth_budget" \in StopReasons
  BY DEF StopReasons
<1>3. found' \in FoundType /\ found'.owners = s.owners
  BY <1>1, <1>2, StopIs
<1>4. Fns' = Fns /\ Pkgs' = Pkgs /\ FoundType' = FoundType
  BY SameTypes
<1>5. FoundOK'
  BY <1>3, <1>4 DEF FoundOK, IsCover
<1>6. order \in Seq(s.owners)
  BY FnsListed DEF FoundType
<1> HIDE DEF order
<1>7. PlaceOK'
  <2>1. queue' \in Seq(s.owners)
    <3>1. <<>> \in Seq(s.owners)
      OBVIOUS
    <3>2. queue' = order \/ queue' = <<>>
      BY <1>1 DEF order
    <3>3. QED
      BY <1>6, <3>1, <3>2 DEF order
  <2>2. queue' \in Seq(found'.owners) /\ 1 \in Nat \ {0}
    BY <1>3, <2>1
  <2>3. QED
    BY <1>1, <2>2, Zenon DEF PlaceOK
<1>8. QED
  BY <1>5, <1>7

LEMMA FrontierRootType == TypeInv /\ FrontierRoot => TypeInv'
<1> SUFFICES ASSUME TypeInv, FrontierRoot
             PROVE  TypeInv'
  OBVIOUS
<1> DEFINE root == RootSeq[at]
<1>1. /\ UNCHANGED <<input, graph, callers, cover, index, why, noted>>
      /\ phase = "frontier" /\ at <= Len(RootSeq)
  BY DEF FrontierRoot, FrontierUnchanged
<1>2. PICK t \in Ticks(3, opts.clock) :
         /\ late' = t[3]
         /\ \/ ToAdjacent(Stop(AddReverse(found, root, t[1]), "duration_budget"))
            \/ ToAdjacent(AddReverse(found, root, t[1]))
            \/ /\ found' = ScanCandidate(AddReverse(found, root, t[1]), root, t[3])
               /\ at' = at + 1 /\ UNCHANGED <<phase, queue>>
  BY DEF FrontierRoot
<1>3. /\ input' \in Inputs /\ input \in Inputs /\ GraphOK /\ GraphOK' /\ SeedsOK /\ FoundOK
      /\ IndexOK' /\ Fns' = Fns /\ Pkgs' = Pkgs /\ FoundType' = FoundType
  BY <1>1, Kept
<1>4. SeedsOK'
  <2>1. late' \in BOOLEAN
    BY <1>2, TicksAre
  <2>2. QED
    BY <1>1, <1>3, <2>1 DEF SeedsOK
<1>5. at \in Nat \ {0} /\ queue = <<>>
  BY <1>1 DEF TypeInv, PlaceOK
<1>6. root \in Fns
  BY <1>1, <1>3, <1>5, RootsListed
<1> HIDE DEF root
<1>7. PICK s : s = AddReverse(found, root, t[1])
  OBVIOUS
<1>8. s \in FoundType /\ found \in FoundType /\ IsCover(cover)
  BY <1>3, <1>6, <1>7, AddReverseIs DEF Grown, FoundOK
<1>9. FoundOK' /\ PlaceOK'
  <2>1. CASE ToAdjacent(Stop(s, "duration_budget"))
    <3>1. Stop(s, "duration_budget") \in FoundType
      BY <1>8, StopIs DEF StopReasons
    <3>2. QED
      BY <1>1, <1>3, <1>8, <2>1, <3>1, ToAdjacentType
  <2>2. CASE ToAdjacent(s)
    BY <1>1, <1>3, <1>8, <2>2, ToAdjacentType
  <2>3. CASE /\ found' = ScanCandidate(s, root, t[3])
             /\ at' = at + 1 /\ UNCHANGED <<phase, queue>>
    <3>1. found' \in FoundType
      BY <1>6, <1>8, <2>3, ScanCandidateIs DEF Grown
    <3>2. FoundOK'
      BY <1>1, <1>3, <1>8, <3>1 DEF FoundOK, IsCover
    <3>3. PlaceOK'
      BY <1>1, <1>5, <2>3 DEF PlaceOK
    <3>4. QED
      BY <3>2, <3>3
  <2>4. QED
    BY <1>2, <1>7, <2>1, <2>2, <2>3
<1>10. QED
  BY <1>3, <1>4, <1>9 DEF TypeInv

LEMMA FrontierRootsType == TypeInv /\ FrontierRoots => TypeInv'
<1> SUFFICES ASSUME TypeInv, FrontierRoots
             PROVE  TypeInv'
  OBVIOUS
<1>1. /\ UNCHANGED <<input, graph, callers, cover, index, why, noted, found, late>>
      /\ phase' = "callers" /\ at' = 1
      /\ queue' = Ascending(input.roots \cap graph.nodes)
  BY DEF FrontierRoots, FrontierUnchanged
<1>2. /\ input' \in Inputs /\ input \in Inputs /\ GraphOK' /\ SeedsOK' /\ FoundOK'
      /\ IndexOK' /\ Fns' = Fns
  BY <1>1, Kept
<1>3. queue' \in Seq(Fns)
  <2>1. input.roots \cap graph.nodes \subseteq Fns
    BY <1>2, ProgramIs
  <2>2. QED
    BY <1>1, <1>2, <2>1, FnsListed
<1>4. PlaceOK'
  BY <1>1, <1>2, <1>3 DEF PlaceOK
<1>5. QED
  BY <1>2, <1>4 DEF TypeInv

LEMMA FrontierCallerType == TypeInv /\ FrontierCaller => TypeInv'
<1> SUFFICES ASSUME TypeInv, FrontierCaller
             PROVE  TypeInv'
  OBVIOUS
<1> DEFINE order == Ascending(CallersIn(graph, Head(queue)))
           caller == order[at]
           new == IF caller \in visited THEN <<>> ELSE <<caller>>
           rest == IF at < Len(order) THEN queue ELSE Tail(queue)
<1>1. /\ UNCHANGED <<input, graph, callers, cover, index, why, noted>>
      /\ phase = "callers" /\ queue # <<>>
  BY DEF FrontierCaller, FrontierUnchanged
<1>2. PICK t \in Ticks(3, opts.clock) :
         /\ late' = t[3]
         /\ \/ ToAdjacent(Check(found, t[1], Cardinality(found.reverse), opts.reverse,
                                "reverse_owner_budget"))
            \/ queue' = Tail(queue) /\ UNCHANGED <<phase, found, at>> /\ order = <<>>
            \/ /\ order # <<>>
               /\ found' = ScanCandidate(AddReverse(found, caller, t[2]), caller, t[3])
               /\ queue' = rest \o new
               /\ at' = IF at < Len(order) THEN at + 1 ELSE 1
               /\ UNCHANGED phase
  BY DEF FrontierCaller
<1>3. /\ input' \in Inputs /\ input \in Inputs /\ GraphOK /\ GraphOK' /\ SeedsOK /\ FoundOK
      /\ IndexOK' /\ Fns' = Fns /\ Pkgs' = Pkgs /\ FoundType' = FoundType
  BY <1>1, Kept
<1>4. SeedsOK'
  <2>1. late' \in BOOLEAN
    BY <1>2, TicksAre
  <2>2. QED
    BY <1>1, <1>3, <2>1 DEF SeedsOK
<1>5. /\ at \in Nat \ {0} /\ queue \in Seq(Fns)
      /\ at # 1 => at <= Cardinality(CallersIn(graph, Head(queue)))
  BY <1>1 DEF TypeInv, PlaceOK
<1>6. /\ order \in Seq(Fns) /\ Len(order) = Cardinality(CallersIn(graph, Head(queue)))
      /\ Len(order) \in Nat
  BY <1>3, NeighboursIn, FnsListed
<1>7. found \in FoundType /\ IsCover(cover)
  BY <1>3 DEF FoundOK
<1>8. CASE ToAdjacent(Check(found, t[1], Cardinality(found.reverse), opts.reverse,
                            "reverse_owner_budget"))
  <2>1. PICK s : s = Check(found, t[1], Cardinality(found.reverse), opts.reverse,
                           "reverse_owner_budget")
    OBVIOUS
  <2>2. s \in FoundType
    <3>1. "duration_budget" \in StopReasons /\ "reverse_owner_budget" \in StopReasons
      BY DEF StopReasons
    <3>2. QED
      BY <1>7, <2>1, <3>1, StopIs DEF Check
  <2>3. FoundOK' /\ PlaceOK'
    BY <1>1, <1>3, <1>7, <1>8, <2>1, <2>2, ToAdjacentType
  <2>4. QED
    BY <1>3, <1>4, <2>3 DEF TypeInv
<1>9. CASE queue' = Tail(queue) /\ UNCHANGED <<phase, found, at>> /\ order = <<>>
  <2>1. at = 1
    <3>1. Len(order) = 0
      BY <1>9
    <3>2. QED
      BY <1>5, <1>6, <3>1
  <2>2. queue' \in Seq(Fns)
    BY <1>1, <1>5, <1>9
  <2>3. PlaceOK'
    BY <1>1, <1>3, <1>9, <2>1, <2>2 DEF PlaceOK
  <2>4. FoundOK'
    BY <1>1, <1>9, Kept
  <2>5. QED
    BY <1>3, <1>4, <2>3, <2>4 DEF TypeInv
<1>10. CASE /\ order # <<>>
            /\ found' = ScanCandidate(AddReverse(found, caller, t[2]), caller, t[3])
            /\ queue' = rest \o new
            /\ at' = IF at < Len(order) THEN at + 1 ELSE 1
            /\ UNCHANGED phase
  <2>1. Len(order) >= 1 /\ at \in 1..Len(order)
    <3>1. Len(order) # 0
      BY <1>6, <1>10
    <3>2. QED
      BY <1>5, <1>6, <3>1
  <2>2. caller \in Fns
    BY <1>6, <2>1
  <2>3. found' \in FoundType
    <3> HIDE DEF caller
    <3>1. PICK s : s = AddReverse(found, caller, t[2])
      OBVIOUS
    <3>2. s \in FoundType
      BY <1>7, <2>2, <3>1, AddReverseIs DEF Grown
    <3>3. QED
      BY <1>10, <2>2, <3>1, <3>2, ScanCandidateIs DEF Grown
  <2>4. FoundOK'
    BY <1>1, <1>3, <1>7, <2>3 DEF FoundOK, IsCover
  <2>5. /\ rest \in Seq(Fns) /\ new \in Seq(Fns)
        /\ at < Len(order) => rest = queue
    BY <1>1, <1>5, <2>2
  <2>6. queue' \in Seq(Fns)
    BY <1>10, <2>5
  <2>7. /\ at' \in Nat \ {0}
        /\ at' # 1 => /\ at' <= Cardinality(CallersIn(graph, Head(queue)))
                      /\ Head(queue') = Head(queue)
    <3>1. CASE at < Len(order)
      <4>1. at' = at + 1 /\ at + 1 <= Len(order) /\ queue' = queue \o new
        BY <1>6, <1>10, <2>1, <2>5, <3>1
      <4>2. Head(queue \o new) = Head(queue)
        BY <1>1, <1>5, <2>5
      <4>3. at' \in Nat \ {0} /\ at' <= Cardinality(CallersIn(graph, Head(queue)))
        <5> HIDE DEF order
        <5>1. QED
          BY <1>5, <1>6, <4>1
      <4>4. Head(queue') = Head(queue)
        BY <4>1, <4>2
      <4>5. QED
        BY <4>3, <4>4
    <3>2. CASE ~(at < Len(order))
      <4>1. at' = 1
        BY <1>10, <3>2
      <4>2. 1 \in Nat \ {0}
        OBVIOUS
      <4> HIDE DEF order
      <4>3. QED
        BY <4>1, <4>2, Zenon
    <3>3. QED
      BY <3>1, <3>2
  <2>8. CallersIn(graph, Head(queue))' = CallersIn(graph, Head(queue'))
    BY <1>1 DEF CallersIn
  <2>9. PlaceOK'
    BY <1>1, <1>3, <1>10, <2>6, <2>7, <2>8 DEF PlaceOK
  <2>10. QED
    BY <1>3, <1>4, <2>4, <2>9 DEF TypeInv
<1>11. QED
  BY <1>2, <1>8, <1>9, <1>10

LEMMA FrontierReversedType == TypeInv /\ FrontierReversed => TypeInv'
<1> SUFFICES ASSUME TypeInv, FrontierReversed
             PROVE  TypeInv'
  OBVIOUS
<1>1. /\ UNCHANGED <<input, graph, callers, cover, index, why, noted, late>>
      /\ ToAdjacent(found)
  BY DEF FrontierReversed, FrontierUnchanged
<1>2. /\ input' \in Inputs /\ input \in Inputs /\ GraphOK /\ GraphOK' /\ SeedsOK' /\ FoundOK
      /\ IndexOK'
  BY <1>1, Kept
<1>3. FoundOK' /\ PlaceOK'
  BY <1>1, <1>2, ToAdjacentType DEF FoundOK
<1>4. QED
  BY <1>2, <1>3 DEF TypeInv

\* A stop found by the checks at the top of a loop.
LEMMA CheckIs ==
    ASSUME NEW s \in FoundType, NEW t, NEW n, NEW limit, NEW reason \in StopReasons
    PROVE  Grown(s, Check(s, t, n, limit, reason))
<1>1. "duration_budget" \in StopReasons
  BY DEF StopReasons
<1>2. Grown(s, Stop(s, "duration_budget")) /\ Grown(s, Stop(s, reason)) /\ Grown(s, s)
  BY <1>1, StopIs DEF Grown
<1>3. QED
  BY <1>2 DEF Check

LEMMA AdjacentOwnerType == TypeInv /\ AdjacentOwner => TypeInv'
<1> SUFFICES ASSUME TypeInv, AdjacentOwner
             PROVE  TypeInv'
  OBVIOUS
<1> DEFINE owner == Head(queue)
           depth == found.depth[owner]
           order == Ascending(AdjacentIn(graph, owner))
           next == order[at]
           rest == IF at < Len(order) THEN queue ELSE Tail(queue)
           Deeper(s, new) == [s EXCEPT !.depth = [f \in Fns |-> IF f \in new THEN depth + 1
                                                                ELSE found.depth[f]]]
<1>1. /\ UNCHANGED <<input, graph, callers, cover, index, why, noted, phase>>
      /\ phase = "adjacent" /\ queue # <<>>
  BY DEF AdjacentOwner, FrontierUnchanged
<1>2. PICK t \in Ticks(3, opts.clock) :
         /\ late' = t[3]
         /\ \/ /\ found' = Check(found, t[1], Cardinality(found.adjacent), opts.adjacent,
                                 "adjacent_owner_budget")
               /\ queue' = <<>> /\ UNCHANGED at
            \/ /\ DropAdjacent(owner, depth)
               /\ queue' = Tail(queue) /\ UNCHANGED at
               /\ found' = found \/ found' = Stop(found, "depth_budget")
            \/ /\ ~DropAdjacent(owner, depth)
               /\ \E added, new :
                     /\ added = AddAdjacent(found, next, t[2])
                     /\ new = added.owners \ found.owners
                     /\ \/ /\ next \in added.owners
                           /\ found' = Deeper(ScanCandidate(added, next, t[3]), new)
                        \/ found' = Deeper(added, new)
                     /\ queue' = IF new = {} THEN rest ELSE Append(rest, next)
                     /\ at' = IF at < Len(order) THEN at + 1 ELSE 1
  <2>1. PICK t \in Ticks(3, opts.clock) :
           /\ late' = t[3]
           /\ IF ~Checked(t[1], Cardinality(found.adjacent), opts.adjacent)
              THEN /\ found' = Check(found, t[1], Cardinality(found.adjacent), opts.adjacent,
                                     "adjacent_owner_budget")
                   /\ queue' = <<>> /\ UNCHANGED <<at, visited>>
              ELSE /\ visited' = visited \cup {owner}
                   /\ IF DropAdjacent(owner, depth)
                      THEN /\ queue' = Tail(queue) /\ UNCHANGED at
                           /\ found' = IF owner \notin visited /\ depth >= opts.reach
                                          /\ ~(ToSet(order) \subseteq found.owners)
                                       THEN Stop(found, "depth_budget") ELSE found
                      ELSE LET added == AddAdjacent(found, next, t[2])
                               new == added.owners \ found.owners
                           IN  /\ found' = Deeper(IF next \in added.owners
                                                  THEN ScanCandidate(added, next, t[3])
                                                  ELSE added, new)
                               /\ queue' = IF new = {} THEN rest ELSE Append(rest, next)
                               /\ at' = IF at < Len(order) THEN at + 1 ELSE 1
    BY DEF AdjacentOwner
  <2> HIDE DEF owner, depth, order, next, rest, Deeper
  <2>2. QED
    BY <2>1
<1>3. /\ input' \in Inputs /\ input \in Inputs /\ GraphOK /\ GraphOK' /\ SeedsOK /\ FoundOK
      /\ IndexOK' /\ Fns' = Fns /\ Pkgs' = Pkgs /\ FoundType' = FoundType
  BY <1>1, Kept
<1>4. SeedsOK'
  <2>1. late' = t[3]
    BY <1>2
  <2>2. late' \in BOOLEAN
    BY <2>1, TicksAre
  <2>3. QED
    BY <1>1, <1>3, <2>2 DEF SeedsOK
<1>5. /\ at \in Nat \ {0} /\ queue \in Seq(found.owners)
      /\ at # 1 => depth < opts.reach /\ at <= Cardinality(AdjacentIn(graph, owner))
  BY <1>1 DEF TypeInv, PlaceOK
<1>6. found \in FoundType /\ IsCover(cover)
  BY <1>3 DEF FoundOK
<1>7. owner \in found.owners /\ owner \in Fns /\ depth \in Nat /\ found.owners \subseteq Fns
      /\ found.depth \in [Fns -> Nat]
  <2>1. owner \in found.owners
    BY <1>1, <1>5
  <2>2. QED
    BY <1>6, <2>1 DEF FoundType
<1>8. /\ order \in Seq(Fns) /\ Len(order) = Cardinality(AdjacentIn(graph, owner))
      /\ Len(order) \in Nat
  BY <1>3, <1>7, NeighboursIn, FnsListed
<1>9. opts.reach \in Nat
  BY <1>3, EntryAssumption DEF opts, Numbers
<1> HIDE DEF owner, depth, order, next, rest, Deeper
<1>10. SUFFICES FoundOK' /\ PlaceOK'
  BY <1>3, <1>4 DEF TypeInv
<1>11. CASE /\ found' = Check(found, t[1], Cardinality(found.adjacent), opts.adjacent,
                              "adjacent_owner_budget")
            /\ queue' = <<>> /\ UNCHANGED at
  <2>1. Grown(found, found')
    BY <1>6, <1>11, CheckIs DEF StopReasons
  <2>2. FoundOK'
    BY <1>1, <1>3, <1>6, <2>1 DEF Grown, FoundOK, IsCover
  <2>3. queue' \in Seq(found'.owners)
    BY <1>11
  <2>4. PlaceOK'
    BY <1>1, <1>5, <1>11, <2>3 DEF PlaceOK
  <2>5. QED
    BY <2>2, <2>4
<1>12. CASE /\ DropAdjacent(owner, depth)
            /\ queue' = Tail(queue) /\ UNCHANGED at
            /\ found' = found \/ found' = Stop(found, "depth_budget")
  <2>1. at = 1
    <3>1. CASE depth >= opts.reach
      BY <1>5, <1>7, <1>9, <3>1
    <3>2. CASE AdjacentIn(graph, owner) = {}
      <4>1. Cardinality(AdjacentIn(graph, owner)) = 0
        BY <3>2, FS_EmptySet
      <4>2. QED
        BY <1>5, <4>1
    <3>3. QED
      BY <1>12, <3>1, <3>2 DEF DropAdjacent
  <2>2. found' \in FoundType /\ found'.owners = found.owners
    BY <1>6, <1>12, StopIs DEF StopReasons
  <2>3. FoundOK'
    BY <1>1, <1>3, <1>6, <2>2 DEF FoundOK, IsCover
  <2>4. Tail(queue) \in Seq(found.owners)
    BY <1>1, <1>5
  <2>5. queue' \in Seq(found'.owners) /\ at' = 1 /\ 1 \in Nat \ {0}
    BY <1>12, <2>1, <2>2, <2>4
  <2>6. PlaceOK'
    BY <1>1, <2>5, Zenon DEF PlaceOK
  <2>7. QED
    BY <2>3, <2>6
<1>13. CASE /\ ~DropAdjacent(owner, depth)
            /\ \E added, new :
                  /\ added = AddAdjacent(found, next, t[2])
                  /\ new = added.owners \ found.owners
                  /\ \/ /\ next \in added.owners
                        /\ found' = Deeper(ScanCandidate(added, next, t[3]), new)
                     \/ found' = Deeper(added, new)
                  /\ queue' = IF new = {} THEN rest ELSE Append(rest, next)
                  /\ at' = IF at < Len(order) THEN at + 1 ELSE 1
  <2>1. PICK added, new :
           /\ added = AddAdjacent(found, next, t[2])
           /\ new = added.owners \ found.owners
           /\ \/ /\ next \in added.owners
                 /\ found' = Deeper(ScanCandidate(added, next, t[3]), new)
              \/ found' = Deeper(added, new)
           /\ queue' = IF new = {} THEN rest ELSE Append(rest, next)
           /\ at' = IF at < Len(order) THEN at + 1 ELSE 1
    BY <1>13
  <2>2. depth < opts.reach /\ AdjacentIn(graph, owner) # {}
    BY <1>7, <1>9, <1>13 DEF DropAdjacent
  <2>3. at \in 1..Len(order)
    <3>1. Cardinality(AdjacentIn(graph, owner)) # 0
      <4>1. IsFiniteSet(AdjacentIn(graph, owner))
        BY <1>3, <1>7, NeighboursIn, FnsListed
      <4>2. QED
        BY <2>2, <4>1, FS_EmptySet
    <3>2. QED
      BY <1>5, <1>8, <3>1
  <2>4. next \in Fns
    BY <1>8, <2>3 DEF next
  <2>5. /\ added \in FoundType /\ found.owners \subseteq added.owners
        /\ added.depth = found.depth /\ added.owners \subseteq found.owners \cup {next}
    BY <1>6, <2>1, <2>4, AddAdjacentIs DEF Grown
  <2>6. PICK s : /\ s \in FoundType /\ s.owners = added.owners /\ found' = Deeper(s, new)
    <3>1. ScanCandidate(added, next, t[3]) \in FoundType
          /\ ScanCandidate(added, next, t[3]).owners = added.owners
      BY <2>4, <2>5, ScanCandidateIs DEF Grown
    <3>2. QED
      BY <2>1, <2>5, <3>1
  <2>7. /\ found' \in FoundType /\ found'.owners = added.owners
        /\ \A f \in found.owners : found'.depth[f] = found.depth[f]
    <3>1. [f \in Fns |-> IF f \in new THEN depth + 1 ELSE found.depth[f]] \in [Fns -> Nat]
      BY <1>7
    <3>2. PICK d \in [Fns -> Nat] :
             d = [f \in Fns |-> IF f \in new THEN depth + 1 ELSE found.depth[f]]
      BY <3>1
    <3>3. found' = [s EXCEPT !.depth = d]
      BY <2>6, <3>2 DEF Deeper
    <3>4. found' \in FoundType /\ found'.owners = s.owners /\ found'.depth = d
      BY <2>6, <3>3 DEF FoundType
    <3>5. \A f \in found.owners : d[f] = found.depth[f]
      BY <1>7, <2>1, <3>2
    <3>6. QED
      BY <2>6, <3>4, <3>5
  <2>8. FoundOK'
    BY <1>1, <1>3, <1>6, <2>7 DEF FoundOK, IsCover
  <2>9. rest \in Seq(added.owners) /\ (at < Len(order) => rest = queue)
    <3>1. queue \in Seq(added.owners)
      BY <1>5, <2>5
    <3>2. Tail(queue) \in Seq(added.owners)
      BY <1>1, <3>1
    <3>3. QED
      BY <3>1, <3>2 DEF rest
  <2>10. new # {} => next \in added.owners
    BY <2>1, <2>5
  <2>11. queue' \in Seq(found'.owners)
    <3>1. new # {} => Append(rest, next) \in Seq(added.owners)
      BY <2>9, <2>10
    <3>2. queue' \in Seq(added.owners)
      BY <2>1, <2>9, <3>1
    <3>3. QED
      BY <2>7, <3>2
  <2>12. /\ at' \in Nat \ {0}
         /\ at' # 1 => /\ found'.depth[Head(queue')] < opts.reach
                       /\ at' <= Cardinality(AdjacentIn(graph, Head(queue')))
    <3>1. CASE at < Len(order)
      <4>1. at' = at + 1 /\ at + 1 <= Len(order) /\ at + 1 \in Nat \ {0}
        BY <1>8, <2>1, <2>3, <3>1
      <4>2. queue \in Seq(added.owners)
        BY <1>5, <2>5
      <4>3. queue' = queue \/ (next \in added.owners /\ queue' = Append(queue, next))
        BY <2>1, <2>9, <2>10, <3>1
      <4>4. Head(queue') = owner
        BY <1>1, <4>2, <4>3 DEF owner
      <4>5. found'.depth[owner] = depth
        BY <1>7, <2>7 DEF depth
      <4>6. QED
        BY <1>8, <2>2, <4>1, <4>4, <4>5
    <3>2. CASE ~(at < Len(order))
      <4>1. at' = 1 /\ 1 \in Nat \ {0}
        BY <2>1, <3>2
      <4>2. QED
        BY <4>1, Zenon
    <3>3. QED
      BY <3>1, <3>2
  <2>13. /\ opts' = opts
         /\ \A f : StaticCallees(f)' = StaticCallees(f)
    <3>1. opts' = opts /\ \A f : Code(f)' = Code(f)
      BY <1>1, SameProgram
    <3>2. QED
      BY <3>1 DEF StaticCallees, Instrs
  <2>14. AdjacentIn(graph, Head(queue))' = AdjacentIn(graph, Head(queue'))
    BY <1>1, <2>13 DEF AdjacentIn, CallersIn
  <2>15. PlaceOK'
    BY <1>1, <2>11, <2>12, <2>13, <2>14 DEF PlaceOK
  <2>16. QED
    BY <2>8, <2>15
<1>14. QED
  BY <1>2, <1>11, <1>12, <1>13

LEMMA AssembleFrontierType == TypeInv /\ AssembleFrontier => TypeInv'
<1> SUFFICES ASSUME TypeInv, AssembleFrontier
             PROVE  TypeInv'
  OBVIOUS
<1>1. /\ UNCHANGED <<input, graph, callers, cover, index, found>>
      /\ queue' = <<>> /\ at' = 1 /\ phase' \in {"expand", "index"} /\ late' = FALSE
      /\ noted' = Note(found.candidates)
      /\ \/ why' = AddBoundary(Add(why, found.owners \ found.adjacent, "reverse_path"),
                               found.candidates)
         \/ why' = AddBoundary(why, found.candidates)
  BY DEF AssembleFrontier, FrontierUnchanged
<1>2. /\ input' \in Inputs /\ input \in Inputs /\ GraphOK' /\ SeedsOK /\ FoundOK'
      /\ IndexOK' /\ Fns' = Fns
  BY <1>1, Kept
<1>3. SeedsOK'
  <2>1. "reverse_path" \in SeedReasons
    BY DEF SeedReasons
  <2>2. PICK w \in [Fns -> SUBSET SeedReasons] : why' = AddBoundary(w, found.candidates)
    BY <1>1, <1>2, <2>1, AddIs DEF SeedsOK
  <2>3. why' \in [Fns -> SUBSET SeedReasons]
    BY <2>2, AddBoundaryIs
  <2>4. noted' \in [Fns -> Nat]
    BY <1>1, <1>2, NoteIs DEF SeedsOK
  <2>5. QED
    BY <1>1, <1>2, <2>3, <2>4 DEF SeedsOK
<1>4. PlaceOK'
  BY <1>1 DEF PlaceOK
<1>5. QED
  BY <1>2, <1>3, <1>4 DEF TypeInv

LEMMA FrontierStepType == TypeInv /\ FrontierStep => TypeInv'
BY FrontierRootType, FrontierRootsType, FrontierCallerType, FrontierReversedType,
   AdjacentOwnerType, AssembleFrontierType DEF FrontierStep

-----------------------------------------------------------------------------
(* The collector of the bridge, for the packages of d.                     *)

Col(d) == [found : FoundType, cover : [d -> CoverType], ok : BOOLEAN]

\* The reasons for which collecting stops, and what it never takes back.
Collects == {"duration_budget", "owner_budget", "instruction_budget",
             "boundary_owner_budget", "package_function_budget"}
Moves(d, a, b) ==
    /\ a.found.owners \subseteq b.found.owners /\ a.found.stops \subseteq b.found.stops
    /\ b.found.stops \subseteq a.found.stops \cup Collects
    /\ b.found.reverse = a.found.reverse /\ b.found.adjacent = a.found.adjacent
    /\ a.found.candidates \subseteq b.found.candidates /\ a.found.instrs <= b.found.instrs
    /\ b.found.starts = a.found.starts /\ b.found.packages = a.found.packages
    /\ b.found.scanned = a.found.scanned
    /\ \A f \in Fns : b.found.matched[f] > 0 =>
           \/ a.found.matched[f] > 0
           \/ f \in b.found.owners \/ "owner_budget" \in b.found.stops
    /\ \A p \in d : /\ b.cover[p].scheduled = a.cover[p].scheduled
                    /\ b.cover[p].completed = a.cover[p].completed
                    /\ b.cover[p].functions = a.cover[p].functions
                    /\ a.cover[p].causes \subseteq b.cover[p].causes
                    /\ a.cover[p].stops \subseteq b.cover[p].stops

\* A limit that stops the collector has been reached.
Earned(d, a, reason) ==
    \/ reason = "duration_budget" /\ opts.clock
    \/ reason = "owner_budget" /\ AtLimit(Cardinality(a.found.owners), opts.owners)
    \/ reason = "instruction_budget" /\ AtLimit(a.found.instrs, opts.instrs)
    \/ reason = "boundary_owner_budget"
       /\ AtLimit(Cardinality(a.found.candidates), opts.candidates)
    \/ reason = "package_function_budget"
       /\ \E p \in d : AtLimit(a.cover[p].functions, opts.perPackage)
Hard == {"duration_budget", "instruction_budget", "package_budget"}
Keeps(s, limit) == limit = 0 \/ Cardinality(s) <= limit
\* Why the work on a package ended.
Halted(a, pkg) == \/ "owner_budget" \in a.found.stops
                  \/ "package_function_budget" \in a.found.stops
                  \/ pkg # NoPackage /\ a.cover[pkg].causes # {}

\* What the collector says is so.
Sound(d, pkg, a) ==
    /\ \A reason \in Collects \cap a.found.stops : Earned(d, a, reason)
    /\ Keeps(a.found.owners, opts.owners) /\ Keeps(a.found.candidates, opts.candidates)
    /\ a.ok => a.found.stops \cap Hard = {}
    /\ ~a.ok => Halted(a, pkg) /\ a.found.stops # {}
Goes(d, pkg, a, b) == b \in Col(d) /\ Moves(d, a, b) /\ (Sound(d, pkg, a) => Sound(d, pkg, b))

LEMMA GoesOn ==
    ASSUME NEW d, NEW pkg, NEW a \in Col(d), NEW b, NEW c,
           Goes(d, pkg, a, b), Goes(d, pkg, b, c)
    PROVE  Goes(d, pkg, a, c)
<1>1. /\ a.found.instrs \in Nat /\ b.found.instrs \in Nat /\ c.found.instrs \in Nat
  BY DEF Goes, Col, FoundType
<1>2. Moves(d, a, c)
  BY <1>1 DEF Goes, Moves
<1>3. QED
  BY <1>2 DEF Goes

LEMMA GoesNowhere ==
    ASSUME NEW d, NEW pkg, NEW a \in Col(d)
    PROVE  Goes(d, pkg, a, a)
<1>1. a.found.instrs \in Nat
  BY DEF Col, FoundType
<1>2. QED
  BY <1>1 DEF Goes, Moves

LEMMA ColIs ==
    ASSUME input \in Inputs, NEW d, NEW a \in Col(d)
    PROVE  /\ a.found \in FoundType /\ a.cover \in [d -> CoverType] /\ a.ok \in BOOLEAN
           /\ \A p \in d : a.cover[p] \in CoverType
           /\ IsFiniteSet(a.found.owners) /\ Cardinality(a.found.owners) \in Nat
           /\ IsFiniteSet(a.found.candidates) /\ Cardinality(a.found.candidates) \in Nat
           /\ a.found.owners \subseteq Fns /\ a.found.candidates \subseteq Fns
           /\ opts.owners \in Nat /\ opts.candidates \in Nat /\ opts.instrs \in Nat
           /\ opts.perPackage \in Nat /\ opts.starts \in Nat /\ opts.packages \in Nat
<1>1. a.found \in FoundType /\ a.cover \in [d -> CoverType] /\ a.ok \in BOOLEAN
  BY DEF Col
<1>2. a.found.owners \subseteq Fns /\ a.found.candidates \subseteq Fns
  BY <1>1 DEF FoundType
<1>3. /\ opts.owners \in Nat /\ opts.candidates \in Nat /\ opts.instrs \in Nat
      /\ opts.perPackage \in Nat /\ opts.starts \in Nat /\ opts.packages \in Nat
  BY EntryAssumption DEF opts, Numbers
<1>4. QED
  BY <1>1, <1>2, <1>3, FnsListed

\* Only a stop is new in g.
Cut(f, g, reason) ==
    /\ g \in FoundType /\ g.stops = f.stops \cup {reason}
    /\ g.owners = f.owners /\ g.candidates = f.candidates /\ g.instrs = f.instrs
    /\ g.starts = f.starts /\ g.packages = f.packages /\ g.scanned = f.scanned
    /\ g.matched = f.matched
    /\ g.reverse = f.reverse /\ g.adjacent = f.adjacent

\* The coverage of a package goes on.
Covers(d, c, e) ==
    /\ e \in [d -> CoverType]
    /\ \A p \in d : /\ e[p].scheduled = c[p].scheduled /\ e[p].completed = c[p].completed
                    /\ e[p].functions = c[p].functions
                    /\ c[p].causes \subseteq e[p].causes /\ c[p].stops \subseteq e[p].stops

LEMMA StopInIs ==
    ASSUME NEW d, NEW pkg \in d \cup {NoPackage}, NEW a \in Col(d), NEW reason \in StopReasons,
           NoPackage \notin d
    PROVE  /\ StopIn(a, pkg, reason) \in Col(d) /\ StopIn(a, pkg, reason).ok = a.ok
           /\ Cut(a.found, StopIn(a, pkg, reason).found, reason)
           /\ Covers(d, a.cover, StopIn(a, pkg, reason).cover)
           /\ pkg # NoPackage /\ reason \notin a.found.stops =>
                  /\ reason \in StopIn(a, pkg, reason).cover[pkg].causes
                  /\ reason \in StopIn(a, pkg, reason).cover[pkg].stops
<1>1. a.found \in FoundType /\ a.cover \in [d -> CoverType] /\ a.ok \in BOOLEAN
  BY DEF Col
<1>2. PICK b : b = StopIn(a, pkg, reason)
  OBVIOUS
<1>3. CASE reason \in a.found.stops
  <2>1. b = a
    BY <1>2, <1>3 DEF StopIn
  <2>2. Cut(a.found, b.found, reason) /\ Covers(d, a.cover, b.cover)
    BY <1>1, <1>3, <2>1 DEF Cut, Covers
  <2>3. QED
    BY <1>2, <1>3, <2>1, <2>2
<1>4. CASE reason \notin a.found.stops
  <2> DEFINE s == [a EXCEPT !.found = Stop(@, reason)]
             e == [a.cover EXCEPT ![pkg].stops = @ \cup {reason},
                                  ![pkg].causes = @ \cup {reason}]
  <2>1. s \in Col(d) /\ s.cover = a.cover /\ s.ok = a.ok /\ Cut(a.found, s.found, reason)
    <3>1. Stop(a.found, reason) \in FoundType /\ Cut(a.found, Stop(a.found, reason), reason)
      BY <1>1 DEF Stop, FoundType, Cut
    <3>2. QED
      BY <1>1, <3>1 DEF Col
  <2>2. CASE pkg = NoPackage
    <3>1. b = s
      BY <1>2, <1>4, <2>2 DEF StopIn
    <3> HIDE DEF s
    <3>2. Covers(d, a.cover, b.cover)
      BY <1>1, <2>1, <3>1 DEF Covers
    <3>3. QED
      BY <1>2, <2>1, <2>2, <3>1, <3>2
  <2>3. CASE pkg # NoPackage
    <3>1. b = [s EXCEPT !.cover[pkg].stops = @ \cup {reason},
                        !.cover[pkg].causes = @ \cup {reason}]
      BY <1>2, <1>4, <2>3 DEF StopIn
    <3> HIDE DEF s
    <3>2. b.cover = e /\ b.found = s.found /\ b.ok = s.ok
      BY <2>1, <3>1 DEF Col
    <3>3. /\ Covers(d, a.cover, e) /\ reason \in e[pkg].causes /\ reason \in e[pkg].stops
      BY <1>1, <2>3 DEF CoverType, Covers
    <3> HIDE DEF e
    <3>4. b \in Col(d)
      <4>1. b = [s EXCEPT !.cover = e]
        BY <2>1, <2>3, <3>1 DEF Col, e
      <4>2. QED
        BY <2>1, <3>3, <4>1 DEF Col, Covers
    <3>5. QED
      BY <1>2, <2>1, <3>2, <3>3, <3>4
  <2>4. QED
    BY <2>2, <2>3
<1>5. QED
  BY <1>3, <1>4

\* A limit that has been reached ends the work on a package.
Ended(a, pkg, reason) == [StopIn(a, pkg, reason) EXCEPT !.ok = FALSE]

LEMMA Halts ==
    ASSUME NEW d, NEW pkg \in d \cup {NoPackage}, NEW a \in Col(d),
           NEW reason \in Collects \ {"boundary_owner_budget"}, Earned(d, a, reason),
           NoPackage \notin d, pkg = NoPackage => reason = "owner_budget", NEW b,
           b = Ended(a, pkg, reason)
    PROVE  Goes(d, pkg, a, b) /\ ~b.ok /\ b.found.owners = a.found.owners
           /\ b.found.stops = a.found.stops \cup {reason}
<1>1. reason \in StopReasons
  BY DEF StopReasons, Collects
<1>2. PICK s : /\ s = StopIn(a, pkg, reason) /\ s \in Col(d)
               /\ Cut(a.found, s.found, reason) /\ Covers(d, a.cover, s.cover)
               /\ pkg # NoPackage /\ reason \notin a.found.stops => reason \in s.cover[pkg].causes
  BY <1>1, StopInIs
<1>3. b \in Col(d) /\ b.found = s.found /\ b.cover = s.cover /\ b.ok = FALSE
  BY <1>2 DEF Col, Ended
<1>4. a.found \in FoundType /\ a.ok \in BOOLEAN /\ a.found.instrs \in Nat
  BY DEF Col, FoundType
<1>5. Cut(a.found, b.found, reason) /\ Covers(d, a.cover, b.cover)
  BY <1>2, <1>3
<1>6. Moves(d, a, b)
  BY <1>4, <1>5 DEF Moves, Cut, Covers
<1>7. ASSUME Sound(d, pkg, a)
      PROVE  Sound(d, pkg, b)
  <2>1. \A r : Earned(d, a, r) => Earned(d, b, r)
    BY <1>5 DEF Earned, Cut, Covers
  <2>2. \A r \in Collects \cap b.found.stops : Earned(d, b, r)
    BY <1>5, <1>7, <2>1 DEF Sound, Cut
  <2>3. Halted(b, pkg)
    <3>1. CASE ~a.ok
      <4>1. Halted(a, pkg)
        BY <1>7, <3>1 DEF Sound
      <4>2. QED
        BY <1>5, <4>1 DEF Halted, Cut, Covers
    <3>2. CASE a.ok /\ reason \in a.found.stops
      <4>1. reason \notin Hard
        BY <1>7, <3>2 DEF Sound
      <4>2. reason \in {"owner_budget", "package_function_budget"}
        BY <4>1 DEF Hard, Collects
      <4>3. QED
        BY <1>5, <4>2 DEF Halted, Cut
    <3>3. CASE reason \notin a.found.stops
      <4>1. CASE pkg = NoPackage
        BY <1>5, <4>1 DEF Halted, Cut
      <4>2. CASE pkg # NoPackage
        BY <1>2, <1>3, <3>3, <4>2 DEF Halted
      <4>3. QED
        BY <4>1, <4>2
    <3>4. QED
      BY <1>4, <3>1, <3>2, <3>3
  <2>4. QED
    BY <1>3, <1>5, <1>7, <2>2, <2>3 DEF Sound, Cut
<1>8. QED
  BY <1>3, <1>5, <1>6, <1>7 DEF Goes, Cut

\* Only an owner is new in g.
Owned(f, g, owners) ==
    /\ g \in FoundType /\ g.owners = owners /\ g.stops = f.stops
    /\ g.candidates = f.candidates /\ g.instrs = f.instrs /\ g.matched = f.matched
    /\ g.reverse = f.reverse /\ g.adjacent = f.adjacent
    /\ g.starts = f.starts /\ g.packages = f.packages /\ g.scanned = f.scanned

LEMMA OneMore ==
    ASSUME NEW S, IsFiniteSet(S), NEW x, x \notin S, NEW limit \in Nat,
           ~AtLimit(Cardinality(S), limit)
    PROVE  /\ Keeps(S \cup {x}, limit) /\ Cardinality(S) \in Nat
           /\ Cardinality(S \cup {x}) = Cardinality(S) + 1
<1>1. Cardinality(S) \in Nat /\ Cardinality(S \cup {x}) = Cardinality(S) + 1
  BY FS_CardinalityType, FS_AddElement
<1>2. QED
  BY <1>1 DEF AtLimit, Keeps

LEMMA AddBridgeIs ==
    ASSUME input \in Inputs, NEW d, NEW pkg \in d \cup {NoPackage}, NEW a \in Col(d),
           NoPackage \notin d, NEW f \in Fns, pkg = NoPackage => Pkg(f) \in d, NEW b,
           b = AddBridge(a, pkg, f)
    PROVE  /\ Goes(d, pkg, a, b) /\ b.found.matched = a.found.matched
           /\ b.found.candidates = a.found.candidates
           /\ b.found.stops \subseteq a.found.stops \cup {"owner_budget"}
           /\ f \in b.found.owners \/ "owner_budget" \in b.found.stops
           /\ b.ok => a.ok /\ f \in b.found.owners
           /\ f \in b.found.owners => b.ok = a.ok
<1>1. /\ a.found \in FoundType /\ a.cover \in [d -> CoverType] /\ a.ok \in BOOLEAN
      /\ IsFiniteSet(a.found.owners) /\ Cardinality(a.found.owners) \in Nat
      /\ opts.owners \in Nat /\ a.found.instrs \in Nat
  BY ColIs DEF FoundType
<1>2. CASE f \in a.found.owners
  <2>1. CASE pkg = NoPackage
    <3>1. b = a
      BY <1>2, <2>1 DEF AddBridge
    <3>2. QED
      BY <1>2, <3>1, GoesNowhere
  <2>2. CASE pkg # NoPackage
    <3> DEFINE e == [a.cover EXCEPT ![pkg].causes = @ \cup {"duplicate_suppression"}]
    <3>1. b = [a EXCEPT !.cover = e]
      BY <1>2, <2>2 DEF AddBridge
    <3>2. Covers(d, a.cover, e)
      BY <1>1, <2>2 DEF Covers, CoverType
    <3> HIDE DEF e
    <3>3. b \in Col(d) /\ b.found = a.found /\ b.ok = a.ok /\ b.cover = e
      BY <3>1, <3>2 DEF Col, Covers
    <3>4. Moves(d, a, b)
      BY <1>1, <3>2, <3>3 DEF Moves, Covers
    <3>5. Sound(d, pkg, a) => Sound(d, pkg, b)
      <4>1. \A r : Earned(d, a, r) => Earned(d, b, r)
        BY <3>2, <3>3 DEF Earned, Covers
      <4>2. Halted(a, pkg) => Halted(b, pkg)
        BY <3>2, <3>3 DEF Halted, Covers
      <4>3. QED
        BY <3>3, <4>1, <4>2 DEF Sound
    <3>6. QED
      BY <1>2, <3>3, <3>4, <3>5 DEF Goes
  <2>3. QED
    BY <2>1, <2>2
<1>3. CASE f \notin a.found.owners /\ AtLimit(Cardinality(a.found.owners), opts.owners)
  <2>1. b = Ended(a, pkg, "owner_budget")
    BY <1>3 DEF AddBridge, Ended
  <2>2. "owner_budget" \in Collects \ {"boundary_owner_budget"}
    BY DEF Collects
  <2>3. Earned(d, a, "owner_budget")
    BY <1>3 DEF Earned
  <2>4. /\ Goes(d, pkg, a, b) /\ ~b.ok /\ b.found.owners = a.found.owners
        /\ b.found.stops = a.found.stops \cup {"owner_budget"}
    BY <2>1, <2>2, <2>3, Halts
  <2>5. b.found.matched = a.found.matched /\ b.found.candidates = a.found.candidates
    <3>1. "owner_budget" \in StopReasons
      BY DEF StopReasons
    <3>2. PICK s : s = StopIn(a, pkg, "owner_budget") /\ s \in Col(d)
                   /\ Cut(a.found, s.found, "owner_budget")
      BY <3>1, StopInIs
    <3>3. b.found = s.found
      BY <2>1, <3>2 DEF Col, Ended
    <3>4. QED
      BY <3>2, <3>3 DEF Cut
  <2>6. QED
    BY <1>3, <2>4, <2>5
<1>4. CASE f \notin a.found.owners /\ ~AtLimit(Cardinality(a.found.owners), opts.owners)
  <2> DEFINE q == IF pkg = NoPackage THEN Pkg(f) ELSE pkg
             s == [a.found EXCEPT !.owners = @ \cup {f}]
             e == [a.cover EXCEPT ![q].owners = @ + 1]
  <2>1. q \in d
    OBVIOUS
  <2> HIDE DEF q
  <2>2. b = [a EXCEPT !.found = s, !.cover = e]
    BY <1>4 DEF AddBridge, q
  <2>3. Owned(a.found, s, a.found.owners \cup {f})
    BY <1>1 DEF Owned, FoundType
  <2>4. Covers(d, a.cover, e)
    BY <1>1, <2>1 DEF Covers, CoverType
  <2> HIDE DEF s, e
  <2>5. b \in Col(d) /\ b.found = s /\ b.ok = a.ok /\ b.cover = e
    BY <2>2, <2>3, <2>4 DEF Col, Covers, Owned
  <2>6. Moves(d, a, b)
    BY <1>1, <2>3, <2>4, <2>5 DEF Moves, Covers, Owned
  <2>7. /\ Keeps(b.found.owners, opts.owners)
        /\ Cardinality(b.found.owners) = Cardinality(a.found.owners) + 1
    <3>1. b.found.owners = a.found.owners \cup {f}
      BY <2>3, <2>5 DEF Owned
    <3>2. PICK S : S = a.found.owners
      OBVIOUS
    <3>3. IsFiniteSet(S) /\ f \notin S /\ ~AtLimit(Cardinality(S), opts.owners)
      BY <1>1, <1>4, <3>2
    <3>4. /\ Keeps(S \cup {f}, opts.owners)
          /\ Cardinality(S \cup {f}) = Cardinality(S) + 1
      BY <1>1, <3>3, OneMore
    <3>5. QED
      BY <3>1, <3>2, <3>4
  <2>8. Sound(d, pkg, a) => Sound(d, pkg, b)
    <3>1. \A r : Earned(d, a, r) => Earned(d, b, r)
      <4>1. AtLimit(Cardinality(a.found.owners), opts.owners)
            => AtLimit(Cardinality(b.found.owners), opts.owners)
        BY <1>1, <2>7 DEF AtLimit
      <4>2. QED
        BY <2>3, <2>4, <2>5, <4>1 DEF Earned, Covers, Owned
    <3>2. Halted(a, pkg) => Halted(b, pkg)
      BY <2>3, <2>4, <2>5 DEF Halted, Covers, Owned
    <3>3. QED
      BY <2>3, <2>5, <2>7, <3>1, <3>2 DEF Sound, Owned
  <2>9. QED
    BY <2>3, <2>5, <2>6, <2>8 DEF Goes, Owned
<1>5. QED
  BY <1>2, <1>3, <1>4

\* Only a candidate is new in g.
Looked(f, g, candidates) ==
    /\ g \in FoundType /\ g.candidates = candidates /\ g.owners = f.owners
    /\ g.stops = f.stops /\ g.instrs = f.instrs /\ g.matched = f.matched
    /\ g.reverse = f.reverse /\ g.adjacent = f.adjacent
    /\ g.starts = f.starts /\ g.packages = f.packages /\ g.scanned = f.scanned

LEMMA ScanBoundaryIs ==
    ASSUME input \in Inputs, NEW d, NEW pkg \in d, NEW a \in Col(d), NoPackage \notin d,
           NEW f \in Fns, NEW b, b = ScanBoundary(a, pkg, f)
    PROVE  Goes(d, pkg, a, b) /\ b.found.matched = a.found.matched /\ b.ok = a.ok
<1>1. /\ a.found \in FoundType /\ a.cover \in [d -> CoverType] /\ a.ok \in BOOLEAN
      /\ IsFiniteSet(a.found.candidates) /\ Cardinality(a.found.candidates) \in Nat
      /\ opts.candidates \in Nat /\ a.found.instrs \in Nat
  BY ColIs DEF FoundType
<1>2. CASE f \in a.found.candidates
  <2>1. b = a
    BY <1>2 DEF ScanBoundary
  <2>2. QED
    BY <2>1, GoesNowhere
<1>3. CASE f \notin a.found.candidates
           /\ AtLimit(Cardinality(a.found.candidates), opts.candidates)
  <2>1. "boundary_owner_budget" \in StopReasons
    BY DEF StopReasons
  <2>2. PICK s : /\ s = StopIn(a, pkg, "boundary_owner_budget") /\ s \in Col(d)
                 /\ s.ok = a.ok /\ Cut(a.found, s.found, "boundary_owner_budget")
                 /\ Covers(d, a.cover, s.cover)
    BY <2>1, StopInIs
  <2>3. b = [s EXCEPT !.found.skipped = @ \cup {f}]
    BY <1>3, <2>2 DEF ScanBoundary
  <2> DEFINE g == [s.found EXCEPT !.skipped = @ \cup {f}]
  <2>4. Cut(a.found, g, "boundary_owner_budget")
    BY <2>2 DEF Cut, FoundType
  <2>5. b = [s EXCEPT !.found = g]
    BY <2>3
  <2> HIDE DEF g
  <2>6. b \in Col(d) /\ b.found = g /\ b.cover = s.cover /\ b.ok = a.ok
    BY <2>2, <2>4, <2>5 DEF Col, Cut
  <2>7. Moves(d, a, b)
    BY <1>1, <2>2, <2>4, <2>6 DEF Moves, Covers, Cut, Collects
  <2>8. Sound(d, pkg, a) => Sound(d, pkg, b)
    <3>1. \A r : Earned(d, a, r) => Earned(d, b, r)
      BY <2>2, <2>4, <2>6 DEF Earned, Covers, Cut
    <3>2. Earned(d, b, "boundary_owner_budget")
      BY <1>3, <2>4, <2>6 DEF Earned, Cut
    <3>3. Halted(a, pkg) => Halted(b, pkg)
      BY <2>2, <2>4, <2>6 DEF Halted, Covers, Cut
    <3>4. b.found.stops \cap Hard = a.found.stops \cap Hard
      BY <2>4, <2>6 DEF Cut, Hard
    <3>5. QED
      BY <2>4, <2>6, <3>1, <3>2, <3>3, <3>4 DEF Sound, Cut
  <2>9. QED
    BY <2>4, <2>6, <2>7, <2>8 DEF Goes, Cut
<1>4. CASE f \notin a.found.candidates
           /\ ~AtLimit(Cardinality(a.found.candidates), opts.candidates)
  <2>1. PICK seen : seen = [a EXCEPT !.found.candidates = @ \cup {f}]
    OBVIOUS
  <2>2. PICK added : added = AddBridge(seen, pkg, f)
    OBVIOUS
  <2> DEFINE g == [a.found EXCEPT !.candidates = @ \cup {f}]
  <2>3. Looked(a.found, g, a.found.candidates \cup {f})
    BY <1>1 DEF Looked, FoundType
  <2>4. seen = [a EXCEPT !.found = g]
    BY <2>1
  <2> HIDE DEF g
  <2>5. seen \in Col(d) /\ seen.found = g /\ seen.cover = a.cover /\ seen.ok = a.ok
    BY <2>3, <2>4 DEF Col, Looked
  <2>6. Moves(d, a, seen)
    BY <1>1, <2>3, <2>5 DEF Moves, Looked
  <2>7. /\ Keeps(seen.found.candidates, opts.candidates)
        /\ Cardinality(seen.found.candidates) = Cardinality(a.found.candidates) + 1
    <3>1. seen.found.candidates = a.found.candidates \cup {f}
      BY <2>3, <2>5 DEF Looked
    <3>2. QED
      BY <1>1, <1>4, <3>1, OneMore
  <2>8. Sound(d, pkg, a) => Sound(d, pkg, seen)
    <3>1. \A r : Earned(d, a, r) => Earned(d, seen, r)
      <4>1. AtLimit(Cardinality(a.found.candidates), opts.candidates)
            => AtLimit(Cardinality(seen.found.candidates), opts.candidates)
        BY <1>1, <2>7 DEF AtLimit
      <4>2. QED
        BY <2>3, <2>5, <4>1 DEF Earned, Looked
    <3>2. Halted(a, pkg) => Halted(seen, pkg)
      BY <2>3, <2>5 DEF Halted, Looked
    <3>3. QED
      BY <2>3, <2>5, <2>7, <3>1, <3>2 DEF Sound, Looked
  <2>9. Goes(d, pkg, a, seen) /\ seen.found.matched = a.found.matched
    BY <2>3, <2>5, <2>6, <2>8 DEF Goes, Looked
  <2>10. CASE ~HasEvidence(f)
    <3>1. b = seen
      BY <1>4, <2>1, <2>10 DEF ScanBoundary
    <3>2. QED
      BY <2>5, <2>9, <3>1
  <2>11. CASE HasEvidence(f)
    <3>1. /\ Goes(d, pkg, seen, added) /\ added.found.matched = seen.found.matched
          /\ added.found.stops \subseteq seen.found.stops \cup {"owner_budget"}
          /\ f \in added.found.owners \/ "owner_budget" \in added.found.stops
          /\ f \in added.found.owners => added.ok = seen.ok
      BY <2>2, <2>5, AddBridgeIs
    <3>2. Goes(d, pkg, a, added)
      BY <2>9, <3>1, GoesOn
    <3>3. CASE f \notin added.found.owners
      <4>1. b = [added EXCEPT !.ok = a.ok]
        BY <1>4, <2>1, <2>2, <2>11, <3>3 DEF ScanBoundary
      <4>2. added \in Col(d) /\ b \in Col(d) /\ b.found = added.found /\ b.cover = added.cover
            /\ b.ok = a.ok
        <5>1. added \in Col(d)
          BY <3>1 DEF Goes
        <5>2. QED
          BY <1>1, <4>1, <5>1 DEF Col
      <4>3. Moves(d, a, b)
        BY <3>2, <4>2 DEF Goes, Moves
      <4>4. Sound(d, pkg, a) => Sound(d, pkg, b)
        <5>1. SUFFICES ASSUME Sound(d, pkg, a)
                       PROVE  Sound(d, pkg, b)
          OBVIOUS
        <5>2. Sound(d, pkg, added)
          BY <3>2, <5>1 DEF Goes
        <5>3. \A r : Earned(d, added, r) => Earned(d, b, r)
          BY <4>2 DEF Earned
        <5>4. a.ok => b.found.stops \cap Hard = {}
          <6>1. seen.found.stops = a.found.stops
            BY <2>3, <2>5 DEF Looked
          <6>2. "owner_budget" \notin Hard
            BY DEF Hard
          <6>3. QED
            BY <3>1, <4>2, <5>1, <6>1, <6>2 DEF Sound
        <5>5. ~a.ok => Halted(b, pkg) /\ b.found.stops # {}
          BY <3>2, <4>2, <5>1 DEF Goes, Moves, Sound, Halted
        <5>6. QED
          BY <4>2, <5>2, <5>3, <5>4, <5>5 DEF Sound
      <4>5. QED
        BY <2>9, <3>1, <4>2, <4>3, <4>4 DEF Goes
    <3>4. CASE f \in added.found.owners
      <4>1. b = [added EXCEPT !.found.bounded = @ \cup {f}, !.cover[pkg].boundary = @ + 1]
        BY <1>4, <2>1, <2>2, <2>11, <3>4 DEF ScanBoundary
      <4>2. added \in Col(d) /\ added.found \in FoundType /\ added.cover \in [d -> CoverType]
        BY <3>1 DEF Goes, Col
      <4> DEFINE h == [added.found EXCEPT !.bounded = @ \cup {f}]
                 e == [added.cover EXCEPT ![pkg].boundary = @ + 1]
      <4>3. Owned(added.found, h, added.found.owners)
        BY <4>2 DEF Owned, FoundType
      <4>4. Covers(d, added.cover, e)
        BY <4>2 DEF Covers, CoverType
      <4>5. b = [added EXCEPT !.found = h, !.cover = e]
        BY <4>1
      <4> HIDE DEF h, e
      <4>6. b \in Col(d) /\ b.found = h /\ b.cover = e /\ b.ok = added.ok
        BY <4>2, <4>3, <4>4, <4>5 DEF Col, Owned, Covers
      <4>7. b.ok = a.ok
        BY <2>5, <3>1, <3>4, <4>6
      <4>8. Moves(d, added, b)
        <5>1. added.found.instrs \in Nat
          BY <4>2 DEF FoundType
        <5>2. QED
          BY <4>3, <4>4, <4>6, <5>1 DEF Moves, Owned, Covers
      <4>9. Sound(d, pkg, added) => Sound(d, pkg, b)
        <5>1. \A r : Earned(d, added, r) => Earned(d, b, r)
          BY <4>3, <4>4, <4>6 DEF Earned, Owned, Covers
        <5>2. Halted(added, pkg) => Halted(b, pkg)
          BY <4>3, <4>4, <4>6 DEF Halted, Owned, Covers
        <5>3. QED
          BY <4>3, <4>6, <5>1, <5>2 DEF Sound, Owned
      <4>10. Goes(d, pkg, added, b)
        BY <4>6, <4>8, <4>9 DEF Goes
      <4>11. Goes(d, pkg, a, b)
        BY <3>2, <4>10, GoesOn
      <4>12. QED
        BY <2>9, <3>1, <4>3, <4>6, <4>7, <4>11 DEF Owned
    <3>5. QED
      BY <3>3, <3>4
  <2>12. QED
    BY <2>10, <2>11
<1>5. QED
  BY <1>2, <1>3, <1>4

LEMMA MatchRefIs ==
    ASSUME input \in Inputs, NEW d, NEW pkg \in d, NEW a \in Col(d), NoPackage \notin d,
           NEW ref, ref.owner \in Fns, InstrOf(ref).callee \in {0} \cup Fns, NEW b,
           b = MatchRef(a, pkg, ref)
    PROVE  Goes(d, pkg, a, b) /\ (b.ok => a.ok /\ ref.owner \in b.found.owners)
<1> DEFINE callee == InstrOf(ref).callee
<1>1. PICK m : m = [a EXCEPT !.found.matched[ref.owner] = @ + 1]
  OBVIOUS
<1>2. PICK owned : owned = AddBridge(m, pkg, ref.owner)
  OBVIOUS
<1>3. PICK added : added = AddBridge(owned, pkg, callee)
  OBVIOUS
<1>4. a.found \in FoundType /\ a.found.instrs \in Nat
  BY DEF Col, FoundType
<1> DEFINE g == [a.found EXCEPT !.matched[ref.owner] = @ + 1]
<1>5. /\ g \in FoundType /\ g.owners = a.found.owners /\ g.stops = a.found.stops
      /\ g.candidates = a.found.candidates /\ g.instrs = a.found.instrs
      /\ g.starts = a.found.starts /\ g.packages = a.found.packages
      /\ g.scanned = a.found.scanned
      /\ g.reverse = a.found.reverse /\ g.adjacent = a.found.adjacent
      /\ \A f \in Fns : f # ref.owner => g.matched[f] = a.found.matched[f]
  <2>1. PICK more : more = [a.found.matched EXCEPT ![ref.owner] = @ + 1]
    OBVIOUS
  <2>2. /\ more \in [Fns -> Nat]
        /\ \A f \in Fns : f # ref.owner => more[f] = a.found.matched[f]
    BY <1>4, <2>1 DEF FoundType
  <2>3. g = [a.found EXCEPT !.matched = more]
    BY <2>1
  <2> HIDE DEF g
  <2>4. QED
    BY <1>4, <2>2, <2>3 DEF FoundType
<1>6. m = [a EXCEPT !.found = g]
  BY <1>1
<1> HIDE DEF g, callee
<1>7. m \in Col(d) /\ m.found = g /\ m.cover = a.cover /\ m.ok = a.ok
  BY <1>5, <1>6 DEF Col
<1>8. /\ Goes(d, pkg, m, owned) /\ owned.found.matched = m.found.matched
      /\ ref.owner \in owned.found.owners \/ "owner_budget" \in owned.found.stops
      /\ owned.ok => m.ok /\ ref.owner \in owned.found.owners
  BY <1>2, <1>7, AddBridgeIs
<1>9. Goes(d, pkg, a, owned)
  <2>1. Moves(d, a, owned)
    BY <1>5, <1>7, <1>8 DEF Goes, Moves
  <2>2. Sound(d, pkg, a) => Sound(d, pkg, m)
    <3>1. \A r : Earned(d, a, r) => Earned(d, m, r)
      BY <1>5, <1>7 DEF Earned
    <3>2. Halted(a, pkg) => Halted(m, pkg)
      BY <1>5, <1>7 DEF Halted
    <3>3. QED
      BY <1>5, <1>7, <3>1, <3>2 DEF Sound
  <2>3. QED
    BY <1>8, <2>1, <2>2 DEF Goes
<1>10. b = IF ~owned.ok \/ callee \notin CalleesForRef(ref) THEN owned
           ELSE IF added.ok THEN ScanBoundary(added, pkg, callee) ELSE added
  BY <1>1, <1>2, <1>3 DEF MatchRef, callee
<1>11. CASE ~owned.ok \/ callee \notin CalleesForRef(ref)
  BY <1>7, <1>8, <1>9, <1>10, <1>11
<1>12. CASE owned.ok /\ callee \in CalleesForRef(ref)
  <2>1. callee \in Fns
    BY <1>12 DEF CalleesForRef, callee
  <2>2. owned \in Col(d)
    BY <1>9 DEF Goes
  <2>3. Goes(d, pkg, owned, added) /\ (added.ok => owned.ok)
    BY <1>3, <2>1, <2>2, AddBridgeIs
  <2>4. Goes(d, pkg, a, added) /\ added \in Col(d)
    BY <1>9, <2>3, GoesOn DEF Goes
  <2>5. ref.owner \in added.found.owners
    BY <1>8, <1>12, <2>3 DEF Goes, Moves
  <2>6. CASE added.ok
    <3>1. b = ScanBoundary(added, pkg, callee)
      BY <1>10, <1>12, <2>6
    <3>2. Goes(d, pkg, added, b)
      BY <2>1, <2>4, <3>1, ScanBoundaryIs
    <3>3. Goes(d, pkg, a, b)
      BY <2>4, <3>2, GoesOn
    <3>4. ref.owner \in b.found.owners
      BY <2>5, <3>2 DEF Goes, Moves
    <3>5. QED
      BY <1>7, <1>8, <1>12, <3>3, <3>4
  <2>7. CASE ~added.ok
    <3>1. b = added
      BY <1>10, <1>12, <2>7
    <3>2. QED
      BY <2>4, <2>7, <3>1
  <2>8. QED
    BY <2>6, <2>7
<1>13. QED
  BY <1>11, <1>12

\* The references of an instruction to a start.
Hits(f, n, pkg) == {r \in RefsAt(f, n) : r.operand \in {<<s, 0>> : s \in StartsOf(pkg)}}

LEMMA ScanInstrIs ==
    ASSUME input \in Inputs, NEW d, NEW pkg \in d, NEW a \in Col(d), NoPackage \notin d,
           NEW f \in Fns, NEW n \in DOMAIN Code(f), NEW timely, ~timely => opts.clock, NEW b,
           b = ScanInstr(a, pkg, f, n, timely)
    PROVE  /\ Goes(d, pkg, a, b)
           /\ b.ok => a.ok /\ (Hits(f, n, pkg) # {} => f \in b.found.owners)
<1>1. CASE ~a.ok
  <2>1. b = a
    BY <1>1 DEF ScanInstr
  <2>2. QED
    BY <1>1, <2>1, GoesNowhere
<1>2. CASE a.ok /\ \E reason \in Collects \ {"boundary_owner_budget"} :
                      b = Ended(a, pkg, reason) /\ Earned(d, a, reason)
  <2>1. PICK reason \in Collects \ {"boundary_owner_budget"} :
                b = Ended(a, pkg, reason) /\ Earned(d, a, reason)
    BY <1>2
  <2>2. pkg # NoPackage
    OBVIOUS
  <2>3. Goes(d, pkg, a, b) /\ ~b.ok
    BY <2>1, <2>2, Halts
  <2>4. QED
    BY <2>3
<1> DEFINE counted == [a EXCEPT !.found.instrs = @ + 1, !.cover[pkg].instrs = @ + 1]
           hits == {r \in RefsAt(f, n) : r.operand \in {<<s, 0>> : s \in StartsOf(pkg)}}
           args == Ascending({r.arg : r \in hits})
           RefOf(k) == CHOOSE r \in hits : r.arg = args[k]
           N == Len(args)
           after == CHOOSE h : h = [k \in 0..N |->
                        IF k = 0 THEN counted
                        ELSE IF h[k - 1].ok THEN MatchRef(h[k - 1], pkg, RefOf(k))
                        ELSE h[k - 1]]
<1>3. CASE a.ok /\ b = after[N]
  <2>1. a.found \in FoundType /\ a.cover \in [d -> CoverType] /\ a.found.instrs \in Nat
    BY DEF Col, FoundType
  <2>2. counted \in Col(d) /\ Goes(d, pkg, a, counted)
    <3> DEFINE g == [a.found EXCEPT !.instrs = @ + 1]
               e == [a.cover EXCEPT ![pkg].instrs = @ + 1]
    <3>1. /\ g \in FoundType /\ g.owners = a.found.owners /\ g.stops = a.found.stops
          /\ g.candidates = a.found.candidates /\ g.instrs = a.found.instrs + 1
          /\ g.starts = a.found.starts /\ g.packages = a.found.packages
          /\ g.scanned = a.found.scanned /\ g.matched = a.found.matched
          /\ g.reverse = a.found.reverse /\ g.adjacent = a.found.adjacent
      BY <2>1 DEF FoundType
    <3>2. Covers(d, a.cover, e)
      BY <2>1 DEF Covers, CoverType
    <3>3. PICK c : c = [a EXCEPT !.found = g, !.cover = e]
      OBVIOUS
    <3>4. c = counted
      BY <3>3
    <3> HIDE DEF g, e, counted
    <3>5. c \in Col(d) /\ c.found = g /\ c.cover = e /\ c.ok = a.ok
      BY <3>1, <3>2, <3>3 DEF Col, Covers
    <3>6. Moves(d, a, c)
      BY <2>1, <3>1, <3>2, <3>5 DEF Moves, Covers
    <3>7. Sound(d, pkg, a) => Sound(d, pkg, c)
      <4>1. AtLimit(a.found.instrs, opts.instrs) => AtLimit(c.found.instrs, opts.instrs)
        <5>1. opts.instrs \in Nat
          BY ColIs
        <5>2. QED
          BY <2>1, <3>1, <3>5, <5>1 DEF AtLimit
      <4>2. \A r : Earned(d, a, r) => Earned(d, c, r)
        BY <3>1, <3>2, <3>5, <4>1 DEF Earned, Covers
      <4>3. Halted(a, pkg) => Halted(c, pkg)
        BY <3>1, <3>2, <3>5 DEF Halted, Covers
      <4>4. QED
        BY <3>1, <3>5, <4>2, <4>3 DEF Sound
    <3>8. QED
      BY <3>4, <3>5, <3>6, <3>7 DEF Goes
  <2>3. /\ \A r \in hits : r \in RefType /\ r.owner = f /\ InstrOf(r) = Code(f)[n]
                           /\ r.arg \in Nat
    BY RefIs DEF RefType
  <2>4. Code(f)[n].callee \in {0} \cup Fns
    BY InstrIs
  <2>5. /\ N \in Nat /\ DOMAIN args = 1..N /\ (hits # {} => N # 0)
        /\ \A k \in 1..N : RefOf(k) \in hits
    <3> DEFINE A == {r.arg : r \in hits}
    <3>1. A \subseteq Nat
      BY <2>3
    <3>2. IsFiniteSet(A)
      <4>1. IsFiniteSet(RefsAt(f, n))
        BY RefsFinite
      <4>2. hits \subseteq RefsAt(f, n)
        OBVIOUS
      <4>3. IsFiniteSet(hits)
        BY <4>1, <4>2, FS_Subset
      <4> DEFINE h == [r \in hits |-> r.arg]
      <4> HIDE DEF hits
      <4>4. DOMAIN h = hits /\ A = {h[r] : r \in DOMAIN h}
        OBVIOUS
      <4> HIDE DEF h
      <4>5. QED
        BY <4>3, <4>4, ImageFinite
    <3> HIDE DEF hits
    <3>3. /\ args \in Seq(A) /\ ToSet(args) = A
      BY <3>1, <3>2, AscendingLists
    <3>4. N \in Nat /\ DOMAIN args = 1..N
      BY <3>3
    <3>5. hits # {} => N # 0
      <4>1. hits # {} => A # {}
        OBVIOUS
      <4>2. N = 0 => ToSet(args) = {}
        BY <3>4 DEF ToSet
      <4>3. QED
        BY <3>3, <4>1, <4>2
    <3>6. \A k \in 1..N : RefOf(k) \in hits
      <4>1. \A k \in 1..N : args[k] \in A
        <5> HIDE DEF args, A
        <5>1. QED
          BY <3>3, <3>4
      <4>2. \A k \in 1..N : \E r \in hits : r.arg = args[k]
        BY <4>1
      <4> HIDE DEF args, A
      <4>3. QED
        BY <4>2
    <3>7. QED
      BY <3>4, <3>5, <3>6
  <2> DEFINE Step(k, x) == IF x.ok THEN MatchRef(x, pkg, RefOf(k)) ELSE x
             step == [k \in 1..N |-> [x \in Col(d) |-> Step(k, x)]]
  <2>6. after = CHOOSE h : h = [k \in 0..N |-> IF k = 0 THEN counted ELSE Step(k, h[k - 1])]
    OBVIOUS
  <2>7. ASSUME NEW k \in 1..N, NEW x \in Col(d)
        PROVE  /\ Goes(d, pkg, x, Step(k, x))
               /\ Step(k, x).ok => x.ok /\ f \in Step(k, x).found.owners
    <3>1. CASE x.ok
      <4>1. Step(k, x) = MatchRef(x, pkg, RefOf(k))
        BY <3>1
      <4>2. RefOf(k).owner = f /\ InstrOf(RefOf(k)).callee \in {0} \cup Fns
        BY <2>3, <2>4, <2>5
      <4> HIDE DEF RefOf, Step
      <4>3. QED
        BY <4>1, <4>2, MatchRefIs
    <3>2. CASE ~x.ok
      BY <3>2, GoesNowhere
    <3>3. QED
      BY <3>1, <3>2
  <2> HIDE DEF counted, hits, args, RefOf, N, Step, after
  <2>8. step \in [1..N -> [Col(d) -> Col(d)]]
    BY <2>7 DEF Goes
  <2>9. PICK h \in [0..N -> Col(d)] : h[0] = counted /\ \A k \in 1..N : h[k] = step[k][h[k - 1]]
    <3> HIDE DEF step
    <3>1. \E h \in [0..N -> Col(d)] : Stepwise(N, counted, step, h)
      BY <2>2, <2>5, <2>8, Recursion
    <3>2. QED
      BY <3>1 DEF Stepwise
  <2>10. h = [k \in 0..N |-> IF k = 0 THEN counted ELSE Step(k, h[k - 1])]
    <3>1. ASSUME NEW k \in 0..N
          PROVE  h[k] = IF k = 0 THEN counted ELSE Step(k, h[k - 1])
      <4>1. CASE k = 0
        BY <2>9, <4>1
      <4>2. CASE k # 0
        <5>1. k \in 1..N /\ k - 1 \in 0..N
          BY <2>5, <4>2
        <5>2. h[k - 1] \in Col(d)
          BY <5>1
        <5>3. QED
          BY <2>9, <4>2, <5>1, <5>2
      <4>3. QED
        BY <4>1, <4>2
    <3>2. QED
      BY <3>1
  <2>11. after = [k \in 0..N |-> IF k = 0 THEN counted ELSE Step(k, after[k - 1])]
    BY <2>6, <2>10
  <2> DEFINE T == {k \in Nat : k <= N => /\ Goes(d, pkg, a, after[k])
                                         /\ after[k].ok /\ k # 0 => f \in after[k].found.owners}
  <2>12. 0 \in T
    <3>1. after[0] = counted
      BY <2>5, <2>11
    <3>2. QED
      BY <2>2, <3>1
  <2>13. ASSUME NEW k \in Nat, k \in T
         PROVE  k + 1 \in T
    <3>1. SUFFICES ASSUME k + 1 <= N
                   PROVE  /\ Goes(d, pkg, a, after[k + 1])
                          /\ after[k + 1].ok => f \in after[k + 1].found.owners
      OBVIOUS
    <3>2. k + 1 \in 1..N /\ k + 1 \in 0..N /\ k + 1 # 0 /\ (k + 1) - 1 = k /\ k <= N
      BY <2>5, <3>1
    <3>3. after[k + 1] = Step(k + 1, after[k])
      BY <2>11, <3>2
    <3>4. Goes(d, pkg, a, after[k]) /\ after[k] \in Col(d)
      BY <2>13, <3>2 DEF Goes
    <3>5. /\ Goes(d, pkg, after[k], after[k + 1])
          /\ after[k + 1].ok => f \in after[k + 1].found.owners
      BY <2>7, <3>2, <3>3, <3>4
    <3>6. QED
      BY <3>4, <3>5, GoesOn
  <2>14. N \in T
    <3> HIDE DEF T
    <3>1. QED
      BY <2>5, <2>12, <2>13, Climbing
  <2>15. hits = Hits(f, n, pkg)
    BY DEF hits, Hits
  <2>16. QED
    BY <1>3, <2>5, <2>14, <2>15
<1>4. \/ ~a.ok
      \/ a.ok /\ \E reason \in Collects \ {"boundary_owner_budget"} :
                      b = Ended(a, pkg, reason) /\ Earned(d, a, reason)
      \/ a.ok /\ b = after[N]
  <2>1. SUFFICES ASSUME a.ok
                 PROVE  \/ \E reason \in Collects \ {"boundary_owner_budget"} :
                              b = Ended(a, pkg, reason) /\ Earned(d, a, reason)
                        \/ b = after[N]
    OBVIOUS
  <2>2. b = IF ~timely THEN Ended(a, pkg, "duration_budget")
            ELSE IF AtLimit(a.found.instrs, opts.instrs)
            THEN Ended(a, pkg, "instruction_budget")
            ELSE IF AtLimit(Cardinality(a.found.owners), opts.owners)
            THEN Ended(a, pkg, "owner_budget")
            ELSE after[N]
    BY <2>1 DEF ScanInstr, Ended
  <2> HIDE DEF after
  <2>3. {"duration_budget", "instruction_budget", "owner_budget"}
        \subseteq Collects \ {"boundary_owner_budget"}
    BY DEF Collects
  <2>4. CASE ~timely
    BY <2>2, <2>3, <2>4 DEF Earned
  <2>5. CASE timely /\ AtLimit(a.found.instrs, opts.instrs)
    BY <2>2, <2>3, <2>5 DEF Earned
  <2>6. CASE timely /\ ~AtLimit(a.found.instrs, opts.instrs)
             /\ AtLimit(Cardinality(a.found.owners), opts.owners)
    BY <2>2, <2>3, <2>6 DEF Earned
  <2>7. QED
    BY <2>2, <2>4, <2>5, <2>6
<1>5. QED
  BY <1>1, <1>2, <1>3, <1>4

\* The scan of an owner begins.
Opens(d, pkg, f, a, c) ==
    /\ c \in Col(d) /\ c.ok = a.ok /\ c.found.scanned = a.found.scanned \cup {f}
    /\ c.found.owners = a.found.owners /\ c.found.stops = a.found.stops
    /\ c.found.candidates = a.found.candidates /\ c.found.instrs = a.found.instrs
    /\ c.found.starts = a.found.starts /\ c.found.packages = a.found.packages
    /\ c.found.matched = a.found.matched
    /\ c.found.reverse = a.found.reverse /\ c.found.adjacent = a.found.adjacent
    /\ \A p \in d : /\ c.cover[p].scheduled = a.cover[p].scheduled
                    /\ c.cover[p].completed = a.cover[p].completed
                    /\ c.cover[p].causes = a.cover[p].causes
                    /\ c.cover[p].stops = a.cover[p].stops
    /\ Sound(d, pkg, a) => Sound(d, pkg, c)

\* The collector before an owner is scanned, and after all of it has been.
AtWork == [found |-> found, cover |-> cover, ok |-> TRUE]
WellScanned(d, pkg, f, b) ==
    \E c : /\ Opens(d, pkg, f, AtWork, c) /\ Goes(d, pkg, c, b)
           /\ b.ok => \A n \in DOMAIN Code(f) :
                          Hits(f, n, pkg) # {} => f \in b.found.owners

LEMMA AtWorkIs ==
    ASSUME FoundOK, NEW d, d = DOMAIN cover
    PROVE  AtWork \in Col(d) /\ AtWork.ok = TRUE /\ AtWork.found = found /\ AtWork.cover = cover
BY DEF FoundOK, IsCover, AtWork, Col

LEMMA ScanOwnerIs ==
    ASSUME input \in Inputs, FoundOK, NEW d, d = DOMAIN cover, NEW pkg \in d, NoPackage \notin d,
           NEW f \in Fns, NEW cut \in 0..Len(Code(f)) + 1,
           cut # Len(Code(f)) + 1 => opts.clock, NEW b, b = ScanOwner(pkg, f, cut)
    PROVE  \/ Goes(d, pkg, AtWork, b) /\ ~b.ok
           \/ WellScanned(d, pkg, f, b)
<1> DEFINE N == Len(Code(f))
           open == [AtWork EXCEPT !.cover[pkg].functions = @ + 1, !.found.scanned = @ \cup {f}]
           after == CHOOSE h : h = [n \in 0..N |->
                        IF n = 0 THEN ScanBoundary(open, pkg, f)
                        ELSE ScanInstr(h[n - 1], pkg, f, n, n < cut)]
<1>1. AtWork \in Col(d) /\ AtWork.ok = TRUE /\ AtWork.found = found /\ AtWork.cover = cover
  BY AtWorkIs
<1>2. N \in Nat /\ DOMAIN Code(f) = 1..N
  BY ProgramIs
<1>3. CASE \E reason \in Collects \ {"boundary_owner_budget"} :
              b = Ended(AtWork, pkg, reason) /\ Earned(d, AtWork, reason)
  <2>1. PICK reason \in Collects \ {"boundary_owner_budget"} :
                b = Ended(AtWork, pkg, reason) /\ Earned(d, AtWork, reason)
    BY <1>3
  <2>2. pkg # NoPackage
    OBVIOUS
  <2>3. Goes(d, pkg, AtWork, b) /\ ~b.ok
    BY <1>1, <2>1, <2>2, Halts
  <2>4. QED
    BY <2>3
<1>4. CASE b = after[N]
  <2>1. found \in FoundType /\ cover \in [d -> CoverType] /\ found.instrs \in Nat
        /\ cover[pkg].functions \in Nat
    BY DEF FoundOK, IsCover, FoundType, CoverType
  <2>2. Opens(d, pkg, f, AtWork, open)
    <3> DEFINE g == [found EXCEPT !.scanned = @ \cup {f}]
               e == [cover EXCEPT ![pkg].functions = @ + 1]
    <3>1. /\ g \in FoundType /\ g.owners = found.owners /\ g.stops = found.stops
          /\ g.candidates = found.candidates /\ g.instrs = found.instrs
          /\ g.starts = found.starts /\ g.packages = found.packages
          /\ g.scanned = found.scanned \cup {f} /\ g.matched = found.matched
          /\ g.reverse = found.reverse /\ g.adjacent = found.adjacent
      BY <2>1 DEF FoundType
    <3>2. /\ e \in [d -> CoverType]
          /\ \A p \in d : /\ e[p].scheduled = cover[p].scheduled
                          /\ e[p].completed = cover[p].completed
                          /\ e[p].causes = cover[p].causes /\ e[p].stops = cover[p].stops
                          /\ p # pkg => e[p].functions = cover[p].functions
          /\ e[pkg].functions = cover[pkg].functions + 1
      <4>1. PICK q : q = [cover[pkg] EXCEPT !.functions = @ + 1]
        OBVIOUS
      <4>2. cover[pkg] \in CoverType
        BY <2>1
      <4>3. /\ q \in CoverType /\ q.scheduled = cover[pkg].scheduled
            /\ q.completed = cover[pkg].completed /\ q.causes = cover[pkg].causes
            /\ q.stops = cover[pkg].stops /\ q.functions = cover[pkg].functions + 1
        BY <4>1, <4>2 DEF CoverType
      <4>4. e = [cover EXCEPT ![pkg] = q]
        BY <4>1
      <4> HIDE DEF e
      <4>5. QED
        BY <2>1, <4>3, <4>4
    <3>3. PICK c : c = [AtWork EXCEPT !.found = g, !.cover = e]
      OBVIOUS
    <3>4. c = open
      BY <1>1, <3>3
    <3> HIDE DEF g, e, open
    <3>5. c \in Col(d) /\ c.found = g /\ c.cover = e /\ c.ok = AtWork.ok
      BY <1>1, <3>1, <3>2, <3>3 DEF Col
    <3>6. Sound(d, pkg, AtWork) => Sound(d, pkg, c)
      <4>1. \A p \in d : AtLimit(cover[p].functions, opts.perPackage)
                         => AtLimit(e[p].functions, opts.perPackage)
        <5>1. opts.perPackage \in Nat
          BY <1>1, ColIs
        <5>2. AtLimit(cover[pkg].functions, opts.perPackage)
              => AtLimit(e[pkg].functions, opts.perPackage)
          BY <2>1, <3>2, <5>1 DEF AtLimit
        <5>3. QED
          BY <3>2, <5>2
      <4>2. \A r : Earned(d, AtWork, r) => Earned(d, c, r)
        BY <1>1, <3>1, <3>5, <4>1 DEF Earned
      <4>3. Halted(AtWork, pkg) => Halted(c, pkg)
        BY <1>1, <3>1, <3>2, <3>5 DEF Halted
      <4>4. QED
        BY <1>1, <3>1, <3>5, <4>2, <4>3 DEF Sound
    <3>7. QED
      BY <1>1, <3>1, <3>2, <3>4, <3>5, <3>6 DEF Opens
  <2>3. open \in Col(d)
    BY <2>2 DEF Opens
  <2> DEFINE Step(n, x) == ScanInstr(x, pkg, f, n, n < cut)
             first == ScanBoundary(open, pkg, f)
             step == [n \in 1..N |-> [x \in Col(d) |-> Step(n, x)]]
  <2>4. after = CHOOSE h : h = [n \in 0..N |-> IF n = 0 THEN first ELSE Step(n, h[n - 1])]
    OBVIOUS
  <2>5. Goes(d, pkg, open, first) /\ first \in Col(d)
    <3>1. Goes(d, pkg, open, first)
      <4> HIDE DEF open
      <4>1. QED
        BY <2>3, ScanBoundaryIs
    <3>2. QED
      BY <3>1 DEF Goes
  <2>6. ASSUME NEW n \in 1..N, NEW x \in Col(d)
        PROVE  /\ Goes(d, pkg, x, Step(n, x))
               /\ Step(n, x).ok => x.ok /\ (Hits(f, n, pkg) # {} => f \in Step(n, x).found.owners)
    <3>1. n \in DOMAIN Code(f) /\ (~(n < cut) => opts.clock)
      BY <1>2
    <3>2. QED
      BY <3>1, ScanInstrIs
  <2> HIDE DEF open, N, Step, after, first
  <2>7. step \in [1..N -> [Col(d) -> Col(d)]]
    BY <2>6 DEF Goes
  <2>8. PICK h \in [0..N -> Col(d)] : h[0] = first /\ \A n \in 1..N : h[n] = step[n][h[n - 1]]
    <3> HIDE DEF step
    <3>1. \E h \in [0..N -> Col(d)] : Stepwise(N, first, step, h)
      BY <1>2, <2>5, <2>7, Recursion
    <3>2. QED
      BY <3>1 DEF Stepwise
  <2>9. h = [n \in 0..N |-> IF n = 0 THEN first ELSE Step(n, h[n - 1])]
    <3>1. ASSUME NEW n \in 0..N
          PROVE  h[n] = IF n = 0 THEN first ELSE Step(n, h[n - 1])
      <4>1. CASE n = 0
        BY <2>8, <4>1
      <4>2. CASE n # 0
        <5>1. n \in 1..N /\ n - 1 \in 0..N
          BY <1>2, <4>2
        <5>2. h[n - 1] \in Col(d)
          BY <5>1
        <5>3. QED
          BY <2>8, <4>2, <5>1, <5>2
      <4>3. QED
        BY <4>1, <4>2
    <3>2. QED
      BY <3>1
  <2>10. after = [n \in 0..N |-> IF n = 0 THEN first ELSE Step(n, after[n - 1])]
    BY <2>4, <2>9
  <2> DEFINE Held(n) == \A k \in 1..n : Hits(f, k, pkg) # {} => f \in after[n].found.owners
             T == {n \in Nat : n <= N => /\ Goes(d, pkg, open, after[n])
                                         /\ after[n].ok => Held(n)}
  <2>11. 0 \in T
    <3>1. after[0] = first
      BY <1>2, <2>10
    <3>2. QED
      BY <2>5, <3>1
  <2>12. ASSUME NEW n \in Nat, n \in T
         PROVE  n + 1 \in T
    <3>1. SUFFICES ASSUME n + 1 <= N
                   PROVE  /\ Goes(d, pkg, open, after[n + 1])
                          /\ after[n + 1].ok => Held(n + 1)
      OBVIOUS
    <3>2. n + 1 \in 1..N /\ n + 1 \in 0..N /\ n + 1 # 0 /\ (n + 1) - 1 = n /\ n <= N
      BY <1>2, <3>1
    <3>3. after[n + 1] = Step(n + 1, after[n])
      BY <2>10, <3>2
    <3>4. Goes(d, pkg, open, after[n]) /\ after[n] \in Col(d)
      BY <2>12, <3>2 DEF Goes
    <3>5. /\ Goes(d, pkg, after[n], after[n + 1])
          /\ after[n + 1].ok => /\ after[n].ok
                                /\ Hits(f, n + 1, pkg) # {} => f \in after[n + 1].found.owners
      BY <2>6, <3>2, <3>3, <3>4
    <3>6. Goes(d, pkg, open, after[n + 1])
      BY <2>3, <3>4, <3>5, GoesOn
    <3>7. after[n + 1].ok => Held(n + 1)
      <4>1. SUFFICES ASSUME after[n + 1].ok
                     PROVE  Held(n + 1)
        OBVIOUS
      <4>2. Held(n)
        BY <2>12, <3>2, <3>5, <4>1
      <4>3. after[n].found.owners \subseteq after[n + 1].found.owners
        BY <3>5 DEF Goes, Moves
      <4>4. \A k \in 1..(n + 1) : k = n + 1 \/ k \in 1..n
        OBVIOUS
      <4>5. QED
        BY <3>5, <4>1, <4>2, <4>3, <4>4
    <3>8. QED
      BY <3>6, <3>7
  <2>13. N \in T
    <3> HIDE DEF T
    <3>1. QED
      BY <1>2, <2>11, <2>12, Climbing
  <2>14. Goes(d, pkg, open, b) /\ (b.ok => \A n \in 1..N :
                                       Hits(f, n, pkg) # {} => f \in b.found.owners)
    BY <1>2, <1>4, <2>13
  <2>15. QED
    BY <1>2, <2>2, <2>14 DEF WellScanned
<1>5. \/ \E reason \in Collects \ {"boundary_owner_budget"} :
              b = Ended(AtWork, pkg, reason) /\ Earned(d, AtWork, reason)
      \/ b = after[N]
  <2>1. b = CASE cut = 0 -> Ended(AtWork, pkg, "duration_budget")
              [] cut > 0 /\ AtLimit(Cardinality(found.owners), opts.owners) ->
                     Ended(AtWork, pkg, "owner_budget")
              [] cut > 0 /\ AtLimit(found.instrs, opts.instrs) ->
                     Ended(AtWork, pkg, "instruction_budget")
              [] cut > 0 /\ AtLimit(cover[pkg].functions, opts.perPackage) ->
                     Ended(AtWork, pkg, "package_function_budget")
              [] OTHER -> after[N]
    BY DEF ScanOwner, Ended, AtWork
  <2> HIDE DEF after
  <2>2. {"duration_budget", "instruction_budget", "owner_budget", "package_function_budget"}
        \subseteq Collects \ {"boundary_owner_budget"}
    BY DEF Collects
  <2>3. cut = 0 => opts.clock
    BY <1>2
  <2>4. \/ b = Ended(AtWork, pkg, "duration_budget") /\ Earned(d, AtWork, "duration_budget")
        \/ b = Ended(AtWork, pkg, "owner_budget") /\ Earned(d, AtWork, "owner_budget")
        \/ b = Ended(AtWork, pkg, "instruction_budget")
           /\ Earned(d, AtWork, "instruction_budget")
        \/ b = Ended(AtWork, pkg, "package_function_budget")
           /\ Earned(d, AtWork, "package_function_budget")
        \/ b = after[N]
    BY <1>1, <2>1, <2>3 DEF Earned
  <2>5. QED
    BY <2>2, <2>4
<1>6. QED
  BY <1>3, <1>4, <1>5

-----------------------------------------------------------------------------
(* What holds while the probe looks for owners, and after.                 *)

\* The time runs out only when it is limited.
LateInv ==
    late => \/ phase \in {"frontier", "callers", "adjacent", "bridge", "oracle"} /\ opts.clock
            \/ phase \in {"expand", "index", "scan"} /\ opts.index

\* A stop is earned, and no limit is passed.
Met(reason) ==
    \/ reason = "duration_budget" /\ opts.clock
    \/ reason = "reverse_owner_budget" /\ AtLimit(Cardinality(found.reverse), opts.reverse)
    \/ reason = "adjacent_owner_budget" /\ AtLimit(Cardinality(found.adjacent), opts.adjacent)
    \/ reason \in {"boundary_candidate_budget", "boundary_owner_budget"}
       /\ AtLimit(Cardinality(found.candidates), opts.candidates)
    \/ reason = "package_budget" /\ AtLimit(Cardinality(found.packages), opts.packages)
    \/ reason = "start_budget" /\ AtLimit(Cardinality(found.starts), opts.starts)
    \/ reason = "owner_budget" /\ AtLimit(Cardinality(found.owners), opts.owners)
    \/ reason = "instruction_budget" /\ AtLimit(found.instrs, opts.instrs)
    \/ reason = "package_function_budget"
       /\ \E p \in DOMAIN cover : AtLimit(cover[p].functions, opts.perPackage)
    \/ reason = "depth_budget"
       /\ \E f \in found.owners, g \in Fns \ found.owners : g \in AdjacentIn(graph, f)
    \/ reason = "index_budget" /\ opts.index
Limits ==
    /\ \A reason \in found.stops : Met(reason)
    /\ Keeps(found.packages, opts.packages) /\ Keeps(found.candidates, opts.candidates)
    /\ Keeps(found.reverse, opts.reverse) /\ Keeps(found.adjacent, opts.adjacent)
    /\ Mode = "bridge" => Keeps(found.owners, opts.owners)

\* What is said of a package of the bridge: it has been scanned whole, or
\* something is known to have stopped its scan.
Whole(p) == /\ ToSet(FnsOf(p)) \subseteq found.scanned
            /\ Holders(found.starts, p) \subseteq found.owners
Tried(p) == /\ found.stops # {}
            /\ \/ cover[p].causes # {} \/ "owner_budget" \in found.stops
               \/ "package_function_budget" \in found.stops
Matching == \A f \in Fns : found.matched[f] > 0 =>
                f \in found.owners \/ "owner_budget" \in found.stops
AtHand(p) == at > 0 /\ p = Head(queue)
Bridging ==
    /\ Matching /\ found.stops \subseteq Collects \cup {"package_budget", "start_budget"}
    /\ queue # <<>> => found.stops \cap Hard = {}
    /\ \A p \in DOMAIN cover :
           /\ ~cover[p].scheduled => p \in ToSet(queue) \/ found.stops \cap Stopping # {}
           /\ cover[p].completed => Whole(p)
           /\ cover[p].scheduled /\ ~cover[p].completed => AtHand(p) \/ Tried(p)
    /\ at > 0 => /\ cover[Head(queue)].scheduled
                 /\ \A k \in 1..Len(FnsOf(Head(queue))) : k < at =>
                        LET f == FnsOf(Head(queue))[k]
                        IN  /\ f \in found.scanned
                            /\ f \in Holders(found.starts, Head(queue)) => f \in found.owners
Bridged ==
    /\ Matching /\ found.owners \subseteq Owners
    /\ \A p \in DOMAIN cover :
           /\ cover[p].completed => Whole(p)
           /\ ~cover[p].completed => Tried(p)
           /\ ~cover[p].completed /\ ~cover[p].scheduled => cover[p].stops # {}
BridgeInv ==
    Mode = "bridge" => /\ phase = "bridge" => Bridging
                       /\ Seeded => Bridged

-----------------------------------------------------------------------------
(* The bridge.                                                             *)

LEMMA CountDistinct ==
    ASSUME NEW S, NEW s \in Seq(S), \A i, j \in 1..Len(s) : s[i] = s[j] => i = j
    PROVE  IsFiniteSet(ToSet(s)) /\ Cardinality(ToSet(s)) = Len(s)
<1>1. Len(s) \in Nat /\ DOMAIN s = 1..Len(s)
  OBVIOUS
<1>2. IsFiniteSet(1..Len(s)) /\ Cardinality(1..Len(s)) = Len(s)
  BY <1>1, FS_Interval
<1>3. s \in [1..Len(s) -> ToSet(s)]
  BY <1>1 DEF ToSet
<1>4. s \in Surjection(1..Len(s), ToSet(s))
  BY <1>1, <1>3 DEF Surjection, ToSet
<1>5. s \in Injection(1..Len(s), ToSet(s))
  BY <1>3 DEF Injection, IsInjective
<1>6. IsFiniteSet(ToSet(s)) /\ Cardinality(ToSet(s)) <= Len(s)
  BY <1>2, <1>4, FS_Surjection
<1>7. Cardinality(1..Len(s)) <= Cardinality(ToSet(s))
  BY <1>5, <1>6, FS_Injection
<1>8. Cardinality(ToSet(s)) \in Nat
  BY <1>6, FS_CardinalityType
<1>9. QED
  BY <1>1, <1>2, <1>6, <1>7, <1>8

LEMMA AscendingDistinct ==
    ASSUME input \in Inputs, NEW S, S \subseteq Fns
    PROVE  \A i, j \in 1..Len(Ascending(S)) : Ascending(S)[i] = Ascending(S)[j] => i = j
<1>1. Fns \subseteq Nat
  BY ProgramIs
<1>2. S \subseteq Nat /\ IsFiniteSet(S)
  BY <1>1, FnsListed
<1>3. PICK A, n : /\ A = Ascending(S) /\ n \in Nat /\ Len(A) = n /\ A \in Seq(S)
                  /\ \A i, j \in 1..n : i < j => A[i] < A[j]
  BY <1>2, AscendingLists
<1>4. \A i \in 1..n : A[i] \in Nat
  <2>1. \A i \in 1..n : A[i] \in S
    BY <1>3
  <2>2. QED
    BY <1>2, <2>1
<1>5. \A i, j \in 1..n : A[i] = A[j] => i = j
  <2>1. ASSUME NEW i \in 1..n, NEW j \in 1..n, A[i] = A[j], i # j
        PROVE  FALSE
    <3>1. i < j \/ j < i
      BY <1>3, <2>1
    <3>2. A[i] < A[j] \/ A[j] < A[i]
      BY <1>3, <3>1
    <3>3. QED
      BY <1>4, <2>1, <3>2
  <2>2. QED
    BY <2>1
<1>6. QED
  BY <1>3, <1>5

LEMMA StartSeqIs ==
    ASSUME input \in Inputs, NEW S, S \subseteq Fns
    PROVE  /\ StartSeq(S) \in Seq(S) /\ Len(StartSeq(S)) \in Nat
           /\ \A i, j \in 1..Len(StartSeq(S)) : StartSeq(S)[i] = StartSeq(S)[j] => i = j
<1> DEFINE P == {f \in S : ~prog.fn[f].recv}
           Q == {f \in S : prog.fn[f].recv}
<1>1. P \subseteq Fns /\ Q \subseteq Fns /\ P \subseteq S /\ Q \subseteq S /\ P \cap Q = {}
  OBVIOUS
<1>2. StartSeq(S) = Ascending(P) \o Ascending(Q)
  BY DEF StartSeq
<1> HIDE DEF P, Q
<1>3. /\ Ascending(P) \in Seq(P) /\ Ascending(Q) \in Seq(Q)
      /\ \A i, j \in 1..Len(Ascending(P)) : Ascending(P)[i] = Ascending(P)[j] => i = j
      /\ \A i, j \in 1..Len(Ascending(Q)) : Ascending(Q)[i] = Ascending(Q)[j] => i = j
  BY <1>1, FnsListed, AscendingDistinct
<1>4. PICK a, b, m, n : /\ a = Ascending(P) /\ b = Ascending(Q) /\ m = Len(a) /\ n = Len(b)
                        /\ m \in Nat /\ n \in Nat /\ a \in Seq(P) /\ b \in Seq(Q)
                        /\ \A i \in 1..m : a[i] \in P
                        /\ \A i \in 1..n : b[i] \in Q
  <2>1. \A t, T : t \in Seq(T) => Len(t) \in Nat /\ \A i \in 1..Len(t) : t[i] \in T
    OBVIOUS
  <2>2. \E a, b, m, n : /\ a = Ascending(P) /\ b = Ascending(Q) /\ m = Len(a) /\ n = Len(b)
    OBVIOUS
  <2>3. QED
    BY <1>3, <2>1, <2>2
<1>5. a \in Seq(S) /\ b \in Seq(S)
  BY <1>1, <1>4
<1>6. PICK c : /\ c = a \o b /\ c \in Seq(S) /\ Len(c) = m + n
               /\ \A i \in 1..(m + n) : c[i] = IF i <= m THEN a[i] ELSE b[i - m]
  <2>1. a \o b \in Seq(S)
    BY <1>5
  <2>2. Len(a \o b) = m + n
    BY <1>4, <1>5
  <2>3. \A i \in 1..(m + n) : (a \o b)[i] = IF i <= m THEN a[i] ELSE b[i - m]
    BY <1>4, <1>5
  <2>4. QED
    BY <2>1, <2>2, <2>3
<1>7. ASSUME NEW i \in 1..(m + n), NEW j \in 1..(m + n), c[i] = c[j]
      PROVE  i = j
  <2>1. CASE i <= m /\ j <= m
    <3>1. i \in 1..m /\ j \in 1..m /\ a[i] = a[j]
      BY <1>4, <1>6, <1>7, <2>1
    <3>2. QED
      BY <1>3, <1>4, <3>1
  <2>2. CASE ~(i <= m) /\ ~(j <= m)
    <3>1. i - m \in 1..n /\ j - m \in 1..n /\ b[i - m] = b[j - m]
      BY <1>4, <1>6, <1>7, <2>2
    <3>2. i - m = j - m
      BY <1>3, <1>4, <3>1
    <3>3. QED
      BY <1>4, <3>2
  <2>3. CASE i <= m /\ ~(j <= m)
    <3>1. i \in 1..m /\ j - m \in 1..n /\ a[i] = b[j - m]
      BY <1>4, <1>6, <1>7, <2>3
    <3>2. QED
      BY <1>1, <1>4, <3>1
  <2>4. CASE ~(i <= m) /\ j <= m
    <3>1. j \in 1..m /\ i - m \in 1..n /\ a[j] = b[i - m]
      BY <1>4, <1>6, <1>7, <2>4
    <3>2. QED
      BY <1>1, <1>4, <3>1
  <2>5. QED
    BY <2>1, <2>2, <2>3, <2>4
<1>8. QED
  BY <1>2, <1>4, <1>6, <1>7

\* The packages of the starts, those with most starts first.
LEMMA ScheduleIs ==
    ASSUME input \in Inputs, NEW S, S \subseteq Fns
    PROVE  LET pkgs == {Pkg(f) : f \in S}
           IN  Schedule(S) \in Seq(pkgs) /\ ToSet(Schedule(S)) = pkgs
<1> DEFINE pkgs == {Pkg(f) : f \in S}
           Size(p) == Cardinality({f \in S : Pkg(f) = p})
           R == {x \in pkgs \X pkgs : \/ Size(x[1]) > Size(x[2])
                                      \/ Size(x[1]) = Size(x[2]) /\ x[1] < x[2]}
<1>1. Schedule(S) = InOrder(pkgs, R)
  BY DEF Schedule
<1>2. \A p \in pkgs : p \in Nat
  BY ProgramIs
<1>3. \A p : Size(p) \in Nat
  BY FnsListed
<1>4. IsFiniteSet(pkgs)
  <2> DEFINE h == [f \in S |-> Pkg(f)]
  <2>1. IsFiniteSet(DOMAIN h) /\ pkgs = {h[f] : f \in DOMAIN h}
    BY FnsListed
  <2> HIDE DEF h, pkgs
  <2>2. QED
    BY <2>1, ImageFinite
<1>5. \A p, q \in pkgs : <<p, q>> \in R <=> (Size(p) > Size(q) \/ (Size(p) = Size(q) /\ p < q))
  OBVIOUS
<1> HIDE DEF pkgs, Size, R
<1>6. StrictOrder(pkgs, R)
  <2>1. \A p \in pkgs : <<p, p>> \notin R
    BY <1>2, <1>3, <1>5
  <2>2. \A p, q \in pkgs : p # q => <<p, q>> \in R \/ <<q, p>> \in R
    BY <1>2, <1>3, <1>5
  <2>3. \A p, q, r \in pkgs : <<p, q>> \in R /\ <<q, r>> \in R => <<p, r>> \in R
    BY <1>2, <1>3, <1>5
  <2>4. QED
    BY <2>1, <2>2, <2>3 DEF StrictOrder
<1>7. QED
  BY <1>1, <1>4, <1>6, InOrderLists DEF pkgs

LEMMA ChosenStarts ==
    ASSUME input \in Inputs, NEW S, S \subseteq Fns, NEW limit, NEW chosen,
           limit = IF opts.starts > 0 /\ opts.starts < Len(StartSeq(S))
                   THEN opts.starts ELSE Len(StartSeq(S)),
           chosen = SubSeq(StartSeq(S), 1, limit)
    PROVE  /\ chosen \in Seq(S) /\ limit \in Nat /\ Len(chosen) = limit
           /\ ToSet(chosen) \subseteq Fns
           /\ \A k \in 1..limit : chosen[k] \in ToSet(chosen)
           /\ Cardinality(ToSet(chosen)) = limit
           /\ limit < Len(StartSeq(S)) => AtLimit(limit, opts.starts)
<1>1. opts.starts \in Nat
  BY EntryAssumption DEF opts, Numbers
<1>2. PICK o, n : /\ o = StartSeq(S) /\ n = Len(o) /\ n \in Nat /\ o \in Seq(S)
                  /\ \A i, j \in 1..n : o[i] = o[j] => i = j
  BY StartSeqIs
<1>3. limit \in 0..n /\ limit \in Nat /\ (limit < n => AtLimit(limit, opts.starts))
  BY <1>1, <1>2 DEF AtLimit
<1>4. chosen = SubSeq(o, 1, limit)
  BY <1>2
<1>5. /\ chosen \in Seq(S) /\ Len(chosen) = limit
      /\ \A i \in 1..limit : chosen[i] = o[i]
  BY <1>2, <1>3, <1>4
<1>6. \A i, j \in 1..limit : chosen[i] = chosen[j] => i = j
  BY <1>2, <1>3, <1>5
<1>7. Cardinality(ToSet(chosen)) = limit
  <2>1. \A i, j \in 1..Len(chosen) : chosen[i] = chosen[j] => i = j
    BY <1>5, <1>6
  <2>2. QED
    BY <1>5, <2>1, CountDistinct
<1>8. \A k \in 1..limit : chosen[k] \in ToSet(chosen)
  <2>1. DOMAIN chosen = 1..limit
    BY <1>5
  <2>2. QED
    BY <2>1 DEF ToSet
<1>9. ToSet(chosen) \subseteq Fns
  BY <1>5 DEF ToSet
<1>10. QED
  BY <1>2, <1>3, <1>5, <1>7, <1>8, <1>9

\* The collector after it has taken the starts it has room for.
Taken(a, chosen) ==
    LET after[k \in 0..Len(chosen)] ==
            IF k = 0 THEN a
            ELSE IF after[k - 1].ok THEN AddBridge(after[k - 1], NoPackage, chosen[k])
            ELSE after[k - 1]
    IN  after[Len(chosen)]

LEMMA TakeStarts ==
    ASSUME input \in Inputs, NEW d, NoPackage \notin d, NEW a \in Col(d), NEW chosen,
           chosen \in Seq(Fns), \A k \in 1..Len(chosen) : Pkg(chosen[k]) \in d, NEW b,
           b = Taken(a, chosen)
    PROVE  Goes(d, NoPackage, a, b) /\ b.found.stops \subseteq a.found.stops \cup {"owner_budget"}
           /\ b.found.candidates = a.found.candidates
<1> DEFINE N == Len(chosen)
           after == CHOOSE h : h = [k \in 0..N |->
                        IF k = 0 THEN a
                        ELSE IF h[k - 1].ok THEN AddBridge(h[k - 1], NoPackage, chosen[k])
                        ELSE h[k - 1]]
           Step(k, s) == IF s.ok THEN AddBridge(s, NoPackage, chosen[k]) ELSE s
           step == [k \in 1..N |-> [s \in Col(d) |-> Step(k, s)]]
           Near(s, t) == /\ Goes(d, NoPackage, s, t)
                         /\ t.found.stops \subseteq s.found.stops \cup {"owner_budget"}
                         /\ t.found.candidates = s.found.candidates
<1>1. N \in Nat /\ \A k \in 1..N : chosen[k] \in Fns
  OBVIOUS
<1>2. b = after[N]
  BY DEF Taken
<1>3. \A k \in 1..N : \A s \in Col(d) : Near(s, Step(k, s))
  <2>1. ASSUME NEW k \in 1..N, NEW s \in Col(d)
        PROVE  Near(s, Step(k, s))
    <3>1. CASE s.ok
      <4>1. PICK t : t = AddBridge(s, NoPackage, chosen[k])
        OBVIOUS
      <4>2. Near(s, t)
        BY <1>1, <4>1, AddBridgeIs
      <4>3. QED
        BY <3>1, <4>1, <4>2
    <3>2. CASE ~s.ok
      BY <3>2, GoesNowhere
    <3>3. QED
      BY <3>1, <3>2
  <2>2. QED
    BY <2>1
<1>4. step \in [1..N -> [Col(d) -> Col(d)]]
  BY <1>3 DEF Goes
<1>5. PICK h \in [0..N -> Col(d)] : Stepwise(N, a, step, h)
  <2> HIDE DEF N, step
  <2>1. QED
    BY <1>1, <1>4, Recursion
<1>6. h = [k \in 0..N |-> IF k = 0 THEN a ELSE Step(k, h[k - 1])]
  <2>1. \A k \in 1..N : h[k] = Step(k, h[k - 1])
    <3>1. ASSUME NEW k \in 1..N
          PROVE  h[k] = Step(k, h[k - 1])
      <4>1. h[k - 1] \in Col(d) /\ h[k] = step[k][h[k - 1]]
        <5> HIDE DEF step, N
        <5>1. k - 1 \in 0..N
          BY <1>1
        <5>2. QED
          BY <1>5, <5>1 DEF Stepwise
      <4>2. QED
        BY <4>1
    <3>2. QED
      BY <3>1
  <2>2. h[0] = a
    BY <1>5 DEF Stepwise
  <2> HIDE DEF Step, N
  <2>3. QED
    BY <1>1, <1>5, <2>1, <2>2
<1>7. after = [k \in 0..N |-> IF k = 0 THEN a ELSE Step(k, after[k - 1])]
  BY <1>6
<1> DEFINE T == {n \in Nat : n <= N => after[n] \in Col(d) /\ Near(a, after[n])}
<1> HIDE DEF after
<1>8. 0 \in T
  <2>1. after[0] = a
    BY <1>1, <1>7
  <2>2. QED
    BY <2>1, GoesNowhere
<1>9. ASSUME NEW n \in Nat, n \in T
      PROVE  n + 1 \in T
  <2>1. SUFFICES ASSUME n + 1 <= N
                 PROVE  after[n + 1] \in Col(d) /\ Near(a, after[n + 1])
    OBVIOUS
  <2>2. n + 1 \in 1..N /\ n + 1 \in 0..N /\ n + 1 # 0 /\ (n + 1) - 1 = n /\ n <= N
    BY <1>1, <2>1
  <2>3. after[n] \in Col(d) /\ Near(a, after[n])
    BY <1>9, <2>2
  <2>4. after[n + 1] = Step(n + 1, after[n])
    BY <1>7, <2>2
  <2> HIDE DEF Step
  <2>5. Near(after[n], after[n + 1])
    BY <1>3, <2>2, <2>3, <2>4
  <2>6. QED
    BY <2>3, <2>5, GoesOn DEF Goes
<1>10. N \in T
  <2> HIDE DEF T
  <2>1. QED
    BY <1>1, <1>8, <1>9, Climbing
<1>11. Near(a, after[N])
  <2>1. N <= N
    BY <1>1
  <2> HIDE DEF N, Near
  <2>2. QED
    BY <1>10, <2>1
<1>12. QED
  BY <1>2, <1>11

LEMMA SoundMeets ==
    ASSUME NEW d, NEW pkg, NEW b, b \in Col(d), Sound(d, pkg, b), UNCHANGED input,
           found' = b.found, cover' = b.cover
    PROVE  \A reason \in Collects \cap b.found.stops : Met(reason)'
<1> SUFFICES ASSUME NEW reason \in Collects \cap b.found.stops
             PROVE  Met(reason)'
  OBVIOUS
<1>1. Earned(d, b, reason)
  BY DEF Sound
<1>2. opts' = opts
  BY DEF opts
<1>3. DOMAIN b.cover = d
  BY DEF Col
<1>4. CASE reason = "package_function_budget"
  BY <1>1, <1>2, <1>3, <1>4 DEF Earned, Met
<1>5. CASE reason # "package_function_budget"
  BY <1>1, <1>2, <1>5 DEF Earned, Met
<1>6. QED
  BY <1>4, <1>5

\* The collector before it takes a start.
Fresh(d, size, starts, stops) ==
    [found |-> [Nothing EXCEPT !.starts = starts, !.stops = stops],
     cover |-> [p \in d |-> NewCover(size[p])], ok |-> TRUE]

IsFresh(d, starts, stops, a) ==
    /\ a \in Col(d) /\ a.ok /\ Sound(d, NoPackage, a)
    /\ a.found.starts = starts /\ a.found.stops = stops
    /\ a.found.packages = {} /\ a.found.candidates = {} /\ a.found.reverse = {}
    /\ a.found.adjacent = {} /\ \A f \in Fns : a.found.matched[f] = 0
    /\ \A p \in d : ~a.cover[p].scheduled /\ ~a.cover[p].completed

LEMMA FreshIs ==
    ASSUME input \in Inputs, NEW d, d \subseteq Pkgs, NEW size, size \in [d -> Nat],
           NEW starts, starts \subseteq Fns, NEW stops, stops \subseteq {"start_budget"}
    PROVE  IsFresh(d, starts, stops, Fresh(d, size, starts, stops))
<1>0. PICK a : a = Fresh(d, size, starts, stops)
  OBVIOUS
<1>1. \A n \in Nat : NewCover(n) \in CoverType
  BY DEF NewCover, CoverType
<1>2. Nothing \in FoundType /\ stops \subseteq StopReasons
  BY DEF Nothing, FoundType, StopReasons
<1>3. a.found = [Nothing EXCEPT !.starts = starts, !.stops = stops]
      /\ a.cover = [p \in d |-> NewCover(size[p])] /\ a.ok = TRUE
  BY <1>0 DEF Fresh
<1>4. a.found \in FoundType /\ a.found.owners = {} /\ a.found.candidates = {}
      /\ a.found.stops = stops /\ a.found.starts = starts
  <2>1. a.found \in FoundType
    <3>1. ASSUME NEW n \in FoundType
          PROVE  [n EXCEPT !.starts = starts, !.stops = stops] \in FoundType
      BY <1>2, <3>1 DEF FoundType
    <3>2. QED
      BY <1>2, <1>3, <3>1
  <2>2. QED
    BY <1>3, <2>1 DEF Nothing
<1>5. a.cover \in [d -> CoverType]
  BY <1>1, <1>3
<1>6. a \in Col(d)
  BY <1>0, <1>3, <1>4, <1>5 DEF Col, Fresh
<1>7. Sound(d, NoPackage, a)
  <2>1. Cardinality({}) = 0
    BY FS_EmptySet
  <2>2. opts.owners \in Nat /\ opts.candidates \in Nat
    BY EntryAssumption DEF opts, Numbers
  <2>3. Collects \cap stops = {} /\ stops \cap Hard = {}
    BY DEF Collects, Hard
  <2>4. Collects \cap a.found.stops = {} /\ a.found.stops \cap Hard = {} /\ a.ok
    BY <1>3, <1>4, <2>3
  <2>5. Keeps(a.found.owners, opts.owners) /\ Keeps(a.found.candidates, opts.candidates)
    BY <1>4, <2>1, <2>2 DEF Keeps
  <2>6. QED
    BY <2>4, <2>5 DEF Sound
<1>8. /\ a.found.packages = {} /\ a.found.reverse = {} /\ a.found.adjacent = {}
      /\ \A f \in Fns : a.found.matched[f] = 0
  BY <1>3 DEF Nothing
<1>9. \A p \in d : ~a.cover[p].scheduled /\ ~a.cover[p].completed
  BY <1>3 DEF NewCover
<1>10. QED
  BY <1>0, <1>3, <1>4, <1>6, <1>7, <1>8, <1>9 DEF IsFresh

LEMMA SelectStartsHolds ==
    TypeInv /\ LateInv /\ SelectStarts => TypeInv' /\ Limits' /\ Bridging'
<1> SUFFICES ASSUME TypeInv, LateInv, SelectStarts
             PROVE  TypeInv' /\ Limits' /\ Bridging'
  OBVIOUS
<1>1. UNCHANGED <<input, graph, callers, visited, index, flow, why, noted, diags, late>>
      /\ phase' = "bridge" /\ at' = 0
  BY DEF SelectStarts, BridgeUnchanged
<1>2. /\ input' \in Inputs /\ input \in Inputs /\ GraphOK /\ GraphOK' /\ SeedsOK' /\ IndexOK'
      /\ Fns' = Fns /\ Pkgs' = Pkgs /\ FoundType' = FoundType
  BY <1>1, Kept
<1>3. Starts \subseteq Fns
  BY <1>2 DEF GraphOK, Starts
<1> DEFINE order == StartSeq(Starts)
           limit == IF opts.starts > 0 /\ opts.starts < Len(order)
                    THEN opts.starts ELSE Len(order)
           chosen == SubSeq(order, 1, limit)
           S == ToSet(chosen)
           d == {Pkg(f) : f \in S}
           Size(p) == Cardinality({f \in S : Pkg(f) = p})
           stop == IF limit < Len(order) THEN {"start_budget"} ELSE {}
           a == [found |-> [Nothing EXCEPT !.starts = S, !.stops = stop],
                 cover |-> [p \in d |-> NewCover(Size(p))], ok |-> TRUE]
           b == LET after[k \in 0..Len(chosen)] ==
                        IF k = 0 THEN a
                        ELSE IF after[k - 1].ok
                        THEN AddBridge(after[k - 1], NoPackage, chosen[k])
                        ELSE after[k - 1]
                IN  after[Len(chosen)]
           size == [p \in d |-> Size(p)]
<1>4. found' = b.found /\ cover' = b.cover /\ queue' = Schedule(S)
  BY DEF SelectStarts
<1>5. a = Fresh(d, size, S, stop)
  <2>1. [p \in d |-> NewCover(size[p])] = [p \in d |-> NewCover(Size(p))]
    OBVIOUS
  <2>2. QED
    BY <2>1 DEF Fresh
<1>6. /\ d = {Pkg(f) : f \in S} /\ size = [p \in d |-> Cardinality({f \in S : Pkg(f) = p})]
      /\ stop = IF limit < Len(order) THEN {"start_budget"} ELSE {}
  OBVIOUS
<1>7. /\ order = StartSeq(Starts)
      /\ limit = IF opts.starts > 0 /\ opts.starts < Len(order)
                 THEN opts.starts ELSE Len(order)
      /\ chosen = SubSeq(order, 1, limit) /\ S = ToSet(chosen)
  OBVIOUS
<1>8. b = Taken(a, chosen)
  BY DEF Taken
<1> HIDE DEF order, limit, chosen, S, d, Size, stop, a, b, size
<1>10. /\ chosen \in Seq(Starts) /\ Len(chosen) = limit /\ limit \in Nat
       /\ S \subseteq Fns /\ Cardinality(S) = limit
       /\ \A k \in 1..limit : chosen[k] \in S
       /\ limit < Len(order) => AtLimit(limit, opts.starts)
  BY <1>2, <1>3, <1>7, ChosenStarts
<1>11. d \subseteq Pkgs /\ NoPackage \notin d /\ size \in [d -> Nat]
  <2>1. \A f \in Fns : Pkg(f) \in Nat \ {0}
    BY <1>2, ProgramIs
  <2>2. \A p : Cardinality({f \in S : Pkg(f) = p}) \in Nat
    BY <1>2, <1>10, FnsListed
  <2>3. QED
    BY <1>6, <1>10, <2>1, <2>2 DEF Pkgs, NoPackage
<1>12. stop \subseteq {"start_budget"}
  BY <1>6
<1>13. /\ a \in Col(d) /\ a.ok /\ Sound(d, NoPackage, a)
       /\ a.found.starts = S /\ a.found.stops = stop
       /\ a.found.packages = {} /\ a.found.candidates = {} /\ a.found.reverse = {}
       /\ a.found.adjacent = {} /\ \A f \in Fns : a.found.matched[f] = 0
       /\ \A p \in d : ~a.cover[p].scheduled /\ ~a.cover[p].completed
  <2>1. stop \subseteq {"start_budget"} /\ S \subseteq Fns
    BY <1>10, <1>12
  <2>2. IsFresh(d, S, stop, a)
    BY <1>2, <1>5, <1>11, <2>1, FreshIs
  <2>3. QED
    BY <2>2 DEF IsFresh
<1>14. chosen \in Seq(Fns) /\ \A k \in 1..Len(chosen) : Pkg(chosen[k]) \in d
  BY <1>3, <1>6, <1>10
<1>15. /\ Goes(d, NoPackage, a, b) /\ b.found.candidates = {}
       /\ b.found.stops \subseteq stop \cup {"owner_budget"}
  BY <1>2, <1>8, <1>11, <1>13, <1>14, TakeStarts
<1>16. /\ b \in Col(d) /\ Sound(d, NoPackage, b) /\ b.found.starts = S
       /\ b.found.packages = {} /\ b.found.reverse = {} /\ b.found.adjacent = {}
       /\ \A f \in Fns : b.found.matched[f] > 0 =>
              f \in b.found.owners \/ "owner_budget" \in b.found.stops
       /\ \A p \in d : ~b.cover[p].scheduled /\ ~b.cover[p].completed
  BY <1>13, <1>15 DEF Goes, Moves
<1>17. b.found \in FoundType /\ b.cover \in [d -> CoverType] /\ DOMAIN b.cover = d
  BY <1>16 DEF Col
<1>18. queue' \in Seq(d) /\ ToSet(queue') = d
  BY <1>2, <1>6, <1>4, <1>10, ScheduleIs
<1>19. TypeInv'
  <2>1. FoundOK'
    BY <1>2, <1>4, <1>11, <1>17 DEF FoundOK, IsCover
  <2>2. PlaceOK'
    BY <1>1, <1>4, <1>17, <1>18 DEF PlaceOK
  <2>3. QED
    BY <1>2, <2>1, <2>2 DEF TypeInv
<1>20. Limits'
  <2>1. opts' = opts
    BY <1>1 DEF opts
  <2>2. \A reason \in Collects \cap b.found.stops : Met(reason)'
    BY <1>1, <1>4, <1>16, SoundMeets
  <2>3. "start_budget" \in b.found.stops => Met("start_budget")'
    <3>1. "start_budget" \in b.found.stops => limit < Len(order)
      BY <1>6, <1>15
    <3>2. QED
      BY <1>4, <1>10, <1>16, <2>1, <3>1 DEF Met
  <2>4. \A reason \in found'.stops : Met(reason)'
    BY <1>4, <1>12, <1>15, <2>2, <2>3 DEF Collects
  <2>5. Cardinality({}) = 0
    BY FS_EmptySet
  <2>6. opts.packages \in Nat /\ opts.candidates \in Nat /\ opts.reverse \in Nat
        /\ opts.adjacent \in Nat
    BY <1>2, EntryAssumption DEF opts, Numbers
  <2>7. /\ Keeps(found'.packages, opts'.packages) /\ Keeps(found'.candidates, opts'.candidates)
        /\ Keeps(found'.reverse, opts'.reverse) /\ Keeps(found'.adjacent, opts'.adjacent)
    BY <1>4, <1>15, <1>16, <2>1, <2>5, <2>6 DEF Keeps
  <2>8. Keeps(found'.owners, opts'.owners)
    BY <1>4, <1>16, <2>1 DEF Sound
  <2>9. QED
    BY <2>4, <2>7, <2>8 DEF Limits
<1>21. Bridging'
  <2>1. Matching'
    BY <1>2, <1>4, <1>16 DEF Matching
  <2>2. found'.stops \cap Hard = {}
    BY <1>4, <1>12, <1>15 DEF Hard
  <2>3. DOMAIN cover' = d /\ \A p \in d : ~cover'[p].scheduled /\ ~cover'[p].completed
                                          /\ p \in ToSet(queue')
    BY <1>4, <1>16, <1>17, <1>18
  <2>4. found'.stops \subseteq Collects \cup {"package_budget", "start_budget"}
    BY <1>4, <1>12, <1>15 DEF Collects
  <2>5. QED
    BY <1>1, <2>1, <2>2, <2>3, <2>4 DEF Bridging
<1>22. QED
  BY <1>19, <1>20, <1>21

-----------------------------------------------------------------------------
(* The packages of the bridge.                                             *)

LEMMA SameWork ==
    ASSUME UNCHANGED input
    PROVE  /\ \A p : FnsOf(p)' = FnsOf(p)
           /\ \A S, p : Holders(S, p)' = Holders(S, p)
<1>1. \A p : FnsOf(p)' = FnsOf(p)
  BY SameProgram DEF FnsOf
<1>2. \A S, p : Holders(S, p)' = Holders(S, p)
  BY SameProgram DEF Holders
<1>3. QED
  BY <1>1, <1>2

\* What keeps the limits: the numbers are the same, and what is new is earned.
LEMMA LimitsKept ==
    ASSUME Limits, UNCHANGED <<input, graph>>, found.owners \subseteq Fns,
           found'.owners = found.owners, found'.reverse = found.reverse,
           found'.adjacent = found.adjacent, found'.candidates = found.candidates,
           found'.packages = found.packages, found'.starts = found.starts,
           found'.instrs = found.instrs, DOMAIN cover' = DOMAIN cover,
           \A p \in DOMAIN cover : cover'[p].functions = cover[p].functions,
           \A reason \in found'.stops : reason \in found.stops \/ Met(reason)'
    PROVE  Limits'
<1>1. opts' = opts /\ Mode' = Mode /\ Fns' = Fns
  BY SameProgram DEF opts, Mode
<1>2. ASSUME NEW reason, Met(reason)
      PROVE  Met(reason)'
  <2>1. CASE reason = "depth_budget"
    <3>1. PICK f \in found.owners, g \in Fns \ found.owners : g \in AdjacentIn(graph, f)
      BY <1>2, <2>1 DEF Met
    <3>2. AdjacentIn(graph, f)' = AdjacentIn(graph, f)
      BY <1>1, SameProgram DEF AdjacentIn, StaticCallees, CallersIn, Calls, Instrs
    <3>3. \E x \in found'.owners, y \in Fns' \ found'.owners : y \in AdjacentIn(graph, x)'
      BY <1>1, <3>1, <3>2
    <3>4. QED
      BY <2>1, <3>3 DEF Met
  <2>2. CASE reason # "depth_budget"
    BY <1>1, <1>2, <2>2 DEF Met
  <2>3. QED
    BY <2>1, <2>2
<1>3. \A reason \in found'.stops : Met(reason)'
  BY <1>2 DEF Limits
<1>4. QED
  BY <1>1, <1>3 DEF Limits

LEMMA PkgsFinite == input \in Inputs => IsFiniteSet(Pkgs)
<1> SUFFICES ASSUME input \in Inputs
             PROVE  IsFiniteSet(Pkgs)
  OBVIOUS
<1> DEFINE h == [f \in Fns |-> Pkg(f)]
<1>1. IsFiniteSet(DOMAIN h) /\ Pkgs = {h[f] : f \in DOMAIN h}
  BY ProgramIs DEF Pkgs
<1> HIDE DEF h
<1>2. QED
  BY <1>1, ImageFinite

\* A package stays scanned whole, and what stopped its scan stays known.
LEMMA StaysSo ==
    ASSUME UNCHANGED input, found.stops \subseteq found'.stops,
           found'.starts = found.starts, found.scanned \subseteq found'.scanned,
           found.owners \subseteq found'.owners, NEW p
    PROVE  /\ Whole(p) => Whole(p)'
           /\ cover[p].causes \subseteq cover'[p].causes /\ Tried(p) => Tried(p)'
<1>1. Whole(p) => Whole(p)'
  <2>1. FnsOf(p)' = FnsOf(p) /\ Holders(found.starts, p)' = Holders(found.starts, p)
    <3>1. \A S : Holders(S, p)' = Holders(S, p)
      BY SameWork
    <3>2. Holders(found.starts, p)' = Holders(found'.starts, p)
      BY SameProgram DEF Holders
    <3>3. QED
      BY <3>2, SameWork
  <2>2. QED
    BY <2>1 DEF Whole
<1>2. cover[p].causes \subseteq cover'[p].causes /\ Tried(p) => Tried(p)'
  BY DEF Tried
<1>3. QED
  BY <1>1, <1>2

LEMMA StartPackageHolds ==
    TypeInv /\ LateInv /\ Limits /\ Bridging /\ StartPackage => TypeInv' /\ Limits' /\ Bridging'
<1> SUFFICES ASSUME TypeInv, LateInv, Limits, Bridging, StartPackage
             PROVE  TypeInv' /\ Limits' /\ Bridging'
  OBVIOUS
<1>1. /\ UNCHANGED <<input, graph, callers, visited, index, flow, phase, why, noted, diags>>
      /\ phase = "bridge" /\ at = 0 /\ queue # <<>>
  BY DEF StartPackage, BridgeUnchanged
<1>2. /\ input' \in Inputs /\ input \in Inputs /\ GraphOK' /\ SeedsOK /\ FoundOK /\ IndexOK'
      /\ Fns' = Fns /\ Pkgs' = Pkgs /\ FoundType' = FoundType
  BY <1>1, Kept
<1>3. PICK pkg, d, full, c : /\ pkg = Head(queue) /\ d = DOMAIN cover
                             /\ full = AtLimit(Cardinality(found.packages), opts.packages)
                             /\ c = [cover EXCEPT ![pkg].scheduled = TRUE]
  OBVIOUS
<1>4. PICK st : st = [found |-> found, cover |-> c, ok |-> TRUE]
  OBVIOUS
<1>5. PICK t \in Ticks(1, opts.clock) :
          /\ \/ t[1] /\ found' = StopIn(st, pkg, "duration_budget").found
                     /\ cover' = StopIn(st, pkg, "duration_budget").cover
             \/ ~t[1] /\ full /\ found' = StopIn(st, pkg, "package_budget").found
                              /\ cover' = StopIn(st, pkg, "package_budget").cover
             \/ ~t[1] /\ ~full /\ found' = [found EXCEPT !.packages = @ \cup {pkg}]
                               /\ cover' = [c EXCEPT ![pkg].scanned = TRUE]
          /\ queue' = IF t[1] \/ full THEN <<>> ELSE queue
          /\ at' = IF t[1] \/ full THEN 0 ELSE 1
          /\ late' = t[1]
  <2>1. PICK t \in Ticks(1, opts.clock) :
            LET end == IF t[1] THEN StopIn(st, pkg, "duration_budget")
                       ELSE IF full THEN StopIn(st, pkg, "package_budget")
                       ELSE [st EXCEPT !.found.packages = @ \cup {pkg},
                                       !.cover[pkg].scanned = TRUE]
            IN  /\ found' = end.found /\ cover' = end.cover
                /\ queue' = IF t[1] \/ full THEN <<>> ELSE queue
                /\ at' = IF t[1] \/ full THEN 0 ELSE 1
                /\ late' = t[1]
    BY <1>3, <1>4 DEF StartPackage
  <2>2. CASE ~t[1] /\ ~full
    <3>1. PICK end : end = [st EXCEPT !.found.packages = @ \cup {pkg},
                                      !.cover[pkg].scanned = TRUE]
      OBVIOUS
    <3>2. found' = end.found /\ cover' = end.cover
      BY <2>1, <2>2, <3>1
    <3>3. end.found = [found EXCEPT !.packages = @ \cup {pkg}]
          /\ end.cover = [c EXCEPT ![pkg].scanned = TRUE]
      BY <1>4, <3>1
    <3>4. QED
      BY <2>1, <2>2, <3>2, <3>3
  <2>3. CASE t[1] \/ full
    BY <2>1, <2>3
  <2>4. QED
    BY <2>2, <2>3
<1>6. late' \in BOOLEAN /\ (late' => opts.clock)
  BY <1>1, <1>5, TicksAre DEF Ticks, LateInv
<1>7. queue \in Seq(d) /\ pkg \in d /\ d \subseteq Pkgs /\ NoPackage \notin d
  <2>1. queue \in Seq(d)
    BY <1>1, <1>3 DEF TypeInv, PlaceOK
  <2>2. d \subseteq Pkgs
    BY <1>2, <1>3 DEF FoundOK, IsCover
  <2>3. NoPackage \notin Pkgs
    BY <1>2, ProgramIs DEF Pkgs, NoPackage
  <2>4. QED
    BY <1>1, <1>3, <2>1, <2>2, <2>3
<1>8. /\ c \in [d -> CoverType] /\ c[pkg].scheduled
      /\ \A p \in d : /\ p # pkg => c[p].scheduled = cover[p].scheduled
                      /\ c[p].completed = cover[p].completed
                      /\ c[p].functions = cover[p].functions
                      /\ c[p].causes = cover[p].causes
  <2>1. cover \in [d -> CoverType] /\ cover[pkg] \in CoverType
    BY <1>2, <1>3, <1>7 DEF FoundOK, IsCover
  <2>2. PICK x : x = [cover[pkg] EXCEPT !.scheduled = TRUE]
    OBVIOUS
  <2>3. /\ x \in CoverType /\ x.scheduled /\ x.completed = cover[pkg].completed
        /\ x.functions = cover[pkg].functions /\ x.causes = cover[pkg].causes
    BY <2>1, <2>2 DEF CoverType
  <2>4. c = [cover EXCEPT ![pkg] = x]
    BY <1>3, <2>2
  <2>5. QED
    BY <1>7, <2>1, <2>3, <2>4
<1>9. found.stops \cap Hard = {}
  BY <1>1 DEF Bridging
<1>10. st \in Col(d) /\ st.found = found /\ st.cover = c
  BY <1>2, <1>4, <1>8 DEF FoundOK, Col
\* What holds of the packages, whatever is decided.
<1>11. /\ Matching /\ found.stops \subseteq Collects \cup {"package_budget", "start_budget"}
       /\ \A p \in d : /\ cover[p].completed => Whole(p)
                       /\ cover[p].scheduled /\ ~cover[p].completed => Tried(p)
                       /\ ~cover[p].scheduled => p \in ToSet(queue) \/ found.stops \cap Stopping # {}
  BY <1>1, <1>3 DEF Bridging, AtHand
<1>12. SUFFICES TypeInv' /\ Limits' /\ Bridging'
  OBVIOUS
<1>13. CASE t[1] \/ full
  <2>1. PICK reason : /\ reason \in {"duration_budget", "package_budget"}
                      /\ found' = StopIn(st, pkg, reason).found
                      /\ cover' = StopIn(st, pkg, reason).cover
                      /\ reason = "duration_budget" => t[1]
                      /\ reason = "package_budget" => full
    BY <1>5, <1>13
  <2>2. reason \in StopReasons /\ reason \in Hard /\ reason \in Stopping
    BY <2>1 DEF StopReasons, Hard, Stopping
  <2>3. /\ Cut(found, found', reason) /\ Covers(d, c, cover')
        /\ reason \in cover'[pkg].causes
    <3>1. pkg # NoPackage /\ reason \notin st.found.stops
      BY <1>7, <1>9, <1>10, <2>2
    <3>2. QED
      BY <1>7, <1>10, <2>1, <2>2, <3>1, StopInIs
  <2>4. queue' = <<>> /\ at' = 0
    BY <1>5, <1>13
  <2>5. DOMAIN cover' = d /\ found' \in FoundType
    BY <2>3 DEF Covers, Cut
  <2>6. TypeInv'
    <3>1. FoundOK'
      BY <1>2, <1>7, <2>3, <2>5 DEF FoundOK, IsCover, Covers
    <3>2. PlaceOK'
      BY <1>1, <2>4 DEF PlaceOK
    <3>3. SeedsOK'
      BY <1>1, <1>2, <1>6 DEF SeedsOK
    <3>4. QED
      BY <1>2, <3>1, <3>2, <3>3 DEF TypeInv
  <2>7. Limits'
    <3>1. Met(reason)'
      <4>1. opts' = opts /\ found'.packages = found.packages
        BY <1>1, <2>3 DEF opts, Cut
      <4>2. QED
        BY <1>3, <1>5, <1>6, <2>1, <4>1 DEF Met
    <3>2. found.owners \subseteq Fns
      BY <1>2 DEF FoundOK, FoundType
    <3>3. \A r \in found'.stops : r \in found.stops \/ Met(r)'
      BY <2>3, <3>1 DEF Cut
    <3>4. QED
      BY <1>1, <1>3, <1>8, <2>3, <2>5, <3>2, <3>3, LimitsKept DEF Cut, Covers
  <2>8. Bridging'
    <3>1. \A p : Whole(p) => Whole(p)'
      BY <1>1, <2>3, StaysSo DEF Cut
    <3>2. Matching'
      BY <1>2, <1>11, <2>3 DEF Matching, Cut
    <3>3. ASSUME NEW p \in d
          PROVE  /\ cover'[p].completed => Whole(p)'
                 /\ cover'[p].scheduled /\ ~cover'[p].completed => Tried(p)'
      <4>1. cover'[p].completed = cover[p].completed /\ cover[p].causes \subseteq cover'[p].causes
        BY <1>8, <2>3 DEF Covers
      <4>2. CASE p = pkg
        <5>1. Tried(p)'
          BY <2>3, <4>2 DEF Tried, Cut
        <5>2. QED
          BY <1>11, <3>1, <4>1, <5>1
      <4>3. CASE p # pkg
        <5>1. cover'[p].scheduled = cover[p].scheduled
          BY <1>8, <2>3, <4>3 DEF Covers
        <5>2. Tried(p) => Tried(p)'
          BY <1>1, <2>3, <4>1, StaysSo DEF Cut
        <5>3. QED
          BY <1>11, <3>1, <4>1, <5>1, <5>2
      <4>4. QED
        BY <4>2, <4>3
    <3>4. found'.stops \cap Stopping # {}
      BY <2>2, <2>3 DEF Cut
    <3>5. found'.stops \subseteq Collects \cup {"package_budget", "start_budget"}
      BY <1>11, <2>1, <2>3 DEF Cut, Collects
    <3>6. QED
      BY <2>4, <2>5, <3>2, <3>3, <3>4, <3>5 DEF Bridging
  <2>9. QED
    BY <2>6, <2>7, <2>8
<1>14. CASE ~t[1] /\ ~full
  <2>1. /\ found' = [found EXCEPT !.packages = @ \cup {pkg}]
        /\ cover' = [c EXCEPT ![pkg].scanned = TRUE] /\ queue' = queue /\ at' = 1
    BY <1>5, <1>14
  <2>2. /\ found' \in FoundType /\ found'.stops = found.stops /\ found'.starts = found.starts
        /\ found'.owners = found.owners /\ found'.scanned = found.scanned
        /\ found'.matched = found.matched /\ found'.packages = found.packages \cup {pkg}
        /\ found'.reverse = found.reverse /\ found'.adjacent = found.adjacent
        /\ found'.candidates = found.candidates /\ found'.instrs = found.instrs
    <3>1. pkg \in Pkgs
      BY <1>7
    <3>2. QED
      BY <1>2, <2>1, <3>1 DEF FoundOK, FoundType
  <2>3. /\ cover' \in [d -> CoverType] /\ DOMAIN cover' = d
        /\ \A p \in d : /\ cover'[p].scheduled = c[p].scheduled
                        /\ cover'[p].completed = cover[p].completed
                        /\ cover'[p].functions = cover[p].functions
                        /\ cover'[p].causes = cover[p].causes
    <3>1. c \in [d -> CoverType] /\ c[pkg] \in CoverType
      BY <1>7, <1>8
    <3>2. PICK x : x = [c[pkg] EXCEPT !.scanned = TRUE]
      OBVIOUS
    <3>3. /\ x \in CoverType /\ x.scheduled = c[pkg].scheduled
          /\ x.completed = c[pkg].completed
          /\ x.functions = c[pkg].functions /\ x.causes = c[pkg].causes
      BY <3>1, <3>2 DEF CoverType
    <3>4. cover' = [c EXCEPT ![pkg] = x]
      BY <2>1, <3>2
    <3>5. QED
      BY <1>7, <1>8, <3>1, <3>3, <3>4
  <2>4. TypeInv'
    <3>1. FoundOK'
      BY <1>2, <1>7, <2>2, <2>3 DEF FoundOK, IsCover
    <3>2. PlaceOK'
      BY <1>1, <1>7, <2>1, <2>3 DEF PlaceOK
    <3>3. SeedsOK'
      BY <1>1, <1>2, <1>6 DEF SeedsOK
    <3>4. QED
      BY <1>2, <3>1, <3>2, <3>3 DEF TypeInv
  <2>5. Limits'
    <3> DEFINE P == found.packages
    <3>1. opts' = opts /\ Mode' = Mode /\ Fns' = Fns
      BY <1>1, SameProgram
    <3>2. opts.packages \in Nat
      BY <1>2, EntryAssumption DEF opts, Numbers
    <3>3. IsFiniteSet(P)
      <4>1. P \subseteq Pkgs
        BY <1>2 DEF FoundOK, FoundType
      <4>2. IsFiniteSet(Pkgs)
        BY <1>2, PkgsFinite
      <4>3. QED
        BY <4>1, <4>2, FS_Subset
    <3>4. Keeps(P \cup {pkg}, opts.packages)
      <4>1. CASE pkg \in P
        <5>1. P \cup {pkg} = P
          BY <4>1
        <5>2. QED
          BY <5>1 DEF Limits
      <4>2. CASE pkg \notin P
        BY <1>3, <1>14, <3>2, <3>3, <4>2, OneMore
      <4>3. QED
        BY <4>1, <4>2
    <3>5. \A reason \in found'.stops : Met(reason)'
      <4>1. ASSUME NEW reason \in found.stops
            PROVE  Met(reason)'
        <5>1. Met(reason) /\ reason # "package_budget"
          BY <1>9 DEF Limits, Hard
        <5>2. CASE reason = "depth_budget"
          <6>1. PICK f \in found.owners, g \in Fns \ found.owners : g \in AdjacentIn(graph, f)
            BY <5>1, <5>2 DEF Met
          <6>2. AdjacentIn(graph, f)' = AdjacentIn(graph, f)
            BY <1>1, SameProgram DEF AdjacentIn, StaticCallees, CallersIn, Calls, Instrs
          <6>3. \E x \in found'.owners, y \in Fns' \ found'.owners : y \in AdjacentIn(graph, x)'
            BY <2>2, <3>1, <6>1, <6>2
          <6>4. QED
            BY <5>2, <6>3 DEF Met
        <5>3. CASE reason # "depth_budget"
          BY <1>3, <2>2, <2>3, <3>1, <5>1, <5>3 DEF Met
        <5>4. QED
          BY <5>2, <5>3
      <4>2. QED
        BY <2>2, <4>1
    <3>6. QED
      BY <2>2, <3>1, <3>4, <3>5 DEF Limits
  <2>6. Bridging'
    <3>1. \A p : Whole(p) => Whole(p)'
      BY <1>1, <2>2, StaysSo
    <3>2. Matching'
      BY <1>2, <1>11, <2>2 DEF Matching
    <3>3. ASSUME NEW p \in d
          PROVE  /\ ~cover'[p].scheduled => p \in ToSet(queue') \/ found'.stops \cap Stopping # {}
                 /\ cover'[p].completed => Whole(p)'
                 /\ cover'[p].scheduled /\ ~cover'[p].completed => AtHand(p)' \/ Tried(p)'
      <4>1. p = pkg => AtHand(p)' /\ cover'[p].scheduled
        BY <1>3, <1>8, <2>1, <2>3 DEF AtHand
      <4>2. Tried(p) => Tried(p)'
        BY <2>2, <2>3 DEF Tried
      <4>3. p # pkg => cover'[p].scheduled = cover[p].scheduled
        BY <1>8, <2>3
      <4>4. QED
        BY <1>11, <2>1, <2>2, <2>3, <3>1, <4>1, <4>2, <4>3
    <3>4. cover'[Head(queue')].scheduled
      BY <1>3, <1>7, <1>8, <2>1, <2>3
    <3>5. \A k \in (1..Len(FnsOf(Head(queue))))' : ~(k < at')
      BY <2>1
    <3>6. QED
      BY <1>9, <1>11, <2>1, <2>2, <2>3, <3>2, <3>3, <3>4, <3>5 DEF Bridging
  <2>7. QED
    BY <2>4, <2>5, <2>6
<1>15. QED
  BY <1>13, <1>14

\* What the collector has done when it has looked at an owner.
Worked(d, pkg, f, b) ==
    /\ b \in Col(d) /\ Sound(d, pkg, b)
    /\ found.owners \subseteq b.found.owners /\ found.stops \subseteq b.found.stops
    /\ b.found.stops \subseteq found.stops \cup Collects
    /\ b.found.reverse = found.reverse /\ b.found.adjacent = found.adjacent
    /\ b.found.starts = found.starts /\ b.found.packages = found.packages
    /\ found.scanned \subseteq b.found.scanned
    /\ \A g \in Fns : b.found.matched[g] > 0 =>
           \/ found.matched[g] > 0
           \/ g \in b.found.owners \/ "owner_budget" \in b.found.stops
    /\ \A p \in d : /\ b.cover[p].scheduled = cover[p].scheduled
                    /\ b.cover[p].completed = cover[p].completed
                    /\ cover[p].causes \subseteq b.cover[p].causes
    /\ b.ok => /\ f \in b.found.scanned
               /\ f \in Holders(found.starts, pkg) => f \in b.found.owners

LEMMA HolderHits ==
    ASSUME input \in Inputs, NEW pkg, NEW f \in Holders(found.starts, pkg)
    PROVE  \E n \in DOMAIN Code(f) : Hits(f, n, pkg) # {}
<1>1. PICK r \in Refs(f), s \in found.starts : Pkg(s) = pkg /\ r.operand = <<s, 0>>
  BY DEF Holders
<1>2. PICK n \in DOMAIN Code(f) : r \in RefsAt(f, n)
  BY <1>1 DEF Refs
<1>3. r \in Hits(f, n, pkg)
  BY <1>1, <1>2 DEF Hits, StartsOf
<1>4. QED
  BY <1>3

LEMMA OwnerWorked ==
    ASSUME TypeInv, Limits, Bridging, Mode = "bridge", queue # <<>>, NEW d, d = DOMAIN cover,
           NEW pkg \in d, NoPackage \notin d, NEW f \in Fns, NEW cut \in 0..Len(Code(f)) + 1,
           cut # Len(Code(f)) + 1 => opts.clock, NEW b, b = ScanOwner(pkg, f, cut)
    PROVE  Worked(d, pkg, f, b)
<1>1. input \in Inputs /\ FoundOK
  BY DEF TypeInv
<1>2. AtWork \in Col(d) /\ AtWork.ok = TRUE /\ AtWork.found = found /\ AtWork.cover = cover
  BY <1>1, AtWorkIs
<1>3. Sound(d, pkg, AtWork)
  <2>1. \A reason \in Collects \cap found.stops : Earned(d, AtWork, reason)
    <3>1. ASSUME NEW reason \in Collects \cap found.stops
          PROVE  Earned(d, AtWork, reason)
      <4>1. Met(reason) /\ reason \in Collects
        BY DEF Limits
      <4>2. QED
        BY <1>2, <4>1 DEF Met, Earned, Collects
    <3>2. QED
      BY <3>1
  <2>2. found.stops \cap Hard = {}
    BY DEF Bridging
  <2>3. Keeps(found.owners, opts.owners) /\ Keeps(found.candidates, opts.candidates)
    BY DEF Limits
  <2>4. QED
    BY <1>2, <2>1, <2>2, <2>3 DEF Sound
<1>4. (Goes(d, pkg, AtWork, b) /\ ~b.ok) \/ WellScanned(d, pkg, f, b)
  BY <1>1, ScanOwnerIs
<1>5. CASE Goes(d, pkg, AtWork, b) /\ ~b.ok
  <2>1. b \in Col(d) /\ Sound(d, pkg, b) /\ Moves(d, AtWork, b)
    BY <1>3, <1>5 DEF Goes
  <2>2. QED
    BY <1>2, <1>5, <2>1 DEF Moves, Worked
<1>6. CASE WellScanned(d, pkg, f, b)
  <2>1. PICK c : /\ Opens(d, pkg, f, AtWork, c) /\ Goes(d, pkg, c, b)
                 /\ b.ok => \A n \in DOMAIN Code(f) :
                                Hits(f, n, pkg) # {} => f \in b.found.owners
    BY <1>6 DEF WellScanned
  <2>2. Sound(d, pkg, c) /\ c \in Col(d)
    BY <1>3, <2>1 DEF Opens
  <2>3. b \in Col(d) /\ Sound(d, pkg, b) /\ Moves(d, c, b)
    BY <2>1, <2>2 DEF Goes
  <2>4. f \in b.found.scanned /\ found.scanned \subseteq b.found.scanned
    BY <1>2, <2>1, <2>3 DEF Opens, Moves
  <2>5. b.ok /\ f \in Holders(found.starts, pkg) => f \in b.found.owners
    BY <1>1, <2>1, HolderHits
  <2>6. /\ found.owners \subseteq b.found.owners /\ found.stops \subseteq b.found.stops
        /\ b.found.stops \subseteq found.stops \cup Collects
        /\ b.found.reverse = found.reverse /\ b.found.adjacent = found.adjacent
        /\ b.found.starts = found.starts /\ b.found.packages = found.packages
        /\ \A g \in Fns : b.found.matched[g] > 0 =>
               \/ found.matched[g] > 0
               \/ g \in b.found.owners \/ "owner_budget" \in b.found.stops
    BY <1>2, <2>1, <2>3 DEF Opens, Moves
  <2>7. \A p \in d : /\ b.cover[p].scheduled = cover[p].scheduled
                     /\ b.cover[p].completed = cover[p].completed
                     /\ cover[p].causes \subseteq b.cover[p].causes
    BY <1>2, <2>1, <2>3 DEF Opens, Moves
  <2>8. QED
    BY <2>3, <2>4, <2>5, <2>6, <2>7 DEF Worked
<1>7. QED
  BY <1>4, <1>5, <1>6

\* What the search of a package has to go by.
LEMMA BridgeAt ==
    ASSUME TypeInv, Bridging, phase = "bridge"
    PROVE  /\ queue \in Seq(DOMAIN cover) /\ DOMAIN cover \subseteq Pkgs
           /\ NoPackage \notin DOMAIN cover /\ at \in Nat
           /\ queue # <<>> => /\ Head(queue) \in DOMAIN cover
                              /\ Tail(queue) \in Seq(DOMAIN cover)
                              /\ \A p \in ToSet(queue) : p = Head(queue) \/ p \in ToSet(Tail(queue))
           /\ at > 0 => queue # <<>>
           /\ cover \in [DOMAIN cover -> CoverType]
           /\ \A p : /\ FnsOf(p) \in Seq(Fns) /\ Len(FnsOf(p)) \in Nat
                     /\ ToSet(FnsOf(p)) = {f \in Fns : Pkg(f) = p}
                     /\ \A k \in 1..Len(FnsOf(p)) : FnsOf(p)[k] \in Fns
                     /\ ToSet(FnsOf(p)) = {FnsOf(p)[k] : k \in 1..Len(FnsOf(p))}
<1>1. input \in Inputs /\ FoundOK
  BY DEF TypeInv
<1>2. queue \in Seq(DOMAIN cover) /\ at \in Nat /\ (at > 0 => queue # <<>>)
  BY DEF TypeInv, PlaceOK
<1>3. DOMAIN cover \subseteq Pkgs /\ cover \in [DOMAIN cover -> CoverType]
  BY <1>1 DEF FoundOK, IsCover
<1>4. NoPackage \notin Pkgs
  BY <1>1, ProgramIs DEF Pkgs, NoPackage
<1>5. ASSUME queue # <<>>
      PROVE  /\ Head(queue) \in DOMAIN cover /\ Tail(queue) \in Seq(DOMAIN cover)
             /\ \A p \in ToSet(queue) : p = Head(queue) \/ p \in ToSet(Tail(queue))
  <2>1. Head(queue) \in DOMAIN cover /\ Tail(queue) \in Seq(DOMAIN cover)
    BY <1>2, <1>5
  <2>2. ASSUME NEW p \in ToSet(queue), p # Head(queue)
        PROVE  p \in ToSet(Tail(queue))
    <3>1. PICK k \in DOMAIN queue : p = queue[k]
      BY <2>2 DEF ToSet
    <3>2. k \in 2..Len(queue) /\ Len(Tail(queue)) = Len(queue) - 1
      BY <1>2, <1>5, <2>2, <3>1
    <3>3. k - 1 \in 1..Len(Tail(queue)) /\ Tail(queue)[k - 1] = queue[k]
      BY <1>2, <1>5, <3>2
    <3>4. DOMAIN Tail(queue) = 1..Len(Tail(queue))
      BY <2>1
    <3>5. QED
      BY <3>1, <3>3, <3>4 DEF ToSet
  <2>3. QED
    BY <2>1, <2>2
<1>6. ASSUME NEW p
      PROVE  /\ FnsOf(p) \in Seq(Fns) /\ Len(FnsOf(p)) \in Nat
             /\ ToSet(FnsOf(p)) = {f \in Fns : Pkg(f) = p}
             /\ \A k \in 1..Len(FnsOf(p)) : FnsOf(p)[k] \in Fns
             /\ ToSet(FnsOf(p)) = {FnsOf(p)[k] : k \in 1..Len(FnsOf(p))}
  <2> DEFINE S == {f \in Fns : Pkg(f) = p}
  <2>1. S \subseteq Fns /\ FnsOf(p) = Ascending(S)
    BY DEF FnsOf
  <2> HIDE DEF S
  <2>2. FnsOf(p) \in Seq(Fns) /\ ToSet(FnsOf(p)) = S
    BY <1>1, <2>1, FnsListed
  <2>3. DOMAIN FnsOf(p) = 1..Len(FnsOf(p))
    BY <2>2
  <2>4. QED
    BY <2>2, <2>3 DEF S, ToSet
<1>7. QED
  BY <1>2, <1>3, <1>4, <1>5, <1>6

\* All of a package has been looked at.
LEMMA PackageEnds ==
    ASSUME TypeInv, Limits, Bridging, phase = "bridge", at > 0, NEW pkg, pkg = Head(queue),
           at > Len(FnsOf(pkg)), UNCHANGED <<input, graph, callers, index, phase, why, noted, late>>,
           found' = found, cover' = [cover EXCEPT ![pkg].completed = TRUE], at' = 0,
           queue' = IF found.stops \cap Stopping = {} THEN Tail(queue) ELSE <<>>
    PROVE  TypeInv' /\ Limits' /\ Bridging'
<1> DEFINE d == DOMAIN cover
<1>1. /\ queue \in Seq(d) /\ d \subseteq Pkgs /\ queue # <<>> /\ pkg \in d
      /\ Tail(queue) \in Seq(d) /\ cover \in [d -> CoverType]
      /\ \A p \in ToSet(queue) : p = Head(queue) \/ p \in ToSet(Tail(queue))
      /\ \A p : /\ Len(FnsOf(p)) \in Nat /\ ToSet(FnsOf(p)) = {f \in Fns : Pkg(f) = p}
                /\ ToSet(FnsOf(p)) = {FnsOf(p)[k] : k \in 1..Len(FnsOf(p))}
  BY BridgeAt
<1>2. /\ input' \in Inputs /\ input \in Inputs /\ GraphOK' /\ SeedsOK' /\ FoundOK /\ IndexOK'
      /\ Fns' = Fns /\ Pkgs' = Pkgs /\ FoundType' = FoundType
  BY Kept
<1>3. /\ cover' \in [d -> CoverType] /\ DOMAIN cover' = d /\ cover'[pkg].completed
      /\ \A p \in d : /\ cover'[p].scheduled = cover[p].scheduled
                      /\ p # pkg => cover'[p].completed = cover[p].completed
                      /\ cover'[p].functions = cover[p].functions
                      /\ cover'[p].causes = cover[p].causes
  <2>1. cover[pkg] \in CoverType
    BY <1>1
  <2>2. PICK x : x = [cover[pkg] EXCEPT !.completed = TRUE]
    OBVIOUS
  <2>3. /\ x \in CoverType /\ x.scheduled = cover[pkg].scheduled /\ x.completed
        /\ x.functions = cover[pkg].functions /\ x.causes = cover[pkg].causes
    BY <2>1, <2>2 DEF CoverType
  <2>4. cover' = [cover EXCEPT ![pkg] = x]
    BY <2>2
  <2>5. QED
    BY <1>1, <2>3, <2>4
<1> HIDE DEF d
<1>4. queue' \in Seq(d) /\ at' = 0
  <2>1. <<>> \in Seq(d)
    OBVIOUS
  <2>2. QED
    BY <1>1, <2>1
<1>5. TypeInv'
  <2>1. FoundOK'
    BY <1>1, <1>2, <1>3 DEF FoundOK, IsCover
  <2>2. PlaceOK'
    BY <1>3, <1>4 DEF PlaceOK
  <2>3. QED
    BY <1>2, <2>1, <2>2 DEF TypeInv
<1>6. Limits'
  <2>1. found.owners \subseteq Fns
    BY <1>2 DEF FoundOK, FoundType
  <2>2. QED
    BY <1>3, <2>1, LimitsKept DEF d
<1>7. Whole(pkg)
  <2>1. \A k \in 1..Len(FnsOf(pkg)) : k < at
    BY <1>1 DEF TypeInv, PlaceOK
  <2>2. \A k \in 1..Len(FnsOf(pkg)) :
            /\ FnsOf(pkg)[k] \in found.scanned
            /\ FnsOf(pkg)[k] \in Holders(found.starts, pkg) => FnsOf(pkg)[k] \in found.owners
    BY <2>1 DEF Bridging
  <2>3. Holders(found.starts, pkg) \subseteq ToSet(FnsOf(pkg))
    BY <1>1 DEF Holders
  <2>4. QED
    BY <1>1, <2>2, <2>3 DEF Whole
<1>8. Bridging'
  <2>1. \A p : Whole(p) => Whole(p)'
    BY StaysSo
  <2>2. Matching' /\ found'.stops \subseteq Collects \cup {"package_budget", "start_budget"}
    BY <1>2 DEF Bridging, Matching
  <2>3. cover[pkg].scheduled /\ found.stops \cap Hard = {}
    BY <1>1 DEF Bridging
  <2>4. ASSUME NEW p \in d
        PROVE  /\ ~cover'[p].scheduled => p \in ToSet(queue') \/ found'.stops \cap Stopping # {}
               /\ cover'[p].completed => Whole(p)'
               /\ cover'[p].scheduled /\ ~cover'[p].completed => Tried(p)'
    <3>1. Tried(p) => Tried(p)'
      BY <1>3 DEF Tried
    <3>2. /\ ~cover[p].scheduled => p \in ToSet(queue) \/ found.stops \cap Stopping # {}
          /\ cover[p].completed => Whole(p)
          /\ cover[p].scheduled /\ ~cover[p].completed => p = pkg \/ Tried(p)
      BY DEF Bridging, AtHand, d
    <3>3. QED
      BY <1>1, <1>3, <1>7, <2>1, <2>3, <3>1, <3>2
  <2>5. QED
    BY <1>3, <1>4, <2>2, <2>3, <2>4 DEF Bridging
<1>9. QED
  BY <1>5, <1>6, <1>8

\* An owner of a package has been looked at.
LEMMA OwnerDone ==
    ASSUME TypeInv, Limits, Bridging, phase = "bridge", Mode = "bridge", at > 0, NEW pkg,
           pkg = Head(queue), at <= Len(FnsOf(pkg)),
           UNCHANGED <<input, graph, callers, index, phase, why, noted>>, late' \in BOOLEAN,
           NEW f, f = FnsOf(pkg)[at], NEW b, Worked(DOMAIN cover, pkg, f, b),
           found' = b.found, cover' = [b.cover EXCEPT ![pkg].completed = FALSE],
           at' = IF ~b.ok THEN 0 ELSE at + 1,
           queue' = IF b.ok THEN queue
                    ELSE IF b.found.stops \cap Stopping = {} THEN Tail(queue) ELSE <<>>
    PROVE  TypeInv' /\ Limits' /\ Bridging'
<1> DEFINE d == DOMAIN cover
<1>1. /\ queue \in Seq(d) /\ d \subseteq Pkgs /\ queue # <<>> /\ pkg \in d /\ at \in Nat
      /\ Tail(queue) \in Seq(d) /\ cover \in [d -> CoverType]
      /\ \A p \in ToSet(queue) : p = Head(queue) \/ p \in ToSet(Tail(queue))
  BY BridgeAt
<1>2. /\ input' \in Inputs /\ input \in Inputs /\ GraphOK' /\ SeedsOK /\ FoundOK /\ IndexOK'
      /\ Fns' = Fns /\ Pkgs' = Pkgs /\ FoundType' = FoundType
  BY Kept
<1> HIDE DEF d
<1>3. /\ b \in Col(d) /\ Sound(d, pkg, b)
      /\ found.owners \subseteq b.found.owners /\ found.stops \subseteq b.found.stops
      /\ b.found.stops \subseteq found.stops \cup Collects
      /\ b.found.reverse = found.reverse /\ b.found.adjacent = found.adjacent
      /\ b.found.starts = found.starts /\ b.found.packages = found.packages
      /\ found.scanned \subseteq b.found.scanned
      /\ \A g \in Fns : b.found.matched[g] > 0 =>
             \/ found.matched[g] > 0
             \/ g \in b.found.owners \/ "owner_budget" \in b.found.stops
      /\ \A p \in d : /\ b.cover[p].scheduled = cover[p].scheduled
                      /\ b.cover[p].completed = cover[p].completed
                      /\ cover[p].causes \subseteq b.cover[p].causes
      /\ b.ok => /\ f \in b.found.scanned
                 /\ f \in Holders(found.starts, pkg) => f \in b.found.owners
  BY DEF Worked, d
<1>4. /\ b.found \in FoundType /\ b.cover \in [d -> CoverType] /\ b.ok \in BOOLEAN
  BY <1>3 DEF Col
<1>5. /\ cover' \in [d -> CoverType] /\ DOMAIN cover' = d /\ ~cover'[pkg].completed
      /\ \A p \in d : /\ cover'[p].scheduled = cover[p].scheduled
                      /\ p # pkg => cover'[p].completed = cover[p].completed
                      /\ cover'[p].functions = b.cover[p].functions
                      /\ cover[p].causes \subseteq cover'[p].causes
                      /\ cover'[p].causes = b.cover[p].causes
  <2>1. b.cover[pkg] \in CoverType
    BY <1>1, <1>4
  <2>2. PICK x : x = [b.cover[pkg] EXCEPT !.completed = FALSE]
    OBVIOUS
  <2>3. /\ x \in CoverType /\ x.scheduled = b.cover[pkg].scheduled /\ ~x.completed
        /\ x.functions = b.cover[pkg].functions /\ x.causes = b.cover[pkg].causes
    BY <2>1, <2>2 DEF CoverType
  <2>4. cover' = [b.cover EXCEPT ![pkg] = x]
    BY <2>2
  <2>5. /\ cover' \in [d -> CoverType] /\ DOMAIN cover' = d /\ cover'[pkg] = x
        /\ \A p \in d : p # pkg => cover'[p] = b.cover[p]
    BY <1>1, <1>4, <2>3, <2>4
  <2>6. ASSUME NEW p \in d
        PROVE  /\ cover'[p].scheduled = b.cover[p].scheduled
               /\ p # pkg => cover'[p].completed = b.cover[p].completed
               /\ cover'[p].functions = b.cover[p].functions
               /\ cover'[p].causes = b.cover[p].causes
    BY <2>3, <2>5
  <2>7. \A p \in d : /\ b.cover[p].scheduled = cover[p].scheduled
                     /\ b.cover[p].completed = cover[p].completed
                     /\ cover[p].causes \subseteq b.cover[p].causes
    BY <1>3
  <2>8. \A p \in d : /\ cover'[p].scheduled = cover[p].scheduled
                     /\ p # pkg => cover'[p].completed = cover[p].completed
                     /\ cover'[p].functions = b.cover[p].functions
                     /\ cover[p].causes \subseteq cover'[p].causes
                     /\ cover'[p].causes = b.cover[p].causes
    BY <2>6, <2>7, Zenon
  <2>9. cover' \in [d -> CoverType] /\ DOMAIN cover' = d /\ ~cover'[pkg].completed
    BY <2>3, <2>5, Zenon
  <2>10. QED
    BY <2>8, <2>9
<1>6. /\ queue' \in Seq(d) /\ at' \in Nat /\ (at' > 0 => b.ok /\ queue' = queue /\ at' = at + 1)
      /\ ~b.ok => at' = 0
  <2>1. <<>> \in Seq(d)
    OBVIOUS
  <2>2. QED
    BY <1>1, <1>4, <2>1
<1>7. TypeInv'
  <2>1. FoundOK'
    BY <1>1, <1>2, <1>4, <1>5 DEF FoundOK, IsCover
  <2>2. PlaceOK'
    BY <1>1, <1>5, <1>6 DEF PlaceOK
  <2>3. SeedsOK'
    BY <1>2 DEF SeedsOK
  <2>4. QED
    BY <1>2, <2>1, <2>2, <2>3 DEF TypeInv
<1>8. Limits'
  <2>1. opts' = opts /\ Mode' = Mode
    BY SameProgram
  <2>2. ASSUME NEW reason \in found'.stops
        PROVE  Met(reason)'
    <3>1. CASE reason \in {"package_budget", "start_budget"}
      <4>1. reason \in found.stops
        BY <1>3, <3>1 DEF Collects
      <4>2. Met(reason)
        BY <4>1 DEF Limits
      <4>3. QED
        BY <1>3, <2>1, <3>1, <4>2 DEF Met
    <3>2. CASE reason \in Collects
      <4>1. Earned(d, b, reason)
        BY <1>3, <3>2 DEF Sound
      <4>2. CASE reason = "package_function_budget"
        BY <1>5, <2>1, <4>1, <4>2 DEF Earned, Met
      <4>3. CASE reason # "package_function_budget"
        BY <2>1, <4>1, <4>3 DEF Earned, Met
      <4>4. QED
        BY <4>2, <4>3
    <3>3. QED
      BY <1>3, <3>1, <3>2 DEF Bridging
  <2>3. Keeps(b.found.owners, opts.owners) /\ Keeps(b.found.candidates, opts.candidates)
    BY <1>3 DEF Sound
  <2>4. QED
    BY <1>3, <2>1, <2>2, <2>3 DEF Limits
<1>9. cover[pkg].scheduled /\ found.stops \cap Hard = {}
  BY <1>1 DEF Bridging
<1>10. \A p : Whole(p) => Whole(p)'
  BY <1>3, StaysSo
<1>11. Matching' /\ found'.stops \subseteq Collects \cup {"package_budget", "start_budget"}
  <2>1. Matching /\ found.stops \subseteq Collects \cup {"package_budget", "start_budget"}
    BY DEF Bridging
  <2>2. QED
    BY <1>2, <1>3, <2>1 DEF Matching
<1>12. queue' # <<>> => found'.stops \cap Hard = {}
  <2>1. CASE b.ok
    BY <1>3, <2>1 DEF Sound
  <2>2. CASE ~b.ok /\ b.found.stops \cap Stopping = {}
    BY <2>2 DEF Stopping, Hard
  <2>3. CASE ~b.ok /\ b.found.stops \cap Stopping # {}
    BY <2>3
  <2>4. QED
    BY <2>1, <2>2, <2>3
<1>13. ~b.ok => Tried(pkg)'
  BY <1>1, <1>3, <1>5 DEF Sound, Halted, Tried
<1>14. ASSUME NEW p \in d
       PROVE  /\ ~cover'[p].scheduled => p \in ToSet(queue') \/ found'.stops \cap Stopping # {}
              /\ cover'[p].completed => Whole(p)'
              /\ cover'[p].scheduled /\ ~cover'[p].completed => AtHand(p)' \/ Tried(p)'
  <2>1. Tried(p) => Tried(p)'
    BY <1>3, <1>5, StaysSo
  <2>2. /\ ~cover[p].scheduled => p \in ToSet(queue) \/ found.stops \cap Stopping # {}
        /\ cover[p].completed => Whole(p)
        /\ cover[p].scheduled /\ ~cover[p].completed => p = pkg \/ Tried(p)
    BY DEF Bridging, AtHand, d
  <2>3. p = pkg => AtHand(p)' \/ Tried(p)'
    BY <1>1, <1>4, <1>13 DEF AtHand
  <2>4. ~cover'[p].scheduled => p \in ToSet(queue') \/ found'.stops \cap Stopping # {}
    BY <1>1, <1>3, <1>5, <1>9, <2>2
  <2>5. QED
    BY <1>5, <1>10, <2>1, <2>2, <2>3, <2>4
<1>15. at' > 0 =>
           /\ cover'[Head(queue')].scheduled
           /\ \A k \in (1..Len(FnsOf(Head(queue))))' : k < at' =>
                  LET g == (FnsOf(Head(queue))[k])'
                  IN  /\ g \in found'.scanned
                      /\ g \in Holders(found.starts, Head(queue))' => g \in found'.owners
  <2>1. SUFFICES ASSUME at' > 0
                 PROVE  /\ cover'[pkg].scheduled
                        /\ \A k \in 1..Len(FnsOf(pkg)) : k < at + 1 =>
                               LET g == FnsOf(pkg)[k]
                               IN  /\ g \in b.found.scanned
                                   /\ g \in Holders(found.starts, pkg) => g \in b.found.owners
    <3>1. at' > 0 => b.ok /\ queue' = queue /\ at' = at + 1
      BY <1>6
    <3>2. at' > 0 => FnsOf(Head(queue))' = FnsOf(pkg)
                     /\ Holders(found.starts, Head(queue))' = Holders(found.starts, pkg)
      <4>1. at' > 0 => Head(queue') = pkg /\ found'.starts = found.starts
        BY <1>3, <3>1
      <4>2. at' > 0 => FnsOf(Head(queue))' = FnsOf(pkg)
        BY <4>1, SameProgram DEF FnsOf
      <4>3. at' > 0 => Holders(found.starts, Head(queue))' = Holders(found.starts, pkg)
        BY <4>1, SameProgram DEF Holders
      <4>4. QED
        BY <4>2, <4>3
    <3>3. QED
      BY <3>1, <3>2
  <2>2. ASSUME NEW k \in 1..Len(FnsOf(pkg)), k < at + 1
        PROVE  /\ FnsOf(pkg)[k] \in b.found.scanned
               /\ FnsOf(pkg)[k] \in Holders(found.starts, pkg) => FnsOf(pkg)[k] \in b.found.owners
    <3>1. CASE k = at
      BY <1>3, <1>6, <2>1, <3>1
    <3>2. CASE k < at
      <4>1. /\ FnsOf(pkg)[k] \in found.scanned
            /\ FnsOf(pkg)[k] \in Holders(found.starts, pkg) => FnsOf(pkg)[k] \in found.owners
        BY <3>2 DEF Bridging
      <4>2. QED
        BY <1>3, <4>1
    <3>3. QED
      BY <1>1, <2>2, <3>1, <3>2
  <2>3. QED
    BY <1>1, <1>5, <1>9, <2>2
<1>16. Bridging'
  BY <1>5, <1>11, <1>12, <1>14, <1>15 DEF Bridging
<1>17. QED
  BY <1>7, <1>8, <1>16

LEMMA BridgeOwnerHolds ==
    TypeInv /\ LateInv /\ Limits /\ Bridging /\ Mode = "bridge" /\ BridgeOwner
        => TypeInv' /\ Limits' /\ Bridging'
<1> SUFFICES ASSUME TypeInv, LateInv, Limits, Bridging, Mode = "bridge", BridgeOwner
             PROVE  TypeInv' /\ Limits' /\ Bridging'
  OBVIOUS
<1>1. /\ UNCHANGED <<input, graph, callers, visited, index, flow, phase, why, noted, diags>>
      /\ phase = "bridge" /\ at > 0
  BY DEF BridgeOwner, BridgeUnchanged
<1>2. PICK pkg, order, whole : /\ pkg = Head(queue) /\ order = FnsOf(pkg)
                               /\ whole = (at > Len(order))
  OBVIOUS
<1>3. PICK never : never = IF whole THEN 0 ELSE Len(Code(order[at])) + 1
  OBVIOUS
<1>4. PICK cut \in IF opts.clock THEN 0..never ELSE {never} :
          LET st == IF whole THEN [found |-> found, cover |-> cover, ok |-> TRUE]
                    ELSE ScanOwner(pkg, order[at], cut)
              over == whole \/ ~st.ok
          IN  /\ late' = (late \/ cut < never)
              /\ found' = st.found
              /\ cover' = [st.cover EXCEPT ![pkg].completed = whole]
              /\ at' = IF over THEN 0 ELSE at + 1
              /\ queue' = IF ~over THEN queue
                          ELSE IF st.found.stops \cap Stopping = {} THEN Tail(queue)
                          ELSE <<>>
  BY <1>2, <1>3 DEF BridgeOwner
<1>5. /\ queue # <<>> /\ pkg \in DOMAIN cover /\ NoPackage \notin DOMAIN cover
      /\ at \in Nat /\ Len(order) \in Nat /\ \A k \in 1..Len(order) : order[k] \in Fns
  BY <1>1, <1>2, BridgeAt
<1>6. late' \in BOOLEAN
  <2>1. late \in BOOLEAN
    BY DEF TypeInv, SeedsOK
  <2>2. QED
    BY <1>4, <2>1
<1>7. CASE whole
  <2>1. never = 0 /\ cut = 0
    BY <1>3, <1>4, <1>7
  <2>2. late' = late
    BY <1>4, <2>1 DEF TypeInv, SeedsOK
  <2>3. PICK st : st = [found |-> found, cover |-> cover, ok |-> TRUE]
    OBVIOUS
  <2>4. st.found = found /\ st.cover = cover
    BY <2>3
  <2>5. /\ found' = st.found /\ cover' = [st.cover EXCEPT ![pkg].completed = TRUE] /\ at' = 0
        /\ queue' = IF st.found.stops \cap Stopping = {} THEN Tail(queue) ELSE <<>>
    BY <1>4, <1>7, <2>3
  <2>6. QED
    BY <1>1, <1>2, <1>7, <2>2, <2>4, <2>5, PackageEnds
<1>8. CASE ~whole
  <2>1. PICK f : f = order[at]
    OBVIOUS
  <2>2. at \in 1..Len(order) /\ f \in Fns
    <3>1. ~(at > Len(order))
      BY <1>2, <1>8
    <3>2. QED
      BY <1>1, <1>5, <2>1, <3>1
  <2>3. never = Len(Code(f)) + 1 /\ Len(Code(f)) \in Nat
    <3>1. input \in Inputs
      BY DEF TypeInv
    <3>2. Len(Code(f)) \in Nat
      BY <2>2, <3>1, ProgramIs
    <3>3. QED
      BY <1>3, <1>8, <2>1, <3>2
  <2>4. cut \in 0..Len(Code(f)) + 1 /\ (cut # Len(Code(f)) + 1 => opts.clock)
    BY <1>4, <2>3
  <2>5. PICK b : b = ScanOwner(pkg, f, cut)
    OBVIOUS
  <2>6. Worked(DOMAIN cover, pkg, f, b)
    BY <1>5, <2>2, <2>4, <2>5, OwnerWorked
  <2>7. /\ found' = b.found /\ cover' = [b.cover EXCEPT ![pkg].completed = FALSE]
        /\ at' = IF ~b.ok THEN 0 ELSE at + 1
        /\ queue' = IF b.ok THEN queue
                    ELSE IF b.found.stops \cap Stopping = {} THEN Tail(queue) ELSE <<>>
    <3>1. whole = FALSE
      BY <1>2, <1>8
    <3>2. QED
      BY <1>4, <2>1, <2>5, <3>1
  <2>8. at <= Len(FnsOf(pkg)) /\ f = FnsOf(pkg)[at]
    BY <1>2, <2>1, <2>2
  <2> HIDE DEF Worked
  <2>9. QED
    BY <1>1, <1>2, <1>6, <2>6, <2>7, <2>8, OwnerDone
<1>9. QED
  BY <1>7, <1>8

LEMMA AssembleBridgeHolds ==
    TypeInv /\ Limits /\ Bridging /\ AssembleBridge => TypeInv' /\ Limits' /\ Bridged'
<1> SUFFICES ASSUME TypeInv, Limits, Bridging, AssembleBridge
             PROVE  TypeInv' /\ Limits' /\ Bridged'
  OBVIOUS
<1>1. /\ UNCHANGED <<input, graph, callers, visited, index, flow, diags, found, queue>>
      /\ phase = "bridge" /\ at = 0 /\ queue = <<>>
      /\ phase' = "index" /\ at' = 1 /\ late' = FALSE
      /\ why' = AddBoundary(Add(why, found.owners, "bridge"), found.bounded)
      /\ noted' = Note(found.bounded)
  BY DEF AssembleBridge, BridgeUnchanged
<1> DEFINE d == DOMAIN cover
           c == [p \in d |-> IF cover[p].scheduled THEN cover[p]
                             ELSE [cover[p] EXCEPT !.stops = @ \cup found.stops,
                                                   !.causes = @ \cup found.stops]]
<1>2. cover' = c
  BY DEF AssembleBridge
<1>3. /\ input' \in Inputs /\ input \in Inputs /\ GraphOK' /\ SeedsOK /\ FoundOK /\ IndexOK'
      /\ Fns' = Fns /\ Pkgs' = Pkgs /\ FoundType' = FoundType
  BY <1>1, Kept
<1>4. cover \in [d -> CoverType] /\ d \subseteq Pkgs /\ found.stops \subseteq StopReasons
      /\ found.owners \subseteq Fns
  BY <1>3 DEF FoundOK, IsCover, FoundType
<1>5. ASSUME NEW p \in d
      PROVE  /\ c[p] \in CoverType /\ c[p].scheduled = cover[p].scheduled
             /\ c[p].completed = cover[p].completed /\ c[p].functions = cover[p].functions
             /\ cover[p].causes \subseteq c[p].causes
             /\ ~cover[p].scheduled => /\ found.stops \subseteq c[p].causes
                                       /\ found.stops \subseteq c[p].stops
  <2>1. PICK x : x = cover[p]
    OBVIOUS
  <2>2. x \in CoverType
    BY <1>4, <1>5, <2>1
  <2>3. CASE x.scheduled
    <3>1. c[p] = x
      BY <1>5, <2>1, <2>3
    <3>2. QED
      BY <2>1, <2>2, <2>3, <3>1
  <2>4. CASE ~x.scheduled
    <3>1. PICK y : y = [x EXCEPT !.stops = @ \cup found.stops, !.causes = @ \cup found.stops]
      OBVIOUS
    <3>2. c[p] = y
      BY <1>5, <2>1, <2>4, <3>1
    <3>3. /\ y \in CoverType /\ y.scheduled = x.scheduled /\ y.completed = x.completed
          /\ y.functions = x.functions /\ y.causes = x.causes \cup found.stops
          /\ y.stops = x.stops \cup found.stops
      BY <1>4, <2>2, <3>1 DEF CoverType
    <3> HIDE DEF c
    <3>4. QED
      BY <2>1, <2>4, <3>2, <3>3
  <2>5. QED
    BY <2>3, <2>4
<1>6. cover' \in [d -> CoverType] /\ DOMAIN cover' = d
  BY <1>2, <1>5
<1> HIDE DEF c, d
<1>7. why' \in [Fns -> SUBSET SeedReasons] /\ found.owners \subseteq Owners'
  <2>1. "bridge" \in SeedReasons /\ why \in [Fns -> SUBSET SeedReasons]
    BY <1>3 DEF SeedReasons, SeedsOK
  <2>2. PICK w : w = Add(why, found.owners, "bridge")
    OBVIOUS
  <2>3. w \in [Fns -> SUBSET SeedReasons] /\ \A f \in found.owners : "bridge" \in w[f]
    BY <1>4, <2>1, <2>2, AddIs DEF Add
  <2>4. why' \in [Fns -> SUBSET SeedReasons] /\ why' = AddBoundary(w, found.bounded)
    BY <1>1, <2>2, <2>3, AddBoundaryIs
  <2>5. \A f \in Fns : w[f] \subseteq AddBoundary(w, found.bounded)[f]
    BY DEF AddBoundary, Add
  <2>6. QED
    BY <1>3, <1>4, <2>3, <2>4, <2>5 DEF Owners
<1>8. TypeInv'
  <2>1. noted' \in [Fns -> Nat]
    BY <1>1, <1>3, NoteIs DEF SeedsOK
  <2>2. SeedsOK'
    BY <1>1, <1>3, <1>7, <2>1 DEF SeedsOK
  <2>3. FoundOK'
    BY <1>1, <1>3, <1>4, <1>6 DEF FoundOK, IsCover
  <2>4. PlaceOK'
    BY <1>1 DEF PlaceOK
  <2>5. QED
    BY <1>3, <2>2, <2>3, <2>4 DEF TypeInv
<1>9. Limits'
  BY <1>1, <1>2, <1>4, <1>5, <1>6, LimitsKept DEF d
<1>10. Bridged'
  <2>1. \A p : Whole(p) => Whole(p)'
    BY <1>1, StaysSo
  <2>2. Matching'
    BY <1>1, <1>3 DEF Bridging, Matching
  <2>3. ASSUME NEW p \in d
        PROVE  /\ cover'[p].completed => Whole(p)'
               /\ ~cover'[p].completed => Tried(p)'
               /\ ~cover'[p].completed /\ ~cover'[p].scheduled => cover'[p].stops # {}
    <3>1. /\ ~cover[p].scheduled => found.stops # {}
          /\ cover[p].completed => Whole(p)
          /\ cover[p].scheduled /\ ~cover[p].completed => Tried(p)
      <4>1. ToSet(queue) = {}
        BY <1>1 DEF ToSet
      <4>2. QED
        BY <1>1, <4>1 DEF Bridging, AtHand, d
    <3>2. /\ cover'[p].scheduled = cover[p].scheduled /\ cover'[p].completed = cover[p].completed
          /\ cover[p].causes \subseteq cover'[p].causes
          /\ ~cover[p].scheduled => /\ found.stops \subseteq cover'[p].causes
                                    /\ found.stops \subseteq cover'[p].stops
      BY <1>2, <1>5
    <3>3. Tried(p) => Tried(p)'
      BY <1>1, <3>2 DEF Tried
    <3>4. ~cover[p].scheduled => Tried(p)' /\ cover'[p].stops # {}
      BY <1>1, <3>1, <3>2 DEF Tried
    <3>5. QED
      BY <2>1, <3>1, <3>2, <3>3, <3>4
  <2>4. QED
    BY <1>1, <1>6, <1>7, <2>2, <2>3 DEF Bridged
<1>11. QED
  BY <1>8, <1>9, <1>10

LEMMA OracleStartType == TypeInv /\ OracleStart => TypeInv'
<1> SUFFICES ASSUME TypeInv, OracleStart
             PROVE  TypeInv'
  OBVIOUS
<1>1. UNCHANGED <<input, graph, callers, visited, index, flow, found, cover, queue>>
      /\ phase = "oracle"
  BY DEF OracleStart, BridgeUnchanged
<1>2. /\ input' \in Inputs /\ input \in Inputs /\ GraphOK' /\ SeedsOK /\ FoundOK' /\ IndexOK'
      /\ Fns' = Fns
  BY <1>1, Kept
<1>3. queue = <<>> /\ at \in Nat \ {0}
  BY <1>1 DEF TypeInv, PlaceOK
<1> DEFINE start == Ascending(OracleStarts)[at]
           order == FnsOf(Pkg(start))
           Most(n) == IF opts.perPackage > 0 /\ opts.perPackage < n THEN opts.perPackage ELSE n
           looked(n) == OracleOwners(start, Most(n))
           owners(n) == Ascending(looked(n).hold \cup looked(n).evident)
           steps(n) == Concat([k \in DOMAIN owners(n) |->
                           <<owners(n)[k]>> \o Ascending(ReceiversOf(start, owners(n)[k]))])
           first(n) == AddBoundary(Add(why, {start}, "oracle_bridge"), looked(n).evident)
           Seeds(n, k) == {f \in Fns : first(n)[f] # {}} \cup ToSet(SubSeq(steps(n), 1, k))
           taken(n) == Max({0} \cup {k \in 1..Len(steps(n)) :
                               ~AtLimit(Cardinality(Seeds(n, k - 1)), opts.owners)})
           full(n) == taken(n) < Len(steps(n))
<1>4. PICK t \in Ticks(1, opts.clock), n \in 0..Len(order) :
          /\ why' = Add(first(n), ToSet(SubSeq(steps(n), 1, taken(n))), "oracle_bridge")
          /\ noted' = Note(looked(n).evident) /\ late' = (t[1] /\ ~full(n))
          /\ phase' = IF full(n) THEN "index" ELSE phase
          /\ at' = IF full(n) THEN 1 ELSE at + 1
  BY ZenonT(60) DEF OracleStart
<1> HIDE DEF taken, looked, steps, full, start
<1>5. SeedsOK'
  <2>1. PICK s, e, a, fl : /\ why' = Add(AddBoundary(Add(why, s, "oracle_bridge"), e), a,
                                         "oracle_bridge")
                           /\ noted' = Note(e) /\ late' = (t[1] /\ ~fl)
    <3>1. why' = Add(AddBoundary(Add(why, {start}, "oracle_bridge"), looked(n).evident),
                     ToSet(SubSeq(steps(n), 1, taken(n))), "oracle_bridge")
      BY <1>4
    <3>2. QED
      BY <1>4, <3>1
  <2>2. "oracle_bridge" \in SeedReasons /\ why \in [Fns -> SUBSET SeedReasons]
    BY <1>2 DEF SeedReasons, SeedsOK
  <2>3. Add(why, s, "oracle_bridge") \in [Fns -> SUBSET SeedReasons]
    BY <2>2, AddIs
  <2>4. AddBoundary(Add(why, s, "oracle_bridge"), e) \in [Fns -> SUBSET SeedReasons]
    BY <2>3, AddBoundaryIs
  <2>5. why' \in [Fns -> SUBSET SeedReasons]
    BY <2>1, <2>2, <2>4, AddIs
  <2>6. noted' \in [Fns -> Nat]
    BY <1>2, <2>1, NoteIs DEF SeedsOK
  <2>7. QED
    BY <1>2, <2>1, <2>5, <2>6 DEF SeedsOK
<1>6. PlaceOK'
  BY <1>1, <1>3, <1>4 DEF PlaceOK
<1>7. QED
  BY <1>2, <1>5, <1>6 DEF TypeInv

LEMMA OracleEndType == TypeInv /\ OracleEnd => TypeInv'
<1> SUFFICES ASSUME TypeInv, OracleEnd
             PROVE  TypeInv'
  OBVIOUS
<1>1. /\ UNCHANGED <<input, graph, callers, visited, index, flow, why, noted, found, cover, queue>>
      /\ phase = "oracle" /\ phase' = "index" /\ at' = 1 /\ late' = FALSE
  BY DEF OracleEnd, BridgeUnchanged
<1>2. /\ input' \in Inputs /\ GraphOK' /\ SeedsOK /\ FoundOK' /\ IndexOK' /\ Fns' = Fns
  BY <1>1, Kept
<1>3. SeedsOK'
  BY <1>1, <1>2 DEF SeedsOK
<1>4. PlaceOK'
  BY <1>1 DEF TypeInv, PlaceOK
<1>5. QED
  BY <1>2, <1>3, <1>4 DEF TypeInv

-----------------------------------------------------------------------------
(* The index.                                                              *)

LEMMA RankingIs ==
    ASSUME TypeInv, NEW f \in Fns
    PROVE  /\ Ranking(f).class \in 0..4 /\ Ranking(f).evidence \in Nat
           /\ Ranking(f).matched \in Nat /\ Ranking(f).selected \in BOOLEAN
<1>1. noted[f] \in Nat /\ found.matched[f] \in Nat
  BY DEF TypeInv, SeedsOK, FoundOK, FoundType
<1>2. \A w, e, s, m : Class(w, e, s, m) \in 0..4
  BY DEF Class
<1>3. QED
  BY <1>1, <1>2 DEF Ranking

\* A sequence that has each element of a set once.
Lists(s, S) == /\ s \in Seq(S) /\ Len(s) \in Nat /\ ToSet(s) = S
               /\ Len(s) = Cardinality(S)
               /\ \A i, j \in 1..Len(s) : s[i] = s[j] => i = j

LEMMA SortedIs ==
    ASSUME input \in Inputs, NEW S, S \subseteq Fns, NEW rank, DOMAIN rank = S,
           \A f \in S : /\ rank[f].class \in 0..4 /\ rank[f].evidence \in Nat
                        /\ rank[f].matched \in Nat /\ rank[f].selected \in BOOLEAN
    PROVE  /\ Lists(Sorted(rank), S)
           /\ \A i, j \in 1..Len(Sorted(rank)) :
                  i < j => rank[Sorted(rank)[i]].class <= rank[Sorted(rank)[j]].class
<1> DEFINE R == {p \in S \X S : Before(p[1], p[2], rank)}
           o == Sorted(rank)
<1>1. o = InOrder(S, R)
  BY DEF Sorted
<1>2. IsFiniteSet(S) /\ \A f \in S : f \in Nat
  BY FnsListed, ProgramIs
<1>3. \A f, g \in S : <<f, g>> \in R <=> Before(f, g, rank)
  OBVIOUS
<1>4. StrictOrder(S, R)
  <2> HIDE DEF R
  <2>1. \A f \in S : <<f, f>> \notin R
    BY <1>2, <1>3 DEF Before
  <2>2. \A f, g \in S : f # g => <<f, g>> \in R \/ <<g, f>> \in R
    BY <1>2, <1>3 DEF Before
  <2>3. ASSUME NEW f \in S, NEW g \in S, NEW h \in S, <<f, g>> \in R, <<g, h>> \in R
        PROVE  <<f, h>> \in R
    <3>1. Before(f, g, rank) /\ Before(g, h, rank)
      BY <1>3, <2>3
    <3>2. Before(f, h, rank)
      BY <1>2, <3>1 DEF Before
    <3>3. QED
      BY <1>3, <3>2
  <2>4. QED
    BY <2>1, <2>2, <2>3 DEF StrictOrder
<1> DEFINE n == Cardinality(S)
<1>5. /\ o \in Seq(S) /\ ToSet(o) = S /\ n \in Nat /\ Len(o) = n
      /\ \A i, j \in 1..n : i < j => <<o[i], o[j]>> \in R
  <2> HIDE DEF R, o, n
  <2>1. LET I == InOrder(S, R)
        IN  /\ I \in Seq(S) /\ ToSet(I) = S /\ n \in Nat /\ Len(I) = n
            /\ \A i, j \in 1..n : i < j => <<I[i], I[j]>> \in R
    BY <1>2, <1>4, InOrderLists DEF n
  <2>2. QED
    BY <1>1, <2>1
<1> HIDE DEF R, o, n
<1>6. \A i \in 1..n : o[i] \in S
  BY <1>5
<1>7. \A i, j \in 1..n : o[i] = o[j] => i = j
  <2>1. ASSUME NEW i \in 1..n, NEW j \in 1..n, o[i] = o[j], i # j
        PROVE  FALSE
    <3>1. i < j \/ j < i
      BY <1>5, <2>1
    <3>2. <<o[i], o[i]>> \in R
      BY <1>5, <2>1, <3>1
    <3>3. QED
      BY <1>4, <1>6, <3>2 DEF StrictOrder
  <2>2. QED
    BY <2>1
<1>8. ASSUME NEW i \in 1..n, NEW j \in 1..n, i < j
      PROVE  rank[o[i]].class <= rank[o[j]].class
  <2>1. o[i] \in S /\ o[j] \in S /\ Before(o[i], o[j], rank)
    BY <1>3, <1>5, <1>6, <1>8
  <2>2. QED
    BY <2>1 DEF Before
<1>9. QED
  BY <1>5, <1>7, <1>8 DEF Lists, o, n

LEMMA AscendingIsList ==
    ASSUME input \in Inputs, NEW S, S \subseteq Fns
    PROVE  Lists(Ascending(S), S)
BY FnsListed, AscendingDistinct DEF Lists

\* The owners to index, and those that have been scanned.
Listed == /\ Lists(index.order, IF Mode = "all" THEN Fns ELSE Owners)
          /\ Mode = "bridge" =>
                 \A i, j \in 1..Len(index.order) : i < j =>
                     Ranking(index.order[i]).class <= Ranking(index.order[j]).class
Firsts(m) == {index.order[k] : k \in 1..m}
Beyond(m) == {index.order[k] : k \in (m + 1)..Len(index.order)}
ScanInv ==
    phase = "scan" =>
        /\ Listed
        /\ \E m \in 0..Len(index.order) :
               /\ index.scanned = Firsts(m)
               /\ \/ /\ at = m + 1 /\ m <= IndexLimit
                     /\ \A f \in Fns : index.skipped[f] = ""
                  \/ /\ at = Len(index.order) + 1 /\ m < Len(index.order)
                     /\ \A f \in Fns :
                            index.skipped[f] = IF f \in Beyond(m) THEN "index_budget" ELSE ""

LimitOf(n) ==
    Min((({opts.maxIndex} \cup (IF Mode = "targeted" THEN {opts.targets} ELSE {})) \ {0})
        \cup {n})

LEMMA IndexLimitIs ==
    ASSUME input \in Inputs, NEW n \in Nat
    PROVE  LimitOf(n) \in 0..n
<1> DEFINE T == (({opts.maxIndex} \cup (IF Mode = "targeted" THEN {opts.targets} ELSE {})) \ {0})
                \cup {n}
<1>1. opts.maxIndex \in Nat /\ opts.targets \in Nat
  BY EntryAssumption DEF opts, Numbers
<1>2. T \subseteq Nat /\ n \in T
  BY <1>1
<1>3. LimitOf(n) = Min(T)
  BY DEF LimitOf
<1> HIDE DEF T
<1>4. PICK x \in T : \A y \in T : x <= y
  BY <1>2, Least
<1>5. Min(T) \in T /\ \A y \in T : Min(T) <= y
  BY <1>4 DEF Min
<1>6. Min(T) \in Nat /\ Min(T) <= n
  BY <1>2, <1>5
<1>7. QED
  BY <1>3, <1>6

LEMMA OpenIndexHolds == TypeInv /\ OpenIndex => TypeInv' /\ ScanInv'
<1> SUFFICES ASSUME TypeInv, OpenIndex
             PROVE  TypeInv' /\ ScanInv'
  OBVIOUS
<1>1. /\ UNCHANGED <<input, graph, callers, why, noted, diags, found, cover, queue, visited, flow>>
      /\ phase = "index" /\ phase' = "scan" /\ at' = 1 /\ late' = (late /\ ~Frontier)
  BY DEF OpenIndex
<1>2. /\ input' \in Inputs /\ input \in Inputs /\ GraphOK' /\ SeedsOK /\ FoundOK' /\ IndexOK
      /\ Fns' = Fns /\ IndexType' = IndexType
  BY <1>1, Kept
<1>3. PICK order : /\ index' = [EmptyIndex EXCEPT !.order = order]
                   /\ order = CASE Mode = "all" -> Ascending(Fns)
                                [] Mode = "bridge" -> Sorted([f \in Owners |-> Ranking(f)])
                                [] OTHER -> Ascending(Owners)
  BY <1>1 DEF OpenIndex
<1>4. Owners \subseteq Fns
  BY DEF Owners
<1>5. /\ Mode = "all" => order = Ascending(Fns)
      /\ Mode = "bridge" => order = Sorted([f \in Owners |-> Ranking(f)])
      /\ Mode \notin {"all", "bridge"} => order = Ascending(Owners)
  BY <1>3
<1> DEFINE S == IF Mode = "all" THEN Fns ELSE Owners
<1>6. /\ Lists(order, S)
      /\ Mode = "bridge" => \A i, j \in 1..Len(order) : i < j =>
                                Ranking(order[i]).class <= Ranking(order[j]).class
  <2>1. CASE Mode = "bridge"
    <3> DEFINE rank == [f \in Owners |-> Ranking(f)]
    <3>1. DOMAIN rank = Owners /\ \A f \in Owners : rank[f] = Ranking(f)
      OBVIOUS
    <3>2. \A f \in Owners : /\ rank[f].class \in 0..4 /\ rank[f].evidence \in Nat
                            /\ rank[f].matched \in Nat /\ rank[f].selected \in BOOLEAN
      BY <1>4, RankingIs
    <3>3. order = Sorted(rank) /\ S = Owners
      BY <1>5, <2>1
    <3> HIDE DEF rank, S
    <3>4. /\ Lists(order, Owners)
          /\ \A i, j \in 1..Len(order) : i < j => rank[order[i]].class <= rank[order[j]].class
      BY <1>2, <1>4, <3>1, <3>2, <3>3, SortedIs
    <3>5. \A i \in 1..Len(order) : order[i] \in Owners
      BY <3>4 DEF Lists
    <3>6. \A i \in 1..Len(order) : rank[order[i]] = Ranking(order[i])
      BY <3>1, <3>5
    <3>7. QED
      BY <3>3, <3>4, <3>6
  <2>2. CASE Mode = "all"
    <3>1. Lists(Ascending(Fns), Fns)
      BY <1>2, AscendingIsList
    <3>2. QED
      BY <1>5, <2>2, <3>1
  <2>3. CASE Mode \notin {"all", "bridge"}
    <3>1. Lists(Ascending(Owners), Owners)
      BY <1>2, <1>4, AscendingIsList
    <3>2. QED
      BY <1>5, <2>3, <3>1
  <2>4. QED
    BY <2>1, <2>2, <2>3
<1> HIDE DEF S
<1>7. order \in Seq(Fns) /\ Len(order) \in Nat
  BY <1>4, <1>6 DEF Lists, S
<1>8. /\ index'.order = order /\ index'.scanned = {} /\ index'.refs = {} /\ index'.sources = {}
      /\ index'.skipped = [f \in Fns |-> ""]
  BY <1>3 DEF EmptyIndex
<1>9. TypeInv'
  <2>1. index' \in IndexType
    BY <1>3, <1>7 DEF EmptyIndex, IndexType, SkipReasons
  <2>2. IndexOK'
    BY <1>2, <1>8, <2>1, FS_EmptySet DEF IndexOK, Real
  <2>3. SeedsOK'
    BY <1>1, <1>2 DEF SeedsOK
  <2>4. PlaceOK'
    BY <1>1 DEF TypeInv, PlaceOK
  <2>5. QED
    BY <1>2, <2>2, <2>3, <2>4 DEF TypeInv
<1>10. ScanInv'
  <2>1. Mode' = Mode /\ Owners' = Owners
    BY <1>1, <1>2 DEF Mode, Owners
  <2>2. \A f : Ranking(f)' = Ranking(f)
    BY <1>1, SameProgram DEF Ranking, Class
  <2>3. Listed'
    BY <1>2, <1>6, <1>8, <2>1, <2>2 DEF Listed, S
  <2>4. index'.scanned = Firsts(0)'
    <3>1. \A k \in 1..0 : FALSE
      OBVIOUS
    <3>2. QED
      BY <1>8, <3>1 DEF Firsts
  <2>5. 0 <= IndexLimit'
    <3>1. IndexLimit' = LimitOf(Len(order))
      BY <1>1, <1>8, SameProgram DEF IndexLimit, LimitOf
    <3>2. LimitOf(Len(order)) \in 0..Len(order)
      BY <1>2, <1>7, IndexLimitIs
    <3>3. QED
      BY <1>7, <3>1, <3>2
  <2>6. 0 \in (0..Len(index.order))'
    <3>1. 0 \in 0..Len(order)
      BY <1>7
    <3>2. QED
      BY <1>8, <3>1
  <2>7. (at = 0 + 1 /\ 0 <= IndexLimit /\ \A f \in Fns : index.skipped[f] = "")'
    <3>1. \A f \in Fns' : index'.skipped[f] = ""
      BY <1>2, <1>8
    <3>2. 0 + 1 = 1
      OBVIOUS
    <3>3. (at = 0 + 1 /\ 0 <= IndexLimit)'
      BY <1>1, <2>5, <3>2
    <3>4. QED
      BY <3>1, <3>3, Zenon
  <2>8. QED
    BY <2>3, <2>4, <2>6, <2>7 DEF ScanInv
<1>11. QED
  BY <1>9, <1>10

\* What the scan of an instruction finds.
LEMMA SourcesIn ==
    ASSUME input \in Inputs, NEW f \in Fns, NEW n \in DOMAIN Code(f)
    PROVE  SourcesAt(f, n) \subseteq Vals \X Fns
<1>1. PICK i : i = Code(f)[n]
  OBVIOUS
<1>2. i.def \in Vals /\ (i.op = "closure" => i.callee \in Fns)
  BY <1>1, InstrIs
<1>3. ASSUME NEW r \in RefsAt(f, n), r.operand[1] # 0
      PROVE  <<r.operand, r.operand[1]>> \in Vals \X Fns
  <2>1. r.operand \in Vals
    BY RefIs DEF RefType
  <2>2. Vals \subseteq {NoVal} \cup (Fns \X Nat)
    BY ProgramIs
  <2>3. r.operand # NoVal
    BY <1>3 DEF NoVal
  <2>4. QED
    BY <2>1, <2>2, <2>3
<1>4. SourcesAt(f, n) = (IF i.op = "closure" THEN {<<i.def, i.callee>>} ELSE {})
        \cup {<<v, v[1]>> : v \in {w \in {r.operand : r \in RefsAt(f, n)} :
                                      w[1] # 0 /\ w[2] = 0}}
  BY <1>1 DEF SourcesAt
<1>5. QED
  BY <1>2, <1>3, <1>4

\* What the scan of an owner does.
Indexing(cut, f, never, lines, scan, rest) ==
    /\ f = index.order[at] /\ never = Len(Code(f)) + 1
    /\ cut \in IF late THEN {0} ELSE IF opts.index THEN 0..never ELSE {never}
    /\ lines = 1..(IF cut = never THEN never - 1 ELSE cut)
    /\ scan = IF cut = 0 THEN index
              ELSE [index EXCEPT
                       !.scanned = @ \cup {f},
                       !.refs = @ \cup UNION {RefsAt(f, n) : n \in lines},
                       !.sources = @ \cup {<<<<f, 0>>, f>>}
                           \cup UNION {SourcesAt(f, n) : n \in lines}]
    /\ rest = {index.order[k] : k \in at..Len(index.order)} \ scan.scanned
    /\ late' = (cut < never)
    /\ IF cut = never
       THEN index' = scan /\ at' = at + 1
       ELSE /\ index' = [scan EXCEPT !.skipped =
                   [g \in Fns |-> IF g \in rest THEN "index_budget" ELSE @[g]]]
            /\ at' = Len(index.order) + 1

LEMMA IndexOwnerIs ==
    IndexOwner => \E cut, f, never, lines, scan, rest :
                      Indexing(cut, f, never, lines, scan, rest)
<1> SUFFICES ASSUME IndexOwner
             PROVE  \E cut, f, never, lines, scan, rest :
                        Indexing(cut, f, never, lines, scan, rest)
  OBVIOUS
<1> DEFINE f == index.order[at]
           never == Len(Code(f)) + 1
           lines(c) == 1..(IF c = never THEN never - 1 ELSE c)
           scan(c) == IF c = 0 THEN index
                      ELSE [index EXCEPT
                               !.scanned = @ \cup {f},
                               !.refs = @ \cup UNION {RefsAt(f, n) : n \in lines(c)},
                               !.sources = @ \cup {<<<<f, 0>>, f>>}
                                   \cup UNION {SourcesAt(f, n) : n \in lines(c)}]
           rest(c) == {index.order[k] : k \in at..Len(index.order)} \ scan(c).scanned
<1>1. PICK cut :
         /\ cut \in IF late THEN {0} ELSE IF opts.index THEN 0..never ELSE {never}
         /\ late' = (cut < never)
         /\ IF cut = never
            THEN index' = scan(cut) /\ at' = at + 1
            ELSE /\ index' = [scan(cut) EXCEPT !.skipped =
                        [g \in Fns |-> IF g \in rest(cut) THEN "index_budget" ELSE @[g]]]
                 /\ at' = Len(index.order) + 1
  BY ZenonT(60) DEF IndexOwner
<1>2. Indexing(cut, f, never, lines(cut), scan(cut), rest(cut))
  BY <1>1, ZenonT(60) DEF Indexing
<1> HIDE DEF f, never, lines, scan, rest
<1>3. QED
  BY <1>2

LEMMA IndexOwnerHolds == TypeInv /\ ScanInv /\ IndexOwner => TypeInv' /\ ScanInv'
<1> SUFFICES ASSUME TypeInv, ScanInv, IndexOwner
             PROVE  TypeInv' /\ ScanInv'
  OBVIOUS
<1>1. /\ UNCHANGED <<input, phase, graph, callers, why, noted, diags, found, cover,
                     queue, visited, flow>>
      /\ phase = "scan" /\ at <= IndexLimit
  BY DEF IndexOwner
<1>2. /\ input' \in Inputs /\ input \in Inputs /\ GraphOK' /\ SeedsOK /\ FoundOK' /\ IndexOK
      /\ Fns' = Fns /\ IndexType' = IndexType
  BY <1>1, Kept
<1>3. PICK stop, f, never, lines, scan, rest : Indexing(stop, f, never, lines, scan, rest)
  BY IndexOwnerIs
<1>10. /\ f = index.order[at] /\ never = Len(Code(f)) + 1
       /\ lines = 1..(IF stop = never THEN never - 1 ELSE stop)
       /\ stop \in IF late THEN {0} ELSE IF opts.index THEN 0..never ELSE {never}
  BY <1>3 DEF Indexing
<1>11. /\ scan = IF stop = 0 THEN index
                 ELSE [index EXCEPT
                          !.scanned = @ \cup {f},
                          !.refs = @ \cup UNION {RefsAt(f, n) : n \in lines},
                          !.sources = @ \cup {<<<<f, 0>>, f>>}
                              \cup UNION {SourcesAt(f, n) : n \in lines}]
       /\ rest = {index.order[k] : k \in at..Len(index.order)} \ scan.scanned
  BY <1>3 DEF Indexing
<1>20. PICK o, N : /\ o = index.order /\ N = Len(o) /\ N = Len(index.order)
                   /\ N \in Nat /\ o \in Seq(Fns)
                   /\ \A k \in 1..N : o[k] \in Fns
                   /\ \A i, j \in 1..N : o[i] = o[j] => i = j
  <2>1. index.order \in Seq(Fns)
    BY <1>2 DEF IndexOK, IndexType
  <2>2. \A i, j \in 1..Len(index.order) : index.order[i] = index.order[j] => i = j
    BY <1>1 DEF ScanInv, Listed, Lists
  <2>3. Len(index.order) \in Nat /\ \A k \in 1..Len(index.order) : index.order[k] \in Fns
    BY <2>1
  <2>4. QED
    BY <2>1, <2>2, <2>3
<1>21. N \in Nat
  BY <1>20
<1>12. /\ late' = (stop < never)
       /\ stop = never => index' = scan /\ at' = at + 1
       /\ stop # never =>
              /\ index' = [scan EXCEPT !.skipped =
                      [g \in Fns |-> IF g \in rest THEN "index_budget" ELSE scan.skipped[g]]]
              /\ at' = N + 1
  BY <1>3, <1>20 DEF Indexing
<1>4. IndexLimit \in 0..N
  <2>1. IndexLimit = LimitOf(N)
    BY <1>20 DEF IndexLimit, LimitOf
  <2>2. QED
    BY <1>2, <1>20, <2>1, IndexLimitIs
<1>5. PICK done \in Nat : /\ done \in 0..N /\ at = done + 1 /\ at \in 1..N /\ done + 1 \in 1..N
                          /\ index.scanned = Firsts(done)
  <2>1. PICK n \in 0..N : index.scanned = Firsts(n) /\ (at = n + 1 \/ at = N + 1)
    BY <1>1, <1>20 DEF ScanInv
  <2>2. PICK limit : limit \in 0..N /\ at <= limit
    BY <1>1, <1>4
  <2>3. n \in Nat /\ at = n + 1
    BY <1>21, <2>1, <2>2
  <2>4. at \in 1..N /\ n + 1 \in 1..N
    BY <1>21, <2>2, <2>3
  <2>5. QED
    BY <2>1, <2>3, <2>4
<1>22. \A g \in Fns : index.skipped[g] = ""
  <2>1. at # N + 1
    BY <1>5, <1>21
  <2>2. QED
    BY <1>1, <1>20, <2>1 DEF ScanInv
<1>6. f = o[at] /\ f \in Fns
  BY <1>10, <1>20, <1>5
<1>7. never \in Nat /\ never >= 1 /\ DOMAIN Code(f) = 1..(never - 1)
  <2>1. Code(f) \in Seq(InstrsOn(Fns, Vals))
    BY <1>2, <1>6, ProgramIs
  <2>2. QED
    BY <1>10, <2>1
<1>8. stop \in 0..never
  BY <1>10, <1>7
<1>9. lines \subseteq DOMAIN Code(f)
  BY <1>10, <1>7, <1>8
<1>13. PICK refs : refs = index.refs \cup UNION {RefsAt(f, n) : n \in lines}
                   /\ refs \subseteq RefType /\ IsFiniteSet(refs) /\ Real(refs)
  <2> DEFINE more == UNION {RefsAt(f, n) : n \in lines}
  <2>1. index.refs \subseteq RefType /\ IsFiniteSet(index.refs) /\ Real(index.refs)
    BY <1>2 DEF IndexOK, IndexType
  <2>2. more \subseteq Refs(f)
    BY <1>9 DEF Refs
  <2>3. IsFiniteSet(Refs(f)) /\ Refs(f) \subseteq RefType
    BY <1>2, <1>6, RefsFinite
  <2>4. Real(more)
    <3>1. ASSUME NEW n \in lines, NEW r \in RefsAt(f, n)
          PROVE  r.at \in DOMAIN Code(r.owner) /\ r \in RefsAt(r.owner, r.at)
      <4>1. n \in DOMAIN Code(f)
        BY <1>9
      <4>2. r.owner = f /\ r.at = n
        BY <1>2, <1>6, <4>1, RefIs
      <4>3. QED
        BY <4>1, <4>2
    <3>2. QED
      BY <3>1 DEF Real
  <2> HIDE DEF more
  <2>5. IsFiniteSet(index.refs \cup more)
    BY <2>1, <2>2, <2>3, FS_Subset, FS_Union
  <2>6. Real(index.refs \cup more)
    BY <2>1, <2>4 DEF Real
  <2>7. QED
    BY <2>1, <2>2, <2>3, <2>5, <2>6 DEF more
<1>14. PICK sources : sources = index.sources \cup {<<<<f, 0>>, f>>}
                                  \cup UNION {SourcesAt(f, n) : n \in lines}
                      /\ sources \subseteq Vals \X Fns
  <2>1. index.sources \subseteq Vals \X Fns
    BY <1>2 DEF IndexOK, IndexType
  <2>2. <<f, 0>> \in Vals
    BY <1>2, <1>6, ProgramIs
  <2>3. \A n \in lines : SourcesAt(f, n) \subseteq Vals \X Fns
    BY <1>2, <1>6, <1>9, SourcesIn
  <2>4. <<<<f, 0>>, f>> \in Vals \X Fns
    BY <1>6, <2>2
  <2>5. (UNION {SourcesAt(f, n) : n \in lines}) \subseteq Vals \X Fns
    BY <2>3
  <2> DEFINE T == index.sources \cup {<<<<f, 0>>, f>>}
                     \cup UNION {SourcesAt(f, n) : n \in lines}
  <2>6. T \subseteq Vals \X Fns
    BY <2>1, <2>4, <2>5
  <2>7. QED
    BY <2>6
<1>15. /\ scan \in IndexType /\ scan.order = o /\ scan.skipped = index.skipped
       /\ IsFiniteSet(scan.refs) /\ Real(scan.refs)
       /\ scan.scanned = IF stop = 0 THEN Firsts(done) ELSE Firsts(done + 1)
  <2>1. index \in IndexType
    BY <1>2 DEF IndexOK
  <2>2. CASE stop = 0
    <3>1. scan = index
      BY <1>11, <2>2
    <3>2. QED
      BY <1>22, <1>2, <1>20, <1>5, <2>1, <2>2, <3>1 DEF IndexOK
  <2>3. CASE stop # 0
    <3>1. scan = [index EXCEPT !.scanned = @ \cup {f}, !.refs = refs, !.sources = sources]
      BY <1>11, <1>13, <1>14, <2>3
    <3>2. /\ scan \in IndexType /\ scan.order = o /\ scan.skipped = index.skipped
          /\ scan.refs = refs /\ scan.scanned = index.scanned \cup {f}
      BY <1>20, <1>6, <1>13, <1>14, <2>1, <3>1 DEF IndexType
    <3>3. Firsts(done + 1) = Firsts(done) \cup {f}
      <4>1. 1..(done + 1) = (1..done) \cup {done + 1}
        BY <1>5
      <4>2. QED
        BY <1>20, <1>5, <1>6, <4>1 DEF Firsts
    <3>4. QED
      BY <1>5, <1>13, <2>3, <3>2, <3>3
  <2>4. QED
    BY <2>2, <2>3
<1>16. /\ index' \in IndexType /\ index'.order = o /\ index'.refs = scan.refs
       /\ index'.scanned = scan.scanned
       /\ \A g \in Fns : index'.skipped[g] =
              IF stop # never /\ g \in rest THEN "index_budget" ELSE ""
  <2>1. CASE stop = never
    BY <1>22, <1>5, <1>12, <1>15, <2>1
  <2>2. CASE stop # never
    <3>1. PICK sk : sk = [g \in Fns |-> IF g \in rest THEN "index_budget" ELSE scan.skipped[g]]
      OBVIOUS
    <3>2. index' = [scan EXCEPT !.skipped = sk]
      BY <1>12, <2>2, <3>1
    <3>3. \A g \in Fns : sk[g] = IF g \in rest THEN "index_budget" ELSE ""
      BY <1>22, <1>5, <1>15, <3>1
    <3>4. sk \in [Fns -> SkipReasons]
      BY <1>22, <1>5, <1>15, <3>1 DEF SkipReasons
    <3>5. QED
      BY <1>15, <2>2, <3>2, <3>3, <3>4 DEF IndexType
  <2>3. QED
    BY <2>1, <2>2
<1>17. TypeInv'
  <2>1. IndexOK'
    <3>1. \A S : Real(S)' <=> Real(S)
      BY <1>1, SameProgram DEF Real
    <3>2. IsFiniteSet(index'.refs) /\ Real(index'.refs)
      BY <1>15, <1>16
    <3>3. Real(index.refs)'
      BY <1>1, <3>2, SameProgram DEF Real
    <3>4. QED
      BY <1>2, <1>16, <3>2, <3>3 DEF IndexOK
  <2>2. SeedsOK'
    BY <1>1, <1>2, <1>12 DEF SeedsOK
  <2>3. queue' = <<>> /\ at' \in Nat \ {0}
    <3>1. queue = <<>>
      BY <1>1 DEF TypeInv, PlaceOK
    <3>2. at + 1 \in Nat \ {0} /\ N + 1 \in Nat \ {0}
      BY <1>21, <1>5
    <3>3. QED
      BY <1>1, <1>12, <3>1, <3>2
  <2>4. PlaceOK'
    BY <1>1, <2>3 DEF PlaceOK
  <2>5. QED
    BY <1>2, <2>1, <2>2, <2>4 DEF TypeInv
<1>18. ScanInv'
  <2>1. Mode' = Mode /\ Owners' = Owners /\ \A g : Ranking(g)' = Ranking(g)
    BY <1>1, <1>2, SameProgram DEF Owners, Ranking, Class
  <2>2. Listed'
    BY <1>1, <1>2, <1>20, <1>16, <2>1 DEF ScanInv, Listed
  <2>3. \A k : Firsts(k)' = Firsts(k) /\ Beyond(k)' = Beyond(k)
    <3>1. index'.order = index.order
      BY <1>20, <1>16
    <3>2. QED
      BY <3>1 DEF Firsts, Beyond
  <2>4. IndexLimit' = IndexLimit
    BY <1>1, <1>20, <1>16, SameProgram DEF IndexLimit
  <2>5. PICK n : n = IF stop = 0 THEN done ELSE done + 1
    OBVIOUS
  <2>6. n \in Nat /\ n \in 0..N /\ index'.scanned = Firsts(n) /\ n <= IndexLimit
    <3>1. n \in Nat /\ n \in 0..N
      BY <1>5, <1>21, <2>5
    <3>2. n <= at /\ n <= IndexLimit
      BY <1>1, <1>4, <1>5, <1>21, <2>5 DEF IndexLimit
    <3>3. index'.scanned = Firsts(n)
      BY <1>15, <1>16, <2>5
    <3>4. QED
      BY <3>1, <3>2, <3>3
  <2>7. CASE stop = never
    <3>1. at' = n + 1 /\ \A g \in Fns : index'.skipped[g] = ""
      <4>1. n = done + 1
        BY <1>7, <2>5, <2>7
      <4>2. at' = n + 1
        BY <1>5, <1>12, <2>7, <4>1
      <4>3. QED
        BY <1>16, <2>7, <4>2
    <3>2. QED
      BY <1>2, <1>20, <1>16, <2>2, <2>3, <2>4, <2>6, <3>1 DEF ScanInv
  <2>8. CASE stop # never
    <3>1. rest = Beyond(n)
      <4>1. scan.scanned = Firsts(n)
        BY <1>15, <2>5
      <4>2. ASSUME NEW k \in at..N
            PROVE  o[k] \in Firsts(n) <=> k <= n
        <5>1. k \in 1..N
          BY <1>5, <1>21
        <5>2. k <= n => o[k] \in Firsts(n)
          BY <1>20, <5>1 DEF Firsts
        <5>3. ASSUME o[k] \in Firsts(n)
              PROVE  k <= n
          <6>1. PICK i \in 1..n : o[k] = o[i]
            BY <1>20, <5>3 DEF Firsts
          <6>2. i \in 1..N
            BY <1>21, <2>6
          <6>3. QED
            BY <1>20, <5>1, <6>1, <6>2
        <5>4. QED
          BY <5>2, <5>3
      <4>3. \A k \in (n + 1)..N : k \in at..N /\ ~(k <= n)
        BY <1>5, <2>5, <2>6
      <4>4. \A k \in at..N : k <= n \/ k \in (n + 1)..N
        BY <1>5, <2>6
      <4>5. \A g : g \in rest <=> g \in Beyond(n)
        BY <1>20, <1>11, <4>1, <4>2, <4>3, <4>4 DEF Beyond
      <4>6. QED
        BY <4>5
    <3>2. at' = N + 1
      BY <1>12, <2>8
    <3>3. CASE n < N
      <4>1. \A g \in Fns : index'.skipped[g] = IF g \in Beyond(n) THEN "index_budget" ELSE ""
        BY <1>16, <2>8, <3>1
      <4>2. QED
        BY <1>2, <1>20, <1>16, <2>2, <2>3, <2>6, <3>2, <3>3, <4>1 DEF ScanInv
    <3>4. CASE n = N
      <4>1. Beyond(n) = {}
        <5>1. \A k \in (n + 1)..N : FALSE
          BY <1>20, <3>4
        <5>2. QED
          BY <1>20, <5>1 DEF Beyond
      <4>2. at' = n + 1 /\ \A g \in Fns : index'.skipped[g] = ""
        BY <1>16, <3>1, <3>2, <3>4, <4>1
      <4>3. QED
        BY <1>2, <1>20, <1>16, <2>2, <2>3, <2>4, <2>6, <4>2 DEF ScanInv
    <3>5. QED
      BY <1>20, <2>6, <3>3, <3>4
  <2>9. QED
    BY <2>7, <2>8
<1>19. QED
  BY <1>17, <1>18

\* The end of the index: every owner is accounted for.
LEMMA CountFirst ==
    ASSUME NEW S, NEW s \in Seq(S), \A i, j \in 1..Len(s) : s[i] = s[j] => i = j,
           NEW m \in 0..Len(s)
    PROVE  Cardinality({s[k] : k \in 1..m}) = m
<1> DEFINE t == [k \in 1..m |-> s[k]]
<1>1. m \in Nat /\ Len(s) \in Nat /\ \A k \in 1..m : k \in 1..Len(s)
  OBVIOUS
<1>2. \A k \in 1..m : t[k] = s[k] /\ s[k] \in S
  BY <1>1
<1>3. t \in Seq(S) /\ Len(t) = m
  BY <1>1, <1>2
<1>4. ToSet(t) = {s[k] : k \in 1..m}
  BY <1>1, <1>2, <1>3 DEF ToSet
<1>5. \A i, j \in 1..Len(t) : t[i] = t[j] => i = j
  BY <1>1, <1>2, <1>3
<1> HIDE DEF t
<1>6. QED
  BY <1>3, <1>4, <1>5, CountDistinct

LEMMA CloseIndexType == TypeInv /\ CloseIndex => TypeInv'
<1> SUFFICES ASSUME TypeInv, CloseIndex
             PROVE  TypeInv'
  OBVIOUS
<1>1. /\ UNCHANGED <<input, graph, callers, why, noted, cover, at, flow>>
      /\ phase = "scan" /\ phase' = "flow" /\ late' = FALSE
      /\ found' = found \/ found' = Stop(found, "index_budget")
      /\ index' = [index EXCEPT !.skipped =
                    [f \in Fns |->
                        IF index.skipped[f] = "" /\ f \in ToSet(index.order) \ index.scanned
                        THEN "max_functions" ELSE index.skipped[f]]]
  BY DEF CloseIndex
<1>2. /\ input' \in Inputs /\ GraphOK' /\ SeedsOK /\ FoundOK /\ IndexOK
      /\ Fns' = Fns /\ IndexType' = IndexType /\ FoundType' = FoundType /\ Pkgs' = Pkgs
  BY <1>1, Kept
<1>3. SeedsOK'
  BY <1>1, <1>2 DEF SeedsOK
<1>4. FoundOK'
  <2>1. found \in FoundType /\ IsCover(cover)
    BY <1>2 DEF FoundOK
  <2>2. Stop(found, "index_budget") \in FoundType
    BY <2>1 DEF Stop, FoundType, StopReasons
  <2>3. found' \in FoundType' /\ cover' = cover
    BY <1>1, <1>2, <2>1, <2>2
  <2>4. CoverType' = CoverType
    BY DEF CoverType, StopReasons
  <2>5. QED
    BY <1>2, <2>1, <2>3, <2>4 DEF FoundOK, IsCover
<1>5. IndexOK'
  <2>1. index \in IndexType
    BY <1>2 DEF IndexOK
  <2>2. PICK sk : sk = [f \in Fns |->
                        IF index.skipped[f] = "" /\ f \in ToSet(index.order) \ index.scanned
                        THEN "max_functions" ELSE index.skipped[f]]
    OBVIOUS
  <2>3. index.skipped \in [Fns -> SkipReasons]
    BY <2>1 DEF IndexType
  <2>4. "max_functions" \in SkipReasons
    BY DEF SkipReasons
  <2>5. sk \in [Fns -> SkipReasons]
    BY <2>2, <2>3, <2>4
  <2>6. index' = [index EXCEPT !.skipped = sk]
    BY <1>1, <2>2
  <2>7. index' \in IndexType /\ index'.refs = index.refs
    BY <2>1, <2>5, <2>6 DEF IndexType
  <2>8. IsFiniteSet(index'.refs) /\ Real(index'.refs)
    BY <1>2, <2>7 DEF IndexOK
  <2>9. Real(index.refs)'
    BY <1>1, <2>8, SameProgram DEF Real
  <2>10. QED
    BY <1>2, <2>7, <2>8, <2>9 DEF IndexOK
<1>6. PlaceOK'
  BY <1>1 DEF PlaceOK
<1>7. QED
  BY <1>2, <1>3, <1>4, <1>5, <1>6 DEF TypeInv

Accounted ==
    phase \in {"flow", "done"} =>
    /\ \A f \in ToSet(index.order) : (f \in index.scanned) # (index.skipped[f] # "")
    /\ \A f \in ToSet(index.order) :
           index.skipped[f] = "max_functions" =>
               Cardinality(index.scanned) = IndexLimit
    /\ \A f \in index.scanned, g \in ToSet(index.order) \ index.scanned :
           Mode = "bridge" => Ranking(f).class <= Ranking(g).class

LEMMA CloseIndexHolds == TypeInv /\ ScanInv /\ CloseIndex => Accounted'
<1> SUFFICES ASSUME TypeInv, ScanInv, CloseIndex
             PROVE  Accounted'
  OBVIOUS
<1>1. /\ UNCHANGED <<input, why, noted, cover, at>>
      /\ phase = "scan" /\ phase' = "flow" /\ at > IndexLimit
      /\ found' = found \/ found' = Stop(found, "index_budget")
      /\ index' = [index EXCEPT !.skipped =
                    [f \in Fns |->
                        IF index.skipped[f] = "" /\ f \in ToSet(index.order) \ index.scanned
                        THEN "max_functions" ELSE index.skipped[f]]]
  BY DEF CloseIndex
<1>2. input \in Inputs /\ FoundOK /\ IndexOK /\ Fns' = Fns
  BY <1>1, Kept
<1>3. PICK o, N : /\ o = index.order /\ N = Len(o) /\ N = Len(index.order)
                  /\ o \in Seq(Fns)
                  /\ \A k \in 1..N : o[k] \in Fns
                  /\ \A i, j \in 1..N : o[i] = o[j] => i = j
  <2>1. index.order \in Seq(Fns)
    BY <1>2 DEF IndexOK, IndexType
  <2>2. \A i, j \in 1..Len(index.order) : index.order[i] = index.order[j] => i = j
    BY <1>1 DEF ScanInv, Listed, Lists
  <2>3. \A k \in 1..Len(index.order) : index.order[k] \in Fns
    BY <2>1
  <2>4. QED
    BY <2>1, <2>2, <2>3
<1>4. N \in Nat /\ DOMAIN o = 1..N
  BY <1>3
<1>5. PICK m \in 0..N :
          /\ index.scanned = Firsts(m)
          /\ \/ /\ at = m + 1 /\ m <= IndexLimit
                /\ \A f \in Fns : index.skipped[f] = ""
             \/ \A f \in Fns :
                    index.skipped[f] = IF f \in Beyond(m) THEN "index_budget" ELSE ""
  BY <1>1, <1>3 DEF ScanInv
<1>6. /\ index'.order = o /\ index'.scanned = Firsts(m)
      /\ \A f \in Fns : index'.skipped[f] =
                        IF index.skipped[f] = "" /\ f \in ToSet(o) \ Firsts(m)
                        THEN "max_functions" ELSE index.skipped[f]
  <2>1. index \in IndexType
    BY <1>2 DEF IndexOK
  <2>2. QED
    BY <1>1, <1>3, <1>5, <2>1 DEF IndexType
<1>7. ToSet(o) = {o[k] : k \in 1..N}
  BY <1>4 DEF ToSet
<1>8. \A k \in 1..N : /\ o[k] \in Firsts(m) <=> k <= m
                      /\ o[k] \in Beyond(m) <=> ~(k <= m)
  <2>1. ASSUME NEW k \in 1..N
        PROVE  /\ o[k] \in Firsts(m) <=> k <= m
               /\ o[k] \in Beyond(m) <=> ~(k <= m)
    <3>1. Firsts(m) = {o[i] : i \in 1..m} /\ Beyond(m) = {o[i] : i \in (m + 1)..N}
      BY <1>3 DEF Firsts, Beyond
    <3>2. \A i : (i \in 1..m => i \in 1..N /\ i <= m)
                 /\ (i \in (m + 1)..N => i \in 1..N /\ ~(i <= m))
      BY <1>4
    <3>3. k \in 1..m \/ k \in (m + 1)..N
      BY <1>4
    <3>4. QED
      BY <1>3, <3>1, <3>2, <3>3
  <2>2. QED
    BY <2>1
<1>9. Firsts(m) \subseteq ToSet(o)
  BY <1>3, <1>4, <1>7 DEF Firsts
<1>10. /\ Mode' = Mode /\ IndexLimit' = IndexLimit /\ ToSet(index.order)' = ToSet(o)
       /\ \A f : Ranking(f)' = Ranking(f)
  <2>1. found'.matched = found.matched
    BY <1>1, <1>2 DEF Stop, FoundOK, FoundType
  <2>2. index'.order = index.order
    BY <1>3, <1>6
  <2>3. UNCHANGED <<why, noted, cover>> /\ Mode' = Mode /\ opts' = opts
        /\ \A f : Pkg(f)' = Pkg(f)
    BY <1>1, SameProgram
  <2>4. IndexLimit' = IndexLimit
    BY <2>2, <2>3 DEF IndexLimit
  <2>5. ToSet(index.order)' = ToSet(o)
    BY <1>3, <2>2
  <2>6. ASSUME NEW f
        PROVE  Ranking(f)' = Ranking(f)
    BY <2>1, <2>3 DEF Ranking, Class
  <2>7. QED
    BY <2>3, <2>4, <2>5, <2>6
<1>11. ASSUME NEW k \in 1..N
       PROVE  /\ (o[k] \in Firsts(m)) # (index'.skipped[o[k]] # "")
              /\ index'.skipped[o[k]] = "max_functions" =>
                     Cardinality(Firsts(m)) = IndexLimit
  <2>1. PICK f : f = o[k] /\ f \in Fns /\ f \in ToSet(o)
    BY <1>3, <1>7
  <2>2. CASE \A g \in Fns :
                 index.skipped[g] = IF g \in Beyond(m) THEN "index_budget" ELSE ""
    <3>1. f \in Firsts(m) <=> f \notin Beyond(m)
      BY <1>8, <2>1
    <3>2. index'.skipped[f] = IF f \in Beyond(m) THEN "index_budget" ELSE ""
      BY <1>6, <2>1, <2>2, <3>1
    <3>3. QED
      BY <2>1, <3>1, <3>2
  <2>3. CASE /\ at = m + 1 /\ m <= IndexLimit
             /\ \A g \in Fns : index.skipped[g] = ""
    <3>1. index'.skipped[f] = IF f \in Firsts(m) THEN "" ELSE "max_functions"
      BY <1>6, <2>1, <2>3
    <3>2. m = IndexLimit
      <4>1. PICK limit : limit = IndexLimit /\ limit \in 0..N
        <5>1. IndexLimit = LimitOf(N)
          BY <1>3 DEF IndexLimit, LimitOf
        <5>2. QED
          BY <1>2, <1>4, <5>1, IndexLimitIs
      <4>2. at = m + 1 /\ m <= limit /\ at > limit
        BY <1>1, <2>3, <4>1
      <4>3. QED
        BY <1>4, <4>1, <4>2
    <3>3. Cardinality(Firsts(m)) = m
      BY <1>3, CountFirst DEF Firsts
    <3>4. QED
      BY <2>1, <3>1, <3>2, <3>3
  <2>4. QED
    BY <1>5, <2>2, <2>3
<1>12. ASSUME NEW f \in Firsts(m), NEW g \in ToSet(o) \ Firsts(m), Mode = "bridge"
       PROVE  Ranking(f).class <= Ranking(g).class
  <2>1. PICK i \in 1..N : f = o[i]
    BY <1>7, <1>9
  <2>2. PICK j \in 1..N : g = o[j]
    BY <1>7
  <2>3. i <= m /\ ~(j <= m)
    BY <1>8, <2>1, <2>2
  <2>4. i < j
    BY <1>4, <2>3
  <2>5. \A x, y \in 1..Len(index.order) : x < y =>
            Ranking(index.order[x]).class <= Ranking(index.order[y]).class
    BY <1>1, <1>12 DEF ScanInv, Listed
  <2>6. QED
    BY <1>3, <2>1, <2>2, <2>4, <2>5
<1>13. /\ \A f \in ToSet(o) : (f \in Firsts(m)) # (index'.skipped[f] # "")
       /\ \A f \in ToSet(o) : index'.skipped[f] = "max_functions" =>
                                 Cardinality(Firsts(m)) = IndexLimit
  BY <1>7, <1>11
<1>14. QED
  BY <1>6, <1>10, <1>12, <1>13 DEF Accounted

-----------------------------------------------------------------------------
(* The whole probe is well typed.                                          *)

\* The flow, and the end, leave what the index and discovery have collected.
LEMMA FlowKeeps ==
    FlowValue \/ EndFlow \/ Return =>
        /\ UNCHANGED <<input, graph, callers, why, noted, found, cover, index, late>>
        /\ phase \in {"flow", "done"} /\ phase' \in {"flow", "done"}
BY DEF FlowValue, EndFlow, Return, vars

LEMMA FlowTypes == TypeInv /\ (FlowValue \/ EndFlow \/ Return) => TypeInv'
<1> SUFFICES ASSUME TypeInv, FlowValue \/ EndFlow \/ Return
             PROVE  TypeInv'
  OBVIOUS
<1>1. /\ UNCHANGED <<input, graph, callers, why, noted, found, cover, index, late>>
      /\ phase' \in {"flow", "done"}
  BY FlowKeeps
<1>2. input' \in Inputs /\ GraphOK' /\ SeedsOK' /\ FoundOK' /\ IndexOK'
  BY <1>1, Kept
<1>3. PlaceOK'
  BY <1>1 DEF PlaceOK
<1>4. QED
  BY <1>2, <1>3 DEF TypeInv

LEMMA SameType == TypeInv /\ UNCHANGED vars => TypeInv'
<1> SUFFICES ASSUME TypeInv, UNCHANGED vars
             PROVE  TypeInv'
  OBVIOUS
<1>1. UNCHANGED <<input, phase, graph, callers, why, noted, found, cover, index, late,
                  queue, at>>
  BY DEF vars
<1>2. /\ input' \in Inputs /\ GraphOK' /\ SeedsOK' /\ FoundOK' /\ IndexOK' /\ Fns' = Fns
      /\ RootSeq' = RootSeq /\ opts' = opts
  BY <1>1, Kept, SameProgram
<1>3. PlaceOK'
  <2>1. \A f : /\ CallersIn(graph, f)' = CallersIn(graph, f)
               /\ AdjacentIn(graph, f)' = AdjacentIn(graph, f)
    BY <1>1, <1>2, SameProgram DEF CallersIn, AdjacentIn, StaticCallees, Instrs
  <2> DEFINE size == Cardinality(CallersIn(graph, Head(queue)))
             near == Cardinality(AdjacentIn(graph, Head(queue)))
  <2>2. size' = size /\ near' = near
    BY <1>1, <2>1
  <2> HIDE DEF size, near
  <2>3. PlaceOK <=>
     \/ phase = "callgraph" /\ queue = <<>> /\ at = 1
     \/ /\ phase = "reverse" /\ queue \in Seq(Fns)
        /\ at \in 1..Len(RootSeq) + 1 /\ (queue # <<>> => at > 1)
     \/ /\ phase \in {"paths", "sinks", "starts", "oracle", "frontier", "expand", "index",
                      "scan"}
        /\ queue = <<>> /\ at \in Nat \ {0}
     \/ /\ phase = "callers" /\ queue \in Seq(Fns) /\ at \in Nat \ {0}
        /\ at # 1 /\ queue # <<>> => at <= size
     \/ /\ phase = "adjacent" /\ queue \in Seq(found.owners) /\ at \in Nat \ {0}
        /\ at # 1 /\ queue # <<>> => /\ found.depth[Head(queue)] < opts.reach
                                     /\ at <= near
     \/ /\ phase = "bridge" /\ queue \in Seq(DOMAIN cover) /\ at \in Nat
        /\ at # 0 => queue # <<>>
     \/ phase \in {"flow", "done"}
    BY Zenon DEF PlaceOK, size, near
  <2>4. PlaceOK' <=>
     \/ phase' = "callgraph" /\ queue' = <<>> /\ at' = 1
     \/ /\ phase' = "reverse" /\ queue' \in Seq(Fns')
        /\ at' \in 1..Len(RootSeq') + 1 /\ (queue' # <<>> => at' > 1)
     \/ /\ phase' \in {"paths", "sinks", "starts", "oracle", "frontier", "expand", "index",
                       "scan"}
        /\ queue' = <<>> /\ at' \in Nat \ {0}
     \/ /\ phase' = "callers" /\ queue' \in Seq(Fns') /\ at' \in Nat \ {0}
        /\ at' # 1 /\ queue' # <<>> => at' <= size'
     \/ /\ phase' = "adjacent" /\ queue' \in Seq(found'.owners) /\ at' \in Nat \ {0}
        /\ at' # 1 /\ queue' # <<>> => /\ found'.depth[Head(queue')] < opts'.reach
                                       /\ at' <= near'
     \/ /\ phase' = "bridge" /\ queue' \in Seq(DOMAIN cover') /\ at' \in Nat
        /\ at' # 0 => queue' # <<>>
     \/ phase' \in {"flow", "done"}
    BY Zenon DEF PlaceOK, size, near
  <2>5. QED
    BY <1>1, <1>2, <2>2, <2>3, <2>4, Zenon DEF TypeInv
<1>4. QED
  BY <1>2, <1>3 DEF TypeInv

ModeInv ==
    /\ phase \in {"starts", "bridge"} => Mode = "bridge"
    /\ phase \in {"paths", "sinks", "oracle", "frontier", "callers", "adjacent", "expand"} =>
           Mode # "bridge"

\* The steps before the index, those of the bridge apart.
SeedStep == \/ BuildGraph \/ OpenReverse \/ VisitNode \/ CloseReverse
            \/ SeedPaths \/ SeedSinks \/ Expand \/ FrontierStep \/ OracleStart \/ OracleEnd

LEMMA SeedStepType == TypeInv /\ SeedStep => TypeInv'
BY BuildGraphType, OpenReverseType, VisitNodeType, CloseReverseType, SeedPathsType,
   SeedSinksType, ExpandType, FrontierStepType, OracleStartType, OracleEndType DEF SeedStep

LEMMA TicksLate ==
    ASSUME NEW n \in Nat, NEW t \in Ticks(n, opts.clock), NEW k \in 1..n, t[k], LateInv,
           phase \in {"frontier", "callers", "adjacent", "bridge", "oracle"}
    PROVE  opts.clock
BY DEF Ticks, LateInv

\* Where a step leads, and when its clock has run out.
LEMMA GraphSteps ==
    ASSUME LateInv, ModeInv, BuildGraph \/ OpenReverse \/ VisitNode
    PROVE  /\ UNCHANGED input /\ phase' = "reverse" /\ LateInv' /\ ModeInv'
<1>1. UNCHANGED <<input, late>> /\ phase \in {"callgraph", "reverse"} /\ phase' = "reverse"
  BY DEF BuildGraph, OpenReverse, VisitNode
<1>2. QED
  BY <1>1 DEF LateInv, ModeInv

LEMMA CloseReverseStep ==
    ASSUME LateInv, ModeInv, CloseReverse
    PROVE  /\ UNCHANGED input /\ LateInv' /\ ModeInv'
           /\ phase' \in {"index", "starts", "oracle", "paths", "sinks", "frontier"}
           /\ Mode = "bridge" => phase' = "starts"
<1>1. UNCHANGED <<input, late>> /\ phase = "reverse" /\ phase' = First
  BY DEF CloseReverse
<1>2. /\ First \in {"index", "starts", "oracle", "paths", "sinks", "frontier"}
      /\ Mode = "bridge" <=> First = "starts"
  BY DEF First
<1>3. Mode' = Mode
  BY <1>1 DEF Mode
<1>4. QED
  BY <1>1, <1>2, <1>3 DEF LateInv, ModeInv

LEMMA SinkSteps ==
    ASSUME LateInv, ModeInv, SeedPaths \/ SeedSinks
    PROVE  /\ UNCHANGED input /\ LateInv' /\ ModeInv' /\ Mode # "bridge"
           /\ phase' \in {"sinks", "expand", "index"}
<1>1. /\ UNCHANGED input /\ phase \in {"paths", "sinks"}
      /\ phase' \in {"sinks", "expand", "index"}
      /\ late' => late \/ (opts.index /\ phase' \in {"expand", "index"})
  <2>1. CASE SeedPaths
    BY <2>1 DEF SeedPaths
  <2>2. CASE SeedSinks
    <3>1. UNCHANGED input /\ phase = "sinks" /\ phase' \in {"expand", "index"}
      BY <2>2 DEF SeedSinks
    <3>2. PICK seen \in SUBSET Fns : (seen = Fns \/ opts.index) /\ late' = (seen # Fns)
      BY <2>2 DEF SeedSinks
    <3>3. QED
      BY <3>1, <3>2
  <2>3. QED
    BY <2>1, <2>2
<1>2. Mode' = Mode /\ opts' = opts
  BY <1>1 DEF Mode, opts
<1>3. QED
  BY <1>1, <1>2 DEF LateInv, ModeInv

LEMMA ExpandStep ==
    ASSUME TypeInv, LateInv, ModeInv, Expand
    PROVE  /\ UNCHANGED input /\ LateInv' /\ ModeInv' /\ Mode # "bridge"
           /\ phase' \in {"expand", "index"}
<1>1. UNCHANGED input /\ phase = "expand"
  BY DEF Expand
<1>2. phase' \in {"expand", "index"}
  BY <1>1, Zenon DEF Expand, ExpandStop, ExpandWith
<1>3. \A trial \in Trials : trial.late => opts.index \/ late
  <2> DEFINE order == Ascending(Owners)
             Scan(n, cut) ==
               [refs |-> (UNION {Refs(order[k]) : k \in 1..n})
                         \cup (IF n < TrialLimit
                               THEN UNION {RefsAt(order[n + 1], k) : k \in 1..cut}
                               ELSE {}),
                late |-> n < TrialLimit]
  <2>1. TrialLimit \in Nat
    <3>1. Owners \subseteq Fns /\ IsFiniteSet(Fns) /\ opts.maxIndex \in Nat
      BY ProgramIs, EntryAssumption DEF TypeInv, Owners, opts, Numbers
    <3>2. Cardinality(Owners) \in Nat
      BY <3>1, FS_Subset, FS_CardinalityType
    <3>3. QED
      BY <3>1, <3>2 DEF TrialLimit
  <2>2. ~(opts.index \/ late) => Trials = {Scan(TrialLimit, 0)}
    BY DEF Trials
  <2>3. Scan(TrialLimit, 0).late = (TrialLimit < TrialLimit) /\ ~(TrialLimit < TrialLimit)
    <3>1. ~(TrialLimit < TrialLimit)
      <4>1. \A n \in Nat : ~(n < n)
        OBVIOUS
      <4>2. QED
        BY <2>1, <4>1
    <3>2. \A n, cut : Scan(n, cut).late = (n < TrialLimit)
      BY Zenon
    <3>3. QED
      BY <3>1, <3>2
  <2> HIDE DEF Scan
  <2>4. QED
    BY <2>2, <2>3
<1>4. late' => opts.index \/ late
  BY <1>3 DEF Expand, ExpandStop
<1>5. Mode' = Mode /\ opts' = opts
  BY <1>1 DEF Mode, opts
<1>6. QED
  BY <1>1, <1>2, <1>4, <1>5 DEF LateInv, ModeInv

LEMMA FrontierStepsLate ==
    ASSUME LateInv, FrontierStep
    PROVE  /\ phase \in {"frontier", "callers", "adjacent"}
           /\ phase' \in {"frontier", "callers", "adjacent", "expand", "index"}
           /\ UNCHANGED input
           /\ late' => late \/ opts.clock
           /\ phase' \in {"expand", "index"} => ~late'
<1>1. ASSUME NEW t \in Ticks(3, opts.clock)
      PROVE  t[3] => late \/ opts.clock
  BY DEF Ticks
<1>2. CASE FrontierRoot
  BY <1>1, <1>2 DEF FrontierRoot, ToAdjacent, FrontierUnchanged
<1>3. CASE FrontierRoots
  BY <1>3 DEF FrontierRoots, FrontierUnchanged
<1>4. CASE FrontierCaller
  <2>1. UNCHANGED input /\ phase = "callers"
    BY <1>4 DEF FrontierCaller, FrontierUnchanged
  <2>2. late' => late \/ opts.clock
    BY <1>1, <1>4 DEF FrontierCaller
  <2>3. phase' = phase \/ phase' = "adjacent"
    BY <1>4 DEF FrontierCaller, ToAdjacent
  <2>4. QED
    BY <2>1, <2>2, <2>3
<1>5. CASE FrontierReversed
  BY <1>5 DEF FrontierReversed, ToAdjacent, FrontierUnchanged
<1>6. CASE AdjacentOwner
  <2>1. UNCHANGED <<input, phase>> /\ phase = "adjacent"
    BY <1>6 DEF AdjacentOwner, FrontierUnchanged
  <2>2. late' => late \/ opts.clock
    BY <1>1, <1>6 DEF AdjacentOwner
  <2>3. QED
    BY <2>1, <2>2
<1>7. CASE AssembleFrontier
  BY <1>7 DEF AssembleFrontier, FrontierUnchanged
<1>8. QED
  BY <1>2, <1>3, <1>4, <1>5, <1>6, <1>7 DEF FrontierStep

LEMMA FrontierSteps ==
    ASSUME LateInv, ModeInv, FrontierStep
    PROVE  /\ UNCHANGED input /\ LateInv' /\ ModeInv' /\ Mode # "bridge"
           /\ phase' \in {"frontier", "callers", "adjacent", "expand", "index"}
<1>1. Mode' = Mode /\ opts' = opts
  BY FrontierStepsLate DEF Mode, opts
<1>2. QED
  BY <1>1, FrontierStepsLate DEF LateInv, ModeInv

LEMMA OracleStartEnds ==
    OracleStart => \E full : \E t \in Ticks(1, opts.clock) :
                       /\ late' = (t[1] /\ ~full)
                       /\ phase' = IF full THEN "index" ELSE phase
<1> SUFFICES ASSUME OracleStart
             PROVE  \E full : \E t \in Ticks(1, opts.clock) :
                        /\ late' = (t[1] /\ ~full)
                        /\ phase' = IF full THEN "index" ELSE phase
  OBVIOUS
<1> DEFINE start == Ascending(OracleStarts)[at]
           order == FnsOf(Pkg(start))
           Most(n) == IF opts.perPackage > 0 /\ opts.perPackage < n THEN opts.perPackage ELSE n
           looked(n) == OracleOwners(start, Most(n))
           owners(n) == Ascending(looked(n).hold \cup looked(n).evident)
           steps(n) == Concat([k \in DOMAIN owners(n) |->
                           <<owners(n)[k]>> \o Ascending(ReceiversOf(start, owners(n)[k]))])
           first(n) == AddBoundary(Add(why, {start}, "oracle_bridge"), looked(n).evident)
           Seeds(n, k) == {f \in Fns : first(n)[f] # {}} \cup ToSet(SubSeq(steps(n), 1, k))
           taken(n) == Max({0} \cup {k \in 1..Len(steps(n)) :
                               ~AtLimit(Cardinality(Seeds(n, k - 1)), opts.owners)})
           Full(n) == taken(n) < Len(steps(n))
<1>1. PICK t \in Ticks(1, opts.clock), n \in 0..Len(order) :
          /\ late' = (t[1] /\ ~Full(n)) /\ phase' = IF Full(n) THEN "index" ELSE phase
  BY ZenonT(60) DEF OracleStart
<1> HIDE DEF Full, order
<1>2. QED
  BY <1>1

LEMMA OracleSteps ==
    ASSUME LateInv, ModeInv, OracleStart \/ OracleEnd
    PROVE  /\ UNCHANGED input /\ LateInv' /\ ModeInv' /\ Mode # "bridge"
           /\ phase' \in {"oracle", "index"}
<1>1. UNCHANGED input /\ phase = "oracle" /\ phase' \in {"oracle", "index"}
  <2>1. CASE OracleStart
    <3>1. UNCHANGED input /\ phase = "oracle"
      BY <2>1 DEF OracleStart, BridgeUnchanged
    <3>2. \E full : phase' = IF full THEN "index" ELSE phase
      BY <2>1, OracleStartEnds
    <3>3. QED
      BY <3>1, <3>2
  <2>2. CASE OracleEnd
    BY <2>2 DEF OracleEnd, BridgeUnchanged
  <2>3. QED
    BY <2>1, <2>2
<1>2. late' => (late \/ opts.clock) /\ phase' = "oracle"
  <2>1. ASSUME NEW t \in Ticks(1, opts.clock), t[1]
        PROVE  late \/ opts.clock
    BY <2>1 DEF Ticks
  <2>2. CASE OracleStart
    <3>1. \E full : \E t \in Ticks(1, opts.clock) :
              /\ phase' = IF full THEN "index" ELSE phase
              /\ late' = (t[1] /\ ~full)
      BY <2>2, OracleStartEnds
    <3>2. QED
      BY <1>1, <2>1, <3>1
  <2>3. CASE OracleEnd
    BY <2>3 DEF OracleEnd
  <2>4. QED
    BY <2>2, <2>3
<1>3. Mode' = Mode /\ opts' = opts
  BY <1>1 DEF Mode, opts
<1>4. QED
  BY <1>1, <1>2, <1>3 DEF LateInv, ModeInv

LEMMA SeedSteps ==
    ASSUME TypeInv, LateInv, ModeInv, SeedStep
    PROVE  /\ UNCHANGED input /\ LateInv' /\ ModeInv'
           /\ phase' \notin {"bridge", "scan", "flow", "done"}
           /\ Mode = "bridge" => phase' # "index"
BY GraphSteps, CloseReverseStep, SinkSteps, ExpandStep, FrontierSteps, OracleSteps
   DEF SeedStep

LEMMA BridgedKept ==
    ASSUME UNCHANGED <<input, why, cover>>, found \in FoundType, Bridged,
           found' = found \/ found' = Stop(found, "index_budget")
    PROVE  Bridged'
<1>1. /\ found'.owners = found.owners /\ found'.scanned = found.scanned
      /\ found'.starts = found.starts /\ found'.matched = found.matched
      /\ found.stops \subseteq found'.stops
  BY DEF Stop, FoundType
<1>2. Fns' = Fns /\ Owners' = Owners
  BY SameProgram DEF Owners
<1>3. \A p : Whole(p) => Whole(p)'
  BY <1>1, StaysSo
<1>4. \A p : Tried(p) => Tried(p)'
  BY <1>1 DEF Tried
<1>5. Matching'
  BY <1>1, <1>2 DEF Bridged, Matching
<1>6. QED
  BY <1>1, <1>2, <1>3, <1>4, <1>5 DEF Bridged

LEMMA IndexSteps ==
    ASSUME TypeInv, LateInv, ModeInv, BridgeInv,
           OpenIndex \/ IndexOwner \/ CloseIndex \/ FlowValue \/ EndFlow \/ Return
    PROVE  LateInv' /\ ModeInv' /\ BridgeInv' /\ UNCHANGED input /\ phase' # "bridge"
<1>1. /\ UNCHANGED <<input, why, cover>> /\ Seeded
      /\ phase' \in {"scan", "flow", "done"}
      /\ found' = found \/ found' = Stop(found, "index_budget")
  BY DEF OpenIndex, IndexOwner, CloseIndex, FlowValue, EndFlow, Return, vars, Seeded
<1>2. Mode' = Mode /\ opts' = opts
  BY <1>1 DEF Mode, opts
<1>3. LateInv'
  <2>1. CASE OpenIndex
    BY <1>2, <2>1 DEF OpenIndex, LateInv
  <2>2. CASE IndexOwner
    <3>1. PICK cut, f, never, lines, scan, rest : Indexing(cut, f, never, lines, scan, rest)
      BY <2>2, IndexOwnerIs
    <3>2. /\ cut \in IF late THEN {0} ELSE IF opts.index THEN 0..never ELSE {never}
          /\ late' = (cut < never) /\ never = Len(Code(f)) + 1
      BY <3>1 DEF Indexing
    <3>3. phase = "scan" /\ phase' = "scan"
      BY <2>2 DEF IndexOwner
    <3>4. ~late /\ ~opts.index => cut = never
      BY <3>2
    <3>5. ~(never < never)
      <4>1. f = index.order[at] /\ at <= IndexLimit
        BY <2>2, <3>1 DEF Indexing, IndexOwner
      <4>2. never \in Int
        BY <3>2, <4>1
      <4>3. QED
        BY <4>2
    <3>6. QED
      BY <1>2, <3>2, <3>3, <3>4, <3>5 DEF LateInv
  <2>3. CASE CloseIndex
    BY <2>3 DEF CloseIndex, LateInv
  <2>4. CASE FlowValue \/ EndFlow \/ Return
    BY <2>4, FlowKeeps DEF LateInv
  <2>5. QED
    BY <2>1, <2>2, <2>3, <2>4
<1>4. ModeInv'
  BY <1>1 DEF ModeInv
<1>5. BridgeInv'
  <2>1. found \in FoundType
    BY DEF TypeInv, FoundOK
  <2>2. Mode = "bridge" => Bridged'
    BY <1>1, <2>1, BridgedKept DEF BridgeInv
  <2>3. QED
    BY <1>1, <1>2, <2>2 DEF BridgeInv
<1>6. QED
  BY <1>1, <1>3, <1>4, <1>5

\* What holds throughout.
BridgeLimits == phase = "bridge" => Limits
ProbeInv ==
    TypeInv /\ LateInv /\ ModeInv /\ BridgeInv /\ BridgeLimits /\ ScanInv /\ Accounted

LEMMA BridgeSteps ==
    ASSUME TypeInv, LateInv, ModeInv, BridgeInv, BridgeLimits,
           SelectStarts \/ StartPackage \/ BridgeOwner \/ AssembleBridge
    PROVE  /\ TypeInv' /\ LateInv' /\ ModeInv' /\ BridgeInv' /\ BridgeLimits'
           /\ UNCHANGED input /\ phase' \in {"bridge", "index"} /\ Limits'
<1>1. /\ UNCHANGED input /\ phase \in {"starts", "bridge"} /\ phase' \in {"bridge", "index"}
      /\ phase = "starts" => SelectStarts /\ phase' = "bridge"
  BY DEF SelectStarts, StartPackage, BridgeOwner, AssembleBridge, BridgeUnchanged
<1>2. Mode = "bridge" /\ Mode' = Mode /\ opts' = opts
  BY <1>1 DEF ModeInv, Mode, opts
<1>3. LateInv'
  <2>1. CASE SelectStarts
    BY <1>2, <2>1 DEF SelectStarts, LateInv
  <2>2. CASE StartPackage
    <3>1. phase' = "bridge" /\ phase = "bridge"
      BY <2>2 DEF StartPackage
    <3>2. PICK t \in Ticks(1, opts.clock) : late' = t[1]
      BY <2>2 DEF StartPackage
    <3>3. t[1] => late \/ opts.clock
      BY <3>2 DEF Ticks
    <3>4. QED
      BY <1>2, <3>1, <3>2, <3>3 DEF LateInv
  <2>3. CASE BridgeOwner
    <3>1. phase' = "bridge" /\ phase = "bridge"
      BY <2>3 DEF BridgeOwner
    <3>2. late' => late \/ opts.clock
      <4> DEFINE pkg == Head(queue)
                 order == FnsOf(pkg)
                 whole == at > Len(order)
                 never == IF whole THEN 0 ELSE Len(Code(order[at])) + 1
      <4>1. PICK cut \in IF opts.clock THEN 0..never ELSE {never} :
                late' = (late \/ cut < never)
        BY <2>3, ZenonT(60) DEF BridgeOwner
      <4>2. never \in Int
        OBVIOUS
      <4>3. ~(never < never)
        BY <4>2
      <4> HIDE DEF never
      <4>4. QED
        BY <4>1, <4>3
    <3>3. QED
      BY <1>2, <3>1, <3>2 DEF LateInv
  <2>4. CASE AssembleBridge
    BY <2>4 DEF AssembleBridge, LateInv
  <2>5. QED
    BY <2>1, <2>2, <2>3, <2>4
<1>4. ModeInv'
  BY <1>1, <1>2 DEF ModeInv
<1>5. TypeInv' /\ Limits' /\ (phase' = "bridge" => Bridging') /\ (phase' = "index" => Bridged')
  <2>1. CASE SelectStarts
    BY <2>1, SelectStartsHolds DEF SelectStarts
  <2>2. CASE StartPackage
    <3>1. phase = "bridge" /\ phase' = "bridge"
      BY <2>2 DEF StartPackage, BridgeUnchanged
    <3>2. QED
      BY <1>2, <2>2, <3>1, StartPackageHolds DEF BridgeInv, BridgeLimits
  <2>3. CASE BridgeOwner
    <3>1. phase = "bridge" /\ phase' = "bridge"
      BY <2>3 DEF BridgeOwner, BridgeUnchanged
    <3>2. QED
      BY <1>2, <2>3, <3>1, BridgeOwnerHolds DEF BridgeInv, BridgeLimits
  <2>4. CASE AssembleBridge
    <3>1. phase = "bridge" /\ phase' = "index"
      BY <2>4 DEF AssembleBridge
    <3>2. QED
      BY <1>2, <2>4, <3>1, AssembleBridgeHolds DEF BridgeInv, BridgeLimits
  <2>5. QED
    BY <2>1, <2>2, <2>3, <2>4
<1>6. BridgeInv' /\ BridgeLimits'
  BY <1>1, <1>2, <1>5 DEF BridgeInv, BridgeLimits, Seeded
<1>7. QED
  BY <1>1, <1>3, <1>4, <1>5, <1>6

LEMMA SameIndexing ==
    ASSUME UNCHANGED <<input, phase, why, noted, found, cover, at, index>>
    PROVE  (ScanInv => ScanInv') /\ (Accounted => Accounted')
<1>1. /\ Fns' = Fns /\ Owners' = Owners /\ Mode' = Mode /\ opts' = opts
      /\ \A f : Ranking(f)' = Ranking(f)
  BY SameProgram DEF Owners, Ranking, Class
<1>2. IndexLimit' = IndexLimit
  BY <1>1 DEF IndexLimit
<1>3. Listed' = Listed
  BY <1>1 DEF Listed
<1>4. \A m : Firsts(m)' = Firsts(m) /\ Beyond(m)' = Beyond(m)
  BY DEF Firsts, Beyond
<1>5. ScanInv => ScanInv'
  BY <1>1, <1>2, <1>3, <1>4 DEF ScanInv
<1>6. Accounted => Accounted'
  BY <1>1, <1>2 DEF Accounted
<1>7. QED
  BY <1>5, <1>6

LEMMA FlowAccounts == Accounted /\ (FlowValue \/ EndFlow \/ Return) => Accounted'
<1> SUFFICES ASSUME Accounted, FlowValue \/ EndFlow \/ Return
             PROVE  Accounted'
  OBVIOUS
<1>1. /\ UNCHANGED <<input, why, noted, found, cover, index>>
      /\ phase \in {"flow", "done"} /\ phase' \in {"flow", "done"}
  BY FlowKeeps
<1>2. /\ Fns' = Fns /\ Mode' = Mode /\ opts' = opts
      /\ \A f : Ranking(f)' = Ranking(f)
  BY <1>1, SameProgram DEF Ranking, Class
<1>3. IndexLimit' = IndexLimit
  BY <1>1, <1>2 DEF IndexLimit
<1>4. QED
  BY <1>1, <1>2, <1>3 DEF Accounted

LEMMA SameBridge ==
    ASSUME TypeInv, UNCHANGED <<input, phase, graph, why, found, cover, queue, at>>
    PROVE  (BridgeInv => BridgeInv') /\ (Limits => Limits')
<1>1. Fns' = Fns /\ Owners' = Owners /\ Mode' = Mode /\ opts' = opts
  BY SameProgram DEF Owners
<1>2. \A p : FnsOf(p)' = FnsOf(p)
  BY SameWork
<1>3. \A p : Holders(found.starts, p)' = Holders(found.starts, p)
  BY SameProgram DEF Holders
<1>4. \A p : Whole(p)' = Whole(p) /\ Tried(p)' = Tried(p) /\ AtHand(p)' = AtHand(p)
  BY <1>2, <1>3 DEF Whole, Tried, AtHand
<1>5. Matching' = Matching
  BY <1>1 DEF Matching
<1>6. Bridged => Bridged'
  BY <1>1, <1>4, <1>5 DEF Bridged
<1>7. Bridging => Bridging'
  <2>1. PICK pkg : pkg = Head(queue)
    OBVIOUS
  <2>2. FnsOf(Head(queue))' = FnsOf(pkg) /\ Holders(found.starts, Head(queue))' = Holders(found.starts, pkg)
    <3>1. Head(queue)' = pkg
      BY <2>1
    <3>2. FnsOf(Head(queue))' = FnsOf(pkg)
      BY <3>1, <1>1, SameProgram DEF FnsOf
    <3>3. Holders(found.starts, Head(queue))' = Holders(found.starts, pkg)
      BY <3>1, SameProgram DEF Holders
    <3>4. QED
      BY <3>2, <3>3
  <2>3. QED
    BY <1>4, <1>5, <2>1, <2>2 DEF Bridging
<1>8. Limits => Limits'
  <2>1. found.owners \subseteq Fns
    BY DEF TypeInv, FoundOK, FoundType
  <2>2. QED
    BY <2>1, LimitsKept
<1>9. QED
  BY <1>1, <1>6, <1>7, <1>8 DEF BridgeInv, Seeded

LEMMA ProbeInit == Init => ProbeInv
<1> SUFFICES ASSUME Init
             PROVE  ProbeInv
  OBVIOUS
<1>1. phase = "callgraph" /\ late = FALSE
  BY DEF Init
<1>2. QED
  BY <1>1, TypeInit DEF ProbeInv, LateInv, ModeInv, BridgeInv, BridgeLimits, ScanInv,
     Accounted, Seeded

LEMMA ProbeNext == ProbeInv /\ [Next]_vars => ProbeInv'
<1> SUFFICES ASSUME ProbeInv, [Next]_vars
             PROVE  ProbeInv'
  OBVIOUS
<1>1. /\ TypeInv /\ LateInv /\ ModeInv /\ BridgeInv /\ BridgeLimits /\ ScanInv /\ Accounted
  BY DEF ProbeInv
<1> DEFINE Ends == phase' \notin {"scan", "flow", "done"}
<1>2. CASE SeedStep
  <2>1. TypeInv'
    BY <1>1, <1>2, SeedStepType
  <2>2. /\ UNCHANGED input /\ LateInv' /\ ModeInv'
        /\ phase' \notin {"bridge", "scan", "flow", "done"}
        /\ Mode = "bridge" => phase' # "index"
    BY <1>1, <1>2, SeedSteps
  <2>3. Mode' = Mode
    BY <2>2 DEF Mode
  <2>4. QED
    BY <2>1, <2>2, <2>3 DEF ProbeInv, BridgeInv, BridgeLimits, ScanInv, Accounted, Seeded
<1>3. CASE SelectStarts \/ StartPackage \/ BridgeOwner \/ AssembleBridge
  <2>1. /\ TypeInv' /\ LateInv' /\ ModeInv' /\ BridgeInv' /\ BridgeLimits'
        /\ phase' \in {"bridge", "index"}
    BY <1>1, <1>3, BridgeSteps
  <2>2. QED
    BY <2>1 DEF ProbeInv, ScanInv, Accounted
<1>4. CASE OpenIndex \/ IndexOwner \/ CloseIndex \/ FlowValue \/ EndFlow \/ Return
  <2>1. LateInv' /\ ModeInv' /\ BridgeInv' /\ BridgeLimits'
    BY <1>1, <1>4, IndexSteps DEF BridgeLimits
  <2>2. CASE OpenIndex
    <3>1. phase' = "scan"
      BY <2>2 DEF OpenIndex
    <3>2. QED
      BY <1>1, <2>1, <2>2, <3>1, OpenIndexHolds DEF ProbeInv, Accounted
  <2>3. CASE IndexOwner
    <3>1. phase' = "scan"
      BY <2>3 DEF IndexOwner
    <3>2. QED
      BY <1>1, <2>1, <2>3, <3>1, IndexOwnerHolds DEF ProbeInv, Accounted
  <2>4. CASE CloseIndex
    <3>1. phase' = "flow"
      BY <2>4 DEF CloseIndex
    <3>2. QED
      BY <1>1, <2>1, <2>4, <3>1, CloseIndexType, CloseIndexHolds DEF ProbeInv, ScanInv
  <2>5. CASE FlowValue \/ EndFlow \/ Return
    <3>1. phase' \in {"flow", "done"}
      BY <2>5, FlowKeeps
    <3>2. QED
      BY <1>1, <2>1, <2>5, <3>1, FlowTypes, FlowAccounts DEF ProbeInv, ScanInv
  <2>6. QED
    BY <1>4, <2>2, <2>3, <2>4, <2>5
<1>5. CASE UNCHANGED vars
  <2>1. UNCHANGED <<input, phase, why, noted, found, cover, at, index, queue, late>>
    BY <1>5 DEF vars
  <2>7. UNCHANGED graph
    BY <1>5 DEF vars
  <2>2. TypeInv' /\ ScanInv' /\ Accounted'
    BY <1>1, <1>5, <2>1, SameType, SameIndexing
  <2>3. Mode' = Mode /\ opts' = opts /\ Fns' = Fns /\ Owners' = Owners
    BY <2>1, SameProgram DEF Owners
  <2>4. LateInv' /\ ModeInv'
    BY <1>1, <2>1, <2>3 DEF LateInv, ModeInv
  <2>5. BridgeInv' /\ BridgeLimits'
    BY <1>1, <2>1, <2>7, SameBridge DEF BridgeLimits
  <2>6. QED
    BY <2>2, <2>4, <2>5 DEF ProbeInv
<1>6. QED
  BY <1>2, <1>3, <1>4, <1>5 DEF Next, SeedStep, BridgeStep

\* Whatever the inputs, every part of the probe's state keeps its type: seeds and what
\* was found are functions of the program, the queue of each phase holds what that phase
\* reads from it, and the place in it is one the code can read.
THEOREM TypeCorrect == Spec => []TypeInv
<1>1. ProbeInv => TypeInv
  BY DEF ProbeInv
<1>2. QED
  BY ProbeInit, ProbeNext, <1>1, PTL DEF Spec
LEMMA BridgeExplains ==
    ASSUME TypeInv, BridgeInv, phase \in {"flow", "done"}, Mode = "bridge",
           NEW f \in Fns, f \notin Owners, SkipCauses(f) = {}
    PROVE  "package_function_budget" \in found.stops /\ ~cover[Pkg(f)].completed
<1> DEFINE p == Pkg(f)
<1>1. Bridged
  BY DEF BridgeInv, Seeded
<1>2. why[f] = {} /\ found.matched[f] \in Nat
  BY DEF Owners, TypeInv, FoundOK, FoundType
<1>3. /\ p \in DOMAIN cover /\ cover[p].causes = {} /\ "owner_budget" \notin found.stops
      /\ ~(f \in found.scanned /\ found.matched[f] = 0)
  BY <1>2 DEF SkipCauses
<1>4. ~cover[p].completed
  <2>1. SUFFICES ASSUME cover[p].completed
                 PROVE  FALSE
    OBVIOUS
  <2>2. ToSet(FnsOf(p)) \subseteq found.scanned
    BY <1>1, <1>3, <2>1 DEF Bridged, Whole
  <2>3. f \in ToSet(FnsOf(p))
    <3>1. {g \in Fns : Pkg(g) = p} \subseteq Fns
      OBVIOUS
    <3>2. ToSet(Ascending({g \in Fns : Pkg(g) = p})) = {g \in Fns : Pkg(g) = p}
      BY <3>1, FnsListed DEF TypeInv
    <3>3. QED
      BY <3>2 DEF FnsOf
  <2>4. found.matched[f] > 0
    BY <1>2, <1>3, <2>2, <2>3
  <2>5. f \in found.owners
    BY <1>1, <1>3, <2>4 DEF Bridged, Matching
  <2>6. QED
    BY <1>1, <2>5 DEF Bridged
<1>5. Tried(p)
  BY <1>1, <1>3, <1>4 DEF Bridged
<1>6. QED
  BY <1>3, <1>4, <1>5 DEF Tried

\* Whatever the inputs and wherever the limits fall, a seed is indexed or skipped for a
\* reason, never both; the index takes what the bridge ranks first; and a function the
\* bridge left out has a cause, unless its package was left at the limit on functions.
THEOREM SkipsExplained == Spec => []SkipsAreExplained
<1>1. ProbeInv => SkipsAreExplained
  BY BridgeExplains DEF ProbeInv, Accounted, SkipsAreExplained
<1>2. QED
  BY ProbeInit, ProbeNext, <1>1, PTL DEF Spec

-----------------------------------------------------------------------------
(* The limits of the frontier.                                             *)

FrontStops == {"duration_budget", "reverse_owner_budget", "adjacent_owner_budget",
               "boundary_candidate_budget", "package_budget", "depth_budget"}

\* What the frontier has found keeps its limits, and its stops are earned; of the depth it
\* says nothing.
FrontHeld(s) ==
    /\ s \in FoundType /\ s.stops \subseteq FrontStops
    /\ "duration_budget" \in s.stops => opts.clock
    /\ "reverse_owner_budget" \in s.stops => AtLimit(Cardinality(s.reverse), opts.reverse)
    /\ "adjacent_owner_budget" \in s.stops => AtLimit(Cardinality(s.adjacent), opts.adjacent)
    /\ "boundary_candidate_budget" \in s.stops =>
           AtLimit(Cardinality(s.candidates), opts.candidates)
    /\ "package_budget" \in s.stops => AtLimit(Cardinality(s.packages), opts.packages)
    /\ Keeps(s.packages, opts.packages) /\ Keeps(s.candidates, opts.candidates)
    /\ Keeps(s.reverse, opts.reverse) /\ Keeps(s.adjacent, opts.adjacent)
SameDepth(s, t) == /\ "depth_budget" \in t.stops <=> "depth_budget" \in s.stops
                   /\ t.depth = s.depth

LEMMA LimitsAre ==
    ASSUME input \in Inputs
    PROVE  /\ opts.reverse \in Nat /\ opts.adjacent \in Nat /\ opts.candidates \in Nat
           /\ opts.packages \in Nat /\ opts.reach \in Nat
BY EntryAssumption DEF opts, Numbers

LEMMA FoundFinite ==
    ASSUME input \in Inputs, NEW s \in FoundType
    PROVE  /\ IsFiniteSet(s.reverse) /\ IsFiniteSet(s.adjacent) /\ IsFiniteSet(s.candidates)
           /\ IsFiniteSet(s.packages)
<1>1. /\ s.reverse \subseteq Fns /\ s.adjacent \subseteq Fns /\ s.candidates \subseteq Fns
      /\ s.packages \subseteq Pkgs
  BY DEF FoundType
<1>2. IsFiniteSet(Fns) /\ IsFiniteSet(Pkgs)
  BY ProgramIs, PkgsFinite
<1>3. QED
  BY <1>1, <1>2, FS_Subset

\* A limit that is met stays met by a larger set.
LEMMA StaysMet ==
    ASSUME NEW S, NEW T, IsFiniteSet(T), S \subseteq T, NEW limit \in Nat,
           AtLimit(Cardinality(S), limit)
    PROVE  AtLimit(Cardinality(T), limit)
<1>1. Cardinality(S) <= Cardinality(T) /\ Cardinality(S) \in Nat /\ Cardinality(T) \in Nat
  BY FS_Subset, FS_CardinalityType
<1>2. QED
  BY <1>1 DEF AtLimit

\* What is added below a limit keeps it.
LEMMA OneFits ==
    ASSUME NEW S, IsFiniteSet(S), NEW x, NEW limit \in Nat,
           Keeps(S, limit), ~AtLimit(Cardinality(S), limit)
    PROVE  Keeps(S \cup {x}, limit)
<1>1. CASE x \in S
  <2>1. S \cup {x} = S
    BY <1>1
  <2>2. QED
    BY <2>1
<1>2. CASE x \notin S
  BY <1>2, OneMore
<1>3. QED
  BY <1>1, <1>2

\* A stop of the frontier that is earned.
LEMMA HeldStop ==
    ASSUME NEW s, FrontHeld(s), NEW reason \in FrontStops \ {"depth_budget"},
           \/ reason = "duration_budget" /\ opts.clock
           \/ reason = "reverse_owner_budget" /\ AtLimit(Cardinality(s.reverse), opts.reverse)
           \/ reason = "adjacent_owner_budget" /\ AtLimit(Cardinality(s.adjacent), opts.adjacent)
           \/ reason = "boundary_candidate_budget"
              /\ AtLimit(Cardinality(s.candidates), opts.candidates)
           \/ reason = "package_budget" /\ AtLimit(Cardinality(s.packages), opts.packages)
    PROVE  FrontHeld(Stop(s, reason)) /\ SameDepth(s, Stop(s, reason))
<1>1. PICK t : t = Stop(s, reason)
  OBVIOUS
<1>2. /\ t \in FoundType /\ t.stops = s.stops \cup {reason} /\ t.depth = s.depth
      /\ t.reverse = s.reverse /\ t.adjacent = s.adjacent /\ t.candidates = s.candidates
      /\ t.packages = s.packages
  <2>1. reason \in StopReasons
    BY DEF FrontStops, StopReasons
  <2>2. QED
    BY <1>1, <2>1 DEF Stop, FrontHeld, FoundType
<1>3. QED
  BY <1>1, <1>2 DEF FrontHeld, SameDepth, FrontStops

LEMMA HeldDepth ==
    ASSUME NEW s, FrontHeld(s), NEW t, t = Stop(s, "depth_budget")
    PROVE  /\ FrontHeld(t) /\ t.owners = s.owners /\ t.depth = s.depth
           /\ t.stops = s.stops \cup {"depth_budget"}
<1>1. s \in FoundType
  BY DEF FrontHeld
<1>2. /\ t \in FoundType /\ t.stops = s.stops \cup {"depth_budget"} /\ t.depth = s.depth
      /\ t.reverse = s.reverse /\ t.adjacent = s.adjacent /\ t.owners = s.owners
      /\ t.candidates = s.candidates /\ t.packages = s.packages
  BY <1>1 DEF Stop, FoundType, StopReasons
<1>3. QED
  BY <1>2 DEF FrontHeld, FrontStops

LEMMA HeldOwner ==
    ASSUME input \in Inputs, NEW s, FrontHeld(s), NEW f \in Fns
    PROVE  LET t == AddOwner(s, f)
           IN  /\ FrontHeld(t) /\ SameDepth(s, t)
               /\ t.reverse = s.reverse /\ t.adjacent = s.adjacent
               /\ t.owners \in {s.owners, s.owners \cup {f}}
<1>1. PICK t : t = AddOwner(s, f)
  OBVIOUS
<1>2. CASE t = s
  BY <1>1, <1>2 DEF SameDepth
<1>3. CASE t = Stop(s, "package_budget") /\ AtLimit(Cardinality(s.packages), opts.packages)
  <2>1. FrontHeld(t) /\ SameDepth(s, t)
    BY <1>3, HeldStop DEF FrontStops
  <2>2. t.reverse = s.reverse /\ t.adjacent = s.adjacent /\ t.owners = s.owners
    BY <1>3 DEF Stop, FrontHeld, FoundType
  <2>3. QED
    BY <1>1, <2>1, <2>2
<1>4. CASE /\ t = [s EXCEPT !.owners = @ \cup {f}, !.packages = @ \cup {Pkg(f)}]
           /\ Pkg(f) \in s.packages \/ ~AtLimit(Cardinality(s.packages), opts.packages)
  <2>1. s \in FoundType /\ Pkg(f) \in Pkgs
    BY DEF FrontHeld, Pkgs
  <2>2. /\ t \in FoundType /\ t.stops = s.stops /\ t.depth = s.depth
        /\ t.reverse = s.reverse /\ t.adjacent = s.adjacent /\ t.candidates = s.candidates
        /\ t.packages = s.packages \cup {Pkg(f)} /\ t.owners = s.owners \cup {f}
    BY <1>4, <2>1 DEF FoundType
  <2>3. Keeps(t.packages, opts.packages)
    <3>1. CASE Pkg(f) \in s.packages
      <4>1. t.packages = s.packages
        BY <2>2, <3>1
      <4>2. QED
        BY <4>1 DEF FrontHeld
    <3>2. CASE Pkg(f) \notin s.packages
      <4>1. IsFiniteSet(s.packages) /\ opts.packages \in Nat /\ Keeps(s.packages, opts.packages)
        BY <2>1, FoundFinite, LimitsAre DEF FrontHeld
      <4>2. Keeps(s.packages \cup {Pkg(f)}, opts.packages)
        BY <1>4, <3>2, <4>1, OneFits
      <4>3. QED
        BY <2>2, <4>2
    <3>3. QED
      BY <3>1, <3>2
  <2>4. AtLimit(Cardinality(s.packages), opts.packages) =>
            AtLimit(Cardinality(t.packages), opts.packages)
    BY <2>1, <2>2, FoundFinite, LimitsAre, StaysMet
  <2>5. FrontHeld(t)
    BY <2>2, <2>3, <2>4 DEF FrontHeld
  <2>6. QED
    BY <1>1, <2>2, <2>5 DEF SameDepth
<1>5. QED
  BY <1>1, <1>2, <1>3, <1>4 DEF AddOwner

LEMMA HeldReverse ==
    ASSUME input \in Inputs, NEW s, FrontHeld(s), NEW f \in Fns, NEW t, t => opts.clock
    PROVE  FrontHeld(AddReverse(s, f, t)) /\ SameDepth(s, AddReverse(s, f, t))
<1>1. PICK a : a = AddOwner(s, f)
  OBVIOUS
<1>2. FrontHeld(a) /\ SameDepth(s, a) /\ a.reverse = s.reverse
  BY <1>1, HeldOwner
<1>3. PICK b : b = AddReverse(s, f, t)
  OBVIOUS
<1>4. \/ b = s
      \/ b = Stop(s, "duration_budget") /\ t
      \/ b = Stop(s, "reverse_owner_budget") /\ AtLimit(Cardinality(s.reverse), opts.reverse)
      \/ b = a
      \/ /\ b = [a EXCEPT !.reverse = @ \cup {f}] /\ f \notin s.reverse
         /\ ~AtLimit(Cardinality(s.reverse), opts.reverse)
  BY <1>1, <1>3, Zenon DEF AddReverse
<1>5. CASE b = s
  BY <1>3, <1>5 DEF SameDepth
<1>6. CASE b = Stop(s, "duration_budget") /\ t
  BY <1>3, <1>6, HeldStop DEF FrontStops
<1>7. CASE b = Stop(s, "reverse_owner_budget") /\ AtLimit(Cardinality(s.reverse), opts.reverse)
  BY <1>3, <1>7, HeldStop DEF FrontStops
<1>8. CASE b = a
  BY <1>2, <1>3, <1>8
<1>9. CASE /\ b = [a EXCEPT !.reverse = @ \cup {f}] /\ f \notin s.reverse
           /\ ~AtLimit(Cardinality(s.reverse), opts.reverse)
  <2>1. a \in FoundType
    BY <1>2 DEF FrontHeld
  <2>2. /\ b \in FoundType /\ b.stops = a.stops /\ b.depth = a.depth
        /\ b.reverse = s.reverse \cup {f} /\ b.adjacent = a.adjacent
        /\ b.candidates = a.candidates /\ b.packages = a.packages
    BY <1>2, <1>9, <2>1 DEF FoundType
  <2>3. Keeps(b.reverse, opts.reverse) /\ IsFiniteSet(b.reverse)
    <3>1. IsFiniteSet(s.reverse) /\ opts.reverse \in Nat /\ Keeps(s.reverse, opts.reverse)
      BY FoundFinite, LimitsAre DEF FrontHeld
    <3>2. Keeps(s.reverse \cup {f}, opts.reverse) /\ IsFiniteSet(s.reverse \cup {f})
      BY <1>9, <3>1, OneFits, FS_AddElement
    <3>3. QED
      BY <2>2, <3>2
  <2>4. AtLimit(Cardinality(a.reverse), opts.reverse) =>
            AtLimit(Cardinality(b.reverse), opts.reverse)
    BY <1>2, <1>9
  <2>5. FrontHeld(b)
    BY <1>2, <2>2, <2>3, <2>4 DEF FrontHeld
  <2>6. QED
    BY <1>2, <1>3, <2>2, <2>5 DEF SameDepth
<1>10. QED
  BY <1>4, <1>5, <1>6, <1>7, <1>8, <1>9

LEMMA HeldAdjacent ==
    ASSUME input \in Inputs, NEW s, FrontHeld(s), NEW f \in Fns, NEW t, t => opts.clock
    PROVE  FrontHeld(AddAdjacent(s, f, t)) /\ SameDepth(s, AddAdjacent(s, f, t))
<1>1. PICK a : a = AddOwner(s, f)
  OBVIOUS
<1>2. FrontHeld(a) /\ SameDepth(s, a) /\ a.adjacent = s.adjacent
  BY <1>1, HeldOwner
<1>3. PICK b : b = AddAdjacent(s, f, t)
  OBVIOUS
<1>4. \/ b = s
      \/ b = Stop(s, "duration_budget") /\ t
      \/ b = Stop(s, "adjacent_owner_budget") /\ AtLimit(Cardinality(s.adjacent), opts.adjacent)
      \/ b = a
      \/ /\ b = [a EXCEPT !.adjacent = @ \cup {f}]
         /\ ~AtLimit(Cardinality(s.adjacent), opts.adjacent)
  BY <1>1, <1>3, Zenon DEF AddAdjacent
<1>5. CASE b = s
  BY <1>3, <1>5 DEF SameDepth
<1>6. CASE b = Stop(s, "duration_budget") /\ t
  BY <1>3, <1>6, HeldStop DEF FrontStops
<1>7. CASE b = Stop(s, "adjacent_owner_budget") /\ AtLimit(Cardinality(s.adjacent), opts.adjacent)
  BY <1>3, <1>7, HeldStop DEF FrontStops
<1>8. CASE b = a
  BY <1>2, <1>3, <1>8
<1>9. CASE /\ b = [a EXCEPT !.adjacent = @ \cup {f}]
           /\ ~AtLimit(Cardinality(s.adjacent), opts.adjacent)
  <2>1. a \in FoundType
    BY <1>2 DEF FrontHeld
  <2>2. /\ b \in FoundType /\ b.stops = a.stops /\ b.depth = a.depth
        /\ b.adjacent = s.adjacent \cup {f} /\ b.reverse = a.reverse
        /\ b.candidates = a.candidates /\ b.packages = a.packages
    BY <1>2, <1>9, <2>1 DEF FoundType
  <2>3. Keeps(b.adjacent, opts.adjacent)
    <3>1. IsFiniteSet(s.adjacent) /\ opts.adjacent \in Nat /\ Keeps(s.adjacent, opts.adjacent)
      BY FoundFinite, LimitsAre DEF FrontHeld
    <3>2. Keeps(s.adjacent \cup {f}, opts.adjacent)
      BY <1>9, <3>1, OneFits
    <3>3. QED
      BY <2>2, <3>2
  <2>4. AtLimit(Cardinality(a.adjacent), opts.adjacent) =>
            AtLimit(Cardinality(b.adjacent), opts.adjacent)
    BY <1>2, <1>9
  <2>5. FrontHeld(b)
    BY <1>2, <2>2, <2>3, <2>4 DEF FrontHeld
  <2>6. QED
    BY <1>2, <1>3, <2>2, <2>5 DEF SameDepth
<1>10. QED
  BY <1>4, <1>5, <1>6, <1>7, <1>8, <1>9

LEMMA HeldCandidate ==
    ASSUME input \in Inputs, NEW s, FrontHeld(s), NEW f \in Fns, NEW t, t => opts.clock
    PROVE  FrontHeld(ScanCandidate(s, f, t)) /\ SameDepth(s, ScanCandidate(s, f, t))
<1>1. PICK b : b = ScanCandidate(s, f, t)
  OBVIOUS
<1>2. \/ b = s
      \/ b = Stop(s, "duration_budget") /\ t
      \/ b = Stop(s, "boundary_candidate_budget")
         /\ AtLimit(Cardinality(s.candidates), opts.candidates)
      \/ /\ b = [s EXCEPT !.candidates = @ \cup {f}] /\ f \notin s.candidates
         /\ ~AtLimit(Cardinality(s.candidates), opts.candidates)
  BY <1>1, Zenon DEF ScanCandidate
<1>3. CASE b = s
  BY <1>1, <1>3 DEF SameDepth
<1>4. CASE b = Stop(s, "duration_budget") /\ t
  BY <1>1, <1>4, HeldStop DEF FrontStops
<1>5. CASE b = Stop(s, "boundary_candidate_budget")
           /\ AtLimit(Cardinality(s.candidates), opts.candidates)
  BY <1>1, <1>5, HeldStop DEF FrontStops
<1>6. CASE /\ b = [s EXCEPT !.candidates = @ \cup {f}] /\ f \notin s.candidates
           /\ ~AtLimit(Cardinality(s.candidates), opts.candidates)
  <2>1. s \in FoundType
    BY DEF FrontHeld
  <2>2. /\ b \in FoundType /\ b.stops = s.stops /\ b.depth = s.depth
        /\ b.candidates = s.candidates \cup {f} /\ b.reverse = s.reverse
        /\ b.adjacent = s.adjacent /\ b.packages = s.packages
    BY <1>6, <2>1 DEF FoundType
  <2>3. Keeps(b.candidates, opts.candidates)
    <3>1. /\ IsFiniteSet(s.candidates) /\ opts.candidates \in Nat
          /\ Keeps(s.candidates, opts.candidates)
      BY FoundFinite, LimitsAre DEF FrontHeld
    <3>2. Keeps(s.candidates \cup {f}, opts.candidates)
      BY <1>6, <3>1, OneFits
    <3>3. QED
      BY <2>2, <3>2
  <2>4. FrontHeld(b)
    BY <1>6, <2>2, <2>3 DEF FrontHeld
  <2>5. QED
    BY <1>1, <2>2, <2>4 DEF SameDepth
<1>7. QED
  BY <1>2, <1>3, <1>4, <1>5, <1>6

\* The checks at the top of a loop, whose limit is that of the reverse or the adjacent owners.
LEMMA HeldCheck ==
    ASSUME NEW s, FrontHeld(s), NEW t, t => opts.clock, NEW n, NEW limit, NEW reason,
           \/ /\ reason = "reverse_owner_budget"
              /\ n = Cardinality(s.reverse) /\ limit = opts.reverse
           \/ /\ reason = "adjacent_owner_budget"
              /\ n = Cardinality(s.adjacent) /\ limit = opts.adjacent
    PROVE  /\ FrontHeld(Check(s, t, n, limit, reason))
           /\ SameDepth(s, Check(s, t, n, limit, reason))
<1>1. PICK b : b = Check(s, t, n, limit, reason)
  OBVIOUS
<1>2. \/ b = s
      \/ b = Stop(s, "duration_budget") /\ t
      \/ b = Stop(s, reason) /\ AtLimit(n, limit)
  BY <1>1, Zenon DEF Check
<1>3. CASE b = s
  BY <1>1, <1>3 DEF SameDepth
<1>4. CASE b = Stop(s, "duration_budget") /\ t
  BY <1>1, <1>4, HeldStop DEF FrontStops
<1>5. CASE b = Stop(s, reason) /\ AtLimit(n, limit)
  BY <1>1, <1>5, HeldStop DEF FrontStops
<1>6. QED
  BY <1>2, <1>3, <1>4, <1>5

\* A queue is in the order of the depths, and spans two of them at most.
ByDepth(q, d) ==
    \A i \in 1..Len(q) : d[q[i]] <= d[q[1]] + 1 /\ \A j \in i..Len(q) : d[q[i]] <= d[q[j]]
\* Something next to what has been found has not been.
Further(s) == \E f \in s.owners, g \in Fns \ s.owners : g \in AdjacentIn(graph, f)

\* What holds of the limits in each phase of the search.  A depth that has ended the search
\* is that of all that is still queued, so that what was beyond it then stays so.
FrontLimits ==
    /\ phase \in {"callgraph", "reverse"} => found = Nothing
    /\ phase \in {"frontier", "callers", "adjacent"} => FrontHeld(found)
    /\ phase \in {"frontier", "callers"} =>
           "depth_budget" \notin found.stops /\ \A f \in Fns : found.depth[f] = 0
    /\ phase = "adjacent" =>
           /\ "depth_budget" \in found.stops => Further(found)
           /\ ByDepth(queue, found.depth)
           /\ "depth_budget" \in found.stops /\ queue # <<>> =>
                  found.depth[Head(queue)] >= opts.reach
StopsInv == Limits /\ FrontLimits /\ (Mode # "bridge" => DOMAIN cover = {})

LEMMA SameFurther ==
    ASSUME UNCHANGED <<input, graph>>
    PROVE  /\ \A s : Further(s)' <=> Further(s)
           /\ \A s : FrontHeld(s)' <=> FrontHeld(s)
<1>1. /\ Fns' = Fns /\ opts' = opts /\ Pkgs' = Pkgs /\ FoundType' = FoundType
      /\ \A f : AdjacentIn(graph, f)' = AdjacentIn(graph, f)
  BY SameProgram, SameTypes DEF AdjacentIn, StaticCallees, CallersIn, Calls, Instrs
<1>2. \A s : Further(s)' <=> Further(s)
  BY <1>1 DEF Further
<1>3. \A s : FrontHeld(s)' <=> FrontHeld(s)
  BY <1>1 DEF FrontHeld
<1>4. QED
  BY <1>2, <1>3

\* What the frontier holds keeps the limits.
LEMMA FrontKeeps ==
    ASSUME UNCHANGED <<input, graph>>, Mode # "bridge", FrontHeld(found'),
           "depth_budget" \in found'.stops => Further(found')
    PROVE  /\ Limits' /\ FrontHeld(found)'
           /\ "depth_budget" \in found'.stops => Further(found)'
<1>1. opts' = opts /\ Mode' = Mode
  BY DEF opts, Mode
<1>2. FrontHeld(found)' /\ ("depth_budget" \in found'.stops => Further(found)')
  <2>1. (FrontHeld(found') <=> FrontHeld(found)') /\ (Further(found') <=> Further(found)')
    <3>1. PICK t : t = found'
      OBVIOUS
    <3>2. Fns' = Fns /\ FoundType' = FoundType
          /\ \A f : AdjacentIn(graph, f)' = AdjacentIn(graph, f)
      BY SameProgram, SameTypes DEF AdjacentIn, StaticCallees, CallersIn, Calls, Instrs
    <3>3. QED
      BY <1>1, <3>2 DEF FrontHeld, Further
  <2>2. QED
    BY <2>1
<1>3. \A reason \in found'.stops : Met(reason)'
  <2>1. SUFFICES ASSUME NEW reason \in found'.stops
                 PROVE  Met(reason)'
    OBVIOUS
  <2>2. CASE reason = "depth_budget"
    BY <1>2, <2>2 DEF Further, Met
  <2>3. CASE reason # "depth_budget"
    <3>1. reason \in {"duration_budget", "reverse_owner_budget", "adjacent_owner_budget",
                      "boundary_candidate_budget", "package_budget"}
      BY <2>3 DEF FrontHeld, FrontStops
    <3>2. QED
      BY <1>1, <3>1 DEF FrontHeld, Met
  <2>4. QED
    BY <2>2, <2>3
<1>4. QED
  BY <1>1, <1>2, <1>3 DEF Limits, FrontHeld

LEMMA ToAdjacentLimits ==
    ASSUME input \in Inputs, GraphOK, UNCHANGED <<input, graph>>, Mode # "bridge",
           NEW s, FrontHeld(s), "depth_budget" \notin s.stops, \A f \in Fns : s.depth[f] = 0,
           ToAdjacent(s)
    PROVE  Limits' /\ FrontLimits'
<1>1. /\ \/ found' = s
         \/ /\ found' = Stop(s, "depth_budget") /\ queue' = <<>>
            /\ (UNION {AdjacentIn(graph, f) : f \in s.owners}) \ s.owners # {}
      /\ queue' = Ascending(s.owners) \/ queue' = <<>>
      /\ phase' = "adjacent"
  BY DEF ToAdjacent
<1>2. s \in FoundType /\ s.owners \subseteq Fns
  BY DEF FrontHeld, FoundType
<1>3. \/ found' = s
      \/ queue' = <<>> /\ found'.stops = s.stops \cup {"depth_budget"} /\ Further(found')
         /\ FrontHeld(found') /\ found'.depth = s.depth
  <2>1. CASE found' = s
    BY <2>1
  <2>2. CASE /\ found' = Stop(s, "depth_budget") /\ queue' = <<>>
             /\ (UNION {AdjacentIn(graph, f) : f \in s.owners}) \ s.owners # {}
    <3>1. PICK f \in s.owners : \E g \in AdjacentIn(graph, f) : g \notin s.owners
      BY <2>2
    <3>2. AdjacentIn(graph, f) \subseteq Fns
      BY <1>2, <3>1, NeighboursIn
    <3>3. Further(s)
      BY <3>1, <3>2 DEF Further
    <3>4. PICK t : t = Stop(s, "depth_budget")
      OBVIOUS
    <3>5. /\ FrontHeld(t) /\ t.owners = s.owners /\ t.depth = s.depth
          /\ t.stops = s.stops \cup {"depth_budget"}
      BY <3>4, HeldDepth
    <3>6. Further(t)
      BY <3>3, <3>5 DEF Further
    <3>7. QED
      BY <2>2, <3>4, <3>5, <3>6
  <2>3. QED
    BY <1>1, <2>1, <2>2
<1>4. /\ FrontHeld(found') /\ found'.depth = s.depth
      /\ "depth_budget" \in found'.stops => Further(found') /\ queue' = <<>>
  BY <1>3
<1>5. Limits' /\ FrontHeld(found)' /\ ("depth_budget" \in found'.stops => Further(found)')
  BY <1>4, FrontKeeps
<1>6. ByDepth(queue', found'.depth)
  <2>1. queue' \in Seq(Fns)
    <3>1. <<>> \in Seq(Fns) /\ Ascending(s.owners) \in Seq(Fns)
      BY <1>2, FnsListed
    <3>2. QED
      BY <1>1, <3>1
  <2>2. \A i \in 1..Len(queue') : found'.depth[queue'[i]] = 0
    BY <1>4, <2>1
  <2>3. \A i \in 1..Len(queue') : 1 \in 1..Len(queue')
    BY <2>1
  <2>4. Len(queue') \in Nat
    BY <2>1
  <2>5. QED
    BY <2>2, <2>3, <2>4 DEF ByDepth
<1>7. QED
  BY <1>1, <1>4, <1>5, <1>6 DEF FrontLimits

LEMMA FrontierRootLimits ==
    ASSUME TypeInv, LateInv, Mode # "bridge", StopsInv, FrontierRoot
    PROVE  Limits' /\ FrontLimits'
<1> DEFINE root == RootSeq[at]
<1>1. /\ UNCHANGED <<input, graph>> /\ phase = "frontier" /\ at <= Len(RootSeq)
      /\ input \in Inputs /\ GraphOK
  BY DEF FrontierRoot, FrontierUnchanged, TypeInv
<1>2. PICK t \in Ticks(3, opts.clock) :
         \/ t[2] /\ ToAdjacent(Stop(AddReverse(found, root, t[1]), "duration_budget"))
         \/ ToAdjacent(AddReverse(found, root, t[1]))
         \/ /\ found' = ScanCandidate(AddReverse(found, root, t[1]), root, t[3])
            /\ UNCHANGED <<phase, queue>>
  BY DEF FrontierRoot
<1>3. /\ t[1] => opts.clock
      /\ t[2] => opts.clock
      /\ t[3] => opts.clock
  BY <1>1, TicksLate
<1>4. root \in Fns
  <2>1. at \in Nat \ {0}
    BY <1>1 DEF TypeInv, PlaceOK
  <2>2. QED
    BY <1>1, <2>1, RootsListed
<1> HIDE DEF root
<1>5. FrontHeld(found) /\ "depth_budget" \notin found.stops /\ \A f \in Fns : found.depth[f] = 0
  BY <1>1 DEF StopsInv, FrontLimits
<1>6. PICK s : s = AddReverse(found, root, t[1])
  OBVIOUS
<1>7. FrontHeld(s) /\ "depth_budget" \notin s.stops /\ \A f \in Fns : s.depth[f] = 0
  BY <1>1, <1>3, <1>4, <1>5, <1>6, HeldReverse DEF SameDepth
<1>8. CASE t[2] /\ ToAdjacent(Stop(s, "duration_budget"))
  <2>1. PICK u : u = Stop(s, "duration_budget")
    OBVIOUS
  <2>2. FrontHeld(u) /\ "depth_budget" \notin u.stops /\ \A f \in Fns : u.depth[f] = 0
    BY <1>3, <1>7, <1>8, <2>1, HeldStop DEF SameDepth, FrontStops
  <2>3. QED
    BY <1>1, <1>8, <2>1, <2>2, ToAdjacentLimits
<1>9. CASE ToAdjacent(s)
  BY <1>1, <1>7, <1>9, ToAdjacentLimits
<1>10. CASE found' = ScanCandidate(s, root, t[3]) /\ UNCHANGED <<phase, queue>>
  <2>1. /\ FrontHeld(found') /\ "depth_budget" \notin found'.stops
        /\ \A f \in Fns : found'.depth[f] = 0
    BY <1>1, <1>3, <1>4, <1>7, <1>10, HeldCandidate DEF SameDepth
  <2>2. Limits' /\ FrontHeld(found)' /\ Fns' = Fns
    BY <1>1, <2>1, FrontKeeps, SameProgram
  <2>3. QED
    BY <1>1, <1>10, <2>1, <2>2 DEF FrontLimits
<1>11. QED
  BY <1>2, <1>6, <1>8, <1>9, <1>10

LEMMA FrontierCallerLimits ==
    ASSUME TypeInv, LateInv, Mode # "bridge", StopsInv, FrontierCaller
    PROVE  Limits' /\ FrontLimits'
<1> DEFINE order == Ascending(CallersIn(graph, Head(queue)))
           caller == order[at]
<1>1. /\ UNCHANGED <<input, graph>> /\ phase = "callers" /\ queue # <<>>
      /\ input \in Inputs /\ GraphOK
  BY DEF FrontierCaller, FrontierUnchanged, TypeInv
<1>2. PICK t \in Ticks(3, opts.clock) :
         \/ ToAdjacent(Check(found, t[1], Cardinality(found.reverse), opts.reverse,
                             "reverse_owner_budget"))
         \/ UNCHANGED <<phase, found>>
         \/ /\ order # <<>> /\ UNCHANGED phase
            /\ found' = ScanCandidate(AddReverse(found, caller, t[2]), caller, t[3])
  BY DEF FrontierCaller
<1>3. /\ t[1] => opts.clock
      /\ t[2] => opts.clock
      /\ t[3] => opts.clock
  BY <1>1, TicksLate
<1>4. FrontHeld(found) /\ "depth_budget" \notin found.stops /\ \A f \in Fns : found.depth[f] = 0
  BY <1>1 DEF StopsInv, FrontLimits
<1>5. order # <<>> => caller \in Fns
  <2>1. /\ at \in Nat \ {0}
        /\ at # 1 => at <= Cardinality(CallersIn(graph, Head(queue)))
    BY <1>1 DEF TypeInv, PlaceOK
  <2>2. /\ order \in Seq(Fns) /\ Len(order) = Cardinality(CallersIn(graph, Head(queue)))
        /\ Len(order) \in Nat
    BY <1>1, NeighboursIn, FnsListed
  <2>3. order # <<>> => Len(order) # 0
    BY <2>2
  <2>4. order # <<>> => at \in 1..Len(order)
    BY <2>1, <2>2, <2>3
  <2>5. QED
    BY <2>2, <2>4
<1> HIDE DEF order, caller
<1>6. CASE ToAdjacent(Check(found, t[1], Cardinality(found.reverse), opts.reverse,
                            "reverse_owner_budget"))
  <2>1. PICK s : s = Check(found, t[1], Cardinality(found.reverse), opts.reverse,
                           "reverse_owner_budget")
    OBVIOUS
  <2>2. FrontHeld(s) /\ "depth_budget" \notin s.stops /\ \A f \in Fns : s.depth[f] = 0
    BY <1>3, <1>4, <2>1, HeldCheck DEF SameDepth
  <2>3. QED
    BY <1>1, <1>6, <2>1, <2>2, ToAdjacentLimits
<1>7. CASE /\ UNCHANGED phase
           /\ \/ found' = found
              \/ /\ order # <<>>
                 /\ found' = ScanCandidate(AddReverse(found, caller, t[2]), caller, t[3])
  <2>1. /\ FrontHeld(found') /\ "depth_budget" \notin found'.stops
        /\ \A f \in Fns : found'.depth[f] = 0
    <3>1. CASE found' = found
      BY <1>4, <3>1
    <3>2. CASE /\ order # <<>>
               /\ found' = ScanCandidate(AddReverse(found, caller, t[2]), caller, t[3])
      <4>1. PICK s : s = AddReverse(found, caller, t[2])
        OBVIOUS
      <4>2. FrontHeld(s) /\ "depth_budget" \notin s.stops /\ \A f \in Fns : s.depth[f] = 0
        BY <1>1, <1>3, <1>4, <1>5, <3>2, <4>1, HeldReverse DEF SameDepth
      <4>3. QED
        BY <1>1, <1>3, <1>5, <3>2, <4>1, <4>2, HeldCandidate DEF SameDepth
    <3>3. QED
      BY <1>7, <3>1, <3>2
  <2>2. Limits' /\ FrontHeld(found)' /\ Fns' = Fns
    BY <1>1, <2>1, FrontKeeps, SameProgram
  <2>3. QED
    BY <1>1, <1>7, <2>1, <2>2 DEF FrontLimits
<1>8. QED
  BY <1>2, <1>6, <1>7

\* The queue after its head, and after one more that lies a step deeper than the head.
LEMMA TailByDepth ==
    ASSUME NEW S, NEW q \in Seq(S), q # <<>>, NEW d \in [S -> Nat], ByDepth(q, d)
    PROVE  ByDepth(Tail(q), d) /\ \A i \in 1..Len(Tail(q)) : d[q[1]] <= d[Tail(q)[i]]
<1>1. /\ Len(Tail(q)) = Len(q) - 1 /\ Len(q) \in Nat /\ Len(q) # 0
      /\ \A i \in 1..Len(Tail(q)) : Tail(q)[i] = q[i + 1]
  OBVIOUS
<1>2. PICK r : r = Tail(q)
  OBVIOUS
<1>3. ASSUME NEW i \in 1..Len(r)
      PROVE  /\ d[q[1]] <= d[r[i]] /\ d[r[i]] <= d[r[1]] + 1
             /\ \A j \in i..Len(r) : d[r[i]] <= d[r[j]]
  <2>1. /\ 1 \in 1..Len(q) /\ 2 \in 1..Len(q) /\ i + 1 \in 1..Len(q) /\ i + 1 \in 1..Len(q)
        /\ 1 \in 1..Len(r) /\ r[1] = q[2] /\ r[i] = q[i + 1] /\ i + 1 \in 2..Len(q)
    BY <1>1, <1>2
  <2>2. d[q[1]] \in Nat /\ d[q[2]] \in Nat /\ d[q[i + 1]] \in Nat
    BY <2>1
  <2>3. d[q[1]] <= d[q[2]] /\ d[q[i + 1]] <= d[q[1]] + 1 /\ d[q[1]] <= d[q[i + 1]]
    BY <2>1 DEF ByDepth
  <2>4. ASSUME NEW j \in i..Len(r)
        PROVE  d[r[i]] <= d[r[j]]
    <3>1. j + 1 \in (i + 1)..Len(q) /\ j \in 1..Len(r)
      BY <1>1, <1>2
    <3>2. r[j] = q[j + 1]
      BY <1>1, <1>2, <3>1
    <3>3. d[q[i + 1]] <= d[q[j + 1]]
      BY <2>1, <3>1 DEF ByDepth
    <3>4. QED
      BY <2>1, <3>2, <3>3
  <2>5. QED
    BY <2>1, <2>2, <2>3, <2>4
<1>4. QED
  BY <1>2, <1>3 DEF ByDepth

LEMMA MoreByDepth ==
    ASSUME NEW S, NEW q \in Seq(S), NEW d \in [S -> Nat], ByDepth(q, d), NEW f \in S,
           \A i \in 1..Len(q) : d[q[i]] <= d[f] /\ d[f] <= d[q[1]] + 1
    PROVE  ByDepth(Append(q, f), d)
<1>1. PICK r : r = Append(q, f)
  OBVIOUS
<1>2. /\ Len(r) = Len(q) + 1 /\ r[Len(q) + 1] = f /\ Len(q) \in Nat
      /\ \A i \in 1..Len(q) : r[i] = q[i]
  BY <1>1
<1>3. \A i \in 1..Len(r) : i \in 1..Len(q) \/ i = Len(q) + 1
  BY <1>2
<1>4. \A i \in 1..Len(q) : d[q[i]] \in Nat
  OBVIOUS
<1>5. d[f] \in Nat
  OBVIOUS
<1>6. ASSUME NEW i \in 1..Len(r)
      PROVE  d[r[i]] <= d[r[1]] + 1 /\ \A j \in i..Len(r) : d[r[i]] <= d[r[j]]
  <2>1. CASE i \in 1..Len(q)
    <3>1. 1 \in 1..Len(q) /\ r[1] = q[1] /\ r[i] = q[i]
      BY <1>2, <2>1
    <3>2. ASSUME NEW j \in i..Len(r)
          PROVE  d[r[i]] <= d[r[j]]
      <4>1. CASE j \in 1..Len(q)
        <5>1. j \in i..Len(q)
          BY <2>1, <4>1
        <5>2. QED
          BY <1>2, <2>1, <4>1, <5>1 DEF ByDepth
      <4>2. CASE j = Len(q) + 1
        BY <1>2, <2>1, <3>1, <4>2
      <4>3. j \in 1..Len(r)
        BY <2>1, <1>2
      <4>4. QED
        BY <1>3, <4>1, <4>2, <4>3
    <3>3. d[q[i]] <= d[q[1]] + 1
      BY <2>1 DEF ByDepth
    <3>4. QED
      BY <3>1, <3>2, <3>3
  <2>2. CASE i = Len(q) + 1
    <3>1. \A j \in i..Len(r) : j = i
      BY <1>2, <2>2
    <3>2. r[i] = f /\ d[r[i]] <= d[r[i]]
      BY <1>2, <1>5, <2>2
    <3>3. d[f] <= d[r[1]] + 1
      <4>1. CASE Len(q) = 0
        BY <1>2, <1>5, <4>1
      <4>2. CASE Len(q) # 0
        <5>1. 1 \in 1..Len(q)
          BY <1>2, <4>2
        <5>2. QED
          BY <1>2, <5>1
      <4>3. QED
        BY <4>1, <4>2
    <3>4. QED
      BY <3>1, <3>2, <3>3
  <2>3. QED
    BY <1>3, <2>1, <2>2
<1>7. QED
  BY <1>1, <1>6 DEF ByDepth

\* The depths of what is queued are all that matters.
LEMMA SameByDepth ==
    ASSUME NEW S, NEW q \in Seq(S), NEW d, NEW e, \A f \in S : d[f] = e[f], ByDepth(q, d)
    PROVE  ByDepth(q, e)
<1>1. \A i \in 1..Len(q) : d[q[i]] = e[q[i]]
  OBVIOUS
<1>2. Len(q) \in Nat
  OBVIOUS
<1>3. \A i \in 1..Len(q) : 1 \in 1..Len(q) /\ \A j \in i..Len(q) : j \in 1..Len(q)
  BY <1>2
<1>4. QED
  BY <1>1, <1>3 DEF ByDepth

LEMMA AdjacentOwnerLimits ==
    ASSUME TypeInv, LateInv, Mode # "bridge", StopsInv, AdjacentOwner
    PROVE  Limits' /\ FrontLimits'
<1> DEFINE owner == Head(queue)
           depth == found.depth[owner]
           order == Ascending(AdjacentIn(graph, owner))
           next == order[at]
           rest == IF at < Len(order) THEN queue ELSE Tail(queue)
           Deeper(s, new) == [s EXCEPT !.depth = [f \in Fns |-> IF f \in new THEN depth + 1
                                                                ELSE found.depth[f]]]
<1>1. /\ UNCHANGED <<input, graph, phase>> /\ phase = "adjacent" /\ queue # <<>>
      /\ input \in Inputs /\ GraphOK
  BY DEF AdjacentOwner, FrontierUnchanged, TypeInv
<1>2. PICK t \in Ticks(3, opts.clock) :
         \/ /\ found' = Check(found, t[1], Cardinality(found.adjacent), opts.adjacent,
                              "adjacent_owner_budget")
            /\ queue' = <<>>
         \/ /\ queue' = Tail(queue)
            /\ \/ found' = found
               \/ /\ found' = Stop(found, "depth_budget")
                  /\ depth >= opts.reach /\ ~(ToSet(order) \subseteq found.owners)
         \/ /\ ~DropAdjacent(owner, depth)
            /\ \E added, new :
                  /\ added = AddAdjacent(found, next, t[2])
                  /\ new = added.owners \ found.owners
                  /\ \/ found' = Deeper(ScanCandidate(added, next, t[3]), new)
                     \/ found' = Deeper(added, new)
                  /\ queue' = IF new = {} THEN rest ELSE Append(rest, next)
  <2>1. PICK t \in Ticks(3, opts.clock) :
           /\ late' = t[3]
           /\ IF ~Checked(t[1], Cardinality(found.adjacent), opts.adjacent)
              THEN /\ found' = Check(found, t[1], Cardinality(found.adjacent), opts.adjacent,
                                     "adjacent_owner_budget")
                   /\ queue' = <<>> /\ UNCHANGED <<at, visited>>
              ELSE /\ visited' = visited \cup {owner}
                   /\ IF DropAdjacent(owner, depth)
                      THEN /\ queue' = Tail(queue) /\ UNCHANGED at
                           /\ found' = IF owner \notin visited /\ depth >= opts.reach
                                          /\ ~(ToSet(order) \subseteq found.owners)
                                       THEN Stop(found, "depth_budget") ELSE found
                      ELSE LET added == AddAdjacent(found, next, t[2])
                               new == added.owners \ found.owners
                           IN  /\ found' = Deeper(IF next \in added.owners
                                                  THEN ScanCandidate(added, next, t[3])
                                                  ELSE added, new)
                               /\ queue' = IF new = {} THEN rest ELSE Append(rest, next)
                               /\ at' = IF at < Len(order) THEN at + 1 ELSE 1
    BY DEF AdjacentOwner
  <2> HIDE DEF owner, depth, order, next, rest, Deeper
  <2>2. QED
    BY <2>1
<1>3. /\ t[1] => opts.clock
      /\ t[2] => opts.clock
      /\ t[3] => opts.clock
  BY <1>1, TicksLate
<1>4. /\ FrontHeld(found) /\ found \in FoundType
      /\ "depth_budget" \in found.stops => Further(found)
      /\ ByDepth(queue, found.depth)
      /\ "depth_budget" \in found.stops => depth >= opts.reach
  BY <1>1 DEF StopsInv, FrontLimits, FrontHeld
<1>5. /\ at \in Nat \ {0} /\ queue \in Seq(found.owners)
      /\ at # 1 => at <= Cardinality(AdjacentIn(graph, owner))
  BY <1>1 DEF TypeInv, PlaceOK
<1>6. /\ owner \in found.owners /\ owner \in Fns /\ depth \in Nat /\ found.owners \subseteq Fns
      /\ found.depth \in [Fns -> Nat] /\ owner = queue[1] /\ queue \in Seq(Fns)
  <2>1. owner \in found.owners /\ owner = queue[1] /\ found.owners \subseteq Fns
    BY <1>1, <1>4, <1>5 DEF FoundType
  <2>2. queue \in Seq(Fns)
    BY <1>5, <2>1
  <2>3. QED
    BY <1>4, <2>1, <2>2 DEF FoundType
<1>7. /\ order \in Seq(Fns) /\ Len(order) = Cardinality(AdjacentIn(graph, owner))
      /\ Len(order) \in Nat /\ ToSet(order) = AdjacentIn(graph, owner)
      /\ AdjacentIn(graph, owner) \subseteq Fns /\ IsFiniteSet(AdjacentIn(graph, owner))
  BY <1>1, <1>6, NeighboursIn, FnsListed
<1>8. opts.reach \in Nat /\ opts' = opts /\ Fns' = Fns
  BY <1>1, LimitsAre, SameProgram
<1>9. /\ ByDepth(Tail(queue), found.depth) /\ Tail(queue) \in Seq(Fns)
      /\ \A i \in 1..Len(Tail(queue)) : depth <= found.depth[Tail(queue)[i]]
  <2>1. Tail(queue) \in Seq(Fns)
    BY <1>1, <1>6
  <2>2. QED
    BY <1>1, <1>4, <1>6, <2>1, TailByDepth
<1> HIDE DEF owner, depth, order, next, rest, Deeper
<1>10. ASSUME FrontHeld(found'), "depth_budget" \in found'.stops => Further(found'),
              ByDepth(queue', found'.depth),
              "depth_budget" \in found'.stops /\ queue' # <<>> =>
                  found'.depth[Head(queue')] >= opts.reach
       PROVE  Limits' /\ FrontLimits'
  <2>1. Limits' /\ FrontHeld(found)' /\ ("depth_budget" \in found'.stops => Further(found)')
    BY <1>1, <1>10, FrontKeeps
  <2>2. QED
    BY <1>1, <1>8, <1>10, <2>1 DEF FrontLimits
<1>11. CASE /\ found' = Check(found, t[1], Cardinality(found.adjacent), opts.adjacent,
                              "adjacent_owner_budget")
            /\ queue' = <<>>
  <2>1. FrontHeld(found') /\ SameDepth(found, found')
    BY <1>3, <1>4, <1>11, HeldCheck
  <2>2. found'.owners = found.owners
    BY <1>4, <1>11 DEF Check, Stop, FoundType
  <2>3. "depth_budget" \in found'.stops => Further(found')
    BY <1>4, <2>1, <2>2 DEF SameDepth, Further
  <2>4. ByDepth(queue', found'.depth)
    BY <1>11 DEF ByDepth
  <2>5. QED
    BY <1>10, <1>11, <2>1, <2>3, <2>4
<1>12. CASE /\ queue' = Tail(queue)
            /\ \/ found' = found
               \/ /\ found' = Stop(found, "depth_budget")
                  /\ depth >= opts.reach /\ ~(ToSet(order) \subseteq found.owners)
  <2>1. /\ FrontHeld(found') /\ found'.owners = found.owners /\ found'.depth = found.depth
        /\ "depth_budget" \in found'.stops => Further(found) /\ depth >= opts.reach
    <3>1. CASE found' = found
      BY <1>4, <3>1
    <3>2. CASE /\ found' = Stop(found, "depth_budget")
               /\ depth >= opts.reach /\ ~(ToSet(order) \subseteq found.owners)
      <4>1. Further(found)
        BY <1>6, <1>7, <3>2 DEF Further
      <4>2. QED
        BY <1>4, <3>2, <4>1, HeldDepth
    <3>3. QED
      BY <1>12, <3>1, <3>2
  <2>2. "depth_budget" \in found'.stops => Further(found')
    BY <2>1 DEF Further
  <2>3. ByDepth(queue', found'.depth)
    BY <1>9, <1>12, <2>1
  <2>4. "depth_budget" \in found'.stops /\ queue' # <<>> =>
            found'.depth[Head(queue')] >= opts.reach
    <3>1. SUFFICES ASSUME "depth_budget" \in found'.stops, queue' # <<>>
                   PROVE  found'.depth[Head(queue')] >= opts.reach
      OBVIOUS
    <3>2. 1 \in 1..Len(Tail(queue)) /\ Head(queue') = Tail(queue)[1] /\ Tail(queue)[1] \in Fns
      BY <1>9, <1>12, <3>1
    <3>3. depth <= found.depth[Head(queue')] /\ found.depth[Head(queue')] \in Nat
      BY <1>6, <1>9, <3>2
    <3>4. QED
      BY <1>6, <1>8, <2>1, <3>1, <3>3
  <2>5. QED
    BY <1>10, <2>1, <2>2, <2>3, <2>4
<1>13. CASE /\ ~DropAdjacent(owner, depth)
            /\ \E added, new :
                  /\ added = AddAdjacent(found, next, t[2])
                  /\ new = added.owners \ found.owners
                  /\ \/ found' = Deeper(ScanCandidate(added, next, t[3]), new)
                     \/ found' = Deeper(added, new)
                  /\ queue' = IF new = {} THEN rest ELSE Append(rest, next)
  <2>1. PICK added, new :
           /\ added = AddAdjacent(found, next, t[2])
           /\ new = added.owners \ found.owners
           /\ \/ found' = Deeper(ScanCandidate(added, next, t[3]), new)
              \/ found' = Deeper(added, new)
           /\ queue' = IF new = {} THEN rest ELSE Append(rest, next)
    BY <1>13
  <2>2. "depth_budget" \notin found.stops /\ AdjacentIn(graph, owner) # {}
    BY <1>4, <1>6, <1>8, <1>13 DEF DropAdjacent
  <2>3. next \in Fns
    <3>1. Cardinality(AdjacentIn(graph, owner)) # 0
      BY <1>7, <2>2, FS_EmptySet
    <3>2. at \in 1..Len(order)
      BY <1>5, <1>7, <3>1
    <3>3. QED
      BY <1>7, <3>2 DEF next
  <2>4. /\ FrontHeld(added) /\ SameDepth(found, added)
        /\ added.owners \subseteq found.owners \cup {next}
    BY <1>1, <1>3, <1>4, <2>1, <2>3, HeldAdjacent, AddAdjacentIs
  <2>5. PICK s : FrontHeld(s) /\ SameDepth(found, s) /\ found' = Deeper(s, new)
    <3>1. /\ FrontHeld(ScanCandidate(added, next, t[3]))
          /\ SameDepth(added, ScanCandidate(added, next, t[3]))
      BY <1>1, <1>3, <2>3, <2>4, HeldCandidate
    <3>2. SameDepth(found, ScanCandidate(added, next, t[3]))
      BY <2>4, <3>1 DEF SameDepth
    <3>3. QED
      BY <2>1, <2>4, <3>1, <3>2
  <2>6. PICK d \in [Fns -> Nat] :
           /\ \A f \in Fns : d[f] = IF f \in new THEN depth + 1 ELSE found.depth[f]
           /\ FrontHeld(found') /\ found'.depth = d /\ found'.stops = s.stops
    <3>1. PICK d \in [Fns -> Nat] :
             d = [f \in Fns |-> IF f \in new THEN depth + 1 ELSE found.depth[f]]
      <4>1. depth + 1 \in Nat /\ \A f \in Fns : found.depth[f] \in Nat
        BY <1>6
      <4>2. [f \in Fns |-> IF f \in new THEN depth + 1 ELSE found.depth[f]] \in [Fns -> Nat]
        BY <4>1
      <4>3. QED
        BY <4>2
    <3>2. PICK u : u = [s EXCEPT !.depth = d]
      OBVIOUS
    <3>3. found' = u
      BY <2>5, <3>1, <3>2 DEF Deeper
    <3>4. /\ u \in FoundType /\ u.stops = s.stops /\ u.depth = d
          /\ u.reverse = s.reverse /\ u.adjacent = s.adjacent
          /\ u.candidates = s.candidates /\ u.packages = s.packages
      <4>1. s \in FoundType
        BY <2>5 DEF FrontHeld
      <4>2. QED
        BY <3>2, <4>1 DEF FoundType
    <3>5. FrontHeld(u)
      BY <2>5, <3>4 DEF FrontHeld
    <3>6. QED
      BY <3>1, <3>3, <3>4, <3>5
  <2>7. "depth_budget" \notin found'.stops
    BY <2>2, <2>5, <2>6 DEF SameDepth
  <2>8. /\ rest \in Seq(found.owners) /\ rest \in Seq(Fns) /\ ByDepth(rest, found.depth)
        /\ \A i \in 1..Len(rest) : /\ depth <= found.depth[rest[i]]
                                   /\ found.depth[rest[i]] <= depth + 1
    <3>1. \A i \in 1..Len(queue) : /\ depth <= found.depth[queue[i]]
                                   /\ found.depth[queue[i]] <= depth + 1
      <4>1. \A i \in 1..Len(queue) : 1 \in 1..Len(queue) /\ i \in 1..Len(queue)
        BY <1>6
      <4>2. QED
        BY <1>4, <1>6, <4>1 DEF ByDepth, depth
    <3>2. CASE rest = queue
      BY <1>4, <1>5, <1>6, <3>1, <3>2
    <3>3. CASE rest = Tail(queue)
      <4>1. \A i \in 1..Len(Tail(queue)) : /\ Tail(queue)[i] = queue[i + 1]
                                           /\ i + 1 \in 1..Len(queue)
        BY <1>1, <1>6
      <4>2. Tail(queue) \in Seq(found.owners)
        BY <1>1, <1>5
      <4>3. QED
        BY <1>9, <3>1, <3>3, <4>1, <4>2
    <3>4. QED
      BY <3>2, <3>3 DEF rest
  <2>9. ByDepth(rest, d) /\ \A i \in 1..Len(rest) : d[rest[i]] = found.depth[rest[i]]
    <3>1. \A f \in found.owners : d[f] = found.depth[f]
      BY <1>6, <2>1, <2>6
    <3>2. ByDepth(rest, d)
      <4>1. PICK S, q, b : S = found.owners /\ q = rest /\ b = found.depth
        OBVIOUS
      <4>2. q \in Seq(S) /\ ByDepth(q, b) /\ \A f \in S : b[f] = d[f]
        BY <2>8, <3>1, <4>1
      <4>3. ByDepth(q, d)
        BY <4>2, SameByDepth
      <4>4. QED
        BY <4>1, <4>3
    <3>3. QED
      BY <2>8, <3>1, <3>2
  <2>10. CASE new = {}
    BY <1>10, <2>1, <2>6, <2>7, <2>9, <2>10
  <2>11. CASE new # {}
    <3>1. next \in new
      BY <2>1, <2>4, <2>11
    <3>2. d[next] = depth + 1
      BY <2>3, <2>6, <3>1
    <3>3. \A i \in 1..Len(rest) : d[rest[i]] <= d[next] /\ d[next] <= d[rest[1]] + 1
      <4>1. \A i \in 1..Len(rest) : 1 \in 1..Len(rest)
        BY <2>8
      <4>2. \A i \in 1..Len(rest) : found.depth[rest[i]] \in Nat
        BY <1>6, <2>8
      <4>3. depth + 1 \in Nat
        BY <1>6
      <4>4. SUFFICES ASSUME NEW i \in 1..Len(rest)
                     PROVE  d[rest[i]] <= d[next] /\ d[next] <= d[rest[1]] + 1
        OBVIOUS
      <4>5. PICK a, b : a = found.depth[rest[i]] /\ b = found.depth[rest[1]]
        OBVIOUS
      <4>6. a \in Nat /\ b \in Nat /\ a <= depth + 1 /\ depth <= b
        BY <2>8, <4>1, <4>2, <4>5
      <4>7. d[rest[i]] = a /\ d[rest[1]] = b
        BY <2>9, <4>1, <4>5
      <4>8. QED
        BY <1>6, <3>2, <4>6, <4>7
    <3>4. ByDepth(Append(rest, next), d)
      BY <2>3, <2>8, <2>9, <3>3, MoreByDepth
    <3>5. QED
      BY <1>10, <2>1, <2>6, <2>7, <2>11, <3>4
  <2>12. QED
    BY <2>10, <2>11
<1>14. QED
  BY <1>2, <1>11, <1>12, <1>13

LEMMA FrontierLimits ==
    ASSUME TypeInv, LateInv, ModeInv, StopsInv, FrontierStep
    PROVE  StopsInv'
<1>1. /\ phase \in {"frontier", "callers", "adjacent"} /\ Mode # "bridge"
      /\ UNCHANGED <<input, graph, cover>> /\ input \in Inputs /\ GraphOK /\ Mode' = Mode
  <2>1. phase \in {"frontier", "callers", "adjacent"}
    BY FrontierStepsLate
  <2>2. UNCHANGED <<input, graph, cover>>
    BY Zenon DEF FrontierStep, FrontierRoot, FrontierRoots, FrontierCaller, FrontierReversed,
       AdjacentOwner, AssembleFrontier, FrontierUnchanged
  <2>3. QED
    BY <2>1, <2>2 DEF ModeInv, TypeInv, Mode
<1>2. Limits' /\ FrontLimits'
  <2>1. CASE FrontierRoot
    BY <1>1, <2>1, FrontierRootLimits
  <2>2. CASE FrontierRoots
    <3>1. phase = "frontier" /\ phase' = "callers" /\ UNCHANGED found
      BY <2>2 DEF FrontierRoots, FrontierUnchanged
    <3>2. /\ FrontHeld(found') /\ "depth_budget" \notin found'.stops
          /\ \A f \in Fns : found'.depth[f] = 0
      BY <3>1 DEF StopsInv, FrontLimits
    <3>3. Limits' /\ FrontHeld(found)' /\ Fns' = Fns
      BY <1>1, <3>2, FrontKeeps, SameProgram
    <3>4. QED
      BY <3>1, <3>2, <3>3 DEF FrontLimits
  <2>3. CASE FrontierCaller
    BY <1>1, <2>3, FrontierCallerLimits
  <2>4. CASE FrontierReversed
    <3>1. phase = "callers" /\ ToAdjacent(found)
      BY <2>4 DEF FrontierReversed
    <3>2. QED
      BY <1>1, <3>1, ToAdjacentLimits DEF StopsInv, FrontLimits
  <2>5. CASE AdjacentOwner
    BY <1>1, <2>5, AdjacentOwnerLimits
  <2>6. CASE AssembleFrontier
    <3>1. phase = "adjacent" /\ phase' \in {"expand", "index"} /\ UNCHANGED found
      BY <2>6 DEF AssembleFrontier
    <3>2. FrontHeld(found') /\ ("depth_budget" \in found'.stops => Further(found'))
      BY <3>1 DEF StopsInv, FrontLimits
    <3>3. Limits'
      BY <1>1, <3>2, FrontKeeps
    <3>4. QED
      BY <3>1, <3>3 DEF FrontLimits
  <2>7. QED
    BY <2>1, <2>2, <2>3, <2>4, <2>5, <2>6 DEF FrontierStep
<1>3. QED
  BY <1>1, <1>2 DEF StopsInv

\* A step that finds nothing new, or stops the index.
LEMMA QuietLimits ==
    ASSUME TypeInv, StopsInv, UNCHANGED <<input, graph>>, DOMAIN cover' = DOMAIN cover,
           \A p \in DOMAIN cover : cover'[p] = cover[p],
           found' = found \/ (found' = Stop(found, "index_budget") /\ opts.index),
           phase' \notin {"callgraph", "reverse", "frontier", "callers", "adjacent"}
    PROVE  StopsInv'
<1>1. found \in FoundType /\ found.owners \subseteq Fns /\ Mode' = Mode /\ opts' = opts
  BY DEF TypeInv, FoundOK, FoundType, Mode, opts
<1>2. /\ found'.owners = found.owners /\ found'.reverse = found.reverse
      /\ found'.adjacent = found.adjacent /\ found'.candidates = found.candidates
      /\ found'.packages = found.packages /\ found'.starts = found.starts
      /\ found'.instrs = found.instrs
      /\ \A reason \in found'.stops :
             reason \in found.stops \/ (reason = "index_budget" /\ opts.index)
  BY <1>1 DEF Stop, FoundType
<1>3. \A reason \in found'.stops : reason \in found.stops \/ Met(reason)'
  BY <1>1, <1>2 DEF Met
<1>4. Limits'
  BY <1>1, <1>2, <1>3, LimitsKept DEF StopsInv
<1>5. QED
  BY <1>1, <1>4 DEF StopsInv, FrontLimits

\* Before anything is looked for, nothing is held and no limit is passed.
LEMMA NothingLimits ==
    ASSUME NEW s, s = Nothing, input \in Inputs
    PROVE  /\ FrontHeld(s) /\ s.stops = {} /\ \A f \in Fns : s.depth[f] = 0
           /\ Keeps(s.owners, opts.owners)
<1>1. /\ s \in FoundType /\ s.stops = {} /\ s.packages = {} /\ s.candidates = {}
      /\ s.reverse = {} /\ s.adjacent = {} /\ s.owners = {} /\ \A f \in Fns : s.depth[f] = 0
  BY DEF Nothing, FoundType
<1>2. Cardinality({}) = 0 /\ opts.owners \in Nat
  BY FS_EmptySet, EntryAssumption DEF opts, Numbers
<1>3. Keeps({}, opts.packages) /\ Keeps({}, opts.candidates) /\ Keeps({}, opts.reverse)
      /\ Keeps({}, opts.adjacent) /\ Keeps({}, opts.owners)
  BY <1>2, LimitsAre DEF Keeps
<1>4. QED
  BY <1>1, <1>3 DEF FrontHeld

LEMMA StopsInit == Init => StopsInv
<1> SUFFICES ASSUME Init
             PROVE  StopsInv
  OBVIOUS
<1>1. /\ phase = "callgraph" /\ found = Nothing /\ cover = <<>> /\ input \in Inputs
      /\ DOMAIN cover = {}
  BY DEF Init
<1>2. Limits
  BY <1>1, NothingLimits DEF Limits, FrontHeld
<1>3. QED
  BY <1>1, <1>2 DEF StopsInv, FrontLimits

LEMMA StopsNext == ProbeInv /\ StopsInv /\ [Next]_vars => StopsInv'
<1> SUFFICES ASSUME ProbeInv, StopsInv, [Next]_vars
             PROVE  StopsInv'
  OBVIOUS
<1>1. TypeInv /\ LateInv /\ ModeInv /\ BridgeInv /\ BridgeLimits /\ ScanInv /\ input \in Inputs
  BY DEF ProbeInv, TypeInv
<1>2. CASE BuildGraph \/ OpenReverse \/ VisitNode \/ CloseReverse
  <2>1. /\ UNCHANGED <<input, found, cover>> /\ phase \in {"callgraph", "reverse"}
        /\ phase' \in {"reverse", "index", "starts", "oracle", "paths", "sinks", "frontier"}
    BY <1>2 DEF BuildGraph, OpenReverse, VisitNode, CloseReverse, First
  <2>2. found' = Nothing /\ found = Nothing
    BY <2>1 DEF StopsInv, FrontLimits
  <2>3. Nothing' = Nothing /\ opts' = opts /\ Mode' = Mode /\ Fns' = Fns
    BY <2>1, SameProgram DEF Nothing
  <2>4. FoundType' = FoundType
    BY <2>1, SameTypes
  <2>5. /\ FrontHeld(found) /\ found.stops = {} /\ \A f \in Fns : found.depth[f] = 0
        /\ Keeps(found.owners, opts.owners)
    BY <1>1, <2>2, NothingLimits
  <2>6. FrontHeld(found)'
    BY <2>1, <2>3, <2>4, <2>5 DEF FrontHeld
  <2>7. Limits'
    BY <2>1, <2>3, <2>5 DEF Limits, FrontHeld
  <2>8. QED
    BY <2>1, <2>2, <2>3, <2>5, <2>6, <2>7 DEF StopsInv, FrontLimits
<1>3. CASE FrontierStep
  BY <1>1, <1>3, FrontierLimits
<1>4. CASE SeedPaths \/ SeedSinks \/ Expand \/ OracleStart \/ OracleEnd
  <2>1. UNCHANGED <<input, graph, found, cover>>
    BY <1>4 DEF SeedPaths, SeedSinks, Expand, OracleStart, OracleEnd, BridgeUnchanged
  <2>2. phase' \in {"sinks", "expand", "index", "oracle"}
    BY <1>1, <1>4, SinkSteps, ExpandStep, OracleSteps
  <2>3. QED
    BY <1>1, <2>1, <2>2, QuietLimits
<1>5. CASE SelectStarts \/ StartPackage \/ BridgeOwner \/ AssembleBridge
  <2>1. /\ UNCHANGED input /\ phase' \in {"bridge", "index"} /\ Limits'
    BY <1>1, <1>5, BridgeSteps
  <2>2. phase \in {"starts", "bridge"}
    BY <1>5 DEF SelectStarts, StartPackage, BridgeOwner, AssembleBridge
  <2>3. Mode' = "bridge"
    BY <1>1, <2>1, <2>2 DEF ModeInv, Mode
  <2>4. QED
    BY <2>1, <2>3 DEF StopsInv, FrontLimits
<1>6. CASE OpenIndex \/ IndexOwner \/ CloseIndex \/ FlowValue \/ EndFlow \/ Return
  <2>1. /\ UNCHANGED <<input, graph, cover>> /\ phase' \in {"scan", "flow", "done"}
        /\ found' = found \/ (found' = Stop(found, "index_budget") /\ opts.index)
    <3>1. CASE OpenIndex \/ IndexOwner
      BY <3>1 DEF OpenIndex, IndexOwner
    <3>2. CASE CloseIndex
      <4>1. /\ UNCHANGED <<input, graph, cover>> /\ phase = "scan" /\ phase' = "flow"
            /\ \E t \in Ticks(1, opts.index /\ index.refs # {}) :
                   found' = IF t[1] THEN Stop(found, "index_budget") ELSE found
        BY <3>2 DEF CloseIndex
      <4>2. \A t \in Ticks(1, opts.index /\ index.refs # {}) : t[1] => opts.index
        BY <1>1, <4>1 DEF Ticks, LateInv
      <4>3. QED
        BY <4>1, <4>2
    <3>3. CASE FlowValue \/ EndFlow \/ Return
      BY <3>3 DEF FlowValue, EndFlow, Return, vars
    <3>4. QED
      BY <1>6, <3>1, <3>2, <3>3
  <2>2. QED
    BY <1>1, <2>1, QuietLimits
<1>7. CASE UNCHANGED vars
  <2>1. UNCHANGED <<input, phase, graph, found, cover, queue>>
    BY <1>7 DEF vars
  <2>2. opts' = opts /\ Mode' = Mode /\ Fns' = Fns
    BY <2>1, SameProgram
  <2>3. Nothing' = Nothing
    BY <2>2 DEF Nothing
  <2>4. (FrontHeld(found)' <=> FrontHeld(found)) /\ (Further(found)' <=> Further(found))
    <3>1. FoundType' = FoundType /\ \A f : AdjacentIn(graph, f)' = AdjacentIn(graph, f)
      BY <2>1, <2>2, SameTypes, SameProgram
      DEF AdjacentIn, StaticCallees, CallersIn, Calls, Instrs
    <3>2. QED
      BY <2>1, <2>2, <3>1 DEF FrontHeld, Further
  <2>5. Limits'
    <3>1. found.owners \subseteq Fns
      BY <1>1 DEF TypeInv, FoundOK, FoundType
    <3>2. QED
      BY <2>1, <3>1, LimitsKept DEF StopsInv
  <2>6. FrontLimits'
    <3>1. FrontLimits
      BY DEF StopsInv
    <3>2. ByDepth(queue, found.depth)' <=> ByDepth(queue, found.depth)
      BY <2>1 DEF ByDepth
    <3>3. QED
      BY <2>1, <2>2, <2>3, <2>4, <3>1, <3>2 DEF FrontLimits
  <2>7. QED
    BY <2>1, <2>2, <2>5, <2>6 DEF StopsInv
<1>8. QED
  BY <1>2, <1>3, <1>4, <1>5, <1>6, <1>7 DEF Next, BridgeStep

\* What lies next to the owners is more than the owners.
LEMMA AroundIsMore ==
    ASSUME input \in Inputs, Further(found), found.owners \subseteq Fns
    PROVE  Around(found.owners, 1) # found.owners
<1> DEFINE pairs == {d \in Fns \X Fns : d[2] \in AdjacentIn(graph, d[1])}
<1>1. pairs \subseteq Fns \X Fns
  OBVIOUS
<1>2. PICK f \in found.owners, g \in Fns \ found.owners : g \in AdjacentIn(graph, f)
  BY DEF Further
<1>3. <<f, g>> \in pairs
  BY <1>2
<1>4. Around(found.owners, 1) = Within(found.owners, 1, pairs)
  BY DEF Around
<1> HIDE DEF pairs
<1>5. PICK w : Run(Fns, found.owners, 1, pairs, w) /\ Within(found.owners, 1, pairs) = w[1]
  BY <1>1, WithinRuns
<1>6. w[1] = found.owners \cup After(found.owners, pairs)
  BY <1>5 DEF Run
<1>7. g \in After(found.owners, pairs)
  BY <1>2, <1>3 DEF After
<1>8. QED
  BY <1>2, <1>4, <1>5, <1>6, <1>7

LEMMA StopsHold == ProbeInv /\ StopsInv => StopsAreEarned
<1> SUFFICES ASSUME ProbeInv, StopsInv
             PROVE  StopsAreEarned
  OBVIOUS
<1>1. TypeInv /\ BridgeInv /\ Limits /\ found.owners \subseteq Fns /\ input \in Inputs
  BY DEF ProbeInv, StopsInv, TypeInv, FoundOK, FoundType
<1> DEFINE met == [duration_budget |-> opts.clock,
                   reverse_owner_budget |-> AtLimit(Cardinality(found.reverse), opts.reverse),
                   adjacent_owner_budget |-> AtLimit(Cardinality(found.adjacent), opts.adjacent),
                   boundary_candidate_budget |->
                       AtLimit(Cardinality(found.candidates), opts.candidates),
                   boundary_owner_budget |->
                       AtLimit(Cardinality(found.candidates), opts.candidates),
                   package_budget |-> AtLimit(Cardinality(found.packages), opts.packages),
                   start_budget |-> AtLimit(Cardinality(found.starts), opts.starts),
                   owner_budget |-> AtLimit(Cardinality(found.owners), opts.owners),
                   instruction_budget |-> AtLimit(found.instrs, opts.instrs),
                   package_function_budget |->
                       \E p \in DOMAIN cover : AtLimit(cover[p].functions, opts.perPackage),
                   depth_budget |-> Around(found.owners, 1) # found.owners,
                   index_budget |-> opts.index]
<1>2. \A reason \in found.stops : met[reason]
  <2>1. SUFFICES ASSUME NEW reason \in found.stops
                 PROVE  met[reason]
    OBVIOUS
  <2>2. Met(reason)
    BY <1>1 DEF Limits
  <2>3. CASE reason = "depth_budget"
    <3>1. Further(found)
      BY <2>2, <2>3 DEF Met, Further
    <3>2. Around(found.owners, 1) # found.owners
      BY <1>1, <3>1, AroundIsMore
    <3>3. QED
      BY <2>3, <3>2
  <2>4. CASE reason # "depth_budget"
    BY <2>2, <2>4 DEF Met
  <2>5. QED
    BY <2>3, <2>4
<1>3. Seeded => \A p \in DOMAIN cover :
          IF cover[p].completed
          THEN ToSet(FnsOf(p)) \subseteq found.scanned /\ Holders(found.starts, p) \subseteq Owners
          ELSE found.stops # {} /\ (~cover[p].scheduled => cover[p].stops # {})
  <2>1. CASE Mode = "bridge"
    BY <1>1, <2>1 DEF BridgeInv, Bridged, Whole, Tried
  <2>2. CASE Mode # "bridge"
    BY <2>2 DEF StopsInv
  <2>3. QED
    BY <2>1, <2>2
<1> HIDE DEF met
<1>4. QED
  BY <1>1, <1>2, <1>3 DEF StopsAreEarned, Limits, Keeps, met

\* Whatever the inputs, each stop that is reported is one whose limit has been reached, no
\* limit is passed in any mode, and a package of the bridge is said to be complete only if
\* all its functions have been scanned and the holders of its starts are seeds; if not,
\* something has stopped the search.
THEOREM StopsEarned == Spec => []StopsAreEarned
<1>1. Init => ProbeInv /\ StopsInv
  BY ProbeInit, StopsInit
<1>2. (ProbeInv /\ StopsInv) /\ [Next]_vars => (ProbeInv /\ StopsInv)'
  BY ProbeNext, StopsNext
<1>3. ProbeInv /\ StopsInv => StopsAreEarned
  BY StopsHold
<1>4. QED
  BY <1>1, <1>2, <1>3, PTL DEF Spec

-----------------------------------------------------------------------------
(* The flow of function values finds the registrations and no others.      *)

Edges == {"capture", "arg"}
Links == [from : Fns, to : Fns, edge : Edges]
Items == [val : Vals, src : Fns, chain : Seq(Links)]
IsFlow(fl) == fl = [sites |-> fl.sites, chains |-> fl.chains, unknown |-> fl.unknown]
Triples(fl) == {<<s.src, s.site, s.at>> : s \in fl.sites}

\* What the program says of one use: where its value goes on to.
Onward(r) ==
    LET i == InstrOf(r)
        param == IF i.callee = 0 THEN {}
                 ELSE {<<i.callee, k>> : k \in {r.arg} \cap DOMAIN prog.fn[i.callee].params}
    IN  CASE TakenForCall(r) -> {}
          [] IsArg(r) /\ ~TakenForCall(r) -> param \cup ({i.def} \ {NoVal})
          [] r.kind = "capture" \/ i.op = "pass" -> {i.def}
          [] OTHER -> {}

\* The order of the uses of a value, and that of the sources.
RefPairs(v) == {x \in Uses(v) \X Uses(v) : EarlierRef(x[1], x[2])}
SourcePairs(S) == {x \in S \X S : EarlierSource(x[1], x[2])}

LEMMA RefsInOrder ==
    ASSUME NEW v, Uses(v) \subseteq RefType, Fns \subseteq Nat
    PROVE  StrictOrder(Uses(v), RefPairs(v))
<1>1. \A k \in Kinds : KindRank[k] \in Nat
  BY DEF Kinds, KindRank
<1>2. \A k, l \in Kinds : KindRank[k] = KindRank[l] => k = l
  BY DEF Kinds, KindRank
<1> DEFINE rank(r) == KindRank[r.kind]
<1>3. \A r \in Uses(v) : /\ r.owner \in Nat /\ rank(r) \in Nat /\ r.at \in Nat /\ r.arg \in Nat
                         /\ r.kind \in Kinds /\ r.operand = v
  BY <1>1 DEF RefType, Uses
<1>4. \A r, s \in Uses(v) : <<r, s>> \in RefPairs(v) <=> EarlierRef(r, s)
  BY DEF RefPairs
<1>5. ASSUME NEW r \in Uses(v), NEW s \in Uses(v), r # s
      PROVE  \/ r.owner # s.owner \/ rank(r) # rank(s) \/ r.at # s.at \/ r.arg # s.arg
  <2>1. r \in RefType /\ s \in RefType /\ r.operand = s.operand
    BY <1>3
  <2>2. \/ r.owner # s.owner \/ r.kind # s.kind \/ r.at # s.at \/ r.arg # s.arg
    BY <1>5, <2>1 DEF RefType
  <2>3. QED
    BY <1>2, <1>3, <2>2
<1>6. \A r, s \in Uses(v) : r.kind = s.kind <=> rank(r) = rank(s)
  BY <1>2, <1>3
<1>7. \A r, s \in Uses(v) :
          EarlierRef(r, s) <=>
             \/ r.owner < s.owner
             \/ r.owner = s.owner /\ rank(r) < rank(s)
             \/ r.owner = s.owner /\ rank(r) = rank(s) /\ r.at < s.at
             \/ r.owner = s.owner /\ rank(r) = rank(s) /\ r.at = s.at /\ r.arg < s.arg
  BY <1>6 DEF EarlierRef
<1> HIDE DEF rank
<1>8. \A r \in Uses(v) : ~EarlierRef(r, r)
  BY <1>3, <1>7
<1>9. \A r, s \in Uses(v) : r # s => EarlierRef(r, s) \/ EarlierRef(s, r)
  BY <1>3, <1>5, <1>7
<1>10. \A r, s, t \in Uses(v) : EarlierRef(r, s) /\ EarlierRef(s, t) => EarlierRef(r, t)
  BY <1>3, <1>7
<1>11. QED
  BY <1>4, <1>8, <1>9, <1>10 DEF StrictOrder

LEMMA SourcesInOrder ==
    ASSUME input \in Inputs, NEW S, S \subseteq Vals \X Fns
    PROVE  StrictOrder(S, SourcePairs(S))
<1>1. /\ Vals \subseteq {NoVal} \cup (Fns \X Nat) /\ Fns \subseteq Nat
      /\ \A v \in Vals : KeyOf(v) \in Nat
  BY ProgramIs
<1> DEFINE key(s) == KeyOf(s[1])
           one(s) == s[1][1]
           two(s) == s[1][2]
<1>2. ASSUME NEW s \in S
      PROVE  /\ key(s) \in Nat /\ one(s) \in Nat /\ two(s) \in Nat /\ s[2] \in Nat
             /\ s = <<s[1], s[2]>> /\ s[1] = <<one(s), two(s)>>
  <2>1. s[1] \in Vals /\ s[2] \in Fns /\ s = <<s[1], s[2]>>
    OBVIOUS
  <2>2. s[1] \in Nat \X Nat
    <3>1. NoVal \in Nat \X Nat
      BY DEF NoVal
    <3>2. PICK w : w = s[1]
      OBVIOUS
    <3>3. w \in {NoVal} \cup (Fns \X Nat)
      BY <1>1, <2>1, <3>2
    <3>4. w \in Nat \X Nat
      BY <1>1, <3>1, <3>3
    <3>5. QED
      BY <3>2, <3>4
  <2>3. one(s) \in Nat /\ two(s) \in Nat /\ s[1] = <<one(s), two(s)>>
    BY <2>2
  <2>4. QED
    BY <1>1, <2>1, <2>3
<1>3. \A s, t \in S : <<s, t>> \in SourcePairs(S) <=> EarlierSource(s, t)
  BY DEF SourcePairs
<1>4. \A s, t \in S : s[1] = t[1] <=> one(s) = one(t) /\ two(s) = two(t)
  BY <1>2
<1>5. \A s, t \in S : s = t <=> one(s) = one(t) /\ two(s) = two(t) /\ s[2] = t[2]
  BY <1>2, <1>4
<1>6. \A s, t \in S :
          EarlierSource(s, t) <=>
             \/ key(s) < key(t)
             \/ key(s) = key(t) /\ one(s) < one(t)
             \/ key(s) = key(t) /\ one(s) = one(t) /\ two(s) < two(t)
             \/ key(s) = key(t) /\ one(s) = one(t) /\ two(s) = two(t) /\ s[2] < t[2]
  BY <1>4 DEF EarlierSource
<1> HIDE DEF key, one, two
<1>7. \A s \in S : ~EarlierSource(s, s)
  BY <1>2, <1>6
<1>8. \A s, t \in S : s # t => EarlierSource(s, t) \/ EarlierSource(t, s)
  BY <1>2, <1>5, <1>6
<1>9. \A s, t, u \in S : EarlierSource(s, t) /\ EarlierSource(t, u) => EarlierSource(s, u)
  BY <1>2, <1>6
<1>10. QED
  BY <1>3, <1>7, <1>8, <1>9 DEF StrictOrder


\* What is recorded at one use: a site for a registration, and nothing else that counts.
LEMMA ChainedIs ==
    ASSUME NEW fl, IsFlow(fl), NEW c, NEW site, NEW chain
    PROVE  /\ IsFlow(Chained(fl, c, site, chain))
           /\ Chained(fl, c, site, chain).sites = fl.sites
<1>1. CASE chain = <<>>
  BY <1>1 DEF Chained
<1>2. CASE chain # <<>>
  <2>1. PICK more : more = (<<c.src, site>> :> chain) @@ fl.chains
    OBVIOUS
  <2>2. Chained(fl, c, site, chain) = [fl EXCEPT !.chains = more]
    BY <1>2, <2>1 DEF Chained
  <2>3. PICK a, b, d : fl = [sites |-> a, chains |-> b, unknown |-> d]
    BY DEF IsFlow
  <2>4. Chained(fl, c, site, chain) = [sites |-> a, chains |-> more, unknown |-> d]
    BY <2>2, <2>3
  <2>5. QED
    BY <2>3, <2>4 DEF IsFlow
<1>3. QED
  BY <1>1, <1>2

LEMMA WrappedIs ==
    ASSUME NEW fl, IsFlow(fl), NEW c, NEW target, NEW edge
    PROVE  /\ IsFlow(Wrapped(fl, c, target, edge))
           /\ Wrapped(fl, c, target, edge).sites = fl.sites
BY ChainedIs DEF Wrapped

LEMMA RegisteredIs ==
    ASSUME NEW fl, IsFlow(fl), NEW c, NEW ref, NEW edge, NEW kind
    PROVE  /\ IsFlow(Registered(fl, c, ref, edge, kind))
           /\ Triples(Registered(fl, c, ref, edge, kind)) =
                  Triples(fl) \cup {<<c.src, ref.owner, ref.at>>}
<1> DEFINE Same(s) == <<s.src, s.site, s.edge, s.at>> = <<c.src, ref.owner, edge, ref.at>>
<1>1. PICK site : site = [src |-> c.src, site |-> ref.owner, edge |-> edge, at |-> ref.at,
                          kind |-> kind]
  OBVIOUS
<1>2. site.src = c.src /\ site.site = ref.owner /\ site.at = ref.at
  BY <1>1
<1>3. PICK more : more = [fl EXCEPT !.sites = @ \cup {site}]
  OBVIOUS
<1>4. Registered(fl, c, ref, edge, kind) =
         IF \E s \in fl.sites : Same(s) THEN fl ELSE Chained(more, c, ref.owner, c.chain)
  BY <1>1, <1>3 DEF Registered
<1>5. CASE \E s \in fl.sites : Same(s)
  <2>1. PICK s \in fl.sites : s.src = c.src /\ s.site = ref.owner /\ s.at = ref.at
    BY <1>5
  <2>2. <<c.src, ref.owner, ref.at>> \in Triples(fl)
    BY <2>1 DEF Triples
  <2>3. Registered(fl, c, ref, edge, kind) = fl
    BY <1>4, <1>5
  <2>4. QED
    BY <2>2, <2>3
<1>6. CASE ~\E s \in fl.sites : Same(s)
  <2>1. PICK a, b, d : fl = [sites |-> a, chains |-> b, unknown |-> d]
    BY DEF IsFlow
  <2>2. more = [sites |-> a \cup {site}, chains |-> b, unknown |-> d] /\ a = fl.sites
    BY <1>3, <2>1
  <2>3. IsFlow(more) /\ more.sites = fl.sites \cup {site}
    BY <2>2 DEF IsFlow
  <2>4. Registered(fl, c, ref, edge, kind) = Chained(more, c, ref.owner, c.chain)
    BY <1>4, <1>6
  <2>5. /\ IsFlow(Registered(fl, c, ref, edge, kind))
        /\ Registered(fl, c, ref, edge, kind).sites = fl.sites \cup {site}
    BY <2>3, <2>4, ChainedIs
  <2>6. Triples(Registered(fl, c, ref, edge, kind)) =
            Triples(fl) \cup {<<site.src, site.site, site.at>>}
    BY <2>5 DEF Triples
  <2>7. QED
    BY <1>2, <2>5, <2>6
<1>7. QED
  BY <1>5, <1>6

LEMMA RecordsIs ==
    ASSUME NEW fl, IsFlow(fl), NEW c, NEW r, Shape(r), r.operand = c.val
    PROVE  /\ IsFlow(Records(fl, c, r))
           /\ Triples(Records(fl, c, r)) = Triples(fl) \cup
                  (IF Registers(r) THEN {<<c.src, r.owner, r.at>>} ELSE {})
<1> DEFINE i == InstrOf(r)
           Good(g, regs) == /\ IsFlow(g)
                            /\ Triples(g) = Triples(fl) \cup
                                  (IF regs THEN {<<c.src, r.owner, r.at>>} ELSE {})
<1>1. PICK op, kind : op = i.op /\ kind = r.kind
  OBVIOUS
<1>2. Good(fl, FALSE)
  OBVIOUS
<1>3. ASSUME NEW target, NEW edge
      PROVE  Good(Wrapped(fl, c, target, edge), FALSE)
  BY WrappedIs DEF Triples
<1>4. ASSUME NEW edge, NEW k
      PROVE  Good(Registered(fl, c, r, edge, k), TRUE)
  BY RegisteredIs
<1> DEFINE arg == IsArg(r) /\ ~TakenForCall(r) /\ r.arg \in DOMAIN ParamTypes(i)
                   /\ IsInterface(ParamTypes(i)[r.arg])
           a == prog.val[i.addr]
           http == a.kind = "field" /\ HasServeHTTP(a.under)
           kept == a.kind \in {"global", "element"}
           stored == kept \/ http
<1>5. Registers(r) <=> (kind = "store" /\ stored) \/ arg
  BY <1>1 DEF Registers
<1>6. Records(fl, c, r) =
         CASE op = "store"   -> Stored(fl, c, r)
           [] op = "return"  -> Wrapped(fl, c, r.owner, "returned")
           [] op = "closure" -> Wrapped(fl, c, i.callee, "capture")
           [] op \in Calls /\ i.val = c.val ->
                  Wrapped(fl, c, i.callee,
                          IF op = "go" THEN "goroutine_launch" ELSE "direct_invoke")
           [] op \in Calls /\ i.val # c.val -> Passed(fl, c, r)
           [] OTHER -> fl
  BY <1>1 DEF Records
<1>7. /\ op = "store" <=> kind = "store"
      /\ IsArg(r) => op \in {"call", "go"}
      /\ op \in {"call", "go"} => IsArg(r) \/ r.operand = i.val
      /\ TakenForCall(r) <=> IsArg(r) /\ i.val = c.val
  BY <1>1 DEF Shape, IsArg, TakenForCall
<1> HIDE DEF Good, arg, http, kept, stored, i
<1>8. CASE op = "store"
  <2>1. Records(fl, c, r) = Stored(fl, c, r)
    BY <1>6, <1>8 DEF Calls
  <2>2. Stored(fl, c, r) =
           CASE http -> Registered(fl, c, r, "stored_field", "field-http-handler")
             [] kept -> Registered(fl, c, r, "stored", a.kind)
             [] OTHER -> [fl EXCEPT !.unknown = @ \cup {<<r.owner, r.at>>}]
    BY DEF Stored, http, kept, i
  <2>3. ~(http /\ kept)
    BY DEF http, kept
  <2>4. CASE stored
    <3>1. PICK edge, k : Stored(fl, c, r) = Registered(fl, c, r, edge, k)
      <4>1. CASE http
        BY <2>2, <2>3, <4>1
      <4>2. CASE kept
        BY <2>2, <2>3, <4>2
      <4>3. QED
        BY <2>4, <4>1, <4>2 DEF stored
    <3>2. Good(Records(fl, c, r), TRUE)
      BY <1>4, <2>1, <3>1
    <3>3. QED
      BY <1>5, <1>7, <1>8, <2>4, <3>2 DEF Good
  <2>5. CASE ~stored
    <3>1. Stored(fl, c, r) = [fl EXCEPT !.unknown = @ \cup {<<r.owner, r.at>>}]
      BY <2>2, <2>5 DEF stored
    <3>2. PICK x, y, z : fl = [sites |-> x, chains |-> y, unknown |-> z]
      BY DEF IsFlow
    <3>3. Stored(fl, c, r) = [sites |-> x, chains |-> y, unknown |-> z \cup {<<r.owner, r.at>>}]
      BY <3>1, <3>2
    <3>4. IsFlow(Stored(fl, c, r)) /\ Stored(fl, c, r).sites = fl.sites
      BY <3>2, <3>3 DEF IsFlow
    <3>5. ~Registers(r)
      BY <1>5, <1>7, <1>8, <2>5 DEF arg
    <3>6. QED
      BY <2>1, <3>4, <3>5 DEF Triples
  <2>6. QED
    BY <2>4, <2>5
<1>9. CASE op \in Calls /\ i.val # c.val
  <2>1. Records(fl, c, r) = Passed(fl, c, r)
    BY <1>6, <1>9 DEF Calls
  <2>2. IsArg(r) /\ ~TakenForCall(r) /\ kind # "store"
    BY <1>7, <1>9 DEF Calls
  <2> DEFINE edge == IF i.op = "go" THEN "goroutine_launch" ELSE "arg"
             type == IF r.arg \in DOMAIN ParamTypes(i) THEN ParamTypes(i)[r.arg] ELSE ""
             k == IF type = "handler" THEN "http-handler" ELSE "interface"
  <2>3. Passed(fl, c, r) = IF IsInterface(type) THEN Registered(fl, c, r, edge, k) ELSE fl
    BY DEF Passed, i
  <2>4. IsInterface(type) <=> r.arg \in DOMAIN ParamTypes(i) /\ IsInterface(ParamTypes(i)[r.arg])
    BY DEF IsInterface
  <2>5. IsInterface(type) <=> Registers(r)
    BY <1>5, <2>2, <2>4 DEF arg
  <2> HIDE DEF edge, k, type
  <2>6. CASE IsInterface(type)
    <3>1. Good(Records(fl, c, r), TRUE)
      BY <1>4, <2>1, <2>3, <2>6
    <3>2. QED
      BY <2>5, <2>6, <3>1 DEF Good
  <2>7. CASE ~IsInterface(type)
    <3>1. Good(Records(fl, c, r), FALSE)
      BY <1>2, <2>1, <2>3, <2>7
    <3>2. QED
      BY <2>5, <2>7, <3>1 DEF Good
  <2>8. QED
    BY <2>6, <2>7
<1>10. CASE op # "store" /\ ~(op \in Calls /\ i.val # c.val)
  <2>1. ~Registers(r)
    BY <1>5, <1>7, <1>10 DEF Calls, arg
  <2>2. Records(fl, c, r) = fl \/ \E target, edge : Records(fl, c, r) = Wrapped(fl, c, target, edge)
    <3>1. CASE op = "return"
      BY <1>6, <3>1 DEF Calls
    <3>2. CASE op = "closure"
      BY <1>6, <3>2 DEF Calls
    <3>3. CASE op \in Calls /\ i.val = c.val
      <4>1. PICK edge : edge = (IF op = "go" THEN "goroutine_launch" ELSE "direct_invoke")
        OBVIOUS
      <4>2. Records(fl, c, r) = Wrapped(fl, c, i.callee, edge)
        BY <1>6, <3>3, <4>1 DEF Calls
      <4>3. QED
        BY <4>2
    <3>4. CASE op \notin {"return", "closure"} /\ op \notin Calls
      BY <1>6, <1>10, <3>4
    <3>5. QED
      BY <1>10, <3>1, <3>2, <3>3, <3>4
  <2>3. Good(Records(fl, c, r), FALSE)
    BY <1>2, <1>3, <2>2
  <2>4. QED
    BY <2>1, <2>3 DEF Good
<1>11. QED
  BY <1>8, <1>9, <1>10

\* What a use sends on: items of the same source, for the values it leads to.
Carries(s, c, W) ==
    s \in Seq(Items) /\ {q.val : q \in ToSet(s)} = W /\ \A q \in ToSet(s) : q.src = c.src

LEMMA CarriesNone == ASSUME NEW c PROVE Carries(<<>>, c, {})
<1>1. <<>> \in Seq(Items) /\ ToSet(<<>>) = {}
  <2>1. DOMAIN <<>> = {}
    OBVIOUS
  <2>2. ToSet(<<>>) = {}
    BY <2>1 DEF ToSet
  <2>3. <<>> \in Seq(Items)
    OBVIOUS
  <2>4. QED
    BY <2>2, <2>3
<1>2. QED
  BY <1>1 DEF Carries

LEMMA CarriesOne ==
    ASSUME NEW c, c.src \in Fns, NEW v \in Vals, NEW chain \in Seq(Links)
    PROVE  Carries(<<[val |-> v, src |-> c.src, chain |-> chain]>>, c, {v})
<1>1. PICK q : q = [val |-> v, src |-> c.src, chain |-> chain]
  OBVIOUS
<1>2. q \in Items /\ q.val = v /\ q.src = c.src
  BY <1>1 DEF Items
<1>3. <<q>> \in Seq(Items) /\ DOMAIN <<q>> = {1} /\ <<q>>[1] = q
  BY <1>2
<1>4. ToSet(<<q>>) = {q}
  BY <1>3 DEF ToSet
<1>5. Carries(<<q>>, c, {v})
  BY <1>2, <1>3, <1>4 DEF Carries
<1>6. QED
  BY <1>1, <1>5

LEMMA CarriesJoined ==
    ASSUME NEW c, NEW a, NEW b, NEW V, NEW W, Carries(a, c, V), Carries(b, c, W)
    PROVE  Carries(a \o b, c, V \cup W)
<1>1. PICK S : S = Items
  OBVIOUS
<1>2. a \in Seq(S) /\ b \in Seq(S)
  BY <1>1 DEF Carries
<1>3. a \o b \in Seq(S) /\ ToSet(a \o b) = ToSet(a) \cup ToSet(b)
  BY <1>2, JoinedSet
<1>4. QED
  BY <1>1, <1>3 DEF Carries

LEMMA FlowsToIs ==
    ASSUME input \in Inputs, NEW c \in Items, NEW r, Shape(r), r.operand = c.val,
           r.owner \in Fns, r.at \in DOMAIN Code(r.owner),
           IsArg(r) /\ InstrOf(r).callee # 0 => ~prog.fn[InstrOf(r).callee].recv
    PROVE  Carries(FlowsTo(c, r), c, Onward(r))
<1> DEFINE To(v, chain) == [val |-> v, src |-> c.src, chain |-> chain]
<1>1. PICK i : i = InstrOf(r)
  OBVIOUS
<1>2. /\ i.callee \in {0} \cup Fns /\ i.def \in Vals /\ i.val \in Vals
      /\ i.op \in {"closure", "pass"} => i.def # NoVal
      /\ i.op = "closure" => i.callee \in Fns
  <2>1. i = Code(r.owner)[r.at]
    BY <1>1 DEF InstrOf
  <2>2. QED
    BY <2>1, InstrIs
<1>3. c.src \in Fns /\ c.chain \in Seq(Links)
  BY DEF Items
<1> DEFINE edge == IF i.op = "closure" THEN "capture" ELSE "arg"
           onto == IF i.op # "pass" /\ i.callee # 0 THEN Link(c, i.callee, edge) ELSE c.chain
           result == IF i.def = NoVal THEN <<>> ELSE <<To(i.def, onto)>>
           params == CalleeParam(i.callee, r.arg)
           passed == IF i.callee = 0 THEN <<>>
                     ELSE [k \in 1..Cardinality(params) |->
                              To(CHOOSE p \in params : TRUE, c.chain)]
           param == IF i.callee = 0 THEN {}
                    ELSE {<<i.callee, k>> : k \in {r.arg} \cap DOMAIN prog.fn[i.callee].params}
<1>4. onto \in Seq(Links)
  <2>1. CASE i.op # "pass" /\ i.callee # 0
    <3>1. edge \in Edges /\ i.callee \in Fns
      BY <1>2, <2>1 DEF Edges
    <3> HIDE DEF edge
    <3>2. [from |-> c.src, to |-> i.callee, edge |-> edge] \in Links
      BY <1>3, <3>1 DEF Links
    <3>3. Link(c, i.callee, edge) \in Seq(Links)
      BY <1>3, <3>2 DEF Link
    <3>4. QED
      BY <2>1, <3>3
  <2>2. CASE ~(i.op # "pass" /\ i.callee # 0)
    BY <1>3, <2>2
  <2>3. QED
    BY <2>1, <2>2
<1> HIDE DEF onto
<1>5. Carries(result, c, {i.def} \ {NoVal})
  <2>1. CASE i.def = NoVal
    BY <2>1, CarriesNone
  <2>2. CASE i.def # NoVal
    <3>1. Carries(<<To(i.def, onto)>>, c, {i.def})
      BY <1>2, <1>3, <1>4, CarriesOne
    <3>2. QED
      BY <2>2, <3>1
  <2>3. QED
    BY <2>1, <2>2
<1>6. ASSUME IsArg(r)
      PROVE  Carries(passed, c, param)
  <2>1. CASE i.callee = 0
    BY <2>1, CarriesNone
  <2>2. CASE i.callee # 0
    <3>1. ~prog.fn[i.callee].recv /\ i.callee \in Fns
      BY <1>1, <1>2, <1>6, <2>2
    <3>2. params = IF r.arg \in DOMAIN prog.fn[i.callee].params THEN {<<i.callee, r.arg>>} ELSE {}
      BY <2>2, <3>1 DEF CalleeParam
    <3>3. CASE r.arg \in DOMAIN prog.fn[i.callee].params
      <4>1. PICK p : p = <<i.callee, r.arg>>
        OBVIOUS
      <4>2. p \in Vals
        BY <3>1, <3>3, <4>1, ProgramIs
      <4>3. params = {p} /\ param = {p}
        BY <2>2, <3>2, <3>3, <4>1
      <4>4. Cardinality(params) = 1
        BY <4>3, FS_Singleton
      <4>5. (CHOOSE x \in params : TRUE) = p
        BY <4>3
      <4> HIDE DEF params
      <4>6. passed = [k \in 1..1 |-> To(p, c.chain)]
        BY <2>2, <4>4, <4>5
      <4>7. passed = <<To(p, c.chain)>>
        <5>1. PICK q : q = To(p, c.chain)
          OBVIOUS
        <5>2. passed = [k \in 1..1 |-> q]
          BY <4>6, <5>1
        <5> HIDE DEF passed
        <5>3. passed = <<q>>
          BY <5>2
        <5>4. QED
          BY <5>1, <5>3
      <4>8. Carries(<<To(p, c.chain)>>, c, {p})
        BY <1>3, <4>2, CarriesOne
      <4>9. QED
        BY <4>3, <4>7, <4>8
    <3>4. CASE r.arg \notin DOMAIN prog.fn[i.callee].params
      <4>1. params = {} /\ param = {}
        BY <2>2, <3>2, <3>4
      <4>2. Cardinality(params) = 0
        BY <4>1, FS_EmptySet
      <4> HIDE DEF params
      <4>3. passed = [k \in 1..0 |-> To(CHOOSE p \in params : TRUE, c.chain)]
        BY <2>2, <4>2
      <4>4. passed = <<>>
        BY <4>3
      <4>5. QED
        BY <4>1, <4>4, CarriesNone
    <3>5. QED
      BY <3>3, <3>4
  <2>3. QED
    BY <2>1, <2>2
<1>7. FlowsTo(c, r) =
         CASE i.op \in {"closure", "pass"} -> result
           [] i.op \in Calls /\ i.val # c.val -> passed \o result
           [] OTHER -> <<>>
  BY <1>1 DEF FlowsTo, onto
<1>8. Onward(r) =
         CASE TakenForCall(r) -> {}
           [] IsArg(r) /\ ~TakenForCall(r) -> param \cup ({i.def} \ {NoVal})
           [] r.kind = "capture" \/ i.op = "pass" -> {i.def}
           [] OTHER -> {}
  BY <1>1 DEF Onward
<1> HIDE DEF result, passed, param
<1>9. PICK op, kind : op = i.op /\ kind = r.kind
  OBVIOUS
<1>10. /\ op = "closure" <=> kind = "capture"
       /\ IsArg(r) => op \in {"call", "go"} /\ kind # "capture"
       /\ op \in {"call", "go"} => IsArg(r) \/ r.operand = i.val
       /\ TakenForCall(r) <=> IsArg(r) /\ i.val = c.val
  BY <1>1, <1>9 DEF Shape, IsArg, TakenForCall
<1>11. CASE op \in {"closure", "pass"}
  <2>1. FlowsTo(c, r) = result
    BY <1>7, <1>9, <1>11 DEF Calls
  <2>2. Onward(r) = {i.def} /\ {i.def} \ {NoVal} = {i.def}
    BY <1>2, <1>8, <1>9, <1>10, <1>11
  <2>3. QED
    BY <1>5, <2>1, <2>2
<1>12. CASE op \in Calls /\ i.val # c.val
  <2>1. FlowsTo(c, r) = passed \o result
    BY <1>7, <1>9, <1>12 DEF Calls
  <2>2. IsArg(r) /\ ~TakenForCall(r)
    BY <1>10, <1>12 DEF Calls
  <2>3. Onward(r) = param \cup ({i.def} \ {NoVal})
    BY <1>8, <1>9, <1>10, <1>12, <2>2 DEF Calls
  <2>4. Carries(passed \o result, c, param \cup ({i.def} \ {NoVal}))
    BY <1>5, <1>6, <2>2, CarriesJoined
  <2>5. QED
    BY <2>1, <2>3, <2>4
<1>13. CASE op \notin {"closure", "pass"} /\ ~(op \in Calls /\ i.val # c.val)
  <2>1. FlowsTo(c, r) = <<>>
    BY <1>7, <1>9, <1>13
  <2>2. Onward(r) = {}
    BY <1>8, <1>9, <1>10, <1>13 DEF Calls
  <2>3. QED
    BY <2>1, <2>2, CarriesNone
<1>14. QED
  BY <1>11, <1>12, <1>13

\* All that a value flows on to is what its uses send it to.
LEMMA FlowsOnIs ==
    ASSUME NEW v, \A r \in Uses(v) : Shape(r)
    PROVE  FlowsOn(v) = UNION {Onward(r) : r \in Uses(v)}
<1> DEFINE Part(r) ==
             LET i == InstrOf(r)
                 param == IF i.callee = 0 THEN {}
                          ELSE {<<i.callee, k>> : k \in {r.arg}
                                  \cap DOMAIN prog.fn[i.callee].params}
             IN  CASE IsArg(r) -> param \cup ({i.def} \ {NoVal})
                   [] r.kind = "capture" \/ i.op = "pass" -> {i.def}
                   [] OTHER -> {}
<1>1. FlowsOn(v) = UNION {Part(r) : r \in {x \in Uses(v) : ~TakenForCall(x)}}
  BY DEF FlowsOn
<1>2. ASSUME NEW r \in Uses(v)
      PROVE  Onward(r) = IF TakenForCall(r) THEN {} ELSE Part(r)
  <2>1. TakenForCall(r) => IsArg(r)
    BY DEF TakenForCall
  <2>2. IsArg(r) => InstrOf(r).op # "pass" /\ r.kind # "capture"
    BY DEF Shape, IsArg
  <2>3. PICK i, param :
            /\ i = InstrOf(r)
            /\ param = IF i.callee = 0 THEN {}
                       ELSE {<<i.callee, k>> : k \in {r.arg}
                               \cap DOMAIN prog.fn[i.callee].params}
    OBVIOUS
  <2>4. Part(r) = CASE IsArg(r) -> param \cup ({i.def} \ {NoVal})
                    [] r.kind = "capture" \/ i.op = "pass" -> {i.def}
                    [] OTHER -> {}
    BY <2>3
  <2>5. Onward(r) = CASE TakenForCall(r) -> {}
                    [] IsArg(r) /\ ~TakenForCall(r) -> param \cup ({i.def} \ {NoVal})
                    [] r.kind = "capture" \/ i.op = "pass" -> {i.def}
                    [] OTHER -> {}
    BY <2>3 DEF Onward
  <2> HIDE DEF Part
  <2>6. CASE TakenForCall(r)
    <3>1. Onward(r) = {}
      BY <2>1, <2>2, <2>3, <2>5, <2>6
    <3>2. QED
      BY <2>6, <3>1
  <2>7. CASE ~TakenForCall(r) /\ IsArg(r)
    BY <2>2, <2>3, <2>4, <2>5, <2>7
  <2>8. CASE ~TakenForCall(r) /\ ~IsArg(r)
    BY <2>4, <2>5, <2>8
  <2>9. QED
    BY <2>6, <2>7, <2>8
<1> HIDE DEF Part
<1>3. QED
  BY <1>1, <1>2

\* The uses of a value, in their order.
LEMMA UseSeqIs ==
    ASSUME input \in Inputs, IndexOK, NEW v
    PROVE  /\ UseSeq(v) \in Seq(Uses(v)) /\ ToSet(UseSeq(v)) = Uses(v)
           /\ \A r \in Uses(v) : /\ Shape(r) /\ r.operand = v /\ r \in index.refs
                                 /\ r.owner \in Fns /\ r.at \in DOMAIN Code(r.owner)
<1>1. /\ index.refs \subseteq RefType /\ IsFiniteSet(index.refs) /\ Real(index.refs)
      /\ Fns \subseteq Nat
  BY ProgramIs DEF IndexOK, IndexType
<1>2. Uses(v) \subseteq index.refs /\ \A r \in Uses(v) : r.operand = v
  BY DEF Uses
<1>3. IsFiniteSet(Uses(v)) /\ Uses(v) \subseteq RefType
  BY <1>1, <1>2, FS_Subset
<1>4. StrictOrder(Uses(v), RefPairs(v))
  BY <1>1, <1>3, RefsInOrder
<1>5. UseSeq(v) = InOrder(Uses(v), RefPairs(v))
  BY DEF UseSeq, RefPairs
<1>6. PICK S, P : S = Uses(v) /\ P = RefPairs(v)
  OBVIOUS
<1>7. InOrder(S, P) \in Seq(S) /\ ToSet(InOrder(S, P)) = S
  <2>1. IsFiniteSet(S) /\ StrictOrder(S, P)
    BY <1>3, <1>4, <1>6
  <2>2. QED
    BY <2>1, InOrderLists
<1>8. ASSUME NEW r \in Uses(v)
      PROVE  Shape(r) /\ r.owner \in Fns /\ r.at \in DOMAIN Code(r.owner)
  <2>1. /\ r.owner \in Fns /\ r.at \in DOMAIN Code(r.owner) /\ r \in RefsAt(r.owner, r.at)
    BY <1>1, <1>2, <1>3 DEF Real, RefType
  <2>2. QED
    BY <2>1, RefIs
<1>9. QED
  BY <1>2, <1>5, <1>6, <1>7, <1>8

\* What is recorded at the uses of a value, one after another.
Recorded(fl, c, uses) ==
    LET recorded[n \in 0..Len(uses)] ==
            IF n = 0 THEN fl ELSE Records(recorded[n - 1], c, uses[n])
    IN  recorded[Len(uses)]
Noted(c, refs) == {<<c.src, r.owner, r.at>> : r \in {x \in refs : Registers(x)}}

LEMMA RecordedIs ==
    ASSUME NEW fl, IsFlow(fl), NEW c, NEW R, NEW uses \in Seq(R),
           \A r \in R : Shape(r) /\ r.operand = c.val
    PROVE  /\ IsFlow(Recorded(fl, c, uses))
           /\ Triples(Recorded(fl, c, uses)) = Triples(fl) \cup Noted(c, ToSet(uses))
<1>1. PICK N \in Nat : N = Len(uses) /\ DOMAIN uses = 1..N /\ \A n \in 1..N : uses[n] \in R
  OBVIOUS
<1> DEFINE Is(g, n) == g = [k \in 0..n |-> IF k = 0 THEN fl ELSE Records(g[k - 1], c, uses[k])]
           f == CHOOSE g : Is(g, N)
<1>2. Recorded(fl, c, uses) = f[N]
  BY <1>1 DEF Recorded
<1>3. \E g : Is(g, N)
  <2> DEFINE T == {n \in Nat : \E g : Is(g, n)}
  <2>1. 0 \in T
    <3>1. Is([k \in 0..0 |-> fl], 0)
      OBVIOUS
    <3>2. QED
      BY <3>1
  <2>2. ASSUME NEW n \in Nat, n \in T
        PROVE  n + 1 \in T
    <3>1. PICK g : Is(g, n)
      BY <2>2
    <3>2. PICK next : next = Records(g[n], c, uses[n + 1])
      OBVIOUS
    <3> DEFINE h == [k \in 0..(n + 1) |-> IF k = n + 1 THEN next ELSE g[k]]
    <3>3. ASSUME NEW k \in 0..(n + 1)
          PROVE  h[k] = IF k = 0 THEN fl ELSE Records(h[k - 1], c, uses[k])
      <4>1. CASE k = n + 1
        <5>1. k # 0 /\ k - 1 = n /\ n \in 0..(n + 1) /\ n # n + 1
          BY <4>1
        <5>2. h[k] = next /\ h[n] = g[n]
          BY <4>1, <5>1
        <5> HIDE DEF h
        <5>3. h[k - 1] = g[n]
          BY <5>1, <5>2
        <5>4. h[k] = Records(h[k - 1], c, uses[k])
          BY <3>2, <4>1, <5>2, <5>3
        <5>5. QED
          BY <5>1, <5>4
      <4>2. CASE k # n + 1
        <5>1. k \in 0..n /\ (k # 0 => k - 1 \in 0..(n + 1) /\ k - 1 # n + 1)
          BY <4>2
        <5>2. h[k] = g[k] /\ (k # 0 => h[k - 1] = g[k - 1])
          BY <4>2, <5>1
        <5>3. g[k] = IF k = 0 THEN fl ELSE Records(g[k - 1], c, uses[k])
          BY <3>1, <5>1
        <5> HIDE DEF h
        <5>4. CASE k = 0
          BY <5>2, <5>3, <5>4
        <5>5. CASE k # 0
          <6>1. h[k] = Records(h[k - 1], c, uses[k])
            BY <5>2, <5>3, <5>5
          <6>2. QED
            BY <5>5, <6>1
        <5>6. QED
          BY <5>4, <5>5
      <4>3. QED
        BY <4>1, <4>2
    <3>4. h = [k \in 0..(n + 1) |-> h[k]]
      OBVIOUS
    <3> HIDE DEF h
    <3>5. Is(h, n + 1)
      BY <3>3, <3>4
    <3>6. QED
      BY <3>5
  <2> HIDE DEF T
  <2>3. N \in T
    BY <2>1, <2>2, Climbing
  <2>4. QED
    BY <2>3 DEF T
<1>4. Is(f, N)
  BY <1>3
<1> HIDE DEF f
<1>5. f[0] = fl /\ \A n \in 1..N : f[n] = Records(f[n - 1], c, uses[n])
  BY <1>4
<1> DEFINE upto(n) == {uses[k] : k \in 1..n}
           OK(n) == IsFlow(f[n]) /\ Triples(f[n]) = Triples(fl) \cup Noted(c, upto(n))
<1>6. N \in {n \in Nat : n <= N => OK(n)}
  <2> DEFINE T == {n \in Nat : n <= N => OK(n)}
  <2>1. 0 \in T
    <3>1. upto(0) = {}
      OBVIOUS
    <3>2. Noted(c, upto(0)) = {}
      BY <3>1 DEF Noted
    <3>3. OK(0)
      BY <1>5, <3>2
    <3> HIDE DEF OK
    <3>4. QED
      BY <3>3
  <2>2. ASSUME NEW n \in Nat, n \in T
        PROVE  n + 1 \in T
    <3>1. SUFFICES ASSUME n + 1 <= N
                   PROVE  OK(n + 1)
      OBVIOUS
    <3>2. n <= N /\ n + 1 \in 1..N /\ (n + 1) - 1 = n
      BY <3>1
    <3>3. OK(n)
      BY <2>2, <3>2
    <3>4. PICK r \in R : r = uses[n + 1]
      BY <1>1, <3>2
    <3>5. f[n + 1] = Records(f[n], c, r)
      BY <1>5, <3>2, <3>4
    <3>6. /\ IsFlow(f[n + 1])
          /\ Triples(f[n + 1]) = Triples(f[n]) \cup
                (IF Registers(r) THEN {<<c.src, r.owner, r.at>>} ELSE {})
      <4>1. PICK g : g = f[n]
        OBVIOUS
      <4>2. IsFlow(g) /\ Shape(r) /\ r.operand = c.val
        BY <3>3, <4>1
      <4>3. /\ IsFlow(Records(g, c, r))
            /\ Triples(Records(g, c, r)) = Triples(g) \cup
                  (IF Registers(r) THEN {<<c.src, r.owner, r.at>>} ELSE {})
        BY <4>2, RecordsIs
      <4>4. QED
        BY <3>5, <4>1, <4>3
    <3>7. upto(n + 1) = upto(n) \cup {r}
      <4>1. 1..(n + 1) = (1..n) \cup {n + 1}
        OBVIOUS
      <4>2. QED
        BY <3>4, <4>1
    <3> HIDE DEF upto
    <3>8. Noted(c, upto(n + 1)) = Noted(c, upto(n)) \cup
              (IF Registers(r) THEN {<<c.src, r.owner, r.at>>} ELSE {})
      BY <3>7 DEF Noted
    <3>9. QED
      BY <3>3, <3>6, <3>8
  <2> HIDE DEF T
  <2>3. N \in T
    BY <2>1, <2>2, Climbing
  <2>4. QED
    BY <2>3 DEF T
<1>7. upto(N) = ToSet(uses)
  BY <1>1 DEF ToSet
<1>8. QED
  BY <1>2, <1>6, <1>7

\* All that is queued when the uses of a value have been followed.
Sent(c) == Concat([k \in DOMAIN UseSeq(c.val) |-> FlowsTo(c, UseSeq(c.val)[k])])

LEMMA SentIs ==
    ASSUME input \in Inputs, IndexOK, NoMethodTaken, NEW c \in Items
    PROVE  Carries(Sent(c), c, FlowsOn(c.val))
<1>1. PICK uses : uses = UseSeq(c.val)
  OBVIOUS
<1>2. /\ uses \in Seq(Uses(c.val)) /\ ToSet(uses) = Uses(c.val)
      /\ \A r \in Uses(c.val) : /\ Shape(r) /\ r.operand = c.val /\ r \in index.refs
                                /\ r.owner \in Fns /\ r.at \in DOMAIN Code(r.owner)
  BY <1>1, UseSeqIs
<1>3. \A r \in Uses(c.val) : Carries(FlowsTo(c, r), c, Onward(r))
  BY <1>2, FlowsToIs DEF NoMethodTaken
<1>4. PICK S : S = Items
  OBVIOUS
<1>5. PICK lists : lists = [k \in DOMAIN uses |-> FlowsTo(c, uses[k])]
  OBVIOUS
<1>6. PICK n \in Nat : DOMAIN uses = 1..n /\ \A k \in 1..n : uses[k] \in Uses(c.val)
  BY <1>2
<1>7. \A k \in 1..n : Carries(lists[k], c, Onward(uses[k]))
  BY <1>3, <1>5, <1>6
<1>8. \A k \in 1..n : lists[k] \in Seq(S)
  BY <1>4, <1>7 DEF Carries
<1>9. lists \in Seq(Seq(S)) /\ DOMAIN lists = 1..n
  BY <1>5, <1>6, <1>8
<1>10. /\ Concat(lists) \in Seq(S)
       /\ ToSet(Concat(lists)) = UNION {ToSet(lists[k]) : k \in DOMAIN lists}
  BY <1>9, ConcatIs
<1>11. Sent(c) = Concat(lists)
  BY <1>1, <1>5 DEF Sent
<1>12. FlowsOn(c.val) = UNION {Onward(r) : r \in Uses(c.val)}
  BY <1>2, FlowsOnIs
<1>13. Uses(c.val) = {uses[k] : k \in 1..n}
  BY <1>2, <1>6 DEF ToSet
<1>14. FlowsOn(c.val) = UNION {Onward(uses[k]) : k \in 1..n}
  BY <1>12, <1>13
<1>15. /\ \A q \in ToSet(Sent(c)) : \E k \in 1..n : q \in ToSet(lists[k])
       /\ \A k \in 1..n : ToSet(lists[k]) \subseteq ToSet(Sent(c))
  BY <1>9, <1>10, <1>11
<1>16. \A k \in 1..n : /\ {q.val : q \in ToSet(lists[k])} = Onward(uses[k])
                       /\ \A q \in ToSet(lists[k]) : q.src = c.src
  BY <1>7 DEF Carries
<1>17. \A q \in ToSet(Sent(c)) : q.src = c.src /\ q.val \in FlowsOn(c.val)
  BY <1>14, <1>15, <1>16
<1>18. \A w \in FlowsOn(c.val) : \E q \in ToSet(Sent(c)) : q.val = w
  BY <1>14, <1>15, <1>16
<1>19. {q.val : q \in ToSet(Sent(c))} = FlowsOn(c.val)
  BY <1>17, <1>18
<1>20. QED
  BY <1>4, <1>10, <1>11, <1>17, <1>19 DEF Carries

\* What is reached from a source's values: those, and what they flow on to, and no more.
SourceVals(f) == {s[1] : s \in {x \in Sources : x[2] = f}}

LEMMA OnwardIn ==
    ASSUME input \in Inputs, NEW r, r.owner \in Fns, r.at \in DOMAIN Code(r.owner)
    PROVE  Onward(r) \subseteq Vals
<1>1. PICK i, param :
         /\ i = InstrOf(r)
         /\ param = IF i.callee = 0 THEN {}
                    ELSE {<<i.callee, k>> : k \in {r.arg} \cap DOMAIN prog.fn[i.callee].params}
  OBVIOUS
<1>2. i.callee \in {0} \cup Fns /\ i.def \in Vals
  <2>1. i = Code(r.owner)[r.at]
    BY <1>1 DEF InstrOf
  <2>2. QED
    BY <2>1, InstrIs
<1>3. param \subseteq Vals
  BY <1>1, <1>2, ProgramIs
<1>4. QED
  BY <1>1, <1>2, <1>3 DEF Onward

LEMMA ReachedIs ==
    ASSUME input \in Inputs, IndexOK, NEW f
    PROVE  /\ SourceVals(f) \subseteq Reached(f) /\ Reached(f) \subseteq Vals
           /\ \A v \in Reached(f) : FlowsOn(v) \subseteq Reached(f)
           /\ \A v : FlowsOn(v) \subseteq Vals
           /\ \A S : /\ SourceVals(f) \subseteq S
                     /\ \A v \in Vals : v \in S => FlowsOn(v) \subseteq S
                     => Reached(f) \subseteq S
<1>1. SourceVals(f) \subseteq Vals
  <2>1. Sources \subseteq Vals \X Fns
    BY DEF IndexOK, IndexType, Sources
  <2>2. QED
    BY <2>1 DEF SourceVals
<1>2. ASSUME NEW v
      PROVE  FlowsOn(v) \subseteq Vals
  <2>1. \A r \in Uses(v) : Shape(r) /\ r.owner \in Fns /\ r.at \in DOMAIN Code(r.owner)
    BY UseSeqIs
  <2>2. FlowsOn(v) = UNION {Onward(r) : r \in Uses(v)}
    BY <2>1, FlowsOnIs
  <2>3. \A r \in Uses(v) : Onward(r) \subseteq Vals
    BY <2>1, OnwardIn
  <2>4. QED
    BY <2>2, <2>3
<1>3. PICK U, s, pairs : U = Vals /\ s = SourceVals(f) /\ pairs = FlowPairs
  OBVIOUS
<1>4. \A d : d \in pairs <=> \E v \in U : \E w \in FlowsOn(v) : d = <<v, w>>
  BY <1>3 DEF FlowPairs, Vals
<1>5. IsFiniteSet(U) /\ s \subseteq U /\ pairs \subseteq U \X U
  BY <1>1, <1>2, <1>3, <1>4, ProgramIs
<1>6. PICK R : R = Within(s, Cardinality(U), pairs)
  OBVIOUS
<1>7. /\ R \in SUBSET U /\ s \subseteq R /\ Closed(R, pairs)
      /\ \A V : s \subseteq V /\ Closed(V, pairs) => R \subseteq V
  BY <1>5, <1>6, WithinCloses
<1>8. R = Reached(f)
  BY <1>3, <1>6 DEF Reached, SourceVals, Vals
<1>9. ASSUME NEW v \in R, NEW w \in FlowsOn(v)
      PROVE  w \in R
  <2>1. PICK d : d = <<v, w>>
    OBVIOUS
  <2>4. d[1] = v /\ d[2] = w
    BY <2>1
  <2>2. d \in pairs
    BY <1>4, <1>7, <2>1
  <2>3. QED
    BY <1>7, <2>2, <2>4 DEF Closed
<1>10. ASSUME NEW S, s \subseteq S, \A v \in U : v \in S => FlowsOn(v) \subseteq S
       PROVE  R \subseteq S
  <2>1. Closed(S, pairs)
    <3>1. ASSUME NEW d \in pairs, d[1] \in S
          PROVE  d[2] \in S
      <4>1. PICK v \in U : \E w \in FlowsOn(v) : d = <<v, w>>
        BY <1>4, <3>1
      <4>2. PICK w \in FlowsOn(v) : d = <<v, w>>
        BY <4>1
      <4>3. d[1] = v /\ d[2] = w
        BY <4>2
      <4>4. QED
        BY <1>10, <3>1, <4>2, <4>3
    <3>2. QED
      BY <3>1 DEF Closed
  <2>2. QED
    BY <1>7, <1>10, <2>1
<1>11. QED
  BY <1>2, <1>3, <1>7, <1>8, <1>9, <1>10

LEMMA SourcesListed ==
    ASSUME input \in Inputs, IndexOK
    PROVE  /\ FirstQueue \in Seq(Items)
           /\ \A q \in ToSet(FirstQueue) : <<q.val, q.src>> \in Sources
           /\ \A s \in Sources : Uses(s[1]) # {} =>
                 \E q \in ToSet(FirstQueue) : q.val = s[1] /\ q.src = s[2]
<1>1. Sources \subseteq Vals \X Fns /\ IsFiniteSet(Sources)
  <2>1. Sources \subseteq Vals \X Fns
    BY DEF IndexOK, IndexType, Sources
  <2>2. IsFiniteSet(Vals) /\ IsFiniteSet(Fns)
    BY ProgramIs
  <2>3. QED
    BY <2>1, <2>2, FS_Product, FS_Subset
<1>2. PICK used, P : used = {s \in Sources : Uses(s[1]) # {}} /\ P = SourcePairs(used)
  OBVIOUS
<1>3. used \subseteq Vals \X Fns /\ IsFiniteSet(used) /\ used \subseteq Sources
  BY <1>1, <1>2, FS_Subset
<1>4. StrictOrder(used, P)
  BY <1>2, <1>3, SourcesInOrder
<1>5. PICK order : order = InOrder(used, P)
  OBVIOUS
<1>6. order \in Seq(used) /\ ToSet(order) = used
  BY <1>3, <1>4, <1>5, InOrderLists
<1>7. FirstQueue = [k \in DOMAIN order |->
                       [val |-> order[k][1], src |-> order[k][2], chain |-> <<>>]]
  <2>1. P = {x \in used \X used : EarlierSource(x[1], x[2])}
    BY <1>2 DEF SourcePairs
  <2>2. QED
    BY <1>2, <1>5, <2>1 DEF FirstQueue
<1>8. PICK n \in Nat : DOMAIN order = 1..n /\ \A k \in 1..n : order[k] \in used
  BY <1>6
<1>9. ASSUME NEW k \in 1..n
      PROVE  /\ FirstQueue[k] \in Items
             /\ FirstQueue[k].val = order[k][1] /\ FirstQueue[k].src = order[k][2]
  <2>1. PICK s : s = order[k] /\ s \in Vals \X Fns
    BY <1>3, <1>8
  <2>2. FirstQueue[k] = [val |-> s[1], src |-> s[2], chain |-> <<>>]
    BY <1>7, <1>8, <2>1
  <2>3. <<>> \in Seq(Links)
    OBVIOUS
  <2>4. s[1] \in Vals /\ s[2] \in Fns
    BY <2>1
  <2>5. FirstQueue[k] \in Items
    BY <2>2, <2>3, <2>4 DEF Items
  <2>6. QED
    BY <2>1, <2>2, <2>5
<1>10. PICK fq, S : fq = FirstQueue /\ S = Items
  OBVIOUS
<1>11. DOMAIN fq = 1..n /\ \A k \in 1..n : fq[k] \in S
  BY <1>7, <1>8, <1>9, <1>10
<1>12. fq = [k \in 1..n |-> fq[k]]
  BY <1>7, <1>8, <1>10
<1>13. fq \in Seq(S)
  BY <1>11, <1>12
<1>14. ToSet(fq) = {fq[k] : k \in 1..n} /\ used = {order[k] : k \in 1..n}
  BY <1>6, <1>8, <1>11 DEF ToSet
<1>15. \A k \in 1..n : order[k] = <<fq[k].val, fq[k].src>>
  <2>1. ASSUME NEW k \in 1..n
        PROVE  order[k] = <<fq[k].val, fq[k].src>>
    <3>1. order[k] = <<order[k][1], order[k][2]>>
      BY <1>3, <1>8
    <3>2. QED
      BY <1>9, <1>10, <3>1
  <2>2. QED
    BY <2>1
<1>16. \A q \in ToSet(fq) : <<q.val, q.src>> \in Sources
  BY <1>3, <1>8, <1>14, <1>15
<1>17. ASSUME NEW s \in Sources, Uses(s[1]) # {}
       PROVE  \E q \in ToSet(fq) : q.val = s[1] /\ q.src = s[2]
  <2>1. s \in used
    BY <1>2, <1>17
  <2>2. PICK k \in 1..n : s = order[k]
    BY <1>14, <2>1
  <2>3. fq[k] \in ToSet(fq) /\ fq[k].val = s[1] /\ fq[k].src = s[2]
    BY <1>9, <1>10, <1>14, <2>2
  <2>4. QED
    BY <2>3
<1>18. QED
  BY <1>10, <1>13, <1>16, <1>17

\* What the flow keeps to: all that is queued is reached from a source, all that was
\* found is a registration, and what a value that has been followed leads to is queued
\* or has been followed, and where it is registered has been found.
SourceFns == {s[2] : s \in Sources}
Awaits(q, vis, f, v) ==
    <<f, KeyOf(v)>> \in vis \/ \E c \in ToSet(q) : c.src = f /\ c.val = v
Followed(q, vis, fl, f, v) ==
    /\ \A w \in FlowsOn(v) : Awaits(q, vis, f, w)
    /\ \A r \in Uses(v) : Registers(r) => <<f, r.owner, r.at>> \in Triples(fl)
Holding(q, vis, fl) ==
    /\ IsFlow(fl) /\ q \in Seq(Items) /\ Triples(fl) \subseteq Registrations
    /\ \A c \in ToSet(q) : c.src \in SourceFns /\ c.val \in Reached(c.src)
    /\ \A s \in Sources : Uses(s[1]) = {} \/ Awaits(q, vis, s[2], s[1])
    /\ \A f : \A v \in Vals : <<f, KeyOf(v)>> \in vis => Followed(q, vis, fl, f, v)
Unambiguous == Distinct /\ NoMethodTaken
FlowInv ==
    /\ phase \notin {"flow", "done"} => flow = NoFlow
    /\ phase \in {"flow", "done"} /\ Unambiguous => Holding(queue, visited, flow)
    /\ phase = "done" => queue = <<>>

LEMMA FlowValueIs ==
    ASSUME FlowValue
    PROVE  /\ phase = "flow" /\ queue # <<>>
           /\ UNCHANGED <<input, phase, index>>
           /\ TaintKey(Head(queue)) \in visited =>
                 queue' = Tail(queue) /\ UNCHANGED <<visited, flow>>
           /\ TaintKey(Head(queue)) \notin visited =>
                 /\ visited' = visited \cup {TaintKey(Head(queue))}
                 /\ flow' = Recorded(flow, Head(queue), UseSeq(Head(queue).val))
                 /\ queue' = Tail(queue) \o Sent(Head(queue))
<1>1. /\ phase = "flow" /\ queue # <<>>
      /\ UNCHANGED <<input, phase, index>>
  BY DEF FlowValue
<1>2. TaintKey(Head(queue)) \in visited =>
         queue' = Tail(queue) /\ UNCHANGED <<visited, flow>>
  BY ZenonT(60) DEF FlowValue
<1>3. TaintKey(Head(queue)) \notin visited =>
         /\ visited' = Mark(Head(queue))
         /\ flow' = Recorded(flow, Head(queue), UseSeq(Head(queue).val))
         /\ queue' = Tail(queue) \o Sent(Head(queue))
  BY ZenonT(60) DEF FlowValue, Recorded, Sent
<1>4. QED
  BY <1>1, <1>2, <1>3 DEF Mark

\* Taking the first item from the queue.
LEMMA TakenFrom ==
    ASSUME NEW S, NEW q \in Seq(S), q # <<>>
    PROVE  /\ Head(q) \in S /\ Tail(q) \in Seq(S) /\ Head(q) \in ToSet(q)
           /\ ToSet(q) = {Head(q)} \cup ToSet(Tail(q))
<1>1. PICK n \in Nat : n = Len(q) /\ n # 0 /\ DOMAIN q = 1..n /\ \A k \in 1..n : q[k] \in S
  OBVIOUS
<1>2. 1 \in 1..n /\ Head(q) = q[1] /\ n - 1 \in Nat
  BY <1>1
<1>3. PICK t : t = Tail(q)
  OBVIOUS
<1>4. t \in Seq(S) /\ DOMAIN t = 1..(n - 1) /\ \A k \in 1..(n - 1) : t[k] = q[k + 1]
  BY <1>1, <1>3
<1>5. ToSet(q) = {q[k] : k \in 1..n} /\ ToSet(t) = {t[k] : k \in 1..(n - 1)}
  BY <1>1, <1>4 DEF ToSet
<1>6. \A k \in 1..(n - 1) : k + 1 \in 1..n
  BY <1>1
<1>7. \A k \in 1..n : k = 1 \/ (k - 1 \in 1..(n - 1) /\ (k - 1) + 1 = k)
  BY <1>1
<1>8. ToSet(t) \subseteq ToSet(q)
  BY <1>4, <1>5, <1>6
<1>9. \A k \in 1..n : q[k] = q[1] \/ q[k] \in ToSet(t)
  BY <1>4, <1>5, <1>7
<1>10. q[1] \in ToSet(q) /\ q[1] \in S
  BY <1>1, <1>2, <1>5
<1>11. QED
  BY <1>2, <1>3, <1>4, <1>5, <1>8, <1>9, <1>10

LEMMA FlowSteps ==
    ASSUME input \in Inputs, IndexOK, Unambiguous, Holding(queue, visited, flow), FlowValue
    PROVE  Holding(queue', visited', flow')
<1>1. PICK q, vis, fl : q = queue /\ vis = visited /\ fl = flow
  OBVIOUS
<1>2. /\ IsFlow(fl) /\ q \in Seq(Items) /\ Triples(fl) \subseteq Registrations
      /\ \A c \in ToSet(q) : c.src \in SourceFns /\ c.val \in Reached(c.src)
      /\ \A s \in Sources : Uses(s[1]) = {} \/ Awaits(q, vis, s[2], s[1])
      /\ \A f : \A v \in Vals : <<f, KeyOf(v)>> \in vis => Followed(q, vis, fl, f, v)
  BY <1>1 DEF Holding
<1>3. PICK c, t : c = Head(q) /\ t = Tail(q)
  OBVIOUS
<1>4. q # <<>>
  BY <1>1, FlowValueIs
<1>5. c \in Items /\ t \in Seq(Items) /\ ToSet(q) = {c} \cup ToSet(t) /\ c \in ToSet(q)
  <2>1. PICK S : S = Items
    OBVIOUS
  <2>2. q \in Seq(S)
    BY <1>2, <2>1
  <2>3. /\ Head(q) \in S /\ Tail(q) \in Seq(S) /\ Head(q) \in ToSet(q)
        /\ ToSet(q) = {Head(q)} \cup ToSet(Tail(q))
    BY <1>4, <2>2, TakenFrom
  <2>4. QED
    BY <1>3, <2>1, <2>3
<1>6. c.val \in Vals /\ c.src \in SourceFns /\ c.val \in Reached(c.src)
  BY <1>2, <1>5 DEF Items
<1>7. TaintKey(c) = <<c.src, KeyOf(c.val)>>
  BY DEF TaintKey
<1>8. CASE TaintKey(c) \in vis
  <2>1. queue' = t /\ visited' = vis /\ flow' = fl
    BY <1>1, <1>3, <1>8, FlowValueIs
  <2>2. ASSUME NEW f, NEW v, Awaits(q, vis, f, v)
        PROVE  Awaits(t, vis, f, v)
    BY <1>5, <1>7, <1>8, <2>2 DEF Awaits
  <2>3. \A f : \A v \in Vals : <<f, KeyOf(v)>> \in vis => Followed(t, vis, fl, f, v)
    BY <1>2, <2>2 DEF Followed
  <2>4. \A d \in ToSet(t) : d.src \in SourceFns /\ d.val \in Reached(d.src)
    BY <1>2, <1>5
  <2>5. \A s \in Sources : Uses(s[1]) = {} \/ Awaits(t, vis, s[2], s[1])
    BY <1>2, <2>2
  <2>6. Holding(t, vis, fl)
    BY <1>2, <1>5, <2>3, <2>4, <2>5 DEF Holding
  <2>7. QED
    BY <2>1, <2>6
<1>9. CASE TaintKey(c) \notin vis
  <2>1. PICK u, more, gl, p :
           /\ u = UseSeq(c.val) /\ more = Sent(c) /\ gl = Recorded(fl, c, u)
           /\ p = t \o more
    OBVIOUS
  <2>2. PICK seen : seen = vis \cup {<<c.src, KeyOf(c.val)>>}
    OBVIOUS
  <2>3. queue' = p /\ visited' = seen /\ flow' = gl
    BY <1>1, <1>3, <1>7, <1>9, <2>1, <2>2, FlowValueIs
  <2>4. /\ u \in Seq(Uses(c.val)) /\ ToSet(u) = Uses(c.val)
        /\ \A r \in Uses(c.val) : Shape(r) /\ r.operand = c.val /\ r \in index.refs
    BY <2>1, UseSeqIs
  <2>5. /\ IsFlow(gl) /\ Triples(gl) = Triples(fl) \cup Noted(c, Uses(c.val))
    <3>1. PICK R : R = Uses(c.val)
      OBVIOUS
    <3>2. u \in Seq(R) /\ \A r \in R : Shape(r) /\ r.operand = c.val
      BY <2>4, <3>1
    <3>3. /\ IsFlow(Recorded(fl, c, u))
          /\ Triples(Recorded(fl, c, u)) = Triples(fl) \cup Noted(c, ToSet(u))
      BY <1>2, <3>2, RecordedIs
    <3>4. QED
      BY <2>1, <2>4, <3>3
  <2>6. /\ more \in Seq(Items) /\ {d.val : d \in ToSet(more)} = FlowsOn(c.val)
        /\ \A d \in ToSet(more) : d.src = c.src
    <3>1. NoMethodTaken
      BY DEF Unambiguous
    <3>2. Carries(more, c, FlowsOn(c.val))
      BY <1>5, <2>1, <3>1, SentIs
    <3>3. QED
      BY <3>2 DEF Carries
  <2>7. p \in Seq(Items) /\ ToSet(p) = ToSet(t) \cup ToSet(more)
    <3>1. PICK S : S = Items
      OBVIOUS
    <3>2. t \in Seq(S) /\ more \in Seq(S)
      BY <1>5, <2>6, <3>1
    <3>3. t \o more \in Seq(S) /\ ToSet(t \o more) = ToSet(t) \cup ToSet(more)
      BY <3>2, JoinedSet
    <3>4. QED
      BY <2>1, <3>1, <3>3
  <2>8. ASSUME NEW f, NEW v, Awaits(q, vis, f, v)
        PROVE  Awaits(p, seen, f, v)
    BY <1>5, <2>2, <2>7, <2>8 DEF Awaits
  <2>9. Triples(gl) \subseteq Registrations
    <3>1. ASSUME NEW r \in Uses(c.val), Registers(r)
          PROVE  <<c.src, r.owner, r.at>> \in Registrations
      <4>1. r \in index.refs /\ r.operand \in Reached(c.src)
        BY <1>6, <2>4
      <4>2. c.src \in {s[2] : s \in Sources}
        BY <1>6 DEF SourceFns
      <4>3. QED
        BY <3>1, <4>1, <4>2 DEF Registrations
    <3>2. Noted(c, Uses(c.val)) \subseteq Registrations
      BY <3>1 DEF Noted
    <3>3. QED
      BY <1>2, <2>5, <3>2
  <2>10. ASSUME NEW d \in ToSet(p)
         PROVE  d.src \in SourceFns /\ d.val \in Reached(d.src)
    <3>1. CASE d \in ToSet(t)
      BY <1>2, <1>5, <3>1
    <3>2. CASE d \in ToSet(more)
      <4>1. d.src = c.src /\ d.val \in FlowsOn(c.val)
        BY <2>6, <3>2
      <4>2. FlowsOn(c.val) \subseteq Reached(c.src)
        BY <1>6, ReachedIs
      <4>3. QED
        BY <1>6, <4>1, <4>2
    <3>3. QED
      BY <2>7, <2>10, <3>1, <3>2
  <2>11. \A s \in Sources : Uses(s[1]) = {} \/ Awaits(p, seen, s[2], s[1])
    BY <1>2, <2>8
  <2>12. ASSUME NEW f, NEW v \in Vals, <<f, KeyOf(v)>> \in seen
         PROVE  Followed(p, seen, gl, f, v)
    <3>1. CASE <<f, KeyOf(v)>> \in vis
      <4>1. Followed(q, vis, fl, f, v)
        BY <1>2, <3>1
      <4>2. Triples(fl) \subseteq Triples(gl)
        BY <2>5
      <4>3. QED
        BY <2>8, <4>1, <4>2 DEF Followed
    <3>2. CASE <<f, KeyOf(v)>> \notin vis
      <4>1. f = c.src /\ KeyOf(v) = KeyOf(c.val)
        BY <2>2, <2>12, <3>2
      <4>2. v = c.val
        BY <1>6, <4>1 DEF Unambiguous, Distinct, Vals
      <4>3. \A w \in FlowsOn(v) : Awaits(p, seen, f, w)
        <5>1. ASSUME NEW w \in FlowsOn(v)
              PROVE  Awaits(p, seen, f, w)
          <6>1. PICK d \in ToSet(more) : d.val = w
            BY <2>6, <4>2
          <6>2. d \in ToSet(p) /\ d.src = f
            BY <2>6, <2>7, <4>1
          <6>3. QED
            BY <6>1, <6>2 DEF Awaits
        <5>2. QED
          BY <5>1
      <4>4. \A r \in Uses(v) : Registers(r) => <<f, r.owner, r.at>> \in Triples(gl)
        BY <2>5, <4>1, <4>2 DEF Noted
      <4>5. QED
        BY <4>3, <4>4 DEF Followed
    <3>3. QED
      BY <3>1, <3>2
  <2>13. Holding(p, seen, gl)
    BY <2>5, <2>7, <2>9, <2>10, <2>11, <2>12 DEF Holding
  <2>14. QED
    BY <2>3, <2>13
<1>10. QED
  BY <1>8, <1>9

\* As long as the program and what is indexed stay, so does what the flow keeps to.
LEMMA SameUses ==
    ASSUME UNCHANGED input, index'.refs = index.refs, index'.sources = index.sources
    PROVE  /\ Unambiguous' <=> Unambiguous
           /\ \A q, vis, fl : Holding(q, vis, fl)' <=> Holding(q, vis, fl)
<1>1. /\ Fns' = Fns /\ Vals' = Vals /\ prog' = prog
      /\ \A r : InstrOf(r)' = InstrOf(r)
      /\ \A v : KeyOf(v)' = KeyOf(v)
  BY SameProgram
<1>2. Sources' = Sources /\ SourceFns' = SourceFns /\ Items' = Items
  BY <1>1 DEF Sources, SourceFns, Items, Links
<1>3. \A v : Uses(v)' = Uses(v)
  BY DEF Uses
<1>4. \A r : TakenForCall(r)' <=> TakenForCall(r)
  BY <1>1 DEF TakenForCall, IsArg
<1>5. \A v : FlowsOn(v)' = FlowsOn(v)
  BY <1>1, <1>3, <1>4 DEF FlowsOn, IsArg
<1>6. FlowPairs' = FlowPairs
  BY <1>1, <1>5 DEF FlowPairs
<1>7. \A f : Reached(f)' = Reached(f)
  BY <1>1, <1>2, <1>6 DEF Reached
<1>8. \A r : Registers(r)' <=> Registers(r)
  <2>1. ASSUME NEW r
        PROVE  Registers(r)' <=> Registers(r)
    <3>1. ParamTypes(InstrOf(r))' = ParamTypes(InstrOf(r))
      BY <1>1 DEF ParamTypes
    <3>2. QED
      BY <1>1, <1>4, <3>1 DEF Registers, IsArg, IsInterface, HasServeHTTP
  <2>2. QED
    BY <2>1
<1>9. Registrations' = Registrations
  BY <1>2, <1>7, <1>8 DEF Registrations
<1>10. Unambiguous' <=> Unambiguous
  <2>1. Distinct' <=> Distinct
    BY <1>1 DEF Distinct
  <2>2. NoMethodTaken' <=> NoMethodTaken
    BY <1>1 DEF NoMethodTaken, IsArg
  <2>3. QED
    BY <2>1, <2>2 DEF Unambiguous
<1>11. ASSUME NEW q, NEW vis, NEW fl
       PROVE  Holding(q, vis, fl)' <=> Holding(q, vis, fl)
  <2>1. \A f, v : Awaits(q, vis, f, v)' <=> Awaits(q, vis, f, v)
    BY <1>1 DEF Awaits
  <2>2. \A f, v : Followed(q, vis, fl, f, v)' <=> Followed(q, vis, fl, f, v)
    BY <1>3, <1>5, <1>8, <2>1 DEF Followed, Triples
  <2>3. QED
    BY <1>1, <1>2, <1>3, <1>7, <1>9, <2>1, <2>2 DEF Holding, Triples, IsFlow
<1>12. QED
  BY <1>10, <1>11

LEMMA HeldOver ==
    ASSUME UNCHANGED input, index'.refs = index.refs, index'.sources = index.sources,
           phase' \in {"flow", "done"},
           Unambiguous => Holding(queue', visited', flow'),
           phase' = "done" => queue' = <<>>
    PROVE  FlowInv'
<1>1. Unambiguous' <=> Unambiguous
  BY SameUses
<1>2. PICK q, vis, fl : q = queue' /\ vis = visited' /\ fl = flow'
  OBVIOUS
<1>3. Holding(q, vis, fl)' <=> Holding(q, vis, fl)
  BY SameUses
<1>4. Unambiguous' => Holding(queue, visited, flow)'
  BY <1>1, <1>2, <1>3
<1>5. QED
  BY <1>4 DEF FlowInv

LEMMA FlowOpens ==
    ASSUME TypeInv, FlowInv, CloseIndex
    PROVE  FlowInv'
<1>1. /\ UNCHANGED <<input, flow>> /\ phase = "scan" /\ phase' = "flow"
      /\ queue' = FirstQueue /\ visited' = {}
      /\ index' = [index EXCEPT !.skipped =
                      [f \in Fns |->
                          IF @[f] = "" /\ f \in ToSet(index.order) \ index.scanned
                          THEN "max_functions" ELSE @[f]]]
  BY ZenonT(60) DEF CloseIndex
<1>2. input \in Inputs /\ IndexOK /\ index \in IndexType
  BY DEF TypeInv, IndexOK
<1>3. index'.refs = index.refs /\ index'.sources = index.sources
  BY <1>1, <1>2 DEF IndexType
<1>4. flow' = NoFlow /\ IsFlow(NoFlow) /\ NoFlow.sites = {}
  BY <1>1 DEF FlowInv, NoFlow, IsFlow
<1>5. Triples(NoFlow) = {}
  BY <1>4 DEF Triples
<1>6. PICK q, fl : q = FirstQueue /\ fl = NoFlow
  OBVIOUS
<1>7. /\ q \in Seq(Items) /\ \A c \in ToSet(q) : <<c.val, c.src>> \in Sources
      /\ \A s \in Sources : Uses(s[1]) # {} => \E c \in ToSet(q) : c.val = s[1] /\ c.src = s[2]
  BY <1>2, <1>6, SourcesListed
<1>8. ASSUME NEW c \in ToSet(q)
      PROVE  c.src \in SourceFns /\ c.val \in Reached(c.src)
  <2>1. PICK s \in Sources : s = <<c.val, c.src>>
    BY <1>7, <1>8
  <2>2. s[1] = c.val /\ s[2] = c.src
    BY <2>1
  <2>3. c.src \in SourceFns /\ c.val \in SourceVals(c.src)
    BY <2>1, <2>2 DEF SourceFns, SourceVals
  <2>4. QED
    BY <1>2, <2>3, ReachedIs
<1>9. \A s \in Sources : Uses(s[1]) = {} \/ Awaits(q, {}, s[2], s[1])
  BY <1>7 DEF Awaits
<1>10. Holding(q, {}, fl)
  BY <1>4, <1>5, <1>6, <1>7, <1>8, <1>9 DEF Holding
<1>11. Holding(queue', visited', flow')
  BY <1>1, <1>4, <1>6, <1>10
<1>12. QED
  BY <1>1, <1>3, <1>11, HeldOver

LEMMA FlowInit == Init => FlowInv
BY DEF Init, FlowInv

LEMMA FlowNext == ProbeInv /\ FlowInv /\ [Next]_vars => FlowInv'
<1> SUFFICES ASSUME ProbeInv, FlowInv, [Next]_vars
             PROVE  FlowInv'
  OBVIOUS
<1>1. TypeInv /\ LateInv /\ ModeInv /\ BridgeInv /\ BridgeLimits /\ input \in Inputs /\ IndexOK
  BY DEF ProbeInv, TypeInv
<1>2. ASSUME UNCHANGED flow, phase' \notin {"flow", "done"}, phase \notin {"flow", "done"}
      PROVE  FlowInv'
  <2>1. flow' = NoFlow
    BY <1>2 DEF FlowInv
  <2>2. NoFlow' = NoFlow
    BY DEF NoFlow
  <2>3. QED
    BY <1>2, <2>1, <2>2 DEF FlowInv
<1>3. CASE BuildGraph \/ OpenReverse \/ VisitNode \/ CloseReverse
  BY <1>2, <1>3 DEF BuildGraph, OpenReverse, VisitNode, CloseReverse, First
<1>4. CASE FrontierStep
  <2>1. UNCHANGED flow
    BY <1>4 DEF FrontierStep, FrontierRoots, FrontierRoot, FrontierCaller,
       FrontierReversed, AdjacentOwner, AssembleFrontier, FrontierUnchanged
  <2>2. /\ phase \notin {"flow", "done"} /\ phase' \notin {"flow", "done"}
    BY <1>1, <1>4, FrontierSteps DEF FrontierStep, FrontierRoots, FrontierRoot, FrontierCaller,
       FrontierReversed, AdjacentOwner, AssembleFrontier
  <2>3. QED
    BY <1>2, <2>1, <2>2
<1>5. CASE SeedPaths \/ SeedSinks \/ Expand \/ OracleStart \/ OracleEnd
  <2>1. UNCHANGED flow /\ phase \notin {"flow", "done"}
    BY <1>5 DEF SeedPaths, SeedSinks, Expand, OracleStart, OracleEnd, BridgeUnchanged
  <2>2. phase' \in {"sinks", "expand", "index", "oracle"}
    BY <1>1, <1>5, SinkSteps, ExpandStep, OracleSteps
  <2>3. QED
    BY <1>2, <2>1, <2>2
<1>6. CASE SelectStarts \/ StartPackage \/ BridgeOwner \/ AssembleBridge
  <2>1. phase' \in {"bridge", "index"}
    BY <1>1, <1>6, BridgeSteps
  <2>2. UNCHANGED flow /\ phase \in {"starts", "bridge"}
    BY <1>6 DEF SelectStarts, StartPackage, BridgeOwner, AssembleBridge, BridgeUnchanged
  <2>3. QED
    BY <1>2, <2>1, <2>2
<1>7. CASE OpenIndex \/ IndexOwner
  BY <1>2, <1>7 DEF OpenIndex, IndexOwner
<1>8. CASE CloseIndex
  BY <1>1, <1>8, FlowOpens
<1>9. CASE FlowValue
  <2>1. phase = "flow" /\ UNCHANGED <<input, phase, index>>
    BY <1>9, FlowValueIs
  <2>2. Unambiguous => Holding(queue', visited', flow')
    BY <1>1, <1>9, <2>1, FlowSteps DEF FlowInv
  <2>3. QED
    BY <2>1, <2>2, HeldOver
<1>10. CASE EndFlow \/ Return \/ UNCHANGED vars
  <2>1. /\ UNCHANGED <<input, index, queue, visited, flow>>
        /\ phase' = phase \/ (phase = "flow" /\ phase' = "done" /\ queue = <<>>)
    BY <1>10 DEF EndFlow, Return, vars
  <2>2. CASE phase' \in {"flow", "done"}
    <3>1. phase \in {"flow", "done"}
      BY <2>1, <2>2
    <3>2. Unambiguous => Holding(queue', visited', flow')
      BY <2>1, <3>1 DEF FlowInv
    <3>3. phase' = "done" => queue' = <<>>
      BY <2>1 DEF FlowInv
    <3>4. QED
      BY <2>1, <2>2, <3>2, <3>3, HeldOver
  <2>3. CASE phase' \notin {"flow", "done"}
    <3>1. phase \notin {"flow", "done"}
      BY <2>1, <2>3
    <3>2. QED
      BY <1>2, <2>1, <2>3, <3>1
  <2>4. QED
    BY <2>2, <2>3
<1>11. QED
  BY <1>3, <1>4, <1>5, <1>6, <1>7, <1>8, <1>9, <1>10 DEF Next, BridgeStep

\* With nothing queued, all that was reached has been followed, or has no uses.
LEMMA FlowHolds == ProbeInv /\ FlowInv => FlowIsExact
<1> SUFFICES ASSUME ProbeInv, FlowInv, phase = "done", Distinct, NoMethodTaken
             PROVE  Found = Registrations
  BY DEF FlowIsExact
<1>1. input \in Inputs /\ IndexOK
  BY DEF ProbeInv, TypeInv
<1>2. queue = <<>> /\ Holding(<<>>, visited, flow)
  BY DEF FlowInv, Unambiguous
<1>3. ToSet(<<>>) = {}
  <2>1. DOMAIN <<>> = {}
    OBVIOUS
  <2>2. QED
    BY <2>1 DEF ToSet
<1>4. \A f, v : Awaits(<<>>, visited, f, v) <=> <<f, KeyOf(v)>> \in visited
  BY <1>3 DEF Awaits
<1>5. /\ Triples(flow) \subseteq Registrations
      /\ \A s \in Sources : Uses(s[1]) = {} \/ <<s[2], KeyOf(s[1])>> \in visited
      /\ \A f : \A v \in Vals : <<f, KeyOf(v)>> \in visited =>
             /\ \A w \in FlowsOn(v) : <<f, KeyOf(w)>> \in visited
             /\ \A r \in Uses(v) : Registers(r) => <<f, r.owner, r.at>> \in Triples(flow)
  BY <1>2, <1>4 DEF Holding, Followed
<1>6. ASSUME NEW f
      PROVE  \A v \in Reached(f) : Uses(v) = {} \/ <<f, KeyOf(v)>> \in visited
  <2> DEFINE S == {v \in Vals : Uses(v) = {} \/ <<f, KeyOf(v)>> \in visited}
  <2>1. SourceVals(f) \subseteq S
    <3>1. SourceVals(f) \subseteq Vals
      BY <1>1, ReachedIs
    <3>2. \A v \in SourceVals(f) : \E s \in Sources : s[1] = v /\ s[2] = f
      BY DEF SourceVals
    <3>3. QED
      BY <1>5, <3>1, <3>2
  <2>2. ASSUME NEW v \in Vals, v \in S
        PROVE  FlowsOn(v) \subseteq S
    <3>1. FlowsOn(v) \subseteq Vals
      BY <1>1, ReachedIs
    <3>2. Uses(v) = {} => FlowsOn(v) = {}
      BY DEF FlowsOn
    <3>3. QED
      BY <1>5, <2>2, <3>1, <3>2
  <2> HIDE DEF S
  <2>3. Reached(f) \subseteq S
    BY <1>1, <2>1, <2>2, ReachedIs
  <2>4. QED
    BY <2>3 DEF S
<1>7. ASSUME NEW src, NEW r \in index.refs, Registers(r), r.operand \in Reached(src)
      PROVE  <<src, r.owner, r.at>> \in Triples(flow)
  <2>1. r \in Uses(r.operand)
    BY DEF Uses
  <2>2. Reached(src) \subseteq Vals
    BY <1>1, ReachedIs
  <2>3. <<src, KeyOf(r.operand)>> \in visited
    BY <1>6, <1>7, <2>1
  <2>4. QED
    BY <1>5, <1>7, <2>1, <2>2, <2>3
<1>8. Registrations \subseteq Triples(flow)
  BY <1>7 DEF Registrations
<1>9. QED
  BY <1>5, <1>8 DEF Found, Triples

\* Whatever the program and the options, when no two values have the same key and no
\* function is passed to a method, each function that was indexed as a source is found
\* registered at every place where the index has a reference to a value it reaches that
\* registers it, and at no other: the queue, the marks by key and the order in which the
\* references are met lose none and add none.
THEOREM FlowExact == Spec => []FlowIsExact
<1>1. Init => ProbeInv /\ FlowInv
  BY ProbeInit, FlowInit
<1>2. (ProbeInv /\ FlowInv) /\ [Next]_vars => (ProbeInv /\ FlowInv)'
  BY ProbeNext, FlowNext
<1>3. ProbeInv /\ FlowInv => FlowIsExact
  BY FlowHolds
<1>4. QED
  BY <1>1, <1>2, <1>3, PTL DEF Spec
=============================================================================
