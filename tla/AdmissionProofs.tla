---------------------------- MODULE AdmissionProofs ----------------------------
(***************************************************************************)
(* Theorems about Admission, for every set of paths, outcomes, roots and   *)
(* every number of lifts, and about the order of CutRanking it relies on.  *)
(*                                                                         *)
(* AdmissionInv is the inductive invariant: the types, the recommendation  *)
(* is the best feasible candidate (Ranked), what each control point knows  *)
(* (Control), and the chain follows the ranking.  Relative to it, LeafInv  *)
(* remembers what the trial of a candidate saw below it, OnceInv which     *)
(* candidates a recovery was run for, NamedInv how many candidates are     *)
(* left to try, and EvidenceInv which refusals the last verdict carries.   *)
(***************************************************************************)
EXTENDS Admission, FiniteSetTheorems, SequenceTheorems, WellFoundedInduction, TLAPS

-------------------------------------------------------------------------------
(* The order of the candidates of a path is a strict total order, so that    *)
(* sort.SliceStable is given a legal comparison and the recommendation is    *)
(* unique: it exists whenever a feasible candidate is left, and precedes     *)
(* every other one.                                                          *)

RankVectors == [Dimensions -> Nat]

\* Every rank vector consists of naturals.
LEMMA RankType ==
    ASSUME NEW c \in Candidate
    PROVE  Rank(c) \in RankVectors
<1>1. /\ surfaceRank(c.surface) \in Nat
      /\ callbackRank(c.callbacks) \in Nat
      /\ stateRankForSort(c.state) \in Nat
      /\ errorSemRank(c.errorSem) \in Nat
      /\ edgeAlignRank(c.edgeAlign) \in Nat
  BY DEF surfaceRank, callbackRank, stateRankForSort, errorSemRank, edgeAlignRank
<1>2. MaxStep - c.step \in Nat
  BY MaxStepAssumption DEF Candidate, Steps
<1>3. QED
  BY <1>1, <1>2 DEF Rank, RankVectors, Dimensions

\* The rank vector of a candidate ends with the distance of its step.
LEMMA RankStep ==
    ASSUME NEW c \in Candidate
    PROVE  Rank(c)[6] = MaxStep - c.step
BY DEF Rank

\* The lexicographic order is irreflexive.
LEMMA LexIrreflexive ==
    ASSUME NEW r \in RankVectors
    PROVE  ~LexLess(r, r)
BY DEF LexLess, RankVectors

\* The lexicographic order is transitive.
LEMMA LexTransitive ==
    ASSUME NEW r \in RankVectors, NEW s \in RankVectors, NEW t \in RankVectors,
           LexLess(r, s), LexLess(s, t)
    PROVE  LexLess(r, t)
<1>1. PICK i \in Dimensions : r[i] < s[i] /\ \A k \in 1..(i - 1) : r[k] = s[k]
  BY DEF LexLess
<1>2. PICK j \in Dimensions : s[j] < t[j] /\ \A k \in 1..(j - 1) : s[k] = t[k]
  BY DEF LexLess
<1>3. i \in Int /\ j \in Int /\ \A k \in 1..(i - 1) : k \in Dimensions
  BY DEF Dimensions
<1>4. \A k \in Dimensions : r[k] \in Nat /\ s[k] \in Nat /\ t[k] \in Nat
  BY DEF RankVectors
<1>5. CASE i <= j
  <2>1. r[i] < t[i]
    <3>1. CASE i = j
      BY <1>1, <1>2, <1>4, <3>1
    <3>2. CASE i < j
      <4>1. i \in 1..(j - 1)
        BY <1>3, <3>2 DEF Dimensions
      <4>2. QED BY <1>1, <1>2, <1>4, <4>1
    <3>3. QED BY <1>3, <1>5, <3>1, <3>2
  <2>2. \A k \in 1..(i - 1) : r[k] = t[k]
    BY <1>1, <1>2, <1>3, <1>5
  <2>3. QED BY <2>1, <2>2 DEF LexLess
<1>6. CASE j < i
  <2>1. j \in 1..(i - 1)
    BY <1>3, <1>6 DEF Dimensions
  <2>2. r[j] < t[j]
    BY <1>1, <1>2, <1>4, <2>1
  <2>3. \A k \in 1..(j - 1) : r[k] = t[k]
    BY <1>1, <1>2, <1>3, <1>6
  <2>4. QED BY <2>2, <2>3 DEF LexLess
<1>7. QED BY <1>3, <1>5, <1>6

\* Of two vectors that differ in the last dimension one comes first.
LEMMA LexTotal ==
    ASSUME NEW r \in RankVectors, NEW s \in RankVectors, r[6] # s[6]
    PROVE  LexLess(r, s) \/ LexLess(s, r)
<1> DEFINE Differ(i) == r[i] # s[i]
<1>1. \A k \in Dimensions : r[k] \in Nat /\ s[k] \in Nat
  BY DEF RankVectors
<1>2. \E i \in Dimensions : Differ(i) /\ \A k \in 1..(i - 1) : ~Differ(k)
  <2>1. CASE Differ(1)
    BY <2>1 DEF Dimensions
  <2>2. CASE ~Differ(1) /\ Differ(2)
    BY <2>2 DEF Dimensions
  <2>3. CASE ~Differ(1) /\ ~Differ(2) /\ Differ(3)
    BY <2>3 DEF Dimensions
  <2>4. CASE ~Differ(1) /\ ~Differ(2) /\ ~Differ(3) /\ Differ(4)
    BY <2>4 DEF Dimensions
  <2>5. CASE ~Differ(1) /\ ~Differ(2) /\ ~Differ(3) /\ ~Differ(4) /\ Differ(5)
    BY <2>5 DEF Dimensions
  <2>6. CASE ~Differ(1) /\ ~Differ(2) /\ ~Differ(3) /\ ~Differ(4) /\ ~Differ(5)
    BY <2>6 DEF Dimensions
  <2>7. QED BY <2>1, <2>2, <2>3, <2>4, <2>5, <2>6
<1>3. PICK i \in Dimensions : Differ(i) /\ \A k \in 1..(i - 1) : ~Differ(k)
  BY <1>2
<1>4. r[i] < s[i] \/ s[i] < r[i]
  BY <1>1, <1>3
<1>5. QED BY <1>3, <1>4 DEF LexLess

-------------------------------------------------------------------------------
\* The candidates of a cut, indexed by their step.
CandidateSlice(cs) ==
    /\ DOMAIN cs \subseteq Steps
    /\ \A s \in DOMAIN cs : cs[s] \in Candidate /\ cs[s].step = s

\* betterCutCandidate is a strict total order on the candidates of a path: the
\* comparison sort.SliceStable relies on.
THEOREM BetterIsStrictTotalOrder ==
    ASSUME NEW cs, CandidateSlice(cs),
           NEW a \in DOMAIN cs, NEW b \in DOMAIN cs, NEW c \in DOMAIN cs
    PROVE  /\ ~betterCutCandidate(cs[a], cs[a])
           /\ a # b => \/ betterCutCandidate(cs[a], cs[b])
                       \/ betterCutCandidate(cs[b], cs[a])
           /\ /\ betterCutCandidate(cs[a], cs[b])
              /\ betterCutCandidate(cs[b], cs[c])
              => betterCutCandidate(cs[a], cs[c])
<1> DEFINE x == cs[a]  y == cs[b]  z == cs[c]
<1>1. /\ x \in Candidate /\ y \in Candidate /\ z \in Candidate
      /\ x.step = a /\ y.step = b /\ z.step = c
      /\ a \in Nat /\ b \in Nat /\ c \in Nat
  BY MaxStepAssumption DEF CandidateSlice, Steps
<1>2. /\ x.feasible \in BOOLEAN /\ y.feasible \in BOOLEAN /\ z.feasible \in BOOLEAN
  BY <1>1 DEF Candidate
<1>3. Rank(x) \in RankVectors /\ Rank(y) \in RankVectors /\ Rank(z) \in RankVectors
  BY <1>1, RankType
<1>4. a # b => Rank(x)[6] # Rank(y)[6]
  BY <1>1, RankStep, MaxStepAssumption
<1> HIDE DEF x, y, z
<1>5. ~betterCutCandidate(x, x)
  BY <1>1, <1>2, <1>3, LexIrreflexive DEF betterCutCandidate
<1>6. a # b => betterCutCandidate(x, y) \/ betterCutCandidate(y, x)
  BY <1>1, <1>2, <1>3, <1>4, LexTotal DEF betterCutCandidate
<1>7. betterCutCandidate(x, y) /\ betterCutCandidate(y, z) => betterCutCandidate(x, z)
  BY <1>1, <1>2, <1>3, LexTransitive DEF betterCutCandidate
<1>8. QED BY <1>5, <1>6, <1>7 DEF x, y, z

-------------------------------------------------------------------------------
\* A measure on a non-empty set takes its least value somewhere.
LEMMA ArgMin ==
    ASSUME NEW T, T # {}, NEW f \in [T -> Nat]
    PROVE  \E m \in T : \A t \in T : f[m] <= f[t]
<1> DEFINE V == {f[t] : t \in T}
<1>1. V \subseteq Nat /\ V # {}
  OBVIOUS
<1>2. PICK v \in V : \A w \in V : ~(<<w, v>> \in OpToRel(<, Nat))
  BY <1>1, NatLessThanWellFounded, WFMin
<1>3. ASSUME NEW w \in V PROVE ~(w < v)
  <2>1. w \in Nat /\ v \in Nat
    BY <1>1
  <2>2. w < v => <<w, v>> \in OpToRel(<, Nat)
    BY <2>1, Zenon DEF OpToRel
  <2>3. QED BY <1>2, <2>2, Zenon
<1>4. \A w \in V : v <= w
  BY <1>1, <1>3
<1>5. QED BY <1>4

\* Some candidate of a non-empty set of candidates ranks before all others.
LEMMA LexMinimum ==
    ASSUME NEW cs, CandidateSlice(cs), NEW T \in SUBSET DOMAIN cs, T # {}
    PROVE  \E m \in T : \A t \in T \ {m} : LexLess(Rank(cs[m]), Rank(cs[t]))
<1> DEFINE R(t) == Rank(cs[t])
<1> DEFINE Argmins(S, i) == {m \in S : \A t \in S : R(m)[i] <= R(t)[i]}
<1>1. \A t \in T : R(t) \in RankVectors
  BY RankType DEF CandidateSlice
<1>2. ASSUME NEW S \in SUBSET T, S # {}, NEW i \in Dimensions
      PROVE  Argmins(S, i) # {}
  <2> DEFINE f == [t \in S |-> R(t)[i]]
  <2>1. f \in [S -> Nat]
    BY <1>1 DEF RankVectors
  <2>2. \E m \in S : \A t \in S : f[m] <= f[t]
    <3> HIDE DEF f
    <3> QED BY <1>2, <2>1, ArgMin
  <2>3. QED BY <2>2
<1> DEFINE T1 == Argmins(T, 1)   T2 == Argmins(T1, 2)  T3 == Argmins(T2, 3)
           T4 == Argmins(T3, 4)  T5 == Argmins(T4, 5)  T6 == Argmins(T5, 6)
<1>3. /\ T1 \subseteq T /\ T2 \subseteq T1 /\ T3 \subseteq T2 /\ T4 \subseteq T3
      /\ T5 \subseteq T4 /\ T6 \subseteq T5
  OBVIOUS
<1>4. /\ \A m \in T1, t \in T  : R(m)[1] <= R(t)[1]
      /\ \A m \in T2, t \in T1 : R(m)[2] <= R(t)[2]
      /\ \A m \in T3, t \in T2 : R(m)[3] <= R(t)[3]
      /\ \A m \in T4, t \in T3 : R(m)[4] <= R(t)[4]
      /\ \A m \in T5, t \in T4 : R(m)[5] <= R(t)[5]
      /\ \A m \in T6, t \in T5 : R(m)[6] <= R(t)[6]
  OBVIOUS
<1>5. T6 # {}
  <2>1. 1 \in Dimensions /\ 2 \in Dimensions /\ 3 \in Dimensions
        /\ 4 \in Dimensions /\ 5 \in Dimensions /\ 6 \in Dimensions
    BY DEF Dimensions
  <2> HIDE DEF Argmins
  <2>2. T1 # {} BY <1>2, <2>1
  <2>3. T2 # {} BY <1>2, <1>3, <2>1, <2>2
  <2>4. T3 # {} BY <1>2, <1>3, <2>1, <2>3
  <2>5. T4 # {} BY <1>2, <1>3, <2>1, <2>4
  <2>6. T5 # {} BY <1>2, <1>3, <2>1, <2>5
  <2>7. QED BY <1>2, <1>3, <2>1, <2>6
<1> HIDE DEF T1, T2, T3, T4, T5, T6, Argmins
<1>6. PICK m \in T6 : TRUE
  BY <1>5
<1>7. ASSUME NEW t \in T \ {m} PROVE LexLess(R(m), R(t))
  <2>1. ~LexLess(R(t), R(m))
    <3> SUFFICES ASSUME NEW i \in Dimensions, R(t)[i] < R(m)[i],
                        \A j \in 1..(i - 1) : R(t)[j] = R(m)[j]
                 PROVE  FALSE
      BY DEF LexLess
    <3>1. \A k \in Dimensions : R(m)[k] \in Nat /\ R(t)[k] \in Nat
      BY <1>1, <1>3, <1>6 DEF RankVectors
    <3>2. i \in 1..6
      BY DEF Dimensions
    <3>3. \A j \in 1..(i - 1) : j \in Dimensions
      BY <3>2 DEF Dimensions
    <3>4. m \in T1 /\ m \in T2 /\ m \in T3 /\ m \in T4 /\ m \in T5 /\ m \in T6
      BY <1>3, <1>6
    <3> HIDE DEF R
    <3>5. \A u \in {m, t} : \A k \in Dimensions : R(u)[k] \in Nat
      BY <3>1
    <3>6. i > 1 => t \in T1
      BY <1>7, <3>2, <3>4 DEF T1, Argmins
    <3>7. i > 2 => t \in T2
      BY <3>2, <3>4, <3>6 DEF T2, Argmins
    <3>8. i > 3 => t \in T3
      BY <3>2, <3>4, <3>7 DEF T3, Argmins
    <3>9. i > 4 => t \in T4
      BY <3>2, <3>4, <3>8 DEF T4, Argmins
    <3>10. i > 5 => t \in T5
      BY <3>2, <3>4, <3>9 DEF T5, Argmins
    <3>11. R(m)[i] <= R(t)[i]
      BY <1>4, <1>7, <3>2, <3>4, <3>6, <3>7, <3>8, <3>9, <3>10
    <3> QED BY <3>1, <3>11
  <2>2. cs[m] \in Candidate /\ cs[t] \in Candidate
        /\ cs[m].step = m /\ cs[t].step = t /\ m \in Nat /\ t \in Nat
    BY <1>3, <1>6, MaxStepAssumption DEF CandidateSlice, Steps
  <2>3. R(m)[6] # R(t)[6]
    BY <2>2, RankStep, MaxStepAssumption
  <2>4. QED BY <1>1, <1>3, <1>6, <2>1, <2>3, LexTotal
<1>8. QED BY <1>3, <1>6, <1>7

\* rankCutCandidates recommends a candidate exactly when a feasible one is left,
\* and the recommendation ranks before every other feasible candidate.
THEOREM RecommendedIsBest ==
    ASSUME NEW cs, CandidateSlice(cs)
    PROVE  /\ recommended(cs) \in {0} \cup FeasibleSteps(cs)
           /\ recommended(cs) = 0 <=> FeasibleSteps(cs) = {}
           /\ \A t \in FeasibleSteps(cs) \ {recommended(cs)} :
                 LexLess(Rank(cs[recommended(cs)]), Rank(cs[t]))
<1> DEFINE F == FeasibleSteps(cs)
<1>1. F \subseteq DOMAIN cs /\ 0 \notin F
  BY DEF FeasibleSteps, CandidateSlice, Steps
<1>2. CASE F = {}
  BY <1>2 DEF recommended
<1>3. CASE F # {}
  <2>1. \E m \in F : \A t \in F \ {m} : LexLess(Rank(cs[m]), Rank(cs[t]))
    BY <1>1, <1>3, LexMinimum
  <2>2. \A s, t \in F : betterCutCandidate(cs[s], cs[t])
                        <=> LexLess(Rank(cs[s]), Rank(cs[t]))
    BY DEF FeasibleSteps, betterCutCandidate
  <2>3. \E m \in F : \A t \in F \ {m} : betterCutCandidate(cs[m], cs[t])
    BY <2>1, <2>2
  <2>4. /\ recommended(cs) \in F
        /\ \A t \in F \ {recommended(cs)} :
              betterCutCandidate(cs[recommended(cs)], cs[t])
    BY <1>3, <2>3 DEF recommended
  <2>5. QED BY <1>1, <1>3, <2>2, <2>4
<1>4. QED BY <1>2, <1>3

-------------------------------------------------------------------------------
(* Candidates.                                                               *)

\* The slice of n candidates, each at its own step.
SliceOf(cs, n) == /\ n \in 0..MaxStep
                  /\ cs \in [1..n -> Candidate]
                  /\ \A s \in 1..n : cs[s].step = s

LEMMA SliceIsSlice ==
    ASSUME NEW cs, NEW n, SliceOf(cs, n)
    PROVE  CandidateSlice(cs) /\ DOMAIN cs = 1..n
BY MaxStepAssumption DEF SliceOf, CandidateSlice, Steps

\* Cut analysis turns a path into a slice of candidates.
LEMMA BuiltSlice ==
    ASSUME NEW path \in Paths
    PROVE  SliceOf(buildCutCandidates(path), Len(path))
<1>1. path \in Seq(PathNode) /\ Len(path) \in 0..MaxStep
  BY AdmissionAssumption
<1>2. DOMAIN path = 1..Len(path) /\ \A s \in 1..Len(path) : path[s] \in PathNode
  BY <1>1
<1>3. \A s, n : classifySurface(s, n) \in SurfaceClasses
  BY DEF classifySurface, SurfaceClasses
<1>4. \A b : defaultAdapterClass(b) \in AdapterClasses
  BY DEF defaultAdapterClass, AdapterClasses
<1>5. ASSUME NEW s \in 1..Len(path)
      PROVE  /\ buildCutCandidates(path)[s] \in Candidate
             /\ buildCutCandidates(path)[s].step = s
  <2>1. path[s] \in PathNode /\ s \in DOMAIN path /\ s \in Steps
    BY <1>1, <1>2, MaxStepAssumption DEF Steps
  <2>2. /\ classifySurface(s, Len(path) + 1) \in SurfaceClasses
        /\ defaultAdapterClass(path[s].boundary) \in AdapterClasses
    BY <1>3, <1>4
  <2>3. path[s].inProject \in BOOLEAN
    BY <2>1 DEF PathNode
  <2>4. (path[s].boundary \in FeasibleBoundary /\ path[s].inProject) \in BOOLEAN
    BY <2>3
  <2>5. QED BY <2>1, <2>2, <2>4 DEF buildCutCandidates, PathNode, Candidate
<1>6. buildCutCandidates(path) \in [1..Len(path) -> Candidate]
  BY <1>2, <1>5 DEF buildCutCandidates
<1>7. QED BY <1>1, <1>5, <1>6 DEF SliceOf

\* The slice cs with v in the place of the candidate at step s.
Replaced(cs, s, v) == [cs EXCEPT ![s] = v]

\* Replacing one candidate of a slice by one with the same step and rank leaves
\* the others, and every rank.
LEMMA ReplacedSlice ==
    ASSUME NEW cs, NEW n, SliceOf(cs, n), NEW s \in 1..n,
           NEW v \in Candidate, v.step = s, Rank(v) = Rank(cs[s]),
           NEW m, m = Replaced(cs, s, v)
    PROVE  /\ SliceOf(m, n)
           /\ \A t \in 1..n : Rank(m[t]) = Rank(cs[t])
           /\ \A t \in 1..n : t # s => m[t] = cs[t]
           /\ m[s] = v
<1>1. \A t \in 1..n : cs[t] \in Candidate /\ cs[t].step = t
  BY DEF SliceOf
<1>2. DOMAIN m = 1..n /\ m[s] = v /\ \A t \in 1..n : t # s => m[t] = cs[t]
  BY DEF SliceOf, Replaced
<1>3. \A t \in 1..n : m[t] \in Candidate /\ m[t].step = t
  BY <1>1, <1>2
<1>4. m = [t \in 1..n |-> m[t]]
  BY <1>2 DEF SliceOf, Replaced
<1>5. m \in [1..n -> Candidate]
  BY <1>3, <1>4
<1>6. QED BY <1>2, <1>3, <1>5 DEF SliceOf

\* Marking a step changes neither the feasible steps nor a rank.
LEMMA MarkedSlice ==
    ASSUME NEW cs, NEW n, SliceOf(cs, n), NEW s \in 1..n, NEW class \in AdapterClasses,
           NEW m, m = markCandidateAdapter(cs, s, class)
    PROVE  /\ SliceOf(m, n)
           /\ FeasibleSteps(m) = FeasibleSteps(cs)
           /\ \A t \in 1..n : Rank(m[t]) = Rank(cs[t])
           /\ \A t \in 1..n : t # s => m[t] = cs[t]
           /\ m[s].adapter = class
<1>1. cs[s] \in Candidate /\ cs[s].step = s
  BY DEF SliceOf
<1>2. PICK v : v = Regraded(cs[s], cs[s].feasible, class)
  OBVIOUS
<1>3. /\ v \in Candidate /\ v.step = s /\ Rank(v) = Rank(cs[s])
      /\ v.adapter = class /\ v.feasible = cs[s].feasible
  BY <1>1, <1>2 DEF Candidate, Rank, Regraded
<1>4. m = Replaced(cs, s, v)
  BY <1>2 DEF markCandidateAdapter, Replaced
<1>5. /\ SliceOf(m, n) /\ m[s] = v
      /\ \A t \in 1..n : Rank(m[t]) = Rank(cs[t])
      /\ \A t \in 1..n : t # s => m[t] = cs[t]
  BY <1>3, <1>4, ReplacedSlice
<1>6. FeasibleSteps(m) = FeasibleSteps(cs)
  <2>1. DOMAIN m = 1..n /\ DOMAIN cs = 1..n
    BY <1>5 DEF SliceOf
  <2>2. \A t \in 1..n : m[t].feasible = cs[t].feasible
    BY <1>3, <1>5
  <2>3. QED BY <2>1, <2>2 DEF FeasibleSteps
<1>7. QED BY <1>3, <1>5, <1>6

\* Marking and demoting a step takes exactly that step out of the feasible ones
\* and leaves every rank as it was.
LEMMA DemotedSlice ==
    ASSUME NEW cs, NEW n, SliceOf(cs, n), NEW s \in 1..n, NEW class \in AdapterClasses,
           NEW m, m = DemoteCandidate(markCandidateAdapter(cs, s, class), s)
    PROVE  /\ SliceOf(m, n)
           /\ FeasibleSteps(m) = FeasibleSteps(cs) \ {s}
           /\ \A t \in 1..n : Rank(m[t]) = Rank(cs[t])
           /\ \A t \in 1..n : t # s => m[t] = cs[t]
           /\ m[s].adapter = class
<1>1. PICK k : k = markCandidateAdapter(cs, s, class)
  OBVIOUS
<1>2. /\ SliceOf(k, n) /\ k[s].adapter = class
      /\ \A t \in 1..n : Rank(k[t]) = Rank(cs[t])
      /\ \A t \in 1..n : t # s => k[t] = cs[t]
  BY <1>1, MarkedSlice
<1>3. k[s] \in Candidate /\ k[s].step = s
  BY <1>2 DEF SliceOf
<1>4. PICK v : v = Regraded(k[s], FALSE, k[s].adapter)
  OBVIOUS
<1>5. /\ v \in Candidate /\ v.step = s /\ Rank(v) = Rank(k[s])
      /\ v.adapter = class /\ ~v.feasible
  BY <1>2, <1>3, <1>4 DEF Candidate, Rank, Regraded
<1>6. m = Replaced(k, s, v)
  BY <1>1, <1>4 DEF DemoteCandidate, Replaced
<1>7. /\ SliceOf(m, n) /\ m[s] = v
      /\ \A t \in 1..n : Rank(m[t]) = Rank(k[t])
      /\ \A t \in 1..n : t # s => m[t] = k[t]
  BY <1>2, <1>5, <1>6, ReplacedSlice
<1>8. FeasibleSteps(m) = FeasibleSteps(cs) \ {s}
  <2>1. DOMAIN m = 1..n /\ DOMAIN cs = 1..n
    BY <1>7 DEF SliceOf
  <2>2. \A t \in 1..n : t # s => m[t] = cs[t]
    BY <1>2, <1>7
  <2>3. QED BY <1>5, <1>7, <2>1, <2>2 DEF FeasibleSteps
<1>9. QED BY <1>2, <1>5, <1>7, <1>8

\* The refusal the loop acts on is a retryable one.
LEMMA FirstRetryable ==
    ASSUME NEW v \in Verdict, IsRetryable(v)
    PROVE  retryableRefusal(v) \in retryableAdmissionRefusals
<1> DEFINE T == {i \in DOMAIN v.refusals : v.refusals[i] \in retryableAdmissionRefusals}
           f == [i \in T |-> i]
<1>1. v.refusals \in Seq(Codes)
  BY DEF Verdict
<1>2. T # {} /\ T \subseteq Nat /\ DOMAIN v.refusals = 1..Len(v.refusals)
  BY <1>1 DEF IsRetryable
<1>3. f \in [T -> Nat]
  BY <1>2
<1>4. PICK m \in T : \A i \in T : f[m] <= f[i]
  <2> HIDE DEF T, f
  <2> QED BY <1>2, <1>3, ArgMin
<1>5. \A i \in T : m <= i
  BY <1>4
<1>6. \A j \in 1..(m - 1) : v.refusals[j] \notin retryableAdmissionRefusals
  BY <1>1, <1>2, <1>5
<1>7. QED BY <1>4, <1>6 DEF retryableRefusal

\* What the gates refuse with is a sequence of the codes that the gates have.
LEMMA GateRange ==
    ASSUME NEW c, NEW S,
           {"non_feasible_cut", "unsupported_boundary_data", "callable_boundary_values",
            "receiver_requires_reconstruction"} \subseteq S
    PROVE  AdmitCut(c) \in Seq(S) /\ GateRefusals(c) \in Seq(S)
<1> DEFINE A == IF c.feasible THEN <<>> ELSE <<"non_feasible_cut">>
           B == IF c.boundary \in FeasibleBoundary THEN <<>>
                ELSE <<"unsupported_boundary_data">>
           C == IF c.callbacks \in {"ZeroConfirmed", "ZeroEstimated", "Low"}
                THEN <<>> ELSE <<"callable_boundary_values">>
<1>1. A \in Seq(S) /\ B \in Seq(S) /\ C \in Seq(S)
  OBVIOUS
<1>2. AdmitCut(c) = (A \o B) \o C
  BY DEF AdmitCut
<1> HIDE DEF A, B, C
<1>3. A \o B \in Seq(S)
  BY <1>1, ConcatProperties
<1>4. AdmitCut(c) \in Seq(S)
  BY <1>1, <1>2, <1>3, ConcatProperties
<1>5. preflightReceiverAdmission(c) \in Seq(S)
  BY DEF preflightReceiverAdmission
<1>6. QED BY <1>4, <1>5 DEF GateRefusals

LEMMA GateTyped ==
    ASSUME NEW c
    PROVE  AdmitCut(c) \in Seq(Codes) /\ GateRefusals(c) \in Seq(Codes)
<1>1. {"non_feasible_cut", "unsupported_boundary_data", "callable_boundary_values",
       "receiver_requires_reconstruction"} \subseteq Codes
  BY DEF Codes, retryableAdmissionRefusals, adapterEligibleRefusals
<1>2. QED BY <1>1, GateRange

\* The code a candidate is demoted with is one of the codes.
LEMMA RetryableIsCode == retryableAdmissionRefusals \subseteq Codes
BY DEF Codes

\* Verdicts are built from codes.
LEMMA VerdictsTyped ==
    /\ Accepting \in Verdict /\ EmptyVerdict \in Verdict
    /\ \A codes \in Seq(Codes) : Refusing(codes) \in Verdict
    /\ \A v \in Verdict, code \in Codes : refused(v, code) \in Verdict
<1>1. <<>> \in Seq(Codes)
  OBVIOUS
<1>2. Accepting \in Verdict /\ EmptyVerdict \in Verdict
  BY <1>1 DEF Accepting, EmptyVerdict, Verdict
<1>3. ASSUME NEW codes \in Seq(Codes) PROVE Refusing(codes) \in Verdict
  <2>1. (codes = <<>>) \in BOOLEAN
    OBVIOUS
  <2>2. QED BY <2>1 DEF Refusing, Verdict
<1>4. ASSUME NEW v \in Verdict, NEW code \in Codes PROVE refused(v, code) \in Verdict
  <2>1. v.refusals \in Seq(Codes)
    BY DEF Verdict
  <2>2. Append(v.refusals, code) \in Seq(Codes)
    BY <2>1
  <2>3. QED BY <2>2 DEF refused, Verdict
<1>5. QED BY <1>2, <1>3, <1>4

-------------------------------------------------------------------------------
(* The ranking.                                                              *)

Ranking == Ranked /\ DemotionsFollowRanking

\* In a state of the invariant the candidates are a slice.
LEMMA InvSlice ==
    ASSUME TypeOK, Ranked
    PROVE  \E n \in 0..MaxStep : SliceOf(cands, n) /\ DOMAIN cands = 1..n
<1>1. PICK n \in 0..MaxStep : cands \in [1..n -> Candidate]
  BY DEF TypeOK
<1>2. \A s \in 1..n : cands[s].step = s
  BY <1>1 DEF Ranked
<1>3. QED BY <1>1, <1>2 DEF SliceOf

\* A step that leaves cut and chain alone keeps the ranking.
LEMMA RankingKept ==
    ASSUME Ranking, UNCHANGED <<cands, rec, chain>>
    PROVE  Ranking'
BY DEF Ranking, Ranked, DemotionsFollowRanking, Preferred, FeasibleSteps

\* What the loop does to the slice when it demotes the recommended candidate.
LEMMA DemotedByLoop ==
    ASSUME NEW n, SliceOf(cands, n), rec \in 1..n,
           NEW class \in AdapterClasses, NEW code, DemoteAs(rec, class, code)
    PROVE  /\ SliceOf(cands', n)
           /\ FeasibleSteps(cands') = FeasibleSteps(cands) \ {rec}
           /\ \A t \in 1..n : Rank(cands'[t]) = Rank(cands[t])
<1>1. PICK m, cs, s : m = cands' /\ cs = cands /\ s = rec
  OBVIOUS
<1>2. SliceOf(cs, n) /\ s \in 1..n
  BY <1>1
<1>3. m = DemoteCandidate(markCandidateAdapter(cs, s, class), s)
  BY <1>1 DEF DemoteAs
<1>4. /\ SliceOf(m, n)
      /\ FeasibleSteps(m) = FeasibleSteps(cs) \ {s}
      /\ \A t \in 1..n : Rank(m[t]) = Rank(cs[t])
  BY <1>2, <1>3, DemotedSlice
<1>5. QED BY <1>1, <1>4

\* What it does to the slice when it records an adapter class for it.
LEMMA MarkedByLoop ==
    ASSUME NEW n, SliceOf(cands, n), rec \in 1..n, NEW class \in AdapterClasses,
           cands' = markCandidateAdapter(cands, rec, class)
    PROVE  /\ SliceOf(cands', n) /\ DOMAIN cands' = 1..n
           /\ FeasibleSteps(cands') = FeasibleSteps(cands)
           /\ \A t \in 1..n : Rank(cands'[t]) = Rank(cands[t])
<1>1. PICK m, cs, s : m = cands' /\ cs = cands /\ s = rec
  OBVIOUS
<1>2. SliceOf(cs, n) /\ s \in 1..n
  BY <1>1
<1>3. m = markCandidateAdapter(cs, s, class)
  BY <1>1
<1>4. /\ SliceOf(m, n)
      /\ FeasibleSteps(m) = FeasibleSteps(cs)
      /\ \A t \in 1..n : Rank(m[t]) = Rank(cs[t])
  BY <1>2, <1>3, MarkedSlice
<1>5. DOMAIN m = 1..n
  BY <1>4, SliceIsSlice
<1>6. QED BY <1>1, <1>4, <1>5

\* Demoting the recommended candidate and recommending anew keeps it, and the
\* slice.
LEMMA RankingDemoted ==
    ASSUME TypeOK, Ranking, rec # 0,
           NEW class \in AdapterClasses, NEW code \in Codes,
           DemoteAs(rec, class, code)
    PROVE  /\ Ranking'
           /\ \E n \in 0..MaxStep : cands' \in [1..n -> Candidate]
           /\ rec' \in {0} \cup DOMAIN cands'
           /\ chain' \in Seq(ChainEntry) /\ Len(chain') = Len(chain) + 1
<1>1. PICK n \in 0..MaxStep : SliceOf(cands, n) /\ DOMAIN cands = 1..n
  BY InvSlice DEF Ranking
<1>2. rec \in 1..n
  BY <1>1 DEF TypeOK
<1>3. /\ SliceOf(cands', n)
      /\ FeasibleSteps(cands') = FeasibleSteps(cands) \ {rec}
      /\ \A t \in 1..n : Rank(cands'[t]) = Rank(cands[t])
  BY <1>1, <1>2, DemotedByLoop
<1>4. CandidateSlice(cands') /\ DOMAIN cands' = 1..n
  BY <1>3, SliceIsSlice
<1>5. /\ rec' \in {0} \cup FeasibleSteps(cands')
      /\ rec' = 0 <=> FeasibleSteps(cands') = {}
      /\ \A t \in FeasibleSteps(cands') \ {rec'} :
            LexLess(Rank(cands'[rec']), Rank(cands'[t]))
  <2>1. rec' = recommended(cands')
    BY DEF DemoteAs
  <2>2. QED BY <1>4, <2>1, RecommendedIsBest
<1>6. FeasibleSteps(cands) \subseteq 1..n /\ FeasibleSteps(cands') \subseteq 1..n
  BY <1>1, <1>4 DEF FeasibleSteps
<1> DEFINE e == [step |-> rec, code |-> code]
<1>7. /\ e \in ChainEntry /\ chain \in Seq(ChainEntry) /\ chain' = Append(chain, e)
  BY <1>1, <1>2, MaxStepAssumption DEF TypeOK, DemoteAs, ChainEntry, Steps
<1>8. /\ chain' \in Seq(ChainEntry) /\ Len(chain') = Len(chain) + 1
      /\ DOMAIN chain' = 1..(Len(chain) + 1) /\ DOMAIN chain = 1..Len(chain)
      /\ \A i \in 1..Len(chain) : chain'[i] = chain[i]
      /\ chain'[Len(chain) + 1].step = rec
      /\ Len(chain) \in Nat
  BY <1>7
<1>9. \A i \in 1..Len(chain) : chain[i].step \in 1..n
  BY <1>1, <1>8 DEF Ranking, Ranked
<1>10. Ranked'
  <2>1. \A i \in DOMAIN chain' : chain'[i].step \in DOMAIN cands'
    BY <1>2, <1>4, <1>8, <1>9
  <2>2. \A s \in DOMAIN cands' : cands'[s].step = s
    BY <1>4 DEF CandidateSlice
  <2>3. QED BY <1>5, <2>1, <2>2 DEF Ranked, Preferred
<1>11. DemotionsFollowRanking'
  <2>1. /\ rec \in FeasibleSteps(cands)
        /\ \A t \in FeasibleSteps(cands) \ {rec} : LexLess(Rank(cands[rec]), Rank(cands[t]))
    BY DEF Ranking, Ranked, Preferred
  <2>2. \A i \in 1..Len(chain) :
            /\ \A j \in (i + 1)..Len(chain) :
                   LexLess(Rank(cands[chain[i].step]), Rank(cands[chain[j].step]))
            /\ chain[i].step \notin FeasibleSteps(cands)
            /\ \A s \in FeasibleSteps(cands) :
                   LexLess(Rank(cands[chain[i].step]), Rank(cands[s]))
    BY <1>8 DEF Ranking, DemotionsFollowRanking, Preferred, FeasibleSteps
  <2>3. ASSUME NEW i \in 1..(Len(chain) + 1)
        PROVE  /\ \A j \in (i + 1)..(Len(chain) + 1) :
                      LexLess(Rank(cands'[chain'[i].step]), Rank(cands'[chain'[j].step]))
               /\ chain'[i].step \notin FeasibleSteps(cands')
               /\ \A s \in FeasibleSteps(cands') :
                      LexLess(Rank(cands'[chain'[i].step]), Rank(cands'[s]))
    <3>1. CASE i = Len(chain) + 1
      BY <1>2, <1>3, <1>6, <1>8, <2>1, <3>1
    <3>2. CASE i \in 1..Len(chain)
      <4>1. /\ chain'[i] = chain[i] /\ chain[i].step \in 1..n
            /\ Rank(cands'[chain[i].step]) = Rank(cands[chain[i].step])
        BY <1>3, <1>8, <1>9, <3>2
      <4>2. ASSUME NEW j \in (i + 1)..(Len(chain) + 1)
            PROVE  LexLess(Rank(cands'[chain'[i].step]), Rank(cands'[chain'[j].step]))
        <5>1. CASE j = Len(chain) + 1
          BY <1>2, <1>3, <1>8, <2>1, <2>2, <3>2, <4>1, <5>1
        <5>2. CASE j \in 1..Len(chain)
          BY <1>3, <1>8, <1>9, <2>2, <3>2, <4>1, <5>2
        <5>3. QED BY <1>8, <3>2, <5>1, <5>2
      <4>3. \A s \in FeasibleSteps(cands') :
                LexLess(Rank(cands'[chain'[i].step]), Rank(cands'[s]))
        BY <1>3, <1>6, <2>2, <3>2, <4>1
      <4>4. chain'[i].step \notin FeasibleSteps(cands')
        BY <1>3, <2>2, <3>2, <4>1
      <4>5. QED BY <4>2, <4>3, <4>4
    <3>3. QED BY <1>8, <3>1, <3>2
  <2>4. \A i \in DOMAIN chain' : ~cands'[chain'[i].step].feasible
    BY <1>2, <1>4, <1>8, <1>9, <2>3 DEF FeasibleSteps
  <2>5. QED BY <1>8, <2>3, <2>4 DEF DemotionsFollowRanking, Preferred
<1>12. cands' \in [1..n -> Candidate]
  BY <1>3 DEF SliceOf
<1>13. rec' \in {0} \cup DOMAIN cands'
  BY <1>4, <1>5, <1>6
<1>14. QED BY <1>8, <1>10, <1>11, <1>12, <1>13 DEF Ranking

-------------------------------------------------------------------------------
(* AdmissionInv is inductive.                                                *)

LEMMA InvInit == ASSUME Init PROVE AdmissionInv
<1>1. TypeOK
  <2>1. cands \in [1..0 -> Candidate] /\ DOMAIN cands = {}
    BY DEF Init
  <2>2. chain \in Seq(ChainEntry) /\ Len(chain) = 0
    BY DEF Init
  <2>3. 0 \in 0..MaxStep
    BY MaxStepAssumption
  <2>4. \E n \in 0..MaxStep : cands \in [1..n -> Candidate]
    BY <2>1, <2>3
  <2>5. rec \in {0} \cup DOMAIN cands /\ cur \in {0} \cup DOMAIN cands
    BY DEF Init
  <2>6. attempt \in 0..Len(chain) /\ lift \in 0..MaxLifts
    BY <2>2, AdmissionAssumption DEF Init
  <2>7. last \in Verdict
    BY VerdictsTyped DEF Init
  <2>8. cache \in [Keys -> Entry \cup {NoEntry}] /\ recoveries \in [Steps -> Nat]
    BY DEF Init
  <2>9. QED
    BY <2>2, <2>4, <2>5, <2>6, <2>7, <2>8 DEF Init, TypeOK
<1>2. DOMAIN cands = {} /\ DOMAIN chain = {}
  BY DEF Init
<1>3. Ranked /\ DemotionsFollowRanking
  BY <1>2 DEF Init, Ranked, DemotionsFollowRanking, FeasibleSteps
<1>4. Control
  BY DEF Init, Control
<1>5. QED BY <1>1, <1>3, <1>4 DEF AdmissionInv

\* Cut analysis of a new path.
LEMMA InvBeginLift ==
    ASSUME AdmissionInv, NEW path \in Paths, NEW r \in Roots,
           NEW enabled \in BOOLEAN, NEW aware \in BOOLEAN,
           BeginLift(path, r, enabled, aware)
    PROVE  AdmissionInv'
<1> DEFINE cs == buildCutCandidates(path)
           s  == recommended(cs)
<1>1. cands' = cs /\ rec' = s /\ chain' = <<>>
  BY DEF BeginLift
<1>2. SliceOf(cs, Len(path)) /\ Len(path) \in 0..MaxStep
  BY BuiltSlice, AdmissionAssumption
<1>3. CandidateSlice(cs) /\ DOMAIN cs = 1..Len(path)
  BY <1>2, SliceIsSlice
<1>4. /\ s \in {0} \cup FeasibleSteps(cs)
      /\ s = 0 <=> FeasibleSteps(cs) = {}
      /\ \A t \in FeasibleSteps(cs) \ {s} : LexLess(Rank(cs[s]), Rank(cs[t]))
  BY <1>3, RecommendedIsBest
<1>5. Ranking'
  BY <1>1, <1>3, <1>4
  DEF Ranking, Ranked, DemotionsFollowRanking, Preferred, CandidateSlice
<1>6. last' \in Verdict
  <2>1. "missing_recommended_cut" \in Codes
    BY DEF Codes
  <2>2. <<"missing_recommended_cut">> \in Seq(Codes) /\ <<>> \in Seq(Codes)
    BY <2>1
  <2>3. AdmitCut(cs[s]) \in Seq(Codes)
    BY GateTyped
  <2>4. QED BY <2>2, <2>3, VerdictsTyped DEF BeginLift
<1>7. TypeOK'
  <2>1. cands' \in [1..Len(path) -> Candidate]
    BY <1>1, <1>2 DEF SliceOf
  <2>2. rec' \in {0} \cup DOMAIN cands'
    BY <1>1, <1>4 DEF FeasibleSteps
  <2>3. chain' \in Seq(ChainEntry) /\ Len(chain') = 0
    BY <1>1
  <2>4. recoveries' \in [Steps -> Nat]
    BY DEF BeginLift
  <2>5. lift' \in 0..MaxLifts
    BY AdmissionAssumption DEF BeginLift, AdmissionInv, TypeOK
  <2>6. cache' \in [Keys -> Entry \cup {NoEntry}]
    BY DEF BeginLift, AdmissionInv, TypeOK
  <2>7. /\ root' \in Roots /\ adapterEnabled' \in BOOLEAN
        /\ attempt' = 0 /\ late' = FALSE /\ cur' = 0 /\ plan' = NoPlan
        /\ adapterRoot' = NoRoot
        /\ pc' \in {"head", "final", "done"}
        /\ result' \in {"none", "accepted", "refused"}
    BY DEF BeginLift
  <2>8. \E n \in 0..MaxStep : cands' \in [1..n -> Candidate]
    BY <1>2, <2>1
  <2>9. attempt' \in 0..Len(chain')
    BY <2>3, <2>7
  <2>10. QED BY <1>6, <2>2, <2>3, <2>4, <2>5, <2>6, <2>7, <2>8, <2>9 DEF TypeOK
<1>8. Control'
  BY <1>1 DEF BeginLift, Control
<1>9. QED BY <1>5, <1>7, <1>8 DEF AdmissionInv, Ranking

\* Steps that leave cut and chain alone.
LEMMA InvQuiet ==
    ASSUME AdmissionInv, UNCHANGED <<cands, rec, chain>>, TypeOK', Control'
    PROVE  AdmissionInv'
BY RankingKept DEF AdmissionInv, Ranking

\* Demotions of the recommended candidate.
LEMMA InvDemoteAs ==
    ASSUME AdmissionInv, pc \in {"head", "judge"}, rec # 0,
           NEW class \in AdapterClasses, NEW code \in Codes,
           DemoteAs(rec, class, code),
           cache' = cache, recoveries' \in [Steps -> Nat]
    PROVE  AdmissionInv'
<1>1. TypeOK /\ Ranking /\ Control
  BY DEF AdmissionInv, Ranking
<1>2. /\ Ranking'
      /\ \E n \in 0..MaxStep : cands' \in [1..n -> Candidate]
      /\ rec' \in {0} \cup DOMAIN cands'
      /\ chain' \in Seq(ChainEntry) /\ Len(chain') = Len(chain) + 1
  BY <1>1, RankingDemoted
<1>3. attempt' \in 0..Len(chain')
  BY <1>1, <1>2 DEF TypeOK, DemoteAs
<1>4. TypeOK'
  BY <1>1, <1>2, <1>3 DEF TypeOK, DemoteAs
<1>5. Control'
  BY <1>1 DEF Control, DemoteAs
<1>6. QED BY <1>2, <1>4, <1>5 DEF AdmissionInv, Ranking

\* Exits of the loop: a verdict is returned, the cut stays.
LEMMA InvReturn ==
    ASSUME AdmissionInv, NEW r \in {"refused", "error"}, NEW v \in Verdict,
           Return(r, v), cache' \in [Keys -> Entry \cup {NoEntry}],
           recoveries' = recoveries
    PROVE  AdmissionInv'
<1>1. TypeOK /\ Control
  BY DEF AdmissionInv
<1>2. UNCHANGED <<cands, rec, chain>>
  BY DEF Return
<1>3. TypeOK'
  BY <1>1 DEF TypeOK, Return
<1>4. Control'
  BY <1>1 DEF Control, Return
<1>5. QED BY <1>2, <1>3, <1>4, InvQuiet

\* Trials: a verdict and a plan are learnt of the recommended candidate.
LEMMA InvTried ==
    ASSUME AdmissionInv, Trying, NEW v \in Verdict, NEW p \in Plan \cup {NoPlan},
           Tried(v, p), cache' \in [Keys -> Entry \cup {NoEntry}]
    PROVE  AdmissionInv'
<1>1. TypeOK /\ Control
  BY DEF AdmissionInv
<1>2. UNCHANGED <<cands, rec, chain>>
  BY DEF Tried
<1>3. TypeOK'
  BY <1>1 DEF TypeOK, Tried
<1>4. Control'
  BY <1>1 DEF Control, Tried, Trying, AtHead
<1>5. QED BY <1>2, <1>3, <1>4, InvQuiet

\* The end of the build-plan phase.
LEMMA InvFinish ==
    ASSUME AdmissionInv, pc = "final", NEW r \in {"accepted", "error"},
           NEW a \in Roots \cup {NoRoot}, Finish(r, a),
           recoveries' \in [Steps -> Nat]
    PROVE  AdmissionInv'
<1>1. TypeOK /\ Control
  BY DEF AdmissionInv
<1>2. UNCHANGED <<cands, rec, chain>>
  BY DEF Finish
<1>3. TypeOK'
  BY <1>1 DEF TypeOK, Finish
<1>4. Control'
  BY <1>1 DEF Control, Finish
<1>5. QED BY <1>2, <1>3, <1>4, InvQuiet

\* The key of the recommended candidate, and what the types say of it.
LEMMA RecTyped ==
    ASSUME TypeOK, rec # 0
    PROVE  /\ rec \in DOMAIN cands /\ rec \in Steps
           /\ cands[rec] \in Candidate /\ cands[rec].key \in Keys
           /\ cands[rec].adapter \in AdapterClasses
<1>1. PICK n \in 0..MaxStep : cands \in [1..n -> Candidate]
  BY DEF TypeOK
<1>2. rec \in 1..n /\ DOMAIN cands = 1..n
  BY <1>1 DEF TypeOK
<1>3. QED BY <1>1, <1>2, MaxStepAssumption DEF Candidate, Steps

LEMMA InvTryCached ==
    ASSUME AdmissionInv, TryCached
    PROVE  AdmissionInv'
<1>1. TypeOK /\ rec # 0
  BY DEF AdmissionInv, TryCached, Trying
<1> DEFINE entry == cache[cands[rec].key]
<1>2. entry \in Entry
  <2>1. cands[rec].key \in Keys
    BY <1>1, RecTyped
  <2>2. QED BY <1>1, <2>1 DEF TypeOK, TryCached
<1>3. entry.verdict \in Verdict /\ entry.plan \in Plan \cup {NoPlan}
  BY <1>2 DEF Entry
<1>4. cache' = cache /\ cache \in [Keys -> Entry \cup {NoEntry}] /\ last \in Verdict
  BY <1>1 DEF TypeOK, TryCached
<1>5. \/ Tried(entry.verdict, entry.plan) /\ Trying
      \/ Return("error", last) /\ UNCHANGED recoveries
  BY DEF TryCached
<1> HIDE DEF entry
<1>6. CASE Tried(entry.verdict, entry.plan) /\ Trying
  BY <1>3, <1>4, <1>6, InvTried
<1>7. CASE Return("error", last) /\ UNCHANGED recoveries
  BY <1>4, <1>7, InvReturn
<1>8. QED BY <1>5, <1>6, <1>7

\* The outcome of a plan build: its refusals are codes.
LEMMA OutcomeTyped ==
    ASSUME NEW o \in PlanOutcome
    PROVE  o.refusals \in Seq(Codes) /\ o.funcBoundary \in BOOLEAN
<1>1. CASE o \in [kind : {"timeout", "error"}, refusals : {<<>>}, funcBoundary : {FALSE}]
  <2>1. o.refusals \in {<<>>} /\ o.funcBoundary \in {FALSE}
    BY <1>1
  <2>2. {<<>>} \subseteq Seq(Codes) /\ {FALSE} \subseteq BOOLEAN
    OBVIOUS
  <2>3. QED BY <2>1, <2>2
<1>2. CASE o \in [kind : {"plan", "refusal"}, refusals : Seq(Codes), funcBoundary : BOOLEAN]
  BY <1>2
<1>3. QED BY <1>1, <1>2 DEF PlanOutcome

LEMMA InvTryBuild ==
    ASSUME AdmissionInv, NEW o \in PlanOutcomes, TryBuild(o)
    PROVE  AdmissionInv'
<1> DEFINE v == IF o.kind = "timeout" THEN Refusing(<<"plan_build_timeout">>)
                ELSE IF o.kind = "error" THEN Accepting ELSE Refusing(o.refusals)
           p == IF o.kind = "plan"
                THEN [root |-> root, funcBoundary |-> o.funcBoundary] ELSE NoPlan
           failed == o.kind = "error"
<1>1. TypeOK /\ rec # 0
  BY DEF AdmissionInv, TryBuild, Trying
<1>2. o \in PlanOutcome
  BY AdmissionAssumption
<1>3. o.refusals \in Seq(Codes) /\ o.funcBoundary \in BOOLEAN
  BY <1>2, OutcomeTyped
<1>4. v \in Verdict
  <2>1. "plan_build_timeout" \in Codes
    BY DEF Codes
  <2>2. <<"plan_build_timeout">> \in Seq(Codes)
    BY <2>1
  <2>3. QED BY <1>3, <2>2, VerdictsTyped
<1>5. p \in Plan \cup {NoPlan}
  BY <1>1, <1>3 DEF TypeOK, Plan
<1>6. [verdict |-> v, plan |-> p, err |-> o.kind = "error", adapter |-> NoRoot] \in Entry
  <2>1. (o.kind = "error") \in BOOLEAN
    OBVIOUS
  <2> HIDE DEF v, p
  <2>2. QED BY <1>4, <1>5, <2>1 DEF Entry
<1>7. cache' \in [Keys -> Entry \cup {NoEntry}]
  <2>1. PICK e : e = [verdict |-> v, plan |-> p, err |-> o.kind = "error",
                      adapter |-> NoRoot]
    OBVIOUS
  <2>2. cache' = [cache EXCEPT ![cands[rec].key] = e]
    BY <2>1 DEF TryBuild
  <2>3. e \in Entry
    BY <1>6, <2>1
  <2>4. QED BY <1>1, <2>2, <2>3 DEF TypeOK
<1>8. \/ Tried(v, p) /\ Trying
      \/ Return("error", last) /\ UNCHANGED recoveries
  BY DEF TryBuild
<1>9. last \in Verdict
  BY <1>1 DEF TypeOK
<1> HIDE DEF v, p
<1>10. CASE Tried(v, p) /\ Trying
  BY <1>4, <1>5, <1>7, <1>10, InvTried
<1>11. CASE Return("error", last) /\ UNCHANGED recoveries
  BY <1>7, <1>9, <1>11, InvReturn
<1>12. QED BY <1>8, <1>10, <1>11

\* The demotions of a candidate under trial.
LEMMA InvRetry ==
    ASSUME AdmissionInv, Retrying, NEW class \in AdapterClasses,
           DemoteAs(cur, class, retryableRefusal(last)),
           cache' = cache, recoveries' \in [Steps -> Nat]
    PROVE  AdmissionInv'
<1>1. cur = rec /\ rec # 0 /\ pc = "judge"
  BY DEF AdmissionInv, Control, Retrying
<1>2. retryableRefusal(last) \in Codes
  <2>1. last \in Verdict /\ IsRetryable(last)
    BY DEF AdmissionInv, TypeOK, Retrying
  <2>2. QED BY <2>1, FirstRetryable, RetryableIsCode
<1>3. DemoteAs(rec, class, retryableRefusal(last))
  BY <1>1
<1>4. QED BY <1>1, <1>2, <1>3, InvDemoteAs

\* Recovery works on a plan or on none.
LEMMA RecoveryPlanTyped ==
    ASSUME TypeOK, NEW p \in RecoveryPlans
    PROVE  p \in Plan \cup {NoPlan}
<1>1. CASE plan # NoPlan
  BY <1>1 DEF RecoveryPlans, TypeOK
<1>2. CASE plan = NoPlan
  <2>1. p = NoPlan \/ \E o \in PlanOutcomes :
              p = [root |-> root, funcBoundary |-> o.funcBoundary]
    BY <1>2 DEF RecoveryPlans
  <2>2. \A o \in PlanOutcomes : o.funcBoundary \in BOOLEAN
    BY OutcomeTyped, AdmissionAssumption
  <2>3. root \in Roots
    BY DEF TypeOK
  <2>4. QED BY <2>1, <2>2, <2>3 DEF Plan
<1>3. QED BY <1>1, <1>2

\* Counting a recovery.
LEMMA CountTyped ==
    ASSUME TypeOK, NEW s \in Steps, recoveries' = [recoveries EXCEPT ![s] = @ + 1]
    PROVE  recoveries' \in [Steps -> Nat]
BY DEF TypeOK

LEMMA InvFailRecovery ==
    ASSUME AdmissionInv, NEW p, NEW o \in RecoveryOutcomes, FailRecovery(p, o)
    PROVE  AdmissionInv'
<1>1. PICK why : DemoteAs(cur, adapterRefusalClass(why), retryableRefusal(last))
  BY DEF FailRecovery
<1>2. adapterRefusalClass(why) \in AdapterClasses
  BY DEF adapterRefusalClass, AdapterClasses
<1>3. /\ cache' = cache /\ Retrying
      /\ recoveries' = [recoveries EXCEPT ![cur] = @ + 1]
  BY DEF FailRecovery
<1>4. TypeOK /\ cur \in Steps
  BY <1>3, RecTyped DEF AdmissionInv, Control, Retrying
<1>5. recoveries' \in [Steps -> Nat]
  BY <1>3, <1>4, CountTyped
<1>6. QED BY <1>1, <1>2, <1>3, <1>5, InvRetry

\* The adapter plan is stored with what was known of the function.
LEMMA StoreTyped ==
    ASSUME TypeOK, NEW key \in Keys, NEW r \in Roots
    PROVE  storeCandidateAdapterPlan(cache, key, r) \in [Keys -> Entry \cup {NoEntry}]
<1> DEFINE entry == IF cache[key] # NoEntry THEN cache[key]
                    ELSE [verdict |-> EmptyVerdict, plan |-> NoPlan,
                          err |-> FALSE, adapter |-> NoRoot]
<1>1. PICK e : e = [verdict |-> entry.verdict, plan |-> entry.plan,
                    err |-> entry.err, adapter |-> r]
  OBVIOUS
<1>2. storeCandidateAdapterPlan(cache, key, r) = [cache EXCEPT ![key] = e]
  BY <1>1 DEF storeCandidateAdapterPlan
<1>3. cache \in [Keys -> Entry \cup {NoEntry}]
  BY DEF TypeOK
<1>4. entry \in Entry
  <2>1. CASE cache[key] # NoEntry
    BY <1>3, <2>1
  <2>2. CASE cache[key] = NoEntry
    <3>1. [verdict |-> EmptyVerdict, plan |-> NoPlan, err |-> FALSE,
           adapter |-> NoRoot] \in Entry
      BY VerdictsTyped DEF Entry
    <3>2. QED BY <2>2, <3>1
  <2>3. QED BY <2>1, <2>2
<1> HIDE DEF entry
<1>5. e \in Entry
  BY <1>1, <1>4 DEF Entry
<1>6. QED BY <1>2, <1>3, <1>5

LEMMA InvRecover ==
    ASSUME AdmissionInv, NEW p \in RecoveryPlans, NEW o \in RecoveryOutcomes,
           Recover(p, o)
    PROVE  AdmissionInv'
<1>1. TypeOK /\ Ranked /\ Control /\ DemotionsFollowRanking
  BY DEF AdmissionInv
<1>2. cur = rec /\ rec # 0 /\ pc = "judge" /\ chain' = chain /\ rec' = rec
  BY <1>1 DEF Control, Recover, Retrying
<1>3. PICK n \in 0..MaxStep : SliceOf(cands, n) /\ DOMAIN cands = 1..n
  BY <1>1, InvSlice
<1>4. rec \in 1..n
  BY <1>1, <1>2, <1>3, RecTyped
<1>5. /\ SliceOf(cands', n)
      /\ FeasibleSteps(cands') = FeasibleSteps(cands)
      /\ \A t \in 1..n : Rank(cands'[t]) = Rank(cands[t])
  <2>1. "AdapterPossible" \in AdapterClasses
    BY DEF AdapterClasses
  <2>2. cands' = markCandidateAdapter(cands, rec, "AdapterPossible")
    BY <1>2 DEF Recover
  <2>3. QED BY <1>3, <1>4, <2>1, <2>2, MarkedByLoop
<1>6. CandidateSlice(cands') /\ DOMAIN cands' = 1..n
  BY <1>5, SliceIsSlice
<1>7. FeasibleSteps(cands) \subseteq 1..n
  BY <1>3 DEF FeasibleSteps
<1>8. Ranked'
  <2>1. \A s \in DOMAIN cands' : cands'[s].step = s
    BY <1>6 DEF CandidateSlice
  <2>2. \A i \in DOMAIN chain' : chain'[i].step \in DOMAIN cands'
    BY <1>1, <1>2, <1>3, <1>6 DEF Ranked
  <2>3. rec' = 0 <=> FeasibleSteps(cands') = {}
    BY <1>1, <1>2, <1>5 DEF Ranked
  <2>4. /\ rec' \in FeasibleSteps(cands')
        /\ \A t \in FeasibleSteps(cands') \ {rec'} :
              LexLess(Rank(cands'[rec']), Rank(cands'[t]))
    BY <1>1, <1>2, <1>4, <1>5, <1>7 DEF Ranked, Preferred
  <2>5. QED BY <2>1, <2>2, <2>3, <2>4 DEF Ranked, Preferred
<1>9. DemotionsFollowRanking'
  <2>1. \A i \in DOMAIN chain : chain[i].step \in 1..n
    BY <1>1, <1>3 DEF Ranked
  <2>2. \A i \in DOMAIN chain : ~cands'[chain[i].step].feasible
    BY <1>1, <1>3, <1>5, <1>6, <2>1 DEF DemotionsFollowRanking, FeasibleSteps
  <2>3. ASSUME NEW i \in DOMAIN chain, NEW j \in (i + 1)..Len(chain)
        PROVE  LexLess(Rank(cands'[chain[i].step]), Rank(cands'[chain[j].step]))
    <3>1. j \in DOMAIN chain
      BY <1>1 DEF TypeOK
    <3>2. QED BY <1>1, <1>5, <2>1, <3>1 DEF DemotionsFollowRanking, Preferred
  <2>4. \A i \in DOMAIN chain : \A s \in FeasibleSteps(cands') :
            LexLess(Rank(cands'[chain[i].step]), Rank(cands'[s]))
    BY <1>1, <1>5, <1>7, <2>1 DEF DemotionsFollowRanking, Preferred
  <2>5. QED BY <1>2, <2>2, <2>3, <2>4 DEF DemotionsFollowRanking, Preferred
<1>10. TypeOK'
  <2>1. p \in Plan /\ p.root \in Roots
    BY <1>1, RecoveryPlanTyped DEF Recover, Plan
  <2>2. cache' \in [Keys -> Entry \cup {NoEntry}]
    BY <1>1, <1>2, <2>1, RecTyped, StoreTyped DEF Recover
  <2>3. \E k \in 0..MaxStep : cands' \in [1..k -> Candidate]
    BY <1>5 DEF SliceOf
  <2>4. rec' \in {0} \cup DOMAIN cands' /\ cur' \in {0} \cup DOMAIN cands'
    BY <1>2, <1>4, <1>6 DEF Recover
  <2>5. recoveries' \in [Steps -> Nat]
    <3>1. cur \in Steps /\ recoveries' = [recoveries EXCEPT ![cur] = @ + 1]
      BY <1>1, <1>2, RecTyped DEF Recover
    <3>2. QED BY <1>1, <3>1, CountTyped
  <2>6. last' \in Verdict
    BY VerdictsTyped DEF Recover
  <2>7. QED BY <1>1, <2>2, <2>3, <2>4, <2>5, <2>6 DEF TypeOK, Recover
<1>11. Control'
  BY <1>2 DEF Recover, Control
<1>12. QED BY <1>8, <1>9, <1>10, <1>11 DEF AdmissionInv

\* Every step preserves the invariant.
LEMMA InvNext ==
    ASSUME AdmissionInv, [Next]_vars
    PROVE  AdmissionInv'
<1>1. TypeOK /\ Control
  BY DEF AdmissionInv
<1>2. /\ last \in Verdict
      /\ cache \in [Keys -> Entry \cup {NoEntry}]
      /\ recoveries \in [Steps -> Nat]
  BY <1>1 DEF TypeOK
<1>3. CASE UNCHANGED vars
  <2>1. UNCHANGED <<cands, rec, chain>>
    BY <1>3 DEF vars
  <2>2. TypeOK'
    BY <1>1, <1>3 DEF TypeOK, vars
  <2>3. Control'
    BY <1>1, <1>3 DEF Control, vars
  <2>4. QED BY <2>1, <2>2, <2>3, InvQuiet
<1>4. CASE \E path \in Paths, r \in Roots, enabled, aware \in BOOLEAN :
              BeginLift(path, r, enabled, aware)
  BY <1>4, InvBeginLift
<1>5. CASE DeadlinePasses
  <2>1. UNCHANGED <<cands, rec, chain>>
    BY <1>5 DEF DeadlinePasses
  <2>2. TypeOK' /\ Control'
    BY <1>1, <1>5 DEF TypeOK, Control, DeadlinePasses
  <2>3. QED BY <2>1, <2>2, InvQuiet
<1>6. CASE AttemptsExhausted
  BY <1>2, <1>6, InvReturn DEF AttemptsExhausted
<1>7. CASE BudgetExceeded
  <2>1. refused(last, "admission_retry_budget_exceeded") \in Verdict
    BY <1>2, VerdictsTyped DEF Codes, loopRefusals
  <2>2. QED BY <1>2, <1>7, <2>1, InvReturn DEF BudgetExceeded
<1>8. CASE NothingRecommended
  <2>1. "missing_recommended_cut" \in Codes
    BY DEF Codes
  <2>2. Refusing(<<"missing_recommended_cut">>) \in Verdict
    <3>1. <<"missing_recommended_cut">> \in Seq(Codes)
      BY <2>1
    <3>2. QED BY <3>1, VerdictsTyped
  <2>3. PICK v \in Verdict : Return("refused", v)
    BY <1>2, <1>8, <2>2 DEF NothingRecommended
  <2>4. QED BY <1>2, <1>8, <2>3, InvReturn DEF NothingRecommended
<1>9. CASE ForbidParent
  <2>1. rec # 0 /\ pc = "head" /\ cache' = cache /\ recoveries' = recoveries
    BY <1>9 DEF ForbidParent, AtHead
  <2>2. cands[rec].adapter \in AdapterClasses /\ "adapter_parent_forbidden" \in Codes
    BY <1>1, <2>1, RecTyped DEF Codes, loopRefusals
  <2>3. DemoteAs(rec, cands[rec].adapter, "adapter_parent_forbidden")
    BY <1>9 DEF ForbidParent
  <2>4. QED BY <1>2, <2>1, <2>2, <2>3, InvDemoteAs
<1>10. CASE TryGate
  <2>1. PICK v \in Verdict : Tried(v, NoPlan)
    BY <1>10, GateTyped, VerdictsTyped DEF TryGate
  <2>2. QED BY <1>2, <1>10, <2>1, InvTried DEF TryGate
<1>11. CASE TryCached
  BY <1>11, InvTryCached
<1>12. CASE \E o \in PlanOutcomes : TryBuild(o)
  BY <1>12, InvTryBuild
<1>13. CASE Accept
  <2>1. UNCHANGED <<cands, rec, chain>>
    BY <1>13 DEF Accept
  <2>2. TypeOK' /\ Control'
    BY <1>1, <1>13 DEF TypeOK, Control, Accept
  <2>3. QED BY <2>1, <2>2, InvQuiet
<1>14. CASE RefuseForGood
  BY <1>2, <1>14, InvReturn DEF RefuseForGood
<1>15. CASE Demote \/ SkipRecovery
  <2>1. /\ Retrying /\ cache' = cache /\ recoveries' = recoveries
        /\ DemoteAs(cur, cands[cur].adapter, retryableRefusal(last))
    BY <1>15 DEF Demote, SkipRecovery
  <2>2. cands[cur].adapter \in AdapterClasses
    BY <1>1, <2>1, RecTyped DEF Control, Retrying
  <2>3. QED BY <1>2, <2>1, <2>2, InvRetry
<1>16. CASE \E p \in RecoveryPlans, o \in RecoveryOutcomes : Recover(p, o)
  BY <1>16, InvRecover
<1>17. CASE \E p \in RecoveryPlans, o \in RecoveryOutcomes : FailRecovery(p, o)
  BY <1>17, InvFailRecovery
<1>18. CASE \E o \in PlanOutcomes : BuildDirect(o)
  <2>1. /\ pc = "final" /\ recoveries' = recoveries
        /\ \E r \in {"accepted", "error"} : Finish(r, NoRoot)
    BY <1>18 DEF BuildDirect
  <2>2. QED BY <1>2, <2>1, InvFinish
<1>19. CASE \E o \in RecoveryOutcomes : BuildAdapted(o)
  <2>1. PICK a : a = cachedAdapterPlanFor(cands[rec].key)
    OBVIOUS
  <2>2. pc = "final" /\ rec # 0
    BY <1>1, <1>19 DEF BuildAdapted, Control
  <2>3. cands[rec].key \in Keys /\ rec \in Steps /\ root \in Roots
    BY <1>1, <2>2, RecTyped DEF TypeOK
  <2>4. a \in Roots \cup {NoRoot}
    BY <1>2, <2>1, <2>3 DEF cachedAdapterPlanFor, Entry
  <2>5. \E r \in {"accepted", "error"}, b \in Roots \cup {NoRoot} : Finish(r, b)
    BY <1>19, <2>1, <2>3, <2>4 DEF BuildAdapted
  <2>6. \/ recoveries' = recoveries
        \/ recoveries' = [recoveries EXCEPT ![rec] = @ + 1]
    BY <1>19 DEF BuildAdapted
  <2>7. recoveries' \in [Steps -> Nat]
    BY <1>1, <1>2, <2>3, <2>6, CountTyped
  <2>8. QED BY <2>2, <2>5, <2>7, InvFinish
<1>20. QED
  BY <1>3, <1>4, <1>5, <1>6, <1>7, <1>8, <1>9, <1>10, <1>11, <1>12, <1>13,
     <1>14, <1>15, <1>16, <1>17, <1>18, <1>19 DEF Next, LiftStep

-------------------------------------------------------------------------------

\* The invariant holds in every reachable state, for every set of paths, roots,
\* outcomes and every number of lifts.
THEOREM AdmissionInvariant == Spec => []AdmissionInv
<1>1. Init => AdmissionInv
  BY InvInit
<1>2. AdmissionInv /\ [Next]_vars => AdmissionInv'
  BY InvNext
<1>3. QED BY <1>1, <1>2, PTL DEF Spec

\* The values of the admission state: what the loop, the cache and the final
\* build-plan phase ever store is well-formed.
THEOREM TypeCorrect == Spec => []TypeOK
<1>1. AdmissionInv => TypeOK
  BY DEF AdmissionInv
<1>2. QED BY <1>1, AdmissionInvariant, PTL

\* The ranking loop demotes in rank order and never skips a candidate.
THEOREM RankOrder == Spec => []DemotionsFollowRanking
<1>1. AdmissionInv => DemotionsFollowRanking
  BY DEF AdmissionInv
<1>2. QED BY <1>1, AdmissionInvariant, PTL

-------------------------------------------------------------------------------
(* Admission implements CutSelection.                                        *)

\* While the ranks stay, so do the preferences.
LEMMA PreferencesKept ==
    ASSUME DOMAIN cands' = DOMAIN cands,
           \A t \in DOMAIN cands : Rank(cands'[t]) = Rank(cands[t])
    PROVE  Preferences' = Preferences
BY DEF Preferences, Preferred

\* The recommended candidate is the best contender.
LEMMA RecIsBest ==
    ASSUME AdmissionInv, rec # 0
    PROVE  Selection!Best(rec)
<1>1. /\ rec \in FeasibleSteps(cands)
      /\ \A t \in FeasibleSteps(cands) \ {rec} : Preferred(rec, t)
  BY DEF AdmissionInv, Ranked
<1>2. FeasibleSteps(cands) \subseteq DOMAIN cands
  BY DEF FeasibleSteps
<1>3. QED BY <1>1, <1>2 DEF Selection!Best, Preferences

\* A step outside the ranking and outside the outcome stutters.
LEMMA SelectionQuiet ==
    ASSUME UNCHANGED <<cands, rec>>, Outcome' = Outcome
    PROVE  UNCHANGED Selection!selection
<1>1. Preferences' = Preferences
  BY DEF Preferences, Preferred
<1>2. QED BY <1>1 DEF Selection!selection, Choice, FeasibleSteps

\* A lift that ends without a cut gives the contest up.
LEMMA SelectionGivesUp ==
    ASSUME UNCHANGED <<cands, rec>>, Outcome \in {"open", "chosen"}, Outcome' = "none"
    PROVE  Selection!GiveUp
<1>1. Preferences' = Preferences
  BY DEF Preferences, Preferred
<1>2. QED BY <1>1 DEF Selection!GiveUp, Choice, FeasibleSteps

\* A demotion discards the best contender.
LEMMA SelectionDiscards ==
    ASSUME AdmissionInv, rec # 0, pc \in {"head", "judge"},
           NEW class \in AdapterClasses, NEW code, DemoteAs(rec, class, code)
    PROVE  Selection!Discard
<1>1. PICK n \in 0..MaxStep : SliceOf(cands, n) /\ DOMAIN cands = 1..n
  BY InvSlice DEF AdmissionInv
<1>2. rec \in 1..n
  BY <1>1, RecTyped DEF AdmissionInv
<1>3. /\ SliceOf(cands', n)
      /\ FeasibleSteps(cands') = FeasibleSteps(cands) \ {rec}
      /\ \A t \in 1..n : Rank(cands'[t]) = Rank(cands[t])
  BY <1>1, <1>2, DemotedByLoop
<1>4. DOMAIN cands' = 1..n
  BY <1>3, SliceIsSlice
<1>5. Preferences' = Preferences
  BY <1>1, <1>3, <1>4, PreferencesKept
<1>6. Outcome = "open" /\ Outcome' = "open"
  BY DEF AdmissionInv, Control, DemoteAs, Outcome
<1>7. Selection!Best(rec) /\ rec \in FeasibleSteps(cands)
  BY RecIsBest DEF Selection!Best
<1>8. QED BY <1>3, <1>5, <1>6, <1>7 DEF Selection!Discard, Choice

\* Every step of the admission is a step of the contest or a stutter.
LEMMA SelectionNext ==
    ASSUME AdmissionInv, AdmissionInv', [Next]_vars
    PROVE  [Selection!Next]_(Selection!selection)
<1>1. TypeOK /\ Control
  BY DEF AdmissionInv
<1>2. ASSUME NEW r \in {"refused", "error"}, NEW v, Return(r, v), pc \in {"head", "judge"}
      PROVE  Selection!GiveUp
  <2>1. UNCHANGED <<cands, rec>> /\ Outcome = "open" /\ Outcome' = "none"
    BY <1>1, <1>2 DEF Return, Outcome, Control
  <2>2. QED BY <2>1, SelectionGivesUp
<1>3. CASE UNCHANGED vars
  BY <1>3, SelectionQuiet DEF vars, Outcome
<1>4. ASSUME NEW path \in Paths, NEW r \in Roots, NEW enabled \in BOOLEAN,
             NEW aware \in BOOLEAN, BeginLift(path, r, enabled, aware)
      PROVE  Selection!Start
  <2>1. Outcome # "open"
    BY <1>1, <1>4 DEF BeginLift, Outcome, Control
  <2>2. \/ Outcome' = "open" /\ Choice' = 0
        \/ Outcome' = "none" /\ Choice' = 0
        \/ Outcome' = "chosen" /\ Choice' = rec' /\ rec' # 0
    BY <1>4 DEF BeginLift, Outcome, Choice
  <2>3. rec' # 0 => /\ rec' \in FeasibleSteps(cands')
                    /\ \A t \in FeasibleSteps(cands') \ {rec'} : <<rec', t>> \in Preferences'
    <3>1. rec' # 0 => /\ rec' \in FeasibleSteps(cands')
                      /\ \A t \in FeasibleSteps(cands') \ {rec'} :
                            LexLess(Rank(cands'[rec']), Rank(cands'[t]))
      BY DEF AdmissionInv, Ranked, Preferred
    <3>2. FeasibleSteps(cands') \subseteq DOMAIN cands'
      BY DEF FeasibleSteps
    <3>3. QED BY <3>1, <3>2 DEF Preferences, Preferred
  <2>4. QED BY <2>1, <2>2, <2>3 DEF Selection!Start, Selection!Best
<1>5. CASE DeadlinePasses
  BY <1>5, SelectionQuiet DEF DeadlinePasses, Outcome
<1>6. CASE AttemptsExhausted \/ BudgetExceeded \/ NothingRecommended \/ RefuseForGood
  <2>1. pc \in {"head", "judge"} /\ \E v : Return("refused", v)
    BY <1>6 DEF AttemptsExhausted, BudgetExceeded, NothingRecommended, RefuseForGood, AtHead
  <2>2. QED BY <1>2, <2>1 DEF Selection!Next
<1>7. CASE ForbidParent
  <2>1. /\ rec # 0 /\ pc = "head"
        /\ DemoteAs(rec, cands[rec].adapter, "adapter_parent_forbidden")
    BY <1>7 DEF ForbidParent, AtHead
  <2>2. cands[rec].adapter \in AdapterClasses
    BY <1>1, <2>1, RecTyped
  <2>3. QED BY <2>1, <2>2, SelectionDiscards DEF Selection!Next
<1>8. ASSUME NEW v, NEW p, Tried(v, p), Trying
      PROVE  UNCHANGED Selection!selection
  <2>1. UNCHANGED <<cands, rec>> /\ Outcome' = Outcome
    BY <1>1, <1>8 DEF Tried, Trying, AtHead, Outcome, Control
  <2>2. QED BY <2>1, SelectionQuiet
<1>9. CASE TryGate \/ TryCached \/ \E o \in PlanOutcomes : TryBuild(o)
  <2>1. Trying /\ ((\E v, p : Tried(v, p)) \/ Return("error", last))
    BY <1>9 DEF TryGate, TryCached, TryBuild
  <2>2. pc = "head"
    BY <2>1 DEF Trying, AtHead
  <2>3. QED BY <1>2, <1>8, <2>1, <2>2 DEF Selection!Next
<1>10. CASE Accept
  <2>1. /\ UNCHANGED <<cands, rec>> /\ rec # 0
        /\ Outcome = "open" /\ Outcome' = "chosen" /\ Choice' = rec
    BY <1>1, <1>10 DEF Accept, Outcome, Choice, Control
  <2>2. UNCHANGED <<Preferences, FeasibleSteps(cands)>>
    BY <2>1 DEF Preferences, Preferred, FeasibleSteps
  <2>3. Selection!Best(rec)
    BY <2>1, RecIsBest
  <2>4. QED BY <2>1, <2>2, <2>3 DEF Selection!Next, Selection!Choose, Selection!Best
<1>11. CASE /\ Retrying
            /\ \E class \in AdapterClasses : DemoteAs(cur, class, retryableRefusal(last))
  <2>1. pc = "judge" /\ cur = rec /\ rec # 0
    BY <1>1, <1>11 DEF Retrying, Control
  <2>2. PICK class \in AdapterClasses : DemoteAs(rec, class, retryableRefusal(last))
    BY <1>11, <2>1
  <2>3. QED BY <2>1, <2>2, SelectionDiscards DEF Selection!Next
<1>12. CASE Demote \/ SkipRecovery
  <2>1. Retrying /\ DemoteAs(cur, cands[cur].adapter, retryableRefusal(last))
    BY <1>12 DEF Demote, SkipRecovery
  <2>2. cands[cur].adapter \in AdapterClasses
    BY <1>1, <2>1, RecTyped DEF Retrying, Control
  <2>3. QED BY <1>11, <2>1, <2>2
<1>13. CASE \E p \in RecoveryPlans, o \in RecoveryOutcomes : FailRecovery(p, o)
  <2>1. Retrying /\ \E why : DemoteAs(cur, adapterRefusalClass(why), retryableRefusal(last))
    BY <1>13 DEF FailRecovery
  <2>2. \A why : adapterRefusalClass(why) \in AdapterClasses
    BY DEF adapterRefusalClass, AdapterClasses
  <2>3. QED BY <1>11, <2>1, <2>2
<1>14. CASE \E p \in RecoveryPlans, o \in RecoveryOutcomes : Recover(p, o)
  <2>1. /\ cur = rec /\ rec # 0 /\ rec' = cur /\ Outcome = "open"
        /\ Outcome' = "chosen" /\ Choice' = rec
        /\ cands' = markCandidateAdapter(cands, rec, "AdapterPossible")
    BY <1>1, <1>14 DEF Recover, Retrying, Control, Outcome, Choice
  <2>2. PICK n \in 0..MaxStep : SliceOf(cands, n) /\ DOMAIN cands = 1..n
    BY InvSlice DEF AdmissionInv
  <2>3. /\ DOMAIN cands' = 1..n
        /\ FeasibleSteps(cands') = FeasibleSteps(cands)
        /\ \A t \in 1..n : Rank(cands'[t]) = Rank(cands[t])
    <3>1. rec \in 1..n /\ "AdapterPossible" \in AdapterClasses
      BY <1>1, <2>1, <2>2, RecTyped DEF AdapterClasses
    <3>2. QED BY <2>1, <2>2, <3>1, MarkedByLoop
  <2>4. Preferences' = Preferences
    BY <2>2, <2>3, PreferencesKept
  <2>5. Selection!Best(rec)
    BY <2>1, RecIsBest
  <2>6. QED BY <2>1, <2>3, <2>4, <2>5 DEF Selection!Next, Selection!Choose, Selection!Best
<1>15. CASE \/ \E o \in PlanOutcomes : BuildDirect(o)
            \/ \E o \in RecoveryOutcomes : BuildAdapted(o)
  <2>1. pc = "final" /\ \E r \in {"accepted", "error"} : \E a : Finish(r, a)
    BY <1>15 DEF BuildDirect, BuildAdapted
  <2>2. /\ UNCHANGED <<cands, rec>> /\ Outcome = "chosen"
        /\ Outcome' = "chosen" \/ Outcome' = "none"
    BY <1>1, <2>1 DEF Finish, Outcome, Control
  <2>3. QED BY <2>2, SelectionQuiet, SelectionGivesUp DEF Selection!Next
<1>16. QED
  BY <1>3, <1>4, <1>5, <1>6, <1>7, <1>9, <1>10, <1>12, <1>13, <1>14, <1>15
  DEF Next, LiftStep, Selection!Next

\* The admission loop with its cache, recoveries and deadline implements the
\* contest of CutSelection: the chosen cut is always the best of the candidates
\* no refusal has removed.
THEOREM AdmissionSelects == Spec => SelectionSpec
<1>1. Init => Selection!Init
  <2>1. ASSUME Init PROVE Selection!Init
    <3>1. DOMAIN cands = {}
      BY <2>1 DEF Init
    <3>2. QED BY <2>1, <3>1
          DEF Init, Selection!Init, Preferences, FeasibleSteps, Outcome, Choice
  <2>2. QED BY <2>1
<1>2. AdmissionInv /\ AdmissionInv' /\ [Next]_vars => [Selection!Next]_(Selection!selection)
  BY SelectionNext
<1>3. QED BY <1>1, <1>2, AdmissionInvariant, PTL DEF Spec, SelectionSpec, Selection!Spec

\* A step of the loop's exits and of the build-plan phase: cut and trial stay.
Quiet == UNCHANGED <<cands, rec, cur, adapterEnabled>>

\* The other candidates are left alone when one is demoted or marked.
LEMMA OthersDemoted ==
    ASSUME NEW n, SliceOf(cands, n), rec \in 1..n,
           NEW class \in AdapterClasses,
           cands' = DemoteCandidate(markCandidateAdapter(cands, rec, class), rec)
    PROVE  /\ DOMAIN cands' = 1..n
           /\ \A t \in 1..n : t # rec => cands'[t] = cands[t]
           /\ cands'[rec].adapter = class
<1>1. PICK m, cs, s : m = cands' /\ cs = cands /\ s = rec
  OBVIOUS
<1>2. SliceOf(cs, n) /\ s \in 1..n
  BY <1>1
<1>3. m = DemoteCandidate(markCandidateAdapter(cs, s, class), s)
  BY <1>1
<1>4. /\ SliceOf(m, n) /\ m[s].adapter = class
      /\ \A t \in 1..n : t # s => m[t] = cs[t]
  BY <1>2, <1>3, DemotedSlice
<1>5. DOMAIN m = 1..n
  BY <1>4, SliceIsSlice
<1>6. QED BY <1>1, <1>4, <1>5

LEMMA OthersMarked ==
    ASSUME NEW n, SliceOf(cands, n), rec \in 1..n,
           NEW class \in AdapterClasses,
           cands' = markCandidateAdapter(cands, rec, class)
    PROVE  /\ DOMAIN cands' = 1..n
           /\ \A t \in 1..n : t # rec => cands'[t] = cands[t]
           /\ cands'[rec].adapter = class
<1>1. PICK m, cs, s : m = cands' /\ cs = cands /\ s = rec
  OBVIOUS
<1>2. SliceOf(cs, n) /\ s \in 1..n
  BY <1>1
<1>3. m = markCandidateAdapter(cs, s, class)
  BY <1>1
<1>4. /\ SliceOf(m, n) /\ m[s].adapter = class
      /\ \A t \in 1..n : t # s => m[t] = cs[t]
  BY <1>2, <1>3, MarkedSlice
<1>5. DOMAIN m = 1..n
  BY <1>4, SliceIsSlice
<1>6. QED BY <1>1, <1>4, <1>5

\* The kinds of steps: which demote, which try, which recover, and which leave
\* the candidates alone.
LEMMA Kinds ==
    ASSUME AdmissionInv, LiftStep
    PROVE  \/ Quiet
           \/ \E class \in AdapterClasses : \E code : DemoteAs(rec, class, code)
           \/ Trying /\ \E v, p : Tried(v, p)
           \/ \E p \in RecoveryPlans, o \in RecoveryOutcomes : Recover(p, o)
<1>1. TypeOK /\ Control
  BY DEF AdmissionInv
<1>2. Retrying => cur = rec /\ rec # 0
  BY <1>1 DEF Control, Retrying
<1>3. \A why : adapterRefusalClass(why) \in AdapterClasses
  BY DEF adapterRefusalClass, AdapterClasses
<1>4. rec # 0 => cands[rec].adapter \in AdapterClasses
  BY <1>1, RecTyped
<1>5. CASE ForbidParent
  BY <1>4, <1>5 DEF ForbidParent
<1>6. CASE Demote \/ SkipRecovery
  BY <1>2, <1>4, <1>6 DEF Demote, SkipRecovery
<1>7. CASE \E p \in RecoveryPlans, o \in RecoveryOutcomes : FailRecovery(p, o)
  BY <1>2, <1>3, <1>7 DEF FailRecovery
<1>8. CASE TryGate \/ TryCached \/ \E o \in PlanOutcomes : TryBuild(o)
  <2>1. Trying /\ ((\E v, p : Tried(v, p)) \/ Return("error", last))
    BY <1>8 DEF TryGate, TryCached, TryBuild
  <2>2. QED BY <2>1 DEF Return, Quiet
<1>9. CASE \/ AttemptsExhausted \/ BudgetExceeded \/ NothingRecommended
           \/ RefuseForGood \/ Accept
  BY <1>9 DEF AttemptsExhausted, BudgetExceeded, NothingRecommended, RefuseForGood,
     Accept, Return, Quiet
<1>10. CASE \/ \E o \in PlanOutcomes : BuildDirect(o)
            \/ \E o \in RecoveryOutcomes : BuildAdapted(o)
  BY <1>10 DEF BuildDirect, BuildAdapted, Finish, Quiet
<1>11. QED BY <1>5, <1>6, <1>7, <1>8, <1>9, <1>10 DEF LiftStep

-------------------------------------------------------------------------------
(* The boundary adapter rules.                                               *)

\* A candidate under trial has no adapter-shaped candidate below it.
LeafInv ==
    (adapterEnabled /\ cur # 0) =>
        /\ cur = rec
        /\ \A t \in DOMAIN cands : t > rec => cands[t].adapter = "DirectBoundary"

LEMMA LeafNext ==
    ASSUME AdmissionInv, LeafInv, [Next]_vars
    PROVE  LeafInv'
<1>1. CASE UNCHANGED vars \/ DeadlinePasses
  BY <1>1 DEF vars, DeadlinePasses, LeafInv
<1>2. CASE \E path \in Paths, r \in Roots, enabled, aware \in BOOLEAN :
              BeginLift(path, r, enabled, aware)
  <2>1. cur' = 0
    BY <1>2 DEF BeginLift
  <2>2. QED BY <2>1 DEF LeafInv
<1>3. CASE Quiet
  BY <1>3 DEF Quiet, LeafInv
<1>4. CASE \E class \in AdapterClasses : \E code : DemoteAs(rec, class, code)
  <2>1. cur' = 0
    BY <1>4 DEF DemoteAs
  <2>2. QED BY <2>1 DEF LeafInv
<1>5. CASE Trying /\ \E v, p : Tried(v, p)
  BY <1>5 DEF Trying, Tried, LeafInv, adapterParentForbiddenForCandidate
<1>6. CASE \E p \in RecoveryPlans, o \in RecoveryOutcomes : Recover(p, o)
  <2>1. /\ cur = rec /\ rec # 0 /\ rec' = rec /\ cur' = cur
        /\ adapterEnabled' = adapterEnabled
        /\ cands' = markCandidateAdapter(cands, rec, "AdapterPossible")
    BY <1>6 DEF AdmissionInv, Control, Recover, Retrying
  <2>2. PICK n \in 0..MaxStep : SliceOf(cands, n) /\ DOMAIN cands = 1..n
    BY InvSlice DEF AdmissionInv
  <2>3. rec \in 1..n /\ "AdapterPossible" \in AdapterClasses
    BY <2>1, <2>2, RecTyped DEF AdmissionInv, AdapterClasses
  <2>4. DOMAIN cands' = 1..n /\ \A t \in 1..n : t # rec => cands'[t] = cands[t]
    BY <2>1, <2>2, <2>3, OthersMarked
  <2>5. \A t \in 1..n : t > rec => t # rec
    BY <2>3
  <2>6. QED BY <2>1, <2>2, <2>4, <2>5 DEF LeafInv
<1>7. QED BY <1>1, <1>2, <1>3, <1>4, <1>5, <1>6, Kinds DEF Next

\* With the boundary adapter enabled no ancestor of an adapter-shaped candidate
\* is accepted, for every path and every outcome of plans and recoveries.
THEOREM NoAncestor == Spec => []NoParentOfAdapterLeaf
<1>1. Init => LeafInv
  BY DEF Init, LeafInv
<1>2. AdmissionInv /\ LeafInv /\ [Next]_vars => LeafInv'
  BY LeafNext
<1>3. LeafInv => NoParentOfAdapterLeaf
  BY DEF LeafInv, NoParentOfAdapterLeaf
<1>4. QED BY <1>1, <1>2, <1>3, AdmissionInvariant, PTL DEF Spec

-------------------------------------------------------------------------------
(* The plan cache.                                                           *)

LEMMA EntryIsNoNone ==
    ASSUME NEW v, NEW p, NEW e, NEW a
    PROVE  [verdict |-> v, plan |-> p, err |-> e, adapter |-> a] # NoEntry
<1> DEFINE r == [verdict |-> v, plan |-> p, err |-> e, adapter |-> a]
<1>1. "verdict" \in DOMAIN r
  OBVIOUS
<1>2. "verdict" \notin DOMAIN NoEntry
  BY DEF NoEntry
<1>3. QED BY <1>1, <1>2

\* A step leaves what it finds in the cache.
LEMMA CacheStep ==
    ASSUME AdmissionInv, [Next]_vars, NEW k \in Keys, cache[k] # NoEntry
    PROVE  /\ cache'[k] # NoEntry
           /\ cache'[k].verdict = cache[k].verdict
           /\ cache'[k].plan = cache[k].plan
           /\ cache'[k].err = cache[k].err
<1>1. TypeOK /\ Control
  BY DEF AdmissionInv
<1>2. cache \in [Keys -> Entry \cup {NoEntry}]
  BY <1>1 DEF TypeOK
<1>3. CASE cache' = cache
  BY <1>3
<1>4. CASE \E o \in PlanOutcomes : TryBuild(o)
  <2>1. PICK e, key : cache[key] = NoEntry /\ cache' = [cache EXCEPT ![key] = e]
    BY <1>4 DEF TryBuild
  <2>2. k # key
    BY <2>1
  <2>3. cache'[k] = cache[k]
    BY <1>2, <2>1, <2>2
  <2>4. QED BY <2>3
<1>5. CASE \E p \in RecoveryPlans, o \in RecoveryOutcomes : Recover(p, o)
  <2>1. PICK r \in Roots : \E key : cache' = storeCandidateAdapterPlan(cache, key, r)
    <3>1. PICK p \in RecoveryPlans : p # NoPlan /\
              cache' = storeCandidateAdapterPlan(cache, cands[cur].key, p.root)
      BY <1>5 DEF Recover
    <3>2. p.root \in Roots
      BY <1>1, <3>1, RecoveryPlanTyped DEF Plan
    <3>3. QED BY <3>1, <3>2
  <2>2. PICK key : cache' = storeCandidateAdapterPlan(cache, key, r)
    BY <2>1
  <2>3. CASE key # k
    BY <1>2, <2>2, <2>3 DEF storeCandidateAdapterPlan
  <2>4. CASE key = k
    <3>1. cache'[k] = [verdict |-> cache[k].verdict, plan |-> cache[k].plan,
                       err |-> cache[k].err, adapter |-> r]
      BY <1>2, <2>2, <2>4 DEF storeCandidateAdapterPlan
    <3>2. cache'[k] # NoEntry
      BY <3>1, EntryIsNoNone
    <3>3. QED BY <3>1, <3>2
  <2>5. QED BY <2>3, <2>4
<1>6. cache' = cache \/ (\E o \in PlanOutcomes : TryBuild(o))
      \/ (\E p \in RecoveryPlans, o \in RecoveryOutcomes : Recover(p, o))
  <2>1. CASE UNCHANGED vars \/ DeadlinePasses
    BY <2>1 DEF vars, DeadlinePasses
  <2>2. CASE \E path \in Paths, r \in Roots, enabled, aware \in BOOLEAN :
              BeginLift(path, r, enabled, aware)
    BY <2>2 DEF BeginLift
  <2>3. CASE LiftStep
    BY <2>3 DEF LiftStep, AttemptsExhausted, BudgetExceeded, NothingRecommended,
       ForbidParent, TryGate, TryCached, Accept, RefuseForGood, Demote, SkipRecovery,
       FailRecovery, BuildDirect, BuildAdapted, Finish
  <2>4. QED BY <2>1, <2>2, <2>3 DEF Next
<1>7. QED BY <1>3, <1>4, <1>5, <1>6

\* What the cache says of a function is never rewritten, by no lift and by no
\* recovery, however many lifts one process runs.
THEOREM CacheKept == Spec => CachedVerdictPreserved
<1>1. AdmissionInv /\ [Next]_vars =>
        [\A k \in Keys : cache[k] # NoEntry =>
            /\ cache'[k] # NoEntry
            /\ cache'[k].verdict = cache[k].verdict
            /\ cache'[k].plan = cache[k].plan
            /\ cache'[k].err = cache[k].err]_vars
  BY CacheStep
<1>2. QED BY <1>1, AdmissionInvariant, PTL DEF Spec, CachedVerdictPreserved

-------------------------------------------------------------------------------
(* Recoveries.                                                               *)

Recovered(s) == recoveries[s] = 1

\* A recovery has been run for a demoted candidate, or for the one it has just
\* settled on, whose adapter plan is then in the cache.
OnceInv ==
    /\ \A s \in Steps : recoveries[s] <= 1
    /\ pc \in {"head", "judge"} =>
          /\ \A t \in DOMAIN cands : cands[t].adapter # "AdapterPossible"
          /\ \A t \in FeasibleSteps(cands) : recoveries[t] = 0
    /\ (pc = "final" /\ cands[rec].adapter = "AdapterPossible") =>
          /\ Recovered(rec)
          /\ cachedAdapterPlanFor(cands[rec].key) # NoRoot
    /\ adapterRoot # NoRoot => pc = "done" /\ Recovered(rec)

\* What the invariant says of a state the loop is in.
LEMMA LoopState ==
    ASSUME AdmissionInv, OnceInv, pc \in {"head", "judge"}
    PROVE  /\ adapterRoot = NoRoot
           /\ rec # 0 => rec \in Steps /\ rec \in DOMAIN cands /\ recoveries[rec] = 0
                         /\ cands[rec].adapter # "AdapterPossible"
           /\ recoveries \in [Steps -> Nat]
<1>1. rec # 0 => rec \in FeasibleSteps(cands)
  BY DEF AdmissionInv, Ranked
<1>2. rec # 0 => rec \in DOMAIN cands /\ rec \in Steps
  BY <1>1, RecTyped DEF AdmissionInv, FeasibleSteps
<1>3. QED BY <1>1, <1>2 DEF OnceInv, AdmissionInv, TypeOK

\* A candidate leaves the ranking, a recovery having been run for it or not.
LEMMA OnceDemoted ==
    ASSUME AdmissionInv, OnceInv, pc \in {"head", "judge"}, rec # 0,
           NEW class \in AdapterClasses \ {"AdapterPossible"}, NEW code,
           DemoteAs(rec, class, code),
           \/ recoveries' = recoveries
           \/ recoveries' = [recoveries EXCEPT ![rec] = @ + 1]
    PROVE  OnceInv'
<1>1. PICK n \in 0..MaxStep : SliceOf(cands, n) /\ DOMAIN cands = 1..n
  BY InvSlice DEF AdmissionInv
<1>2. /\ rec \in 1..n /\ rec \in Steps /\ recoveries[rec] = 0 /\ adapterRoot = NoRoot
      /\ recoveries \in [Steps -> Nat]
  BY <1>1, LoopState
<1>3. /\ DOMAIN cands' = 1..n
      /\ \A t \in 1..n : t # rec => cands'[t] = cands[t]
      /\ cands'[rec].adapter = class
  BY <1>1, <1>2, OthersDemoted DEF DemoteAs
<1>4. FeasibleSteps(cands') = FeasibleSteps(cands) \ {rec}
  BY <1>1, <1>2, DemotedByLoop
<1>5. /\ \A s \in Steps : s # rec => recoveries'[s] = recoveries[s]
      /\ recoveries'[rec] <= 1
  BY <1>2
<1>6. pc' = "head" /\ adapterRoot' = adapterRoot
  BY DEF DemoteAs
<1>7. FeasibleSteps(cands) \subseteq Steps
  BY <1>1, MaxStepAssumption DEF FeasibleSteps, Steps
<1>8. \A s \in Steps : recoveries'[s] <= 1
  BY <1>5 DEF OnceInv
<1>9. \A t \in DOMAIN cands' : cands'[t].adapter # "AdapterPossible"
  BY <1>1, <1>3 DEF OnceInv
<1>10. \A t \in FeasibleSteps(cands') : recoveries'[t] = 0
  BY <1>4, <1>5, <1>7 DEF OnceInv
<1>11. QED BY <1>2, <1>6, <1>8, <1>9, <1>10 DEF OnceInv

\* A new lift starts from fresh candidates, none of them marked.
LEMMA OnceBegun ==
    ASSUME AdmissionInv', NEW path \in Paths, NEW r \in Roots,
           NEW enabled \in BOOLEAN, NEW aware \in BOOLEAN,
           BeginLift(path, r, enabled, aware)
    PROVE  OnceInv'
<1>1. /\ recoveries' = [t \in Steps |-> 0] /\ adapterRoot' = NoRoot
      /\ cands' = buildCutCandidates(path)
      /\ pc' \in {"head", "done", "final"}
      /\ pc' = "final" => rec' # 0
  BY DEF BeginLift
<1>2. \A t \in DOMAIN cands' : cands'[t].adapter # "AdapterPossible"
  BY <1>1 DEF buildCutCandidates, defaultAdapterClass
<1>3. pc' = "final" => rec' \in DOMAIN cands'
  BY <1>1 DEF AdmissionInv, TypeOK
<1>4. FeasibleSteps(cands') \subseteq Steps
  <2>1. SliceOf(cands', Len(path))
    BY <1>1, BuiltSlice
  <2>2. QED BY <2>1, MaxStepAssumption DEF SliceOf, FeasibleSteps, Steps
<1>5. QED BY <1>1, <1>2, <1>3, <1>4 DEF OnceInv

\* A recovery that succeeds has been run once, and leaves its plan in the cache.
LEMMA OnceRecovered ==
    ASSUME AdmissionInv, OnceInv, NEW p \in RecoveryPlans, NEW o \in RecoveryOutcomes,
           Recover(p, o)
    PROVE  OnceInv'
<1>1. /\ pc = "judge" /\ cur = rec /\ rec # 0 /\ rec' = rec /\ pc' = "final"
      /\ adapterRoot' = adapterRoot
      /\ cands' = markCandidateAdapter(cands, rec, "AdapterPossible")
      /\ cache' = storeCandidateAdapterPlan(cache, cands[rec].key, p.root)
      /\ recoveries' = [recoveries EXCEPT ![rec] = @ + 1]
      /\ p # NoPlan
  BY DEF AdmissionInv, Control, Recover, Retrying
<1>2. rec \in Steps /\ recoveries[rec] = 0 /\ adapterRoot = NoRoot
      /\ recoveries \in [Steps -> Nat]
  BY <1>1, LoopState
<1>3. /\ recoveries'[rec] = 1
      /\ \A s \in Steps : recoveries'[s] <= 1
  BY <1>1, <1>2 DEF OnceInv
<1>4. cands'[rec].key = cands[rec].key /\ cands[rec].key \in Keys
  <2>1. PICK n \in 0..MaxStep : cands \in [1..n -> Candidate] /\ rec \in 1..n
    BY <1>1 DEF AdmissionInv, TypeOK
  <2>2. cands'[rec] = Regraded(cands[rec], cands[rec].feasible, "AdapterPossible")
    BY <1>1, <2>1 DEF markCandidateAdapter
  <2>3. QED BY <2>1, <2>2 DEF Regraded, Candidate
<1>5. p.root \in Roots
  BY <1>1, RecoveryPlanTyped DEF AdmissionInv, Plan
<1>6. cachedAdapterPlanFor(cands[rec].key)' # NoRoot
  <2> DEFINE known == IF cache[cands[rec].key] # NoEntry THEN cache[cands[rec].key]
                      ELSE [verdict |-> EmptyVerdict, plan |-> NoPlan,
                            err |-> FALSE, adapter |-> NoRoot]
             e == [verdict |-> known.verdict, plan |-> known.plan,
                   err |-> known.err, adapter |-> p.root]
  <2>1. cache' = [cache EXCEPT ![cands[rec].key] = e]
    BY <1>1 DEF storeCandidateAdapterPlan
  <2>2. cache'[cands[rec].key] = e
    BY <1>4, <2>1 DEF AdmissionInv, TypeOK
  <2>3. e # NoEntry /\ e.adapter = p.root
    BY EntryIsNoNone
  <2> HIDE DEF e
  <2>4. QED BY <1>1, <1>4, <1>5, <2>2, <2>3, AdmissionAssumption DEF cachedAdapterPlanFor
<1>7. QED BY <1>1, <1>2, <1>3, <1>4, <1>6 DEF OnceInv, Recovered, cachedAdapterPlanFor

LEMMA OnceNext ==
    ASSUME AdmissionInv, AdmissionInv', OnceInv, [Next]_vars
    PROVE  OnceInv'
<1>1. TypeOK /\ Control
  BY DEF AdmissionInv
<1>2. /\ Retrying => cur = rec /\ rec # 0
      /\ rec # 0 => cands[rec].adapter \in AdapterClasses
  BY <1>1, RecTyped DEF Control, Retrying
<1>3. CASE UNCHANGED vars \/ DeadlinePasses
  BY <1>3 DEF vars, DeadlinePasses, OnceInv, Recovered, FeasibleSteps, cachedAdapterPlanFor
<1>4. CASE \E path \in Paths, r \in Roots, enabled, aware \in BOOLEAN :
              BeginLift(path, r, enabled, aware)
  BY <1>4, OnceBegun
<1>5. ASSUME NEW r, NEW v, Return(r, v), recoveries' = recoveries, pc \in {"head", "judge"}
      PROVE  OnceInv'
  <2>1. adapterRoot' = NoRoot /\ pc' = "done"
    BY <1>5, LoopState DEF Return
  <2>2. QED BY <1>5, <2>1 DEF OnceInv
<1>6. CASE AttemptsExhausted \/ BudgetExceeded \/ NothingRecommended \/ RefuseForGood
  BY <1>5, <1>6 DEF AttemptsExhausted, BudgetExceeded, NothingRecommended, RefuseForGood,
     AtHead
<1>7. CASE ForbidParent
  <2>1. pc = "head" /\ rec # 0 /\ recoveries' = recoveries
        /\ DemoteAs(rec, cands[rec].adapter, "adapter_parent_forbidden")
    BY <1>7 DEF ForbidParent, AtHead
  <2>2. QED BY <1>2, <2>1, LoopState, OnceDemoted
<1>8. CASE TryGate \/ TryCached \/ \E o \in PlanOutcomes : TryBuild(o)
  <2>1. pc = "head" /\ recoveries' = recoveries
        /\ ((\E v, p : Tried(v, p)) \/ Return("error", last))
    BY <1>8 DEF TryGate, TryCached, TryBuild, Trying, AtHead, Tried
  <2>2. CASE \E v, p : Tried(v, p)
    BY <2>1, <2>2, LoopState DEF Tried, OnceInv, FeasibleSteps
  <2>3. QED BY <1>5, <2>1, <2>2
<1>9. CASE Accept
  <2>1. /\ pc = "judge" /\ pc' = "final"
        /\ UNCHANGED <<cands, rec, adapterRoot, recoveries>>
    BY <1>9 DEF Accept
  <2>2. rec # 0
    BY <1>1, <2>1 DEF Control
  <2>3. QED BY <2>1, <2>2, LoopState DEF OnceInv
<1>10. CASE Demote \/ SkipRecovery
  <2>1. pc = "judge" /\ Retrying /\ recoveries' = recoveries
        /\ DemoteAs(cur, cands[cur].adapter, retryableRefusal(last))
    BY <1>10 DEF Demote, SkipRecovery, Retrying
  <2>2. QED BY <1>2, <2>1, LoopState, OnceDemoted
<1>11. CASE \E p \in RecoveryPlans, o \in RecoveryOutcomes : Recover(p, o)
  BY <1>11, OnceRecovered
<1>12. CASE \E p \in RecoveryPlans, o \in RecoveryOutcomes : FailRecovery(p, o)
  <2>1. PICK why : /\ pc = "judge" /\ Retrying
                   /\ recoveries' = [recoveries EXCEPT ![cur] = @ + 1]
                   /\ DemoteAs(cur, adapterRefusalClass(why), retryableRefusal(last))
    BY <1>12 DEF FailRecovery, Retrying
  <2>2. adapterRefusalClass(why) \in AdapterClasses \ {"AdapterPossible"}
    BY DEF adapterRefusalClass, AdapterClasses
  <2>3. QED BY <1>2, <2>1, <2>2, OnceDemoted
<1>13. CASE \E o \in PlanOutcomes : BuildDirect(o)
  <2>1. adapterRoot' = NoRoot /\ recoveries' = recoveries /\ pc' = "done"
    BY <1>13 DEF BuildDirect, Finish
  <2>2. QED BY <2>1 DEF OnceInv
<1>14. CASE \E o \in RecoveryOutcomes : BuildAdapted(o)
  <2>1. /\ pc = "final" /\ cands[rec].adapter = "AdapterPossible"
        /\ pc' = "done" /\ rec' = rec
        /\ cachedAdapterPlanFor(cands[rec].key) # NoRoot => recoveries' = recoveries
    BY <1>14 DEF BuildAdapted, Finish
  <2>2. QED BY <2>1 DEF OnceInv, Recovered
<1>15. QED
  BY <1>3, <1>4, <1>6, <1>7, <1>8, <1>9, <1>10, <1>11, <1>12, <1>13, <1>14
  DEF Next, LiftStep

\* A recovery is run at most once for a candidate, and a lift through an adapter
\* uses the plan that one recovery has stored, the build-plan phase included.
THEOREM RecoveredAtMostOnce == Spec => []RecoveredOnce
<1>1. Init => OnceInv
  BY DEF Init, OnceInv
<1>2. AdmissionInv /\ AdmissionInv' /\ OnceInv /\ [Next]_vars => OnceInv'
  BY OnceNext
<1>3. OnceInv => RecoveredOnce
  BY DEF OnceInv, RecoveredOnce, Recovered
<1>4. QED BY <1>1, <1>2, <1>3, AdmissionInvariant, PTL DEF Spec
-------------------------------------------------------------------------------
(* The refusals a lift ends with.                                            *)

Left == Cardinality(FeasibleSteps(cands))

\* The deepest candidate is never forbidden as a parent.
Deepest == Len(cands)

\* A verdict with no refusal is an accepting one.
Sound(v) == v.refusals = <<>> => v.accepted

\* Every candidate tried in vain takes a turn of the loop, so that the turns run
\* out only when all candidates were feasible and have been demoted, the deepest
\* one, which must have been tried, among them.
TurnsInv ==
    /\ attempt + Left <= Len(cands)
    /\ \/ Deepest \in FeasibleSteps(cands)
       \/ last.refusals # <<>>
       \/ attempt + Left < Len(cands)

\* Until its first lift ends, the process knows sound verdicts only.
NamedInv ==
    /\ lift = 0 => pc = "idle" /\ \A k \in Keys : cache[k] = NoEntry
    /\ (lift = 1 /\ pc \in {"head", "judge"}) =>
          /\ \A k \in Keys : cache[k] # NoEntry => Sound(cache[k].verdict)
          /\ attempt + Left <= Len(cands) /\ cands # <<>>
    /\ (lift = 1 /\ pc = "head") => TurnsInv
    /\ (lift = 1 /\ pc = "judge") => Sound(last)
    /\ RefusalsNamed

\* A refusal that some candidate was demoted with is in the last verdict, unless
\* every candidate so far was passed over as a parent; no verdict but the final
\* one speaks of the budget.
Unspent(v) == \A i \in DOMAIN v.refusals : v.refusals[i] \notin loopRefusals

Evidence(v) ==
    (\E j \in DOMAIN chain : chain[j].code # "adapter_parent_forbidden") =>
        \E i \in DOMAIN v.refusals, k \in DOMAIN chain : v.refusals[i] = chain[k].code

EvidenceInv ==
    /\ \A k \in Keys : cache[k] # NoEntry => Unspent(cache[k].verdict)
    /\ pc # "done" => Unspent(last)
    /\ pc = "head" => Evidence(last)
    /\ BudgetKeepsEvidence
\* The candidates left are finitely many, and no more than there are.
LEMMA LeftOf ==
    ASSUME NEW n \in 0..MaxStep, NEW cs \in [1..n -> Candidate]
    PROVE  /\ IsFiniteSet(FeasibleSteps(cs)) /\ Cardinality(FeasibleSteps(cs)) \in Nat
           /\ Len(cs) \in Nat /\ DOMAIN cs = 1..Len(cs)
           /\ FeasibleSteps(cs) \subseteq 1..Len(cs)
           /\ Cardinality(FeasibleSteps(cs)) <= Len(cs)
           /\ Cardinality(FeasibleSteps(cs)) = Len(cs) => FeasibleSteps(cs) = 1..Len(cs)
<1>1. n \in Nat /\ Len(cs) = n /\ DOMAIN cs = 1..n
  BY MaxStepAssumption
<1>2. IsFiniteSet(1..n) /\ Cardinality(1..n) = n
  BY <1>1, FS_Interval
<1>3. FeasibleSteps(cs) \in SUBSET (1..n)
  BY <1>1 DEF FeasibleSteps
<1>4. /\ IsFiniteSet(FeasibleSteps(cs)) /\ Cardinality(FeasibleSteps(cs)) <= n
      /\ Cardinality(FeasibleSteps(cs)) = n => FeasibleSteps(cs) = 1..n
  BY <1>2, <1>3, FS_Subset
<1>5. Cardinality(FeasibleSteps(cs)) \in Nat
  BY <1>4, FS_CardinalityType
<1>6. QED BY <1>1, <1>3, <1>4, <1>5

LEMMA LeftIsFinite ==
    ASSUME AdmissionInv
    PROVE  /\ IsFiniteSet(FeasibleSteps(cands)) /\ Left \in Nat
           /\ Len(cands) \in Nat /\ DOMAIN cands = 1..Len(cands)
           /\ FeasibleSteps(cands) \subseteq 1..Len(cands) /\ Left <= Len(cands)
           /\ Left = Len(cands) => FeasibleSteps(cands) = 1..Len(cands)
           /\ attempt \in Nat
<1>1. PICK n \in 0..MaxStep : cands \in [1..n -> Candidate]
  BY DEF AdmissionInv, TypeOK
<1>2. chain \in Seq(ChainEntry) /\ attempt \in 0..Len(chain)
  BY DEF AdmissionInv, TypeOK
<1>3. attempt \in Nat
  BY <1>2
<1>4. QED BY <1>1, <1>3, LeftOf DEF Left

\* A demotion takes the recommended candidate, and no other, from those left.
LEMMA OneLess ==
    ASSUME AdmissionInv, rec # 0, NEW class \in AdapterClasses, NEW code,
           DemoteAs(rec, class, code)
    PROVE  /\ Len(cands') = Len(cands) /\ (cands # <<>> => cands' # <<>>)
           /\ Left' = Left - 1
           /\ FeasibleSteps(cands') = FeasibleSteps(cands) \ {rec}
<1>1. PICK n \in 0..MaxStep : SliceOf(cands, n) /\ DOMAIN cands = 1..n
  BY InvSlice DEF AdmissionInv
<1>2. rec \in FeasibleSteps(cands) /\ rec \in 1..n
  BY <1>1 DEF AdmissionInv, Ranked, FeasibleSteps
<1>3. SliceOf(cands', n) /\ FeasibleSteps(cands') = FeasibleSteps(cands) \ {rec}
  BY <1>1, <1>2, DemotedByLoop
<1>4. n \in Nat /\ Len(cands) = n /\ Len(cands') = n /\ DOMAIN cands' = 1..n
  BY <1>1, <1>3, MaxStepAssumption DEF SliceOf
<1>5. Cardinality(FeasibleSteps(cands) \ {rec}) = Cardinality(FeasibleSteps(cands)) - 1
  BY <1>2, LeftIsFinite, FS_RemoveElement
<1>6. Left' = Left - 1
  BY <1>3, <1>5 DEF Left
<1>7. cands' # <<>>
  BY <1>2, <1>4
<1>8. QED BY <1>3, <1>4, <1>6, <1>7

LEMMA VerdictsSound ==
    /\ Sound(Accepting)
    /\ \A codes : Sound(Refusing(codes))
    /\ \A codes : codes # <<>> => Refusing(codes).refusals # <<>>
    /\ \A v \in Verdict, code \in Codes : refused(v, code).refusals # <<>>
<1>1. ASSUME NEW v \in Verdict, NEW code \in Codes
      PROVE  refused(v, code).refusals # <<>>
  <2>1. v.refusals \in Seq(Codes)
    BY DEF Verdict
  <2>2. Append(v.refusals, code) # <<>>
    BY <2>1
  <2>3. QED BY <2>2 DEF refused
<1>2. QED BY <1>1 DEF Sound, Accepting, Refusing

\* A retryable verdict has a refusal, the one the loop acts on.
LEMMA RetryableIsRefusal ==
    ASSUME NEW v \in Verdict, IsRetryable(v)
    PROVE  /\ v.refusals # <<>>
           /\ \E i \in DOMAIN v.refusals : v.refusals[i] = retryableRefusal(v)
<1> DEFINE T == {i \in DOMAIN v.refusals : v.refusals[i] \in retryableAdmissionRefusals}
           f == [i \in T |-> i]
<1>1. v.refusals \in Seq(Codes)
  BY DEF Verdict
<1>2. T # {} /\ T \subseteq Nat /\ DOMAIN v.refusals = 1..Len(v.refusals)
  BY <1>1 DEF IsRetryable
<1>3. f \in [T -> Nat]
  BY <1>2
<1>4. PICK m \in T : \A i \in T : f[m] <= f[i]
  <2> HIDE DEF T, f
  <2> QED BY <1>2, <1>3, ArgMin
<1>5. \A i \in T : m <= i
  BY <1>4
<1>6. \A j \in 1..(m - 1) : v.refusals[j] \notin retryableAdmissionRefusals
  BY <1>1, <1>2, <1>5
<1>7. m \in DOMAIN v.refusals /\ v.refusals[m] \in retryableAdmissionRefusals
  BY <1>4
<1>8. v.refusals # <<>>
  BY <1>1, <1>7
<1> DEFINE First(i) == /\ v.refusals[i] \in retryableAdmissionRefusals
                       /\ \A j \in 1..(i - 1) :
                             v.refusals[j] \notin retryableAdmissionRefusals
           k == CHOOSE i \in DOMAIN v.refusals : First(i)
<1>9. First(m)
  BY <1>6, <1>7
<1>10. k \in DOMAIN v.refusals
  <2> HIDE DEF First
  <2> QED BY <1>7, <1>9
<1>11. retryableRefusal(v) = v.refusals[k]
  BY DEF retryableRefusal
<1>12. QED BY <1>8, <1>10, <1>11

\* The first lift starts with all its turns, and with an empty cache.
LEMMA NamedBegun ==
    ASSUME AdmissionInv, AdmissionInv', NamedInv,
           NEW path \in Paths, NEW r \in Roots,
           NEW enabled \in BOOLEAN, NEW aware \in BOOLEAN,
           BeginLift(path, r, enabled, aware)
    PROVE  NamedInv'
<1>1. /\ lift' = lift + 1 /\ attempt' = 0 /\ cache' = cache
      /\ rec' = recommended(cands')
      /\ pc' \in {"head", "final", "done"}
      /\ pc' = "head" => rec' # 0
  BY DEF BeginLift
<1>2. lift \in Nat /\ lift' # 0
  BY <1>1 DEF AdmissionInv, TypeOK
<1>3. lift' = 1 => \A k \in Keys : cache'[k] = NoEntry
  BY <1>1, <1>2 DEF NamedInv
<1>4. result' = "refused" => last'.refusals # <<>>
  BY VerdictsSound DEF BeginLift
<1>5. /\ Left' \in Nat /\ Len(cands') \in Nat /\ Left' <= Len(cands')
      /\ FeasibleSteps(cands') \subseteq 1..Len(cands')
      /\ Left' = Len(cands') => FeasibleSteps(cands') = 1..Len(cands')
  <2>1. PICK n \in 0..MaxStep : cands' \in [1..n -> Candidate]
    BY DEF AdmissionInv, TypeOK
  <2>2. QED BY <2>1, LeftOf DEF Left
<1>6. pc' = "head" => FeasibleSteps(cands') # {}
  BY <1>1 DEF recommended
<1>7. pc' = "head" => Len(cands') > 0
  BY <1>5, <1>6
<1>8. pc' = "head" => cands' # <<>>
  BY <1>7
<1>9. pc' = "head" => TurnsInv'
  BY <1>1, <1>5, <1>7 DEF TurnsInv, Deepest
<1>10. RefusalsNamed'
  BY <1>4 DEF RefusalsNamed
<1>11. (lift' = 1 /\ pc' \in {"head", "judge"}) =>
            /\ \A k \in Keys : cache'[k] # NoEntry => Sound(cache'[k].verdict)
            /\ attempt' + Left' <= Len(cands') /\ cands' # <<>>
  BY <1>1, <1>3, <1>5, <1>8
<1>12. QED BY <1>1, <1>2, <1>9, <1>10, <1>11 DEF NamedInv

\* A turn that ends with a demotion.
LEMMA NamedDemoted ==
    ASSUME AdmissionInv, NamedInv, pc \in {"head", "judge"}, rec # 0,
           NEW class \in AdapterClasses, NEW code, DemoteAs(rec, class, code),
           cache' = cache,
           \/ last.refusals # <<>>
           \/ pc = "head" /\ rec # Deepest
    PROVE  NamedInv'
<1>1. /\ Len(cands') = Len(cands) /\ (cands # <<>> => cands' # <<>>)
      /\ Left' = Left - 1
      /\ FeasibleSteps(cands') = FeasibleSteps(cands) \ {rec}
  BY OneLess
<1>2. /\ attempt' = attempt + 1 /\ lift' = lift /\ last' = last
      /\ pc' = "head" /\ result' = result
  BY DEF DemoteAs
<1>3. Left \in Nat /\ attempt \in Nat /\ Len(cands) \in Nat
  BY LeftIsFinite
<1>4. lift # 0 /\ result # "refused"
  BY DEF NamedInv, AdmissionInv, Control
<1>5. attempt' + Left' = attempt + Left
  BY <1>1, <1>2, <1>3
<1>6. lift = 1 => TurnsInv'
  BY <1>1, <1>2, <1>5 DEF NamedInv, TurnsInv, Deepest
<1>7. QED BY <1>1, <1>2, <1>4, <1>5, <1>6 DEF NamedInv, RefusalsNamed

\* The trial of a candidate.
LEMMA NamedTried ==
    ASSUME AdmissionInv, NamedInv, Trying, NEW v, NEW p, Tried(v, p),
           lift = 1 => Sound(v) /\ \A k \in Keys :
                cache'[k] # NoEntry => Sound(cache'[k].verdict)
    PROVE  NamedInv'
<1>1. /\ pc = "head" /\ pc' = "judge" /\ last' = v /\ result' = result
      /\ lift' = lift /\ UNCHANGED <<cands, attempt>>
  BY DEF Trying, AtHead, Tried
<1>2. lift # 0 /\ result # "refused"
  BY <1>1 DEF NamedInv, AdmissionInv, Control
<1>3. QED BY <1>1, <1>2 DEF NamedInv, RefusalsNamed, Left

\* The loop, or the phase after it, is left.
LEMMA NamedLeft ==
    ASSUME NamedInv, lift # 0, pc' \in {"final", "done"}, lift' = lift,
           lift = 1 /\ result' = "refused" => last'.refusals # <<>>
    PROVE  NamedInv'
BY DEF NamedInv, RefusalsNamed

LEMMA NamedNext ==
    ASSUME AdmissionInv, AdmissionInv', NamedInv, [Next]_vars
    PROVE  NamedInv'
<1>1. TypeOK /\ Control /\ Ranked
  BY DEF AdmissionInv
<1>2. /\ last \in Verdict /\ cache \in [Keys -> Entry \cup {NoEntry}]
      /\ lift \in Nat
  BY <1>1 DEF TypeOK
<1>3. pc # "idle" => lift # 0
  BY DEF NamedInv
<1>4. CASE UNCHANGED vars \/ DeadlinePasses
  BY <1>4 DEF vars, DeadlinePasses, NamedInv, RefusalsNamed, TurnsInv, Left, Deepest, Sound
<1>5. CASE \E path \in Paths, r \in Roots, enabled, aware \in BOOLEAN :
              BeginLift(path, r, enabled, aware)
  BY <1>5, NamedBegun
<1>6. CASE AttemptsExhausted
  <2>1. pc = "head" /\ attempt >= Len(cands) /\ Return("refused", last)
    BY <1>6 DEF AttemptsExhausted, MaxAttempts
  <2>2. lift = 1 => last.refusals # <<>>
    <3>1. SUFFICES ASSUME lift = 1 PROVE last.refusals # <<>>
      OBVIOUS
    <3>2. TurnsInv
      BY <2>1, <3>1 DEF NamedInv
    <3>3. Left = 0 /\ ~(attempt + Left < Len(cands))
      BY <2>1, <3>2, LeftIsFinite DEF TurnsInv
    <3>4. FeasibleSteps(cands) = {}
      BY <3>3, LeftIsFinite, FS_EmptySet DEF Left
    <3>5. QED BY <3>2, <3>3, <3>4 DEF TurnsInv
  <2>3. QED BY <1>3, <2>1, <2>2, NamedLeft DEF Return
<1>7. CASE BudgetExceeded
  <2>1. "admission_retry_budget_exceeded" \in Codes
    BY DEF Codes, loopRefusals
  <2>2. QED BY <1>2, <1>3, <1>7, <2>1, VerdictsSound, NamedLeft
        DEF BudgetExceeded, AtHead, Return
<1>8. CASE NothingRecommended
  BY <1>3, <1>8, VerdictsSound, NamedLeft DEF NothingRecommended, AtHead, Return
<1>9. CASE ForbidParent
  <2>1. /\ pc = "head" /\ rec # 0 /\ cache' = cache
        /\ DemoteAs(rec, cands[rec].adapter, "adapter_parent_forbidden")
        /\ \E t \in DOMAIN cands : t > rec
    BY <1>9 DEF ForbidParent, AtHead, adapterParentForbiddenForCandidate
  <2>2. cands[rec].adapter \in AdapterClasses
    BY <1>1, <2>1, RecTyped
  <2>3. rec # Deepest
    BY <2>1, LeftIsFinite DEF Deepest
  <2>4. QED BY <2>1, <2>2, <2>3, NamedDemoted
<1>10. CASE TryGate
  <2>1. PICK v : Trying /\ Tried(v, NoPlan) /\ Sound(v) /\ cache' = cache
    BY <1>10, VerdictsSound DEF TryGate
  <2>2. QED BY <2>1, NamedTried DEF NamedInv, Trying, AtHead
<1>11. CASE TryCached
  <2>1. rec # 0 /\ pc = "head" /\ Trying /\ cache' = cache
    BY <1>11 DEF TryCached, Trying, AtHead
  <2>2. cands[rec].key \in Keys /\ cache[cands[rec].key] # NoEntry
    BY <1>1, <1>11, <2>1, RecTyped DEF TryCached, Candidate
  <2>3. CASE \E p : Tried(cache[cands[rec].key].verdict, p)
    BY <2>1, <2>2, <2>3, NamedTried DEF NamedInv
  <2>4. CASE Return("error", last)
    BY <1>3, <2>1, <2>4, NamedLeft DEF Return
  <2>5. QED BY <1>11, <2>3, <2>4 DEF TryCached
<1>12. CASE \E o \in PlanOutcomes : TryBuild(o)
  <2>1. PICK o \in PlanOutcomes : TryBuild(o)
    BY <1>12
  <2>2. Trying /\ pc = "head"
    BY <2>1 DEF TryBuild, Trying, AtHead
  <2> DEFINE v == IF o.kind = "timeout" THEN Refusing(<<"plan_build_timeout">>)
                  ELSE IF o.kind = "error" THEN Accepting ELSE Refusing(o.refusals)
             p == IF o.kind = "plan"
                  THEN [root |-> root, funcBoundary |-> o.funcBoundary] ELSE NoPlan
             e == [verdict |-> v, plan |-> p, err |-> o.kind = "error", adapter |-> NoRoot]
  <2>3. /\ Sound(v) /\ e.verdict = v
        /\ cache' = [cache EXCEPT ![cands[rec].key] = e]
        /\ Return("error", last) \/ Tried(v, p)
    <3>1. Sound(v)
      BY VerdictsSound
    <3>2. cache' = [cache EXCEPT ![cands[rec].key] = e] /\ (Return("error", last) \/ Tried(v, p))
      BY <2>1 DEF TryBuild
    <3>3. QED BY <3>1, <3>2
  <2> HIDE DEF v, p, e
  <2>4. \A k \in Keys : cache'[k] = cache[k] \/ cache'[k] = e
    BY <1>2, <2>3
  <2>5. lift = 1 => \A k \in Keys : cache'[k] # NoEntry => Sound(cache'[k].verdict)
    BY <2>2, <2>3, <2>4 DEF NamedInv
  <2>6. CASE Return("error", last)
    BY <1>3, <2>2, <2>6, NamedLeft DEF Return
  <2>7. CASE Tried(v, p)
    BY <2>2, <2>3, <2>5, <2>7, NamedTried
  <2>8. QED BY <2>3, <2>6, <2>7
<1>13. CASE Accept
  BY <1>3, <1>13, NamedLeft DEF Accept
<1>14. CASE RefuseForGood
  <2>1. lift = 1 => last.refusals # <<>>
    BY <1>14 DEF RefuseForGood, NamedInv, Sound
  <2>2. QED BY <1>3, <1>14, <2>1, NamedLeft DEF RefuseForGood, Return
<1>15. CASE \/ Demote \/ SkipRecovery
            \/ \E p \in RecoveryPlans, o \in RecoveryOutcomes : FailRecovery(p, o)
  <2>1. Retrying /\ cache' = cache
    BY <1>15 DEF Demote, SkipRecovery, FailRecovery
  <2>2. pc = "judge" /\ cur = rec /\ rec # 0 /\ last.refusals # <<>>
    BY <1>1, <1>2, <2>1, RetryableIsRefusal DEF Retrying, Control
  <2>3. cands[rec].adapter \in AdapterClasses
    BY <1>1, <2>2, RecTyped
  <2>4. \A why : adapterRefusalClass(why) \in AdapterClasses
    BY DEF adapterRefusalClass, AdapterClasses
  <2>5. \E class \in AdapterClasses : \E code : DemoteAs(rec, class, code)
    BY <1>15, <2>2, <2>3, <2>4 DEF Demote, SkipRecovery, FailRecovery
  <2>6. QED BY <2>1, <2>2, <2>5, NamedDemoted
<1>16. CASE \E p \in RecoveryPlans, o \in RecoveryOutcomes : Recover(p, o)
  BY <1>3, <1>16, NamedLeft DEF Recover, Retrying
<1>17. CASE \/ \E o \in PlanOutcomes : BuildDirect(o)
            \/ \E o \in RecoveryOutcomes : BuildAdapted(o)
  BY <1>3, <1>17, NamedLeft DEF BuildDirect, BuildAdapted, Finish
<1>18. QED BY <1>4, <1>5, <1>6, <1>7, <1>8, <1>9, <1>10, <1>11, <1>12, <1>13, <1>14,
              <1>15, <1>16, <1>17 DEF Next, LiftStep

\* A first lift that is refused names a refusal, whatever mix of gates, plans,
\* recoveries, demotions and the deadline led to it.
THEOREM RefusalNamed == Spec => []RefusalsNamed
<1>1. Init => NamedInv
  BY DEF Init, NamedInv, RefusalsNamed
<1>2. AdmissionInv /\ AdmissionInv' /\ NamedInv /\ [Next]_vars => NamedInv'
  BY NamedNext
<1>3. NamedInv => RefusalsNamed
  BY DEF NamedInv
<1>4. QED BY <1>1, <1>2, <1>3, AdmissionInvariant, PTL DEF Spec

\* The verdicts of the gates and of the plan builder do not speak of the budget.
LEMMA VerdictsUnspent ==
    /\ Unspent(Accepting) /\ Unspent(EmptyVerdict)
    /\ \A c : Unspent(Refusing(AdmitCut(c))) /\ Unspent(Refusing(GateRefusals(c)))
    /\ Unspent(Refusing(<<"missing_recommended_cut">>))
    /\ Unspent(Refusing(<<"plan_build_timeout">>))
    /\ \A o \in PlanOutcomes : Unspent(Refusing(o.refusals))
<1> DEFINE S == {"non_feasible_cut", "unsupported_boundary_data",
                 "callable_boundary_values", "receiver_requires_reconstruction",
                 "missing_recommended_cut", "plan_build_timeout"}
<1>1. ASSUME NEW codes \in Seq(S) PROVE Unspent(Refusing(codes))
  BY <1>1 DEF Unspent, Refusing, loopRefusals
<1>2. /\ <<"missing_recommended_cut">> \in Seq(S)
      /\ <<"plan_build_timeout">> \in Seq(S)
  OBVIOUS
<1>3. \A c : AdmitCut(c) \in Seq(S) /\ GateRefusals(c) \in Seq(S)
  BY GateRange
<1>4. \A o \in PlanOutcomes : Unspent(Refusing(o.refusals))
  BY AdmissionAssumption DEF Unspent, Refusing
<1>5. Unspent(Accepting) /\ Unspent(EmptyVerdict)
  BY DEF Unspent, Accepting, EmptyVerdict
<1> HIDE DEF S
<1>6. QED BY <1>1, <1>2, <1>3, <1>4, <1>5

LEMMA UnspentKeeps == Unspent(last) => BudgetKeepsEvidence
BY DEF Unspent, BudgetKeepsEvidence, loopRefusals

\* A verdict that ends the lift as it is.
LEMMA EvidenceQuiet ==
    ASSUME EvidenceInv, Unspent(last'), cache' = cache, pc' # "head"
    PROVE  EvidenceInv'
<1>1. BudgetKeepsEvidence'
  BY DEF Unspent, BudgetKeepsEvidence, loopRefusals
<1>2. QED BY <1>1 DEF EvidenceInv

\* A demotion adds its code to the chain; the last verdict has it, unless the
\* candidate was passed over as a parent.
LEMMA EvidenceDemoted ==
    ASSUME AdmissionInv, EvidenceInv, pc \in {"head", "judge"}, cache' = cache,
           NEW class, NEW code, DemoteAs(rec, class, code),
           \/ pc = "head" /\ code = "adapter_parent_forbidden"
           \/ \E i \in DOMAIN last.refusals : last.refusals[i] = code
    PROVE  EvidenceInv'
<1>1. /\ chain' = Append(chain, [step |-> rec, code |-> code])
      /\ last' = last /\ pc' = "head"
  BY DEF DemoteAs
<1>2. chain \in Seq(ChainEntry)
  BY DEF AdmissionInv, TypeOK
<1> DEFINE n == Len(chain)
<1>3. /\ n \in Nat /\ DOMAIN chain = 1..n /\ DOMAIN chain' = 1..(n + 1)
      /\ \A j \in 1..n : chain'[j] = chain[j]
      /\ chain'[n + 1].code = code
  BY <1>1, <1>2
<1> HIDE DEF n
<1>4. Unspent(last') /\ BudgetKeepsEvidence'
  BY <1>1 DEF EvidenceInv, Unspent, BudgetKeepsEvidence, loopRefusals
<1>5. Evidence(last)'
  <2>1. CASE \E i \in DOMAIN last.refusals : last.refusals[i] = code
    <3>1. n + 1 \in DOMAIN chain'
      BY <1>3
    <3>2. QED BY <1>1, <1>3, <2>1, <3>1 DEF Evidence
  <2>2. CASE pc = "head" /\ code = "adapter_parent_forbidden"
    <3>1. SUFFICES ASSUME NEW j \in DOMAIN chain',
                          chain'[j].code # "adapter_parent_forbidden"
                   PROVE  \E i \in DOMAIN last'.refusals, k \in DOMAIN chain' :
                              last'.refusals[i] = chain'[k].code
      BY DEF Evidence
    <3>2. j \in DOMAIN chain /\ chain[j].code # "adapter_parent_forbidden"
      BY <1>3, <2>2, <3>1
    <3>3. PICK i \in DOMAIN last.refusals, k \in DOMAIN chain :
              last.refusals[i] = chain[k].code
      BY <2>2, <3>2 DEF EvidenceInv, Evidence
    <3>4. k \in DOMAIN chain' /\ chain'[k] = chain[k]
      BY <1>3
    <3>5. QED BY <1>1, <3>3, <3>4
  <2>3. QED BY <2>1, <2>2
<1>6. QED BY <1>1, <1>4, <1>5 DEF EvidenceInv

\* The deadline has passed: what the last verdict had stays in front of the
\* budget refusal.
LEMMA EvidenceSpent ==
    ASSUME AdmissionInv, EvidenceInv, BudgetExceeded
    PROVE  EvidenceInv'
<1>1. /\ pc = "head" /\ pc' = "done" /\ cache' = cache /\ chain' = chain
      /\ last' = refused(last, "admission_retry_budget_exceeded")
  BY DEF BudgetExceeded, AtHead, Return
<1>2. last.refusals \in Seq(Codes)
  BY DEF AdmissionInv, TypeOK, Verdict
<1> DEFINE R == last.refusals
           n == Len(R)
<1>3. last'.refusals = Append(R, "admission_retry_budget_exceeded")
  BY <1>1 DEF refused
<1>4. /\ n \in Nat /\ DOMAIN R = 1..n /\ DOMAIN last'.refusals = 1..(n + 1)
      /\ Len(last'.refusals) = n + 1 /\ (n + 1) - 1 = n
      /\ \A i \in 1..n : last'.refusals[i] = R[i]
  BY <1>2, <1>3
<1>5. \A i \in 1..n : R[i] # "admission_retry_budget_exceeded"
  BY <1>1, <1>4 DEF EvidenceInv, Unspent, loopRefusals
<1> HIDE DEF n
<1>6. Evidence(last)
  BY <1>1 DEF EvidenceInv
<1>7. ASSUME NEW i \in DOMAIN last'.refusals,
             last'.refusals[i] = "admission_retry_budget_exceeded"
      PROVE  i = n + 1
  <2>1. i \in 1..n \/ i = n + 1
    BY <1>4, <1>7
  <2>2. i \notin 1..n
    BY <1>4, <1>5, <1>7
  <2>3. QED BY <2>1, <2>2
<1>8. (\E j \in DOMAIN chain : chain[j].code # "adapter_parent_forbidden") =>
          \E j \in 1..n : \E k \in DOMAIN chain : last'.refusals[j] = chain[k].code
  BY <1>4, <1>6 DEF Evidence
<1>9. BudgetKeepsEvidence'
  BY <1>1, <1>4, <1>7, <1>8 DEF BudgetKeepsEvidence
<1>10. QED BY <1>1, <1>9 DEF EvidenceInv

LEMMA EvidenceNext ==
    ASSUME AdmissionInv, EvidenceInv, [Next]_vars
    PROVE  EvidenceInv'
<1>1. TypeOK /\ Control
  BY DEF AdmissionInv
<1>2. last \in Verdict /\ cache \in [Keys -> Entry \cup {NoEntry}]
  BY <1>1 DEF TypeOK
<1>3. CASE UNCHANGED vars \/ DeadlinePasses
  BY <1>3 DEF vars, DeadlinePasses, EvidenceInv, Unspent, Evidence, BudgetKeepsEvidence
<1>4. CASE \E path \in Paths, r \in Roots, enabled, aware \in BOOLEAN :
              BeginLift(path, r, enabled, aware)
  <2>1. chain' = <<>> /\ cache' = cache
    BY <1>4 DEF BeginLift
  <2>2. Unspent(last')
    BY <1>4, VerdictsUnspent DEF BeginLift
  <2>3. BudgetKeepsEvidence'
    BY <2>2 DEF Unspent, BudgetKeepsEvidence, loopRefusals
  <2>4. Evidence(last)'
    BY <2>1 DEF Evidence
  <2>5. QED BY <2>1, <2>2, <2>3, <2>4 DEF EvidenceInv
<1>5. CASE BudgetExceeded
  BY <1>5, EvidenceSpent
<1>6. CASE \/ AttemptsExhausted \/ NothingRecommended \/ RefuseForGood
           \/ TryCached /\ Return("error", last)
  <2>1. pc # "done" /\ pc' = "done" /\ cache' = cache
    BY <1>6 DEF AttemptsExhausted, NothingRecommended, RefuseForGood, TryCached,
       Trying, AtHead, Return
  <2>2. last' = last \/ last' = Refusing(<<"missing_recommended_cut">>)
    BY <1>6 DEF AttemptsExhausted, NothingRecommended, RefuseForGood, Return
  <2>3. Unspent(last')
    BY <2>1, <2>2, VerdictsUnspent DEF EvidenceInv
  <2>4. QED BY <2>1, <2>3, EvidenceQuiet
<1>7. CASE ForbidParent
  <2>1. /\ pc = "head" /\ cache' = cache
        /\ DemoteAs(rec, cands[rec].adapter, "adapter_parent_forbidden")
    BY <1>7 DEF ForbidParent, AtHead
  <2>2. QED BY <2>1, EvidenceDemoted
<1>8. CASE TryGate
  BY <1>8, VerdictsUnspent, EvidenceQuiet DEF TryGate, Tried
<1>9. CASE TryCached /\ \E p : Tried(cache[cands[rec].key].verdict, p)
  <2>1. rec # 0 /\ cache' = cache
    BY <1>9 DEF TryCached, Trying
  <2>2. cands[rec].key \in Keys /\ cache[cands[rec].key] # NoEntry
    BY <1>1, <1>9, <2>1, RecTyped DEF TryCached, Candidate
  <2>3. last' = cache[cands[rec].key].verdict /\ pc' = "judge"
    BY <1>9 DEF Tried
  <2>4. Unspent(last')
    BY <2>2, <2>3 DEF EvidenceInv
  <2>5. QED BY <2>1, <2>3, <2>4, EvidenceQuiet
<1>10. CASE \E o \in PlanOutcomes : TryBuild(o)
  <2>1. PICK o \in PlanOutcomes : TryBuild(o)
    BY <1>10
  <2> DEFINE v == IF o.kind = "timeout" THEN Refusing(<<"plan_build_timeout">>)
                  ELSE IF o.kind = "error" THEN Accepting ELSE Refusing(o.refusals)
             p == IF o.kind = "plan"
                  THEN [root |-> root, funcBoundary |-> o.funcBoundary] ELSE NoPlan
             e == [verdict |-> v, plan |-> p, err |-> o.kind = "error", adapter |-> NoRoot]
  <2>2. Unspent(v) /\ e.verdict = v
    BY VerdictsUnspent
  <2>3. /\ cache' = [cache EXCEPT ![cands[rec].key] = e]
        /\ Return("error", last) \/ Tried(v, p)
    BY <2>1 DEF TryBuild
  <2>4. pc = "head"
    BY <2>1 DEF TryBuild, Trying, AtHead
  <2> HIDE DEF v, p, e
  <2>5. \A k \in Keys : cache'[k] # NoEntry => Unspent(cache'[k].verdict)
    <3>1. \A k \in Keys : cache'[k] = cache[k] \/ cache'[k] = e
      BY <1>2, <2>3
    <3>2. QED BY <2>2, <3>1 DEF EvidenceInv
  <2>6. Unspent(last') /\ pc' # "head"
    BY <2>2, <2>3, <2>4 DEF EvidenceInv, Return, Tried
  <2>7. BudgetKeepsEvidence'
    BY <2>6 DEF Unspent, BudgetKeepsEvidence, loopRefusals
  <2>8. QED BY <2>5, <2>6, <2>7 DEF EvidenceInv
<1>11. CASE Accept
  <2>1. pc = "judge" /\ pc' = "final" /\ cache' = cache /\ last' = last
    BY <1>11 DEF Accept
  <2>2. QED BY <2>1, EvidenceQuiet DEF EvidenceInv
<1>12. CASE \/ Demote \/ SkipRecovery
            \/ \E p \in RecoveryPlans, o \in RecoveryOutcomes : FailRecovery(p, o)
  <2>1. PICK class : /\ Retrying /\ cache' = cache
                     /\ DemoteAs(cur, class, retryableRefusal(last))
    BY <1>12 DEF Demote, SkipRecovery, FailRecovery
  <2>2. pc = "judge" /\ cur = rec /\ IsRetryable(last)
    BY <1>1, <2>1 DEF Retrying, Control
  <2>3. \E i \in DOMAIN last.refusals : last.refusals[i] = retryableRefusal(last)
    BY <1>2, <2>2, RetryableIsRefusal
  <2>4. QED BY <2>1, <2>2, <2>3, EvidenceDemoted
<1>13. CASE \E p \in RecoveryPlans, o \in RecoveryOutcomes : Recover(p, o)
  <2>1. PICK key, r : /\ cache' = storeCandidateAdapterPlan(cache, key, r)
                      /\ pc' = "final" /\ last' = Accepting
    BY <1>13 DEF Recover
  <2>2. ASSUME NEW k \in Keys, cache'[k] # NoEntry PROVE Unspent(cache'[k].verdict)
    <3>1. CASE k # key
      <4>1. cache'[k] = cache[k]
        BY <1>2, <2>1, <3>1 DEF storeCandidateAdapterPlan
      <4>2. QED BY <2>2, <4>1 DEF EvidenceInv
    <3>2. CASE k = key
      <4>1. cache'[k].verdict = IF cache[k] # NoEntry THEN cache[k].verdict
                                ELSE EmptyVerdict
        BY <1>2, <2>1, <3>2 DEF storeCandidateAdapterPlan
      <4>2. QED BY <4>1, VerdictsUnspent DEF EvidenceInv
    <3>3. QED BY <3>1, <3>2
  <2>3. Unspent(last') /\ pc' # "head"
    BY <2>1, VerdictsUnspent
  <2>4. BudgetKeepsEvidence'
    BY <2>3 DEF Unspent, BudgetKeepsEvidence, loopRefusals
  <2>5. QED BY <2>2, <2>3, <2>4 DEF EvidenceInv
<1>14. CASE \/ \E o \in PlanOutcomes : BuildDirect(o)
            \/ \E o \in RecoveryOutcomes : BuildAdapted(o)
  <2>1. pc = "final" /\ pc' = "done" /\ cache' = cache /\ last' = last
    BY <1>14 DEF BuildDirect, BuildAdapted, Finish
  <2>2. QED BY <2>1, EvidenceQuiet DEF EvidenceInv
<1>15. TryCached => \/ Return("error", last)
                    \/ \E p : Tried(cache[cands[rec].key].verdict, p)
  BY DEF TryCached
<1>16. QED BY <1>3, <1>4, <1>5, <1>6, <1>7, <1>8, <1>9, <1>10, <1>11, <1>12, <1>13,
              <1>14, <1>15 DEF Next, LiftStep

\* However the deadline falls between the turns of the loop, the refusal that
\* speaks of the budget is the last of the verdict and stands behind the
\* refusal of a candidate that was demoted before.
THEOREM BudgetKeeps == Spec => []BudgetKeepsEvidence
<1>1. Init => EvidenceInv
  <2>1. SUFFICES ASSUME Init PROVE EvidenceInv
    OBVIOUS
  <2>2. last = EmptyVerdict /\ pc = "idle" /\ \A k \in Keys : cache[k] = NoEntry
    BY <2>1 DEF Init
  <2>3. QED BY <2>2, VerdictsUnspent, UnspentKeeps DEF EvidenceInv
<1>2. AdmissionInv /\ EvidenceInv /\ [Next]_vars => EvidenceInv'
  BY EvidenceNext
<1>3. EvidenceInv => BudgetKeepsEvidence
  BY DEF EvidenceInv
<1>4. QED BY <1>1, <1>2, <1>3, AdmissionInvariant, PTL DEF Spec
===============================================================================
