---------------------------- MODULE CompileProofs ----------------------------
(***************************************************************************)
(* Proofs about the demo compiler, for all applications whose main package *)
(* compiles: what a compilation leaves when it reports success, and that   *)
(* the plan of an extracted service is complete, minimal and in an order   *)
(* that runs.                                                              *)
(***************************************************************************)
EXTENDS Compile, FiniteSetTheorems, SequenceTheorems, WellFoundedInduction, TLAPS

(* The numbers of a set in their order, and the places of a sequence.      *)

\* The rank of a number in a set: how many of the set are smaller.
Smaller(s, x) == {y \in s : y < x}
Rank(s, x) == Cardinality(Smaller(s, x))

LEMMA RankGrows ==
    ASSUME NEW s, s \subseteq Nat, IsFiniteSet(s)
    PROVE  /\ \A x \in s : Rank(s, x) \in 0..Cardinality(s) - 1
           /\ \A x, y \in s : x < y => Rank(s, x) < Rank(s, y)
<1>1. /\ Cardinality(s) \in Nat
      /\ \A t \in SUBSET s : IsFiniteSet(t) /\ Cardinality(t) \in Nat
  BY FS_CardinalityType, FS_Subset
<1>2. ASSUME NEW x \in s
      PROVE  Rank(s, x) \in 0..Cardinality(s) - 1
  <2>1. Smaller(s, x) \in SUBSET s /\ x \notin Smaller(s, x)
    BY DEF Smaller
  <2>2. /\ Cardinality(Smaller(s, x)) <= Cardinality(s)
        /\ Cardinality(Smaller(s, x)) # Cardinality(s)
    BY <2>1, FS_Subset
  <2>3. QED
    BY <1>1, <2>1, <2>2 DEF Rank
<1>3. ASSUME NEW x \in s, NEW y \in s, x < y
      PROVE  Rank(s, x) < Rank(s, y)
  <2>1. Smaller(s, x) \in SUBSET Smaller(s, y)
    <3>1. \A z \in s : z < x => z < y
      BY <1>3
    <3>2. QED
      BY <3>1 DEF Smaller
  <2>2. x \in Smaller(s, y) /\ x \notin Smaller(s, x) /\ Smaller(s, y) \in SUBSET s
    BY <1>3 DEF Smaller
  <2>3. /\ Cardinality(Smaller(s, x)) <= Cardinality(Smaller(s, y))
        /\ Cardinality(Smaller(s, x)) # Cardinality(Smaller(s, y))
    BY <1>1, <2>1, <2>2, FS_Subset
  <2>4. Cardinality(Smaller(s, x)) \in Nat /\ Cardinality(Smaller(s, y)) \in Nat
    BY <1>1, <2>1, <2>2
  <2>5. QED
    BY <2>3, <2>4 DEF Rank
<1>4. QED
  BY <1>2, <1>3

\* A finite set of numbers, listed: each of them, nothing else, and in order.
LEMMA AscendingLists ==
    ASSUME NEW s, s \subseteq Nat, IsFiniteSet(s)
    PROVE  /\ Ascending(s) \in Seq(s) /\ ToSet(Ascending(s)) = s
           /\ Cardinality(s) \in Nat /\ Len(Ascending(s)) = Cardinality(s)
           /\ \A i, j \in 1..Cardinality(s) : i < j => Ascending(s)[i] < Ascending(s)[j]
<1> DEFINE N == Cardinality(s)
           rank == [x \in s |-> Rank(s, x) + 1]
<1>1. N \in Nat /\ \A x \in s : Rank(s, x) \in 0..N - 1
  BY FS_CardinalityType, RankGrows
<1>2. rank \in [s -> 1..N]
  BY <1>1
<1>3. \A x, y \in s : rank[x] = rank[y] => x = y
  <2>1. ASSUME NEW x \in s, NEW y \in s, Rank(s, x) + 1 = Rank(s, y) + 1
        PROVE  x = y
    <3>1. ~(x < y) /\ ~(y < x)
      <4>1. Rank(s, x) \in Int /\ Rank(s, y) \in Int
        BY <1>1
      <4>2. ~(Rank(s, x) < Rank(s, y)) /\ ~(Rank(s, y) < Rank(s, x))
        BY <2>1, <4>1
      <4>3. QED
        BY <4>2, RankGrows
    <3>2. x \in Nat /\ y \in Nat
      OBVIOUS
    <3>3. QED
      BY <3>1, <3>2
  <2>2. QED
    BY <2>1
<1>4. rank \in Injection(s, 1..N)
  BY <1>2, <1>3 DEF Injection, IsInjective
<1>5. IsFiniteSet(1..N) /\ Cardinality(1..N) = N
  BY <1>1, FS_Interval
<1>6. rank \in Surjection(s, 1..N)
  BY <1>4, <1>5, FS_Injection
<1>7. \A i \in 1..N : \E x \in s : rank[x] = i
  BY <1>6 DEF Surjection
<1> DEFINE At(i) == CHOOSE x \in s : Cardinality({y \in s : y < x}) = i - 1
<1>8. ASSUME NEW i \in 1..N
      PROVE  At(i) \in s /\ rank[At(i)] = i
  <2>1. PICK x \in s : rank[x] = i
    BY <1>7
  <2>2. Cardinality({y \in s : y < x}) = i - 1
    <3>1. Rank(s, x) + 1 = i /\ Rank(s, x) \in Int
      BY <1>1, <2>1
    <3>2. QED
      BY <3>1 DEF Rank, Smaller
  <2>3. At(i) \in s /\ Cardinality({y \in s : y < At(i)}) = i - 1
    BY <2>2
  <2>4. Rank(s, At(i)) = i - 1
    BY <2>3 DEF Rank, Smaller
  <2>5. QED
    BY <2>3, <2>4
<1>9. Ascending(s) = [i \in 1..N |-> At(i)]
  BY DEF Ascending
<1> HIDE DEF At, rank
<1>10. Ascending(s) \in [1..N -> s]
  BY <1>8, <1>9
<1>11. Ascending(s) \in Seq(s) /\ DOMAIN Ascending(s) = 1..N
  BY <1>1, <1>10, SeqDef
<1>12. ASSUME NEW x \in s
       PROVE  \E i \in 1..N : Ascending(s)[i] = x
  <2>1. rank[x] \in 1..N
    BY <1>2
  <2>2. At(rank[x]) = x
    BY <1>3, <1>8, <2>1
  <2>3. QED
    BY <1>9, <2>1, <2>2
<1>13. ToSet(Ascending(s)) = s
  BY <1>10, <1>11, <1>12 DEF ToSet
<1>14. ASSUME NEW i \in 1..N, NEW j \in 1..N, i < j
       PROVE  Ascending(s)[i] < Ascending(s)[j]
  <2>1. /\ Ascending(s)[i] = At(i) /\ Ascending(s)[j] = At(j)
        /\ At(i) \in s /\ At(j) \in s /\ rank[At(i)] = i /\ rank[At(j)] = j
    BY <1>8, <1>9
  <2>2. \A x \in s : Rank(s, x) = rank[x] - 1
    BY <1>1 DEF rank
  <2>3. ~(Rank(s, At(j)) < Rank(s, At(i))) /\ At(i) # At(j)
    <3>1. Rank(s, At(i)) = i - 1 /\ Rank(s, At(j)) = j - 1
      BY <2>1, <2>2
    <3>2. i \in Int /\ j \in Int
      BY <1>1
    <3>3. QED
      BY <1>14, <2>1, <3>1, <3>2
  <2>4. ~(At(j) < At(i))
    BY <2>1, <2>3, RankGrows
  <2>5. At(i) \in Nat /\ At(j) \in Nat
    BY <2>1
  <2>6. QED
    BY <2>1, <2>3, <2>4, <2>5
<1>15. Len(Ascending(s)) = N
  BY <1>1, <1>11
<1>16. QED
  BY <1>1, <1>11, <1>13, <1>14, <1>15

\* What a sequence has at some places: as long as there are places, and each
\* element from a place of its own, in order.
LEMMA PickLists ==
    ASSUME NEW S, NEW seq \in Seq(S), NEW places, places \subseteq DOMAIN seq
    PROVE  /\ Pick(seq, places) \in Seq(S) /\ Ascending(places) \in Seq(places)
           /\ Cardinality(places) \in Nat
           /\ Len(Pick(seq, places)) = Cardinality(places)
           /\ ToSet(Pick(seq, places)) = {seq[p] : p \in places}
           /\ \A i \in 1..Cardinality(places) :
                 /\ Ascending(places)[i] \in places
                 /\ Pick(seq, places)[i] = seq[Ascending(places)[i]]
           /\ \A p \in places : \E i \in 1..Cardinality(places) : Ascending(places)[i] = p
           /\ \A i, j \in 1..Cardinality(places) :
                 i < j => Ascending(places)[i] < Ascending(places)[j]
<1> DEFINE A == Ascending(places)
           n == Cardinality(places)
<1>1. places \subseteq Nat /\ IsFiniteSet(places)
  <2>1. DOMAIN seq = 1..Len(seq) /\ Len(seq) \in Nat
    OBVIOUS
  <2>2. IsFiniteSet(1..Len(seq))
    BY <2>1, FS_Interval
  <2>3. QED
    BY <2>1, <2>2, FS_Subset
<1>2. /\ A \in Seq(places) /\ ToSet(A) = places /\ n \in Nat /\ Len(A) = n
      /\ \A i, j \in 1..n : i < j => A[i] < A[j]
  BY <1>1, AscendingLists
<1> HIDE DEF A, n
<1>3. \A i \in 1..n : A[i] \in places
  BY <1>2
<1>4. \A p \in places : \E i \in 1..n : A[i] = p
  BY <1>2 DEF ToSet
<1>5. Pick(seq, places) = [i \in 1..n |-> seq[A[i]]]
  BY DEF Pick, A, n
<1>6. \A i \in 1..n : seq[A[i]] \in S
  BY <1>3
<1>7. /\ Pick(seq, places) \in Seq(S) /\ Len(Pick(seq, places)) = n
      /\ DOMAIN Pick(seq, places) = 1..n
  BY <1>2, <1>5, <1>6
<1>8. ToSet(Pick(seq, places)) = {seq[p] : p \in places}
  BY <1>3, <1>4, <1>5, <1>7 DEF ToSet
<1>9. QED
  BY <1>2, <1>3, <1>4, <1>5, <1>7, <1>8 DEF A, n

LEMMA Least ==
    ASSUME NEW T, T \subseteq Nat, T # {}
    PROVE  \E m \in T : \A n \in T : m <= n
<1>1. PICK m \in T : \A w \in T : ~(<<w, m>> \in OpToRel(<, Nat))
  BY NatLessThanWellFounded, WFMin
<1>2. ASSUME NEW w \in T
      PROVE  ~(w < m)
  <2>1. w \in Nat /\ m \in Nat
    OBVIOUS
  <2>2. w < m => <<w, m>> \in OpToRel(<, Nat)
    BY <2>1, Zenon DEF OpToRel
  <2>3. QED
    BY <1>1, <2>2, Zenon
<1>3. QED
  BY <1>2


-----------------------------------------------------------------------------
(* What a compilation leaves.                                              *)

\* The services have the names of the interfaces extracted.
LEMMA ServicesNamed ==
    ASSUME extracted \in Seq(Nat), NEW i \in ToSet(extracted)
    PROVE  Name(i) \in ToSet(ServiceNames)
<1> DEFINE names == [j \in DOMAIN extracted |-> Name(extracted[j])]
           firsts == {j \in DOMAIN names : \A h \in 1..(j - 1) : names[h] # names[j]}
           with == {j \in DOMAIN names : names[j] = Name(i)}
<1>1. DOMAIN extracted = 1..Len(extracted) /\ Len(extracted) \in Nat
  OBVIOUS
<1>2. PICK j \in with : \A h \in with : j <= h
  <2>1. with \subseteq Nat
    BY <1>1
  <2>2. with # {}
    BY DEF ToSet
  <2>3. QED
    BY <2>1, <2>2, Least
<1>3. j \in firsts
  <2>1. j \in DOMAIN names /\ DOMAIN names = 1..Len(extracted) /\ names[j] = Name(i)
    BY <1>1, <1>2
  <2>2. ASSUME NEW h \in 1..(j - 1)
        PROVE  names[h] # names[j]
    <3>1. h \in DOMAIN names /\ ~(j <= h)
      BY <1>1, <2>1
    <3>2. QED
      BY <1>2, <2>1, <3>1
  <2>3. QED
    BY <2>1, <2>2
<1>4. names \in Seq({Name(n) : n \in Nat}) /\ firsts \subseteq DOMAIN names
  <2>1. \A h \in 1..Len(extracted) : extracted[h] \in Nat
    BY <1>1
  <2>2. names = [h \in 1..Len(extracted) |-> Name(extracted[h])]
    BY <1>1
  <2>3. \A h \in 1..Len(extracted) : Name(extracted[h]) \in {Name(n) : n \in Nat}
    BY <2>1
  <2>4. names \in Seq({Name(n) : n \in Nat})
    <3> HIDE DEF names
    <3>1. QED
      BY <1>1, <2>2, <2>3
  <2>5. QED
    BY <2>4
<1>5. ServiceNames = Pick(names, firsts)
  BY DEF ServiceNames
<1>6. names[j] = Name(i)
  BY <1>2
<1> HIDE DEF names, firsts
<1>7. ToSet(Pick(names, firsts)) = {names[p] : p \in firsts}
  BY <1>4, PickLists
<1>8. QED
  BY <1>3, <1>5, <1>6, <1>7

\* The artifacts are a sequence.
LEMMA ArtifactsListed ==
    ASSUME extracted \in Seq(Nat)
    PROVE  /\ Len(Artifacts) \in Nat /\ DOMAIN Artifacts = 1..Len(Artifacts)
           /\ ToSet(Artifacts) = ToSet(ServiceNames) \cup {"entrypoint"}
<1> DEFINE names == [j \in DOMAIN extracted |-> Name(extracted[j])]
           firsts == {j \in DOMAIN names : \A h \in 1..(j - 1) : names[h] # names[j]}
<1>1. DOMAIN extracted = 1..Len(extracted) /\ Len(extracted) \in Nat
  OBVIOUS
<1>2. \A h \in 1..Len(extracted) : Name(extracted[h]) \in {Name(n) : n \in Nat}
  BY <1>1
<1>3. names = [h \in 1..Len(extracted) |-> Name(extracted[h])]
  BY <1>1
<1>4. ServiceNames = Pick(names, firsts) /\ firsts \subseteq DOMAIN names
  BY DEF ServiceNames
<1> HIDE DEF names, firsts
<1>5. names \in Seq({Name(n) : n \in Nat})
  BY <1>1, <1>2, <1>3
<1>6. ServiceNames \in Seq({Name(n) : n \in Nat})
  BY <1>4, <1>5, PickLists
<1>7. QED
  <2>1. PICK S : S = ServiceNames
    OBVIOUS
  <2>2. Artifacts = Append(S, "entrypoint") /\ Len(S) \in Nat /\ DOMAIN S = 1..Len(S)
    BY <1>6, <2>1 DEF Artifacts
  <2>3. /\ DOMAIN Artifacts = 1..(Len(S) + 1) /\ Len(Artifacts) = Len(S) + 1
        /\ \A h \in 1..Len(S) : Artifacts[h] = S[h]
        /\ Artifacts[Len(S) + 1] = "entrypoint"
    BY <1>6, <2>1, <2>2
  <2>4. ToSet(Artifacts) = ToSet(S) \cup {"entrypoint"}
    <3>1. ToSet(Artifacts) \subseteq ToSet(S) \cup {"entrypoint"}
      BY <2>2, <2>3 DEF ToSet
    <3>2. ToSet(S) \subseteq ToSet(Artifacts)
      BY <2>2, <2>3 DEF ToSet
    <3>3. "entrypoint" \in ToSet(Artifacts)
      <4>1. Len(S) + 1 \in DOMAIN Artifacts
        BY <2>2, <2>3
      <4>2. QED
        BY <2>3, <4>1 DEF ToSet
    <3>4. QED
      BY <3>1, <3>2, <3>3
  <2>5. QED
    BY <2>1, <2>2, <2>3, <2>4

Extracting == {"clean", "extract", "client", "delegate", "server"}

Working ==
    phase \in {"client", "delegate", "server"} \/ (phase = "extract" /\ step # "idle")

\* What has been extracted: in reach of the loop, and with all it needs but a
\* server, unless a later interface of the same name has touched it.
ExtractedOK ==
    /\ input \in Inputs /\ k \in Nat \ {0}
    /\ phase = "clean" => extracted = <<>> /\ step = "idle"
    /\ Working => k \in DOMAIN Ifaces /\ Extractable(k)
    /\ extracted \in Seq(Nat)
    /\ \A i \in ToSet(extracted) :
           /\ i \in DOMAIN Ifaces /\ Extractable(i)
           /\ phase \in Extracting => i < k

\* The files of a package name are of an interface of that name, and of none
\* before the last one extracted.
FilesOK ==
    /\ DOMAIN clients = Names /\ DOMAIN delegates = Names /\ DOMAIN servers = Names
    /\ phase \in {"delegate", "server"} =>
           clients[Name(k)] = [of |-> k, state |-> "whole"]
    /\ phase = "server" => delegates[Name(k)] = [of |-> k, state |-> "whole"]
    /\ \A i \in ToSet(extracted) :
           /\ clients[Name(i)].of = i => clients[Name(i)] = [of |-> i, state |-> "whole"]
           /\ delegates[Name(i)].state \in {"whole", "part"}
           /\ i <= clients[Name(i)].of
           /\ servers[Name(i)] = Nowhere \/ i <= servers[Name(i)].of
    /\ \A n \in Names :
           \/ clients[n] = Nowhere
           \/ clients[n].of \in Nat /\ Name(clients[n].of) = n
    /\ \A n \in Names :
           \/ servers[n] = Nowhere
           \/ servers[n].of \in ToSet(extracted) /\ Name(servers[n].of) = n

\* The files rewritten, the images pushed and the manifests written so far.
OutputOK ==
    /\ phase = "rewrite" =>
           replaced = {i \in ToSet(extracted) : Code[Ifaces[i].stmt].file < k}
    /\ phase \in {"build", "manifests"} => replaced = ToSet(extracted)
    /\ phase = "build" =>
           /\ pushed = {Artifacts[j] : j \in 1..(k - 1)}
           /\ \A j \in 1..(k - 1) : Builds(Artifacts[j])
           /\ k <= Len(Artifacts) + 1
    /\ phase = "manifests" =>
           /\ pushed = ToSet(Artifacts)
           /\ \A n \in ToSet(Artifacts) : Builds(n)
           /\ manifests = {Artifacts[j] : j \in 1..(k - 1)}
           /\ k <= Len(Artifacts) + 1
    /\ phase \in Extracting => replaced = {} /\ pushed = {} /\ manifests = {}
    /\ phase \in {"rewrite"} => pushed = {} /\ manifests = {}
    /\ phase = "build" => manifests = {}

DeployInv == ExtractedOK /\ FilesOK /\ OutputOK /\ SuccessIsDeployable

\* An application and its interfaces.
LEMMA Applications ==
    ASSUME input \in Inputs
    PROVE  /\ main.files \in Nat /\ Len(Ifaces) \in Nat
           /\ DOMAIN Ifaces = 1..Len(Ifaces)
           /\ \A i \in DOMAIN Ifaces :
                 /\ Name(i) \in Names /\ Name(i) # "entrypoint"
                 /\ Ifaces[i].stmt \in DOMAIN Code \cup {None}
           /\ \A s \in DOMAIN Code : Code[s].file \in 1..main.files
<1>1. /\ main.files \in Nat /\ Ifaces \in Seq(ToSet(Ifaces))
      /\ \A i \in DOMAIN Ifaces :
            Ifaces[i].name # "entrypoint" /\ Ifaces[i].stmt \in DOMAIN Code \cup {None}
      /\ \A s \in DOMAIN Code : Code[s].file \in 1..main.files
  BY CompileAssumption DEF main, Ifaces, Code
<1>2. QED
  BY <1>1 DEF Name, Names

LEMMA DeployInit == ASSUME Init PROVE DeployInv
<1>1. /\ extracted = <<>> /\ phase = "clean" /\ k = 1 /\ input \in Inputs
      /\ step = "idle"
  BY DEF Init, PlanInit
<1>2. ToSet(extracted) = {} /\ extracted \in Seq(Nat)
  BY <1>1 DEF ToSet
<1>3. ExtractedOK
  BY <1>1, <1>2 DEF ExtractedOK, Working
<1>4. FilesOK
  BY <1>1, <1>2 DEF FilesOK, Init
<1>5. OutputOK
  BY <1>1 DEF OutputOK, Init, Extracting
<1>6. SuccessIsDeployable
  BY <1>1 DEF SuccessIsDeployable
<1>7. QED
  BY <1>3, <1>4, <1>5, <1>6 DEF DeployInv

\* The steps before the first file of an interface is written.
LEMMA DeployEarly ==
    ASSUME DeployInv, Clean \/ SkipIface \/ OpenIface \/ Plan \/ ClosePlan
    PROVE  DeployInv'
<1>1. /\ input' = input /\ extracted' = extracted
      /\ UNCHANGED <<clients, delegates, servers, replaced, pushed, manifests>>
      /\ phase \in {"clean", "extract"} /\ phase' \in {"extract", "client", "done"}
      /\ phase' = "done" => err' # ""
      /\ k' \in {1, k, k + 1} /\ (phase = "extract" => k' \in {k, k + 1})
      /\ phase' = "client" => phase = "extract" /\ k' = k
  <2>1. CASE Clean
    BY <2>1 DEF Clean, FilesUnchanged, OutputUnchanged, GoTo, Fail, ExtractedOK, DeployInv
  <2>2. CASE SkipIface
    BY <2>2 DEF SkipIface, FilesUnchanged, OutputUnchanged
  <2>3. CASE OpenIface
    BY <2>3 DEF OpenIface, FilesUnchanged, OutputUnchanged
  <2>4. CASE Plan
    <3>1. input' = input
      BY <2>4 DEF Plan, PlanStep, ResolveExpr, CloseStmt, UseStmt, StartSort, SortStmt, EndSort
    <3>2. QED
      BY <2>4, <3>1 DEF Plan, FilesUnchanged, OutputUnchanged
  <2>5. CASE ClosePlan
    BY <2>5 DEF ClosePlan, FilesUnchanged, OutputUnchanged, Fail, Skip
  <2>6. QED
    BY <2>1, <2>2, <2>3, <2>4, <2>5
<1>2. Working' => k' \in DOMAIN Ifaces /\ Extractable(k')
  <2>3. CASE OpenIface
    <3>1. k \in 1..Len(Ifaces) /\ Extractable(k) /\ k' = k
      BY <2>3 DEF OpenIface, DeployInv, ExtractedOK
    <3>2. QED
      BY <3>1, Applications DEF DeployInv, ExtractedOK
  <2>4. CASE Plan
    <3>1. Working
      BY <2>4 DEF Plan, PlanStep, ResolveExpr, CloseStmt, UseStmt, StartSort, SortStmt,
         EndSort, Working
    <3>2. k' = k
      BY <2>4 DEF Plan
    <3>3. QED
      BY <3>1, <3>2 DEF DeployInv, ExtractedOK
  <2>5. CASE ClosePlan
    <3>1. Working /\ (Working' => k' = k)
      BY <2>5 DEF ClosePlan, Skip, Fail, Working
    <3>2. QED
      BY <3>1 DEF DeployInv, ExtractedOK
  <2>6. CASE Clean \/ SkipIface
    <3>1. ~Working'
      BY <2>6 DEF Clean, SkipIface, GoTo, Fail, Working, planVars, DeployInv, ExtractedOK
    <3>2. QED
      BY <3>1
  <2>7. QED
    BY <2>3, <2>4, <2>5, <2>6
<1>3. ExtractedOK'
  <2>1. /\ input' \in Inputs /\ k' \in Nat \ {0} /\ phase' # "clean"
        /\ extracted' \in Seq(Nat)
    <3>1. input \in Inputs /\ k \in Nat \ {0} /\ extracted \in Seq(Nat)
      BY DEF DeployInv, ExtractedOK
    <3>2. k' = 1 \/ k' = k \/ k' = k + 1
      BY <1>1
    <3>3. k' \in Nat \ {0}
      BY <3>1, <3>2
    <3>4. QED
      BY <1>1, <3>1, <3>3
  <2>2. ASSUME NEW i \in ToSet(extracted)
        PROVE  /\ i \in DOMAIN Ifaces /\ Extractable(i)
               /\ phase' \in Extracting => i < k'
    <3>1. i \in DOMAIN Ifaces /\ Extractable(i) /\ i < k
      BY <1>1, <2>2 DEF DeployInv, ExtractedOK, Extracting
    <3>2. phase = "extract"
      <4>1. ToSet(<<>>) = {}
        BY DEF ToSet
      <4>2. extracted # <<>>
        BY <2>2, <4>1
      <4>3. QED
        BY <1>1, <4>2 DEF DeployInv, ExtractedOK
    <3>3. k \in Nat /\ i \in Nat
      BY <3>1, Applications DEF DeployInv, ExtractedOK
    <3>4. k' \in {k, k + 1}
      BY <1>1, <3>2
    <3>5. QED
      BY <3>1, <3>3, <3>4
  <2>3. Ifaces' = Ifaces /\ \A i : Extractable(i)' <=> Extractable(i)
    BY <1>1 DEF Ifaces, Extractable
  <2>4. QED
    BY <1>1, <1>2, <2>1, <2>2, <2>3 DEF ExtractedOK
<1>4. FilesOK'
  <2>1. Names' = Names /\ (\A i : Name(i)' = Name(i)) /\ ToSet(extracted') = ToSet(extracted)
    BY <1>1 DEF Names, Name, Ifaces
  <2>2. phase' \notin {"delegate", "server"} /\ FilesOK
    BY <1>1 DEF DeployInv
  <2>3. QED
    BY <1>1, <2>1, <2>2 DEF FilesOK
<1>5. OutputOK'
  BY <1>1 DEF DeployInv, OutputOK, Extracting
<1>6. SuccessIsDeployable'
  BY <1>1 DEF SuccessIsDeployable
<1>7. QED
  BY <1>3, <1>4, <1>5, <1>6 DEF DeployInv

\* What is read from the application does not change.
LEMMA SameApplication ==
    ASSUME input' = input
    PROVE  /\ Ifaces' = Ifaces /\ Names' = Names /\ Code' = Code /\ main' = main
           /\ \A i : Name(i)' = Name(i) /\ (Extractable(i)' <=> Extractable(i))
BY DEF Ifaces, Names, Code, main, Name, Extractable

\* A step that leaves what has been extracted, and goes on with this interface
\* or the next.
LEMMA ExtractedKept ==
    ASSUME ExtractedOK, input' = input, extracted' = extracted,
           phase \in {"client", "delegate", "server"},
           \/ k' = k /\ phase' \in {"client", "delegate", "server"}
           \/ k' = k + 1 /\ phase' = "extract" /\ step' = "idle"
    PROVE  ExtractedOK'
<1>1. /\ Ifaces' = Ifaces
      /\ \A i : Extractable(i)' <=> Extractable(i)
  BY SameApplication
<1>2. /\ input \in Inputs /\ k \in Nat \ {0} /\ extracted \in Seq(Nat)
      /\ k \in DOMAIN Ifaces /\ Extractable(k)
  BY DEF ExtractedOK, Working
<1>3. k' \in Nat \ {0} /\ (Working' => k' = k)
  BY <1>2 DEF Working
<1>4. ASSUME NEW i \in ToSet(extracted)
      PROVE  /\ i \in DOMAIN Ifaces /\ Extractable(i) /\ i < k'
  <2>1. i \in DOMAIN Ifaces /\ Extractable(i) /\ i < k
    BY <1>4 DEF ExtractedOK, Extracting
  <2>2. i \in Nat
    BY <1>2, <2>1, Applications
  <2>3. QED
    BY <1>2, <2>1, <2>2
<1>5. phase' # "clean"
  OBVIOUS
<1>6. QED
  BY <1>1, <1>2, <1>3, <1>4, <1>5 DEF ExtractedOK

\* What has been extracted comes before the interface at hand.
LEMMA Earlier ==
    ASSUME ExtractedOK, phase \in {"client", "delegate", "server"},
           NEW i \in ToSet(extracted)
    PROVE  i <= k
<1>1. i \in DOMAIN Ifaces /\ i < k /\ k \in Nat /\ input \in Inputs
  BY DEF ExtractedOK, Extracting
<1>2. QED
  BY <1>1, Applications

LEMMA DeployWriteClient ==
    ASSUME DeployInv, WriteClient
    PROVE  DeployInv'
<1>1. PICK state \in Outcomes \cup {"raw"} :
        /\ clients' = Written(clients, Name(k), state)
        /\ IF state = "whole" THEN phase' = "delegate" /\ UNCHANGED <<k, step, err>>
           ELSE phase' = "extract" /\ k' = k + 1 /\ step' = "idle" /\ UNCHANGED err
  BY DEF WriteClient
<1>2. /\ phase = "client" /\ input' = input /\ extracted' = extracted
      /\ UNCHANGED <<delegates, servers, replaced, pushed, manifests>>
  BY DEF WriteClient, OutputUnchanged
<1>3. ExtractedOK'
  BY <1>1, <1>2, ExtractedKept DEF DeployInv
<1>4. /\ Names' = Names /\ \A i : Name(i)' = Name(i)
  BY <1>2, SameApplication
<1>5. k \in DOMAIN Ifaces /\ Name(k) \in Names /\ \A i \in ToSet(extracted) : i # k
  <2>1. k \in DOMAIN Ifaces /\ input \in Inputs /\ k \in Nat
    BY <1>2 DEF DeployInv, ExtractedOK, Working
  <2>2. \A i \in ToSet(extracted) : i < k
    BY <1>2 DEF DeployInv, ExtractedOK, Extracting
  <2>3. QED
    BY <2>1, <2>2, Applications
<1>6. /\ DOMAIN clients' = Names
      /\ \A n \in Names : n # Name(k) => clients'[n] = clients[n]
      /\ \/ clients' = clients
         \/ clients'[Name(k)] = [of |-> k, state |-> state]
      /\ state = "whole" => clients'[Name(k)] = [of |-> k, state |-> "whole"]
  <2>1. DOMAIN clients = Names
    BY DEF DeployInv, FilesOK
  <2>2. CASE state = "none"
    BY <1>1, <2>1, <2>2 DEF Written
  <2>3. CASE state # "none"
    BY <1>1, <1>5, <2>1, <2>3 DEF Written
  <2>4. QED
    BY <2>2, <2>3
<1>7. FilesOK'
  <2>1. phase' = "delegate" => clients'[Name(k')] = [of |-> k', state |-> "whole"]
    BY <1>1, <1>6
  <2>2. phase' # "server"
    BY <1>1
  <2>3. ASSUME NEW i \in ToSet(extracted)
        PROVE  /\ clients'[Name(i)].of = i =>
                     clients'[Name(i)] = [of |-> i, state |-> "whole"]
               /\ delegates[Name(i)].state \in {"whole", "part"}
               /\ i <= clients'[Name(i)].of
               /\ servers[Name(i)] = Nowhere \/ i <= servers[Name(i)].of
    <3>1. /\ clients[Name(i)].of = i => clients[Name(i)] = [of |-> i, state |-> "whole"]
          /\ delegates[Name(i)].state \in {"whole", "part"} /\ i \in DOMAIN Ifaces
          /\ i <= clients[Name(i)].of
          /\ servers[Name(i)] = Nowhere \/ i <= servers[Name(i)].of
      BY <2>3 DEF DeployInv, FilesOK, ExtractedOK
    <3>2. Name(i) \in Names
      BY <3>1 DEF Names
    <3>3. clients'[Name(i)] = clients[Name(i)] \/ clients'[Name(i)] = [of |-> k, state |-> state]
      BY <1>6, <3>2
    <3>4. i <= k
      BY <1>2, <2>3, Earlier DEF DeployInv
    <3>5. QED
      BY <1>5, <2>3, <3>1, <3>3, <3>4
  <2>4. ASSUME NEW n \in Names
        PROVE  \/ clients'[n] = Nowhere
               \/ clients'[n].of \in Nat /\ Name(clients'[n].of) = n
    <3>1. \/ clients[n] = Nowhere
          \/ clients[n].of \in Nat /\ Name(clients[n].of) = n
      BY DEF DeployInv, FilesOK
    <3>2. k \in Nat
      BY DEF DeployInv, ExtractedOK
    <3>3. QED
      BY <1>6, <3>1, <3>2
  <2>5. QED
    BY <1>2, <1>4, <1>6, <2>1, <2>2, <2>3, <2>4 DEF FilesOK, DeployInv
<1>8. OutputOK' /\ SuccessIsDeployable'
  BY <1>1, <1>2 DEF DeployInv, OutputOK, Extracting, SuccessIsDeployable
<1>9. QED
  BY <1>3, <1>7, <1>8 DEF DeployInv

LEMMA DeployWriteDelegate ==
    ASSUME DeployInv, WriteDelegate
    PROVE  DeployInv'
<1>1. PICK state \in Outcomes :
        /\ delegates' = Written(delegates, Name(k), state)
        /\ IF state = "whole" THEN phase' = "server" /\ UNCHANGED <<k, step, err>>
           ELSE phase' = "extract" /\ k' = k + 1 /\ step' = "idle" /\ UNCHANGED err
  BY DEF WriteDelegate
<1>2. /\ phase = "delegate" /\ input' = input /\ extracted' = extracted
      /\ UNCHANGED <<clients, servers, replaced, pushed, manifests>>
  BY DEF WriteDelegate, OutputUnchanged
<1>3. ExtractedOK'
  BY <1>1, <1>2, ExtractedKept DEF DeployInv
<1>4. /\ Names' = Names /\ \A i : Name(i)' = Name(i)
  BY <1>2, SameApplication
<1>5. k \in DOMAIN Ifaces /\ Name(k) \in Names
  <2>1. k \in DOMAIN Ifaces /\ input \in Inputs
    BY <1>2 DEF DeployInv, ExtractedOK, Working
  <2>2. QED
    BY <2>1, Applications
<1>6. /\ DOMAIN delegates' = Names
      /\ \A n \in Names : n # Name(k) => delegates'[n] = delegates[n]
      /\ \/ delegates' = delegates
         \/ delegates'[Name(k)] = [of |-> k, state |-> state] /\ state \in {"whole", "part"}
      /\ state = "whole" => delegates'[Name(k)] = [of |-> k, state |-> "whole"]
  <2>1. DOMAIN delegates = Names
    BY DEF DeployInv, FilesOK
  <2>2. CASE state = "none"
    BY <1>1, <2>1, <2>2 DEF Written
  <2>3. CASE state # "none"
    BY <1>1, <1>5, <2>1, <2>3 DEF Written, Outcomes
  <2>4. QED
    BY <2>2, <2>3
<1>7. FilesOK'
  <2>1. phase' = "server" =>
           /\ clients'[Name(k')] = [of |-> k', state |-> "whole"]
           /\ delegates'[Name(k')] = [of |-> k', state |-> "whole"]
    BY <1>1, <1>2, <1>6 DEF DeployInv, FilesOK
  <2>2. phase' # "delegate"
    BY <1>1
  <2>3. ASSUME NEW i \in ToSet(extracted)
        PROVE  /\ clients[Name(i)].of = i =>
                     clients[Name(i)] = [of |-> i, state |-> "whole"]
               /\ delegates'[Name(i)].state \in {"whole", "part"}
               /\ i <= clients[Name(i)].of
               /\ servers[Name(i)] = Nowhere \/ i <= servers[Name(i)].of
    <3>1. /\ clients[Name(i)].of = i => clients[Name(i)] = [of |-> i, state |-> "whole"]
          /\ delegates[Name(i)].state \in {"whole", "part"} /\ i \in DOMAIN Ifaces
          /\ i <= clients[Name(i)].of
          /\ servers[Name(i)] = Nowhere \/ i <= servers[Name(i)].of
      BY <2>3 DEF DeployInv, FilesOK, ExtractedOK
    <3>2. Name(i) \in Names
      BY <3>1 DEF Names
    <3>3. \/ delegates'[Name(i)] = delegates[Name(i)]
          \/ delegates'[Name(i)] = [of |-> k, state |-> state] /\ state \in {"whole", "part"}
      BY <1>6, <3>2
    <3>4. QED
      BY <3>1, <3>3
  <2>4. QED
    BY <1>2, <1>4, <1>6, <2>1, <2>2, <2>3 DEF FilesOK, DeployInv
<1>8. OutputOK' /\ SuccessIsDeployable'
  BY <1>1, <1>2 DEF DeployInv, OutputOK, Extracting, SuccessIsDeployable
<1>9. QED
  BY <1>3, <1>7, <1>8 DEF DeployInv

LEMMA DeployWriteServer ==
    ASSUME DeployInv, WriteServer
    PROVE  DeployInv'
<1>1. PICK state \in Outcomes :
        servers' = [servers EXCEPT ![Name(k)] =
                       IF state = "none" THEN Nowhere ELSE [of |-> k, state |-> state]]
  BY DEF WriteServer
<1>2. /\ phase = "server" /\ phase' = "extract" /\ input' = input
      /\ extracted' = Append(extracted, k) /\ k' = k + 1 /\ step' = "idle"
      /\ UNCHANGED <<clients, delegates, replaced, pushed, manifests>>
  BY DEF WriteServer, OutputUnchanged
<1>3. /\ Names' = Names /\ Ifaces' = Ifaces
      /\ \A i : Name(i)' = Name(i) /\ (Extractable(i)' <=> Extractable(i))
  BY <1>2, SameApplication
<1>4. /\ input \in Inputs /\ k \in Nat \ {0} /\ extracted \in Seq(Nat)
      /\ k \in DOMAIN Ifaces /\ Extractable(k)
  BY <1>2 DEF DeployInv, ExtractedOK, Working
<1>5. /\ extracted' \in Seq(Nat) /\ ToSet(extracted') = ToSet(extracted) \cup {k}
  <2>1. extracted' \in Seq(Nat) /\ k \in Nat
    BY <1>2, <1>4
  <2>2. /\ DOMAIN extracted' = 1..(Len(extracted) + 1) /\ Len(extracted) \in Nat
        /\ extracted'[Len(extracted) + 1] = k
        /\ \A j \in 1..Len(extracted) : extracted'[j] = extracted[j]
        /\ DOMAIN extracted = 1..Len(extracted)
    BY <1>2, <1>4
  <2>3. ToSet(extracted) \subseteq ToSet(extracted')
    BY <2>2 DEF ToSet
  <2>4. k \in ToSet(extracted')
    <3>1. Len(extracted) + 1 \in DOMAIN extracted'
      BY <2>2
    <3>2. QED
      BY <2>2, <3>1 DEF ToSet
  <2>5. ToSet(extracted') \subseteq ToSet(extracted) \cup {k}
    <3>1. ASSUME NEW j \in DOMAIN extracted'
          PROVE  extracted'[j] \in ToSet(extracted) \cup {k}
      <4>1. j \in DOMAIN extracted \/ j = Len(extracted) + 1
        BY <2>2
      <4>2. QED
        BY <2>2, <4>1 DEF ToSet
    <3>2. QED
      BY <3>1 DEF ToSet
  <2>6. QED
    BY <2>1, <2>3, <2>4, <2>5
<1>6. ExtractedOK'
  <2>1. input' \in Inputs /\ k' \in Nat \ {0} /\ ~Working' /\ phase' # "clean"
    BY <1>2, <1>4 DEF Working
  <2>2. ASSUME NEW i \in ToSet(extracted')
        PROVE  i \in DOMAIN Ifaces /\ Extractable(i) /\ i < k'
    <3>1. CASE i = k
      BY <1>2, <1>4, <3>1
    <3>2. CASE i \in ToSet(extracted)
      <4>1. i \in DOMAIN Ifaces /\ Extractable(i) /\ i < k
        BY <1>2, <3>2 DEF DeployInv, ExtractedOK, Extracting
      <4>2. i \in Nat
        BY <1>4, <4>1, Applications
      <4>3. QED
        BY <1>2, <1>4, <4>1, <4>2
    <3>3. QED
      BY <1>5, <2>2, <3>1, <3>2
  <2>3. QED
    BY <1>3, <1>5, <2>1, <2>2 DEF ExtractedOK
<1>7. FilesOK'
  <2>1. Name(k) \in Names
    BY <1>4, Applications
  <2>2. DOMAIN clients = Names /\ DOMAIN delegates = Names /\ DOMAIN servers = Names
    BY DEF DeployInv, FilesOK
  <2>3. ASSUME NEW i \in ToSet(extracted')
        PROVE  /\ clients[Name(i)].of = i =>
                     clients[Name(i)] = [of |-> i, state |-> "whole"]
               /\ delegates[Name(i)].state \in {"whole", "part"}
               /\ i <= clients[Name(i)].of
               /\ servers'[Name(i)] = Nowhere \/ i <= servers'[Name(i)].of
    <3>1. CASE i = k
      <4>1. servers'[Name(k)] = IF state = "none" THEN Nowhere ELSE [of |-> k, state |-> state]
        BY <1>1, <2>1, <2>2
      <4>2. /\ clients[Name(k)] = [of |-> k, state |-> "whole"]
            /\ delegates[Name(k)] = [of |-> k, state |-> "whole"]
        BY <1>2 DEF DeployInv, FilesOK
      <4>3. QED
        BY <1>4, <3>1, <4>1, <4>2
    <3>2. CASE i \in ToSet(extracted)
      <4>1. /\ clients[Name(i)].of = i => clients[Name(i)] = [of |-> i, state |-> "whole"]
            /\ delegates[Name(i)].state \in {"whole", "part"}
            /\ i <= clients[Name(i)].of
            /\ servers[Name(i)] = Nowhere \/ i <= servers[Name(i)].of
        BY <3>2 DEF DeployInv, FilesOK
      <4>2. i <= k
        BY <1>2, <3>2, Earlier DEF DeployInv
      <4>3. Name(i) # Name(k) => servers'[Name(i)] = servers[Name(i)]
        BY <1>1, <2>1, <2>2
      <4>4. Name(i) = Name(k) =>
               servers'[Name(i)] = IF state = "none" THEN Nowhere ELSE [of |-> k, state |-> state]
        BY <1>1, <2>1, <2>2
      <4>5. QED
        BY <4>1, <4>2, <4>3, <4>4
    <3>3. QED
      BY <1>5, <2>3, <3>1, <3>2
  <2>4. ASSUME NEW n \in Names
        PROVE  \/ servers'[n] = Nowhere
               \/ servers'[n].of \in ToSet(extracted') /\ Name(servers'[n].of) = n
    <3>1. CASE n = Name(k)
      <4>1. servers'[n] = IF state = "none" THEN Nowhere ELSE [of |-> k, state |-> state]
        BY <1>1, <2>1, <2>2, <3>1
      <4>2. QED
        BY <1>5, <3>1, <4>1
    <3>2. CASE n # Name(k)
      <4>1. servers'[n] = servers[n]
        BY <1>1, <2>1, <2>2, <3>2
      <4>2. \/ servers[n] = Nowhere
            \/ servers[n].of \in ToSet(extracted) /\ Name(servers[n].of) = n
        BY DEF DeployInv, FilesOK
      <4>3. QED
        BY <1>5, <4>1, <4>2
    <3>3. QED
      BY <3>1, <3>2
  <2>5. DOMAIN servers' = Names
    BY <1>1, <2>2
  <2>6. \A n \in Names : clients[n] = Nowhere \/ (clients[n].of \in Nat /\ Name(clients[n].of) = n)
    BY DEF DeployInv, FilesOK
  <2>7. QED
    BY <1>2, <1>3, <2>2, <2>3, <2>4, <2>5, <2>6 DEF FilesOK
<1>8. OutputOK' /\ SuccessIsDeployable'
  BY <1>2 DEF DeployInv, OutputOK, Extracting, SuccessIsDeployable
<1>9. QED
  BY <1>6, <1>7, <1>8 DEF DeployInv

\* The steps after the extraction leave what it has left.
LEMMA LateKept ==
    ASSUME ExtractedOK, FilesOK, phase' \notin Extracting, k' \in Nat \ {0},
           UNCHANGED <<input, extracted, clients, delegates, servers>>
    PROVE  /\ ExtractedOK' /\ FilesOK' /\ Artifacts' = Artifacts
           /\ replaced' = replaced => \A n : Builds(n)' <=> Builds(n)
<1>1. /\ Ifaces' = Ifaces /\ Names' = Names /\ Code' = Code
      /\ \A i : Name(i)' = Name(i) /\ (Extractable(i)' <=> Extractable(i))
  BY SameApplication
<1>2. ExtractedOK'
  <2>1. ~Working' /\ phase' # "clean"
    BY DEF Working, Extracting
  <2>2. QED
    BY <1>1, <2>1 DEF ExtractedOK
<1>3. FilesOK'
  BY <1>1 DEF FilesOK, Extracting
<1>4. Artifacts' = Artifacts
  BY <1>1 DEF Artifacts, ServiceNames
<1>5. replaced' = replaced => \A n : Builds(n)' <=> Builds(n)
  BY <1>1 DEF Builds, Fits
<1>6. QED
  BY <1>1, <1>2, <1>3, <1>4, <1>5

\* What the steps on the output start from.
LEMMA Late ==
    ASSUME DeployInv
    PROVE  /\ ExtractedOK /\ FilesOK /\ k \in Nat \ {0} /\ main.files \in Nat
           /\ Len(Artifacts) \in Nat /\ DOMAIN Artifacts = 1..Len(Artifacts)
           /\ \A i \in ToSet(extracted) : Code[Ifaces[i].stmt].file \in 1..main.files
<1>1. /\ ExtractedOK /\ FilesOK /\ k \in Nat \ {0} /\ input \in Inputs
      /\ extracted \in Seq(Nat)
  BY DEF DeployInv, ExtractedOK
<1>2. ASSUME NEW i \in ToSet(extracted)
      PROVE  Code[Ifaces[i].stmt].file \in 1..main.files
  <2>1. i \in DOMAIN Ifaces /\ Ifaces[i].stmt # None
    BY <1>1, <1>2 DEF ExtractedOK, Extractable
  <2>2. QED
    BY <1>1, <2>1, Applications
<1>3. QED
  BY <1>1, <1>2, Applications, ArtifactsListed

LEMMA DeployEndExtract ==
    ASSUME DeployInv, EndExtract
    PROVE  DeployInv'
<1>1. /\ phase = "extract"
      /\ UNCHANGED <<input, extracted, clients, delegates, servers, replaced, pushed,
                     manifests>>
      /\ \/ phase' = "done" /\ k' = k /\ (err' # "" \/ extracted = <<>>)
         \/ phase' = "rewrite" /\ k' = 1
  BY DEF EndExtract, FilesUnchanged, OutputUnchanged, Fail, GoTo
<1>2. phase' \notin Extracting /\ k' \in Nat \ {0}
  <2>1. phase' \notin Extracting
    BY <1>1 DEF Extracting
  <2>2. (k' = k \/ k' = k + 1 \/ k' = 1) /\ k \in Nat \ {0}
    BY <1>1, Late
  <2>3. QED
    BY <2>1, <2>2
<1>3. ExtractedOK' /\ FilesOK'
  BY <1>1, <1>2, Late, LateKept
<1>4. OutputOK'
  <2>1. replaced = {} /\ pushed = {} /\ manifests = {}
    BY <1>1 DEF DeployInv, OutputOK, Extracting
  <2>2. {i \in ToSet(extracted) : Code[Ifaces[i].stmt].file < 1} = {}
    <3>1. \A i \in ToSet(extracted) : ~(Code[Ifaces[i].stmt].file < 1)
      BY Late
    <3>2. QED
      BY <3>1
  <2>3. Code' = Code /\ Ifaces' = Ifaces
    BY <1>1, SameApplication
  <2>4. QED
    BY <1>1, <1>2, <2>1, <2>2, <2>3 DEF OutputOK
<1>5. SuccessIsDeployable'
  BY <1>1 DEF SuccessIsDeployable
<1>6. QED
  BY <1>3, <1>4, <1>5 DEF DeployInv

LEMMA DeployRewrite ==
    ASSUME DeployInv, RewriteFile \/ EndRewrite
    PROVE  DeployInv'
<1>1. /\ phase = "rewrite"
      /\ UNCHANGED <<input, extracted, clients, delegates, servers, pushed, manifests>>
      /\ \/ phase' = "done" /\ k' = k /\ err' # ""
         \/ /\ phase' = "rewrite" /\ k' = k + 1 /\ k <= main.files
            /\ replaced' = replaced \cup RootsIn(k)
         \/ phase' = "build" /\ k' = 1 /\ k > main.files /\ replaced' = replaced
  <2>1. CASE RewriteFile
    BY <2>1 DEF RewriteFile, FilesUnchanged, Fail
  <2>2. CASE EndRewrite
    BY <2>2 DEF EndRewrite, FilesUnchanged, OutputUnchanged, Fail, GoTo
  <2>3. QED
    BY <2>1, <2>2
<1>2. phase' \notin Extracting /\ k' \in Nat \ {0}
  <2>1. phase' \notin Extracting
    BY <1>1 DEF Extracting
  <2>2. (k' = k \/ k' = k + 1 \/ k' = 1) /\ k \in Nat \ {0}
    BY <1>1, Late
  <2>3. QED
    BY <2>1, <2>2
<1>3. ExtractedOK' /\ FilesOK' /\ Artifacts' = Artifacts
  BY <1>1, <1>2, Late, LateKept
<1>4. Code' = Code /\ Ifaces' = Ifaces
  BY <1>1, SameApplication
<1>5. /\ replaced = {i \in ToSet(extracted) : Code[Ifaces[i].stmt].file < k}
      /\ pushed = {} /\ manifests = {}
  BY <1>1 DEF DeployInv, OutputOK
<1>6. \A i \in ToSet(extracted) : Code[Ifaces[i].stmt].file \in 1..main.files
  BY Late
<1>7. k \in Nat /\ main.files \in Nat
  BY Late
<1>8. OutputOK'
  <2>1. CASE phase' = "rewrite"
    <3>1. \A i \in ToSet(extracted) :
             Code[Ifaces[i].stmt].file < k + 1 <=>
             Code[Ifaces[i].stmt].file < k \/ Code[Ifaces[i].stmt].file = k
      BY <1>6, <1>7
    <3>2. replaced' = {i \in ToSet(extracted) : Code[Ifaces[i].stmt].file < k + 1}
      BY <1>1, <1>5, <2>1, <3>1 DEF RootsIn
    <3>3. QED
      BY <1>1, <1>4, <1>5, <2>1, <3>2 DEF OutputOK, Extracting
  <2>2. CASE phase' = "build"
    <3>1. \A i \in ToSet(extracted) : Code[Ifaces[i].stmt].file < k
      BY <1>1, <1>6, <1>7, <2>2
    <3>2. replaced' = ToSet(extracted)
      BY <1>1, <1>5, <2>2, <3>1
    <3>3. k' = 1 /\ 1..(k' - 1) = {} /\ k' <= Len(Artifacts) + 1
      BY <1>1, <2>2, Late
    <3>4. QED
      BY <1>1, <1>3, <1>5, <2>2, <3>2, <3>3 DEF OutputOK, Extracting
  <2>3. CASE phase' = "done"
    BY <2>3 DEF OutputOK, Extracting
  <2>4. QED
    BY <1>1, <2>1, <2>2, <2>3
<1>9. SuccessIsDeployable'
  BY <1>1 DEF SuccessIsDeployable
<1>10. QED
  BY <1>3, <1>8, <1>9 DEF DeployInv

LEMMA DeployBuild ==
    ASSUME DeployInv, Build \/ EndBuild
    PROVE  DeployInv'
<1>1. /\ phase = "build"
      /\ UNCHANGED <<input, extracted, clients, delegates, servers, replaced, manifests>>
      /\ \/ phase' = "done" /\ k' = k /\ err' # ""
         \/ /\ phase' = "build" /\ k' = k + 1 /\ k <= Len(Artifacts)
            /\ pushed' = pushed \cup {Artifacts[k]} /\ Builds(Artifacts[k])
         \/ phase' = "manifests" /\ k' = 1 /\ k > Len(Artifacts) /\ pushed' = pushed
  <2>1. CASE Build
    BY <2>1 DEF Build, FilesUnchanged, Fail
  <2>2. CASE EndBuild
    BY <2>2 DEF EndBuild, FilesUnchanged, OutputUnchanged, Fail, GoTo
  <2>3. QED
    BY <2>1, <2>2
<1>2. phase' \notin Extracting /\ k' \in Nat \ {0}
  <2>1. phase' \notin Extracting
    BY <1>1 DEF Extracting
  <2>2. (k' = k \/ k' = k + 1 \/ k' = 1) /\ k \in Nat \ {0}
    BY <1>1, Late
  <2>3. QED
    BY <2>1, <2>2
<1>3. /\ ExtractedOK' /\ FilesOK' /\ Artifacts' = Artifacts
      /\ \A n : Builds(n)' <=> Builds(n)
  BY <1>1, <1>2, Late, LateKept
<1>4. /\ replaced = ToSet(extracted) /\ manifests = {}
      /\ pushed = {Artifacts[j] : j \in 1..(k - 1)}
      /\ \A j \in 1..(k - 1) : Builds(Artifacts[j])
      /\ k <= Len(Artifacts) + 1
  BY <1>1 DEF DeployInv, OutputOK
<1>5. k \in Nat \ {0} /\ Len(Artifacts) \in Nat /\ DOMAIN Artifacts = 1..Len(Artifacts)
  BY Late
<1>6. PICK arts : arts = Artifacts
  OBVIOUS
<1>7. OutputOK'
  <2>1. CASE phase' = "build"
    <3>1. 1..(k' - 1) = 1..(k - 1) \cup {k}
      BY <1>1, <1>5, <2>1
    <3>2. pushed' = {arts[j] : j \in 1..(k' - 1)}
      BY <1>1, <1>4, <1>6, <2>1, <3>1
    <3>3. \A j \in 1..(k' - 1) : Builds(Artifacts[j])
      BY <1>1, <1>4, <2>1, <3>1
    <3>4. k' <= Len(Artifacts) + 1
      BY <1>1, <1>5, <2>1
    <3>5. QED
      BY <1>1, <1>3, <1>4, <1>6, <2>1, <3>2, <3>3, <3>4 DEF OutputOK, Extracting
  <2>2. CASE phase' = "manifests"
    <3>1. 1..(k - 1) = DOMAIN Artifacts
      BY <1>1, <1>4, <1>5, <2>2
    <3>2. pushed' = ToSet(Artifacts)
      BY <1>1, <1>4, <2>2, <3>1 DEF ToSet
    <3>3. \A n \in ToSet(Artifacts) : Builds(n)
      BY <1>4, <3>1 DEF ToSet
    <3>4. k' = 1 /\ 1..(k' - 1) = {} /\ k' <= Len(Artifacts) + 1
      BY <1>1, <1>5, <2>2
    <3>5. QED
      BY <1>1, <1>3, <1>4, <2>2, <3>2, <3>3, <3>4 DEF OutputOK, Extracting
  <2>3. CASE phase' = "done"
    BY <2>3 DEF OutputOK, Extracting
  <2>4. QED
    BY <1>1, <2>1, <2>2, <2>3
<1>8. SuccessIsDeployable'
  BY <1>1 DEF SuccessIsDeployable
<1>9. QED
  BY <1>3, <1>7, <1>8 DEF DeployInv

LEMMA DeployWriteManifests ==
    ASSUME DeployInv, WriteManifests
    PROVE  DeployInv'
<1>1. /\ phase = "manifests"
      /\ UNCHANGED <<input, extracted, clients, delegates, servers, replaced, pushed>>
      /\ \/ phase' = "done" /\ k' = k /\ err' # ""
         \/ /\ phase' = "manifests" /\ k' = k + 1 /\ k <= Len(Artifacts)
            /\ manifests' = manifests \cup {Artifacts[k]}
  BY DEF WriteManifests, FilesUnchanged, Fail
<1>2. phase' \notin Extracting /\ k' \in Nat \ {0}
  <2>1. phase' \notin Extracting
    BY <1>1 DEF Extracting
  <2>2. (k' = k \/ k' = k + 1 \/ k' = 1) /\ k \in Nat \ {0}
    BY <1>1, Late
  <2>3. QED
    BY <2>1, <2>2
<1>3. /\ ExtractedOK' /\ FilesOK' /\ Artifacts' = Artifacts
      /\ \A n : Builds(n)' <=> Builds(n)
  BY <1>1, <1>2, Late, LateKept
<1>4. /\ replaced = ToSet(extracted) /\ pushed = ToSet(Artifacts)
      /\ \A n \in ToSet(Artifacts) : Builds(n)
      /\ manifests = {Artifacts[j] : j \in 1..(k - 1)}
      /\ k <= Len(Artifacts) + 1
  BY <1>1 DEF DeployInv, OutputOK
<1>5. k \in Nat \ {0} /\ Len(Artifacts) \in Nat
  BY Late
<1>6. PICK arts : arts = Artifacts
  OBVIOUS
<1>7. OutputOK'
  <2>1. CASE phase' = "manifests"
    <3>1. 1..(k' - 1) = 1..(k - 1) \cup {k}
      BY <1>1, <1>5, <2>1
    <3>2. manifests' = {arts[j] : j \in 1..(k' - 1)}
      BY <1>1, <1>4, <1>6, <2>1, <3>1
    <3>3. k' <= Len(Artifacts) + 1
      BY <1>1, <1>5, <2>1
    <3>4. QED
      BY <1>1, <1>3, <1>4, <1>6, <2>1, <3>2, <3>3 DEF OutputOK, Extracting
  <2>2. CASE phase' = "done"
    BY <2>2 DEF OutputOK, Extracting
  <2>3. QED
    BY <1>1, <2>1, <2>2
<1>8. SuccessIsDeployable'
  BY <1>1 DEF SuccessIsDeployable
<1>9. QED
  BY <1>3, <1>7, <1>8 DEF DeployInv

\* When all artifacts have been built, an interface has its own client and
\* server, or a later one of its package name that has its methods.
LEMMA BuiltIsDeployable ==
    ASSUME DeployInv, replaced = ToSet(extracted),
           \A n \in ToSet(Artifacts) : Builds(n), NEW i \in ToSet(extracted),
           NEW client, client = clients[Name(i)], NEW server, server = servers[Name(i)].of
    PROVE  /\ client.state # "part" /\ delegates[Name(i)].state = "whole"
           /\ \/ client = [of |-> i, state |-> "whole"] /\ server = i
              \/ /\ client.of > i /\ Name(client.of) = Name(i) /\ Fits(i, client.of)
                 /\ server \in {j \in ToSet(extracted) : Name(j) = Name(i)}
                 /\ \A j \in ToSet(extracted) : Name(j) = Name(i) => j <= server
                 /\ server <= client.of
<1>1. /\ input \in Inputs /\ extracted \in Seq(Nat)
      /\ \A j \in ToSet(extracted) : j \in DOMAIN Ifaces
  BY DEF DeployInv, ExtractedOK
<1>2. \A j \in ToSet(extracted) : j \in Nat /\ Name(j) \in Names /\ Name(j) # "entrypoint"
  BY <1>1, Applications
<1>3. /\ "entrypoint" \in ToSet(Artifacts)
      /\ \A j \in ToSet(extracted) : Name(j) \in ToSet(Artifacts)
  BY <1>1, ServicesNamed, ArtifactsListed
<1>4. /\ \A m \in Names : clients[m].state # "part" /\ delegates[m].state # "part"
      /\ Fits(i, client.of)
  BY <1>3 DEF Builds
<1>5. servers[Name(i)] # Nowhere
  BY <1>2, <1>3 DEF Builds, Nowhere
<1>6. server \in ToSet(extracted) /\ Name(server) = Name(i)
  BY <1>2, <1>5 DEF DeployInv, FilesOK
<1>7. \A j \in ToSet(extracted) : Name(j) = Name(i) => j <= server /\ j <= client.of
  BY <1>5 DEF DeployInv, FilesOK
<1>8. client.of \in Nat /\ Name(client.of) = Name(i)
  <2>1. client # Nowhere
    BY <1>4 DEF Fits, Nowhere
  <2>2. QED
    BY <1>2, <2>1 DEF DeployInv, FilesOK
<1>9. /\ client.of = i => client = [of |-> i, state |-> "whole"]
      /\ delegates[Name(i)].state \in {"whole", "part"}
  BY DEF DeployInv, FilesOK
<1>10. i <= server /\ server <= client.of /\ i \in Nat /\ server \in Nat
  BY <1>2, <1>6, <1>7
<1>11. CASE client.of = i
  <2>1. server = i
    BY <1>10, <1>11
  <2>2. QED
    BY <1>2, <1>4, <1>9, <1>11, <2>1
<1>12. CASE client.of # i
  <2>1. client.of > i
    BY <1>8, <1>10, <1>12
  <2>2. QED
    BY <1>2, <1>4, <1>6, <1>7, <1>8, <1>9, <1>10, <2>1
<1>13. QED
  BY <1>11, <1>12

LEMMA DeployEndManifests ==
    ASSUME DeployInv, EndManifests
    PROVE  DeployInv'
<1>1. /\ phase = "manifests" /\ phase' = "done" /\ k' = k /\ k > Len(Artifacts)
      /\ UNCHANGED <<input, extracted, clients, delegates, servers, replaced, pushed,
                     manifests>>
  BY DEF EndManifests, FilesUnchanged, OutputUnchanged
<1>2. phase' \notin Extracting /\ k' \in Nat \ {0}
  BY <1>1, Late DEF Extracting
<1>3. ExtractedOK' /\ FilesOK' /\ Artifacts' = Artifacts
  BY <1>1, <1>2, Late, LateKept
<1>4. /\ replaced = ToSet(extracted) /\ pushed = ToSet(Artifacts)
      /\ \A n \in ToSet(Artifacts) : Builds(n)
      /\ manifests = {Artifacts[j] : j \in 1..(k - 1)}
      /\ k <= Len(Artifacts) + 1
  BY <1>1 DEF DeployInv, OutputOK
<1>5. manifests = ToSet(Artifacts)
  <2>1. 1..(k - 1) = DOMAIN Artifacts
    BY <1>1, <1>4, Late
  <2>2. QED
    BY <1>4, <2>1 DEF ToSet
<1>6. \A i : Name(i)' = Name(i)
  BY <1>1, SameApplication
<1>7. SuccessIsDeployable'
  <2>1. ToSet(extracted') = ToSet(extracted) /\ \A i, j : Fits(i, j)' <=> Fits(i, j)
    BY <1>1, SameApplication DEF Fits
  <2>2. ASSUME NEW i \in ToSet(extracted)
        PROVE  LET client == clients[Name(i)]
                   server == servers[Name(i)].of
               IN  /\ client.state # "part" /\ delegates[Name(i)].state = "whole"
                   /\ \/ client = [of |-> i, state |-> "whole"] /\ server = i
                      \/ /\ client.of > i /\ Name(client.of) = Name(i) /\ Fits(i, client.of)
                         /\ server \in {j \in ToSet(extracted) : Name(j) = Name(i)}
                         /\ \A j \in ToSet(extracted) : Name(j) = Name(i) => j <= server
                         /\ server <= client.of
    BY <1>4, <2>2, BuiltIsDeployable
  <2>3. QED
    BY <1>1, <1>3, <1>4, <1>5, <1>6, <2>1, <2>2 DEF SuccessIsDeployable
<1>8. OutputOK'
  BY <1>1 DEF OutputOK, Extracting
<1>9. QED
  BY <1>3, <1>7, <1>8 DEF DeployInv

LEMMA DeployStep ==
    ASSUME DeployInv, [Next]_vars
    PROVE  DeployInv'
<1>1. CASE UNCHANGED vars
  <2>1. UNCHANGED <<input, step, phase, k, extracted, clients, delegates, servers, replaced,
                    pushed, manifests, err>>
    BY <1>1 DEF vars, planVars
  <2>2. /\ Ifaces' = Ifaces /\ Names' = Names /\ Code' = Code
        /\ \A i : Name(i)' = Name(i) /\ (Extractable(i)' <=> Extractable(i))
    BY <2>1, SameApplication
  <2>3. Artifacts' = Artifacts
    BY <2>1, <2>2 DEF Artifacts, ServiceNames
  <2>4. \A n : Builds(n)' <=> Builds(n)
    BY <2>1, <2>2 DEF Builds, Fits
  <2>5. ExtractedOK'
    BY <2>1, <2>2 DEF ExtractedOK, Working, Extracting, DeployInv
  <2>6. FilesOK'
    BY <2>1, <2>2 DEF FilesOK, DeployInv
  <2>7. OutputOK'
    BY <2>1, <2>2, <2>3, <2>4 DEF OutputOK, DeployInv, Extracting
  <2>8. SuccessIsDeployable'
    BY <2>1, <2>2, <2>3 DEF SuccessIsDeployable, DeployInv, Fits
  <2>9. QED
    BY <2>5, <2>6, <2>7, <2>8 DEF DeployInv
<1>2. QED
  BY <1>1, DeployEarly, DeployWriteClient, DeployWriteDelegate, DeployWriteServer,
     DeployEndExtract, DeployRewrite, DeployBuild, DeployWriteManifests,
     DeployEndManifests DEF Next, Return

\* A compilation that reports success has left all its services need, whatever
\* the application and wherever files, commands or generators fail.
THEOREM Deployable == Spec => []SuccessIsDeployable
<1>1. Init => DeployInv
  BY DeployInit
<1>2. DeployInv /\ [Next]_vars => DeployInv'
  BY DeployStep
<1>3. DeployInv => SuccessIsDeployable
  BY DEF DeployInv
<1>4. QED
  BY <1>1, <1>2, <1>3, PTL DEF Spec

-----------------------------------------------------------------------------
(* The plan.                                                               *)

Busy == {"resolve", "use", "sort", "planned", "circular"}
Declaring == {"assign", "decl"}
Running == {"control", "expr"}

\* The variables a statement is resolved for, and the statements they lead to.
Vars(s) == ToSet(Code[s].args) \ {Inlined, Opaque}
Needs(s) == {DeclOf(v) : v \in Vars(s)}

\* The declarations of the plan, and the statements of the second pass.
Root == deps[1]
Decls == {d \in ToSet(deps) : Code[d].kind \in Declaring}
Users == {d \in ToSet(deps) : Code[d].kind \in Running}

Distinct(seq) == \A i, j \in DOMAIN seq : seq[i] = seq[j] => i = j

DepsOK ==
    /\ deps \in Seq(DOMAIN Code) /\ Len(deps) # 0 /\ Distinct(deps)
    /\ Code[Root].kind \in Declaring
    /\ \A d \in ToSet(deps) : Code[d].kind \in Declaring \cup Running

\* Each variable of a declaration of the plan leads to it, and no other does.
ResolvedOK ==
    /\ DOMAIN resolved = {Id(v) : v \in UNION {Code[d].defs : d \in Decls}}
    /\ \A d \in Decls : \A v \in Code[d].defs : resolved[Id(v)] = d

\* A statement being resolved: what is left to do and what has been found.  A
\* declaration finds nothing twice.
FrameOK(f) ==
    /\ f.stmt \in DOMAIN Code /\ Code[f.stmt].kind \in Declaring \cup Running
    /\ f.todo \in Seq(ToSet(Code[f.stmt].args)) /\ f.got \in Seq(Needs(f.stmt))
    /\ \A v \in Vars(f.stmt) : v \in ToSet(f.todo) \/ DeclOf(v) \in ToSet(f.got)
    /\ Code[f.stmt].kind \in Declaring =>
          /\ Distinct(f.got)
          /\ \A i \in DOMAIN f.todo : f.todo[i] \in Vars(f.stmt) =>
                /\ DeclOf(f.todo[i]) \notin ToSet(f.got)
                /\ \A j \in DOMAIN f.todo : f.todo[j] \in Vars(f.stmt) /\ j # i =>
                      DeclOf(f.todo[i]) # DeclOf(f.todo[j])

Frames == [stmt : DOMAIN Code, todo : Seq(Int), got : Seq(DOMAIN Code)]
Bottom == stack[Len(stack)].stmt

\* Each statement on the stack is needed for the next argument of the one below;
\* all but a statement of the second pass are declarations of the plan.
StackOK ==
    /\ stack \in Seq(Frames)
    /\ step = "resolve" => stack # <<>> /\ Bottom = Root
    /\ step \notin {"resolve", "use"} => stack = <<>>
    /\ \A j \in DOMAIN stack :
          /\ FrameOK(stack[j]) /\ ToSet(stack[j].got) \subseteq ToSet(deps)
          /\ (j = Len(stack) /\ step = "use") \/ stack[j].stmt \in Decls
    /\ \A j \in 1..(Len(stack) - 1) :
          /\ stack[j + 1].todo # <<>>
          /\ Head(stack[j + 1].todo) \in Vars(stack[j + 1].stmt)
          /\ DeclOf(Head(stack[j + 1].todo)) = stack[j].stmt

\* What has been resolved rests on what its variables lead to.
PrereqsOK ==
    /\ DOMAIN prereqs \subseteq ToSet(deps)
    /\ \A d \in ToSet(deps) : d \in DOMAIN prereqs \/ \E j \in DOMAIN stack : stack[j].stmt = d
    /\ \A d \in DOMAIN prereqs :
          /\ prereqs[d] \in Seq(ToSet(deps)) /\ Distinct(prereqs[d])
          /\ ToSet(prereqs[d]) = Needs(d)

\* The second pass: where it is, and what it has taken.
InUse == step = "use" /\ stack # <<>>
Taken(s) == \E j \in 1..(at - 1) : Executable[j] = s
UsersOK ==
    /\ at \in Nat \ {0} /\ at - 1 <= Len(Executable)
    /\ step = "resolve" => at = 1
    /\ \A s \in Users :
          /\ Taken(s) /\ s < Root /\ Vars(s) # {}
          /\ InUse => s # Bottom
    /\ InUse =>
          /\ at # 1 /\ Bottom = Executable[at - 1] /\ Bottom < Root
          /\ Code[Bottom].kind \in Running /\ Vars(Bottom) # {}

\* Once the root has been resolved: all it rests on is there, and the second
\* pass has passed over nothing that uses any of it.
Touches(s, set) == \E v \in Code[s].uses : DeclOf(v) \in set
BaseOK ==
    step \in Busy \ {"resolve"} =>
    /\ Behind({Root}) \subseteq Decls
    /\ \A s \in Before(Root) : Touches(s, Behind({Root})) =>
          \/ s \in ToSet(deps)
          \/ step = "use" /\ ~Taken(s)
          \/ InUse /\ s = Bottom

\* Nothing is in the plan but what the root and the statements of the second
\* pass rest on.
MinimalOK ==
    \A t \in SUBSET DOMAIN Code :
        Closed(t) /\ Root \in t /\ Users \subseteq t /\ (InUse => Bottom \in t) =>
            ToSet(deps) \subseteq t

\* The sort: what is placed or ready rests on nothing that is not placed.
Sorting == {"sort", "planned", "circular"}
SortOK ==
    /\ step \in {"resolve", "use"} => order = <<>>
    /\ step \in Sorting =>
          /\ DOMAIN prereqs = ToSet(deps) /\ DOMAIN degree = ToSet(deps)
          /\ order \in Seq(ToSet(deps)) /\ ready \in Seq(ToSet(deps))
          /\ Distinct(order) /\ Distinct(ready) /\ ToSet(order) \cap ToSet(ready) = {}
          /\ \A m \in ToSet(deps) :
                /\ degree[m] = Cardinality(Needs(m) \ ToSet(order))
                /\ Needs(m) \subseteq ToSet(order) <=> m \in ToSet(order) \cup ToSet(ready)
          /\ \A i \in DOMAIN order : \A d \in Needs(order[i]) :
                \E j \in 1..(i - 1) : order[j] = d
    /\ step \in {"planned", "circular"} => ToSet(order) = ToSet(deps) /\ step = "planned"

PlanOK ==
    /\ DepsOK /\ ResolvedOK /\ StackOK /\ PrereqsOK /\ UsersOK /\ BaseOK /\ MinimalOK
    /\ SortOK

\* A plan is looked at while it is made, for programs whose plans say all.
PlanInv == Plain /\ step \in Busy => PlanOK

\* The main package of an application whose plans say all.
LEMMA Program ==
    ASSUME input \in Inputs, Plain
    PROVE  /\ Len(Code) \in Nat /\ DOMAIN Code = 1..Len(Code) /\ IsFiniteSet(DOMAIN Code)
           /\ \A s \in DOMAIN Code :
                 /\ Code[s].args \in Seq(ToSet(Code[s].args)) /\ ToSet(Code[s].args) \subseteq Int
                 /\ Vars(s) \subseteq Nat \ {0} /\ Vars(s) \subseteq DOMAIN main.id
                 /\ Code[s].uses = Vars(s)
                 /\ Code[s].kind \in Running => Vars(s) = ToSet(Code[s].args)
                 /\ Declares(s) = Code[s].defs /\ Code[s].defs \subseteq DOMAIN main.id
           /\ \A s \in DOMAIN Code : \A v \in Code[s].defs : DeclOf(v) = s
           /\ \A v : DeclOf(v) # None => DeclOf(v) \in DOMAIN Code /\ v \in Code[DeclOf(v)].defs
           /\ \A v, w \in DOMAIN main.id : Id(v) = Id(w) => v = w
<1>1. /\ Code \in Seq(ToSet(Code)) /\ DOMAIN main.id \subseteq Nat \ {0}
      /\ \A s \in DOMAIN Code :
            /\ Code[s].args \in Seq(ToSet(Code[s].args))
            /\ Vars(s) \cup Code[s].defs \subseteq DOMAIN main.id
            /\ Code[s].kind \in {"control", "expr"} =>
                   {Inlined, Opaque} \cap ToSet(Code[s].args) = {}
      /\ \A s, t \in DOMAIN Code : Code[s].defs \cap Code[t].defs # {} => s = t
  BY CompileAssumption DEF main, Code, Vars
<1>2. Len(Code) \in Nat /\ DOMAIN Code = 1..Len(Code) /\ IsFiniteSet(DOMAIN Code)
  <2>1. Len(Code) \in Nat /\ DOMAIN Code = 1..Len(Code)
    BY <1>1
  <2>2. QED
    BY <2>1, FS_Interval
<1>3. \A s \in DOMAIN Code :
         /\ Code[s].others = {}
         /\ Code[s].uses = ToSet(Code[s].args) \ {Inlined, Opaque}
  BY DEF Plain
<1>4. ASSUME NEW s \in DOMAIN Code
      PROVE  /\ ToSet(Code[s].args) \subseteq Int
             /\ Vars(s) \subseteq Nat \ {0} /\ Code[s].uses = Vars(s)
             /\ Code[s].kind \in Running => Vars(s) = ToSet(Code[s].args)
             /\ Declares(s) = Code[s].defs
  <2>1. Code[s].uses = Vars(s)
    BY <1>3 DEF Vars
  <2>2. Vars(s) \subseteq Nat \ {0}
    BY <1>1
  <2>3. ToSet(Code[s].args) \subseteq Int
    <3>1. ToSet(Code[s].args) \subseteq Vars(s) \cup {0, -1}
      BY DEF Vars, Inlined, Opaque
    <3>2. QED
      BY <2>2, <3>1
  <2>4. Code[s].kind \in Running => Vars(s) = ToSet(Code[s].args)
    BY <1>1 DEF Vars, Running
  <2>5. Declares(s) = Code[s].defs
    BY <1>3 DEF Declares
  <2>6. QED
    BY <2>1, <2>2, <2>3, <2>4, <2>5
<1>5. ASSUME NEW s \in DOMAIN Code, NEW v \in Code[s].defs
      PROVE  DeclOf(v) = s
  <2>1. {t \in DOMAIN Code : v \in Declares(t)} = {s}
    <3>1. \A t \in DOMAIN Code : v \in Code[t].defs => t = s
      <4>1. ASSUME NEW t \in DOMAIN Code, v \in Code[t].defs
            PROVE  t = s
        <5>1. v \in Code[t].defs \cap Code[s].defs
          BY <1>5, <4>1
        <5>2. QED
          BY <1>1, <1>5, <5>1
      <4>2. QED
        BY <4>1
    <3>2. QED
      BY <1>4, <1>5, <3>1
  <2>2. s \in Nat
    BY <1>2
  <2>3. Min({s}) = s
    BY <2>2 DEF Min
  <2>4. QED
    BY <2>1, <2>3 DEF DeclOf
<1>6. ASSUME NEW v, DeclOf(v) # None
      PROVE  DeclOf(v) \in DOMAIN Code /\ v \in Code[DeclOf(v)].defs
  <2>1. {s \in DOMAIN Code : v \in Declares(s)} # {}
    BY <1>6 DEF DeclOf
  <2>2. PICK s \in DOMAIN Code : v \in Declares(s)
    BY <2>1
  <2>3. v \in Code[s].defs
    BY <1>4, <2>2
  <2>4. QED
    BY <1>5, <2>3
<1>7. \A v, w \in DOMAIN main.id : Id(v) = Id(w) => v = w
  BY DEF Plain
<1>8. QED
  BY <1>1, <1>2, <1>4, <1>5, <1>6, <1>7

\* No statements rest on each other in a circle.
LEMMA NoCircle ==
    ASSUME input \in Inputs, NEW set \in SUBSET DOMAIN Code, set # {}, Plain
    PROVE  \E s \in set : Needs(s) \cap set = {}
<1>1. /\ Code = input.main.code
      /\ \A s : Vars(s) = ToSet(input.main.code[s].args) \ {Inlined, Opaque}
  BY DEF main, Code, Vars
<1>2. \A S \in (SUBSET DOMAIN input.main.code) \ {{}} :
          \E s \in S : \A t \in S :
              (ToSet(input.main.code[s].args) \ {Inlined, Opaque})
                  \cap input.main.code[t].defs = {}
  BY CompileAssumption
<1>3. set \in (SUBSET DOMAIN input.main.code) \ {{}}
  BY <1>1
<1>4. PICK s \in set : \A t \in set : Vars(s) \cap Code[t].defs = {}
  <2>1. PICK s \in set : \A t \in set :
            (ToSet(input.main.code[s].args) \ {Inlined, Opaque})
                \cap input.main.code[t].defs = {}
    BY <1>2, <1>3
  <2>2. QED
    BY <1>1, <2>1
<1>5. ASSUME NEW v \in Vars(s), DeclOf(v) \in set
      PROVE  FALSE
  <2>1. DeclOf(v) # None
    <3>1. DOMAIN Code = 1..Len(Code) /\ Len(Code) \in Nat
      BY Program
    <3>2. DeclOf(v) \in DOMAIN Code
      BY <1>5
    <3>3. QED
      BY <3>1, <3>2 DEF None
  <2>2. v \in Code[DeclOf(v)].defs
    BY <2>1, Program
  <2>3. QED
    BY <1>4, <1>5, <2>2
<1>6. QED
  BY <1>5 DEF Needs

\* What is declared at the top needs what is declared at the top.
LEMMA TopNeedsTop ==
    ASSUME input \in Inputs, Plain, NEW s \in DOMAIN Code, IsPackageScope(s),
           NEW d \in Needs(s), d # None
    PROVE  IsPackageScope(d)
<1>1. PICK v \in Vars(s) : d = DeclOf(v)
  BY DEF Needs
<1>2. d \in DOMAIN Code /\ v \in Code[d].defs
  BY <1>1, Program
<1>3. Code[d].top
  <2>1. Vars(s) \cap Code[d].defs # {} /\ Code[s].top
    BY <1>2 DEF IsPackageScope
  <2>2. QED
    BY <1>2, <2>1, CompileAssumption DEF main, Code, Vars
<1>4. Code[d].kind = "decl"
  BY <1>2, <1>3, CompileAssumption DEF main, Code
<1>5. Code[d].file = 1
  BY <1>2, <1>3 DEF Plain
<1>6. QED
  BY <1>3, <1>4, <1>5 DEF IsPackageScope

\* The program of an application does not change.
LEMMA SameProgram ==
    ASSUME input' = input
    PROVE  /\ Code' = Code /\ main' = main /\ Executable' = Executable
           /\ \A v : DeclOf(v)' = DeclOf(v) /\ Id(v)' = Id(v)
           /\ \A s : Vars(s)' = Vars(s) /\ Needs(s)' = Needs(s)
           /\ \A s : Before(s)' = Before(s) /\ (IsPackageScope(s)' <=> IsPackageScope(s))
           /\ \A t : Behind(t)' = Behind(t) /\ (Closed(t)' <=> Closed(t))
           /\ \A f : FrameOK(f)' <=> FrameOK(f)
           /\ \A s, t : Touches(s, t)' <=> Touches(s, t)
           /\ (Plain' <=> Plain) /\ Frames' = Frames
<1>1. Code' = Code /\ main' = main
  BY DEF Code, main
<1>2. Executable' = Executable
  BY <1>1 DEF Executable
<1>3. \A v : DeclOf(v)' = DeclOf(v) /\ Id(v)' = Id(v)
  BY <1>1 DEF DeclOf, Declares, Id
<1>4. \A s : Vars(s)' = Vars(s)
  BY <1>1 DEF Vars
<1>5. \A s : Needs(s)' = Needs(s)
  BY <1>3, <1>4 DEF Needs
<1>6. \A s : Before(s)' = Before(s) /\ (IsPackageScope(s)' <=> IsPackageScope(s))
  BY <1>1, <1>2 DEF Before, IsPackageScope
<1>7. \A t : Closed(t)' <=> Closed(t)
  BY <1>1, <1>3 DEF Closed
<1>8. \A t : Behind(t)' = Behind(t)
  BY <1>1, <1>7 DEF Behind
<1>9. \A f : FrameOK(f)' <=> FrameOK(f)
  BY <1>1, <1>3, <1>4, <1>5 DEF FrameOK
<1>10. \A s, t : Touches(s, t)' <=> Touches(s, t)
  BY <1>1, <1>3 DEF Touches
<1>11. Plain' <=> Plain
  BY <1>1, <1>3 DEF Plain
<1>12. Frames' = Frames
  BY <1>1 DEF Frames
<1>13. QED
  BY <1>1, <1>2, <1>3, <1>4, <1>5, <1>6, <1>7, <1>8, <1>9, <1>10, <1>11, <1>12

-----------------------------------------------------------------------------
(* The parts of a step.                                                    *)

LEMMA TailKeeps ==
    ASSUME NEW S, NEW seq \in Seq(S), seq # <<>>
    PROVE  /\ Tail(seq) \in Seq(S) /\ Len(Tail(seq)) = Len(seq) - 1 /\ Len(seq) \in Nat \ {0}
           /\ Head(seq) \in S /\ Head(seq) = seq[1]
           /\ \A i \in DOMAIN Tail(seq) : i + 1 \in DOMAIN seq /\ Tail(seq)[i] = seq[i + 1]
           /\ ToSet(seq) = {Head(seq)} \cup ToSet(Tail(seq))
           /\ Distinct(seq) => Distinct(Tail(seq)) /\ Head(seq) \notin ToSet(Tail(seq))
<1>1. /\ Tail(seq) \in Seq(S) /\ Len(Tail(seq)) = Len(seq) - 1 /\ Len(seq) \in Nat \ {0}
      /\ Head(seq) = seq[1] /\ DOMAIN seq = 1..Len(seq)
      /\ DOMAIN Tail(seq) = 1..(Len(seq) - 1)
      /\ \A i \in 1..(Len(seq) - 1) : Tail(seq)[i] = seq[i + 1]
  OBVIOUS
<1>2. PICK n \in Nat \ {0} : n = Len(seq)
  BY <1>1
<1>3. PICK rest : rest = Tail(seq)
  OBVIOUS
<1>4. /\ DOMAIN rest = 1..(n - 1) /\ DOMAIN seq = 1..n
      /\ \A i \in 1..(n - 1) : i + 1 \in 1..n /\ rest[i] = seq[i + 1]
      /\ \A i \in 1..n : i = 1 \/ i - 1 \in 1..(n - 1)
      /\ \A i \in 1..n : i # 1 => rest[i - 1] = seq[i]
  BY <1>1, <1>2, <1>3
<1>5. ToSet(seq) = {seq[1]} \cup ToSet(rest)
  <2>1. ToSet(rest) \subseteq ToSet(seq)
    <3>1. \A i \in DOMAIN rest : rest[i] \in ToSet(seq)
      <4>1. ASSUME NEW i \in DOMAIN rest
            PROVE  rest[i] \in ToSet(seq)
        <5>1. i + 1 \in DOMAIN seq /\ rest[i] = seq[i + 1]
          BY <1>4
        <5>2. QED
          BY <5>1 DEF ToSet
      <4>2. QED
        BY <4>1
    <3>2. QED
      BY <3>1 DEF ToSet
  <2>2. seq[1] \in ToSet(seq)
    BY <1>2, <1>4 DEF ToSet
  <2>3. ASSUME NEW i \in 1..n
        PROVE  seq[i] \in {seq[1]} \cup ToSet(rest)
    <3>1. CASE i = 1
      BY <3>1
    <3>2. CASE i # 1
      <4>1. i - 1 \in DOMAIN rest /\ rest[i - 1] = seq[i]
        BY <1>4, <3>2
      <4>2. QED
        BY <4>1 DEF ToSet
    <3>3. QED
      BY <3>1, <3>2
  <2>4. ToSet(seq) \subseteq {seq[1]} \cup ToSet(rest)
    BY <1>4, <2>3 DEF ToSet
  <2>5. QED
    BY <2>1, <2>2, <2>4
<1>6. Distinct(seq) => Distinct(rest) /\ seq[1] \notin ToSet(rest)
  <2>1. SUFFICES ASSUME Distinct(seq)
                 PROVE  Distinct(rest) /\ seq[1] \notin ToSet(rest)
    OBVIOUS
  <2>2. ASSUME NEW i \in 1..(n - 1), NEW j \in 1..(n - 1), rest[i] = rest[j]
        PROVE  i = j
    <3>1. seq[i + 1] = seq[j + 1] /\ i + 1 \in DOMAIN seq /\ j + 1 \in DOMAIN seq
      BY <1>4, <2>2
    <3>2. i + 1 = j + 1
      BY <2>1, <3>1 DEF Distinct
    <3>3. QED
      BY <3>2
  <2>3. ASSUME NEW i \in 1..(n - 1), rest[i] = seq[1]
        PROVE  FALSE
    <3>1. seq[i + 1] = seq[1] /\ i + 1 \in DOMAIN seq /\ 1 \in DOMAIN seq /\ i + 1 # 1
      BY <1>2, <1>4, <2>3
    <3>2. QED
      BY <2>1, <3>1 DEF Distinct
  <2>4. QED
    BY <1>4, <2>2, <2>3 DEF Distinct, ToSet
<1>7. QED
  BY <1>1, <1>2, <1>3, <1>4, <1>5, <1>6

LEMMA AppendKeeps ==
    ASSUME NEW S, NEW seq \in Seq(S), NEW x \in S
    PROVE  /\ Append(seq, x) \in Seq(S) /\ Len(Append(seq, x)) = Len(seq) + 1
           /\ Len(seq) \in Nat
           /\ \A i \in DOMAIN seq : i \in DOMAIN Append(seq, x) /\ Append(seq, x)[i] = seq[i]
           /\ ToSet(Append(seq, x)) = ToSet(seq) \cup {x}
           /\ Distinct(seq) /\ x \notin ToSet(seq) => Distinct(Append(seq, x))
<1>1. PICK longer : longer = Append(seq, x)
  OBVIOUS
<1>2. PICK n \in Nat : n = Len(seq)
  OBVIOUS
<1>3. /\ longer \in Seq(S) /\ DOMAIN longer = 1..(n + 1) /\ DOMAIN seq = 1..n
      /\ Len(longer) = n + 1 /\ longer[n + 1] = x
      /\ \A i \in 1..n : i \in 1..(n + 1) /\ longer[i] = seq[i]
      /\ \A i \in 1..(n + 1) : i \in 1..n \/ i = n + 1
  BY <1>1, <1>2
<1>4. ToSet(longer) = ToSet(seq) \cup {x}
  <2>1. ToSet(seq) \subseteq ToSet(longer)
    BY <1>3 DEF ToSet
  <2>2. n + 1 \in DOMAIN longer
    BY <1>2, <1>3
  <2>3. x \in ToSet(longer)
    BY <1>3, <2>2 DEF ToSet
  <2>4. \A i \in DOMAIN longer : longer[i] \in ToSet(seq) \cup {x}
    BY <1>3 DEF ToSet
  <2>5. ToSet(longer) \subseteq ToSet(seq) \cup {x}
    BY <2>4 DEF ToSet
  <2>6. QED
    BY <2>1, <2>3, <2>5
<1>5. Distinct(seq) /\ x \notin ToSet(seq) => Distinct(longer)
  <2>1. SUFFICES ASSUME Distinct(seq), \A i \in 1..n : seq[i] # x,
                        NEW i \in 1..(n + 1), NEW j \in 1..(n + 1), longer[i] = longer[j]
                 PROVE  i = j
    BY <1>3 DEF Distinct, ToSet
  <2>2. CASE i \in 1..n /\ j \in 1..n
    BY <1>3, <2>1, <2>2 DEF Distinct
  <2>3. CASE i = n + 1 \/ j = n + 1
    BY <1>3, <2>1, <2>3
  <2>4. QED
    BY <1>3, <2>2, <2>3
<1>6. QED
  BY <1>1, <1>2, <1>3, <1>4, <1>5

\* The first places of what a sequence has.
LEMMA OnceKeeps ==
    ASSUME NEW S, NEW seq \in Seq(S)
    PROVE  /\ Once(seq) \in Seq(S) /\ ToSet(Once(seq)) = ToSet(seq) /\ Distinct(Once(seq))
           /\ seq = <<>> => Once(seq) = <<>>
<1> DEFINE firsts == {p \in DOMAIN seq : \A j \in 1..(p - 1) : seq[j] # seq[p]}
           n == Cardinality(firsts)
           A == Ascending(firsts)
<1>1. Once(seq) = Pick(seq, firsts) /\ firsts \subseteq DOMAIN seq
  BY DEF Once
<1>2. DOMAIN seq = 1..Len(seq) /\ Len(seq) \in Nat
  OBVIOUS
<1>3. \A p, q \in firsts : seq[p] = seq[q] => p = q
  <2>1. ASSUME NEW p \in firsts, NEW q \in firsts, p < q
        PROVE  seq[p] # seq[q]
    <3>1. p \in 1..(q - 1)
      BY <1>2, <2>1
    <3>2. QED
      BY <3>1
  <2>2. \A p, q \in firsts : p \in Nat /\ q \in Nat
    BY <1>2
  <2>3. \A p, q \in firsts : p < q \/ q < p \/ p = q
    BY <2>2
  <2>4. QED
    BY <2>1, <2>3
<1>4. \A i \in DOMAIN seq : \E p \in firsts : seq[p] = seq[i]
  <2>1. TAKE i \in DOMAIN seq
  <2> DEFINE same == {j \in DOMAIN seq : seq[j] = seq[i]}
  <2>2. same \subseteq Nat /\ same # {}
    BY <1>2
  <2>3. PICK p \in same : \A j \in same : p <= j
    <3> HIDE DEF same
    <3>1. QED
      BY <2>2, Least
  <2>4. p \in DOMAIN seq /\ seq[p] = seq[i]
    BY <2>3
  <2>5. \A j \in 1..(p - 1) : seq[j] # seq[p]
    <3>1. ASSUME NEW j \in 1..(p - 1), seq[j] = seq[p]
          PROVE  FALSE
      <4>1. j \in DOMAIN seq /\ ~(p <= j)
        BY <1>2, <2>4
      <4>2. j \in same
        BY <2>4, <3>1, <4>1
      <4>3. QED
        BY <2>3, <4>1, <4>2
    <3>2. QED
      BY <3>1
  <2>6. QED
    BY <2>4, <2>5
<1> HIDE DEF firsts, n, A
<1>5. /\ Pick(seq, firsts) \in Seq(S) /\ n \in Nat
      /\ Len(Pick(seq, firsts)) = n /\ ToSet(Pick(seq, firsts)) = {seq[p] : p \in firsts}
      /\ \A i \in 1..n : A[i] \in firsts /\ Pick(seq, firsts)[i] = seq[A[i]]
      /\ \A i, j \in 1..n : i < j => A[i] < A[j]
  BY <1>1, PickLists DEF n, A
<1>6. ToSet(Once(seq)) = ToSet(seq)
  <2>1. \A p \in firsts : seq[p] \in ToSet(seq)
    BY <1>1 DEF ToSet
  <2>2. \A i \in DOMAIN seq : seq[i] \in {seq[p] : p \in firsts}
    BY <1>4
  <2>3. ToSet(seq) \subseteq {seq[p] : p \in firsts}
    BY <2>2 DEF ToSet
  <2>4. {seq[p] : p \in firsts} \subseteq ToSet(seq)
    BY <2>1
  <2>5. QED
    BY <1>1, <1>5, <2>3, <2>4
<1>7. Distinct(Once(seq))
  <2>1. ASSUME NEW i \in 1..n, NEW j \in 1..n, i < j
        PROVE  Once(seq)[i] # Once(seq)[j]
    <3>1. A[i] < A[j] /\ A[i] \in firsts /\ A[j] \in firsts
      BY <1>5, <2>1
    <3>2. A[i] \in Nat /\ A[j] \in Nat
      BY <1>1, <1>2, <3>1
    <3>3. A[i] # A[j]
      BY <3>1, <3>2
    <3>4. QED
      BY <1>1, <1>3, <1>5, <3>1, <3>3
  <2>2. DOMAIN Once(seq) = 1..n
    BY <1>1, <1>5
  <2>3. ASSUME NEW i \in 1..n, NEW j \in 1..n, Once(seq)[i] = Once(seq)[j]
        PROVE  i = j
    <3>1. ~(i < j) /\ ~(j < i)
      BY <2>1, <2>3
    <3>2. QED
      BY <1>5, <3>1
  <2>4. QED
    BY <2>2, <2>3 DEF Distinct
<1>8. seq = <<>> => Once(seq) = <<>>
  <2>1. SUFFICES ASSUME seq = <<>> PROVE Once(seq) = <<>>
    OBVIOUS
  <2>2. ToSet(Once(seq)) = {} /\ Once(seq) \in Seq(S)
    BY <1>1, <1>5, <1>6, <2>1 DEF ToSet
  <2>3. QED
    <3>1. PICK o \in Seq(S) : o = Once(seq)
      BY <2>2
    <3>2. o # <<>> => 1 \in DOMAIN o
      OBVIOUS
    <3>3. QED
      BY <2>2, <3>1, <3>2 DEF ToSet
<1>9. QED
  BY <1>1, <1>5, <1>6, <1>7, <1>8

\* The variables of a statement of the second pass, each once.
LEMMA ByIdKeeps ==
    ASSUME input \in Inputs, Plain, NEW s \in DOMAIN Code, Code[s].kind \in Running
    PROVE  /\ ById(Code[s].args) \in Seq(ToSet(Code[s].args))
           /\ ToSet(ById(Code[s].args)) = Vars(s)
<1>1. PICK vs : vs = Code[s].args
  OBVIOUS
<1>2. /\ vs \in Seq(ToSet(vs)) /\ ToSet(vs) = Vars(s) /\ Vars(s) \subseteq DOMAIN main.id
      /\ \A v, w \in DOMAIN main.id : Id(v) = Id(w) => v = w
  BY <1>1, Program
<1>3. DOMAIN vs = 1..Len(vs) /\ Len(vs) \in Nat /\ \A i \in DOMAIN vs : vs[i] \in DOMAIN main.id
  BY <1>2 DEF ToSet
<1>4. \A i, j \in DOMAIN vs : Id(vs[i]) = Id(vs[j]) <=> vs[i] = vs[j]
  BY <1>2, <1>3
<1>5. \A p \in DOMAIN vs : \A j \in 1..(p - 1) : j \in DOMAIN vs
  BY <1>3
<1>6. {p \in DOMAIN vs : \A j \in 1..(p - 1) : Id(vs[j]) # Id(vs[p])}
      = {p \in DOMAIN vs : \A j \in 1..(p - 1) : vs[j] # vs[p]}
  BY <1>4, <1>5
<1>7. ById(vs) = Once(vs)
  BY <1>6 DEF ById, Once
<1>8. QED
  BY <1>1, <1>2, <1>7, OnceKeeps

\* The statements that run, in order.
LEMMA ExecutableLists ==
    ASSUME input \in Inputs, Plain
    PROVE  /\ Executable \in Seq(DOMAIN Code) /\ Len(Executable) \in Nat
           /\ DOMAIN Executable = 1..Len(Executable)
           /\ \A i, j \in DOMAIN Executable : i < j => Executable[i] < Executable[j]
           /\ Distinct(Executable)
<1> DEFINE all == {s \in DOMAIN Code : Code[s].exec}
<1>1. all \subseteq Nat /\ IsFiniteSet(all)
  BY Program, FS_Subset
<1>2. Executable = Ascending(all)
  BY DEF Executable
<1>3. all \subseteq DOMAIN Code
  OBVIOUS
<1> HIDE DEF all
<1>4. /\ Executable \in Seq(all) /\ Len(Executable) = Cardinality(all)
      /\ Cardinality(all) \in Nat
      /\ \A i, j \in 1..Cardinality(all) : i < j => Executable[i] < Executable[j]
  BY <1>1, <1>2, AscendingLists
<1>5. PICK e \in Seq(all) : e = Executable
  BY <1>4
<1>6. /\ e \in Seq(DOMAIN Code) /\ Len(e) \in Nat /\ DOMAIN e = 1..Len(e)
      /\ \A i \in DOMAIN e : e[i] \in Nat
  <2>1. Len(e) \in Nat /\ DOMAIN e = 1..Len(e) /\ \A i \in DOMAIN e : e[i] \in all
    BY <1>5
  <2>2. e \in Seq(DOMAIN Code)
    BY <1>3, <1>5
  <2>3. QED
    BY <1>1, <2>1, <2>2
<1>7. \A i, j \in DOMAIN e : i < j => e[i] < e[j]
  BY <1>4, <1>5, <1>6
<1>8. Distinct(e)
  <2>1. ASSUME NEW i \in DOMAIN e, NEW j \in DOMAIN e, e[i] = e[j]
        PROVE  i = j
    <3>1. ~(e[i] < e[j]) /\ ~(e[j] < e[i])
      BY <1>6, <2>1
    <3>2. ~(i < j) /\ ~(j < i)
      BY <1>7, <3>1
    <3>3. i \in Nat /\ j \in Nat
      BY <1>6
    <3>4. QED
      BY <3>2, <3>3
  <2>2. QED
    BY <2>1 DEF Distinct
<1>9. QED
  BY <1>5, <1>6, <1>7, <1>8

\* The frame of a declaration, and of a statement of the second pass.
LEMMA NewFrame ==
    ASSUME input \in Inputs, Plain, NEW s \in DOMAIN Code, Code[s].kind \in Declaring
    PROVE  LET f == Frame(s, Code[s].args)
           IN  FrameOK(f) /\ f \in Frames /\ f.stmt = s /\ f.got = <<>>
<1>1. PICK f : f = Frame(s, Code[s].args)
  OBVIOUS
<1>2. f.stmt = s /\ f.todo = Code[s].args /\ f.got = <<>>
  BY <1>1 DEF Frame
<1>3. /\ Code[s].args \in Seq(ToSet(Code[s].args)) /\ ToSet(Code[s].args) \subseteq Int
      /\ Vars(s) \subseteq Nat \ {0} /\ Vars(s) \subseteq ToSet(Code[s].args)
  BY Program DEF Vars
<1>4. f \in Frames
  <2>1. Code[s].args \in Seq(Int)
    BY <1>3
  <2>2. <<>> \in Seq(DOMAIN Code)
    OBVIOUS
  <2>3. QED
    BY <1>1, <2>1, <2>2 DEF Frame, Frames
<1>5. FrameOK(f)
  <2>1. f.got \in Seq(Needs(s)) /\ Distinct(f.got) /\ ToSet(f.got) = {}
    BY <1>2 DEF Distinct, ToSet
  <2>2. \A i, j \in DOMAIN f.todo :
           f.todo[i] \in Vars(s) /\ f.todo[j] \in Vars(s) /\ i # j =>
               DeclOf(f.todo[i]) # DeclOf(f.todo[j])
    <3>1. ASSUME NEW i \in DOMAIN Code[s].args, NEW j \in DOMAIN Code[s].args, j # i,
                 Code[s].args[i] \in Vars(s), Code[s].args[j] \in Vars(s)
          PROVE  DeclOf(Code[s].args[i]) # DeclOf(Code[s].args[j])
      <4>1. Code[s].args[i] > 0 /\ Code[s].args[j] > 0
        BY <1>3, <3>1
      <4>2. QED
        BY <3>1, <4>1 DEF Plain, Declaring
    <3>2. QED
      BY <1>2, <3>1
  <2>3. QED
    BY <1>2, <1>3, <2>1, <2>2 DEF FrameOK
<1>6. QED
  BY <1>1, <1>2, <1>4, <1>5

LEMMA NewUser ==
    ASSUME input \in Inputs, Plain, NEW s \in DOMAIN Code, Code[s].kind \in Running
    PROVE  LET f == Frame(s, ById(Code[s].args))
           IN  FrameOK(f) /\ f \in Frames /\ f.stmt = s /\ f.got = <<>>
<1>1. PICK f : f = Frame(s, ById(Code[s].args))
  OBVIOUS
<1>2. f.stmt = s /\ f.todo = ById(Code[s].args) /\ f.got = <<>>
  BY <1>1 DEF Frame
<1>3. /\ ById(Code[s].args) \in Seq(ToSet(Code[s].args)) /\ ToSet(Code[s].args) \subseteq Int
      /\ ToSet(ById(Code[s].args)) = Vars(s)
  BY Program, ByIdKeeps
<1>4. f \in Frames
  <2>1. ById(Code[s].args) \in Seq(Int)
    BY <1>3
  <2>2. <<>> \in Seq(DOMAIN Code)
    OBVIOUS
  <2>3. QED
    BY <1>1, <2>1, <2>2 DEF Frame, Frames
<1>5. FrameOK(f)
  <2>1. f.got \in Seq(Needs(s))
    BY <1>2
  <2>2. Code[s].kind \notin Declaring
    BY DEF Declaring, Running
  <2>3. QED
    BY <1>2, <1>3, <2>1, <2>2 DEF FrameOK
<1>6. QED
  BY <1>1, <1>2, <1>4, <1>5

\* A frame goes on to its next argument: one that is inlined, or a variable.
Passing(f) == [f EXCEPT !.todo = Tail(@)]
Taking(f, d) == [f EXCEPT !.todo = Tail(@), !.got = Append(@, d)]

LEMMA FrameInlined ==
    ASSUME NEW f \in Frames, FrameOK(f), f.todo # <<>>, Head(f.todo) \notin Vars(f.stmt)
    PROVE  /\ FrameOK(Passing(f)) /\ Passing(f) \in Frames
           /\ Passing(f).stmt = f.stmt /\ Passing(f).got = f.got
<1>1. PICK g : g = Passing(f)
  OBVIOUS
<1>2. PICK s \in DOMAIN Code, todo \in Seq(Int), got \in Seq(DOMAIN Code) :
         f = [stmt |-> s, todo |-> todo, got |-> got]
  BY DEF Frames
<1>3. g = [stmt |-> s, todo |-> Tail(todo), got |-> got] /\ todo # <<>> /\ Head(todo) \notin Vars(s)
  BY <1>1, <1>2 DEF Passing
<1>4. todo \in Seq(ToSet(Code[s].args))
  BY <1>2 DEF FrameOK
<1>5. /\ Tail(todo) \in Seq(ToSet(Code[s].args)) /\ Tail(todo) \in Seq(Int)
      /\ ToSet(todo) = {Head(todo)} \cup ToSet(Tail(todo))
      /\ \A i \in DOMAIN Tail(todo) : i + 1 \in DOMAIN todo /\ Tail(todo)[i] = todo[i + 1]
  BY <1>3, <1>4, TailKeeps
<1>6. /\ got \in Seq(Needs(s)) /\ Code[s].kind \in Declaring \cup Running
      /\ \A v \in Vars(s) : v \in ToSet(todo) \/ DeclOf(v) \in ToSet(got)
  BY <1>2 DEF FrameOK
<1>7. \A v \in Vars(s) : v \in ToSet(Tail(todo)) \/ DeclOf(v) \in ToSet(got)
  BY <1>3, <1>5, <1>6
<1>8. ASSUME Code[s].kind \in Declaring
      PROVE  /\ Distinct(got)
             /\ \A i \in DOMAIN Tail(todo) : Tail(todo)[i] \in Vars(s) =>
                   /\ DeclOf(Tail(todo)[i]) \notin ToSet(got)
                   /\ \A j \in DOMAIN Tail(todo) : Tail(todo)[j] \in Vars(s) /\ j # i =>
                         DeclOf(Tail(todo)[i]) # DeclOf(Tail(todo)[j])
  <2>1. /\ Distinct(got)
        /\ \A i \in DOMAIN todo : todo[i] \in Vars(s) =>
              /\ DeclOf(todo[i]) \notin ToSet(got)
              /\ \A j \in DOMAIN todo : todo[j] \in Vars(s) /\ j # i =>
                    DeclOf(todo[i]) # DeclOf(todo[j])
    BY <1>2, <1>8 DEF FrameOK
  <2>2. \A i \in DOMAIN Tail(todo) : i \in Int
    BY <1>5
  <2>3. \A i, j \in DOMAIN Tail(todo) : i # j => i + 1 # j + 1
    BY <2>2
  <2>4. QED
    BY <1>5, <2>1, <2>3
<1>9. FrameOK(g)
  BY <1>3, <1>5, <1>6, <1>7, <1>8 DEF FrameOK
<1>10. g \in Frames
  BY <1>3, <1>5 DEF Frames
<1>11. QED
  BY <1>1, <1>2, <1>3, <1>9, <1>10

LEMMA FrameTakes ==
    ASSUME NEW f \in Frames, FrameOK(f), f.todo # <<>>, Head(f.todo) \in Vars(f.stmt),
           NEW d \in DOMAIN Code, d = DeclOf(Head(f.todo))
    PROVE  /\ FrameOK(Taking(f, d)) /\ Taking(f, d) \in Frames
           /\ Taking(f, d).stmt = f.stmt /\ ToSet(Taking(f, d).got) = ToSet(f.got) \cup {d}
<1>1. PICK g : g = Taking(f, d)
  OBVIOUS
<1>2. PICK s \in DOMAIN Code, todo \in Seq(Int), got \in Seq(DOMAIN Code) :
         f = [stmt |-> s, todo |-> todo, got |-> got]
  BY DEF Frames
<1>3. /\ g = [stmt |-> s, todo |-> Tail(todo), got |-> Append(got, d)]
      /\ todo # <<>> /\ Head(todo) \in Vars(s) /\ d = DeclOf(Head(todo))
  BY <1>1, <1>2 DEF Taking
<1>4. todo \in Seq(ToSet(Code[s].args))
  BY <1>2 DEF FrameOK
<1>5. /\ Tail(todo) \in Seq(ToSet(Code[s].args)) /\ Tail(todo) \in Seq(Int)
      /\ ToSet(todo) = {Head(todo)} \cup ToSet(Tail(todo))
      /\ Head(todo) = todo[1] /\ Len(todo) \in Nat \ {0}
      /\ \A i \in DOMAIN Tail(todo) : i + 1 \in DOMAIN todo /\ Tail(todo)[i] = todo[i + 1]
  BY <1>3, <1>4, TailKeeps
<1>6. /\ got \in Seq(Needs(s)) /\ Code[s].kind \in Declaring \cup Running
      /\ \A v \in Vars(s) : v \in ToSet(todo) \/ DeclOf(v) \in ToSet(got)
  BY <1>2 DEF FrameOK
<1>7. d \in Needs(s)
  BY <1>3 DEF Needs
<1>8. /\ Append(got, d) \in Seq(Needs(s)) /\ Append(got, d) \in Seq(DOMAIN Code)
      /\ ToSet(Append(got, d)) = ToSet(got) \cup {d}
      /\ Distinct(got) /\ d \notin ToSet(got) => Distinct(Append(got, d))
  BY <1>6, <1>7, AppendKeeps
<1>9. \A v \in Vars(s) : v \in ToSet(Tail(todo)) \/ DeclOf(v) \in ToSet(Append(got, d))
  BY <1>3, <1>5, <1>6, <1>8
<1>10. ASSUME Code[s].kind \in Declaring
       PROVE  /\ Distinct(Append(got, d))
              /\ \A i \in DOMAIN Tail(todo) : Tail(todo)[i] \in Vars(s) =>
                    /\ DeclOf(Tail(todo)[i]) \notin ToSet(Append(got, d))
                    /\ \A j \in DOMAIN Tail(todo) : Tail(todo)[j] \in Vars(s) /\ j # i =>
                          DeclOf(Tail(todo)[i]) # DeclOf(Tail(todo)[j])
  <2>1. /\ Distinct(got)
        /\ \A i \in DOMAIN todo : todo[i] \in Vars(s) =>
              /\ DeclOf(todo[i]) \notin ToSet(got)
              /\ \A j \in DOMAIN todo : todo[j] \in Vars(s) /\ j # i =>
                    DeclOf(todo[i]) # DeclOf(todo[j])
    BY <1>2, <1>10 DEF FrameOK
  <2>2. \A i \in DOMAIN Tail(todo) : i \in Nat \ {0}
    <3>1. DOMAIN Tail(todo) = 1..Len(Tail(todo))
      BY <1>5
    <3>2. QED
      BY <3>1
  <2>3. \A i, j \in DOMAIN Tail(todo) : i # j => i + 1 # j + 1
    BY <2>2
  <2>4. 1 \in DOMAIN todo /\ todo[1] \in Vars(s) /\ d = DeclOf(todo[1])
    BY <1>3, <1>5
  <2>5. \A i \in DOMAIN Tail(todo) : i + 1 # 1
    BY <2>2
  <2>6. d \notin ToSet(got)
    BY <2>1, <2>4
  <2>7. \A i \in DOMAIN Tail(todo) : Tail(todo)[i] \in Vars(s) =>
           DeclOf(Tail(todo)[i]) \notin ToSet(got) /\ DeclOf(Tail(todo)[i]) # d
    BY <1>5, <2>1, <2>4, <2>5
  <2>8. \A i, j \in DOMAIN Tail(todo) :
           Tail(todo)[i] \in Vars(s) /\ Tail(todo)[j] \in Vars(s) /\ j # i =>
               DeclOf(Tail(todo)[i]) # DeclOf(Tail(todo)[j])
    BY <1>5, <2>1, <2>3
  <2>9. QED
    BY <1>8, <2>1, <2>6, <2>7, <2>8
<1>11. FrameOK(g)
  BY <1>3, <1>5, <1>6, <1>8, <1>9, <1>10 DEF FrameOK
<1>12. g \in Frames
  BY <1>3, <1>5, <1>8 DEF Frames
<1>13. g.stmt = f.stmt /\ ToSet(g.got) = ToSet(f.got) \cup {d}
  BY <1>2, <1>3, <1>8
<1>14. QED
  BY <1>1, <1>11, <1>12, <1>13

-----------------------------------------------------------------------------
(* The steps that resolve.                                                 *)

\* A variable that is known is known by its declaration.
LEMMA KnownByDecl ==
    ASSUME input \in Inputs, Plain, DepsOK, ResolvedOK, NEW v \in DOMAIN main.id
    PROVE  /\ Id(v) \in DOMAIN resolved => DeclOf(v) \in Decls /\ resolved[Id(v)] = DeclOf(v)
           /\ DeclOf(v) \in Decls => Id(v) \in DOMAIN resolved
<1>1. Decls \subseteq DOMAIN Code
  BY DEF DepsOK, Decls, ToSet
<1>2. ASSUME Id(v) \in DOMAIN resolved
      PROVE  DeclOf(v) \in Decls /\ resolved[Id(v)] = DeclOf(v)
  <2>1. PICK d \in Decls : \E w \in Code[d].defs : Id(w) = Id(v)
    BY <1>2 DEF ResolvedOK
  <2>2. PICK w \in Code[d].defs : Id(w) = Id(v)
    BY <2>1
  <2>3. w \in DOMAIN main.id /\ DeclOf(w) = d
    BY <1>1, <2>1, <2>2, Program
  <2>4. w = v
    BY <2>2, <2>3, Program
  <2>5. QED
    BY <2>1, <2>2, <2>3, <2>4 DEF ResolvedOK
<1>3. ASSUME DeclOf(v) \in Decls
      PROVE  Id(v) \in DOMAIN resolved
  <2>1. DeclOf(v) # None
    <3>1. DOMAIN Code = 1..Len(Code) /\ Len(Code) \in Nat
      BY Program
    <3>2. QED
      BY <1>1, <1>3, <3>1 DEF None
  <2>2. v \in Code[DeclOf(v)].defs
    BY <2>1, Program
  <2>3. QED
    BY <1>3, <2>2 DEF ResolvedOK
<1>4. QED
  BY <1>2, <1>3

\* What comes of the next argument: the plan is refused, or the argument has no
\* declaration to find, or one that is known, or a new one.
LEMMA ResolveCases ==
    ASSUME input \in Inputs, Plain, PlanOK, ResolveExpr
    PROVE  /\ UNCHANGED <<input, prereqs, at, degree, ready, order>>
           /\ step \in {"resolve", "use"} /\ stack # <<>> /\ stack[1].todo # <<>>
           /\ \/ step' \notin Busy
              \/ /\ UNCHANGED <<step, deps, resolved>>
                 /\ Head(stack[1].todo) \notin Vars(stack[1].stmt)
                 /\ stack' = [stack EXCEPT ![1] = Passing(@)]
              \/ /\ UNCHANGED <<step, deps, resolved>>
                 /\ Head(stack[1].todo) \in Vars(stack[1].stmt)
                 /\ DeclOf(Head(stack[1].todo)) \in Decls
                 /\ stack' = [stack EXCEPT ![1] = Taking(@, DeclOf(Head(stack[1].todo)))]
              \/ /\ UNCHANGED step
                 /\ Head(stack[1].todo) \in Vars(stack[1].stmt)
                 /\ \E s \in DOMAIN Code :
                       /\ s = DeclOf(Head(stack[1].todo)) /\ s \notin ToSet(deps)
                       /\ Code[s].kind \in Declaring /\ OpenStmt(s)
<1> DEFINE f == stack[1]
           x == Head(f.todo)
           s == IF x > 0 THEN DeclOf(x) ELSE None
           how == IF s = None THEN "unsupported" ELSE Outcome(s, DOMAIN resolved)
<1>1. /\ UNCHANGED <<input, prereqs, at, degree, ready, order>>
      /\ step \in {"resolve", "use"} /\ stack # <<>> /\ f.todo # <<>>
  BY DEF ResolveExpr
<1>2. /\ DepsOK /\ ResolvedOK /\ stack \in Seq(Frames)
      /\ 1 \in DOMAIN stack /\ f \in Frames /\ FrameOK(f)
  <2>1. stack \in Seq(Frames) /\ \A j \in DOMAIN stack : FrameOK(stack[j])
    BY DEF PlanOK, StackOK
  <2>2. 1 \in DOMAIN stack /\ f \in Frames
    BY <1>1, <2>1
  <2>3. QED
    BY <2>1, <2>2 DEF PlanOK
<1>3. /\ f.stmt \in DOMAIN Code /\ x \in ToSet(Code[f.stmt].args)
  <2>1. f.todo \in Seq(ToSet(Code[f.stmt].args)) /\ f.stmt \in DOMAIN Code
    BY <1>2 DEF FrameOK
  <2>2. QED
    BY <1>1, <2>1, TailKeeps
<1>4. /\ x \in Vars(f.stmt) \/ x = Inlined \/ x = Opaque
      /\ x \in Vars(f.stmt) => x > 0 /\ x \in DOMAIN main.id /\ x # Inlined /\ x # Opaque
      /\ x \notin Vars(f.stmt) => ~(x > 0)
  <2>1. x \in Vars(f.stmt) \/ x = Inlined \/ x = Opaque
    BY <1>3 DEF Vars
  <2>2. x \in Vars(f.stmt) => x \in Nat \ {0} /\ x \in DOMAIN main.id
    BY <1>3, Program
  <2>3. QED
    BY <2>1, <2>2 DEF Inlined, Opaque
<1>5. CASE x = Inlined
  <2>1. ~(x > 0) /\ x # Opaque
    BY <1>5 DEF Inlined, Opaque
  <2>2. Take(None)
    BY <1>5, <2>1 DEF ResolveExpr
  <2>3. stack' = [stack EXCEPT ![1] = Passing(@)]
    BY <2>2, <1>2 DEF Take, Passing, Frames
  <2>4. x \notin Vars(f.stmt)
    BY <1>4, <1>5
  <2>5. QED
    BY <1>1, <2>2, <2>3, <2>4 DEF Take
<1>6. CASE x = Opaque
  <2>1. Refused("unsupported")
    BY <1>6 DEF ResolveExpr, Inlined, Opaque
  <2>2. step' \notin Busy
    BY <2>1 DEF Refused, Busy
  <2>3. QED
    BY <1>1, <2>2
<1>7. CASE x \in Vars(f.stmt) /\ Id(x) \in DOMAIN resolved
  <2>1. x > 0 /\ x # Inlined /\ x # Opaque
    BY <1>4, <1>7
  <2>2. Take(resolved[Id(x)])
    BY <1>7, <2>1 DEF ResolveExpr
  <2>3. DeclOf(x) \in Decls /\ resolved[Id(x)] = DeclOf(x)
    BY <1>2, <1>4, <1>7, KnownByDecl
  <2>4. DeclOf(x) # None
    <3>1. DOMAIN Code = 1..Len(Code) /\ Len(Code) \in Nat
      BY Program
    <3>2. DeclOf(x) \in DOMAIN Code
      BY <1>2, <2>3 DEF DepsOK, Decls, ToSet
    <3>3. QED
      BY <3>1, <3>2 DEF None
  <2>5. PICK d : d = DeclOf(x)
    OBVIOUS
  <2>6. Take(d) /\ d # None
    BY <2>2, <2>3, <2>4, <2>5
  <2>7. stack' = [stack EXCEPT ![1] = Taking(@, d)]
    BY <2>6, <1>2 DEF Take, Taking, Frames
  <2>8. QED
    BY <1>1, <1>7, <2>3, <2>5, <2>6, <2>7 DEF Take
<1>8. CASE x \in Vars(f.stmt) /\ Id(x) \notin DOMAIN resolved
  <2>1. x > 0 /\ x # Inlined /\ x # Opaque /\ s = DeclOf(x)
    BY <1>4, <1>8
  <2>2. CASE s = None
    <3>1. Refused("unsupported")
      BY <1>8, <2>1, <2>2 DEF ResolveExpr
    <3>2. step' \notin Busy
      BY <3>1 DEF Refused, Busy
    <3>3. QED
      BY <1>1, <3>2
  <2>3. CASE s # None
    <3>1. s \in DOMAIN Code /\ x \in Code[s].defs
      BY <2>1, <2>3, Program
    <3>2. s \notin Decls
      BY <1>2, <1>4, <1>8, <2>1, KnownByDecl
    <3>3. /\ how = Outcome(s, DOMAIN resolved)
          /\ CASE how = "cached" -> Take(resolved[Id(Code[s].first)])
               [] how = "open" -> OpenStmt(s) /\ UNCHANGED step
               [] OTHER -> Refused(how)
      BY <1>8, <2>1, <2>3 DEF ResolveExpr
    <3>4. how # "cached"
      <4>1. SUFFICES ASSUME how = "cached" PROVE FALSE
        OBVIOUS
      <4>2. PICK stmt : stmt = Code[s]
        OBVIOUS
      <4>3. stmt.first \in stmt.defs
        BY <3>3, <4>1, <4>2 DEF Outcome
      <4>4. stmt.first \in stmt.defs /\ Id(stmt.first) \in DOMAIN resolved
        BY <3>3, <4>1, <4>2, <4>3 DEF Outcome
      <4>5. DeclOf(stmt.first) = s /\ stmt.first \in DOMAIN main.id
        BY <3>1, <4>2, <4>4, Program
      <4>6. QED
        BY <1>2, <3>2, <4>4, <4>5, KnownByDecl
    <3>5. how \in {"unsupported", "panic", "open", "cached"}
      BY <3>3 DEF Outcome
    <3>6. CASE how = "open"
      <4>1. Code[s].kind \in Declaring
        BY <3>3, <3>6 DEF Outcome, Declaring
      <4>2. s \notin ToSet(deps)
        BY <3>2, <4>1 DEF Decls
      <4>3. OpenStmt(s) /\ UNCHANGED step
        BY <3>3, <3>6
      <4>4. QED
        BY <1>1, <1>8, <2>1, <3>1, <4>1, <4>2, <4>3
    <3>7. CASE how \in {"unsupported", "panic"}
      <4>1. Refused(how)
        BY <3>3, <3>7
      <4>2. step' \notin Busy
        BY <3>7, <4>1 DEF Refused, Busy
      <4>3. QED
        BY <1>1, <4>2
    <3>8. QED
      BY <3>4, <3>5, <3>6, <3>7
  <2>4. QED
    BY <2>2, <2>3
<1>9. QED
  BY <1>4, <1>5, <1>6, <1>7, <1>8

\* What does not change with the declarations of the plan.
LEMMA SameDeps ==
    ASSUME input' = input, deps' = deps
    PROVE  /\ Root' = Root /\ Decls' = Decls /\ Users' = Users
           /\ DepsOK' <=> DepsOK
           /\ resolved' = resolved => (ResolvedOK' <=> ResolvedOK)
           /\ at' = at => \A s : Taken(s)' <=> Taken(s)
<1>1. Code' = Code /\ Executable' = Executable /\ \A v : Id(v)' = Id(v)
  BY SameProgram
<1>2. Root' = Root /\ Decls' = Decls /\ Users' = Users
  BY <1>1 DEF Root, Decls, Users
<1>3. DepsOK' <=> DepsOK
  BY <1>1, <1>2 DEF DepsOK, Distinct
<1>4. resolved' = resolved => (ResolvedOK' <=> ResolvedOK)
  <2>1. SUFFICES ASSUME resolved' = resolved PROVE ResolvedOK' <=> ResolvedOK
    OBVIOUS
  <2>2. main' = main
    BY SameProgram
  <2>3. QED
    BY <1>1, <1>2, <2>1, <2>2 DEF ResolvedOK, Id
<1>5. at' = at => \A s : Taken(s)' <=> Taken(s)
  BY <1>1 DEF Taken
<1>6. QED
  BY <1>2, <1>3, <1>4, <1>5

\* The statement at the top of the stack goes on to its next argument.
LEMMA TopMoves ==
    ASSUME input \in Inputs, Plain, PlanOK,
           UNCHANGED <<input, step, deps, resolved, prereqs, at, degree, ready, order>>,
           step \in {"resolve", "use"}, stack # <<>>,
           NEW g \in Frames, FrameOK(g), g.stmt = stack[1].stmt,
           ToSet(g.got) \subseteq ToSet(deps), stack' = [stack EXCEPT ![1] = g]
    PROVE  PlanOK'
<1>1. stack \in Seq(Frames)
  BY DEF PlanOK, StackOK
<1>2. /\ stack' \in Seq(Frames) /\ Len(stack') = Len(stack) /\ Len(stack) \in Nat \ {0}
      /\ DOMAIN stack' = DOMAIN stack /\ DOMAIN stack = 1..Len(stack)
      /\ stack'[1] = g /\ \A j \in DOMAIN stack : j # 1 => stack'[j] = stack[j]
  BY <1>1
<1>3. \A j \in DOMAIN stack : stack'[j].stmt = stack[j].stmt
  BY <1>2
<1>4. Bottom' = Bottom /\ stack' # <<>> /\ (InUse' <=> InUse)
  <2>1. Len(stack) \in DOMAIN stack
    BY <1>2
  <2>2. stack' # <<>>
    BY <1>2
  <2>3. QED
    BY <1>2, <1>3, <2>1, <2>2 DEF Bottom, InUse
<1>5. /\ Root' = Root /\ Decls' = Decls /\ Users' = Users /\ DepsOK' /\ ResolvedOK'
      /\ \A s : Taken(s)' <=> Taken(s)
  BY SameDeps DEF PlanOK
<1>6. StackOK'
  <2>1. step = "resolve" => Bottom' = Root'
    BY <1>4, <1>5 DEF PlanOK, StackOK
  <2>2. ASSUME NEW j \in DOMAIN stack
        PROVE  /\ FrameOK(stack'[j]) /\ ToSet(stack'[j].got) \subseteq ToSet(deps)
               /\ (j = Len(stack) /\ step = "use") \/ stack'[j].stmt \in Decls
    <3>1. /\ FrameOK(stack[j]) /\ ToSet(stack[j].got) \subseteq ToSet(deps)
          /\ (j = Len(stack) /\ step = "use") \/ stack[j].stmt \in Decls
      BY DEF PlanOK, StackOK
    <3>2. QED
      BY <1>2, <1>3, <3>1
  <2>3. ASSUME NEW j \in 1..(Len(stack) - 1)
        PROVE  /\ stack'[j + 1].todo # <<>>
               /\ Head(stack'[j + 1].todo) \in Vars(stack'[j + 1].stmt)
               /\ DeclOf(Head(stack'[j + 1].todo)) = stack'[j].stmt
    <3>1. /\ stack[j + 1].todo # <<>>
          /\ Head(stack[j + 1].todo) \in Vars(stack[j + 1].stmt)
          /\ DeclOf(Head(stack[j + 1].todo)) = stack[j].stmt
      BY DEF PlanOK, StackOK
    <3>2. j \in DOMAIN stack /\ j + 1 \in DOMAIN stack /\ j + 1 # 1
      BY <1>2
    <3>3. stack'[j + 1] = stack[j + 1] /\ stack'[j].stmt = stack[j].stmt
      BY <1>2, <1>3, <3>2
    <3>4. QED
      BY <3>1, <3>3
  <2>4. QED
    BY <1>2, <1>4, <1>5, <2>1, <2>2, <2>3, SameProgram DEF StackOK
<1>7. PrereqsOK'
  <2>1. PrereqsOK
    BY DEF PlanOK
  <2>2. QED
    BY <1>2, <1>3, <2>1, SameProgram DEF PrereqsOK, Distinct
<1>8. UsersOK'
  <2>1. UsersOK
    BY DEF PlanOK
  <2>2. QED
    BY <1>4, <1>5, <2>1, SameProgram DEF UsersOK
<1>9. BaseOK'
  <2>1. BaseOK
    BY DEF PlanOK
  <2>2. QED
    BY <1>4, <1>5, <2>1, SameProgram DEF BaseOK
<1>10. MinimalOK'
  <2>1. MinimalOK
    BY DEF PlanOK
  <2>2. QED
    BY <1>4, <1>5, <2>1, SameProgram DEF MinimalOK
<1>11. SortOK'
  BY DEF SortOK, Sorting, PlanOK
<1>12. QED
  BY <1>5, <1>6, <1>7, <1>8, <1>9, <1>10, <1>11 DEF PlanOK

\* A plan with one statement more.
LEMMA OneMore ==
    ASSUME input \in Inputs, input' = input, DepsOK, NEW s \in DOMAIN Code,
           s \notin ToSet(deps), Code[s].kind \in Declaring \cup Running,
           deps' = Append(deps, s)
    PROVE  /\ DepsOK' /\ Root' = Root /\ ToSet(deps)' = ToSet(deps) \cup {s}
           /\ Code[s].kind \in Declaring => Decls' = Decls \cup {s} /\ Users' = Users
           /\ Code[s].kind \in Running => Decls' = Decls /\ Users' = Users \cup {s}
<1>1. deps \in Seq(DOMAIN Code) /\ Len(deps) # 0 /\ Distinct(deps)
  BY DEF DepsOK
<1>2. /\ deps' \in Seq(DOMAIN Code) /\ Len(deps') = Len(deps) + 1 /\ Len(deps) \in Nat
      /\ ToSet(deps') = ToSet(deps) \cup {s} /\ Distinct(deps')
      /\ \A i \in DOMAIN deps : deps'[i] = deps[i]
  BY <1>1, AppendKeeps
<1>3. Code' = Code /\ Len(deps') # 0
  BY <1>1, <1>2, SameProgram
<1>4. Root' = Root
  <2>1. 1 \in DOMAIN deps
    BY <1>1
  <2>2. QED
    BY <1>2, <2>1 DEF Root
<1>5. Declaring \cap Running = {}
  BY DEF Declaring, Running
<1>6. DepsOK'
  BY <1>2, <1>3, <1>4 DEF DepsOK, Distinct
<1>7. /\ Code[s].kind \in Declaring => Decls' = Decls \cup {s} /\ Users' = Users
      /\ Code[s].kind \in Running => Decls' = Decls /\ Users' = Users \cup {s}
  BY <1>2, <1>3, <1>5 DEF Decls, Users
<1>8. QED
  BY <1>2, <1>4, <1>6, <1>7

LEMMA PushKeeps ==
    ASSUME NEW S, NEW seq \in Seq(S), NEW x \in S
    PROVE  /\ <<x>> \o seq \in Seq(S) /\ Len(<<x>> \o seq) = Len(seq) + 1 /\ Len(seq) \in Nat
           /\ (<<x>> \o seq)[1] = x
           /\ \A i \in 1..Len(seq) : (<<x>> \o seq)[i + 1] = seq[i]
<1>1. <<x>> \in Seq(S) /\ Len(<<x>>) = 1 /\ <<x>>[1] = x
  OBVIOUS
<1>2. <<x>> \o seq \in Seq(S) /\ Len(<<x>> \o seq) = Len(seq) + 1 /\ Len(seq) \in Nat
  BY <1>1
<1>3. ASSUME NEW i \in 1..(Len(seq) + 1)
      PROVE  (<<x>> \o seq)[i] = IF i <= 1 THEN <<x>>[i] ELSE seq[i - 1]
  BY <1>1, <1>2
<1>4. ASSUME NEW i \in 1..Len(seq)
      PROVE  (<<x>> \o seq)[i + 1] = seq[i]
  <2>1. i + 1 \in 1..(Len(seq) + 1) /\ ~(i + 1 <= 1) /\ (i + 1) - 1 = i
    BY <1>2
  <2>2. QED
    BY <1>3, <2>1
<1>5. QED
  BY <1>1, <1>2, <1>3, <1>4

\* A new declaration is part of the plan, and its variables lead to it.
LEMMA ResolvedGrows ==
    ASSUME input \in Inputs, input' = input, Plain, DepsOK, ResolvedOK,
           NEW s \in DOMAIN Code, Decls' = Decls \cup {s}, s \notin Decls,
           resolved' = Updated(resolved, [i \in {Id(v) : v \in Code[s].defs} |-> s])
    PROVE  ResolvedOK'
<1> DEFINE new == [i \in {Id(v) : v \in Code[s].defs} |-> s]
<1>1. Code' = Code /\ main' = main /\ \A v : Id(v)' = Id(v)
  BY SameProgram
<1>2. Decls \subseteq DOMAIN Code
  BY DEF DepsOK, Decls, ToSet
<1>3. /\ DOMAIN resolved' = DOMAIN new \cup DOMAIN resolved
      /\ \A i \in DOMAIN new : resolved'[i] = new[i]
      /\ \A i \in DOMAIN resolved : i \notin DOMAIN new => resolved'[i] = resolved[i]
  <2>1. PICK n : n = new
    OBVIOUS
  <2>2. resolved' = Updated(resolved, n)
    BY <2>1
  <2> HIDE DEF new
  <2>3. resolved' = [i \in DOMAIN n \cup DOMAIN resolved |->
                        IF i \in DOMAIN n THEN n[i] ELSE resolved[i]]
    BY <2>2 DEF Updated
  <2>4. QED
    BY <2>1, <2>3
<1>4. /\ DOMAIN new = {Id(v) : v \in Code[s].defs} /\ \A i \in DOMAIN new : new[i] = s
  OBVIOUS
<1> HIDE DEF new
<1>5. DOMAIN resolved' = {Id(v) : v \in UNION {Code[d].defs : d \in Decls \cup {s}}}
  <2> DEFINE all(set) == UNION {Code[d].defs : d \in set}
  <2>1. all(Decls \cup {s}) = all(Decls) \cup Code[s].defs
    OBVIOUS
  <2>2. DOMAIN resolved = {Id(v) : v \in all(Decls)}
    BY DEF ResolvedOK
  <2> HIDE DEF all
  <2>3. {Id(v) : v \in all(Decls \cup {s})}
        = {Id(v) : v \in all(Decls)} \cup {Id(v) : v \in Code[s].defs}
    BY <2>1
  <2>4. DOMAIN resolved' = {Id(v) : v \in all(Decls \cup {s})}
    BY <1>3, <1>4, <2>2, <2>3
  <2>5. QED
    BY <2>4 DEF all
<1>6. ASSUME NEW v \in Code[s].defs
      PROVE  resolved'[Id(v)] = s
  BY <1>3, <1>4
<1>7. ASSUME NEW d \in Decls, NEW v \in Code[d].defs
      PROVE  resolved'[Id(v)] = d
  <2>1. DeclOf(v) = d /\ v \in DOMAIN main.id /\ d # s
    BY <1>2, Program
  <2>2. ASSUME NEW w \in Code[s].defs, Id(w) = Id(v)
        PROVE  FALSE
    <3>1. DeclOf(w) = s /\ w \in DOMAIN main.id
      BY Program
    <3>2. w = v
      BY <2>1, <2>2, <3>1, Program
    <3>3. QED
      BY <2>1, <3>1, <3>2
  <2>3. Id(v) \notin DOMAIN new
    BY <1>4, <2>2
  <2>4. Id(v) \in DOMAIN resolved /\ resolved[Id(v)] = d
    BY DEF ResolvedOK
  <2>5. QED
    BY <1>3, <2>3, <2>4
<1>8. DOMAIN resolved' = {Id(v) : v \in UNION {Code[d].defs : d \in Decls}}'
  <2>1. {Id(v) : v \in UNION {Code[d].defs : d \in Decls}}'
        = {Id(v) : v \in UNION {Code[d].defs : d \in Decls \cup {s}}}
    BY <1>1 DEF Id
  <2>2. QED
    BY <1>5, <2>1
<1>9. \A d \in Decls' : \A v \in Code[d].defs : resolved'[Id(v)] = d
  BY <1>6, <1>7
<1>10. QED
  BY <1>1, <1>8, <1>9 DEF ResolvedOK

\* A declaration that is new to the plan is resolved first.
LEMMA Opens ==
    ASSUME input \in Inputs, Plain, PlanOK,
           UNCHANGED <<input, step, prereqs, at, degree, ready, order>>,
           step \in {"resolve", "use"}, stack # <<>>, stack[1].todo # <<>>,
           Head(stack[1].todo) \in Vars(stack[1].stmt),
           NEW s \in DOMAIN Code, s = DeclOf(Head(stack[1].todo)), s \notin ToSet(deps),
           Code[s].kind \in Declaring, OpenStmt(s)
    PROVE  PlanOK'
<1>1. /\ DepsOK /\ ResolvedOK /\ StackOK /\ PrereqsOK /\ UsersOK /\ BaseOK /\ MinimalOK
      /\ stack \in Seq(Frames)
  BY DEF PlanOK, StackOK
<1>2. /\ deps' = Append(deps, s) /\ stack' = <<Frame(s, Code[s].args)>> \o stack
      /\ resolved' = Updated(resolved, [i \in {Id(v) : v \in Code[s].defs} |-> s])
  BY DEF OpenStmt
<1>3. PICK g \in Frames : /\ g = Frame(s, Code[s].args) /\ FrameOK(g)
                          /\ g.stmt = s /\ g.got = <<>>
  BY NewFrame
<1>4. PICK n \in Nat \ {0} : n = Len(stack)
  BY <1>1
<1>5. /\ stack' \in Seq(Frames) /\ Len(stack') = n + 1 /\ stack'[1] = g
      /\ \A i \in 1..n : stack'[i + 1] = stack[i]
  BY <1>1, <1>2, <1>3, <1>4, PushKeeps
<1>6. /\ DOMAIN stack' = 1..(n + 1) /\ DOMAIN stack = 1..n
      /\ \A j \in 1..(n + 1) : j = 1 \/ j - 1 \in 1..n
      /\ \A j \in 1..(n + 1) : j # 1 => stack'[j] = stack[j - 1]
      /\ stack' # <<>>
  BY <1>1, <1>4, <1>5
<1>7. /\ DepsOK' /\ Root' = Root /\ ToSet(deps)' = ToSet(deps) \cup {s}
      /\ Decls' = Decls \cup {s} /\ Users' = Users
  BY <1>1, <1>2, OneMore
<1>8. s \notin Decls /\ Decls \subseteq ToSet(deps)
  BY DEF Decls
<1>9. ResolvedOK'
  BY <1>1, <1>2, <1>7, <1>8, ResolvedGrows
<1>10. Bottom' = Bottom /\ (InUse' <=> InUse) /\ n \in 1..n
  BY <1>4, <1>5, <1>6 DEF Bottom, InUse
<1>11. \A t : Taken(t)' <=> Taken(t)
  BY SameProgram DEF Taken
<1>12. StackOK'
  <2>1. step = "resolve" => Bottom' = Root'
    BY <1>1, <1>7, <1>10 DEF StackOK
  <2>2. ASSUME NEW j \in 1..(n + 1)
        PROVE  /\ FrameOK(stack'[j]) /\ ToSet(stack'[j].got) \subseteq ToSet(deps) \cup {s}
               /\ (j = n + 1 /\ step = "use") \/ stack'[j].stmt \in Decls \cup {s}
    <3>1. CASE j = 1
      <4>1. ToSet(g.got) = {}
        BY <1>3 DEF ToSet
      <4>2. QED
        BY <1>3, <1>5, <3>1, <4>1
    <3>2. CASE j # 1
      <4>1. j - 1 \in DOMAIN stack /\ stack'[j] = stack[j - 1]
        BY <1>6, <3>2
      <4>2. /\ FrameOK(stack[j - 1]) /\ ToSet(stack[j - 1].got) \subseteq ToSet(deps)
            /\ (j - 1 = n /\ step = "use") \/ stack[j - 1].stmt \in Decls
        BY <1>1, <1>4, <4>1 DEF StackOK
      <4>3. j - 1 = n => j = n + 1
        BY <1>4
      <4>4. QED
        BY <4>1, <4>2, <4>3
    <3>3. QED
      BY <3>1, <3>2
  <2>3. ASSUME NEW j \in 1..n
        PROVE  /\ stack'[j + 1].todo # <<>>
               /\ Head(stack'[j + 1].todo) \in Vars(stack'[j + 1].stmt)
               /\ DeclOf(Head(stack'[j + 1].todo)) = stack'[j].stmt
    <3>1. stack'[j + 1] = stack[j]
      BY <1>5
    <3>2. CASE j = 1
      BY <1>3, <1>5, <3>1, <3>2
    <3>3. CASE j # 1
      <4>1. PICK i : i = j - 1
        OBVIOUS
      <4>2. i \in 1..(n - 1) /\ i + 1 = j /\ i \in 1..n
        BY <1>4, <3>3, <4>1
      <4>3. /\ stack[i + 1].todo # <<>>
            /\ Head(stack[i + 1].todo) \in Vars(stack[i + 1].stmt)
            /\ DeclOf(Head(stack[i + 1].todo)) = stack[i].stmt
        BY <1>1, <1>4, <4>2 DEF StackOK
      <4>4. stack'[j] = stack[i]
        BY <1>5, <4>2
      <4>5. QED
        BY <3>1, <4>2, <4>3, <4>4
    <3>4. QED
      BY <3>2, <3>3
  <2>4. Len(stack') = n + 1 /\ 1..(Len(stack') - 1) = 1..n
    BY <1>5
  <2>5. QED
    BY <1>5, <1>6, <1>7, <2>1, <2>2, <2>3, <2>4, SameProgram DEF StackOK
<1>13. PrereqsOK'
  <2>1. ASSUME NEW d \in ToSet(deps) \cup {s}
        PROVE  d \in DOMAIN prereqs \/ \E j \in 1..(n + 1) : stack'[j].stmt = d
    <3>1. CASE d = s
      BY <1>3, <1>5, <1>6, <3>1
    <3>2. CASE d \in DOMAIN prereqs
      BY <3>2
    <3>3. CASE \E j \in DOMAIN stack : stack[j].stmt = d
      <4>1. PICK j \in 1..n : stack[j].stmt = d
        BY <1>6, <3>3
      <4>2. j + 1 \in 1..(n + 1) /\ stack'[j + 1].stmt = d
        BY <1>5, <4>1
      <4>3. QED
        BY <4>2
    <3>4. QED
      BY <1>1, <3>1, <3>2, <3>3 DEF PrereqsOK
  <2>2. ASSUME NEW d \in DOMAIN prereqs
        PROVE  /\ prereqs[d] \in Seq(ToSet(deps) \cup {s}) /\ Distinct(prereqs[d])
               /\ ToSet(prereqs[d]) = Needs(d)
    BY <1>1 DEF PrereqsOK
  <2>3. DOMAIN prereqs \subseteq ToSet(deps)
    BY <1>1 DEF PrereqsOK
  <2>4. QED
    BY <1>6, <1>7, <2>1, <2>2, <2>3, SameProgram DEF PrereqsOK, Distinct
<1>14. UsersOK'
  BY <1>1, <1>7, <1>10, <1>11, SameProgram DEF UsersOK
<1>15. BaseOK'
  BY <1>1, <1>7, <1>10, <1>11, SameProgram DEF BaseOK
<1>16. MinimalOK'
  <2>1. ASSUME NEW t \in SUBSET DOMAIN Code, Closed(t), Root \in t, Users \subseteq t,
               InUse => Bottom \in t
        PROVE  ToSet(deps) \cup {s} \subseteq t
    <3>1. ToSet(deps) \subseteq t
      BY <1>1, <2>1 DEF MinimalOK
    <3>2. stack[1].stmt \in t
      <4>1. 1 \in DOMAIN stack
        BY <1>4, <1>6
      <4>2. (1 = n /\ step = "use") \/ stack[1].stmt \in Decls
        BY <1>1, <1>4, <4>1 DEF StackOK
      <4>3. 1 = n /\ step = "use" => InUse /\ stack[1].stmt = Bottom
        BY <1>4 DEF InUse, Bottom
      <4>4. QED
        BY <1>8, <2>1, <3>1, <4>2, <4>3
    <3>3. Head(stack[1].todo) \in Code[stack[1].stmt].uses
      BY <2>1, <3>2, Program
    <3>4. QED
      BY <2>1, <3>1, <3>2, <3>3 DEF Closed
  <2>2. QED
    BY <1>7, <1>10, <2>1, SameProgram DEF MinimalOK
<1>17. SortOK'
  BY DEF SortOK, Sorting, PlanOK
<1>18. QED
  BY <1>7, <1>9, <1>12, <1>13, <1>14, <1>15, <1>16, <1>17 DEF PlanOK

LEMMA ResolveKeeps ==
    ASSUME input \in Inputs, PlanInv, ResolveExpr
    PROVE  PlanInv'
<1>1. SUFFICES ASSUME Plain', step' \in Busy
               PROVE  PlanOK'
  BY DEF PlanInv
<1>2. /\ input' = input /\ step \in Busy
  BY DEF ResolveExpr, Busy
<1>3. Plain /\ PlanOK
  BY <1>1, <1>2, SameProgram DEF PlanInv
<1>4. /\ stack \in Seq(Frames) /\ stack # <<>> /\ stack[1].todo # <<>>
      /\ FrameOK(stack[1]) /\ ToSet(stack[1].got) \subseteq ToSet(deps)
      /\ stack[1] \in Frames
  <2>1. stack # <<>> /\ stack[1].todo # <<>>
    BY DEF ResolveExpr
  <2>2. stack \in Seq(Frames)
    BY <1>3 DEF PlanOK, StackOK
  <2>3. 1 \in DOMAIN stack
    BY <2>1, <2>2
  <2>4. QED
    BY <1>3, <2>1, <2>2, <2>3 DEF PlanOK, StackOK
<1>5. CASE /\ UNCHANGED <<step, deps, resolved>>
           /\ Head(stack[1].todo) \notin Vars(stack[1].stmt)
           /\ stack' = [stack EXCEPT ![1] = Passing(@)]
  <2>1. PICK g : g = Passing(stack[1])
    OBVIOUS
  <2>2. /\ FrameOK(g) /\ g \in Frames /\ g.stmt = stack[1].stmt /\ g.got = stack[1].got
    BY <1>4, <1>5, <2>1, FrameInlined
  <2>3. stack' = [stack EXCEPT ![1] = g]
    BY <1>5, <2>1
  <2>4. QED
    BY <1>3, <1>4, <1>5, <2>2, <2>3, ResolveCases, TopMoves
<1>6. CASE /\ UNCHANGED <<step, deps, resolved>>
           /\ Head(stack[1].todo) \in Vars(stack[1].stmt)
           /\ DeclOf(Head(stack[1].todo)) \in Decls
           /\ stack' = [stack EXCEPT ![1] = Taking(@, DeclOf(Head(stack[1].todo)))]
  <2>1. PICK d : d = DeclOf(Head(stack[1].todo))
    OBVIOUS
  <2>2. PICK g : g = Taking(stack[1], d)
    OBVIOUS
  <2>3. d \in ToSet(deps) /\ d \in DOMAIN Code
    BY <1>3, <1>6, <2>1 DEF Decls, PlanOK, DepsOK, ToSet
  <2>4. /\ FrameOK(g) /\ g \in Frames /\ g.stmt = stack[1].stmt
        /\ ToSet(g.got) = ToSet(stack[1].got) \cup {d}
    BY <1>4, <1>6, <2>1, <2>2, <2>3, FrameTakes
  <2>5. stack' = [stack EXCEPT ![1] = g]
    BY <1>6, <2>1, <2>2
  <2>6. ToSet(g.got) \subseteq ToSet(deps)
    BY <1>4, <2>3, <2>4
  <2>7. QED
    BY <1>3, <1>4, <1>6, <2>4, <2>5, <2>6, ResolveCases, TopMoves
<1>7. CASE /\ UNCHANGED step
           /\ Head(stack[1].todo) \in Vars(stack[1].stmt)
           /\ \E s \in DOMAIN Code :
                 /\ s = DeclOf(Head(stack[1].todo)) /\ s \notin ToSet(deps)
                 /\ Code[s].kind \in Declaring /\ OpenStmt(s)
  BY <1>3, <1>4, <1>7, ResolveCases, Opens
<1>8. QED
  BY <1>1, <1>3, <1>5, <1>6, <1>7, ResolveCases

\* What a statement whose right side has been resolved has found.
LEMMA DoneFinds ==
    ASSUME NEW f, FrameOK(f), f.todo = <<>>
    PROVE  /\ f.got \in Seq(Needs(f.stmt)) /\ ToSet(f.got) = Needs(f.stmt)
           /\ Code[f.stmt].kind \in Declaring => Distinct(f.got)
<1>1. /\ f.got \in Seq(Needs(f.stmt))
      /\ \A v \in Vars(f.stmt) : v \in ToSet(f.todo) \/ DeclOf(v) \in ToSet(f.got)
      /\ Code[f.stmt].kind \in Declaring => Distinct(f.got)
  BY DEF FrameOK
<1>2. ToSet(f.todo) = {}
  BY DEF ToSet
<1>3. ToSet(f.got) \subseteq Needs(f.stmt)
  BY <1>1 DEF ToSet
<1>4. Needs(f.stmt) \subseteq ToSet(f.got)
  BY <1>1, <1>2 DEF Needs
<1>5. QED
  BY <1>1, <1>3, <1>4

\* One statement more whose prerequisites are known.
LEMMA PrereqsGrow ==
    ASSUME input' = input, PrereqsOK, NEW d \in ToSet(deps'), NEW got \in Seq(ToSet(deps')),
           Distinct(got), ToSet(got) = Needs(d), ToSet(deps') = ToSet(deps) \cup {d},
           prereqs' = Updated(prereqs, [s \in {d} |-> got]),
           \A j \in DOMAIN stack : stack[j].stmt # d =>
               \E h \in DOMAIN stack' : stack'[h].stmt = stack[j].stmt
    PROVE  PrereqsOK' /\ DOMAIN prereqs' = DOMAIN prereqs \cup {d}
<1>1. /\ DOMAIN prereqs' = DOMAIN prereqs \cup {d} /\ prereqs'[d] = got
      /\ \A e \in DOMAIN prereqs : e # d => prereqs'[e] = prereqs[e]
  BY DEF Updated
<1>2. DOMAIN prereqs' \subseteq ToSet(deps')
  BY <1>1 DEF PrereqsOK
<1>3. ASSUME NEW e \in ToSet(deps')
      PROVE  e \in DOMAIN prereqs' \/ \E h \in DOMAIN stack' : stack'[h].stmt = e
  <2>1. CASE e = d
    BY <1>1, <2>1
  <2>2. CASE e # d
    <3>1. e \in DOMAIN prereqs \/ \E j \in DOMAIN stack : stack[j].stmt = e
      BY <2>2 DEF PrereqsOK
    <3>2. QED
      BY <1>1, <2>2, <3>1
  <2>3. QED
    BY <2>1, <2>2
<1>4. ASSUME NEW e \in DOMAIN prereqs'
      PROVE  /\ prereqs'[e] \in Seq(ToSet(deps')) /\ Distinct(prereqs'[e])
             /\ ToSet(prereqs'[e]) = Needs(e)
  <2>1. CASE e = d
    BY <1>1, <2>1
  <2>2. CASE e # d
    <3>1. /\ prereqs[e] \in Seq(ToSet(deps)) /\ Distinct(prereqs[e])
          /\ ToSet(prereqs[e]) = Needs(e) /\ prereqs'[e] = prereqs[e]
      BY <1>1, <2>2 DEF PrereqsOK
    <3>2. prereqs[e] \in Seq(ToSet(deps'))
      BY <3>1
    <3>3. QED
      BY <3>1, <3>2
  <2>3. QED
    BY <2>1, <2>2
<1>5. QED
  BY <1>1, <1>2, <1>3, <1>4, SameProgram DEF PrereqsOK, Distinct

\* What a plan is when nothing is being resolved is closed.
LEMMA PlanClosed ==
    ASSUME input \in Inputs, Plain, DepsOK, PrereqsOK, DOMAIN prereqs = ToSet(deps)
    PROVE  Closed(ToSet(deps)) /\ ToSet(deps) \subseteq DOMAIN Code
<1>1. ToSet(deps) \subseteq DOMAIN Code
  BY DEF DepsOK, ToSet
<1>2. ASSUME NEW s \in ToSet(deps), NEW v \in Code[s].uses
      PROVE  DeclOf(v) \in ToSet(deps)
  <2>1. v \in Vars(s)
    BY <1>1, Program
  <2>2. DeclOf(v) \in ToSet(prereqs[s]) /\ prereqs[s] \in Seq(ToSet(deps))
    BY <2>1 DEF PrereqsOK, Needs
  <2>3. QED
    BY <2>2 DEF ToSet
<1>3. QED
  BY <1>1, <1>2 DEF Closed

LEMMA FirstReplaced ==
    ASSUME NEW S, NEW seq \in Seq(S), seq # <<>>, NEW x \in S
    PROVE  LET new == [seq EXCEPT ![1] = x]
           IN  /\ new \in Seq(S) /\ Len(new) = Len(seq) /\ DOMAIN new = DOMAIN seq
               /\ new[1] = x /\ \A j \in DOMAIN seq : j # 1 => new[j] = seq[j]
OBVIOUS

\* A declaration has been resolved that another statement waits for.
LEMMA ClosesInner ==
    ASSUME input \in Inputs, Plain, PlanOK, CloseStmt, Len(stack) # 1
    PROVE  PlanOK'
<1> DEFINE d == stack[1].stmt
<1>1. /\ DepsOK /\ ResolvedOK /\ StackOK /\ PrereqsOK /\ UsersOK /\ BaseOK /\ MinimalOK
      /\ stack \in Seq(Frames) /\ stack # <<>> /\ stack[1].todo = <<>>
      /\ step \in {"resolve", "use"}
  BY DEF PlanOK, StackOK, CloseStmt
<1>2. PICK n \in Nat \ {0} : n + 1 = Len(stack)
  <2>1. PICK m \in Nat : m = Len(stack)
    BY <1>1
  <2>2. m # 0 /\ m # 1
    BY <1>1, <2>1
  <2>3. m - 1 \in Nat \ {0} /\ (m - 1) + 1 = m
    BY <2>2
  <2>4. QED
    BY <2>1, <2>3
<1>3. PICK rest \in Seq(Frames) :
         /\ rest = Tail(stack) /\ Len(rest) = n /\ DOMAIN rest = 1..n /\ DOMAIN stack = 1..(n + 1)
         /\ \A j \in 1..n : rest[j] = stack[j + 1] /\ j + 1 \in 1..(n + 1)
  <2>1. PICK rest : rest = Tail(stack)
    OBVIOUS
  <2>2. /\ rest \in Seq(Frames) /\ Len(rest) = Len(stack) - 1
        /\ \A j \in DOMAIN rest : j + 1 \in DOMAIN stack /\ rest[j] = stack[j + 1]
    BY <1>1, <2>1, TailKeeps
  <2>3. Len(rest) = n /\ DOMAIN rest = 1..n /\ DOMAIN stack = 1..(n + 1)
    BY <1>1, <1>2, <2>2
  <2>4. QED
    BY <2>1, <2>2, <2>3
<1>4. /\ FrameOK(stack[1]) /\ ToSet(stack[1].got) \subseteq ToSet(deps) /\ d \in Decls
      /\ FrameOK(stack[2]) /\ ToSet(stack[2].got) \subseteq ToSet(deps) /\ stack[2] \in Frames
      /\ stack[2].todo # <<>> /\ Head(stack[2].todo) \in Vars(stack[2].stmt)
      /\ DeclOf(Head(stack[2].todo)) = d
  <2>1. 1 \in DOMAIN stack /\ 2 \in DOMAIN stack /\ 1 # Len(stack) /\ 1 \in 1..(Len(stack) - 1)
    BY <1>2, <1>3
  <2>2. /\ stack[1 + 1].todo # <<>>
        /\ Head(stack[1 + 1].todo) \in Vars(stack[1 + 1].stmt)
        /\ DeclOf(Head(stack[1 + 1].todo)) = stack[1].stmt
    BY <1>1, <2>1 DEF StackOK
  <2>3. QED
    BY <1>1, <2>1, <2>2 DEF StackOK
<1>5. d \in ToSet(deps) /\ d \in DOMAIN Code /\ Code[d].kind \in Declaring
  BY <1>1, <1>4 DEF Decls, DepsOK, ToSet
<1>6. PICK g \in Frames : /\ g = Taking(stack[2], d) /\ FrameOK(g) /\ g.stmt = stack[2].stmt
                          /\ ToSet(g.got) \subseteq ToSet(deps)
  <2>1. PICK f, e : f = stack[2] /\ e = d
    OBVIOUS
  <2>2. /\ FrameOK(Taking(f, e)) /\ Taking(f, e) \in Frames /\ Taking(f, e).stmt = f.stmt
        /\ ToSet(Taking(f, e).got) = ToSet(f.got) \cup {e}
    BY <1>4, <1>5, <2>1, FrameTakes
  <2>3. ToSet(Taking(f, e).got) \subseteq ToSet(deps)
    BY <1>4, <1>5, <2>1, <2>2
  <2>4. QED
    BY <2>1, <2>2, <2>3
<1>7. /\ UNCHANGED <<input, resolved, at, degree, ready, order, step, deps>>
      /\ stack' = [rest EXCEPT ![1] = g]
      /\ prereqs' = Updated(prereqs, [s \in {d} |-> stack[1].got])
  <2>1. rest # <<>> /\ rest[1] = stack[2]
    BY <1>2, <1>3
  <2>2. stack' = [rest EXCEPT ![1].todo = Tail(@), ![1].got = Append(@, d)]
    BY <1>3, <2>1 DEF CloseStmt
  <2>3. stack' = [rest EXCEPT ![1] = Taking(rest[1], d)]
    BY <1>3, <2>1, <2>2 DEF Taking, Frames
  <2>4. UNCHANGED <<input, resolved, at, degree, ready, order, step, deps>>
    BY DEF CloseStmt
  <2>5. prereqs' = Updated(prereqs, [s \in {d} |-> stack[1].got])
    BY DEF CloseStmt
  <2>6. QED
    BY <1>6, <2>1, <2>3, <2>4, <2>5
<1>8. /\ stack' \in Seq(Frames) /\ Len(stack') = n /\ DOMAIN stack' = 1..n
      /\ stack'[1] = g /\ \A j \in 1..n : j # 1 => stack'[j] = stack[j + 1]
      /\ \A j \in 1..n : stack'[j].stmt = stack[j + 1].stmt
  <2>1. PICK longer : longer = stack'
    OBVIOUS
  <2>2. longer = [rest EXCEPT ![1] = g]
    BY <1>7, <2>1
  <2>3. /\ longer \in Seq(Frames) /\ Len(longer) = n /\ DOMAIN longer = 1..n
        /\ longer[1] = g /\ \A j \in 1..n : j # 1 => longer[j] = rest[j]
    <3>1. rest # <<>>
      BY <1>2, <1>3
    <3>2. LET new == [rest EXCEPT ![1] = g]
          IN  /\ new \in Seq(Frames) /\ Len(new) = Len(rest) /\ DOMAIN new = DOMAIN rest
              /\ new[1] = g /\ \A j \in DOMAIN rest : j # 1 => new[j] = rest[j]
      BY <3>1, FirstReplaced
    <3>3. QED
      BY <1>3, <2>2, <3>2
  <2>4. 1 \in 1..n /\ rest[1] = stack[2]
    BY <1>2, <1>3
  <2>5. \A j \in 1..n : longer[j].stmt = stack[j + 1].stmt
    <3>1. ASSUME NEW j \in 1..n
          PROVE  longer[j].stmt = stack[j + 1].stmt
      <4>1. CASE j = 1
        BY <1>3, <1>6, <2>3, <2>4, <4>1
      <4>2. CASE j # 1
        BY <1>3, <2>3, <4>2
      <4>3. QED
        BY <4>1, <4>2
    <3>2. QED
      BY <3>1
  <2>6. QED
    BY <1>3, <2>1, <2>3, <2>5
<1>9. /\ Root' = Root /\ Decls' = Decls /\ Users' = Users /\ DepsOK' /\ ResolvedOK'
      /\ \A s : Taken(s)' <=> Taken(s)
  BY <1>1, <1>7, SameDeps
<1>10. Bottom' = Bottom /\ (InUse' <=> InUse) /\ stack' # <<>>
  <2>1. n \in 1..n
    BY <1>2
  <2>2. stack' # <<>>
    BY <1>2, <1>8
  <2>3. QED
    BY <1>1, <1>2, <1>7, <1>8, <2>1, <2>2 DEF Bottom, InUse
<1>11. StackOK'
  <2>1. step = "resolve" => Bottom' = Root'
    BY <1>1, <1>9, <1>10 DEF StackOK
  <2>2. ASSUME NEW j \in 1..n
        PROVE  /\ FrameOK(stack'[j]) /\ ToSet(stack'[j].got) \subseteq ToSet(deps)
               /\ (j = n /\ step = "use") \/ stack'[j].stmt \in Decls
    <3>1. j + 1 \in DOMAIN stack /\ (j + 1 = Len(stack) => j = n)
      BY <1>2, <1>3
    <3>2. /\ FrameOK(stack[j + 1]) /\ ToSet(stack[j + 1].got) \subseteq ToSet(deps)
          /\ (j + 1 = Len(stack) /\ step = "use") \/ stack[j + 1].stmt \in Decls
      BY <1>1, <3>1 DEF StackOK
    <3>3. FrameOK(stack'[j]) /\ ToSet(stack'[j].got) \subseteq ToSet(deps)
      BY <1>6, <1>8, <3>2
    <3>4. QED
      BY <1>8, <3>1, <3>2, <3>3
  <2>3. ASSUME NEW j \in 1..(n - 1)
        PROVE  /\ stack'[j + 1].todo # <<>>
               /\ Head(stack'[j + 1].todo) \in Vars(stack'[j + 1].stmt)
               /\ DeclOf(Head(stack'[j + 1].todo)) = stack'[j].stmt
    <3>1. PICK i : i = j + 1
      OBVIOUS
    <3>2. i \in 1..(Len(stack) - 1) /\ i \in 1..n /\ j \in 1..n /\ i # 1
      BY <1>2, <3>1
    <3>3. /\ stack[i + 1].todo # <<>>
          /\ Head(stack[i + 1].todo) \in Vars(stack[i + 1].stmt)
          /\ DeclOf(Head(stack[i + 1].todo)) = stack[i].stmt
      BY <1>1, <3>2 DEF StackOK
    <3>4. stack'[i] = stack[i + 1] /\ stack'[j].stmt = stack[i].stmt
      BY <1>8, <3>1, <3>2
    <3>5. QED
      BY <3>1, <3>3, <3>4
  <2>4. 1..(Len(stack') - 1) = 1..(n - 1) /\ Len(stack') = n /\ DOMAIN stack' = 1..n
        /\ stack' \in Seq(Frames) /\ step' = step /\ deps' = deps /\ input' = input
    BY <1>7, <1>8
  <2>5. QED
    BY <1>1, <1>9, <1>10, <2>1, <2>2, <2>3, <2>4, SameProgram DEF StackOK
<1>12. PrereqsOK'
  <2>1. /\ stack[1].got \in Seq(Needs(d)) /\ ToSet(stack[1].got) = Needs(d)
        /\ Distinct(stack[1].got)
    BY <1>1, <1>4, <1>5, DoneFinds
  <2>2. stack[1].got \in Seq(ToSet(deps))
    BY <1>4, <2>1
  <2>3. \A j \in DOMAIN stack : stack[j].stmt # d =>
            \E h \in DOMAIN stack' : stack'[h].stmt = stack[j].stmt
    <3>1. ASSUME NEW j \in DOMAIN stack, stack[j].stmt # d
          PROVE  \E h \in DOMAIN stack' : stack'[h].stmt = stack[j].stmt
      <4>1. PICK h : h = j - 1
        OBVIOUS
      <4>2. j # 1
        BY <3>1
      <4>3. h \in 1..n /\ h + 1 = j
        BY <1>2, <1>3, <4>1, <4>2
      <4>4. QED
        BY <1>8, <4>3
    <3>2. QED
      BY <3>1
  <2>4. d \in ToSet(deps') /\ ToSet(deps') = ToSet(deps) \cup {d}
    BY <1>5, <1>7
  <2>5. PICK got : got = stack[1].got
    OBVIOUS
  <2> HIDE DEF d
  <2>6. QED
    BY <1>1, <1>7, <2>1, <2>2, <2>3, <2>4, <2>5, PrereqsGrow
<1>13. UsersOK'
  BY <1>1, <1>7, <1>9, <1>10, SameProgram DEF UsersOK
<1>14. BaseOK'
  BY <1>1, <1>7, <1>9, <1>10, SameProgram DEF BaseOK
<1>15. MinimalOK'
  BY <1>1, <1>7, <1>9, <1>10, SameProgram DEF MinimalOK
<1>16. SortOK'
  BY <1>1, <1>7 DEF SortOK, Sorting, PlanOK
<1>17. QED
  BY <1>9, <1>11, <1>12, <1>13, <1>14, <1>15, <1>16 DEF PlanOK

\* The last statement of the stack: the root, or one of the second pass.
LEMMA ClosesLast ==
    ASSUME input \in Inputs, Plain, PlanOK, CloseStmt, Len(stack) = 1
    PROVE  /\ Bottom = stack[1].stmt /\ FrameOK(stack[1]) /\ stack[1].todo = <<>>
           /\ ToSet(stack[1].got) \subseteq ToSet(deps) /\ stack[1].stmt \in DOMAIN Code
           /\ step \in {"resolve", "use"} /\ step' = "use" /\ stack' = <<>> /\ ~InUse'
           /\ DOMAIN stack = {1}
           /\ UNCHANGED <<input, resolved, at, degree, ready, order>>
           /\ step = "resolve" =>
                 /\ deps' = deps
                 /\ prereqs' = Updated(prereqs, [s \in {Bottom} |-> stack[1].got])
           /\ step = "use" =>
                 /\ deps' = Append(deps, Bottom)
                 /\ prereqs' = Updated(prereqs, [s \in {Bottom} |-> Once(stack[1].got)])
<1>1. /\ stack \in Seq(Frames) /\ stack # <<>> /\ stack[1].todo = <<>>
      /\ step \in {"resolve", "use"} /\ StackOK
  BY DEF PlanOK, StackOK, CloseStmt
<1>2. DOMAIN stack = {1} /\ 1 \in DOMAIN stack /\ Tail(stack) = <<>>
  <2>1. DOMAIN stack = 1..1
    BY <1>1
  <2>2. Len(Tail(stack)) = 0 /\ Tail(stack) \in Seq(Frames)
    BY <1>1
  <2>3. PICK rest \in Seq(Frames) : rest = Tail(stack) /\ Len(rest) = 0
    BY <2>2
  <2>4. rest = <<>>
    BY <2>3
  <2>5. QED
    BY <2>1, <2>3, <2>4
<1>3. Bottom = stack[1].stmt
  BY DEF Bottom
<1>4. /\ FrameOK(stack[1]) /\ ToSet(stack[1].got) \subseteq ToSet(deps)
      /\ stack[1].stmt \in DOMAIN Code
  BY <1>1, <1>2 DEF StackOK, FrameOK
<1>5. /\ step' = "use" /\ stack' = <<>>
      /\ UNCHANGED <<input, resolved, at, degree, ready, order>>
  BY <1>2 DEF CloseStmt
<1>6. step = "resolve" =>
         /\ deps' = deps
         /\ prereqs' = Updated(prereqs, [s \in {Bottom} |-> stack[1].got])
  BY <1>3 DEF CloseStmt
<1>7. step = "use" =>
         /\ deps' = Append(deps, Bottom)
         /\ prereqs' = Updated(prereqs, [s \in {Bottom} |-> Once(stack[1].got)])
  BY <1>3 DEF CloseStmt
<1>8. QED
  BY <1>1, <1>2, <1>3, <1>4, <1>5, <1>6, <1>7 DEF InUse

\* All that the root rests on has been resolved.
LEMMA ClosesRoot ==
    ASSUME input \in Inputs, Plain, PlanOK, CloseStmt, Len(stack) = 1, step = "resolve"
    PROVE  PlanOK'
<1>1. /\ DepsOK /\ ResolvedOK /\ StackOK /\ PrereqsOK /\ UsersOK /\ MinimalOK
  BY DEF PlanOK
<1>2. PICK d, got :
         /\ d = Bottom /\ got = stack[1].got /\ d = stack[1].stmt /\ FrameOK(stack[1])
         /\ stack[1].todo = <<>> /\ ToSet(got) \subseteq ToSet(deps)
         /\ step' = "use" /\ stack' = <<>> /\ ~InUse' /\ DOMAIN stack = {1}
         /\ UNCHANGED <<input, resolved, at, degree, ready, order, deps>>
         /\ prereqs' = Updated(prereqs, [s \in {d} |-> got])
  BY ClosesLast
<1>3. d = Root /\ d \in ToSet(deps) /\ Code[d].kind \in Declaring
  <2>1. d = Root
    BY <1>1, <1>2 DEF StackOK
  <2>2. 1 \in DOMAIN deps
    BY <1>1 DEF DepsOK
  <2>3. QED
    BY <1>1, <2>1, <2>2 DEF DepsOK, Root, ToSet
<1>4. /\ Root' = Root /\ Decls' = Decls /\ Users' = Users /\ DepsOK' /\ ResolvedOK'
      /\ \A s : Taken(s)' <=> Taken(s)
  BY <1>1, <1>2, SameDeps
<1>5. PrereqsOK' /\ DOMAIN prereqs' = ToSet(deps)'
  <2>1. got \in Seq(Needs(d)) /\ ToSet(got) = Needs(d) /\ Distinct(got)
    BY <1>2, <1>3, DoneFinds
  <2>2. got \in Seq(ToSet(deps))
    BY <1>2, <2>1
  <2>3. \A j \in DOMAIN stack : stack[j].stmt # d =>
            \E h \in DOMAIN stack' : stack'[h].stmt = stack[j].stmt
    BY <1>2
  <2>4. d \in ToSet(deps') /\ ToSet(deps') = ToSet(deps) \cup {d}
    BY <1>2, <1>3
  <2>5. PrereqsOK'
    BY <1>1, <1>2, <2>1, <2>2, <2>3, <2>4, PrereqsGrow
  <2>6. DOMAIN stack' = {}
    BY <1>2
  <2>7. QED
    BY <2>5, <2>6 DEF PrereqsOK
<1>6. StackOK'
  BY <1>2 DEF StackOK
<1>7. at = 1 /\ \A s : ~Taken(s)
  BY <1>1 DEF UsersOK, Taken
<1>8. UsersOK'
  BY <1>1, <1>2, <1>4, SameProgram DEF UsersOK
<1>9. BaseOK'
  <2>1. Users = {}
    BY <1>1, <1>7 DEF UsersOK
  <2>2. ToSet(deps) = Decls
    BY <1>1, <2>1 DEF DepsOK, Decls, Users
  <2>3. Closed(ToSet(deps)) /\ ToSet(deps) \subseteq DOMAIN Code
    <3>1. input' \in Inputs /\ Plain'
      BY <1>2, SameProgram
    <3>2. Closed(ToSet(deps))' /\ (ToSet(deps) \subseteq DOMAIN Code)'
      <4>1. ASSUME NEW s \in ToSet(deps), NEW v \in Code[s].uses
            PROVE  DeclOf(v) \in ToSet(deps)
        <5>1. s \in DOMAIN Code
          BY <1>1, <4>1 DEF DepsOK, ToSet
        <5>2. v \in Vars(s) /\ s \in DOMAIN prereqs'
          BY <1>2, <1>5, <4>1, <5>1, Program
        <5>3. /\ DeclOf(v) \in Needs(s) /\ prereqs'[s] \in Seq(ToSet(deps))
              /\ ToSet(prereqs'[s]) = Needs(s)
          BY <1>2, <1>5, <5>2, SameProgram DEF PrereqsOK, Needs
        <5>4. QED
          BY <5>3 DEF ToSet
      <4>2. Closed(ToSet(deps))
        BY <4>1 DEF Closed
      <4>3. ToSet(deps) \subseteq DOMAIN Code
        BY <1>1 DEF DepsOK, ToSet
      <4>4. QED
        BY <1>2, <4>2, <4>3, SameProgram
    <3>3. QED
      BY <1>2, <3>2, SameProgram
  <2>4. Behind({Root}) \subseteq Decls
    <3>1. Behind({Root}) \subseteq ToSet(deps)
      BY <1>3, <2>3 DEF Behind
    <3>2. QED
      BY <2>2, <3>1
  <2>5. QED
    BY <1>2, <1>4, <1>7, <2>4, SameProgram DEF BaseOK
<1>10. MinimalOK'
  <2>1. ~InUse
    BY DEF InUse
  <2>2. QED
    BY <1>1, <1>2, <1>4, <2>1, SameProgram DEF MinimalOK
<1>11. SortOK'
  BY <1>2 DEF SortOK, Sorting, PlanOK
<1>12. QED
  BY <1>4, <1>5, <1>6, <1>8, <1>9, <1>10, <1>11 DEF PlanOK

\* A statement of the second pass becomes part of the plan.
LEMMA ClosesUser ==
    ASSUME input \in Inputs, Plain, PlanOK, CloseStmt, Len(stack) = 1, step = "use"
    PROVE  PlanOK'
<1>1. /\ DepsOK /\ ResolvedOK /\ StackOK /\ PrereqsOK /\ UsersOK /\ BaseOK /\ MinimalOK
  BY DEF PlanOK
<1>2. PICK d, got :
         /\ d = Bottom /\ got = stack[1].got /\ d = stack[1].stmt /\ FrameOK(stack[1])
         /\ stack[1].todo = <<>> /\ ToSet(got) \subseteq ToSet(deps) /\ d \in DOMAIN Code
         /\ step' = "use" /\ stack' = <<>> /\ ~InUse' /\ DOMAIN stack = {1}
         /\ UNCHANGED <<input, resolved, at, degree, ready, order>>
         /\ deps' = Append(deps, d) /\ prereqs' = Updated(prereqs, [s \in {d} |-> Once(got)])
  BY ClosesLast
<1>3. InUse
  BY DEF InUse, CloseStmt
<1>4. /\ Code[d].kind \in Running /\ d = Executable[at - 1] /\ d < Root /\ Vars(d) # {}
      /\ at # 1 /\ d \notin Users /\ at \in Nat \ {0}
  BY <1>1, <1>2, <1>3 DEF UsersOK
<1>5. d \notin ToSet(deps)
  BY <1>4 DEF Users
<1>6. /\ DepsOK' /\ Root' = Root /\ ToSet(deps)' = ToSet(deps) \cup {d}
      /\ Decls' = Decls /\ Users' = Users \cup {d}
  BY <1>1, <1>2, <1>4, <1>5, OneMore
<1>7. \A s : Taken(s)' <=> Taken(s)
  BY <1>2, SameProgram DEF Taken
<1>8. ResolvedOK'
  <2>1. Code' = Code /\ main' = main
    BY <1>2, SameProgram
  <2>2. QED
    BY <1>1, <1>2, <1>6, <2>1 DEF ResolvedOK, Id
<1>9. StackOK'
  BY <1>2 DEF StackOK
<1>10. PrereqsOK'
  <2>1. got \in Seq(Needs(d)) /\ ToSet(got) = Needs(d)
    BY <1>2, DoneFinds
  <2>2. got \in Seq(ToSet(deps'))
    BY <1>2, <1>6, <2>1
  <2>3. PICK found : found = Once(got)
    OBVIOUS
  <2>4. found \in Seq(ToSet(deps')) /\ ToSet(found) = Needs(d) /\ Distinct(found)
    BY <2>1, <2>2, <2>3, OnceKeeps
  <2>5. \A j \in DOMAIN stack : stack[j].stmt # d =>
            \E h \in DOMAIN stack' : stack'[h].stmt = stack[j].stmt
    BY <1>2
  <2>6. d \in ToSet(deps') /\ ToSet(deps') = ToSet(deps) \cup {d}
    BY <1>6
  <2>7. QED
    BY <1>1, <1>2, <2>3, <2>4, <2>5, <2>6, PrereqsGrow
<1>11. UsersOK'
  <2>1. Taken(d)
    <3>1. at - 1 \in 1..(at - 1)
      BY <1>4
    <3>2. QED
      BY <1>4, <3>1 DEF Taken
  <2>2. \A s \in Users \cup {d} : Taken(s) /\ s < Root /\ Vars(s) # {}
    BY <1>1, <1>4, <2>1 DEF UsersOK
  <2>3. at - 1 <= Len(Executable)
    BY <1>1 DEF UsersOK
  <2>4. QED
    BY <1>2, <1>4, <1>6, <1>7, <2>2, <2>3, SameProgram DEF UsersOK
<1>12. BaseOK'
  <2>1. /\ Behind({Root}) \subseteq Decls
        /\ \A s \in Before(Root) : Touches(s, Behind({Root})) =>
              \/ s \in ToSet(deps)
              \/ ~Taken(s)
              \/ s = d
    BY <1>1, <1>2 DEF BaseOK, Busy
  <2>2. QED
    BY <1>2, <1>6, <1>7, <2>1, SameProgram DEF BaseOK
<1>13. MinimalOK'
  <2>1. ASSUME NEW t \in SUBSET DOMAIN Code, Closed(t), Root \in t, Users \cup {d} \subseteq t
        PROVE  ToSet(deps) \cup {d} \subseteq t
    BY <1>1, <1>2, <2>1 DEF MinimalOK
  <2>2. QED
    BY <1>2, <1>6, <2>1, SameProgram DEF MinimalOK
<1>14. SortOK'
  BY <1>2 DEF SortOK, Sorting, PlanOK
<1>15. QED
  BY <1>6, <1>8, <1>9, <1>10, <1>11, <1>12, <1>13, <1>14 DEF PlanOK

LEMMA CloseKeeps ==
    ASSUME input \in Inputs, PlanInv, CloseStmt
    PROVE  PlanInv'
<1>1. SUFFICES ASSUME Plain', step' \in Busy
               PROVE  PlanOK'
  BY DEF PlanInv
<1>2. input' = input /\ step \in {"resolve", "use"} /\ step \in Busy
  BY DEF CloseStmt, Busy
<1>3. Plain /\ PlanOK
  BY <1>1, <1>2, SameProgram DEF PlanInv
<1>4. QED
  BY <1>2, <1>3, ClosesInner, ClosesRoot, ClosesUser

-----------------------------------------------------------------------------
(* The second pass and the sort.                                           *)

LEMMA UseKeeps ==
    ASSUME input \in Inputs, PlanInv, UseStmt
    PROVE  PlanInv'
<1>1. SUFFICES ASSUME Plain', step' \in Busy
               PROVE  PlanOK'
  BY DEF PlanInv
<1> DEFINE s == Executable[at]
<1>2. /\ step = "use" /\ step \in Busy /\ stack = <<>> /\ at <= Len(Executable) /\ s <= Root
      /\ UNCHANGED <<input, step, deps, resolved, prereqs, degree, ready, order>>
      /\ at' = at + 1
      /\ stack' = IF Relevant(s) THEN <<Frame(s, ById(Code[s].args))>> ELSE <<>>
  BY DEF UseStmt, InReach, Root, Busy
<1>3. Plain /\ PlanOK
  BY <1>1, <1>2, SameProgram DEF PlanInv
<1>4. /\ DepsOK /\ ResolvedOK /\ StackOK /\ PrereqsOK /\ UsersOK /\ BaseOK /\ MinimalOK
      /\ ~InUse /\ at \in Nat \ {0}
  BY <1>2, <1>3 DEF PlanOK, InUse, UsersOK
<1>5. /\ Executable \in Seq(DOMAIN Code) /\ DOMAIN Executable = 1..Len(Executable)
      /\ Len(Executable) \in Nat /\ Distinct(Executable)
  BY <1>3, ExecutableLists
<1>6. at \in DOMAIN Executable /\ s \in DOMAIN Code /\ s \in ToSet(Executable)
  <2>1. at \in DOMAIN Executable
    BY <1>2, <1>4, <1>5
  <2>2. QED
    BY <1>5, <2>1 DEF ToSet
<1>7. /\ Root' = Root /\ Decls' = Decls /\ Users' = Users /\ DepsOK' /\ ResolvedOK'
  BY <1>2, <1>4, SameDeps
<1>8. \A t : Taken(t)' <=> Taken(t) \/ t = s
  <2>1. Executable' = Executable
    BY <1>2, SameProgram
  <2>2. \A j : j \in 1..(at' - 1) <=> j \in 1..(at - 1) \/ j = at
    BY <1>2, <1>4
  <2>3. QED
    BY <2>1, <2>2 DEF Taken
<1>9. ~Taken(s)
  <2>1. ASSUME NEW j \in 1..(at - 1), Executable[j] = s
        PROVE  FALSE
    <3>1. j \in DOMAIN Executable /\ j # at
      BY <1>4, <1>5, <1>6
    <3>2. QED
      BY <1>5, <1>6, <2>1, <3>1 DEF Distinct
  <2>2. QED
    BY <2>1 DEF Taken
<1>10. Relevant(s) => Code[s].kind \in Running /\ Vars(s) # {} /\ s # Root /\ s < Root
  <2>1. SUFFICES ASSUME Relevant(s)
                 PROVE  Code[s].kind \in Running /\ Vars(s) # {} /\ s # Root /\ s < Root
    OBVIOUS
  <2>2. Code[s].kind \in Running /\ ToSet(Code[s].args) # {}
    BY <2>1 DEF Relevant, Running
  <2>3. Vars(s) # {}
    BY <1>3, <1>6, <2>2, Program
  <2>4. s # Root /\ Root \in DOMAIN Code
    <3>1. Code[Root].kind \in Declaring /\ 1 \in DOMAIN deps
      BY <1>4 DEF DepsOK
    <3>2. QED
      BY <1>4, <2>2, <3>1 DEF Declaring, Running, DepsOK, Root
  <2>5. s < Root
    <3>1. DOMAIN Code = 1..Len(Code) /\ Len(Code) \in Nat
      BY <1>3, Program
    <3>2. QED
      BY <1>2, <1>6, <2>4, <3>1
  <2>6. QED
    BY <2>2, <2>3, <2>4, <2>5
<1>11. Relevant(s) =>
          \E f \in Frames : /\ stack' = <<f>> /\ FrameOK(f) /\ f.stmt = s /\ f.got = <<>>
  BY <1>2, <1>3, <1>6, <1>10, NewUser
<1>12. /\ InUse' <=> Relevant(s)
       /\ InUse' => Bottom' = s
  <2>1. CASE Relevant(s)
    <3>1. PICK f \in Frames : stack' = <<f>> /\ f.stmt = s
      BY <1>11, <2>1
    <3>2. stack' # <<>> /\ Bottom' = s
      <4>1. Len(<<f>>) = 1 /\ <<f>>[1] = f /\ <<f>> # <<>>
        OBVIOUS
      <4>2. QED
        BY <3>1, <4>1 DEF Bottom
    <3>3. QED
      BY <1>2, <2>1, <3>2 DEF InUse
  <2>2. CASE ~Relevant(s)
    BY <1>2, <2>2 DEF InUse
  <2>3. QED
    BY <2>1, <2>2
<1>13. StackOK'
  <2>1. CASE Relevant(s)
    <3>1. PICK f \in Frames : stack' = <<f>> /\ FrameOK(f) /\ f.stmt = s /\ f.got = <<>>
      BY <1>11, <2>1
    <3>2. /\ stack' \in Seq(Frames) /\ DOMAIN stack' = 1..1 /\ Len(stack') = 1
          /\ stack'[1] = f
      BY <3>1
    <3>3. /\ \A j \in DOMAIN stack' : j = 1
          /\ 1..(Len(stack') - 1) = {}
      BY <3>2
    <3>4. ToSet(f.got) = {}
      BY <3>1 DEF ToSet
    <3>5. QED
      BY <1>2, <3>1, <3>2, <3>3, <3>4, SameProgram DEF StackOK
  <2>2. CASE ~Relevant(s)
    BY <1>2, <2>2 DEF StackOK
  <2>3. QED
    BY <2>1, <2>2
<1>14. PrereqsOK'
  <2>1. DOMAIN stack = {}
    BY <1>2
  <2>2. QED
    BY <1>2, <1>4, <2>1, SameProgram DEF PrereqsOK, Distinct
<1>15. UsersOK'
  <2>1. at' \in Nat \ {0} /\ at' - 1 = at /\ at' # 1
    BY <1>2, <1>4
  <2>2. \A t \in Users : Taken(t) /\ t < Root /\ Vars(t) # {}
    BY <1>4 DEF UsersOK
  <2>3. \A t \in Users : t # s
    BY <1>9, <2>2
  <2>4. QED
    BY <1>2, <1>7, <1>8, <1>10, <1>12, <2>1, <2>2, <2>3, SameProgram DEF UsersOK
<1>16. BaseOK'
  <2>1. /\ Behind({Root}) \subseteq Decls
        /\ \A t \in Before(Root) : Touches(t, Behind({Root})) =>
              t \in ToSet(deps) \/ ~Taken(t)
    BY <1>2, <1>4 DEF BaseOK, Busy
  <2>2. s \in Before(Root) /\ Touches(s, Behind({Root})) => Relevant(s)
    <3>1. SUFFICES ASSUME s \in Before(Root), Touches(s, Behind({Root}))
                   PROVE  Relevant(s)
      OBVIOUS
    <3>2. PICK v \in Code[s].uses : DeclOf(v) \in Decls
      BY <2>1, <3>1 DEF Touches
    <3>3. v \in DOMAIN main.id /\ v \in ToSet(Code[s].args)
      <4>1. v \in Vars(s)
        BY <1>3, <1>6, <3>2, Program
      <4>2. QED
        BY <1>3, <1>6, <4>1, Program DEF Vars
    <3>4. Id(v) \in DOMAIN resolved
      BY <1>3, <1>4, <3>2, <3>3, KnownByDecl
    <3>5. Code[s].kind \in {"control", "expr"}
      BY <3>1 DEF Before
    <3>6. QED
      BY <3>3, <3>4, <3>5 DEF Relevant
  <2>3. \A t \in Before(Root) : Touches(t, Behind({Root})) =>
           t \in ToSet(deps) \/ ~Taken(t)' \/ (InUse' /\ t = Bottom')
    BY <1>8, <1>12, <2>1, <2>2
  <2>4. QED
    BY <1>2, <1>7, <2>1, <2>3, SameProgram DEF BaseOK
<1>17. MinimalOK'
  BY <1>2, <1>4, <1>7, SameProgram DEF MinimalOK
<1>18. SortOK'
  BY <1>2, <1>3 DEF SortOK, Sorting, PlanOK
<1>19. QED
  BY <1>7, <1>13, <1>14, <1>15, <1>16, <1>17, <1>18 DEF PlanOK

\* A sequence without repetitions is as long as its set is large.
LEMMA DistinctCounts ==
    ASSUME NEW S, NEW seq \in Seq(S), Distinct(seq)
    PROVE  /\ IsFiniteSet(ToSet(seq)) /\ Cardinality(ToSet(seq)) = Len(seq)
           /\ Len(seq) \in Nat
<1>1. DOMAIN seq = 1..Len(seq) /\ Len(seq) \in Nat
  OBVIOUS
<1>0. PICK n : n \in Nat /\ n = Len(seq)
  BY <1>1
<1>2. PICK f : n \in Nat /\ n = Len(seq) /\ f = [i \in 1..n |-> seq[i]]
  BY <1>0
<1>3. f \in Bijection(1..n, ToSet(seq))
  <2>1. \A i \in 1..n : f[i] \in ToSet(seq)
    BY <1>1, <1>2 DEF ToSet
  <2>2. \A i, j \in 1..n : f[i] = f[j] => i = j
    BY <1>1, <1>2 DEF Distinct
  <2>3. \A x \in ToSet(seq) : \E i \in 1..n : f[i] = x
    BY <1>1, <1>2 DEF ToSet
  <2>4. f \in [1..n -> ToSet(seq)]
    BY <1>2, <2>1
  <2>5. QED
    BY <2>2, <2>3, <2>4 DEF Bijection, Injection, Surjection, IsInjective
<1>4. ExistsBijection(1..n, ToSet(seq))
  BY <1>3 DEF ExistsBijection
<1>5. IsFiniteSet(1..n) /\ Cardinality(1..n) = n
  <2>1. n \in Nat
    BY <1>2
  <2>2. \A m \in Nat : IsFiniteSet(1..m) /\ Cardinality(1..m) = m
    BY FS_Interval
  <2>3. QED
    BY <2>1, <2>2
<1>6. QED
  BY <1>1, <1>2, <1>4, <1>5, FS_Bijection

\* What a sequence without repetitions has at some of its places.
LEMMA PicksDistinct ==
    ASSUME NEW S, NEW seq \in Seq(S), Distinct(seq), NEW places, places \subseteq DOMAIN seq
    PROVE  /\ Pick(seq, places) \in Seq(S) /\ Distinct(Pick(seq, places))
           /\ ToSet(Pick(seq, places)) = {seq[p] : p \in places}
<1>1. PICK n, A, picked :
         /\ n = Cardinality(places) /\ A = Ascending(places) /\ picked = Pick(seq, places)
  OBVIOUS
<1>2. /\ picked \in Seq(S) /\ n \in Nat /\ Len(picked) = n
      /\ ToSet(picked) = {seq[p] : p \in places}
      /\ \A i \in 1..n : A[i] \in places /\ picked[i] = seq[A[i]]
      /\ \A i, j \in 1..n : i < j => A[i] < A[j]
  <2>1. /\ Pick(seq, places) \in Seq(S) /\ Cardinality(places) \in Nat
        /\ Len(Pick(seq, places)) = Cardinality(places)
        /\ ToSet(Pick(seq, places)) = {seq[p] : p \in places}
        /\ \A i \in 1..Cardinality(places) :
              /\ Ascending(places)[i] \in places
              /\ Pick(seq, places)[i] = seq[Ascending(places)[i]]
        /\ \A i, j \in 1..Cardinality(places) :
              i < j => Ascending(places)[i] < Ascending(places)[j]
    BY PickLists
  <2>2. QED
    BY <1>1, <2>1
<1>3. \A p \in places : p \in Nat
  <2>1. DOMAIN seq = 1..Len(seq)
    OBVIOUS
  <2>2. QED
    BY <2>1
<1>4. ASSUME NEW i \in 1..n, NEW j \in 1..n, picked[i] = picked[j]
      PROVE  i = j
  <2>1. A[i] = A[j]
    BY <1>2, <1>4 DEF Distinct
  <2>2. A[i] \in Nat /\ A[j] \in Nat
    BY <1>2, <1>3
  <2>3. ~(A[i] < A[j]) /\ ~(A[j] < A[i])
    BY <2>1, <2>2
  <2>4. ~(i < j) /\ ~(j < i)
    BY <1>2, <2>3
  <2>5. QED
    BY <1>2, <2>4
<1>5. DOMAIN picked = 1..n
  BY <1>2
<1>6. Distinct(picked)
  BY <1>4, <1>5 DEF Distinct
<1>7. QED
  BY <1>1, <1>2, <1>6

LEMMA StartSortKeeps ==
    ASSUME input \in Inputs, PlanInv, StartSort
    PROVE  PlanInv'
<1>1. SUFFICES ASSUME Plain', step' \in Busy
               PROVE  PlanOK'
  BY DEF PlanInv
<1> DEFINE free == {p \in DOMAIN deps : prereqs[deps[p]] = <<>>}
<1>2. /\ step = "use" /\ step \in Busy /\ step' = "sort" /\ stack = <<>> /\ stack' = <<>>
      /\ UNCHANGED <<input, stack, deps, resolved, prereqs, at, order>>
      /\ degree' = [s \in ToSet(deps) |-> Len(prereqs[s])]
      /\ ready' = Pick(deps, free)
  BY DEF StartSort, Busy
<1>3. Plain /\ PlanOK
  BY <1>1, <1>2, SameProgram DEF PlanInv
<1>4. /\ DepsOK /\ ResolvedOK /\ StackOK /\ PrereqsOK /\ UsersOK /\ BaseOK /\ MinimalOK
      /\ ~InUse /\ ~InUse' /\ at \in Nat \ {0} /\ order = <<>>
  BY <1>2, <1>3 DEF PlanOK, InUse, UsersOK, SortOK
<1>5. /\ Root' = Root /\ Decls' = Decls /\ Users' = Users /\ DepsOK' /\ ResolvedOK'
      /\ \A t : Taken(t)' <=> Taken(t)
  BY <1>2, <1>4, SameDeps
<1>6. StackOK'
  BY <1>2 DEF StackOK
<1>7. PrereqsOK'
  BY <1>2, <1>4, SameProgram DEF PrereqsOK, Distinct
<1>8. UsersOK'
  BY <1>2, <1>4, <1>5, SameProgram DEF UsersOK
<1>9. BaseOK'
  <2>1. ASSUME NEW s \in Before(Root), ~Taken(s)
        PROVE  FALSE
    <3>1. PICK e \in Seq(DOMAIN Code) :
             /\ e = Executable /\ DOMAIN e = 1..Len(e) /\ Len(e) \in Nat
             /\ \A i, j \in DOMAIN e : i < j => e[i] < e[j]
      BY <1>3, ExecutableLists
    <3>2. PICK i \in DOMAIN e : e[i] = s
      BY <2>1, <3>1 DEF Before, ToSet
    <3>3. s < Root
      BY <2>1 DEF Before
    <3>4. ~(i \in 1..(at - 1))
      BY <2>1, <3>1, <3>2 DEF Taken
    <3>5. at <= i /\ at <= Len(e) /\ at \in DOMAIN e
      BY <1>4, <3>1, <3>2, <3>4
    <3>6. ~(e[at] <= Root)
      BY <1>2, <3>1, <3>5 DEF StartSort, InReach, Root
    <3>7. /\ \A j \in DOMAIN e : e[j] \in Nat
          /\ Root \in Nat
      <4>1. DOMAIN Code = 1..Len(Code) /\ Len(Code) \in Nat
        BY <1>3, Program
      <4>2. Root \in DOMAIN Code
        <5>1. 1 \in DOMAIN deps
          BY <1>4 DEF DepsOK
        <5>2. QED
          BY <1>4, <5>1 DEF DepsOK, Root
      <4>3. QED
        BY <3>1, <4>1, <4>2
    <3>8. CASE i = at
      BY <3>2, <3>3, <3>5, <3>6, <3>7, <3>8
    <3>9. CASE i # at
      <4>1. at < i
        BY <3>1, <3>5, <3>9
      <4>2. e[at] < e[i]
        BY <3>1, <3>5, <4>1
      <4>3. QED
        BY <3>2, <3>3, <3>5, <3>6, <3>7, <4>2
    <3>10. QED
      BY <3>8, <3>9
  <2>2. /\ Behind({Root}) \subseteq Decls
        /\ \A s \in Before(Root) : Touches(s, Behind({Root})) =>
              s \in ToSet(deps) \/ ~Taken(s)
    BY <1>2, <1>4 DEF BaseOK, Busy
  <2>3. QED
    BY <1>2, <1>5, <2>1, <2>2, SameProgram DEF BaseOK
<1>10. MinimalOK'
  BY <1>2, <1>4, <1>5, SameProgram DEF MinimalOK
<1>11. SortOK'
  <2>1. DOMAIN stack = {}
    BY <1>2
  <2>2. /\ DOMAIN prereqs = ToSet(deps)
        /\ \A m \in ToSet(deps) :
              /\ prereqs[m] \in Seq(ToSet(deps)) /\ Distinct(prereqs[m])
              /\ ToSet(prereqs[m]) = Needs(m)
    BY <1>4, <2>1 DEF PrereqsOK
  <2>3. deps \in Seq(ToSet(deps)) /\ Distinct(deps)
    BY <1>4 DEF DepsOK, ToSet
  <2>4. free \subseteq DOMAIN deps
    OBVIOUS
  <2>5. \A m \in ToSet(deps) : prereqs[m] = <<>> <=> Needs(m) = {}
    <3>1. ASSUME NEW m \in ToSet(deps)
          PROVE  prereqs[m] = <<>> <=> Needs(m) = {}
      <4>1. PICK q \in Seq(ToSet(deps)) : q = prereqs[m] /\ ToSet(q) = Needs(m)
        BY <2>2
      <4>2. q = <<>> => ToSet(q) = {}
        BY DEF ToSet
      <4>3. q # <<>> => 1 \in DOMAIN q
        OBVIOUS
      <4>4. q # <<>> => ToSet(q) # {}
        BY <4>3 DEF ToSet
      <4>5. QED
        BY <4>1, <4>2, <4>4
    <3>2. QED
      BY <3>1
  <2>6. {deps[p] : p \in free} = {m \in ToSet(deps) : Needs(m) = {}}
    BY <2>5 DEF ToSet
  <2> HIDE DEF free
  <2>7. /\ ready' \in Seq(ToSet(deps)) /\ Distinct(ready')
        /\ ToSet(ready') = {m \in ToSet(deps) : Needs(m) = {}}
    BY <1>2, <2>3, <2>4, <2>6, PicksDistinct
  <2>8. ToSet(order) = {} /\ DOMAIN order = {} /\ order \in Seq(ToSet(deps)) /\ Distinct(order)
    BY <1>4 DEF ToSet, Distinct
  <2>9. DOMAIN degree' = ToSet(deps)
    BY <1>2
  <2>10. ASSUME NEW m \in ToSet(deps)
         PROVE  /\ degree'[m] = Cardinality(Needs(m) \ ToSet(order))
                /\ Needs(m) \subseteq ToSet(order) <=> m \in ToSet(order) \cup ToSet(ready')
    <3>1. Needs(m) \ ToSet(order) = Needs(m)
      BY <2>8
    <3>2. degree'[m] = Len(prereqs[m])
      BY <1>2
    <3>3. Cardinality(ToSet(prereqs[m])) = Len(prereqs[m])
      BY <2>2, DistinctCounts
    <3>4. QED
      BY <2>2, <2>7, <2>8, <3>1, <3>2, <3>3
  <2>11. /\ Distinct(order)' /\ Distinct(ready)'
    BY <1>2, <2>7, <2>8 DEF Distinct
  <2>12. QED
    BY <1>2, <2>2, <2>7, <2>8, <2>9, <2>10, <2>11, SameProgram DEF SortOK
<1>12. QED
  BY <1>5, <1>6, <1>7, <1>8, <1>9, <1>10, <1>11 DEF PlanOK

LEMMA ConcatLists ==
    ASSUME NEW S, NEW a \in Seq(S), NEW b \in Seq(S)
    PROVE  /\ a \o b \in Seq(S) /\ Len(a) \in Nat /\ Len(b) \in Nat
           /\ DOMAIN (a \o b) = 1..(Len(a) + Len(b))
           /\ \A i \in 1..(Len(a) + Len(b)) :
                 (a \o b)[i] = IF i <= Len(a) THEN a[i] ELSE b[i - Len(a)]
OBVIOUS

LEMMA ConcatKeeps ==
    ASSUME NEW S, NEW a \in Seq(S), NEW b \in Seq(S), Distinct(a), Distinct(b),
           ToSet(a) \cap ToSet(b) = {}
    PROVE  /\ a \o b \in Seq(S) /\ ToSet(a \o b) = ToSet(a) \cup ToSet(b)
           /\ Distinct(a \o b)
<1>1. PICK m, n, c :
         /\ m \in Nat /\ n \in Nat
         /\ m = Len(a) /\ n = Len(b) /\ c = a \o b
         /\ DOMAIN a = 1..m /\ DOMAIN b = 1..n
  <2>1. Len(a) \in Nat /\ DOMAIN a = 1..Len(a)
    OBVIOUS
  <2>2. Len(b) \in Nat /\ DOMAIN b = 1..Len(b)
    OBVIOUS
  <2>3. QED
    BY <2>1, <2>2
<1>2. /\ c \in Seq(S) /\ DOMAIN c = 1..(m + n) /\ Len(c) = m + n
      /\ \A i \in 1..(m + n) : c[i] = IF i <= m THEN a[i] ELSE b[i - m]
  BY <1>1
<1>3. ASSUME NEW i \in 1..(m + n)
      PROVE  \/ i \in 1..m /\ i <= m /\ c[i] = a[i]
             \/ i - m \in 1..n /\ ~(i <= m) /\ c[i] = b[i - m]
  BY <1>1, <1>2
<1>4. ToSet(c) \subseteq ToSet(a) \cup ToSet(b)
  <2>1. ASSUME NEW i \in 1..(m + n)
        PROVE  c[i] \in ToSet(a) \cup ToSet(b)
    BY <1>1, <1>3 DEF ToSet
  <2>2. QED
    BY <1>2, <2>1 DEF ToSet
<1>5. ToSet(a) \subseteq ToSet(c)
  <2>1. ASSUME NEW i \in 1..m
        PROVE  a[i] \in ToSet(c)
    <3>1. i \in 1..(m + n) /\ i <= m
      BY <1>1
    <3>2. c[i] = a[i]
      BY <1>2, <3>1
    <3>3. QED
      BY <1>2, <3>1, <3>2 DEF ToSet
  <2>2. QED
    BY <1>1, <2>1 DEF ToSet
<1>6. ToSet(b) \subseteq ToSet(c)
  <2>1. ASSUME NEW i \in 1..n
        PROVE  b[i] \in ToSet(c)
    <3>1. PICK j : j = i + m
      OBVIOUS
    <3>2. j \in 1..(m + n) /\ ~(j <= m) /\ j - m = i
      BY <1>1, <3>1
    <3>3. c[j] = b[i]
      BY <1>2, <3>2
    <3>4. QED
      BY <1>2, <3>2, <3>3 DEF ToSet
  <2>2. QED
    BY <1>1, <2>1 DEF ToSet
<1>7. ASSUME NEW i \in 1..(m + n), NEW j \in 1..(m + n), c[i] = c[j]
      PROVE  i = j
  <2>1. CASE i <= m /\ j <= m
    <3>1. i \in DOMAIN a /\ j \in DOMAIN a /\ a[i] = a[j]
      BY <1>1, <1>3, <1>7, <2>1
    <3>2. QED
      BY <3>1 DEF Distinct
  <2>2. CASE ~(i <= m) /\ ~(j <= m)
    <3>1. i - m \in DOMAIN b /\ j - m \in DOMAIN b /\ b[i - m] = b[j - m]
      BY <1>1, <1>3, <1>7, <2>2
    <3>2. i - m = j - m
      BY <3>1 DEF Distinct
    <3>3. QED
      BY <1>1, <3>2
  <2>3. CASE i <= m /\ ~(j <= m)
    <3>1. i \in DOMAIN a /\ j - m \in DOMAIN b /\ a[i] = b[j - m]
      BY <1>1, <1>3, <1>7, <2>3
    <3>2. QED
      BY <3>1 DEF ToSet
  <2>4. CASE ~(i <= m) /\ j <= m
    <3>1. j \in DOMAIN a /\ i - m \in DOMAIN b /\ a[j] = b[i - m]
      BY <1>1, <1>3, <1>7, <2>4
    <3>2. QED
      BY <3>1 DEF ToSet
  <2>5. QED
    BY <2>1, <2>2, <2>3, <2>4
<1>8. Distinct(c)
  BY <1>2, <1>7 DEF Distinct
<1>9. QED
  BY <1>1, <1>2, <1>4, <1>5, <1>6, <1>8

\* The sort places a statement: what waited for it alone is ready.
LEMMA SortStmtKeeps ==
    ASSUME input \in Inputs, PlanInv, SortStmt
    PROVE  PlanInv'
<1>1. SUFFICES ASSUME Plain', step' \in Busy
               PROVE  PlanOK'
  BY DEF PlanInv
<1>2. PICK s, left :
         /\ step = "sort" /\ step \in Busy /\ ready # <<>> /\ s = Head(ready)
         /\ left = [m \in DOMAIN degree |->
                       IF m # s /\ s \in ToSet(prereqs[m]) THEN degree[m] - 1 ELSE degree[m]]
         /\ degree' = left /\ ready' = Tail(ready) \o NewlyReady(s, left)
         /\ order' = Append(order, s)
         /\ UNCHANGED <<input, step, stack, deps, resolved, prereqs, at>>
  BY DEF SortStmt, Busy
<1>3. Plain /\ PlanOK
  BY <1>1, <1>2, SameProgram DEF PlanInv
<1>4. /\ DepsOK /\ ResolvedOK /\ StackOK /\ PrereqsOK /\ UsersOK /\ BaseOK /\ MinimalOK
      /\ ~InUse /\ ~InUse'
  BY <1>2, <1>3 DEF PlanOK, InUse
<1>5. /\ Root' = Root /\ Decls' = Decls /\ Users' = Users /\ DepsOK' /\ ResolvedOK'
      /\ \A t : Taken(t)' <=> Taken(t)
  BY <1>2, <1>4, SameDeps
<1>6. StackOK'
  BY <1>2, <1>4 DEF StackOK
<1>7. PrereqsOK'
  BY <1>2, <1>4, SameProgram DEF PrereqsOK, Distinct
<1>8. UsersOK'
  BY <1>2, <1>4, <1>5, SameProgram DEF UsersOK
<1>9. BaseOK'
  BY <1>2, <1>4, <1>5, SameProgram DEF BaseOK
<1>10. MinimalOK'
  BY <1>2, <1>4, <1>5, SameProgram DEF MinimalOK
<1>11. /\ DOMAIN prereqs = ToSet(deps) /\ DOMAIN degree = ToSet(deps)
       /\ order \in Seq(ToSet(deps)) /\ ready \in Seq(ToSet(deps))
       /\ Distinct(order) /\ Distinct(ready) /\ ToSet(order) \cap ToSet(ready) = {}
       /\ \A m \in ToSet(deps) :
             /\ degree[m] = Cardinality(Needs(m) \ ToSet(order))
             /\ Needs(m) \subseteq ToSet(order) <=> m \in ToSet(order) \cup ToSet(ready)
       /\ \A i \in DOMAIN order : \A d \in Needs(order[i]) :
             \E j \in 1..(i - 1) : order[j] = d
  BY <1>2, <1>3 DEF PlanOK, SortOK, Sorting
<1>12. /\ Tail(ready) \in Seq(ToSet(deps)) /\ s \in ToSet(deps) /\ Distinct(Tail(ready))
       /\ ToSet(ready) = {s} \cup ToSet(Tail(ready)) /\ s \notin ToSet(Tail(ready))
  BY <1>2, <1>11, TailKeeps
<1>13. s \in ToSet(ready) /\ s \notin ToSet(order) /\ Needs(s) \subseteq ToSet(order)
  BY <1>11, <1>12
<1>14. /\ order' \in Seq(ToSet(deps)) /\ ToSet(order') = ToSet(order) \cup {s}
       /\ Distinct(order') /\ Len(order') = Len(order) + 1 /\ Len(order) \in Nat
       /\ \A i \in DOMAIN order : order'[i] = order[i]
  BY <1>2, <1>11, <1>12, <1>13, AppendKeeps
<1>15. \A m \in ToSet(deps) :
          /\ ToSet(prereqs[m]) = Needs(m) /\ IsFiniteSet(Needs(m))
  <2>1. ASSUME NEW m \in ToSet(deps)
        PROVE  ToSet(prereqs[m]) = Needs(m) /\ IsFiniteSet(Needs(m))
    <3>1. /\ prereqs[m] \in Seq(ToSet(deps)) /\ Distinct(prereqs[m])
          /\ ToSet(prereqs[m]) = Needs(m)
      BY <1>4, <1>11 DEF PrereqsOK
    <3>2. QED
      BY <3>1, DistinctCounts
  <2>2. QED
    BY <2>1
<1>16. \A m \in ToSet(deps) : s \in Needs(m) => m # s
  BY <1>13
<1>17. ASSUME NEW m \in ToSet(deps)
       PROVE  left[m] = Cardinality(Needs(m) \ ToSet(order'))
  <2>1. IsFiniteSet(Needs(m) \ ToSet(order))
    BY <1>15, FS_Subset
  <2>2. Needs(m) \ ToSet(order') = (Needs(m) \ ToSet(order)) \ {s}
    BY <1>14
  <2>3. Cardinality(Needs(m) \ ToSet(order'))
        = IF s \in Needs(m) \ ToSet(order) THEN degree[m] - 1 ELSE degree[m]
    <3>1. PICK open : open = Needs(m) \ ToSet(order)
      OBVIOUS
    <3>2. Cardinality(open \ {s}) =
             IF s \in open THEN Cardinality(open) - 1 ELSE Cardinality(open)
      BY <2>1, <3>1, FS_RemoveElement
    <3>3. QED
      BY <1>11, <2>2, <3>1, <3>2
  <2>4. left[m] = IF s \in Needs(m) THEN degree[m] - 1 ELSE degree[m]
    BY <1>2, <1>11, <1>15, <1>16
  <2>5. QED
    BY <1>13, <2>3, <2>4
<1> DEFINE free == {p \in DOMAIN deps : /\ deps[p] # s /\ s \in ToSet(prereqs[deps[p]])
                                        /\ left[deps[p]] = 0}
<1>18. PICK new :
          /\ new = NewlyReady(s, left) /\ new \in Seq(ToSet(deps)) /\ Distinct(new)
          /\ ToSet(new) = {m \in ToSet(deps) : s \in Needs(m) /\ left[m] = 0}
  <2>1. deps \in Seq(ToSet(deps)) /\ Distinct(deps)
    BY <1>4 DEF DepsOK, ToSet
  <2>2. \A p \in DOMAIN deps : deps[p] \in ToSet(deps)
    BY DEF ToSet
  <2>3. NewlyReady(s, left) = Pick(deps, free) /\ free \subseteq DOMAIN deps
    BY DEF NewlyReady
  <2>4. \A m \in ToSet(deps) : \E p \in DOMAIN deps : deps[p] = m
    BY DEF ToSet
  <2>5. \A p \in free : deps[p] \in ToSet(deps) /\ s \in Needs(deps[p]) /\ left[deps[p]] = 0
    BY <1>15, <2>2
  <2>6. ASSUME NEW m \in ToSet(deps), s \in Needs(m), left[m] = 0
        PROVE  \E p \in free : deps[p] = m
    BY <1>15, <1>16, <2>4, <2>6
  <2> HIDE DEF free
  <2>7. {deps[p] : p \in free} = {m \in ToSet(deps) : s \in Needs(m) /\ left[m] = 0}
    BY <2>5, <2>6
  <2>8. QED
    BY <2>1, <2>3, <2>7, PicksDistinct
<1>19. \A m \in ToSet(deps) :
          left[m] = 0 <=> Needs(m) \subseteq ToSet(order')
  <2>1. ASSUME NEW m \in ToSet(deps)
        PROVE  left[m] = 0 <=> Needs(m) \subseteq ToSet(order')
    <3>1. IsFiniteSet(Needs(m) \ ToSet(order'))
      BY <1>15, FS_Subset
    <3>2. left[m] = 0 <=> Needs(m) \ ToSet(order') = {}
      BY <1>17, <3>1, FS_EmptySet
    <3>3. QED
      BY <3>2
  <2>2. QED
    BY <2>1
<1>20. \A m \in ToSet(new) : m \notin ToSet(order) /\ m \notin ToSet(ready)
  BY <1>11, <1>13, <1>18
<1>21. /\ ready' \in Seq(ToSet(deps)) /\ Distinct(ready')
       /\ ToSet(ready') = ToSet(Tail(ready)) \cup ToSet(new)
  <2>1. PICK rest : rest = Tail(ready)
    OBVIOUS
  <2>2. ToSet(rest) \cap ToSet(new) = {} /\ ready' = rest \o new
    BY <1>2, <1>12, <1>18, <1>20, <2>1
  <2>3. rest \in Seq(ToSet(deps)) /\ Distinct(rest)
    BY <1>12, <2>1
  <2>4. /\ rest \o new \in Seq(ToSet(deps)) /\ Distinct(rest \o new)
        /\ ToSet(rest \o new) = ToSet(rest) \cup ToSet(new)
    BY <1>18, <2>2, <2>3, ConcatKeeps
  <2>5. QED
    BY <2>1, <2>2, <2>4
<1>22. ToSet(order') \cap ToSet(ready') = {}
  BY <1>11, <1>12, <1>14, <1>20, <1>21
<1>23. ASSUME NEW m \in ToSet(deps)
       PROVE  Needs(m) \subseteq ToSet(order') <=> m \in ToSet(order') \cup ToSet(ready')
  <2>1. ASSUME Needs(m) \subseteq ToSet(order')
        PROVE  m \in ToSet(order') \cup ToSet(ready')
    <3>1. CASE s \in Needs(m)
      BY <1>18, <1>19, <1>21, <2>1, <3>1
    <3>2. CASE s \notin Needs(m)
      <4>1. Needs(m) \subseteq ToSet(order)
        BY <1>14, <2>1, <3>2
      <4>2. QED
        BY <1>11, <1>12, <1>14, <1>21, <4>1
    <3>3. QED
      BY <3>1, <3>2
  <2>2. ASSUME m \in ToSet(order') \cup ToSet(ready')
        PROVE  Needs(m) \subseteq ToSet(order')
    <3>1. m \in ToSet(order) \cup ToSet(ready) \/ m \in ToSet(new)
      BY <1>12, <1>13, <1>14, <1>21, <2>2
    <3>2. CASE m \in ToSet(order) \cup ToSet(ready)
      BY <1>11, <1>14, <3>2
    <3>3. CASE m \in ToSet(new)
      BY <1>18, <1>19, <3>3
    <3>4. QED
      BY <3>1, <3>2, <3>3
  <2>3. QED
    BY <2>1, <2>2
<1>24. ASSUME NEW i \in DOMAIN order', NEW d \in Needs(order'[i])
       PROVE  \E j \in 1..(i - 1) : order'[j] = d
  <2>1. /\ DOMAIN order = 1..Len(order) /\ DOMAIN order' = 1..(Len(order) + 1)
        /\ order'[Len(order) + 1] = s
    BY <1>2, <1>11, <1>14
  <2>2. CASE i \in DOMAIN order
    <3>1. PICK j \in 1..(i - 1) : order[j] = d
      BY <1>11, <1>14, <2>2, <1>24
    <3>2. j \in DOMAIN order
      BY <2>1, <2>2
    <3>3. QED
      BY <1>14, <3>1, <3>2
  <2>3. CASE i \notin DOMAIN order
    <3>1. i = Len(order) + 1
      BY <1>14, <2>1, <2>3
    <3>2. d \in Needs(s)
      BY <1>24, <2>1, <3>1
    <3>3. PICK j \in DOMAIN order : order[j] = d
      BY <1>13, <3>2 DEF ToSet
    <3>4. j \in 1..(i - 1)
      BY <1>14, <2>1, <3>1
    <3>5. QED
      BY <1>14, <3>3, <3>4
  <2>4. QED
    BY <2>2, <2>3
<1>25. SortOK'
  <2>1. /\ DOMAIN prereqs' = ToSet(deps) /\ DOMAIN degree' = ToSet(deps)
    BY <1>2, <1>11
  <2>2. Distinct(order)' /\ Distinct(ready)'
    BY <1>14, <1>21 DEF Distinct
  <2>3. \A m \in ToSet(deps) : degree'[m] = Cardinality(Needs(m) \ ToSet(order'))
    BY <1>2, <1>17
  <2>4. step' = "sort" /\ deps' = deps /\ input' = input
    BY <1>2
  <2>5. QED
    BY <1>14, <1>21, <1>22, <1>23, <1>24, <2>1, <2>2, <2>3, <2>4, SameProgram DEF SortOK
<1>26. QED
  BY <1>5, <1>6, <1>7, <1>8, <1>9, <1>10, <1>25 DEF PlanOK

\* Nothing rests on itself, so that everything has been placed.
LEMMA EndSortKeeps ==
    ASSUME input \in Inputs, PlanInv, EndSort
    PROVE  PlanInv'
<1>1. SUFFICES ASSUME Plain', step' \in Busy
               PROVE  PlanOK'
  BY DEF PlanInv
<1>2. /\ step = "sort" /\ step \in Busy /\ ready = <<>>
      /\ step' = IF Len(order) = Len(deps) THEN "planned" ELSE "circular"
      /\ UNCHANGED <<input, stack, deps, resolved, prereqs, at, degree, ready, order>>
  BY DEF EndSort, Busy
<1>3. Plain /\ PlanOK
  BY <1>1, <1>2, SameProgram DEF PlanInv
<1>4. /\ DepsOK /\ ResolvedOK /\ StackOK /\ PrereqsOK /\ UsersOK /\ BaseOK /\ MinimalOK
      /\ SortOK /\ ~InUse /\ ~InUse'
  BY <1>2, <1>3 DEF PlanOK, InUse
<1>5. /\ Root' = Root /\ Decls' = Decls /\ Users' = Users /\ DepsOK' /\ ResolvedOK'
      /\ \A t : Taken(t)' <=> Taken(t)
  BY <1>2, <1>4, SameDeps
<1>6. StackOK'
  BY <1>2, <1>4 DEF StackOK
<1>7. PrereqsOK'
  BY <1>2, <1>4, SameProgram DEF PrereqsOK, Distinct
<1>8. UsersOK'
  BY <1>2, <1>4, <1>5, SameProgram DEF UsersOK
<1>9. BaseOK'
  BY <1>2, <1>4, <1>5, SameProgram DEF BaseOK
<1>10. MinimalOK'
  BY <1>2, <1>4, <1>5, SameProgram DEF MinimalOK
<1>11. /\ DOMAIN prereqs = ToSet(deps)
       /\ order \in Seq(ToSet(deps)) /\ Distinct(order)
       /\ \A m \in ToSet(deps) :
             Needs(m) \subseteq ToSet(order) <=> m \in ToSet(order) \cup ToSet(ready)
  BY <1>2, <1>4 DEF SortOK, Sorting
<1>12. ToSet(order) = ToSet(deps)
  <2>1. ToSet(order) \subseteq ToSet(deps)
    BY <1>11 DEF ToSet
  <2>2. ToSet(ready) = {}
    BY <1>2 DEF ToSet
  <2> DEFINE open == ToSet(deps) \ ToSet(order)
  <2>3. ASSUME open # {}
        PROVE  FALSE
    <3>1. open \in SUBSET DOMAIN Code
      BY <1>4 DEF DepsOK, ToSet
    <3>2. PICK s \in open : Needs(s) \cap open = {}
      <4> HIDE DEF open
      <4>1. QED
        BY <1>3, <2>3, <3>1, NoCircle
    <3>3. Needs(s) \subseteq ToSet(deps)
      <4>1. s \in DOMAIN prereqs
        BY <1>11
      <4>2. prereqs[s] \in Seq(ToSet(deps)) /\ ToSet(prereqs[s]) = Needs(s)
        BY <1>4, <4>1 DEF PrereqsOK
      <4>3. ToSet(prereqs[s]) \subseteq ToSet(deps)
        BY <4>2 DEF ToSet
      <4>4. QED
        BY <4>2, <4>3
    <3>4. Needs(s) \subseteq ToSet(order)
      BY <3>2, <3>3
    <3>5. QED
      BY <1>11, <2>2, <3>2, <3>4
  <2>4. QED
    BY <2>1, <2>3
<1>13. step' = "planned"
  <2>1. deps \in Seq(DOMAIN Code) /\ Distinct(deps)
    BY <1>4 DEF DepsOK
  <2>2. Cardinality(ToSet(deps)) = Len(deps)
    BY <2>1, DistinctCounts
  <2>3. Cardinality(ToSet(order)) = Len(order)
    BY <1>11, DistinctCounts
  <2>4. QED
    BY <1>2, <1>12, <2>2, <2>3
<1>14. SortOK'
  <2>1. step \in Sorting /\ step' \in Sorting
    BY <1>2, <1>13 DEF Sorting
  <2>2. Distinct(order)' <=> Distinct(order)
    BY <1>2 DEF Distinct
  <2>3. Distinct(ready)' <=> Distinct(ready)
    BY <1>2 DEF Distinct
  <2>4. QED
    BY <1>2, <1>4, <1>12, <1>13, <2>1, <2>2, <2>3, SameProgram DEF SortOK
<1>15. QED
  BY <1>5, <1>6, <1>7, <1>8, <1>9, <1>10, <1>14 DEF PlanOK

\* A plan starts with its root.
LEMMA StartPlanKeeps ==
    ASSUME input \in Inputs, input' = input, NEW root \in DOMAIN Code, StartPlan(root)
    PROVE  PlanInv'
<1>1. SUFFICES ASSUME Plain', step' \in Busy
               PROVE  PlanOK'
  BY DEF PlanInv
<1>2. Plain
  BY <1>1, SameProgram
<1>3. /\ stack' = <<Frame(root, Code[root].args)>> /\ deps' = <<root>>
      /\ resolved' = [i \in {Id(v) : v \in Code[root].defs} |-> root]
      /\ prereqs' = NoPlan /\ at' = 1 /\ order' = <<>>
      /\ step' = IF Outcome(root, {}) = "open" THEN "resolve" ELSE Outcome(root, {})
  BY DEF StartPlan
<1>4. Outcome(root, {}) = "open" /\ step' = "resolve" /\ Code[root].kind \in Declaring
  <2>1. Outcome(root, {}) \in {"unsupported", "panic", "open"}
    BY DEF Outcome
  <2>2. Outcome(root, {}) = "open"
    BY <1>1, <1>3, <2>1 DEF Busy
  <2>3. Code[root].kind \in Declaring
    BY <2>2 DEF Outcome, Declaring
  <2>4. QED
    BY <1>3, <2>2, <2>3
<1>5. PICK f \in Frames : /\ stack' = <<f>> /\ FrameOK(f) /\ f.stmt = root /\ f.got = <<>>
  BY <1>2, <1>3, <1>4, NewFrame
<1>6. /\ stack' \in Seq(Frames) /\ DOMAIN stack' = {1} /\ Len(stack') = 1 /\ stack'[1] = f
      /\ stack' # <<>> /\ 1..(Len(stack') - 1) = {}
  BY <1>5
<1>7. /\ deps' \in Seq(DOMAIN Code) /\ DOMAIN deps' = {1} /\ Len(deps') # 0 /\ deps'[1] = root
      /\ ToSet(deps') = {root}
  <2>1. deps' \in Seq(DOMAIN Code) /\ Len(deps') = 1 /\ deps'[1] = root /\ DOMAIN deps' = {1}
    BY <1>3
  <2>2. QED
    BY <2>1 DEF ToSet
<1>8. Code' = Code /\ main' = main
  BY SameProgram
<1>9. Declaring \cap Running = {}
  BY DEF Declaring, Running
<1>10. Root' = root /\ Decls' = {root} /\ Users' = {}
  <2>1. Root' = root
    BY <1>7 DEF Root
  <2>2. QED
    BY <1>4, <1>7, <1>8, <1>9, <2>1 DEF Decls, Users
<1>11. DepsOK'
  <2>1. Distinct(deps)'
    BY <1>7 DEF Distinct
  <2>2. QED
    BY <1>4, <1>7, <1>8, <1>10, <2>1 DEF DepsOK
<1>12. ResolvedOK'
  <2>1. (UNION {Code[d].defs : d \in Decls})' = Code[root].defs
    BY <1>8, <1>10
  <2>2. {Id(v) : v \in UNION {Code[d].defs : d \in Decls}}' = {Id(v) : v \in Code[root].defs}
    BY <1>8, <2>1 DEF Id
  <2>3. \A d \in Decls' : \A v \in Code[d].defs : resolved'[Id(v)] = d
    BY <1>3, <1>10
  <2>4. DOMAIN resolved' = {Id(v) : v \in UNION {Code[d].defs : d \in Decls}}'
    BY <1>3, <2>2
  <2>5. QED
    BY <1>8, <2>3, <2>4, SameProgram DEF ResolvedOK
<1>13. StackOK'
  <2>1. Bottom' = root
    BY <1>5, <1>6 DEF Bottom
  <2>2. ToSet(f.got) = {}
    BY <1>5 DEF ToSet
  <2>3. QED
    BY <1>4, <1>5, <1>6, <1>10, <2>1, <2>2, SameProgram DEF StackOK
<1>14. PrereqsOK'
  <2>1. DOMAIN prereqs' = {}
    BY <1>3 DEF NoPlan
  <2>2. QED
    BY <1>5, <1>6, <1>7, <2>1 DEF PrereqsOK
<1>15. ~InUse'
  BY <1>4 DEF InUse
<1>16. UsersOK'
  <2>1. at' \in Nat \ {0} /\ at' - 1 = 0 /\ Len(Executable) \in Nat
    BY <1>2, <1>3, ExecutableLists
  <2>2. QED
    BY <1>3, <1>10, <1>15, <2>1, SameProgram DEF UsersOK
<1>17. BaseOK'
  BY <1>4 DEF BaseOK
<1>18. MinimalOK'
  BY <1>7, <1>10 DEF MinimalOK
<1>19. SortOK'
  BY <1>3, <1>4 DEF SortOK, Sorting
<1>20. QED
  BY <1>11, <1>12, <1>13, <1>14, <1>16, <1>17, <1>18, <1>19 DEF PlanOK

LEMMA PlanKept ==
    ASSUME PlanInv, step' = step \/ step' = "idle",
           UNCHANGED <<input, stack, deps, resolved, prereqs, at, degree, ready, order>>
    PROVE  PlanInv'
<1>1. SUFFICES ASSUME Plain', step' \in Busy
               PROVE  PlanOK'
  BY DEF PlanInv
<1>2. step' = step /\ Plain /\ PlanOK
  BY <1>1, SameProgram DEF PlanInv, Busy
<1>3. /\ Root' = Root /\ Decls' = Decls /\ Users' = Users /\ DepsOK' /\ ResolvedOK'
      /\ \A t : Taken(t)' <=> Taken(t)
  BY <1>2, SameDeps DEF PlanOK
<1>4. Bottom' = Bottom /\ (InUse' <=> InUse)
  BY <1>2 DEF Bottom, InUse
<1>5. StackOK'
  BY <1>2, <1>3, <1>4, SameProgram DEF StackOK, PlanOK
<1>6. PrereqsOK'
  BY <1>2, SameProgram DEF PrereqsOK, Distinct, PlanOK
<1>7. UsersOK'
  BY <1>2, <1>3, <1>4, SameProgram DEF UsersOK, PlanOK
<1>8. BaseOK'
  BY <1>2, <1>3, <1>4, SameProgram DEF BaseOK, PlanOK
<1>9. MinimalOK'
  BY <1>2, <1>3, <1>4, SameProgram DEF MinimalOK, PlanOK
<1>10. SortOK'
  <2>1. (Distinct(order)' <=> Distinct(order)) /\ (Distinct(ready)' <=> Distinct(ready))
    BY DEF Distinct
  <2>2. SortOK
    BY <1>2 DEF PlanOK
  <2>3. ASSUME step \in Sorting
        PROVE  /\ DOMAIN prereqs' = ToSet(deps') /\ DOMAIN degree' = ToSet(deps')
               /\ order' \in Seq(ToSet(deps')) /\ ready' \in Seq(ToSet(deps'))
               /\ Distinct(order)' /\ Distinct(ready)' /\ ToSet(order') \cap ToSet(ready') = {}
               /\ \A m \in ToSet(deps) :
                     /\ degree'[m] = Cardinality(Needs(m) \ ToSet(order'))
                     /\ Needs(m) \subseteq ToSet(order')
                        <=> m \in ToSet(order') \cup ToSet(ready')
               /\ \A i \in DOMAIN order : \A d \in Needs(order[i]) :
                     \E j \in 1..(i - 1) : order[j] = d
    BY <2>1, <2>2, <2>3 DEF SortOK
  <2>4. /\ step' \in {"resolve", "use"} => order' = <<>>
        /\ step' \in {"planned", "circular"} => ToSet(order') = ToSet(deps') /\ step' = "planned"
    BY <1>2, <2>2 DEF SortOK
  <2>5. \A m : Needs(m)' = Needs(m)
    BY SameProgram
  <2>6. step \in Sorting =>
           (\A m \in ToSet(deps) :
               /\ degree[m] = Cardinality(Needs(m) \ ToSet(order))
               /\ Needs(m) \subseteq ToSet(order) <=> m \in ToSet(order) \cup ToSet(ready))'
    BY <2>3, <2>5
  <2>7. step \in Sorting =>
           (\A i \in DOMAIN order : \A d \in Needs(order[i]) :
               \E j \in 1..(i - 1) : order[j] = d)'
    BY <2>3, <2>5
  <2>8. QED
    BY <1>2, <2>3, <2>4, <2>6, <2>7 DEF SortOK
<1>11. QED
  BY <1>3, <1>5, <1>6, <1>7, <1>8, <1>9, <1>10 DEF PlanOK

LEMMA PlanAlways == ASSUME DeployInv, PlanInv, [Next]_vars PROVE PlanInv'
<1>1. input \in Inputs /\ k \in Nat \ {0}
  BY DEF DeployInv, ExtractedOK
<1>2. CASE UNCHANGED vars
  BY <1>2, PlanKept DEF vars, planVars
<1>3. CASE OpenIface
  <2>1. input' = input /\ StartPlan(Ifaces[k].stmt) /\ k <= Len(Ifaces) /\ Extractable(k)
    BY <1>3 DEF OpenIface
  <2>2. k \in DOMAIN Ifaces
    BY <1>1, <2>1, Applications
  <2>3. Ifaces[k].stmt \in DOMAIN Code
    BY <1>1, <2>1, <2>2, Applications DEF Extractable
  <2>4. QED
    BY <1>1, <2>1, <2>3, StartPlanKeeps
<1>4. CASE Plan
  BY <1>1, <1>4, ResolveKeeps, CloseKeeps, UseKeeps, StartSortKeeps, SortStmtKeeps, EndSortKeeps
     DEF Plan, PlanStep
<1>5. CASE Clean \/ SkipIface \/ EndExtract \/ RewriteFile \/ EndRewrite \/ Build \/ EndBuild
           \/ WriteManifests \/ EndManifests \/ Return
  <2>1. UNCHANGED <<input, planVars>>
    BY <1>5 DEF Clean, SkipIface, EndExtract, RewriteFile, EndRewrite, Build, EndBuild,
       WriteManifests, EndManifests, Return, vars
  <2>2. QED
    BY <2>1, PlanKept DEF planVars
<1>6. CASE ClosePlan \/ WriteClient \/ WriteDelegate \/ WriteServer
  <2>1. UNCHANGED <<input, stack, deps, resolved, prereqs, at, degree, ready, order>>
    BY <1>6 DEF ClosePlan, WriteClient, WriteDelegate, WriteServer
  <2>2. step' = step \/ step' = "idle"
    BY <1>6 DEF ClosePlan, WriteClient, WriteDelegate, WriteServer, Skip
  <2>3. QED
    BY <2>1, <2>2, PlanKept
<1>7. QED
  BY <1>2, <1>3, <1>4, <1>5, <1>6 DEF Next

-----------------------------------------------------------------------------
(* What a plan is good for.                                                *)

\* The same, without what only some need.
LEMMA PicksInOrder ==
    ASSUME NEW S, NEW seq \in Seq(S), NEW places, places \subseteq DOMAIN seq
    PROVE  /\ Pick(seq, places) \in Seq(S) /\ Cardinality(places) \in Nat
           /\ Len(Pick(seq, places)) = Cardinality(places)
           /\ \A j \in 1..Cardinality(places) :
                /\ Ascending(places)[j] \in places
                /\ Pick(seq, places)[j] = seq[Ascending(places)[j]]
           /\ \A p \in places : \E j \in 1..Cardinality(places) : Ascending(places)[j] = p
           /\ \A h, j \in 1..Cardinality(places) :
                h < j => Ascending(places)[h] < Ascending(places)[j]
<1>1. /\ Pick(seq, places) \in Seq(S) /\ Ascending(places) \in Seq(places)
      /\ Cardinality(places) \in Nat
      /\ Len(Pick(seq, places)) = Cardinality(places)
      /\ ToSet(Pick(seq, places)) = {seq[p] : p \in places}
      /\ \A i \in 1..Cardinality(places) :
            /\ Ascending(places)[i] \in places
            /\ Pick(seq, places)[i] = seq[Ascending(places)[i]]
      /\ \A p \in places : \E i \in 1..Cardinality(places) : Ascending(places)[i] = p
      /\ \A i, j \in 1..Cardinality(places) :
            i < j => Ascending(places)[i] < Ascending(places)[j]
  BY PickLists
<1>2. QED
  BY <1>1

\* What a sequence laid out with some of its places first has at a place: what
\* was earlier in its part, or is in the part before, is earlier.
LaidAt(laid, seq, first, i) ==
    \E p \in DOMAIN seq :
       /\ laid[i] = seq[p]
       /\ \A q \in DOMAIN seq :
             (q \in first /\ p \notin first) \/ (q < p /\ (q \in first <=> p \in first))
                 => \E j \in 1..(i - 1) : laid[j] = seq[q]

LEMMA LaidOut ==
    ASSUME NEW S, NEW seq \in Seq(S), NEW first, first \subseteq DOMAIN seq,
           NEW laid, laid = Pick(seq, first) \o Pick(seq, DOMAIN seq \ first),
           NEW i \in DOMAIN laid
    PROVE  LaidAt(laid, seq, first, i)
<1> DEFINE late == DOMAIN seq \ first
<1>1. PICK m, n, A, B, a, b :
         /\ m = Cardinality(first) /\ A = Ascending(first) /\ a = Pick(seq, first)
         /\ n = Cardinality(late) /\ B = Ascending(late) /\ b = Pick(seq, late)
         /\ laid = a \o b
  OBVIOUS
<1>2. /\ a \in Seq(S) /\ m \in Nat /\ Len(a) = m
      /\ \A j \in 1..m : A[j] \in first /\ a[j] = seq[A[j]]
      /\ \A p \in first : \E j \in 1..m : A[j] = p
      /\ \A h, j \in 1..m : h < j => A[h] < A[j]
  <2>1. /\ Pick(seq, first) \in Seq(S) /\ Cardinality(first) \in Nat
        /\ Len(Pick(seq, first)) = Cardinality(first)
        /\ \A j \in 1..Cardinality(first) :
              /\ Ascending(first)[j] \in first
              /\ Pick(seq, first)[j] = seq[Ascending(first)[j]]
        /\ \A p \in first : \E j \in 1..Cardinality(first) : Ascending(first)[j] = p
        /\ \A h, j \in 1..Cardinality(first) :
              h < j => Ascending(first)[h] < Ascending(first)[j]
    BY PicksInOrder
  <2>2. QED
    BY <1>1, <2>1
<1>3. /\ b \in Seq(S) /\ n \in Nat /\ Len(b) = n
      /\ \A j \in 1..n : B[j] \in late /\ b[j] = seq[B[j]]
      /\ \A p \in late : \E j \in 1..n : B[j] = p
      /\ \A h, j \in 1..n : h < j => B[h] < B[j]
  <2>1. late \subseteq DOMAIN seq
    OBVIOUS
  <2> HIDE DEF late
  <2>2. /\ Pick(seq, late) \in Seq(S) /\ Cardinality(late) \in Nat
        /\ Len(Pick(seq, late)) = Cardinality(late)
        /\ \A j \in 1..Cardinality(late) :
              /\ Ascending(late)[j] \in late
              /\ Pick(seq, late)[j] = seq[Ascending(late)[j]]
        /\ \A p \in late : \E j \in 1..Cardinality(late) : Ascending(late)[j] = p
        /\ \A h, j \in 1..Cardinality(late) :
              h < j => Ascending(late)[h] < Ascending(late)[j]
    BY <2>1, PicksInOrder
  <2>3. QED
    BY <1>1, <2>2
<1>4. \A p \in DOMAIN seq : p \in Nat
  <2>1. DOMAIN seq = 1..Len(seq)
    OBVIOUS
  <2>2. QED
    BY <2>1
<1> HIDE DEF late
<1>5. /\ DOMAIN laid = 1..(m + n)
      /\ \A j \in 1..(m + n) : laid[j] = IF j <= m THEN a[j] ELSE b[j - m]
  <2>1. a \in Seq(S) /\ b \in Seq(S) /\ Len(a) = m /\ Len(b) = n
    BY <1>2, <1>3
  <2>2. /\ DOMAIN (a \o b) = 1..(Len(a) + Len(b))
        /\ \A j \in 1..(Len(a) + Len(b)) :
              (a \o b)[j] = IF j <= Len(a) THEN a[j] ELSE b[j - Len(a)]
    BY <2>1, ConcatLists
  <2>3. laid = a \o b
    BY <1>1
  <2>4. QED
    BY <2>1, <2>2, <2>3
<1>6. \A j \in 1..m : j \in 1..(m + n) /\ laid[j] = seq[A[j]]
  <2>1. ASSUME NEW j \in 1..m
        PROVE  j \in 1..(m + n) /\ laid[j] = seq[A[j]]
    <3>1. j \in 1..(m + n) /\ j <= m
      BY <1>2, <1>3
    <3>2. QED
      BY <1>2, <1>5, <3>1
  <2>2. QED
    BY <2>1
<1>7. \A h \in 1..n : h + m \in 1..(m + n) /\ laid[h + m] = seq[B[h]]
  <2>1. ASSUME NEW h \in 1..n
        PROVE  h + m \in 1..(m + n) /\ laid[h + m] = seq[B[h]]
    <3>1. PICK j : j = h + m
      OBVIOUS
    <3>2. j \in 1..(m + n) /\ ~(j <= m) /\ j - m = h
      BY <1>2, <1>3, <3>1
    <3>3. QED
      BY <1>3, <1>5, <3>1, <3>2
  <2>2. QED
    BY <2>1
<1>8. CASE i <= m
  <2>1. i \in 1..m /\ A[i] \in first /\ laid[i] = seq[A[i]]
    <3>1. i \in 1..(m + n)
      BY <1>5
    <3>2. i \in 1..m
      BY <1>2, <1>3, <1>8, <3>1
    <3>3. QED
      BY <1>2, <1>6, <3>2
  <2>2. ASSUME NEW q \in first, q < A[i]
        PROVE  \E j \in 1..(i - 1) : laid[j] = seq[q]
    <3>1. PICK j \in 1..m : A[j] = q
      BY <1>2
    <3>2. A[j] \in Nat /\ A[i] \in Nat
      BY <1>2, <1>4, <2>1
    <3>3. j < i
      <4>1. i < j => A[i] < A[j]
        BY <1>2, <2>1
      <4>2. ~(i < j) /\ i # j
        BY <2>2, <3>1, <3>2, <4>1
      <4>3. QED
        BY <1>2, <2>1, <4>2
    <3>4. j \in 1..(i - 1)
      BY <1>2, <2>1, <3>3
    <3>5. QED
      BY <1>6, <3>1, <3>4
  <2>3. QED
    BY <2>1, <2>2 DEF LaidAt
<1>9. CASE ~(i <= m)
  <2>1. PICK h : h = i - m
    OBVIOUS
  <2>2. h \in 1..n /\ h + m = i
    <3>1. i \in 1..(m + n) /\ m \in Nat /\ n \in Nat
      BY <1>2, <1>3, <1>5
    <3>2. QED
      BY <1>9, <2>1, <3>1
  <2>3. B[h] \in late /\ laid[i] = seq[B[h]]
    BY <1>3, <1>7, <2>2
  <2>4. ASSUME NEW q \in first
        PROVE  \E j \in 1..(i - 1) : laid[j] = seq[q]
    <3>1. PICK j \in 1..m : A[j] = q
      BY <1>2
    <3>2. j \in 1..(i - 1)
      BY <1>2, <1>3, <2>2
    <3>3. QED
      BY <1>6, <3>1, <3>2
  <2>5. ASSUME NEW q \in late, q < B[h]
        PROVE  \E j \in 1..(i - 1) : laid[j] = seq[q]
    <3>1. PICK j \in 1..n : B[j] = q
      BY <1>3
    <3>2. B[j] \in Nat /\ B[h] \in Nat
      BY <1>3, <1>4, <2>3 DEF late
    <3>3. j < h
      <4>1. h < j => B[h] < B[j]
        BY <1>3, <2>2
      <4>2. ~(h < j) /\ h # j
        BY <2>5, <3>1, <3>2, <4>1
      <4>3. QED
        BY <1>3, <2>2, <4>2
    <3>4. j + m \in 1..(i - 1)
      BY <1>2, <1>3, <2>2, <3>3
    <3>5. QED
      BY <1>7, <3>1, <3>4
  <2>6. \A q \in DOMAIN seq : q \in first \/ q \in late
    BY DEF late
  <2>7. B[h] \in DOMAIN seq /\ B[h] \notin first
    BY <2>3 DEF late
  <2>8. ASSUME NEW q \in DOMAIN seq,
               (q \in first /\ B[h] \notin first) \/ (q < B[h] /\ (q \in first <=> B[h] \in first))
        PROVE  \E j \in 1..(i - 1) : laid[j] = seq[q]
    <3>1. CASE q \in first
      BY <2>4, <3>1
    <3>2. CASE q \notin first
      <4>1. q \in late /\ q < B[h]
        BY <2>6, <2>8, <3>2
      <4>2. QED
        BY <2>5, <4>1
    <3>3. QED
      BY <3>1, <3>2
  <2>9. PICK p \in DOMAIN seq : p = B[h]
    BY <2>7
  <2>10. QED
    BY <2>3, <2>8, <2>9 DEF LaidAt
<1>10. QED
  BY <1>8, <1>9 DEF LaidAt

LEMMA PlanInvRuns == ASSUME input \in Inputs, PlanInv PROVE PlanRuns
<1>1. SUFFICES ASSUME Plain
               PROVE  /\ step # "circular"
                      /\ step = "planned" =>
                             \A n \in DOMAIN Emitted : \A v \in Code[Emitted[n]].uses :
                                 \E j \in 1..(n - 1) : v \in Code[Emitted[j]].defs
  BY DEF PlanRuns
<1>2. step # "circular"
  BY <1>1 DEF PlanInv, PlanOK, SortOK, Busy
<1>3. ASSUME step = "planned", NEW n \in DOMAIN Emitted, NEW v \in Code[Emitted[n]].uses
      PROVE  \E j \in 1..(n - 1) : v \in Code[Emitted[j]].defs
  <2>1. DepsOK /\ SortOK /\ PrereqsOK
    BY <1>1, <1>3 DEF PlanInv, PlanOK, Busy
  <2>2. /\ order \in Seq(ToSet(deps)) /\ ToSet(deps) \subseteq DOMAIN Code
        /\ \A i \in DOMAIN order : \A d \in Needs(order[i]) :
              \E j \in 1..(i - 1) : order[j] = d
        /\ DOMAIN order = 1..Len(order) /\ Len(order) \in Nat
    <3>1. /\ order \in Seq(ToSet(deps))
          /\ \A i \in DOMAIN order : \A d \in Needs(order[i]) :
                \E j \in 1..(i - 1) : order[j] = d
      BY <1>3, <2>1 DEF SortOK, Sorting
    <3>2. ToSet(deps) \subseteq DOMAIN Code
      BY <2>1 DEF DepsOK, ToSet
    <3>3. QED
      BY <3>1, <3>2
  <2> DEFINE first == {i \in DOMAIN order : IsPackageScope(order[i])}
             late == DOMAIN order \ first
  <2>3. Emitted = Pick(order, first) \o Pick(order, late)
    <3>1. {i \in DOMAIN order : IsPackageScope(order[i]) = TRUE} = first
      BY DEF IsPackageScope
    <3>2. {i \in DOMAIN order : IsPackageScope(order[i]) = FALSE} = late
      BY DEF IsPackageScope
    <3>3. QED
      BY <3>1, <3>2 DEF Emitted
  <2>4. first \subseteq DOMAIN order
    OBVIOUS
  <2>5. PICK p \in DOMAIN order :
           /\ Emitted[n] = order[p]
           /\ \A q \in DOMAIN order :
                 (q \in first /\ p \notin first) \/ (q < p /\ (q \in first <=> p \in first))
                     => \E j \in 1..(n - 1) : Emitted[j] = order[q]
    <3>1. PICK f, o : f = first /\ o = order
      OBVIOUS
    <3>2. o \in Seq(ToSet(deps)) /\ f \subseteq DOMAIN o
      BY <2>2, <2>4, <3>1
    <3>3. PICK laid : laid = Pick(o, f) \o Pick(o, DOMAIN o \ f)
      OBVIOUS
    <3>4. laid = Emitted /\ n \in DOMAIN laid
      BY <1>3, <2>3, <3>1, <3>3
    <3>5. LaidAt(laid, o, f, n)
      BY <3>2, <3>3, <3>4, LaidOut
    <3> HIDE DEF first
    <3>6. QED
      BY <3>1, <3>4, <3>5 DEF LaidAt
  <2>6. PICK s \in DOMAIN Code : s = order[p]
    BY <2>2
  <2>7. v \in Vars(s) /\ DeclOf(v) \in Needs(s)
    BY <1>1, <1>3, <2>5, <2>6, Program DEF Needs
  <2>8. PICK q \in 1..(p - 1) : order[q] = DeclOf(v)
    BY <2>2, <2>6, <2>7
  <2>9. q \in DOMAIN order /\ q < p
    BY <2>2
  <2>10. DeclOf(v) \in DOMAIN Code /\ DeclOf(v) # None
    <3>1. DeclOf(v) \in DOMAIN Code
      BY <2>2, <2>8, <2>9
    <3>2. DOMAIN Code = 1..Len(Code) /\ Len(Code) \in Nat
      BY <1>1, Program
    <3>3. QED
      BY <3>1, <3>2 DEF None
  <2>11. (q \in first /\ p \notin first) \/ (q < p /\ (q \in first <=> p \in first))
    <3>1. CASE p \in first
      <4>1. IsPackageScope(s)
        BY <2>6, <3>1
      <4>2. IsPackageScope(DeclOf(v))
        BY <1>1, <2>7, <2>10, <4>1, TopNeedsTop
      <4>3. QED
        BY <2>8, <2>9, <3>1, <4>2
    <3>2. CASE p \notin first
      BY <2>9, <3>2
    <3>3. QED
      BY <3>1, <3>2
  <2>12. PICK j \in 1..(n - 1) : Emitted[j] = order[q]
    BY <2>5, <2>9, <2>11
  <2>13. v \in Code[DeclOf(v)].defs
    BY <1>1, <2>10, Program
  <2>14. QED
    BY <2>8, <2>12, <2>13
<1>4. QED
  BY <1>2, <1>3

LEMMA PlanInvExact == ASSUME input \in Inputs, PlanInv PROVE PlanIsExact
<1>1. SUFFICES ASSUME Plain, step = "planned"
               PROVE  LET plan == ToSet(order)
                          uses == plan \cap Before(Root)
                          base == Behind({Root})
                      IN  /\ base \subseteq plan
                          /\ \A s \in Before(Root) :
                                (\E v \in Code[s].uses : DeclOf(v) \in base) => s \in plan
                          /\ plan = Behind({Root} \cup uses)
                          /\ \A s \in uses : \E v \in Code[s].uses : DeclOf(v) \in plan
                          /\ Len(order) = Cardinality(plan)
  BY DEF PlanIsExact, Root
<1>2. /\ DepsOK /\ PrereqsOK /\ UsersOK /\ BaseOK /\ MinimalOK /\ SortOK /\ ~InUse
  BY <1>1 DEF PlanInv, PlanOK, Busy, InUse
<1>3. /\ ToSet(order) = ToSet(deps) /\ DOMAIN prereqs = ToSet(deps)
      /\ order \in Seq(ToSet(deps)) /\ Distinct(order)
  BY <1>1, <1>2 DEF SortOK, Sorting
<1>4. /\ Behind({Root}) \subseteq ToSet(deps)
      /\ \A s \in Before(Root) :
            (\E v \in Code[s].uses : DeclOf(v) \in Behind({Root})) => s \in ToSet(deps)
  BY <1>1, <1>2 DEF BaseOK, Decls, Touches, Busy, InUse
<1>5. Closed(ToSet(deps)) /\ ToSet(deps) \subseteq DOMAIN Code
  BY <1>1, <1>2, <1>3, PlanClosed
<1>6. Root \in ToSet(deps)
  <2>1. 1 \in DOMAIN deps
    BY <1>2 DEF DepsOK
  <2>2. QED
    BY <2>1 DEF Root, ToSet
<1> DEFINE uses == ToSet(deps) \cap Before(Root)
<1>7. Users \subseteq uses
  <2>1. ASSUME NEW s \in Users
        PROVE  s \in Before(Root)
    <3>1. Taken(s) /\ s < Root /\ Code[s].kind \in Running
      BY <1>2 DEF UsersOK, Users
    <3>2. PICK j \in 1..(at - 1) : Executable[j] = s
      BY <3>1 DEF Taken
    <3>3. /\ DOMAIN Executable = 1..Len(Executable) /\ Len(Executable) \in Nat
          /\ at \in Nat \ {0} /\ at - 1 <= Len(Executable)
      BY <1>1, <1>2, ExecutableLists DEF UsersOK
    <3>4. j \in DOMAIN Executable
      BY <3>3
    <3>5. s \in ToSet(Executable)
      BY <3>2, <3>4 DEF ToSet
    <3>6. QED
      BY <3>1, <3>5 DEF Before, Running
  <2>2. QED
    BY <2>1 DEF Users
<1>8. ToSet(deps) \subseteq Behind({Root} \cup uses)
  <2>1. ASSUME NEW t \in SUBSET DOMAIN Code, {Root} \cup uses \subseteq t, Closed(t)
        PROVE  ToSet(deps) \subseteq t
    BY <1>2, <1>7, <2>1 DEF MinimalOK
  <2>2. QED
    BY <1>5, <2>1 DEF Behind
<1>9. Behind({Root} \cup uses) \subseteq ToSet(deps)
  <2>1. {Root} \cup uses \subseteq ToSet(deps)
    BY <1>6
  <2>2. QED
    BY <1>5, <2>1 DEF Behind
<1>10. ASSUME NEW s \in uses
       PROVE  \E v \in Code[s].uses : DeclOf(v) \in ToSet(deps)
  <2>1. s \in Users
    BY DEF Users, Before, Running
  <2>2. PICK v \in Vars(s) : TRUE
    BY <1>2, <2>1 DEF UsersOK
  <2>3. v \in Code[s].uses
    BY <1>1, <1>5, Program
  <2>4. QED
    BY <1>5, <2>3 DEF Closed
<1>11. Len(order) = Cardinality(ToSet(deps))
  BY <1>3, DistinctCounts
<1>12. QED
  BY <1>3, <1>4, <1>8, <1>9, <1>10, <1>11

PlannedInv == DeployInv /\ PlanInv

LEMMA PlannedAlways == Spec => []PlannedInv
<1>1. Init => PlannedInv
  <2>1. SUFFICES ASSUME Init PROVE PlannedInv
    OBVIOUS
  <2>2. step = "idle"
    BY <2>1 DEF Init, PlanInit
  <2>3. PlanInv
    BY <2>2 DEF PlanInv, Busy
  <2>4. QED
    BY <2>1, <2>3, DeployInit DEF PlannedInv
<1>2. PlannedInv /\ [Next]_vars => PlannedInv'
  BY DeployStep, PlanAlways DEF PlannedInv
<1>3. QED
  BY <1>1, <1>2, PTL DEF Spec

\* A plan runs, whatever the program: what a statement uses is declared before
\* it in the server, and no program is refused as circular.
THEOREM PlanningRuns == Spec => []PlanRuns
<1>1. PlannedInv => PlanRuns
  BY PlanInvRuns DEF PlannedInv, DeployInv, ExtractedOK
<1>2. QED
  BY <1>1, PlannedAlways, PTL

\* A plan is exact, whatever the program: it has all that the root rests on and
\* the earlier statements that use any of it, nothing for no reason, and
\* nothing twice.
THEOREM PlanningIsExact == Spec => []PlanIsExact
<1>1. PlannedInv => PlanIsExact
  BY PlanInvExact DEF PlannedInv, DeployInv, ExtractedOK
<1>2. QED
  BY <1>1, PlannedAlways, PTL
=============================================================================
