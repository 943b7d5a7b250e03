------------------------------ MODULE CutRanking ------------------------------
(***************************************************************************)
(* Cut analysis of pkg/activation: the candidates of an activation path    *)
(* and the order in which they are recommended.                            *)
(*                                                                         *)
(* A path node is a record of the classifications the analysis makes of    *)
(* one function; a candidate adds the step, the feasibility gate and the   *)
(* adapter class.  The candidate slice of the code is a function from      *)
(* steps to candidates: steps are unique on a path, every lookup is by     *)
(* step and node key, and the position in the sorted slice only decides    *)
(* which feasible candidate is recommended.                                *)
(***************************************************************************)
EXTENDS Integers, Sequences

FeasibleBoundary == {"Trivial", "Serializable", "Reconstructible"}
BoundaryClasses  == FeasibleBoundary \cup {"ProxyRequired", "BoundaryInfeasible"}
CallbackClasses  == {"ZeroConfirmed", "ZeroEstimated", "Low", "Moderate", "Many"}
StateClasses     == {"Stateless", "ConfigOnly", "ClientReconstructible", "SharedState"}
SurfaceClasses   == {"Minimal", "Small", "Medium", "Large", "VeryLarge"}
ErrorSemClasses  == {"ErrorOK", "NeedsWrapper", "ErrorInfeasible"}
EdgeAlignClasses == {"Strong", "Weak", "Anti"}
AdapterClasses   == {"DirectBoundary", "AdapterPossible", "AdapterUnknown",
                     "LiveProxyRequired", "AdapterImpossible"}

\* What admission can do with a receiver: there is none, a factory or a known
\* reconstructor exists for its type, or neither does.
ReceiverKinds == {"none", "known", "opaque"}

\* The longest candidate path of interest; steps are positions on it.
CONSTANTS
    Keys,      \* function keys: package, function and receiver type
    MaxStep    \* the deepest step of a path

ASSUME MaxStepAssumption == MaxStep \in Nat \ {0}

Steps == 1..MaxStep

PathNode ==
    [key : Keys, receiver : ReceiverKinds, inProject : BOOLEAN,
     boundary : BoundaryClasses, callbacks : CallbackClasses,
     state : StateClasses, errorSem : ErrorSemClasses,
     edgeAlign : EdgeAlignClasses]

Candidate ==
    [step : Steps, key : Keys, receiver : ReceiverKinds, feasible : BOOLEAN,
     boundary : BoundaryClasses, callbacks : CallbackClasses,
     state : StateClasses, surface : SurfaceClasses,
     errorSem : ErrorSemClasses, edgeAlign : EdgeAlignClasses,
     adapter : AdapterClasses]

-------------------------------------------------------------------------------
(* Ranks: the position of a class in its dimension, smaller is better.       *)

surfaceRank(class) ==
    CASE class = "Minimal" -> 0 [] class = "Small" -> 1 [] class = "Medium" -> 2
      [] class = "Large" -> 3 [] class = "VeryLarge" -> 4 [] OTHER -> 5

callbackRank(class) ==
    CASE class \in {"ZeroConfirmed", "ZeroEstimated"} -> 0 [] class = "Low" -> 1
      [] class = "Moderate" -> 2 [] class = "Many" -> 3 [] OTHER -> 4

stateRankForSort(class) ==
    CASE class = "Stateless" -> 0 [] class = "ConfigOnly" -> 1
      [] class = "ClientReconstructible" -> 2 [] class = "SharedState" -> 3
      [] OTHER -> 4

errorSemRank(class) ==
    CASE class = "ErrorOK" -> 0 [] class = "NeedsWrapper" -> 1
      [] class = "ErrorInfeasible" -> 2 [] OTHER -> 3

edgeAlignRank(class) ==
    CASE class = "Strong" -> 0 [] class = "Weak" -> 1 [] class = "Anti" -> 2
      [] OTHER -> 3

\* The soft dimensions in the order they decide; the last one is the
\* tiebreaker, which prefers the deeper step.
Rank(c) ==
    << surfaceRank(c.surface), callbackRank(c.callbacks),
       stateRankForSort(c.state), errorSemRank(c.errorSem),
       edgeAlignRank(c.edgeAlign), MaxStep - c.step >>

Dimensions == 1..6

LexLess(r, s) ==
    \E i \in Dimensions : /\ r[i] < s[i]
                          /\ \A j \in 1..(i - 1) : r[j] = s[j]

\* Mutant: the tiebreaker prefers the shallower step.
betterCutCandidateShallow(a, b) ==
    IF a.feasible /\ b.feasible
    THEN LexLess([Rank(a) EXCEPT ![6] = a.step], [Rank(b) EXCEPT ![6] = b.step])
    ELSE a.feasible /\ ~b.feasible

\* Feasible candidates precede infeasible ones; two feasible ones compare by
\* rank, two infeasible ones by the tiebreaker alone.
betterCutCandidate(a, b) ==
    IF a.feasible /\ b.feasible THEN LexLess(Rank(a), Rank(b))
    ELSE IF a.feasible # b.feasible THEN a.feasible
    ELSE a.step > b.step

-------------------------------------------------------------------------------
(* The candidates of a path, and the recommendation.                         *)

FeasibleSteps(cands) == {s \in DOMAIN cands : cands[s].feasible}

\* The feasible candidate that sorts first, 0 when none is left.
recommended(cands) ==
    IF FeasibleSteps(cands) = {} THEN 0
    ELSE CHOOSE s \in FeasibleSteps(cands) :
            \A t \in FeasibleSteps(cands) \ {s} :
                betterCutCandidate(cands[s], cands[t])

\* Mutant: the ancestors of the candidate leave with it.
DemoteWithAncestors(cands, s) ==
    [t \in DOMAIN cands |-> IF t <= s THEN [cands[t] EXCEPT !.feasible = FALSE]
                            ELSE cands[t]]

\* The candidate c with another feasibility and adapter class.
Regraded(c, feasible, adapter) ==
    [step |-> c.step, key |-> c.key, receiver |-> c.receiver,
     feasible |-> feasible, boundary |-> c.boundary, callbacks |-> c.callbacks,
     state |-> c.state, surface |-> c.surface, errorSem |-> c.errorSem,
     edgeAlign |-> c.edgeAlign, adapter |-> adapter]

\* DemoteCandidate: the candidate leaves the feasible ones.
DemoteCandidate(cands, s) ==
    [cands EXCEPT ![s] = Regraded(cands[s], FALSE, cands[s].adapter)]

markCandidateAdapter(cands, s, class) ==
    [cands EXCEPT ![s] = Regraded(cands[s], cands[s].feasible, class)]

\* The surface of the step at position step of a path with pathLen nodes, the
\* entry point (step 0) included.
classifySurface(step, pathLen) ==
    LET lastStep == pathLen - 1 IN
    IF pathLen <= 1 \/ step <= 0 THEN "VeryLarge"
    ELSE IF pathLen <= 4
         THEN IF step >= lastStep THEN "Minimal"
              ELSE IF step = lastStep - 1 THEN "Small" ELSE "Medium"
    ELSE IF step <= 1 THEN "VeryLarge"
    ELSE IF 4 * step < lastStep THEN "Large"
    ELSE IF 2 * step < lastStep THEN "Medium"
    ELSE IF 4 * step < 3 * lastStep THEN "Small" ELSE "Minimal"

defaultAdapterClass(boundary) ==
    IF boundary \in FeasibleBoundary THEN "DirectBoundary" ELSE "AdapterUnknown"

\* path[s] is the node at step s, the entry point excluded.
buildCutCandidates(path) ==
    [s \in DOMAIN path |->
        [step      |-> s,
         key       |-> path[s].key,
         receiver  |-> path[s].receiver,
         feasible  |-> path[s].boundary \in FeasibleBoundary /\ path[s].inProject,
         boundary  |-> path[s].boundary,
         callbacks |-> path[s].callbacks,
         state     |-> path[s].state,
         surface   |-> classifySurface(s, Len(path) + 1),
         errorSem  |-> path[s].errorSem,
         edgeAlign |-> path[s].edgeAlign,
         adapter   |-> defaultAdapterClass(path[s].boundary)]]
===============================================================================
