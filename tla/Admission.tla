------------------------------ MODULE Admission -------------------------------
(***************************************************************************)
(* The admission-aware ranking loop of pkg/codegen (admitCutCandidates),   *)
(* the plan cache it shares with every lift of the process, and the        *)
(* build-plan phase of the lift that uses its verdict.                     *)
(*                                                                         *)
(* One lift takes the ranked candidates of one activation path.  Each turn *)
(* of the loop tries the recommended candidate: the cut gate, the receiver *)
(* preflight, the cached or freshly built plan.  An accepted verdict ends  *)
(* the loop, a refusal outside the retryable codes ends it too, and a      *)
(* retryable one may run the boundary-adapter recovery before the          *)
(* candidate is demoted and the next one is recommended.                   *)
(*                                                                         *)
(* The plan builder, the adapter proofs and the plan gates read source     *)
(* code: their outcomes are chosen from PlanOutcomes and RecoveryOutcomes. *)
(* The wall clock is the flag late, which may be raised at any time.       *)
(***************************************************************************)
EXTENDS CutRanking

CONSTANTS
    Paths,             \* the activation paths a lift may find
    Roots,             \* module roots: the source trees the process lifts from
    MaxLifts,          \* lifts run by one process, one after the other
    SharedKeys,        \* functions that more than one lift comes upon
    PlanOutcomes,      \* what buildPlanWithTimeout and AdmitPlan may answer
    RecoveryOutcomes   \* what tryAdapterRecovery and AdmitPlan may answer

-------------------------------------------------------------------------------
(* Refusal codes.  missing_reconstructor is split by the type it names: a    *)
(* boundary parameter, or an infrastructure handle or receiver.              *)

adapterEligibleRefusals ==
    {"unsupported_boundary_data", "unsupported_result_shape",
     "unsupported_param_shape", "callable_boundary_values",
     "missing_reconstructor_param"}

retryableAdmissionRefusals ==
    adapterEligibleRefusals \cup
    {"missing_reconstructor_handle", "receiver_requires_reconstruction",
     "non_serializable_receiver", "adapter_unknown"}

\* The codes that the loop itself produces, and no gate.
loopRefusals == {"admission_retry_budget_exceeded", "adapter_parent_forbidden"}

\* streaming_type stands for every code that AdmitPlan alone raises and that
\* no other candidate is tried for.
Codes ==
    retryableAdmissionRefusals \cup loopRefusals \cup
    {"streaming_type", "plan_build_timeout", "missing_recommended_cut",
     "non_feasible_cut", "live_proxy_required", "adapter_impossible",
     "adapter_call_site"}

Verdict == [accepted : BOOLEAN, refusals : Seq(Codes)]

Accepting      == [accepted |-> TRUE, refusals |-> <<>>]
EmptyVerdict   == [accepted |-> FALSE, refusals |-> <<>>]  \* the zero value
refused(v, code) == [accepted |-> FALSE, refusals |-> Append(v.refusals, code)]
Refusing(codes)  == [accepted |-> codes = <<>>, refusals |-> codes]

\* A plan remembers the module root it was built from and whether a function
\* value is among its boundary parameters and results.
Plan   == [root : Roots, funcBoundary : BOOLEAN]
NoPlan == [none |-> "plan"]
NoRoot == "none"

PlanOutcome ==
    [kind : {"timeout", "error"}, refusals : {<<>>}, funcBoundary : {FALSE}]
    \cup [kind : {"plan", "refusal"}, refusals : Seq(Codes), funcBoundary : BOOLEAN]

\* refusals is what the adapter pass (found = FALSE) or AdmitPlan on the
\* normalized plan (found = TRUE) refuses with.
RecoveryOutcome == [found : BOOLEAN, refusals : Seq(Codes)]

ASSUME AdmissionAssumption ==
    /\ MaxLifts \in Nat
    /\ SharedKeys \subseteq Keys
    /\ Roots # {} /\ NoRoot \notin Roots
    /\ \A p \in Paths : /\ p \in Seq(PathNode)
                        /\ Len(p) \in 0..MaxStep
    /\ PlanOutcomes \subseteq PlanOutcome
    /\ \A o \in PlanOutcomes : o.kind = "refusal" =>
            \E code \in retryableAdmissionRefusals : o.refusals = <<code>>
    /\ \A o \in PlanOutcomes : \A i \in DOMAIN o.refusals :
            o.refusals[i] \notin loopRefusals
    /\ RecoveryOutcomes \subseteq RecoveryOutcome

-------------------------------------------------------------------------------
VARIABLES
    lift,        \* number of lifts started
    root,        \* module root of this lift
    adapterEnabled,  \* MONOLIFT_BOUNDARY_ADAPTER, read once at loop entry
    cands,       \* the candidates of the cut, by step
    rec,         \* cut.Recommended: a step, 0 for nil
    attempt,     \* loop counter
    late,        \* the admission budget has run out
    pc,          \* control point of the lift
    cur,         \* step of the candidate under trial
    last,        \* the last verdict
    plan,        \* the plan of the candidate under trial, or NoPlan
    chain,       \* demotion chain
    result,      \* what the admission returns
    adapterRoot, \* root of the adapter plan put into the final plan
    cache,       \* candidateAdmitCache: Keys -> entry or NoEntry
    recoveries   \* how often tryAdapterRecovery ran, by step (history)

loopVars == <<attempt, cur, last, plan, chain>>
cutVars  == <<cands, rec>>
liftVars == <<lift, root, adapterEnabled>>
vars == <<lift, root, adapterEnabled, cands, rec, attempt, late, pc, cur, last,
          plan, chain, result, adapterRoot, cache, recoveries>>

NoEntry == [none |-> "entry"]
Entry   == [verdict : Verdict, plan : Plan \cup {NoPlan}, err : BOOLEAN,
            adapter : Roots \cup {NoRoot}]

ChainEntry == [step : Steps, code : Codes]

TypeOK ==
    /\ lift \in 0..MaxLifts
    /\ root \in Roots
    /\ adapterEnabled \in BOOLEAN
    /\ \E n \in 0..MaxStep : cands \in [1..n -> Candidate]
    /\ rec \in {0} \cup DOMAIN cands
    /\ attempt \in 0..Len(chain)
    /\ late \in BOOLEAN
    /\ pc \in {"idle", "head", "try", "judge", "final", "done"}
    /\ cur \in {0} \cup DOMAIN cands
    /\ last \in Verdict
    /\ plan \in Plan \cup {NoPlan}
    /\ chain \in Seq(ChainEntry)
    /\ result \in {"none", "accepted", "refused", "error"}
    /\ adapterRoot \in Roots \cup {NoRoot}
    /\ cache \in [Keys -> Entry \cup {NoEntry}]
    /\ recoveries \in [Steps -> Nat]

Init ==
    /\ lift = 0
    /\ root \in Roots
    /\ adapterEnabled \in BOOLEAN
    /\ cands = <<>>
    /\ rec = 0 /\ attempt = 0 /\ late = FALSE
    /\ pc = "idle"
    /\ cur = 0 /\ last = EmptyVerdict /\ plan = NoPlan /\ chain = <<>>
    /\ result = "none" /\ adapterRoot = NoRoot
    /\ cache = [k \in Keys |-> NoEntry]
    /\ recoveries = [s \in Steps |-> 0]

-------------------------------------------------------------------------------
(* The gates a candidate passes through.                                     *)

\* Refusals of AdmitCut for the candidate c, in the order it reports them.
AdmitCut(c) ==
    (IF c.feasible THEN <<>> ELSE <<"non_feasible_cut">>)
    \o (IF c.boundary \in FeasibleBoundary THEN <<>> ELSE <<"unsupported_boundary_data">>)
    \o (IF c.callbacks \in {"ZeroConfirmed", "ZeroEstimated", "Low"}
        THEN <<>> ELSE <<"callable_boundary_values">>)

preflightReceiverAdmission(c) ==
    IF c.receiver = "opaque" /\ c.state \notin {"Stateless", "ConfigOnly"}
    THEN <<"receiver_requires_reconstruction">> ELSE <<>>

\* The refusal the loop acts on: the first retryable one of a verdict.
IsRetryable(v) == \E i \in DOMAIN v.refusals : v.refusals[i] \in retryableAdmissionRefusals
retryableRefusal(v) ==
    v.refusals[CHOOSE i \in DOMAIN v.refusals :
                 /\ v.refusals[i] \in retryableAdmissionRefusals
                 /\ \A j \in 1..(i - 1) : v.refusals[j] \notin retryableAdmissionRefusals]

\* Mutant: infeasible descendants do not count.
ParentForbiddenByFeasible(cs, s) ==
    \E t \in DOMAIN cs : t > s /\ cs[t].feasible /\ cs[t].adapter # "DirectBoundary"

\* A parent of an adapter-shaped candidate must not take its place.
adapterParentForbiddenForCandidate(cs, s) ==
    \E t \in DOMAIN cs : t > s /\ cs[t].adapter # "DirectBoundary"

planHasFunctionBoundary(p) == IF p = NoPlan THEN TRUE ELSE p.funcBoundary

adapterRecoveryAllowed(c, p) ==
    /\ c.receiver = "none"
    /\ c.state # "SharedState"
    /\ ~(c.callbacks \in {"Moderate", "Many"} /\ planHasFunctionBoundary(p))
    /\ c.surface \in {"Minimal", "Small"}

adapterRefusalClass(refusals) ==
    CASE refusals = <<>>                          -> "AdapterUnknown"
      [] Head(refusals \o <<"">>) = "live_proxy_required" -> "LiveProxyRequired"
      [] Head(refusals \o <<"">>) = "adapter_impossible"  -> "AdapterImpossible"
      [] OTHER                                    -> "AdapterUnknown"
-------------------------------------------------------------------------------
(* The start of a lift.                                                      *)

MaxAttempts == Len(cands)

\* A bound: only lifts whose candidates are all shared follow one another.
Shared(cs) == \A s \in DOMAIN cs : cs[s].key \in SharedKeys

\* RunLiftWithResult up to the loop.  Without admission-aware ranking only the
\* cut gate of the recommended candidate decides.
BeginLift(path, r, enabled, aware) ==
    LET cs == buildCutCandidates(path)
        s  == recommended(cs)
        gate == IF s = 0 THEN <<"missing_recommended_cut">>
                ELSE IF aware THEN <<>> ELSE AdmitCut(cs[s])
    IN
    /\ pc \in {"idle", "done"}
    /\ lift < MaxLifts /\ (lift = 0 \/ (Shared(cands) /\ Shared(cs)))
    /\ lift' = lift + 1
    /\ root' = r /\ adapterEnabled' = enabled
    /\ cands' = cs /\ rec' = s
    /\ attempt' = 0 /\ late' = FALSE /\ cur' = 0
    /\ plan' = NoPlan /\ chain' = <<>> /\ adapterRoot' = NoRoot
    /\ recoveries' = [t \in Steps |-> 0]
    /\ \/ /\ s # 0 /\ aware
          /\ pc' = "head" /\ result' = "none" /\ last' = EmptyVerdict
       \/ /\ s # 0 /\ ~aware /\ gate = <<>>
          /\ pc' = "final" /\ result' = "accepted" /\ last' = Accepting
       \/ /\ gate # <<>>
          /\ pc' = "done" /\ result' = "refused" /\ last' = Refusing(gate)
    /\ UNCHANGED cache

\* The wall clock passes the deadline while the loop runs.
DeadlinePasses ==
    /\ pc \in {"head", "judge"}
    /\ ~late
    /\ late' = TRUE
    /\ UNCHANGED <<lift, root, adapterEnabled, cands, rec, attempt, pc, cur, last,
                   plan, chain, result, adapterRoot, cache, recoveries>>

-------------------------------------------------------------------------------
(* The head of the loop.                                                     *)

\* The function returns verdict v with outcome r.
Return(r, v) ==
    /\ pc' = "done" /\ result' = r /\ last' = v
    /\ UNCHANGED <<lift, root, adapterEnabled, cands, rec, attempt, late, cur,
                   plan, chain, adapterRoot>>

AtHead == pc = "head" /\ attempt < MaxAttempts

AttemptsExhausted ==
    /\ pc = "head" /\ attempt >= MaxAttempts
    /\ Return("refused", last)
    /\ UNCHANGED <<cache, recoveries>>

\* Mutant: the budget refusal replaces what was refused before.
BudgetForgets ==
    /\ AtHead /\ late
    /\ Return("refused", refused(EmptyVerdict, "admission_retry_budget_exceeded"))
    /\ UNCHANGED <<cache, recoveries>>

BudgetExceeded ==
    /\ AtHead /\ late
    /\ Return("refused", refused(last, "admission_retry_budget_exceeded"))
    /\ UNCHANGED <<cache, recoveries>>

\* Mutant: the last verdict is returned even when nothing was tried.
NothingTried ==
    /\ AtHead /\ ~late /\ rec = 0
    /\ Return("refused", last)
    /\ UNCHANGED <<cache, recoveries>>

NothingRecommended ==
    /\ AtHead /\ ~late /\ rec = 0
    /\ Return("refused", IF last.refusals # <<>> THEN last
                         ELSE Refusing(<<"missing_recommended_cut">>))
    /\ UNCHANGED <<cache, recoveries>>

\* Step s leaves the ranking with the given code; the adapter class recorded
\* for it is class.  The loop turns.
DemoteAs(s, class, code) ==
    /\ cands' = DemoteCandidate(markCandidateAdapter(cands, s, class), s)
    /\ rec' = recommended(cands')
    /\ chain' = Append(chain, [step |-> s, code |-> code])
    /\ attempt' = attempt + 1
    /\ pc' = "head" /\ cur' = 0 /\ plan' = NoPlan
    /\ UNCHANGED <<lift, root, adapterEnabled, late, last, result, adapterRoot>>

ForbidParent ==
    /\ AtHead /\ ~late /\ rec # 0
    /\ adapterEnabled /\ adapterParentForbiddenForCandidate(cands, rec)
    /\ DemoteAs(rec, cands[rec].adapter, "adapter_parent_forbidden")
    /\ UNCHANGED <<cache, recoveries>>

-------------------------------------------------------------------------------
(* tryAdmitCandidate.                                                        *)

Trying ==
    /\ AtHead /\ ~late /\ rec # 0
    /\ ~(adapterEnabled /\ adapterParentForbiddenForCandidate(cands, rec))

GateRefusals(c) ==
    IF AdmitCut(c) # <<>> THEN AdmitCut(c) ELSE preflightReceiverAdmission(c)

\* The trial of rec ends with verdict v and plan p.
Tried(v, p) ==
    /\ pc' = "judge" /\ cur' = rec /\ last' = v /\ plan' = p
    /\ UNCHANGED <<lift, root, adapterEnabled, cands, rec, attempt, late, chain,
                   result, adapterRoot, recoveries>>

\* The cut gate or the receiver preflight refuses before any plan is built.
TryGate ==
    /\ Trying
    /\ GateRefusals(cands[rec]) # <<>>
    /\ Tried(Refusing(GateRefusals(cands[rec])), NoPlan)
    /\ UNCHANGED cache

\* The process already knows a result for this function.
TryCached ==
    LET entry == cache[cands[rec].key] IN
    /\ Trying
    /\ GateRefusals(cands[rec]) = <<>>
    /\ entry # NoEntry
    /\ \/ ~entry.err /\ Tried(entry.verdict, entry.plan)
       \/ entry.err /\ Return("error", last) /\ UNCHANGED recoveries
    /\ UNCHANGED cache

\* The plan is built and gated, and the result cached under the function key.
TryBuild(o) ==
    LET v == IF o.kind = "timeout" THEN Refusing(<<"plan_build_timeout">>)
             ELSE IF o.kind = "error" THEN Accepting ELSE Refusing(o.refusals)
        p == IF o.kind = "plan"
             THEN [root |-> root, funcBoundary |-> o.funcBoundary] ELSE NoPlan
    IN
    /\ Trying
    /\ GateRefusals(cands[rec]) = <<>>
    /\ cache[cands[rec].key] = NoEntry
    /\ cache' = [cache EXCEPT ![cands[rec].key] =
                    [verdict |-> v, plan |-> p, err |-> o.kind = "error",
                     adapter |-> NoRoot]]
    /\ IF o.kind = "error" THEN Return("error", last) /\ UNCHANGED recoveries
       ELSE Tried(v, p)

-------------------------------------------------------------------------------
(* What the loop makes of a verdict.                                         *)

Accept ==
    /\ pc = "judge" /\ last.accepted
    /\ pc' = "final" /\ result' = "accepted"
    /\ UNCHANGED <<lift, root, adapterEnabled, cands, rec, attempt, late, cur,
                   last, plan, chain, adapterRoot, cache, recoveries>>

RefuseForGood ==
    /\ pc = "judge" /\ ~last.accepted /\ ~IsRetryable(last)
    /\ Return("refused", last)
    /\ UNCHANGED <<cache, recoveries>>

Retrying == pc = "judge" /\ ~last.accepted /\ IsRetryable(last)

AdapterEligible ==
    adapterEnabled /\ retryableRefusal(last) \in adapterEligibleRefusals

\* Mutant: the loop turns without demoting the refused candidate.
RetrySame ==
    /\ Retrying /\ ~AdapterEligible
    /\ pc' = "head"
    /\ UNCHANGED <<lift, root, adapterEnabled, cands, rec, attempt, late, cur,
                   last, plan, chain, result, adapterRoot, cache, recoveries>>

\* A retryable refusal outside the adapter recovery.
Demote ==
    /\ Retrying /\ ~AdapterEligible
    /\ DemoteAs(cur, cands[cur].adapter, retryableRefusal(last))
    /\ UNCHANGED <<cache, recoveries>>

\* The plan recovery works on: the one of the trial, or one built now, which
\* may fail.
RecoveryPlans ==
    IF plan # NoPlan THEN {plan}
    ELSE {NoPlan} \cup {[root |-> root, funcBoundary |-> o.funcBoundary] :
                        o \in {q \in PlanOutcomes : q.kind = "plan"}}

SkipRecovery ==
    /\ Retrying /\ AdapterEligible
    /\ \E p \in RecoveryPlans : ~adapterRecoveryAllowed(cands[cur], p)
    /\ DemoteAs(cur, cands[cur].adapter, retryableRefusal(last))
    /\ UNCHANGED <<cache, recoveries>>

\* Mutant: the entry is replaced instead of amended.
StoreFresh(c, key, r) ==
    [c EXCEPT ![key] = [verdict |-> EmptyVerdict, plan |-> NoPlan,
                        err |-> FALSE, adapter |-> r]]

\* The entry keeps its verdict and plan, and is created when there is none.
storeCandidateAdapterPlan(c, key, r) ==
    LET entry == IF c[key] # NoEntry THEN c[key]
                 ELSE [verdict |-> EmptyVerdict, plan |-> NoPlan,
                       err |-> FALSE, adapter |-> NoRoot]
    IN  [c EXCEPT ![key] = [verdict |-> entry.verdict, plan |-> entry.plan,
                            err |-> entry.err, adapter |-> r]]

\* The adapter proofs hold and the normalized plan is admitted.
Recover(p, o) ==
    /\ Retrying /\ AdapterEligible /\ adapterRecoveryAllowed(cands[cur], p)
    /\ p # NoPlan /\ o.found /\ o.refusals = <<>>
    /\ cache' = storeCandidateAdapterPlan(cache, cands[cur].key, p.root)
    /\ cands' = markCandidateAdapter(cands, cur, "AdapterPossible")
    /\ rec' = cur
    /\ recoveries' = [recoveries EXCEPT ![cur] = @ + 1]
    /\ pc' = "final" /\ result' = "accepted" /\ last' = Accepting
    /\ UNCHANGED <<lift, root, adapterEnabled, attempt, late, cur, plan, chain,
                   adapterRoot>>

\* A proof fails, the normalized plan is refused, or there is no plan to
\* attach the adapter to.
FailRecovery(p, o) ==
    LET why == IF p = NoPlan /\ o.found THEN <<>> ELSE o.refusals IN
    /\ Retrying /\ AdapterEligible /\ adapterRecoveryAllowed(cands[cur], p)
    /\ ~(p # NoPlan /\ o.found /\ o.refusals = <<>>)
    /\ recoveries' = [recoveries EXCEPT ![cur] = @ + 1]
    /\ DemoteAs(cur, adapterRefusalClass(why), retryableRefusal(last))
    /\ UNCHANGED cache

-------------------------------------------------------------------------------
(* The build-plan phase of an accepted lift.                                 *)

Finish(r, a) ==
    /\ pc' = "done" /\ result' = r /\ adapterRoot' = a
    /\ UNCHANGED <<lift, root, adapterEnabled, cands, rec, attempt, late, cur,
                   last, plan, chain, cache>>

\* BuildPlan fails, or the final admission of a direct plan decides.
BuildDirect(o) ==
    /\ pc = "final" /\ o.kind # "timeout"
    /\ o.kind = "plan" => cands[rec].adapter # "AdapterPossible"
    /\ IF o.kind = "plan" /\ o.refusals = <<>> THEN Finish("accepted", NoRoot)
                                             ELSE Finish("error", NoRoot)
    /\ UNCHANGED recoveries

\* The adapter plan found during admission is reused.
cachedAdapterPlanFor(key) == IF cache[key] = NoEntry THEN NoRoot ELSE cache[key].adapter

\* When the cache lost it, recovery runs again on the freshly built plan.
BuildAdapted(o) ==
    LET a == cachedAdapterPlanFor(cands[rec].key) IN
    /\ pc = "final" /\ cands[rec].adapter = "AdapterPossible"
    /\ a # NoRoot => o.found
    /\ recoveries' = IF a # NoRoot THEN recoveries
                     ELSE [recoveries EXCEPT ![rec] = @ + 1]
    /\ LET from == IF a # NoRoot THEN a ELSE root IN
       IF o.found /\ o.refusals = <<>> THEN Finish("accepted", from)
                                      ELSE Finish("error", from)

-------------------------------------------------------------------------------
LiftStep ==
    \/ AttemptsExhausted
    \/ BudgetExceeded
    \/ NothingRecommended
    \/ ForbidParent
    \/ TryGate
    \/ TryCached
    \/ \E o \in PlanOutcomes : TryBuild(o)
    \/ Accept
    \/ RefuseForGood
    \/ Demote
    \/ SkipRecovery
    \/ \E p \in RecoveryPlans, o \in RecoveryOutcomes : Recover(p, o)
    \/ \E p \in RecoveryPlans, o \in RecoveryOutcomes : FailRecovery(p, o)
    \/ \E o \in PlanOutcomes : BuildDirect(o)
    \/ \E o \in RecoveryOutcomes : BuildAdapted(o)

Next ==
    \/ \E path \in Paths, r \in Roots, enabled, aware \in BOOLEAN :
            BeginLift(path, r, enabled, aware)
    \/ DeadlinePasses
    \/ LiftStep

Spec == Init /\ [][Next]_vars

\* The loop is straight-line code in one goroutine: it never waits for
\* anything but a plan build, and that wait has a time limit.
FairSpec == Spec /\ WF_vars(LiftStep)

-------------------------------------------------------------------------------
(* Properties.                                                               *)

Preferred(s, t) == LexLess(Rank(cands[s]), Rank(cands[t]))

\* The first lift that is refused says why: the verdict names at least one
\* refusal code, whatever mix of gates, recoveries, demotions and the deadline
\* led to it (admitCutCandidates returns last on three of its exits, and last
\* starts as the zero verdict).  A later lift may be refused without a code: the
\* entry a recovery makes for its adapter plan has the zero verdict.
RefusalsNamed == (lift = 1 /\ result = "refused") => last.refusals # <<>>

\* The ranking loop never skips a candidate: demotions happen in rank order, no
\* candidate is demoted twice, and every candidate still in the ranking comes
\* after every demoted one.  Marking adapter classes and re-sorting between
\* demotions must not reorder the rest.
DemotionsFollowRanking ==
    \A i \in DOMAIN chain :
        /\ \A j \in (i + 1)..Len(chain) : Preferred(chain[i].step, chain[j].step)
        /\ ~cands[chain[i].step].feasible
        /\ \A s \in FeasibleSteps(cands) : Preferred(chain[i].step, s)

\* The cut between demotions: candidates keep their steps, the demoted ones are
\* candidates, and the recommended one is feasible and ranks before every other
\* feasible one.
Ranked ==
    /\ \A s \in DOMAIN cands : cands[s].step = s
    /\ \A i \in DOMAIN chain : chain[i].step \in DOMAIN cands
    /\ rec = 0 <=> FeasibleSteps(cands) = {}
    /\ rec # 0 => /\ rec \in FeasibleSteps(cands)
                  /\ \A t \in FeasibleSteps(cands) \ {rec} : Preferred(rec, t)

\* What each control point knows.
Control ==
    /\ pc = "judge" => cur = rec /\ rec # 0
    /\ pc = "final" => rec # 0 /\ result = "accepted"
    /\ pc \in {"idle", "head", "judge"} => result = "none"
    /\ pc = "done" => result # "none"
    /\ result = "accepted" => rec # 0

\* The inductive invariant behind DemotionsFollowRanking and the refinement.
AdmissionInv == TypeOK /\ Ranked /\ Control /\ DemotionsFollowRanking

\* With the boundary adapter enabled the ranking never settles on an ancestor
\* of an adapter-shaped candidate, even when that one was refused for good
\* during the same lift (ADR-0032, adapter_parent_forbidden).
NoParentOfAdapterLeaf ==
    (result = "accepted" /\ adapterEnabled /\ cur # 0) =>
        \A t \in DOMAIN cands : t > rec => cands[t].adapter = "DirectBoundary"

\* Recovery runs at most once per candidate, and exactly once for the candidate
\* that is lifted through an adapter, the build-plan phase included.
RecoveredOnce ==
    /\ \A s \in Steps : recoveries[s] <= 1
    /\ (adapterRoot # NoRoot) => recoveries[rec] = 1

\* Running out of budget does not hide what was refused before: when any
\* candidate was tried, the verdict still carries its refusal.
BudgetKeepsEvidence ==
    \A i \in DOMAIN last.refusals :
        last.refusals[i] = "admission_retry_budget_exceeded" =>
            /\ i = Len(last.refusals)
            /\ (\E j \in DOMAIN chain : chain[j].code # "adapter_parent_forbidden")
                    => \E j \in 1..(i - 1) : \E k \in DOMAIN chain :
                            last.refusals[j] = chain[k].code

\* What the process has learnt of a function is kept: a later lift, and the
\* storing of an adapter plan, leave the cached verdict and plan as they are
\* (storeCandidateAdapterPlan).
CachedVerdictPreserved ==
    [][\A k \in Keys : cache[k] # NoEntry =>
          /\ cache'[k] # NoEntry
          /\ cache'[k].verdict = cache[k].verdict
          /\ cache'[k].plan = cache[k].plan
          /\ cache'[k].err = cache[k].err]_vars

\* Every lift comes to an end.
LiftEnds == (pc # "idle") ~> (pc \in {"idle", "done"})

\* Admission implements the contest of CutSelection.
Outcome == IF pc = "idle" THEN "idle"
           ELSE IF result = "accepted" THEN "chosen"
           ELSE IF pc = "done" THEN "none" ELSE "open"

Preferences == {e \in (DOMAIN cands) \X (DOMAIN cands) : Preferred(e[1], e[2])}
Choice == IF Outcome = "chosen" THEN rec ELSE 0

Selection == INSTANCE CutSelection WITH
    prefers <- Preferences, contenders <- FeasibleSteps(cands),
    outcome <- Outcome,     choice     <- Choice

SelectionSpec == Selection!Spec
===============================================================================
