----------------------------- MODULE Delegation -----------------------------
(***************************************************************************)
(* The delegation of calls at run time: the monitor that polls the usage   *)
(* of CPU and memory (pkg/metrics), the deciders that compare the last     *)
(* reading with the threshold of a pragma (pkg/pragma), and the delegate   *)
(* that sends a call to the remote service or the local one as its decider *)
(* says (pkg/lift, delegate template).  The ThresholdController polls on a *)
(* ticker of its own and changes nothing.                                  *)
(*                                                                         *)
(* Usage and limits are in the same unit.  A threshold is in halves of a   *)
(* limit; NaN is a threshold that ParseFloat accepts and nothing exceeds.  *)
(***************************************************************************)
EXTENDS Integers

CONSTANTS Inputs,       \* attributes of the pragma, and the environment
          Usages        \* what can be read

ASSUME UsagesAssumption == Usages \subseteq Nat

VARIABLES
    input,      \* [attrs, limits, started]: started if NewMonitor succeeds
    load,       \* the usage of each metric
    broken,     \* the metrics that cannot be read
    poller,     \* where the monitor's goroutine is
    reading,    \* what the poll under way has read
    usage,      \* cached: the last usage read of each metric
    hasPolled,
    tick,       \* the ticker's channel is full
    cancelled,  \* the monitor's context is done
    call,       \* the delegate's call: "none", "remote" or "local"
    last        \* what was read last, as the file had it, of each metric
monitorVars == <<input, load, broken, poller, reading, usage, hasPolled, tick,
                 cancelled, call, last>>

Metrics == {"CPU", "MEM"}
NaN == -1
Failed == -1        \* a reading that is an error
Attrs == input.attrs

\* ParsePragma and NewDeciderFromPragma: without attributes there is no
\* delegate, and none when they are not accepted.
Accepted ==
    /\ Attrs.trigger \in Metrics
    /\ Attrs.threshold = NaN \/ Attrs.threshold \in 1..2
Threshold == Attrs.threshold

MonitorInit ==
    /\ input \in Inputs
    /\ load \in [Metrics -> Usages] /\ broken = {}
    /\ poller = IF input.started THEN "cpu" ELSE "none"
    /\ reading = [m \in Metrics |-> Failed]
    /\ usage = [m \in Metrics |-> 0] /\ hasPolled = FALSE
    /\ tick = FALSE /\ cancelled = FALSE
    /\ call = "none" /\ last = [m \in Metrics |-> 0]

-----------------------------------------------------------------------------
(* The monitor.                                                            *)

\* CPUUsagePercent and MemoryUsagePercent, compared with the threshold.  A
\* limit of zero makes the usage zero.
Exceeds(m, u) == LET limit == input.limits[m]
                 IN  limit > 0 /\ Threshold # NaN /\ 2 * u > Threshold * limit

\* A mutant: either metric will do.
ShouldDelegateOnAny == Accepted /\ hasPolled /\ \E m \in Metrics : Exceeds(m, usage[m])

ShouldDelegate == Accepted /\ hasPolled /\ Exceeds(Attrs.trigger, usage[Attrs.trigger])

Environment == UNCHANGED <<input, load, broken, cancelled, call>>

\* The sample of the CPU begins, or fails and is over.
BeginSample ==
    /\ poller = "cpu"
    /\ IF "CPU" \in broken
       THEN poller' = "mem" /\ reading' = [reading EXCEPT !["CPU"] = Failed]
       ELSE poller' = "sample" /\ reading' = [reading EXCEPT !["CPU"] = load["CPU"]]
    /\ UNCHANGED <<usage, hasPolled, tick, last>> /\ Environment

\* The sample ends; its usage is between that of its start and its end.
EndSample ==
    /\ poller = "sample" /\ poller' = "mem"
    /\ \E u \in IF "CPU" \in broken THEN {Failed} ELSE {reading["CPU"], load["CPU"]} :
           /\ reading' = [reading EXCEPT !["CPU"] = u]
           /\ last' = IF u = Failed THEN last ELSE [last EXCEPT !["CPU"] = u]
    /\ UNCHANGED <<usage, hasPolled, tick>> /\ Environment

ReadMemory ==
    /\ poller = "mem" /\ poller' = "store"
    /\ IF "MEM" \in broken
       THEN reading' = [reading EXCEPT !["MEM"] = Failed] /\ UNCHANGED last
       ELSE /\ reading' = [reading EXCEPT !["MEM"] = load["MEM"]]
            /\ last' = [last EXCEPT !["MEM"] = load["MEM"]]
    /\ UNCHANGED <<usage, hasPolled, tick>> /\ Environment

\* A mutant: what the first poll has cached is not replaced.
StoredOnce(m) == IF reading[m] = Failed \/ hasPolled THEN usage[m] ELSE reading[m]

\* updateMetrics, under the lock: a metric that could not be read keeps its
\* value.
Stored(m) == IF reading[m] = Failed THEN usage[m] ELSE reading[m]

StoreUsage ==
    /\ poller = "store" /\ poller' = "select"
    /\ usage' = [m \in Metrics |-> Stored(m)]
    /\ hasPolled' = (hasPolled \/ \E m \in Metrics : reading[m] # Failed)
    /\ UNCHANGED <<reading, tick, last>> /\ Environment

\* A ticker drops what its channel has no room for.
Tick ==
    /\ poller \notin {"none", "stopped"} /\ ~tick /\ tick' = TRUE
    /\ UNCHANGED <<poller, reading, usage, hasPolled, last>> /\ Environment

\* select takes either case when both are ready.
PollAgain ==
    /\ poller = "select" /\ tick
    /\ poller' = "cpu" /\ tick' = FALSE
    /\ UNCHANGED <<reading, usage, hasPolled, last>> /\ Environment

\* A mutant: the context is looked at only when there is no tick.
CanStopIdle == cancelled /\ ~tick

CanStop == cancelled

StopPolling ==
    /\ poller = "select" /\ CanStop
    /\ poller' = "stopped"
    /\ UNCHANGED <<reading, usage, hasPolled, tick, last>> /\ Environment

Close ==
    /\ ~cancelled /\ poller # "none" /\ cancelled' = TRUE
    /\ UNCHANGED <<input, load, broken, poller, reading, usage, hasPolled, tick, call,
                   last>>

-----------------------------------------------------------------------------
(* The environment, and the delegate.                                      *)

LoadChanges ==
    /\ \E m \in Metrics, u \in Usages :
           u # load[m] /\ load' = [load EXCEPT ![m] = u]
    /\ UNCHANGED <<input, broken, poller, reading, usage, hasPolled, tick,
                   cancelled, call, last>>

BreakOrMend ==
    /\ \E m \in Metrics :
           broken' = IF m \in broken THEN broken \ {m} ELSE broken \cup {m}
    /\ UNCHANGED <<input, load, poller, reading, usage, hasPolled, tick,
                   cancelled, call, last>>

\* A method of the delegate asks its decider, and then calls.  A program
\* whose monitor could not be started has exited.
Route ==
    /\ Accepted /\ poller # "none" /\ call = "none"
    /\ call' = IF ShouldDelegate THEN "remote" ELSE "local"
    /\ UNCHANGED <<input, load, broken, poller, reading, usage, hasPolled, tick,
                   cancelled, last>>

Answer ==
    /\ call # "none" /\ call' = "none"
    /\ UNCHANGED <<input, load, broken, poller, reading, usage, hasPolled, tick,
                   cancelled, last>>

PollStep == BeginSample \/ EndSample \/ ReadMemory \/ StoreUsage
MonitorNext ==
    \/ PollStep \/ Tick \/ PollAgain \/ StopPolling \/ Close
    \/ LoadChanges \/ BreakOrMend \/ Route \/ Answer

\* The goroutine is scheduled and its ticker ticks.  select chooses at random
\* among the cases that are ready, so each is chosen if it is ready again and
\* again.
Fairness ==
    /\ WF_monitorVars(PollStep) /\ WF_monitorVars(Tick)
    /\ SF_monitorVars(PollAgain) /\ SF_monitorVars(StopPolling)
MonitorSpec == MonitorInit /\ [][MonitorNext]_monitorVars /\ Fairness

-----------------------------------------------------------------------------

MonitorTypeOK ==
    /\ load \in [Metrics -> Usages] /\ broken \subseteq Metrics
    /\ poller \in {"none", "cpu", "sample", "mem", "store", "select", "stopped"}
    /\ reading \in [Metrics -> Usages \cup {Failed}]
    /\ usage \in [Metrics -> Usages \cup {0}]
    /\ last \in [Metrics -> Usages \cup {0}]
    /\ hasPolled \in BOOLEAN /\ tick \in BOOLEAN /\ cancelled \in BOOLEAN
    /\ call \in {"none", "remote", "local"}

\* A reading of m has been made, or has failed, and is not stored yet.
Unstored(m) == poller = "store" \/ (poller = "mem" /\ m = "CPU")

\* A call goes to the remote service only when the usage read last of the metric
\* the pragma names exceeds the threshold, the reading that is not stored yet
\* excepted: not because of the other metric, which sets the same flag, not
\* because a later reading failed, and not for a metric that has no limit.
DelegationIsEarned ==
    [][call = "none" /\ call' = "remote" =>
         /\ input.limits[Attrs.trigger] > 0
         /\ Exceeds(Attrs.trigger, last[Attrs.trigger]) \/ Unstored(Attrs.trigger)]_monitorVars

Overloaded ==
    /\ Accepted /\ Exceeds(Attrs.trigger, load[Attrs.trigger])
    /\ poller \notin {"none", "stopped"} /\ ~cancelled /\ broken = {}

\* A usage that is over the threshold from some time on, and can be read, is
\* noticed: from some time on the decider says to delegate.
OverloadIsNoticed ==
    <>[]Overloaded => <>[]ShouldDelegate

\* The goroutine of a monitor that has been closed ends.
PollerStops == cancelled ~> (poller = "stopped")
=============================================================================
