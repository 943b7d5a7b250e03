----------------------------- MODULE CutSelection -----------------------------
(***************************************************************************)
(* What admission promises of a lift, without saying how a candidate is    *)
(* judged: candidates leave the contest one at a time, always the most     *)
(* preferred one, and the chosen cut is the most preferred of those left.  *)
(* A contest may end without a choice, and a choice may still be withdrawn *)
(* when the final plan is built; nothing is ever chosen after that.        *)
(***************************************************************************)
VARIABLES
    prefers,     \* <<s, t>> \in prefers: candidate s is preferred to t
    contenders,  \* the candidates still in the contest
    outcome,     \* "idle", "open", "chosen" or "none"
    choice       \* the chosen candidate, 0 when there is none

selection == <<prefers, contenders, outcome, choice>>

Best(s) == /\ s \in contenders
           /\ \A t \in contenders \ {s} : <<s, t>> \in prefers

Init == /\ prefers = {} /\ contenders = {}
        /\ outcome = "idle" /\ choice = 0

\* A new contest replaces the decided one; with one contender it may be decided
\* at once.
Start == /\ outcome # "open"
         /\ \/ outcome' \in {"open", "none"} /\ choice' = 0
            \/ outcome' = "chosen" /\ choice' \in contenders' /\ Best(choice)'

Discard == /\ outcome = "open"
           /\ \E s \in contenders : Best(s) /\ contenders' = contenders \ {s}
           /\ UNCHANGED <<prefers, outcome, choice>>

Choose == /\ outcome = "open"
          /\ outcome' = "chosen" /\ Best(choice')
          /\ UNCHANGED <<prefers, contenders>>

GiveUp == /\ outcome \in {"open", "chosen"}
          /\ outcome' = "none" /\ choice' = 0
          /\ UNCHANGED <<prefers, contenders>>

Next == Start \/ Discard \/ Choose \/ GiveUp

Spec == Init /\ [][Next]_selection
===============================================================================
