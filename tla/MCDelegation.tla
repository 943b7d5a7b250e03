---------------------------- MODULE MCDelegation ----------------------------
(***************************************************************************)
(* Pragmas on either metric with a threshold of a half, of the whole and   *)
(* NaN, limits that are set or zero, and a monitor that does not start.    *)
(***************************************************************************)
EXTENDS Delegation

Pragma(trigger, threshold) == [trigger |-> trigger, threshold |-> threshold]
With(pragma, cpu, mem) ==
    [attrs |-> pragma, limits |-> [CPU |-> cpu, MEM |-> mem], started |-> TRUE]
MCInputs ==
    {With(Pragma("CPU", 1), 2, 2), With(Pragma("MEM", 2), 0, 1),
     With(Pragma("CPU", 1), 0, 2), With(Pragma("CPU", NaN), 2, 2),
     With(Pragma("MEM", 3), 2, 2), With(Pragma("", 1), 2, 2),
     [With(Pragma("CPU", 1), 2, 2) EXCEPT !.started = FALSE]}
MCUsages == {0, 2}
=============================================================================
