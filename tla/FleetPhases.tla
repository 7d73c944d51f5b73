---------------------------- MODULE FleetPhases ----------------------------
(***************************************************************************)
(* The pure lifecycle logic of src/src/fleet_types.rs: what the reconcile  *)
(* of a FleetService computes from one placement, or from the counts of    *)
(* its placements, without reading anything else.                          *)
(***************************************************************************)
EXTENDS Integers

\* Counters of the status are i32 in the code.
I32Max == 2147483647

\* PlacementStatus.phase as placement_phase_for writes it.
PlacementPhases == {"Pending", "Warming", "Ready", "Draining", "Rescheduling"}

\* FleetServiceStatus.phase; "" is a fleet no reconcile has reported on yet.
FleetPhases == {"", "Ready", "Placing", "Degraded"}

-----------------------------------------------------------------------------
\* Plausible slips in the code below, substituted one at a time when the
\* properties are tested against a wrong program.

ForgetsTheWait(prev, inSurplus, required) ==
    [count |-> 1, remove |-> inSurplus /\ 1 >= required]

OneReconcileEarly(prev, inSurplus, required) ==
    IF ~inSurplus THEN [count |-> 0, remove |-> FALSE]
    ELSE [count |-> prev + 1, remove |-> prev + 2 >= required]

PreemptedNotDraining(phase, nodeReady, preempted) ==
    IF preempted THEN "Preempted" ELSE IF nodeReady THEN "Ready" ELSE "Pending"

-----------------------------------------------------------------------------
(***************************************************************************)
(* surplus_hysteresis: the counter to persist for a placement and whether  *)
(* it may be removed now.  A non-positive requirement removes at once.     *)
(***************************************************************************)
SurplusHysteresis(prev, inSurplus, required) ==
    LET base == IF prev > 0 THEN prev ELSE 0
        next == IF base = I32Max THEN I32Max ELSE base + 1
    IN  IF ~inSurplus THEN [count |-> 0, remove |-> FALSE]
        ELSE IF required <= 0 THEN [count |-> 0, remove |-> TRUE]
        ELSE [count |-> next, remove |-> next >= required]

(***************************************************************************)
(* placement_phase_for: a displaced placement drains whatever its child    *)
(* reports; one that was draining passes through Rescheduling for one      *)
(* reconcile; otherwise the phase follows the child's readiness.           *)
(***************************************************************************)
PlacementPhaseFor(phase, nodeReady, preempted) ==
    IF preempted THEN "Draining"
    ELSE IF phase \in {"Draining", "Preempted"} THEN "Rescheduling"
    ELSE IF nodeReady THEN "Ready"
    ELSE IF phase = "Ready" THEN "Warming"
    ELSE "Pending"

\* fleet_phase_for: drain-and-hold is reported before readiness.
FleetPhaseFor(desired, ready, drainAndHold) ==
    IF drainAndHold THEN "Degraded"
    ELSE IF ready >= desired THEN "Ready"
    ELSE "Placing"
=============================================================================
