---------------------------- MODULE FleetHistory ----------------------------
(***************************************************************************)
(* FleetController with history variables: what an observer of the cluster *)
(* remembers and the controller does not.  They restrict no behaviour.     *)
(***************************************************************************)
EXTENDS FleetController

VARIABLES
    lost,        \* slots whose child someone else deleted, not yet replaced
    withdrawn,   \* whether a hold may have ended other than by a move
    outRuns,     \* slot -> completed reconciles that found it surplus since
                 \* it was created or last found in range
    interrupted  \* whether the last reconcile that wrote was abandoned

history == <<lost, withdrawn, outRuns, interrupted>>
hvars == <<vars, history>>

HInit ==
    /\ Init
    /\ lost = {}
    /\ withdrawn = FALSE
    /\ outRuns = [i \in Slots |-> 0]
    /\ interrupted = FALSE

Bounded(n) == IF n < StableRequired THEN n ELSE StableRequired

Observe ==
    LET gone(i) == child[i] # NoNode /\ child'[i] = NoNode
        born(i) == child[i] = NoNode /\ child'[i] # NoNode
    IN  /\ lost' = IF Completes
                   THEN {i \in lost : fleet'.status.placements[i].node # child[i]}
                   ELSE lost \cup {i \in Slots : gone(i) /\ events' # events}
        /\ withdrawn' = (\/ withdrawn
                         \/ events' # events /\ ~(Displaced \subseteq Displaced')
                         \/ events' # events /\ \E i \in Slots : gone(i)
                         \/ faults' # faults)
        /\ outRuns' = [i \in Slots |->
                          IF born(i) \/ gone(i) THEN 0
                          ELSE IF ~Completes THEN outRuns[i]
                          ELSE IF i \in InRange(snap) \/ current[i] = NoNode THEN 0
                          ELSE Bounded(outRuns[i] + 1)]
        /\ interrupted' = IF Completes THEN FALSE
                          ELSE interrupted \/ (pc = "act" /\ faults' # faults)

HNext == Next /\ Observe

HSpec == HInit /\ [][HNext]_hvars

-----------------------------------------------------------------------------
(***************************************************************************)
(* Between reconciles the last status accounts for every replica that runs *)
(* and for no other, with its node, across moves, scale-downs being waited *)
(* out and early returns, and again after the first reconcile that         *)
(* completes once one was abandoned; only what someone else deleted may    *)
(* differ (fleet_controller.rs:781-853, ADR-0009 D1: the scale subresource *)
(* must report what exists).                                               *)
(***************************************************************************)
StatusMatchesChildren ==
    (pc # "act" /\ ~interrupted) =>
        /\ \A i \in Slots \ lost : fleet.status.placements[i].node = child[i]
        /\ lost = {} => fleet.status.replicas = Cardinality(Pinned(child))

(***************************************************************************)
(* status.activeReschedules stays within the cap, through any sequence of  *)
(* reclaims, waves of moves and rescaling, as long as no node held for     *)
(* displacement comes back (fleet_controller.rs:857-871,                   *)
(* fleet_types.rs:288-290: the counter backing the cap).                   *)
(***************************************************************************)
ActiveWithinCap == ~withdrawn => fleet.status.active <= IF Cap > 0 THEN Cap ELSE 0

(***************************************************************************)
(* A surplus replica is deleted only after stableReconcilesRequired        *)
(* completed reconciles found it surplus, none of them in between finding  *)
(* it in range: the wait of an earlier scale-down never counts for a later *)
(* one, as long as every reconcile completes (fleet_types.rs:297-302,      *)
(* fleet_controller.rs:791-800).                                           *)
(***************************************************************************)
RemovalWaited ==
    [][\A i \in Slots :
          (child[i] # NoNode /\ child'[i] = NoNode /\ events' = events /\ faults = 0)
             => outRuns[i] + 1 >= StableRequired]_hvars
=============================================================================
