-------------------------- MODULE ReporterHistory --------------------------
(***************************************************************************)
(* Reporter with history variables: which run of an engine and which round *)
(* each baseline was taken in, and what every round measured.  They        *)
(* restrict no behaviour.                                                  *)
(***************************************************************************)
EXTENDS Reporter

VARIABLES
    run,          \* target -> how often its engine was started again
    base,         \* target -> run and round its baseline was taken in
    energyFrom,   \* round the energy baseline was taken in
    answered,     \* targets that answered in this round
    crossed,      \* targets whose cache delta of this round spans two runs
    tokensFrom,   \* rounds the token deltas of this round start from
    log           \* round -> what it measured

history == <<run, base, energyFrom, answered, crossed, tokensFrom, log>>
hvars == <<vars, history>>

Unmeasured == [demand |-> {}, hit |-> None, tpj |-> None, crossed |-> FALSE,
               energyFrom |-> 0, tokensFrom |-> {}]

HInit ==
    /\ Init
    /\ run = [t \in Targets |-> 0]
    /\ base = [t \in Targets |-> [run |-> 0, round |-> 0]]
    /\ energyFrom = 0
    /\ answered = {}
    /\ crossed = {}
    /\ tokensFrom = {}
    /\ log = [r \in Times |-> Unmeasured]

\* The step scrapes a target and advances its baseline.
Advances(t) == t \in todo \ todo' /\ t \in round'.responding

Samples == pc = "scrape" /\ pc' = "patch"

Observe ==
    LET begins == pc = "read" /\ pc' = "scrape"
        advanced == {t \in Targets : Advances(t)}
    IN  /\ run' = [t \in Targets |->
                      IF engine'[t].up /\ ~engine[t].up THEN run[t] + 1 ELSE run[t]]
        /\ base' = [t \in Targets |->
                       IF Advances(t) THEN [run |-> run[t], round |-> clock]
                       ELSE base[t]]
        /\ answered' = IF begins THEN {}
                       ELSE answered \cup {t \in todo \ todo' :
                                             engine[t].up /\ faults' = faults}
        /\ crossed' = IF begins THEN {}
                      ELSE crossed \cup {t \in advanced :
                                            Comparable(t) /\ base[t].run # run[t]}
        /\ tokensFrom' = IF begins THEN {}
                         ELSE tokensFrom \cup
                              {base[t].round : t \in {u \in advanced :
                                                        TokensDelta(u) # None}}
        /\ energyFrom' = IF Samples /\ prevEnergy' # None
                            /\ prevEnergy' = SumFunction(energy)
                         THEN clock ELSE energyFrom
        /\ log' = IF Samples
                  THEN [log EXCEPT ![clock] =
                          [demand |-> answered,
                           hit |-> IF lastHit' # lastHit THEN lastHit' ELSE None,
                           tpj |-> IF lastTpj' # lastTpj THEN lastTpj' ELSE None,
                           crossed |-> crossed # {},
                           energyFrom |-> energyFrom,
                           tokensFrom |-> tokensFrom]]
                  ELSE log

HNext == Next /\ Observe

HSpec == HInit /\ [][HNext]_hvars

-----------------------------------------------------------------------------
(***************************************************************************)
(* What the status says was measured at an instant was measured then, and  *)
(* with that value, through failed patches, rounds that measured nothing   *)
(* and restarts (reporter.rs:626-647, ADR-0008 D2).                        *)
(***************************************************************************)
PublishedAsMeasured ==
    status # None =>
        /\ status.hit # None => log[status.hit.at].hit = status.hit
        /\ status.tpj # None => log[status.tpj.at].tpj = status.tpj

(***************************************************************************)
(* The demand in the status is that of the round it was reported in, and   *)
(* absent when no engine answered that round: only the two efficiency      *)
(* signals outlive their round (reporter.rs:638-650, ADR-0009 D2).         *)
(***************************************************************************)
DemandIsCurrent ==
    (status # None /\ status.reported # 0) =>
        status.signals.demand = log[status.reported].demand

(***************************************************************************)
(* A hit rate comes from queries served between two scrapes and lies in    *)
(* [0,1], whatever was missed or restarted in between, as long as no       *)
(* engine comes back and outgrows its old counters unnoticed               *)
(* (reporter.rs:298-328, 381-386).                                         *)
(***************************************************************************)
RateOfTraffic ==
    \A r \in Times :
        (log[r].hit # None /\ ~log[r].crossed) =>
            LET rate == log[r].hit.value
            IN  /\ 0 <= rate.hits /\ rate.hits <= rate.queries
                /\ 0 < rate.queries /\ rate.queries <= work

(***************************************************************************)
(* The energy in an efficiency is counted from the round before, complete, *)
(* to this one, whatever could not be read and whenever the process or a   *)
(* GPU was reset (reporter.rs:438-447, 505-518).                           *)
(***************************************************************************)
EnergyOfOneRound ==
    \A r \in Times : log[r].tpj # None => log[r].energyFrom = r - 1

-----------------------------------------------------------------------------
(***************************************************************************)
(* What the repository says of the reporter and the code does not do.      *)
(***************************************************************************)
\* An efficiency joins tokens and energy "on the same round", both deltas
\* "between consecutive rounds" (reporter.rs:229, 261-262, 439).
TokensOfTheRound ==
    \A r \in Times : log[r].tpj # None => log[r].tokensFrom \subseteq {r - 1}
=============================================================================
