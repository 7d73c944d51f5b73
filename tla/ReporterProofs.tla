---------------------------- MODULE ReporterProofs ----------------------------
(***************************************************************************)
(* What the reporter publishes, proved for any number of engines and GPUs, *)
(* of rounds, requests and faults.                                         *)
(***************************************************************************)
EXTENDS ReporterHistory, SumLemmas

-----------------------------------------------------------------------------
(***************************************************************************)
(* Types.                                                                  *)
(***************************************************************************)
LEMMA EnergySumType ==
    ASSUME TypeOK, NEW readable
    PROVE  EnergySum(readable) \in Nat \cup {None}
<1>1. SumFunction(energy) \in Nat
  BY ReporterAssumption, SumOfNaturals DEF TypeOK
<1> QED
  BY <1>1 DEF EnergySum

LEMMA DeltaTypes ==
    ASSUME TypeOK, NEW t \in Targets
    PROVE  /\ CacheDelta(t) \in [hits : Nat, queries : Nat]
           /\ TokensOf(t) \in Nat \cup {None}
           /\ TokensDelta(t) \in Nat \cup {None}
           /\ AddTo(round.tokens, TokensDelta(t)) \in Nat \cup {None}
<1>1. /\ engine[t] \in [up : BOOLEAN, cache : BOOLEAN,
                        hits : Nat, queries : Nat, tokens : Nat]
      /\ prev[t] # None => prev[t] \in Baseline
      /\ round.tokens \in Nat \cup {None}
  BY DEF TypeOK, ScrapeRound
<1>2. CacheDelta(t) \in [hits : Nat, queries : Nat]
  BY <1>1 DEF CacheDelta, Comparable, Baseline
<1>3. TokensOf(t) \in Nat \cup {None}
  BY <1>1 DEF TokensOf
<1>4. TokensDelta(t) \in Nat \cup {None}
  BY <1>1, <1>3 DEF TokensDelta, Baseline
<1>5. AddTo(round.tokens, TokensDelta(t)) \in Nat \cup {None}
  BY <1>1, <1>4 DEF AddTo
<1> QED
  BY <1>2, <1>3, <1>4, <1>5

LEMMA MeasuredTypes ==
    ASSUME TypeOK, NEW readable
    PROVE  /\ Retain(MeasuredHit, lastHit) \in RetainedHit
           /\ Retain(MeasuredTpj(EnergyDelta(EnergySum(readable))), lastTpj) \in RetainedTpj
<1>1. /\ round.hits \in Nat /\ round.queries \in Nat
      /\ round.tokens \in Nat \cup {None}
      /\ clock \in Times
      /\ lastHit \in RetainedHit /\ lastTpj \in RetainedTpj
      /\ prevEnergy \in Nat \cup {None}
  BY DEF TypeOK, ScrapeRound
<1>2. MeasuredHit \in RetainedHit
  BY <1>1 DEF MeasuredHit, RetainedHit, Rate
<1>3. EnergyDelta(EnergySum(readable)) \in Nat \cup {None}
  BY <1>1, EnergySumType DEF EnergyDelta
<1>4. MeasuredTpj(EnergyDelta(EnergySum(readable))) \in RetainedTpj
  BY <1>1, <1>3 DEF MeasuredTpj, RetainedTpj, Efficiency
<1> QED
  BY <1>1, <1>2, <1>4 DEF Retain

LEMMA TypeKept == TypeOK /\ [Next]_vars => TypeOK'
<1> SUFFICES ASSUME TypeOK, [Next]_vars PROVE TypeOK'
  OBVIOUS
<1> USE ReporterAssumption
<1>1. CASE StartReporter
  <2>1. EmptyStatus \in NodeStateStatus
    BY DEF EmptyStatus, NoSignals, NodeStateStatus, Signals, RetainedHit,
           RetainedTpj, Times
  <2>2. nvml' \in BOOLEAN
    <3>1. nvml' \in IF faults < MaxFaults THEN BOOLEAN ELSE {TRUE}
      BY <1>1 DEF StartReporter
    <3> QED
      BY <3>1, Zenon
  <2>3. faults' \in Nat
    <3>1. faults \in Nat /\ faults + 1 \in Nat
      BY DEF TypeOK
    <3>2. faults' = IF nvml' THEN faults ELSE faults + 1
      BY <1>1 DEF StartReporter
    <3> QED
      BY <3>1, <3>2, Zenon
  <2> QED
    BY <1>1, <2>1, <2>2, <2>3 DEF StartReporter, TypeOK, worldVars, baselineVars, retainedVars
<1>2. CASE RetryRead
  BY <1>2 DEF RetryRead, TypeOK, vars, worldVars, processVars, baselineVars, retainedVars
<1>3. CASE ReadNodeState
  <2>1. NoRound \in ScrapeRound
    BY DEF NoRound, ScrapeRound
  <2>2. clock' \in Times
    BY <1>3 DEF ReadNodeState, TypeOK, Times
  <2> QED
    BY <1>3, <2>1, <2>2 DEF ReadNodeState, TypeOK, worldVars, baselineVars, retainedVars
<1>4. ASSUME NEW t \in Targets, ScrapeTarget(t) PROVE TypeOK'
  <2>1. round \in ScrapeRound
    BY DEF TypeOK
  <2>2. round' \in ScrapeRound
    BY <1>4, <2>1, DeltaTypes DEF ScrapeTarget, ScrapeRound
  <2>3. prev' \in [Targets -> Baseline \cup {None}]
    <3>1. engine[t].hits \in Nat /\ engine[t].queries \in Nat
      BY DEF TypeOK
    <3>2. [hits |-> engine[t].hits, queries |-> engine[t].queries,
           tokens |-> TokensOf(t)] \in Baseline
      BY <3>1, DeltaTypes DEF Baseline
    <3> QED
      BY <1>4, <3>2 DEF ScrapeTarget, TypeOK
  <2> QED
    BY <1>4, <2>2, <2>3 DEF ScrapeTarget, TypeOK, worldVars, retainedVars
<1>5. ASSUME NEW t \in Targets, MissTarget(t) PROVE TypeOK'
  <2>1. faults' \in Nat
    BY <1>5 DEF MissTarget, TypeOK
  <2> QED
    BY <1>5, <2>1 DEF MissTarget, TypeOK, worldVars, baselineVars, retainedVars
<1>6. ASSUME NEW readable \in SUBSET Devices, SampleEnergy(readable) PROVE TypeOK'
  <2>1. faults' \in Nat
    BY <1>6 DEF SampleEnergy, TypeOK
  <2>2. prevEnergy' \in Nat \cup {None}
    BY <1>6, EnergySumType DEF SampleEnergy, NextEnergyBaseline
  <2>3. lastHit' \in RetainedHit /\ lastTpj' \in RetainedTpj
    BY <1>6, MeasuredTypes DEF SampleEnergy
  <2>4. sample' \in Signals
    BY <1>6 DEF SampleEnergy, TypeOK, ScrapeRound, Signals
  <2> QED
    BY <1>6, <2>1, <2>2, <2>3, <2>4 DEF SampleEnergy, TypeOK, worldVars
<1>7. CASE PatchStatus
  <2>1. status' \in NodeStateStatus
    BY <1>7 DEF PatchStatus, Published, TypeOK, NodeStateStatus
  <2> QED
    BY <1>7, <2>1 DEF PatchStatus, TypeOK, worldVars, baselineVars, retainedVars
<1>8. CASE FailPatch
  <2>1. faults' \in Nat
    BY <1>8 DEF FailPatch, TypeOK
  <2> QED
    BY <1>8, <2>1 DEF FailPatch, TypeOK, worldVars, baselineVars, retainedVars
<1>9. CASE StopReporter
  <2>1. NoRound \in ScrapeRound /\ NoSignals \in Signals
    BY DEF NoRound, ScrapeRound, NoSignals, Signals
  <2>2. faults' \in Nat
    BY <1>9 DEF StopReporter, TypeOK
  <2> QED
    BY <1>9, <2>1, <2>2 DEF StopReporter, TypeOK, worldVars, RetainedHit, RetainedTpj
<1>10. CASE Node
  <2> USE DEF processVars, baselineVars, retainedVars
  <2>1. ASSUME NEW t \in Targets, StopEngine(t) PROVE TypeOK'
    BY <2>1 DEF StopEngine, Stopped, TypeOK
  <2>2. ASSUME NEW t \in Targets, NEW cache \in BOOLEAN, StartEngine(t, cache) PROVE TypeOK'
    BY <2>2 DEF StartEngine, TypeOK
  <2>3. ASSUME NEW t \in Targets, NEW hit \in {0, 1}, NEW d \in Devices, Serve(t, hit, d)
        PROVE  TypeOK'
    <3>1. engine' \in [Targets -> [up : BOOLEAN, cache : BOOLEAN,
                                   hits : Nat, queries : Nat, tokens : Nat]]
      BY <2>3 DEF Serve, TypeOK
    <3>2. energy' \in [Devices -> Nat] /\ work' \in Nat
      BY <2>3 DEF Serve, TypeOK
    <3> QED
      BY <2>3, <3>1, <3>2 DEF Serve, TypeOK
  <2>4. ASSUME NEW d \in Devices, Idle(d) PROVE TypeOK'
    BY <2>4 DEF Idle, TypeOK
  <2>5. ASSUME NEW d \in Devices, ResetEnergy(d) PROVE TypeOK'
    BY <2>5 DEF ResetEnergy, TypeOK
  <2>6. CASE DeleteNodeState
    BY <2>6 DEF DeleteNodeState, TypeOK, worldVars
  <2> QED
    BY <1>10, <2>1, <2>2, <2>3, <2>4, <2>5, <2>6 DEF Node
<1>11. CASE UNCHANGED vars
  BY <1>11 DEF TypeOK, vars, worldVars, processVars, baselineVars, retainedVars
<1> QED
  BY <1>1, <1>2, <1>3, <1>4, <1>5, <1>6, <1>7, <1>8, <1>9, <1>10, <1>11
     DEF Next, Report

LEMMA InitType == Init => TypeOK
<1> SUFFICES ASSUME Init PROVE TypeOK
  OBVIOUS
<1>1. NoRound \in ScrapeRound /\ NoSignals \in Signals
  BY DEF NoRound, ScrapeRound, NoSignals, Signals
<1>2. 0 \in Times
  BY ReporterAssumption DEF Times
<1>3. engine \in [Targets -> [up : BOOLEAN, cache : BOOLEAN,
                             hits : Nat, queries : Nat, tokens : Nat]]
  BY DEF Init, Stopped
<1>4. energy \in [Devices -> Nat] /\ prev \in [Targets -> Baseline \cup {None}]
  BY DEF Init
<1>5. /\ status \in NodeStateStatus \cup {None}
      /\ pc \in {"down", "read", "scrape", "patch"}
      /\ nvml \in BOOLEAN
      /\ prevEnergy \in Nat \cup {None}
      /\ lastHit \in RetainedHit
      /\ lastTpj \in RetainedTpj
  BY DEF Init, RetainedHit, RetainedTpj
<1>6. /\ todo \in SUBSET Targets
      /\ round \in ScrapeRound
      /\ sample \in Signals
      /\ clock \in Times
      /\ {work, faults} \subseteq Nat
  BY <1>1, <1>2 DEF Init
<1> QED
  BY <1>3, <1>4, <1>5, <1>6 DEF TypeOK

(***************************************************************************)
(* Every variable of the reporter holds what the code's types admit.       *)
(***************************************************************************)
THEOREM TypeCorrect == Spec => []TypeOK
  BY InitType, TypeKept, PTL DEF Spec

-----------------------------------------------------------------------------
(***************************************************************************)
(* The history, and the three kinds of steps: one begins a round, one ends *)
(* it and logs it, the others log nothing.                                 *)
(***************************************************************************)
RoundLog == [demand : SUBSET Targets, hit : RetainedHit, tpj : RetainedTpj,
             crossed : BOOLEAN, energyFrom : Times, tokensFrom : SUBSET Times]

ReporterType ==
    /\ TypeOK
    /\ run \in [Targets -> Nat]
    /\ base \in [Targets -> [run : Nat, round : Times]]
    /\ energyFrom \in Times
    /\ answered \in SUBSET Targets
    /\ crossed \in SUBSET Targets
    /\ tokensFrom \in SUBSET Times
    /\ log \in [Times -> RoundLog]
    /\ pc = "scrape" => clock > 0

\* What a step that neither begins nor ends a round may do.
Between ==
    /\ UNCHANGED <<clock, log, energyFrom>>
    /\ work <= work'
    /\ pc' = "scrape" => pc = "scrape"
    /\ pc' = "patch" => pc = "patch" /\ sample' = sample
    /\ lastHit' \in {lastHit, None}
    /\ lastTpj' \in {lastTpj, None}
    /\ prevEnergy' \in {prevEnergy, None}
    /\ pc' = "scrape" \/ pc # "scrape" \/ prevEnergy' = None
    /\ pc' = "scrape" /\ round.demand = answered => round'.demand = answered'
    /\ \/ status' \in {status, None, EmptyStatus}
       \/ /\ pc = "patch" /\ pc' = "read"
          /\ status' = [reported |-> clock, signals |-> sample,
                        hit |-> lastHit, tpj |-> lastTpj]

\* While a round neither begins nor ends, nothing is logged.
LEMMA Unlogged ==
    ASSUME Observe, pc = "scrape" => pc' # "patch", pc = "read" => pc' # "scrape"
    PROVE  /\ UNCHANGED <<log, energyFrom>>
           /\ answered' = answered \cup {t \in todo \ todo' :
                                          engine[t].up /\ faults' = faults}
  BY DEF Observe, Samples

LEMMA ThreeKinds ==
    ASSUME ReporterType, [HNext]_hvars
    PROVE  \/ ReadNodeState /\ Observe
           \/ \E readable \in SUBSET Devices : SampleEnergy(readable) /\ Observe
           \/ Between
<1> USE DEF vars, worldVars, processVars, baselineVars, retainedVars
<1>0. /\ faults \in Nat /\ work \in Nat
      /\ pc \in {"down", "read", "scrape", "patch"}
  BY DEF ReporterType, TypeOK
<1>1. CASE StartReporter /\ Observe
  <2>1. UNCHANGED <<log, energyFrom>>
    BY <1>1, Unlogged DEF StartReporter
  <2> QED
    BY <1>0, <1>1, <2>1 DEF StartReporter, Between
<1>2. CASE RetryRead /\ Observe
  <2>1. UNCHANGED <<log, energyFrom>>
    BY <1>2, Unlogged DEF RetryRead
  <2> QED
    BY <1>0, <1>2, <2>1 DEF RetryRead, Between
<1>4. ASSUME NEW t \in Targets, ScrapeTarget(t), Observe PROVE Between
  <2>1. /\ UNCHANGED <<log, energyFrom>>
        /\ answered' = answered \cup {u \in todo \ todo' : engine[u].up /\ faults' = faults}
    BY <1>4, Unlogged DEF ScrapeTarget
  <2>2. todo \ todo' = {t} /\ engine[t].up /\ faults' = faults
    BY <1>4 DEF ScrapeTarget
  <2>3. answered' = answered \cup {t}
    BY <2>1, <2>2
  <2>4. round'.demand = round.demand \cup {t}
    <3>1. round \in ScrapeRound
      BY DEF ReporterType, TypeOK
    <3> QED
      BY <1>4, <3>1 DEF ScrapeTarget, ScrapeRound
  <2>5. /\ pc = "scrape"
        /\ UNCHANGED <<clock, work, pc, sample, lastHit, lastTpj, prevEnergy, status>>
    BY <1>4 DEF ScrapeTarget
  <2> QED
    BY <1>0, <2>1, <2>3, <2>4, <2>5 DEF Between
<1>5. ASSUME NEW t \in Targets, MissTarget(t), Observe PROVE Between
  <2>1. /\ UNCHANGED <<log, energyFrom>>
        /\ answered' = answered \cup {u \in todo \ todo' : engine[u].up /\ faults' = faults}
    BY <1>5, Unlogged DEF MissTarget
  <2>2. todo \ todo' = {t}
    BY <1>5 DEF MissTarget
  <2>3. ~(engine[t].up /\ faults' = faults)
    BY <1>0, <1>5 DEF MissTarget
  <2>4. answered' = answered
    BY <2>1, <2>2, <2>3
  <2> QED
    BY <1>0, <1>5, <2>1, <2>4 DEF MissTarget, Between
<1>7. CASE PatchStatus /\ Observe
  <2>1. UNCHANGED <<log, energyFrom>>
    BY <1>7, Unlogged DEF PatchStatus
  <2> QED
    BY <1>0, <1>7, <2>1 DEF PatchStatus, Published, Between
<1>8. CASE FailPatch /\ Observe
  <2>1. UNCHANGED <<log, energyFrom>>
    BY <1>8, Unlogged DEF FailPatch
  <2> QED
    BY <1>0, <1>8, <2>1 DEF FailPatch, Between
<1>9. CASE StopReporter /\ Observe
  <2>1. UNCHANGED <<log, energyFrom>>
    BY <1>9, Unlogged DEF StopReporter
  <2> QED
    BY <1>0, <1>9, <2>1 DEF StopReporter, Between
<1>10. CASE Node /\ Observe
  <2>1. /\ UNCHANGED <<processVars, clock>> /\ work <= work'
        /\ status' \in {status, None}
    <3>1. ASSUME NEW t \in Targets, StopEngine(t) \/ \E c \in BOOLEAN : StartEngine(t, c)
          PROVE  UNCHANGED <<processVars, clock, work, status>>
      BY <3>1 DEF StopEngine, StartEngine
    <3>2. ASSUME NEW t \in Targets, NEW hit, NEW d, Serve(t, hit, d)
          PROVE  UNCHANGED <<processVars, clock, status>> /\ work' = work + 1
      BY <3>2 DEF Serve
    <3>3. ASSUME NEW d, Idle(d) \/ ResetEnergy(d)
          PROVE  UNCHANGED <<processVars, clock, status>> /\ work' \in {work, work + 1}
      BY <3>3 DEF Idle, ResetEnergy
    <3>4. CASE DeleteNodeState
      BY <1>0, <3>4 DEF DeleteNodeState
    <3> QED
      BY <1>0, <1>10, <3>1, <3>2, <3>3, <3>4 DEF Node
  <2>2. /\ UNCHANGED <<log, energyFrom>>
        /\ answered' = answered \cup {u \in todo \ todo' : engine[u].up /\ faults' = faults}
    BY <1>10, <2>1, Unlogged
  <2>3. answered' = answered
    BY <2>1, <2>2
  <2> QED
    BY <1>0, <2>1, <2>2, <2>3 DEF Between
<1>11. CASE UNCHANGED hvars
  BY <1>0, <1>11 DEF hvars, history, Between
<1> QED
  BY <1>1, <1>2, <1>4, <1>5, <1>7, <1>8, <1>9, <1>10, <1>11
     DEF HNext, Next, Report

\* What the end of a round logs.
LEMMA Logged ==
    ASSUME ReporterType, Observe, NEW readable, SampleEnergy(readable)
    PROVE  /\ clock \in Times /\ pc = "scrape" /\ pc' = "patch"
           /\ log'[clock].demand = answered
           /\ log'[clock].hit = IF lastHit' # lastHit THEN lastHit' ELSE None
           /\ log'[clock].tpj = IF lastTpj' # lastTpj THEN lastTpj' ELSE None
           /\ log'[clock].crossed = (crossed # {})
           /\ log'[clock].energyFrom = energyFrom
           /\ \A r \in Times \ {clock} : log'[r] = log[r]
           /\ UNCHANGED <<clock, status, round, work>>
<1>1. clock \in Times /\ log \in [Times -> RoundLog]
  BY DEF ReporterType, TypeOK
<1>2. pc = "scrape" /\ pc' = "patch" /\ UNCHANGED <<clock, status, round, work>>
  BY DEF SampleEnergy
<1>3. log' = [log EXCEPT ![clock] =
                 [demand |-> answered,
                  hit |-> IF lastHit' # lastHit THEN lastHit' ELSE None,
                  tpj |-> IF lastTpj' # lastTpj THEN lastTpj' ELSE None,
                  crossed |-> crossed # {},
                  energyFrom |-> energyFrom, tokensFrom |-> tokensFrom]]
  BY <1>2 DEF Observe, Samples
<1> QED
  BY <1>1, <1>2, <1>3

LEMMA ReporterTypeKept == ReporterType /\ [HNext]_hvars => ReporterType'
<1> SUFFICES ASSUME ReporterType, [HNext]_hvars PROVE ReporterType'
  OBVIOUS
<1> USE ReporterAssumption
<1>1. TypeOK /\ TypeOK'
  <2>1. [Next]_vars
    BY DEF HNext, hvars
  <2> QED
    BY <2>1, TypeKept DEF ReporterType
<1>2. CASE UNCHANGED hvars
  BY <1>1, <1>2 DEF ReporterType, hvars, history, vars, processVars
<1>3. CASE HNext
  <2>0. Observe
    BY <1>3 DEF HNext
  <2>1. run' \in [Targets -> Nat]
    BY <2>0 DEF Observe, ReporterType
  <2>2. base' \in [Targets -> [run : Nat, round : Times]]
    BY <1>1, <2>0 DEF Observe, ReporterType, TypeOK
  <2>3. answered' \in SUBSET Targets /\ crossed' \in SUBSET Targets
    BY <1>1, <2>0 DEF Observe, ReporterType, TypeOK
  <2>4. tokensFrom' \in SUBSET Times
    BY <2>0 DEF Observe, ReporterType
  <2>5. energyFrom' \in Times
    BY <1>1, <2>0 DEF Observe, ReporterType, TypeOK
  <2>6. log' \in [Times -> RoundLog]
    <3>1. None \in RetainedHit /\ None \in RetainedTpj
      BY DEF RetainedHit, RetainedTpj
    <3> DEFINE entry == [demand |-> answered,
                         hit |-> IF lastHit' # lastHit THEN lastHit' ELSE None,
                         tpj |-> IF lastTpj' # lastTpj THEN lastTpj' ELSE None,
                         crossed |-> crossed # {},
                         energyFrom |-> energyFrom, tokensFrom |-> tokensFrom]
    <3>2. /\ lastHit' \in RetainedHit /\ lastTpj' \in RetainedTpj
      BY <1>1 DEF TypeOK
    <3>3. entry \in RoundLog
      BY <3>1, <3>2 DEF ReporterType, RoundLog
    <3>4. log' = [log EXCEPT ![clock] = entry] \/ log' = log
      BY <2>0 DEF Observe
    <3> HIDE DEF entry
    <3> QED
      BY <3>3, <3>4 DEF ReporterType
  <2>7. pc' = "scrape" => clock' > 0
    <3>1. CASE ReadNodeState
      BY <1>1, <3>1 DEF ReadNodeState, TypeOK, Times
    <3>2. CASE ~ReadNodeState
      <4>1. clock' = clock /\ (pc' = "scrape" => pc = "scrape")
        BY <3>2, ThreeKinds DEF Between, SampleEnergy
      <4> QED
        BY <4>1 DEF ReporterType
    <3> QED
      BY <3>1, <3>2
  <2> QED
    BY <1>1, <2>1, <2>2, <2>3, <2>4, <2>5, <2>6, <2>7 DEF ReporterType
<1> QED
  BY <1>2, <1>3

LEMMA InitReporterType == HInit => ReporterType
<1> SUFFICES ASSUME HInit PROVE ReporterType
  OBVIOUS
<1>1. TypeOK
  BY InitType DEF HInit
<1>2. 0 \in Times
  BY ReporterAssumption DEF Times
<1>3. Unmeasured \in RoundLog
  BY <1>2 DEF Unmeasured, RoundLog, RetainedHit, RetainedTpj
<1>4. log \in [Times -> RoundLog]
  BY <1>3 DEF HInit
<1> QED
  BY <1>1, <1>2, <1>4 DEF HInit, Init, ReporterType

-----------------------------------------------------------------------------
(***************************************************************************)
(* Published signals.  What is retained or published is in the log under   *)
(* the round it is dated with, and no round still being scraped is         *)
(* anybody's date, so that logging it disturbs none of them.               *)
(***************************************************************************)
Dated(at) == at <= clock /\ (pc = "scrape" => at < clock)

HitLogged(hit) == hit # None => Dated(hit.at) /\ log[hit.at].hit = hit

TpjLogged(tpj) == tpj # None => Dated(tpj.at) /\ log[tpj.at].tpj = tpj

MeasurementsLogged ==
    /\ HitLogged(lastHit)
    /\ TpjLogged(lastTpj)
    /\ status # None => HitLogged(status.hit) /\ TpjLogged(status.tpj)

DemandLogged ==
    /\ pc = "scrape" => round.demand = answered
    /\ pc = "patch" => sample.demand = log[clock].demand
    /\ status # None => Dated(status.reported)
    /\ DemandIsCurrent

EnergyDated ==
    /\ prevEnergy # None => energyFrom = IF pc = "scrape" THEN clock - 1 ELSE clock
    /\ EnergyOfOneRound

LEMMA DatesStand ==
    ASSUME ReporterType, ReadNodeState \/ Between, NEW at \in Times, Dated(at)
    PROVE  Dated(at)'
<1>1. clock \in Nat /\ at \in Nat
  BY ReporterAssumption DEF ReporterType, TypeOK, Times
<1> QED
  BY <1>1 DEF Dated, ReadNodeState, Between

LEMMA RetainedAt ==
    ASSUME ReporterType
    PROVE  /\ lastHit # None => lastHit.at \in Times
           /\ lastTpj # None => lastTpj.at \in Times
           /\ status # None => /\ status.hit # None => status.hit.at \in Times
                               /\ status.tpj # None => status.tpj.at \in Times
                               /\ status.reported \in Times
  BY DEF ReporterType, TypeOK, NodeStateStatus, RetainedHit, RetainedTpj

LEMMA MeasurementsKept ==
    ReporterType /\ MeasurementsLogged /\ [HNext]_hvars => MeasurementsLogged'
<1> SUFFICES ASSUME ReporterType, MeasurementsLogged, [HNext]_hvars
             PROVE  MeasurementsLogged'
  OBVIOUS
\* A measurement that is logged stays logged when the log stands.
<1>1. ASSUME NEW hit, HitLogged(hit), hit # None => hit.at \in Times,
             ReadNodeState \/ Between, log' = log
      PROVE  hit # None => Dated(hit.at)' /\ log'[hit.at].hit = hit
  BY <1>1, DatesStand DEF HitLogged
<1>2. ASSUME NEW tpj, TpjLogged(tpj), tpj # None => tpj.at \in Times,
             ReadNodeState \/ Between, log' = log
      PROVE  tpj # None => Dated(tpj.at)' /\ log'[tpj.at].tpj = tpj
  BY <1>2, DatesStand DEF TpjLogged
<1>3. CASE ReadNodeState /\ Observe
  <2>1. UNCHANGED <<lastHit, lastTpj, status>>
    BY <1>3 DEF ReadNodeState, retainedVars
  <2>2. log' = log
    BY <1>3 DEF ReadNodeState, Observe, Samples
  <2> QED
    BY <1>1, <1>2, <1>3, <2>1, <2>2, RetainedAt
       DEF MeasurementsLogged, HitLogged, TpjLogged
<1>4. CASE Between
  <2>0. log' = log
    BY <1>4 DEF Between
  <2>1. HitLogged(lastHit)' /\ TpjLogged(lastTpj)'
    BY <1>1, <1>2, <1>4, <2>0, RetainedAt
       DEF MeasurementsLogged, HitLogged, TpjLogged, Between
  <2>2. CASE status' = status
    BY <1>1, <1>2, <1>4, <2>0, <2>1, <2>2, RetainedAt
       DEF MeasurementsLogged, HitLogged, TpjLogged
  <2>3. CASE status' \in {None, EmptyStatus}
    BY <2>1, <2>3 DEF MeasurementsLogged, HitLogged, TpjLogged, EmptyStatus
  <2>4. CASE status' = [reported |-> clock, signals |-> sample,
                        hit |-> lastHit, tpj |-> lastTpj]
    <3>1. status'.hit = lastHit /\ status'.tpj = lastTpj
      BY <2>4
    <3> QED
      BY <1>1, <1>2, <1>4, <2>0, <2>1, <3>1, RetainedAt
         DEF MeasurementsLogged, HitLogged, TpjLogged
  <2> QED
    BY <1>4, <2>2, <2>3, <2>4 DEF Between
<1>5. ASSUME NEW readable \in SUBSET Devices, SampleEnergy(readable), Observe
      PROVE  MeasurementsLogged'
  <2>1. /\ clock \in Times /\ pc = "scrape" /\ pc' = "patch"
        /\ log'[clock].hit = IF lastHit' # lastHit THEN lastHit' ELSE None
        /\ log'[clock].tpj = IF lastTpj' # lastTpj THEN lastTpj' ELSE None
        /\ \A r \in Times \ {clock} : log'[r] = log[r]
        /\ UNCHANGED <<clock, status>>
    BY <1>5, Logged
  <2>2. clock \in Nat /\ \A r \in Times : r \in Nat
    BY <2>1, ReporterAssumption DEF Times
  <2>2a. ASSUME NEW at \in Times, Dated(at) PROVE Dated(at)' /\ log'[at] = log[at]
    <3>1. at < clock /\ at \in Nat
      BY <2>1, <2>2, <2>2a DEF Dated
    <3>2. at # clock
      BY <2>2, <3>1
    <3> QED
      BY <2>1, <2>2, <3>1, <3>2 DEF Dated
  <2>3. ASSUME NEW hit, HitLogged(hit), hit # None => hit.at \in Times
        PROVE  hit # None => Dated(hit.at)' /\ log'[hit.at].hit = hit
    BY <2>3, <2>2a DEF HitLogged
  <2>4. ASSUME NEW tpj, TpjLogged(tpj), tpj # None => tpj.at \in Times
        PROVE  tpj # None => Dated(tpj.at)' /\ log'[tpj.at].tpj = tpj
    BY <2>4, <2>2a DEF TpjLogged
  <2>5. status' # None => HitLogged(status.hit)' /\ TpjLogged(status.tpj)'
    BY <2>1, <2>3, <2>4, RetainedAt DEF MeasurementsLogged, HitLogged, TpjLogged
  <2>6. HitLogged(lastHit)'
    <3>1. lastHit' = lastHit \/ (lastHit' # lastHit /\ lastHit' = MeasuredHit)
      BY <1>5 DEF SampleEnergy, Retain
    <3>2. CASE lastHit' = lastHit
      BY <2>3, <3>2, RetainedAt DEF MeasurementsLogged, HitLogged
    <3>3. CASE lastHit' # lastHit /\ lastHit' = MeasuredHit
      <4>1. lastHit' # None => lastHit'.at = clock
        BY <3>3 DEF MeasuredHit
      <4> QED
        BY <2>1, <2>2, <3>3, <4>1 DEF HitLogged, Dated
    <3> QED
      BY <3>1, <3>2, <3>3
  <2>7. TpjLogged(lastTpj)'
    <3> DEFINE measured == MeasuredTpj(EnergyDelta(EnergySum(readable)))
    <3>1. lastTpj' = lastTpj \/ (lastTpj' # lastTpj /\ lastTpj' = measured)
      BY <1>5 DEF SampleEnergy, Retain
    <3>2. CASE lastTpj' = lastTpj
      BY <2>4, <3>2, RetainedAt DEF MeasurementsLogged, TpjLogged
    <3>3. CASE lastTpj' # lastTpj /\ lastTpj' = measured
      <4>1. lastTpj' # None => lastTpj'.at = clock
        BY <3>3 DEF MeasuredTpj
      <4> QED
        BY <2>1, <2>2, <3>3, <4>1 DEF TpjLogged, Dated
    <3> QED
      BY <3>1, <3>2, <3>3
  <2> QED
    BY <2>1, <2>5, <2>6, <2>7 DEF MeasurementsLogged, HitLogged, TpjLogged
<1> QED
  BY <1>3, <1>4, <1>5, ThreeKinds

(***************************************************************************)
(* A hit rate or an efficiency in the status carries the instant at which  *)
(* it was measured, with the value it had then (reporter.rs:626-647).      *)
(***************************************************************************)
THEOREM MeasurementsPublished == HSpec => []PublishedAsMeasured
<1>1. HInit => ReporterType /\ MeasurementsLogged
  <2> SUFFICES ASSUME HInit PROVE MeasurementsLogged
    BY InitReporterType
  <2> QED
    BY DEF HInit, Init, MeasurementsLogged, HitLogged, TpjLogged
<1>2. (ReporterType /\ MeasurementsLogged) /\ [HNext]_hvars
        => (ReporterType /\ MeasurementsLogged)'
  BY ReporterTypeKept, MeasurementsKept
<1>3. MeasurementsLogged => PublishedAsMeasured
  BY DEF MeasurementsLogged, HitLogged, TpjLogged, PublishedAsMeasured
<1> QED
  BY <1>1, <1>2, <1>3, PTL DEF HSpec

LEMMA DemandKept ==
    ReporterType /\ DemandLogged /\ [HNext]_hvars => DemandLogged'
<1> SUFFICES ASSUME ReporterType, DemandLogged, [HNext]_hvars PROVE DemandLogged'
  OBVIOUS
<1>1. CASE ReadNodeState /\ Observe
  <2>1. /\ pc = "read" /\ pc' = "scrape" /\ status' = status
        /\ round'.demand = {}
    BY <1>1 DEF ReadNodeState, NoRound
  <2>2. log' = log /\ answered' = {}
    BY <1>1, <2>1 DEF Observe, Samples
  <2>3. status' # None => Dated(status.reported)'
    BY <1>1, <2>1, DatesStand, RetainedAt DEF DemandLogged
  <2> QED
    BY <2>1, <2>2, <2>3 DEF DemandLogged, Dated, DemandIsCurrent
<1>2. CASE Between
  <2>1. /\ log' = log /\ clock' = clock
        /\ pc' = "scrape" => round'.demand = answered'
        /\ pc' = "patch" => sample'.demand = log'[clock'].demand
    BY <1>2 DEF Between, DemandLogged
  <2>2. clock \in Times /\ clock \in Nat
    BY ReporterAssumption DEF ReporterType, TypeOK, Times
  <2>3. status' # None =>
           /\ Dated(status.reported)'
           /\ status'.reported # 0 =>
                 status'.signals.demand = log[status'.reported].demand
    <3>1. CASE status' = status
      <4>1. status # None => Dated(status.reported) /\ status.reported \in Times
        BY RetainedAt DEF DemandLogged
      <4>2. status # None => Dated(status.reported)'
        BY <1>2, <2>1, <3>1, <4>1 DEF Between, Dated
      <4> QED
        BY <3>1, <4>2 DEF DemandLogged, DemandIsCurrent
    <3>2. CASE status' \in {None, EmptyStatus}
      <4>1. status' # None => status'.reported = 0
        BY <3>2 DEF EmptyStatus
      <4>2. 0 <= clock' /\ (pc' = "scrape" => 0 < clock')
        BY <1>2, <2>2 DEF Between, ReporterType
      <4> QED
        BY <4>1, <4>2 DEF Dated
    <3>3. CASE /\ pc = "patch" /\ pc' = "read"
               /\ status' = [reported |-> clock, signals |-> sample,
                             hit |-> lastHit, tpj |-> lastTpj]
      <4>1. status'.reported = clock /\ status'.signals = sample /\ pc' # "scrape"
        BY <3>3
      <4>2. Dated(status.reported)'
        BY <2>1, <2>2, <4>1 DEF Dated
      <4> QED
        BY <3>3, <4>1, <4>2 DEF DemandLogged
    <3> QED
      BY <1>2, <3>1, <3>2, <3>3 DEF Between
  <2> QED
    BY <2>1, <2>3 DEF DemandLogged, DemandIsCurrent, Dated
<1>3. ASSUME NEW readable \in SUBSET Devices, SampleEnergy(readable), Observe
      PROVE  DemandLogged'
  <2>1. /\ clock \in Times /\ pc = "scrape" /\ pc' = "patch"
        /\ log'[clock].demand = answered
        /\ \A r \in Times \ {clock} : log'[r] = log[r]
        /\ UNCHANGED <<clock, status>>
    BY <1>3, Logged
  <2>2. sample'.demand = round.demand
    BY <1>3 DEF SampleEnergy
  <2>3. clock \in Nat /\ \A r \in Times : r \in Nat
    BY <2>1, ReporterAssumption DEF Times
  <2>4. status # None => /\ status.reported \in Times
                         /\ status.reported < clock /\ status.reported # clock
    BY <2>1, <2>3, RetainedAt DEF DemandLogged, Dated
  <2> QED
    BY <2>1, <2>2, <2>3, <2>4 DEF DemandLogged, DemandIsCurrent, Dated
<1> QED
  BY <1>1, <1>2, <1>3, ThreeKinds

(***************************************************************************)
(* The demand in the status is that of the engines that answered in the    *)
(* round it is dated with (reporter.rs:638-650).                           *)
(***************************************************************************)
THEOREM DemandOfItsRound == HSpec => []DemandIsCurrent
<1>1. HInit => ReporterType /\ DemandLogged
  <2> SUFFICES ASSUME HInit PROVE DemandLogged
    BY InitReporterType
  <2> QED
    BY DEF HInit, Init, DemandLogged, DemandIsCurrent
<1>2. (ReporterType /\ DemandLogged) /\ [HNext]_hvars => (ReporterType /\ DemandLogged)'
  BY ReporterTypeKept, DemandKept
<1>3. DemandLogged => DemandIsCurrent
  BY DEF DemandLogged
<1> QED
  BY <1>1, <1>2, <1>3, PTL DEF HSpec

LEMMA EnergyKept ==
    ReporterType /\ EnergyDated /\ [HNext]_hvars => EnergyDated'
<1> SUFFICES ASSUME ReporterType, EnergyDated, [HNext]_hvars PROVE EnergyDated'
  OBVIOUS
<1>0. clock \in Nat /\ \A r \in Times : r \in Nat
  BY ReporterAssumption DEF ReporterType, TypeOK, Times
<1>1. CASE ReadNodeState /\ Observe
  <2>1. /\ pc = "read" /\ pc' = "scrape" /\ clock' = clock + 1
        /\ prevEnergy' = prevEnergy
    BY <1>1 DEF ReadNodeState, baselineVars
  <2>2. log' = log /\ energyFrom' = energyFrom
    BY <1>1, <2>1 DEF Observe, Samples
  <2> QED
    BY <1>0, <2>1, <2>2 DEF EnergyDated, EnergyOfOneRound
<1>2. CASE Between
  BY <1>0, <1>2 DEF Between, EnergyDated, EnergyOfOneRound
<1>3. ASSUME NEW readable \in SUBSET Devices, SampleEnergy(readable), Observe
      PROVE  EnergyDated'
  <2>1. /\ clock \in Times /\ pc = "scrape" /\ pc' = "patch"
        /\ log'[clock].tpj = IF lastTpj' # lastTpj THEN lastTpj' ELSE None
        /\ log'[clock].energyFrom = energyFrom
        /\ \A r \in Times \ {clock} : log'[r] = log[r]
        /\ UNCHANGED <<clock, status>>
    BY <1>3, Logged
  <2>2. prevEnergy' # None => energyFrom' = clock
    <3>1. prevEnergy' # None => prevEnergy' = SumFunction(energy)
      BY <1>3 DEF SampleEnergy, NextEnergyBaseline, EnergySum
    <3>2. Samples
      BY <2>1 DEF Samples
    <3>3. energyFrom' = IF Samples /\ prevEnergy' # None
                             /\ prevEnergy' = SumFunction(energy)
                        THEN clock ELSE energyFrom
      BY <1>3 DEF Observe
    <3> QED
      BY <3>1, <3>2, <3>3
  <2>3. lastTpj' # lastTpj => prevEnergy # None
    BY <1>3 DEF SampleEnergy, Retain, MeasuredTpj, EnergyDelta
  <2>4. log'[clock].tpj # None => log'[clock].energyFrom = clock - 1
    BY <2>1, <2>3 DEF EnergyDated
  <2> QED
    BY <2>1, <2>2, <2>4 DEF EnergyDated, EnergyOfOneRound
<1> QED
  BY <1>1, <1>2, <1>3, ThreeKinds

(***************************************************************************)
(* The energy of an efficiency is that drawn since the previous round, and *)
(* every GPU was read in both (reporter.rs:505-518).                       *)
(***************************************************************************)
THEOREM EnergySinceLastRound == HSpec => []EnergyOfOneRound
<1>1. HInit => ReporterType /\ EnergyDated
  <2> SUFFICES ASSUME HInit PROVE EnergyDated
    BY InitReporterType
  <2> QED
    BY DEF HInit, Init, EnergyDated, EnergyOfOneRound, Unmeasured
<1>2. (ReporterType /\ EnergyDated) /\ [HNext]_hvars => (ReporterType /\ EnergyDated)'
  BY ReporterTypeKept, EnergyKept
<1>3. EnergyDated => EnergyOfOneRound
  BY DEF EnergyDated
<1> QED
  BY <1>1, <1>2, <1>3, PTL DEF HSpec

-----------------------------------------------------------------------------
(***************************************************************************)
(* Traffic.  Queries served since the baseline of a target, in the run of  *)
(* its engine the baseline was taken in, are pending until a round counts  *)
(* them; what a round counted and what is pending was served.              *)
(***************************************************************************)
SameRun(t) == engine[t].up /\ prev[t] # None /\ base[t].run = run[t]

Pending ==
    [t \in Targets |->
        IF SameRun(t) THEN engine[t].queries - prev[t].queries ELSE 0]

RunCounted(t) ==
    /\ base[t].run <= run[t]
    /\ engine[t].hits <= engine[t].queries
    /\ SameRun(t) =>
          /\ prev[t].hits <= engine[t].hits
          /\ engine[t].hits - prev[t].hits <= engine[t].queries - prev[t].queries

RunsCounted == \A t \in Targets : RunCounted(t)

RoundCounted ==
    /\ round.responding \cap todo = {}
    /\ SumFunction(Pending) <= work
    /\ crossed = {} => /\ round.hits <= round.queries
                       /\ round.queries + SumFunction(Pending) <= work

TrafficCounted ==
    /\ RunsCounted
    /\ RoundCounted
    /\ RateOfTraffic

LEMMA Counters ==
    ASSUME ReporterType, NEW t \in Targets
    PROVE  /\ engine[t] \in [up : BOOLEAN, cache : BOOLEAN,
                             hits : Nat, queries : Nat, tokens : Nat]
           /\ prev[t] # None => prev[t] \in Baseline
           /\ run[t] \in Nat /\ base[t].run \in Nat
  BY DEF ReporterType, TypeOK

PendingNatural == Pending \in [Targets -> Nat] /\ SumFunction(Pending) \in Nat

LEMMA PendingIsNatural == ReporterType /\ RunsCounted => PendingNatural
<1> SUFFICES ASSUME ReporterType, RunsCounted PROVE PendingNatural
  OBVIOUS
<1>1. ASSUME NEW t \in Targets
      PROVE  (IF SameRun(t) THEN engine[t].queries - prev[t].queries ELSE 0) \in Nat
  <2>1. CASE SameRun(t)
    <3>1. prev[t] \in Baseline
      BY <2>1, Counters DEF SameRun
    <3> QED
      BY <2>1, <3>1, Counters DEF RunsCounted, RunCounted, Baseline
  <2> QED
    BY <2>1
<1>2. Pending \in [Targets -> Nat]
  BY <1>1 DEF Pending
<1> QED
  BY <1>2, SumOfNaturals, ReporterAssumption DEF PendingNatural

LEMMA PendingStaysNatural == (ReporterType /\ RunsCounted)' => PendingNatural'
  BY PendingIsNatural, PTL

\* Rates stay bounded while the log stands and work is only added.
LEMMA LoggedRatesStand ==
    ASSUME ReporterType, ReporterType', RateOfTraffic, log' = log, work <= work'
    PROVE  RateOfTraffic'
<1> SUFFICES ASSUME NEW r \in Times, log[r].hit # None, ~log[r].crossed
             PROVE  LET rate == log[r].hit.value
                    IN  /\ 0 <= rate.hits /\ rate.hits <= rate.queries
                        /\ 0 < rate.queries /\ rate.queries <= work'
  BY DEF RateOfTraffic
<1>1. log[r].hit.value \in Rate
  BY DEF ReporterType, RoundLog, RetainedHit
<1>2. work \in Nat /\ work' \in Nat
  BY DEF ReporterType, TypeOK
<1> QED
  BY <1>1, <1>2 DEF RateOfTraffic, Rate

\* A step that scrapes no counters leaves the baselines and what is pending.
LEMMA BaselinesStand ==
    ASSUME ReporterType, ReporterType', Observe, UNCHANGED <<engine, prev>>,
           \A t \in todo \ todo' : t \notin round'.responding
    PROVE  /\ UNCHANGED <<run, base, Pending>>
           /\ (\A t \in Targets : RunCounted(t)) => \A t \in Targets : RunCounted(t)'
           /\ ~(pc = "read" /\ pc' = "scrape") => crossed' = crossed
<1>1. \A t \in Targets : ~Advances(t)
  BY DEF Advances
<1>2. run' = run
  BY DEF Observe, ReporterType
<1>3. base' = base
  BY <1>1 DEF Observe, ReporterType
<1>4. \A t \in Targets : SameRun(t)' <=> SameRun(t)
  BY <1>2, <1>3 DEF SameRun
<1>5. Pending' = Pending
  BY <1>4 DEF Pending
<1>6. (\A t \in Targets : RunCounted(t)) => \A t \in Targets : RunCounted(t)'
  BY <1>2, <1>3, <1>4 DEF RunCounted
<1>7. ~(pc = "read" /\ pc' = "scrape") => crossed' = crossed
  BY <1>1 DEF Observe
<1> QED
  BY <1>2, <1>3, <1>5, <1>6, <1>7

\* A request changes what is pending of its target by one at most.
LEMMA ServedIsPending ==
    ASSUME ReporterType, ReporterType', TrafficCounted, Observe,
           NEW t \in Targets, NEW hit \in {0, 1}, NEW d \in Devices, Serve(t, hit, d)
    PROVE  TrafficCounted'
<1>1. /\ UNCHANGED <<status, pc, prev, todo, round, lastHit, clock>>
      /\ engine[t].up /\ work' = work + 1
      /\ engine' = [engine EXCEPT ![t].queries = @ + 1, ![t].hits = @ + hit,
                                  ![t].tokens = @ + 1]
  BY DEF Serve, processVars, baselineVars, retainedVars
<1>2. /\ engine'[t].up = engine[t].up
      /\ engine'[t].queries = engine[t].queries + 1
      /\ engine'[t].hits = engine[t].hits + hit
      /\ \A u \in Targets \ {t} : engine'[u] = engine[u]
  BY <1>1 DEF ReporterType, TypeOK
<1>3. \A u \in Targets : engine'[u].up = engine[u].up
  BY <1>2
<1>4. run' = run
  BY <1>3 DEF Observe, ReporterType
<1>5. base' = base /\ crossed' = crossed /\ log' = log
  <2>1. \A u \in Targets : ~Advances(u)
    BY <1>1 DEF Advances
  <2> QED
    BY <1>1, <2>1 DEF Observe, Samples, ReporterType, TypeOK
<1>6. \A u \in Targets : SameRun(u)' <=> SameRun(u)
  BY <1>1, <1>3, <1>4, <1>5 DEF SameRun
<1>7. \A u \in Targets : RunCounted(u)'
  <2>1. ASSUME NEW u \in Targets \ {t} PROVE RunCounted(u)'
    BY <1>1, <1>2, <1>4, <1>5, <1>6 DEF RunCounted, TrafficCounted, RunsCounted
  <2>2. RunCounted(t)'
    <3>1. RunCounted(t) /\ engine[t].hits \in Nat /\ engine[t].queries \in Nat
      BY Counters DEF TrafficCounted, RunsCounted
    <3>2. SameRun(t) => prev'[t].hits \in Nat /\ prev'[t].queries \in Nat
      BY <1>1, Counters DEF SameRun, Baseline
    <3> QED
      BY <1>1, <1>2, <1>4, <1>5, <1>6, <3>1, <3>2 DEF RunCounted
  <2> QED
    BY <2>1, <2>2
<1>8. /\ Pending \in [Targets -> Int] /\ SumFunction(Pending) \in Int
      /\ Pending' \in [Targets -> Int]
  BY <1>7, PendingIsNatural, PendingStaysNatural
     DEF TrafficCounted, RunsCounted, PendingNatural
<1>9. SumFunction(Pending)' <= SumFunction(Pending) + 1
  <2>1. \A u \in Targets \ {t} : Pending'[u] = Pending[u]
    <3> TAKE u \in Targets \ {t}
    <3>1. engine'[u] = engine[u] /\ prev'[u] = prev[u] /\ (SameRun(u)' <=> SameRun(u))
      BY <1>1, <1>2, <1>6
    <3> QED
      BY <3>1 DEF Pending
  <2>2. Pending'[t] - Pending[t] <= 1
    <3>1. CASE SameRun(t)
      <4>1. prev[t].queries \in Nat /\ engine[t].queries \in Nat
        BY <3>1, Counters DEF SameRun, Baseline
      <4>2. /\ Pending'[t] = engine'[t].queries - prev'[t].queries
            /\ Pending[t] = engine[t].queries - prev[t].queries
        BY <1>6, <3>1 DEF Pending
      <4> QED
        BY <1>1, <1>2, <4>1, <4>2
    <3>2. CASE ~SameRun(t)
      BY <1>6, <3>2 DEF Pending
    <3> QED
      BY <3>1, <3>2
  <2> DEFINE P == Pending
             Q == Pending'
  <2>3. SumFunction(Q) = SumFunction(P) + (Q[t] - P[t])
    <3>1. P \in [Targets -> Int] /\ Q \in [Targets -> Int]
      BY <1>8
    <3>2. \A u \in Targets \ {t} : Q[u] = P[u]
      BY <2>1
    <3> HIDE DEF P, Q
    <3> QED
      BY <3>1, <3>2, SumChangesByOne, ReporterAssumption
  <2>4. P[t] \in Int /\ Q[t] \in Int
    BY <1>8
  <2> QED
    BY <1>8, <2>2, <2>3, <2>4
<1>10. SumFunction(Pending)' \in Int
  BY <1>7, PendingStaysNatural DEF RunsCounted, PendingNatural
<1>11. RoundCounted'
  <2>1. work \in Nat /\ round.hits \in Nat /\ round.queries \in Nat
    BY DEF ReporterType, TypeOK, ScrapeRound
  <2> QED
    BY <1>1, <1>5, <1>8, <1>9, <1>10, <2>1 DEF TrafficCounted, RunsCounted, RoundCounted
<1>12. RateOfTraffic'
  <2>1. work \in Nat
    BY DEF ReporterType, TypeOK
  <2> QED
    BY <1>1, <1>5, <2>1, LoggedRatesStand DEF TrafficCounted, RunsCounted
<1> QED
  BY <1>7, <1>11, <1>12 DEF TrafficCounted, RunsCounted

\* An engine that stops or starts takes what was pending with it.
LEMMA RestartLosesPending ==
    ASSUME ReporterType, ReporterType', TrafficCounted, Observe, NEW t \in Targets,
           StopEngine(t) \/ \E cache \in BOOLEAN : StartEngine(t, cache)
    PROVE  TrafficCounted'
<1>1. /\ UNCHANGED <<status, pc, prev, todo, round, lastHit, clock, work>>
      /\ \A u \in Targets \ {t} : engine'[u] = engine[u]
      /\ engine'[t].hits <= engine'[t].queries
      /\ ~engine'[t].up \/ ~engine[t].up
  BY DEF StopEngine, StartEngine, Stopped, processVars, baselineVars, retainedVars,
         ReporterType, TypeOK, TrafficCounted, RunsCounted, RunCounted
<1>2. /\ \A u \in Targets \ {t} : run'[u] = run[u]
      /\ run'[t] = IF engine'[t].up /\ ~engine[t].up THEN run[t] + 1 ELSE run[t]
  BY <1>1 DEF Observe
<1>3. base' = base /\ crossed' = crossed /\ log' = log
  <2>1. \A u \in Targets : ~Advances(u)
    BY <1>1 DEF Advances
  <2> QED
    BY <1>1, <2>1 DEF Observe, Samples, ReporterType, TypeOK
<1>4. \A u \in Targets \ {t} : SameRun(u)' <=> SameRun(u)
  BY <1>1, <1>2, <1>3 DEF SameRun
<1>5. ~SameRun(t)'
  <2>1. base[t].run <= run[t] /\ base[t].run \in Nat /\ run[t] \in Nat
    BY Counters DEF TrafficCounted, RunsCounted, RunCounted
  <2>2. CASE engine'[t].up
    BY <1>1, <1>2, <1>3, <2>1, <2>2 DEF SameRun
  <2> QED
    BY <2>2 DEF SameRun
<1>6. \A u \in Targets : RunCounted(u)'
  <2>1. ASSUME NEW u \in Targets \ {t} PROVE RunCounted(u)'
    BY <1>1, <1>2, <1>3, <1>4 DEF RunCounted, TrafficCounted, RunsCounted
  <2>2. base[t].run <= run[t] /\ base[t].run \in Nat /\ run[t] \in Nat
    BY Counters DEF TrafficCounted, RunsCounted, RunCounted
  <2>3. RunCounted(t)'
    BY <1>1, <1>2, <1>3, <1>5, <2>2 DEF RunCounted
  <2> QED
    BY <2>1, <2>3
<1>7. /\ Pending \in [Targets -> Nat] /\ SumFunction(Pending) \in Nat
      /\ Pending' \in [Targets -> Nat] /\ SumFunction(Pending)' \in Nat
  BY <1>6, PendingIsNatural, PendingStaysNatural
     DEF TrafficCounted, RunsCounted, PendingNatural
<1>8. SumFunction(Pending)' <= SumFunction(Pending)
  <2>1. \A u \in Targets : Pending'[u] <= Pending[u]
    <3> TAKE u \in Targets
    <3>1. CASE u = t
      BY <1>5, <1>7, <3>1 DEF Pending
    <3>2. CASE u # t
      <4>1. Pending'[u] = Pending[u]
        BY <1>1, <1>4, <3>2 DEF Pending
      <4> QED
        BY <1>7, <4>1
    <3> QED
      BY <3>1, <3>2
  <2> DEFINE P == Pending
             Q == Pending'
  <2>2. SumFunction(Q) <= SumFunction(P)
    <3>1. P \in [Targets -> Int] /\ Q \in [Targets -> Int] /\ \A u \in Targets : Q[u] <= P[u]
      BY <1>7, <2>1
    <3> HIDE DEF P, Q
    <3> QED
      BY <3>1, SumIsMonotone, ReporterAssumption
  <2> QED
    BY <2>2
<1>9. RoundCounted'
  <2>1. work \in Nat /\ round.hits \in Nat /\ round.queries \in Nat
    BY DEF ReporterType, TypeOK, ScrapeRound
  <2> QED
    BY <1>1, <1>3, <1>7, <1>8, <2>1 DEF TrafficCounted, RunsCounted, RoundCounted
<1>10. RateOfTraffic'
  <2>1. work \in Nat
    BY DEF ReporterType, TypeOK
  <2> QED
    BY <1>1, <1>3, <2>1, LoggedRatesStand DEF TrafficCounted, RunsCounted
<1> QED
  BY <1>6, <1>9, <1>10 DEF TrafficCounted, RunsCounted

\* A scrape with counters moves what is pending into the round.
LEMMA ScrapeCountsPending ==
    ASSUME ReporterType, ReporterType', TrafficCounted, Observe, NEW t \in Targets,
           ScrapeTarget(t), engine[t].cache
    PROVE  TrafficCounted'
<1>1. /\ UNCHANGED <<engine, pc, clock, work, faults>>
      /\ pc = "scrape" /\ t \in todo /\ engine[t].up /\ todo' = todo \ {t}
      /\ round'.responding = round.responding \cup {t}
      /\ round'.hits = round.hits + CacheDelta(t).hits
      /\ round'.queries = round.queries + CacheDelta(t).queries
      /\ prev' = [prev EXCEPT ![t] = [hits |-> engine[t].hits,
                                      queries |-> engine[t].queries,
                                      tokens |-> TokensOf(t)]]
  BY DEF ScrapeTarget, worldVars
<1>2. {u \in Targets : Advances(u)} = {t}
  BY <1>1 DEF Advances
<1>3. /\ run' = run /\ log' = log
      /\ crossed' = crossed \cup {u \in {t} : Comparable(u) /\ base[u].run # run[u]}
      /\ base'[t].run = run[t]
      /\ \A u \in Targets \ {t} : base'[u] = base[u]
  <2>1. /\ run' = run /\ log' = log
    BY <1>1 DEF Observe, Samples, ReporterType
  <2>2. crossed' = crossed \cup {u \in {t} : Comparable(u) /\ base[u].run # run[u]}
    BY <1>1, <1>2 DEF Observe
  <2>3. Advances(t) /\ \A u \in Targets \ {t} : ~Advances(u)
    BY <1>2
  <2>4. base' = [u \in Targets |-> IF Advances(u) THEN [run |-> run[u], round |-> clock]
                                   ELSE base[u]]
    BY DEF Observe
  <2> QED
    BY <2>1, <2>2, <2>3, <2>4
<1>4. /\ prev'[t].hits = engine[t].hits /\ prev'[t].queries = engine[t].queries
      /\ \A u \in Targets \ {t} : prev'[u] = prev[u]
  BY <1>1 DEF ReporterType, TypeOK
<1>5. \A u \in Targets \ {t} : SameRun(u)' <=> SameRun(u)
  BY <1>1, <1>3, <1>4 DEF SameRun
<1>6. \A u \in Targets : RunCounted(u)'
  <2>1. ASSUME NEW u \in Targets \ {t} PROVE RunCounted(u)'
    BY <1>1, <1>3, <1>4, <1>5 DEF RunCounted, TrafficCounted, RunsCounted
  <2>2. engine[t].hits \in Nat /\ engine[t].queries \in Nat /\ run[t] \in Nat
    BY Counters
  <2>3. RunCounted(t)'
    BY <1>1, <1>3, <1>4, <2>2 DEF RunCounted, TrafficCounted, RunsCounted
  <2> QED
    BY <2>1, <2>3
<1>7. /\ Pending \in [Targets -> Nat] /\ SumFunction(Pending) \in Nat
      /\ Pending' \in [Targets -> Nat] /\ SumFunction(Pending)' \in Nat
  BY <1>6, PendingIsNatural, PendingStaysNatural
     DEF TrafficCounted, RunsCounted, PendingNatural
<1>8. SumFunction(Pending)' = SumFunction(Pending) - Pending[t]
  <2>1. \A u \in Targets \ {t} : Pending'[u] = Pending[u]
    BY <1>1, <1>4, <1>5 DEF Pending
  <2>2. Pending'[t] = 0
    <3>1. engine[t].queries \in Nat
      BY Counters
    <3> QED
      BY <1>1, <1>4, <3>1 DEF Pending
  <2> DEFINE P == Pending
             Q == Pending'
  <2>3. SumFunction(Q) = SumFunction(P) + (Q[t] - P[t])
    <3>1. P \in [Targets -> Int] /\ Q \in [Targets -> Int]
      BY <1>7
    <3>2. \A u \in Targets \ {t} : Q[u] = P[u]
      BY <2>1
    <3> HIDE DEF P, Q
    <3> QED
      BY <3>1, <3>2, SumChangesByOne, ReporterAssumption
  <2> QED
    BY <1>7, <2>2, <2>3
\* Where no run was crossed the delta is what was pending, or nothing.
<1>9. crossed' = {} =>
        /\ CacheDelta(t).hits <= CacheDelta(t).queries
        /\ CacheDelta(t).queries <= Pending[t]
  <2> SUFFICES ASSUME crossed' = {}
               PROVE  /\ CacheDelta(t).hits <= CacheDelta(t).queries
                      /\ CacheDelta(t).queries <= Pending[t]
    OBVIOUS
  <2>1. ~Comparable(t) \/ base[t].run = run[t]
    BY <1>3
  <2>2. CASE ~Comparable(t)
    BY <1>7, <2>2 DEF CacheDelta
  <2>3. CASE Comparable(t)
    <3>1. SameRun(t)
      BY <1>1, <2>1, <2>3 DEF SameRun, Comparable
    <3>2. Pending[t] = engine[t].queries - prev[t].queries
      BY <3>1 DEF Pending
    <3> QED
      BY <1>7, <2>3, <3>1, <3>2 DEF CacheDelta, TrafficCounted, RunsCounted, RunCounted
  <2> QED
    BY <2>2, <2>3
<1>10. RoundCounted'
  <2>1. /\ work \in Nat /\ round.hits \in Nat /\ round.queries \in Nat
        /\ CacheDelta(t).hits \in Nat /\ CacheDelta(t).queries \in Nat
        /\ Pending[t] \in Nat
    BY <1>7, DeltaTypes DEF ReporterType, TypeOK, ScrapeRound
  <2>2. SumFunction(Pending)' <= work'
    BY <1>1, <1>7, <1>8, <2>1 DEF TrafficCounted, RunsCounted, RoundCounted
  <2>3. round'.responding \cap todo' = {}
    BY <1>1 DEF TrafficCounted, RunsCounted, RoundCounted
  <2>4. crossed' = {} => /\ round'.hits <= round'.queries
                         /\ round'.queries + SumFunction(Pending)' <= work'
    BY <1>1, <1>3, <1>7, <1>8, <1>9, <2>1 DEF TrafficCounted, RunsCounted, RoundCounted
  <2> QED
    BY <2>2, <2>3, <2>4 DEF RoundCounted
<1>11. RateOfTraffic'
  <2>1. work \in Nat
    BY DEF ReporterType, TypeOK
  <2> QED
    BY <1>1, <1>3, <2>1, LoggedRatesStand DEF TrafficCounted, RunsCounted
<1> QED
  BY <1>6, <1>10, <1>11 DEF TrafficCounted, RunsCounted

\* A step that scrapes no counters and logs nothing keeps what was counted, or
\* begins to count anew.
LEMMA NothingScraped ==
    ASSUME ReporterType, ReporterType', TrafficCounted, Observe,
           UNCHANGED <<engine, prev>>, log' = log, work <= work',
           \/ /\ round'.responding = round.responding /\ todo' \subseteq todo
              /\ round'.hits = round.hits /\ round'.queries = round.queries
              /\ ~(pc = "read" /\ pc' = "scrape")
           \/ round' = NoRound
    PROVE  TrafficCounted'
<1>1. /\ work \in Nat /\ work' \in Nat
      /\ round.hits \in Nat /\ round.queries \in Nat
  BY DEF ReporterType, TypeOK, ScrapeRound
<1>2. SumFunction(Pending) \in Nat
  BY PendingIsNatural DEF TrafficCounted, PendingNatural
<1>3. \A t \in todo \ todo' : t \notin round'.responding
  BY DEF TrafficCounted, RoundCounted, NoRound
<1>4. /\ Pending' = Pending
      /\ \A t \in Targets : RunCounted(t)'
      /\ ~(pc = "read" /\ pc' = "scrape") => crossed' = crossed
  BY <1>3, BaselinesStand DEF TrafficCounted, RunsCounted
<1>5. RoundCounted'
  <2>1. CASE round' = NoRound
    <3>1. /\ round'.responding = {} /\ round'.hits = 0 /\ round'.queries = 0
      BY <2>1 DEF NoRound
    <3> QED
      BY <1>1, <1>2, <1>4, <3>1 DEF TrafficCounted, RoundCounted
  <2>2. CASE /\ round'.responding = round.responding /\ todo' \subseteq todo
             /\ round'.hits = round.hits /\ round'.queries = round.queries
             /\ ~(pc = "read" /\ pc' = "scrape")
    BY <1>1, <1>2, <1>4, <2>2 DEF TrafficCounted, RoundCounted
  <2> QED
    BY <2>1, <2>2
<1>6. RateOfTraffic'
  BY LoggedRatesStand DEF TrafficCounted
<1> QED
  BY <1>4, <1>5, <1>6 DEF TrafficCounted, RunsCounted

\* A round that ends logs a rate of what it counted.
LEMMA RateIsLogged ==
    ASSUME ReporterType, ReporterType', TrafficCounted, Observe,
           NEW readable \in SUBSET Devices, SampleEnergy(readable)
    PROVE  TrafficCounted'
<1>1. /\ clock \in Times /\ pc = "scrape" /\ pc' = "patch"
      /\ log'[clock].hit = IF lastHit' # lastHit THEN lastHit' ELSE None
      /\ log'[clock].crossed = (crossed # {})
      /\ \A r \in Times \ {clock} : log'[r] = log[r]
      /\ UNCHANGED <<clock, round, work>>
  BY Logged
<1>2. UNCHANGED <<engine, prev, todo>> /\ todo = {}
  BY DEF SampleEnergy, worldVars
<1>3. /\ Pending' = Pending
      /\ \A t \in Targets : RunCounted(t)'
      /\ crossed' = crossed
  BY <1>1, <1>2, BaselinesStand DEF TrafficCounted, RunsCounted
<1>4. RoundCounted'
  BY <1>1, <1>2, <1>3 DEF TrafficCounted, RoundCounted
<1>5. /\ work \in Nat /\ round.hits \in Nat /\ round.queries \in Nat
      /\ SumFunction(Pending) \in Nat
  BY PendingIsNatural DEF ReporterType, TypeOK, ScrapeRound, TrafficCounted, PendingNatural
<1>6. log'[clock].hit # None =>
        /\ log'[clock].hit.value = [hits |-> round.hits, queries |-> round.queries]
        /\ round.queries > 0
  BY <1>1 DEF SampleEnergy, Retain, MeasuredHit
<1>7. RateOfTraffic'
  <2> SUFFICES ASSUME NEW r \in Times, log'[r].hit # None, ~log'[r].crossed
               PROVE  LET rate == log'[r].hit.value
                      IN  /\ 0 <= rate.hits /\ rate.hits <= rate.queries
                          /\ 0 < rate.queries /\ rate.queries <= work'
    BY DEF RateOfTraffic
  <2>1. CASE r = clock
    <3>1. crossed = {}
      BY <1>1, <2>1
    <3>2. round.hits <= round.queries /\ round.queries <= work
      BY <1>5, <3>1 DEF TrafficCounted, RoundCounted
    <3> QED
      BY <1>1, <1>5, <1>6, <2>1, <3>2
  <2>2. CASE r # clock
    BY <1>1, <2>2 DEF TrafficCounted, RateOfTraffic
  <2> QED
    BY <2>1, <2>2
<1> QED
  BY <1>3, <1>4, <1>7 DEF TrafficCounted, RunsCounted

LEMMA TrafficKept ==
    ReporterType /\ TrafficCounted /\ [HNext]_hvars => TrafficCounted'
<1> SUFFICES ASSUME ReporterType, TrafficCounted, [HNext]_hvars PROVE TrafficCounted'
  OBVIOUS
<1>0. ReporterType' /\ work \in Nat
  BY ReporterTypeKept DEF ReporterType, TypeOK
<1>1. CASE UNCHANGED hvars
  <2>1. /\ UNCHANGED <<engine, prev, run, base, round, todo, crossed, log, work>>
    BY <1>1 DEF hvars, history, vars, worldVars, processVars, baselineVars
  <2>2. Pending' = Pending /\ \A t \in Targets : RunCounted(t)' <=> RunCounted(t)
    BY <2>1 DEF Pending, SameRun, RunCounted
  <2> QED
    BY <2>1, <2>2 DEF TrafficCounted, RunsCounted, RoundCounted, RateOfTraffic
<1>2. CASE ReadNodeState /\ Observe
  BY <1>0, <1>2, NothingScraped
     DEF ReadNodeState, Observe, Samples, worldVars, baselineVars
<1>3. ASSUME NEW t \in Targets, ScrapeTarget(t), Observe PROVE TrafficCounted'
  <2>1. CASE engine[t].cache
    BY <1>0, <1>3, <2>1, ScrapeCountsPending
  <2>2. CASE ~engine[t].cache
    <3>1. /\ UNCHANGED <<engine, prev, work, pc>> /\ pc = "scrape"
          /\ todo' \subseteq todo
          /\ round' = [round EXCEPT !.demand = @ \cup {t}]
      BY <1>3, <2>2 DEF ScrapeTarget, worldVars
    <3>2. /\ round'.responding = round.responding
          /\ round'.hits = round.hits /\ round'.queries = round.queries
      BY <3>1 DEF ReporterType, TypeOK, ScrapeRound
    <3>3. log' = log
      BY <1>3, <3>1 DEF Observe, Samples
    <3> QED
      BY <1>0, <1>3, <3>1, <3>2, <3>3, NothingScraped
  <2> QED
    BY <2>1, <2>2
<1>4. ASSUME NEW t \in Targets, MissTarget(t), Observe PROVE TrafficCounted'
  <2>1. /\ UNCHANGED <<engine, prev, work, pc, round>> /\ todo' \subseteq todo
    BY <1>4 DEF MissTarget, worldVars, baselineVars
  <2>2. log' = log
    BY <1>4, <2>1 DEF Observe, Samples
  <2> QED
    BY <1>0, <1>4, <2>1, <2>2, NothingScraped
<1>5. ASSUME NEW readable \in SUBSET Devices, SampleEnergy(readable), Observe
      PROVE  TrafficCounted'
  BY <1>0, <1>5, RateIsLogged
<1>6. CASE (StartReporter \/ RetryRead \/ PatchStatus \/ FailPatch) /\ Observe
  <2>1. /\ UNCHANGED <<engine, prev, work, round, todo>>
        /\ pc # "scrape" /\ pc' # "scrape"
    BY <1>6 DEF StartReporter, RetryRead, PatchStatus, FailPatch, vars, worldVars,
                processVars, baselineVars
  <2>2. log' = log
    BY <1>6, <2>1 DEF Observe, Samples
  <2> QED
    BY <1>0, <1>6, <2>1, <2>2, NothingScraped
\* With its baselines the process forgets what was pending.
<1>7. CASE StopReporter /\ Observe
  <2>1. /\ UNCHANGED <<engine, work>>
        /\ pc # "down" /\ pc' = "down" /\ todo' = {} /\ round' = NoRound
        /\ prev' = [t \in Targets |-> None]
    BY <1>7 DEF StopReporter, worldVars
  <2>2. \A t \in Targets : ~Advances(t)
    BY <2>1 DEF Advances, NoRound
  <2>3. run' = run /\ base' = base /\ log' = log
    BY <1>7, <2>1, <2>2 DEF Observe, Samples, ReporterType
  <2>4. \A t \in Targets : ~SameRun(t)'
    BY <2>1 DEF SameRun
  <2>5. SumFunction(Pending)' = 0
    <3>1. Pending' = [t \in Targets |-> 0]
      BY <2>4 DEF Pending
    <3> QED
      BY <3>1, SumOfZeros, ReporterAssumption
  <2>6. \A t \in Targets : RunCounted(t)'
    BY <2>1, <2>3, <2>4 DEF TrafficCounted, RunsCounted, RunCounted
  <2>7. RoundCounted'
    <3>1. /\ round'.responding = {} /\ round'.hits = 0 /\ round'.queries = 0
      BY <2>1 DEF NoRound
    <3> QED
      BY <1>0, <2>1, <2>5, <3>1 DEF RoundCounted
  <2>8. RateOfTraffic'
    BY <1>0, <2>1, <2>3, LoggedRatesStand DEF TrafficCounted
  <2> QED
    BY <2>6, <2>7, <2>8 DEF TrafficCounted, RunsCounted
<1>8. CASE Node /\ Observe
  <2>1. ASSUME NEW t \in Targets,
               StopEngine(t) \/ \E cache \in BOOLEAN : StartEngine(t, cache)
        PROVE  TrafficCounted'
    BY <1>0, <1>8, <2>1, RestartLosesPending
  <2>2. ASSUME NEW t \in Targets, NEW hit \in {0, 1}, NEW d \in Devices,
               Serve(t, hit, d)
        PROVE  TrafficCounted'
    BY <1>0, <1>8, <2>2, ServedIsPending
  <2>3. ASSUME (\E d \in Devices : Idle(d) \/ ResetEnergy(d)) \/ DeleteNodeState
        PROVE  TrafficCounted'
    <3>1. /\ UNCHANGED <<engine, prev, round, todo, pc>>
          /\ work' \in {work, work + 1}
      BY <2>3 DEF Idle, ResetEnergy, DeleteNodeState, worldVars, processVars, baselineVars
    <3>2. log' = log
      BY <1>8, <3>1 DEF Observe, Samples
    <3> QED
      BY <1>0, <1>8, <3>1, <3>2, NothingScraped
  <2> QED
    BY <1>8, <2>1, <2>2, <2>3 DEF Node
<1> QED
  BY <1>1, <1>2, <1>3, <1>4, <1>5, <1>6, <1>7, <1>8 DEF HNext, Next, Report

LEMMA InitTraffic == HInit => TrafficCounted
<1> SUFFICES ASSUME HInit PROVE TrafficCounted
  OBVIOUS
<1>1. \A t \in Targets : /\ ~SameRun(t) /\ base[t].run = 0 /\ run[t] = 0
                         /\ engine[t].hits = 0 /\ engine[t].queries = 0
  BY DEF HInit, Init, SameRun, Stopped
<1>2. RunsCounted
  BY <1>1 DEF RunsCounted, RunCounted
<1>3. SumFunction(Pending) = 0
  <2>1. Pending = [t \in Targets |-> 0]
    BY <1>1 DEF Pending
  <2> QED
    BY <2>1, SumOfZeros, ReporterAssumption
<1>4. RoundCounted
  BY <1>3 DEF HInit, Init, NoRound, RoundCounted
<1>5. RateOfTraffic
  BY DEF HInit, Unmeasured, RateOfTraffic
<1> QED
  BY <1>2, <1>4, <1>5 DEF TrafficCounted

(***************************************************************************)
(* A logged hit rate is one of queries served: hits among the queries, and *)
(* no more queries than were served (reporter.rs:298-328, 381-386).        *)
(***************************************************************************)
THEOREM RatesOfTraffic == HSpec => []RateOfTraffic
<1>1. HInit => ReporterType /\ TrafficCounted
  BY InitReporterType, InitTraffic
<1>2. (ReporterType /\ TrafficCounted) /\ [HNext]_hvars
        => (ReporterType /\ TrafficCounted)'
  BY ReporterTypeKept, TrafficKept
<1>3. TrafficCounted => RateOfTraffic
  BY DEF TrafficCounted
<1> QED
  BY <1>1, <1>2, <1>3, PTL DEF HSpec
=============================================================================
