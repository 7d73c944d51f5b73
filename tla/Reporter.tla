------------------------------ MODULE Reporter ------------------------------
(***************************************************************************)
(* The reporter of one node (src/src/bin/reporter.rs) with its real source *)
(* between the vLLM engines it scrapes, the GPUs it reads and the NodeState*)
(* it writes.  A round reads the NodeState, scrapes the targets one after  *)
(* the other, samples NVML, and patches the status:                        *)
(*                                                                         *)
(*     down --> read --> scrape ... scrape --> patch --> read              *)
(*                                                                         *)
(* Engines serve, stop and come back with their counters at zero; a scrape *)
(* may time out, a GPU may not answer, a patch may fail, and the reporter  *)
(* itself may stop between any two of its steps.                           *)
(***************************************************************************)
EXTENDS Integers, FiniteSets, Functions

CONSTANTS
    Targets,          \* the /metrics URLs in REPORTER_SCRAPE_TARGETS
    WithTokens,       \* targets that expose generation_tokens_total
    Devices,          \* the GPUs NVML counts on the node
    None,             \* an Option that is None, a key a patch deletes
    MaxRounds,        \* bound on the rounds
    MaxWork,          \* bound on the requests served and the energy drawn
    MaxFaults         \* bound on everything that goes wrong

ASSUME ReporterAssumption ==
    /\ IsFiniteSet(Targets)
    /\ WithTokens \subseteq Targets
    /\ IsFiniteSet(Devices)
    /\ Devices # {}
    /\ None \notin Int
    /\ {MaxRounds, MaxWork, MaxFaults} \subseteq Nat

VARIABLES
    \* Around the reporter.
    engine,       \* target -> whether it is up, whether it exposes the
                  \* prefix-cache series, and the counters of this run
    energy,       \* device -> its total energy counter
    status,       \* the status of the NodeState, or None without a NodeState
    \* The reporter process.
    pc,           \* where its loop is
    nvml,         \* whether NVML was initialised when the process started
    prev,         \* target -> counter baseline
    prevEnergy,   \* energy baseline of the previous complete round
    todo,         \* targets this round has not scraped yet
    round,        \* what the scrapes of this round add up to
    sample,       \* the Signals of this round
    lastHit,      \* retained kvCacheHitRate, with when it was measured
    lastTpj,      \* retained tokensPerJoule, with when it was measured
    \* Time, told apart round by round, and bounds.
    clock, work, faults

worldVars    == <<engine, energy>>
baselineVars == <<prev, prevEnergy>>
retainedVars == <<lastHit, lastTpj>>
processVars  == <<pc, nvml, baselineVars, todo, round, sample, retainedVars>>
vars == <<worldVars, status, processVars, clock, work, faults>>

-----------------------------------------------------------------------------
(***************************************************************************)
(* Values.  A summed gauge is the set of targets it sums, an averaged one  *)
(* the set of devices: the empty set is an absent signal.  A ratio is kept *)
(* as its two terms.                                                       *)
(***************************************************************************)
Times == 0 .. MaxRounds

Rate == [hits : Nat, queries : Nat]

Efficiency == [tokens : Nat, joules : Nat]

Baseline == [hits : Nat, queries : Nat, tokens : Nat \cup {None}]

ScrapeRound == [demand : SUBSET Targets, responding : SUBSET Targets,
                hits : Nat, queries : Nat, tokens : Nat \cup {None}]

Signals == [demand : SUBSET Targets, responding : SUBSET Targets,
            gpu : SUBSET Devices]

\* The retained pair of value and timestamp; both keys of the status come
\* from it in one patch.
RetainedHit == [value : Rate, at : Times] \cup {None}

RetainedTpj == [value : Efficiency, at : Times] \cup {None}

NodeStateStatus == [reported : Times, signals : Signals,
                    hit : RetainedHit, tpj : RetainedTpj]

NoRound == [demand |-> {}, responding |-> {}, hits |-> 0, queries |-> 0,
            tokens |-> None]

NoSignals == [demand |-> {}, responding |-> {}, gpu |-> {}]

EmptyStatus == [reported |-> 0, signals |-> NoSignals, hit |-> None, tpj |-> None]

Stopped == [up |-> FALSE, cache |-> FALSE, hits |-> 0, queries |-> 0, tokens |-> 0]

-----------------------------------------------------------------------------
(***************************************************************************)
(* What one scrape adds to the round (VllmScrape::advance).                *)
(***************************************************************************)
\* Plausible slips, substituted one at a time when the properties are tested.

NoResetCheck(t) ==
    IF prev[t] = None THEN [hits |-> 0, queries |-> 0]
    ELSE [hits |-> engine[t].hits - prev[t].hits,
          queries |-> engine[t].queries - prev[t].queries]

RatesSilence ==
    [value |-> [hits |-> round.hits, queries |-> round.queries], at |-> clock]

KeepsPartialBaseline(readable) ==
    IF nvml /\ readable = Devices THEN SumFunction(energy) ELSE prevEnergy

ForgetsTheReset ==
    /\ pc = "read"
    /\ status # None
    /\ clock < MaxRounds
    /\ pc' = "scrape"
    /\ clock' = clock + 1
    /\ todo' = Targets
    /\ UNCHANGED <<worldVars, status, nvml, baselineVars, round, sample,
                   retainedVars, work, faults>>

StampsThePatch(retained) ==
    IF retained = None THEN None ELSE [retained EXCEPT !.at = clock]

-----------------------------------------------------------------------------
\* Neither series fell below its baseline: no reset of the engine shows.
Comparable(t) ==
    /\ prev[t] # None
    /\ engine[t].hits >= prev[t].hits
    /\ engine[t].queries >= prev[t].queries

CacheDelta(t) ==
    IF Comparable(t)
    THEN [hits |-> engine[t].hits - prev[t].hits,
          queries |-> engine[t].queries - prev[t].queries]
    ELSE [hits |-> 0, queries |-> 0]

\* generation_tokens_total as the body of a scrape shows it.
TokensOf(t) == IF t \in WithTokens THEN engine[t].tokens ELSE None

\* The token series has a delta of its own, or none.
TokensDelta(t) ==
    IF /\ prev[t] # None /\ TokensOf(t) # None
       /\ prev[t].tokens # None /\ TokensOf(t) >= prev[t].tokens
    THEN TokensOf(t) - prev[t].tokens ELSE None

\* get_or_insert(0.0) += v, when there is a v.
AddTo(total, delta) ==
    IF delta = None THEN total ELSE IF total = None THEN delta ELSE total + delta

(***************************************************************************)
(* What NVML yields (NvmlSampler::sample): a sum of the energy counters    *)
(* only if every device was counted and read, and a delta only from two of *)
(* them in a row.                                                          *)
(***************************************************************************)
EnergySum(readable) ==
    IF nvml /\ readable = Devices THEN SumFunction(energy) ELSE None

EnergyDelta(total) ==
    IF total # None /\ prevEnergy # None /\ total >= prevEnergy
    THEN total - prevEnergy ELSE None

\* The baseline of the next round: the sum of this one, if it was complete.
NextEnergyBaseline(readable) == EnergySum(readable)

\* A rate needs queries, an efficiency needs tokens and energy; anything else
\* leaves the retained pair as it was.
MeasuredHit ==
    IF round.queries > 0
    THEN [value |-> [hits |-> round.hits, queries |-> round.queries], at |-> clock]
    ELSE None

MeasuredTpj(joules) ==
    IF joules # None /\ round.tokens # None
    THEN IF joules > 0 /\ round.tokens > 0
         THEN [value |-> [tokens |-> round.tokens, joules |-> joules], at |-> clock]
         ELSE None
    ELSE None

Retain(measured, retained) == IF measured # None THEN measured ELSE retained

\* A retained pair as the patch writes it: with the time of its measurement.
Published(retained) == retained

-----------------------------------------------------------------------------
(***************************************************************************)
(* The reporter.                                                           *)
(***************************************************************************)
\* The process starts with nothing but the NodeState, which it creates unless
\* it is there.  If NVML fails to initialise it stays off for this process.
StartReporter ==
    /\ pc = "down"
    /\ pc' = "read"
    /\ status' = IF status = None THEN EmptyStatus ELSE status
    /\ nvml' \in IF faults < MaxFaults THEN BOOLEAN ELSE {TRUE}
    /\ faults' = IF nvml' THEN faults ELSE faults + 1
    /\ UNCHANGED <<worldVars, baselineVars, todo, round, sample, retainedVars,
                   clock, work>>

\* Without an answer, or without the NodeState, the loop tries again 15 s
\* later, with nothing sampled.
RetryRead == pc = "read" /\ UNCHANGED vars

ReadNodeState ==
    /\ pc = "read"
    /\ status # None
    /\ clock < MaxRounds
    /\ pc' = "scrape"
    /\ clock' = clock + 1
    /\ todo' = Targets
    /\ round' = NoRound
    /\ UNCHANGED <<worldVars, status, nvml, baselineVars, sample, retainedVars,
                   work, faults>>

\* The gauges are read before the prefix-cache series are looked for; a
\* target without those counts for nothing else.
ScrapeTarget(t) ==
    /\ pc = "scrape"
    /\ t \in todo
    /\ engine[t].up
    /\ todo' = todo \ {t}
    /\ IF engine[t].cache
       THEN /\ round' = [demand |-> round.demand \cup {t},
                         responding |-> round.responding \cup {t},
                         hits |-> round.hits + CacheDelta(t).hits,
                         queries |-> round.queries + CacheDelta(t).queries,
                         tokens |-> AddTo(round.tokens, TokensDelta(t))]
            /\ prev' = [prev EXCEPT ![t] = [hits |-> engine[t].hits,
                                            queries |-> engine[t].queries,
                                            tokens |-> TokensOf(t)]]
       ELSE /\ round' = [round EXCEPT !.demand = @ \cup {t}]
            /\ UNCHANGED prev
    /\ UNCHANGED <<worldVars, status, pc, nvml, prevEnergy, sample, retainedVars,
                   clock, work, faults>>

\* No answer within 2 s: the target keeps its baseline.
MissTarget(t) ==
    /\ pc = "scrape"
    /\ t \in todo
    /\ IF engine[t].up
       THEN faults < MaxFaults /\ faults' = faults + 1
       ELSE UNCHANGED faults
    /\ todo' = todo \ {t}
    /\ UNCHANGED <<worldVars, status, pc, nvml, baselineVars, round, sample,
                   retainedVars, clock, work>>

\* NVML is sampled, the round's measurements retained and the patch built.
SampleEnergy(readable) ==
    /\ pc = "scrape"
    /\ todo = {}
    /\ nvml \/ readable = Devices
    /\ IF readable # Devices
       THEN faults < MaxFaults /\ faults' = faults + 1
       ELSE UNCHANGED faults
    /\ prevEnergy' = NextEnergyBaseline(readable)
    /\ sample' = [demand |-> round.demand, responding |-> round.responding,
                  gpu |-> IF nvml THEN readable ELSE {}]
    /\ lastHit' = Retain(MeasuredHit, lastHit)
    /\ lastTpj' = Retain(MeasuredTpj(EnergyDelta(EnergySum(readable))), lastTpj)
    /\ pc' = "patch"
    /\ UNCHANGED <<worldVars, status, nvml, prev, todo, round, clock, work>>

\* One merge patch: every key of the reporter is written or, by a null, deleted.
PatchStatus ==
    /\ pc = "patch"
    /\ status # None
    /\ status' = [reported |-> clock, signals |-> sample,
                  hit |-> Published(lastHit), tpj |-> Published(lastTpj)]
    /\ pc' = "read"
    /\ UNCHANGED <<worldVars, nvml, baselineVars, todo, round, sample,
                   retainedVars, clock, work, faults>>

\* A patch that fails, or finds no NodeState, is logged and not repeated.
FailPatch ==
    /\ pc = "patch"
    /\ IF status = None THEN UNCHANGED faults
       ELSE faults < MaxFaults /\ faults' = faults + 1
    /\ pc' = "read"
    /\ UNCHANGED <<worldVars, status, nvml, baselineVars, todo, round, sample,
                   retainedVars, clock, work>>

\* The process ends wherever it is, and with it everything it remembered.
StopReporter ==
    /\ pc # "down"
    /\ faults < MaxFaults
    /\ faults' = faults + 1
    /\ pc' = "down"
    /\ nvml' = FALSE
    /\ prev' = [t \in Targets |-> None]
    /\ prevEnergy' = None
    /\ todo' = {}
    /\ round' = NoRound
    /\ sample' = NoSignals
    /\ lastHit' = None
    /\ lastTpj' = None
    /\ UNCHANGED <<worldVars, status, clock, work>>

Report ==
    \/ StartReporter
    \/ RetryRead
    \/ ReadNodeState
    \/ \E t \in Targets : ScrapeTarget(t) \/ MissTarget(t)
    \/ \E readable \in SUBSET Devices : SampleEnergy(readable)
    \/ PatchStatus
    \/ FailPatch
    \/ StopReporter

-----------------------------------------------------------------------------
(***************************************************************************)
(* The node.                                                               *)
(***************************************************************************)
\* A request, served from the cache or not, generates tokens on some device.
Serve(t, hit, d) ==
    /\ engine[t].up
    /\ work < MaxWork
    /\ work' = work + 1
    /\ engine' = [engine EXCEPT ![t].queries = @ + 1, ![t].hits = @ + hit,
                                ![t].tokens = @ + 1]
    /\ energy' = [energy EXCEPT ![d] = @ + 1]
    /\ UNCHANGED <<status, processVars, clock, faults>>

\* A device draws power when nothing is served, too.
Idle(d) ==
    /\ work < MaxWork
    /\ work' = work + 1
    /\ energy' = [energy EXCEPT ![d] = @ + 1]
    /\ UNCHANGED <<engine, status, processVars, clock, faults>>

StopEngine(t) ==
    /\ engine[t].up
    /\ faults < MaxFaults
    /\ faults' = faults + 1
    /\ engine' = [engine EXCEPT ![t] = Stopped]
    /\ UNCHANGED <<energy, status, processVars, clock, work>>

\* It comes back with prefix caching or without.
StartEngine(t, cache) ==
    /\ ~engine[t].up
    /\ engine' = [engine EXCEPT ![t].up = TRUE, ![t].cache = cache]
    /\ UNCHANGED <<energy, status, processVars, clock, work, faults>>

\* The driver is reloaded: a counter starts again.
ResetEnergy(d) ==
    /\ faults < MaxFaults
    /\ faults' = faults + 1
    /\ energy' = [energy EXCEPT ![d] = 0]
    /\ UNCHANGED <<engine, status, processVars, clock, work>>

DeleteNodeState ==
    /\ status # None
    /\ faults < MaxFaults
    /\ faults' = faults + 1
    /\ status' = None
    /\ UNCHANGED <<worldVars, processVars, clock, work>>

Node ==
    \/ \E t \in Targets : StopEngine(t) \/ \E cache \in BOOLEAN : StartEngine(t, cache)
    \/ \E t \in Targets, hit \in {0, 1}, d \in Devices : Serve(t, hit, d)
    \/ \E d \in Devices : Idle(d) \/ ResetEnergy(d)
    \/ DeleteNodeState

Init ==
    /\ engine = [t \in Targets |-> [Stopped EXCEPT !.up = TRUE, !.cache = TRUE]]
    /\ energy = [d \in Devices |-> 0]
    /\ status = None
    /\ pc = "down"
    /\ nvml = FALSE
    /\ prev = [t \in Targets |-> None]
    /\ prevEnergy = None
    /\ todo = {}
    /\ round = NoRound
    /\ sample = NoSignals
    /\ lastHit = None
    /\ lastTpj = None
    /\ clock = 0
    /\ work = 0
    /\ faults = 0

Next == Report \/ Node

Spec == Init /\ [][Next]_vars

-----------------------------------------------------------------------------
\* Type invariant: every variable holds what the code's types admit.
TypeOK ==
    /\ engine \in [Targets -> [up : BOOLEAN, cache : BOOLEAN,
                           hits : Nat, queries : Nat, tokens : Nat]]
    /\ energy \in [Devices -> Nat]
    /\ status \in NodeStateStatus \cup {None}
    /\ pc \in {"down", "read", "scrape", "patch"}
    /\ nvml \in BOOLEAN
    /\ prev \in [Targets -> Baseline \cup {None}]
    /\ prevEnergy \in Nat \cup {None}
    /\ todo \in SUBSET Targets
    /\ round \in ScrapeRound
    /\ sample \in Signals
    /\ lastHit \in RetainedHit
    /\ lastTpj \in RetainedTpj
    /\ clock \in Times
    /\ {work, faults} \subseteq Nat
=============================================================================
