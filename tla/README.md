# A TLA+ model of the vLLM cold-start operator

This directory holds a specification of `vllm-coldstart-operator`: what its
controllers do to the objects of a Kubernetes cluster, checked with TLC on small
clusters and, for the core, proved with TLAPS for clusters of any size. Paths
such as `fleet_controller.rs:631` are relative to `src/src/`.

## 1. The system

| Part | Where | State it keeps | What it does |
| --- | --- | --- | --- |
| Fleet controller | `fleet_controller.rs` | none of its own: the children and the last status of the FleetService are its memory | decides on which node each replica of a FleetService runs, creates, re-pins and deletes its VllmServices, writes the status |
| Lifecycle functions | `fleet_types.rs:343-403` | none | wait of a surplus replica, phase of a placement, phase of the fleet |
| Ranking | `fleet_placement.rs` | none | orders candidate nodes under `WarmthFirst` and `EfficiencyAware` |
| Planning | `fleet_planning.rs` | none | fills several slots from one snapshot of the candidates |
| VllmService controller | `main.rs`, `lib.rs` | none of its own | applies Deployment, Service and NetworkPolicy of one VllmService, writes its phase |
| Reporter | `bin/reporter.rs` | counter baselines, retained signals | publishes the signals of one node in the status of a NodeState |
| Reconcile timeout | `reconcile_timeout.rs` | none | fails a reconcile that takes longer than 30 s |
| Kubernetes | outside the repository | Deployments, pods | rolls a changed pod template out, collects objects without an owner |
| Metrics | `metrics.rs` | counters | exposes them, and the phases in the VllmService cache; nothing reads them back |

All parts run concurrently and share nothing but the API server. The fleet
controller reads NodeStates (written by reporters; a preemption notice is set from
outside), Nodes (cordons, labels, allocatable GPUs), VllmServices (pins, and the
phase the VllmService controller writes) and, from a watch cache, the FleetService
itself. It writes VllmServices and the status of the FleetService. A user or an
autoscaler writes `spec.replicas` through the scale subresource. The VllmService
controller is handed a VllmService from its own watch cache, applies what it owns,
and writes the phase from the Deployment its first call returned; the fleet
controller reads that phase one list later. A move of a replica therefore passes
through two controllers, three caches and the rollout of a Deployment.

What makes it hard:

- a reconcile is a sequence of separate API calls, made on reads that get older
  while the cluster changes; nothing locks anything;
- it can end after any call (an API error, the 30 s timeout, a crash) with the
  calls made so far in place, and the next reconcile starts from what is there;
- its memory between reconciles is the status it wrote last, which it reads back
  from a cache that may lag;
- the cap on moves, the wait before a removal and the phase are each spread over
  several reconciles;
- what it ranks on is written by others, and may be missing, malformed, duplicated
  or unreadable for one reconcile;
- all writes go by name, so one may reach a successor of the object it was meant for.

What correct means, per part: the fleet controller moves a replica only off a
displaced node, starts moves only within the cap, removes a replica only after
the wait, reports what exists, and in the end moves, removes and creates what it
should; the ranking is a total order that uses no signal it should not; a batch
spreads; the reporter publishes nothing it did not measure and dates what it
publishes; the VllmService controller reports Ready only what serves.

## 2. Modules

| Module | Models | State | Actions |
| --- | --- | --- | --- |
| `FleetPhases` | `fleet_types.rs:343-403` | - | operators `SurplusHysteresis`, `PlacementPhaseFor`, `FleetPhaseFor` |
| `FleetController` | `fleet_controller.rs` | API server: `fleet`, `child`, `reported`, `notice`, `cordoned`; process: `cached`, `pc`, `snap`, `view`, `current`, `plan`, `todo`; bounds: `faults`, `events` | below |
| `FleetHistory` | an observer of `FleetController` | `lost`, `withdrawn`, `outRuns`, `interrupted` | `Observe`, conjoined to every step |
| `Placement` | `fleet_placement.rs` | - | comparators, `Selected` |
| `FleetPlanning` | `fleet_planning.rs` | `strategy`, `horizon`, `working`, `chosen`, `left` | `Pick`, `Break` |
| `Reporter` | `bin/reporter.rs` with its real source | node: `engine`, `energy`, `status`; process: `pc`, `nvml`, `prev`, `prevEnergy`, `todo`, `round`, `sample`, `lastHit`, `lastTpj`; `clock`; bounds: `work`, `faults` | below |
| `FleetPromise` | what a fleet promises, without reads, cache or status | `child`, `wanted`, `displaced`, `orders` | `Survey`, `CarryOut`, `Drop`, `Hear`, `Displace`, `Lose` |
| `Candidates` | `fleet_controller.rs:90-225`, `350-626`, `fleet_placement.rs:51-177` | what the lists return: `reports`, `nodes`, `services`, `nodesRead`, `servicesRead`, `hasSelector` | `Report`, `ChangeNode`, `ChangeService`, `NodeListTurns`, `ServiceListTurns` |
| `VllmController` | `main.rs`, `lib.rs:180-203`, the phases of `metrics.rs`, and Kubernetes below | API server: `exists`, `uid`, `pin`, `replicas`, `phase`, `object`, `dep`, `pods`; process: `seen`, `step`, `handed`, `applied`; bounds: `aborts`, `incidents` | below |
| `FleetSystem` | `FleetController` and `VllmController` together | both, with `listed` | below |
| `ReporterHistory` | an observer of `Reporter` | `run`, `base`, `energyFrom`, `answered`, `crossed`, `tokensFrom`, `log` | `Observe` |
| `MC*` | - | - | symmetry sets and candidate profiles for TLC |
| `FleetControllerProofs`, `FleetHistoryProofs`, `FleetPlanningProofs`, `CandidatesProofs`, `ReporterProofs`, `VllmControllerProofs`, `FleetSystemProofs` | - | - | the proofs, one module per component (section 5) |
| `SumLemmas` | - | - | lemmas about sums over finite sets, for the last three |

### FleetController

One fleet. A *slot* is the index in the name of a child; `child[i]` is the node its
VllmService is pinned to.

| Action | Code |
| --- | --- |
| `StartUnsupported` | the strategy check, 320-334 |
| `StartPlanning`, `StartWithoutNodes` | every list and every decision, 350-735; the second with a Node list that failed (391) |
| `ApplyChild(i)` | one server-side apply, 742-748 |
| `RemoveChild(i)` | one delete, 404 included, 831-840 |
| `WriteStatus` | the full status, 855-915 |
| `WriteMessage` | the merge patch of either early return, 330-347 and 475-488 |
| `Abandon` | an error returned by `?`, the timeout, a crash; `error_policy`, 918-923 |
| `Sync` | the watch cache catches up |
| `Report` ... `LoseChild`, `Scale`, `ChangeStrategy` | reporters, cluster, user and autoscaler |

Four choices a reader should know:

- *The lists are one step.* No write precedes the last list, and no two lists read
  the same variable, so any event between two of them can be moved before or after
  all of them with the same outcome. The `FleetService` is read separately, from
  the cache (`cached`), and the writes are separate steps.
- *Which of the best nodes wins is left open.* In `FleetController` a pick is any
  least loaded eligible node, because both strategies rank on `own_replicas` first
  (ADR-0018). `Placement` and `FleetPlanning` model the order beneath that.
- *Readiness of the children is drawn freely* when the status is written. It is read
  with the list of children and used nowhere else. `FleetSystem` puts the phase the
  VllmService controller wrote in its place.
- *The watch jumps to the newest version* (`Sync`). A reconcile handed an older
  version is a run in which `Sync` has not happened yet.

`FreshCache` makes a reconcile wait until the cache has caught up. This is not
enforced by the code. `ActiveWithinCap` and `RemovalWaited` of `FleetHistory` hold
with it and not without it (section 6); `StatusMatchesChildren` needs it for
nothing, and neither does any property of `FleetController`. `fleet_async` runs
without it.

### FleetPromise

The same fleet as somebody sees it who knows nothing of its reads: rounds of orders,
drawn up on a survey of the nodes on their way out, at most one order per slot and
`Cap` moves per round, carried out one by one or dropped. `FleetController` is shown
to implement it (`KeepsPromise`) under the mapping

| Promise | FleetController |
| --- | --- |
| `child` | `child` |
| `wanted` | the slots the cached FleetService asks for |
| `displaced` | nodes with a notice or a cordon |
| `orders` | for each slot in `todo`, from `current` to `plan` |

The survey may know of fewer displaced nodes than there are: that is a Node list
that failed. It never knows of one that is not.

### Candidates

What the lists of a reconcile may return, changed one object at a time, and the
functions from there to the candidates that are ranked. A Node has or lacks the
labels of the pool, is cordoned or not, and has GPUs, no such key (`NoKey`: zero), or
nothing readable. An instant may be missing or malformed (`Invalid`).

### VllmController

One name. `step` is the next call of the reconcile.

| Action | Code (`main.rs`) |
| --- | --- |
| `ApplyDeployment` | start and first apply, 520-535; its answer carries `readyReplicas` as reported so far |
| `ApplyService`, `ApplyNetworkPolicy` | 537-544, 546-566 |
| `WriteServiceStatus` | `phase_for` and the status patch, 568-598 |
| `AbandonReconcile` | an error, the timeout (511-518), a crash; `error_policy`, 600-604 |
| `SyncService` | the watch cache catches up |
| `SurgeUp`, `ScaleDown`, `ReportReady`, `PodStarts`, `Collect` | Kubernetes (external) |
| `CreateService`, `DeleteService`, `Retarget`, `ScaleService`, `PodFails`, `DeleteObject` | users and accidents |

A pod template is known by the node it is pinned to; the rest of the manifest never
changes for a fleet's child. The rollout takes down an old pod only as far as
`maxUnavailable` of the Deployment allows, an unready one first. `uid` tells
VllmServices of one name apart: the owner of an object is a `uid`, and a patch by
name reaches whichever exists.

### FleetSystem

A fleet of one replica. The child of `FleetController` is the VllmService of
`VllmController`: `exists` and `pin` are substituted by `child[0]`. Each step is a
step of one controller (`FleetStep`, `ServiceStep`); the fleet reads `phase`, the
VllmService controller writes it. A child that is created has a new `uid` and no
phase, one that is re-pinned keeps its phase.

### Reporter

One node. A round is `ReadNodeState`, one `ScrapeTarget` or `MissTarget` per target,
`SampleEnergy` (NVML, the join, the retention), then `PatchStatus` or `FailPatch`.

| Action | Code (`bin/reporter.rs`) |
| --- | --- |
| `StartReporter` | the source, NVML, `ensure_node_state`, 586-607 |
| `ReadNodeState`, `RetryRead` | the read that opens a round, answered or not, 610-620 |
| `ScrapeTarget(t)`, `MissTarget(t)` | one pass of the loop of `VllmScrape::sample`, 338-380, with `advance`, 304-328 |
| `SampleEnergy(readable)` | `NvmlSampler::sample`, 479-523, the join, 224-252, retention, 626-636 |
| `PatchStatus`, `FailPatch` | the merge patch, 638-657 |
| `StopReporter` | the process ends anywhere |
| `Serve`, `Idle`, `StopEngine`, `StartEngine`, `ResetEnergy`, `DeleteNodeState` | engines, GPUs and users |

Counters are the real ones of small engines (a request is one query, at most one hit,
one token, one unit of energy); a ratio is kept as its two terms, since the
properties ask where they come from; a summed gauge is the set of targets summed.
`clock` counts rounds: rounds are at least a second apart, and the two instants one
round writes are not told apart. A node whose NVML failed to initialise has
`nvml = FALSE`, which is also the build without `gpu-nvidia`.

## 3. Runs

| Run | Question | Bounds |
| --- | --- | --- |
| `fleet_async` | Are the pins, the cap and the reported holds right with a cache that lags, one abandoned reconcile or failed Node list, and events between any two writes? Is every step one of `FleetPromise`? | 2 nodes, 1 or 2 replicas, cap 1, wait 2, 2 events, 1 fault |
| `fleet_fresh` | Does the status account for the children, also after an abandoned reconcile? Do moves in flight stay within the cap, and does a removal wait, through any three events? | 3 nodes in a selected pool, 0 to 2 replicas, cap 1, wait 2, 3 events, 1 fault |
| `fleet_live` | Do displaced replicas move, surplus ones go, missing ones come, and do the pins then rest, also when one reconcile is abandoned after any write or loses its Node list? | 3 nodes, 1 or 2 replicas, 2 events, 1 fault, no symmetry |
| `planning` | Is the ranking total, does a batch spread, is each pick the one the ADRs describe, and do stale signals not matter? | lists of up to 3 of 11 candidate profiles, up to 3 picks, each strategy, horizon none or 1 |
| `reporter` | Is what the status says was measured then, does demand not outlive its round, is no rate and no energy made up, across restarts and failures? | 2 engines, one without the token series, 2 GPUs, 3 rounds, 2 units of work, 2 faults |
| `candidates` | What may a failed list, a duplicate NodeState, a malformed instant or a child's own phase change in what is ranked, and in which node is best? | 2 nodes, one with two NodeStates, 4 statuses, 3 Node objects, 2 own children, 1 VllmService of another fleet: every combination |
| `vllm` | Do the owned objects and the phase follow the spec, are ready pods kept, is a deleted VllmService gone? | 2 templates, 1 or 2 replicas, created twice, 3 incidents, 1 abandoned reconcile, a cache that lags |
| `system` | Does the pod that serves survive a move, is a Ready placement backed by a pod, does every reclaim end well? | 1 replica, 2 nodes, 1 event, 1 fault of either controller; the VllmService cache lags |

Why these are enough to meet the interesting cases. Two nodes and two slots make
two replicas compete for a cap of one, one being moved while the other is held;
three nodes let a reclaim of two leave a survivor. A wait of two reconciles is the
smallest that can be interrupted. Three events are enough for a scale-down
interrupted by a scale-up and repeated, and for a second reclaim during the
recovery from a first. One fault after any write reaches every partial outcome of
one reconcile. Three rounds are a baseline, a round that goes wrong and the round that
measures after it, and two faults combine, say, a failed patch with a restart. In
`candidates` the state space is the set of all inputs, so every pair of inputs that
differ in one object is compared. Three incidents are a creation and two more: move
and move back in the middle of a rollout, delete and re-create during a reconcile,
scale and delete an object. For
each property a wrong variant of one definition (the operators
above the rule in each module, such as `CapIgnoresInFlight`) is known to break it
within these bounds. Deadlock is checked except in `planning`, which ends, and in
`vllm`, where nothing is left to do after a deletion.

Four more runs end in a counterexample: what a comment or an ADR says of the code
and the code does not do.

| Run | Said | What the code does |
| --- | --- | --- |
| `colocation` | "A fleet shares a node only when no other eligible node is left" (ADR-0018) | all moves of one reconcile are ranked on the same counts and go to one node (686) |
| `stranded` | the status "must say so rather than hide it" (`fleet_types.rs:390-392`) | with no candidate left the reconcile returns before it looks at the holds (453) |
| `phase_ready` | "`Ready` requires every desired replica to report Ready" (`fleet_types.rs:392`) | a surplus replica that is Ready counts too (876) |
| `joined_rounds` | "cross-source join on the same round" (`bin/reporter.rs:229`) | a target that missed a round keeps its token baseline while the energy baseline moves on (343) |

## 4. Fairness

`FairSpec` assumes weak fairness of `Reconcile` (as one action) and of `Sync`.
Every reconcile ends in a requeue (`Action::requeue(REQUEUE)`, 30 s, or 10 s from
`error_policy`), so another one starts; every call is answered or cut off by the
timeout, so it goes on; the watch stream is restarted by the runtime when it
breaks. Nothing is assumed of users, reporters or the cluster: events may stop or
not, up to `MaxEvents`. The liveness properties are of the form "not for ever from
some point on", so they say nothing about a cluster that keeps changing.
`fleet_live` has a fresh cache, to afford three nodes, two events and a fault that
leaves its half of the writes behind. `Abandon` is bounded by `MaxFaults`: a
reconcile abandoned every time makes no progress.

`FairServiceSpec` assumes the same of the VllmService controller (a requeue after 5 s
or 300 s, or 15 s from `error_policy`, `main.rs:596-603`) and weak fairness of the
Deployment controller and of the garbage collector. It does not assume that a pod
ever becomes ready: the properties of `vllm` hold of a model that never loads.

`SystemSpec` combines both and adds that a pod on a node that is not displaced
becomes ready (`KubernetesWorks`), without which no placement ever is. Pods on
displaced nodes may or may not.

## 5. Proofs

Every invariant and every action property the passing runs check is proved, for all
values of the constants that meet their assumptions. What the runs alone show is
listed at the end of this section.

| Module | Theorem | States |
| --- | --- | --- |
| `FleetControllerProofs` | `TypeCorrect` | `Spec => []TypeOK` |
| | `PlanInvariant` | `Spec => []PlanInv`, the inductive invariant |
| | `MovesStayWithinCap` | `Spec => []MovesWithinCap` |
| | `PinsEscape` | `Spec => PinsChangeOnlyToEscape` |
| | `HoldsAreReported` | `Spec => HoldIsDegraded` |
| | `FleetKeepsPromise` | `Spec => KeepsPromise`: `FleetController` implements `FleetPromise` |
| `FleetHistoryProofs` | `StatusAccounts` | `HSpec => []StatusMatchesChildren` |
| | `ActiveBounded` | `FreshCache = TRUE => (HSpec => []ActiveWithinCap)` |
| | `SurplusWaitedOut` | `FreshCache = TRUE => (HSpec => RemovalWaited)` |
| `FleetPlanningProofs` | `RankingSelectsOne` | `Spec => []OneSelected` |
| | `BatchIsSpread` | `Spec => []Balanced` |
| | `StaleSignalsSwayNothing` | `Spec => []StaleChangesNothing` |
| | `PicksTheWinner` | `Spec => PickIsTierWinner` |
| `CandidatesProofs` | `OwnPhaseIsIgnored` | `Spec => OwnPhaseMovesNothing` |
| | `FailedListIsSafe` | `Spec => UnreadNodesAreSafe` |
| | `LaterNodeStateOnlyDisplaces` | `Spec => SecondNodeStateOnlyDisplaces` |
| | `UndatedSignalsSwayNothing` | `Spec => UndatedSwaysNothing` |
| | `WarmthIsOnlyRaised` | `Spec => []ReportedWarmthHolds` |
| `ReporterProofs` | `TypeCorrect` | `Spec => []TypeOK` |
| | `MeasurementsPublished` | `HSpec => []PublishedAsMeasured` |
| | `DemandOfItsRound` | `HSpec => []DemandIsCurrent` |
| | `EnergySinceLastRound` | `HSpec => []EnergyOfOneRound` |
| | `RatesOfTraffic` | `HSpec => []RateOfTraffic` |
| `VllmControllerProofs` | `ServiceTypeCorrect` | `ServiceSpec => []ServiceTypeOK` |
| | `CapacityKeeps` | `ServiceSpec => KeepsCapacity` |
| `FleetSystemProofs` | `ReadyIsBacked` | `SystemSpec => []ReadyIsServed` |
| | `MovesKeepServing` | `SystemSpec => MoveKeepsServing` |

The assumptions are those on the constants (`ConstantsAssumption`,
`PlacementAssumption`, `PlanningAssumption`, `CandidatesAssumption`,
`ReporterAssumption`, `VllmAssumption`, `OneReplica`), which TLC evaluates in every
run of the modules that state them: sets of nodes, engines and GPUs are finite,
bounds are natural numbers, values that stand for "none" are not values. Caps and
waits may be negative, as the CRD lets them be. No theorem about the fleet
needs a fresh cache but the two that say so, and no theorem uses fairness.

### The fleet controller

`MovesStayWithinCap`, `PinsEscape` and `HoldsAreReported` do not follow from the
step that could break them: an apply is justified by reads made several steps
earlier, with other applies, events and deletions in between. `PlanInv` carries what
the reads established up to the write that uses it: a planned pin is the one that was
listed or leads from a displaced node to an eligible one (`PinJustified`), and a
child not yet written is as it was listed, or gone (`ChildAsListed`) - true because
the fleet controller handles one reconcile of a fleet at a time and nobody else
re-pins its children. `DecideMoves` shows that every outcome of the planning step
satisfies this, `PlanKept` that no step but the ones that start or end a reconcile
disturbs it. The cap follows because the moves are a subset of a set no larger than
the budget (finite cardinalities); the phase because a slot can be `Draining` on a
displaced node in the new status only if it was kept there (`HeldSlots`).

The refinement needs no further invariant. `Init` maps to an empty set of orders. The
start of a reconcile is a `Survey`: its orders are sound because of `DecideMoves` and
because what it saw of the displaced nodes is a subset of them. An apply or a delete
carries out the order of its slot, and `ChildAsListed` says that the child is where
the order expects it, or lost. A reconcile that is abandoned drops its orders; the
status writes, with no orders left, are stutters. `Sync` changes only what the fleet
hears. The events displace, lose, or stutter.

`SurplusBounded`, about `surplus_hysteresis` at the limits of i32, is proved in the
same module.

### Across reconciles

The properties of `FleetHistory` relate one status to the next, so their invariants
have to say how far a reconcile has come on its way between the two.

- `AccountInv`: while a reconcile acts, a slot with nothing left to do has the node
  the new status will report (`WrittenAsPlanned`, `NewNode`). `StatusWritten` shows
  that the status reports exactly that, so the accounts agree once it is written.
  Someone else's deletions (`lost`) and an abandoned reconcile (`interrupted`) are
  the only exceptions, and both end with the next reconcile that completes.
- `CapInv`: at the decision to move, the placements of the status that count as in
  flight bound the moves still to be reported (`PlannedOnNewest`). It takes that the
  status handed to the reconcile is the newest, that it agrees with the children
  listed (`AccountInv`), and that a node found displaced still is when the status is
  written. These are the hypotheses of the theorem: `FreshCache`, and `withdrawn`
  being false. With `FreshCache = FALSE` TLC finds the property violated in the
  instance of `fleet_fresh`, and `RemovalWaited` too.
- `WaitInv`: the count the status holds claims no more than was observed
  (`Waited`). With a copy of the status that lags, or after a removal whose status
  was never written, it may claim more.

### The ranking and the batch

Both comparators are lexicographic: `CmpIsLexicographic` writes them as a sequence of
tiers, each a comparison of two numbers or of two numbers either of which may be
missing. `LexChained` lifts transitivity from the tiers to the sequence, and
`LexOpposite` antisymmetry, so the ranking is a total preorder (`RankingIsPreorder`)
for every value of the signals, missing and not finite ones included. That the last
maximum exists and is unique (`AtLeastOne`, `AtMostOne`) follows from the
well-foundedness of the natural numbers. `Balanced` is inductive with the type of the
planner: what is selected has the fewest replicas, the first tier of both strategies
(`SelectedHasFewest`).

`PicksTheWinner` compares two different algorithms: the code compares pairs and keeps
the last maximum, the ADRs describe tiers that each discard the candidates that are
not best (`Winners`). `Lead` is the set of candidates not beaten under the first
tiers; `TierNarrows` shows that one more tier turns one such set into the next in the
way the reference does, `HighestPreferred` that it does so also where a signal is
missing, and `LeadIsBest` that the last set holds the maxima of the whole ranking.

### The candidates

There is no invariant to strengthen: what the lists return is arbitrary but for its
type (`ReportsType`). The work is in how a change of the lists reaches the ranking. A
node of several NodeStates borrows from the first namespace; that there is one, and
that it stays the same, comes from the natural numbers being well-founded
(`FirstNamespace`, `LenderKept`, `LaterNodeState`). Statuses that differ in undated
signals yield candidates the comparators cannot tell apart (`UndatedRanksAs`,
`ComparesAlike`), although the candidates are not equal.

### The reporter

The observer logs what each round measured. Four invariants, each with the types:

- `MeasurementsLogged`: what is retained or published is in the log under the instant
  it is dated with, and no round still being scraped is anybody's date, so that
  logging a round disturbs no earlier one (`Dated`).
- `DemandLogged`: the demand travels from the scrape to the sample to the status,
  within one round.
- `EnergyDated`: the energy baseline is of the previous round or of this one,
  depending on where in the round the reporter is.
- `TrafficCounted`: queries served since a target's baseline, in the run of the
  engine the baseline was taken in, are *pending* until a round counts them; what
  the round has counted and what is pending never exceeds what was served
  (`RoundCounted`). A scrape turns pending queries into counted ones
  (`ScrapeCountsPending`), a restart of the reporter or an engine loses pending ones.
  The sum over the targets is what makes this an argument about any number of them.

### Pods and the two controllers

`CapacityKeeps` is about the rollout: a pod that was ready and is taken down is
spared by `maxUnavailable`, so what remains is at least what the Deployment must keep
(`ScaleDownSpares`); the pods are a sum over the templates.

`ReadyIsBacked` follows the readiness of a pod on its way up: `readyReplicas` of the
Deployment, the answer to an apply, the phase, the list of children, the status of
the fleet. Each of them is old when it is used. `Told` says that somebody on this way
heard of a ready pod, `Backed` that there then still is one. It is inductive with
`Blank`, which says that before the first child nobody can have been told anything,
and `Descent`, which says that whatever the caches, the reconcile and the Deployment
hold comes from a child that existed and wanted one pod: without that a late apply
might scale a Deployment to none. `MovesKeepServing` is a consequence of the same
invariant and of the rollout keeping the last ready pod (`PodsServe`). Both are proved
with any number of faults of either controller; a pod that fails by itself
(`failures`) is outside what the two properties promise.

### Sums

The installed provers cannot use an induction theorem stated for every predicate.
`SumLemmas` states induction with a set in place of the predicate
(`InductionOverNat`, `InductionOverPicks`), which they can, and derives that the sum
of the community modules satisfies its recursion (`SumRecursion`, `PartialSums`); that
sums are natural, monotone and move by what one summand moves is
proved from there.

### Only model-checked

The liveness properties `DisplacedMove`, `SurplusRemoved`, `MissingCreated`,
`PinsSettle`, `PhaseConverges`, `ChildrenFollowSpec`, `NothingOrphaned` and
`ServedInTheEnd`: they rest on fairness, whose `ENABLED` the prover does not reason
about. The four counterexamples are TLC's by nature.

## 6. Limits

- One fleet. Fleets share only NodeStates and Nodes, which they do not write, and
  the warmth derived from each other's children, which affects ties.
- `ActiveWithinCap` and `RemovalWaited` say nothing once a reconcile was abandoned,
  and need a fresh cache. An abandoned reconcile leaves moves no status records, so
  more than the cap may be in flight after its retry; a reconcile that reads the
  status of before the last write may remove a surplus replica on an old counter.
  `ActiveWithinCap` also excludes runs in which a node held for displacement
  returns: its held placement then counts as a move. `StatusMatchesChildren` holds
  whatever the cache shows; it is silent between an abandoned reconcile and the next
  one that completes, when the children are ahead of the status.
- Convergence is not checked with a fleet cache that lags: the states that needs
  exceed what TLC explores in minutes beside three nodes and a fault. Safety is
  (`fleet_async`), and the proofs do not assume a fresh cache.
- The deletion of a Node object, children without a node or with a name that does
  not parse, and a NodeState deleted between two lists of one reconcile are left out.
- `FleetSystem` has one replica, whose child is created at most twice and whose pods
  do not fail on their own; several replicas meet only in `FleetController`. Its fleet
  controller reads a fresh cache; the VllmService cache lags.
- A pod that is taken down is gone at once: the 120 s of termination grace and the
  110 s of the pre-stop sleep (`main.rs:84-93`) are about requests in flight.
- A pod template is known by its pin. Changes of the image or the arguments roll out
  in the same way and are not told apart.
- The inputs recorded with a placement (`decidedOn`) influence nothing and are not
  modelled. Two notes on them: a placement that moves keeps the inputs of
  the node it left (`fleet_controller.rs:756-768`), while `fleet_types.rs:304-305`
  speaks of "the node attributes the planner ranked on when it chose this node"; and
  `decision_inputs` (110-133) applies the horizon but not the domain filters of the
  comparator, so a value that is not finite is recorded though it was not ranked on.
- A move counts in `activeReschedules` for two reconciles, as Draining and as
  Rescheduling, and is Pending after that until its child is Ready
  (`fleet_types.rs:369-387`); ADR-0005 speaks of a count that goes "down as they
  complete". `ActiveWithinCap` is about the count as the code defines it.
- `comparison_key` (`fleet_placement.rs:250-271`), used by tests, leaves out
  `own_replicas`, which both strategies rank on first.
- Signals in `Placement` are integers; the total order of floats, signed zeros
  included, is not modelled beyond finite and not finite.
- `Reporter` has no synthetic source, no environment or Prometheus parsing, and one
  bit of readability for the three reads of a GPU. A reset that the sum of the energy
  counters outgrows between two rounds goes unnoticed, in the code and in the model.
- Two limits of the reporter show in the model and are not stated as properties. An
  engine that restarts and outgrows its baseline between two scrapes yields a delta
  across two runs, and a hit rate that may exceed 1 (`RateOfTraffic` excludes these
  rounds). A restarted reporter has nothing retained, so its first patch deletes the
  efficiency signals its predecessor published.
- Time: the 30 s of the timeout and the requeue delays are not measured.

### Not modelled

The contents of manifests beyond owner, replicas, pin and rollout strategy, the chart,
CRD generation, the counters and histogram of the metrics, the HTTP server and
everything under `hack/`: no state of their own, nothing that reads them back, or not
part of the running system.

## 7. Plan

Done: the core (`FleetController` with its history, ranking and planning),
`Reporter`, `Candidates`, `VllmController`, their composition `FleetSystem`, the
abstract `FleetPromise` with its refinement, and the proofs of every safety property.
To come, in this order:

1. An abstract specification of what a VllmService promises of its pods, and the
   proof that `VllmController` implements it, as `FleetPromise` does for a fleet.
2. The safety half of convergence: which states of `FleetController` are at rest, and
   that a reconcile of a fleet at rest writes no pin. What is left of the liveness
   properties would then be the fairness alone.
3. That the planner of `FleetPlanning` is one of the pickers `FleetController`
   allows, for every strategy: today the argument is the comment in section 2 and
   `SelectedHasFewest`.
