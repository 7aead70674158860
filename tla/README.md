# TLA+ verification of the SOC detection and response plane

This directory models the parts of CompanyXYZ-NG that decide and act: telemetry to
feature vectors, vectors to anomaly events, anomalies to a signed command, the command to
a containment on a firewall or an endpoint and to its verified removal (`soc/workers/`,
`response/`, `docker/enforcer`, `docker/wazuh/active-response`), and what the loop rests
on: the life of a model (`ai/`), compliance evidence (`compliance/`) and the staged lab
run (`scripts/try_linux.py`).  It states what these parts must never do whatever crashes,
timeouts and interleavings happen, checks it with TLC on small instances, and proves the
central results about the orchestrator with TLAPS for every instance.

## 1. The system

### Components, their state and their operations

| Component | Source | State | Operations |
|---|---|---|---|
| Response orchestrator | `response/orchestrator/engine.py` | RAM records per response, adapter reference, pending operation, `_storage_failed` | `submit`, `apply`, `verify`, `rollback`, `expire_due`, `recover_pending`, `restore_recovery`, construction from a store |
| Response store | `response/orchestrator/store.py` | SQLite tables `records`, `audit`, `apply_intents`, `admissions`, `exported` | `checkpoint` (one transaction), `load`, `requested_since`, `unexported_events`, `mark_exported`, `claim` |
| Audit ledger | `response/orchestrator/audit.py` | the sequence of events of each response | `validate_transition`, event building |
| Response service | `response/service/runner.py`, `__main__.py`, `api.py` | `started`, mode, counters | `start`, `accept`, `tick`, audit export |
| Firewall adapter and ownership ledger | `response/adapters/blocklist.py`, `response/transports/ownership.py` | per peer: owners of an address, pre-existing marks | `apply`, `verify`, `revert` over all peers |
| Firewall transports and enforcer | `response/transports/{nftables,vyos,opnsense,http}.py`, `docker/enforcer/nft_enforcer.py` | the fixed set on a firewall | `contains`, `add`, `remove` |
| Wazuh isolation | `response/adapters/wazuh.py`, `response/transports/wazuh_api.py`, `docker/wazuh/active-response/` | isolation table and marker files of an endpoint | isolate, restore, marker read-back |
| Decision engine and policy | `response/decision.py`, `policy.py`, `signing.py` | none (pure) | `evaluate`, signing, policy loading, target protection |
| Decision runner | `response/service/decision_runner.py` | durable cursor, outcome per anomaly | `handle`, `run_once` |
| Inference delivery | `soc/workers/outbox.py`, `enrichment.py` | jobs `pending/scored/sent/deadletter`, feature cursor | `pull_features`, import, `drain`, `requeue` |
| Feature worker | `soc/workers/features.py` | outcome per window | `run_once`, `process_window` |
| Worker credentials | `soc/workers/common.py` | token and stamp of its file | `_reload` before every request |
| Features, models, evaluation | `ai/features`, `ai/models`, `ai/evaluation` | none (pure) | vectors, histories, scores, thresholds, benchmark |
| Datasets, training, registry, serving | `ai/training`, `ai/api` | dataset and model directories, the provider's model | build, train, compare, promote, retire, load, infer |
| Audit ledgers | `response/orchestrator/audit.py`, `sqlite_audit.py` | commands, intents, events | save, claim, append, `recovery_queue` |
| Compliance engine | `compliance/`, `tests/validation/conftest.py` | evidence files | wiring, provenance, artifacts, report |
| Lab runner | `scripts/try_linux.py` | results of the stages | select, run or hold back a stage, summarize |
| Infrastructure | `scripts/`, `clab/`, `ansible/`, `terraform/`, `k8s/` | declarative configuration | rendering and static checks |

### How they interact

Telemetry in Elasticsearch is turned into five-minute feature vectors (feature worker),
scored through the outbox (enrichment worker), and read as anomalies by the decision
runner, which asks the pure decision engine for a verdict and posts a signed command to
the response service.  The service holds one lock around the orchestrator: HTTP threads
call `accept`, a scheduler thread calls `tick` every ten seconds.  The orchestrator
commits every transition to its SQLite store before anything that depends on it, and
calls one adapter synchronously; an adapter drives two or more firewall peers, each
behind its own ownership ledger, or one Wazuh agent.  Committed audit events are
exported to Elasticsearch from the store.

### What is hard here

* A crash can fall between any two of: the audit commit, the intent commit, the adapter's
  side effect, the outcome commit; a commit can raise and yet have taken effect.
* Adapter calls time out with an unknown outcome; compensation can fail in turn.
* The policy catalog, the signing keys and the wall clock can differ at the next start.
* One lock serialises everything, so one stuck or raising operation delays all others.
* Other parties change the firewalls: analysts, device timeouts, other responses.
* Delivery between workers is at least once over cursors that only move forward.

### What makes each part correct

* Orchestrator and store: whatever is in force is recorded as such in the store at every
  instant; one containment per target; one `apply` per response; the ledger never has to
  refuse a transition; every engaged response ends; the rate limit holds.
* Service: nothing is accepted or applied before uncertain operations were compensated;
  a pass that raises does not stop the others for good; the exported audit is the
  committed one.
* Blocklist adapter: what the plane places has a durable owner; a reported revert has
  lifted it; entries of others stay.
* Endpoint isolation: a reported isolation or restoration is one that happened.
* Decision runner, outbox, feature worker: every anomaly, vector and window is handled
  although deliveries are repeated and cursors only move forward; what is reported
  delivered is in the index; a retry is the same document and the same command.
* Model registry: what serves was evaluated, met the policy and was promoted, whatever is
  killed or damaged on the way; it answers as the benchmark says it does.
* Datasets: nothing leaks between partitions or from an attack into training; files of two
  builds do not mix.
* Compliance: a passing strict report is about this source, and every control was proven by
  its own test.

## 2. The modules

```
ResponseLifecycle   the abstract promise: audited states, claims, contained targets
        ^ refined by (ImplementsLifecycle, proved: Refinement)
Orchestrator        the engine on its store                                       *
        ^ INSTANCE ... WITH clock <- now
ResponseService     start-up, intake, scheduler pass and audit export around it   *
Blocklist           firewall adapter, ownership ledgers, the sets of the peers    *
EndpointIsolation   Wazuh adapter, manager, agent script, marker reports          *

Paging              the first rows of an ordered query, used by the next three
FeatureWorker       windows to vectors, the ledger of windows                     *
Enrichment          the outbox, pull and drain, the anomaly events                *
Policy <- Decision <- DecisionRunner    the verdict, then cursor, events, commands *
DetectionPipeline   INSTANCEs Enrichment and DecisionRunner on one index

ModelRegistry       training, comparison, promotion, retirement, loading by file  *

Features <- Evaluation <- Dataset       pure: vectors, scores and thresholds, datasets
Compliance, AuditLedger, Credential, FirewallSets, TryLinux
        ^ all of these, and Decision, extended by
Algorithms          chooses an input of one of them and states what holds of the result   *
MC*                 constants for TLC

*  the theorems about module M are in MProofs, which extends it; that of the service
   INSTANCEs OrchestratorProofs to use the engine's invariant, and those about the
   registry are the first part of AlgorithmsProofs
```

`Blocklist` and `EndpointIsolation` are two implementations of the adapter calls that
`Orchestrator` takes as single steps (`AdapterApply`, `AdapterRevert`).  What
`Orchestrator` assumes of a revert that reports success, that the containment is lifted,
is `ContainmentLifted` in `Blocklist`.  In `EndpointIsolation` it holds only where the
isolation had been verified before (`VerifiedIsolationLifted`, section 5), and the
orchestrator's results about targets apply to endpoints to that extent.  What `Blocklist`
assumes of a firewall, a set with repeatable operations, is `BackendsAreSets` in
`Algorithms`.

### Orchestrator

| Variable | Code |
|---|---|
| `ram` | `ResponseOrchestrator._records` |
| `disk`, `audit`, `intents`, `admitted` | the tables `records`, `audit`, `apply_intents`, `admissions` |
| `health` | process up, `_storage_failed`, or no process |
| `call` | the operation in progress: where it stands between commits and adapter calls, and the rest of a sweep |
| `catalog` | the policy catalog the process was started with |
| `effect`, `applies` | the target, as the adapter has changed it |

Each public method is one or more actions that meet at its commits and adapter calls:
`Submit`/`Admit`/`Denied`, `BeginApply`/`AdapterApply`/`FinishApply`, `ApplyDenied`,
`Verify`, `Rollback`, `ExpireDue`, `RecoverPending` with `ContinueBatch`,
`AdapterRevert`/`FinishRevert`, `Restart`.  A commit either takes effect, or raises
(`StorageFault`) with or without having taken effect; a crash may fall between any two
steps.  A command is reduced to its identity, target and policy; times are naturals; the
audit is a sequence of states.

### ResponseService

The engine's steps are those of `Orchestrator` with `clock` replaced by `now`, the time
the service last read; `wall` is the real one.  `stage` is the scheduler thread's place in
`start` or `tick`, `lock` the service lock, `queue` what a stage still has to handle.  The
export runs outside the lock, one creation and one mark per event.  Enforce mode only; the
export's limit of 200 events is above the number of events in the model.

### Blocklist

`entry` is the address in the set of each peer and who placed it, `mode` and `foreign` the
two tables of each peer's ledger, `job` the adapter call in progress with its position.
Every peer call and every ledger commit is a step.  Calls of two operations may follow in
any order; `overlap` notes whether they ever departed from what the orchestrator guarantees
(target exclusion and single application).  `seen`, `lost`, `wronged` and `completed` are
history variables for the properties.

### EndpointIsolation

`inbox` holds the requests the manager accepted and the agent has not run, `wire` those the
client gave up and that still arrive, `script` the running script between its ruleset and
its marker step, `reported` the FIM inventory.  The agent runs requests in their order.

### FeatureWorker, Enrichment, DecisionRunner

Each is one worker at a time (the code holds a file lock) whose step ends at every request
and at every commit, since a crash, a failure or a lost answer there tells outcomes apart;
a faulty request may have taken effect.

* `FeatureWorker`: `ledger` is the table of windows, `vectors` the index, `queue`, `built`
  and `unsent` a pass in progress.  The events of an entity in a window only grow, so their
  number stands for the event set whose hash is in a vector's id.
* `Enrichment`: `jobs` is the outbox, `cursor` its feature cursor, `indexed` the daily
  indices, `batch` and `stage` the drain in progress, `serving` the model of the inference
  service and `configured` the one the worker was told of.  `pull` is the pull in progress
  with the rest of the page in hand: a page is the answer to one search and is iterated as
  it was found, whatever is indexed meanwhile.  Two history variables note what a pull
  cannot see: `missed` the vectors indexed behind a search of the current scan, `late`
  those that the stored cursor had passed, or passed at the end of such a scan.
* `DecisionRunner`: `position` and `outcomes` are its two tables, `hits` the pass in
  progress, `telemetry` what the detectors have reported, `decisions` and `commands` what
  was created and accepted.  The verdict is `Decision!Evaluate` on signals that are
  collected from `telemetry` as the code does.  `overtaken` notes anomalies that were
  indexed behind the cursor.
* `DetectionPipeline` lets the second read what the third creates.

### ModelRegistry

A directory is its files, a digest is what it is the digest of, and each command is a
process that writes one file at a time in the code's order and may be killed between two.
`results` are the digests printed to the operator, any of which may be deployed;
`promoted` are those of completed promotions.

### Algorithms and the modules it extends

The pure parts are operators under the code's names; where a computation can raise, the
result is a set with at most one element.  A step of `Algorithms` chooses an input, and
the properties compare what the operators compute with a definition of what they are for.
The initial predicate, the next-state relation and the specification of `Algorithms` carry
its name (`AlgorithmsSpec`), since its proofs extend `ModelRegistry`, too.  `AuditLedger`
and `Credential` have state of their own: there a step is one call.  A step of a run of the
lab (`TryLinux`) is one stage, or an interrupt.  What a loader or a
contract guarantees of an input (a catalog that loads, a partition with exact features) is
`InputAssumption`, which TLC evaluates on all inputs of the run.  Scores
are integers from 0 to `One`, ratios are pairs, times are minutes or seconds as the code
uses them.

## 3. The runs

| Run | Shows | Bounds |
|---|---|---|
| `orchestrator` | `TypeOK`, `StoreAlwaysAccepts`, `ContainmentRecoverable`, `OneContainmentPerTarget`, `AppliedAtMostOnce`, `RateLimited`, refinement of `ResponseLifecycle` | two responses on one target and a third on another, so that a sweep reverts several; one crash or storage fault, one adapter failure, two policy catalogs, a clock that may be stepped back |
| `service` | `UncertainApplyCompensated`, `ExportFaithful` | two responses on one target, one crash or storage fault, one adapter failure, one outage; symmetric in the responses |
| `service_live` | `ResponsesEnd`, `EventsDelivered` | two responses on one target, one crash or storage fault, one adapter failure |
| `blocklist` | `PlacedIsOwned`, `ContainmentLifted`, `SharedEntryKept`, `ObservedEntryKept`, `RevertRepeats` | two operations, two peers, three faults, two changes by others |
| `isolation` | `VerifiedIsolationLifted`, `VerifiedIsIsolated` | two operations, two faults, one late request, one restart, three queued requests |
| `features` | `DoneIsDelivered`, `SettledWindowsFixed`, `FailedWindowsSettle` | three windows, one of them malformed, two entities, one fault |
| `enrichment` | `OneDocumentPerJob`, `PulledIsQueued`, `JobsEnd` | three vectors, one of them invalid, one imported, pulled two at most in pages of two, two models of which one is an LSTM, two model changes, a midnight, one requeue, one fault |
| `decision` | `NothingSkipped`, `CommandIsRecorded`, `CommandsPerAnomaly`, `AnomaliesDecided` | two anomalies, two alerts, a clock step that makes evidence stale, a change of mode, two faults |
| `registry` | `ServedMeetsPolicy`, `ApprovalIsComplete` | four directories, two processes, four commands, a model of each kind of which one fails the policy, two versions of the contract, one crash or damage; symmetric in directories and processes |
| `algorithms` | `VectorsFaithful`, `HistoryServedAsTrained`, `BenchmarkFaithful`, `NoLeakage`, `CommandFaithful`, `StrictReportHolds`, `LedgersFaithful`, `CredentialIsCurrent`, `BackendsFaithful`, `LabRunFaithful`: most are conjunctions of claims that `Algorithms` names and explains one by one | all inputs of the sets in `MCAlgorithms`, about 170 000, and 230 000 states of runs of the lab |
| `blocklist_foreign`, `pipeline_skip` | a counterexample to a statement of the documentation (section 5) | the smallest that shows it |

Why these bounds are enough: two responses are the fewest that can compete for a target,
and the exclusion rules compare pairs; a third response on
another target makes a sweep of two.  Two faults (a crash or storage fault and a failed
adapter call, two failed requests) let a compensation fail after the operation it
compensates; three on the blocklist also let the repeated compensation fail.
Two peers are the fewest the adapter accepts and already give a first, a last and an
in-flight peer.  Time to live and authorization of one tick with a clock of two
let each lapse before, during and after an apply.  Two anomalies
give one at and one behind the cursor.  Three vectors give a pull that stops at
its limit with a second page in hand, and one that is indexed between the hits of a page;
pages of two, the fewest in which there is a between, stand for the 500 of the code.  (The
two invariants also pass with four vectors, a limit of three and a stop inside the second
page, which takes ten times the states.)  Four commands are a
training of each kind, a comparison and a promotion, or two competing promotions.  The
inputs of `algorithms` put values on and next to every limit of the code.  The invariants of
all runs are also proved without the bounds (section 4).

Every module states the values of its variables as `TypeOK`.  It is a property of the
`orchestrator` run, where the proofs use it; elsewhere it is documentation, and holds when it
is added to the run's `INVARIANTS`.

Deadlock is not checked: all work done and all bounds used, the system rests.

### Fairness

* An operation in progress goes on (`EngineWorks`, `AcceptEnds`): it is straight-line code
  whose remote calls time out after 15 seconds.
* The scheduler passes through `tick`: `service/__main__.py` loops every `tick_seconds` and
  survives a pass that raises.  Beginning a pass is strongly fair: the scheduler competes
  for the lock with requests, which are not back to back for ever.
* The workers' `Work` is weakly fair: each loops for ever with a fixed pause, and a process
  that ended is started again (`restart: unless-stopped` in `docker-compose.yml`).  A job's
  backoff ends.
* After a storage failure an operator stops the service, as the engine's error message and
  `response/orchestrator/README.md` ask.
* Crashes, failed requests and outages are bounded, so they end.

## 4. The proofs

Everything here holds for every value of the constants: any numbers of responses, peers,
operations, vectors, anomalies, windows and directories, any number of faults.

| Module | Theorem | States |
|---|---|---|
| `OrchestratorProofs` | `TypeCorrect`, `StoreAcceptance`, `Recoverability`, `TargetExclusion`, `SingleApplication`, `RateLimitHolds`, `Refinement` | `TypeOK`, `StoreAlwaysAccepts`, `ContainmentRecoverable`, `OneContainmentPerTarget`, `AppliedAtMostOnce`, `RateLimited`, `ImplementsLifecycle` |
| `ResponseServiceProofs` | `Compensation`, `ExportIsFaithful`, `EnginePromises` | `UncertainApplyCompensated`, `ExportFaithful`, and the engine's results inside the service |
| `BlocklistProofs` | `PlacedHasOwner`, `Lifting`, `SharedKept`, `ObservedKept`, `RevertIsRepeatable` | `PlacedIsOwned`, `ContainmentLifted`, `SharedEntryKept`, `ObservedEntryKept`, `RevertRepeats` |
| `EndpointIsolationProofs` | `VerifiedIsLifted`, `VerificationIsTrue` | `VerifiedIsolationLifted`, `VerifiedIsIsolated` |
| `FeatureWorkerProofs` | `DoneWindowsDelivered`, `SettledStayFixed` | `DoneIsDelivered`, `SettledWindowsFixed` |
| `EnrichmentProofs` | `OneDocument`, `NoVectorLost` | `OneDocumentPerJob`, `PulledIsQueued` |
| `DecisionRunnerProofs` | `NoneSkipped`, `RecordsAgree`, `CommandsBounded` | `NothingSkipped`, `CommandIsRecorded`, `CommandsPerAnomaly` |
| `AlgorithmsProofs` | `ServedIsPromoted`, `ApprovedLoads` | `ServedMeetsPolicy`, `ApprovalIsComplete`, where `SharedOutput = FALSE` |
| | `CommandsFaithful` | `CommandFaithful` |
| | `LedgersHold`, `CredentialCurrent` | `LedgersFaithful`, `CredentialIsCurrent` |
| | `BackendsHold`, `StrictReportsHold` | `BackendsFaithful`, `StrictReportHolds` |
| | `HistoriesServed`, `BenchmarksFaithful` | `HistoryServedAsTrained`, `BenchmarkFaithful` |
| | `VectorsHold`, `NoLeakageHolds` | `VectorsFaithful`, `NoLeakage` |
| | `LabRunsFaithful` | `LabRunFaithful` |

The assumptions are the `ASSUME`s of the modules, which say of what kind the constants are
and that "absent" values are no members of the sets they are absent from; TLC evaluates them
in the runs.  For each state machine the module of its proofs defines an inductive invariant
`Inv`, has one lemma per action or group of actions, and a theorem `Invariance`; the listed
theorems are consequences.  None of the properties is inductive by itself.  What the invariants add:

**Orchestrator**, `Inv == TypeOK /\ Durable /\ Process`.  A record's state says nothing of
its intent, and RAM nothing of the store.

* `RecordOK`: a snapshot carries the state and number of the last audit event, has a
  recovery reference exactly when its intent was claimed, and whatever is active, terminal
  or pending has one;
* `EffectOK`: what is in force is unresolved in the store, and what was applied was claimed;
* `Exclusive`: two unresolved responses never share a target;
* `Process`: a running process works on exactly what is committed, and the place of the
  operation in progress agrees with the committed record.

`Transition` and `Checkpoint` are the only writers; two groups of lemmas show what each
kind of commit preserves.  `Refinement` maps the audit, the intents and the effects to
`ResponseLifecycle` step by step, with stuttering for everything in RAM.  `RateLimitHolds`
counts the admissions of a window with the finite-set theorems.

**ResponseService.**  The engine's invariant holds inside the service because each of its
steps is one of the orchestrator's at the time `now`, whatever that is.  On top of it,
`CoveredOK` says which uncertain applies start-up recovery still has ahead of it
(`Compensation` is the case in which it has none), `ThreadsOK` who may hold the lock in
which stage, and `ExportOK` that per response the marked events are a prefix of the delivered
ones and these of the committed ones, the event in flight being the one in between.

**Blocklist**, `Inv == Always /\ (overlap \/ Ordered)`.  `Always` holds for any caller: the
ledger agrees with the phases of the operations, a held block is present unless others took
it away, and the position of the call in progress says which peers are already claimed or
released.  `Ordered` needs the orchestrator's discipline (no overlap): what the plane placed
has an owner on its peer, a call meets no claim but its own, and a revert that once
succeeded has left nothing to revert.

**EndpointIsolation.**  `OneRequest`: the isolate request of an operation is in one place
at a time (not sent, on the wire, queued, running) and has had no effect before that, so an
isolation that was once reported cannot come back after its marker is gone.  `InOrder`: on
an undisturbed endpoint the isolate request of an applied operation is the last one, so
nothing can take its ruleset away before a revert begins.

**FeatureWorker.**  The windows of a pass are unsettled and distinct, and the vectors in hand
are of the current one, one per entity, each in the index or still to be created; the count
in the ledger is compared with the index through the injection from vectors to entities.

**Enrichment.**  A job's event is fixed before the first attempt to create it, and every
document in any daily index is that of a job which has its event.  `PageOK`: the
page in hand holds the next vectors in order, without a gap except for those `missed` since
its search.  `PullOK` says that whatever the scan has passed is queued, invalid, late or
missed; the commit of the cursor makes the missed ones behind it late, which gives
`PulledIsQueued`, and a scan that ends without a commit forgets them, since the next one
starts before them.

**DecisionRunner.**  `PassOK`: the anomalies of the pass are the next ones in the order of
the index, without a gap except for those that were indexed behind it.  `VerdictOK` ties the verdict
in hand to the event written and the command sent for it.  `Count` is for
`CommandsBounded`: until an anomaly has its outcome it has no more commands than there were
faults, and the idempotency keys that were used or may be used next are no more than the
alerts about it, because an alert that arrives adds one key at most.

**ModelRegistry.**  What a command has still to write is absent from its directory, and a
metadata file comes after what it describes.  `Sound`: the metrics that a digest is bound
to are those of the model behind it, unless its bytes were damaged before they were read
back (such a registry does not load).  The hypothesis `SharedOutput = FALSE` is needed:
section 5 describes what happens without it.

**Algorithms.**  Most steps only choose an input (`Inputs`), so most claims are facts about the
operators, proved for every input that `InputAssumption` admits.

* `CommandsFaithful`: a verdict is taken apart condition by condition; what is signed is
  compared field by field with what the orchestrator checks; reversing or respelling the
  signals leaves the sets unchanged that verdict and key are made of.
* `BenchmarksFaithful`: a threshold between two scores fires as the next score above it
  does, so the best observed score is the best of all thresholds (the best one exists by
  a well-founded order on the finitely many candidates); a static rule that fires scores
  `One`, which no threshold exceeds; a partition has one vector for an entity and window,
  so that what the worker fetches is what the benchmark scored.
* `HistoriesServed`: an entity has at most one vector in each of the windows asked for, so
  that the limit of the search cuts nothing off.
* `VectorsHold`: an input that is not refused has one event for an id, so that its vectors are
  a function of the set of its events; a record that describes a flow again adds to no
  connection feature of its entity; the windows cut the events of an entity in two.
* `NoLeakageHolds`: a window lies in one partition since all boundaries are aligned; entity and
  window determine a row, so that vectors, ledger entries and labels match one to one and
  loading repeats what building ensured; a scenario that covers an event overlaps the window of
  its row; the manifest determines ledger and labels, and the ledger the vectors.
* `StrictReportsHold`: the artifact a control is judged by is traced to the test that left it.
* `LedgersHold` has an inductive invariant (`LedgersOK`): both ledgers hold the same commands, intents and
  histories, these are numbered without gaps, chained and legal step by step, and the last
  event decides what the recovery queue holds.
* `CredentialCurrent` has one too (`CredentialOK`): what the worker holds under the stamp of the file is what
  was in the file at that stamp, or what it reads next.
* `LabRunsFaithful` has one too (`Underway`): the stages that have run are the first of the
  selected ones, and since every stage comes after those it needs (`StagesInOrder`, read off
  the table of stages), all that can hold a stage back is known when its turn comes.  The
  field `above` of a run records what a stage rests on for the sake of `FailureBlocks`; the
  program has no such record.

Before its proof each invariant was checked by TLC on the constants of the module's run.

Only model-checked is liveness (`ResponsesEnd`, `EventsDelivered`, `FailedWindowsSettle`,
`JobsEnd`, `AnomaliesDecided`), which is out of the prover's reach.

## 5. Where code and documentation disagree

Two disagreements have a run that shows them:

| Run | The documentation | The code |
|---|---|---|
| `blocklist_foreign` | "a revert can never remove an entry the response plane did not add" | the read of the set and the add are not atomic, and elements time out: an analyst's entry placed in between is taken for the plane's own and removed |
| `pipeline_skip` | "the decision runner and workers retry and never skip" | a retried anomaly event keeps the time of its scoring, and the runner's cursor may have passed that time: the anomaly never gets an outcome |

The others came up while modelling.  A property that holds states the exception, or the
case is described here only.

Response plane:

* `runner.py:100`, "One scheduler pass: apply, verify, expire, recover, export": a queued
  command for an engaged target raises out of the pass (`TickRaises`); due reverts wait
  until that command's authorization lapses.  `ResponsesEnd` shows that they do happen.
* `engine.py:301`, "Recheck at the privileged side effect": the recheck uses the time at
  which the pass began, so that a slow apply lets the next one begin after its
  authorization lapsed.
* `adapters/README.md`, "Revert must be safe to repeat": repeated over an entry of others
  it reports a failure and the response stays unresolved (the exception of
  `RevertRepeats`).
* `cxyz_endpoint_isolation.py`, "'marker absent' proves restoration": it is also absent
  before the isolation was reported, hence `VerifiedIsolationLifted` asks for a
  verification first.  `VerifiedIsIsolated` has two exceptions: a restart of the endpoint
  drops the ruleset and keeps the marker, and `restore` deletes the endpoint's only table
  whatever operation installed it, so that a late restore lifts the next isolation.
* An `apply` on the blocklist that is repeated after its pre-existing entry went away
  leaves a block that no revert removes; the orchestrator never repeats an `apply`.
* `OPNsenseRawSet.contains` takes a network that begins with the address for the address
  (the exception of `BackendsAreSets`); the VyOS address group takes no IPv6 address.
* The SQLite ledger refuses non-finite numbers, the one in memory accepts them.

Detection:

* `enrichment.py:158`, "Delivery stays at-least-once": a pull iterates a page it fetched
  before and stores the key of its last hit.  A window that fails and is retried delivers
  its vectors behind that cursor, or behind the page in hand and so behind the next cursor;
  they are never scored.  They are the `late` ones, without which `PulledIsQueued` fails.
* A retry of a window after late events makes a second vector of the same entity and window
  (`ai/features/README.md`: "so a retry is idempotent"); the history of a sequence model
  may then miss a window (the precondition of `HistoryServedAsTrained`).
* The worker accepts answers of an Isolation Forest only: jobs scored by an approved LSTM
  are dead-lettered.  After a change of model, jobs bound to the old one are, too, and
  `requeue` does not help them.
* After a lost acknowledgement a retry on new alerts is a second command with a key of its
  own (`CommandsPerAnomaly` bounds their number).  A decision event keeps its first outcome
  under its id: a restart from `observe` to `enforce` leaves the "alert" of the first
  attempt beside the command.

Models and evidence:

* Two trainings into one directory can bind the metrics of one to the artifact of the
  other, and promotion accepts the pair: set `SharedOutput = TRUE` in `registry.cfg` and
  `ServedMeetsPolicy` fails.  The registry run gives every command a directory of its own.
* `detectors.py:100`, "fires if either component would": the hybrid's threshold is tuned
  apart, so it may miss what the model alone detects (never what the static rules detect:
  `HybridKeepsStatic`).  Where the static rules are too noisy for the budget, no threshold
  is found for the hybrid and no candidate of any model is written.
* An event at the last instant of a scenario makes the session of an attack but a benign
  label; of two scenarios of one entity in a window only the earlier counts; a repeated
  event makes `build` refuse, although the feature engine accepts it; a built dataset may
  be refused by training (`BuiltLoads` says exactly when).
* `status_for` takes the last artifact by file name, so that a failure under one spelling
  of a test id is hidden by a pass under another; a crash between a test's call and its
  teardown leaves the artifact of the call.

Lab runner: an interrupted run without a failure prints "ALL STAGES PASSED" and exits with
0 (the exception of `ZeroMeansDone`), and with `--skip` of a stage in between, a stage runs
although one further up failed (`FailureBlocks` follows selected stages only).

## 6. Not modelled

* `observe` mode of the response service and metrics: no engine call, no state that is read
  back.
* Key rotation at a restart of the orchestrator; signatures are pairs of key and body.
* A firewall call that takes effect after the client gave it up *and* after the next call;
  for endpoints it is modelled.
* A ledger commit of the blocklist that raises after taking effect: its compensation reads
  the ledger again, and a crash right after the commit has the same result.
* The HTTP intake's status codes and event loop, the parsing of configuration files, TLS.
* The fit of a model and floating-point arithmetic: a model is any function to a few
  scores, the rounding of a metric is exact.
* The bodies of the single compliance tests and lab stages, which act on a live network,
  and rendering, static checks and the topology viewer (`render_fabric.py`,
  `security_static_checks.py`, `check_soc_static.py`, `netviz.py`): they compare or produce
  text and keep no state.

## 7. Plan

Done: the orchestrator with its store, the service, both adapters, the workers and the
decision runner, their composition, the model registry and the sequential parts; the proofs
of section 4.

Next:

1. an abstract at-least-once channel that `Enrichment` refines, as `Orchestrator` refines
   `ResponseLifecycle`.
