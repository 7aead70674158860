----------------------------- MODULE Algorithms -----------------------------
(***************************************************************************)
(* What the pure parts of the system compute, for every input of the sets  *)
(* the constants name: a step chooses one input of one of the algorithms,  *)
(* and the properties say what holds of it.  The audit ledgers and the     *)
(* credential of a worker are chosen new and then used call by call, and a *)
(* run of the lab goes on stage by stage.                                  *)
(***************************************************************************)
EXTENDS Dataset, Decision, Compliance, AuditLedger, Credential, FirewallSets,
  TryLinux

CONSTANTS
  Captures,     \* sequences of events
  Histories,    \* sequences of vectors
  Benchmarks,   \* a model, two partitions, minutes and a budget
  Experiments,  \* events, scenarios and boundaries of a dataset
  Requests,     \* a catalog, an anomaly, signals, a target and a time
  Audits,       \* tests, worlds, a catalog and the options of a report
  Firewalls,    \* a firewall, an address and a time to live
  Trials,       \* options of a run of the lab and the work of its stages
  Response,     \* responses of the audit ledgers
  MaxEvents,    \* bound: the events of each response
  MaxVersions   \* bound: versions of a credential file

\* A time to live that a rule may have (RuleLoads).
RuleTtl(ttl) == ttl \in Nat /\ 60 <= ttl /\ ttl <= 86400

\* A firewall has one of the three backends.
FirewallInputs ==
  \A i \in Firewalls :
    /\ i.firewall \in [backend : {"nftables", "opnsense", "vyos"}, permitted : BOOLEAN, broken : BOOLEAN,
                       entries : {i.firewall.entries}]
    /\ RuleTtl(i.ttl)

\* A document that loads has these parts and no other, and a signal these
\* fields; times are seconds.
IsDocument(d) ==
  d \in [protections : {d.protections}, rate_limit : {d.rate_limit}, dedup : {d.dedup},
         command_valid_for : {d.command_valid_for}, evidence_max_age : {d.evidence_max_age},
         policies : {d.policies}]
IsSignal(s) ==
  s \in [type : {s.type}, reference : {s.reference}, severity : Int, count : Int, observed_at : Int,
         target : [type : {s.target.type}, value : {s.target.value}, spelling : {s.target.spelling}]]

RequestInputs ==
  \A r \in Requests :
    /\ CatalogLoads(r.doc) /\ IsDocument(r.doc)
    /\ r.now \in Int /\ r.anomaly.observed_at \in Int
    /\ r.signals \in Seq({r.signals[i] : i \in DOMAIN r.signals})
    /\ \A i \in DOMAIN r.signals : IsSignal(r.signals[i])

\* An audit has a list of tests and a profile, and the steps of the audit of
\* Path B are run by nothing else.
AuditInputs ==
  \A a \in Audits :
    /\ a.tests \in Seq({a.tests[k] : k \in DOMAIN a.tests})
    /\ a.profile \in PROFILES
    /\ \A k \in DOMAIN a.tests, i \in DOMAIN a.catalog :
         LET node == a.tests[k].node
             step == a.catalog[i].verified_by_path_b
         IN  (node.file = step.file /\ node.function = step.function) => a.tests[k].runner = "audit"

\* A history is a list of vectors.
HistoryInputs == \A vectors \in Histories : vectors \in Seq({vectors[i] : i \in DOMAIN vectors})

\* A partition that was loaded (load_dataset): vectors of one kind with their
\* exact features, one of an entity for a window.  A model scores each of them.
PartitionInput(model, rows) ==
  /\ rows \in Seq({rows[i] : i \in DOMAIN rows})
  /\ \A i \in DOMAIN rows :
       /\ rows[i].attack \in BOOLEAN /\ rows[i].onset \in Int /\ rows[i].vector.window_end \in Int
       /\ rows[i].vector.schema = NETWORK /\ rows[i].vector.entity # "invalid"
       /\ require_exact_features(NETWORK, rows[i].vector.features)
       /\ score_partition([kind |-> "model", model |-> model], rows)[i] \in 0 .. One
  /\ \A i, j \in DOMAIN rows :
       (/\ rows[i].vector.entity = rows[j].vector.entity
        /\ rows[i].vector.window_end = rows[j].vector.window_end) => i = j

BenchmarkInputs ==
  \A b \in Benchmarks :
    /\ b.minutes \in Nat /\ b.budget \in Nat /\ b.model.length \in Nat \ {0}
    /\ PartitionInput(b.model, b.validation) /\ PartitionInput(b.model, b.test)

\* A capture is a list of events with times and byte counts.
EventInputs(events) ==
  /\ events \in Seq({events[i] : i \in DOMAIN events})
  /\ \A i \in DOMAIN events : events[i].at \in Int /\ events[i].sent \in Int /\ events[i].received \in Int

CaptureInputs == \A events \in Captures : EventInputs(events)

\* The entity of a scenario is a name (load_scenarios).
ExperimentInput(x) ==
  /\ x.schema \in {NETWORK, ENDPOINT} /\ EventInputs(x.events)
  /\ x.scenarios \in Seq({x.scenarios[i] : i \in DOMAIN x.scenarios})
  /\ \A i \in DOMAIN x.scenarios :
       /\ x.scenarios[i].entity # Missing
       /\ x.scenarios[i].start \in Int /\ x.scenarios[i].end \in Int
  /\ x.boundaries \in Seq(Int)

ExperimentInputs == \A x \in Experiments : ExperimentInput(x)

\* A check passes, warns, fails or has nothing to do.
TrialInputs ==
  \A o \in Trials :
    /\ o.fail_fast \in BOOLEAN
    /\ \A i \in DOMAIN Stages :
         LET work == o.work[Stages[i].id]
         IN  /\ work.kind \in {"check", "raises", "cmds"}
             /\ work.kind = "check" => work.status \in {"PASS", "WARN", "FAIL", "SKIP"}

ASSUME InputAssumption ==
  /\ MaxVersions \in Nat
  /\ CaptureInputs
  /\ ExperimentInputs
  /\ FirewallInputs
  /\ RequestInputs
  /\ AuditInputs
  /\ HistoryInputs
  /\ BenchmarkInputs
  /\ TrialInputs

VARIABLE input

AlgorithmsInit == input = [of |-> "nothing", value |-> <<>>]

Choose(name, inputs) ==
  /\ input.of = "nothing"
  /\ \E i \in inputs : input' = [of |-> name, value |-> i]

ExtractFeatures == Choose("capture", Captures)
LookUpHistory == Choose("history", Histories)
CompareDetectors == Choose("benchmark", Benchmarks)
BuildDataset == Choose("experiment", Experiments)
Decide == Choose("request", Requests)
ReportCompliance == Choose("audit", Audits)
BlockAddress == Choose("firewall", Firewalls)
TryLab == Choose("trial", UNION {{NewRun(o, chosen) : chosen \in select(o)} : o \in Trials})
OpenLedgers == Choose("ledgers", {NewLedgers})
StartWorker == Choose("credential", {NewCredential(t) : t \in {"k1", "k2"}})

\* What a process has read of a history when it builds an event: all of it, or
\* all but the last event.
ReadsOf(history) == {history} \cup (IF history = <<>> THEN {} ELSE {Front(history)})

Call(call) == input' = [input EXCEPT !.value = Called(@, call)]

CallLedgers ==
  /\ input.of = "ledgers"
  /\ \E r \in Response :
       \/ \E c \in {"c1", "c2"} : Call(Save(r, c))
       \/ Call(Claim(r))
       \/ /\ Len(MemoryEvents(input.value.memory, r)) # MaxEvents[r]
          /\ \E read \in ReadsOf(MemoryEvents(input.value.memory, r)) :
               \/ \E at \in {1, 2} : Call(Record(EventOf(r, "policy", "REQUESTED", FALSE, at, read)))
               \/ \E s \in STATES, intent \in BOOLEAN :
                    Call(Record(EventOf(r, "policy", s, intent, 2, read)))

UseCredential ==
  /\ input.of = "credential"
  /\ \/ input' = [input EXCEPT !.value = Reload(@)]
     \/ /\ input.value.file.stamp < MaxVersions
        /\ \E t \in {"k1", "k2", Malformed, NoFile} : input' = [input EXCEPT !.value = Provision(@, t)]

RunLab ==
  /\ input.of = "trial" /\ ~input.value.over /\ Left(input.value) # {}
  /\ \/ input' = [input EXCEPT !.value = Advance(@)]
     \/ input' = [input EXCEPT !.value = Interrupt(@)]

AlgorithmsNext ==
  \/ ExtractFeatures
  \/ LookUpHistory
  \/ CompareDetectors
  \/ BuildDataset
  \/ Decide
  \/ ReportCompliance
  \/ BlockAddress
  \/ TryLab
  \/ RunLab
  \/ OpenLedgers
  \/ CallLedgers
  \/ StartWorker
  \/ UseCredential

AlgorithmsSpec == AlgorithmsInit /\ [][AlgorithmsNext]_input

Given(name, Holds(_)) == input.of = name => Holds(input.value)
-----------------------------------------------------------------------------
(* Features.                                                               *)

Schemas == {NETWORK, ENDPOINT}
Starts == {0, WINDOW}

\* Vectors do not depend on the order in which the events of a window are
\* read nor on how often an event was delivered (engine.py, "repeated
\* execution over the same immutable event set yields byte-equivalent
\* vectors").
VectorsIgnoreOrder ==
  Given("capture", LAMBDA events :
    \A schema \in Schemas, start \in Starts :
      LET vectors(s) == Vectors(schema, s, start, {}, {{"init"}})
      IN  /\ vectors(events) = vectors(Reverse(events))
          /\ vectors(events) = vectors(events \o events))

ConnectionFeatures ==
  {"connection_count", "unique_dst_ip", "unique_dst_port", "bytes_out", "bytes_in", "blocked_ratio"}

\* A Suricata record that describes a flow again: an alert, query or handshake.
Again(e) == e.dataset = "suricata.eve" /\ e.type # "flow"

\* With or without such records an entity has the same connections, bytes and
\* share of blocked ones (_is_connection_record, ai/features/README.md).
ConnectionsCountedOnce ==
  Given("capture", LAMBDA events :
    LET plain == Restrict(events, {i \in DOMAIN events : ~Again(events[i])})
    IN  \A start \in Starts :
          \A V \in Vectors(NETWORK, events, start, {}, {}), W \in Vectors(NETWORK, plain, start, {}, {}) :
            \A v \in V :
              \/ \E w \in W : /\ w.entity = v.entity
                              /\ \A n \in ConnectionFeatures : v.features[n] = w.features[n]
              \/ v.features.connection_count = 0 /\ \A w \in W : w.entity # v.entity)

\* How many events of an entity the vectors of a window count.
Counted(vectors, entity) ==
  IF \E v \in vectors : v.entity = entity THEN (CHOOSE v \in vectors : v.entity = entity).count ELSE 0

\* Two windows that follow each other share no event of an entity and lose
\* none, and every vector meets its closed contract: an event on the boundary
\* belongs to the later window only (_validate_and_select, validate_vector).
WindowsPartition ==
  Given("capture", LAMBDA events :
    \A schema \in Schemas :
      \A V \in Vectors(schema, events, 0, {}, {}), W \in Vectors(schema, events, WINDOW, {}, {}) :
        /\ \A v \in V \cup W : validate_vector(v)
        /\ \A entity \in {EntityOf(schema, e) : e \in ToSet(events)} \ {Missing} :
             Counted(V, entity) + Counted(W, entity)
               = Cardinality({e \in ToSet(events) :
                                EntityOf(schema, e) = entity /\ e.at \in 0 .. 2 * WINDOW - 1}))

\* The vectors of a window are a function of the set of its events: order,
\* repetition, other records of a flow and the neighbouring window change
\* nothing.
VectorsFaithful == VectorsIgnoreOrder /\ ConnectionsCountedOnce /\ WindowsPartition

\* A sequence model is served the history it was trained on: what the
\* enrichment worker fetches for a vector makes the matrix the trainer fits
\* for it, as long as an entity has one vector for a window
\* (make_history_fetcher and training_sequences, "bit-for-bit consistent" in
\* sequences.py).
HistoryServedAsTrained ==
  Given("history", LAMBDA vectors :
    (\A i, j \in DOMAIN vectors :
       (/\ vectors[i].entity = vectors[j].entity /\ vectors[i].schema = vectors[j].schema
        /\ vectors[i].window_end = vectors[j].window_end) => i = j)
    => \A schema \in Schemas, length \in 2 .. 3 :
         LET own == Restrict(vectors, {i \in DOMAIN vectors : vectors[i].schema = schema})
         IN  \A fitted \in training_sequences(own, schema, length), i \in DOMAIN own :
               sequence_matrix(schema, Fetched(own[i], vectors, length), own[i].features) = fitted[i])
-----------------------------------------------------------------------------
(* Evaluation.                                                             *)

\* The threshold chosen on the validation partition is within the budget of
\* false alarms and no valid threshold within it has a better F1, observed
\* score or not; when none is chosen, none would be within the budget
\* (select_threshold).
TunedIsBest ==
  Given("benchmark", LAMBDA b :
    \A kind \in {"model", "hybrid"} :
      LET detector == [kind |-> kind, model |-> b.model]
          rows == b.validation
          scores == score_partition(detector, rows)
          t == tune_threshold(detector, rows, b.minutes, b.budget)
          allowed == {u \in 0 .. One : WithinBudget(rows, scores, u, b.minutes, b.budget)}
      IN  Attacks(rows) \notin {{}, DOMAIN rows} =>
            IF t = NoThreshold THEN allowed = {}
            ELSE /\ t \in allowed
                 /\ \A u \in allowed : AtLeastRatio(_f1(rows, scores, t), _f1(rows, scores, u)))

\* Whatever threshold its model is tuned to, the hybrid detector of a written
\* candidate detects every scenario the static rules detect, and no later
\* (HybridDetector and run_benchmark; the static rules are "the baseline that
\* the learned detectors must beat").
HybridKeepsStatic ==
  Given("benchmark", LAMBDA b :
    \A candidate \in write_candidate(b.model, b.validation, b.test, b.minutes, b.budget) :
      \A static \in candidate.benchmark[1] : \E hybrid \in candidate.benchmark[3] :
        \A s \in DOMAIN static.delays :
          s \in DOMAIN hybrid.delays /\ hybrid.delays[s] <= static.delays[s])

\* The request of the enrichment worker for a vector, for a model that it was
\* told takes sequences of a length.
RequestFor(vector, vectors, length) ==
  [schema |-> vector.schema, entity |-> vector.entity, features |-> vector.features,
   history |-> IF length > 1 THEN Fetched(vector, vectors, length) ELSE <<>>]

\* A served verdict is the one the benchmark counted: for every vector of the
\* test partition the service answers the worker's request with the score and
\* the alarm that the metrics of the candidate are made of, and it answers no
\* request made for a model of another length (infer, ApprovedModel.infer,
\* score_partition).
ServedAsEvaluated ==
  Given("benchmark", LAMBDA b :
    \A candidate \in write_candidate(b.model, b.validation, b.test, b.minutes, b.budget) :
      LET vectors == [i \in DOMAIN b.test |-> b.test[i].vector]
          scores == score_partition([kind |-> "model", model |-> b.model], b.test)
          threshold == candidate.metrics.threshold
          provider == {[schema |-> NETWORK, model |-> b.model, threshold |-> threshold]}
      IN  \A i \in DOMAIN vectors, length \in 1 .. 3 :
            LET answer == infer(provider, RequestFor(vectors[i], vectors, length))
            IN  IF length # b.model.length THEN answer.result = {}
                ELSE answer.result = {[score |-> scores[i],
                                       is_anomaly |-> i \in Firing(scores, threshold)]})

\* The numbers a candidate is promoted on are the best its budget allows, lose
\* nothing the static rules find and are those of the served model.
BenchmarkFaithful == TunedIsBest /\ HybridKeepsStatic /\ ServedAsEvaluated
-----------------------------------------------------------------------------
(* Datasets.                                                               *)

Built(x) == build(x.schema, x.events, x.scenarios, x.boundaries, {})

\* A dataset that was built is accepted by training exactly when no event and
\* no session, a scenario or the day of an entity, has vectors in two
\* partitions (build and validate_partitions).
BuiltLoads ==
  Given("experiment", LAMBDA x :
    \A rows \in Built(x) :
      load_dataset(write_dataset(x.schema, rows, x.boundaries), x.schema)
      <=> \A r, q \in rows : r.partition # q.partition =>
            /\ r.sessions \cap q.sessions = {}
            /\ ToSet(r.ids) \cap ToSet(q.ids) = {})

\* No vector of the training partition has an event from within a scenario of
\* its entity: "the training partition keeps only benign vectors"
\* (build_dataset.py).  The last instant of a scenario is not within it.
TrainIsBenign ==
  Given("experiment", LAMBDA x :
    \A rows \in Built(x) :
      \A r \in rows : r.partition = "train" =>
        \A e \in ToSet(x.events), i \in DOMAIN x.scenarios :
          ~ /\ EntityOf(x.schema, e) = r.vector.entity /\ InWindow(e, r.vector.window_start)
            /\ x.scenarios[i].entity = r.vector.entity
            /\ x.scenarios[i].start <= e.at /\ e.at < x.scenarios[i].end)

\* A scenario with events in two partitions is refused, also when its vectors
\* are dropped from one of them, as long as the scenarios of an entity do not
\* overlap a window together (build, "a scenario may not straddle a partition
\* boundary").
ScenarioInOnePartition ==
  Given("experiment", LAMBDA x :
    LET within(i, e) == /\ EntityOf(x.schema, e) = x.scenarios[i].entity
                        /\ x.scenarios[i].start <= e.at /\ e.at < x.scenarios[i].end
                        /\ x.boundaries[1] <= e.at /\ e.at < x.boundaries[4]
    IN  (\A i, j \in DOMAIN x.scenarios :
           \/ i = j \/ x.scenarios[i].entity # x.scenarios[j].entity
           \/ x.scenarios[i].end + WINDOW <= x.scenarios[j].start
           \/ x.scenarios[j].end + WINDOW <= x.scenarios[i].start)
        => \A rows \in Built(x), i \in DOMAIN x.scenarios :
             \A e, f \in {e \in ToSet(x.events) : within(i, e)} :
               PartitionOf(x.boundaries, e.at) = PartitionOf(x.boundaries, f.at))

ScenarioFiles == {x.scenarios : x \in Experiments}

\* The files of two datasets do not mix: training accepts the manifest of one
\* with no vectors, ledger or labels of the other (validate_partitions and
\* load_labels, "neither side can be swapped after the fact").
MixedFilesRefused ==
  Given("experiment", LAMBDA x :
    \A rows \in Built(x) :
      \A other \in Built([x EXCEPT !.events[1].sent = 7])
                    \cup UNION {Built([x EXCEPT !.scenarios = s]) : s \in ScenarioFiles} :
        LET F == write_dataset(x.schema, rows, x.boundaries)
            G == write_dataset(x.schema, other, x.boundaries)
        IN  \A v \in {F.vectors, G.vectors}, l \in {F.ledger, G.ledger}, k \in {F.labels, G.labels} :
              LET files == [F EXCEPT !.vectors = v, !.ledger = l, !.labels = k]
              IN  load_dataset(files, x.schema) => files = F)

\* Nothing leaks from the validation and test partitions into training: benign
\* vectors only, no scenario, session or event in two partitions, and no file
\* of another build.
NoLeakage == BuiltLoads /\ TrainIsBenign /\ ScenarioInOnePartition /\ MixedFilesRefused
-----------------------------------------------------------------------------
(* Decisions.                                                              *)

Verdict(r, signals) ==
  Evaluate(r.doc, r.world, r.policy, r.anomaly, signals, r.target, r.now, "key")

\* A command is only issued on an anomaly above both thresholds, with evidence
\* that is all recent and about the target, and with a second observation that
\* carries every number the policy asks for (evaluate; response/README.md on
\* hybrid correlation).
CommandIsJustified ==
  Given("request", LAMBDA r :
    Verdict(r, r.signals).outcome = "response_requested" =>
      LET rule == RuleOf(r.doc, r.policy)
          evidence == {r.anomaly} \cup ToSet(r.signals)
      IN  /\ r.anomaly.score >= r.anomaly.threshold /\ r.anomaly.score >= rule.min_ai_score
          /\ \A e \in evidence : /\ r.now - e.observed_at <= r.doc.evidence_max_age
                                 /\ e.observed_at - r.now <= FutureSkew
                                 /\ e.target.value = r.target.value
          /\ \E s \in ToSet(r.signals), q \in rule.require_any :
               /\ s.type = q.kind /\ s.reference # r.anomaly.event_id
               /\ q.min_severity # Absent => s.severity >= q.min_severity
               /\ q.min_count # Absent => s.count >= q.min_count
          /\ rule.action = "block_ip" => r.target.value \notin r.doc.protections.protected
          /\ rule.action = "isolate_host" => r.target.value \notin r.doc.protections.protected_hosts)

\* An issued command is accepted by an orchestrator exactly while it is valid
\* and only under the same rule and the same safeguards: a change of what is
\* protected since the decision refuses it (_validate_command, "Effective
\* policy hashes now include the shared safeguards").
CommandHonoured ==
  Given("request", LAMBDA r :
    Verdict(r, r.signals).outcome = "response_requested" =>
      \A doc \in {q.doc : q \in Requests}, delay \in {-61, -60, 0, r.doc.command_valid_for - 1,
                                                      r.doc.command_valid_for} :
        CommandAccepted(doc, {"key"}, Verdict(r, r.signals).command, r.now + delay)
        <=> /\ [doc EXCEPT !.policies = <<>>] = [r.doc EXCEPT !.policies = <<>>]
            /\ RuleOf(r.doc, r.policy) \in ToSet(doc.policies)
            /\ delay \in -60 .. r.doc.command_valid_for - 1)

Respelled(signals) ==
  [i \in DOMAIN signals |-> [signals[i] EXCEPT !.target.spelling = "other"]]

\* The order of the signals and the spelling of their targets change neither
\* the verdict nor the idempotency key, so that a retry is recognised
\* (response/README.md, "do not create a new containment idempotency key").
KeyIgnoresOrder ==
  Given("request", LAMBDA r :
    /\ Verdict(r, Reverse(r.signals)).id = Verdict(r, r.signals).id
    /\ Verdict(r, Respelled(r.signals)).id = Verdict(r, r.signals).id
    /\ Verdict(r, Reverse(r.signals)).outcome = Verdict(r, r.signals).outcome)

\* What the decision engine issues is justified by its evidence, is one command
\* for one body of evidence, and is carried out under no other policy.
CommandFaithful == CommandIsJustified /\ CommandHonoured /\ KeyIgnoresOrder
-----------------------------------------------------------------------------
(* Compliance.                                                             *)

RunName == "run"

\* The artifacts of the tests of an audit, in the order of their names.
Artifacts(a) ==
  LET left(t) == ArtifactOf(a.catalog, t, a.tested, a.environment, RunName)
  IN  [k \in {k \in DOMAIN a.tests : left(a.tests[k]) # {}} |-> CHOOSE f \in left(a.tests[k]) : TRUE]

Passes(a) == Report(a.catalog, Artifacts(a), RunName, a.reported, TRUE, a.profile) = 0
Proven(a) == \E i \in DOMAIN a.catalog : applies_to_profile(a.catalog[i], a.profile)

\* A strict report passes only on the source and the settings its tests ran
\* against: no file differs, tracked or not (provenance.py, "this prevents a
\* stale PASS from surviving a local change that was never committed").
StrictReportIsCurrent ==
  Given("audit", LAMBDA a :
    (Passes(a) /\ Proven(a)) =>
      /\ a.tested.work = a.reported.work /\ a.tested.settings = a.reported.settings
      /\ ~a.tested.untracked /\ ~a.reported.untracked)

\* A strict report passes only if every control that applies was tested by the
\* test the catalog names for it, a different one for every control, and that
\* test passed in all its phases, recorded its observations and belongs to the
\* profile, so that Path A evidence never stands in for Path B (classify_phase_result, status_for, check_wiring).
StrictReportIsProven ==
  Given("audit", LAMBDA a :
    (Passes(a) /\ Wired(a.catalog, a.files)) =>
      \A i \in DOMAIN a.catalog : applies_to_profile(a.catalog[i], a.profile) =>
        \E k \in DOMAIN a.tests :
             LET t == a.tests[k]
             IN  /\ t.node.file = verifier_for(a.catalog[i], a.profile).file
                 /\ t.node.function = verifier_for(a.catalog[i], a.profile).function
                 /\ t.claims = a.catalog[i].id /\ t.call = "passed"
                 /\ t.runner = "pytest" =>
                      t.recorded /\ t.setup = "passed" /\ t.teardown = "passed"
                 /\ (t.runner = "audit") <=> (a.profile = "path-b"))

\* A strict report that passes shows that the named tests passed on what is
\* reported on.
StrictReportHolds == StrictReportIsCurrent /\ StrictReportIsProven
-----------------------------------------------------------------------------
(* Audit ledgers and credentials.                                          *)

\* The file and the ledger in memory accept the same calls and answer alike,
\* whatever was called before: the file replays a history into the other for
\* every event and counts requests by their number, not their state
\* (SQLiteAuditLedger, "shared semantics" in audit.py).
LedgersAgree ==
  Given("ledgers", LAMBDA l :
    /\ l.alike
    /\ l.memory.apply_intents = l.file.apply_intents
    /\ {[response_id |-> r, body |-> l.memory.commands[r]] : r \in DOMAIN l.memory.commands}
         = l.file.commands
    /\ \A r \in Response : MemoryEvents(l.memory, r) = FileEvents(l.file, r)
    /\ \A since \in 0 .. 2 : MemoryRequestedSince(l.memory, "policy", since)
                              = FileRequestedSince(l.file, "policy", since))

\* A rollback is only recorded of a response that was applied before or with
\* the intent of the action that may have happened, and nothing follows it
\* (validate_transition, "recovery requires an application or recorded action
\* intent").
RecoveryIsFounded ==
  Given("ledgers", LAMBDA l :
    \A r \in Response : LET history == FileEvents(l.file, r)
      IN  \A i \in DOMAIN history : history[i].state = "ROLLED_BACK" =>
            /\ i = Len(history)
            /\ history[i].action_intent \/ \E j \in 1 .. i - 1 : history[j].state = "APPLIED")

\* The recovery queue holds exactly the responses whose application was
\* claimed and that no event says were lifted, a failed one as well
\* (recovery_queue, "an intent with no APPLIED evidence may still have changed
\* a peer").
UnresolvedIsQueued ==
  Given("ledgers", LAMBDA l :
    \A r \in Response :
      r \in recovery_queue(l.file) <=>
        /\ r \in l.memory.apply_intents
        /\ \A i \in DOMAIN FileEvents(l.file, r) :
             FileEvents(l.file, r)[i].state \notin {"EXPIRED", "ROLLED_BACK"})

\* Both ledgers keep the same history, that history makes sense, and what it
\* leaves open can be found again.
LedgersFaithful == LedgersAgree /\ RecoveryIsFounded /\ UnresolvedIsQueued

\* A worker that takes its credential for current, so that its next call will
\* not read the file, has the token that is in the file, however often the
\* file was replaced while it was being read (_reload, "a worker that read the
\* key once would keep sending the invalidated one").
CredentialIsCurrent ==
  Given("credential", LAMBDA c :
    (c._stamp = c.file.stamp /\ c.file.token \notin {Malformed, NoFile}) => c._value = c.file.token)
-----------------------------------------------------------------------------
(* Firewalls.                                                              *)

\* What the ownership ledger and the adapter rely on (RawSet in ownership.py):
\* after an add a firewall has the address and after a removal it has not,
\* every other entry stays, and an address that is gone can be removed again.
\* The exception is an OPNsense network that begins with the address.
BackendsAreSets ==
  Given("firewall", LAMBDA i :
    LET now(entries) == [i.firewall EXCEPT !.entries = entries]
        a == i.address
        others == Without(i.firewall.entries, a)
    IN  \A added \in SetAdd(i.firewall, a, LifetimeOf(i.ttl)) :
          /\ Without(added, a) = others /\ SetContains(now(added), a) = {TRUE}
          /\ SetRemove(now(added), a) = {others} /\ SetRemove(now(others), a) = {others}
          /\ \/ SetContains(now(others), a) = {FALSE}
             \/ i.firewall.backend = "opnsense" /\ \E e \in others : e.address = a)

\* "Elements carry an nftables timeout so a dead orchestrator cannot leave a
\* permanent block" (transports/nftables.py): for every time to live a policy
\* may have, a working agent takes the address, holds it until the response
\* expires, and drops it by itself soon after.
BackstopHolds ==
  Given("firewall", LAMBDA i :
    (/\ i.firewall.backend = "nftables" /\ i.firewall.permitted /\ ~i.firewall.broken
     /\ ~i.address.special /\ ~HasHost(i.firewall.entries, i.address))
    => \E added \in SetAdd(i.firewall, i.address, LifetimeOf(i.ttl)) :
         /\ HasHost(LeftAfter(added, i.ttl), i.address)
         /\ ~HasHost(LeftAfter(added, i.ttl + BACKSTOP_GRACE_SECONDS), i.address))

\* Every backend is the set of addresses that the ownership ledger takes it for,
\* and the agent's gives an address up when nobody lifts it.
BackendsFaithful == BackendsAreSets /\ BackstopHolds
-----------------------------------------------------------------------------
(* Runs of the lab.                                                        *)

\* "Stages that depend on a failed one are reported as BLOCKED, everything
\* else keeps going" (try_linux.py): a stage is held back exactly when a stage
\* it needs, directly or through others that were selected, failed, where what
\* the tests find does not count.
FailureBlocks ==
  Given("trial", LAMBDA run :
    run.options.only = {} =>
      \A i \in DOMAIN run.results :
        run.results[i] = "BLOCKED" <=>
          \E d \in run.above[i] :
            d \in DOMAIN run.results /\ run.results[d] = "FAIL" /\ ~Stages[d].finding)

\* A run that ended without an interrupt and exits with 0 left no selected
\* stage out and none of them failed or was held back ("ALL STAGES PASSED",
\* summarize).
ZeroMeansDone ==
  Given("trial", LAMBDA run :
    (/\ run.over \/ Left(run) = {}
     /\ summarize(run.results) = 0 /\ ~run.interrupted) =>
      \A i \in run.chosen : i \in DOMAIN run.results /\ run.results[i] \in {"PASS", "WARN", "SKIP"})

\* A run of the lab holds back what depends on a failure, and only that, and
\* does not report success over it.
LabRunFaithful == FailureBlocks /\ ZeroMeansDone
=============================================================================
