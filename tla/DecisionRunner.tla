--------------------------- MODULE DecisionRunner ---------------------------
(***************************************************************************)
(* The decision runner of response/service/decision_runner.py: it reads    *)
(* the anomalies of soc-ai-* in the order of (@timestamp, event.id), asks  *)
(* the decision engine for a verdict on the telemetry of the moment,       *)
(* appends the verdict to soc-response-* and, in enforce mode, delivers    *)
(* the signed command.  Its cursor and its outcome ledger are in SQLite.   *)
(*                                                                         *)
(* A step ends at each commit and at each request, where a crash tells     *)
(* outcomes apart.                                                         *)
(***************************************************************************)
EXTENDS Decision, FiniteSetsExt, Paging

CONSTANTS
  Anomaly,       \* event ids of anomalies above the runner's minimum score
  About,         \* [Anomaly -> the anomaly, target and policy the runner builds]
  Alert,         \* alerts that may be observed: [about, kind, id, severity, at]
  Intel,         \* anomalies whose target is on the threat intelligence list
  Doc,           \* the policy document
  AddressWorld,  \* address classes of the ipaddress library
  Key,           \* the signing key
  Limit,         \* anomalies handled in one pass
  TickLength,    \* seconds of one step of the clock
  MaxTicks,      \* bound: steps of the clock
  MaxFaults      \* bound: failed requests, lost answers and crashes

ASSUME RunnerAssumption ==
  /\ IsFiniteSet(Anomaly) /\ Anomaly \subseteq Nat
  /\ DOMAIN About = Anomaly
  /\ \A a, b \in Anomaly : About[a].anomaly.event_id = About[b].anomaly.event_id => a = b
  /\ CatalogLoads(Doc)
  /\ Limit \in Nat \ {0}
  /\ TickLength \in Nat /\ MaxTicks \in Nat /\ MaxFaults \in Nat

VARIABLES
  anomalies,  \* soc-ai-*: documents [id, at]
  telemetry,  \* alerts indexed so far
  now,        \* wall clock
  mode,       \* "observe" or "enforce"
  position,   \* DecisionState cursor, (@timestamp, event.id)
  outcomes,   \* DecisionState table `decisions`
  hits,       \* anomalies this pass has still to handle
  stage,      \* where the first of them stands
  verdict,    \* the verdict on it, once evaluated
  decisions,  \* soc-response-*: decision events
  commands,   \* commands the orchestrator accepted
  overtaken,  \* history: anomalies indexed behind the cursor or the pass
  faults      \* faults so far

ledgerVars == <<position, outcomes>>
passVars == <<hits, stage, verdict>>
worldVars == <<anomalies, telemetry, now, overtaken>>
vars == <<worldVars, mode, ledgerVars, passVars, decisions, commands, faults>>

NoVerdict == [outcome |-> "none", id |-> <<>>]

OutcomeName ==
  {"none", "unsupported_entity", "no_policy", "rejected", "anomaly_only", "alert",
   "store_only", "denied", "response_requested", "evidence_error", "delivery_failed"}

\* search_after: strictly after the cursor in the order of the sort key.
After(d, p) == d.at > p[1] \/ (d.at = p[1] /\ d.id > p[2])

InitRunner ==
  /\ mode \in {"observe", "enforce"}
  /\ position = <<-1, 0>>
  /\ outcomes = [a \in Anomaly |-> "none"]
  /\ hits = <<>>
  /\ stage = "evaluate"
  /\ verdict = NoVerdict
  /\ decisions = {}
  /\ commands = {}

Init ==
  /\ anomalies = {}
  /\ telemetry = {}
  /\ now = 0
  /\ overtaken = {}
  /\ faults = 0
  /\ InitRunner

Fault ==
  /\ faults < MaxFaults
  /\ faults' = faults + 1
-----------------------------------------------------------------------------
(* The world.                                                              *)

Tick ==
  /\ now < MaxTicks * TickLength
  /\ now' = now + TickLength
  /\ UNCHANGED <<anomalies, telemetry, overtaken, mode, ledgerVars, passVars, decisions, commands, faults>>

\* A detector's alert about the target of an anomaly is indexed.
Observe(x) ==
  /\ x \notin telemetry
  /\ telemetry' = telemetry \cup {x}
  /\ UNCHANGED <<anomalies, now, overtaken, mode, ledgerVars, passVars, decisions, commands, faults>>

\* The last anomaly this pass has found, or the cursor.
Reached == IF hits = <<>> THEN position ELSE <<Last(hits).at, Last(hits).id>>

\* The enrichment worker indexes an anomaly, stamped when it was scored.
Index(a, at) ==
  /\ \A d \in anomalies : d.id # a
  /\ at <= now
  /\ LET d == [id |-> a, at |-> at]
     IN /\ anomalies' = anomalies \cup {d}
        /\ overtaken' = IF After(d, position) /\ After(d, Reached)
                        THEN overtaken ELSE overtaken \cup {a}
  /\ UNCHANGED <<telemetry, now, mode, ledgerVars, passVars, decisions, commands, faults>>
-----------------------------------------------------------------------------
(* The evidence.                                                           *)

MAX_SIGNALS_PER_TYPE == 3

\* Alerts of a kind about the target of an anomaly.
Seen(a, kind) == {x \in telemetry : x.about = a /\ x.kind = kind}

\* Suricata numbers severities from 1, the worst; policies expect the opposite.
AlertSeverity(n) == Max({0, 4 - n})
SeverityOf(x) == IF x.kind = "suricata" THEN AlertSeverity(x.severity) ELSE x.severity

\* x is ranked before y: worse, or as bad and earlier.
Before(x, y) ==
  IF x.severity # y.severity
  THEN (x.severity < y.severity) = (x.kind = "suricata")
  ELSE x.at < y.at \/ (x.at = y.at /\ x.id < y.id)

\* The most severe alerts, at most three.
Worst(alerts) ==
  {x \in alerts : Cardinality({y \in alerts : Before(y, x)}) < MAX_SIGNALS_PER_TYPE}

Signal(a, kind, reference, severity, count, at) ==
  [type |-> kind, reference |-> reference, severity |-> severity, count |-> count,
   observed_at |-> at, target |-> About[a].target]

\* One signal for each of the worst alerts, in an order that the engine does
\* not look at.
AlertSignals(a, kind) ==
  LET worst == SetToSeq(Worst(Seen(a, kind)))
  IN  [i \in DOMAIN worst |-> Signal(a, kind, <<"event", worst[i].id>>,
                                     SeverityOf(worst[i]), Absent, worst[i].at)]

\* All interactions of a kind are one signal: their digest, the latest time,
\* the worst severity of a honeypot's, and the number of them.
CollapsedSignal(a, kind) ==
  LET seen == Seen(a, kind)
  IN  IF seen = {} THEN <<>>
      ELSE <<Signal(a, kind, <<kind, {x.id : x \in seen}>>,
                    IF kind = "honeypot" THEN Max({x.severity : x \in seen}) ELSE Absent,
                    Cardinality(seen), Max({x.at : x \in seen}))>>

\* A flow to a protected asset, or a target on the threat intelligence list.
ContextSignal(a, kind, holds) ==
  IF holds THEN <<Signal(a, kind, <<kind, a>>, Absent, Absent, About[a].anomaly.observed_at)>>
  ELSE <<>>

\* _signals.
Signals(a) ==
  AlertSignals(a, "suricata") \o CollapsedSignal(a, "honeypot")
    \o AlertSignals(a, "wazuh") \o CollapsedSignal(a, "authentication")
    \o ContextSignal(a, "threat_intel", a \in Intel)
    \o ContextSignal(a, "protected_asset", Seen(a, "protected_asset") # {})
-----------------------------------------------------------------------------
(* run_once and handle.                                                    *)

\* Mutant: the search resumes after the time of the cursor.
PendingLater == {d \in anomalies : d.at > position[1]}

\* What the search returns when it resumes after the cursor.
Pending == {d \in anomalies : After(d, position)}

\* The next anomalies in the order of the index, at most `Limit`.
run_once ==
  /\ hits = <<>>
  /\ Pending # {}
  /\ hits' \in FirstOf(Pending, Limit, LAMBDA c, d : After(d, <<c.at, c.id>>))
  /\ stage' = "evaluate"
  /\ verdict' = NoVerdict
  /\ UNCHANGED <<worldVars, mode, ledgerVars, decisions, commands, faults>>

Current == Head(hits).id

\* A retryable failure ends the pass; the cursor stays before this anomaly.
Break ==
  /\ hits' = <<>>
  /\ stage' = "evaluate"
  /\ verdict' = NoVerdict

\* DecisionState.record, after which the cursor moves.
Record(outcome) ==
  /\ outcomes' = [outcomes EXCEPT ![Current] = outcome]
  /\ stage' = "advance"
  /\ UNCHANGED <<hits, verdict>>

\* Mutant: every attempt has an idempotency key of its own.
IdentityPerAttempt(material) ==
  IF material = <<>> THEN <<>>
  ELSE [anomaly |-> material.anomaly, signals |-> material.signals, attempt |-> faults]

\* What the decision event id and the idempotency key tell apart: the policy
\* and the target follow from the anomaly.
Identity(material) ==
  IF material = <<>> THEN <<>>
  ELSE [anomaly |-> material.anomaly, signals |-> material.signals]

\* In observe mode an eligible verdict becomes an analyst alert.
Downgraded(outcome) ==
  IF outcome = "response_requested" /\ mode = "observe" THEN "alert" ELSE outcome

\* Why an anomaly is not evaluated: its entity is no target, or no policy is
\* configured for that type of target.
Unanswerable(a) ==
  IF About[a].target.type = "none" THEN "unsupported_entity"
  ELSE IF About[a].policy = "none" THEN "no_policy" ELSE "none"

\* What the engine says of an anomaly and the signals of the moment.
Verdict(a, signals) ==
  IF Unanswerable(a) # "none" THEN [outcome |-> Unanswerable(a), id |-> <<>>]
  ELSE LET result == Evaluate(Doc, AddressWorld, About[a].policy, About[a].anomaly,
                              signals, About[a].target, now, Key)
       IN  [outcome |-> Downgraded(result.outcome), id |-> Identity(result.id)]

\* Collect the signals and evaluate; a verdict without a decision event is
\* recorded at once.
Evaluated ==
  /\ hits # <<>> /\ stage = "evaluate"
  /\ \E signals \in {Signals(Current)} :
       \E v \in {Verdict(Current, signals)} :
         \/ /\ v.id = <<>>
            /\ Record(v.outcome)
         \/ /\ v.id # <<>>
            /\ verdict' = v
            /\ stage' = "write"
            /\ UNCHANGED <<hits, outcomes>>
  /\ UNCHANGED <<worldVars, mode, position, decisions, commands, faults>>

\* Mutant: the anomaly whose evidence could not be read is passed over.
EvidenceFailsSkips ==
  /\ hits # <<>> /\ stage = "evaluate"
  /\ Fault
  /\ stage' = "advance"
  /\ UNCHANGED <<worldVars, mode, ledgerVars, hits, verdict, decisions, commands>>

\* The telemetry search fails: the pass ends, or the answer can never be
\* used and the anomaly is recorded as such.
EvidenceFails ==
  /\ hits # <<>> /\ stage = "evaluate"
  /\ Unanswerable(Current) = "none"
  /\ Fault
  /\ \/ Break /\ UNCHANGED outcomes
     \/ Record("evidence_error")
  /\ UNCHANGED <<worldVars, mode, position, decisions, commands>>

\* _write_decision: an event whose id exists is not replaced.
Written ==
  IF \E d \in decisions : d.id = verdict.id THEN decisions
  ELSE decisions \cup {verdict}

WriteDecision ==
  /\ hits # <<>> /\ stage = "write"
  /\ decisions' = Written
  /\ stage' = IF verdict.outcome = "response_requested" THEN "send" ELSE "record"
  /\ UNCHANGED <<worldVars, mode, ledgerVars, hits, verdict, commands, faults>>

\* Mutant: the command is sent although its decision event was not created.
WriteFailsUnseen ==
  /\ hits # <<>> /\ stage = "write"
  /\ Fault
  /\ stage' = "send"
  /\ UNCHANGED <<worldVars, mode, ledgerVars, hits, verdict, decisions, commands>>

WriteFails ==
  /\ hits # <<>> /\ stage = "write"
  /\ Fault
  /\ \/ decisions' \in {decisions, Written} /\ Break /\ UNCHANGED outcomes
     \/ UNCHANGED decisions /\ Record("delivery_failed")
  /\ UNCHANGED <<worldVars, mode, position, commands>>

\* Deliver the command; the orchestrator knows it by its idempotency key.
Send ==
  /\ hits # <<>> /\ stage = "send"
  /\ commands' = commands \cup {verdict.id}
  /\ stage' = "record"
  /\ UNCHANGED <<worldVars, mode, ledgerVars, hits, verdict, decisions, faults>>

\* Mutant: a failed delivery is taken for an accepted command.
SendFailsUnseen ==
  /\ hits # <<>> /\ stage = "send"
  /\ Fault
  /\ stage' = "record"
  /\ UNCHANGED <<worldVars, mode, ledgerVars, hits, verdict, decisions, commands>>

SendFails ==
  /\ hits # <<>> /\ stage = "send"
  /\ Fault
  /\ \/ /\ commands' \in {commands, commands \cup {verdict.id}}
        /\ Break /\ UNCHANGED outcomes
     \/ UNCHANGED commands /\ Record("delivery_failed")
  /\ UNCHANGED <<worldVars, mode, position, decisions>>

RecordVerdict ==
  /\ hits # <<>> /\ stage = "record"
  /\ Record(verdict.outcome)
  /\ UNCHANGED <<worldVars, mode, position, decisions, commands, faults>>

\* set_cursor, a commit of its own.
Advance ==
  /\ hits # <<>> /\ stage = "advance"
  /\ position' = <<Head(hits).at, Head(hits).id>>
  /\ hits' = Tail(hits)
  /\ stage' = "evaluate"
  /\ verdict' = NoVerdict
  /\ UNCHANGED <<worldVars, mode, outcomes, decisions, commands, faults>>

\* The process dies and is started again, possibly in the other mode.
Crash ==
  /\ hits # <<>>
  /\ Fault
  /\ Break
  /\ mode' \in {"observe", "enforce"}
  /\ UNCHANGED <<worldVars, ledgerVars, decisions, commands>>

Work == run_once \/ Evaluated \/ WriteDecision \/ Send \/ RecordVerdict \/ Advance

Faulty == EvidenceFails \/ WriteFails \/ SendFails \/ Crash

Next ==
  \/ Tick
  \/ \E x \in Alert : Observe(x)
  \/ \E a \in Anomaly, t \in 0..MaxTicks : Index(a, t * TickLength)
  \/ Work
  \/ Faulty

\* The runner is called in a loop by a service that is restarted.
Spec == Init /\ [][Next]_vars /\ WF_vars(Work)
-----------------------------------------------------------------------------
\* Every variable keeps to its values.
TypeOK ==
  /\ anomalies \subseteq [id: Anomaly, at: Nat] /\ telemetry \subseteq Alert
  /\ mode \in {"observe", "enforce"}
  /\ outcomes \in [Anomaly -> OutcomeName]
  /\ stage \in {"evaluate", "write", "send", "record", "advance"}
  /\ overtaken \subseteq Anomaly

\* An anomaly that was in the index before the runner passed its place has an
\* outcome once the cursor is past it, whatever fails in between: "nothing after
\* a retryable failure is skipped".
NothingSkipped ==
  \A d \in anomalies :
    ~After(d, position) /\ d.id \notin overtaken => outcomes[d.id] # "none"

\* The three records of a decision agree, whatever fails between them: every
\* command the orchestrator accepted has its decision event in soc-response-*,
\* appended before the command is sent, and an outcome "response_requested" in
\* the ledger means that the orchestrator accepted a command for this anomaly.
CommandIsRecorded ==
  /\ \A c \in commands : \E d \in decisions : d.id = c
  /\ \A a \in Anomaly :
       outcomes[a] = "response_requested" => \E c \in commands : c.anomaly = About[a].anomaly.event_id

\* An anomaly leads to a second command only after a delivery failed or its
\* answer was lost, and never to two commands on the same evidence, however
\* often it is tried: a retry carries the idempotency key of the first attempt
\* unless another alert was observed in between.
CommandsPerAnomaly ==
  \A a \in Anomaly :
    LET issued == {c \in commands : c.anomaly = About[a].anomaly.event_id}
        alerts == {x \in telemetry : x.about = a}
    IN  /\ Cardinality(issued) <= 1 + faults
        /\ Cardinality(issued) <= Cardinality(alerts) + (IF a \in Intel THEN 1 ELSE 0)

\* Every anomaly that is indexed ahead of the runner gets an outcome.
AnomaliesDecided ==
  \A a \in Anomaly :
    (\E d \in Pending : d.id = a /\ a \notin overtaken) ~> outcomes[a] # "none"
=============================================================================
