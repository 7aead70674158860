------------------------------ MODULE Decision ------------------------------
(***************************************************************************)
(* The decision engine of response/decision.py: an anomaly, independent    *)
(* signals and the policy give a verdict and, when every condition holds,  *)
(* a signed command (signing.py) that the orchestrator validates again.    *)
(*                                                                         *)
(* A target is a value in one of its spellings.  A signature is the pair   *)
(* of the key and what it signs.                                           *)
(***************************************************************************)
EXTENDS Policy

FutureSkew == 60

\* _validate_target: spellings of one address or host are the same target.
NormalTarget(t) == [type |-> t.type, value |-> t.value]
TargetValid(t) == t.type \in {"ip", "host"} /\ t.value # "invalid"

\* _validate_anomaly.
AnomalyValid(a) ==
  /\ a.score \in 0..100 /\ a.threshold \in 0..100
  /\ a.is_anomaly = (a.score >= a.threshold)
  /\ TargetValid(a.target)

\* _validate_independent_signals, on the list as it is given.
SignalsValid(signals) ==
  /\ \A i \in DOMAIN signals :
       /\ signals[i].type \in SUPPORTED_SIGNAL_TYPES
       /\ signals[i].severity >= Absent /\ signals[i].count >= Absent
       /\ TargetValid(signals[i].target)
  /\ \A i, j \in DOMAIN signals : signals[i].reference = signals[j].reference => i = j

\* Mutant: the signals are kept in the order of the request.
NormalSignalsOrdered(signals) ==
  [i \in DOMAIN signals |-> [signals[i] EXCEPT !.target = NormalTarget(@)]]

\* The normalized signals, sorted by type and by a reference that is unique:
\* a set determines the list.
NormalSignals(signals) ==
  {[signals[i] EXCEPT !.target = NormalTarget(@)] : i \in DOMAIN signals}

\* Evidence about another target, or the AI event under another name, is
\* refused before any verdict.
EvidenceBound(anomaly, signals, target) ==
  /\ NormalTarget(anomaly.target) = NormalTarget(target)
  /\ \A i \in DOMAIN signals :
       /\ NormalTarget(signals[i].target) = NormalTarget(target)
       /\ signals[i].reference # anomaly.event_id

\* Mutant: only the anomaly must be fresh.
FreshAnomaly(doc, anomaly, signals, now) ==
  anomaly.observed_at \in (now - doc.evidence_max_age)..(now + FutureSkew)

\* The freshness part of _rejection_reason.
Fresh(doc, anomaly, signals, now) ==
  \A t \in {anomaly.observed_at} \cup {signals[i].observed_at : i \in DOMAIN signals} :
    t \in (now - doc.evidence_max_age)..(now + FutureSkew)

Corroborated(rule, signals) ==
  \E r \in rule.require_any, i \in DOMAIN signals : Corroborates(r, signals[i])

\* _rejection_reason, in the order of its checks; "none" when the verdict is
\* to respond.
Rejection(doc, world, rule, anomaly, signals, target, now) ==
  IF ~Fresh(doc, anomaly, signals, now) THEN "freshness"
  ELSE IF ~anomaly.is_anomaly THEN "not anomalous"
  ELSE IF anomaly.score < rule.min_ai_score THEN "score"
  ELSE IF ~Corroborated(rule, signals) THEN "corroboration"
  ELSE IF ~TargetAllowed(doc.protections, world, rule.action, NormalTarget(target))
  THEN "protected" ELSE "none"

Outcome(rejection, anomaly) ==
  IF rejection = "none" THEN "response_requested"
  ELSE IF rejection = "protected" THEN "denied"
  ELSE IF anomaly.is_anomaly THEN "alert" ELSE "store_only"

\* What the decision event id, the request id and the idempotency key hash.
Material(doc, rule, anomaly, signals, target) ==
  [policy |-> PolicyHash(doc, rule), anomaly |-> anomaly.event_id,
   target |-> NormalTarget(target), signals |-> NormalSignals(signals)]

\* The signed command.
Command(doc, rule, anomaly, signals, target, now, key) ==
  LET body == [policy |-> rule.id, hash |-> PolicyHash(doc, rule),
               target |-> NormalTarget(target), action |-> rule.action,
               ttl |-> rule.ttl, key_id |-> key,
               idempotency_key |-> Material(doc, rule, anomaly, signals, target),
               issued_at |-> now, expires_at |-> now + doc.command_valid_for]
  IN  [body |-> body, signature |-> <<key, body>>]

NoCommand == [body |-> <<>>, signature |-> <<>>]

\* DecisionEngine.evaluate.  "rejected" is an exception; "anomaly_only" has
\* no decision event.
Evaluate(doc, world, id, anomaly, signals, target, now, key) ==
  LET rule == RuleOf(doc, id)
      rejection == Rejection(doc, world, rule, anomaly, signals, target, now)
  IN  IF \/ ~KnownPolicy(doc, id) \/ ~AnomalyValid(anomaly) \/ ~TargetValid(target)
         \/ ~SignalsValid(signals) \/ ~EvidenceBound(anomaly, signals, target)
      THEN [outcome |-> "rejected", id |-> <<>>, command |-> NoCommand]
      ELSE IF signals = <<>>
      THEN [outcome |-> "anomaly_only", id |-> <<>>, command |-> NoCommand]
      ELSE [outcome |-> Outcome(rejection, anomaly),
            id |-> Material(doc, rule, anomaly, signals, target),
            command |-> IF rejection = "none"
                        THEN Command(doc, rule, anomaly, signals, target, now, key)
                        ELSE NoCommand]

\* Ed25519CommandAuthenticator.verify with a key ring.
SignatureValid(command, ring, now) ==
  /\ command.body.key_id \in ring
  /\ command.signature = <<command.body.key_id, command.body>>
  /\ command.body.issued_at < command.body.expires_at
  /\ now < command.body.expires_at

\* ResponseOrchestrator._validate_command under the orchestrator's catalog.
CommandAccepted(doc, ring, command, now) ==
  /\ KnownPolicy(doc, command.body.policy)
  /\ LET rule == RuleOf(doc, command.body.policy)
     IN /\ command.body.hash = PolicyHash(doc, rule)
        /\ command.body.action = rule.action
        /\ command.body.ttl = rule.ttl
  /\ command.body.action = "block_ip" => command.body.target.type = "ip"
  /\ command.body.action = "isolate_host" => command.body.target.type = "host"
  /\ command.body.issued_at <= now + FutureSkew
  /\ command.body.expires_at - command.body.issued_at <= doc.command_valid_for
  /\ SignatureValid(command, ring, now)
=============================================================================
