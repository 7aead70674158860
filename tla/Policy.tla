------------------------------- MODULE Policy -------------------------------
(***************************************************************************)
(* The response policy of response/policy.py: loading a policy document,   *)
(* the corroboration a rule requires and the targets that are never        *)
(* touched.  Scores are percentages and times are seconds.  A network is   *)
(* the set of its addresses.  A hash is the value it is the hash of.       *)
(***************************************************************************)
EXTENDS Integers, Sequences, FiniteSets, SequencesExt

SUPPORTED_ACTIONS == {"block_ip", "isolate_host"}
SUPPORTED_SIGNAL_TYPES ==
  {"suricata", "wazuh", "authentication", "threat_intel", "protected_asset", "honeypot"}

\* An optional number that a signal or a requirement does not carry.
Absent == -1

\* SignalRequirement.from_mapping.
RequirementLoads(r) ==
  /\ r.kind \in SUPPORTED_SIGNAL_TYPES
  /\ r.min_severity = Absent \/ r.min_severity >= 0
  /\ r.min_count = Absent \/ r.min_count >= 1

\* A number that is required must be there and be large enough.
AtLeast(value, minimum) == minimum = Absent \/ (value # Absent /\ value >= minimum)

\* SignalRequirement.matches.
Corroborates(r, signal) ==
  /\ signal.type = r.kind
  /\ AtLeast(signal.severity, r.min_severity)
  /\ AtLeast(signal.count, r.min_count)

\* ProtectionPolicy.assert_target_allowed.  `world` classifies addresses as
\* the ipaddress library does.
TargetAllowed(p, world, action, target) ==
  \/ /\ action = "block_ip"
     /\ target.type = "ip"
     /\ target.value \notin world.special \cup world.reserved
     /\ p.block_private => target.value \notin world.private
     /\ target.value \notin p.allowlisted
     /\ target.value \notin p.protected
  \/ /\ action = "isolate_host"
     /\ target.type = "host"
     /\ target.value \notin p.protected_hosts
     /\ target.value \in p.isolation_hosts

\* _require_positive_int and the upper bound that its callers add.
BoundedInt(value, minimum, maximum) ==
  value \in Int /\ value >= minimum /\ value <= maximum

\* ResponsePolicy.from_mapping.
RuleLoads(rule) ==
  /\ rule.enabled
  /\ rule.action \in SUPPORTED_ACTIONS
  /\ BoundedInt(rule.ttl, 60, 86400)
  /\ BoundedInt(rule.min_ai_score, 90, 100)
  /\ rule.require_any # {}
  /\ \A r \in rule.require_any : RequirementLoads(r)

\* PolicyCatalog.from_mapping: one invalid part rejects the whole document.
CatalogLoads(doc) ==
  /\ doc.dedup >= 60
  /\ BoundedInt(doc.command_valid_for, 30, 900)
  /\ BoundedInt(doc.evidence_max_age, 30, 86400)
  /\ doc.rate_limit.max_actions >= 1 /\ doc.rate_limit.window >= 1
  /\ doc.policies # <<>>
  /\ \A i \in DOMAIN doc.policies : RuleLoads(doc.policies[i])
  /\ \A i, j \in DOMAIN doc.policies :
       doc.policies[i].id = doc.policies[j].id => i = j

\* Everything but the rules: what the hash of each rule binds as well.
Safeguards(doc) ==
  [protections |-> doc.protections, rate_limit |-> doc.rate_limit, dedup |-> doc.dedup,
   command_valid_for |-> doc.command_valid_for, evidence_max_age |-> doc.evidence_max_age]

\* Mutant: the hash binds the rule alone.
RuleHash(doc, rule) == [rule |-> rule, safeguards |-> <<>>]

PolicyHash(doc, rule) == [rule |-> rule, safeguards |-> Safeguards(doc)]

\* PolicyCatalog.policy.
KnownPolicy(doc, id) == \E i \in DOMAIN doc.policies : doc.policies[i].id = id
RuleOf(doc, id) ==
  doc.policies[CHOOSE i \in DOMAIN doc.policies : doc.policies[i].id = id]
=============================================================================
