-------------------------- MODULE MCDecisionRunner --------------------------
(* Instances of the decision runner for TLC.                               *)
EXTENDS DecisionRunner

Ip(v) == [type |-> "ip", value |-> v, spelling |-> "canonical"]

MCWorld == [special |-> {"loopback"}, reserved |-> {}, private |-> {"inside"}]

MCDoc ==
  [protections |-> [allowlisted |-> {}, protected |-> {"server"}, block_private |-> FALSE,
                    protected_hosts |-> {}, isolation_hosts |-> {}],
   rate_limit |-> [max_actions |-> 5, window |-> 300], dedup |-> 900,
   command_valid_for |-> 300, evidence_max_age |-> 900,
   policies |-> <<[id |-> "COR-001", enabled |-> TRUE, action |-> "block_ip", ttl |-> 900,
                   min_ai_score |-> 90,
                   require_any |-> {[kind |-> "suricata", min_severity |-> 3, min_count |-> Absent],
                                    [kind |-> "threat_intel", min_severity |-> Absent,
                                     min_count |-> Absent]}]>>]

\* The first anomaly may be answered; the second is on the threat intelligence
\* list but protected.
MCAbout ==
  [a \in Anomaly |->
     LET t == IF a = 2 THEN Ip("server") ELSE Ip("inside")
     IN [target |-> t, policy |-> "COR-001",
         anomaly |-> [event_id |-> <<"event", a>>, score |-> 95, threshold |-> 80,
                      is_anomaly |-> TRUE, observed_at |-> 0, target |-> t]]]

MCAlert ==
  {[about |-> 1, kind |-> "suricata", id |-> 11, severity |-> 1, at |-> 0],
   [about |-> 1, kind |-> "honeypot", id |-> 12, severity |-> 5, at |-> 0]}
=============================================================================
