------------------------ MODULE MCDetectionPipeline ------------------------
(* An instance of the detection pipeline for TLC.                          *)
EXTENDS DetectionPipeline

CONSTANT m1

MCWorld == [special |-> {}, reserved |-> {}, private |-> {}]

MCDoc ==
  [protections |-> [allowlisted |-> {}, protected |-> {}, block_private |-> FALSE,
                    protected_hosts |-> {}, isolation_hosts |-> {}],
   rate_limit |-> [max_actions |-> 5, window |-> 300], dedup |-> 900,
   command_valid_for |-> 300, evidence_max_age |-> 900,
   policies |-> <<[id |-> "COR-001", enabled |-> TRUE, action |-> "block_ip", ttl |-> 900,
                   min_ai_score |-> 90,
                   require_any |-> {[kind |-> "threat_intel", min_severity |-> -1,
                                     min_count |-> -1]}]>>]

MCAbout ==
  [a \in Vector |->
     LET t == [type |-> "ip", value |-> "inside", spelling |-> "canonical"]
     IN [target |-> t, policy |-> "COR-001",
         anomaly |-> [event_id |-> <<"event", a>>, score |-> 95, threshold |-> 80,
                      is_anomaly |-> TRUE, observed_at |-> 0, target |-> t]]]
=============================================================================
