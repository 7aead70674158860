--------------------------- MODULE MCOrchestrator ---------------------------
(* Instances of the orchestrator for TLC.                                  *)
EXTENDS Orchestrator

CONSTANTS r1, r2, r3, t1, t2, p1

\* Two responses that compete for a target and a third one on another.
MCTargetOf == [r \in Response |-> IF r = r3 THEN t2 ELSE t1]
MCPolicyOf == [r \in Response |-> p1]

\* Nothing is protected at first; the second catalog protects t1.
MCProtected == [c \in 1..Catalogs |-> IF c = 2 THEN {t1} ELSE {}]
=============================================================================
