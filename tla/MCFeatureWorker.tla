-------------------------- MODULE MCFeatureWorker --------------------------
(* Instances of the feature worker for TLC.                                *)
EXTENDS FeatureWorker

CONSTANTS a, b

\* At most two events of the first entity and one of every other.
MCMaxIngested == [e \in Entity |-> IF e = a THEN 2 ELSE 1]
=============================================================================
