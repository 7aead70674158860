---------------------------- MODULE MCEnrichment ----------------------------
(* Instances of the enrichment worker for TLC.                             *)
EXTENDS Enrichment

CONSTANTS m1, m2
=============================================================================
