---------------------------- MODULE MCBlocklist ----------------------------
(* Instances of the blocklist adapter for TLC.                             *)
EXTENDS Blocklist

CONSTANTS k1, k2
=============================================================================
