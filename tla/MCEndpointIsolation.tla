------------------------ MODULE MCEndpointIsolation ------------------------
(* Instances of endpoint isolation for TLC.                                *)
EXTENDS EndpointIsolation

CONSTANTS k1, k2
=============================================================================
