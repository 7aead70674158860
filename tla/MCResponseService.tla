------------------------- MODULE MCResponseService -------------------------
(* Instances of the response service for TLC.                              *)
EXTENDS ResponseService, TLC

CONSTANTS r1, r2, t1, p1

\* All responses on one target.
MCOneTarget == [r \in Response |-> t1]
MCPolicyOf == [r \in Response |-> p1]
MCProtected == [c \in 1..Catalogs |-> {}]

\* Two responses on one target under one policy are interchangeable.
MCSymmetry == Permutations(Response)
===========================================================================
