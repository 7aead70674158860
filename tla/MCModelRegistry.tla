--------------------------- MODULE MCModelRegistry ---------------------------
(* Instances of the model registry for TLC.                                *)
EXTENDS ModelRegistry, TLC

CONSTANT l1

\* All models but l1 meet the policy.
MCGood == (Model \ {l1}) \X Dataset

\* Directories and processes are interchangeable.
Interchangeable == Permutations(Dir) \cup Permutations(Job)
=============================================================================
