--------------------------- MODULE MCOperationRun ---------------------------
(* Instances of OperationRun for TLC. *)
EXTENDS OperationRun, TLC

Symmetric == Permutations(Workers) \cup Permutations(Items) \cup Permutations(Inspectors)
=============================================================================
