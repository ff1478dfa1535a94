------------------------- MODULE MCPublicationStatus -------------------------
(* Instances of PublicationStatus for TLC. *)
EXTENDS PublicationStatus, TLC

Symmetric == Permutations(Inspectors)
=============================================================================
