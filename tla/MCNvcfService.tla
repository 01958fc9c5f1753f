---------------------------- MODULE MCNvcfService ----------------------------
(* Small instances of the service for TLC. *)
EXTENDS NvcfServiceProps, TLC

Symmetry == Permutations(Workers) \cup Permutations(Reqs)
=============================================================================
