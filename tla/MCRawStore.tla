------------------------------ MODULE MCRawStore ------------------------------
(* Small instances of RawStore for TLC. *)
EXTENDS RawStore, TLC

Symmetry == Permutations(Snapshots) \cup Permutations(Writers)
=============================================================================
