-------------------------- MODULE MCDesktopWorkflow --------------------------
(* Small instances of DesktopWorkflow for TLC. *)
EXTENDS DesktopWorkflow, TLC

\* Accounts and projection runs are interchangeable in the safety runs.
Symmetry == Permutations(Accounts) \cup Permutations(Bundles)
=============================================================================
