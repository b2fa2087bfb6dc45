-------------------------- MODULE MCProspectiveStudy --------------------------
(* Small instances of ProspectiveStudy for TLC. *)
EXTENDS ProspectiveStudy, TLC

\* Time 0 is before the deadlines, time 1 after them.
MCDeadline == [g \in Gameweeks |-> 1]

Symmetry == Permutations(Decisions) \cup Permutations(Evaluators)
=============================================================================
