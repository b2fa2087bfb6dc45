--------------------------- MODULE MCReplayArchive ---------------------------
(* Small instances of ReplayArchive for TLC. *)
EXTENDS ReplayArchive, TLC

\* Two moments before the deadline, so that captures can differ in time.
MCDeadline == [g \in Gameweeks |-> 2]

Symmetry == Permutations(Decisions) \cup Permutations(Capturers)
=============================================================================
