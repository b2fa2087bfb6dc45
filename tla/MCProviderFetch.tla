---------------------------- MODULE MCProviderFetch ----------------------------
(* A small instance of ProviderFetch for TLC. *)
EXTENDS ProviderFetch, TLC

CONSTANTS archived, metered

\* A historical request that is immutable, and one charged to the quota with a ttl.
MCLifetime == (archived :> Forever) @@ (metered :> 1)

Symmetry == Permutations(Threads)
=============================================================================
