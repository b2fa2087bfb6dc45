--------------------------- MODULE MCSeasonReplay ---------------------------
(* A small instance of SeasonReplay for TLC. *)
EXTENDS SeasonReplay, TLC

CONSTANTS keeper, spare, back1, back2, new1, new2, red, blue, gk, def

\* Squads of a keeper and two defenders.
MCPlayers == {keeper, spare, back1, back2, new1, new2}
MCPosition == [p \in MCPlayers |-> IF p \in {keeper, spare} THEN gk ELSE def]
MCClub == [p \in MCPlayers |-> IF p \in {keeper, back1} THEN red ELSE blue]
MCQuota == gk :> 1 @@ def :> 2

\* Two gameweeks' prices: a defender rises by three, one of the pool falls by one.
MCPriceLists ==
  {[p \in MCPlayers |-> 5], back1 :> 8 @@ new1 :> 4 @@ [p \in MCPlayers |-> 5]}
MCListed == [p \in MCPlayers |-> 0]

\* The account at the start quotes one selling price.
MCStarts ==
  {[squad |-> {keeper, back1, back2}, bank |-> 0, free |-> 1,
    purchase |-> [p \in MCPlayers |-> IF p \in {keeper, back1, back2} THEN 5 ELSE 0],
    current |-> [p \in MCPlayers |-> 5],
    selling |-> [p \in MCPlayers |-> IF p = back2 THEN 6 ELSE NoQuote]]}

MCStartChips == Chips \X Halves
=============================================================================
