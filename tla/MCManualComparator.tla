------------------------- MODULE MCManualComparator -------------------------
(* Small instances of ManualEngine for TLC. *)
EXTENDS ManualEngine, TLC

CONSTANTS swap, keeper, spare, back1, back2, new1, new2, red, blue, gk, def

\* Squads of a keeper and two defenders.  Both defenders have risen since they were
\* bought, and the account quotes the selling price of one of them; the rows of the
\* pool are bought and sold at the current price.
MCPlayers == {keeper, spare, back1, back2, new1, new2}
MCPosition == [p \in MCPlayers |-> IF p \in {keeper, spare} THEN gk ELSE def]
MCClub == [p \in MCPlayers |-> IF p \in {keeper, back1} THEN red ELSE blue]
MCQuota == gk :> 1 @@ def :> 2

\* Without money in the bank; the second account has the keeper of the other club.
MCAccount ==
  [c \in 1..2 |->
    [squad |-> {IF c = 1 THEN keeper ELSE spare, back1, back2},
     bank |-> 0, free |-> c,
     purchase |-> [p \in MCPlayers |-> IF p \in {back1, back2} THEN 4 ELSE 5],
     current |-> back1 :> 7 @@ back2 :> 6 @@ [p \in MCPlayers |-> 5],
     selling |-> back1 :> NoQuote @@ [p \in MCPlayers |-> 5]]]

\* In the first context nothing is projected for the spare keeper.
MCProjected == 1 :> MCPlayers \ {spare} @@ 2 :> MCPlayers

\* Both defenders are exchanged: too many players of a club in the second account.
MCOuts == Hold :> {} @@ swap :> {back1, back2}
MCIns == Hold :> {} @@ swap :> {new1, new2}

\* Legal is what the engine accepts.
MCLegal == EngineLegal
=============================================================================
