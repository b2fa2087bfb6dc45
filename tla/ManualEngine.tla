----------------------------- MODULE ManualEngine -----------------------------
(***************************************************************************)
(* The comparator with the engine its workers run                          *)
(* (desktop_app/manual_scenario_engine.py): a context is an account with   *)
(* its prices, a package is a set of transfers, and what is legal is what  *)
(* _package accepts under SquadRules.                                      *)
(***************************************************************************)
EXTENDS ManualComparator, SquadRules

CONSTANTS
  Account,   \* per context: the planning state
  Projected, \* per context: the players with a projection for all three gameweeks
  Outs, Ins  \* per package: its transfers

\* K between 0 and 5: max_transfers_per_action of the engine's validator.
EngineLimit == 5

\* _package: a valid current squad, a final squad that is projected completely, and no
\* transfers or a package that can be made.
EnginePackage(s, projected, outs, ins) ==
  /\ ValidSquad(s.squad, s.free)
  /\ Exchange(s, outs, ins) \subseteq projected
  /\ (outs = {} /\ ins = {}) \/ CanMake(s, outs, ins, EngineLimit)

\* The worker of a context validates with its own account and projections.
EngineLegal ==
  {cp \in Contexts \X Packages :
     EnginePackage(Account[cp[1]], Projected[cp[1]], Outs[cp[2]], Ins[cp[2]])}

ASSUME EngineAssumption ==
  /\ Account \in [Contexts -> States] /\ Projected \in [Contexts -> SUBSET Players]
  /\ Outs \in [Packages -> SUBSET Players] /\ Ins \in [Packages -> SUBSET Players]
  /\ Outs[Hold] = {} /\ Ins[Hold] = {}
  /\ Legal = EngineLegal

\* The account the evaluated path goes on with.
Outcome(c, p) ==
  IF Outs[p] = {} THEN AfterHold(Account[c]) ELSE After(Account[c], Outs[p], Ins[p])

-----------------------------------------------------------------------------
LawfulOutcomes ==
  {cp \in Contexts \X Packages :
     LET t == Outcome(cp[1], cp[2]) IN
     /\ t.bank >= 0 /\ t.free \in 1..MaxFree
     /\ \A club \in Clubs : Cardinality(OfClub(t.squad, club)) <= ClubLimit
     /\ \A q \in Positions : Cardinality(InPosition(t.squad, q)) = Quota[q]}

FairTrades ==
  {cp \in Contexts \X Packages : Worth(Outcome(cp[1], cp[2])) = Worth(Account[cp[1]])}

\* Whatever was edited, switched, answered late or lost on the way, an evaluation on
\* the tab is of a package that leaves the account of its context a playable squad,
\* money in the bank and a free transfer count the rules know.
ShownIsPlayable == result # NoResult => <<result.context, result.package>> \in LawfulOutcomes

\* The simultaneous transfers of an evaluation on the tab neither make nor lose
\* money: with today's prices the next gameweek's account is worth what the present
\* one is, although owned players sell at another price than they are bought at.
ShownKeepsWorth == result # NoResult => <<result.context, result.package>> \in FairTrades

=============================================================================
