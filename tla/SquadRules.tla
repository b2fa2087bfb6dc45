------------------------------ MODULE SquadRules ------------------------------
(***************************************************************************)
(* The transfer rules every planner of the engine applies: the canonical   *)
(* squad check and prices (optimizer/core.py), the transfer packages of    *)
(* the strategic planner (strategy/strategic_planner_v3.py) and the two    *)
(* searches of the first optimizer.  No state: a planning state goes in, a *)
(* planning state or a set of packages comes out.                          *)
(*                                                                         *)
(* The numbers come from fpl_rules.yaml and are constants.  Forecasts,     *)
(* lineups and the ranking of the packages are left out.                   *)
(***************************************************************************)
EXTENDS Integers, FiniteSets, FiniteSetsExt

CONSTANTS
  Players,      \* the verified projection pool with the owned players
  Clubs,
  Positions,
  Club,         \* per player
  Position,     \* per player
  Quota,        \* per position: squad_count
  ClubLimit,    \* maximum_players_per_club
  MaxFree,      \* free_transfer_state.maximum
  Granted,      \* free_transfers_granted_per_gameweek
  NoQuote       \* selling_price is None

ASSUME RulesAssumption ==
  /\ IsFiniteSet(Players)
  /\ Club \in [Players -> Clubs] /\ Position \in [Players -> Positions]
  /\ Quota \in [Positions -> Nat]
  /\ ClubLimit \in Nat /\ MaxFree \in Nat \ {0} /\ Granted \in Nat \ {0}
  /\ NoQuote \notin Nat

\* SquadState; the rows of unowned players carry a purchase and a selling price too.
States == [squad : SUBSET Players, bank : Nat, free : Nat, purchase : [Players -> Nat],
           current : [Players -> Nat], selling : [Players -> Nat \cup {NoQuote}]]

-----------------------------------------------------------------------------
(* Prices and free transfers *)

\* selling_price: half of a rise, rounded down, and the whole of a fall.
SellingPrice(purchase, current) ==
  IF current <= purchase THEN current ELSE purchase + (current - purchase) \div 2

\* _sale: the quoted selling price of the account, else the computed one.
Sale(s, p) ==
  IF s.selling[p] # NoQuote THEN s.selling[p] ELSE SellingPrice(s.purchase[p], s.current[p])

\* next_free_transfers, without a chip.
NextFreeTransfers(free, k) ==
  LET kept == IF k < free THEN free - k ELSE 0 IN
  IF kept + Granted < MaxFree THEN kept + Granted ELSE MaxFree

BankAfter(s, outs, ins) ==
  s.bank + MapThenSumSet(LAMBDA p : Sale(s, p), outs)
         - MapThenSumSet(LAMBDA p : s.current[p], ins)

-----------------------------------------------------------------------------
(* Squads and packages *)

InPosition(S, q) == {p \in S : Position[p] = q}
OfClub(S, c) == {p \in S : Club[p] = c}

\* Defect: the club limit is not looked at.
ValidSquad_AnyClub(S, free) ==
  /\ \A q \in Positions : Cardinality(InPosition(S, q)) = Quota[q]
  /\ free \in 1..MaxFree

\* validate_squad: the quotas add up to the squad size.
ValidSquad(S, free) ==
  /\ \A q \in Positions : Cardinality(InPosition(S, q)) = Quota[q]
  /\ \A c \in Clubs : Cardinality(OfClub(S, c)) <= ClubLimit
  /\ free \in 1..MaxFree

Exchange(s, outs, ins) == (s.squad \ outs) \cup ins

\* _make_action: a package of at most limit transfers that are all made at once.
CanMake(s, outs, ins, limit) ==
  /\ Cardinality(outs) = Cardinality(ins) /\ Cardinality(ins) \in 1..limit
  /\ outs \subseteq s.squad /\ ins \subseteq Players \ s.squad
  /\ BankAfter(s, outs, ins) >= 0
  /\ ValidSquad(Exchange(s, outs, ins), s.free)

\* _evaluate_action: a player bought today was bought, and sells, at today's price.
After(s, outs, ins) ==
  [s EXCEPT !.squad = Exchange(s, outs, ins),
            !.bank = BankAfter(s, outs, ins),
            !.free = NextFreeTransfers(s.free, Cardinality(ins)),
            !.purchase = [p \in Players |-> IF p \in ins THEN s.current[p] ELSE s.purchase[p]],
            !.selling = [p \in Players |-> IF p \in ins THEN s.current[p] ELSE s.selling[p]]]

\* The hold action: only the free transfers change.
AfterHold(s) == [s EXCEPT !.free = NextFreeTransfers(s.free, 0)]

\* What the account is worth when everybody is sold.
Worth(s) == s.bank + MapThenSumSet(LAMBDA p : Sale(s, p), s.squad)

-----------------------------------------------------------------------------
(* The searches of the first optimizer, as the sets of the packages found *)

Roll == [outs |-> {}, ins |-> {}]

\* combinations of 1 to limit players.
Combinations(S, limit) == {T \in SUBSET S : Cardinality(T) \in 1..limit}

\* legacy_reference_search: every pair of combinations, checked as a squad.
ReferencePlans(s, pool, limit) ==
  {Roll} \cup
  {p \in [outs : Combinations(s.squad, limit), ins : Combinations(pool \ s.squad, limit)] :
     /\ Cardinality(p.outs) = Cardinality(p.ins)
     /\ ValidSquad(Exchange(s, p.outs, p.ins), s.free)
     /\ BankAfter(s, p.outs, p.ins) >= 0}

\* _structural_incoming: as many in every position as go out of it.
StructuralIncoming(outs, ins) ==
  \A q \in Positions : Cardinality(InPosition(ins, q)) = Cardinality(InPosition(outs, q))

\* The club counts after a package.
ClubCount(s, outs, ins, c) ==
  Cardinality(OfClub(s.squad, c)) - Cardinality(OfClub(outs, c)) + Cardinality(OfClub(ins, c))

\* optimized_search: only what fits the positions, with the cheap checks first.
OptimizedPlans(s, pool, limit) ==
  {Roll} \cup
  {p \in [outs : Combinations(s.squad, limit), ins : SUBSET (pool \ s.squad)] :
     /\ StructuralIncoming(p.outs, p.ins)
     /\ BankAfter(s, p.outs, p.ins) >= 0
     /\ \A c \in Clubs : ClubCount(s, p.outs, p.ins, c) <= ClubLimit
     /\ ValidSquad(Exchange(s, p.outs, p.ins), s.free)}

=============================================================================
