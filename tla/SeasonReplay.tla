------------------------------ MODULE SeasonReplay ------------------------------
(***************************************************************************)
(* The replay of a season (simulate_season of validation/backtesting.py)   *)
(* with the decisions of the first optimizer (recommend of                 *)
(* optimizer/core.py): an account is carried from gameweek to gameweek     *)
(* through new prices, transfers and chips.                                *)
(*                                                                         *)
(* Forecasts decide which lawful package or squad is taken, so any of them *)
(* may be.  A missing price or projection and a chip that is not available *)
(* raise and end the replay: there is no further step.                     *)
(***************************************************************************)
EXTENDS SquadRules

CONSTANTS
  Starts,           \* the accounts a replay may begin with
  StartChips,       \* ChipState at the start: pairs of a chip and a half
  Wildcard, FreeHit,
  PlayerChips,      \* bench boost and triple captain
  NoChip,           \* no chip is played in a gameweek
  FirstHalf,        \* chip_periods.first_half.gameweeks.through
  Retaining,        \* the chips with banked_transfers_retained
  ResetTo,          \* reset_to of the others
  PriceLists,       \* the prices a gameweek may bring
  Listed,           \* per player: the purchase price in its row of the pool
  MaxTransfers,     \* max_transfers of recommend
  LastGameweek      \* bound

Chips == {Wildcard, FreeHit} \cup PlayerChips
Halves == {"h1", "h2"}

ASSUME ReplayAssumption ==
  /\ Wildcard # FreeHit /\ {Wildcard, FreeHit} \cap PlayerChips = {} /\ NoChip \notin Chips
  /\ StartChips \subseteq Chips \X Halves
  /\ FirstHalf \in Nat /\ LastGameweek \in Nat /\ MaxTransfers \in Nat
  /\ ResetTo \in 1..MaxFree /\ ResetTo <= Granted
  /\ PriceLists \subseteq [Players -> Nat] /\ Listed \in [Players -> Nat]
  /\ \A s \in Starts : s \in States /\ ValidSquad(s.squad, s.free)

VARIABLES
  account,      \* state: what the replay carries on
  gameweek,     \* of the last step, 0 before the first
  chips,        \* the flags of ChipState that are still set
  lastFreeHit,  \* last_free_hit_gameweek, 0 for None
  fielded,      \* decision_state of the last step
  played,       \* history: the chips of the steps and their gameweeks
  entitled      \* history: free transfers granted so far less those used

vars == <<account, gameweek, chips, lastFreeHit, fielded, played, entitled>>

Init ==
  /\ account \in Starts /\ fielded = account
  /\ gameweek = 0
  /\ chips = StartChips /\ lastFreeHit = 0
  /\ played = {}
  /\ entitled = account.free

-----------------------------------------------------------------------------
(* The account through a gameweek *)

\* Owned players get the prices of the day, and quoted selling prices are dropped.
Repriced(s, prices) == [s EXCEPT !.current = prices, !.selling = [p \in Players |-> NoQuote]]

\* decision_state: who comes in was bought at the price of the day, and who goes out is
\* a row of the pool again.
Decided(s, outs, ins, free) ==
  [s EXCEPT !.squad = Exchange(s, outs, ins), !.bank = BankAfter(s, outs, ins), !.free = free,
            !.purchase = [p \in Players |-> IF p \in ins THEN s.current[p]
                                            ELSE IF p \in s.squad \ outs THEN s.purchase[p]
                                            ELSE Listed[p]]]

\* Defect: the players are returned after a free hit and the money is not.
Carried_KeepsBank(s, decision, chip) ==
  IF chip = FreeHit THEN [s EXCEPT !.free = decision.free, !.bank = decision.bank] ELSE decision

\* The account after the gameweek: a free hit is undone but for the free transfers.
Carried(s, decision, chip) ==
  IF chip = FreeHit THEN [s EXCEPT !.free = decision.free] ELSE decision

\* next_free_transfers under a wildcard or free hit.
FreeTransfersAfterChip(free, chip) ==
  IF chip \notin Retaining THEN ResetTo ELSE IF free < MaxFree THEN free ELSE MaxFree

-----------------------------------------------------------------------------
(* Unlimited squads *)

\* The cost of every candidate: kept players cost what they would sell for.
Cost(s) == [p \in Players |-> IF p \in s.squad THEN Sale(s, p) ELSE s.current[p]]

\* Defect: funds are raised at the prices players are bought for.
Affordable_AtCurrent(s, squad) ==
  MapThenSumSet(LAMBDA p : Cost(s)[p], squad)
    <= s.bank + MapThenSumSet(LAMBDA p : s.current[p], s.squad)

\* The funds are the bank and what the whole squad sells for.
Affordable(s, squad) ==
  MapThenSumSet(LAMBDA p : Cost(s)[p], squad)
    <= s.bank + MapThenSumSet(LAMBDA p : Sale(s, p), s.squad)

\* Defect: the squad is built without the club constraints.
UnlimitedSquads_AnyClub(s) ==
  {squad \in SUBSET Players :
     /\ \A q \in Positions : Cardinality(InPosition(squad, q)) = Quota[q]
     /\ Affordable(s, squad)}

\* _unlimited_squad: the squads within quotas, club limit and money.
UnlimitedSquads(s) == {squad \in SUBSET Players : ValidSquad(squad, s.free) /\ Affordable(s, squad)}

-----------------------------------------------------------------------------
(* Chips *)

HalfOf(g) == IF g <= FirstHalf THEN "h1" ELSE "h2"

\* Defect: the last gameweek of the first half is taken for the second.
ChipAvailable_EarlyHalf(chip, g) ==
  /\ <<chip, IF g < FirstHalf THEN "h1" ELSE "h2">> \in chips
  /\ chip \in {Wildcard, FreeHit} => g # 1
  /\ chip = FreeHit => lastFreeHit # g - 1

\* chip_available
ChipAvailable(chip, g) ==
  /\ <<chip, HalfOf(g)>> \in chips
  /\ chip \in {Wildcard, FreeHit} => g # 1
  /\ chip = FreeHit => lastFreeHit # g - 1

\* The end of a step: the chip is spent in the half of the gameweek.
Play(chip, g) ==
  /\ gameweek' = g
  /\ chips' = chips \ {<<chip, HalfOf(g)>>}
  /\ lastFreeHit' = IF chip = FreeHit THEN g ELSE lastFreeHit
  /\ played' = IF chip = NoChip THEN played ELSE played \cup {<<chip, g>>}

-----------------------------------------------------------------------------
(* The steps *)

Later == (gameweek + 1)..LastGameweek

\* A gameweek with a package of transfers or none, and perhaps a player chip.
RegularStep(g, prices, chip) ==
  LET s == Repriced(account, prices) IN
  /\ ValidSquad(s.squad, s.free)
  /\ chip = NoChip \/ ChipAvailable(chip, g)
  /\ \E plan \in OptimizedPlans(s, Players, MaxTransfers) :
       LET k == Cardinality(plan.ins) IN
       /\ fielded' = Decided(s, plan.outs, plan.ins, NextFreeTransfers(s.free, k))
       /\ entitled' = entitled + Granted - (IF k < s.free THEN k ELSE s.free)
  /\ account' = fielded'
  /\ Play(chip, g)

\* A gameweek with a wildcard or a free hit.
UnlimitedStep(g, prices, chip) ==
  LET s == Repriced(account, prices) IN
  /\ ValidSquad(s.squad, s.free)
  /\ ChipAvailable(chip, g)
  /\ \E squad \in UnlimitedSquads(s) :
       fielded' = Decided(s, s.squad \ squad, squad \ s.squad, FreeTransfersAfterChip(s.free, chip))
  /\ account' = Carried(s, fielded', chip)
  /\ entitled' = entitled + Granted
  /\ Play(chip, g)

Next ==
  \E g \in Later, prices \in PriceLists :
    \/ \E chip \in PlayerChips \cup {NoChip} : RegularStep(g, prices, chip)
    \/ \E chip \in {Wildcard, FreeHit} : UnlimitedStep(g, prices, chip)

Spec == Init /\ [][Next]_vars

-----------------------------------------------------------------------------
(* Properties *)

\* Every variable has its type; in particular no decision overdraws the bank, for which
\* SquadState would raise in the middle of a season.
TypeOK ==
  /\ account \in States /\ fielded \in States
  /\ gameweek \in 0..LastGameweek /\ lastFreeHit \in 0..gameweek
  /\ chips \subseteq StartChips
  /\ played \subseteq Chips \X (1..gameweek)
  /\ entitled \in Nat

\* After any sequence of transfers, prices, wildcards and free hits the squad that plays
\* and the squad that is carried on are lawful, so that the next recommendation never
\* refuses the replay's own account; and whatever was rolled, paid with points, lost at
\* the cap or played through under a chip, no more free transfers are left than were
\* granted less those used.
AccountsAreLawful ==
  /\ ValidSquad(account.squad, account.free)
  /\ ValidSquad(fielded.squad, fielded.free)
  /\ account.free <= entitled

\* Availability is decided in the optimizer and the flag is cleared in the replay, each
\* from its own reading of the half: together they let a chip be played once in a half,
\* one chip in a gameweek, and no free hit right after another.
ChipsWithinRules ==
  \A a, b \in played :
    /\ a[1] = b[1] /\ HalfOf(a[2]) = HalfOf(b[2]) => a = b
    /\ a[2] = b[2] => a = b
    /\ a[1] = FreeHit /\ b[1] = FreeHit => a[2] # b[2] + 1

\* At the prices of the day the squad that plays and the account that is carried on
\* are both worth what the account was before the decision: neither a package, a
\* wildcard nor the return from a free hit makes or loses money.
OnlyPricesMakeMoney ==
  [][LET today == Worth(Repriced(account, account'.current)) IN
     Worth(fielded') = today /\ Worth(account') = today]_vars

\* Whatever account and prices a season leads to, the optimizer's search that prunes by
\* position, bank and club finds exactly the packages of the exhaustive one.
SearchIsExact ==
  \A prices \in PriceLists :
    LET s == Repriced(account, prices) IN
    OptimizedPlans(s, Players, MaxTransfers) = ReferencePlans(s, Players, MaxTransfers)

=============================================================================
