-------------------------- MODULE SeasonReplay_proofs --------------------------
(***************************************************************************)
(* Proofs about the replay of a season of any length, for any players,     *)
(* prices, rules and chips.  What a single exchange of players does comes  *)
(* from SquadRules_proofs; here it is carried through prices, wildcards    *)
(* and free hits.                                                          *)
(***************************************************************************)
EXTENDS SeasonReplay, SquadRules_proofs

-----------------------------------------------------------------------------
(* The account through a gameweek *)

\* New prices leave a planning state with the same squad, in which nobody is quoted.
LEMMA RepricedIsState ==
  ASSUME NEW s \in States, NEW prices \in PriceLists
  PROVE LET t == Repriced(s, prices) IN
        /\ t \in States /\ t.squad = s.squad /\ t.bank = s.bank /\ t.free = s.free
        /\ t.current = prices /\ t.purchase = s.purchase
        /\ t.selling = [p \in Players |-> NoQuote]
BY ReplayAssumption DEF Repriced, States

\* Without quotes, a decision whose bank is not overdrawn is a planning state that is
\* worth what the account was.
LEMMA DecidedIsWorthTheSame ==
  ASSUME NEW s \in States, s.selling = [p \in Players |-> NoQuote],
         NEW outs \in SUBSET s.squad, NEW ins \in SUBSET (Players \ s.squad), NEW free \in Nat,
         BankAfter(s, outs, ins) >= 0
  PROVE LET t == Decided(s, outs, ins, free) IN
        /\ t \in States /\ t.squad = Exchange(s, outs, ins) /\ t.free = free
        /\ t.current = s.current /\ Worth(t) = Worth(s)
<1> DEFINE t == Decided(s, outs, ins, free)
           kept == s.squad \ outs
           bought == [p \in Players |-> IF p \in ins THEN s.current[p]
                                        ELSE IF p \in s.squad \ outs THEN s.purchase[p]
                                        ELSE Listed[p]]
<1>1. /\ s.squad \in SUBSET Players /\ s.purchase \in [Players -> Nat]
      /\ s.current \in [Players -> Nat]
  BY DEF States
<1>2. bought \in [Players -> Nat]
  BY <1>1, ReplayAssumption
<1>3. t.selling = s.selling /\ t.current = s.current /\ t.squad = Exchange(s, outs, ins)
      /\ t.bank = BankAfter(s, outs, ins) /\ t.free = free /\ t.purchase = bought
  BY DEF Decided, States
<1>a. t.bank \in Nat /\ t.squad \in SUBSET Players => t \in States
  BY <1>2 DEF Decided, States
<1> HIDE DEF t
<1>4. ASSUME NEW p \in Exchange(s, outs, ins)
      PROVE Sale(t, p) = IF p \in ins THEN s.current[p] ELSE Sale(s, p)
  <2>1. p \in Players /\ (p \in ins \/ p \in kept) /\ s.selling[p] = NoQuote
    BY <1>1, <1>4 DEF Exchange
  <2>2. bought[p] = IF p \in ins THEN s.current[p] ELSE s.purchase[p]
    BY <2>1
  <2>3. SellingPrice(s.current[p], s.current[p]) = s.current[p]
    BY <1>1, <2>1, SellingPriceBounds
  <2> HIDE DEF bought
  <2> QED BY <1>3, <2>1, <2>2, <2>3 DEF Sale
<1>5. Worth(t) = Worth(s) /\ t.bank \in Int
  <2>1. t.squad = (s.squad \ outs) \cup ins /\ t.bank = BankAfter(s, outs, ins)
    BY <1>3 DEF Exchange
  <2>2. \A p \in t.squad : Sale(t, p) = IF p \in ins THEN s.current[p] ELSE Sale(s, p)
    BY <1>3, <1>4
  <2> QED BY <2>1, <2>2, ExchangeKeepsWorth
<1>6. t \in States
  <2>1. Exchange(s, outs, ins) \in SUBSET Players
    BY <1>1 DEF Exchange
  <2> QED BY <1>a, <1>3, <1>5, <2>1
<1>7. t.squad = Exchange(s, outs, ins) /\ t.free = free /\ t.current = s.current
  BY <1>3
<1> QED BY <1>5, <1>6, <1>7 DEF t

\* Returning from a free hit leaves the account worth the same.
LEMMA WorthIgnoresFree ==
  ASSUME NEW s \in States, NEW free \in Nat
  PROVE LET t == [s EXCEPT !.free = free] IN
        t \in States /\ t.squad = s.squad /\ t.free = free /\ t.current = s.current
        /\ Worth(t) = Worth(s)
<1> DEFINE t == [s EXCEPT !.free = free]
<1>1. /\ t \in States /\ t.squad = s.squad /\ t.free = free /\ t.current = s.current
      /\ t.bank = s.bank /\ t.selling = s.selling /\ t.purchase = s.purchase
      /\ s.squad \in SUBSET Players
  BY DEF States
<1> HIDE DEF t
<1>2. Sales(t) = Sales(s)
  BY <1>1 DEF Sales, Sale
<1>3. Worth(t) = Worth(s)
  BY <1>1, <1>2, BankAndWorth
<1> QED BY <1>1, <1>3 DEF t

-----------------------------------------------------------------------------
(* Unlimited squads *)

\* A squad that the money constraint accepts, in which the kept cost what they would
\* sell for and the whole old squad is sold, does not overdraw the bank.
LEMMA UnlimitedIsAffordable ==
  ASSUME NEW s \in States, NEW squad \in UnlimitedSquads(s)
  PROVE /\ Exchange(s, s.squad \ squad, squad \ s.squad) = squad
        /\ BankAfter(s, s.squad \ squad, squad \ s.squad) >= 0
<1> DEFINE kept == s.squad \cap squad
           outs == s.squad \ squad
           ins == squad \ s.squad
<1>1. /\ s.squad \in SUBSET Players /\ squad \in SUBSET Players /\ s.bank \in Nat
      /\ Affordable(s, squad)
  BY DEF States, UnlimitedSquads
<1>2. IsFiniteSet(kept) /\ IsFiniteSet(outs) /\ IsFiniteSet(ins) /\ outs \in SUBSET Players
  BY <1>1, FS_Subset, RulesAssumption
<1>3. \A p \in Players : s.current[p] \in Nat /\ Sales(s)[p] \in Nat /\ Sales(s)[p] = Sale(s, p)
  BY PricesAreNat
<1>4. \A p \in Players : Cost(s)[p] = IF p \in s.squad THEN Sales(s)[p] ELSE s.current[p]
  BY <1>3 DEF Cost
<1>5. Total(Cost(s), squad) <= s.bank + Total(Sales(s), s.squad)
  <2>1. Total(Cost(s), squad) <= s.bank + Proceeds(s, s.squad)
    BY <1>1 DEF Affordable, Total, Proceeds
  <2> QED BY <1>1, <2>1, ProceedsAreTotal
<1>6. squad = kept \cup ins /\ kept \cap ins = {} /\ s.squad = kept \cup outs
      /\ kept \cap outs = {} /\ kept \subseteq Players /\ ins \subseteq Players
      /\ kept \subseteq s.squad /\ ins \cap s.squad = {}
  BY <1>1
<1> HIDE DEF kept, outs, ins
<1>7. Total(Cost(s), squad) = Total(Cost(s), kept) + Total(Cost(s), ins)
  <2>1. \A p \in kept \cup ins : Cost(s)[p] \in Int
    BY <1>3, <1>4, <1>6
  <2> QED BY <1>2, <1>6, <2>1, SumSplits
<1>8. Total(Sales(s), s.squad) = Total(Sales(s), kept) + Total(Sales(s), outs)
  <2>1. \A p \in kept \cup outs : Sales(s)[p] \in Int
    BY <1>2, <1>3, <1>6
  <2> QED BY <1>2, <1>6, <2>1, SumSplits
<1>9. Total(Cost(s), kept) = Total(Sales(s), kept) /\ Total(Cost(s), ins) = Total(s.current, ins)
  <2>1. \A p \in kept : Cost(s)[p] = Sales(s)[p]
    BY <1>4, <1>6
  <2>2. \A p \in ins : Cost(s)[p] = s.current[p]
    BY <1>4, <1>6
  <2> QED BY <1>2, <2>1, <2>2, SumOfEquals
<1>10. /\ Total(Sales(s), kept) \in Int /\ Total(Sales(s), outs) \in Int
       /\ Total(s.current, ins) \in Int
  <2>1. /\ \A p \in kept : Sales(s)[p] \in Int
        /\ \A p \in outs : Sales(s)[p] \in Int
        /\ \A p \in ins : s.current[p] \in Int
    BY <1>2, <1>3, <1>6
  <2> QED BY <1>2, <2>1, SumIsInt
<1>11. BankAfter(s, outs, ins) = s.bank + Total(Sales(s), outs) - Total(s.current, ins)
  BY <1>1, <1>2, BankAndWorth
<1>12. BankAfter(s, outs, ins) >= 0
  BY <1>1, <1>5, <1>7, <1>8, <1>9, <1>10, <1>11
<1>13. Exchange(s, outs, ins) = squad
  BY <1>6 DEF Exchange
<1> QED BY <1>12, <1>13 DEF outs, ins

-----------------------------------------------------------------------------
(* One step *)

\* What the search of the optimizer lists can be made and keeps the squad lawful.
LEMMA PlansAreLawful ==
  ASSUME NEW s \in States, ValidSquad(s.squad, s.free),
         NEW plan \in OptimizedPlans(s, Players, MaxTransfers)
  PROVE /\ plan.outs \in SUBSET s.squad /\ plan.ins \in SUBSET (Players \ s.squad)
        /\ Cardinality(plan.ins) \in Nat
        /\ BankAfter(s, plan.outs, plan.ins) >= 0
        /\ ValidSquad(Exchange(s, plan.outs, plan.ins), s.free)
<1>1. s.squad \in SUBSET Players /\ s.bank \in Nat
  BY DEF States
<1>2. CASE plan = Roll
  <2>1. plan.outs = {} /\ plan.ins = {} /\ Exchange(s, {}, {}) = s.squad
    BY <1>2 DEF Roll, Exchange
  <2>2. Total(Sales(s), {}) = 0 /\ Total(s.current, {}) = 0
    BY FS_EmptySet, SumUnfolds
  <2>3. BankAfter(s, {}, {}) = s.bank
    BY <1>1, <2>2, BankAndWorth
  <2> QED BY <1>1, <2>1, <2>3, FS_EmptySet
<1>3. CASE plan # Roll
  <2>1. /\ plan \in [outs : Combinations(s.squad, MaxTransfers), ins : SUBSET (Players \ s.squad)]
        /\ BankAfter(s, plan.outs, plan.ins) >= 0
        /\ ValidSquad(Exchange(s, plan.outs, plan.ins), s.free)
    BY <1>3 DEF OptimizedPlans
  <2>2. plan.outs \in SUBSET s.squad /\ plan.ins \in SUBSET (Players \ s.squad)
    BY <2>1 DEF Combinations
  <2>3. Cardinality(plan.ins) \in Nat
    BY <1>1, <2>2, FS_Subset, FS_CardinalityType, RulesAssumption
  <2> QED BY <2>1, <2>2, <2>3
<1> QED BY <1>2, <1>3

\* What a step leaves behind: lawful accounts under the prices of the day.
Sane(s, prices, today) ==
  s \in States /\ ValidSquad(s.squad, s.free) /\ s.current = prices /\ Worth(s) = today

\* A gameweek with transfers.
LEMMA RegularStepIsSane ==
  ASSUME account \in States, ValidSquad(account.squad, account.free),
         entitled \in Nat, account.free <= entitled,
         NEW prices \in PriceLists, NEW g, NEW chip, RegularStep(g, prices, chip)
  PROVE /\ Sane(fielded', prices, Worth(Repriced(account, prices))) /\ account' = fielded'
        /\ entitled' \in Nat /\ account'.free <= entitled'
<1> DEFINE s == Repriced(account, prices)
<1>1. /\ s \in States /\ s.squad = account.squad /\ s.free = account.free /\ s.current = prices
      /\ s.selling = [p \in Players |-> NoQuote] /\ ValidSquad(s.squad, s.free)
  BY RepricedIsState
<1> HIDE DEF s
<1>2. PICK plan \in OptimizedPlans(s, Players, MaxTransfers) :
        LET k == Cardinality(plan.ins) IN
        /\ fielded' = Decided(s, plan.outs, plan.ins, NextFreeTransfers(s.free, k))
        /\ entitled' = entitled + Granted - (IF k < s.free THEN k ELSE s.free)
  BY DEF RegularStep, s
<1> DEFINE k == Cardinality(plan.ins)
           free == NextFreeTransfers(s.free, k)
<1>3. /\ plan.outs \in SUBSET s.squad /\ plan.ins \in SUBSET (Players \ s.squad) /\ k \in Nat
      /\ BankAfter(s, plan.outs, plan.ins) >= 0
      /\ ValidSquad(Exchange(s, plan.outs, plan.ins), s.free)
  BY <1>1, PlansAreLawful
<1> HIDE DEF k
<1>4. free \in 1..MaxFree /\ s.free \in Nat
  BY <1>1, <1>3, FreeTransfersStayLawful DEF States
<1>5. /\ entitled' \in Nat /\ free <= entitled'
  <2>1. entitled' = entitled + Granted - (IF k < s.free THEN k ELSE s.free)
    BY <1>2 DEF k
  <2>2. s.free <= entitled /\ Granted \in Nat /\ MaxFree \in Nat
    BY <1>1, RulesAssumption
  <2>3. free = LET kept == IF k < s.free THEN s.free - k ELSE 0 IN
               IF kept + Granted < MaxFree THEN kept + Granted ELSE MaxFree
    BY DEF NextFreeTransfers
  <2> HIDE DEF free
  <2> QED BY <1>3, <1>4, <2>1, <2>2, <2>3
<1>6. fielded' = Decided(s, plan.outs, plan.ins, free) /\ account' = fielded'
  BY <1>2 DEF RegularStep, k
<1> HIDE DEF free
<1>7. /\ fielded' \in States /\ fielded'.squad = Exchange(s, plan.outs, plan.ins)
      /\ fielded'.free = free /\ fielded'.current = s.current /\ Worth(fielded') = Worth(s)
  BY <1>1, <1>3, <1>4, <1>6, DecidedIsWorthTheSame
<1>8. ValidSquad(fielded'.squad, fielded'.free)
  BY <1>3, <1>4, <1>7 DEF ValidSquad
<1> QED BY <1>1, <1>5, <1>6, <1>7, <1>8 DEF Sane, s

\* A gameweek with a wildcard or a free hit.
LEMMA UnlimitedStepIsSane ==
  ASSUME account \in States, ValidSquad(account.squad, account.free),
         entitled \in Nat, account.free <= entitled,
         NEW prices \in PriceLists, NEW g, NEW chip, UnlimitedStep(g, prices, chip)
  PROVE /\ Sane(fielded', prices, Worth(Repriced(account, prices)))
        /\ Sane(account', prices, Worth(Repriced(account, prices)))
        /\ entitled' \in Nat /\ account'.free <= entitled'
<1> DEFINE s == Repriced(account, prices)
           free == FreeTransfersAfterChip(s.free, chip)
<1>1. /\ s \in States /\ s.squad = account.squad /\ s.free = account.free /\ s.current = prices
      /\ s.selling = [p \in Players |-> NoQuote] /\ ValidSquad(s.squad, s.free)
  BY RepricedIsState
<1> HIDE DEF s
<1>2. PICK squad \in UnlimitedSquads(s) :
        fielded' = Decided(s, s.squad \ squad, squad \ s.squad, free)
  BY DEF UnlimitedStep, s
<1>3. /\ free \in 1..MaxFree /\ free \in Nat /\ free <= s.free + Granted
  <2>1. s.free \in 1..MaxFree /\ ResetTo \in 1..MaxFree /\ ResetTo <= Granted
        /\ MaxFree \in Nat /\ Granted \in Nat
    BY <1>1, ReplayAssumption, RulesAssumption DEF ValidSquad
  <2> QED BY <2>1 DEF FreeTransfersAfterChip
<1> HIDE DEF free
<1>4. ValidSquad(squad, s.free) /\ squad \in SUBSET Players
  BY DEF UnlimitedSquads
<1>5. /\ Exchange(s, s.squad \ squad, squad \ s.squad) = squad
      /\ BankAfter(s, s.squad \ squad, squad \ s.squad) >= 0
  BY <1>1, UnlimitedIsAffordable
<1>6. /\ fielded' \in States /\ fielded'.squad = squad
      /\ fielded'.free = free /\ fielded'.current = s.current /\ Worth(fielded') = Worth(s)
  <2>1. s.squad \ squad \in SUBSET s.squad /\ squad \ s.squad \in SUBSET (Players \ s.squad)
    BY <1>4
  <2> QED BY <1>1, <1>2, <1>3, <1>5, <2>1, DecidedIsWorthTheSame
<1>7. Sane(fielded', prices, Worth(s))
  BY <1>1, <1>3, <1>4, <1>6 DEF Sane, ValidSquad
<1>8. Sane(account', prices, Worth(s)) /\ account'.free = free
  <2>1. account' = IF chip = FreeHit THEN [s EXCEPT !.free = fielded'.free] ELSE fielded'
    BY DEF UnlimitedStep, Carried, s
  <2>2. CASE chip = FreeHit
    <3>1. account' = [s EXCEPT !.free = free]
      BY <1>6, <2>1, <2>2
    <3>2. /\ account' \in States /\ account'.squad = s.squad /\ account'.free = free
          /\ account'.current = s.current /\ Worth(account') = Worth(s)
      BY <1>1, <1>3, <3>1, WorthIgnoresFree
    <3> QED BY <1>1, <1>3, <3>2 DEF Sane, ValidSquad
  <2>3. CASE chip # FreeHit
    BY <1>6, <1>7, <2>1, <2>3
  <2> QED BY <2>2, <2>3
<1>9. entitled' = entitled + Granted /\ Granted \in Nat
  BY RulesAssumption DEF UnlimitedStep
<1>10. entitled' \in Nat /\ account'.free <= entitled'
  <2>1. s.free \in Nat /\ s.free <= entitled
    BY <1>1 DEF States
  <2> QED BY <1>3, <1>8, <1>9, <2>1
<1> QED BY <1>7, <1>8, <1>10 DEF s

-----------------------------------------------------------------------------
(* The season *)

\* The flags still set are of chips not played in their half, and the last free hit is
\* the last one played.
ChipInv ==
  /\ \A a \in played : <<a[1], HalfOf(a[2])>> \notin chips
  /\ \A a \in played : a[1] = FreeHit => a[2] <= lastFreeHit
  /\ ChipsWithinRules

IInv == TypeOK /\ AccountsAreLawful /\ ChipInv

LEMMA Initially == Init => IInv
<1> SUFFICES ASSUME Init PROVE IInv
  OBVIOUS
<1>1. account \in States /\ ValidSquad(account.squad, account.free) /\ account.free \in Nat
  BY ReplayAssumption DEF Init, States
<1> QED BY <1>1, ReplayAssumption
        DEF Init, IInv, TypeOK, AccountsAreLawful, ChipInv, ChipsWithinRules

\* Playing a chip that is available in a later gameweek keeps the flags in order.
LEMMA PlayKeepsChips ==
  ASSUME TypeOK, ChipInv, NEW g \in Later, NEW chip \in Chips \cup {NoChip},
         chip = NoChip \/ ChipAvailable(chip, g), Play(chip, g)
  PROVE /\ ChipInv'
        /\ gameweek' \in 0..LastGameweek /\ lastFreeHit' \in 0..gameweek'
        /\ chips' \subseteq StartChips /\ played' \subseteq Chips \X (1..gameweek')
<1>1. /\ g \in 1..LastGameweek /\ gameweek \in 0..LastGameweek /\ gameweek < g
      /\ lastFreeHit \in 0..gameweek /\ LastGameweek \in Nat
      /\ chips \subseteq StartChips /\ NoChip \notin Chips /\ FreeHit \in Chips
  BY ReplayAssumption DEF TypeOK, Later, Chips
<1>2. /\ gameweek' = g /\ chips' = chips \ {<<chip, HalfOf(g)>>}
      /\ lastFreeHit' = IF chip = FreeHit THEN g ELSE lastFreeHit
      /\ played' = IF chip = NoChip THEN played ELSE played \cup {<<chip, g>>}
  BY DEF Play
<1>3. \A a \in played : a[1] \in Chips /\ a[2] \in 1..gameweek /\ a = <<a[1], a[2]>>
  BY DEF TypeOK
<1>4. played' \subseteq Chips \X (1..g)
  <2>1. played \subseteq Chips \X (1..g)
    BY <1>1, <1>3
  <2>2. chip # NoChip => <<chip, g>> \in Chips \X (1..g)
    BY <1>1
  <2> QED BY <1>2, <2>1, <2>2
<1>5. CASE chip = NoChip
  <2>1. played' = played /\ lastFreeHit' = lastFreeHit /\ chips' \subseteq chips
    BY <1>1, <1>2, <1>5
  <2>2. ChipInv'
    BY <2>1 DEF ChipInv, ChipsWithinRules
  <2> QED BY <1>1, <1>2, <1>4, <2>1, <2>2
<1>6. CASE chip # NoChip
  <2> DEFINE new == <<chip, g>>
  <2>1. /\ <<chip, HalfOf(g)>> \in chips /\ (chip = FreeHit => lastFreeHit # g - 1)
        /\ chip \in Chips
    BY <1>6 DEF ChipAvailable
  <2>2. played' = played \cup {new} /\ new[1] = chip /\ new[2] = g
    BY <1>2, <1>6
  <2>3. \A a \in played' : <<a[1], HalfOf(a[2])>> \notin chips'
    BY <1>2, <2>2 DEF ChipInv
  <2>4. \A a \in played' : a[1] = FreeHit => a[2] <= lastFreeHit'
    <3>1. ASSUME NEW a \in played, a[1] = FreeHit
          PROVE a[2] <= lastFreeHit /\ a[2] <= g
      BY <1>1, <1>3, <3>1 DEF ChipInv
    <3> QED BY <1>1, <1>2, <2>2, <3>1
  <2>5. ASSUME NEW a \in played
        PROVE /\ a[2] < g
              /\ ~ (a[1] = chip /\ HalfOf(a[2]) = HalfOf(g))
              /\ a[1] = FreeHit /\ chip = FreeHit => g # a[2] + 1
    <3>1. a[2] < g /\ a[2] \in Nat
      BY <1>1, <1>3
    <3>2. <<a[1], HalfOf(a[2])>> \notin chips
      BY DEF ChipInv
    <3>3. a[1] = FreeHit => a[2] <= lastFreeHit
      BY DEF ChipInv
    <3> QED BY <1>1, <2>1, <3>1, <3>2, <3>3
  <2>6. ASSUME NEW a \in played', NEW b \in played'
        PROVE /\ a[1] = b[1] /\ HalfOf(a[2]) = HalfOf(b[2]) => a = b
              /\ a[2] = b[2] => a = b
              /\ a[1] = FreeHit /\ b[1] = FreeHit => a[2] # b[2] + 1
    <3>1. CASE a \in played /\ b \in played
      BY <3>1 DEF ChipInv, ChipsWithinRules
    <3>2. CASE a \in played /\ b = new
      <4>1. a[2] \in Nat /\ a[2] < g
        BY <1>3, <2>5, <3>2
      <4> QED BY <1>1, <2>2, <2>5, <3>2, <4>1
    <3>3. CASE a = new /\ b \in played
      <4>1. b[2] \in Nat /\ b[2] < g
        BY <1>3, <2>5, <3>3
      <4> QED BY <1>1, <2>2, <2>5, <3>3, <4>1
    <3>4. CASE a = new /\ b = new
      BY <1>1, <2>2, <3>4
    <3> QED BY <2>2, <3>1, <3>2, <3>3, <3>4
  <2>7. ChipsWithinRules'
    BY <2>6 DEF ChipsWithinRules, HalfOf
  <2>8. ChipInv'
    BY <2>3, <2>4, <2>7 DEF ChipInv, HalfOf
  <2> QED BY <1>1, <1>2, <1>4, <2>8
<1> QED BY <1>5, <1>6

\* Every step leads to lawful accounts that are worth what the old one was.
LEMMA StepIsSane ==
  ASSUME IInv, Next
  PROVE /\ IInv'
        /\ \E prices \in PriceLists :
             /\ Sane(account', prices, Worth(Repriced(account, prices)))
             /\ Sane(fielded', prices, Worth(Repriced(account, prices)))
<1>1. /\ account \in States /\ ValidSquad(account.squad, account.free)
      /\ entitled \in Nat /\ account.free <= entitled /\ TypeOK /\ ChipInv
  BY DEF IInv, TypeOK, AccountsAreLawful
<1>2. PICK g \in Later, prices \in PriceLists, chip \in Chips \cup {NoChip} :
        RegularStep(g, prices, chip) \/ UnlimitedStep(g, prices, chip)
  BY DEF Next, Chips
<1> DEFINE today == Worth(Repriced(account, prices))
<1>3. /\ Sane(account', prices, today) /\ Sane(fielded', prices, today)
      /\ entitled' \in Nat /\ account'.free <= entitled'
  <2>1. CASE RegularStep(g, prices, chip)
    <3>1. /\ Sane(fielded', prices, today) /\ account' = fielded'
          /\ entitled' \in Nat /\ account'.free <= entitled'
      BY <1>1, <2>1, RegularStepIsSane
    <3> HIDE DEF today
    <3> QED BY <3>1
  <2>2. CASE UnlimitedStep(g, prices, chip)
    BY <1>1, <2>2, UnlimitedStepIsSane
  <2> QED BY <1>2, <2>1, <2>2
<1>4. (chip = NoChip \/ ChipAvailable(chip, g)) /\ Play(chip, g)
  BY <1>2 DEF RegularStep, UnlimitedStep
<1>5. /\ ChipInv'
      /\ gameweek' \in 0..LastGameweek /\ lastFreeHit' \in 0..gameweek'
      /\ chips' \subseteq StartChips /\ played' \subseteq Chips \X (1..gameweek')
  BY <1>1, <1>4, PlayKeepsChips
<1>6. IInv'
  <2> HIDE DEF today
  <2>1. /\ account' \in States /\ ValidSquad(account'.squad, account'.free)
        /\ fielded' \in States /\ ValidSquad(fielded'.squad, fielded'.free)
    BY <1>3 DEF Sane
  <2>2. TypeOK'
    BY <1>3, <1>5, <2>1 DEF TypeOK
  <2>3. AccountsAreLawful'
    BY <1>3, <2>1 DEF AccountsAreLawful, ValidSquad, InPosition, OfClub
  <2> QED BY <1>3, <1>5, <2>2, <2>3 DEF IInv
<1> QED BY <1>3, <1>6

\* The inductive invariant: lawful accounts, flags that tell what was played, and no
\* more free transfers than were granted.
THEOREM SeasonInvariant == Spec => []IInv
<1>1. IInv /\ [Next]_vars => IInv'
  <2> SUFFICES ASSUME IInv, [Next]_vars PROVE IInv'
    OBVIOUS
  <2>1. CASE Next
    BY <2>1, StepIsSane
  <2>2. CASE UNCHANGED vars
    BY <2>2 DEF vars, IInv, TypeOK, AccountsAreLawful, ChipInv,
                ChipsWithinRules
  <2> QED BY <2>1, <2>2
<1> QED BY <1>1, Initially, PTL DEF Spec

\* The replay of a season of any length stays within its types: no decision that was
\* accepted overdraws the bank.
THEOREM SeasonTypeCorrect == Spec => []TypeOK
<1>1. IInv => TypeOK
  BY DEF IInv
<1> QED BY <1>1, SeasonInvariant, PTL

\* The squads that play and that are carried on are lawful in every gameweek, and free
\* transfers that were not granted are never left.
THEOREM SeasonAccountsLawful == Spec => []AccountsAreLawful
<1>1. IInv => AccountsAreLawful
  BY DEF IInv
<1> QED BY <1>1, SeasonInvariant, PTL

\* For any chips and any boundary of the halves, a chip is played at most once in a
\* half and a free hit never right after another.
THEOREM SeasonChipsWithinRules == Spec => []ChipsWithinRules
<1>1. IInv => ChipsWithinRules
  BY DEF IInv, ChipInv
<1> QED BY <1>1, SeasonInvariant, PTL

\* No decision of a season makes or loses money.
THEOREM SeasonWorth == Spec => OnlyPricesMakeMoney
<1> DEFINE today == Worth(Repriced(account, account'.current))
<1>1. IInv /\ [Next]_vars => [Worth(fielded') = today /\ Worth(account') = today]_vars
  <2> SUFFICES ASSUME IInv, Next
               PROVE Worth(fielded') = today /\ Worth(account') = today
    OBVIOUS
  <2>1. PICK prices \in PriceLists :
          /\ Sane(account', prices, Worth(Repriced(account, prices)))
          /\ Sane(fielded', prices, Worth(Repriced(account, prices)))
    BY StepIsSane
  <2>2. account'.current = prices
    BY <2>1 DEF Sane
  <2> QED BY <2>1, <2>2 DEF Sane
<1> QED BY <1>1, SeasonInvariant, PTL DEF Spec, OnlyPricesMakeMoney

\* The pruned search is exact on every account of a season, under any prices.
THEOREM SeasonSearchIsExact == Spec => []SearchIsExact
<1>1. IInv => SearchIsExact
  <2> SUFFICES ASSUME IInv, NEW prices \in PriceLists
               PROVE LET s == Repriced(account, prices) IN
                     OptimizedPlans(s, Players, MaxTransfers)
                       = ReferencePlans(s, Players, MaxTransfers)
    BY DEF SearchIsExact
  <2> DEFINE s == Repriced(account, prices)
  <2>1. account \in States /\ ValidSquad(account.squad, account.free)
    BY DEF IInv, TypeOK, AccountsAreLawful
  <2>2. s \in States /\ ValidSquad(s.squad, s.free) /\ MaxTransfers \in Nat
    BY <2>1, RepricedIsState, ReplayAssumption
  <2> HIDE DEF s
  <2>3. OptimizedPlans(s, Players, MaxTransfers) = ReferencePlans(s, Players, MaxTransfers)
    BY <2>2, SearchesAgree
  <2> QED BY <2>3 DEF s
<1> QED BY <1>1, SeasonInvariant, PTL

=============================================================================
