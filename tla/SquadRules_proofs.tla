--------------------------- MODULE SquadRules_proofs ---------------------------
(***************************************************************************)
(* Proofs about the transfer rules for any players, clubs, positions,      *)
(* prices and limits.  What a sum over players does follows by induction   *)
(* over the subsets of the players, in the form that a set of sets with a  *)
(* counterexample has a smallest one.                                      *)
(***************************************************************************)
EXTENDS SquadRules, FiniteSetTheorems, TLAPS

-----------------------------------------------------------------------------
(* Prices and free transfers *)

\* A player never sells above the price of the day, and below what was paid only when
\* the price is; who is bought today sells for today's price.
LEMMA SellingPriceBounds ==
  ASSUME NEW purchase \in Nat, NEW current \in Nat
  PROVE /\ SellingPrice(purchase, current) \in Nat
        /\ SellingPrice(purchase, current) <= current
        /\ purchase <= current => purchase <= SellingPrice(purchase, current)
        /\ SellingPrice(current, current) = current
BY DEF SellingPrice

\* After a package a bought player sells at the price it was bought for, and every
\* other one as before: no exchange changes what the kept players are worth.
LEMMA SalesAfter ==
  ASSUME NEW s \in States, NEW outs, NEW ins, NEW p \in Players
  PROVE Sale(After(s, outs, ins), p) = IF p \in ins THEN s.current[p] ELSE Sale(s, p)
<1> DEFINE t == After(s, outs, ins)
<1>1. /\ t.selling = [q \in Players |-> IF q \in ins THEN s.current[q] ELSE s.selling[q]]
      /\ t.purchase = [q \in Players |-> IF q \in ins THEN s.current[q] ELSE s.purchase[q]]
      /\ t.current = s.current
  BY DEF After, States
<1>2. s.current[p] \in Nat /\ s.current[p] # NoQuote
  BY RulesAssumption DEF States
<1> HIDE DEF t
<1>3. Sale(t, p) = IF p \in ins THEN s.current[p] ELSE Sale(s, p)
  BY <1>1, <1>2 DEF Sale
<1> QED BY <1>3 DEF t

\* The free transfers of the next gameweek are between 1 and the maximum, whatever
\* was spent.
LEMMA FreeTransfersStayLawful ==
  ASSUME NEW free \in Nat, NEW k \in Nat
  PROVE NextFreeTransfers(free, k) \in 1..MaxFree
BY RulesAssumption DEF NextFreeTransfers

-----------------------------------------------------------------------------
(* Sums of a function over a finite set *)

\* Among the subsets of a finite set that have some property, one is such that none
\* of its own parts has it.
LEMMA SmallestSubset ==
  ASSUME NEW S, IsFiniteSet(S), NEW Bad \in SUBSET (SUBSET S), Bad # {}
  PROVE \E T \in Bad : \A U \in SUBSET T : U # T => U \notin Bad
<1>1. IsWellFoundedOn(StrictSubsetOrdering(S), FiniteSubsetsOf(S))
  BY FS_StrictSubsetOrderingWellFounded
<1>2. FiniteSubsetsOf(S) = SUBSET S
  BY FS_FiniteSubsetsOfFinite
<1>3. PICK T \in Bad : \A U \in Bad : <<U, T>> \notin StrictSubsetOrdering(S)
  <2>1. Bad \subseteq FiniteSubsetsOf(S)
    BY <1>2
  <2> QED BY <1>1, <2>1, WFMin
<1>4. ASSUME NEW U \in SUBSET T, U # T, U \in Bad
      PROVE FALSE
  <2>1. <<U, T>> \in (SUBSET S) \X (SUBSET S)
    BY <1>4
  <2>2. <<U, T>>[1] \subseteq <<U, T>>[2] /\ <<U, T>>[1] # <<U, T>>[2]
    BY <1>4
  <2>3. <<U, T>> \in StrictSubsetOrdering(S)
    BY <2>1, <2>2 DEF StrictSubsetOrdering
  <2> QED BY <1>3, <1>4, <2>3
<1> QED BY <1>4

\* A sum of prices, in the form the lemmas are about.
Total(w, S) == MapThenSumSet(LAMBDA x : w[x], S)

\* The element a sum takes next.
Pick(S) == CHOOSE x \in S : TRUE

\* What the function that sums w over the subsets of S has to satisfy.
SumsUp(f, w, S) ==
  f = [s \in SUBSET S |-> IF s = {} THEN 0 ELSE w[Pick(s)] + f[s \ {Pick(s)}]]

LEMMA PickIn == ASSUME NEW S, S # {} PROVE Pick(S) \in S
BY DEF Pick

LEMMA SumIsChosen ==
  ASSUME NEW w, NEW S
  PROVE Total(w, S) = (CHOOSE f : SumsUp(f, w, S))[S]
BY Zenon DEF Total, MapThenSumSet, MapThenFoldSet, SumsUp, Pick

\* Two such functions agree where both are defined.
LEMMA SumsAgree ==
  ASSUME NEW w, NEW S, NEW T, NEW f, NEW g, SumsUp(f, w, S), SumsUp(g, w, T),
         IsFiniteSet(S), NEW A \in SUBSET S, A \in SUBSET T
  PROVE f[A] = g[A]
<1> DEFINE Bad == {U \in SUBSET A : f[U] # g[U]}
<1>1. SUFFICES ASSUME Bad # {} PROVE FALSE
  <2>1. A \in SUBSET A
    OBVIOUS
  <2> QED BY <2>1
<1>2. IsFiniteSet(A)
  BY FS_Subset
<1>3. PICK U \in Bad : \A V \in SUBSET U : V # U => V \notin Bad
  <2>1. Bad \in SUBSET (SUBSET A)
    OBVIOUS
  <2> HIDE DEF Bad
  <2> QED BY <1>1, <1>2, <2>1, SmallestSubset
<1>4. U \in SUBSET S /\ U \in SUBSET T /\ U \in SUBSET A
  OBVIOUS
<1>5. /\ f[U] = IF U = {} THEN 0 ELSE w[Pick(U)] + f[U \ {Pick(U)}]
      /\ g[U] = IF U = {} THEN 0 ELSE w[Pick(U)] + g[U \ {Pick(U)}]
  BY <1>4 DEF SumsUp
<1>6. CASE U = {}
  BY <1>3, <1>5, <1>6
<1>7. CASE U # {}
  <2>1. U \ {Pick(U)} \in SUBSET U /\ U \ {Pick(U)} # U
    BY <1>7, PickIn
  <2>2. f[U \ {Pick(U)}] = g[U \ {Pick(U)}]
    BY <1>3, <1>4, <2>1
  <2> QED BY <1>3, <1>5, <1>7, <2>2
<1> QED BY <1>6, <1>7

\* On a finite set there is one.
LEMMA SumsExist ==
  ASSUME NEW w, NEW S, IsFiniteSet(S)
  PROVE \E f : SumsUp(f, w, S)
<1> DEFINE Bad == {T \in SUBSET S : ~ \E f : SumsUp(f, w, T)}
<1>1. SUFFICES ASSUME Bad # {} PROVE FALSE
  OBVIOUS
<1>2. PICK T \in Bad : \A U \in SUBSET T : U # T => U \notin Bad
  <2>1. Bad \in SUBSET (SUBSET S)
    OBVIOUS
  <2> HIDE DEF Bad
  <2> QED BY <1>1, <2>1, SmallestSubset
<1> DEFINE at(U) == (CHOOSE f : SumsUp(f, w, U))[U]
           h == [U \in SUBSET T |-> IF U = {} THEN 0
                                    ELSE w[Pick(U)] + at(U \ {Pick(U)})]
<1>3. \A U \in SUBSET T : U # T => SumsUp(CHOOSE f : SumsUp(f, w, U), w, U)
  BY <1>2
<1>4. ASSUME NEW U \in SUBSET T, U # T
      PROVE at(U) = h[U]
  <2> DEFINE f == CHOOSE f : SumsUp(f, w, U)
             V == U \ {Pick(U)}
             g == CHOOSE g : SumsUp(g, w, V)
  <2>1. SumsUp(f, w, U)
    BY <1>3, <1>4
  <2>2. at(U) = IF U = {} THEN 0 ELSE w[Pick(U)] + f[V]
    <3>1. U \in SUBSET U
      OBVIOUS
    <3> QED BY <2>1, <3>1 DEF SumsUp
  <2>3. U # {} => f[V] = at(V)
    <3>1. SUFFICES ASSUME U # {} PROVE f[V] = g[V]
      OBVIOUS
    <3>2. V \in SUBSET T /\ V # T /\ V \in SUBSET U /\ V \in SUBSET V
      BY <1>4
    <3>3. SumsUp(g, w, V)
      BY <1>3, <3>2
    <3>4. IsFiniteSet(U)
      BY FS_Subset
    <3> HIDE DEF f, g, V
    <3> QED BY <2>1, <3>2, <3>3, <3>4, SumsAgree
  <2> QED BY <2>2, <2>3
<1>5. SumsUp(h, w, T)
  <2>1. ASSUME NEW U \in SUBSET T, U # {}
        PROVE at(U \ {Pick(U)}) = h[U \ {Pick(U)}]
    <3>1. U \ {Pick(U)} \in SUBSET T /\ U \ {Pick(U)} # T
      BY <2>1, PickIn
    <3> HIDE DEF at, h
    <3> QED BY <1>4, <3>1
  <2> HIDE DEF at
  <2> QED BY <2>1 DEF SumsUp
<1> HIDE DEF h
<1> QED BY <1>2, <1>5

\* A sum over a finite set takes out one element after the other.
LEMMA SumUnfolds ==
  ASSUME NEW w, NEW S, IsFiniteSet(S)
  PROVE Total(w, S) =
          IF S = {} THEN 0 ELSE w[Pick(S)] + Total(w, S \ {Pick(S)})
<1> DEFINE f == CHOOSE f : SumsUp(f, w, S)
           R == S \ {Pick(S)}
           g == CHOOSE g : SumsUp(g, w, R)
<1>1. SumsUp(f, w, S)
  BY SumsExist
<1>2. IsFiniteSet(R) /\ R \in SUBSET S /\ R \in SUBSET R /\ S \in SUBSET S
  BY FS_Subset
<1>3. SumsUp(g, w, R)
  BY <1>2, SumsExist
<1>4. Total(w, S) = f[S] /\ Total(w, R) = g[R]
  BY SumIsChosen
<1> HIDE DEF f, g
<1>5. f[S] = IF S = {} THEN 0 ELSE w[Pick(S)] + f[R]
  BY <1>1, <1>2 DEF SumsUp
<1>6. f[R] = g[R]
  <2> HIDE DEF R
  <2> QED BY <1>1, <1>2, <1>3, SumsAgree
<1> QED BY <1>4, <1>5, <1>6

\* The sum of integers is an integer.
LEMMA SumIsInt ==
  ASSUME NEW w, NEW S, IsFiniteSet(S), \A x \in S : w[x] \in Int
  PROVE Total(w, S) \in Int
<1> DEFINE Bad == {T \in SUBSET S : Total(w, T) \notin Int}
<1>1. SUFFICES ASSUME Bad # {} PROVE FALSE
  BY S \in SUBSET S
<1>2. PICK T \in Bad : \A U \in SUBSET T : U # T => U \notin Bad
  <2>1. Bad \in SUBSET (SUBSET S)
    OBVIOUS
  <2> HIDE DEF Bad
  <2> QED BY <1>1, <2>1, SmallestSubset
<1>3. T \in SUBSET S /\ IsFiniteSet(T)
  BY FS_Subset
<1>4. Total(w, T) =
        IF T = {} THEN 0 ELSE w[Pick(T)] + Total(w, T \ {Pick(T)})
  BY <1>3, SumUnfolds
<1>5. CASE T # {}
  <2>1. T \ {Pick(T)} \in SUBSET T /\ T \ {Pick(T)} # T /\ w[Pick(T)] \in Int
    BY <1>3, <1>5, PickIn
  <2>2. Total(w, T \ {Pick(T)}) \in Int
    BY <1>2, <1>3, <2>1
  <2> QED BY <1>4, <1>5, <2>1, <2>2
<1> QED BY <1>4, <1>5

\* Any element can be taken out of a sum first.
LEMMA SumTakesOut ==
  ASSUME NEW w, NEW S, IsFiniteSet(S), \A x \in S : w[x] \in Int, NEW x \in S
  PROVE Total(w, S) = w[x] + Total(w, S \ {x})
<1> DEFINE Bad == {T \in SUBSET S :
                     \E y \in T : Total(w, T) # w[y] + Total(w, T \ {y})}
<1>1. SUFFICES ASSUME Bad # {} PROVE FALSE
  BY S \in SUBSET S
<1>2. PICK T \in Bad : \A U \in SUBSET T : U # T => U \notin Bad
  <2>1. Bad \in SUBSET (SUBSET S)
    OBVIOUS
  <2> HIDE DEF Bad
  <2> QED BY <1>1, <2>1, SmallestSubset
<1>3. PICK y \in T : Total(w, T) # w[y] + Total(w, T \ {y})
  OBVIOUS
<1> DEFINE c == Pick(T)
<1>4. T \in SUBSET S /\ IsFiniteSet(T) /\ T # {} /\ c \in T
  BY FS_Subset, PickIn
<1>5. Total(w, T) = w[c] + Total(w, T \ {c})
  BY <1>4, SumUnfolds
<1> HIDE DEF c
<1>6. c # y
  BY <1>3, <1>5
<1>7. /\ Total(w, T \ {c}) = w[y] + Total(w, (T \ {c}) \ {y})
      /\ Total(w, T \ {y}) = w[c] + Total(w, (T \ {y}) \ {c})
  <2>1. /\ T \ {c} \in SUBSET T /\ T \ {c} # T /\ y \in T \ {c} /\ T \ {c} \in SUBSET S
        /\ T \ {y} \in SUBSET T /\ T \ {y} # T /\ c \in T \ {y} /\ T \ {y} \in SUBSET S
    BY <1>4, <1>6
  <2>2. T \ {c} \notin Bad /\ T \ {y} \notin Bad
    BY <1>2, <2>1
  <2> QED BY <2>1, <2>2
<1>8. PICK R : R = (T \ {c}) \ {y} /\ R = (T \ {y}) \ {c}
  OBVIOUS
<1>9. Total(w, R) \in Int /\ w[c] \in Int /\ w[y] \in Int
  <2>1. R \in SUBSET S /\ IsFiniteSet(R)
    BY <1>4, <1>8, FS_Subset
  <2> QED BY <1>4, <2>1, SumIsInt
<1>10. /\ Total(w, T) = w[c] + (w[y] + Total(w, R))
       /\ Total(w, T \ {y}) = w[c] + Total(w, R)
  <2> HIDE DEF Bad
  <2> QED BY <1>5, <1>7, <1>8
<1>11. Total(w, T) # w[y] + Total(w, T \ {y})
  BY <1>3
<1> QED BY ONLY <1>9, <1>10, <1>11

\* The sum over two sets without a common element.
LEMMA SumSplits ==
  ASSUME NEW w, NEW A, IsFiniteSet(A), NEW B, IsFiniteSet(B), A \cap B = {},
         \A x \in A \cup B : w[x] \in Int
  PROVE Total(w, A \cup B) = Total(w, A) + Total(w, B)
<1> DEFINE Bad == {T \in SUBSET B : Total(w, A \cup T)
                                      # Total(w, A) + Total(w, T)}
<1>1. SUFFICES ASSUME Bad # {} PROVE FALSE
  BY B \in SUBSET B
<1>2. PICK T \in Bad : \A U \in SUBSET T : U # T => U \notin Bad
  <2>1. Bad \in SUBSET (SUBSET B)
    OBVIOUS
  <2> HIDE DEF Bad
  <2> QED BY <1>1, <2>1, SmallestSubset
<1>3. T \in SUBSET B /\ IsFiniteSet(T) /\ Total(w, A) \in Int
  BY FS_Subset, SumIsInt
<1>0. Total(w, A \cup T) # Total(w, A) + Total(w, T)
  OBVIOUS
<1>4. CASE T = {}
  <2>1. Total(w, T) = 0 /\ A \cup T = A
    BY <1>3, <1>4, SumUnfolds
  <2> HIDE DEF Bad
  <2>2. Total(w, A \cup T) = Total(w, A)
    BY <2>1, Zenon
  <2>3. Total(w, A) + Total(w, T) = Total(w, A)
    BY <1>3, <2>1
  <2> QED BY <1>0, <2>2, <2>3
<1>5. ASSUME NEW x \in T
      PROVE FALSE
  <2>1. IsFiniteSet(A \cup T) /\ \A y \in A \cup T : w[y] \in Int
    BY <1>3, FS_Union
  <2>2. (A \cup T) \ {x} = A \cup (T \ {x})
    BY <1>3
  <2>3. Total(w, A \cup T) = w[x] + Total(w, A \cup (T \ {x}))
    <3>1. Total(w, A \cup T) = w[x] + Total(w, (A \cup T) \ {x})
      BY <2>1, SumTakesOut
    <3> QED BY <2>2, <3>1
  <2>4. Total(w, T) = w[x] + Total(w, T \ {x})
    BY <1>3, SumTakesOut
  <2>5. Total(w, A \cup (T \ {x})) = Total(w, A) + Total(w, T \ {x})
    <3>1. T \ {x} \in SUBSET T /\ T \ {x} # T /\ T \ {x} \in SUBSET B
      BY <1>3
    <3> QED BY <1>2, <3>1
  <2>6. Total(w, T \ {x}) \in Int /\ w[x] \in Int
    <3>1. T \ {x} \in SUBSET T /\ IsFiniteSet(T \ {x})
      BY <1>3, FS_Subset
    <3> QED BY <1>3, <3>1, SumIsInt
  <2> QED BY ONLY <1>0, <1>3, <2>3, <2>4, <2>5, <2>6
<1>6. T = {} \/ \E x \in T : TRUE
  OBVIOUS
<1> QED BY <1>4, <1>5, <1>6

\* Only the values on the set count.
LEMMA SumOfEquals ==
  ASSUME NEW v, NEW w, NEW S, IsFiniteSet(S), \A x \in S : v[x] = w[x]
  PROVE Total(v, S) = Total(w, S)
<1> DEFINE Bad == {T \in SUBSET S : Total(v, T) # Total(w, T)}
<1>1. SUFFICES ASSUME Bad # {} PROVE FALSE
  BY S \in SUBSET S
<1>2. PICK T \in Bad : \A U \in SUBSET T : U # T => U \notin Bad
  <2>1. Bad \in SUBSET (SUBSET S)
    OBVIOUS
  <2> HIDE DEF Bad
  <2> QED BY <1>1, <2>1, SmallestSubset
<1>3. T \in SUBSET S /\ IsFiniteSet(T)
  BY FS_Subset
<1>4. /\ Total(v, T) =
           IF T = {} THEN 0 ELSE v[Pick(T)] + Total(v, T \ {Pick(T)})
      /\ Total(w, T) =
           IF T = {} THEN 0 ELSE w[Pick(T)] + Total(w, T \ {Pick(T)})
  BY <1>3, SumUnfolds
<1>5. CASE T # {}
  <2>1. T \ {Pick(T)} \in SUBSET T /\ T \ {Pick(T)} # T /\ v[Pick(T)] = w[Pick(T)]
    BY <1>3, <1>5, PickIn
  <2>2. Total(v, T \ {Pick(T)}) = Total(w, T \ {Pick(T)})
    BY <1>2, <1>3, <2>1
  <2> QED BY <1>4, <1>5, <2>1, <2>2
<1> QED BY <1>4, <1>5

-----------------------------------------------------------------------------
(* What an account is worth *)

\* What every player sells for.
Sales(s) == [p \in Players |-> Sale(s, p)]

\* Every player sells, and is bought, for a whole number that is not negative.
LEMMA PricesAreNat ==
  ASSUME NEW s \in States, NEW p \in Players
  PROVE s.current[p] \in Nat /\ Sales(s)[p] = Sale(s, p) /\ Sale(s, p) \in Nat
<1>1. s.current[p] \in Nat /\ s.purchase[p] \in Nat /\ s.selling[p] \in Nat \cup {NoQuote}
  BY DEF States
<1>2. SellingPrice(s.purchase[p], s.current[p]) \in Nat
  BY <1>1, SellingPriceBounds
<1>3. Sale(s, p) \in Nat
  BY <1>1, <1>2 DEF Sale
<1> QED BY <1>1, <1>3 DEF Sales

\* What a set of players sells for.
Proceeds(s, S) == MapThenSumSet(LAMBDA p : Sale(s, p), S)

\* It is a sum of prices.
LEMMA ProceedsAreTotal ==
  ASSUME NEW s, NEW S \in SUBSET Players
  PROVE Proceeds(s, S) = Total(Sales(s), S)
<1> DEFINE Adds(f) == f = [u \in SUBSET S |-> IF u = {} THEN 0
                                              ELSE Sale(s, Pick(u)) + f[u \ {Pick(u)}]]
           f == CHOOSE f : Adds(f)
           g == CHOOSE g : SumsUp(g, Sales(s), S)
<1>1. Proceeds(s, S) = f[S]
  BY Zenon DEF Proceeds, MapThenSumSet, MapThenFoldSet, Pick
<1>2. Total(Sales(s), S) = g[S]
  BY SumIsChosen
<1>3. IsFiniteSet(S)
  BY FS_Subset, RulesAssumption
<1>4. SumsUp(g, Sales(s), S)
  BY <1>3, SumsExist
<1>5. ASSUME NEW h
      PROVE SumsUp(h, Sales(s), S) <=> Adds(h)
  <2>1. \A u \in SUBSET S : u # {} => Sales(s)[Pick(u)] = Sale(s, Pick(u))
    BY PickIn DEF Sales
  <2> QED BY <2>1 DEF SumsUp
<1>6. Adds(f)
  <2>1. Adds(g)
    BY <1>4, <1>5
  <2> HIDE DEF g, Adds
  <2> QED BY <2>1
<1>7. SumsUp(f, Sales(s), S)
  BY <1>5, <1>6
<1>8. f[S] = g[S]
  <2> HIDE DEF f, g
  <2> QED BY <1>3, <1>4, <1>7, SumsAgree
<1> QED BY <1>1, <1>2, <1>8

\* The bank after a package and the worth of an account, as sums of prices.
LEMMA BankAndWorth ==
  ASSUME NEW s, s.squad \in SUBSET Players
  PROVE /\ Worth(s) = s.bank + Total(Sales(s), s.squad)
        /\ \A outs \in SUBSET Players : \A ins :
             BankAfter(s, outs, ins) = s.bank + Total(Sales(s), outs) - Total(s.current, ins)
<1>1. Worth(s) = s.bank + Proceeds(s, s.squad)
  BY DEF Worth, Proceeds
<1>2. ASSUME NEW outs, NEW ins
      PROVE BankAfter(s, outs, ins) = s.bank + Proceeds(s, outs) - Total(s.current, ins)
  BY DEF BankAfter, Proceeds, Total
<1> QED BY <1>1, <1>2, ProceedsAreTotal

\* An exchange neither makes nor loses money when the bought sell for what is paid for
\* them and the kept as before.
LEMMA ExchangeKeepsWorth ==
  ASSUME NEW s \in States, NEW t, NEW outs \in SUBSET s.squad,
         NEW ins \in SUBSET (Players \ s.squad),
         t.squad = (s.squad \ outs) \cup ins, t.bank = BankAfter(s, outs, ins),
         \A p \in t.squad : Sale(t, p) = IF p \in ins THEN s.current[p] ELSE Sale(s, p)
  PROVE Worth(t) = Worth(s) /\ t.bank \in Int
<1> DEFINE kept == s.squad \ outs
<1>1. s.squad \in SUBSET Players /\ s.bank \in Nat
  BY DEF States
<1>2. /\ t.squad = kept \cup ins /\ t.squad \in SUBSET Players
      /\ t.bank = s.bank + Total(Sales(s), outs) - Total(s.current, ins)
  BY <1>1, BankAndWorth
<1>3. IsFiniteSet(s.squad) /\ IsFiniteSet(outs) /\ IsFiniteSet(ins) /\ IsFiniteSet(kept)
  BY <1>1, FS_Subset, RulesAssumption
<1>4. \A p \in Players : s.current[p] \in Nat /\ Sales(s)[p] \in Nat
  BY PricesAreNat
<1>5. \A p \in t.squad : Sales(t)[p] = IF p \in ins THEN s.current[p] ELSE Sales(s)[p]
  BY <1>2 DEF Sales
<1>6. Total(Sales(t), kept \cup ins)
        = Total(Sales(t), kept) + Total(Sales(t), ins)
  <2>1. \A p \in kept \cup ins : Sales(t)[p] \in Int
    BY <1>1, <1>2, <1>4, <1>5
  <2>2. kept \cap ins = {}
    OBVIOUS
  <2> HIDE DEF kept
  <2> QED BY <1>3, <2>1, <2>2, SumSplits
<1>7. Total(Sales(t), kept) = Total(Sales(s), kept)
  <2>1. \A p \in kept : Sales(t)[p] = Sales(s)[p]
    BY <1>1, <1>2, <1>5
  <2> HIDE DEF kept
  <2> QED BY <1>3, <2>1, SumOfEquals
<1>8. Total(Sales(t), ins) = Total(s.current, ins)
  BY <1>1, <1>2, <1>3, <1>5, SumOfEquals
<1>9. Total(Sales(s), s.squad)
        = Total(Sales(s), kept) + Total(Sales(s), outs)
  <2>1. \A p \in kept \cup outs : Sales(s)[p] \in Int
    BY <1>1, <1>4
  <2>2. kept \cap outs = {} /\ s.squad = kept \cup outs
    OBVIOUS
  <2> HIDE DEF kept
  <2> QED BY <1>3, <2>1, <2>2, SumSplits
<1>10. /\ Total(Sales(s), kept) \in Int /\ Total(Sales(s), outs) \in Int
       /\ Total(s.current, ins) \in Int
  <2>1. /\ \A p \in kept : Sales(s)[p] \in Int
        /\ \A p \in outs : Sales(s)[p] \in Int
        /\ \A p \in ins : s.current[p] \in Int
    BY <1>1, <1>4
  <2> HIDE DEF kept
  <2> QED BY <1>3, <2>1, SumIsInt
<1> HIDE DEF kept
<1>11. t.bank \in Int
  BY <1>1, <1>2, <1>10
<1>12. Worth(t) = t.bank + Total(Sales(s), kept) + Total(s.current, ins)
  <2>1. Worth(t) = t.bank + Total(Sales(t), kept \cup ins)
    BY <1>2, BankAndWorth
  <2> QED BY <1>6, <1>7, <1>8, <1>10, <1>11, <2>1
<1>13. Worth(s) = s.bank + Total(Sales(s), kept) + Total(Sales(s), outs)
  BY <1>1, <1>9, <1>10, BankAndWorth
<1> QED BY <1>1, <1>2, <1>10, <1>11, <1>12, <1>13

\* The transfers of a package neither make nor lose money: what is paid for the
\* bought is what they sell for, and the kept sell as before.
THEOREM PackageKeepsWorth ==
  ASSUME NEW s \in States, NEW outs \in SUBSET s.squad, NEW ins \in SUBSET (Players \ s.squad)
  PROVE Worth(After(s, outs, ins)) = Worth(s)
<1> DEFINE t == After(s, outs, ins)
<1>1. t.squad = (s.squad \ outs) \cup ins /\ t.bank = BankAfter(s, outs, ins)
  BY DEF After, Exchange, States
<1>2. t.squad \in SUBSET Players
  BY <1>1 DEF States
<1>3. \A p \in Players : Sale(t, p) = IF p \in ins THEN s.current[p] ELSE Sale(s, p)
  BY SalesAfter
<1> HIDE DEF t
<1>4. Worth(t) = Worth(s)
  BY <1>1, <1>2, <1>3, ExchangeKeepsWorth
<1> QED BY <1>4 DEF t

\* Holding keeps it too.
LEMMA HoldKeepsWorth ==
  ASSUME NEW s \in States
  PROVE Worth(AfterHold(s)) = Worth(s)
<1>1. /\ AfterHold(s).squad = s.squad /\ AfterHold(s).bank = s.bank
      /\ AfterHold(s).selling = s.selling /\ AfterHold(s).purchase = s.purchase
      /\ AfterHold(s).current = s.current
  BY DEF AfterHold, States
<1>2. Sales(AfterHold(s)) = Sales(s)
  BY <1>1 DEF Sales, Sale
<1>3. s.squad \in SUBSET Players
  BY DEF States
<1> QED BY <1>1, <1>2, <1>3, BankAndWorth

-----------------------------------------------------------------------------
(* Squads *)

\* The size of a set of which a part is replaced.
LEMMA ReplacedPart ==
  ASSUME NEW A, IsFiniteSet(A), NEW B \in SUBSET A, NEW C, IsFiniteSet(C), A \cap C = {}
  PROVE /\ Cardinality(A) \in Nat /\ Cardinality(B) \in Nat /\ Cardinality(C) \in Nat
        /\ Cardinality((A \ B) \cup C) = Cardinality(A) - Cardinality(B) + Cardinality(C)
<1>1. IsFiniteSet(B)
  BY FS_Subset
<1>2. Cardinality(A) \in Nat /\ Cardinality(B) \in Nat /\ Cardinality(C) \in Nat
  BY <1>1, FS_CardinalityType
<1>3. PICK kept : kept = A \ B
  OBVIOUS
<1>4. A \cap B = B /\ kept \cap C = {}
  BY <1>3
<1>5. IsFiniteSet(kept) /\ Cardinality(kept) = Cardinality(A) - Cardinality(B)
  <2>1. IsFiniteSet(kept) /\ Cardinality(kept) = Cardinality(A) - Cardinality(A \cap B)
    BY <1>3, FS_Difference
  <2> QED BY <1>4, <2>1
<1>6. Cardinality(kept \cup C) = Cardinality(kept) + Cardinality(C) - Cardinality({})
  BY <1>4, <1>5, FS_Union
<1>7. Cardinality({}) = 0
  BY FS_EmptySet
<1>8. Cardinality(kept \cup C) = Cardinality(A) - Cardinality(B) + Cardinality(C)
  BY <1>2, <1>5, <1>6, <1>7
<1> QED BY <1>2, <1>3, <1>8

\* The players of a position before and after an exchange.
LEMMA CountedInPosition ==
  ASSUME NEW S, IsFiniteSet(S), NEW outs \in SUBSET S, NEW ins, IsFiniteSet(ins), ins \cap S = {},
         NEW q
  PROVE /\ Cardinality(InPosition(S, q)) \in Nat /\ Cardinality(InPosition(outs, q)) \in Nat
        /\ Cardinality(InPosition(ins, q)) \in Nat
        /\ Cardinality(InPosition((S \ outs) \cup ins, q)) =
             Cardinality(InPosition(S, q)) - Cardinality(InPosition(outs, q))
               + Cardinality(InPosition(ins, q))
<1> DEFINE A == InPosition(S, q)
           B == InPosition(outs, q)
           C == InPosition(ins, q)
           D == InPosition((S \ outs) \cup ins, q)
<1>1. A \in SUBSET S /\ C \in SUBSET ins /\ B \in SUBSET A /\ A \cap C = {} /\ D = (A \ B) \cup C
  BY DEF InPosition
<1> HIDE DEF A, B, C, D
<1>2. IsFiniteSet(A) /\ IsFiniteSet(C)
  BY <1>1, FS_Subset
<1>3. /\ Cardinality(A) \in Nat /\ Cardinality(B) \in Nat /\ Cardinality(C) \in Nat
      /\ Cardinality(D) = Cardinality(A) - Cardinality(B) + Cardinality(C)
  BY <1>1, <1>2, ReplacedPart
<1> QED BY <1>3 DEF A, B, C, D

\* The players of a club before and after an exchange.
LEMMA CountedOfClub ==
  ASSUME NEW S, IsFiniteSet(S), NEW outs \in SUBSET S, NEW ins, IsFiniteSet(ins), ins \cap S = {},
         NEW c
  PROVE /\ Cardinality(OfClub(S, c)) \in Nat /\ Cardinality(OfClub(outs, c)) \in Nat
        /\ Cardinality(OfClub(ins, c)) \in Nat
        /\ Cardinality(OfClub((S \ outs) \cup ins, c)) =
             Cardinality(OfClub(S, c)) - Cardinality(OfClub(outs, c))
               + Cardinality(OfClub(ins, c))
<1> DEFINE A == OfClub(S, c)
           B == OfClub(outs, c)
           C == OfClub(ins, c)
           D == OfClub((S \ outs) \cup ins, c)
<1>1. A \in SUBSET S /\ C \in SUBSET ins /\ B \in SUBSET A /\ A \cap C = {} /\ D = (A \ B) \cup C
  BY DEF OfClub
<1> HIDE DEF A, B, C, D
<1>2. IsFiniteSet(A) /\ IsFiniteSet(C)
  BY <1>1, FS_Subset
<1>3. /\ Cardinality(A) \in Nat /\ Cardinality(B) \in Nat /\ Cardinality(C) \in Nat
      /\ Cardinality(D) = Cardinality(A) - Cardinality(B) + Cardinality(C)
  BY <1>1, <1>2, ReplacedPart
<1> QED BY <1>3 DEF A, B, C, D

\* Two sets of players with as many in every position have as many players: what
\* pairs the players of each position pairs the players.
LEMMA SamePositionsSameSize ==
  ASSUME NEW outs \in SUBSET Players, NEW ins \in SUBSET Players, StructuralIncoming(outs, ins)
  PROVE Cardinality(outs) = Cardinality(ins)
<1> USE RulesAssumption
<1> DEFINE Pairs(q) == Bijection(InPosition(outs, q), InPosition(ins, q))
           pair == [q \in Positions |-> CHOOSE f : f \in Pairs(q)]
           all == [p \in outs |-> pair[Position[p]][p]]
<1>1. IsFiniteSet(outs) /\ IsFiniteSet(ins)
  BY FS_Subset
<1>2. ASSUME NEW q \in Positions PROVE pair[q] \in Pairs(q)
  <2>1. IsFiniteSet(InPosition(outs, q)) /\ IsFiniteSet(InPosition(ins, q))
    BY <1>1, FS_Subset DEF InPosition
  <2>2. ExistsBijection(InPosition(outs, q), InPosition(ins, q))
    BY <2>1, FS_SameCardinalityBij DEF StructuralIncoming
  <2> QED BY <2>2 DEF ExistsBijection
<1> HIDE DEF pair
<1>3. ASSUME NEW q \in Positions
      PROVE /\ \A p \in InPosition(outs, q) : pair[q][p] \in InPosition(ins, q)
            /\ \A p, r \in InPosition(outs, q) : pair[q][p] = pair[q][r] => p = r
            /\ \A t \in InPosition(ins, q) : \E p \in InPosition(outs, q) : pair[q][p] = t
  <2>1. pair[q] \in Bijection(InPosition(outs, q), InPosition(ins, q))
    BY <1>2
  <2> QED BY <2>1 DEF Bijection, Injection, Surjection, IsInjective
<1>4. \A p \in Players : Position[p] \in Positions
  OBVIOUS
<1>5. \A p \in outs : all[p] \in InPosition(ins, Position[p])
  BY <1>3, <1>4 DEF InPosition
<1>6. \A p, r \in outs : all[p] = all[r] => p = r
  <2> SUFFICES ASSUME NEW p \in outs, NEW r \in outs, all[p] = all[r] PROVE p = r
    OBVIOUS
  <2>1. Position[p] = Position[r]
    BY <1>5 DEF InPosition
  <2>2. p \in InPosition(outs, Position[p]) /\ r \in InPosition(outs, Position[p])
    BY <2>1 DEF InPosition
  <2> QED BY <1>3, <1>4, <2>1, <2>2
<1>7. \A t \in ins : \E p \in outs : all[p] = t
  <2> SUFFICES ASSUME NEW t \in ins PROVE \E p \in outs : all[p] = t
    OBVIOUS
  <2>1. t \in InPosition(ins, Position[t]) /\ Position[t] \in Positions
    BY <1>4 DEF InPosition
  <2>2. PICK p \in InPosition(outs, Position[t]) : pair[Position[t]][p] = t
    BY <1>3, <2>1
  <2>3. p \in outs /\ Position[p] = Position[t]
    BY DEF InPosition
  <2> QED BY <2>2, <2>3
<1>8. all \in [outs -> ins]
  BY <1>5 DEF InPosition
<1>9. all \in Bijection(outs, ins)
  BY <1>6, <1>7, <1>8 DEF Bijection, Injection, Surjection, IsInjective
<1> QED BY <1>1, <1>9, FS_Bijection DEF ExistsBijection

-----------------------------------------------------------------------------
(* The packages *)

\* The account that goes on after a package that could be made is lawful again, for
\* the next package as well.
THEOREM PackageKeepsSquadLawful ==
  ASSUME NEW s \in States, NEW outs, NEW ins, NEW limit \in Nat, CanMake(s, outs, ins, limit)
  PROVE LET t == After(s, outs, ins) IN ValidSquad(t.squad, t.free) /\ t.bank >= 0
<1> DEFINE t == After(s, outs, ins)
<1>1. /\ t.squad = Exchange(s, outs, ins) /\ t.bank = BankAfter(s, outs, ins)
      /\ t.free = NextFreeTransfers(s.free, Cardinality(ins))
  BY DEF After, States
<1>2. ValidSquad(Exchange(s, outs, ins), s.free) /\ BankAfter(s, outs, ins) >= 0
      /\ Cardinality(ins) \in Nat
  BY DEF CanMake
<1>3. t.free \in 1..MaxFree
  BY <1>1, <1>2, FreeTransfersStayLawful DEF States
<1> HIDE DEF t
<1>4. ValidSquad(t.squad, t.free) /\ t.bank >= 0
  BY <1>1, <1>2, <1>3 DEF ValidSquad
<1> QED BY <1>4 DEF t

\* So is the account that goes on after a hold.
LEMMA HoldKeepsSquadLawful ==
  ASSUME NEW s \in States, ValidSquad(s.squad, s.free)
  PROVE LET t == AfterHold(s) IN ValidSquad(t.squad, t.free) /\ t.bank >= 0
<1> DEFINE t == AfterHold(s)
<1>1. t.squad = s.squad /\ t.bank = s.bank /\ t.free = NextFreeTransfers(s.free, 0)
  BY DEF AfterHold, States
<1>2. t.free \in 1..MaxFree /\ t.bank >= 0
  BY <1>1, FreeTransfersStayLawful DEF States
<1> HIDE DEF t
<1>3. ValidSquad(t.squad, t.free) /\ t.bank >= 0
  BY <1>1, <1>2 DEF ValidSquad
<1> QED BY <1>3 DEF t

-----------------------------------------------------------------------------
(* Plans over several gameweeks *)

\* A package that can be made, and a hold, lead to a planning state.
LEMMA PlanningStates ==
  ASSUME NEW s \in States
  PROVE /\ AfterHold(s) \in States
        /\ \A outs, ins, limit : limit \in Nat /\ CanMake(s, outs, ins, limit)
                                   => After(s, outs, ins) \in States
<1>1. s.free \in Nat /\ s.bank \in Nat /\ s.squad \in SUBSET Players
  BY DEF States
<1>2. AfterHold(s) \in States
  <2>1. NextFreeTransfers(s.free, 0) \in Nat
    BY <1>1, RulesAssumption DEF NextFreeTransfers
  <2> QED BY <2>1 DEF AfterHold, States
<1>3. ASSUME NEW outs, NEW ins, NEW limit \in Nat, CanMake(s, outs, ins, limit)
      PROVE After(s, outs, ins) \in States
  <2>1. /\ outs \in SUBSET s.squad /\ ins \in SUBSET (Players \ s.squad)
        /\ Cardinality(ins) \in Nat /\ BankAfter(s, outs, ins) >= 0
    BY <1>3 DEF CanMake
  <2>2. NextFreeTransfers(s.free, Cardinality(ins)) \in Nat
    BY <1>1, <2>1, RulesAssumption DEF NextFreeTransfers
  <2>3. BankAfter(s, outs, ins) \in Nat
    <3>1. IsFiniteSet(outs) /\ IsFiniteSet(ins)
      BY <1>1, <2>1, FS_Subset, RulesAssumption
    <3>2. (\A p \in outs : Sales(s)[p] \in Int) /\ (\A p \in ins : s.current[p] \in Int)
      BY <1>1, <2>1, PricesAreNat
    <3>3. Total(Sales(s), outs) \in Int /\ Total(s.current, ins) \in Int
      BY <3>1, <3>2, SumIsInt
    <3>4. BankAfter(s, outs, ins) \in Int
      BY <1>1, <2>1, <3>3, BankAndWorth
    <3> QED BY <2>1, <3>4
  <2>4. Exchange(s, outs, ins) \in SUBSET Players
    BY <1>1, <2>1 DEF Exchange
  <2>5. /\ [p \in Players |-> IF p \in ins THEN s.current[p] ELSE s.purchase[p]] \in [Players -> Nat]
        /\ [p \in Players |-> IF p \in ins THEN s.current[p] ELSE s.selling[p]]
             \in [Players -> Nat \cup {NoQuote}]
    BY DEF States
  <2> QED BY <2>2, <2>3, <2>4, <2>5 DEF After, States
<1> QED BY <1>2, <1>3

\* What the planner may do with a planning state in one gameweek.
PlanStep(s, t, limit) ==
  \/ t = AfterHold(s)
  \/ \E outs \in SUBSET Players, ins \in SUBSET Players :
       CanMake(s, outs, ins, limit) /\ t = After(s, outs, ins)

\* Along a plan of any length every gameweek has a lawful squad, a bank that is not
\* overdrawn and a lawful number of free transfers, and the account stays worth what it
\* was at the start: no sequence of packages turns the difference between buying and
\* selling prices into money.
THEOREM PlansStayLawfulAndFair ==
  ASSUME NEW n \in Nat, NEW limit \in Nat, NEW plan,
         plan[0] \in States, ValidSquad(plan[0].squad, plan[0].free),
         \A i \in 0..(n - 1) : PlanStep(plan[i], plan[i + 1], limit)
  PROVE \A i \in 0..n : /\ plan[i] \in States
                        /\ ValidSquad(plan[i].squad, plan[i].free)
                        /\ Worth(plan[i]) = Worth(plan[0])
<1> DEFINE Fine(s) == /\ s \in States /\ ValidSquad(s.squad, s.free)
                      /\ Worth(s) = Worth(plan[0])
           Bad == {i \in 0..n : ~ Fine(plan[i])}
<1>1. SUFFICES ASSUME Bad # {} PROVE FALSE
  OBVIOUS
<1>2. PICK i \in Bad : \A j \in Bad : ~ (j < i)
  <2>1. IsWellFoundedOn(OpToRel(<, Nat), Nat)
    BY NatLessThanWellFounded
  <2>2. Bad \subseteq Nat
    OBVIOUS
  <2> HIDE DEF Bad
  <2>3. PICK i \in Bad : \A j \in Bad : ~ (<<j, i>> \in OpToRel(<, Nat))
    BY <1>1, <2>1, <2>2, WFMin
  <2>4. ASSUME NEW j \in Bad, j < i
        PROVE FALSE
    BY <2>2, <2>3, <2>4 DEF OpToRel
  <2> QED BY <2>4
<1>3. i \in 0..n /\ ~ Fine(plan[i])
  OBVIOUS
<1>4. i # 0
  BY <1>3
<1>5. i - 1 \in 0..(n - 1) /\ i - 1 \in 0..n /\ (i - 1) + 1 = i /\ i - 1 < i
  BY <1>3, <1>4
<1>6. Fine(plan[i - 1])
  <2>1. i - 1 \notin Bad
    BY <1>2, <1>5
  <2> QED BY <1>5, <2>1
<1>7. PlanStep(plan[i - 1], plan[i], limit)
  BY <1>5
<1>8. ASSUME NEW s, NEW t, Fine(s), PlanStep(s, t, limit)
      PROVE Fine(t)
  <2>1. s \in States /\ ValidSquad(s.squad, s.free) /\ Worth(s) = Worth(plan[0])
    BY <1>8
  <2>2. CASE t = AfterHold(s)
    BY <2>1, <2>2, PlanningStates, HoldKeepsSquadLawful, HoldKeepsWorth
  <2>3. ASSUME NEW outs \in SUBSET Players, NEW ins \in SUBSET Players,
               CanMake(s, outs, ins, limit), t = After(s, outs, ins)
        PROVE Fine(t)
    <3>1. outs \in SUBSET s.squad /\ ins \in SUBSET (Players \ s.squad)
      BY <2>3 DEF CanMake
    <3>2. t \in States
      BY <2>1, <2>3, PlanningStates
    <3>3. ValidSquad(t.squad, t.free)
      BY <2>1, <2>3, PackageKeepsSquadLawful
    <3>4. Worth(t) = Worth(s)
      BY <2>1, <2>3, <3>1, PackageKeepsWorth
    <3> QED BY <2>1, <3>2, <3>3, <3>4
  <2> QED BY <1>8, <2>2, <2>3 DEF PlanStep
<1> HIDE DEF Fine
<1> QED BY <1>3, <1>6, <1>7, <1>8

-----------------------------------------------------------------------------
(* The two searches *)

\* A lawful squad stays so only when as many come in as go out in every position.
LEMMA LawfulFitsPositions ==
  ASSUME NEW s \in States, ValidSquad(s.squad, s.free), NEW outs \in SUBSET s.squad,
         NEW ins \in SUBSET (Players \ s.squad), ValidSquad(Exchange(s, outs, ins), s.free)
  PROVE StructuralIncoming(outs, ins)
<1>1. IsFiniteSet(s.squad) /\ IsFiniteSet(ins) /\ ins \cap s.squad = {}
  BY RulesAssumption, FS_Subset DEF States
<1>2. ASSUME NEW q \in Positions
      PROVE Cardinality(InPosition(ins, q)) = Cardinality(InPosition(outs, q))
  <2> DEFINE S == s.squad
  <2>1. Cardinality(InPosition(S, q)) = Cardinality(InPosition((S \ outs) \cup ins, q))
    BY DEF ValidSquad, Exchange
  <2> HIDE DEF S
  <2>2. /\ Cardinality(InPosition(S, q)) \in Nat /\ Cardinality(InPosition(outs, q)) \in Nat
        /\ Cardinality(InPosition(ins, q)) \in Nat
        /\ Cardinality(InPosition((S \ outs) \cup ins, q)) =
             Cardinality(InPosition(S, q)) - Cardinality(InPosition(outs, q))
               + Cardinality(InPosition(ins, q))
    <3>1. IsFiniteSet(S) /\ IsFiniteSet(ins) /\ outs \in SUBSET S /\ ins \cap S = {}
      BY <1>1 DEF S
    <3>2. /\ Cardinality(InPosition(S, q)) \in Nat /\ Cardinality(InPosition(outs, q)) \in Nat
          /\ Cardinality(InPosition(ins, q)) \in Nat
      BY <3>1, CountedInPosition, Zenon
    <3>3. Cardinality(InPosition((S \ outs) \cup ins, q)) =
            Cardinality(InPosition(S, q)) - Cardinality(InPosition(outs, q))
              + Cardinality(InPosition(ins, q))
      BY <3>1, CountedInPosition
    <3> QED BY <3>2, <3>3
  <2> QED BY <2>1, <2>2
<1> QED BY <1>2 DEF StructuralIncoming

\* What the club counts say is what the squad check says of the clubs.
LEMMA ClubCountsAreExact ==
  ASSUME NEW s \in States, NEW outs \in SUBSET s.squad, NEW ins \in SUBSET (Players \ s.squad),
         NEW c
  PROVE ClubCount(s, outs, ins, c) = Cardinality(OfClub(Exchange(s, outs, ins), c))
<1>1. IsFiniteSet(s.squad) /\ IsFiniteSet(ins) /\ ins \cap s.squad = {}
  BY RulesAssumption, FS_Subset DEF States
<1>2. Cardinality(OfClub((s.squad \ outs) \cup ins, c)) =
        Cardinality(OfClub(s.squad, c)) - Cardinality(OfClub(outs, c)) + Cardinality(OfClub(ins, c))
  BY <1>1, CountedOfClub
<1> QED BY <1>2 DEF ClubCount, Exchange

\* The search that prunes by position, bank and club loses no package and adds none:
\* from a lawful squad it finds exactly what the exhaustive reference search finds.
THEOREM SearchesAgree ==
  ASSUME NEW s \in States, ValidSquad(s.squad, s.free), NEW pool \in SUBSET Players, NEW limit \in Nat
  PROVE OptimizedPlans(s, pool, limit) = ReferencePlans(s, pool, limit)
<1> DEFINE Pairs == [outs : SUBSET s.squad, ins : SUBSET (pool \ s.squad)]
           Lawful(p) == /\ Cardinality(p.outs) \in 1..limit
                        /\ ValidSquad(Exchange(s, p.outs, p.ins), s.free)
                        /\ BankAfter(s, p.outs, p.ins) >= 0
<1>1. ReferencePlans(s, pool, limit) =
        {Roll} \cup {p \in Pairs : Lawful(p) /\ Cardinality(p.outs) = Cardinality(p.ins)}
  BY DEF ReferencePlans, Combinations
<1>2. OptimizedPlans(s, pool, limit) =
        {Roll} \cup {p \in Pairs : /\ Lawful(p)
                                   /\ StructuralIncoming(p.outs, p.ins)
                                   /\ \A c \in Clubs : ClubCount(s, p.outs, p.ins, c) <= ClubLimit}
  BY DEF OptimizedPlans, Combinations
<1>3. ASSUME NEW p \in Pairs, Lawful(p)
      PROVE /\ StructuralIncoming(p.outs, p.ins)
            /\ Cardinality(p.outs) = Cardinality(p.ins)
            /\ \A c \in Clubs : ClubCount(s, p.outs, p.ins, c) <= ClubLimit
  <2>1. p.outs \in SUBSET s.squad /\ p.ins \in SUBSET (Players \ s.squad)
        /\ p.outs \in SUBSET Players /\ p.ins \in SUBSET Players
    BY DEF States
  <2>2. StructuralIncoming(p.outs, p.ins)
    BY <1>3, <2>1, LawfulFitsPositions
  <2>3. Cardinality(p.outs) = Cardinality(p.ins)
    BY <2>1, <2>2, SamePositionsSameSize
  <2>4. \A c \in Clubs : ClubCount(s, p.outs, p.ins, c) <= ClubLimit
    BY <1>3, <2>1, ClubCountsAreExact DEF ValidSquad
  <2> QED BY <2>2, <2>3, <2>4
<1> HIDE DEF Pairs, Lawful
<1> QED BY <1>1, <1>2, <1>3

=============================================================================
