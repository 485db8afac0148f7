---------------------------- MODULE LedgerProofs ----------------------------
(***************************************************************************)
(* Proofs about the components of MCLedgers that keep money and authority, *)
(* for every value of their constants: the tool market and its refinement  *)
(* of Escrow, the wallet's capabilities and purses, EVM transactions, the  *)
(* estates of agents, validators' and providers' stakes, and what no step  *)
(* of the ledgers may undo.  Each has an inductive invariant of its own.   *)
(***************************************************************************)
EXTENDS MCLedgers, SequenceTheorems

-----------------------------------------------------------------------------
(* ToolMarket *)

IntentStates == {"proposed", "matched", "delivered", "disputed", "paid", "refunded"}

IntentRecords == [state: IntentStates, provider: Providers \cup {"none"}, reserved: Nat, locked: Nat,
                  deadline: Nat, delivered: Nat]

Settlements == [at: Nat, weight: Nat]

LedgerRecords == [successful: Seq(Settlements), slashes: Nat, firstSeen: Nat, now: Nat,
                  clients: SUBSET {ClientOf[i] : i \in Intents}]

\* The ledger key of an intent that has a provider.
KeyOf(i) == <<intents[i].provider, ClassOf[i]>>

\* The intents of the market.
IntentsTyped ==
  /\ DOMAIN intents \subseteq Intents /\ IsFiniteSet(DOMAIN intents)
  /\ intents \in [DOMAIN intents -> IntentRecords]
  /\ \A i \in DOMAIN intents : intents[i].state # "proposed" => intents[i].provider \in Providers

\* Its money: what is reserved and spent was deposited.
MoneyTyped ==
  /\ budget \in [deposited: Nat, reserved: Nat, spent: Nat]
  /\ budget.reserved + budget.spent <= budget.deposited
  /\ stake \in [Providers -> [amount: Nat, locked: Nat]]
  /\ clock \in Nat

\* Its reputation ledgers: everyone who was matched or reported has one.
LedgersTyped ==
  /\ DOMAIN ledger \subseteq Providers \X {ClassOf[i] : i \in Intents}
  /\ ledger \in [DOMAIN ledger -> LedgerRecords]
  /\ \A k \in DOMAIN ledger : IsFiniteSet(ledger[k].clients)
  /\ signal \in [Providers -> Nat]
  /\ reports \in Seq(DOMAIN ledger)
  /\ \A i \in DOMAIN intents : intents[i].state # "proposed" => KeyOf(i) \in DOMAIN ledger

MarketInv == IntentsTyped /\ MoneyTyped /\ LedgersTyped /\ ReservedForLive /\ StakeCoversLive /\ ReputationEarned

\* What is held for the live intents, and the stake pledged for those of a provider.
Held == [i \in {j \in DOMAIN intents : Live(j)} |-> intents[i].reserved]
Pledged(p) == [i \in {j \in DOMAIN intents : Live(j) /\ intents[j].provider = p} |-> intents[i].locked]

\* The start of the market.
LEMMA MarketStart == ASSUME MarketInit PROVE MarketInv
<1> USE MarketAssumption
<1>1. IntentsTyped
  BY FS_EmptySet DEF MarketInit, IntentsTyped, Empty
<1>2. MoneyTyped
  BY DEF MarketInit, MoneyTyped
<1>3. LedgersTyped
  BY DEF MarketInit, LedgersTyped, Empty
<1>4. ReservedForLive
  <2> DEFINE f == [i \in {j \in DOMAIN intents : Live(j)} |-> intents[i].reserved]
  <2>1. f = [x \in {} |-> f[x]]
    BY DEF MarketInit, Empty
  <2>2. Total(f) = 0
    BY <2>1, TotalEmpty
  <2> QED
    BY <2>2 DEF MarketInit, ReservedForLive, SumOver
<1>5. StakeCoversLive
  <2> SUFFICES ASSUME NEW p \in Providers PROVE Total(Pledged(p)) <= stake[p].locked /\ stake[p].locked <= stake[p].amount
    BY DEF StakeCoversLive, SumOver, Pledged
  <2>1. Pledged(p) = [x \in {} |-> Pledged(p)[x]]
    BY DEF MarketInit, Empty, Pledged
  <2>2. Total(Pledged(p)) = 0
    BY <2>1, TotalEmpty
  <2> QED
    BY <2>2 DEF MarketInit
<1>6. ReputationEarned
  BY DEF MarketInit, ReputationEarned, Empty
<1> QED
  BY <1>1, <1>2, <1>3, <1>4, <1>5, <1>6 DEF MarketInv

\* An intent is matched: its price and its pledge are added.
LEMMA IntentEnters ==
  ASSUME IntentsTyped, NEW i \in DOMAIN intents, intents[i].state = "proposed",
         NEW rec \in IntentRecords, rec.state = "matched", rec.provider \in Providers,
         intents' = [intents EXCEPT ![i] = rec]
  PROVE  /\ Total(Held') = Total(Held) + rec.reserved
         /\ \A r \in Providers :
              Total(Pledged(r)') = Total(Pledged(r)) + (IF r = rec.provider THEN rec.locked ELSE 0)
         /\ IntentsTyped'
<1> DEFINE n == rec.reserved
           m == rec.locked
           p == rec.provider
<1>0. n \in Nat /\ m \in Nat /\ p \in Providers
  BY DEF IntentRecords
<1>1. IntentsTyped'
  BY DEF IntentsTyped, IntentRecords, IntentStates
<1>2. Total(Held') = Total(Held) + n
  <2> DEFINE S == {j \in DOMAIN intents : Live(j)}
  <2>1. IsFiniteSet(S) /\ i \notin S
    BY FS_Subset DEF IntentsTyped, Live
  <2>2. {j \in DOMAIN intents : Live(j)}' = S \cup {i}
    BY DEF IntentsTyped, IntentRecords, Live
  <2>3. Held \in [S -> Nat]
    BY DEF Held, IntentsTyped, IntentRecords
  <2>4. Held' \in [S \cup {i} -> Nat] /\ Held'[i] = n /\ \A x \in S : Held[x] = Held'[x]
    <3>1. Held' = [j \in S \cup {i} |-> intents'[j].reserved]
      BY <2>2 DEF Held
    <3> HIDE DEF S
    <3>2. S \subseteq DOMAIN intents /\ Held = [j \in S |-> intents[j].reserved]
      BY DEF S, Held
    <3>3. \A j \in DOMAIN intents : intents'[j] = (IF j = i THEN rec ELSE intents[j]) /\ intents[j].reserved \in Nat
      BY DEF IntentsTyped, IntentRecords
    <3>4. \A j \in S : Held'[j] = Held[j] /\ Held[j] \in Nat
      BY <2>1, <3>1, <3>2, <3>3
    <3>5. Held'[i] = n /\ DOMAIN Held' = S \cup {i}
      BY <3>1, <3>3
    <3>6. \A j \in S \cup {i} : intents'[j].reserved \in Nat
      BY <1>0, <3>2, <3>3
    <3>7. [j \in S \cup {i} |-> intents'[j].reserved] \in [S \cup {i} -> Nat]
      BY <3>6
    <3>8. Held' \in [S \cup {i} -> Nat]
      BY <3>1, <3>7
    <3> QED
      BY <3>4, <3>5, <3>8
  <2> HIDE DEF S
  <2> DEFINE f == Held
             g == Held'
  <2>5. f \in [S -> Nat] /\ g \in [S \cup {i} -> Nat] /\ \A x \in S : f[x] = g[x]
    BY <2>3, <2>4
  <2> HIDE DEF f, g
  <2>6. Total(g) = Total(f) + g[i]
    BY <2>1, <2>5, TotalWith
  <2> QED
    BY <2>4, <2>6 DEF f, g
<1>3. ASSUME NEW r \in Providers
      PROVE  Total(Pledged(r)') = Total(Pledged(r)) + IF r = p THEN m ELSE 0
  <2> DEFINE S == {j \in DOMAIN intents : Live(j) /\ intents[j].provider = r}
  <2>1. IsFiniteSet(S) /\ i \notin S
    BY FS_Subset DEF IntentsTyped, Live
  <2>2. {j \in DOMAIN intents : Live(j) /\ intents[j].provider = r}' = IF r = p THEN S \cup {i} ELSE S
    BY DEF IntentsTyped, IntentRecords, Live
  <2>3. Pledged(r) \in [S -> Nat]
    BY DEF Pledged, IntentsTyped, IntentRecords
  <2> DEFINE T == IF r = p THEN S \cup {i} ELSE S
             f == [j \in T |-> intents'[j].locked]
  <2>0. Pledged(r)' = f
    BY <2>2 DEF Pledged
  <2>4. /\ r = p => f \in [S \cup {i} -> Nat] /\ f[i] = m /\ \A x \in S : Pledged(r)[x] = f[x]
        /\ r # p => f = Pledged(r)
    <3> HIDE DEF S
    <3>2. S \subseteq DOMAIN intents /\ Pledged(r) = [j \in S |-> intents[j].locked]
      BY DEF S, Pledged
    <3> QED
      BY <2>1, <3>2 DEF IntentsTyped, IntentRecords
  <2> HIDE DEF S, f
  <2>5. Total(Pledged(r)) \in Nat
    BY <2>1, <2>3, TotalNat
  <2>6. r = p => Total(f) = Total(Pledged(r)) + m
    BY <2>1, <2>3, <2>4, TotalWith
  <2> QED
    BY <2>0, <2>4, <2>5, <2>6
<1> QED
  BY <1>1, <1>2, <1>3

\* An intent is paid or refunded: its price and its pledge are taken out.
LEMMA IntentLeaves ==
  ASSUME IntentsTyped, NEW i \in DOMAIN intents, Live(i), NEW s \in {"paid", "refunded"},
         intents' = [intents EXCEPT ![i].state = s]
  PROVE  /\ Total(Held) = Total(Held') + intents[i].reserved /\ Total(Held') \in Nat
         /\ \A r \in Providers :
              /\ Total(Pledged(r)) = Total(Pledged(r)') + (IF r = intents[i].provider THEN intents[i].locked ELSE 0)
              /\ Total(Pledged(r)') \in Nat
         /\ intents[i].reserved \in Nat /\ intents[i].locked \in Nat /\ intents[i].provider \in Providers
         /\ IntentsTyped'
<1>1. IntentsTyped' /\ intents[i].reserved \in Nat /\ intents[i].locked \in Nat /\ intents[i].provider \in Providers
  BY DEF IntentsTyped, IntentRecords, IntentStates, Live
<1>2. Total(Held) = Total(Held') + intents[i].reserved /\ Total(Held') \in Nat
  <2> DEFINE S == {j \in DOMAIN intents : Live(j)} \ {i}
  <2>1. IsFiniteSet(S) /\ i \notin S
    BY FS_Subset DEF IntentsTyped
  <2>2. {j \in DOMAIN intents : Live(j)}' = S /\ {j \in DOMAIN intents : Live(j)} = S \cup {i}
    BY DEF IntentsTyped, IntentRecords, Live
  <2>4. /\ Held \in [S \cup {i} -> Nat] /\ Held[i] = intents[i].reserved
        /\ Held' \in [S -> Nat] /\ \A x \in S : Held[x] = Held'[x]
    <3>1. Held' = [j \in S |-> intents'[j].reserved] /\ Held = [j \in S \cup {i} |-> intents[j].reserved]
      BY <2>2 DEF Held
    <3>2. S \subseteq DOMAIN intents
      OBVIOUS
    <3> HIDE DEF S
    <3> QED
      BY <2>1, <3>1, <3>2 DEF IntentsTyped, IntentRecords
  <2> HIDE DEF S
  <2> QED
    BY <2>1, <2>4, TotalWith, TotalNat
<1>3. ASSUME NEW r \in Providers
      PROVE  /\ Total(Pledged(r)) = Total(Pledged(r)') + (IF r = intents[i].provider THEN intents[i].locked ELSE 0)
             /\ Total(Pledged(r)') \in Nat
  <2> DEFINE S == {j \in DOMAIN intents : Live(j) /\ intents[j].provider = r} \ {i}
             T == IF r = intents[i].provider THEN S \cup {i} ELSE S
  <2>1. IsFiniteSet(S) /\ i \notin S
    BY FS_Subset DEF IntentsTyped
  <2>2. /\ {j \in DOMAIN intents : Live(j) /\ intents[j].provider = r}' = S
        /\ {j \in DOMAIN intents : Live(j) /\ intents[j].provider = r} = T
    BY DEF IntentsTyped, IntentRecords, Live
  <2> DEFINE f == [j \in T |-> intents[j].locked]
             g == [j \in S |-> intents'[j].locked]
  <2>0. Pledged(r) = f /\ Pledged(r)' = g
    BY <2>2 DEF Pledged
  <2>4. /\ g \in [S -> Nat]
        /\ r = intents[i].provider => f \in [S \cup {i} -> Nat] /\ f[i] = intents[i].locked /\ \A x \in S : f[x] = g[x]
        /\ r # intents[i].provider => f = g
    <3>2. S \subseteq DOMAIN intents
      OBVIOUS
    <3> HIDE DEF S
    <3> QED
      BY <2>1, <3>2 DEF IntentsTyped, IntentRecords
  <2> HIDE DEF S, f, g
  <2>5. Total(g) \in Nat
    BY <2>1, <2>4, TotalNat
  <2>6. r = intents[i].provider => Total(f) = Total(g) + intents[i].locked
    BY <2>1, <2>4, TotalWith
  <2> QED
    BY <2>0, <2>4, <2>5, <2>6
<1> QED
  BY <1>1, <1>2, <1>3

\* A step that leaves the live intents, their prices, pledges and providers alone.
IntentsStay ==
  \A j : /\ j \in DOMAIN intents /\ Live(j) <=> j \in DOMAIN intents' /\ Live(j)'
         /\ j \in DOMAIN intents /\ Live(j) => /\ intents'[j].reserved = intents[j].reserved
                                               /\ intents'[j].locked = intents[j].locked
                                               /\ intents'[j].provider = intents[j].provider

\* Then what is held and what is pledged stay.
LEMMA HeldStays ==
  ASSUME IntentsStay
  PROVE  Held' = Held /\ \A r : Pledged(r)' = Pledged(r)
<1>1. {j \in DOMAIN intents : Live(j)}' = {j \in DOMAIN intents : Live(j)}
  BY DEF IntentsStay
<1>2. Held' = Held
  BY <1>1 DEF IntentsStay, Held
<1>3. ASSUME NEW r PROVE Pledged(r)' = Pledged(r)
  <2>1. {j \in DOMAIN intents : Live(j) /\ intents[j].provider = r}'
          = {j \in DOMAIN intents : Live(j) /\ intents[j].provider = r}
    BY DEF IntentsStay
  <2> QED
    BY <2>1 DEF IntentsStay, Pledged
<1> QED
  BY <1>2, <1>3

\* The money of the market over every kind of step.
LEMMA MoneyKept ==
  ASSUME IntentsTyped, MoneyTyped, ReservedForLive, StakeCoversLive, [MarketNext]_marketVars
  PROVE  IntentsTyped' /\ MoneyTyped' /\ ReservedForLive' /\ StakeCoversLive'
<1> USE MarketAssumption
<1>a. budget.reserved = Total(Held)
  BY DEF ReservedForLive, SumOver, Held
<1>b. \A p \in Providers : Total(Pledged(p)) <= stake[p].locked /\ stake[p].locked <= stake[p].amount
  BY DEF StakeCoversLive, SumOver, Pledged
<1>c. SUFFICES /\ IntentsTyped' /\ MoneyTyped' /\ budget'.reserved = Total(Held')
               /\ \A p \in Providers : Total(Pledged(p)') <= stake'[p].locked /\ stake'[p].locked <= stake'[p].amount
  BY DEF ReservedForLive, StakeCoversLive, SumOver, Held, Pledged
<1>d. Total(Held) \in Nat /\ \A p \in Providers : Total(Pledged(p)) \in Nat
  <2>1. IsFiniteSet({j \in DOMAIN intents : Live(j)}) /\ Held \in [{j \in DOMAIN intents : Live(j)} -> Nat]
    BY FS_Subset DEF IntentsTyped, IntentRecords, Held
  <2>2. ASSUME NEW p \in Providers PROVE Total(Pledged(p)) \in Nat
    <3> DEFINE S == {j \in DOMAIN intents : Live(j) /\ intents[j].provider = p}
    <3>1. IsFiniteSet(S) /\ Pledged(p) \in [S -> Nat]
      BY FS_Subset DEF IntentsTyped, IntentRecords, Pledged
    <3> HIDE DEF S
    <3> QED
      BY <3>1, TotalNat
  <2> QED
    BY <2>1, <2>2, TotalNat
<1>1. ASSUME NEW i \in Intents, PostIntent(i)
      PROVE  IntentsTyped' /\ MoneyTyped' /\ IntentsStay /\ UNCHANGED <<budget, stake>>
  <2>1. IntentsTyped'
    <3>1. DOMAIN intents' = DOMAIN intents \cup {i} /\ IsFiniteSet(DOMAIN intents \cup {i})
      BY <1>1, FS_AddElement DEF IntentsTyped, PostIntent, Put
    <3> QED
      BY <1>1, <3>1 DEF IntentsTyped, PostIntent, Put, NewIntent, IntentRecords, IntentStates
  <2> QED
    BY <1>1, <2>1 DEF PostIntent, MoneyTyped, IntentsStay, Put, NewIntent, Live
<1>2. ASSUME NEW i \in DOMAIN intents, NEW q \in Quotes, MatchIntent(i, q)
      PROVE  /\ IntentsTyped' /\ MoneyTyped' /\ budget'.reserved = Total(Held')
             /\ \A p \in Providers : Total(Pledged(p)') <= stake'[p].locked /\ stake'[p].locked <= stake'[p].amount
  <2> DEFINE m == q.price * SlashMultiplier
             rec == [intents[i] EXCEPT !.state = "matched", !.provider = q.provider,
                                       !.reserved = q.price, !.locked = m]
  <2>1. q.provider \in Providers /\ q.price \in Nat /\ SlashMultiplier \in Nat
    OBVIOUS
  <2>2. m \in Nat
    BY <2>1
  <2>3. /\ intents[i].state = "proposed"
        /\ intents' = [intents EXCEPT ![i] = rec]
        /\ stake' = [stake EXCEPT ![q.provider].locked = @ + m]
        /\ budget' = [budget EXCEPT !.reserved = @ + q.price]
        /\ clock' = clock
        /\ m <= Minus(stake[q.provider].amount, stake[q.provider].locked)
        /\ q.price <= Available
    BY <1>2 DEF MatchIntent, Matches, CanReserve
  <2> HIDE DEF m
  <2>9. /\ rec \in IntentRecords /\ rec.state = "matched" /\ rec.provider = q.provider
        /\ rec.reserved = q.price /\ rec.locked = m
    BY <2>1, <2>2 DEF IntentsTyped, IntentRecords, IntentStates
  <2> HIDE DEF rec
  <2>4. /\ IntentsTyped' /\ Total(Held') = Total(Held) + q.price
        /\ \A r \in Providers : Total(Pledged(r)') = Total(Pledged(r)) + IF r = q.provider THEN m ELSE 0
    <3>1. /\ IntentsTyped' /\ Total(Held') = Total(Held) + rec.reserved
          /\ \A r \in Providers :
               Total(Pledged(r)') = Total(Pledged(r)) + (IF r = rec.provider THEN rec.locked ELSE 0)
      BY <2>1, <2>3, <2>9, IntentEnters
    <3> QED
      BY <2>9, <3>1
  <2>5. /\ budget' \in [deposited: Nat, reserved: Nat, spent: Nat]
        /\ budget'.reserved = budget.reserved + q.price
        /\ budget'.reserved + budget'.spent <= budget'.deposited
    <3>1. q.price <= budget.deposited - budget.reserved - budget.spent
      BY <2>1, <2>3 DEF Available, Minus, MoneyTyped
    <3> QED
      BY <2>1, <2>3, <3>1 DEF MoneyTyped
  <2>6. ASSUME NEW p \in Providers
        PROVE  /\ stake'[p].amount = stake[p].amount
               /\ stake'[p].locked = stake[p].locked + IF p = q.provider THEN m ELSE 0
    BY <2>1, <2>2, <2>3 DEF MoneyTyped
  <2>7. stake' \in [Providers -> [amount: Nat, locked: Nat]]
    BY <2>1, <2>2, <2>3 DEF MoneyTyped
  <2>8. ASSUME NEW p \in Providers
        PROVE  Total(Pledged(p)') <= stake'[p].locked /\ stake'[p].locked <= stake'[p].amount
    <3>1. stake[p].locked \in Nat /\ stake[p].amount \in Nat /\ Total(Pledged(p)) \in Nat
      BY <1>d DEF MoneyTyped
    <3>2. Total(Pledged(p)) <= stake[p].locked /\ stake[p].locked <= stake[p].amount
      BY <1>b
    <3>3. m <= stake[q.provider].amount - stake[q.provider].locked
      BY <1>b, <2>1, <2>2, <2>3 DEF MoneyTyped, Minus
    <3> QED
      BY <2>2, <2>4, <2>6, <3>1, <3>2, <3>3
  <2> QED
    BY <1>a, <2>1, <2>3, <2>4, <2>5, <2>7, <2>8 DEF MoneyTyped
<1>3. ASSUME NEW i \in DOMAIN intents, NEW q \in Quotes, MatchFails(i, q)
      PROVE  /\ IntentsTyped' /\ MoneyTyped' /\ IntentsStay /\ UNCHANGED budget
             /\ \A p \in Providers : stake[p].locked <= stake'[p].locked /\ stake'[p].locked <= stake'[p].amount
  <2> DEFINE m == q.price * SlashMultiplier
  <2>1. q.provider \in Providers /\ q.price \in Nat /\ SlashMultiplier \in Nat
    OBVIOUS
  <2>2. m \in Nat
    BY <2>1
  <2>3. /\ UNCHANGED <<intents, budget, clock>>
        /\ stake' = [stake EXCEPT ![q.provider].locked = @ + m]
        /\ m <= Minus(stake[q.provider].amount, stake[q.provider].locked)
    BY <1>3 DEF MatchFails, Matches
  <2> HIDE DEF m
  <2>4. MoneyTyped'
    BY <2>1, <2>2, <2>3 DEF MoneyTyped
  <2>5. m <= stake[q.provider].amount - stake[q.provider].locked
    BY <1>b, <2>1, <2>2, <2>3 DEF MoneyTyped, Minus
  <2>6. \A p \in Providers : stake[p].locked <= stake'[p].locked /\ stake'[p].locked <= stake'[p].amount
    BY <1>b, <2>1, <2>2, <2>3, <2>5 DEF MoneyTyped
  <2> QED
    BY <2>3, <2>4, <2>6 DEF IntentsTyped, IntentsStay, Live
<1>4. ASSUME NEW i \in DOMAIN intents, PostReceipt(i) \/ SubmitChallenge(i)
      PROVE  IntentsTyped' /\ MoneyTyped' /\ IntentsStay /\ UNCHANGED <<budget, stake>>
  <2> DEFINE d == clock + (IF TierOf[i] = "trusted" THEN 0 ELSE ChallengeWindow)
             r == IF PostReceipt(i) THEN [intents[i] EXCEPT !.state = "delivered", !.delivered = clock, !.deadline = d]
                  ELSE [intents[i] EXCEPT !.state = "disputed"]
  <2>3. d \in Nat
    BY DEF MoneyTyped
  <2>4. intents' = [intents EXCEPT ![i] = r] /\ Live(i)
    BY <1>4 DEF PostReceipt, SubmitChallenge, Live
  <2> HIDE DEF d
  <2>5. /\ r \in IntentRecords /\ r.state \in {"delivered", "disputed"} /\ r.provider = intents[i].provider
        /\ r.reserved = intents[i].reserved /\ r.locked = intents[i].locked
    BY <2>3 DEF IntentsTyped, IntentRecords, IntentStates, MoneyTyped
  <2> HIDE DEF r
  <2>1. IntentsTyped'
    BY <2>4, <2>5 DEF IntentsTyped, Live
  <2>2. IntentsStay
    BY <2>4, <2>5 DEF IntentsTyped, IntentsStay, Live
  <2> QED
    BY <1>4, <2>1, <2>2 DEF PostReceipt, SubmitChallenge, MoneyTyped
<1>5. ASSUME NEW i \in DOMAIN intents, Live(i), NEW s \in {"paid", "refunded"},
             intents' = [intents EXCEPT ![i].state = s], clock' = clock,
             stake' = Unlocked(intents[i].provider, intents[i].locked),
             budget' = IF s = "paid" THEN Settled(intents[i].reserved) ELSE Refunded(intents[i].reserved)
      PROVE  /\ IntentsTyped' /\ MoneyTyped' /\ budget'.reserved = Total(Held')
             /\ \A p \in Providers : Total(Pledged(p)') <= stake'[p].locked /\ stake'[p].locked <= stake'[p].amount
  <2> DEFINE n == intents[i].reserved
             m == intents[i].locked
             b == intents[i].provider
  <2>1. /\ Total(Held) = Total(Held') + n /\ Total(Held') \in Nat
        /\ \A r \in Providers : /\ Total(Pledged(r)) = Total(Pledged(r)') + (IF r = b THEN m ELSE 0)
                                /\ Total(Pledged(r)') \in Nat
        /\ n \in Nat /\ m \in Nat /\ b \in Providers /\ IntentsTyped'
    BY <1>5, IntentLeaves
  <2>2. stake' = [stake EXCEPT ![b].locked = Minus(@, m)]
    BY <1>5 DEF Unlocked
  <2>3. budget' = IF s = "paid" THEN [budget EXCEPT !.reserved = @ - n, !.spent = @ + n] ELSE [budget EXCEPT !.reserved = @ - n]
    BY <1>5 DEF Settled, Refunded
  <2> HIDE DEF n, m, b
  <2>4. budget' \in [deposited: Nat, reserved: Nat, spent: Nat] /\ budget'.reserved = budget.reserved - n
        /\ budget'.reserved + budget'.spent <= budget'.deposited
    <3>1. n <= budget.reserved /\ budget.reserved \in Nat /\ budget.spent \in Nat /\ budget.deposited \in Nat
      BY <1>a, <2>1 DEF MoneyTyped
    <3>2. CASE s = "paid"
      <4>1. budget' = [budget EXCEPT !.reserved = @ - n, !.spent = @ + n]
        BY <2>3, <3>2
      <4>2. /\ budget' \in [deposited: Nat, reserved: Nat, spent: Nat]
            /\ budget'.deposited = budget.deposited /\ budget'.reserved = budget.reserved - n
            /\ budget'.spent = budget.spent + n
        <5> DEFINE x == budget.reserved - n
                   y == budget.spent + n
        <5>1. x \in Nat /\ y \in Nat
          BY <2>1, <3>1
        <5>2. budget' = [budget EXCEPT !.reserved = x, !.spent = y]
          BY <4>1
        <5> HIDE DEF x, y
        <5>3. budget \in [deposited: Nat, reserved: Nat, spent: Nat]
          BY DEF MoneyTyped
        <5>4. /\ budget' \in [deposited: Nat, reserved: Nat, spent: Nat]
              /\ budget'.deposited = budget.deposited /\ budget'.reserved = x /\ budget'.spent = y
          BY <5>1, <5>2, <5>3, Zenon
        <5> QED
          BY <5>4 DEF x, y
      <4>3. budget.reserved + budget.spent <= budget.deposited /\ n \in Nat
        BY <2>1 DEF MoneyTyped
      <4> QED
        BY <3>1, <4>2, <4>3
    <3>3. CASE s = "refunded"
      BY <2>1, <2>3, <3>1, <3>3 DEF MoneyTyped
    <3> QED
      BY <3>2, <3>3
  <2>5. stake' \in [Providers -> [amount: Nat, locked: Nat]]
    BY <2>1, <2>2 DEF MoneyTyped, Minus
  <2>6. ASSUME NEW p \in Providers
        PROVE  Total(Pledged(p)') <= stake'[p].locked /\ stake'[p].locked <= stake'[p].amount
    <3>1. stake[p].locked \in Nat /\ stake[p].amount \in Nat
      BY DEF MoneyTyped
    <3>2. stake'[p].amount = stake[p].amount /\ stake'[p].locked = IF p = b THEN Minus(stake[p].locked, m) ELSE stake[p].locked
      BY <2>1, <2>2 DEF MoneyTyped
    <3>3. Total(Pledged(p)) <= stake[p].locked /\ stake[p].locked <= stake[p].amount
      BY <1>b
    <3> QED
      BY <2>1, <3>1, <3>2, <3>3 DEF Minus
  <2> QED
    BY <1>5, <1>a, <1>d, <2>1, <2>4, <2>5, <2>6 DEF MoneyTyped
<1>6. ASSUME NEW i \in DOMAIN intents, SettleAfterWindow(i) \/ SettleTrusted(i) \/ \E d \in {"provider", "challenger"} : ResolveChallenge(i, d)
      PROVE  /\ IntentsTyped' /\ MoneyTyped' /\ budget'.reserved = Total(Held')
             /\ \A p \in Providers : Total(Pledged(p)') <= stake'[p].locked /\ stake'[p].locked <= stake'[p].amount
  <2>1. \E s \in {"paid", "refunded"} :
          /\ Live(i) /\ intents' = [intents EXCEPT ![i].state = s] /\ clock' = clock
          /\ stake' = Unlocked(intents[i].provider, intents[i].locked)
          /\ budget' = IF s = "paid" THEN Settled(intents[i].reserved) ELSE Refunded(intents[i].reserved)
    BY <1>6 DEF SettleAfterWindow, SettleTrusted, ResolveChallenge, PayOut, Live
  <2> QED
    BY <1>5, <2>1
<1>7. ASSUME AddDeposit
      PROVE  /\ IntentsTyped' /\ MoneyTyped' /\ IntentsStay /\ UNCHANGED stake /\ budget'.reserved = budget.reserved
  BY <1>7 DEF AddDeposit, IntentsTyped, MoneyTyped, IntentsStay, Live
<1>8. ASSUME UNCHANGED <<intents, budget, stake>>, clock' \in Nat
      PROVE  IntentsTyped' /\ MoneyTyped' /\ IntentsStay
  BY <1>8 DEF IntentsTyped, MoneyTyped, IntentsStay, Live
<1>9. ASSUME Tick \/ UNCHANGED marketVars \/ \E p \in Providers :
               \/ \E n \in StakeSignals \ {signal[p]} : SetProviderStake(p, n)
               \/ \E class \in {ClassOf[i] : i \in Intents} : RecordProviderSlash(p, class)
      PROVE  UNCHANGED <<intents, budget, stake>> /\ clock' \in Nat
  <2>1. CASE Tick
    BY <2>1 DEF Tick, MoneyTyped
  <2>2. CASE UNCHANGED marketVars
    BY <2>2 DEF marketVars, MoneyTyped
  <2>3. ASSUME NEW p \in Providers, NEW n, SetProviderStake(p, n) PROVE UNCHANGED <<intents, budget, stake, clock>>
    BY <2>3 DEF SetProviderStake
  <2>4. ASSUME NEW p \in Providers, NEW c, RecordProviderSlash(p, c) PROVE UNCHANGED <<intents, budget, stake, clock>>
    BY <2>4 DEF RecordProviderSlash
  <2> QED
    BY <1>9, <2>1, <2>2, <2>3, <2>4 DEF MoneyTyped
<1> QED
  BY <1>a, <1>b, <1>d, <1>1, <1>2, <1>3, <1>4, <1>6, <1>7, <1>8, <1>9, HeldStays DEF MarketNext, MoneyTyped

\* The keys of reputation ledgers, and what one says; nothing, when it is not there.
ToolKeys == Providers \X {ClassOf[i] : i \in Intents}
Won(k) == IF k \in DOMAIN ledger THEN ledger[k].successful ELSE <<>>
Slashed(k) == IF k \in DOMAIN ledger THEN ledger[k].slashes ELSE 0

\* The intents and reports it has to count.
ClosedWith(s, k) == {i \in DOMAIN intents : intents[i].state = s /\ KeyOf(i) = k}
EarnedBy(k) == [i \in ClosedWith("paid", k) |-> Max({intents[i].reserved, 1})]
Reported(k) == {n \in DOMAIN reports : reports[n] = k}
WeightsOf(s) == [n \in DOMAIN s |-> s[n].weight]

Books(k) ==
  /\ Total(WeightsOf(Won(k))) = Total(EarnedBy(k))
  /\ Slashed(k) = Cardinality(ClosedWith("refunded", k)) + Cardinality(Reported(k))

\* The ledgers that exist are those of ReputationEarned.
LEMMA BooksAreReputation == ReputationEarned <=> \A k \in DOMAIN ledger : Books(k)
BY DEF ReputationEarned, Books, Won, Slashed, EarnedBy, ClosedWith, Reported, WeightsOf, SumSeq, SumOver, KeyOf

\* And no ledger means that there is nothing to count.
LEMMA NoBooks ==
  ASSUME LedgersTyped, NEW k \in ToolKeys, k \notin DOMAIN ledger
  PROVE  Books(k)
<1>1. ClosedWith("paid", k) = {} /\ ClosedWith("refunded", k) = {} /\ Reported(k) = {}
  BY DEF ClosedWith, Reported, LedgersTyped
<1>2. Won(k) = <<>> /\ Slashed(k) = 0
  BY DEF Won, Slashed
<1>3. Total(WeightsOf(<<>>)) = 0
  <2> DEFINE f == WeightsOf(<<>>)
  <2>1. f = [x \in {} |-> f[x]]
    BY DEF WeightsOf
  <2> HIDE DEF f
  <2> QED
    BY <2>1, TotalEmpty DEF f
<1>4. Total(EarnedBy(k)) = 0
  <2> DEFINE f == EarnedBy(k)
  <2>1. f = [x \in {} |-> f[x]]
    BY <1>1 DEF EarnedBy
  <2> HIDE DEF f
  <2> QED
    BY <2>1, TotalEmpty DEF f
<1>5. Cardinality({}) = 0
  BY FS_EmptySet
<1>6. Total(WeightsOf(Won(k))) = Total(EarnedBy(k))
  BY <1>2, <1>3, <1>4, Zenon
<1>7. Cardinality(ClosedWith("refunded", k)) = 0 /\ Cardinality(Reported(k)) = 0
  BY <1>1, <1>5, Zenon
<1>8. Slashed(k) = Cardinality(ClosedWith("refunded", k)) + Cardinality(Reported(k))
  BY <1>2, <1>7
<1> QED
  BY <1>6, <1>8 DEF Books

\* One settlement more.
LEMMA WeightsAppend ==
  ASSUME NEW s \in Seq(Settlements), NEW e \in Settlements
  PROVE  /\ Total(WeightsOf(Append(s, e))) = Total(WeightsOf(s)) + e.weight
         /\ Append(s, e) \in Seq(Settlements)
<1> DEFINE f == WeightsOf(s)
           g == WeightsOf(Append(s, e))
           n == Len(s)
<1>1. n \in Nat /\ DOMAIN s = 1 .. n /\ \A x \in 1 .. n : s[x] \in Settlements
  OBVIOUS
<1>2. DOMAIN Append(s, e) = 1 .. n + 1 /\ \A x \in 1 .. n + 1 : Append(s, e)[x] = IF x = n + 1 THEN e ELSE s[x]
  OBVIOUS
<1> HIDE DEF n
<1>3. (\A x \in 1 .. n : s[x].weight \in Nat) /\ e.weight \in Nat
  BY <1>1 DEF Settlements
<1>4. f \in [1 .. n -> Nat] /\ \A x \in 1 .. n : f[x] = s[x].weight
  BY <1>1, <1>3 DEF WeightsOf
<1>5. g \in [1 .. n + 1 -> Nat] /\ g[n + 1] = e.weight /\ \A x \in 1 .. n : f[x] = g[x]
  BY <1>1, <1>2, <1>3, <1>4 DEF WeightsOf
<1> HIDE DEF f, g
<1>6. Total(g) = Total(f) + g[n + 1]
  BY <1>1, <1>4, <1>5, TotalNext
<1> QED
  BY <1>5, <1>6 DEF f, g

\* A step that closes no intent.
ClosedStay ==
  \A j : /\ j \in DOMAIN intents /\ intents[j].state \in {"paid", "refunded"}
              <=> j \in DOMAIN intents' /\ intents'[j].state \in {"paid", "refunded"}
         /\ j \in DOMAIN intents /\ intents[j].state \in {"paid", "refunded"} => intents'[j] = intents[j]

\* Then what was earned and refunded with a provider stays.
LEMMA CountsStay ==
  ASSUME ClosedStay, NEW k
  PROVE  EarnedBy(k)' = EarnedBy(k) /\ ClosedWith("refunded", k)' = ClosedWith("refunded", k)
<1>1. ClosedWith("paid", k)' = ClosedWith("paid", k) /\ ClosedWith("refunded", k)' = ClosedWith("refunded", k)
  BY DEF ClosedStay, ClosedWith, KeyOf
<1>2. \A j \in ClosedWith("paid", k) : intents'[j] = intents[j]
  BY DEF ClosedStay, ClosedWith
<1> QED
  BY <1>1, <1>2 DEF EarnedBy

\* An intent is closed: only its key counts it, once.
LEMMA CountsClose ==
  ASSUME IntentsTyped, NEW i \in DOMAIN intents, Live(i), NEW s \in {"paid", "refunded"},
         intents' = [intents EXCEPT ![i].state = s], NEW k
  PROVE  /\ Total(EarnedBy(k)') = Total(EarnedBy(k))
              + (IF s = "paid" /\ k = KeyOf(i) THEN Max({intents[i].reserved, 1}) ELSE 0)
         /\ Cardinality(ClosedWith("refunded", k)') = Cardinality(ClosedWith("refunded", k))
              + (IF s = "refunded" /\ k = KeyOf(i) THEN 1 ELSE 0)
<1> DEFINE P == ClosedWith("paid", k)
           R == ClosedWith("refunded", k)
<1>1. IsFiniteSet(P) /\ IsFiniteSet(R) /\ i \notin P /\ i \notin R
  BY FS_Subset DEF IntentsTyped, Live, ClosedWith
<1>2. /\ ClosedWith("paid", k)' = IF s = "paid" /\ k = KeyOf(i) THEN P \cup {i} ELSE P
      /\ ClosedWith("refunded", k)' = IF s = "refunded" /\ k = KeyOf(i) THEN R \cup {i} ELSE R
  BY DEF IntentsTyped, IntentRecords, Live, ClosedWith, KeyOf
<1>3. \A j \in DOMAIN intents : intents'[j].reserved = intents[j].reserved /\ intents[j].reserved \in Nat
  BY DEF IntentsTyped, IntentRecords
<1>4. P \subseteq DOMAIN intents
  BY DEF ClosedWith
<1>5. \A j \in DOMAIN intents : Max({intents[j].reserved, 1}) \in Nat
  BY <1>3, MaxOfTwo
<1>6. Cardinality(R) \in Nat /\ Cardinality(R \cup {i}) = Cardinality(R) + 1
  BY <1>1, FS_CardinalityType, FS_AddElement
<1> DEFINE f == EarnedBy(k)
           g == EarnedBy(k)'
<1>7. f \in [P -> Nat] /\ (s = "paid" /\ k = KeyOf(i) =>
                             g \in [P \cup {i} -> Nat] /\ g[i] = Max({intents[i].reserved, 1}) /\ \A x \in P : f[x] = g[x])
  <2>1. f = [j \in P |-> Max({intents[j].reserved, 1})]
    BY DEF EarnedBy
  <2>2. g = [j \in ClosedWith("paid", k)' |-> Max({intents'[j].reserved, 1})]
    BY DEF EarnedBy
  <2> HIDE DEF f, g, P
  <2> QED
    BY <1>1, <1>2, <1>3, <1>4, <1>5, <2>1, <2>2
<1>8. ~(s = "paid" /\ k = KeyOf(i)) => g = f
  <2>1. f = [j \in P |-> Max({intents[j].reserved, 1})]
    BY DEF EarnedBy
  <2>2. g = [j \in ClosedWith("paid", k)' |-> Max({intents'[j].reserved, 1})]
    BY DEF EarnedBy
  <2> HIDE DEF f, g, P
  <2> QED
    <3> SUFFICES ASSUME ~(s = "paid" /\ k = KeyOf(i)) PROVE g = f
      OBVIOUS
    <3>1. ClosedWith("paid", k)' = P
      BY <1>2
    <3>2. \A j \in P : Max({intents'[j].reserved, 1}) = Max({intents[j].reserved, 1})
      BY <1>3, <1>4
    <3> QED
      BY <2>1, <2>2, <3>1, <3>2
<1> HIDE DEF f, g, P, R
<1>9. Total(f) \in Nat
  BY <1>1, <1>7, TotalNat
<1>10. s = "paid" /\ k = KeyOf(i) => Total(g) = Total(f) + g[i]
  BY <1>1, <1>7, TotalWith
<1>11. Total(g) = Total(f) + (IF s = "paid" /\ k = KeyOf(i) THEN Max({intents[i].reserved, 1}) ELSE 0)
  BY <1>7, <1>8, <1>9, <1>10
<1>12. Cardinality(ClosedWith("refunded", k)') = Cardinality(R) + (IF s = "refunded" /\ k = KeyOf(i) THEN 1 ELSE 0)
  <2>1. CASE s = "refunded" /\ k = KeyOf(i)
    BY <1>2, <1>6, <2>1
  <2>2. CASE ~(s = "refunded" /\ k = KeyOf(i))
    BY <1>2, <1>6, <2>2
  <2> QED
    BY <2>1, <2>2
<1> QED
  BY <1>11, <1>12 DEF f, g, R

\* What a touched ledger and a slashed one say.
LEMMA TouchedIs ==
  ASSUME LedgersTyped, MoneyTyped, NEW i \in Intents, NEW p, NEW tm \in Nat
  PROVE  LET t == Touched(i, p, tm)
             k == <<p, ClassOf[i]>>
         IN /\ t \in LedgerRecords /\ IsFiniteSet(t.clients)
            /\ t.successful = Won(k) /\ t.slashes = Slashed(k)
<1> DEFINE k == <<p, ClassOf[i]>>
           l == Get(ledger, k, NewLedger)
           c == l.clients \cup {ClientOf[i]}
<1>1. l \in LedgerRecords /\ IsFiniteSet(l.clients) /\ l.successful = Won(k) /\ l.slashes = Slashed(k)
  <2> HIDE DEF k
  <2> QED
    BY FS_EmptySet DEF Get, NewLedger, LedgerRecords, LedgersTyped, MoneyTyped, Won, Slashed
<1>2. IsFiniteSet(c) /\ c \in SUBSET {ClientOf[j] : j \in Intents}
  BY <1>1, FS_AddElement DEF LedgerRecords
<1>3. Touched(i, p, tm) = [l EXCEPT !.now = tm, !.clients = c]
  BY DEF Touched
<1> HIDE DEF l, c, k
<1> DEFINE t == [l EXCEPT !.now = tm, !.clients = c]
<1>4. t \in LedgerRecords /\ t.clients = c /\ t.successful = l.successful /\ t.slashes = l.slashes
  BY <1>1, <1>2, Zenon DEF LedgerRecords
<1> QED
  BY <1>1, <1>2, <1>3, <1>4 DEF k

\* A slash adds one to the ledger of the provider.
LEMMA SlashedIs ==
  ASSUME LedgersTyped, MoneyTyped, NEW k, NEW tm \in Nat
  PROVE  LET l == Get(ledger, k, NewLedger)
             t == [l EXCEPT !.slashes = @ + 1, !.now = tm]
         IN /\ t \in LedgerRecords /\ IsFiniteSet(t.clients)
            /\ t.successful = Won(k) /\ t.slashes = Slashed(k) + 1
<1> DEFINE l == Get(ledger, k, NewLedger)
           m == l.slashes + 1
<1>1. l \in LedgerRecords /\ IsFiniteSet(l.clients) /\ l.successful = Won(k) /\ l.slashes = Slashed(k)
  BY FS_EmptySet DEF Get, NewLedger, LedgerRecords, LedgersTyped, MoneyTyped, Won, Slashed
<1>2. m \in Nat
  BY <1>1 DEF LedgerRecords
<1> DEFINE t == [l EXCEPT !.slashes = m, !.now = tm]
<1>3. [l EXCEPT !.slashes = @ + 1, !.now = tm] = t
  OBVIOUS
<1> HIDE DEF l, m
<1>4. t \in LedgerRecords /\ t.clients = l.clients /\ t.successful = l.successful /\ t.slashes = m
  BY <1>1, <1>2, Zenon DEF LedgerRecords
<1> QED
  BY <1>1, <1>3, <1>4 DEF l, m

\* A ledger is written: the others say what they said.
LEMMA LedgerWritten ==
  ASSUME LedgersTyped, NEW k \in ToolKeys, NEW t \in LedgerRecords, IsFiniteSet(t.clients),
         ledger' = Put(ledger, k, t)
  PROVE  /\ DOMAIN ledger' = DOMAIN ledger \cup {k}
         /\ DOMAIN ledger' \subseteq Providers \X {ClassOf[i] : i \in Intents}
         /\ ledger' \in [DOMAIN ledger' -> LedgerRecords]
         /\ \A x \in DOMAIN ledger' : IsFiniteSet(ledger'[x].clients)
         /\ \A x \in ToolKeys : /\ Won(x)' = IF x = k THEN t.successful ELSE Won(x)
                                /\ Slashed(x)' = IF x = k THEN t.slashes ELSE Slashed(x)
<1>1. DOMAIN ledger' = DOMAIN ledger \cup {k}
  BY DEF Put
<1>2. \A x \in DOMAIN ledger' : ledger'[x] = IF x = k THEN t ELSE ledger[x]
  BY DEF Put
<1>3. ledger' = [x \in DOMAIN ledger' |-> ledger'[x]]
  BY DEF Put
<1> QED
  BY <1>1, <1>2, <1>3 DEF LedgersTyped, ToolKeys, Won, Slashed

\* The settlement written for a paid intent.
LEMMA SettlementIs ==
  ASSUME LedgersTyped, MoneyTyped, IntentsTyped, NEW i \in DOMAIN intents, NEW tm \in Nat
  PROVE  LET t == [Touched(i, intents[i].provider, tm) EXCEPT
                     !.successful = Append(@, [at |-> intents[i].delivered, weight |-> Max({intents[i].reserved, 1})])]
         IN /\ t \in LedgerRecords /\ IsFiniteSet(t.clients)
            /\ Total(WeightsOf(t.successful)) = Total(WeightsOf(Won(KeyOf(i)))) + Max({intents[i].reserved, 1})
            /\ t.slashes = Slashed(KeyOf(i))
<1> DEFINE b == Touched(i, intents[i].provider, tm)
           w == Max({intents[i].reserved, 1})
           e == [at |-> intents[i].delivered, weight |-> w]
           s == Append(b.successful, e)
<1>1. b \in LedgerRecords /\ IsFiniteSet(b.clients) /\ b.successful = Won(KeyOf(i)) /\ b.slashes = Slashed(KeyOf(i))
  <2>1. i \in Intents
    BY DEF IntentsTyped
  <2> QED
    BY <2>1, TouchedIs DEF KeyOf
<1>2. w \in Nat
  BY MaxOfTwo DEF IntentsTyped, IntentRecords
<1> HIDE DEF w
<1>3. e \in Settlements /\ e.weight = w
  BY <1>2 DEF IntentsTyped, IntentRecords, Settlements
<1>4. b.successful \in Seq(Settlements)
  BY <1>1 DEF LedgerRecords
<1> HIDE DEF b, e
<1>5. s \in Seq(Settlements) /\ Total(WeightsOf(s)) = Total(WeightsOf(b.successful)) + e.weight
  BY <1>3, <1>4, WeightsAppend
<1> DEFINE t == [b EXCEPT !.successful = s]
<1> HIDE DEF s
<1>6. t \in LedgerRecords /\ t.clients = b.clients /\ t.successful = s /\ t.slashes = b.slashes
  BY <1>1, <1>5 DEF LedgerRecords
<1>7. [Touched(i, intents[i].provider, tm) EXCEPT
         !.successful = Append(@, [at |-> intents[i].delivered, weight |-> Max({intents[i].reserved, 1})])] = t
  BY DEF b, w, e, s
<1>8. IsFiniteSet(t.clients) /\ Total(WeightsOf(t.successful)) = Total(WeightsOf(Won(KeyOf(i)))) + w
  BY <1>1, <1>3, <1>5, <1>6
<1> HIDE DEF t
<1> QED
  BY <1>1, <1>6, <1>7, <1>8 DEF w

\* The reports of one key are finitely many, and one more when it is reported.
LEMMA ReportsFinite ==
  ASSUME LedgersTyped, NEW k
  PROVE  IsFiniteSet(Reported(k)) /\ Cardinality(Reported(k)) \in Nat
<1>1. reports \in Seq(DOMAIN ledger)
  BY DEF LedgersTyped
<1>2. DOMAIN reports = 1 .. Len(reports) /\ Len(reports) \in Nat
  BY <1>1
<1>3. IsFiniteSet(1 .. Len(reports))
  BY <1>2, FS_Interval
<1>4. IsFiniteSet(Reported(k))
  BY <1>2, <1>3, FS_Subset DEF Reported
<1> QED
  BY <1>4, FS_CardinalityType

\* A report more counts for its provider.
LEMMA ReportsAppend ==
  ASSUME LedgersTyped, NEW b, reports' = Append(reports, b), NEW k
  PROVE  Cardinality(Reported(k)') = Cardinality(Reported(k)) + (IF k = b THEN 1 ELSE 0)
<1> DEFINE n == Len(reports) + 1
<1>1. reports \in Seq(DOMAIN ledger)
  BY DEF LedgersTyped
<1>2. DOMAIN reports = 1 .. Len(reports) /\ Len(reports) \in Nat
  BY <1>1
<1>3. reports \in Seq(DOMAIN ledger \cup {b}) /\ b \in DOMAIN ledger \cup {b}
  BY <1>1
<1>4. DOMAIN reports' = 1 .. n /\ \A x \in 1 .. n : reports'[x] = IF x = n THEN b ELSE reports[x]
  BY <1>3
<1>5. n \notin Reported(k)
  BY <1>2 DEF Reported
<1>6. Reported(k)' = IF k = b THEN Reported(k) \cup {n} ELSE Reported(k)
  BY <1>2, <1>4 DEF Reported
<1>7. IsFiniteSet(Reported(k)) /\ Cardinality(Reported(k)) \in Nat
  BY ReportsFinite
<1> HIDE DEF n
<1>8. Cardinality(Reported(k) \cup {n}) = Cardinality(Reported(k)) + 1
  BY <1>5, <1>7, FS_AddElement
<1>9. CASE k = b
  BY <1>6, <1>8, <1>9
<1>10. CASE k # b
  BY <1>6, <1>7, <1>10
<1> QED
  BY <1>9, <1>10

\* The ledgers of the market over every kind of step.
LEMMA BooksKept ==
  ASSUME MarketInv, [MarketNext]_marketVars
  PROVE  LedgersTyped' /\ ReputationEarned'
<1> USE MarketAssumption
<1>a. \A k \in ToolKeys : Books(k)
  BY BooksAreReputation, NoBooks DEF MarketInv
<1>b. IntentsTyped /\ MoneyTyped /\ LedgersTyped
  BY DEF MarketInv
<1>c. ASSUME LedgersTyped', \A k \in ToolKeys : Books(k)' PROVE ReputationEarned'
  BY <1>c DEF ReputationEarned, Books, Won, Slashed, EarnedBy, ClosedWith, Reported, WeightsOf, SumSeq, SumOver,
              KeyOf, LedgersTyped, ToolKeys
<1>d. ASSUME UNCHANGED <<ledger, reports>>, ClosedStay PROVE \A k \in ToolKeys : Books(k)'
  <2> SUFFICES ASSUME NEW k \in ToolKeys PROVE Books(k)'
    OBVIOUS
  <2>1. Won(k)' = Won(k) /\ Slashed(k)' = Slashed(k) /\ Reported(k)' = Reported(k)
    BY <1>d DEF Won, Slashed, Reported
  <2> QED
    BY <1>a, <1>d, <2>1, CountsStay DEF Books
<1>1. ASSUME NEW i \in Intents, PostIntent(i) PROVE LedgersTyped' /\ \A k \in ToolKeys : Books(k)'
  <2>1. LedgersTyped'
    BY <1>1, <1>b DEF PostIntent, LedgersTyped, Put, NewIntent, KeyOf
  <2>2. ClosedStay
    BY <1>1 DEF PostIntent, Put, NewIntent, ClosedStay
  <2> QED
    BY <1>1, <1>d, <2>1, <2>2 DEF PostIntent
<1>2. ASSUME NEW i \in DOMAIN intents, NEW q \in Quotes, MatchIntent(i, q)
      PROVE  LedgersTyped' /\ \A k \in ToolKeys : Books(k)'
  <2> DEFINE k0 == <<q.provider, ClassOf[i]>>
             t == Touched(i, q.provider, clock)
             rec == [intents[i] EXCEPT !.state = "matched", !.provider = q.provider,
                                       !.reserved = q.price, !.locked = q.price * SlashMultiplier]
  <2>1. i \in Intents /\ k0 \in ToolKeys /\ clock \in Nat
    BY <1>b DEF IntentsTyped, ToolKeys, MoneyTyped
  <2>2. t \in LedgerRecords /\ IsFiniteSet(t.clients) /\ t.successful = Won(k0) /\ t.slashes = Slashed(k0)
    BY <1>b, <2>1, TouchedIs
  <2>3. /\ ledger' = Put(ledger, k0, t) /\ signal' = signal /\ reports' = reports
        /\ intents' = [intents EXCEPT ![i] = rec] /\ intents[i].state = "proposed"
    BY <1>2 DEF MatchIntent, Matches
  <2>4. rec.state = "matched" /\ rec.provider = q.provider
    BY <1>b DEF IntentsTyped, IntentRecords
  <2> HIDE DEF t, rec, k0
  <2>5. /\ DOMAIN ledger' = DOMAIN ledger \cup {k0}
        /\ DOMAIN ledger' \subseteq Providers \X {ClassOf[j] : j \in Intents}
        /\ ledger' \in [DOMAIN ledger' -> LedgerRecords]
        /\ \A x \in DOMAIN ledger' : IsFiniteSet(ledger'[x].clients)
        /\ \A x \in ToolKeys : /\ Won(x)' = IF x = k0 THEN t.successful ELSE Won(x)
                               /\ Slashed(x)' = IF x = k0 THEN t.slashes ELSE Slashed(x)
    BY <1>b, <2>1, <2>2, <2>3, LedgerWritten
  <2>6. LedgersTyped'
    <3>1. reports' \in Seq(DOMAIN ledger')
      BY <1>b, <2>3, <2>5 DEF LedgersTyped
    <3>2. \A j \in DOMAIN intents' : intents'[j].state # "proposed" => KeyOf(j)' \in DOMAIN ledger'
      BY <1>b, <2>3, <2>4, <2>5 DEF LedgersTyped, KeyOf, k0, IntentsTyped
    <3> QED
      BY <1>b, <2>3, <2>5, <3>1, <3>2 DEF LedgersTyped
  <2>7. ClosedStay
    BY <1>b, <2>3, <2>4 DEF ClosedStay, IntentsTyped
  <2>8. ASSUME NEW k \in ToolKeys PROVE Books(k)'
    <3>1. Won(k)' = Won(k) /\ Slashed(k)' = Slashed(k) /\ Reported(k)' = Reported(k)
      BY <2>2, <2>3, <2>5 DEF Reported
    <3> QED
      BY <1>a, <2>7, <3>1, CountsStay DEF Books
  <2> QED
    BY <2>6, <2>8
<1>3. ASSUME NEW i \in DOMAIN intents, PostReceipt(i) \/ SubmitChallenge(i)
      PROVE  LedgersTyped' /\ \A k \in ToolKeys : Books(k)'
  <2>1. /\ DOMAIN intents' = DOMAIN intents /\ intents[i].state \in {"matched", "delivered"}
        /\ intents'[i].state \in {"delivered", "disputed"} /\ intents'[i].provider = intents[i].provider
        /\ \A j \in DOMAIN intents \ {i} : intents'[j] = intents[j]
        /\ UNCHANGED <<ledger, signal, reports>>
    <3>1. CASE PostReceipt(i)
      <4> DEFINE d == clock + (IF TierOf[i] = "trusted" THEN 0 ELSE ChallengeWindow)
                 rec == [intents[i] EXCEPT !.state = "delivered", !.delivered = clock, !.deadline = d]
      <4>1. intents' = [intents EXCEPT ![i] = rec]
        BY <3>1 DEF PostReceipt
      <4> HIDE DEF d
      <4>2. rec.state = "delivered" /\ rec.provider = intents[i].provider
        BY <1>b DEF IntentsTyped, IntentRecords
      <4> HIDE DEF rec
      <4> QED
        BY <1>b, <3>1, <4>1, <4>2 DEF PostReceipt, IntentsTyped
    <3>2. CASE SubmitChallenge(i)
      BY <1>b, <3>2 DEF SubmitChallenge, IntentsTyped, IntentRecords
    <3> QED
      BY <1>3, <3>1, <3>2
  <2>2. LedgersTyped'
    BY <1>b, <2>1 DEF LedgersTyped, KeyOf
  <2>3. ClosedStay
    BY <2>1 DEF ClosedStay
  <2> QED
    BY <1>d, <2>1, <2>2, <2>3
<1>4. ASSUME NEW i \in DOMAIN intents, Live(i), NEW s \in {"paid", "refunded"}, NEW tm \in Nat,
             intents' = [intents EXCEPT ![i].state = s], UNCHANGED <<signal, reports>>,
             ledger' = IF s = "paid" THEN OnSettledPaid(i, tm) ELSE OnSlash(intents[i].provider, ClassOf[i], tm)
      PROVE  LedgersTyped' /\ \A k \in ToolKeys : Books(k)'
  <2> DEFINE k0 == KeyOf(i)
             p == [Touched(i, intents[i].provider, tm) EXCEPT
                     !.successful = Append(@, [at |-> intents[i].delivered, weight |-> Max({intents[i].reserved, 1})])]
             l == Get(ledger, k0, NewLedger)
             r == [l EXCEPT !.slashes = @ + 1, !.now = tm]
             t == IF s = "paid" THEN p ELSE r
             w == Max({intents[i].reserved, 1})
  <2>1. k0 \in ToolKeys
    BY <1>4, <1>b DEF KeyOf, ToolKeys, IntentsTyped, Live
  <2>2. ledger' = Put(ledger, k0, t)
    BY <1>4 DEF OnSettledPaid, OnSlash, KeyOf
  <2>3. /\ p \in LedgerRecords /\ IsFiniteSet(p.clients)
        /\ Total(WeightsOf(p.successful)) = Total(WeightsOf(Won(k0))) + w
        /\ p.slashes = Slashed(k0)
    BY <1>b, SettlementIs
  <2>4. r \in LedgerRecords /\ IsFiniteSet(r.clients) /\ r.successful = Won(k0) /\ r.slashes = Slashed(k0) + 1
    BY <1>b, SlashedIs
  <2> HIDE DEF p, r, l, w
  <2>5. t \in LedgerRecords /\ IsFiniteSet(t.clients)
    BY <2>3, <2>4
  <2> HIDE DEF t
  <2>6. /\ DOMAIN ledger' = DOMAIN ledger \cup {k0}
        /\ DOMAIN ledger' \subseteq Providers \X {ClassOf[j] : j \in Intents}
        /\ ledger' \in [DOMAIN ledger' -> LedgerRecords]
        /\ \A x \in DOMAIN ledger' : IsFiniteSet(ledger'[x].clients)
        /\ \A x \in ToolKeys : /\ Won(x)' = IF x = k0 THEN t.successful ELSE Won(x)
                               /\ Slashed(x)' = IF x = k0 THEN t.slashes ELSE Slashed(x)
    <3> HIDE DEF k0
    <3> QED
      BY <1>b, <2>1, <2>2, <2>5, LedgerWritten
  <2>7. LedgersTyped'
    <3>1. reports' \in Seq(DOMAIN ledger')
      BY <1>4, <1>b, <2>6 DEF LedgersTyped
    <3>2. \A j \in DOMAIN intents' : intents'[j].state # "proposed" => KeyOf(j)' \in DOMAIN ledger'
      <4>1. \A j \in DOMAIN intents : intents'[j].provider = intents[j].provider /\ (j # i => intents'[j] = intents[j])
        BY <1>4, <1>b DEF IntentsTyped, IntentRecords
      <4>2. DOMAIN intents' = DOMAIN intents
        BY <1>4
      <4> QED
        BY <1>4, <1>b, <2>6, <4>1, <4>2 DEF LedgersTyped, KeyOf, Live
    <3> QED
      BY <1>4, <1>b, <2>6, <3>1, <3>2 DEF LedgersTyped
  <2>8. ASSUME NEW k \in ToolKeys PROVE Books(k)'
    <3>1. /\ Total(EarnedBy(k)') = Total(EarnedBy(k)) + (IF s = "paid" /\ k = k0 THEN w ELSE 0)
          /\ Cardinality(ClosedWith("refunded", k)') = Cardinality(ClosedWith("refunded", k))
                                                         + (IF s = "refunded" /\ k = k0 THEN 1 ELSE 0)
      BY <1>4, <1>b, CountsClose DEF w
    <3>2. Reported(k)' = Reported(k)
      BY <1>4 DEF Reported
    <3>3. /\ Total(WeightsOf(Won(k))) = Total(EarnedBy(k))
          /\ Slashed(k) = Cardinality(ClosedWith("refunded", k)) + Cardinality(Reported(k))
      BY <1>a DEF Books
    <3>4. /\ Total(EarnedBy(k)) \in Nat /\ Cardinality(ClosedWith("refunded", k)) \in Nat /\ Cardinality(Reported(k)) \in Nat
      <4>0. \A j \in DOMAIN intents : intents[j].reserved \in Nat
        BY <1>b DEF IntentsTyped, IntentRecords
      <4>4. \A j \in DOMAIN intents : Max({intents[j].reserved, 1}) \in Nat
        BY <4>0, MaxOfTwo
      <4>1. EarnedBy(k) \in [ClosedWith("paid", k) -> Nat]
        BY <4>4 DEF EarnedBy, ClosedWith
      <4>2. IsFiniteSet(ClosedWith("paid", k)) /\ IsFiniteSet(ClosedWith("refunded", k))
        BY <1>b, FS_Subset DEF ClosedWith, IntentsTyped
      <4>3. IsFiniteSet(Reported(k))
        BY <1>b, ReportsFinite
      <4> QED
        BY <4>1, <4>2, <4>3, TotalNat, FS_CardinalityType
    <3>5. WeightsOf(Won(k)') = WeightsOf(Won(k))'
      BY DEF WeightsOf
    <3> HIDE DEF k0
    <3>6. CASE k # k0
      <4>1. Won(k)' = Won(k) /\ Slashed(k)' = Slashed(k)
        BY <2>6, <3>6
      <4> QED
        BY <3>1, <3>2, <3>3, <3>4, <3>6, <4>1 DEF Books
    <3>7. CASE k = k0 /\ s = "paid"
      <4>1. t = p
        BY <3>7 DEF t
      <4>2. Total(WeightsOf(Won(k)')) = Total(EarnedBy(k)) + w /\ Slashed(k)' = Slashed(k)
        BY <2>3, <2>6, <3>3, <3>7, <4>1
      <4>3. Total(EarnedBy(k)') = Total(EarnedBy(k)) + w /\ Cardinality(ClosedWith("refunded", k)') = Cardinality(ClosedWith("refunded", k))
        BY <3>1, <3>4, <3>7
      <4> QED
        BY <3>2, <3>3, <4>2, <4>3 DEF Books
    <3>8. CASE k = k0 /\ s = "refunded"
      <4>1. t = r
        BY <3>8 DEF t
      <4>2. Won(k)' = Won(k) /\ Slashed(k)' = Slashed(k) + 1
        BY <2>4, <2>6, <3>8, <4>1
      <4>3. Total(EarnedBy(k)') = Total(EarnedBy(k)) /\ Cardinality(ClosedWith("refunded", k)') = Cardinality(ClosedWith("refunded", k)) + 1
        BY <3>1, <3>4, <3>8
      <4>4. Slashed(k)' = Cardinality(ClosedWith("refunded", k)') + Cardinality(Reported(k)')
        BY <3>2, <3>3, <3>4, <4>2, <4>3
      <4> QED
        BY <3>3, <4>2, <4>3, <4>4 DEF Books
    <3> QED
      BY <3>6, <3>7, <3>8
  <2> QED
    BY <2>7, <2>8
<1>5. ASSUME NEW i \in DOMAIN intents, SettleAfterWindow(i) \/ SettleTrusted(i) \/ \E d \in {"provider", "challenger"} : ResolveChallenge(i, d)
      PROVE  LedgersTyped' /\ \A k \in ToolKeys : Books(k)'
  <2>1. clock \in Nat /\ intents[i].deadline \in Nat
    BY <1>b DEF MoneyTyped, IntentsTyped, IntentRecords
  <2>2. \E s \in {"paid", "refunded"}, tm \in Nat :
          /\ Live(i) /\ intents' = [intents EXCEPT ![i].state = s] /\ UNCHANGED <<signal, reports>>
          /\ ledger' = IF s = "paid" THEN OnSettledPaid(i, tm) ELSE OnSlash(intents[i].provider, ClassOf[i], tm)
    BY <1>5, <2>1 DEF SettleAfterWindow, SettleTrusted, ResolveChallenge, PayOut, Live
  <2> QED
    BY <1>4, <2>2
<1>6. ASSUME NEW p \in Providers, NEW c \in {ClassOf[i] : i \in Intents}, RecordProviderSlash(p, c)
      PROVE  LedgersTyped' /\ \A k \in ToolKeys : Books(k)'
  <2> DEFINE k0 == <<p, c>>
             l == Get(ledger, k0, NewLedger)
             t == [l EXCEPT !.slashes = @ + 1, !.now = clock]
  <2>1. k0 \in ToolKeys /\ clock \in Nat
    BY <1>b DEF ToolKeys, MoneyTyped
  <2>2. /\ ledger' = Put(ledger, k0, t) /\ reports' = Append(reports, k0) /\ UNCHANGED <<intents, signal>>
    BY <1>6 DEF RecordProviderSlash, OnSlash
  <2>4. t \in LedgerRecords /\ IsFiniteSet(t.clients) /\ t.successful = Won(k0) /\ t.slashes = Slashed(k0) + 1
    BY <1>b, <2>1, SlashedIs
  <2> HIDE DEF t, l, k0
  <2>6. /\ DOMAIN ledger' = DOMAIN ledger \cup {k0}
        /\ DOMAIN ledger' \subseteq Providers \X {ClassOf[j] : j \in Intents}
        /\ ledger' \in [DOMAIN ledger' -> LedgerRecords]
        /\ \A x \in DOMAIN ledger' : IsFiniteSet(ledger'[x].clients)
        /\ \A x \in ToolKeys : /\ Won(x)' = IF x = k0 THEN t.successful ELSE Won(x)
                               /\ Slashed(x)' = IF x = k0 THEN t.slashes ELSE Slashed(x)
    BY <1>b, <2>1, <2>2, <2>4, LedgerWritten
  <2>7. LedgersTyped'
    <3>1. reports \in Seq(DOMAIN ledger') /\ k0 \in DOMAIN ledger'
      BY <1>b, <2>6 DEF LedgersTyped
    <3>2. reports' \in Seq(DOMAIN ledger')
      BY <2>2, <3>1
    <3> QED
      BY <1>b, <2>2, <2>6, <3>2 DEF LedgersTyped, KeyOf
  <2>8. ClosedStay
    BY <2>2 DEF ClosedStay
  <2>9. ASSUME NEW k \in ToolKeys PROVE Books(k)'
    <3>3. Cardinality(Reported(k)') = Cardinality(Reported(k)) + (IF k = k0 THEN 1 ELSE 0) /\ Cardinality(Reported(k)) \in Nat
      BY <1>b, <2>2, ReportsFinite, ReportsAppend
    <3>4. Won(k)' = Won(k) /\ Slashed(k)' = Slashed(k) + (IF k = k0 THEN 1 ELSE 0) /\ Slashed(k) \in Nat
      <4>1. Slashed(k) \in Nat
        BY <1>b DEF Slashed, LedgersTyped, LedgerRecords
      <4> QED
        BY <2>4, <2>6, <4>1
    <3>5. EarnedBy(k)' = EarnedBy(k) /\ ClosedWith("refunded", k)' = ClosedWith("refunded", k)
      BY <2>8, CountsStay
    <3>6. Cardinality(ClosedWith("refunded", k)) \in Nat
      BY <1>b, FS_Subset, FS_CardinalityType DEF ClosedWith, IntentsTyped
    <3>7. /\ Total(WeightsOf(Won(k))) = Total(EarnedBy(k))
          /\ Slashed(k) = Cardinality(ClosedWith("refunded", k)) + Cardinality(Reported(k))
      BY <1>a DEF Books
    <3>8. Slashed(k)' = Cardinality(ClosedWith("refunded", k)') + Cardinality(Reported(k)')
      BY <3>3, <3>4, <3>5, <3>6, <3>7
    <3> QED
      BY <3>4, <3>5, <3>7, <3>8 DEF Books
  <2> QED
    BY <2>7, <2>9
<1>7. ASSUME UNCHANGED <<intents, ledger, reports>>, signal' \in [Providers -> Nat]
      PROVE  LedgersTyped' /\ \A k \in ToolKeys : Books(k)'
  <2>1. LedgersTyped'
    BY <1>7, <1>b DEF LedgersTyped, KeyOf
  <2>2. ClosedStay
    BY <1>7 DEF ClosedStay
  <2> QED
    BY <1>7, <1>d, <2>1, <2>2
<1>8. signal \in [Providers -> Nat]
  BY <1>b DEF LedgersTyped
<1>9. ASSUME \/ AddDeposit \/ Tick \/ UNCHANGED marketVars
             \/ \E i \in DOMAIN intents, q \in Quotes : MatchFails(i, q)
             \/ \E p \in Providers : \E n \in StakeSignals \ {signal[p]} : SetProviderStake(p, n)
      PROVE  UNCHANGED <<intents, ledger, reports>> /\ signal' \in [Providers -> Nat]
  <2>1. CASE AddDeposit
    BY <1>8, <2>1 DEF AddDeposit
  <2>2. CASE Tick
    BY <1>8, <2>2 DEF Tick
  <2>3. CASE UNCHANGED marketVars
    BY <1>8, <2>3 DEF marketVars
  <2>4. ASSUME NEW i \in DOMAIN intents, NEW q \in Quotes, MatchFails(i, q)
        PROVE  UNCHANGED <<intents, ledger, reports, signal>>
    BY <2>4 DEF MatchFails
  <2>5. ASSUME NEW p \in Providers, NEW n \in StakeSignals, SetProviderStake(p, n)
        PROVE  UNCHANGED <<intents, ledger, reports>> /\ signal' \in [Providers -> Nat]
    BY <1>8, <2>5 DEF SetProviderStake
  <2> QED
    BY <1>8, <1>9, <2>1, <2>2, <2>3, <2>4, <2>5
<1>10. LedgersTyped' /\ \A k \in ToolKeys : Books(k)'
  <2>1. CASE UNCHANGED marketVars
    BY <1>7, <1>9, <2>1
  <2>2. CASE MarketNext
    BY <1>1, <1>2, <1>3, <1>5, <1>6, <1>7, <1>9, <2>2 DEF MarketNext
  <2> QED
    BY <2>1, <2>2
<1> QED
  BY <1>10, <1>c

\* The market keeps its invariant.
LEMMA MarketKept == ASSUME MarketInv, [MarketNext]_marketVars PROVE MarketInv'
BY MoneyKept, BooksKept DEF MarketInv

\* The inductive invariant holds in every behaviour of the market.
LEMMA MarketAlways == MarketSpec => []MarketInv
<1>1. MarketInit => MarketInv
  BY MarketStart
<1>2. MarketInv /\ [MarketNext]_marketVars => MarketInv'
  BY MarketKept
<1> QED
  BY <1>1, <1>2, PTL DEF MarketSpec

\* What the escrow sees of the market.
Deals == [i \in Intents |-> DealOf(i)]
Sums == [i \in Intents |-> IF i \in DOMAIN intents THEN intents[i].reserved ELSE 0]

\* What the budget has left.
LEMMA AvailableIs ==
  ASSUME MoneyTyped
  PROVE  Available \in Nat /\ Available = budget.deposited - budget.reserved - budget.spent
BY DEF MoneyTyped, Available, Minus

\* A step that shows in one deal.
LEMMA OneDeal ==
  ASSUME IntentsTyped, NEW i \in DOMAIN intents, DOMAIN intents' = DOMAIN intents,
         \A j \in DOMAIN intents \ {i} : intents'[j] = intents[j]
  PROVE  /\ Deals' = [Deals EXCEPT ![i] = DealOf(i)'] /\ Sums' = [Sums EXCEPT ![i] = intents'[i].reserved]
         /\ i \in Intents /\ Deals[i] = DealOf(i) /\ Sums[i] = intents[i].reserved
<1>1. i \in Intents /\ DOMAIN intents \subseteq Intents
  BY DEF IntentsTyped
<1>2. \A j \in Intents \ {i} : DealOf(j)' = DealOf(j)
  BY DEF DealOf, Live
<1>3. Deals' = [j \in Intents |-> DealOf(j)']
  BY DEF Deals
<1>4. Deals' = [Deals EXCEPT ![i] = DealOf(i)']
  <2>1. Deals = [j \in Intents |-> DealOf(j)]
    BY DEF Deals
  <2> QED
    BY <1>1, <1>2, <1>3, <2>1
<1>5. Sums' = [Sums EXCEPT ![i] = intents'[i].reserved]
  BY <1>1 DEF Sums
<1> QED
  BY <1>1, <1>4, <1>5 DEF Deals, Sums

\* Every step of the market is a step of the escrow or changes nothing there.
LEMMA EscrowStep ==
  ASSUME MarketInv, MarketInv', [MarketNext]_marketVars
  PROVE  [Abstract!EscrowNext]_(Abstract!escrowVars)
<1> USE MarketAssumption
<1>a. IntentsTyped /\ MoneyTyped /\ IntentsTyped' /\ MoneyTyped'
  BY DEF MarketInv
<1>b. /\ Available \in Nat /\ Available = budget.deposited - budget.reserved - budget.spent
      /\ Available' \in Nat /\ Available' = budget'.deposited - budget'.reserved - budget'.spent
  BY <1>a DEF MoneyTyped, Available, Minus
<1>c. SUFFICES \/ Available' = Available /\ Deals' = Deals /\ Sums' = Sums
               \/ \E d \in Intents : /\ Deals[d] = "held" /\ Deals' = [Deals EXCEPT ![d] = "paid"]
                                     /\ Available' = Available /\ Sums' = Sums
               \/ \E d \in Intents : /\ Deals[d] = "held" /\ Deals' = [Deals EXCEPT ![d] = "returned"]
                                     /\ Available' = Available + Sums[d] /\ Sums' = Sums
               \/ \E d \in Intents, n \in {q.price : q \in Quotes} :
                     /\ Deals[d] = "open" /\ n <= Available /\ Available' = Available - n
                     /\ Deals' = [Deals EXCEPT ![d] = "held"] /\ Sums' = [Sums EXCEPT ![d] = n]
               \/ Available' \in Nat /\ Available' > Available /\ Deals' = Deals /\ Sums' = Sums
  BY DEF Abstract!EscrowNext, Abstract!escrowVars, Abstract!Hold, Abstract!Pay, Abstract!Return, Abstract!Refill,
         Deals, Sums
<1>d. ASSUME UNCHANGED intents PROVE Deals' = Deals /\ Sums' = Sums
  BY <1>d DEF Deals, Sums, DealOf, Live
<1>1. ASSUME NEW i \in Intents, PostIntent(i) PROVE Available' = Available /\ Deals' = Deals /\ Sums' = Sums
  <2>1. \A j \in Intents : DealOf(j)' = DealOf(j)
    BY <1>1 DEF PostIntent, Put, NewIntent, DealOf, Live
  <2>2. Deals' = Deals
    BY <2>1 DEF Deals
  <2>3. Sums' = Sums
    BY <1>1 DEF PostIntent, Put, NewIntent, Sums
  <2> QED
    BY <1>1, <2>2, <2>3 DEF PostIntent, Available
<1>2. ASSUME NEW i \in DOMAIN intents, NEW q \in Quotes, MatchIntent(i, q)
      PROVE  \E d \in Intents, n \in {r.price : r \in Quotes} :
                     /\ Deals[d] = "open" /\ n <= Available /\ Available' = Available - n
                     /\ Deals' = [Deals EXCEPT ![d] = "held"] /\ Sums' = [Sums EXCEPT ![d] = n]
  <2> DEFINE rec == [intents[i] EXCEPT !.state = "matched", !.provider = q.provider,
                                       !.reserved = q.price, !.locked = q.price * SlashMultiplier]
  <2>1. intents' = [intents EXCEPT ![i] = rec] /\ intents[i].state = "proposed"
    BY <1>2 DEF MatchIntent, Matches
  <2>2. rec.state = "matched" /\ rec.reserved = q.price
    BY <1>a DEF IntentsTyped, IntentRecords
  <2> HIDE DEF rec
  <2>3. /\ DOMAIN intents' = DOMAIN intents /\ (\A j \in DOMAIN intents \ {i} : intents'[j] = intents[j])
        /\ intents'[i] = rec
    BY <1>a, <2>1 DEF IntentsTyped
  <2>4. DealOf(i) = "open" /\ DealOf(i)' = "held"
    BY <2>1, <2>2, <2>3 DEF DealOf, Live
  <2>5. q.price \in Nat /\ q.price <= Available /\ budget' = [budget EXCEPT !.reserved = @ + q.price]
    BY <1>2 DEF MatchIntent, CanReserve
  <2>6. Available' = Available - q.price
    BY <1>a, <1>b, <2>5 DEF MoneyTyped
  <2>7. /\ Deals' = [Deals EXCEPT ![i] = "held"] /\ Sums' = [Sums EXCEPT ![i] = q.price]
        /\ i \in Intents /\ Deals[i] = "open"
    BY <1>a, <2>2, <2>3, <2>4, OneDeal
  <2> QED
    BY <2>5, <2>6, <2>7
<1>3. ASSUME NEW i \in DOMAIN intents, PostReceipt(i) \/ SubmitChallenge(i)
      PROVE  Available' = Available /\ Deals' = Deals /\ Sums' = Sums
  <2>1. /\ DOMAIN intents' = DOMAIN intents /\ (\A j \in DOMAIN intents \ {i} : intents'[j] = intents[j])
        /\ intents'[i].reserved = intents[i].reserved /\ Live(i) /\ Live(i)' /\ UNCHANGED budget
    <3>1. CASE PostReceipt(i)
      <4> DEFINE d == clock + (IF TierOf[i] = "trusted" THEN 0 ELSE ChallengeWindow)
                 rec == [intents[i] EXCEPT !.state = "delivered", !.delivered = clock, !.deadline = d]
      <4>1. intents' = [intents EXCEPT ![i] = rec]
        BY <3>1 DEF PostReceipt
      <4> HIDE DEF d
      <4>2. rec.state = "delivered" /\ rec.reserved = intents[i].reserved
        BY <1>a DEF IntentsTyped, IntentRecords
      <4> HIDE DEF rec
      <4> QED
        BY <1>a, <3>1, <4>1, <4>2 DEF PostReceipt, IntentsTyped, Live
    <3>2. CASE SubmitChallenge(i)
      BY <1>a, <3>2 DEF SubmitChallenge, IntentsTyped, IntentRecords, Live
    <3> QED
      BY <1>3, <3>1, <3>2
  <2>2. DealOf(i) = "held" /\ DealOf(i)' = "held"
    BY <2>1 DEF DealOf, Live
  <2>3. Deals' = [Deals EXCEPT ![i] = "held"] /\ Sums' = [Sums EXCEPT ![i] = Sums[i]] /\ Deals[i] = "held" /\ i \in Intents
    BY <1>a, <2>1, <2>2, OneDeal
  <2> QED
    BY <2>1, <2>3 DEF Available, Deals, Sums
<1>4. ASSUME NEW i \in DOMAIN intents, Live(i), NEW s \in {"paid", "refunded"},
             intents' = [intents EXCEPT ![i].state = s], intents[i].reserved <= budget.reserved,
             budget' = IF s = "paid" THEN Settled(intents[i].reserved) ELSE Refunded(intents[i].reserved)
      PROVE  \E d \in Intents :
               /\ Deals[d] = "held" /\ Sums' = Sums
               /\ \/ Deals' = [Deals EXCEPT ![d] = "paid"] /\ Available' = Available
                  \/ Deals' = [Deals EXCEPT ![d] = "returned"] /\ Available' = Available + Sums[d]
  <2> DEFINE n == intents[i].reserved
  <2>1. /\ DOMAIN intents' = DOMAIN intents /\ (\A j \in DOMAIN intents \ {i} : intents'[j] = intents[j])
        /\ intents'[i].reserved = n /\ intents'[i].state = s /\ n \in Nat
    BY <1>4, <1>a DEF IntentsTyped, IntentRecords
  <2>2. DealOf(i) = "held" /\ DealOf(i)' = IF s = "paid" THEN "paid" ELSE "returned"
    BY <1>4, <2>1 DEF DealOf, Live
  <2>3. Deals' = [Deals EXCEPT ![i] = DealOf(i)'] /\ Sums' = [Sums EXCEPT ![i] = n] /\ Deals[i] = "held" /\ i \in Intents /\ Sums[i] = n
    BY <1>a, <2>1, <2>2, OneDeal
  <2>4. Sums' = Sums
    BY <2>3 DEF Sums
  <2>5. budget \in [deposited: Nat, reserved: Nat, spent: Nat]
    BY <1>a DEF MoneyTyped
  <2>6. CASE s = "paid"
    <3> DEFINE x == budget.reserved - n
               y == budget.spent + n
    <3>1. budget' = [budget EXCEPT !.reserved = x, !.spent = y]
      BY <1>4, <2>6 DEF Settled
    <3>5. x \in Int /\ y \in Int
      BY <2>1, <2>5
    <3> HIDE DEF x, y
    <3>2. budget'.deposited = budget.deposited /\ budget'.reserved = x /\ budget'.spent = y
      BY <2>5, <3>1, Zenon
    <3>3. Available' = Available
      BY <1>b, <2>1, <2>5, <3>2 DEF x, y
    <3> QED
      BY <2>2, <2>3, <2>4, <2>6, <3>3
  <2>7. CASE s = "refunded"
    <3>1. budget' = [budget EXCEPT !.reserved = @ - n]
      BY <1>4, <2>7 DEF Refunded
    <3>2. budget'.deposited = budget.deposited /\ budget'.reserved = budget.reserved - n /\ budget'.spent = budget.spent
      BY <2>5, <3>1
    <3>3. Available' = Available + n
      BY <1>b, <2>1, <2>5, <3>2
    <3> QED
      BY <2>2, <2>3, <2>4, <2>7, <3>3
  <2> QED
    BY <2>6, <2>7
<1>5. ASSUME NEW i \in DOMAIN intents, SettleAfterWindow(i) \/ SettleTrusted(i) \/ \E d \in {"provider", "challenger"} : ResolveChallenge(i, d)
      PROVE  \E d \in Intents :
               /\ Deals[d] = "held" /\ Sums' = Sums
               /\ \/ Deals' = [Deals EXCEPT ![d] = "paid"] /\ Available' = Available
                  \/ Deals' = [Deals EXCEPT ![d] = "returned"] /\ Available' = Available + Sums[d]
  <2>1. \E s \in {"paid", "refunded"} :
          /\ Live(i) /\ intents' = [intents EXCEPT ![i].state = s] /\ intents[i].reserved <= budget.reserved
          /\ budget' = IF s = "paid" THEN Settled(intents[i].reserved) ELSE Refunded(intents[i].reserved)
    BY <1>5 DEF SettleAfterWindow, SettleTrusted, ResolveChallenge, PayOut, Live
  <2> QED
    BY <1>4, <2>1
<1>6. ASSUME AddDeposit
      PROVE  Available' \in Nat /\ Available' > Available /\ Deals' = Deals /\ Sums' = Sums
  <2>1. Available' = Available + 1
    BY <1>6, <1>a, <1>b DEF AddDeposit, MoneyTyped
  <2> QED
    BY <1>6, <1>b, <1>d, <2>1 DEF AddDeposit
<1>7. ASSUME UNCHANGED <<intents, budget>> PROVE Available' = Available /\ Deals' = Deals /\ Sums' = Sums
  BY <1>7, <1>d DEF Available
<1>8. ASSUME \/ Tick \/ UNCHANGED marketVars
             \/ \E i \in DOMAIN intents, q \in Quotes : MatchFails(i, q)
             \/ \E p \in Providers : \/ \E n \in StakeSignals \ {signal[p]} : SetProviderStake(p, n)
                                     \/ \E class \in {ClassOf[i] : i \in Intents} : RecordProviderSlash(p, class)
      PROVE  UNCHANGED <<intents, budget>>
  BY <1>8 DEF Tick, marketVars, MatchFails, SetProviderStake, RecordProviderSlash
<1> QED
  BY <1>1, <1>2, <1>3, <1>5, <1>6, <1>7, <1>8 DEF MarketNext

\* The market of wallet/src/market.rs and challenge.rs implements the escrow for
\* every set of intents, quotes and providers: a matched price is paid or given
\* back once, and no more than the deposit is ever held.
THEOREM MarketIsEscrow == MarketSpec => IsEscrow
<1>1. MarketInit => Abstract!EscrowInit
  <2> SUFFICES ASSUME MarketInit PROVE Abstract!EscrowInit
    OBVIOUS
  <2>1. MoneyTyped /\ intents = Empty
    BY MarketStart DEF MarketInv, MarketInit
  <2>2. Available \in Nat
    BY <2>1, AvailableIs
  <2>3. \A i \in Intents : DealOf(i) = "open" /\ i \notin DOMAIN intents
    BY <2>1 DEF DealOf, Empty
  <2> QED
    BY <2>2, <2>3 DEF Abstract!EscrowInit
<1>2. MarketInv /\ MarketInv' /\ [MarketNext]_marketVars => [Abstract!EscrowNext]_(Abstract!escrowVars)
  BY EscrowStep
<1> QED
  BY <1>1, <1>2, MarketAlways, PTL DEF MarketSpec, IsEscrow, Abstract!EscrowSpec

\* Multiplication, division and subtraction of u128 keep the order.
LEMMA TimesNat == ASSUME NEW a \in Nat, NEW b \in Nat PROVE a * b \in Nat
OBVIOUS

\* Arithmetic: products and quotients grow with their first factor.
LEMMA TimesLess == ASSUME NEW k \in Nat, NEW a \in Nat, NEW b \in Nat, a <= b PROVE k * a <= k * b
OBVIOUS

\* Quotients of naturals are naturals, ...
LEMMA DivNat == ASSUME NEW a \in Nat, NEW b \in Nat \ {0} PROVE a \div b \in Nat
OBVIOUS

\* ... and grow with the dividend.
LEMMA DivLess == ASSUME NEW b \in Nat \ {0}, NEW a \in Nat, NEW c \in Nat, a <= c PROVE a \div b <= c \div b
OBVIOUS

\* Saturating subtraction grows with the first and falls with the second argument.
LEMMA MinusLess ==
  ASSUME NEW a \in Nat, NEW b \in Nat, NEW x \in Nat, NEW y \in Nat, a <= b, y <= x
  PROVE  Minus(a, x) <= Minus(b, y) /\ Minus(a, x) \in Nat /\ Minus(b, y) \in Nat
BY DEF Minus

\* A part of a score, k * a / d, grows with a.
LEMMA PartLess ==
  ASSUME NEW k \in Nat, NEW d \in Nat \ {0}, NEW a \in Nat, NEW b \in Nat, a <= b
  PROVE  (k * a) \div d <= (k * b) \div d /\ (k * a) \div d \in Nat /\ (k * b) \div d \in Nat
<1> DEFINE x == k * a
           y == k * b
<1>1. x \in Nat /\ y \in Nat /\ x <= y
  BY TimesNat, TimesLess
<1> HIDE DEF x, y
<1>2. x \div d <= y \div d /\ x \div d \in Nat /\ y \div d \in Nat
  BY <1>1, DivLess, DivNat
<1> QED
  BY <1>2 DEF x, y

\* ilog2_u128 grows with its argument.
LEMMA Ilog2Less ==
  ASSUME NEW x \in Nat, NEW y \in Nat, x <= y
  PROVE  Ilog2(x) <= Ilog2(y) /\ Ilog2(x) \in Nat /\ Ilog2(y) \in Nat
<1> DEFINE L(z) == {0} \cup {k \in 1 .. z : 2 ^ k <= z}
<1>1. L(x) \in SUBSET Nat /\ L(y) \in SUBSET Nat /\ L(x) # {} /\ L(y) # {}
  OBVIOUS
<1>2. L(x) \subseteq L(y)
  OBVIOUS
<1>3. (\A k \in L(x) : k <= x) /\ \A k \in L(y) : k <= y
  OBVIOUS
<1>4. Ilog2(x) = Max(L(x)) /\ Ilog2(y) = Max(L(y))
  BY DEF Ilog2
<1> HIDE DEF L
<1>5. Max(L(x)) \in L(x) /\ Max(L(y)) \in L(y) /\ \A k \in L(y) : k <= Max(L(y))
  BY <1>1, <1>3, MaxIs
<1> QED
  BY <1>1, <1>2, <1>4, <1>5

\* What a settlement adds to a score as of a time.
SettlementScore(e, tm) == ((Rep.success * e.weight * RecencyFactor(e.at, tm)) \div Rep.micro) \div Rep.milli

\* It is a natural number.
LEMMA SettlementScoreNat ==
  ASSUME NEW e \in Settlements, NEW tm \in Nat
  PROVE  SettlementScore(e, tm) \in Nat
<1> USE MarketAssumption
<1>1. e.weight \in Nat /\ e.at \in Nat /\ Rep.success \in Nat /\ Rep.halfLife \in Nat
      /\ Rep.micro \in Nat \ {0} /\ Rep.milli \in Nat \ {0}
  BY DEF Settlements
<1>2. RecencyFactor(e.at, tm) \in Nat
  <2>1. CASE Rep.halfLife = 0
    BY <1>1, <2>1 DEF RecencyFactor
  <2>2. CASE Rep.halfLife # 0
    <3> DEFINE a == Rep.micro * Rep.halfLife
               b == Rep.halfLife + Minus(tm, e.at)
    <3>1. a \in Nat
      BY <1>1, TimesNat
    <3>2. b \in Nat \ {0}
      BY <1>1, <2>2 DEF Minus
    <3>3. RecencyFactor(e.at, tm) = a \div b
      BY <2>2 DEF RecencyFactor
    <3> HIDE DEF a, b
    <3> QED
      BY <3>1, <3>2, <3>3, DivNat
  <2> QED
    BY <2>1, <2>2
<1> DEFINE r == RecencyFactor(e.at, tm)
           w == Rep.success * e.weight
           p == w * r
           q == p \div Rep.micro
<1>3. w \in Nat
  BY <1>1, TimesNat
<1> HIDE DEF r, w
<1>4. p \in Nat
  BY <1>2, <1>3, TimesNat DEF r
<1> HIDE DEF p
<1>5. q \in Nat
  BY <1>1, <1>4, DivNat
<1> HIDE DEF q
<1>6. q \div Rep.milli \in Nat
  BY <1>1, <1>5, DivNat
<1> QED
  BY <1>6 DEF SettlementScore, q, p, r, w

\* The parts of a score.
EarnedScore(l) == Total([n \in DOMAIN l.successful |-> SettlementScore(l.successful[n], l.now)])
AgeScore(l) == (Rep.age * (Minus(l.now, l.firstSeen) \div Rep.day)) \div Rep.milli
StakeScore(t) == (Rep.stakeLog * Ilog2(t + 1)) \div Rep.milli
ClientScore(l) == (Rep.diversity * Min({Cardinality(l.clients), Rep.maxClients})) \div Rep.milli
SlashScore(l) == (Rep.slash * l.slashes) \div Rep.milli

\* A score is the sum of its parts less that of the slashes.
LEMMA ScoreIs ==
  ASSUME NEW l, NEW t
  PROVE  Score(l, t) = Minus(EarnedScore(l) + AgeScore(l) + StakeScore(t) + ClientScore(l), SlashScore(l))
BY DEF Score, EarnedScore, AgeScore, StakeScore, ClientScore, SlashScore, SettlementScore, SumSeq, SumOver

\* A sum of four grows with each.
LEMMA FourParts ==
  ASSUME NEW a1 \in Nat, NEW a2 \in Nat, NEW a3 \in Nat, NEW a4 \in Nat,
         NEW b1 \in Nat, NEW b2 \in Nat, NEW b3 \in Nat, NEW b4 \in Nat,
         a1 <= b1, a2 <= b2, a3 <= b3, a4 <= b4
  PROVE  /\ a1 + a2 + a3 + a4 \in Nat /\ b1 + b2 + b3 + b4 \in Nat
         /\ a1 + a2 + a3 + a4 <= b1 + b2 + b3 + b4
OBVIOUS

\* The parameters of a score.
LEMMA RepNat ==
  /\ Rep.age \in Nat /\ Rep.stakeLog \in Nat /\ Rep.diversity \in Nat /\ Rep.maxClients \in Nat /\ Rep.slash \in Nat
  /\ Rep.milli \in Nat \ {0} /\ Rep.day \in Nat \ {0}
BY MarketAssumption

\* The first of some settlements do not earn more than all of them.
LEMMA PrefixEarns ==
  ASSUME NEW r \in Seq(Settlements), NEW s \in Seq(Settlements), Len(r) <= Len(s),
         \A x \in 1 .. Len(r) : r[x] = s[x], NEW tm \in Nat
  PROVE  LET f == [n \in DOMAIN r |-> SettlementScore(r[n], tm)]
             g == [n \in DOMAIN s |-> SettlementScore(s[n], tm)]
         IN Total(f) <= Total(g) /\ Total(f) \in Nat /\ Total(g) \in Nat
<1> DEFINE f == [n \in DOMAIN r |-> SettlementScore(r[n], tm)]
           g == [n \in DOMAIN s |-> SettlementScore(s[n], tm)]
           S == 1 .. Len(r)
           U == 1 .. Len(s)
<1>1. DOMAIN r = S /\ DOMAIN s = U /\ Len(r) \in Nat /\ Len(s) \in Nat
  OBVIOUS
<1>2. S \subseteq U
  BY <1>1
<1>3. (\A n \in S : r[n] \in Settlements) /\ \A n \in U : s[n] \in Settlements
  OBVIOUS
<1>4. IsFiniteSet(U) /\ IsFiniteSet(S)
  BY <1>1, FS_Interval
<1>5. \A n \in S : r[n] = s[n]
  OBVIOUS
<1> HIDE DEF S, U
<1>6. f \in [S -> Nat] /\ g \in [U -> Nat]
  BY <1>1, <1>3, SettlementScoreNat
<1>7. \A n \in S : f[n] = g[n]
  BY <1>1, <1>2, <1>5
<1> HIDE DEF f, g
<1>8. \A n \in S : f[n] <= g[n]
  BY <1>6, <1>7
<1>9. Total(f) <= Total(g) /\ Total(f) \in Nat /\ Total(g) \in Nat
  BY <1>2, <1>4, <1>6, <1>8, TotalLess, TotalNat
<1> QED
  BY <1>9 DEF f, g

\* Fewer settlements or clients, less stake and more slashes do not score more.
LEMMA ScoreLess ==
  ASSUME NEW l \in LedgerRecords, NEW m \in LedgerRecords, IsFiniteSet(l.clients), m.clients \subseteq l.clients,
         m.now = l.now, m.firstSeen = l.firstSeen, l.slashes <= m.slashes,
         Len(m.successful) <= Len(l.successful),
         \A x \in 1 .. Len(m.successful) : m.successful[x] = l.successful[x],
         NEW t \in Nat, NEW u \in Nat, t <= u
  PROVE  Score(m, t) <= Score(l, u) /\ Score(m, t) \in Nat /\ Score(l, u) \in Nat
<1>1. EarnedScore(m) <= EarnedScore(l) /\ EarnedScore(m) \in Nat /\ EarnedScore(l) \in Nat
  <2> DEFINE r == m.successful
             s == l.successful
             tm == l.now
  <2>1. s \in Seq(Settlements) /\ r \in Seq(Settlements) /\ tm \in Nat
    BY DEF LedgerRecords
  <2>2. Len(r) <= Len(s) /\ \A x \in 1 .. Len(r) : r[x] = s[x]
    OBVIOUS
  <2>3. EarnedScore(m) = Total([n \in DOMAIN r |-> SettlementScore(r[n], tm)])
    BY DEF EarnedScore
  <2>4. EarnedScore(l) = Total([n \in DOMAIN s |-> SettlementScore(s[n], tm)])
    BY DEF EarnedScore
  <2> HIDE DEF r, s, tm
  <2> QED
    BY <2>1, <2>2, <2>3, <2>4, PrefixEarns
<1>2. AgeScore(m) = AgeScore(l) /\ AgeScore(l) \in Nat
  <2> DEFINE a == Minus(l.now, l.firstSeen)
             b == a \div Rep.day
  <2>1. a \in Nat
    BY DEF Minus, LedgerRecords
  <2> HIDE DEF a
  <2>2. b \in Nat /\ b <= b
    BY <2>1, DivNat, RepNat, SMTT(30)
  <2> HIDE DEF b
  <2>3. (Rep.age * b) \div Rep.milli \in Nat
    BY <2>2, PartLess, RepNat
  <2> QED
    BY <2>3 DEF AgeScore, a, b
<1>3. StakeScore(t) <= StakeScore(u) /\ StakeScore(t) \in Nat /\ StakeScore(u) \in Nat
  <2> DEFINE x == t + 1
             y == u + 1
             a == Ilog2(x)
             b == Ilog2(y)
  <2>0. x \in Nat /\ y \in Nat /\ x <= y
    OBVIOUS
  <2> HIDE DEF x, y
  <2>1. a \in Nat /\ b \in Nat /\ a <= b
    BY <2>0, Ilog2Less
  <2> HIDE DEF a, b
  <2>2. (Rep.stakeLog * a) \div Rep.milli <= (Rep.stakeLog * b) \div Rep.milli
        /\ (Rep.stakeLog * a) \div Rep.milli \in Nat /\ (Rep.stakeLog * b) \div Rep.milli \in Nat
    BY <2>1, PartLess, RepNat
  <2> QED
    BY <2>2 DEF StakeScore, a, b, x, y
<1>4. ClientScore(m) <= ClientScore(l) /\ ClientScore(m) \in Nat /\ ClientScore(l) \in Nat
  <2> DEFINE c == Cardinality(m.clients)
             d == Cardinality(l.clients)
             e == Rep.maxClients
             a == Min({c, e})
             b == Min({d, e})
  <2>1. c \in Nat /\ d \in Nat /\ c <= d /\ e \in Nat
    BY FS_Subset, FS_CardinalityType, RepNat
  <2> HIDE DEF c, d, e
  <2>2. a = (IF c <= e THEN c ELSE e) /\ b = (IF d <= e THEN d ELSE e)
    BY <2>1, MaxOfTwo
  <2>3. a \in Nat /\ b \in Nat /\ a <= b
    BY <2>1, <2>2
  <2> HIDE DEF a, b
  <2>4. (Rep.diversity * a) \div Rep.milli <= (Rep.diversity * b) \div Rep.milli
        /\ (Rep.diversity * a) \div Rep.milli \in Nat /\ (Rep.diversity * b) \div Rep.milli \in Nat
    BY <2>3, PartLess, RepNat
  <2> QED
    BY <2>4 DEF ClientScore, a, b, c, d, e
<1>5. SlashScore(l) <= SlashScore(m) /\ SlashScore(m) \in Nat /\ SlashScore(l) \in Nat
  <2>1. l.slashes \in Nat /\ m.slashes \in Nat
    BY DEF LedgerRecords
  <2> QED
    BY <2>1, PartLess, RepNat DEF SlashScore
<1> DEFINE a1 == EarnedScore(m)
           a2 == AgeScore(m)
           a3 == StakeScore(t)
           a4 == ClientScore(m)
           b1 == EarnedScore(l)
           b2 == AgeScore(l)
           b3 == StakeScore(u)
           b4 == ClientScore(l)
           a == a1 + a2 + a3 + a4
           b == b1 + b2 + b3 + b4
           c == SlashScore(m)
           d == SlashScore(l)
<1>6. a \in Nat /\ b \in Nat /\ a <= b
  <2> HIDE DEF a1, a2, a3, a4, b1, b2, b3, b4
  <2>1. /\ a1 \in Nat /\ b1 \in Nat /\ a1 <= b1 /\ a2 \in Nat /\ b2 \in Nat /\ a2 <= b2
        /\ a3 \in Nat /\ b3 \in Nat /\ a3 <= b3 /\ a4 \in Nat /\ b4 \in Nat /\ a4 <= b4
    BY <1>1, <1>2, <1>3, <1>4 DEF a1, a2, a3, a4, b1, b2, b3, b4
  <2> QED
    BY <2>1, FourParts
<1>8. c \in Nat /\ d \in Nat /\ d <= c
  BY <1>5
<1> HIDE DEF a, b, c, d
<1>7. Minus(a, c) <= Minus(b, d) /\ Minus(a, c) \in Nat /\ Minus(b, d) \in Nat
  BY <1>8, <1>6, MinusLess
<1> QED
  BY <1>7, ScoreIs DEF a, b, c, d

\* bootstrap_stake_multiplier_bps falls with the score, from its ceiling to 1.
LEMMA MultiplierFalls ==
  ASSUME NEW a \in Nat, NEW b \in Nat, a <= b
  PROVE  /\ StakeMultiplier(b) <= StakeMultiplier(a)
         /\ StakeMultiplier(b) \in Rep.bps .. Max({Rep.zeroStake, Rep.bps})
<1> USE MarketAssumption
<1> DEFINE F == Rep.fullTrust
           m == Minus(Rep.zeroStake, Rep.bps)
           E(x) == (m * (F - x)) \div F
<1>1. m \in Nat /\ F \in Nat /\ Rep.bps \in Nat /\ Rep.zeroStake \in Nat
  BY DEF Minus
<1>2. \A x \in Nat : StakeMultiplier(x) = IF x >= F THEN Rep.bps ELSE Rep.bps + E(x)
  BY DEF StakeMultiplier
<1>3. ASSUME NEW x \in Nat, NEW y \in Nat, x <= y, y < F
      PROVE  E(y) <= E(x) /\ E(x) \in Nat /\ E(y) \in Nat
  <2>1. F \in Nat \ {0} /\ F - x \in Nat /\ F - y \in Nat /\ F - y <= F - x
    BY <1>1, <1>3
  <2> HIDE DEF F, m
  <2> QED
    BY <1>1, <2>1, PartLess DEF m, F
<1>4. F # 0 => E(0) = m
  <2> HIDE DEF m, F
  <2> QED
    BY <1>1 DEF m, F
<1>5. Max({Rep.zeroStake, Rep.bps}) = Rep.bps + m
  BY <1>1, MaxOfTwo DEF Minus
<1> HIDE DEF E, F, m
<1>6. CASE b >= F
  <2>1. StakeMultiplier(b) = Rep.bps
    BY <1>2, <1>6
  <2>2. CASE a >= F
    BY <1>1, <1>2, <1>5, <2>1, <2>2
  <2>3. CASE a < F
    BY <1>1, <1>2, <1>3, <1>5, <2>1, <2>3
  <2> QED
    BY <1>1, <2>2, <2>3
<1>7. CASE b < F
  <2>1. StakeMultiplier(b) = Rep.bps + E(b) /\ StakeMultiplier(a) = Rep.bps + E(a)
    BY <1>1, <1>2, <1>7
  <2>2. E(b) <= E(a) /\ E(a) \in Nat /\ E(b) \in Nat
    BY <1>3, <1>7
  <2>3. E(b) <= E(0) /\ E(0) = m
    BY <1>1, <1>3, <1>4, <1>7
  <2> QED
    BY <1>1, <1>5, <2>1, <2>2, <2>3
<1> QED
  BY <1>1, <1>6, <1>7

\* The first n elements of a sequence.
LEMMA PrefixIs ==
  ASSUME NEW A, NEW s \in Seq(A), NEW n \in 0 .. Len(s)
  PROVE  SubSeq(s, 1, n) \in Seq(A) /\ Len(SubSeq(s, 1, n)) = n /\ \A j \in 1 .. n : SubSeq(s, 1, n)[j] = s[j]
<1>1. Len(s) \in Nat /\ \A j \in 1 .. n : s[j] \in A
  OBVIOUS
<1>2. Len(SubSeq(s, 1, n)) = n
  BY <1>1
<1>3. \A j \in 1 .. n : SubSeq(s, 1, n)[j] = s[j]
  BY <1>1
<1>4. SubSeq(s, 1, n) \in Seq(A)
  BY <1>1
<1> QED
  BY <1>2, <1>3, <1>4

\* Trust is ordered in every state of the market.
LEMMA TrustOrdered == ASSUME MarketInv PROVE TrustIsOrdered
<1> USE MarketAssumption
<1> SUFFICES ASSUME NEW k \in DOMAIN ledger
             PROVE  LET l == ledger[k]
                        score == Score(l, signal[k[1]])
                    IN /\ StakeMultiplier(score) \in Rep.bps .. Max({Rep.zeroStake, Rep.bps})
                       /\ \A n \in 0 .. Len(l.successful), d \in 0 .. 1, c \in SUBSET l.clients, t \in StakeSignals :
                            LET less == Score([l EXCEPT !.successful = SubSeq(@, 1, n), !.slashes = @ + d, !.clients = c], t)
                            IN t <= signal[k[1]] => less <= score /\ StakeMultiplier(score) <= StakeMultiplier(less)
  BY DEF TrustIsOrdered
<1> DEFINE l == ledger[k]
           u == signal[k[1]]
           score == Score(l, u)
<1>1. l \in LedgerRecords /\ IsFiniteSet(l.clients) /\ u \in Nat /\ l.successful \in Seq(Settlements) /\ l.slashes \in Nat
  <2>1. k[1] \in Providers
    BY DEF MarketInv, LedgersTyped
  <2> QED
    BY <2>1 DEF MarketInv, LedgersTyped, LedgerRecords
<1> HIDE DEF l, u
<1>2. score \in Nat
  <2>1. l.slashes <= l.slashes /\ Len(l.successful) <= Len(l.successful) /\ u <= u
    BY <1>1
  <2> QED
    BY <1>1, <2>1, ScoreLess
<1>3. StakeMultiplier(score) \in Rep.bps .. Max({Rep.zeroStake, Rep.bps})
  <2> HIDE DEF score
  <2>1. score <= score
    BY <1>2
  <2> QED
    BY <1>2, <2>1, MultiplierFalls
<1>4. ASSUME NEW n \in 0 .. Len(l.successful), NEW d \in 0 .. 1, NEW c \in SUBSET l.clients, NEW t \in StakeSignals, t <= u
      PROVE  LET less == Score([l EXCEPT !.successful = SubSeq(@, 1, n), !.slashes = @ + d, !.clients = c], t)
             IN less <= score /\ StakeMultiplier(score) <= StakeMultiplier(less)
  <2> DEFINE s == SubSeq(l.successful, 1, n)
             x == l.slashes + d
             m == [l EXCEPT !.successful = s, !.slashes = x, !.clients = c]
             less == Score(m, t)
  <2>1. s \in Seq(Settlements) /\ Len(s) = n /\ \A j \in 1 .. n : s[j] = l.successful[j]
    BY PrefixIs, <1>1
  <2>2. x \in Nat /\ l.slashes <= x
    <3> DEFINE y == l.slashes
    <3>1. y \in Nat /\ d \in Nat
      BY <1>1
    <3> HIDE DEF y
    <3>2. y + d \in Nat /\ y <= y + d
      BY <3>1
    <3> QED
      BY <3>2 DEF y
  <2> HIDE DEF s, x
  <2>3. c \in SUBSET {ClientOf[i] : i \in Intents}
    BY <1>1 DEF LedgerRecords
  <2>4. /\ m \in LedgerRecords /\ m.clients = c /\ m.successful = s /\ m.slashes = x
        /\ m.now = l.now /\ m.firstSeen = l.firstSeen
    BY <1>1, <2>1, <2>2, <2>3, Zenon DEF LedgerRecords
  <2>5. m = [l EXCEPT !.successful = SubSeq(@, 1, n), !.slashes = @ + d, !.clients = c]
    BY DEF s, x
  <2> HIDE DEF m
  <2>6. Len(m.successful) <= Len(l.successful) /\ \A j \in 1 .. Len(m.successful) : m.successful[j] = l.successful[j]
    <3> DEFINE len == Len(l.successful)
    <3>1. len \in Nat
      BY <1>1, LenProperties
    <3>2. n \in 0 .. len
      OBVIOUS
    <3> HIDE DEF len
    <3>3. n <= len
      BY <3>1, <3>2
    <3> QED
      BY <2>1, <2>4, <3>1, <3>3 DEF len
  <2>7. t \in Nat
    OBVIOUS
  <2>8. less <= score /\ less \in Nat
    BY <1>1, <1>4, <2>2, <2>4, <2>6, <2>7, ScoreLess
  <2> HIDE DEF less, score
  <2>9. StakeMultiplier(score) <= StakeMultiplier(less)
    BY <1>2, <2>8, MultiplierFalls
  <2> QED
    BY <2>5, <2>8, <2>9 DEF less
<1> QED
  BY <1>3, <1>4 DEF l, u

\* The books of the market agree and its scores are ordered, for every set of
\* intents, quotes and providers and every choice of the parameters.
THEOREM MarketIsSafe == MarketSpec => []MarketSafe
<1>1. MarketInv => MarketSafe
  BY TrustOrdered DEF MarketInv, MarketSafe
<1> QED
  BY <1>1, MarketAlways, PTL
-----------------------------------------------------------------------------
(* WalletAuthority *)

\* What is reached going up from id n times.
Climbs(up, id) ==
  up = [n \in 0 .. Cardinality(DOMAIN caps) |->
          IF n = 0 THEN {id} ELSE up[n - 1] \cup {caps[a].parent : a \in up[n - 1] \cap DOMAIN caps}]

\* The recursion of Ancestors has a solution, and Ancestors is its last value.
LEMMA AncestorsUnfold ==
  ASSUME IsFiniteSet(DOMAIN caps), NEW id
  PROVE  \E up : Climbs(up, id) /\ Ancestors(id) = up[Cardinality(DOMAIN caps)] \ {id, NoCap}
<1> DEFINE n == Cardinality(DOMAIN caps)
           A == SUBSET ({id} \cup {caps[a].parent : a \in DOMAIN caps})
           F == [X \in A |-> X \cup {caps[a].parent : a \in X \cap DOMAIN caps}]
<1>1. n \in Nat /\ {id} \in A /\ F \in [A -> A]
  BY FS_CardinalityType
<1> HIDE DEF n
<1>2. PICK h \in [0 .. n -> A] : h[0] = {id} /\ \A i \in 1 .. n : h[i] = F[h[i - 1]]
  <2> DEFINE a0 == {id}
  <2>1. a0 \in A /\ F \in [A -> A] /\ n \in Nat
    BY <1>1
  <2> HIDE DEF A, F, a0
  <2>2. \E h : IsWalk(h, n, A, a0, F)
    BY <2>1, StepsExist
  <2> QED
    BY <2>2 DEF a0, IsWalk
<1>3. ASSUME NEW i \in 0 .. n
      PROVE h[i] = IF i = 0 THEN {id} ELSE h[i - 1] \cup {caps[a].parent : a \in h[i - 1] \cap DOMAIN caps}
  <2>1. CASE i = 0
    BY <1>2, <2>1
  <2>2. CASE i # 0
    <3>1. i \in 1 .. n /\ i - 1 \in 0 .. n
      BY <1>1, <2>2
    <3>2. h[i - 1] \in A
      BY <3>1
    <3>3. F[h[i - 1]] = h[i - 1] \cup {caps[a].parent : a \in h[i - 1] \cap DOMAIN caps}
      BY <3>2
    <3> QED
      BY <1>2, <2>2, <3>1, <3>3
  <2> QED
    BY <2>1, <2>2
<1>4. Climbs(h, id)
  BY <1>3 DEF Climbs, n
<1>5. \E up : Climbs(up, id)
  BY <1>4
<1> QED
  BY <1>5 DEF Climbs, Ancestors

\* What holds of id and of the parent of whatever it holds of, holds of every ancestor.
LEMMA AncestorsIn ==
  ASSUME IsFiniteSet(DOMAIN caps), NEW id, NEW P, id \in P, \A a \in P \cap DOMAIN caps : caps[a].parent \in P
  PROVE  Ancestors(id) \subseteq P \ {id, NoCap}
<1> DEFINE n == Cardinality(DOMAIN caps)
<1>1. PICK up : Climbs(up, id) /\ Ancestors(id) = up[n] \ {id, NoCap}
  BY AncestorsUnfold
<1>2. n \in Nat
  BY FS_CardinalityType
<1> DEFINE Q == {i \in 0 .. n : up[i] \subseteq P}
<1> HIDE DEF n
<1>3. 0 \in Q
  BY <1>1, <1>2 DEF Climbs, n
<1>4. ASSUME NEW i \in 1 .. n, i - 1 \in Q PROVE i \in Q
  <2>1. i \in 0 .. n /\ i # 0
    BY <1>2
  <2>2. up[i] = up[i - 1] \cup {caps[a].parent : a \in up[i - 1] \cap DOMAIN caps}
    BY <1>1, <2>1 DEF Climbs, n
  <2> QED
    BY <1>4, <2>1, <2>2
<1> HIDE DEF Q
<1>5. 0 .. n \subseteq Q
  BY <1>2, <1>3, <1>4, PrefixInduction
<1> QED
  BY <1>1, <1>2, <1>5 DEF Q

-----------------------------------------------------------------------------
\* A capability grants no more than another one.
Within(c, p) ==
  /\ ScopeWithin(c.scope, p.scope)
  /\ p.from <= c.from /\ c.until <= p.until /\ c.spend <= p.spend

\* A capability is kept under its own id.
CapsTyped ==
  /\ IsFiniteSet(DOMAIN caps) /\ NoCap \notin DOMAIN caps /\ DOMAIN revoked \subseteq DOMAIN caps
  /\ rules \subseteq Rules /\ stops \subseteq Stops
  /\ \A id \in DOMAIN caps : caps[id].id = id /\ caps[id].from \in Nat /\ caps[id].until \in Nat /\ caps[id].spend \in Nat

\* A capability grants no more than another one of its master.
Below(c, p) == Within(c, p) /\ c.master = p.master

\* Only the parent was compared.
ParentAttenuated ==
  \A id \in DOMAIN caps : caps[id].parent # NoCap => caps[id].parent \in DOMAIN caps /\ Below(caps[id], caps[caps[id].parent])

\* A purse.
PurseRecords == [owner: Signers, parent: Nat, deposited: Nat]

\* A purse lies under an older one.
PursesTyped ==
  /\ cash \in [Signers -> Nat] /\ lost \in Nat /\ nextPurse \in Nat \ {0}
  /\ IsFiniteSet(DOMAIN purses) /\ purses \in [DOMAIN purses -> PurseRecords]
  /\ \A b \in DOMAIN purses : b \in Nat \ {0} /\ b < nextPurse /\ purses[b].parent < b

\* The inductive invariant.
AuthorityInv == CapsTyped /\ ParentAttenuated /\ PursesTyped /\ PursesConserve /\ PaidByOneBatch

\* To grant no more is reflexive and transitive.
LEMMA WithinItself ==
  ASSUME NEW c, c.from \in Nat, c.until \in Nat, c.spend \in Nat
  PROVE  Within(c, c)
BY DEF Within, ScopeWithin, Narrows, ProvidersNarrow

\* Through a third one.
LEMMA WithinChain ==
  ASSUME NEW a, NEW b, NEW c, Within(a, b), Within(b, c),
         a.from \in Nat, a.until \in Nat, a.spend \in Nat, b.from \in Nat, b.until \in Nat, b.spend \in Nat,
         c.from \in Nat, c.until \in Nat, c.spend \in Nat
  PROVE  Within(a, c)
<1>1. ScopeWithin(a.scope, c.scope)
  BY DEF Within, ScopeWithin, Narrows, ProvidersNarrow
<1> QED
  BY <1>1 DEF Within

\* Every ancestor is a capability that grants no less.
LEMMA AncestorsGrantMore ==
  ASSUME CapsTyped, ParentAttenuated, NEW id \in DOMAIN caps
  PROVE  \A a \in Ancestors(id) : a \in DOMAIN caps /\ Below(caps[id], caps[a])
<1> DEFINE P == {a \in DOMAIN caps \cup {NoCap} : a = NoCap \/ Below(caps[id], caps[a])}
<1>1. id \in P
  BY WithinItself DEF CapsTyped, Below
<1>2. ASSUME NEW a \in P \cap DOMAIN caps PROVE caps[a].parent \in P
  <2>1. a # NoCap /\ Below(caps[id], caps[a])
    BY <1>2 DEF CapsTyped
  <2>2. CASE caps[a].parent = NoCap
    BY <2>2
  <2>3. CASE caps[a].parent # NoCap
    <3> DEFINE p == caps[a].parent
    <3>1. p \in DOMAIN caps /\ Below(caps[a], caps[p])
      BY <2>3 DEF ParentAttenuated
    <3>2. Below(caps[id], caps[p])
      <4> HIDE DEF p
      <4> QED
        BY <2>1, <3>1, WithinChain DEF CapsTyped, Below
    <3> QED
      BY <3>1, <3>2
  <2> QED
    BY <2>2, <2>3
<1> HIDE DEF P
<1>3. Ancestors(id) \subseteq P \ {id, NoCap}
  BY <1>1, <1>2, AncestorsIn DEF CapsTyped
<1> QED
  BY <1>3 DEF P

\* Without capability there is no ancestor.
LEMMA NoAncestors == ASSUME CapsTyped PROVE Ancestors(NoCap) = {}
<1> DEFINE P == {NoCap}
<1>1. NoCap \in P /\ \A a \in P \cap DOMAIN caps : caps[a].parent \in P
  BY DEF CapsTyped
<1>2. Ancestors(NoCap) \subseteq P \ {NoCap, NoCap}
  <2> HIDE DEF P
  <2> QED
    BY <1>1, AncestorsIn DEF CapsTyped
<1> QED
  BY <1>2

\* The invariant implies the properties.
LEMMA AuthorityFollows == ASSUME AuthorityInv PROVE AuthoritySafe
<1>1. ChainAttenuated
  BY AncestorsGrantMore DEF AuthorityInv, ChainAttenuated, Within, Below
<1>2. StopsReachDescendants
  <2> SUFFICES ASSUME NEW id \in DOMAIN caps, NEW a \in Ancestors(id) \cap DOMAIN caps
               PROVE  /\ Blocked(caps[a].scope) => Blocked(caps[id].scope)
                      /\ caps[id].master = caps[a].master
                      /\ \A r \in stops :
                           StopCovers(r, caps[a].scope) /\ StopCovers([r EXCEPT !.ws = Anywhere], caps[id].scope)
                             => StopCovers(r, caps[id].scope)
    BY DEF StopsReachDescendants
  <2>1. Narrows(caps[id].scope.ws, caps[a].scope.ws) /\ caps[id].master = caps[a].master
    BY AncestorsGrantMore DEF AuthorityInv, Within, ScopeWithin, Below
  <2>2. ASSUME NEW r \in rules, r = "global" \/ caps[a].scope.ws = r PROVE Blocked(caps[id].scope)
    <3>1. r # Anywhere
      BY WalletAssumption DEF AuthorityInv, CapsTyped
    <3> QED
      BY <2>1, <2>2, <3>1 DEF Narrows, Blocked
  <2>3. ASSUME NEW r \in stops, StopCovers(r, caps[a].scope), StopCovers([r EXCEPT !.ws = Anywhere], caps[id].scope)
        PROVE  StopCovers(r, caps[id].scope)
    <3>1. /\ DOMAIN r = {"master", "ws", "mask", "provider"} /\ r = [x \in DOMAIN r |-> r[x]]
      BY WalletAssumption DEF AuthorityInv, CapsTyped
    <3> DEFINE q == [r EXCEPT !.ws = Anywhere]
    <3>2. q.mask = r.mask /\ q.provider = r.provider
      BY <3>1
    <3> HIDE DEF q
    <3>3. /\ r.mask = {} \/ r.mask \cap caps[id].scope.mask # {}
          /\ r.provider = Anywhere \/ caps[id].scope.providers = Anywhere \/ r.provider \in caps[id].scope.providers
      BY <2>3, <3>2 DEF StopCovers, q
    <3>4. r.ws = Anywhere \/ caps[id].scope.ws = r.ws
      BY <2>1, <2>3 DEF StopCovers, Narrows
    <3> QED
      BY <3>3, <3>4 DEF StopCovers
  <2> QED
    BY <2>1, <2>2, <2>3 DEF Blocked
<1> QED
  BY <1>1, <1>2 DEF AuthorityInv, AuthoritySafe

-----------------------------------------------------------------------------
\* What each purse holds.
Deposits == [b \in DOMAIN purses |-> purses[b].deposited]

\* What each purse holds is a natural.
LEMMA DepositsTyped == ASSUME PursesTyped PROVE Deposits \in [DOMAIN purses -> Nat]
BY DEF PursesTyped, PurseRecords, Deposits

\* Conservation, as totals of two functions.
LEMMA ConserveIs ==
  ASSUME PursesTyped
  PROVE  /\ PursesConserve <=> Total(cash) + Total(Deposits) + lost = Cardinality(Signers) * Wealth
         /\ Total(cash) \in Nat /\ Total(Deposits) \in Nat
<1>1. cash = [s \in Signers |-> cash[s]]
  BY DEF PursesTyped
<1>2. SumOver(Signers, LAMBDA s : cash[s]) = Total(cash)
  BY <1>1 DEF SumOver
<1>3. SumOver(DOMAIN purses, LAMBDA b : purses[b].deposited) = Total(Deposits)
  BY DEF SumOver, Deposits
<1>4. Total(cash) \in Nat
  BY TotalNat, WalletAssumption DEF PursesTyped
<1>5. Total(Deposits) \in Nat
  BY TotalNat, DepositsTyped DEF PursesTyped
<1> QED
  BY <1>2, <1>3, <1>4, <1>5 DEF PursesConserve

\* At first there is no capability and no purse, and the money is in the accounts.
LEMMA AuthorityStart == ASSUME WalletInit PROVE AuthorityInv
<1> USE WalletAssumption
<1>1. DOMAIN Empty = {} /\ IsFiniteSet({})
  BY FS_EmptySet DEF Empty
<1>2. CapsTyped /\ ParentAttenuated /\ PaidByOneBatch
  BY <1>1 DEF WalletInit, CapsTyped, ParentAttenuated, PaidByOneBatch
<1>3. PursesTyped
  BY <1>1 DEF WalletInit, PursesTyped, Empty
<1>4. Total(cash) = Cardinality(Signers) * Wealth
  BY TotalConstant DEF WalletInit
<1>5. Total(Deposits) = 0
  <2>1. Deposits = [x \in {} |-> Deposits[x]]
    BY <1>1 DEF WalletInit, Deposits
  <2> QED
    BY <2>1, TotalEmpty
<1>6. PursesConserve
  BY <1>3, <1>4, <1>5, ConserveIs DEF WalletInit
<1> QED
  BY <1>2, <1>3, <1>6 DEF AuthorityInv

\* The same after a step.
LEMMA ConserveNext ==
  ASSUME PursesTyped'
  PROVE  /\ PursesConserve' <=> Total(cash') + Total(Deposits') + lost' = Cardinality(Signers) * Wealth
         /\ Deposits' \in [DOMAIN purses' -> Nat]
<1>1. cash' = [s \in Signers |-> cash'[s]]
  BY DEF PursesTyped
<1>4. Deposits' \in [DOMAIN purses' -> Nat]
  BY DEF PursesTyped, PurseRecords, Deposits
<1> QED
  BY <1>1, <1>4 DEF PursesConserve, SumOver, Deposits

\* A capability more, below one that grants no less.
LEMMA CapAdded ==
  ASSUME CapsTyped, ParentAttenuated, NEW id, id # NoCap, id \notin DOMAIN caps, NEW c, caps' = Put(caps, id, c),
         c.id = id, c.from \in Nat, c.until \in Nat, c.spend \in Nat,
         c.parent # NoCap => c.parent \in DOMAIN caps /\ Below(c, caps[c.parent]), UNCHANGED <<revoked, rules, stops>>
  PROVE  CapsTyped' /\ ParentAttenuated'
<1>1. DOMAIN caps' = DOMAIN caps \cup {id} /\ caps'[id] = c /\ \A x \in DOMAIN caps : caps'[x] = caps[x]
  BY DEF Put
<1>2. IsFiniteSet(DOMAIN caps')
  BY <1>1, FS_AddElement DEF CapsTyped
<1>3. CapsTyped'
  BY <1>1, <1>2 DEF CapsTyped
<1>4. ParentAttenuated'
  BY <1>1 DEF ParentAttenuated, CapsTyped
<1> QED
  BY <1>3, <1>4

\* Registration adds a holder and the master.
LEMMA RegisteredIs ==
  ASSUME NEW t, NEW s, "parent" \in DOMAIN t
  PROVE  LET c == Registered(t, s)
         IN /\ c.parent = t.parent /\ c.master = RootIssuer(t)
            /\ \A x \in DOMAIN t : x \notin {"holder", "master"} => c[x] = t[x]
BY DEF Registered, Put

\* Attenuation is to grant no more.
LEMMA AttenuatesWithin == ASSUME NEW c, NEW p, Attenuates(c, p) PROVE Within(c, p) /\ c.parent = p.id
BY DEF Attenuates, Within, CaveatsWithin

\* A purse more, with n of what was elsewhere.
LEMMA PurseOpened ==
  ASSUME NEW S, IsFiniteSet(S), NEW b, b \notin S, NEW f \in [S -> Nat], NEW g \in [S \cup {b} -> Nat], NEW n,
         g[b] = n, \A x \in S : g[x] = f[x]
  PROVE  Total(g) = Total(f) + n
<1>1. \A x \in S : f[x] = g[x]
  OBVIOUS
<1> QED
  BY <1>1, TotalWith

\* Capabilities are minted, delegated and revoked.
LEMMA CapsKept ==
  ASSUME AuthorityInv, [WalletNext]_walletVars
  PROVE  CapsTyped' /\ ParentAttenuated'
<1> USE DEF AuthorityInv
<1>1. ASSUME NEW s \in Signers, NEW t \in Tokens, MintCapability(s, t) PROVE CapsTyped' /\ ParentAttenuated'
  <2> DEFINE c == Registered(t, s)
  <2>1. /\ t.id \notin DOMAIN caps /\ caps' = Put(caps, t.id, c) /\ UNCHANGED <<revoked, rules, stops>>
        /\ t.parent # NoCap => t.parent \in DOMAIN caps /\ Attenuates(t, caps[t.parent])
    BY <1>1 DEF MintCapability
  <2>2. /\ t = [id |-> t.id, parent |-> t.parent, issuer |-> t.issuer, scope |-> t.scope, spend |-> t.spend,
               norec |-> t.norec, from |-> t.from, until |-> t.until]
        /\ t.id # NoCap /\ t.spend \in Nat /\ t.from \in Nat /\ t.until \in Nat
    BY WalletAssumption
  <2>3. /\ c.id = t.id /\ c.parent = t.parent /\ c.scope = t.scope /\ c.spend = t.spend /\ c.from = t.from
        /\ c.until = t.until /\ c.master = RootIssuer(t)
    <3>1. DOMAIN t = {"id", "parent", "issuer", "scope", "spend", "norec", "from", "until"}
      BY <2>2
    <3> QED
      BY <3>1, RegisteredIs
  <2> HIDE DEF c
  <2>4. c.parent # NoCap => c.parent \in DOMAIN caps /\ Below(c, caps[c.parent])
    BY <2>1, <2>3, AttenuatesWithin DEF Within, Below, RootIssuer
  <2> QED
    BY <2>1, <2>2, <2>3, <2>4, CapAdded
<1>2. ASSUME NEW s \in Signers, NEW pid \in DOMAIN caps, NEW b, NEW n, NEW t \in Tokens, DelegateVerifier(s, pid, b, n, t.id)
      PROVE  CapsTyped' /\ ParentAttenuated'
  <2> DEFINE p == caps[pid]
             v == VerifierBody(p, t.id)
             c == Registered(v, s)
  <2>1. t.id \notin DOMAIN caps /\ caps' = Put(caps, t.id, c) /\ UNCHANGED <<revoked, rules, stops>> /\ Attenuates(v, p)
    BY <1>2 DEF DelegateVerifier
  <2>2. p.id = pid /\ p.from \in Nat /\ p.until \in Nat /\ p.spend \in Nat
    BY DEF CapsTyped
  <2> HIDE DEF p
  <2>3. /\ v.id = t.id /\ v.parent = p.id /\ v.spend \in Nat /\ v.from \in Nat /\ v.until \in Nat
    <3> DEFINE a == Min({p.spend, VerifierSpend})
               u == Min({p.from + VerifierLifetime, p.until})
    <3>1. a \in Nat
      BY <2>2, MaxOfTwo, WalletAssumption
    <3>2. u \in Nat
      <4> DEFINE w == p.from + VerifierLifetime
      <4>1. w \in Nat /\ p.until \in Nat
        BY <2>2, WalletAssumption
      <4> HIDE DEF w
      <4>2. Min({w, p.until}) \in Nat
        BY <4>1, MaxOfTwo
      <4> QED
        BY <4>2 DEF w
    <3> HIDE DEF a, u
    <3>3. v.id = t.id /\ v.parent = p.id /\ v.spend = a /\ v.from = p.from /\ v.until = u
      BY DEF VerifierBody, a, u
    <3> QED
      BY <2>2, <3>1, <3>2, <3>3
  <2>4. /\ c.id = v.id /\ c.parent = v.parent /\ c.scope = v.scope /\ c.spend = v.spend /\ c.from = v.from
        /\ c.until = v.until /\ c.master = RootIssuer(v)
    <3>1. DOMAIN v = {"id", "parent", "issuer", "scope", "spend", "norec", "from", "until"}
      BY DEF VerifierBody
    <3> HIDE DEF v
    <3> QED
      BY <3>1, RegisteredIs
  <2> HIDE DEF v, c
  <2>5. Within(c, p)
    BY <2>1, <2>4, AttenuatesWithin DEF Within
  <2>7. c.master = p.master
    BY <2>2, <2>3, <2>4 DEF RootIssuer, CapsTyped, p
  <2>6. t.id # NoCap
    BY WalletAssumption
  <2> QED
    BY <2>1, <2>2, <2>3, <2>4, <2>5, <2>6, <2>7, CapAdded DEF p, Below
<1>3. ASSUME NEW id \in DOMAIN caps, NEW cascade, RevokeCapability(id, cascade) PROVE CapsTyped' /\ ParentAttenuated'
  BY <1>3 DEF RevokeCapability, CapsTyped, ParentAttenuated, Put
<1>4. ASSUME NEW r \in Rules, ActivateEmergency(r) PROVE CapsTyped' /\ ParentAttenuated'
  BY <1>4 DEF ActivateEmergency, CapsTyped, ParentAttenuated
<1>5. CASE ClearEmergency
  BY <1>5 DEF ClearEmergency, CapsTyped, ParentAttenuated
<1>9. ASSUME NEW r \in Stops, SetStop(r) \/ LiftStop(r) PROVE CapsTyped' /\ ParentAttenuated'
  BY <1>9 DEF SetStop, LiftStop, CapsTyped, ParentAttenuated
<1>6. CASE UNCHANGED authorityVars
  BY <1>6 DEF authorityVars, CapsTyped, ParentAttenuated
<1>7. ASSUME NEW s, NEW b, NEW n, CreatePurse(s, b, n) \/ FundPurse(s, b, n) \/ ClosePurse(s, b) \/ (\E from : FundFrom(s, from, b, n))
      PROVE UNCHANGED authorityVars
  BY <1>7 DEF CreatePurse, FundPurse, ClosePurse, FundFrom
<1>8. (\E p \in ToolBatches : SettleToolBatch(p)) \/ WalletTick \/ UNCHANGED walletVars => UNCHANGED authorityVars
  BY DEF SettleToolBatch, WalletTick, walletVars, authorityVars
<1> QED
  BY <1>1, <1>2, <1>3, <1>4, <1>5, <1>6, <1>7, <1>8, <1>9 DEF WalletNext

\* A receipt that a batch pays was not paid before.
LEMMA BatchesKept == ASSUME AuthorityInv, [WalletNext]_walletVars PROVE PaidByOneBatch'
<1> USE DEF AuthorityInv
<1>1. ASSUME NEW p \in ToolBatches, SettleToolBatch(p) PROVE PaidByOneBatch'
  <2>1. /\ p.id \notin DOMAIN toolBatches /\ Listed(p) \cap DOMAIN paidReceipts = {}
        /\ paidReceipts' = Over([r \in Listed(p) |-> p.id], paidReceipts) /\ toolBatches' = Put(toolBatches, p.id, p)
    BY <1>1 DEF SettleToolBatch
  <2>2. DOMAIN toolBatches' = DOMAIN toolBatches \cup {p.id} /\ toolBatches'[p.id] = p
        /\ \A x \in DOMAIN toolBatches : toolBatches'[x] = toolBatches[x]
    BY <2>1 DEF Put
  <2>3. /\ \A r \in Listed(p) : r \in DOMAIN paidReceipts' /\ paidReceipts'[r] = p.id
        /\ \A r \in DOMAIN paidReceipts : r \in DOMAIN paidReceipts' /\ paidReceipts'[r] = paidReceipts[r]
    BY <2>1 DEF Over
  <2> SUFFICES ASSUME NEW x \in DOMAIN toolBatches', NEW r \in Listed(toolBatches'[x])
               PROVE  r \in DOMAIN paidReceipts' /\ paidReceipts'[r] = x
    BY DEF PaidByOneBatch, Listed
  <2>4. CASE x = p.id
    BY <2>2, <2>3, <2>4
  <2>5. CASE x # p.id
    BY <2>2, <2>3, <2>5 DEF PaidByOneBatch
  <2> QED
    BY <2>4, <2>5
<1>2. CASE UNCHANGED batchVars
  BY <1>2 DEF batchVars, PaidByOneBatch, Listed
<1>3. ASSUME NEW s, NEW x, NEW b, NEW n, NEW y,
             \/ MintCapability(s, x) \/ DelegateVerifier(s, x, b, n, y) \/ RevokeCapability(x, y) \/ ActivateEmergency(x)
             \/ ClearEmergency \/ SetStop(x) \/ LiftStop(x)
             \/ CreatePurse(s, b, n) \/ FundPurse(s, b, n) \/ FundFrom(s, x, b, n) \/ ClosePurse(s, b)
      PROVE  UNCHANGED batchVars
  BY <1>3 DEF MintCapability, DelegateVerifier, RevokeCapability, ActivateEmergency, ClearEmergency, SetStop, LiftStop,
    CreatePurse, FundPurse, FundFrom, ClosePurse
<1>4. WalletTick \/ UNCHANGED walletVars => UNCHANGED batchVars
  BY DEF WalletTick, walletVars, batchVars
<1> QED
  BY <1>1, <1>2, <1>3, <1>4 DEF WalletNext

\* What is left in the accounts, the purses and lost after a step is what there was.
SumStays == Total(cash') + Total(Deposits') + lost' = Total(cash) + Total(Deposits) + lost

\* Then nothing is made or lost.
LEMMA SumKept == ASSUME AuthorityInv, PursesTyped', SumStays PROVE PursesConserve'
BY ConserveIs, ConserveNext DEF AuthorityInv, SumStays

\* The same of what the purses hold.
LEMMA DepositsOpened ==
  ASSUME NEW D, IsFiniteSet(D), NEW m, m \notin D, NEW d \in [D -> Nat], NEW n,
         Deposits' \in [D \cup {m} -> Nat], Deposits'[m] = n, \A b \in D : Deposits'[b] = d[b]
  PROVE  Total(Deposits') = Total(d) + n
<1> DEFINE g == Deposits'
<1>1. g \in [D \cup {m} -> Nat] /\ g[m] = n /\ \A b \in D : g[b] = d[b]
  OBVIOUS
<1> HIDE DEF g
<1>2. Total(g) = Total(d) + n
  BY <1>1, PurseOpened
<1> QED
  BY <1>2 DEF g

\* The purses are those of f and a new one.
IsOpened(f, s, up, n) == purses' = Put(f, nextPurse, [owner |-> s, parent |-> up, deposited |-> n])

\* A purse is opened with n.
LEMMA PurseAdded ==
  ASSUME AuthorityInv, NEW s \in Signers, NEW up \in Nat, up < nextPurse, NEW n \in Nat,
         NEW f \in [DOMAIN purses -> PurseRecords],
         \A b \in DOMAIN purses : f[b].parent = purses[b].parent,
         IsOpened(f, s, up, n), nextPurse' = nextPurse + 1,
         cash' \in [Signers -> Nat], lost' = lost
  PROVE  PursesTyped' /\ Total(Deposits') = Total([b \in DOMAIN purses |-> f[b].deposited]) + n
<1> DEFINE r == [owner |-> s, parent |-> up, deposited |-> n]
           D == DOMAIN purses
           d == [b \in D |-> f[b].deposited]
           g == Deposits'
           m == nextPurse
<1>1. r \in PurseRecords /\ r.parent = up /\ r.deposited = n
  BY DEF PurseRecords
<1> HIDE DEF r
<1>2. IsFiniteSet(D) /\ m \in Nat \ {0} /\ m \notin D /\ (\A b \in D : b \in Nat \ {0} /\ b < m /\ f[b].parent < b) /\ lost \in Nat
  BY DEF AuthorityInv, PursesTyped
<1>3. DOMAIN purses' = D \cup {m} /\ purses'[m] = r /\ \A b \in D : purses'[b] = f[b]
  BY <1>2 DEF Put, r, IsOpened
<1>4. purses' \in [D \cup {m} -> PurseRecords]
  BY <1>1 DEF Put, r, IsOpened
<1>5. IsFiniteSet(D \cup {m})
  BY <1>2, FS_AddElement
<1>6. \A b \in D \cup {m} : b \in Nat \ {0} /\ b < m + 1 /\ purses'[b].parent < b
  BY <1>1, <1>2, <1>3
<1>7. PursesTyped'
  BY <1>2, <1>3, <1>4, <1>5, <1>6 DEF PursesTyped
<1>8. g \in [D \cup {m} -> Nat] /\ g[m] = n /\ \A b \in D : g[b] = d[b]
  BY <1>1, <1>3, <1>4 DEF Deposits, PurseRecords
<1>9. d \in [D -> Nat]
  BY DEF PurseRecords
<1>10. Total(g) = Total(d) + n
  BY <1>2, <1>8, <1>9, DepositsOpened DEF d, g, m, D
<1> QED
  BY <1>7, <1>10 DEF g, d, D

\* What the purses f hold.
HeldIn(f) == Total([x \in DOMAIN f |-> f[x].deposited])

\* g is f with k in the purse b.
IsChange(g, f, b, k) == g = [f EXCEPT ![b].deposited = k]

\* g is f without the purse b.
IsRemoval(g, f, b) == g = Without(f, {b})

\* d is c with k in the account of s.
IsPaid(d, c, s, k) == d = [c EXCEPT ![s] = k]

\* The amount in one purse changes.
LEMMA PurseChanged ==
  ASSUME NEW D, IsFiniteSet(D), NEW f \in [D -> PurseRecords], NEW b \in D, NEW k \in Nat, NEW g, IsChange(g, f, b, k)
  PROVE  /\ g \in [D -> PurseRecords] /\ \A x \in D : g[x].parent = f[x].parent
         /\ \A x \in D \ {b} : g[x].deposited = f[x].deposited
         /\ HeldIn(g) + f[b].deposited = HeldIn(f) + k
<1> DEFINE d == [x \in D |-> f[x].deposited]
           e == [x \in D |-> g[x].deposited]
<1>1. g \in [D -> PurseRecords] /\ (\A x \in D : g[x].parent = f[x].parent) /\ (\A x \in D \ {b} : g[x] = f[x])
      /\ g[b].deposited = k
  BY DEF PurseRecords, IsChange
<1>2. d \in [D -> Nat] /\ e \in [D -> Nat] /\ (\A x \in D \ {b} : d[x] = e[x]) /\ e[b] = k /\ d[b] = f[b].deposited
  BY <1>1 DEF PurseRecords
<1>3. HeldIn(g) = Total(e) /\ HeldIn(f) = Total(d)
  BY <1>1 DEF HeldIn
<1> HIDE DEF d, e
<1>4. Total(e) + d[b] = Total(d) + e[b]
  BY <1>2, TotalChange
<1> QED
  BY <1>1, <1>2, <1>3, <1>4

\* The other purses and what they hold remain.
LessPurse(g, f, D, b) ==
  /\ g \in [D \ {b} -> PurseRecords] /\ \A x \in D \ {b} : g[x] = f[x]
  /\ HeldIn(f) = HeldIn(g) + f[b].deposited

\* A purse is taken away.
LEMMA PurseRemoved ==
  ASSUME NEW D, IsFiniteSet(D), NEW f \in [D -> PurseRecords], NEW b \in D, NEW g, IsRemoval(g, f, b)
  PROVE  LessPurse(g, f, D, b)
<1> DEFINE S == D \ {b}
           d == [x \in D |-> f[x].deposited]
           e == [x \in S |-> g[x].deposited]
<1>1. g \in [S -> PurseRecords] /\ (\A x \in S : g[x] = f[x])
  BY DEF Without, IsRemoval
<1>2. d \in [D -> Nat] /\ e \in [S -> Nat] /\ (\A x \in S : e[x] = d[x]) /\ d[b] = f[b].deposited
  BY <1>1 DEF PurseRecords
<1>3. HeldIn(g) = Total(e) /\ HeldIn(f) = Total(d)
  BY <1>1 DEF HeldIn
<1>4. IsFiniteSet(S) /\ b \notin S /\ S \cup {b} = D
  BY FS_RemoveElement
<1> HIDE DEF d, e, S
<1>5. Total(d) = Total(e) + d[b]
  BY <1>2, <1>4, TotalWith
<1> QED
  BY <1>1, <1>2, <1>3, <1>5 DEF S, LessPurse

\* What purses hold is a natural.
LEMMA HeldNat == ASSUME NEW D, IsFiniteSet(D), NEW f \in [D -> PurseRecords] PROVE HeldIn(f) \in Nat
<1> DEFINE d == [x \in D |-> f[x].deposited]
<1>1. d \in [D -> Nat] /\ HeldIn(f) = Total(d)
  BY DEF PurseRecords, HeldIn
<1> HIDE DEF d
<1> QED
  BY <1>1, TotalNat

\* Purses that were there remain, with their parents.
LEMMA PursesStay ==
  ASSUME AuthorityInv, NEW D \in SUBSET DOMAIN purses, purses' \in [D -> PurseRecords],
         \A x \in D : purses'[x].parent = purses[x].parent,
         cash' \in [Signers -> Nat], lost' \in Nat, nextPurse' = nextPurse
  PROVE  PursesTyped'
<1>1. IsFiniteSet(D) /\ DOMAIN purses' = D
  BY FS_Subset DEF AuthorityInv, PursesTyped
<1> QED
  BY <1>1 DEF AuthorityInv, PursesTyped

\* What an account holds becomes k.
LEMMA AccountSet ==
  ASSUME NEW c \in [Signers -> Nat], NEW s \in Signers, NEW k \in Nat, NEW d, IsPaid(d, c, s, k)
  PROVE  d \in [Signers -> Nat] /\ Total(d) + c[s] = Total(c) + k
<1>1. d \in [Signers -> Nat] /\ d[s] = k /\ (\A x \in Signers \ {s} : c[x] = d[x]) /\ IsFiniteSet(Signers)
  BY WalletAssumption DEF IsPaid
<1>2. Total(d) + c[s] = Total(c) + d[s]
  BY <1>1, TotalChange
<1> QED
  BY <1>1, <1>2

\* Every call leaves what there is.
LEMMA PursesKept ==
  ASSUME AuthorityInv, [WalletNext]_walletVars
  PROVE  PursesTyped' /\ SumStays
<1> USE DEF AuthorityInv
<1> DEFINE D == DOMAIN purses
<1>1. /\ cash \in [Signers -> Nat] /\ lost \in Nat /\ nextPurse \in Nat \ {0} /\ IsFiniteSet(D)
      /\ purses \in [D -> PurseRecords] /\ \A b \in D : b \in Nat \ {0} /\ b < nextPurse /\ purses[b].parent < b
  BY DEF PursesTyped
<1>2. \A b \in D : purses[b].deposited \in Nat /\ purses[b].parent \in Nat
  BY <1>1 DEF PurseRecords
<1>3. Total(Deposits) = HeldIn(purses) /\ Total(Deposits') = HeldIn(purses') /\ HeldIn(purses) \in Nat /\ Total(cash) \in Nat
  BY ConserveIs DEF Deposits, HeldIn
<1>4. ASSUME NEW s \in Signers, NEW b \in D \cup {0}, NEW n \in 0 .. Wealth, CreatePurse(s, b, n)
      PROVE  PursesTyped' /\ SumStays
  <2>1. n \in Nat /\ n <= cash[s] /\ cash[s] \in Nat /\ b \in Nat /\ b < nextPurse
    BY <1>1, <1>4, WalletAssumption DEF CreatePurse
  <2> DEFINE k == cash[s] - n
  <2>2. k \in Nat /\ IsPaid(cash', cash, s, k)
    BY <1>4, <2>1 DEF CreatePurse, IsPaid
  <2>3. lost' = lost /\ nextPurse' = nextPurse + 1 /\ IsOpened(purses, s, b, n)
    BY <1>4 DEF CreatePurse, IsOpened
  <2> HIDE DEF k
  <2>4. cash' \in [Signers -> Nat] /\ Total(cash') + cash[s] = Total(cash) + k
    BY <1>1, <2>2, AccountSet
  <2>5. PursesTyped' /\ Total(Deposits') = HeldIn(purses) + n
    BY <1>1, <2>1, <2>3, <2>4, PurseAdded DEF HeldIn
  <2>6. Total(cash') \in Nat
    BY <2>4, TotalNat, WalletAssumption
  <2> QED
    BY <1>1, <1>3, <2>1, <2>3, <2>4, <2>5, <2>6 DEF SumStays, k
<1>5. ASSUME NEW s \in Signers, NEW b \in D, NEW n \in 1 .. Wealth, FundPurse(s, b, n)
      PROVE  PursesTyped' /\ SumStays
  <2>1. n \in Nat /\ n <= cash[s] /\ cash[s] \in Nat
    BY <1>1, <1>5, WalletAssumption DEF FundPurse
  <2> DEFINE k == cash[s] - n
             h == purses[b].deposited + n
  <2>2. k \in Nat /\ h \in Nat /\ IsPaid(cash', cash, s, k) /\ IsChange(purses', purses, b, h)
    BY <1>1, <1>2, <1>5, <2>1 DEF FundPurse, IsPaid, IsChange
  <2>3. lost' = lost /\ nextPurse' = nextPurse
    BY <1>5 DEF FundPurse
  <2> HIDE DEF k, h
  <2>4. cash' \in [Signers -> Nat] /\ Total(cash') + cash[s] = Total(cash) + k
    BY <1>1, <2>2, AccountSet
  <2>5. /\ purses' \in [D -> PurseRecords] /\ \A x \in D : purses'[x].parent = purses[x].parent
        /\ HeldIn(purses') + purses[b].deposited = HeldIn(purses) + h
    BY <1>1, <2>2, PurseChanged
  <2>6. PursesTyped'
    BY <1>1, <2>3, <2>4, <2>5, PursesStay
  <2>7. Total(cash') \in Nat /\ HeldIn(purses') \in Nat
    BY <1>1, <2>4, <2>5, TotalNat, WalletAssumption, HeldNat
  <2> QED
    BY <1>1, <1>2, <1>3, <2>1, <2>3, <2>4, <2>5, <2>6, <2>7, SMTT(30) DEF SumStays, k, h
<1>6. ASSUME NEW s \in Signers, NEW from \in D, NEW b \in D, NEW n \in 1 .. Wealth, FundFrom(s, from, b, n)
      PROVE  PursesTyped' /\ SumStays
  <2>1. n \in Nat /\ n <= purses[from].deposited /\ purses[b].parent = from
    BY <1>6, WalletAssumption DEF FundFrom
  <2>2. from # b
    BY <1>1, <2>1
  <2> DEFINE k == purses[from].deposited - n
             h == purses[b].deposited + n
             f == [purses EXCEPT ![from].deposited = k]
  <2>3. k \in Nat /\ h \in Nat
    BY <1>2, <2>1
  <2>4. IsChange(purses', f, b, h)
    BY <1>1, <1>6, <2>2 DEF FundFrom, PurseRecords, IsChange
  <2>5. lost' = lost /\ nextPurse' = nextPurse /\ cash' = cash
    BY <1>6 DEF FundFrom
  <2>6. IsChange(f, purses, from, k)
    BY DEF IsChange
  <2> HIDE DEF k, h, f
  <2>7. /\ f \in [D -> PurseRecords] /\ (\A x \in D : f[x].parent = purses[x].parent)
        /\ f[b].deposited = purses[b].deposited
        /\ HeldIn(f) + purses[from].deposited = HeldIn(purses) + k
    BY <1>1, <2>2, <2>3, <2>6, PurseChanged
  <2>8. /\ purses' \in [D -> PurseRecords] /\ (\A x \in D : purses'[x].parent = f[x].parent)
        /\ HeldIn(purses') + f[b].deposited = HeldIn(f) + h
    BY <1>1, <2>3, <2>4, <2>7, PurseChanged
  <2>9. PursesTyped'
    BY <1>1, <2>5, <2>7, <2>8, PursesStay
  <2>10. HeldIn(f) \in Nat /\ HeldIn(purses') \in Nat
    BY <1>1, <2>7, <2>8, HeldNat
  <2>11. HeldIn(purses') = HeldIn(purses)
    <3>1. \A x, y, z, u, v, w \in Nat : u <= v /\ x + v = y + (v - u) /\ z + w = x + (w + u) => z = y
      OBVIOUS
    <3>2. /\ n \in Nat /\ purses[from].deposited \in Nat /\ purses[b].deposited \in Nat /\ HeldIn(purses) \in Nat
          /\ HeldIn(f) + purses[from].deposited = HeldIn(purses) + (purses[from].deposited - n)
          /\ HeldIn(purses') + purses[b].deposited = HeldIn(f) + (purses[b].deposited + n)
      BY <1>2, <1>3, <2>1, <2>7, <2>8 DEF k, h
    <3> QED
      BY <2>1, <2>10, <3>1, <3>2
  <2> QED
    BY <1>3, <2>5, <2>9, <2>11 DEF SumStays
<1>7. ASSUME NEW s \in Signers, NEW b \in D, ClosePurse(s, b) PROVE PursesTyped' /\ SumStays
  <2> DEFINE up == purses[b].parent
             n == purses[b].deposited
             rest == Without(purses, {b})
             S == D \ {b}
  <2>1. n \in Nat /\ IsRemoval(rest, purses, b)
    BY <1>2 DEF IsRemoval
  <2>2. DOMAIN rest = S
    BY DEF Without
  <2>3. nextPurse' = nextPurse
    BY <1>7 DEF ClosePurse
  <2>4. \/ purses' = rest /\ IsPaid(cash', cash, s, cash[s] + n) /\ lost' = lost
        \/ up \in DOMAIN rest /\ purses' = [rest EXCEPT ![up].deposited = @ + n] /\ cash' = cash /\ lost' = lost
        \/ purses' = rest /\ lost' = lost + n /\ cash' = cash
    BY <1>1, <1>7 DEF ClosePurse, IsPaid
  <2> HIDE DEF rest
  <2>5. rest \in [S -> PurseRecords] /\ (\A x \in S : rest[x] = purses[x]) /\ HeldIn(purses) = HeldIn(rest) + n
    <3>1. b \in D /\ purses \in [D -> PurseRecords] /\ IsFiniteSet(D)
      BY <1>1
    <3>2. LessPurse(rest, purses, D, b)
      BY <2>1, <3>1, PurseRemoved
    <3> QED
      BY <3>2 DEF LessPurse
  <2>6. IsFiniteSet(S) /\ S \in SUBSET DOMAIN purses
    BY <1>1, FS_Subset
  <2>7. HeldIn(rest) \in Nat
    BY <2>5, <2>6, HeldNat
  <2> HIDE DEF up, n
  <2>8. CASE purses' = rest /\ IsPaid(cash', cash, s, cash[s] + n) /\ lost' = lost
    <3> DEFINE k == cash[s] + n
    <3>1. k \in Nat /\ IsPaid(cash', cash, s, k) /\ cash[s] \in Nat
      BY <1>1, <2>1, <2>8
    <3> HIDE DEF k
    <3>2. cash' \in [Signers -> Nat] /\ Total(cash') + cash[s] = Total(cash) + k
      BY <1>1, <3>1, AccountSet
    <3>3. PursesTyped'
      BY <1>1, <2>3, <2>5, <2>6, <2>8, <3>2, PursesStay
    <3>4. Total(cash') \in Nat
      BY <3>2, TotalNat, WalletAssumption
    <3> QED
      BY <1>1, <1>3, <2>1, <2>5, <2>7, <2>8, <3>1, <3>2, <3>3, <3>4 DEF SumStays, k
  <2>9. CASE up \in DOMAIN rest /\ purses' = [rest EXCEPT ![up].deposited = @ + n] /\ cash' = cash /\ lost' = lost
    <3> DEFINE k == rest[up].deposited + n
    <3>1. up \in S /\ rest[up].deposited \in Nat /\ k \in Nat
      BY <2>1, <2>2, <2>5, <2>9 DEF PurseRecords
    <3>2. IsChange(purses', rest, up, k)
      BY <2>5, <2>9, <3>1 DEF IsChange
    <3> HIDE DEF k
    <3>3. /\ purses' \in [S -> PurseRecords] /\ (\A x \in S : purses'[x].parent = rest[x].parent)
          /\ HeldIn(purses') + rest[up].deposited = HeldIn(rest) + k
      BY <2>5, <2>6, <3>1, <3>2, PurseChanged
    <3>4. PursesTyped'
      BY <1>1, <2>3, <2>5, <2>6, <2>9, <3>3, PursesStay
    <3>5. HeldIn(purses') \in Nat
      BY <2>6, <3>3, HeldNat
    <3> QED
      BY <1>1, <1>3, <2>1, <2>5, <2>7, <2>9, <3>1, <3>3, <3>4, <3>5 DEF SumStays, k
  <2>10. CASE purses' = rest /\ lost' = lost + n /\ cash' = cash
    <3>1. lost' \in Nat
      BY <1>1, <2>1, <2>10
    <3>2. PursesTyped'
      BY <1>1, <2>3, <2>5, <2>6, <2>10, <3>1, PursesStay
    <3> QED
      BY <1>1, <1>3, <2>1, <2>5, <2>7, <2>10, <3>2 DEF SumStays
  <2> QED
    BY <2>4, <2>8, <2>9, <2>10
<1>8. ASSUME NEW s \in Signers, NEW pid, NEW b \in D, NEW n \in 1 .. Wealth, NEW id, DelegateVerifier(s, pid, b, n, id)
      PROVE  PursesTyped' /\ SumStays
  <2>1. n \in Nat /\ n <= purses[b].deposited
    BY <1>8, WalletAssumption DEF DelegateVerifier
  <2> DEFINE k == purses[b].deposited - n
             f == [purses EXCEPT ![b].deposited = k]
  <2>2. k \in Nat /\ lost' = lost /\ cash' = cash /\ nextPurse' = nextPurse + 1 /\ b \in Nat /\ b < nextPurse
    BY <1>1, <1>2, <1>8, <2>1 DEF DelegateVerifier
  <2>3. IsOpened(f, s, b, n)
    BY <1>1, <1>8 DEF DelegateVerifier, IsOpened
  <2>4. IsChange(f, purses, b, k)
    BY DEF IsChange
  <2> HIDE DEF k, f
  <2>5. /\ f \in [D -> PurseRecords] /\ (\A x \in D : f[x].parent = purses[x].parent)
        /\ HeldIn(f) + purses[b].deposited = HeldIn(purses) + k
    BY <1>1, <2>2, <2>4, PurseChanged
  <2>6. DOMAIN f = D
    BY <2>5
  <2>7. PursesTyped' /\ Total(Deposits') = HeldIn(f) + n
    BY <1>1, <2>1, <2>2, <2>3, <2>5, <2>6, PurseAdded DEF HeldIn
  <2>8. HeldIn(f) \in Nat
    BY <1>1, <2>5, HeldNat
  <2> QED
    BY <1>1, <1>2, <1>3, <2>1, <2>2, <2>5, <2>7, <2>8 DEF SumStays, k
<1>9. ASSUME NEW p \in ToolBatches, SettleToolBatch(p) PROVE PursesTyped' /\ SumStays
  <2>1. p.cost \in Nat /\ p.payer \in Signers /\ p.payee \in Signers /\ cash[p.payer] >= p.cost
    BY <1>9, WalletAssumption DEF SettleToolBatch
  <2> DEFINE k == cash[p.payer] - p.cost
             c == [cash EXCEPT ![p.payer] = k]
             h == c[p.payee] + p.cost
  <2>2. purses' = purses /\ nextPurse' = nextPurse /\ lost' = lost /\ IsPaid(cash', c, p.payee, h)
    BY <1>9 DEF SettleToolBatch, IsPaid
  <2>3. cash[p.payer] \in Nat /\ k \in Nat
    BY <1>1, <2>1
  <2>4. IsPaid(c, cash, p.payer, k)
    BY DEF IsPaid
  <2> HIDE DEF c, k
  <2>5. c \in [Signers -> Nat] /\ Total(c) + cash[p.payer] = Total(cash) + k
    BY <1>1, <2>1, <2>3, <2>4, AccountSet
  <2>6. c[p.payee] \in Nat /\ h \in Nat
    BY <2>1, <2>5
  <2> HIDE DEF h
  <2>7. cash' \in [Signers -> Nat] /\ Total(cash') + c[p.payee] = Total(c) + h
    BY <2>1, <2>2, <2>5, <2>6, AccountSet
  <2>8. PursesTyped'
    BY <1>1, <2>2, <2>7, PursesStay
  <2>9. Total(c) \in Nat /\ Total(cash') \in Nat
    BY <2>5, <2>7, TotalNat, WalletAssumption
  <2> QED
    BY <1>1, <1>3, <2>1, <2>2, <2>3, <2>5, <2>6, <2>7, <2>8, <2>9 DEF SumStays, k, h
<1>10. CASE UNCHANGED purseVars
  BY <1>10 DEF purseVars, PursesTyped, SumStays, Deposits
<1>11. ASSUME NEW s, NEW x, NEW y,
             \/ MintCapability(s, x) \/ RevokeCapability(x, y) \/ ActivateEmergency(x) \/ ClearEmergency
             \/ SetStop(x) \/ LiftStop(x)
      PROVE  UNCHANGED purseVars
  BY <1>11 DEF MintCapability, RevokeCapability, ActivateEmergency, ClearEmergency, SetStop, LiftStop
<1>12. WalletTick \/ UNCHANGED walletVars => UNCHANGED purseVars
  BY DEF WalletTick, walletVars, purseVars
<1> QED
  BY <1>4, <1>5, <1>6, <1>7, <1>8, <1>9, <1>10, <1>11, <1>12 DEF WalletNext

\* Every step keeps the invariant.
LEMMA AuthorityKept == ASSUME AuthorityInv, [WalletNext]_walletVars PROVE AuthorityInv'
<1>1. PursesConserve'
  BY PursesKept, SumKept
<1> QED
  BY <1>1, CapsKept, PursesKept, BatchesKept DEF AuthorityInv

\* The invariant holds throughout.
LEMMA AuthorityInvariant == WalletSpec => []AuthorityInv
<1>1. WalletInit => AuthorityInv
  BY AuthorityStart
<1>2. AuthorityInv /\ [WalletNext]_walletVars => AuthorityInv'
  BY AuthorityKept
<1> QED
  BY <1>1, <1>2, PTL DEF WalletSpec

\* A capability stays within every ancestor at any distance and is reached by
\* the stops of each, purses neither make nor lose funds, and no two batches pay
\* for one receipt (capability.rs, emergency.rs, wallet_native.rs,
\* wallet_batch_settle.rs), for any tokens, signers and batches.
THEOREM AuthorityIsSafe == WalletSpec => []AuthoritySafe
<1>1. AuthorityInv => AuthoritySafe
  BY AuthorityFollows
<1> QED
  BY <1>1, AuthorityInvariant, PTL

\* What a step adds to the capabilities it mints above nothing revoked with cascade.
MintedAboveRevoked ==
  \A id \in DOMAIN caps' \ DOMAIN caps :
    caps'[id].norec \/ \A a \in DOMAIN revoked :
      revoked[a] => a # id /\ a \notin Ancestors(caps'[id].parent) \cup {caps'[id].parent}

\* Each step does.
LEMMA MintsAboveRevoked == ASSUME AuthorityInv, [WalletNext]_walletVars PROVE MintedAboveRevoked
<1> USE DEF AuthorityInv
<1>1. ASSUME NEW s \in Signers, NEW t \in Tokens, MintCapability(s, t) PROVE MintedAboveRevoked
  <2> DEFINE c == Registered(t, s)
  <2>1. caps' = Put(caps, t.id, c) /\ ~IsRevoked(t.id) /\ (t.parent # NoCap => ~IsRevoked(t.parent))
    BY <1>1 DEF MintCapability
  <2>2. t = [id |-> t.id, parent |-> t.parent, issuer |-> t.issuer, scope |-> t.scope, spend |-> t.spend,
             norec |-> t.norec, from |-> t.from, until |-> t.until]
    BY WalletAssumption
  <2>3. c.parent = t.parent
    BY <2>2, RegisteredIs
  <2> HIDE DEF c
  <2>4. \A id \in DOMAIN caps' \ DOMAIN caps : id = t.id /\ caps'[id] = c
    BY <2>1 DEF Put
  <2>5. CASE t.parent = NoCap
    <3>1. Ancestors(c.parent) \cup {c.parent} = {NoCap} /\ NoCap \notin DOMAIN revoked
      BY <2>3, <2>5, NoAncestors DEF CapsTyped
    <3> QED
      BY <2>1, <2>4, <3>1 DEF IsRevoked, MintedAboveRevoked
  <2>6. CASE t.parent # NoCap
    BY <2>1, <2>3, <2>4, <2>6 DEF IsRevoked, MintedAboveRevoked
  <2> QED
    BY <2>5, <2>6
<1>2. ASSUME NEW s, NEW pid, NEW b, NEW n, NEW k, DelegateVerifier(s, pid, b, n, k) PROVE MintedAboveRevoked
  <2> DEFINE v == VerifierBody(caps[pid], k)
             c == Registered(v, s)
  <2>1. caps' = Put(caps, k, c)
    BY <1>2 DEF DelegateVerifier
  <2>2. c.norec = TRUE
    BY DEF Registered, Put, VerifierBody
  <2> HIDE DEF c
  <2>3. \A id \in DOMAIN caps' \ DOMAIN caps : caps'[id] = c
    BY <2>1 DEF Put
  <2> QED
    BY <2>2, <2>3 DEF MintedAboveRevoked
<1>3. CASE caps' = caps
  BY <1>3 DEF MintedAboveRevoked
<1>4. ASSUME NEW s, NEW x, NEW b, NEW n, NEW y,
             \/ RevokeCapability(x, y) \/ ActivateEmergency(x) \/ SetStop(x) \/ LiftStop(x)
             \/ ClearEmergency \/ CreatePurse(s, b, n) \/ FundPurse(s, b, n) \/ FundFrom(s, x, b, n) \/ ClosePurse(s, b)
             \/ SettleToolBatch(x)
      PROVE  caps' = caps
  BY <1>4 DEF RevokeCapability, ActivateEmergency, ClearEmergency, SetStop, LiftStop, CreatePurse, FundPurse,
    FundFrom, ClosePurse, SettleToolBatch, authorityVars
<1>5. WalletTick \/ UNCHANGED walletVars => caps' = caps
  BY DEF WalletTick, walletVars, authorityVars
<1> QED
  BY <1>1, <1>2, <1>3, <1>4, <1>5 DEF WalletNext

\* Nothing is minted below a capability revoked with cascade, at any distance,
\* and no id that is revoked so is minted (wallet_native.rs mint_capability).
THEOREM NothingMintedBelowRevoked == WalletSpec => NothingBelowRevoked
<1>1. AuthorityInv /\ [WalletNext]_walletVars => [MintedAboveRevoked]_walletVars
  BY MintsAboveRevoked
<1>2. NothingBelowRevoked <=> [][MintedAboveRevoked]_walletVars
  BY PTL DEF NothingBelowRevoked, MintedAboveRevoked
<1> QED
  BY <1>1, <1>2, AuthorityInvariant, PTL DEF WalletSpec
-----------------------------------------------------------------------------
(* Evm *)

AccountRecords == [nonce: Nat, balance: Nat]

\* Where a contract may be is where its creator has been.
Behind(A, a) == \E p \in DOMAIN A : \E n \in Nat : a = Append(p, n) /\ n < A[p].nonce

\* Accounts A and code at the addresses C: the account of a key has none.
WorldOK(A, C) ==
  /\ IsFiniteSet(DOMAIN A) /\ DOMAIN A \subseteq Seq(Nat) /\ A \in [DOMAIN A -> AccountRecords]
  /\ Nobody \notin DOMAIN A
  /\ \A k \in EvmOwners : <<k>> \in DOMAIN A
  /\ \A a \in C : a \in DOMAIN A /\ Len(a) >= 2
  /\ \A a \in DOMAIN A : Len(a) >= 2 /\ (A[a].nonce # 0 \/ a \in C) => Behind(A, a)

Balances(A) == [a \in DOMAIN A |-> A[a].balance]

\* A transaction of s takes the accounts A and the code at C to B and D: it moves
\* money from x to y and the nonce of s by one; or it creates y below x.
Outcome(A, C, B, D, s, x, y, kind) ==
  /\ x \in DOMAIN A /\ y \in Seq(Nat) /\ y # Nobody /\ s \in DOMAIN A /\ Len(s) = 1
  /\ B \in [DOMAIN A \cup {y} -> AccountRecords]
  /\ \A a \in DOMAIN A \ {x, y} : B[a].balance = A[a].balance
  /\ x # y => B[x].balance + B[y].balance = A[x].balance + Get(A, y, NoAccount).balance
  /\ x = y => B[x].balance = A[x].balance
  /\ Get(A, y, NoAccount).balance <= B[y].balance
  /\ x = s \/ x \in C
  /\ B[s].nonce = A[s].nonce + 1
  /\ \A a \in DOMAIN A \ {s, x, y} : B[a].nonce = A[a].nonce
  /\ IF kind = "born"
     THEN /\ y = Append(x, A[x].nonce) /\ B[x].nonce = A[x].nonce + 1
          /\ D \subseteq C \cup {y} /\ C \subseteq D
     ELSE /\ \A a \in {x, y} \ {s} : B[a].nonce = Get(A, a, NoAccount).nonce
          /\ D = C

\* The values g are those of f after a move from x to y, which had b.
IsMove(f, g, D, x, y, b) ==
  /\ f \in [D -> Nat] /\ g \in [D \cup {y} -> Nat] /\ b \in Nat /\ (y \in D => b = f[y]) /\ (y \notin D => b = 0)
  /\ \A a \in D \ {x, y} : g[a] = f[a]
  /\ (x # y => g[x] + g[y] = f[x] + b) /\ (x = y => g[x] = f[x])

\* Money that moves between two accounts, one of them perhaps new.
LEMMA MovedTotal ==
  ASSUME NEW D, IsFiniteSet(D), NEW y, NEW x \in D, NEW f, NEW g, NEW b, IsMove(f, g, D, x, y, b)
  PROVE  Total(g) = Total(f)
<1> USE DEF IsMove
<1> DEFINE U == D \cup {y}
           h == [a \in U |-> IF a \in D THEN f[a] ELSE 0]
<1>1. IsFiniteSet(U) /\ x \in U /\ y \in U
  BY FS_AddElement
<1>2. h \in [U -> Nat] /\ h[x] = f[x] /\ h[y] = b /\ \A a \in D : h[a] = f[a]
  OBVIOUS
<1>3. Total(h) = Total(f)
  <2>1. CASE y \in D
    <3>1. U = D
      BY <2>1
    <3>2. h = f
      BY <3>1
    <3> QED
      BY <3>2
  <2>2. CASE y \notin D
    <3>1. h \in [D \cup {y} -> Nat] /\ h[y] = 0 /\ \A a \in D : f[a] = h[a]
      BY <1>2, <2>2
    <3> HIDE DEF h
    <3>2. Total(h) = Total(f) + h[y]
      BY <2>2, <3>1, TotalWith
    <3>3. Total(f) \in Nat
      BY TotalNat
    <3> QED
      BY <3>1, <3>2, <3>3
  <2> QED
    BY <2>1, <2>2
<1>4. Total(g) = Total(h)
  <2>0. g \in [U -> Nat] /\ \A a \in U \ {x, y} : g[a] = h[a]
    OBVIOUS
  <2> DEFINE m == [h EXCEPT ![x] = g[x]]
  <2>1. m \in [U -> Nat] /\ m[x] = g[x] /\ (\A a \in U \ {x} : h[a] = m[a]) /\ (\A a \in U \ {y} : m[a] = g[a])
    BY <1>1, <1>2, <2>0
  <2>2. Total(h) \in Nat /\ Total(m) \in Nat /\ Total(g) \in Nat
    <3> HIDE DEF h, m, U
    <3> QED
      BY <1>1, <1>2, <2>0, <2>1, TotalNat
  <2>3. Total(m) + h[x] = Total(h) + m[x]
    <3> HIDE DEF h, m, U
    <3> QED
      BY <1>1, <1>2, <2>1, TotalChange
  <2>4. Total(g) + m[y] = Total(m) + g[y]
    <3> HIDE DEF h, m, U
    <3> QED
      BY <1>1, <2>0, <2>1, TotalChange
  <2>5. g[x] \in Nat /\ g[y] \in Nat /\ f[x] \in Nat /\ m[y] \in Nat
    BY <1>1, <2>0, <2>1
  <2>6. CASE x = y
    BY <1>2, <2>1, <2>2, <2>3, <2>4, <2>5, <2>6
  <2>7. CASE x # y
    <3>1. m[y] = b /\ g[x] + g[y] = f[x] + b
      BY <1>1, <1>2, <2>1, <2>7
    <3> HIDE DEF m, h, U
    <3> QED
      BY <1>2, <2>1, <2>2, <2>3, <2>4, <2>5, <3>1
  <2> QED
    BY <2>6, <2>7
<1> QED
  BY <1>3, <1>4

\* Such a transaction conserves money.
LEMMA OutcomeConserves ==
  ASSUME NEW A, NEW C, NEW B, NEW D, NEW s, NEW x, NEW y, NEW kind,
         WorldOK(A, C), Outcome(A, C, B, D, s, x, y, kind)
  PROVE  Total(Balances(B)) = Total(Balances(A))
<1> DEFINE f == Balances(A)
           g == Balances(B)
           E == DOMAIN A
           b == Get(A, y, NoAccount).balance
<1>1. DOMAIN B = E \cup {y} /\ x \in E /\ IsFiniteSet(E)
  BY DEF Outcome, WorldOK
<1>2. f \in [E -> Nat] /\ \A a \in E : f[a] = A[a].balance
  BY DEF WorldOK, AccountRecords, Balances
<1>3. g \in [E \cup {y} -> Nat] /\ \A a \in E \cup {y} : g[a] = B[a].balance
  BY <1>1 DEF Outcome, AccountRecords, Balances
<1>4. b \in Nat /\ (y \in E => b = f[y]) /\ (y \notin E => b = 0)
  BY <1>2 DEF Get, NoAccount
<1>5. \A a \in E \ {x, y} : g[a] = f[a]
  BY <1>2, <1>3 DEF Outcome
<1>6. (x # y => g[x] + g[y] = f[x] + b) /\ (x = y => g[x] = f[x])
  BY <1>1, <1>2, <1>3 DEF Outcome
<1> HIDE DEF f, g, E, b
<1>7. IsMove(f, g, E, x, y, b)
  BY <1>2, <1>3, <1>4, <1>5, <1>6 DEF IsMove
<1>8. Total(g) = Total(f)
  BY <1>1, <1>7, MovedTotal
<1> QED
  BY <1>8 DEF f, g

\* A sequence that was appended to is known by it.
LEMMA AppendSame ==
  ASSUME NEW p \in Seq(Nat), NEW q \in Seq(Nat), NEW m \in Nat, NEW n \in Nat, Append(p, m) = Append(q, n)
  PROVE  p = q /\ m = n
BY AppendInjective

\* y is the address that x derives next.
IsNext(y, x, A) == y = Append(x, A[x].nonce)

\* The address a creator derives next holds no contract.
LEMMA NextIsFree ==
  ASSUME NEW A, NEW C, WorldOK(A, C), NEW x \in DOMAIN A, Len(x) # 0, NEW y, IsNext(y, x, A)
  PROVE  y \notin C /\ (y \in DOMAIN A => A[y].nonce = 0) /\ y \in Seq(Nat) /\ Len(y) >= 2
<1>1. x \in Seq(Nat) /\ A[x].nonce \in Nat /\ y = Append(x, A[x].nonce)
  BY DEF WorldOK, AccountRecords, IsNext
<1>2. y \in Seq(Nat) /\ Len(y) = Len(x) + 1 /\ Len(x) \in Nat
  BY <1>1
<1>3. ~Behind(A, y)
  <2> SUFFICES ASSUME NEW p \in DOMAIN A, NEW n \in Nat, y = Append(p, n), n < A[p].nonce PROVE FALSE
    BY DEF Behind
  <2>1. p \in Seq(Nat)
    BY DEF WorldOK
  <2>2. p = x /\ n = A[x].nonce
    <3> DEFINE m == A[x].nonce
    <3>1. Append(p, n) = Append(x, m) /\ m \in Nat
      BY <1>1
    <3> HIDE DEF m
    <3>2. p = x /\ n = m
      BY <1>1, <2>1, <3>1, AppendSame
    <3> QED
      BY <3>2 DEF m
  <2> QED
    BY <1>1, <2>2
<1>4. Len(y) >= 2
  BY <1>2
<1>5. y \in C => y \in DOMAIN A
  BY DEF WorldOK
<1>6. y \in DOMAIN A => A[y].nonce = 0 /\ y \notin C
  BY <1>3, <1>4 DEF WorldOK
<1> QED
  BY <1>2, <1>4, <1>5, <1>6

\* Two addresses of different lengths.
LEMMA LongerDiffers == ASSUME NEW a \in Seq(Nat), NEW s, Len(a) >= 2, Len(s) = 1 PROVE a # s
<1> DEFINE n == Len(a)
<1>1. n \in Nat /\ n >= 2
  OBVIOUS
<1> HIDE DEF n
<1>2. n # 1
  BY <1>1
<1> QED
  BY <1>2 DEF n

\* And leaves the accounts in order.
LEMMA OutcomeOK ==
  ASSUME NEW A, NEW C, NEW B, NEW D, NEW s, NEW x, NEW y, NEW kind,
         WorldOK(A, C), Outcome(A, C, B, D, s, x, y, kind)
  PROVE  WorldOK(B, D)
<1>0. Len(s) = 1 /\ (x = s \/ x \in C)
  BY DEF Outcome
<1>1. DOMAIN B = DOMAIN A \cup {y} /\ x \in DOMAIN A /\ IsFiniteSet(DOMAIN A) /\ y \in Seq(Nat)
  BY DEF Outcome, WorldOK
<1>2. IsFiniteSet(DOMAIN B) /\ DOMAIN B \subseteq Seq(Nat)
  BY <1>1, FS_AddElement DEF WorldOK
<1>3. \A a \in DOMAIN A : A[a].nonce \in Nat /\ B[a].nonce \in Nat
  BY <1>1 DEF WorldOK, Outcome, AccountRecords
<1>b. ASSUME kind = "born" PROVE y = Append(x, A[x].nonce) /\ (y \in DOMAIN A => A[y].nonce = 0) /\ Len(y) >= 2 /\ B[x].nonce = A[x].nonce + 1
  <2>1. y = Append(x, A[x].nonce) /\ B[x].nonce = A[x].nonce + 1
    BY <1>b DEF Outcome
  <2>2. Len(x) # 0
    <3>1. x \in C => Len(x) >= 2
      BY DEF WorldOK
    <3> QED
      BY <1>0, <3>1
  <2> QED
    <3>1. IsNext(y, x, A)
      BY <2>1 DEF IsNext
    <3>2. (y \in DOMAIN A => A[y].nonce = 0) /\ Len(y) >= 2
      BY <1>1, <2>2, <3>1, NextIsFree
    <3> QED
      BY <2>1, <3>2
<1>4. \A a \in DOMAIN A : A[a].nonce <= B[a].nonce
  <2> SUFFICES ASSUME NEW a \in DOMAIN A PROVE A[a].nonce <= B[a].nonce
    OBVIOUS
  <2>0. A[a].nonce \in Nat /\ B[a].nonce \in Nat
    BY <1>3
  <2>1. CASE a = s
    BY <2>0, <2>1 DEF Outcome
  <2>2. CASE a # s /\ a # x /\ a # y
    BY <2>0, <2>2 DEF Outcome
  <2>3. CASE a # s /\ a = x
    BY <2>0, <2>3 DEF Outcome, Get
  <2>4. CASE a # s /\ a # x /\ a = y
    <3>1. CASE kind # "born"
      BY <2>0, <2>4, <3>1 DEF Outcome, Get
    <3>2. CASE kind = "born"
      BY <1>b, <2>0, <2>4, <3>2
    <3> QED
      BY <3>1, <3>2
  <2> QED
    BY <2>1, <2>2, <2>3, <2>4
<1>5. ASSUME NEW a, Behind(A, a) PROVE Behind(B, a)
  <2>1. PICK p \in DOMAIN A : \E n \in Nat : a = Append(p, n) /\ n < A[p].nonce
    BY <1>5 DEF Behind
  <2>2. PICK n \in Nat : a = Append(p, n) /\ n < A[p].nonce
    BY <2>1
  <2>3. p \in DOMAIN B /\ n < B[p].nonce
    <3>1. A[p].nonce \in Nat /\ B[p].nonce \in Nat /\ A[p].nonce <= B[p].nonce
      BY <1>3, <1>4
    <3> QED
      BY <1>1, <2>2, <3>1
  <2> QED
    BY <2>2, <2>3 DEF Behind
<1>6. ASSUME NEW a \in DOMAIN B, Len(a) >= 2, B[a].nonce # 0 \/ a \in D PROVE Behind(B, a)
  <2>0. a # s
    BY <1>0, <1>2, <1>6, LongerDiffers
  <2>1. CASE kind = "born" /\ a = y
    <3>1. y = Append(x, A[x].nonce) /\ A[x].nonce \in Nat /\ A[x].nonce < B[x].nonce /\ x \in DOMAIN B
      BY <1>1, <1>3, <1>b, <2>1
    <3> QED
      BY <2>1, <3>1 DEF Behind
  <2>2. CASE kind # "born" /\ a = y
    <3>1. B[y].nonce = Get(A, y, NoAccount).nonce /\ D = C
      BY <2>0, <2>2 DEF Outcome
    <3>2. y \in DOMAIN A
      BY <1>6, <2>2, <3>1 DEF Get, NoAccount, WorldOK
    <3>3. A[y].nonce # 0 \/ y \in C
      BY <1>6, <2>2, <3>1, <3>2 DEF Get
    <3> QED
      BY <1>5, <1>6, <2>2, <3>2, <3>3 DEF WorldOK
  <2>3. CASE a # y /\ a = x
    <3>1. x \in C
      BY <2>0, <2>3 DEF Outcome
    <3> QED
      BY <1>5, <2>3, <3>1 DEF WorldOK
  <2>4. CASE a # y /\ a # x
    <3>1. a \in DOMAIN A /\ B[a].nonce = A[a].nonce
      BY <1>1, <2>0, <2>4 DEF Outcome
    <3>2. a \in D => a \in C
      BY <2>4 DEF Outcome
    <3> QED
      BY <1>5, <1>6, <3>1, <3>2 DEF WorldOK
  <2> QED
    BY <2>1, <2>2, <2>3, <2>4
<1>7. \A a \in D : a \in DOMAIN B /\ Len(a) >= 2
  <2>1. \A a \in C : a \in DOMAIN B /\ Len(a) >= 2
    BY <1>1 DEF WorldOK
  <2>2. \A a \in D : a \in C \/ (kind = "born" /\ a = y)
    BY DEF Outcome
  <2> QED
    BY <1>1, <1>b, <2>1, <2>2
<1>8. B \in [DOMAIN B -> AccountRecords] /\ Nobody \notin DOMAIN B /\ \A k \in EvmOwners : <<k>> \in DOMAIN B
  BY <1>1 DEF Outcome, WorldOK
<1> QED
  BY <1>2, <1>6, <1>7, <1>8 DEF WorldOK

-----------------------------------------------------------------------------
\* The fields of a state.
WorldShape(w) == w = [accounts |-> w.accounts, code |-> w.code, storage |-> w.storage, native |-> w.native]

\* v is w after s's transaction with the change set ch.
Written(w, v, ch, s) ==
  /\ WorldShape(v)
  /\ v.accounts = [a \in DOMAIN w.accounts \cup DOMAIN ch |->
                     IF a = s THEN [nonce |-> w.accounts[s].nonce + 1, balance |-> ch[s].balance]
                     ELSE IF a \in DOMAIN ch THEN [nonce |-> ch[a].nonce, balance |-> ch[a].balance]
                     ELSE w.accounts[a]]
  /\ DOMAIN v.code = DOMAIN w.code \cup {a \in DOMAIN ch : ch[a].code # "none"}

\* What StateDb::commit writes.
LEMMA CommitIs ==
  ASSUME NEW w, WorldShape(w), NEW ch
  PROVE  /\ WorldShape(Commit(w, ch))
         /\ Commit(w, ch).accounts = Over([a \in DOMAIN ch |-> [nonce |-> ch[a].nonce, balance |-> ch[a].balance]], w.accounts)
         /\ DOMAIN Commit(w, ch).code = DOMAIN w.code \cup {a \in DOMAIN ch : ch[a].code # "none"}
<1> DEFINE coded == {a \in DOMAIN ch : ch[a].code # "none"}
           na == Over([a \in DOMAIN ch |-> [nonce |-> ch[a].nonce, balance |-> ch[a].balance]], w.accounts)
           nc == Over([a \in coded |-> ch[a].code], w.code)
           ns == Over([a \in coded |-> ch[a].slot], w.storage)
<1>1. Commit(w, ch) = [w EXCEPT !.accounts = na, !.code = nc, !.storage = ns]
  BY DEF Commit
<1>2. DOMAIN nc = DOMAIN w.code \cup coded
  BY DEF Over
<1> HIDE DEF na, nc, ns
<1>3. Commit(w, ch) = [accounts |-> na, code |-> nc, storage |-> ns, native |-> w.native]
  BY <1>1 DEF WorldShape
<1> QED
  BY <1>2, <1>3 DEF WorldShape, na

\* After a create, whose change set has the nonce moved.
LEMMA CreateWrites ==
  ASSUME NEW w, WorldShape(w), NEW ch, NEW s \in DOMAIN ch, s \in DOMAIN w.accounts, ch[s].nonce = w.accounts[s].nonce + 1
  PROVE  Written(w, Commit(w, ch), ch, s)
<1> DEFINE v == Commit(w, ch)
<1>1. WorldShape(v) /\ DOMAIN v.code = DOMAIN w.code \cup {a \in DOMAIN ch : ch[a].code # "none"}
  BY CommitIs
<1>2. v.accounts = Over([a \in DOMAIN ch |-> [nonce |-> ch[a].nonce, balance |-> ch[a].balance]], w.accounts)
  BY CommitIs
<1> HIDE DEF v
<1>3. v.accounts = [a \in DOMAIN w.accounts \cup DOMAIN ch |->
                     IF a = s THEN [nonce |-> w.accounts[s].nonce + 1, balance |-> ch[s].balance]
                     ELSE IF a \in DOMAIN ch THEN [nonce |-> ch[a].nonce, balance |-> ch[a].balance]
                     ELSE w.accounts[a]]
  BY <1>2 DEF Over
<1> QED
  BY <1>1, <1>3 DEF Written, v

\* After a call, which puts the nonce back for bump_nonce to move it.
LEMMA CallWrites ==
  ASSUME NEW w, WorldShape(w), NEW ch, NEW s \in DOMAIN ch, s \in DOMAIN w.accounts, NEW v,
         v = Bumped([Commit(w, ch) EXCEPT !.accounts[s].nonce = AccountAt(w, s).nonce], s)
  PROVE  Written(w, v, ch, s)
<1> DEFINE c == Commit(w, ch)
<1>1. WorldShape(c) /\ DOMAIN c.code = DOMAIN w.code \cup {a \in DOMAIN ch : ch[a].code # "none"}
  BY CommitIs
<1>2. c.accounts = Over([a \in DOMAIN ch |-> [nonce |-> ch[a].nonce, balance |-> ch[a].balance]], w.accounts)
  BY CommitIs
<1>3. v = [[c EXCEPT !.accounts[s].nonce = w.accounts[s].nonce] EXCEPT !.accounts[s].nonce = @ + 1]
  BY DEF Bumped, AccountAt, Get
<1> HIDE DEF c
<1> DEFINE na == [c.accounts EXCEPT ![s].nonce = w.accounts[s].nonce]
           nb == [na EXCEPT ![s].nonce = @ + 1]
<1>4. v = [accounts |-> nb, code |-> c.code, storage |-> c.storage, native |-> c.native]
  <2> DEFINE d == [c EXCEPT !.accounts[s].nonce = w.accounts[s].nonce]
  <2>1. d = [accounts |-> na, code |-> c.code, storage |-> c.storage, native |-> c.native]
    BY <1>1 DEF WorldShape
  <2> HIDE DEF d, na
  <2>2. [d EXCEPT !.accounts[s].nonce = @ + 1] = [accounts |-> nb, code |-> c.code, storage |-> c.storage, native |-> c.native]
    BY <2>1
  <2> QED
    BY <1>3, <2>2 DEF d
<1>5. c.accounts[s] = [nonce |-> ch[s].nonce, balance |-> ch[s].balance] /\ s \in DOMAIN c.accounts
  BY <1>2 DEF Over
<1>6. nb = [c.accounts EXCEPT ![s] = [nonce |-> w.accounts[s].nonce + 1, balance |-> ch[s].balance]]
  BY <1>5
<1> HIDE DEF na, nb
<1>7. nb = [a \in DOMAIN w.accounts \cup DOMAIN ch |->
                     IF a = s THEN [nonce |-> w.accounts[s].nonce + 1, balance |-> ch[s].balance]
                     ELSE IF a \in DOMAIN ch THEN [nonce |-> ch[a].nonce, balance |-> ch[a].balance]
                     ELSE w.accounts[a]]
  BY <1>2, <1>6 DEF Over
<1>8. WorldShape(v) /\ v.accounts = nb /\ v.code = c.code
  BY <1>4 DEF WorldShape
<1> QED
  BY <1>1, <1>7, <1>8 DEF Written

\* Only s's nonce moves, and y is there.
OnlyTouches(A, C, B, D, s, y) ==
  /\ B \in [DOMAIN A \cup {y} -> AccountRecords] /\ D = C
  /\ B[s].nonce = A[s].nonce + 1 /\ B[s].balance = A[s].balance
  /\ \A a \in (DOMAIN A \cup {y}) \ {s} : B[a].nonce = Get(A, a, NoAccount).nonce /\ B[a].balance = Get(A, a, NoAccount).balance

\* That is an outcome.
LEMMA TouchedOutcome ==
  ASSUME NEW A, NEW C, NEW B, NEW D, NEW s \in DOMAIN A, NEW y \in Seq(Nat), y # Nobody, Len(s) = 1,
         A \in [DOMAIN A -> AccountRecords], OnlyTouches(A, C, B, D, s, y)
  PROVE  Outcome(A, C, B, D, s, s, y, "called")
<1>1. B \in [DOMAIN A \cup {y} -> AccountRecords] /\ D = C /\ B[s].nonce = A[s].nonce + 1 /\ B[s].balance = A[s].balance
  BY DEF OnlyTouches
<1>2. \A a \in DOMAIN A \ {s, y} : B[a].balance = A[a].balance /\ B[a].nonce = A[a].nonce
  BY DEF OnlyTouches, Get
<1>3. y # s => B[y].nonce = Get(A, y, NoAccount).nonce /\ B[y].balance = Get(A, y, NoAccount).balance
  BY DEF OnlyTouches
<1>4. \A a \in DOMAIN A \cup {y} : B[a].balance \in Nat /\ B[a].nonce \in Nat
  BY <1>1 DEF AccountRecords
<1>5. y = s => Get(A, y, NoAccount).balance = B[y].balance
  BY <1>1 DEF Get
<1>6. Get(A, y, NoAccount).balance <= B[y].balance
  BY <1>3, <1>4, <1>5
<1> QED
  BY <1>1, <1>2, <1>3, <1>6 DEF Outcome

\* The accounts and the addresses with code that are written.
WrittenAs(A, C, B, D, ch, s) ==
  /\ B = [a \in DOMAIN A \cup DOMAIN ch |->
            IF a = s THEN [nonce |-> A[s].nonce + 1, balance |-> ch[s].balance]
            ELSE IF a \in DOMAIN ch THEN [nonce |-> ch[a].nonce, balance |-> ch[a].balance]
            ELSE A[a]]
  /\ D = C \cup {a \in DOMAIN ch : ch[a].code # "none"}

\* A change set that changes nothing but s's nonce.
Harmless(A, C, ch, s, y) ==
  /\ s \in DOMAIN ch /\ y \in DOMAIN ch /\ DOMAIN ch \subseteq DOMAIN A \cup {y} /\ ch[s].balance = A[s].balance
  /\ \A a \in DOMAIN ch \ {s} : ch[a].nonce = Get(A, a, NoAccount).nonce /\ ch[a].balance = Get(A, a, NoAccount).balance
  /\ \A a \in DOMAIN ch : ch[a].code # "none" => a \in C

\* It does just that.
LEMMA HarmlessTouches ==
  ASSUME NEW A, NEW C, NEW B, NEW D, NEW ch, NEW s \in DOMAIN A, NEW y,
         A \in [DOMAIN A -> AccountRecords], WrittenAs(A, C, B, D, ch, s), Harmless(A, C, ch, s, y)
  PROVE  OnlyTouches(A, C, B, D, s, y)
<1>1. DOMAIN B = DOMAIN A \cup {y} /\ B = [a \in DOMAIN B |-> B[a]]
  BY DEF WrittenAs, Harmless
<1>2. B[s] = [nonce |-> A[s].nonce + 1, balance |-> A[s].balance]
  BY DEF WrittenAs, Harmless
<1>3. ASSUME NEW a \in DOMAIN B, a # s
      PROVE  B[a] = [nonce |-> Get(A, a, NoAccount).nonce, balance |-> Get(A, a, NoAccount).balance]
  <2>1. CASE a \in DOMAIN ch
    BY <1>3, <2>1 DEF WrittenAs, Harmless
  <2>2. CASE a \notin DOMAIN ch
    <3>1. a \in DOMAIN A /\ B[a] = A[a]
      BY <1>1, <1>3, <2>2 DEF WrittenAs, Harmless
    <3>2. A[a] \in AccountRecords
      BY <3>1
    <3> QED
      BY <3>1, <3>2 DEF AccountRecords, Get
  <2> QED
    BY <2>1, <2>2
<1>4. \A a \in DOMAIN B : Get(A, a, NoAccount).nonce \in Nat /\ Get(A, a, NoAccount).balance \in Nat
  BY DEF Get, NoAccount, AccountRecords
<1>5. A[s].nonce \in Nat /\ A[s].balance \in Nat
  BY DEF AccountRecords
<1>6. \A a \in DOMAIN B : B[a] \in AccountRecords
  BY <1>2, <1>3, <1>4, <1>5 DEF AccountRecords
<1>7. D = C
  BY DEF WrittenAs, Harmless
<1>8. B \in [DOMAIN A \cup {y} -> AccountRecords]
  BY <1>1, <1>6
<1>9. \A a \in (DOMAIN A \cup {y}) \ {s} :
        B[a].nonce = Get(A, a, NoAccount).nonce /\ B[a].balance = Get(A, a, NoAccount).balance
  <2> SUFFICES ASSUME NEW a \in (DOMAIN A \cup {y}) \ {s}
               PROVE  B[a].nonce = Get(A, a, NoAccount).nonce /\ B[a].balance = Get(A, a, NoAccount).balance
    OBVIOUS
  <2> DEFINE n == Get(A, a, NoAccount).nonce
             b == Get(A, a, NoAccount).balance
  <2>1. B[a] = [nonce |-> n, balance |-> b]
    BY <1>1, <1>3
  <2> HIDE DEF n, b
  <2>2. B[a].nonce = n /\ B[a].balance = b
    BY <2>1
  <2> QED
    BY <2>2 DEF n, b
<1>10. B[s].nonce = A[s].nonce + 1 /\ B[s].balance = A[s].balance
  BY <1>2
<1> QED
  BY <1>7, <1>8, <1>9, <1>10 DEF OnlyTouches

\* A call's change set has an outcome: at the code it runs, or at none.
LEMMA CallOutcome ==
  ASSUME NEW w, NEW s, NEW to, NEW v, WorldOK(w.accounts, DOMAIN w.code), s \in DOMAIN w.accounts, Len(s) = 1,
         s # Precompile, to \in Seq(Nat), to # Nobody, Written(w, v, Effects(w, s, to), s)
  PROVE  \E x, y, kind : Outcome(w.accounts, DOMAIN w.code, v.accounts, DOMAIN v.code, s, x, y, kind)
<1> DEFINE A == w.accounts
           C == DOMAIN w.code
           B == v.accounts
           D == DOMAIN v.code
           ch == Effects(w, s, to)
           me == TouchedAccount(w, to)
           you == [TouchedAccount(w, s) EXCEPT !.nonce = @ + 1]
           base == Put([a \in {to} |-> me], s, you)
<1>1. A[s].nonce \in Nat /\ A[s].balance \in Nat /\ A \in [DOMAIN A -> AccountRecords]
  BY DEF WorldOK, AccountRecords
<1>2. /\ me = [nonce |-> Get(A, to, NoAccount).nonce, balance |-> Get(A, to, NoAccount).balance,
               code |-> CodeAt(w, to), slot |-> me.slot]
      /\ me.nonce \in Nat /\ me.balance \in Nat
  BY <1>1 DEF TouchedAccount, AccountAt, Get, NoAccount, AccountRecords
<1>3. you = [nonce |-> A[s].nonce + 1, balance |-> A[s].balance, code |-> CodeAt(w, s), slot |-> you.slot]
  BY DEF TouchedAccount, AccountAt, Get
<1>4. s \notin C /\ CodeAt(w, s) = "none"
  <2>1. \A a \in C : a \in Seq(Nat) /\ Len(a) >= 2
    BY DEF WorldOK
  <2>2. s \notin C
    BY <2>1, LongerDiffers
  <2> QED
    BY <2>2 DEF CodeAt, Get
<1>5. (CodeAt(w, to) # "none" => to \in C) /\ (to \in C => to \in DOMAIN A /\ to # s)
  BY <1>4 DEF WorldOK, CodeAt, Get
<1> HIDE DEF me, you
<1>6. DOMAIN base = {s, to} /\ base[s] = you /\ (to # s => base[to] = me)
  BY DEF Put
<1>7. WrittenAs(A, C, B, D, ch, s)
  BY DEF Written, WrittenAs
<1>8. CASE CodeAt(w, to) = "store"
  <2>1. ch = [base EXCEPT ![to].slot = 1 - @]
    BY <1>8 DEF Effects, me, you
  <2> HIDE DEF base, ch
  <2>2. DOMAIN ch = {s, to} /\ ch[s] = you /\ ch[to].nonce = me.nonce /\ ch[to].balance = me.balance /\ ch[to].code = "store"
    BY <1>2, <1>5, <1>6, <1>8, <2>1
  <2>3. Harmless(A, C, ch, s, to)
    BY <1>2, <1>3, <1>4, <1>5, <1>8, <2>2 DEF Harmless
  <2>4. OnlyTouches(A, C, B, D, s, to)
    BY <1>1, <1>7, <2>3, HarmlessTouches
  <2> QED
    BY <1>1, <2>4, TouchedOutcome
<1>9. CASE CodeAt(w, to) = "syscall"
  <2> DEFINE P == Precompile
             t == TouchedAccount(w, P)
  <2>1. ch = Put(base, P, t)
    BY <1>9 DEF Effects, me, you
  <2>2. t.nonce = Get(A, P, NoAccount).nonce /\ t.balance = Get(A, P, NoAccount).balance /\ t.code = CodeAt(w, P)
    BY DEF TouchedAccount, AccountAt
  <2>3. P \in Seq(Nat) /\ P # Nobody /\ (CodeAt(w, P) # "none" => P \in C)
    BY DEF Precompile, Nobody, CodeAt, Get
  <2> HIDE DEF base, ch, t, P
  <2>4. DOMAIN ch = {s, to, P} /\ ch[s] = you /\ ch[P] = t /\ (to # P => ch[to] = me)
    BY <1>5, <1>6, <1>9, <2>1 DEF Put, P
  <2>5. Harmless(A, C, ch, s, P)
    BY <1>2, <1>3, <1>4, <1>5, <1>9, <2>2, <2>3, <2>4 DEF Harmless
  <2>6. OnlyTouches(A, C, B, D, s, P)
    BY <1>1, <1>7, <2>5, HarmlessTouches
  <2> QED
    BY <1>1, <2>3, <2>6, TouchedOutcome
<1>10. CASE CodeAt(w, to) \notin {"store", "pay", "spawn", "syscall"}
  <2>1. ch = base
    BY <1>10 DEF Effects, me, you
  <2> HIDE DEF base, ch
  <2>3. Harmless(A, C, ch, s, to)
    BY <1>2, <1>3, <1>4, <1>5, <1>6, <2>1 DEF Harmless
  <2>4. OnlyTouches(A, C, B, D, s, to)
    BY <1>1, <1>7, <2>3, HarmlessTouches
  <2> QED
    BY <1>1, <2>4, TouchedOutcome
<1>11. CASE CodeAt(w, to) = "pay"
  <2>1. ch = [base EXCEPT ![to].balance = 0, ![s].balance = @ + me.balance]
    BY <1>11 DEF Effects, me, you
  <2>0. to \in C /\ to # s /\ to \in DOMAIN A
    BY <1>5, <1>11
  <2> HIDE DEF base, ch
  <2>2. /\ DOMAIN ch = {s, to} /\ ch[s].balance = A[s].balance + A[to].balance /\ ch[to].nonce = A[to].nonce
        /\ ch[to].balance = 0 /\ ch[to].code = "pay" /\ ch[s].code = "none"
    BY <1>2, <1>3, <1>4, <1>6, <1>11, <2>0, <2>1 DEF Get
  <2>3. DOMAIN B = DOMAIN A /\ D = C
    BY <1>7, <2>0, <2>2 DEF WrittenAs
  <2>4. /\ B[s] = [nonce |-> A[s].nonce + 1, balance |-> A[s].balance + A[to].balance]
        /\ B[to] = [nonce |-> A[to].nonce, balance |-> 0] /\ B = [a \in DOMAIN B |-> B[a]]
        /\ \A a \in DOMAIN A \ {s, to} : B[a] = A[a]
    BY <1>7, <2>0, <2>2 DEF WrittenAs
  <2>5. A[to].nonce \in Nat /\ A[to].balance \in Nat
    BY <1>1, <2>0 DEF AccountRecords
  <2>6. \A a \in DOMAIN A : B[a] \in AccountRecords
    <3>1. B[s] \in AccountRecords
      BY <1>1, <2>4, <2>5 DEF AccountRecords
    <3>2. B[to] \in AccountRecords
      BY <2>4, <2>5 DEF AccountRecords
    <3>3. \A a \in DOMAIN A : A[a] \in AccountRecords
      BY <1>1
    <3> QED
      BY <2>4, <3>1, <3>2, <3>3
  <2>7. B \in [DOMAIN A \cup {s} -> AccountRecords]
    BY <2>3, <2>4, <2>6
  <2>8. s \in Seq(Nat) /\ s # Nobody /\ Get(A, s, NoAccount) = A[s]
    BY DEF WorldOK, Get
  <2>9. Outcome(A, C, B, D, s, to, s, "called")
    <3>1. B[to].balance + B[s].balance = A[to].balance + A[s].balance /\ A[s].balance <= B[s].balance
      BY <1>1, <2>4, <2>5
    <3> QED
      BY <2>0, <2>3, <2>4, <2>7, <2>8, <3>1 DEF Outcome, Get
  <2> QED
    BY <2>9
<1>12. CASE CodeAt(w, to) = "spawn"
  <2> DEFINE kid == Child(to, me.nonce)
             k == [nonce |-> 1, balance |-> me.balance + AccountAt(w, kid).balance, code |-> "store", slot |-> 0]
  <2>1. ch = Put([base EXCEPT ![to].nonce = @ + 1, ![to].balance = 0], kid, k)
    BY <1>12 DEF Effects, me, you
  <2>0. to \in C /\ to # s /\ to \in DOMAIN A
    BY <1>5, <1>12
  <2>2. A[to].nonce \in Nat /\ A[to].balance \in Nat /\ me.nonce = A[to].nonce /\ me.balance = A[to].balance
    BY <1>1, <1>2, <2>0 DEF AccountRecords, Get
  <2>3. kid = Append(to, A[to].nonce) /\ Get(A, kid, NoAccount).balance \in Nat
    BY <1>1, <2>2 DEF Child, AccountRecords, Get, NoAccount
  <2>4. kid \in Seq(Nat) /\ Len(kid) >= 2 /\ kid # to
    <3>1. IsNext(kid, to, A) /\ Len(to) # 0
      BY <2>0, <2>3 DEF IsNext, WorldOK
    <3> HIDE DEF kid
    <3>2. kid \in Seq(Nat) /\ Len(kid) >= 2
      BY <2>0, <3>1, NextIsFree
    <3>3. Len(kid) = Len(to) + 1 /\ Len(to) \in Nat
      BY <2>2, <2>3
    <3> QED
      BY <3>2, <3>3
  <2>5. kid # s /\ kid # Nobody
    BY <2>4, LongerDiffers DEF Nobody
  <2>6. k.nonce = 1 /\ k.balance = A[to].balance + Get(A, kid, NoAccount).balance
    BY <2>2 DEF AccountAt
  <2> HIDE DEF base, ch, kid, k
  <2>7. /\ DOMAIN ch = {s, to, kid} /\ ch[s].balance = A[s].balance /\ ch[s].code = "none"
        /\ ch[to].nonce = A[to].nonce + 1 /\ ch[to].balance = 0 /\ ch[kid] = k
    BY <1>2, <1>3, <1>4, <1>6, <2>0, <2>1, <2>2, <2>4, <2>5 DEF Put
  <2>8. DOMAIN B = DOMAIN A \cup {kid} /\ D \subseteq C \cup {kid} /\ C \subseteq D
    BY <1>7, <2>0, <2>7 DEF WrittenAs
  <2>9. /\ B[s] = [nonce |-> A[s].nonce + 1, balance |-> A[s].balance]
        /\ B[to] = [nonce |-> A[to].nonce + 1, balance |-> 0] /\ B = [a \in DOMAIN B |-> B[a]]
        /\ B[kid] = [nonce |-> 1, balance |-> k.balance]
        /\ \A a \in DOMAIN A \ {s, to, kid} : B[a] = A[a]
    BY <1>7, <2>0, <2>4, <2>5, <2>6, <2>7 DEF WrittenAs
  <2>10. k.balance \in Nat
    BY <2>2, <2>3, <2>6
  <2>11. \A a \in DOMAIN A \cup {kid} : B[a] \in AccountRecords
    <3>1. B[s] \in AccountRecords
      BY <1>1, <2>9 DEF AccountRecords
    <3>2. B[to] \in AccountRecords
      BY <2>2, <2>9 DEF AccountRecords
    <3>3. B[kid] \in AccountRecords
      BY <2>9, <2>10 DEF AccountRecords
    <3>4. \A a \in DOMAIN A : A[a] \in AccountRecords
      BY <1>1
    <3> QED
      BY <2>9, <3>1, <3>2, <3>3, <3>4
  <2>12. B \in [DOMAIN A \cup {kid} -> AccountRecords]
    BY <2>8, <2>9, <2>11
  <2>13. Outcome(A, C, B, D, s, to, kid, "born")
    <3>1. B[to].balance + B[kid].balance = A[to].balance + Get(A, kid, NoAccount).balance
          /\ Get(A, kid, NoAccount).balance <= B[kid].balance
      BY <2>2, <2>3, <2>6, <2>9
    <3>2. B[s].nonce = A[s].nonce + 1 /\ B[s].balance = A[s].balance /\ B[to].nonce = A[to].nonce + 1
      BY <2>9
    <3>3. \A a \in DOMAIN A \ {to, kid} : B[a].balance = A[a].balance
      BY <2>9, <3>2
    <3>4. \A a \in DOMAIN A \ {s, to, kid} : B[a].nonce = A[a].nonce
      BY <2>9
    <3> QED
      BY <2>0, <2>3, <2>4, <2>5, <2>8, <2>12, <3>1, <3>2, <3>3, <3>4 DEF Outcome
  <2> QED
    BY <2>13
<1> QED
  BY <1>8, <1>9, <1>10, <1>11, <1>12

\* A create's change set has one: the new contract is below its creator.
LEMMA CreateOutcome ==
  ASSUME NEW w, NEW s, NEW init, NEW v, WorldOK(w.accounts, DOMAIN w.code), s \in DOMAIN w.accounts, Len(s) = 1,
         Written(w, v, Creation(w, s, init), s)
  PROVE  \E x, y, kind : Outcome(w.accounts, DOMAIN w.code, v.accounts, DOMAIN v.code, s, x, y, kind)
<1> DEFINE A == w.accounts
           C == DOMAIN w.code
           B == v.accounts
           D == DOMAIN v.code
           ch == Creation(w, s, init)
           me == TouchedAccount(w, s)
           new == Child(s, me.nonce)
           code == IF init \in Codes THEN init ELSE "none"
           made == [nonce |-> 1, balance |-> AccountAt(w, new).balance, slot |-> 0, code |-> code]
           b == Get(A, new, NoAccount).balance
<1>1. A[s].nonce \in Nat /\ A[s].balance \in Nat /\ A \in [DOMAIN A -> AccountRecords]
  BY DEF WorldOK, AccountRecords
<1>2. me = [nonce |-> A[s].nonce, balance |-> A[s].balance, code |-> CodeAt(w, s), slot |-> me.slot]
  BY DEF TouchedAccount, AccountAt, Get
<1>3. new = Append(s, A[s].nonce) /\ b \in Nat
  BY <1>1 DEF Child, AccountRecords, Get, NoAccount, TouchedAccount, AccountAt
<1>4. ch = Put([a \in {new} |-> made], s, [me EXCEPT !.nonce = @ + 1])
  BY DEF Creation
<1>5. made.nonce = 1 /\ made.balance = b
  BY DEF AccountAt
<1>6. new \in Seq(Nat) /\ new # s /\ new # Nobody
  <2>1. IsNext(new, s, A) /\ Len(s) # 0
    BY <1>3 DEF IsNext
  <2> HIDE DEF new
  <2>2. new \in Seq(Nat) /\ Len(new) >= 2
    BY <2>1, NextIsFree
  <2> QED
    BY <2>2, LongerDiffers DEF Nobody
<1>7. WrittenAs(A, C, B, D, ch, s)
  BY DEF Written, WrittenAs
<1>8. s \notin C /\ CodeAt(w, s) = "none"
  <2>1. \A a \in C : a \in Seq(Nat) /\ Len(a) >= 2
    BY DEF WorldOK
  <2>2. s \notin C
    BY <2>1, LongerDiffers
  <2> QED
    BY <2>2 DEF CodeAt, Get
<1> HIDE DEF ch, me, new, made, b, code
<1>9. DOMAIN ch = {s, new} /\ ch[new] = made /\ ch[s].balance = A[s].balance /\ ch[s].code = "none"
  BY <1>2, <1>4, <1>6, <1>8 DEF Put
<1>10. DOMAIN B = DOMAIN A \cup {new} /\ D \subseteq C \cup {new} /\ C \subseteq D
  BY <1>7, <1>9 DEF WrittenAs
<1>11. /\ B[s] = [nonce |-> A[s].nonce + 1, balance |-> A[s].balance]
       /\ B[new] = [nonce |-> 1, balance |-> b] /\ B = [a \in DOMAIN B |-> B[a]]
       /\ \A a \in DOMAIN A \ {s, new} : B[a] = A[a]
  BY <1>5, <1>6, <1>7, <1>9 DEF WrittenAs
<1>12. \A a \in DOMAIN A \cup {new} : B[a] \in AccountRecords
  <2>1. B[s] \in AccountRecords
    BY <1>1, <1>11 DEF AccountRecords
  <2>2. B[new] \in AccountRecords
    BY <1>3, <1>11 DEF AccountRecords
  <2>3. \A a \in DOMAIN A : A[a] \in AccountRecords
    BY <1>1
  <2> QED
    BY <1>11, <2>1, <2>2, <2>3
<1>13. B \in [DOMAIN A \cup {new} -> AccountRecords]
  BY <1>10, <1>11, <1>12
<1>14. Outcome(A, C, B, D, s, s, new, "born")
  <2>1. B[s].balance + B[new].balance = A[s].balance + b /\ b <= B[new].balance /\ B[s].nonce = A[s].nonce + 1
    BY <1>1, <1>3, <1>11
  <2>2. \A a \in DOMAIN A \ {s, new} : B[a].balance = A[a].balance /\ B[a].nonce = A[a].nonce
    BY <1>11
  <2> QED
    BY <1>3, <1>6, <1>10, <1>13, <2>1, <2>2 DEF Outcome, b
<1> QED
  BY <1>14

\* B is Q with one account's nonce moved.
IsBump(B, Q, s) == B = [Q EXCEPT ![s].nonce = @ + 1]

\* The nonce of one account moves.
LEMMA BumpedAt ==
  ASSUME NEW Q, NEW B, NEW s \in DOMAIN Q, IsBump(B, Q, s), NEW m, NEW b, Q[s] = [nonce |-> m, balance |-> b]
  PROVE  /\ DOMAIN B = DOMAIN Q /\ B[s] = [nonce |-> m + 1, balance |-> b] /\ \A a \in DOMAIN Q \ {s} : B[a] = Q[a]
         /\ B = [a \in DOMAIN B |-> B[a]]
<1>1. [Q[s] EXCEPT !.nonce = @ + 1] = [nonce |-> m + 1, balance |-> b]
  OBVIOUS
<1>2. B = [Q EXCEPT ![s] = [Q[s] EXCEPT !.nonce = @ + 1]]
  BY DEF IsBump
<1> QED
  BY <1>1, <1>2

\* So has a transfer.
LEMMA TransferOutcome ==
  ASSUME NEW w, WorldShape(w), NEW s, NEW to \in Seq(Nat), to # Nobody, NEW n \in Nat, NEW v,
         WorldOK(w.accounts, DOMAIN w.code), s \in DOMAIN w.accounts, Len(s) = 1, n <= w.accounts[s].balance,
         v = Bumped(Transfers(w, s, to, n), s)
  PROVE  WorldShape(v) /\ \E x, y, kind : Outcome(w.accounts, DOMAIN w.code, v.accounts, DOMAIN v.code, s, x, y, kind)
<1> DEFINE A == w.accounts
           C == DOMAIN w.code
           paid == [w EXCEPT !.accounts[s].balance = @ - n]
           P == [A EXCEPT ![s].balance = @ - n]
           Q == Put(P, to, [AccountAt(paid, to) EXCEPT !.balance = @ + n])
           B == [Q EXCEPT ![s].nonce = @ + 1]
           t == Get(A, to, NoAccount)
<1>1. A[s].nonce \in Nat /\ A[s].balance \in Nat /\ A \in [DOMAIN A -> AccountRecords]
  BY DEF WorldOK, AccountRecords
<1>2. paid = [accounts |-> P, code |-> w.code, storage |-> w.storage, native |-> w.native]
  BY DEF WorldShape
<1>3. Transfers(w, s, to, n) = [accounts |-> Q, code |-> w.code, storage |-> w.storage, native |-> w.native]
  <2>1. Transfers(w, s, to, n) = [paid EXCEPT !.accounts = Put(paid.accounts, to, [AccountAt(paid, to) EXCEPT !.balance = @ + n])]
    BY DEF Transfers
  <2>2. paid.accounts = P
    BY <1>2
  <2> HIDE DEF P
  <2> QED
    BY <1>2, <2>1, <2>2
<1>4. v = [accounts |-> B, code |-> w.code, storage |-> w.storage, native |-> w.native]
  <2> DEFINE T == Transfers(w, s, to, n)
  <2>1. T = [accounts |-> T.accounts, code |-> T.code, storage |-> T.storage, native |-> T.native]
    BY <1>3
  <2>2. T.accounts = Q /\ T.code = w.code /\ T.storage = w.storage /\ T.native = w.native
    BY <1>3
  <2>3. v = [T EXCEPT !.accounts[s].nonce = @ + 1]
    BY DEF Bumped
  <2> HIDE DEF Q, T
  <2> QED
    BY <2>1, <2>2, <2>3
<1>5. WorldShape(v) /\ v.accounts = B /\ v.code = w.code
  <2> HIDE DEF B
  <2> QED
    BY <1>4 DEF WorldShape
<1>6. t.nonce \in Nat /\ t.balance \in Nat
  BY <1>1 DEF Get, NoAccount, AccountRecords
<1>7. P \in [DOMAIN A -> AccountRecords] /\ P[s] = [nonce |-> A[s].nonce, balance |-> A[s].balance - n]
      /\ \A a \in DOMAIN A \ {s} : P[a] = A[a]
  BY <1>1, SMTT(30) DEF AccountRecords
<1>8. AccountAt(paid, to) = Get(P, to, NoAccount)
  <2> HIDE DEF P
  <2> QED
    BY <1>2 DEF AccountAt
<1> HIDE DEF P
<1>9. CASE to = s
  <2>1. Q = Put(P, s, [P[s] EXCEPT !.balance = @ + n])
    BY <1>7, <1>8, <1>9 DEF Get
  <2>2. DOMAIN Q = DOMAIN A /\ Q[s] = [nonce |-> A[s].nonce, balance |-> A[s].balance] /\ (\A a \in DOMAIN A \ {s} : Q[a] = A[a])
        /\ Q = [a \in DOMAIN Q |-> Q[a]]
    <3> HIDE DEF Q
    <3> QED
      BY <1>1, <1>7, <2>1 DEF Put
  <2> HIDE DEF Q
  <2>3. DOMAIN B = DOMAIN A /\ B[s] = [nonce |-> A[s].nonce + 1, balance |-> A[s].balance] /\ (\A a \in DOMAIN A \ {s} : B[a] = A[a])
        /\ B = [a \in DOMAIN B |-> B[a]]
    <3>0. IsBump(B, Q, s)
      BY DEF IsBump
    <3> HIDE DEF B
    <3>1. /\ DOMAIN B = DOMAIN Q /\ B[s] = [nonce |-> A[s].nonce + 1, balance |-> A[s].balance]
          /\ (\A a \in DOMAIN Q \ {s} : B[a] = Q[a]) /\ B = [a \in DOMAIN B |-> B[a]]
      <4> DEFINE m == A[s].nonce
                 b == A[s].balance
      <4>1. Q[s] = [nonce |-> m, balance |-> b] /\ s \in DOMAIN Q
        BY <2>2
      <4> HIDE DEF m, b
      <4>2. DOMAIN B = DOMAIN Q /\ B[s] = [nonce |-> m + 1, balance |-> b] /\ (\A a \in DOMAIN Q \ {s} : B[a] = Q[a])
            /\ B = [a \in DOMAIN B |-> B[a]]
        BY <3>0, <4>1, BumpedAt
      <4> QED
        BY <4>2 DEF m, b
    <3> QED
      BY <2>2, <3>1
  <2> HIDE DEF B
  <2>4. \A a \in DOMAIN A : B[a] \in AccountRecords
    <3>1. B[s] \in AccountRecords
      BY <1>1, <2>3 DEF AccountRecords
    <3>2. \A a \in DOMAIN A : A[a] \in AccountRecords
      BY <1>1
    <3> QED
      BY <2>3, <3>1, <3>2
  <2>5. OnlyTouches(A, C, B, C, s, s)
    BY <2>3, <2>4 DEF OnlyTouches, Get
  <2>6. s \in Seq(Nat) /\ s # Nobody
    BY DEF WorldOK
  <2> QED
    BY <1>1, <1>5, <2>5, <2>6, TouchedOutcome
<1>10. CASE to # s
  <2>1. Get(P, to, NoAccount) = t
    BY <1>7, <1>10 DEF Get
  <2>2. Q = Put(P, to, [t EXCEPT !.balance = @ + n])
    BY <1>8, <2>1
  <2>3. t = [nonce |-> t.nonce, balance |-> t.balance]
    BY <1>1 DEF Get, NoAccount, AccountRecords
  <2> HIDE DEF Q, t
  <2>4. DOMAIN Q = DOMAIN A \cup {to} /\ Q[s] = [nonce |-> A[s].nonce, balance |-> A[s].balance - n]
        /\ Q[to] = [nonce |-> t.nonce, balance |-> t.balance + n] /\ (\A a \in DOMAIN A \ {s, to} : Q[a] = A[a])
        /\ Q = [a \in DOMAIN Q |-> Q[a]]
    BY <1>7, <1>10, <2>2, <2>3 DEF Put
  <2>5. DOMAIN B = DOMAIN A \cup {to} /\ B[s] = [nonce |-> A[s].nonce + 1, balance |-> A[s].balance - n]
        /\ B[to] = [nonce |-> t.nonce, balance |-> t.balance + n] /\ (\A a \in DOMAIN A \ {s, to} : B[a] = A[a])
        /\ B = [a \in DOMAIN B |-> B[a]]
    <3>0. IsBump(B, Q, s)
      BY DEF IsBump
    <3> HIDE DEF B
    <3>1. /\ DOMAIN B = DOMAIN Q /\ B[s] = [nonce |-> A[s].nonce + 1, balance |-> A[s].balance - n]
          /\ (\A a \in DOMAIN Q \ {s} : B[a] = Q[a]) /\ B = [a \in DOMAIN B |-> B[a]]
      <4> DEFINE m == A[s].nonce
                 b == A[s].balance - n
      <4>1. Q[s] = [nonce |-> m, balance |-> b] /\ s \in DOMAIN Q
        BY <2>4
      <4> HIDE DEF m, b
      <4>2. DOMAIN B = DOMAIN Q /\ B[s] = [nonce |-> m + 1, balance |-> b] /\ (\A a \in DOMAIN Q \ {s} : B[a] = Q[a])
            /\ B = [a \in DOMAIN B |-> B[a]]
        BY <3>0, <4>1, BumpedAt
      <4> QED
        BY <4>2 DEF m, b
    <3> QED
      BY <1>10, <2>4, <3>1
  <2> HIDE DEF B
  <2>6. \A a \in DOMAIN A \cup {to} : B[a] \in AccountRecords
    <3>1. B[s] \in AccountRecords
      BY <1>1, <2>5 DEF AccountRecords
    <3>2. B[to] \in AccountRecords
      BY <1>6, <2>5 DEF AccountRecords
    <3>3. \A a \in DOMAIN A : A[a] \in AccountRecords
      BY <1>1
    <3> QED
      BY <2>5, <3>1, <3>2, <3>3
  <2>7. B \in [DOMAIN A \cup {to} -> AccountRecords]
    BY <2>5, <2>6
  <2>8. Outcome(A, C, B, C, s, s, to, "called")
    <3>1. B[s].balance + B[to].balance = A[s].balance + t.balance /\ t.balance <= B[to].balance /\ B[s].nonce = A[s].nonce + 1
          /\ B[to].nonce = t.nonce
      BY <1>1, <1>6, <2>5
    <3>2. \A a \in DOMAIN A \ {s, to} : B[a].balance = A[a].balance /\ B[a].nonce = A[a].nonce
      BY <2>5
    <3> QED
      BY <1>10, <2>7, <3>1, <3>2 DEF Outcome, t
  <2> QED
    BY <1>5, <2>8
<1> QED
  BY <1>9, <1>10
-----------------------------------------------------------------------------
\* A native call only moves the nonce.
LEMMA NativeOutcome ==
  ASSUME NEW w, WorldShape(w), NEW s, NEW v, NEW data, WorldOK(w.accounts, DOMAIN w.code), s \in DOMAIN w.accounts,
         Len(s) = 1, v = Bumped(ExecuteCall(w, s, Precompile, data), s)
  PROVE  WorldShape(v) /\ \E x, y, kind : Outcome(w.accounts, DOMAIN w.code, v.accounts, DOMAIN v.code, s, x, y, kind)
<1> DEFINE A == w.accounts
           C == DOMAIN w.code
           B == [A EXCEPT ![s].nonce = @ + 1]
           nat == w.native \cup {s}
<1>1. A[s].nonce \in Nat /\ A[s].balance \in Nat /\ A \in [DOMAIN A -> AccountRecords]
  BY DEF WorldOK, AccountRecords
<1>2. ExecuteCall(w, s, Precompile, data) = [w EXCEPT !.native = nat]
  BY DEF ExecuteCall
<1>3. [w EXCEPT !.native = nat] = [accounts |-> A, code |-> w.code, storage |-> w.storage, native |-> nat]
  BY DEF WorldShape
<1>4. v = [accounts |-> B, code |-> w.code, storage |-> w.storage, native |-> nat]
  <2> DEFINE T == ExecuteCall(w, s, Precompile, data)
  <2> HIDE DEF nat
  <2>1. T = [accounts |-> T.accounts, code |-> T.code, storage |-> T.storage, native |-> T.native]
    BY <1>2, <1>3
  <2>2. T.accounts = A /\ T.code = w.code /\ T.storage = w.storage /\ T.native = nat
    BY <1>2, <1>3
  <2>3. v = [T EXCEPT !.accounts[s].nonce = @ + 1]
    BY DEF Bumped
  <2> HIDE DEF T
  <2> QED
    BY <2>1, <2>2, <2>3
<1>5. WorldShape(v) /\ v.accounts = B /\ v.code = w.code
  <2> HIDE DEF B
  <2> QED
    BY <1>4 DEF WorldShape
<1>6. IsBump(B, A, s)
  BY DEF IsBump
<1>7. A[s] = [nonce |-> A[s].nonce, balance |-> A[s].balance]
  BY <1>1 DEF AccountRecords
<1> HIDE DEF B
<1>8. /\ DOMAIN B = DOMAIN A /\ B[s] = [nonce |-> A[s].nonce + 1, balance |-> A[s].balance]
      /\ (\A a \in DOMAIN A \ {s} : B[a] = A[a]) /\ B = [a \in DOMAIN B |-> B[a]]
  BY <1>6, <1>7, BumpedAt
<1>9. \A a \in DOMAIN A : B[a] \in AccountRecords
  <2>1. B[s] \in AccountRecords
    BY <1>1, <1>8 DEF AccountRecords
  <2>2. \A a \in DOMAIN A : A[a] \in AccountRecords
    BY <1>1
  <2> QED
    BY <1>8, <2>1, <2>2
<1>10. OnlyTouches(A, C, B, C, s, s)
  BY <1>8, <1>9 DEF OnlyTouches, Get
<1>11. s \in Seq(Nat) /\ s # Nobody
  BY DEF WorldOK
<1> QED
  BY <1>1, <1>5, <1>10, <1>11, TouchedOutcome

\* What a state and the next one have in common when s's transaction is applied.
Moves(w, v, s) ==
  WorldShape(v) /\ \E x, y, kind : Outcome(w.accounts, DOMAIN w.code, v.accounts, DOMAIN v.code, s, x, y, kind)

\* An envelope that is applied has an outcome.
LEMMA AppliedMoves ==
  ASSUME NEW w, WorldShape(w), WorldOK(w.accounts, DOMAIN w.code), NEW s, Len(s) = 1, s # Precompile, NEW env,
         env.to \in Seq(Nat), env.to # Nobody, env.value \in Nat, Applies(w, s, env)
  PROVE  Moves(w, Applied(w, s, env), s)
<1> DEFINE v == Applied(w, s, env)
<1>1. s \in DOMAIN w.accounts
  BY DEF Applies, Known
<1>2. w.accounts[s].nonce \in Nat /\ w.accounts[s].balance \in Nat
  BY <1>1 DEF WorldOK, AccountRecords
<1>3. CASE Body(env) = "transfer"
  <2>1. v = Bumped(Transfers(w, s, env.to, env.value), s)
    BY <1>3 DEF Applied
  <2>2. env.value <= w.accounts[s].balance
    BY <1>1, <1>2, <1>3 DEF Applies, AccountAt, Get
  <2> HIDE DEF v
  <2> QED
    BY <1>1, <2>1, <2>2, TransferOutcome DEF Moves, v
<1>4. CASE Body(env) = "call" /\ env.to = Precompile
  <2>1. v = Bumped(ExecuteCall(w, s, Precompile, env.data), s)
    BY <1>4 DEF Applied
  <2> HIDE DEF v
  <2> QED
    BY <1>1, <2>1, NativeOutcome DEF Moves, v
<1>5. CASE Body(env) = "call" /\ env.to # Precompile
  <2> DEFINE ch == Effects(w, s, env.to)
  <2>1. v = Bumped([Commit(w, ch) EXCEPT !.accounts[s].nonce = AccountAt(w, s).nonce], s)
    BY <1>5 DEF Applied, ExecuteCall
  <2>2. s \in DOMAIN ch
    BY DEF Effects, Put
  <2> HIDE DEF v, ch
  <2>3. Written(w, v, ch, s)
    BY <1>1, <2>1, <2>2, CallWrites
  <2>4. WorldShape(v)
    BY <2>3 DEF Written
  <2> QED
    BY <1>1, <2>3, <2>4, CallOutcome DEF Moves, v, ch
<1>6. CASE Body(env) = "create"
  <2> DEFINE ch == Creation(w, s, env.data)
  <2>1. v = Commit(w, ch)
    BY <1>6 DEF Applied, ExecuteCreate
  <2>2. s \in DOMAIN ch /\ ch[s].nonce = w.accounts[s].nonce + 1
    BY <1>1 DEF Creation, Put, TouchedAccount, AccountAt, Get
  <2> HIDE DEF v, ch
  <2>3. Written(w, v, ch, s)
    BY <1>1, <2>1, <2>2, CreateWrites
  <2>4. WorldShape(v)
    BY <2>3 DEF Written
  <2> QED
    BY <1>1, <2>3, <2>4, CreateOutcome DEF Moves, v, ch
<1> QED
  BY <1>3, <1>4, <1>5, <1>6 DEF Body

\* A create for the next nonce whose init code succeeds is applied.
LEMMA CreateApplies ==
  ASSUME NEW w, WorldOK(w.accounts, DOMAIN w.code), NEW s \in DOMAIN w.accounts, Len(s) = 1, NEW env,
         env.chain = "ours", Body(env) = "create", env.value = 0, env.data # "fail", env.nonce = w.accounts[s].nonce
  PROVE  Applies(w, s, env)
<1> DEFINE A == w.accounts
           y == Child(s, AccountAt(w, s).nonce)
<1>1. IsNext(y, s, A)
  BY DEF IsNext, Child, AccountAt, Get
<1> HIDE DEF y
<1>2. y \notin DOMAIN w.code /\ (y \in DOMAIN A => A[y].nonce = 0)
  <2> DEFINE C == DOMAIN w.code
  <2> HIDE DEF C
  <2>1. WorldOK(A, C)
    BY DEF C
  <2>3. Len(s) # 0
    OBVIOUS
  <2>2. y \notin C /\ (y \in DOMAIN A => A[y].nonce = 0)
    <3> HIDE DEF A
    <3>1. s \in DOMAIN A
      BY DEF A
    <3> QED
      BY <1>1, <2>1, <2>3, <3>1, NextIsFree
  <2> QED
    BY <2>2 DEF C
<1>3. ~Collides(w, y)
  BY <1>2 DEF Collides, AccountAt, CodeAt, Get, NoAccount
<1>4. CreateRuns(w, s, env.data)
  BY <1>3 DEF CreateRuns, y
<1> QED
  BY <1>4 DEF Applies, Known, AccountAt, Get

\* What every envelope keeps: a contract is only where its creator's nonce has
\* been (so that the next address is free), and the money is the genesis money.
EvmInv ==
  /\ WorldShape(world) /\ WorldOK(world.accounts, DOMAIN world.code)
  /\ Total(Balances(world.accounts)) = GenesisFunds * Cardinality(EvmOwners)
  /\ forged = FALSE /\ dropped = FALSE

\* At genesis each key has its funds.
LEMMA EvmStart == EvmInit => EvmInv
<1> SUFFICES ASSUME EvmInit PROVE EvmInv
  OBVIOUS
<1> USE EvmAssumption
<1> DEFINE K == {<<k>> : k \in EvmOwners}
           A == [a \in K |-> [nonce |-> 0, balance |-> GenesisFunds]]
           f == [k \in EvmOwners |-> <<k>>]
<1>1. world = [accounts |-> A, code |-> Empty, storage |-> Empty, native |-> {}] /\ forged = FALSE /\ dropped = FALSE
  BY DEF EvmInit
<1>2. DOMAIN A = K /\ \A a \in K : A[a] = [nonce |-> 0, balance |-> GenesisFunds]
  OBVIOUS
<1>3. IsFiniteSet(K) /\ Cardinality(K) = Cardinality(EvmOwners)
  <2>1. f \in Bijection(EvmOwners, K)
    BY DEF Bijection, Injection, Surjection, IsInjective
  <2>2. ExistsBijection(EvmOwners, K)
    BY <2>1 DEF ExistsBijection
  <2> HIDE DEF K
  <2> QED
    BY <2>2, FS_Bijection
<1>4. Balances(A) = [a \in K |-> GenesisFunds]
  BY DEF Balances
<1>5. Total(Balances(A)) = GenesisFunds * Cardinality(EvmOwners)
  <2>1. Total([a \in K |-> GenesisFunds]) = Cardinality(K) * GenesisFunds
    <3> HIDE DEF K
    <3> QED
      BY <1>3, TotalConstant
  <2>2. Cardinality(K) \in Nat /\ GenesisFunds \in Nat
    BY <1>3, FS_CardinalityType
  <2> HIDE DEF K, A
  <2> QED
    BY <1>3, <1>4, <2>1, <2>2
<1>6. world.accounts = A /\ DOMAIN world.code = {} /\ WorldShape(world)
  BY <1>1 DEF Empty, WorldShape
<1>7. \A a \in K : a \in Seq(Nat) /\ Len(a) = 1 /\ a # Nobody
  <2> SUFFICES ASSUME NEW k \in EvmOwners PROVE <<k>> \in Seq(Nat) /\ Len(<<k>>) = 1 /\ <<k>> # Nobody
    OBVIOUS
  <2>1. k \in Nat /\ k # 1
    OBVIOUS
  <2> QED
    BY <2>1 DEF Nobody
<1>8. A \in [DOMAIN A -> AccountRecords]
  BY <1>2 DEF AccountRecords
<1>9. \A k \in EvmOwners : <<k>> \in DOMAIN A
  BY <1>2
<1>10. WorldOK(A, {})
  <2> HIDE DEF A
  <2>1. DOMAIN A \subseteq Seq(Nat) /\ Nobody \notin DOMAIN A
    BY <1>2, <1>7
  <2>2. \A a \in DOMAIN A : ~(Len(a) >= 2)
    <3> SUFFICES ASSUME NEW a \in DOMAIN A PROVE ~(Len(a) >= 2)
      OBVIOUS
    <3>1. Len(a) = 1
      BY <1>2, <1>7
    <3> DEFINE n == Len(a)
    <3> HIDE DEF n
    <3>2. n = 1
      BY <3>1 DEF n
    <3>3. ~(n >= 2)
      BY <3>2
    <3> QED
      BY <3>3 DEF n
  <2>3. IsFiniteSet(DOMAIN A)
    BY <1>2, <1>3
  <2> QED
    BY <1>8, <1>9, <2>1, <2>2, <2>3 DEF WorldOK
<1> QED
  BY <1>1, <1>5, <1>6, <1>10 DEF EvmInv

\* The accounts of keys: what s's transaction does to them.
KeysStep(w, v) ==
  \A k \in EvmOwners : /\ v.accounts[<<k>>].nonce \in {w.accounts[<<k>>].nonce, w.accounts[<<k>>].nonce + 1}
                       /\ v.accounts[<<k>>].balance < w.accounts[<<k>>].balance
                            => v.accounts[<<k>>].nonce = w.accounts[<<k>>].nonce + 1

\* Only the signer pays, and only the signer's nonce moves.
LEMMA MovesKeys ==
  ASSUME NEW w, NEW v, NEW s, WorldOK(w.accounts, DOMAIN w.code), Moves(w, v, s)
  PROVE  KeysStep(w, v)
<1> DEFINE A == w.accounts
           B == v.accounts
           C == DOMAIN w.code
<1>1. PICK x, y, kind : Outcome(A, C, B, DOMAIN v.code, s, x, y, kind)
  BY DEF Moves
<1>2. Len(s) = 1 /\ s \in DOMAIN A
  BY <1>1 DEF Outcome
<1> SUFFICES ASSUME NEW k \in EvmOwners
             PROVE  /\ B[<<k>>].nonce \in {A[<<k>>].nonce, A[<<k>>].nonce + 1}
                    /\ B[<<k>>].balance < A[<<k>>].balance => B[<<k>>].nonce = A[<<k>>].nonce + 1
  BY DEF KeysStep
<1> DEFINE a == <<k>>
<1>3. a \in DOMAIN A /\ a \in Seq(Nat) /\ Len(a) = 1
  BY EvmAssumption DEF WorldOK
<1>4. A[a].nonce \in Nat /\ A[a].balance \in Nat /\ B[a].balance \in Nat /\ B[a].nonce \in Nat
  BY <1>1, <1>3 DEF WorldOK, Outcome, AccountRecords
<1> HIDE DEF a
<1>5. CASE a = s
  BY <1>1, <1>5 DEF Outcome, a
<1>6. CASE a # s
  <2>1. a # x
    <3>1. x = s \/ x \in C
      BY <1>1 DEF Outcome
    <3>2. x \in C => x \in Seq(Nat) /\ Len(x) >= 2
      BY DEF WorldOK
    <3> QED
      BY <1>3, <1>6, <3>1, <3>2, LongerDiffers
  <2>2. CASE a # y
    <3>1. B[a].nonce = A[a].nonce /\ B[a].balance = A[a].balance
      BY <1>1, <1>3, <1>6, <2>1, <2>2 DEF Outcome
    <3> QED
      BY <1>4, <3>1 DEF a
  <2>3. CASE a = y
    <3>1. A[a].balance <= B[a].balance
      BY <1>1, <1>3, <2>3 DEF Outcome, Get
    <3>2. kind # "born"
      <4> SUFFICES ASSUME kind = "born" PROVE FALSE
        OBVIOUS
      <4>1. y = Append(x, A[x].nonce) /\ x \in DOMAIN A /\ (x = s \/ x \in C)
        BY <1>1 DEF Outcome
      <4>2. IsNext(y, x, A)
        BY <4>1 DEF IsNext
      <4>3. Len(x) # 0
        BY <1>2, <4>1 DEF WorldOK
      <4>4. y \in Seq(Nat) /\ Len(y) >= 2
        BY <4>1, <4>2, <4>3, NextIsFree
      <4> QED
        BY <1>3, <2>3, <4>4, LongerDiffers
    <3>3. B[a].nonce = A[a].nonce
      BY <1>1, <1>3, <1>6, <2>3, <3>2 DEF Outcome, Get
    <3> QED
      BY <1>4, <3>1, <3>3 DEF a
  <2> QED
    BY <2>2, <2>3
<1> QED
  BY <1>5, <1>6 DEF a

\* A submission applies what was signed, or nothing.
LEMMA SubmitStep ==
  ASSUME EvmInv, NEW key \in EvmOwners, NEW signed \in Envelopes, NEW env \in Copies(signed), Submit(key, signed, env)
  PROVE  EvmInv' /\ KeysStep(world, world')
<1> USE EvmAssumption
<1> DEFINE s == <<key>>
           w == world
<1>0. WorldShape(w) /\ WorldOK(w.accounts, DOMAIN w.code) /\ forged = FALSE /\ dropped = FALSE
      /\ Total(Balances(w.accounts)) = GenesisFunds * Cardinality(EvmOwners)
  BY DEF EvmInv
<1>1. s \in DOMAIN w.accounts /\ Len(s) = 1 /\ s # Precompile /\ ~Known(w, Nobody)
  BY <1>0 DEF WorldOK, Precompile, Known
<1>2. signed.to \in Seq(Nat) /\ signed.to # Nobody /\ signed.value \in {0, 1}
  <2>1. signed.to \in Recipients \cup {<<>>} \cup {<<k>> : k \in EvmOwners} /\ signed.value \in {0, 1}
    BY DEF Envelopes
  <2>2. Recipients \subseteq Seq(Nat) /\ Nobody \notin Recipients
    <3>1. DOMAIN w.accounts \subseteq Seq(Nat) /\ Nobody \notin DOMAIN w.accounts
      BY <1>0 DEF WorldOK
    <3>2. Precompile \in Seq(Nat) /\ Precompile # Nobody
      BY DEF Precompile, Nobody
    <3>3. \A k \in EvmOwners : <<k, 0>> \in Seq(Nat) /\ <<k, 0>> # Nobody
      BY DEF Nobody
    <3> QED
      BY <3>1, <3>2, <3>3 DEF Recipients
  <2>3. \A k \in EvmOwners : <<k>> \in Seq(Nat) /\ <<k>> # Nobody
    BY DEF Nobody
  <2>4. <<>> \in Seq(Nat) /\ <<>> # Nobody
    BY DEF Nobody
  <2> QED
    BY <2>1, <2>2, <2>3, <2>4
<1>3. RecoverSender(key, signed, env) = IF signed = env THEN s ELSE Nobody
  BY DEF RecoverSender, Sighash
<1>4. CASE Applies(world, RecoverSender(key, signed, env), env)
  <2>1. signed = env
    BY <1>1, <1>3, <1>4 DEF Applies
  <2>2. Applies(w, s, env) /\ w' = Applied(w, s, env) /\ forged' = FALSE /\ dropped' = FALSE
    BY <1>0, <1>3, <1>4, <2>1 DEF Submit
  <2>3. Moves(w, Applied(w, s, env), s)
    <3> HIDE DEF s, w
    <3>1. env.to \in Seq(Nat) /\ env.to # Nobody /\ env.value \in Nat
      BY <1>2, <2>1
    <3> QED
      BY <1>0, <1>1, <2>2, <3>1, AppliedMoves
  <2>4. Moves(w, world', s)
    BY <2>2, <2>3
  <2> DEFINE v == world'
  <2> HIDE DEF s, v, w
  <2>5. KeysStep(w, v)
    BY <1>0, <2>4, MovesKeys DEF v
  <2>6. PICK x, y, kind : Outcome(w.accounts, DOMAIN w.code, v.accounts, DOMAIN v.code, s, x, y, kind)
    BY <2>4 DEF Moves, v
  <2>7. WorldShape(v)
    BY <2>4 DEF Moves, v
  <2>8. WorldOK(v.accounts, DOMAIN v.code)
    <3> DEFINE A == w.accounts
               B == v.accounts
               C == DOMAIN w.code
               D == DOMAIN v.code
    <3>1. WorldOK(A, C) /\ Outcome(A, C, B, D, s, x, y, kind)
      BY <1>0, <2>6
    <3> HIDE DEF A, B, C, D
    <3>2. WorldOK(B, D)
      BY <3>1, OutcomeOK
    <3> QED
      BY <3>2 DEF B, D
  <2>9. Total(Balances(v.accounts)) = Total(Balances(w.accounts))
    <3> DEFINE A == w.accounts
               B == v.accounts
               C == DOMAIN w.code
               D == DOMAIN v.code
    <3>1. WorldOK(A, C) /\ Outcome(A, C, B, D, s, x, y, kind)
      BY <1>0, <2>6
    <3> HIDE DEF A, B, C, D
    <3>2. Total(Balances(B)) = Total(Balances(A))
      BY <3>1, OutcomeConserves
    <3> QED
      BY <3>2 DEF A, B
  <2> QED
    BY <1>0, <2>2, <2>5, <2>7, <2>8, <2>9 DEF EvmInv, v, w
<1>5. CASE ~Applies(world, RecoverSender(key, signed, env), env)
  <2>1. ~(signed = env /\ env.chain = "ours" /\ Body(env) = "create" /\ env.value = 0 /\ env.data # "fail"
          /\ env.nonce = world.accounts[<<key>>].nonce)
    <3> HIDE DEF s, w
    <3>1. signed = env => ~Applies(w, s, env)
      BY <1>3, <1>5 DEF w
    <3> QED
      BY <1>0, <1>1, <3>1, CreateApplies DEF s, w
  <2>2. UNCHANGED <<world, forged>> /\ dropped' = FALSE
    BY <1>0, <1>5, <2>1 DEF Submit
  <2>3. KeysStep(w, w)
    <3>1. \A k \in EvmOwners : w.accounts[<<k>>].nonce \in Nat /\ w.accounts[<<k>>].balance \in Nat
      BY <1>0 DEF WorldOK, AccountRecords
    <3> SUFFICES ASSUME NEW k \in EvmOwners PROVE ~(w.accounts[<<k>>].balance < w.accounts[<<k>>].balance)
      BY DEF KeysStep
    <3> DEFINE b == w.accounts[<<k>>].balance
    <3>2. b \in Nat
      BY <3>1
    <3> HIDE DEF b
    <3>3. ~(b < b)
      BY <3>2
    <3> QED
      BY <3>3 DEF b
  <2> QED
    BY <1>0, <2>2, <2>3 DEF EvmInv
<1> QED
  BY <1>4, <1>5

\* The invariant is kept.
LEMMA EvmKept == EvmSpec => []EvmInv
<1>1. EvmInit => EvmInv
  BY EvmStart
<1>2. EvmInv /\ [EvmNext]_evmVars => EvmInv'
  <2> SUFFICES ASSUME EvmInv, [EvmNext]_evmVars PROVE EvmInv'
    OBVIOUS
  <2>1. CASE EvmNext
    BY <2>1, SubmitStep DEF EvmNext
  <2>2. CASE UNCHANGED evmVars
    BY <2>2 DEF evmVars, EvmInv
  <2> QED
    BY <2>1, <2>2
<1> QED
  BY <1>1, <1>2, PTL DEF EvmSpec

\* For any number of keys, any genesis funds and every sequence of envelopes: no
\* money is made or lost by commit, transfers and contracts, an envelope altered
\* after it was signed moves nothing, and a create finds its address free
\* (evm/src/engine.rs, eth-wire).
THEOREM EvmIsSafe == EvmSpec => []EvmSafe
<1>1. EvmInv => EvmSafe
  <2> SUFFICES ASSUME EvmInv PROVE EvmSafe
    OBVIOUS
  <2>1. EvmMoneyConserved
    BY DEF EvmInv, EvmMoneyConserved, SumOver, Balances
  <2> QED
    BY <2>1 DEF EvmInv, EvmSafe, OnlySignedApplied, CreatesFindRoom
<1> QED
  BY <1>1, EvmKept, PTL

\* A signer's nonce moves by exactly one with a transaction that is applied, and
\* no account of a key loses money without it.
THEOREM NoncesMoveOnce == EvmSpec => NonceOncePerTx
<1> DEFINE A == \A k \in EvmOwners :
                  LET was == world.accounts[<<k>>] IN
                  LET is == world'.accounts[<<k>>] IN
                  /\ is.nonce \in {was.nonce, was.nonce + 1}
                  /\ is.balance < was.balance => is.nonce = was.nonce + 1
<1>1. EvmInv /\ [EvmNext]_evmVars => [A]_evmVars
  <2> SUFFICES ASSUME EvmInv, EvmNext PROVE A
    OBVIOUS
  <2>1. KeysStep(world, world')
    BY SubmitStep DEF EvmNext
  <2> QED
    BY <2>1 DEF KeysStep
<1>2. EvmSpec => [][A]_evmVars
  BY <1>1, EvmKept, PTL DEF EvmSpec
<1> QED
  BY <1>2 DEF NonceOncePerTx
-----------------------------------------------------------------------------
(* Sums and walks *)

\* h is the sum of f and g.
AddsUp(h, f, g, S) ==
  /\ f \in [S -> Nat] /\ g \in [S -> Nat] /\ h \in [S -> Nat]
  /\ \A x \in S : h[x] = f[x] + g[x]

\* The sums of two functions.
LEMMA TotalPlus ==
  ASSUME NEW S, IsFiniteSet(S), NEW f, NEW g, NEW h, AddsUp(h, f, g, S)
  PROVE  Total(h) = Total(f) + Total(g)
<1>0. /\ f \in [S -> Nat] /\ g \in [S -> Nat] /\ h \in [S -> Nat]
      /\ \A x \in S : h[x] = f[x] + g[x]
  BY DEF AddsUp
<1> DEFINE P == {T \in SUBSET S : SumOf(h, T) = SumOf(f, T) + SumOf(g, T)}
<1>1. ASSUME NEW T \in SUBSET S, \A x \in T : T \ {x} \in P PROVE T \in P
  <2>1. CASE T = {}
    BY <2>1, SumEmpty
  <2>2. CASE T # {}
    <3>1. PICK x \in T : TRUE
      BY <2>2
    <3>2. IsFiniteSet(T) /\ x \in S /\ IsFiniteSet(T \ {x})
      BY FS_Subset
    <3>3. /\ SumOf(h, T) = SumOf(h, T \ {x}) + h[x]
          /\ SumOf(f, T) = SumOf(f, T \ {x}) + f[x]
          /\ SumOf(g, T) = SumOf(g, T \ {x}) + g[x]
      BY <1>0, <3>2, SumRemove
    <3>4. SumOf(f, T \ {x}) \in Nat /\ SumOf(g, T \ {x}) \in Nat
      BY <1>0, <3>2, SumNat
    <3>5. SumOf(h, T \ {x}) = SumOf(f, T \ {x}) + SumOf(g, T \ {x})
      BY <1>1
    <3>6. f[x] \in Nat /\ g[x] \in Nat /\ h[x] = f[x] + g[x]
      BY <1>0, <3>2
    <3> QED
      BY <3>3, <3>4, <3>5, <3>6
  <2> QED
    BY <2>1, <2>2
<1> HIDE DEF P
<1>2. S \in P
  BY <1>1, FiniteInduction
<1> QED
  BY <1>0, <1>2, TotalSum DEF P

\* A function on two sets without a common element.
LEMMA TotalSplit ==
  ASSUME NEW S, IsFiniteSet(S), NEW R, IsFiniteSet(R), S \cap R = {},
         NEW f \in [S \cup R -> Nat], NEW g \in [S -> Nat], NEW h \in [R -> Nat],
         \A x \in S : f[x] = g[x], \A x \in R : f[x] = h[x]
  PROVE  Total(f) = Total(g) + Total(h)
<1>1. SumOf(f, S \cup R) = SumOf(f, S) + SumOf(f, R)
  BY SumDisjoint
<1>2. SumOf(f, S) = SumOf(g, S) /\ SumOf(f, R) = SumOf(h, R)
  BY SumEqual
<1> QED
  BY <1>1, <1>2, TotalSum

\* f is g on R and zero elsewhere.
ZeroBeyond(f, g, S, R) ==
  /\ R \subseteq S /\ f \in [S -> Nat] /\ g \in [R -> Nat]
  /\ (\A x \in R : f[x] = g[x]) /\ \A x \in S \ R : f[x] = 0

\* A function that is zero outside a set.
LEMMA TotalOn ==
  ASSUME NEW S, IsFiniteSet(S), NEW R, NEW f, NEW g, ZeroBeyond(f, g, S, R)
  PROVE  Total(f) = Total(g)
<1>0. /\ R \subseteq S /\ f \in [S -> Nat] /\ g \in [R -> Nat]
      /\ (\A x \in R : f[x] = g[x]) /\ \A x \in S \ R : f[x] = 0
  BY DEF ZeroBeyond
<1> DEFINE Q == S \ R
           z == [x \in Q |-> 0]
<1>1. IsFiniteSet(R) /\ IsFiniteSet(Q) /\ R \cap Q = {} /\ R \cup Q = S
  BY <1>0, FS_Subset
<1>2. z \in [Q -> Nat] /\ \A x \in Q : f[x] = z[x]
  BY <1>0
<1>3. Total(z) = 0 * Cardinality(Q) /\ Cardinality(Q) \in Nat
  <2> HIDE DEF Q
  <2>1. Total([x \in Q |-> 0]) = Cardinality(Q) * 0 /\ Cardinality(Q) \in Nat
    BY <1>1, TotalConstant, FS_CardinalityType
  <2> QED
    BY <2>1
<1> HIDE DEF z, Q
<1>4. f \in [R \cup Q -> Nat]
  BY <1>0, <1>1
<1>5. Total(f) = Total(g) + Total(z)
  BY <1>0, <1>1, <1>2, <1>4, TotalSplit
<1>6. Total(g) \in Nat
  BY <1>0, <1>1, TotalNat
<1> QED
  BY <1>3, <1>5, <1>6

\* The less of two amounts.
LEMMA MinTwo == ASSUME NEW a \in Nat, NEW b \in Nat PROVE Min({a, b}) \in Nat /\ Min({a, b}) <= a /\ Min({a, b}) <= b
<1>1. Min({a, b}) = IF a <= b THEN a ELSE b
  BY MaxOfTwo
<1> QED
  BY <1>1

\* h is what F makes of a0, stage by stage.
AreStages(h, n, A, a0, F) == h \in [0 .. n -> A] /\ h[0] = a0 /\ \A i \in 1 .. n : h[i] = F[<<i, h[i - 1]>>]

\* There is such a function.
LEMMA StagesExist ==
  ASSUME NEW n \in Nat, NEW A, NEW a0 \in A, NEW F \in [(1 .. n) \X A -> A]
  PROVE  \E h : AreStages(h, n, A, a0, F)
<1> DEFINE B == (0 .. n) \X A
           b0 == <<0, a0>>
           G == [p \in B |-> IF p[1] < n THEN <<p[1] + 1, F[<<p[1] + 1, p[2]>>]>> ELSE p]
<1>1. b0 \in B
  OBVIOUS
<1>2. ASSUME NEW p \in B, p[1] < n PROVE <<p[1] + 1, F[<<p[1] + 1, p[2]>>]>> \in B
  <2>1. p[1] + 1 \in 1 .. n /\ p[2] \in A /\ p[1] + 1 \in 0 .. n
    BY <1>2
  <2>2. <<p[1] + 1, p[2]>> \in (1 .. n) \X A
    BY <2>1
  <2>3. F[<<p[1] + 1, p[2]>>] \in A
    BY <2>2
  <2> QED
    BY <2>1, <2>3
<1>3. G \in [B -> B]
  BY <1>2
<1>4. \A p \in B : p[1] < n => G[p] = <<p[1] + 1, F[<<p[1] + 1, p[2]>>]>>
  OBVIOUS
<1> HIDE DEF B, b0, G
<1>5. PICK w : IsWalk(w, n, B, b0, G)
  BY <1>1, <1>3, StepsExist
<1> DEFINE P == {i \in 0 .. n : w[i][1] = i}
<1>6. w \in [0 .. n -> B] /\ w[0] = b0 /\ \A i \in 1 .. n : w[i] = G[w[i - 1]]
  BY <1>5 DEF IsWalk
<1>7. 0 \in P
  BY <1>6 DEF b0
<1>8. ASSUME NEW i \in 1 .. n, i - 1 \in P
      PROVE  i \in P /\ w[i] = <<i, F[<<i, w[i - 1][2]>>]>>
  <2>1. w[i - 1] \in B /\ w[i - 1][1] = i - 1 /\ i - 1 < n /\ i \in 0 .. n
    BY <1>6, <1>8
  <2>2. w[i] = G[w[i - 1]]
    BY <1>6
  <2>3. w[i] = <<i - 1 + 1, F[<<i - 1 + 1, w[i - 1][2]>>]>>
    BY <1>4, <2>1, <2>2
  <2>4. i - 1 + 1 = i
    OBVIOUS
  <2>5. w[i] = <<i, F[<<i, w[i - 1][2]>>]>>
    BY <2>3, <2>4
  <2> QED
    BY <2>1, <2>5
<1> HIDE DEF P
<1>9. 0 .. n \subseteq P
  BY <1>7, <1>8, PrefixInduction
<1> DEFINE h == [i \in 0 .. n |-> w[i][2]]
<1>10. h \in [0 .. n -> A] /\ h[0] = a0
  BY <1>6 DEF B, b0
<1>11. ASSUME NEW i \in 1 .. n PROVE h[i] = F[<<i, h[i - 1]>>]
  <2>1. i \in 0 .. n /\ i - 1 \in 0 .. n
    OBVIOUS
  <2>2. w[i] = <<i, F[<<i, w[i - 1][2]>>]>>
    BY <1>8, <1>9, <2>1
  <2> QED
    BY <2>1, <2>2
<1> QED
  BY <1>10, <1>11 DEF AreStages

-----------------------------------------------------------------------------
(* AgentLife *)

\* A soul.
SoulRecords ==
  [status : {"alive", "quarantined", "dead"}, balance : Nat, debt : Nat, natural : Nat, extensions : Nat,
   parent : Nat, since : Int, reason : {"none", "natural", "insolvency"}]

\* Souls under their ids.
ArePeople(S) == DOMAIN S \subseteq AllSouls /\ S \in [DOMAIN S -> SoulRecords]

\* The places of a soul in the settlements.
PlacesOf(log, s) == {i \in DOMAIN log : log[i][1] = s}

\* The settlements on record are those of the dead, one each.
OnRecord(S, log) ==
  /\ \A i \in DOMAIN log : log[i][1] \in DOMAIN S
  /\ \A s \in DOMAIN S : Cardinality(PlacesOf(log, s)) = IF S[s].status = "dead" THEN 1 ELSE 0

\* The types of the souls, of the loan and of the wills.
LifeType ==
  /\ ArePeople(souls) /\ DOMAIN Souls \subseteq DOMAIN souls
  /\ loan \in [lender : Nat, borrower : Nat, principal : Nat, outstanding : Nat,
               status : {"none", "open", "accepted", "repaid"}]
  /\ loan.status # "none" => loan.borrower \in DOMAIN souls
  /\ \A s \in DOMAIN wills : wills[s].unborn \subseteq Unborn
  /\ settledSouls \in Seq(AllSouls \X Nat)
  /\ epoch \in Nat
  /\ books \in [given : Nat, spent : Nat, burned : Nat]
  /\ brokeRun \in [AllSouls -> [first : Nat, runs : Nat]]

\* A living soul is marked with the epoch of the first call that found it broke, or with none.
GraceInv ==
  \A s \in DOMAIN souls : souls[s].status # "dead" =>
    IF souls[s].since >= 0 THEN brokeRun[s].runs >= 1 /\ brokeRun[s].first = souls[s].since ELSE brokeRun[s].runs = 0

\* The inductive invariant of the souls.
LifeInv == LifeType /\ EstatesConserved /\ OnRecord(souls, settledSouls) /\ GraceInv

\* There are finitely many ids.
LEMMA IdsFinite == IsFiniteSet(AllSouls) /\ AllSouls \subseteq Nat
BY LifeAssumption, FS_Union DEF AllSouls

\* And so of every population.
LEMMA PeopleFinite == ASSUME NEW S, ArePeople(S) PROVE IsFiniteSet(DOMAIN S) /\ DOMAIN S \subseteq Nat
BY IdsFinite, FS_Subset DEF ArePeople

\* What souls own is a natural.
LEMMA WorthNat == ASSUME NEW S, ArePeople(S) PROVE Worth(S) \in Nat
<1> DEFINE f == [s \in DOMAIN S |-> S[s].balance]
           D == DOMAIN S
<1>1. f \in [D -> Nat] /\ IsFiniteSet(D)
  BY PeopleFinite DEF ArePeople, SoulRecords
<1> HIDE DEF f, D
<1>2. Total(f) \in Nat
  BY <1>1, TotalNat
<1> QED
  BY <1>2 DEF Worth, f, D

\* A soul's balance set to another amount.
LEMMA BalanceSet ==
  ASSUME NEW x \in SoulRecords, NEW b \in Nat
  PROVE  /\ [x EXCEPT !.balance = b] \in SoulRecords /\ [x EXCEPT !.balance = b].balance = b
         /\ [x EXCEPT !.balance = b].status = x.status /\ [x EXCEPT !.balance = b].since = x.since
         /\ [x EXCEPT !.balance = b].reason = x.reason /\ [x EXCEPT !.balance = b].natural = x.natural
BY DEF SoulRecords

\* One soul's balance changes by what the total does.
LEMMA WorthMoved ==
  ASSUME NEW S, ArePeople(S), NEW T, ArePeople(T), DOMAIN T = DOMAIN S, NEW s \in DOMAIN S,
         \A t \in DOMAIN S \ {s} : T[t].balance = S[t].balance
  PROVE  Worth(T) + S[s].balance = Worth(S) + T[s].balance
<1> DEFINE f == [t \in DOMAIN S |-> S[t].balance]
           g == [t \in DOMAIN T |-> T[t].balance]
           D == DOMAIN S
<1>1. f \in [D -> Nat] /\ g \in [D -> Nat] /\ IsFiniteSet(D) /\ s \in D /\ \A t \in D \ {s} : f[t] = g[t]
  BY PeopleFinite DEF ArePeople, SoulRecords
<1>2. f[s] = S[s].balance /\ g[s] = T[s].balance
  OBVIOUS
<1> HIDE DEF f, g, D
<1>3. Total(g) + f[s] = Total(f) + g[s]
  BY <1>1, TotalChange
<1> QED
  BY <1>2, <1>3 DEF Worth, f, g

\* Equal balances, equal worth.
LEMMA WorthSame ==
  ASSUME NEW S, NEW T, DOMAIN T = DOMAIN S, \A t \in DOMAIN S : T[t].balance = S[t].balance
  PROVE  Worth(T) = Worth(S)
<1>1. [t \in DOMAIN S |-> S[t].balance] = [t \in DOMAIN T |-> T[t].balance]
  OBVIOUS
<1> QED
  BY <1>1 DEF Worth

\* Death changes no balance.
LEMMA DeadIs ==
  ASSUME NEW S, ArePeople(S), NEW s \in DOMAIN S, NEW why \in {"natural", "insolvency"}
  PROVE  LET T == Dead(S, s, why)
         IN /\ ArePeople(T) /\ DOMAIN T = DOMAIN S /\ T[s].status = "dead" /\ T[s].reason = why
            /\ T[s].balance = S[s].balance /\ T[s].since = S[s].since /\ T[s].natural = S[s].natural
            /\ \A t \in DOMAIN S \ {s} : T[t] = S[t]
            /\ Worth(T) = Worth(S)
<1> DEFINE y == [S[s] EXCEPT !.status = "dead", !.reason = why]
           T == Dead(S, s, why)
<1>1. S[s] \in SoulRecords
  BY DEF ArePeople
<1>2. y \in SoulRecords /\ y.status = "dead" /\ y.reason = why /\ y.balance = S[s].balance /\ y.since = S[s].since /\ y.natural = S[s].natural
  <2> DEFINE z == [S[s] EXCEPT !.status = "dead"]
  <2>1. z \in SoulRecords /\ z.status = "dead" /\ z.balance = S[s].balance /\ z.since = S[s].since /\ z.natural = S[s].natural
    BY <1>1 DEF SoulRecords
  <2>2. y = [z EXCEPT !.reason = why]
    BY <1>1 DEF SoulRecords
  <2> HIDE DEF z, y
  <2> QED
    BY <2>1, <2>2 DEF SoulRecords
<1>3. T = [S EXCEPT ![s] = y]
  BY DEF Dead, ArePeople
<1> HIDE DEF y
<1>4. ArePeople(T) /\ DOMAIN T = DOMAIN S /\ T[s] = y /\ \A t \in DOMAIN S \ {s} : T[t] = S[t]
  BY <1>2, <1>3 DEF ArePeople
<1>5. Worth(T) = Worth(S)
  BY <1>2, <1>4, WorthSame
<1> QED
  BY <1>2, <1>4, <1>5

\* What a new soul is.
LEMMA NewSoulIs ==
  ASSUME NEW b \in Nat, NEW e \in Nat, NEW p \in Nat
  PROVE  /\ NewSoul(b, e, p) \in SoulRecords /\ NewSoul(b, e, p).balance = b
         /\ NewSoul(b, e, p).status = "alive" /\ NewSoul(b, e, p).since < 0
BY LifeAssumption DEF NewSoul, SoulRecords

\* The heirs a will asks for are born with their grant.
LEMMA SpawnedIs ==
  ASSUME NEW S, ArePeople(S), NEW s \in DOMAIN S, NEW e \in Nat, \A t \in DOMAIN wills : wills[t].unborn \subseteq Unborn
  PROVE  LET T == Spawned(S, s, e)
         IN /\ ArePeople(T) /\ DOMAIN S \subseteq DOMAIN T /\ \A t \in DOMAIN S : T[t] = S[t]
            /\ \A t \in DOMAIN T \ DOMAIN S : T[t].since < 0 /\ T[t].status = "alive"
            /\ Worth(T) = Worth(S) + ChildGrant * Cardinality(DOMAIN T \ DOMAIN S)
            /\ Cardinality(DOMAIN T \ DOMAIN S) \in Nat
<1> DEFINE born == IF s \in DOMAIN wills THEN wills[s].unborn \ DOMAIN S ELSE {}
           T == Spawned(S, s, e)
           x == NewSoul(ChildGrant, e, s)
<1>1. born \subseteq AllSouls /\ born \cap DOMAIN S = {}
  BY DEF AllSouls
<1>2. x \in SoulRecords /\ x.balance = ChildGrant /\ x.status = "alive" /\ x.since < 0
  BY NewSoulIs, PeopleFinite, LifeAssumption
<1>3. T = [t \in DOMAIN S \cup born |-> IF t \in born THEN x ELSE S[t]]
  BY DEF Spawned
<1> HIDE DEF born, x, T
<1>4. ArePeople(T) /\ DOMAIN T = DOMAIN S \cup born /\ (\A t \in DOMAIN S : T[t] = S[t]) /\ \A t \in born : T[t] = x
  BY <1>1, <1>2, <1>3 DEF ArePeople
<1>5. DOMAIN T \ DOMAIN S = born
  BY <1>1, <1>4
<1>6. Worth(T) = Worth(S) + ChildGrant * Cardinality(born) /\ Cardinality(born) \in Nat
  <2> DEFINE D == DOMAIN S
             f == [t \in DOMAIN T |-> T[t].balance]
             g == [t \in DOMAIN S |-> S[t].balance]
             h == [t \in born |-> ChildGrant]
  <2>1. IsFiniteSet(D) /\ IsFiniteSet(born) /\ D \cap born = {}
    BY <1>1, IdsFinite, FS_Subset, PeopleFinite
  <2>2. /\ f \in [D \cup born -> Nat] /\ g \in [D -> Nat] /\ h \in [born -> Nat]
        /\ (\A t \in D : f[t] = g[t]) /\ \A t \in born : f[t] = h[t]
    BY <1>2, <1>4, LifeAssumption DEF ArePeople, SoulRecords
  <2>3. Total(h) = Cardinality(born) * ChildGrant /\ Cardinality(born) \in Nat
    BY <2>1, TotalConstant, FS_CardinalityType, LifeAssumption
  <2> HIDE DEF f, g, h, D
  <2>4. Total(f) = Total(g) + Total(h)
    BY <2>1, <2>2, TotalSplit
  <2>5. Total(f) = Worth(T) /\ Total(g) = Worth(S)
    BY DEF f, g, Worth
  <2>6. Cardinality(born) * ChildGrant = ChildGrant * Cardinality(born)
    BY <2>3, LifeAssumption
  <2> QED
    BY <2>3, <2>4, <2>5, <2>6
<1> QED
  BY <1>2, <1>4, <1>5, <1>6 DEF T

\* Ids are in one order.
LEMMA IdsOrdered == ASSUME NEW S, S \subseteq Nat PROVE OrdersAll(IdOrder(S), S)
BY DEF OrdersAll, IdOrder

\* The first d heirs.
Firsts(H, d) == {h \in H : Place(IdOrder(H), H, h) < d}

\* As many heirs get one more as there is dust.
LEMMA FirstOnes ==
  ASSUME NEW H, IsFiniteSet(H), H \subseteq Nat, NEW d \in Nat, d <= Cardinality(H)
  PROVE  Cardinality(Firsts(H, d)) = d /\ IsFiniteSet(Firsts(H, d))
<1> DEFINE r == IdOrder(H)
           n == Cardinality(H)
           s == InPlaces(H, r)
           D == {h \in H : Place(r, H, h) < d}
           f == [i \in 1 .. d |-> s[i]]
<1>1. OrdersAll(r, H)
  BY IdsOrdered
<1> HIDE DEF r
<1>2. /\ \A h \in H : Place(r, H, h) \in 0 .. n - 1
      /\ \A h, k \in H : <<h, k>> \in r => Place(r, H, h) < Place(r, H, k)
  BY <1>1, PlacesAre
<1>3. n \in Nat /\ \A i \in 1 .. n : s[i] \in H /\ Place(r, H, s[i]) = i - 1
  BY <1>1, InPlacesIs
<1> HIDE DEF n, s
<1>4. ASSUME NEW h \in H, NEW k \in H, Place(r, H, h) = Place(r, H, k) PROVE h = k
  <2>1. Place(r, H, h) \in Int
    BY <1>2
  <2>2. ~(<<h, k>> \in r) /\ ~(<<k, h>> \in r)
    BY <1>2, <1>4, <2>1
  <2> QED
    BY <1>1, <2>2 DEF OrdersAll
<1>5. f \in Bijection(1 .. d, D)
  <2>1. ASSUME NEW i \in 1 .. d PROVE f[i] \in D /\ Place(r, H, f[i]) = i - 1
    BY <1>3 DEF n
  <2>2. ASSUME NEW h \in D PROVE \E i \in 1 .. d : f[i] = h
    <3> DEFINE p == Place(r, H, h)
               i == p + 1
    <3>1. h \in H /\ p \in 0 .. n - 1 /\ p < d
      BY <1>2
    <3> HIDE DEF p
    <3>2. i \in 1 .. d /\ i \in 1 .. n /\ i - 1 = p
      BY <1>3, <3>1
    <3> HIDE DEF i
    <3>3. Place(r, H, s[i]) = p /\ s[i] \in H
      BY <1>3, <3>2
    <3>4. s[i] = h
      BY <1>4, <3>1, <3>3 DEF p
    <3> QED
      BY <3>2, <3>4
  <2>3. ASSUME NEW i \in 1 .. d, NEW j \in 1 .. d, f[i] = f[j] PROVE i = j
    <3>1. i - 1 = j - 1
      BY <2>1, <2>3
    <3> QED
      BY <3>1
  <2> HIDE DEF f, D
  <2>4. f \in [1 .. d -> D]
    BY <2>1 DEF f
  <2>5. f \in Injection(1 .. d, D)
    BY <2>3, <2>4 DEF Injection, IsInjective
  <2>6. f \in Surjection(1 .. d, D)
    BY <2>2, <2>4 DEF Surjection
  <2> QED
    BY <2>5, <2>6 DEF Bijection
<1>6. IsFiniteSet(1 .. d) /\ Cardinality(1 .. d) = d
  BY FS_Interval
<1> HIDE DEF D, f
<1>7. IsFiniteSet(D) /\ Cardinality(D) = d
  BY <1>5, <1>6, FS_Bijection DEF ExistsBijection
<1> QED
  BY <1>7 DEF D, r, Firsts

\* The parts of an estate add up to it.
LEMMA LegaciesAdd ==
  ASSUME NEW H, IsFiniteSet(H), H \subseteq Nat, H # {}, NEW estate \in Nat
  PROVE  /\ [h \in H |-> Legacy(H, h, estate)] \in [H -> Nat]
         /\ Total([h \in H |-> Legacy(H, h, estate)]) = estate
<1> DEFINE n == Cardinality(H)
           q == estate \div n
           d == estate % n
           D == Firsts(H, d)
           f == [h \in H |-> Legacy(H, h, estate)]
           a == [h \in H |-> q]
           b == [h \in H |-> IF h \in D THEN 1 ELSE 0]
           c == [h \in D |-> 1]
<1>1. n \in Nat /\ n # 0
  BY FS_CardinalityType, FS_EmptySet
<1>2. f = [h \in H |-> q + IF Place(IdOrder(H), H, h) < d THEN 1 ELSE 0]
  BY DEF Legacy
<1> HIDE DEF n
<1>3. q \in Nat /\ d \in Nat /\ d < n /\ estate = n * q + d
  BY <1>1
<1> HIDE DEF q, d
<1>4. Cardinality(D) = d /\ IsFiniteSet(D)
  <2>1. d \in Nat /\ d <= Cardinality(H)
    BY <1>1, <1>3 DEF n
  <2> QED
    BY <2>1, FirstOnes
<1>5. \A h \in H : f[h] = q + IF h \in D THEN 1 ELSE 0
  BY <1>2 DEF Firsts
<1>6. D \subseteq H
  BY DEF Firsts
<1> HIDE DEF D
<1>7. /\ f \in [H -> Nat] /\ a \in [H -> Nat] /\ b \in [H -> Nat] /\ c \in [D -> Nat]
      /\ AddsUp(f, a, b, H) /\ ZeroBeyond(b, c, H, D)
  <2>1. \A h \in H : q + (IF h \in D THEN 1 ELSE 0) \in Nat
    BY <1>3
  <2>2. f \in [H -> Nat]
    BY <1>5, <2>1
  <2> HIDE DEF f
  <2> QED
    BY <1>3, <1>5, <1>6, <2>2 DEF AddsUp, ZeroBeyond
<1>8. Total(a) = n * q
  BY <1>3, TotalConstant DEF n
<1>9. Total(c) = d * 1
  <2>1. 1 \in Nat
    OBVIOUS
  <2>2. Total([h \in D |-> 1]) = Cardinality(D) * 1
    BY <1>4, <2>1, TotalConstant
  <2> QED
    BY <1>4, <2>2
<1> HIDE DEF a, b, c
<1>10. Total(b) = Total(c)
  <2>1. ZeroBeyond(b, c, H, D)
    BY <1>7
  <2> QED
    BY <2>1, TotalOn
<1>11. Total(f) = Total(a) + Total(b)
  <2> HIDE DEF f
  <2> QED
    BY <1>7, TotalPlus
<1>12. Total(f) = n * q + d
  BY <1>3, <1>8, <1>9, <1>10, <1>11
<1> QED
  BY <1>3, <1>7, <1>12

\* Kin are alive.
LEMMA KinAlive == ASSUME NEW S, NEW s, NEW k \in KinSet(S, s) PROVE k \in DOMAIN S /\ S[k].status # "dead"
BY DEF KinSet, Alive

\* An estate goes to the kin, whole, or to nobody.
LEMMA InheritedIs ==
  ASSUME NEW S, ArePeople(S), NEW s \in DOMAIN S, S[s].status = "dead"
  PROVE  LET T == Inherited(S, s)
         IN /\ ArePeople(T) /\ DOMAIN T = DOMAIN S
            /\ \A t \in DOMAIN S : /\ T[t].status = S[t].status /\ T[t].reason = S[t].reason
                                   /\ T[t].since = S[t].since /\ T[t].natural = S[t].natural
            /\ Worth(T) + (IF KinSet(S, s) = {} THEN S[s].balance ELSE 0) = Worth(S)
<1> DEFINE D == DOMAIN S
           H == KinSet(S, s)
           estate == S[s].balance
           T == Inherited(S, s)
           leg == [x \in D |-> IF x \in H THEN Legacy(H, x, estate) ELSE 0]
           f == [t \in D |-> S[t].balance]
           f0 == [t \in D |-> IF t = s THEN 0 ELSE S[t].balance]
           g == [t \in D |-> T[t].balance]
           hl == [h \in H |-> Legacy(H, h, estate)]
<1>1. H \subseteq D /\ s \notin H /\ IsFiniteSet(D) /\ D \subseteq Nat /\ IsFiniteSet(H)
  BY KinAlive, PeopleFinite, FS_Subset
<1>2. estate \in Nat /\ \A t \in D : S[t] \in SoulRecords /\ S[t].balance \in Nat
  BY DEF ArePeople, SoulRecords
<1>3. T = [x \in D |-> IF x = s THEN [S[x] EXCEPT !.balance = 0]
                       ELSE IF x \in H THEN [S[x] EXCEPT !.balance = S[x].balance + Legacy(H, x, estate)] ELSE S[x]]
  BY DEF Inherited
<1> HIDE DEF H, T, estate
<1>4. hl \in [H -> Nat] /\ (H # {} => Total(hl) = estate)
  <2>1. CASE H # {}
    BY <1>1, <1>2, <2>1, LegaciesAdd
  <2>2. CASE H = {}
    BY <2>2
  <2> QED
    BY <2>1, <2>2
<1>5. \A x \in H : Legacy(H, x, estate) \in Nat
  BY <1>4
<1>6. ASSUME NEW t \in D
      PROVE  /\ T[t] \in SoulRecords
             /\ T[t].balance = IF t = s THEN 0 ELSE IF t \in H THEN S[t].balance + Legacy(H, t, estate) ELSE S[t].balance
             /\ T[t].status = S[t].status /\ T[t].reason = S[t].reason
             /\ T[t].since = S[t].since /\ T[t].natural = S[t].natural
  <2>1. CASE t = s
    <3>1. T[t] = [S[t] EXCEPT !.balance = 0] /\ 0 \in Nat
      BY <1>3, <2>1
    <3> QED
      BY <1>2, <2>1, <3>1, BalanceSet
  <2>2. CASE t # s /\ t \in H
    <3> DEFINE m == S[t].balance + Legacy(H, t, estate)
    <3>1. m \in Nat
      BY <1>2, <1>5, <2>2
    <3>2. T[t] = [S[t] EXCEPT !.balance = m]
      BY <1>3, <2>2
    <3> HIDE DEF m
    <3>3. T[t] \in SoulRecords /\ T[t].balance = m /\ T[t].status = S[t].status /\ T[t].reason = S[t].reason /\ T[t].since = S[t].since /\ T[t].natural = S[t].natural
      BY <1>2, <3>1, <3>2, BalanceSet
    <3> QED
      BY <2>2, <3>3 DEF m
  <2>3. CASE t # s /\ t \notin H
    BY <1>2, <1>3, <2>3
  <2> QED
    BY <2>1, <2>2, <2>3
<1>7. ArePeople(T) /\ DOMAIN T = D
  BY <1>3, <1>6 DEF ArePeople
<1>8. Worth(S) = Total(f) /\ Worth(T) = Total(g)
  BY <1>7 DEF Worth
<1>9. /\ f \in [D -> Nat] /\ f0 \in [D -> Nat] /\ g \in [D -> Nat] /\ leg \in [D -> Nat]
      /\ (\A x \in D \ {s} : f[x] = f0[x]) /\ f0[s] = 0 /\ f[s] = estate
      /\ ZeroBeyond(leg, hl, D, H)
  <2>1. \A t \in D : T[t].balance \in Nat
    BY <1>6 DEF SoulRecords
  <2>2. leg \in [D -> Nat]
    BY <1>5
  <2>3. f[s] = estate
    BY DEF estate
  <2> QED
    BY <1>1, <1>2, <1>4, <2>1, <2>2, <2>3 DEF ZeroBeyond
<1>10. \A x \in D : g[x] = f0[x] + leg[x]
  <2> SUFFICES ASSUME NEW x \in D PROVE g[x] = f0[x] + leg[x]
    OBVIOUS
  <2>1. g[x] = T[x].balance
    OBVIOUS
  <2>2. CASE x = s
    BY <1>1, <1>6, <2>1, <2>2
  <2>3. CASE x # s /\ x \in H
    BY <1>6, <2>1, <2>3
  <2>4. CASE x # s /\ x \notin H
    BY <1>2, <1>6, <2>1, <2>4
  <2> QED
    BY <2>2, <2>3, <2>4
<1> HIDE DEF f, f0, g, leg, hl, D
<1>11. Total(g) = Total(f0) + Total(leg)
  <2>1. AddsUp(g, f0, leg, D)
    BY <1>9, <1>10 DEF AddsUp
  <2> QED
    BY <1>1, <2>1, TotalPlus
<1>12. Total(f0) + f[s] = Total(f) + f0[s]
  <2>1. s \in D /\ IsFiniteSet(D) /\ f \in [D -> Nat] /\ f0 \in [D -> Nat] /\ \A x \in D \ {s} : f[x] = f0[x]
    BY <1>1, <1>9 DEF D
  <2> QED
    BY <2>1, TotalChange
<1>13. Total(leg) = Total(hl) /\ Total(f0) \in Nat /\ Total(f) \in Nat /\ Total(hl) \in Nat
  <2>1. ZeroBeyond(leg, hl, D, H)
    BY <1>9
  <2>2. Total(leg) = Total(hl)
    BY <1>1, <2>1, TotalOn
  <2> QED
    BY <1>1, <1>4, <1>9, <2>2, TotalNat
<1>14. H = {} => Total(hl) = 0
  <2>1. ASSUME H = {} PROVE Total(hl) = 0
    <3>1. hl = [x \in {} |-> hl[x]]
      BY <1>4, <2>1
    <3> QED
      BY <3>1, TotalEmpty
  <2> QED
    BY <2>1
<1>15. Worth(T) + (IF H = {} THEN estate ELSE 0) = Worth(S)
  BY <1>2, <1>4, <1>8, <1>9, <1>11, <1>12, <1>13, <1>14
<1> QED
  BY <1>6, <1>7, <1>15 DEF T, H, estate, D

\* One settlement more is that of the soul that died.
LEMMA OneMoreSettled ==
  ASSUME NEW S, NEW log \in Seq(AllSouls \X Nat), OnRecord(S, log), NEW s \in DOMAIN S \cap AllSouls, S[s].status # "dead",
         NEW e \in Nat, NEW T, DOMAIN S \subseteq DOMAIN T, T[s].status = "dead",
         \A t \in DOMAIN S \ {s} : T[t].status = S[t].status,
         \A t \in DOMAIN T \ DOMAIN S : T[t].status = "alive"
  PROVE  Append(log, <<s, e>>) \in Seq(AllSouls \X Nat) /\ OnRecord(T, Append(log, <<s, e>>))
<1> DEFINE m == Append(log, <<s, e>>)
           n == Len(log)
<1>1. <<s, e>> \in AllSouls \X Nat /\ n \in Nat
  OBVIOUS
<1>2. m \in Seq(AllSouls \X Nat) /\ DOMAIN m = DOMAIN log \cup {n + 1} /\ n + 1 \notin DOMAIN log
      /\ m[n + 1] = <<s, e>> /\ \A i \in DOMAIN log : m[i] = log[i]
  <2>1. m \in Seq(AllSouls \X Nat) /\ Len(m) = n + 1 /\ (\A i \in 1 .. n : m[i] = log[i]) /\ m[n + 1] = <<s, e>>
    BY <1>1, AppendProperties
  <2>2. DOMAIN log = 1 .. n /\ DOMAIN m = 1 .. n + 1
    BY <2>1
  <2> HIDE DEF m, n
  <2> QED
    BY <1>1, <2>1, <2>2
<1> HIDE DEF m, n
<1>3. <<s, e>>[1] = s
  OBVIOUS
<1>4. \A i \in DOMAIN m : m[i][1] \in DOMAIN T
  BY <1>2, <1>3 DEF OnRecord
<1>5. ASSUME NEW t \in DOMAIN T PROVE Cardinality(PlacesOf(m, t)) = IF T[t].status = "dead" THEN 1 ELSE 0
  <2>1. CASE t = s
    <3>1. PlacesOf(log, s) = {}
      <4>1. IsFiniteSet(DOMAIN log)
        <5>1. DOMAIN log = 1 .. n
          BY DEF n
        <5>2. 1 \in Int /\ n \in Int
          BY <1>1
        <5>3. IsFiniteSet(1 .. n)
          BY <5>2, FS_Interval
        <5> QED
          BY <5>1, <5>3
      <4>2. IsFiniteSet(PlacesOf(log, s))
        BY <4>1, FS_Subset DEF PlacesOf
      <4> QED
        BY <4>2, FS_EmptySet DEF OnRecord
    <3>2. PlacesOf(m, t) = {n + 1}
      BY <1>2, <1>3, <2>1, <3>1 DEF PlacesOf
    <3> QED
      BY <2>1, <3>2, FS_Singleton
  <2>2. CASE t # s /\ t \in DOMAIN S
    <3>1. PlacesOf(m, t) = PlacesOf(log, t)
      BY <1>2, <1>3, <2>2 DEF PlacesOf
    <3> QED
      BY <2>2, <3>1 DEF OnRecord
  <2>3. CASE t # s /\ t \notin DOMAIN S
    <3>1. PlacesOf(m, t) = {}
      BY <1>2, <1>3, <2>3 DEF PlacesOf, OnRecord
    <3> QED
      BY <2>3, <3>1, FS_EmptySet
  <2> QED
    BY <2>1, <2>2, <2>3
<1> QED
  BY <1>2, <1>4, <1>5 DEF m, OnRecord

\* How far the reaper of epoch e is, having begun with the souls marked.
GoodReap(r, marked, e) ==
  /\ ArePeople(r.souls) /\ DOMAIN marked \subseteq DOMAIN r.souls
  /\ r.settled \in Seq(AllSouls \X Nat) /\ r.granted \in Nat /\ r.burned \in Nat
  /\ Worth(r.souls) + r.burned = Worth(marked) + r.granted
  /\ OnRecord(r.souls, r.settled)
  /\ \A s \in DOMAIN marked :
       /\ r.souls[s].since = marked[s].since /\ r.souls[s].natural = marked[s].natural
       /\ r.souls[s].status # "dead" => marked[s].status # "dead"
       /\ \/ r.souls[s].reason = marked[s].reason
          \/ marked[s].status # "dead" /\ r.souls[s].reason = Due(marked[s], e)
  /\ \A s \in DOMAIN r.souls \ DOMAIN marked : r.souls[s].since < 0

\* The reasons for a death.
LEMMA DueIs == ASSUME NEW x, NEW e PROVE Due(x, e) \in {"none", "natural", "insolvency"} /\ (Due(x, e) # "none" => x.status # "dead")
BY DEF Due

\* What is due depends on a soul's dates and on whether it lives.
LEMMA DueSame ==
  ASSUME NEW x, NEW y, NEW e, x.status # "dead", y.status # "dead", x.since = y.since, x.natural = y.natural
  PROVE  Due(x, e) = Due(y, e)
BY DEF Due

\* The reaper at one soul keeps the books.
LEMMA ReapOneIs ==
  ASSUME NEW marked, NEW e \in Nat, NEW r, GoodReap(r, marked, e), NEW s \in DOMAIN marked, ArePeople(marked),
         \A t \in DOMAIN wills : wills[t].unborn \subseteq Unborn
  PROVE  GoodReap(ReapOne(r, s, e), marked, e)
<1> DEFINE S == r.souls
           why == Due(S[s], e)
           A == Dead(S, s, why)
           B == Spawned(A, s, e)
           C == Inherited(B, s)
           q == ReapOne(r, s, e)
           kin == KinSet(B, s)
           gone == IF kin = {} THEN B[s].balance ELSE 0
           extra == ChildGrant * Cardinality(DOMAIN B \ DOMAIN S)
<1>1. CASE why = "none"
  <2>1. q = r
    BY <1>1 DEF ReapOne
  <2> HIDE DEF q
  <2> QED
    BY <2>1 DEF q
<1>2. CASE why # "none"
  <2>1. q = [souls |-> C, settled |-> Append(r.settled, <<s, e>>), granted |-> r.granted + extra, burned |-> r.burned + gone]
    BY <1>2 DEF ReapOne
  <2>2. why \in {"natural", "insolvency"} /\ S[s].status # "dead" /\ s \in DOMAIN S /\ ArePeople(S)
    BY <1>2, DueIs DEF GoodReap
  <2>3. why = Due(marked[s], e) /\ marked[s].status # "dead"
    BY <2>2, DueSame DEF GoodReap
  <2> HIDE DEF why
  <2>4. /\ ArePeople(A) /\ DOMAIN A = DOMAIN S /\ A[s].status = "dead" /\ A[s].reason = why
        /\ A[s].balance = S[s].balance /\ A[s].since = S[s].since /\ A[s].natural = S[s].natural
        /\ \A t \in DOMAIN S \ {s} : A[t] = S[t]
        /\ Worth(A) = Worth(S)
    <3> HIDE DEF S
    <3> QED
      BY <2>2, DeadIs
  <2> HIDE DEF A
  <2>5. /\ ArePeople(B) /\ DOMAIN A \subseteq DOMAIN B /\ \A t \in DOMAIN A : B[t] = A[t]
        /\ \A t \in DOMAIN B \ DOMAIN A : B[t].since < 0 /\ B[t].status = "alive"
        /\ Worth(B) = Worth(A) + ChildGrant * Cardinality(DOMAIN B \ DOMAIN A)
        /\ Cardinality(DOMAIN B \ DOMAIN A) \in Nat
    BY <2>2, <2>4, SpawnedIs
  <2> HIDE DEF B
  <2>6. B[s].status = "dead" /\ s \in DOMAIN B
    BY <2>2, <2>4, <2>5
  <2>7. /\ ArePeople(C) /\ DOMAIN C = DOMAIN B
        /\ \A t \in DOMAIN B : /\ C[t].status = B[t].status /\ C[t].reason = B[t].reason
                               /\ C[t].since = B[t].since /\ C[t].natural = B[t].natural
        /\ Worth(C) + gone = Worth(B)
    BY <2>5, <2>6, InheritedIs
  <2> HIDE DEF C
  <2>8. extra \in Nat /\ gone \in Nat /\ Worth(B) = Worth(S) + extra
    <3>1. DOMAIN A = DOMAIN S
      BY <2>4
    <3>2. Worth(B) = Worth(S) + extra
      BY <2>4, <2>5, <3>1
    <3>3. Cardinality(DOMAIN B \ DOMAIN S) \in Nat
      BY <2>5, <3>1
    <3>4. B[s].balance \in Nat
      BY <2>5, <2>6 DEF ArePeople, SoulRecords
    <3> QED
      BY <3>2, <3>3, <3>4, LifeAssumption
  <2> HIDE DEF extra, gone
  <2>9. q.souls = C /\ q.settled = Append(r.settled, <<s, e>>) /\ q.granted = r.granted + extra /\ q.burned = r.burned + gone
    BY <2>1
  <2>10. Append(r.settled, <<s, e>>) \in Seq(AllSouls \X Nat) /\ OnRecord(C, Append(r.settled, <<s, e>>))
    <3>1. DOMAIN S \subseteq DOMAIN C /\ C[s].status = "dead"
      BY <2>2, <2>4, <2>5, <2>6, <2>7
    <3>2. \A t \in DOMAIN S \ {s} : C[t].status = S[t].status
      BY <2>4, <2>5, <2>7
    <3>3. \A t \in DOMAIN C \ DOMAIN S : C[t].status = "alive"
      BY <2>4, <2>5, <2>7
    <3>4. r.settled \in Seq(AllSouls \X Nat) /\ OnRecord(S, r.settled) /\ s \in DOMAIN S \cap AllSouls
      BY <2>2 DEF GoodReap, ArePeople
    <3> HIDE DEF S
    <3> QED
      BY <2>2, <3>1, <3>2, <3>3, <3>4, OneMoreSettled
  <2>11. Worth(C) + (r.burned + gone) = Worth(marked) + (r.granted + extra)
    <3>1. Worth(C) \in Nat /\ Worth(marked) \in Nat /\ Worth(S) \in Nat
      BY <2>2, <2>7, WorthNat
    <3>2. r.burned \in Nat /\ r.granted \in Nat /\ Worth(S) + r.burned = Worth(marked) + r.granted
      BY DEF GoodReap
    <3> HIDE DEF S
    <3> QED
      BY <2>7, <2>8, <3>1, <3>2
  <2>12. ASSUME NEW t \in DOMAIN marked
         PROVE  /\ C[t].since = marked[t].since /\ C[t].natural = marked[t].natural
                /\ C[t].status # "dead" => marked[t].status # "dead"
                /\ \/ C[t].reason = marked[t].reason
                   \/ marked[t].status # "dead" /\ C[t].reason = Due(marked[t], e)
    <3>1. t \in DOMAIN S /\ t \in DOMAIN B /\ B[t] = A[t]
      BY <2>4, <2>5 DEF GoodReap
    <3>2. C[t].since = A[t].since /\ C[t].natural = A[t].natural /\ C[t].status = A[t].status /\ C[t].reason = A[t].reason
      BY <2>7, <3>1
    <3>3. CASE t = s
      BY <2>3, <2>4, <3>2, <3>3 DEF GoodReap
    <3>4. CASE t # s
      BY <2>4, <3>1, <3>2, <3>4 DEF GoodReap
    <3> QED
      BY <3>3, <3>4
  <2>13. ASSUME NEW t \in DOMAIN C \ DOMAIN marked PROVE C[t].since < 0
    <3>1. t \in DOMAIN B /\ C[t].since = B[t].since
      BY <2>7
    <3>2. CASE t \in DOMAIN S
      <4>1. t # s /\ B[t] = S[t]
        BY <2>4, <2>5, <3>2
      <4> QED
        BY <3>1, <3>2, <4>1 DEF GoodReap
    <3>3. CASE t \notin DOMAIN S
      BY <2>4, <2>5, <3>1, <3>3
    <3> QED
      BY <3>2, <3>3
  <2>14. DOMAIN marked \subseteq DOMAIN C /\ r.granted + extra \in Nat /\ r.burned + gone \in Nat
    BY <2>4, <2>5, <2>7, <2>8 DEF GoodReap
  <2> HIDE DEF q
  <2>15. GoodReap(q, marked, e)
    BY <2>7, <2>9, <2>10, <2>11, <2>12, <2>13, <2>14 DEF GoodReap
  <2> QED
    BY <2>15 DEF q
<1> QED
  BY <1>1, <1>2

\* The records of the reaper.
ReapRecords == [souls : UNION {[D -> SoulRecords] : D \in SUBSET AllSouls}, settled : Seq(AllSouls \X Nat), granted : Nat, burned : Nat]

\* Such a record is one of them.
LEMMA ReapTyped ==
  ASSUME NEW S, ArePeople(S), NEW log \in Seq(AllSouls \X Nat), NEW g \in Nat, NEW b \in Nat
  PROVE  [souls |-> S, settled |-> log, granted |-> g, burned |-> b] \in ReapRecords
<1>1. S \in UNION {[D -> SoulRecords] : D \in SUBSET AllSouls}
  <2>1. DOMAIN S \in SUBSET AllSouls /\ S \in [DOMAIN S -> SoulRecords]
    BY DEF ArePeople
  <2>2. [DOMAIN S -> SoulRecords] \in {[D -> SoulRecords] : D \in SUBSET AllSouls}
    BY <2>1
  <2> QED
    BY <2>1, <2>2
<1> QED
  BY <1>1 DEF ReapRecords

\* A step of the reaper is one of these records, or the one there was.
LEMMA ReapOneTyped ==
  ASSUME NEW r, NEW s, NEW e
  PROVE  ReapOne(r, s, e) = r \/ LET q == ReapOne(r, s, e)
                                 IN q = [souls |-> q.souls, settled |-> q.settled, granted |-> q.granted, burned |-> q.burned]
BY DEF ReapOne

\* What the reaper does to the marked souls.
Walks(h, marked, ids, e) ==
  h = [i \in 0 .. Len(ids) |->
         IF i = 0 THEN [souls |-> marked, settled |-> settledSouls, granted |-> 0, burned |-> 0]
         ELSE ReapOne(h[i - 1], ids[i], e)]

\* It is well done.
LEMMA ReapedIs ==
  ASSUME NEW marked, ArePeople(marked), NEW e \in Nat, settledSouls \in Seq(AllSouls \X Nat),
         OnRecord(marked, settledSouls), \A t \in DOMAIN wills : wills[t].unborn \subseteq Unborn
  PROVE  GoodReap(Reaped(marked, e), marked, e)
<1> DEFINE ids == InPlaces(DOMAIN marked, IdOrder(DOMAIN marked))
           n == Len(ids)
           a0 == [souls |-> marked, settled |-> settledSouls, granted |-> 0, burned |-> 0]
           A == {r \in ReapRecords : GoodReap(r, marked, e)}
           F == [p \in (1 .. n) \X A |-> ReapOne(p[2], ids[p[1]], e)]
<1>1. n \in Nat /\ \A i \in 1 .. n : ids[i] \in DOMAIN marked
  <2> DEFINE D == DOMAIN marked
  <2>1. IsFiniteSet(D) /\ D \subseteq Nat
    BY PeopleFinite
  <2> HIDE DEF D
  <2>2. OrdersAll(IdOrder(D), D)
    BY <2>1, IdsOrdered
  <2>3. Len(InPlaces(D, IdOrder(D))) = Cardinality(D) /\ Cardinality(D) \in Nat /\ \A i \in 1 .. Cardinality(D) : InPlaces(D, IdOrder(D))[i] \in D
    BY <2>1, <2>2, InPlacesIs
  <2> QED
    BY <2>3 DEF D
<1>2. a0 \in A
  <2>1. a0 \in ReapRecords
    BY ReapTyped
  <2>2. a0.souls = marked /\ a0.settled = settledSouls /\ a0.granted = 0 /\ a0.burned = 0
    OBVIOUS
  <2> HIDE DEF a0
  <2>3. GoodReap(a0, marked, e)
    <3>1. Worth(marked) \in Nat
      BY WorthNat
    <3> QED
      BY <2>2, <3>1 DEF GoodReap
  <2> QED
    BY <2>1, <2>3
<1> HIDE DEF ids, n
<1>3. ASSUME NEW i \in 1 .. n, NEW r \in A PROVE ReapOne(r, ids[i], e) \in A
  <2> DEFINE q == ReapOne(r, ids[i], e)
  <2>1. GoodReap(q, marked, e)
    BY <1>1, ReapOneIs
  <2>2. q \in ReapRecords
    <3>1. CASE q = r
      <4> HIDE DEF q
      <4> QED
        BY <3>1
    <3>2. CASE q # r
      <4>1. q = [souls |-> q.souls, settled |-> q.settled, granted |-> q.granted, burned |-> q.burned]
        BY <3>2, ReapOneTyped
      <4>2. ArePeople(q.souls) /\ q.settled \in Seq(AllSouls \X Nat) /\ q.granted \in Nat /\ q.burned \in Nat
        BY <2>1 DEF GoodReap
      <4> HIDE DEF q
      <4>3. [souls |-> q.souls, settled |-> q.settled, granted |-> q.granted, burned |-> q.burned] \in ReapRecords
        BY <4>2, ReapTyped
      <4> QED
        BY <4>1, <4>3
    <3> QED
      BY <3>1, <3>2
  <2> HIDE DEF q
  <2>3. q \in A
    BY <2>1, <2>2
  <2> QED
    BY <2>3 DEF q
<1>4. F \in [(1 .. n) \X A -> A] /\ \A i \in 1 .. n, r \in A : F[<<i, r>>] = ReapOne(r, ids[i], e)
  <2> HIDE DEF A
  <2> QED
    BY <1>3
<1> HIDE DEF F, A, a0
<1>5. PICK h : h \in [0 .. n -> A] /\ h[0] = a0 /\ \A i \in 1 .. n : h[i] = F[<<i, h[i - 1]>>]
  <2>1. \E h : AreStages(h, n, A, a0, F)
    BY <1>1, <1>2, <1>4, StagesExist
  <2> QED
    BY <2>1 DEF AreStages
<1>6. Walks(h, marked, ids, e)
  <2>1. ASSUME NEW i \in 0 .. n PROVE h[i] = IF i = 0 THEN a0 ELSE ReapOne(h[i - 1], ids[i], e)
    <3>1. CASE i = 0
      BY <1>5, <3>1
    <3>2. CASE i # 0
      <4>1. i \in 1 .. n /\ i - 1 \in 0 .. n
        BY <1>1, <3>2
      <4>2. h[i - 1] \in A /\ h[i] = F[<<i, h[i - 1]>>]
        BY <1>5, <4>1
      <4> QED
        BY <1>4, <3>2, <4>1, <4>2
    <3> QED
      BY <3>1, <3>2
  <2> QED
    BY <1>5, <2>1 DEF Walks, n, a0
<1>7. PICK w : Walks(w, marked, ids, e) /\ Reaped(marked, e) = w[n]
  <2>1. \E w : Walks(w, marked, ids, e)
    BY <1>6
  <2> QED
    BY <2>1 DEF Walks, Reaped, ids, n
<1>8. w[n] \in A
  <2> DEFINE P == {i \in 0 .. n : w[i] \in A}
  <2>1. 0 \in P
    BY <1>1, <1>2, <1>7 DEF Walks, n, a0
  <2>2. ASSUME NEW i \in 1 .. n, i - 1 \in P PROVE i \in P
    <3>1. i \in 0 .. n /\ i # 0 /\ w[i - 1] \in A
      BY <1>1, <2>2
    <3>2. w[i] = ReapOne(w[i - 1], ids[i], e)
      BY <1>7, <3>1 DEF Walks, n
    <3>3. ReapOne(w[i - 1], ids[i], e) \in A
      BY <1>3, <3>1
    <3> QED
      BY <3>1, <3>2, <3>3
  <2> HIDE DEF P
  <2>3. 0 .. n \subseteq P
    BY <1>1, <2>1, <2>2, PrefixInduction
  <2> QED
    BY <1>1, <2>3 DEF P
<1> QED
  BY <1>7, <1>8 DEF A

\* Rent takes no more than there is.
LEMMA ChargedIs ==
  ASSUME NEW S, ArePeople(S)
  PROVE  LET T == Charged(S)
         IN /\ ArePeople(T) /\ DOMAIN T = DOMAIN S
            /\ \A s \in DOMAIN S : /\ T[s].status = S[s].status /\ T[s].reason = S[s].reason
                                   /\ T[s].since = S[s].since /\ T[s].balance <= S[s].balance
<1> DEFINE T == Charged(S)
<1>1. ASSUME NEW s \in DOMAIN S
      PROVE  /\ T[s] \in SoulRecords /\ T[s].status = S[s].status /\ T[s].reason = S[s].reason
             /\ T[s].since = S[s].since /\ T[s].balance <= S[s].balance
  <2> DEFINE x == S[s]
             b == Minus(x.balance, Rent)
             d == x.debt + Minus(Rent, x.balance)
  <2>1. x \in SoulRecords /\ x.balance \in Nat /\ x.debt \in Nat
    BY DEF ArePeople, SoulRecords
  <2>2. b \in Nat /\ b <= x.balance /\ d \in Nat
    <3> DEFINE y == x.balance
               z == x.debt
    <3>1. y \in Nat /\ z \in Nat /\ Rent \in Nat
      BY <2>1, LifeAssumption
    <3> HIDE DEF y, z
    <3>2. Minus(y, Rent) \in Nat /\ Minus(y, Rent) <= y /\ z + Minus(Rent, y) \in Nat
      BY <3>1 DEF Minus
    <3> QED
      BY <3>2 DEF y, z
  <2>3. T[s] = IF x.status = "dead" THEN x ELSE [x EXCEPT !.balance = b, !.debt = d]
    BY DEF Charged
  <2> HIDE DEF x, b, d, T
  <2>4. CASE x.status = "dead"
    BY <2>1, <2>3, <2>4 DEF x
  <2>5. CASE x.status # "dead"
    <3> DEFINE v == [x EXCEPT !.balance = b]
    <3>1. v \in SoulRecords /\ v.balance = b /\ v.status = x.status /\ v.since = x.since /\ v.reason = x.reason
      BY <2>1, <2>2, BalanceSet
    <3>2. T[s] = [v EXCEPT !.debt = d]
      BY <2>1, <2>3, <2>5 DEF SoulRecords
    <3> HIDE DEF v
    <3>3. T[s] \in SoulRecords /\ T[s].balance = b /\ T[s].status = x.status /\ T[s].since = x.since /\ T[s].reason = x.reason
      BY <2>2, <3>1, <3>2 DEF SoulRecords
    <3> QED
      BY <2>2, <3>3 DEF x
  <2> QED
    BY <2>4, <2>5
<1>2. DOMAIN T = DOMAIN S
  BY DEF Charged
<1>3. T = [s \in DOMAIN T |-> T[s]]
  BY DEF Charged
<1> HIDE DEF T
<1>4. ArePeople(T)
  BY <1>1, <1>2, <1>3 DEF ArePeople
<1> QED
  BY <1>1, <1>2, <1>4 DEF T

\* Interest adds to a debt.
LEMMA InterestIs ==
  ASSUME NEW S, ArePeople(S)
  PROVE  LET T == WithInterest(S)
         IN /\ ArePeople(T) /\ DOMAIN T = DOMAIN S
            /\ \A s \in DOMAIN S : /\ T[s].status = S[s].status /\ T[s].reason = S[s].reason
                                   /\ T[s].since = S[s].since /\ T[s].balance = S[s].balance
<1> DEFINE T == WithInterest(S)
<1>0. Interest \in Nat
  BY DEF Interest
<1>1. ASSUME NEW s \in DOMAIN S
      PROVE  /\ T[s] \in SoulRecords /\ T[s].status = S[s].status /\ T[s].reason = S[s].reason
             /\ T[s].since = S[s].since /\ T[s].balance = S[s].balance
  <2> DEFINE d == S[s].debt + Interest
  <2>1. S[s] \in SoulRecords /\ S[s].debt \in Nat
    BY DEF ArePeople, SoulRecords
  <2>2. d \in Nat
    BY <1>0, <2>1
  <2>3. T[s] = S[s] \/ T[s] = [S[s] EXCEPT !.debt = d]
    BY DEF WithInterest
  <2> HIDE DEF d, T
  <2> QED
    BY <2>1, <2>2, <2>3 DEF SoulRecords
<1>2. DOMAIN T = DOMAIN S
  BY DEF WithInterest
<1>3. T = [s \in DOMAIN T |-> T[s]]
  BY DEF WithInterest
<1> HIDE DEF T
<1>4. ArePeople(T)
  BY <1>1, <1>2, <1>3 DEF ArePeople
<1> QED
  BY <1>1, <1>2, <1>4 DEF T

\* A soul is marked as long as it is broke.
LEMMA MarkedIs ==
  ASSUME NEW S, ArePeople(S), NEW e \in Nat
  PROVE  LET T == Marked(S, e)
         IN /\ ArePeople(T) /\ DOMAIN T = DOMAIN S
            /\ \A s \in DOMAIN S :
                 /\ T[s].reason = S[s].reason /\ T[s].balance = S[s].balance
                 /\ (T[s].status = "dead") = (S[s].status = "dead")
                 /\ T[s].status # "dead" /\ T[s].since >= 0 =>
                      Broke(T[s]) /\ T[s].since = IF S[s].since < 0 THEN e ELSE S[s].since
                 /\ T[s].status # "dead" /\ T[s].since < 0 => ~Broke(T[s])
<1> DEFINE T == Marked(S, e)
<1>1. ASSUME NEW s \in DOMAIN S
      PROVE  /\ T[s] \in SoulRecords /\ T[s].reason = S[s].reason /\ T[s].balance = S[s].balance
             /\ (T[s].status = "dead") = (S[s].status = "dead")
             /\ T[s].status # "dead" /\ T[s].since >= 0 =>
                  Broke(T[s]) /\ T[s].since = IF S[s].since < 0 THEN e ELSE S[s].since
             /\ T[s].status # "dead" /\ T[s].since < 0 => ~Broke(T[s])
  <2> DEFINE x == S[s]
             k == IF x.since < 0 THEN e ELSE x.since
  <2>1. x \in SoulRecords /\ x.since \in Int /\ k \in Int
    BY DEF ArePeople, SoulRecords
  <2>2. T[s] = IF x.status = "dead" THEN x
               ELSE IF Broke(x) THEN [x EXCEPT !.since = k, !.status = "quarantined"]
               ELSE [x EXCEPT !.since = 0 - 1, !.status = "alive"]
    BY DEF Marked
  <2>3. CASE x.status = "dead"
    <3> HIDE DEF x, T
    <3>1. T[s] = x
      BY <2>2, <2>3
    <3> QED
      BY <2>1, <2>3, <3>1 DEF x
  <2>4. CASE x.status # "dead" /\ Broke(x)
    <3> DEFINE v == [x EXCEPT !.since = k]
    <3> HIDE DEF x, k, T
    <3>1. v \in SoulRecords /\ v.since = k /\ v.balance = x.balance /\ v.debt = x.debt /\ v.reason = x.reason
      BY <2>1 DEF SoulRecords
    <3>2. T[s] = [v EXCEPT !.status = "quarantined"]
      BY <2>1, <2>2, <2>4 DEF SoulRecords
    <3> HIDE DEF v
    <3>3. /\ T[s] \in SoulRecords /\ T[s].since = k /\ T[s].balance = x.balance /\ T[s].debt = x.debt /\ T[s].reason = x.reason
          /\ T[s].status = "quarantined"
      BY <3>1, <3>2 DEF SoulRecords
    <3>4. Broke(T[s])
      BY <2>4, <3>3 DEF Broke
    <3> QED
      BY <2>4, <3>3, <3>4 DEF x, k
  <2>5. CASE x.status # "dead" /\ ~Broke(x)
    <3> DEFINE v == [x EXCEPT !.since = 0 - 1]
    <3> HIDE DEF x, k, T
    <3>1. v \in SoulRecords /\ v.since = 0 - 1 /\ v.balance = x.balance /\ v.debt = x.debt /\ v.reason = x.reason
      BY <2>1 DEF SoulRecords
    <3>2. T[s] = [v EXCEPT !.status = "alive"]
      BY <2>1, <2>2, <2>5 DEF SoulRecords
    <3> HIDE DEF v
    <3>3. /\ T[s] \in SoulRecords /\ T[s].since = 0 - 1 /\ T[s].balance = x.balance /\ T[s].debt = x.debt
          /\ T[s].reason = x.reason /\ T[s].status = "alive"
      BY <3>1, <3>2 DEF SoulRecords
    <3>4. ~Broke(T[s])
      BY <2>5, <3>3 DEF Broke
    <3> QED
      BY <2>5, <3>3, <3>4 DEF x
  <2> QED
    BY <2>3, <2>4, <2>5
<1>2. DOMAIN T = DOMAIN S
  BY DEF Marked
<1>3. T = [s \in DOMAIN T |-> T[s]]
  BY DEF Marked
<1> HIDE DEF T
<1>4. ArePeople(T)
  BY <1>1, <1>2, <1>3 DEF ArePeople
<1> QED
  BY <1>1, <1>2, <1>4 DEF T

\* Who owns no more is worth no more.
LEMMA WorthLess ==
  ASSUME NEW S, ArePeople(S), NEW T, ArePeople(T), DOMAIN T = DOMAIN S, \A s \in DOMAIN S : T[s].balance <= S[s].balance
  PROVE  Worth(T) <= Worth(S)
<1> DEFINE D == DOMAIN S
           f == [s \in DOMAIN T |-> T[s].balance]
           g == [s \in DOMAIN S |-> S[s].balance]
<1>1. IsFiniteSet(D) /\ f \in [D -> Nat] /\ g \in [D -> Nat] /\ D \subseteq D /\ \A s \in D : f[s] <= g[s]
  BY PeopleFinite DEF ArePeople, SoulRecords
<1> HIDE DEF D, f, g
<1>2. Total(f) <= Total(g)
  BY <1>1, TotalLess
<1> QED
  BY <1>2 DEF Worth, f, g

\* A step that ends a life for insolvency has granted the grace.
GraceKept ==
  \A s \in DOMAIN souls :
    souls[s].reason = "none" /\ souls'[s].reason = "insolvency" =>
      /\ brokeRun'[s].runs >= 1
      /\ Grace > 0 => brokeRun'[s].runs >= 2 /\ epoch' >= brokeRun'[s].first + Grace

\* The record of one soul changes, and neither its status nor its dates of insolvency.
LEMMA SoulChanged ==
  ASSUME LifeInv, NEW s \in DOMAIN souls, NEW x \in SoulRecords, souls' = [souls EXCEPT ![s] = x],
         x.status = souls[s].status, x.since = souls[s].since, x.reason = souls[s].reason,
         UNCHANGED <<settledSouls, epoch, brokeRun>>
  PROVE  /\ ArePeople(souls') /\ DOMAIN souls' = DOMAIN souls /\ OnRecord(souls', settledSouls') /\ GraceInv' /\ GraceKept
         /\ Worth(souls') + souls[s].balance = Worth(souls) + x.balance
         /\ Worth(souls') \in Nat /\ Worth(souls) \in Nat /\ souls[s].balance \in Nat
<1>1. ArePeople(souls)
  BY DEF LifeInv, LifeType
<1>2. /\ ArePeople(souls') /\ DOMAIN souls' = DOMAIN souls /\ souls'[s] = x
      /\ \A t \in DOMAIN souls \ {s} : souls'[t] = souls[t]
  BY <1>1 DEF ArePeople
<1>3. \A t \in DOMAIN souls : /\ souls'[t].status = souls[t].status /\ souls'[t].since = souls[t].since
                              /\ souls'[t].reason = souls[t].reason
  BY <1>2
<1>4. OnRecord(souls', settledSouls')
  BY <1>2, <1>3 DEF LifeInv, OnRecord
<1>5. GraceInv'
  BY <1>2, <1>3 DEF LifeInv, GraceInv
<1>6. GraceKept
  BY <1>3 DEF GraceKept
<1>7. Worth(souls') + souls[s].balance = Worth(souls) + souls'[s].balance
  <2> DEFINE T == [souls EXCEPT ![s] = x]
  <2>1. \A t \in DOMAIN souls \ {s} : T[t].balance = souls[t].balance
    BY <1>2
  <2>2. ArePeople(T) /\ DOMAIN T = DOMAIN souls
    BY <1>2
  <2> HIDE DEF T
  <2>3. Worth(T) + souls[s].balance = Worth(souls) + T[s].balance
    BY <1>1, <2>1, <2>2, WorthMoved
  <2>4. T = souls'
    BY DEF T
  <2> QED
    BY <2>3, <2>4
<1>8. Worth(souls') \in Nat /\ Worth(souls) \in Nat
  BY <1>1, <1>2, WorthNat
<1>9. souls[s].balance \in Nat
  BY <1>1 DEF ArePeople, SoulRecords
<1> QED
  BY <1>2, <1>4, <1>5, <1>6, <1>7, <1>8, <1>9

\* The books after a step.
LEMMA BooksAfter ==
  ASSUME Worth(souls') + books'.spent + books'.burned = books'.given
  PROVE  EstatesConserved'
BY DEF EstatesConserved, Worth

\* Money given.
LEMMA BooksGiven ==
  ASSUME LifeInv, NEW g \in Nat, books' = [books EXCEPT !.given = @ + g], Worth(souls') \in Nat, Worth(souls) \in Nat,
         Worth(souls') = Worth(souls) + g
  PROVE  books' \in [given : Nat, spent : Nat, burned : Nat] /\ EstatesConserved'
<1>1. books \in [given : Nat, spent : Nat, burned : Nat] /\ Worth(souls) + books.spent + books.burned = books.given
  BY DEF LifeInv, LifeType, EstatesConserved
<1>2. books' \in [given : Nat, spent : Nat, burned : Nat]
  BY <1>1
<1>3. books'.given = books.given + g /\ books'.spent = books.spent /\ books'.burned = books.burned
  BY <1>1
<1>4. books.given \in Nat /\ books.spent \in Nat /\ books.burned \in Nat
  BY <1>1
<1>5. Worth(souls') + books'.spent + books'.burned = books'.given
  BY <1>1, <1>3, <1>4
<1> QED
  BY <1>2, <1>5, BooksAfter

\* Money spent.
LEMMA BooksSpent ==
  ASSUME LifeInv, NEW g \in Nat, books' = [books EXCEPT !.spent = @ + g], Worth(souls') \in Nat, Worth(souls) \in Nat,
         Worth(souls') + g = Worth(souls)
  PROVE  books' \in [given : Nat, spent : Nat, burned : Nat] /\ EstatesConserved'
<1>1. books \in [given : Nat, spent : Nat, burned : Nat] /\ Worth(souls) + books.spent + books.burned = books.given
  BY DEF LifeInv, LifeType, EstatesConserved
<1>2. books' \in [given : Nat, spent : Nat, burned : Nat]
  BY <1>1
<1>3. books'.given = books.given /\ books'.spent = books.spent + g /\ books'.burned = books.burned
  BY <1>1
<1>4. books.given \in Nat /\ books.spent \in Nat /\ books.burned \in Nat
  BY <1>1
<1>5. Worth(souls') + books'.spent + books'.burned = books'.given
  BY <1>1, <1>3, <1>4
<1> QED
  BY <1>2, <1>5, BooksAfter

\* The souls are as they were.
LEMMA SoulsSame ==
  ASSUME LifeInv, UNCHANGED <<souls, settledSouls, epoch, books, brokeRun>>
  PROVE  /\ ArePeople(souls') /\ DOMAIN souls' = DOMAIN souls /\ OnRecord(souls', settledSouls') /\ GraceInv' /\ GraceKept
         /\ EstatesConserved'
<1>1. GraceInv' /\ EstatesConserved'
  BY DEF LifeInv, GraceInv, EstatesConserved
<1>2. GraceKept
  BY DEF GraceKept
<1> QED
  BY <1>1, <1>2 DEF LifeInv, LifeType

\* At first nobody is dead.
LEMMA LifeStart == ASSUME LifeInit PROVE LifeInv
<1>1. ASSUME NEW s \in DOMAIN Souls
      PROVE  /\ souls[s] \in SoulRecords /\ souls[s].balance = Souls[s].balance
             /\ souls[s].status = "alive" /\ souls[s].since < 0
  <2>1. Souls[s].balance \in Nat /\ Souls[s].parent \in Nat /\ 0 \in Nat
    BY LifeAssumption
  <2>2. souls[s] = NewSoul(Souls[s].balance, 0, Souls[s].parent)
    BY DEF LifeInit
  <2> QED
    BY <2>1, <2>2, NewSoulIs
<1>2. souls = [s \in DOMAIN Souls |-> souls[s]] /\ DOMAIN souls = DOMAIN Souls
  BY DEF LifeInit
<1>3. ArePeople(souls)
  BY <1>1, <1>2 DEF ArePeople, AllSouls
<1>4. Worth(souls) = Worth(Souls) /\ Worth(souls) \in Nat
  BY <1>1, <1>2, <1>3, WorthSame, WorthNat
<1>5. OnRecord(souls, settledSouls)
  <2>1. settledSouls = <<>> /\ DOMAIN settledSouls = {}
    BY DEF LifeInit
  <2>2. \A s : PlacesOf(settledSouls, s) = {}
    BY <2>1 DEF PlacesOf
  <2> QED
    BY <1>1, <1>2, <2>1, <2>2, FS_EmptySet DEF OnRecord
<1>6. GraceInv
  <2>1. ASSUME NEW s \in DOMAIN souls PROVE souls[s].since < 0 /\ souls[s].since \in Int /\ brokeRun[s].runs = 0
    BY <1>1, <1>2, <1>3 DEF SoulRecords, ArePeople, AllSouls, LifeInit, NoRun
  <2> QED
    BY <2>1 DEF GraceInv
<1>7. EstatesConserved
  BY <1>4 DEF EstatesConserved, LifeInit
<1>8. LifeType
  BY <1>2, <1>3, <1>4 DEF LifeType, LifeInit, NoLoan, Empty, NoRun
<1> QED
  BY <1>5, <1>6, <1>7, <1>8 DEF LifeInv

\* A line of credit.
LEMMA OpenCreditLineKeeps ==
  ASSUME LifeInv, NEW a \in DOMAIN Souls, NEW b \in DOMAIN Souls, OpenCreditLine(a, b, DebtCeiling)
  PROVE  LifeInv' /\ GraceKept
<1>1. /\ ArePeople(souls') /\ DOMAIN souls' = DOMAIN souls /\ OnRecord(souls', settledSouls') /\ GraceInv' /\ GraceKept
      /\ EstatesConserved'
  BY SoulsSame DEF OpenCreditLine
<1>2. a \in Nat /\ b \in Nat /\ b \in DOMAIN souls /\ DebtCeiling \in Nat
  BY LifeAssumption DEF OpenCreditLine
<1>3. /\ loan' \in [lender : Nat, borrower : Nat, principal : Nat, outstanding : Nat,
                    status : {"none", "open", "accepted", "repaid"}]
      /\ loan'.borrower = b
  BY <1>2 DEF OpenCreditLine
<1>4. LifeType'
  BY <1>1, <1>2, <1>3 DEF LifeInv, LifeType, OpenCreditLine
<1> QED
  BY <1>1, <1>4 DEF LifeInv

\* A loan that is accepted is money given.
LEMMA AcceptCreditLineKeeps == ASSUME LifeInv, AcceptCreditLine PROVE LifeInv' /\ GraceKept
<1> DEFINE s == loan.borrower
           b == souls[s].balance + loan.principal
           x == [souls[s] EXCEPT !.balance = b]
<1>1. s \in DOMAIN souls /\ loan.principal \in Nat /\ souls[s] \in SoulRecords /\ souls[s].balance \in Nat
  BY DEF LifeInv, LifeType, ArePeople, SoulRecords, AcceptCreditLine
<1>2. b \in Nat
  BY <1>1
<1>3. souls' = [souls EXCEPT ![s] = x]
  BY <1>1 DEF AcceptCreditLine, SoulRecords
<1> HIDE DEF b
<1>4. /\ x \in SoulRecords /\ x.balance = b /\ x.status = souls[s].status /\ x.since = souls[s].since
      /\ x.reason = souls[s].reason
  BY <1>1, <1>2, BalanceSet
<1> HIDE DEF x
<1>5. /\ ArePeople(souls') /\ DOMAIN souls' = DOMAIN souls /\ OnRecord(souls', settledSouls') /\ GraceInv' /\ GraceKept
      /\ Worth(souls') + souls[s].balance = Worth(souls) + x.balance
      /\ Worth(souls') \in Nat /\ Worth(souls) \in Nat
  BY <1>1, <1>3, <1>4, SoulChanged DEF AcceptCreditLine
<1>6. books' \in [given : Nat, spent : Nat, burned : Nat] /\ EstatesConserved'
  <2>1. Worth(souls') = Worth(souls) + loan.principal
    BY <1>1, <1>4, <1>5 DEF b
  <2>2. books' = [books EXCEPT !.given = @ + loan.principal]
    BY DEF AcceptCreditLine
  <2> QED
    BY <1>1, <1>5, <2>1, <2>2, BooksGiven
<1>7. /\ loan' \in [lender : Nat, borrower : Nat, principal : Nat, outstanding : Nat,
                    status : {"none", "open", "accepted", "repaid"}]
      /\ loan'.borrower = s
  BY DEF LifeInv, LifeType, AcceptCreditLine
<1>8. LifeType'
  BY <1>1, <1>5, <1>6, <1>7 DEF LifeInv, LifeType, AcceptCreditLine
<1> QED
  BY <1>5, <1>6, <1>8 DEF LifeInv

\* What is repaid is spent.
LEMMA RepayCreditLineKeeps == ASSUME LifeInv, NEW amount \in 1 .. 2, RepayCreditLine(amount) PROVE LifeInv' /\ GraceKept
<1> DEFINE s == loan.borrower
           pay == Min({amount, loan.outstanding})
           b == souls[s].balance - pay
           y == [souls[s] EXCEPT !.balance = b]
           d == Minus(souls[s].debt, pay)
           x == [y EXCEPT !.debt = d]
<1>1. /\ s \in DOMAIN souls /\ loan.outstanding \in Nat /\ souls[s] \in SoulRecords /\ souls[s].balance \in Nat
      /\ souls[s].debt \in Nat
  BY DEF LifeInv, LifeType, ArePeople, SoulRecords, RepayCreditLine
<1>2. pay \in Nat /\ pay <= loan.outstanding
  <2>1. amount \in Nat
    OBVIOUS
  <2> QED
    BY <1>1, <2>1, MinTwo
<1>3. souls[s].balance >= pay
  BY DEF RepayCreditLine
<1>4. souls' = [souls EXCEPT ![s] = x]
  <2>1. souls' = [souls EXCEPT ![s].balance = b, ![s].debt = d]
    BY DEF RepayCreditLine
  <2> HIDE DEF b, d
  <2> QED
    BY <1>1, <2>1 DEF SoulRecords, LifeInv, LifeType, ArePeople
<1> HIDE DEF pay
<1>5. b \in Nat /\ d \in Nat
  BY <1>1, <1>2, <1>3 DEF Minus
<1> HIDE DEF b, d
<1>6. /\ y \in SoulRecords /\ y.balance = b /\ y.status = souls[s].status /\ y.since = souls[s].since
      /\ y.reason = souls[s].reason
  BY <1>1, <1>5, BalanceSet
<1> HIDE DEF y
<1>7. /\ x \in SoulRecords /\ x.balance = b /\ x.status = souls[s].status /\ x.since = souls[s].since
      /\ x.reason = souls[s].reason
  BY <1>5, <1>6 DEF SoulRecords
<1> HIDE DEF x
<1>8. /\ ArePeople(souls') /\ DOMAIN souls' = DOMAIN souls /\ OnRecord(souls', settledSouls') /\ GraceInv' /\ GraceKept
      /\ Worth(souls') + souls[s].balance = Worth(souls) + x.balance
      /\ Worth(souls') \in Nat /\ Worth(souls) \in Nat
  BY <1>1, <1>4, <1>7, SoulChanged DEF RepayCreditLine
<1>9. books' = [books EXCEPT !.spent = @ + pay]
  BY DEF RepayCreditLine, pay
<1>10. books' \in [given : Nat, spent : Nat, burned : Nat] /\ EstatesConserved'
  <2>1. Worth(souls') + pay = Worth(souls)
    BY <1>1, <1>2, <1>3, <1>7, <1>8 DEF b
  <2> QED
    BY <1>2, <1>8, <1>9, <2>1, BooksSpent
<1>11. /\ loan' \in [lender : Nat, borrower : Nat, principal : Nat, outstanding : Nat,
                    status : {"none", "open", "accepted", "repaid"}]
      /\ loan'.borrower = s
  <2> DEFINE o == loan.outstanding - pay
             st == IF loan.outstanding = pay THEN "repaid" ELSE loan.status
  <2>1. loan' = [loan EXCEPT !.outstanding = o, !.status = st]
    BY DEF RepayCreditLine, pay
  <2>2. o \in Nat /\ st \in {"none", "open", "accepted", "repaid"}
    BY <1>1, <1>2 DEF LifeInv, LifeType
  <2> HIDE DEF o, st
  <2> QED
    BY <2>1, <2>2 DEF LifeInv, LifeType
<1>12. LifeType'
  BY <1>1, <1>8, <1>10, <1>11 DEF LifeInv, LifeType, RepayCreditLine
<1> QED
  BY <1>8, <1>10, <1>12 DEF LifeInv

\* A will.
LEMMA RegisterWillKeeps ==
  ASSUME LifeInv, NEW s \in DOMAIN Souls, NEW heirs \in SUBSET DOMAIN Souls, NEW unborn \in SUBSET Unborn,
         RegisterWill(s, heirs, unborn)
  PROVE  LifeInv' /\ GraceKept
<1>1. /\ ArePeople(souls') /\ DOMAIN souls' = DOMAIN souls /\ OnRecord(souls', settledSouls') /\ GraceInv' /\ GraceKept
      /\ EstatesConserved'
  BY SoulsSame DEF RegisterWill
<1>2. \A t \in DOMAIN wills' : wills'[t].unborn \subseteq Unborn
  BY DEF LifeInv, LifeType, RegisterWill, Put
<1>3. LifeType'
  BY <1>1, <1>2 DEF LifeInv, LifeType, RegisterWill
<1> QED
  BY <1>1, <1>3 DEF LifeInv

\* A gift of the owner.
LEMMA OwnerTopUpKeeps == ASSUME LifeInv, NEW s \in DOMAIN souls, OwnerTopUp(s, 1) PROVE LifeInv' /\ GraceKept
<1> DEFINE b == souls[s].balance + 1
           x == [souls[s] EXCEPT !.balance = b]
<1>1. souls[s] \in SoulRecords /\ souls[s].balance \in Nat
  BY DEF LifeInv, LifeType, ArePeople, SoulRecords
<1>2. b \in Nat
  BY <1>1
<1>3. souls' = [souls EXCEPT ![s] = x]
  BY <1>1 DEF OwnerTopUp, SoulRecords
<1> HIDE DEF b
<1>4. /\ x \in SoulRecords /\ x.balance = b /\ x.status = souls[s].status /\ x.since = souls[s].since
      /\ x.reason = souls[s].reason
  BY <1>1, <1>2, BalanceSet
<1> HIDE DEF x
<1>5. /\ ArePeople(souls') /\ DOMAIN souls' = DOMAIN souls /\ OnRecord(souls', settledSouls') /\ GraceInv' /\ GraceKept
      /\ Worth(souls') + souls[s].balance = Worth(souls) + x.balance
      /\ Worth(souls') \in Nat /\ Worth(souls) \in Nat
  BY <1>1, <1>3, <1>4, SoulChanged DEF OwnerTopUp
<1>6. books' \in [given : Nat, spent : Nat, burned : Nat] /\ EstatesConserved'
  <2>1. Worth(souls') = Worth(souls) + 1
    BY <1>1, <1>4, <1>5 DEF b
  <2>2. books' = [books EXCEPT !.given = @ + 1]
    BY DEF OwnerTopUp
  <2> QED
    BY <1>5, <2>1, <2>2, BooksGiven
<1>7. LifeType'
  BY <1>5, <1>6 DEF LifeInv, LifeType, OwnerTopUp
<1> QED
  BY <1>5, <1>6, <1>7 DEF LifeInv

\* An extension is paid for.
LEMMA PurchaseExtensionKeeps == ASSUME LifeInv, NEW s \in DOMAIN souls, PurchaseExtension(s) PROVE LifeInv' /\ GraceKept
<1> DEFINE price == ExtensionPrice * (souls[s].extensions + 1)
           b == souls[s].balance - price
           n == souls[s].natural + EpochsGranted
           m == souls[s].extensions + 1
           y == [souls[s] EXCEPT !.balance = b]
           x == [y EXCEPT !.extensions = m, !.natural = n]
<1>1. /\ souls[s] \in SoulRecords /\ souls[s].balance \in Nat /\ souls[s].extensions \in Nat
      /\ souls[s].natural \in Nat
  BY DEF LifeInv, LifeType, ArePeople, SoulRecords
<1>2. m \in Nat /\ n \in Nat /\ ExtensionPrice \in Nat /\ EpochsGranted \in Nat
  BY <1>1, LifeAssumption
<1>3. price \in Nat
  BY <1>2
<1>4. souls[s].balance >= price
  BY DEF PurchaseExtension
<1>5. souls' = [souls EXCEPT ![s] = x]
  <2>1. souls' = [souls EXCEPT ![s].balance = b, ![s].extensions = m, ![s].natural = n]
    BY DEF PurchaseExtension
  <2> HIDE DEF b, m, n
  <2>2. souls' = [souls EXCEPT ![s] = [souls[s] EXCEPT !.balance = b, !.extensions = m, !.natural = n]]
    BY <1>1, <2>1 DEF LifeInv, LifeType, ArePeople
  <2>3. [souls[s] EXCEPT !.balance = b, !.extensions = m, !.natural = n] = x
    BY <1>1 DEF SoulRecords
  <2> QED
    BY <2>2, <2>3
<1>6. books' = [books EXCEPT !.spent = @ + price]
  BY DEF PurchaseExtension
<1> HIDE DEF price
<1>7. b \in Nat
  BY <1>1, <1>3, <1>4
<1> HIDE DEF b, m, n
<1>8. /\ y \in SoulRecords /\ y.balance = b /\ y.status = souls[s].status /\ y.since = souls[s].since
      /\ y.reason = souls[s].reason
  BY <1>1, <1>7, BalanceSet
<1> HIDE DEF y
<1>9. /\ x \in SoulRecords /\ x.balance = b /\ x.status = souls[s].status /\ x.since = souls[s].since
      /\ x.reason = souls[s].reason
  BY <1>2, <1>8 DEF SoulRecords
<1> HIDE DEF x
<1>10. /\ ArePeople(souls') /\ DOMAIN souls' = DOMAIN souls /\ OnRecord(souls', settledSouls') /\ GraceInv' /\ GraceKept
      /\ Worth(souls') + souls[s].balance = Worth(souls) + x.balance
      /\ Worth(souls') \in Nat /\ Worth(souls) \in Nat
  BY <1>1, <1>5, <1>9, SoulChanged DEF PurchaseExtension
<1>11. books' \in [given : Nat, spent : Nat, burned : Nat] /\ EstatesConserved'
  <2>1. Worth(souls') + price = Worth(souls)
    BY <1>1, <1>3, <1>4, <1>9, <1>10 DEF b
  <2> QED
    BY <1>3, <1>6, <1>10, <2>1, BooksSpent
<1>12. LifeType'
  BY <1>10, <1>11 DEF LifeInv, LifeType, PurchaseExtension
<1> QED
  BY <1>10, <1>11, <1>12 DEF LifeInv

\* The reaper ends an epoch.
LEMMA ReaperEpochKeeps == ASSUME LifeInv, NEW e \in Epochs, ReaperEpoch(e) PROVE LifeInv' /\ GraceKept
<1> DEFINE C == Charged(souls)
           W == WithInterest(C)
           M == Marked(W, e)
           r == Reaped(M, e)
<1>1. ArePeople(souls) /\ e \in Nat
  BY LifeAssumption DEF LifeInv, LifeType
<1>2. /\ ArePeople(C) /\ DOMAIN C = DOMAIN souls
      /\ \A s \in DOMAIN souls : /\ C[s].status = souls[s].status /\ C[s].reason = souls[s].reason
                                 /\ C[s].since = souls[s].since /\ C[s].balance <= souls[s].balance
  BY <1>1, ChargedIs
<1>3. /\ souls' = r.souls /\ settledSouls' = r.settled /\ epoch' = e
      /\ books' = [given |-> books.given + r.granted, spent |-> books.spent + Worth(souls) - Worth(M),
                   burned |-> books.burned + r.burned]
      /\ brokeRun' = [s \in AllSouls |-> IF s \in DOMAIN M /\ Broke(M[s]) THEN Longer(brokeRun[s], e) ELSE NoRun]
  BY DEF ReaperEpoch
<1> HIDE DEF C
<1>4. /\ ArePeople(W) /\ DOMAIN W = DOMAIN C
      /\ \A s \in DOMAIN C : /\ W[s].status = C[s].status /\ W[s].reason = C[s].reason
                             /\ W[s].since = C[s].since /\ W[s].balance = C[s].balance
  BY <1>2, InterestIs
<1> HIDE DEF W
<1>5. /\ ArePeople(M) /\ DOMAIN M = DOMAIN W
      /\ \A s \in DOMAIN W :
           /\ M[s].reason = W[s].reason /\ M[s].balance = W[s].balance
           /\ (M[s].status = "dead") = (W[s].status = "dead")
           /\ M[s].status # "dead" /\ M[s].since >= 0 =>
                Broke(M[s]) /\ M[s].since = IF W[s].since < 0 THEN e ELSE W[s].since
           /\ M[s].status # "dead" /\ M[s].since < 0 => ~Broke(M[s])
  BY <1>1, <1>4, MarkedIs
<1> HIDE DEF M
<1>6. /\ DOMAIN M = DOMAIN souls
      /\ \A s \in DOMAIN souls :
           /\ M[s].reason = souls[s].reason /\ M[s].balance <= souls[s].balance
           /\ (M[s].status = "dead") = (souls[s].status = "dead")
           /\ M[s].status # "dead" /\ M[s].since >= 0 =>
                Broke(M[s]) /\ M[s].since = IF souls[s].since < 0 THEN e ELSE souls[s].since
           /\ M[s].status # "dead" /\ M[s].since < 0 => ~Broke(M[s])
  BY <1>2, <1>4, <1>5
<1>7. OnRecord(M, settledSouls)
  BY <1>6 DEF LifeInv, OnRecord
<1>8. GoodReap(r, M, e)
  BY <1>1, <1>5, <1>7, ReapedIs DEF LifeInv, LifeType
<1> HIDE DEF r
<1>9. Worth(M) \in Nat /\ Worth(souls) \in Nat /\ Worth(r.souls) \in Nat /\ Worth(M) <= Worth(souls)
  BY <1>1, <1>5, <1>6, <1>8, WorthNat, WorthLess DEF GoodReap
<1>10. books' \in [given : Nat, spent : Nat, burned : Nat] /\ EstatesConserved'
  <2>1. books \in [given : Nat, spent : Nat, burned : Nat] /\ Worth(souls) + books.spent + books.burned = books.given
    BY DEF LifeInv, LifeType, EstatesConserved
  <2>2. books.given \in Nat /\ books.spent \in Nat /\ books.burned \in Nat
    BY <2>1
  <2>3. r.granted \in Nat /\ r.burned \in Nat /\ Worth(r.souls) + r.burned = Worth(M) + r.granted
    BY <1>8 DEF GoodReap
  <2>4. books'.given = books.given + r.granted /\ books'.spent = books.spent + Worth(souls) - Worth(M)
        /\ books'.burned = books.burned + r.burned
    BY <1>3
  <2>5. books.given + r.granted \in Nat /\ books.spent + Worth(souls) - Worth(M) \in Nat /\ books.burned + r.burned \in Nat
    BY <1>9, <2>2, <2>3
  <2>6. books' \in [given : Nat, spent : Nat, burned : Nat]
    BY <1>3, <2>5
  <2>7. Worth(r.souls) + books'.spent + books'.burned = books'.given
    BY <1>9, <2>1, <2>2, <2>3, <2>4
  <2>8. Worth(souls') + books'.spent + books'.burned = books'.given
    BY <1>3, <2>7
  <2> QED
    BY <2>6, <2>8, BooksAfter
<1>11. brokeRun' \in [AllSouls -> [first : Nat, runs : Nat]]
  <2>1. \A s \in AllSouls : Longer(brokeRun[s], e) \in [first : Nat, runs : Nat]
    BY <1>1 DEF LifeInv, LifeType, Longer
  <2>2. NoRun \in [first : Nat, runs : Nat]
    BY DEF NoRun
  <2> QED
    BY <1>3, <2>1, <2>2
<1>12. ASSUME NEW s \in DOMAIN souls, M[s].status # "dead", M[s].since >= 0
       PROVE  /\ brokeRun'[s].runs >= 1 /\ brokeRun'[s].first = M[s].since /\ M[s].since \in Nat
              /\ M[s].since # e => brokeRun'[s].runs >= 2
  <2>1. Broke(M[s]) /\ M[s].since = IF souls[s].since < 0 THEN e ELSE souls[s].since
    BY <1>6, <1>12
  <2>2. s \in AllSouls /\ souls[s].since \in Int /\ brokeRun[s].runs \in Nat /\ souls[s].status # "dead"
    BY <1>1, <1>6, <1>12 DEF ArePeople, SoulRecords, LifeInv, LifeType
  <2>3. brokeRun'[s] = Longer(brokeRun[s], e)
    BY <1>3, <1>6, <2>1, <2>2
  <2>4. CASE souls[s].since < 0
    <3>1. brokeRun[s].runs = 0
      BY <2>2, <2>4 DEF LifeInv, GraceInv
    <3> QED
      BY <1>1, <2>1, <2>2, <2>3, <2>4, <3>1 DEF Longer
  <2>5. CASE souls[s].since >= 0
    <3>1. brokeRun[s].runs >= 1 /\ brokeRun[s].first = souls[s].since
      BY <2>2, <2>5 DEF LifeInv, GraceInv
    <3> QED
      BY <1>1, <2>1, <2>2, <2>3, <2>5, <3>1 DEF Longer
  <2> QED
    BY <2>2, <2>4, <2>5
<1>13. GraceInv'
  <2> SUFFICES ASSUME NEW s \in DOMAIN r.souls, r.souls[s].status # "dead"
               PROVE  IF r.souls[s].since >= 0
                      THEN brokeRun'[s].runs >= 1 /\ brokeRun'[s].first = r.souls[s].since ELSE brokeRun'[s].runs = 0
    BY <1>3 DEF GraceInv
  <2>1. r.souls[s].since \in Int /\ s \in AllSouls
    BY <1>8 DEF GoodReap, ArePeople, SoulRecords
  <2>2. CASE s \in DOMAIN M
    <3>1. r.souls[s].since = M[s].since /\ M[s].status # "dead"
      BY <1>8, <2>2 DEF GoodReap
    <3>2. CASE M[s].since >= 0
      BY <1>6, <1>12, <2>2, <3>1, <3>2
    <3>3. CASE M[s].since < 0
      <4>1. ~Broke(M[s])
        BY <1>6, <2>2, <3>1, <3>3
      <4>2. brokeRun'[s] = NoRun
        BY <1>3, <2>1, <4>1
      <4> QED
        BY <2>1, <3>1, <3>3, <4>2 DEF NoRun
    <3> QED
      BY <2>1, <3>1, <3>2, <3>3
  <2>3. CASE s \notin DOMAIN M
    <3>1. brokeRun'[s] = NoRun /\ r.souls[s].since < 0
      BY <1>3, <1>8, <2>1, <2>3 DEF GoodReap
    <3> QED
      BY <2>1, <3>1 DEF NoRun
  <2> QED
    BY <2>2, <2>3
<1>14. GraceKept
  <2> SUFFICES ASSUME NEW s \in DOMAIN souls, souls[s].reason = "none", r.souls[s].reason = "insolvency"
               PROVE  /\ brokeRun'[s].runs >= 1
                      /\ Grace > 0 => brokeRun'[s].runs >= 2 /\ e >= brokeRun'[s].first + Grace
    BY <1>3 DEF GraceKept
  <2>1. M[s].reason = "none" /\ s \in DOMAIN M
    BY <1>6
  <2>2. M[s].status # "dead" /\ Due(M[s], e) = "insolvency"
    BY <1>8, <2>1 DEF GoodReap
  <2>3. M[s].since >= 0 /\ Minus(e, M[s].since) >= Grace
    BY <2>2 DEF Due
  <2>4. /\ brokeRun'[s].runs >= 1 /\ brokeRun'[s].first = M[s].since /\ M[s].since \in Nat
        /\ M[s].since # e => brokeRun'[s].runs >= 2
    BY <1>12, <2>2, <2>3
  <2>5. Grace > 0 => e >= M[s].since + Grace /\ M[s].since # e
    BY <1>1, <2>3, <2>4, LifeAssumption DEF Minus
  <2> QED
    BY <2>4, <2>5
<1>15. ArePeople(souls') /\ DOMAIN souls \subseteq DOMAIN souls' /\ settledSouls' \in Seq(AllSouls \X Nat)
       /\ OnRecord(souls', settledSouls')
  BY <1>3, <1>6, <1>8 DEF GoodReap
<1>16. /\ loan' \in [lender : Nat, borrower : Nat, principal : Nat, outstanding : Nat,
                     status : {"none", "open", "accepted", "repaid"}]
       /\ loan'.borrower = loan.borrower /\ loan'.status = loan.status
  <2> DEFINE o == loan.outstanding + Interest
  <2>1. o \in Nat
    BY DEF Interest, LifeInv, LifeType
  <2>2. loan' = [loan EXCEPT !.outstanding = o]
    BY DEF ReaperEpoch
  <2> HIDE DEF o
  <2> QED
    BY <2>1, <2>2 DEF LifeInv, LifeType
<1>17. LifeType'
  BY <1>1, <1>3, <1>10, <1>11, <1>15, <1>16 DEF LifeInv, LifeType, ReaperEpoch
<1> QED
  BY <1>10, <1>13, <1>14, <1>15, <1>17 DEF LifeInv

\* Every step keeps the invariant and grants the grace.
LEMMA LifeKeeps == ASSUME LifeInv, LifeNext PROVE LifeInv' /\ GraceKept
<1>1. CASE \E w \in Wills : RegisterWill(w[1], w[2], w[3])
  <2>1. PICK w \in Wills : RegisterWill(w[1], w[2], w[3])
    BY <1>1
  <2>2. w[1] \in DOMAIN Souls /\ w[2] \in SUBSET DOMAIN Souls /\ w[3] \in SUBSET Unborn
    BY LifeAssumption
  <2> QED
    BY <2>1, <2>2, RegisterWillKeeps
<1> QED
  BY <1>1, OpenCreditLineKeeps, AcceptCreditLineKeeps, RepayCreditLineKeeps, OwnerTopUpKeeps,
     PurchaseExtensionKeeps, ReaperEpochKeeps DEF LifeNext

\* The invariant of the souls.
LEMMA LifeAlways == LifeSpec => []LifeInv
<1>1. LifeInit => LifeInv
  BY LifeStart
<1>2. LifeInv /\ [LifeNext]_lifeVars => LifeInv'
  <2>1. ASSUME LifeInv, UNCHANGED lifeVars PROVE LifeInv'
    BY <2>1 DEF lifeVars, LifeInv, LifeType, EstatesConserved, GraceInv
  <2> QED
    BY <2>1, LifeKeeps
<1> QED
  BY <1>1, <1>2, PTL DEF LifeSpec

\* Through rent, loans, gifts, wills and any number of deaths in an epoch, with heirs who die
\* after they inherited and heirs born of a will, money is neither made nor lost, and a soul
\* is dead exactly when one settlement of it is on record.
THEOREM EstatesAreSafe == LifeSpec => []EstatesSafe
<1>1. LifeInv => EstatesSafe
  BY DEF LifeInv, EstatesSafe, SettledOnce, OnRecord, PlacesOf
<1> QED
  BY <1>1, LifeAlways, PTL

\* Insolvency ends the life only of a soul that every call of the reaper found broke since an
\* earlier one, with an epoch that is the whole grace before.
LEMMA GraceAlways == LifeSpec => GraceGranted
<1>1. LifeInv /\ [LifeNext]_lifeVars => [GraceKept]_lifeVars
  BY LifeKeeps
<1>2. GraceGranted <=> [][GraceKept]_lifeVars
  BY PTL DEF GraceGranted, GraceKept
<1> QED
  BY <1>1, <1>2, LifeAlways, PTL DEF LifeSpec
-----------------------------------------------------------------------------
(* What no step may do *)

\* What is written first stays.
KeepsFirst ==
  /\ \A h \in DOMAIN anchors : anchors'[h] = anchors[h]
  /\ \A c \in DOMAIN lifeCommands : lifeCommands'[c] = lifeCommands[c]
  /\ settled \subseteq settled'

\* Every call keeps it.
LEMMA CallsKeepFirst == ASSUME LedgerNext PROVE KeepsFirst
<1>1. CASE UNCHANGED <<anchors, lifeCommands, settled>>
  BY <1>1 DEF KeepsFirst
<1>2. ASSUME NEW s \in Accounts, NEW of, NEW h \in Hashes, Anchor(s, of, h) PROVE KeepsFirst
  BY <1>2 DEF Anchor, KeepsFirst, Put, commandVars
<1>3. ASSUME NEW s \in Accounts, NEW c \in LifeCommands, LifeCommand(s, c) PROVE KeepsFirst
  BY <1>3 DEF LifeCommand, KeepsFirst, Put, recordVars
<1>4. ASSUME NEW r \in Receipts, SettleReceipt(r) PROVE KeepsFirst
  BY <1>4 DEF SettleReceipt, KeepsFirst, commandVars
<1>5. ASSUME NEW p \in Batches, SettleBatch(p) PROVE KeepsFirst
  BY <1>5 DEF SettleBatch, KeepsFirst, commandVars
<1>6. ASSUME NEW s \in Accounts, NEW v \in Accounts, NEW n \in Amounts,
             Transfer(s, v, n) \/ Delegate(s, v, n)
      PROVE  UNCHANGED <<anchors, lifeCommands, settled>>
  BY <1>6 DEF Transfer, Delegate, recordVars, commandVars
<1>7. ASSUME NEW s \in Accounts, NEW k \in Keys, NEW i, RegisterAgent(s, k) \/ UpdateAgent(s, i, k)
      PROVE  UNCHANGED <<anchors, lifeCommands, settled>>
  BY <1>7 DEF RegisterAgent, UpdateAgent, commandVars
<1>8. ASSUME NEW s \in Accounts, NEW i, SuspendAgent(s, i) PROVE UNCHANGED <<anchors, lifeCommands, settled>>
  BY <1>8 DEF SuspendAgent, commandVars
<1>9. ASSUME NEW b, NEW i, ClaimPayout(b, i) \/ FileDispute \/ MintForBlock PROVE UNCHANGED <<anchors, lifeCommands, settled>>
  BY <1>9 DEF ClaimPayout, FileDispute, MintForBlock, recordVars, commandVars
<1>10. ASSUME NEW s \in Accounts, NEW d, ResolveDispute(s, d) PROVE UNCHANGED <<anchors, lifeCommands, settled>>
  BY <1>10 DEF ResolveDispute, commandVars
<1>11. ASSUME NEW s \in Accounts, NEW n \in Amounts, Stake(s, n) \/ Unstake(s, n) PROVE UNCHANGED <<anchors, lifeCommands, settled>>
  BY <1>11 DEF Stake, Unstake, recordVars, commandVars
<1>12. ASSUME NEW s \in Accounts, NEW v \in Accounts, Slash(s, v) PROVE UNCHANGED <<anchors, lifeCommands, settled>>
  BY <1>12 DEF Slash, recordVars, commandVars
<1>13. ASSUME NEW s \in Accounts, NEW p \in Schedules, SetChainEconomics(s, p) PROVE UNCHANGED <<anchors, lifeCommands, settled>>
  BY <1>13 DEF SetChainEconomics, recordVars, commandVars
<1> QED
  BY <1>1, <1>2, <1>3, <1>4, <1>5, <1>6, <1>7, <1>8, <1>9, <1>10, <1>11, <1>12, <1>13 DEF LedgerNext

\* No step replaces a first commitment, mints anything below a revoked capability, ends a soul
\* for insolvency unless an earlier call found it broke and the whole grace of epochs passed since,
\* or moves a nonce by anything but one for a transaction of its signer.
THEOREM NothingIsUndone == LedgerSpec /\ WalletSpec /\ LifeSpec /\ EvmSpec => NeverUndone
<1>1. [LedgerNext]_ledgerVars => [KeepsFirst]_ledgerVars
  BY CallsKeepFirst
<1>2. FirstWriteStands <=> [][KeepsFirst]_ledgerVars
  BY PTL DEF FirstWriteStands, KeepsFirst
<1>3. LedgerSpec => FirstWriteStands
  BY <1>1, <1>2, PTL DEF LedgerSpec
<1> QED
  BY <1>3, NothingMintedBelowRevoked, GraceAlways, NoncesMoveOnce, PTL DEF NeverUndone
-----------------------------------------------------------------------------
(* Splits and grids *)

\* A finite set of naturals has a largest element.
LEMMA LargestExists ==
  ASSUME NEW S, IsFiniteSet(S), S \subseteq Nat, S # {}
  PROVE  \E n \in S : \A m \in S : m <= n
<1> DEFINE P == {T \in SUBSET S : T = {} \/ \E n \in T : \A m \in T : m <= n}
<1>1. ASSUME NEW T \in SUBSET S, \A x \in T : T \ {x} \in P PROVE T \in P
  <2>1. CASE T = {}
    BY <2>1
  <2>2. CASE T # {}
    <3>1. PICK x \in T : TRUE
      BY <2>2
    <3>2. CASE T \ {x} = {}
      <4>1. \A m \in T : m <= x
        BY <3>2
      <4> QED
        BY <3>1, <4>1
    <3>3. CASE T \ {x} # {}
      <4>1. PICK n \in T \ {x} : \A m \in T \ {x} : m <= n
        BY <1>1, <3>3
      <4>2. n \in Nat /\ x \in Nat /\ \A m \in T : m \in Nat
        OBVIOUS
      <4>3. CASE n <= x
        <5>1. \A m \in T : m <= x
          BY <4>1, <4>2, <4>3
        <5> QED
          BY <5>1
      <4>4. CASE x <= n
        <5>1. \A m \in T : m <= n
          BY <4>1, <4>2, <4>4
        <5> QED
          BY <5>1
      <4> QED
        BY <4>2, <4>3, <4>4
    <3> QED
      BY <3>2, <3>3
  <2> QED
    BY <2>1, <2>2
<1> HIDE DEF P
<1>2. S \in P
  BY <1>1, FiniteInduction
<1> QED
  BY <1>2 DEF P

\* The parts of n in proportion to the weights w of the whole weight, rounded down.
Floors(p, w, S, n, whole) ==
  w \in [S -> Nat] /\ p \in [S -> Nat] /\ \A x \in S : p[x] = (n * w[x]) \div whole

\* One part is at most its due.
LEMMA FloorIs == ASSUME NEW a \in Nat, NEW b \in Nat \ {0} PROVE a \div b \in Nat /\ (a \div b) * b <= a
OBVIOUS

\* All of them are.
LEMMA FloorsFit ==
  ASSUME NEW S, IsFiniteSet(S), NEW n \in Nat, NEW whole \in Nat \ {0}, NEW w, NEW p, Floors(p, w, S, n, whole)
  PROVE  Total(p) * whole <= n * Total(w)
<1>0. w \in [S -> Nat] /\ p \in [S -> Nat] /\ \A x \in S : p[x] = (n * w[x]) \div whole
  BY DEF Floors
<1> DEFINE P == {T \in SUBSET S : SumOf(p, T) * whole <= n * SumOf(w, T)}
<1>1. ASSUME NEW T \in SUBSET S, \A x \in T : T \ {x} \in P PROVE T \in P
  <2>1. CASE T = {}
    BY <2>1, SumEmpty
  <2>2. CASE T # {}
    <3>1. PICK x \in T : TRUE
      BY <2>2
    <3>2. IsFiniteSet(T) /\ x \in S /\ IsFiniteSet(T \ {x})
      BY FS_Subset
    <3>3. SumOf(p, T) = SumOf(p, T \ {x}) + p[x] /\ SumOf(w, T) = SumOf(w, T \ {x}) + w[x]
      BY <1>0, <3>2, SumRemove
    <3>4. SumOf(p, T \ {x}) \in Nat /\ SumOf(w, T \ {x}) \in Nat
      BY <1>0, <3>2, SumNat
    <3>5. SumOf(p, T \ {x}) * whole <= n * SumOf(w, T \ {x})
      BY <1>1
    <3>6. p[x] \in Nat /\ w[x] \in Nat /\ p[x] * whole <= n * w[x]
      <4>1. w[x] \in Nat /\ n * w[x] \in Nat
        BY <1>0, <3>2
      <4> QED
        BY <1>0, <3>2, <4>1, FloorIs
    <3> DEFINE a == SumOf(p, T \ {x})
               c == SumOf(w, T \ {x})
    <3> HIDE DEF a, c
    <3>7. (a + p[x]) * whole = a * whole + p[x] * whole /\ n * (c + w[x]) = n * c + n * w[x]
      BY <3>4, <3>6 DEF a, c
    <3>8. a * whole \in Nat /\ p[x] * whole \in Nat /\ n * c \in Nat /\ n * w[x] \in Nat
      BY <3>4, <3>6 DEF a, c
    <3>9. (a + p[x]) * whole <= n * (c + w[x])
      BY <3>5, <3>6, <3>7, <3>8 DEF a, c
    <3> QED
      BY <3>3, <3>9 DEF a, c
  <2> QED
    BY <2>1, <2>2
<1> HIDE DEF P
<1>2. S \in P
  BY <1>1, FiniteInduction
<1> QED
  BY <1>0, <1>2, TotalSum DEF P

\* A factor cancels.
LEMMA Cancels == ASSUME NEW a \in Nat, NEW b \in Nat, NEW c \in Nat \ {0}, a * c <= b * c PROVE a <= b
OBVIOUS

\* Products grow.
LEMMA Grows == ASSUME NEW a \in Nat, NEW b \in Nat, NEW c \in Nat, a <= b PROVE c * a <= c * b
OBVIOUS

\* The parts, with the rest for the last.
WithRest(p, S, n, last) == [x \in S |-> IF x # last THEN p[x] ELSE Minus(n, Total([y \in S \ {x} |-> p[y]]))]

\* They add up to the whole.
LEMMA SplitsWhole ==
  ASSUME NEW S, IsFiniteSet(S), NEW last \in S, NEW n \in Nat, NEW whole \in Nat \ {0}, NEW w, NEW p,
         Floors(p, w, S, n, whole), Total(w) <= whole
  PROVE  WithRest(p, S, n, last) \in [S -> Nat] /\ Total(WithRest(p, S, n, last)) = n
<1> DEFINE R == S \ {last}
           q == [y \in R |-> p[y]]
           v == [y \in R |-> w[y]]
           g == WithRest(p, S, n, last)
<1>0. w \in [S -> Nat] /\ p \in [S -> Nat] /\ \A x \in S : p[x] = (n * w[x]) \div whole
  BY DEF Floors
<1>1. IsFiniteSet(R) /\ last \notin R /\ R \subseteq S /\ S = R \cup {last}
  BY FS_RemoveElement
<1>2. Floors(q, v, R, n, whole) /\ q \in [R -> Nat] /\ v \in [R -> Nat]
  BY <1>0 DEF Floors
<1>3. g[last] = Minus(n, Total(q)) /\ \A x \in R : g[x] = q[x]
  BY DEF WithRest
<1>4. g = [x \in S |-> g[x]]
  BY DEF WithRest
<1>5. \A x \in R : v[x] <= w[x]
  BY <1>0
<1> HIDE DEF R, q, v, g
<1>6. Total(q) * whole <= n * Total(v) /\ Total(q) \in Nat /\ Total(v) \in Nat /\ Total(w) \in Nat
  BY <1>0, <1>1, <1>2, FloorsFit, TotalNat
<1>7. Total(v) <= Total(w)
  BY <1>0, <1>1, <1>2, <1>5, TotalLess
<1>8. n * Total(v) <= n * whole /\ n * Total(v) \in Nat /\ n * whole \in Nat /\ Total(q) * whole \in Nat
  <2>1. Total(v) <= whole
    BY <1>6, <1>7
  <2> QED
    BY <1>6, <2>1, Grows
<1>9. Total(q) <= n
  <2>1. Total(q) * whole <= n * whole
    BY <1>6, <1>8
  <2> QED
    BY <1>6, <2>1, Cancels
<1>10. g[last] = n - Total(q) /\ g[last] \in Nat
  BY <1>3, <1>6, <1>9 DEF Minus
<1>11. g \in [S -> Nat]
  BY <1>1, <1>2, <1>3, <1>4, <1>10
<1>12. Total(g) = Total(q) + g[last]
  <2>1. g \in [R \cup {last} -> Nat] /\ \A x \in R : q[x] = g[x]
    BY <1>1, <1>3, <1>11
  <2> QED
    BY <1>1, <1>2, <2>1, TotalWith
<1> QED
  BY <1>6, <1>10, <1>11, <1>12 DEF g

\* The sums of the columns of a grid.
Columns(f, S, T) == [t \in T |-> Total([s \in S |-> f[s, t]])]

\* A column by itself.
LEMMA ColumnTotal ==
  ASSUME NEW S, IsFiniteSet(S), NEW T, NEW t \in T, NEW f \in [S \X T -> Nat]
  PROVE  SumOf(f, S \X {t}) = Total([s \in S |-> f[s, t]]) /\ Total([s \in S |-> f[s, t]]) \in Nat
         /\ IsFiniteSet(S \X {t})
<1> DEFINE c == [s \in S |-> f[s, t]]
           P == {R \in SUBSET S : SumOf(f, R \X {t}) = SumOf(c, R) /\ IsFiniteSet(R \X {t})}
<1>0. c \in [S -> Nat] /\ \A s \in S : c[s] = f[<<s, t>>]
  OBVIOUS
<1> HIDE DEF c
<1>1. ASSUME NEW R \in SUBSET S, \A x \in R : R \ {x} \in P PROVE R \in P
  <2>1. CASE R = {}
    <3>1. R \X {t} = {}
      BY <2>1
    <3> QED
      BY <2>1, <3>1, SumEmpty, FS_EmptySet
  <2>2. CASE R # {}
    <3>1. PICK x \in R : TRUE
      BY <2>2
    <3> DEFINE Q == R \ {x}
               U == Q \X {t}
               k == <<x, t>>
    <3>2. IsFiniteSet(R) /\ IsFiniteSet(Q) /\ x \in S
      BY FS_Subset
    <3>3. SumOf(f, U) = SumOf(c, Q) /\ IsFiniteSet(U)
      BY <1>1
    <3>4. k \notin U /\ R \X {t} = U \cup {k} /\ \A y \in U \cup {k} : f[y] \in Nat
      BY <3>2
    <3> HIDE DEF U, k
    <3>5. SumOf(f, U \cup {k}) = SumOf(f, U) + f[k] /\ IsFiniteSet(U \cup {k})
      BY <3>3, <3>4, SumAdd, FS_AddElement
    <3>6. SumOf(c, R) = SumOf(c, Q) + c[x]
      BY <1>0, <3>2, SumRemove
    <3>7. c[x] = f[k]
      BY <1>0, <3>2 DEF k
    <3> QED
      BY <3>3, <3>4, <3>5, <3>6, <3>7
  <2> QED
    BY <2>1, <2>2
<1> HIDE DEF P
<1>2. S \in P
  BY <1>1, FiniteInduction
<1>3. SumOf(c, S) = Total(c) /\ Total(c) \in Nat
  BY <1>0, TotalSum, TotalNat
<1> QED
  BY <1>2, <1>3 DEF P, c

\* A grid adds up by its columns.
LEMMA GridTotal ==
  ASSUME NEW S, IsFiniteSet(S), NEW T, IsFiniteSet(T), NEW f \in [S \X T -> Nat]
  PROVE  Total(f) = Total(Columns(f, S, T)) /\ Columns(f, S, T) \in [T -> Nat] /\ IsFiniteSet(S \X T)
<1> DEFINE g == Columns(f, S, T)
           P == {U \in SUBSET T : SumOf(f, S \X U) = SumOf(g, U) /\ IsFiniteSet(S \X U)}
<1>0. g \in [T -> Nat] /\ \A t \in T : g[t] = SumOf(f, S \X {t}) /\ IsFiniteSet(S \X {t})
  <2>1. ASSUME NEW t \in T
        PROVE  /\ SumOf(f, S \X {t}) = Total([s \in S |-> f[s, t]]) /\ Total([s \in S |-> f[s, t]]) \in Nat
               /\ IsFiniteSet(S \X {t})
    BY ColumnTotal
  <2>2. g = [t \in T |-> g[t]] /\ \A t \in T : g[t] = Total([s \in S |-> f[s, t]])
    BY DEF Columns
  <2> HIDE DEF g
  <2> QED
    BY <2>1, <2>2
<1> HIDE DEF g
<1>1. ASSUME NEW U \in SUBSET T, \A x \in U : U \ {x} \in P PROVE U \in P
  <2>1. CASE U = {}
    <3>1. S \X U = {}
      BY <2>1
    <3> QED
      BY <2>1, <3>1, SumEmpty, FS_EmptySet
  <2>2. CASE U # {}
    <3>1. PICK t \in U : TRUE
      BY <2>2
    <3> DEFINE V == U \ {t}
               A == S \X V
               B == S \X {t}
    <3>2. IsFiniteSet(U) /\ IsFiniteSet(V) /\ t \in T
      BY FS_Subset
    <3>3. SumOf(f, A) = SumOf(g, V) /\ IsFiniteSet(A)
      BY <1>1
    <3>4. A \cap B = {} /\ S \X U = A \cup B /\ \A y \in A \cup B : f[y] \in Nat
      BY <3>2
    <3>5. g[t] = SumOf(f, B) /\ IsFiniteSet(B)
      BY <1>0, <3>2
    <3> HIDE DEF A, B
    <3>6. SumOf(f, A \cup B) = SumOf(f, A) + SumOf(f, B) /\ IsFiniteSet(A \cup B)
      BY <3>3, <3>4, <3>5, SumDisjoint, FS_Union
    <3>7. SumOf(g, U) = SumOf(g, V) + g[t]
      BY <1>0, <3>2, SumRemove
    <3> QED
      BY <3>3, <3>4, <3>5, <3>6, <3>7
  <2> QED
    BY <2>1, <2>2
<1> HIDE DEF P
<1>2. T \in P
  BY <1>1, FiniteInduction
<1>3. SumOf(g, T) = Total(g) /\ SumOf(f, S \X T) = Total(f)
  BY <1>0, TotalSum
<1> QED
  BY <1>0, <1>2, <1>3 DEF P, g
-----------------------------------------------------------------------------
(* Stakes: validators and delegators *)

\* What a fingerprint has in shares s.
HeldOf(s, fp) == Total([o \in Owners |-> s[o, fp]])

\* The types of the accounts, the stakes and the shares.
StakeType ==
  /\ balance \in [Owners -> Nat] /\ validatorStakes \in [Fps -> Nat]
  /\ shares \in [Owners \X Fps -> Nat] /\ credits \in [Owners \X Fps -> Nat]
  /\ commission \in [Fps -> 0 .. CommissionScale] /\ registered \subseteq Fps
  /\ unowned \in [Fps -> Nat] /\ destroyed \in Nat /\ protocolBurned \in Nat /\ unbacked \in Nat

\* The inductive invariant of the validators' stakes.
StakeInv == StakeType /\ StakeConserved /\ SharesBacked

\* A sum is at least each of its terms.
LEMMA TotalAtLeast == ASSUME NEW S, IsFiniteSet(S), NEW f \in [S -> Nat], NEW x \in S PROVE f[x] <= Total(f)
<1>1. SumOf(f, S) = SumOf(f, S \ {x}) + f[x] /\ IsFiniteSet(S \ {x})
  BY SumRemove, FS_RemoveElement
<1>2. SumOf(f, S \ {x}) \in Nat
  BY <1>1, SumNat
<1>3. Total(f) = SumOf(f, S)
  BY TotalSum
<1> QED
  BY <1>1, <1>2, <1>3

\* g is f but for the value v at x.
Sets(g, f, S, x, v) ==
  f \in [S -> Nat] /\ g \in [S -> Nat] /\ x \in S /\ g[x] = v /\ \A y \in S \ {x} : g[y] = f[y]

\* Its sum.
LEMMA SetsTotal ==
  ASSUME NEW S, IsFiniteSet(S), NEW f, NEW g, NEW x, NEW v, Sets(g, f, S, x, v)
  PROVE  /\ Total(g) + f[x] = Total(f) + v /\ Total(g) \in Nat /\ Total(f) \in Nat
         /\ f[x] \in Nat /\ f[x] <= Total(f)
<1>1. f \in [S -> Nat] /\ g \in [S -> Nat] /\ x \in S /\ g[x] = v /\ \A y \in S \ {x} : f[y] = g[y]
  BY DEF Sets
<1>2. Total(g) + f[x] = Total(f) + g[x]
  BY <1>1, TotalChange
<1>3. Total(g) \in Nat /\ Total(f) \in Nat
  BY <1>1, TotalNat
<1>4. f[x] <= Total(f)
  BY <1>1, TotalAtLeast
<1> QED
  BY <1>1, <1>2, <1>3, <1>4

\* The shares of a fingerprint that did not change.
LEMMA HeldSame ==
  ASSUME NEW s, NEW t, NEW fp, \A p \in Owners : t[<<p, fp>>] = s[<<p, fp>>]
  PROVE  HeldOf(t, fp) = HeldOf(s, fp)
<1>1. [p \in Owners |-> s[p, fp]] = [p \in Owners |-> t[p, fp]]
  OBVIOUS
<1> QED
  BY <1>1 DEF HeldOf

\* Shares are natural.
LEMMA HeldOfNat == ASSUME NEW s \in [Owners \X Fps -> Nat], NEW fp \in Fps PROVE HeldOf(s, fp) \in Nat
<1> DEFINE f == [p \in Owners |-> s[p, fp]]
<1>1. f \in [Owners -> Nat]
  OBVIOUS
<1> HIDE DEF f
<1>2. Total(f) \in Nat
  BY <1>1, TotalNat, StakeAssumption
<1> QED
  BY <1>2 DEF HeldOf, f

\* The shares t are s but for that of o in fp.
SetsShare(t, s, o, fp, v) == Sets(t, s, Owners \X Fps, <<o, fp>>, v)

\* One share changes.
LEMMA HeldSet ==
  ASSUME NEW s, NEW fp \in Fps, NEW o \in Owners, NEW v, NEW t, SetsShare(t, s, o, fp, v)
  PROVE  /\ HeldOf(t, fp) + s[<<o, fp>>] = HeldOf(s, fp) + v
         /\ s[<<o, fp>>] \in Nat /\ s[<<o, fp>>] <= HeldOf(s, fp)
         /\ \A x \in Fps \ {fp} : HeldOf(t, x) = HeldOf(s, x)
<1> DEFINE f == [p \in Owners |-> s[p, fp]]
           g == [p \in Owners |-> t[p, fp]]
<1>0. /\ s \in [Owners \X Fps -> Nat] /\ t \in [Owners \X Fps -> Nat] /\ t[<<o, fp>>] = v
      /\ \A k \in Owners \X Fps : k # <<o, fp>> => t[k] = s[k]
  BY DEF SetsShare, Sets
<1>1. f \in [Owners -> Nat] /\ g \in [Owners -> Nat] /\ \A p \in Owners \ {o} : g[p] = f[p]
  BY <1>0
<1>2. f[o] = s[<<o, fp>>] /\ g[o] = v
  BY <1>0
<1>3. Sets(g, f, Owners, o, v)
  BY <1>1, <1>2 DEF Sets
<1> HIDE DEF f, g
<1>4. IsFiniteSet(Owners)
  BY StakeAssumption
<1>5. Total(g) + f[o] = Total(f) + v /\ f[o] \in Nat /\ f[o] <= Total(f)
  BY <1>3, <1>4, SetsTotal
<1>6. ASSUME NEW x \in Fps \ {fp} PROVE HeldOf(t, x) = HeldOf(s, x)
  <2>1. ASSUME NEW p \in Owners PROVE t[<<p, x>>] = s[<<p, x>>]
    <3>1. <<p, x>> \in Owners \X Fps /\ <<p, x>> # <<o, fp>>
      OBVIOUS
    <3> QED
      BY <1>0, <3>1
  <2> QED
    BY <2>1, HeldSame
<1>7. Total(f) = HeldOf(s, fp) /\ Total(g) = HeldOf(t, fp)
  BY DEF HeldOf, f, g
<1> QED
  BY <1>2, <1>5, <1>6, <1>7

\* At first there are balances only.
LEMMA StakeStart == ASSUME StakeInit PROVE StakeInv
<1> DEFINE z == [fp \in Fps |-> 0]
           y == [k \in Owners \X Fps |-> 0]
           K == Owners \X Fps
<1>1. StakeType
  BY StakeAssumption DEF StakeType, StakeInit
<1>2. Total(balance) = InitialBalance * Cardinality(Owners) /\ Cardinality(Owners) \in Nat
  <2>1. Total([o \in Owners |-> InitialBalance]) = Cardinality(Owners) * InitialBalance
    BY StakeAssumption, TotalConstant
  <2>2. Cardinality(Owners) \in Nat
    BY StakeAssumption, FS_CardinalityType
  <2> QED
    BY <2>1, <2>2, StakeAssumption DEF StakeInit
<1>3. \A S : IsFiniteSet(S) => Total([x \in S |-> 0]) = 0
  <2> SUFFICES ASSUME NEW S, IsFiniteSet(S) PROVE Total([x \in S |-> 0]) = 0
    OBVIOUS
  <2>1. Total([x \in S |-> 0]) = Cardinality(S) * 0 /\ Cardinality(S) \in Nat
    BY TotalConstant, FS_CardinalityType
  <2> QED
    BY <2>1
<1>4. Total(validatorStakes) = 0
  BY <1>3, StakeAssumption DEF StakeInit
<1>5. Total(credits) = 0
  <2>1. IsFiniteSet(K)
    BY StakeAssumption, FS_Product
  <2>2. Total([x \in K |-> 0]) = 0
    BY <1>3, <2>1
  <2> QED
    BY <2>2 DEF StakeInit
<1>6. StakeConserved
  BY <1>2, <1>4, <1>5, StakeAssumption DEF StakeConserved, StakeInit
<1>7. SharesBacked
  <2> SUFFICES ASSUME NEW fp \in Fps PROVE validatorStakes[fp] = Total([o \in Owners |-> shares[o, fp]]) + unowned[fp]
    BY DEF SharesBacked
  <2>1. [o \in Owners |-> shares[o, fp]] = [x \in Owners |-> 0]
    BY DEF StakeInit
  <2>2. Total([x \in Owners |-> 0]) = 0
    BY <1>3, StakeAssumption
  <2>3. validatorStakes[fp] = 0 /\ unowned[fp] = 0
    BY DEF StakeInit
  <2> DEFINE n == Total([o \in Owners |-> shares[o, fp]])
  <2>4. n = 0
    BY <2>1, <2>2
  <2> HIDE DEF n
  <2>5. validatorStakes[fp] = n + unowned[fp]
    BY <2>3, <2>4
  <2> QED
    BY <2>5 DEF n
<1> QED
  BY <1>1, <1>6, <1>7 DEF StakeInv

\* The shares and the totals after a step.
LEMMA BackedAfter ==
  ASSUME \A fp \in Fps : validatorStakes'[fp] = HeldOf(shares', fp) + unowned'[fp]
  PROVE  SharesBacked'
BY DEF SharesBacked, HeldOf

\* The sums after a step.
LEMMA StakesAfter ==
  ASSUME Total(balance') + Total(validatorStakes') + Total(credits') + destroyed' = InitialBalance * Cardinality(Owners),
         protocolBurned' <= destroyed' + unbacked'
  PROVE  StakeConserved'
BY DEF StakeConserved

\* A step that burns nothing.
LEMMA BurnsStay ==
  ASSUME StakeInv, UNCHANGED burnVars, destroyed' \in Nat, destroyed' >= destroyed
  PROVE  protocolBurned' <= destroyed' + unbacked' /\ protocolBurned' \in Nat /\ unbacked' \in Nat
BY DEF StakeInv, StakeType, StakeConserved, burnVars

\* What the invariant says of the sums.
LEMMA StakeSums ==
  ASSUME StakeInv
  PROVE  /\ Total(balance) \in Nat /\ Total(validatorStakes) \in Nat /\ Total(credits) \in Nat /\ destroyed \in Nat
         /\ Total(balance) + Total(validatorStakes) + Total(credits) + destroyed = InitialBalance * Cardinality(Owners)
         /\ IsFiniteSet(Owners) /\ IsFiniteSet(Fps) /\ IsFiniteSet(Owners \X Fps)
         /\ \A fp \in Fps : validatorStakes[fp] = HeldOf(shares, fp) + unowned[fp]
<1>1. IsFiniteSet(Owners) /\ IsFiniteSet(Fps) /\ IsFiniteSet(Owners \X Fps)
  BY StakeAssumption, FS_Product
<1>2. Total(balance) \in Nat /\ Total(validatorStakes) \in Nat /\ destroyed \in Nat
  BY <1>1, TotalNat DEF StakeInv, StakeType
<1>3. Total(credits) \in Nat
  <2> DEFINE K == Owners \X Fps
  <2>1. IsFiniteSet(K) /\ credits \in [K -> Nat]
    BY <1>1 DEF StakeInv, StakeType
  <2> HIDE DEF K
  <2> QED
    BY <2>1, TotalNat
<1> QED
  BY <1>1, <1>2, <1>3 DEF StakeInv, StakeConserved, SharesBacked, HeldOf

\* A deposit.
LEMMA DepositKeeps ==
  ASSUME StakeInv, NEW o \in Owners, NEW fp \in Fps, NEW a \in StakeAmounts, Deposit(o, fp, a)
  PROVE  StakeInv'
<1> DEFINE m == balance[o] - a
           n == validatorStakes[fp] + a
           k == <<o, fp>>
           q == shares[k] + a
<1>1. a \in Nat /\ StakeType /\ IsFiniteSet(Owners) /\ IsFiniteSet(Fps)
  BY StakeAssumption DEF StakeInv
<1>2. /\ balance \in [Owners -> Nat] /\ validatorStakes \in [Fps -> Nat] /\ shares \in [Owners \X Fps -> Nat]
      /\ balance[o] \in Nat /\ validatorStakes[fp] \in Nat /\ shares[k] \in Nat /\ unowned \in [Fps -> Nat]
  BY <1>1 DEF StakeType
<1>3. m \in Nat /\ n \in Nat /\ q \in Nat
  BY <1>1, <1>2 DEF Deposit
<1>4. /\ balance' = [balance EXCEPT ![o] = m] /\ validatorStakes' = [validatorStakes EXCEPT ![fp] = n]
      /\ shares' = [shares EXCEPT ![k] = q] /\ UNCHANGED <<credits, commission, registered, unowned, burnVars, destroyed>>
  BY DEF Deposit
<1> HIDE DEF m, n, q
<1>41. Sets(balance', balance, Owners, o, m) /\ Sets(validatorStakes', validatorStakes, Fps, fp, n)
  BY <1>2, <1>3, <1>4 DEF Sets
<1>42. Sets(shares', shares, Owners \X Fps, k, q)
  BY <1>2, <1>3, <1>4 DEF Sets
<1>5. balance' \in [Owners -> Nat] /\ Total(balance') + balance[o] = Total(balance) + m /\ Total(balance') \in Nat
  <2>1. balance' \in [Owners -> Nat]
    BY <1>41 DEF Sets
  <2> QED
    BY <1>1, <1>41, <2>1, SetsTotal
<1>6. /\ validatorStakes' \in [Fps -> Nat] /\ validatorStakes'[fp] = n
      /\ Total(validatorStakes') + validatorStakes[fp] = Total(validatorStakes) + n /\ Total(validatorStakes') \in Nat
      /\ \A x \in Fps \ {fp} : validatorStakes'[x] = validatorStakes[x]
  <2>1. /\ validatorStakes' \in [Fps -> Nat] /\ validatorStakes'[fp] = n
        /\ \A x \in Fps \ {fp} : validatorStakes'[x] = validatorStakes[x]
    BY <1>41 DEF Sets
  <2> QED
    BY <1>1, <1>41, <2>1, SetsTotal
<1>7. /\ shares' \in [Owners \X Fps -> Nat] /\ HeldOf(shares', fp) + shares[k] = HeldOf(shares, fp) + q
      /\ \A x \in Fps \ {fp} : HeldOf(shares', x) = HeldOf(shares, x)
  <2>1. shares' \in [Owners \X Fps -> Nat]
    BY <1>42 DEF Sets
  <2>2. SetsShare(shares', shares, o, fp, q)
    BY <1>42 DEF SetsShare
  <2> QED
    BY <2>1, <2>2, HeldSet
<1>71. destroyed' = destroyed /\ destroyed \in Nat /\ UNCHANGED burnVars
  BY <1>1, <1>4 DEF StakeType
<1>72. protocolBurned' <= destroyed' + unbacked' /\ protocolBurned' \in Nat /\ unbacked' \in Nat
  BY <1>71, BurnsStay
<1>8. StakeType'
  BY <1>1, <1>4, <1>5, <1>6, <1>7, <1>72 DEF StakeType
<1>9. StakeConserved'
  <2>1. Total(balance') = Total(balance) - a
    BY <1>1, <1>2, <1>5, StakeSums DEF m
  <2>3. Total(validatorStakes') = Total(validatorStakes) + a
    <3> DEFINE x == Total(validatorStakes)
               w == Total(validatorStakes')
               u == validatorStakes[fp]
    <3>1. x \in Nat /\ u \in Nat
      BY <1>2, StakeSums
    <3>2. w + u = x + (u + a) /\ w \in Nat
      BY <1>6 DEF n
    <3> HIDE DEF x, w, u
    <3>3. w = x + a
      BY <1>1, <3>1, <3>2
    <3> QED
      BY <3>3 DEF x, w
  <2>2. Total(balance') + Total(validatorStakes') + Total(credits') + destroyed' = InitialBalance * Cardinality(Owners)
    BY <1>1, <1>4, <2>1, <2>3, StakeSums
  <2> QED
    BY <1>72, <2>2, StakesAfter
<1>10. SharesBacked'
  <2> SUFFICES ASSUME NEW x \in Fps PROVE validatorStakes'[x] = HeldOf(shares', x) + unowned'[x]
    BY BackedAfter
  <2>1. unowned'[x] = unowned[x] /\ unowned[x] \in Nat /\ validatorStakes[x] = HeldOf(shares, x) + unowned[x]
        /\ HeldOf(shares, x) \in Nat /\ HeldOf(shares', x) \in Nat
    BY <1>2, <1>4, <1>7, StakeSums, HeldOfNat
  <2>2. CASE x = fp
    BY <1>1, <1>2, <1>6, <1>7, <2>1, <2>2 DEF n, q
  <2>3. CASE x # fp
    BY <1>6, <1>7, <2>1, <2>3
  <2> QED
    BY <2>2, <2>3
<1> QED
  BY <1>8, <1>9, <1>10 DEF StakeInv

\* Nothing but the commission or the registry changes.
LEMMA StakesSame ==
  ASSUME StakeInv, UNCHANGED <<balance, validatorStakes, shares, credits, unowned, burnVars, destroyed>>,
         commission' \in [Fps -> 0 .. CommissionScale], registered' \subseteq Fps
  PROVE  StakeInv'
BY DEF StakeInv, StakeType, StakeConserved, SharesBacked, burnVars

\* Rewards are withdrawn.
LEMMA WithdrawRewardsKeeps ==
  ASSUME StakeInv, NEW o \in Owners, NEW fp \in Fps, WithdrawRewards(o, fp)
  PROVE  StakeInv'
<1> DEFINE K == Owners \X Fps
           k == <<o, fp>>
           m == balance[o] + credits[k]
<1>1. StakeType /\ k \in K /\ credits \in [K -> Nat] /\ IsFiniteSet(K) /\ IsFiniteSet(Owners) /\ credits[k] \in Nat
  BY StakeSums DEF StakeInv, StakeType
<1>2. balance \in [Owners -> Nat] /\ balance[o] \in Nat /\ m \in Nat
  BY <1>1 DEF StakeType
<1>3. /\ balance' = [balance EXCEPT ![o] = m] /\ credits' = [credits EXCEPT ![k] = 0]
      /\ UNCHANGED <<validatorStakes, shares, commission, registered, unowned, burnVars, destroyed>>
  BY DEF WithdrawRewards
<1> HIDE DEF m, k, K
<1>41. Sets(balance', balance, Owners, o, m) /\ balance' \in [Owners -> Nat]
  BY <1>2, <1>3 DEF Sets
<1>42. Sets(credits', credits, K, k, 0) /\ credits' \in [K -> Nat]
  BY <1>1, <1>3 DEF Sets
<1>4. balance' \in [Owners -> Nat] /\ Total(balance') + balance[o] = Total(balance) + m /\ Total(balance') \in Nat
  BY <1>1, <1>41, SetsTotal
<1>5. credits' \in [K -> Nat] /\ Total(credits') + credits[k] = Total(credits) + 0 /\ Total(credits') \in Nat
  BY <1>1, <1>42, SetsTotal
<1>51. destroyed' = destroyed /\ destroyed \in Nat /\ UNCHANGED burnVars
  BY <1>1, <1>3 DEF StakeType
<1>52. protocolBurned' <= destroyed' + unbacked' /\ protocolBurned' \in Nat /\ unbacked' \in Nat
  BY <1>51, BurnsStay
<1>6. StakeType'
  BY <1>1, <1>3, <1>4, <1>5, <1>52 DEF StakeType, K
<1>7. StakeConserved'
  <2>1. Total(balance') = Total(balance) + credits[k] /\ Total(credits') = Total(credits) - credits[k]
    BY <1>1, <1>2, <1>4, <1>5, StakeSums DEF m
  <2>2. Total(balance') + Total(validatorStakes') + Total(credits') + destroyed' = InitialBalance * Cardinality(Owners)
    BY <1>1, <1>3, <2>1, StakeSums
  <2> QED
    BY <1>52, <2>2, StakesAfter
<1>8. SharesBacked'
  BY <1>3 DEF StakeInv, SharesBacked
<1> QED
  BY <1>6, <1>7, <1>8 DEF StakeInv

\* Stake is moved from one validator to another; the total always covers the share.
LEMMA RedelegateKeeps ==
  ASSUME StakeInv, NEW o \in Owners, NEW from \in Fps, NEW to \in Fps, NEW a \in StakeAmounts, Redelegate(o, from, to, a)
  PROVE  StakeInv'
<1> DEFINE f == <<o, from>>
           t == <<o, to>>
           v1 == validatorStakes[from] - a
           v2 == validatorStakes[to] + a
           s1 == shares[f] - a
           s2 == shares[t] + a
           mid == [validatorStakes EXCEPT ![from] = v1]
           half == [shares EXCEPT ![f] = s1]
<1>1. a \in Nat /\ StakeType /\ from # to /\ shares[f] >= a /\ IsFiniteSet(Fps) /\ f # t
  BY StakeAssumption DEF StakeInv, Redelegate
<1>2. /\ validatorStakes \in [Fps -> Nat] /\ shares \in [Owners \X Fps -> Nat] /\ unowned \in [Fps -> Nat]
      /\ shares[f] \in Nat /\ shares[t] \in Nat /\ validatorStakes[from] \in Nat /\ validatorStakes[to] \in Nat
      /\ unowned[from] \in Nat
  BY <1>1 DEF StakeType
<1>3. s1 \in Nat /\ s2 \in Nat /\ v2 \in Nat
  BY <1>1, <1>2
<1> HIDE DEF s1, s2
<1>4. /\ half \in [Owners \X Fps -> Nat] /\ half[t] = shares[t]
      /\ HeldOf(half, from) + shares[f] = HeldOf(shares, from) + s1 /\ shares[f] <= HeldOf(shares, from)
      /\ \A x \in Fps \ {from} : HeldOf(half, x) = HeldOf(shares, x)
  <2>1. Sets(half, shares, Owners \X Fps, f, s1)
    BY <1>2, <1>3 DEF Sets
  <2>2. half \in [Owners \X Fps -> Nat] /\ half[t] = shares[t]
    BY <1>1, <1>2, <1>3
  <2> HIDE DEF half
  <2>3. SetsShare(half, shares, o, from, s1)
    BY <2>1 DEF SetsShare
  <2> QED
    BY <2>2, <2>3, HeldSet
<1>5. validatorStakes[from] >= a
  <2>1. validatorStakes[from] = HeldOf(shares, from) + unowned[from] /\ HeldOf(shares, from) \in Nat
    BY <1>2, StakeSums, HeldOfNat
  <2>2. shares[f] <= HeldOf(shares, from)
    BY <1>4
  <2> HIDE DEF f, t
  <2> QED
    BY <1>1, <1>2, <2>1, <2>2
<1>6. v1 \in Nat
  BY <1>1, <1>2, <1>5
<1>7. shares' = [half EXCEPT ![t] = s2] /\ validatorStakes' = [mid EXCEPT ![to] = v2]
      /\ UNCHANGED <<balance, credits, commission, registered, unowned, burnVars, destroyed>>
  <2>1. /\ shares' = [shares EXCEPT ![f] = @ - a, ![t] = @ + a]
        /\ validatorStakes' = [validatorStakes EXCEPT ![from] = @ - a, ![to] = @ + a]
        /\ UNCHANGED <<balance, credits, commission, registered, unowned, burnVars, destroyed>>
    BY <1>5 DEF Redelegate
  <2>2. shares' = [half EXCEPT ![t] = s2]
    BY <1>1, <1>2, <2>1 DEF s1, s2
  <2>3. validatorStakes' = [mid EXCEPT ![to] = v2]
    BY <1>1, <1>2, <2>1
  <2> QED
    BY <2>1, <2>2, <2>3
<1> HIDE DEF v1, v2
<1>8. /\ mid \in [Fps -> Nat] /\ mid[from] = v1 /\ mid[to] = validatorStakes[to]
      /\ \A x \in Fps \ {from} : mid[x] = validatorStakes[x]
      /\ Total(mid) + validatorStakes[from] = Total(validatorStakes) + v1 /\ Total(mid) \in Nat
  <2>1. Sets(mid, validatorStakes, Fps, from, v1) /\ mid[from] = v1 /\ mid[to] = validatorStakes[to]
    BY <1>1, <1>2, <1>6 DEF Sets
  <2>2. mid \in [Fps -> Nat] /\ \A x \in Fps \ {from} : mid[x] = validatorStakes[x]
    BY <2>1 DEF Sets
  <2> HIDE DEF mid
  <2> QED
    BY <1>1, <2>1, <2>2, SetsTotal
<1> HIDE DEF mid, half
<1>9. /\ validatorStakes' \in [Fps -> Nat] /\ validatorStakes'[to] = v2 /\ validatorStakes'[from] = v1
      /\ \A x \in Fps \ {to} : validatorStakes'[x] = mid[x]
      /\ Total(validatorStakes') + mid[to] = Total(mid) + v2 /\ Total(validatorStakes') \in Nat
  <2>1. Sets(validatorStakes', mid, Fps, to, v2) /\ validatorStakes'[from] = mid[from]
    BY <1>1, <1>3, <1>7, <1>8 DEF Sets
  <2>2. /\ validatorStakes' \in [Fps -> Nat] /\ validatorStakes'[to] = v2
        /\ \A x \in Fps \ {to} : validatorStakes'[x] = mid[x]
    BY <2>1 DEF Sets
  <2> QED
    BY <1>1, <1>8, <2>1, <2>2, SetsTotal
<1>10. /\ shares' \in [Owners \X Fps -> Nat]
       /\ HeldOf(shares', to) + half[t] = HeldOf(half, to) + s2
       /\ \A x \in Fps \ {to} : HeldOf(shares', x) = HeldOf(half, x)
  <2>1. Sets(shares', half, Owners \X Fps, t, s2)
    BY <1>3, <1>4, <1>7 DEF Sets
  <2>2. shares' \in [Owners \X Fps -> Nat]
    BY <2>1 DEF Sets
  <2>3. SetsShare(shares', half, o, to, s2)
    BY <2>1 DEF SetsShare
  <2> QED
    BY <2>2, <2>3, HeldSet
<1>101. destroyed' = destroyed /\ destroyed \in Nat /\ UNCHANGED burnVars
  BY <1>1, <1>7 DEF StakeType
<1>102. protocolBurned' <= destroyed' + unbacked' /\ protocolBurned' \in Nat /\ unbacked' \in Nat
  BY <1>101, BurnsStay
<1>11. StakeType'
  BY <1>1, <1>7, <1>9, <1>10, <1>102 DEF StakeType
<1>12. StakeConserved'
  <2>1. Total(validatorStakes') = Total(validatorStakes)
    <3> DEFINE x == Total(validatorStakes)
               y == Total(mid)
               w == Total(validatorStakes')
    <3>1. x \in Nat
      BY StakeSums
    <3>2. y + validatorStakes[from] = x + (validatorStakes[from] - a) /\ y \in Nat
      BY <1>8 DEF v1
    <3>3. w + validatorStakes[to] = y + (validatorStakes[to] + a) /\ w \in Nat
      BY <1>8, <1>9 DEF v2
    <3> HIDE DEF x, y, w
    <3>4. w = x
      BY <1>1, <1>2, <3>1, <3>2, <3>3
    <3> QED
      BY <3>4 DEF x, w
  <2>2. Total(balance') + Total(validatorStakes') + Total(credits') + destroyed' = InitialBalance * Cardinality(Owners)
    BY <1>7, <2>1, StakeSums
  <2> QED
    BY <1>102, <2>2, StakesAfter
<1> HIDE DEF f, t
<1>13. SharesBacked'
  <2> SUFFICES ASSUME NEW x \in Fps PROVE validatorStakes'[x] = HeldOf(shares', x) + unowned'[x]
    BY BackedAfter
  <2>1. unowned'[x] = unowned[x] /\ unowned[x] \in Nat /\ validatorStakes[x] = HeldOf(shares, x) + unowned[x]
        /\ HeldOf(shares, x) \in Nat /\ HeldOf(shares', x) \in Nat /\ HeldOf(half, x) \in Nat
    BY <1>2, <1>4, <1>7, <1>10, StakeSums, HeldOfNat
  <2>2. CASE x = from
    <3>1. HeldOf(shares', x) = HeldOf(half, x) /\ validatorStakes'[x] = v1
      BY <1>1, <1>9, <1>10, <2>2
    <3> QED
      BY <1>1, <1>2, <1>4, <2>1, <2>2, <3>1 DEF v1, s1
  <2>3. CASE x = to
    <3>1. HeldOf(half, x) = HeldOf(shares, x) /\ validatorStakes'[x] = v2
      BY <1>1, <1>4, <1>9, <2>3
    <3> QED
      BY <1>1, <1>2, <1>4, <1>10, <2>1, <2>3, <3>1 DEF v2, s2
  <2>4. CASE x # from /\ x # to
    BY <1>4, <1>8, <1>9, <1>10, <2>1, <2>4
  <2> QED
    BY <2>2, <2>3, <2>4
<1> QED
  BY <1>11, <1>12, <1>13 DEF StakeInv
-----------------------------------------------------------------------------
\* Zeros add up to zero.
LEMMA TotalZero == ASSUME NEW S, IsFiniteSet(S), NEW f, f = [x \in S |-> 0] PROVE Total(f) = 0
<1>1. Total([x \in S |-> 0]) = Cardinality(S) * 0 /\ Cardinality(S) \in Nat
  BY TotalConstant, FS_CardinalityType
<1> QED
  BY <1>1

\* A grid adds up by what fingerprints have.
LEMMA GridHeld ==
  ASSUME NEW f \in [Owners \X Fps -> Nat]
  PROVE  /\ Total(f) = Total([fp \in Fps |-> HeldOf(f, fp)])
         /\ [fp \in Fps |-> HeldOf(f, fp)] \in [Fps -> Nat]
<1>1. Total(f) = Total(Columns(f, Owners, Fps)) /\ Columns(f, Owners, Fps) \in [Fps -> Nat]
  <2>1. IsFiniteSet(Owners) /\ IsFiniteSet(Fps)
    BY StakeAssumption
  <2>2. /\ Total(f) = Total(Columns(f, Owners, Fps)) /\ Columns(f, Owners, Fps) \in [Fps -> Nat]
        /\ IsFiniteSet(Owners \X Fps)
    BY <2>1, GridTotal
  <2> QED
    BY <2>2
<1>2. Columns(f, Owners, Fps) = [fp \in Fps |-> HeldOf(f, fp)]
  BY DEF Columns, HeldOf
<1> QED
  BY <1>1, <1>2

\* A slash takes a validator's stake, its shares and its credits.
LEMMA SlashStakeKeeps == ASSUME StakeInv, NEW fp \in Fps, SlashStake(fp) PROVE StakeInv'
<1> DEFINE c == [x \in Fps |-> HeldOf(credits, x)]
           d == [x \in Fps |-> HeldOf(credits', x)]
<1>1. StakeType /\ IsFiniteSet(Owners) /\ IsFiniteSet(Fps)
  BY StakeAssumption DEF StakeInv
<1>2. /\ validatorStakes' = [validatorStakes EXCEPT ![fp] = 0]
      /\ shares' = [k \in Owners \X Fps |-> IF k[2] = fp THEN 0 ELSE shares[k]]
      /\ credits' = [k \in Owners \X Fps |-> IF k[2] = fp THEN 0 ELSE credits[k]]
      /\ commission' = [commission EXCEPT ![fp] = 0] /\ registered' = registered \ {fp}
      /\ unowned' = [unowned EXCEPT ![fp] = 0] /\ balance' = balance
      /\ destroyed' = destroyed + validatorStakes[fp] + HeldOf(credits, fp)
  BY DEF SlashStake, HeldOf
<1>3. shares' \in [Owners \X Fps -> Nat] /\ credits' \in [Owners \X Fps -> Nat]
  BY <1>1, <1>2 DEF StakeType
<1>4. Sets(validatorStakes', validatorStakes, Fps, fp, 0) /\ Sets(unowned', unowned, Fps, fp, 0)
  BY <1>1, <1>2 DEF StakeType, Sets
<1>5. ASSUME NEW s, NEW t, t = [k \in Owners \X Fps |-> IF k[2] = fp THEN 0 ELSE s[k]]
      PROVE  HeldOf(t, fp) = 0 /\ \A x \in Fps \ {fp} : HeldOf(t, x) = HeldOf(s, x)
  <2>1. ASSUME NEW x \in Fps \ {fp} PROVE HeldOf(t, x) = HeldOf(s, x)
    <3>1. ASSUME NEW p \in Owners PROVE t[<<p, x>>] = s[<<p, x>>]
      <4>1. <<p, x>> \in Owners \X Fps /\ <<p, x>>[2] # fp
        OBVIOUS
      <4> QED
        BY <1>5, <4>1
    <3> QED
      BY <3>1, HeldSame
  <2>2. [p \in Owners |-> t[p, fp]] = [p \in Owners |-> 0]
    <3>1. ASSUME NEW p \in Owners PROVE t[<<p, fp>>] = 0
      <4>1. <<p, fp>> \in Owners \X Fps /\ <<p, fp>>[2] = fp
        OBVIOUS
      <4> QED
        BY <1>5, <4>1
    <3> QED
      BY <3>1
  <2>3. Total([p \in Owners |-> t[p, fp]]) = 0
    BY <1>1, <2>2, TotalZero
  <2> QED
    BY <2>1, <2>3 DEF HeldOf
<1>6. HeldOf(shares', fp) = 0 /\ \A x \in Fps \ {fp} : HeldOf(shares', x) = HeldOf(shares, x)
  BY <1>2, <1>5
<1>7. HeldOf(credits', fp) = 0 /\ \A x \in Fps \ {fp} : HeldOf(credits', x) = HeldOf(credits, x)
  BY <1>2, <1>5
<1>8. c \in [Fps -> Nat] /\ d \in [Fps -> Nat] /\ Total(credits) = Total(c) /\ Total(credits') = Total(d)
  BY <1>1, <1>3, GridHeld DEF StakeType
<1>9. Sets(d, c, Fps, fp, 0) /\ c[fp] = HeldOf(credits, fp)
  BY <1>7, <1>8 DEF Sets
<1> HIDE DEF c, d
<1>10. Total(d) + c[fp] = Total(c) + 0 /\ Total(d) \in Nat /\ Total(c) \in Nat /\ c[fp] \in Nat
  BY <1>1, <1>9, SetsTotal
<1>11. /\ Total(validatorStakes') + validatorStakes[fp] = Total(validatorStakes) + 0 /\ Total(validatorStakes') \in Nat
       /\ validatorStakes[fp] \in Nat
  BY <1>1, <1>4, SetsTotal
<1>12. validatorStakes' \in [Fps -> Nat] /\ unowned' \in [Fps -> Nat] /\ destroyed' \in Nat
  BY <1>1, <1>2, <1>4, <1>9, <1>10, <1>11 DEF Sets, StakeType
<1>13. commission' \in [Fps -> 0 .. CommissionScale] /\ registered' \subseteq Fps
  BY <1>1, <1>2, StakeAssumption DEF StakeType
<1>131. protocolBurned' <= destroyed' + unbacked' /\ protocolBurned' \in Nat /\ unbacked' \in Nat
  <2>1. destroyed' >= destroyed
    BY <1>1, <1>2, <1>9, <1>10, <1>11 DEF StakeType
  <2>2. UNCHANGED burnVars
    BY DEF SlashStake
  <2> QED
    BY <1>12, <2>1, <2>2, BurnsStay
<1>14. StakeType'
  BY <1>1, <1>2, <1>3, <1>12, <1>13, <1>131 DEF StakeType
<1>15. StakeConserved'
  <2> DEFINE b == Total(balance)
             v == Total(validatorStakes)
             w == Total(validatorStakes')
             u == validatorStakes[fp]
             e == Total(credits)
             g == Total(credits')
             h == HeldOf(credits, fp)
             z == InitialBalance * Cardinality(Owners)
  <2>1. b \in Nat /\ v \in Nat /\ e \in Nat /\ destroyed \in Nat /\ b + v + e + destroyed = z
    BY StakeSums
  <2>2. w + u = v /\ w \in Nat /\ u \in Nat
    BY <1>11, <2>1
  <2>3. g + h = e /\ g \in Nat /\ h \in Nat
    BY <1>8, <1>9, <1>10
  <2>4. destroyed' = destroyed + u + h /\ Total(balance') = b
    BY <1>2
  <2> HIDE DEF b, v, w, u, e, g, h, z
  <2>5. b + w + g + destroyed' = z
    BY <2>1, <2>2, <2>3, <2>4
  <2>6. Total(balance') + Total(validatorStakes') + Total(credits') + destroyed' = InitialBalance * Cardinality(Owners)
    BY <2>4, <2>5 DEF w, g, z
  <2> QED
    BY <1>131, <2>6, StakesAfter
<1>16. SharesBacked'
  <2> SUFFICES ASSUME NEW x \in Fps PROVE validatorStakes'[x] = HeldOf(shares', x) + unowned'[x]
    BY BackedAfter
  <2>1. validatorStakes[x] = HeldOf(shares, x) + unowned[x]
    BY StakeSums
  <2>2. CASE x = fp
    BY <1>4, <1>6, <2>2 DEF Sets
  <2>3. CASE x # fp
    BY <1>4, <1>6, <2>1, <2>3 DEF Sets
  <2> QED
    BY <2>2, <2>3
<1> QED
  BY <1>14, <1>15, <1>16 DEF StakeInv

\* The portions of a block reward add up to it.
LEMMA PortionsAdd ==
  ASSUME StakeType, NEW paid \in SUBSET (Fps \cup Outside), paid # {}, NEW reward \in Nat
  PROVE  /\ [fp \in Fps \cup Outside |-> Portion(fp, paid, reward)] \in [Fps \cup Outside -> Nat]
         /\ Total([fp \in Fps \cup Outside |-> Portion(fp, paid, reward)]) = reward
<1> DEFINE F == Fps \cup Outside
           w == [f \in paid |-> IF f \in Fps /\ validatorStakes[f] > 1 THEN validatorStakes[f] ELSE 1]
           whole == Total(w)
           p == [f \in paid |-> (reward * w[f]) \div whole]
           last == CHOOSE f \in paid : \A g \in paid : g <= f
           g == WithRest(p, paid, reward, last)
           all == [fp \in F |-> Portion(fp, paid, reward)]
<1>1. IsFiniteSet(paid) /\ paid \subseteq Nat /\ IsFiniteSet(F)
  BY StakeAssumption, FS_Union, FS_Subset
<1>2. last \in paid
  BY <1>1, LargestExists
<1>3. w \in [paid -> Nat] /\ \A f \in paid : w[f] >= 1
  BY DEF StakeType
<1>4. all = [fp \in F |-> IF fp \notin paid THEN 0 ELSE IF fp # last THEN p[fp]
                            ELSE Minus(reward, Total([f \in paid \ {fp} |-> p[f]]))]
  BY DEF Portion
<1>5. \A fp \in paid : g[fp] = IF fp # last THEN p[fp] ELSE Minus(reward, Total([f \in paid \ {fp} |-> p[f]]))
  BY DEF WithRest
<1> HIDE DEF w, last
<1>6. whole \in Nat /\ w[last] <= whole /\ w[last] \in Nat /\ w[last] >= 1
  BY <1>1, <1>2, <1>3, TotalNat, TotalAtLeast
<1>7. whole \in Nat \ {0}
  BY <1>6
<1> HIDE DEF whole
<1>8. Floors(p, w, paid, reward, whole)
  <2>1. \A f \in paid : (reward * w[f]) \div whole \in Nat
    BY <1>3, <1>7
  <2> QED
    BY <1>3, <2>1 DEF Floors
<1> HIDE DEF p
<1>9. g \in [paid -> Nat] /\ Total(g) = reward
  <2>1. Total(w) <= whole
    BY <1>6 DEF whole
  <2> QED
    BY <1>1, <1>2, <1>7, <1>8, <2>1, SplitsWhole
<1>10. (\A fp \in paid : all[fp] = g[fp]) /\ \A fp \in F \ paid : all[fp] = 0
  BY <1>4, <1>5
<1>11. all = [fp \in F |-> all[fp]]
  OBVIOUS
<1> HIDE DEF g, all
<1>12. all \in [F -> Nat]
  BY <1>9, <1>10, <1>11
<1>13. ZeroBeyond(all, g, F, paid)
  BY <1>9, <1>10, <1>12 DEF ZeroBeyond
<1>14. Total(all) = Total(g)
  BY <1>1, <1>13, TotalOn
<1> QED
  BY <1>9, <1>12, <1>14 DEF all

\* What a reward gives to validators, and what to nobody.
LEMMA PortionsSplit ==
  ASSUME StakeType, NEW paid \in SUBSET (Fps \cup Outside), NEW reward \in Nat
  PROVE  /\ [fp \in Fps |-> Portion(fp, paid, reward)] \in [Fps -> Nat]
         /\ ToNobody(paid, reward) \in Nat /\ Total([fp \in Fps |-> Portion(fp, paid, reward)]) \in Nat
         /\ Total([fp \in Fps |-> Portion(fp, paid, reward)]) + ToNobody(paid, reward) = reward
<1> DEFINE f == [x \in Fps |-> Portion(x, paid, reward)]
           g == [x \in Outside |-> Portion(x, paid, reward)]
           all == [x \in Fps \cup Outside |-> Portion(x, paid, reward)]
<1>1. IsFiniteSet(Fps) /\ IsFiniteSet(Outside) /\ Fps \cap Outside = {} /\ Fps \subseteq Nat
  BY StakeAssumption
<1>2. CASE paid = {}
  <2>1. f = [x \in Fps |-> 0]
    BY <1>2 DEF Portion
  <2>2. Total([x \in Fps |-> 0]) = Cardinality(Fps) * 0 /\ Cardinality(Fps) \in Nat
    BY <1>1, TotalConstant, FS_CardinalityType
  <2>3. Total(f) = 0 /\ f \in [Fps -> Nat]
    BY <2>1, <2>2
  <2> QED
    BY <1>2, <2>3 DEF ToNobody
<1>3. CASE paid # {}
  <2>1. all \in [Fps \cup Outside -> Nat] /\ Total(all) = reward
    BY <1>3, PortionsAdd
  <2>2. (\A x \in Fps : f[x] = all[x]) /\ \A x \in Outside : g[x] = all[x]
    OBVIOUS
  <2>3. f = [x \in Fps |-> f[x]] /\ g = [x \in Outside |-> g[x]] /\ ToNobody(paid, reward) = Total(g)
    BY <1>3 DEF ToNobody
  <2> HIDE DEF f, g, all
  <2>4. f \in [Fps -> Nat] /\ g \in [Outside -> Nat]
    BY <2>1, <2>2, <2>3
  <2>5. Total(f) = SumOf(all, Fps) /\ Total(g) = SumOf(all, Outside) /\ Total(all) = SumOf(all, Fps \cup Outside)
    <3>1. Total(f) = SumOf(f, Fps) /\ Total(g) = SumOf(g, Outside)
      BY <2>3, TotalSum
    <3>2. SumOf(f, Fps) = SumOf(all, Fps) /\ SumOf(g, Outside) = SumOf(all, Outside)
      BY <1>1, <2>2, SumEqual
    <3>3. all = [x \in Fps \cup Outside |-> all[x]]
      BY <2>1
    <3> QED
      BY <3>1, <3>2, <3>3, TotalSum
  <2>6. SumOf(all, Fps \cup Outside) = SumOf(all, Fps) + SumOf(all, Outside)
    <3>1. \A x \in Fps \cup Outside : all[x] \in Nat
      BY <2>1
    <3> QED
      BY <1>1, <3>1, SumDisjoint
  <2>7. Total(f) \in Nat /\ Total(g) \in Nat
    BY <1>1, <2>4, TotalNat
  <2> QED
    BY <2>1, <2>3, <2>4, <2>5, <2>6, <2>7 DEF f
<1> QED
  BY <1>2, <1>3

\* A commission is a part of the reward.
LEMMA CutIs ==
  ASSUME StakeType, NEW fp \in Fps, NEW r \in Nat
  PROVE  PaidCut(fp, r) \in Nat /\ PaidCut(fp, r) <= r
<1> DEFINE c == commission[fp]
           q == (r * c) \div CommissionScale
<1>1. c \in Nat /\ c <= CommissionScale /\ CommissionScale \in Nat \ {0}
  BY StakeAssumption DEF StakeType
<1>2. PaidCut(fp, r) = 0 \/ PaidCut(fp, r) = q
  BY DEF PaidCut, Cut
<1> HIDE DEF c
<1>3. r * c \in Nat
  BY <1>1
<1>4. q \in Nat /\ q * CommissionScale <= r * c
  BY <1>1, <1>3, FloorIs
<1>5. r * c <= r * CommissionScale
  BY <1>1, Grows
<1> HIDE DEF q
<1>6. q * CommissionScale <= r * CommissionScale
  <2>1. q * CommissionScale \in Nat /\ r * CommissionScale \in Nat
    BY <1>1, <1>4
  <2> QED
    BY <1>3, <1>4, <1>5, <2>1
<1>7. q <= r
  BY <1>1, <1>4, <1>6, Cancels
<1> QED
  BY <1>2, <1>4, <1>7

\* What the shareholders of a fingerprint get of a reward.
SharesOf(fp, net) == [o \in Owners |-> IF o \in Holders(fp) /\ net > 0 THEN ShareOf(o, fp, net) ELSE 0]

\* They get all of it.
LEMMA SharesAdd ==
  ASSUME StakeInv, NEW fp \in Fps, Holders(fp) # {}, NEW net \in Nat
  PROVE  SharesOf(fp, net) \in [Owners -> Nat] /\ Total(SharesOf(fp, net)) = net
<1> DEFINE H == Holders(fp)
           col == [o \in Owners |-> shares[o, fp]]
           w == [o \in H |-> shares[o, fp]]
           whole == validatorStakes[fp]
           p == [o \in H |-> (net * w[o]) \div whole]
           last == LastHolder(fp)
           g == WithRest(p, H, net, last)
           all == SharesOf(fp, net)
<1>0. StakeType
  BY DEF StakeInv
<1>1. H \subseteq Owners /\ IsFiniteSet(Owners) /\ IsFiniteSet(H) /\ H \subseteq Nat /\ H # {}
  BY StakeAssumption, FS_Subset DEF Holders
<1>2. last \in H
  <2> HIDE DEF H
  <2>1. \E o \in H : \A q \in H : q <= o
    BY <1>1, LargestExists
  <2> QED
    BY <2>1 DEF LastHolder, H
<1>3. w \in [H -> Nat] /\ col \in [Owners -> Nat] /\ \A o \in H : w[o] > 0 /\ w[o] <= col[o]
  <2>1. ASSUME NEW o \in Owners PROVE shares[o, fp] \in Nat
    BY <1>0 DEF StakeType
  <2>2. ASSUME NEW o \in H PROVE o \in Owners /\ shares[o, fp] > 0
    BY DEF Holders
  <2>3. col \in [Owners -> Nat] /\ \A o \in Owners : col[o] = shares[o, fp]
    BY <2>1
  <2>4. \A o \in H : w[o] = shares[o, fp]
    OBVIOUS
  <2>5. w \in [H -> Nat]
    BY <2>1, <2>2
  <2> HIDE DEF H, w, col
  <2>6. ASSUME NEW o \in H PROVE w[o] > 0 /\ w[o] <= col[o]
    <3>1. w[o] = shares[o, fp] /\ col[o] = shares[o, fp] /\ col[o] \in Nat /\ shares[o, fp] > 0
      BY <2>2, <2>3, <2>4
    <3>2. w[o] = col[o] /\ w[o] > 0
      BY <3>1
    <3>3. col[o] \in Nat
      BY <3>1
    <3>4. col[o] <= col[o]
      BY <3>3
    <3> QED
      BY <3>2, <3>4
  <2> QED
    BY <2>3, <2>5, <2>6
<1>4. all = [o \in Owners |-> IF o \in H /\ net > 0 THEN
                                (IF o # last THEN p[o] ELSE Minus(net, Total([y \in H \ {o} |-> p[y]]))) ELSE 0]
  <2>1. \A o \in H : w[o] = shares[o, fp]
    OBVIOUS
  <2>2. p = [o \in H |-> (net * shares[o, fp]) \div validatorStakes[fp]]
    OBVIOUS
  <2>3. \A o \in H : ShareOf(o, fp, net) = IF o # last THEN p[o] ELSE Minus(net, Total([y \in H \ {o} |-> p[y]]))
    <3>1. ASSUME NEW o \in H
          PROVE  ShareOf(o, fp, net) = IF o # last THEN p[o] ELSE Minus(net, Total([y \in H \ {o} |-> p[y]]))
      <4> DEFINE cuts == [x \in H |-> (net * shares[x, fp]) \div validatorStakes[fp]]
      <4>1. ShareOf(o, fp, net) = IF o # last THEN cuts[o] ELSE Minus(net, Total([y \in H \ {o} |-> cuts[y]]))
        BY DEF ShareOf
      <4>2. cuts = p
        BY <2>2
      <4> HIDE DEF cuts, p
      <4> QED
        BY <4>1, <4>2
    <3> QED
      BY <3>1
  <2> HIDE DEF p, last
  <2> QED
    BY <2>3 DEF SharesOf
<1>5. \A o \in H : g[o] = IF o # last THEN p[o] ELSE Minus(net, Total([y \in H \ {o} |-> p[y]]))
  BY DEF WithRest
<1>6. HeldOf(shares, fp) = Total(col)
  BY DEF HeldOf
<1> HIDE DEF H, w, col, last
<1>7. Total(w) <= Total(col) /\ Total(w) \in Nat /\ Total(col) \in Nat /\ w[last] <= Total(w) /\ w[last] > 0 /\ w[last] \in Nat
  <2>1. Total(w) \in Nat /\ Total(col) \in Nat
    BY <1>1, <1>3, TotalNat
  <2>2. w[last] <= Total(w) /\ w[last] > 0 /\ w[last] \in Nat
    BY <1>1, <1>2, <1>3, TotalAtLeast
  <2>3. Total(w) <= Total(col)
    BY <1>1, <1>3, TotalLess
  <2> QED
    BY <2>1, <2>2, <2>3
<1>8. whole = Total(col) + unowned[fp] /\ unowned[fp] \in Nat
  BY <1>0, <1>6, StakeSums DEF StakeType
<1> HIDE DEF whole
<1>9. whole \in Nat \ {0} /\ Total(w) <= whole
  BY <1>7, <1>8
<1>10. Floors(p, w, H, net, whole)
  <2>1. \A o \in H : (net * w[o]) \div whole \in Nat
    BY <1>3, <1>9
  <2> QED
    BY <1>3, <2>1 DEF Floors
<1> HIDE DEF p
<1>11. g \in [H -> Nat] /\ Total(g) = net
  BY <1>1, <1>2, <1>9, <1>10, SplitsWhole
<1>12. CASE net = 0
  <2>1. all = [o \in Owners |-> 0]
    BY <1>4, <1>12
  <2>2. Total(all) = 0
    BY <1>1, <2>1, TotalZero
  <2> QED
    BY <1>12, <2>1, <2>2
<1>13. CASE net > 0
  <2>1. (\A o \in H : all[o] = g[o]) /\ \A o \in Owners \ H : all[o] = 0
    BY <1>1, <1>4, <1>5, <1>13
  <2>2. all = [o \in Owners |-> all[o]]
    BY DEF SharesOf
  <2> HIDE DEF g, all
  <2>3. all \in [Owners -> Nat]
    BY <1>11, <2>1, <2>2
  <2>4. ZeroBeyond(all, g, Owners, H)
    BY <1>1, <1>11, <2>1, <2>3 DEF ZeroBeyond
  <2>5. Total(all) = Total(g)
    BY <1>1, <2>4, TotalOn
  <2> QED
    BY <1>11, <2>3, <2>5 DEF all
<1> QED
  BY <1>12, <1>13

\* The operator is a shareholder.
LEMMA OperatorIn == ASSUME StakeType, NEW fp \in Fps, Holders(fp) # {} PROVE Operator(fp) \in Holders(fp) /\ Operator(fp) \in Owners
<1> DEFINE H == Holders(fp)
           A == {shares[o, fp] : o \in H}
           col == [o \in Owners |-> shares[o, fp]]
<1>1. H \subseteq Owners /\ IsFiniteSet(H) /\ H \subseteq Nat /\ H # {}
  BY StakeAssumption, FS_Subset DEF Holders
<1>2. \A o \in H : shares[o, fp] \in Nat
  BY <1>1 DEF StakeType
<1>3. A \subseteq Nat /\ A # {} /\ IsFiniteSet(A)
  <2>1. IsFiniteSet(A)
    <3> DEFINE f == [o \in H |-> shares[o, fp]]
    <3>1. f \in Surjection(H, A)
      BY DEF Surjection
    <3> HIDE DEF H, A
    <3> QED
      BY <1>1, <3>1, FS_Surjection
  <2> QED
    BY <1>1, <1>2, <2>1
<1> HIDE DEF A, H
<1>4. PICK m \in A : \A x \in A : x <= m
  BY <1>3, LargestExists
<1> DEFINE B == {o \in H : shares[o, fp] = m}
<1>5. B # {} /\ B \subseteq Nat /\ IsFiniteSet(B)
  BY <1>1, <1>4, FS_Subset DEF A
<1> HIDE DEF B
<1>6. PICK o \in B : \A q \in B : q <= o
  BY <1>5, LargestExists
<1>7. o \in H /\ \A q \in H : shares[q, fp] < shares[o, fp] \/ (shares[q, fp] = shares[o, fp] /\ q <= o)
  <2>1. o \in H /\ shares[o, fp] = m /\ m \in Nat
    BY <1>3, <1>6 DEF B
  <2>2. ASSUME NEW q \in H PROVE shares[q, fp] < shares[o, fp] \/ (shares[q, fp] = shares[o, fp] /\ q <= o)
    <3>1. shares[q, fp] \in A /\ shares[q, fp] \in Nat
      BY <1>2 DEF A
    <3>2. shares[q, fp] <= m
      BY <1>4, <3>1
    <3>3. CASE shares[q, fp] = m
      BY <1>6, <2>1, <3>3 DEF B
    <3>4. CASE shares[q, fp] # m
      <4> DEFINE n == shares[q, fp]
      <4>1. n \in Nat /\ n <= m /\ n # m
        BY <3>1, <3>2, <3>4
      <4>2. m \in Nat
        BY <2>1
      <4> HIDE DEF n
      <4>3. n < m
        BY <4>1, <4>2
      <4>4. shares[q, fp] < m
        BY <4>3 DEF n
      <4> QED
        BY <2>1, <4>4
    <3> QED
      BY <3>3, <3>4
  <2> QED
    BY <2>1, <2>2
<1>8. Operator(fp) \in H
  BY <1>7 DEF Operator, H
<1> QED
  BY <1>1, <1>8 DEF H
-----------------------------------------------------------------------------
\* What a fingerprint has in credits after a reward: the commission of its operator.
LEMMA CreditsHeld ==
  ASSUME StakeType, NEW fp \in Fps, NEW cut \in Nat, Holders(fp) = {} => cut = 0,
         NEW t \in [Owners \X Fps -> Nat],
         \A o \in Owners : t[<<o, fp>>] = credits[<<o, fp>>] + IF Holders(fp) # {} /\ o = Operator(fp) THEN cut ELSE 0
  PROVE  HeldOf(t, fp) = HeldOf(credits, fp) + cut
<1> DEFINE f == [o \in Owners |-> credits[o, fp]]
           g == [o \in Owners |-> t[o, fp]]
<1>1. f \in [Owners -> Nat] /\ g \in [Owners -> Nat] /\ IsFiniteSet(Owners)
  BY StakeAssumption DEF StakeType
<1>2. \A o \in Owners : f[o] = credits[<<o, fp>>] /\ g[o] = t[<<o, fp>>] /\ f[o] \in Nat
  BY <1>1
<1>3. Total(f) = HeldOf(credits, fp) /\ Total(g) = HeldOf(t, fp)
  BY DEF HeldOf
<1> HIDE DEF f, g
<1>4. Total(f) \in Nat
  BY <1>1, TotalNat
<1>5. CASE Holders(fp) = {}
  <2>1. ASSUME NEW o \in Owners PROVE g[o] = f[o]
    <3>1. t[<<o, fp>>] = credits[<<o, fp>>] + 0
      BY <1>5
    <3>2. g[o] = f[o] + 0 /\ f[o] \in Nat
      BY <1>2, <3>1
    <3> QED
      BY <3>2
  <2>2. f = g
    BY <1>1, <2>1
  <2> QED
    BY <1>3, <1>4, <1>5, <2>2
<1>6. CASE Holders(fp) # {}
  <2> DEFINE p == Operator(fp)
  <2>1. p \in Owners
    BY <1>6, OperatorIn
  <2> HIDE DEF p
  <2>2. g[p] = f[p] + cut /\ f[p] \in Nat /\ \A o \in Owners \ {p} : g[o] = f[o]
    <3>1. t[<<p, fp>>] = credits[<<p, fp>>] + cut
      BY <1>6, <2>1 DEF p
    <3>2. g[p] = f[p] + cut /\ f[p] \in Nat
      BY <1>2, <2>1, <3>1
    <3>3. ASSUME NEW o \in Owners \ {p} PROVE g[o] = f[o]
      <4>1. t[<<o, fp>>] = credits[<<o, fp>>] + 0
        BY <1>6, <2>1 DEF p
      <4>2. g[o] = f[o] + 0 /\ f[o] \in Nat
        BY <1>2, <4>1
      <4> QED
        BY <4>2
    <3> QED
      BY <3>2, <3>3
  <2>3. Sets(g, f, Owners, p, f[p] + cut)
    BY <1>1, <2>1, <2>2 DEF Sets
  <2>4. Total(g) + f[p] = Total(f) + (f[p] + cut) /\ Total(g) \in Nat
    BY <1>1, <2>3, SetsTotal
  <2>5. Total(g) = Total(f) + cut
    BY <1>4, <2>2, <2>4
  <2> QED
    BY <1>3, <2>5
<1> QED
  BY <1>5, <1>6

\* What it has in shares.
LEMMA SharesHeld ==
  ASSUME StakeInv, NEW fp \in Fps, NEW net \in Nat, NEW t \in [Owners \X Fps -> Nat],
         \A o \in Owners : t[<<o, fp>>] = shares[<<o, fp>>] + SharesOf(fp, net)[o]
  PROVE  HeldOf(t, fp) = HeldOf(shares, fp) + IF Holders(fp) = {} THEN 0 ELSE net
<1> DEFINE f == [o \in Owners |-> shares[o, fp]]
           g == [o \in Owners |-> t[o, fp]]
           a == SharesOf(fp, net)
<1>1. f \in [Owners -> Nat] /\ g \in [Owners -> Nat] /\ IsFiniteSet(Owners)
  BY StakeAssumption DEF StakeInv, StakeType
<1>2. \A o \in Owners : f[o] = shares[<<o, fp>>] /\ g[o] = t[<<o, fp>>]
  OBVIOUS
<1>3. Total(f) = HeldOf(shares, fp) /\ Total(g) = HeldOf(t, fp)
  BY DEF HeldOf
<1>4. a \in [Owners -> Nat] /\ Total(a) = IF Holders(fp) = {} THEN 0 ELSE net
  <2>1. CASE Holders(fp) = {}
    <3>1. a = [o \in Owners |-> 0]
      BY <2>1 DEF SharesOf
    <3>2. a \in [Owners -> Nat] /\ \A o \in Owners : a[o] = 0
      BY <3>1
    <3> HIDE DEF a
    <3>3. Total(a) = 0
      BY <1>1, <3>2, TotalZero
    <3> QED
      BY <2>1, <3>2, <3>3
  <2>2. CASE Holders(fp) # {}
    BY <2>2, SharesAdd
  <2> QED
    BY <2>1, <2>2
<1> HIDE DEF f, g, a
<1>5. AddsUp(g, f, a, Owners)
  BY <1>1, <1>2, <1>4 DEF AddsUp, a
<1>6. Total(g) = Total(f) + Total(a)
  BY <1>1, <1>5, TotalPlus
<1> QED
  BY <1>3, <1>4, <1>6

\* A block reward goes to stakes and credits, whole, and the stakes cover the shares.
LEMMA Distributed ==
  ASSUME StakeInv, NEW paid \in SUBSET (Fps \cup Outside), NEW reward \in Nat, DistributeReward(paid, reward)
  PROVE  /\ validatorStakes' \in [Fps -> Nat] /\ shares' \in [Owners \X Fps -> Nat]
         /\ credits' \in [Owners \X Fps -> Nat] /\ unowned' \in [Fps -> Nat]
         /\ Total(validatorStakes') + Total(credits') = Total(validatorStakes) + Total(credits) + (reward - ToNobody(paid, reward))
         /\ Total(validatorStakes') \in Nat /\ Total(credits') \in Nat
         /\ \A fp \in Fps : validatorStakes'[fp] = HeldOf(shares', fp) + unowned'[fp]
<1> DEFINE got == [fp \in Fps |-> Portion(fp, paid, reward)]
           cut == [fp \in Fps |-> PaidCut(fp, got[fp])]
           net == [fp \in Fps |-> got[fp] - cut[fp]]
           c == [fp \in Fps |-> HeldOf(credits, fp)]
           d == [fp \in Fps |-> HeldOf(credits', fp)]
<1>1. StakeType /\ IsFiniteSet(Owners) /\ IsFiniteSet(Fps)
  BY StakeAssumption DEF StakeInv
<1>2. got \in [Fps -> Nat] /\ Total(got) = reward - ToNobody(paid, reward)
  BY <1>1, PortionsSplit
<1>3. ASSUME NEW fp \in Fps PROVE /\ got[fp] \in Nat /\ cut[fp] \in Nat /\ net[fp] \in Nat /\ got[fp] = net[fp] + cut[fp]
                                  /\ Holders(fp) = {} => cut[fp] = 0
  <2>1. got[fp] \in Nat /\ cut[fp] = PaidCut(fp, got[fp])
    BY <1>2
  <2> HIDE DEF got
  <2>2. cut[fp] \in Nat /\ cut[fp] <= got[fp]
    BY <1>1, <2>1, CutIs
  <2>3. net[fp] = got[fp] - cut[fp]
    OBVIOUS
  <2>4. Holders(fp) = {} => cut[fp] = 0
    BY <2>1 DEF PaidCut
  <2> HIDE DEF net, cut
  <2> QED
    BY <2>1, <2>2, <2>3, <2>4
<1>4. ASSUME NEW k \in Owners \X Fps PROVE k[1] \in Owners /\ k[2] \in Fps /\ k = <<k[1], k[2]>>
  OBVIOUS
<1>5. validatorStakes' = [fp \in Fps |-> validatorStakes[fp] + net[fp]]
  BY DEF DistributeReward
<1>6. credits' = [k \in Owners \X Fps |-> credits[k] + IF Holders(k[2]) # {} /\ k[1] = Operator(k[2]) THEN cut[k[2]] ELSE 0]
  BY DEF DistributeReward
<1>7. unowned' = [fp \in Fps |-> unowned[fp] + IF Holders(fp) = {} THEN net[fp] ELSE 0]
  BY DEF DistributeReward
<1>8. shares' = [k \in Owners \X Fps |->
          shares[k] + IF k[1] \in Holders(k[2]) /\ net[k[2]] > 0 THEN ShareOf(k[1], k[2], net[k[2]]) ELSE 0]
  BY DEF DistributeReward
<1>9. net \in [Fps -> Nat] /\ cut \in [Fps -> Nat]
  BY <1>3
<1> HIDE DEF got, cut, net
<1>10. validatorStakes' \in [Fps -> Nat] /\ AddsUp(validatorStakes', validatorStakes, net, Fps)
  BY <1>1, <1>5, <1>9 DEF StakeType, AddsUp
<1>11. AddsUp(got, net, cut, Fps)
  BY <1>2, <1>3, <1>9 DEF AddsUp
<1>12. unowned' \in [Fps -> Nat]
  BY <1>1, <1>7, <1>9 DEF StakeType
<1>13. credits' \in [Owners \X Fps -> Nat]
  BY <1>1, <1>4, <1>6, <1>9 DEF StakeType
<1>14. ASSUME NEW fp \in Fps, NEW o \in Owners
       PROVE  SharesOf(fp, net[fp])[o] \in Nat /\ shares'[<<o, fp>>] = shares[<<o, fp>>] + SharesOf(fp, net[fp])[o]
  <2>1. net[fp] \in Nat
    BY <1>9
  <2>2. SharesOf(fp, net[fp]) \in [Owners -> Nat]
    <3>1. CASE Holders(fp) = {}
      BY <3>1 DEF SharesOf
    <3>2. CASE Holders(fp) # {}
      BY <2>1, <3>2, SharesAdd
    <3> QED
      BY <3>1, <3>2
  <2>3. <<o, fp>> \in Owners \X Fps /\ <<o, fp>>[1] = o /\ <<o, fp>>[2] = fp
    OBVIOUS
  <2>4. shares'[<<o, fp>>] = shares[<<o, fp>>] + IF o \in Holders(fp) /\ net[fp] > 0 THEN ShareOf(o, fp, net[fp]) ELSE 0
    BY <1>8, <2>3
  <2>5. SharesOf(fp, net[fp])[o] = IF o \in Holders(fp) /\ net[fp] > 0 THEN ShareOf(o, fp, net[fp]) ELSE 0
    BY DEF SharesOf
  <2> QED
    BY <2>2, <2>4, <2>5
<1>15. shares' \in [Owners \X Fps -> Nat]
  <2>1. ASSUME NEW k \in Owners \X Fps PROVE shares'[k] \in Nat
    <3>1. shares[k] \in Nat
      BY <1>1 DEF StakeType
    <3>2. SharesOf(k[2], net[k[2]])[k[1]] \in Nat /\ shares'[k] = shares[k] + SharesOf(k[2], net[k[2]])[k[1]]
      BY <1>4, <1>14
    <3> QED
      BY <3>1, <3>2
  <2>2. shares' = [k \in Owners \X Fps |-> shares'[k]]
    BY <1>8
  <2> QED
    BY <2>1, <2>2
<1>16. ASSUME NEW fp \in Fps PROVE HeldOf(credits', fp) = HeldOf(credits, fp) + cut[fp]
  <2>1. \A o \in Owners : credits'[<<o, fp>>] = credits[<<o, fp>>] + IF Holders(fp) # {} /\ o = Operator(fp) THEN cut[fp] ELSE 0
    BY <1>6
  <2>2. cut[fp] \in Nat /\ (Holders(fp) = {} => cut[fp] = 0)
    BY <1>3
  <2> QED
    BY <1>1, <1>13, <2>1, <2>2, CreditsHeld
<1>17. c \in [Fps -> Nat] /\ d \in [Fps -> Nat] /\ Total(credits) = Total(c) /\ Total(credits') = Total(d)
  BY <1>1, <1>13, GridHeld DEF StakeType
<1>18. AddsUp(d, c, cut, Fps)
  BY <1>9, <1>16, <1>17 DEF AddsUp
<1> HIDE DEF c, d
<1>19. /\ Total(validatorStakes') = Total(validatorStakes) + Total(net)
       /\ Total(got) = Total(net) + Total(cut) /\ Total(d) = Total(c) + Total(cut)
  <2>1. Total(validatorStakes') = Total(validatorStakes) + Total(net)
    BY <1>1, <1>10, TotalPlus
  <2>2. Total(got) = Total(net) + Total(cut)
    BY <1>1, <1>11, TotalPlus
  <2>3. Total(d) = Total(c) + Total(cut)
    BY <1>1, <1>18, TotalPlus
  <2> QED
    BY <2>1, <2>2, <2>3
<1>20. /\ Total(validatorStakes) \in Nat /\ Total(net) \in Nat /\ Total(cut) \in Nat /\ Total(c) \in Nat
       /\ Total(validatorStakes') \in Nat /\ Total(d) \in Nat
  BY <1>1, <1>9, <1>10, <1>17, TotalNat DEF StakeType
<1>21. Total(validatorStakes') + Total(credits') = Total(validatorStakes) + Total(credits) + (reward - ToNobody(paid, reward))
  <2> DEFINE a1 == Total(validatorStakes)
             a2 == Total(validatorStakes')
             b1 == Total(c)
             b2 == Total(d)
             n == Total(net)
             q == Total(cut)
             all == reward - ToNobody(paid, reward)
  <2>1. a2 = a1 + n /\ all = n + q /\ b2 = b1 + q /\ a1 \in Nat /\ n \in Nat /\ q \in Nat /\ b1 \in Nat
    BY <1>2, <1>19, <1>20
  <2> HIDE DEF a1, a2, b1, b2, n, q, all
  <2>2. a2 + b2 = a1 + b1 + all
    BY <2>1
  <2> QED
    BY <1>17, <2>2 DEF a1, a2, b1, b2, all
<1>22. ASSUME NEW fp \in Fps PROVE validatorStakes'[fp] = HeldOf(shares', fp) + unowned'[fp]
  <2> DEFINE h == HeldOf(shares, fp)
             n == net[fp]
             u == unowned[fp]
  <2>1. HeldOf(shares', fp) = h + IF Holders(fp) = {} THEN 0 ELSE n
    <3>1. \A o \in Owners : shares'[<<o, fp>>] = shares[<<o, fp>>] + SharesOf(fp, net[fp])[o]
      BY <1>14
    <3> QED
      BY <1>9, <1>15, <3>1, SharesHeld
  <2>2. validatorStakes'[fp] = validatorStakes[fp] + n /\ unowned'[fp] = u + IF Holders(fp) = {} THEN n ELSE 0
    BY <1>5, <1>7
  <2>3. validatorStakes[fp] = h + u /\ h \in Nat /\ u \in Nat /\ n \in Nat
    BY <1>1, <1>9, StakeSums, HeldOfNat DEF StakeType
  <2> HIDE DEF h, n, u
  <2> QED
    BY <2>1, <2>2, <2>3
<1> QED
  BY <1>10, <1>12, <1>13, <1>15, <1>17, <1>20, <1>21, <1>22

\* The end of a block.
LEMMA FinalizeHooksKeeps ==
  ASSUME StakeInv, NEW burn \in Burns, NEW e, NEW paid \in SUBSET (Fps \cup Outside),
         NEW reward \in StakeAmounts \cup {0}, FinalizeHooks(burn, e, paid, reward)
  PROVE  StakeInv'
<1> DEFINE out == IF burn < balance[Treasury] THEN burn ELSE balance[Treasury]
           fails == reward = 0 \/ balance[Treasury] - out < reward
           due == IF fails THEN 0 ELSE reward
           none == IF fails THEN 0 ELSE ToNobody(paid, reward)
           rest == balance[Treasury] - out - due
<1>1. StakeType /\ reward \in Nat /\ burn \in Nat /\ IsFiniteSet(Owners) /\ Treasury \in Owners
  BY StakeAssumption DEF StakeInv
<1>2. balance[Treasury] \in Nat /\ balance \in [Owners -> Nat]
  BY <1>1 DEF StakeType
<1>3. out \in Nat /\ out <= burn /\ out <= balance[Treasury]
  BY <1>1, <1>2
<1>4. /\ protocolBurned' = protocolBurned + burn /\ unbacked' = unbacked + (burn - out)
      /\ UNCHANGED <<commission, registered>>
  BY DEF FinalizeHooks
<1>5. /\ ~fails => balance' = [balance EXCEPT ![Treasury] = balance[Treasury] - out - reward]
      /\ ~fails => destroyed' = destroyed + out + ToNobody(paid, reward) /\ DistributeReward(paid, reward)
      /\ fails => balance' = [balance EXCEPT ![Treasury] = balance[Treasury] - out] /\ destroyed' = destroyed + out
      /\ fails => UNCHANGED <<validatorStakes, shares, credits, unowned>>
  BY DEF FinalizeHooks
<1> HIDE DEF out
<1>51. due \in Nat /\ none \in Nat /\ due <= balance[Treasury] - out /\ rest \in Nat
  <2>1. ToNobody(paid, reward) \in Nat
    BY <1>1, PortionsSplit
  <2> QED
    BY <1>1, <1>2, <1>3, <2>1
<1>52. balance' = [balance EXCEPT ![Treasury] = rest] /\ destroyed' = destroyed + out + none
  <2>1. CASE fails
    <3>1. rest = balance[Treasury] - out /\ destroyed + out + none = destroyed + out
      BY <1>1, <1>2, <1>3, <2>1 DEF StakeType
    <3> QED
      BY <1>5, <2>1, <3>1
  <2>2. CASE ~fails
    BY <1>5, <2>2
  <2> QED
    BY <2>1, <2>2
<1>6. Sets(balance', balance, Owners, Treasury, rest) /\ balance' \in [Owners -> Nat]
  <2> HIDE DEF rest
  <2> QED
    BY <1>1, <1>2, <1>51, <1>52 DEF Sets
<1>7. Total(balance') + balance[Treasury] = Total(balance) + rest /\ Total(balance') \in Nat
  BY <1>1, <1>6, SetsTotal
<1>8. /\ validatorStakes' \in [Fps -> Nat] /\ shares' \in [Owners \X Fps -> Nat]
      /\ credits' \in [Owners \X Fps -> Nat] /\ unowned' \in [Fps -> Nat]
      /\ Total(validatorStakes') + Total(credits') = Total(validatorStakes) + Total(credits) + (due - none)
      /\ Total(validatorStakes') \in Nat /\ Total(credits') \in Nat
      /\ \A fp \in Fps : validatorStakes'[fp] = HeldOf(shares', fp) + unowned'[fp]
  <2>1. CASE fails
    <3>1. UNCHANGED <<validatorStakes, shares, credits, unowned>>
      BY <1>5, <2>1
    <3>2. Total(validatorStakes') + Total(credits') = Total(validatorStakes) + Total(credits) + (due - none)
      BY <2>1, <3>1, StakeSums
    <3> QED
      BY <1>1, <3>1, <3>2, StakeSums DEF StakeType
  <2>2. CASE ~fails
    <3>1. DistributeReward(paid, reward) /\ due = reward /\ none = ToNobody(paid, reward)
      BY <1>5, <2>2
    <3> QED
      BY <1>1, <3>1, Distributed
  <2> QED
    BY <2>1, <2>2
<1> HIDE DEF fails, due, none
<1>81. /\ destroyed' \in Nat /\ protocolBurned' \in Nat /\ unbacked' \in Nat
       /\ protocolBurned' <= destroyed' + unbacked'
  BY <1>1, <1>3, <1>4, <1>51, <1>52 DEF StakeInv, StakeType, StakeConserved
<1>9. StakeType'
  BY <1>1, <1>3, <1>4, <1>6, <1>8, <1>81 DEF StakeType
<1>10. StakeConserved'
  <2> DEFINE b1 == Total(balance)
             b2 == Total(balance')
             v1 == Total(validatorStakes)
             v2 == Total(validatorStakes')
             c1 == Total(credits)
             c2 == Total(credits')
             t == balance[Treasury]
             z == InitialBalance * Cardinality(Owners)
  <2>1. b1 \in Nat /\ v1 \in Nat /\ c1 \in Nat /\ destroyed \in Nat /\ b1 + v1 + c1 + destroyed = z
    BY StakeSums
  <2>2. b2 + t = b1 + (t - out - due) /\ t \in Nat /\ b2 \in Nat
    BY <1>2, <1>7
  <2>3. v2 + c2 = v1 + c1 + (due - none) /\ v2 \in Nat /\ c2 \in Nat
    BY <1>8
  <2> HIDE DEF b1, b2, v1, v2, c1, c2, t, z
  <2>4. b2 + v2 + c2 + destroyed' = z
    BY <1>1, <1>3, <1>51, <1>52, <2>1, <2>2, <2>3
  <2> QED
    BY <1>81, <2>4, StakesAfter DEF b2, v2, c2, z
<1>11. SharesBacked'
  BY <1>8, BackedAfter
<1> QED
  BY <1>9, <1>10, <1>11 DEF StakeInv

\* Every step keeps the invariant.
LEMMA StakeKeeps == ASSUME StakeInv, StakeNext PROVE StakeInv'
<1>1. ASSUME NEW o \in Owners, NEW fp \in Fps, NEW bps \in 0 .. CommissionScale, SetCommission(o, fp, bps) PROVE StakeInv'
  <2>1. commission' \in [Fps -> 0 .. CommissionScale] /\ registered' \subseteq Fps
        /\ UNCHANGED <<balance, validatorStakes, shares, credits, unowned, burnVars, destroyed>>
    BY <1>1 DEF SetCommission, StakeInv, StakeType
  <2> QED
    BY <2>1, StakesSame
<1>2. ASSUME NEW fp \in Fps, RegisterValidator(fp) PROVE StakeInv'
  <2>1. commission' \in [Fps -> 0 .. CommissionScale] /\ registered' \subseteq Fps
        /\ UNCHANGED <<balance, validatorStakes, shares, credits, unowned, burnVars, destroyed>>
    BY <1>2 DEF RegisterValidator, StakeInv, StakeType
  <2> QED
    BY <2>1, StakesSame
<1>3. ASSUME NEW burn \in Burns, NEW e \in 0 .. 1, NEW vals \in SUBSET Fps, NEW reward \in StakeAmounts \cup {0},
             NEW idxs \in SUBSET (vals \cup Outside), FinalizeHooks(burn, e, PaidIndices(vals, idxs), reward)
      PROVE  StakeInv'
  <2>1. PaidIndices(vals, idxs) \in SUBSET (Fps \cup Outside)
    <3>1. CASE idxs # {} \/ vals = {}
      BY <3>1 DEF PaidIndices
    <3>2. CASE ~(idxs # {} \/ vals = {})
      <4>1. vals \subseteq Nat /\ IsFiniteSet(vals) /\ vals # {}
        BY <3>2, StakeAssumption, FS_Subset
      <4>2. \E n \in vals : \A m \in vals : n <= m
        BY <4>1, NatMin
      <4>3. Min(vals) \in vals
        BY <4>2 DEF Min
      <4> QED
        BY <3>2, <4>3 DEF PaidIndices
    <3> QED
      BY <3>1, <3>2
  <2> QED
    BY <1>3, <2>1, FinalizeHooksKeeps
<1> QED
  BY <1>1, <1>2, <1>3, DepositKeeps, WithdrawRewardsKeeps, RedelegateKeeps, SlashStakeKeeps DEF StakeNext

\* The invariant of the validators' stakes.
LEMMA StakeAlways == StakeSpec => []StakeInv
<1>1. StakeInit => StakeInv
  BY StakeStart
<1>2. StakeInv /\ [StakeNext]_stakeVars => StakeInv'
  <2>1. ASSUME StakeInv, UNCHANGED stakeVars PROVE StakeInv'
    BY <2>1, StakesSame DEF stakeVars, StakeInv, StakeType
  <2> QED
    BY <2>1, StakeKeeps
<1> QED
  BY <1>1, <1>2, PTL DEF StakeSpec
-----------------------------------------------------------------------------
(* Providers' stakes *)

\* A row of the book of stakes, and a request to leave it.
RowSet == [total : Nat, available : Nat, pending : Nat]
RequestSet == [key : StakeKeys, amount : Nat, release : Nat]

AreRows(R) == R = [k \in DOMAIN R |-> R[k]] /\ DOMAIN R \subseteq StakeKeys /\ \A k \in DOMAIN R : R[k] \in RowSet
AreRequests(Q) ==
  /\ Q = [i \in DOMAIN Q |-> Q[i]] /\ DOMAIN Q \subseteq Nat /\ IsFiniteSet(DOMAIN Q)
  /\ \A i \in DOMAIN Q : Q[i] \in RequestSet

\* What a key has in the book R, and what all keys have.
RowAt(R, key) == Get(R, key, EmptyRow)
Totals(R) == [k \in StakeKeys |-> RowAt(R, k).total]
Staked(R) == Total(Totals(R))

\* What a request asks of a key, and what all of Q ask.
AmountAt(Q, i, key) == IF i \in DOMAIN Q /\ Q[i].key = key THEN Q[i].amount ELSE 0
Asked(Q, key) == [i \in {j \in DOMAIN Q : Q[j].key = key} |-> Q[i].amount]
Owed(Q, key) == Total(Asked(Q, key))

\* The books agree for every key, also one whose row was removed while requests of
\* nothing are open.
Balanced(R, Q) ==
  \A k \in StakeKeys : /\ RowAt(R, k).total = RowAt(R, k).available + RowAt(R, k).pending
                       /\ RowAt(R, k).pending = Owed(Q, k)

ProviderType ==
  /\ wallet \in Nat /\ providers \subseteq StakedProviders
  /\ AreRows(rows) /\ AreRequests(requests)
  /\ nextRequest \in Nat /\ burned \in Nat /\ now \in Nat
  /\ \A i \in DOMAIN requests : i < nextRequest

\* The inductive invariant of the providers' stakes.
ProviderInv == ProviderType /\ ProviderConserved /\ Balanced(rows, requests)

\* The keys are finitely many.
LEMMA KeysFinite == IsFiniteSet(StakeKeys)
BY ProviderAssumption, FS_Product DEF StakeKeys

\* Every key has a row, if only an empty one.
LEMMA RowIn == ASSUME NEW R, AreRows(R), NEW k \in StakeKeys PROVE RowAt(R, k) \in RowSet
<1>1. EmptyRow \in RowSet
  BY DEF EmptyRow, RowSet
<1> QED
  BY <1>1 DEF RowAt, Get, AreRows

\* The total of each is a number.
LEMMA TotalsType == ASSUME NEW R, AreRows(R) PROVE Totals(R) \in [StakeKeys -> Nat] /\ Staked(R) \in Nat
<1>1. \A k \in StakeKeys : RowAt(R, k).total \in Nat
  BY RowIn DEF RowSet
<1>2. Totals(R) \in [StakeKeys -> Nat]
  BY <1>1 DEF Totals
<1> QED
  BY <1>2, KeysFinite, TotalNat DEF Staked

\* The sum over the rows there are is the sum over the keys.
LEMMA StakedIs == ASSUME NEW R, AreRows(R) PROVE Total([k \in DOMAIN R |-> R[k].total]) = Staked(R)
<1> DEFINE g == [k \in DOMAIN R |-> R[k].total]
           f == Totals(R)
<1>1. f \in [StakeKeys -> Nat]
  BY TotalsType
<1>2. g \in [DOMAIN R -> Nat] /\ DOMAIN R \subseteq StakeKeys
  BY DEF AreRows, RowSet
<1>3. \A k \in DOMAIN R : f[k] = g[k]
  BY <1>2 DEF Totals, RowAt, Get
<1>4. \A k \in StakeKeys \ DOMAIN R : f[k] = 0
  BY DEF Totals, RowAt, Get, EmptyRow
<1> HIDE DEF f, g
<1>5. ZeroBeyond(f, g, StakeKeys, DOMAIN R)
  BY <1>1, <1>2, <1>3, <1>4 DEF ZeroBeyond
<1>6. Total(f) = Total(g)
  BY <1>5, KeysFinite, TotalOn
<1> QED
  BY <1>6 DEF f, g, Staked

\* The book N is R but for the row of one key.
PutsRow(N, R, key, row) ==
  AreRows(N) /\ RowAt(N, key) = row /\ \A k \in StakeKeys \ {key} : RowAt(N, k) = RowAt(R, k)

\* What it does to the sum.
LEMMA StakedMoved ==
  ASSUME NEW R, AreRows(R), NEW key \in StakeKeys, NEW row, NEW N, PutsRow(N, R, key, row)
  PROVE  Staked(N) + RowAt(R, key).total = Staked(R) + row.total /\ Staked(N) \in Nat
<1> DEFINE f == Totals(R)
           g == Totals(N)
<1>1. AreRows(N) /\ RowAt(N, key) = row /\ \A k \in StakeKeys \ {key} : RowAt(N, k) = RowAt(R, k)
  BY DEF PutsRow
<1>2. f \in [StakeKeys -> Nat] /\ g \in [StakeKeys -> Nat]
  BY <1>1, TotalsType
<1>3. f[key] = RowAt(R, key).total /\ g[key] = row.total /\ \A k \in StakeKeys \ {key} : g[k] = f[k]
  BY <1>1 DEF Totals
<1> HIDE DEF f, g
<1>4. Sets(g, f, StakeKeys, key, row.total)
  BY <1>2, <1>3 DEF Sets
<1>5. Total(g) + f[key] = Total(f) + row.total /\ Total(g) \in Nat
  BY <1>4, KeysFinite, SetsTotal
<1> QED
  BY <1>3, <1>5 DEF f, g, Staked

\* A row that is put.
LEMMA PutIs ==
  ASSUME NEW R, AreRows(R), NEW key \in StakeKeys, NEW row \in RowSet
  PROVE  PutsRow(Put(R, key, row), R, key, row)
<1> DEFINE N == Put(R, key, row)
<1>1. N = [k \in DOMAIN R \cup {key} |-> IF k = key THEN row ELSE R[k]]
  BY DEF Put
<1>2. DOMAIN N = DOMAIN R \cup {key} /\ \A k \in DOMAIN N : N[k] = IF k = key THEN row ELSE R[k]
  BY <1>1
<1> HIDE DEF N
<1>3. N = [k \in DOMAIN N |-> N[k]]
  BY <1>1, <1>2
<1>4. AreRows(N)
  BY <1>2, <1>3 DEF AreRows
<1>5. RowAt(N, key) = row /\ \A k \in StakeKeys \ {key} : RowAt(N, k) = RowAt(R, k)
  BY <1>2 DEF RowAt, Get
<1> QED
  BY <1>4, <1>5 DEF PutsRow, N

\* A row that is put, or removed when it is empty.
LEMMA WithRowIs ==
  ASSUME AreRows(rows), NEW key \in StakeKeys, NEW row \in RowSet
  PROVE  PutsRow(WithRow(key, row), rows, key, row)
<1> DEFINE N == Without(rows, {key})
<1>1. CASE row = EmptyRow
  <2>1. N = [k \in DOMAIN rows \ {key} |-> rows[k]]
    BY DEF Without
  <2>2. DOMAIN N = DOMAIN rows \ {key} /\ \A k \in DOMAIN N : N[k] = rows[k]
    BY <2>1
  <2> HIDE DEF N
  <2>3. N = [k \in DOMAIN N |-> N[k]]
    BY <2>1, <2>2
  <2>4. AreRows(N)
    BY <2>2, <2>3 DEF AreRows
  <2>5. RowAt(N, key) = row /\ \A k \in StakeKeys \ {key} : RowAt(N, k) = RowAt(rows, k)
    BY <1>1, <2>2 DEF RowAt, Get
  <2>6. PutsRow(N, rows, key, row)
    BY <2>4, <2>5 DEF PutsRow
  <2> QED
    BY <1>1, <2>6 DEF WithRow, N
<1>2. CASE row # EmptyRow
  BY <1>2, PutIs DEF WithRow
<1> QED
  BY <1>1, <1>2
-----------------------------------------------------------------------------
\* What each request asks, of a larger set.
Dense(Q, S, key) == [i \in S |-> AmountAt(Q, i, key)]

\* Sums of requests, by request.
LEMMA OwedIs ==
  ASSUME NEW Q, AreRequests(Q), NEW S, IsFiniteSet(S), DOMAIN Q \subseteq S, NEW key
  PROVE  Owed(Q, key) = Total(Dense(Q, S, key)) /\ Dense(Q, S, key) \in [S -> Nat] /\ Owed(Q, key) \in Nat
<1> DEFINE f == Dense(Q, S, key)
           R == {j \in DOMAIN Q : Q[j].key = key}
           g == Asked(Q, key)
<1>1. ASSUME NEW i \in S PROVE AmountAt(Q, i, key) \in Nat
  BY DEF AmountAt, AreRequests, RequestSet
<1>2. f \in [S -> Nat] /\ R \subseteq S
  BY <1>1 DEF Dense
<1>3. g \in [R -> Nat]
  BY DEF Asked, AreRequests, RequestSet
<1>4. \A i \in R : f[i] = g[i]
  BY <1>2 DEF Asked, Dense, AmountAt
<1>5. \A i \in S \ R : f[i] = 0
  BY DEF Dense, AmountAt
<1> HIDE DEF f, g, R
<1>6. ZeroBeyond(f, g, S, R)
  BY <1>2, <1>3, <1>4, <1>5 DEF ZeroBeyond
<1>7. Total(f) = Total(g) /\ Total(f) \in Nat
  BY <1>2, <1>6, TotalOn, TotalNat
<1> QED
  BY <1>2, <1>7 DEF Owed, f, g

\* Requests that ask the same of a key.
LEMMA OwedSame ==
  ASSUME NEW Q, AreRequests(Q), NEW N, AreRequests(N), NEW key,
         \A i \in DOMAIN Q \cup DOMAIN N : AmountAt(N, i, key) = AmountAt(Q, i, key)
  PROVE  Owed(N, key) = Owed(Q, key)
<1> DEFINE S == DOMAIN Q \cup DOMAIN N
<1>1. IsFiniteSet(S) /\ DOMAIN Q \subseteq S /\ DOMAIN N \subseteq S
  BY FS_Union DEF AreRequests
<1>2. Dense(N, S, key) = Dense(Q, S, key)
  BY DEF Dense
<1> HIDE DEF S
<1> QED
  BY <1>1, <1>2, OwedIs

\* One request asks something else.
LEMMA OwedMoved ==
  ASSUME NEW Q, AreRequests(Q), NEW N, AreRequests(N), NEW key, NEW id \in DOMAIN Q \cup DOMAIN N,
         \A i \in (DOMAIN Q \cup DOMAIN N) \ {id} : AmountAt(N, i, key) = AmountAt(Q, i, key)
  PROVE  Owed(N, key) + AmountAt(Q, id, key) = Owed(Q, key) + AmountAt(N, id, key)
<1> DEFINE S == DOMAIN Q \cup DOMAIN N
           f == Dense(Q, S, key)
           g == Dense(N, S, key)
           v == AmountAt(N, id, key)
<1>1. IsFiniteSet(S) /\ DOMAIN Q \subseteq S /\ DOMAIN N \subseteq S /\ id \in S
  BY FS_Union DEF AreRequests
<1>2. \A i \in S : f[i] = AmountAt(Q, i, key) /\ g[i] = AmountAt(N, i, key)
  BY DEF Dense
<1>3. \A i \in S \ {id} : g[i] = f[i]
  BY <1>2
<1> HIDE DEF S
<1>4. f \in [S -> Nat] /\ g \in [S -> Nat] /\ Owed(Q, key) = Total(f) /\ Owed(N, key) = Total(g)
  BY <1>1, OwedIs
<1>5. f[id] = AmountAt(Q, id, key) /\ g[id] = v
  BY <1>1, <1>2
<1> HIDE DEF f, g, v
<1>6. Sets(g, f, S, id, v)
  BY <1>1, <1>3, <1>4, <1>5 DEF Sets
<1>7. Total(g) + f[id] = Total(f) + v
  BY <1>1, <1>6, SetsTotal
<1> QED
  BY <1>4, <1>5, <1>7 DEF v
-----------------------------------------------------------------------------
\* v is what is left of w when n is taken from its smallest arguments first.
TakenFrom(v, w, S, n) ==
  /\ S \subseteq Nat /\ w \in [S -> Nat] /\ v \in [S -> Nat]
  /\ \A i \in S : v[i] = Minus(w[i], Minus(n, SumOf(w, {j \in S : j < i})))

\* What two steps take.
LEMMA MinusTwice ==
  ASSUME NEW b \in Nat, NEW w \in Nat, NEW n \in Nat
  PROVE  Minus(b, n) + Minus(w, Minus(n, b)) = Minus(b + w, n) /\ Minus(b, n) \in Nat
BY DEF Minus

\* What is left in all is the sum less n, or nothing.
LEMMA TakenTotal ==
  ASSUME NEW S, IsFiniteSet(S), NEW n \in Nat, NEW v, NEW w, TakenFrom(v, w, S, n)
  PROVE  Total(v) = Minus(Total(w), n)
<1>0. /\ S \subseteq Nat /\ w \in [S -> Nat] /\ v \in [S -> Nat]
      /\ \A i \in S : v[i] = Minus(w[i], Minus(n, SumOf(w, {j \in S : j < i})))
  BY DEF TakenFrom
<1> DEFINE Closed(T) == \A i \in T, j \in S : j < i => j \in T
           P == {T \in SUBSET S : Closed(T) => SumOf(v, T) = Minus(SumOf(w, T), n)}
<1>1. ASSUME NEW T \in SUBSET S, \A x \in T : T \ {x} \in P PROVE T \in P
  <2>1. CASE T = {}
    BY <2>1, SumEmpty DEF Minus
  <2>2. ASSUME T # {}, Closed(T) PROVE SumOf(v, T) = Minus(SumOf(w, T), n)
    <3>1. IsFiniteSet(T) /\ T \subseteq Nat
      BY <1>0, FS_Subset
    <3>2. PICK m \in T : \A x \in T : x <= m
      BY <2>2, <3>1, LargestExists
    <3> DEFINE U == T \ {m}
    <3>3. m \in S /\ IsFiniteSet(U) /\ U \subseteq S /\ m \in Nat
      BY <1>0, <3>1, FS_Subset
    <3>4. \A x \in U : x < m
      BY <3>1, <3>2
    <3>5. Closed(U)
      <4>1. ASSUME NEW i \in U, NEW j \in S, j < i PROVE j \in U
        <5>1. i \in Nat /\ j \in Nat /\ i < m
          BY <1>0, <3>4
        <5>2. j \in T /\ j # m
          BY <2>2, <4>1, <5>1, <3>3
        <5> QED
          BY <5>2
      <4> QED
        BY <4>1
    <3>6. {j \in S : j < m} = U
      <4>1. ASSUME NEW j \in S, j < m PROVE j \in U
        <5>1. j \in Nat /\ j \in T
          BY <1>0, <2>2, <4>1
        <5> QED
          BY <3>3, <4>1, <5>1
      <4> QED
        BY <3>3, <3>4, <4>1
    <3>7. U \in P
      BY <1>1, <3>2
    <3> DEFINE b == SumOf(w, U)
    <3> HIDE DEF U
    <3>8. SumOf(v, U) = Minus(b, n)
      BY <3>5, <3>7
    <3>9. SumOf(v, T) = SumOf(v, U) + v[m] /\ SumOf(w, T) = b + w[m]
      BY <1>0, <3>1, <3>2, SumRemove DEF U
    <3>10. v[m] = Minus(w[m], Minus(n, b)) /\ w[m] \in Nat
      BY <1>0, <3>3, <3>6
    <3>11. b \in Nat
      BY <1>0, <3>3, SumNat
    <3> HIDE DEF b, P
    <3>12. Minus(b, n) + Minus(w[m], Minus(n, b)) = Minus(b + w[m], n)
      BY <3>10, <3>11, MinusTwice
    <3> QED
      BY <3>8, <3>9, <3>10, <3>12
  <2> QED
    BY <2>1, <2>2
<1>2. Closed(S)
  OBVIOUS
<1> HIDE DEF P
<1>3. S \in P
  BY <1>1, FiniteInduction
<1>4. SumOf(v, S) = Minus(SumOf(w, S), n)
  BY <1>2, <1>3 DEF P
<1> QED
  BY <1>0, <1>4, TotalSum

\* The requests of a key after a slash that reaches n into them.
LEMMA ReducedIs ==
  ASSUME AreRequests(requests), NEW key, NEW n \in Nat
  PROVE  LET N == Reduced(key, n)
         IN /\ AreRequests(N) /\ DOMAIN N \subseteq DOMAIN requests
            /\ Owed(N, key) = Minus(Owed(requests, key), n)
            /\ \A k : k # key => Owed(N, k) = Owed(requests, k)
<1> DEFINE D == DOMAIN requests
           S == RequestsOf(key)
           w == Asked(requests, key)
           before(id) == Total([k \in {j \in S : j < id} |-> requests[k].amount])
           left(id) == Minus(requests[id].amount, Minus(n, before(id)))
           gone == {id \in S : before(id) < n /\ left(id) = 0}
           N == Reduced(key, n)
           v == [id \in S |-> left(id)]
<1>1. S = {j \in D : requests[j].key = key} /\ S \subseteq D /\ S \subseteq Nat /\ IsFiniteSet(S) /\ IsFiniteSet(D)
  BY FS_Subset DEF RequestsOf, AreRequests
<1>2. w = [i \in S |-> requests[i].amount] /\ w \in [S -> Nat]
  BY <1>1 DEF Asked, AreRequests, RequestSet
<1>3. ASSUME NEW id \in S PROVE before(id) = SumOf(w, {j \in S : j < id}) /\ before(id) \in Nat
  <2> DEFINE B == {j \in S : j < id}
  <2>1. B \subseteq S /\ IsFiniteSet(B)
    BY <1>1, FS_Subset
  <2> HIDE DEF B
  <2>2. [k \in B |-> requests[k].amount] = [k \in B |-> w[k]]
    BY <1>2, <2>1
  <2>3. SumOf(w, B) = Total([k \in B |-> w[k]])
    BY DEF SumOf, SumOver
  <2>4. SumOf(w, B) \in Nat
    BY <1>2, <2>1, SumNat
  <2> QED
    BY <2>2, <2>3, <2>4 DEF B
<1>4. N = [id \in D \ gone |-> IF id \in S THEN [requests[id] EXCEPT !.amount = left(id)] ELSE requests[id]]
  BY DEF Reduced
<1>5. ASSUME NEW id \in S PROVE left(id) = Minus(w[id], Minus(n, SumOf(w, {j \in S : j < id}))) /\ left(id) \in Nat
  <2>1. requests[id].amount = w[id] /\ w[id] \in Nat
    BY <1>2
  <2>2. left(id) = Minus(w[id], Minus(n, before(id)))
    BY <2>1
  <2>3. before(id) \in Nat /\ before(id) = SumOf(w, {j \in S : j < id})
    BY <1>3
  <2> HIDE DEF before
  <2>4. Minus(n, before(id)) \in Nat
    BY <2>3 DEF Minus
  <2>5. Minus(w[id], Minus(n, before(id))) \in Nat
    BY <2>1, <2>4 DEF Minus
  <2> HIDE DEF left
  <2> QED
    BY <2>2, <2>3, <2>5
<1> HIDE DEF before, left, N
<1>6. v \in [S -> Nat] /\ \A i \in S : v[i] = left(i)
  BY <1>5
<1>7. TakenFrom(v, w, S, n)
  BY <1>1, <1>2, <1>5, <1>6 DEF TakenFrom
<1>8. Total(v) = Minus(Total(w), n)
  <2> HIDE DEF v, w, S
  <2> QED
    BY <1>1, <1>7, TakenTotal
<1>9. DOMAIN N = D \ gone /\ gone \subseteq S
  BY <1>4
<1>10. \A id \in DOMAIN N : N[id] = IF id \in S THEN [requests[id] EXCEPT !.amount = left(id)] ELSE requests[id]
  BY <1>4, <1>9
<1>11. \A id \in S : id \notin gone => left(id) = v[id]
  BY <1>6
<1>12. \A id \in gone : left(id) = 0
  OBVIOUS
<1> HIDE DEF v, gone, D, S
<1>13. ASSUME NEW id \in DOMAIN N PROVE N[id] \in RequestSet /\ N[id].key = requests[id].key
                                        /\ (id \in S => N[id].amount = left(id)) /\ (id \notin S => N[id] = requests[id])
  <2>1. requests[id] \in RequestSet
    BY <1>9 DEF AreRequests, D
  <2>2. CASE id \in S
    <3>1. N[id] = [requests[id] EXCEPT !.amount = left(id)] /\ left(id) \in Nat
      BY <1>5, <1>10, <2>2
    <3> QED
      BY <2>1, <2>2, <3>1 DEF RequestSet
  <2>3. CASE id \notin S
    BY <1>10, <2>1, <2>3
  <2> QED
    BY <2>2, <2>3
<1>14. AreRequests(N) /\ DOMAIN N \subseteq D
  <2>1. DOMAIN N \subseteq D /\ IsFiniteSet(DOMAIN N) /\ DOMAIN N \subseteq Nat
    BY <1>1, <1>9, FS_Subset DEF AreRequests, D
  <2>2. N = [id \in DOMAIN N |-> N[id]]
    BY <1>4, <1>9
  <2> QED
    BY <1>13, <2>1, <2>2 DEF AreRequests
<1>15. ASSUME NEW k, k # key PROVE Owed(N, k) = Owed(requests, k)
  <2>1. ASSUME NEW i \in D \cup DOMAIN N PROVE AmountAt(N, i, k) = AmountAt(requests, i, k)
    <3>1. i \in D
      BY <1>14
    <3>2. CASE i \in S
      <4>1. requests[i].key = key /\ (i \in DOMAIN N => N[i].key = key)
        BY <1>1, <1>13, <3>2
      <4> QED
        BY <1>15, <4>1 DEF AmountAt
    <3>3. CASE i \notin S
      <4>1. i \in DOMAIN N /\ N[i] = requests[i]
        BY <1>9, <1>13, <3>1, <3>3
      <4> QED
        BY <3>1, <4>1 DEF AmountAt, D
    <3> QED
      BY <3>2, <3>3
  <2> QED
    BY <1>14, <2>1, OwedSame DEF D
<1>16. Owed(N, key) = Total(v)
  <2> DEFINE f == Dense(N, D, key)
  <2>1. Owed(N, key) = Total(f) /\ f \in [D -> Nat]
    BY <1>1, <1>14, OwedIs
  <2>2. ASSUME NEW i \in S PROVE f[i] = v[i]
    <3>1. i \in D /\ requests[i].key = key
      BY <1>1
    <3>2. CASE i \in gone
      <4>1. i \notin DOMAIN N /\ v[i] = 0
        BY <1>6, <1>9, <1>12, <3>2
      <4> QED
        BY <3>1, <4>1 DEF Dense, AmountAt
    <3>3. CASE i \notin gone
      <4>1. i \in DOMAIN N /\ N[i].key = key /\ N[i].amount = v[i]
        BY <1>6, <1>9, <1>13, <3>1, <3>3
      <4> QED
        BY <3>1, <4>1 DEF Dense, AmountAt
    <3> QED
      BY <3>2, <3>3
  <2>3. ASSUME NEW i \in D \ S PROVE f[i] = 0
    <3>1. requests[i].key # key
      BY <1>1
    <3>2. i \in DOMAIN N => N[i].key # key
      BY <1>13, <3>1
    <3> QED
      BY <3>2 DEF Dense, AmountAt
  <2> HIDE DEF f
  <2>4. ZeroBeyond(f, v, D, S)
    BY <1>1, <1>6, <2>1, <2>2, <2>3 DEF ZeroBeyond
  <2>5. Total(f) = Total(v)
    BY <1>1, <2>4, TotalOn
  <2> QED
    BY <2>1, <2>5
<1>17. Total(w) = Owed(requests, key)
  BY DEF Owed
<1> HIDE DEF w
<1> QED
  BY <1>8, <1>14, <1>15, <1>16, <1>17 DEF N, D
-----------------------------------------------------------------------------
\* The least of three amounts, of which the first is least.
LEMMA MinThree ==
  ASSUME NEW a \in Nat, NEW b \in Nat, NEW c \in Nat, a <= b, a <= c
  PROVE  Min({a, b, c}) = a
<1> DEFINE S == {a, b, c}
<1>1. a \in S /\ \A y \in S : a <= y
  OBVIOUS
<1>2. Min(S) \in S /\ \A y \in S : Min(S) <= y
  BY <1>1 DEF Min
<1>3. Min(S) \in Nat /\ Min(S) <= a /\ a <= Min(S)
  BY <1>1, <1>2
<1> QED
  BY <1>3

\* One factor more.
LEMMA OneMore == ASSUME NEW a \in Nat, NEW b \in Nat PROVE a * (b + 1) = a * b + a /\ a * b \in Nat
OBVIOUS

\* The open requests of a key, as the book of requests has them.
LEMMA RequestSumIs == ASSUME NEW key PROVE RequestSum(key) = Owed(requests, key)
BY DEF RequestSum, RequestsOf, Owed, Asked

\* The invariant makes the books of the specification agree.
LEMMA RowsBalanceIs == ASSUME ProviderInv PROVE RowsBalance
<1>1. ASSUME NEW k \in DOMAIN rows PROVE k \in StakeKeys /\ RowAt(rows, k) = rows[k]
  BY DEF ProviderInv, ProviderType, AreRows, RowAt, Get
<1>2. ASSUME NEW k \in DOMAIN rows PROVE /\ rows[k].total = rows[k].available + rows[k].pending
                                        /\ rows[k].pending = RequestSum(k)
  BY <1>1, RequestSumIs DEF ProviderInv, Balanced
<1> QED
  BY <1>2 DEF RowsBalance

\* The sum of the provider books.
LEMMA FundsAre ==
  ASSUME ProviderInv
  PROVE  /\ wallet + Bond * Cardinality(providers) + Staked(rows) + burned = Funds
         /\ Bond * Cardinality(providers) \in Nat /\ Staked(rows) \in Nat
         /\ IsFiniteSet(providers) /\ Cardinality(providers) \in Nat /\ Bond \in Nat
<1>1. AreRows(rows) /\ IsFiniteSet(providers)
  BY ProviderAssumption, FS_Subset DEF ProviderInv, ProviderType
<1>2. Cardinality(providers) \in Nat /\ Bond \in Nat
  BY <1>1, ProviderAssumption, FS_CardinalityType
<1>3. Staked(rows) \in Nat /\ Total([k \in DOMAIN rows |-> rows[k].total]) = Staked(rows)
  BY <1>1, TotalsType, StakedIs
<1>4. Bond * Cardinality(providers) \in Nat
  BY <1>2, OneMore
<1> QED
  BY <1>1, <1>2, <1>3, <1>4 DEF ProviderInv, ProviderConserved

\* The same of the books after a step.
LEMMA FundsAfter ==
  ASSUME AreRows(rows'), wallet' + Bond * Cardinality(providers') + Staked(rows') + burned' = Funds
  PROVE  ProviderConserved'
<1>1. Total([k \in DOMAIN rows' |-> rows'[k].total]) = Staked(rows')
  BY StakedIs
<1> QED
  BY <1>1 DEF ProviderConserved

\* The books agree when one key's row and requests changed together.
LEMMA BalancedAfter ==
  ASSUME NEW R, NEW Q, Balanced(R, Q), NEW key \in StakeKeys, NEW row, NEW N, PutsRow(N, R, key, row),
         NEW M, \A k \in StakeKeys \ {key} : Owed(M, k) = Owed(Q, k),
         row.total = row.available + row.pending, row.pending = Owed(M, key)
  PROVE  Balanced(N, M)
BY DEF Balanced, PutsRow

\* At first.
LEMMA ProviderStart == ASSUME ProviderInit PROVE ProviderInv
<1>1. DOMAIN rows = {} /\ DOMAIN requests = {} /\ rows = [k \in DOMAIN rows |-> rows[k]] /\ requests = [k \in DOMAIN requests |-> requests[k]]
  BY DEF ProviderInit, Empty
<1>2. AreRows(rows) /\ AreRequests(requests)
  BY <1>1, FS_EmptySet DEF AreRows, AreRequests
<1>3. ProviderType
  BY <1>1, <1>2, ProviderAssumption DEF ProviderType, ProviderInit
<1>4. ASSUME NEW k \in StakeKeys PROVE RowAt(rows, k) = EmptyRow /\ Owed(requests, k) = 0
  <2>1. Asked(requests, k) = [i \in {} |-> Asked(requests, k)[i]]
    BY <1>1 DEF Asked
  <2>2. Owed(requests, k) = 0
    BY <2>1, TotalEmpty DEF Owed
  <2> QED
    BY <1>1, <2>2 DEF RowAt, Get
<1>5. Balanced(rows, requests)
  BY <1>4 DEF Balanced, EmptyRow
<1>6. Total([k \in DOMAIN rows |-> rows[k].total]) = 0
  BY <1>1, TotalEmpty
<1>7. Bond * Cardinality(providers) = 0
  BY ProviderAssumption, FS_EmptySet DEF ProviderInit
<1>8. ProviderConserved
  BY <1>6, <1>7, ProviderAssumption DEF ProviderConserved, ProviderInit
<1> QED
  BY <1>3, <1>5, <1>8 DEF ProviderInv

\* Registration takes the bond.
LEMMA RegisterProviderKeeps == ASSUME ProviderInv, NEW p \in StakedProviders, RegisterProvider(p) PROVE ProviderInv'
<1>1. /\ p \notin providers /\ wallet >= Bond /\ providers' = providers \cup {p} /\ wallet' = wallet - Bond
      /\ rows' = rows /\ requests' = requests /\ nextRequest' = nextRequest /\ burned' = burned /\ now' = now
  BY DEF RegisterProvider
<1>2. ProviderType'
  BY <1>1, ProviderAssumption DEF ProviderType, ProviderInv
<1>3. Balanced(rows, requests)'
  BY <1>1 DEF ProviderInv
<1> DEFINE c == Cardinality(providers)
           s == Staked(rows)
<1>4. wallet + Bond * c + s + burned = Funds /\ Bond * c \in Nat /\ s \in Nat /\ c \in Nat /\ Bond \in Nat /\ IsFiniteSet(providers)
  BY FundsAre
<1>5. Cardinality(providers') = c + 1
  BY <1>1, <1>4, FS_AddElement
<1>6. wallet \in Nat /\ burned \in Nat
  BY DEF ProviderInv, ProviderType
<1> HIDE DEF c, s
<1>7. Bond * (c + 1) = Bond * c + Bond
  BY <1>4, OneMore
<1>8. (wallet - Bond) + Bond * (c + 1) + s + burned = Funds
  <2> DEFINE bc == Bond * c
  <2>1. bc \in Nat /\ Bond * (c + 1) = bc + Bond /\ wallet + bc + s + burned = Funds
    BY <1>4, <1>7
  <2> HIDE DEF bc
  <2>2. (wallet - Bond) + (bc + Bond) + s + burned = Funds
    BY <1>4, <1>6, <2>1
  <2> QED
    BY <2>1, <2>2
<1>9. AreRows(rows') /\ wallet' + Bond * Cardinality(providers') + Staked(rows') + burned' = Funds
  BY <1>1, <1>2, <1>5, <1>8 DEF ProviderType, s
<1> QED
  BY <1>2, <1>3, <1>9, FundsAfter DEF ProviderInv

\* Deregistration gives it back.
LEMMA DeregisterProviderKeeps == ASSUME ProviderInv, NEW p \in StakedProviders, DeregisterProvider(p) PROVE ProviderInv'
<1>1. /\ p \in providers /\ providers' = providers \ {p} /\ wallet' = wallet + Bond
      /\ rows' = rows /\ requests' = requests /\ nextRequest' = nextRequest /\ burned' = burned /\ now' = now
  BY DEF DeregisterProvider
<1>2. ProviderType'
  BY <1>1, ProviderAssumption DEF ProviderType, ProviderInv
<1>3. Balanced(rows, requests)'
  BY <1>1 DEF ProviderInv
<1> DEFINE c == Cardinality(providers)
           d == Cardinality(providers \ {p})
           s == Staked(rows)
<1>4. wallet + Bond * c + s + burned = Funds /\ Bond * c \in Nat /\ s \in Nat /\ c \in Nat /\ Bond \in Nat /\ IsFiniteSet(providers)
  BY FundsAre
<1>5. IsFiniteSet(providers \ {p}) /\ d = c - 1
  BY <1>1, <1>4, FS_RemoveElement
<1>6. d \in Nat /\ wallet \in Nat /\ burned \in Nat
  BY <1>5, FS_CardinalityType DEF ProviderInv, ProviderType
<1> HIDE DEF c, s, d
<1>7. c = d + 1 /\ Bond * (d + 1) = Bond * d + Bond /\ Bond * d \in Nat
  BY <1>4, <1>5, <1>6, OneMore
<1>8. (wallet + Bond) + Bond * d + s + burned = Funds
  <2> DEFINE bd == Bond * d
  <2>1. bd \in Nat /\ Bond * c = bd + Bond
    BY <1>7
  <2>2. wallet + (bd + Bond) + s + burned = Funds
    BY <1>4, <2>1
  <2> HIDE DEF bd
  <2>3. (wallet + Bond) + bd + s + burned = Funds
    BY <1>4, <1>6, <2>1, <2>2
  <2> QED
    BY <2>3 DEF bd
<1>9. AreRows(rows') /\ wallet' + Bond * Cardinality(providers') + Staked(rows') + burned' = Funds
  BY <1>1, <1>2, <1>8 DEF ProviderType, s, d
<1> QED
  BY <1>2, <1>3, <1>9, FundsAfter DEF ProviderInv
-----------------------------------------------------------------------------
\* A step that changes the row and the requests of one key, and pays what the row loses.
LEMMA RowMoves ==
  ASSUME ProviderInv, NEW key \in StakeKeys, NEW row \in RowSet, PutsRow(rows', rows, key, row),
         AreRequests(requests'), \A k \in StakeKeys \ {key} : Owed(requests', k) = Owed(requests, k),
         row.total = row.available + row.pending, row.pending = Owed(requests', key),
         wallet' \in Nat, burned' \in Nat, wallet' + row.total + burned' = wallet + RowAt(rows, key).total + burned,
         providers' = providers, now' = now, nextRequest' \in Nat, \A i \in DOMAIN requests' : i < nextRequest'
  PROVE  ProviderInv'
<1>1. AreRows(rows') /\ AreRows(rows) /\ RowAt(rows, key) \in RowSet
  BY RowIn DEF PutsRow, ProviderInv, ProviderType
<1>2. ProviderType'
  BY <1>1 DEF ProviderType, ProviderInv
<1>3. Balanced(rows, requests)'
  BY BalancedAfter DEF ProviderInv
<1> DEFINE bc == Bond * Cardinality(providers)
           s == Staked(rows)
           t == Staked(rows')
           old == RowAt(rows, key).total
           new == row.total
           w == wallet'
           b == burned'
<1>4. wallet + bc + s + burned = Funds /\ bc \in Nat /\ s \in Nat
  BY FundsAre
<1>5. t + old = s + new /\ t \in Nat
  BY <1>1, StakedMoved
<1>6. old \in Nat /\ new \in Nat /\ wallet \in Nat /\ burned \in Nat
  BY <1>1 DEF RowSet, ProviderInv, ProviderType
<1>7. w + new + b = wallet + old + burned /\ w \in Nat /\ b \in Nat
  OBVIOUS
<1> HIDE DEF bc, s, t, old, new, w, b
<1>8. w + bc + t + b = Funds
  BY <1>4, <1>5, <1>6, <1>7
<1>9. wallet' + Bond * Cardinality(providers') + Staked(rows') + burned' = Funds
  BY <1>8 DEF bc, t, w, b
<1> QED
  BY <1>1, <1>2, <1>3, <1>9, FundsAfter DEF ProviderInv

\* What the invariant says of a row.
LEMMA RowIs ==
  ASSUME ProviderInv, NEW key \in StakeKeys
  PROVE  LET row == RowAt(rows, key)
         IN /\ row \in RowSet /\ row.total \in Nat /\ row.available \in Nat /\ row.pending \in Nat
            /\ row = [total |-> row.total, available |-> row.available, pending |-> row.pending]
            /\ row.total = row.available + row.pending /\ row.pending = Owed(requests, key)
            /\ key \in DOMAIN rows => row = rows[key]
<1>1. RowAt(rows, key) \in RowSet
  BY RowIn DEF ProviderInv, ProviderType
<1>2. RowAt(rows, key).total = RowAt(rows, key).available + RowAt(rows, key).pending /\ RowAt(rows, key).pending = Owed(requests, key)
  BY DEF ProviderInv, Balanced
<1>3. key \in DOMAIN rows => RowAt(rows, key) = rows[key]
  BY DEF RowAt, Get
<1> HIDE DEF RowAt
<1> QED
  BY <1>1, <1>2, <1>3 DEF RowSet

\* Stake for a class.
LEMMA StakeForClassKeeps ==
  ASSUME ProviderInv, NEW key \in StakeKeys, NEW a \in ProviderAmounts, StakeForClass(key, a)
  PROVE  ProviderInv'
<1> DEFINE old == RowAt(rows, key)
           row == [old EXCEPT !.total = @ + a, !.available = @ + a]
<1>1. /\ wallet >= a /\ wallet' = wallet - a /\ rows' = Put(rows, key, row)
      /\ providers' = providers /\ requests' = requests /\ nextRequest' = nextRequest /\ burned' = burned /\ now' = now
  BY DEF StakeForClass, RowOf, RowAt
<1>2. /\ old \in RowSet /\ old.total \in Nat /\ old.available \in Nat /\ old.pending \in Nat
      /\ old = [total |-> old.total, available |-> old.available, pending |-> old.pending]
      /\ old.total = old.available + old.pending /\ old.pending = Owed(requests, key)
  BY RowIs
<1>3. a \in Nat /\ wallet \in Nat /\ burned \in Nat /\ nextRequest \in Nat /\ AreRows(rows) /\ AreRequests(requests)
      /\ \A i \in DOMAIN requests : i < nextRequest
  BY ProviderAssumption DEF ProviderInv, ProviderType
<1> HIDE DEF old
<1>4. row \in RowSet /\ row.total = old.total + a /\ row.available = old.available + a /\ row.pending = old.pending
  <2> DEFINE x == old.total + a
             y == old.available + a
  <2>1. x \in Nat /\ y \in Nat /\ row = [old EXCEPT !.total = x, !.available = y]
    BY <1>2, <1>3
  <2> HIDE DEF x, y, row
  <2>2. row \in RowSet /\ row.total = x /\ row.available = y /\ row.pending = old.pending
    BY <1>2, <2>1 DEF RowSet
  <2> QED
    BY <2>2 DEF x, y
<1> HIDE DEF row
<1>5. PutsRow(rows', rows, key, row)
  BY <1>1, <1>3, <1>4, PutIs
<1>6. row.total = row.available + row.pending
  BY <1>2, <1>3, <1>4
<1>7. wallet' \in Nat /\ wallet' + row.total + burned' = wallet + old.total + burned
  <2> DEFINE x == old.total
             y == row.total
  <2>1. x \in Nat /\ y = x + a
    BY <1>2, <1>4
  <2> HIDE DEF x, y
  <2>2. wallet - a \in Nat /\ (wallet - a) + y + burned = wallet + x + burned
    BY <1>1, <1>3, <2>1
  <2> QED
    BY <1>1, <2>2 DEF x, y
<1> QED
  BY <1>1, <1>2, <1>3, <1>4, <1>5, <1>6, <1>7, RowMoves DEF old

\* A new request asks what it says, of its key.
LEMMA OwedMore ==
  ASSUME NEW Q, AreRequests(Q), NEW n \in Nat, n \notin DOMAIN Q, NEW r \in RequestSet
  PROVE  LET N == Put(Q, n, r)
         IN /\ AreRequests(N) /\ DOMAIN N = DOMAIN Q \cup {n} /\ Owed(N, r.key) = Owed(Q, r.key) + r.amount
            /\ \A k : k # r.key => Owed(N, k) = Owed(Q, k)
<1> DEFINE N == Put(Q, n, r)
           key == r.key
<1>1. N = [k \in DOMAIN Q \cup {n} |-> IF k = n THEN r ELSE Q[k]]
  BY DEF Put
<1>2. DOMAIN N = DOMAIN Q \cup {n} /\ N[n] = r /\ \A k \in DOMAIN Q : N[k] = Q[k]
  BY <1>1
<1> HIDE DEF N
<1>3. AreRequests(N)
  <2>1. N = [k \in DOMAIN N |-> N[k]]
    BY <1>1, <1>2
  <2>2. IsFiniteSet(DOMAIN Q) /\ DOMAIN Q \subseteq Nat /\ \A k \in DOMAIN Q : Q[k] \in RequestSet
    BY DEF AreRequests
  <2>3. IsFiniteSet(DOMAIN N) /\ DOMAIN N \subseteq Nat
    BY <1>2, <2>2, FS_AddElement
  <2>4. \A k \in DOMAIN N : N[k] \in RequestSet
    BY <1>2, <2>2
  <2> QED
    BY <2>1, <2>3, <2>4 DEF AreRequests
<1>4. ASSUME NEW k, NEW i \in DOMAIN Q PROVE AmountAt(N, i, k) = AmountAt(Q, i, k)
  BY <1>2 DEF AmountAt
<1>5. AmountAt(Q, n, key) = 0 /\ AmountAt(N, n, key) = r.amount /\ r.amount \in Nat
  BY <1>2 DEF AmountAt, RequestSet
<1>6. ASSUME NEW k, k # r.key PROVE Owed(N, k) = Owed(Q, k)
  <2>1. AmountAt(N, n, k) = AmountAt(Q, n, k)
    BY <1>2, <1>6 DEF AmountAt
  <2>2. \A i \in DOMAIN Q \cup DOMAIN N : AmountAt(N, i, k) = AmountAt(Q, i, k)
    BY <1>2, <1>4, <2>1
  <2> QED
    BY <1>3, <2>2, OwedSame
<1>7. Owed(N, key) + AmountAt(Q, n, key) = Owed(Q, key) + AmountAt(N, n, key)
  <2>1. n \in DOMAIN Q \cup DOMAIN N /\ \A i \in (DOMAIN Q \cup DOMAIN N) \ {n} : AmountAt(N, i, key) = AmountAt(Q, i, key)
    BY <1>2, <1>4
  <2> HIDE DEF key
  <2> QED
    BY <1>3, <2>1, OwedMoved
<1>8. Owed(N, key) \in Nat
  <2>1. IsFiniteSet(DOMAIN N)
    BY <1>3 DEF AreRequests
  <2> HIDE DEF key
  <2> QED
    BY <1>3, <2>1, OwedIs
<1> DEFINE x == Owed(N, key)
           y == Owed(Q, key)
<1>9. x + 0 = y + r.amount /\ x \in Nat
  BY <1>5, <1>7, <1>8
<1> HIDE DEF x, y
<1>10. x = y + r.amount
  BY <1>9
<1> QED
  BY <1>2, <1>3, <1>6, <1>10 DEF N, x, y

\* A request that is closed.
LEMMA OwedLess ==
  ASSUME NEW Q, AreRequests(Q), NEW id \in DOMAIN Q
  PROVE  LET N == Without(Q, {id})
         IN /\ AreRequests(N) /\ DOMAIN N = DOMAIN Q \ {id} /\ Owed(N, Q[id].key) + Q[id].amount = Owed(Q, Q[id].key)
            /\ Owed(N, Q[id].key) \in Nat /\ Q[id].amount \in Nat
            /\ \A k : k # Q[id].key => Owed(N, k) = Owed(Q, k)
<1> DEFINE N == Without(Q, {id})
           key == Q[id].key
<1>0. /\ Q = [i \in DOMAIN Q |-> Q[i]] /\ DOMAIN Q \subseteq Nat /\ IsFiniteSet(DOMAIN Q)
      /\ \A i \in DOMAIN Q : Q[i] \in RequestSet
  BY DEF AreRequests
<1>1. N = [k \in DOMAIN Q \ {id} |-> Q[k]]
  BY DEF Without
<1>2. DOMAIN N = DOMAIN Q \ {id} /\ \A k \in DOMAIN N : N[k] = Q[k]
  BY <1>1
<1> HIDE DEF N
<1>3. AreRequests(N)
  <2>1. N = [k \in DOMAIN N |-> N[k]]
    BY <1>1, <1>2
  <2>2. IsFiniteSet(DOMAIN N) /\ DOMAIN N \subseteq Nat
    BY <1>0, <1>2, FS_Subset
  <2>3. \A k \in DOMAIN N : N[k] \in RequestSet
    BY <1>0, <1>2
  <2> QED
    BY <2>1, <2>2, <2>3 DEF AreRequests
<1>4. ASSUME NEW k, NEW i \in DOMAIN Q \ {id} PROVE AmountAt(N, i, k) = AmountAt(Q, i, k)
  BY <1>2 DEF AmountAt
<1>5. AmountAt(N, id, key) = 0 /\ AmountAt(Q, id, key) = Q[id].amount /\ Q[id].amount \in Nat
  BY <1>0, <1>2 DEF AmountAt, RequestSet
<1>6. ASSUME NEW k, k # key PROVE Owed(N, k) = Owed(Q, k)
  <2>1. AmountAt(N, id, k) = AmountAt(Q, id, k)
    BY <1>2, <1>6 DEF AmountAt
  <2>2. \A i \in DOMAIN Q \cup DOMAIN N : AmountAt(N, i, k) = AmountAt(Q, i, k)
    BY <1>2, <1>4, <2>1
  <2> QED
    BY <1>3, <2>2, OwedSame
<1>7. Owed(N, key) + AmountAt(Q, id, key) = Owed(Q, key) + AmountAt(N, id, key)
  <2>1. id \in DOMAIN Q \cup DOMAIN N /\ \A i \in (DOMAIN Q \cup DOMAIN N) \ {id} : AmountAt(N, i, key) = AmountAt(Q, i, key)
    BY <1>2, <1>4
  <2> HIDE DEF key
  <2> QED
    BY <1>3, <2>1, OwedMoved
<1>8. Owed(N, key) \in Nat /\ Owed(Q, key) \in Nat
  <2>1. IsFiniteSet(DOMAIN N)
    BY <1>3 DEF AreRequests
  <2> HIDE DEF key
  <2> QED
    BY <1>0, <1>3, <2>1, OwedIs
<1> DEFINE x == Owed(N, key)
           y == Owed(Q, key)
           z == Q[id].amount
<1>9. x + z = y + 0 /\ x \in Nat /\ y \in Nat /\ z \in Nat
  BY <1>5, <1>7, <1>8
<1> HIDE DEF x, y, z
<1>10. x + z = y
  BY <1>9
<1> QED
  BY <1>2, <1>3, <1>5, <1>6, <1>8, <1>10 DEF N, x, y, z
-----------------------------------------------------------------------------
\* A request to leave.
LEMMA RequestUnstakeKeeps ==
  ASSUME ProviderInv, NEW key \in StakeKeys, NEW a \in ProviderAmounts, RequestUnstake(key, a)
  PROVE  ProviderInv'
<1> DEFINE old == RowAt(rows, key)
           row == [old EXCEPT !.available = @ - a, !.pending = @ + a]
           r == [key |-> key, amount |-> a, release |-> now + UnstakeDelay]
<1>1. key \in DOMAIN rows /\ old = rows[key]
  BY DEF RequestUnstake, RowAt, Get
<1>2. /\ old.available >= a /\ rows' = Put(rows, key, row) /\ requests' = Put(requests, nextRequest, r)
      /\ providers' = providers /\ wallet' = wallet /\ nextRequest' = nextRequest + 1 /\ burned' = burned /\ now' = now
  BY <1>1 DEF RequestUnstake
<1>3. /\ old \in RowSet /\ old.total \in Nat /\ old.available \in Nat /\ old.pending \in Nat
      /\ old.total = old.available + old.pending /\ old.pending = Owed(requests, key)
  BY RowIs
<1>4. a \in Nat /\ wallet \in Nat /\ burned \in Nat /\ nextRequest \in Nat /\ AreRows(rows) /\ AreRequests(requests)
      /\ (\A i \in DOMAIN requests : i < nextRequest) /\ now \in Nat /\ UnstakeDelay \in Nat
  BY ProviderAssumption DEF ProviderInv, ProviderType
<1>5. r \in RequestSet /\ r.key = key /\ r.amount = a
  BY <1>4 DEF RequestSet
<1>6. nextRequest \notin DOMAIN requests
  BY <1>4
<1> HIDE DEF r, old
<1>7. /\ AreRequests(requests') /\ DOMAIN requests' = DOMAIN requests \cup {nextRequest} /\ Owed(requests', key) = Owed(requests, key) + a
      /\ \A k : k # key => Owed(requests', k) = Owed(requests, k)
  BY <1>2, <1>4, <1>5, <1>6, OwedMore
<1>8. row \in RowSet /\ row.total = old.total /\ row.available = old.available - a /\ row.pending = old.pending + a
  <2> DEFINE y == old.available - a
             z == old.pending + a
  <2>1. z \in Nat /\ y \in Nat /\ row = [old EXCEPT !.available = y, !.pending = z]
    BY <1>2, <1>3, <1>4
  <2> HIDE DEF y, z, row
  <2>2. row \in RowSet /\ row.total = old.total /\ row.available = y /\ row.pending = z
    BY <1>3, <2>1 DEF RowSet
  <2> QED
    BY <2>2 DEF y, z
<1> HIDE DEF row
<1>9. PutsRow(rows', rows, key, row)
  BY <1>2, <1>4, <1>8, PutIs
<1>10. row.total = row.available + row.pending /\ row.pending = Owed(requests', key)
  <2>1. row.pending = Owed(requests', key)
    BY <1>3, <1>7, <1>8
  <2> DEFINE x == old.available
             y == old.pending
  <2>2. x \in Nat /\ y \in Nat /\ row.total = x + y /\ row.available = x - a /\ row.pending = y + a
    BY <1>3, <1>8
  <2> HIDE DEF x, y
  <2>3. x + y = (x - a) + (y + a)
    BY <1>4, <2>2
  <2> QED
    BY <2>1, <2>2, <2>3
<1>11. wallet' + row.total + burned' = wallet + old.total + burned
  BY <1>2, <1>8
<1>12. nextRequest' \in Nat /\ \A i \in DOMAIN requests' : i < nextRequest'
  <2>1. ASSUME NEW i \in DOMAIN requests' PROVE i < nextRequest + 1
    <3>1. i \in Nat /\ (i < nextRequest \/ i = nextRequest)
      BY <1>4, <1>7 DEF AreRequests
    <3> QED
      BY <1>4, <3>1
  <2> QED
    BY <1>2, <1>4, <2>1
<1> QED
  BY <1>2, <1>4, <1>7, <1>8, <1>9, <1>10, <1>11, <1>12, RowMoves DEF old

\* A mature request is paid, and all of it.
LEMMA FinalizeUnstakeKeeps == ASSUME ProviderInv, NEW id \in DOMAIN requests, FinalizeUnstake(id) PROVE ProviderInv'
<1> DEFINE key == requests[id].key
           a == requests[id].amount
           old == RowAt(rows, key)
           row == [old EXCEPT !.pending = @ - a, !.total = @ - a]
<1>1. key \in DOMAIN rows /\ old = rows[key]
  BY DEF FinalizeUnstake, RowAt, Get
<1>2. wallet \in Nat /\ burned \in Nat /\ nextRequest \in Nat /\ AreRows(rows) /\ AreRequests(requests)
      /\ \A i \in DOMAIN requests : i < nextRequest
  BY DEF ProviderInv, ProviderType
<1>3. key \in StakeKeys /\ a \in Nat
  BY <1>2 DEF AreRequests, RequestSet
<1>4. /\ old \in RowSet /\ old.total \in Nat /\ old.available \in Nat /\ old.pending \in Nat
      /\ old.total = old.available + old.pending /\ old.pending = Owed(requests, key)
  BY <1>3, RowIs
<1> DEFINE N == Without(requests, {id})
<1>5. /\ AreRequests(N) /\ DOMAIN N = DOMAIN requests \ {id} /\ Owed(N, key) + a = Owed(requests, key)
      /\ Owed(N, key) \in Nat /\ \A k : k # key => Owed(N, k) = Owed(requests, k)
  BY <1>2, OwedLess
<1>6. Min({a, old.pending, old.total}) = a
  <2> DEFINE x == old.pending
             y == old.total
             z == Owed(N, key)
  <2>1. x \in Nat /\ y \in Nat /\ z \in Nat /\ z + a = x /\ y = old.available + x /\ old.available \in Nat
    BY <1>4, <1>5
  <2> HIDE DEF x, y, z, a
  <2>2. a <= x /\ a <= y
    BY <1>3, <2>1
  <2>3. Min({a, x, y}) = a
    BY <1>3, <2>1, <2>2, MinThree
  <2> QED
    BY <2>3 DEF x, y
<1>7. /\ rows' = WithRow(key, row) /\ wallet' = wallet + a /\ requests' = N
      /\ providers' = providers /\ nextRequest' = nextRequest /\ burned' = burned /\ now' = now
  BY <1>1, <1>6 DEF FinalizeUnstake
<1> HIDE DEF key, a, old, N
<1>8. a <= old.pending /\ a <= old.total
  <2> DEFINE x == old.pending
             y == old.total
             z == Owed(N, key)
  <2>1. x \in Nat /\ y \in Nat /\ z \in Nat /\ z + a = x /\ y = old.available + x /\ old.available \in Nat
    BY <1>4, <1>5
  <2> HIDE DEF x, y, z
  <2>2. a <= x /\ a <= y
    BY <1>3, <2>1
  <2> QED
    BY <2>2 DEF x, y
<1>9. row \in RowSet /\ row.total = old.total - a /\ row.available = old.available /\ row.pending = old.pending - a
  <2> DEFINE x == old.total - a
             z == old.pending - a
  <2>1. x \in Nat /\ z \in Nat /\ row = [old EXCEPT !.pending = z, !.total = x]
    BY <1>3, <1>4, <1>8
  <2> HIDE DEF x, z, row
  <2>2. row \in RowSet /\ row.total = x /\ row.available = old.available /\ row.pending = z
    BY <1>4, <2>1 DEF RowSet
  <2> QED
    BY <2>2 DEF x, z
<1> HIDE DEF row
<1>10. PutsRow(rows', rows, key, row)
  BY <1>2, <1>3, <1>7, <1>9, WithRowIs
<1>11. row.total = row.available + row.pending /\ row.pending = Owed(requests', key)
       /\ wallet' \in Nat /\ wallet' + row.total + burned' = wallet + old.total + burned
  <2> DEFINE v == old.available
             x == old.pending
             y == old.total
             z == Owed(N, key)
  <2>1. /\ x \in Nat /\ y \in Nat /\ z \in Nat /\ v \in Nat /\ z + a = x /\ y = v + x /\ a <= x /\ a <= y
        /\ row.total = y - a /\ row.available = v /\ row.pending = x - a
    BY <1>4, <1>5, <1>8, <1>9
  <2> HIDE DEF v, x, y, z
  <2>2. y - a = v + (x - a) /\ x - a = z /\ wallet + a \in Nat /\ (wallet + a) + (y - a) + burned = wallet + y + burned
    BY <1>2, <1>3, <2>1
  <2> QED
    BY <1>7, <2>1, <2>2 DEF y, z
<1>12. AreRequests(requests') /\ (\A i \in DOMAIN requests' : i < nextRequest') /\ nextRequest' \in Nat /\ burned' \in Nat
       /\ \A k \in StakeKeys \ {key} : Owed(requests', k) = Owed(requests, k)
  BY <1>2, <1>5, <1>7
<1> QED
  BY <1>3, <1>7, <1>9, <1>10, <1>11, <1>12, RowMoves DEF old

\* A slash takes what is available first and then reaches into the requests.
LEMMA SlashProviderKeeps ==
  ASSUME ProviderInv, NEW key \in StakeKeys, NEW a \in ProviderAmounts, SlashProvider(key, a)
  PROVE  ProviderInv'
<1> DEFINE old == RowAt(rows, key)
           cut == Min({a, old.total})
           rest == Minus(cut, old.available)
           row == [old EXCEPT !.available = Minus(@, cut), !.pending = Minus(@, Minus(cut, old.available)), !.total = @ - cut]
<1>1. key \in DOMAIN rows /\ old = rows[key]
  BY DEF SlashProvider, RowAt, Get
<1>2. wallet \in Nat /\ burned \in Nat /\ nextRequest \in Nat /\ AreRows(rows) /\ AreRequests(requests) /\ a \in Nat
      /\ \A i \in DOMAIN requests : i < nextRequest
  BY ProviderAssumption DEF ProviderInv, ProviderType
<1>3. /\ old \in RowSet /\ old.total \in Nat /\ old.available \in Nat /\ old.pending \in Nat
      /\ old.total = old.available + old.pending /\ old.pending = Owed(requests, key)
  BY RowIs
<1>4. SlashedRow(old, a) = row
  BY DEF SlashedRow
<1>5. /\ rows' = WithRow(key, row) /\ requests' = (IF rest > 0 THEN Reduced(key, rest) ELSE requests) /\ burned' = burned + cut
      /\ wallet' = wallet /\ providers' = providers /\ nextRequest' = nextRequest /\ now' = now
  BY <1>1, <1>4 DEF SlashProvider
<1>6. cut \in Nat /\ cut <= old.total
  <2> HIDE DEF old
  <2> QED
    BY <1>2, <1>3, MinTwo
<1> HIDE DEF old, cut
<1> DEFINE v == old.available
           p == old.pending
           t == old.total
           x == t - cut
           y == Minus(v, cut)
           z == Minus(p, rest)
<1>7. v \in Nat /\ p \in Nat /\ t \in Nat /\ t = v + p /\ cut <= t
  BY <1>3, <1>6
<1>8. row = [old EXCEPT !.available = y, !.pending = z, !.total = x]
  OBVIOUS
<1> HIDE DEF row, v, p, t
<1>9. x \in Nat /\ y \in Nat /\ z \in Nat /\ x = y + z /\ rest \in Nat
  BY <1>6, <1>7 DEF Minus, v
<1> HIDE DEF x, y, z, rest
<1>10. row \in RowSet /\ row.total = x /\ row.available = y /\ row.pending = z
  BY <1>3, <1>8, <1>9 DEF RowSet
<1>11. PutsRow(rows', rows, key, row)
  BY <1>2, <1>5, <1>10, WithRowIs
<1>12. /\ AreRequests(requests') /\ DOMAIN requests' \subseteq DOMAIN requests
       /\ Owed(requests', key) = z
       /\ \A k : k # key => Owed(requests', k) = Owed(requests, k)
  <2>1. CASE rest > 0
    <3>1. requests' = Reduced(key, rest)
      BY <1>5, <2>1
    <3>2. /\ AreRequests(requests') /\ DOMAIN requests' \subseteq DOMAIN requests
          /\ Owed(requests', key) = Minus(Owed(requests, key), rest)
          /\ \A k : k # key => Owed(requests', k) = Owed(requests, k)
      BY <1>2, <1>9, <3>1, ReducedIs
    <3> QED
      BY <1>3, <3>2 DEF z, p
  <2>2. CASE ~(rest > 0)
    <3>1. requests' = requests /\ rest = 0
      BY <1>5, <1>9, <2>2
    <3>2. z = p
      BY <1>7, <3>1 DEF z, Minus
    <3> QED
      BY <1>2, <1>3, <3>1, <3>2 DEF p
  <2> QED
    BY <2>1, <2>2
<1>13. row.total = row.available + row.pending /\ row.pending = Owed(requests', key)
  BY <1>9, <1>10, <1>12
<1>14. burned' \in Nat /\ wallet' + row.total + burned' = wallet + old.total + burned
  <2>1. burned + cut \in Nat /\ wallet + (t - cut) + (burned + cut) = wallet + t + burned
    BY <1>2, <1>6, <1>7
  <2> QED
    BY <1>5, <1>10, <2>1 DEF x, t
<1>15. (\A i \in DOMAIN requests' : i < nextRequest') /\ nextRequest' \in Nat /\ wallet' \in Nat
  BY <1>2, <1>5, <1>12
<1> QED
  BY <1>5, <1>10, <1>11, <1>12, <1>13, <1>14, <1>15, RowMoves DEF old

\* Every step keeps the invariant.
LEMMA ProviderKeeps == ASSUME ProviderInv, ProviderNext PROVE ProviderInv'
<1>1. ASSUME PassTime PROVE ProviderInv'
  <2>1. now' \in Nat /\ UNCHANGED <<wallet, providers, rows, requests, nextRequest, burned>>
    BY <1>1 DEF PassTime, ProviderInv, ProviderType
  <2>2. ProviderType' /\ Balanced(rows, requests)'
    BY <2>1 DEF ProviderInv, ProviderType
  <2>3. ProviderConserved'
    BY <2>1 DEF ProviderInv, ProviderConserved
  <2> QED
    BY <2>2, <2>3 DEF ProviderInv
<1> QED
  BY <1>1, RegisterProviderKeeps, DeregisterProviderKeeps, StakeForClassKeeps, RequestUnstakeKeeps, FinalizeUnstakeKeeps,
     SlashProviderKeeps DEF ProviderNext

\* The invariant of the providers' stakes.
LEMMA ProviderAlways == ProviderSpec => []ProviderInv
<1>1. ProviderInit => ProviderInv
  BY ProviderStart
<1>2. ProviderInv /\ [ProviderNext]_providerVars => ProviderInv'
  <2>1. ASSUME ProviderInv, UNCHANGED providerVars PROVE ProviderInv'
    <3>1. UNCHANGED <<wallet, providers, rows, requests, nextRequest, burned, now>>
      BY <2>1 DEF providerVars
    <3>2. ProviderType' /\ Balanced(rows, requests)'
      BY <2>1, <3>1 DEF ProviderInv, ProviderType
    <3>3. ProviderConserved'
      BY <2>1, <3>1 DEF ProviderInv, ProviderConserved
    <3> QED
      BY <3>2, <3>3 DEF ProviderInv
  <2> QED
    BY <2>1, ProviderKeeps
<1> QED
  BY <1>1, <1>2, PTL DEF ProviderSpec

\* Money is accounted for, whatever the parties do (agent-life/src/lib.rs, consensus_stake.rs,
\* block_finalize.rs, wallet_provider.rs): estates pass on whole; deposits, block rewards with
\* their two roundings, commissions, redelegation and slashing make no wei, and lose one only by
\* a burn, a slash or a reward taken for nobody; the stake of a validator is the sum of its
\* shares and of the rewards that came when it had none; a provider's row is what is available
\* and what its open requests ask, also after a slash that reaches into them.
THEOREM MoneyIsConserved == LifeSpec /\ StakeSpec /\ ProviderSpec => []MoneyConserved
<1>1. StakeInv => StakeConserved /\ SharesBacked
  BY DEF StakeInv
<1>2. ProviderInv => ProviderConserved /\ RowsBalance
  BY RowsBalanceIs DEF ProviderInv
<1>3. EstatesSafe /\ StakeInv /\ ProviderInv => MoneyConserved
  BY <1>1, <1>2 DEF MoneyConserved, StakesSafe
<1> QED
  BY <1>3, EstatesAreSafe, StakeAlways, ProviderAlways, PTL
=============================================================================
