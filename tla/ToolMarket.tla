----------------------------- MODULE ToolMarket -----------------------------
(***************************************************************************)
(* The market for tool calls of crates/wallet: intents, quotes, receipts,  *)
(* the challenge window and its adjudication (market.rs, challenge.rs),    *)
(* the budget account of the paying agent (budget.rs) and the reputation   *)
(* ledgers kept beside the market (reputation_market.rs).                  *)
(*                                                                         *)
(* The market is handed the budget and the stake to use by its caller; it  *)
(* is the agent's one budget and the stake of the quote's provider here.   *)
(* Signatures hold.  The score computed from a ledger is in reputation.rs; *)
(* its failed settlements are left out, since nothing here counts any.     *)
(***************************************************************************)
EXTENDS Values

CONSTANTS
  Intents,           \* ids; TierOf, ClassOf, MaxPriceOf and ClientOf describe them
  TierOf, ClassOf, MaxPriceOf, ClientOf,
  Quotes,            \* id, intent, provider, price, expiry
  Providers, StakeOf,
  TaskDeposit,           \* total_deposited
  CapOf,             \* per_tool_caps: class -> amount
  SlashMultiplier,
  ChallengeWindow,   \* DEFAULT_OPTIMISTIC_CHALLENGE_MS
  MaxDeposit,        \* bound: total_deposited
  MaxTime,           \* bound: the clock
  MaxLeaks,          \* bound: matches that fail after the stake is locked
  Rep,               \* ReputationParams, BootstrapStakeParams and their units
  StakeSignals,      \* the stakes a caller reports for a provider
  MaxReports         \* bound: slashes reported from outside

\* Prices, stakes and weights are u128 or u64, the units of a score are not zero
\* and a quote is one of a staked provider.
ASSUME MarketAssumption ==
  /\ \A q \in Quotes : q.provider \in Providers /\ q.price \in Nat
  /\ StakeOf \in [Providers -> Nat] /\ "none" \notin Providers
  /\ {TaskDeposit, SlashMultiplier, ChallengeWindow} \subseteq Nat
  /\ StakeSignals \subseteq Nat
  /\ {Rep.success, Rep.halfLife, Rep.slash, Rep.age, Rep.stakeLog, Rep.diversity, Rep.maxClients,
      Rep.zeroStake, Rep.fullTrust, Rep.bps} \subseteq Nat
  /\ {Rep.micro, Rep.milli, Rep.day} \subseteq Nat \ {0}

VARIABLES
  intents,     \* IntentState of every posted intent
  budget,      \* BudgetAccount
  stake,       \* ProviderStake
  ledger,      \* ReputationLedgerSummary by provider and class
  clock, leaks,
  signal,      \* TrackerCore.stakes, which every ledger of the provider repeats
  reports      \* history: slashes reported from outside, by provider and class

marketVars == <<intents, budget, stake, ledger, clock, leaks, signal, reports>>

NewIntent == [state |-> "proposed", provider |-> "none", reserved |-> 0, locked |-> 0, deadline |-> 0,
              delivered |-> 0]

NewLedger == [successful |-> <<>>, slashes |-> 0, firstSeen |-> clock, now |-> clock, clients |-> {}]

Live(i) == intents[i].state \in {"matched", "delivered", "disputed"}

MarketInit ==
  /\ intents = Empty
  /\ budget = [deposited |-> TaskDeposit, reserved |-> 0, spent |-> 0]
  /\ stake = [p \in Providers |-> [amount |-> StakeOf[p], locked |-> 0]]
  /\ ledger = Empty
  /\ clock = 0 /\ leaks = 0
  /\ signal = [p \in Providers |-> 0] /\ reports = <<>>

\* Seeded defect: what was spent can be reserved again.
AvailableUnspent == Minus(budget.deposited, budget.reserved)

Available == Minus(Minus(budget.deposited, budget.reserved), budget.spent)

\* BudgetAccount::reserve: the cap is one on every call, not on their sum.
CanReserve(class, n) == n <= CapOf[class] /\ n <= Available

\* BudgetAccount::settle, also as the settling half of partial_settle
Settled(n) == [budget EXCEPT !.reserved = @ - n, !.spent = @ + n]

\* BudgetAccount::refund
Refunded(n) == [budget EXCEPT !.reserved = @ - n]

\* Seeded defect: all of a provider's stake is released.
UnlockedAll(p, n) == [stake EXCEPT ![p].locked = 0]

Unlocked(p, n) == [stake EXCEPT ![p].locked = Minus(@, n)]

\* TrackerCore::ledger_mut and touch_client
Touched(i, p, now) ==
  LET k == <<p, ClassOf[i]>>
      l == Get(ledger, k, NewLedger)
  IN [l EXCEPT !.now = now, !.clients = @ \cup {ClientOf[i]}]

\* TrackerCore::on_settled_paid
OnSettledPaid(i, now) ==
  LET r == intents[i]
  IN Put(ledger, <<r.provider, ClassOf[i]>>,
         [Touched(i, r.provider, now) EXCEPT
            !.successful = Append(@, [at |-> r.delivered, weight |-> Max({r.reserved, 1})])])

\* TrackerCore::on_slash
OnSlash(p, class, now) ==
  LET l == Get(ledger, <<p, class>>, NewLedger)
  IN Put(ledger, <<p, class>>, [l EXCEPT !.slashes = @ + 1, !.now = now])

\* recency_factor_micro
RecencyFactor(at, now) ==
  IF Rep.halfLife = 0 THEN Rep.micro
  ELSE (Rep.micro * Rep.halfLife) \div (Rep.halfLife + Minus(now, at))

\* ilog2_u128
Ilog2(x) == Max({0} \cup {k \in 1 .. x : 2 ^ k <= x})

\* compute_reputation_score_milli: every part is rounded by itself, and the score
\* is as of the last time the ledger was touched.
Score(l, staked) ==
  LET earned == SumSeq(l.successful, LAMBDA e :
                  ((Rep.success * e.weight * RecencyFactor(e.at, l.now)) \div Rep.micro) \div Rep.milli)
      age == (Rep.age * (Minus(l.now, l.firstSeen) \div Rep.day)) \div Rep.milli
      backed == (Rep.stakeLog * Ilog2(staked + 1)) \div Rep.milli
      diverse == (Rep.diversity * Min({Cardinality(l.clients), Rep.maxClients})) \div Rep.milli
  IN Minus(earned + age + backed + diverse, (Rep.slash * l.slashes) \div Rep.milli)

\* Seeded defect: the extra stake grows with the score.
StakeMultiplierRising(score) ==
  IF score >= Rep.fullTrust THEN Rep.bps
  ELSE Rep.bps + (Minus(Rep.zeroStake, Rep.bps) * score) \div Rep.fullTrust

\* bootstrap_stake_multiplier_bps
StakeMultiplier(score) ==
  IF score >= Rep.fullTrust THEN Rep.bps
  ELSE Rep.bps + (Minus(Rep.zeroStake, Rep.bps) * (Rep.fullTrust - score)) \div Rep.fullTrust
-----------------------------------------------------------------------------
PostIntent(i) ==
  /\ i \notin DOMAIN intents
  /\ intents' = Put(intents, i, NewIntent)
  /\ UNCHANGED <<budget, stake, ledger, clock, leaks, signal, reports>>

Matches(i, q) ==
  /\ intents[i].state = "proposed"
  /\ q.intent = i
  /\ q.price <= MaxPriceOf[i]
  /\ clock <= q.expiry
  /\ q.price * SlashMultiplier <= Minus(stake[q.provider].amount, stake[q.provider].locked)

\* match_intent: the stake is locked, then the budget reserved.
MatchIntent(i, q) ==
  /\ Matches(i, q)
  /\ CanReserve(ClassOf[i], q.price)
  /\ stake' = [stake EXCEPT ![q.provider].locked = @ + q.price * SlashMultiplier]
  /\ budget' = [budget EXCEPT !.reserved = @ + q.price]
  /\ intents' = [intents EXCEPT ![i] = [@ EXCEPT !.state = "matched", !.provider = q.provider,
                                                 !.reserved = q.price,
                                                 !.locked = q.price * SlashMultiplier]]
  /\ ledger' = Put(ledger, <<q.provider, ClassOf[i]>>, Touched(i, q.provider, clock))
  /\ UNCHANGED <<clock, leaks, signal, reports>>

\* match_intent when the budget refuses: the stake stays locked.
MatchFails(i, q) ==
  /\ Matches(i, q)
  /\ ~CanReserve(ClassOf[i], q.price)
  /\ leaks < MaxLeaks /\ leaks' = leaks + 1
  /\ stake' = [stake EXCEPT ![q.provider].locked = @ + q.price * SlashMultiplier]
  /\ UNCHANGED <<intents, budget, ledger, clock, signal, reports>>

PostReceipt(i) ==
  /\ intents[i].state = "matched"
  /\ intents' = [intents EXCEPT ![i] =
       [@ EXCEPT !.state = "delivered", !.delivered = clock,
                 !.deadline = clock + (IF TierOf[i] = "trusted" THEN 0 ELSE ChallengeWindow)]]
  /\ UNCHANGED <<budget, stake, ledger, clock, leaks, signal, reports>>

\* The intent is paid and the stake released.
PayOut(i, now) ==
  LET r == intents[i]
  IN /\ r.reserved <= budget.reserved
     /\ budget' = Settled(r.reserved)
     /\ stake' = Unlocked(r.provider, r.locked)
     /\ intents' = [intents EXCEPT ![i].state = "paid"]
     /\ ledger' = OnSettledPaid(i, now)

SettleAfterWindow(i) ==
  /\ intents[i].state = "delivered"
  /\ clock >= intents[i].deadline
  /\ PayOut(i, clock)
  /\ UNCHANGED <<clock, leaks, signal, reports>>

\* settle_trusted settles as if it were the deadline, whatever the tier.
SettleTrusted(i) ==
  /\ intents[i].state = "delivered"
  /\ PayOut(i, intents[i].deadline)
  /\ UNCHANGED <<clock, leaks, signal, reports>>

SubmitChallenge(i) ==
  /\ intents[i].state = "delivered"
  /\ clock < intents[i].deadline
  /\ intents' = [intents EXCEPT ![i].state = "disputed"]
  /\ UNCHANGED <<budget, stake, ledger, clock, leaks, signal, reports>>

\* resolve_challenge.  When the challenger wins, the stake is unlocked too.
ResolveChallenge(i, decision) ==
  /\ intents[i].state = "disputed"
  /\ \/ decision = "provider" /\ PayOut(i, clock)
     \/ /\ decision = "challenger"
        /\ intents[i].reserved <= budget.reserved
        /\ budget' = Refunded(intents[i].reserved)
        /\ stake' = Unlocked(intents[i].provider, intents[i].locked)
        /\ intents' = [intents EXCEPT ![i].state = "refunded"]
        /\ ledger' = OnSlash(intents[i].provider, ClassOf[i], clock)
  /\ UNCHANGED <<clock, leaks, signal, reports>>

\* BudgetAccount::deposit
AddDeposit ==
  /\ budget.deposited < MaxDeposit
  /\ budget' = [budget EXCEPT !.deposited = @ + 1]
  /\ UNCHANGED <<intents, stake, ledger, clock, leaks, signal, reports>>

Tick == clock < MaxTime /\ clock' = clock + 1 /\ UNCHANGED <<intents, budget, stake, ledger, leaks, signal, reports>>

\* set_provider_stake_amount: what the caller says, not the market's own stake
SetProviderStake(p, n) ==
  /\ signal' = [signal EXCEPT ![p] = n]
  /\ UNCHANGED <<intents, budget, stake, ledger, clock, leaks, reports>>

\* record_provider_slash
RecordProviderSlash(p, class) ==
  /\ Len(reports) < MaxReports
  /\ reports' = Append(reports, <<p, class>>)
  /\ ledger' = OnSlash(p, class, clock)
  /\ UNCHANGED <<intents, budget, stake, clock, leaks, signal>>

MarketNext ==
  \/ \E i \in Intents : PostIntent(i)
  \/ \E i \in DOMAIN intents :
       \/ \E q \in Quotes : MatchIntent(i, q) \/ MatchFails(i, q)
       \/ PostReceipt(i) \/ SettleAfterWindow(i) \/ SettleTrusted(i) \/ SubmitChallenge(i)
       \/ \E d \in {"provider", "challenger"} : ResolveChallenge(i, d)
  \/ \E p \in Providers :
       \/ \E n \in StakeSignals \ {signal[p]} : SetProviderStake(p, n)
       \/ \E class \in {ClassOf[i] : i \in Intents} : RecordProviderSlash(p, class)
  \/ AddDeposit \/ Tick

MarketSpec == MarketInit /\ [][MarketNext]_marketVars
-----------------------------------------------------------------------------
\* The budget reserves exactly what the live intents were priced at, so settle
\* and refund never fail for want of a reservation.
ReservedForLive ==
  budget.reserved = SumOver({i \in DOMAIN intents : Live(i)}, LAMBDA i : intents[i].reserved)

\* A provider's locked stake covers every live intent of his, also after the
\* failed matches that leave stake locked, and never exceeds what he staked.
StakeCoversLive ==
  \A p \in Providers :
    /\ SumOver({i \in DOMAIN intents : Live(i) /\ intents[i].provider = p}, LAMBDA i : intents[i].locked)
         <= stake[p].locked
    /\ stake[p].locked <= stake[p].amount

\* A provider's ledger counts each intent paid to him once, with its price, and
\* each one he lost or that was reported: reputation comes from settlements only.
ReputationEarned ==
  \A k \in DOMAIN ledger :
    LET mine(s) == {i \in DOMAIN intents : intents[i].state = s /\ <<intents[i].provider, ClassOf[i]>> = k}
    IN /\ SumSeq(ledger[k].successful, LAMBDA e : e.weight)
            = SumOver(mine("paid"), LAMBDA i : Max({intents[i].reserved, 1}))
       /\ ledger[k].slashes = Cardinality(mine("refunded")) + Cardinality({n \in DOMAIN reports : reports[n] = k})

\* A ledger with fewer settlements or clients, less stake or one slash more is
\* never worth more, and a provider with the lower score is never asked for less
\* stake, down to the plain stake of a trusted one.
TrustIsOrdered ==
  \A k \in DOMAIN ledger :
    LET l == ledger[k]
        score == Score(l, signal[k[1]])
    IN /\ StakeMultiplier(score) \in Rep.bps .. Max({Rep.zeroStake, Rep.bps})
       /\ \A n \in 0 .. Len(l.successful), d \in 0 .. 1, c \in SUBSET l.clients, t \in StakeSignals :
            LET less == Score([l EXCEPT !.successful = SubSeq(@, 1, n), !.slashes = @ + d, !.clients = c], t)
            IN t <= signal[k[1]] => less <= score /\ StakeMultiplier(score) <= StakeMultiplier(less)

\* A provider is not better off after a slash.
SlashNeverPays ==
  [][\A k \in DOMAIN ledger :
       ledger'[k].slashes > ledger[k].slashes => Score(ledger'[k], signal'[k[1]]) <= Score(ledger[k], signal[k[1]])]_marketVars

\* The clients counted for a provider "received successful paid work".
ClientsWerePaidFor ==
  \A k \in DOMAIN ledger : Cardinality(ledger[k].clients) <= Len(ledger[k].successful)

\* The market is an escrow: a deal is an intent, held when it is matched.
DealOf(i) ==
  IF i \notin DOMAIN intents \/ intents[i].state = "proposed" THEN "open"
  ELSE IF Live(i) THEN "held"
  ELSE IF intents[i].state = "paid" THEN "paid" ELSE "returned"

Abstract == INSTANCE Escrow WITH
  Deals <- Intents, Prices <- {q.price : q \in Quotes},
  free <- Available,
  deals <- [i \in Intents |-> DealOf(i)],
  sums <- [i \in Intents |-> IF i \in DOMAIN intents THEN intents[i].reserved ELSE 0]

\* Every step of the market is one of the escrow's or changes nothing there: a
\* matched price is paid or given back once, and no more than the deposit is held.
IsEscrow == Abstract!EscrowSpec

\* A provider who loses a challenge loses the stake that was locked for it.
LoserForfeits ==
  [][\A i \in DOMAIN intents :
       intents[i].state = "disputed" /\ intents'[i].state = "refunded"
         => stake'[intents[i].provider].amount < stake[intents[i].provider].amount]_marketVars

\* An intent of a tier with a challenge window is not paid, unchallenged, inside it.
WindowRespected ==
  [][\A i \in DOMAIN intents :
       intents[i].state = "delivered" /\ intents'[i].state = "paid" => clock >= intents[i].deadline]_marketVars

\* The books of the market agree (wallet/src/market.rs, challenge.rs):
\* reservations are those of live intents, locked stake covers every task
\* that may still be slashed, reputation counts what was settled and the score
\* made of it orders providers.
MarketSafe ==
  /\ ReservedForLive /\ StakeCoversLive /\ ReputationEarned /\ TrustIsOrdered

=============================================================================
