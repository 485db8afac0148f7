----------------------------- MODULE TradingSim -----------------------------
(***************************************************************************)
(* The trading portfolio simulator of Fractal Society and the kernel that  *)
(* drives an agent against it: the adapter of adapters/trading (ledger,    *)
(* fill model, order validation, step) and kernel::run.  Quantities,       *)
(* prices and money are integers of 1/Micro of a unit, as in the ledger;   *)
(* an order that rests is halved at every bar that touches it.             *)
(***************************************************************************)
EXTENDS Values, SequencesExt, Integers, TLC

CONSTANTS
    Micro,          \* MICRO: how many of the ledger's integers make one unit
    BarSeries,      \* sequences of bars, each asset -> [close, low, high, rate, stale]
    FreeActions,    \* what an agent other than the baselines may ask for
    InitialEquity, MaxLeverage, MinNotional, FeeBps, LossStopPct, LiquidationPct,
    MaxSteps,       \* TradingConfig::max_steps
    TradingEpisodes, MaxStepsPerEpisode

VARIABLES
    bars,       \* the bars the adapter was built with
    agentKind,  \* the agent that is run, with what it remembers
    book,       \* Ledger: cash, realized, fees, funding, position of each asset
    openOrders, \* resting orders, oldest first
    nextOrder, simStep, prevEquity, liquidated,
    simTrace,   \* RunTrace::steps
    totalReward,
    episode, tries, simPhase,
    drift       \* ghost: the fills and closing fills of the episode, and the
                \* remainders its averaged entry prices have dropped

simVars == <<bars, agentKind, book, openOrders, nextOrder, simStep, prevEquity,
             liquidated, simTrace, totalReward, episode, tries, simPhase, drift>>

Assets == <<"btc", "eth">>
AssetSet == {"btc", "eth"}

ASSUME TradingAssumption ==
    /\ Micro \in Nat \ {0} /\ Micro % 10 = 0
    /\ InitialEquity \in Nat \ {0} /\ MaxLeverage \in Nat \ {0} /\ MinNotional \in Nat
    /\ FeeBps \in 0..10000 /\ LossStopPct \in 0..100 /\ LiquidationPct \in 0..100
    /\ MaxSteps \in Nat \ {0} /\ TradingEpisodes \in Nat /\ MaxStepsPerEpisode \in Nat
    /\ \A s \in BarSeries : s # <<>> /\ \A i \in DOMAIN s : DOMAIN s[i] = AssetSet

-----------------------------------------------------------------------------
(* Arithmetic of the ledger.                                               *)

AbsOf(n) == IF n < 0 THEN 0 - n ELSE n
SignOf(n) == IF n < 0 THEN 0 - 1 ELSE IF n > 0 THEN 1 ELSE 0
SideSign(side) == IF side = "buy" THEN 1 ELSE 0 - 1

\* The product of two scaled values, truncated towards zero.
MulMicro(a, b) == SignOf(a * b) * (AbsOf(a * b) \div Micro)

\* A tenth of a unit, the lot the baselines trade in.
Lot == Micro \div 10

\* f64::round of a quotient.
RoundDiv(a, b) == SignOf(a) * ((2 * AbsOf(a) + b) \div (2 * b))

Flat == [qty |-> 0, avg |-> 0]

LedgerNew == [cash |-> InitialEquity, realized |-> 0, fees |-> 0, funding |-> 0,
              pos |-> [a \in AssetSet |-> Flat]]

EquityOf(b, marks) == b.cash + SumOver(AssetSet, LAMBDA a : MulMicro(b.pos[a].qty, marks[a]))
GrossExposure(b, marks) == SumOver(AssetSet, LAMBDA a : MulMicro(AbsOf(b.pos[a].qty), marks[a]))
Unrealized(b, marks) ==
    SumOver(AssetSet, LAMBDA a : MulMicro(b.pos[a].qty, marks[a] - b.pos[a].avg))

\* Adding to a position averages its entry price, truncated.
AddedPosition(p, delta, price) ==
    [qty |-> p.qty + delta,
     avg |-> (p.avg * AbsOf(p.qty) + price * AbsOf(delta)) \div (AbsOf(p.qty) + AbsOf(delta))]

Averages(p, delta) == p.qty = 0 \/ SignOf(p.qty) = SignOf(delta)

\* What a fill adds to the ghost.
Drifted(d, p, delta, price) ==
    [fills  |-> d.fills + 1,
     closes |-> d.closes + (IF Averages(p, delta) THEN 0 ELSE 1),
     lost   |-> d.lost + (IF Averages(p, delta)
                          THEN (p.avg * AbsOf(p.qty) + price * AbsOf(delta))
                                  % (AbsOf(p.qty) + AbsOf(delta))
                          ELSE 0)]

NoDrift == [fills |-> 0, closes |-> 0, lost |-> 0]

\* A closing trade keeps the entry price unless it flips the position.
ClosedPosition(p, delta, price) ==
    LET q == p.qty + delta
    IN  [qty |-> q, avg |-> IF q = 0 THEN 0 ELSE IF SignOf(q) # SignOf(p.qty) THEN price ELSE p.avg]

\* What a closing trade realizes.
Realized(p, delta, price) ==
    MulMicro(Min({AbsOf(p.qty), AbsOf(delta)}) * SignOf(p.qty), price - p.avg)

UpdatePosition(b, a, delta, price) ==
    LET p == b.pos[a]
    IN  IF Averages(p, delta)
        THEN [b EXCEPT !.pos[a] = AddedPosition(p, delta, price)]
        ELSE [b EXCEPT !.pos[a] = ClosedPosition(p, delta, price),
                       !.realized = @ + Realized(p, delta, price)]

\* One fill: the fee and the notional leave the cash, the position moves.
ApplyFill(b, a, side, qty, price) ==
    LET notional == MulMicro(qty, price)
        fee == (notional * FeeBps) \div 10000
    IN  UpdatePosition([b EXCEPT !.fees = @ + fee,
                                 !.cash = @ - SideSign(side) * notional - fee],
                       a, SideSign(side) * qty, price)

\* Funding of one asset: a positive rate (in percent) is paid by the long side.
FundAsset(b, a, bar) ==
    LET payment == RoundDiv(MulMicro(b.pos[a].qty, bar[a].close) * bar[a].rate, 100)
    IN  [b EXCEPT !.cash = @ - payment, !.realized = @ - payment, !.funding = @ + payment]

ApplyFunding(b, bar) == FoldLeft(LAMBDA c, a : FundAsset(c, a, bar), b, Assets)

MarksFor(bar) == [a \in AssetSet |-> bar[a].close]
CurrentBar == bars[Min({simStep + 1, Len(bars)})]
Marks == MarksFor(CurrentBar)

-----------------------------------------------------------------------------
(* The fill model.                                                         *)

CrossesLimit(bar, limit) == bar.low <= limit /\ limit <= bar.high

Reduces(qty, side) == (qty > 0 /\ side = "sell") \/ (qty < 0 /\ side = "buy")

\* A reduce-only fill is clamped to what is still open on the other side.
ReduceOnlyQty(requested, side, existing) ==
    IF Reduces(existing, side) THEN Min({requested, AbsOf(existing)}) ELSE 0

\* work = [book, orders, fills, drift]: what step_once has done so far.
ExecuteFill(work, f) ==
    LET p == work.book.pos[f.asset]
        qty == IF f.reduceOnly THEN ReduceOnlyQty(f.qty, f.side, p.qty) ELSE f.qty
    IN  IF qty <= 0 THEN work
        ELSE [work EXCEPT
                !.book = ApplyFill(work.book, f.asset, f.side, qty, f.price),
                !.drift = Drifted(@, p, SideSign(f.side) * qty, f.price),
                !.fills = Append(@, [f EXCEPT !.qty = qty] @@ [before |-> p.qty])]

\* A crossed order fills half of what is left and keeps the rest while that
\* is more than the smallest quantity: an order of qty, halved k times, has
\* qty / 2^k left, and the ledger rounds what it fills.
FillResting(work, a, bar) ==
    LET Crossed(o) == o.asset = a /\ CrossesLimit(bar[a], o.limit)
        Half(o) == RoundDiv(o.qty, 2 ^ (o.halved + 1))
        intents == [i \in DOMAIN SelectSeq(work.orders, Crossed) |->
                      LET o == SelectSeq(work.orders, Crossed)[i]
                      IN  [asset |-> a, side |-> o.side, qty |-> Half(o),
                           price |-> o.limit, reduceOnly |-> o.reduceOnly, forced |-> FALSE]]
        kept == SelectSeq([i \in DOMAIN work.orders |->
                             IF Crossed(work.orders[i])
                             THEN [work.orders[i] EXCEPT !.halved = @ + 1]
                             ELSE work.orders[i]],
                          LAMBDA o : Crossed(o) => o.qty > 2 ^ o.halved)
    IN  FoldLeft(ExecuteFill, [work EXCEPT !.orders = kept], intents)

\* A market order fills at the close; a limit order at its limit, or rests.
PlaceOrder(work, act, bar) ==
    LET price == IF act.kind = "market" THEN bar[act.asset].close ELSE act.limit
        fills == act.kind = "market" \/ CrossesLimit(bar[act.asset], act.limit)
    IN  IF fills
        THEN ExecuteFill(work, [asset |-> act.asset, side |-> act.side, qty |-> act.qty,
                                price |-> price, reduceOnly |-> act.reduceOnly, forced |-> FALSE])
        ELSE [work EXCEPT !.orders = Append(@,
                [id |-> nextOrder, asset |-> act.asset, side |-> act.side, qty |-> act.qty,
                 halved |-> 0, limit |-> price, reduceOnly |-> act.reduceOnly])]

\* The side of a reduction is the one that closes the position as it is now.
ReducePosition(work, act, bar) ==
    ExecuteFill(work, [asset |-> act.asset, qty |-> act.qty, price |-> bar[act.asset].close,
                       side |-> IF work.book.pos[act.asset].qty > 0 THEN "sell" ELSE "buy",
                       reduceOnly |-> TRUE, forced |-> FALSE])

\* Defect: the positions are closed and the resting orders stay.
LiquidateAllOrdersStay(work, bar) ==
    FoldLeft(LAMBDA w, a :
                IF w.book.pos[a].qty = 0 THEN w
                ELSE ExecuteFill(w, [asset |-> a, qty |-> AbsOf(w.book.pos[a].qty),
                                     price |-> bar[a].close,
                                     side |-> IF w.book.pos[a].qty > 0 THEN "sell" ELSE "buy",
                                     reduceOnly |-> FALSE, forced |-> TRUE]),
             work, Assets)

LiquidateAll(work, bar) ==
    FoldLeft(LAMBDA w, a :
                IF w.book.pos[a].qty = 0 THEN w
                ELSE ExecuteFill(w, [asset |-> a, qty |-> AbsOf(w.book.pos[a].qty),
                                     price |-> bar[a].close,
                                     side |-> IF w.book.pos[a].qty > 0 THEN "sell" ELSE "buy",
                                     reduceOnly |-> FALSE, forced |-> TRUE]),
             [work EXCEPT !.orders = <<>>], Assets)

MustLiquidate(b, marks) ==
    /\ EquityOf(b, marks) <= RoundDiv(InitialEquity * LiquidationPct, 100)
    /\ GrossExposure(b, marks) > 0

-----------------------------------------------------------------------------
(* Order validation, against the portfolio as it is when the agent acts.   *)

OrderApproved(act) ==
    LET p == book.pos[act.asset]
        price == IF act.limit = 0 THEN Marks[act.asset] ELSE act.limit
        delta == act.qty * SideSign(act.side)
        gross == GrossExposure(book, Marks) - MulMicro(AbsOf(p.qty), Marks[act.asset])
                    + MulMicro(AbsOf(p.qty + delta), Marks[act.asset])
    IN  /\ MulMicro(act.qty, price) >= MinNotional
        /\ EquityOf(book, Marks) > InitialEquity - RoundDiv(InitialEquity * LossStopPct, 100)
        /\ IF act.reduceOnly THEN Reduces(p.qty, act.side)
           ELSE /\ ~CurrentBar[act.asset].stale
                /\ p.qty = 0 \/ SignOf(p.qty) = SignOf(delta) \/ AbsOf(delta) <= AbsOf(p.qty)
                /\ gross <= InitialEquity * MaxLeverage

ValidateTrade(act) ==
    CASE act.op = "order"  -> OrderApproved(act)
      [] act.op = "reduce" -> book.pos[act.asset].qty # 0
                              /\ act.qty <= AbsOf(book.pos[act.asset].qty)
      [] OTHER             -> TRUE

-----------------------------------------------------------------------------
(* The agents.                                                             *)

Hold == [op |-> "hold"]
Market(a, side, qty) == [op |-> "order", kind |-> "market", asset |-> a, side |-> side,
                         qty |-> qty, limit |-> 0, reduceOnly |-> FALSE]
Limit(a, side, qty, price, only) == [op |-> "order", kind |-> "limit", asset |-> a, side |-> side,
                         qty |-> qty, limit |-> price, reduceOnly |-> only]
Reduce(a, qty) == [op |-> "reduce", asset |-> a, qty |-> qty]
Cancel(id) == [op |-> "cancel", id |-> id]

\* Buys about its equity's worth of the first asset once, rounded to a lot.
BuyAndHoldActs ==
    LET qty == RoundDiv(EquityOf(book, Marks) * 10, Marks["btc"]) * Lot
    IN  IF agentKind.invested \/ EquityOf(book, Marks) <= 0 \/ qty <= 0
        THEN {Hold} ELSE {Market("btc", "buy", qty)}

RandomActs == {Market("btc", "buy", Lot), Market("eth", "buy", 2 * Lot), Reduce("btc", Lot), Hold}

\* Long while the close is above the mean of the three closes before it.
MovingAverageActs ==
    LET w == Append(agentKind.window, Marks["btc"])
        n == Len(w)
        long == 3 * w[n] > w[n - 1] + w[n - 2] + w[n - 3]
        held == AbsOf(book.pos["btc"].qty)
    IN  IF n < 4 \/ (long /\ held > 0) \/ (~long /\ held = 0) THEN {Hold}
        ELSE IF long THEN {Market("btc", "buy", 5 * Lot)} ELSE {Reduce("btc", held)}

\* The starter agent buys at step 0 and reduces at every fifth decision.
StarterActs ==
    IF simStep = 0 THEN {Market("btc", "buy", Lot)}
    ELSE IF (Len(simTrace) + 1) % 5 = 0 THEN {Reduce("btc", Lot)}
    ELSE {Market("eth", "buy", 2 * Lot), Hold}

AgentActs ==
    CASE agentKind.name = "cash"   -> {Hold}
      [] agentKind.name = "hold"   -> BuyAndHoldActs
      [] agentKind.name = "random" -> RandomActs
      [] agentKind.name = "trend"  -> MovingAverageActs
      [] agentKind.name = "start"  -> StarterActs
      [] OTHER                     -> FreeActions \cup {Cancel(o.id) : o \in Range(openOrders)}

\* What the agent remembers after acting, whatever becomes of the action.
Remembered(act) ==
    [agentKind EXCEPT !.invested = @ \/ act.op = "order",
                      !.window = IF agentKind.name = "trend" THEN Append(@, Marks["btc"]) ELSE @]

-----------------------------------------------------------------------------
(* One step of the adapter and the kernel's loop around it.                *)

\* The resting orders fill first, then the action, then funding, then the floor.
StepOnce(act) ==
    LET bar == CurrentBar
        start == [book |-> book, orders |-> openOrders, fills |-> <<>>, drift |-> drift]
        rested == FoldLeft(LAMBDA w, a : FillResting(w, a, bar), start, Assets)
        acted == CASE act.op = "order"  -> PlaceOrder(rested, act, bar)
                   [] act.op = "reduce" -> ReducePosition(rested, act, bar)
                   [] act.op = "cancel" -> [rested EXCEPT !.orders =
                                              SelectSeq(@, LAMBDA o : o.id # act.id)]
                   [] OTHER             -> rested
        funded == [acted EXCEPT !.book = ApplyFunding(@, bar)]
    IN  IF MustLiquidate(funded.book, MarksFor(bar))
        THEN [done |-> TRUE] @@ LiquidateAll(funded, bar)
        ELSE [done |-> FALSE] @@ funded

RejectedStep == [kind |-> "rejected", equity |-> 0, fills |-> <<>>, episode |-> episode]
OutcomeStep(b, marks, fills) ==
    [kind |-> "outcome", equity |-> EquityOf(b, marks), fills |-> fills, episode |-> episode]

TradingInit ==
    /\ bars \in BarSeries
    /\ agentKind \in [name : {"cash", "hold", "random", "trend", "start", "free"},
                      invested : {FALSE}, window : {<<>>}]
    /\ book = LedgerNew /\ openOrders = <<>> /\ nextOrder = 1 /\ simStep = 0
    /\ prevEquity = InitialEquity /\ liquidated = FALSE
    /\ simTrace = <<>> /\ totalReward = 0 /\ episode = 0 /\ tries = 0
    /\ simPhase = "reset" /\ drift = NoDrift

\* An episode starts from a fresh adapter; the agent is not reset.
ResetEpisode ==
    /\ simPhase = "reset"
    /\ IF episode = TradingEpisodes THEN simPhase' = "scored" /\ UNCHANGED <<book, openOrders, nextOrder,
            simStep, prevEquity, liquidated, tries, episode, drift>>
       ELSE /\ book' = LedgerNew /\ openOrders' = <<>> /\ nextOrder' = 1 /\ simStep' = 0
            /\ prevEquity' = InitialEquity /\ liquidated' = FALSE /\ drift' = NoDrift
            /\ simPhase' = "act" /\ tries' = 0 /\ episode' = episode + 1
    /\ UNCHANGED <<bars, agentKind, simTrace, totalReward>>

EpisodeOver(done) == done \/ tries + 1 = MaxStepsPerEpisode
NextPhase(done) == IF EpisodeOver(done) THEN "reset" ELSE "act"

\* A refused action is recorded and the agent asked again.
ActRejected ==
    /\ simPhase = "act"
    /\ \E act \in AgentActs :
        /\ ~ValidateTrade(act)
        /\ agentKind' = Remembered(act)
    /\ simTrace' = Append(simTrace, RejectedStep)
    /\ tries' = tries + 1
    /\ simPhase' = NextPhase(FALSE)
    /\ UNCHANGED <<bars, book, openOrders, nextOrder, simStep, prevEquity, liquidated,
                   totalReward, episode, drift>>

\* The reward is the change of equity since the last step.
ActApproved ==
    /\ simPhase = "act"
    /\ \E act \in AgentActs : \E done \in {StepOnce(act)} :
        /\ ValidateTrade(act)
        /\ agentKind' = Remembered(act)
        /\ book' = done.book /\ openOrders' = done.orders /\ drift' = done.drift
        /\ nextOrder' = nextOrder + (IF act.op = "order" THEN 1 ELSE 0)
        /\ liquidated' = (liquidated \/ done.done)
        /\ prevEquity' = EquityOf(done.book, Marks)
        /\ totalReward' = totalReward + EquityOf(done.book, Marks) - prevEquity
        /\ simTrace' = Append(simTrace, OutcomeStep(done.book, Marks, done.fills))
        /\ simStep' = simStep + 1
        /\ simPhase' = NextPhase(\/ liquidated'
                                 \/ simStep + 1 >= Min({MaxSteps, Len(bars)}))
    /\ tries' = tries + 1
    /\ UNCHANGED <<bars, episode>>

TradingNext == ResetEpisode \/ ActRejected \/ ActApproved

TradingSpec == TradingInit /\ [][TradingNext]_simVars

-----------------------------------------------------------------------------
(* Scoring.                                                                *)

Outcomes == SelectSeq(simTrace, LAMBDA s : s.kind = "outcome")
Violations == Cardinality({i \in DOMAIN simTrace : simTrace[i].kind = "rejected"})

\* score_metrics: the result of the last step that was carried out.
FinalPnl == IF Outcomes = <<>> THEN 0 ELSE Last(Outcomes).equity - InitialEquity

\* One observation of the scan for the drawdown, in percent of the peak.
ScannedEquity(acc, e) ==
    LET peak == Max({acc.peak, e})
    IN  [peak |-> peak,
         deepest |-> IF peak > 0 THEN Max({acc.deepest, ((peak - e) * 100) \div peak})
                     ELSE acc.deepest]

\* compute_risk_metrics: a curve of one point has no risk.
MaxDrawdown(curve) ==
    IF Len(curve) < 2 THEN 0
    ELSE FoldLeft(ScannedEquity, [peak |-> curve[1], deepest |-> 0], curve).deepest

\* Equity after each step that was carried out; refused steps are skipped.
EquityCurve == [i \in DOMAIN Outcomes |-> Outcomes[i].equity]

-----------------------------------------------------------------------------
(* Properties.                                                             *)

DeepestFall(curve) ==
    Max({0} \cup {((curve[p[1]] - curve[p[2]]) * 100) \div curve[p[1]] :
                  p \in {q \in (DOMAIN curve) \X (DOMAIN curve) :
                            q[1] < q[2] /\ curve[q[1]] > 0 /\ curve[q[2]] <= curve[q[1]]}})

\* Ledger::apply_funding's comment has the total result equal to the realized
\* plus the unrealized result less the fees.  Every product is truncated, so
\* the two drift apart, by less than one per fill (its notional), one per
\* closing fill (what it realizes), two per open position (its value and its
\* unrealized result) and what averaging the entry prices has dropped; never
\* by a fee, a funding payment, a half of a resting order or a liquidation.
PnlAccounted ==
    simPhase # "scored" =>
        \A b \in {CurrentBar, bars[Max({1, Min({simStep, Len(bars)})})]} :
            LET m == MarksFor(b)
                open == {a \in AssetSet : book.pos[a].qty # 0}
                total == EquityOf(book, m) - InitialEquity
                parts == book.realized + Unrealized(book, m) - book.fees
                loose == drift.fills + drift.closes + 2 * Cardinality(open)
            IN  IF loose = 0 THEN total = parts
                ELSE Micro * AbsOf(total - parts) < (Micro * loose) + drift.lost

\* A fill of a reduce-only order or of a reduction never opens, enlarges or
\* flips a position, though the position it was checked against may be gone
\* by the time the resting orders before it have filled.
ReduceOnlyShrinks ==
    \A i \in DOMAIN simTrace : \A j \in DOMAIN simTrace[i].fills :
        LET f == simTrace[i].fills[j]
        IN  f.reduceOnly => Reduces(f.before, f.side) /\ f.qty <= AbsOf(f.before)

\* After a liquidation nothing is open and nothing rests until the next reset.
LiquidatedIsFlat ==
    liquidated => /\ openOrders = <<>> /\ \A a \in AssetSet : book.pos[a].qty = 0
                  /\ simPhase # "act"

\* The rewards of a run with one episode add up to the result its score reports.
RewardIsResult ==
    episode <= 1 => totalReward = FinalPnl

\* The drawdown the scorecard computes in one pass over the equity curve is the
\* deepest fall from any earlier point of the curve, while the account is solvent.
DrawdownIsDeepest ==
    (\A i \in DOMAIN EquityCurve : EquityCurve[i] >= 0) =>
        MaxDrawdown(EquityCurve) = DeepestFall(EquityCurve)

=============================================================================
