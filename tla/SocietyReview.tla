---------------------------- MODULE SocietyReview ----------------------------
(***************************************************************************)
(* What Fractal Society judges and settles with, in                        *)
(* crates/fractal-society/src/pkgs and rigor.rs, research_package.rs:      *)
(* verifiers of evidence, reviews and their aggregation, reward splits,    *)
(* rankings, data quality, skill load order, and the small state machines  *)
(* of seasons, bonds, appeals, grants, budgets and registries.             *)
(*                                                                         *)
(* The packages are libraries.  A behaviour either examines one input of   *)
(* an algorithm (exam), chosen at the start, or makes calls to the state   *)
(* machines in any order.  Prices and scores are integers; an absent JSON  *)
(* field is the empty set, a present one the set with its value.           *)
(***************************************************************************)
EXTENDS Values, SequencesExt, Integers, TLC

CONSTANTS
  Weights,       \* weights of recipients: sequences
  Pools,         \* reward pools
  SkillGraphs,   \* skill dependencies: functions from skills to sets of skills
  ObservedNumbers,      \* sequences of observed sequence numbers
  BarLists,      \* lists of valid bars
  Boards,        \* lists of leaderboard entries
  ReviewLists,   \* lists of reviewer and subject
  Curves,        \* equity curves
  Honest,        \* evidence of a run: its steps, policy violations and total
  ReviewBags,    \* lists of review decisions
  Instants,      \* times of dataset windows and of grants
  Tolerance,     \* tolerance of the verifiers
  Quorum,        \* reviews needed
  Width,         \* bits of a counter
  MaxCalls       \* bound: calls to the state machines

ASSUME ReviewAssumption == Tolerance \in Nat /\ Quorum \in Nat /\ Width \in Nat \ {0} /\ MaxCalls \in Nat

VARIABLES
  exam,     \* the input under examination, or none
  walk,     \* load_order under way
  season, bond, appeal, grant, budget, verifiers, tick, calls

reviewVars == <<exam, walk, season, bond, appeal, grant, budget, verifiers, tick, calls>>

---------------------------------------------------------------------------
\* reward_split::split: floors, then one each by largest remainder, then index.
Floor(pool, w, i) == (pool * w[i]) \div SumSeq(w, LAMBDA x : x)
Remainder(pool, w, i) == (pool * w[i]) % SumSeq(w, LAMBDA x : x)
Leftover(pool, w) == pool - SumOver(DOMAIN w, LAMBDA i : Floor(pool, w, i))

Split(pool, w) ==
  [i \in DOMAIN w |->
     LET ahead == {j \in DOMAIN w : /\ w[j] > 0
                                    /\ \/ Remainder(pool, w, j) > Remainder(pool, w, i)
                                       \/ (Remainder(pool, w, j) = Remainder(pool, w, i) /\ j < i)}
     IN Floor(pool, w, i) + (IF w[i] > 0 /\ Cardinality(ahead) < Leftover(pool, w) THEN 1 ELSE 0)]

---------------------------------------------------------------------------
\* skill_graph::build_graph: dependencies are skills too.
Skills(g) == (DOMAIN g) \cup UNION {g[s] : s \in DOMAIN g}
DependsOn(g, s) == Get(g, s, {})

\* load_order: a depth-first walk in the order of the ids, with a mark for the
\* skills being visited and those done.
WalkStart == [stack |-> <<>>, visiting |-> {}, order |-> <<>>, ended |-> "no"]
WalkDone(k) == Range(k.order)
Unvisited(g, k) ==
  IF k.stack = <<>> THEN Skills(g) \ WalkDone(k) ELSE DependsOn(g, Last(k.stack)) \ WalkDone(k)

\* Seeded defect: a skill is listed when its visit begins.
WalkStepEager(g, k) ==
  IF Unvisited(g, k) = {}
  THEN IF k.stack = <<>> THEN [k EXCEPT !.ended = "ok"]
       ELSE [k EXCEPT !.stack = Front(@), !.visiting = @ \ {Last(k.stack)}]
  ELSE LET s == Min(Unvisited(g, k))
       IN IF s \in k.visiting THEN [k EXCEPT !.ended = "cycle"]
          ELSE [k EXCEPT !.stack = Append(@, s), !.visiting = @ \cup {s}, !.order = Append(@, s)]

\* visit
WalkStep(g, k) ==
  IF Unvisited(g, k) = {}
  THEN IF k.stack = <<>> THEN [k EXCEPT !.ended = "ok"]
       ELSE [k EXCEPT !.stack = Front(@), !.visiting = @ \ {Last(k.stack)}, !.order = Append(@, Last(k.stack))]
  ELSE LET s == Min(Unvisited(g, k))
       IN IF s \in k.visiting THEN [k EXCEPT !.ended = "cycle"]
          ELSE [k EXCEPT !.stack = Append(@, s), !.visiting = @ \cup {s}]

---------------------------------------------------------------------------
\* gap_detection::detect: neighbours of the sorted sequence that differ by more
\* than one.  Repeated numbers make no gap.
Gaps(observed) ==
  {p \in Range(observed) \X Range(observed) :
     p[2] - p[1] > 1 /\ \A x \in Range(observed) : ~(p[1] < x /\ x < p[2])}

\* data_quality_report::report over lo .. hi.
InRange(observed, lo, hi) == Range(observed) \cap (lo .. hi)
MissingCount(observed, lo, hi) == Cardinality(lo .. hi) - Cardinality(InRange(observed, lo, hi))

\* gap_count: the values that begin a run of missing ones.
GapCount(observed, lo, hi) ==
  Cardinality({x \in lo .. hi : x \notin Range(observed) /\ (x = lo \/ x - 1 \in Range(observed))})

---------------------------------------------------------------------------
\* bar_validation::validate
ValidBar(b) ==
  /\ b.open >= 0 /\ b.high >= 0 /\ b.low >= 0 /\ b.close >= 0 /\ b.volume >= 0
  /\ b.high >= Max({b.open, b.close}) /\ b.low <= Min({b.open, b.close}) /\ b.high >= b.low

\* ohlc_aggregation::aggregate_group
AggregateGroup(g) ==
  [open |-> g[1].open, high |-> Max({g[i].high : i \in DOMAIN g}), low |-> Min({g[i].low : i \in DOMAIN g}),
   close |-> Last(g).close, volume |-> SumSeq(g, LAMBDA b : b.volume)]

\* aggregate: chunks of n, the last one may be short.
Chunks(s, n) ==
  [i \in 1 .. ((Len(s) + n - 1) \div n) |-> SubSeq(s, n * (i - 1) + 1, Min({n * i, Len(s)}))]
Aggregate(bars, n) == [i \in DOMAIN Chunks(bars, n) |-> AggregateGroup(Chunks(bars, n)[i])]

---------------------------------------------------------------------------
\* leaderboard::score, times ten, and rank: ties go by the agent id, and entries of
\* one agent keep their order, as the sort is stable.
BoardScore(e) == 10 * e.ret - 5 * e.drawdown - e.violations

Ahead(board, j, i) ==
  \/ BoardScore(board[j]) > BoardScore(board[i])
  \/ /\ BoardScore(board[j]) = BoardScore(board[i])
     /\ board[j].agent < board[i].agent \/ (board[j].agent = board[i].agent /\ j < i)
RankOf(board, i) == 1 + Cardinality({j \in DOMAIN board : Ahead(board, j, i)})

---------------------------------------------------------------------------
\* sybil_detection::analyze: pairs that review each other are found at the
\* second of the two reviews.  Longer cycles are not looked for.
CircularAt(reviews, i) ==
  /\ reviews[i][1] # reviews[i][2]
  /\ \E j \in 1 .. i : reviews[j] = <<reviews[i][2], reviews[i][1]>>

CircularPairs(reviews) == {{reviews[i][1], reviews[i][2]} : i \in {i \in DOMAIN reviews : CircularAt(reviews, i)}}

---------------------------------------------------------------------------
\* drawdown_analysis::analyze: below the peak so far, and how long at a time.
PeakAt(curve, i) == Max({curve[j] : j \in 1 .. i})
Below(curve, i) == PeakAt(curve, i) > 0 /\ curve[i] < PeakAt(curve, i)

\* The running count of steps below the peak.
DurationAt(curve) ==
  [i \in DOMAIN curve |->
     Cardinality({j \in 1 .. i : \A k \in j .. i : Below(curve, k)})]
MaxDuration(curve) == IF Len(curve) < 2 THEN 0 ELSE Max(Range(DurationAt(curve)))

---------------------------------------------------------------------------
\* The verifiers of evidence.  An outcome without any of the fields is skipped,
\* one with some of them fails.
Near(a, b) == a - b <= Tolerance /\ b - a <= Tolerance
Present(opts) == \E o \in opts : o # {}
Whole(opts) == \A o \in opts : o # {}
The(opt) == CHOOSE v \in opt : TRUE

\* accounting_integrity::verify of a step.
Accounted(s) ==
  Present({s.equity, s.cash, s.notional}) =>
    Whole({s.equity, s.cash, s.notional}) /\ Near(The(s.equity), The(s.cash) + The(s.notional))

\* cost_completeness::verify of a step.
Costed(s) ==
  Present({s.total, s.realized, s.unrealized, s.fees}) =>
    /\ Whole({s.total, s.realized, s.unrealized, s.fees})
    /\ Near(The(s.total), The(s.realized) + The(s.unrealized) - The(s.fees))

\* risk_policy::verify: the metric counts the rejected steps.
PolicyCounted(ev) ==
  ev.policy # {} /\ The(ev.policy) = Cardinality({i \in DOMAIN ev.steps : ev.steps[i].rejected})

\* temporal_leakage::verify
StepsAdvance(ev) == \A i \in 1 .. Len(ev.steps) - 1 : ev.steps[i].step < ev.steps[i + 1].step

\* sandbox_policy::verify: of the actions that name a tool.
Sandboxed(ev) == \A i \in DOMAIN ev.steps : ev.steps[i].tool \subseteq {"hold", "place_order"}

\* scorecard_reproduction::verify: the last total in the evidence is the score.
Reproduced(ev) ==
  LET at == {i \in DOMAIN ev.steps : ev.steps[i].total # {}}
  IN at # {} /\ ev.score # {} /\ Near(The(ev.steps[Max(at)].total), The(ev.score))

\* baseline_correctness::verify of a comparison; the fraction of the percentage is
\* multiplied out, and against a baseline of zero the percentage is zero.
BaselineRight(b) ==
  LET difference == b.candidate - b.base
      size == Max({b.base, -b.base})
  IN /\ Near(b.difference, difference)
     /\ IF b.base = 0 THEN Near(b.percent, 0)
        ELSE b.percent * size - 100 * difference \in (-Tolerance * size) .. (Tolerance * size)
     /\ b.better = (difference > 0)

AllVerify(ev) ==
  /\ \A i \in DOMAIN ev.steps : Accounted(ev.steps[i]) /\ Costed(ev.steps[i])
  /\ PolicyCounted(ev) /\ StepsAdvance(ev) /\ Sandboxed(ev) /\ Reproduced(ev) /\ BaselineRight(ev.baseline)

\* One field of the evidence changed: a figure off by more than the tolerance or
\* gone, a flag, a tool that is not allowed, a count, two steps swapped.
Off(v) == {v + Tolerance + 1, v - Tolerance - 1}
Figures == {"equity", "cash", "notional", "total", "realized", "unrealized", "fees"}
Altered(ev) ==
  UNION {{[ev EXCEPT !.steps[i] = [@ EXCEPT ![f] = new]] : new \in {{}} \cup {{v} : v \in Off(The(ev.steps[i][f]))}} :
           i \in DOMAIN ev.steps, f \in Figures}
  \cup UNION {{[ev EXCEPT !.steps[i].rejected = ~@], [ev EXCEPT !.steps[i].tool = {"shell"}]} : i \in DOMAIN ev.steps}
  \cup {[ev EXCEPT !.steps = [@ EXCEPT ![i] = ev.steps[i + 1], ![i + 1] = ev.steps[i]]] : i \in 1 .. Len(ev.steps) - 1}
  \cup {[ev EXCEPT !.policy = new] : new \in {{}, {The(ev.policy) + 1}, {The(ev.policy) - 1}}}
  \cup {[ev EXCEPT !.score = new] : new \in {{}} \cup {{v} : v \in Off(The(ev.score))}}
  \cup UNION {{[ev EXCEPT !.baseline = [@ EXCEPT ![f] = v]] : v \in Off(ev.baseline[f])} :
                f \in {"candidate", "base", "difference", "percent"}}
  \cup {[ev EXCEPT !.baseline.better = ~@]}

---------------------------------------------------------------------------
\* review_aggregation::aggregate: abstentions count for the quorum, changes
\* requested as rejections, and a tie rejects.
CountReviews(reviews, kinds) == Cardinality({i \in DOMAIN reviews : reviews[i] \in kinds})

Consensus(reviews) ==
  CASE Len(reviews) < Quorum -> "noQuorum"
    [] CountReviews(reviews, {"approve"}) > CountReviews(reviews, {"changes", "reject"}) -> "approved"
    [] OTHER -> "rejected"

\* proof_level_resolver::resolve, of evidence with steps.
ProofLevel(reviews, replicated) ==
  IF replicated THEN 3 ELSE IF CountReviews(reviews, {"approve"}) > 0 THEN 2 ELSE 1

---------------------------------------------------------------------------
\* rigor::review: what a claim, a scorecard and a manifest have.
RigorTraits == {"text", "falsifiable", "refs", "metrics", "scope", "limits", "env", "reproducible", "disclaimer"}
Has(t, traits, points) == IF t \in traits THEN points ELSE 0

ScopeScore(t) == 40 + Has("scope", t, 40) + Has("limits", t, 20)
BindingScore(t) == IF "refs" \notin t THEN 0 ELSE 70 + Has("reproducible", t, 30)

\* The average of the six dimensions, rounded down.
RigorScore(t) ==
  (  (IF {"text", "falsifiable"} \subseteq t THEN 100 ELSE 0)
   + (40 + Has("refs", t, 30) + Has("metrics", t, 30))
   + ScopeScore(t)
   + (20 + Has("env", t, 40) + Has("reproducible", t, 40))
   + BindingScore(t)
   + (20 + Has("limits", t, 50) + Has("disclaimer", t, 30))) \div 6

\* recommend: the grade of a score, 4 for a strong accept.
RigorGrade(score) ==
  CASE score >= 85 -> 4 [] score >= 70 -> 3 [] score >= 55 -> 2 [] score >= 40 -> 1 [] OTHER -> 0

\* research_package::review of a paper with n claims, of which some are
\* falsifiable, with r references in all.
PaperScore(p) ==
  LET n == Max({p.n, 1})
      raw == 40 + ((30 * p.falsifiable) \div n) + ((15 * Min({p.refs, 2 * n})) \div n)
             + (IF p.limits THEN 10 ELSE 0) + (IF p.deadEnds THEN 5 ELSE 0)
  IN Min({100, IF p.pinned THEN raw ELSE Minus(raw, 20)})

---------------------------------------------------------------------------
\* dataset_window::validate
ValidWindow(w) == w[1] < w[2]

WindowsValid(b) ==
  /\ ValidWindow(b[1]) /\ ValidWindow(b[2]) /\ ValidWindow(b[3])
  /\ b[1][2] <= b[2][1] /\ b[2][1] <= b[2][2] /\ b[2][2] <= b[3][1]

---------------------------------------------------------------------------
(* The state machines. *)
WidthLimit == 2 ^ Width - 1
SatAdd(a, b) == Min({a + b, WidthLimit})

NoExam == [kind |-> "none"]
Machines == exam = NoExam /\ calls < MaxCalls

ReviewInit ==
  /\ \/ exam = NoExam
     \/ \E pool \in Pools, w \in Weights : exam = [kind |-> "split", pool |-> pool, weights |-> w]
     \/ \E g \in SkillGraphs : exam = [kind |-> "skills", graph |-> g]
     \/ \E s \in ObservedNumbers : exam = [kind |-> "gaps", observed |-> s]
     \/ \E b \in BarLists : exam = [kind |-> "bars", bars |-> b]
     \/ \E b \in Boards : exam = [kind |-> "board", board |-> b]
     \/ \E r \in ReviewLists : exam = [kind |-> "sybil", reviews |-> r]
     \/ \E c \in Curves : exam = [kind |-> "curve", curve |-> c]
     \/ \E ev \in {Honest} \cup Altered(Honest) : exam = [kind |-> "evidence", evidence |-> ev]
     \/ \E r \in ReviewBags : exam = [kind |-> "reviews", decisions |-> r]
     \/ \E t \in SUBSET RigorTraits : exam = [kind |-> "rigor", traits |-> t]
     \/ \E p \in [n : 0 .. 3, falsifiable : 0 .. 3, refs : 0 .. 7, limits : BOOLEAN, deadEnds : BOOLEAN, pinned : BOOLEAN] :
          p.falsifiable <= p.n /\ (p.n = 0 => p.refs = 0) /\ exam = [kind |-> "paper", paper |-> p]
     \/ \E a, b, c, d, e, f \in Instants : exam = [kind |-> "windows", windows |-> <<<<a, b>>, <<c, d>>, <<e, f>>>>]
  /\ walk = WalkStart
  /\ season = "draft" /\ bond = "none" /\ appeal = "none"
  /\ grant = [expires |-> 0, revoked |-> TRUE, until |-> 0] /\ budget = [used |-> 0, granted |-> 0]
  /\ verifiers = Empty /\ tick = 0 /\ calls = 0

\* transition of a season: open, freeze, finalize, close.
SeasonAfter == [draft |-> "open", open |-> "frozen", frozen |-> "final", final |-> "closed"]
SeasonStep ==
  /\ season \in DOMAIN SeasonAfter /\ season' = SeasonAfter[season]
  /\ UNCHANGED <<bond, appeal, grant, budget, verifiers, tick>>

\* ChallengeBond::post
PostBond ==
  /\ bond = "none" /\ bond' = "posted"
  /\ UNCHANGED <<season, appeal, grant, budget, verifiers, tick>>

\* Seeded defect: a settled bond can be settled again.
SettleBondAgain(to) ==
  /\ bond # "none" /\ bond' = to
  /\ UNCHANGED <<season, appeal, grant, budget, verifiers, tick>>

\* ChallengeBond::settle, by slash or release.
SettleBond(to) ==
  /\ bond = "posted" /\ bond' = to
  /\ UNCHANGED <<season, appeal, grant, budget, verifiers, tick>>

\* Appeal: file, begin_review, resolve.
AppealStep(to) ==
  /\ <<appeal, to>> \in {<<"none", "filed">>, <<"filed", "underReview">>,
                         <<"underReview", "upheld">>, <<"underReview", "denied">>}
  /\ appeal' = to
  /\ UNCHANGED <<season, bond, grant, budget, verifiers, tick>>

\* reviewer_grants::issue with a time to live, and revoke.  until notes when the
\* grant is meant to end.
IssueGrant(ttl) ==
  /\ grant' = [expires |-> SatAdd(tick, ttl), revoked |-> FALSE, until |-> tick + ttl]
  /\ UNCHANGED <<season, bond, appeal, budget, verifiers, tick>>
RevokeGrant ==
  /\ grant' = [grant EXCEPT !.revoked = TRUE, !.until = Min({@, tick})]
  /\ UNCHANGED <<season, bond, appeal, budget, verifiers, tick>>

\* is_valid, and ChallengeWindow::is_open alike.
GrantValid == ~grant.revoked /\ tick < grant.expires

\* ExecutionBudget::consume, with a limit just below the largest number.  granted
\* is what was consumed in all.
Consume(n) ==
  /\ budget.used + n <= WidthLimit /\ budget.used + n <= WidthLimit - 1
  /\ budget' = [used |-> budget.used + n, granted |-> budget.granted + n]
  /\ UNCHANGED <<season, bond, appeal, grant, verifiers, tick>>

\* VerifierRegistry::insert and ArtifactRegistry::insert: the first one stays.
InsertVerifier(id, version) ==
  /\ verifiers' = IF id \in DOMAIN verifiers THEN verifiers ELSE Put(verifiers, id, version)
  /\ UNCHANGED <<season, bond, appeal, grant, budget, tick>>

\* Time goes on.
Tick ==
  /\ tick < WidthLimit /\ tick' = tick + 1
  /\ UNCHANGED <<season, bond, appeal, grant, budget, verifiers>>

Call ==
  /\ Machines /\ calls' = calls + 1 /\ UNCHANGED <<exam, walk>>
  /\ \/ SeasonStep \/ PostBond \/ (\E to \in {"slashed", "released"} : SettleBond(to))
     \/ (\E to \in {"filed", "underReview", "upheld", "denied"} : AppealStep(to))
     \/ (\E ttl \in {1, WidthLimit} : IssueGrant(ttl)) \/ RevokeGrant
     \/ (\E n \in {1, WidthLimit - 1} : Consume(n))
     \/ (\E version \in {1, 2} : InsertVerifier("v", version)) \/ Tick

LoadSkills ==
  /\ exam.kind = "skills" /\ walk.ended = "no"
  /\ walk' = WalkStep(exam.graph, walk)
  /\ UNCHANGED <<exam, season, bond, appeal, grant, budget, verifiers, tick, calls>>

ReviewNext == Call \/ LoadSkills

ReviewSpec == ReviewInit /\ [][ReviewNext]_reviewVars

---------------------------------------------------------------------------
(* Properties *)

\* A reward split pays out the whole pool, gives each recipient its exact quota
\* rounded down or up, and nobody more than one with a larger weight.
SplitExact ==
  exam.kind = "split" /\ exam.pool > 0 /\ SumSeq(exam.weights, LAMBDA x : x) > 0 =>
    \E shares \in {Split(exam.pool, exam.weights)} :
      /\ SumSeq(shares, LAMBDA x : x) = exam.pool
      /\ \A i \in DOMAIN shares :
           /\ shares[i] - Floor(exam.pool, exam.weights, i) \in {0, 1}
           /\ \A j \in DOMAIN shares : exam.weights[i] < exam.weights[j] => shares[i] <= shares[j]

\* load_order ends with an order that lists each skill once,
\* after its dependencies, or with an error exactly if the graph has a cycle.
LoadOrderSound ==
  exam.kind = "skills" =>
    /\ \A i, j \in DOMAIN walk.order : i < j => walk.order[j] \notin DependsOn(exam.graph, walk.order[i]) \cup {walk.order[i]}
    /\ walk.ended = "ok" => Range(walk.order) = Skills(exam.graph)
    /\ walk.ended = "cycle" =>
         \E S \in SUBSET Skills(exam.graph) :
           S # {} /\ \A s \in S : DependsOn(exam.graph, s) \cap S # {}

\* The two reports of missing data agree: gap_detection over the observations
\* with the ends of the range finds as many gaps and missing numbers as
\* data_quality_report, whatever the order and repetitions.
GapsAgree ==
  exam.kind = "gaps" => \A lo, hi \in 0 .. 5 : lo <= hi =>
    \E found \in {Gaps(SetToSeq(InRange(exam.observed, lo, hi) \cup {lo - 1, hi + 1}))} :
      /\ Cardinality(found) = GapCount(exam.observed, lo, hi)
      /\ SumOver(found, LAMBDA p : p[2] - p[1] - 1) = MissingCount(exam.observed, lo, hi)

\* Aggregated bars are valid bars, and aggregating by m and then by n is the
\* same as aggregating by m * n.
AggregationComposes ==
  exam.kind = "bars" => \A m, n \in {1, 2} :
    /\ \A i \in DOMAIN Aggregate(exam.bars, m) : ValidBar(Aggregate(exam.bars, m)[i])
    /\ Aggregate(Aggregate(exam.bars, m), n) = Aggregate(exam.bars, m * n)

\* Whatever order the entries come in, an entry gets the same rank, unless another
\* has its agent and its score: rank tells those apart by their places in the
\* input alone. Ranks are 1 .. n, each given once, better scores first.
RankingIsStable ==
  exam.kind = "board" =>
    LET b == exam.board r == Reverse(b)
        Twins(i, j) == b[i].agent = b[j].agent /\ BoardScore(b[i]) = BoardScore(b[j])
    IN /\ {RankOf(b, i) : i \in DOMAIN b} = DOMAIN b
       /\ \A i, j \in DOMAIN b : RankOf(b, i) < RankOf(b, j) => BoardScore(b[i]) >= BoardScore(b[j])
       /\ \A i \in DOMAIN b : (\A j \in DOMAIN b \ {i} : ~Twins(i, j)) => RankOf(b, i) = RankOf(r, Len(b) + 1 - i)
       /\ \A i, j \in DOMAIN b : Twins(i, j) /\ i < j => RankOf(b, i) < RankOf(b, j)

\* Authors who review each other are found in whatever order the reviews come.
CirclesAreFound ==
  exam.kind = "sybil" =>
    CircularPairs(exam.reviews) =
      {{p[1], p[2]} : p \in {q \in Range(exam.reviews) : q[1] # q[2] /\ <<q[2], q[1]>> \in Range(exam.reviews)}}

\* The reported duration is that of the longest stretch below a peak.
DurationIsLongest ==
  exam.kind = "curve" /\ Len(exam.curve) >= 2 =>
    LET c == exam.curve
    IN MaxDuration(c) = Max({0} \cup {r[2] - r[1] : r \in
         {p \in (DOMAIN c) \X (DOMAIN c) :
            /\ p[1] < p[2] /\ c[p[1]] > 0
            /\ \A k \in 1 .. p[1] : c[k] <= c[p[1]]
            /\ \A k \in (p[1] + 1) .. p[2] : c[k] < c[p[1]]}})

\* The verifiers together accept the evidence of a run as it was recorded, and
\* between them refuse it after any of the single changes that Altered lists: no
\* field they read falls between them. (A whole step, or all figures of one kind of
\* a step, may be left out together without any of them noticing.)
TamperingIsCaught ==
  exam.kind = "evidence" => (AllVerify(exam.evidence) <=> exam.evidence = Honest)

\* Once there is a quorum, one more approval never loses an approval and one more
\* rejection, change request or abstention never wins one. The review that makes
\* the quorum may be a rejection and the outcome an approval, if approvals
\* outnumber it too. The proof level only rises, and the order of the reviews does
\* not matter.
ReviewsAreMonotone ==
  exam.kind = "reviews" =>
    LET r == exam.decisions
        Against == {"changes", "reject"}
    IN /\ Consensus(Reverse(r)) = Consensus(r)
       /\ Consensus(r) = "approved" => Consensus(Append(r, "approve")) = "approved"
       /\ \A k \in Against \cup {"abstain"} :
            /\ Consensus(r) = "rejected" => Consensus(Append(r, k)) = "rejected"
            /\ Consensus(r) = "noQuorum" /\ Consensus(Append(r, k)) = "approved" =>
                 CountReviews(r, {"approve"}) > CountReviews(Append(r, k), Against)
            /\ ProofLevel(Append(r, k), FALSE) >= ProofLevel(r, FALSE)

\* Neither review grades better work worse: one more trait never lowers the
\* grade of rigor::review, one more reference or falsifiable claim, a stated
\* limitation or a pinned source never that of a paper.
BetterIsNotWorse ==
  /\ exam.kind = "rigor" => \A t \in RigorTraits : RigorGrade(RigorScore(exam.traits \cup {t})) >= RigorGrade(RigorScore(exam.traits))
  /\ exam.kind = "paper" =>
       LET p == exam.paper
       IN /\ PaperScore(p) <= PaperScore([p EXCEPT !.refs = @ + 1])
          /\ p.falsifiable < p.n => PaperScore(p) <= PaperScore([p EXCEPT !.falsifiable = @ + 1])
          /\ PaperScore(p) <= PaperScore([p EXCEPT !.limits = TRUE]) /\ PaperScore(p) <= PaperScore([p EXCEPT !.pinned = TRUE])

\* Windows that dataset_window accepts share no instant: nothing of the
\* evaluation can be seen in development.
WindowsDisjoint ==
  exam.kind = "windows" /\ WindowsValid(exam.windows) =>
    \A t \in Instants : Cardinality({i \in 1 .. 3 : exam.windows[i][1] <= t /\ t < exam.windows[i][2]}) <= 1

\* A grant holds no longer than it was given for or until it was revoked, and
\* the budget is never overdrawn, up to the largest numbers.
BudgetsHold ==
  /\ GrantValid => tick < grant.until
  /\ budget.granted = budget.used /\ budget.used < WidthLimit

\* What is settled stays: a bond slashed or released, an appeal resolved, a
\* season closed, a verifier registered.
SettledStands ==
  [][/\ bond \in {"slashed", "released"} => bond' = bond
     /\ appeal \in {"upheld", "denied"} => appeal' = appeal
     /\ season = "closed" => season' = season
     /\ \A v \in DOMAIN verifiers : v \in DOMAIN verifiers' /\ verifiers'[v] = verifiers[v]]_reviewVars

\* The review packages (pkgs/*.rs, rigor.rs): every algorithm agrees with
\* what it is meant to compute, on every bounded input, and no order of calls
\* takes a budget past its limit.
ReviewSafe ==
  /\ SplitExact /\ LoadOrderSound /\ GapsAgree /\ AggregationComposes
  /\ RankingIsStable /\ CirclesAreFound /\ DurationIsLongest
  /\ TamperingIsCaught /\ ReviewsAreMonotone /\ BetterIsNotWorse
  /\ WindowsDisjoint /\ BudgetsHold

=============================================================================
