----------------------------- MODULE MCServices -----------------------------
(***************************************************************************)
(* Instances of the services around the chain: the node's RPC, the shard   *)
(* gateway, the indexer, the parts of the learning harness, and those of   *)
(* Fractal Society.                                                        *)
(*                                                                         *)
(* A behaviour is one of a single component (part) while the others stay   *)
(* at one of their initial states.                                         *)
(***************************************************************************)
EXTENDS LearningProofs, LearningJudge, LearningTraining, LearningRollouts, Indexer, NodeRpc, ShardGateway,
        TradingSim, SocietyPublish, SocietyReview, SocietyKernel

CONSTANT Parts  \* the components that may run

VARIABLE part   \* the one that does

MCInit ==
  /\ part \in Parts
  /\ RlvrInit /\ IndexerInit /\ RpcInit /\ FaucetInit /\ GatewayInit /\ PublishInit
  /\ JudgeInit    /\ (part # "judge" => task = CHOOSE t \in Tasks : TRUE)
  /\ TrainingInit /\ (part # "training" => cmd = "export")
  /\ RolloutsInit /\ (part # "rollouts" => item = CHOOSE i \in Items : TRUE)
  /\ TradingInit  /\ (part # "trading" => bars = (CHOOSE b \in BarSeries : TRUE) /\ agentKind.name = "cash")
  /\ ReviewInit   /\ (part # "review" => exam = NoExam)
  /\ KernelInit   /\ (part # "kernel" => domain = "bandit")

MCNext ==
  /\ UNCHANGED part
  /\ IF part = "rlvr"     THEN RlvrNext     ELSE UNCHANGED rlvrVars
  /\ IF part = "judge"    THEN JudgeNext    ELSE UNCHANGED judgeVars
  /\ IF part = "training" THEN TrainingNext ELSE UNCHANGED trainingVars
  /\ IF part = "rollouts" THEN RolloutsNext ELSE UNCHANGED rolloutVars
  /\ IF part = "indexer"  THEN IndexerNext  ELSE UNCHANGED indexerVars
  /\ CASE part = "rpc"    -> RpcNext /\ UNCHANGED faucetVars
       [] part = "faucet" -> FaucetNext
       [] OTHER           -> UNCHANGED <<rpcVars, faucetVars>>
  /\ IF part = "gateway"  THEN GatewayNext  ELSE UNCHANGED gatewayVars
  /\ IF part = "trading"  THEN TradingNext  ELSE UNCHANGED simVars
  /\ IF part = "publish"  THEN PublishNext  ELSE UNCHANGED publishVars
  /\ IF part = "review"   THEN ReviewNext   ELSE UNCHANGED reviewVars
  /\ IF part = "kernel"   THEN KernelNext   ELSE UNCHANGED kernelVars

MCVars == <<part, rlvrVars, judgeVars, trainingVars, rolloutVars, indexerVars, rpcVars, faucetVars, gatewayVars,
            simVars, publishVars, reviewVars, kernelVars>>

MCSpec == MCInit /\ [][MCNext]_MCVars

-----------------------------------------------------------------------------
(* LearningProofs *)

MCRequests ==
  {[kind |-> "training", adapter |-> "A", eval |-> None, policy |-> "r", key |-> 1, signer |-> 1, time |-> 1],
   [kind |-> "eval", adapter |-> None, eval |-> "E", policy |-> "r", key |-> 2, signer |-> 2, time |-> 1],
   [kind |-> "eval", adapter |-> None, eval |-> "E", policy |-> "s", key |-> 2, signer |-> 1, time |-> 1]}

-----------------------------------------------------------------------------
(* LearningJudge *)

MCTasks == {[known |-> {"a", "b"}, required |-> {"a"}, tools |-> {"b"}, local |-> TRUE],
            [known |-> {"a", "b"}, required |-> {"a", "b"}, tools |-> {}, local |-> FALSE]}

Output(final, clarify, targeted, resolved, missed, premature, premise, route, points) ==
  [final |-> final, clarify |-> clarify, targeted |-> targeted, resolved |-> resolved,
   missed |-> missed, redundant |-> FALSE, premature |-> premature, premise |-> premise,
   route |-> route, reward |-> points]

MCOutputs ==
  {Output(TRUE, FALSE, {}, {"a", "b"}, {}, FALSE, Nothing, TRUE, 390),
   Output(TRUE, FALSE, {}, {"a", "b"}, {}, FALSE, Nothing, TRUE, 510),
   Output(TRUE, FALSE, {}, {"a", "b"}, {"b"}, FALSE, "yes", TRUE, 600),
   Output(TRUE, FALSE, {}, {"a"}, {}, FALSE, "no", TRUE, 600),
   Output(TRUE, FALSE, {}, {"b", "x"}, {}, TRUE, Nothing, FALSE, 600),
   Output(FALSE, TRUE, {"a", "b"}, {"a", "b"}, {}, FALSE, Nothing, TRUE, 600),
   Output(TRUE, FALSE, {}, {}, {}, FALSE, Nothing, FALSE, 0 - 300),
   Output(TRUE, TRUE, {}, {"a", "b"}, {}, FALSE, Nothing, TRUE, 600)}

Signal(routeValid, toolUsed, external, cost, verbose, selfJudged) ==
  [routeValid |-> routeValid, toolUsed |-> toolUsed, external |-> external, cost |-> cost,
   budget |-> 1, latency |-> cost, latencyBudget |-> 0, answered |-> TRUE, verbose |-> verbose,
   selfJudged |-> selfJudged, baseline |-> 3000]

MCSignals == {Signal(TRUE, TRUE, FALSE, 0, FALSE, TRUE), Signal(TRUE, FALSE, TRUE, 2, TRUE, FALSE),
              Signal(FALSE, FALSE, FALSE, 1, FALSE, FALSE)}

-----------------------------------------------------------------------------
(* LearningTraining *)

MCDims == {"correctness", "cost_efficiency"}

MCRow(of, prompt, response, x, y) ==
  [task |-> of, prompt |-> prompt, response |-> response, vec |-> [d \in MCDims |-> IF d = "correctness" THEN x ELSE y]]

MCRowSet == {MCRow(1, 1, 1, 80, 20), MCRow(1, 1, 2, 80, 60), MCRow(1, 1, 3, 0, 90),
              MCRow(2, 1, 1, 80, 20), MCRow(2, 2, 1, 90, 10)}
MCRollouts == UNION {[1..n -> MCRowSet] : n \in 1..3}
MCOverrides == {Empty, [d \in {"correctness"} |-> 0], [d \in MCDims |-> 0]}

OutputOf(final, points, redundant, route, premise) ==
  [final |-> final, reward |-> points, redundant |-> redundant, route |-> route, premise |-> premise]
TraceOf(outputs, coverage, route, privacy, external, private, cost, latency) ==
  [outputs |-> outputs, correctness |-> 50, coverage |-> coverage, route |-> route, privacy |-> privacy,
   external |-> external, private |-> private, cost |-> cost, latency |-> latency]
MCTrace == {TraceOf(<<>>, 40, 0, 100, FALSE, FALSE, 0, 4),
            TraceOf(<<OutputOf(TRUE, 52, FALSE, TRUE, NoFile)>>, 60, 100, 100, FALSE, TRUE, 0, 5),
            TraceOf(<<OutputOf(FALSE, 10, FALSE, TRUE, "yes"), OutputOf(TRUE, 48, FALSE, TRUE, "no")>>, 80, 100, 100, TRUE, FALSE, 8, 5),
            TraceOf(<<OutputOf(TRUE, 60, TRUE, TRUE, NoFile)>>, 80, 100, 100, FALSE, FALSE, 4, 4),
            TraceOf(<<OutputOf(TRUE, 90, FALSE, TRUE, "yes")>>, 90, 100, 100, TRUE, TRUE, 0, 0),
            TraceOf(<<OutputOf(TRUE, 90, FALSE, FALSE, NoFile)>>, 90, 50, 60, TRUE, FALSE, 4, 8)}
MCEvalTraces == {<<t>> : t \in MCTrace} \cup {p \in MCTrace \X MCTrace : p[1].private # p[2].private}

-----------------------------------------------------------------------------
(* LearningRollouts *)

Pt(i, m, a, t) == [id |-> i, must |-> m, answer |-> a, terms |-> t]
RItems ==
  {[points |-> <<Pt("c1", TRUE, <<"a", "b">>, {"t1"}), Pt("c2", TRUE, <<"b">>, {"t2"}), Pt("c3", FALSE, <<"a", "b", "b">>, {"t1", "t3"})>>,
    hidden |-> <<"b", "a">>, visible |-> <<"w">>, rules |-> {"r1"}, default |-> "r2"],
   [points |-> <<Pt("c1", FALSE, <<"k">>, {"t1"}), Pt("c2", FALSE, <<"c1">>, {"t2"})>>,
    hidden |-> <<"k", "opposite">>, visible |-> <<"k">>, rules |-> {"r1"}, default |-> "r1"],
   [points |-> <<Pt("c1", TRUE, <<"a">>, {"t1"}), Pt("c2", TRUE, <<>>, {"t2"})>>,
    hidden |-> <<"a">>, visible |-> <<"w">>, rules |-> {"r1"}, default |-> "r1"],
   [points |-> <<Pt("c1", TRUE, <<"a">>, {"t1"})>>,
    hidden |-> <<"a">>, visible |-> <<"w">>, rules |-> {}, default |-> "r1"]}
RMind ==
  {[query |-> q, degraded |-> d, rules |-> {"r1"}, default |-> "r2",
    facts |-> <<Pt("c1", TRUE, <<"b">>, {"t1"}), Pt("c2", FALSE, a, {"t2"})>>] :
      q \in {<<"w", "w", ".", "b">>, <<"w", "b">>, <<".", "b">>}, d \in {<<>>, <<"w">>}, a \in {<<"a">>, <<>>}}
RPremise ==
  {[query |-> <<"a", "b">>, premise |-> <<"k", "a">>, correction |-> <<"b">>, prompt |-> p, rules |-> {"r1"}, default |-> "r1"] :
     p \in {<<>>, <<"w", "k", "a">>, <<"k", "w">>}}
RRule(type, route, tool, escalation) == [type |-> type, route |-> route, cap |-> "facts", tool |-> tool, escalation |-> escalation]
RRules ==
  {<<RRule("current_public_info", {"web"}, {"web_search"}, {}), RRule("stable_knowledge", {"tiny"}, {}, {{"cloud"}})>>,
   <<RRule("high_stakes_advice", {"web"}, {}, {})>>}
RTraces ==
  {[tags |-> g, localOnly |-> l, prompt |-> p, reason |-> r, route |-> t, models |-> m, tools |-> o, rules |-> u, cost |-> 1, latency |-> 2] :
     g \in {{}, {"private_file"}}, l \in BOOLEAN, p \in {{}, {"weather"}, {"price", "tax"}, {"news"}, {"bug"}},
     r \in {{}, {"fresh"}, {"private"}}, t \in {{"web"}, {"tiny"}, {"file"}},
     m \in {{}, {[id |-> {"web"}, local |-> TRUE, caps |-> {"facts"}]}}, o \in {{"weather_lookup", "web_search"}}, u \in RRules}
RFacts ==
  UNION {{f \in [1 .. n -> [id : 1 .. 2, numeric : BOOLEAN, cited : BOOLEAN, constraint : BOOLEAN]] :
            \A i, j \in 1 .. n : i # j => f[i].id # f[j].id} : n \in 1 .. 2}
RTags == [w \in {"k", "w"} |-> IF w = "k" THEN "key" ELSE "health"]
RScan == UNION {[1 .. n -> {"9", "-", "x"}] : n \in 0 .. 6}

-----------------------------------------------------------------------------
(* Indexer *)

MCReceipt(r, w, ok) == [receipt |-> r, worker |-> w, ok |-> ok, requester |-> "q"]
MCChain ==
  0 :> <<>>
  @@ 1 :> <<[id |-> 1, signer |-> "a", kind |-> "register"], [id |-> 2, signer |-> "a", kind |-> "stake", amount |-> 2],
            [id |-> 10, signer |-> "a", kind |-> "unstake", amount |-> 1]>>
  @@ 2 :> <<[id |-> 3, signer |-> "o", kind |-> "settle", receipts |-> <<MCReceipt(7, 1, TRUE), MCReceipt(8, 1, FALSE)>>]>>
  @@ 3 :> <<[id |-> 4, signer |-> "q", kind |-> "dispute", of |-> 7],
            [id |-> 5, signer |-> "a", kind |-> "resolve", of |-> 1, fault |-> TRUE],
            [id |-> 6, signer |-> "a", kind |-> "life"], [id |-> 11, signer |-> "o", kind |-> "slash", of |-> "a"]>>

-----------------------------------------------------------------------------
(* NodeRpc *)

MCEvm(e, to) == [kind |-> "evm", id |-> e, to |-> to]
MCSubmissions ==
  {[signer |-> "s1", nonce |-> 0, call |-> MCEvm("e1", "a1"), wire |-> "eth"],
   [signer |-> "s1", nonce |-> 1, call |-> MCEvm("e2", Absent), wire |-> "borsh"],
   [signer |-> "s2", nonce |-> 0, call |-> MCEvm("e3", Absent), wire |-> "eth"]}
MCLogsOf == [e1 |-> <<[address |-> "a1", topics |-> <<"t1">>], [address |-> "a2", topics |-> <<"t1", "t2">>]>>,
             e2 |-> <<[address |-> "a1", topics |-> <<"t2">>]>>,
             e3 |-> <<[address |-> "a2", topics |-> <<>>]>>]
MCBitsOf == [a1 |-> {1, 2}, a2 |-> {2, 3}, t1 |-> {4, 5}, t2 |-> {1, 6}]
MCRecords ==
  {[subject |-> "x", source |-> "p", body |-> b, claimed |-> 2, spelling |-> h] : b \in {1, 2}, h \in {"0x", ""}}
    \cup {[subject |-> "x", source |-> "q", body |-> 1, claimed |-> 1, spelling |-> "0x"]}
MCCriteria ==
  {[anyAddress |-> a = "", addresses |-> {a}, topics |-> ts] :
     a \in {"", "a1"}, ts \in {<<>>, <<{}, {"t2"}>>, <<{"t1", "t2"}>>}}
MCHashes == {[subject |-> "x", source |-> "q", body |-> 1]}
MCLifeCommands ==
  {[id |-> "", hash |-> "c1", kind |-> "birth_grant", epoch |-> 1], [id |-> "c1", hash |-> "c2", kind |-> "birth_grant", epoch |-> 1],
   [id |-> "", hash |-> "c2", kind |-> "birth_grant", epoch |-> 2], [id |-> "c3", hash |-> "c4", kind |-> "rent_charge", epoch |-> 1],
   [id |-> "c5", hash |-> "c5", kind |-> "birth", epoch |-> 1]}

MCFundRequests ==
  {[ip |-> "i1", forwarded |-> Absent, to |-> "x", amount |-> Absent], [ip |-> "i1", forwarded |-> "f1", to |-> "x", amount |-> 2],
   [ip |-> "i2", forwarded |-> "f1", to |-> "y", amount |-> 1], [ip |-> "i2", forwarded |-> Absent, to |-> "y", amount |-> 3]}

-----------------------------------------------------------------------------
(* ShardGateway *)

MCGatewayTx(i, signer, scope, objects, emits, wire) ==
  [id |-> i, signer |-> signer, scope |-> scope, objects |-> objects, emits |-> emits, wire |-> wire]
MCGatewayTxs ==
  {MCGatewayTx(1, "s1", "owned", <<<<"receipt", "r1">>, <<"agent", "a1">>>>, {"k"}, "borsh"),
   MCGatewayTx(2, "s2", "mixed", <<<<"receipt", "r1">>>>, {"k", "m"}, "eth")}
MCNodeTxs == {MCGatewayTx(3, "s2", "owned", <<<<"commitment", "h">>>>, {}, "borsh")}
MCHomeOf ==
  [k \in {<<"signer", "s1">>, <<"agent", "a1">>, <<"signer", "zero">>} |-> IF k[1] = "agent" THEN 1 ELSE 4]
    @@ [k \in {<<"signer", "s2">>, <<"receipt", "r1">>, <<"signer", "k">>} |-> 7]
MCQuery(m) == [method |-> m, address |-> NoAnswer, from |-> NoAnswer, to |-> NoAnswer, filter |-> <<>>, hash |-> NoAnswer]
MCGatewayQueries ==
  {MCQuery(m) : m \in {"eth_blockNumber", "eth_gasPrice", "fractal_gatewayShardMap", "eth_call", "eth_getBlockByHash"}}
    \cup {[MCQuery("eth_getLogs") EXCEPT !.filter = f] : f \in {<<"k">>, <<"k", "m">>}}
    \cup {[MCQuery("eth_getTransactionCount") EXCEPT !.address = "s1"], [MCQuery("eth_getTransactionCount") EXCEPT !.address = "s2"],
          [MCQuery("eth_estimateGas") EXCEPT !.to = "k", !.from = "s1"],
          [MCQuery("eth_getBlockByHash") EXCEPT !.hash = [shard |-> 1, height |-> 1]]}
    \cup {[MCQuery(m) EXCEPT !.hash = t] : m \in {"eth_getTransactionByHash", "eth_getTransactionReceipt"},
                                         t \in {u \in MCGatewayTxs \cup MCNodeTxs : u.id >= 2}}
MCEndpointLists ==
  {<<[id |-> NoAnswer, url |-> 0], [id |-> NoAnswer, url |-> 1]>>, <<[id |-> 1, url |-> 1], [id |-> 0, url |-> 0]>>,
   <<[id |-> 1, url |-> 1], [id |-> NoAnswer, url |-> 0]>>, <<[id |-> 0, url |-> 0], [id |-> 2, url |-> 1]>>,
   <<[id |-> 0, url |-> NoAnswer], [id |-> 1, url |-> 1]>>, <<>>}

-----------------------------------------------------------------------------
(* TradingSim *)

TradingBar(c, l, h, r, s) == [close |-> c, low |-> l, high |-> h, rate |-> r, stale |-> s]
TradingBarSeries ==
    {<<[btc |-> TradingBar(603, 600, 603, 0, FALSE), eth |-> TradingBar(300, 300, 300, 0, FALSE)],
       [btc |-> TradingBar(b, 300, 909, 10, st), eth |-> TradingBar(e, 300, 607, 0, FALSE)],
       [btc |-> TradingBar(c, 300, 603, 0 - 10, FALSE), eth |-> TradingBar(305, 300, 607, 10, FALSE)],
       [btc |-> TradingBar(300, 300, 603, 0, FALSE), eth |-> TradingBar(607, 300, 607, 0, FALSE)]>> :
        b \in {302, 909}, e \in {607}, c \in {302}, st \in {FALSE}}
TradingFreeActions ==
    {Hold, Market("btc", "buy", 2), Market("btc", "sell", 2),
     Limit("btc", "sell", 5, 909, FALSE), Limit("btc", "buy", 4, 300, FALSE),
     Limit("btc", "sell", 4, 603, TRUE), Reduce("btc", 1), Market("eth", "sell", 4)}

-----------------------------------------------------------------------------
(* SocietyPublish *)

PublishReports == [r1 |-> <<TRUE, TRUE>>, r2 |-> <<TRUE, TRUE, FALSE>>]
PublishConcepts ==
  [k1 |-> <<[id |-> "c1", kind |-> "claim", status |-> "refuted"], [id |-> "c2", kind |-> "deadEnd", status |-> "abandoned"],
            [id |-> "c1", kind |-> "topic", status |-> "active"]>>]

-----------------------------------------------------------------------------
(* SocietyReview *)

SeqsUpTo(S, n) == UNION {[1 .. k -> S] : k \in 0 .. n}
ReviewWeights == UNION {[1 .. k -> 0 .. 3] : k \in 1 .. 3}
ReviewGraphs == [1 .. 3 -> SUBSET (1 .. 4)]
ReviewObserved == SeqsUpTo(0 .. 4, 3)
Bars == {[open |-> 2, high |-> 4, low |-> 1, close |-> 3, volume |-> 1], [open |-> 3, high |-> 3, low |-> 0, close |-> 1, volume |-> 2],
         [open |-> 1, high |-> 5, low |-> 1, close |-> 5, volume |-> 0]}
ReviewBars == SeqsUpTo(Bars, 5)
ReviewBoards == UNION {[1 .. k -> [agent : 1 .. 2, ret : 0 .. 1, drawdown : {0, 2}, violations : {0}]] : k \in 1 .. 3}
ReviewPairs == SeqsUpTo({1, 2, 3} \X {1, 2, 3}, 3)
ReviewCurves == SeqsUpTo(0 .. 3, 5)
ReviewHonest ==
  [steps |-> <<[step |-> 1, equity |-> {100}, cash |-> {60}, notional |-> {40}, total |-> {-2}, realized |-> {0}, unrealized |-> {0}, fees |-> {2}, rejected |-> FALSE, tool |-> {}],
               [step |-> 2, equity |-> {107}, cash |-> {60}, notional |-> {47}, total |-> {5}, realized |-> {0}, unrealized |-> {7}, fees |-> {2}, rejected |-> TRUE, tool |-> {"hold"}]>>,
   policy |-> {1}, score |-> {5}, baseline |-> [candidate |-> 107, base |-> 100, difference |-> 7, percent |-> 7, better |-> TRUE]]
ReviewDecisions == SeqsUpTo({"approve", "changes", "reject", "abstain"}, 4)

-----------------------------------------------------------------------------
(* SocietyKernel *)

KTapes == {<<0,1,1,0,1,1>>}

-----------------------------------------------------------------------------
\* Proofs and verdicts of the RLVR harness (rlvr/src/chain, tracing,
\* verifier, rewards): an accepted proof is signed, whole and found through
\* every index also after a reload; a verdict that passes is backed by the
\* judges it summarises and pretence costs.
LearningIsHonest ==
  /\ ProofsAuthentic /\ AcceptedWhole /\ IndexesMatch /\ TraceCountExact
  /\ PassIsBacked /\ AgreementIsReal /\ PraiseIsConsistent
  /\ PretenceIsCaught /\ RolloutIsHonest

\* Training data and adapters (rlvr/src/trainer, adapters, evals, simulator,
\* data): pairs never prefer the dominated rollout and account for every
\* rollout, a loaded adapter is one whole export but for files written again
\* while it was loaded, promotions never regress, and what leaves the
\* simulator holds nothing private that was not asked.
TrainingIsSound ==
  /\ DatasetAccounts /\ NeverPrefersDominated /\ LoadedIsWhole
  /\ RegisteredWasWritten /\ PromotionsNeverRegress /\ AdviceIsSafe
  /\ NothingUnasked /\ PrematureIsMissed /\ RewardOrdersQuestions
  /\ EveryTurnIsScanned /\ PhoneScanIsExact /\ PrivateTraceStaysLocal
  /\ LookupsHaveTools /\ EveryFactIsChecked /\ PremiseIsVisible

\* What the RPC answers (rpc/src/module.rs, gateway.rs): logs, receipts,
\* blooms and lists agree with one another and with the chain while blocks
\* are mined and pruned; what clients send for a signer is on one shard and
\* an answer over several shards is whole; the faucet keeps its rates.  Where another part
\* runs, the views are those of a chain that has not begun.
AnswersAreTrue ==
  /\ part = "rpc" =>
       /\ LogsMatchReceipts /\ ReceiptsPlaced /\ BloomCovers /\ ListedIsFound
       /\ CommittedOnce /\ ListsKeepNewest
       /\ BlockViewsAgree /\ TransactionViewsAgree /\ RegistersAgree
  /\ SignerOnOneShard /\ AnswersAreWhole /\ FaucetKeepsRate /\ DripsNeverJam

\* The simulators of Fractal Society (adapters/trading, adapters/forecasting,
\* kernel.rs): profit is accounted for, up to what each product truncates,
\* through flips, partial fills and liquidations, an episode replays alike, what was observed is what is
\* scored and the score is the reward that was paid.
SimulationsAgree ==
  /\ PnlAccounted /\ ReduceOnlyShrinks /\ LiquidatedIsFlat /\ RewardIsResult
  /\ DrawdownIsDeepest /\ EpisodesReplayAlike /\ SeenIsScored
  /\ ScoreIsReward /\ EnvironmentMirrors

\* What no step may do: move a committed proof to another block, unless it was
\* removed, lost or edited before (rlvr/src/chain/committed.rs), anchor a hash
\* whose package or paper was not there, but for a manifest that a crash in
\* a retry cut (fractal-society/src/commit_service.rs),
\* or settle a bond, an appeal or a season again (pkgs/challenge_bond.rs).
StandsOnceMade ==
  /\ CommitmentStands /\ AnchoredIsBacked /\ SettledStands

=============================================================================
