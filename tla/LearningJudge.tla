---------------------------- MODULE LearningJudge ----------------------------
(***************************************************************************)
(* How the RLVR harness judges a dialogue (crates/rlvr/src/verifier,       *)
(* rewards and the rollout of trainer): the answers of the verifier models *)
(* are parsed with retries, a panel of judges is merged and scored against *)
(* the checkpoints of the task, the score becomes a reward vector, the     *)
(* terms of the MVP policy and the flags of the anti-hacking detector.     *)
(* Scores are in units of 1/One, so that halves, thirds and percentages    *)
(* are exact; a judge's output is a record, ids are members of small sets. *)
(***************************************************************************)
EXTENDS Values, SequencesExt, Integers

CONSTANTS
  Tasks,       \* [known, required, tools: checkpoint ids, local: BOOLEAN]
  Outputs,     \* StrictVerifierOutput as a model may write it
  Garbage,     \* an answer that is no JSON of that shape
  Nothing,     \* None
  Signals,     \* the rest of RewardSignalInput and AntiRewardHackingInput
  MaxRetries,  \* retries of a judge
  MaxJudges    \* bound: size of the panel

One == 600

ASSUME JudgeAssumption ==
  /\ MaxRetries \in Nat /\ MaxJudges \in Nat \ {0}
  /\ \A t \in Tasks : t.known # {} /\ t.required \subseteq t.known /\ t.tools \subseteq t.known

VARIABLES
  task,      \* the TrainingItem being judged
  judged,    \* outputs accepted so far, one for each judge
  unusable,  \* judges whose output is excluded from training
  panel,     \* VerifierPanelReport, or Nothing
  rollout,   \* what run_single_rollout made of the simulated dialogue, or Nothing
  scored     \* reward vector, MVP terms and flags, or Nothing

judgeVars == <<task, judged, unusable, panel, rollout, scored>>
-----------------------------------------------------------------------------
\* StrictVerifierOutput::validate
ValidOutput(o) == ~(o.final /\ o.clarify)

\* parse_verifier_output_with_retries: the attempts that may be looked at
Readable(attempts) == {i \in 1..Len(attempts) : i <= MaxRetries + 1 /\ attempts[i] # Garbage
                                                /\ ValidOutput(attempts[i])}

\* The union of a field over a sequence of outputs (union_sorted).
Union(outs, field(_)) == UNION {field(outs[i]) : i \in DOMAIN outs}

\* What is not resolved, and what a judge calls missed, resolved or not.
Missed(known, resolved, missed) == (known \ resolved) \cup (known \cap missed)

\* score_checkpoint_coverage: a checkpoint one judge resolved and another calls
\* missed counts as resolved and as missed
Coverage(known, outs) ==
  LET resolved == Union(outs, LAMBDA o : o.resolved)
      missed == Union(outs, LAMBDA o : o.missed)
      named == resolved \cup missed \cup Union(outs, LAMBDA o : o.targeted)
  IN [targeted |-> known \cap Union(outs, LAMBDA o : o.targeted),
      missed |-> Missed(known, resolved, missed),
      unknown |-> named \ known,
      redundant |-> (\E i \in DOMAIN outs : outs[i].redundant) \/ named \ known # {},
      total |-> Cardinality(known),
      score |-> (One * Cardinality(known \cap resolved)) \div Cardinality(known)]

Clamp(x) == IF x < 0 THEN 0 ELSE IF x > One THEN One ELSE x

\* score_final_answer_from_coverage of the final output o (scores times 100)
FinalScore(o, cov, tools) ==
  LET failures == [reasoning |-> o.reward < 0,
                   insufficient |-> o.premature \/ cov.missed # {},
                   route |-> ~o.route,
                   tool |-> cov.missed \cap tools # {},
                   redundant |-> cov.redundant]
      correctness == Clamp(o.reward)
      points == (55 * correctness + 45 * cov.score)
                - 15 * One * Cardinality({f \in DOMAIN failures : failures[f]})
  IN [passed |-> /\ points >= 70 * One /\ 10 * correctness >= 7 * One /\ 10 * cov.score >= 8 * One
                 /\ \A f \in DOMAIN failures \ {"redundant"} : ~failures[f],
      correctness |-> correctness, completion |-> cov.score,
      insufficient |-> failures.insufficient, tool |-> failures.tool]

\* The last final answer among the outputs, 0 when there is none.
LastFinal(outs) == LET F == {i \in DOMAIN outs : outs[i].final} IN IF F = {} THEN 0 ELSE Max(F)
-----------------------------------------------------------------------------
\* The threshold of aggregate_panel_outputs
Threshold(n) == (n \div 2) + 1

Majority(outs, says(_)) == Cardinality({i \in DOMAIN outs : says(outs[i])}) >= Threshold(Len(outs))

\* aggregate_optional_bool: of the judges that said something, the true ones
\* against the smaller of the threshold and their number
Premise(outs) ==
  LET said == {i \in DOMAIN outs : outs[i].premise # Nothing}
      yes == {i \in said : outs[i].premise = "yes"}
      limit == Min({Threshold(Len(outs)), Cardinality(said)})
  IN IF said = {} THEN Nothing ELSE IF Cardinality(yes) >= limit THEN "yes" ELSE "no"

\* aggregate_panel_outputs
PanelOutput(outs) ==
  LET final == Majority(outs, LAMBDA o : o.final)
  IN [final |-> final,
      clarify |-> Majority(outs, LAMBDA o : o.clarify) /\ ~final,
      targeted |-> Union(outs, LAMBDA o : o.targeted),
      resolved |-> Union(outs, LAMBDA o : o.resolved),
      missed |-> Union(outs, LAMBDA o : o.missed),
      redundant |-> \E i \in DOMAIN outs : outs[i].redundant,
      premature |-> \E i \in DOMAIN outs : outs[i].premature,
      premise |-> Premise(outs),
      route |-> Majority(outs, LAMBDA o : o.route),
      reward |-> FoldSet(LAMBDA i, s : s + outs[i].reward, 0, DOMAIN outs) \div Len(outs)]

\* The verdict on one judge's output alone, over the ids it names itself.
OwnVerdict(o, tools) ==
  FinalScore(o, Coverage(o.resolved \cup o.missed, <<o>>), tools).passed

\* The defect: the verdicts are not compared.
VerdictsDifferNever(outs, score, tools) == FALSE

\* A judge with a final answer and named checkpoints whose own verdict is another.
VerdictsDiffer(outs, score, tools) ==
  /\ score # Nothing
  /\ \E i \in DOMAIN outs : /\ outs[i].final /\ outs[i].resolved \cup outs[i].missed # {}
                            /\ OwnVerdict(outs[i], tools) # score.passed

\* panel_disagreement_reasons: a flag, a checkpoint set, a reward more than 0.25
\* apart, or a judge whose own verdict is not the panel's
Disagreement(outs, score, tools) ==
  /\ Len(outs) > 1
  /\ \/ \E i, j \in DOMAIN outs :
           \/ [outs[i] EXCEPT !.reward = 0, !.targeted = {}] # [outs[j] EXCEPT !.reward = 0, !.targeted = {}]
           \/ 4 * (outs[i].reward - outs[j].reward) > One
     \/ VerdictsDiffer(outs, score, tools)

\* evaluate_verifier_panel_for_item
PanelReport(t, outs) ==
  LET cov == Coverage(t.known, outs)
      merged == PanelOutput(outs)
      score == IF merged.final THEN FinalScore(merged, cov, t.tools) ELSE Nothing
  IN [merged |-> merged, coverage |-> cov, score |-> score,
      disagreement |-> Disagreement(outs, score, t.tools)]
-----------------------------------------------------------------------------
\* clarification_quality
ClarificationQuality(cov, outs) ==
  LET asked == {i \in DOMAIN outs : outs[i].clarify}
      useful == {i \in asked : ~outs[i].redundant /\ outs[i].targeted \cap cov.targeted # {}}
  IN IF asked = {} THEN (IF cov.missed = {} THEN One ELSE 0)
     ELSE (One * Cardinality(useful)) \div Cardinality(asked)

\* efficiency_score and latency_efficiency_score
Efficiency(actual, budget) ==
  IF budget = 0 \/ actual <= budget THEN One ELSE (One * budget) \div actual

Grade(b) == IF b THEN One ELSE 0

AverageReward(outs) ==
  IF outs = <<>> THEN 0
  ELSE Clamp(FoldSet(LAMBDA i, s : s + outs[i].reward, 0, DOMAIN outs) \div Len(outs))

\* compute_reward_vector
RewardVector(t, cov, score, outs, g) ==
  [correctness |-> IF score = Nothing THEN AverageReward(outs) ELSE score.correctness,
   coverage |-> cov.score,
   clarification |-> ClarificationQuality(cov, outs),
   premise |-> Grade(\A i \in DOMAIN outs : outs[i].premise # "no"),
   route |-> Grade(g.routeValid /\ \A i \in DOMAIN outs : outs[i].route),
   tool |-> Grade(t.tools = {} \/ (g.toolUsed /\ (score = Nothing \/ ~score.tool))),
   cost |-> Efficiency(g.cost, g.budget),
   latency |-> Efficiency(g.latency, g.latencyBudget),
   privacy |-> Grade(~(t.local /\ g.external)),
   fresh |-> Grade(~cov.redundant /\ \A i \in DOMAIN outs : ~outs[i].redundant)]

\* average_dimensions, ten times
FinalReward(v) == FoldSet(LAMBDA d, s : s + v[d], 0, DOMAIN v)

\* final_answer_correct_after_required_checkpoints
Praised(score) == score # Nothing /\ score.passed /\ score.completion >= One

\* MvpRewardPolicyInput::from_reward_signal
MvpTerms(t, cov, score, outs, g) ==
  [correct |-> Praised(score),
   route |-> g.routeValid /\ \A i \in DOMAIN outs : outs[i].route,
   clarified |-> \E i \in DOMAIN outs : outs[i].clarify /\ ~outs[i].redundant
                                          /\ outs[i].targeted \cap cov.targeted # {},
   premise |-> \E i \in DOMAIN outs : outs[i].premise = "yes",
   cheap |-> g.cost = 0 /\ ~g.external,
   redundant |-> cov.redundant \/ \E i \in DOMAIN outs : outs[i].redundant,
   toolless |-> t.tools # {} /\ (~g.toolUsed \/ (score # Nothing /\ score.tool)),
   leaked |-> t.local /\ g.external,
   premature |-> (score # Nothing /\ score.insufficient) \/ \E i \in DOMAIN outs : outs[i].premature,
   wrong |-> score # Nothing /\ (~score.passed \/ 2 * score.correctness < One)]

\* score_mvp_reward_with_policy, with the weights of MvpRewardPolicyV01 in hundredths
MvpReward(m) ==
  LET praise == [correct |-> 100, route |-> 60, clarified |-> 40, premise |-> 25, cheap |-> 20]
      blame == [redundant |-> 25, toolless |-> 40, leaked |-> 60, premature |-> 75, wrong |-> 100]
  IN FoldSet(LAMBDA k, s : s + (IF m[k] THEN praise[k] ELSE 0), 0, DOMAIN praise)
     - FoldSet(LAMBDA k, s : s + (IF m[k] THEN blame[k] ELSE 0), 0, DOMAIN blame)

\* pretending_checkpoints_resolved
Pretending(cov, v, outs) ==
  100 * v.coverage >= 95 * One /\ (cov.missed # {} \/ \E i \in DOMAIN outs : outs[i].missed # {})

\* detect_anti_reward_hacking
Flags(cov, v, outs, g) ==
  LET base == [everything |-> cov.total > 1 /\ Cardinality(cov.targeted) >= cov.total
                              /\ \E i \in DOMAIN outs : outs[i].clarify,
               unanswered |-> ~g.answered \/ \A i \in DOMAIN outs : ~outs[i].final,
               expensive |-> g.budget > 0 /\ g.cost > g.budget,
               pretending |-> Pretending(cov, v, outs),
               hiding |-> g.verbose /\ FinalReward(v) >= 7 * One,
               inflated |-> g.selfJudged /\ (FinalReward(v) >= 8 * One \/ 10 * AverageReward(outs) >= 9 * One)]
  IN [flags |-> base,
      gain |-> FinalReward(v) - g.baseline >= (10 * One) \div 4 /\ \E f \in DOMAIN base : base[f]]

\* compute_reward_vector, score_mvp_reward_v01 and detect_anti_reward_hacking of one dialogue
Scored(t, cov, score, outs, g) ==
  LET v == RewardVector(t, cov, score, outs, g)
      m == MvpTerms(t, cov, score, outs, g)
  IN [vector |-> v, final |-> FinalReward(v), terms |-> m, mvp |-> MvpReward(m),
      hacking |-> Flags(cov, v, outs, g), coverage |-> cov, score |-> score]
-----------------------------------------------------------------------------
\* A judge answers, perhaps after retries: parse_verifier_output_with_retries_and_logger
ParseJudge(attempts) ==
  /\ panel = Nothing /\ rollout = Nothing /\ Len(judged) + unusable < MaxJudges
  /\ \/ /\ Readable(attempts) # {}
        /\ judged' = Append(judged, attempts[Min(Readable(attempts))])
        /\ UNCHANGED unusable
     \/ /\ Readable(attempts) = {}
        /\ unusable' = unusable + 1
        /\ UNCHANGED judged
  /\ UNCHANGED <<task, panel, rollout, scored>>

\* evaluate_verifier_panel_for_item: an empty panel is refused
EvaluatePanel ==
  /\ panel = Nothing /\ rollout = Nothing /\ judged # <<>>
  /\ panel' = PanelReport(task, judged)
  /\ UNCHANGED <<task, judged, unusable, rollout, scored>>

\* The dialogue of the panel is rewarded.
RewardPanel(g) ==
  /\ panel # Nothing /\ scored = Nothing
  /\ scored' = Scored(task, panel.coverage, panel.score, judged, g)
  /\ UNCHANGED <<task, judged, unusable, panel, rollout>>

\* The two outputs run_single_rollout writes for its own dialogue: the question
\* that revealed these checkpoints, and the final answer.
RolloutOutputs(t, revealed, gold, routeValid) ==
  LET missed == t.required \ revealed
      coverage == IF t.required = {} THEN One
                  ELSE (One * Cardinality(t.required \cap revealed)) \div Cardinality(t.required)
      question == [final |-> FALSE, clarify |-> TRUE, targeted |-> revealed, resolved |-> revealed,
                   missed |-> {}, redundant |-> revealed = {}, premature |-> FALSE,
                   premise |-> Nothing, route |-> routeValid, reward |-> coverage]
  IN <<question,
       [question EXCEPT !.final = TRUE, !.clarify = FALSE, !.targeted = {}, !.missed = missed,
                        !.redundant = FALSE, !.premature = coverage < One,
                        !.reward = IF gold THEN (IF missed = {} THEN One ELSE One \div 2) ELSE 0]>>

\* score_checkpoint_coverage_for_item takes every checkpoint of the item
RolloutKnown(t) == t.known

\* run_single_rollout: route, clarification, simulated reply, final answer, score
\* and reward of one dialogue.  No tool is ever used.
RunRollout(revealed, gold, g) ==
  /\ panel = Nothing /\ rollout = Nothing /\ judged = <<>> /\ unusable = 0
  /\ ~g.toolUsed
  /\ LET outs == RolloutOutputs(task, revealed, gold, g.routeValid)
         cov == Coverage(RolloutKnown(task), outs)
     IN /\ rollout' = [revealed |-> revealed, gold |-> gold, route |-> g.routeValid]
        /\ judged' = outs
        /\ scored' = Scored(task, cov, FinalScore(outs[LastFinal(outs)], cov, task.tools), outs, g)
  /\ UNCHANGED <<task, unusable, panel>>
-----------------------------------------------------------------------------
JudgeInit ==
  /\ task \in Tasks /\ judged = <<>> /\ unusable = 0
  /\ panel = Nothing /\ rollout = Nothing /\ scored = Nothing

Attempts == {<<o>> : o \in Outputs} \cup {<<Garbage, o>> : o \in Outputs} \cup {<<Garbage, Garbage, o>> : o \in Outputs}

JudgeNext ==
  \/ \E a \in Attempts : ParseJudge(a)
  \/ EvaluatePanel
  \/ \E g \in Signals : RewardPanel(g)
  \/ \E r \in SUBSET task.known, gold \in BOOLEAN, g \in Signals : RunRollout(r, gold, g)

JudgeSpec == JudgeInit /\ [][JudgeNext]_judgeVars
-----------------------------------------------------------------------------
\* A panel passes an answer only when a strict majority calls it final and its
\* route valid, every checkpoint was resolved by some judge, and no judge calls
\* it premature or a checkpoint missed (aggregate_panel_outputs mixes majorities
\* with unions; verifier/mod.rs).
PassIsBacked ==
  panel # Nothing /\ panel.score # Nothing /\ panel.score.passed =>
    /\ 2 * Cardinality({i \in DOMAIN judged : judged[i].final}) > Len(judged)
    /\ 2 * Cardinality({i \in DOMAIN judged : judged[i].route}) > Len(judged)
    /\ \A c \in task.known : /\ \E i \in DOMAIN judged : c \in judged[i].resolved
                             /\ \A i \in DOMAIN judged : c \notin judged[i].missed
    /\ \A i \in DOMAIN judged : ~judged[i].premature

\* A panel that reports no disagreement has judges each of which, alone and over
\* the checkpoints of the task, comes to the verdict of the panel, as long as
\* they name no unknown checkpoint (panel_disagreement_reasons).
AgreementIsReal ==
  panel # Nothing /\ panel.score # Nothing /\ ~panel.disagreement /\ panel.coverage.unknown = {} =>
    \A i \in DOMAIN judged :
      FinalScore(judged[i], Coverage(task.known, <<judged[i]>>), task.tools).passed = panel.score.passed

\* An answer praised as correct after all checkpoints is not blamed as wrong or
\* premature in the same breath (from_reward_signal).
PraiseIsConsistent ==
  scored # Nothing /\ scored.terms.correct =>
    ~scored.terms.wrong /\ ~scored.terms.premature /\ scored.vector.coverage = One

\* Full coverage next to a checkpoint somebody calls missed is flagged and does
\* not pass (score_checkpoint_coverage, detect_anti_reward_hacking).
PretenceIsCaught ==
  scored # Nothing /\ scored.coverage.missed # {} =>
    /\ scored.score = Nothing \/ ~scored.score.passed
    /\ scored.vector.coverage = One => scored.hacking.flags.pretending

\* A rollout passes exactly when its question revealed every checkpoint, the
\* optional ones too, the route is one of the policy and the answer is the
\* expected one (run_single_rollout).
RolloutIsHonest ==
  rollout # Nothing =>
    (scored.score.passed <=> /\ rollout.revealed = task.known /\ rollout.gold /\ rollout.route)
=============================================================================
