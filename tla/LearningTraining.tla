-------------------------- MODULE LearningTraining --------------------------
(***************************************************************************)
(* What the RLVR harness makes of scored rollouts (crates/rlvr/src/trainer,*)
(* rewards/weights, adapters, evals, api/training_report): a batch of      *)
(* tasks is sampled, rewards are weighted, DPO pairs, SFT examples or a    *)
(* GRPO update are built, an adapter bundle is exported file by file and   *)
(* registered, and an adapter is promoted when its eval report passes the  *)
(* gate. Every behaviour is one command of the command line, chosen at the *)
(* start: the commands share nothing but files. Rates are percentages.     *)
(***************************************************************************)
EXTENDS Values, SequencesExt, Integers

CONSTANTS
  Commands,       \* subset of {"dataset", "export", "promote"}
  Dims,           \* dimensions of a reward vector that are told apart
  Overrides,      \* weights, in halves, a configuration file may set
  Rollouts,       \* sequences of [task, prompt, response, vec: Dims -> 0..100]
  MinMargin, MaxPairs, SftThreshold,   \* FallbackTrainConfig
  MaxBatch,       \* max_batch_size of the resource limits
  Exporters,      \* processes running export_adapter_bundle into one directory
  EvalTraces,     \* sequences of traces an eval report is built from
  NoFile,         \* an absent file
  Torn,           \* a file left half written
  MaxPromotions   \* bound: candidates evaluated

ASSUME TrainingAssumption ==
  /\ Commands \subseteq {"dataset", "export", "promote"}
  /\ MinMargin \in Nat /\ MaxPairs \in Nat \ {0} /\ SftThreshold \in 0..100
  /\ MaxBatch \in Nat \ {0} /\ MaxPromotions \in Nat

VARIABLES
  cmd,       \* the command of this behaviour
  training,  \* [input, weights, pairs, examples, ...] of build_*_dataset, or NoFile
  writer,    \* exporter -> next step of its export, 9 when done, 0 when it died
  held,      \* exporter -> the registry it read and has not saved yet
  bundle,    \* artifact role -> the export whose bytes the file holds
  manifest,  \* the export the manifest lists, or NoFile
  registry,  \* exporters whose metadata is in adapters.json, or Torn
  lapped,    \* history: two registrations overlapped, or one died saving
  loader,    \* load_adapter_bundle under way: [id, step, files, changed], or NoFile
  opened,    \* what load_adapter_bundle returned, or NoFile
  live,      \* eval reports of the adapters promoted so far
  advice     \* training report of the last candidate, or NoFile

exportVars == <<writer, held, bundle, manifest, registry, lapped, loader, opened>>
trainingVars == <<cmd, training, exportVars, live, advice>>
-----------------------------------------------------------------------------
\* RewardWeights::for_target, in halves
Profiles ==
  LET W(c, v, q, f, r, t, e, l, p, n) ==
        [correctness |-> c, checkpoint_coverage |-> v, clarification_quality |-> q,
         false_premise_detection |-> f, route_correctness |-> r, tool_use_correctness |-> t,
         cost_efficiency |-> e, latency_efficiency |-> l, privacy_compliance |-> p, non_redundancy |-> n]
  IN {W(2, 2, 2, 2, 2, 2, 2, 2, 2, 2), W(2, 1, 1, 1, 6, 2, 4, 4, 5, 1), W(6, 4, 4, 3, 1, 1, 1, 1, 2, 3),
      W(3, 5, 2, 6, 1, 1, 1, 1, 2, 3), W(5, 3, 1, 2, 1, 1, 2, 2, 2, 6), W(4, 3, 1, 1, 2, 6, 3, 2, 3, 2)}

\* RewardWeightProfiles::from_yaml_str: a profile with the dimensions a file lists
Configured(profile, file) == [d \in Dims |-> Get(file, d, profile[d])]

\* RewardWeights::validate: weights that are all zero are refused
ValidWeights(w) == SumOver(Dims, LAMBDA d : w[d]) > 0

WeightedReward(w, vec) ==
  SumOver(Dims, LAMBDA d : w[d] * vec[d]) \div SumOver(Dims, LAMBDA d : w[d])

\* apply_reward_weights to every rollout
ScoredRows(w, input) ==
  [i \in DOMAIN input |-> [task |-> input[i].task, prompt |-> input[i].prompt,
                           response |-> input[i].response, reward |-> WeightedReward(w, input[i].vec)]]

\* The order of a prompt's rollouts: reward descending, then response, then task
Better(a, b) ==
  \/ a.reward > b.reward
  \/ a.reward = b.reward /\ \/ a.response < b.response
                            \/ a.response = b.response /\ a.task <= b.task

OfPrompt(rolls, p) == SelectSeq(rolls, LAMBDA r : r.prompt = p)
Ranked(rolls, p) == SortSeq(OfPrompt(rolls, p), Better)

\* The candidates of a group in the order they are paired: from the worst up
Rejected(group) == Reverse(Tail(group))

\* The pairs of one prompt: up to MaxPairs, every one at least MinMargin apart
PairsOf(group) ==
  LET wide == SelectSeq(Rejected(group), LAMBDA r : group[1].reward - r.reward >= MinMargin)
      kept == SubSeq(wide, 1, Min({Len(wide), MaxPairs}))
  IN [i \in DOMAIN kept |-> [prompt |-> group[1].prompt, chosen |-> group[1], rejected |-> kept[i]]]

\* build_dpo_dataset: a prompt with one rollout gives no pair and skips nothing
DpoDataset(rolls) ==
  LET prompts == {p \in {rolls[i].prompt : i \in DOMAIN rolls} : Len(OfPrompt(rolls, p)) >= 2}
      pairs == [p \in prompts |-> PairsOf(Ranked(rolls, p))]
  IN [pairs |-> UNION {{pairs[p][i] : i \in DOMAIN pairs[p]} : p \in prompts},
      produced |-> SumOver(prompts, LAMBDA p : Len(pairs[p])),
      skipped |-> SumOver(prompts, LAMBDA p : Len(OfPrompt(rolls, p)) - 1 - Len(pairs[p]))]

\* build_sft_dataset
SftDataset(rolls) ==
  LET good == SelectSeq(rolls, LAMBDA r : r.reward >= SftThreshold)
  IN [examples |-> {good[i] : i \in DOMAIN good}, produced |-> Len(good),
      skipped |-> Len(rolls) - Len(good)]

\* validate_training_resources
WithinResources(n) == n # 0 /\ n <= MaxBatch

\* GrpoTrainerInput::validate: every task has at least two rollouts
GrpoInput(rolls) == rolls # <<>> /\ \A i \in DOMAIN rolls :
                      \E j \in DOMAIN rolls : j # i /\ rolls[j].task = rolls[i].task

\* train_grpo_adapter: the sign of a rollout's advantage over the mean of its
\* task, and whether the reward estimate rises. The estimate rises with any
\* positive advantage, as the mean of all rewards is then below 1.
Advantage(rolls, i) ==
  LET group == {j \in DOMAIN rolls : rolls[j].task = rolls[i].task}
      d == rolls[i].reward * Cardinality(group)
           - SumOver(group, LAMBDA j : rolls[j].reward)
  IN IF d > 0 THEN 1 ELSE IF d < 0 THEN -1 ELSE 0

GrpoReport(rolls) ==
  IF ~GrpoInput(rolls) THEN NoFile
  ELSE [advantages |-> [i \in DOMAIN rolls |-> Advantage(rolls, i)],
        improved |-> \E i \in DOMAIN rolls : Advantage(rolls, i) > 0]

\* run_fallback_train_cli and the GRPO command on one file of rollouts
Train ==
  /\ cmd = "dataset" /\ training = NoFile
  /\ \E input \in Rollouts, w \in {Configured(q, f) : q \in Profiles, f \in Overrides} :
       /\ ValidWeights(w) /\ WithinResources(Len(input))
       /\ \E rolls \in {ScoredRows(w, input)} :
            training' = [input |-> input, weights |-> w, rolls |-> rolls, dpo |-> DpoDataset(rolls),
                         sft |-> SftDataset(rolls), grpo |-> GrpoReport(rolls)]
  /\ UNCHANGED <<cmd, exportVars, live, advice>>
-----------------------------------------------------------------------------
Roles == <<"weights", "config", "reward_policy", "eval_report", "model_card">>

\* The bytes of an artifact: two adapters of one base model share configuration
\* and reward policy, so only the other files tell their exports apart.
Bytes(role, e) == IF role \in {"config", "reward_policy"} THEN "same" ELSE e

\* A file that changes while a bundle is loaded: history of the roles whose
\* bytes are written after the loader has hashed them.
Noticed(role) ==
  IF loader = NoFile \/ (\A i \in 1 .. loader.step - 1 : i \notin DOMAIN Roles \/ Roles[i] # role) THEN loader
  ELSE [loader EXCEPT !.changed = @ \cup {role}]

\* export_adapter_bundle: write_artifact for the next role of an exporter
WriteArtifact(e) ==
  /\ cmd = "export" /\ writer[e] \in DOMAIN Roles
  /\ bundle' = [bundle EXCEPT ![Roles[writer[e]]] = Bytes(Roles[writer[e]], e)]
  /\ loader' = Noticed(Roles[writer[e]])
  /\ writer' = [writer EXCEPT ![e] = @ + 1]
  /\ UNCHANGED <<cmd, training, held, manifest, registry, lapped, opened, live, advice>>

\* The manifest, with the hashes of the bytes this exporter wrote.
WriteManifest(e) ==
  /\ cmd = "export" /\ writer[e] = 6
  /\ manifest' = e
  /\ writer' = [writer EXCEPT ![e] = 7]
  /\ UNCHANGED <<cmd, training, held, bundle, registry, lapped, loader, opened, live, advice>>

\* The defect: the registry is written from the one entry.
LoadRegistryAfresh(e) ==
  /\ cmd = "export" /\ writer[e] = 7 /\ registry # Torn
  /\ held' = [held EXCEPT ![e] = {e}]
  /\ lapped' = (lapped \/ \E f \in Exporters : writer[f] = 8)
  /\ writer' = [writer EXCEPT ![e] = 8]
  /\ UNCHANGED <<cmd, training, bundle, manifest, registry, loader, opened, live, advice>>

\* AdapterRegistryStore::register: load, insert or replace, save. Two exporters
\* may both have loaded before either saves. A file that does not parse stops
\* the registration; an empty one, as a save under way leaves it for a moment,
\* reads as no adapter.
LoadRegistry(e) ==
  /\ cmd = "export" /\ writer[e] = 7 /\ registry # Torn
  /\ \E read \in {registry} \cup {{} : f \in {f \in Exporters : writer[f] = 8}} :
       held' = [held EXCEPT ![e] = read \cup {e}]
  /\ lapped' = (lapped \/ \E f \in Exporters : writer[f] = 8)
  /\ writer' = [writer EXCEPT ![e] = 8]
  /\ UNCHANGED <<cmd, training, bundle, manifest, registry, loader, opened, live, advice>>

SaveRegistry(e) ==
  /\ cmd = "export" /\ writer[e] = 8
  /\ registry' = held[e]
  /\ writer' = [writer EXCEPT ![e] = 9]
  /\ UNCHANGED <<cmd, training, held, bundle, manifest, lapped, loader, opened, live, advice>>

\* The process dies, between two writes or in one: fs::write truncates the file
\* first, so what it was writing may be left torn, a registry also empty.
ExportCrash(e) ==
  /\ cmd = "export" /\ writer[e] \in 1..8
  /\ \/ UNCHANGED <<bundle, manifest, registry, lapped, loader>>
     \/ /\ writer[e] \in DOMAIN Roles
        /\ bundle' = [bundle EXCEPT ![Roles[writer[e]]] = Torn]
        /\ loader' = Noticed(Roles[writer[e]])
        /\ UNCHANGED <<manifest, registry, lapped>>
     \/ /\ writer[e] = 6 /\ manifest' = Torn
        /\ UNCHANGED <<bundle, registry, lapped, loader>>
     \/ /\ writer[e] = 8 /\ registry' \in {{}, Torn} /\ lapped' = TRUE
        /\ UNCHANGED <<bundle, manifest, loader>>
  /\ writer' = [writer EXCEPT ![e] = 0]
  /\ UNCHANGED <<cmd, training, held, opened, live, advice>>

\* load_adapter_bundle reads the manifest, then hashes the files it lists one
\* by one, and only then reads each of them again to parse it.
OpenManifest ==
  /\ cmd = "export" /\ loader = NoFile /\ manifest \notin {NoFile, Torn}
  /\ loader' = [id |-> manifest, step |-> 1, files |-> Empty, changed |-> {}]
  /\ UNCHANGED <<cmd, training, writer, held, bundle, manifest, registry, lapped, opened, live, advice>>

\* The defect: only the weights are hashed again.
HashMatchesWeights(role) == role = "weights" => bundle[role] = Bytes(role, loader.id)

\* The file of a role hashes to what the manifest that was read lists
HashMatches(role) == bundle[role] = Bytes(role, loader.id)

\* One file is hashed; a mismatch fails the load.
HashFile ==
  /\ cmd = "export" /\ loader # NoFile /\ loader.step \in DOMAIN Roles
  /\ loader' = IF HashMatches(Roles[loader.step]) THEN [loader EXCEPT !.step = @ + 1] ELSE NoFile
  /\ UNCHANGED <<cmd, training, writer, held, bundle, manifest, registry, lapped, opened, live, advice>>

\* One file is read again; one that does not parse fails the load, and the last
\* one makes the bundle.
ReadFile ==
  /\ cmd = "export" /\ loader # NoFile /\ loader.step \notin DOMAIN Roles
  /\ \E role \in {Roles[loader.step - Len(Roles)]} :
       \E files \in {[r \in DOMAIN loader.files \cup {role} |->
                        IF r = role THEN bundle[role] ELSE loader.files[r]]} :
         CASE bundle[role] = Torn -> loader' = NoFile /\ UNCHANGED opened
           [] bundle[role] # Torn /\ loader.step < 2 * Len(Roles) ->
                loader' = [loader EXCEPT !.step = @ + 1, !.files = files] /\ UNCHANGED opened
           [] OTHER -> /\ opened' = [id |-> loader.id, files |-> files, changed |-> loader.changed]
                       /\ loader' = NoFile
  /\ UNCHANGED <<cmd, training, writer, held, bundle, manifest, registry, lapped, live, advice>>
-----------------------------------------------------------------------------
\* metrics_for_trace: the last final answer, or the reward vector without one
TraceAccuracy(t) ==
  LET F == {i \in DOMAIN t.outputs : t.outputs[i].final}
  IN IF F = {} THEN t.correctness ELSE t.outputs[Max(F)].reward

\* private_data_leakage: reported, or private content on an external route
Leaks(t) == t.privacy < 100 \/ (t.private /\ t.external)

Rate(ts, bad(_)) == (100 * Cardinality({i \in DOMAIN ts : bad(ts[i])})) \div Len(ts)
Average(ts, of(_)) == SumOver(DOMAIN ts, LAMBDA i : of(ts[i])) \div Len(ts)

\* metrics_for_trace and build_eval_metrics_report
EvalReport(ts) ==
  [traces |-> ts,
   accuracy |-> Average(ts, LAMBDA t : TraceAccuracy(t)),
   coverage |-> Average(ts, LAMBDA t : t.coverage),
   redundant |-> Rate(ts, LAMBDA t : \E i \in DOMAIN t.outputs : t.outputs[i].redundant),
   route |-> Rate(ts, LAMBDA t : IF t.outputs = <<>> THEN t.route >= 100
                                 ELSE \A i \in DOMAIN t.outputs : t.outputs[i].route),
   escalation |-> Rate(ts, LAMBDA t : t.external /\ t.route < 100),
   leakage |-> Rate(ts, Leaks),
   cost |-> Average(ts, LAMBDA t : t.cost),
   latency |-> Average(ts, LAMBDA t : t.latency)]

\* max_multiplier_check, of the cost and of the latency, with the default
\* multiplier: a baseline of zero allows zero
CostLimit(base) == (base * 125) \div 100

\* evaluate_adapter_promotion_gate with the default policy
GateChecks(base, cand) ==
  [coverage |-> cand.coverage - base.coverage >= 0,
   route |-> cand.route - base.route >= 0,
   cost |-> cand.cost <= CostLimit(base.cost),
   latency |-> cand.latency <= CostLimit(base.latency),
   accuracy |-> cand.accuracy + 5 >= base.accuracy,
   redundant |-> cand.redundant <= 15,
   leakage |-> cand.leakage = 0]

Promoted(checks) == \A c \in DOMAIN checks : checks[c]

\* false_premise_correction_rate: 1 when no output reports a premise
PremiseRate(ts) ==
  LET all == {x \in (DOMAIN ts) \X (1..3) : x[2] \in DOMAIN ts[x[1]].outputs
                                             /\ ts[x[1]].outputs[x[2]].premise # NoFile}
  IN IF all = {} THEN 100
     ELSE (100 * Cardinality({x \in all : ts[x[1]].outputs[x[2]].premise = "yes"})) \div Cardinality(all)

\* evaluate_mvp_success: escalation falls, or stays at zero
MvpPassed(base, cand) ==
  /\ cand.route - base.route >= 15
  /\ cand.coverage - base.coverage >= 20
  /\ PremiseRate(cand.traces) - PremiseRate(base.traces) >= 20
  /\ cand.redundant <= 15 /\ cand.leakage = 0
  /\ cand.escalation < base.escalation \/ (cand.escalation = 0 /\ base.escalation = 0)

\* compute_metric_deltas: the metrics the report shows as worsened
Worsened(base, cand) ==
  {m \in {"accuracy", "coverage", "route"} : cand[m] < base[m]}
  \cup {m \in {"redundant", "escalation", "leakage", "cost", "latency"} : cand[m] > base[m]}

\* build_recommendation
Recommendation(cand, promotion, mvp) ==
  IF cand.leakage # 0 THEN "do not use"
  ELSE IF promotion = "none" THEN "review"
  ELSE IF promotion = "promoted" /\ mvp THEN "use"
  ELSE IF promotion = "promoted" THEN "use, not all targets"
  ELSE "do not use"

\* write_eval_report of a candidate, the gate against the adapter in use, and
\* build_training_report, with or without running the gate
EvaluateCandidate(ts, gate) ==
  /\ cmd = "promote" /\ ts # <<>>
  /\ \E cand \in {EvalReport(ts)}, base \in {live[Len(live)]} :
       \E checks \in {GateChecks(base, cand)} :
         /\ advice' = [cand |-> cand, base |-> base, ran |-> gate, promoted |-> Promoted(checks),
                       worsened |-> Worsened(base, cand),
                       says |-> Recommendation(cand, IF ~gate THEN "none" ELSE
                                                     IF Promoted(checks) THEN "promoted" ELSE "blocked",
                                               MvpPassed(base, cand))]
         /\ live' = IF gate /\ Promoted(checks) THEN Append(live, cand) ELSE live
  /\ Len(live') <= MaxPromotions + 1
  /\ UNCHANGED <<cmd, training, exportVars>>
-----------------------------------------------------------------------------
TrainingInit ==
  /\ cmd \in Commands
  /\ training = NoFile /\ advice = NoFile
  /\ writer = [e \in Exporters |-> 1] /\ held = [e \in Exporters |-> {}]
  /\ bundle = [r \in {Roles[i] : i \in DOMAIN Roles} |-> NoFile]
  /\ manifest = NoFile /\ registry = {} /\ lapped = FALSE /\ loader = NoFile /\ opened = NoFile
  /\ IF cmd = "promote" THEN live \in {<<EvalReport(ts)>> : ts \in EvalTraces} ELSE live = <<>>

TrainingNext ==
  \/ Train
  \/ \E e \in Exporters : \/ WriteArtifact(e) \/ WriteManifest(e) \/ LoadRegistry(e)
                          \/ SaveRegistry(e) \/ ExportCrash(e)
  \/ OpenManifest \/ HashFile \/ ReadFile
  \/ \E ts \in EvalTraces, gate \in BOOLEAN : EvaluateCandidate(ts, gate)

TrainingSpec == TrainingInit /\ [][TrainingNext]_trainingVars
-----------------------------------------------------------------------------
\* Every rollout of a prompt that has several is the chosen one, in a pair or
\* counted as skipped, and every example or skip is one rollout; the chosen
\* answer is the best of its prompt, the rejected ones are the worst (build_dpo_dataset,
\* build_sft_dataset and the counts of finalize_report).
DatasetAccounts ==
  training # NoFile =>
    LET rolls == training.rolls
        multi == {i \in DOMAIN rolls : Len(OfPrompt(rolls, rolls[i].prompt)) >= 2}
        d == training.dpo
    IN /\ d.produced + d.skipped = Cardinality(multi) - Cardinality({rolls[i].prompt : i \in multi})
       /\ training.sft.produced + training.sft.skipped = Len(rolls)
       /\ \A p \in d.pairs, i \in DOMAIN rolls :
            rolls[i].prompt = p.prompt =>
              /\ rolls[i].reward <= p.chosen.reward
              /\ \/ rolls[i].reward >= p.rejected.reward
                 \/ \E q \in d.pairs : q.prompt = p.prompt /\ q.rejected = rolls[i]

\* No preference pair rejects an answer that is at least as good in every
\* dimension and better in one that counts, whatever the weights of the profile
\* (weighted_reward under build_dpo_dataset); and GRPO never gives the better of
\* two such answers of one task the smaller advantage.
NeverPrefersDominated ==
  training # NoFile =>
    LET in == training.input
        dominates(i, j) == /\ \A d \in Dims : in[i].vec[d] >= in[j].vec[d]
                           /\ \E d \in Dims : training.weights[d] > 0 /\ in[i].vec[d] > in[j].vec[d]
    IN \A i, j \in DOMAIN in : dominates(i, j) =>
         /\ training.rolls[i].reward >= training.rolls[j].reward
         /\ \A p \in training.dpo.pairs : ~(p.chosen = training.rolls[j] /\ p.rejected = training.rolls[i]
                                            /\ p.chosen.reward > p.rejected.reward)
         /\ training.grpo # NoFile /\ in[i].task = in[j].task =>
              training.grpo.advantages[i] >= training.grpo.advantages[j]

\* What a load returns is the export its manifest names, file by file, whatever
\* other exports ran into the directory or died half way: a file is another's
\* only when it was written again between load_adapter_bundle's hash of it and
\* its second read, which checks nothing. A torn file is never returned.
LoadedIsWhole == opened # NoFile =>
  \A r \in DOMAIN opened.files :
    /\ opened.files[r] # Bytes(r, opened.id) => r \in opened.changed
    /\ opened.files[r] \notin {Torn, NoFile}

\* An adapter is in the registry only after its whole bundle, manifest last, was
\* written; and the registry holds every finished export unless two registrations
\* overlapped, or one died while it rewrote the file in place
\* (AdapterRegistryStore::register loads, then saves).
RegisteredWasWritten ==
  /\ registry # Torn => \A e \in registry :
       writer[e] = 9 /\ manifest # NoFile /\ \A r \in DOMAIN bundle : bundle[r] # NoFile
  /\ ~lapped => registry = {e \in Exporters : writer[e] = 9}

\* Along the chain of promotions coverage and route correctness never fall, a free
\* adapter is never replaced by one that costs nor an instant one by one that
\* takes time, and no trace behind a promoted
\* report carries private content to an external model.
PromotionsNeverRegress ==
  \A i, j \in DOMAIN live : i < j =>
    /\ live[i].coverage <= live[j].coverage /\ live[i].route <= live[j].route
    /\ live[i].cost = 0 => live[j].cost = 0
    /\ live[i].latency = 0 => live[j].latency = 0
    /\ \A t \in DOMAIN live[j].traces : ~(live[j].traces[t].private /\ live[j].traces[t].external)

\* An adapter the training report tells the operator to use passed the gate, and
\* the report shows neither coverage nor route as worsened; a leaking candidate is
\* never left for review.
AdviceIsSafe ==
  advice # NoFile =>
    /\ advice.says \in {"use", "use, not all targets"} =>
         advice.ran /\ advice.promoted /\ advice.worsened \cap {"coverage", "route", "leakage"} = {}
    /\ (\E i \in DOMAIN advice.cand.traces : Leaks(advice.cand.traces[i])) => advice.says = "do not use"
=============================================================================
