----------------------------- MODULE SocietyKernel -----------------------------
(***************************************************************************)
(* The run kernel of the Fractal Society: an agent acts against a domain   *)
(* adapter for a number of episodes, every attempt goes into a trace, the  *)
(* adapter scores the trace and the trace becomes the evidence bundle.     *)
(* The two small adapters are modelled (the k-armed bandit and the binary  *)
(* forecaster; TradingSim has the third), and beside the adapter the       *)
(* untyped environment it creates, which a client may step on its own.     *)
(*                                                                         *)
(* The seeded generator is `tape`: the sequence of draws the seed yields,  *)
(* on the scale 0..Scale-1; rng is the number of draws taken.  A           *)
(* probability p stands for p/Scale, a Brier score for s/Scale^2.          *)
(***************************************************************************)
EXTENDS Values, SequencesExt

CONSTANTS Domains,      \* the adapters run: a subset of {"bandit", "forecast"}
          Tapes,        \* the sequences of draws considered, one per seed
          Scale,        \* the scale of draws and probabilities
          ArmCount,     \* the bandit's arms
          Pulls,        \* the adapter's max_steps
          Episodes,     \* config.episodes
          MaxAttempts      \* config.max_steps_per_episode

ASSUME KernelAssumption ==
    /\ Domains \subseteq {"bandit", "forecast"}
    /\ Scale \in Nat \ {0} /\ ArmCount \in Nat \ {0} /\ Episodes \in Nat
    /\ Pulls \in Nat /\ MaxAttempts \in Nat
    /\ \A t \in Tapes : Len(t) >= 2 * Pulls + 2 /\ Range(t) \subseteq 0 .. Scale - 1

VARIABLES domain, tape, adapter, obs, runAt, trace, reward, runDone, env

kernelVars == <<domain, tape, adapter, obs, runAt, trace, reward, runDone, env>>

Rejection == -1

(***************************************************************************)
(* The adapters.                                                           *)
(***************************************************************************)
\* Evenly spread win chances; an arm whose chance would be 0 still wins
\* sometimes (0.05 in the code, the smallest step of the scale here).
ArmChance(arm) ==
    LET p == (((arm + 1) * 10 * Scale) \div (ArmCount + 1)) % Scale
    IN  IF p = 0 THEN 1 ELSE p

\* The i-th sample, counted from 0: two draws, a feature and the threshold
\* its outcome is decided by; past the sequence a fixed fallback.
Sample(t, i) ==
    IF i < Pulls
    THEN [feature |-> t[(2 * i) + 1], outcome |-> t[(2 * i) + 2] < t[(2 * i) + 1]]
    ELSE [feature |-> 0, outcome |-> FALSE]

\* The full mark of one step.
Full == IF domain = "bandit" THEN 1 ELSE Scale * Scale

Brier(p, actual) == (p - actual) * (p - actual)

\* What the agent may try: an arm, one past the last included, or a
\* probability, one above 1 included.
Tries == IF domain = "bandit" THEN 0 .. ArmCount ELSE 0 .. Scale + 1

ValidArm(a) == a < ArmCount

ValidProbability(a) == a <= Scale

ValidateAction(a) == IF domain = "bandit" THEN ValidArm(a) ELSE ValidProbability(a)

FreshAdapter == [rng |-> 0, step |-> 0, last |-> 0]

\* reset_state: the generator is seeded again, so that every episode draws
\* the same luck.
ResetState(ad) == FreshAdapter

FirstObservation ==
    [step |-> 0, last |-> 0,
     feature |-> IF domain = "forecast" /\ Pulls > 0 THEN Sample(tape, 0).feature ELSE 0]

\* A pull: an arm out of range draws nothing and loses.
Pull(ad, arm) ==
    LET drawn == arm < ArmCount
        won   == drawn /\ tape[ad.rng + 1] < ArmChance(arm)
    IN  [ad EXCEPT !.rng = @ + (IF drawn THEN 1 ELSE 0), !.step = @ + 1,
                   !.last = IF won THEN 1 ELSE 0]

Forecast(ad, p) ==
    [ad EXCEPT !.step = @ + 1,
               !.last = IF Sample(tape, ad.step).outcome THEN Scale ELSE 0]

Moved(ad, a) == IF domain = "bandit" THEN Pull(ad, a) ELSE Forecast(ad, a)

\* The outcome's primary_score: the reward, or one minus the Brier score.
ScoredAction(ad, a) ==
    IF domain = "bandit" THEN ad.last ELSE Full - Brier(a, ad.last)

\* Defect: the feature of the sample just scored.
NextFeaturePast(ad) == Sample(tape, ad.step - 1).feature

\* The observation that goes with the state after a step: the forecaster is
\* shown the feature of the sample it is asked about next.
NextFeature(ad) == Sample(tape, ad.step).feature

Observed(ad) ==
    [step |-> ad.step, last |-> ad.last,
     feature |-> IF domain = "forecast" THEN NextFeature(ad) ELSE 0]

Terminal(ad) == ad.step >= Pulls

(***************************************************************************)
(* The untyped environment: its reset puts the counters back and leaves    *)
(* the generator where it was; it clamps a probability and defaults to the *)
(* first arm instead of refusing.                                          *)
(***************************************************************************)
EnvReset(en) == [en EXCEPT !.step = 0, !.last = 0]

Clamped(p) == Min({p, Scale})

EnvForecast(en, p) == Forecast(en, Clamped(p))

EnvAction(a) == IF domain = "bandit" THEN a ELSE Clamped(a)

\* Asked between steps, the forecaster's environment shows the first sample,
\* whatever step it is at.
EnvObservation(en) ==
    [step |-> en.step, last |-> en.last, feature |-> FirstObservation.feature]

\* What a step of the environment returns: its new counters, with the feature
\* of the sample just scored and not of the next.
EnvReturned(en, moved) ==
    [step |-> moved.step, last |-> moved.last,
     feature |-> IF domain = "forecast" THEN Sample(tape, en.step).feature ELSE 0]

EnvExecute(en, a) == IF domain = "bandit" THEN Pull(en, a) ELSE EnvForecast(en, a)

(***************************************************************************)
(* The kernel.  runAt is the position of its two loops: the episode, the   *)
(* attempts made in it, and the attempts made in all (global_step).        *)
(***************************************************************************)
RecordStep(a, out) ==
    trace' = Append(trace, [step |-> runAt.global, episode |-> runAt.episode,
                            seen |-> obs, action |-> a, outcome |-> out])

\* An attempt ends the episode when the adapter says so or when it was the
\* last one allowed; the next episode starts with the adapter's reset.
Advance(ad, next, over) ==
    LET ends == over \/ runAt.attempt + 1 >= MaxAttempts IN
    /\ runAt' = [episode |-> runAt.episode + (IF ends THEN 1 ELSE 0),
                 attempt |-> IF ends THEN 0 ELSE runAt.attempt + 1,
                 global  |-> runAt.global + 1]
    /\ IF ends /\ runAt.episode + 1 < Episodes
       THEN adapter' = ResetState(ad) /\ obs' = FirstObservation
       ELSE adapter' = ad /\ obs' = next

Running == ~runDone /\ runAt.episode < Episodes /\ MaxAttempts > 0

\* A refused action goes into the trace and the agent sees the same
\* observation again.
Refuse(a) ==
    /\ Running /\ ~ValidateAction(a)
    /\ RecordStep(a, Rejection)
    /\ Advance(adapter, obs, FALSE)
    /\ UNCHANGED <<domain, tape, reward, runDone, env>>

Act(a) ==
    /\ Running /\ ValidateAction(a)
    /\ LET moved == Moved(adapter, a)
           score == ScoredAction(moved, a)
       IN  /\ RecordStep(a, score)
           /\ reward' = reward + score
           /\ Advance(moved, Observed(moved), Terminal(moved))
    /\ UNCHANGED <<domain, tape, runDone, env>>

\* What the adapter's scorer counts: the steps whose outcome reads as one
\* of its own, which a recorded rejection does not.
Counted == SelectSeq(trace, LAMBDA s : s.outcome # Rejection)

Totals == SumSeq(Counted, LAMBDA s : s.outcome)

\* The forecaster's scorer adds up the losses; its skill is one minus their
\* mean.
BrierSum == SumSeq(Counted, LAMBDA s : Full - s.outcome)

\* into_evidence marks every step of the trace as approved.
RiskDecision(s) == "approved"

Finish ==
    /\ ~runDone /\ ~Running
    /\ runDone' = TRUE
    /\ UNCHANGED <<domain, tape, adapter, obs, runAt, trace, reward, env>>

\* The environment as another client drives it, action by action; `won`
\* keeps the rewards of its present episode.
EnvStep(a) ==
    /\ ~Terminal(env.at) /\ env.at.rng < Len(tape) - 1
    /\ LET moved == EnvExecute(env.at, a) IN
       env' = [env EXCEPT !.at = moved,
                          !.won = Append(@, [action |-> EnvAction(a),
                                             seen |-> EnvReturned(env.at, moved),
                                             score |-> ScoredAction(moved, EnvAction(a))])]
    /\ UNCHANGED <<domain, tape, adapter, obs, runAt, trace, reward, runDone>>

EnvAgain ==
    /\ env.at.step > 0 /\ env.episode + 1 < Episodes
    /\ env' = [at |-> EnvReset(env.at), won |-> <<>>, episode |-> env.episode + 1]
    /\ UNCHANGED <<domain, tape, adapter, obs, runAt, trace, reward, runDone>>

KernelInit ==
    /\ domain \in Domains /\ tape \in Tapes
    /\ adapter = FreshAdapter /\ obs = FirstObservation
    /\ runAt = [episode |-> 0, attempt |-> 0, global |-> 0]
    /\ trace = <<>> /\ reward = 0 /\ runDone = FALSE
    /\ env = [at |-> FreshAdapter, won |-> <<>>, episode |-> 0]

KernelNext ==
    \/ \E a \in Tries : Refuse(a) \/ Act(a)
    \/ Finish
    \/ \E a \in Tries : EnvStep(a)
    \/ EnvAgain

KernelSpec == KernelInit /\ [][KernelNext]_kernelVars

(***************************************************************************)
(* Properties.                                                             *)
(***************************************************************************)
\* The accepted steps of episode e, in order.
Accepted(e) == SelectSeq(trace, LAMBDA s : s.episode = e /\ s.outcome # Rejection)

\* The same luck in every episode: the n-th accepted action of two episodes
\* that took the same actions so far scores the same, however often the
\* agent was refused in between.  Catches an episode that goes on with the
\* draws of the one before, or a refusal that uses one up.
EpisodesReplayAlike ==
    \A e, f \in 0 .. Episodes - 1 :
        \A n \in 1 .. Min({Len(Accepted(e)), Len(Accepted(f))}) :
            (\A i \in 1 .. n : Accepted(e)[i].action = Accepted(f)[i].action)
                => Accepted(e)[n].outcome = Accepted(f)[n].outcome

\* What the agent saw is what it was then scored on, and no more: at each
\* recorded attempt the forecaster saw the feature of the sample its action
\* was scored against, together with the outcome before that one.  Catches
\* an observation left stale by a refusal or by the step before it, and one
\* that runs a sample ahead.
SeenIsScored ==
    \A i \in 1 .. Len(trace) :
        LET s == trace[i]
            before == SelectSeq(SubSeq(trace, 1, i - 1),
                                LAMBDA q : q.episode = s.episode /\ q.outcome # Rejection)
        IN  /\ s.seen.step = Len(before)
            /\ domain = "forecast" => s.seen.feature = Sample(tape, Len(before)).feature
            /\ (domain = "forecast" /\ before # <<>>) =>
                  s.seen.last = IF Sample(tape, Len(before) - 1).outcome THEN Scale ELSE 0

\* The score is the reward: what the adapter's scorer recomputes from the
\* trace is what the kernel added up while it ran, and no step scores below
\* zero or above the full mark.  Catches a scorer that reads the kernel's
\* rejection records as outcomes.
ScoreIsReward ==
    /\ IF domain = "bandit" THEN Totals = reward
                            ELSE (Len(Counted) * Full) - BrierSum = reward
    /\ 0 <= reward /\ reward <= Len(Counted) * Full

\* "Minimal untyped environment mirroring the adapter": fed the actions the
\* kernel's first episode accepted, it gives the same scores and counters, in
\* every episode of the forecaster and in the first of the bandit, whose luck
\* runs on.  The feature is mirrored one step late: what a step returns is what
\* the kernel's agent had seen before that step, and an observation asked for
\* is the adapter's only right after a reset.
EnvironmentMirrors ==
    /\ env.at.step = 0 => EnvObservation(env.at) = FirstObservation
    /\ env.at.step > 0 => [EnvObservation(env.at) EXCEPT !.feature = Last(env.won).seen.feature]
                              = Last(env.won).seen
    /\ (env.episode = 0 \/ domain = "forecast") =>
        \A n \in 1 .. Min({Len(env.won), Len(Accepted(0))}) :
            (\A i \in 1 .. n : env.won[i].action = Accepted(0)[i].action
                               /\ ValidateAction(env.won[i].action))
                => /\ env.won[n].score = Accepted(0)[n].outcome
                   /\ env.won[n].seen.feature = Accepted(0)[n].seen.feature
                   /\ n < Len(Accepted(0)) =>
                        /\ env.won[n].seen.step = Accepted(0)[n + 1].seen.step
                        /\ env.won[n].seen.last = Accepted(0)[n + 1].seen.last

\* The comment of into_evidence: the kernel validates actions before
\* stepping, so rejected actions never enter the trace it marks approved.
RejectedNeverApproved ==
    \A i \in 1 .. Len(trace) :
        trace[i].outcome = Rejection => RiskDecision(trace[i]) # "approved"

=============================================================================
