--------------------------- MODULE LearningRollouts ---------------------------
(***************************************************************************)
(* Simulated rollouts of the RLVR harness: a local user simulator answers  *)
(* the assistant's clarification question from the hidden checkpoints of a *)
(* training item, guards its reply, and the exchange is scored, turned     *)
(* into a dialogue trace, scanned for private data, redacted and committed *)
(* to.  Items come from the rubric generators (crates/rlvr/src/rubrics).   *)
(*                                                                         *)
(* A text is a sequence of words.  A question is the set of its            *)
(* significant terms; an answer, a hidden query and a reply are texts,     *)
(* because the guard works on fragments of them.  "9" stands for a digit,  *)
(* "-" for a separator, and a word in DOMAIN WordTag for one the scanner's *)
(* word lists know.  Rewards are scaled by 2 * (required checkpoints).     *)
(* The prompt, reason and route of a routing trace are the sets of their   *)
(* words, which is all that its classification looks at.                   *)
(***************************************************************************)
EXTENDS Values, SequencesExt

CONSTANTS Items,        \* the training items
          Terms,        \* the terms a question can hold
          WordTag,      \* the private words and the tag of each
          PhoneMin, PhoneMax,   \* digits of a phone number (10, 15)
          CardMin, CardMax,     \* digits of a card number (13, 19)
          Scanned,      \* the texts put through the scanner on their own
          MindInputs,   \* AskMindRubricInput: [query, facts, degraded, rules, default]
          PremiseInputs,\* AskOverconfidenceRubricInput: [query, premise, correction, prompt, ...]
          MaxSentence,  \* words of a sentence short enough to stand for a query (90 bytes)
          TraceInputs,  \* [tags, localOnly, prompt, reason, route, models, tools, rules, cost, latency]
          FactLists     \* CompressionLossRubricInput: sequences of [id, numeric, cited, constraint]

ASSUME RolloutsAssumption ==
    /\ {PhoneMin, PhoneMax, CardMin, CardMax} \subseteq Nat
    /\ PhoneMin <= PhoneMax /\ CardMin <= CardMax

VARIABLES item, asked, userReply, concluded, published, scanText,
          rubric        \* what a generator made of a routing trace or of facts

rolloutVars == <<item, asked, userReply, concluded, published, scanText, rubric>>

Styles == {"clean", "partial", "wrong", "ambiguous", "annoyed", "contradictory"}
NoReply == [style |-> "none", content |-> <<>>, revealed |-> {}]
NoRubric == [mode |-> "none"]
NoRollout == [missed |-> {}, gold |-> FALSE, route |-> "none", premature |-> FALSE, reward |-> -1]

(***************************************************************************)
(* Fragments of a text.                                                    *)
(***************************************************************************)
FragmentAt(text, fragment, i) ==
    /\ i + Len(fragment) - 1 <= Len(text)
    /\ SubSeq(text, i, i + Len(fragment) - 1) = fragment

ContainsText(text, fragment) ==
    fragment = <<>> \/ \E i \in 1 .. Len(text) : FragmentAt(text, fragment, i)

\* The first occurrence only.
RedactExactFragmentOnce(text, fragment, mark) ==
    IF fragment = <<>> \/ ~ContainsText(text, fragment) THEN text
    ELSE LET i == Min({k \in 1 .. Len(text) : FragmentAt(text, fragment, k)})
         IN  SubSeq(text, 1, i - 1) \o <<mark>> \o SubSeq(text, i + Len(fragment), Len(text))

\* str::replace: every occurrence, from the left, none overlapping.
RedactExactFragment(text, fragment, mark) ==
    IF fragment = <<>> \/ ~ContainsText(text, fragment) THEN text
    ELSE LET from[i \in 1 .. Len(text) + 1] ==
               IF i > Len(text) THEN <<>>
               ELSE IF FragmentAt(text, fragment, i)
                    THEN <<mark>> \o from[i + Len(fragment)]
                    ELSE <<text[i]>> \o from[i + 1]
         IN  from[1]

(***************************************************************************)
(* The simulator.                                                          *)
(***************************************************************************)
Points(it) == {it.points[i] : i \in DOMAIN it.points}

ExplicitlyAsksFor(question, c) == question \cap c.terms # {}

\* The checkpoints a question asks for, in the item's order.
Revealed(it, question) == SelectSeq(it.points, LAMBDA c : ExplicitlyAsksFor(question, c))

SimulatorInputValid(it) ==
    it.hidden # <<>> /\ it.points # <<>> /\ \A c \in Points(it) : c.answer # <<>>

RoutePolicyValid(it) == it.rules # {}

TrainingItemValid(it) == it.visible # <<>> /\ it.points # <<>> /\ RoutePolicyValid(it)

CleanContent(revealed) == FlattenSeq([i \in DOMAIN revealed |-> revealed[i].answer])

AdversarialContent(style, revealed) ==
    CASE style = "partial"   -> revealed[1].answer
      [] style = "annoyed"   -> <<"again">> \o CleanContent(revealed)
      [] style = "wrong"     -> FlattenSeq([i \in DOMAIN revealed |->
                                    <<revealed[i].id, "not">> \o revealed[i].answer])
      [] style = "ambiguous" -> FlattenSeq([i \in DOMAIN revealed |-> <<revealed[i].id, "maybe">>])
      [] style = "contradictory" -> FlattenSeq([i \in DOMAIN revealed |->
                                    revealed[i].answer \o <<"opposite", revealed[i].id>>])

VagueReply(style) == <<"unsure">>

\* The answers nobody asked for are cut out of the reply, one checkpoint
\* after the other, and then the hidden query.
PrivacyGuardContent(it, revealed, content) ==
    LET shown == {revealed[i].id : i \in DOMAIN revealed}
        cut[i \in 0 .. Len(it.points)] ==
            IF i = 0 THEN content
            ELSE IF it.points[i].id \in shown THEN cut[i - 1]
            ELSE RedactExactFragment(cut[i - 1], it.points[i].answer, "#unasked")
    IN  RedactExactFragment(cut[Len(it.points)], it.hidden, "#hidden")

ReplyWithMode(it, question, style) ==
    LET revealed == Revealed(it, question)
        raw == IF style = "clean" THEN CleanContent(revealed) ELSE AdversarialContent(style, revealed)
    IN  IF revealed = <<>>
        THEN [style |-> style, content |-> VagueReply(style), revealed |-> {}]
        ELSE [style |-> style, content |-> PrivacyGuardContent(it, revealed, raw),
              revealed |-> {revealed[i].id : i \in DOMAIN revealed}]

(***************************************************************************)
(* The generators whose items are rolled out.                              *)
(***************************************************************************)
\* AskMindRubricInput::validate
MindInputValid(in) ==
    in.query # <<>> /\ in.facts # <<>> /\ \A i \in DOMAIN in.facts : in.facts[i].answer # <<>>

FirstSentence(query) ==
    LET ends == {i \in DOMAIN query : query[i] = "."}
    IN  IF ends = {} THEN query ELSE SubSeq(query, 1, Min(ends) - 1)

\* default_degraded_query
DegradedQuery(query) ==
    IF Len(FirstSentence(query)) \in 1 .. MaxSentence THEN FirstSentence(query) ELSE <<"help">>

\* AskMindRubric::generate and into_training_item: a checkpoint for each fact
AskMindItem(in) ==
    [points |-> in.facts, hidden |-> in.query, rules |-> in.rules, default |-> in.default,
     visible |-> IF in.degraded = <<>> THEN DegradedQuery(in.query) ELSE in.degraded]

\* Seeded defect: a given prompt is taken as it is.
PremiseUnchecked(in) == in.query # <<>> /\ in.premise # <<>> /\ in.correction # <<>>

\* AskOverconfidenceRubric::generate: a given prompt has to hold the premise.
PremiseInputValid(in) ==
    /\ in.query # <<>> /\ in.premise # <<>> /\ in.correction # <<>>
    /\ in.prompt # <<>> => ContainsText(in.prompt, in.premise)

\* inject_prompt
InjectPrompt(query, premise) == <<"given">> \o premise \o query

\* build_false_premise_checkpoints
PremisePoints(in) ==
    << [id |-> "premise", must |-> TRUE, answer |-> in.correction, terms |-> {"t1"}],
       [id |-> "confident", must |-> TRUE, answer |-> <<"correct">> \o in.correction, terms |-> {"t2"}] >>

\* AskOverconfidenceRubric::into_training_item
AskOverconfidenceItem(in) ==
    [points |-> PremisePoints(in), hidden |-> in.query, rules |-> in.rules, default |-> in.default,
     visible |-> IF in.prompt = <<>> THEN InjectPrompt(in.query, in.premise) ELSE in.prompt,
     premise |-> in.premise]

(***************************************************************************)
(* The generators that work on routing traces and on compressed texts.     *)
(***************************************************************************)
Mentions(text, words) == text \cap words # {}

\* classify_route_task: the first case that applies
ClassifyRouteTask(in) ==
    IF in.tags # {} \/ "private" \in in.reason \/ "file" \in in.route THEN "private_file_analysis"
    ELSE IF \/ Mentions(in.prompt, {"current", "price", "today", "latest", "weather", "news"})
            \/ Mentions(in.reason, {"current", "web", "fresh"}) THEN "current_public_info"
    ELSE IF \/ Mentions(in.prompt, {"medical", "legal", "tax", "financial"})
            \/ Mentions(in.reason, {"medical", "legal", "financial", "high-stakes"}) THEN "high_stakes_advice"
    ELSE IF Mentions(in.prompt, {"code", "implement", "bug", "api"}) \/ Mentions(in.reason, {"code", "coding"})
         THEN "code_implementation"
    ELSE "stable_knowledge"

\* ToolUseRequirementKind: each kind with its tool and the words that ask for it
ToolKinds ==
    LET kind(id, tool, words) == [id |-> id, tool |-> tool, words |-> words]
    IN  << kind("current", "web_search", {"current", "latest", "today", "recent", "right now", "news"}),
           kind("file", "local_file_reader", {"file", "/users/", "~/", "document", "pdf", "spreadsheet"}),
           kind("finance", "finance_lookup", {"stock", "ticker", "balance", "portfolio", "finance", "market price"}),
           kind("law", "legal/current_law_lookup", {"law", "legal", "regulation", "statute", "tax", "attorney"}),
           kind("weather", "weather_lookup", {"weather", "forecast", "temperature", "rain"}),
           kind("tracking", "tracking_lookup", {"tracking", "shipment", "package", "order status", "ups", "fedex"}),
           kind("pricing", "product_price_lookup", {"price", "pricing", "cost today", "buy it"}) >>

\* detect_tool_use_requirements
ToolRequirements(in) ==
    LET calls(k) == \/ Mentions(in.prompt \cup in.reason \cup in.route, k.words)
                    \/ k.id = "file" /\ "private_file" \in in.tags
    IN  SelectSeq(ToolKinds, calls)

\* select_route_rule: the first rule for the task, else the first for the route
SelectRouteRule(in) ==
    LET candidates == SelectSeq(in.rules, LAMBDA r : r.type = ClassifyRouteTask(in))
                        \o SelectSeq(in.rules, LAMBDA r : r.route = in.route)
    IN  SubSeq(candidates, 1, Min({1, Len(candidates)}))

\* route_reads_local
RouteReadsLocal(route) == Mentions(route, {"local", "tiny"})

\* model_can_cover, of some local model
LocalModelAvailable(in) ==
    LET rule == SelectRouteRule(in)
    IN  \E m \in in.models : m.local /\ (rule = <<>> \/ Mentions(m.caps, {rule[1].cap, rule[1].type}))

ExternalSelected(in) ==
    /\ ~RouteReadsLocal(in.route)
    /\ \A m \in in.models : m.id = in.route => ~m.local

\* Seeded defect: only the tags make a trace private.
PrivateByTags(in) == in.tags # {}

PrivateTrace(in) == in.localOnly \/ in.tags # {}

\* The privacy policy of the items made from a trace.
TracePolicy(in) ==
    [localOnly |-> PrivateTrace(in), external |-> ~PrivateTrace(in), export |-> FALSE, tags |-> in.tags]

PrivacyPolicyValid(policy) == ~(policy.localOnly /\ policy.external)

Check(id, says) == [id |-> id, says |-> says]

\* route_difficulty; costs in hundredths, latencies in units of five seconds
RouteDifficulty(in, tool) ==
    IF PrivateTrace(in) \/ tool # {} \/ in.cost > 1 THEN "hard"
    ELSE IF in.latency > 1 THEN "medium" ELSE "easy"

\* generate_route_correctness_rubric
RouteRubric(in) ==
    LET rule == SelectRouteRule(in)
        tool == UNION {rule[i].tool : i \in DOMAIN rule}
        escalation == UNION {rule[i].escalation : i \in DOMAIN rule}
    IN  [mode |-> "route", in |-> in, domain |-> ClassifyRouteTask(in), policy |-> TracePolicy(in),
         difficulty |-> RouteDifficulty(in, tool),
         checks |-> << Check("classification", {ClassifyRouteTask(in)}),
                       Check("local", IF LocalModelAvailable(in) THEN {"sufficient"} ELSE {"escalate"}),
                       Check("tool", {<<t, t \in in.tools>> : t \in tool}),
                       Check("escalation", IF escalation # {} THEN escalation
                                           ELSE IF ExternalSelected(in) THEN {in.route} ELSE {}),
                       Check("privacy", IF PrivateTrace(in) /\ ExternalSelected(in) THEN {"not allowed"} ELSE {"within policy"}),
                       Check("answer", {}) >>]

\* generate_tool_use_rubric
ToolRubric(in) ==
    LET needs == ToolRequirements(in)
        checks == IF needs = <<>> THEN <<Check("no tool", {})>>
                  ELSE [i \in DOMAIN needs |-> Check(needs[i].id, {<<needs[i].tool, needs[i].tool \in in.tools>>})]
    IN  [mode |-> "tool", in |-> in, domain |-> "tool_use", policy |-> TracePolicy(in), checks |-> checks,
         difficulty |-> IF Len(checks) > 2 \/ PrivateTrace(in) THEN "hard" ELSE "medium"]

\* generate_compression_loss_rubric: what is checked of one fact, and of all
FactChecks(f) ==
    <<Check("dropped", {f.id})>> \o (IF f.numeric THEN <<Check("numeric", {f.id})>> ELSE <<>>)
        \o (IF f.cited THEN <<Check("citation", {f.id})>> ELSE <<>>)
        \o (IF f.constraint THEN <<Check("constraint", {f.id})>> ELSE <<>>)

CompressionRubric(facts) ==
    LET checks == FlattenSeq([i \in DOMAIN facts |-> FactChecks(facts[i])])
    IN  [mode |-> "compression", in |-> facts, checks |-> checks,
         difficulty |-> IF Len(checks) > 3 THEN "hard" ELSE "medium"]

(***************************************************************************)
(* The score of the rollout.                                               *)
(***************************************************************************)
RequiredIds(it) == {c.id : c \in {d \in Points(it) : d.must}}

MissedIds(it, shown) == RequiredIds(it) \ shown

\* Coverage in units of 1/Unit(it); an item without required checkpoints is
\* covered.
Unit(it) == 2 * Max({1, Cardinality(RequiredIds(it))})

AskedCoverage(it, shown) ==
    IF RequiredIds(it) = {} THEN Unit(it)
    ELSE 2 * (Cardinality(RequiredIds(it)) - Cardinality(MissedIds(it, shown)))

\* Any rule's route will do, whatever task the rule is for.
RouteValid(it, route) == route \in it.rules \cup {it.default}

Correctness(it, shown, gold) ==
    IF gold /\ MissedIds(it, shown) = {} THEN Unit(it)
    ELSE IF gold THEN Unit(it) \div 2 ELSE 0

ClarificationReward(it, shown) == IF shown = {} THEN 0 ELSE AskedCoverage(it, shown)

\* The average of six marks, two of them constant.
RolloutReward(it, shown, gold, route) ==
    Correctness(it, shown, gold) + AskedCoverage(it, shown) + ClarificationReward(it, shown)
        + (IF RouteValid(it, route) THEN Unit(it) ELSE 0) + (2 * Unit(it))

RolloutOf(it, shown, gold, route) ==
    [missed |-> MissedIds(it, shown), gold |-> gold, route |-> route,
     premature |-> AskedCoverage(it, shown) < Unit(it),
     reward |-> RolloutReward(it, shown, gold, route)]

\* The four turns of the trace.
TurnsOf(it, question, rep, gold) ==
    << [role |-> "user", content |-> it.visible],
       [role |-> "assistant", content |-> SetToSeq(question)],
       [role |-> "simulated_user", content |-> rep.content],
       [role |-> "assistant", content |-> IF gold THEN <<"gold">> ELSE <<"other">>] >>

\* A turn without content makes the trace invalid, and the rollout fails.
TraceValid(turns) == \A i \in DOMAIN turns : turns[i].content # <<>>

(***************************************************************************)
(* The privacy scan.                                                       *)
(***************************************************************************)
\* A run of digits and separators with enough digits, not too many, and two
\* separators; anything else ends the run.
PhoneRun(d, s) == d \in PhoneMin .. PhoneMax /\ s >= 2

PhoneAfterLoop(state) == state.hit \/ PhoneRun(state.d, state.s)

ContainsPhoneNumber(text) ==
    LET st[i \in 0 .. Len(text)] ==
          IF i = 0 THEN [d |-> 0, s |-> 0, hit |-> FALSE]
          ELSE LET q == st[i - 1] IN
               IF q.hit THEN q
               ELSE IF text[i] = "9" THEN [q EXCEPT !.d = @ + 1]
               ELSE IF text[i] = "-" THEN [q EXCEPT !.s = @ + 1]
               ELSE [d |-> 0, s |-> 0, hit |-> PhoneRun(q.d, q.s)]
    IN  PhoneAfterLoop(st[Len(text)])

\* All the digits of the text together make a card number.
ContainsCardLikeNumber(text) ==
    Cardinality({i \in DOMAIN text : text[i] = "9"}) \in CardMin .. CardMax

\* The word lists: addresses, keys, financial, health and legal words, files.
CarriesWord(text, tag) == \E i \in DOMAIN text : text[i] \in DOMAIN WordTag /\ WordTag[text[i]] = tag

ContainsFinancialData(text) == CarriesWord(text, "financial") \/ ContainsCardLikeNumber(text)

ScanPrivacyTags(text) ==
    {tag \in {WordTag[w] : w \in DOMAIN WordTag} \ {"financial"} : CarriesWord(text, tag)}
        \cup (IF ContainsPhoneNumber(text) THEN {"phone"} ELSE {})
        \cup (IF ContainsFinancialData(text) THEN {"financial"} ELSE {})

\* The redacted trace holds hashes in place of the texts, and the tags of
\* every turn.
RedactedTurn(t) == [role |-> t.role, hash |-> <<"hash", t.content>>]

RedactedTrace(turns) ==
    [turns |-> [i \in DOMAIN turns |-> RedactedTurn(turns[i])],
     tags  |-> UNION {ScanPrivacyTags(turns[i].content) : i \in DOMAIN turns}]

TraceHashCommitment(turns) ==
    [trace |-> <<"hash", turns>>, redacted |-> <<"hash", RedactedTrace(turns)>>,
     tags |-> RedactedTrace(turns).tags]

(***************************************************************************)
(* Actions.                                                                *)
(***************************************************************************)
\* Nothing has been asked, scanned or generated yet.
AtStart == userReply = NoReply /\ scanText = <<>> /\ rubric = NoRubric

Ask(question, style) ==
    /\ AtStart /\ question # {}
    /\ TrainingItemValid(item) /\ SimulatorInputValid(item)
    /\ asked' = question
    /\ userReply' = ReplyWithMode(item, question, style)
    /\ UNCHANGED <<item, concluded, published, scanText, rubric>>

Conclude(gold, route) ==
    /\ userReply # NoReply /\ concluded = NoRollout
    /\ TraceValid(TurnsOf(item, asked, userReply, gold))
    /\ concluded' = RolloutOf(item, userReply.revealed, gold, route)
    /\ UNCHANGED <<item, asked, userReply, published, scanText, rubric>>

\* The trace leaves the node redacted, with its commitment.
Publish ==
    /\ concluded # NoRollout /\ published = <<>>
    /\ LET turns == TurnsOf(item, asked, userReply, concluded.gold)
       IN  published' = <<[trace |-> RedactedTrace(turns), commitment |-> TraceHashCommitment(turns),
                           turns |-> turns]>>
    /\ UNCHANGED <<item, asked, userReply, concluded, scanText, rubric>>

\* A prompt or an answer is scanned on its own, for its trace row.
Scan(text) ==
    /\ AtStart
    /\ scanText' = text
    /\ UNCHANGED <<item, asked, userReply, concluded, published, rubric>>

\* generate_ask_mind_rubric, generate_ask_overconfidence_rubric
GenerateItem(generated) ==
    /\ AtStart
    /\ TrainingItemValid(generated)
    /\ item' = generated
    /\ UNCHANGED <<asked, userReply, concluded, published, scanText, rubric>>

\* The other generators; the run does not roll their items out.
GenerateRubric(generated) ==
    /\ AtStart
    /\ generated.checks # <<>>
    /\ rubric' = generated
    /\ UNCHANGED <<item, asked, userReply, concluded, published, scanText>>

Routes == UNION {it.rules \cup {it.default} : it \in Items} \cup {"elsewhere"}

RolloutsInit ==
    /\ item \in Items /\ scanText = <<>> /\ rubric = NoRubric
    /\ asked = {} /\ userReply = NoReply /\ concluded = NoRollout /\ published = <<>>

RolloutsNext ==
    \/ \E question \in SUBSET Terms, style \in Styles : Ask(question, style)
    \/ \E gold \in BOOLEAN, route \in Routes : Conclude(gold, route)
    \/ Publish
    \/ AtStart /\ \E text \in Scanned : Scan(text)
    \/ AtStart /\ \E in \in MindInputs : MindInputValid(in) /\ GenerateItem(AskMindItem(in))
    \/ AtStart /\ \E in \in PremiseInputs : PremiseInputValid(in) /\ GenerateItem(AskOverconfidenceItem(in))
    \/ AtStart /\ \E in \in TraceInputs :
         /\ in.rules # <<>>
         /\ GenerateRubric(RouteRubric(in)) \/ GenerateRubric(ToolRubric(in))
    \/ AtStart /\ \E facts \in FactLists : GenerateRubric(CompressionRubric(facts))

RolloutsSpec == RolloutsInit /\ [][RolloutsNext]_rolloutVars

(***************************************************************************)
(* Properties.                                                             *)
(***************************************************************************)
\* Whatever style it plays, the simulated user's reply holds neither the
\* answer of a checkpoint nobody asked about nor the hidden query, even when
\* answers share words, repeat or lie inside one another.
NothingUnasked ==
    userReply # NoReply =>
        /\ \A c \in Points(item) :
              c.id \notin userReply.revealed => ~ContainsText(userReply.content, c.answer)
        /\ ~ContainsText(userReply.content, item.hidden)

\* The reward orders questions: one that asks for more of the required
\* checkpoints is never worth less, and checkpoints that need not be
\* resolved are worth nothing once something was asked.
RewardOrdersQuestions ==
    concluded # NoRollout =>
        \A question \in SUBSET Terms :
            LET shown == {c.id : c \in {d \in Points(item) : ExplicitlyAsksFor(question, d)}}
                other == RolloutOf(item, shown, concluded.gold, concluded.route)
            IN  (shown # {} /\ userReply.revealed # {}) =>
                   /\ (shown \cap RequiredIds(item) \subseteq userReply.revealed)
                         => other.reward <= concluded.reward
                   /\ other.reward = concluded.reward
                         <=> Cardinality(other.missed) = Cardinality(concluded.missed)

\* An answer counts as premature exactly when a required checkpoint was not
\* resolved, and only an answer that is not premature takes the full mark.
PrematureIsMissed ==
    concluded # NoRollout =>
        /\ concluded.premature <=> concluded.missed # {}
        /\ concluded.reward = 6 * Unit(item) =>
              ~concluded.premature /\ concluded.gold /\ RouteValid(item, concluded.route)

\* Nothing private is published unmarked: the published tags are those of
\* each turn by itself, so a turn that may not leave the machine on its own
\* is not covered up by the turns around it.
EveryTurnIsScanned ==
    published # <<>> =>
        \A i \in DOMAIN published[1].turns :
            ScanPrivacyTags(published[1].turns[i].content) \subseteq published[1].commitment.tags

\* A trace that may not leave the machine stays on it in every item made from
\* it (generate_route_correctness_rubric, generate_tool_use_rubric): the policy
\* is one that validates, and when the trace chose an external route all the
\* same, the privacy checkpoint says so.
PrivateTraceStaysLocal ==
    rubric.mode \in {"route", "tool"} =>
        /\ PrivacyPolicyValid(rubric.policy) /\ ~rubric.policy.export
        /\ rubric.in.localOnly \/ rubric.in.tags # {} =>
              /\ rubric.policy.localOnly /\ rubric.difficulty = "hard"
              /\ rubric.mode = "route" /\ rubric.checks[4].says = {rubric.in.route} =>
                    rubric.checks[5].says = {"not allowed"} \/ ~ExternalSelected(rubric.in)

\* The word lists of the two trace generators agree: a prompt that one takes
\* for a question about current matters, the other does not leave without a
\* tool.  And a tool is called missing exactly when it is not in the inventory.
LookupsHaveTools ==
    rubric.mode = "tool" =>
        /\ ClassifyRouteTask([rubric.in EXCEPT !.reason = {}]) = "current_public_info"
              => rubric.checks[1].id # "no tool"
        /\ \A i \in DOMAIN rubric.checks, says \in {TRUE, FALSE} :
              \A t \in {ToolKinds[k].tool : k \in DOMAIN ToolKinds} :
                  <<t, says>> \in rubric.checks[i].says => (says <=> t \in rubric.in.tools)

\* Nothing asked of a compressed text whose facts have ids of their own is
\* asked twice, and nothing that a fact requires is left out
\* (generate_compression_loss_rubric).
EveryFactIsChecked ==
    rubric.mode = "compression" =>
        /\ \A i, j \in DOMAIN rubric.checks : i # j => rubric.checks[i] # rubric.checks[j]
        /\ \A i \in DOMAIN rubric.in :
              LET of(kind) == \E k \in DOMAIN rubric.checks : rubric.checks[k] = Check(kind, {rubric.in[i].id})
              IN  of("dropped") /\ (of("numeric") <=> rubric.in[i].numeric)
                    /\ (of("citation") <=> rubric.in[i].cited) /\ (of("constraint") <=> rubric.in[i].constraint)

\* The prompt of an AskOverconfidence item holds the false premise that the
\* answer has to correct, injected or given.
PremiseIsVisible == "premise" \in DOMAIN item => ContainsText(item.visible, item.premise)

\* The prompt of a generated AskMind item does not give away the answer of a fact.
DegradedHidesFacts ==
    item \notin Items /\ "premise" \notin DOMAIN item =>
        \A c \in Points(item) : c.answer # <<>> => ~ContainsText(item.visible, c.answer)

\* The one-pass phone scan finds what its definition says: a stretch of
\* digits and separators, bounded on both sides by something else or by an
\* end of the text, with an admissible number of digits and two separators.
PhoneScanIsExact ==
    ContainsPhoneNumber(scanText) <=>
        \E i, j \in 1 .. Len(scanText) :
            /\ i <= j
            /\ \A k \in i .. j : scanText[k] \in {"9", "-"}
            /\ (i = 1 \/ scanText[i - 1] \notin {"9", "-"})
            /\ (j = Len(scanText) \/ scanText[j + 1] \notin {"9", "-"})
            /\ Cardinality({k \in i .. j : scanText[k] = "9"}) \in PhoneMin .. PhoneMax
            /\ Cardinality({k \in i .. j : scanText[k] = "-"}) >= 2
=============================================================================
