----------------------------- MODULE AgentPolicy -----------------------------
(***************************************************************************)
(* The rules an agent's wallet applies before it calls a tool: policy      *)
(* templates that inherit from one another (crates/wallet/src/policy.rs),  *)
(* the rate limit of a tool class (rate_limit.rs), and the choice of a     *)
(* provider and of a verifier (reputation.rs, production.rs); and how it   *)
(* judges the receipt of the call (task_receipt.rs, production.rs).        *)
(***************************************************************************)
EXTENDS Values, SequencesExt

CONSTANTS
  Templates,       \* PolicyTemplates: id, inherits, caveats, limits, attestations, budget
  NoTemplate,
  BucketCapacity, BucketWindow,   \* TokenBucket
  Candidates,      \* QuoteCandidates: price, latency, reputation, stake
  Gates,           \* min_reputation_stake_product, max_latency_ms
  Verifiers,       \* VerifierCandidates: weight, reputation
  MaxRank,         \* u128::MAX
  SampleRate, RateBase,   \* sample_rate_bps and its 10_000
  SampleFrom,      \* min_task_value
  Agents, QuoteProviders,      \* session and provider keys
  Contents,        \* payload and output commitments; NoContent is the zero hash
  NoContent,
  Expectations,    \* expected_measurement of a verification, a sequence of at most one
  Attempts,        \* the (class, tier) pairs intents ask for
  Required,        \* required_attestations of the policy: pairs (class, tee)
  MaxPolicyTime,   \* bound: the clock
  MaxPool          \* bound: the candidates of a choice

VARIABLES
  templates,       \* PolicyRegistry.templates, by id
  bucket,          \* tokens and window_start_ms
  consumed,        \* when calls were let through
  policyNow,
  offers, panel,   \* the candidates of the choice at hand
  intent,          \* the matched ToolIntent, a sequence of at most one
  receipt,         \* the ToolReceipt as it travels, a sequence of at most one
  seen             \* the body the agent acknowledged, a sequence of at most one

choiceVars == <<templates, bucket, consumed, policyNow, offers, panel>>
receiptVars == <<intent, receipt, seen>>
policyVars == <<choiceVars, receiptVars>>
-----------------------------------------------------------------------------
\* The templates shipped with the wallet, amounts in FRAC.
TotalSpend(n) == [kind |-> "total", class |-> "any", max |-> n]
CallSpend(c, n) == [kind |-> "call", class |-> c, max |-> n]

\* research_agent_v1
ResearchAgent ==
  [id |-> 1, inherits |-> NoTemplate, attestations |-> {},
   caveats |-> <<TotalSpend(3), CallSpend("Browser", 1), CallSpend("LlmInference", 2)>>,
   limits |-> [c \in {"Browser", "LlmInference"} |-> IF c = "Browser" THEN 50 ELSE 100],
   budget |-> 3]

\* coding_agent_v1
CodingAgent ==
  [id |-> 2, inherits |-> NoTemplate, attestations |-> {},
   caveats |-> <<TotalSpend(10), CallSpend("TestRunner", 2), CallSpend("LlmInference", 5)>>,
   limits |-> [c \in {"LlmInference", "TestRunner"} |-> IF c = "TestRunner" THEN 20 ELSE 200],
   budget |-> 10]

\* verifier_agent_v1
VerifierAgent ==
  [id |-> 3, inherits |-> NoTemplate, attestations |-> {},
   caveats |-> <<TotalSpend(2)>>, limits |-> Empty, budget |-> 2]

Builtins == {ResearchAgent, CodingAgent, VerifierAgent}

\* suggested_tool_class_mask
SuggestedMask(id) ==
  CASE id = 1 -> {"Browser", "LlmInference", "FileStorage"}
    [] id = 2 -> {"LlmInference", "TestRunner", "FileStorage"}
    [] id = 3 -> {"FileStorage", "TestRunner", "LlmInference"}

\* The inheritance chain of template id, root first.
ChainOf(id) ==
  LET up[n \in 0 .. Cardinality(DOMAIN templates)] ==
        IF n = 0 THEN <<id>>
        ELSE LET t == Head(up[n - 1])
             IN IF t \notin DOMAIN templates \/ templates[t].inherits = NoTemplate THEN up[n - 1]
                ELSE <<templates[t].inherits>> \o up[n - 1]
  IN up[Cardinality(DOMAIN templates)]

\* resolve: the caveats and attestations of the chain, and the limits and the
\* budget of the template nearest to id that has them.
Resolve(id) ==
  LET chain == ChainOf(id)
      limited(c) == {i \in DOMAIN chain : c \in DOMAIN templates[chain[i]].limits}
  IN [caveats |-> FlattenSeq([i \in DOMAIN chain |-> templates[chain[i]].caveats]),
      attestations |-> UNION {templates[chain[i]].attestations : i \in DOMAIN chain},
      limits |-> [c \in UNION {DOMAIN templates[chain[i]].limits : i \in DOMAIN chain} |->
                    templates[chain[Max(limited(c))]].limits[c]],
      budget |-> templates[id].budget]

\* would_cycle
WouldCycle(id, parent) == id \in ToSet(ChainOf(parent))

\* Seeded defect: the window starts anew at the call.
RefilledSliding(now) ==
  IF BucketWindow = 0 \/ now < bucket.start THEN bucket
  ELSE [tokens |-> BucketCapacity, start |-> now]

\* refill
Refilled(now) ==
  LET elapsed == Minus(now, bucket.start)
  IN IF BucketWindow = 0 \/ elapsed < BucketWindow THEN bucket
     ELSE [tokens |-> BucketCapacity,
           start |-> bucket.start + (elapsed \div BucketWindow) * BucketWindow]

-----------------------------------------------------------------------------
\* The rank of a candidate and the ties, larger is better.
RankOf(c, preference) ==
  <<CASE preference = "cheapest" -> MaxRank - c.price
      [] preference = "fastest" -> MaxRank - c.latency
      [] preference = "reputable" -> c.reputation,
    MaxRank - c.price, MaxRank - c.latency>>

Beats(x, y) == \E i \in 1 .. 3 : x[i] > y[i] /\ \A j \in 1 .. i - 1 : x[j] = y[j]

\* reputation_stake_product and the gates of select_quote
Passes(c) == c.latency <= Gates.latency /\ (c.reputation * c.stake) \div 1000 >= Gates.product

\* select_quote: one pass that keeps the best so far; 0 for NoCandidates.
SelectQuote(s, preference) ==
  LET best[i \in 0 .. Len(s)] ==
        IF i = 0 THEN 0
        ELSE IF Passes(s[i]) /\ (best[i - 1] = 0
                                 \/ Beats(RankOf(s[i], preference), RankOf(s[best[i - 1]], preference)))
             THEN i ELSE best[i - 1]
  IN best[Len(s)]

VerifierWeight(v) == v.weight * Max({v.reputation, 1})

TotalVerifierWeight(s) == SumSeq(s, VerifierWeight)

\* should_sample_verifier
ShouldSample(word, price) ==
  price >= SampleFrom /\ (SampleRate >= RateBase \/ word % RateBase < SampleRate)

\* select_verifier_weighted with the sampled word; the word is uniform.
SelectVerifier(s, word) ==
  IF TotalVerifierWeight(s) = 0 THEN (word % Len(s)) + 1
  ELSE LET pick == word % TotalVerifierWeight(s)
           acc(i) == SumSeq(SubSeq(s, 1, i), VerifierWeight)
       IN Min({i \in DOMAIN s : pick < acc(i)})

-----------------------------------------------------------------------------
PolicyInit ==
  /\ templates = Empty
  /\ bucket = [tokens |-> BucketCapacity, start |-> 0]
  /\ consumed = <<>> /\ policyNow = 0
  /\ offers = <<>> /\ panel = <<>>
  /\ intent = <<>> /\ receipt = <<>> /\ seen = <<>>

\* register
Register(t) ==
  /\ t.id \notin DOMAIN templates
  /\ t.inherits # NoTemplate => t.inherits \in DOMAIN templates /\ ~WouldCycle(t.id, t.inherits)
  /\ templates' = Put(templates, t.id, t)
  /\ UNCHANGED <<bucket, consumed, policyNow, offers, panel, receiptVars>>

\* try_consume, let through; a refused call only refills.
TryConsume ==
  /\ bucket' = LET b == Refilled(policyNow) IN [b EXCEPT !.tokens = Minus(@, 1)]
  /\ consumed' = IF Refilled(policyNow).tokens = 0 THEN consumed ELSE Append(consumed, policyNow)
  /\ UNCHANGED <<templates, policyNow, offers, panel, receiptVars>>

PolicyTick ==
  policyNow < MaxPolicyTime /\ policyNow' = policyNow + 1
    /\ UNCHANGED <<templates, bucket, consumed, offers, panel, receiptVars>>

\* A provider or a verifier is to be chosen.
AddOffer(c) ==
  Len(offers) < MaxPool /\ offers' = Append(offers, c)
    /\ UNCHANGED <<templates, bucket, consumed, policyNow, panel, receiptVars>>

AddVerifier(v) ==
  Len(panel) < MaxPool /\ panel' = Append(panel, v)
    /\ UNCHANGED <<templates, bucket, consumed, policyNow, offers, receiptVars>>

\* register_builtins
RegisterBuiltins ==
  /\ templates = Empty
  /\ templates' = [i \in 1 .. 3 |-> CHOOSE t \in Builtins : t.id = i]
  /\ UNCHANGED <<bucket, consumed, policyNow, offers, panel, receiptVars>>
-----------------------------------------------------------------------------
(***************************************************************************)
(* The receipt of a call.  A signature is the pair of the key that made it *)
(* and what it signed; blake3 is injective.                                *)
(***************************************************************************)
\* default_verification_tier; tiers are 0 Trusted, 1 Optimistic, 2 Attested, ...
DefaultTier(class) ==
  CASE class = "GithubRead" -> 0
    [] class \in {"GithubWrite", "GpuJob", "DatabaseQuery", "EmailSend", "CodeExecution"} -> 2
    [] OTHER -> 1

\* metering_requirements: what must not be zero.
MeteringRequirements(class) ==
  CASE class \in {"LlmInference", "Embedding"} -> {"input", "output"}
    [] class \in {"Browser", "WebScrape", "VectorSearch", "Ocr"} -> {"wall", "bytes"}
    [] class = "FileStorage" -> {"bytes"}
    [] OTHER -> {"wall"}

\* provider_id is the hash of the key: the key stands for it.
ReceiptId(body, sig) == <<body.intent, sig>>

\* ToolReceipt::sign_new
SignNew(body, key) ==
  LET sig == <<key, body>> IN [id |-> ReceiptId(body, sig), body |-> body, sig |-> sig, ack |-> <<>>]

\* verify_provider
VerifyProvider(r, key) ==
  r.body.provider = key /\ r.sig = <<key, r.body>> /\ r.id = ReceiptId(r.body, r.sig)

\* ToolReceiptAgentAckBody
AckBody(r) == <<r.id, r.body.intent, r.body.task, r.body.output, r.body.cost>>

\* sign_agent_ack
SignAgentAck(r, key) == <<key, AckBody(r)>>

\* verify_agent_ack
VerifyAgentAck(r) == r.ack = <<r.body.session, AckBody(r)>>

\* verify_tee_attestation; a quote that does not decode is not in the model's quotes
VerifyTee(att, tee, expected, payload) ==
  att.tee = tee /\ (expected # <<>> => att.measure = expected[1]) /\ att.report = payload

\* check_metering
CheckMetering(class, body) == MeteringRequirements(class) \subseteq body.metered

\* check_attestation
CheckAttestation(class, tier, body, expected, payload) ==
  LET named == {p \in Required : p[1] = class}
  IN (tier = 2 \/ named # {}) =>
       /\ body.quote # <<>>
       /\ LET att == body.quote[1]
          IN VerifyTee(att, IF named = {} THEN att.tee ELSE (CHOOSE p \in named : TRUE)[2], expected, payload)

\* check_caveats: the caveats are TeeAttestationRequired for Required and
\* OutputCommitmentRequired for every class
CheckCaveats(class, body) ==
  /\ \A p \in Required : p[1] = class => body.quote # <<>> /\ VerifyTee(body.quote[1], p[2], <<>>, body.payload)
  /\ body.output # NoContent

\* The report verify_production_tool_receipt fills in; the key is the one of the
\* matched provider.
Report(it, r) ==
  [provider |-> VerifyProvider(r, it.provider),
   binding |-> r.body.intent = it.id /\ r.body.class = it.class /\ r.body.task = it.task
                 /\ r.body.session = it.session,
   tier |-> it.tier >= DefaultTier(it.class),
   metering |-> CheckMetering(it.class, r.body),
   attestation |-> CheckAttestation(it.class, it.tier, r.body, it.expected, it.payload),
   caveats |-> CheckCaveats(it.class, r.body)]

\* all_ok
AllOk(report) == \A f \in DOMAIN report : report[f]

\* verify_production_tool_receipt: the report, or ChecksFailed without one
Verified(it, r) == IF AllOk(Report(it, r)) THEN <<Report(it, r)>> ELSE <<>>

\* challenge_kind_for_production_failure
ChallengeKind(report) ==
  CASE ~report.attestation -> "Unattested" [] ~report.metering -> "Overcharged"
    [] ~report.binding -> "WrongOutput" [] ~report.provider -> "NotExecuted" [] OTHER -> "None"

\* What a provider that does its work puts in the receipt.
HonestBody(it) ==
  [intent |-> it.id, task |-> it.task, session |-> it.session, provider |-> it.provider,
   class |-> it.class, payload |-> it.payload, output |-> CHOOSE c \in Contents : c # NoContent,
   metered |-> MeteringRequirements(it.class), cost |-> 1,
   quote |-> IF it.tier = 2 \/ \E p \in Required : p[1] = it.class
             THEN <<[tee |-> IF \E p \in Required : p[1] = it.class
                             THEN (CHOOSE p \in Required : p[1] = it.class)[2] ELSE "IntelTdx",
                     measure |-> IF it.expected = <<>> THEN "none" ELSE it.expected[1],
                     report |-> it.payload]>>
             ELSE <<>>]

\* A body with one field other than the provider should have written it.
Altered(body) ==
  {[body EXCEPT !.output = c] : c \in Contents} \cup {[body EXCEPT !.payload = c] : c \in Contents}
    \cup {[body EXCEPT !.cost = 2], [body EXCEPT !.metered = {}], [body EXCEPT !.quote = <<>>],
          [body EXCEPT !.quote = [i \in DOMAIN @ |-> [@[i] EXCEPT !.measure = "other"]]]}
    \cup {[body EXCEPT !.session = a] : a \in Agents} \cup {[body EXCEPT !.provider = p] : p \in QuoteProviders}
    \cup {[body EXCEPT !.intent = 3 - @]}

Match(a, session, provider, payload, expected) ==
  /\ intent = <<>>
  /\ intent' = <<[id |-> 1, task |-> 1, class |-> a[1], tier |-> a[2], session |-> session,
                  provider |-> provider, payload |-> payload, expected |-> expected]>>
  /\ UNCHANGED <<choiceVars, receipt, seen>>

\* The provider delivers; it may write one field wrong.
DeliverReceipt(body) ==
  /\ intent # <<>> /\ receipt = <<>>
  /\ body \in Altered(HonestBody(intent[1])) \cup {HonestBody(intent[1])}
  /\ receipt' = <<SignNew(body, intent[1].provider)>>
  /\ UNCHANGED <<choiceVars, intent, seen>>

\* The agent acknowledges a receipt it accepts.
Acknowledge ==
  /\ receipt # <<>> /\ seen = <<>> /\ Verified(intent[1], receipt[1]) # <<>>
  /\ receipt' = <<[receipt[1] EXCEPT !.ack = SignAgentAck(receipt[1], intent[1].session)]>>
  /\ seen' = <<receipt[1].body>>
  /\ UNCHANGED <<choiceVars, intent>>

\* Later the provider signs another body under the same id, keeping the
\* acknowledgement, or the body is changed on its way; bound: once.
Resign(body) ==
  /\ receipt # <<>> /\ seen = <<receipt[1].body>> /\ body \in Altered(receipt[1].body)
  /\ \E sig \in {<<intent[1].provider, body>>, receipt[1].sig} :
       receipt' = <<[receipt[1] EXCEPT !.body = body, !.sig = sig]>>
  /\ UNCHANGED <<choiceVars, intent, seen>>
-----------------------------------------------------------------------------
\* One kind of rule at a time: they share nothing.
PolicyNext ==
  \/ consumed = <<>> /\ policyNow = 0 /\ offers = <<>> /\ panel = <<>> /\ intent = <<>> /\ RegisterBuiltins
  \/ consumed = <<>> /\ policyNow = 0 /\ offers = <<>> /\ panel = <<>> /\ intent = <<>> /\ \E t \in Templates : Register(t)
  \/ templates = Empty /\ offers = <<>> /\ panel = <<>> /\ intent = <<>> /\ (TryConsume \/ PolicyTick)
  \/ templates = Empty /\ policyNow = 0 /\ panel = <<>> /\ consumed = <<>> /\ intent = <<>> /\ \E c \in Candidates : AddOffer(c)
  \/ templates = Empty /\ policyNow = 0 /\ offers = <<>> /\ consumed = <<>> /\ intent = <<>> /\ \E v \in Verifiers : AddVerifier(v)
  \/ /\ templates = Empty /\ policyNow = 0 /\ offers = <<>> /\ panel = <<>> /\ consumed = <<>>
     /\ \/ \E a \in Attempts, s \in Agents, p \in QuoteProviders, c \in Contents \ {NoContent}, e \in Expectations : Match(a, s, p, c, e)
        \/ intent # <<>> /\ \E b \in Altered(HonestBody(intent[1])) \cup {HonestBody(intent[1])} : DeliverReceipt(b)
        \/ Acknowledge
        \/ receipt # <<>> /\ \E b \in Altered(receipt[1].body) : Resign(b)

PolicySpec == PolicyInit /\ [][PolicyNext]_policyVars
-----------------------------------------------------------------------------
\* Every registered template resolves, in whatever order templates were
\* registered: its chain ends at a root, and a child adds to the caveats and the
\* attestations of its parent and never drops one.
InheritanceTightens ==
  \A id \in DOMAIN templates :
    /\ Head(ChainOf(id)) \in DOMAIN templates /\ templates[Head(ChainOf(id))].inherits = NoTemplate
    /\ LET p == templates[id].inherits
       IN p # NoTemplate =>
            /\ IsPrefix(Resolve(p).caveats, Resolve(id).caveats)
            /\ Resolve(p).attestations \subseteq Resolve(id).attestations
            /\ DOMAIN Resolve(p).limits \subseteq DOMAIN Resolve(id).limits

\* No window of the bucket lets through more than its capacity, however the
\* calls and the idle times fall.
WindowRate ==
  \A w \in 0 .. MaxPolicyTime :
    Cardinality({i \in DOMAIN consumed : consumed[i] \div BucketWindow = w}) <= BucketCapacity

\* The chosen quote passes the gates and no passing one has a better rank.
BestQuote ==
  \A preference \in {"cheapest", "fastest", "reputable"} :
    LET b == SelectQuote(offers, preference)
        passing == {i \in DOMAIN offers : Passes(offers[i])}
    IN IF passing = {} THEN b = 0
       ELSE b \in passing
              /\ \A i \in passing : ~Beats(RankOf(offers[i], preference), RankOf(offers[b], preference))

\* A call worth verifying is verified at the configured rate, and a verifier is
\* drawn for exactly its share of the words.
SampledByWeight ==
  LET total == TotalVerifierWeight(panel)
  IN panel # <<>> /\ total > 0 =>
       /\ \A i \in DOMAIN panel :
            Cardinality({word \in 0 .. total - 1 : SelectVerifier(panel, word) = i}) = VerifierWeight(panel[i])
       /\ \A price \in {SampleFrom, SampleFrom + 1} :
            Cardinality({word \in 0 .. RateBase - 1 : ShouldSample(word, price)}) = Min({SampleRate, RateBase})

\* A template that descends from a shipped one spends no more than it allows in
\* total, whatever budget of its own it states, and is rate limited wherever the
\* shipped one is.
DescendantsWithinBuiltin ==
  \A id \in DOMAIN templates :
    LET r == Resolve(id)
    IN \A b \in Builtins :
         (b.id \in DOMAIN templates /\ templates[b.id] = b /\ b.id \in ToSet(ChainOf(id))) =>
           /\ Min({c.max : c \in {x \in ToSet(r.caveats) : x.kind = "total"}}) <= b.budget
           /\ DOMAIN b.limits \subseteq DOMAIN r.limits \cap SuggestedMask(b.id)

\* The receipt of a provider that did its work for a class and tier that may be
\* asked for is accepted, whatever measurement is expected; a refused receipt
\* comes without a report, so that no challenge follows from the verification:
\* every report that is handed out maps to none.
HonestIsPaid ==
  receipt # <<>> =>
    LET it == intent[1]
        verdict == Verified(it, receipt[1])
    IN /\ (receipt[1].body = HonestBody(it) /\ receipt[1].sig = <<it.provider, receipt[1].body>>
            /\ receipt[1].id = ReceiptId(receipt[1].body, receipt[1].sig) /\ it.tier >= DefaultTier(it.class))
         => verdict # <<>>
       /\ verdict # <<>> => ChallengeKind(verdict[1]) = "None"

\* An acknowledgement goes with one body: no receipt that verifies under it
\* differs from the one the agent accepted, though the agent signs only the id,
\* the output and the cost.
AckCoversBody ==
  (seen # <<>> /\ VerifyProvider(receipt[1], intent[1].provider) /\ VerifyAgentAck(receipt[1]))
    => receipt[1].body = seen[1]

\* Policies and receipts (policy.rs, rate_limit.rs, reputation.rs,
\* production.rs): templates only tighten what they inherit, no window lets
\* more through than its limit, the best admissible quote and a verifier by
\* weight are chosen, and an honest provider is paid for exactly what the
\* agent acknowledged.
PolicySafe ==
  /\ DescendantsWithinBuiltin /\ InheritanceTightens /\ WindowRate
  /\ BestQuote /\ SampledByWeight /\ HonestIsPaid /\ AckCoversBody

=============================================================================
