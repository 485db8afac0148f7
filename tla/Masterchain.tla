----------------------------- MODULE Masterchain -----------------------------
(***************************************************************************)
(* The masterchain ledger (crates/masterchain/src/ledger.rs): anchors of   *)
(* the shards, validity proofs and the market of their provers, zones and  *)
(* forced inclusion, messages between shards, and the round that seals     *)
(* them into a block.  The zone operations are those of the registry,      *)
(* which the ledger has a copy of; each also asks for a round.  It is the  *)
(* ledger of one validator, which seals when the view is its own.          *)
(*                                                                         *)
(* A digest is a model value, 0 the empty one; the aggregator (Plonky2)    *)
(* is external and fails for too many proofs.                              *)
(*                                                                         *)
(* Below it, all the validators and their votes (crates/masterchain/src/   *)
(* node.rs, bft.rs, network.rs).                                           *)
(***************************************************************************)
EXTENDS ExecutionZones, SequencesExt

CONSTANTS
  Shards, Roots,
  ShardMessages,     \* CrossShardMessageV1
  Submissions,       \* ProofSubmissionV1: [shard, start, end, prover, digest, lag]
  Statements,        \* VerifiedStwoStatementV1: [shard, start, end, digest]
  Provers, Sealer,   \* the node's own prover address
  Bonds,             \* amounts registered or topped up
  MinBond, MaxPending, MaxRange,            \* ProverMarketParamsV1, enabled
  SlashAmount, RequireVerified,             \* ProofSlashingPolicyV1, enabled
  RewardPerBlock, HalfLife, Treasury,       \* ProverEconomicsParamsV1
  MaxAggProofs,      \* MAX_AGG_PROOFS
  NMc, McSelf,       \* the number of validators, and the index of the one that has this ledger
  MaxAnchor,         \* bound: a shard's block height
  MaxMcCalls         \* bound: calls besides sealing

ASSUME McAssumption ==
  /\ Shards \subseteq Nat /\ MaxHeight \in Nat /\ MaxAnchor \in Nat
  /\ \A p \in Submissions : p.start \in Nat /\ p.end \in Nat /\ p.lag \in Nat
  /\ \A s \in Statements : s.start \in Nat /\ s.end \in Nat
  /\ IsFiniteSet(Provers) /\ Bonds \subseteq Nat /\ MinBond \in Nat /\ SlashAmount \in Nat
  /\ NMc \in Nat \ {0} /\ McSelf \in 0 .. NMc - 1
  /\ RewardPerBlock \in Nat /\ HalfLife \in Nat \ {0} /\ Treasury \in Nat

VARIABLES
  mcAnchors,     \* latest_anchors
  mcProofs,      \* pending_validity_proofs
  mcDigests,     \* pending_stwo_by_height and pending_stwo_ranges
  mcVerified,    \* keys of pending_verified_stwo_statements
  mcProvers,     \* prover_identities
  mcSlashes,     \* invalid_proof_slash_events
  mcTreasury, mcCredits,
  mcMessages,    \* pending_cross_shard_messages, sorted and without duplicates
  mcDirty,       \* pending_anchor_updates
  mcBlocks,      \* blocks
  mcBonded,      \* history: what was registered and topped up
  mcView,        \* MasterchainBftNode.view
  mcCalls

ledgerStateVars == <<mcAnchors, mcProofs, mcDigests, mcVerified, mcProvers, mcSlashes, mcTreasury,
                     mcCredits, mcMessages, mcDirty, mcBlocks, mcBonded>>
mcVars == <<zoneVars, ledgerStateVars, mcView, mcCalls>>

McInit ==
  /\ ZonesInit
  /\ mcAnchors = Empty /\ mcProofs = <<>> /\ mcDigests = Empty /\ mcVerified = {} /\ mcProvers = Empty
  /\ mcSlashes = <<>> /\ mcTreasury = Treasury /\ mcCredits = [p \in Provers \cup {Sealer} |-> 0]
  /\ mcMessages = {} /\ mcDirty = FALSE /\ mcBlocks = <<>> /\ mcBonded = 0 /\ mcView = 0 /\ mcCalls = 0

RangeLen(p) == Minus(p.end, p.start) + 1

\* validate_proof_submission, or its error
SubmissionError(p, anchors) ==
  IF p.digest = 0 THEN "empty digest"
  ELSE IF p.start > p.end THEN "bad range"
  ELSE IF p.shard \notin DOMAIN anchors THEN "unknown shard"
  ELSE IF p.end > anchors[p.shard].height THEN "exceeds anchor" ELSE "none"

SameRange(p, q) == p.shard = q.shard /\ p.start = q.start /\ p.end = q.end

\* invalid_proof_evidence_hash: the height is part of the evidence.
Evidence(h, p, reason) == [height |-> h, sub |-> p, reason |-> reason]

\* record_invalid_submission and execute_invalid_proof_slash, on the pair of
\* the events and the provers, at height h
Slashed(h, m, p, reason) ==
  IF \E i \in DOMAIN m.slashes : m.slashes[i].evidence = Evidence(h, p, reason) THEN m
  ELSE LET known == p.prover \in DOMAIN m.provers /\ m.provers[p.prover].active
           burned == IF known THEN Min({m.provers[p.prover].bond, SlashAmount}) ELSE 0
           left == m.provers[p.prover].bond - burned
       IN [slashes |-> Append(m.slashes, [evidence |-> Evidence(h, p, reason), burned |-> burned]),
           provers |-> IF known THEN [m.provers EXCEPT ![p.prover] = [bond |-> left, active |-> left >= MinBond]]
                       ELSE m.provers]

\* The submissions of ps, one after the other.
AllSlashed(h, ps, reason) ==
  FoldLeft(LAMBDA m, p : Slashed(h, m, p, reason), [slashes |-> mcSlashes, provers |-> mcProvers], ps)

Record(m) == \E r \in {m} : mcSlashes' = r.slashes /\ mcProvers' = r.provers

Call == mcCalls < MaxMcCalls /\ mcCalls' = mcCalls + 1 /\ UNCHANGED mcView
-----------------------------------------------------------------------------
RegisterProver(p, bond) ==
  /\ Call
  /\ p \notin DOMAIN mcProvers /\ bond >= MinBond
  /\ mcProvers' = Put(mcProvers, p, [bond |-> bond, active |-> TRUE])
  /\ mcBonded' = mcBonded + bond
  /\ UNCHANGED <<zoneVars, mcAnchors, mcProofs, mcDigests, mcVerified, mcSlashes, mcTreasury, mcCredits, mcMessages, mcDirty, mcBlocks>>

\* top_up_prover_bond does not make an inactive prover active again.
TopUp(p, n) ==
  /\ Call
  /\ p \in DOMAIN mcProvers
  /\ mcProvers' = [mcProvers EXCEPT ![p].bond = @ + n]
  /\ mcBonded' = mcBonded + n
  /\ UNCHANGED <<zoneVars, mcAnchors, mcProofs, mcDigests, mcVerified, mcSlashes, mcTreasury, mcCredits, mcMessages, mcDirty, mcBlocks>>

\* validate_prover_market_submission
MarketAccepts(p) ==
  /\ RangeLen(p) <= MaxRange
  /\ p.prover \in DOMAIN mcProvers /\ mcProvers[p.prover].active /\ mcProvers[p.prover].bond >= MinBond
  /\ Cardinality({i \in DOMAIN mcProofs : mcProofs[i].prover = p.prover}) < MaxPending

\* submit_validity_proof: before the first anchor only the shape is checked.
SubmitProof(p) ==
  LET e == SubmissionError(p, mcAnchors)
      bad == e # "none" /\ (mcAnchors # Empty \/ e \in {"empty digest", "bad range"})
  IN /\ Call
     /\ MarketAccepts(p)
     /\ IF bad THEN Record(AllSlashed(registry.height, <<p>>, e)) /\ UNCHANGED mcProofs
        ELSE mcProofs' = Append(mcProofs, p) /\ UNCHANGED <<mcSlashes, mcProvers>>
     /\ UNCHANGED <<zoneVars, mcAnchors, mcDigests, mcVerified, mcTreasury, mcCredits, mcMessages, mcDirty, mcBlocks, mcBonded>>

\* record_verified_stwo_statement and record_stwo_digest_range: a digest is
\* kept by its range, whatever its shard.
RecordStatement(s, verified) ==
  /\ Call
  /\ s.digest # 0 /\ s.start <= s.end
  /\ mcDigests' = Put(mcDigests, <<s.start, s.end>>, s.digest)
  /\ mcVerified' = IF verified THEN mcVerified \cup {s} ELSE mcVerified
  /\ UNCHANGED <<zoneVars, mcAnchors, mcProofs, mcProvers, mcSlashes, mcTreasury, mcCredits, mcMessages, mcDirty, mcBlocks, mcBonded>>

\* ingest_shard_anchor: one of the same height with another root replaces the first.
IngestAnchor(s, h, root) ==
  /\ Call
  /\ s \in DOMAIN mcAnchors => h >= mcAnchors[s].height /\ mcAnchors[s] # [height |-> h, root |-> root]
  /\ mcAnchors' = Put(mcAnchors, s, [height |-> h, root |-> root])
  /\ mcDirty' = TRUE
  /\ UNCHANGED <<zoneVars, mcProofs, mcDigests, mcVerified, mcProvers, mcSlashes, mcTreasury, mcCredits, mcMessages, mcBlocks, mcBonded>>

SubmitShardMessage(m) ==
  /\ Call
  /\ mcMessages' = mcMessages \cup {m} /\ mcDirty' = TRUE
  /\ UNCHANGED <<zoneVars, mcAnchors, mcProofs, mcDigests, mcVerified, mcProvers, mcSlashes, mcTreasury, mcCredits, mcBlocks, mcBonded>>

\* create_execution_zone, submit_forced_inclusion ..., and submit_zone_proof_final_update,
\* which verifies less than the registry: neither coverage, public inputs nor data.  Only the
\* sequencer's own building of an update is no call of the ledger.
ZoneCall ==
  /\ Call
  /\ ZoneOps \/ \E z \in DOMAIN updates : FinalizeUpdate(updates[z])
  /\ mcDirty' = (mcDirty \/ updates' = updates)
  /\ UNCHANGED <<mcAnchors, mcProofs, mcDigests, mcVerified, mcProvers, mcSlashes, mcTreasury, mcCredits, mcMessages, mcBlocks, mcBonded>>
-----------------------------------------------------------------------------
\* flush_stwo_digests_for_anchor, for each shard in order: single blocks, then
\* ranges.  The first shard that has reached the height takes the digest.
RangeOrder(a, b) ==
  \/ a[1] = a[2] /\ b[1] # b[2]
  \/ (a[1] = a[2]) = (b[1] = b[2]) /\ (a[1] < b[1] \/ (a[1] = b[1] /\ a[2] < b[2]))

\* A digest as the node's own submission for shard s.
DigestSubmission(s, k, digest) ==
  [shard |-> s, start |-> k[1], end |-> k[2], prover |-> Sealer, digest |-> digest, lag |-> 0]

\* A range that is among the proofs is not added again.
WithProof(ps, p) == IF \E i \in DOMAIN ps : SameRange(ps[i], p) THEN ps ELSE Append(ps, p)

FlushShard(acc, s) ==
  LET mine == {k \in DOMAIN acc.digests : k[2] <= mcAnchors[s].height}
      due == InPlaces(mine, {p \in mine \X mine : RangeOrder(p[1], p[2])})
  IN [digests |-> Without(acc.digests, mine),
      proofs |-> FoldLeft(WithProof, acc.proofs,
                          [i \in DOMAIN due |-> DigestSubmission(s, due[i], acc.digests[due[i]])])]

FlushedDigests ==
  LET shards == DOMAIN mcAnchors
  IN FoldLeft(FlushShard, [digests |-> mcDigests, proofs |-> mcProofs],
              InPlaces(shards, {p \in shards \X shards : p[1] < p[2]}))

\* prover_reward_wei
RewardOf(p) == (RewardPerBlock * RangeLen(p) * HalfLife) \div (p.lag + HalfLife)

\* credit_accepted_proofs, for one proof
Credited(acc, p) ==
  LET paid == Min({RewardOf(p), acc.treasury})
  IN [treasury |-> acc.treasury - paid, credits |-> [acc.credits EXCEPT ![p.prover] = @ + paid]]

\* Seeded defect: proofs are not validated again in the round.
RoundFaultTrusting(ps, verified) ==
  IF \E i, j \in DOMAIN ps : i < j /\ SameRange(ps[i], ps[j]) THEN [culprits |-> ps, reason |-> "duplicate"]
  ELSE IF Len(ps) > MaxAggProofs THEN [culprits |-> ps, reason |-> "aggregator"]
  ELSE [culprits |-> <<>>, reason |-> "none"]

\* What makes the round fail and who is slashed for it: every submission of the
\* round for a duplicate or a refusal of the aggregator, else the first one at fault.
RoundFault(ps, verified) ==
  LET invalid == {i \in DOMAIN ps : SubmissionError(ps[i], mcAnchors) # "none"}
      missing == {i \in DOMAIN ps : ~\E s \in verified : SameRange(s, ps[i]) /\ s.digest = ps[i].digest}
      first(S) == ps[CHOOSE i \in S : \A j \in S : i <= j]
  IN IF \E i, j \in DOMAIN ps : i < j /\ SameRange(ps[i], ps[j]) THEN [culprits |-> ps, reason |-> "duplicate"]
     ELSE IF invalid # {} THEN [culprits |-> <<first(invalid)>>, reason |-> SubmissionError(first(invalid), mcAnchors)]
     ELSE IF RequireVerified /\ missing # {} THEN [culprits |-> <<first(missing)>>, reason |-> "missing verified"]
     ELSE IF Len(ps) > MaxAggProofs THEN [culprits |-> ps, reason |-> "aggregator"]
     ELSE [culprits |-> <<>>, reason |-> "none"]

\* Seeded defect: requests that wait are no reason for a round.
WorkPendingUnforced == mcDirty \/ mcProofs # <<>> \/ mcMessages # {} \/ registry.messages # {}

WorkPending ==
  mcDirty \/ mcProofs # <<>> \/ mcMessages # {} \/ registry.messages # {} \/ registry.pending # {}

\* The block with the proofs ps, and their rewards.
Seal(ps) ==
  /\ mcBlocks' = Append(mcBlocks, [height |-> registry'.height, anchors |-> mcAnchors, proofs |-> ps, messages |-> mcMessages,
                                   queue |-> registry'.pending \cup ({e.request : e \in registry'.events} \ registry'.proven)])
  /\ \E paid \in {FoldLeft(Credited, [treasury |-> mcTreasury, credits |-> mcCredits], ps)} :
       mcTreasury' = paid.treasury /\ mcCredits' = paid.credits
  /\ mcDirty' = FALSE
  /\ mcView' = mcView + 1

\* is_my_turn
IsMyTurn == mcView % NMc = McSelf

\* try_produce_round with seal_round.  The pending proofs and messages are taken before they are looked at, and the
\* height is used up, also when the round fails; the view moves on only when it does not.
SealRound ==
  /\ IsMyTurn
  /\ mcAnchors # Empty
  /\ WorkPending
  /\ registry.height < MaxHeight
  /\ registry' = Flushed([registry EXCEPT !.height = @ + 1])
  /\ \E flushed \in {FlushedDigests} : \E fault \in {RoundFault(flushed.proofs, mcVerified)} :
       LET ps == flushed.proofs
       IN /\ mcDigests' = flushed.digests /\ mcProofs' = <<>> /\ mcMessages' = {}
          /\ mcVerified' = IF fault.reason \in {"none", "missing verified", "aggregator"}
                           THEN {s \in mcVerified : ~\E i \in DOMAIN ps : SameRange(s, ps[i]) /\ s.digest = ps[i].digest}
                           ELSE mcVerified
          /\ IF fault.reason = "none" THEN Seal(ps) /\ UNCHANGED <<mcSlashes, mcProvers>>
             ELSE Record(AllSlashed(registry'.height, fault.culprits, fault.reason)) /\ UNCHANGED <<mcBlocks, mcTreasury, mcCredits, mcDirty, mcView>>
  /\ UNCHANGED <<updates, accepted, mcAnchors, mcBonded, mcCalls>>

\* ingest_timeout of the last timeout of a certificate; who signs timeouts is outside the crate
IngestMcTimeout ==
  /\ mcCalls < MaxMcCalls /\ mcCalls' = mcCalls + 1
  /\ mcView' = mcView + 1
  /\ UNCHANGED <<zoneVars, ledgerStateVars>>

McNext ==
  \/ \E p \in Provers, n \in Bonds : RegisterProver(p, n) \/ TopUp(p, n)
  \/ \E p \in Submissions : SubmitProof(p)
  \/ \E s \in Statements, v \in BOOLEAN : RecordStatement(s, v)
  \/ \E s \in Shards, h \in 1..MaxAnchor, r \in Roots : IngestAnchor(s, h, r)
  \/ \E m \in ShardMessages : SubmitShardMessage(m)
  \/ ZoneCall
  \/ SealRound
  \/ IngestMcTimeout

\* masterchain_bft_producer_loop tries a round every block time; it is one only in a view of
\* this validator's own.  Nothing makes the view move on when it is another's.
McSpec == McInit /\ [][McNext]_mcVars /\ WF_mcVars(SealRound)
-----------------------------------------------------------------------------
\* Every unit of bond ever put up is still bonded or was burned by a slash event,
\* in whatever order provers register, top up and are slashed.
BondsAccounted ==
  mcBonded = SumOver(DOMAIN mcProvers, LAMBDA p : mcProvers[p].bond) + SumSeq(mcSlashes, LAMBDA e : e.burned)

\* The treasury pays the credits and nothing else, also when it runs short.
TreasuryAccounted == mcTreasury + SumOver(DOMAIN mcCredits, LAMBDA p : mcCredits[p]) = Treasury

\* A sealed proof lies within the anchor that its own block has for its shard,
\* also when it was submitted before the shard had one; and no block has two
\* proofs of one range.
SealedWithinAnchor ==
  \A i \in DOMAIN mcBlocks : LET b == mcBlocks[i] IN
    /\ \A j \in DOMAIN b.proofs : LET p == b.proofs[j] IN
         p.shard \in DOMAIN b.anchors /\ p.start <= p.end /\ p.end <= b.anchors[p.shard].height
    /\ \A j, k \in DOMAIN b.proofs : j # k => ~SameRange(b.proofs[j], b.proofs[k])

\* From block to block heights grow and no shard's anchor goes back, although
\* failed rounds use up heights.
BlocksAdvance ==
  \A i, j \in DOMAIN mcBlocks : i < j =>
    /\ mcBlocks[i].height < mcBlocks[j].height
    /\ \A s \in DOMAIN mcBlocks[i].anchors :
         s \in DOMAIN mcBlocks[j].anchors /\ mcBlocks[i].anchors[s].height <= mcBlocks[j].anchors[s].height

\* Where the validator is the only one (devnet_singleton), so that every view is its own, a
\* forced request on a masterchain that has an anchor leaves the queue in the end, whatever
\* rounds fail.  With others it need not: the code signs no timeouts, so a view of a validator
\* that is silent or has nothing to seal lasts for good.
ForcedIsFlushed == \A t \in Txs :
  (mcAnchors # Empty /\ \E r \in registry.pending : r.zone = t.zone /\ r.tx = t.tx)
    ~> ~\E r \in registry.pending : r.zone = t.zone /\ r.tx = t.tx

\* One bad proof is slashed once: "duplicate evidence is ignored so the same bad
\* proof cannot double-slash".
SlashedOnce ==
  \A i, j \in DOMAIN mcSlashes :
    mcSlashes[i].evidence.sub = mcSlashes[j].evidence.sub
      /\ mcSlashes[i].evidence.reason = mcSlashes[j].evidence.reason => i = j

\* The masterchain's ledger (masterchain/src/ledger.rs): through slashes,
\* rewards and failing rounds bonds and treasury account for every unit, what
\* is sealed lies within the anchor of its round, and rounds only advance.
MasterchainSafe ==
  /\ BondsAccounted /\ TreasuryAccounted /\ SealedWithinAnchor
  /\ BlocksAdvance

-----------------------------------------------------------------------------
(***************************************************************************)
(* The validators.  The proposer of a validator's own view seals a round   *)
(* of its own ledger, votes for it and gossips block and vote together;    *)
(* the others vote for what they hear without looking into it, also when   *)
(* the vote that came with it does not verify.  A validator moves to the   *)
(* next view when it has sealed or when it holds a quorum of timeouts.     *)
(* Gossip can be lost, duplicated and reordered, the publisher keeps one   *)
(* message while it has no peer, and a validator that restarts begins at   *)
(* view 0 and height 0 with empty pools (devnet_from_env).                 *)
(*                                                                         *)
(* A block is its height and the content of the ledger it was sealed from; *)
(* the ledgers of two validators may hold the same or not.                 *)
(***************************************************************************)
CONSTANTS
  NBft,          \* validators are 0 .. NBft - 1
  Contents,      \* what a ledger may hold when it seals
  MaxView,       \* bound: view
  MaxBftHeight,  \* bound: height
  MaxGossip,     \* bound: messages on the vote topic
  MaxBftEvents   \* bound: these, timeouts, and twice the votes that do not verify and the restarts

Members == 0..(NBft - 1)

ASSUME BftAssumption == NBft \in Nat \ {0} /\ MaxBftHeight \in Nat

\* quorum_threshold
BftQuorum == 2 * ((NBft - 1) \div 3) + 1

VARIABLES
  bftView, bftHeight,   \* view and ledger.masterchain_height of every validator
  votePool,             \* vote_pool: [view, block, voter] records
  mcTimeouts,           \* timeouts gossiped: [view, voter] records
  lastQc,               \* last_formed_qc, <<>> for none
  outbox,               \* pending_vote of the gossip task, <<>> for none
  gossip,               \* messages on the vote topic
  sealed,               \* history: [view, block, by] of every round sealed
  strays,               \* history: [view, block] heard with a vote that does not verify
  restarted,            \* history: the validators that restarted
  topView               \* history: the highest view of every validator

bftVars == <<bftView, bftHeight, votePool, mcTimeouts, lastQc, outbox, gossip, sealed, strays, restarted, topView>>

BftInit ==
  /\ bftView = [n \in Members |-> 0] /\ bftHeight = [n \in Members |-> 0]
  /\ votePool = [n \in Members |-> {}] /\ mcTimeouts = {}
  /\ lastQc = [n \in Members |-> <<>>] /\ outbox = [n \in Members |-> <<>>]
  /\ gossip = {} /\ sealed = {} /\ strays = {} /\ restarted = {} /\ topView = [n \in Members |-> 0]

\* is_proposer_for_view
IsProposer(n, view) == view % NBft = n

VotesFor(pool, view, block) == {v \in pool : v.view = view /\ v.block = block}

\* record_masterchain_vote_message: the certificate that the pool now forms.
QcOf(pool, view, block) ==
  IF Cardinality(VotesFor(pool, view, block)) >= BftQuorum
  THEN <<[view |-> view, block |-> block, signers |-> {v.voter : v \in VotesFor(pool, view, block)}]>>
  ELSE <<>>

\* prune_below_height: the votes of lower blocks go.
Pruned(pool, h) == {v \in pool : v.block.height >= h}

\* try_produce_round, with what the ledger holds by then
TryProduceRound(n, content) ==
  LET view == bftView[n]
      block == [height |-> bftHeight[n] + 1, content |-> content]
      vote == [view |-> view, block |-> block, voter |-> n]
      pool == votePool[n] \cup {vote}
      qc == QcOf(pool, view, block)
  IN /\ view < MaxView /\ bftHeight[n] < MaxBftHeight
     /\ IsProposer(n, view)
     /\ bftHeight' = [bftHeight EXCEPT ![n] = @ + 1]
     /\ votePool' = [votePool EXCEPT ![n] = IF qc = <<>> THEN pool ELSE Pruned(pool, block.height - 1)]
     /\ lastQc' = IF qc = <<>> THEN lastQc ELSE [lastQc EXCEPT ![n] = qc]
     /\ outbox' = [outbox EXCEPT ![n] = <<vote>>]
     /\ bftView' = [bftView EXCEPT ![n] = view + 1]
     /\ topView' = [topView EXCEPT ![n] = Max({@, view + 1})]
     /\ sealed' = sealed \cup {[view |-> view, block |-> block, by |-> n]}
     /\ UNCHANGED <<mcTimeouts, gossip, strays, restarted>>

\* try_produce_round when seal_round fails: the height is used up, the view is not.
FailRound(n) ==
  /\ bftView[n] < MaxView /\ bftHeight[n] < MaxBftHeight
  /\ IsProposer(n, bftView[n])
  /\ bftHeight' = [bftHeight EXCEPT ![n] = @ + 1]
  /\ UNCHANGED <<bftView, votePool, mcTimeouts, lastQc, outbox, gossip, sealed, strays, restarted, topView>>

\* try_flush_publish, once the topic has a peer
Flush(n) ==
  /\ outbox[n] # <<>>
  /\ gossip' = gossip \cup {outbox[n][1]}
  /\ outbox' = [outbox EXCEPT ![n] = <<>>]
  /\ UNCHANGED <<bftView, bftHeight, votePool, mcTimeouts, lastQc, sealed, strays, restarted, topView>>

\* ingest_vote_gossip of the message m, whose vote left this pool and certificate.
\* A validator that hears a block for the first time votes for it in the view of
\* the message; the certificate its own vote completes is formed and dropped.
Hear(n, m, pool, qc) ==
  LET first == ~\E v \in VotesFor(votePool[n], m.view, m.block) : v.voter = n
      own == [m EXCEPT !.voter = n]
      answers == first /\ m.voter # n /\ m.block.height >= bftHeight[n]
  IN /\ votePool' = [votePool EXCEPT ![n] = IF answers THEN pool \cup {own} ELSE pool]
     /\ lastQc' = IF qc = <<>> THEN lastQc ELSE [lastQc EXCEPT ![n] = qc]
     /\ outbox' = IF answers THEN [outbox EXCEPT ![n] = <<own>>] ELSE outbox
     /\ UNCHANGED <<bftView, bftHeight, mcTimeouts, gossip, sealed, restarted, topView>>

IngestVoteGossip(n, m) ==
  /\ Hear(n, m, votePool[n] \cup {m}, QcOf(votePool[n] \cup {m}, m.view, m.block))
  /\ UNCHANGED strays

\* ingest_vote_gossip of a vote that is not recorded: its signature fails, or it is not of the
\* block it comes with, when no certificate is tried either.  The validator answers it all the same.
IngestStray(n, m, fits) ==
  /\ strays' = strays \cup {[view |-> m.view, block |-> m.block]}
  /\ Hear(n, m, votePool[n], IF fits THEN QcOf(votePool[n], m.view, m.block) ELSE <<>>)

\* devnet_from_env: nothing of the validator is on disk.
RestartValidator(n) ==
  /\ restarted' = restarted \cup {n}
  /\ bftView' = [bftView EXCEPT ![n] = 0] /\ bftHeight' = [bftHeight EXCEPT ![n] = 0]
  /\ votePool' = [votePool EXCEPT ![n] = {}] /\ lastQc' = [lastQc EXCEPT ![n] = <<>>]
  /\ outbox' = [outbox EXCEPT ![n] = <<>>]
  /\ UNCHANGED <<mcTimeouts, gossip, sealed, strays, topView>>

\* Seeded defect: one timeout short of a quorum moves the view.
EnoughTimeoutsLess(S) == Cardinality(S) + 1 >= BftQuorum

EnoughTimeouts(S) == Cardinality(S) >= BftQuorum

\* sign_timeout for the validator's own view; its caller is outside the crate, and
\* the certificates that timeouts carry are left out
SignMcTimeout(n) ==
  /\ bftView[n] < MaxView
  /\ mcTimeouts' = mcTimeouts \cup {[view |-> bftView[n], voter |-> n]}
  /\ UNCHANGED <<bftView, bftHeight, votePool, lastQc, outbox, gossip, sealed, strays, restarted, topView>>

\* ingest_timeout of the timeout that completes a certificate in n's pool; the
\* ones before it only wait there.
IngestTimeout(n, view) ==
  /\ EnoughTimeouts({t \in mcTimeouts : t.view = view})
  /\ bftView' = [bftView EXCEPT ![n] = Max({@, view + 1})]
  /\ topView' = [topView EXCEPT ![n] = Max({@, bftView'[n]})]
  /\ UNCHANGED <<bftHeight, votePool, mcTimeouts, lastQc, outbox, gossip, sealed, strays, restarted>>

\* What a message on the vote topic can say; two senders are enough to have one that is not
\* the validator itself, and one that is.
VoteMessages == [view : 0..(MaxView - 1), block : [height : 1..MaxBftHeight, content : Contents], voter : {0, NBft - 1}]

BftNext ==
  \E n \in Members :
    \/ \E c \in Contents : TryProduceRound(n, c)
    \/ FailRound(n)
    \/ Flush(n)
    \/ \E m \in gossip : IngestVoteGossip(n, m)
    \/ \E m \in VoteMessages, fits \in BOOLEAN : IngestStray(n, m, fits)
    \/ RestartValidator(n)
    \/ SignMcTimeout(n)
    \/ \E view \in 0..(MaxView - 1) : IngestTimeout(n, view)

BftBound ==
  /\ Cardinality(gossip) <= MaxGossip
  /\ Cardinality(gossip) + Cardinality(mcTimeouts) + 2 * Cardinality(strays) + 2 * Cardinality(restarted) <= MaxBftEvents

BftSpec == BftInit /\ [][BftNext]_bftVars
-----------------------------------------------------------------------------
\* What can give view v a second block: its proposer restarted, or validators
\* heard of a block with a vote that does not verify, and answered it.
Forkable(v) == (v % NBft) \in restarted \/ \E s \in strays : s.view = v

\* A certified block was sealed by the proposer of its view or came with a vote that
\* does not verify, for which the code has validators vote too; and whatever timeouts, gossip, failed
\* rounds and failed publications there are, two blocks are sealed in a view only if its proposer
\* restarted, and two certified only then or after such a vote.
OneBlockPerView ==
  /\ \A n \in Members : lastQc[n] # <<>> =>
       \/ \E s \in sealed : s.view = lastQc[n][1].view /\ s.block = lastQc[n][1].block
       \/ [view |-> lastQc[n][1].view, block |-> lastQc[n][1].block] \in strays
  /\ \A a, b \in sealed : a.view = b.view /\ a # b => a.by \in restarted
  /\ \A n, m \in Members : lastQc[n] # <<>> /\ lastQc[m] # <<>> /\ lastQc[n][1].view = lastQc[m][1].view
       => lastQc[n][1].block = lastQc[m][1].block \/ Forkable(lastQc[n][1].view)

\* A validator leaves a view only after sealing in it, or when a quorum has
\* reached that view: nobody runs ahead of the others on timeouts of his own.
ViewsBacked ==
  \A n \in Members : bftView[n] > 0 =>
    \/ \E s \in sealed : s.view = bftView[n] - 1 /\ s.by = n
    \/ Cardinality({m \in Members : topView[m] >= bftView[n] - 1}) >= BftQuorum
=============================================================================
