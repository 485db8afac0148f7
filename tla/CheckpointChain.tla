--------------------------- MODULE CheckpointChain ---------------------------
(***************************************************************************)
(* From blocks to a head that a light client trusts: the trace of a range  *)
(* of blocks and its STWO proof (crates/proof-condenser), the statement    *)
(* that the masterchain aggregates with Plonky2 (crates/proof-aggregator)  *)
(* and the client that fetches and verifies a head (crates/light-client).  *)
(*                                                                         *)
(* A hash is the value that is hashed.  STWO and Plonky2 are external: a   *)
(* proof verifies exactly for the public inputs it was made for.  The      *)
(* server that answers a light client is external too, and may put parts   *)
(* of different rounds together.                                           *)
(***************************************************************************)
EXTENDS Values, SequencesExt, TLC

CONSTANTS
  Forks,        \* chains: sequences of blocks with a common beginning
  Copies,       \* blocks as a node may hold them, some with another body
  MaxCheckpointRange,     \* bound: blocks in a range
  MaxJobs,      \* bound: jobs sent to the condenser
  JobQueue,     \* capacity of the condenser's channel
  RoundAnchors, \* anchors that a round may be sealed with: shard to height and root
  RoundProofs,  \* sequences of submissions of a round
  AggLimit,     \* MAX_AGG_PROOFS
  MaxRounds     \* bound: sealed rounds

ASSUME CheckpointAssumption == MaxCheckpointRange \in Nat /\ MaxJobs \in Nat /\ JobQueue \in Nat /\ AggLimit \in Nat /\ MaxRounds \in Nat

VARIABLES
  jobsSent,    \* jobs in the order they were sent
  jobsTaken,   \* how many of them the condenser took from its channel
  condensing,  \* the job under way: <<>> or the record and the step it is at
  proofRecords,\* the registry: height to its record
  digestSink,  \* (job, digest) in the order the masterchain gets them
  sealedRounds,\* the rounds that the masterchain sealed
  clientHead   \* what the light client got last and whether it verified

checkpointVars == <<jobsSent, jobsTaken, condensing, proofRecords, digestSink, sealedRounds, clientHead>>

---------------------------------------------------------------------------
(* riscv_trace_from_blocks *)
BlockHash(b) == <<b.height, b.parent, b.txRoot>>

\* expected_height and previous_header_hash
Follows(b, next) == next.height = b.height + 1 /\ next.parent = BlockHash(b)

\* A block as execute_and_build_block makes it, or a copy of one.
IsBlock(b) == b = [height |-> b.height, parent |-> b.parent, txs |-> b.txs, txRoot |-> b.txRoot]

\* The forks are chains of whole blocks, the first of which has no parent
\* among them; a copy has the header of one of their blocks, its body may be
\* another one.
ASSUME ChainAssumption ==
  /\ \A c \in Forks :
       /\ c \in Seq(ToSet(c))
       /\ \A i \in DOMAIN c : IsBlock(c[i]) /\ c[i].txRoot = c[i].txs
       /\ \A i \in 1 .. (Len(c) - 1) : Follows(c[i], c[i + 1])
       /\ \A b \in Copies : c[1].parent # BlockHash(b)
  /\ \A b \in Copies : IsBlock(b) /\ \E c \in Forks : \E i \in DOMAIN c : BlockHash(c[i]) = BlockHash(b)

\* The checks of the loop; ordered_tx_root is the transactions.
RangeAccepted(blocks) ==
  /\ blocks # <<>>
  /\ \A i \in DOMAIN blocks : blocks[i].txRoot = blocks[i].txs
  /\ \A i \in 1 .. (Len(blocks) - 1) : Follows(blocks[i], blocks[i + 1])

\* The rows of the trace: every accumulator hashes the one before it.
BlockSteps(b) ==
  <<<<"begin", b.height, BlockHash(b)>>>>
  \o [i \in DOMAIN b.txs |-> <<"apply", b.height, <<i, b.txs[i]>>>>]
  \o <<<<"end", b.height, <<Len(b.txs)>>>>>>
TraceSteps(blocks) == FlattenSeq([i \in DOMAIN blocks |-> BlockSteps(blocks[i])])

\* checkpoint_job_from_block_range_and_trace
CheckpointJob(blocks) ==
  [start |-> blocks[1].height, end |-> Last(blocks).height, header |-> BlockHash(Last(blocks)),
   parent |-> blocks[1].parent, trace |-> TraceSteps(blocks)]

\* stwo_commitment_stub hashes one row made from the job: trace_from_checkpoint_job.
StubDigest(job) == [kind |-> "stub", job |-> job]
NoDigest == [kind |-> "zero", job |-> <<>>]

\* prove_checkpoint_stwo: the job's bytes are mixed into the channel.
StarkProof(job) == [kind |-> "stark", job |-> job]

\* verify_checkpoint_stwo_proof_json with the public inputs of a job.
StarkVerifies(proof, job) == proof.kind = "stark" /\ proof.job = job

\* build_persisted_checkpoint_proof: a failed proof leaves a stub's digest.
RecordFor(job, proved) ==
  [start |-> job.start, end |-> job.end, header |-> job.header, stub |-> ~proved,
   digest |-> IF proved THEN StarkProof(job) ELSE StubDigest(job)]

---------------------------------------------------------------------------
(* Artifacts and submissions *)

\* CheckpointStwoArtifactV1::verify
ArtifactVerifies(artifact, digest) == artifact.proof = digest /\ StarkVerifies(artifact.proof, artifact.job)

\* verify_stwo_artifact_submission, <<>> for its errors: the shard is the
\* submission's, the artifact does not name one.
VerifiedStatement(sub, artifact) ==
  IF artifact.job.start = sub.start /\ artifact.job.end = sub.end /\ ArtifactVerifies(artifact, sub.digest)
  THEN <<[shard |-> sub.shard, start |-> sub.start, end |-> sub.end, header |-> artifact.job.header,
          parent |-> artifact.job.parent, digest |-> sub.digest]>>
  ELSE <<>>

\* matches_submission, ensure_verified_statements_match
StatementMatches(s, sub) == s.shard = sub.shard /\ s.start = sub.start /\ s.end = sub.end /\ s.digest = sub.digest
AllMatched(subs, verified) ==
  Len(subs) = Len(verified) /\ \A i \in DOMAIN subs : \E j \in DOMAIN verified : StatementMatches(verified[j], subs[i])

---------------------------------------------------------------------------
(* The global statement *)

\* sort_by (shard, start, end)
SubmissionBefore(a, b) ==
  \/ a.shard < b.shard
  \/ (a.shard = b.shard /\ a.start < b.start)
  \/ (a.shard = b.shard /\ a.start = b.start /\ a.end < b.end)
SortedSubmissions(subs) == SortSeq(subs, SubmissionBefore)

\* encode_statement_u64: sorted, counted, cut at the limit.
EncodeStatement(height, root, subs) ==
  LET sorted == SortedSubmissions(subs)
      row(p) == <<p.shard, p.start, p.end, p.digest>>
  IN <<height, root, Len(subs)>> \o [i \in 1 .. Min({Len(subs), AggLimit}) |-> row(sorted[i])]

\* encode_verified_statement_u64: each submission with the first statement that matches it.
EncodeVerified(height, root, subs, verified) ==
  LET sorted == SortedSubmissions(subs)
      first(p) == verified[Min({j \in DOMAIN verified : StatementMatches(verified[j], p)})]
  IN <<height, root, Len(subs)>>
     \o [i \in 1 .. Min({Len(subs), AggLimit}) |-> <<sorted[i].digest, sorted[i].shard, first(sorted[i])>>]

\* poseidon_statement_digest or its verified form, hash_out_to_global_zk_root.
StatementDigest(height, root, subs, verified) ==
  IF verified = <<>> THEN <<"plain", EncodeStatement(height, root, subs)>>
  ELSE <<"verified", EncodeVerified(height, root, subs, verified)>>
ZeroRoot == <<"zero">>

\* prove_global_aggregation: the public input of the proof is the digest.
AggregateProof(height, root, subs, verified) == [public |-> StatementDigest(height, root, subs, verified)]

\* verify_global_aggregation_snark
SnarkVerifies(snark, height, root, subs, verified) ==
  subs # <<>> /\ snark.public = StatementDigest(height, root, subs, verified)

\* verify_global_zk_root and its verified form, with a proof or (<<>>) without.
ZkRootVerifies(height, root, subs, verified, expected, snarks) ==
  IF subs = <<>> THEN expected = ZeroRoot
  ELSE /\ verified # <<>> => AllMatched(subs, verified)
       /\ snarks # <<>> => SnarkVerifies(snarks[1], height, root, subs, verified)
       /\ expected = StatementDigest(height, root, subs, verified)

\* global_state_root_from_anchors: sorted by shard; the witness commitment is not in it.
GlobalRoot(anchors) == [s \in DOMAIN anchors |-> <<anchors[s].height, anchors[s].root>>]

\* dedupe_submissions and validate_proof_submission
SubmissionsValid(subs, anchors) ==
  /\ \A i, j \in DOMAIN subs :
       i # j => <<subs[i].shard, subs[i].start, subs[i].end>> # <<subs[j].shard, subs[j].start, subs[j].end>>
  /\ \A i \in DOMAIN subs :
       /\ subs[i].digest # NoDigest /\ subs[i].start <= subs[i].end
       /\ subs[i].shard \in DOMAIN anchors /\ subs[i].end <= anchors[subs[i].shard].height

\* seal_round's bundle: there is one when there are proofs.
SealedRound(height, anchors, subs, verified) ==
  LET root == GlobalRoot(anchors)
      zk == IF subs = <<>> THEN ZeroRoot ELSE StatementDigest(height, root, subs, verified)
  IN [height |-> height, anchors |-> anchors, proofs |-> subs, root |-> root, zk |-> zk,
      bundle |-> IF subs = <<>> THEN <<>>
                 ELSE <<[height |-> height, root |-> root, zk |-> zk, proofs |-> subs, verified |-> verified,
                         snark |-> AggregateProof(height, root, subs, verified)]>>]

---------------------------------------------------------------------------
(* The light client *)

\* parse_light_client_head_json: a bundle is optional, its verified statements
\* are not read.
ParsedHead(json) == [json EXCEPT !.bundle = [i \in DOMAIN json.bundle |-> [json.bundle[i] EXCEPT !.verified = <<>>]]]

\* Plonky2ProofBundleV1::verify
BundleVerifies(b) == ZkRootVerifies(b.height, b.root, b.proofs, b.verified, b.zk, <<b.snark>>)

\* Seeded defect: the bundle is verified by itself.
BundleOfBlockAlone(block, b) == BundleVerifies(b)

\* The bundle is about the block.
BundleOfBlock(block, b) ==
  b.height = block.height /\ b.root = block.root /\ b.zk = block.zk /\ b.proofs = block.proofs /\ BundleVerifies(b)

\* verify_masterchain_block
HeadVerifies(block) ==
  /\ GlobalRoot(block.anchors) = block.root
  /\ SubmissionsValid(block.proofs, block.anchors)
  /\ IF block.bundle # <<>> THEN BundleOfBlock(block, block.bundle[1])
     ELSE block.proofs = <<>> /\ ZkRootVerifies(block.height, block.root, <<>>, <<>>, block.zk, <<>>)

NoHead == [verified |-> FALSE, head |-> <<>>]

---------------------------------------------------------------------------
CheckpointInit ==
  /\ jobsSent = <<>> /\ jobsTaken = 0 /\ condensing = <<>> /\ proofRecords = Empty /\ digestSink = <<>>
  /\ sealedRounds = <<>> /\ clientHead = NoHead

ClientUnchanged == UNCHANGED <<sealedRounds, clientHead>>

\* checkpoint_job_from_block_range on blocks that a node holds; the job goes to
\* the condenser if there is room in its channel.  The condenser and the light
\* client share no state, so a behaviour uses one of them.
SendJob(blocks) ==
  /\ sealedRounds = <<>> /\ Len(jobsSent) < MaxJobs /\ Len(jobsSent) - jobsTaken < JobQueue
  /\ RangeAccepted(blocks)
  /\ jobsSent' = Append(jobsSent, [job |-> CheckpointJob(blocks), blocks |-> blocks])
  /\ UNCHANGED <<jobsTaken, condensing, proofRecords, digestSink>> /\ ClientUnchanged

\* rx.recv: one job at a time; the proof is made, or fails.
TakeJob(proved) ==
  /\ condensing = <<>> /\ jobsTaken < Len(jobsSent)
  /\ jobsTaken' = jobsTaken + 1
  /\ condensing' = <<[job |-> jobsSent[jobsTaken + 1].job, step |-> "record",
                      rec |-> RecordFor(jobsSent[jobsTaken + 1].job, proved)]>>
  /\ UNCHANGED <<jobsSent, proofRecords, digestSink>> /\ ClientUnchanged

\* registry.record, by the height of the last block
RecordProof ==
  /\ condensing # <<>> /\ condensing[1].step = "record"
  /\ proofRecords' = Put(proofRecords, condensing[1].job.end, condensing[1].rec)
  /\ condensing' = <<[condensing[1] EXCEPT !.step = "send"]>>
  /\ UNCHANGED <<jobsSent, jobsTaken, digestSink>> /\ ClientUnchanged

\* The blocking task panicked, before or after it recorded: a zero digest is sent.
JoinFails ==
  /\ condensing # <<>> /\ condensing[1].rec.digest # NoDigest
  /\ condensing' = <<[job |-> condensing[1].job, step |-> "send",
                      rec |-> [condensing[1].rec EXCEPT !.digest = NoDigest]]>>
  /\ UNCHANGED <<jobsSent, jobsTaken, proofRecords, digestSink>> /\ ClientUnchanged

\* tier1_digest_sink.send, then the loop waits for the next job
SendDigest ==
  /\ condensing # <<>> /\ condensing[1].step = "send"
  /\ digestSink' = Append(digestSink, [job |-> condensing[1].job, digest |-> condensing[1].rec.digest])
  /\ condensing' = <<>>
  /\ UNCHANGED <<jobsSent, jobsTaken, proofRecords>> /\ ClientUnchanged

CondenserUnchanged == UNCHANGED <<jobsSent, jobsTaken, condensing, proofRecords, digestSink>>

\* prove_and_aggregate: a round with proofs that the masterchain accepted, of
\* which it verified all artifacts or none.
SealProofs(anchors, subs, verified) ==
  /\ jobsSent = <<>> /\ Len(sealedRounds) < MaxRounds
  /\ SubmissionsValid(subs, anchors) /\ Len(subs) <= AggLimit
  /\ verified # <<>> => AllMatched(subs, verified)
  /\ sealedRounds' = Append(sealedRounds, SealedRound(Len(sealedRounds) + 1, anchors, subs, verified))
  /\ UNCHANGED clientHead /\ CondenserUnchanged

\* fetch_and_verify_light_client_head: the parts of the answer are those of
\* sealed rounds, not always of one.
FetchHead(a, b, c, d, e) ==
  /\ LET r == sealedRounds
         head == ParsedHead([height |-> r[a].height, anchors |-> r[b].anchors, root |-> r[b].root, proofs |-> r[c].proofs,
                             zk |-> r[d].zk, bundle |-> r[e].bundle])
     IN clientHead' = [verified |-> HeadVerifies(head), head |-> <<head>>]
  /\ UNCHANGED sealedRounds /\ CondenserUnchanged

CheckpointNext ==
  \/ \E n \in 1 .. MaxCheckpointRange : \E blocks \in [1 .. n -> Copies] : SendJob(blocks)
  \/ \E proved \in BOOLEAN : TakeJob(proved)
  \/ RecordProof \/ JoinFails \/ SendDigest
  \/ \E anchors \in RoundAnchors, r \in RoundProofs : SealProofs(anchors, r.subs, r.verified)
  \/ \E a, b, c, d, e \in DOMAIN sealedRounds : FetchHead(a, b, c, d, e)

CheckpointSpec == CheckpointInit /\ [][CheckpointNext]_checkpointVars

---------------------------------------------------------------------------
(* Properties *)

\* A range that becomes a job is a segment of one chain, whatever blocks of
\* different forks and exchanged bodies a node holds.
RangeIsOneChain ==
  \A i \in DOMAIN jobsSent :
    \E c \in Forks : \E a \in 1 .. Len(c) : \E b \in a .. Len(c) : jobsSent[i].blocks = SubSeq(c, a, b)

\* The masterchain gets the digests in the order of the jobs, one for each, and
\* a digest that it gets can be looked up: the record of its height is of that
\* job or of a later one.
SinkIsRecorded ==
  /\ Len(digestSink) <= jobsTaken
  /\ \A i \in DOMAIN digestSink :
       /\ digestSink[i].job = jobsSent[i].job
       /\ digestSink[i].digest # NoDigest =>
            /\ digestSink[i].job.end \in DOMAIN proofRecords
            /\ \/ proofRecords[digestSink[i].job.end].digest = digestSink[i].digest
               \/ \E j \in (i + 1) .. jobsTaken : jobsSent[j].job.end = digestSink[i].job.end

\* A statement that the masterchain takes as verified is about the blocks that
\* the proof of its digest is about, however submissions and artifacts are paired.
StatementsProved ==
  \A i, j, k \in DOMAIN jobsSent :
    LET sub == [shard |-> 0, start |-> jobsSent[i].job.start, end |-> jobsSent[i].job.end, digest |-> StarkProof(jobsSent[i].job)]
        artifact == [job |-> jobsSent[j].job, proof |-> StarkProof(jobsSent[k].job)]
        s == VerifiedStatement(sub, artifact)
    IN s # <<>> => s[1].digest.job.header = s[1].header /\ s[1].digest.job.parent = s[1].parent

\* A verified head with proofs is the round that its root stands for: anchors,
\* proofs and height of other rounds do not pass with it.
HeadIsOneRound ==
  clientHead.verified /\ clientHead.head[1].zk # ZeroRoot =>
    \E i \in DOMAIN sealedRounds :
      LET r == sealedRounds[i]
          h == clientHead.head[1]
      IN r.zk = h.zk /\ r.height = h.height /\ GlobalRoot(r.anchors) = GlobalRoot(h.anchors) /\ r.proofs = h.proofs

\* The head of a sealed round verifies as the client gets it, with and without
\* proofs; rounds sealed with verified statements are left aside.
HonestHeadVerifies ==
  \A i \in DOMAIN sealedRounds :
    sealedRounds[i].bundle = <<>> \/ sealedRounds[i].bundle[1].verified = <<>> =>
      HeadVerifies(ParsedHead(sealedRounds[i]))

\* The head of every sealed round verifies.
EveryHeadVerifies == \A i \in DOMAIN sealedRounds : HeadVerifies(ParsedHead(sealedRounds[i]))

\* Checkpoints (proof-condenser, proof-aggregator, light-client): a proved
\* range is one chain, what reached the sink is on record, a sealed statement
\* was proved, and a client accepts the honest heads and only those of one
\* round.
CheckpointSafe ==
  /\ RangeIsOneChain /\ SinkIsRecorded /\ StatementsProved /\ HeadIsOneRound
  /\ HonestHeadVerifies

=============================================================================
