---------------------------- MODULE BlockProofs ----------------------------
(***************************************************************************)
(* Validity proofs of blocks: the witness that a prover derives from a     *)
(* block, the statements and envelopes made of it, the node's check of a   *)
(* submitted proof, and the record of proof finality in memory and in the  *)
(* store; beside them the pool of proof updates and the payload that a     *)
(* block commits to.                                                       *)
(*                                                                         *)
(* A state is two counters, what the native and the EVM transactions have  *)
(* changed; a root, hash or digest is the value it is taken of, so digests *)
(* bind what they cover and nothing else.  A transaction is one of the     *)
(* kinds that the circuits tell apart.  Two blocks of a height are the     *)
(* sides of a fork: the node replaces one by the other when it syncs.      *)
(*                                                                         *)
(* What the node accepts as a proof is a set of digests (the fixtures), a  *)
(* proof for verifier data that the prover itself supplies (Plonky2) or a  *)
(* digest (DevDigest): anyone can make one for any block, with or without  *)
(* executing it.  Only metadata recorded for the block narrows this to     *)
(* envelopes that name the recorded witness.                               *)
(***************************************************************************)
EXTENDS Values

CONSTANTS
  Bodies,          \* the transaction lists that blocks carry: sequences of kinds
  EmissionHeights, \* heights whose block mints protocol emission
  NativeEnabled,   \* chain_config.native_transition_proofs_enabled
  DevDigest,       \* whether the build and the runtime allow DevDigest proofs
  Required,        \* chain_config.proofs_required_for_settlement: a set of features
  MaxBlockHeight,  \* bound: chain height
  ProofUpdates,    \* updates offered to the pool: [zone, height, root, fee]
  DrainLimit,      \* how many updates a block takes
  MaxProofSteps    \* bound: submissions to the node and to the pool

ASSUME ProofsAssumption ==
  /\ DrainLimit \in Nat \ {0} /\ MaxBlockHeight \in Nat
  /\ \A u \in ProofUpdates : u.zone \in Nat /\ u.height \in Nat /\ u.fee \in Nat

VARIABLES
  chain,       \* blocks held by the node, a sequence
  orphans,     \* blocks that a reorganisation removed
  damaged,     \* blocks of the chain whose sidecar no longer matches the header
  metadata,    \* witness_metadata: block -> witness digest
  finalized,   \* proof_finalized_blocks: block -> proof
  zoneFinal,   \* zone_proof_finality: height -> block
  latest,      \* latest_proof_final_height_by_zone: -1 when there is none
  store,       \* the records of the ProofFinalityStore: block -> proof
  unwritten,   \* history: blocks whose record the store failed to write
  metrics,     \* proof_metrics, without its latencies
  pool,        \* ProofPool.pending: key -> update
  conflicts,   \* ProofPool.conflicts: pairs of updates
  included,    \* history: the updates taken into blocks, in order
  steps

chainPart == <<chain, orphans, damaged>>
finalPart == <<metadata, finalized, zoneFinal, latest, store, unwritten, metrics>>
poolPart == <<pool, conflicts, included>>
proofVars == <<chainPart, finalPart, poolPart, steps>>
-----------------------------------------------------------------------------
\* tx_feature_set, by kind: "owned" and "shared" are native, "dispatch" is an EVM call
\* of a native precompile, "paid" one with a value, "odd" one of another 0xfc address.
TxFeatures(kind) ==
  CASE kind = "owned" -> {"native"}
    [] kind = "shared" -> {"native", "shared"}
    [] kind = "transfer" -> {"transfer"}
    [] kind = "create" -> {"create"}
    [] kind = "dispatch" -> {"call", "precompile", "native"}
    [] OTHER -> {"call"}

\* block_feature_set
Features(txs) == UNION {TxFeatures(txs[i]) : i \in DOMAIN txs}

IsNative(kind) == kind \in {"owned", "shared"}

AllFeatures == {"native", "shared", "transfer", "call", "create", "precompile"}

\* coverage_manifest_for_circuit_version
CoveredBy(circuit) == IF circuit = "native" THEN {"native", "shared"} ELSE AllFeatures

\* verify_transactions_eligible_for_circuit
Eligible(txs, circuit) ==
  /\ \A i \in DOMAIN txs : IF circuit = "native" THEN IsNative(txs[i]) ELSE txs[i] \notin {"paid", "odd"}
  /\ Features(txs) \subseteq CoveredBy(circuit)

\* intrinsic_gas of a native transaction and the gas an EVM one burns
GasOf(kind) == IF IsNative(kind) THEN 1 ELSE 2
GasSum(txs) == SumSeq(txs, GasOf)

\* apply_block_with_evm
Applied(state, txs) ==
  [native |-> state.native + Cardinality({i \in DOMAIN txs : IsNative(txs[i]) \/ txs[i] = "dispatch"}),
   evm |-> state.evm + Cardinality({i \in DOMAIN txs : ~IsNative(txs[i])}),
   minted |-> state.minted]

\* mint_protocol_emission_for_block
Minted(state, height) == IF height \in EmissionHeights THEN [state EXCEPT !.minted = @ + 1] ELSE state

Genesis == [native |-> 0, evm |-> 0, minted |-> 0]
HeadState == IF chain = <<>> THEN Genesis ELSE chain[Len(chain)].post

\* execute_and_build_zone_block on the fields a proof is checked against.  The
\* sidecar encodes the transactions.
BuildBlock(height, pre, txs, side) ==
  [height |-> height, pre |-> pre, post |-> Minted(Applied(pre, txs), height), txs |-> txs,
   gas |-> GasSum(txs), features |-> Features(txs), side |-> side]

\* state_commitment_leaves: one leaf a namespace, its value after its key
Leaves(state) == {<<"native", <<state.native, state.minted>>>>, <<"evm", state.evm>>}

\* state_access_witnesses_v1: a row of every leaf, which says whether the value changed
Accesses(pre, post) ==
  {[ns |-> l[1], kind |-> IF l \in Leaves(post) THEN "read" ELSE "readwrite"] : l \in Leaves(pre)}

\* The rows of the traces: native_execution_trace_rows_v1,
\* native_precompile_dispatch_trace_rows_v1 and evm_execution_trace_rows_v1
NativeRows(txs) == {i \in DOMAIN txs : IsNative(txs[i])}
DispatchRows(txs) == {i \in DOMAIN txs : txs[i] = "dispatch"}
EvmRows(txs) == {i \in DOMAIN txs : ~IsNative(txs[i])}

\* mixed_execution_public_inputs_from_block, for a circuit
Inputs(block, circuit) == [block |-> block, circuit |-> circuit, covered |-> CoveredBy(circuit)]

\* mixed_execution_witness_from_state_transition
Witness(block, circuit, pre, post) ==
  [inputs |-> Inputs(block, circuit), pre |-> pre, post |-> post, access |-> Accesses(pre, post),
   native |-> NativeRows(block.txs), dispatch |-> DispatchRows(block.txs), evm |-> EvmRows(block.txs),
   gas |-> GasSum(block.txs)]

\* mixed_execution_witness_from_replay: its checks.  It applies the transactions only.
Replays(block, pre) ==
  /\ GasSum(block.txs) = block.gas
  /\ Applied(pre, block.txs) = block.post
  /\ Features(block.txs) = block.features

RowGas(w, rows) == SumOver(rows, LAMBDA i : GasOf(w.inputs.block.txs[i]))

\* native_state_transition_statement_v1: the checks of the native circuit
NativeStatement(w) ==
  /\ w.inputs.circuit = "native" /\ w.inputs.covered = CoveredBy("native")
  /\ w.evm = {} /\ w.dispatch = {}
  /\ w.inputs.block.features \subseteq CoveredBy("native")
  /\ w.gas = w.inputs.block.gas
  /\ RowGas(w, w.native) = w.gas

\* evm_zkvm_transition_statement_v1
EvmStatement(w) ==
  /\ w.inputs.circuit = "mixed" /\ w.inputs.covered = CoveredBy("mixed")
  /\ Eligible(w.inputs.block.txs, "mixed")
  /\ RowGas(w, w.evm) = SumOver({i \in DOMAIN w.inputs.block.txs : ~IsNative(w.inputs.block.txs[i])},
                                LAMBDA i : GasOf(w.inputs.block.txs[i]))

\* native_mixed_component_statement_v1
NativeComponent(w) ==
  /\ w.inputs.circuit = "mixed" /\ w.inputs.covered = CoveredBy("mixed")
  /\ w.inputs.block.features \subseteq CoveredBy("mixed")
  /\ \A i \in w.dispatch : w.inputs.block.txs[i] = "dispatch"

\* StwoPlonky2ProofEnvelope, or the bytes of a DevDigest proof: the public inputs and
\* the witness whose digests it carries.  Its other fields are constants of its kind,
\* digests of these, or free (the trace roots of a statement), so anyone can fill them in.
Envelope(kind, inputs, witness) == [kind |-> kind, inputs |-> inputs, witness |-> witness]

Fixtures == {"native", "evm", "mixed"}
Kinds == Fixtures \cup {"plonky2", "stwo", "dev"}

\* native_recursive_proof_envelope_v1, evm_zkvm_proof_envelope_v1 and
\* mixed_intrablock_aggregate_proof_envelope_v1: what a prover makes of a witness
Provable(w) ==
  {Envelope(k, w.inputs, w) : k \in {x \in Fixtures :
     /\ x = "native" => NativeStatement(w)
     /\ x \in {"evm", "mixed"} => EvmStatement(w)
     /\ x = "mixed" => NativeComponent(w)}}

\* BlockValidityProof.  The block stands for the header fields of the
\* proof; its gas_used is the one that nothing compares with the header.
Proof(block, e) == [block |-> block, circuit |-> e.inputs.circuit, envelope |-> e]

\* verify_native_recursive_fixture, verify_evm_zkvm_fixture and
\* verify_mixed_intrablock_aggregate_fixture: the digests are taken again
FixtureHolds(e, inputs) == e.kind \in Fixtures /\ e.inputs = inputs

\* verify_plonky2_poseidon_goldilocks: under the verifier data that the proof brings along
Plonky2Holds(e, inputs) == e.kind = "plonky2" /\ e.inputs = inputs

\* verify_stwo_plonky2_proof; the STWO adapter is unavailable
EnvelopeHolds(e, inputs) == FixtureHolds(e, inputs) \/ Plonky2Holds(e, inputs)

\* The DevDigest case of verify_block_validity_proof
DevDigestHolds(e, inputs) == e.kind = "dev" /\ DevDigest /\ e.inputs = inputs

\* verify_da_sidecar
DaHolds(block) == block \notin damaged

\* Seeded defect: a proof is verified against the inputs it names itself.
VerifyProofOwn(block, p) ==
  /\ p.block = block
  /\ p.block.features \subseteq CoveredBy(p.circuit)
  /\ DaHolds(block)
  /\ p.envelope.kind \in {"evm", "mixed"} => p.circuit = "mixed"
  /\ EnvelopeHolds(p.envelope, p.envelope.inputs) \/ DevDigestHolds(p.envelope, p.envelope.inputs)

\* verify_block_validity_proof: the fields of the header, the sidecar, the proof bytes
VerifyProof(block, p) ==
  /\ p.block = block
  /\ p.block.features \subseteq CoveredBy(p.circuit)
  /\ DaHolds(block)
  /\ p.envelope.kind \in {"evm", "mixed"} => p.circuit = "mixed"
  /\ \/ EnvelopeHolds(p.envelope, Inputs(p.block, p.circuit))
     \/ DevDigestHolds(p.envelope, Inputs(p.block, p.circuit))
-----------------------------------------------------------------------------
Step == steps < MaxProofSteps /\ steps' = steps + 1

Blocks == {chain[i] : i \in DOMAIN chain}

Commit(txs) ==
  /\ Len(chain) < MaxBlockHeight
  /\ chain' = Append(chain, BuildBlock(Len(chain) + 1, HeadState, txs, 0))
  /\ UNCHANGED <<orphans, damaged, finalPart, poolPart, steps>>

\* A better chain replaces the head: the other side of the fork.
Reorganise(txs) ==
  /\ chain # <<>> /\ chain[Len(chain)].side = 0
  /\ LET head == chain[Len(chain)]
     IN /\ chain' = [chain EXCEPT ![Len(chain)] = BuildBlock(head.height, head.pre, txs, 1)]
        /\ orphans' = orphans \cup {head}
        /\ damaged' = damaged \ {head}
  /\ UNCHANGED <<finalPart, poolPart, steps>>

\* The stored copy of a block comes back with another sidecar: restore_disk_snapshot
\* takes the blocks of the file as they are.
DamageSidecar(block) ==
  /\ Step
  /\ damaged' = damaged \cup {block}
  /\ UNCHANGED <<chain, orphans, finalPart, poolPart>>

\* record_witness_metadata
RecordMetadata(block, w) ==
  /\ Step
  /\ metadata' = Put(metadata, block, w)
  /\ UNCHANGED <<chainPart, finalized, zoneFinal, latest, store, unwritten, metrics, poolPart>>

\* insert_zone_proof_finality_record
InsertedZone(zf, block) == Put(zf, block.height, block)

LatestWith(l, height) == IF height > l THEN height ELSE l

\* proof_witness_digest: only the fixtures show one.
WitnessShown(p) == IF p.envelope.kind \in Fixtures THEN {p.envelope.witness} ELSE {}

\* The checks of submit_validity_proof in their order, each with its reason;
\* proof_rejection_reason tells the causes of the last one apart.
ProofChecks(p) ==
  << [reason |-> "block_not_found", holds |-> p.block \in Blocks],
     [reason |-> "native_transition_proofs_disabled", holds |-> p.circuit = "native" => NativeEnabled],
     [reason |-> "circuit_coverage", holds |-> p.block.features \subseteq CoveredBy(p.circuit)],
     [reason |-> "witness_digest", holds |-> p.block \in DOMAIN metadata => WitnessShown(p) = {metadata[p.block]}],
     [reason |-> "verification", holds |-> VerifyProof(p.block, p)] >>

FailedChecks(p) == {i \in 1 .. 5 : ~ProofChecks(p)[i].holds}

\* The first check that p fails.
RejectionReason(p) ==
  LET failed == FailedChecks(p) IN ProofChecks(p)[CHOOSE i \in failed : \A j \in failed : i <= j].reason

NoMetrics == [accepted |-> 0, refused |-> Empty, unsupported |-> 0, height |-> 0]

\* record_proof_acceptance
MetricsAccept(m, height) ==
  [accepted |-> m.accepted + 1, refused |-> m.refused, unsupported |-> m.unsupported,
   height |-> LatestWith(m.height, height)]

\* record_proof_rejection
MetricsReject(m, reason) ==
  [accepted |-> m.accepted, height |-> m.height,
   refused |-> Put(m.refused, reason, 1 + IF reason \in DOMAIN m.refused THEN m.refused[reason] ELSE 0),
   unsupported |-> m.unsupported + IF reason = "circuit_coverage" THEN 1 ELSE 0]

\* submit_validity_proof of a proof that it refuses.
Refuse(p) ==
  /\ Step
  /\ FailedChecks(p) # {}
  /\ metrics' = MetricsReject(metrics, RejectionReason(p))
  /\ UNCHANGED <<chainPart, metadata, finalized, zoneFinal, latest, store, unwritten, poolPart>>

\* submit_validity_proof of a proof that passes.  Memory has the proof before the
\* store does, and keeps it when the write fails; then nothing is counted.
Submit(p, writes) ==
  /\ Step
  /\ FailedChecks(p) = {}
  /\ finalized' = Put(finalized, p.block, p)
  /\ zoneFinal' = InsertedZone(zoneFinal, p.block)
  /\ latest' = LatestWith(latest, p.block.height)
  /\ IF writes
     THEN /\ store' = Put(store, p.block, p) /\ unwritten' = unwritten \ {p.block}
          /\ metrics' = MetricsAccept(metrics, p.block.height)
     ELSE UNCHANGED <<store, metrics>> /\ unwritten' = unwritten \cup {p.block}
  /\ UNCHANGED <<chainPart, metadata, poolPart>>

\* The maximum of a set of heights, -1 for none.
TopHeight(H) == IF H = {} THEN 0 - 1 ELSE CHOOSE h \in H : \A k \in H : k <= h

\* What restore_proof_finality_records counts of the records.
RestoredMetrics ==
  [accepted |-> Cardinality(DOMAIN store), refused |-> Empty, unsupported |-> 0,
   height |-> TopHeight({0} \cup {b.height : b \in DOMAIN store})]

\* Seeded defect: one record a height survives a restart.
RestartByHeight ==
  /\ \E kept \in {{b \in DOMAIN store : b.side = 1 \/ ~\E c \in DOMAIN store : c # b /\ c.height = b.height}} :
        finalized' = [b \in kept |-> store[b]]
  /\ zoneFinal' = [h \in {b.height : b \in DOMAIN store} |-> CHOOSE b \in DOMAIN store : b.height = h]
  /\ latest' = TopHeight({b.height : b \in DOMAIN store})
  /\ metrics' = RestoredMetrics
  /\ metadata' = Empty /\ unwritten' = {} /\ pool' = Empty /\ conflicts' = {}
  /\ UNCHANGED <<chainPart, store, included, steps>>

\* A restart: what is in memory is lost and restore_proof_finality_records loads the
\* store, whose records are in the order of their hashes.  Witness metadata and the
\* pool are not stored.
Restart ==
  /\ finalized' = store
  /\ \E zf \in [{b.height : b \in DOMAIN store} -> DOMAIN store] :
        (\A h \in DOMAIN zf : zf[h].height = h) /\ zoneFinal' = zf
  /\ latest' = TopHeight({b.height : b \in DOMAIN store})
  /\ metrics' = RestoredMetrics
  /\ metadata' = Empty /\ unwritten' = {} /\ pool' = Empty /\ conflicts' = {}
  /\ UNCHANGED <<chainPart, store, included, steps>>

\* finality_for_block_hash
Finality(block) ==
  IF block \in DOMAIN finalized THEN "proof" ELSE IF block \in Blocks THEN "soft" ELSE "none"

\* settlement_requires_proof and settlement_requires_proof_for_features
NeedsProof(block) == Required # {} \/ (block \in Blocks /\ block.features \cap Required # {})

\* settlement_finality_for_block_hash: what is accepted for settlement
Settles(block) ==
  /\ Finality(block) # "none"
  /\ NeedsProof(block) => Finality(block) = "proof"
  /\ block \in Blocks => DaHolds(block)
  /\ block \in Blocks /\ block \in DOMAIN finalized => block.features \subseteq CoveredBy(finalized[block].circuit)

\* settlement_finality_for_block_hash as fractal_getSettlementBlock answers it.  An
\* orphaned block is not found, although the node itself still settles it by its proof.
SettlementBlock(block) ==
  [label |-> CASE block \notin Blocks -> "block-not-found"
               [] block \in Blocks /\ NeedsProof(block) /\ Finality(block) # "proof" -> "soft-final"
               [] block \in Blocks /\ (NeedsProof(block) => Finality(block) = "proof")
                    /\ ~DaHolds(block) -> "unavailable-da"
               [] block \in Blocks /\ DaHolds(block) /\ block \in DOMAIN finalized
                    /\ ~(block.features \subseteq CoveredBy(finalized[block].circuit)) -> "uncovered-circuit"
               [] OTHER -> "settled",
   finality |-> Finality(block),
   covered |-> IF block \in DOMAIN finalized THEN CoveredBy(finalized[block].circuit) ELSE {},
   allowed |-> NeedsProof(block) => Finality(block) = "proof"]

\* latest_proof_final_height_for_zone (fractal_getProofFinalHeight)
ProofFinalHeight == latest

\* zone_update_finality (fractal_getZoneUpdateFinality)
ZoneUpdateFinality(height) == IF height \in DOMAIN zoneFinal THEN "proof" ELSE "none"

\* chain_config, of what proofs are required for
ChainConfig ==
  [features |-> Required, native |-> NativeEnabled, settlement |-> IF Required # {} THEN "proof" ELSE "soft"]

-----------------------------------------------------------------------------
KeyOf(u) == <<u.zone, u.height>>

\* What ProofPool::insert finds under the key of u: an update of another root.
Contested(u) == KeyOf(u) \in DOMAIN pool /\ pool[KeyOf(u)].root # u.root

\* ProofPool::insert, with the policy that keeps evidence of a conflict
PoolInsert(u) ==
  IF KeyOf(u) \notin DOMAIN pool THEN pool' = Put(pool, KeyOf(u), u) /\ UNCHANGED conflicts
  ELSE /\ UNCHANGED pool
       /\ conflicts' = conflicts \cup (IF Contested(u) THEN {<<pool[KeyOf(u)], u>>} ELSE {})

\* submit_proof_update
SubmitProofUpdate(u) ==
  /\ Step
  /\ PoolInsert(u)
  /\ UNCHANGED <<chainPart, finalPart, included>>

\* fractal_submitProofUpdate: an error for a conflict, else how many are pending.
\* An update that is pending already is answered as a new one, whatever fee it has.
ProofUpdateAnswer(u) ==
  [taken |-> ~Contested(u), pending |-> Cardinality(DOMAIN pool \cup {KeyOf(u)})]

\* Whether u goes before v: the higher fee, then the smaller key
Before(u, v) ==
  \/ u.fee > v.fee
  \/ u.fee = v.fee /\ (u.zone < v.zone \/ (u.zone = v.zone /\ u.height < v.height))

\* The set of updates in the order of Before.
Ordered(S) ==
  [i \in 1 .. Cardinality(S) |-> CHOOSE u \in S : Cardinality({v \in S : Before(v, u)}) = i - 1]

\* ProofPool::drain_ready, for the payload of a block (proposal_payload_for_mode)
PoolDrain ==
  /\ DOMAIN pool # {}
  /\ LET ready == Ordered({pool[k] : k \in DOMAIN pool})
         n == IF Len(ready) < DrainLimit THEN Len(ready) ELSE DrainLimit
         taken == SubSeq(ready, 1, n)
     IN /\ included' = Append(included, [updates |-> taken, left |-> {ready[i] : i \in n + 1 .. Len(ready)}])
        /\ pool' = Without(pool, {KeyOf(taken[i]) : i \in 1 .. n})
  /\ UNCHANGED <<chainPart, finalPart, conflicts, steps>>
-----------------------------------------------------------------------------
\* The witnesses of a block, for a circuit that is named: by replay
\* (mixed_execution_witness_from_replay), or from the executed state alone, which is
\* then taken as the state before too (mixed_execution_witness_from_executed_block).
Replayed(block, c) == IF Replays(block, block.pre) THEN {Witness(block, c, block.pre, block.post)} ELSE {}
WitnessesOf(block, c) == Replayed(block, c) \cup {Witness(block, c, block.post, block.post)}

Circuits == {"dev", "native", "mixed"}

\* A digest that is not of any witness.
NoWitness == [digest |-> "none"]

\* The witnesses that an envelope of a kind can name: a fixture any, another none.
Named(k, block, c) == {NoWitness} \cup IF k \in Fixtures THEN WitnessesOf(block, c) ELSE {}

\* The proofs that anyone can make for a block b of the node: an envelope of any kind
\* for this block or another one, for any circuit.
Offers ==
  UNION {{Proof(b, Envelope(k, Inputs(x, c), w)) : w \in Named(k, x, c)} :
         b \in Blocks, k \in Kinds, x \in Blocks \cup orphans, c \in Circuits}

ProofsInit ==
  /\ chain = <<>> /\ orphans = {} /\ damaged = {}
  /\ metadata = Empty /\ finalized = Empty /\ zoneFinal = Empty /\ latest = 0 - 1
  /\ store = Empty /\ unwritten = {} /\ metrics = NoMetrics
  /\ pool = Empty /\ conflicts = {} /\ included = <<>>
  /\ steps = 0

ProofsNext ==
  \/ \E txs \in Bodies : Commit(txs) \/ Reorganise(txs)
  \/ \E b \in Blocks : DamageSidecar(b)
  \/ \E b \in Blocks, c \in Circuits : \E w \in WitnessesOf(b, c) : RecordMetadata(b, w)
  \/ steps < MaxProofSteps /\ \E p \in Offers : (\E writes \in BOOLEAN : Submit(p, writes)) \/ Refuse(p)
  \/ Restart
  \/ \E u \in ProofUpdates : SubmitProofUpdate(u)
  \/ PoolDrain

ProofsSpec == ProofsInit /\ [][ProofsNext]_proofVars
-----------------------------------------------------------------------------
\* Where settlement requires proofs, a block of the chain settles only while its data is
\* available and with a proof whose public inputs are those of this very block, under a
\* circuit that covers its features: through forks, damaged sidecars, restarts and failed
\* writes no proof stands for another block, nor for the other side of a fork.  That
\* the block was executed to the state of its header does not follow.
SettledIsBound ==
  \A b \in Blocks \cup orphans :
    Required # {} /\ Settles(b) =>
      /\ finalized[b].envelope.inputs = Inputs(b, finalized[b].circuit)
      /\ b.features \subseteq CoveredBy(finalized[b].circuit)
      /\ b \in Blocks => DaHolds(b)

\* Proof finality survives a restart unless the store refused the record: what memory
\* has and the store has not is exactly what could not be written, and one side of a
\* fork never hides the proof of the other.
FinalityIsDurable ==
  /\ DOMAIN finalized = DOMAIN store \cup unwritten
  /\ \A b \in DOMAIN store \ unwritten : finalized[b] = store[b]

\* The latest proof-final height is that of the highest block with a proof, in
\* whatever order proofs arrive and records are restored.
LatestIsHighest ==
  /\ latest = TopHeight({b.height : b \in DOMAIN finalized})
  /\ DOMAIN zoneFinal = {b.height : b \in DOMAIN finalized}

\* A block that is eligible for a circuit (verify_block_eligible_for_circuit) and that
\* mints no emission can be replayed into a witness and proved for that circuit, and the
\* node takes the proof unless it has metadata of another witness of the block, lost the
\* block's sidecar or has native proofs disabled.
EligibleProvable ==
  \A b \in Blocks, c \in {"native", "mixed"} :
    /\ Eligible(b.txs, c) /\ b.height \notin EmissionHeights
    /\ b \notin DOMAIN metadata /\ DaHolds(b) /\ (c = "native" => NativeEnabled)
    => \E w \in Replayed(b, c) : \E e \in Provable(w) : FailedChecks(Proof(b, e)) = {}

\* The pool offers an update until a block takes it and turns down every other update
\* of that zone and height; a block takes the best paid ones, and the evidence of a
\* conflict names two different updates of one key, of which the second is turned down
\* again as long as the first is pending.
PoolIsFair ==
  /\ \A i \in DOMAIN included : \A k \in DOMAIN included[i].updates : \A v \in included[i].left :
        included[i].updates[k].fee >= v.fee
  /\ \A c \in conflicts : KeyOf(c[1]) = KeyOf(c[2]) /\ c[1].root # c[2].root
  /\ \A c \in conflicts :
       KeyOf(c[1]) \in DOMAIN pool /\ pool[KeyOf(c[1])] = c[1] => ~ProofUpdateAnswer(c[2]).taken

\* What clients are told of finality agrees, by hash, by height and in the metrics.  A
\* block that fractal_getSettlementBlock settles has the finality the chain configuration
\* promises, by a proof that covers it, and is proof-final by its zone and height too; no
\* block is refused for its circuit.  The height in the metrics is that of the store: a
\* record that could not be written raises the height of the zone, which a restart takes
\* back, and not the one in the metrics.
FinalityViewsAgree ==
  /\ \A b \in Blocks :
       LET a == SettlementBlock(b)
       IN /\ a.label # "uncovered-circuit"
          /\ a.label = "settled" => a.allowed /\ (ChainConfig.settlement = "proof" => a.finality = "proof")
          /\ a.finality = "proof" =>
               b.features \subseteq a.covered /\ ZoneUpdateFinality(b.height) = "proof" /\ b.height <= ProofFinalHeight
  /\ metrics.height = TopHeight({0} \cup {b.height : b \in DOMAIN store})
  /\ Cardinality(DOMAIN store) <= metrics.accepted

\* Proof finality (consensus/src/proof.rs, node/src/lib.rs, proof_pool.rs): a settled
\* block has a proof bound to it and its data, a record outlives a restart, the latest
\* proven height is the highest and clients are told no other, an eligible block can be
\* proved, and the pool keeps the first update of a zone and height until a block takes
\* the best paid ones.
BlockProofsSafe ==
  /\ SettledIsBound /\ FinalityIsDurable /\ LatestIsHighest
  /\ EligibleProvable /\ PoolIsFair /\ FinalityViewsAgree

=============================================================================
