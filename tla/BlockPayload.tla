---------------------------- MODULE BlockPayload ----------------------------
(***************************************************************************)
(* What a block carries besides its transactions, and what its header says *)
(* about it: the payload modes of the producer (legacy, proof_ingestion,   *)
(* mixed), the payload root of crates/consensus/src/payload.rs, the zone   *)
(* blob that commits the payload to data availability, and the follower    *)
(* that replays the block.                                                 *)
(*                                                                         *)
(* An item of a payload is [kind, members]: a transaction, a zone proof    *)
(* update, an RLVR commitment (one member each) or a batch of              *)
(* certificates.  Hashing is injective: a leaf is [dom, members], a Merkle *)
(* node the sequence of the leaves below it (the nodes of one level cover  *)
(* equally many, so concatenation loses nothing), and the bytes of a       *)
(* payload are the payload.                                                *)
(***************************************************************************)
EXTENDS Values, SequencesExt

CONSTANTS
    PayloadTxs,      \* transactions a wallet may submit
    TxClass,         \* tx -> "commitment" (ProofCommitmentV1, itself of owned scope)
                     \*       | "owned" (any other of owned scope) | "shared" | "failing"
    PayloadUpdates,  \* zone proof updates
    UpdateLeaf,      \* update -> the fields the leaf of proof_updates_root binds
    PayloadCerts,    \* owned-object certificates
    CertTx,          \* certificate -> the transaction of owned scope it certifies
    CertVersions,    \* certificate -> the object versions it consumes
    PayloadRlvr,     \* RLVR proofs
    MaxBlocks,       \* bound on the blocks produced
    MaxWaiting       \* bound on the items ready at once

ASSUME PayloadAssumption ==
    /\ TxClass \in [PayloadTxs -> {"commitment", "owned", "shared", "failing"}]
    /\ CertTx \in [PayloadCerts -> PayloadTxs]
    /\ \A c \in PayloadCerts : TxClass[CertTx[c]] \in {"owned", "commitment"} /\ CertVersions[c] # {}
    /\ PayloadUpdates = DOMAIN UpdateLeaf
    /\ MaxBlocks \in Nat /\ MaxWaiting \in Nat

VARIABLES
    payloadMode,   \* chain_config.block_payload_mode
    rlvrActive,    \* rlvr_chain_commit_active(chain_config)
    waiting,       \* the ready items of the mempool and of the two proof pools
    certPool,      \* accepted_certificates()
    produced,      \* the blocks of the producer
    replayed,      \* how many of them the follower has applied
    dropped        \* items drained from a pool by a tick that built no block

payloadVars == <<payloadMode, rlvrActive, waiting, certPool, produced, replayed, dropped>>

Modes == {"legacy", "proof_ingestion", "mixed"}

Item(kind, x) == [kind |-> kind, members |-> <<x>>]

\* The elements of s that are in K, in their order.
KeepIn(s, K) == FoldLeft(LAMBDA kept, x : IF x \in K THEN Append(kept, x) ELSE kept, <<>>, s)

---------------------------------------------------------------------------
(* The payload root.                                                       *)

\* hash_pair over one level; an odd last node is paired with itself.
PairedLevel(level) ==
    [i \in 1..((Len(level) + 1) \div 2) |->
        level[2 * i - 1] \o level[IF 2 * i <= Len(level) THEN 2 * i ELSE 2 * i - 1]]

\* merkle_root_from_hashes; the empty list commits to the zero hash.
MerkleRoot(leaves) ==
    LET up[k \in 0..Len(leaves)] ==
            IF k = 0 THEN [i \in DOMAIN leaves |-> <<leaves[i]>>]
            ELSE IF Len(up[k - 1]) = 1 THEN up[k - 1] ELSE PairedLevel(up[k - 1])
    IN  IF leaves = <<>> THEN <<>> ELSE up[Len(leaves)][1]

\* certificate_batch_conflicts: two certificates of the batch, or one of
\* them twice, consume the same object version.
BatchConflicts(batch) ==
    \E i, j \in DOMAIN batch : i # j /\ CertVersions[batch[i]] \cap CertVersions[batch[j]] # {}

\* certificate_batch_root, of a batch without conflict.
BatchRoot(batch) ==
    MerkleRoot([i \in DOMAIN batch |-> [dom |-> "certificate", members |-> <<batch[i]>>]])

\* payload_leaf_hash: a batch by its root, an RLVR proof by its commitment,
\* anything else by its bytes.
PayloadLeaf(item) ==
    CASE item.kind = "batch" -> [dom |-> "batch", members |-> [i \in DOMAIN BatchRoot(item.members)
                                        |-> BatchRoot(item.members)[i].members[1]]]
      [] item.kind = "rlvr"  -> [dom |-> "rlvr-proof-leaf", members |-> item.members]
      [] OTHER               -> [dom |-> item.kind, members |-> item.members]

\* proof_update_leaf_hash: not the height, the tx root or the feature set.
UpdateRootLeaf(item) == [dom |-> "proof-update-leaf", members |-> <<UpdateLeaf[item.members[1]]>>]

\* BlockPayload::payload_root, versioned by the kind of the payload.
PayloadRoot(payload) ==
    [tag  |-> payload.kind,
     root |-> MerkleRoot([i \in DOMAIN payload.items |->
                  IF payload.kind = "proof_updates" THEN UpdateRootLeaf(payload.items[i])
                                                    ELSE PayloadLeaf(payload.items[i])])]

\* payload_root returns an error.
RootFails(payload) ==
    \E i \in DOMAIN payload.items :
        payload.items[i].kind = "batch" /\ BatchConflicts(payload.items[i].members)

---------------------------------------------------------------------------
(* The producer's tick.                                                    *)

\* The mixed mode takes owned transactions too.
IncludeTxOwned(mode, tx) == mode = "proof_ingestion" => TxClass[tx] = "commitment"

\* include_tx_for_payload_mode, is_proof_ingestion_compat_tx
IncludeTx(mode, tx) ==
    CASE mode = "legacy"          -> TRUE
      [] mode = "proof_ingestion" -> TxClass[tx] = "commitment"
      [] mode = "mixed"           -> TxClass[tx] # "owned"

\* rlvr_commitment_from_pooled: the hashes of the proof, its own among them,
\* without its signature; it cannot fail on what the pool let in.
RlvrCommitment(item) == [kind |-> "rlvr", members |-> item.members]

\* The items a tick takes out of the pools: drain_ready_gas_budget_filtered,
\* proof_pool.drain_ready and rlvr_proof_pool.drain_ready.
Drained(mode) ==
    KeepIn(waiting, {item \in ToSet(waiting) :
        CASE item.kind = "tx"     -> IncludeTx(mode, item.members[1])
          [] item.kind = "update" -> mode # "legacy"
          [] item.kind = "rlvr"   -> mode # "legacy" /\ rlvrActive})

OfKind(items, kind) == KeepIn(items, {item \in ToSet(items) : item.kind = kind})

\* proposal_payload_for_mode.  Certificates are read, not drained: every
\* block carries all the accepted ones in one batch.
ProposalPayload(mode, txs, updates, certs, rlvr) ==
    LET batch == IF certs = {} THEN <<>>
                 ELSE <<[kind |-> "batch", members |-> SetToSeq(certs)]>>
    IN  IF mode = "legacy" THEN [kind |-> "full_transactions", items |-> txs]
        ELSE IF mode = "proof_ingestion" /\ txs = <<>> /\ certs = {} /\ rlvr = <<>>
             THEN [kind |-> "proof_updates", items |-> updates]
        ELSE IF mode = "proof_ingestion" /\ txs = <<>> /\ updates = <<>> /\ rlvr = <<>>
             THEN [kind |-> "certificate_batches", items |-> batch]
        ELSE [kind |-> "mixed",
              items |-> txs \o updates \o batch \o [i \in DOMAIN rlvr |-> RlvrCommitment(rlvr[i])]]

\* The sidecar execute_and_build_block makes: the bytes of the transactions.
TransactionBlob(txs) == [kind |-> "transactions", items |-> txs]

\* The zone blob of apply_zone_blob_da_to_block: the bytes of the payload.
ZoneBlob(payload, txs) == payload

\* proof_ingestion_header_extra: the payload root and the hash of the zone
\* blob's commitment, which holds its DA root, its sizes and its sampling.
HeaderExtra(root, da) == [tag |-> root.tag, root |-> root.root, da |-> da]

NoExtra == [tag |-> "none", root |-> <<>>, da |-> TransactionBlob(<<>>)]

\* verify_zone_blob_da_header, of a commitment and a payload root offered with a block.
VerifyZoneBlob(block, da, root) == block.da = da /\ block.extra = HeaderExtra(root, da)

\* The block as sealed.  Outside the legacy mode its DA commitment is the
\* zone blob's and header.extra binds the payload root to it.
Sealed(mode, payload, txs) ==
    IF mode = "legacy"
    THEN [txs |-> txs, payload |-> payload, da |-> TransactionBlob(txs),
          extra |-> NoExtra]
    ELSE [txs |-> txs, payload |-> payload, da |-> ZoneBlob(payload, txs),
          extra |-> HeaderExtra(PayloadRoot(payload), ZoneBlob(payload, txs))]

\* execute_and_build_block fails on one bad transaction.
BuildFails(txs) == \E i \in DOMAIN txs : TxClass[txs[i].members[1]] = "failing"

\* try_produce_one_tick, of the leader of the view.  A failed tick keeps what
\* it drained and the block is not built.
ProduceTick ==
    /\ Len(produced) < MaxBlocks
    /\ \E drained \in {Drained(payloadMode)} :
       \E payload \in {ProposalPayload(payloadMode, OfKind(drained, "tx"),
                           OfKind(drained, "update"),
                           IF payloadMode = "legacy" THEN {} ELSE certPool,
                           OfKind(drained, "rlvr"))} :
          /\ waiting' = KeepIn(waiting, ToSet(waiting) \ ToSet(drained))
          /\ IF \/ BuildFails(OfKind(drained, "tx"))
                \/ payloadMode # "legacy" /\ RootFails(payload)
             THEN /\ dropped' = dropped \cup ToSet(drained)
                  /\ UNCHANGED produced
             ELSE /\ produced' = Append(produced,
                                    Sealed(payloadMode, payload, OfKind(drained, "tx")))
                  /\ UNCHANGED dropped
    /\ UNCHANGED <<payloadMode, rlvrActive, certPool, replayed>>

---------------------------------------------------------------------------
(* What reaches the pools, and the follower.                               *)

Offered == {Item("tx", t) : t \in PayloadTxs} \cup {Item("update", u) : u \in PayloadUpdates}
             \cup {Item("rlvr", r) : r \in PayloadRlvr}

Seen(item) ==
    \/ Contains(waiting, item) \/ item \in dropped
    \/ \E i \in DOMAIN produced : Contains(produced[i].payload.items, item)

\* A transaction, an update or an RLVR proof enters its pool (once: the
\* pools' own duplicates are the subject of other modules).
OfferItem(item) ==
    /\ ~Seen(item) /\ Len(waiting) < MaxWaiting
    /\ waiting' = Append(waiting, item)
    /\ UNCHANGED <<payloadMode, rlvrActive, certPool, produced, replayed, dropped>>

\* CertificatePool::insert of a verified certificate: refused when another
\* accepted one consumes one of its object versions.
AcceptCert(c) ==
    /\ c \notin certPool
    /\ \A d \in certPool : CertVersions[c] \cap CertVersions[d] = {}
    /\ certPool' = certPool \cup {c}
    /\ UNCHANGED <<payloadMode, rlvrActive, waiting, produced, replayed, dropped>>

\* Block::payload: a received block is always read as full transactions, so
\* block_apply_mode_for_payload_kind always answers replay.
ReadPayload(block) == [kind |-> "full_transactions", items |-> block.txs]

ApplyMode(kind) == IF kind = "full_transactions" THEN "replay" ELSE "verify_proof_and_da"

\* apply_synced_block_replay_full_transactions up to the execution: the
\* reconstructed sidecar is the bytes of the block's transactions.
ReplayAccepts(block) == block.da = TransactionBlob(block.txs)

\* verify_proof_and_da ends in an error whatever the block.
VerifyAccepts(block) == FALSE

\* apply_synced_block at the follower, of the next block.
FollowerApply ==
    /\ replayed < Len(produced)
    /\ \E block \in {produced[replayed + 1]} :
          IF ApplyMode(ReadPayload(block).kind) = "replay"
          THEN ReplayAccepts(block) ELSE VerifyAccepts(block)
    /\ replayed' = replayed + 1
    /\ UNCHANGED <<payloadMode, rlvrActive, waiting, certPool, produced, dropped>>

PayloadInit ==
    /\ payloadMode \in Modes
    /\ rlvrActive \in BOOLEAN
    /\ waiting = <<>>
    /\ certPool = {}
    /\ produced = <<>>
    /\ replayed = 0
    /\ dropped = {}

PayloadNext ==
    \/ \E item \in Offered : OfferItem(item)
    \/ \E c \in PayloadCerts : AcceptCert(c)
    \/ ProduceTick
    \/ FollowerApply

PayloadSpec == PayloadInit /\ [][PayloadNext]_payloadVars

---------------------------------------------------------------------------
(* Properties.                                                             *)

\* The header decides the payload: no other payload the producer ever sealed
\* verifies against it, although the leaf of a proof update omits its height
\* (apply_zone_blob_da_to_block against verify_zone_blob_da_header).
HeaderBindsPayload ==
    payloadMode # "legacy" =>
        \A i, j \in DOMAIN produced :
            VerifyZoneBlob(produced[i], produced[j].da, PayloadRoot(produced[j].payload))
                => produced[i].payload = produced[j].payload

\* What a certificate in a block made final is executed by no block, proof
\* commitments excepted: those are of owned scope and can be certified, and
\* both payload modes take them from the mempool as well
\* (include_tx_for_payload_mode against accepted_certificates).
NoDoubleEffect ==
    \A i, j \in DOMAIN produced : \A k \in DOMAIN produced[i].payload.items :
        produced[i].payload.items[k].kind = "batch" =>
            \A m \in DOMAIN produced[i].payload.items[k].members :
                LET tx == CertTx[produced[i].payload.items[k].members[m]]
                IN  Contains(produced[j].txs, Item("tx", tx)) => TxClass[tx] = "commitment"

\* A follower that applied a block has executed everything it carries: it
\* never skips updates, certificates or commitments it cannot apply
\* (apply_synced_block_replay_full_transactions).
FollowerMissesNothing ==
    \A i \in 1..replayed : produced[i].payload.items = produced[i].txs

\* What a tick drained and lost, it lost with a transaction that fails: the
\* certificates alone never stop the producer (certificate_batch_root).
LossHasACause ==
    dropped # {} => \E item \in dropped : item.kind = "tx" /\ TxClass[item.members[1]] = "failing"

\* docs/proof-ingestion-tasks.md:66, "legacy -> replay, proof-ingestion ->
\* verify": a follower reads a proof-ingestion block in the verifying mode.
IngestionIsVerified ==
    payloadMode = "proof_ingestion" =>
        \A i \in DOMAIN produced : ApplyMode(ReadPayload(produced[i]).kind) = "verify_proof_and_da"

\* Payload modes (consensus/src/payload.rs, node/src/lib.rs): headers tell
\* payloads apart, only a proof commitment takes effect through both a
\* certificate and the mempool, a follower that accepts a block has all its effects, and a
\* tick loses what it drained only with a transaction that fails.
PayloadSafe ==
  /\ HeaderBindsPayload /\ NoDoubleEffect /\ FollowerMissesNothing
  /\ LossHasACause

=============================================================================
