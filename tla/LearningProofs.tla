--------------------------- MODULE LearningProofs ---------------------------
(***************************************************************************)
(* The hash-only proofs of the RLVR harness on their way to the chain      *)
(* (crates/rlvr/src/chain, api, tracing, and the node's use of them):      *)
(* a node signs a proof object, the pool keeps it until a block drains it, *)
(* a block's payload is applied whole or not at all, the committed index   *)
(* is saved and loaded, disputes are recorded; route traces are logged.    *)
(* A proof is a record; its hash is the record itself, which is what a     *)
(* collision-free hash of every field amounts to.                          *)
(***************************************************************************)
EXTENDS Values, SequencesExt

CONSTANTS
  Requests,     \* proof objects asked for: [kind, adapter, eval, policy, key, signer, time]
  Targets,      \* RlvrDisputeTarget
  MaxDrain,     \* proofs one block takes from the pool (1024)
  MaxProofHeight,    \* bound: blocks
  MaxDisputes,  \* bound: disputes
  MaxRows,      \* bound: trace rows
  MaxDamage     \* bound: edits of the saved index, stops of the process

None == "none"
Kinds == {"route", "eval", "training"}

ASSUME LearningAssumption ==
  /\ MaxDrain \in Nat /\ MaxProofHeight \in Nat /\ MaxRows \in Nat /\ MaxDamage \in Nat
  /\ \A p \in Requests : p.kind \in Kinds

VARIABLES
  pool,         \* RlvrProofPool.pending
  poolMetrics,  \* RlvrProofPool.metrics: kind -> pending of that kind
  payload,      \* items of the block being built: sequence of [hash, proof]
  rlvrHeight,   \* blocks so far
  accepted,     \* RlvrAcceptedProofState.accepted
  committed,    \* RlvrCommittedProofIndex.committed: proof -> block
  indexes,      \* by_proof_type, by_adapter_hash, by_route_policy_hash and the totals
  saved,        \* the index on disk, hash -> [proof, block]
  disputes,     \* RlvrDisputeStore.disputes
  disputeTotals,\* its metrics: target -> count
  traceFile,    \* rows of the trace store
  traceMeta,    \* trace_count in the metadata file
  traceOpen,    \* the open store: its count, or closed
  traceHand,    \* a row is written and its metadata is not
  whole,        \* history: proofs of payloads all of whose items were valid
  forgotten,    \* history: proofs removed from the index, lost with it, or edited in its file
  damage

rlvrVars == <<pool, poolMetrics, payload, rlvrHeight, accepted, committed, indexes, saved, disputes,
              disputeTotals, traceFile, traceMeta, traceOpen, traceHand, whole, forgotten, damage>>
proofVarsOnly == <<pool, poolMetrics, payload, rlvrHeight, accepted, committed, indexes, saved, whole, forgotten>>
disputeVars == <<disputes, disputeTotals>>
traceVars == <<traceFile, traceMeta, traceOpen, traceHand>>

Closed == 0 - 1
-----------------------------------------------------------------------------
\* validate_hash_only: the fields each kind needs
ValidObject(p) ==
  /\ p.kind = "eval" => p.eval # None
  /\ p.kind = "training" => p.adapter # None
  /\ p.time > 0

\* verify_node_signature: by the key the proof itself names
VerifyNodeSignature(p) == ValidObject(p) /\ p.signer = p.key

\* refresh_metrics of the pool
PoolTotals(P) == [k \in Kinds |-> Cardinality({p \in P : p.kind = k})]

\* refresh_indexes_and_metrics: rebuilt from the proofs (the totals are the sizes)
RefreshIndexes(C, old) ==
  [types |-> [k \in Kinds |-> {p \in C : p.kind = k}],
   adapters |-> [a \in {p.adapter : p \in C} |-> {p \in C : p.adapter = a}],
   policies |-> [r \in {p.policy : p \in C} |-> {p \in C : p.policy = r}]]
-----------------------------------------------------------------------------
\* fractal_submit_rlvr_proof and submit_rlvr_proof: RlvrProofPool::insert.  What
\* the chain has committed is not asked.
SubmitProof(p) ==
  /\ VerifyNodeSignature(p)
  /\ p \notin pool
  /\ pool' = pool \cup {p} /\ poolMetrics' = PoolTotals(pool')
  /\ UNCHANGED <<payload, rlvrHeight, accepted, committed, indexes, saved, disputeVars, traceVars,
                 whole, forgotten, damage>>

\* RlvrProofPool::remove
DropProof(p) ==
  /\ p \in pool
  /\ pool' = pool \ {p} /\ poolMetrics' = PoolTotals(pool')
  /\ UNCHANGED <<payload, rlvrHeight, accepted, committed, indexes, saved, disputeVars, traceVars,
                 whole, forgotten, damage>>

\* drain_ready and rlvr_commitment_from_pooled: a block takes what is pending,
\* the lowest hashes first and no more than it may
DrainReady ==
  /\ payload = <<>> /\ pool # {} /\ rlvrHeight < MaxProofHeight
  /\ \E taken \in kSubset(Min({Cardinality(pool), MaxDrain}), pool) :
       /\ payload' = SetToSeq({[hash |-> p, proof |-> p] : p \in taken})
       /\ pool' = pool \ taken /\ poolMetrics' = PoolTotals(pool')
  /\ UNCHANGED <<rlvrHeight, accepted, committed, indexes, saved, disputeVars, traceVars, whole, forgotten, damage>>

\* Another producer's block, with items of its own making.
ForeignPayload(items) ==
  /\ payload = <<>> /\ rlvrHeight < MaxProofHeight
  /\ payload' = items
  /\ UNCHANGED <<pool, poolMetrics, rlvrHeight, accepted, committed, indexes, saved, disputeVars,
                 traceVars, whole, forgotten, damage>>

\* The block is not built: what was drained for it is gone.
BuildFailed ==
  /\ payload # <<>> /\ damage < MaxDamage
  /\ payload' = <<>> /\ damage' = damage + 1
  /\ UNCHANGED <<pool, poolMetrics, rlvrHeight, accepted, committed, indexes, saved, disputeVars,
                 traceVars, whole, forgotten>>

ItemValid(item) == VerifyNodeSignature(item.proof) /\ item.hash = item.proof
AllValid(items) == \A i \in DOMAIN items : ItemValid(items[i])

\* The defect: items are accepted one by one until a bad one.
ApplyPayloadEach ==
  /\ payload # <<>>
  /\ rlvrHeight' = rlvrHeight + 1 /\ payload' = <<>>
  /\ accepted' = accepted \cup {payload[i].proof : i \in {j \in DOMAIN payload :
                                  \A k \in 1..j : ItemValid(payload[k])}}
  /\ whole' = IF AllValid(payload) THEN whole \cup {payload[i].proof : i \in DOMAIN payload} ELSE whole
  /\ UNCHANGED <<pool, poolMetrics, committed, indexes, saved, disputeVars, traceVars, forgotten, damage>>

\* apply_rlvr_proof_block_payload: every item is checked before one is accepted
ApplyPayload ==
  /\ payload # <<>>
  /\ rlvrHeight' = rlvrHeight + 1 /\ payload' = <<>>
  /\ \/ AllValid(payload)
        /\ accepted' = accepted \cup {payload[i].proof : i \in DOMAIN payload}
        /\ whole' = whole \cup {payload[i].proof : i \in DOMAIN payload}
     \/ ~AllValid(payload) /\ UNCHANGED <<accepted, whole>>
  /\ UNCHANGED <<pool, poolMetrics, committed, indexes, saved, disputeVars, traceVars, forgotten, damage>>

\* RlvrCommittedProofIndex::insert, with the block the caller says the proof is
\* in: neither the block nor the accepted state is asked
CommitProof(p, block) ==
  /\ block > 0 /\ VerifyNodeSignature(p)
  /\ p \notin DOMAIN committed
  /\ committed' = Put(committed, p, block)
  /\ indexes' = RefreshIndexes(DOMAIN committed', indexes)
  /\ UNCHANGED <<pool, poolMetrics, payload, rlvrHeight, accepted, saved, disputeVars, traceVars,
                 whole, forgotten, damage>>

\* RlvrCommittedProofIndex::remove
RemoveCommitted(p) ==
  /\ p \in DOMAIN committed /\ damage < MaxDamage
  /\ damage' = damage + 1
  /\ committed' = Without(committed, {p}) /\ forgotten' = forgotten \cup {p}
  /\ indexes' = RefreshIndexes(DOMAIN committed', indexes)
  /\ UNCHANGED <<pool, poolMetrics, payload, rlvrHeight, accepted, saved, disputeVars, traceVars, whole>>

\* The process starts again with a new index; the saved one is not read yet.
NewIndex ==
  /\ damage < MaxDamage
  /\ damage' = damage + 1
  /\ committed' = Empty /\ forgotten' = forgotten \cup DOMAIN committed
  /\ indexes' = RefreshIndexes({}, indexes)
  /\ UNCHANGED <<pool, poolMetrics, payload, rlvrHeight, accepted, saved, disputeVars, traceVars, whole>>

\* save_to_path
SaveIndex ==
  /\ saved' = [p \in DOMAIN committed |-> [proof |-> p, block |-> committed[p]]]
  /\ UNCHANGED <<pool, poolMetrics, payload, rlvrHeight, accepted, committed, indexes, disputeVars,
                 traceVars, whole, forgotten, damage>>

\* The file is edited: an entry holds another object than its hash says, or
\* another block.
DamageSaved(p, q, block) ==
  /\ p \in DOMAIN saved /\ damage < MaxDamage
  /\ saved' = [saved EXCEPT ![p] = [proof |-> q, block |-> block]] /\ damage' = damage + 1
  /\ forgotten' = forgotten \cup {p}
  /\ UNCHANGED <<pool, poolMetrics, payload, rlvrHeight, accepted, committed, indexes, disputeVars,
                 traceVars, whole>>

\* load_from_path: revalidate_committed_proofs, or nothing is loaded.  The
\* block of an entry is taken as it is.
LoadIndex ==
  /\ \A h \in DOMAIN saved : /\ VerifyNodeSignature(saved[h].proof) /\ saved[h].proof = h
                             /\ saved[h].block > 0
  /\ committed' = [h \in DOMAIN saved |-> saved[h].block]
  /\ indexes' = RefreshIndexes(DOMAIN committed', indexes)
  /\ UNCHANGED <<pool, poolMetrics, payload, rlvrHeight, accepted, saved, disputeVars, traceVars,
                 whole, forgotten, damage>>

\* RlvrDisputeStore::insert.  The disputed proof need not exist.
InsertDispute(target, p, payouts) ==
  /\ Cardinality(disputes) < MaxDisputes
  /\ ~payouts
  /\ [target |-> target, proof |-> p] \notin disputes
  /\ disputes' = disputes \cup {[target |-> target, proof |-> p]}
  /\ disputeTotals' = [t \in Targets |-> Cardinality({d \in disputes' : d.target = t})]
  /\ UNCHANGED <<proofVarsOnly, traceVars, damage>>
-----------------------------------------------------------------------------
\* LocalTraceStore::open: the rows are counted, whatever the metadata says
OpenTraceStore ==
  /\ traceOpen = Closed
  /\ traceOpen' = traceFile /\ traceMeta' = traceFile
  /\ UNCHANGED <<proofVarsOnly, disputeVars, traceFile, traceHand, damage>>

\* append: the row, then the metadata
AppendRow ==
  /\ traceOpen # Closed /\ ~traceHand /\ traceFile < MaxRows
  /\ traceFile' = traceFile + 1 /\ traceHand' = TRUE
  /\ UNCHANGED <<proofVarsOnly, disputeVars, traceMeta, traceOpen, damage>>

AppendMeta ==
  /\ traceHand
  /\ traceOpen' = traceOpen + 1 /\ traceMeta' = traceOpen + 1 /\ traceHand' = FALSE
  /\ UNCHANGED <<proofVarsOnly, disputeVars, traceFile, damage>>

\* The process stops, between the two as well.
CloseTraceStore ==
  /\ traceOpen # Closed /\ damage < MaxDamage
  /\ traceOpen' = Closed /\ traceHand' = FALSE /\ damage' = damage + 1
  /\ UNCHANGED <<proofVarsOnly, disputeVars, traceFile, traceMeta>>
-----------------------------------------------------------------------------
ProofItems == [hash : Requests, proof : Requests]

RlvrInit ==
  /\ pool = {} /\ poolMetrics = PoolTotals({}) /\ payload = <<>> /\ rlvrHeight = 0 /\ accepted = {}
  /\ committed = Empty /\ saved = Empty /\ whole = {} /\ forgotten = {} /\ damage = 0
  /\ indexes = [types |-> [k \in Kinds |-> {}], adapters |-> Empty, policies |-> Empty]
  /\ disputes = {} /\ disputeTotals = [t \in Targets |-> 0]
  /\ traceFile = 0 /\ traceMeta = Closed /\ traceOpen = Closed /\ traceHand = FALSE

PoolStep ==
  \/ \E p \in Requests : SubmitProof(p) \/ DropProof(p)
  \/ DrainReady \/ BuildFailed \/ ApplyPayload
  \/ payload = <<>> /\ \E a, b \in ProofItems : ForeignPayload(<<a, b>>)
  \/ \E t \in Targets, p \in Requests, b \in BOOLEAN : InsertDispute(t, p, b)

CommittedStep ==
  \/ \E p \in Requests, b \in 0 .. MaxProofHeight : CommitProof(p, b)
  \/ \E p \in Requests : RemoveCommitted(p)
  \/ NewIndex \/ SaveIndex \/ LoadIndex
  \/ damage < MaxDamage /\ \E p, q \in Requests, b \in 0 .. MaxProofHeight : DamageSaved(p, q, b)

TraceStep == OpenTraceStore \/ AppendRow \/ AppendMeta \/ CloseTraceStore

PoolAtRest == pool = {} /\ rlvrHeight = 0 /\ payload = <<>> /\ disputes = {}
IndexAtRest == committed = Empty /\ saved = Empty /\ forgotten = {}

\* The pool with the blocks, the committed index and the trace store share no
\* state (the index takes its caller's word for the block): one is run without
\* the others.
RlvrNext ==
  \/ traceMeta = Closed /\ IndexAtRest /\ PoolStep
  \/ traceMeta = Closed /\ PoolAtRest /\ CommittedStep
  \/ PoolAtRest /\ IndexAtRest /\ TraceStep

RlvrSpec == RlvrInit /\ [][RlvrNext]_rlvrVars
-----------------------------------------------------------------------------
\* Whatever way a proof came - the RPC, a block of another producer, a file that
\* was edited - the pool, the accepted state and the index hold only proofs
\* signed by the key they name, with the fields of their kind.
ProofsAuthentic == \A p \in pool \cup accepted \cup DOMAIN committed : p.signer = p.key /\ ValidObject(p)

\* A block's proofs are accepted together: none from a payload with a bad item.
AcceptedWhole == accepted \subseteq whole

\* After inserts, removals and loads of an older file, the secondary indexes,
\* the pool's totals and the dispute totals are those of what is stored.
IndexesMatch ==
  /\ poolMetrics = PoolTotals(pool)
  /\ \A k \in Kinds : indexes.types[k] = {p \in DOMAIN committed : p.kind = k}
  /\ \A a \in DOMAIN indexes.adapters : indexes.adapters[a] = {p \in DOMAIN committed : p.adapter = a}
  /\ \A p \in DOMAIN committed : p.adapter \in DOMAIN indexes.adapters /\ p \in indexes.policies[p.policy]
  /\ \A t \in Targets : disputeTotals[t] = Cardinality({d \in disputes : d.target = t})

\* A committed proof stays in the block it was committed with, through inserts,
\* saves and loads of an older file, unless it was removed from the index, lost
\* with it or edited in its file: after that it may be committed again, and a
\* load then brings the saved block back.
CommitmentStands ==
  [][\A p \in DOMAIN committed \cap DOMAIN committed' :
       committed'[p] = committed[p] \/ p \in forgotten]_rlvrVars

\* A stop between a row and its metadata is repaired when the store is opened:
\* the store's count and the metadata are those of the file, but for a row in hand.
TraceCountExact ==
  traceOpen # Closed =>
    /\ traceFile = traceOpen + (IF traceHand THEN 1 ELSE 0)
    /\ traceMeta = traceOpen
=============================================================================
