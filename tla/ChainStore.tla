------------------------------ MODULE ChainStore ------------------------------
(***************************************************************************)
(* What a node keeps on disk: crates/storage (the RocksDB columns of       *)
(* fractal_db.rs with the keys of chain_records.rs, the account trie of    *)
(* evm_accounts_mpt.rs, the file stores of lib.rs), the pruning of         *)
(* node/src/prune.rs, the snapshot chunks of node/src/chain_snapshot.rs    *)
(* and the proof registry of proof-condenser/src/persist.rs.               *)
(*                                                                         *)
(* RocksDB is external: one put or delete is atomic and survives a crash   *)
(* of the process, several are not one.  The node's thread commits a block *)
(* or prunes one row at a time while the condenser records proofs and a    *)
(* reader asks for them; any write may fail and the process may crash      *)
(* between two of them.  Keys are sequences of digits, short ones for the  *)
(* 8-byte heights and the 32-byte hashes.                                  *)
(***************************************************************************)
EXTENDS Values, SequencesExt, TLC

CONSTANTS
  StoreShards,   \* shards that share the database
  MaxStored,     \* bound: shard to the height of its chain
  TxsOf,         \* (shard, height) to its transactions
  NodesOf,       \* (shard, height) to the hashes of its account trie's nodes
  SealedProofs,  \* sets of ranges that one masterchain block may prove
  KeepBelow,     \* MIN_EXECUTION_RETAIN
  StoreRecords,  \* records of a file store
  TrieInputs,    \* sets of keys of an account trie
  LastNibble,    \* the largest digit of a trie key
  StateBytes,    \* states to cut into chunks
  MaxStoreFaults \* bound: failed writes and crashes

ASSUME StoreAssumption == (\A s \in StoreShards : MaxStored[s] \in Nat) /\ KeepBelow \in Nat /\ MaxStoreFaults \in Nat /\ LastNibble \in Nat

VARIABLES
  rows,      \* the database: key to value
  storeJob,  \* the commit or pruning under way
  storeTip,  \* shard to the height of its chain
  kept,      \* shard to the heights in memory
  stored,    \* (shard, height) to what became of its rows
  sealedProofs,    \* the (shard, height) that a sealed validity proof covers
  proofRegistry,  \* the proof registry: memory, sidecar files and work under way; histories:
                  \* what the database took, the heights that a read raced with a record for
  recordFile,\* a file store: the file, its temporary and what was acknowledged
  storeExam, \* what is used: the database, a file store or an algorithm on an input
  storeFaults

storeVars == <<rows, storeJob, storeTip, kept, stored, sealedProofs, proofRegistry, recordFile, storeExam, storeFaults>>

---------------------------------------------------------------------------
\* chain_records: one-byte prefixes within a column family.
Column ==
  [block |-> "blocks", hash |-> "blocks", tx |-> "txIndex", receipt |-> "receipts", event |-> "nativeEvents",
   state |-> "state", mptRoot |-> "state", mptNode |-> "state", proof |-> "checkpointProofs"]
KeyPrefix ==
  [block |-> <<1>>, hash |-> <<2>>, state |-> <<3>>, mptRoot |-> <<4>>, mptNode |-> <<5>>, event |-> <<16>>,
   tx |-> <<>>, receipt |-> <<>>, proof |-> <<>>]

\* height_be_key
BigEndian(n) == <<n \div 4, n % 4>>

\* scope_storage_key: with one shard the key is bare.
ScopeKey(s, key) == IF Cardinality(StoreShards) <= 1 THEN key ELSE <<s>> \o key

\* The key of a row; x is the encoded height, hash or position.
RowKey(s, kind, x) == <<Column[kind], ScopeKey(s, KeyPrefix[kind] \o x)>>

\* header_hash and the hash that clients know a transaction by: that of its
\* Ethereum form if there is one.
HeaderHash(s, h) == <<7, s, h>>
RpcHash(tx) == IF tx.eth # <<>> THEN tx.eth ELSE tx.hash

PutOp(s, kind, x, val) == [op |-> "put", key |-> RowKey(s, kind, x), val |-> val]
DeleteOp(s, kind, x) == [op |-> "delete", key |-> RowKey(s, kind, x), val |-> <<>>]

---------------------------------------------------------------------------
\* persist_block_indexes_v1: the block, its hash, then a transaction at a time.
IndexOps(s, h) ==
  <<PutOp(s, "block", BigEndian(h), <<s, h>>), PutOp(s, "hash", HeaderHash(s, h), <<h>>)>>
  \o FlattenSeq([i \in DOMAIN TxsOf[<<s, h>>] |->
       LET tx == TxsOf[<<s, h>>][i]
       IN <<PutOp(s, "tx", RpcHash(tx), <<h, i>>), PutOp(s, "receipt", RpcHash(tx), <<h, i>>)>>
          \o (IF tx.native THEN <<PutOp(s, "event", Append(BigEndian(h), i), <<h, i>>)>> ELSE <<>>)])

\* persist_state_at_height_v1, persist_evm_account_mpt_to_cf_state: the root
\* before its nodes; a node is known by its hash and shared by many heights.
StateOps(s, h) ==
  <<PutOp(s, "state", BigEndian(h), <<s, h>>), PutOp(s, "mptRoot", BigEndian(h), <<h>>)>>
  \o SetToSeq({PutOp(s, "mptNode", n, n) : n \in NodesOf[<<s, h>>]})

\* persist_block_commit_v1
CommitOps(s, h) == IndexOps(s, h) \o StateOps(s, h)

\* Seeded defect: the block row goes first.
PruneOpsBlockFirst(s, h) ==
  (IF RowKey(s, "block", BigEndian(h)) \notin DOMAIN rows THEN <<>>
   ELSE <<DeleteOp(s, "block", BigEndian(h)), DeleteOp(s, "hash", HeaderHash(s, h))>>
        \o FlattenSeq([i \in DOMAIN TxsOf[<<s, h>>] |->
             LET tx == TxsOf[<<s, h>>][i]
             IN <<DeleteOp(s, "tx", RpcHash(tx)), DeleteOp(s, "receipt", RpcHash(tx)),
                  DeleteOp(s, "event", Append(BigEndian(h), i))>>]))
  \o <<DeleteOp(s, "state", BigEndian(h)), DeleteOp(s, "mptRoot", BigEndian(h))>>

\* prune_execution_height_v1: what hangs on the block row is deleted before it,
\* the trie nodes stay.
PruneOps(s, h) ==
  (IF RowKey(s, "block", BigEndian(h)) \notin DOMAIN rows THEN <<>>
   ELSE <<DeleteOp(s, "hash", HeaderHash(s, h))>>
        \o FlattenSeq([i \in DOMAIN TxsOf[<<s, h>>] |->
             LET tx == TxsOf[<<s, h>>][i]
             IN <<DeleteOp(s, "tx", RpcHash(tx)), DeleteOp(s, "receipt", RpcHash(tx))>>
                \o (IF tx.native THEN <<DeleteOp(s, "event", Append(BigEndian(h), i))>> ELSE <<>>)]))
  \o <<DeleteOp(s, "block", BigEndian(h)), DeleteOp(s, "state", BigEndian(h)), DeleteOp(s, "mptRoot", BigEndian(h))>>

---------------------------------------------------------------------------
\* The account trie.  An account's RLP is longer than 32 bytes, so every node
\* is stored under its hash, and a hash names one node: it is the node.
LeafNode(path, val) == [t |-> "leaf", path |-> path, val |-> val, kids |-> Empty]
ExtensionNode(path, kid) == [t |-> "extension", path |-> path, val |-> <<>>, kids |-> (0 :> kid)]
BranchNode(kids) == [t |-> "branch", path |-> <<>>, val |-> <<>>, kids |-> kids]

\* common_prefix_len of a set of keys
CommonPrefix(keys) ==
  LET first == CHOOSE k \in keys : TRUE
  IN Max({n \in 0 .. Len(first) : \A k \in keys : n <= Len(k) /\ SubSeq(k, 1, n) = SubSeq(first, 1, n)})

\* for n in 0u8..16u8
Nibbles == 0 .. LastNibble

\* build_trie: from (key, value) pairs to the root and the nodes stored; what
\* is left of the pairs further down is a set of their suffixes.
BuildTrie(entries) ==
  LET cut(S, m) == {<<SubSeq(e[1], m + 1, Len(e[1])), e[2]>> : e \in S}
      suffixes == UNION {cut(entries, m) : m \in 0 .. Max({Len(e[1]) : e \in entries})}
      build[S \in SUBSET suffixes] ==
        LET keys == {e[1] : e \in S}
            n == CommonPrefix(keys)
        IN IF Cardinality(S) = 1
           THEN LET e == CHOOSE e \in S : TRUE
                    node == LeafNode(e[1], e[2])
                IN [root |-> node, nodes |-> {node}]
           ELSE IF n > 0
           THEN LET sub == build[cut(S, n)]
                    node == ExtensionNode(SubSeq(CHOOSE k \in keys : TRUE, 1, n), sub.root)
                IN [root |-> node, nodes |-> sub.nodes \cup {node}]
           ELSE LET used == {d \in Nibbles : \E k \in keys : k[1] = d}
                    sub == [d \in used |-> build[cut({e \in S : e[1][1] = d}, 1)]]
                    node == BranchNode([d \in used |-> sub[d].root])
                IN [root |-> node, nodes |-> UNION {sub[d].nodes : d \in used} \cup {node}]
  IN build[entries]

\* What a reader finds under a key that knows the root and the stored nodes.
TrieLookup(root, nodes, key) ==
  LET find[node \in nodes, at \in 0 .. Len(key)] ==
        LET rest == SubSeq(key, at + 1, Len(key))
            follow(kid, n) == IF kid \in nodes THEN find[kid, at + n] ELSE <<"missing">>
        IN CASE node.t = "leaf" -> IF node.path = rest THEN node.val ELSE <<"absent">>
             [] node.t = "extension" -> IF IsPrefix(node.path, rest) THEN follow(node.kids[0], Len(node.path)) ELSE <<"absent">>
             [] node.t = "branch" -> IF rest # <<>> /\ rest[1] \in DOMAIN node.kids
                                     THEN follow(node.kids[rest[1]], 1) ELSE <<"absent">>
  IN IF root \in nodes THEN find[root, 0] ELSE <<"missing">>

---------------------------------------------------------------------------
\* snapshot_v2_chunks; ok says whether a chunk's hash is that of its bytes.
SnapshotChunks(bytes, size) ==
  [i \in 1 .. ((Len(bytes) + size - 1) \div size) |->
     [index |-> i - 1, bytes |-> SubSeq(bytes, size * (i - 1) + 1, Min({size * i, Len(bytes)})), ok |-> TRUE]]

\* reassemble_snapshot_v2_chunks; the hash of the state stands for the state.
Reassembled(chunks, len, hash) ==
  LET out == FlattenSeq([i \in DOMAIN chunks |-> chunks[i].bytes])
  IN (\A i \in DOMAIN chunks : chunks[i].index = i - 1 /\ chunks[i].ok) /\ Len(out) = len /\ out = hash

---------------------------------------------------------------------------
(* The node's thread *)
NoStoreJob == [kind |-> "none", shard |-> 0, height |-> 0, cap |-> 0, ops |-> <<>>, failed |-> FALSE]
UseRows == [kind |-> "database"]
UseProofs == [kind |-> "proofs"]
UseFile == [kind |-> "file"]
NoRecording == [height |-> 0, version |-> 0, step |-> "idle"]
Heights == 1 .. Max({MaxStored[s] : s \in StoreShards})
Places == {p \in StoreShards \X Heights : p[2] <= MaxStored[p[1]]}

\* The proofs may have a database of their own (rocksdb_path).
StoreInit ==
  /\ \/ storeExam \in {UseRows, UseProofs, UseFile}
     \/ \E keys \in TrieInputs : storeExam = [kind |-> "trie", keys |-> keys]
     \/ \E bytes \in StateBytes, size \in 1 .. 3 : storeExam = [kind |-> "cut", bytes |-> bytes, size |-> size]
  /\ rows = Empty /\ storeJob = NoStoreJob
  /\ storeTip = [s \in StoreShards |-> IF storeExam = UseProofs THEN MaxStored[s] ELSE 0] /\ kept = [s \in StoreShards |-> {}]
  /\ stored = [p \in Places |-> "none"] /\ sealedProofs = {}
  /\ proofRegistry = [entries |-> Empty, files |-> Empty, recording |-> NoRecording, reading |-> NoRecording,
                 version |-> 0, rocks |-> Empty, raced |-> {}]
  /\ recordFile = [file |-> {"missing"}, tmp |-> {}, putting |-> {}, acked |-> {}]
  /\ storeFaults = 0

InUse == storeExam \in {UseRows, UseProofs}

\* A block is committed in memory, then on disk.
BeginCommit(s) ==
  /\ InUse /\ storeJob = NoStoreJob /\ storeTip[s] < MaxStored[s]
  /\ LET h == storeTip[s] + 1
     IN /\ storeTip' = [storeTip EXCEPT ![s] = h] /\ kept' = [kept EXCEPT ![s] = @ \cup {h}]
        /\ storeJob' = [kind |-> "commit", shard |-> s, height |-> h, cap |-> 0, ops |-> CommitOps(s, h), failed |-> FALSE]
        /\ stored' = [stored EXCEPT ![<<s, h>>] = "partial"]
  /\ UNCHANGED <<rows, sealedProofs, proofRegistry, recordFile, storeExam, storeFaults>>

\* A block whose commit did not end is synchronised and committed again.
Recommit(s, h) ==
  /\ InUse /\ storeJob = NoStoreJob /\ h <= storeTip[s] /\ stored[<<s, h>>] = "partial" /\ h \in kept[s]
  /\ storeJob' = [kind |-> "commit", shard |-> s, height |-> h, cap |-> 0, ops |-> CommitOps(s, h), failed |-> FALSE]
  /\ UNCHANGED <<rows, storeTip, kept, stored, sealedProofs, proofRegistry, recordFile, storeExam, storeFaults>>

\* max_proved_end_block of the proofs in a masterchain block, of every shard.
ProvedEnd(proofs) == Max({p.end : p \in proofs})

\* prune_execution_history: not the last KeepBelow blocks.
PruneCap(s, proofs) == Min({ProvedEnd(proofs), Minus(storeTip[s], KeepBelow)})

PruneHeight(s, h, cap) ==
  [kind |-> "prune", shard |-> s, height |-> h, cap |-> cap, failed |-> FALSE,
   ops |-> Append(PruneOps(s, h), DeleteOp(s, "proof", BigEndian(h)))]

\* maybe_prune_after_masterchain_seal, at the node of shard s.
SealAndPrune(s, proofs) ==
  /\ InUse /\ storeJob = NoStoreJob
  /\ sealedProofs' = sealedProofs \cup UNION {{p.shard} \X (p.start .. p.end) : p \in proofs}
  /\ \E cap \in {PruneCap(s, proofs)} :
       /\ cap > 0
       /\ kept' = [kept EXCEPT ![s] = {h \in @ : h > cap}]
       /\ storeJob' = PruneHeight(s, 1, cap)
       /\ stored' = [stored EXCEPT ![<<s, 1>>] = "partial"]
  /\ UNCHANGED <<rows, storeTip, proofRegistry, recordFile, storeExam, storeFaults>>

\* put_raw or delete_raw of the next row.
WriteRow ==
  /\ storeJob.ops # <<>>
  /\ LET o == Head(storeJob.ops)
     IN rows' = IF o.op = "put" THEN Put(rows, o.key, o.val) ELSE Without(rows, {o.key})
  /\ storeJob' = [storeJob EXCEPT !.ops = Tail(@)]
  /\ UNCHANGED <<storeTip, kept, stored, sealedProofs, proofRegistry, recordFile, storeExam, storeFaults>>

\* A write fails: a commit gives up; a pruning goes on with the height's proof.
WriteFails ==
  /\ storeJob.ops # <<>> /\ storeFaults < MaxStoreFaults /\ storeFaults' = storeFaults + 1
  /\ storeJob' = IF storeJob.kind = "commit" THEN NoStoreJob
                 ELSE [storeJob EXCEPT !.failed = TRUE,
                                       !.ops = IF Len(@) > 1 THEN <<Last(@)>> ELSE <<>>]
  /\ UNCHANGED <<rows, storeTip, kept, stored, sealedProofs, proofRegistry, recordFile, storeExam>>

\* The last row of a height is written; a pruning goes on with the next height.
EndHeight ==
  /\ storeJob # NoStoreJob /\ storeJob.ops = <<>>
  /\ LET j == storeJob
         next == <<j.shard, j.height + 1>>
         now == [stored EXCEPT ![<<j.shard, j.height>>] =
                   IF j.kind = "commit" THEN "complete" ELSE IF j.failed THEN "partial" ELSE "gone"]
     IN IF j.kind = "prune" /\ j.height < j.cap
        THEN storeJob' = PruneHeight(j.shard, j.height + 1, j.cap) /\ stored' = [now EXCEPT ![next] = "partial"]
        ELSE storeJob' = NoStoreJob /\ stored' = now
  /\ UNCHANGED <<rows, storeTip, kept, sealedProofs, proofRegistry, recordFile, storeExam, storeFaults>>

---------------------------------------------------------------------------
(* The proof registry of shard Home, with a database and a directory. *)
Home == Min(StoreShards)
ProofKey(h) == RowKey(Home, "proof", BigEndian(h))

\* build_persisted_checkpoint_proof gave a new version for a height; record
\* begins with the database.
BeginRecord(h) ==
  /\ storeExam = UseProofs /\ proofRegistry.recording = NoRecording /\ h <= storeTip[Home] /\ proofRegistry.version < 2
  /\ proofRegistry' = [proofRegistry EXCEPT !.recording = [height |-> h, version |-> proofRegistry.version + 1, step |-> "rocks"],
                                  !.version = @ + 1]
  /\ UNCHANGED <<rows, storeJob, storeTip, kept, stored, sealedProofs, recordFile, storeExam, storeFaults>>

\* persist_durable: put_proof_blob, whose error is only logged.
RecordInRocks(ok) ==
  /\ proofRegistry.recording.step = "rocks"
  /\ ok \/ storeFaults < MaxStoreFaults
  /\ storeFaults' = IF ok THEN storeFaults ELSE storeFaults + 1
  /\ LET r == proofRegistry.recording
     IN /\ rows' = IF ok THEN Put(rows, ProofKey(r.height), <<r.version>>) ELSE rows
        /\ proofRegistry' = [proofRegistry EXCEPT !.recording.step = "file",
                                        !.rocks = IF ok THEN Put(@, r.height, r.version) ELSE @]
  /\ UNCHANGED <<storeJob, storeTip, kept, stored, sealedProofs, recordFile, storeExam>>

\* The sidecar is written in place: until it is whole it cannot be decoded.
RecordInFile ==
  /\ proofRegistry.recording.step \in {"file", "whole"}
  /\ LET r == proofRegistry.recording
     IN proofRegistry' = IF r.step = "file"
                    THEN [proofRegistry EXCEPT !.files = Put(@, r.height, 0), !.recording.step = "whole"]
                    ELSE [proofRegistry EXCEPT !.files = Put(@, r.height, r.version), !.recording.step = "memory"]
  /\ UNCHANGED <<rows, storeJob, storeTip, kept, stored, sealedProofs, recordFile, storeExam, storeFaults>>

\* entries.insert, under the lock.
RecordInMemory ==
  /\ proofRegistry.recording.step = "memory"
  /\ proofRegistry' = [proofRegistry EXCEPT !.entries = Put(@, proofRegistry.recording.height, proofRegistry.recording.version),
                                  !.recording = NoRecording,
                                  !.raced = IF proofRegistry.reading.height = proofRegistry.recording.height
                                            THEN @ \cup {proofRegistry.recording.height}
                                            ELSE @ \ {proofRegistry.recording.height}]
  /\ UNCHANGED <<rows, storeJob, storeTip, kept, stored, sealedProofs, recordFile, storeExam, storeFaults>>

\* get, past the memory: the database, then the sidecar; 0 is None.
FoundOnDisk(h) ==
  IF ProofKey(h) \in DOMAIN rows THEN rows[ProofKey(h)][1] ELSE Get(proofRegistry.files, h, 0)

\* get reads the disk without the lock and inserts what it found later.
BeginRead(h) ==
  /\ storeExam = UseProofs /\ proofRegistry.reading = NoRecording /\ h \notin DOMAIN proofRegistry.entries /\ FoundOnDisk(h) # 0
  /\ proofRegistry' = [proofRegistry EXCEPT !.reading = [height |-> h, version |-> FoundOnDisk(h), step |-> "insert"]]
  /\ UNCHANGED <<rows, storeJob, storeTip, kept, stored, sealedProofs, recordFile, storeExam, storeFaults>>
EndRead ==
  /\ proofRegistry.reading # NoRecording
  /\ proofRegistry' = [proofRegistry EXCEPT !.entries = Put(@, proofRegistry.reading.height, proofRegistry.reading.version),
                                  !.reading = NoRecording]
  /\ UNCHANGED <<rows, storeJob, storeTip, kept, stored, sealedProofs, recordFile, storeExam, storeFaults>>

\* What get returns now.
Served(h) == IF h \in DOMAIN proofRegistry.entries THEN proofRegistry.entries[h] ELSE FoundOnDisk(h)

---------------------------------------------------------------------------
(* ProofFinalityStore and WitnessMetadataStore: a file of records.  A file is
   the set of its content, {"torn"} while it is being written. *)
StoreUnchanged == UNCHANGED <<rows, storeJob, storeTip, kept, stored, sealedProofs, proofRegistry, storeExam>>

\* open: an empty file is written in place when there is none; cut short by a
\* crash it is there and cannot be read.
OpenStore(ok) ==
  /\ storeExam = UseFile /\ recordFile.file = {"missing"}
  /\ ok \/ storeFaults < MaxStoreFaults
  /\ storeFaults' = IF ok THEN storeFaults ELSE storeFaults + 1
  /\ recordFile' = [recordFile EXCEPT !.file = IF ok THEN {} ELSE {"torn"}]
  /\ StoreUnchanged

\* put_record: the records are loaded and written to a temporary file, ...
PutRecord(r) ==
  /\ storeExam = UseFile /\ recordFile.putting = {} /\ recordFile.file \subseteq StoreRecords
  /\ r \notin recordFile.acked
  /\ recordFile' = [recordFile EXCEPT !.putting = {r}, !.tmp = {"torn"}]
  /\ StoreUnchanged /\ UNCHANGED storeFaults
WriteTemporary ==
  /\ recordFile.putting # {} /\ recordFile.tmp = {"torn"}
  /\ recordFile' = [recordFile EXCEPT !.tmp = recordFile.file \cup recordFile.putting]
  /\ StoreUnchanged /\ UNCHANGED storeFaults

\* ... which is then renamed.
Rename ==
  /\ recordFile.putting # {} /\ recordFile.tmp # {"torn"}
  /\ recordFile' = [recordFile EXCEPT !.file = recordFile.tmp, !.tmp = {}, !.putting = {}, !.acked = @ \cup recordFile.putting]
  /\ StoreUnchanged /\ UNCHANGED storeFaults

---------------------------------------------------------------------------
\* The process crashes: the work under way and the memory are gone.  The node
\* synchronises its chain again.
StoreCrash ==
  /\ storeExam \in {UseRows, UseProofs, UseFile} /\ storeFaults < MaxStoreFaults /\ storeFaults' = storeFaults + 1
  /\ storeJob' = NoStoreJob
  /\ proofRegistry' = [proofRegistry EXCEPT !.entries = Empty, !.recording = NoRecording, !.reading = NoRecording,
                                            !.raced = {}]
  /\ recordFile' = [recordFile EXCEPT !.putting = {}]
  /\ UNCHANGED <<rows, storeTip, kept, stored, sealedProofs, storeExam>>

StoreNext ==
  \/ \E s \in StoreShards : BeginCommit(s) \/ \E h \in Heights : Recommit(s, h)
  \/ \E s \in StoreShards, proofs \in SealedProofs :
       (\A p \in proofs : p.end <= storeTip[p.shard]) /\ SealAndPrune(s, proofs)
  \/ WriteRow \/ WriteFails \/ EndHeight
  \/ (\E h \in Heights : BeginRecord(h) \/ BeginRead(h)) \/ (\E ok \in BOOLEAN : RecordInRocks(ok))
  \/ RecordInFile \/ RecordInMemory \/ EndRead
  \/ (\E ok \in BOOLEAN : OpenStore(ok)) \/ (\E r \in StoreRecords : PutRecord(r)) \/ WriteTemporary \/ Rename
  \/ StoreCrash

StoreSpec == StoreInit /\ [][StoreNext]_storeVars

---------------------------------------------------------------------------
(* Properties *)

\* All rows of a block that was committed are there with their values, whatever
\* was committed and pruned since for other heights and shards and however
\* often a commit was cut short and repeated: no two rows share a key, and no
\* pruning takes a row or a trie node that another block needs.
CommittedIsServed ==
  \A p \in Places : stored[p] = "complete" =>
    \A i \in DOMAIN CommitOps(p[1], p[2]) :
      LET o == CommitOps(p[1], p[2])[i] IN o.key \in DOMAIN rows /\ rows[o.key] = o.val

\* A pruning that came to its end left no row of the height but trie nodes,
\* also if it was cut short before and repeated, and kept the blocks near the tip.
PrunedIsGone ==
  \A p \in Places : stored[p] = "gone" =>
    /\ p[2] + KeepBelow <= storeTip[p[1]] /\ p[2] \notin kept[p[1]]
    /\ \A i \in DOMAIN CommitOps(p[1], p[2]) :
         LET o == CommitOps(p[1], p[2])[i] IN o.key \in DOMAIN rows => o.val \in NodesOf[p]

\* A proof that the database took is found on disk with the latest version, after a
\* crash too, until it is pruned: the sidecar that is being written does not hide it.
\* Memory answers with an older one only while the newer is being recorded, or for
\* good (until the next record or restart) when a get that had read the disk before
\* the record ended puts back what it found.
ProofIsServed ==
  \A h \in DOMAIN proofRegistry.rocks : ProofKey(h) \in DOMAIN rows =>
    /\ FoundOnDisk(h) = proofRegistry.rocks[h]
    /\ Served(h) < proofRegistry.rocks[h] => proofRegistry.recording.height = h \/ h \in proofRegistry.raced

\* Every record whose put returned is read again, after any crash.
RecordsSurvive ==
  recordFile.acked # {} => recordFile.file \subseteq StoreRecords /\ recordFile.acked \subseteq recordFile.file

\* A reader with the root and the stored nodes finds exactly the accounts.
TrieResolves ==
  storeExam.kind = "trie" =>
    \E built \in {BuildTrie({<<k, k>> : k \in storeExam.keys})} :
      \A k \in storeExam.keys : TrieLookup(built.root, built.nodes, k) = k

\* A state cut into chunks of any size, the last one short or not, is joined again.
StateIsReassembled ==
  storeExam.kind = "cut" =>
    Reassembled(SnapshotChunks(storeExam.bytes, storeExam.size), Len(storeExam.bytes), storeExam.bytes)

\* Only blocks that a sealed validity proof of their shard covers are pruned.
PrunedWasProved ==
  \A p \in Places : stored[p] = "gone" => p \in sealedProofs

\* The store (fractal_db.rs, persist.rs, storage/src/lib.rs): with a stop
\* between any two writes, what was committed and not pruned is served whole,
\* what was pruned is gone, the latest proof is on disk and served unless a read
\* raced with its record, acknowledged records survive, tries resolve every
\* account and a state is joined from its chunks.
StoreSafe ==
  /\ CommittedIsServed /\ PrunedIsGone /\ ProofIsServed /\ RecordsSurvive
  /\ TrieResolves /\ StateIsReassembled

=============================================================================
