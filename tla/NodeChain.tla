----------------------------- MODULE NodeChain -----------------------------
(***************************************************************************)
(* The chain of a producer node and of the followers that replay it        *)
(* (crates/node/src/lib.rs, crates/consensus/src/lib.rs): building a block *)
(* from the mempool, applying a synced block, pruning, snapshots to disk,  *)
(* and restarts from them.                                                 *)
(*                                                                         *)
(* The state of a chain is abstracted to what was executed on it: an       *)
(* account's nonce is the number of its transactions that were, and a      *)
(* state root is the state itself.  A header hash is the time at which the *)
(* block was built, which is part of the header.  A block's view is its    *)
(* height minus one: both grow by one with every commit.  Sync responses   *)
(* may arrive late and more than once.                                     *)
(***************************************************************************)
EXTENDS ValidatorSet, Naturals, Sequences, SequencesExt, Functions

CONSTANTS   \* of the transaction pool
  Txs,        \* transactions
  Owned,      \* those with an Owned execution scope
  ObjectsOf,  \* the owned objects in the scope of an Owned transaction
  Priority,   \* max_priority_fee_per_gas
  MaxFee,     \* max_fee_per_gas
  Gas,        \* tx_gas_limit, all of which is used
  BlockGas,   \* the gas limit of a block
  MinBaseFee, TargetGas, FeeDenominator  \* BaseFeeParams

ASSUME MempoolAssumption ==
  /\ Owned \subseteq Txs
  /\ Priority \in [Txs -> Nat] /\ MaxFee \in [Txs -> Nat]
  /\ Gas \in [Txs -> Nat \ {0}]
  /\ BlockGas \in Nat
  /\ MinBaseFee \in Nat /\ TargetGas \in Nat \ {0} /\ FeeDenominator \in Nat \ {0}

CONSTANTS
  AccountOf,         \* the signer of a transaction
  NonceOf,           \* its nonce
  Invalid,           \* transactions whose execution fails whatever the nonce
  Producer,          \* the node that runs producer_loop
  Followers,         \* the nodes that sync from it
  ProducerIndex,     \* validator_index of the producer
  Retention,         \* block_retention
  PruneBatch,        \* BLOCK_PRUNE_BATCH
  SnapshotInterval,  \* snapshot_interval_blocks
  Emission,          \* whether the chain economics mint block rewards
  MaxTicks,          \* bound: ticks of producer_loop that reach the builder
  MaxSubmits,        \* bound: submitted transactions
  MayCrash,          \* nodes that may crash
  MaxCrashes         \* bound: crashes

ASSUME NodeChainAssumption ==
  /\ Invalid \subseteq Txs
  /\ NonceOf \in [Txs -> Nat]
  /\ Producer \notin Followers
  /\ ProducerIndex \in Validators
  /\ Retention \in Nat \ {0} /\ PruneBatch \in Nat \ {0} /\ SnapshotInterval \in Nat \ {0}
  /\ Emission \in BOOLEAN
  /\ MaxTicks \in Nat /\ MaxSubmits \in Nat /\ MaxCrashes \in Nat
  /\ MayCrash \subseteq Followers \cup {Producer}

Nodes == Followers \cup {Producer}

VARIABLES
  mempool,    \* the producer's pending transactions
  chain,      \* chain[n]: the blocks n has committed since genesis
  kept,       \* kept[n]: how many of them it retains, the last ones
  state,      \* state[n]: the state n executes on
  mined,      \* mined[n]: mined_txs, as pairs of a transaction and a hash
  disk,       \* disk[n]: the last snapshot n persisted
  built,      \* the blocks the producer ever built and may have served
  committed,  \* what nodes ever committed, and voted for: node, height, hash
  ticks, submits, crashes  \* how often each happened

vars == <<mempool, chain, kept, state, mined, disk, built, committed, ticks, submits, crashes>>

-----------------------------------------------------------------------------
(* The transaction pool (crates/mempool/src/lib.rs): how a block's         *)
(* transactions are drained from it, and how the base fee moves with the   *)
(* gas that blocks use.  The block payload mode is Legacy, so the payload  *)
(* filter takes every transaction.                                         *)

Greater(a, b) == IF a > b THEN a ELSE b

\* next_base_fee.  A fee below FeeDenominator is too small to fall.
NextBaseFee(fee, used) ==
  LET f == Greater(fee, MinBaseFee)
      step(delta) == ((f * delta) \div TargetGas) \div FeeDenominator
  IN IF used > TargetGas
     THEN f + Greater(step(used - TargetGas), 1)
     ELSE Greater(f - step(TargetGas - used), MinBaseFee)

\* The order of the drain: owned-object transactions first, then by fee.
Before(a, b) ==
  \/ a \in Owned /\ b \notin Owned
  \/ (a \in Owned <=> b \in Owned) /\ Priority[a] > Priority[b]

\* pending.sort_by, which is stable.
Insert(sorted, t) ==
  InsertAt(sorted, 1 + Cardinality({i \in DOMAIN sorted : ~Before(t, sorted[i])}), t)

SortPending(pool) == FoldLeft(Insert, <<>>, pool)

\* Seeded defect: the gas limit is checked before the transaction is added.
FitsBefore(acc, t) == acc.used <= BlockGas

Fits(acc, t) == acc.used + Gas[t] <= BlockGas

\* No transaction taken before has an owned object of t in its scope.
NoClash(acc, t) == t \in Owned => ObjectsOf[t] \cap acc.objects = {}

\* The transaction offers the base fee.
PaysBaseFee(t, fee) == MaxFee[t] >= fee

\* One turn of the loop of drain_ready_gas_budget_filtered.
Take(acc, t, fee) ==
  IF PaysBaseFee(t, fee) /\ Fits(acc, t) /\ NoClash(acc, t)
  THEN [taken   |-> Append(acc.taken, t),
        rest    |-> acc.rest,
        used    |-> acc.used + Gas[t],
        objects |-> IF t \in Owned THEN acc.objects \cup ObjectsOf[t] ELSE acc.objects]
  ELSE [acc EXCEPT !.rest = Append(@, t)]

\* drain_ready_gas_budget_filtered: what goes into the block and what stays.
Drain(pool, fee) ==
  FoldLeft(LAMBDA acc, t : Take(acc, t, fee),
           [taken |-> <<>>, rest |-> <<>>, used |-> 0, objects |-> {}],
           SortPending(pool))

-----------------------------------------------------------------------------
(* The chain.                                                              *)

Genesis == 0   \* genesis_parent_hash

\* What was executed: transactions, and the heights that minted emission.
States == [done: SUBSET Txs, minted: SUBSET Nat]

GenesisState == [done |-> {}, minted |-> {}]

Blocks == [hash: Nat \ {0}, height: Nat \ {0}, parent: Nat, txs: Seq(Txs), root: States]

\* A NodeDiskSnapshotV1.  Without one a node starts from genesis.
Snapshots == [chain: Seq(Blocks), kept: Nat, state: States]

NoSnapshot == [chain |-> <<>>, kept |-> 0, state |-> GenesisState]

HeadOf(c) == IF c = <<>> THEN Genesis ELSE Last(c).hash

TxsIn(c) == UNION {Range(c[i].txs) : i \in DOMAIN c}

\* gas_used of a block with the transactions txs.
GasUsed(txs) == FoldLeft(LAMBDA sum, t : sum + Gas[t], 0, txs)

\* base_fee of a node whose chain is c: every commit moves it, and a snapshot
\* keeps it with the chain.
BaseFee(c) == FoldLeft(LAMBDA fee, b : NextBaseFee(fee, GasUsed(b.txs)), 1, c)
-----------------------------------------------------------------------------
\* The nonce of account a where the transactions in done were executed.
Nonce(done, a) == Cardinality({t \in done : AccountOf[t] = a})

\* apply_transaction_with_evm succeeds for the i-th transaction of a block.
Applies(done, txs, i) ==
  /\ txs[i] \notin Invalid
  /\ NonceOf[txs[i]] = Nonce(done \cup {txs[j] : j \in 1 .. i - 1}, AccountOf[txs[i]])

\* The transactions apply_block_with_evm applies before the first that fails.
AppliedPrefix(done, txs) ==
  {i \in DOMAIN txs : \A j \in 1 .. i : Applies(done, txs, j)}

\* apply_block_with_evm returns Ok.
Succeeds(s, txs) == AppliedPrefix(s.done, txs) = DOMAIN txs

\* The state apply_block_with_evm leaves, also when it fails.
Executed(s, txs) ==
  [s EXCEPT !.done = @ \cup {txs[i] : i \in AppliedPrefix(s.done, txs)}]

\* mint_protocol_emission_for_block, which only execute_and_build_block calls.
Minted(s, height) ==
  IF Emission THEN [s EXCEPT !.minted = @ \cup {height - 1}] ELSE s

\* Seeded defect: one block too few is retained.
PrunedShort(k) == IF k > Retention THEN Retention - 1 ELSE k

\* prune_runtime_history
Pruned(k) == IF k > Retention THEN Retention ELSE k

\* Seeded defect: all blocks are dropped.
KeptAfterClear(k, height) == IF height % PruneBatch = 0 THEN 0 ELSE k

\* maintain_runtime_history_after_commit, the blocks.
KeptAfter(k, height) == IF height % PruneBatch = 0 THEN Pruned(k) ELSE k

\* sync_rpc_index_from_block
Indexed(b) == {<<t, b.hash>> : t \in Range(b.txs)}

\* What a node does with a block it has executed, from advancing the head to
\* the snapshot.  A snapshot that cannot be written is logged, and the one
\* before it stays: the file is replaced by a rename.
Commit(n, b, s) ==
  LET c == Append(chain[n], b)
      k == KeptAfter(kept[n] + 1, b.height)
  IN /\ chain' = [chain EXCEPT ![n] = c]
     /\ kept' = [kept EXCEPT ![n] = k]
     /\ state' = [state EXCEPT ![n] = s]
     /\ mined' = [mined EXCEPT ![n] = @ \cup Indexed(b)]
     /\ committed' = committed \cup {<<n, b.height, b.hash>>}
     /\ \/ /\ b.height % SnapshotInterval = 0
           /\ disk' = [disk EXCEPT ![n] = [chain |-> c, kept |-> k, state |-> s]]
        \/ disk' = disk

\* Seeded defect: a block is taken for the next by its height alone.
ExtendsByHeight(n, b) == b.height = Len(chain[n]) + 1

\* validate_synced_block_envelope.  The parent's header must be retained; the
\* expected parent QC hash and proposer follow from the parent and the view.
ExtendsChain(n, b) ==
  /\ b.height = Len(chain[n]) + 1
  /\ b.parent = HeadOf(chain[n])
  /\ Len(chain[n]) = 0 \/ kept[n] > 0

\* Seeded defect: the replayed state root is not compared with the header's.
ReplayOk(n, b) == Succeeds(state[n], b.txs)

\* The checks of apply_synced_block_replay_full_transactions.
ReplayMatches(n, b) ==
  /\ Succeeds(state[n], b.txs)
  /\ Executed(state[n], b.txs) = b.root

IsMyTurn == LeaderIndex(Len(chain[Producer])) = ProducerIndex

\* Seeded defect: the index of mined transactions survives a restart.
ReindexedOnTop(n, s) ==
  mined[n] \cup UNION {Indexed(s.chain[i]) : i \in Len(s.chain) - s.kept + 1 .. Len(s.chain)}

\* The index restore_disk_snapshot rebuilds from the retained blocks.
Reindexed(n, s) ==
  UNION {Indexed(s.chain[i]) : i \in Len(s.chain) - s.kept + 1 .. Len(s.chain)}
-----------------------------------------------------------------------------
Init ==
  /\ mempool = <<>>
  /\ chain = [n \in Nodes |-> <<>>]
  /\ kept = [n \in Nodes |-> 0]
  /\ state = [n \in Nodes |-> GenesisState]
  /\ mined = [n \in Nodes |-> {}]
  /\ disk = [n \in Nodes |-> NoSnapshot]
  /\ built = {}
  /\ committed = {}
  /\ ticks = 0 /\ submits = 0 /\ crashes = 0

\* submit_raw_tx: the pool keeps duplicates.
Submit(t) ==
  /\ submits < MaxSubmits
  /\ submits' = submits + 1
  /\ mempool' = Append(mempool, t)
  /\ UNCHANGED <<chain, kept, state, mined, disk, built, committed, ticks, crashes>>

\* try_produce_one_tick where the block is built (Produced).
Produce ==
  /\ ticks < MaxTicks
  /\ IsMyTurn
  /\ LET d == Drain(mempool, BaseFee(chain[Producer]))
         height == Len(chain[Producer]) + 1
         s == Minted(Executed(state[Producer], d.taken), height)
         b == [hash |-> ticks + 1, height |-> height, parent |-> HeadOf(chain[Producer]),
               txs |-> d.taken, root |-> s]
     IN /\ Succeeds(state[Producer], d.taken)
        /\ mempool' = d.rest
        /\ built' = built \cup {b}
        /\ Commit(Producer, b, s)
  /\ ticks' = ticks + 1
  /\ UNCHANGED <<submits, crashes>>

\* try_produce_one_tick where a transaction fails (BuildFailed): the drained
\* transactions are gone, the state keeps what was applied before the failure.
BuildFails ==
  /\ ticks < MaxTicks
  /\ IsMyTurn
  /\ LET d == Drain(mempool, BaseFee(chain[Producer]))
     IN /\ ~Succeeds(state[Producer], d.taken)
        /\ mempool' = d.rest
        /\ state' = [state EXCEPT ![Producer] = Executed(@, d.taken)]
  /\ ticks' = ticks + 1
  /\ UNCHANGED <<chain, kept, mined, disk, built, committed, submits, crashes>>

\* apply_synced_block.  A block that fails a check changes nothing: the replay
\* runs on a copy of the state.
ApplySynced(f, b) ==
  /\ ExtendsChain(f, b)
  /\ ReplayMatches(f, b)
  /\ Commit(f, b, Executed(state[f], b.txs))
  /\ UNCHANGED <<mempool, built, ticks, submits, crashes>>

\* A node stops and starts again: restore_disk_snapshot.
Restart(n) ==
  /\ crashes < MaxCrashes
  /\ crashes' = crashes + 1
  /\ chain' = [chain EXCEPT ![n] = disk[n].chain]
  /\ kept' = [kept EXCEPT ![n] = Pruned(disk[n].kept)]
  /\ state' = [state EXCEPT ![n] = disk[n].state]
  /\ mined' = [mined EXCEPT ![n] = Reindexed(n, disk[n])]
  /\ mempool' = IF n = Producer THEN <<>> ELSE mempool
  /\ UNCHANGED <<disk, built, committed, ticks, submits>>

\* The blocks GetBlocks can return now.
Served ==
  {chain[Producer][i] : i \in Len(chain[Producer]) - kept[Producer] + 1 .. Len(chain[Producer])}

Next ==
  \/ \E t \in Txs : Submit(t)
  \/ Produce
  \/ BuildFails
  \/ \E f \in Followers, b \in built : ApplySynced(f, b)
  \/ \E n \in MayCrash : Restart(n)

Spec == Init /\ [][Next]_vars

\* The producer ticks every 500 ms and a follower polls every 600 ms, for the
\* blocks the producer retains.
Fairness ==
  /\ WF_vars(Produce \/ BuildFails)
  /\ \A f \in Followers : WF_vars(\E b \in Served : ApplySynced(f, b))

FairSpec == Spec /\ Fairness
-----------------------------------------------------------------------------
TypeOK ==
  /\ mempool \in Seq(Txs)
  /\ chain \in [Nodes -> Seq(Blocks)]
  /\ kept \in [Nodes -> Nat]
  /\ state \in [Nodes -> States]
  /\ mined \in [Nodes -> SUBSET (Txs \X Nat)]
  /\ disk \in [Nodes -> Snapshots]
  /\ built \subseteq Blocks
  /\ committed \subseteq Nodes \X Nat \X Nat
  /\ ticks \in 0 .. MaxTicks /\ submits \in 0 .. MaxSubmits /\ crashes \in 0 .. MaxCrashes

\* A follower has executed the transactions of its chain and nothing else and
\* is in the state its head commits to, whatever blocks reach it, however often
\* it restarts from a snapshot and whatever a failed build left the producer.
FollowerIsItsChain ==
  \A f \in Followers :
    /\ state[f] = [done |-> TxsIn(chain[f]), minted |-> {}]
    /\ chain[f] # <<>> => state[f] = Last(chain[f]).root

\* Nodes that have a block in common have all its ancestors in common, also
\* when the producer was restarted and built another block at some height.
CommonPast ==
  \A n, m \in Nodes : \A i \in DOMAIN chain[n] :
    i \in DOMAIN chain[m] /\ chain[n][i].hash = chain[m][i].hash =>
      SubSeq(chain[n], 1, i) = SubSeq(chain[m], 1, i)

\* A node retains its tip, without which it could check no further block, and
\* as much of its chain as it is configured to.
TipRetained ==
  \A n \in Nodes :
    kept[n] >= IF Len(chain[n]) < Retention THEN Len(chain[n]) ELSE Retention

\* mined_txs points only to blocks of the node's chain that hold the
\* transaction, also after a restart from an older snapshot.
IndexMatchesChain ==
  \A n \in Nodes : \A m \in mined[n] :
    \E i \in DOMAIN chain[n] : chain[n][i].hash = m[2] /\ m[1] \in Range(chain[n][i].txs)

\* The gas of a block is within the limit, its owned-object transactions touch
\* different objects, and all of them offer the base fee its ancestors led to.
BlocksFit ==
  /\ \A i \in DOMAIN chain[Producer] : \A t \in Range(chain[Producer][i].txs) :
       MaxFee[t] >= BaseFee(SubSeq(chain[Producer], 1, i - 1))
  /\ \A b \in built :
       /\ GasUsed(b.txs) <= BlockGas
       /\ \A i, j \in DOMAIN b.txs :
            i # j /\ b.txs[i] \in Owned /\ b.txs[j] \in Owned =>
              ObjectsOf[b.txs[i]] \cap ObjectsOf[b.txs[j]] = {}

\* What a node keeps of its chain (prune.rs, restore of a snapshot, the drain of
\* the mempool): its tip and the configured rest through pruning and restarts,
\* an index that points into the chain it has now, and blocks that fit.
ChainIsKept ==
  /\ TypeOK /\ TipRetained /\ IndexMatchesChain /\ BlocksFit

\* Every follower ends up with the producer's chain and stays with it.
FollowersCatchUp == <>[](\A f \in Followers : chain[f] = chain[Producer])

\* docs/prd.md: replaying a chain's transactions gives the state roots in its
\* headers.
BlocksReplay ==
  \A i \in DOMAIN chain[Producer] :
    LET parent == IF i = 1 THEN GenesisState ELSE chain[Producer][i - 1].root
    IN Executed(parent, chain[Producer][i].txs) = chain[Producer][i].root

\* docs/prd.md: "no reorgs after commit": a node commits, and votes for, one
\* block per height.
NoReorg ==
  \A c, d \in committed : c[1] = d[1] /\ c[2] = d[2] => c[3] = d[3]
=============================================================================
