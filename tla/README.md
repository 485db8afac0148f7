# A TLA+ verification of FractalChain

This directory holds TLA+ models of FractalChain (the Rust workspace under
`src/crates`), the TLC configurations that check them on small instances, and
TLAPS proofs that hold for every value of the constants. `PROJECT.json` lists
components, runs, mutants, hazards, findings and theorems, and maps every
definition that models code to the lines it stands for.

```
tlc -workers 2 -config MCNodeChain.cfg MCNodeChain      # one run
tlapm NodeChainProofs.tla                               # the proofs of one module
```

## 1. Inventory

### The system at this commit

A *producer* (`run_dev` in `crates/node`) ticks every 500 ms. When its validator
index leads the current view it drains transactions from its mempool, executes
them on its own state, builds a header with the resulting state root, commits,
signs a vote, prunes and now and then writes a snapshot. *Followers*
(`run_follower`) dial the producer over libp2p, poll its tip every 600 ms, pull
blocks, sample the data-availability (DA) shares of each block from the peers that
announced themselves, replay the block and commit it. All nodes gossip votes; a
node's *vote pool* aggregates them to quorum certificates (QCs). Beside the chain
runs a *fast path*: validators countersign transactions that touch only objects
owned by one account, and a quorum of countersignatures is a certificate.

Provers replay blocks and submit validity proofs; a node records which of its
blocks are *proof final*. Execution zones prove blocks of their own to a
*masterchain*, whose validators seal rounds of anchors, proofs and messages; a
condenser and an aggregator turn ranges of blocks into what a *light client*
checks. The execution core has native calls (agents, settlement of receipts,
stakes, emission, life records) and an EVM. A *wallet* library holds capabilities,
budgets and a market for tool calls. Around the chain run a JSON-RPC server, a
gateway to several shards, an indexer, a harness for learning with verifiable
rewards (RLVR) and *Fractal Society*, which simulates, publishes and reviews
research.

Facts about this commit that shaped the models:

- The producer never applies a synced block and a follower never produces one.
- A QC gates nothing: a block is committed before anyone votes for it, so the vote
  pool model lets honest validators commit different blocks at one height.
- The validator sets a node can be started with have 1 or 7 members.
- Several files are reached by no `mod` declaration and so by no program: in
  `core` block_finalize, consensus_misbehavior, consensus_stake,
  wallet_batch_settle, wallet_native, wallet_provider; in `wallet` batch_settle,
  delegation, production, reputation_market, smt; in `consensus` hyperbft,
  hyperbft_pipeline, optimistic, timeout; in `node` hyperbft_tick,
  chain_snapshot, prune, metrics; in `storage` fractal_db, chain_records,
  evm_accounts_mpt. `light-client` is no member of the workspace. They are
  modelled as written, since they are the design the chain is meant to grow into;
  the header comments of their modules say so.
- Protocol emission is off in the default (testnet) profile and on in mainnet's.

### Components, state, operations, what makes them correct

| Component | State | Operations | Hard behaviour | Correct when |
|---|---|---|---|---|
| validator set | ordered keys | leader of a view, quorum threshold | 2f+1 for every n | quorums share an honest member |
| vote pool | votes by (view, hash) | record, count, form QC, verify, prune | any order, repetition, faulty votes over other heights, pruning between votes, restarts | a QC has honest committers, one per height unless one of them resumed from an older snapshot; the quorum signal is exact |
| owned-object certificates | certificates by object version, conflicts, versions and nonces | precheck, countersign, aggregate, verify, insert, evidence | validators lag, keep no memory of what they signed | one certificate per version, each current once, evidence names its signers |
| mempool and base fee | pending list, base fee | insert, sorted drain, next base fee | budget limits, order by fee and not nonce, duplicates | blocks fit and pay the fee of their ancestors |
| node chain | chain, retained blocks, state, index, snapshot file | produce, fail to build, apply synced, prune, snapshot, restore | failure half way through a block, crash between snapshots, late responses | nodes share their past; a follower is in the state its chain gives; followers catch up |
| follower sync | outstanding flag, pending blocks, sampling round, peers | connect, poll, handle each response and failure | several requests in flight, abandoned rounds, faulty and vanishing peers | nothing applied unsampled; never silent with nothing in flight; catches up |
| native calls, economics | accounts, stakes, batches, claims, pools | every `NativeCall`, emission | partial effects, settlement sequences, rounding | nothing is created; the schedule is minted exactly; firsts stand |
| EVM | accounts, code, storage | envelope, call, create, commit | two nonce counters, accounts made in the same transaction | money and nonces add up; only signed envelopes count |
| stakes | shares, totals, credits, unstake requests | deposit, reward, redelegate, slash, finalize | two books that must agree, two roundings, burns and rewards the code does not balance | no wei made, none lost unaccounted; shares back totals |
| Merkle trees, sidecar | trees, shares, receipts, revocations | build, prove, verify, sample, reconstruct | odd levels, damaged shares, stale proofs | what verifies is in the tree at that place |
| tool market | intents, budget, stake, reputation | post, match, deliver, settle, challenge, resolve | failure between two locks, window races | it is an escrow: held once, paid or returned once |
| capabilities, budgets | tokens, revocations, rules, purses | mint, delegate, revoke, stop, fund, close, settle batch | long chains checked link by link | a descendant has no more than any ancestor; nothing below a revoked one |
| policies, receipts | templates, bucket, quotes, receipt | resolve, consume, select, deliver, acknowledge | inheritance in any order, window edges | tightening only; honest providers are paid |
| agent life | souls, loan, wills, epoch | rent, credit, wills, reaper | several deaths in an epoch | estates conserve credits and settle once; grace is granted |
| zones, masterchain | zones, requests, anchors, proofs, bonds, treasury, blocks | update, message, force, anchor, prove, seal | rounds that fail half way, jumps in height | forced requests leave in time; what is sealed fits its anchor; bonds and treasury add up |
| masterchain BFT, bft-wire, HyperBFT | views, votes, timeouts, certificates, slots | propose, vote, time out, certify, convict, commit | lost gossip, overlapping stages, weights | one block per view and sound evidence, but for restarts; only the tip is uncertified |
| payloads, proofs | pools, mode, metadata, finality, store | offer, produce, replay, prove, record, restart | items drained and lost, store behind memory, forks | header binds payload; finality survives and its proof is of that block |
| checkpoints, storage | jobs, records, rounds; rows, files | condense, record, seal, fetch; commit, prune, put, open | a crash between any two writes, mixed answers | verified is of one round; committed is served; pruned is gone |
| RPC, gateway, indexer | indexes, pools, shards, tables | submit, produce, read; route, query; sync, read | two indexes of one fact, readers beside writers | views agree; answers are whole; the cursor never runs ahead |
| RLVR harness | proofs, judgements, datasets, bundles, rollouts, rubrics | sign, commit, judge, train, export, promote, generate, simulate | mixed majorities, exports that die, redaction | only signed proofs; passes are backed; promotions never regress; nothing unasked leaks; a private trace stays local |
| faucet | last drip of each address, requests being served | fund (limit, nonce, transfer) | requests run between the calls of another; calls fail after the limit was stamped | no address gets more than its drip per cooldown; the treasury's transfers never jam |
| vote publisher, identity | one pending vote, mesh, key file | enqueue, flush, connect, restart | votes overwritten while the mesh is empty; a stop while the key is written | what goes out is newest and in order; a node keeps its identity |
| Fractal Society | trace, book, artifacts, logs, reviews | run, trade, publish, review, settle | partial fills, torn files, ties and orders | rewards add up; what is anchored can be verified; outcomes do not depend on order |

Components interact by calls within a node (the producer loop calls mempool,
consensus and execution under one lock), by request/response and gossip between
nodes, and through files (snapshot, proof store). The masterchain owns a zone
registry and calls it; the RPC server, the indexer and the gateway read the node
through its lock, one call at a time. Because a node's methods run
under its mutex, each is one action; the follower's network task is a single event
loop, so each event is one action, and concurrency is between nodes and messages.

## 2. Modules and how they correspond to the code

| Module | Models | Uses |
|---|---|---|
| `Values` | helpers: sums, maps that grow and shrink, saturating subtraction; lemmas on sums and folds | |
| `ValidatorSet` | `consensus/src/validators.rs`, with theorems about quorums | |
| `VotePool` | `consensus/src/vote.rs` and its callers in `node/src/lib.rs` | `ValidatorSet` |
| `OwnedObjects` | countersigning and submission in `node/src/lib.rs`, `core/src/tx.rs`, `core/src/state.rs`, `mempool/src/certificate_pool.rs` | `ValidatorSet` |
| `NodeChain` | `mempool/src/lib.rs`, `node/src/lib.rs`, `consensus/src/lib.rs`: producer, followers, disk | `ValidatorSet` |
| `FollowerSync` | `node/src/p2p.rs`: the follower's event loop, its peers, the network | |
| `NativeLedger` | native calls of `core/src/state.rs`, `core/src/chain_economics.rs` | `Values` |
| `Evm` | `eth-wire`, `evm/src/engine.rs`, the EVM path of `core/src/state.rs` | `Values` |
| `MerkleProofs` | `core/src/merkle.rs`, sidecars of `consensus/src/lib.rs`, `wallet/src/{merkle,smt,task_receipt}.rs` | |
| `Stakes` | `core/src/{consensus_stake,block_finalize,wallet_provider}.rs` | `Values` |
| `Escrow` | the abstract specification of a market that holds money | |
| `ToolMarket` | `wallet/src/{market,challenge,budget,reputation_market}.rs`, the score of `reputation.rs` | `Values`, refines `Escrow` |
| `WalletAuthority` | capabilities, stops, budgets: `wallet/src`, `core/src/wallet_native.rs`, `wallet_batch_settle.rs` | `Values` |
| `AgentPolicy` | `wallet/src/{policy,rate_limit,reputation,production,task_receipt}.rs` | `Values` |
| `AgentLife` | `agent-life/src/lib.rs` | `Values` |
| `ExecutionZones` | the zone registry of `shard/src/lib.rs` | `Values` |
| `Masterchain` | `masterchain/src/ledger.rs` with its zone registry; the validators of `masterchain/src/{node,bft,network}.rs` | `ExecutionZones` |
| `BftWire` | `bft-wire`, `core/src/consensus_misbehavior.rs`; the vote publisher and identity file of `node/src/p2p.rs` | |
| `HyperBft` | `consensus/src/hyperbft*.rs`, `node/src/hyperbft_tick.rs` | |
| `BlockPayload` | `consensus/src/payload.rs` and the payload modes of the node | |
| `BlockProofs` | proofs and proof finality in `consensus`, `node`, `mempool/src/proof_pool.rs` | |
| `CheckpointChain` | `proof-condenser`, `proof-aggregator`, `light-client` | |
| `ChainStore` | `storage`, `node/src/{prune,chain_snapshot}.rs`, `proof-condenser/src/persist.rs` | |
| `NodeRpc` | `rpc/src/module.rs` and `ChainInteraction` of the node; `faucet/src/main.rs` | |
| `ShardGateway` | `rpc/src/gateway.rs`, routing in `shard`, the node's check | |
| `Indexer` | `indexer/src` | |
| `LearningProofs`, `LearningJudge`, `LearningTraining`, `LearningRollouts` | `rlvr/src`: chain and tracing; verifier and rewards; trainer, adapters, evals; rubrics, simulator and data | |
| `SocietyKernel`, `TradingSim` | kernel and adapters of `fractal-society` | |
| `SocietyPublish` | commit service, pipeline, persistence, artifact format, concept index, git output | |
| `SocietyReview` | `fractal-society/src/pkgs`, rigor and paper review | |
| `MC*` | the instances TLC checks | the modules they name |
| `CertificateProofs` | theorems | `VotePool`, `OwnedObjects` |
| `NodeChainProofs`, `FollowerSyncProofs` | theorems | the module of that name |
| `LedgerProofs` | theorems | `ToolMarket`, `WalletAuthority`, `Evm`, `AgentLife`, `Stakes`, first writes of `NativeLedger` |
| `ProtocolProofs` | theorems | `ExecutionZones`, `Masterchain`, `BftWire`, `HyperBft`, `BlockPayload`, `CheckpointChain`, `BlockProofs` |
| `ServiceProofs` | theorems | `Indexer`, `SocietyPublish`, `LearningProofs` |

**VotePool.** `entries` is `VotePool::entries` as a set of votes; a slot is what
shares view and hash (the code's key, without the height). `RecordVote` is
`record` on a vote from gossip, `CommitSelf` is the node's own commit with
`forward_vote_after_commit` and, every `PruneBatch` blocks, `prune_below_height`;
`CommitOther` is what other honest validators do; `Restart` is
`restore_disk_snapshot`: a validator resumes at any height it had reached, its pool
is new, and it may commit and vote for a second block of a height. `FormQc` is
`try_form_qc` followed by `verify_formed_qc`. Gossip is modelled by letting any signed vote
arrive at any time after it was signed, again and again, or never. A signature
verifies when its validator is faulty or did sign this body; an aggregate verifies
when all its signatures are over one body.

**OwnedObjects.** `log` is the sequence of transactions the chain executed,
`applied[v]` how far validator v is. Object versions are counted from the log, and
an account's nonce is the version of its own nonce object, as in
`owned_object_version`. `Countersign` reads v's own state and records the
signature in the world, not in v (the code keeps nothing).
`AcceptCertificate` and `RejectConflict` are the two outcomes of
`submit_owned_object_certificate` that change state. `PrecheckResponse`, `Aggregated` and
`FinalityOf` are what the RPC methods of that name answer; signing goes through the first.

**NodeChain.** A state is the set of executed transactions and the
heights that minted; a state root is the state. `Produce` and `BuildFails` are
`try_produce_one_tick` in full: drain (sorted, with gas budget, base fee and
owned-object exclusion), execution, header, commit, index, vote, pruning and
snapshot, or the early return on a failing transaction, which loses what was
drained and keeps what was executed. `ApplySynced` is `apply_synced_block` in
replay mode. `Restart` is a crash and `restore_disk_snapshot`. `chain` holds the
whole chain as history; `kept` says how many last blocks the node really retains,
and every check and answer that reads blocks reads only those. `built` holds the
blocks ever served, so a response may be arbitrarily late.

**FollowerSync.** Each arm of the `tokio::select!` loop of
`follower_network_task` is an action: `Connect`, `Disconnect`, `Announce`, `Poll`,
`Fail` (OutboundFailure), and for responses `HandleTip`, `HandleBlocks`,
`HandleNoBlocks`, `HandleErrMsg`, and four outcomes of DaShares. `Serve` is
`sync_response_for_request`; a faulty peer answers a request for shares with any
shares (`AnswerAnything`), or with a tip or blocks (`ServeStray`), which the
follower takes from anyone. A block is the sequence of producer incarnations that
built it and its ancestors, which makes forks after a restart distinguishable and
`Front(b)` the parent. Messages in flight are a bag.

**NativeLedger.** One action per `NativeCall`; a call that fails is no step, except
that the code debits before it looks at a signature or a bound in some calls, which
those actions keep. `MintForBlock` is `mint_protocol_emission_for_block` with the
quarter budgets and splits in exact integer division; `SetChainEconomics` takes any
schedule, as the code does, and `amended` remembers whether `validate` would have
refused it. Products saturate at `MaxWei`, as at u128. Anchors of task receipts
and proof commitments are two maps, as in the code.

**Evm.** An envelope is signed by a key and may be altered on its way (`Copies`).
`Submit` decodes, recovers the sender, maps to a core transaction and applies it:
native precompile, plain transfer, call or create. revm is external: what it hands
to `StateDb::commit` is the change set of one of five contract behaviours.

**MerkleProofs.** The recursive algorithms are operators on sequences, with a hash
being the pair it hashes; the state machine around them publishes payloads and
damages sidecars, builds task receipts and hands out proofs that grow stale.

**Stakes.** `FinalizeHooks` is the whole end of a block (burn, life epoch, rewards)
as `block_finalize.rs` has it: a burn is counted whole and taken as far as the
treasury has it (`unbacked` is the difference), and a reward is debited although no
shareholder, or no validator, gets it (`destroyed`, `unowned`). `SlashStake` needs no
registration, as the code asks for none.
The provider half models requests that mature and slashes that reach into them; a
request of nothing may outlive its row.

**ToolMarket and Escrow.** `Escrow` says what the owner of a budget may rely on: a
sum is held for a deal and later paid or returned, once. `ToolMarket` has the
intents, two tiers, the challenge window and the failure after the stake was locked
(`MatchFails`); `Abstract == INSTANCE Escrow WITH ...` maps an intent's state to its
deal and the budget's free part to `free`, and `IsEscrow` is checked as a property.
The score of a ledger and the stake asked for it are operators on the ledger.

**WalletAuthority.** A token carries scope, expiry, spending limit and caveats;
`MintCapability` compares it with its parent only, and asks the scoped stops of the
master at the root of its chain (`is_scope_stopped_for_master`); the levels of
`wallet/src/emergency.rs` are a registry of their own (`rules`). A tool batch has a
list of receipts, in which one may be listed twice, as nothing refuses that. `ClosePurse` removes the row
before it looks for the parent, as `close_budget_account` does.

**AgentPolicy.** Five small machines that share a module (templates, bucket, quotes,
verifier draw, receipt), of which a behaviour uses one. **AgentLife.** `ReaperEpoch`
is one step for the whole pass over the souls in the order of their ids (`Reaped`): each is
looked at as those before it left it. The epoch is the caller's, who may skip, repeat or
go back; `brokeRun` remembers since which call a soul was found broke.

**ExecutionZones and Masterchain.** `Masterchain` EXTENDS the registry and adds the
ledger; `SealRound` is `try_produce_round` with each of its faults, after which
pending proofs are gone and the height is used; it is taken only in a view that is
the validator's own (`is_my_turn`). The validators, in the same module, have a view,
a height and a vote pool each, a set of gossiped messages and an outbox of one
message. A failed round uses up a height and no view; a message whose vote does not
verify still makes a validator vote for its block (`IngestStray`); and a restart
forgets view, height and votes (`RestartValidator`), since nothing of them is kept.

**BftWire.** Votes and timeouts are sets of signed statements; pools gather any of
them. A validator that follows the code commits, and so signs for, one block of a height,
unless it restarted from an older snapshot (`Rewind`); nothing else holds it back, as
`Vote::sign` and `forward_vote_after_commit` check nothing. It may time out of a view more
than once. A second machine in the module is the node's own gossip: `Enqueue` and `TryFlush` on
the one pending vote, with a mesh that comes and goes, and the identity file written
to a temporary name and renamed (`WriteIdentity`), cut by a stop at every step.
**HyperBft** has the three slots of the pipeline as sets of at most one.

**BlockPayload.** `ProduceTick` drains pools by mode, executes, and builds or loses.
A transaction is a proof commitment, owned, shared or failing; certificates are for
owned ones and for proof commitments, which are of owned scope too.
**BlockProofs** keeps both sides of a fork. A proof may be offered by anybody, of any
block for any block (`Offers`): fixture and development envelopes are digests that
can be computed without executing, a Plonky2 proof is verified under the verifier data
it brings along, a mixed witness is made without replay, and the STWO adapter is
unavailable (`EnvelopeHolds`). The sidecar of a block may be damaged. `Submit` takes whether the store write
succeeds, `Refuse` counts the first check of `submit_validity_proof` that fails
(`ProofChecks`), and `Restart` restores proofs and metrics from the store against the
snapshot's chain. `SettlementBlock`, `ProofFinalHeight`, `ZoneUpdateFinality`,
`ChainConfig` and `ProofUpdateAnswer` are the answers clients get.

**CheckpointChain.** The server of the light client may take height, anchors,
bundle, proofs and statements of the head from different rounds. **ChainStore.**
A commit or pruning is a list of puts and deletes taken one by one (`WriteRow`), cut
by `StoreCrash` or `WriteFails` and repeated; a read of a proof looks on disk in one step
and refreshes memory in another, with records in between; the account trie, snapshot chunks and
key layouts are operators examined on every input of a set (`storeExam`).

**NodeRpc, ShardGateway, Indexer.** Views are operators of the state, so properties
compare two views of one fact. `NodeRpc` has the methods for blocks, transactions,
receipts, logs, attestations, commitments, life events and fees with their defaults,
limits and errors; a block is asked for by hash, number or tag. In `ShardGateway` the
endpoints come from one of several configurations, of which the valid ones start a
gateway (`EndpointsValid`); a method is routed (`RouteForMethod`), and a query is one
step per shard, which may be down or have no such block. `SubmitOwn` is what a node pools
itself for its development signer (proof hashes, attestations, life commands) on whatever
shard it is, without `check_tx_shard_route`. The indexer is
one step per database write, with a reader beside it. The faucet is three steps per
request (`Fund` stamps the limit under its lock, `GetNonce` and `SendTransfer` are
calls to the node), with other requests, mining and time in between.

**Learning\*.** A proof is its record and hash. The judge works on fractions over
`One`. A behaviour of `LearningTraining` is one command; exports of two exporters
interleave file by file, with their registrations (load, then save) and with a load that
hashes every file and then reads it again. In `LearningProofs` the committed index takes
any record it is given, and a drain takes at most `MaxDrain`. Texts are sequences of words in `LearningRollouts`. Items to
roll out are given or made by the AskMind and AskOverconfidence generators
(`GenerateItem`); the generators on routing traces and on facts make a `rubric` that is
examined as it is, and their prompts are sets of words where the code looks for
substrings.

**SocietyKernel, TradingSim.** The kernel's attempts, refusals and episodes with
each adapter; the trading adapter with resting orders, halves, funding and
liquidation, whose products are truncated to `Micro` as `mul_micro` does. The kernel runs
beside the environment that mirrors its adapter. **SocietyPublish.** A publication is a list
of effects, carried out one by one; `Tear` is a crash that leaves the current file torn. A
publication may be repeated with the same time, which gives the same manifest again, and
`put` rewrites it in place. **SocietyReview.** An
algorithm is examined on one input chosen at the start (`exam`) or the state
machines are called.

### Abstractions

- Hashes are collision-free and signatures unforgeable; erasure coding, STWO,
  Plonky2 and revm are external and taken to be correct.
- A transaction uses its whole gas limit, and one that fails leaves no effect of
  its own (the applied prefix before it does remain).
- A header hash in `NodeChain` is the tick that built the block: two builds never
  share a timestamp, so they never share a hash.
- Transactions, hashes, peers, shares, texts and payloads are members of small
  sets; amounts are small integers with the code's order of divisions, so rounding
  is exact; floating-point scores are fractions with a common denominator.
- Formats, logging and HTTP are left out.

### Composition

The components of `MCLedgers`, `MCProtocols` and `MCServices` share no state with
one another, except `Masterchain` with `ExecutionZones`. A run over them chooses a
`part` at the start and lets that component move while the others stay put: every
behaviour of every component is one of the run's, and state counts add instead of
multiplying. The invariants of all components are checked in all states. In
`MCNext` each component's next-state relation is used as it is, with bounds for the
run (`ZonesBound`, `McBound`, `ProofsBound`, `WireBound`, `BftBound`) beside it.

## 3. Runs

Passing runs:

| Run | Instance | Shows |
|---|---|---|
| `certificates` | two parts: votes and owned objects. Votes: 4 validators, validator 0 faulty; rival blocks at height 1, or a block and its successor with `Retention` and `PruneBatch` 1; one honest validator may resume from a snapshot | a QC is for its header's own height and view and at least f+1 honest validators committed the block; two QCs of one height differ only if a validator that resumed committed and voted for both blocks; `ReachedQuorum` is returned exactly when the slot reaches the quorum, also around pruning and a restart |
| | Owned objects: 4 validators, one faulty, 4 transactions, 2 objects, 1 pool | one certificate per object version, each describing one past state; conflicts genuine; what a node names as final can be aggregated again, and with any other certificate of the version is evidence with f+1 common signers |
| `chain` | producer, 2 followers, 4 transactions, 3 submissions, 4 ticks, 1 crash of producer or follower | followers are what their chains give; a common block means a common past; the tip is retained; the index matches; blocks fit the gas, object and fee limits |
| `catch_up` | producer and one follower that may crash, retention 4 | the follower ends with the producer's chain |
| `sync_catch_up` | producer dialled twice, one announced DA peer that may vanish, 2 failures | the flag is set only with something in flight; the follower catches up infinitely often |
| `sync_faulty_peer` | two servers of shares, one answering anything (shares, a tip, blocks), a producer restart | nothing is applied unless every sampled share of it was verified |
| `ledgers` | nine parts: native ledger, Merkle proofs, validator stakes, provider stakes, tool market, wallet, policies, agent life, EVM | money is accounted for in each of them, no receipt is paid by two batches, firsts stand, shares and books agree, authority only shrinks down a chain, the market is an escrow |
| `protocols` | ten parts: zones, masterchain, its BFT, proofs, wire, vote publisher, HyperBFT, payload, checkpoint, store | agreement and soundness of evidence, and what a restart costs them; finality is bound to its block, checkpoints and rows survive crashes; with one validator a forced request leaves the queue (liveness) |
| `services` | twelve parts: RLVR proofs, judge, training, rollouts, indexer, RPC, faucet, gateway, trading, publication, review, kernel | views agree with each other and with what was mined; passes, promotions and rewards are backed; what is anchored verifies unless a crash cut it; algorithms meet their definitions |

The last three runs check one invariant per component or group of components, a
conjunction of named parts each of which has its own definition and comment in the
component's module (a conjunction over several components is in the MC module):

| Invariant | Parts |
|---|---|
| `LedgerSafe` (NativeLedger) | LedgerTypeOK, Solvent, EmissionAccounted, EmissionExact, AgentsDistinct |
| `MerkleSafe` (MerkleProofs) | PathsVerify, OnlyEntriesClaimed, OnlySharesSampled, DamageIsSeen, Reconstructs, SamplesReachAll, RootFixesReceipts, RevocationProved |
| `MarketSafe` (ToolMarket) | ReservedForLive, StakeCoversLive, ReputationEarned, TrustIsOrdered |
| `AuthoritySafe` (WalletAuthority) | StopsReachDescendants, ChainAttenuated, PursesConserve, PaidByOneBatch |
| `PolicySafe` (AgentPolicy) | DescendantsWithinBuiltin, InheritanceTightens, WindowRate, BestQuote, SampledByWeight, HonestIsPaid, AckCoversBody |
| `EvmSafe` (Evm) | EvmMoneyConserved, OnlySignedApplied, CreatesFindRoom |
| `ZonesSafe` (ExecutionZones) | ProvenWasCarried, NoneOverdue, ConsumedWasFinal |
| `MasterchainSafe` (Masterchain) | BondsAccounted, TreasuryAccounted, SealedWithinAnchor, BlocksAdvance |
| `BlockProofsSafe` (BlockProofs) | SettledIsBound, FinalityIsDurable, LatestIsHighest, EligibleProvable, PoolIsFair, FinalityViewsAgree |
| `PayloadSafe` (BlockPayload) | HeaderBindsPayload, NoDoubleEffect, FollowerMissesNothing, LossHasACause |
| `CheckpointSafe` (CheckpointChain) | RangeIsOneChain, SinkIsRecorded, StatementsProved, HeadIsOneRound, HonestHeadVerifies |
| `StoreSafe` (ChainStore) | CommittedIsServed, PrunedIsGone, ProofIsServed, RecordsSurvive, TrieResolves, StateIsReassembled |
| `IndexerSafe` (Indexer) | IndexedRangeComplete, ReceiptsCounted, StatusCovered, PagesMissNothing |
| `PublishSafe` (SocietyPublish) | OnChainVerifies, BundleIsLoadable, RootIsRead, RewardIsBacked, IndexKeepsStatus |
| `ReviewSafe` (SocietyReview) | SplitExact, LoadOrderSound, GapsAgree, AggregationComposes, RankingIsStable, CirclesAreFound, DurationIsLongest, TamperingIsCaught, ReviewsAreMonotone, BetterIsNotWorse, WindowsDisjoint, BudgetsHold |
| `MoneyConserved` (MCLedgers) | EstatesConserved, SettledOnce, StakeConserved, SharesBacked, ProviderConserved, RowsBalance |
| `NeverUndone` (MCLedgers) | FirstWriteStands, NothingBelowRevoked, GraceGranted, NonceOncePerTx |
| `VotingSafe` (MCProtocols) | OneBlockPerView, ViewsBacked, HonestUnpunished, ConflictsConvict, TimeoutCertGenuine, OnlyTipUncertified, ChainLinked, NewestVoteKept, VotesGoOutInOrder, IdentityIsKept |
| `LearningIsHonest` (MCServices) | ProofsAuthentic, AcceptedWhole, IndexesMatch, TraceCountExact, PassIsBacked, AgreementIsReal, PraiseIsConsistent, PretenceIsCaught, RolloutIsHonest |
| `TrainingIsSound` (MCServices) | DatasetAccounts, NeverPrefersDominated, LoadedIsWhole, RegisteredWasWritten, PromotionsNeverRegress, AdviceIsSafe, NothingUnasked, PrematureIsMissed, RewardOrdersQuestions, EveryTurnIsScanned, PhoneScanIsExact, PrivateTraceStaysLocal, LookupsHaveTools, EveryFactIsChecked, PremiseIsVisible |
| `AnswersAreTrue` (MCServices) | LogsMatchReceipts, ReceiptsPlaced, BloomCovers, ListedIsFound, CommittedOnce, ListsKeepNewest, BlockViewsAgree, TransactionViewsAgree, RegistersAgree, SignerOnOneShard, AnswersAreWhole, FaucetKeepsRate, DripsNeverJam |
| `SimulationsAgree` (MCServices) | PnlAccounted, ReduceOnlyShrinks, LiquidatedIsFlat, RewardIsResult, DrawdownIsDeepest, EpisodesReplayAlike, SeenIsScored, ScoreIsReward, EnvironmentMirrors |
| `StandsOnceMade` (MCServices) | CommitmentStands, AnchoredIsBacked, SettledStands |
| `ChainIsKept` (NodeChain) | TypeOK, TipRetained, IndexMatchesChain, BlocksFit |

`NeverUndone` and `StandsOnceMade` are conjunctions of action properties, `IsEscrow`
is the refinement of `Escrow` by `ToolMarket`, `ForcedIsFlushed` is liveness.
`PROJECT.json` ties the properties to hazards.

Runs that refute what a document or comment says (the quoted lines are in
`PROJECT.json` under `findings`):

| Run | Shows |
|---|---|
| `prune_drops_votes` | pruning judges a slot by its vote of lowest index, so one faulty vote with a low height takes all votes for the block just committed out of the pool |
| `residue` | transactions executed by a build that failed stay in the producer's state, and the next root cannot be replayed |
| `restart_forks` | a producer restarting from an older snapshot commits, and votes for, a second block at a height |
| `sync_stuck` | with two servers of shares, a failed request followed by the other's answer leaves the flag set with nothing in flight: the follower never polls again |

### Other disagreements and weak spots seen while modelling

Not kept as runs. Where a property has a name, its definition is in the module and
TLC refutes it.

- Chain: with emission on, a root includes a mint that replay does not perform
  (`BlocksReplay` with `Emission = TRUE`; `consensus/src/lib.rs:2216`). A transaction
  other than the certified one may take the certified object version
  (`CertifiedIsFinal`; against `docs/improve.md:227`). At n = 6 two quorums of three
  may be disjoint, and at n = 5 they may share only a faulty validator (the theorems
  below assume n = 3f+1, and this is why). A validator that resumes from an older
  snapshot votes again at heights it voted at, so one restart and f faulty validators
  suffice for two certificates of a height. An honest validator signs two
  transactions at one version, so conflict evidence also names honest validators. A
  faulty vote over another height can make the aggregate of a slot unverifiable. A
  follower further behind than the producer's retention never catches up.
- Payload and proofs: blocks of modes other than Legacy are refused by followers;
  accepted certificates enter every block again; drained updates are lost with a
  failed build. A proof commitment is of owned scope (`core/src/tx.rs:559`), so it can be
  certified, and both payload modes take it from the mempool as well
  (`node/src/lib.rs:2765`): it may take effect both ways. Proof finality says that a proof is
  bound to the block and the data is there, not that the block was executed to its state
  root: fixture envelopes can be computed by anyone, `proof.gas_used` is compared with
  nothing, and a block that minted emission does not replay and may be proof final. A block that has a proof and lost its place to a fork is settled for the
  node itself and "block-not-found" over RPC, and the finality of a zone at a height may be
  that of such a block. A proof whose store write fails raises the proof-final height until
  the next restart, and not the height in the metrics. An update sent again with a higher
  fee is acknowledged and keeps the old fee.
- Ledger: governance may set a schedule that `validate` refuses; several calls debit
  before they check a signature. With the schedule the repository ships
  (`fractal_emission_v3`) the product of pool and weight exceeds u128 and saturates
  (`chain_economics.rs:417`, `:424`): every quarter but the last gets u128::MAX divided by
  the sum of the weights, some 22 FRAC, and the last one the rest. The sums stay exact,
  which is what `EmissionExact` says. `protocol_burned_wei` counts burns that the treasury
  could not pay (`block_finalize.rs:58`), and rewards are debited for validators that are
  unknown or have no shareholder (`:155`, `:178`): `StakeConserved` and `SharesBacked` carry
  these as `unbacked`, `destroyed` and `unowned`.
- Agent life: `reaper_epoch` takes the epoch of its caller, so an epoch that skips the
  grace kills at the second call, as the repository's test
  `loans_accrue_interest_before_insolvency_death` has it; `GraceGranted` counts epochs.
- Wallet: `LoserForfeits`, `WindowRespected` (`ToolMarket`): a lost challenge costs no
  bond, and a trusted settlement needs no window. `SlashNeverPays`: `settle_trusted` ages a
  ledger to the deadline and a slash brings its clock back, which may be worth more than
  the penalty. `ClientsWerePaidFor`: a client counts from the match on, not from paid work
  (`wallet/src/reputation.rs:36`). `RootFixesTotal` (`MerkleProofs`):
  the root of a task receipt does not fix its stated total (`docs/wallet.md:507`).
  `close_budget_account` loses a budget whose parent is gone. `docs/wallet.md:59` lists
  "single-use receipt IDs", but a batch that lists a receipt twice pays it twice
  (`batch_settle.rs:146`, `wallet_batch_settle.rs:67`); only another batch is refused it. A
  failed match leaves the provider's stake locked (`market.rs:285`): `StakeCoversLive` shows
  that what is locked still covers every live intent, not that no more is.
  `verify_production_tool_receipt` answers a refused receipt with an error and no report, so
  its challenge kinds but `None` are never reached from there.
- Masterchain: `SlashedOnce`: a proof may slash its prover in every round
  (`docs/stwo-run-notes.md:44`). Different views may certify different blocks of a
  height; nothing emits timeouts, so more than one validator stops at a silent one, or at
  one that has nothing to seal: a forced request is only flushed for sure where the validator
  is alone (`ForcedIsFlushed`). A vote that does not verify makes every validator that hears
  it vote for its block (`node.rs:193`), and a proposer that restarts begins at view 0
  again: either gives a view a second block, and nothing else does (`OneBlockPerView`).
- BFT: thresholds for two and three validators are one vote. A HyperBFT leader votes
  for two blocks of a view when a certificate is late. A validator that votes again after a
  restart from an older snapshot, or signs a second timeout of a view with a better
  certificate, is convicted by the evidence although it follows the code
  (`HonestUnpunished`). `EveryVoteGoesOut` (`BftWire`): a
  vote that waits for a peer is overwritten by the next commit and never sent.
- Services: the log index of `eth_getLogs` counts matching logs only
  (`LogIndexAgrees`), and an attestation reported as finalized may fall out of the
  pool when its nonce is used (`AttestedIsCarried`); `RoutedIsAccepted` (`ShardGateway`) fails for owned
  transactions, which the gateway routes by object and the node accepts by signer;
  a transaction that a node submits itself (`submit_proof_hash`, `submit_rlmf_attestation`,
  `submit_life_command`) is on that node's shard whatever the home of its signer, and a query by
  address misses it elsewhere; `OneAddressLogsWhole`: a filter for one address asks only the home of the address,
  while its logs are where its callers are; `BlocksAreFound`: a block is looked for shard
  by shard, and the first shard without it answers an error that ends the search; `IngestionIsVerified` (`BlockPayload`), `PrunedWasProved`
  (`ChainStore`), `EveryHeadVerifies` (`CheckpointChain`), `RejectedNeverApproved`
  (`SocietyKernel`) state what one might expect and what does not hold. `AnsweredIsPaid` (`NodeRpc`): two drips that read one
  nonce are both answered with a hash, and one of them is never mined.
  `DegradedHidesFacts` (`LearningRollouts`): the degraded query of an AskMind item is the
  first sentence of the complete one, which may hold the fact that should be missing.
  Two registrations that overlap lose an adapter's entry (`rlvr/src/adapters/mod.rs:143`), and
  `load_adapter_bundle` returns a file of another export when it is written between its
  hash (`export.rs:734`) and its second read (`:764`); `RegisteredWasWritten` and
  `LoadedIsWhole` say that nothing else does. A committed proof that is removed, committed in
  another block and loaded from an older file is back in the saved block.
- Store: a get of a proof that read the disk before a record ended leaves the older
  version in memory (`persist.rs:218`), until the next record or restart (`ProofIsServed`).
- Fractal Society: a package published again at the same time has the same manifest, and
  `put` rewrites it in place (`artifact_store.rs:79`): a crash then leaves a package on the
  chain that cannot be retrieved (`OnChainVerifies`). That a package goes to the chain while
  the manifest its event names is cut takes three publications and two faults, more than the
  run has; the theorem covers it (`AnchoredIsBacked`). A graph left in an artifact directory
  by an earlier write is read as part of the next (`RootIsRead`). The review that makes the
  quorum may be a rejection and the outcome an approval (`ReviewsAreMonotone`), equal entries of
  one agent rank by their place in the input (`RankingIsStable`), and a step left out whole is
  noticed by no verifier (`TamperingIsCaught`). `apply_funding`'s comment has the total result
  equal to its parts; every product is truncated, so they drift apart by less than one per
  fill and a few per open position (`PnlAccounted`). The environments show the feature one
  step late against the adapters they mirror (`EnvironmentMirrors`).

### Bounds and why they are enough

- *Four validators with one faulty* is the smallest set in which a faulty vote can
  matter and quorums overlap in a minority. The faulty validator has index 0 so
  that its vote is the first of its slot, the one pruning looks at.
- *One restart*: one honest validator that resumes is what it takes, beside the faulty
  one, to certify two blocks of a height.
- *Two blocks, two heights*: rivals at one height for agreement; a block and its
  successor so that pruning has something below the window. Votes carry every
  combination of view, height and hash, and an index outside the set.
- *Owned objects*: two transactions compete for one nonce, one of them touching a
  second object; a third follows; a fourth takes the nonce on the consensus path.
- *NodeChain*: four ticks with `PruneBatch` and `SnapshotInterval` 2 give two
  prunes and two snapshots, hence crashes before, between and after them. The
  transactions include one that pays more but has the later nonce (failed build),
  two on one object (exclusion) and a block that fills up and raises the base fee
  past what one transaction offers.
- *FollowerSync*: height 2 gives one batch with a continuation; index 1 is sampled
  twice for block 2, since the code samples with repetitions; at most two messages
  are in flight when the timer fires.
- *Ledgers*: two accounts, three calls and three blocks give settlement, claim and
  replacement in any order and schedules with an uneven last quarter, of which one
  saturates at `MaxWei` = 11000; up to five
  leaves and four bytes give odd levels and a padded last share; two intents, two
  providers and a clock of three cross the challenge window; four wallet calls give
  chains of three capabilities; three life steps and four calls of the reaper, with epochs
  1, 2, 3 and 5 in any order, let an heir die in the pass that made him one and a caller
  skip the grace of two; EVM keys use two nonces, enough for a
  contract to be created, called and made again.
- *Protocols*: two zones with deadlines 1 and 2; masterchain calls up to five, which
  allow register, anchor, prove, seal and a failed round, with one validator; four
  masterchain validators with two messages at a time and four events in all (messages,
  timeouts, and twice each restart and stray vote), enough to fork a view; four weighted
  validators with two honest ones of two fifths of the stake, two blocks of a height,
  and either timeouts or a restart; three votes of the publisher, a peer that comes and
  goes and two identities; store heights 2 and 1 on two shards, with one crash; every
  trie with keys of two or three nibbles from small sets.
- *Services*: three judges with every pattern of answers of the listed outputs; two
  exporters; a chain of blocks with failed fetches and one stop of the indexer; two
  shards with one outage; faucet requests of two addresses, two at a time, over a clock
  that passes the cooldown; routing traces with every combination of privacy, route,
  rule and inventory; two bars series with partial fills, truncated products and a liquidation; two
  faults in two publications, which may be one and its retry; every reviewed list up to the length at which ties
  and repetitions occur.
- Counters (`MaxCalls`, `MaxFaults`, `MaxTime`, ...) only end the runs.

`CHECK_DEADLOCK FALSE` is set where all bounded actions are used up, and in
`sync_faulty_peer`, where the follower may really stop (see `sync_stuck`).

### Fairness

- `NodeChain`: weak fairness of `Produce \/ BuildFails` (the interval timer of
  `producer_loop`) and, per follower, of applying a block the producer serves now
  (the poll timer and the sync it starts; `FollowerSync` examines that machinery
  itself). Crashes and submissions are not fair.
- `FollowerSync`: weak fairness of the producer's dial, the poll timer, of each
  request being answered or failing (the request time-out is 120 s), of handling
  what has arrived, and of serving peers advancing. Failures, disconnections and
  announcements are not fair.
- `Masterchain`: weak fairness of `SealRound` only, which
  `masterchain_bft_producer_loop` tries every block time, and which is enabled only in a
  view of the validator's own (`is_my_turn`). The run has a single validator
  (`devnet_singleton`), whose views all are; with more, no timeout is ever emitted and
  the property does not hold.

### Mutants

Each property of a passing run has a mutant, a seeded defect of a mapped definition
(its comment says so), under which TLC finds it violated; a conjunction over several
components has one for each of them.

## 4. Proofs

All are for any number of validators, blocks, transactions, objects, pools, peers
and followers, and any values of the bounds.

| Theorem | Assumes | Says |
|---|---|---|
| `HonestInQuorum`, `QuorumsIntersect`, `HonestInBothQuorums` (`ValidatorSet`) | at most f faulty; n = 3f+1 for the last two | the facts about quorums all the rest uses |
| `VotePoolType` | | the type invariant |
| `CertificatesAreCommitted` | at most f faulty | a QC has f+1 honest committers and its header's height and view |
| `CertificatesAgree` | and n = 3f+1 | `ForksTakeARestart`: one certified block per height, unless a validator that resumed from a snapshot committed and voted for both |
| `SignalsAreExact` | | a quorum is reported by exactly the vote that makes it, also after pruning and restarts |
| `CertificatesWereCurrent`, `PoolIsExclusive` | at most f faulty | accepted certificates were current; one per object version |
| `EvidenceHasSigners` | and n = 3f+1 | `FinalityIsAccountable`: what is named as final aggregates again from its parts, and any other certificate of the version makes it evidence against f+1 signers |
| `RecordedConflictsAreGenuine` | | a recorded conflict is of two verified certificates with different bodies |
| `ChainsShareTheirPast` | | a common block means a common past |
| `FollowersAreSound` | | a follower's state is what its chain gives and its head commits to |
| `ChainsAreKept` | | the tip is retained, the index matches the chain, blocks fit the limits |
| `BlocksAreSampled` | | nothing is applied unsampled |
| `PollIsNotSilenced` | one announcing peer | the poll timer is off only while something is in flight |
| `MarketIsEscrow`, `MarketIsSafe` (`LedgerProofs`) | | `ToolMarket` implements `Escrow`; its books agree |
| `AuthorityIsSafe`, `NothingMintedBelowRevoked` | | `AuthoritySafe`; no capability is minted below a revoked one |
| `EvmIsSafe`, `NoncesMoveOnce` | | `EvmSafe`; `NonceOncePerTx` |
| `MoneyIsConserved`, with `EstatesAreSafe` | souls, owners, fingerprints, providers and classes are finitely many, amounts and epochs are numbers, no id is that of no parent (`LifeAssumption`, `StakeAssumption`, `ProviderAssumption`) | `MoneyConserved` of estates, validators' and providers' stakes: none is made, and it is lost only without an heir, by a burn, a slash or a reward taken for nobody |
| `NothingIsUndone` | | `NeverUndone`: the four action properties together |
| `ZonesAreSafe` (`ProtocolProofs`) | | `ZonesSafe` |
| `VotingIsSafe` | quorums of the wire meet (any number of validators but 2, 3 and 6); the faulty are fewer than a quorum | `VotingSafe` of the masterchain's validators, weighted BFT, HyperBFT and the publisher together, with what restarts and votes that do not verify can do |
| `PayloadsAreSafe` | a certificate is for an owned transaction or a proof commitment (`PayloadAssumption`) | `PayloadSafe` |
| `CheckpointsAreSafe` | the forks are linked chains, a damaged copy keeps a header of theirs (`ChainAssumption`) | `CheckpointSafe` |
| `ProofsAreSafe` | heights and fees of pooled updates are numbers (`ProofsAssumption`) | `BlockProofsSafe`, whoever makes the proofs |
| `MasterchainIsSafe` | provers are finitely many, amounts and heights are numbers, the half-life is not 0, as `prover_reward_wei` makes sure of (`McAssumption`) | `MasterchainSafe` |
| `IndexIsSafe` (`ServiceProofs`) | the chain is given from 0 on, a transaction hash names one place in it (`IndexerAssumption`) | `IndexerSafe` |
| `PublicationIsSafe`, `AnchorsAreBacked` | concepts have the kinds and states of the code (`PublishAssumption`) | `PublishSafe`; `AnchoredIsBacked` |
| `MadeThingsStand` | | `StandsOnceMade`: commitments, anchors and settlements stay |

The inductive invariants and why they are needed:

- **VotePool**: `TypeOK /\ OneCommitPerHeight /\ EntriesAuthentic /\
  CertifiedByQuorum`. A certificate outlives the votes it was made from (pruning),
  so the quorum behind it is remembered as a set of validators that are faulty or
  committed the block; `OneCommitPerHeight`, which speaks of validators that never
  resumed, then makes an honest one in two quorums either restarted or a contradiction
  unless the blocks agree.
- **OwnedObjects**: `TypeOK /\ AppliedBounded /\ SignedWasCurrent /\
  AcceptedWasCurrent /\ AcceptedByQuorum /\ OnePerObjectVersion`, and `AcceptedVerified`
  for the evidence. A version after a
  prefix of the log never changes when the log grows, so what was current for a
  signer stays the description of one past state; a quorum contains an honest
  signer, whose signature was current.
- **NodeChain**: `ChainType /\ HashesUnique /\ AllLinked /\ AllSharePast /\
  FollowersSound`. The last three speak of the chains on disk as well as those in
  memory, since a restart brings the former back; `HashesUnique` says a hash in
  use is no later than the clock and determines its block.
- **FollowerSync**: `NetOK /\ HasOK /\ HeadOK /\ RoundOK /\ SampledBeforeApplied`.
  `RoundOK` ties every index counted in the current round to an audited share of
  the block being sampled. A completed round is a permutation of the sample, so
  all of it was audited. For `PollIsNotSilenced` the flag is tied to the requests
  and answers in flight: with one announcing peer there is never an answer left
  to wait for after a failure.
- **ToolMarket**: `MarketInv` adds to the books that are checked their types and
  that everyone who was matched has a ledger. The refinement maps the reserved,
  the spent and the deposited to the escrow's.
- **WalletAuthority**: `CapsTyped /\ ParentAttenuated /\ PursesTyped /\
  PursesConserve /\ PaidByOneBatch`. A capability is compared with its parent only;
  that it is within every ancestor, and reached by the stops of each, follows by
  induction along the chain of parents, whose ids are older.
- **Evm**: `EvmInv`. Every account with a nonce and all code below a key's own
  account is at an address its creator's nonce has passed (`WorldOK`). So the address of
  the next nonce is free, a key's account has no code, and a contract's payment
  never takes from a key. Each kind of transaction is shown to be one `Outcome`:
  money moves from one account to another, or a child is created below its creator.
- **ExecutionZones**: `ZonesInv` adds the shape of the registry and of the updates
  and that a message among the roots of a zone is in an accepted update of it.
- **Voting**: `BftInv` (masterchain) says that blocks are sealed by the proposer of their
  view, once unless it restarted, that every vote is for a sealed block or answers a stray
  one (`VotesAreFounded`), and that views are backed by validators that reached them; `WireInv`
  says what an honest validator signs, once a height unless it was rewound, and that
  certificates verify; `HyperInv` that the blocks in flight fit the chain and
  their certificates are quorums; `PublisherInv` that the channel, the slot and what
  was sent are in order and the identity is the one on file.
- **BlockPayload**: `PayloadInv` says that the certificates in the pool consume
  disjoint versions, so a batch of them has no conflict, and that every block is one
  its producer's mode makes (`BlockIsOfMode`): outside the legacy mode no owned
  transaction is in the body and the commitment to data availability is the payload.
- **CheckpointChain**: `CheckpointInv` ties the job under way to the job that was sent
  and to its record at each step of the condenser (`JobUnderWay`), and every round to
  the root, digest and bundle it was sealed with (`RoundIsSealed`). That a range of
  accepted blocks is a piece of one fork follows from its links, block by block.
- **BlockProofs**: `ProofsInv` says that every block, on the chain or orphaned, is as
  `BuildBlock` makes it at its height (`BlockIsBuilt`), that a final or stored proof has
  the public inputs of that very block and a circuit that covers it (`BlockIsProved`), and that
  the pool's keys are those of its updates. `MetricsInv` adds that the counted height is
  the highest stored and that every stored proof was counted. The order of a drain is that
  of the elements' places, how many are before each (`PlacesAre`).
- **Masterchain**: `McInv` adds to the zones' invariant that bonded amounts and slash
  events add up (`BondBooks`) and treasury and credits do (`CreditBooks`), both kept by
  every step of the folds over a round; that pending proofs are of provers who have an
  account; and that each block is behind the ledger: its height is used up and none of
  its anchors is newer than the present one. `BlocksAdvance` needs the latter.

- **AgentLife**: `LifeInv` types the souls, whose number grows with children of a will, and
  says that a soul is dead exactly when it has one place in the settlements and that its marker
  is the epoch of the call that first found it broke (`GraceInv`). The reaper's
  pass is a recursive function of the souls; `ReapTyped` and `ReapedIs` carry the books, the
  settlements and what the pass may not touch along it, and `LegaciesAdd` shows that the
  dust goes to the first heirs and to nobody else.
- **Validators' stakes**: `StakeInv == StakeType /\ StakeConserved /\ SharesBacked`. Shares
  and credits are tables of owners and fingerprints, so money is summed by column
  (`GridTotal`), and the parts of a reward add up because the rounded parts of all but
  the last are at most the whole (`FloorsFit`, `SplitsWhole`), for which the shares must not
  exceed the stake: `SharesBacked`, in which `unowned` is what they fall short of it.
- **Providers' stakes**: `ProviderInv` has the three books agree for every key and not only
  for the rows there are (`Balanced`), since a request of nothing may outlive its row and a
  new row may come. A slash takes from the oldest request first; `TakenTotal` sums
  what is left by induction from the newest. That the minimum in `finalize_unstake` never
  bites follows: one request is at most what is pending.
- **Indexer**: `IndexerInv` says what the round in progress has written up to its place
  (`ProgressInv`, `RoundCounts`), what the completed rounds have (`RangeInv`,
  `RangeCounts`), and what the reader has seen (`StatusInv`, `PagesInv`). Rows are written
  before the cursor moves, so a stop anywhere leaves a range that is written again.
- **SocietyPublish**: `PublishInv` ties each effect of the publication under way to the files
  it has written so far (`PackagesInv`, `BundlesInv`, `FilesInv`, `RunsInv`, `ArtifactsInv`) and each
  receipt to the rows of its concepts (`IndexInv`). A package is linked to its first manifest for
  good, so that what a retry cuts may be the manifest of an earlier publication. A file is whole or torn; a torn line makes the rest of
  a log unreadable and is never taken for a row.

Sums and recursive functions are reasoned about with the lemmas of `Values`: an
induction over finite sets or naturals is made from the least counterexample
(`NatMin`, `FiniteInduction`), a recursive function is shown to exist (`SumExists`,
`FoldExists`, `StepsExist`), and a sum changes by what one entry changes by.

Constants carry only the named assumptions of their modules (`NAssumption`,
`FaultyAssumption`, `MarketAssumption`, `WalletAssumption`, ...), which TLC evaluates in
the runs.

Only model-checked: liveness (fairness and `ENABLED` are out of the prover's
reach); the pure algorithms that are compared with a reference definition
(`MerkleSafe`, `PolicySafe`, `ReviewSafe`, `SimulationsAgree`, most of `LearningIsHonest`
and `TrainingIsSound`), which would take induction over their recursion; and
`LedgerSafe` (the quarter budgets of the emission are a recursion over quarters and a
settlement's payouts a filtered sequence), `StoreSafe` (trie and chunks are compared with
a reference) and `AnswersAreTrue` (logs are numbered by filtered sequences).

## 5. Not modelled

- Computations taken as correct: hashes and signatures (`crypto`), Reed-Solomon
  coding, STWO and Plonky2 proving, revm.
- Input and output: `cli`, `sdk-rust` (but its Merkle proof),
  `mvp-backend`, `benchmarks`, `indexer-stub`; the command line, model providers and
  dataset readers of `rlvr`; HTTP and GraphQL layers; record encodings; the servers of
  `masterchain`.
- Data without state: fees of data availability (three multiplications), packages of
  `fractal-society/src/pkgs` that only format or count, built-in templates and word
  lists.
- `consensus/src/timeout.rs` repeats `bft-wire`; `node/src/metrics.rs` only counts.

## 6. Plan

1. Theorems for `NativeLedger` (`Solvent` and `EmissionExact`), the rows of `ChainStore`
   without its examined algorithms, and the indexes of `NodeRpc`.
2. `ReplicatedChain`, an abstract chain with one history and prefix-reading
   followers, refined by `NodeChain` without producer restarts.
3. Composition of `NodeChain`'s restarts with `BlockProofs`, and of `NodeRpc` with
   pruning followers.
4. DA peers with a retention of their own.
