------------------------------ MODULE NodeRpc ------------------------------
(***************************************************************************)
(* What a client of a node sees through its JSON-RPC: the submission       *)
(* methods, the tick that mines what they put in the pool, and the views   *)
(* of blocks, transactions, receipts, logs, attestations and life commands *)
(* (crates/rpc/src/module.rs, and ChainInteraction for NodeInner in        *)
(* crates/node/src/lib.rs).                                                *)
(*                                                                         *)
(* A transaction is named by its signer, nonce, call and wire format; the  *)
(* hash of its borsh bytes is the transaction with wire "borsh", the hash  *)
(* RPC knows it by is the transaction itself.  Every transaction pays the  *)
(* base fee, fits the block and offers the same priority fee (Mempool has  *)
(* those rules).  The node leads every view.                               *)
(*                                                                         *)
(* The faucet (crates/faucet) is a client of that node: it pays from one   *)
(* treasury account and holds its callers to a rate.                       *)
(***************************************************************************)
EXTENDS Values, SequencesExt, TLC

CONSTANTS
  Signers,       \* accounts
  NodeSigner,    \* HARDHAT_DEFAULT_SIGNER_0, which signs what the node submits
  Submissions,   \* the transactions clients send raw
  LogsOf,        \* LogsOf[e]: the logs the EVM call e emits, in order
  BitsOf,        \* BitsOf[x]: the bloom bits of an address or a topic
  Criteria,      \* the addresses and topics of the filters clients give
  Records,       \* RLMF attestation records
  Hashes,        \* proof hashes clients submit themselves
  LifeCommands,  \* commands clients submit
  Refused,       \* ids of life commands whose execution fails
  Absent,        \* None
  BlockRetention, \* block_retention
  MaxHeight,     \* bound: blocks
  MaxSubmitted,  \* bound: submissions
  Treasury,      \* DEVNET_FAUCET_TREASURY
  Drip,          \* FAUCET_DRIP_AMOUNT
  CooldownSecs,  \* FAUCET_COOLDOWN_SECS
  FundRequests,  \* what callers ask of the faucet: [ip, forwarded, to, amount]
  MaxFunding,    \* bound: requests the faucet lets in
  MaxClock,      \* bound: time
  PageLimit      \* the limit a client gives when it lists

ASSUME NodeRpcAssumption ==
  /\ {NodeSigner, Treasury} \subseteq Signers
  /\ {Drip, CooldownSecs, MaxFunding, MaxClock} \subseteq Nat
  /\ BlockRetention \in Nat \ {0} /\ MaxHeight \in Nat /\ MaxSubmitted \in Nat /\ PageLimit \in Nat

VARIABLES
  blocks,      \* the retained blocks, oldest first
  height,      \* the height of the head
  ledger,      \* the state executed on: nonces, commitments, life events, logged transactions
  txpool,      \* the mempool
  pendingTxs,  \* pending_txs: transactions by the hash RPC knows them by
  minedTxs,    \* mined_txs: where a transaction was mined, by the same hash
  rpcHashOf,   \* eth_internal_to_rpc_tx_hash
  attested,    \* rlmf_attestations, by commitment
  submitted,   \* how many submissions there were
  limits,      \* the faucet's limits: rate key -> when it was let in last
  funding,     \* the requests let in, with how far each has got
  clock        \* time, for the faucet

rpcVars == <<blocks, height, ledger, txpool, pendingTxs, minedTxs, rpcHashOf, attested, submitted>>
faucetVars == <<limits, funding, clock>>

TxOf(signer, nonce, call) == [signer |-> signer, nonce |-> nonce, call |-> call, wire |-> "borsh"]

\* The hash of the borsh bytes, which the state keys its receipts by.
InternalHash(t) == [t EXCEPT !.wire = "borsh"]

IsOwned(t) == t.call.kind = "commit"

\* The canonical commitment is over every field but the commitment hash; the
\* hex of the hashes may be spelled in several ways.
Commitment(r) == [subject |-> r.subject, source |-> r.source, body |-> r.body]

CommitCall(h) == [kind |-> "commit", id |-> h]

\* record.validate(): the record claims the commitment of its own fields.
RecordValid(r) == r.claimed = r.body

\* parse_life_command_kind; a kind may be spelled in two ways.
LifeKinds ==
  {"birth_grant", "birth_spawn", "birth_player_funded", "rent_charge", "loan_open", "loan_accept",
   "loan_repay", "extension_purchase", "will_register", "will_update", "owner_topup",
   "withdrawal_request", "withdrawal_settlement", "sii_commit", "ladder_commit", "benchmark_freeze",
   "intelligence_payout", "provenance_bond", "feedback_artifact", "sealed_sale", "reaper_epoch"}

\* build_life_command: without an id of its own a command has the hash of its
\* fields for one.
LifeCall(c) ==
  [kind |-> "life", id |-> [id |-> IF c.id = "" THEN c.hash ELSE c.id, kind |-> c.kind, epoch |-> c.epoch]]
-----------------------------------------------------------------------------
\* drain_ready_gas_budget_filtered: owned-object transactions first, and of
\* those with a common object, here the nonce of their signer, only the first.
ByLane == SelectSeq(txpool, IsOwned) \o SelectSeq(txpool, LAMBDA t : ~IsOwned(t))

Clashes(taken, t) ==
  IsOwned(t) /\ \E i \in DOMAIN taken : IsOwned(taken[i]) /\ taken[i].signer = t.signer

Drained ==
  FoldLeft(LAMBDA acc, t : IF Clashes(acc.taken, t)
                           THEN [acc EXCEPT !.rest = Append(@, t)]
                           ELSE [acc EXCEPT !.taken = Append(@, t)],
           [taken |-> <<>>, rest |-> <<>>], ByLane)

\* A proof commitment must be new; a life command must be new and pass its
\* economics; an EVM call succeeds.
CallApplies(s, call) ==
  CASE call.kind = "commit" -> call.id \notin s.commitments
    [] call.kind = "life"   -> /\ call.id.id \notin Refused
                               /\ \A i \in DOMAIN s.events : s.events[i].id # call.id.id
    [] OTHER -> TRUE

TxApplies(s, t) == s.nonces[t.signer] = t.nonce /\ CallApplies(s, t.call)

ApplyTx(s, t) ==
  [nonces      |-> [s.nonces EXCEPT ![t.signer] = @ + 1],
   commitments |-> IF t.call.kind = "commit" THEN s.commitments \cup {t.call.id} ELSE s.commitments,
   events      |-> IF t.call.kind = "life" THEN Append(s.events, t.call.id) ELSE s.events,
   logged      |-> IF t.call.kind = "evm" THEN s.logged \cup {InternalHash(t)} ELSE s.logged,
   paid        |-> IF t.call.kind = "transfer" THEN s.paid + t.call.id.amount ELSE s.paid]

\* apply_block_with_evm: the state after the transactions before the first
\* that fails, which stays also when the block is given up.
RunTxs(s, txs) ==
  FoldLeft(LAMBDA acc, t : IF acc.ok /\ TxApplies(acc.state, t)
                           THEN [acc EXCEPT !.state = ApplyTx(@, t)]
                           ELSE [acc EXCEPT !.ok = FALSE],
           [ok |-> TRUE, state |-> s], txs)

\* sync_rpc_index_from_block: mined_txs.
IndexedTxs(h, txs) ==
  [t \in {txs[i] : i \in DOMAIN txs} |->
     [height |-> h, index |-> CHOOSE i \in DOMAIN txs : txs[i] = t]]

\* prune_runtime_history; the index of mined transactions is not pruned.
Retained(bs) == IF Len(bs) > BlockRetention THEN SubSeq(bs, Len(bs) - BlockRetention + 1, Len(bs)) ELSE bs

\* transaction_count, which eth_getTransactionCount answers whatever block it
\* is asked for.
TransactionCount(a) == ledger.nonces[a]

RpcInit ==
  /\ blocks = <<>> /\ height = 0
  /\ ledger = [nonces |-> [s \in Signers |-> 0], commitments |-> {}, events |-> <<>>, logged |-> {},
                paid |-> 0]
  /\ txpool = <<>> /\ pendingTxs = {} /\ minedTxs = Empty /\ rpcHashOf = Empty
  /\ attested = Empty /\ submitted = 0

\* What every submission does with its transaction.
Pool(t) ==
  /\ submitted < MaxSubmitted
  /\ submitted' = submitted + 1
  /\ pendingTxs' = pendingTxs \cup {t}
  /\ txpool' = Append(txpool, t)
  /\ UNCHANGED <<blocks, height, ledger, minedTxs, rpcHashOf>>

\* submit_raw_tx: borsh bytes, or a signed EIP-1559 transaction.
SubmitRawTx(t) == Pool(t) /\ UNCHANGED attested

\* eth_sendRawTransaction.  It answers the hash of the bytes, which is the
\* hash the transaction is known by.
SendRawTransaction(t) == SubmitRawTx(t)

\* submit_proof_hash: the nonce is the one of the executed state, whatever is
\* pooled.
SubmitProofHash(h) ==
  Pool(TxOf(NodeSigner, TransactionCount(NodeSigner), CommitCall(h))) /\ UNCHANGED attested

\* submit_rlmf_attestation.  A record that is known changes nothing: spelled
\* the same it gets the first answer, and otherwise an error.
SubmitRlmfAttestation(r) ==
  LET c == Commitment(r)
      t == TxOf(NodeSigner, TransactionCount(NodeSigner), CommitCall(c))
  IN /\ RecordValid(r)
     /\ c \notin DOMAIN attested
     /\ Pool(t)
     /\ attested' = Put(attested, c, [record |-> r, tx |-> t, block |-> height])

\* submit_life_command: a command that was executed is only looked up.
SubmitLifeCommand(call) ==
  /\ \A i \in DOMAIN ledger.events : ledger.events[i].id # call.id.id
  /\ Pool(TxOf(NodeSigner, TransactionCount(NodeSigner), call))
  /\ UNCHANGED attested

\* fractal_submitLifeCommand: a command of no known kind is refused.
SendLifeCommand(c) == c.kind \in LifeKinds /\ SubmitLifeCommand(LifeCall(c))

\* try_produce_one_tick: what was drained is gone also when the build fails.
TryProduceOneTick ==
  \E d \in {Drained} : \E run \in {RunTxs(ledger, d.taken)} :
    LET txs == d.taken IN
    /\ height < MaxHeight
    /\ txpool' = d.rest
    /\ ledger' = run.state
    /\ IF run.ok
       THEN /\ height' = height + 1
            /\ blocks' = Retained(Append(blocks, [height |-> height + 1, txs |-> txs]))
            /\ minedTxs' = IndexedTxs(height + 1, txs) @@ minedTxs
            /\ rpcHashOf' = [h \in {InternalHash(txs[i]) : i \in {k \in DOMAIN txs : txs[k].wire = "eth"}} |->
                               [h EXCEPT !.wire = "eth"]] @@ rpcHashOf
            /\ pendingTxs' = pendingTxs \ {txs[i] : i \in DOMAIN txs}
       ELSE UNCHANGED <<height, blocks, minedTxs, rpcHashOf, pendingTxs>>
    /\ UNCHANGED <<attested, submitted>>

RpcNext ==
  \/ \E t \in Submissions : SendRawTransaction(t)
  \/ \E h \in Hashes : SubmitProofHash(h)
  \/ \E r \in Records : SubmitRlmfAttestation(r)
  \/ \E c \in LifeCommands : SendLifeCommand(c)
  \/ TryProduceOneTick

RpcSpec == RpcInit /\ [][RpcNext]_rpcVars
-----------------------------------------------------------------------------
\* run: a cooldown of zero seconds counts as one.
Cooldown == Max({1, CooldownSecs})

\* rate_key: the first address of x-forwarded-for, or the address of the peer
RateKey(q) == IF q.forwarded # Absent THEN <<"xff", q.forwarded>> ELSE <<"ip", q.ip>>

\* requested_amount
RequestedAmount(q) == IF q.amount = Absent THEN Drip ELSE q.amount

\* parse_addr, and the errors of requested_amount
FundBodyValid(q) == q.to # Absent /\ RequestedAmount(q) \in 1 .. Drip

\* Seeded defect: the key is stamped only for a request that can be served.
FundUnstamped(q) ==
  /\ Len(funding) < MaxFunding
  /\ RateKey(q) \in DOMAIN limits => clock - limits[RateKey(q)] >= Cooldown
  /\ limits' = IF FundBodyValid(q) THEN Put(limits, RateKey(q), clock) ELSE limits
  /\ funding' = Append(funding, [req |-> q, nonce |-> 0, step |-> IF FundBodyValid(q) THEN "nonce" ELSE "refused"])
  /\ UNCHANGED <<clock, rpcVars>>

\* fund, up to its first call of the node.  The key is stamped under the lock
\* of the limits, before the body is looked at.
Fund(q) ==
  /\ Len(funding) < MaxFunding
  /\ RateKey(q) \in DOMAIN limits => clock - limits[RateKey(q)] >= Cooldown
  /\ limits' = Put(limits, RateKey(q), clock)
  /\ funding' = Append(funding, [req |-> q, nonce |-> 0, step |-> IF FundBodyValid(q) THEN "nonce" ELSE "refused"])
  /\ UNCHANGED <<clock, rpcVars>>

\* get_nonce: of the executed state; other requests may be under way.
GetNonce(i) ==
  /\ funding[i].step = "nonce"
  /\ funding' = [funding EXCEPT ![i].step = "send", ![i].nonce = TransactionCount(Treasury)]
  /\ UNCHANGED <<limits, clock, rpcVars>>

DripTx(f) ==
  TxOf(Treasury, f.nonce, [kind |-> "transfer", id |-> [to |-> f.req.to, amount |-> RequestedAmount(f.req)]])

\* send_transfer; the answer may get lost on the way back.
SendTransfer(i, outcome) ==
  /\ funding[i].step = "send"
  /\ SubmitRawTx(DripTx(funding[i]))
  /\ funding' = [funding EXCEPT ![i].step = outcome]
  /\ UNCHANGED <<limits, clock>>

\* rpc_call: the node could not be reached, and the request is given up.
RpcCallFails(i) ==
  /\ funding[i].step \in {"nonce", "send"}
  /\ funding' = [funding EXCEPT ![i].step = "failed"]
  /\ UNCHANGED <<limits, clock, rpcVars>>

TimePasses ==
  clock < MaxClock /\ clock' = clock + 1 /\ UNCHANGED <<limits, funding, rpcVars>>

FaucetInit == limits = Empty /\ funding = <<>> /\ clock = 0

FaucetNext ==
  \/ \E q \in FundRequests : Fund(q)
  \/ \E i \in DOMAIN funding : GetNonce(i) \/ RpcCallFails(i)
  \/ \E i \in DOMAIN funding, outcome \in {"answered", "failed"} : SendTransfer(i, outcome)
  \/ TimePasses
  \/ TryProduceOneTick /\ UNCHANGED faucetVars
-----------------------------------------------------------------------------
\* retained_block
RetainedBlock(n) == {i \in DOMAIN blocks : blocks[i].height = n}

BlockAt(n) == blocks[CHOOSE i \in RetainedBlock(n) : TRUE]

\* header_hash: a height has one block here, which the hash stands for.
\* genesis_parent_hash is the hash of height 0.
HeaderHash(n) == <<"block", n>>

\* block_hash_by_number
BlockHashByNumber(n) == IF n = 0 \/ RetainedBlock(n) # {} THEN HeaderHash(n) ELSE Absent

\* The block that block_by_hash makes up for the genesis hash.
SyntheticGenesis == [height |-> 0, txs |-> <<>>]

\* block_by_hash
BlockByHash(h) ==
  LET at == {i \in DOMAIN blocks : HeaderHash(blocks[i].height) = h}
  IN CASE h = HeaderHash(0) -> SyntheticGenesis
       [] h # HeaderHash(0) /\ at # {} -> blocks[Min(at)]
       [] OTHER -> Absent

\* The logs the state has for a transaction, found by its internal hash.
StoredLogs(t) ==
  IF InternalHash(t) \in ledger.logged THEN LogsOf[t.call.id] ELSE <<>>

\* internal_tx_hash_for_state
InternalOf(h) == IF \E i \in DOMAIN rpcHashOf : rpcHashOf[i] = h THEN InternalHash(h) ELSE h

\* tx_by_hash: pending, then mined, then any retained block by the internal
\* hash.
TxByHash(h) ==
  CASE h \in pendingTxs -> h
    [] h \notin pendingTxs /\ h \in DOMAIN minedTxs ->
         IF RetainedBlock(minedTxs[h].height) = {} THEN Absent
         ELSE BlockAt(minedTxs[h].height).txs[minedTxs[h].index]
    [] OTHER ->
         LET at == {p \in (DOMAIN blocks) \X (1 .. MaxSubmitted) :
                      p[2] \in DOMAIN blocks[p[1]].txs /\ InternalHash(blocks[p[1]].txs[p[2]]) = h}
         IN IF at = {} THEN Absent ELSE LET p == CHOOSE p \in at : TRUE IN blocks[p[1]].txs[p[2]]

\* log_index_base_in_block
LogIndexBase(n, index) ==
  IF RetainedBlock(n) = {} THEN 0
  ELSE SumOver(1 .. index - 1, LAMBDA i : Len(StoredLogs(BlockAt(n).txs[i])))

\* bloom_add for the address and the topics of a log.
LogBloom(l) == BitsOf[l.address] \cup UNION {BitsOf[l.topics[i]] : i \in DOMAIN l.topics}

\* logs_bloom_256
LogsBloom(logs) == UNION {LogBloom(logs[i]) : i \in DOMAIN logs}

\* logs_bloom_for_block
BlockBloom(b) == UNION {LogsBloom(StoredLogs(b.txs[i])) : i \in DOMAIN b.txs}

\* make_rpc_log
RpcLog(l, n, t, index, logIndex) ==
  [log |-> l, block |-> n, tx |-> t, index |-> index, logIndex |-> logIndex]

\* receipt_rpc_logs
ReceiptLogs(h, at) ==
  LET logs == IF InternalOf(h) \in ledger.logged THEN LogsOf[h.call.id] ELSE <<>>
  IN [bloom |-> LogsBloom(logs),
      logs  |-> [i \in DOMAIN logs |->
                   RpcLog(logs[i], at.height, h, at.index, LogIndexBase(at.height, at.index) + i - 1)]]

\* The `to` of a transaction: an EVM call without one creates a contract, a
\* native call has none.
Recipient(t) ==
  CASE t.call.kind = "transfer" -> t.call.id.to
    [] t.call.kind = "evm"      -> t.call.to
    [] OTHER                    -> Absent

\* rpc_receipt_from_core.  The gas is what the state metered for the internal
\* hash, and otherwise the intrinsic gas; a call that fails is in no block, so
\* the status is that of success.
ReceiptView(t, h) ==
  [hash     |-> h,
   from     |-> t.signer,
   to       |-> Recipient(t),
   contract |-> IF t.call.kind = "evm" /\ t.call.to = Absent THEN <<t.signer, t.nonce>> ELSE Absent,
   metered  |-> InternalOf(h) \in ledger.logged]

\* eth_getTransactionReceipt.  There is none for a hash that finds a
\* transaction but no place where it was mined.
Receipt(h) ==
  IF TxByHash(h) = Absent \/ h \notin DOMAIN minedTxs THEN Absent
  ELSE [block |-> minedTxs[h].height, index |-> minedTxs[h].index]
         @@ ReceiptView(TxByHash(h), h) @@ ReceiptLogs(h, minedTxs[h])

\* rpc_block_from_consensus: the transactions of a block are listed by the
\* hashes of their borsh bytes.
HashesListed(b) == [i \in DOMAIN b.txs |-> InternalHash(b.txs[i])]

\* The fields of a block that depend on the chain.
RpcBlock(b, h) ==
  [number       |-> b.height,
   hash         |-> h,
   parentHash   |-> IF b.height = 0 THEN Absent ELSE HeaderHash(b.height - 1),
   transactions |-> HashesListed(b),
   logsBloom    |-> BlockBloom(b)]

\* An answer of a method, or its error.
Answered(v) == [error |-> "none", result |-> v]
Failed(e)   == [error |-> e, result |-> Absent]

\* The block a tag names: "latest", a number in hex, or anything else.
TagNumber(tag) == IF tag.kind = "latest" THEN height ELSE tag.number

\* eth_getBlockByHash
GetBlockByHash(h) ==
  IF BlockByHash(h) = Absent THEN Failed("block not found") ELSE Answered(RpcBlock(BlockByHash(h), h))

\* eth_getBlockByNumber
GetBlockByNumber(tag) ==
  CASE tag.kind = "other" -> Failed("unsupported blockTag")
    [] tag.kind # "other" /\ BlockHashByNumber(TagNumber(tag)) = Absent -> Failed("block not found")
    [] OTHER -> GetBlockByHash(BlockHashByNumber(TagNumber(tag)))

\* eth_getBlockTransactionCountByHash, and by number
TransactionCountByHash(h) ==
  IF BlockByHash(h) = Absent THEN Failed("block not found") ELSE Answered(Len(BlockByHash(h).txs))

TransactionCountByNumber(tag) ==
  CASE tag.kind = "other" -> Failed("unsupported blockTag")
    [] tag.kind # "other" /\ BlockHashByNumber(TagNumber(tag)) = Absent -> Failed("block not found")
    [] OTHER -> TransactionCountByHash(BlockHashByNumber(TagNumber(tag)))

\* rpc_tx_from_core, under the hash it was asked for by and with the place it
\* was mined at, if any.
TxView(t, h, at) ==
  [hash  |-> h, from |-> t.signer, nonce |-> t.nonce, to |-> Recipient(t), call |-> t.call,
   block |-> IF at = Absent THEN Absent ELSE HeaderHash(at.height),
   index |-> IF at = Absent THEN Absent ELSE at.index]

\* eth_getTransactionByBlockHashAndIndex.  The transaction goes by the hash of
\* its borsh bytes.
TxByBlockHashAndIndex(h, i) ==
  IF BlockByHash(h) = Absent THEN Absent
  ELSE LET b == BlockByHash(h)
       IN IF i \notin DOMAIN b.txs THEN Absent
          ELSE TxView(b.txs[i], InternalHash(b.txs[i]), [height |-> b.height, index |-> i])

\* eth_getTransactionByBlockNumberAndIndex
TxByBlockNumberAndIndex(tag, i) ==
  CASE tag.kind = "other" -> Failed("unsupported blockTag")
    [] tag.kind # "other" /\ BlockHashByNumber(TagNumber(tag)) = Absent -> Answered(Absent)
    [] OTHER -> Answered(TxByBlockHashAndIndex(BlockHashByNumber(TagNumber(tag)), i))

\* eth_getTransactionByHash.  The place is looked up by the hash asked for, so
\* that a signed Ethereum transaction has one only by its own hash.
TransactionByHash(h) ==
  IF TxByHash(h) = Absent THEN Absent ELSE TxView(TxByHash(h), h, Get(minedTxs, h, Absent))

\* eth_feeHistory: the base fee of now for every block and the one after.
FeeHistory(count, tag) ==
  IF tag.kind = "other" THEN Failed("unsupported newestBlock")
  ELSE Answered([oldest |-> Minus(TagNumber(tag), Minus(count, 1)), fees |-> count + 1, ratios |-> count])

\* rpc_tx_scope.  Every owned or mixed transaction touches the nonce of its
\* signer, and the object of its call.
TxScope(t) ==
  LET lane == CASE t.call.kind = "commit" -> "owned" [] t.call.kind = "life" -> "mixed" [] OTHER -> "consensus"
  IN [lane     |-> lane,
      eligible |-> lane = "owned",
      owner    |-> IF lane = "consensus" THEN Absent ELSE t.signer,
      objects  |-> IF lane = "consensus" THEN {} ELSE {<<"accountNonce", t.signer>>, <<t.call.kind, t.call.id>>}]

\* lane_metrics
LaneMetrics ==
  LET pending(l) == Cardinality({i \in DOMAIN txpool : TxScope(txpool[i]).lane = l})
  IN [total |-> Len(txpool), owned |-> pending("owned"), mixed |-> pending("mixed"),
      consensus |-> pending("consensus"), consensusLane |-> pending("mixed") + pending("consensus")]

\* evm_log_matches_topic_filters: a slot that is not given matches, a slot
\* past the topics of the log does not.
TopicsMatch(l, slots) ==
  \A i \in DOMAIN slots :
    slots[i] # {} => i \in DOMAIN l.topics /\ l.topics[i] \in slots[i]

Matches(l, f) == (f.anyAddress \/ l.address \in f.addresses) /\ TopicsMatch(l, f.topics)

\* Seeded defect: the ends of the range are not put in order.
RangeOfAsGiven(f) == f.from .. f.to

\* The heights of an eth_getLogs filter: its ends in order, and at least 1.
RangeOf(f) ==
  LET lo == IF f.from > f.to THEN f.to ELSE f.from
      hi == IF f.from > f.to THEN f.from ELSE f.to
  IN (IF lo > 1 THEN lo ELSE 1) .. (IF hi > 1 THEN hi ELSE 1)

MaxLogs == Max({Len(LogsOf[e]) : e \in DOMAIN LogsOf} \cup {0})

\* logs_for_filter.  A list of no addresses gives no logs. The log index
\* counts the logs of the block that match, not all of them.
GetLogs(f) ==
  LET matching(b) == {p \in (DOMAIN b.txs) \X (1 .. MaxLogs) :
                        /\ p[2] \in DOMAIN StoredLogs(b.txs[p[1]])
                        /\ Matches(StoredLogs(b.txs[p[1]])[p[2]], f)}
      before(p, q) == p[1] < q[1] \/ (p[1] = q[1] /\ p[2] < q[2])
      hashOf(t) == Get(rpcHashOf, InternalHash(t), InternalHash(t))
      found(b) == LET M == matching(b)
                  IN {RpcLog(StoredLogs(b.txs[p[1]])[p[2]], b.height, hashOf(b.txs[p[1]]), p[1],
                             Cardinality({q \in M : before(q, p)})) : p \in M}
      range == RangeOf(f)
  IN UNION {found(blocks[i]) : i \in {j \in DOMAIN blocks : blocks[j].height \in range}}

\* The order of list_rlmf_attestations: the newest block first, then by
\* commitment.
ListedBefore(a, b) ==
  attested[a].block > attested[b].block \/ (attested[a].block = attested[b].block /\ a.body < b.body)

\* The limit of a list: at most cap, and the default when none is given.
LimitOf(asked, default, cap) == IF asked = Absent THEN default ELSE Min({asked, cap})

\* The filter of list_rlmf_attestations; what is not given matches.
AttestationMatches(c, f) ==
  /\ f.subject \in {Absent, c.subject}
  /\ f.source \in {Absent, c.source}
  /\ f.block \in {Absent, attested[c].block}
  /\ f.tx \in {Absent, attested[c].tx}

\* fractal_listRlmfAttestations
ListAttestations(f, asked) ==
  LET limit == LimitOf(asked, 64, 256)
      matching == {c \in DOMAIN attested : AttestationMatches(c, f)}
  IN {c \in matching : Cardinality({d \in matching : ListedBefore(d, c)}) < limit}

\* fractal_getRlmfAttestation
GetAttestation(c) == Get(attested, c, Absent)

\* What fractal_submitRlmfAttestation answers for a record that is known.
ResubmissionAnswer(r) ==
  CASE ~RecordValid(r) -> Failed("invalid params")
    [] RecordValid(r) /\ GetAttestation(Commitment(r)).record = r ->
         Answered([tx |-> GetAttestation(Commitment(r)).tx, block |-> GetAttestation(Commitment(r)).block])
    [] OTHER -> Failed("different contents")

\* list_life_events: the events that match, the newest first.
EventsMatching(kind, epoch) ==
  Reverse(SelectSeq(ledger.events, LAMBDA e : kind \in {Absent, e.kind} /\ epoch \in {Absent, e.epoch}))

\* fractal_listLifeEvents
ListLifeEvents(kind, epoch, asked) ==
  LET limit == LimitOf(asked, 128, 512)
      events == EventsMatching(kind, epoch)
  IN SubSeq(events, 1, Min({limit, Len(events)}))

\* life_command_tx_hash: the hashes it may find, of pending transactions
\* before mined ones whose block is retained.
LifeTxHashes(id) ==
  LET carries(t) == t.call.kind = "life" /\ t.call.id.id = id
      pending == {t \in pendingTxs : carries(t)}
      mined == {h \in DOMAIN minedTxs : TxByHash(h) # Absent /\ carries(TxByHash(h))}
  IN IF pending # {} THEN pending ELSE mined

\* fractal_getLifeCommand
LifeCommandById(id) ==
  LET at == {i \in DOMAIN ledger.events : ledger.events[i].id = id}
  IN IF at = {} THEN Absent
     ELSE [command |-> ledger.events[Min(at)], sequence |-> Min(at), hashes |-> LifeTxHashes(id)]
-----------------------------------------------------------------------------
Filters == {[from |-> a, to |-> b] @@ c : a \in 0 .. MaxHeight, b \in 0 .. MaxHeight, c \in Criteria}

ReceiptsAt(n) == {Receipt(BlockAt(n).txs[i]) : i \in DOMAIN BlockAt(n).txs}

Unplaced(l) == [l EXCEPT !.logIndex = 0]

\* eth_getLogs and the receipts tell the same: the logs of a range of blocks
\* are the logs of the receipts of the transactions mined in the blocks of it
\* that are retained, those that match, under the same transaction hashes.
\* The two go through different indexes, and eth hashes are mapped both ways.
LogsMatchReceipts ==
  LET told == [i \in DOMAIN blocks |-> UNION {Range(r.logs) : r \in ReceiptsAt(blocks[i].height)}]
  IN \A f \in IF blocks = <<>> THEN {} ELSE Filters :
       LET inRange == {i \in DOMAIN blocks : LET n == blocks[i].height IN
             (f.from <= n /\ n <= f.to) \/ (f.to <= n /\ n <= f.from) \/ (f.from = 0 /\ f.to = 0 /\ n = 1)}
       IN {Unplaced(l) : l \in GetLogs(f)}
            = {Unplaced(l) : l \in {x \in UNION {told[i] : i \in inRange} : Matches(x.log, f)}}

\* Every transaction of a retained block has a receipt that names its place,
\* and the log indexes of the receipts of a block count from 0 without a gap
\* or a repetition.
ReceiptsPlaced ==
  \A i \in DOMAIN blocks :
    LET n == blocks[i].height
        told == UNION {Range(r.logs) : r \in ReceiptsAt(n)}
    IN /\ \A j \in DOMAIN blocks[i].txs :
            Receipt(blocks[i].txs[j]) # Absent /\ Receipt(blocks[i].txs[j]).index = j
       /\ {l.logIndex : l \in told} = 0 .. Cardinality(told) - 1

\* A client that skips the blocks whose bloom rules a filter out misses none
\* of its logs: the bloom of a block covers the addresses and topics of every
\* log that eth_getLogs returns for it, and the blooms of its receipts.
BloomCovers ==
  \A i \in DOMAIN blocks :
    LET bloom == BlockBloom(blocks[i])
        n == blocks[i].height
    IN /\ \A l \in GetLogs([from |-> n, to |-> n, anyAddress |-> TRUE, addresses |-> {}, topics |-> <<>>]) :
            /\ BitsOf[l.log.address] \subseteq bloom
            /\ \A k \in DOMAIN l.log.topics : BitsOf[l.log.topics[k]] \subseteq bloom
       /\ \A r \in ReceiptsAt(n) : r.bloom \subseteq bloom

\* The hashes eth_getBlockByNumber lists are those of the borsh bytes; a
\* client that asks for one of them by hash gets the transaction it gets by
\* the block and the index.
ListedIsFound ==
  \A k \in DOMAIN blocks : \A i \in DOMAIN HashesListed(blocks[k]) :
    \E t \in {TxByHash(HashesListed(blocks[k])[i])} :
      t # Absent /\ InternalHash(t) = TxByBlockHashAndIndex(HeaderHash(blocks[k].height), i).hash

\* A proof commitment or a life command is mined at most once, however often
\* and under whatever nonce it is submitted: an attestation submitted twice, a
\* command resubmitted while the first is pooled, a hash that was attested.
CommittedOnce ==
  \A t, u \in DOMAIN minedTxs :
    t.call = u.call /\ t.call.kind \in {"commit", "life"} => t = u

\* A list that is cut at its limit keeps the newest: no attestation or life
\* event that is left out is newer than one that is listed.
ListsKeepNewest ==
  /\ \A r \in Records :
       LET f == [subject |-> r.subject, source |-> Absent, block |-> Absent, tx |-> Absent]
           listed == ListAttestations(f, PageLimit)
       IN \A c \in DOMAIN attested \ listed :
            c.subject = r.subject =>
              /\ Cardinality(listed) = PageLimit
              /\ \A d \in listed : attested[d].block >= attested[c].block
  /\ \A c \in LifeCommands :
       LET listed == ListLifeEvents(c.kind, Absent, PageLimit)
           position(e) == CHOOSE i \in DOMAIN ledger.events : ledger.events[i] = e
       IN \A i \in DOMAIN ledger.events :
            ledger.events[i].kind = c.kind /\ ledger.events[i] \notin Range(listed) =>
              /\ Len(listed) = PageLimit
              /\ \A k \in DOMAIN listed : position(listed[k]) > i

Tags == {[kind |-> "number", number |-> n] : n \in 0 .. MaxHeight + 1} \cup {[kind |-> k, number |-> 0] : k \in {"latest", "other"}}

\* The views of the chain agree on it, also while it is pruned: a block is the
\* same by number and by hash, the head is always to be had, a parent that is
\* retained is the block before; a transaction is the same by block hash, by
\* block number and by the hash listed for it; the fee history names as many
\* blocks as it has ratios, unless it would begin before the genesis.
BlockViewsAgree ==
  \A tag \in Tags :
    LET got == GetBlockByNumber(tag)
    IN /\ tag.kind = "latest" => got.error = "none" /\ got.result.number = height
       /\ got.error = TransactionCountByNumber(tag).error
       /\ got.error = "none" =>
            /\ got = GetBlockByHash(got.result.hash)
            /\ got.result.number = TagNumber(tag)
            /\ TransactionCountByNumber(tag).result = Len(got.result.transactions)
            /\ LET parent == GetBlockByHash(got.result.parentHash)
               IN parent.error = "none" => parent.result.number = got.result.number - 1
            /\ \A i \in 1 .. MaxSubmitted :
                 LET tx == TxByBlockHashAndIndex(got.result.hash, i)
                 IN /\ TxByBlockNumberAndIndex(tag, i) = Answered(tx)
                    /\ (tx # Absent) <=> (i \in DOMAIN got.result.transactions)
                    /\ tx # Absent =>
                         /\ tx.hash = got.result.transactions[i]
                         /\ TransactionByHash(tx.hash) # Absent
       /\ \A count \in 1 .. MaxHeight :
            LET told == FeeHistory(count, tag)
            IN told.error = "none" /\ told.result.oldest > 0 =>
                 TagNumber(tag) - told.result.oldest + 1 = told.result.ratios

\* A mined transaction, asked for by the hash its sender was given, names the
\* block and the place that the block itself shows it at; its signer's count
\* has passed its nonce; an EVM transaction, and no other, has metered gas,
\* through whichever hash the state knows it by; no two creations have the
\* same contract address.
TransactionViewsAgree ==
  /\ \A h \in DOMAIN minedTxs :
       LET tx == TransactionByHash(h)
           r == Receipt(h)
       IN /\ TransactionCount(h.signer) > h.nonce
          /\ (tx = Absent) <=> (r = Absent)
          /\ tx # Absent /\ RetainedBlock(minedTxs[h].height) # {} =>
               /\ r.metered <=> h.call.kind = "evm"
               /\ TxByBlockHashAndIndex(tx.block, tx.index) = [tx EXCEPT !.hash = InternalHash(h)]
  /\ \A h, g \in {k \in DOMAIN minedTxs : Receipt(k) # Absent} :
       Receipt(h).contract # Absent /\ Receipt(h).contract = Receipt(g).contract => h = g

\* The registers answer for what was submitted: an attestation is found under
\* every filter that names its own fields, and its submission, repeated, gets
\* the first answer; a life command that was executed has a transaction that
\* carries it, also when its block was given up, until the block is pruned;
\* the lanes of the pool add up.
RegistersAgree ==
  /\ \A c \in DOMAIN attested :
       LET a == GetAttestation(c)
       IN /\ \A f \in [subject : {Absent, c.subject}, source : {Absent, c.source},
                       block : {Absent, a.block}, tx : {Absent, a.tx}] :
               c \in ListAttestations(f, Absent)
          /\ ResubmissionAnswer(a.record) = Answered([tx |-> a.tx, block |-> a.block])
  /\ \A i \in DOMAIN ledger.events :
       LET told == LifeCommandById(ledger.events[i].id)
       IN /\ told # Absent /\ told.sequence = i
          /\ told.hashes = {} =>
               \E h \in DOMAIN minedTxs : h.call = [kind |-> "life", id |-> told.command]
                                          /\ RetainedBlock(minedTxs[h].height) = {}
          /\ ledger.events[i] \in Range(ListLifeEvents(told.command.kind, told.command.epoch, Absent))
  /\ LaneMetrics.total = LaneMetrics.owned + LaneMetrics.consensusLane
  /\ LaneMetrics.owned = Cardinality({i \in DOMAIN txpool : IsOwned(txpool[i])})

\* The faucet pays no faster than its rate, whatever requests overlap, fail or
\* are repeated: a key has one request a cooldown, and what the treasury has
\* paid out is within what those requests may take.
FaucetKeepsRate ==
  /\ \A q \in FundRequests :
       Cardinality({i \in DOMAIN funding : RateKey(funding[i].req) = RateKey(q)}) <= 1 + (clock \div Cooldown)
  /\ ledger.paid <= Drip * Cardinality({i \in DOMAIN funding : funding[i].step \in {"answered", "failed"}})

\* A drip that lost the race for its nonce does not hold up later ones: no
\* transfer waits for a nonce that the treasury has not reached.
DripsNeverJam ==
  \A i \in DOMAIN txpool : txpool[i].signer = Treasury => txpool[i].nonce <= ledger.nonces[Treasury]

\* A drip the faucet has answered is paid or still in the pool.
AnsweredIsPaid ==
  Cardinality({i \in DOMAIN funding : funding[i].step = "answered"})
    <= ledger.nonces[Treasury] + Cardinality({i \in DOMAIN txpool : txpool[i].signer = Treasury})

\* An attestation the node acknowledged as finalized is in a block or will be:
\* its commitment is executed or its transaction is in the pool.
AttestedIsCarried ==
  \A c \in DOMAIN attested :
    c \in ledger.commitments \/ \E i \in DOMAIN txpool : txpool[i].call = CommitCall(c)

\* A log has the same index in the receipt and in eth_getLogs.
LogIndexAgrees ==
  \A f \in Filters : \A l \in GetLogs(f) :
    \E i \in DOMAIN Receipt(l.tx).logs : Receipt(l.tx).logs[i] = l
=============================================================================
