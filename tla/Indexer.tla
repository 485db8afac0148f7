------------------------------- MODULE Indexer -------------------------------
(***************************************************************************)
(* The chain indexer (crates/indexer): a thread follows the node's RPC and *)
(* writes blocks, transactions, life events and reputation rows to SQLite; *)
(* the explorer and GraphQL handlers read the tables meanwhile.  Every     *)
(* write is a transaction of its own, so the process can stop between any  *)
(* two.  A transaction is a record of its id, signer, kind and, by kind,   *)
(* receipts, an amount, or what it points to.                              *)
(***************************************************************************)
EXTENDS Values, Functions

CONSTANTS
  Chain,        \* height -> sequence of transactions, from height 0
  CatchupBlocks,\* catchup_blocks
  IndexPageLimit,    \* the LIMIT of a listing
  MaxFailures   \* bound: stops and failed fetches

\* The hash of a transaction names one place in the chain.
ASSUME IndexerAssumption ==
  /\ CatchupBlocks \in Nat /\ IndexPageLimit \in Nat \ {0}
  /\ 0 \in DOMAIN Chain /\ \A n \in DOMAIN Chain : n \in Nat /\ 0 .. n \subseteq DOMAIN Chain
  /\ \A n \in DOMAIN Chain : Chain[n] \in Seq(Range(Chain[n]))
  /\ \A n \in DOMAIN Chain : \A i \in DOMAIN Chain[n] :
       Chain[n][i].kind = "settle" => Chain[n][i].receipts \in Seq(Range(Chain[n][i].receipts))
  /\ \A m, n \in DOMAIN Chain : \A i \in DOMAIN Chain[m], j \in DOMAIN Chain[n] :
       Chain[m][i].id = Chain[n][j].id => m = n /\ i = j

VARIABLES
  chainHead,    \* what eth_blockNumber answers
  blockRows,    \* table blocks: height -> number of transactions
  txRows,       \* table transactions: id -> <<height, index>>
  lifeRows,     \* table life_events: ids
  repRows,      \* table reputation_rows: worker -> counts
  mirror,       \* meta reputation_chain_mirror_json
  lastIndexed,  \* meta last_indexed_block
  job,          \* the sync thread
  reader,       \* a client of the explorer: status, then pages of blocks
  indexedFrom,  \* history: first height of the completed ranges
  skipped,      \* history: transactions whose last fetch failed
  failures

indexerVars == <<chainHead, blockRows, txRows, lifeRows, repRows, mirror, lastIndexed, job, reader,
                 indexedFrom, skipped, failures>>
tables == <<blockRows, txRows, lifeRows, repRows, mirror, lastIndexed>>

\* A round of sync_to_head over from .. hi, at the i-th transaction of a height.
Round(pc, from, at, i, hi) == [pc |-> pc, at |-> at, hi |-> hi, from |-> from, i |-> i, r |-> 0, slash |-> 0]
Resting == Round("idle", 0, 0, 0, 0)
Away == [pc |-> "away", last |-> 0, count |-> 0, due |-> {}, seen |-> {}]
NoMirror == [nextAgent |-> 1, nextDispute |-> 1, agents |-> Empty, stakes |-> Empty,
             disputes |-> Empty, receipts |-> Empty]
NoRow == [ok |-> 0, failed |-> 0, slashed |-> 0, clients |-> {}, stake |-> 0]

Tx == Chain[job.at][job.i]
-----------------------------------------------------------------------------
\* IndexerChainMirror::apply_native: what the mirror makes of a call, whether
\* or not the call succeeded on the chain.
Mirrored(m, tx) ==
  CASE tx.kind = "register" ->
         [m EXCEPT !.nextAgent = @ + 1, !.agents = Put(@, m.nextAgent, tx.signer)]
    [] tx.kind = "stake" -> [m EXCEPT !.stakes = Put(@, tx.signer, Get(@, tx.signer, 0) + tx.amount)]
    [] tx.kind = "unstake" ->
         LET left == Minus(Get(m.stakes, tx.signer, 0), tx.amount)
         IN  [m EXCEPT !.stakes = IF left = 0 THEN Without(@, {tx.signer}) ELSE Put(@, tx.signer, left)]
    [] tx.kind = "slash" -> [m EXCEPT !.stakes = Without(@, {tx.of})]
    [] tx.kind = "dispute" ->
         [m EXCEPT !.nextDispute = @ + 1, !.disputes = Put(@, m.nextDispute, tx.of)]
    [] tx.kind = "settle" ->
         [m EXCEPT !.receipts = [r \in DOMAIN @ \cup {x.receipt : x \in Range(tx.receipts)} |->
                                   IF r \in {x.receipt : x \in Range(tx.receipts)}
                                   THEN (CHOOSE x \in Range(tx.receipts) : x.receipt = r).worker
                                   ELSE @[r]]]
    [] OTHER -> m

\* The worker a ResolveDispute against the provider slashes, 0 for none.
SlashTarget(m, tx) ==
  IF tx.kind = "resolve" /\ tx.fault /\ tx.of \in DOMAIN m.disputes
     /\ m.disputes[tx.of] \in DOMAIN m.receipts
  THEN m.receipts[m.disputes[tx.of]] ELSE 0

\* available_stake_wei_for_worker
StakeOf(m, worker) ==
  IF worker \in DOMAIN m.agents THEN Get(m.stakes, m.agents[worker], 0) ELSE 0

\* apply_onchain_receipt_to_summary
Merged(row, x, stake) ==
  [row EXCEPT !.clients = @ \cup {x.requester}, !.stake = stake,
              !.ok = IF x.ok THEN @ + 1 ELSE @, !.failed = IF x.ok THEN @ ELSE @ + 1]

\* apply_dispute_slash_to_summary
SlashMerged(row, stake) == [row EXCEPT !.slashed = @ + 1, !.stake = stake]
-----------------------------------------------------------------------------
\* The chain grows.
Grow ==
  /\ chainHead + 1 \in DOMAIN Chain
  /\ chainHead' = chainHead + 1
  /\ UNCHANGED <<tables, job, reader, indexedFrom, skipped, failures>>

\* The defect: the range counts as indexed when it is taken up.
SyncStartMarked ==
  /\ job.pc = "idle"
  /\ \E start \in {IF lastIndexed = 0 THEN Minus(chainHead, CatchupBlocks) ELSE lastIndexed + 1} :
       /\ start <= chainHead
       /\ job' = Round("block", start, start, 0, chainHead)
       /\ lastIndexed' = chainHead
       /\ indexedFrom' = IF lastIndexed = 0 THEN start ELSE indexedFrom
  /\ UNCHANGED <<chainHead, blockRows, txRows, lifeRows, repRows, mirror, reader, skipped, failures>>

\* sync_to_head reads the head and chooses where to start.
SyncStart ==
  /\ job.pc = "idle"
  /\ \E start \in {IF lastIndexed = 0 THEN Minus(chainHead, CatchupBlocks) ELSE lastIndexed + 1} :
       /\ start <= chainHead
       /\ job' = Round("block", start, start, 0, chainHead)
  /\ UNCHANGED <<chainHead, tables, reader, indexedFrom, skipped, failures>>

\* The transaction after the i-th, or the block after this one, or the end.
Onward ==
  IF job.i < Len(Chain[job.at]) THEN Round("tx", job.from, job.at, job.i + 1, job.hi)
  ELSE IF job.at < job.hi THEN Round("block", job.from, job.at + 1, 0, job.hi)
  ELSE Round("done", job.from, job.at, job.i, job.hi)

\* sync_block: the block's row, replaced if it was there.
SyncBlock ==
  /\ job.pc = "block"
  /\ blockRows' = Put(blockRows, job.at, Len(Chain[job.at]))
  /\ job' = Onward
  /\ UNCHANGED <<chainHead, txRows, lifeRows, repRows, mirror, lastIndexed, reader, indexedFrom,
                 skipped, failures>>

\* A transaction that cannot be fetched or decoded is passed over, for good.
SkipTx ==
  /\ job.pc = "tx" /\ failures < MaxFailures
  /\ failures' = failures + 1
  /\ skipped' = skipped \cup {Tx.id}
  /\ job' = Onward
  /\ UNCHANGED <<chainHead, tables, reader, indexedFrom>>

\* ingest_tx: the transaction's row, replaced if it was there
IngestTx ==
  /\ job.pc = "tx"
  /\ txRows' = Put(txRows, Tx.id, <<job.at, job.i>>)
  /\ skipped' = skipped \ {Tx.id}
  /\ job' = CASE Tx.kind = "life" -> [job EXCEPT !.pc = "life"]
              [] Tx.kind = "transfer" -> Onward
              [] OTHER -> [job EXCEPT !.pc = "mirror"]
  /\ UNCHANGED <<chainHead, blockRows, lifeRows, repRows, mirror, lastIndexed, reader, indexedFrom, failures>>

\* insert_life_event
IngestLife ==
  /\ job.pc = "life"
  /\ lifeRows' = lifeRows \cup {Tx.id}
  /\ job' = [job EXCEPT !.pc = "mirror"]
  /\ UNCHANGED <<chainHead, blockRows, txRows, repRows, mirror, lastIndexed, reader, indexedFrom,
                 skipped, failures>>

\* process_tx_for_reputation: the mirror first.  No finalized wallet task is
\* ever pending: apply_wallet_native clears it.
ApplyMirror ==
  /\ job.pc = "mirror"
  /\ mirror' = Mirrored(mirror, Tx)
  /\ job' = CASE Tx.kind = "settle" /\ Tx.receipts # <<>> -> [job EXCEPT !.pc = "rows", !.r = 1]
              [] SlashTarget(mirror', Tx) # 0 ->
                   [job EXCEPT !.pc = "slash", !.slash = SlashTarget(mirror', Tx)]
              [] OTHER -> Onward
  /\ UNCHANGED <<chainHead, blockRows, txRows, lifeRows, repRows, lastIndexed, reader, indexedFrom,
                 skipped, failures>>

\* apply_settlement_receipts: a receipt's row
ApplySettlementReceipt ==
  /\ job.pc = "rows"
  /\ \E x \in {Tx.receipts[job.r]} :
       repRows' = Put(repRows, x.worker,
                      Merged(Get(repRows, x.worker, NoRow), x, StakeOf(mirror, x.worker)))
  /\ job' = IF job.r < Len(Tx.receipts) THEN [job EXCEPT !.r = @ + 1] ELSE Onward
  /\ UNCHANGED <<chainHead, blockRows, txRows, lifeRows, mirror, lastIndexed, reader, indexedFrom,
                 skipped, failures>>

\* apply_dispute_slash_row
ApplyDisputeSlash ==
  /\ job.pc = "slash"
  /\ repRows' = Put(repRows, job.slash,
                    SlashMerged(Get(repRows, job.slash, NoRow), StakeOf(mirror, job.slash)))
  /\ job' = Onward
  /\ UNCHANGED <<chainHead, blockRows, txRows, lifeRows, mirror, lastIndexed, reader, indexedFrom,
                 skipped, failures>>

\* The end of sync_to_head: only now is the range marked.
SyncDone ==
  /\ job.pc = "done"
  /\ lastIndexed' = job.hi
  /\ indexedFrom' = IF lastIndexed = 0 THEN job.from ELSE indexedFrom
  /\ job' = Resting
  /\ UNCHANGED <<chainHead, blockRows, txRows, lifeRows, repRows, mirror, reader, skipped, failures>>

\* An error of the RPC or of SQLite ends the round, and so does a crash: the
\* loop of main calls sync_to_head again later.
Stop ==
  /\ job.pc # "idle" /\ failures < MaxFailures
  /\ failures' = failures + 1
  /\ job' = Resting
  /\ UNCHANGED <<chainHead, tables, reader, indexedFrom, skipped>>
-----------------------------------------------------------------------------
\* status takes the lock twice: for last_indexed_block, then for the counts.
StatusLast ==
  /\ reader.pc = "away"
  /\ reader' = [reader EXCEPT !.pc = "status", !.last = lastIndexed]
  /\ UNCHANGED <<chainHead, tables, job, indexedFrom, skipped, failures>>

StatusCounts ==
  /\ reader.pc = "status"
  /\ reader' = [reader EXCEPT !.pc = "answered", !.count = Cardinality(DOMAIN txRows)]
  /\ UNCHANGED <<chainHead, tables, job, indexedFrom, skipped, failures>>

\* blocks: the heights ORDER BY number DESC LIMIT first OFFSET offset
Page(first, offset) ==
  {n \in DOMAIN blockRows :
     Cardinality({m \in DOMAIN blockRows : m > n}) \in offset..(offset + first - 1)}

\* explorer_blocks, page after page: the next offset is what has been asked so far.
OpenPages ==
  /\ reader.pc = "answered"
  /\ reader' = [Away EXCEPT !.pc = "paging", !.due = DOMAIN blockRows]
  /\ UNCHANGED <<chainHead, tables, job, indexedFrom, skipped, failures>>

NextPage ==
  /\ reader.pc = "paging"
  /\ \E rows \in {Page(IndexPageLimit, reader.count)} :
       reader' = IF rows = {} THEN [reader EXCEPT !.pc = "ended"]
                 ELSE [reader EXCEPT !.seen = @ \cup rows, !.count = @ + IndexPageLimit]
  /\ UNCHANGED <<chainHead, tables, job, indexedFrom, skipped, failures>>

LeavePages ==
  /\ reader.pc = "ended"
  /\ reader' = Away
  /\ UNCHANGED <<chainHead, tables, job, indexedFrom, skipped, failures>>
-----------------------------------------------------------------------------
IndexerInit ==
  /\ chainHead = 0 /\ lastIndexed = 0 /\ failures = 0 /\ indexedFrom = 0
  /\ blockRows = Empty /\ txRows = Empty /\ repRows = Empty /\ lifeRows = {}
  /\ mirror = NoMirror /\ job = Resting /\ reader = Away /\ skipped = {}

SyncNext ==
  \/ Grow \/ SyncStart \/ SyncBlock \/ SkipTx \/ IngestTx \/ IngestLife \/ ApplyMirror
  \/ ApplySettlementReceipt \/ ApplyDisputeSlash \/ SyncDone \/ Stop

ReadNext == StatusLast \/ StatusCounts \/ OpenPages \/ NextPage \/ LeavePages

IndexerNext == SyncNext \/ ReadNext
IndexerSpec == IndexerInit /\ [][IndexerNext]_indexerVars
-----------------------------------------------------------------------------
\* The transactions of a height, and of a range.
Ids(n) == {tx.id : tx \in Range(Chain[n])}
IdsIn(first, last) == UNION {Ids(n) : n \in first .. last}

\* The receipts of a worker in a transaction, in a height and in a range, of
\* the transactions that are not in S.
Receipts(tx, worker) ==
  IF tx.kind # "settle" THEN 0
  ELSE Total([k \in DOMAIN tx.receipts |-> IF tx.receipts[k].worker = worker THEN 1 ELSE 0])
Due(tx, worker, S) == IF tx.id \in S THEN 0 ELSE Receipts(tx, worker)
DueAt(n, worker, S) == Total([i \in DOMAIN Chain[n] |-> Due(Chain[n][i], worker, S)])
DueIn(lo, hi, worker, S) == Total([n \in lo .. hi |-> DueAt(n, worker, S)])
Workers == UNION {UNION {IF tx.kind = "settle" THEN {x.worker : x \in Range(tx.receipts)} ELSE {} :
                           tx \in Range(Chain[n])} : n \in DOMAIN Chain}

\* Wherever the thread was stopped, the heights up to last_indexed_block, from
\* the first completed range on, have their block rows and the row of every
\* transaction that could be fetched, at its place.
IndexedRangeComplete ==
  lastIndexed > 0 =>
    \A n \in indexedFrom..lastIndexed :
      /\ n \in DOMAIN blockRows /\ blockRows[n] = Len(Chain[n])
      /\ \A i \in DOMAIN Chain[n] :
           \/ Chain[n][i].id \in skipped
           \/ /\ Chain[n][i].id \in DOMAIN txRows /\ txRows[Chain[n][i].id] = <<n, i>>
              /\ Chain[n][i].kind = "life" => Chain[n][i].id \in lifeRows

\* Every fetched receipt of the completed range is in its worker's reputation
\* row: a stop between the transaction's row, the mirror and the row never
\* loses one (it may count one twice).
ReceiptsCounted ==
  lastIndexed > 0 =>
    \A w \in Workers :
      LET row == Get(repRows, w, NoRow)
      IN  row.ok + row.failed >= DueIn(indexedFrom, lastIndexed, w, skipped)

\* The status a client gets never claims more than the tables hold: its counts
\* cover every fetched transaction up to the last indexed block it names.
StatusCovered ==
  reader.pc = "answered" /\ reader.last > 0 =>
    reader.count >= Cardinality(IdsIn(indexedFrom, reader.last) \ skipped)

\* A client that pages through the blocks while the thread adds some sees
\* every block that was there when it began.
PagesMissNothing == reader.pc = "ended" => reader.due \subseteq reader.seen

\* The indexer (sync.rs, db.rs): through stops, failures and repeated ranges
\* the indexed range has every row, no receipt is left out of the counters, a
\* status never runs ahead of the rows, and pages read one after the other
\* miss nothing that was there.
IndexerSafe ==
  /\ IndexedRangeComplete /\ ReceiptsCounted /\ StatusCovered
  /\ PagesMissNothing

=============================================================================
