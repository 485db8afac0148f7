---------------------------- MODULE ServiceProofs ----------------------------
(***************************************************************************)
(* Proofs about the services around the chain: the indexer, the            *)
(* publication of Fractal Society, and what stands once it is made.        *)
(***************************************************************************)
EXTENDS MCServices, SequenceTheorems, FiniteSetTheorems, TLAPS

-----------------------------------------------------------------------------
(* The indexer. *)

\* A round of sync_to_head.
IsRound(j) ==
  j \in [pc : {"idle", "block", "tx", "life", "mirror", "rows", "slash", "done"},
         at : Nat, hi : Nat, from : Nat, i : Nat, r : Nat, slash : {j.slash}]

\* A client.
IsReader(c) ==
  c \in [pc : {"away", "status", "answered", "paging", "ended"}, last : Nat, count : Nat, due : SUBSET Nat, seen : SUBSET Nat]

\* A row of the reputation table.
IsRow(w) == w \in [ok : Nat, failed : Nat, slashed : {w.slashed}, clients : {w.clients}, stake : {w.stake}]

\* The types of the index, of the round under way and of the reader.
IndexType ==
  /\ chainHead \in DOMAIN Chain
  /\ lastIndexed \in Nat /\ lastIndexed <= chainHead
  /\ indexedFrom \in Nat
  /\ IsRound(job) /\ IsReader(reader)
  /\ DOMAIN blockRows \subseteq 0 .. chainHead
  /\ IsFiniteSet(DOMAIN txRows)
  /\ \A w \in DOMAIN repRows : IsRow(repRows[w])

\* Where the round is.
RoundInv ==
  job.pc # "idle" =>
    /\ job.from <= job.at /\ job.at <= job.hi /\ job.hi <= chainHead
    /\ lastIndexed > 0 => job.from = lastIndexed + 1
    /\ job.pc = "block" => job.i = 0
    /\ job.pc \in {"tx", "life", "mirror", "rows", "slash"} => job.i \in 1 .. Len(Chain[job.at])
    /\ job.pc = "done" => job.at = job.hi /\ job.i = Len(Chain[job.at])
    /\ job.pc = "rows" => Tx.kind = "settle" /\ job.r \in 1 .. Len(Tx.receipts)
    /\ job.pc = "life" => Tx.kind = "life"
    /\ job.pc = "slash" => Tx.kind = "resolve"

\* What the chain is.
LEMMA ChainIs ==
  /\ DOMAIN Chain \subseteq Nat
  /\ \A n \in DOMAIN Chain : 0 .. n \subseteq DOMAIN Chain
  /\ \A n \in DOMAIN Chain : Len(Chain[n]) \in Nat /\ DOMAIN Chain[n] = 1 .. Len(Chain[n])
  /\ \A n \in DOMAIN Chain : \A i \in 1 .. Len(Chain[n]) : Chain[n][i].kind = "settle" =>
       /\ Len(Chain[n][i].receipts) \in Nat
       /\ DOMAIN Chain[n][i].receipts = 1 .. Len(Chain[n][i].receipts)
       /\ Chain[n][i].receipts # <<>> => Len(Chain[n][i].receipts) > 0
  /\ \A m, n \in DOMAIN Chain : \A i \in DOMAIN Chain[m], j \in DOMAIN Chain[n] :
       Chain[m][i].id = Chain[n][j].id => m = n /\ i = j
<1>1. \A n \in DOMAIN Chain : Len(Chain[n]) \in Nat /\ DOMAIN Chain[n] = 1 .. Len(Chain[n])
  BY IndexerAssumption
<1>2. ASSUME NEW n \in DOMAIN Chain, NEW i \in 1 .. Len(Chain[n]), Chain[n][i].kind = "settle"
      PROVE  /\ Len(Chain[n][i].receipts) \in Nat
             /\ DOMAIN Chain[n][i].receipts = 1 .. Len(Chain[n][i].receipts)
             /\ Chain[n][i].receipts # <<>> => Len(Chain[n][i].receipts) > 0
  <2> DEFINE s == Chain[n][i].receipts
             S == Range(s)
  <2>1. s \in Seq(S)
    BY <1>1, <1>2, IndexerAssumption
  <2> HIDE DEF s, S
  <2>2. Len(s) \in Nat /\ DOMAIN s = 1 .. Len(s) /\ (s # <<>> => Len(s) > 0)
    BY <2>1
  <2> QED
    BY <2>2 DEF s
<1> QED
  BY <1>1, <1>2, IndexerAssumption

\* What follows a transaction.
LEMMA OnwardIs ==
  ASSUME IsRound(job), job.at \in DOMAIN Chain
  PROVE  /\ IsRound(Onward) /\ Onward.hi = job.hi /\ Onward.from = job.from
         /\ job.i < Len(Chain[job.at]) => Onward.pc = "tx" /\ Onward.at = job.at /\ Onward.i = job.i + 1
         /\ ~(job.i < Len(Chain[job.at])) /\ job.at < job.hi => Onward.pc = "block" /\ Onward.at = job.at + 1 /\ Onward.i = 0
         /\ ~(job.i < Len(Chain[job.at])) /\ ~(job.at < job.hi) => Onward.pc = "done" /\ Onward.at = job.at /\ Onward.i = job.i
<1>1. CASE job.i < Len(Chain[job.at])
  BY <1>1, ChainIs DEF Onward, Round, IsRound
<1>2. CASE ~(job.i < Len(Chain[job.at])) /\ job.at < job.hi
  BY <1>2, ChainIs DEF Onward, Round, IsRound
<1>3. CASE ~(job.i < Len(Chain[job.at])) /\ ~(job.at < job.hi)
  BY <1>3, ChainIs DEF Onward, Round, IsRound
<1> QED
  BY <1>1, <1>2, <1>3

\* The round goes on where it should.
LEMMA OnwardKeeps ==
  ASSUME IndexType, RoundInv, job.pc \notin {"idle", "done"}, job' = Onward, chainHead' = chainHead, lastIndexed' = lastIndexed
  PROVE  IsRound(job') /\ RoundInv'
<1>1. job.at \in DOMAIN Chain
  BY ChainIs DEF IndexType, RoundInv, IsRound
<1>2. Len(Chain[job.at]) \in Nat /\ (job.pc # "block" => job.i \in 1 .. Len(Chain[job.at])) /\ (job.pc = "block" => job.i = 0)
  BY <1>1, ChainIs DEF RoundInv, IndexType, IsRound
<1> QED
  BY <1>1, <1>2, OnwardIs DEF RoundInv, IndexType, IsRound

\* A receipt in a row.
LEMMA MergedIs ==
  ASSUME NEW row, IsRow(row), NEW x, NEW stake
  PROVE  /\ IsRow(Merged(row, x, stake))
         /\ Merged(row, x, stake).ok + Merged(row, x, stake).failed = row.ok + row.failed + 1
<1> DEFINE m == Merged(row, x, stake)
<1>1. m \in [ok : {m.ok}, failed : {m.failed}, slashed : {m.slashed}, clients : {m.clients}, stake : {m.stake}]
  BY DEF Merged, IsRow
<1>4. row.ok \in Nat /\ row.failed \in Nat
  BY DEF IsRow
<1>2. m.ok = IF x.ok THEN row.ok + 1 ELSE row.ok
  BY DEF Merged, IsRow
<1>3. m.failed = IF x.ok THEN row.failed ELSE row.failed + 1
  BY DEF Merged, IsRow
<1> HIDE DEF m
<1>5. IsRow(m) /\ m.ok + m.failed = row.ok + row.failed + 1
  BY <1>1, <1>2, <1>3, <1>4 DEF IsRow
<1> QED
  BY <1>5 DEF m

\* And a slash.
LEMMA SlashedIs ==
  ASSUME NEW row, IsRow(row), NEW stake
  PROVE  /\ IsRow(SlashMerged(row, stake))
         /\ SlashMerged(row, stake).ok = row.ok /\ SlashMerged(row, stake).failed = row.failed
BY DEF SlashMerged, IsRow

\* An empty row, or the one there is.
LEMMA RowIs == ASSUME IndexType, NEW w PROVE IsRow(Get(repRows, w, NoRow))
BY DEF IndexType, Get, NoRow, IsRow

\* A step of the indexer leaves the round a round, within the head it was started for.
LEMMA RoundKeeps ==
  ASSUME IndexType, RoundInv, IndexerNext
  PROVE  IsRound(job') /\ RoundInv'
<1>1. CASE Grow
  BY <1>1, ChainIs DEF Grow, IndexType, RoundInv, IsRound, Tx, tables
<1>2. CASE SyncStart
  <2>1. PICK start \in {IF lastIndexed = 0 THEN Minus(chainHead, CatchupBlocks) ELSE lastIndexed + 1} :
          start <= chainHead /\ job' = Round("block", start, start, 0, chainHead)
    BY <1>2 DEF SyncStart
  <2>2. start \in Nat /\ chainHead \in Nat /\ (lastIndexed > 0 => start = lastIndexed + 1)
    BY <2>1, ChainIs, IndexerAssumption DEF IndexType, Minus
  <2>3. chainHead' = chainHead /\ lastIndexed' = lastIndexed
    BY <1>2 DEF SyncStart, tables
  <2> QED
    BY <2>1, <2>2, <2>3 DEF Round, IsRound, RoundInv
<1>3. CASE SyncBlock \/ SkipTx \/ ApplyDisputeSlash
  BY <1>3, OnwardKeeps DEF SyncBlock, SkipTx, ApplyDisputeSlash, tables
<1>4. CASE IngestTx
  <2>1. chainHead' = chainHead /\ lastIndexed' = lastIndexed /\ job.pc = "tx"
    BY <1>4 DEF IngestTx
  <2>2. CASE Tx.kind = "life"
    <3>1. job' = [job EXCEPT !.pc = "life"]
      BY <1>4, <2>2 DEF IngestTx
    <3> QED
      BY <2>1, <2>2, <3>1 DEF IndexType, RoundInv, IsRound, Tx
  <2>3. CASE Tx.kind = "transfer"
    BY <1>4, <2>1, <2>3, OnwardKeeps DEF IngestTx
  <2>4. CASE Tx.kind \notin {"life", "transfer"}
    <3>1. job' = [job EXCEPT !.pc = "mirror"]
      BY <1>4, <2>4 DEF IngestTx
    <3> QED
      BY <2>1, <3>1 DEF IndexType, RoundInv, IsRound
  <2> QED
    BY <2>2, <2>3, <2>4
<1>5. CASE IngestLife
  BY <1>5 DEF IngestLife, IndexType, RoundInv, IsRound
<1>6. CASE ApplyMirror
  <2>1. chainHead' = chainHead /\ lastIndexed' = lastIndexed /\ job.pc = "mirror"
    BY <1>6 DEF ApplyMirror
  <2>2. CASE Tx.kind = "settle" /\ Tx.receipts # <<>>
    <3>0. SlashTarget(mirror', Tx) = 0
      BY <2>2 DEF SlashTarget
    <3>1. job' = [job EXCEPT !.pc = "rows", !.r = 1]
      BY <1>6, <2>2, <3>0 DEF ApplyMirror
    <3>2. job.at \in DOMAIN Chain /\ job.i \in 1 .. Len(Chain[job.at])
      BY <2>1, ChainIs DEF IndexType, RoundInv, IsRound
    <3>3. 1 \in 1 .. Len(Tx.receipts)
      BY <2>2, <3>2, ChainIs DEF Tx
    <3> DEFINE there == [job EXCEPT !.pc = "rows"]
    <3>5. IsRound(there) /\ there.at = job.at /\ there.hi = job.hi /\ there.from = job.from /\ there.i = job.i /\ there.pc = "rows"
      BY DEF IndexType, IsRound
    <3>6. job' = [there EXCEPT !.r = 1]
      BY <3>1
    <3> HIDE DEF there
    <3>4. /\ job'.pc = "rows" /\ job'.r = 1 /\ job'.at = job.at /\ job'.hi = job.hi /\ job'.from = job.from /\ job'.i = job.i
          /\ IsRound(job')
      BY <3>5, <3>6 DEF IsRound
    <3> QED
      BY <2>1, <2>2, <3>3, <3>4 DEF RoundInv, Tx
  <2>3. CASE ~(Tx.kind = "settle" /\ Tx.receipts # <<>>) /\ SlashTarget(mirror', Tx) # 0
    <3>1. job' = [job EXCEPT !.pc = "slash", !.slash = SlashTarget(mirror', Tx)]
      BY <1>6, <2>3 DEF ApplyMirror
    <3>2. Tx.kind = "resolve"
      BY <2>3 DEF SlashTarget
    <3>3. /\ job'.pc = "slash" /\ job'.at = job.at /\ job'.hi = job.hi /\ job'.from = job.from /\ job'.i = job.i
          /\ IsRound(job')
      BY <3>1 DEF IndexType, IsRound
    <3> QED
      BY <2>1, <3>2, <3>3 DEF RoundInv, Tx
  <2>4. CASE ~(Tx.kind = "settle" /\ Tx.receipts # <<>>) /\ SlashTarget(mirror', Tx) = 0
    BY <1>6, <2>1, <2>4, OnwardKeeps DEF ApplyMirror
  <2> QED
    BY <2>2, <2>3, <2>4
<1>7. CASE ApplySettlementReceipt
  <2>1. chainHead' = chainHead /\ lastIndexed' = lastIndexed /\ job.pc = "rows"
    BY <1>7 DEF ApplySettlementReceipt
  <2>2. CASE job.r < Len(Tx.receipts)
    <3>1. job' = [job EXCEPT !.r = @ + 1]
      BY <1>7, <2>2 DEF ApplySettlementReceipt
    <3>2. job.at \in DOMAIN Chain /\ job.i \in 1 .. Len(Chain[job.at]) /\ Tx.kind = "settle"
      BY <2>1, ChainIs DEF IndexType, RoundInv, IsRound
    <3>3. Len(Tx.receipts) \in Nat
      BY <3>2, ChainIs DEF Tx
    <3>4. /\ job'.pc = "rows" /\ job'.r = job.r + 1 /\ job'.at = job.at /\ job'.hi = job.hi /\ job'.from = job.from /\ job'.i = job.i
          /\ IsRound(job') /\ job.r \in Nat
      BY <2>1, <3>1 DEF IndexType, IsRound
    <3> QED
      BY <2>1, <2>2, <3>2, <3>3, <3>4 DEF RoundInv, Tx
  <2>3. CASE ~(job.r < Len(Tx.receipts))
    BY <1>7, <2>1, <2>3, OnwardKeeps DEF ApplySettlementReceipt
  <2> QED
    BY <2>2, <2>3
<1>8. CASE SyncDone \/ Stop
  BY <1>8 DEF SyncDone, Stop, Resting, Round, RoundInv, IsRound
<1>9. CASE ReadNext
  BY <1>9 DEF ReadNext, StatusLast, StatusCounts, OpenPages, NextPage, LeavePages, tables, IndexType, RoundInv, Tx
<1> QED
  BY <1>1, <1>2, <1>3, <1>4, <1>5, <1>6, <1>7, <1>8, <1>9 DEF IndexerNext, SyncNext

\* A block has its row.
BlockDone(rows, n) == n \in DOMAIN rows /\ rows[n] = Len(Chain[n])

\* A transaction has its rows, or was passed over.
TxDone(rows, life, passed, n, i) ==
  \/ Chain[n][i].id \in passed
  \/ /\ Chain[n][i].id \in DOMAIN rows /\ rows[Chain[n][i].id] = <<n, i>>
     /\ Chain[n][i].kind = "life" => Chain[n][i].id \in life

\* A height has all of them.
HeightDone(heights, rows, life, passed, n) ==
  BlockDone(heights, n) /\ \A i \in DOMAIN Chain[n] : TxDone(rows, life, passed, n, i)

\* What the round has written so far.
ProgressInv ==
  job.pc # "idle" =>
    /\ \A n \in job.from .. job.at - 1 : HeightDone(blockRows, txRows, lifeRows, skipped, n)
    /\ job.pc # "block" => BlockDone(blockRows, job.at)
    /\ \A i \in 1 .. job.i - 1 : TxDone(txRows, lifeRows, skipped, job.at, i)
    /\ job.pc \in {"mirror", "rows", "slash", "done"} =>
         \A i \in 1 .. job.i : TxDone(txRows, lifeRows, skipped, job.at, i)
    /\ job.pc = "life" => Tx.id \in DOMAIN txRows /\ txRows[Tx.id] = <<job.at, job.i>>

\* What the completed rounds have written.
RangeInv ==
  lastIndexed > 0 =>
    /\ indexedFrom <= lastIndexed
    /\ \A n \in indexedFrom .. lastIndexed : HeightDone(blockRows, txRows, lifeRows, skipped, n)

\* The transaction in hand.
LEMMA InHand ==
  ASSUME IndexType, RoundInv, job.pc # "idle"
  PROVE  /\ job.at \in DOMAIN Chain /\ job.at \in Nat /\ job.i \in Nat /\ job.hi \in Nat /\ job.from \in Nat
         /\ DOMAIN Chain[job.at] = 1 .. Len(Chain[job.at]) /\ Len(Chain[job.at]) \in Nat
         /\ job.pc \in {"tx", "life", "mirror", "rows", "slash"} => job.i \in DOMAIN Chain[job.at]
         /\ \A n \in job.from .. job.hi : n \in DOMAIN Chain
BY ChainIs DEF IndexType, RoundInv, IsRound

\* No step takes a row back, but for the transaction in hand.
LEMMA RowsStay ==
  ASSUME IndexType, RoundInv, IndexerNext
  PROVE  /\ DOMAIN blockRows \subseteq DOMAIN blockRows'
         /\ \A n : BlockDone(blockRows, n) => BlockDone(blockRows', n)
         /\ \A n \in DOMAIN Chain : \A i \in DOMAIN Chain[n] :
              TxDone(txRows, lifeRows, skipped, n, i) /\ ~(job.pc = "tx" /\ n = job.at /\ i = job.i) =>
                TxDone(txRows', lifeRows', skipped', n, i)
<1>1. CASE SyncBlock
  BY <1>1 DEF SyncBlock, BlockDone, Put
<1>2. CASE SkipTx
  BY <1>2 DEF SkipTx, TxDone, tables
<1>3. CASE IngestTx
  <2>1. blockRows' = blockRows /\ lifeRows' = lifeRows /\ txRows' = Put(txRows, Tx.id, <<job.at, job.i>>)
        /\ skipped' = skipped \ {Tx.id} /\ job.pc = "tx"
    BY <1>3 DEF IngestTx
  <2>2. ASSUME NEW n \in DOMAIN Chain, NEW i \in DOMAIN Chain[n], TxDone(txRows, lifeRows, skipped, n, i), ~(n = job.at /\ i = job.i)
        PROVE  TxDone(txRows', lifeRows', skipped', n, i)
    <3>1. Chain[n][i].id # Tx.id
      BY <2>1, <2>2, InHand, ChainIs DEF Tx
    <3> QED
      BY <2>1, <2>2, <3>1 DEF TxDone, Put
  <2> QED
    BY <2>1, <2>2
<1>4. CASE IngestLife
  BY <1>4 DEF IngestLife, TxDone
<1>5. CASE Grow \/ SyncStart \/ ApplyMirror \/ ApplySettlementReceipt \/ ApplyDisputeSlash \/ SyncDone \/ Stop \/ ReadNext
  BY <1>5 DEF Grow, SyncStart, ApplyMirror, ApplySettlementReceipt, ApplyDisputeSlash, SyncDone, Stop, ReadNext,
              StatusLast, StatusCounts, OpenPages, NextPage, LeavePages, tables
<1> QED
  BY <1>1, <1>2, <1>3, <1>4, <1>5 DEF IndexerNext, SyncNext

\* Nor does it take one back below the round.
LEMMA HeightsStay ==
  ASSUME IndexType, RoundInv, IndexerNext, NEW n \in DOMAIN Chain, HeightDone(blockRows, txRows, lifeRows, skipped, n),
         job.pc # "idle" => n # job.at
  PROVE  HeightDone(blockRows', txRows', lifeRows', skipped', n)
BY RowsStay DEF HeightDone

\* Going on after the transaction in hand has its rows.
LEMMA OnwardProgress ==
  ASSUME IndexType, RoundInv, ProgressInv, IndexerNext, job.pc \notin {"idle", "done"}, job' = Onward,
         BlockDone(blockRows', job.at), job.i > 0 => TxDone(txRows', lifeRows', skipped', job.at, job.i)
  PROVE  ProgressInv'
<1>1. /\ job.at \in DOMAIN Chain /\ job.at \in Nat /\ job.i \in Nat /\ job.hi \in Nat /\ job.from \in Nat
      /\ DOMAIN Chain[job.at] = 1 .. Len(Chain[job.at]) /\ Len(Chain[job.at]) \in Nat
      /\ (job.i \in DOMAIN Chain[job.at] \/ job.i = 0) /\ job.from <= job.at /\ job.at <= job.hi
  BY InHand DEF RoundInv, IndexType, IsRound
<1>2. \A i \in 1 .. job.i : TxDone(txRows', lifeRows', skipped', job.at, i)
  <2> SUFFICES ASSUME NEW i \in 1 .. job.i PROVE TxDone(txRows', lifeRows', skipped', job.at, i)
    OBVIOUS
  <2>1. CASE i = job.i
    BY <1>1, <2>1
  <2>2. CASE i # job.i
    <3>1. i \in 1 .. job.i - 1 /\ i \in DOMAIN Chain[job.at]
      BY <1>1, <2>2
    <3>2. TxDone(txRows, lifeRows, skipped, job.at, i)
      BY <3>1 DEF ProgressInv
    <3> QED
      BY <1>1, <2>2, <3>1, <3>2, RowsStay
  <2> QED
    BY <2>1, <2>2
<1>3. \A n \in job.from .. job.at - 1 : HeightDone(blockRows', txRows', lifeRows', skipped', n)
  <2> SUFFICES ASSUME NEW n \in job.from .. job.at - 1 PROVE HeightDone(blockRows', txRows', lifeRows', skipped', n)
    OBVIOUS
  <2>1. n \in DOMAIN Chain /\ n # job.at
    BY <1>1, InHand
  <2>2. HeightDone(blockRows, txRows, lifeRows, skipped, n)
    BY DEF ProgressInv
  <2> QED
    BY <2>1, <2>2, HeightsStay
<1>4. CASE job.i < Len(Chain[job.at])
  <2>1. job'.pc = "tx" /\ job'.at = job.at /\ job'.i = job.i + 1 /\ job'.from = job.from
    BY <1>1, <1>4, OnwardIs DEF IndexType
  <2> QED
    BY <1>1, <1>2, <1>3, <2>1 DEF ProgressInv
<1>5. CASE ~(job.i < Len(Chain[job.at])) /\ job.at < job.hi
  <2>1. job'.pc = "block" /\ job'.at = job.at + 1 /\ job'.i = 0 /\ job'.from = job.from
    BY <1>1, <1>5, OnwardIs DEF IndexType
  <2>2. HeightDone(blockRows', txRows', lifeRows', skipped', job.at)
    BY <1>1, <1>2, <1>5 DEF HeightDone
  <2>3. \A n \in job'.from .. job'.at - 1 : HeightDone(blockRows', txRows', lifeRows', skipped', n)
    BY <1>1, <1>3, <2>1, <2>2
  <2> QED
    BY <2>1, <2>3 DEF ProgressInv
<1>6. CASE ~(job.i < Len(Chain[job.at])) /\ ~(job.at < job.hi)
  <2>1. job'.pc = "done" /\ job'.at = job.at /\ job'.i = job.i /\ job'.from = job.from
    BY <1>1, <1>6, OnwardIs DEF IndexType
  <2> QED
    BY <1>1, <1>2, <1>3, <2>1 DEF ProgressInv
<1> QED
  BY <1>4, <1>5, <1>6

\* Staying at the transaction in hand.
LEMMA PlaceProgress ==
  ASSUME IndexType, RoundInv, ProgressInv, IndexerNext, job.pc # "idle",
         job'.at = job.at, job'.i = job.i, job'.from = job.from, job.pc = "block" => job'.pc = "block"
  PROVE  /\ \A n \in job'.from .. job'.at - 1 : HeightDone(blockRows', txRows', lifeRows', skipped', n)
         /\ job'.pc # "block" => BlockDone(blockRows', job'.at)
         /\ \A i \in 1 .. job'.i - 1 : TxDone(txRows', lifeRows', skipped', job'.at, i)
         /\ job.pc \in {"mirror", "rows", "slash", "done"} =>
              \A i \in 1 .. job'.i : TxDone(txRows', lifeRows', skipped', job'.at, i)
<1>1. /\ job.at \in DOMAIN Chain /\ job.at \in Nat /\ job.i \in Nat /\ job.hi \in Nat /\ job.from \in Nat
      /\ DOMAIN Chain[job.at] = 1 .. Len(Chain[job.at]) /\ Len(Chain[job.at]) \in Nat
      /\ job.i <= Len(Chain[job.at]) /\ job.from <= job.at /\ job.at <= job.hi
  BY InHand DEF RoundInv, IndexType, IsRound
<1>2. ASSUME NEW i \in 1 .. job.i - 1 PROVE TxDone(txRows', lifeRows', skipped', job.at, i)
  <2>1. i \in DOMAIN Chain[job.at] /\ i # job.i
    BY <1>1
  <2> QED
    BY <1>1, <2>1, RowsStay DEF ProgressInv
<1>3. ASSUME job.pc \in {"mirror", "rows", "slash", "done"}, NEW i \in 1 .. job.i PROVE TxDone(txRows', lifeRows', skipped', job.at, i)
  <2>1. i \in DOMAIN Chain[job.at]
    BY <1>1
  <2> QED
    BY <1>1, <1>3, <2>1, RowsStay DEF ProgressInv
<1>4. ASSUME NEW n \in job.from .. job.at - 1 PROVE HeightDone(blockRows', txRows', lifeRows', skipped', n)
  <2>1. n \in DOMAIN Chain /\ n # job.at
    BY <1>1, InHand
  <2> QED
    BY <2>1, HeightsStay DEF ProgressInv
<1>5. job'.pc # "block" => BlockDone(blockRows', job.at)
  BY RowsStay DEF ProgressInv
<1> QED
  BY <1>2, <1>3, <1>4, <1>5

\* The round keeps what it has written.
LEMMA ProgressKeeps ==
  ASSUME IndexType, RoundInv, ProgressInv, IndexerNext
  PROVE  ProgressInv'
<1>1. CASE Grow \/ ReadNext
  <2>1. UNCHANGED <<job, blockRows, txRows, lifeRows, skipped>>
    BY <1>1 DEF Grow, ReadNext, StatusLast, StatusCounts, OpenPages, NextPage, LeavePages, tables
  <2> QED
    BY <2>1 DEF ProgressInv, Tx
<1>2. CASE SyncStart
  <2>1. PICK start : start \in Nat /\ job' = Round("block", start, start, 0, chainHead)
    <3>1. PICK start \in {IF lastIndexed = 0 THEN Minus(chainHead, CatchupBlocks) ELSE lastIndexed + 1} :
            job' = Round("block", start, start, 0, chainHead)
      BY <1>2 DEF SyncStart
    <3>2. start \in Nat
      BY <3>1, ChainIs, IndexerAssumption DEF IndexType, Minus
    <3> QED
      BY <3>1, <3>2
  <2> QED
    BY <2>1 DEF Round, ProgressInv
<1>3. CASE SyncBlock
  <2>1. job.pc = "block" /\ blockRows' = Put(blockRows, job.at, Len(Chain[job.at])) /\ job' = Onward
    BY <1>3 DEF SyncBlock
  <2>2. BlockDone(blockRows', job.at) /\ job.i = 0
    BY <2>1 DEF BlockDone, Put, RoundInv
  <2> QED
    BY <2>1, <2>2, OnwardProgress
<1>4. CASE SkipTx
  <2>1. job.pc = "tx" /\ job' = Onward /\ skipped' = skipped \cup {Tx.id}
    BY <1>4 DEF SkipTx
  <2>2. BlockDone(blockRows', job.at) /\ TxDone(txRows', lifeRows', skipped', job.at, job.i)
    BY <2>1, RowsStay DEF ProgressInv, TxDone, Tx
  <2> QED
    BY <2>1, <2>2, OnwardProgress
<1>5. CASE IngestTx
  <2>1. job.pc = "tx" /\ txRows' = Put(txRows, Tx.id, <<job.at, job.i>>)
    BY <1>5 DEF IngestTx
  <2>2. Tx.id \in DOMAIN txRows' /\ txRows'[Tx.id] = <<job.at, job.i>>
    BY <2>1 DEF Put
  <2>3. BlockDone(blockRows', job.at)
    BY <2>1, RowsStay DEF ProgressInv
  <2>4. CASE Tx.kind = "transfer"
    <3>1. job' = Onward
      BY <1>5, <2>4 DEF IngestTx
    <3>2. TxDone(txRows', lifeRows', skipped', job.at, job.i)
      BY <2>2, <2>4 DEF TxDone, Tx
    <3> QED
      BY <2>1, <2>3, <3>1, <3>2, OnwardProgress
  <2>5. CASE Tx.kind # "transfer"
    <3>1. /\ job'.at = job.at /\ job'.i = job.i /\ job'.from = job.from
          /\ job'.pc = IF Tx.kind = "life" THEN "life" ELSE "mirror"
      BY <1>5, <2>5 DEF IngestTx, IndexType, IsRound
    <3>2. Tx' = Tx
      BY <3>1 DEF Tx
    <3>3. Tx.kind # "life" => \A i \in 1 .. job.i : TxDone(txRows', lifeRows', skipped', job.at, i)
      <4> SUFFICES ASSUME Tx.kind # "life", NEW i \in 1 .. job.i PROVE TxDone(txRows', lifeRows', skipped', job.at, i)
        OBVIOUS
      <4>1. CASE i = job.i
        BY <2>2, <4>1 DEF TxDone, Tx
      <4>2. CASE i # job.i
        BY <2>1, <3>1, <4>2, PlaceProgress, InHand
      <4> QED
        BY <4>1, <4>2
    <3> QED
      BY <2>1, <2>2, <3>1, <3>2, <3>3, PlaceProgress DEF ProgressInv
  <2> QED
    BY <2>4, <2>5
<1>6. CASE IngestLife
  <2>1. job.pc = "life" /\ lifeRows' = lifeRows \cup {Tx.id} /\ txRows' = txRows /\ job' = [job EXCEPT !.pc = "mirror"]
    BY <1>6 DEF IngestLife
  <2>2. job'.at = job.at /\ job'.i = job.i /\ job'.from = job.from /\ job'.pc = "mirror"
    BY <2>1 DEF IndexType, IsRound
  <2>3. TxDone(txRows', lifeRows', skipped', job.at, job.i)
    BY <2>1 DEF ProgressInv, TxDone, Tx
  <2>4. \A i \in 1 .. job'.i : TxDone(txRows', lifeRows', skipped', job.at, i)
    <3> SUFFICES ASSUME NEW i \in 1 .. job.i PROVE TxDone(txRows', lifeRows', skipped', job.at, i)
      BY <2>2
    <3>1. CASE i = job.i
      BY <2>3, <3>1
    <3>2. CASE i # job.i
      <4>1. job.i \in Nat
        BY <2>1, InHand
      <4>2. i \in 1 .. job'.i - 1
        BY <2>2, <3>2, <4>1
      <4>3. TxDone(txRows', lifeRows', skipped', job'.at, i)
        BY <2>1, <2>2, <4>2, PlaceProgress
      <4> QED
        BY <2>2, <4>3
    <3> QED
      BY <3>1, <3>2
  <2> QED
    BY <2>1, <2>2, <2>4, PlaceProgress DEF ProgressInv
<1>7. CASE ApplyMirror \/ ApplySettlementReceipt \/ ApplyDisputeSlash
  <2>1. job.pc \in {"mirror", "rows", "slash"}
    BY <1>7 DEF ApplyMirror, ApplySettlementReceipt, ApplyDisputeSlash
  <2>2. CASE job' = Onward
    <3>1. job.at \in DOMAIN Chain /\ job.i \in DOMAIN Chain[job.at] /\ job.i \in 1 .. job.i
      BY <2>1, InHand
    <3>2. BlockDone(blockRows', job.at) /\ TxDone(txRows', lifeRows', skipped', job.at, job.i)
      BY <2>1, <3>1, RowsStay DEF ProgressInv
    <3> QED
      BY <2>1, <2>2, <3>2, OnwardProgress
  <2>3. CASE job' # Onward
    <3>1. /\ job'.at = job.at /\ job'.i = job.i /\ job'.from = job.from /\ job'.pc \in {"rows", "slash"}
      <4>1. CASE ApplyMirror
        <5>1. \/ job' = [job EXCEPT !.pc = "rows", !.r = 1]
              \/ job' = [job EXCEPT !.pc = "slash", !.slash = SlashTarget(mirror', Tx)]
          BY <2>3, <4>1 DEF ApplyMirror
        <5> QED
          BY <5>1 DEF IndexType, IsRound
      <4>2. CASE ApplySettlementReceipt
        <5>1. job' = [job EXCEPT !.r = @ + 1] /\ job.pc = "rows"
          BY <2>3, <4>2 DEF ApplySettlementReceipt
        <5> QED
          BY <5>1 DEF IndexType, IsRound
      <4>3. CASE ApplyDisputeSlash
        BY <2>3, <4>3 DEF ApplyDisputeSlash
      <4> QED
        BY <1>7, <4>1, <4>2, <4>3
    <3> QED
      BY <2>1, <3>1, PlaceProgress DEF ProgressInv
  <2> QED
    BY <2>2, <2>3
<1>8. CASE SyncDone \/ Stop
  BY <1>8 DEF SyncDone, Stop, Resting, Round, ProgressInv
<1> QED
  BY <1>1, <1>2, <1>3, <1>4, <1>5, <1>6, <1>7, <1>8 DEF IndexerNext, SyncNext

\* last_indexed_block moves at the end of a round only.
LEMMA RangeMoves ==
  ASSUME IndexType, RoundInv, IndexerNext
  PROVE  \/ UNCHANGED <<lastIndexed, indexedFrom>>
         \/ /\ SyncDone /\ job.pc = "done" /\ lastIndexed' = job.hi
            /\ indexedFrom' = IF lastIndexed = 0 THEN job.from ELSE indexedFrom
BY DEF IndexerNext, SyncNext, Grow, SyncStart, SyncBlock, SkipTx, IngestTx, IngestLife, ApplyMirror,
       ApplySettlementReceipt, ApplyDisputeSlash, SyncDone, Stop, ReadNext, StatusLast, StatusCounts, OpenPages,
       NextPage, LeavePages, tables

\* The completed rounds keep what they have written, and a round adds to it.
LEMMA RangeKeeps ==
  ASSUME IndexType, RoundInv, ProgressInv, RangeInv, IndexerNext
  PROVE  RangeInv'
<1>1. CASE UNCHANGED <<lastIndexed, indexedFrom>>
  <2> SUFFICES ASSUME lastIndexed > 0, NEW n \in indexedFrom .. lastIndexed
               PROVE  indexedFrom <= lastIndexed /\ HeightDone(blockRows', txRows', lifeRows', skipped', n)
    BY <1>1 DEF RangeInv
  <2>1. n \in DOMAIN Chain
    BY ChainIs DEF IndexType
  <2>2. job.pc # "idle" => n # job.at
    BY <2>1 DEF RoundInv, IndexType, IsRound
  <2> QED
    BY <2>1, <2>2, HeightsStay DEF RangeInv
<1>2. CASE /\ SyncDone /\ job.pc = "done" /\ lastIndexed' = job.hi
           /\ indexedFrom' = IF lastIndexed = 0 THEN job.from ELSE indexedFrom
  <2>1. UNCHANGED <<blockRows, txRows, lifeRows, skipped>>
    BY <1>2 DEF SyncDone
  <2>2. /\ job.at = job.hi /\ job.i = Len(Chain[job.at]) /\ job.from <= job.hi /\ job.hi \in Nat /\ job.from \in Nat
        /\ lastIndexed \in Nat /\ indexedFrom \in Nat /\ DOMAIN Chain[job.hi] = 1 .. Len(Chain[job.hi])
    BY <1>2, InHand DEF RoundInv, IndexType
  <2>3. HeightDone(blockRows, txRows, lifeRows, skipped, job.hi)
    BY <1>2, <2>2 DEF ProgressInv, HeightDone
  <2>4. \A n \in job.from .. job.hi : HeightDone(blockRows, txRows, lifeRows, skipped, n)
    BY <1>2, <2>2, <2>3 DEF ProgressInv
  <2>5. lastIndexed > 0 => job.from = lastIndexed + 1
    BY <1>2 DEF RoundInv
  <2> QED
    BY <1>2, <2>1, <2>2, <2>4, <2>5 DEF RangeInv
<1> QED
  BY <1>1, <1>2, RangeMoves

\* How many rows are above n.
Above(rows, n) == Cardinality({m \in DOMAIN rows : m > n})

\* The transactions a status answers for.
Claimed(first, last, passed) == IdsIn(first, last) \ passed

\* What a client has been told.
StatusInv ==
  /\ reader.pc \in {"status", "answered"} => reader.last <= lastIndexed
  /\ reader.pc = "answered" /\ reader.last > 0 => reader.count >= Cardinality(Claimed(indexedFrom, reader.last, skipped))

\* What a client has read of the pages.
PagesInv ==
  /\ reader.pc = "paging" =>
       /\ reader.due \subseteq DOMAIN blockRows
       /\ \A n \in reader.due : n \in reader.seen \/ Above(blockRows, n) >= reader.count
  /\ reader.pc = "ended" => reader.due \subseteq reader.seen

\* The rows there are.
LEMMA RowsFinite ==
  ASSUME IndexType
  PROVE  /\ IsFiniteSet(DOMAIN blockRows) /\ DOMAIN blockRows \subseteq Nat
         /\ \A n : {m \in DOMAIN blockRows : m > n} \subseteq DOMAIN blockRows /\ Above(blockRows, n) \in Nat
<1>1. chainHead \in Nat /\ IsFiniteSet(0 .. chainHead)
  BY ChainIs, FS_Interval DEF IndexType
<1>2. IsFiniteSet(DOMAIN blockRows) /\ DOMAIN blockRows \subseteq Nat
  BY <1>1, FS_Subset DEF IndexType
<1>3. ASSUME NEW n PROVE Above(blockRows, n) \in Nat
  <2> DEFINE S == {m \in DOMAIN blockRows : m > n}
  <2>1. S \subseteq DOMAIN blockRows
    OBVIOUS
  <2> HIDE DEF S
  <2>2. Cardinality(S) \in Nat
    BY <1>2, <2>1, FS_Subset, FS_CardinalityType
  <2> QED
    BY <2>2 DEF Above, S
<1> QED
  BY <1>2, <1>3

\* Every place of a finite total order is some element's.
LEMMA EveryPlaceIsTaken ==
  ASSUME NEW S, IsFiniteSet(S), NEW r, OrdersAll(r, S), NEW i \in 0 .. Cardinality(S) - 1
  PROVE  \E s \in S : Place(r, S, s) = i
BY PlacesAre

\* The rows are numbered without a gap: where a row has c others above it or
\* more, some row has c.
LEMMA PagesHaveNoGap ==
  ASSUME IndexType, NEW n \in DOMAIN blockRows, NEW c \in Nat, Above(blockRows, n) >= c
  PROVE  \E k \in DOMAIN blockRows : Above(blockRows, k) = c
<1> DEFINE r == {p \in Nat \X Nat : p[1] > p[2]}
<1> SUFFICES ASSUME NEW S, S = DOMAIN blockRows
             PROVE  \E k \in S : Above(blockRows, k) = c
  OBVIOUS
<1>1. IsFiniteSet(S) /\ S \subseteq Nat
  BY RowsFinite
<1>2. OrdersAll(r, S)
  BY <1>1 DEF OrdersAll
<1>3. \A s \in S : Place(r, S, s) = Above(blockRows, s)
  <2> SUFFICES ASSUME NEW s \in S PROVE {t \in S : <<t, s>> \in r} = {m \in S : m > s}
    BY DEF Place, Above
  <2> QED
    BY <1>1
<1> HIDE DEF r
<1>4. \A s \in S : Place(r, S, s) \in 0 .. Cardinality(S) - 1
  BY <1>1, <1>2, PlacesAre
<1>5. Cardinality(S) \in Nat
  BY <1>1, FS_CardinalityType
<1>6. c \in 0 .. Cardinality(S) - 1
  BY <1>3, <1>4, <1>5
<1>7. \E s \in S : Place(r, S, s) = c
  BY <1>1, <1>2, <1>6, EveryPlaceIsTaken
<1> QED
  BY <1>3, <1>7

\* New rows only push others further down.
LEMMA AboveGrows ==
  ASSUME IndexType, IndexType', DOMAIN blockRows \subseteq DOMAIN blockRows', NEW n
  PROVE  Above(blockRows, n) <= Above(blockRows', n)
<1> DEFINE S == {m \in DOMAIN blockRows : m > n}
           T == {m \in DOMAIN blockRows' : m > n}
<1>1. S \subseteq T /\ T \subseteq DOMAIN blockRows'
  OBVIOUS
<1>2. chainHead' \in Nat /\ IsFiniteSet(0 .. chainHead')
  BY ChainIs, FS_Interval DEF IndexType
<1>3. IsFiniteSet(DOMAIN blockRows')
  BY <1>2, FS_Subset DEF IndexType
<1> HIDE DEF S, T
<1>4. Cardinality(S) <= Cardinality(T)
  BY <1>1, <1>3, FS_Subset
<1> QED
  BY <1>4 DEF Above, S, T

\* What a status leaves with the client.
LEMMA StatusIs ==
  ASSUME IsReader(reader)
  PROVE  /\ StatusLast => reader'.pc = "status" /\ reader'.last = lastIndexed
         /\ StatusCounts => /\ reader.pc = "status" /\ reader'.pc = "answered" /\ reader'.last = reader.last
                            /\ reader'.count = Cardinality(DOMAIN txRows)
         /\ LeavePages => reader'.pc = "away"
<1>1. ASSUME StatusLast PROVE reader'.pc = "status" /\ reader'.last = lastIndexed
  BY <1>1 DEF StatusLast, IsReader
<1>2. ASSUME StatusCounts
      PROVE  /\ reader.pc = "status" /\ reader'.pc = "answered" /\ reader'.last = reader.last
             /\ reader'.count = Cardinality(DOMAIN txRows)
  BY <1>2 DEF StatusCounts, IsReader
<1> QED
  BY <1>1, <1>2 DEF LeavePages, Away

\* The pages keep to what they have shown.
LEMMA PagesKeep ==
  ASSUME IndexType, IndexType', RoundInv, PagesInv, IndexerNext
  PROVE  PagesInv'
<1>1. DOMAIN blockRows \subseteq DOMAIN blockRows'
  BY RowsStay
<1>2. CASE reader' = reader
  <2>1. \A n : Above(blockRows, n) <= Above(blockRows', n) /\ Above(blockRows, n) \in Nat
    BY <1>1, AboveGrows, RowsFinite
  <2>2. \A n : Above(blockRows', n) \in Nat
    <3> SUFFICES ASSUME NEW n PROVE Above(blockRows', n) \in Nat
      OBVIOUS
    <3> DEFINE S == {m \in DOMAIN blockRows' : m > n}
    <3>1. chainHead' \in Nat /\ IsFiniteSet(0 .. chainHead')
      BY ChainIs, FS_Interval DEF IndexType
    <3>2. S \subseteq 0 .. chainHead'
      BY DEF IndexType
    <3> HIDE DEF S
    <3>3. Cardinality(S) \in Nat
      BY <3>1, <3>2, FS_Subset, FS_CardinalityType
    <3> QED
      BY <3>3 DEF Above, S
  <2>3. reader.count \in Nat
    BY DEF IndexType, IsReader
  <2>4. ASSUME reader.pc = "paging", NEW n \in reader.due PROVE n \in reader.seen \/ Above(blockRows', n) >= reader.count
    <3>1. n \in reader.seen \/ Above(blockRows, n) >= reader.count
      BY <2>4 DEF PagesInv
    <3>2. Above(blockRows, n) <= Above(blockRows', n) /\ Above(blockRows, n) \in Nat /\ Above(blockRows', n) \in Nat
      BY <2>1, <2>2
    <3> QED
      BY <2>3, <3>1, <3>2
  <2> QED
    BY <1>1, <1>2, <2>4 DEF PagesInv
<1>3. CASE StatusLast \/ StatusCounts \/ LeavePages
  <2>1. reader'.pc \in {"status", "answered", "away"}
    BY <1>3, StatusIs DEF IndexType
  <2> QED
    BY <2>1 DEF PagesInv
<1>4. CASE OpenPages
  <2>1. reader'.pc = "paging" /\ reader'.due = DOMAIN blockRows /\ reader'.count = 0 /\ blockRows' = blockRows
    BY <1>4 DEF OpenPages, Away, tables
  <2> QED
    BY <2>1, RowsFinite DEF PagesInv
<1>5. CASE NextPage
  <2> DEFINE rows == Page(IndexPageLimit, reader.count)
  <2>1. reader.pc = "paging" /\ blockRows' = blockRows /\ reader.count \in Nat /\ IndexPageLimit \in Nat \ {0}
    BY <1>5, IndexerAssumption DEF NextPage, tables, IndexType, IsReader
  <2>2. \A n : n \in rows <=> n \in DOMAIN blockRows /\ Above(blockRows, n) \in reader.count .. reader.count + IndexPageLimit - 1
    BY DEF Page, Above
  <2>3. reader' = IF rows = {} THEN [reader EXCEPT !.pc = "ended"]
                  ELSE [reader EXCEPT !.seen = @ \cup rows, !.count = @ + IndexPageLimit]
    BY <1>5 DEF NextPage
  <2> HIDE DEF rows
  <2>4. CASE rows = {}
    <3>1. reader'.pc = "ended" /\ reader'.due = reader.due /\ reader'.seen = reader.seen
      BY <2>3, <2>4 DEF IndexType, IsReader
    <3>2. ASSUME NEW n \in reader.due, n \notin reader.seen PROVE FALSE
      <4>1. n \in DOMAIN blockRows /\ Above(blockRows, n) >= reader.count
        BY <2>1, <3>2 DEF PagesInv
      <4>2. PICK k \in DOMAIN blockRows : Above(blockRows, k) = reader.count
        BY <2>1, <4>1, PagesHaveNoGap
      <4> QED
        BY <2>1, <2>2, <2>4, <4>2
    <3> QED
      BY <3>1, <3>2 DEF PagesInv
  <2>5. CASE rows # {}
    <3>1. reader'.pc = "paging" /\ reader'.due = reader.due /\ reader'.seen = reader.seen \cup rows
          /\ reader'.count = reader.count + IndexPageLimit
      BY <2>1, <2>3, <2>5 DEF IndexType, IsReader
    <3>2. ASSUME NEW n \in reader.due PROVE n \in reader'.seen \/ Above(blockRows, n) >= reader'.count
      BY <2>1, <2>2, <3>1, RowsFinite DEF PagesInv
    <3> QED
      BY <2>1, <3>1, <3>2 DEF PagesInv
  <2> QED
    BY <2>4, <2>5
<1>6. reader' = reader \/ ReadNext
  BY DEF IndexerNext, SyncNext, Grow, SyncStart, SyncBlock, SkipTx, IngestTx, IngestLife, ApplyMirror,
         ApplySettlementReceipt, ApplyDisputeSlash, SyncDone, Stop
<1> QED
  BY <1>2, <1>3, <1>4, <1>5, <1>6 DEF ReadNext

\* Claims shrink with what is passed over, and are finite.
LEMMA ClaimedIs ==
  ASSUME IndexType, NEW last \in Nat, last <= lastIndexed
  PROVE  \A x : x \in Claimed(indexedFrom, last, skipped) <=>
           /\ x \notin skipped
           /\ \E n \in indexedFrom .. last : n \in DOMAIN Chain /\ \E i \in DOMAIN Chain[n] : x = Chain[n][i].id
<1>1. \A n \in indexedFrom .. last : n \in DOMAIN Chain
  BY ChainIs DEF IndexType
<1>2. \A n : Ids(n) = {Chain[n][i].id : i \in DOMAIN Chain[n]}
  BY DEF Ids, Range
<1>3. \A x : x \in IdsIn(indexedFrom, last) <=> \E n \in indexedFrom .. last : x \in Ids(n)
  BY DEF IdsIn
<1>4. ASSUME NEW x, NEW n PROVE x \in Ids(n) <=> \E i \in DOMAIN Chain[n] : x = Chain[n][i].id
  BY <1>2
<1> QED
  BY <1>1, <1>3, <1>4 DEF Claimed

\* Everything claimed has its row.
LEMMA ClaimedHasRows ==
  ASSUME IndexType, RangeInv, NEW last \in Nat, last <= lastIndexed, last > 0
  PROVE  Claimed(indexedFrom, last, skipped) \subseteq DOMAIN txRows
<1> SUFFICES ASSUME NEW x \in Claimed(indexedFrom, last, skipped) PROVE x \in DOMAIN txRows
  OBVIOUS
<1>1. PICK n \in indexedFrom .. last : n \in DOMAIN Chain /\ \E i \in DOMAIN Chain[n] : x = Chain[n][i].id
  BY ClaimedIs
<1>2. PICK i \in DOMAIN Chain[n] : x = Chain[n][i].id
  BY <1>1
<1>3. x \notin skipped
  BY ClaimedIs
<1>4. HeightDone(blockRows, txRows, lifeRows, skipped, n)
  BY DEF RangeInv, IndexType
<1> QED
  BY <1>2, <1>3, <1>4 DEF HeightDone, TxDone

\* A client is never told more than there is.
LEMMA StatusKeeps ==
  ASSUME IndexType, RoundInv, RangeInv, StatusInv, IndexerNext
  PROVE  StatusInv'
<1>0. IsReader(reader) /\ lastIndexed \in Nat /\ indexedFrom \in Nat /\ reader.last \in Nat /\ reader.count \in Nat
  BY DEF IndexType, IsReader
<1>1. CASE StatusLast
  BY <1>0, <1>1, StatusIs DEF StatusInv, StatusLast, tables
<1>2. CASE StatusCounts
  <2>1. /\ reader.pc = "status" /\ reader'.pc = "answered" /\ reader'.last = reader.last
        /\ reader'.count = Cardinality(DOMAIN txRows)
        /\ UNCHANGED <<lastIndexed, indexedFrom, skipped>> /\ reader.last <= lastIndexed
    BY <1>0, <1>2, StatusIs DEF StatusCounts, tables, StatusInv
  <2>2. reader.last > 0 => Cardinality(Claimed(indexedFrom, reader.last, skipped)) <= Cardinality(DOMAIN txRows)
    <3>1. reader.last > 0 => Claimed(indexedFrom, reader.last, skipped) \subseteq DOMAIN txRows
      BY <1>0, <2>1, ClaimedHasRows
    <3> QED
      BY <3>1, FS_Subset DEF IndexType
  <2>3. IsFiniteSet(DOMAIN txRows) /\ Cardinality(DOMAIN txRows) \in Nat
    BY FS_CardinalityType DEF IndexType
  <2>4. reader.last > 0 => Cardinality(Claimed(indexedFrom, reader.last, skipped)) \in Nat
    BY <1>0, <2>1, <2>3, ClaimedHasRows, FS_Subset, FS_CardinalityType
  <2>5. reader.last > 0 => Cardinality(DOMAIN txRows) >= Cardinality(Claimed(indexedFrom, reader.last, skipped))
    BY <2>2, <2>3, <2>4
  <2> QED
    BY <2>1, <2>5 DEF StatusInv
<1>3. CASE LeavePages \/ OpenPages \/ NextPage
  <2>1. reader'.pc \in {"away", "paging", "ended"}
    <3>1. CASE LeavePages
      BY <1>0, <3>1, StatusIs
    <3>2. CASE OpenPages
      BY <3>2 DEF OpenPages, Away
    <3>3. CASE NextPage
      BY <3>3, <1>0 DEF NextPage, IsReader
    <3> QED
      BY <1>3, <3>1, <3>2, <3>3
  <2> QED
    BY <2>1 DEF StatusInv
<1>4. CASE SyncNext
  <2>1. reader' = reader
    BY <1>4 DEF SyncNext, Grow, SyncStart, SyncBlock, SkipTx, IngestTx, IngestLife, ApplyMirror,
             ApplySettlementReceipt, ApplyDisputeSlash, SyncDone, Stop
  <2>2. lastIndexed <= lastIndexed' /\ (lastIndexed > 0 => indexedFrom' = indexedFrom) /\ lastIndexed' \in Nat
    BY <1>0, RangeMoves DEF RoundInv, IndexType, IsRound
  <2>3. reader.pc \in {"status", "answered"} => reader'.last <= lastIndexed'
    BY <1>0, <2>1, <2>2 DEF StatusInv
  <2>4. ASSUME reader.pc = "answered", reader.last > 0
        PROVE  reader.count >= Cardinality(Claimed(indexedFrom', reader.last, skipped'))
    <3> DEFINE old == Claimed(indexedFrom, reader.last, skipped)
               new == Claimed(indexedFrom, reader.last, skipped')
    <3>1. reader.last <= lastIndexed /\ lastIndexed > 0 /\ indexedFrom' = indexedFrom /\ reader.count >= Cardinality(old)
      BY <1>0, <2>2, <2>4 DEF StatusInv
    <3>2. new \subseteq old
      <4> SUFFICES ASSUME NEW x \in new, x \in skipped PROVE FALSE
        BY DEF Claimed
      <4>1. x \in IdsIn(indexedFrom, reader.last) /\ x \notin skipped'
        BY DEF Claimed
      <4>2. IngestTx
        BY <1>4, <4>1 DEF SyncNext, Grow, SyncStart, SyncBlock, SkipTx, IngestLife, ApplyMirror,
             ApplySettlementReceipt, ApplyDisputeSlash, SyncDone, Stop
      <4>3. x = Tx.id /\ job.pc = "tx"
        BY <4>1, <4>2 DEF IngestTx
      <4>4. PICK n \in indexedFrom .. reader.last : x \in Ids(n)
        BY <4>1 DEF IdsIn
      <4>5. n \in DOMAIN Chain
        BY <1>0, <3>1, ChainIs DEF IndexType
      <4>6. PICK i \in DOMAIN Chain[n] : x = Chain[n][i].id
        BY <4>4 DEF Ids, Range
      <4>7. n = job.at
        BY <4>3, <4>5, <4>6, InHand, ChainIs DEF Tx
      <4> QED
        BY <1>0, <3>1, <4>3, <4>7 DEF RoundInv, IndexType, IsRound
    <3>3. old \subseteq DOMAIN txRows
      BY <1>0, <2>4, <3>1, ClaimedHasRows
    <3> HIDE DEF old, new
    <3>4. IsFiniteSet(old) /\ Cardinality(old) \in Nat /\ IsFiniteSet(new) /\ Cardinality(new) \in Nat /\ Cardinality(new) <= Cardinality(old)
      BY <3>2, <3>3, FS_Subset, FS_CardinalityType DEF IndexType
    <3>5. reader.count >= Cardinality(new)
      BY <1>0, <3>1, <3>4
    <3> QED
      BY <3>1, <3>5 DEF new
  <2> QED
    BY <2>1, <2>3, <2>4 DEF StatusInv
<1> QED
  BY <1>1, <1>2, <1>3, <1>4 DEF IndexerNext, ReadNext

\* The receipts of a worker a row has counted.
Counts(rows, w) == Get(rows, w, NoRow).ok + Get(rows, w, NoRow).failed

\* Those among the first k of a transaction.
GivenUpTo(tx, k, w) == Total([j \in 1 .. k |-> IF tx.receipts[j].worker = w THEN 1 ELSE 0])

\* Those in the first k transactions of a height.
DueUpTo(n, k, w, passed) == Total([i \in 1 .. k |-> Due(Chain[n][i], w, passed)])

\* An interval is finite.
LEMMA IntervalFinite == ASSUME NEW a \in Int, NEW b \in Int PROVE IsFiniteSet(a .. b)
BY FS_Interval

\* The receipts in a transaction, one by one.
LEMMA GivenIs ==
  ASSUME NEW tx, NEW w
  PROVE  /\ GivenUpTo(tx, 0, w) = 0
         /\ \A k \in Nat : GivenUpTo(tx, k, w) \in Nat
         /\ \A k \in Nat : GivenUpTo(tx, k + 1, w) = GivenUpTo(tx, k, w) + (IF tx.receipts[k + 1].worker = w THEN 1 ELSE 0)
<1> DEFINE f(k) == [j \in 1 .. k |-> IF tx.receipts[j].worker = w THEN 1 ELSE 0]
<1>1. GivenUpTo(tx, 0, w) = 0
  <2>1. f(0) = [x \in {} |-> f(0)[x]]
    OBVIOUS
  <2>2. Total(f(0)) = 0
    <3> HIDE DEF f
    <3> QED
      BY <2>1, TotalEmpty
  <2> QED
    BY <2>2 DEF GivenUpTo
<1>2. ASSUME NEW k \in Nat
      PROVE  /\ GivenUpTo(tx, k, w) \in Nat
             /\ GivenUpTo(tx, k + 1, w) = GivenUpTo(tx, k, w) + (IF tx.receipts[k + 1].worker = w THEN 1 ELSE 0)
  <2> DEFINE g == f(k)
             h == f(k + 1)
  <2>1. g \in [1 .. k -> Nat] /\ h \in [1 .. k + 1 -> Nat] /\ \A x \in 1 .. k : g[x] = h[x]
    OBVIOUS
  <2>2. h[k + 1] = IF tx.receipts[k + 1].worker = w THEN 1 ELSE 0
    OBVIOUS
  <2>3. GivenUpTo(tx, k, w) = Total(g) /\ GivenUpTo(tx, k + 1, w) = Total(h)
    BY DEF GivenUpTo
  <2> HIDE DEF g, h
  <2>4. Total(g) \in Nat
    BY <2>1, IntervalFinite, TotalNat
  <2>5. Total(h) = Total(g) + h[k + 1]
    BY <2>1, TotalNext
  <2> QED
    BY <2>2, <2>3, <2>4, <2>5
<1> QED
  BY <1>1, <1>2

\* The receipts of a transaction of the chain.
LEMMA ReceiptsAre ==
  ASSUME NEW n \in DOMAIN Chain, NEW i \in DOMAIN Chain[n], NEW w
  PROVE  /\ Receipts(Chain[n][i], w) \in Nat
         /\ Chain[n][i].kind = "settle" =>
              Receipts(Chain[n][i], w) = GivenUpTo(Chain[n][i], Len(Chain[n][i].receipts), w)
         /\ Chain[n][i].kind = "settle" /\ Chain[n][i].receipts = <<>> => Receipts(Chain[n][i], w) = 0
         /\ Chain[n][i].kind # "settle" => Receipts(Chain[n][i], w) = 0
<1> DEFINE tx == Chain[n][i]
<1>1. CASE tx.kind # "settle"
  BY <1>1 DEF Receipts
<1>2. CASE tx.kind = "settle"
  <2>1. Len(tx.receipts) \in Nat /\ DOMAIN tx.receipts = 1 .. Len(tx.receipts) /\ (tx.receipts = <<>> => Len(tx.receipts) = 0)
    BY <1>2, ChainIs
  <2> HIDE DEF tx
  <2>2. Receipts(tx, w) = GivenUpTo(tx, Len(tx.receipts), w)
    <3> DEFINE f == [j \in DOMAIN tx.receipts |-> IF tx.receipts[j].worker = w THEN 1 ELSE 0]
               g == [j \in 1 .. Len(tx.receipts) |-> IF tx.receipts[j].worker = w THEN 1 ELSE 0]
    <3>1. Receipts(tx, w) = Total(f)
      BY <1>2 DEF Receipts
    <3>2. GivenUpTo(tx, Len(tx.receipts), w) = Total(g)
      BY DEF GivenUpTo
    <3>3. f = g
      BY <2>1
    <3> HIDE DEF f, g
    <3> QED
      BY <3>1, <3>2, <3>3
  <2>3. Receipts(tx, w) \in Nat /\ (tx.receipts = <<>> => Receipts(tx, w) = 0)
    <3>1. GivenUpTo(tx, 0, w) = 0 /\ \A k \in Nat : GivenUpTo(tx, k, w) \in Nat
      BY GivenIs
    <3>2. GivenUpTo(tx, Len(tx.receipts), w) \in Nat
      BY <2>1, <3>1
    <3>3. tx.receipts = <<>> => GivenUpTo(tx, Len(tx.receipts), w) = 0
      BY <2>1, <3>1
    <3> QED
      BY <2>2, <3>2, <3>3
  <2> QED
    BY <1>2, <2>2, <2>3 DEF tx
<1> QED
  BY <1>1, <1>2

\* What is due in a height, transaction by transaction.
LEMMA DueUpToIs ==
  ASSUME NEW n \in DOMAIN Chain, NEW w, NEW passed
  PROVE  /\ DueUpTo(n, 0, w, passed) = 0
         /\ \A k \in 0 .. Len(Chain[n]) : DueUpTo(n, k, w, passed) \in Nat
         /\ \A k \in 0 .. Len(Chain[n]) - 1 :
              DueUpTo(n, k + 1, w, passed) = DueUpTo(n, k, w, passed) + Due(Chain[n][k + 1], w, passed)
         /\ DueAt(n, w, passed) = DueUpTo(n, Len(Chain[n]), w, passed)
         /\ DueAt(n, w, passed) \in Nat
<1> DEFINE f(k) == [i \in 1 .. k |-> Due(Chain[n][i], w, passed)]
<1>0. Len(Chain[n]) \in Nat /\ DOMAIN Chain[n] = 1 .. Len(Chain[n])
  BY ChainIs
<1>1. \A i \in 1 .. Len(Chain[n]) : Due(Chain[n][i], w, passed) \in Nat
  BY <1>0, ReceiptsAre DEF Due
<1>2. DueUpTo(n, 0, w, passed) = 0
  <2>1. f(0) = [x \in {} |-> f(0)[x]]
    OBVIOUS
  <2>2. Total(f(0)) = 0
    <3> HIDE DEF f
    <3> QED
      BY <2>1, TotalEmpty
  <2> QED
    BY <2>2 DEF DueUpTo
<1>3. ASSUME NEW k \in 0 .. Len(Chain[n]) PROVE DueUpTo(n, k, w, passed) \in Nat
  <2> DEFINE g == f(k)
  <2>1. g \in [1 .. k -> Nat]
    BY <1>0, <1>1
  <2>2. DueUpTo(n, k, w, passed) = Total(g)
    BY DEF DueUpTo
  <2> HIDE DEF g
  <2> QED
    BY <1>0, <2>1, <2>2, IntervalFinite, TotalNat
<1>4. ASSUME NEW k \in 0 .. Len(Chain[n]) - 1
      PROVE  DueUpTo(n, k + 1, w, passed) = DueUpTo(n, k, w, passed) + Due(Chain[n][k + 1], w, passed)
  <2> DEFINE g == f(k)
             h == f(k + 1)
  <2>1. k \in Nat /\ g \in [1 .. k -> Nat] /\ h \in [1 .. k + 1 -> Nat] /\ \A x \in 1 .. k : g[x] = h[x]
    BY <1>0, <1>1
  <2>2. h[k + 1] = Due(Chain[n][k + 1], w, passed)
    BY <2>1
  <2>3. DueUpTo(n, k, w, passed) = Total(g) /\ DueUpTo(n, k + 1, w, passed) = Total(h)
    BY DEF DueUpTo
  <2> HIDE DEF g, h
  <2>5. Total(h) = Total(g) + h[k + 1]
    BY <2>1, TotalNext
  <2> QED
    BY <2>2, <2>3, <2>5
<1>5. DueAt(n, w, passed) = DueUpTo(n, Len(Chain[n]), w, passed)
  BY <1>0 DEF DueAt, DueUpTo
<1> QED
  BY <1>0, <1>2, <1>3, <1>4, <1>5

\* What is due in a range, height by height.
LEMMA DueInIs ==
  ASSUME NEW lo \in Nat, NEW hi \in Int, lo .. hi \subseteq DOMAIN Chain, NEW w, NEW passed
  PROVE  /\ DueIn(lo, hi, w, passed) \in Nat
         /\ hi < lo => DueIn(lo, hi, w, passed) = 0
         /\ lo <= hi + 1 /\ hi + 1 \in DOMAIN Chain =>
              DueIn(lo, hi + 1, w, passed) = DueIn(lo, hi, w, passed) + DueAt(hi + 1, w, passed)
<1> DEFINE f(k) == [n \in lo .. k |-> DueAt(n, w, passed)]
<1>1. \A n \in DOMAIN Chain : DueAt(n, w, passed) \in Nat
  BY DueUpToIs
<1>2. DueIn(lo, hi, w, passed) \in Nat
  <2> DEFINE g == f(hi)
  <2>1. g \in [lo .. hi -> Nat]
    BY <1>1
  <2>2. DueIn(lo, hi, w, passed) = Total(g)
    BY DEF DueIn
  <2> HIDE DEF g
  <2> QED
    BY <2>1, <2>2, IntervalFinite, TotalNat
<1>3. ASSUME hi < lo PROVE DueIn(lo, hi, w, passed) = 0
  <2> DEFINE g == f(hi)
  <2>1. lo .. hi = {}
    BY <1>3
  <2>2. g = [x \in {} |-> g[x]]
    BY <2>1
  <2>3. DueIn(lo, hi, w, passed) = Total(g)
    BY DEF DueIn
  <2> HIDE DEF g
  <2> QED
    BY <2>2, <2>3, TotalEmpty
<1>4. ASSUME lo <= hi + 1, hi + 1 \in DOMAIN Chain
      PROVE  DueIn(lo, hi + 1, w, passed) = DueIn(lo, hi, w, passed) + DueAt(hi + 1, w, passed)
  <2> DEFINE g == f(hi)
             h == f(hi + 1)
             S == lo .. hi
             e == hi + 1
  <2>1. lo .. hi + 1 = S \cup {e} /\ e \notin S
    BY <1>4
  <2>2. g \in [S -> Nat]
    BY <1>1
  <2>3. h \in [S \cup {e} -> Nat]
    BY <1>1, <1>4, <2>1
  <2>4. \A x \in S : g[x] = h[x]
    BY <2>1
  <2>5. h[e] = DueAt(hi + 1, w, passed)
    BY <2>1
  <2>6. DueIn(lo, hi, w, passed) = Total(g) /\ DueIn(lo, hi + 1, w, passed) = Total(h)
    BY DEF DueIn
  <2>7. IsFiniteSet(S)
    BY IntervalFinite
  <2> HIDE DEF g, h, S, e
  <2>8. Total(h) = Total(g) + h[e]
    BY <2>1, <2>2, <2>3, <2>4, <2>7, TotalWith
  <2> QED
    BY <2>5, <2>6, <2>8
<1> QED
  BY <1>2, <1>3, <1>4

\* Less is due where more is passed over.
LEMMA DueShrinks ==
  ASSUME NEW n \in DOMAIN Chain, NEW k \in 0 .. Len(Chain[n]), NEW w, NEW old, NEW new,
         \A i \in 1 .. k : Chain[n][i].id \in old => Chain[n][i].id \in new
  PROVE  DueUpTo(n, k, w, new) <= DueUpTo(n, k, w, old)
<1> DEFINE f == [i \in 1 .. k |-> Due(Chain[n][i], w, new)]
           g == [i \in 1 .. k |-> Due(Chain[n][i], w, old)]
           S == 1 .. k
<1>0. Len(Chain[n]) \in Nat /\ DOMAIN Chain[n] = 1 .. Len(Chain[n])
  BY ChainIs
<1>1. \A i \in 1 .. k : Receipts(Chain[n][i], w) \in Nat
  BY <1>0, ReceiptsAre
<1>2. f \in [S -> Nat] /\ g \in [S -> Nat]
  BY <1>1 DEF Due
<1>3. \A x \in S : f[x] <= g[x]
  <2> SUFFICES ASSUME NEW x \in S PROVE Due(Chain[n][x], w, new) <= Due(Chain[n][x], w, old)
    OBVIOUS
  <2> QED
    BY <1>1 DEF Due
<1>4. DueUpTo(n, k, w, new) = Total(f) /\ DueUpTo(n, k, w, old) = Total(g)
  BY DEF DueUpTo
<1>5. IsFiniteSet(S)
  BY <1>0, IntervalFinite
<1> HIDE DEF f, g, S
<1>6. Total(f) <= Total(g)
  BY <1>2, <1>3, <1>5, TotalLess
<1> QED
  BY <1>4, <1>6

\* And so in a range.
LEMMA DueInShrinks ==
  ASSUME NEW lo \in Nat, NEW hi \in Int, lo .. hi \subseteq DOMAIN Chain, NEW w, NEW old, NEW new,
         \A n \in lo .. hi : \A i \in DOMAIN Chain[n] : Chain[n][i].id \in old => Chain[n][i].id \in new
  PROVE  DueIn(lo, hi, w, new) <= DueIn(lo, hi, w, old)
<1> DEFINE f == [n \in lo .. hi |-> DueAt(n, w, new)]
           g == [n \in lo .. hi |-> DueAt(n, w, old)]
           S == lo .. hi
<1>1. \A n \in S : DueAt(n, w, new) \in Nat /\ DueAt(n, w, old) \in Nat
  BY DueUpToIs
<1>2. \A n \in S : DueAt(n, w, new) <= DueAt(n, w, old)
  <2> SUFFICES ASSUME NEW n \in S PROVE DueAt(n, w, new) <= DueAt(n, w, old)
    OBVIOUS
  <2>1. n \in DOMAIN Chain /\ Len(Chain[n]) \in Nat /\ DOMAIN Chain[n] = 1 .. Len(Chain[n])
    BY ChainIs
  <2>2. DueUpTo(n, Len(Chain[n]), w, new) <= DueUpTo(n, Len(Chain[n]), w, old)
    BY <2>1, DueShrinks
  <2> QED
    BY <2>1, <2>2, DueUpToIs
<1>3. f \in [S -> Nat] /\ g \in [S -> Nat] /\ \A x \in S : f[x] <= g[x]
  BY <1>1, <1>2
<1>4. DueIn(lo, hi, w, new) = Total(f) /\ DueIn(lo, hi, w, old) = Total(g)
  BY DEF DueIn
<1>5. IsFiniteSet(S)
  BY IntervalFinite
<1> HIDE DEF f, g, S
<1> QED
  BY <1>3, <1>4, <1>5, TotalLess

\* Where the counted range begins.
Base == IF lastIndexed = 0 THEN job.from ELSE indexedFrom

\* How far the round is in its height.
Through == IF job.pc \in {"block", "done"} THEN job.i ELSE job.i - 1

\* And how far in the receipts in hand.
HandedOver(w) == IF job.pc = "rows" THEN GivenUpTo(Tx, job.r - 1, w) ELSE 0

\* What the round has passed.
Behind(w) == DueIn(Base, job.at - 1, w, skipped) + DueUpTo(job.at, Through, w, skipped) + HandedOver(w)

\* The rows count it.
RoundCounts == job.pc # "idle" => \A w : Counts(repRows, w) >= Behind(w)

\* And what the completed rounds have.
RangeCounts == lastIndexed > 0 => \A w : Counts(repRows, w) >= DueIn(indexedFrom, lastIndexed, w, skipped)

\* The numbers involved.
LEMMA CountsAre == ASSUME IndexType, NEW w PROVE Counts(repRows, w) \in Nat
BY RowIs DEF Counts, IsRow

\* The range counted so far.
LEMMA BaseIs ==
  ASSUME IndexType, RoundInv, RangeInv, job.pc # "idle"
  PROVE  /\ Base \in Nat /\ job.at - 1 \in Int /\ Base <= job.at
         /\ Base .. job.at - 1 \subseteq DOMAIN Chain /\ Base .. job.hi \subseteq DOMAIN Chain
         /\ job.at \in DOMAIN Chain /\ Through \in 0 .. Len(Chain[job.at]) /\ Through \in 0 .. job.i
         /\ job.pc = "tx" => Through = job.i - 1
<1>1. /\ job.at \in DOMAIN Chain /\ job.at \in Nat /\ job.i \in Nat /\ job.hi \in Nat /\ job.from \in Nat
      /\ Len(Chain[job.at]) \in Nat /\ job.hi \in DOMAIN Chain
      /\ job.from <= job.at /\ job.at <= job.hi /\ lastIndexed \in Nat /\ indexedFrom \in Nat
      /\ (lastIndexed > 0 => job.from = lastIndexed + 1 /\ indexedFrom <= lastIndexed)
  BY InHand, ChainIs DEF RoundInv, RangeInv, IndexType, IsRound
<1>2. Base \in Nat /\ Base <= job.at
  BY <1>1 DEF Base
<1>3. Base .. job.hi \subseteq DOMAIN Chain
  BY <1>1, <1>2, ChainIs
<1>4. Through \in 0 .. Len(Chain[job.at]) /\ Through \in 0 .. job.i
  BY <1>1 DEF RoundInv, Through, IndexType, IsRound
<1>5. job.pc = "tx" => Through = job.i - 1
  BY DEF Through
<1> QED
  BY <1>1, <1>2, <1>3, <1>4, <1>5

\* What was passed over stays so, but for the transaction in hand.
LEMMA PassedStay ==
  ASSUME IndexType, RoundInv, IndexerNext, NEW n \in DOMAIN Chain, NEW i \in DOMAIN Chain[n],
         Chain[n][i].id \in skipped, ~(job.pc = "tx" /\ n = job.at /\ i = job.i)
  PROVE  Chain[n][i].id \in skipped'
<1>1. CASE IngestTx
  <2>1. skipped' = skipped \ {Tx.id} /\ job.pc = "tx"
    BY <1>1 DEF IngestTx
  <2>2. Chain[n][i].id # Tx.id
    BY <2>1, InHand, ChainIs DEF Tx
  <2> QED
    BY <2>1, <2>2
<1>2. CASE ~IngestTx
  BY <1>2 DEF IndexerNext, SyncNext, Grow, SyncStart, SyncBlock, SkipTx, IngestLife, ApplyMirror,
         ApplySettlementReceipt, ApplyDisputeSlash, SyncDone, Stop, ReadNext, StatusLast, StatusCounts, OpenPages,
         NextPage, LeavePages, tables
<1> QED
  BY <1>1, <1>2

\* So no step asks for more of what is behind it.
LEMMA BehindShrinks ==
  ASSUME IndexType, RoundInv, RangeInv, IndexerNext, job.pc # "idle", NEW w
  PROVE  /\ DueIn(Base, job.at - 1, w, skipped') <= DueIn(Base, job.at - 1, w, skipped)
         /\ DueIn(Base, job.at - 1, w, skipped') \in Nat /\ DueIn(Base, job.at - 1, w, skipped) \in Nat
         /\ DueUpTo(job.at, Through, w, skipped') <= DueUpTo(job.at, Through, w, skipped)
         /\ DueUpTo(job.at, Through, w, skipped') \in Nat /\ DueUpTo(job.at, Through, w, skipped) \in Nat
<1>1. /\ Base \in Nat /\ job.at - 1 \in Int /\ Base <= job.at /\ Base .. job.at - 1 \subseteq DOMAIN Chain
      /\ job.at \in DOMAIN Chain /\ Through \in 0 .. Len(Chain[job.at]) /\ job.at \in Nat
      /\ DOMAIN Chain[job.at] = 1 .. Len(Chain[job.at]) /\ Len(Chain[job.at]) \in Nat
      /\ (job.pc = "tx" => Through = job.i - 1) /\ job.i \in Nat
  BY BaseIs, InHand
<1>2. ASSUME NEW n \in Base .. job.at - 1, NEW i \in DOMAIN Chain[n], Chain[n][i].id \in skipped
      PROVE  Chain[n][i].id \in skipped'
  <2>1. n # job.at /\ n \in DOMAIN Chain
    BY <1>1
  <2> QED
    BY <1>2, <2>1, PassedStay
<1>3. DueIn(Base, job.at - 1, w, skipped') <= DueIn(Base, job.at - 1, w, skipped)
  BY <1>1, <1>2, DueInShrinks
<1>4. ASSUME NEW i \in 1 .. Through, Chain[job.at][i].id \in skipped
      PROVE  Chain[job.at][i].id \in skipped'
  <2>1. i \in DOMAIN Chain[job.at] /\ (job.pc = "tx" => i # job.i)
    BY <1>1
  <2> QED
    BY <1>1, <1>4, <2>1, PassedStay
<1>5. DueUpTo(job.at, Through, w, skipped') <= DueUpTo(job.at, Through, w, skipped)
  BY <1>1, <1>4, DueShrinks
<1> QED
  BY <1>1, <1>3, <1>5, DueInIs, DueUpToIs

\* The counters only rise.
LEMMA CountsRise ==
  ASSUME IndexType, IndexerNext, NEW w
  PROVE  Counts(repRows', w) >= Counts(repRows, w) /\ Counts(repRows', w) \in Nat
<1>0. Counts(repRows, w) \in Nat
  BY CountsAre
<1>1. CASE ApplySettlementReceipt
  <2>1. PICK x : repRows' = Put(repRows, x.worker, Merged(Get(repRows, x.worker, NoRow), x, StakeOf(mirror, x.worker)))
    BY <1>1 DEF ApplySettlementReceipt
  <2> DEFINE row == Get(repRows, x.worker, NoRow)
             new == Merged(row, x, StakeOf(mirror, x.worker))
  <2>2. IsRow(row) /\ IsRow(new) /\ new.ok + new.failed = row.ok + row.failed + 1
    BY RowIs, MergedIs
  <2>3. Get(repRows', w, NoRow) = IF w = x.worker THEN new ELSE Get(repRows, w, NoRow)
    BY <2>1 DEF Put, Get
  <2>4. row.ok \in Nat /\ row.failed \in Nat
    BY <2>2 DEF IsRow
  <2> HIDE DEF new
  <2>5. CASE w = x.worker
    BY <2>2, <2>3, <2>4, <2>5 DEF Counts
  <2>6. CASE w # x.worker
    BY <1>0, <2>3, <2>6 DEF Counts
  <2> QED
    BY <2>5, <2>6
<1>2. CASE ApplyDisputeSlash
  <2> DEFINE row == Get(repRows, job.slash, NoRow)
             new == SlashMerged(row, StakeOf(mirror, job.slash))
  <2>1. repRows' = Put(repRows, job.slash, new)
    BY <1>2 DEF ApplyDisputeSlash
  <2>2. IsRow(row) /\ new.ok = row.ok /\ new.failed = row.failed
    BY RowIs, SlashedIs
  <2>3. Get(repRows', w, NoRow) = IF w = job.slash THEN new ELSE Get(repRows, w, NoRow)
    BY <2>1 DEF Put, Get
  <2>4. row.ok \in Nat /\ row.failed \in Nat
    BY <2>2 DEF IsRow
  <2> HIDE DEF new
  <2>5. CASE w = job.slash
    BY <2>2, <2>3, <2>4, <2>5 DEF Counts
  <2>6. CASE w # job.slash
    BY <1>0, <2>3, <2>6 DEF Counts
  <2> QED
    BY <2>5, <2>6
<1>3. CASE ~(ApplySettlementReceipt \/ ApplyDisputeSlash)
  <2>1. repRows' = repRows
    BY <1>3 DEF IndexerNext, SyncNext, Grow, SyncStart, SyncBlock, SkipTx, IngestTx, IngestLife, ApplyMirror,
           SyncDone, Stop, ReadNext, StatusLast, StatusCounts, OpenPages, NextPage, LeavePages, tables
  <2> QED
    BY <1>0, <2>1
<1> QED
  BY <1>1, <1>2, <1>3

\* What is due of the transaction in hand.
LEMMA InHandDue ==
  ASSUME IndexType, RoundInv, job.pc \in {"tx", "life", "mirror", "rows", "slash"}, NEW w, NEW passed
  PROVE  /\ DueUpTo(job.at, job.i, w, passed) = DueUpTo(job.at, job.i - 1, w, passed) + Due(Tx, w, passed)
         /\ Due(Tx, w, passed) \in Nat /\ DueUpTo(job.at, job.i - 1, w, passed) \in Nat
         /\ Due(Tx, w, passed) <= Receipts(Tx, w) /\ Receipts(Tx, w) \in Nat
         /\ Tx.kind # "settle" => Receipts(Tx, w) = 0
         /\ Tx.kind = "settle" /\ Tx.receipts = <<>> => Receipts(Tx, w) = 0
         /\ Tx.kind = "settle" => Receipts(Tx, w) = GivenUpTo(Tx, Len(Tx.receipts), w)
<1>1. job.at \in DOMAIN Chain /\ job.i \in DOMAIN Chain[job.at] /\ DOMAIN Chain[job.at] = 1 .. Len(Chain[job.at])
      /\ Len(Chain[job.at]) \in Nat /\ job.i \in Nat
  BY InHand
<1>2. job.i - 1 \in 0 .. Len(Chain[job.at]) - 1 /\ job.i - 1 + 1 = job.i /\ job.i - 1 \in 0 .. Len(Chain[job.at])
  BY <1>1
<1>3. DueUpTo(job.at, job.i - 1 + 1, w, passed) = DueUpTo(job.at, job.i - 1, w, passed) + Due(Chain[job.at][job.i - 1 + 1], w, passed)
  BY <1>1, <1>2, DueUpToIs
<1>4. DueUpTo(job.at, job.i - 1, w, passed) \in Nat
  BY <1>1, <1>2, DueUpToIs
<1>5. /\ Receipts(Tx, w) \in Nat
      /\ Tx.kind # "settle" => Receipts(Tx, w) = 0
      /\ Tx.kind = "settle" /\ Tx.receipts = <<>> => Receipts(Tx, w) = 0
      /\ Tx.kind = "settle" => Receipts(Tx, w) = GivenUpTo(Tx, Len(Tx.receipts), w)
  BY <1>1, ReceiptsAre DEF Tx
<1>6. Due(Tx, w, passed) \in Nat /\ Due(Tx, w, passed) <= Receipts(Tx, w)
  BY <1>5 DEF Due
<1>7. DueUpTo(job.at, job.i, w, passed) = DueUpTo(job.at, job.i - 1, w, passed) + Due(Tx, w, passed)
  BY <1>2, <1>3 DEF Tx
<1> QED
  BY <1>4, <1>5, <1>6, <1>7

\* Going on with the transaction in hand counted.
LEMMA OnwardCounts ==
  ASSUME IndexType, RoundInv, RangeInv, job.pc \notin {"idle", "done"}, job' = Onward, UNCHANGED <<lastIndexed, indexedFrom>>, NEW w,
         Counts(repRows', w) >= DueIn(Base, job.at - 1, w, skipped') + DueUpTo(job.at, job.i, w, skipped')
  PROVE  Counts(repRows', w) >= Behind(w)'
<1>1. /\ Base \in Nat /\ job.at - 1 \in Int /\ Base <= job.at /\ Base .. job.at - 1 \subseteq DOMAIN Chain
      /\ job.at \in DOMAIN Chain /\ job.at \in Nat /\ Len(Chain[job.at]) \in Nat /\ job.i \in 0 .. Len(Chain[job.at])
  <2>1. job.pc \in {"block", "tx", "life", "mirror", "rows", "slash"}
    BY DEF IndexType, IsRound
  <2> QED
    BY <2>1, BaseIs, InHand DEF RoundInv
<1>2. Base' = Base
  BY <1>1, OnwardIs DEF Base, IndexType
<1>3. job'.pc # "rows"
  BY <1>1, OnwardIs DEF IndexType
<1>4. DueIn(Base, job.at - 1, w, skipped') \in Nat /\ DueUpTo(job.at, job.i, w, skipped') \in Nat
  BY <1>1, DueInIs, DueUpToIs
<1>5. Behind(w)' = DueIn(Base, job'.at - 1, w, skipped') + DueUpTo(job'.at, Through', w, skipped')
                   + 0
  BY <1>2, <1>3 DEF Behind, HandedOver
<1>6. Behind(w)' = DueIn(Base, job.at - 1, w, skipped') + DueUpTo(job.at, job.i, w, skipped')
  <2>1. CASE job.i < Len(Chain[job.at])
    <3>1. job'.pc = "tx" /\ job'.at = job.at /\ job'.i = job.i + 1
      BY <1>1, <2>1, OnwardIs DEF IndexType
    <3>2. Through' = job.i
      BY <1>1, <3>1 DEF Through
    <3> QED
      BY <1>4, <1>5, <3>1, <3>2
  <2>2. CASE ~(job.i < Len(Chain[job.at])) /\ job.at < job.hi
    <3>1. job'.pc = "block" /\ job'.at = job.at + 1 /\ job'.i = 0
      BY <1>1, <2>2, OnwardIs DEF IndexType
    <3>2. Through' = 0
      BY <3>1 DEF Through
    <3>3. job'.at \in DOMAIN Chain
      <4>1. Base .. job.hi \subseteq DOMAIN Chain /\ job.hi \in Nat
        BY BaseIs, InHand
      <4>2. job.at + 1 \in Base .. job.hi
        BY <1>1, <2>2, <4>1
      <4> QED
        BY <3>1, <4>1, <4>2
    <3>4. DueUpTo(job'.at, 0, w, skipped') = 0
      BY <3>3, DueUpToIs
    <3>5. job.i = Len(Chain[job.at]) /\ job'.at - 1 = job.at - 1 + 1 /\ job.at - 1 + 1 = job.at
      BY <1>1, <2>2, <3>1
    <3>6. DueIn(Base, job.at - 1 + 1, w, skipped') = DueIn(Base, job.at - 1, w, skipped') + DueAt(job.at - 1 + 1, w, skipped')
      <4> DEFINE hi == job.at - 1
      <4>1. hi \in Int /\ Base .. hi \subseteq DOMAIN Chain /\ Base <= hi + 1 /\ hi + 1 \in DOMAIN Chain
        BY <1>1, <3>5
      <4> HIDE DEF hi
      <4>2. DueIn(Base, hi + 1, w, skipped') = DueIn(Base, hi, w, skipped') + DueAt(hi + 1, w, skipped')
        BY <1>1, <4>1, DueInIs
      <4> QED
        BY <4>2 DEF hi
    <3>7. DueAt(job.at, w, skipped') = DueUpTo(job.at, job.i, w, skipped')
      BY <1>1, <3>5, DueUpToIs
    <3> QED
      BY <1>4, <1>5, <3>2, <3>4, <3>5, <3>6, <3>7
  <2>3. CASE ~(job.i < Len(Chain[job.at])) /\ ~(job.at < job.hi)
    <3>1. job'.pc = "done" /\ job'.at = job.at /\ job'.i = job.i
      BY <1>1, <2>3, OnwardIs DEF IndexType
    <3>2. Through' = job.i
      BY <3>1 DEF Through
    <3> QED
      BY <1>4, <1>5, <3>1, <3>2
  <2> QED
    BY <2>1, <2>2, <2>3
<1> QED
  BY <1>6

\* Going on from a transaction without receipts, or one that is passed over.
LEMMA OnwardFree ==
  ASSUME IndexType, RoundInv, RangeInv, RoundCounts, IndexerNext, job.pc \in {"tx", "life", "mirror", "slash"}, job' = Onward,
         UNCHANGED <<lastIndexed, indexedFrom>>, NEW w, Due(Tx, w, skipped') = 0
  PROVE  Counts(repRows', w) >= Behind(w)'
<1> DEFINE a == DueIn(Base, job.at - 1, w, skipped)
           b == DueUpTo(job.at, job.i - 1, w, skipped)
           c == DueIn(Base, job.at - 1, w, skipped')
           d == DueUpTo(job.at, job.i - 1, w, skipped')
<1>1. Through = job.i - 1 /\ HandedOver(w) = 0
  BY DEF Through, HandedOver
<1>2. c <= a /\ d <= b /\ a \in Nat /\ b \in Nat /\ c \in Nat /\ d \in Nat
  BY <1>1, BehindShrinks
<1>3. Counts(repRows, w) >= a + b + 0
  BY <1>1 DEF RoundCounts, Behind
<1>4. DueUpTo(job.at, job.i, w, skipped') = d + 0
  BY InHandDue
<1>5. Counts(repRows, w) \in Nat /\ Counts(repRows', w) \in Nat /\ Counts(repRows', w) >= Counts(repRows, w)
  BY CountsAre, CountsRise
<1> HIDE DEF a, b, c, d
<1>6. Counts(repRows', w) >= c + d
  BY <1>2, <1>3, <1>5
<1>7. Counts(repRows', w) >= c + DueUpTo(job.at, job.i, w, skipped')
  BY <1>2, <1>4, <1>6
<1> QED
  BY <1>7, OnwardCounts DEF c

\* Staying at it with nothing handed over.
LEMMA PlaceCounts ==
  ASSUME IndexType, RoundInv, RangeInv, RoundCounts, IndexerNext, job.pc # "idle", UNCHANGED <<lastIndexed, indexedFrom>>,
         job'.at = job.at, job'.from = job.from, Through' = Through, NEW w, HandedOver(w)' = 0
  PROVE  Counts(repRows', w) >= Behind(w)'
<1> DEFINE a == DueIn(Base, job.at - 1, w, skipped)
           b == DueUpTo(job.at, Through, w, skipped)
           c == DueIn(Base, job.at - 1, w, skipped')
           d == DueUpTo(job.at, Through, w, skipped')
           h == HandedOver(w)
<1>1. Base' = Base
  BY DEF Base
<1>2. Behind(w)' = c + d + 0
  BY <1>1 DEF Behind
<1>3. c <= a /\ d <= b /\ a \in Nat /\ b \in Nat /\ c \in Nat /\ d \in Nat
  BY BehindShrinks
<1>4. h \in Nat
  <2>1. CASE job.pc = "rows"
    <3>1. job.r - 1 \in Nat
      BY <2>1 DEF RoundInv, IndexType, IsRound
    <3>2. GivenUpTo(Tx, job.r - 1, w) \in Nat
      BY <3>1, GivenIs
    <3> QED
      BY <2>1, <3>2 DEF HandedOver
  <2>2. CASE job.pc # "rows"
    BY <2>2 DEF HandedOver
  <2> QED
    BY <2>1, <2>2
<1>5. Counts(repRows, w) >= a + b + h
  BY DEF RoundCounts, Behind
<1>6. Counts(repRows, w) \in Nat /\ Counts(repRows', w) \in Nat /\ Counts(repRows', w) >= Counts(repRows, w)
  BY CountsAre, CountsRise
<1> HIDE DEF a, b, c, d, h
<1> QED
  BY <1>2, <1>3, <1>4, <1>5, <1>6

\* A receipt is counted in its worker's row.
LEMMA ReceiptCounts ==
  ASSUME IndexType, ApplySettlementReceipt, NEW w
  PROVE  Counts(repRows', w) = Counts(repRows, w) + (IF Tx.receipts[job.r].worker = w THEN 1 ELSE 0)
<1> DEFINE x == Tx.receipts[job.r]
           row == Get(repRows, x.worker, NoRow)
           new == Merged(row, x, StakeOf(mirror, x.worker))
<1>1. repRows' = Put(repRows, x.worker, new)
  BY DEF ApplySettlementReceipt
<1>2. IsRow(row) /\ IsRow(new) /\ new.ok + new.failed = row.ok + row.failed + 1
  BY RowIs, MergedIs
<1> HIDE DEF new, x
<1>3. Get(repRows', w, NoRow) = IF w = x.worker THEN new ELSE Get(repRows, w, NoRow)
  BY <1>1 DEF Put, Get
<1>4. Counts(repRows, w) \in Nat
  BY CountsAre
<1>5. CASE w = x.worker
  BY <1>2, <1>3, <1>5 DEF Counts, x
<1>6. CASE w # x.worker
  BY <1>3, <1>4, <1>6 DEF Counts, x
<1> QED
  BY <1>5, <1>6

\* And the round has handed over one more.
LEMMA ReceiptKeeps ==
  ASSUME IndexType, RoundInv, RangeInv, RoundCounts, IndexerNext, ApplySettlementReceipt, NEW w
  PROVE  Counts(repRows', w) >= Behind(w)'
<1> DEFINE a == DueIn(Base, job.at - 1, w, skipped)
           b == DueUpTo(job.at, job.i - 1, w, skipped)
           g == GivenUpTo(Tx, job.r - 1, w)
           one == IF Tx.receipts[job.r].worker = w THEN 1 ELSE 0
<1>0. job.pc = "rows" /\ UNCHANGED <<lastIndexed, indexedFrom, skipped>>
  BY DEF ApplySettlementReceipt
<1>1. Through = job.i - 1 /\ HandedOver(w) = g
  BY <1>0 DEF Through, HandedOver
<1>2. a \in Nat /\ b \in Nat
  BY <1>0, <1>1, BehindShrinks
<1>3. Counts(repRows, w) >= a + b + g /\ Counts(repRows, w) \in Nat
  BY <1>0, <1>1, CountsAre DEF RoundCounts, Behind
<1>4. Tx.kind = "settle" /\ job.r \in 1 .. Len(Tx.receipts) /\ Len(Tx.receipts) \in Nat /\ job.r \in Nat
  <2>1. job.at \in DOMAIN Chain /\ job.i \in 1 .. Len(Chain[job.at])
    BY <1>0, InHand
  <2> QED
    BY <1>0, <2>1, ChainIs DEF RoundInv, Tx, IndexType, IsRound
<1>5. job.r - 1 \in Nat /\ job.r - 1 + 1 = job.r
  BY <1>4
<1>6. g \in Nat /\ GivenUpTo(Tx, job.r, w) = g + one /\ one \in Nat
  <2>1. \A k \in Nat : GivenUpTo(Tx, k, w) \in Nat /\
          GivenUpTo(Tx, k + 1, w) = GivenUpTo(Tx, k, w) + (IF Tx.receipts[k + 1].worker = w THEN 1 ELSE 0)
    BY GivenIs
  <2>2. GivenUpTo(Tx, job.r - 1, w) \in Nat
    BY <1>5, <2>1
  <2>3. GivenUpTo(Tx, job.r - 1 + 1, w) = GivenUpTo(Tx, job.r - 1, w) + (IF Tx.receipts[job.r - 1 + 1].worker = w THEN 1 ELSE 0)
    BY <1>5, <2>1
  <2> QED
    BY <1>5, <2>2, <2>3
<1>7. Counts(repRows', w) = Counts(repRows, w) + one
  BY ReceiptCounts
<1> HIDE DEF a, b, g, one
<1>8. Counts(repRows', w) >= a + b + GivenUpTo(Tx, job.r, w)
  BY <1>2, <1>3, <1>6, <1>7
<1>9. CASE job.r < Len(Tx.receipts)
  <2>1. job' = [job EXCEPT !.r = @ + 1]
    BY <1>9 DEF ApplySettlementReceipt
  <2>2. job'.pc = "rows" /\ job'.at = job.at /\ job'.i = job.i /\ job'.from = job.from /\ job'.r = job.r + 1
    BY <1>0, <2>1 DEF IndexType, IsRound
  <2>3. Through' = job.i - 1 /\ Base' = Base /\ Tx' = Tx
    BY <1>0, <2>2 DEF Through, Base, Tx
  <2>4. HandedOver(w)' = GivenUpTo(Tx, job.r, w)
    BY <1>4, <2>2, <2>3 DEF HandedOver
  <2>5. Behind(w)' = a + b + GivenUpTo(Tx, job.r, w)
    BY <1>0, <2>2, <2>3, <2>4 DEF Behind, a, b
  <2> QED
    BY <1>8, <2>5
<1>10. CASE ~(job.r < Len(Tx.receipts))
  <2>1. job' = Onward /\ job.r = Len(Tx.receipts)
    BY <1>4, <1>10 DEF ApplySettlementReceipt
  <2>2. /\ DueUpTo(job.at, job.i, w, skipped) = b + Due(Tx, w, skipped)
        /\ Due(Tx, w, skipped) \in Nat /\ Due(Tx, w, skipped) <= GivenUpTo(Tx, job.r, w)
    BY <1>0, <1>4, <2>1, InHandDue DEF b
  <2>3. GivenUpTo(Tx, job.r, w) \in Nat /\ Counts(repRows', w) \in Nat
    BY <1>3, <1>6, <1>7
  <2>4. Counts(repRows', w) >= a + (b + Due(Tx, w, skipped))
    BY <1>2, <1>8, <2>2, <2>3
  <2>5. Counts(repRows', w) >= DueIn(Base, job.at - 1, w, skipped') + DueUpTo(job.at, job.i, w, skipped')
    BY <1>0, <2>2, <2>4 DEF a
  <2> QED
    BY <1>0, <2>1, <2>5, OnwardCounts
<1> QED
  BY <1>9, <1>10

\* The rows keep up with the round.
LEMMA RoundCountsKeep ==
  ASSUME IndexType, RoundInv, RangeInv, RoundCounts, RangeCounts, IndexerNext
  PROVE  RoundCounts'
<1> SUFFICES ASSUME job'.pc # "idle", NEW w PROVE Counts(repRows', w) >= Behind(w)'
  BY DEF RoundCounts
<1>1. CASE Grow \/ ReadNext
  <2>1. UNCHANGED <<job, repRows, skipped, lastIndexed, indexedFrom>>
    BY <1>1 DEF Grow, ReadNext, StatusLast, StatusCounts, OpenPages, NextPage, LeavePages, tables
  <2>2. Behind(w)' = Behind(w)
    BY <2>1 DEF Behind, Base, Through, HandedOver, Tx
  <2> QED
    BY <2>1, <2>2 DEF RoundCounts
<1>2. CASE SyncStart
  <2>1. PICK start \in {IF lastIndexed = 0 THEN Minus(chainHead, CatchupBlocks) ELSE lastIndexed + 1} :
          start <= chainHead /\ job' = Round("block", start, start, 0, chainHead)
    BY <1>2 DEF SyncStart
  <2>2. start \in Nat /\ chainHead \in Nat /\ (lastIndexed > 0 => start = lastIndexed + 1) /\ start \in DOMAIN Chain
        /\ lastIndexed \in Nat /\ indexedFrom \in Nat
    BY <2>1, ChainIs, IndexerAssumption DEF IndexType, Minus
  <2>3. UNCHANGED <<repRows, skipped, lastIndexed, indexedFrom>>
    BY <1>2 DEF SyncStart, tables
  <2>4. job'.pc = "block" /\ job'.at = start /\ job'.from = start /\ job'.i = 0
    BY <2>1 DEF Round
  <2>5. Through' = 0 /\ HandedOver(w)' = 0 /\ Base' = IF lastIndexed = 0 THEN start ELSE indexedFrom
    BY <2>3, <2>4 DEF Through, HandedOver, Base
  <2>6. DueUpTo(start, 0, w, skipped) = 0
    BY <2>2, DueUpToIs
  <2>7. Behind(w)' = DueIn(Base', start - 1, w, skipped) + 0 + 0
    BY <2>3, <2>4, <2>5, <2>6 DEF Behind
  <2>8. Counts(repRows, w) \in Nat
    BY CountsAre
  <2>9. CASE lastIndexed = 0
    <3>1. DueIn(start, start - 1, w, skipped) = 0
      <4> DEFINE hi == start - 1
      <4>1. hi \in Int /\ hi < start /\ start .. hi \subseteq DOMAIN Chain
        BY <2>2
      <4> HIDE DEF hi
      <4>2. DueIn(start, hi, w, skipped) = 0
        BY <2>2, <4>1, DueInIs
      <4> QED
        BY <4>2 DEF hi
    <3> QED
      BY <2>3, <2>5, <2>7, <2>8, <2>9, <3>1
  <2>10. CASE lastIndexed > 0
    <3>1. start - 1 = lastIndexed /\ Base' = indexedFrom
      BY <2>2, <2>5, <2>10
    <3>2. Counts(repRows, w) >= DueIn(indexedFrom, lastIndexed, w, skipped)
      BY <2>10 DEF RangeCounts
    <3>3. DueIn(indexedFrom, lastIndexed, w, skipped) \in Nat
      <4>1. indexedFrom .. lastIndexed \subseteq DOMAIN Chain
        BY <2>2, ChainIs DEF IndexType
      <4> QED
        BY <2>2, <4>1, DueInIs
    <3> QED
      BY <2>3, <2>7, <2>8, <3>1, <3>2, <3>3
  <2> QED
    BY <2>2, <2>9, <2>10
<1>3. CASE SyncBlock
  <2>1. job.pc = "block" /\ job' = Onward /\ UNCHANGED <<repRows, skipped, lastIndexed, indexedFrom>>
    BY <1>3 DEF SyncBlock
  <2>2. Through = job.i /\ HandedOver(w) = 0
    BY <2>1 DEF Through, HandedOver
  <2>3. DueIn(Base, job.at - 1, w, skipped) \in Nat /\ DueUpTo(job.at, job.i, w, skipped) \in Nat
    BY <2>1, <2>2, BehindShrinks
  <2>4. Counts(repRows, w) >= DueIn(Base, job.at - 1, w, skipped) + DueUpTo(job.at, job.i, w, skipped) + 0
    BY <2>1, <2>2 DEF RoundCounts, Behind
  <2>5. Counts(repRows', w) >= DueIn(Base, job.at - 1, w, skipped') + DueUpTo(job.at, job.i, w, skipped')
    BY <2>1, <2>3, <2>4
  <2> QED
    BY <2>1, <2>5, OnwardCounts
<1>4. CASE SkipTx
  <2>1. job.pc = "tx" /\ job' = Onward /\ skipped' = skipped \cup {Tx.id} /\ UNCHANGED <<lastIndexed, indexedFrom>>
    BY <1>4 DEF SkipTx, tables
  <2>2. Due(Tx, w, skipped') = 0
    BY <2>1 DEF Due
  <2> QED
    BY <2>1, <2>2, OnwardFree
<1>5. CASE IngestTx
  <2>1. job.pc = "tx" /\ UNCHANGED <<lastIndexed, indexedFrom>>
    BY <1>5 DEF IngestTx
  <2>2. CASE Tx.kind = "transfer"
    <3>1. job' = Onward
      BY <1>5, <2>2 DEF IngestTx
    <3>2. Due(Tx, w, skipped') = 0
      BY <2>1, <2>2, InHandDue DEF Due
    <3> QED
      BY <2>1, <3>1, <3>2, OnwardFree
  <2>3. CASE Tx.kind # "transfer"
    <3>1. /\ job'.at = job.at /\ job'.i = job.i /\ job'.from = job.from /\ job'.pc \in {"life", "mirror"}
      BY <1>5, <2>3 DEF IngestTx, IndexType, IsRound
    <3>2. Through' = Through /\ HandedOver(w)' = 0
      BY <2>1, <3>1 DEF Through, HandedOver
    <3> QED
      BY <2>1, <3>1, <3>2, PlaceCounts
  <2> QED
    BY <2>2, <2>3
<1>6. CASE IngestLife
  <2>1. job.pc = "life" /\ UNCHANGED <<lastIndexed, indexedFrom>> /\ job' = [job EXCEPT !.pc = "mirror"]
    BY <1>6 DEF IngestLife
  <2>2. job'.at = job.at /\ job'.i = job.i /\ job'.from = job.from /\ job'.pc = "mirror"
    BY <2>1 DEF IndexType, IsRound
  <2>3. Through' = Through /\ HandedOver(w)' = 0
    BY <2>1, <2>2 DEF Through, HandedOver
  <2> QED
    BY <2>1, <2>2, <2>3, PlaceCounts
<1>7. CASE ApplyMirror
  <2>1. job.pc = "mirror" /\ UNCHANGED <<lastIndexed, indexedFrom>>
    BY <1>7 DEF ApplyMirror
  <2>2. CASE Tx.kind = "settle" /\ Tx.receipts # <<>>
    <3>0. SlashTarget(mirror', Tx) = 0
      BY <2>2 DEF SlashTarget
    <3>1. job' = [job EXCEPT !.pc = "rows", !.r = 1]
      BY <1>7, <2>2, <3>0 DEF ApplyMirror
    <3>2. job'.at = job.at /\ job'.i = job.i /\ job'.from = job.from /\ job'.pc = "rows" /\ job'.r = 1
      BY <3>1 DEF IndexType, IsRound
    <3>3. Through' = Through
      BY <2>1, <3>2 DEF Through
    <3>4. HandedOver(w)' = GivenUpTo(Tx', 0, w)
      BY <3>2 DEF HandedOver
    <3>5. HandedOver(w)' = 0
      BY <3>4, GivenIs
    <3> QED
      BY <2>1, <3>2, <3>3, <3>5, PlaceCounts
  <2>3. CASE ~(Tx.kind = "settle" /\ Tx.receipts # <<>>) /\ SlashTarget(mirror', Tx) # 0
    <3>1. job' = [job EXCEPT !.pc = "slash", !.slash = SlashTarget(mirror', Tx)]
      BY <1>7, <2>3 DEF ApplyMirror
    <3>2. job'.at = job.at /\ job'.i = job.i /\ job'.from = job.from /\ job'.pc = "slash"
      BY <3>1 DEF IndexType, IsRound
    <3>3. Through' = Through /\ HandedOver(w)' = 0
      BY <2>1, <3>2 DEF Through, HandedOver
    <3> QED
      BY <2>1, <3>2, <3>3, PlaceCounts
  <2>4. CASE ~(Tx.kind = "settle" /\ Tx.receipts # <<>>) /\ SlashTarget(mirror', Tx) = 0
    <3>1. job' = Onward
      BY <1>7, <2>4 DEF ApplyMirror
    <3>2. Receipts(Tx, w) = 0
      BY <2>1, <2>4, InHandDue
    <3>3. Due(Tx, w, skipped') = 0
      BY <3>2 DEF Due
    <3> QED
      BY <2>1, <3>1, <3>3, OnwardFree
  <2> QED
    BY <2>2, <2>3, <2>4
<1>8. CASE ApplySettlementReceipt
  BY <1>8, ReceiptKeeps
<1>9. CASE ApplyDisputeSlash
  <2>1. job.pc = "slash" /\ job' = Onward /\ UNCHANGED <<lastIndexed, indexedFrom>>
    BY <1>9 DEF ApplyDisputeSlash
  <2>2. Tx.kind = "resolve"
    BY <2>1 DEF RoundInv
  <2>3. Receipts(Tx, w) = 0
    BY <2>1, <2>2, InHandDue
  <2>4. Due(Tx, w, skipped') = 0
    BY <2>3 DEF Due
  <2> QED
    BY <2>1, <2>4, OnwardFree
<1>10. CASE SyncDone \/ Stop
  BY <1>10 DEF SyncDone, Stop, Resting, Round
<1> QED
  BY <1>1, <1>2, <1>3, <1>4, <1>5, <1>6, <1>7, <1>8, <1>9, <1>10 DEF IndexerNext, SyncNext

\* And with what is marked as indexed.
LEMMA RangeCountsKeep ==
  ASSUME IndexType, RoundInv, RangeInv, RoundCounts, RangeCounts, IndexerNext
  PROVE  RangeCounts'
<1> SUFFICES ASSUME lastIndexed' > 0, NEW w PROVE Counts(repRows', w) >= DueIn(indexedFrom', lastIndexed', w, skipped')
  BY DEF RangeCounts
<1>0. Counts(repRows, w) \in Nat /\ Counts(repRows', w) \in Nat /\ Counts(repRows', w) >= Counts(repRows, w)
  BY CountsAre, CountsRise
<1>1. CASE UNCHANGED <<lastIndexed, indexedFrom>>
  <2>1. lastIndexed \in Nat /\ indexedFrom \in Nat /\ lastIndexed > 0 /\ indexedFrom .. lastIndexed \subseteq DOMAIN Chain
    BY <1>1, ChainIs DEF IndexType
  <2>2. ASSUME NEW n \in indexedFrom .. lastIndexed, NEW i \in DOMAIN Chain[n], Chain[n][i].id \in skipped
        PROVE  Chain[n][i].id \in skipped'
    <3>1. n \in DOMAIN Chain
      BY <2>1
    <3>2. job.pc = "tx" => n # job.at
      BY <2>1 DEF RoundInv, IndexType, IsRound
    <3> QED
      BY <2>2, <3>1, <3>2, PassedStay
  <2>3. DueIn(indexedFrom, lastIndexed, w, skipped') <= DueIn(indexedFrom, lastIndexed, w, skipped)
    BY <2>1, <2>2, DueInShrinks
  <2>4. DueIn(indexedFrom, lastIndexed, w, skipped') \in Nat /\ DueIn(indexedFrom, lastIndexed, w, skipped) \in Nat
    BY <2>1, DueInIs
  <2>5. Counts(repRows, w) >= DueIn(indexedFrom, lastIndexed, w, skipped)
    BY <2>1 DEF RangeCounts
  <2> QED
    BY <1>0, <1>1, <2>3, <2>4, <2>5
<1>2. CASE /\ SyncDone /\ job.pc = "done" /\ lastIndexed' = job.hi
           /\ indexedFrom' = IF lastIndexed = 0 THEN job.from ELSE indexedFrom
  <2>1. repRows' = repRows /\ skipped' = skipped
    BY <1>2 DEF SyncDone
  <2>2. job.at = job.hi /\ job.i = Len(Chain[job.at]) /\ indexedFrom' = Base /\ Through = job.i /\ HandedOver(w) = 0
    BY <1>2 DEF RoundInv, Base, Through, HandedOver
  <2>3. /\ Base \in Nat /\ job.at - 1 \in Int /\ Base <= job.at /\ Base .. job.at - 1 \subseteq DOMAIN Chain
        /\ job.at \in DOMAIN Chain /\ job.at \in Nat
    BY <1>2, BaseIs, InHand
  <2>4. DueUpTo(job.at, job.i, w, skipped) = DueAt(job.at, w, skipped) /\ DueAt(job.at, w, skipped) \in Nat
    BY <2>2, <2>3, DueUpToIs
  <2>5. DueIn(Base, job.at, w, skipped) = DueIn(Base, job.at - 1, w, skipped) + DueAt(job.at, w, skipped)
        /\ DueIn(Base, job.at - 1, w, skipped) \in Nat
    <3> DEFINE hi == job.at - 1
    <3>1. hi \in Int /\ Base .. hi \subseteq DOMAIN Chain /\ Base <= hi + 1 /\ hi + 1 \in DOMAIN Chain /\ hi + 1 = job.at
      BY <2>3
    <3> HIDE DEF hi
    <3>2. DueIn(Base, hi + 1, w, skipped) = DueIn(Base, hi, w, skipped) + DueAt(hi + 1, w, skipped) /\ DueIn(Base, hi, w, skipped) \in Nat
      BY <2>3, <3>1, DueInIs
    <3> QED
      BY <3>1, <3>2 DEF hi
  <2>6. Counts(repRows, w) >= DueIn(Base, job.at - 1, w, skipped) + DueUpTo(job.at, job.i, w, skipped) + 0
    BY <1>2, <2>2 DEF RoundCounts, Behind
  <2>7. Counts(repRows, w) >= DueIn(Base, job.at, w, skipped)
    BY <1>0, <2>4, <2>5, <2>6
  <2> QED
    BY <1>2, <2>1, <2>2, <2>7
<1> QED
  BY <1>1, <1>2, RangeMoves

\* The tables and the client keep their types.
LEMMA IndexTypeKeeps ==
  ASSUME IndexType, RoundInv, IndexerNext
  PROVE  IndexType'
<1>0. IsRound(job') /\ RoundInv'
  BY RoundKeeps
<1>1. chainHead' \in DOMAIN Chain /\ chainHead <= chainHead' /\ chainHead \in Nat /\ chainHead' \in Nat
  <2>1. chainHead \in Nat /\ DOMAIN Chain \subseteq Nat
    BY ChainIs DEF IndexType
  <2>2. chainHead' = chainHead \/ (chainHead + 1 \in DOMAIN Chain /\ chainHead' = chainHead + 1)
    BY DEF IndexerNext, SyncNext, Grow, SyncStart, SyncBlock, SkipTx, IngestTx, IngestLife, ApplyMirror,
         ApplySettlementReceipt, ApplyDisputeSlash, SyncDone, Stop, ReadNext, StatusLast, StatusCounts, OpenPages,
         NextPage, LeavePages
  <2> QED
    BY <2>1, <2>2 DEF IndexType
<1>2. lastIndexed' \in Nat /\ lastIndexed' <= chainHead' /\ indexedFrom' \in Nat
  BY <1>1, RangeMoves DEF IndexType, RoundInv, IsRound
<1>3. DOMAIN blockRows' \subseteq 0 .. chainHead'
  <2>1. blockRows' = blockRows \/ (job.pc = "block" /\ blockRows' = Put(blockRows, job.at, Len(Chain[job.at])))
    BY DEF IndexerNext, SyncNext, Grow, SyncStart, SyncBlock, SkipTx, IngestTx, IngestLife, ApplyMirror,
         ApplySettlementReceipt, ApplyDisputeSlash, SyncDone, Stop, ReadNext, StatusLast, StatusCounts, OpenPages,
         NextPage, LeavePages, tables
  <2>2. CASE blockRows' = blockRows
    BY <1>1, <2>2 DEF IndexType
  <2>3. CASE job.pc = "block" /\ blockRows' = Put(blockRows, job.at, Len(Chain[job.at]))
    <3>1. job.at \in 0 .. chainHead
      BY <1>1, <2>3 DEF RoundInv, IndexType, IsRound
    <3>2. DOMAIN blockRows' = DOMAIN blockRows \cup {job.at}
      BY <2>3 DEF Put
    <3> QED
      BY <1>1, <3>1, <3>2 DEF IndexType
  <2> QED
    BY <2>1, <2>2, <2>3
<1>4. IsFiniteSet(DOMAIN txRows')
  <2>1. txRows' = txRows \/ txRows' = Put(txRows, Tx.id, <<job.at, job.i>>)
    BY DEF IndexerNext, SyncNext, Grow, SyncStart, SyncBlock, SkipTx, IngestTx, IngestLife, ApplyMirror,
         ApplySettlementReceipt, ApplyDisputeSlash, SyncDone, Stop, ReadNext, StatusLast, StatusCounts, OpenPages,
         NextPage, LeavePages, tables
  <2>2. CASE txRows' = Put(txRows, Tx.id, <<job.at, job.i>>)
    <3>1. DOMAIN txRows' = DOMAIN txRows \cup {Tx.id}
      BY <2>2 DEF Put
    <3> QED
      BY <3>1, FS_AddElement DEF IndexType
  <2> QED
    BY <2>1, <2>2 DEF IndexType
<1>5. \A w \in DOMAIN repRows' : IsRow(repRows'[w])
  <2>1. \/ repRows' = repRows
        \/ \E k, new : IsRow(new) /\ repRows' = Put(repRows, k, new)
    <3>1. CASE ApplySettlementReceipt
      <4>1. PICK x : repRows' = Put(repRows, x.worker, Merged(Get(repRows, x.worker, NoRow), x, StakeOf(mirror, x.worker)))
        BY <3>1 DEF ApplySettlementReceipt
      <4>2. IsRow(Merged(Get(repRows, x.worker, NoRow), x, StakeOf(mirror, x.worker)))
        BY RowIs, MergedIs
      <4> QED
        BY <4>1, <4>2
    <3>2. CASE ApplyDisputeSlash
      <4>1. repRows' = Put(repRows, job.slash, SlashMerged(Get(repRows, job.slash, NoRow), StakeOf(mirror, job.slash)))
        BY <3>2 DEF ApplyDisputeSlash
      <4>2. IsRow(SlashMerged(Get(repRows, job.slash, NoRow), StakeOf(mirror, job.slash)))
        BY RowIs, SlashedIs
      <4> QED
        BY <4>1, <4>2
    <3>3. CASE ~(ApplySettlementReceipt \/ ApplyDisputeSlash)
      BY <3>3 DEF IndexerNext, SyncNext, Grow, SyncStart, SyncBlock, SkipTx, IngestTx, IngestLife, ApplyMirror,
           SyncDone, Stop, ReadNext, StatusLast, StatusCounts, OpenPages, NextPage, LeavePages, tables
    <3> QED
      BY <3>1, <3>2, <3>3
  <2> QED
    BY <2>1 DEF IndexType, Put
<1>6. IsReader(reader')
  <2>0. IsReader(reader) /\ lastIndexed \in Nat /\ Cardinality(DOMAIN txRows) \in Nat /\ DOMAIN blockRows \subseteq Nat
    BY FS_CardinalityType, RowsFinite DEF IndexType
  <2>1. CASE StatusLast
    <3>1. reader' = [reader EXCEPT !.pc = "status", !.last = lastIndexed]
      BY <2>1 DEF StatusLast
    <3> QED
      BY <2>0, <3>1 DEF IsReader
  <2>2. CASE StatusCounts
    <3>1. reader' = [reader EXCEPT !.pc = "answered", !.count = Cardinality(DOMAIN txRows)]
      BY <2>2 DEF StatusCounts
    <3> QED
      BY <2>0, <3>1 DEF IsReader
  <2>3. CASE OpenPages
    <3>1. reader' = [Away EXCEPT !.pc = "paging", !.due = DOMAIN blockRows]
      BY <2>3 DEF OpenPages
    <3>2. reader' = [pc |-> "paging", last |-> 0, count |-> 0, due |-> DOMAIN blockRows, seen |-> {}]
      BY <3>1 DEF Away
    <3> QED
      BY <2>0, <3>2 DEF IsReader
  <2>4. CASE NextPage
    <3> DEFINE rows == Page(IndexPageLimit, reader.count)
    <3>1. reader' = IF rows = {} THEN [reader EXCEPT !.pc = "ended"]
                    ELSE [reader EXCEPT !.seen = @ \cup rows, !.count = @ + IndexPageLimit]
      BY <2>4 DEF NextPage
    <3>2. rows \subseteq Nat
      BY <2>0 DEF Page
    <3>3. IndexPageLimit \in Nat
      BY IndexerAssumption
    <3> HIDE DEF rows
    <3>4. CASE rows = {}
      BY <2>0, <3>1, <3>4 DEF IsReader
    <3>5. CASE rows # {}
      <4> DEFINE turned == [reader EXCEPT !.seen = @ \cup rows]
      <4>1. IsReader(turned)
        BY <2>0, <3>2 DEF IsReader
      <4>2. turned.count = reader.count
        BY <2>0 DEF IsReader
      <4>3. reader' = [turned EXCEPT !.count = @ + IndexPageLimit]
        BY <3>1, <3>5, <4>2
      <4> HIDE DEF turned
      <4> QED
        BY <3>3, <4>1, <4>3 DEF IsReader
    <3> QED
      BY <3>4, <3>5
  <2>5. CASE LeavePages
    BY <2>5 DEF LeavePages, Away, IsReader
  <2>6. CASE SyncNext
    BY <2>0, <2>6 DEF SyncNext, Grow, SyncStart, SyncBlock, SkipTx, IngestTx, IngestLife, ApplyMirror,
         ApplySettlementReceipt, ApplyDisputeSlash, SyncDone, Stop
  <2> QED
    BY <2>1, <2>2, <2>3, <2>4, <2>5, <2>6 DEF IndexerNext, ReadNext
<1> QED
  BY <1>0, <1>1, <1>2, <1>3, <1>4, <1>5, <1>6 DEF IndexType

\* The inductive invariant of the indexer.
IndexerInv ==
  IndexType /\ RoundInv /\ ProgressInv /\ RangeInv /\ StatusInv /\ PagesInv /\ RoundCounts /\ RangeCounts

\* It holds at first.
LEMMA IndexerStart == IndexerInit => IndexerInv
<1> SUFFICES ASSUME IndexerInit PROVE IndexerInv
  OBVIOUS
<1>1. chainHead = 0 /\ lastIndexed = 0 /\ indexedFrom = 0 /\ job.pc = "idle" /\ reader.pc = "away"
  BY DEF IndexerInit, Resting, Round, Away
<1>2. DOMAIN blockRows = {} /\ DOMAIN txRows = {} /\ DOMAIN repRows = {}
  BY DEF IndexerInit, Empty
<1>3. IsRound(job) /\ IsReader(reader)
  BY DEF IndexerInit, Resting, Round, Away, IsRound, IsReader
<1>4. IsFiniteSet(DOMAIN txRows)
  BY <1>2, FS_EmptySet
<1>5. IndexType
  BY <1>1, <1>2, <1>3, <1>4, IndexerAssumption DEF IndexType
<1> QED
  BY <1>1, <1>5 DEF IndexerInv, RoundInv, ProgressInv, RangeInv, StatusInv, PagesInv, RoundCounts, RangeCounts

\* And every step keeps it.
LEMMA IndexerKeeps == IndexerInv /\ [IndexerNext]_indexerVars => IndexerInv'
<1> SUFFICES ASSUME IndexerInv, [IndexerNext]_indexerVars PROVE IndexerInv'
  OBVIOUS
<1>1. CASE IndexerNext
  <2>1. IndexType' /\ RoundInv'
    BY <1>1, IndexTypeKeeps, RoundKeeps DEF IndexerInv
  <2> QED
    BY <1>1, <2>1, ProgressKeeps, RangeKeeps, StatusKeeps, PagesKeep, RoundCountsKeep, RangeCountsKeep DEF IndexerInv
<1>2. CASE UNCHANGED indexerVars
  BY <1>2 DEF indexerVars, IndexerInv, IndexType, RoundInv, ProgressInv, RangeInv, StatusInv, PagesInv, RoundCounts, RangeCounts,
              Behind, Base, Through, HandedOver, Tx
<1> QED
  BY <1>1, <1>2

\* Whatever the chain holds and wherever the thread stops, fails to fetch or
\* begins again, the indexed range has every row at its place, no receipt is
\* left out of the counters, a status never runs ahead of the tables, and a
\* client that pages through the blocks misses none that was there
\* (sync.rs sync_to_head, ingest_tx; db.rs; explorer handlers).
THEOREM IndexIsSafe == IndexerSpec => []IndexerSafe
<1>1. IndexerInv => IndexerSafe
  <2> SUFFICES ASSUME IndexerInv PROVE IndexerSafe
    OBVIOUS
  <2>1. IndexedRangeComplete
    BY DEF IndexerInv, RangeInv, HeightDone, BlockDone, TxDone, IndexedRangeComplete
  <2>2. ReceiptsCounted
    <3>1. lastIndexed > 0 => \A w \in Workers : Counts(repRows, w) >= DueIn(indexedFrom, lastIndexed, w, skipped)
      BY DEF IndexerInv, RangeCounts
    <3> QED
      BY <3>1 DEF Counts, ReceiptsCounted
  <2>3. StatusCovered
    <3>1. reader.pc = "answered" /\ reader.last > 0 => reader.count >= Cardinality(Claimed(indexedFrom, reader.last, skipped))
      BY DEF IndexerInv, StatusInv
    <3> QED
      BY <3>1 DEF StatusCovered, Claimed
  <2>4. PagesMissNothing
    BY DEF IndexerInv, PagesInv, PagesMissNothing
  <2> QED
    BY <2>1, <2>2, <2>3, <2>4 DEF IndexerSafe
<1> QED
  BY <1>1, IndexerStart, IndexerKeeps, PTL DEF IndexerSpec

-----------------------------------------------------------------------------
(* Publication. *)
\* A sequence, of whatever elements.
IsTuple(s) == Len(s) \in Nat /\ s = [i \in 1 .. Len(s) |-> s[i]]

\* A tuple is a sequence over its elements and those of any larger set.
LEMMA TupleSeq ==
  ASSUME NEW s, IsTuple(s), NEW S, \A i \in 1 .. Len(s) : s[i] \in S
  PROVE  s \in Seq(S)
BY DEF IsTuple

\* And the other way round.
LEMMA SeqTuple == ASSUME NEW S, NEW s \in Seq(S) PROVE IsTuple(s)
BY DEF IsTuple

\* A function on the first n numbers is a tuple of length n.
LEMMA FunctionTuple ==
  ASSUME NEW n \in Nat, NEW f, f = [i \in 1 .. n |-> f[i]]
  PROVE  IsTuple(f) /\ Len(f) = n
<1>1. f \in Seq({f[i] : i \in 1 .. n}) /\ Len(f) = n
  OBVIOUS
<1> QED
  BY <1>1, SeqTuple

\* One element more.
LEMMA TupleAppend ==
  ASSUME NEW s, IsTuple(s), NEW x
  PROVE  /\ IsTuple(Append(s, x)) /\ Len(Append(s, x)) = Len(s) + 1
         /\ Append(s, x)[Len(s) + 1] = x
         /\ \A i \in 1 .. Len(s) : Append(s, x)[i] = s[i]
<1> DEFINE S == {s[i] : i \in 1 .. Len(s)} \cup {x}
<1>1. s \in Seq(S) /\ x \in S
  BY TupleSeq
<1> HIDE DEF S
<1>2. Append(s, x) \in Seq(S)
  BY <1>1
<1>3. IsTuple(Append(s, x))
  BY <1>2, SeqTuple
<1> QED
  BY <1>1, <1>3, AppendProperties

\* u is s with t after it.
IsConcat(u, s, t) ==
  /\ IsTuple(u) /\ Len(u) = Len(s) + Len(t)
  /\ \A i \in 1 .. Len(s) : u[i] = s[i]
  /\ \A i \in 1 .. Len(t) : u[Len(s) + i] = t[i]

\* One tuple after another.
LEMMA TupleConcat == ASSUME NEW s, NEW t, IsTuple(s), IsTuple(t) PROVE IsConcat(s \o t, s, t)
<1> DEFINE S == {s[i] : i \in 1 .. Len(s)} \cup {t[i] : i \in 1 .. Len(t)}
<1>1. s \in Seq(S) /\ t \in Seq(S)
  BY TupleSeq
<1> HIDE DEF S
<1>2. s \o t \in Seq(S) /\ Len(s \o t) = Len(s) + Len(t)
  BY <1>1, ConcatProperties
<1>3. IsTuple(s \o t)
  BY <1>2, SeqTuple
<1>4. \A i \in 1 .. Len(s) + Len(t) : (s \o t)[i] = IF i <= Len(s) THEN s[i] ELSE t[i - Len(s)]
  BY <1>1, ConcatProperties
<1>5. Len(s) \in Nat /\ Len(t) \in Nat
  BY DEF IsTuple
<1>6. ASSUME NEW i \in 1 .. Len(t) PROVE (s \o t)[Len(s) + i] = t[i]
  <2>1. Len(s) + i \in 1 .. Len(s) + Len(t) /\ ~(Len(s) + i <= Len(s)) /\ (Len(s) + i) - Len(s) = i
    BY <1>5
  <2> QED
    BY <1>4, <2>1
<1> QED
  BY <1>2, <1>3, <1>4, <1>5, <1>6 DEF IsConcat

\* u is s with the pair t after it.
IsPaired(u, s, t, n) ==
  /\ IsTuple(u) /\ Len(u) = n + 2 /\ u[n + 1] = t[1] /\ u[n + 2] = t[2]
  /\ \A i \in 1 .. n : u[i] = s[i]

\* Two elements more.
LEMMA TuplePair ==
  ASSUME NEW s, NEW t, IsTuple(s), IsTuple(t), NEW n \in Nat, Len(s) = n, Len(t) = 2
  PROVE  IsPaired(s \o t, s, t, n)
<1> DEFINE u == s \o t
<1>1. IsConcat(u, s, t)
  BY TupleConcat
<1> HIDE DEF u
<1>2. IsTuple(u) /\ Len(u) = n + 2 /\ \A i \in 1 .. n : u[i] = s[i]
  BY <1>1 DEF IsConcat
<1>3. \A i \in 1 .. 2 : u[n + i] = t[i]
  BY <1>1 DEF IsConcat
<1>4. u[n + 1] = t[1] /\ u[n + 2] = t[2]
  BY <1>3
<1> QED
  BY <1>2, <1>4 DEF IsPaired, u

-----------------------------------------------------------------------------
\* A call that a user may make.
IsJob(work) == work \in Jobs

\* The chain is told of a run or of a paper only if it is to be.
Shift(work) == IF work.anchored THEN 1 ELSE 0

\* The four effects of a package.
LEMMA PackageEffects ==
  ASSUME NEW work, IsJob(work), work.op = "package"
  PROVE  /\ IsTuple(EffectsOf(work)) /\ Len(EffectsOf(work)) = 4
         /\ EffectsOf(work)[1] = Effect("put", Payload(work.of), Nowhere)
         /\ EffectsOf(work)[2] = Effect("put", PackageManifest(work), Nowhere)
         /\ EffectsOf(work)[3] = Effect("event", Payload(work.of), PackageManifest(work))
         /\ EffectsOf(work)[4] = Effect("submit", Payload(work.of), Nowhere)
<1>1. EffectsOf(work) = CommitResearchPackage(work)
  BY DEF EffectsOf
<1>2. IsTuple(CommitResearchPackage(work))
  BY DEF CommitResearchPackage, IsTuple
<1> QED
  BY <1>1, <1>2 DEF CommitResearchPackage

\* A document is stored, then logged.
LEMMA PersistIs ==
  ASSUME NEW doc
  PROVE  /\ IsTuple(Persist(doc)) /\ Len(Persist(doc)) = 2
         /\ Persist(doc)[1] = Effect("put", doc, Nowhere) /\ Persist(doc)[2] = Effect("event", doc, doc)
BY DEF Persist, IsTuple

\* The documents of a run, in the order they are stored.
RunDoc(work, k) ==
  CASE k = 1 -> Plain("evidence", work.of) [] k = 2 -> Plain("scorecard", work.of)
    [] k = 3 -> ProofManifest(work, work.anchored) [] k = 4 -> Bundle(work)

\* The effects of a run: the hash to the chain, if at all, and its documents.
LEMMA RunEffects ==
  ASSUME NEW work, IsJob(work), work.op = "run"
  PROVE  /\ IsTuple(EffectsOf(work)) /\ Len(EffectsOf(work)) = Shift(work) + 8
         /\ work.anchored => EffectsOf(work)[1] = Effect("submit", ProofManifest(work, FALSE), Nowhere)
         /\ \A k \in 1 .. 4 :
              /\ EffectsOf(work)[Shift(work) + 2 * k - 1] = Effect("put", RunDoc(work, k), Nowhere)
              /\ EffectsOf(work)[Shift(work) + 2 * k] = Effect("event", RunDoc(work, k), RunDoc(work, k))
<1> DEFINE s == AnchorRun(work)
           a == Persist(Plain("evidence", work.of))
           b == Persist(Plain("scorecard", work.of))
           c == Persist(ProofManifest(work, work.anchored))
           d == Persist(Bundle(work))
<1>1. EffectsOf(work) = s \o a \o b \o c \o d
  BY DEF EffectsOf, PersistPipelineResult
<1>2. IsTuple(s) /\ Len(s) = Shift(work) /\ Shift(work) \in Nat
      /\ (work.anchored => s[1] = Effect("submit", ProofManifest(work, FALSE), Nowhere) /\ Shift(work) = 1)
  <2>1. work.anchored \in BOOLEAN
    BY DEF IsJob, Jobs
  <2>2. CASE work.anchored
    BY <2>2 DEF AnchorRun, IsTuple, Shift
  <2>3. CASE ~work.anchored
    BY <2>3 DEF AnchorRun, IsTuple, Shift
  <2> QED
    BY <2>1, <2>2, <2>3
<1>3. /\ IsTuple(a) /\ Len(a) = 2 /\ a[1] = Effect("put", RunDoc(work, 1), Nowhere)
      /\ a[2] = Effect("event", RunDoc(work, 1), RunDoc(work, 1))
  BY PersistIs DEF RunDoc
<1>4. /\ IsTuple(b) /\ Len(b) = 2 /\ b[1] = Effect("put", RunDoc(work, 2), Nowhere)
      /\ b[2] = Effect("event", RunDoc(work, 2), RunDoc(work, 2))
  BY PersistIs DEF RunDoc
<1>5. /\ IsTuple(c) /\ Len(c) = 2 /\ c[1] = Effect("put", RunDoc(work, 3), Nowhere)
      /\ c[2] = Effect("event", RunDoc(work, 3), RunDoc(work, 3))
  BY PersistIs DEF RunDoc
<1>6. /\ IsTuple(d) /\ Len(d) = 2 /\ d[1] = Effect("put", RunDoc(work, 4), Nowhere)
      /\ d[2] = Effect("event", RunDoc(work, 4), RunDoc(work, 4))
  BY PersistIs DEF RunDoc
<1> HIDE DEF s, a, b, c, d
<1> DEFINE sa == s \o a
           sb == sa \o b
           sc == sb \o c
           sd == sc \o d
           m == Shift(work)
<1>0. m \in Nat /\ m = Shift(work)
  BY <1>2
<1> HIDE DEF m
<1>7. IsPaired(sa, s, a, m)
  <2>1. Len(s) = m
    BY <1>0, <1>2
  <2> QED
    BY <1>0, <1>2, <1>3, <2>1, TuplePair
<1> HIDE DEF sa
<1>8. IsPaired(sb, sa, b, m + 2)
  <2>1. m + 2 \in Nat /\ Len(sa) = m + 2 /\ IsTuple(sa)
    BY <1>0, <1>7 DEF IsPaired
  <2> QED
    BY <2>1, <1>4, TuplePair
<1> HIDE DEF sb
<1>9. IsPaired(sc, sb, c, m + 4)
  <2>1. m + 4 \in Nat /\ Len(sb) = m + 4 /\ IsTuple(sb)
    BY <1>0, <1>8 DEF IsPaired
  <2> QED
    BY <2>1, <1>5, TuplePair
<1> HIDE DEF sc
<1>10. IsPaired(sd, sc, d, m + 6)
  <2>1. m + 6 \in Nat /\ Len(sc) = m + 6 /\ IsTuple(sc)
    BY <1>0, <1>9 DEF IsPaired
  <2> QED
    BY <2>1, <1>6, TuplePair
<1>11. EffectsOf(work) = sd
  BY <1>1 DEF sa, sb, sc, sd
<1> HIDE DEF sd
<1>13. /\ sd[m + 1] = a[1] /\ sd[m + 2] = a[2] /\ sd[m + 3] = b[1] /\ sd[m + 4] = b[2]
       /\ sd[m + 5] = c[1] /\ sd[m + 6] = c[2] /\ sd[m + 7] = d[1] /\ sd[m + 8] = d[2]
       /\ \A i \in 1 .. m : sd[i] = s[i]
  <2>1. /\ sa[m + 1] = a[1] /\ sa[m + 2] = a[2] /\ \A i \in 1 .. m : sa[i] = s[i]
    BY <1>7 DEF IsPaired
  <2>2. /\ sb[m + 3] = b[1] /\ sb[m + 4] = b[2] /\ \A i \in 1 .. m + 2 : sb[i] = sa[i]
    BY <1>0, <1>8 DEF IsPaired
  <2>3. /\ sc[m + 5] = c[1] /\ sc[m + 6] = c[2] /\ \A i \in 1 .. m + 4 : sc[i] = sb[i]
    BY <1>0, <1>9 DEF IsPaired
  <2>4. /\ sd[m + 7] = d[1] /\ sd[m + 8] = d[2] /\ \A i \in 1 .. m + 6 : sd[i] = sc[i]
    BY <1>0, <1>10 DEF IsPaired
  <2>5. \A i \in 1 .. m : sd[i] = s[i]
    BY <1>0, <2>1, <2>2, <2>3, <2>4
  <2>6. sd[m + 1] = a[1] /\ sd[m + 2] = a[2] /\ sd[m + 3] = b[1] /\ sd[m + 4] = b[2] /\ sd[m + 5] = c[1] /\ sd[m + 6] = c[2]
    BY <1>0, <2>1, <2>2, <2>3, <2>4
  <2> QED
    BY <2>4, <2>5, <2>6
<1>14. work.anchored => sd[1] = s[1]
  BY <1>2, <1>0, <1>13
<1>15. ASSUME NEW k \in 1 .. 4
       PROVE  /\ sd[m + 2 * k - 1] = Effect("put", RunDoc(work, k), Nowhere)
              /\ sd[m + 2 * k] = Effect("event", RunDoc(work, k), RunDoc(work, k))
  <2>1. CASE k = 1
    BY <1>3, <1>0, <1>13, <2>1
  <2>2. CASE k = 2
    BY <1>4, <1>0, <1>13, <2>2
  <2>3. CASE k = 3
    BY <1>5, <1>0, <1>13, <2>3
  <2>4. CASE k = 4
    BY <1>6, <1>0, <1>13, <2>4
  <2> QED
    BY <2>1, <2>2, <2>3, <2>4
<1> QED
  <2>1. IsTuple(sd) /\ Len(sd) = m + 8
    BY <1>0, <1>10 DEF IsPaired
  <2> QED
    BY <1>0, <1>2, <1>11, <1>14, <1>15, <2>1

-----------------------------------------------------------------------------
\* The concepts of a paper's graph are concepts of the paper, and numbered.
LEMMA GraphIs ==
  ASSUME NEW p \in Papers
  PROVE  \E n \in Nat : /\ DOMAIN GraphOf(ConceptsOf[p]) = 1 .. n
                        /\ \A i \in 1 .. n : \E j \in DOMAIN ConceptsOf[p] : GraphOf(ConceptsOf[p])[i] = ConceptsOf[p][j]
<1> DEFINE c == ConceptsOf[p]
           first == FirstOfId(c)
           r == {q \in first \X first : q[1] < q[2]}
           n == Cardinality(first)
<1>1. DOMAIN c = 1 .. Len(c) /\ Len(c) \in Nat
  BY PublishAssumption
<1>2. IsFiniteSet(first) /\ n \in Nat /\ first \subseteq DOMAIN c
  <2>0. Len(c) \in Int /\ 1 \in Int
    BY <1>1
  <2>1. IsFiniteSet(1 .. Len(c)) /\ first \subseteq DOMAIN c
    BY <2>0, FS_Interval DEF FirstOfId
  <2> QED
    BY <1>1, <2>1, FS_Subset, FS_CardinalityType
<1>3. OrdersAll(r, first)
  BY <1>1, <1>2 DEF OrdersAll
<1>4. DOMAIN InPlaces(first, r) = 1 .. n /\ \A i \in 1 .. n : InPlaces(first, r)[i] \in first
  <2>1. DOMAIN InPlaces(first, r) = 1 .. n
    BY DEF InPlaces
  <2> HIDE DEF r, first
  <2> QED
    BY <1>2, <1>3, <2>1, InPlacesIs
<1> HIDE DEF n
<1>5. DOMAIN GraphOf(c) = 1 .. n /\ \A i \in 1 .. n : GraphOf(c)[i] = c[InPlaces(first, r)[i]]
  BY <1>4 DEF GraphOf
<1> QED
  BY <1>2, <1>4, <1>5

\* Row i of the index says of concept c of paper p what the paper says.
SaysOf(row, p, c) ==
  row.by = p /\ row.of = c.id /\ row.ref = c.status /\ ((row.kind = "deadEnd") <=> (c.kind = "deadEnd"))

\* The kind and the status survive the way through the graph.
LEMMA KindsSurvive ==
  ASSUME NEW k \in ConceptKinds, NEW s \in ConceptStates
  PROVE  ((KindFromNode(NodeKind(k)) = "deadEnd") <=> (k = "deadEnd")) /\ StatusFromNode(NodeStatus(s)) = s
<1>1. (KindFromNode(NodeKind(k)) = "deadEnd") <=> (k = "deadEnd")
  <2>1. CASE k \in {"topic", "contribution", "openProblem"}
    <3>1. NodeKind(k) = "approach"
      BY <2>1 DEF NodeKind
    <3>2. KindFromNode("approach") = "contribution"
      BY DEF KindFromNode
    <3> QED
      BY <2>1, <3>1, <3>2
  <2>2. CASE k = "claim"
    <3>1. NodeKind(k) = "hypothesis"
      BY <2>2 DEF NodeKind
    <3>2. KindFromNode("hypothesis") = "claim"
      BY DEF KindFromNode
    <3> QED
      BY <2>2, <3>1, <3>2
  <2>3. CASE k \in {"system", "method"}
    <3>1. NodeKind(k) = "strategy"
      BY <2>3 DEF NodeKind
    <3>2. KindFromNode("strategy") = "system"
      BY DEF KindFromNode
    <3> QED
      BY <2>3, <3>1, <3>2
  <2>4. CASE k = "deadEnd"
    <3>1. NodeKind(k) = "deadEnd"
      BY <2>4 DEF NodeKind
    <3>2. KindFromNode("deadEnd") = "deadEnd"
      BY DEF KindFromNode
    <3> QED
      BY <2>4, <3>1, <3>2
  <2> QED
    BY <2>1, <2>2, <2>3, <2>4 DEF ConceptKinds
<1>2. StatusFromNode(NodeStatus(s)) = s
  BY DEF StatusFromNode, NodeStatus, ConceptStates
<1> QED
  BY <1>1, <1>2

\* The rows of a paper: one for each concept of its graph.
LEMMA EntriesAre ==
  ASSUME NEW p \in Papers
  PROVE  /\ IsTuple(EntriesFor(p)) /\ Len(EntriesFor(p)) \in Nat
         /\ DOMAIN EntriesFor(p) = 1 .. Len(EntriesFor(p)) /\ DOMAIN GraphOf(ConceptsOf[p]) = 1 .. Len(EntriesFor(p))
         /\ \A i \in 1 .. Len(EntriesFor(p)) : SaysOf(EntriesFor(p)[i], p, GraphOf(ConceptsOf[p])[i])
<1> DEFINE g == GraphOf(ConceptsOf[p])
           e == EntriesFor(p)
<1>1. PICK n \in Nat : DOMAIN g = 1 .. n /\ \A i \in 1 .. n : \E j \in DOMAIN ConceptsOf[p] : g[i] = ConceptsOf[p][j]
  BY GraphIs
<1>2. \A i \in 1 .. n : g[i].kind \in ConceptKinds /\ g[i].status \in ConceptStates
  BY <1>1, PublishAssumption
<1>3. /\ DOMAIN e = 1 .. n /\ e = [i \in 1 .. n |-> e[i]]
      /\ \A i \in 1 .. n : e[i] = Doc(KindFromNode(NodeKind(g[i].kind)), p, g[i].id, StatusFromNode(NodeStatus(g[i].status)), 0)
  BY <1>1 DEF EntriesFor
<1>4. \A i \in 1 .. n : SaysOf(e[i], p, g[i])
  <2> HIDE DEF g, e
  <2> SUFFICES ASSUME NEW i \in 1 .. n PROVE SaysOf(e[i], p, g[i])
    OBVIOUS
  <2>1. /\ (KindFromNode(NodeKind(g[i].kind)) = "deadEnd") <=> (g[i].kind = "deadEnd")
        /\ StatusFromNode(NodeStatus(g[i].status)) = g[i].status
    BY <1>2, KindsSurvive
  <2> QED
    BY <1>3, <2>1 DEF SaysOf, Doc
<1> HIDE DEF g, e
<1>5. IsTuple(e) /\ Len(e) = n
  BY <1>3, FunctionTuple
<1> QED
  BY <1>1, <1>3, <1>4, <1>5 DEF g, e

-----------------------------------------------------------------------------
\* The effects of a paper: the files, the root to the chain, if at all, two
\* manifests, the lines of the index, the commit.
LEMMA PaperEffects ==
  ASSUME NEW work, IsJob(work), work.op = "paper"
  PROVE  /\ IsTuple(EffectsOf(work)) /\ Len(EffectsOf(work)) = Shift(work) + 6 + Len(EntriesFor(work.of))
         /\ \A i \in 1 .. 3 : EffectsOf(work)[i] = Effect("write", PaperContent(PaperFiles[i], work.of), PaperPath(work.of, PaperFiles[i]))
         /\ work.anchored => EffectsOf(work)[4] = Effect("submit", PaperRoot(work.of), Nowhere)
         /\ EffectsOf(work)[Shift(work) + 4].op = "write" /\ EffectsOf(work)[Shift(work) + 4].at = PaperPath(work.of, "manifest")
         /\ EffectsOf(work)[Shift(work) + 5].op = "write" /\ EffectsOf(work)[Shift(work) + 5].at = PaperPath(work.of, "listing")
         /\ \A i \in 1 .. Len(EntriesFor(work.of)) :
              EffectsOf(work)[Shift(work) + 5 + i] = Effect("line", EntriesFor(work.of)[i], Nowhere)
         /\ EffectsOf(work)[Shift(work) + 6 + Len(EntriesFor(work.of))] = Effect("commit", Nowhere, Nowhere)
<1> DEFINE w == PaperWrites(work)
           s == PaperSubmit(work)
           p == PaperManifests(work)
           x == IndexAppend(work)
           c == CommitToRepo
           m == Shift(work)
           k == Len(EntriesFor(work.of))
<1>0. work.of \in Papers /\ work.anchored \in BOOLEAN
  BY DEF IsJob, Jobs
<1>1. EffectsOf(work) = w \o s \o p \o x \o c
  BY DEF EffectsOf, CompilePaper
<1>2. /\ IsTuple(w) /\ Len(w) = 3
      /\ \A i \in 1 .. 3 : w[i] = Effect("write", PaperContent(PaperFiles[i], work.of), PaperPath(work.of, PaperFiles[i]))
  <2>1. DOMAIN PaperFiles = 1 .. 3
    BY DEF PaperFiles
  <2>2. /\ w = [i \in 1 .. 3 |-> w[i]]
        /\ \A i \in 1 .. 3 : w[i] = Effect("write", PaperContent(PaperFiles[i], work.of), PaperPath(work.of, PaperFiles[i]))
    BY <2>1 DEF PaperWrites
  <2> HIDE DEF w
  <2> QED
    BY <2>2, FunctionTuple
<1>3. IsTuple(s) /\ Len(s) = m /\ m \in Nat /\ (work.anchored => s[1] = Effect("submit", PaperRoot(work.of), Nowhere) /\ m = 1)
  <2>2. CASE work.anchored
    BY <2>2 DEF PaperSubmit, IsTuple, Shift
  <2>3. CASE ~work.anchored
    BY <2>3 DEF PaperSubmit, IsTuple, Shift
  <2> QED
    BY <1>0, <2>2, <2>3
<1>4. /\ IsTuple(p) /\ Len(p) = 2 /\ p[1].op = "write" /\ p[1].at = PaperPath(work.of, "manifest")
      /\ p[2].op = "write" /\ p[2].at = PaperPath(work.of, "listing")
  BY DEF PaperManifests, IsTuple, Effect
<1>5. IsTuple(x) /\ Len(x) = k /\ k \in Nat /\ \A i \in 1 .. k : x[i] = Effect("line", EntriesFor(work.of)[i], Nowhere)
  <2>1. DOMAIN EntriesFor(work.of) = 1 .. k /\ k \in Nat
    BY <1>0, EntriesAre
  <2>2. x = [i \in 1 .. k |-> x[i]] /\ \A i \in 1 .. k : x[i] = Effect("line", EntriesFor(work.of)[i], Nowhere)
    BY <2>1 DEF IndexAppend
  <2> HIDE DEF x, k
  <2> QED
    BY <2>1, <2>2, FunctionTuple
<1>6. IsTuple(c) /\ Len(c) = 1 /\ c[1] = Effect("commit", Nowhere, Nowhere)
  BY DEF CommitToRepo, IsTuple
<1> HIDE DEF w, s, p, x, c, m, k
<1> DEFINE ws == w \o s
           wp == ws \o p
           wx == wp \o x
           wc == wx \o c
<1>7. IsConcat(ws, w, s)
  BY <1>2, <1>3, TupleConcat
<1> HIDE DEF ws
<1>8. IsTuple(ws) /\ Len(ws) = m + 3 /\ (\A i \in 1 .. 3 : ws[i] = w[i]) /\ (work.anchored => ws[4] = s[1])
  BY <1>2, <1>3, <1>7 DEF IsConcat
<1>9. IsPaired(wp, ws, p, m + 3)
  <2>1. m + 3 \in Nat
    BY <1>3
  <2> QED
    BY <1>4, <1>8, <2>1, TuplePair
<1> HIDE DEF wp
<1>10. /\ IsTuple(wp) /\ Len(wp) = m + 5 /\ (\A i \in 1 .. m + 3 : wp[i] = ws[i]) /\ wp[m + 4] = p[1] /\ wp[m + 5] = p[2]
  BY <1>3, <1>9 DEF IsPaired
<1>11. IsConcat(wx, wp, x)
  BY <1>5, <1>10, TupleConcat
<1> HIDE DEF wx
<1>12. /\ IsTuple(wx) /\ Len(wx) = m + 5 + k /\ (\A i \in 1 .. m + 5 : wx[i] = wp[i]) /\ (\A i \in 1 .. k : wx[m + 5 + i] = x[i])
  BY <1>5, <1>10, <1>11 DEF IsConcat
<1>13. IsConcat(wc, wx, c)
  BY <1>6, <1>12, TupleConcat
<1>14. EffectsOf(work) = wc
  BY <1>1 DEF ws, wp, wx, wc
<1> HIDE DEF wc
<1>15. /\ IsTuple(wc) /\ Len(wc) = m + 6 + k /\ (\A i \in 1 .. m + 5 + k : wc[i] = wx[i]) /\ wc[m + 6 + k] = c[1]
  <2>1. IsTuple(wc) /\ Len(wc) = m + 5 + k + 1 /\ (\A i \in 1 .. m + 5 + k : wc[i] = wx[i]) /\ (\A i \in 1 .. 1 : wc[m + 5 + k + i] = c[i])
    BY <1>6, <1>12, <1>13 DEF IsConcat
  <2>2. wc[m + 5 + k + 1] = c[1] /\ m + 5 + k + 1 = m + 6 + k
    BY <1>3, <1>5, <2>1
  <2> QED
    BY <2>1, <2>2
<1>16. \A i \in 1 .. 3 : wc[i] = w[i]
  BY <1>3, <1>5, <1>8, <1>10, <1>12, <1>15
<1>17. work.anchored => wc[4] = s[1]
  BY <1>3, <1>5, <1>8, <1>10, <1>12, <1>15
<1>18. wc[m + 4] = p[1] /\ wc[m + 5] = p[2]
  BY <1>3, <1>5, <1>10, <1>12, <1>15
<1>19. ASSUME NEW i \in 1 .. k PROVE wc[m + 5 + i] = x[i]
  <2>1. m + 5 + i \in 1 .. m + 5 + k
    BY <1>3, <1>5
  <2> QED
    BY <1>12, <1>15, <2>1
<1> QED
  BY <1>2, <1>3, <1>4, <1>5, <1>6, <1>14, <1>15, <1>16, <1>17, <1>18, <1>19 DEF m, k

\* The files of an artifact.
LEMMA ArtifactFilesAre ==
  ASSUME NEW work, IsJob(work), work.op = "artifact"
  PROVE  /\ DOMAIN ArtifactFiles(work) = IF work.graph THEN 1 .. 6 ELSE 1 .. 5
         /\ ArtifactFiles(work)[1][1] = "paper" /\ ArtifactFiles(work)[2][1] = "manifest" /\ ArtifactFiles(work)[3][1] = "scorecard"
         /\ ArtifactFiles(work)[4][1] = "bundle" /\ ArtifactFiles(work)[5][1] = "card"
         /\ work.graph => ArtifactFiles(work)[6][1] = "graph"
<1> DEFINE a == <<<<"paper", PageOf("page", ProofManifest(work, work.anchored))>>, <<"manifest", ProofManifest(work, work.anchored)>>,
                  <<"scorecard", Plain("scorecard", work.of)>>, <<"bundle", Bundle(work)>>,
                  <<"card", PageOf("card", ProofManifest(work, work.anchored))>>>>
           b == IF work.graph THEN <<<<"graph", Plain("graph", work.of)>>>> ELSE <<>>
           u == a \o b
<1>0. work.graph \in BOOLEAN
  BY DEF IsJob, Jobs
<1>1. ArtifactFiles(work) = u
  BY DEF ArtifactFiles
<1>2. IsTuple(a) /\ Len(a) = 5 /\ a[1][1] = "paper" /\ a[2][1] = "manifest" /\ a[3][1] = "scorecard" /\ a[4][1] = "bundle" /\ a[5][1] = "card"
  BY DEF IsTuple
<1>3. IsTuple(b) /\ Len(b) = (IF work.graph THEN 1 ELSE 0) /\ (work.graph => b[1][1] = "graph")
  <2>2. CASE work.graph
    BY <2>2 DEF IsTuple
  <2>3. CASE ~work.graph
    BY <2>3 DEF IsTuple
  <2> QED
    BY <1>0, <2>2, <2>3
<1> HIDE DEF a, b
<1>4. IsConcat(u, a, b)
  BY <1>2, <1>3, TupleConcat
<1> HIDE DEF u
<1>5. /\ IsTuple(u) /\ Len(u) = (IF work.graph THEN 6 ELSE 5) /\ \A i \in 1 .. 5 : u[i] = a[i]
  BY <1>0, <1>2, <1>3, <1>4 DEF IsConcat
<1>6. work.graph => u[6] = b[1]
  BY <1>2, <1>3, <1>4 DEF IsConcat
<1>7. DOMAIN u = 1 .. Len(u)
  BY <1>5 DEF IsTuple
<1>8. DOMAIN u = IF work.graph THEN 1 .. 6 ELSE 1 .. 5
  BY <1>0, <1>5, <1>7
<1>9. u[1] = a[1] /\ u[2] = a[2] /\ u[3] = a[3] /\ u[4] = a[4] /\ u[5] = a[5]
  BY <1>5
<1> QED
  BY <1>1, <1>2, <1>3, <1>6, <1>8, <1>9

\* Their number.
FilesOf(work) == IF work.graph THEN 6 ELSE 5

\* An artifact is written file by file, the listing last.
LEMMA ArtifactEffects ==
  ASSUME NEW work, IsJob(work), work.op = "artifact"
  PROVE  /\ IsTuple(EffectsOf(work)) /\ Len(EffectsOf(work)) = FilesOf(work) + 1
         /\ \A i \in 1 .. FilesOf(work) :
              EffectsOf(work)[i] = Effect("write", ArtifactFiles(work)[i][2], ArtifactPath(ArtifactFiles(work)[i][1]))
         /\ EffectsOf(work)[FilesOf(work) + 1].op = "write"
<1> DEFINE a == [i \in DOMAIN ArtifactFiles(work) |->
                  Effect("write", ArtifactFiles(work)[i][2], ArtifactPath(ArtifactFiles(work)[i][1]))]
           b == <<Effect("write", [Bundle(work) EXCEPT !.kind = "listing"], ArtifactPath("listing"))>>
           u == a \o b
           k == FilesOf(work)
<1>1. EffectsOf(work) = u
  BY DEF EffectsOf, WriteArtifactDir
<1>2. k \in Nat /\ DOMAIN ArtifactFiles(work) = 1 .. k
  <2>1. work.graph \in BOOLEAN
    BY DEF IsJob, Jobs
  <2> QED
    BY <2>1, ArtifactFilesAre DEF FilesOf
<1> HIDE DEF k
<1>3. /\ IsTuple(a) /\ Len(a) = k
      /\ \A i \in 1 .. k : a[i] = Effect("write", ArtifactFiles(work)[i][2], ArtifactPath(ArtifactFiles(work)[i][1]))
  <2>1. a = [i \in 1 .. k |-> a[i]]
    BY <1>2
  <2>2. \A i \in 1 .. k : a[i] = Effect("write", ArtifactFiles(work)[i][2], ArtifactPath(ArtifactFiles(work)[i][1]))
    BY <1>2
  <2> HIDE DEF a
  <2> QED
    BY <1>2, <2>1, <2>2, FunctionTuple
<1>4. IsTuple(b) /\ Len(b) = 1 /\ b[1].op = "write"
  BY DEF IsTuple, Effect
<1> HIDE DEF a, b
<1>5. IsConcat(u, a, b)
  BY <1>3, <1>4, TupleConcat
<1> HIDE DEF u
<1>6. IsTuple(u) /\ Len(u) = k + 1 /\ (\A i \in 1 .. k : u[i] = a[i]) /\ (\A i \in 1 .. 1 : u[k + i] = b[i])
  BY <1>2, <1>3, <1>4, <1>5 DEF IsConcat
<1>7. u[k + 1] = b[1]
  BY <1>6
<1> QED
  BY <1>1, <1>3, <1>4, <1>6, <1>7 DEF k

\* An attestation is one submission.
LEMMA AttestEffects ==
  ASSUME NEW work, IsJob(work), work.op = "attest"
  PROVE  /\ IsTuple(EffectsOf(work)) /\ Len(EffectsOf(work)) = 1
         /\ EffectsOf(work)[1] = Effect("submit", Plain("attestation", work.of), Nowhere)
<1>1. EffectsOf(work) = SubmitAttestation(work)
  BY DEF EffectsOf
<1> QED
  BY <1>1 DEF SubmitAttestation, IsTuple

\* What a step of a publication stores, and when.
PutAs(work, at, doc) ==
  \/ work.op = "package" /\ at = 1 /\ doc = Payload(work.of)
  \/ work.op = "package" /\ at = 2 /\ doc = PackageManifest(work)
  \/ work.op = "run" /\ \E k \in 1 .. 4 : at = Shift(work) + 2 * k - 1 /\ doc = RunDoc(work, k)

\* What it logs.
EventAs(work, at, doc, to) ==
  \/ work.op = "package" /\ at = 3 /\ doc = Payload(work.of) /\ to = PackageManifest(work)
  \/ work.op = "run" /\ \E k \in 1 .. 4 : doc = RunDoc(work, k)

\* What it submits.
SubmitAs(work, at, doc) ==
  \/ work.op = "package" /\ at = 4 /\ doc = Payload(work.of)
  \/ work.op = "paper" /\ at = 4 /\ work.anchored /\ doc = PaperRoot(work.of)
  \/ doc.kind \in {"proof", "attestation"}

\* What it appends to the index.
LineAs(work, at, doc) ==
  work.op = "paper" /\ \E i \in 1 .. Len(EntriesFor(work.of)) : at = Shift(work) + 5 + i /\ doc = EntriesFor(work.of)[i]

\* What a step is.
StepAs(work, at, e) ==
  /\ e.op \in {"put", "event", "submit", "write", "line", "commit"}
  /\ e.op = "put" => PutAs(work, at, e.doc)
  /\ e.op = "event" => EventAs(work, at, e.doc, e.at)
  /\ e.op = "submit" => SubmitAs(work, at, e.doc)
  /\ e.op = "line" => LineAs(work, at, e.doc)
  /\ e.op = "commit" => work.op = "paper" /\ at = Len(EffectsOf(work))

\* Every effect of every work is one of these.
LEMMA EffectsAre ==
  ASSUME NEW work, IsJob(work), NEW at \in 1 .. Len(EffectsOf(work))
  PROVE  Len(EffectsOf(work)) \in Nat \ {0} /\ StepAs(work, at, EffectsOf(work)[at])
<1> DEFINE e == EffectsOf(work)[at]
           E == EffectsOf(work)
<1>0. work.op \in {"package", "run", "artifact", "paper", "attest"} /\ work.anchored \in BOOLEAN
  BY DEF IsJob, Jobs
<1>1. CASE work.op = "package"
  <2>1. Len(E) = 4 /\ at \in 1 .. 4
    BY <1>1, PackageEffects
  <2>2. CASE at = 1
    <3>1. e = Effect("put", Payload(work.of), Nowhere)
      BY <1>1, <2>2, PackageEffects
    <3>2. e.op = "put" /\ e.doc = Payload(work.of) /\ e.at = Nowhere
      BY <3>1 DEF Effect
    <3>3. Len(E) \in Nat \ {0}
      BY <2>1
    <3> HIDE DEF e, E
    <3>4. StepAs(work, at, e)
      BY <1>1, <2>2, <3>2 DEF StepAs, PutAs
    <3> QED
      BY <3>3, <3>4 DEF e, E
  <2>3. CASE at = 2
    <3>1. e = Effect("put", PackageManifest(work), Nowhere)
      BY <1>1, <2>3, PackageEffects
    <3>2. e.op = "put" /\ e.doc = PackageManifest(work) /\ e.at = Nowhere
      BY <3>1 DEF Effect
    <3>3. Len(E) \in Nat \ {0}
      BY <2>1
    <3> HIDE DEF e, E
    <3>4. StepAs(work, at, e)
      BY <1>1, <2>3, <3>2 DEF StepAs, PutAs
    <3> QED
      BY <3>3, <3>4 DEF e, E
  <2>4. CASE at = 3
    <3>1. e = Effect("event", Payload(work.of), PackageManifest(work))
      BY <1>1, <2>4, PackageEffects
    <3>2. e.op = "event" /\ e.doc = Payload(work.of) /\ e.at = PackageManifest(work)
      BY <3>1 DEF Effect
    <3>3. Len(E) \in Nat \ {0}
      BY <2>1
    <3> HIDE DEF e, E
    <3>4. StepAs(work, at, e)
      BY <1>1, <2>4, <3>2 DEF StepAs, EventAs
    <3> QED
      BY <3>3, <3>4 DEF e, E
  <2>5. CASE at = 4
    <3>1. e = Effect("submit", Payload(work.of), Nowhere)
      BY <1>1, <2>5, PackageEffects
    <3>2. e.op = "submit" /\ e.doc = Payload(work.of) /\ e.at = Nowhere
      BY <3>1 DEF Effect
    <3>3. Len(E) \in Nat \ {0}
      BY <2>1
    <3> HIDE DEF e, E
    <3>4. StepAs(work, at, e)
      BY <1>1, <2>5, <3>2 DEF StepAs, SubmitAs
    <3> QED
      BY <3>3, <3>4 DEF e, E
  <2> QED
    BY <2>1, <2>2, <2>3, <2>4, <2>5
<1>2. CASE work.op = "run"
  <2>0. Shift(work) \in Nat /\ ((Shift(work) = 1 /\ work.anchored) \/ Shift(work) = 0)
    BY <1>0 DEF Shift
  <2>1. Len(E) = Shift(work) + 8
    BY <1>2, RunEffects
  <2>2. CASE work.anchored /\ at = 1
    <3>1. e = Effect("submit", ProofManifest(work, FALSE), Nowhere)
      BY <1>2, <2>2, RunEffects
    <3>2. ProofManifest(work, FALSE).kind = "proof"
      BY DEF ProofManifest, Doc
    <3>3. e.op = "submit" /\ e.doc = ProofManifest(work, FALSE)
      BY <3>1 DEF Effect
    <3>4. Len(E) \in Nat \ {0}
      BY <2>0, <2>1
    <3> QED
      BY <3>2, <3>3, <3>4 DEF StepAs, SubmitAs
  <2>3. CASE at > Shift(work)
    <3>1. PICK k \in 1 .. 4 : at = Shift(work) + 2 * k - 1 \/ at = Shift(work) + 2 * k
      <4>1. at - Shift(work) \in 1 .. 8
        BY <2>0, <2>1, <2>3
      <4> DEFINE d == at - Shift(work)
      <4>2. at = Shift(work) + d
        BY <2>0
      <4> HIDE DEF d
      <4>3. d \in 1 .. 8
        BY <4>1 DEF d
      <4>4. d = 1 \/ d = 2 \/ d = 3 \/ d = 4 \/ d = 5 \/ d = 6 \/ d = 7 \/ d = 8
        BY <4>3
      <4>5. \E k \in 1 .. 4 : d = 2 * k - 1 \/ d = 2 * k
        <5>1. d = 2 * 1 - 1 \/ d = 2 * 1 \/ d = 2 * 2 - 1 \/ d = 2 * 2 \/ d = 2 * 3 - 1 \/ d = 2 * 3 \/ d = 2 * 4 - 1 \/ d = 2 * 4
          BY <4>4
        <5>2. 1 \in 1 .. 4 /\ 2 \in 1 .. 4 /\ 3 \in 1 .. 4 /\ 4 \in 1 .. 4
          OBVIOUS
        <5> QED
          BY <5>1, <5>2, Zenon
      <4> QED
        BY <2>0, <4>2, <4>5
    <3>2. CASE at = Shift(work) + 2 * k - 1
      <4>1. e = Effect("put", RunDoc(work, k), Nowhere)
        BY <1>2, <3>2, RunEffects
      <4> QED
        BY <1>2, <2>0, <2>1, <3>2, <4>1 DEF StepAs, PutAs, Effect
    <3>3. CASE at = Shift(work) + 2 * k
      <4>1. e = Effect("event", RunDoc(work, k), RunDoc(work, k))
        BY <1>2, <3>3, RunEffects
      <4> QED
        BY <1>2, <2>0, <2>1, <3>3, <4>1 DEF StepAs, EventAs, Effect
    <3> QED
      BY <3>1, <3>2, <3>3
  <2> QED
    BY <2>0, <2>1, <2>2, <2>3
<1>3. CASE work.op = "artifact"
  <2> DEFINE k == FilesOf(work)
  <2>0. k \in Nat /\ at \in 1 .. k + 1 /\ Len(E) = k + 1
    BY <1>3, ArtifactEffects DEF FilesOf
  <2>1. e.op = "write" /\ Len(E) \in Nat \ {0}
    <3>1. CASE at \in 1 .. k
      <4>1. e = Effect("write", ArtifactFiles(work)[at][2], ArtifactPath(ArtifactFiles(work)[at][1]))
        BY <1>3, <3>1, ArtifactEffects
      <4> QED
        BY <2>0, <4>1 DEF Effect
    <3>2. CASE at = k + 1
      BY <1>3, <2>0, <3>2, ArtifactEffects
    <3> HIDE DEF k
    <3> QED
      BY <2>0, <3>1, <3>2
  <2> QED
    BY <2>1 DEF StepAs
<1>4. CASE work.op = "paper"
  <2> DEFINE k == Len(EntriesFor(work.of))
             m == Shift(work)
  <2>0. m \in Nat /\ k \in Nat /\ ((m = 1 /\ work.anchored) \/ m = 0)
    <3>1. work.of \in Papers
      BY <1>4 DEF IsJob, Jobs
    <3> QED
      BY <1>0, <3>1, EntriesAre DEF Shift
  <2>1. /\ Len(E) = m + 6 + k
        /\ \A i \in 1 .. 3 : E[i].op = "write"
        /\ work.anchored => E[4] = Effect("submit", PaperRoot(work.of), Nowhere)
        /\ E[m + 4].op = "write" /\ E[m + 5].op = "write"
        /\ \A i \in 1 .. k : E[m + 5 + i] = Effect("line", EntriesFor(work.of)[i], Nowhere)
        /\ E[m + 6 + k] = Effect("commit", Nowhere, Nowhere)
    <3>1. \A i \in 1 .. 3 : E[i] = Effect("write", PaperContent(PaperFiles[i], work.of), PaperPath(work.of, PaperFiles[i]))
      BY <1>4, PaperEffects
    <3>2. \A i \in 1 .. 3 : E[i].op = "write"
      BY <3>1 DEF Effect
    <3> QED
      BY <1>4, <3>2, PaperEffects
  <2> HIDE DEF k, m, E
  <2>2. CASE at \in 1 .. 3 \/ at = m + 4 \/ at = m + 5
    <3>1. E[at].op = "write"
      BY <2>1, <2>2
    <3> QED
      BY <2>0, <2>1, <3>1 DEF StepAs, E
  <2>3. CASE work.anchored /\ at = 4
    BY <1>4, <2>0, <2>1, <2>3 DEF StepAs, SubmitAs, Effect, E
  <2>4. CASE \E i \in 1 .. k : at = m + 5 + i
    <3>1. PICK i \in 1 .. k : at = m + 5 + i
      BY <2>4
    <3>2. E[at] = Effect("line", EntriesFor(work.of)[i], Nowhere)
      BY <2>1, <3>1
    <3>3. LineAs(work, at, EntriesFor(work.of)[i])
      BY <1>4, <3>1 DEF LineAs, k, m
    <3> QED
      BY <2>0, <2>1, <3>2, <3>3 DEF StepAs, Effect, E
  <2>5. CASE at = m + 6 + k
    BY <1>4, <2>0, <2>1, <2>5 DEF StepAs, Effect, E
  <2>6. \/ at \in 1 .. 3 \/ at = m + 4 \/ at = m + 5 \/ (work.anchored /\ at = 4)
        \/ (\E i \in 1 .. k : at = m + 5 + i) \/ at = m + 6 + k
    <3>1. at \in 1 .. m + 6 + k
      BY <2>1 DEF E
    <3>2. CASE at > m + 5 /\ at < m + 6 + k
      <4>1. at - (m + 5) \in 1 .. k /\ at = m + 5 + (at - (m + 5))
        BY <2>0, <3>1, <3>2
      <4> QED
        BY <4>1
    <3>3. CASE at <= m + 5
      BY <2>0, <3>1, <3>3
    <3> QED
      BY <2>0, <3>1, <3>2, <3>3
  <2> QED
    BY <2>2, <2>3, <2>4, <2>5, <2>6
<1>5. CASE work.op = "attest"
  <2>1. e = Effect("submit", Plain("attestation", work.of), Nowhere) /\ Len(E) = 1
    BY <1>5, AttestEffects
  <2>2. Plain("attestation", work.of).kind = "attestation"
    BY DEF Plain, Doc
  <2> QED
    BY <2>1, <2>2 DEF StepAs, SubmitAs, Effect
<1> QED
  BY <1>0, <1>1, <1>2, <1>3, <1>4, <1>5

-----------------------------------------------------------------------------
\* An appended file m, of l and an entry: old lines keep their entries, and if m
\* parses then so did l, and the entry is in it.
IsAppended(m, l, entry) ==
  /\ IsTuple(m) /\ \A i \in 1 .. Len(m) : m[i] = Line(m[i].entry, m[i].good, m[i].ended)
  /\ \A i \in 1 .. Len(l) : i \in 1 .. Len(m) /\ m[i].entry = l[i].entry
  /\ \A i \in 1 .. Len(m) : m[i].entry = entry \/ (i \in 1 .. Len(l) /\ m[i].entry = l[i].entry)
  /\ ReadableLines(m) => ReadableLines(l) /\ \E i \in 1 .. Len(m) : m[i].entry = entry

\* The lines of a file.
AreLines(l) == IsTuple(l) /\ \A i \in 1 .. Len(l) : l[i] = Line(l[i].entry, l[i].good, l[i].ended)

\* Appending an entry keeps the readable lines before it readable.
LEMMA AppendedIs ==
  ASSUME NEW l, AreLines(l), NEW entry, NEW good, NEW ended
  PROVE  IsAppended(Appended(l, entry, good, ended), l, entry)
<1> DEFINE m == Appended(l, entry, good, ended)
<1>0. Len(l) \in Nat /\ DOMAIN l = 1 .. Len(l) /\ l = [i \in 1 .. Len(l) |-> l[i]]
  BY DEF AreLines, IsTuple
<1>1. CASE l # <<>> /\ ~Last(l).ended
  <2>1. m = [l EXCEPT ![Len(l)] = Line(l[Len(l)].entry, FALSE, ended)]
    BY <1>1 DEF Appended
  <2>2. Len(l) \in 1 .. Len(l)
    <3>1. l # <<>> => Len(l) # 0
      BY <1>0
    <3> QED
      BY <1>0, <1>1, <3>1
  <2>3. /\ m = [i \in 1 .. Len(l) |-> m[i]]
        /\ \A i \in 1 .. Len(l) : m[i] = IF i = Len(l) THEN Line(l[Len(l)].entry, FALSE, ended) ELSE l[i]
    BY <1>0, <2>1, <2>2
  <2> HIDE DEF m
  <2>4. IsTuple(m) /\ Len(m) = Len(l)
    BY <1>0, <2>3, FunctionTuple
  <2>5. m[Len(l)] = Line(l[Len(l)].entry, FALSE, ended)
    BY <2>2, <2>3
  <2>6. \A i \in 1 .. Len(l) : m[i].entry = l[i].entry /\ m[i] = Line(m[i].entry, m[i].good, m[i].ended)
    <3>1. ASSUME NEW i \in 1 .. Len(l), i # Len(l)
          PROVE  m[i].entry = l[i].entry /\ m[i] = Line(m[i].entry, m[i].good, m[i].ended)
      <4>1. m[i] = l[i]
        BY <2>3, <3>1
      <4>2. l[i] = Line(l[i].entry, l[i].good, l[i].ended)
        BY DEF AreLines
      <4> QED
        BY <4>1, <4>2
    <3>2. m[Len(l)].entry = l[Len(l)].entry /\ m[Len(l)] = Line(m[Len(l)].entry, m[Len(l)].good, m[Len(l)].ended)
      BY <2>5 DEF Line
    <3> QED
      BY <3>1, <3>2
  <2>7. ~ReadableLines(m)
    <3>1. Len(l) \in DOMAIN m /\ ~m[Len(l)].good
      BY <2>2, <2>3, <2>5 DEF Line
    <3> QED
      BY <3>1 DEF ReadableLines
  <2> QED
    BY <2>4, <2>6, <2>7 DEF IsAppended, m
<1>2. CASE ~(l # <<>> /\ ~Last(l).ended)
  <2>1. m = Append(l, Line(entry, good, ended))
    BY <1>2 DEF Appended
  <2> HIDE DEF m
  <2>2. /\ IsTuple(m) /\ Len(m) = Len(l) + 1 /\ m[Len(l) + 1] = Line(entry, good, ended)
        /\ \A i \in 1 .. Len(l) : m[i] = l[i]
    BY <2>1, TupleAppend DEF AreLines
  <2>3. \A i \in 1 .. Len(m) : i \in 1 .. Len(l) \/ i = Len(l) + 1
    BY <1>0, <2>2
  <2>4. Len(l) + 1 \in 1 .. Len(m) /\ m[Len(l) + 1].entry = entry /\ \A i \in 1 .. Len(l) : i \in 1 .. Len(m)
    BY <1>0, <2>2 DEF Line
  <2>5. \A i \in 1 .. Len(m) : m[i] = Line(m[i].entry, m[i].good, m[i].ended)
    BY <2>2, <2>3 DEF AreLines, Line
  <2>6. ReadableLines(m) => ReadableLines(l)
    <3>1. DOMAIN m = 1 .. Len(m)
      BY <2>2 DEF IsTuple
    <3> QED
      BY <1>0, <2>2, <2>4, <3>1 DEF ReadableLines
  <2> QED
    BY <2>2, <2>3, <2>4, <2>5, <2>6 DEF IsAppended, m
<1> QED
  BY <1>1, <1>2

-----------------------------------------------------------------------------
\* The effect that is next.
Now == EffectsOf(pub.job)[pub.at]

\* A publication under way is of a call, and one that returned was a call.
PublishType ==
  /\ AreLines(eventLog) /\ AreLines(index)
  /\ \/ pub = IdleJob
     \/ /\ IsJob(pub.job) /\ pub = [job |-> pub.job, at |-> pub.at]
        /\ pub.at \in 1 .. Len(EffectsOf(pub.job))
  /\ \A work \in receipts : IsJob(work)
  /\ \A d \in DOMAIN store : store[d] \in {"whole", "torn"}

\* The file of doc is there, and whole.
HasWhole(files, doc) == doc \in DOMAIN files /\ files[doc] = "whole"

\* A logged package has its manifest and its payload, which a crash in a later
\* publication may have cut.
Linked(files, entry) ==
  /\ entry.to.kind = "packageManifest" /\ entry.to.by \in Authors /\ entry.of = Payload(entry.to.of)
  /\ entry.to.sig = entry.to.ref
  /\ {entry.to, entry.of} \subseteq DOMAIN files

\* The content is in the log, if the log can be read.
Told(log, h) == ReadableLines(log) => \E i \in 1 .. Len(log) : log[i].entry.of = h

\* Payload and manifest are stored before the link is logged, and that before
\* the chain knows.
PackagesInv ==
  /\ \A i \in 1 .. Len(eventLog) : eventLog[i].entry.of.kind = "payload" => Linked(store, eventLog[i].entry)
  /\ \A h \in onChain : h.kind = "payload" => h \in DOMAIN store /\ Told(eventLog, h)
  /\ pub.job.op = "package" =>
       /\ pub.at > 1 => HasWhole(store, Payload(pub.job.of))
       /\ pub.at > 2 => HasWhole(store, PackageManifest(pub.job))
       /\ pub.at > 3 => Told(eventLog, Payload(pub.job.of))

\* The documents a bundle names.
PartsOf(b) == {[b EXCEPT !.kind = "proof"], Plain("scorecard", b.of), Plain("evidence", b.of)}

\* The documents of a run are stored in their order, the bundle last.
BundlesInv ==
  /\ \A b \in DOMAIN store : b.kind = "bundle" =>
       PartsOf(b) \subseteq DOMAIN store /\ b = Doc("bundle", b.by, b.of, b.ref, b.ref)
  /\ pub.job.op = "run" =>
       \A k \in 1 .. 4 : pub.at > Shift(pub.job) + 2 * k - 1 => RunDoc(pub.job, k) \in DOMAIN store

\* Row i of paper p is in the file, if it can be read.
Listed(lines, p, i) ==
  ReadableLines(lines) => \E j \in 1 .. Len(lines) : lines[j].entry = EntriesFor(p)[i]

\* The rows of a paper are in the index before the index is committed.
IndexInv ==
  /\ AreLines(repo.index)
  /\ \A work \in receipts : work.op = "paper" =>
       \A i \in 1 .. Len(EntriesFor(work.of)) : Listed(index, work.of, i) /\ Listed(repo.index, work.of, i)
  /\ pub.job.op = "paper" =>
       \A i \in 1 .. Len(EntriesFor(pub.job.of)) :
         pub.at > Shift(pub.job) + 5 + i => Listed(index, pub.job.of, i)

\* The files of a paper are written before its root is submitted.
FilesInv ==
  pub.job.op = "paper" =>
    \A i \in 1 .. 3 : pub.at > i =>
      /\ PaperPath(pub.job.of, PaperFiles[i]) \in DOMAIN dir
      /\ dir[PaperPath(pub.job.of, PaperFiles[i])].state = "whole"

\* A run that returned has stored its documents and told the chain if it was to,
\* which is the first thing it does.
RunsInv ==
  /\ \A work \in receipts : work.op = "run" =>
       /\ \A k \in 1 .. 4 : RunDoc(work, k) \in DOMAIN store
       /\ work.anchored => ProofManifest(work, FALSE) \in onChain
  /\ pub.job.op = "run" /\ pub.job.anchored /\ pub.at > 1 => ProofManifest(pub.job, FALSE) \in onChain

\* File i of the artifact is in the directory, and whole.
Written(files, work, i) ==
  LET f == ArtifactFiles(work)[i]
  IN ArtifactPath(f[1]) \in DOMAIN files /\ files[ArtifactPath(f[1])] = [doc |-> f[2], state |-> "whole"]

\* The files of an artifact that were written are there.
ArtifactsInv ==
  pub.job.op = "artifact" => \A i \in 1 .. FilesOf(pub.job) : pub.at > i => Written(dir, pub.job, i)

\* The inductive invariant of the publication.
PublishInv == PublishType /\ PackagesInv /\ BundlesInv /\ IndexInv /\ FilesInv /\ RunsInv /\ ArtifactsInv

\* The publication under way is at one of the effects listed above.
LEMMA NowIs ==
  ASSUME PublishType, Publishing
  PROVE  /\ StepAs(pub.job, pub.at, Now) /\ IsJob(pub.job)
         /\ pub.at \in 1 .. Len(EffectsOf(pub.job)) /\ pub.at \in Nat /\ Len(EffectsOf(pub.job)) \in Nat
         /\ pub = [job |-> pub.job, at |-> pub.at]
<1>1. /\ IsJob(pub.job)
      /\ pub.at \in 1 .. Len(EffectsOf(pub.job)) /\ pub = [job |-> pub.job, at |-> pub.at]
  BY DEF PublishType, Publishing
<1>2. Len(EffectsOf(pub.job)) \in Nat \ {0} /\ StepAs(pub.job, pub.at, EffectsOf(pub.job)[pub.at])
  BY <1>1, EffectsAre
<1> QED
  BY <1>1, <1>2 DEF Now

\* After an effect the publication goes on to the next one or is over.
Onwards ==
  \/ pub' = IdleJob
  \/ /\ pub' = [job |-> pub.job, at |-> pub.at + 1] /\ pub.at # Len(EffectsOf(pub.job))
     /\ receipts' = receipts

\* A publication that is over asks for nothing.
LEMMA IdleIs == ASSUME pub' = IdleJob PROVE pub'.job.op = "none" /\ pub'.at = 0
BY DEF IdleJob

\* A publication that goes on is of the same call.
LEMMA OnwardsIs ==
  ASSUME Onwards PROVE pub'.job.op = "none" \/ (pub'.job = pub.job /\ pub'.at = pub.at + 1)
BY IdleIs DEF Onwards

\* The initial state.
LEMMA PublishStart == ASSUME PublishInit PROVE PublishInv
<1>1. AreLines(<<>>)
  BY DEF AreLines, IsTuple
<1>2. pub.job.op = "none" /\ pub = IdleJob
  BY DEF PublishInit, IdleJob
<1>3. DOMAIN store = {} /\ eventLog = <<>> /\ index = <<>> /\ repo.index = <<>> /\ onChain = {} /\ receipts = {}
  BY DEF PublishInit, Empty
<1>4. Len(eventLog) = 0
  BY <1>3
<1>5. PublishType
  BY <1>1, <1>2, <1>3 DEF PublishType
<1>6. PackagesInv
  BY <1>2, <1>3, <1>4 DEF PackagesInv
<1> QED
  BY <1>1, <1>2, <1>3, <1>5, <1>6 DEF PublishInv, BundlesInv, IndexInv, FilesInv, RunsInv, ArtifactsInv

\* The types after an effect or a stop.
LEMMA TypeOnwards ==
  ASSUME PublishType, Publishing, Onwards, AreLines(eventLog)', AreLines(index)',
         receipts' = receipts \/ receipts' = receipts \cup {pub.job},
         store' = store \/ \E d : \E state \in {"whole", "torn"} : store' = Put(store, d, state)
  PROVE  PublishType'
<1>1. /\ IsJob(pub.job) /\ pub.at \in 1 .. Len(EffectsOf(pub.job))
      /\ Len(EffectsOf(pub.job)) \in Nat
  BY NowIs
<1>2. /\ \A work \in receipts' : IsJob(work)
      /\ \A d \in DOMAIN store' : store'[d] \in {"whole", "torn"}
  <2>1. \A d \in DOMAIN store' : store'[d] \in {"whole", "torn"}
    BY DEF PublishType, Put
  <2> QED
    BY <1>1, <2>1 DEF PublishType
<1>3. CASE pub' = IdleJob
  BY <1>1, <1>2, <1>3 DEF PublishType
<1>4. CASE pub' = [job |-> pub.job, at |-> pub.at + 1] /\ pub.at # Len(EffectsOf(pub.job))
  <2>1. pub'.job = pub.job /\ pub'.at = pub.at + 1
    BY <1>4
  <2>2. pub.at + 1 \in 1 .. Len(EffectsOf(pub.job))
    BY <1>1, <1>4
  <2> QED
    BY <1>1, <1>2, <1>4, <2>1, <2>2 DEF PublishType
<1> QED
  BY <1>3, <1>4 DEF Onwards

-----------------------------------------------------------------------------
\* The documents of a run are neither payloads nor manifests of packages.
LEMMA RunDocKinds ==
  ASSUME NEW work, NEW k \in 1 .. 4
  PROVE  RunDoc(work, k).kind \in {"evidence", "scorecard", "proof", "bundle"} /\ (RunDoc(work, k).kind = "bundle" => k = 4)
<1>1. CASE k = 1
  BY <1>1 DEF RunDoc, Plain, Doc
<1>2. CASE k = 2
  BY <1>2 DEF RunDoc, Plain, Doc
<1>3. CASE k = 3
  BY <1>3 DEF RunDoc, ProofManifest, Doc
<1>4. CASE k = 4
  <2>1. RunDoc(work, k) = [ProofManifest(work, work.anchored) EXCEPT !.kind = "bundle"]
    BY <1>4 DEF RunDoc, Bundle
  <2>2. [ProofManifest(work, work.anchored) EXCEPT !.kind = "bundle"].kind = "bundle"
    BY DEF ProofManifest, Doc
  <2> QED
    BY <1>4, <2>1, <2>2
<1> QED
  BY <1>1, <1>2, <1>3, <1>4

\* The fields of what a package stores.
LEMMA PackageDocs ==
  ASSUME NEW work
  PROVE  /\ Payload(work.of).kind = "payload" /\ PackageManifest(work).kind = "packageManifest"
         /\ PackageManifest(work).by = work.by /\ PackageManifest(work).of = work.of
         /\ PackageManifest(work).sig = work.at /\ PackageManifest(work).ref = work.at
BY DEF Payload, PackageManifest, Plain, Doc

\* A file of a publication is stored or torn.
LEMMA PackagePut ==
  ASSUME PublishType, PackagesInv, Publishing, Onwards, Now.op = "put", NEW state,
         store' = Put(store, Now.doc, state), state = "whole" \/ pub' = IdleJob,
         UNCHANGED <<eventLog, onChain>>
  PROVE  PackagesInv'
<1> DEFINE d == Now.doc
           work == pub.job
<1>1. PutAs(work, pub.at, d) /\ IsJob(work) /\ pub.at \in Nat
  BY NowIs DEF StepAs
<1>2. DOMAIN store' = DOMAIN store \cup {d} /\ store'[d] = state /\ \A x \in DOMAIN store : x # d => store'[x] = store[x]
  <2>1. store' = Put(store, d, state)
    OBVIOUS
  <2> HIDE DEF d
  <2> QED
    BY <2>1 DEF Put
<1>3. \/ work.op = "package" /\ pub.at = 1 /\ d = Payload(work.of)
      \/ work.op = "package" /\ pub.at = 2 /\ d = PackageManifest(work)
      \/ work.op = "run" /\ d.kind \in {"evidence", "scorecard", "proof", "bundle"}
  BY <1>1, RunDocKinds DEF PutAs
<1>5. pub'.job.op = "none" \/ (pub'.job = work /\ pub'.at = pub.at + 1)
  BY OnwardsIs
<1> HIDE DEF d
<1>6. ASSUME NEW i \in 1 .. Len(eventLog), eventLog[i].entry.of.kind = "payload"
      PROVE  Linked(store', eventLog[i].entry)
  <2>1. Linked(store, eventLog[i].entry)
    BY <1>6 DEF PackagesInv
  <2> QED
    BY <1>2, <2>1 DEF Linked
<1>7. ASSUME NEW h \in onChain', h.kind = "payload" PROVE h \in DOMAIN store' /\ Told(eventLog', h)
  <2>1. h \in DOMAIN store /\ Told(eventLog, h)
    BY <1>7 DEF PackagesInv
  <2> QED
    BY <1>2, <2>1 DEF Told
<1>8. ASSUME pub'.job.op = "package"
      PROVE  /\ pub'.at > 1 => HasWhole(store', Payload(pub'.job.of))
             /\ pub'.at > 2 => HasWhole(store', PackageManifest(pub'.job))
             /\ pub'.at > 3 => Told(eventLog', Payload(pub'.job.of))
  <2>1. pub'.job = work /\ pub'.at = pub.at + 1 /\ work.op = "package" /\ state = "whole"
    BY <1>5, <1>8, IdleIs
  <2>2. Payload(work.of) # PackageManifest(work)
    BY PackageDocs
  <2>3. CASE pub.at = 1 /\ d = Payload(work.of)
    <3>1. HasWhole(store', Payload(work.of))
      BY <1>2, <2>1, <2>3 DEF HasWhole
    <3> QED
      BY <2>1, <2>3, <3>1
  <2>4. CASE pub.at = 2 /\ d = PackageManifest(work)
    <3>1. HasWhole(store', PackageManifest(work))
      BY <1>2, <2>1, <2>4 DEF HasWhole
    <3>2. HasWhole(store, Payload(work.of))
      BY <2>1, <2>4 DEF PackagesInv
    <3>3. HasWhole(store', Payload(work.of))
      BY <1>2, <2>2, <2>4, <3>2 DEF HasWhole
    <3> QED
      BY <2>1, <2>4, <3>1, <3>3
  <2> QED
    BY <1>3, <2>1, <2>3, <2>4
<1> QED
  BY <1>6, <1>7, <1>8 DEF PackagesInv

\* A line of the event log is written or torn, or was there.
LEMMA PackageEvent ==
  ASSUME PublishType, PackagesInv, Publishing, Onwards, Now.op = "event",
         \/ eventLog' = eventLog /\ \E i \in 1 .. Len(eventLog) : eventLog[i].entry.of = Now.doc
         \/ IsAppended(eventLog', eventLog, [of |-> Now.doc, to |-> Now.at]),
         UNCHANGED <<store, onChain>>
  PROVE  PackagesInv'
<1> DEFINE d == Now.doc
           work == pub.job
           new == [of |-> Now.doc, to |-> Now.at]
<1>1. EventAs(work, pub.at, d, Now.at) /\ IsJob(work) /\ pub.at \in Nat
  BY NowIs DEF StepAs
<1>2. \/ work.op = "package" /\ pub.at = 3 /\ d = Payload(work.of) /\ Now.at = PackageManifest(work)
      \/ work.op = "run" /\ d.kind \in {"evidence", "scorecard", "proof", "bundle"}
  BY <1>1, RunDocKinds DEF EventAs
<1>3. work.op = "package" => work.by \in Authors
  BY <1>1 DEF IsJob, Jobs
<1>4. pub'.job.op = "none" \/ (pub'.job = work /\ pub'.at = pub.at + 1)
  BY OnwardsIs
<1>5. new.of = d /\ new.to = Now.at
  OBVIOUS
<1> HIDE DEF d, new
<1>6. ASSUME NEW entry, Linked(store, entry) PROVE Linked(store', entry)
  BY <1>6
<1>7. new.of.kind = "payload" => Linked(store', new)
  <2> SUFFICES ASSUME new.of.kind = "payload" PROVE Linked(store', new)
    OBVIOUS
  <2>1. work.op = "package" /\ pub.at = 3 /\ new.of = Payload(work.of) /\ new.to = PackageManifest(work)
    BY <1>2, <1>5
  <2>2. HasWhole(store, PackageManifest(work)) /\ HasWhole(store, Payload(work.of))
    BY <2>1 DEF PackagesInv
  <2>3. {new.to, new.of} \subseteq DOMAIN store'
    BY <2>1, <2>2 DEF HasWhole
  <2>4. /\ new.to.kind = "packageManifest" /\ new.to.by \in Authors /\ new.of = Payload(new.to.of)
        /\ new.to.sig = new.to.ref
    <3>1. /\ PackageManifest(work).kind = "packageManifest" /\ PackageManifest(work).by = work.by
          /\ PackageManifest(work).of = work.of /\ PackageManifest(work).sig = work.at /\ PackageManifest(work).ref = work.at
      BY PackageDocs
    <3> QED
      BY <1>3, <2>1, <3>1
  <2> QED
    BY <2>3, <2>4 DEF Linked
<1>8. ASSUME NEW i \in 1 .. Len(eventLog'), eventLog'[i].entry.of.kind = "payload"
      PROVE  Linked(store', eventLog'[i].entry)
  <2>1. CASE \E j \in 1 .. Len(eventLog) : eventLog'[i].entry = eventLog[j].entry
    <3>1. PICK j \in 1 .. Len(eventLog) : eventLog'[i].entry = eventLog[j].entry
      BY <2>1
    <3>2. Linked(store, eventLog[j].entry)
      BY <1>8, <3>1 DEF PackagesInv
    <3> QED
      BY <1>6, <3>1, <3>2
  <2>2. CASE eventLog'[i].entry = new
    BY <1>7, <1>8, <2>2
  <2>3. CASE eventLog' = eventLog
    BY <2>1, <2>3
  <2> QED
    BY <2>1, <2>2, <2>3 DEF IsAppended, new
<1>9. ASSUME NEW h, Told(eventLog, h) PROVE Told(eventLog', h)
  BY <1>9 DEF Told, IsAppended
<1>10. Told(eventLog', d)
  <2>1. CASE eventLog' = eventLog /\ \E i \in 1 .. Len(eventLog) : eventLog[i].entry.of = d
    BY <2>1 DEF Told
  <2>2. CASE IsAppended(eventLog', eventLog, new)
    BY <1>5, <2>2 DEF Told, IsAppended
  <2> QED
    BY <2>1, <2>2 DEF d, new
<1>11. ASSUME NEW h \in onChain', h.kind = "payload" PROVE h \in DOMAIN store' /\ Told(eventLog', h)
  <2>1. h \in DOMAIN store /\ Told(eventLog, h)
    BY <1>11 DEF PackagesInv
  <2> QED
    BY <1>9, <2>1
<1>12. ASSUME pub'.job.op = "package"
      PROVE  /\ pub'.at > 1 => HasWhole(store', Payload(pub'.job.of))
             /\ pub'.at > 2 => HasWhole(store', PackageManifest(pub'.job))
             /\ pub'.at > 3 => Told(eventLog', Payload(pub'.job.of))
  <2>1. pub'.job = work /\ pub.at = 3 /\ d = Payload(work.of) /\ work.op = "package"
    BY <1>2, <1>4, <1>12
  <2>2. HasWhole(store, PackageManifest(work)) /\ HasWhole(store, Payload(work.of))
    BY <2>1 DEF PackagesInv
  <2>3. HasWhole(store', PackageManifest(work)) /\ HasWhole(store', Payload(work.of))
    BY <2>2 DEF HasWhole
  <2> QED
    BY <1>10, <2>1, <2>3
<1> QED
  BY <1>8, <1>11, <1>12 DEF PackagesInv

\* A step that neither stores nor logs: submitting, or what is not a package's.
LEMMA PackageOther ==
  ASSUME PublishType, PackagesInv, Publishing, Onwards,
         Now.op \notin {"put", "event"} \/ pub' = IdleJob,
         onChain' = onChain \/ (Now.op = "submit" /\ onChain' = onChain \cup {Now.doc}),
         UNCHANGED <<store, eventLog>>
  PROVE  PackagesInv'
<1> DEFINE d == Now.doc
           work == pub.job
<1>1. (Now.op = "submit" => SubmitAs(work, pub.at, d)) /\ IsJob(work) /\ pub.at \in Nat
      /\ pub.at \in 1 .. Len(EffectsOf(work))
  BY NowIs DEF StepAs
<1>2. pub'.job.op = "none" \/ (pub'.job = work /\ pub'.at = pub.at + 1)
  BY OnwardsIs
<1>3. work.op = "package" /\ Now.op \notin {"put", "event"} => pub.at = 4
  <2>1. ASSUME work.op = "package", Now.op \notin {"put", "event"} PROVE pub.at = 4
    <3>1. /\ EffectsOf(work)[1] = Effect("put", Payload(work.of), Nowhere)
          /\ EffectsOf(work)[2] = Effect("put", PackageManifest(work), Nowhere)
          /\ EffectsOf(work)[3] = Effect("event", Payload(work.of), PackageManifest(work))
          /\ pub.at \in 1 .. 4
      BY <1>1, <2>1, PackageEffects
    <3>2. pub.at = 1 => Now.op = "put"
      BY <3>1 DEF Now, Effect
    <3>3. pub.at = 2 => Now.op = "put"
      BY <3>1 DEF Now, Effect
    <3>4. pub.at = 3 => Now.op = "event"
      BY <3>1 DEF Now, Effect
    <3> QED
      BY <2>1, <3>1, <3>2, <3>3, <3>4
  <2> QED
    BY <2>1
<1> HIDE DEF d
<1>4. ASSUME NEW entry, Linked(store, entry) PROVE Linked(store', entry)
  BY <1>4
<1>5. ASSUME NEW h, Told(eventLog, h) PROVE Told(eventLog', h)
  BY <1>5 DEF Told
<1>6. ASSUME NEW h \in onChain', h.kind = "payload" PROVE h \in DOMAIN store' /\ Told(eventLog', h)
  <2>1. CASE h \in onChain
    BY <1>5, <1>6, <2>1 DEF PackagesInv
  <2>2. CASE h = d /\ Now.op = "submit"
    <3>1. work.op = "package" /\ pub.at = 4 /\ d = Payload(work.of)
      <4>1. d.kind = "payload"
        BY <1>6, <2>2
      <4>2. CASE d = PaperRoot(work.of)
        BY <4>1, <4>2 DEF PaperRoot, Plain, Doc
      <4> QED
        BY <1>1, <2>2, <4>1, <4>2 DEF SubmitAs
    <3>2. HasWhole(store, Payload(work.of)) /\ Told(eventLog, Payload(work.of))
      BY <3>1 DEF PackagesInv
    <3> QED
      BY <1>5, <2>2, <3>1, <3>2 DEF HasWhole
  <2> QED
    BY <2>1, <2>2 DEF d
<1>7. ASSUME pub'.job.op = "package"
      PROVE  /\ pub'.at > 1 => HasWhole(store', Payload(pub'.job.of))
             /\ pub'.at > 2 => HasWhole(store', PackageManifest(pub'.job))
             /\ pub'.at > 3 => Told(eventLog', Payload(pub'.job.of))
  <2>1. pub'.job = work /\ pub.at = 4 /\ work.op = "package"
    BY <1>2, <1>3, <1>7, IdleIs
  <2>2. HasWhole(store, PackageManifest(work)) /\ HasWhole(store, Payload(work.of)) /\ Told(eventLog, Payload(work.of))
    BY <2>1 DEF PackagesInv
  <2>3. HasWhole(store', PackageManifest(work)) /\ HasWhole(store', Payload(work.of))
    BY <2>2 DEF HasWhole
  <2> QED
    BY <1>5, <2>1, <2>2, <2>3
<1>8. ASSUME NEW i \in 1 .. Len(eventLog'), eventLog'[i].entry.of.kind = "payload"
      PROVE  Linked(store', eventLog'[i].entry)
  <2>1. Linked(store, eventLog[i].entry)
    BY <1>8 DEF PackagesInv
  <2> QED
    BY <1>4, <2>1
<1> QED
  BY <1>6, <1>7, <1>8 DEF PackagesInv

-----------------------------------------------------------------------------
\* The bundle of a run names the documents stored before it.
LEMMA BundleParts ==
  ASSUME NEW work
  PROVE  /\ RunDoc(work, 4) = Doc("bundle", RunDoc(work, 4).by, RunDoc(work, 4).of, RunDoc(work, 4).ref, RunDoc(work, 4).ref)
         /\ PartsOf(RunDoc(work, 4)) = {RunDoc(work, 1), RunDoc(work, 2), RunDoc(work, 3)}
<1> DEFINE ref == IF work.anchored THEN work.at ELSE 0
           b == Doc("bundle", work.by, work.of, ref, ref)
           q == Doc("proof", work.by, work.of, ref, ref)
<1>1. ProofManifest(work, work.anchored) = q
  BY DEF ProofManifest
<1>2. [q EXCEPT !.kind = "bundle"] = b /\ [b EXCEPT !.kind = "proof"] = q /\ b.of = work.of /\ b.ref = ref /\ b.by = work.by
  <2> HIDE DEF ref
  <2> QED
    BY DEF Doc
<1>3. RunDoc(work, 4) = b
  BY <1>1, <1>2 DEF RunDoc, Bundle
<1>4. RunDoc(work, 1) = Plain("evidence", work.of) /\ RunDoc(work, 2) = Plain("scorecard", work.of) /\ RunDoc(work, 3) = q
  BY <1>1 DEF RunDoc
<1> HIDE DEF ref, b, q
<1>5. PartsOf(b) = {RunDoc(work, 1), RunDoc(work, 2), RunDoc(work, 3)}
  BY <1>2, <1>4 DEF PartsOf
<1>6. b = Doc("bundle", b.by, b.of, b.ref, b.ref)
  BY <1>2 DEF b
<1> QED
  BY <1>3, <1>5, <1>6

\* The documents of a run under way after a step.
LEMMA BundleStep ==
  ASSUME PublishType, BundlesInv, Publishing, Onwards,
         \/ Now.op = "put" /\ \E state : store' = Put(store, Now.doc, state)
         \/ store' = store /\ (Now.op # "put" \/ pub' = IdleJob)
  PROVE  BundlesInv'
<1> DEFINE d == Now.doc
           work == pub.job
           m == Shift(work)
<1>1. (Now.op = "put" => PutAs(work, pub.at, d)) /\ IsJob(work) /\ pub.at \in Nat
  BY NowIs DEF StepAs
<1>2. pub'.job.op = "none" \/ (pub'.job = work /\ pub'.at = pub.at + 1)
  BY OnwardsIs
<1>3. m \in Nat
  BY DEF Shift
<1>4. DOMAIN store' = DOMAIN store \/ (Now.op = "put" /\ DOMAIN store' = DOMAIN store \cup {d})
  BY DEF Put
<1>5. Now.op = "put" /\ DOMAIN store' = DOMAIN store => d \in DOMAIN store \/ pub' = IdleJob
  BY DEF Put
<1>6. work.op = "run" => \A k \in 1 .. 4 : pub.at = m + 2 * k - 1 => Now = Effect("put", RunDoc(work, k), Nowhere)
  BY <1>1, RunEffects DEF Now
<1> HIDE DEF d, m
<1>7. ASSUME NEW b \in DOMAIN store', b.kind = "bundle"
      PROVE  PartsOf(b) \subseteq DOMAIN store' /\ b = Doc("bundle", b.by, b.of, b.ref, b.ref)
  <2>1. CASE b \in DOMAIN store
    BY <1>4, <1>7, <2>1 DEF BundlesInv
  <2>2. CASE b = d /\ Now.op = "put" /\ DOMAIN store' = DOMAIN store \cup {d}
    <3>1. PICK k \in 1 .. 4 : work.op = "run" /\ pub.at = m + 2 * k - 1 /\ d = RunDoc(work, k)
      BY <1>1, <1>7, <2>2, PackageDocs DEF PutAs, m
    <3>2. k = 4
      BY <1>7, <2>2, <3>1, RunDocKinds
    <3>3. RunDoc(work, 1) \in DOMAIN store /\ RunDoc(work, 2) \in DOMAIN store /\ RunDoc(work, 3) \in DOMAIN store
      <4>1. \A j \in 1 .. 4 : pub.at > m + 2 * j - 1 => RunDoc(work, j) \in DOMAIN store
        BY <3>1 DEF BundlesInv, m
      <4>2. pub.at = m + 7
        BY <1>3, <3>1, <3>2
      <4> QED
        BY <1>3, <4>1, <4>2
    <3> QED
      BY <2>2, <3>1, <3>2, <3>3, BundleParts
  <2> QED
    BY <1>4, <2>1, <2>2
<1>8. ASSUME pub'.job.op = "run", NEW k \in 1 .. 4, pub'.at > Shift(pub'.job) + 2 * k - 1
      PROVE  RunDoc(pub'.job, k) \in DOMAIN store'
  <2>1. pub'.job = work /\ pub'.at = pub.at + 1 /\ work.op = "run" /\ Shift(pub'.job) = m
    BY <1>2, <1>8 DEF m
  <2>2. CASE pub.at > m + 2 * k - 1
    <3>1. RunDoc(work, k) \in DOMAIN store
      BY <2>1, <2>2 DEF BundlesInv, m
    <3> QED
      BY <1>4, <2>1, <3>1
  <2>3. CASE pub.at = m + 2 * k - 1
    <3>1. Now = Effect("put", RunDoc(work, k), Nowhere)
      BY <1>6, <2>1, <2>3
    <3>2. Now.op = "put" /\ d = RunDoc(work, k)
      BY <3>1 DEF Effect, d
    <3>3. pub' # IdleJob
      BY <1>8, IdleIs
    <3> QED
      BY <1>4, <1>5, <2>1, <3>2, <3>3
  <2> QED
    BY <1>1, <1>3, <1>8, <2>1, <2>2, <2>3
<1> QED
  BY <1>7, <1>8 DEF BundlesInv

\* The rows of the index after a step.
LEMMA IndexStep ==
  ASSUME PublishType, IndexInv, Publishing, Onwards,
         \/ index' = index /\ (Now.op # "line" \/ pub' = IdleJob)
         \/ Now.op = "line" /\ IsAppended(index', index, Now.doc),
         repo' = repo \/ (repo' = [dir |-> dir, index |-> index] /\ index' = index),
         \/ receipts' = receipts
         \/ /\ receipts' = receipts \cup {pub.job} /\ pub.at = Len(EffectsOf(pub.job))
            /\ Now.op = "commit" => repo' = [dir |-> dir, index |-> index] /\ index' = index
  PROVE  IndexInv'
<1> DEFINE d == Now.doc
           work == pub.job
           m == Shift(work)
<1>1. (Now.op = "line" => LineAs(work, pub.at, d)) /\ IsJob(work) /\ pub.at \in Nat
  BY NowIs DEF StepAs
<1>2. pub'.job.op = "none" \/ (pub'.job = work /\ pub'.at = pub.at + 1)
  BY OnwardsIs
<1>3. m \in Nat
  BY DEF Shift
<1>4. ASSUME NEW p, NEW i, Listed(index, p, i) PROVE Listed(index', p, i)
  <2>1. CASE index' = index
    BY <1>4, <2>1
  <2>2. CASE IsAppended(index', index, d)
    BY <1>4, <2>2 DEF Listed, IsAppended
  <2> QED
    BY <2>1, <2>2
<1>5. ASSUME NEW p, NEW i, Listed(index, p, i), Listed(repo.index, p, i) PROVE Listed(repo'.index, p, i)
  BY <1>5
<1>6. work.op = "paper" => \A i \in 1 .. Len(EntriesFor(work.of)) : pub.at = m + 5 + i => Now = Effect("line", EntriesFor(work.of)[i], Nowhere)
  BY <1>1, PaperEffects DEF Now
<1>7. work.op = "paper" /\ pub.at = Len(EffectsOf(work)) =>
        Now.op = "commit" /\ pub.at = m + 6 + Len(EntriesFor(work.of)) /\ Len(EntriesFor(work.of)) \in Nat
  <2>1. ASSUME work.op = "paper", pub.at = Len(EffectsOf(work)) PROVE Now = Effect("commit", Nowhere, Nowhere) /\ pub.at = m + 6 + Len(EntriesFor(work.of))
    BY <1>1, <2>1, PaperEffects DEF Now
  <2>2. Effect("commit", Nowhere, Nowhere).op = "commit"
    BY DEF Effect
  <2>3. work.op = "paper" => Len(EntriesFor(work.of)) \in Nat
    BY <1>1, EntriesAre DEF IsJob, Jobs
  <2> QED
    BY <2>1, <2>2, <2>3
<1> HIDE DEF d, m
<1>8. ASSUME pub'.job.op = "paper", NEW i \in 1 .. Len(EntriesFor(pub'.job.of)), pub'.at > Shift(pub'.job) + 5 + i
      PROVE  Listed(index', pub'.job.of, i)
  <2>1. pub'.job = work /\ pub'.at = pub.at + 1 /\ work.op = "paper" /\ Shift(pub'.job) = m
    BY <1>2, <1>8 DEF m
  <2>2. CASE pub.at > m + 5 + i
    <3>1. Listed(index, work.of, i)
      BY <1>8, <2>1, <2>2 DEF IndexInv, m
    <3> QED
      BY <1>4, <2>1, <3>1
  <2>3. CASE pub.at = m + 5 + i
    <3>1. Now = Effect("line", EntriesFor(work.of)[i], Nowhere)
      BY <1>6, <1>8, <2>1, <2>3
    <3>2. Now.op = "line" /\ d = EntriesFor(work.of)[i] /\ pub' # IdleJob
      BY <1>8, <3>1, IdleIs DEF Effect, d
    <3>3. IsAppended(index', index, d)
      BY <3>2 DEF d
    <3> QED
      BY <2>1, <3>2, <3>3 DEF IsAppended, Listed
  <2> QED
    BY <1>1, <1>3, <1>8, <2>1, <2>2, <2>3
<1>9. ASSUME NEW r \in receipts', r.op = "paper", NEW i \in 1 .. Len(EntriesFor(r.of))
      PROVE  Listed(index', r.of, i) /\ Listed(repo'.index, r.of, i)
  <2>1. CASE r \in receipts
    <3>1. Listed(index, r.of, i) /\ Listed(repo.index, r.of, i)
      BY <1>9, <2>1 DEF IndexInv
    <3> QED
      BY <1>4, <1>5, <3>1
  <2>2. CASE r = work /\ pub.at = Len(EffectsOf(pub.job)) /\ (Now.op = "commit" => repo' = [dir |-> dir, index |-> index] /\ index' = index)
    <3>1. Now.op = "commit" /\ pub.at = m + 6 + Len(EntriesFor(work.of)) /\ Len(EntriesFor(work.of)) \in Nat
      BY <1>7, <1>9, <2>2
    <3>2. repo'.index = index /\ index' = index
      BY <2>2, <3>1
    <3>3. pub.at > m + 5 + i
      BY <1>1, <1>3, <1>9, <2>2, <3>1
    <3>4. Listed(index, work.of, i)
      BY <1>9, <2>2, <3>3 DEF IndexInv, m
    <3> QED
      BY <2>2, <3>2, <3>4
  <2> QED
    BY <2>1, <2>2
<1>10. AreLines(repo.index)'
  BY DEF IndexInv, PublishType
<1> QED
  BY <1>8, <1>9, <1>10 DEF IndexInv

\* The files of a paper after a step.
LEMMA FilesStep ==
  ASSUME PublishType, FilesInv, Publishing, Onwards,
         \/ Now.op = "write" /\ \E doc : dir' = Put(dir, Now.at, [doc |-> doc, state |-> "whole"])
         \/ dir' = dir /\ Now.op # "write"
         \/ pub' = IdleJob
  PROVE  FilesInv'
<1> DEFINE work == pub.job
           path(i) == PaperPath(work.of, PaperFiles[i])
<1> SUFFICES ASSUME pub'.job.op = "paper", NEW i \in 1 .. 3, pub'.at > i
             PROVE  LET p == PaperPath(pub'.job.of, PaperFiles[i]) IN p \in DOMAIN dir' /\ dir'[p].state = "whole"
  BY DEF FilesInv
<1>1. IsJob(work) /\ pub.at \in Nat
  BY NowIs
<1>2. pub'.job = work /\ pub'.at = pub.at + 1 /\ work.op = "paper" /\ pub' # IdleJob
  BY OnwardsIs, IdleIs
<1>3. pub.at = i => Now.op = "write" /\ Now.at = path(i)
  <2>1. pub.at = i => Now = Effect("write", PaperContent(PaperFiles[i], work.of), path(i))
    BY <1>1, <1>2, PaperEffects DEF Now
  <2> HIDE DEF path
  <2> QED
    BY <2>1 DEF Effect
<1>4. pub.at > i => path(i) \in DOMAIN dir /\ dir[path(i)].state = "whole"
  BY <1>2 DEF FilesInv
<1> HIDE DEF path
<1>5. CASE Now.op = "write" /\ \E doc : dir' = Put(dir, Now.at, [doc |-> doc, state |-> "whole"])
  <2>1. PICK doc : dir' = Put(dir, Now.at, [doc |-> doc, state |-> "whole"])
    BY <1>5
  <2>2. DOMAIN dir' = DOMAIN dir \cup {Now.at} /\ dir'[Now.at].state = "whole" /\ \A x \in DOMAIN dir : x # Now.at => dir'[x] = dir[x]
    BY <2>1 DEF Put
  <2>3. path(i) \in DOMAIN dir' /\ dir'[path(i)].state = "whole"
    BY <1>1, <1>2, <1>3, <1>4, <2>2
  <2> QED
    BY <1>2, <2>3 DEF path
<1>6. CASE dir' = dir /\ Now.op # "write"
  <2>1. path(i) \in DOMAIN dir' /\ dir'[path(i)].state = "whole"
    BY <1>1, <1>2, <1>3, <1>4, <1>6
  <2> QED
    BY <1>2, <2>1 DEF path
<1> QED
  BY <1>2, <1>5, <1>6

\* The runs after a step.
LEMMA RunsStep ==
  ASSUME PublishType, BundlesInv, RunsInv, Publishing, Onwards,
         DOMAIN store \subseteq DOMAIN store', onChain \subseteq onChain',
         Now.op = "submit" => Now.doc \in onChain' \/ pub' = IdleJob,
         receipts' = receipts \/ (receipts' = receipts \cup {pub.job} /\ pub.at = Len(EffectsOf(pub.job)))
  PROVE  RunsInv'
<1> DEFINE work == pub.job
           m == Shift(work)
<1>1. IsJob(work) /\ pub.at \in Nat
  BY NowIs
<1>2. pub'.job.op = "none" \/ (pub'.job = work /\ pub'.at = pub.at + 1 /\ pub' # IdleJob)
  BY OnwardsIs, IdleIs
<1>3. m \in Nat /\ work.op = "run" => Len(EffectsOf(work)) = m + 8
  BY <1>1, RunEffects
<1>4. work.op = "run" /\ work.anchored /\ pub.at = 1 => Now.op = "submit" /\ Now.doc = ProofManifest(work, FALSE)
  <2> SUFFICES ASSUME work.op = "run", work.anchored, pub.at = 1
               PROVE  Now.op = "submit" /\ Now.doc = ProofManifest(work, FALSE)
    OBVIOUS
  <2>1. Now = Effect("submit", ProofManifest(work, FALSE), Nowhere)
    BY <1>1, RunEffects DEF Now
  <2> DEFINE q == ProofManifest(work, FALSE)
  <2> HIDE DEF q
  <2>2. Effect("submit", q, Nowhere).op = "submit" /\ Effect("submit", q, Nowhere).doc = q
    BY DEF Effect
  <2> QED
    BY <2>1, <2>2 DEF q
<1>5. m \in Nat
  BY DEF Shift
<1> HIDE DEF m
<1>6. ASSUME NEW r \in receipts', r.op = "run"
      PROVE  /\ \A k \in 1 .. 4 : RunDoc(r, k) \in DOMAIN store'
             /\ r.anchored => ProofManifest(r, FALSE) \in onChain'
  <2>1. CASE r \in receipts
    BY <1>6, <2>1 DEF RunsInv
  <2>2. CASE r = work /\ pub.at = Len(EffectsOf(work))
    <3>1. pub.at = m + 8 /\ work.op = "run"
      BY <1>3, <1>5, <1>6, <2>2
    <3>2. \A k \in 1 .. 4 : pub.at > m + 2 * k - 1
      BY <1>5, <3>1
    <3>3. \A k \in 1 .. 4 : RunDoc(work, k) \in DOMAIN store
      BY <3>1, <3>2 DEF BundlesInv, m
    <3>4. work.anchored => ProofManifest(work, FALSE) \in onChain
      <4>1. pub.at > 1
        BY <1>5, <3>1
      <4> QED
        BY <3>1, <4>1 DEF RunsInv
    <3> QED
      BY <2>2, <3>3, <3>4
  <2> QED
    BY <2>1, <2>2
<1>7. ASSUME pub'.job.op = "run", pub'.job.anchored, pub'.at > 1 PROVE ProofManifest(pub'.job, FALSE) \in onChain'
  <2>1. pub'.job = work /\ pub'.at = pub.at + 1 /\ work.op = "run" /\ work.anchored /\ pub' # IdleJob
    BY <1>2, <1>7
  <2>2. CASE pub.at > 1
    BY <2>1, <2>2 DEF RunsInv
  <2>3. CASE pub.at = 1
    <3>1. Now.op = "submit" /\ Now.doc = ProofManifest(work, FALSE)
      BY <1>4, <2>1, <2>3
    <3>2. Now.doc \in onChain'
      BY <2>1, <3>1
    <3> QED
      BY <2>1, <3>1, <3>2
  <2>4. pub.at > 1 \/ pub.at = 1
    BY <1>1, <1>7, <2>1
  <2> QED
    BY <2>2, <2>3, <2>4
<1> QED
  BY <1>6, <1>7 DEF RunsInv

\* The files of an artifact have different names.
LEMMA NamesDiffer ==
  ASSUME NEW work, IsJob(work), work.op = "artifact", NEW i \in 1 .. FilesOf(work), NEW j \in 1 .. FilesOf(work), i # j
  PROVE  ArtifactPath(ArtifactFiles(work)[i][1]) # ArtifactPath(ArtifactFiles(work)[j][1])
<1> DEFINE f == ArtifactFiles(work)
<1>1. work.graph \in BOOLEAN
  BY DEF IsJob, Jobs
<1>2. /\ f[1][1] = "paper" /\ f[2][1] = "manifest" /\ f[3][1] = "scorecard" /\ f[4][1] = "bundle" /\ f[5][1] = "card"
      /\ work.graph => f[6][1] = "graph"
  BY ArtifactFilesAre
<1> HIDE DEF f
<1>3. f[i][1] # f[j][1]
  <2>1. i \in 1 .. 6 /\ j \in 1 .. 6 /\ (i = 6 \/ j = 6 => work.graph)
    BY <1>1 DEF FilesOf
  <2> QED
    BY <1>2, <2>1
<1>4. ArtifactPath(f[i][1]).of = f[i][1] /\ ArtifactPath(f[j][1]).of = f[j][1]
  BY DEF ArtifactPath, Plain, Doc
<1> QED
  BY <1>3, <1>4 DEF f

\* The files of an artifact after a step.
LEMMA ArtifactsStep ==
  ASSUME PublishType, ArtifactsInv, Publishing, Onwards,
         \/ Now.op = "write" /\ dir' = Put(dir, Now.at, [doc |-> Now.doc, state |-> "whole"])
         \/ dir' = dir /\ Now.op # "write"
         \/ pub' = IdleJob
  PROVE  ArtifactsInv'
<1> DEFINE work == pub.job
           path(i) == ArtifactPath(ArtifactFiles(work)[i][1])
           doc(i) == ArtifactFiles(work)[i][2]
<1> SUFFICES ASSUME pub'.job.op = "artifact", NEW i \in 1 .. FilesOf(pub'.job), pub'.at > i
             PROVE  Written(dir', pub'.job, i)
  BY DEF ArtifactsInv
<1>1. IsJob(work) /\ pub.at \in Nat /\ pub.at \in 1 .. Len(EffectsOf(work)) /\ Len(EffectsOf(work)) \in Nat
  BY NowIs
<1>2. pub'.job = work /\ pub'.at = pub.at + 1 /\ work.op = "artifact" /\ pub' # IdleJob /\ pub.at # Len(EffectsOf(work))
  BY OnwardsIs, IdleIs DEF Onwards
<1>3. FilesOf(work) \in Nat /\ Len(EffectsOf(work)) = FilesOf(work) + 1
  BY <1>1, <1>2, ArtifactEffects DEF FilesOf
<1>4. pub.at \in 1 .. FilesOf(work)
  BY <1>1, <1>2, <1>3
<1>5. Now.op = "write" /\ Now.at = path(pub.at) /\ Now.doc = doc(pub.at)
  <2>1. Now = Effect("write", doc(pub.at), path(pub.at))
    BY <1>1, <1>2, <1>4, ArtifactEffects DEF Now
  <2> HIDE DEF doc, path
  <2> QED
    BY <2>1 DEF Effect
<1>6. dir' = Put(dir, Now.at, [doc |-> Now.doc, state |-> "whole"])
  BY <1>2, <1>5
<1>7. /\ DOMAIN dir' = DOMAIN dir \cup {Now.at} /\ dir'[Now.at] = [doc |-> Now.doc, state |-> "whole"]
      /\ \A x \in DOMAIN dir : x # Now.at => dir'[x] = dir[x]
  BY <1>6 DEF Put
<1>8. CASE pub.at > i
  <2>1. path(i) \in DOMAIN dir /\ dir[path(i)] = [doc |-> doc(i), state |-> "whole"]
    BY <1>2, <1>8 DEF ArtifactsInv, Written
  <2>2. path(i) # path(pub.at)
    <3>1. i # pub.at /\ i \in 1 .. FilesOf(work)
      BY <1>1, <1>2, <1>8
    <3> QED
      BY <1>1, <1>2, <1>4, <3>1, NamesDiffer
  <2> HIDE DEF path, doc
  <2>3. path(i) \in DOMAIN dir' /\ dir'[path(i)] = [doc |-> doc(i), state |-> "whole"]
    BY <1>5, <1>7, <2>1, <2>2
  <2> QED
    BY <1>2, <2>3 DEF Written, path, doc
<1>9. CASE pub.at = i
  <2> HIDE DEF path, doc
  <2>1. path(i) \in DOMAIN dir' /\ dir'[path(i)] = [doc |-> doc(i), state |-> "whole"]
    BY <1>5, <1>7, <1>9
  <2> QED
    BY <1>2, <2>1 DEF Written, path, doc
<1> QED
  BY <1>1, <1>2, <1>8, <1>9

-----------------------------------------------------------------------------
\* A publication begins.
LEMMA BeginKeeps ==
  ASSUME PublishInv, NEW work \in Jobs, Begin(work)
  PROVE  PublishInv'
<1>1. /\ pub' = [job |-> work, at |-> 1]
      /\ UNCHANGED <<store, eventLog, onChain, dir, index, repo, receipts>>
  BY DEF Begin
<1>2. pub'.job = work /\ pub'.at = 1
  BY <1>1
<1>3. IsJob(work)
  BY DEF IsJob
<1>4. Len(EffectsOf(work)) \in Nat \ {0}
  <2>1. CASE work.op = "package"
    BY <1>3, <2>1, PackageEffects
  <2>2. CASE work.op = "run"
    <3>1. Len(EffectsOf(work)) = Shift(work) + 8
      BY <1>3, <2>2, RunEffects
    <3> QED
      BY <3>1 DEF Shift
  <2>3. CASE work.op = "artifact"
    BY <1>3, <2>3, ArtifactEffects DEF FilesOf
  <2>4. CASE work.op = "paper"
    <3>1. work.of \in Papers
      BY <1>3, <2>4 DEF IsJob, Jobs
    <3> QED
      BY <1>3, <2>4, <3>1, PaperEffects, EntriesAre DEF Shift
  <2>5. CASE work.op = "attest"
    BY <1>3, <2>5, AttestEffects
  <2> QED
    BY <1>3, <2>1, <2>2, <2>3, <2>4, <2>5 DEF IsJob, Jobs
<1>5. PublishType'
  <2>1. (\A r \in receipts' : IsJob(r)) /\ \A d \in DOMAIN store' : store'[d] \in {"whole", "torn"}
    BY <1>1, <1>3 DEF PublishInv, PublishType
  <2>2. 1 \in 1 .. Len(EffectsOf(work))
    BY <1>4
  <2> QED
    BY <1>1, <1>2, <1>3, <2>1, <2>2 DEF PublishInv, PublishType
<1>6. PackagesInv'
  <2>1. ASSUME NEW entry, Linked(store, entry) PROVE Linked(store', entry)
    BY <1>1, <2>1
  <2>2. \A i \in 1 .. Len(eventLog) : eventLog[i].entry.of.kind = "payload" => Linked(store', eventLog[i].entry)
    BY <2>1 DEF PublishInv, PackagesInv
  <2>3. \A h \in onChain : h.kind = "payload" => h \in DOMAIN store /\ Told(eventLog, h)
    BY DEF PublishInv, PackagesInv
  <2>4. ~(pub'.at > 1) /\ ~(pub'.at > 2) /\ ~(pub'.at > 3)
    BY <1>2
  <2> QED
    BY <1>1, <2>2, <2>3, <2>4 DEF PackagesInv
<1>7. BundlesInv'
  <2>1. Shift(work) \in Nat
    BY DEF Shift
  <2>2. \A k \in 1 .. 4 : ~(pub'.at > Shift(pub'.job) + 2 * k - 1)
    BY <1>2, <2>1
  <2> QED
    BY <1>1, <2>2 DEF PublishInv, BundlesInv
<1>8. IndexInv'
  <2>1. Shift(work) \in Nat
    BY DEF Shift
  <2>2. pub'.job.op = "paper" => Len(EntriesFor(pub'.job.of)) \in Nat
    BY <1>2, <1>3, EntriesAre DEF IsJob, Jobs
  <2>3. pub'.job.op = "paper" => \A i \in 1 .. Len(EntriesFor(pub'.job.of)) : ~(pub'.at > Shift(pub'.job) + 5 + i)
    BY <1>2, <2>1, <2>2
  <2> QED
    BY <1>1, <2>3 DEF PublishInv, IndexInv
<1>9. FilesInv'
  <2>1. \A i \in 1 .. 3 : ~(pub'.at > i)
    BY <1>2
  <2> QED
    BY <2>1 DEF FilesInv
<1>10. RunsInv'
  <2>1. ~(pub'.at > 1)
    BY <1>2
  <2> QED
    BY <1>1, <2>1 DEF PublishInv, RunsInv
<1>11. ArtifactsInv'
  <2>1. \A i \in 1 .. 6 : ~(pub'.at > i)
    BY <1>2
  <2>2. \A i \in 1 .. FilesOf(pub'.job) : i \in 1 .. 6
    BY DEF FilesOf
  <2> QED
    BY <2>1, <2>2 DEF ArtifactsInv
<1> QED
  BY <1>5, <1>6, <1>7, <1>8, <1>9, <1>10, <1>11 DEF PublishInv

\* An effect goes through.
LEMMA AdvanceKeeps == ASSUME PublishInv, AdvanceJob PROVE PublishInv'
<1> USE DEF PublishInv
<1>0. PublishType /\ Publishing /\ PackagesInv /\ BundlesInv /\ IndexInv /\ FilesInv /\ RunsInv /\ ArtifactsInv
  BY DEF AdvanceJob
<1>1. /\ Perform(Now) /\ UNCHANGED <<jobs, faults>>
      /\ IF pub.at = Len(EffectsOf(pub.job))
         THEN pub' = IdleJob /\ receipts' = receipts \cup {pub.job}
         ELSE pub' = [pub EXCEPT !.at = @ + 1] /\ receipts' = receipts
  BY DEF AdvanceJob, Now
<1>2. Onwards /\ (receipts' = receipts \/ (receipts' = receipts \cup {pub.job} /\ pub.at = Len(EffectsOf(pub.job))))
  <2>1. pub = [job |-> pub.job, at |-> pub.at]
    BY <1>0, NowIs
  <2>2. [pub EXCEPT !.at = @ + 1] = [job |-> pub.job, at |-> pub.at + 1]
    BY <2>1
  <2> QED
    BY <1>1, <2>2 DEF Onwards
<1>3. AreLines(eventLog) /\ AreLines(index)
  BY <1>0 DEF PublishType
<1>10. RunsInv'
  <2>1. DOMAIN store \subseteq DOMAIN store' /\ onChain \subseteq onChain' /\ (Now.op = "submit" => Now.doc \in onChain')
    BY <1>1 DEF Perform, PerformPut, PerformEvent, PerformSubmit, PerformWrite, PerformLine, PerformCommit, Put
  <2> QED
    BY <1>0, <1>2, <2>1, RunsStep
<1>11. ArtifactsInv'
  <2>1. \/ Now.op = "write" /\ dir' = Put(dir, Now.at, [doc |-> Now.doc, state |-> "whole"])
        \/ dir' = dir /\ Now.op # "write"
    BY <1>1 DEF Perform, PerformPut, PerformEvent, PerformSubmit, PerformWrite, PerformLine, PerformCommit
  <2> QED
    BY <1>0, <1>2, <2>1, ArtifactsStep
<1>4. CASE PerformPut(Now)
  <2>1. Now.op = "put" /\ store' = Put(store, Now.doc, "whole") /\ UNCHANGED <<eventLog, onChain, dir, index, repo>>
    BY <1>4 DEF PerformPut
  <2>2. PublishType'
    BY <1>0, <1>1, <1>2, <1>3, <2>1, TypeOnwards
  <2>3. PackagesInv'
    BY <1>0, <1>1, <1>2, <2>1, PackagePut
  <2>4. BundlesInv'
    BY <1>0, <1>2, <2>1, BundleStep
  <2>5. IndexInv'
    BY <1>0, <1>2, <2>1, IndexStep
  <2>6. FilesInv'
    BY <1>0, <1>2, <2>1, FilesStep
  <2> QED
    BY <1>10, <1>11, <2>2, <2>3, <2>4, <2>5, <2>6
<1>5. CASE PerformEvent(Now)
  <2>1. /\ Now.op = "event" /\ UNCHANGED <<store, onChain, dir, index, repo>>
        /\ \/ eventLog' = eventLog /\ \E i \in 1 .. Len(eventLog) : eventLog[i].entry.of = Now.doc
           \/ IsAppended(eventLog', eventLog, [of |-> Now.doc, to |-> Now.at])
    <3>1. IsAppended(Appended(eventLog, [of |-> Now.doc, to |-> Now.at], TRUE, TRUE), eventLog, [of |-> Now.doc, to |-> Now.at])
      BY <1>3, AppendedIs
    <3>2. DOMAIN eventLog = 1 .. Len(eventLog)
      BY <1>3 DEF AreLines, IsTuple
    <3> QED
      BY <1>5, <3>1, <3>2 DEF PerformEvent, Logged
  <2>2. AreLines(eventLog)' /\ AreLines(index)'
    BY <1>3, <2>1 DEF IsAppended, AreLines
  <2>3. PublishType'
    BY <1>0, <1>1, <1>2, <2>1, <2>2, TypeOnwards
  <2>4. PackagesInv'
    BY <1>0, <1>1, <1>2, <2>1, PackageEvent
  <2>5. BundlesInv'
    BY <1>0, <1>2, <2>1, BundleStep
  <2>6. IndexInv'
    BY <1>0, <1>2, <2>1, IndexStep
  <2>7. FilesInv'
    BY <1>0, <1>2, <2>1, FilesStep
  <2> QED
    BY <1>10, <1>11, <2>3, <2>4, <2>5, <2>6, <2>7
<1>6. CASE PerformSubmit(Now)
  <2>1. Now.op = "submit" /\ onChain' = onChain \cup {Now.doc} /\ UNCHANGED <<store, eventLog, dir, index, repo>>
    BY <1>6 DEF PerformSubmit
  <2>2. PublishType'
    BY <1>0, <1>1, <1>2, <1>3, <2>1, TypeOnwards
  <2>3. PackagesInv'
    BY <1>0, <1>1, <1>2, <2>1, PackageOther
  <2>4. BundlesInv'
    BY <1>0, <1>2, <2>1, BundleStep
  <2>5. IndexInv'
    BY <1>0, <1>2, <2>1, IndexStep
  <2>6. FilesInv'
    BY <1>0, <1>2, <2>1, FilesStep
  <2> QED
    BY <1>10, <1>11, <2>2, <2>3, <2>4, <2>5, <2>6
<1>7. CASE PerformWrite(Now)
  <2>1. /\ Now.op = "write" /\ dir' = Put(dir, Now.at, [doc |-> Now.doc, state |-> "whole"])
        /\ UNCHANGED <<store, eventLog, onChain, index, repo>>
    BY <1>7 DEF PerformWrite
  <2>2. PublishType'
    BY <1>0, <1>1, <1>2, <1>3, <2>1, TypeOnwards
  <2>3. PackagesInv'
    BY <1>0, <1>1, <1>2, <2>1, PackageOther
  <2>4. BundlesInv'
    BY <1>0, <1>2, <2>1, BundleStep
  <2>5. IndexInv'
    BY <1>0, <1>2, <2>1, IndexStep
  <2>6. FilesInv'
    BY <1>0, <1>2, <2>1, FilesStep
  <2> QED
    BY <1>10, <1>11, <2>2, <2>3, <2>4, <2>5, <2>6
<1>8. CASE PerformLine(Now)
  <2>1. Now.op = "line" /\ index' = Appended(index, Now.doc, TRUE, TRUE) /\ UNCHANGED <<store, eventLog, onChain, dir, repo>>
    BY <1>8 DEF PerformLine
  <2>2. IsAppended(index', index, Now.doc)
    BY <1>3, <2>1, AppendedIs
  <2>3. AreLines(eventLog)' /\ AreLines(index)'
    BY <1>3, <2>1, <2>2 DEF IsAppended, AreLines
  <2>4. PublishType'
    BY <1>0, <1>1, <1>2, <2>1, <2>3, TypeOnwards
  <2>5. PackagesInv'
    BY <1>0, <1>1, <1>2, <2>1, PackageOther
  <2>6. BundlesInv'
    BY <1>0, <1>2, <2>1, BundleStep
  <2>7. IndexInv'
    BY <1>0, <1>2, <2>1, <2>2, IndexStep
  <2>8. FilesInv'
    BY <1>0, <1>2, <2>1, FilesStep
  <2> QED
    BY <1>10, <1>11, <2>4, <2>5, <2>6, <2>7, <2>8
<1>9. CASE PerformCommit(Now)
  <2>1. Now.op = "commit" /\ repo' = [dir |-> dir, index |-> index] /\ UNCHANGED <<store, eventLog, onChain, dir, index>>
    BY <1>9 DEF PerformCommit
  <2>2. PublishType'
    BY <1>0, <1>1, <1>2, <1>3, <2>1, TypeOnwards
  <2>3. PackagesInv'
    BY <1>0, <1>1, <1>2, <2>1, PackageOther
  <2>4. BundlesInv'
    BY <1>0, <1>2, <2>1, BundleStep
  <2>5. IndexInv'
    BY <1>0, <1>2, <2>1, IndexStep
  <2>6. FilesInv'
    BY <1>0, <1>2, <2>1, FilesStep
  <2> QED
    BY <1>10, <1>11, <2>2, <2>3, <2>4, <2>5, <2>6
<1> QED
  BY <1>1, <1>4, <1>5, <1>6, <1>7, <1>8, <1>9 DEF Perform

\* A publication ends early: what was done stays, and the chain may have the
\* hash it was given.
LEMMA StopKeeps ==
  ASSUME PublishInv, Publishing, pub' = IdleJob, UNCHANGED <<store, eventLog, dir, index, repo, receipts>>,
         onChain' = onChain \/ (Now.op = "submit" /\ onChain' = onChain \cup {Now.doc})
  PROVE  PublishInv'
<1>0. PublishType /\ PackagesInv /\ BundlesInv /\ IndexInv /\ FilesInv /\ RunsInv /\ ArtifactsInv /\ Onwards
  BY DEF PublishInv, Onwards
<1>1. AreLines(eventLog)' /\ AreLines(index)'
  BY <1>0 DEF PublishType
<1>2. PublishType'
  BY <1>0, <1>1, TypeOnwards
<1>3. PackagesInv'
  BY <1>0, PackageOther
<1>4. BundlesInv'
  BY <1>0, BundleStep
<1>5. IndexInv'
  BY <1>0, IndexStep
<1>6. FilesInv'
  BY <1>0, FilesStep
<1>7. RunsInv'
  BY <1>0, RunsStep
<1>8. ArtifactsInv'
  BY <1>0, ArtifactsStep
<1> QED
  BY <1>2, <1>3, <1>4, <1>5, <1>6, <1>7, <1>8 DEF PublishInv

\* A crash tears the file or the line that is being written.
LEMMA TearKeeps == ASSUME PublishInv, Tear PROVE PublishInv'
<1>0. PublishType /\ PackagesInv /\ BundlesInv /\ IndexInv /\ FilesInv /\ RunsInv /\ ArtifactsInv /\ Onwards /\ Publishing
      /\ pub' = IdleJob /\ UNCHANGED <<onChain, repo, receipts>>
  BY DEF PublishInv, Onwards, Tear
<1>1. AreLines(eventLog) /\ AreLines(index)
  BY <1>0 DEF PublishType
<1>2. PICK good \in BOOLEAN :
        \/ Now.op = "put" /\ store' = Put(store, Now.doc, "torn") /\ UNCHANGED <<eventLog, dir, index>>
        \/ Now.op = "write" /\ UNCHANGED <<store, eventLog, index>>
        \/ /\ Now.op = "event" /\ eventLog' = Appended(eventLog, [of |-> Now.doc, to |-> Now.at], good, FALSE)
           /\ UNCHANGED <<store, dir, index>>
        \/ Now.op = "line" /\ index' = Appended(index, Now.doc, good, FALSE) /\ UNCHANGED <<store, eventLog, dir>>
  BY DEF Tear, Now
<1>3. /\ eventLog' = eventLog \/ (Now.op = "event" /\ IsAppended(eventLog', eventLog, [of |-> Now.doc, to |-> Now.at]))
      /\ index' = index \/ (Now.op = "line" /\ IsAppended(index', index, Now.doc))
  BY <1>1, <1>2, AppendedIs
<1>4. AreLines(eventLog)' /\ AreLines(index)'
  BY <1>1, <1>3 DEF IsAppended, AreLines
<1>5. PublishType'
  BY <1>0, <1>2, <1>4, TypeOnwards
<1>6. PackagesInv'
  <2>1. CASE Now.op = "put" /\ store' = Put(store, Now.doc, "torn") /\ UNCHANGED <<eventLog, dir, index>>
    BY <1>0, <2>1, PackagePut
  <2>2. CASE Now.op = "event" /\ IsAppended(eventLog', eventLog, [of |-> Now.doc, to |-> Now.at]) /\ UNCHANGED store
    BY <1>0, <2>2, PackageEvent
  <2>3. CASE UNCHANGED <<store, eventLog>>
    BY <1>0, <2>3, PackageOther
  <2> QED
    BY <1>2, <1>3, <2>1, <2>2, <2>3
<1>7. BundlesInv'
  BY <1>0, <1>2, BundleStep
<1>8. IndexInv'
  BY <1>0, <1>3, IndexStep
<1>9. FilesInv'
  BY <1>0, FilesStep
<1>10. RunsInv'
  <2>1. DOMAIN store \subseteq DOMAIN store'
    BY <1>2 DEF Put
  <2> QED
    BY <1>0, <2>1, RunsStep
<1>11. ArtifactsInv'
  BY <1>0, ArtifactsStep
<1> QED
  BY <1>5, <1>6, <1>7, <1>8, <1>9, <1>10, <1>11 DEF PublishInv

\* Every step keeps the invariant.
LEMMA PublishKeeps == ASSUME PublishInv, [PublishNext]_publishVars PROVE PublishInv'
<1>1. CASE UNCHANGED publishVars
  BY <1>1 DEF publishVars, PublishInv, PublishType, PackagesInv, BundlesInv, IndexInv, FilesInv, RunsInv, ArtifactsInv
<1>2. ASSUME NEW work \in Jobs, Begin(work) PROVE PublishInv'
  BY <1>2, BeginKeeps
<1>3. CASE AdvanceJob
  BY <1>3, AdvanceKeeps
<1>4. CASE RefuseJob
  BY <1>4, StopKeeps DEF RefuseJob
<1>5. CASE Fail
  <2>1. /\ Publishing /\ pub' = IdleJob /\ UNCHANGED <<store, eventLog, dir, index, repo, receipts>>
        /\ onChain' \in {onChain} \cup (IF Now.op = "submit" THEN {onChain \cup {Now.doc}} ELSE {})
    BY <1>5 DEF Fail, Now
  <2>2. onChain' = onChain \/ (Now.op = "submit" /\ onChain' = onChain \cup {Now.doc})
    BY <2>1
  <2> QED
    BY <2>1, <2>2, StopKeeps
<1>6. CASE Tear
  BY <1>6, TearKeeps
<1> QED
  BY <1>1, <1>2, <1>3, <1>4, <1>5, <1>6 DEF PublishNext

-----------------------------------------------------------------------------
\* The manifest found for a content hash is the first that was logged for it.
LEMMA ManifestFound ==
  ASSUME PublishInv, NEW h, h.kind = "payload", ReadableLines(eventLog), Told(eventLog, h)
  PROVE  LET m == FindManifest(h)
         IN /\ m.kind = "packageManifest" /\ m.by \in Authors /\ h = Payload(m.of) /\ m.sig = m.ref
            /\ {h, m} \subseteq DOMAIN store
<1> DEFINE S == {i \in DOMAIN eventLog : eventLog[i].entry.of = h /\ h.kind = "payload"}
           k == Min(S)
           m == FindManifest(h)
<1>1. DOMAIN eventLog = 1 .. Len(eventLog) /\ Len(eventLog) \in Nat
  BY DEF PublishInv, PublishType, AreLines, IsTuple
<1>2. S # {} /\ S \in SUBSET Nat
  BY <1>1 DEF Told
<1>3. k \in S
  <2>1. \E x \in S : \A y \in S : x <= y
    <3> HIDE DEF S
    <3> QED
      BY <1>2, NatMin
  <2> HIDE DEF S
  <2> QED
    BY <2>1 DEF Min
<1>4. m = eventLog[k].entry.to
  BY <1>2 DEF FindManifest
<1> HIDE DEF k
<1>5. k \in 1 .. Len(eventLog) /\ eventLog[k].entry.of = h
  BY <1>1, <1>3
<1>6. Linked(store, eventLog[k].entry)
  BY <1>5 DEF PublishInv, PackagesInv
<1> HIDE DEF m
<1> QED
  BY <1>4, <1>5, <1>6 DEF Linked, m

\* A package the log tells of can be retrieved, unless its manifest is torn.
LEMMA ToldRetrieved ==
  ASSUME PublishInv, NEW h, h.kind = "payload", ReadableLines(eventLog), Told(eventLog, h)
  PROVE  /\ FindManifest(h) # Nowhere /\ {h, FindManifest(h)} \subseteq DOMAIN store
         /\ Retrievable(h) \/ store[FindManifest(h)] = "torn"
         /\ Retrievable(h) => store[FindManifest(h)] = "whole"
<1> DEFINE m == FindManifest(h)
<1>1. m.kind = "packageManifest" /\ {h, m} \subseteq DOMAIN store
  BY ManifestFound
<1>2. Nowhere.kind = "nowhere"
  BY DEF Nowhere, Plain, Doc
<1> HIDE DEF m
<1>3. m # Nowhere /\ Get(store, m, "absent") = store[m] /\ store[m] \in {"whole", "torn"}
  BY <1>1, <1>2 DEF Get, PublishInv, PublishType
<1> QED
  BY <1>1, <1>3 DEF Retrievable, m

\* What the chain has of packages verifies.
LEMMA OnChainHolds == ASSUME PublishInv PROVE OnChainVerifies
<1> SUFFICES ASSUME NEW h \in onChain, h.kind = "payload", ReadableLines(eventLog)
             PROVE  /\ FindManifest(h) # Nowhere /\ {h, FindManifest(h)} \subseteq DOMAIN store
                    /\ Retrievable(h) \/ store[FindManifest(h)] = "torn"
                    /\ Cardinality({a \in Authors : VerifyPackage(h, a)}) = (IF Loaded(h) THEN 1 ELSE 0)
  BY DEF OnChainVerifies
<1> DEFINE m == FindManifest(h)
           V == {a \in Authors : VerifyPackage(h, a)}
<1>1. Told(eventLog, h)
  BY DEF PublishInv, PackagesInv
<1>2. /\ m.kind = "packageManifest" /\ m.by \in Authors /\ h = Payload(m.of) /\ m.sig = m.ref /\ h \in DOMAIN store
  BY <1>1, ManifestFound
<1>3. \A a : VerifyPackage(h, a) <=> store[h] = "whole" /\ m.by = a
  BY <1>2 DEF VerifyPackage, SignedBy
<1>4. Loaded(h) <=> store[h] = "whole"
  BY <1>2 DEF Loaded, Get
<1> HIDE DEF m
<1>5. CASE Loaded(h)
  <2>1. V = {m.by}
    BY <1>2, <1>3, <1>4, <1>5
  <2> HIDE DEF V
  <2>2. Cardinality(V) = 1
    BY <2>1, FS_Singleton
  <2> QED
    BY <1>1, <1>5, <2>2, ToldRetrieved DEF V
<1>6. CASE ~Loaded(h)
  <2>1. V = {}
    BY <1>3, <1>4, <1>6
  <2> HIDE DEF V
  <2>2. Cardinality(V) = 0
    BY <2>1, FS_EmptySet
  <2> QED
    BY <1>1, <1>6, <2>2, ToldRetrieved DEF V
<1> QED
  BY <1>5, <1>6

\* A stored bundle loads.
LEMMA BundlesHold == ASSUME PublishInv PROVE BundleIsLoadable
<1> SUFFICES ASSUME NEW b \in DOMAIN store, b.kind = "bundle"
             PROVE  /\ PartsOf(b) \subseteq DOMAIN store
                    /\ (\A d \in PartsOf(b) : store[d] = "whole") => ProofVerifies(b, b.by)
  BY DEF BundleIsLoadable, PartsOf
<1> DEFINE q == [b EXCEPT !.kind = "proof"]
<1>1. PartsOf(b) \subseteq DOMAIN store /\ b = Doc("bundle", b.by, b.of, b.ref, b.ref)
  BY DEF PublishInv, BundlesInv
<1>2. q = Doc("proof", b.by, b.of, b.ref, b.ref)
  BY <1>1 DEF Doc
<1>3. [q EXCEPT !.kind = "bundle"] = b /\ q.by = b.by /\ q.sig = q.ref
  <2>1. [Doc("proof", b.by, b.of, b.ref, b.ref) EXCEPT !.kind = "bundle"] = Doc("bundle", b.by, b.of, b.ref, b.ref)
    BY DEF Doc
  <2>2. Doc("proof", b.by, b.of, b.ref, b.ref).by = b.by /\ Doc("proof", b.by, b.of, b.ref, b.ref).sig = Doc("proof", b.by, b.of, b.ref, b.ref).ref
    BY DEF Doc
  <2> HIDE DEF q
  <2> QED
    BY <1>1, <1>2, <2>1, <2>2
<1> SUFFICES ASSUME \A d \in PartsOf(b) : store[d] = "whole" PROVE ProofVerifies(b, b.by)
  BY <1>1
<1>4. Loaded(q) /\ Loaded(Plain("scorecard", b.of)) /\ Loaded(Plain("evidence", b.of))
  BY <1>1 DEF PartsOf, Loaded, Get
<1> QED
  BY <1>3, <1>4 DEF ProofVerifies, OfflineVerifies, SignedBy

\* The entry of a written root is the file of that name.
LEMMA WrittenRootIs ==
  ASSUME NEW work, IsJob(work), work.op = "artifact", NEW name \in KnownPaths(work.graph)
  PROVE  \E i \in 1 .. FilesOf(work) : /\ ArtifactFiles(work)[i][1] = name
                                      /\ WrittenRoot(work)[name] = [doc |-> ArtifactFiles(work)[i][2], state |-> "whole"]
<1> DEFINE f == ArtifactFiles(work)
           c == CHOOSE i \in DOMAIN f : f[i][1] = name
<1>1. work.graph \in BOOLEAN
  BY DEF IsJob, Jobs
<1>2. /\ DOMAIN f = 1 .. FilesOf(work)
      /\ f[1][1] = "paper" /\ f[2][1] = "manifest" /\ f[3][1] = "scorecard" /\ f[4][1] = "bundle" /\ f[5][1] = "card"
      /\ work.graph => f[6][1] = "graph"
  BY <1>1, ArtifactFilesAre DEF FilesOf
<1>3. WrittenRoot(work)[name] = [doc |-> f[c][2], state |-> "whole"]
  BY DEF WrittenRoot
<1> HIDE DEF f
<1>4. \E i \in DOMAIN f : f[i][1] = name
  <2>1. 1 \in DOMAIN f /\ 2 \in DOMAIN f /\ 3 \in DOMAIN f /\ 4 \in DOMAIN f /\ 5 \in DOMAIN f /\ (work.graph => 6 \in DOMAIN f)
    BY <1>1, <1>2 DEF FilesOf
  <2>2. name \in {"paper", "manifest", "scorecard", "bundle", "card"} \/ (work.graph /\ name = "graph")
    BY <1>1 DEF KnownPaths
  <2> QED
    BY <1>2, <2>1, <2>2
<1>5. c \in DOMAIN f /\ f[c][1] = name
  BY <1>4
<1> HIDE DEF c
<1> QED
  BY <1>2, <1>3, <1>5 DEF f

\* A directory reads back as it was written.
LEMMA RootHolds == ASSUME PublishInv PROVE RootIsRead
<1> SUFFICES ASSUME pub.job.op = "artifact", pub.at = Len(EffectsOf(pub.job)), ~(HasGraph /\ ~pub.job.graph)
             PROVE  DirReadable /\ ReadRoot = WrittenRoot(pub.job)
  BY DEF RootIsRead
<1> DEFINE work == pub.job
           f == ArtifactFiles(work)
<1>1. IsJob(work) /\ work.graph \in BOOLEAN
  <2>1. pub # IdleJob
    BY DEF IdleJob
  <2> QED
    BY <2>1 DEF PublishInv, PublishType, IsJob, Jobs
<1>2. pub.at = FilesOf(work) + 1 /\ FilesOf(work) \in Nat
  BY <1>1, ArtifactEffects DEF FilesOf
<1>3. \A i \in 1 .. FilesOf(work) :
        ArtifactPath(f[i][1]) \in DOMAIN dir /\ dir[ArtifactPath(f[i][1])] = [doc |-> f[i][2], state |-> "whole"]
  <2>1. \A i \in 1 .. FilesOf(work) : pub.at > i
    BY <1>2
  <2> QED
    BY <2>1 DEF PublishInv, ArtifactsInv, Written
<1>4. ASSUME NEW name \in KnownPaths(work.graph)
      PROVE  /\ ArtifactPath(name) \in DOMAIN dir /\ dir[ArtifactPath(name)].state = "whole"
             /\ WrittenRoot(work)[name] = dir[ArtifactPath(name)]
  <2>1. PICK i \in 1 .. FilesOf(work) : f[i][1] = name /\ WrittenRoot(work)[name] = [doc |-> f[i][2], state |-> "whole"]
    BY <1>1, WrittenRootIs
  <2>2. ArtifactPath(name) \in DOMAIN dir /\ dir[ArtifactPath(name)] = [doc |-> f[i][2], state |-> "whole"]
    BY <1>3, <2>1
  <2> QED
    BY <2>1, <2>2
<1> HIDE DEF f
<1>5. HasGraph <=> work.graph
  <2>1. work.graph => "graph" \in KnownPaths(work.graph)
    BY DEF KnownPaths
  <2> QED
    BY <1>4, <2>1 DEF HasGraph
<1>6. KnownPaths(HasGraph) = KnownPaths(work.graph)
  BY <1>5 DEF KnownPaths
<1>7. DirReadable
  <2>1. \A name \in Parsed \cup (IF HasGraph THEN {"graph"} ELSE {}) : name \in KnownPaths(work.graph)
    BY <1>6 DEF Parsed, KnownPaths
  <2> QED
    BY <1>4, <1>6, <2>1 DEF DirReadable
<1>8. ReadRoot = WrittenRoot(work)
  <2>1. WrittenRoot(work) = [name \in KnownPaths(work.graph) |-> WrittenRoot(work)[name]]
    BY DEF WrittenRoot
  <2>2. ReadRoot = [name \in KnownPaths(work.graph) |-> dir[ArtifactPath(name)]]
    BY <1>6 DEF ReadRoot
  <2>3. [name \in KnownPaths(work.graph) |-> dir[ArtifactPath(name)]] = [name \in KnownPaths(work.graph) |-> WrittenRoot(work)[name]]
    BY <1>4
  <2> QED
    BY <2>1, <2>2, <2>3
<1> QED
  BY <1>7, <1>8

\* A released reward was earned, and what it is for is stored and on the chain.
LEMMA RewardsHold == ASSUME PublishInv PROVE RewardIsBacked
<1> SUFFICES ASSUME NEW work \in receipts, work.op = "run", StageOf(OutcomeOf(work)) = "reward"
             PROVE  /\ RunReports[work.of] # <<>> /\ \A i \in DOMAIN RunReports[work.of] : RunReports[work.of][i]
                    /\ {Plain("evidence", work.of), Plain("scorecard", work.of), ProofManifest(work, work.anchored), Bundle(work)} \subseteq DOMAIN store
                    /\ work.anchored => ProofManifest(work, FALSE) \in onChain
  BY DEF RewardIsBacked
<1> DEFINE r == RunReports[work.of]
<1>1. RewardReleased(r)
  <2>1. OutcomeOf(work).reward = RewardReleased(r) /\ OutcomeOf(work).committed = TRUE
    BY DEF OutcomeOf
  <2> QED
    BY <2>1 DEF StageOf
<1>2. (\A i \in DOMAIN r : r[i]) /\ Cardinality({i \in DOMAIN r : r[i]}) >= 1
  BY <1>1 DEF RewardReleased
<1>3. ASSUME r = <<>> PROVE FALSE
  <2>1. {i \in DOMAIN r : r[i]} = {}
    BY <1>3
  <2>2. Cardinality({i \in DOMAIN r : r[i]}) = 0
    BY <2>1, FS_EmptySet
  <2> QED
    BY <1>2, <2>2
<1>4. /\ \A k \in 1 .. 4 : RunDoc(work, k) \in DOMAIN store
      /\ work.anchored => ProofManifest(work, FALSE) \in onChain
  BY DEF PublishInv, RunsInv
<1>5. RunDoc(work, 1) \in DOMAIN store /\ RunDoc(work, 2) \in DOMAIN store /\ RunDoc(work, 3) \in DOMAIN store /\ RunDoc(work, 4) \in DOMAIN store
  BY <1>4
<1>6. /\ RunDoc(work, 1) = Plain("evidence", work.of) /\ RunDoc(work, 2) = Plain("scorecard", work.of)
      /\ RunDoc(work, 3) = ProofManifest(work, work.anchored) /\ RunDoc(work, 4) = Bundle(work)
  BY DEF RunDoc
<1> QED
  BY <1>2, <1>3, <1>4, <1>5, <1>6

\* What a paper says is in the committed index.
LEMMA IndexHolds == ASSUME PublishInv PROVE IndexKeepsStatus
<1> SUFFICES ASSUME NEW work \in receipts, work.op = "paper", IndexReadable, NEW i \in DOMAIN GraphOf(ConceptsOf[work.of])
             PROVE  \E row \in IndexRows : SaysOf(row, work.of, GraphOf(ConceptsOf[work.of])[i])
  BY DEF IndexKeepsStatus, SaysOf
<1>1. work.of \in Papers
  BY DEF PublishInv, PublishType, IsJob, Jobs
<1>2. i \in 1 .. Len(EntriesFor(work.of)) /\ SaysOf(EntriesFor(work.of)[i], work.of, GraphOf(ConceptsOf[work.of])[i])
  BY <1>1, EntriesAre
<1>3. Listed(repo.index, work.of, i) /\ AreLines(repo.index)
  BY <1>2 DEF PublishInv, IndexInv
<1>4. PICK j \in 1 .. Len(repo.index) : repo.index[j].entry = EntriesFor(work.of)[i]
  BY <1>3 DEF Listed, IndexReadable
<1>5. DOMAIN repo.index = 1 .. Len(repo.index)
  BY <1>3 DEF AreLines, IsTuple
<1>6. EntriesFor(work.of)[i] \in IndexRows
  BY <1>4, <1>5 DEF IndexRows
<1> QED
  BY <1>2, <1>6

\* Publication of research is safe through any stop between two effects, retries
\* that give the same manifest again included (commit_service.rs, pipeline.rs,
\* artifact_format, concept_index.rs): what the chain points to can be found and,
\* unless a crash cut its manifest, verifies for its one author; a stored bundle
\* loads; a directory reads back as written; a released reward is backed; the
\* committed index keeps what was found out.
THEOREM PublicationIsSafe == PublishSpec => []PublishSafe
<1>1. PublishInit => PublishInv
  BY PublishStart
<1>2. PublishInv /\ [PublishNext]_publishVars => PublishInv'
  BY PublishKeeps
<1>3. PublishInv => PublishSafe
  BY OnChainHolds, BundlesHold, RootHolds, RewardsHold, IndexHolds DEF PublishSafe
<1> QED
  BY <1>1, <1>2, <1>3, PTL DEF PublishSpec

\* A hash new on the chain was submitted by the publication under way.
LEMMA SubmittedNow ==
  ASSUME PublishInv, PublishNext, NEW h \in onChain', h \notin onChain
  PROVE  Publishing /\ Now.op = "submit" /\ h = Now.doc
<1>1. CASE \E work \in Jobs : Begin(work)
  BY <1>1 DEF Begin
<1>2. CASE AdvanceJob
  <2>1. Perform(Now) /\ Publishing
    BY <1>2 DEF AdvanceJob, Now
  <2> QED
    BY <2>1 DEF Perform, PerformPut, PerformEvent, PerformSubmit, PerformWrite, PerformLine, PerformCommit
<1>3. CASE RefuseJob
  BY <1>3 DEF RefuseJob
<1>4. CASE Fail
  <2>1. Publishing /\ onChain' \in {onChain} \cup (IF Now.op = "submit" THEN {onChain \cup {Now.doc}} ELSE {})
    BY <1>4 DEF Fail, Now
  <2> QED
    BY <2>1
<1>5. CASE Tear
  BY <1>5 DEF Tear
<1> QED
  BY <1>1, <1>2, <1>3, <1>4, <1>5 DEF PublishNext

\* A hash goes to the chain only when what it commits to can be had, except for a
\* package whose first manifest, of an earlier publication, a crash cut
\* (commit_service.rs, artifact_store.rs put, event_log.rs append).
THEOREM AnchorsAreBacked == PublishSpec => AnchoredIsBacked
<1>1. PublishInit => PublishInv
  BY PublishStart
<1>2. PublishInv /\ [PublishNext]_publishVars => PublishInv'
  BY PublishKeeps
<1>3. ASSUME PublishInv, [PublishNext]_publishVars, NEW h \in onChain' \ onChain
      PROVE  /\ h.kind = "payload" =>
                  /\ Loaded(h)
                  /\ ReadableLines(eventLog) /\ ~Retrievable(h) =>
                       FindManifest(h) # PackageManifest(pub.job) /\ Get(store, FindManifest(h), "absent") = "torn"
             /\ h.kind = "root" => \A i \in DOMAIN PaperFiles :
                  Get(dir, PaperPath(h.of, PaperFiles[i]), [doc |-> h, state |-> "absent"]).state = "whole"
  <2>1. PublishNext
    BY <1>3 DEF publishVars
  <2>2. Publishing /\ Now.op = "submit" /\ h = Now.doc
    BY <1>3, <2>1, SubmittedNow
  <2>3. SubmitAs(pub.job, pub.at, h)
    BY <1>3, <2>2, NowIs DEF PublishInv, StepAs
  <2>4. ASSUME h.kind = "payload"
        PROVE  /\ Loaded(h)
               /\ ReadableLines(eventLog) /\ ~Retrievable(h) =>
                    FindManifest(h) # PackageManifest(pub.job) /\ Get(store, FindManifest(h), "absent") = "torn"
    <3>1. PaperRoot(pub.job.of).kind = "root"
      BY DEF PaperRoot, Plain, Doc
    <3>2. pub.job.op = "package" /\ pub.at = 4 /\ h = Payload(pub.job.of)
      BY <2>3, <2>4, <3>1 DEF SubmitAs
    <3>3. HasWhole(store, h) /\ Told(eventLog, h) /\ HasWhole(store, PackageManifest(pub.job))
      BY <1>3, <3>2 DEF PublishInv, PackagesInv
    <3>4. ASSUME ReadableLines(eventLog), ~Retrievable(h)
          PROVE  FindManifest(h) \in DOMAIN store /\ store[FindManifest(h)] = "torn"
      BY <1>3, <2>4, <3>3, <3>4, ToldRetrieved
    <3> QED
      BY <3>3, <3>4 DEF Loaded, HasWhole, Get
  <2>5. ASSUME h.kind = "root", NEW i \in DOMAIN PaperFiles
        PROVE  Get(dir, PaperPath(h.of, PaperFiles[i]), [doc |-> h, state |-> "absent"]).state = "whole"
    <3>1. Payload(pub.job.of).kind = "payload" /\ PaperRoot(pub.job.of).of = pub.job.of
      BY DEF PaperRoot, Payload, Plain, Doc
    <3>2. pub.job.op = "paper" /\ pub.at = 4 /\ h.of = pub.job.of
      BY <2>3, <2>5, <3>1 DEF SubmitAs
    <3>3. i \in 1 .. 3
      BY DEF PaperFiles
    <3>4. PaperPath(h.of, PaperFiles[i]) \in DOMAIN dir /\ dir[PaperPath(h.of, PaperFiles[i])].state = "whole"
      BY <1>3, <3>2, <3>3 DEF PublishInv, FilesInv
    <3> QED
      BY <3>4 DEF Get
  <2> QED
    BY <2>4, <2>5
<1>4. PublishInv /\ [PublishNext]_publishVars =>
        [\A h \in onChain' \ onChain :
           /\ h.kind = "payload" =>
                /\ Loaded(h)
                /\ ReadableLines(eventLog) /\ ~Retrievable(h) =>
                     FindManifest(h) # PackageManifest(pub.job) /\ Get(store, FindManifest(h), "absent") = "torn"
           /\ h.kind = "root" => \A i \in DOMAIN PaperFiles :
                Get(dir, PaperPath(h.of, PaperFiles[i]), [doc |-> h, state |-> "absent"]).state = "whole"]_publishVars
  BY <1>3
<1> QED
  BY <1>1, <1>2, <1>4, PTL DEF PublishSpec, AnchoredIsBacked

-----------------------------------------------------------------------------
(* What stands once it is made. *)

\* A proof in the file is in the index with the same block, or it was
\* forgotten: what makes a load harmless.
SavedStands ==
  \A p \in DOMAIN saved : p \in forgotten \/ (p \in DOMAIN committed /\ committed[p] = saved[p].block)

\* What a step does to the index, its file and what was forgotten.
LEMMA IndexMoves ==
  ASSUME [RlvrNext]_rlvrVars
  PROVE  \/ UNCHANGED <<committed, saved, forgotten>>
         \/ \E p, b : /\ p \notin DOMAIN committed /\ committed' = Put(committed, p, b)
                     /\ UNCHANGED <<saved, forgotten>>
         \/ \E p : committed' = Without(committed, {p}) /\ forgotten' = forgotten \cup {p} /\ UNCHANGED saved
         \/ committed' = Empty /\ forgotten' = forgotten \cup DOMAIN committed /\ UNCHANGED saved
         \/ /\ saved' = [p \in DOMAIN committed |-> [proof |-> p, block |-> committed[p]]]
            /\ UNCHANGED <<committed, forgotten>>
         \/ \E p, e : saved' = [saved EXCEPT ![p] = e] /\ forgotten' = forgotten \cup {p} /\ UNCHANGED committed
         \/ committed' = [h \in DOMAIN saved |-> saved[h].block] /\ UNCHANGED <<saved, forgotten>>
<1>1. CASE UNCHANGED rlvrVars
  BY <1>1 DEF rlvrVars
<1>2. CASE PoolStep
  BY <1>2 DEF PoolStep, SubmitProof, DropProof, DrainReady, BuildFailed, ApplyPayload, ForeignPayload,
              InsertDispute, proofVarsOnly
<1>3. CASE CommittedStep
  <2>1. ASSUME NEW p, NEW b, CommitProof(p, b)
        PROVE  p \notin DOMAIN committed /\ committed' = Put(committed, p, b) /\ UNCHANGED <<saved, forgotten>>
    BY <2>1 DEF CommitProof
  <2>2. ASSUME NEW p, RemoveCommitted(p)
        PROVE  committed' = Without(committed, {p}) /\ forgotten' = forgotten \cup {p} /\ UNCHANGED saved
    BY <2>2 DEF RemoveCommitted
  <2>3. CASE NewIndex
    BY <2>3 DEF NewIndex
  <2>4. CASE SaveIndex
    BY <2>4 DEF SaveIndex
  <2>5. CASE LoadIndex
    BY <2>5 DEF LoadIndex
  <2>6. ASSUME NEW p, NEW q, NEW b, DamageSaved(p, q, b)
        PROVE  \E e : saved' = [saved EXCEPT ![p] = e] /\ forgotten' = forgotten \cup {p} /\ UNCHANGED committed
    BY <2>6 DEF DamageSaved
  <2> QED
    BY <1>3, <2>1, <2>2, <2>3, <2>4, <2>5, <2>6 DEF CommittedStep
<1>4. CASE TraceStep
  BY <1>4 DEF TraceStep, OpenTraceStore, AppendRow, AppendMeta, CloseTraceStore, proofVarsOnly
<1> QED
  BY <1>1, <1>2, <1>3, <1>4 DEF RlvrNext

\* SavedStands is inductive, and under it a proof that stays keeps its block.
LEMMA CommittedStays ==
  ASSUME SavedStands, [RlvrNext]_rlvrVars
  PROVE  /\ SavedStands'
         /\ \A p \in DOMAIN committed \cap DOMAIN committed' : committed'[p] = committed[p] \/ p \in forgotten
<1>1. CASE UNCHANGED <<committed, saved, forgotten>>
  BY <1>1 DEF SavedStands
<1>2. ASSUME NEW p, NEW b, p \notin DOMAIN committed, committed' = Put(committed, p, b), UNCHANGED <<saved, forgotten>>
      PROVE  /\ SavedStands'
             /\ \A q \in DOMAIN committed \cap DOMAIN committed' : committed'[q] = committed[q]
  <2>1. \A q \in DOMAIN committed : q \in DOMAIN committed' /\ committed'[q] = committed[q]
    BY <1>2 DEF Put
  <2> QED
    BY <1>2, <2>1 DEF SavedStands
<1>3. ASSUME NEW p, committed' = Without(committed, {p}), forgotten' = forgotten \cup {p}, UNCHANGED saved
      PROVE  /\ SavedStands'
             /\ \A q \in DOMAIN committed \cap DOMAIN committed' : committed'[q] = committed[q]
  <2>1. \A q \in DOMAIN committed : q = p \/ (q \in DOMAIN committed' /\ committed'[q] = committed[q])
    BY <1>3 DEF Without
  <2>2. p \notin DOMAIN committed'
    BY <1>3 DEF Without
  <2> QED
    BY <1>3, <2>1, <2>2 DEF SavedStands
<1>4. CASE committed' = Empty /\ forgotten' = forgotten \cup DOMAIN committed /\ UNCHANGED saved
  <2>1. DOMAIN committed' = {}
    BY <1>4 DEF Empty
  <2> QED
    BY <1>4, <2>1 DEF SavedStands
<1>5. CASE /\ saved' = [p \in DOMAIN committed |-> [proof |-> p, block |-> committed[p]]]
           /\ UNCHANGED <<committed, forgotten>>
  BY <1>5 DEF SavedStands
<1>6. ASSUME NEW p, NEW e, saved' = [saved EXCEPT ![p] = e], forgotten' = forgotten \cup {p}, UNCHANGED committed
      PROVE  /\ SavedStands'
             /\ \A q \in DOMAIN committed \cap DOMAIN committed' : committed'[q] = committed[q]
  <2>1. DOMAIN saved' = DOMAIN saved /\ \A q \in DOMAIN saved : q # p => saved'[q] = saved[q]
    BY <1>6
  <2> QED
    BY <1>6, <2>1 DEF SavedStands
<1>7. CASE committed' = [h \in DOMAIN saved |-> saved[h].block] /\ UNCHANGED <<saved, forgotten>>
  BY <1>7 DEF SavedStands
<1> QED
  BY <1>1, <1>2, <1>3, <1>4, <1>5, <1>6, <1>7, IndexMoves

\* Nor does a step of the review packages settle again what is settled.
LEMMA SettledStays ==
  ASSUME [ReviewNext]_reviewVars
  PROVE  /\ bond \in {"slashed", "released"} => bond' = bond
         /\ appeal \in {"upheld", "denied"} => appeal' = appeal
         /\ season = "closed" => season' = season
         /\ \A v \in DOMAIN verifiers : v \in DOMAIN verifiers' /\ verifiers'[v] = verifiers[v]
<1>1. CASE UNCHANGED reviewVars
  BY <1>1 DEF reviewVars
<1>2. CASE LoadSkills
  BY <1>2 DEF LoadSkills
<1>3. CASE Call
  <2>1. CASE SeasonStep
    <3>1. DOMAIN SeasonAfter = {"draft", "open", "frozen", "final"}
      BY DEF SeasonAfter
    <3> QED
      BY <2>1, <3>1 DEF SeasonStep
  <2>2. CASE PostBond
    BY <2>2 DEF PostBond
  <2>3. ASSUME NEW to, SettleBond(to) PROVE bond = "posted" /\ UNCHANGED <<season, appeal, verifiers>>
    BY <2>3 DEF SettleBond
  <2>4. ASSUME NEW to, AppealStep(to)
        PROVE  appeal \notin {"upheld", "denied"} /\ UNCHANGED <<season, bond, verifiers>>
    <3>1. appeal \in {"none", "filed", "underReview"}
      BY <2>4 DEF AppealStep
    <3> QED
      BY <2>4, <3>1 DEF AppealStep
  <2>5. ASSUME NEW id, NEW version, InsertVerifier(id, version)
        PROVE  /\ UNCHANGED <<season, bond, appeal>>
               /\ \A v \in DOMAIN verifiers : v \in DOMAIN verifiers' /\ verifiers'[v] = verifiers[v]
    <3>1. CASE id \in DOMAIN verifiers
      BY <2>5, <3>1 DEF InsertVerifier
    <3>2. CASE id \notin DOMAIN verifiers
      BY <2>5, <3>2 DEF InsertVerifier, Put
    <3> QED
      BY <3>1, <3>2
  <2>6. CASE (\E ttl \in {1, WidthLimit} : IssueGrant(ttl)) \/ RevokeGrant \/ (\E n \in {1, WidthLimit - 1} : Consume(n)) \/ Tick
    BY <2>6 DEF IssueGrant, RevokeGrant, Consume, Tick
  <2> QED
    BY <1>3, <2>1, <2>2, <2>3, <2>4, <2>5, <2>6 DEF Call
<1> QED
  BY <1>1, <1>2, <1>3 DEF ReviewNext

\* Whatever steps the proofs of the learning harness, the publication of
\* packages and the review packages take side by side: a committed proof stays
\* in its block unless it was removed, lost or edited before (committed.rs
\* insert, load_from_path); a hash goes to the chain only when what it names
\* was loaded and, but for a manifest torn by a later retry, can be had
\* (commit_service.rs); and what is settled stays settled (challenge_bond.rs).
THEOREM MadeThingsStand == RlvrSpec /\ PublishSpec /\ ReviewSpec => StandsOnceMade
<1>1. RlvrSpec => CommitmentStands
  <2>1. RlvrInit => SavedStands
    BY DEF RlvrInit, SavedStands, Empty
  <2>2. SavedStands /\ [RlvrNext]_rlvrVars => SavedStands'
    BY CommittedStays
  <2>3. SavedStands /\ [RlvrNext]_rlvrVars =>
          [\A p \in DOMAIN committed \cap DOMAIN committed' :
             committed'[p] = committed[p] \/ p \in forgotten]_rlvrVars
    BY CommittedStays
  <2> QED
    BY <2>1, <2>2, <2>3, PTL DEF RlvrSpec, CommitmentStands
<1>2. ReviewSpec => SettledStands
  <2>1. [ReviewNext]_reviewVars =>
          [/\ bond \in {"slashed", "released"} => bond' = bond
           /\ appeal \in {"upheld", "denied"} => appeal' = appeal
           /\ season = "closed" => season' = season
           /\ \A v \in DOMAIN verifiers : v \in DOMAIN verifiers' /\ verifiers'[v] = verifiers[v]]_reviewVars
    BY SettledStays
  <2> QED
    BY <2>1, PTL DEF ReviewSpec, SettledStands
<1> QED
  BY <1>1, <1>2, AnchorsAreBacked DEF StandsOnceMade
=============================================================================
