------------------------------ MODULE HyperBft ------------------------------
(***************************************************************************)
(* The pipelined consensus of one leader: a block is proposed, voted on    *)
(* and committed in three stages that overlap (crates/consensus/src/       *)
(* hyperbft.rs, hyperbft_pipeline.rs and optimistic.rs, and the tick of    *)
(* crates/node/src/hyperbft_tick.rs; the build includes none of them).     *)
(*                                                                         *)
(* A block is its height, view, parent and a serial number, as two blocks  *)
(* of one leader differ in their time and transactions.  Votes of the      *)
(* others reach the leader in any order: a block is certifiable once a     *)
(* quorum of votes for it is in the pool.                                  *)
(***************************************************************************)
EXTENDS Values

CONSTANTS
  MaxSerial,      \* bound: blocks proposed
  MaxHyperView,        \* bound: views
  PipelineDepth   \* HyperBftConfig.pipeline_depth

ASSUME HyperAssumption == MaxSerial \in Nat /\ PipelineDepth \in Nat \ {0}

VARIABLES
  committed,   \* NodeInner.blocks, a sequence
  view,        \* NodeInner.view
  commitSlot,  \* ThreeStagePipeline.commit: a slot, as a set of at most one
  voteSlot,    \* ThreeStagePipeline.vote: [block, formed]
  quorums,     \* the blocks for which the vote pool has a quorum
  parentCert,  \* HyperBftPipeline.certified_parent: a block, as a set of at most one
  highQc,      \* high_prepare_qc: a block, as a set of at most one
  inFlight,    \* pending_commit_heights
  scratch,     \* OptimisticExecution.scratch: the block executed on it, or none
  serial       \* blocks proposed

hyperVars == <<committed, view, commitSlot, voteSlot, quorums, parentCert, highQc, inFlight, scratch, serial>>

Root == [height |-> 0, view |-> 0, parent |-> 0, serial |-> 0]
Tip == IF committed = <<>> THEN Root ELSE committed[Len(committed)]
Formed(b) == b \in quorums

\* resolve_parent_qc, in its order: genesis, a certificate from the votes, the pipeline's
\* certificate of the tip, the highest prepared certificate
ParentCertified == Tip = Root \/ Formed(Tip) \/ Tip \in parentCert \/ Tip \in highQc

\* enqueue_proposed: the block that was voted on moves to an empty commit stage, with
\* a certificate or without; a block that is not above the commit stage is lost.
Enqueued(commit, vote, b) ==
  IF \E s \in commit : s.block.height >= b.height THEN <<commit, vote>>
  ELSE <<IF commit = {} THEN vote ELSE commit, {[block |-> b, formed |-> FALSE]}>>

\* note_block_produced
Noted(heights, h) ==
  LET all == Append(heights, h)
      keep == 4 * PipelineDepth
  IN IF Len(all) > keep THEN SubSeq(all, Len(all) - keep + 1, Len(all)) ELSE all

\* clear_from_height
Cleared(slot, h) == {s \in slot : s.block.height < h}

\* A block joins the chain; its certificate, where formed, is kept for the next proposal.
CommitBlock(b) ==
  /\ committed' = Append(committed, b)
  /\ inFlight' = SelectSeq(inFlight, LAMBDA h : h # b.height)
  /\ parentCert' = IF Formed(b) THEN {b} ELSE parentCert
  /\ highQc' = IF Formed(b) THEN {b} ELSE highQc
  /\ scratch' = b.serial
  /\ UNCHANGED voteSlot

\* apply_synced_block fails: back to the state of the tip.
RollBack(b) ==
  /\ scratch' = Tip.serial
  /\ voteSlot' = Cleared(voteSlot, b.height)
  /\ UNCHANGED <<committed, inFlight, parentCert, highQc>>

\* Seeded defect: a block of any height is taken from the commit stage.
TickCommitAny(applies) ==
  /\ \E s \in commitSlot : CommitBlock(s.block)
  /\ commitSlot' = {}
  /\ UNCHANGED <<view, quorums, serial>>

\* The first part of hyperbft_three_stage_tick: the commit stage.  A block of another
\* height than the next is dropped, with what follows it, and the tick goes on.
TickCommit(applies) ==
  /\ \E s \in commitSlot :
       /\ s.block.height = Len(committed) + 1
       /\ IF applies THEN CommitBlock(s.block) ELSE RollBack(s.block)
  /\ commitSlot' = {}
  /\ UNCHANGED <<view, quorums, serial>>

\* The rest of the tick: a certified block moves from the vote to the commit stage, then
\* the leader of the view proposes on its tip, executed on a copy of the state.
TickPropose(mine) ==
  /\ \A s \in commitSlot : s.block.height # Len(committed) + 1
  /\ LET stale == {s.block.height : s \in commitSlot}
         left == {s \in voteSlot : \A h \in stale : s.block.height < h}
         voting == {[s EXCEPT !.formed = @ \/ Formed(s.block)] : s \in left}
         ready == {s \in voting : s.formed}
         b == [height |-> Len(committed) + 1, view |-> view, parent |-> Tip.serial, serial |-> serial + 1]
     IN IF mine /\ ParentCertified
        THEN /\ serial < MaxSerial
             /\ serial' = serial + 1
             /\ \E slots \in {Enqueued(ready, voting \ ready, b)} : commitSlot' = slots[1] /\ voteSlot' = slots[2]
             /\ inFlight' = Noted(inFlight, b.height)
             /\ scratch' = b.serial
             /\ parentCert' = IF Tip # Root /\ Formed(Tip) THEN {Tip} ELSE parentCert
        ELSE /\ commitSlot' = ready /\ voteSlot' = voting \ ready
             /\ UNCHANGED <<serial, inFlight, scratch, parentCert>>
  /\ UNCHANGED <<committed, view, quorums, highQc>>

\* Votes of the others complete a quorum for a block that was proposed and not lost.
GatherQuorum(b) ==
  /\ b \notin quorums
  /\ quorums' = quorums \cup {b}
  /\ UNCHANGED <<committed, view, commitSlot, voteSlot, parentCert, highQc, inFlight, scratch, serial>>

\* try_advance_view_on_timeout_quorum
AdvanceView ==
  /\ view < MaxHyperView /\ view' = view + 1
  /\ UNCHANGED <<committed, commitSlot, voteSlot, quorums, parentCert, highQc, inFlight, scratch, serial>>

HyperInit ==
  /\ committed = <<>> /\ view = 0 /\ commitSlot = {} /\ voteSlot = {} /\ quorums = {}
  /\ parentCert = {} /\ highQc = {} /\ inFlight = <<>> /\ scratch = 0 /\ serial = 0

HyperNext ==
  \/ \E applies \in BOOLEAN : TickCommit(applies)
  \/ \E mine \in BOOLEAN : TickPropose(mine)
  \/ \E b \in {s.block : s \in commitSlot \cup voteSlot} \cup {committed[i] : i \in DOMAIN committed} : GatherQuorum(b)
  \/ AdvanceView

HyperSpec == HyperInit /\ [][HyperNext]_hyperVars
-----------------------------------------------------------------------------
\* The pipeline commits a block before its certificate is formed when the next proposal
\* pushes it on; even so every block below the tip is certified, so at most one block,
\* the tip, can be undone by the others.
OnlyTipUncertified == \A i \in DOMAIN committed : i < Len(committed) => committed[i] \in quorums

\* The chain stays one chain though several blocks of one height are proposed and some
\* are lost, dropped or rolled back: heights follow one another, each on the last.
ChainLinked ==
  \A i \in DOMAIN committed :
    /\ committed[i].height = i
    /\ committed[i].parent = IF i = 1 THEN 0 ELSE committed[i - 1].serial
=============================================================================
