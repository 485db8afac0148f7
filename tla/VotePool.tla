------------------------------ MODULE VotePool ------------------------------
(***************************************************************************)
(* The vote pool of one validator (crates/consensus/src/vote.rs) and how   *)
(* its node feeds it (crates/node/src/lib.rs).                             *)
(*                                                                         *)
(* An honest validator commits blocks at ascending heights and signs a     *)
(* vote for each; nothing in the code makes two validators commit the same *)
(* block, so the model lets them commit any.  One that restarts resumes at *)
(* the height of its snapshot, with an empty pool and no memory of what it *)
(* signed above it.  Faulty validators sign anything.                      *)
(* Votes travel by gossip: a signed vote may reach the pool at any later   *)
(* time, any number of times, in any order, or never.                      *)
(*                                                                         *)
(* A header hash determines its header, hence its height and view.         *)
(***************************************************************************)
EXTENDS ValidatorSet

CONSTANTS
  Self,        \* the honest validator whose pool this is
  Hashes,      \* header hashes
  HeightOf,    \* the height in the header of a hash
  ViewOf,      \* the view in the header of a hash
  Views,       \* bound: views a vote can carry
  Heights,     \* bound: heights a vote can carry
  Indices,     \* bound: validator indices a vote can carry
  Retention,   \* VOTE_RETENTION_BLOCKS
  PruneBatch   \* BLOCK_PRUNE_BATCH

ASSUME VotePoolAssumption ==
  /\ Self \in Honest
  /\ HeightOf \in [Hashes -> Heights]
  /\ ViewOf \in [Hashes -> Views]
  /\ Views \subseteq Nat
  /\ Heights \subseteq Nat \ {0}
  /\ Indices \subseteq Nat /\ Validators \subseteq Indices
  /\ Retention \in Nat \ {0}
  /\ PruneBatch \in Nat \ {0}

VARIABLES
  tip,        \* tip[v]: height of the last block committed by validator v
  committed,  \* committed[v]: the hashes of the blocks v has ever committed and voted for
  restarted,  \* the validators that have resumed from a snapshot
  entries,    \* VotePool::entries, as the set of the votes it holds
  reached,    \* slots for which record() has returned ReachedQuorum
  certified   \* QCs formed by try_form_qc and passed by verify_formed_qc

vars == <<tip, committed, restarted, entries, reached, certified>>

\* A vote; its signature is abstracted to whether it verifies (Signed).
Votes == [view: Views, height: Heights, hash: Hashes, validator: Indices]

\* A certificate: the identity that verify_formed_qc checks the aggregate on.
Certs == [view: Views, height: Heights, hash: Hashes]

\* Slots of the pool are keyed by view and hash; the height is not in the key.
Slots == Views \X Hashes

\* VoteSignBody of the block with hash hh, signed by v.
VoteFor(v, hh) ==
  [view |-> ViewOf[hh], height |-> HeightOf[hh], hash |-> hh, validator |-> v]

\* Whether the signature of the vote verifies against its validator's key.
Signed(vote) ==
  \/ vote.validator \in Faulty
  \/ /\ vote.validator \in Honest
     /\ vote.hash \in committed[vote.validator]
     /\ vote = VoteFor(vote.validator, vote.hash)

Slot(pool, view, hh) == {v \in pool : v.view = view /\ v.hash = hh}

\* count
Count(pool, view, hh) == Cardinality(Slot(pool, view, hh))

\* The validator already has a vote in the slot; the first one is kept.
AlreadyVoted(pool, vote) ==
  \E v \in Slot(pool, vote.view, vote.hash) : v.validator = vote.validator

\* Seeded defect: the quorum is signalled one vote late.
CrossesQuorumLate(count) == count = QuorumThreshold

\* prev_count < threshold && new_count >= threshold, with one vote added.
CrossesQuorum(count) == count + 1 = QuorumThreshold

\* VotePool::record, its outcome.
RecordOutcome(pool, vote) ==
  CASE vote.validator \notin Validators -> "OutOfRange"
    [] vote.validator \in Validators /\ ~Signed(vote) -> "BadSignature"
    [] Signed(vote) /\ AlreadyVoted(pool, vote) -> "DuplicateValidator"
    [] OTHER -> IF CrossesQuorum(Count(pool, vote.view, vote.hash))
                THEN "ReachedQuorum" ELSE "Accepted"

\* The pool and the quorum signals after record of a vote that verifies; a
\* validator that resumed may meet its own earlier vote in the slot.
Recorded(pool, vote) == IF AlreadyVoted(pool, vote) THEN pool ELSE pool \cup {vote}

Signalled(signals, pool, vote) ==
  IF ~AlreadyVoted(pool, vote) /\ CrossesQuorum(Count(pool, vote.view, vote.hash))
  THEN signals \cup {<<vote.view, vote.hash>>}
  ELSE signals

\* min_vote_height of prune_runtime_history, with saturating subtractions.
MinVoteHeight(height) ==
  IF height >= Retention - 1 THEN height - (Retention - 1) ELSE 0

\* The height of the vote with the lowest validator index of the slot, which
\* prune_below_height takes for the lowest height of the slot.
FirstHeight(slot) ==
  (CHOOSE v \in slot : \A w \in slot : v.validator <= w.validator).height

StaleSlot(pool, view, hh, min) ==
  /\ Slot(pool, view, hh) # {}
  /\ FirstHeight(Slot(pool, view, hh)) < min

\* prune_below_height
PruneBelow(pool, min) == {v \in pool : ~StaleSlot(pool, v.view, v.hash, min)}

\* Seeded defect: an aggregate over other heights is accepted.
AggregateVerifiesAny(slot, height) == TRUE

\* fast_aggregate_verify over one body: all signatures are over that body.
AggregateVerifies(slot, height) == \A v \in slot : v.height = height
-----------------------------------------------------------------------------
Init ==
  /\ tip = [v \in Honest |-> 0]
  /\ committed = [v \in Honest |-> {}]
  /\ restarted = {}
  /\ entries = {}
  /\ reached = {}
  /\ certified = {}

\* Another honest validator commits a block and signs its vote.
CommitOther(v, hh) ==
  /\ v # Self
  /\ HeightOf[hh] = tip[v] + 1
  /\ tip' = [tip EXCEPT ![v] = @ + 1]
  /\ committed' = [committed EXCEPT ![v] = @ \cup {hh}]
  /\ UNCHANGED <<restarted, entries, reached, certified>>

\* This node commits a block: it records its own vote
\* (forward_vote_after_commit), then prunes every PruneBatch blocks.
CommitSelf(hh) ==
  /\ HeightOf[hh] = tip[Self] + 1
  /\ tip' = [tip EXCEPT ![Self] = @ + 1]
  /\ committed' = [committed EXCEPT ![Self] = @ \cup {hh}]
  /\ LET vote == VoteFor(Self, hh)
         pool == Recorded(entries, vote)
         min  == MinVoteHeight(tip'[Self])
     IN IF tip'[Self] % PruneBatch = 0
        THEN /\ entries' = PruneBelow(pool, min)
             /\ reached' = {k \in Signalled(reached, entries, vote) :
                              ~StaleSlot(pool, k[1], k[2], min)}
        ELSE /\ entries' = pool
             /\ reached' = Signalled(reached, entries, vote)
  /\ UNCHANGED <<restarted, certified>>

\* An honest validator restarts from its snapshot, which is of some height it
\* has committed: snapshots are taken at intervals and writing one may fail
\* (restore_disk_snapshot, persist_disk_snapshot).  The vote pool is new.
Restart(v, height) ==
  /\ height <= tip[v]
  /\ tip' = [tip EXCEPT ![v] = height]
  /\ restarted' = restarted \cup {v}
  /\ IF v = Self THEN entries' = {} /\ reached' = {} ELSE UNCHANGED <<entries, reached>>
  /\ UNCHANGED <<committed, certified>>

\* A vote arrives by gossip.  A vote that record() rejects changes nothing.
RecordVote(vote) ==
  /\ RecordOutcome(entries, vote) \in {"Accepted", "ReachedQuorum"}
  /\ entries' = Recorded(entries, vote)
  /\ reached' = Signalled(reached, entries, vote)
  /\ UNCHANGED <<tip, committed, restarted, certified>>

\* try_form_qc for a block, then verify_formed_qc of what it returned.
FormQc(view, height, hh) ==
  /\ Count(entries, view, hh) >= QuorumThreshold
  /\ AggregateVerifies(Slot(entries, view, hh), height)
  /\ certified' = certified \cup {[view |-> view, height |-> height, hash |-> hh]}
  /\ UNCHANGED <<tip, committed, restarted, entries, reached>>

Next ==
  \/ \E v \in Honest, hh \in Hashes : CommitOther(v, hh)
  \/ \E hh \in Hashes : CommitSelf(hh)
  \/ \E v \in Honest, height \in Heights \cup {0} : Restart(v, height)
  \/ \E vote \in Votes : RecordVote(vote)
  \/ \E view \in Views, height \in Heights, hh \in Hashes : FormQc(view, height, hh)

Spec == Init /\ [][Next]_vars
-----------------------------------------------------------------------------
TypeOK ==
  /\ tip \in [Honest -> Nat]
  /\ committed \in [Honest -> SUBSET Hashes]
  /\ restarted \subseteq Honest
  /\ entries \subseteq Votes
  /\ reached \subseteq Slots
  /\ certified \subseteq Certs

\* The certificate is for the height and the view in the header it certifies
\* and at least MaxFaulty + 1 honest validators committed its block: votes of
\* faulty validators alone never certify (try_form_qc, verify_formed_qc).
CertifiedIsCommitted ==
  \A c \in certified :
    /\ c.view = ViewOf[c.hash] /\ c.height = HeightOf[c.hash]
    /\ Cardinality({v \in Honest : c.hash \in committed[v]}) >= MaxFaulty + 1

\* Two certificates for one height certify the same block, whatever the faulty
\* validators sign and although honest ones may commit different blocks, unless
\* a validator resumed from a snapshot and then committed and voted for the
\* second block too, having forgotten the first (restore_disk_snapshot).
ForksTakeARestart ==
  \A c, d \in certified :
    c.height = d.height /\ c.hash # d.hash =>
      \E v \in restarted : {c.hash, d.hash} \subseteq committed[v]

\* record() returns ReachedQuorum for a slot exactly when the slot has come to
\* hold a quorum, so a caller that forms the QC on that signal misses none.
SignalIsExact ==
  \A view \in Views, hh \in Hashes :
    <<view, hh>> \in reached <=> Count(entries, view, hh) >= QuorumThreshold

\* The vote of the node for the block it has just committed stays in the pool
\* when older votes are pruned (prune_below_height says it keeps "votes at
\* exactly `min_height` (current tip) so a late-arriving vote can still
\* complete a QC for the just-committed block").
JustCommittedIsKept ==
  Self \notin restarted /\ tip[Self] > 0 =>
    \E hh \in committed[Self] : HeightOf[hh] = tip[Self] /\ VoteFor(Self, hh) \in entries
=============================================================================
