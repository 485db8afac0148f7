------------------------- MODULE CertificateProofs -------------------------
(***************************************************************************)
(* For every validator set and any number of blocks, transactions and      *)
(* pools: what a certificate formed from the vote pool stands for, and     *)
(* that certificates of one height disagree only where a validator forgot  *)
(* a vote at a restart; that the vote pool signals a quorum exactly; that  *)
(* an accepted owned-object certificate describes a state the chain has been  *)
(* in, that a node accepts one certificate per object version, and that    *)
(* the conflicts it records are genuine and accuse somebody.               *)
(***************************************************************************)
EXTENDS VotePool, OwnedObjects, Values


\* An honest validator that never resumed from a snapshot has at most one block
\* per height, none above its tip.
OneCommitPerHeight ==
  \A v \in Honest \ restarted : \A hh \in committed[v] :
    /\ HeightOf[hh] <= tip[v]
    /\ \A kk \in committed[v] : HeightOf[hh] = HeightOf[kk] => hh = kk

\* Every vote in the pool carries a signature that verifies, and a slot holds
\* one vote per validator.
EntriesAuthentic ==
  \A v \in entries :
    /\ v.validator \in Validators
    /\ Signed(v)
    /\ \A w \in entries :
         v.view = w.view /\ v.hash = w.hash /\ v.validator = w.validator => v = w

\* What q must have done for its signature to be in the certificate c.
Endorses(q, c) ==
  \/ q \in Faulty
  \/ /\ q \in Honest
     /\ c.hash \in committed[q]
     /\ c.view = ViewOf[c.hash]
     /\ c.height = HeightOf[c.hash]

\* A quorum stands behind every certificate, also once its votes are pruned.
CertifiedByQuorum ==
  \A c \in certified : \E Q : IsQuorum(Q) /\ \A q \in Q : Endorses(q, c)

\* The inductive invariant.
IInv == TypeOK /\ OneCommitPerHeight /\ EntriesAuthentic /\ CertifiedByQuorum

\* Pruning only removes votes.
LEMMA PruneSubset ==
  ASSUME NEW pool, NEW min
  PROVE  PruneBelow(pool, min) \subseteq pool
BY DEF PruneBelow

\* A vote that verifies keeps verifying: validators only add commits.
LEMMA SignedStable ==
  ASSUME committed \in [Honest -> SUBSET Hashes],
         NEW vote, Signed(vote),
         \A v \in Honest : committed[v] \subseteq committed'[v]
  PROVE  Signed(vote)'
BY DEF Signed, VoteFor

\* An endorsement is never withdrawn.
LEMMA EndorsesStable ==
  ASSUME CertifiedByQuorum,
         \A v \in Honest : committed[v] \subseteq committed'[v],
         certified' = certified
  PROVE  CertifiedByQuorum'
BY DEF CertifiedByQuorum, Endorses

\* The signers of a slot are as many as its votes.
LEMMA SlotSignersCount ==
  ASSUME EntriesAuthentic, NEW view, NEW hh
  PROVE  /\ {v.validator : v \in Slot(entries, view, hh)} \subseteq Validators
         /\ IsFiniteSet(Slot(entries, view, hh))
         /\ Cardinality(Slot(entries, view, hh)) \in Nat
         /\ Cardinality(Slot(entries, view, hh))
              <= Cardinality({v.validator : v \in Slot(entries, view, hh)})
<1> DEFINE S == Slot(entries, view, hh)
           Q == {v.validator : v \in S}
           f == [v \in S |-> v.validator]
<1>1. Q \subseteq Validators
  BY DEF EntriesAuthentic, Slot
<1>2. f \in Injection(S, Q)
  <2>1. f \in [S -> Q]
    OBVIOUS
  <2>2. \A a, b \in S : f[a] = f[b] => a = b
    BY DEF EntriesAuthentic, Slot
  <2> QED
    BY <2>1, <2>2 DEF Injection, IsInjective
<1>3. IsFiniteSet(Q)
  BY <1>1, ValidatorSubset
<1>4. IsFiniteSet(S) /\ Cardinality(S) <= Cardinality(Q)
  BY <1>2, <1>3, FS_Injection
<1> QED
  BY <1>1, <1>4, FS_CardinalityType

\* A vote that record() accepts is of a known validator, verifies, and is the
\* first of that validator in its slot.
LEMMA AcceptedVote ==
  ASSUME NEW pool, NEW vote,
         RecordOutcome(pool, vote) \in {"Accepted", "ReachedQuorum"}
  PROVE  vote.validator \in Validators /\ Signed(vote) /\ ~AlreadyVoted(pool, vote)
BY DEF RecordOutcome

\* A signal names the slot of the recorded vote.
LEMMA SignalledType ==
  ASSUME NEW signals \in SUBSET Slots, NEW pool, NEW vote \in Votes
  PROVE  Signalled(signals, pool, vote) \in SUBSET Slots
BY DEF Signalled, Slots, Votes

\* The vote for a committed block is a vote.
LEMMA VoteForType ==
  ASSUME NEW v \in Indices, NEW hh \in Hashes
  PROVE  VoteFor(v, hh) \in Votes
BY VotePoolAssumption DEF VoteFor, Votes
-----------------------------------------------------------------------------
\* The inductive invariant holds initially.
LEMMA InitInv == Init => IInv
BY DEF Init, IInv, TypeOK, OneCommitPerHeight, EntriesAuthentic, CertifiedByQuorum

\* Committing the block of the next height keeps one block per height.
LEMMA CommitKeepsHeights ==
  ASSUME TypeOK, OneCommitPerHeight,
         NEW v \in Honest, NEW hh \in Hashes,
         HeightOf[hh] = tip[v] + 1,
         restarted' = restarted,
         tip' = [tip EXCEPT ![v] = @ + 1],
         committed' = [committed EXCEPT ![v] = @ \cup {hh}]
  PROVE  /\ OneCommitPerHeight'
         /\ tip' \in [Honest -> Nat]
         /\ committed' \in [Honest -> SUBSET Hashes]
         /\ \A w \in Honest : committed[w] \subseteq committed'[w]
<1>1. tip' \in [Honest -> Nat] /\ committed' \in [Honest -> SUBSET Hashes]
  BY DEF TypeOK
<1>2. \A w \in Honest : committed[w] \subseteq committed'[w]
  BY DEF TypeOK
<1>3. \A kk \in Hashes : HeightOf[kk] \in Nat
  BY VotePoolAssumption
<1>4. ASSUME NEW w \in Honest \ restarted, NEW kk \in committed'[w]
      PROVE  /\ HeightOf[kk] <= tip'[w]
             /\ \A jj \in committed'[w] : HeightOf[kk] = HeightOf[jj] => kk = jj
  <2>1. CASE w # v
    BY <1>4, <2>1 DEF TypeOK, OneCommitPerHeight
  <2>2. CASE w = v
    <3>1. committed'[w] = committed[v] \cup {hh} /\ tip'[w] = tip[v] + 1 /\ tip[v] \in Nat
      BY <2>2 DEF TypeOK
    <3>2. \A jj \in committed[v] : HeightOf[jj] <= tip[v] /\ jj \in Hashes
      BY <2>2 DEF OneCommitPerHeight, TypeOK
    <3>3. \A jj \in committed[v] : HeightOf[jj] # HeightOf[hh]
      BY <3>1, <3>2, <1>3
    <3> QED
      BY <1>3, <1>4, <2>2, <3>1, <3>2, <3>3 DEF OneCommitPerHeight
  <2> QED
    BY <2>1, <2>2
<1> QED
  BY <1>1, <1>2, <1>4 DEF OneCommitPerHeight

\* Adding the first vote of a validator to a slot, one that verifies, keeps the
\* pool authentic.
LEMMA AddVote ==
  ASSUME EntriesAuthentic,
         NEW vote, vote.validator \in Validators, Signed(vote),
         ~AlreadyVoted(entries, vote)
  PROVE  \A v \in Recorded(entries, vote) :
           /\ v.validator \in Validators
           /\ Signed(v)
           /\ \A w \in Recorded(entries, vote) :
                v.view = w.view /\ v.hash = w.hash /\ v.validator = w.validator => v = w
BY DEF EntriesAuthentic, AlreadyVoted, Recorded, Slot

\* Every step preserves the inductive invariant.
LEMMA NextInv == IInv /\ [Next]_vars => IInv'
<1> SUFFICES ASSUME IInv, [Next]_vars PROVE IInv'
  OBVIOUS
<1> USE DEF IInv
<1>1. ASSUME NEW v \in Honest, NEW hh \in Hashes, CommitOther(v, hh)
      PROVE  IInv'
  <2>1. /\ OneCommitPerHeight'
        /\ tip' \in [Honest -> Nat]
        /\ committed' \in [Honest -> SUBSET Hashes]
        /\ \A w \in Honest : committed[w] \subseteq committed'[w]
    BY <1>1, CommitKeepsHeights DEF CommitOther
  <2>2. TypeOK'
    BY <1>1, <2>1 DEF CommitOther, TypeOK
  <2>3. EntriesAuthentic'
    <3>1. \A vote \in entries : Signed(vote)'
      BY <2>1, SignedStable DEF TypeOK, EntriesAuthentic
    <3> QED
      BY <1>1, <3>1 DEF CommitOther, EntriesAuthentic
  <2>4. CertifiedByQuorum'
    BY <1>1, <2>1, EndorsesStable DEF CommitOther
  <2> QED
    BY <2>1, <2>2, <2>3, <2>4
<1>2. ASSUME NEW hh \in Hashes, CommitSelf(hh)
      PROVE  IInv'
  <2> DEFINE vote == VoteFor(Self, hh)
             pool == Recorded(entries, vote)
  <2>1. /\ OneCommitPerHeight'
        /\ tip' \in [Honest -> Nat]
        /\ committed' \in [Honest -> SUBSET Hashes]
        /\ \A w \in Honest : committed[w] \subseteq committed'[w]
    BY <1>2, CommitKeepsHeights, VotePoolAssumption DEF CommitSelf
  <2>2. vote \in Votes /\ vote.validator \in Validators /\ vote.validator = Self
    BY VoteForType, VotePoolAssumption DEF VoteFor, Honest
  <2>4. Signed(vote)'
    <3>1. hh \in committed'[Self]
      BY <1>2, VotePoolAssumption DEF CommitSelf, TypeOK
    <3> QED
      BY <3>1, VotePoolAssumption DEF Signed, VoteFor
  <2>5. \A w \in pool : w.validator \in Validators /\ Signed(w)'
    <3>1. \A w \in entries : w.validator \in Validators /\ Signed(w)'
      BY <2>1, SignedStable DEF TypeOK, EntriesAuthentic
    <3> QED
      BY <2>2, <2>4, <3>1 DEF Recorded
  <2>6. \A v, w \in pool :
          v.view = w.view /\ v.hash = w.hash /\ v.validator = w.validator => v = w
    BY DEF EntriesAuthentic, AlreadyVoted, Slot, Recorded
  <2>7. entries' \subseteq pool
    BY <1>2, PruneSubset DEF CommitSelf
  <2>8. TypeOK'
    <3>1. entries' \subseteq Votes
      BY <2>2, <2>7 DEF TypeOK, Recorded
    <3>2. reached' \subseteq Slots
      BY <1>2, <2>2, SignalledType DEF CommitSelf, TypeOK
    <3> QED
      BY <1>2, <2>1, <3>1, <3>2 DEF CommitSelf, TypeOK
  <2>9. EntriesAuthentic'
    BY <2>5, <2>6, <2>7 DEF EntriesAuthentic
  <2>10. CertifiedByQuorum'
    BY <1>2, <2>1, EndorsesStable DEF CommitSelf
  <2> QED
    BY <2>1, <2>8, <2>9, <2>10
<1>3. ASSUME NEW vote \in Votes, RecordVote(vote)
      PROVE  IInv'
  <2>1. vote.validator \in Validators /\ Signed(vote) /\ ~AlreadyVoted(entries, vote)
    BY <1>3, AcceptedVote DEF RecordVote
  <2>2. TypeOK'
    BY <1>3, SignalledType DEF RecordVote, TypeOK, Recorded
  <2>3. EntriesAuthentic'
    BY <1>3, <2>1, AddVote DEF RecordVote, EntriesAuthentic, Signed
  <2>4. OneCommitPerHeight' /\ CertifiedByQuorum'
    BY <1>3 DEF RecordVote, OneCommitPerHeight, CertifiedByQuorum, Endorses
  <2> QED
    BY <2>2, <2>3, <2>4
<1>4. ASSUME NEW view \in Views, NEW height \in Heights, NEW hh \in Hashes,
             FormQc(view, height, hh)
      PROVE  IInv'
  <2> DEFINE S == Slot(entries, view, hh)
             Q == {v.validator : v \in S}
             c == [view |-> view, height |-> height, hash |-> hh]
  <2>1. TypeOK' /\ OneCommitPerHeight' /\ EntriesAuthentic'
    BY <1>4 DEF FormQc, TypeOK, Certs, OneCommitPerHeight, EntriesAuthentic, Signed
  <2>2. IsQuorum(Q)
    <3>1. Q \subseteq Validators /\ Cardinality(S) \in Nat /\ Cardinality(S) <= Cardinality(Q)
      BY SlotSignersCount
    <3>2. Cardinality(Q) \in Nat
      BY <3>1, ValidatorSubset
    <3>3. Cardinality(S) >= QuorumThreshold
      BY <1>4 DEF FormQc, Count
    <3> QED
      BY <3>1, <3>2, <3>3, MaxFaultyBound DEF IsQuorum
  <2>3. \A q \in Q : Endorses(q, c)
    <3>1. ASSUME NEW v \in S PROVE Endorses(v.validator, c)
      <4>1. v \in entries /\ v.view = view /\ v.hash = hh /\ v.height = height
        BY <1>4, <3>1 DEF FormQc, AggregateVerifies, Slot
      <4>2. Signed(v)
        BY <4>1 DEF EntriesAuthentic
      <4> QED
        BY <4>1, <4>2 DEF Signed, VoteFor, Endorses
    <3> QED
      BY <3>1
  <2>4. CertifiedByQuorum'
    <3>1. \A d \in certified : \E R : IsQuorum(R) /\ \A q \in R : Endorses(q, d)
      BY DEF CertifiedByQuorum
    <3>2. \A d \in certified' : d \in certified \/ d = c
      BY <1>4 DEF FormQc
    <3>3. \A q, d : Endorses(q, d)' <=> Endorses(q, d)
      BY <1>4 DEF FormQc, Endorses
    <3> QED
      BY <2>2, <2>3, <3>1, <3>2, <3>3 DEF CertifiedByQuorum
  <2> QED
    BY <2>1, <2>4
<1>6. ASSUME NEW v \in Honest, NEW height \in Heights \cup {0}, Restart(v, height)
      PROVE  IInv'
  <2>1. TypeOK'
    BY <1>6, VotePoolAssumption DEF Restart, TypeOK
  <2>2. OneCommitPerHeight'
    BY <1>6 DEF Restart, TypeOK, OneCommitPerHeight
  <2>3. EntriesAuthentic'
    BY <1>6 DEF Restart, EntriesAuthentic, Signed
  <2>4. CertifiedByQuorum'
    BY <1>6 DEF Restart, CertifiedByQuorum, Endorses
  <2> QED
    BY <2>1, <2>2, <2>3, <2>4
<1>5. CASE UNCHANGED vars
  BY <1>5 DEF vars, TypeOK, OneCommitPerHeight, EntriesAuthentic, Signed,
              CertifiedByQuorum, Endorses
<1> QED
  BY <1>1, <1>2, <1>3, <1>4, <1>5, <1>6 DEF Next

\* The inductive invariant holds in every reachable state.
LEMMA Invariance == Spec => []IInv
BY InitInv, NextInv, PTL DEF Spec

\* The pool, the signals and the certificates keep their types.
THEOREM VotePoolType == Spec => []TypeOK
BY Invariance, PTL DEF IInv

\* If at most f validators are faulty, every certificate that try_form_qc forms
\* and verify_formed_qc accepts is for a block that f + 1 honest validators
\* committed, at the height and view of its header: for every N.
THEOREM CertificatesAreCommitted ==
  ASSUME Cardinality(Faulty) <= MaxFaulty
  PROVE  Spec => []CertifiedIsCommitted
<1>1. IInv => CertifiedIsCommitted
  <2> SUFFICES ASSUME IInv, NEW c \in certified
               PROVE  /\ c.view = ViewOf[c.hash] /\ c.height = HeightOf[c.hash]
                      /\ Cardinality({v \in Honest : c.hash \in committed[v]}) >= MaxFaulty + 1
    BY DEF CertifiedIsCommitted
  <2>1. PICK Q : IsQuorum(Q) /\ \A q \in Q : Endorses(q, c)
    BY DEF IInv, CertifiedByQuorum
  <2> DEFINE C == {v \in Honest : c.hash \in committed[v]}
  <2>2. Cardinality(Q \ Faulty) >= MaxFaulty + 1
    BY <2>1, HonestInQuorum
  <2>3. Q \ Faulty \subseteq C
    BY <2>1 DEF Endorses, IsQuorum, Honest
  <2>4. IsFiniteSet(C) /\ Cardinality(C) \in Nat
    BY ValidatorSubset DEF Honest
  <2>5. Cardinality(Q \ Faulty) \in Nat /\ Cardinality(Q \ Faulty) <= Cardinality(C)
    BY <2>3, <2>4, FS_Subset, FS_CardinalityType
  <2>6. Q \ Faulty # {}
    BY <2>2, MaxFaultyBound, FS_EmptySet
  <2>7. c.view = ViewOf[c.hash] /\ c.height = HeightOf[c.hash]
    BY <2>1, <2>6 DEF Endorses
  <2> QED
    BY <2>2, <2>4, <2>5, <2>7, MaxFaultyBound
<1> QED
  BY <1>1, Invariance, PTL

\* If at most f validators are faulty and N = 3f + 1, two certificates of one
\* height certify the same block, or a validator that resumed from a snapshot
\* committed and voted for both.
THEOREM CertificatesAgree ==
  ASSUME Cardinality(Faulty) <= MaxFaulty,
         N = 3 * MaxFaulty + 1
  PROVE  Spec => []ForksTakeARestart
<1>1. IInv => ForksTakeARestart
  <2> SUFFICES ASSUME IInv, NEW c \in certified, NEW d \in certified, c.height = d.height,
                      c.hash # d.hash
               PROVE  \E v \in restarted : {c.hash, d.hash} \subseteq committed[v]
    BY DEF ForksTakeARestart
  <2>1. PICK Q : IsQuorum(Q) /\ \A q \in Q : Endorses(q, c)
    BY DEF IInv, CertifiedByQuorum
  <2>2. PICK R : IsQuorum(R) /\ \A q \in R : Endorses(q, d)
    BY DEF IInv, CertifiedByQuorum
  <2>3. PICK v \in Q \cap R : v \in Honest
    BY <2>1, <2>2, HonestInBothQuorums
  <2>4. /\ c.hash \in committed[v] /\ c.height = HeightOf[c.hash]
        /\ d.hash \in committed[v] /\ d.height = HeightOf[d.hash]
    BY <2>1, <2>2, <2>3 DEF Endorses, Honest
  <2> QED
    BY <2>3, <2>4 DEF IInv, OneCommitPerHeight
<1> QED
  BY <1>1, Invariance, PTL
\* The slot of an accepted vote grows by that vote, the others stay.
LEMMA SlotGrows ==
  ASSUME EntriesAuthentic, NEW vote, ~AlreadyVoted(entries, vote), NEW view, NEW hh
  PROVE  /\ Count(entries, view, hh) \in Nat
         /\ Count(Recorded(entries, vote), view, hh) =
              IF vote.view = view /\ vote.hash = hh
              THEN Count(entries, view, hh) + 1
              ELSE Count(entries, view, hh)
<1> DEFINE S == Slot(entries, view, hh)
           R == Slot(Recorded(entries, vote), view, hh)
<1>1. IsFiniteSet(S) /\ Cardinality(S) \in Nat
  BY SlotSignersCount
<1>2. CASE vote.view = view /\ vote.hash = hh
  <2>1. R = S \cup {vote} /\ vote \notin S
    BY <1>2 DEF Slot, Recorded, AlreadyVoted
  <2>2. Cardinality(R) = Cardinality(S) + 1
    BY <1>1, <2>1, FS_AddElement
  <2> QED
    BY <1>1, <1>2, <2>2 DEF Count
<1>3. CASE ~(vote.view = view /\ vote.hash = hh)
  <2>1. R = S
    BY <1>3 DEF Slot, Recorded
  <2> QED
    BY <1>1, <1>3, <2>1 DEF Count
<1> QED
  BY <1>2, <1>3

\* Recording a vote signals exactly the quorum that this vote completes.
LEMMA SignalRecorded ==
  ASSUME EntriesAuthentic, SignalIsExact, NEW vote \in Votes,
         NEW view \in Views, NEW hh \in Hashes
  PROVE  <<view, hh>> \in Signalled(reached, entries, vote)
           <=> Count(Recorded(entries, vote), view, hh) >= QuorumThreshold
<1> DEFINE c == Count(entries, view, hh)
           d == Count(Recorded(entries, vote), view, hh)
<1>0. CASE AlreadyVoted(entries, vote)
  BY <1>0 DEF Recorded, Signalled, SignalIsExact
<1>9. SUFFICES ASSUME ~AlreadyVoted(entries, vote) PROVE <<view, hh>> \in Signalled(reached, entries, vote) <=> d >= QuorumThreshold
  BY <1>0
<1>1. c \in Nat /\ d = IF vote.view = view /\ vote.hash = hh THEN c + 1 ELSE c
  BY <1>9, SlotGrows
<1>2. <<view, hh>> \in reached <=> c >= QuorumThreshold
  BY DEF SignalIsExact
<1>3. CASE vote.view = view /\ vote.hash = hh
  <2>1. <<view, hh>> \in Signalled(reached, entries, vote)
          <=> <<view, hh>> \in reached \/ c + 1 = QuorumThreshold
    BY <1>3, <1>9 DEF Signalled, CrossesQuorum
  <2> QED
    BY <1>1, <1>2, <1>3, <2>1, MaxFaultyBound
<1>4. CASE ~(vote.view = view /\ vote.hash = hh)
  <2>1. <<view, hh>> # <<vote.view, vote.hash>>
    BY <1>4
  <2>2. <<view, hh>> \in Signalled(reached, entries, vote) <=> <<view, hh>> \in reached
    BY <2>1 DEF Signalled
  <2> QED
    BY <1>1, <1>2, <1>4, <2>2
<1> QED
  BY <1>3, <1>4

\* prune_below_height drops a slot as a whole or leaves it alone.
LEMMA PruneSlot ==
  ASSUME NEW pool, NEW min, NEW view, NEW hh
  PROVE  Slot(PruneBelow(pool, min), view, hh) =
           IF StaleSlot(pool, view, hh, min) THEN {} ELSE Slot(pool, view, hh)
<1>1. \A v \in Slot(pool, view, hh) : v.view = view /\ v.hash = hh
  BY DEF Slot
<1> QED
  BY <1>1 DEF PruneBelow, Slot

\* record() returns ReachedQuorum for a slot exactly when the slot has come to
\* hold a quorum, through every order of votes, commits and prunings.
THEOREM SignalsAreExact == Spec => []SignalIsExact
<1>1. Init => SignalIsExact
  <2> SUFFICES ASSUME Init, NEW view \in Views, NEW hh \in Hashes
               PROVE  <<view, hh>> \in reached <=> Count(entries, view, hh) >= QuorumThreshold
    BY DEF SignalIsExact
  <2>1. Slot(entries, view, hh) = {} /\ reached = {}
    BY DEF Init, Slot
  <2> QED
    BY <2>1, FS_EmptySet, MaxFaultyBound DEF Count
<1>2. IInv /\ SignalIsExact /\ [Next]_vars => SignalIsExact'
  <2> SUFFICES ASSUME IInv, SignalIsExact, [Next]_vars PROVE SignalIsExact'
    OBVIOUS
  <2>0. EntriesAuthentic
    BY DEF IInv
  <2>1. ASSUME UNCHANGED <<entries, reached>> PROVE SignalIsExact'
    BY <2>1 DEF SignalIsExact, Count, Slot
  <2>2. ASSUME NEW vote \in Votes, RecordVote(vote) PROVE SignalIsExact'
    <3>2. \A view \in Views, hh \in Hashes :
            <<view, hh>> \in Signalled(reached, entries, vote)
              <=> Count(Recorded(entries, vote), view, hh) >= QuorumThreshold
      BY <2>0, SignalRecorded
    <3> QED
      BY <2>2, <3>2 DEF RecordVote, SignalIsExact, Count, Slot
  <2>3. ASSUME NEW hh \in Hashes, CommitSelf(hh) PROVE SignalIsExact'
    <3> DEFINE vote == VoteFor(Self, hh)
               pool == Recorded(entries, vote)
               min  == MinVoteHeight(tip'[Self])
    <3>1. vote \in Votes
      BY VoteForType, VotePoolAssumption DEF Honest
    <3>3. \A view \in Views, kk \in Hashes :
            <<view, kk>> \in Signalled(reached, entries, vote)
              <=> Count(pool, view, kk) >= QuorumThreshold
      <4> HIDE DEF vote
      <4> QED
        BY <2>0, <3>1, SignalRecorded
    <3>4. CASE tip'[Self] % PruneBatch = 0
      <4>1. entries' = PruneBelow(pool, min)
        BY <2>3, <3>4 DEF CommitSelf
      <4>2. reached' = {k \in Signalled(reached, entries, vote) : ~StaleSlot(pool, k[1], k[2], min)}
        BY <2>3, <3>4 DEF CommitSelf
      <4>3. SUFFICES ASSUME NEW view \in Views, NEW kk \in Hashes
                     PROVE  <<view, kk>> \in reached'
                              <=> Cardinality(Slot(entries', view, kk)) >= QuorumThreshold
        BY DEF SignalIsExact, Count, Slot
      <4> HIDE DEF vote, pool, min
      <4>4. <<view, kk>> \in reached' <=> /\ <<view, kk>> \in Signalled(reached, entries, vote)
                                          /\ ~StaleSlot(pool, view, kk, min)
        BY <4>2
      <4>5. Slot(entries', view, kk) = IF StaleSlot(pool, view, kk, min) THEN {} ELSE Slot(pool, view, kk)
        BY <4>1, PruneSlot
      <4>6. CASE StaleSlot(pool, view, kk, min)
        BY <4>4, <4>5, <4>6, FS_EmptySet, MaxFaultyBound
      <4>7. CASE ~StaleSlot(pool, view, kk, min)
        BY <3>3, <4>4, <4>5, <4>7 DEF Count
      <4> QED
        BY <4>6, <4>7
    <3>5. CASE tip'[Self] % PruneBatch # 0
      <4>1. entries' = pool /\ reached' = Signalled(reached, entries, vote)
        BY <2>3, <3>5 DEF CommitSelf
      <4> QED
        BY <3>3, <4>1 DEF SignalIsExact, Count, Slot
    <3> QED
      BY <3>4, <3>5
  <2>4. ASSUME NEW v \in Honest, NEW hh \in Hashes, CommitOther(v, hh) PROVE SignalIsExact'
    BY <2>1, <2>4 DEF CommitOther
  <2>5. ASSUME NEW view \in Views, NEW height \in Heights, NEW hh \in Hashes,
               FormQc(view, height, hh)
        PROVE  SignalIsExact'
    BY <2>1, <2>5 DEF FormQc
  <2>6. CASE UNCHANGED vars
    BY <2>1, <2>6 DEF vars
  <2>7. ASSUME NEW v \in Honest, NEW height \in Heights \cup {0}, Restart(v, height)
        PROVE  SignalIsExact'
    <3>1. CASE v = Self
      <4> SUFFICES ASSUME NEW view \in Views, NEW hh \in Hashes
                   PROVE  <<view, hh>> \in reached' <=> Cardinality(Slot(entries', view, hh)) >= QuorumThreshold
        BY DEF SignalIsExact, Count, Slot
      <4>1. reached' = {} /\ Slot(entries', view, hh) = {}
        BY <2>7, <3>1 DEF Restart, Slot
      <4> QED
        BY <4>1, FS_EmptySet, MaxFaultyBound
    <3>2. CASE v # Self
      BY <2>1, <2>7, <3>2 DEF Restart
    <3> QED
      BY <3>1, <3>2
  <2> QED
    BY <2>2, <2>3, <2>4, <2>5, <2>6, <2>7 DEF Next
<1> QED
  BY <1>1, <1>2, Invariance, PTL DEF Spec
-----------------------------------------------------------------------------
\* The body <<tx, at>> describes the state after some prefix of the log.
Current(tx, at) ==
  \E k \in 0 .. Len(log) :
    /\ at = {<<o, Version(k, o)>> : o \in ObjectsOf[tx]}
    /\ NonceOf[tx] = Version(k, NonceObject[tx])

\* No validator is ahead of the chain.
AppliedBounded == \A v \in Honest : applied[v] <= Len(log)

\* Honest validators countersigned only what was current when they did.
SignedWasCurrent == \A s \in signed : Current(s.tx, s.at)

\* A quorum signed every accepted certificate.
AcceptedByQuorum == \A n \in Pools : \A c \in accepted[n] : IsQuorum(c.signers)

\* The inductive invariant.
OwnedInv ==
  /\ OwnedTypeOK
  /\ AppliedBounded
  /\ SignedWasCurrent
  /\ AcceptedWasCurrent
  /\ AcceptedByQuorum
  /\ OnePerObjectVersion

\* A version is a natural number.
LEMMA VersionType ==
  ASSUME NEW k \in Nat, NEW o
  PROVE  Version(k, o) \in Nat
<1>1. IsFiniteSet(1 .. k)
  BY FS_Interval
<1>2. IsFiniteSet({i \in 1 .. k : o \in ObjectsOf[log[i]]})
  BY <1>1, FS_Subset
<1> QED
  BY <1>2, FS_CardinalityType DEF Version

\* Executing a transaction leaves the versions of earlier states alone.
LEMMA VersionStable ==
  ASSUME OwnedTypeOK, NEW t \in Txs, log' = Append(log, t),
         NEW k \in 0 .. Len(log), NEW o
  PROVE  Version(k, o)' = Version(k, o)
<1>1. \A i \in 1 .. k : log'[i] = log[i]
  BY DEF OwnedTypeOK
<1>2. {i \in 1 .. k : o \in ObjectsOf[log'[i]]} = {i \in 1 .. k : o \in ObjectsOf[log[i]]}
  BY <1>1
<1> QED
  BY <1>2 DEF Version

\* What was current once stays so when the chain grows.
LEMMA CurrentStable ==
  ASSUME OwnedTypeOK, NEW t \in Txs, log' = Append(log, t),
         NEW tx, NEW at, Current(tx, at)
  PROVE  Current(tx, at)'
<1>1. PICK k \in 0 .. Len(log) :
        /\ at = {<<o, Version(k, o)>> : o \in ObjectsOf[tx]}
        /\ NonceOf[tx] = Version(k, NonceObject[tx])
  BY DEF Current
<1>2. k \in 0 .. Len(log')
  BY DEF OwnedTypeOK
<1>3. \A o : Version(k, o)' = Version(k, o)
  BY VersionStable
<1>4. at = {<<o, Version(k, o)'>> : o \in ObjectsOf[tx]}
  BY <1>1, <1>3
<1>5. NonceOf[tx] = Version(k, NonceObject[tx])'
  BY <1>1, <1>3
<1> QED
  BY <1>2, <1>4, <1>5 DEF Current

\* Steps that leave the chain alone leave what is current alone.
LEMMA CurrentUnchanged ==
  ASSUME log' = log, NEW tx, NEW at
  PROVE  Current(tx, at)' <=> Current(tx, at)
<1>1. \A k, o : Version(k, o)' = Version(k, o)
  <2> SUFFICES ASSUME NEW k, NEW o PROVE Version(k, o)' = Version(k, o)
    OBVIOUS
  <2>1. {i \in 1 .. k : o \in ObjectsOf[log'[i]]} = {i \in 1 .. k : o \in ObjectsOf[log[i]]}
    OBVIOUS
  <2> QED
    BY <2>1 DEF Version
<1>2. \A k : {<<o, Version(k, o)'>> : o \in ObjectsOf[tx]} = {<<o, Version(k, o)>> : o \in ObjectsOf[tx]}
  BY <1>1
<1> QED
  BY <1>1, <1>2 DEF Current

\* AcceptedWasCurrent in terms of Current.
LEMMA AcceptedCurrent ==
  AcceptedWasCurrent <=> \A n \in Pools : \A c \in accepted[n] : Current(c.tx, c.at)
BY DEF AcceptedWasCurrent, Current

\* Steps that leave the chain and the pools alone keep what is accepted current.
LEMMA AcceptedUnchanged ==
  ASSUME log' = log, accepted' = accepted, AcceptedWasCurrent
  PROVE  AcceptedWasCurrent'
<1>1. \A n \in Pools : \A c \in accepted[n] : Current(c.tx, c.at)'
  BY AcceptedCurrent, CurrentUnchanged
<1>2. \A n \in Pools : \A c \in accepted'[n] : Current(c.tx, c.at)'
  BY <1>1
<1> QED
  BY <1>2 DEF AcceptedWasCurrent, Current

\* The body an honest validator countersigns is well formed.
LEMMA SeenType ==
  ASSUME OwnedTypeOK, NEW v \in Honest, NEW t \in Txs
  PROVE  VersionsSeenBy(v, t) \in SUBSET ObjectVersions
<1>1. applied[v] \in Nat
  BY DEF OwnedTypeOK
<1>2. \A o : Version(applied[v], o) \in Nat
  BY <1>1, VersionType
<1> QED
  BY <1>2, OwnedObjectsAssumption DEF VersionsSeenBy, ObjectVersions

\* A verified certificate over a current body is current: one of its signers
\* is honest and signed that very body.
LEMMA VerifiedIsCurrent ==
  ASSUME Cardinality(Faulty) <= MaxFaulty, SignedWasCurrent,
         NEW c, Verified(c)
  PROVE  Current(c.tx, c.at) /\ IsQuorum(c.signers)
<1>1. IsQuorum(c.signers)
  BY DEF Verified, IsQuorum
<1>2. Cardinality(c.signers \ Faulty) >= MaxFaulty + 1
  BY <1>1, HonestInQuorum
<1>3. c.signers \ Faulty # {}
  BY <1>2, FS_EmptySet, MaxFaultyBound
<1>4. PICK v \in c.signers : v \notin Faulty
  BY <1>3
<1>5. [validator |-> v, tx |-> c.tx, at |-> c.at] \in signed
  BY <1>4 DEF Verified, Attests
<1> QED
  BY <1>1, <1>5 DEF SignedWasCurrent
-----------------------------------------------------------------------------
\* The inductive invariant holds initially.
LEMMA OwnedInitInv == OwnedInit => OwnedInv
BY DEF OwnedInit, OwnedInv, OwnedTypeOK, AppliedBounded, SignedWasCurrent, AcceptedWasCurrent,
       AcceptedByQuorum, OnePerObjectVersion

\* Execute moves the chain on; everything signed before was current before.
LEMMA ExecuteInv ==
  ASSUME OwnedInv, NEW t \in Txs, Execute(t)
  PROVE  OwnedInv'
<1> USE DEF OwnedInv
<1>1. log' = Append(log, t) /\ UNCHANGED <<applied, signed, accepted, conflicts>>
  BY DEF Execute
<1>2. OwnedTypeOK'
  BY <1>1 DEF OwnedTypeOK
<1>3. AppliedBounded'
  BY <1>1 DEF AppliedBounded, OwnedTypeOK
<1>4. SignedWasCurrent'
  <2>1. \A s \in signed : Current(s.tx, s.at)'
    BY <1>1, CurrentStable DEF SignedWasCurrent
  <2> QED
    BY <1>1, <2>1 DEF SignedWasCurrent
<1>5. AcceptedWasCurrent'
  <2>1. \A n \in Pools : \A c \in accepted[n] : Current(c.tx, c.at)
    BY DEF AcceptedWasCurrent, Current
  <2>2. \A n \in Pools : \A c \in accepted[n] : Current(c.tx, c.at)'
    BY <1>1, <2>1, CurrentStable
  <2> QED
    BY <1>1, <2>2 DEF AcceptedWasCurrent, Current
<1>6. AcceptedByQuorum' /\ OnePerObjectVersion'
  BY <1>1 DEF AcceptedByQuorum, OnePerObjectVersion
<1> QED
  BY <1>2, <1>3, <1>4, <1>5, <1>6

\* Apply changes only how far a validator is.
LEMMA ApplyInv ==
  ASSUME OwnedInv, NEW v \in Honest, Apply(v)
  PROVE  OwnedInv'
<1> USE DEF OwnedInv
<1>1. OwnedTypeOK' /\ AppliedBounded'
  BY DEF Apply, OwnedTypeOK, AppliedBounded
<1>2. SignedWasCurrent'
  BY CurrentUnchanged DEF Apply, SignedWasCurrent
<1>4. AcceptedWasCurrent'
  BY AcceptedUnchanged DEF Apply
<1>3. AcceptedByQuorum' /\ OnePerObjectVersion'
  BY DEF Apply, AcceptedByQuorum, OnePerObjectVersion
<1> QED
  BY <1>1, <1>2, <1>3, <1>4

\* Countersign adds a body read from the state of the validator.
LEMMA CountersignInv ==
  ASSUME OwnedInv, NEW v \in Honest, NEW t \in Txs, Countersign(v, t)
  PROVE  OwnedInv'
<1> USE DEF OwnedInv
<1> DEFINE s == [validator |-> v, tx |-> t, at |-> VersionsSeenBy(v, t)]
<1>1. signed' = signed \cup {s} /\ UNCHANGED <<log, applied, accepted, conflicts>>
  <2>1. PICK b \in PrecheckResponse(v, t) : signed' = signed \cup {[validator |-> v, tx |-> b.tx, at |-> b.at]}
    BY DEF Countersign
  <2>2. b = [tx |-> t, at |-> VersionsSeenBy(v, t)]
    BY <2>1 DEF PrecheckResponse
  <2>3. b.tx = t /\ b.at = VersionsSeenBy(v, t)
    BY <2>2
  <2> QED
    BY <2>1, <2>3 DEF Countersign
<1>2. t \in OwnedTxs /\ NonceOf[t] = Version(applied[v], NonceObject[t])
  BY DEF Countersign, PrecheckResponse, Precheck
<1>3. OwnedTypeOK'
  <2>1. s \in Countersignatures
    BY <1>2, SeenType DEF Countersignatures
  <2> QED
    BY <1>1, <2>1 DEF OwnedTypeOK
<1>4. SignedWasCurrent'
  <2>1. applied[v] \in 0 .. Len(log)
    BY DEF OwnedTypeOK, AppliedBounded
  <2>2. Current(t, VersionsSeenBy(v, t))
    BY <1>2, <2>1 DEF Current, VersionsSeenBy
  <2>3. \A r \in signed \cup {s} : Current(r.tx, r.at)
    BY <2>2 DEF SignedWasCurrent
  <2> QED
    BY <1>1, <2>3, CurrentUnchanged DEF SignedWasCurrent
<1>5. AcceptedWasCurrent'
  BY <1>1, AcceptedUnchanged
<1>6. AcceptedByQuorum' /\ OnePerObjectVersion' /\ AppliedBounded'
  BY <1>1 DEF AcceptedByQuorum, OnePerObjectVersion, AppliedBounded
<1> QED
  BY <1>3, <1>4, <1>5, <1>6

\* A certificate that is accepted overlaps none of the pool.
LEMMA AcceptInv ==
  ASSUME Cardinality(Faulty) <= MaxFaulty, OwnedInv,
         NEW n \in Pools, NEW c \in Aggregates, AcceptCertificate(n, c)
  PROVE  OwnedInv'
<1> USE DEF OwnedInv
<1>1. /\ Verified(c) /\ Collides(n, c) = {}
      /\ accepted' = [accepted EXCEPT ![n] = @ \cup {c}]
      /\ UNCHANGED <<log, applied, signed, conflicts>>
  BY DEF AcceptCertificate
<1>2. c \in Certificates
  BY DEF Aggregates, OwnedTypeOK, Countersignatures, Certificates
<1>3. \A m \in Pools : accepted'[m] = IF m = n THEN accepted[m] \cup {c} ELSE accepted[m]
  BY <1>1 DEF OwnedTypeOK
<1>4. OwnedTypeOK'
  BY <1>1, <1>2 DEF OwnedTypeOK
<1>5. AppliedBounded'
  BY <1>1 DEF AppliedBounded
<1>6. SignedWasCurrent'
  BY <1>1, CurrentUnchanged DEF SignedWasCurrent
<1>7. Current(c.tx, c.at) /\ IsQuorum(c.signers)
  BY <1>1, VerifiedIsCurrent
<1>8. AcceptedWasCurrent'
  <2>1. \A m \in Pools : \A d \in accepted'[m] : Current(d.tx, d.at)
    BY <1>3, <1>7, AcceptedCurrent
  <2>2. \A m \in Pools : \A d \in accepted'[m] : Current(d.tx, d.at)'
    BY <1>1, <2>1, CurrentUnchanged
  <2> QED
    BY <2>2 DEF AcceptedWasCurrent, Current
<1>9. AcceptedByQuorum'
  BY <1>3, <1>7 DEF AcceptedByQuorum
<1>10. OnePerObjectVersion'
  BY <1>1, <1>3 DEF OnePerObjectVersion, Collides, Overlap
<1> QED
  BY <1>4, <1>5, <1>6, <1>8, <1>9, <1>10

\* A conflict is recorded beside the pool, which stays as it is.
LEMMA RejectInv ==
  ASSUME OwnedInv, NEW n \in Pools, NEW c \in Aggregates, NEW d \in accepted[n],
         RejectConflict(n, c, d)
  PROVE  OwnedInv'
<1> USE DEF OwnedInv
<1>1. /\ conflicts' = [conflicts EXCEPT ![n] = @ \cup {<<d, c>>}]
      /\ UNCHANGED <<log, applied, signed, accepted>>
  BY DEF RejectConflict
<1>2. c \in Certificates
  BY DEF Aggregates, OwnedTypeOK, Countersignatures, Certificates
<1>3. d \in Certificates
  BY DEF OwnedTypeOK
<1>4. OwnedTypeOK'
  BY <1>1, <1>2, <1>3 DEF OwnedTypeOK
<1>5. AcceptedWasCurrent'
  BY <1>1, AcceptedUnchanged
<1>6. SignedWasCurrent'
  BY <1>1, CurrentUnchanged DEF SignedWasCurrent
<1>7. AppliedBounded' /\ AcceptedByQuorum' /\ OnePerObjectVersion'
  BY <1>1 DEF AppliedBounded, AcceptedByQuorum, OnePerObjectVersion
<1> QED
  BY <1>4, <1>5, <1>6, <1>7

\* Every step keeps the invariant.
LEMMA OwnedNextInv ==
  ASSUME Cardinality(Faulty) <= MaxFaulty, OwnedInv, [OwnedNext]_ownedVars
  PROVE  OwnedInv'
<1>1. ASSUME NEW t \in Txs, Execute(t) PROVE OwnedInv'
  BY <1>1, ExecuteInv
<1>2. ASSUME NEW v \in Honest, Apply(v) PROVE OwnedInv'
  BY <1>2, ApplyInv
<1>3. ASSUME NEW v \in Honest, NEW t \in Txs, Countersign(v, t) PROVE OwnedInv'
  BY <1>3, CountersignInv
<1>4. ASSUME NEW n \in Pools, NEW c \in Aggregates, AcceptCertificate(n, c) PROVE OwnedInv'
  BY <1>4, AcceptInv
<1>5. ASSUME NEW n \in Pools, NEW c \in Aggregates, NEW d \in accepted[n],
             RejectConflict(n, c, d)
      PROVE OwnedInv'
  BY <1>5, RejectInv
<1>6. CASE UNCHANGED ownedVars
  <2>1. UNCHANGED <<log, applied, signed, accepted, conflicts>>
    BY <1>6 DEF ownedVars
  <2>2. SignedWasCurrent' /\ AcceptedWasCurrent'
    BY <2>1, CurrentUnchanged, AcceptedUnchanged DEF OwnedInv, SignedWasCurrent
  <2> QED
    BY <2>1, <2>2 DEF OwnedInv, OwnedTypeOK, AppliedBounded, AcceptedByQuorum, OnePerObjectVersion
<1> QED
  BY <1>1, <1>2, <1>3, <1>4, <1>5, <1>6 DEF OwnedNext

\* The inductive invariant holds throughout, with at most f faulty validators.
LEMMA OwnedInvariance ==
  ASSUME Cardinality(Faulty) <= MaxFaulty
  PROVE  OwnedSpec => []OwnedInv
BY OwnedInitInv, OwnedNextInv, PTL DEF OwnedSpec
-----------------------------------------------------------------------------
\* An accepted certificate describes a state the chain has been in, although
\* validators countersign at their own pace and keep no record of it
\* (countersign_owned_object_tx, OwnedObjectCertificate::verify).
THEOREM CertificatesWereCurrent ==
  ASSUME Cardinality(Faulty) <= MaxFaulty
  PROVE  OwnedSpec => []AcceptedWasCurrent
BY OwnedInvariance, PTL DEF OwnedInv

\* CertificatePool::insert never admits two certificates that share an object
\* version.
THEOREM PoolIsExclusive ==
  ASSUME Cardinality(Faulty) <= MaxFaulty
  PROVE  OwnedSpec => []OnePerObjectVersion
BY OwnedInvariance, PTL DEF OwnedInv

\* An accepted certificate verifies, and goes on to: countersignatures are never
\* withdrawn.
AcceptedVerified == \A n \in Pools : \A c \in accepted[n] : Verified(c)

LEMMA VerifiedStable ==
  ASSUME signed \subseteq signed', NEW c, Verified(c)
  PROVE  Verified(c)'
BY DEF Verified, Attests

LEMMA VerifiedNext ==
  ASSUME OwnedInv, AcceptedVerified, [OwnedNext]_ownedVars
  PROVE  AcceptedVerified'
<1>1. ASSUME signed \subseteq signed', accepted' = accepted PROVE AcceptedVerified'
  BY <1>1, VerifiedStable DEF AcceptedVerified
<1>2. ASSUME NEW t \in Txs, Execute(t) PROVE AcceptedVerified'
  BY <1>1, <1>2 DEF Execute
<1>3. ASSUME NEW v \in Honest, Apply(v) PROVE AcceptedVerified'
  BY <1>1, <1>3 DEF Apply
<1>4. ASSUME NEW v \in Honest, NEW t \in Txs, Countersign(v, t) PROVE AcceptedVerified'
  BY <1>1, <1>4 DEF Countersign
<1>5. ASSUME NEW n \in Pools, NEW c \in Aggregates, AcceptCertificate(n, c) PROVE AcceptedVerified'
  <2>1. \A m \in Pools : accepted'[m] = IF m = n THEN accepted[m] \cup {c} ELSE accepted[m]
    BY <1>5 DEF AcceptCertificate, OwnedInv, OwnedTypeOK
  <2>2. signed' = signed /\ Verified(c)
    BY <1>5 DEF AcceptCertificate
  <2> QED
    BY <2>1, <2>2, VerifiedStable DEF AcceptedVerified
<1>6. ASSUME NEW n \in Pools, NEW c \in Aggregates, NEW d \in accepted[n], RejectConflict(n, c, d)
      PROVE  AcceptedVerified'
  BY <1>1, <1>6 DEF RejectConflict
<1>7. CASE UNCHANGED ownedVars
  BY <1>1, <1>7 DEF ownedVars
<1> QED
  BY <1>2, <1>3, <1>4, <1>5, <1>6, <1>7 DEF OwnedNext

\* An accepted certificate covers each object of its transaction once.
LEMMA CurrentIsWhole ==
  ASSUME NEW tx \in Txs, NEW at, Current(tx, at)
  PROVE  {ov[1] : ov \in at} = ObjectsOf[tx] /\ \A a, b \in at : a[1] = b[1] => a = b
<1>1. PICK k \in 0 .. Len(log) : at = {<<o, Version(k, o)>> : o \in ObjectsOf[tx]}
  BY DEF Current
<1>2. \A a \in at : a[1] \in ObjectsOf[tx] /\ a = <<a[1], Version(k, a[1])>>
  <2> SUFFICES ASSUME NEW a \in at PROVE a[1] \in ObjectsOf[tx] /\ a = <<a[1], Version(k, a[1])>>
    OBVIOUS
  <2>1. PICK o \in ObjectsOf[tx] : a = <<o, Version(k, o)>>
    BY <1>1
  <2>2. a[1] = o
    BY <2>1
  <2> QED
    BY <2>1, <2>2
<1>3. \A o \in ObjectsOf[tx] : \E a \in at : a[1] = o
  <2> SUFFICES ASSUME NEW o \in ObjectsOf[tx] PROVE \E a \in at : a[1] = o
    OBVIOUS
  <2> DEFINE a == <<o, Version(k, o)>>
  <2>1. a[1] = o
    OBVIOUS
  <2>2. a \in at
    BY <1>1
  <2> HIDE DEF a
  <2> QED
    BY <2>1, <2>2
<1>4. {ov[1] : ov \in at} = ObjectsOf[tx]
  <2>1. {ov[1] : ov \in at} \subseteq ObjectsOf[tx]
    BY <1>2
  <2>2. ASSUME NEW o \in ObjectsOf[tx] PROVE o \in {ov[1] : ov \in at}
    BY <1>3
  <2> QED
    BY <2>1, <2>2
<1> QED
  BY <1>2, <1>4

\* What a pool shows as final can be aggregated again, and is accountable.
LEMMA FinalIsAccountable ==
  ASSUME Cardinality(Faulty) <= MaxFaulty, N = 3 * MaxFaulty + 1, OwnedInv, AcceptedVerified
  PROVE  FinalityIsAccountable
<1> SUFFICES ASSUME NEW n \in Pools, NEW ov \in UNION {c.at : c \in accepted[n]}, NEW c \in FinalityOf(n, ov)
             PROVE  /\ c \in Aggregated(c.tx, c.at, c.signers)
                    /\ \A d \in Aggregates : ov \in d.at /\ Verified(d) =>
                         /\ SameBody(c, d) \/ IsEvidence(c, d)
                         /\ Cardinality(c.signers \cap d.signers) >= MaxFaulty + 1
  BY DEF FinalityIsAccountable
<1>0. c \in accepted[n] /\ ov \in c.at
  BY DEF FinalityOf
<1>1. c \in Certificates /\ Verified(c) /\ Current(c.tx, c.at)
  BY <1>0, AcceptedCurrent DEF OwnedInv, OwnedTypeOK, AcceptedVerified
<1>2. c = [tx |-> c.tx, at |-> c.at, signers |-> c.signers] /\ c.tx \in OwnedTxs /\ c.tx \in Txs
  BY <1>1, OwnedObjectsAssumption DEF Certificates
<1>3. c \in Aggregated(c.tx, c.at, c.signers)
  <2>1. {o[1] : o \in c.at} = ObjectsOf[c.tx] /\ \A a, b \in c.at : a[1] = b[1] => a = b
    BY <1>1, <1>2, CurrentIsWhole
  <2> QED
    BY <1>1, <1>2, <2>1 DEF Aggregated
<1>4. ASSUME NEW d \in Aggregates, ov \in d.at, Verified(d)
      PROVE  /\ SameBody(c, d) \/ IsEvidence(c, d)
             /\ Cardinality(c.signers \cap d.signers) >= MaxFaulty + 1
  <2>1. Cardinality(c.signers \cap d.signers) >= MaxFaulty + 1
    BY <1>1, <1>4, QuorumsIntersect DEF Verified, IsQuorum
  <2>2. c.signers \cap d.signers # {}
    <3> SUFFICES ASSUME c.signers \cap d.signers = {} PROVE FALSE
      OBVIOUS
    <3>1. Cardinality(c.signers \cap d.signers) = 0
      BY FS_EmptySet
    <3> QED
      BY <2>1, <3>1, MaxFaultyBound
  <2> QED
    BY <1>0, <1>1, <1>4, <2>1, <2>2 DEF IsEvidence, Overlap
<1> QED
  BY <1>3, <1>4

\* Where N = 3f + 1, what a pool shows as final for an object version can be
\* aggregated again, and a certificate that verifies for that version and
\* another body is evidence against f + 1 signers or more
\* (OwnedObjectConflictingCertificateEvidence::verify).
THEOREM EvidenceHasSigners ==
  ASSUME Cardinality(Faulty) <= MaxFaulty, N = 3 * MaxFaulty + 1
  PROVE  OwnedSpec => []FinalityIsAccountable
<1>1. OwnedInit => AcceptedVerified
  BY DEF OwnedInit, AcceptedVerified
<1>2. OwnedInv /\ AcceptedVerified /\ [OwnedNext]_ownedVars => AcceptedVerified'
  BY VerifiedNext
<1>3. OwnedInv /\ AcceptedVerified => FinalityIsAccountable
  BY FinalIsAccountable
<1> QED
  BY <1>1, <1>2, <1>3, OwnedInvariance, PTL DEF OwnedSpec
-----------------------------------------------------------------------------
\* What a pool records as a conflict is evidence against an accepted
\* certificate, and the other certificate is out of the pool.
ConflictsAreEvidence ==
  \A n \in Pools : \A p \in conflicts[n] :
    p[1] \in accepted[n] /\ p[2] \notin accepted[n] /\ IsEvidence(p[1], p[2])

\* A certificate that verifies keeps verifying: countersignatures are never
\* withdrawn.
LEMMA EvidenceStable ==
  ASSUME signed \subseteq signed', NEW c, NEW d, IsEvidence(c, d)
  PROVE  IsEvidence(c, d)'
BY DEF IsEvidence, Verified, Attests, SameBody, Overlap

\* Recorded conflicts stay evidence: the certificate that was turned away
\* overlaps one in the pool for good, so no later submission gets it in.
LEMMA ConflictsNext ==
  ASSUME OwnedInv, ConflictsAreEvidence, [OwnedNext]_ownedVars
  PROVE  ConflictsAreEvidence'
<1> USE DEF OwnedInv
<1>1. ASSUME signed \subseteq signed', UNCHANGED <<accepted, conflicts>>
      PROVE  ConflictsAreEvidence'
  BY <1>1, EvidenceStable DEF ConflictsAreEvidence
<1>2. ASSUME NEW t \in Txs, Execute(t) PROVE ConflictsAreEvidence'
  BY <1>1, <1>2 DEF Execute
<1>3. ASSUME NEW v \in Honest, Apply(v) PROVE ConflictsAreEvidence'
  BY <1>1, <1>3 DEF Apply
<1>4. ASSUME NEW v \in Honest, NEW t \in Txs, Countersign(v, t) PROVE ConflictsAreEvidence'
  BY <1>1, <1>4 DEF Countersign
<1>5. ASSUME NEW n \in Pools, NEW c \in Aggregates, AcceptCertificate(n, c)
      PROVE  ConflictsAreEvidence'
  <2>1. \A m \in Pools : accepted'[m] = IF m = n THEN accepted[m] \cup {c} ELSE accepted[m]
    BY <1>5 DEF AcceptCertificate, OwnedTypeOK
  <2>2. \A d \in accepted[n] : ~Overlap(c, d)
    BY <1>5 DEF AcceptCertificate, Collides
  <2>3. ASSUME NEW m \in Pools, NEW p \in conflicts[m] PROVE p[2] \notin accepted'[m]
    <3>1. p[1] \in accepted[m] /\ p[2] \notin accepted[m] /\ p[1].at \cap p[2].at # {}
      BY <2>3 DEF ConflictsAreEvidence, IsEvidence, Overlap
    <3>2. m = n => c.at \cap p[1].at = {}
      BY <2>2, <3>1 DEF Overlap
    <3>3. m = n => p[2] # c
      BY <3>1, <3>2
    <3> QED
      BY <2>1, <3>1, <3>3
  <2>4. UNCHANGED <<signed, conflicts>>
    BY <1>5 DEF AcceptCertificate
  <2> QED
    BY <2>1, <2>3, <2>4, EvidenceStable DEF ConflictsAreEvidence
<1>6. ASSUME NEW n \in Pools, NEW c \in Aggregates, NEW d \in accepted[n],
             RejectConflict(n, c, d)
      PROVE  ConflictsAreEvidence'
  <2>1. \A m \in Pools : conflicts'[m] = IF m = n THEN conflicts[m] \cup {<<d, c>>} ELSE conflicts[m]
    BY <1>6 DEF RejectConflict, OwnedTypeOK
  <2>2. IsEvidence(d, c) /\ c # d /\ UNCHANGED <<signed, accepted>>
    BY <1>6 DEF RejectConflict
  <2>3. c \notin accepted[n]
    BY <2>2 DEF OnePerObjectVersion, IsEvidence
  <2>4. \A a, b : IsEvidence(a, b) => IsEvidence(a, b)'
    BY <2>2, EvidenceStable
  <2>5. ASSUME NEW m \in Pools, NEW p \in conflicts'[m]
        PROVE  p[1] \in accepted[m] /\ p[2] \notin accepted[m] /\ IsEvidence(p[1], p[2])
    <3>1. CASE p \in conflicts[m]
      BY <3>1 DEF ConflictsAreEvidence
    <3>2. CASE m = n /\ p = <<d, c>>
      BY <3>2, <2>2, <2>3
    <3> QED
      BY <2>1, <2>5, <3>1, <3>2
  <2> QED
    BY <2>2, <2>4, <2>5 DEF ConflictsAreEvidence
<1>7. CASE UNCHANGED ownedVars
  BY <1>1, <1>7 DEF ownedVars
<1> QED
  BY <1>2, <1>3, <1>4, <1>5, <1>6, <1>7 DEF OwnedNext

\* A conflict that CertificatePool records is one between an accepted
\* certificate and another body, never one that got in as well, and every
\* honest validator among the accused did sign both bodies.
THEOREM RecordedConflictsAreGenuine ==
  ASSUME Cardinality(Faulty) <= MaxFaulty
  PROVE  OwnedSpec => []ConflictsAreGenuine
<1>1. OwnedInit => ConflictsAreEvidence
  BY DEF OwnedInit, ConflictsAreEvidence
<1>2. OwnedInv /\ ConflictsAreEvidence /\ [OwnedNext]_ownedVars => ConflictsAreEvidence'
  BY ConflictsNext
<1>3. ConflictsAreEvidence => ConflictsAreGenuine
  BY DEF ConflictsAreEvidence, ConflictsAreGenuine, IsEvidence, Verified
<1> QED
  BY <1>1, <1>2, <1>3, OwnedInvariance, PTL DEF OwnedSpec
=============================================================================
