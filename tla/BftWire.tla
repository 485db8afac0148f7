------------------------------ MODULE BftWire ------------------------------
(***************************************************************************)
(* Votes weighted by stake, timeouts, the certificates made of them, and   *)
(* the evidence that gets a validator slashed (crates/bft-wire, and        *)
(* crates/core/src/consensus_misbehavior.rs).                              *)
(*                                                                         *)
(* An honest validator votes for the blocks it commits, one a height until *)
(* it restarts from an older snapshot (forward_vote_after_commit remembers *)
(* no vote), and times out with the certificates it has; a faulty one      *)
(* signs anything.  A signature is the statement it signs: it verifies for *)
(* that statement and its signer only, and what was signed may reach a     *)
(* pool in any order or never: a pool holds any part of what was signed    *)
(* that record() lets in.  A certificate is its statement with its         *)
(* signers, as the aggregate signature differs with them.                  *)
(*                                                                         *)
(* Below it, how a node gets its own votes onto the wire: the one-slot     *)
(* publisher of crates/node/src/p2p.rs and the identity file it signs      *)
(* gossip with, which has to survive a crash.                              *)
(***************************************************************************)
EXTENDS Values, SequencesExt

CONSTANTS
  N,          \* validators are 0 .. N - 1
  HonestVals, \* those that follow the protocol
  Stake,      \* stake weights: validator -> stake
  BlockViews, \* bound: views
  BlockIds,   \* header hashes
  BlockHeight,\* the height in the header of a hash
  WireHeights,\* bound: heights a faulty vote can carry
  MaxQcs,     \* bound: certificates formed
  MaxSigned,  \* bound: timeouts signed
  MaxRewound, \* bound: validators that restart
  GossipPeers,\* peers that may subscribe to the votes topic
  MaxForwarded,\* bound: blocks committed
  MaxIds      \* bound: identities generated

Vals == 0 .. N - 1

ASSUME BftWireAssumption ==
  /\ N \in Nat \ {0} /\ HonestVals \subseteq Vals /\ Stake \in [Vals -> Nat]
  /\ BlockHeight \in [BlockIds -> WireHeights]
  /\ MaxForwarded \in Nat /\ MaxIds \in Nat

VARIABLES
  votes,     \* the votes signed
  timeouts,  \* the timeouts signed
  qcs,       \* certificates that verify_formed_qc passed
  tcs,       \* timeout certificates that verify_formed_timeout_cert passed
  punished,  \* validators slashed on evidence
  rewound    \* history: validators that restarted from an older snapshot

wireVars == <<votes, timeouts, qcs, tcs, punished, rewound>>

GenesisQc == [view |-> 0, height |-> 0, hash |-> "genesis", signers |-> {}]
Forged == [view |-> 0, height |-> 9, hash |-> "forged", signers |-> Vals]

\* quorum_threshold
QuorumThreshold == 2 * ((N - 1) \div 3) + 1

TotalStake == SumOver(Vals, LAMBDA v : Stake[v])

\* Seeded defect: the threshold is the average stake.
StakeThresholdLow == Max({1, TotalStake \div N})

\* quorum_stake_threshold
StakeThreshold == Max({1, (TotalStake * QuorumThreshold + N - 1) \div N})

\* slot_quorum_met, for a set of validators
QuorumMet(S) ==
  IF TotalStake = 0 THEN Cardinality(S) >= QuorumThreshold
  ELSE SumOver(S, LAMBDA v : Stake[v]) >= StakeThreshold

\* The statement of a vote and of a timeout; a field in common would make them equal
\* under one key, so the domains of the signatures differ.
Vote(v, view, height, hash) == [by |-> v, view |-> view, height |-> height, hash |-> hash]
Timeout(v, view, qc) == [by |-> v, view |-> view, high |-> qc]
-----------------------------------------------------------------------------
\* Vote::sign
SignVote(v, view, hash, height) ==
  /\ v \in HonestVals =>
       /\ height = BlockHeight[hash]
       /\ v \in rewound \/ \A w \in votes : w.by = v /\ w.height = height => w.hash = hash
  /\ votes' = votes \cup {Vote(v, view, height, hash)}
  /\ UNCHANGED <<timeouts, qcs, tcs, punished, rewound>>

\* restore_disk_snapshot: blocks above the snapshot are committed, and voted for, once more.
Rewind(v) ==
  /\ v \in HonestVals /\ Cardinality(rewound) < MaxRewound
  /\ rewound' = rewound \cup {v}
  /\ UNCHANGED <<votes, timeouts, qcs, tcs, punished>>

\* VotePool::record: a slot is keyed by view and hash and holds one vote a validator.
\* The slots that a pool may have for them.
VoteSlots(view, hash) ==
  {S \in SUBSET {w \in votes : w.view = view /\ w.hash = hash} : \A w, x \in S : w.by = x.by => w = x}

\* verify_formed_qc: the aggregate verifies when every signer signed this statement
VerifyQc(qc) ==
  /\ QuorumMet(qc.signers)
  /\ \A v \in qc.signers : Vote(v, qc.view, qc.height, qc.hash) \in votes

\* try_form_qc and verify_formed_qc
FormQc(view, hash) ==
  /\ Cardinality(qcs) < MaxQcs
  /\ \E S \in VoteSlots(view, hash) :
       /\ QuorumMet({w.by : w \in S})
       /\ \E qc \in {[view |-> view, height |-> BlockHeight[hash], hash |-> hash, signers |-> {w.by : w \in S}]} :
            VerifyQc(qc) /\ qc \notin qcs /\ qcs' = qcs \cup {qc}
  /\ UNCHANGED <<votes, timeouts, tcs, punished, rewound>>

\* Timeout::sign, with a certificate the signer has seen.  The certificate in a timeout
\* is not verified, so a faulty signer may make one up.
SignTimeout(v, view, qc) ==
  /\ Cardinality(timeouts) < MaxSigned
  /\ v \in HonestVals => qc # Forged
  /\ timeouts' = timeouts \cup {Timeout(v, view, qc)}
  /\ UNCHANGED <<votes, qcs, tcs, punished, rewound>>

\* TimeoutPool::record: a slot is keyed by view and the hash of the high QC.
TimeoutSigners(pool, qc) == {t.by : t \in {x \in pool : x.high = qc}}

\* high_qc_rank; equal ranks are told apart by the hash of the certificate, here by
\* the number of signers
Outranks(a, b) ==
  \/ a.height > b.height
  \/ a.height = b.height /\ a.view > b.view
  \/ a.height = b.height /\ a.view = b.view /\ Cardinality(a.signers) > Cardinality(b.signers)

\* try_form_best_timeout_cert_for_view: the certificates with a quorum of timeouts that
\* none with a quorum outranks
BestHighQc(pool) ==
  LET ready == {qc \in {t.high : t \in pool} : Cardinality(TimeoutSigners(pool, qc)) >= QuorumThreshold}
  IN {qc \in ready : ~\E other \in ready : Outranks(other, qc)}

\* try_form_best_timeout_cert_for_view with verify_formed_timeout_cert
FormTimeoutCert(view) ==
  /\ tcs = {}
  /\ \E pool \in SUBSET {t \in timeouts : t.view = view} : \E qc \in BestHighQc(pool) :
       \E tc \in {[view |-> view, high |-> qc, signers |-> TimeoutSigners(pool, qc)]} :
         tc \notin tcs /\ tcs' = tcs \cup {tc}
  /\ UNCHANGED <<votes, timeouts, qcs, punished, rewound>>
-----------------------------------------------------------------------------
\* verify_consensus_misbehavior_evidence, by the kind of evidence
DoubleVote(v, a, b) ==
  /\ a.by = v /\ b.by = v
  /\ a.view = b.view /\ a.height = b.height /\ a.hash # b.hash
  /\ {a, b} \subseteq votes

ConflictingQc(v, p, q) ==
  /\ p.view = q.view /\ p.height = q.height /\ p.hash # q.hash
  /\ v \in p.signers \cap q.signers
  /\ VerifyQc(p) /\ VerifyQc(q)

TimeoutEquivocation(v, s, t) ==
  /\ s.by = v /\ t.by = v /\ s.view = t.view /\ s.high # t.high
  /\ {s, t} \subseteq timeouts

\* verify_slashing_evidence_borsh (the run looks at the first one slashed)
Slash(v) ==
  /\ punished = {}
  /\ \/ \E a, b \in votes : DoubleVote(v, a, b)
     \/ \E p, q \in qcs : ConflictingQc(v, p, q)
     \/ \E s, t \in timeouts : TimeoutEquivocation(v, s, t)
  /\ punished' = punished \cup {v}
  /\ UNCHANGED <<votes, timeouts, qcs, tcs, rewound>>

WireInit ==
  /\ votes = {} /\ timeouts = {} /\ qcs = {} /\ tcs = {} /\ punished = {} /\ rewound = {}

WireNext ==
  \/ \E v \in Vals, view \in BlockViews, hash \in BlockIds, height \in WireHeights : SignVote(v, view, hash, height)
  \/ \E view \in BlockViews, hash \in BlockIds : FormQc(view, hash)
  \/ \E v \in Vals, view \in BlockViews, qc \in qcs \cup {GenesisQc, Forged} : SignTimeout(v, view, qc)
  \/ \E view \in BlockViews : FormTimeoutCert(view)
  \/ \E v \in Vals : Slash(v) \/ Rewind(v)

WireSpec == WireInit /\ [][WireNext]_wireVars
-----------------------------------------------------------------------------
\* v signed two timeouts of one view: its highest certificate rose in between.
TimedOutTwice(v) == \E s, t \in timeouts : s.by = v /\ t.by = v /\ s.view = t.view /\ s.high # t.high

\* Evidence convicts a validator that follows the code only for what the code does not
\* remember: votes before a restart from an older snapshot, or a timeout of the same view with
\* another certificate.  Nothing the faulty ones sign, and no order in which votes and timeouts
\* are gathered, convicts it for a block or a view it signed once.
HonestUnpunished == \A v \in punished \cap HonestVals : v \in rewound \/ TimedOutTwice(v)

\* Two certificates of one view and height for different blocks convict somebody: a signer of
\* both, who is faulty or restarted from an older snapshot.
ConflictsConvict ==
  \A p, q \in qcs :
    p.view = q.view /\ p.height = q.height /\ p.hash # q.hash =>
      \E v \in Vals \ (HonestVals \ rewound) : ConflictingQc(v, p, q)

\* The certificate of a timed-out view carries a certificate that was really formed,
\* though a timeout's own is never verified: a quorum reported it, and some honest
\* validator is in every quorum.
TimeoutCertGenuine == \A tc \in tcs : tc.high \in qcs \cup {GenesisQc}
-----------------------------------------------------------------------------
(***************************************************************************)
(* The publisher.  A vote is the number of the commit it is for; 0 stands  *)
(* for no vote, no file and no identity.                                   *)
(***************************************************************************)
VARIABLES
  forwarded,   \* votes handed to vote_sink so far
  sink,        \* the channel from vote_sink to the network task
  pendingVote, \* pending_vote
  listeners,   \* peers subscribed to the votes topic
  gossiped,    \* votes published, in order
  unsent,      \* votes given up because gossipsub refused them
  keyFile,     \* the identity in FRACTAL_P2P_IDENTITY_PATH
  tmpFile,     \* the one in the file next to it
  starting,    \* [step, id] of load_or_create_p2p_keypair
  seen         \* identities the node has been up with

voteSlotVars == <<forwarded, sink, pendingVote, listeners, gossiped, unsent>>
identityVars == <<keyFile, tmpFile, starting, seen>>
publisherVars == <<voteSlotVars, identityVars>>

Torn == -1  \* a file cut short by a crash

\* Seeded defect: a vote that waits is not replaced.
EnqueueIfEmpty(pending, v) == IF pending = 0 THEN v ELSE pending

\* enqueue_vote_publish
Enqueue(pending, v) == v

\* try_flush_vote_publish: what becomes of the slot when these peers listen.
\* Without a peer the vote waits; any other error gives it up.
TryFlush(slot, peers) ==
  \/ /\ slot = 0 \/ peers = {}
     /\ pendingVote' = slot /\ UNCHANGED <<gossiped, unsent>>
  \/ /\ slot # 0 /\ peers # {}
     /\ pendingVote' = 0
     /\ \/ gossiped' = Append(gossiped, slot) /\ UNCHANGED unsent
        \/ unsent' = unsent \cup {slot} /\ UNCHANGED gossiped

\* forward_vote_after_commit
ForwardVote ==
  /\ starting.step = "up" /\ forwarded < MaxForwarded
  /\ forwarded' = forwarded + 1 /\ sink' = Append(sink, forwarded + 1)
  /\ UNCHANGED <<pendingVote, listeners, gossiped, unsent, identityVars>>

\* producer_network_task: rx.recv()
RecvVote ==
  /\ starting.step = "up" /\ sink # <<>>
  /\ sink' = Tail(sink)
  /\ TryFlush(Enqueue(pendingVote, Head(sink)), listeners)
  /\ UNCHANGED <<forwarded, listeners, identityVars>>

\* producer_network_task: swarm.select_next_some(), with what the event did
\* to the subscriptions
SwarmPolled(peers) ==
  /\ starting.step = "up"
  /\ listeners' = peers
  /\ TryFlush(pendingVote, peers)
  /\ UNCHANGED <<forwarded, sink, identityVars>>

\* load_or_create_p2p_keypair: an identity on file is used, and a file that
\* does not decode keeps the node from starting.
LoadIdentity ==
  /\ starting.step = "down" /\ keyFile \notin {0, Torn}
  /\ starting' = [step |-> "up", id |-> keyFile] /\ seen' = seen \cup {keyFile}
  /\ UNCHANGED <<keyFile, tmpFile, voteSlotVars>>

GenerateIdentity(id) ==
  /\ starting.step = "down" /\ keyFile = 0
  /\ starting' = [step |-> "write", id |-> id]
  /\ UNCHANGED <<keyFile, tmpFile, seen, voteSlotVars>>

\* Seeded defect: the identity is written in place.
WriteInPlace(whole) ==
  /\ starting.step = "write"
  /\ keyFile' = (IF whole THEN starting.id ELSE Torn)
  /\ starting' = [starting EXCEPT !.step = IF whole THEN "up" ELSE "down"]
  /\ UNCHANGED <<tmpFile, seen, voteSlotVars>>

\* The temporary file, which a crash may cut short.
WriteIdentity(whole) ==
  /\ starting.step = "write"
  /\ tmpFile' = (IF whole THEN starting.id ELSE Torn)
  /\ starting' = [starting EXCEPT !.step = IF whole THEN "rename" ELSE "down"]
  /\ UNCHANGED <<keyFile, seen, voteSlotVars>>

RenameIdentity ==
  /\ starting.step = "rename"
  /\ keyFile' = tmpFile /\ tmpFile' = 0
  /\ starting' = [starting EXCEPT !.step = "up"] /\ seen' = seen \cup {starting.id}
  /\ UNCHANGED voteSlotVars

\* The process ends; channel, slot and subscriptions are gone.
CrashNode ==
  /\ starting.step # "down"
  /\ starting' = [step |-> "down", id |-> 0]
  /\ sink' = <<>> /\ pendingVote' = 0 /\ listeners' = {}
  /\ unsent' = (unsent \cup {pendingVote} \cup {sink[i] : i \in DOMAIN sink}) \ {0}
  /\ UNCHANGED <<forwarded, gossiped, keyFile, tmpFile, seen>>

PublisherInit ==
  /\ forwarded = 0 /\ sink = <<>> /\ pendingVote = 0 /\ listeners = {} /\ gossiped = <<>> /\ unsent = {}
  /\ keyFile = 0 /\ tmpFile = 0 /\ starting = [step |-> "down", id |-> 0] /\ seen = {}

PublisherNext ==
  \/ ForwardVote \/ RecvVote
  \/ \E peers \in SUBSET GossipPeers : SwarmPolled(peers)
  \/ LoadIdentity \/ RenameIdentity \/ CrashNode
  \/ \E id \in 1 .. MaxIds : GenerateIdentity(id)
  \/ \E whole \in BOOLEAN : WriteIdentity(whole)

PublisherSpec == PublisherInit /\ [][PublisherNext]_publisherVars
-----------------------------------------------------------------------------
\* The newest vote is never lost to an older one that still waits: once the
\* channel is empty, the vote for the last commit is out, waits for the first
\* peer, or was refused by gossipsub.  Only older votes are given up for it.
NewestVoteKept ==
  sink = <<>> /\ forwarded > 0 =>
    forwarded \in {gossiped[i] : i \in DOMAIN gossiped} \cup unsent \cup {pendingVote}

\* Votes go out in the order of the commits, none twice, and none waits while
\* a peer listens.
VotesGoOutInOrder ==
  /\ \A i, j \in DOMAIN gossiped : i < j => gossiped[i] < gossiped[j]
  /\ pendingVote # 0 => listeners = {} /\ \A i \in DOMAIN gossiped : gossiped[i] < pendingVote

\* The slot loses no vote: every one is out, waiting or refused.
EveryVoteGoesOut ==
  \A v \in 1 .. forwarded :
    v \in {gossiped[i] : i \in DOMAIN gossiped} \cup {sink[i] : i \in DOMAIN sink} \cup unsent \cup {pendingVote}

\* A node that keeps its identity on file has one for good: wherever the
\* process dies, the next start comes up with the identity peers have seen, or
\* with a first one, and never finds half a file.
IdentityIsKept == Cardinality(seen) <= 1 /\ keyFile # Torn
=============================================================================
