---------------------------- MODULE FollowerSync ----------------------------
(***************************************************************************)
(* How a follower pulls blocks from the producer (crates/node/src/p2p.rs): *)
(* it asks for the tip, then for blocks, samples the data-availability     *)
(* shares of each block from the peers that announced themselves, and      *)
(* applies a block when all its sampled shares have been verified.         *)
(*                                                                         *)
(* One flag, outstanding, keeps the poll timer quiet while a request is in *)
(* flight; every response and every failure clears it first.  Requests to  *)
(* several peers are in flight together, so responses of an abandoned      *)
(* round may arrive in a later one.                                        *)
(*                                                                         *)
(* A block is known by the restarts of the producer before which it and    *)
(* each of its ancestors were built: a sequence as long as its height, its *)
(* parent the sequence without the last.  NodeChain models why a block is  *)
(* accepted and the pruning of served ones.  libp2p answers a request with *)
(* one response or one OutboundFailure, in any order with other requests.  *)
(***************************************************************************)
EXTENDS Naturals, Sequences, SequencesExt, Bags

CONSTANTS
  Producer,     \* producer_peer
  DaPeers,      \* the other peers that serve data-availability shares
  FaultyPeers,  \* those that may answer with anything
  Announcers,   \* peers that send a DaProviderAnnouncement
  MayDrop,      \* peers whose connection may close
  Dials,        \* Dials[p]: bootstrap addresses of p
  Indexes,      \* share indexes
  Sample,       \* Sample[h]: da_sample_indexes_for_block, possibly with repetitions
  MaxBlocks,    \* max_blocks of GetBlocks
  MaxHeight,    \* bound: height of the producer
  MaxRestarts,  \* bound: restarts of the producer
  MaxAnswer,    \* bound: shares or blocks in the answer of a faulty peer
  MaxFaults,    \* bound: failed requests, closed connections and stray answers
  MaxInFlight   \* bound: messages in flight when the poll timer fires

Peers == DaPeers \cup {Producer}

Heights == 1 .. MaxHeight

Blocks == Seq(0 .. MaxRestarts)

ASSUME FollowerSyncAssumption ==
  /\ Producer \notin DaPeers /\ IsFiniteSet(DaPeers)
  /\ FaultyPeers \subseteq DaPeers
  /\ Announcers \subseteq Peers /\ MayDrop \subseteq Peers
  /\ Dials \in [Peers -> Nat]
  /\ MaxHeight \in Nat /\ MaxBlocks \in Nat \ {0} /\ MaxFaults \in Nat
  /\ MaxInFlight \in Nat /\ MaxRestarts \in Nat /\ MaxAnswer \in Nat
  /\ Sample \in [Heights -> Seq(Indexes)]

VARIABLES
  has,          \* has[p]: the head of the chain of peer p, genesis being <<>>
  restarts,     \* how often the producer restarted
  net,          \* the messages in flight, a bag
  conns,        \* conns[p]: open connections to p
  dials,        \* dials[p]: dials that have not been answered
  faults,       \* how many failures there were
  head,         \* the head of the follower
  connected,    \* a connection to the producer was established
  outstanding,
  daPeers,      \* connected_da_peers
  pending,      \* pending_da_blocks
  next,         \* pending_da_index, counted from 1
  sample,       \* pending_da_sample_indexes
  verified,     \* pending_da_verified_indexes
  responses,    \* pending_da_responses
  expected,     \* pending_da_expected_responses
  audited       \* history: pairs of a block and a share index that verified

world == <<has, restarts, conns, dials>>
round == <<pending, next, sample, verified, responses, expected>>
vars == <<has, restarts, net, conns, dials, faults, head, connected, outstanding, daPeers,
          pending, next, sample, verified, responses, expected, audited>>

GetTip == [type |-> "GetTip", peer |-> Producer]
GetBlocks(from) == [type |-> "GetBlocks", peer |-> Producer, from |-> from]
GetDaShares(p, b, indexes) ==
  [type |-> "GetDaShares", peer |-> p, block |-> b, indexes |-> indexes]
Tip(h) == [type |-> "Tip", peer |-> Producer, height |-> h]
BlockList(blocks) == [type |-> "Blocks", peer |-> Producer, blocks |-> blocks]
\* good: the shares are the ones of the block's own sidecar.
DaShares(p, b, indexes, good) ==
  [type |-> "DaShares", peer |-> p, block |-> b, indexes |-> indexes, good |-> good]
ErrMsg(p) == [type |-> "ErrMsg", peer |-> p]

\* The bag of messages with m taken out and those in S put in.
Exchange(m, S) == (net (-) SetToBag({m})) (+) SetToBag(S)

InFlight == BagToSet(net)

\* The blocks peer p has.
Served(p) == {SubSeq(has[p], 1, h) : h \in 1 .. Len(has[p])}
-----------------------------------------------------------------------------
\* The k-th of the n lists of split_indexes_across_peers.
Chunk(s, n, k) == [j \in 1 .. ((Len(s) - k) \div n) + 1 |-> s[(j - 1) * n + k]]

\* Seeded defect: with no announced peer, no peer is asked.
DaServersAnnounced == SetToSeq(daPeers)

\* The peers request_next_da_sample asks, in some fixed order.
DaServers == SetToSeq(IF daPeers = {} THEN {Producer} ELSE daPeers)

\* The GetDaShares requests for block b.
SampleRequests(b) ==
  LET peers == DaServers
      s == Sample[Len(b)]
      n == IF Len(peers) < Len(s) THEN Len(peers) ELSE Len(s)
  IN {GetDaShares(peers[k], b, Chunk(s, n, k)) : k \in 1 .. n}

\* request_next_da_sample for the block b of pending_da_blocks, on the response
\* m.  With no index to sample nothing is sent.
RequestNextDaSample(m, b) ==
  /\ sample' = Sample[Len(b)]
  /\ verified' = <<>>
  /\ responses' = 0
  /\ expected' = Cardinality(SampleRequests(b))
  /\ outstanding' = TRUE
  /\ net' = Exchange(m, SampleRequests(b))

\* Seeded defect: the answers of a round are counted but not compared.
SameIndexCount(left, right) == Len(left) <= Len(right)

\* same_index_multiset: left is a permutation of right.
SameIndexMultiset(left, right) ==
  \E f \in Bijection(DOMAIN left, DOMAIN right) : \A i \in DOMAIN left : left[i] = right[f[i]]

\* The checks on a DaShares response that are made before it counts.
SharesMatch(m) ==
  /\ next <= Len(pending)
  /\ m.block = pending[next]
  /\ m.good

\* The head after apply_synced_block of block b; an error is logged.
Applied(b) == IF b # <<>> /\ Front(b) = head THEN b ELSE head
-----------------------------------------------------------------------------
Init ==
  /\ has = [p \in Peers |-> <<>>] /\ restarts = 0
  /\ net = EmptyBag
  /\ conns = [p \in Peers |-> 0]
  /\ dials = Dials
  /\ faults = 0
  /\ head = <<>>
  /\ connected = FALSE /\ outstanding = FALSE
  /\ daPeers = {}
  /\ pending = <<>> /\ next = 1
  /\ sample = <<>> /\ verified = <<>> /\ responses = 0 /\ expected = 0
  /\ audited = {}

\* The producer commits a block.
Produce ==
  /\ Len(has[Producer]) < MaxHeight
  /\ has' = [has EXCEPT ![Producer] = Append(@, restarts)]
  /\ UNCHANGED <<restarts, net, conns, dials, faults, head, connected, outstanding, daPeers, round, audited>>

\* The producer restarts from an older snapshot, which closes its connections.
Restart ==
  /\ restarts < MaxRestarts
  /\ restarts' = restarts + 1
  /\ \E b \in Served(Producer) \cup {<<>>} : has' = [has EXCEPT ![Producer] = b]
  /\ conns' = [conns EXCEPT ![Producer] = 0]
  /\ daPeers' = daPeers \ {Producer}
  /\ UNCHANGED <<net, dials, faults, head, connected, outstanding, round, audited>>

\* A serving peer gets the next block of the producer.
Advance(p) ==
  /\ IsStrictPrefix(has[p], has[Producer])
  /\ has' = [has EXCEPT ![p] = SubSeq(has[Producer], 1, Len(@) + 1)]
  /\ UNCHANGED <<restarts, net, conns, dials, faults, head, connected, outstanding, daPeers, round, audited>>

\* ConnectionEstablished
Connect(p) ==
  /\ dials[p] > 0
  /\ dials' = [dials EXCEPT ![p] = @ - 1]
  /\ conns' = [conns EXCEPT ![p] = @ + 1]
  /\ IF p = Producer
     THEN /\ connected' = TRUE
          /\ outstanding' = TRUE
          /\ net' = net (+) SetToBag({GetTip})
     ELSE UNCHANGED <<connected, outstanding, net>>
  /\ UNCHANGED <<has, restarts, faults, head, daPeers, round, audited>>

\* ConnectionClosed; connected stays as it is.
Disconnect(p) ==
  /\ faults < MaxFaults
  /\ conns[p] > 0
  /\ faults' = faults + 1
  /\ conns' = [conns EXCEPT ![p] = @ - 1]
  /\ daPeers' = daPeers \ {p}
  /\ UNCHANGED <<has, restarts, net, dials, head, connected, outstanding, round, audited>>

\* A DaProviderAnnouncement arrives from p.
Announce(p) ==
  /\ conns[p] > 0
  /\ daPeers' = daPeers \cup {p}
  /\ UNCHANGED <<world, net, faults, head, connected, outstanding, round, audited>>

\* poll.tick()
Poll ==
  /\ connected /\ ~outstanding
  /\ BagCardinality(net) < MaxInFlight
  /\ outstanding' = TRUE
  /\ net' = net (+) SetToBag({GetTip})
  /\ UNCHANGED <<world, faults, head, connected, daPeers, round, audited>>

\* sync_response_for_request, for each kind of request.
AnswerTip(m) ==
  /\ m.type = "GetTip"
  /\ net' = Exchange(m, {Tip(Len(has[m.peer]))})

AnswerBlocks(m) ==
  /\ m.type = "GetBlocks"
  /\ LET tip == Len(has[m.peer])
         last == IF tip < m.from + MaxBlocks - 1 THEN tip ELSE m.from + MaxBlocks - 1
     IN net' = Exchange(m, {BlockList([i \in 1 .. last + 1 - m.from |->
                                         SubSeq(has[m.peer], 1, m.from + i - 1)])})

AnswerShares(m) ==
  /\ m.type = "GetDaShares"
  /\ net' = Exchange(m, {IF m.block \in Served(m.peer)
                         THEN DaShares(m.peer, m.block, m.indexes, TRUE)
                         ELSE ErrMsg(m.peer)})

\* A faulty peer answers with shares of any block and any indexes.
AnswerAnything(m) ==
  /\ m.type = "GetDaShares" /\ m.peer \in FaultyPeers
  /\ \E b \in Served(Producer), s \in BoundedSeq(Indexes, MaxAnswer), good \in BOOLEAN :
       net' = Exchange(m, {DaShares(m.peer, b, s, good)})

\* A peer answers a request.
Serve(m) ==
  /\ conns[m.peer] > 0
  /\ AnswerTip(m) \/ AnswerBlocks(m) \/ AnswerShares(m) \/ AnswerAnything(m)
  /\ UNCHANGED <<world, faults, head, connected, outstanding, daPeers, round, audited>>

\* A faulty peer answers with a tip or with blocks, which the follower asks only
\* the producer for and takes from anyone.
ServeStray(m) ==
  /\ conns[m.peer] > 0 /\ m.peer \in FaultyPeers
  /\ m.type = "GetDaShares"
  /\ faults < MaxFaults /\ faults' = faults + 1
  /\ \/ \E h \in 0 .. MaxHeight : net' = Exchange(m, {Tip(h)})
     \/ \E s \in BoundedSeq(Served(Producer), MaxAnswer) : net' = Exchange(m, {BlockList(s)})
  /\ UNCHANGED <<world, head, connected, outstanding, daPeers, round, audited>>

\* OutboundFailure: a time-out or a lost connection.
Fail(m) ==
  /\ \/ conns[m.peer] = 0 /\ UNCHANGED faults
     \/ faults < MaxFaults /\ faults' = faults + 1
  /\ net' = Exchange(m, {})
  /\ outstanding' = FALSE
  /\ UNCHANGED <<world, head, connected, daPeers, round, audited>>

\* SyncResponse::ErrMsg, and responses that cannot be decoded.
HandleErrMsg(m) ==
  /\ m.type = "ErrMsg"
  /\ net' = Exchange(m, {})
  /\ outstanding' = FALSE
  /\ UNCHANGED <<world, faults, head, connected, daPeers, round, audited>>

\* Seeded defect: the block right above the head is not asked for.
HandleTipLate(m) ==
  /\ m.type = "Tip"
  /\ IF m.height > Len(head) + 1
     THEN outstanding' = TRUE /\ net' = Exchange(m, {GetBlocks(Len(head) + 1)})
     ELSE outstanding' = FALSE /\ net' = Exchange(m, {})
  /\ UNCHANGED <<world, faults, head, connected, daPeers, round, audited>>

\* SyncResponse::Tip
HandleTip(m) ==
  /\ m.type = "Tip"
  /\ IF m.height >= Len(head) + 1
     THEN outstanding' = TRUE /\ net' = Exchange(m, {GetBlocks(Len(head) + 1)})
     ELSE outstanding' = FALSE /\ net' = Exchange(m, {})
  /\ UNCHANGED <<world, faults, head, connected, daPeers, round, audited>>

\* SyncResponse::Blocks with no block.
HandleNoBlocks(m) ==
  /\ m.type = "Blocks" /\ m.blocks = <<>>
  /\ outstanding' = TRUE
  /\ net' = Exchange(m, {GetTip})
  /\ UNCHANGED <<world, faults, head, connected, daPeers, round, audited>>

\* SyncResponse::Blocks replaces whatever was pending.
HandleBlocks(m) ==
  /\ m.type = "Blocks" /\ m.blocks # <<>>
  /\ pending' = m.blocks
  /\ next' = 1
  /\ RequestNextDaSample(m, m.blocks[1])
  /\ UNCHANGED <<world, faults, head, connected, daPeers, audited>>

\* SyncResponse::DaShares that are unexpected, for another block, or wrong.
DiscardShares(m) ==
  /\ m.type = "DaShares"
  /\ ~SharesMatch(m)
  /\ outstanding' = FALSE
  /\ net' = Exchange(m, {})
  /\ UNCHANGED <<world, faults, head, connected, daPeers, round, audited>>

\* What every DaShares response does that passes the checks.
CountShares(m) ==
  /\ m.type = "DaShares"
  /\ SharesMatch(m)
  /\ audited' = audited \cup {<<m.block, m.indexes[i]>> : i \in DOMAIN m.indexes}

\* SyncResponse::DaShares while others are awaited.
CollectShares(m) ==
  /\ CountShares(m)
  /\ responses + 1 < expected
  /\ verified' = verified \o m.indexes
  /\ responses' = responses + 1
  /\ outstanding' = TRUE
  /\ net' = Exchange(m, {})
  /\ UNCHANGED <<world, faults, head, connected, daPeers, pending, next, sample, expected>>

\* The awaited number of responses did not bring the sampled indexes.
MismatchShares(m) ==
  /\ CountShares(m)
  /\ responses + 1 >= expected
  /\ ~SameIndexMultiset(sample, verified \o m.indexes)
  /\ verified' = verified \o m.indexes
  /\ responses' = responses + 1
  /\ outstanding' = FALSE
  /\ net' = Exchange(m, {})
  /\ UNCHANGED <<world, faults, head, connected, daPeers, pending, next, sample, expected>>

\* The sample is complete: the block is applied and the next one sampled.  An
\* error of apply_synced_block is logged and the next block sampled as well.
ApplyAndContinue(m) ==
  /\ CountShares(m)
  /\ responses + 1 >= expected
  /\ SameIndexMultiset(sample, verified \o m.indexes)
  /\ next < Len(pending)
  /\ head' = Applied(pending[next])
  /\ next' = next + 1
  /\ RequestNextDaSample(m, pending[next + 1])
  /\ UNCHANGED <<world, faults, connected, daPeers, pending>>

\* The sample of the last pending block is complete.
ApplyLast(m) ==
  /\ CountShares(m)
  /\ responses + 1 >= expected
  /\ SameIndexMultiset(sample, verified \o m.indexes)
  /\ next = Len(pending)
  /\ head' = Applied(pending[next])
  /\ next' = next + 1
  /\ pending' = <<>> /\ sample' = <<>> /\ verified' = <<>>
  /\ responses' = 0 /\ expected' = 0
  /\ outstanding' = TRUE
  /\ net' = Exchange(m, {GetTip})
  /\ UNCHANGED <<world, faults, connected, daPeers>>

Handle(m) ==
  \/ HandleErrMsg(m) \/ HandleTip(m) \/ HandleNoBlocks(m) \/ HandleBlocks(m)
  \/ DiscardShares(m) \/ CollectShares(m) \/ MismatchShares(m)
  \/ ApplyAndContinue(m) \/ ApplyLast(m)

Next ==
  \/ Produce
  \/ Restart
  \/ \E p \in DaPeers : Advance(p)
  \/ \E p \in Peers : Connect(p)
  \/ \E p \in MayDrop : Disconnect(p)
  \/ \E p \in Announcers : Announce(p)
  \/ Poll
  \/ \E m \in InFlight : Serve(m)
  \/ \E m \in InFlight : ServeStray(m)
  \/ \E m \in InFlight : Fail(m)
  \/ \E m \in InFlight : Handle(m)

Spec == Init /\ [][Next]_vars

\* The bootstrap dial succeeds, the poll timer ticks every 600 ms, a request is
\* answered or fails (after 120 s at the latest), the swarm is polled, and the
\* serving peers keep up with the producer.
Fairness ==
  /\ WF_vars(Connect(Producer))
  /\ WF_vars(Poll)
  /\ WF_vars(\E m \in InFlight : Serve(m) \/ Fail(m))
  /\ WF_vars(\E m \in InFlight : Handle(m))
  /\ \A p \in DaPeers : WF_vars(Advance(p))

FairSpec == Spec /\ Fairness
-----------------------------------------------------------------------------
TypeOK ==
  /\ has \in [Peers -> Blocks] /\ restarts \in 0 .. MaxRestarts
  /\ conns \in [Peers -> Nat] /\ dials \in [Peers -> Nat]
  /\ faults \in 0 .. MaxFaults
  /\ head \in Blocks /\ Len(head) <= MaxHeight
  /\ connected \in BOOLEAN /\ outstanding \in BOOLEAN
  /\ daPeers \subseteq Peers
  /\ pending \in Seq(Blocks) /\ next \in Nat \ {0}
  /\ sample \in Seq(Indexes) /\ verified \in Seq(Indexes)
  /\ responses \in Nat /\ expected \in Nat
  /\ audited \subseteq Blocks \X Indexes

\* A follower has applied a block only if every share index it samples for that
\* block was answered and verified, whatever faulty peers answer, whichever
\* requests fail and however responses of abandoned rounds come in.
SampledBeforeApplied ==
  \A h \in 1 .. Len(head) : \A i \in DOMAIN Sample[h] :
    <<SubSeq(head, 1, h), Sample[h][i]>> \in audited

\* outstanding silences the poll timer only while something is in flight that
\* will clear it.
OutstandingIsInFlight == outstanding => InFlight # {}

\* follower_network_task "pull[s] blocks until caught up with producer tip":
\* again and again the follower has all the blocks of the producer.
FollowerCatchesUp == []<>(head = has[Producer])
=============================================================================
