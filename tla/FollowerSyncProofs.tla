------------------------- MODULE FollowerSyncProofs -------------------------
(***************************************************************************)
(* For any number of peers, faulty ones, blocks, failures, restarts and    *)
(* sampled indexes: a follower applies no block whose sampled shares were  *)
(* not all verified; and with one announcing peer its poll timer is        *)
(* silenced only while something is in flight.                             *)
(***************************************************************************)
EXTENDS FollowerSync, FiniteSetTheorems, SequenceTheorems, TLAPS

\* The blocks within the bound.
SyncBlocks == {b \in Seq(0 .. MaxRestarts) : Len(b) \in Heights}

\* What is relied on of a message.
MessageOK(m) ==
  /\ m.type \in {"GetDaShares", "DaShares"} => m.indexes \in Seq(Indexes)
  /\ m.type = "Blocks" => m.blocks \in Seq(SyncBlocks)
  /\ m.type = "GetBlocks" => m.from \in Nat \ {0} /\ m.peer = Producer

NetOK == \A m \in DOMAIN net : MessageOK(m)

HasOK ==
  /\ DOMAIN has = Peers
  /\ \A p \in Peers : has[p] \in Seq(0 .. MaxRestarts) /\ Len(has[p]) <= MaxHeight
  /\ restarts \in 0 .. MaxRestarts

HeadOK == head \in Seq(0 .. MaxRestarts) /\ daPeers \subseteq Peers

\* The block being sampled: the sample is its own, and what counts as verified
\* was verified for it.
RoundOK ==
  /\ pending \in Seq(SyncBlocks)
  /\ next \in Nat \ {0}
  /\ verified \in Seq(Indexes)
  /\ next <= Len(pending) =>
       /\ sample = Sample[Len(pending[next])]
       /\ \A i \in DOMAIN verified : <<pending[next], verified[i]>> \in audited

\* The inductive invariant.
IInv == NetOK /\ HasOK /\ HeadOK /\ RoundOK /\ SampledBeforeApplied
-----------------------------------------------------------------------------
\* The requests and responses in flight after an exchange.
LEMMA ExchangeDomain ==
  ASSUME NEW m, NEW S
  PROVE  DOMAIN Exchange(m, S) \subseteq DOMAIN net \cup S
BY DEF Exchange, (+), (-), SetToBag

\* Sending adds to what is in flight.
LEMMA SendDomain ==
  ASSUME NEW S
  PROVE  DOMAIN (net (+) SetToBag(S)) \subseteq DOMAIN net \cup S
BY DEF (+), SetToBag

\* A part of a list of indexes is a list of indexes.
LEMMA ChunkType ==
  ASSUME NEW s \in Seq(Indexes), NEW n \in 1 .. Len(s), NEW k \in 1 .. n
  PROVE  Chunk(s, n, k) \in Seq(Indexes)
<1> DEFINE x == Len(s) - k
           q == x \div n
<1>1. Len(s) \in Nat /\ n \in Nat /\ n > 0 /\ k \in Nat /\ k >= 1 /\ k <= n /\ n <= Len(s)
  OBVIOUS
<1>2. x \in Nat
  BY <1>1
<1> HIDE DEF x
<1>3. q \in Nat /\ n * q <= x
  BY <1>1, <1>2
<1> HIDE DEF q
<1>4. ASSUME NEW j \in 1 .. q + 1 PROVE s[(j - 1) * n + k] \in Indexes
  <2>1. j - 1 \in Nat /\ j - 1 <= q
    BY <1>3
  <2>2. (j - 1) * n <= q * n /\ (j - 1) * n >= 0 /\ (j - 1) * n \in Nat
    BY <1>1, <1>3, <2>1
  <2>3. (j - 1) * n <= x
    BY <1>1, <1>2, <1>3, <2>2
  <2>4. (j - 1) * n + k \in 1 .. Len(s)
    BY <1>1, <2>2, <2>3 DEF x
  <2> QED
    BY <2>4
<1>5. [j \in 1 .. q + 1 |-> s[(j - 1) * n + k]] \in Seq(Indexes)
  BY <1>3, <1>4
<1> QED
  BY <1>5 DEF Chunk, q, x

\* The peers asked are a list.
LEMMA ServersLen ==
  ASSUME daPeers \subseteq Peers
  PROVE  Len(DaServers) \in Nat
<1> DEFINE S == IF daPeers = {} THEN {Producer} ELSE daPeers
<1>1. IsFiniteSet(S)
  <2>1. IsFiniteSet(DaPeers) /\ IsFiniteSet({Producer})
    BY FollowerSyncAssumption, FS_Singleton
  <2>2. IsFiniteSet(Peers)
    BY <2>1, FS_Union DEF Peers
  <2> QED
    BY <2>1, <2>2, FS_Subset
<1> HIDE DEF S
<1>2. Cardinality(S) \in Nat /\ \E f \in [1 .. Cardinality(S) -> S] : IsInjective(f)
  BY <1>1, FS_CardinalityType DEF ExistsBijection, Bijection, Injection
<1>3. SetToSeq(S) \in [1 .. Cardinality(S) -> S]
  BY <1>2 DEF SetToSeq
<1>4. SetToSeq(S) \in Seq(S)
  BY <1>2, <1>3
<1> QED
  BY <1>4 DEF DaServers, S

\* The requests for a sample are well formed.
LEMMA SampleRequestsOK ==
  ASSUME daPeers \subseteq Peers, NEW b \in SyncBlocks
  PROVE  \A m \in SampleRequests(b) : MessageOK(m)
<1> DEFINE s == Sample[Len(b)]
           n == IF Len(DaServers) < Len(s) THEN Len(DaServers) ELSE Len(s)
<1>1. s \in Seq(Indexes)
  BY FollowerSyncAssumption DEF SyncBlocks
<1>2. Len(DaServers) \in Nat
  BY ServersLen
<1> HIDE DEF s
<1>3. n \in Nat /\ n <= Len(s)
  BY <1>1, <1>2
<1> HIDE DEF n
<1>4. ASSUME NEW k \in 1 .. n PROVE MessageOK(GetDaShares(DaServers[k], b, Chunk(s, n, k)))
  <2>1. Chunk(s, n, k) \in Seq(Indexes)
    BY <1>1, <1>3, ChunkType
  <2> QED
    BY <2>1 DEF MessageOK, GetDaShares
<1>5. SampleRequests(b) = {GetDaShares(DaServers[k], b, Chunk(s, n, k)) : k \in 1 .. n}
  BY DEF SampleRequests, s, n
<1> QED
  BY <1>4, <1>5

\* Taking out a message and putting in well-formed ones keeps the net in order.
LEMMA ExchangeOK ==
  ASSUME NetOK, NEW m, NEW S, \A a \in S : MessageOK(a), net' = Exchange(m, S)
  PROVE  NetOK'
<1>1. \A a \in DOMAIN net' : MessageOK(a)
  BY ExchangeDomain DEF NetOK
<1> QED
  BY <1>1 DEF NetOK, MessageOK

\* Nothing put in.
LEMMA RemoveOK ==
  ASSUME NetOK, NEW m, net' = Exchange(m, {})
  PROVE  NetOK'
BY ExchangeOK

\* A request without parameters put in.
LEMMA GetTipOK ==
  ASSUME NetOK, NEW m, net' = Exchange(m, {GetTip})
  PROVE  NetOK'
<1>1. MessageOK(GetTip)
  BY DEF MessageOK, GetTip
<1> QED
  BY <1>1, ExchangeOK

\* The poll timer and a new connection send GetTip.
LEMMA SendTipOK ==
  ASSUME NetOK, net' = net (+) SetToBag({GetTip})
  PROVE  NetOK'
<1>1. MessageOK(GetTip)
  BY DEF MessageOK, GetTip
<1>2. \A a \in DOMAIN net' : MessageOK(a)
  BY <1>1, SendDomain DEF NetOK
<1> QED
  BY <1>2 DEF NetOK, MessageOK

\* A prefix of a sequence.
LEMMA PrefixType ==
  ASSUME NEW S, NEW b \in Seq(S), NEW h \in Nat, h <= Len(b)
  PROVE  SubSeq(b, 1, h) \in Seq(S) /\ Len(SubSeq(b, 1, h)) = h
<1>1. h \in Int /\ 1 \in Int /\ \A i \in 1 .. h : b[i] \in S
  OBVIOUS
<1>2. /\ SubSeq(b, 1, h) \in Seq(S)
      /\ Len(SubSeq(b, 1, h)) = IF 1 <= h THEN h - 1 + 1 ELSE 0
  BY <1>1, SubSeqProperties
<1> QED
  BY <1>2

\* The blocks of a peer are within the bound.
LEMMA ServedOK ==
  ASSUME HasOK, NEW p \in Peers, NEW h \in 1 .. Len(has[p])
  PROVE  SubSeq(has[p], 1, h) \in SyncBlocks
<1> DEFINE b == has[p]
<1>1. b \in Seq(0 .. MaxRestarts) /\ Len(b) <= MaxHeight /\ h \in 1 .. Len(b) /\ MaxHeight \in Nat
  BY FollowerSyncAssumption DEF HasOK
<1> HIDE DEF b
<1>2. SubSeq(b, 1, h) \in Seq(0 .. MaxRestarts) /\ Len(SubSeq(b, 1, h)) = h
  <2>1. h \in Nat /\ h <= Len(b)
    BY <1>1
  <2> QED
    BY <1>1, <2>1, PrefixType
<1> QED
  BY <1>1, <1>2 DEF SyncBlocks, Heights, b

\* Whatever a peer answers is well formed.
LEMMA ServeOK ==
  ASSUME NetOK, HasOK, NEW m \in DOMAIN net, Serve(m)
  PROVE  NetOK'
<1>1. MessageOK(m)
  BY DEF NetOK
<1>2. CASE AnswerTip(m)
  <2>1. MessageOK(Tip(Len(has[m.peer])))
    BY DEF MessageOK, Tip
  <2> QED
    BY <1>2, <2>1, ExchangeOK DEF AnswerTip
<1>3. CASE AnswerBlocks(m)
  <2> DEFINE p == m.peer
             tip == Len(has[p])
             last == IF tip < m.from + MaxBlocks - 1 THEN tip ELSE m.from + MaxBlocks - 1
             list == [i \in 1 .. last + 1 - m.from |-> SubSeq(has[p], 1, m.from + i - 1)]
  <2>1. net' = Exchange(m, {BlockList(list)}) /\ m.type = "GetBlocks"
    BY <1>3 DEF AnswerBlocks
  <2>2. m.from \in Nat \ {0} /\ MaxBlocks \in Nat \ {0}
    BY <1>1, <2>1, FollowerSyncAssumption DEF MessageOK
  <2>3. CASE p \in Peers
    <3>1. tip \in Nat
      BY <2>3 DEF HasOK
    <3>2. last \in Int /\ last <= tip
      BY <2>2, <3>1
    <3> HIDE DEF last, tip
    <3>3. ASSUME NEW i \in 1 .. last + 1 - m.from PROVE SubSeq(has[p], 1, m.from + i - 1) \in SyncBlocks
      <4>1. m.from + i - 1 \in 1 .. tip
        BY <2>2, <3>1, <3>2
      <4> QED
        BY <2>3, <4>1, ServedOK DEF tip
    <3>4. list \in Seq(SyncBlocks)
      <4> DEFINE k == IF last + 1 - m.from \in Nat THEN last + 1 - m.from ELSE 0
      <4>1. k \in Nat /\ 1 .. last + 1 - m.from = 1 .. k
        BY <2>2, <3>2
      <4>2. list \in [1 .. k -> SyncBlocks]
        BY <3>3, <4>1
      <4> HIDE DEF k, list
      <4> QED
        BY <4>1, <4>2
    <3>5. MessageOK(BlockList(list))
      BY <3>4 DEF MessageOK, BlockList
    <3> QED
      BY <2>1, <3>5, ExchangeOK
  <2>4. p \in Peers
    BY <1>1, <2>1 DEF MessageOK, Peers
  <2> QED
    BY <2>3, <2>4
<1>4. CASE AnswerShares(m)
  <2>1. MessageOK(DaShares(m.peer, m.block, m.indexes, TRUE)) /\ MessageOK(ErrMsg(m.peer))
    BY <1>1, <1>4 DEF AnswerShares, MessageOK, DaShares, ErrMsg
  <2> QED
    <3> DEFINE a == IF m.block \in Served(m.peer)
                    THEN DaShares(m.peer, m.block, m.indexes, TRUE) ELSE ErrMsg(m.peer)
    <3>1. MessageOK(a) /\ net' = Exchange(m, {a})
      BY <1>4, <2>1 DEF AnswerShares
    <3> HIDE DEF a
    <3> QED
      BY <3>1, ExchangeOK
<1>5. CASE AnswerAnything(m)
  <2>1. PICK b \in Served(Producer), s \in BoundedSeq(Indexes, MaxAnswer), good \in BOOLEAN :
               net' = Exchange(m, {DaShares(m.peer, b, s, good)})
    BY <1>5 DEF AnswerAnything
  <2>2. s \in Seq(Indexes)
    BY FollowerSyncAssumption DEF BoundedSeq, SeqOf
  <2>3. MessageOK(DaShares(m.peer, b, s, good))
    BY <2>2 DEF MessageOK, DaShares
  <2> QED
    BY <2>1, <2>3, ExchangeOK
<1> QED
  BY <1>2, <1>3, <1>4, <1>5 DEF Serve

\* So is what a faulty peer sends without being asked.
LEMMA StrayOK ==
  ASSUME NetOK, HasOK, NEW m \in DOMAIN net, ServeStray(m)
  PROVE  NetOK'
<1>1. CASE \E h \in 0 .. MaxHeight : net' = Exchange(m, {Tip(h)})
  <2>1. PICK h \in 0 .. MaxHeight : net' = Exchange(m, {Tip(h)})
    BY <1>1
  <2>2. MessageOK(Tip(h))
    BY DEF MessageOK, Tip
  <2> QED
    BY <2>1, <2>2, ExchangeOK
<1>2. CASE \E s \in BoundedSeq(Served(Producer), MaxAnswer) : net' = Exchange(m, {BlockList(s)})
  <2>1. PICK s \in BoundedSeq(Served(Producer), MaxAnswer) : net' = Exchange(m, {BlockList(s)})
    BY <1>2
  <2>2. Served(Producer) \subseteq SyncBlocks
    BY ServedOK DEF Served, Peers
  <2>3. s \in Seq(Served(Producer))
    BY FollowerSyncAssumption DEF BoundedSeq, SeqOf
  <2>4. s \in Seq(SyncBlocks)
    BY <2>2, <2>3
  <2>5. MessageOK(BlockList(s))
    BY <2>4 DEF MessageOK, BlockList
  <2> QED
    BY <2>1, <2>5, ExchangeOK
<1> QED
  BY <1>1, <1>2 DEF ServeStray
-----------------------------------------------------------------------------
\* A response that passes the checks only adds to what was verified, for the
\* block being sampled.
LEMMA CountOK ==
  ASSUME RoundOK, NEW m, MessageOK(m), CountShares(m)
  PROVE  /\ audited \subseteq audited'
         /\ next \in 1 .. Len(pending) /\ pending[next] \in SyncBlocks
         /\ verified \o m.indexes \in Seq(Indexes)
         /\ \A i \in DOMAIN (verified \o m.indexes) :
              <<pending[next], (verified \o m.indexes)[i]>> \in audited'
<1> DEFINE v == verified
           w == m.indexes
           b == pending[next]
<1>1. v \in Seq(Indexes) /\ w \in Seq(Indexes)
  BY DEF RoundOK, MessageOK, CountShares
<1>2. next \in 1 .. Len(pending) /\ b \in SyncBlocks
  BY DEF RoundOK, CountShares, SharesMatch
<1>3. audited' = audited \cup {<<b, w[i]>> : i \in DOMAIN w}
  BY DEF CountShares, SharesMatch
<1>4. \A i \in DOMAIN v : <<b, v[i]>> \in audited
  BY <1>2 DEF RoundOK
<1> HIDE DEF v, w, b
<1>5. Len(v \o w) = Len(v) + Len(w) /\ v \o w \in Seq(Indexes)
      /\ Len(v) \in Nat /\ Len(w) \in Nat
  BY <1>1
<1>6. ASSUME NEW i \in DOMAIN (v \o w) PROVE <<b, (v \o w)[i]>> \in audited'
  <2>1. i \in 1 .. Len(v) + Len(w)
    BY <1>5
  <2>2. CASE i <= Len(v)
    <3>1. i \in DOMAIN v /\ (v \o w)[i] = v[i]
      BY <1>1, <2>1, <2>2
    <3> QED
      BY <1>3, <1>4, <3>1
  <2>3. CASE i > Len(v)
    <3>1. i - Len(v) \in DOMAIN w /\ (v \o w)[i] = w[i - Len(v)]
      BY <1>1, <1>5, <2>1, <2>3
    <3> QED
      BY <1>3, <3>1
  <2>4. i <= Len(v) \/ i > Len(v)
    BY <1>5, <2>1
  <2> QED
    BY <2>2, <2>3, <2>4
<1> QED
  BY <1>2, <1>3, <1>5, <1>6 DEF v, w, b

\* A complete round has verified every sampled index of its block.
LEMMA CompleteOK ==
  ASSUME RoundOK, NEW m, MessageOK(m), CountShares(m),
         SameIndexMultiset(sample, verified \o m.indexes)
  PROVE  \A i \in DOMAIN Sample[Len(pending[next])] :
           <<pending[next], Sample[Len(pending[next])][i]>> \in audited'
<1> DEFINE u == verified \o m.indexes
<1>1. next \in 1 .. Len(pending) /\ \A i \in DOMAIN u : <<pending[next], u[i]>> \in audited'
  BY CountOK
<1>2. sample = Sample[Len(pending[next])]
  BY <1>1 DEF RoundOK
<1> HIDE DEF u
<1>3. PICK f \in [DOMAIN sample -> DOMAIN u] : \A i \in DOMAIN sample : sample[i] = u[f[i]]
  BY DEF u, SameIndexMultiset, Bijection, Injection
<1> QED
  BY <1>1, <1>2, <1>3

\* Applying a block whose sample was verified.
LEMMA ApplyOK ==
  ASSUME HeadOK, SampledBeforeApplied, audited \subseteq audited',
         NEW b \in SyncBlocks, head' = Applied(b),
         \A i \in DOMAIN Sample[Len(b)] : <<b, Sample[Len(b)][i]>> \in audited'
  PROVE  head' \in Seq(0 .. MaxRestarts) /\ SampledBeforeApplied'
<1>1. b \in Seq(0 .. MaxRestarts) /\ head \in Seq(0 .. MaxRestarts) /\ Len(b) \in Nat
  BY DEF SyncBlocks, HeadOK
<1>2. CASE head' = head
  BY <1>1, <1>2 DEF SampledBeforeApplied
<1>3. CASE head' = b /\ b # <<>> /\ Front(b) = head
  <2>1. head = SubSeq(b, 1, Len(b) - 1) /\ Len(b) >= 1
    BY <1>1, <1>3 DEF Front
  <2>2. Len(head) = Len(b) - 1
    <3>1. Len(b) - 1 \in Nat /\ Len(b) - 1 <= Len(b)
      BY <1>1, <2>1
    <3> QED
      BY <1>1, <2>1, <3>1, PrefixType
  <2>3. ASSUME NEW h \in 1 .. Len(b), NEW i \in DOMAIN Sample[h]
        PROVE  <<SubSeq(b, 1, h), Sample[h][i]>> \in audited'
    <3>1. CASE h = Len(b)
      <4>1. SubSeq(b, 1, h) = b
        BY <1>1, <3>1, SubSeqFull
      <4> QED
        BY <3>1, <4>1
    <3>2. CASE h < Len(b)
      <4>1. h \in 1 .. Len(head)
        BY <1>1, <2>2, <3>2
      <4>2. SubSeq(head, 1, h) = SubSeq(b, 1, h)
        <5>1. /\ 1 \in 1 .. Len(b) /\ Len(b) - 1 \in 1 .. Len(b)
              /\ 1 \in 1 .. (Len(b) - 1) - 1 + 1 /\ h \in 1 .. (Len(b) - 1) - 1 + 1
              /\ 1 + 1 - 1 = 1 /\ 1 + h - 1 = h
          BY <1>1, <2>1, <3>2
        <5> QED
          BY <1>1, <2>1, <5>1, SubSeqOfSubSeq
      <4> QED
        BY <4>1, <4>2 DEF SampledBeforeApplied
    <3> QED
      BY <1>1, <3>1, <3>2
  <2> QED
    BY <1>1, <1>3, <2>3 DEF SampledBeforeApplied
<1> QED
  BY <1>2, <1>3 DEF Applied

\* The round that sampling block b starts.
LEMMA RequestOK ==
  ASSUME NetOK, HeadOK, NEW m, NEW b \in SyncBlocks, RequestNextDaSample(m, b)
  PROVE  NetOK' /\ sample' = Sample[Len(b)] /\ verified' = <<>>
<1>1. net' = Exchange(m, SampleRequests(b)) /\ \A a \in SampleRequests(b) : MessageOK(a)
  BY SampleRequestsOK DEF RequestNextDaSample, HeadOK
<1> QED
  BY <1>1, ExchangeOK DEF RequestNextDaSample
-----------------------------------------------------------------------------
\* The invariant holds initially.
LEMMA InitInv == Init => IInv
<1> SUFFICES ASSUME Init PROVE IInv
  OBVIOUS
<1>1. NetOK
  BY DEF Init, NetOK, EmptyBag, SetToBag
<1>2. HasOK
  <2>1. <<>> \in Seq(0 .. MaxRestarts) /\ Len(<<>>) = 0
    OBVIOUS
  <2>2. MaxHeight \in Nat /\ MaxRestarts \in Nat
    BY FollowerSyncAssumption
  <2> QED
    BY <2>1, <2>2 DEF Init, HasOK
<1>3. HeadOK
  BY DEF Init, HeadOK
<1>4. RoundOK
  BY DEF Init, RoundOK
<1>5. SampledBeforeApplied
  BY DEF Init, SampledBeforeApplied
<1> QED
  BY <1>1, <1>2, <1>3, <1>4, <1>5 DEF IInv

\* What the blocks of the other nodes do to the invariant.
LEMMA WorldInv ==
  ASSUME IInv, HasOK', daPeers' \subseteq daPeers, UNCHANGED <<net, head, round, audited>>
  PROVE  IInv'
<1> USE DEF IInv
<1>1. NetOK'
  BY DEF NetOK, MessageOK
<1>2. HeadOK'
  BY DEF HeadOK
<1>3. RoundOK'
  BY DEF RoundOK, round
<1>4. SampledBeforeApplied'
  BY DEF SampledBeforeApplied
<1> QED
  BY <1>1, <1>2, <1>3, <1>4

\* A step that changes messages and flags only.
LEMMA MessageInv ==
  ASSUME IInv, NetOK', UNCHANGED <<has, restarts, head, daPeers, round, audited>>
  PROVE  IInv'
<1> USE DEF IInv
<1>1. HasOK'
  BY DEF HasOK
<1>2. HeadOK'
  BY DEF HeadOK
<1>3. RoundOK'
  BY DEF RoundOK, round
<1>4. SampledBeforeApplied'
  BY DEF SampledBeforeApplied
<1> QED
  BY <1>1, <1>2, <1>3, <1>4

\* The producer's chain stays within the bound.
LEMMA ProduceInv ==
  ASSUME IInv, Produce
  PROVE  IInv'
<1> DEFINE b == has[Producer]
<1>1. Producer \in Peers
  BY DEF Peers
<1>2. b \in Seq(0 .. MaxRestarts) /\ Len(b) < MaxHeight /\ restarts \in 0 .. MaxRestarts
  BY <1>1 DEF IInv, HasOK, Produce
<1>3. has' = [has EXCEPT ![Producer] = Append(b, restarts)] /\ restarts' = restarts
  BY DEF Produce
<1> HIDE DEF b
<1>4. Append(b, restarts) \in Seq(0 .. MaxRestarts) /\ Len(Append(b, restarts)) = Len(b) + 1
      /\ Len(b) \in Nat /\ MaxHeight \in Nat
  <2>1. \A S : \A x \in Seq(S), r \in S :
          Append(x, r) \in Seq(S) /\ Len(Append(x, r)) = Len(x) + 1 /\ Len(x) \in Nat
    OBVIOUS
  <2> QED
    BY <1>2, <2>1, FollowerSyncAssumption
<1>5. HasOK'
  <2> DEFINE c == Append(b, restarts)
  <2>1. c \in Seq(0 .. MaxRestarts) /\ Len(c) <= MaxHeight
    BY <1>2, <1>4
  <2>2. has' = [has EXCEPT ![Producer] = c] /\ restarts' = restarts
    BY <1>3
  <2> HIDE DEF c
  <2> QED
    BY <1>1, <2>1, <2>2 DEF IInv, HasOK
<1> QED
  BY <1>5, WorldInv DEF Produce

\* A restart takes the producer back to a block it has.
LEMMA RestartInv ==
  ASSUME IInv, Restart
  PROVE  IInv'
<1>1. Producer \in Peers /\ HasOK
  BY DEF Peers, IInv
<1>2. PICK b \in Served(Producer) \cup {<<>>} : has' = [has EXCEPT ![Producer] = b]
  BY DEF Restart
<1>3. b \in Seq(0 .. MaxRestarts) /\ Len(b) <= MaxHeight
  <2>1. CASE b = <<>>
    BY <2>1, FollowerSyncAssumption
  <2>2. CASE b \in Served(Producer)
    <3>1. b \in SyncBlocks
      BY <1>1, <2>2, ServedOK DEF Served
    <3> QED
      BY <3>1, FollowerSyncAssumption DEF SyncBlocks, Heights
  <2> QED
    BY <2>1, <2>2
<1>4. restarts' \in 0 .. MaxRestarts
  BY <1>1, FollowerSyncAssumption DEF Restart, HasOK
<1>5. HasOK'
  BY <1>1, <1>2, <1>3, <1>4 DEF HasOK
<1> QED
  BY <1>5, WorldInv DEF Restart

\* A serving peer takes over a block of the producer.
LEMMA AdvanceInv ==
  ASSUME IInv, NEW p \in DaPeers, Advance(p)
  PROVE  IInv'
<1> DEFINE h == Len(has[p]) + 1
           b == SubSeq(has[Producer], 1, h)
<1>1. Producer \in Peers /\ p \in Peers /\ HasOK
  BY DEF Peers, IInv
<1>2. has' = [has EXCEPT ![p] = b] /\ restarts' = restarts
  BY DEF Advance
<1>3. h \in 1 .. Len(has[Producer])
  <2>1. IsStrictPrefix(has[p], has[Producer])
    BY DEF Advance
  <2>2. Len(has[p]) \in Nat /\ Len(has[Producer]) \in Nat
    BY <1>1 DEF HasOK
  <2>3. Len(has[p]) <= Len(has[Producer]) /\ has[p] # has[Producer]
        /\ SubSeq(has[p], 1, Len(has[p])) = SubSeq(has[Producer], 1, Len(has[p]))
    BY <2>1 DEF IsStrictPrefix, IsPrefix
  <2>4. Len(has[p]) # Len(has[Producer])
    <3>1. /\ SubSeq(has[p], 1, Len(has[p])) = has[p]
          /\ SubSeq(has[Producer], 1, Len(has[Producer])) = has[Producer]
      BY <1>1, SubSeqFull DEF HasOK
    <3> QED
      BY <2>3, <3>1
  <2> QED
    BY <2>2, <2>3, <2>4
<1> HIDE DEF h
<1>4. b \in SyncBlocks
  BY <1>1, <1>3, ServedOK
<1> HIDE DEF b
<1>5. b \in Seq(0 .. MaxRestarts) /\ Len(b) <= MaxHeight
  BY <1>4, FollowerSyncAssumption DEF SyncBlocks, Heights
<1>6. HasOK'
  BY <1>1, <1>2, <1>5 DEF HasOK
<1> QED
  BY <1>6, WorldInv DEF Advance

\* New blocks start the round of the first of them.
LEMMA BlocksInv ==
  ASSUME IInv, NEW m \in DOMAIN net, HandleBlocks(m)
  PROVE  IInv'
<1> USE DEF IInv
<1>1. m.blocks \in Seq(SyncBlocks) /\ m.blocks # <<>>
  BY DEF NetOK, MessageOK, HandleBlocks
<1>2. m.blocks[1] \in SyncBlocks
  BY <1>1
<1>3. NetOK' /\ sample' = Sample[Len(m.blocks[1])] /\ verified' = <<>>
  BY <1>2, RequestOK DEF HandleBlocks
<1>4. pending' = m.blocks /\ next' = 1 /\ UNCHANGED <<has, restarts, head, daPeers, audited>>
  BY DEF HandleBlocks, world
<1>5. HasOK' /\ HeadOK' /\ SampledBeforeApplied'
  BY <1>4 DEF HasOK, HeadOK, SampledBeforeApplied
<1>6. RoundOK'
  BY <1>1, <1>3, <1>4 DEF RoundOK
<1> QED
  BY <1>3, <1>5, <1>6

\* Shares that do not complete the round only add to it.
LEMMA CollectInv ==
  ASSUME IInv, NEW m \in DOMAIN net, CollectShares(m) \/ MismatchShares(m)
  PROVE  IInv'
<1> USE DEF IInv
<1>1. MessageOK(m) /\ CountShares(m)
  BY DEF NetOK, CollectShares, MismatchShares
<1>2. /\ verified' = verified \o m.indexes /\ net' = Exchange(m, {})
      /\ UNCHANGED <<has, restarts, head, daPeers, pending, next, sample>>
  BY DEF CollectShares, MismatchShares, world
<1>3. NetOK'
  BY <1>2, RemoveOK
<1>4. HasOK' /\ HeadOK'
  BY <1>2 DEF HasOK, HeadOK
<1>5. /\ audited \subseteq audited' /\ next \in 1 .. Len(pending)
      /\ verified' \in Seq(Indexes)
      /\ \A i \in DOMAIN verified' : <<pending[next], verified'[i]>> \in audited'
  BY <1>1, <1>2, CountOK
<1>6. RoundOK'
  BY <1>2, <1>5 DEF RoundOK
<1>7. SampledBeforeApplied'
  BY <1>2, <1>5 DEF SampledBeforeApplied
<1> QED
  BY <1>3, <1>4, <1>6, <1>7

\* A complete round applies its block, and starts the next round or ends.
LEMMA ApplyInv ==
  ASSUME IInv, NEW m \in DOMAIN net, ApplyAndContinue(m) \/ ApplyLast(m)
  PROVE  IInv'
<1> USE DEF IInv
<1>1. MessageOK(m) /\ CountShares(m) /\ SameIndexMultiset(sample, verified \o m.indexes)
  BY DEF NetOK, ApplyAndContinue, ApplyLast
<1>2. head' = Applied(pending[next]) /\ UNCHANGED <<has, restarts, daPeers>>
  BY DEF ApplyAndContinue, ApplyLast, world
<1>3. audited \subseteq audited' /\ next \in 1 .. Len(pending) /\ pending[next] \in SyncBlocks
  BY <1>1, CountOK
<1>4. \A i \in DOMAIN Sample[Len(pending[next])] :
        <<pending[next], Sample[Len(pending[next])][i]>> \in audited'
  BY <1>1, CompleteOK
<1>5. head' \in Seq(0 .. MaxRestarts) /\ SampledBeforeApplied'
  BY <1>2, <1>3, <1>4, ApplyOK
<1>6. HasOK' /\ HeadOK'
  BY <1>2, <1>5 DEF HasOK, HeadOK
<1>7. NetOK' /\ RoundOK'
  <2>1. CASE ApplyAndContinue(m)
    <3>1. pending' = pending /\ next' = next + 1 /\ RequestNextDaSample(m, pending[next + 1])
          /\ next < Len(pending)
      BY <2>1 DEF ApplyAndContinue
    <3>2. pending[next + 1] \in SyncBlocks /\ next + 1 \in Nat \ {0}
      BY <1>3, <3>1 DEF RoundOK
    <3>3. NetOK' /\ sample' = Sample[Len(pending[next + 1])] /\ verified' = <<>>
      BY <3>1, <3>2, RequestOK
    <3>4. RoundOK'
      BY <3>1, <3>2, <3>3 DEF RoundOK
    <3> QED
      BY <3>3, <3>4
  <2>2. CASE ApplyLast(m)
    <3>1. pending' = <<>> /\ next' = next + 1 /\ verified' = <<>> /\ net' = Exchange(m, {GetTip})
      BY <2>2 DEF ApplyLast
    <3>2. RoundOK'
      BY <3>1 DEF RoundOK
    <3> QED
      BY <3>1, <3>2, GetTipOK
  <2> QED
    BY <2>1, <2>2
<1> QED
  BY <1>5, <1>6, <1>7

\* Every handler preserves the invariant.
LEMMA HandleInv ==
  ASSUME IInv, NEW m \in DOMAIN net, Handle(m)
  PROVE  IInv'
<1>1. NetOK /\ HeadOK
  BY DEF IInv
<1>2. CASE HandleErrMsg(m) \/ DiscardShares(m)
  <2>1. NetOK'
    BY <1>1, <1>2, RemoveOK DEF HandleErrMsg, DiscardShares
  <2> QED
    BY <1>2, <2>1, MessageInv DEF HandleErrMsg, DiscardShares, world
<1>3. CASE HandleTip(m)
  <2>1. MessageOK(GetBlocks(Len(head) + 1))
    BY <1>1 DEF MessageOK, GetBlocks, HeadOK
  <2>2. NetOK'
    BY <1>1, <1>3, <2>1, ExchangeOK DEF HandleTip
  <2> QED
    BY <1>3, <2>2, MessageInv DEF HandleTip, world
<1>4. CASE HandleNoBlocks(m)
  <2>1. NetOK'
    BY <1>1, <1>4, GetTipOK DEF HandleNoBlocks
  <2> QED
    BY <1>4, <2>1, MessageInv DEF HandleNoBlocks, world
<1> QED
  BY <1>2, <1>3, <1>4, BlocksInv, CollectInv, ApplyInv DEF Handle

\* Every step preserves the invariant.
LEMMA NextInv == IInv /\ [Next]_vars => IInv'
<1> SUFFICES ASSUME IInv, [Next]_vars PROVE IInv'
  OBVIOUS
<1>1. InFlight = DOMAIN net
  BY DEF InFlight, BagToSet
<1>2. NetOK /\ HasOK /\ HeadOK
  BY DEF IInv
<1>3. CASE Produce
  BY <1>3, ProduceInv
<1>4. CASE Restart
  BY <1>4, RestartInv
<1>5. CASE \E p \in DaPeers : Advance(p)
  BY <1>5, AdvanceInv
<1>6. CASE \E p \in Peers : Connect(p)
  <2>1. NetOK'
    BY <1>2, <1>6, SendTipOK DEF Connect, NetOK, MessageOK
  <2> QED
    BY <1>6, <2>1, MessageInv DEF Connect
<1>7. CASE \E p \in MayDrop : Disconnect(p)
  <2>1. HasOK'
    BY <1>2, <1>7 DEF Disconnect, HasOK
  <2> QED
    BY <1>7, <2>1, WorldInv DEF Disconnect
<1>8. CASE \E p \in Announcers : Announce(p)
  <2>1. HasOK' /\ NetOK' /\ HeadOK'
    BY <1>2, <1>8, FollowerSyncAssumption DEF Announce, world, HasOK, NetOK, MessageOK, HeadOK
  <2>2. RoundOK' /\ SampledBeforeApplied'
    BY <1>8 DEF Announce, round, IInv, RoundOK, SampledBeforeApplied
  <2> QED
    BY <2>1, <2>2 DEF IInv
<1>9. CASE Poll
  BY <1>2, <1>9, SendTipOK, MessageInv DEF Poll, world
<1>10. CASE \E m \in InFlight : Serve(m)
  BY <1>1, <1>2, <1>10, ServeOK, MessageInv DEF Serve, world
<1>14. CASE \E m \in InFlight : ServeStray(m)
  BY <1>1, <1>2, <1>14, StrayOK, MessageInv DEF ServeStray, world
<1>11. CASE \E m \in InFlight : Fail(m)
  BY <1>2, <1>11, RemoveOK, MessageInv DEF Fail, world
<1>12. CASE \E m \in InFlight : Handle(m)
  BY <1>1, <1>12, HandleInv
<1>13. CASE UNCHANGED vars
  <2>1. HasOK'
    BY <1>2, <1>13 DEF vars, HasOK
  <2> QED
    BY <1>13, <2>1, WorldInv DEF vars, round
<1> QED
  BY <1>3, <1>4, <1>5, <1>6, <1>7, <1>8, <1>9, <1>10, <1>11, <1>12, <1>13, <1>14 DEF Next

\* A follower never applies a block before every index it samples of it has
\* been answered with the share in the block's own sidecar, whatever the peers
\* answer and however requests, failures and restarts interleave.
THEOREM BlocksAreSampled == Spec => []SampledBeforeApplied
<1>1. Init => IInv
  BY InitInv
<1>2. IInv /\ [Next]_vars => IInv'
  BY NextInv
<1>3. IInv => SampledBeforeApplied
  BY DEF IInv
<1> QED
  BY <1>1, <1>2, <1>3, PTL DEF Spec
-----------------------------------------------------------------------------
\* Where at most one peer announces itself a round asks one peer, so no answer
\* of a round is waited for when another has failed.
OneServer ==
  /\ daPeers \subseteq Announcers
  /\ responses \in Nat
  /\ expected \in {0, 1}

\* A request is in flight after any exchange that puts one in.
LEMMA ExchangeLeaves ==
  ASSUME NEW m, NEW S, S # {}, net' = Exchange(m, S)
  PROVE  InFlight' # {}
BY DEF Exchange, (+), SetToBag, InFlight, BagToSet

\* The poll timer and a new connection leave GetTip in flight.
LEMMA SendLeaves ==
  ASSUME NEW S, S # {}, net' = net (+) SetToBag(S)
  PROVE  InFlight' # {}
BY DEF (+), SetToBag, InFlight, BagToSet

\* A round asks one peer.
LEMMA OneRequest ==
  ASSUME NEW a, Announcers \subseteq {a}, daPeers \subseteq Announcers,
         NEW b \in SyncBlocks, Sample[Len(b)] # <<>>
  PROVE  SampleRequests(b) # {} /\ Cardinality(SampleRequests(b)) = 1
<1> DEFINE S == IF daPeers = {} THEN {Producer} ELSE daPeers
           s == Sample[Len(b)]
           n == IF Len(DaServers) < Len(s) THEN Len(DaServers) ELSE Len(s)
<1>1. PICK p : S = {p}
  OBVIOUS
<1>2. IsFiniteSet({p}) /\ Cardinality({p}) = 1
  BY FS_Singleton
<1>3. SetToSeq({p}) \in [1 .. 1 -> {p}]
  <2>1. [i \in 1 .. 1 |-> p] \in [1 .. 1 -> {p}] /\ IsInjective([i \in 1 .. 1 |-> p])
    BY DEF IsInjective
  <2> QED
    BY <1>2, <2>1 DEF SetToSeq, IsInjective
<1>4. Len(DaServers) = 1
  <2>1. DaServers = SetToSeq({p})
    BY <1>1 DEF DaServers
  <2>2. \A k \in Nat : \A f \in [1 .. k -> {p}] : f \in Seq({p}) /\ Len(f) = k
    <3>1. \A k \in Nat : \A f \in [1 .. k -> {p}] : f \in Seq({p})
      OBVIOUS
    <3>2. \A f \in Seq({p}) : Len(f) \in Nat /\ DOMAIN f = 1 .. Len(f)
      OBVIOUS
    <3>3. \A i, j \in Nat : 1 .. i = 1 .. j => i = j
      OBVIOUS
    <3> QED
      BY <3>1, <3>2, <3>3
  <2> QED
    BY <1>3, <2>1, <2>2
<1>5. Len(s) \in Nat /\ Len(s) # 0
  BY FollowerSyncAssumption DEF SyncBlocks
<1> HIDE DEF s, S
<1>6. n = 1
  <2> DEFINE l == Len(s)
             k == Len(DaServers)
  <2>1. l \in Nat /\ l # 0 /\ k = 1 /\ n = IF k < l THEN k ELSE l
    BY <1>4, <1>5
  <2> HIDE DEF l, k, n
  <2> QED
    BY <2>1
<1>7. SampleRequests(b) = {GetDaShares(DaServers[k], b, Chunk(s, n, k)) : k \in 1 .. n}
  BY DEF SampleRequests, s, n
<1>8. SampleRequests(b) = {GetDaShares(DaServers[1], b, Chunk(s, 1, 1))}
  <2> HIDE DEF n
  <2>1. \A k \in 1 .. 1 : k = 1
    OBVIOUS
  <2> QED
    BY <1>6, <1>7, <2>1
<1> QED
  BY <1>8, FS_Singleton

\* A round that is started has its request in flight.
LEMMA RoundLeaves ==
  ASSUME NEW a, Announcers \subseteq {a}, \A h \in Heights : Sample[h] # <<>>,
         daPeers \subseteq Announcers, NEW m, NEW b \in SyncBlocks, RequestNextDaSample(m, b)
  PROVE  InFlight' # {} /\ responses' = 0 /\ expected' = 1
<1>1. Sample[Len(b)] # <<>>
  BY DEF SyncBlocks
<1>2. SampleRequests(b) # {} /\ Cardinality(SampleRequests(b)) = 1
  BY <1>1, OneRequest
<1>3. net' = Exchange(m, SampleRequests(b)) /\ responses' = 0 /\ expected' = Cardinality(SampleRequests(b))
  BY DEF RequestNextDaSample
<1> QED
  BY <1>2, <1>3, ExchangeLeaves

\* Every handler keeps the poll timer from being silenced for good.
LEMMA HandleLeaves ==
  ASSUME NEW a, Announcers \subseteq {a}, \A h \in Heights : Sample[h] # <<>>,
         IInv, OneServer, NEW m \in DOMAIN net, Handle(m)
  PROVE  OneServer' /\ OutstandingIsInFlight'
<1> USE DEF OneServer
<1>1. CASE HandleErrMsg(m) \/ DiscardShares(m)
  BY <1>1 DEF HandleErrMsg, DiscardShares, round, OutstandingIsInFlight
<1>2. CASE HandleTip(m)
  <2>1. UNCHANGED <<daPeers, responses, expected>>
    BY <1>2 DEF HandleTip, round
  <2>2. (outstanding' = TRUE /\ net' = Exchange(m, {GetBlocks(Len(head) + 1)})) \/ outstanding' = FALSE
    BY <1>2 DEF HandleTip
  <2> QED
    BY <2>1, <2>2, ExchangeLeaves DEF OutstandingIsInFlight
<1>3. CASE HandleNoBlocks(m)
  <2>1. UNCHANGED <<daPeers, responses, expected>> /\ net' = Exchange(m, {GetTip})
    BY <1>3 DEF HandleNoBlocks, round
  <2>2. InFlight' # {}
    BY <2>1, ExchangeLeaves
  <2> QED
    BY <2>1, <2>2 DEF OutstandingIsInFlight
<1>4. CASE HandleBlocks(m)
  <2>1. m.blocks \in Seq(SyncBlocks) /\ m.blocks # <<>>
    BY <1>4 DEF IInv, NetOK, MessageOK, HandleBlocks
  <2>2. m.blocks[1] \in SyncBlocks
    BY <2>1
  <2>3. RequestNextDaSample(m, m.blocks[1]) /\ daPeers' = daPeers
    BY <1>4 DEF HandleBlocks
  <2>4. InFlight' # {} /\ responses' = 0 /\ expected' = 1
    BY <2>2, <2>3, RoundLeaves
  <2> QED
    BY <2>3, <2>4 DEF OutstandingIsInFlight
<1>5. CASE CollectShares(m)
  BY <1>5 DEF CollectShares
<1>6. CASE MismatchShares(m)
  BY <1>6 DEF MismatchShares, OutstandingIsInFlight
<1>7. CASE ApplyAndContinue(m)
  <2>1. /\ RequestNextDaSample(m, pending[next + 1]) /\ daPeers' = daPeers
        /\ next < Len(pending) /\ next \in Nat \ {0} /\ pending \in Seq(SyncBlocks)
    BY <1>7 DEF ApplyAndContinue, IInv, RoundOK
  <2>2. pending[next + 1] \in SyncBlocks
    BY <2>1
  <2>3. InFlight' # {} /\ responses' = 0 /\ expected' = 1
    BY <2>1, <2>2, RoundLeaves
  <2> QED
    BY <2>1, <2>3 DEF OutstandingIsInFlight
<1>8. CASE ApplyLast(m)
  <2>1. net' = Exchange(m, {GetTip}) /\ responses' = 0 /\ expected' = 0 /\ daPeers' = daPeers
    BY <1>8 DEF ApplyLast
  <2>2. InFlight' # {}
    BY <2>1, ExchangeLeaves
  <2> QED
    BY <2>1, <2>2 DEF OutstandingIsInFlight
<1> QED
  BY <1>1, <1>2, <1>3, <1>4, <1>5, <1>6, <1>7, <1>8 DEF Handle

\* Where at most one peer announces itself and every block has an index to
\* sample, the poll timer is silenced only while a message is in flight whose
\* arrival or failure will end that, through any number of failures, restarts
\* and connections.  With two announced peers it may be silenced for good.
THEOREM PollIsNotSilenced ==
  ASSUME NEW a, Announcers \subseteq {a}, \A h \in Heights : Sample[h] # <<>>
  PROVE  Spec => []OutstandingIsInFlight
<1> DEFINE Inv == OneServer /\ OutstandingIsInFlight
<1>1. Init => Inv
  BY DEF Init, OneServer, OutstandingIsInFlight
<1>2. IInv /\ Inv /\ [Next]_vars => Inv'
  <2> SUFFICES ASSUME IInv, Inv, [Next]_vars PROVE Inv'
    OBVIOUS
  <2> USE DEF OneServer, round
  <2>1. InFlight = DOMAIN net
    BY DEF InFlight, BagToSet
  <2>2. CASE Produce \/ Restart \/ (\E p \in DaPeers : Advance(p)) \/ (\E p \in MayDrop : Disconnect(p))
             \/ UNCHANGED vars
    <3>1. UNCHANGED <<net, outstanding, responses, expected>> /\ daPeers' \subseteq daPeers
      BY <2>2 DEF Produce, Restart, Advance, Disconnect, vars
    <3> QED
      BY <3>1 DEF OutstandingIsInFlight, InFlight, BagToSet
  <2>3. CASE \E p \in Announcers : Announce(p)
    BY <2>3 DEF Announce, OutstandingIsInFlight, InFlight, BagToSet
  <2>4. CASE \E p \in Peers : Connect(p)
    <3>1. UNCHANGED <<daPeers, responses, expected>>
      BY <2>4 DEF Connect
    <3>2. net' = net (+) SetToBag({GetTip}) \/ UNCHANGED <<net, outstanding>>
      BY <2>4 DEF Connect
    <3>3. CASE net' = net (+) SetToBag({GetTip})
      <4>1. InFlight' # {}
        BY <3>3, SendLeaves
      <4> QED
        BY <3>1, <4>1 DEF OutstandingIsInFlight
    <3>4. CASE UNCHANGED <<net, outstanding>>
      BY <3>1, <3>4 DEF OutstandingIsInFlight, InFlight, BagToSet
    <3> QED
      BY <3>2, <3>3, <3>4
  <2>5. CASE Poll
    <3>1. UNCHANGED <<daPeers, responses, expected>> /\ net' = net (+) SetToBag({GetTip})
      BY <2>5 DEF Poll
    <3>2. InFlight' # {}
      BY <3>1, SendLeaves
    <3> QED
      BY <3>1, <3>2 DEF OutstandingIsInFlight
  <2>6. CASE \E m \in InFlight : Serve(m)
    <3>1. PICK m \in InFlight : Serve(m)
      BY <2>6
    <3>2. UNCHANGED <<daPeers, responses, expected>>
      BY <3>1 DEF Serve
    <3>3. \E x : net' = Exchange(m, {x})
      BY <3>1 DEF Serve, AnswerTip, AnswerBlocks, AnswerShares, AnswerAnything
    <3>4. InFlight' # {}
      BY <3>3, ExchangeLeaves
    <3> QED
      BY <3>2, <3>4 DEF OutstandingIsInFlight
  <2>9. CASE \E m \in InFlight : ServeStray(m)
    <3>1. PICK m \in InFlight : ServeStray(m)
      BY <2>9
    <3>2. UNCHANGED <<daPeers, responses, expected>>
      BY <3>1 DEF ServeStray
    <3>3. \E x : net' = Exchange(m, {x})
      BY <3>1 DEF ServeStray
    <3>4. InFlight' # {}
      BY <3>3, ExchangeLeaves
    <3> QED
      BY <3>2, <3>4 DEF OutstandingIsInFlight
  <2>7. CASE \E m \in InFlight : Fail(m)
    BY <2>7 DEF Fail, OutstandingIsInFlight
  <2>8. CASE \E m \in InFlight : Handle(m)
    BY <2>1, <2>8, HandleLeaves
  <2> QED
    BY <2>2, <2>3, <2>4, <2>5, <2>6, <2>7, <2>8, <2>9 DEF Next
<1>3. Inv => OutstandingIsInFlight
  OBVIOUS
<1> QED
  BY <1>1, <1>2, <1>3, InitInv, NextInv, PTL DEF Spec
=============================================================================
