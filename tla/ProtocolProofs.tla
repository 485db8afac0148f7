--------------------------- MODULE ProtocolProofs ---------------------------
(***************************************************************************)
(* Proofs about the components of MCProtocols, for every value of their    *)
(* constants: the zones' registry, the three ways of voting and the        *)
(* publisher of votes, the payloads of blocks, checkpoints, the proofs of  *)
(* blocks and the masterchain's ledger.  Each part has an inductive        *)
(* invariant of its own, a lemma that it holds at the start and one that   *)
(* every step keeps it.                                                    *)
(***************************************************************************)
EXTENDS MCProtocols, SequenceTheorems

-----------------------------------------------------------------------------
(* Execution zones *)

ZoneRecords == [created: Nat, final: Nat, msgs: SUBSET Messages]

\* The registry is a record of these fields.
RegistryShape ==
  /\ registry = [height |-> registry.height, zones |-> registry.zones, messages |-> registry.messages,
                 consumed |-> registry.consumed, pending |-> registry.pending, events |-> registry.events,
                 proven |-> registry.proven]
  /\ registry.height \in Nat
  /\ registry.zones \in [DOMAIN registry.zones -> ZoneRecords]
  /\ \A z \in DOMAIN registry.zones : z \in Zones /\ TimeoutOf[z] # 0
  /\ registry.messages \subseteq Messages
  /\ \A r \in registry.pending : r.deadline \in Nat

\* An update is of the zone it was built for.
UpdateShape ==
  \A z \in DOMAIN updates : updates[z].zone = z /\ updates[z].height \in Nat /\ updates[z].msgs \subseteq Messages

\* The root a zone shows, unless it is empty, is the one of a proof-final block of it.
RootsAreFinal ==
  \A z \in DOMAIN registry.zones :
    registry.zones[z].msgs # {} => \E u \in accepted : u.zone = z /\ u.msgs = registry.zones[z].msgs

ZonesInv == RegistryShape /\ UpdateShape /\ RootsAreFinal /\ ZonesSafe

\* The empty registry is as the invariant says.
LEMMA ZonesStart == ASSUME ZonesInit PROVE ZonesInv
<1>1. /\ registry.height = 0 /\ registry.zones = Empty /\ registry.messages = {} /\ registry.consumed = {}
      /\ registry.pending = {} /\ registry.events = {} /\ registry.proven = {}
  BY DEF ZonesInit, EmptyRegistry
<1>2. RegistryShape
  BY <1>1 DEF ZonesInit, EmptyRegistry, RegistryShape, Empty
<1> QED
  BY <1>1, <1>2 DEF ZonesInit, ZonesInv, ZonesSafe, ProvenWasCarried, NoneOverdue, ConsumedWasFinal, Empty, UpdateShape, RootsAreFinal

\* An update becomes final, whether or not it was verified.
LEMMA FinalizeKept == ASSUME ZonesInv, NEW z \in DOMAIN updates, FinalizeUpdate(updates[z]) PROVE ZonesInv'
<1> USE DEF ZonesInv
<1> DEFINE u == updates[z]
           n == [registry.zones[z] EXCEPT !.final = u.height, !.msgs = u.msgs]
           f == [registry.zones EXCEPT ![z] = n]
           p == registry.proven \cup Unresolved(z)
<1>1. u.zone = z /\ u.height \in Nat /\ u.msgs \subseteq Messages
  BY DEF UpdateShape
<1>2. registry' = [registry EXCEPT !.zones[z] = n, !.proven = p] /\ accepted' = accepted \cup {u} /\ UNCHANGED updates
      /\ z \in DOMAIN registry.zones /\ u.forced = Unresolved(z)
  BY <1>1 DEF FinalizeUpdate, Known
<1>3. n \in ZoneRecords /\ n.msgs = u.msgs
  BY <1>1, <1>2, Zenon DEF RegistryShape, ZoneRecords
<1> HIDE DEF n, p, u
<1>4. /\ f \in [DOMAIN registry.zones -> ZoneRecords] /\ f[z].msgs = u.msgs
      /\ \A y \in DOMAIN registry.zones \ {z} : f[y] = registry.zones[y]
  BY <1>2, <1>3 DEF RegistryShape
<1>5. registry' = [registry EXCEPT !.zones = f, !.proven = p]
  BY <1>2
<1> HIDE DEF f
<1>6. /\ registry'.height = registry.height /\ registry'.zones = f /\ registry'.messages = registry.messages
      /\ registry'.consumed = registry.consumed /\ registry'.pending = registry.pending
      /\ registry'.events = registry.events /\ registry'.proven = p
  BY <1>5 DEF RegistryShape
<1>7. RegistryShape'
  <2>1. registry' = [height |-> registry'.height, zones |-> registry'.zones, messages |-> registry'.messages,
               consumed |-> registry'.consumed, pending |-> registry'.pending, events |-> registry'.events,
               proven |-> registry'.proven]
    BY <1>5 DEF RegistryShape
  <2> QED
    BY <1>4, <1>6, <2>1 DEF RegistryShape
<1>8. RootsAreFinal'
  BY <1>1, <1>2, <1>4, <1>6 DEF RootsAreFinal
<1>9. ProvenWasCarried'
  <2>1. \A r \in Unresolved(z) : r.zone = z
    BY DEF Unresolved
  <2> QED
    BY <1>1, <1>2, <1>6, <2>1 DEF ZonesSafe, ProvenWasCarried, p
<1> QED
  BY <1>2, <1>6, <1>7, <1>8, <1>9 DEF ZonesSafe, NoneOverdue, ConsumedWasFinal, UpdateShape

\* Every operation of the registry keeps it.
LEMMA ZonesKept == ASSUME ZonesInv, [ZonesNext]_zoneVars PROVE ZonesInv'
<1> USE ZonesAssumption
<1> USE DEF ZonesInv
<1>1. ASSUME NEW z \in Zones, CreateZone(z) PROVE ZonesInv'
  <2> DEFINE n == [created |-> registry.height, final |-> 0, msgs |-> {}]
             f == Put(registry.zones, z, n)
  <2>1. registry' = [registry EXCEPT !.zones = f] /\ z \notin DOMAIN registry.zones /\ UNCHANGED <<updates, accepted>>
        /\ TimeoutOf[z] # 0
    BY <1>1 DEF CreateZone, Known
  <2>2. /\ DOMAIN f = DOMAIN registry.zones \cup {z} /\ f[z] = n
        /\ \A y \in DOMAIN registry.zones : f[y] = registry.zones[y]
        /\ f \in [DOMAIN f -> ZoneRecords]
    BY <2>1 DEF RegistryShape, Put, ZoneRecords
  <2>3. n.msgs = {}
    OBVIOUS
  <2> HIDE DEF n, f
  <2>4. /\ registry'.height = registry.height /\ registry'.zones = f /\ registry'.messages = registry.messages
        /\ registry'.consumed = registry.consumed /\ registry'.pending = registry.pending
        /\ registry'.events = registry.events /\ registry'.proven = registry.proven
    BY <2>1 DEF RegistryShape
  <2>5. RegistryShape'
    BY <2>1, <2>2, <2>4 DEF RegistryShape
  <2>6. RootsAreFinal'
    BY <2>1, <2>2, <2>3, <2>4 DEF RootsAreFinal
  <2> QED
    BY <2>1, <2>4, <2>5, <2>6 DEF ZonesSafe, ProvenWasCarried, NoneOverdue, ConsumedWasFinal, UpdateShape
<1>2. ASSUME NEW z \in Zones, NEW h \in Nat, NEW f, NEW da, BuildUpdate(z, h, f, da) PROVE ZonesInv'
  <2> DEFINE u == [zone |-> z, height |-> h, msgs |-> Outbound(z), forced |-> Unresolved(z),
                   circuit |-> RequiredCircuit(z), features |-> f, da |-> da]
  <2>1. updates' = Put(updates, z, u) /\ UNCHANGED <<registry, accepted>>
    BY <1>2 DEF BuildUpdate
  <2>2. u.zone = z /\ u.height \in Nat /\ u.msgs \subseteq Messages
    BY DEF Outbound, RegistryShape
  <2> HIDE DEF u
  <2>3. UpdateShape'
    BY <2>1, <2>2 DEF UpdateShape, Put
  <2> QED
    BY <2>1, <2>3 DEF RegistryShape, RootsAreFinal, ZonesSafe, ProvenWasCarried, NoneOverdue, ConsumedWasFinal
<1>3. ASSUME NEW z \in DOMAIN updates, SubmitUpdate(updates[z]) PROVE ZonesInv'
  BY <1>3, FinalizeKept DEF SubmitUpdate
<1>4. ASSUME NEW m \in Messages, SubmitMessage(m) \/ (\E r : ConsumeMessage(m, r)) PROVE ZonesInv'
  <2>1. CASE SubmitMessage(m)
    BY <2>1 DEF SubmitMessage, RegistryShape, UpdateShape, RootsAreFinal, ZonesSafe, ProvenWasCarried, NoneOverdue, ConsumedWasFinal
  <2>2. CASE \E r : ConsumeMessage(m, r)
    <3>1. /\ m.from \in DOMAIN registry.zones /\ m \in registry.zones[m.from].msgs
          /\ registry' = [registry EXCEPT !.consumed = @ \cup {m}] /\ UNCHANGED <<updates, accepted>>
      BY <2>2 DEF ConsumeMessage, Known
    <3>2. \E u \in accepted : u.zone = m.from /\ m \in u.msgs
      BY <3>1 DEF RootsAreFinal
    <3>3. /\ registry'.height = registry.height /\ registry'.zones = registry.zones /\ registry'.messages = registry.messages
          /\ registry'.consumed = registry.consumed \cup {m} /\ registry'.pending = registry.pending
          /\ registry'.events = registry.events /\ registry'.proven = registry.proven
      BY <3>1 DEF RegistryShape
    <3>4. RegistryShape'
      BY <3>1, <3>3 DEF RegistryShape
    <3>5. ConsumedWasFinal'
      BY <3>1, <3>2, <3>3 DEF ZonesSafe, ConsumedWasFinal
    <3> QED
      BY <3>1, <3>3, <3>4, <3>5 DEF UpdateShape, RootsAreFinal, ZonesSafe, ProvenWasCarried, NoneOverdue
  <2> QED
    BY <1>4, <2>1, <2>2
<1>5. ASSUME NEW z \in Zones, Drain(z) PROVE ZonesInv'
  BY <1>5 DEF Drain, RegistryShape, UpdateShape, RootsAreFinal, ZonesSafe, ProvenWasCarried, NoneOverdue, ConsumedWasFinal
<1>6. ASSUME NEW t \in Txs, SubmitForced(t) PROVE ZonesInv'
  <2> DEFINE q == ForcedRequest(t)
  <2>1. /\ registry' = [registry EXCEPT !.pending = @ \cup {q}] /\ UNCHANGED <<updates, accepted>>
        /\ t.zone \in DOMAIN registry.zones
    BY <1>6 DEF SubmitForced, Known
  <2>2. q.deadline \in Nat /\ q.deadline > registry.height
    <3>1. q.deadline = registry.height + TimeoutOf[t.zone]
      BY DEF ForcedRequest
    <3>2. TimeoutOf[t.zone] \in Nat /\ TimeoutOf[t.zone] # 0 /\ registry.height \in Nat
      BY <2>1, ZonesAssumption DEF RegistryShape
    <3> HIDE DEF q
    <3> QED
      BY <3>1, <3>2
  <2> HIDE DEF q
  <2>3. /\ registry'.height = registry.height /\ registry'.zones = registry.zones /\ registry'.messages = registry.messages
        /\ registry'.consumed = registry.consumed /\ registry'.pending = registry.pending \cup {q}
        /\ registry'.events = registry.events /\ registry'.proven = registry.proven
    BY <2>1 DEF RegistryShape
  <2>4. RegistryShape'
    BY <2>1, <2>2, <2>3 DEF RegistryShape
  <2>5. NoneOverdue'
    BY <2>2, <2>3 DEF ZonesSafe, NoneOverdue
  <2> QED
    BY <2>1, <2>3, <2>4, <2>5 DEF UpdateShape, RootsAreFinal, ZonesSafe, ProvenWasCarried, ConsumedWasFinal
<1>7. ASSUME NEW h \in Nat, AdvanceHeight(h) PROVE ZonesInv'
  <2> DEFINE n == Max({registry.height, h})
             g == [registry EXCEPT !.height = n]
             due == {r \in g.pending : r.deadline <= g.height}
             p == g.pending \ due
             e == g.events \cup {[request |-> r, at |-> g.height, late |-> Minus(g.height, r.deadline)] : r \in due}
  <2>1. registry' = [g EXCEPT !.pending = p, !.events = e] /\ UNCHANGED <<updates, accepted>>
    BY <1>7 DEF AdvanceHeight, Flushed
  <2>2. n \in Nat
    BY MaxOfTwo DEF RegistryShape
  <2> HIDE DEF n
  <2>3. /\ g.height = n /\ g.zones = registry.zones /\ g.messages = registry.messages
        /\ g.consumed = registry.consumed /\ g.pending = registry.pending
        /\ g.events = registry.events /\ g.proven = registry.proven
        /\ g = [height |-> g.height, zones |-> g.zones, messages |-> g.messages,
                 consumed |-> g.consumed, pending |-> g.pending, events |-> g.events,
                 proven |-> g.proven]
    BY DEF RegistryShape
  <2> HIDE DEF g
  <2>4. \A r \in p : r \in registry.pending /\ r.deadline \in Nat /\ r.deadline > n
    BY <2>2, <2>3 DEF RegistryShape
  <2> HIDE DEF p, e
  <2>5. /\ registry'.height = n /\ registry'.zones = registry.zones /\ registry'.messages = registry.messages
        /\ registry'.consumed = registry.consumed /\ registry'.pending = p
        /\ registry'.events = e /\ registry'.proven = registry.proven
        /\ registry' = [height |-> registry'.height, zones |-> registry'.zones, messages |-> registry'.messages,
                 consumed |-> registry'.consumed, pending |-> registry'.pending, events |-> registry'.events,
                 proven |-> registry'.proven]
    BY <2>1, <2>3
  <2>6. RegistryShape'
    BY <2>2, <2>4, <2>5 DEF RegistryShape
  <2>7. NoneOverdue'
    BY <2>4, <2>5 DEF NoneOverdue
  <2> QED
    BY <2>1, <2>5, <2>6, <2>7 DEF UpdateShape, RootsAreFinal, ZonesSafe, ProvenWasCarried, ConsumedWasFinal
<1>8. CASE UNCHANGED zoneVars
  BY <1>8 DEF zoneVars, RegistryShape, UpdateShape, RootsAreFinal, ZonesSafe, ProvenWasCarried, NoneOverdue, ConsumedWasFinal
<1> QED
  BY <1>1, <1>2, <1>3, <1>4, <1>5, <1>6, <1>7, <1>8 DEF ZonesNext, ZoneOps

\* Zones (shard/src/lib.rs): whatever zones, timeouts, transactions and
\* messages there are, a forced request counts as proven only if a final block
\* of its zone carried it, none waits past its deadline however the height
\* jumps, and a consumed message was in a final block of its source.
THEOREM ZonesAreSafe == ZonesSpec => []ZonesSafe
<1>1. ZonesInv => ZonesSafe
  BY DEF ZonesInv
<1> QED
  BY ZonesStart, ZonesKept, <1>1, PTL DEF ZonesSpec

-----------------------------------------------------------------------------
(* The validators of the masterchain *)

\* Views are counted from 0, and a validator has once reached the view of every
\* timeout it signed.
ViewsTyped ==
  /\ bftView \in [Members -> Nat] /\ bftHeight \in [Members -> Nat] /\ topView \in [Members -> Nat]
  /\ \A n \in Members : bftView[n] <= topView[n]
  /\ votePool = [n \in Members |-> votePool[n]]
  /\ lastQc = [n \in Members |-> lastQc[n]] /\ outbox = [n \in Members |-> outbox[n]]
  /\ \A t \in mcTimeouts : /\ t = [view |-> t.view, voter |-> t.voter]
                           /\ t.view \in Nat /\ t.voter \in Members /\ topView[t.voter] >= t.view

\* A round is sealed by the proposer of its view, who has then left the view
\* until it restarts.
SealedByProposer ==
  \A s \in sealed : /\ s = [view |-> s.view, block |-> s.block, by |-> s.by]
                    /\ s.view \in Nat /\ s.by = s.view % NBft /\ s.by \in Members
                    /\ s.by \notin restarted => bftView[s.by] > s.view

SealedOnce == \A a, b \in sealed : a.view = b.view /\ a # b => a.by \in restarted

\* What is voted for and certified was sealed in that view, or heard with a vote
\* that does not verify.
Founded(S, T, v) ==
  \/ \E s \in S : s.view = v.view /\ s.block = v.block
  \/ [view |-> v.view, block |-> v.block] \in T

VotesAreFounded ==
  /\ \A m \in gossip : Founded(sealed, strays, m)
  /\ \A n \in Members : /\ \A v \in votePool[n] : Founded(sealed, strays, v)
                        /\ outbox[n] # <<>> => Founded(sealed, strays, outbox[n][1])
                        /\ lastQc[n] # <<>> => Founded(sealed, strays, lastQc[n][1])

BftInv == ViewsTyped /\ SealedByProposer /\ SealedOnce /\ VotesAreFounded /\ ViewsBacked

\* The members are finitely many.
LEMMA MembersFinite == IsFiniteSet(Members)
<1>1. 0 \in Int /\ NBft - 1 \in Int
  BY BftAssumption
<1> QED
  BY <1>1, FS_Interval DEF Members

\* A quorum is a number.
LEMMA BftQuorumIsNat == BftQuorum \in Nat
BY BftAssumption DEF BftQuorum

\* Timeouts of one view are told apart by their voters, so as many validators
\* as there are timeouts have reached the view.
LEMMA TimeoutsCount ==
  ASSUME ViewsTyped, NEW w \in Nat, EnoughTimeouts({t \in mcTimeouts : t.view = w})
  PROVE  Cardinality({m \in Members : topView[m] >= w}) >= BftQuorum
<1> DEFINE T == {t \in mcTimeouts : t.view = w}
           M == {m \in Members : topView[m] >= w}
           f == [t \in T |-> t.voter]
<1>1. IsFiniteSet(M)
  BY MembersFinite, FS_Subset
<1>2. f \in Injection(T, M)
  <2>1. f \in [T -> M]
    BY DEF ViewsTyped
  <2>2. ASSUME NEW a \in T, NEW b \in T, f[a] = f[b] PROVE a = b
    BY <2>2 DEF ViewsTyped
  <2> QED
    BY <2>1, <2>2 DEF Injection, IsInjective
<1>3. Cardinality(T) <= Cardinality(M) /\ IsFiniteSet(T)
  BY <1>1, <1>2, FS_Injection
<1>4. Cardinality(T) \in Nat /\ Cardinality(M) \in Nat
  BY <1>1, <1>3, FS_CardinalityType
<1>5. Cardinality(T) >= BftQuorum
  BY DEF EnoughTimeouts
<1> HIDE DEF T, M
<1>6. Cardinality(M) >= BftQuorum
  BY <1>3, <1>4, <1>5, BftQuorumIsNat
<1> QED
  BY <1>6 DEF M

\* A quorum that has reached a view has reached it for good.
LEMMA ReachedStays ==
  ASSUME ViewsTyped, NEW w \in [Members -> Nat], \A m \in Members : w[m] >= topView[m], NEW v \in Int,
         Cardinality({m \in Members : topView[m] >= v}) >= BftQuorum
  PROVE  Cardinality({m \in Members : w[m] >= v}) >= BftQuorum
<1> DEFINE M == {m \in Members : topView[m] >= v}
           W == {m \in Members : w[m] >= v}
<1>1. M \subseteq W
  BY DEF ViewsTyped
<1>2. IsFiniteSet(W) /\ IsFiniteSet(M)
  BY MembersFinite, FS_Subset
<1>3. Cardinality(M) <= Cardinality(W) /\ Cardinality(M) \in Nat /\ Cardinality(W) \in Nat
  BY <1>1, <1>2, FS_Subset, FS_CardinalityType
<1>4. Cardinality(M) >= BftQuorum
  OBVIOUS
<1> HIDE DEF M, W
<1>5. Cardinality(W) >= BftQuorum
  BY <1>3, <1>4, BftQuorumIsNat
<1> QED
  BY <1>5 DEF W

\* Before the first view nothing is sealed.
LEMMA BftStart == ASSUME BftInit PROVE BftInv
BY DEF BftInit, BftInv, ViewsTyped, SealedByProposer, SealedOnce, VotesAreFounded, ViewsBacked

\* The highest views move up: what was said of them stays.
LEMMA ViewsMoveUp ==
  ASSUME BftInv, bftView' \in [Members -> Nat], topView' \in [Members -> Nat],
         \A m \in Members : topView'[m] >= topView[m], sealed \subseteq sealed',
         \A m \in Members : bftView'[m] # bftView[m] /\ bftView'[m] > 0 =>
           \/ \E s \in sealed' : s.view = bftView'[m] - 1 /\ s.by = m
           \/ Cardinality({x \in Members : topView'[x] >= bftView'[m] - 1}) >= BftQuorum
  PROVE  ViewsBacked'
<1> SUFFICES ASSUME NEW m \in Members, bftView'[m] > 0,
                    ~ \E s \in sealed' : s.view = bftView'[m] - 1 /\ s.by = m
             PROVE  Cardinality({x \in Members : topView'[x] >= bftView'[m] - 1}) >= BftQuorum
  BY DEF ViewsBacked
<1> DEFINE w == topView'
<1>1. CASE bftView'[m] # bftView[m]
  BY <1>1
<1>2. CASE bftView'[m] = bftView[m]
  <2>1. Cardinality({x \in Members : topView[x] >= bftView[m] - 1}) >= BftQuorum
    BY <1>2 DEF BftInv, ViewsBacked
  <2>2. bftView[m] - 1 \in Int /\ w \in [Members -> Nat] /\ \A x \in Members : w[x] >= topView[x]
    BY DEF BftInv, ViewsTyped
  <2> HIDE DEF w
  <2>3. Cardinality({x \in Members : w[x] >= bftView[m] - 1}) >= BftQuorum
    BY <2>1, <2>2, ReachedStays DEF BftInv
  <2> QED
    BY <1>2, <2>3 DEF w
<1> QED
  BY <1>1, <1>2

\* A validator that hears of a block answers with a vote for that block.
LEMMA HearKept ==
  ASSUME BftInv, NEW n \in Members, NEW m, NEW T, strays \subseteq T, strays' = T,
         NEW cast, NEW qc, Hear(n, m, cast, qc), Founded(sealed, T, m),
         \A v \in cast : Founded(sealed, T, v), qc # <<>> => Founded(sealed, T, qc[1])
  PROVE  BftInv'
<1> DEFINE first == ~\E v \in VotesFor(votePool[n], m.view, m.block) : v.voter = n
           own == [m EXCEPT !.voter = n]
           answers == first /\ m.voter # n /\ m.block.height >= bftHeight[n]
           next == IF answers THEN cast \cup {own} ELSE cast
<1>1. /\ votePool' = [votePool EXCEPT ![n] = next]
      /\ lastQc' = IF qc = <<>> THEN lastQc ELSE [lastQc EXCEPT ![n] = qc]
      /\ outbox' = IF answers THEN [outbox EXCEPT ![n] = <<own>>] ELSE outbox
      /\ UNCHANGED <<bftView, bftHeight, mcTimeouts, gossip, sealed, restarted, topView>>
  BY DEF Hear
<1>2. own.view = m.view /\ own.block = m.block
  OBVIOUS
<1>3. Founded(sealed, T, own)
  BY <1>2 DEF Founded
<1>4. \A v \in next : Founded(sealed, T, v)
  BY <1>3
<1> HIDE DEF answers, next, own, first
<1>5. ViewsTyped' /\ SealedByProposer' /\ SealedOnce' /\ ViewsBacked'
  BY <1>1 DEF BftInv, ViewsTyped, SealedByProposer, SealedOnce, ViewsBacked
<1>6. \A v : Founded(sealed, strays, v) => Founded(sealed, T, v)
  BY DEF Founded
<1>7. \A x \in Members : \A v \in votePool'[x] : Founded(sealed, T, v)
  BY <1>1, <1>4, <1>6 DEF BftInv, VotesAreFounded, ViewsTyped
<1>8. \A x \in Members : outbox'[x] # <<>> => Founded(sealed, T, outbox'[x][1])
  BY <1>1, <1>3, <1>6 DEF BftInv, VotesAreFounded, ViewsTyped
<1>9. \A x \in Members : lastQc'[x] # <<>> => Founded(sealed, T, lastQc'[x][1])
  BY <1>1, <1>6 DEF BftInv, VotesAreFounded, ViewsTyped
<1>10. \A x \in gossip' : Founded(sealed, T, x)
  BY <1>1, <1>6 DEF BftInv, VotesAreFounded
<1>11. sealed' = sealed
  BY <1>1
<1>12. VotesAreFounded'
  BY <1>7, <1>8, <1>9, <1>10, <1>11 DEF VotesAreFounded
<1> QED
  BY <1>5, <1>12 DEF BftInv

\* Sealing: the proposer leaves its view with a block of its own.
LEMMA SealKept == ASSUME BftInv, NEW n \in Members, NEW c, TryProduceRound(n, c) PROVE BftInv'
<1> USE DEF BftInv
<1> DEFINE w == bftView[n]
           block == [height |-> bftHeight[n] + 1, content |-> c]
           vote == [view |-> w, block |-> block, voter |-> n]
           cast == votePool[n] \cup {vote}
           qc == QcOf(cast, w, block)
           s == [view |-> w, block |-> block, by |-> n]
           next == IF qc = <<>> THEN cast ELSE Pruned(cast, block.height - 1)
           top == Max({topView[n], w + 1})
<1>1. /\ w % NBft = n
      /\ bftHeight' = [bftHeight EXCEPT ![n] = @ + 1]
      /\ votePool' = [votePool EXCEPT ![n] = next]
      /\ lastQc' = IF qc = <<>> THEN lastQc ELSE [lastQc EXCEPT ![n] = qc]
      /\ outbox' = [outbox EXCEPT ![n] = <<vote>>]
      /\ bftView' = [bftView EXCEPT ![n] = w + 1]
      /\ topView' = [topView EXCEPT ![n] = top]
      /\ sealed' = sealed \cup {s}
      /\ UNCHANGED <<mcTimeouts, gossip, strays, restarted>>
  BY DEF TryProduceRound, IsProposer
<1>2. next \subseteq cast
  BY DEF Pruned
<1>3. s.view = w /\ s.block = block /\ s.by = n /\ vote.view = w /\ vote.block = block
  OBVIOUS
<1>4. qc # <<>> => qc[1].view = w /\ qc[1].block = block
  BY DEF QcOf
<1>5. w \in Nat /\ s = [view |-> s.view, block |-> s.block, by |-> s.by]
  BY DEF ViewsTyped
<1>6. top = IF topView[n] >= w + 1 THEN topView[n] ELSE w + 1
  <2>1. topView[n] \in Nat /\ w + 1 \in Nat
    BY <1>5 DEF ViewsTyped
  <2> QED
    BY <2>1, MaxOfTwo
<1> HIDE DEF next, s, vote, block, qc, cast, top
<1>7. /\ bftView' \in [Members -> Nat] /\ bftView'[n] = w + 1
      /\ \A m \in Members \ {n} : bftView'[m] = bftView[m] /\ topView'[m] = topView[m]
      /\ topView' \in [Members -> Nat] /\ topView'[n] >= w + 1
      /\ \A m \in Members : topView'[m] >= topView[m]
  BY <1>1, <1>5, <1>6 DEF ViewsTyped
<1> HIDE DEF w
<1>8. ViewsTyped'
  <2>1. bftHeight' \in [Members -> Nat]
    BY <1>1 DEF ViewsTyped
  <2>2. votePool' = [m \in Members |-> votePool'[m]] /\ outbox' = [m \in Members |-> outbox'[m]]
    BY <1>1 DEF ViewsTyped
  <2>3. lastQc' = [m \in Members |-> lastQc'[m]]
    BY <1>1 DEF ViewsTyped
  <2>4. \A t \in mcTimeouts' : /\ t = [view |-> t.view, voter |-> t.voter]
                               /\ t.view \in Nat /\ t.voter \in Members /\ topView'[t.voter] >= t.view
    BY <1>1, <1>7 DEF ViewsTyped
  <2>5. \A m \in Members : bftView'[m] <= topView'[m]
    BY <1>7 DEF ViewsTyped
  <2> QED
    BY <1>7, <2>1, <2>2, <2>3, <2>4, <2>5 DEF ViewsTyped
<1>9. SealedByProposer'
  <2> SUFFICES ASSUME NEW x \in sealed'
               PROVE  /\ x = [view |-> x.view, block |-> x.block, by |-> x.by]
                      /\ x.view \in Nat /\ x.by = x.view % NBft /\ x.by \in Members
                      /\ x.by \notin restarted => bftView'[x.by] > x.view
    BY <1>1 DEF SealedByProposer
  <2>1. CASE x = s
    BY <1>1, <1>3, <1>5, <1>7, <2>1
  <2>2. CASE x \in sealed
    BY <1>5, <1>7, <2>2 DEF SealedByProposer, ViewsTyped, w
  <2> QED
    BY <1>1, <2>1, <2>2
<1>10. SealedOnce'
  <2>1. \A a \in sealed : a.view = w => a.by = n /\ n \in restarted
    BY <1>1, <1>5 DEF SealedByProposer, ViewsTyped, w
  <2> QED
    BY <1>1, <1>3, <2>1 DEF SealedOnce
<1>11. VotesAreFounded'
  <2>1. \A v : Founded(sealed, strays, v) => Founded(sealed', strays', v)
    BY <1>1 DEF Founded
  <2>2. \A v : v.view = w /\ v.block = block => Founded(sealed', strays', v)
    BY <1>1, <1>3 DEF Founded
  <2>3. \A v \in cast : Founded(sealed', strays', v)
    BY <1>3, <2>1, <2>2 DEF VotesAreFounded, cast
  <2>4. \A m \in Members : \A v \in votePool'[m] : Founded(sealed', strays', v)
    BY <1>1, <1>2, <2>1, <2>3 DEF VotesAreFounded, ViewsTyped
  <2>5. \A m \in Members : outbox'[m] # <<>> => Founded(sealed', strays', outbox'[m][1])
    BY <1>1, <1>3, <2>1, <2>2 DEF VotesAreFounded, ViewsTyped
  <2>6. \A m \in Members : lastQc'[m] # <<>> => Founded(sealed', strays', lastQc'[m][1])
    BY <1>1, <1>4, <2>1, <2>2 DEF VotesAreFounded, ViewsTyped
  <2> QED
    BY <1>1, <2>1, <2>4, <2>5, <2>6 DEF VotesAreFounded
<1>12. ViewsBacked'
  <2>1. \E x \in sealed' : x.view = bftView'[n] - 1 /\ x.by = n
    BY <1>1, <1>3, <1>5, <1>7
  <2> QED
    BY <1>1, <1>7, <2>1, ViewsMoveUp
<1> QED
  BY <1>8, <1>9, <1>10, <1>11, <1>12

\* A quorum of timeouts: the view moves up to one that a quorum has reached.
LEMMA TimeoutKept == ASSUME BftInv, NEW n \in Members, NEW w \in Nat, IngestTimeout(n, w) PROVE BftInv'
<1> USE DEF BftInv
<1> DEFINE x == Max({bftView[n], w + 1})
           top == Max({topView[n], x})
<1>1. /\ bftView' = [bftView EXCEPT ![n] = x] /\ EnoughTimeouts({t \in mcTimeouts : t.view = w})
      /\ topView' = [topView EXCEPT ![n] = Max({topView[n], bftView'[n]})]
      /\ UNCHANGED <<bftHeight, votePool, mcTimeouts, lastQc, outbox, gossip, sealed, strays, restarted>>
  BY DEF IngestTimeout
<1>2. x = IF bftView[n] >= w + 1 THEN bftView[n] ELSE w + 1
  <2>1. bftView[n] \in Nat /\ w + 1 \in Nat
    BY DEF ViewsTyped
  <2> QED
    BY <2>1, MaxOfTwo
<1>3. topView' = [topView EXCEPT ![n] = top]
  BY <1>1 DEF ViewsTyped
<1>4. x \in Nat
  BY <1>2 DEF ViewsTyped
<1> HIDE DEF x
<1>5. top = IF topView[n] >= x THEN topView[n] ELSE x
  BY <1>4, MaxOfTwo DEF ViewsTyped
<1> HIDE DEF top
<1>6. /\ bftView' \in [Members -> Nat] /\ \A m \in Members : bftView'[m] >= bftView[m]
      /\ \A m \in Members : bftView'[m] # bftView[m] => m = n /\ bftView'[m] = w + 1
  BY <1>1, <1>2, <1>4 DEF ViewsTyped
<1>7. /\ topView' \in [Members -> Nat] /\ \A m \in Members : topView'[m] >= topView[m] /\ bftView'[m] <= topView'[m]
  <2>1. bftView'[n] = x /\ topView'[n] = top /\ top \in Nat /\ top >= x /\ top >= topView[n]
    BY <1>1, <1>3, <1>4, <1>5 DEF ViewsTyped
  <2>2. \A m \in Members \ {n} : bftView'[m] = bftView[m] /\ topView'[m] = topView[m]
    BY <1>1, <1>3 DEF ViewsTyped
  <2>3. topView' \in [Members -> Nat]
    BY <1>3, <2>1 DEF ViewsTyped
  <2> QED
    BY <1>4, <2>1, <2>2, <2>3 DEF ViewsTyped
<1>a. UNCHANGED <<bftHeight, votePool, mcTimeouts, lastQc, outbox, gossip, sealed, strays, restarted>>
  BY <1>1
<1>8. ViewsTyped'
  BY <1>a, <1>6, <1>7 DEF ViewsTyped
<1>9. SealedByProposer' /\ SealedOnce'
  BY <1>a, <1>6 DEF SealedByProposer, SealedOnce, ViewsTyped
<1>10. VotesAreFounded'
  BY <1>a DEF VotesAreFounded, Founded
<1>11. Cardinality({m \in Members : topView'[m] >= w}) >= BftQuorum
  <2> DEFINE g == topView'
  <2>1. Cardinality({m \in Members : topView[m] >= w}) >= BftQuorum
    BY <1>1, TimeoutsCount
  <2>2. g \in [Members -> Nat] /\ \A m \in Members : g[m] >= topView[m]
    BY <1>7
  <2> HIDE DEF g
  <2>3. Cardinality({m \in Members : g[m] >= w}) >= BftQuorum
    BY <2>1, <2>2, ReachedStays
  <2> QED
    BY <2>3 DEF g
<1>12. \A m \in Members : bftView'[m] # bftView[m] => bftView'[m] - 1 = w
  BY <1>6
<1>13. ViewsBacked'
  BY <1>a, <1>6, <1>7, <1>11, <1>12, ViewsMoveUp
<1> QED
  BY <1>8, <1>9, <1>10, <1>13

\* Every step of a validator keeps what is said of views and votes.
LEMMA BftKept == ASSUME BftInv, [BftNext]_bftVars PROVE BftInv'
<1> USE DEF BftInv
<1>1. ASSUME NEW n \in Members, FailRound(n) PROVE BftInv'
  <2>1. /\ bftHeight' = [bftHeight EXCEPT ![n] = @ + 1]
        /\ UNCHANGED <<bftView, votePool, mcTimeouts, lastQc, outbox, gossip, sealed, strays, restarted, topView>>
    BY <1>1 DEF FailRound
  <2>2. ViewsTyped'
    BY <2>1 DEF ViewsTyped
  <2> QED
    BY <2>1, <2>2 DEF SealedByProposer, SealedOnce, VotesAreFounded, ViewsBacked
<1>2. ASSUME NEW n \in Members, Flush(n) PROVE BftInv'
  <2>1. /\ outbox[n] # <<>> /\ gossip' = gossip \cup {outbox[n][1]} /\ outbox' = [outbox EXCEPT ![n] = <<>>]
        /\ UNCHANGED <<bftView, bftHeight, votePool, mcTimeouts, lastQc, sealed, strays, restarted, topView>>
    BY <1>2 DEF Flush
  <2>2. ViewsTyped' /\ SealedByProposer' /\ SealedOnce' /\ ViewsBacked'
    BY <2>1 DEF ViewsTyped, SealedByProposer, SealedOnce, ViewsBacked
  <2>3. \A m \in Members : outbox'[m] # <<>> => m # n /\ outbox'[m] = outbox[m]
    BY <2>1 DEF ViewsTyped
  <2>4. VotesAreFounded'
    BY <2>1, <2>3 DEF VotesAreFounded
  <2> QED
    BY <2>1, <2>2, <2>4
<1>3. ASSUME NEW n \in Members, NEW m \in gossip, IngestVoteGossip(n, m) PROVE BftInv'
  <2> DEFINE cast == votePool[n] \cup {m}
             qc == QcOf(cast, m.view, m.block)
  <2>1. Hear(n, m, cast, qc) /\ strays' = strays
    BY <1>3 DEF IngestVoteGossip
  <2>2. Founded(sealed, strays, m)
    BY DEF VotesAreFounded
  <2>3. \A v \in cast : Founded(sealed, strays, v)
    BY <2>2 DEF VotesAreFounded
  <2>4. qc # <<>> => Founded(sealed, strays, qc[1])
    BY <2>2 DEF QcOf, Founded
  <2> HIDE DEF qc, cast
  <2> QED
    BY <2>1, <2>2, <2>3, <2>4, HearKept
<1>4. ASSUME NEW n \in Members, NEW m, NEW fits, IngestStray(n, m, fits) PROVE BftInv'
  <2> DEFINE T == strays \cup {[view |-> m.view, block |-> m.block]}
             qc == IF fits THEN QcOf(votePool[n], m.view, m.block) ELSE <<>>
  <2>1. Hear(n, m, votePool[n], qc) /\ strays' = T /\ strays \subseteq T
    BY <1>4 DEF IngestStray
  <2>2. Founded(sealed, T, m)
    BY DEF Founded
  <2>3. \A v \in votePool[n] : Founded(sealed, T, v)
    BY DEF VotesAreFounded, Founded
  <2>4. qc # <<>> => Founded(sealed, T, qc[1])
    BY <2>2 DEF QcOf, Founded
  <2> HIDE DEF qc, T
  <2> QED
    BY <2>1, <2>2, <2>3, <2>4, HearKept
<1>5. ASSUME NEW n \in Members, RestartValidator(n) PROVE BftInv'
  <2>1. /\ restarted' = restarted \cup {n}
        /\ bftView' = [bftView EXCEPT ![n] = 0] /\ bftHeight' = [bftHeight EXCEPT ![n] = 0]
        /\ votePool' = [votePool EXCEPT ![n] = {}] /\ lastQc' = [lastQc EXCEPT ![n] = <<>>]
        /\ outbox' = [outbox EXCEPT ![n] = <<>>]
        /\ UNCHANGED <<mcTimeouts, gossip, sealed, strays, topView>>
    BY <1>5 DEF RestartValidator
  <2>2. /\ bftView' \in [Members -> Nat] /\ topView' \in [Members -> Nat]
        /\ \A m \in Members : bftView'[m] <= topView'[m]
        /\ \A m \in Members : bftView'[m] # bftView[m] => bftView'[m] = 0 /\ m = n
    BY <2>1 DEF ViewsTyped
  <2>3. ViewsTyped'
    <3>1. /\ votePool' = [m \in Members |-> votePool'[m]] /\ outbox' = [m \in Members |-> outbox'[m]]
          /\ lastQc' = [m \in Members |-> lastQc'[m]] /\ bftHeight' \in [Members -> Nat]
      BY <2>1 DEF ViewsTyped
    <3> QED
      BY <2>1, <2>2, <3>1 DEF ViewsTyped
  <2>4. SealedByProposer' /\ SealedOnce'
    BY <2>1, <2>2 DEF SealedByProposer, SealedOnce, ViewsTyped
  <2>5. \A m \in Members : /\ votePool'[m] \subseteq votePool[m]
                           /\ outbox'[m] # <<>> => outbox'[m] = outbox[m]
                           /\ lastQc'[m] # <<>> => lastQc'[m] = lastQc[m]
    BY <2>1 DEF ViewsTyped
  <2>6. VotesAreFounded'
    BY <2>1, <2>5 DEF VotesAreFounded
  <2>7. ViewsBacked'
    <3>1. \A m \in Members : topView'[m] >= topView[m]
      BY <2>1 DEF ViewsTyped
    <3>2. \A m \in Members : ~(bftView'[m] # bftView[m] /\ bftView'[m] > 0)
      BY <2>2
    <3> QED
      BY <2>1, <2>2, <3>1, <3>2, ViewsMoveUp
  <2> QED
    BY <2>3, <2>4, <2>6, <2>7
<1>6. ASSUME NEW n \in Members, SignMcTimeout(n) PROVE BftInv'
  <2> DEFINE t == [view |-> bftView[n], voter |-> n]
  <2>1. /\ mcTimeouts' = mcTimeouts \cup {t}
        /\ UNCHANGED <<bftView, bftHeight, votePool, lastQc, outbox, gossip, sealed, strays, restarted, topView>>
    BY <1>6 DEF SignMcTimeout
  <2>2. t = [view |-> t.view, voter |-> t.voter] /\ t.view \in Nat /\ t.voter \in Members /\ topView[t.voter] >= t.view
    BY DEF ViewsTyped
  <2> HIDE DEF t
  <2>3. ViewsTyped'
    BY <2>1, <2>2 DEF ViewsTyped
  <2> QED
    BY <2>1, <2>3 DEF SealedByProposer, SealedOnce, VotesAreFounded, ViewsBacked
<1>7. CASE UNCHANGED bftVars
  BY <1>7 DEF bftVars, ViewsTyped, SealedByProposer, SealedOnce, VotesAreFounded, ViewsBacked, Founded
<1>8. \A w \in 0 .. (MaxView - 1) : w \in Nat
  OBVIOUS
<1> QED
  BY <1>1, <1>2, <1>3, <1>4, <1>5, <1>6, <1>7, <1>8, SealKept, TimeoutKept DEF BftNext

\* Two sealed rounds of one view take a restart of its proposer, and two certificates of
\* one view a restart or a vote that does not verify.
LEMMA ViewsFollow == BftInv => OneBlockPerView /\ ViewsBacked
<1> SUFFICES ASSUME BftInv PROVE OneBlockPerView
  BY DEF BftInv
<1>1. \A n \in Members : lastQc[n] # <<>> => Founded(sealed, strays, lastQc[n][1])
  BY DEF BftInv, VotesAreFounded
<1>2. \A a, b \in sealed : a.view = b.view /\ a # b => a.by \in restarted
  BY DEF BftInv, SealedOnce
<1>3. ASSUME NEW n \in Members, NEW m \in Members, lastQc[n] # <<>>, lastQc[m] # <<>>,
             lastQc[n][1].view = lastQc[m][1].view, lastQc[n][1].block # lastQc[m][1].block
      PROVE  Forkable(lastQc[n][1].view)
  <2> DEFINE p == lastQc[n][1]
             q == lastQc[m][1]
  <2>1. Founded(sealed, strays, p) /\ Founded(sealed, strays, q) /\ p.view = q.view /\ p.block # q.block
    BY <1>1, <1>3
  <2> HIDE DEF p, q
  <2>2. CASE \E r \in strays : r.view = p.view
    BY <2>2 DEF Forkable, p
  <2>3. CASE ~\E r \in strays : r.view = p.view
    <3>1. PICK s \in sealed : s.view = p.view /\ s.block = p.block
      BY <2>1, <2>3 DEF Founded
    <3>2. PICK t \in sealed : t.view = q.view /\ t.block = q.block
      BY <2>1, <2>3 DEF Founded
    <3>3. s.by \in restarted /\ s.by = p.view % NBft
      BY <1>2, <2>1, <3>1, <3>2 DEF BftInv, SealedByProposer
    <3> QED
      BY <3>3 DEF Forkable, p
  <2> QED
    BY <2>2, <2>3
<1> QED
  BY <1>1, <1>2, <1>3 DEF OneBlockPerView, Founded

-----------------------------------------------------------------------------
(* HyperBFT *)

\* The parent of a block at height h of the chain, and that it is certified.
Fits(b) ==
  /\ b.height \in 1 .. Len(committed) + 1
  /\ b.parent = IF b.height = 1 THEN 0 ELSE committed[b.height - 1].serial
  /\ b.height > 1 => committed[b.height - 1] \in quorums

HyperInv ==
  /\ DOMAIN committed = 1 .. Len(committed) /\ Len(committed) \in Nat
  /\ \A s \in commitSlot \cup voteSlot : s = [block |-> s.block, formed |-> s.formed] /\ Fits(s.block)
  /\ parentCert \subseteq quorums /\ highQc \subseteq quorums
  /\ ChainLinked /\ OnlyTipUncertified

\* The empty pipeline.
LEMMA HyperStart == ASSUME HyperInit PROVE HyperInv
BY DEF HyperInit, HyperInv, ChainLinked, OnlyTipUncertified

\* What fits a chain fits it when blocks are appended or certified.
LEMMA FitsStays ==
  ASSUME HyperInv, committed' = committed, quorums \subseteq quorums', NEW b, Fits(b)
  PROVE  Fits(b)'
BY DEF Fits

\* A block that the leader proposes fits.
LEMMA ProposalFits ==
  ASSUME HyperInv, ParentCertified, NEW b, b.height = Len(committed) + 1, b.parent = Tip.serial
  PROVE  Fits(b)
<1>1. CASE committed = <<>>
  BY <1>1 DEF Fits, Tip, Root
<1>2. CASE committed # <<>>
  <2> DEFINE L == Len(committed)
  <2>1. L \in Nat /\ L # 0
    BY <1>2 DEF HyperInv
  <2>2. Tip = committed[L]
    BY <1>2 DEF Tip
  <2>3. committed[L].height = L
    BY <2>1 DEF HyperInv, ChainLinked
  <2>4. Tip # Root
    BY <2>1, <2>2, <2>3 DEF Root
  <2>5. Tip \in quorums
    BY <2>4 DEF ParentCertified, Formed, HyperInv
  <2> HIDE DEF L
  <2>6. b.height = L + 1
    BY DEF L
  <2> QED
    BY <2>1, <2>2, <2>5, <2>6 DEF Fits, L
<1> QED
  BY <1>1, <1>2

\* Every tick, and every quorum gathered, keeps the chain linked and certified.
LEMMA HyperKept == ASSUME HyperInv, [HyperNext]_hyperVars PROVE HyperInv'
<1>1. ASSUME NEW applies \in BOOLEAN, TickCommit(applies) PROVE HyperInv'
  <2>1. PICK s \in commitSlot : /\ s.block.height = Len(committed) + 1
                                /\ IF applies THEN CommitBlock(s.block) ELSE RollBack(s.block)
    BY <1>1 DEF TickCommit
  <2>2. commitSlot' = {} /\ UNCHANGED <<view, quorums, serial>>
    BY <1>1 DEF TickCommit
  <2> DEFINE b == s.block
  <2>3. Fits(b)
    BY DEF HyperInv
  <2> HIDE DEF b
  <2>4. CASE applies
    <3>1. /\ committed' = Append(committed, b) /\ parentCert' = (IF Formed(b) THEN {b} ELSE parentCert)
          /\ highQc' = (IF Formed(b) THEN {b} ELSE highQc) /\ UNCHANGED voteSlot
      BY <2>1, <2>4 DEF CommitBlock, b
    <3> DEFINE L == Len(committed)
    <3>2. b.height = L + 1 /\ L \in Nat
      BY <2>1 DEF HyperInv, b
    <3>3. Len(committed') = L + 1 /\ committed'[L + 1] = b /\ \A i \in 1 .. L : committed'[i] = committed[i]
      BY <3>1, <3>2 DEF HyperInv
    <3>4. DOMAIN committed' = 1 .. L + 1
      BY <3>1, <3>2 DEF HyperInv
    <3> HIDE DEF L
    <3>5. \A i \in DOMAIN committed' : i \in 1 .. L + 1
      BY <3>4
    <3>6. ChainLinked'
      <4>1. ASSUME NEW i \in 1 .. L PROVE committed'[i].height = i /\ committed'[i].parent = IF i = 1 THEN 0 ELSE committed'[i - 1].serial
        BY <3>2, <3>3 DEF HyperInv, ChainLinked, L
      <4>2. b.parent = IF L + 1 = 1 THEN 0 ELSE committed'[L].serial
        BY <2>3, <3>2, <3>3 DEF Fits
      <4> QED
        BY <3>2, <3>3, <3>5, <4>1, <4>2 DEF ChainLinked
    <3>7. OnlyTipUncertified'
      <4>1. L > 0 => committed[L] \in quorums
        BY <2>3, <3>2 DEF Fits
      <4>2. \A i \in 1 .. L : i < L => committed[i] \in quorums
        BY <3>2 DEF HyperInv, OnlyTipUncertified, L
      <4> QED
        BY <2>2, <3>2, <3>3, <3>5, <4>1, <4>2 DEF OnlyTipUncertified
    <3>8. \A x \in commitSlot' \cup voteSlot' : x = [block |-> x.block, formed |-> x.formed] /\ Fits(x.block)'
      <4>1. ASSUME NEW c, Fits(c) PROVE Fits(c)'
        BY <2>2, <3>2, <3>3, <4>1 DEF Fits, L
      <4> QED
        BY <2>2, <3>1, <4>1 DEF HyperInv
    <3>9. parentCert' \subseteq quorums' /\ highQc' \subseteq quorums'
      BY <2>2, <3>1 DEF HyperInv, Formed
    <3> QED
      BY <3>2, <3>3, <3>4, <3>6, <3>7, <3>8, <3>9 DEF HyperInv
  <2>5. CASE ~applies
    <3>1. voteSlot' \subseteq voteSlot /\ UNCHANGED <<committed, parentCert, highQc>>
      BY <2>1, <2>5 DEF RollBack, Cleared
    <3> QED
      BY <2>2, <3>1 DEF HyperInv, Fits, ChainLinked, OnlyTipUncertified
  <2> QED
    BY <2>4, <2>5
<1>2. ASSUME NEW mine \in BOOLEAN, TickPropose(mine) PROVE HyperInv'
  <2> DEFINE stale == {s.block.height : s \in commitSlot}
             left == {s \in voteSlot : \A h \in stale : s.block.height < h}
             voting == {[s EXCEPT !.formed = @ \/ Formed(s.block)] : s \in left}
             ready == {s \in voting : s.formed}
             b == [height |-> Len(committed) + 1, view |-> view, parent |-> Tip.serial, serial |-> serial + 1]
             slots == Enqueued(ready, voting \ ready, b)
  <2>1. UNCHANGED <<committed, view, quorums, highQc>>
    BY <1>2 DEF TickPropose
  <2>2. \/ /\ ParentCertified
           /\ commitSlot' = slots[1] /\ voteSlot' = slots[2]
           /\ parentCert' = IF Tip # Root /\ Formed(Tip) THEN {Tip} ELSE parentCert
        \/ /\ commitSlot' = ready /\ voteSlot' = voting \ ready
           /\ UNCHANGED parentCert
    <3>1. CASE mine /\ ParentCertified
      BY <1>2, <3>1 DEF TickPropose
    <3>2. CASE ~(mine /\ ParentCertified)
      BY <1>2, <3>2 DEF TickPropose
    <3> QED
      BY <3>1, <3>2
  <2>3. b.height = Len(committed) + 1 /\ b.parent = Tip.serial
    OBVIOUS
  <2>4. ASSUME NEW x \in voting PROVE x = [block |-> x.block, formed |-> x.formed] /\ Fits(x.block)
    <3>1. PICK s \in left : x = [s EXCEPT !.formed = @ \/ Formed(s.block)]
      OBVIOUS
    <3>2. s = [block |-> s.block, formed |-> s.formed] /\ Fits(s.block)
      BY DEF HyperInv
    <3>3. x.block = s.block /\ x = [block |-> x.block, formed |-> x.formed]
      BY <3>1, <3>2
    <3> QED
      BY <3>2, <3>3
  <2> HIDE DEF b, voting
  <2>5. ParentCertified => Fits(b)
    BY <2>3, ProposalFits
  <2>6. \A s \in commitSlot' \cup voteSlot' : s \in voting \/ (ParentCertified /\ s = [block |-> b, formed |-> FALSE])
    <3>1. \A s \in slots[1] \cup slots[2] : s \in voting \/ s = [block |-> b, formed |-> FALSE]
      BY DEF Enqueued
    <3> HIDE DEF slots
    <3> QED
      BY <2>2, <3>1
  <2>7. \A s \in commitSlot' \cup voteSlot' : s = [block |-> s.block, formed |-> s.formed] /\ Fits(s.block)'
    BY <2>1, <2>4, <2>5, <2>6, FitsStays
  <2>8. parentCert' \subseteq quorums'
    BY <2>1, <2>2 DEF HyperInv, Formed
  <2> QED
    BY <2>1, <2>7, <2>8 DEF HyperInv, ChainLinked, OnlyTipUncertified
<1>3. ASSUME NEW b, GatherQuorum(b) PROVE HyperInv'
  BY <1>3 DEF GatherQuorum, HyperInv, Fits, ChainLinked, OnlyTipUncertified
<1>4. CASE AdvanceView \/ UNCHANGED hyperVars
  BY <1>4 DEF AdvanceView, hyperVars, HyperInv, Fits, ChainLinked, OnlyTipUncertified
<1> QED
  BY <1>1, <1>2, <1>3, <1>4 DEF HyperNext

-----------------------------------------------------------------------------
(* Votes and certificates on the wire *)

\* Two quorums of so many validators cannot be apart; of the numbers of
\* validators only 2, 3 and 6 are left out.
QuorumsMeet == 2 * QuorumThreshold > N

\* There is an honest validator in every quorum by count.
FewFaulty == Cardinality(Vals \ HonestVals) < QuorumThreshold

\* An honest validator that has not gone back to an older snapshot votes for one block
\* a height, and reports only certificates that it has seen.
HonestSignOnce ==
  \A a, b \in votes : a.by \in HonestVals \ rewound /\ a.by = b.by /\ a.height = b.height => a.hash = b.hash

HonestReport == \A t \in timeouts : t.by \in HonestVals => t.high \in qcs \cup {GenesisQc}

CertsVerify == \A q \in qcs : q.signers \subseteq Vals /\ VerifyQc(q)

WireInv ==
  /\ \A w \in votes : w.by \in Vals
  /\ \A t \in timeouts : t.by \in Vals
  /\ HonestSignOnce /\ HonestReport /\ CertsVerify /\ HonestUnpunished /\ (FewFaulty => TimeoutCertGenuine)

\* The validators are N.
LEMMA ValsFinite == IsFiniteSet(Vals) /\ Cardinality(Vals) = N
<1>1. 0 \in Int /\ N - 1 \in Int /\ ~(0 > N - 1) /\ (N - 1) - 0 + 1 = N
  BY BftWireAssumption
<1> QED
  BY <1>1, FS_Interval DEF Vals

\* The threshold is a natural number of validators.
LEMMA ThresholdNat == QuorumThreshold \in Nat \ {0}
BY BftWireAssumption DEF QuorumThreshold

\* Rounding up: ceil(a / n) * n >= a.
LEMMA CeilingAbove ==
  ASSUME NEW a \in Nat, NEW n \in Nat \ {0}
  PROVE  (a + n - 1) \div n \in Nat /\ ((a + n - 1) \div n) * n >= a
<1> DEFINE q == (a + n - 1) \div n
<1>1. q \in Int /\ n * q <= a + n - 1 /\ a + n - 1 < n * q + n
  OBVIOUS
<1>2. q >= 0
  OBVIOUS
<1> HIDE DEF q
<1>3. q * n = n * q
  BY <1>1
<1>4. n * q \in Int /\ n * q >= a
  BY <1>1
<1>5. q \in Nat /\ q * n >= a
  BY <1>1, <1>2, <1>3, <1>4
<1> QED
  BY <1>5 DEF q

\* Two sets that both meet the quorum share a validator.
LEMMA QuorumsShare ==
  ASSUME QuorumsMeet, NEW S \in SUBSET Vals, NEW T \in SUBSET Vals, QuorumMet(S), QuorumMet(T)
  PROVE  S \cap T # {}
<1> SUFFICES ASSUME S \cap T = {} PROVE FALSE
  OBVIOUS
<1>1. IsFiniteSet(S) /\ IsFiniteSet(T) /\ IsFiniteSet(S \cup T)
  BY ValsFinite, FS_Subset, FS_Union
<1>2. CASE TotalStake = 0
  <2>1. Cardinality(S) >= QuorumThreshold /\ Cardinality(T) >= QuorumThreshold
    BY <1>2 DEF QuorumMet
  <2>2. Cardinality(S \cup T) = Cardinality(S) + Cardinality(T) - Cardinality(S \cap T)
    BY <1>1, FS_Union
  <2>3. Cardinality(S \cap T) = 0
    BY FS_EmptySet
  <2>4. Cardinality(S \cup T) <= N
    BY ValsFinite, FS_Subset
  <2>5. Cardinality(S) \in Nat /\ Cardinality(T) \in Nat /\ Cardinality(S \cup T) \in Nat
    BY <1>1, FS_CardinalityType
  <2>6. 2 * QuorumThreshold > N /\ QuorumThreshold \in Nat /\ N \in Nat
    BY ThresholdNat, BftWireAssumption DEF QuorumsMeet
  <2> QED
    BY <2>1, <2>2, <2>3, <2>4, <2>5, <2>6
<1>3. CASE TotalStake # 0
  <2>1. \A x \in Vals : Stake[x] \in Nat
    BY BftWireAssumption
  <2>2. TotalStake = SumOf(Stake, Vals)
    BY DEF TotalStake, SumOf
  <2>3. SumOf(Stake, S) >= StakeThreshold /\ SumOf(Stake, T) >= StakeThreshold
    BY <1>3 DEF QuorumMet, SumOf
  <2>4. SumOf(Stake, S \cup T) = SumOf(Stake, S) + SumOf(Stake, T)
    BY <1>1, <2>1, SumDisjoint
  <2>5. SumOf(Stake, S \cup T) <= SumOf(Stake, Vals)
    BY <2>1, ValsFinite, SumMonotone
  <2>6. SumOf(Stake, S) \in Nat /\ SumOf(Stake, T) \in Nat /\ SumOf(Stake, Vals) \in Nat
    BY <1>1, <2>1, ValsFinite, SumNat
  <2> DEFINE A == TotalStake * QuorumThreshold
             c == (A + N - 1) \div N
  <2>7. A \in Nat /\ N \in Nat \ {0}
    BY <2>2, <2>6, ThresholdNat, BftWireAssumption
  <2> HIDE DEF A
  <2>8. c \in Nat /\ c * N >= A
    BY <2>7, CeilingAbove
  <2> HIDE DEF c
  <2>9. StakeThreshold = Max({1, c})
    BY DEF StakeThreshold, A, c
  <2>10. StakeThreshold \in Nat /\ StakeThreshold >= c
    BY <2>8, <2>9, MaxOfTwo
  <2>11. TotalStake \in Nat \ {0} /\ 2 * c <= TotalStake
    BY <1>3, <2>2, <2>3, <2>4, <2>5, <2>6, <2>8, <2>10
  <2>12. (2 * c) * N <= TotalStake * N
    BY <2>7, <2>8, <2>11
  <2>13. (2 * c) * N = 2 * (c * N)
    BY <2>7, <2>8
  <2>14. 2 * A <= TotalStake * N
    BY <2>7, <2>8, <2>11, <2>12, <2>13
  <2>15. TotalStake * (2 * QuorumThreshold) > TotalStake * N
    BY <2>7, <2>11, ThresholdNat DEF QuorumsMeet
  <2>16. TotalStake * (2 * QuorumThreshold) = 2 * A
    BY <2>11, ThresholdNat DEF A
  <2> QED
    BY <2>7, <2>11, <2>14, <2>15, <2>16
<1> QED
  BY <1>2, <1>3

\* Nobody honest who has not gone back is in two certificates of one height for different blocks.
LEMMA HonestInOne ==
  ASSUME HonestSignOnce, NEW p, NEW q, NEW v \in p.signers \cap q.signers, VerifyQc(p), VerifyQc(q),
         p.height = q.height, p.hash # q.hash
  PROVE  v \notin HonestVals \ rewound
<1> DEFINE a == Vote(v, p.view, p.height, p.hash)
           b == Vote(v, q.view, q.height, q.hash)
<1>1. a \in votes /\ b \in votes
  BY DEF VerifyQc
<1>2. a.by = v /\ b.by = v /\ a.height = p.height /\ b.height = q.height /\ a.hash = p.hash /\ b.hash = q.hash
  BY DEF Vote
<1> HIDE DEF a, b
<1> QED
  BY <1>1, <1>2 DEF HonestSignOnce

\* Nothing is signed.
LEMMA WireStart == ASSUME WireInit PROVE WireInv
BY DEF WireInit, WireInv, HonestSignOnce, HonestReport, CertsVerify, HonestUnpunished, TimedOutTwice, TimeoutCertGenuine

\* Every signature, certificate and conviction keeps the invariant.
LEMMA WireKept == ASSUME WireInv, [WireNext]_wireVars PROVE WireInv'
<1> USE DEF WireInv
<1>1. ASSUME NEW v \in Vals, NEW w, NEW hash, NEW height, SignVote(v, w, hash, height) PROVE WireInv'
  <2> DEFINE a == Vote(v, w, height, hash)
  <2>1. /\ votes' = votes \cup {a} /\ UNCHANGED <<timeouts, qcs, tcs, punished, rewound>>
        /\ v \in HonestVals => v \in rewound \/ \A x \in votes : x.by = v /\ x.height = height => x.hash = hash
    BY <1>1 DEF SignVote
  <2>2. a.by = v /\ a.height = height /\ a.hash = hash
    BY DEF Vote
  <2> HIDE DEF a
  <2>3. HonestSignOnce'
    BY <2>1, <2>2 DEF HonestSignOnce
  <2>4. CertsVerify'
    BY <2>1 DEF CertsVerify, VerifyQc
  <2> QED
    BY <2>1, <2>2, <2>3, <2>4 DEF HonestReport, HonestUnpunished, TimedOutTwice, TimeoutCertGenuine
<1>2. ASSUME NEW w, NEW hash, FormQc(w, hash) PROVE WireInv'
  <2>1. PICK S \in VoteSlots(w, hash) :
          \E qc \in {[view |-> w, height |-> BlockHeight[hash], hash |-> hash, signers |-> {x.by : x \in S}]} :
            VerifyQc(qc) /\ qcs' = qcs \cup {qc}
    BY <1>2 DEF FormQc
  <2> DEFINE qc == [view |-> w, height |-> BlockHeight[hash], hash |-> hash, signers |-> {x.by : x \in S}]
  <2>2. VerifyQc(qc) /\ qcs' = qcs \cup {qc} /\ UNCHANGED <<votes, timeouts, tcs, punished, rewound>>
    BY <1>2, <2>1 DEF FormQc
  <2>3. qc.signers \subseteq Vals
    <3>1. S \subseteq votes
      BY DEF VoteSlots
    <3> QED
      BY <3>1
  <2> HIDE DEF qc
  <2>4. CertsVerify'
    BY <2>2, <2>3 DEF CertsVerify, VerifyQc
  <2> QED
    BY <2>2, <2>4 DEF HonestSignOnce, HonestReport, HonestUnpunished, TimedOutTwice, TimeoutCertGenuine
<1>3. ASSUME NEW v \in Vals, NEW w, NEW qc \in qcs \cup {GenesisQc, Forged}, SignTimeout(v, w, qc) PROVE WireInv'
  <2> DEFINE a == Timeout(v, w, qc)
  <2>1. /\ timeouts' = timeouts \cup {a} /\ UNCHANGED <<votes, qcs, tcs, punished, rewound>>
        /\ v \in HonestVals => qc # Forged
    BY <1>3 DEF SignTimeout
  <2>2. a.by = v /\ a.view = w /\ a.high = qc
    BY DEF Timeout
  <2> HIDE DEF a
  <2>3. HonestSignOnce'
    BY <2>1, <2>2 DEF HonestSignOnce
  <2>4. HonestReport'
    BY <2>1, <2>2 DEF HonestReport
  <2> QED
    BY <2>1, <2>2, <2>3, <2>4 DEF CertsVerify, VerifyQc, HonestUnpunished, TimedOutTwice, TimeoutCertGenuine
<1>4. ASSUME NEW w, FormTimeoutCert(w) PROVE WireInv'
  <2>1. PICK cast \in SUBSET {t \in timeouts : t.view = w} : \E qc \in BestHighQc(cast) :
          \E tc \in {[view |-> w, high |-> qc, signers |-> TimeoutSigners(cast, qc)]} : tcs' = tcs \cup {tc}
    BY <1>4 DEF FormTimeoutCert
  <2>2. PICK qc \in BestHighQc(cast) :
          \E tc \in {[view |-> w, high |-> qc, signers |-> TimeoutSigners(cast, qc)]} : tcs' = tcs \cup {tc}
    BY <2>1
  <2> DEFINE tc == [view |-> w, high |-> qc, signers |-> TimeoutSigners(cast, qc)]
  <2>3. tcs' = tcs \cup {tc} /\ UNCHANGED <<votes, timeouts, qcs, punished, rewound>> /\ tc.high = qc
    BY <1>4, <2>2 DEF FormTimeoutCert
  <2> HIDE DEF tc
  <2>4. ASSUME FewFaulty PROVE qc \in qcs \cup {GenesisQc}
    <3> DEFINE G == TimeoutSigners(cast, qc)
               F == Vals \ HonestVals
    <3>1. Cardinality(G) >= QuorumThreshold
      BY DEF BestHighQc
    <3>2. G \subseteq Vals /\ \A x \in G : \E t \in timeouts : t.by = x /\ t.high = qc
      BY DEF TimeoutSigners
    <3>3. \E x \in G : x \in HonestVals
      <4> SUFFICES ASSUME G \subseteq F PROVE FALSE
        BY <3>2
      <4>1. IsFiniteSet(F)
        BY ValsFinite, FS_Subset
      <4>2. Cardinality(G) <= Cardinality(F) /\ Cardinality(F) \in Nat /\ IsFiniteSet(G)
        BY <4>1, FS_Subset, FS_CardinalityType
      <4>3. Cardinality(G) \in Nat
        BY <4>2, FS_CardinalityType
      <4>4. Cardinality(F) < QuorumThreshold
        BY <2>4 DEF FewFaulty
      <4> HIDE DEF G, F
      <4> QED
        BY <3>1, <4>2, <4>3, <4>4, ThresholdNat
    <3> QED
      BY <3>2, <3>3 DEF HonestReport
  <2>5. FewFaulty => TimeoutCertGenuine'
    BY <2>3, <2>4 DEF TimeoutCertGenuine
  <2> QED
    BY <2>3, <2>5 DEF HonestSignOnce, HonestReport, CertsVerify, VerifyQc, HonestUnpunished, TimedOutTwice, FewFaulty
<1>5. ASSUME NEW v \in Vals, Slash(v) PROVE WireInv'
  <2>1. punished' = punished \cup {v} /\ UNCHANGED <<votes, timeouts, qcs, tcs, rewound>>
    BY <1>5 DEF Slash
  <2>2. v \in HonestVals => v \in rewound \/ TimedOutTwice(v)
    <3>1. ASSUME NEW a \in votes, NEW b \in votes, DoubleVote(v, a, b) PROVE v \notin HonestVals \ rewound
      BY <3>1 DEF DoubleVote, HonestSignOnce
    <3>2. ASSUME NEW p \in qcs, NEW q \in qcs, ConflictingQc(v, p, q) PROVE v \notin HonestVals \ rewound
      BY <3>2, HonestInOne DEF ConflictingQc
    <3>3. ASSUME NEW s \in timeouts, NEW t \in timeouts, TimeoutEquivocation(v, s, t) PROVE TimedOutTwice(v)
      BY <3>3 DEF TimeoutEquivocation, TimedOutTwice
    <3> QED
      BY <1>5, <3>1, <3>2, <3>3 DEF Slash
  <2> QED
    BY <2>1, <2>2 DEF HonestSignOnce, HonestReport, CertsVerify, VerifyQc, HonestUnpunished, TimedOutTwice, TimeoutCertGenuine
<1>7. ASSUME NEW v \in Vals, Rewind(v) PROVE WireInv'
  <2>1. rewound \subseteq rewound' /\ UNCHANGED <<votes, timeouts, qcs, tcs, punished>>
    BY <1>7 DEF Rewind
  <2> QED
    BY <2>1 DEF HonestSignOnce, HonestReport, CertsVerify, VerifyQc, HonestUnpunished, TimedOutTwice, TimeoutCertGenuine
<1>6. CASE UNCHANGED wireVars
  BY <1>6 DEF wireVars, HonestSignOnce, HonestReport, CertsVerify, VerifyQc, HonestUnpunished, TimedOutTwice, TimeoutCertGenuine
<1> QED
  BY <1>1, <1>2, <1>3, <1>4, <1>5, <1>6, <1>7 DEF WireNext

\* Conflicting certificates share a signer, who is faulty or went back.
LEMMA WireIsSafe ==
  ASSUME QuorumsMeet, FewFaulty, WireInv
  PROVE  HonestUnpunished /\ ConflictsConvict /\ TimeoutCertGenuine
<1>1. ASSUME NEW p \in qcs, NEW q \in qcs, p.view = q.view, p.height = q.height, p.hash # q.hash
      PROVE  \E v \in Vals \ (HonestVals \ rewound) : ConflictingQc(v, p, q)
  <2>1. VerifyQc(p) /\ VerifyQc(q) /\ p.signers \in SUBSET Vals /\ q.signers \in SUBSET Vals
    BY DEF WireInv, CertsVerify
  <2>2. PICK v \in p.signers \cap q.signers : TRUE
    BY <2>1, QuorumsShare DEF VerifyQc
  <2>3. v \notin HonestVals \ rewound
    BY <1>1, <2>1, HonestInOne DEF WireInv
  <2> QED
    BY <1>1, <2>1, <2>2, <2>3 DEF ConflictingQc
<1> QED
  BY <1>1 DEF WireInv, ConflictsConvict

-----------------------------------------------------------------------------
(* The publisher *)

\* The newest vote that has left the channel.
LastTaken == forwarded - Len(sink)

\* The channel holds the votes after it, in order.
ChannelInOrder ==
  /\ forwarded \in Nat /\ sink \in Seq(Nat) /\ Len(sink) <= forwarded
  /\ \A i \in 1 .. Len(sink) : sink[i] = LastTaken + i

\* What left it went out in order or waits, and the newest is accounted for.
SentInOrder ==
  /\ gossiped \in Seq(Nat) /\ pendingVote \in Nat
  /\ pendingVote <= LastTaken
  /\ \A i \in 1 .. Len(gossiped) : gossiped[i] <= LastTaken /\ (pendingVote # 0 => gossiped[i] < pendingVote)
  /\ \A i, j \in 1 .. Len(gossiped) : i < j => gossiped[i] < gossiped[j]
  /\ pendingVote # 0 => listeners = {}
  /\ LastTaken > 0 => (\E i \in 1 .. Len(gossiped) : gossiped[i] = LastTaken) \/ LastTaken \in unsent \cup {pendingVote}

\* An identity is on file before the node is up with it, and one on file is
\* never replaced.
IdentityOnFile ==
  /\ keyFile \in Nat
  /\ seen \subseteq {keyFile} /\ (keyFile = 0 => seen = {})
  /\ starting = [step |-> starting.step, id |-> starting.id]
  /\ starting.step \in {"write", "rename"} => keyFile = 0 /\ starting.id \in Nat \ {0}
  /\ starting.step = "rename" => tmpFile = starting.id

PublisherInv == ChannelInOrder /\ SentInOrder /\ IdentityOnFile

\* Nothing is sent and there is no file.
LEMMA PublisherStart == ASSUME PublisherInit PROVE PublisherInv
BY DEF PublisherInit, PublisherInv, ChannelInOrder, SentInOrder, IdentityOnFile, LastTaken

\* A vote v newer than all before it is taken to the slot, and the slot flushed:
\* it went out, was refused, or waits for a peer.
LEMMA SlotFlushed ==
  ASSUME SentInOrder, NEW slot \in Nat, NEW peers, TryFlush(slot, peers), LastTaken \in Nat, LastTaken' \in Nat,
         listeners' = peers, LastTaken <= LastTaken',
         \/ slot = LastTaken' /\ LastTaken' > LastTaken
         \/ slot = pendingVote /\ LastTaken' = LastTaken
  PROVE  SentInOrder'
<1> DEFINE m == LastTaken
           n == LastTaken'
<1>0. m \in Nat /\ n \in Nat /\ m <= n /\ slot <= n /\ ((slot = n /\ n > m) \/ (slot = pendingVote /\ n = m))
  BY DEF SentInOrder
<1>1. /\ \A i \in 1 .. Len(gossiped) : gossiped[i] \in Nat /\ gossiped[i] <= m /\ (slot # 0 => gossiped[i] < slot)
      /\ Len(gossiped) \in Nat
  BY <1>0 DEF SentInOrder
<1>2. CASE (slot = 0 \/ peers = {}) /\ pendingVote' = slot /\ UNCHANGED <<gossiped, unsent>>
  <2>1. slot # 0 => listeners' = {}
    BY <1>2
  <2>2. n > 0 => (\E i \in 1 .. Len(gossiped) : gossiped[i] = n) \/ n \in unsent \cup {slot}
    BY <1>0 DEF SentInOrder
  <2> HIDE DEF m, n
  <2>3. \A i \in 1 .. Len(gossiped) : gossiped[i] <= n /\ (slot # 0 => gossiped[i] < slot)
    BY <1>0, <1>1
  <2> QED
    BY <1>0, <1>2, <2>1, <2>2, <2>3 DEF SentInOrder, n
<1>3. CASE /\ slot # 0 /\ peers # {} /\ pendingVote' = 0
           /\ gossiped' = Append(gossiped, slot) /\ UNCHANGED unsent
  <2> DEFINE g == Append(gossiped, slot)
             k == Len(gossiped)
  <2>1. g \in Seq(Nat) /\ Len(g) = k + 1 /\ g[k + 1] = slot /\ \A i \in 1 .. k : g[i] = gossiped[i]
    BY DEF SentInOrder
  <2> HIDE DEF g
  <2>2. \A i \in 1 .. Len(g) : i \in 1 .. k \/ i = k + 1
    BY <1>1, <2>1
  <2>3. \A i \in 1 .. Len(g) : g[i] <= n
    BY <1>0, <1>1, <2>1, <2>2
  <2>4. ASSUME NEW i \in 1 .. Len(g), NEW j \in 1 .. Len(g), i < j PROVE g[i] < g[j]
    <3>1. i \in 1 .. k
      BY <1>1, <2>1, <2>4
    <3>2. CASE j = k + 1
      BY <1>1, <1>3, <2>1, <3>1, <3>2
    <3>3. CASE j \in 1 .. k
      <4>1. gossiped[i] < gossiped[j]
        BY <2>4, <3>1, <3>3 DEF SentInOrder
      <4> QED
        BY <2>1, <3>1, <3>3, <4>1
    <3> QED
      BY <2>2, <3>2, <3>3
  <2>5. n > 0 => (\E i \in 1 .. Len(g) : g[i] = n) \/ n \in unsent
    <3>1. CASE slot = n
      BY <1>1, <2>1, <3>1
    <3>2. CASE slot = pendingVote /\ n = m
      <4>1. n > 0 => (\E i \in 1 .. k : gossiped[i] = n) \/ n \in unsent \/ n = slot
        BY <3>2 DEF SentInOrder
      <4> HIDE DEF n
      <4> QED
        BY <1>1, <2>1, <4>1
    <3> QED
      BY <1>0, <3>1, <3>2
  <2> QED
    BY <1>0, <1>3, <2>1, <2>3, <2>4, <2>5 DEF SentInOrder, n, g
<1>4. CASE /\ slot # 0 /\ peers # {} /\ pendingVote' = 0
           /\ unsent' = unsent \cup {slot} /\ UNCHANGED gossiped
  <2>1. n > 0 => (\E i \in 1 .. Len(gossiped) : gossiped[i] = n) \/ n \in unsent \cup {slot}
    BY <1>0 DEF SentInOrder
  <2>2. \A i \in 1 .. Len(gossiped) : gossiped[i] <= n
    BY <1>0, <1>1
  <2> QED
    BY <1>0, <1>4, <2>1, <2>2 DEF SentInOrder, n
<1> QED
  BY <1>2, <1>3, <1>4 DEF TryFlush

\* Every step of the publisher, and a crash, keeps the order and the identity.
LEMMA PublisherKept == ASSUME PublisherInv, [PublisherNext]_publisherVars PROVE PublisherInv'
<1> USE DEF PublisherInv
<1>1. CASE ForwardVote
  <2>1. /\ forwarded' = forwarded + 1 /\ sink' = Append(sink, forwarded + 1)
        /\ UNCHANGED <<pendingVote, listeners, gossiped, unsent, identityVars>>
    BY <1>1 DEF ForwardVote
  <2>2. Len(sink') = Len(sink) + 1 /\ sink' \in Seq(Nat) /\ sink'[Len(sink) + 1] = forwarded + 1
        /\ \A i \in 1 .. Len(sink) : sink'[i] = sink[i]
    BY <2>1 DEF ChannelInOrder
  <2>3. LastTaken' = LastTaken /\ LastTaken \in Nat /\ Len(sink) \in Nat /\ LastTaken + Len(sink) = forwarded
    BY <2>1, <2>2 DEF LastTaken, ChannelInOrder
  <2>4. ChannelInOrder'
    BY <2>1, <2>2, <2>3 DEF ChannelInOrder
  <2>5. SentInOrder'
    BY <2>1, <2>3 DEF SentInOrder
  <2> QED
    BY <2>1, <2>4, <2>5 DEF IdentityOnFile, identityVars
<1>2. CASE RecvVote
  <2>1. /\ sink # <<>> /\ sink' = Tail(sink) /\ TryFlush(Head(sink), listeners)
        /\ UNCHANGED <<forwarded, listeners, identityVars>>
    BY <1>2 DEF RecvVote, Enqueue
  <2>2. Len(sink) \in Nat \ {0} /\ Len(sink') = Len(sink) - 1 /\ sink' \in Seq(Nat)
        /\ \A i \in 1 .. Len(sink') : sink'[i] = sink[i + 1]
    BY <2>1 DEF ChannelInOrder
  <2>3. LastTaken' = LastTaken + 1 /\ LastTaken \in Nat
    BY <2>1, <2>2 DEF LastTaken, ChannelInOrder
  <2>4. ChannelInOrder'
    BY <2>1, <2>2, <2>3 DEF ChannelInOrder
  <2>5. Head(sink) = LastTaken'
    BY <2>1, <2>2, <2>3 DEF ChannelInOrder
  <2>6. SentInOrder'
    BY <2>1, <2>3, <2>5, SlotFlushed
  <2> QED
    BY <2>1, <2>4, <2>6 DEF IdentityOnFile, identityVars
<1>3. ASSUME NEW peers, SwarmPolled(peers) PROVE PublisherInv'
  <2>1. /\ listeners' = peers /\ TryFlush(pendingVote, peers) /\ UNCHANGED <<forwarded, sink, identityVars>>
    BY <1>3 DEF SwarmPolled
  <2>2. LastTaken' = LastTaken /\ LastTaken \in Nat /\ pendingVote \in Nat
    BY <2>1 DEF LastTaken, ChannelInOrder, SentInOrder
  <2>3. LastTaken <= LastTaken'
    BY <2>2
  <2>4. SentInOrder'
    BY <2>1, <2>2, <2>3, SlotFlushed
  <2>5. ChannelInOrder'
    BY <2>1, <2>2 DEF ChannelInOrder
  <2> QED
    BY <2>1, <2>4, <2>5 DEF IdentityOnFile, identityVars
<1>4. ASSUME NEW id \in Nat \ {0}, LoadIdentity \/ GenerateIdentity(id) PROVE PublisherInv'
  <2>1. UNCHANGED voteSlotVars
    BY <1>4 DEF LoadIdentity, GenerateIdentity
  <2>2. ChannelInOrder' /\ SentInOrder'
    BY <2>1 DEF voteSlotVars, ChannelInOrder, SentInOrder, LastTaken
  <2>3. IdentityOnFile'
    BY <1>4 DEF LoadIdentity, GenerateIdentity, IdentityOnFile
  <2> QED
    BY <2>2, <2>3
<1>5. ASSUME NEW whole \in BOOLEAN, RenameIdentity \/ WriteIdentity(whole) PROVE PublisherInv'
  <2>1. UNCHANGED voteSlotVars
    BY <1>5 DEF RenameIdentity, WriteIdentity
  <2>2. ChannelInOrder' /\ SentInOrder'
    BY <2>1 DEF voteSlotVars, ChannelInOrder, SentInOrder, LastTaken
  <2>3. CASE RenameIdentity
    <3>1. IdentityOnFile'
      BY <2>3 DEF RenameIdentity, IdentityOnFile
    <3> QED
      BY <2>2, <3>1
  <2>4. CASE WriteIdentity(whole)
    <3>1. IdentityOnFile'
      BY <2>4 DEF WriteIdentity, IdentityOnFile
    <3> QED
      BY <2>2, <3>1
  <2> QED
    BY <1>5, <2>3, <2>4
<1>6. CASE CrashNode
  <2>1. /\ starting' = [step |-> "down", id |-> 0]
        /\ sink' = <<>> /\ pendingVote' = 0 /\ listeners' = {}
        /\ unsent' = (unsent \cup {pendingVote} \cup {sink[i] : i \in DOMAIN sink}) \ {0}
        /\ UNCHANGED <<forwarded, gossiped, keyFile, tmpFile, seen>>
    BY <1>6 DEF CrashNode
  <2>2. LastTaken' = forwarded /\ LastTaken <= forwarded /\ LastTaken \in Nat /\ forwarded \in Nat
    BY <2>1 DEF LastTaken, ChannelInOrder
  <2>3. ChannelInOrder'
    BY <2>1, <2>2 DEF ChannelInOrder
  <2>4. forwarded > 0 => (\E i \in 1 .. Len(gossiped) : gossiped[i] = forwarded) \/ forwarded \in unsent'
    <3>1. CASE Len(sink) = 0
      <4>1. LastTaken = forwarded
        BY <3>1, <2>2 DEF LastTaken
      <4> QED
        BY <2>1, <4>1 DEF SentInOrder
    <3>2. CASE Len(sink) # 0
      <4>1. Len(sink) \in 1 .. Len(sink) /\ sink[Len(sink)] = forwarded
        BY <3>2 DEF ChannelInOrder, LastTaken
      <4>2. DOMAIN sink = 1 .. Len(sink)
        BY DEF ChannelInOrder
      <4> QED
        BY <2>1, <2>2, <4>1, <4>2
    <3> QED
      BY <3>1, <3>2
  <2>5. \A i \in 1 .. Len(gossiped) : gossiped[i] <= forwarded
    <3>1. \A i \in 1 .. Len(gossiped) : gossiped[i] \in Nat /\ gossiped[i] <= LastTaken
      BY DEF SentInOrder
    <3> QED
      BY <2>2, <3>1
  <2>6. SentInOrder'
    BY <2>1, <2>2, <2>4, <2>5 DEF SentInOrder
  <2>7. IdentityOnFile'
    BY <2>1 DEF IdentityOnFile
  <2> QED
    BY <2>3, <2>6, <2>7
<1>7. CASE UNCHANGED publisherVars
  BY <1>7 DEF publisherVars, voteSlotVars, identityVars, ChannelInOrder, SentInOrder, LastTaken, IdentityOnFile
<1>8. \A id \in 1 .. MaxIds : id \in Nat \ {0}
  OBVIOUS
<1>9. 1 \in Nat \ {0} /\ TRUE \in BOOLEAN
  OBVIOUS
<1> QED
  BY <1>1, <1>2, <1>3, <1>4, <1>5, <1>6, <1>7, <1>8, <1>9 DEF PublisherNext

\* What the invariant says of the votes and the identity.
LEMMA PublisherIsSafe ==
  ASSUME PublisherInv
  PROVE  NewestVoteKept /\ VotesGoOutInOrder /\ IdentityIsKept
<1>1. DOMAIN gossiped = 1 .. Len(gossiped)
  BY DEF PublisherInv, SentInOrder
<1>2. NewestVoteKept
  <2> SUFFICES ASSUME sink = <<>>, forwarded > 0
               PROVE  forwarded \in {gossiped[i] : i \in DOMAIN gossiped} \cup unsent \cup {pendingVote}
    BY DEF NewestVoteKept
  <2>1. LastTaken = forwarded
    BY DEF LastTaken, PublisherInv, ChannelInOrder
  <2> QED
    BY <1>1, <2>1 DEF PublisherInv, SentInOrder
<1>3. VotesGoOutInOrder
  BY <1>1 DEF VotesGoOutInOrder, PublisherInv, SentInOrder
<1>4. IdentityIsKept
  <2>1. keyFile # Torn
    BY DEF PublisherInv, IdentityOnFile, Torn
  <2>2. IsFiniteSet({keyFile}) /\ Cardinality({keyFile}) = 1
    BY FS_Singleton
  <2>3. Cardinality(seen) <= 1
    BY <2>2, FS_Subset DEF PublisherInv, IdentityOnFile
  <2> QED
    BY <2>1, <2>3 DEF IdentityIsKept
<1> QED
  BY <1>2, <1>3, <1>4

-----------------------------------------------------------------------------
\* The three ways of voting and the publisher (masterchain/src/bft.rs,
\* bft-wire, hyperbft_tick.rs, node/src/p2p.rs), together: a second block of
\* a view takes a restart of its proposer or a vote that does not verify, and
\* no view is without a quorum behind it; a validator that follows the code is
\* convicted only for a restart from an older snapshot or a second timeout of
\* a view, and conflicting certificates convict a faulty or restarted one;
\* timeout certificates carry genuine ones; a linked chain is certified below
\* its tip; and a node's votes go out in order under one identity.  For every
\* number of validators but 2, 3 and 6, whose quorums need not meet, every
\* stake, every set of faulty validators smaller than a quorum, and every bound.
THEOREM VotingIsSafe ==
  ASSUME QuorumsMeet, FewFaulty
  PROVE  BftSpec /\ WireSpec /\ HyperSpec /\ PublisherSpec => []VotingSafe
<1>1. BftSpec => []BftInv
  BY BftStart, BftKept, PTL DEF BftSpec
<1>2. WireSpec => []WireInv
  BY WireStart, WireKept, PTL DEF WireSpec
<1>3. HyperSpec => []HyperInv
  BY HyperStart, HyperKept, PTL DEF HyperSpec
<1>4. PublisherSpec => []PublisherInv
  BY PublisherStart, PublisherKept, PTL DEF PublisherSpec
<1>5. BftInv => OneBlockPerView /\ ViewsBacked
  BY ViewsFollow
<1>6. HyperInv => OnlyTipUncertified /\ ChainLinked
  BY DEF HyperInv
<1>7. BftInv /\ WireInv /\ HyperInv /\ PublisherInv => VotingSafe
  BY <1>5, <1>6, WireIsSafe, PublisherIsSafe DEF VotingSafe
<1> QED
  BY <1>1, <1>2, <1>3, <1>4, <1>7, PTL

-----------------------------------------------------------------------------
(* Payloads of blocks *)

\* What is kept of a sequence is in it and in the set.
LEMMA KeepInType ==
  ASSUME NEW T, NEW s \in Seq(T), NEW K
  PROVE  KeepIn(s, K) \in Seq(ToSet(s) \cap K)
<1> DEFINE n == Len(s)
           S == 1 .. n
           A == Seq(ToSet(s) \cap K)
           Add(acc, x) == IF x \in K THEN Append(acc, x) ELSE acc
           F == [p \in S \X A |-> Add(p[2], s[p[1]])]
           c == [t \in SUBSET S |-> Max(t)]
<1>1. n \in Nat /\ DOMAIN s = S /\ (\A i \in S : s[i] \in ToSet(s)) /\ IsFiniteSet(S)
  BY FS_Interval DEF ToSet
<1>2. ASSUME NEW acc \in A, NEW i \in S PROVE Add(acc, s[i]) \in A
  BY <1>1
<1>3. F \in [S \X A -> A]
  BY <1>2
<1>4. \A t \in SUBSET S : t # {} => Max(t) \in t
  BY <1>1, MaxIn
<1>5. \E h \in [SUBSET S -> A] : IsFold(h, c, <<>>, F, S)
  <2>1. Picks(c, S)
    BY <1>4 DEF Picks
  <2>2. <<>> \in A
    OBVIOUS
  <2> HIDE DEF F, c, S, A
  <2> QED
    BY <1>1, <1>3, <2>1, <2>2, FoldExists
<1> HIDE DEF A
<1>6. \E h : h = [t \in SUBSET S |-> IF t = {} THEN <<>> ELSE Add(h[t \ {Max(t)}], s[Max(t)])]
  <2>1. PICK h \in [SUBSET S -> A] : IsFold(h, c, <<>>, F, S)
    BY <1>5
  <2>2. ASSUME NEW t \in SUBSET S, t # {} PROVE h[t] = Add(h[t \ {Max(t)}], s[Max(t)])
    <3>1. <<Max(t), h[t \ {Max(t)}]>> \in S \X A
      BY <1>4, <2>2
    <3>2. h[t] = F[<<Max(t), h[t \ {Max(t)}]>>]
      BY <2>1, <2>2 DEF IsFold
    <3> QED
      BY <3>1, <3>2
  <2>3. h[{}] = <<>>
    BY <2>1 DEF IsFold
  <2> HIDE DEF Add, S
  <2> QED
    BY <2>1, <2>2, <2>3
<1>7. PICK k : /\ k = [t \in SUBSET S |-> IF t = {} THEN <<>> ELSE Add(k[t \ {Max(t)}], s[Max(t)])]
               /\ KeepIn(s, K) = k[S]
  BY <1>1, <1>6 DEF KeepIn, FoldLeft, MapThenFoldSet
<1> HIDE DEF Add
<1> DEFINE P == {i \in 0 .. n : k[1 .. i] \in A}
<1>8. 0 \in P
  <2>1. 1 .. 0 = {} /\ {} \in SUBSET S /\ 0 \in 0 .. n
    BY <1>1
  <2> QED
    BY <1>7, <2>1 DEF A
<1>9. ASSUME NEW i \in 1 .. n, i - 1 \in P PROVE i \in P
  <2>1. 1 .. i \in SUBSET S /\ 1 .. i # {} /\ Max(1 .. i) = i /\ (1 .. i) \ {i} = 1 .. i - 1
    BY <1>1, MaxPrefix
  <2>2. k[1 .. i] = Add(k[1 .. i - 1], s[i])
    BY <1>7, <2>1
  <2> QED
    BY <1>2, <1>9, <2>2
<1>10. n \in P
  <2> HIDE DEF P, n
  <2> QED
    BY <1>1, <1>8, <1>9, PrefixInduction
<1> QED
  BY <1>7, <1>10 DEF A

\* The sequence of a finite set lists its elements, each once.
LEMMA SetToSeqIs ==
  ASSUME NEW S, IsFiniteSet(S)
  PROVE  SetToSeq(S) \in Seq(S) /\ \A i, j \in DOMAIN SetToSeq(S) : SetToSeq(S)[i] = SetToSeq(S)[j] => i = j
<1> DEFINE n == Cardinality(S)
<1>1. n \in Nat /\ ExistsBijection(1 .. n, S)
  BY FS_CardinalityType
<1>2. \E f \in [1 .. n -> S] : \A i, j \in 1 .. n : f[i] = f[j] => i = j
  BY <1>1 DEF ExistsBijection, Bijection, Injection, IsInjective
<1>3. \E f \in [1 .. n -> S] : IsInjective(f)
  BY <1>2 DEF IsInjective
<1>4. SetToSeq(S) \in [1 .. n -> S] /\ IsInjective(SetToSeq(S))
  BY <1>3 DEF SetToSeq
<1> QED
  BY <1>1, <1>4 DEF IsInjective

\* A block as the producer's mode makes it: outside the legacy mode its
\* transactions are not owned ones and its DA commitment is its payload.
BlockIsOfMode(b) ==
  /\ b.txs \in Seq(Offered)
  /\ \A k \in DOMAIN b.txs : payloadMode # "legacy" => TxClass[b.txs[k].members[1]] # "owned"
  /\ payloadMode = "legacy" => b.payload.items = b.txs
  /\ payloadMode # "legacy" => b.da = b.payload /\ b.payload.kind # "transactions"
  /\ \A k \in DOMAIN b.payload.items : b.payload.items[k].kind = "batch" =>
       payloadMode # "legacy" /\ b.payload.items[k].members \in Seq(PayloadCerts)

PayloadInv ==
  /\ payloadMode \in Modes
  /\ waiting \in Seq(Offered)
  /\ certPool \in SUBSET PayloadCerts /\ IsFiniteSet(certPool)
  /\ \A c, d \in certPool : c # d => CertVersions[c] \cap CertVersions[d] = {}
  /\ \E B : produced \in Seq(B)
  /\ replayed \in Nat /\ replayed <= Len(produced)
  /\ \A i \in DOMAIN produced : BlockIsOfMode(produced[i])
  /\ FollowerMissesNothing /\ LossHasACause

\* No batch of accepted certificates has a conflict.
LEMMA BatchesAgree ==
  ASSUME PayloadInv
  PROVE  ~BatchConflicts(SetToSeq(certPool)) /\ SetToSeq(certPool) \in Seq(PayloadCerts)
<1>1. SetToSeq(certPool) \in Seq(certPool)
      /\ \A i, j \in DOMAIN SetToSeq(certPool) : SetToSeq(certPool)[i] = SetToSeq(certPool)[j] => i = j
  BY SetToSeqIs DEF PayloadInv
<1>2. \A i \in DOMAIN SetToSeq(certPool) : SetToSeq(certPool)[i] \in certPool
  BY <1>1
<1>3. ~BatchConflicts(SetToSeq(certPool))
  BY <1>1, <1>2 DEF PayloadInv, BatchConflicts
<1>4. SetToSeq(certPool) \in Seq(PayloadCerts)
  <2>1. certPool \subseteq PayloadCerts
    BY DEF PayloadInv
  <2> HIDE DEF PayloadInv
  <2> QED
    BY <1>1, <2>1
<1> QED
  BY <1>3, <1>4

\* The items of one kind that a tick drained: offered, of that kind and drained.
LEMMA DrainedIs ==
  ASSUME waiting \in Seq(Offered), NEW kind
  PROVE  /\ Drained(payloadMode) \in Seq(ToSet(waiting))
         /\ Drained(payloadMode) \in Seq(Offered)
         /\ OfKind(Drained(payloadMode), kind) \in Seq({x \in ToSet(Drained(payloadMode)) : x.kind = kind})
         /\ OfKind(Drained(payloadMode), kind) \in Seq({x \in Offered : x.kind = kind})
<1> DEFINE d == Drained(payloadMode)
<1>1. ToSet(waiting) \subseteq Offered
  BY DEF ToSet
<1>2. d \in Seq(ToSet(waiting)) /\ d \in Seq(Offered)
  <2> DEFINE K == {item \in ToSet(waiting) :
        CASE item.kind = "tx"     -> IncludeTx(payloadMode, item.members[1])
          [] item.kind = "update" -> payloadMode # "legacy"
          [] item.kind = "rlvr"   -> payloadMode # "legacy" /\ rlvrActive}
  <2>1. d = KeepIn(waiting, K)
    BY DEF Drained
  <2> HIDE DEF K, d
  <2>2. d \in Seq(ToSet(waiting) \cap K)
    BY <2>1, KeepInType
  <2> QED
    BY <1>1, <2>2
<1> HIDE DEF d
<1>3. ToSet(d) \subseteq Offered
  BY <1>2 DEF ToSet
<1>4. OfKind(d, kind) \in Seq(ToSet(d) \cap {x \in ToSet(d) : x.kind = kind})
  BY <1>2, KeepInType DEF OfKind
<1>5. OfKind(d, kind) \in Seq({x \in ToSet(d) : x.kind = kind}) /\ OfKind(d, kind) \in Seq({x \in Offered : x.kind = kind})
  <2>1. ToSet(d) \cap {x \in ToSet(d) : x.kind = kind} = {x \in ToSet(d) : x.kind = kind}
    OBVIOUS
  <2>2. {x \in ToSet(d) : x.kind = kind} \subseteq {x \in Offered : x.kind = kind}
    BY <1>3
  <2> QED
    BY <1>4, <2>1, <2>2
<1> QED
  BY <1>2, <1>5 DEF d

\* A transaction that is drained is one the mode includes.
LEMMA TxsAreIncluded ==
  ASSUME waiting \in Seq(Offered), payloadMode \in Modes, NEW t \in ToSet(Drained(payloadMode)), t.kind = "tx"
  PROVE  IncludeTx(payloadMode, t.members[1])
<1> DEFINE K == {item \in ToSet(waiting) :
        CASE item.kind = "tx"     -> IncludeTx(payloadMode, item.members[1])
          [] item.kind = "update" -> payloadMode # "legacy"
          [] item.kind = "rlvr"   -> payloadMode # "legacy" /\ rlvrActive}
<1>1. Drained(payloadMode) = KeepIn(waiting, K)
  BY DEF Drained
<1>2. KeepIn(waiting, K) \in Seq(ToSet(waiting) \cap K)
  <2> HIDE DEF K
  <2> QED
    BY KeepInType
<1>3. t \in K
  <2> HIDE DEF K
  <2>1. PICK i \in DOMAIN Drained(payloadMode) : t = Drained(payloadMode)[i]
    BY DEF ToSet
  <2> QED
    BY <1>1, <1>2, <2>1
<1> QED
  BY <1>3

\* What is offered is a transaction, an update or an RLVR proof.
LEMMA OfferedKinds ==
  ASSUME NEW x \in Offered
  PROVE  /\ x.kind \in {"tx", "update", "rlvr"}
         /\ x.kind = "rlvr" => [kind |-> "rlvr", members |-> x.members] \in Offered
         /\ x.kind = "tx" => x.members[1] \in PayloadTxs
BY DEF Offered, Item

\* The payload of a mode: in the legacy mode the transactions, else a payload
\* whose only batch, if it has one, lists the certificates.
LEMMA ProposalIs ==
  ASSUME NEW mode \in Modes, NEW certs,
         NEW txs \in Seq(Offered), NEW ups \in Seq(Offered), NEW rlvr \in Seq({x \in Offered : x.kind = "rlvr"}),
         NEW p, p = ProposalPayload(mode, txs, ups, certs, rlvr)
  PROVE  /\ mode = "legacy" => p.items = txs
         /\ p.kind # "transactions"
         /\ \A k \in DOMAIN p.items : p.items[k].kind = "batch" =>
              mode # "legacy" /\ p.items[k].members = SetToSeq(certs)
<1> DEFINE one == [kind |-> "batch", members |-> SetToSeq(certs)]
           batch == IF certs = {} THEN <<>> ELSE <<one>>
           coms == [i \in DOMAIN rlvr |-> RlvrCommitment(rlvr[i])]
           X == Offered \cup {one}
<1>1. coms \in Seq(Offered)
  <2>1. \A i \in DOMAIN rlvr : coms[i] \in Offered
    <3> SUFFICES ASSUME NEW i \in DOMAIN rlvr PROVE RlvrCommitment(rlvr[i]) \in Offered
      OBVIOUS
    <3>1. rlvr[i] \in Offered /\ rlvr[i].kind = "rlvr"
      OBVIOUS
    <3> QED
      BY <3>1, OfferedKinds DEF RlvrCommitment
  <2>2. Len(rlvr) \in Nat /\ DOMAIN rlvr = 1 .. Len(rlvr) /\ coms = [i \in 1 .. Len(rlvr) |-> coms[i]]
    OBVIOUS
  <2> HIDE DEF coms
  <2>3. coms \in [1 .. Len(rlvr) -> Offered]
    BY <2>1, <2>2
  <2> QED
    BY <2>2, <2>3, SeqDef
<1>2. batch \in Seq(X) /\ txs \in Seq(X) /\ ups \in Seq(X) /\ coms \in Seq(X)
  <2>1. batch \in Seq(X)
    <3>1. one \in X
      OBVIOUS
    <3> HIDE DEF one, X
    <3>2. <<one>> \in Seq(X) /\ <<>> \in Seq(X)
      BY <3>1
    <3> QED
      BY <3>2
  <2>2. Offered \subseteq X
    OBVIOUS
  <2> HIDE DEF batch, coms, X
  <2> QED
    BY <1>1, <2>1, <2>2
<1>3. \A x \in X : x.kind = "batch" => x = one
  BY OfferedKinds
<1>4. p = IF mode = "legacy" THEN [kind |-> "full_transactions", items |-> txs]
          ELSE IF mode = "proof_ingestion" /\ txs = <<>> /\ certs = {} /\ rlvr = <<>>
               THEN [kind |-> "proof_updates", items |-> ups]
          ELSE IF mode = "proof_ingestion" /\ txs = <<>> /\ ups = <<>> /\ rlvr = <<>>
               THEN [kind |-> "certificate_batches", items |-> batch]
          ELSE [kind |-> "mixed", items |-> txs \o ups \o batch \o coms]
  BY DEF ProposalPayload
<1>5. one.members = SetToSeq(certs)
  OBVIOUS
<1>6. txs \o ups \o batch \o coms \in Seq(X)
  <2> HIDE DEF batch, coms, X
  <2> QED
    BY <1>2
<1> HIDE DEF one, batch, coms, X
<1>7. p.items \in Seq(X) /\ p.kind # "transactions" /\ (mode = "legacy" => p.items = txs)
  BY <1>2, <1>4, <1>6
<1>8. mode = "legacy" => \A k \in DOMAIN p.items : p.items[k].kind # "batch"
  <2>1. \A k \in DOMAIN txs : txs[k] \in Offered
    OBVIOUS
  <2>2. \A x \in Offered : x.kind # "batch"
    BY OfferedKinds
  <2> QED
    BY <1>7, <2>1, <2>2
<1> QED
  BY <1>3, <1>5, <1>7, <1>8

\* The start.
LEMMA PayloadStart == ASSUME PayloadInit PROVE PayloadInv
<1>1. waiting \in Seq(Offered) /\ produced \in Seq({}) /\ Len(produced) = 0 /\ DOMAIN produced = {}
  BY DEF PayloadInit
<1>2. certPool \in SUBSET PayloadCerts /\ IsFiniteSet(certPool) /\ certPool = {}
  BY FS_EmptySet DEF PayloadInit
<1>3. FollowerMissesNothing /\ LossHasACause
  BY DEF PayloadInit, FollowerMissesNothing, LossHasACause
<1> QED
  BY <1>1, <1>2, <1>3 DEF PayloadInit, PayloadInv

\* A tick keeps the invariant: what it seals is of its mode, and what it
\* loses it loses with a transaction that fails.
LEMMA TickKeeps == ASSUME PayloadInv, ProduceTick PROVE PayloadInv'
<1> DEFINE drained == Drained(payloadMode)
           txs == OfKind(drained, "tx")
           ups == OfKind(drained, "update")
           rlvr == OfKind(drained, "rlvr")
           certs == IF payloadMode = "legacy" THEN {} ELSE certPool
           p == ProposalPayload(payloadMode, txs, ups, certs, rlvr)
           b == Sealed(payloadMode, p, txs)
           fails == BuildFails(txs) \/ (payloadMode # "legacy" /\ RootFails(p))
<1>1. /\ waiting' = KeepIn(waiting, ToSet(waiting) \ ToSet(drained))
      /\ fails => dropped' = dropped \cup ToSet(drained) /\ UNCHANGED produced
      /\ ~fails => produced' = Append(produced, b) /\ UNCHANGED dropped
      /\ UNCHANGED <<payloadMode, rlvrActive, certPool, replayed>>
  BY DEF ProduceTick
<1>2. payloadMode \in Modes /\ waiting \in Seq(Offered)
  BY DEF PayloadInv
<1>3. /\ drained \in Seq(Offered)
      /\ txs \in Seq({x \in ToSet(drained) : x.kind = "tx"}) /\ txs \in Seq({x \in Offered : x.kind = "tx"})
      /\ ups \in Seq({x \in Offered : x.kind = "update"}) /\ rlvr \in Seq({x \in Offered : x.kind = "rlvr"})
  BY <1>2, DrainedIs
<1>4. txs \in Seq(Offered) /\ ups \in Seq(Offered)
  <2> HIDE DEF txs, ups
  <2>1. {x \in Offered : x.kind = "tx"} \subseteq Offered /\ {x \in Offered : x.kind = "update"} \subseteq Offered
    OBVIOUS
  <2> QED
    BY <1>3, <2>1
<1>5. /\ payloadMode = "legacy" => p.items = txs
      /\ p.kind # "transactions"
      /\ \A k \in DOMAIN p.items : p.items[k].kind = "batch" =>
           payloadMode # "legacy" /\ p.items[k].members = SetToSeq(certs)
  <2> HIDE DEF txs, ups, rlvr, certs
  <2> QED
    BY <1>2, <1>3, <1>4, ProposalIs
<1>6. \A k \in DOMAIN p.items : p.items[k].kind = "batch" =>
        /\ payloadMode # "legacy" /\ p.items[k].members \in Seq(PayloadCerts)
        /\ ~BatchConflicts(p.items[k].members)
  <2> HIDE DEF p
  <2> QED
    BY <1>5, BatchesAgree
<1>7. \A k \in DOMAIN txs : /\ txs[k] \in ToSet(drained) /\ txs[k].kind = "tx"
                            /\ payloadMode # "legacy" => TxClass[txs[k].members[1]] # "owned"
  <2> SUFFICES ASSUME NEW k \in DOMAIN txs
               PROVE  /\ txs[k] \in ToSet(drained) /\ txs[k].kind = "tx"
                      /\ payloadMode # "legacy" => TxClass[txs[k].members[1]] # "owned"
    OBVIOUS
  <2>1. txs[k] \in ToSet(drained) /\ txs[k].kind = "tx"
    <3> HIDE DEF txs, drained
    <3> QED
      BY <1>3
  <2>2. IncludeTx(payloadMode, txs[k].members[1])
    <3> HIDE DEF txs
    <3> QED
      BY <1>2, <2>1, TxsAreIncluded
  <2>3. payloadMode # "legacy" => TxClass[txs[k].members[1]] # "owned"
    <3> HIDE DEF txs
    <3> QED
      BY <1>2, <2>2 DEF IncludeTx, Modes
  <2> QED
    BY <2>1, <2>3
<1>8. BlockIsOfMode(b)
  <2>1. b.txs = txs /\ b.payload = p /\ (payloadMode # "legacy" => b.da = p)
    <3> HIDE DEF txs, p
    <3> QED
      BY DEF Sealed, ZoneBlob
  <2> HIDE DEF txs, p, b
  <2> QED
    BY <1>4, <1>5, <1>6, <1>7, <2>1 DEF BlockIsOfMode
<1>9. ~RootFails(p)
  <2> HIDE DEF p
  <2> QED
    BY <1>6 DEF RootFails
<1>10. LossHasACause'
  <2>1. CASE fails
    <3>1. PICK i \in DOMAIN txs : TxClass[txs[i].members[1]] = "failing"
      <4> HIDE DEF txs, p
      <4> QED
        BY <1>9, <2>1 DEF BuildFails
    <3>2. dropped' = dropped \cup ToSet(drained)
      BY <1>1, <2>1
    <3> HIDE DEF txs, fails, drained
    <3> QED
      BY <1>7, <3>1, <3>2 DEF LossHasACause
  <2>2. CASE ~fails
    <3>1. dropped' = dropped
      BY <1>1, <2>2
    <3> QED
      BY <3>1 DEF PayloadInv, LossHasACause
  <2> QED
    BY <2>1, <2>2
<1>11. waiting' \in Seq(Offered)
  <2> HIDE DEF drained
  <2>1. waiting' \in Seq(ToSet(waiting) \cap (ToSet(waiting) \ ToSet(drained)))
    BY <1>1, <1>2, KeepInType
  <2>2. ToSet(waiting) \cap (ToSet(waiting) \ ToSet(drained)) \subseteq Offered
    BY <1>2 DEF ToSet
  <2> QED
    BY <2>1, <2>2
<1> HIDE DEF fails, b
<1>12. /\ (\E B : produced' \in Seq(B)) /\ Len(produced) <= Len(produced')
       /\ Len(produced) \in Nat /\ Len(produced') \in Nat
       /\ \A i \in DOMAIN produced : i \in DOMAIN produced' /\ produced'[i] = produced[i]
       /\ \A i \in DOMAIN produced' : i \in DOMAIN produced \/ produced'[i] = b
       /\ DOMAIN produced = 1 .. Len(produced)
  <2>1. PICK B : produced \in Seq(B)
    BY DEF PayloadInv
  <2>2. produced \in Seq(B \cup {b})
    BY <2>1
  <2>3. CASE fails
    BY <1>1, <2>1, <2>3
  <2>4. CASE ~fails
    <3>1. produced' = Append(produced, b)
      BY <1>1, <2>4
    <3>2. produced' \in Seq(B \cup {b})
      BY <2>2, <3>1
    <3> QED
      BY <2>2, <3>1, <3>2
  <2> QED
    BY <2>3, <2>4
<1>13. \A i \in DOMAIN produced' : BlockIsOfMode(produced'[i])
  BY <1>8, <1>12 DEF PayloadInv
<1>14. (\A i \in DOMAIN produced : BlockIsOfMode(produced[i]))' /\ FollowerMissesNothing'
  <2>1. (\A i \in DOMAIN produced : BlockIsOfMode(produced[i]))'
    BY <1>1, <1>13 DEF BlockIsOfMode
  <2>2. FollowerMissesNothing'
    <3>1. \A i \in 1 .. replayed : i \in DOMAIN produced
      BY <1>12 DEF PayloadInv
    <3> QED
      BY <1>1, <1>12, <3>1 DEF PayloadInv, FollowerMissesNothing
  <2> QED
    BY <2>1, <2>2
<1>15. replayed' \in Nat /\ replayed' <= Len(produced')
  BY <1>1, <1>12 DEF PayloadInv
<1> QED
  BY <1>1, <1>10, <1>11, <1>12, <1>14, <1>15 DEF PayloadInv

\* Every step keeps the invariant.
LEMMA PayloadKept == ASSUME PayloadInv, [PayloadNext]_payloadVars PROVE PayloadInv'
<1>1. CASE UNCHANGED payloadVars
  BY <1>1 DEF payloadVars, PayloadInv, BlockIsOfMode, FollowerMissesNothing, LossHasACause
<1>2. ASSUME NEW item \in Offered, OfferItem(item) PROVE PayloadInv'
  <2>1. waiting' \in Seq(Offered)
    BY <1>2 DEF PayloadInv, OfferItem
  <2> QED
    BY <1>2, <2>1 DEF OfferItem, PayloadInv, BlockIsOfMode, FollowerMissesNothing, LossHasACause
<1>3. ASSUME NEW c \in PayloadCerts, AcceptCert(c) PROVE PayloadInv'
  <2>1. certPool' \in SUBSET PayloadCerts /\ IsFiniteSet(certPool')
    BY <1>3, FS_AddElement DEF PayloadInv, AcceptCert
  <2>2. (\A d, e \in certPool : d # e => CertVersions[d] \cap CertVersions[e] = {})'
    BY <1>3 DEF PayloadInv, AcceptCert
  <2> QED
    BY <1>3, <2>1, <2>2 DEF AcceptCert, PayloadInv, BlockIsOfMode, FollowerMissesNothing, LossHasACause
<1>4. CASE FollowerApply
  <2> DEFINE block == produced[replayed + 1]
  <2>1. /\ replayed < Len(produced) /\ replayed' = replayed + 1 /\ block.da = TransactionBlob(block.txs)
        /\ UNCHANGED <<payloadMode, rlvrActive, waiting, certPool, produced, dropped>>
    BY <1>4 DEF FollowerApply, ApplyMode, ReadPayload, ReplayAccepts
  <2>2. Len(produced) \in Nat /\ DOMAIN produced = 1 .. Len(produced) /\ replayed \in Nat
    BY DEF PayloadInv
  <2>3. replayed + 1 \in DOMAIN produced /\ replayed' \in Nat /\ replayed' <= Len(produced')
    BY <2>1, <2>2
  <2>4. BlockIsOfMode(block)
    BY <2>3 DEF PayloadInv
  <2>5. block.payload.items = block.txs
    <3> HIDE DEF block
    <3> QED
      BY <2>1, <2>4 DEF BlockIsOfMode, TransactionBlob
  <2>6. FollowerMissesNothing'
    <3>1. \A i \in 1 .. replayed + 1 : i \in 1 .. replayed \/ i = replayed + 1
      BY <2>2
    <3> QED
      BY <2>1, <2>5, <3>1 DEF PayloadInv, FollowerMissesNothing
  <2> QED
    BY <2>1, <2>3, <2>6 DEF PayloadInv, BlockIsOfMode, LossHasACause
<1> QED
  BY <1>1, <1>2, <1>3, <1>4, TickKeeps DEF PayloadNext

\* The four parts of the property follow.
LEMMA PayloadFollows == PayloadInv => PayloadSafe
<1> SUFFICES ASSUME PayloadInv PROVE PayloadSafe
  OBVIOUS
<1>1. HeaderBindsPayload
  BY DEF PayloadInv, HeaderBindsPayload, VerifyZoneBlob, BlockIsOfMode
<1>2. NoDoubleEffect
  <2> SUFFICES ASSUME NEW i \in DOMAIN produced, NEW j \in DOMAIN produced,
                      NEW k \in DOMAIN produced[i].payload.items, produced[i].payload.items[k].kind = "batch",
                      NEW m \in DOMAIN produced[i].payload.items[k].members,
                      Contains(produced[j].txs, Item("tx", CertTx[produced[i].payload.items[k].members[m]]))
               PROVE  TxClass[CertTx[produced[i].payload.items[k].members[m]]] = "commitment"
    BY DEF NoDoubleEffect
  <2> DEFINE c == produced[i].payload.items[k].members[m]
  <2>1. BlockIsOfMode(produced[i]) /\ BlockIsOfMode(produced[j])
    BY DEF PayloadInv
  <2>2. payloadMode # "legacy" /\ c \in PayloadCerts
    <3>1. payloadMode # "legacy" /\ produced[i].payload.items[k].members \in Seq(PayloadCerts)
      BY <2>1 DEF BlockIsOfMode
    <3> QED
      BY <3>1
  <2> HIDE DEF c
  <2>3. TxClass[CertTx[c]] \in {"owned", "commitment"}
    BY <2>2, PayloadAssumption
  <2>4. PICK n \in 1 .. Len(produced[j].txs) : produced[j].txs[n] = Item("tx", CertTx[c])
    BY DEF Contains, c
  <2>5. n \in DOMAIN produced[j].txs
    BY <2>1, <2>4 DEF BlockIsOfMode
  <2>6. TxClass[produced[j].txs[n].members[1]] # "owned"
    BY <2>1, <2>2, <2>5 DEF BlockIsOfMode
  <2> QED
    BY <2>3, <2>4, <2>6 DEF Item, c
<1> QED
  BY <1>1, <1>2 DEF PayloadInv, PayloadSafe

\* The payload modes keep their promise for every mempool, proof pool and
\* certificate pool: headers tell payloads apart, no transaction but a
\* proof commitment takes effect through a certificate and the mempool, a
\* follower that accepts a block has all its effects, and a tick loses what it drained only with a
\* transaction that fails (try_produce_one_tick, apply_synced_block).
THEOREM PayloadsAreSafe == PayloadSpec => []PayloadSafe
<1>1. PayloadInit => PayloadInv
  BY PayloadStart
<1>2. PayloadInv /\ [PayloadNext]_payloadVars => PayloadInv'
  BY PayloadKept
<1> QED
  BY <1>1, <1>2, PayloadFollows, PTL DEF PayloadSpec

-----------------------------------------------------------------------------
(* Checkpoints *)

\* A range that the condenser accepts is a segment of one fork.
LEMMA AcceptedIsOneChain ==
  ASSUME NEW n \in Nat \ {0}, NEW blocks \in [1 .. n -> Copies], RangeAccepted(blocks)
  PROVE  \E c \in Forks : \E a \in 1 .. Len(c) : \E b \in a .. Len(c) : blocks = SubSeq(c, a, b)
<1>1. Len(blocks) = n /\ blocks \in Seq(Copies) /\ DOMAIN blocks = 1 .. n
  BY SeqDef
<1>2. n \in 1 .. n /\ blocks[n] \in Copies
  OBVIOUS
<1>3. PICK c \in Forks : \E j \in DOMAIN c : BlockHash(c[j]) = BlockHash(blocks[n])
  BY <1>2, ChainAssumption
<1>4. PICK j \in DOMAIN c : BlockHash(c[j]) = BlockHash(blocks[n])
  BY <1>3
<1>5. /\ Len(c) \in Nat /\ DOMAIN c = 1 .. Len(c)
      /\ \A i \in DOMAIN c : IsBlock(c[i]) /\ c[i].txRoot = c[i].txs
      /\ \A i \in 1 .. (Len(c) - 1) : c[i + 1].parent = BlockHash(c[i])
      /\ \A b \in Copies : c[1].parent # BlockHash(b)
  BY ChainAssumption DEF Follows
<1>6. /\ \A i \in 1 .. n : IsBlock(blocks[i]) /\ blocks[i].txRoot = blocks[i].txs /\ blocks[i] \in Copies
      /\ \A i \in 1 .. (n - 1) : blocks[i + 1].parent = BlockHash(blocks[i])
  BY <1>1, ChainAssumption DEF RangeAccepted, Follows
<1>7. \A i \in 1 .. n, k \in DOMAIN c : BlockHash(c[k]) = BlockHash(blocks[i]) => c[k] = blocks[i]
  BY <1>5, <1>6 DEF IsBlock, BlockHash
<1> DEFINE P == {t \in 0 .. n - 1 : j - t >= 1 /\ blocks[n - t] = c[j - t]}
<1>8. 0 \in P
  BY <1>4, <1>5, <1>7
<1>9. ASSUME NEW t \in 1 .. n - 1, t - 1 \in P PROVE t \in P
  <2>1. n - t \in 1 .. (n - 1) /\ n - t + 1 = n - (t - 1) /\ j - (t - 1) >= 1 /\ j \in 1 .. Len(c)
    BY <1>5, <1>9
  <2>2. blocks[n - (t - 1)] = c[j - (t - 1)]
    BY <1>9
  <2>3. c[j - (t - 1)].parent = BlockHash(blocks[n - t])
    BY <1>6, <2>1, <2>2
  <2>4. j - (t - 1) # 1
    BY <1>5, <1>6, <2>1, <2>3
  <2>5. j - t \in 1 .. (Len(c) - 1) /\ j - t + 1 = j - (t - 1) /\ j - t \in DOMAIN c
    BY <1>5, <2>1, <2>4
  <2>6. BlockHash(c[j - t]) = BlockHash(blocks[n - t])
    BY <1>5, <2>3, <2>5
  <2>7. blocks[n - t] = c[j - t]
    BY <1>7, <2>1, <2>5, <2>6
  <2> QED
    BY <2>5, <2>7
<1>10. 0 .. n - 1 \subseteq P
  <2>1. n - 1 \in Nat
    OBVIOUS
  <2> HIDE DEF P
  <2> QED
    BY <1>8, <1>9, <2>1, PrefixInduction
<1> DEFINE a == j - (n - 1)
<1>11. a \in 1 .. Len(c) /\ j \in a .. Len(c)
  BY <1>5, <1>10
<1>12. \A i \in 1 .. n : blocks[i] = c[a + i - 1]
  <2> SUFFICES ASSUME NEW i \in 1 .. n PROVE blocks[i] = c[a + i - 1]
    OBVIOUS
  <2>1. n - i \in 0 .. n - 1 /\ n - (n - i) = i /\ j - (n - i) = a + i - 1
    BY <1>5
  <2> QED
    BY <1>10, <2>1
<1>13. blocks = SubSeq(c, a, j)
  <2>1. j - a + 1 = n /\ a <= j + 1
    BY <1>5
  <2>2. c \in Seq(ToSet(c))
    BY ChainAssumption
  <2> HIDE DEF a
  <2>3. /\ SubSeq(c, a, j) \in Seq(ToSet(c)) /\ Len(SubSeq(c, a, j)) = n
        /\ \A i \in 1 .. n : SubSeq(c, a, j)[i] = c[a + i - 1]
    <3>1. a \in Int /\ j \in Int /\ a <= j /\ j - a + 1 = n
      BY <1>5, <1>11, <2>1
    <3>2. \A i \in a .. j : c[i] \in ToSet(c)
      BY <1>5, <1>11 DEF ToSet
    <3> QED
      BY <3>1, <3>2, SubSeqProperties
  <2> DEFINE q == SubSeq(c, a, j)
  <2>4. q \in Seq(ToSet(c)) /\ Len(q) = n /\ \A i \in 1 .. n : q[i] = blocks[i]
    BY <1>12, <2>3
  <2> HIDE DEF q
  <2>5. DOMAIN q = 1 .. n /\ q = [i \in 1 .. n |-> q[i]]
    BY <2>4
  <2>6. q = blocks
    BY <1>1, <2>4, <2>5
  <2> QED
    BY <2>6 DEF q
<1> QED
  BY <1>11, <1>13

\* The job under way: the last one taken, and recorded before its digest goes out.
UnderWay(now, sunk, taken, sent, records) ==
  \/ now = <<>> /\ sunk = taken
  \/ \E job, step, rec :
       /\ now = <<[job |-> job, step |-> step, rec |-> rec]>>
       /\ rec = [start |-> rec.start, end |-> rec.end, header |-> rec.header, stub |-> rec.stub, digest |-> rec.digest]
       /\ sunk + 1 = taken /\ job = sent[taken].job
       /\ step = "send" /\ rec.digest # NoDigest =>
            job.end \in DOMAIN records /\ records[job.end].digest = rec.digest

JobUnderWay == UnderWay(condensing, Len(digestSink), jobsTaken, jobsSent, proofRecords)

\* A round as it was sealed.
RoundIsSealed(r) ==
  /\ r.root = GlobalRoot(r.anchors) /\ SubmissionsValid(r.proofs, r.anchors)
  /\ \/ r.proofs = <<>> /\ r.zk = ZeroRoot /\ r.bundle = <<>>
     \/ /\ r.proofs # <<>>
        /\ \E verified :
             /\ r.zk = StatementDigest(r.height, r.root, r.proofs, verified)
             /\ r.bundle = <<[height |-> r.height, root |-> r.root, zk |-> r.zk, proofs |-> r.proofs,
                              verified |-> verified, snark |-> [public |-> r.zk]]>>
  /\ r = [height |-> r.height, anchors |-> r.anchors, proofs |-> r.proofs, root |-> r.root, zk |-> r.zk,
          bundle |-> r.bundle]

CheckpointInv ==
  /\ \E B : jobsSent \in Seq(B)
  /\ \E B : digestSink \in Seq(B)
  /\ \E B : sealedRounds \in Seq(B)
  /\ jobsTaken \in Nat /\ jobsTaken <= Len(jobsSent)
  /\ JobUnderWay /\ RangeIsOneChain /\ SinkIsRecorded
  /\ \A i \in DOMAIN sealedRounds : RoundIsSealed(sealedRounds[i])
  /\ HeadIsOneRound

\* The start.
LEMMA CheckpointStart == ASSUME CheckpointInit PROVE CheckpointInv
<1>1. /\ jobsSent \in Seq({}) /\ digestSink \in Seq({}) /\ sealedRounds \in Seq({})
      /\ Len(jobsSent) = 0 /\ Len(digestSink) = 0 /\ DOMAIN digestSink = {} /\ DOMAIN jobsSent = {} /\ DOMAIN sealedRounds = {}
  BY DEF CheckpointInit
<1>2. jobsTaken = 0 /\ condensing = <<>> /\ clientHead.verified = FALSE
  BY DEF CheckpointInit, NoHead
<1> QED
  BY <1>1, <1>2 DEF CheckpointInv, JobUnderWay, UnderWay, RangeIsOneChain, SinkIsRecorded, HeadIsOneRound

\* Lengths and domains.
LEMMA CheckpointLengths ==
  ASSUME CheckpointInv
  PROVE  /\ Len(jobsSent) \in Nat /\ DOMAIN jobsSent = 1 .. Len(jobsSent)
         /\ Len(digestSink) \in Nat /\ DOMAIN digestSink = 1 .. Len(digestSink)
         /\ Len(sealedRounds) \in Nat /\ DOMAIN sealedRounds = 1 .. Len(sealedRounds)
BY DEF CheckpointInv

\* What an element put at the end of a sequence leaves as it was.
LEMMA Appended ==
  ASSUME NEW s, \E B : s \in Seq(B), NEW x, NEW t, t = Append(s, x)
  PROVE  /\ \E B : t \in Seq(B)
         /\ Len(s) \in Nat /\ Len(t) = Len(s) + 1 /\ t[Len(t)] = x
         /\ DOMAIN s = 1 .. Len(s) /\ DOMAIN t = 1 .. Len(t)
         /\ \A i \in DOMAIN s : i \in DOMAIN t /\ t[i] = s[i]
         /\ \A i \in DOMAIN t : i \in DOMAIN s \/ i = Len(t)
<1>1. PICK B : s \in Seq(B)
  OBVIOUS
<1>2. s \in Seq(B \cup {x})
  BY <1>1
<1>3. t \in Seq(B \cup {x})
  BY <1>2
<1> QED
  BY <1>2, <1>3

\* The steps of the condenser.
LEMMA SendJobKeeps ==
  ASSUME CheckpointInv, NEW n \in 1 .. MaxCheckpointRange, NEW blocks \in [1 .. n -> Copies], SendJob(blocks)
  PROVE  CheckpointInv'
<1> DEFINE x == [job |-> CheckpointJob(blocks), blocks |-> blocks]
<1>1. /\ jobsSent' = Append(jobsSent, x) /\ RangeAccepted(blocks)
      /\ UNCHANGED <<jobsTaken, condensing, proofRecords, digestSink, sealedRounds, clientHead>>
  BY DEF SendJob, ClientUnchanged
<1>2. x.blocks = blocks /\ n \in Nat \ {0}
  BY CheckpointAssumption
<1> HIDE DEF x
<1>3. /\ \E B : jobsSent' \in Seq(B)
      /\ Len(jobsSent) \in Nat /\ Len(jobsSent') = Len(jobsSent) + 1 /\ jobsSent'[Len(jobsSent')] = x
      /\ DOMAIN jobsSent = 1 .. Len(jobsSent)
      /\ \A i \in DOMAIN jobsSent : i \in DOMAIN jobsSent' /\ jobsSent'[i] = jobsSent[i]
      /\ \A i \in DOMAIN jobsSent' : i \in DOMAIN jobsSent \/ i = Len(jobsSent')
  <2>1. \E B : jobsSent \in Seq(B)
    BY DEF CheckpointInv
  <2>2. jobsSent' = Append(jobsSent, x)
    BY <1>1
  <2> QED
    BY <2>1, <2>2, Appended
<1>4. RangeIsOneChain'
  <2>1. \E c \in Forks : \E a \in 1 .. Len(c) : \E b \in a .. Len(c) : x.blocks = SubSeq(c, a, b)
    BY <1>1, <1>2, AcceptedIsOneChain
  <2>2. \A i \in DOMAIN jobsSent' : jobsSent'[i] = x \/ (i \in DOMAIN jobsSent /\ jobsSent'[i] = jobsSent[i])
    BY <1>3
  <2> QED
    BY <2>1, <2>2 DEF CheckpointInv, RangeIsOneChain
<1>5. jobsTaken \in Nat /\ \A i \in 1 .. jobsTaken : i \in DOMAIN jobsSent
  BY <1>3 DEF CheckpointInv
<1>6. Len(digestSink) \in Nat /\ DOMAIN digestSink = 1 .. Len(digestSink) /\ Len(digestSink) <= jobsTaken
  BY CheckpointLengths DEF CheckpointInv, SinkIsRecorded
<1>7. SinkIsRecorded'
  <2>1. \A i \in DOMAIN digestSink : i \in 1 .. jobsTaken /\ jobsSent'[i] = jobsSent[i]
    BY <1>3, <1>5, <1>6
  <2>2. \A i \in DOMAIN digestSink : \A k \in (i + 1) .. jobsTaken : jobsSent'[k] = jobsSent[k]
    BY <1>3, <1>5, <1>6
  <2> QED
    BY <1>1, <2>1, <2>2 DEF CheckpointInv, SinkIsRecorded
<1>8. JobUnderWay'
  <2>1. jobsTaken # 0 => jobsSent'[jobsTaken] = jobsSent[jobsTaken]
    BY <1>3, <1>5
  <2>2. Len(digestSink) + 1 = jobsTaken => jobsTaken # 0
    BY <1>6
  <2> QED
    BY <1>1, <2>1, <2>2 DEF CheckpointInv, JobUnderWay, UnderWay
<1>9. jobsTaken' <= Len(jobsSent')
  BY <1>1, <1>3 DEF CheckpointInv
<1> QED
  BY <1>1, <1>3, <1>4, <1>7, <1>8, <1>9 DEF CheckpointInv, RoundIsSealed, HeadIsOneRound

LEMMA TakeJobKeeps == ASSUME CheckpointInv, NEW proved \in BOOLEAN, TakeJob(proved) PROVE CheckpointInv'
<1> DEFINE job == jobsSent[jobsTaken + 1].job
           rec == RecordFor(job, proved)
<1>1. /\ condensing = <<>> /\ jobsTaken < Len(jobsSent) /\ jobsTaken' = jobsTaken + 1
      /\ condensing' = <<[job |-> job, step |-> "record", rec |-> rec]>>
      /\ UNCHANGED <<jobsSent, proofRecords, digestSink, sealedRounds, clientHead>>
  BY DEF TakeJob, ClientUnchanged
<1>2. rec = [start |-> rec.start, end |-> rec.end, header |-> rec.header, stub |-> rec.stub, digest |-> rec.digest]
  BY DEF RecordFor
<1>3. Len(digestSink) = jobsTaken /\ jobsTaken \in Nat /\ Len(digestSink) \in Nat /\ Len(jobsSent) \in Nat
  BY <1>1, CheckpointLengths DEF CheckpointInv, JobUnderWay, UnderWay
<1>4. JobUnderWay'
  <2>1. Len(digestSink') + 1 = jobsTaken' /\ job = jobsSent'[jobsTaken'].job
    BY <1>1, <1>3
  <2> HIDE DEF job, rec
  <2> SUFFICES \E j, step, r :
                 /\ condensing' = <<[job |-> j, step |-> step, rec |-> r]>>
                 /\ r = [start |-> r.start, end |-> r.end, header |-> r.header, stub |-> r.stub, digest |-> r.digest]
                 /\ Len(digestSink') + 1 = jobsTaken' /\ j = jobsSent'[jobsTaken'].job
                 /\ step = "send" /\ r.digest # NoDigest =>
                      j.end \in DOMAIN proofRecords' /\ proofRecords'[j.end].digest = r.digest
    BY DEF JobUnderWay, UnderWay
  <2> WITNESS job, "record", rec
  <2> QED
    BY <1>1, <1>2, <2>1
<1>5. SinkIsRecorded'
  <2>1. \A i \in DOMAIN digestSink : (i + 1) .. jobsTaken \subseteq (i + 1) .. jobsTaken'
    BY <1>1, <1>3, CheckpointLengths
  <2>2. Len(digestSink') <= jobsTaken'
    BY <1>1, <1>3
  <2> QED
    BY <1>1, <2>1, <2>2 DEF CheckpointInv, SinkIsRecorded
<1>6. jobsTaken' \in Nat /\ jobsTaken' <= Len(jobsSent')
  BY <1>1, <1>3
<1> QED
  BY <1>1, <1>4, <1>5, <1>6 DEF CheckpointInv, RangeIsOneChain, RoundIsSealed, HeadIsOneRound

LEMMA RecordKeeps == ASSUME CheckpointInv, RecordProof PROVE CheckpointInv'
<1>1. PICK job, step, rec :
        /\ condensing = <<[job |-> job, step |-> step, rec |-> rec]>>
        /\ rec = [start |-> rec.start, end |-> rec.end, header |-> rec.header, stub |-> rec.stub, digest |-> rec.digest]
        /\ Len(digestSink) + 1 = jobsTaken /\ job = jobsSent[jobsTaken].job
  BY DEF CheckpointInv, JobUnderWay, UnderWay, RecordProof
<1>2. /\ proofRecords' = Put(proofRecords, job.end, rec)
      /\ condensing' = <<[job |-> job, step |-> "send", rec |-> rec]>>
      /\ UNCHANGED <<jobsSent, jobsTaken, digestSink, sealedRounds, clientHead>>
  BY <1>1 DEF RecordProof, ClientUnchanged
<1>3. /\ job.end \in DOMAIN proofRecords' /\ proofRecords'[job.end] = rec
      /\ \A e \in DOMAIN proofRecords : e \in DOMAIN proofRecords' /\ (e # job.end => proofRecords'[e] = proofRecords[e])
  BY <1>2 DEF Put
<1>4. JobUnderWay'
  BY <1>1, <1>2, <1>3 DEF JobUnderWay, UnderWay
<1>5. SinkIsRecorded'
  <2>1. \A i \in DOMAIN digestSink : jobsTaken \in (i + 1) .. jobsTaken
    BY <1>1, CheckpointLengths DEF CheckpointInv
  <2> SUFFICES ASSUME NEW i \in DOMAIN digestSink, digestSink[i].digest # NoDigest
               PROVE  /\ digestSink[i].job.end \in DOMAIN proofRecords'
                      /\ \/ proofRecords'[digestSink[i].job.end].digest = digestSink[i].digest
                         \/ \E j \in (i + 1) .. jobsTaken : jobsSent[j].job.end = digestSink[i].job.end
    BY <1>2 DEF CheckpointInv, SinkIsRecorded
  <2>2. CASE digestSink[i].job.end = job.end
    BY <1>1, <1>3, <2>1, <2>2
  <2>3. CASE digestSink[i].job.end # job.end
    BY <1>3, <2>3 DEF CheckpointInv, SinkIsRecorded
  <2> QED
    BY <2>2, <2>3
<1> QED
  BY <1>2, <1>4, <1>5 DEF CheckpointInv, RangeIsOneChain, RoundIsSealed, HeadIsOneRound

LEMMA JoinKeeps == ASSUME CheckpointInv, JoinFails PROVE CheckpointInv'
<1>1. PICK job, step, rec :
        /\ condensing = <<[job |-> job, step |-> step, rec |-> rec]>>
        /\ rec = [start |-> rec.start, end |-> rec.end, header |-> rec.header, stub |-> rec.stub, digest |-> rec.digest]
        /\ Len(digestSink) + 1 = jobsTaken /\ job = jobsSent[jobsTaken].job
  BY DEF CheckpointInv, JobUnderWay, UnderWay, JoinFails
<1> DEFINE zero == [start |-> rec.start, end |-> rec.end, header |-> rec.header, stub |-> rec.stub, digest |-> NoDigest]
<1>2. UNCHANGED <<jobsSent, jobsTaken, proofRecords, digestSink, sealedRounds, clientHead>>
  BY DEF JoinFails, ClientUnchanged
<1>3. condensing' = <<[job |-> job, step |-> "send", rec |-> zero]>>
  <2>1. condensing' = <<[job |-> condensing[1].job, step |-> "send", rec |-> [condensing[1].rec EXCEPT !.digest = NoDigest]]>>
    BY DEF JoinFails
  <2>2. condensing[1].job = job /\ condensing[1].rec = rec
    BY <1>1
  <2>3. [rec EXCEPT !.digest = NoDigest] = zero
    BY <1>1
  <2> HIDE DEF zero
  <2> QED
    BY <2>1, <2>2, <2>3
<1>4. JobUnderWay'
  <2>1. zero.digest = NoDigest /\ zero = [start |-> zero.start, end |-> zero.end, header |-> zero.header,
                                          stub |-> zero.stub, digest |-> zero.digest]
    OBVIOUS
  <2> HIDE DEF zero
  <2> QED
    BY <1>1, <1>2, <1>3, <2>1 DEF JobUnderWay, UnderWay
<1> QED
  BY <1>2, <1>4 DEF CheckpointInv, RangeIsOneChain, SinkIsRecorded, RoundIsSealed, HeadIsOneRound

LEMMA SendDigestKeeps == ASSUME CheckpointInv, SendDigest PROVE CheckpointInv'
<1>1. PICK job, step, rec :
        /\ condensing = <<[job |-> job, step |-> step, rec |-> rec]>>
        /\ Len(digestSink) + 1 = jobsTaken /\ job = jobsSent[jobsTaken].job
        /\ step = "send" /\ rec.digest # NoDigest =>
             job.end \in DOMAIN proofRecords /\ proofRecords[job.end].digest = rec.digest
  BY DEF CheckpointInv, JobUnderWay, UnderWay, SendDigest
<1> DEFINE x == [job |-> job, digest |-> rec.digest]
<1>2. /\ digestSink' = Append(digestSink, x) /\ step = "send" /\ condensing' = <<>>
      /\ UNCHANGED <<jobsSent, jobsTaken, proofRecords, sealedRounds, clientHead>>
  BY <1>1 DEF SendDigest, ClientUnchanged
<1>3. x.job = job /\ x.digest = rec.digest
  OBVIOUS
<1> HIDE DEF x
<1>4. /\ \E B : digestSink' \in Seq(B)
      /\ Len(digestSink) \in Nat /\ Len(digestSink') = Len(digestSink) + 1 /\ digestSink'[Len(digestSink')] = x
      /\ \A i \in DOMAIN digestSink : i \in DOMAIN digestSink' /\ digestSink'[i] = digestSink[i]
      /\ \A i \in DOMAIN digestSink' : i \in DOMAIN digestSink \/ i = Len(digestSink')
  <2>1. \E B : digestSink \in Seq(B)
    BY DEF CheckpointInv
  <2> QED
    BY <1>2, <2>1, Appended
<1>5. Len(digestSink') = jobsTaken /\ jobsTaken \in Nat
  BY <1>1, <1>4 DEF CheckpointInv
<1>6. JobUnderWay'
  BY <1>2, <1>5 DEF JobUnderWay, UnderWay
<1>7. SinkIsRecorded'
  <2>1. Len(digestSink') <= jobsTaken'
    BY <1>2, <1>5
  <2>2. ASSUME NEW i \in DOMAIN digestSink'
        PROVE  /\ digestSink'[i].job = jobsSent[i].job
               /\ digestSink'[i].digest # NoDigest =>
                    /\ digestSink'[i].job.end \in DOMAIN proofRecords
                    /\ \/ proofRecords[digestSink'[i].job.end].digest = digestSink'[i].digest
                       \/ \E j \in (i + 1) .. jobsTaken : jobsSent[j].job.end = digestSink'[i].job.end
    <3>1. CASE i \in DOMAIN digestSink
      BY <1>4, <3>1 DEF CheckpointInv, SinkIsRecorded
    <3>2. CASE i = Len(digestSink')
      BY <1>1, <1>2, <1>3, <1>4, <1>5, <3>2
    <3> QED
      BY <1>4, <3>1, <3>2
  <2> QED
    BY <1>2, <2>1, <2>2 DEF SinkIsRecorded
<1> QED
  BY <1>2, <1>4, <1>6, <1>7 DEF CheckpointInv, RangeIsOneChain, RoundIsSealed, HeadIsOneRound

\* The steps of the masterchain and of the light client leave the condenser alone.
LEMMA CondenserIdle == ASSUME CheckpointInv, CondenserUnchanged PROVE JobUnderWay' /\ RangeIsOneChain' /\ SinkIsRecorded'
<1>1. UNCHANGED <<jobsSent, jobsTaken, condensing, proofRecords, digestSink>>
  BY DEF CondenserUnchanged
<1>2. JobUnderWay'
  BY <1>1 DEF CheckpointInv, JobUnderWay
<1>3. RangeIsOneChain'
  BY <1>1 DEF CheckpointInv, RangeIsOneChain
<1>4. SinkIsRecorded'
  BY <1>1 DEF CheckpointInv, SinkIsRecorded
<1> QED
  BY <1>2, <1>3, <1>4

LEMMA SealKeeps ==
  ASSUME CheckpointInv, NEW anchors, NEW subs, NEW verified, SealProofs(anchors, subs, verified)
  PROVE  CheckpointInv'
<1> DEFINE r == SealedRound(Len(sealedRounds) + 1, anchors, subs, verified)
<1>1. /\ sealedRounds' = Append(sealedRounds, r) /\ SubmissionsValid(subs, anchors)
      /\ UNCHANGED <<jobsSent, jobsTaken, condensing, proofRecords, digestSink, clientHead>>
  BY DEF SealProofs, CondenserUnchanged
<1>2. RoundIsSealed(r)
  <2> DEFINE h == Len(sealedRounds) + 1
             root == GlobalRoot(anchors)
             zk == IF subs = <<>> THEN ZeroRoot ELSE StatementDigest(h, root, subs, verified)
             bundle == IF subs = <<>> THEN <<>>
                       ELSE <<[height |-> h, root |-> root, zk |-> zk, proofs |-> subs, verified |-> verified,
                               snark |-> AggregateProof(h, root, subs, verified)]>>
  <2>1. r = [height |-> h, anchors |-> anchors, proofs |-> subs, root |-> root, zk |-> zk, bundle |-> bundle]
    BY DEF SealedRound
  <2>2. subs # <<>> => AggregateProof(h, root, subs, verified) = [public |-> zk]
    BY DEF AggregateProof
  <2>3. subs # <<>> => /\ zk = StatementDigest(h, root, subs, verified)
                       /\ bundle = <<[height |-> h, root |-> root, zk |-> zk, proofs |-> subs, verified |-> verified,
                                      snark |-> [public |-> zk]]>>
    <3> HIDE DEF h, root
    <3> QED
      BY <2>2
  <2>4. root = GlobalRoot(anchors) /\ (subs = <<>> => zk = ZeroRoot /\ bundle = <<>>)
    OBVIOUS
  <2> HIDE DEF h, root, zk, bundle, r
  <2>5. /\ r.height = h /\ r.anchors = anchors /\ r.proofs = subs /\ r.root = root /\ r.zk = zk /\ r.bundle = bundle
        /\ r = [height |-> r.height, anchors |-> r.anchors, proofs |-> r.proofs, root |-> r.root, zk |-> r.zk,
                bundle |-> r.bundle]
    BY <2>1
  <2> QED
    BY <1>1, <2>3, <2>4, <2>5 DEF RoundIsSealed
<1> HIDE DEF r
<1>3. /\ \E B : sealedRounds' \in Seq(B)
      /\ \A i \in DOMAIN sealedRounds : i \in DOMAIN sealedRounds' /\ sealedRounds'[i] = sealedRounds[i]
      /\ \A i \in DOMAIN sealedRounds' : i \in DOMAIN sealedRounds \/ sealedRounds'[i] = r
  <2>1. \E B : sealedRounds \in Seq(B)
    BY DEF CheckpointInv
  <2>2. sealedRounds' = Append(sealedRounds, r)
    BY <1>1
  <2> QED
    BY <2>1, <2>2, Appended
<1>4. \A i \in DOMAIN sealedRounds' : RoundIsSealed(sealedRounds'[i])
  BY <1>2, <1>3 DEF CheckpointInv
<1>5. HeadIsOneRound'
  BY <1>1, <1>3 DEF CheckpointInv, HeadIsOneRound
<1>6. JobUnderWay' /\ RangeIsOneChain' /\ SinkIsRecorded'
  BY <1>1, CondenserIdle DEF CondenserUnchanged
<1>7. (\A i \in DOMAIN sealedRounds : RoundIsSealed(sealedRounds[i]))'
  BY <1>4 DEF RoundIsSealed
<1> QED
  BY <1>1, <1>3, <1>5, <1>6, <1>7 DEF CheckpointInv

\* What the client reads of a bundle.
ReadBundle(bundle) == [i \in DOMAIN bundle |-> [bundle[i] EXCEPT !.verified = <<>>]]

\* A round that has proofs, as the client reads its bundle.
LEMMA BundleRead ==
  ASSUME NEW r, RoundIsSealed(r)
  PROVE  \/ r.proofs = <<>> /\ r.zk = ZeroRoot /\ r.bundle = <<>> /\ ReadBundle(r.bundle) = <<>>
         \/ /\ ReadBundle(r.bundle) = <<[height |-> r.height, root |-> r.root, zk |-> r.zk, proofs |-> r.proofs,
                                        verified |-> <<>>, snark |-> [public |-> r.zk]]>>
            /\ r.proofs # <<>> /\ r.bundle # <<>>
            /\ r.bundle[1].verified = <<>> => r.zk = StatementDigest(r.height, r.root, r.proofs, <<>>)
<1>1. CASE r.bundle = <<>> /\ r.proofs = <<>> /\ r.zk = ZeroRoot
  BY <1>1 DEF ReadBundle
<1>2. CASE ~(r.bundle = <<>> /\ r.proofs = <<>> /\ r.zk = ZeroRoot)
  <2>1. r.proofs # <<>> /\ \E verified :
             /\ r.zk = StatementDigest(r.height, r.root, r.proofs, verified)
             /\ r.bundle = <<[height |-> r.height, root |-> r.root, zk |-> r.zk, proofs |-> r.proofs,
                              verified |-> verified, snark |-> [public |-> r.zk]]>>
    BY <1>2 DEF RoundIsSealed
  <2>2. PICK verified :
             /\ r.zk = StatementDigest(r.height, r.root, r.proofs, verified)
             /\ r.bundle = <<[height |-> r.height, root |-> r.root, zk |-> r.zk, proofs |-> r.proofs,
                              verified |-> verified, snark |-> [public |-> r.zk]]>>
    BY <2>1
  <2> DEFINE b == [height |-> r.height, root |-> r.root, zk |-> r.zk, proofs |-> r.proofs,
                   verified |-> verified, snark |-> [public |-> r.zk]]
             d == [height |-> r.height, root |-> r.root, zk |-> r.zk, proofs |-> r.proofs,
                   verified |-> <<>>, snark |-> [public |-> r.zk]]
  <2>3. [b EXCEPT !.verified = <<>>] = d /\ b.verified = verified
    OBVIOUS
  <2>4. r.bundle = <<b>>
    BY <2>2
  <2> HIDE DEF b, d
  <2>5. DOMAIN r.bundle = {1} /\ r.bundle[1] = b /\ r.bundle # <<>>
    BY <2>4
  <2>6. ReadBundle(r.bundle) = <<d>>
    BY <2>3, <2>5 DEF ReadBundle
  <2> QED
    BY <2>1, <2>2, <2>3, <2>5, <2>6 DEF d
<1> QED
  BY <1>1, <1>2

LEMMA FetchKeeps ==
  ASSUME CheckpointInv, NEW a \in DOMAIN sealedRounds, NEW b \in DOMAIN sealedRounds, NEW c \in DOMAIN sealedRounds,
         NEW d \in DOMAIN sealedRounds, NEW e \in DOMAIN sealedRounds, FetchHead(a, b, c, d, e)
  PROVE  CheckpointInv'
<1> DEFINE r == sealedRounds
           head == ParsedHead([height |-> r[a].height, anchors |-> r[b].anchors, root |-> r[b].root,
                               proofs |-> r[c].proofs, zk |-> r[d].zk, bundle |-> r[e].bundle])
<1>1. /\ clientHead' = [verified |-> HeadVerifies(head), head |-> <<head>>]
      /\ UNCHANGED <<jobsSent, jobsTaken, condensing, proofRecords, digestSink, sealedRounds>>
  BY DEF FetchHead, CondenserUnchanged
<1>2. /\ head.height = r[a].height /\ head.anchors = r[b].anchors /\ head.root = r[b].root
      /\ head.proofs = r[c].proofs /\ head.zk = r[d].zk /\ head.bundle = ReadBundle(r[e].bundle)
  BY DEF ParsedHead, ReadBundle
<1> HIDE DEF head
<1>3. clientHead'.verified = HeadVerifies(head) /\ clientHead'.head[1] = head
  BY <1>1
<1>4. RoundIsSealed(r[e]) /\ RoundIsSealed(r[b])
  BY DEF CheckpointInv
<1>5. ASSUME HeadVerifies(head), head.zk # ZeroRoot
      PROVE  /\ r[e].zk = head.zk /\ r[e].height = head.height /\ r[e].proofs = head.proofs
             /\ GlobalRoot(r[e].anchors) = GlobalRoot(head.anchors)
  <2>1. head.bundle # <<>> /\ BundleOfBlock(head, head.bundle[1]) /\ GlobalRoot(head.anchors) = head.root
    BY <1>5 DEF HeadVerifies, ZkRootVerifies
  <2>2. head.bundle = <<[height |-> r[e].height, root |-> r[e].root, zk |-> r[e].zk, proofs |-> r[e].proofs,
                         verified |-> <<>>, snark |-> [public |-> r[e].zk]]>>
    BY <1>2, <1>4, <2>1, BundleRead
  <2>3. /\ head.bundle[1].height = r[e].height /\ head.bundle[1].root = r[e].root /\ head.bundle[1].zk = r[e].zk
        /\ head.bundle[1].proofs = r[e].proofs
    BY <2>2
  <2>4. r[e].root = GlobalRoot(r[e].anchors)
    BY <1>4 DEF RoundIsSealed
  <2> QED
    BY <2>1, <2>3, <2>4 DEF BundleOfBlock
<1>6. HeadIsOneRound'
  <2> SUFFICES ASSUME HeadVerifies(head), head.zk # ZeroRoot
               PROVE  \E i \in DOMAIN sealedRounds :
                        /\ sealedRounds[i].zk = head.zk /\ sealedRounds[i].height = head.height
                        /\ GlobalRoot(sealedRounds[i].anchors) = GlobalRoot(head.anchors)
                        /\ sealedRounds[i].proofs = head.proofs
    BY <1>1, <1>3 DEF HeadIsOneRound
  <2> QED
    BY <1>5
<1>7. JobUnderWay' /\ RangeIsOneChain' /\ SinkIsRecorded'
  BY <1>1, CondenserIdle DEF CondenserUnchanged
<1>8. (\A i \in DOMAIN sealedRounds : RoundIsSealed(sealedRounds[i]))'
  BY <1>1 DEF CheckpointInv, RoundIsSealed
<1> QED
  BY <1>1, <1>6, <1>7, <1>8 DEF CheckpointInv

\* Every step keeps the invariant.
LEMMA CheckpointKept == ASSUME CheckpointInv, [CheckpointNext]_checkpointVars PROVE CheckpointInv'
<1>1. CASE UNCHANGED checkpointVars
  <2>1. JobUnderWay' /\ RangeIsOneChain' /\ SinkIsRecorded'
    BY <1>1, CondenserIdle DEF CondenserUnchanged, checkpointVars
  <2>2. HeadIsOneRound' /\ (\A i \in DOMAIN sealedRounds : RoundIsSealed(sealedRounds[i]))'
    BY <1>1 DEF checkpointVars, CheckpointInv, HeadIsOneRound, RoundIsSealed
  <2> QED
    BY <1>1, <2>1, <2>2 DEF checkpointVars, CheckpointInv
<1>2. ASSUME NEW n \in 1 .. MaxCheckpointRange, NEW blocks \in [1 .. n -> Copies], SendJob(blocks) PROVE CheckpointInv'
  BY <1>2, SendJobKeeps
<1>3. ASSUME NEW proved \in BOOLEAN, TakeJob(proved) PROVE CheckpointInv'
  BY <1>3, TakeJobKeeps
<1>4. ASSUME NEW anchors \in RoundAnchors, NEW r \in RoundProofs, SealProofs(anchors, r.subs, r.verified)
      PROVE  CheckpointInv'
  BY <1>4, SealKeeps
<1>5. ASSUME NEW a \in DOMAIN sealedRounds, NEW b \in DOMAIN sealedRounds, NEW c \in DOMAIN sealedRounds,
             NEW d \in DOMAIN sealedRounds, NEW e \in DOMAIN sealedRounds, FetchHead(a, b, c, d, e)
      PROVE  CheckpointInv'
  BY <1>5, FetchKeeps
<1> QED
  BY <1>1, <1>2, <1>3, <1>4, <1>5, RecordKeeps, JoinKeeps, SendDigestKeeps DEF CheckpointNext

\* However submissions and artifacts are paired, what verifies is one proof's.
LEMMA StatementsAreProved == StatementsProved
<1> SUFFICES ASSUME NEW sub, NEW artifact, NEW s, s = VerifiedStatement(sub, artifact), s # <<>>
             PROVE  s[1].digest.job.header = s[1].header /\ s[1].digest.job.parent = s[1].parent
  BY DEF StatementsProved
<1>1. /\ artifact.proof = sub.digest /\ artifact.proof.job = artifact.job
      /\ s = <<[shard |-> sub.shard, start |-> sub.start, end |-> sub.end, header |-> artifact.job.header,
                parent |-> artifact.job.parent, digest |-> sub.digest]>>
  BY DEF VerifiedStatement, ArtifactVerifies, StarkVerifies
<1>2. s[1].digest = sub.digest /\ s[1].header = artifact.job.header /\ s[1].parent = artifact.job.parent
  BY <1>1
<1> QED
  BY <1>1, <1>2

\* The head of a sealed round verifies as the client reads it, unless its
\* bundle was made of verified statements.
LEMMA HonestHeads ==
  ASSUME NEW r, RoundIsSealed(r), r.bundle = <<>> \/ r.bundle[1].verified = <<>>
  PROVE  HeadVerifies(ParsedHead(r))
<1> DEFINE h == ParsedHead(r)
<1>1. /\ h.height = r.height /\ h.anchors = r.anchors /\ h.proofs = r.proofs /\ h.root = r.root /\ h.zk = r.zk
      /\ h.bundle = ReadBundle(r.bundle)
  <2>1. r = [height |-> r.height, anchors |-> r.anchors, proofs |-> r.proofs, root |-> r.root, zk |-> r.zk,
             bundle |-> r.bundle]
    BY DEF RoundIsSealed
  <2>2. h = [r EXCEPT !.bundle = ReadBundle(r.bundle)]
    BY DEF ParsedHead, ReadBundle
  <2> HIDE DEF h
  <2> QED
    BY <2>1, <2>2
<1> HIDE DEF h
<1>2. GlobalRoot(h.anchors) = h.root /\ SubmissionsValid(h.proofs, h.anchors)
  BY <1>1 DEF RoundIsSealed
<1>3. CASE r.bundle = <<>>
  <2>1. h.bundle = <<>> /\ h.proofs = <<>> /\ h.zk = ZeroRoot
    BY <1>1, <1>3, BundleRead
  <2> QED
    BY <1>2, <2>1 DEF HeadVerifies, ZkRootVerifies, h
<1>4. CASE r.bundle # <<>>
  <2> DEFINE b == [height |-> r.height, root |-> r.root, zk |-> r.zk, proofs |-> r.proofs,
                   verified |-> <<>>, snark |-> [public |-> r.zk]]
  <2>1. h.bundle = <<b>> /\ r.proofs # <<>> /\ r.zk = StatementDigest(r.height, r.root, r.proofs, <<>>)
    BY <1>1, <1>4, BundleRead
  <2>2. /\ b.height = r.height /\ b.root = r.root /\ b.zk = r.zk /\ b.proofs = r.proofs /\ b.verified = <<>>
        /\ b.snark.public = r.zk
    OBVIOUS
  <2> HIDE DEF b
  <2>3. BundleVerifies(b)
    <3>1. <<b.snark>>[1] = b.snark
      OBVIOUS
    <3> QED
      BY <2>1, <2>2, <3>1 DEF BundleVerifies, ZkRootVerifies, SnarkVerifies
  <2>4. h.bundle # <<>> /\ h.bundle[1] = b
    BY <2>1
  <2> QED
    BY <1>1, <1>2, <2>2, <2>3, <2>4 DEF HeadVerifies, BundleOfBlock, h
<1> QED
  BY <1>3, <1>4

\* From blocks to a trusted head, whatever copies a node holds, however jobs
\* fail and whatever parts of rounds a server puts together: a proved range is
\* one chain, what reached the sink is on record, a sealed statement was
\* proved, and a client accepts the honest heads and only those of one round
\* (riscv_trace_from_blocks, the condenser's loop, verify_masterchain_block).
THEOREM CheckpointsAreSafe == CheckpointSpec => []CheckpointSafe
<1>1. CheckpointInit => CheckpointInv
  BY CheckpointStart
<1>2. CheckpointInv /\ [CheckpointNext]_checkpointVars => CheckpointInv'
  BY CheckpointKept
<1>3. CheckpointInv => CheckpointSafe
  BY StatementsAreProved, HonestHeads DEF CheckpointInv, CheckpointSafe, HonestHeadVerifies
<1> QED
  BY <1>1, <1>2, <1>3, PTL DEF CheckpointSpec

-----------------------------------------------------------------------------
(* Validity proofs of blocks *)

\* A block as it was built, and one with a proof.
BlockIsBuilt(b) ==
  /\ b.txs \in Bodies /\ b.height \in 1 .. MaxBlockHeight
  /\ b = BuildBlock(b.height, b.pre, b.txs, b.side)

BlockIsProved(b, p) ==
  /\ b.height \in 1 .. MaxBlockHeight
  /\ p.envelope.inputs = Inputs(b, p.circuit)
  /\ b.features \subseteq CoveredBy(p.circuit)

BuiltInv ==
  /\ \E B : chain \in Seq(B)
  /\ \A i \in DOMAIN chain : BlockIsBuilt(chain[i]) /\ chain[i].height = i
  /\ \A b \in orphans : BlockIsBuilt(b)

ProvedInv ==
  /\ \A b \in DOMAIN finalized : BlockIsProved(b, finalized[b])
  /\ \A b \in DOMAIN store : BlockIsProved(b, store[b])
  /\ FinalityIsDurable /\ LatestIsHighest

PoolInv ==
  /\ IsFiniteSet(DOMAIN pool)
  /\ \A k \in DOMAIN pool : pool[k] \in ProofUpdates /\ KeyOf(pool[k]) = k
  /\ \E B : included \in Seq(B)
  /\ PoolIsFair

\* The metrics are those of the records that were written.
MetricsInv ==
  /\ IsFiniteSet(DOMAIN store)
  /\ metrics.accepted \in Nat /\ Cardinality(DOMAIN store) <= metrics.accepted
  /\ metrics.height = TopHeight({0} \cup {b.height : b \in DOMAIN store})

ProofsInv == BuiltInv /\ ProvedInv /\ PoolInv /\ MetricsInv

\* A proof that no check refuses.
LEMMA PassedChecks ==
  ASSUME NEW p, FailedChecks(p) = {}
  PROVE  p.block \in Blocks /\ VerifyProof(p.block, p)
<1>1. \A i \in 1 .. 5 : ProofChecks(p)[i].holds
  BY DEF FailedChecks
<1>2. ProofChecks(p)[1].holds /\ ProofChecks(p)[5].holds
  BY <1>1
<1> QED
  BY <1>2 DEF ProofChecks

\* The highest of one height more.
LEMMA TopWith ==
  ASSUME NEW n \in Nat, NEW H \in SUBSET (0 .. n), NEW h \in 0 .. n
  PROVE  TopHeight(H \cup {h}) = LatestWith(TopHeight(H), h)
<1>1. H = {} \/ (TopHeight(H) \in H /\ \A k \in H : k <= TopHeight(H))
  <2> SUFFICES ASSUME H # {} PROVE TopHeight(H) \in H /\ \A k \in H : k <= TopHeight(H)
    OBVIOUS
  <2>1. Max(H) \in H /\ \A k \in H : k <= Max(H)
    <3>1. H \in SUBSET Nat /\ \A x \in H : x <= n
      OBVIOUS
    <3> QED
      BY <3>1, MaxIs
  <2> QED
    BY <2>1 DEF TopHeight
<1> DEFINE t == TopHeight(H)
           m == LatestWith(t, h)
<1>2. m \in H \cup {h} /\ \A k \in H \cup {h} : k <= m
  <2>1. CASE H = {}
    <3>1. t = 0 - 1 /\ h > t
      BY <2>1 DEF TopHeight
    <3> QED
      BY <2>1, <3>1 DEF LatestWith
  <2>2. CASE H # {}
    <3>1. t \in H /\ t \in 0 .. n /\ \A k \in H : k <= t
      BY <1>1, <2>2
    <3> HIDE DEF t
    <3> QED
      BY <3>1 DEF LatestWith
  <2> QED
    BY <2>1, <2>2
<1> HIDE DEF m
<1>3. \A x \in H \cup {h} : (\A k \in H \cup {h} : k <= x) <=> x = m
  BY <1>2
<1>4. TopHeight(H \cup {h}) = m
  BY <1>2, <1>3 DEF TopHeight
<1> QED
  BY <1>4 DEF m

\* What is verified is bound to its block.
LEMMA VerifiedIsProved ==
  ASSUME BuiltInv, NEW p, p.block \in Blocks, VerifyProof(p.block, p)
  PROVE  BlockIsProved(p.block, p)
<1>1. p.envelope.inputs = Inputs(p.block, p.circuit)
  BY DEF VerifyProof, EnvelopeHolds, FixtureHolds, Plonky2Holds, DevDigestHolds
<1>2. p.block.height \in 1 .. MaxBlockHeight
  BY DEF BuiltInv, Blocks, BlockIsBuilt
<1>3. p.block.features \subseteq CoveredBy(p.circuit)
  BY DEF VerifyProof
<1> QED
  BY <1>1, <1>2, <1>3 DEF BlockIsProved

\* The fixtures that a prover can make.
LEMMA ProvableIs ==
  ASSUME NEW w, NEW kind \in Fixtures, kind = "native" => NativeStatement(w),
         kind \in {"evm", "mixed"} => EvmStatement(w), kind = "mixed" => NativeComponent(w)
  PROVE  Envelope(kind, w.inputs, w) \in Provable(w)
<1> DEFINE S == {x \in Fixtures : /\ x = "native" => NativeStatement(w)
                                  /\ x \in {"evm", "mixed"} => EvmStatement(w)
                                  /\ x = "mixed" => NativeComponent(w)}
<1>1. kind \in S
  OBVIOUS
<1>2. Provable(w) = {Envelope(x, w.inputs, w) : x \in S}
  BY DEF Provable
<1> HIDE DEF S
<1> QED
  BY <1>1, <1>2

\* A block that is eligible can be proved, and the node takes the proof.
LEMMA BuiltIsProvable ==
  ASSUME NEW b \in Blocks, BlockIsBuilt(b), NEW c \in {"native", "mixed"}, Eligible(b.txs, c),
         b.height \notin EmissionHeights, b \notin DOMAIN metadata, DaHolds(b), c = "native" => NativeEnabled
  PROVE  \E w \in Replayed(b, c) : \E e \in Provable(w) : FailedChecks(Proof(b, e)) = {}
<1> DEFINE w == Witness(b, c, b.pre, b.post)
           k == IF c = "native" THEN "native" ELSE "evm"
           e == Envelope(k, w.inputs, w)
<1>1. /\ b.post = Minted(Applied(b.pre, b.txs), b.height)
      /\ b.gas = GasSum(b.txs) /\ b.features = Features(b.txs)
  <2>1. b = BuildBlock(b.height, b.pre, b.txs, b.side)
    BY DEF BlockIsBuilt
  <2> QED
    BY <2>1 DEF BuildBlock
<1>2. Replays(b, b.pre)
  BY <1>1 DEF Replays, Minted
<1>3. w \in Replayed(b, c)
  BY <1>2 DEF Replayed
<1>4. /\ w.inputs = Inputs(b, c) /\ w.native = NativeRows(b.txs) /\ w.dispatch = DispatchRows(b.txs)
      /\ w.evm = EvmRows(b.txs) /\ w.gas = GasSum(b.txs)
  BY DEF Witness
<1>5. w.inputs.block = b /\ w.inputs.circuit = c /\ w.inputs.covered = CoveredBy(c)
  BY <1>4 DEF Inputs
<1>6. Features(b.txs) \subseteq CoveredBy(c)
  BY DEF Eligible
<1>7. e.inputs = Inputs(b, c) /\ e.kind = k /\ k \in Fixtures
  BY <1>4 DEF Envelope, Fixtures
<1> HIDE DEF w
<1>8. e \in Provable(w)
  <2>1. CASE c = "native"
    <3>1. \A i \in DOMAIN b.txs : IsNative(b.txs[i]) /\ b.txs[i] # "dispatch"
      BY <2>1 DEF Eligible, IsNative
    <3>2. NativeRows(b.txs) = DOMAIN b.txs /\ DispatchRows(b.txs) = {} /\ EvmRows(b.txs) = {}
      BY <3>1 DEF NativeRows, DispatchRows, EvmRows
    <3>3. RowGas(w, w.native) = w.gas
      BY <1>4, <1>5, <3>2 DEF RowGas, GasSum, SumSeq, SumOver
    <3>4. NativeStatement(w)
      BY <1>1, <1>4, <1>5, <1>6, <2>1, <3>2, <3>3 DEF NativeStatement
    <3>5. k = "native"
      BY <2>1
    <3> HIDE DEF k
    <3> QED
      BY <1>7, <3>4, <3>5, ProvableIs
  <2>2. CASE c = "mixed"
    <3>1. RowGas(w, w.evm) = SumOver({i \in DOMAIN w.inputs.block.txs : ~IsNative(w.inputs.block.txs[i])},
                                LAMBDA i : GasOf(w.inputs.block.txs[i]))
      BY <1>4, <1>5 DEF RowGas, EvmRows, SumOver
    <3>2. EvmStatement(w)
      BY <1>5, <2>2, <3>1 DEF EvmStatement
    <3>3. k = "evm"
      BY <2>2
    <3> HIDE DEF k
    <3> QED
      BY <1>7, <3>2, <3>3, ProvableIs
  <2> QED
    BY <2>1, <2>2
<1>9. FailedChecks(Proof(b, e)) = {}
  <2> DEFINE p == Proof(b, e)
  <2>1. p.block = b /\ p.circuit = c /\ p.envelope = e
    BY <1>5, <1>7 DEF Proof, Inputs
  <2>2. EnvelopeHolds(e, Inputs(b, c)) /\ (e.kind \in {"evm", "mixed"} => c = "mixed")
    BY <1>7 DEF EnvelopeHolds, FixtureHolds
  <2>3. b.features \subseteq CoveredBy(c)
    BY <1>1, <1>6
  <2> HIDE DEF p, e, k
  <2>4. VerifyProof(b, p)
    BY <2>1, <2>2, <2>3 DEF VerifyProof
  <2>5. /\ ProofChecks(p)[1].holds /\ ProofChecks(p)[2].holds /\ ProofChecks(p)[3].holds
        /\ ProofChecks(p)[4].holds /\ ProofChecks(p)[5].holds
    BY <2>1, <2>3, <2>4 DEF ProofChecks
  <2>6. \A i \in 1 .. 5 : i = 1 \/ i = 2 \/ i = 3 \/ i = 4 \/ i = 5
    OBVIOUS
  <2>7. FailedChecks(p) = {}
    BY <2>5, <2>6 DEF FailedChecks
  <2> QED
    BY <2>7 DEF p
<1> QED
  BY <1>3, <1>8, <1>9

\* The updates in their order: each place is of one of them, and none is paid
\* less than a later one.
LEMMA OrderedIsFair ==
  ASSUME NEW S \in SUBSET ProofUpdates, IsFiniteSet(S), \A u, v \in S : KeyOf(u) = KeyOf(v) => u = v
  PROVE  /\ Cardinality(S) \in Nat
         /\ Ordered(S) \in [1 .. Cardinality(S) -> S]
         /\ \A i, j \in 1 .. Cardinality(S) : i < j => Ordered(S)[i].fee >= Ordered(S)[j].fee
<1> DEFINE r == {p \in S \X S : Before(p[1], p[2])}
           n == Cardinality(S)
<1>1. n \in Nat
  BY FS_CardinalityType
<1>2. \A u \in S : u.zone \in Nat /\ u.height \in Nat /\ u.fee \in Nat
  BY ProofsAssumption
<1>3. OrdersAll(r, S)
  <2>1. \A s \in S : ~Before(s, s)
    BY <1>2 DEF Before
  <2>2. \A s, t, u \in S : Before(s, t) /\ Before(t, u) => Before(s, u)
    BY <1>2 DEF Before
  <2>3. \A s, t \in S : s # t => Before(s, t) \/ Before(t, s)
    BY <1>2 DEF Before, KeyOf
  <2> QED
    BY <2>1, <2>2, <2>3 DEF OrdersAll
<1>4. \A u \in S : {v \in S : Before(v, u)} = {v \in S : <<v, u>> \in r}
  OBVIOUS
<1>5. \A u, v \in S : Before(u, v) => <<u, v>> \in r
  OBVIOUS
<1> HIDE DEF r
<1>6. /\ \A u \in S : Place(r, S, u) \in 0 .. n - 1
      /\ \A u, v \in S : <<u, v>> \in r => Place(r, S, u) < Place(r, S, v)
      /\ \A i \in 0 .. n - 1 : \E u \in S : Place(r, S, u) = i
  BY <1>3, PlacesAre
<1>7. ASSUME NEW i \in 1 .. n PROVE Ordered(S)[i] \in S /\ Place(r, S, Ordered(S)[i]) = i - 1
  <2>1. i - 1 \in 0 .. n - 1
    BY <1>1
  <2>2. PICK u \in S : Cardinality({v \in S : Before(v, u)}) = i - 1
    BY <1>4, <1>6, <2>1 DEF Place
  <2>3. Ordered(S)[i] = CHOOSE x \in S : Cardinality({v \in S : Before(v, x)}) = i - 1
    BY DEF Ordered
  <2>4. Ordered(S)[i] \in S /\ Cardinality({v \in S : Before(v, Ordered(S)[i])}) = i - 1
    BY <2>2, <2>3
  <2> QED
    BY <1>4, <2>4 DEF Place
<1>8. Ordered(S) \in [1 .. n -> S]
  BY <1>7 DEF Ordered
<1>9. ASSUME NEW i \in 1 .. n, NEW j \in 1 .. n, i < j PROVE Ordered(S)[i].fee >= Ordered(S)[j].fee
  <2> DEFINE u == Ordered(S)[i]
             v == Ordered(S)[j]
  <2>1. u \in S /\ v \in S /\ Place(r, S, u) = i - 1 /\ Place(r, S, v) = j - 1
    BY <1>7
  <2> HIDE DEF u, v
  <2>2. ~Before(v, u)
    <3> SUFFICES ASSUME Before(v, u) PROVE FALSE
      OBVIOUS
    <3>1. Place(r, S, v) < Place(r, S, u)
      BY <1>5, <1>6, <2>1
    <3>2. j - 1 < i - 1
      BY <2>1, <3>1
    <3> QED
      BY <1>1, <1>9, <3>2
  <2>3. u.fee >= v.fee
    BY <1>2, <2>1, <2>2 DEF Before
  <2> QED
    BY <2>3 DEF u, v
<1> QED
  BY <1>1, <1>8, <1>9

\* The start.
LEMMA ProofsStart == ASSUME ProofsInit PROVE ProofsInv
<1>1. chain \in Seq({}) /\ included \in Seq({}) /\ DOMAIN chain = {} /\ DOMAIN included = {} /\ orphans = {}
  BY DEF ProofsInit
<1>2. /\ DOMAIN finalized = {} /\ DOMAIN store = {} /\ DOMAIN zoneFinal = {} /\ DOMAIN pool = {}
      /\ unwritten = {} /\ conflicts = {} /\ latest = 0 - 1
  BY DEF ProofsInit, Empty
<1>3. IsFiniteSet(DOMAIN pool)
  BY <1>2, FS_EmptySet
<1>4. {b.height : b \in DOMAIN finalized} = {}
  BY <1>2
<1>5. MetricsInv
  <2>1. IsFiniteSet(DOMAIN store) /\ Cardinality(DOMAIN store) = 0
    BY <1>2, FS_EmptySet
  <2>2. metrics.accepted = 0 /\ metrics.height = 0
    BY DEF ProofsInit, NoMetrics
  <2>3. {0} \cup {b.height : b \in DOMAIN store} = {0}
    BY <1>2
  <2>4. TopHeight({0}) = 0
    BY DEF TopHeight
  <2> QED
    BY <2>1, <2>2, <2>3, <2>4 DEF MetricsInv
<1> QED
  BY <1>1, <1>2, <1>3, <1>4, <1>5 DEF ProofsInv, BuiltInv, ProvedInv, PoolInv, FinalityIsDurable, LatestIsHighest, TopHeight, PoolIsFair

\* A new block is built on the head.
LEMMA CommitKeeps ==
  ASSUME BuiltInv, NEW txs \in Bodies, Commit(txs)
  PROVE  BuiltInv'
<1> DEFINE b == BuildBlock(Len(chain) + 1, HeadState, txs, 0)
<1>1. chain' = Append(chain, b) /\ Len(chain) < MaxBlockHeight /\ orphans' = orphans
  BY DEF Commit
<1>2. \E B : chain \in Seq(B)
  BY DEF BuiltInv
<1>3. /\ b.txs = txs /\ b.height = Len(chain) + 1
      /\ b = BuildBlock(b.height, b.pre, b.txs, b.side)
  BY DEF BuildBlock
<1> HIDE DEF b
<1>4. /\ \E B : chain' \in Seq(B)
      /\ Len(chain) \in Nat /\ Len(chain') = Len(chain) + 1 /\ chain'[Len(chain')] = b
      /\ DOMAIN chain = 1 .. Len(chain) /\ DOMAIN chain' = 1 .. Len(chain')
      /\ \A i \in DOMAIN chain : i \in DOMAIN chain' /\ chain'[i] = chain[i]
      /\ \A i \in DOMAIN chain' : i \in DOMAIN chain \/ i = Len(chain')
  BY <1>1, <1>2, Appended
<1>5. BlockIsBuilt(b)
  BY <1>1, <1>3, <1>4, ProofsAssumption DEF BlockIsBuilt
<1>6. \A i \in DOMAIN chain' : BlockIsBuilt(chain'[i]) /\ chain'[i].height = i
  BY <1>3, <1>4, <1>5 DEF BuiltInv
<1> QED
  BY <1>1, <1>4, <1>6 DEF BuiltInv, BlockIsBuilt

\* The other side of a fork is built on the same block.
LEMMA ReorganiseKeeps ==
  ASSUME BuiltInv, NEW txs \in Bodies, Reorganise(txs)
  PROVE  BuiltInv'
<1> DEFINE n == Len(chain)
           head == chain[n]
           b == BuildBlock(head.height, head.pre, txs, 1)
<1>1. PICK B : chain \in Seq(B)
  BY DEF BuiltInv
<1>2. chain' = [chain EXCEPT ![n] = b] /\ orphans' = orphans \cup {head} /\ chain # <<>>
  BY DEF Reorganise
<1>3. n \in DOMAIN chain /\ DOMAIN chain = 1 .. n /\ n \in Nat
  BY <1>1, <1>2
<1>4. /\ b.txs = txs /\ b.height = head.height
      /\ b = BuildBlock(b.height, b.pre, b.txs, b.side)
  BY DEF BuildBlock
<1>5. BlockIsBuilt(head) /\ head.height = n
  BY <1>3 DEF BuiltInv
<1> HIDE DEF b, head
<1>6. BlockIsBuilt(b) /\ b.height = n
  BY <1>4, <1>5 DEF BlockIsBuilt
<1>7. chain' \in Seq(B \cup {b})
  BY <1>1, <1>2
<1>8. DOMAIN chain' = DOMAIN chain /\ \A i \in DOMAIN chain : chain'[i] = IF i = n THEN b ELSE chain[i]
  BY <1>1, <1>2, <1>3
<1>9. \A i \in DOMAIN chain' : BlockIsBuilt(chain'[i]) /\ chain'[i].height = i
  BY <1>6, <1>8 DEF BuiltInv
<1>10. \A x \in orphans' : BlockIsBuilt(x)
  BY <1>2, <1>5 DEF BuiltInv
<1> QED
  BY <1>7, <1>9, <1>10 DEF BuiltInv, BlockIsBuilt

\* A verified proof makes its block final.
LEMMA SubmitKeeps ==
  ASSUME BuiltInv, ProvedInv, NEW p \in Offers, NEW writes \in BOOLEAN, Submit(p, writes)
  PROVE  ProvedInv'
<1> DEFINE b == p.block
<1>1. /\ b \in Blocks /\ VerifyProof(b, p)
      /\ finalized' = Put(finalized, b, p) /\ zoneFinal' = Put(zoneFinal, b.height, b)
      /\ latest' = LatestWith(latest, b.height)
      /\ IF writes THEN store' = Put(store, b, p) /\ unwritten' = unwritten \ {b}
         ELSE store' = store /\ unwritten' = unwritten \cup {b}
  BY PassedChecks DEF Submit, InsertedZone
<1>2. BlockIsProved(b, p)
  BY <1>1, VerifiedIsProved
<1> HIDE DEF b
<1>3. DOMAIN finalized' = DOMAIN finalized \cup {b} /\ \A x \in DOMAIN finalized' : finalized'[x] = IF x = b THEN p ELSE finalized[x]
  BY <1>1 DEF Put
<1>4. \/ /\ DOMAIN store' = DOMAIN store \cup {b} /\ unwritten' = unwritten \ {b}
         /\ \A x \in DOMAIN store' : store'[x] = IF x = b THEN p ELSE store[x]
      \/ store' = store /\ unwritten' = unwritten \cup {b}
  BY <1>1 DEF Put
<1>5. \A x \in DOMAIN finalized' : BlockIsProved(x, finalized'[x])
  BY <1>2, <1>3 DEF ProvedInv
<1>6. \A x \in DOMAIN store' : BlockIsProved(x, store'[x])
  BY <1>2, <1>4 DEF ProvedInv
<1>7. FinalityIsDurable'
  BY <1>3, <1>4 DEF ProvedInv, FinalityIsDurable
<1>8. LatestIsHighest'
  <2> DEFINE H == {x.height : x \in DOMAIN finalized}
             K == {x.height : x \in DOMAIN finalized'}
  <2>1. H \in SUBSET (0 .. MaxBlockHeight) /\ b.height \in 0 .. MaxBlockHeight
    BY <1>2, ProofsAssumption DEF ProvedInv, BlockIsProved
  <2>2. K = H \cup {b.height}
    BY <1>3
  <2>3. latest = TopHeight(H) /\ DOMAIN zoneFinal = H
    BY DEF ProvedInv, LatestIsHighest
  <2>4. DOMAIN zoneFinal' = H \cup {b.height}
    BY <1>1, <2>3 DEF Put
  <2> HIDE DEF H, K
  <2>5. latest' = TopHeight(K)
    BY <1>1, <2>1, <2>2, <2>3, TopWith, ProofsAssumption
  <2> QED
    BY <2>2, <2>4, <2>5 DEF LatestIsHighest, K
<1> QED
  BY <1>5, <1>6, <1>7, <1>8 DEF ProvedInv, BlockIsProved

\* An acceptance is counted with the record it writes.
LEMMA SubmitCounts ==
  ASSUME BuiltInv, ProvedInv, MetricsInv, NEW p \in Offers, NEW writes \in BOOLEAN, Submit(p, writes)
  PROVE  MetricsInv'
<1> DEFINE b == p.block
<1>1. CASE ~writes
  BY <1>1 DEF Submit, MetricsInv
<1>2. CASE writes
  <2>1. store' = Put(store, b, p) /\ metrics' = MetricsAccept(metrics, b.height) /\ b \in Blocks
    BY <1>2, PassedChecks DEF Submit
  <2>2. metrics'.accepted = metrics.accepted + 1 /\ metrics'.height = LatestWith(metrics.height, b.height)
    BY <2>1 DEF MetricsAccept
  <2>3. b.height \in 0 .. MaxBlockHeight
    BY <2>1, ProofsAssumption DEF BuiltInv, Blocks, BlockIsBuilt
  <2> HIDE DEF b
  <2>4. DOMAIN store' = DOMAIN store \cup {b}
    BY <2>1 DEF Put
  <2>5. /\ IsFiniteSet(DOMAIN store') /\ Cardinality(DOMAIN store) \in Nat /\ Cardinality(DOMAIN store') \in Nat
        /\ Cardinality(DOMAIN store') <= Cardinality(DOMAIN store) + 1
    <3>1. IsFiniteSet(DOMAIN store)
      BY DEF MetricsInv
    <3>2. Cardinality(DOMAIN store) \in Nat
      BY <3>1, FS_CardinalityType
    <3>3. /\ IsFiniteSet(DOMAIN store \cup {b})
          /\ \/ Cardinality(DOMAIN store \cup {b}) = Cardinality(DOMAIN store)
             \/ Cardinality(DOMAIN store \cup {b}) = Cardinality(DOMAIN store) + 1
      BY <3>1, FS_AddElement
    <3> QED
      BY <2>4, <3>2, <3>3
  <2> DEFINE H == {0} \cup {x.height : x \in DOMAIN store}
             K == {0} \cup {x.height : x \in DOMAIN store'}
  <2>6. H \in SUBSET (0 .. MaxBlockHeight)
    BY ProofsAssumption DEF ProvedInv, BlockIsProved
  <2>7. K = H \cup {b.height}
    BY <2>4
  <2>8. metrics.height = TopHeight(H)
    BY DEF MetricsInv
  <2> HIDE DEF H, K
  <2>9. metrics'.height = TopHeight(K)
    BY <2>2, <2>3, <2>6, <2>7, <2>8, TopWith, ProofsAssumption
  <2>10. metrics'.accepted \in Nat /\ Cardinality(DOMAIN store') <= metrics'.accepted
    BY <2>2, <2>5 DEF MetricsInv
  <2> QED
    BY <2>5, <2>9, <2>10 DEF MetricsInv, K
<1> QED
  BY <1>1, <1>2

\* A restart counts the records.
LEMMA RestartCounts ==
  ASSUME MetricsInv, Restart
  PROVE  MetricsInv'
<1>1. store' = store /\ metrics' = RestoredMetrics
  BY DEF Restart
<1>2. /\ metrics'.accepted = Cardinality(DOMAIN store)
      /\ metrics'.height = TopHeight({0} \cup {b.height : b \in DOMAIN store})
  BY <1>1 DEF RestoredMetrics
<1>3. IsFiniteSet(DOMAIN store) /\ Cardinality(DOMAIN store) \in Nat
  BY FS_CardinalityType DEF MetricsInv
<1> QED
  BY <1>1, <1>2, <1>3 DEF MetricsInv

\* A restart brings the records of the store back.
LEMMA RestartKeeps ==
  ASSUME ProvedInv, Restart
  PROVE  ProvedInv'
<1>1. /\ finalized' = store /\ store' = store /\ unwritten' = {}
      /\ latest' = TopHeight({b.height : b \in DOMAIN store})
  BY DEF Restart
<1>2. DOMAIN zoneFinal' = {b.height : b \in DOMAIN store}
  BY DEF Restart
<1>3. FinalityIsDurable' /\ LatestIsHighest'
  BY <1>1, <1>2 DEF FinalityIsDurable, LatestIsHighest
<1> QED
  BY <1>1, <1>3 DEF ProvedInv, BlockIsProved

\* An update with evidence against it is turned down while the first is pending.
LEMMA ContestedStay ==
  ASSUME (\A c \in conflicts : KeyOf(c[1]) = KeyOf(c[2]) /\ c[1].root # c[2].root)'
  PROVE  (\A c \in conflicts :
            KeyOf(c[1]) \in DOMAIN pool /\ pool[KeyOf(c[1])] = c[1] => ~ProofUpdateAnswer(c[2]).taken)'
<1> SUFFICES ASSUME NEW c \in conflicts', KeyOf(c[1]) \in DOMAIN pool', pool'[KeyOf(c[1])] = c[1]
             PROVE  ~ProofUpdateAnswer(c[2])'.taken
  BY DEF KeyOf
<1>1. KeyOf(c[1]) = KeyOf(c[2]) /\ c[1].root # c[2].root
  BY DEF KeyOf
<1>2. ProofUpdateAnswer(c[2])'.taken = ~Contested(c[2])'
  BY DEF ProofUpdateAnswer, KeyOf
<1>3. Contested(c[2])'
  BY <1>1 DEF Contested, KeyOf
<1> QED
  BY <1>2, <1>3

\* An update enters the pool or is turned down.
LEMMA PoolInsertKeeps ==
  ASSUME PoolInv, NEW u \in ProofUpdates, SubmitProofUpdate(u)
  PROVE  PoolInv'
<1>1. included' = included
  BY DEF SubmitProofUpdate
<1>2. CASE KeyOf(u) \notin DOMAIN pool
  <2>1. pool' = Put(pool, KeyOf(u), u) /\ conflicts' = conflicts
    BY <1>2 DEF SubmitProofUpdate, PoolInsert
  <2>2. DOMAIN pool' = DOMAIN pool \cup {KeyOf(u)} /\ \A k \in DOMAIN pool' : pool'[k] = IF k = KeyOf(u) THEN u ELSE pool[k]
    BY <2>1 DEF Put
  <2>3. IsFiniteSet(DOMAIN pool')
    BY <2>2, FS_AddElement DEF PoolInv
  <2>4. \A k \in DOMAIN pool' : pool'[k] \in ProofUpdates /\ KeyOf(pool'[k]) = k
    BY <2>2 DEF PoolInv
  <2>5. (\A c \in conflicts : KeyOf(c[1]) = KeyOf(c[2]) /\ c[1].root # c[2].root)'
    BY <2>1 DEF PoolInv, PoolIsFair, KeyOf
  <2> QED
    BY <1>1, <2>3, <2>4, <2>5, ContestedStay DEF PoolInv, PoolIsFair, KeyOf
<1>3. CASE KeyOf(u) \in DOMAIN pool
  <2> DEFINE v == pool[KeyOf(u)]
  <2>1. pool' = pool /\ conflicts' = conflicts \cup (IF v.root = u.root THEN {} ELSE {<<v, u>>})
    BY <1>3 DEF SubmitProofUpdate, PoolInsert, Contested
  <2>2. KeyOf(v) = KeyOf(u)
    BY <1>3 DEF PoolInv
  <2> HIDE DEF v
  <2>3. (\A c \in conflicts : KeyOf(c[1]) = KeyOf(c[2]) /\ c[1].root # c[2].root)'
    BY <2>1, <2>2 DEF PoolInv, PoolIsFair, KeyOf
  <2> QED
    BY <1>1, <2>1, <2>3, ContestedStay DEF PoolInv, PoolIsFair, KeyOf
<1> QED
  BY <1>2, <1>3

\* A block takes the best paid updates.
LEMMA PoolDrainKeeps ==
  ASSUME PoolInv, PoolDrain
  PROVE  PoolInv'
<1> DEFINE S == {pool[k] : k \in DOMAIN pool}
           ready == Ordered(S)
           n == IF Len(ready) < DrainLimit THEN Len(ready) ELSE DrainLimit
           taken == SubSeq(ready, 1, n)
           block == [updates |-> taken, left |-> {ready[i] : i \in n + 1 .. Len(ready)}]
<1>1. /\ included' = Append(included, block)
      /\ pool' = Without(pool, {KeyOf(taken[i]) : i \in 1 .. n}) /\ conflicts' = conflicts
  BY DEF PoolDrain
<1>2. S \in SUBSET ProofUpdates /\ IsFiniteSet(S) /\ \A u, v \in S : KeyOf(u) = KeyOf(v) => u = v
  <2>1. IsFiniteSet(S)
    <3> DEFINE f == [k \in DOMAIN pool |-> pool[k]]
    <3>1. f \in Surjection(DOMAIN pool, S)
      BY DEF Surjection
    <3> HIDE DEF f, S
    <3> QED
      BY <3>1, FS_Surjection DEF PoolInv
  <2> QED
    BY <2>1 DEF PoolInv
<1> HIDE DEF S
<1> DEFINE c == Cardinality(S)
<1>3. /\ c \in Nat /\ ready \in [1 .. c -> S]
      /\ \A i, j \in 1 .. c : i < j => ready[i].fee >= ready[j].fee
  BY <1>2, OrderedIsFair
<1> HIDE DEF ready, c
<1>4. ready \in Seq(S) /\ Len(ready) = c
  BY <1>3
<1>5. n \in Nat /\ n <= c
  BY <1>3, <1>4, ProofsAssumption
<1> HIDE DEF n
<1>6. DOMAIN taken = 1 .. n /\ \A i \in 1 .. n : taken[i] = ready[i]
  <2>1. 1 \in 1 .. Len(ready) + 1 /\ n \in (1 - 1) .. Len(ready)
    BY <1>3, <1>4, <1>5
  <2> QED
    BY <1>3, <1>4, <1>5, <2>1, SubSeqProperties
<1> HIDE DEF taken
<1>7. \A k \in DOMAIN block.updates : \A v \in block.left : block.updates[k].fee >= v.fee
  <2>1. block.updates = taken /\ block.left = {ready[i] : i \in n + 1 .. Len(ready)}
    OBVIOUS
  <2> HIDE DEF block
  <2> SUFFICES ASSUME NEW k \in 1 .. n, NEW i \in n + 1 .. c PROVE ready[k].fee >= ready[i].fee
    BY <1>4, <1>6, <2>1
  <2> QED
    BY <1>3, <1>5
<1> HIDE DEF block
<1>8. /\ \E B : included' \in Seq(B)
      /\ included'[Len(included')] = block
      /\ \A i \in DOMAIN included : i \in DOMAIN included' /\ included'[i] = included[i]
      /\ \A i \in DOMAIN included' : i \in DOMAIN included \/ i = Len(included')
  BY <1>1, Appended DEF PoolInv
<1>9. \A i \in DOMAIN included' : \A k \in DOMAIN included'[i].updates : \A v \in included'[i].left :
        included'[i].updates[k].fee >= v.fee
  BY <1>7, <1>8 DEF PoolInv, PoolIsFair
<1>10. DOMAIN pool' \subseteq DOMAIN pool /\ \A k \in DOMAIN pool' : pool'[k] = pool[k]
  BY <1>1 DEF Without
<1>11. IsFiniteSet(DOMAIN pool') /\ \A k \in DOMAIN pool' : pool'[k] \in ProofUpdates /\ KeyOf(pool'[k]) = k
  BY <1>10, FS_Subset DEF PoolInv
<1>12. (\A q \in conflicts : KeyOf(q[1]) = KeyOf(q[2]) /\ q[1].root # q[2].root)'
  BY <1>1 DEF PoolInv, PoolIsFair, KeyOf
<1> QED
  BY <1>8, <1>9, <1>11, <1>12, ContestedStay DEF PoolInv, PoolIsFair, KeyOf

\* Every step keeps the invariant.
LEMMA ProofsStep == ASSUME ProofsInv, [ProofsNext]_proofVars PROVE ProofsInv'
<1>1. BuiltInv /\ ProvedInv /\ PoolInv /\ MetricsInv
  BY DEF ProofsInv
<1>2. ASSUME UNCHANGED chainPart PROVE BuiltInv'
  BY <1>1, <1>2 DEF chainPart, BuiltInv, BlockIsBuilt
<1>3. ASSUME UNCHANGED <<finalized, zoneFinal, latest, store, unwritten>> PROVE ProvedInv'
  BY <1>1, <1>3 DEF ProvedInv, BlockIsProved, FinalityIsDurable, LatestIsHighest
<1>4. ASSUME UNCHANGED poolPart PROVE PoolInv'
  BY <1>1, <1>4 DEF poolPart, PoolInv, PoolIsFair, KeyOf, ProofUpdateAnswer, Contested
<1>12. ASSUME UNCHANGED <<store, metrics>> PROVE MetricsInv'
  BY <1>1, <1>12 DEF MetricsInv
<1>5. CASE UNCHANGED proofVars
  BY <1>2, <1>3, <1>4, <1>5, <1>12 DEF proofVars, chainPart, finalPart, poolPart, ProofsInv
<1>6. ASSUME NEW txs \in Bodies, Commit(txs) \/ Reorganise(txs) PROVE ProofsInv'
  <2>1. UNCHANGED finalPart /\ UNCHANGED poolPart
    BY <1>6 DEF Commit, Reorganise
  <2>2. BuiltInv'
    BY <1>1, <1>6, CommitKeeps, ReorganiseKeeps
  <2> QED
    BY <1>3, <1>4, <1>12, <2>1, <2>2 DEF finalPart, ProofsInv
<1>14. ASSUME NEW b \in Blocks, DamageSidecar(b) PROVE ProofsInv'
  <2>1. UNCHANGED <<chain, orphans>> /\ UNCHANGED finalPart /\ UNCHANGED poolPart
    BY <1>14 DEF DamageSidecar
  <2>2. BuiltInv'
    BY <1>1, <2>1 DEF BuiltInv, BlockIsBuilt
  <2> QED
    BY <1>3, <1>4, <1>12, <2>1, <2>2 DEF finalPart, ProofsInv
<1>7. ASSUME NEW b \in Blocks, NEW c \in Circuits, NEW w \in WitnessesOf(b, c), RecordMetadata(b, w) PROVE ProofsInv'
  BY <1>2, <1>3, <1>4, <1>7, <1>12 DEF RecordMetadata, ProofsInv
<1>8. ASSUME NEW p \in Offers, NEW writes \in BOOLEAN, Submit(p, writes) PROVE ProofsInv'
  <2>1. ProvedInv' /\ MetricsInv'
    BY <1>1, <1>8, SubmitKeeps, SubmitCounts
  <2>2. UNCHANGED chainPart /\ UNCHANGED poolPart
    BY <1>8 DEF Submit
  <2> QED
    BY <1>2, <1>4, <2>1, <2>2 DEF ProofsInv
<1>13. ASSUME NEW p \in Offers, Refuse(p) PROVE ProofsInv'
  <2>1. metrics'.accepted = metrics.accepted /\ metrics'.height = metrics.height
    BY <1>13 DEF Refuse, MetricsReject
  <2>2. UNCHANGED chainPart /\ UNCHANGED poolPart /\ UNCHANGED <<finalized, zoneFinal, latest, store, unwritten>>
    BY <1>13 DEF Refuse
  <2>3. MetricsInv'
    BY <1>1, <2>1, <2>2 DEF MetricsInv
  <2> QED
    BY <1>2, <1>3, <1>4, <2>2, <2>3 DEF ProofsInv
<1>9. CASE Restart
  <2>1. ProvedInv' /\ MetricsInv'
    BY <1>1, <1>9, RestartKeeps, RestartCounts
  <2>2. UNCHANGED chainPart /\ pool' = Empty /\ conflicts' = {} /\ included' = included
    BY <1>9 DEF Restart
  <2>3. DOMAIN pool' = {}
    BY <2>2 DEF Empty
  <2>4. PoolInv'
    BY <1>1, <2>2, <2>3, FS_EmptySet DEF PoolInv, PoolIsFair
  <2> QED
    BY <1>2, <2>1, <2>2, <2>4 DEF ProofsInv
<1>10. ASSUME NEW u \in ProofUpdates, SubmitProofUpdate(u) PROVE ProofsInv'
  <2>1. UNCHANGED chainPart /\ UNCHANGED finalPart
    BY <1>10 DEF SubmitProofUpdate
  <2> QED
    BY <1>1, <1>2, <1>3, <1>10, <1>12, <2>1, PoolInsertKeeps DEF finalPart, ProofsInv
<1>11. CASE PoolDrain
  <2>1. UNCHANGED chainPart /\ UNCHANGED finalPart
    BY <1>11 DEF PoolDrain
  <2> QED
    BY <1>1, <1>2, <1>3, <1>11, <1>12, <2>1, PoolDrainKeeps DEF finalPart, ProofsInv
<1> QED
  BY <1>5, <1>6, <1>7, <1>8, <1>9, <1>10, <1>11, <1>13, <1>14 DEF ProofsNext

\* The invariant is enough.
LEMMA ProofsEnough == ASSUME ProofsInv PROVE BlockProofsSafe
<1>1. SettledIsBound
  <2> SUFFICES ASSUME NEW b \in Blocks \cup orphans, Required # {}, Settles(b)
               PROVE  BlockIsProved(b, finalized[b]) /\ (b \in Blocks => DaHolds(b))
    BY DEF SettledIsBound, BlockIsProved
  <2>1. Finality(b) = "proof" /\ (b \in Blocks => DaHolds(b))
    BY DEF Settles, NeedsProof
  <2>2. b \in DOMAIN finalized
    BY <2>1 DEF Finality
  <2> QED
    BY <2>1, <2>2 DEF ProofsInv, ProvedInv
<1>2. EligibleProvable
  <2>1. \A b \in Blocks : BlockIsBuilt(b)
    BY DEF ProofsInv, BuiltInv, Blocks
  <2> QED
    BY <2>1, BuiltIsProvable DEF EligibleProvable
<1>3. ASSUME NEW b \in Blocks
      PROVE  LET a == SettlementBlock(b)
             IN /\ a.label # "uncovered-circuit"
                /\ a.label = "settled" => a.allowed /\ (ChainConfig.settlement = "proof" => a.finality = "proof")
                /\ a.finality = "proof" =>
                     b.features \subseteq a.covered /\ ZoneUpdateFinality(b.height) = "proof" /\ b.height <= ProofFinalHeight
  <2> DEFINE a == SettlementBlock(b)
  <2>1. /\ a.finality = Finality(b) /\ a.allowed = (NeedsProof(b) => Finality(b) = "proof")
        /\ a.covered = IF b \in DOMAIN finalized THEN CoveredBy(finalized[b].circuit) ELSE {}
    BY DEF SettlementBlock
  <2>2. b \in DOMAIN finalized => b.features \subseteq CoveredBy(finalized[b].circuit)
    BY DEF ProofsInv, ProvedInv, BlockIsProved
  <2>3. a.label # "uncovered-circuit" /\ (a.label = "settled" => (NeedsProof(b) => Finality(b) = "proof"))
    BY <2>2 DEF SettlementBlock
  <2>4. Finality(b) = "proof" => b \in DOMAIN finalized
    BY DEF Finality
  <2>5. b \in DOMAIN finalized => b.height \in DOMAIN zoneFinal /\ b.height <= latest
    <3> DEFINE H == {x.height : x \in DOMAIN finalized}
    <3> SUFFICES ASSUME b \in DOMAIN finalized PROVE b.height \in DOMAIN zoneFinal /\ b.height <= latest
      OBVIOUS
    <3>1. H \in SUBSET (0 .. MaxBlockHeight) /\ b.height \in H
      BY ProofsAssumption DEF ProofsInv, ProvedInv, BlockIsProved
    <3>2. latest = TopHeight(H) /\ DOMAIN zoneFinal = H
      BY DEF ProofsInv, ProvedInv, LatestIsHighest
    <3> HIDE DEF H
    <3>3. Max(H) \in H /\ \A k \in H : k <= Max(H)
      <4>1. H \in SUBSET Nat /\ \A x \in H : x <= MaxBlockHeight
        BY <3>1, ProofsAssumption
      <4> QED
        BY <3>1, <4>1, MaxIs, ProofsAssumption
    <3>4. \A k \in H : k <= TopHeight(H)
      BY <3>3 DEF TopHeight
    <3> QED
      BY <3>1, <3>2, <3>4
  <2>6. ChainConfig.settlement = "proof" => NeedsProof(b)
    BY DEF ChainConfig, NeedsProof
  <2> HIDE DEF a
  <2>7. /\ a.label = "settled" => a.allowed /\ (ChainConfig.settlement = "proof" => a.finality = "proof")
        /\ a.finality = "proof" =>
             b.features \subseteq a.covered /\ ZoneUpdateFinality(b.height) = "proof" /\ b.height <= ProofFinalHeight
    BY <2>1, <2>2, <2>3, <2>4, <2>5, <2>6 DEF ZoneUpdateFinality, ProofFinalHeight
  <2> QED
    BY <2>3, <2>7 DEF a
<1>4. FinalityViewsAgree
  BY <1>3 DEF FinalityViewsAgree, ProofsInv, MetricsInv
<1> QED
  BY <1>1, <1>2, <1>4 DEF BlockProofsSafe, ProofsInv, ProvedInv, PoolInv

\* Validity proofs (consensus/src/proof.rs, Node::submit_validity_proof and the
\* pool of proofs), whatever blocks are built, reorganised, damaged and proved,
\* by whomever, whenever the node restarts: a block settles only while its data
\* is there and with a proof bound to that very block, what is final stays so, a
\* block that has to be proved can be, and the pool gives up the best paid first.
THEOREM ProofsAreSafe == ProofsSpec => []BlockProofsSafe
<1>1. ProofsInit => ProofsInv
  BY ProofsStart
<1>2. ProofsInv /\ [ProofsNext]_proofVars => ProofsInv'
  BY ProofsStep
<1>3. ProofsInv => BlockProofsSafe
  BY ProofsEnough
<1> QED
  BY <1>1, <1>2, <1>3, PTL DEF ProofsSpec

-----------------------------------------------------------------------------
(* The ledger of the masterchain *)

BondRecords == [bond: Nat, active: BOOLEAN]
Bonded(f) == SumOver(DOMAIN f, LAMBDA p : f[p].bond)
Burned(s) == SumSeq(s, LAMBDA e : e.burned)
ProverMaps == UNION {[D -> BondRecords] : D \in SUBSET Provers}

\* The slash events, among E, and the provers, when c was bonded in all.
BondBooks(E, c) ==
  {m \in [slashes: Seq(E), provers: ProverMaps] :
     c = Bonded(m.provers) + Burned(m.slashes)}

CreditSum(f) == SumOver(DOMAIN f, LAMBDA p : f[p])

\* What the treasury and the credits may be.
CreditBooks ==
  {a \in [treasury: Nat, credits: [Provers \cup {Sealer} -> Nat]] :
     a.treasury + CreditSum(a.credits) = Treasury}

Submitted(p) == p.start \in Nat /\ p.end \in Nat /\ p.lag \in Nat /\ p.prover \in Provers \cup {Sealer}

\* The bonds when burned is taken from the prover who is slashed.
LEMMA SlashedBonds ==
  ASSUME NEW f \in ProverMaps, NEW p \in DOMAIN f, NEW burned \in Nat, burned <= f[p].bond, NEW act \in BOOLEAN,
         NEW g, g = [f EXCEPT ![p] = [bond |-> f[p].bond - burned, active |-> act]]
  PROVE  /\ g \in ProverMaps
         /\ Bonded(f) = Bonded(g) + burned
         /\ Bonded(g) \in Nat
<1>1. PICK D \in SUBSET Provers : f \in [D -> BondRecords]
  BY DEF ProverMaps
<1>2. DOMAIN f = D /\ p \in D /\ f[p].bond \in Nat /\ f[p].bond - burned \in Nat
  BY <1>1 DEF BondRecords
<1>3. g \in [D -> BondRecords] /\ DOMAIN g = D /\ g[p].bond = f[p].bond - burned /\ \A x \in D \ {p} : g[x] = f[x]
  BY <1>1, <1>2 DEF BondRecords
<1> DEFINE a == [x \in D |-> f[x].bond]
           b == [x \in D |-> g[x].bond]
<1>4. IsFiniteSet(D)
  BY FS_Subset, McAssumption
<1>5. /\ a \in [D -> Nat] /\ b \in [D -> Nat] /\ (\A x \in D \ {p} : a[x] = b[x])
      /\ a[p] = f[p].bond /\ b[p] = f[p].bond - burned
  BY <1>1, <1>2, <1>3 DEF BondRecords
<1>6. Total(a) = Bonded(f) /\ Total(b) = Bonded(g)
  BY <1>2, <1>3 DEF SumOver, Bonded
<1> HIDE DEF a, b
<1>7. Total(b) + a[p] = Total(a) + b[p] /\ Total(a) \in Nat /\ Total(b) \in Nat
  BY <1>2, <1>4, <1>5, TotalChange, TotalNat
<1>8. Total(a) = Total(b) + burned /\ Total(b) \in Nat
  BY <1>2, <1>5, <1>7
<1>9. g \in ProverMaps
  BY <1>3 DEF ProverMaps
<1> QED
  BY <1>6, <1>8, <1>9

\* A sum over a sequence that grows by one element.
LEMMA BurnedMore ==
  ASSUME NEW E, \A e \in E : e.burned \in Nat, NEW s \in Seq(E), NEW x \in E
  PROVE  /\ Burned(Append(s, x)) = Burned(s) + x.burned
         /\ Burned(s) \in Nat
<1> DEFINE n == Len(s)
           t == Append(s, x)
           f == [i \in DOMAIN s |-> s[i].burned]
           g == [i \in DOMAIN t |-> t[i].burned]
<1>1. n \in Nat /\ DOMAIN s = 1 .. n /\ t \in Seq(E) /\ Len(t) = n + 1 /\ DOMAIN t = 1 .. n + 1
  OBVIOUS
<1>2. (\A i \in 1 .. n : t[i] = s[i] /\ s[i] \in E) /\ t[n + 1] = x /\ (\A i \in 1 .. n + 1 : t[i] \in E)
  BY <1>1
<1> HIDE DEF t, n
<1>3. f \in [1 .. n -> Nat] /\ g \in [1 .. n + 1 -> Nat] /\ (\A i \in 1 .. n : f[i] = g[i]) /\ g[n + 1] = x.burned
  BY <1>1, <1>2
<1>4. Total(f) = Burned(s) /\ Total(g) = Burned(t)
  BY DEF SumSeq, SumOver, Burned
<1>5. IsFiniteSet(1 .. n)
  BY <1>1, FS_Interval
<1> HIDE DEF f, g
<1>6. Total(g) = Total(f) + g[n + 1] /\ Total(f) \in Nat
  BY <1>1, <1>3, <1>5, TotalNext, TotalNat
<1> QED
  BY <1>3, <1>4, <1>6 DEF t

\* One submission slashed.
LEMMA SlashedKeeps ==
  ASSUME NEW E, \A e \in E : e.burned \in Nat, NEW c, NEW m \in BondBooks(E, c), NEW h, NEW p, NEW reason,
         \A n \in Nat : [evidence |-> Evidence(h, p, reason), burned |-> n] \in E
  PROVE  Slashed(h, m, p, reason) \in BondBooks(E, c)
<1> DEFINE known == p.prover \in DOMAIN m.provers /\ m.provers[p.prover].active
           burned == IF known THEN Min({m.provers[p.prover].bond, SlashAmount}) ELSE 0
           left == m.provers[p.prover].bond - burned
           x == [evidence |-> Evidence(h, p, reason), burned |-> burned]
           g == IF known THEN [m.provers EXCEPT ![p.prover] = [bond |-> left, active |-> left >= MinBond]] ELSE m.provers
           r == [slashes |-> Append(m.slashes, x), provers |-> g]
<1>1. CASE \E i \in DOMAIN m.slashes : m.slashes[i].evidence = Evidence(h, p, reason)
  BY <1>1 DEF Slashed
<1>2. CASE ~ \E i \in DOMAIN m.slashes : m.slashes[i].evidence = Evidence(h, p, reason)
  <2>1. Slashed(h, m, p, reason) = r
    BY <1>2 DEF Slashed
  <2>2. /\ m.slashes \in Seq(E) /\ m.provers \in ProverMaps
        /\ c = Bonded(m.provers) + Burned(m.slashes)
    BY DEF BondBooks
  <2>3. known => m.provers[p.prover].bond \in Nat
    BY <2>2 DEF ProverMaps, BondRecords
  <2>4. burned \in Nat /\ (known => burned <= m.provers[p.prover].bond /\ left \in Nat /\ (left >= MinBond) \in BOOLEAN)
    <3>1. CASE known
      <4>1. burned = IF m.provers[p.prover].bond <= SlashAmount THEN m.provers[p.prover].bond ELSE SlashAmount
        BY <2>3, <3>1, MaxOfTwo, McAssumption
      <4> HIDE DEF burned, known
      <4> QED
        BY <2>3, <3>1, <4>1, McAssumption
    <3>2. CASE ~known
      BY <3>2
    <3> QED
      BY <3>1, <3>2
  <2>5. x \in E /\ x.burned = burned
    BY <2>4
  <2>6. /\ g \in ProverMaps
        /\ Bonded(m.provers) = Bonded(g) + burned
        /\ Bonded(g) \in Nat
    <3> DEFINE f == m.provers
    <3>1. CASE known
      <4> DEFINE act == left >= MinBond
                 q == p.prover
      <4>1. g = [f EXCEPT ![q] = [bond |-> f[q].bond - burned, active |-> act]] /\ q \in DOMAIN f
        BY <3>1
      <4>2. act \in BOOLEAN /\ burned \in Nat /\ burned <= f[q].bond /\ f \in ProverMaps
        BY <2>2, <2>4, <3>1
      <4> HIDE DEF act, g, burned, f, q
      <4>3. /\ g \in ProverMaps
            /\ Bonded(f) = Bonded(g) + burned
            /\ Bonded(g) \in Nat
        BY <4>1, <4>2, SlashedBonds
      <4> QED
        BY <4>3 DEF f
    <3>2. CASE ~known
      <4>1. g = m.provers /\ burned = 0
        BY <3>2
      <4>2. PICK D \in SUBSET Provers : m.provers \in [D -> BondRecords]
        BY <2>2 DEF ProverMaps
      <4> DEFINE a == [y \in D |-> m.provers[y].bond]
      <4>3. a \in [D -> Nat] /\ IsFiniteSet(D) /\ DOMAIN m.provers = D
        BY <4>2, FS_Subset, McAssumption DEF BondRecords
      <4>4. Total(a) = Bonded(m.provers)
        BY <4>3 DEF SumOver, Bonded
      <4> HIDE DEF a
      <4>5. Total(a) \in Nat
        BY <4>3, TotalNat
      <4> HIDE DEF g, burned
      <4> QED
        BY <2>2, <4>1, <4>4, <4>5
    <3> QED
      BY <3>1, <3>2
  <2>7. /\ Burned(Append(m.slashes, x)) = Burned(m.slashes) + x.burned
        /\ Burned(m.slashes) \in Nat
    <3> HIDE DEF x
    <3> QED
      BY <2>2, <2>5, BurnedMore
  <2> HIDE DEF x, g, burned, known
  <2>8. c = Bonded(g) + Burned(Append(m.slashes, x))
    BY <2>2, <2>4, <2>5, <2>6, <2>7
  <2>9. Append(m.slashes, x) \in Seq(E)
    BY <2>2, <2>5
  <2>10. r \in BondBooks(E, c)
    BY <2>6, <2>8, <2>9 DEF BondBooks
  <2> QED
    BY <2>1, <2>10
<1> QED
  BY <1>1, <1>2

\* And all of a round, one after the other.
LEMMA AllSlashedKeeps ==
  ASSUME NEW E, \A e \in E : e.burned \in Nat, NEW c, NEW B, NEW ps \in Seq(B), NEW at, NEW reason,
         [slashes |-> mcSlashes, provers |-> mcProvers] \in BondBooks(E, c),
         \A p \in B : \A n \in Nat : [evidence |-> Evidence(at, p, reason), burned |-> n] \in E
  PROVE  AllSlashed(at, ps, reason) \in BondBooks(E, c)
<1> DEFINE n == Len(ps)
           S == 1 .. n
           A == BondBooks(E, c)
           base == [slashes |-> mcSlashes, provers |-> mcProvers]
           Add(m, p) == Slashed(at, m, p, reason)
           F == [q \in S \X A |-> Add(q[2], ps[q[1]])]
<1>1. n \in Nat /\ DOMAIN ps = S /\ \A i \in S : ps[i] \in B
  OBVIOUS
<1>2. \A a \in A, i \in S : Add(a, ps[i]) \in A
  BY <1>1, SlashedKeeps
<1> HIDE DEF Add, A, base
<1>3. F \in [S \X A -> A] /\ base \in A
  BY <1>2 DEF base, A
<1>4. PICK h : SolvesFold(h, n, A, base, F)
  <2> HIDE DEF F, n
  <2> QED
    BY <1>1, <1>3, FoldStart
<1>5. h = [t \in SUBSET S |-> IF t = {} THEN base ELSE Add(h[t \ {Max(t)}], ps[Max(t)])]
  <2>1. \A t \in SUBSET S : t # {} => h[t] = Add(h[t \ {Max(t)}], ps[Max(t)])
    BY <1>4 DEF SolvesFold
  <2>2. h \in [SUBSET S -> A] /\ h[{}] = base
    BY <1>4 DEF SolvesFold
  <2> HIDE DEF F, S
  <2> QED
    BY <2>1, <2>2
<1>6. \E k : k = [t \in SUBSET S |-> IF t = {} THEN base ELSE Add(k[t \ {Max(t)}], ps[Max(t)])]
  BY <1>5
<1>7. PICK k : /\ k = [t \in SUBSET S |-> IF t = {} THEN base ELSE Add(k[t \ {Max(t)}], ps[Max(t)])]
               /\ AllSlashed(at, ps, reason) = k[S]
  BY <1>1, <1>6 DEF AllSlashed, FoldLeft, MapThenFoldSet, Add, base
<1>8. k[{}] \in A
  BY <1>3, <1>7
<1>9. ASSUME NEW i \in 1 .. n, k[1 .. i - 1] \in A PROVE k[1 .. i] = F[<<i, k[1 .. i - 1]>>]
  <2>1. 1 .. i \in SUBSET S /\ 1 .. i # {} /\ Max(1 .. i) = i /\ (1 .. i) \ {i} = 1 .. i - 1
    BY <1>1, MaxPrefix
  <2>2. k[1 .. i] = Add(k[1 .. i - 1], ps[i])
    BY <1>7, <2>1
  <2> QED
    BY <1>9, <2>2
<1> HIDE DEF F, n
<1>10. k[S] \in A
  BY <1>1, <1>3, <1>8, <1>9, FoldEnd
<1> QED
  BY <1>7, <1>10 DEF A, base

\* A reward is a number.
LEMMA RewardIs == ASSUME NEW p, Submitted(p) PROVE RewardOf(p) \in Nat
<1>1. RangeLen(p) \in Nat
  BY DEF Submitted, RangeLen, Minus
<1> DEFINE a == RewardPerBlock * RangeLen(p) * HalfLife
           b == p.lag + HalfLife
<1>2. a \in Nat
  BY <1>1, McAssumption
<1>3. b \in Nat \ {0}
  BY McAssumption DEF Submitted
<1> HIDE DEF a, b
<1>4. a \div b \in Nat
  BY <1>2, <1>3
<1> QED
  BY <1>4 DEF RewardOf, a, b

\* The reward of one proof.
LEMMA CreditedKeeps ==
  ASSUME NEW m \in CreditBooks, NEW p, Submitted(p)
  PROVE  Credited(m, p) \in CreditBooks
<1> DEFINE paid == Min({RewardOf(p), m.treasury})
           D == Provers \cup {Sealer}
           f == m.credits
           g == [f EXCEPT ![p.prover] = @ + paid]
<1>1. m.treasury \in Nat /\ f \in [D -> Nat] /\ p.prover \in D /\ m.treasury + CreditSum(f) = Treasury
  BY DEF CreditBooks, Submitted
<1>2. paid \in Nat /\ paid <= m.treasury
  <2>1. RewardOf(p) \in Nat
    BY RewardIs
  <2>2. paid = IF RewardOf(p) <= m.treasury THEN RewardOf(p) ELSE m.treasury
    BY <1>1, <2>1, MaxOfTwo
  <2> HIDE DEF paid
  <2> QED
    BY <1>1, <2>1, <2>2
<1> HIDE DEF paid
<1>3. g \in [D -> Nat] /\ g[p.prover] = f[p.prover] + paid /\ \A x \in D \ {p.prover} : g[x] = f[x]
  BY <1>1, <1>2
<1>4. IsFiniteSet(D)
  BY FS_AddElement, McAssumption
<1>5. CreditSum(f) = Total(f) /\ CreditSum(g) = Total(g)
  <2>1. f = [x \in DOMAIN f |-> f[x]] /\ g = [x \in DOMAIN g |-> g[x]]
    BY <1>1, <1>3
  <2> HIDE DEF f, g
  <2> QED
    BY <2>1 DEF CreditSum, SumOver
<1> HIDE DEF f, g, D
<1>6. Total(g) + f[p.prover] = Total(f) + g[p.prover] /\ Total(f) \in Nat /\ Total(g) \in Nat
  BY <1>1, <1>3, <1>4, TotalChange, TotalNat
<1>7. f[p.prover] \in Nat
  BY <1>1
<1>8. (m.treasury - paid) \in Nat /\ (m.treasury - paid) + CreditSum(g) = Treasury
  BY <1>1, <1>2, <1>3, <1>5, <1>6, <1>7
<1>9. [treasury |-> m.treasury - paid, credits |-> g] \in CreditBooks
  BY <1>3, <1>8 DEF CreditBooks, D
<1> QED
  BY <1>9 DEF Credited, paid, f, g

\* The rewards of a round.
LEMMA RoundCredited ==
  ASSUME NEW B, \A p \in B : Submitted(p), NEW ps \in Seq(B),
         [treasury |-> mcTreasury, credits |-> mcCredits] \in CreditBooks
  PROVE  FoldLeft(Credited, [treasury |-> mcTreasury, credits |-> mcCredits], ps) \in CreditBooks
<1> DEFINE n == Len(ps)
           S == 1 .. n
           A == CreditBooks
           base == [treasury |-> mcTreasury, credits |-> mcCredits]
           Add(m, p) == Credited(m, p)
           F == [q \in S \X A |-> Add(q[2], ps[q[1]])]
<1>1. n \in Nat /\ DOMAIN ps = S /\ \A i \in S : ps[i] \in B
  OBVIOUS
<1>2. \A a \in A, i \in S : Add(a, ps[i]) \in A
  BY <1>1, CreditedKeeps
<1> HIDE DEF Add, A, base
<1>3. F \in [S \X A -> A] /\ base \in A
  BY <1>2 DEF base, A
<1>4. PICK h : SolvesFold(h, n, A, base, F)
  <2> HIDE DEF F, n
  <2> QED
    BY <1>1, <1>3, FoldStart
<1>5. h = [t \in SUBSET S |-> IF t = {} THEN base ELSE Add(h[t \ {Max(t)}], ps[Max(t)])]
  <2>1. \A t \in SUBSET S : t # {} => h[t] = Add(h[t \ {Max(t)}], ps[Max(t)])
    BY <1>4 DEF SolvesFold
  <2>2. h \in [SUBSET S -> A] /\ h[{}] = base
    BY <1>4 DEF SolvesFold
  <2> HIDE DEF F, S
  <2> QED
    BY <2>1, <2>2
<1>6. \E k : k = [t \in SUBSET S |-> IF t = {} THEN base ELSE Add(k[t \ {Max(t)}], ps[Max(t)])]
  BY <1>5
<1>7. PICK k : /\ k = [t \in SUBSET S |-> IF t = {} THEN base ELSE Add(k[t \ {Max(t)}], ps[Max(t)])]
               /\ FoldLeft(Credited, base, ps) = k[S]
  BY <1>1, <1>6 DEF FoldLeft, MapThenFoldSet, Add, base
<1>8. k[{}] \in A
  BY <1>3, <1>7
<1>9. ASSUME NEW i \in 1 .. n, k[1 .. i - 1] \in A PROVE k[1 .. i] = F[<<i, k[1 .. i - 1]>>]
  <2>1. 1 .. i \in SUBSET S /\ 1 .. i # {} /\ Max(1 .. i) = i /\ (1 .. i) \ {i} = 1 .. i - 1
    BY <1>1, MaxPrefix
  <2>2. k[1 .. i] = Add(k[1 .. i - 1], ps[i])
    BY <1>7, <2>1
  <2> QED
    BY <1>9, <2>2
<1> HIDE DEF F, n
<1>10. k[S] \in A
  BY <1>1, <1>3, <1>8, <1>9, FoldEnd
<1> QED
  BY <1>7, <1>10 DEF A, base

\* The proofs with those of some digests.
LEMMA WithProofs ==
  ASSUME NEW B, NEW qs \in Seq(B), NEW ps \in Seq(B)
  PROVE  FoldLeft(WithProof, qs, ps) \in Seq(B)
<1> DEFINE n == Len(ps)
           S == 1 .. n
           A == Seq(B)
           base == qs
           Add(m, p) == WithProof(m, p)
           F == [q \in S \X A |-> Add(q[2], ps[q[1]])]
<1>1. n \in Nat /\ DOMAIN ps = S /\ \A i \in S : ps[i] \in B
  OBVIOUS
<1>2. \A a \in A, i \in S : Add(a, ps[i]) \in A
  BY <1>1 DEF WithProof
<1> HIDE DEF Add, A, base
<1>3. F \in [S \X A -> A] /\ base \in A
  BY <1>2 DEF base, A
<1>4. PICK h : SolvesFold(h, n, A, base, F)
  <2> HIDE DEF F, n
  <2> QED
    BY <1>1, <1>3, FoldStart
<1>5. h = [t \in SUBSET S |-> IF t = {} THEN base ELSE Add(h[t \ {Max(t)}], ps[Max(t)])]
  <2>1. \A t \in SUBSET S : t # {} => h[t] = Add(h[t \ {Max(t)}], ps[Max(t)])
    BY <1>4 DEF SolvesFold
  <2>2. h \in [SUBSET S -> A] /\ h[{}] = base
    BY <1>4 DEF SolvesFold
  <2> HIDE DEF F, S
  <2> QED
    BY <2>1, <2>2
<1>6. \E k : k = [t \in SUBSET S |-> IF t = {} THEN base ELSE Add(k[t \ {Max(t)}], ps[Max(t)])]
  BY <1>5
<1>7. PICK k : /\ k = [t \in SUBSET S |-> IF t = {} THEN base ELSE Add(k[t \ {Max(t)}], ps[Max(t)])]
               /\ FoldLeft(WithProof, base, ps) = k[S]
  BY <1>1, <1>6 DEF FoldLeft, MapThenFoldSet, Add, base
<1>8. k[{}] \in A
  BY <1>3, <1>7
<1>9. ASSUME NEW i \in 1 .. n, k[1 .. i - 1] \in A PROVE k[1 .. i] = F[<<i, k[1 .. i - 1]>>]
  <2>1. 1 .. i \in SUBSET S /\ 1 .. i # {} /\ Max(1 .. i) = i /\ (1 .. i) \ {i} = 1 .. i - 1
    BY <1>1, MaxPrefix
  <2>2. k[1 .. i] = Add(k[1 .. i - 1], ps[i])
    BY <1>7, <2>1
  <2> QED
    BY <1>9, <2>2
<1> HIDE DEF F, n
<1>10. k[S] \in A
  BY <1>1, <1>3, <1>8, <1>9, FoldEnd
<1> QED
  BY <1>7, <1>10 DEF A, base

\* The ranges are in an order.
LEMMA RangesOrdered ==
  ASSUME NEW mine \in SUBSET (Nat \X Nat)
  PROVE  OrdersAll({p \in mine \X mine : RangeOrder(p[1], p[2])}, mine)
<1>0. \A a \in mine : a[1] \in Nat /\ a[2] \in Nat /\ a = <<a[1], a[2]>>
  OBVIOUS
<1>1. \A a \in mine : ~RangeOrder(a, a)
  BY <1>0 DEF RangeOrder
<1>2. \A a, b, c \in mine : RangeOrder(a, b) /\ RangeOrder(b, c) => RangeOrder(a, c)
  BY <1>0 DEF RangeOrder
<1>3. \A a, b \in mine : a # b => RangeOrder(a, b) \/ RangeOrder(b, a)
  BY <1>0 DEF RangeOrder
<1> QED
  BY <1>1, <1>2, <1>3 DEF OrdersAll

\* What is flushed with the digests of V.
FlushBooks(V, B) ==
  [digests: UNION {[K -> V] : K \in SUBSET DOMAIN mcDigests}, proofs: Seq(B)]

\* The digests of one shard.
LEMMA FlushShardKeeps ==
  ASSUME NEW V, NEW B, NEW acc \in FlushBooks(V, B), NEW s,
         IsFiniteSet(DOMAIN mcDigests), DOMAIN mcDigests \subseteq Nat \X Nat,
         \A k \in Nat \X Nat, d \in V : DigestSubmission(s, k, d) \in B
  PROVE  FlushShard(acc, s) \in FlushBooks(V, B)
<1> DEFINE mine == {k \in DOMAIN acc.digests : k[2] <= mcAnchors[s].height}
           r == {p \in mine \X mine : RangeOrder(p[1], p[2])}
           due == InPlaces(mine, r)
           ps == [i \in DOMAIN due |-> DigestSubmission(s, due[i], acc.digests[due[i]])]
           left == Without(acc.digests, mine)
<1>1. PICK K \in SUBSET DOMAIN mcDigests : acc.digests \in [K -> V]
  BY DEF FlushBooks
<1>2. acc.proofs \in Seq(B)
  BY DEF FlushBooks
<1>3. mine \subseteq K /\ mine \in SUBSET (Nat \X Nat) /\ IsFiniteSet(mine)
  BY <1>1, FS_Subset
<1>4. OrdersAll(r, mine)
  <2> HIDE DEF mine
  <2> QED
    BY <1>3, RangesOrdered
<1>5. due \in Seq(mine)
  <2> HIDE DEF mine, r
  <2> QED
    BY <1>3, <1>4, InPlacesIs
<1> HIDE DEF due, r, mine
<1>6. Len(due) \in Nat /\ DOMAIN due = 1 .. Len(due) /\ \A i \in DOMAIN due : due[i] \in mine
  BY <1>5
<1>7. \A i \in DOMAIN due : DigestSubmission(s, due[i], acc.digests[due[i]]) \in B
  <2> SUFFICES ASSUME NEW i \in DOMAIN due PROVE DigestSubmission(s, due[i], acc.digests[due[i]]) \in B
    OBVIOUS
  <2>1. due[i] \in Nat \X Nat /\ acc.digests[due[i]] \in V
    BY <1>1, <1>3, <1>6
  <2> QED
    BY <2>1
<1>8. ps \in Seq(B)
  BY <1>6, <1>7
<1>9. left \in [K \ mine -> V]
  BY <1>1 DEF Without
<1> HIDE DEF ps, left
<1>10. FoldLeft(WithProof, acc.proofs, ps) \in Seq(B)
  BY <1>2, <1>8, WithProofs
<1>11. [digests |-> left, proofs |-> FoldLeft(WithProof, acc.proofs, ps)] \in FlushBooks(V, B)
  BY <1>9, <1>10 DEF FlushBooks
<1> QED
  BY <1>11 DEF FlushShard, mine, r, due, ps, left

\* And of all shards.
LEMMA FlushKeeps ==
  ASSUME NEW V, NEW B, [digests |-> mcDigests, proofs |-> mcProofs] \in FlushBooks(V, B),
         IsFiniteSet(DOMAIN mcDigests), DOMAIN mcDigests \subseteq Nat \X Nat,
         IsFiniteSet(DOMAIN mcAnchors), DOMAIN mcAnchors \subseteq Nat,
         \A s \in DOMAIN mcAnchors, k \in Nat \X Nat, d \in V : DigestSubmission(s, k, d) \in B
  PROVE  FlushedDigests \in FlushBooks(V, B)
<1> DEFINE D == DOMAIN mcAnchors
           r == {p \in D \X D : p[1] < p[2]}
           ps == InPlaces(D, r)
           n == Len(ps)
           S == 1 .. n
           A == FlushBooks(V, B)
           base == [digests |-> mcDigests, proofs |-> mcProofs]
           Add(m, s) == FlushShard(m, s)
           F == [q \in S \X A |-> Add(q[2], ps[q[1]])]
<1>0. ps \in Seq(D)
  <2>1. OrdersAll(r, D)
    BY DEF OrdersAll
  <2> HIDE DEF D, r
  <2> QED
    BY <2>1, InPlacesIs DEF D
<1> HIDE DEF ps
<1>1. n \in Nat /\ DOMAIN ps = S /\ \A i \in S : ps[i] \in D
  BY <1>0
<1>2. \A a \in A, i \in S : Add(a, ps[i]) \in A
  BY <1>1, FlushShardKeeps
<1> HIDE DEF Add, A, base
<1>3. F \in [S \X A -> A] /\ base \in A
  BY <1>2 DEF base, A
<1>4. PICK h : SolvesFold(h, n, A, base, F)
  <2> HIDE DEF F, n
  <2> QED
    BY <1>1, <1>3, FoldStart
<1>5. h = [t \in SUBSET S |-> IF t = {} THEN base ELSE Add(h[t \ {Max(t)}], ps[Max(t)])]
  <2>1. \A t \in SUBSET S : t # {} => h[t] = Add(h[t \ {Max(t)}], ps[Max(t)])
    BY <1>4 DEF SolvesFold
  <2>2. h \in [SUBSET S -> A] /\ h[{}] = base
    BY <1>4 DEF SolvesFold
  <2> HIDE DEF F, S
  <2> QED
    BY <2>1, <2>2
<1>6. \E k : k = [t \in SUBSET S |-> IF t = {} THEN base ELSE Add(k[t \ {Max(t)}], ps[Max(t)])]
  BY <1>5
<1>7. PICK k : /\ k = [t \in SUBSET S |-> IF t = {} THEN base ELSE Add(k[t \ {Max(t)}], ps[Max(t)])]
               /\ FoldLeft(FlushShard, base, ps) = k[S]
  BY <1>1, <1>6 DEF FoldLeft, MapThenFoldSet, Add, base
<1>8. k[{}] \in A
  BY <1>3, <1>7
<1>9. ASSUME NEW i \in 1 .. n, k[1 .. i - 1] \in A PROVE k[1 .. i] = F[<<i, k[1 .. i - 1]>>]
  <2>1. 1 .. i \in SUBSET S /\ 1 .. i # {} /\ Max(1 .. i) = i /\ (1 .. i) \ {i} = 1 .. i - 1
    BY <1>1, MaxPrefix
  <2>2. k[1 .. i] = Add(k[1 .. i - 1], ps[i])
    BY <1>7, <2>1
  <2> QED
    BY <1>9, <2>2
<1> HIDE DEF F, n
<1>10. k[S] \in A
  BY <1>1, <1>3, <1>8, <1>9, FoldEnd
<1>11. FlushedDigests = FoldLeft(FlushShard, base, ps)
  BY DEF FlushedDigests, ps, r, D, base
<1> QED
  BY <1>7, <1>10, <1>11 DEF A
-----------------------------------------------------------------------------
StatementDigests == {s.digest : s \in Statements}

\* What a round may have to look at: submissions of provers and the node's own.
RangeProofs ==
  {p \in Submissions : p.prover \in Provers}
    \cup {DigestSubmission(x[1], x[2], x[3]) : x \in Shards \X (Nat \X Nat) \X StatementDigests}

SlashReasons ==
  {"duplicate", "aggregator", "missing verified", "empty digest", "bad range", "unknown shard", "exceeds anchor", "none"}

SlashEvents == [evidence: [height: Nat, sub: RangeProofs, reason: SlashReasons], burned: Nat]

AnchorMaps == UNION {[D -> [height: Nat, root: Roots]] : D \in SUBSET Shards}

\* No shard's anchor in b is older than in a.
NotBehind(a, b) == \A s \in DOMAIN a : s \in DOMAIN b /\ a[s].height <= b[s].height

AnchorsInv == mcAnchors \in AnchorMaps /\ IsFiniteSet(DOMAIN mcAnchors)

DigestsInv ==
  /\ IsFiniteSet(DOMAIN mcDigests) /\ DOMAIN mcDigests \subseteq Nat \X Nat
  /\ mcDigests \in [DOMAIN mcDigests -> StatementDigests]

BondsInv == [slashes |-> mcSlashes, provers |-> mcProvers] \in BondBooks(SlashEvents, mcBonded)

CreditsInv == [treasury |-> mcTreasury, credits |-> mcCredits] \in CreditBooks

\* The blocks are behind the ledger.
BlocksInv ==
  /\ \E X : mcBlocks \in Seq(X)
  /\ \A i \in DOMAIN mcBlocks :
       /\ mcBlocks[i].height \in Nat /\ mcBlocks[i].height <= registry.height
       /\ mcBlocks[i].anchors \in AnchorMaps /\ NotBehind(mcBlocks[i].anchors, mcAnchors)
  /\ SealedWithinAnchor /\ BlocksAdvance

McInv ==
  /\ ZonesInv /\ AnchorsInv /\ DigestsInv /\ mcProofs \in Seq(RangeProofs)
  /\ BondsInv /\ CreditsInv /\ BlocksInv

\* What a round looks at is a proof of a range by someone who has an account.
LEMMA RangeProofsAre == \A p \in RangeProofs : Submitted(p)
<1> SUFFICES ASSUME NEW p \in RangeProofs PROVE Submitted(p)
  OBVIOUS
<1>1. CASE p \in Submissions /\ p.prover \in Provers
  BY <1>1, McAssumption DEF Submitted
<1>2. CASE \E x \in Shards \X (Nat \X Nat) \X StatementDigests : p = DigestSubmission(x[1], x[2], x[3])
  <2>1. PICK x \in Shards \X (Nat \X Nat) \X StatementDigests : p = DigestSubmission(x[1], x[2], x[3])
    BY <1>2
  <2>2. x[2] \in Nat \X Nat
    OBVIOUS
  <2>3. x[2][1] \in Nat /\ x[2][2] \in Nat
    BY <2>2
  <2> QED
    BY <2>1, <2>3 DEF DigestSubmission, Submitted
<1> QED
  BY <1>1, <1>2 DEF RangeProofs

\* The error of a submission is one of the reasons.
LEMMA ErrorIsReason ==
  ASSUME NEW p, NEW a
  PROVE  /\ SubmissionError(p, a) \in SlashReasons
         /\ SubmissionError(p, a) = "none" =>
              ~(p.start > p.end) /\ p.shard \in DOMAIN a /\ ~(p.end > a[p.shard].height)
BY DEF SubmissionError, SlashReasons

\* A fault names submissions of the round; without one they are all in order.
LEMMA RoundFaultIs ==
  ASSUME NEW B, NEW ps \in Seq(B), NEW verified
  PROVE  /\ RoundFault(ps, verified).culprits \in Seq(B) /\ RoundFault(ps, verified).reason \in SlashReasons
         /\ RoundFault(ps, verified).reason = "none" =>
              /\ \A i \in DOMAIN ps : SubmissionError(ps[i], mcAnchors) = "none"
              /\ ~ \E i, j \in DOMAIN ps : i < j /\ SameRange(ps[i], ps[j])
<1> DEFINE invalid == {i \in DOMAIN ps : SubmissionError(ps[i], mcAnchors) # "none"}
           missing == {i \in DOMAIN ps : ~\E s \in verified : SameRange(s, ps[i]) /\ s.digest = ps[i].digest}
           first(S) == ps[CHOOSE i \in S : \A j \in S : i <= j]
           dup == \E i, j \in DOMAIN ps : i < j /\ SameRange(ps[i], ps[j])
           fault == RoundFault(ps, verified)
<1>1. ASSUME NEW S \in SUBSET DOMAIN ps, S # {}
      PROVE  \E i \in S : first(S) = ps[i]
  <2>1. S \in SUBSET Nat
    OBVIOUS
  <2>2. \E i \in S : \A j \in S : i <= j
    BY <1>1, <2>1, NatMin
  <2> QED
    BY <2>2
<1>2. \A i \in DOMAIN ps : ps[i] \in B
  OBVIOUS
<1>3. invalid # {} => first(invalid) \in B /\ SubmissionError(first(invalid), mcAnchors) # "none"
  <2> SUFFICES ASSUME invalid # {} PROVE first(invalid) \in B /\ SubmissionError(first(invalid), mcAnchors) # "none"
    OBVIOUS
  <2>1. PICK i \in invalid : first(invalid) = ps[i]
    BY <1>1
  <2> HIDE DEF first
  <2> QED
    BY <1>2, <2>1
<1>4. missing # {} => first(missing) \in B
  <2> SUFFICES ASSUME missing # {} PROVE first(missing) \in B
    OBVIOUS
  <2>1. PICK i \in missing : first(missing) = ps[i]
    BY <1>1
  <2> HIDE DEF first
  <2> QED
    BY <1>2, <2>1
<1>5. fault = IF dup THEN [culprits |-> ps, reason |-> "duplicate"]
     ELSE IF invalid # {} THEN [culprits |-> <<first(invalid)>>, reason |-> SubmissionError(first(invalid), mcAnchors)]
     ELSE IF RequireVerified /\ missing # {} THEN [culprits |-> <<first(missing)>>, reason |-> "missing verified"]
     ELSE IF Len(ps) > MaxAggProofs THEN [culprits |-> ps, reason |-> "aggregator"]
     ELSE [culprits |-> <<>>, reason |-> "none"]
  BY DEF RoundFault
<1>6. invalid = {} => \A i \in DOMAIN ps : SubmissionError(ps[i], mcAnchors) = "none"
  OBVIOUS
<1> HIDE DEF invalid, missing, first, dup, fault
<1>7. <<>> \in Seq(B) /\ \A x \in B : <<x>> \in Seq(B)
  OBVIOUS
<1>8. SubmissionError(first(invalid), mcAnchors) \in SlashReasons
  BY ErrorIsReason
<1>9. fault.culprits \in Seq(B) /\ fault.reason \in SlashReasons /\ (fault.reason = "none" => ~dup /\ invalid = {})
  <2>1. CASE dup
    BY <1>5, <2>1 DEF SlashReasons
  <2>2. CASE ~dup /\ invalid # {}
    BY <1>3, <1>5, <1>7, <1>8, <2>2
  <2>3. CASE ~dup /\ invalid = {} /\ RequireVerified /\ missing # {}
    BY <1>4, <1>5, <1>7, <2>3 DEF SlashReasons
  <2>4. CASE ~dup /\ invalid = {} /\ ~(RequireVerified /\ missing # {})
    BY <1>5, <1>7, <2>4 DEF SlashReasons
  <2> QED
    BY <2>1, <2>2, <2>3, <2>4
<1> QED
  BY <1>6, <1>9 DEF fault, dup

\* The ledger at the start.
LEMMA McStart == ASSUME McInit PROVE McInv
<1>1. ZonesInv
  BY ZonesStart DEF McInit
<1>2. IsFiniteSet({}) /\ DOMAIN Empty = {}
  BY FS_EmptySet DEF Empty
<1>3. AnchorsInv
  <2>1. mcAnchors = Empty
    BY DEF McInit
  <2>2. Empty \in [{} -> [height: Nat, root: Roots]]
    BY DEF Empty
  <2> QED
    BY <1>2, <2>1, <2>2 DEF AnchorsInv, AnchorMaps
<1>4. DigestsInv
  BY <1>2 DEF McInit, DigestsInv, Empty
<1>5. BondsInv
  <2>1. mcSlashes = <<>> /\ mcProvers = Empty /\ mcBonded = 0
    BY DEF McInit
  <2> DEFINE a == [p \in {} |-> Empty[p].bond]
             b == [i \in {} |-> <<>>[i].burned]
  <2>2. Bonded(Empty) = Total(a) /\ Burned(<<>>) = Total(b)
    BY <1>2 DEF Bonded, Burned, SumOver, SumSeq
  <2>3. Total(a) = 0 /\ Total(b) = 0
    BY TotalEmpty
  <2>4. Empty \in ProverMaps
    <3>1. Empty \in [{} -> BondRecords]
      BY DEF Empty
    <3> QED
      BY <3>1 DEF ProverMaps
  <2>5. 0 = Bonded(Empty) + Burned(<<>>)
    BY <2>2, <2>3
  <2>6. <<>> \in Seq(SlashEvents)
    OBVIOUS
  <2>7. [slashes |-> <<>>, provers |-> Empty] \in BondBooks(SlashEvents, 0)
    BY <2>4, <2>5, <2>6 DEF BondBooks
  <2> QED
    BY <2>1, <2>7 DEF BondsInv
<1>6. CreditsInv
  <2> DEFINE D == Provers \cup {Sealer}
             f == [p \in D |-> 0]
  <2>1. mcTreasury = Treasury /\ mcCredits = f /\ f \in [D -> Nat] /\ Treasury \in Nat
    BY McAssumption DEF McInit
  <2>2. IsFiniteSet(D)
    BY FS_AddElement, McAssumption
  <2>3. CreditSum(f) = Total(f)
    BY DEF CreditSum, SumOver
  <2>4. Total(f) = 0
    <3>1. Cardinality(D) \in Nat /\ Total(f) = Cardinality(D) * 0
      BY <2>2, TotalConstant, FS_CardinalityType
    <3> QED
      BY <3>1
  <2> HIDE DEF f, D
  <2>5. [treasury |-> Treasury, credits |-> f] \in CreditBooks
    BY <2>1, <2>3, <2>4 DEF CreditBooks, D
  <2> QED
    BY <2>1, <2>5 DEF CreditsInv
<1>7. BlocksInv
  <2>1. mcBlocks = <<>> /\ <<>> \in Seq({})
    BY DEF McInit
  <2> QED
    BY <2>1 DEF BlocksInv, SealedWithinAnchor, BlocksAdvance
<1>8. mcProofs \in Seq(RangeProofs)
  BY DEF McInit
<1> QED
  BY <1>1, <1>3, <1>4, <1>5, <1>6, <1>7, <1>8 DEF McInv
-----------------------------------------------------------------------------
\* What is in the books of the bonds.
LEMMA BooksAre ==
  ASSUME NEW E, \A e \in E : e.burned \in Nat, NEW c, NEW m \in BondBooks(E, c)
  PROVE  /\ m.slashes \in Seq(E) /\ m.provers \in ProverMaps
         /\ Bonded(m.provers) \in Nat /\ Burned(m.slashes) \in Nat
         /\ c = Bonded(m.provers) + Burned(m.slashes)
<1>1. m.slashes \in Seq(E) /\ m.provers \in ProverMaps /\ c = Bonded(m.provers) + Burned(m.slashes)
  BY DEF BondBooks
<1>2. Bonded(m.provers) \in Nat
  <2>1. PICK D \in SUBSET Provers : m.provers \in [D -> BondRecords]
    BY <1>1 DEF ProverMaps
  <2> DEFINE a == [y \in D |-> m.provers[y].bond]
  <2>2. a \in [D -> Nat] /\ IsFiniteSet(D) /\ DOMAIN m.provers = D
    BY <2>1, FS_Subset, McAssumption DEF BondRecords
  <2>3. Total(a) = Bonded(m.provers)
    BY <2>2 DEF SumOver, Bonded
  <2> HIDE DEF a
  <2> QED
    BY <2>2, <2>3, TotalNat
<1>3. Burned(m.slashes) \in Nat
  <2> DEFINE s == m.slashes
             a == [i \in DOMAIN s |-> s[i].burned]
  <2>1. Len(s) \in Nat /\ DOMAIN s = 1 .. Len(s) /\ \A i \in DOMAIN s : s[i] \in E
    BY <1>1
  <2> DEFINE I == 1 .. Len(s)
  <2>2. IsFiniteSet(I)
    BY <2>1, FS_Interval
  <2>3. a \in [I -> Nat]
    <3>1. \A i \in DOMAIN s : s[i].burned \in Nat
      BY <2>1
    <3> HIDE DEF s
    <3> QED
      BY <2>1, <3>1
  <2>4. Total(a) = Burned(s)
    BY DEF SumSeq, SumOver, Burned
  <2> HIDE DEF a, s, I
  <2>5. Total(a) \in Nat
    BY <2>2, <2>3, TotalNat
  <2> QED
    BY <2>4, <2>5 DEF s
<1> QED
  BY <1>1, <1>2, <1>3

\* A slash event burns a number.
LEMMA EventsBurn == \A e \in SlashEvents : e.burned \in Nat
BY DEF SlashEvents

\* The blocks stay behind a ledger that goes on.
LEMMA BlocksStay ==
  ASSUME BlocksInv, UNCHANGED mcBlocks, registry.height \in Nat, registry'.height \in Nat,
         registry.height <= registry'.height, mcAnchors \in AnchorMaps, mcAnchors' \in AnchorMaps,
         NotBehind(mcAnchors, mcAnchors')
  PROVE  BlocksInv'
<1>1. ASSUME NEW i \in DOMAIN mcBlocks
      PROVE  mcBlocks[i].height <= registry'.height /\ NotBehind(mcBlocks[i].anchors, mcAnchors')
  <2> DEFINE a == mcBlocks[i].anchors
  <2>1. mcBlocks[i].height \in Nat /\ mcBlocks[i].height <= registry.height /\ a \in AnchorMaps /\ NotBehind(a, mcAnchors)
    BY DEF BlocksInv
  <2>2. ASSUME NEW s \in DOMAIN a PROVE s \in DOMAIN mcAnchors' /\ a[s].height <= mcAnchors'[s].height
    <3>1. s \in DOMAIN mcAnchors /\ a[s].height <= mcAnchors[s].height
      BY <2>1 DEF NotBehind
    <3>2. s \in DOMAIN mcAnchors' /\ mcAnchors[s].height <= mcAnchors'[s].height
      BY <3>1 DEF NotBehind
    <3>3. a[s].height \in Nat /\ mcAnchors[s].height \in Nat /\ mcAnchors'[s].height \in Nat
      BY <2>1, <3>1, <3>2 DEF AnchorMaps
    <3> QED
      BY <3>1, <3>2, <3>3
  <2> HIDE DEF a
  <2>3. NotBehind(a, mcAnchors')
    BY <2>2 DEF NotBehind
  <2> QED
    BY <2>1, <2>3 DEF a
<1>2. SealedWithinAnchor' /\ BlocksAdvance'
  BY DEF BlocksInv, SealedWithinAnchor, BlocksAdvance
<1> QED
  BY <1>1, <1>2 DEF BlocksInv

\* A map of anchors is not behind itself.
LEMMA NotBehindItself == ASSUME NEW a \in AnchorMaps PROVE NotBehind(a, a)
BY DEF AnchorMaps, NotBehind

\* A step that leaves zones, anchors and blocks alone.
LEMMA RoundsStay ==
  ASSUME McInv, UNCHANGED <<zoneVars, mcAnchors, mcBlocks>>
  PROVE  ZonesInv' /\ AnchorsInv' /\ BlocksInv'
<1>1. ZonesInv'
  BY ZonesKept DEF McInv
<1>2. AnchorsInv'
  BY DEF McInv, AnchorsInv
<1>3. registry.height \in Nat /\ registry' = registry
  BY DEF McInv, ZonesInv, RegistryShape, zoneVars
<1>4. BlocksInv'
  BY <1>2, <1>3, BlocksStay, NotBehindItself DEF McInv, AnchorsInv
<1> QED
  BY <1>1, <1>2, <1>4

\* A prover is registered.
LEMMA RegisterKeeps ==
  ASSUME McInv, NEW p \in Provers, NEW bond \in Bonds, RegisterProver(p, bond)
  PROVE  McInv'
<1> DEFINE f == mcProvers
           v == [bond |-> bond, active |-> TRUE]
           g == Put(f, p, v)
           m == [slashes |-> mcSlashes, provers |-> f]
<1>1. ZonesInv' /\ AnchorsInv' /\ BlocksInv'
  BY RoundsStay DEF RegisterProver
<1>2. /\ p \notin DOMAIN f /\ mcProvers' = g /\ mcBonded' = mcBonded + bond
      /\ UNCHANGED <<mcDigests, mcProofs, mcSlashes, mcTreasury, mcCredits>>
  BY DEF RegisterProver
<1>3. /\ mcSlashes \in Seq(SlashEvents) /\ f \in ProverMaps
      /\ Bonded(f) \in Nat /\ Burned(mcSlashes) \in Nat /\ mcBonded = Bonded(f) + Burned(mcSlashes)
  <2>1. m \in BondBooks(SlashEvents, mcBonded)
    BY DEF McInv, BondsInv
  <2>2. m.slashes = mcSlashes /\ m.provers = f
    OBVIOUS
  <2> HIDE DEF m
  <2> QED
    BY <2>1, <2>2, BooksAre, EventsBurn
<1>4. PICK D \in SUBSET Provers : f \in [D -> BondRecords]
  BY <1>3 DEF ProverMaps
<1>5. bond \in Nat /\ v \in BondRecords
  BY McAssumption DEF BondRecords
<1>6. DOMAIN f = D /\ p \notin D /\ g \in [D \cup {p} -> BondRecords] /\ g[p] = v /\ \A x \in D : g[x] = f[x]
  BY <1>2, <1>4, <1>5 DEF Put
<1>7. g \in ProverMaps
  BY <1>6 DEF ProverMaps
<1>8. Bonded(g) = Bonded(f) + bond
  <2> DEFINE a == [x \in D |-> f[x].bond]
             b == [x \in D \cup {p} |-> g[x].bond]
  <2>1. IsFiniteSet(D)
    BY FS_Subset, McAssumption
  <2>2. g[p].bond = bond /\ DOMAIN g = D \cup {p} /\ p \notin D
    BY <1>6
  <2> HIDE DEF g, v
  <2>3. \A x \in D : f[x].bond \in Nat /\ g[x].bond = f[x].bond
    BY <1>4, <1>6 DEF BondRecords
  <2>4. a \in [D -> Nat] /\ b \in [D \cup {p} -> Nat] /\ (\A x \in D : a[x] = b[x]) /\ b[p] = bond
    BY <1>5, <2>2, <2>3
  <2>5. DOMAIN g = D \cup {p}
    BY <2>2
  <2>6. Total(a) = Bonded(f) /\ Total(b) = Bonded(g)
    BY <1>6, <2>5 DEF Bonded, SumOver
  <2> HIDE DEF a, b
  <2>7. Total(b) = Total(a) + b[p]
    BY <2>4, <2>1, <2>2, TotalWith
  <2> QED
    BY <2>4, <2>6, <2>7
<1> HIDE DEF g
<1>9. mcBonded' = Bonded(g) + Burned(mcSlashes)
  BY <1>2, <1>3, <1>5, <1>8
<1>10. [slashes |-> mcSlashes, provers |-> g] \in BondBooks(SlashEvents, mcBonded')
  BY <1>3, <1>7, <1>9 DEF BondBooks
<1>11. BondsInv'
  BY <1>2, <1>10 DEF BondsInv
<1> QED
  BY <1>1, <1>2, <1>11 DEF McInv, DigestsInv, CreditsInv

\* A bond is topped up.
LEMMA TopUpKeeps ==
  ASSUME McInv, NEW p \in Provers, NEW n \in Bonds, TopUp(p, n)
  PROVE  McInv'
<1> DEFINE f == mcProvers
           g == [f EXCEPT ![p].bond = @ + n]
           m == [slashes |-> mcSlashes, provers |-> f]
<1>1. ZonesInv' /\ AnchorsInv' /\ BlocksInv'
  BY RoundsStay DEF TopUp
<1>2. /\ p \in DOMAIN f /\ mcProvers' = g /\ mcBonded' = mcBonded + n
      /\ UNCHANGED <<mcDigests, mcProofs, mcSlashes, mcTreasury, mcCredits>>
  BY DEF TopUp
<1>3. /\ mcSlashes \in Seq(SlashEvents) /\ f \in ProverMaps
      /\ Bonded(f) \in Nat /\ Burned(mcSlashes) \in Nat /\ mcBonded = Bonded(f) + Burned(mcSlashes)
  <2>1. m \in BondBooks(SlashEvents, mcBonded)
    BY DEF McInv, BondsInv
  <2>2. m.slashes = mcSlashes /\ m.provers = f
    OBVIOUS
  <2> HIDE DEF m
  <2> QED
    BY <2>1, <2>2, BooksAre, EventsBurn
<1>4. PICK D \in SUBSET Provers : f \in [D -> BondRecords]
  BY <1>3 DEF ProverMaps
<1>5. n \in Nat /\ DOMAIN f = D /\ p \in D /\ f[p] \in BondRecords
  BY <1>2, <1>4, McAssumption
<1>6. /\ g \in [D -> BondRecords] /\ DOMAIN g = D /\ g[p].bond = f[p].bond + n
      /\ \A x \in D \ {p} : g[x] = f[x]
  <2> DEFINE v == [f[p] EXCEPT !.bond = @ + n]
  <2>1. v \in BondRecords /\ v.bond = f[p].bond + n
    BY <1>5 DEF BondRecords
  <2>2. g = [f EXCEPT ![p] = v]
    BY <1>4, <1>5
  <2> HIDE DEF v, g
  <2> QED
    BY <1>4, <1>5, <2>1, <2>2
<1>7. g \in ProverMaps
  BY <1>6 DEF ProverMaps
<1> HIDE DEF g
<1>8. Bonded(g) = Bonded(f) + n
  <2> DEFINE a == [x \in D |-> f[x].bond]
             b == [x \in D |-> g[x].bond]
  <2>1. /\ a \in [D -> Nat] /\ b \in [D -> Nat] /\ (\A x \in D \ {p} : a[x] = b[x]) /\ b[p] = a[p] + n
        /\ IsFiniteSet(D) /\ a[p] \in Nat
    BY <1>4, <1>5, <1>6, FS_Subset, McAssumption DEF BondRecords
  <2>2. Total(a) = Bonded(f) /\ Total(b) = Bonded(g)
    BY <1>5, <1>6 DEF Bonded, SumOver
  <2> HIDE DEF a, b
  <2>3. Total(b) + a[p] = Total(a) + b[p] /\ Total(a) \in Nat /\ Total(b) \in Nat
    BY <1>5, <2>1, TotalChange, TotalNat
  <2>4. Total(b) = Total(a) + n
    BY <1>5, <2>1, <2>3
  <2> QED
    BY <2>2, <2>4
<1>9. mcBonded' = Bonded(g) + Burned(mcSlashes)
  BY <1>2, <1>3, <1>5, <1>8
<1>10. [slashes |-> mcSlashes, provers |-> g] \in BondBooks(SlashEvents, mcBonded')
  BY <1>3, <1>7, <1>9 DEF BondBooks
<1>11. BondsInv'
  BY <1>2, <1>10 DEF BondsInv
<1> QED
  BY <1>1, <1>2, <1>11 DEF McInv, DigestsInv, CreditsInv
-----------------------------------------------------------------------------
\* Slashing some submissions of a round, whatever the reason.
LEMMA SlashKeeps ==
  ASSUME McInv, NEW ps \in Seq(RangeProofs), NEW h \in Nat, NEW reason \in SlashReasons,
         Record(AllSlashed(h, ps, reason)), UNCHANGED mcBonded
  PROVE  BondsInv'
<1>2. \A p \in RangeProofs : \A n \in Nat : [evidence |-> Evidence(h, p, reason), burned |-> n] \in SlashEvents
  BY DEF SlashEvents, Evidence
<1>3. AllSlashed(h, ps, reason) \in BondBooks(SlashEvents, mcBonded)
  BY <1>2, AllSlashedKeeps, EventsBurn DEF McInv, BondsInv
<1>4. PICK m \in BondBooks(SlashEvents, mcBonded) : mcSlashes' = m.slashes /\ mcProvers' = m.provers
  BY <1>3 DEF Record
<1>5. m = [slashes |-> m.slashes, provers |-> m.provers]
  BY DEF BondBooks
<1>6. [slashes |-> mcSlashes', provers |-> mcProvers'] \in BondBooks(SlashEvents, mcBonded)
  BY <1>4, <1>5
<1> QED
  BY <1>6 DEF BondsInv

\* A proof is submitted, or its prover slashed.
LEMMA SubmitProofKeeps ==
  ASSUME McInv, NEW p \in Submissions, SubmitProof(p)
  PROVE  McInv'
<1> DEFINE e == SubmissionError(p, mcAnchors)
           bad == e # "none" /\ (mcAnchors # Empty \/ e \in {"empty digest", "bad range"})
<1>1. ZonesInv' /\ AnchorsInv' /\ BlocksInv'
  BY RoundsStay DEF SubmitProof
<1>2. UNCHANGED <<mcDigests, mcTreasury, mcCredits, mcBonded>>
  BY DEF SubmitProof
<1>3. p \in RangeProofs
  <2>1. p.prover \in DOMAIN mcProvers
    BY DEF SubmitProof, MarketAccepts
  <2>2. mcProvers \in ProverMaps
    <3> DEFINE m == [slashes |-> mcSlashes, provers |-> mcProvers]
    <3>1. m \in BondBooks(SlashEvents, mcBonded) /\ m.provers = mcProvers
      BY DEF McInv, BondsInv
    <3> HIDE DEF m
    <3> QED
      BY <3>1, BooksAre, EventsBurn
  <2> QED
    BY <2>1, <2>2 DEF ProverMaps, RangeProofs
<1>4. mcProofs' \in Seq(RangeProofs) /\ BondsInv'
  <2>1. CASE bad
    <3>1. Record(AllSlashed(registry.height, <<p>>, e)) /\ UNCHANGED mcProofs /\ registry.height \in Nat
      BY <2>1 DEF SubmitProof, McInv, ZonesInv, RegistryShape
    <3>2. <<p>> \in Seq(RangeProofs) /\ e \in SlashReasons
      BY <1>3, ErrorIsReason
    <3>3. BondsInv'
      <4> HIDE DEF e
      <4> QED
        BY <1>2, <3>1, <3>2, SlashKeeps
    <3> QED
      BY <3>1, <3>3 DEF McInv
  <2>2. CASE ~bad
    <3>1. mcProofs' = Append(mcProofs, p) /\ UNCHANGED <<mcSlashes, mcProvers>>
      BY <2>2 DEF SubmitProof
    <3>2. mcProofs \in Seq(RangeProofs) /\ BondsInv
      BY DEF McInv
    <3>3. Append(mcProofs, p) \in Seq(RangeProofs)
      BY <1>3, <3>2
    <3> QED
      BY <1>2, <3>1, <3>2, <3>3 DEF BondsInv
  <2> QED
    BY <2>1, <2>2
<1> QED
  BY <1>1, <1>2, <1>4 DEF McInv, DigestsInv, CreditsInv

\* A digest is recorded.
LEMMA StatementKeeps ==
  ASSUME McInv, NEW s \in Statements, NEW v, RecordStatement(s, v)
  PROVE  McInv'
<1> DEFINE k == <<s.start, s.end>>
<1>1. ZonesInv' /\ AnchorsInv' /\ BlocksInv'
  BY RoundsStay DEF RecordStatement
<1>2. /\ mcDigests' = Put(mcDigests, k, s.digest)
      /\ UNCHANGED <<mcProofs, mcProvers, mcSlashes, mcTreasury, mcCredits, mcBonded>>
  BY DEF RecordStatement
<1>3. k \in Nat \X Nat /\ s.digest \in StatementDigests
  BY McAssumption DEF StatementDigests
<1> HIDE DEF k
<1>4. DOMAIN mcDigests' = DOMAIN mcDigests \cup {k} /\ mcDigests' \in [DOMAIN mcDigests \cup {k} -> StatementDigests]
  BY <1>2, <1>3 DEF Put, McInv, DigestsInv
<1>5. IsFiniteSet(DOMAIN mcDigests \cup {k})
  BY FS_AddElement DEF McInv, DigestsInv
<1>6. DigestsInv'
  BY <1>3, <1>4, <1>5 DEF McInv, DigestsInv
<1> QED
  BY <1>1, <1>2, <1>6 DEF McInv, BondsInv, CreditsInv

\* An anchor is taken.
LEMMA AnchorKeeps ==
  ASSUME McInv, NEW s \in Shards, NEW h \in 1 .. MaxAnchor, NEW r \in Roots, IngestAnchor(s, h, r)
  PROVE  McInv'
<1> DEFINE v == [height |-> h, root |-> r]
<1>1. /\ s \in DOMAIN mcAnchors => h >= mcAnchors[s].height
      /\ mcAnchors' = Put(mcAnchors, s, v)
      /\ UNCHANGED <<zoneVars, mcProofs, mcDigests, mcProvers, mcSlashes, mcTreasury, mcCredits, mcBlocks, mcBonded>>
  BY DEF IngestAnchor
<1>2. PICK D \in SUBSET Shards : mcAnchors \in [D -> [height: Nat, root: Roots]]
  BY DEF McInv, AnchorsInv, AnchorMaps
<1>3. h \in Nat /\ v \in [height: Nat, root: Roots] /\ v.height = h
  BY McAssumption
<1> HIDE DEF v
<1>4. /\ mcAnchors' \in [D \cup {s} -> [height: Nat, root: Roots]] /\ DOMAIN mcAnchors' = D \cup {s} /\ DOMAIN mcAnchors = D
      /\ mcAnchors'[s] = v /\ \A x \in D \ {s} : mcAnchors'[x] = mcAnchors[x]
  BY <1>1, <1>2, <1>3 DEF Put
<1>5. AnchorsInv'
  <2>1. IsFiniteSet(D \cup {s})
    BY <1>4, FS_AddElement DEF McInv, AnchorsInv
  <2> QED
    BY <1>4, <2>1 DEF AnchorsInv, AnchorMaps
<1>6. NotBehind(mcAnchors, mcAnchors')
  <2> SUFFICES ASSUME NEW x \in D PROVE x \in DOMAIN mcAnchors' /\ mcAnchors[x].height <= mcAnchors'[x].height
    BY <1>4 DEF NotBehind
  <2>1. mcAnchors[x].height \in Nat
    BY <1>2
  <2>2. CASE x = s
    BY <1>1, <1>3, <1>4, <2>1, <2>2
  <2>3. CASE x # s
    BY <1>4, <2>1, <2>3
  <2> QED
    BY <2>2, <2>3
<1>7. ZonesInv' /\ registry' = registry /\ registry.height \in Nat
  BY <1>1, ZonesKept DEF McInv, zoneVars, ZonesInv, RegistryShape
<1>8. BlocksInv'
  BY <1>1, <1>5, <1>6, <1>7, BlocksStay DEF McInv, AnchorsInv
<1> QED
  BY <1>1, <1>5, <1>7, <1>8 DEF McInv, DigestsInv, BondsInv, CreditsInv

\* No operation of the registry but AdvanceHeight moves its height.
LEMMA OpsKeepHeight ==
  ASSUME ZonesInv, ZoneOps \/ \E z \in DOMAIN updates : FinalizeUpdate(updates[z])
  PROVE  registry'.height = registry.height
<1>0. registry = [height |-> registry.height, zones |-> registry.zones, messages |-> registry.messages,
                 consumed |-> registry.consumed, pending |-> registry.pending, events |-> registry.events,
                 proven |-> registry.proven]
  BY DEF ZonesInv, RegistryShape
<1>1. ASSUME NEW z, CreateZone(z) \/ Drain(z) PROVE registry'.height = registry.height
  BY <1>0, <1>1 DEF CreateZone, Drain
<1>2. ASSUME NEW z, NEW h, NEW f, NEW da, BuildUpdate(z, h, f, da) PROVE registry'.height = registry.height
  BY <1>2 DEF BuildUpdate
<1>3. ASSUME NEW u, FinalizeUpdate(u) PROVE registry'.height = registry.height
  BY <1>0, <1>3 DEF FinalizeUpdate
<1>4. ASSUME NEW m, SubmitMessage(m) \/ (\E r : ConsumeMessage(m, r)) PROVE registry'.height = registry.height
  BY <1>0, <1>4 DEF SubmitMessage, ConsumeMessage
<1>5. ASSUME NEW t, SubmitForced(t) PROVE registry'.height = registry.height
  BY <1>0, <1>5 DEF SubmitForced
<1> QED
  BY <1>1, <1>2, <1>3, <1>4, <1>5 DEF ZoneOps, SubmitUpdate

\* A call of the zones' registry.
LEMMA ZoneCallKeeps == ASSUME McInv, ZoneCall PROVE McInv'
<1>1. /\ ZoneOps \/ \E z \in DOMAIN updates : FinalizeUpdate(updates[z])
      /\ UNCHANGED <<mcAnchors, mcProofs, mcDigests, mcProvers, mcSlashes, mcTreasury, mcCredits, mcBlocks, mcBonded>>
  BY DEF ZoneCall
<1>2. ZonesInv'
  BY <1>1, ZonesKept, FinalizeKept DEF McInv, ZonesNext
<1>3. registry'.height = registry.height /\ registry.height \in Nat
  BY <1>1, OpsKeepHeight DEF McInv, ZonesInv, RegistryShape
<1>4. BlocksInv'
  BY <1>1, <1>3, BlocksStay, NotBehindItself DEF McInv, AnchorsInv
<1> QED
  BY <1>1, <1>2, <1>4 DEF McInv, AnchorsInv, DigestsInv, BondsInv, CreditsInv
-----------------------------------------------------------------------------
\* A round uses up one height.
LEMMA RoundAdvances ==
  ASSUME ZonesInv, registry.height < MaxHeight, registry' = Flushed([registry EXCEPT !.height = @ + 1]),
         UNCHANGED <<updates, accepted>>
  PROVE  ZonesInv' /\ registry.height \in Nat /\ registry'.height = registry.height + 1
<1> DEFINE h == registry.height + 1
           reg == [registry EXCEPT !.height = registry.height + 1]
<1>1. registry.height \in Nat /\ h \in 0 .. MaxHeight /\ h \in Nat
  BY McAssumption DEF ZonesInv, RegistryShape
<1>2. Max({registry.height, h}) = h
  BY <1>1, MaxOfTwo
<1>3. AdvanceHeight(h)
  BY <1>2 DEF AdvanceHeight
<1>4. ZonesInv'
  BY <1>1, <1>3, ZonesKept DEF ZonesNext
<1>5. reg.height = h /\ reg = [height |-> h, zones |-> registry.zones, messages |-> registry.messages,
                 consumed |-> registry.consumed, pending |-> registry.pending, events |-> registry.events,
                 proven |-> registry.proven]
  BY DEF ZonesInv, RegistryShape
<1>6. registry' = Flushed(reg)
  OBVIOUS
<1> HIDE DEF reg, h
<1>7. registry'.height = h
  BY <1>5, <1>6 DEF Flushed
<1> QED
  BY <1>1, <1>4, <1>7 DEF h

\* The digests leave the ledger as proofs of the round.
LEMMA RoundFlushes ==
  ASSUME McInv
  PROVE  FlushedDigests \in FlushBooks(StatementDigests, RangeProofs)
<1>1. DOMAIN mcAnchors \subseteq Shards /\ DOMAIN mcAnchors \subseteq Nat /\ IsFiniteSet(DOMAIN mcAnchors)
  BY McAssumption DEF McInv, AnchorsInv, AnchorMaps
<1>2. \A s \in DOMAIN mcAnchors, k \in Nat \X Nat, d \in StatementDigests : DigestSubmission(s, k, d) \in RangeProofs
  <2> SUFFICES ASSUME NEW s \in DOMAIN mcAnchors, NEW k \in Nat \X Nat, NEW d \in StatementDigests
               PROVE  DigestSubmission(s, k, d) \in RangeProofs
    OBVIOUS
  <2> DEFINE x == <<s, k, d>>
  <2>1. x \in Shards \X (Nat \X Nat) \X StatementDigests /\ x[1] = s /\ x[2] = k /\ x[3] = d
    BY <1>1
  <2> HIDE DEF x
  <2> QED
    BY <2>1 DEF RangeProofs
<1>3. [digests |-> mcDigests, proofs |-> mcProofs] \in FlushBooks(StatementDigests, RangeProofs)
  BY DEF McInv, DigestsInv, FlushBooks
<1> QED
  BY <1>1, <1>2, <1>3, FlushKeeps DEF McInv, DigestsInv

\* The sequence with one more block.
LEMMA LastBlock ==
  ASSUME NEW s, \E X : s \in Seq(X), NEW b, NEW t, t = Append(s, b)
  PROVE  /\ \E X : t \in Seq(X)
         /\ Len(t) \in Nat /\ Len(t) \in DOMAIN t /\ t[Len(t)] = b
         /\ \A i \in DOMAIN s : i \in DOMAIN t /\ t[i] = s[i] /\ i \in Nat /\ i < Len(t)
         /\ \A i \in DOMAIN t : i \in DOMAIN s \/ i = Len(t)
BY Appended

\* The blocks with one more.
LEMMA BlocksGrow ==
  ASSUME \E X : mcBlocks \in Seq(X), NEW b, mcBlocks' = Append(mcBlocks, b), NEW n, n = Len(mcBlocks')
  PROVE  /\ \E X : mcBlocks' \in Seq(X)
         /\ n \in Nat /\ n \in DOMAIN mcBlocks' /\ mcBlocks'[n] = b
         /\ \A i \in DOMAIN mcBlocks : i \in DOMAIN mcBlocks' /\ mcBlocks'[i] = mcBlocks[i] /\ i \in Nat /\ i < n
         /\ \A i \in DOMAIN mcBlocks' : i \in DOMAIN mcBlocks \/ i = n
BY LastBlock

\* A block is sealed with proofs that are in order.
LEMMA SealKeepsBlocks ==
  ASSUME McInv, NEW ps \in Seq(RangeProofs), Seal(ps), UNCHANGED mcAnchors, registry'.height = registry.height + 1,
         registry.height \in Nat,
         \A i \in DOMAIN ps : SubmissionError(ps[i], mcAnchors) = "none",
         ~ \E i, j \in DOMAIN ps : i < j /\ SameRange(ps[i], ps[j])
  PROVE  BlocksInv'
<1>1. PICK b : /\ mcBlocks' = Append(mcBlocks, b)
               /\ b.height = registry'.height /\ b.anchors = mcAnchors /\ b.proofs = ps
  BY DEF Seal
<1> DEFINE n == Len(mcBlocks')
<1>2. /\ \E X : mcBlocks' \in Seq(X)
      /\ n \in Nat /\ n \in DOMAIN mcBlocks' /\ mcBlocks'[n] = b
      /\ \A i \in DOMAIN mcBlocks : i \in DOMAIN mcBlocks' /\ mcBlocks'[i] = mcBlocks[i] /\ i \in Nat /\ i < n
      /\ \A i \in DOMAIN mcBlocks' : i \in DOMAIN mcBlocks \/ i = n
  <2>1. mcBlocks' = Append(mcBlocks, b) /\ \E X : mcBlocks \in Seq(X)
    BY <1>1 DEF McInv, BlocksInv
  <2>2. n = Len(mcBlocks')
    OBVIOUS
  <2> HIDE DEF n
  <2> QED
    BY <2>1, <2>2, BlocksGrow
<1> HIDE DEF n
<1>3. mcAnchors \in AnchorMaps /\ NotBehind(mcAnchors, mcAnchors)
  BY NotBehindItself DEF McInv, AnchorsInv
<1>4. ASSUME NEW i \in DOMAIN mcBlocks
      PROVE  /\ mcBlocks[i].height \in Nat /\ mcBlocks[i].height < b.height
             /\ mcBlocks[i].anchors \in AnchorMaps /\ NotBehind(mcBlocks[i].anchors, b.anchors)
  BY <1>1 DEF McInv, BlocksInv
<1>5. ASSUME NEW i \in DOMAIN mcBlocks'
      PROVE  /\ mcBlocks'[i].height \in Nat /\ mcBlocks'[i].height <= registry'.height
             /\ mcBlocks'[i].anchors \in AnchorMaps /\ NotBehind(mcBlocks'[i].anchors, mcAnchors')
  <2>1. CASE i = n
    BY <1>1, <1>2, <1>3, <2>1
  <2>2. CASE i \in DOMAIN mcBlocks
    <3>1. mcBlocks'[i] = mcBlocks[i] /\ b.height \in Nat
      BY <1>1, <1>2, <2>2
    <3> QED
      BY <1>1, <1>4, <2>2, <3>1
  <2> QED
    BY <1>2, <2>1, <2>2
<1>6. SealedWithinAnchor'
  <2> DEFINE Within(a) ==
        /\ \A j \in DOMAIN a.proofs :
             /\ a.proofs[j].shard \in DOMAIN a.anchors /\ a.proofs[j].start <= a.proofs[j].end
             /\ a.proofs[j].end <= a.anchors[a.proofs[j].shard].height
        /\ \A j, k \in DOMAIN a.proofs : j # k => ~SameRange(a.proofs[j], a.proofs[k])
  <2>1. \A i \in DOMAIN mcBlocks : Within(mcBlocks[i])
    BY DEF McInv, BlocksInv, SealedWithinAnchor
  <2>2. ASSUME NEW j \in DOMAIN ps
        PROVE  /\ ps[j].shard \in DOMAIN mcAnchors /\ ps[j].start <= ps[j].end
               /\ ps[j].end <= mcAnchors[ps[j].shard].height
    <3>1. ~(ps[j].start > ps[j].end) /\ ps[j].shard \in DOMAIN mcAnchors /\ ~(ps[j].end > mcAnchors[ps[j].shard].height)
      BY ErrorIsReason
    <3>2. ps[j] \in RangeProofs
      OBVIOUS
    <3>3. ps[j].start \in Nat /\ ps[j].end \in Nat
      BY <3>2, RangeProofsAre DEF Submitted
    <3>4. mcAnchors[ps[j].shard].height \in Nat
      BY <1>3, <3>1 DEF AnchorMaps
    <3> QED
      BY <3>1, <3>3, <3>4
  <2>3. ASSUME NEW j \in DOMAIN ps, NEW k \in DOMAIN ps, j # k PROVE ~SameRange(ps[j], ps[k])
    <3>1. j \in Nat /\ k \in Nat
      OBVIOUS
    <3>2. j < k \/ k < j
      BY <2>3, <3>1
    <3>3. SameRange(ps[j], ps[k]) <=> SameRange(ps[k], ps[j])
      BY DEF SameRange
    <3> QED
      BY <3>2, <3>3
  <2>4. Within(b)
    BY <1>1, <2>2, <2>3
  <2> HIDE DEF Within
  <2>5. \A i \in DOMAIN mcBlocks' : Within(mcBlocks'[i])
    BY <1>2, <2>1, <2>4
  <2> QED
    BY <2>5 DEF SealedWithinAnchor, Within
<1>7. BlocksAdvance'
  <2> SUFFICES ASSUME NEW i \in DOMAIN mcBlocks', NEW j \in DOMAIN mcBlocks', i < j
               PROVE  /\ mcBlocks'[i].height < mcBlocks'[j].height
                      /\ NotBehind(mcBlocks'[i].anchors, mcBlocks'[j].anchors)
    BY DEF BlocksAdvance, NotBehind
  <2>1. i \in DOMAIN mcBlocks /\ mcBlocks'[i] = mcBlocks[i]
    <3>1. i # n
      BY <1>2
    <3> QED
      BY <1>2, <3>1
  <2>2. CASE j = n
    <3>1. mcBlocks'[j] = b
      BY <1>2, <2>2
    <3> QED
      BY <1>4, <2>1, <3>1
  <2>3. CASE j \in DOMAIN mcBlocks
    BY <1>2, <2>1, <2>3 DEF McInv, BlocksInv, BlocksAdvance, NotBehind
  <2> QED
    BY <1>2, <2>2, <2>3
<1> QED
  BY <1>2, <1>5, <1>6, <1>7 DEF BlocksInv

\* A round, sealed or failed.
LEMMA SealRoundKeeps == ASSUME McInv, SealRound PROVE McInv'
<1>1. ZonesInv' /\ registry.height \in Nat /\ registry'.height = registry.height + 1
  BY RoundAdvances DEF McInv, SealRound
<1>2. UNCHANGED <<mcAnchors, mcBonded>>
  BY DEF SealRound
<1>3. PICK flushed \in FlushBooks(StatementDigests, RangeProofs) :
        LET fault == RoundFault(flushed.proofs, mcVerified) IN
        /\ mcDigests' = flushed.digests /\ mcProofs' = <<>>
        /\ IF fault.reason = "none" THEN Seal(flushed.proofs) /\ UNCHANGED <<mcSlashes, mcProvers>>
           ELSE Record(AllSlashed(registry'.height, fault.culprits, fault.reason)) /\ UNCHANGED <<mcBlocks, mcTreasury, mcCredits, mcDirty>>
  BY RoundFlushes DEF SealRound
<1> DEFINE ps == flushed.proofs
           fault == RoundFault(ps, mcVerified)
<1>4. ps \in Seq(RangeProofs)
  BY DEF FlushBooks
<1>5. DigestsInv'
  <2>1. PICK K \in SUBSET DOMAIN mcDigests : flushed.digests \in [K -> StatementDigests]
    BY DEF FlushBooks
  <2>2. IsFiniteSet(K) /\ K \subseteq Nat \X Nat
    BY FS_Subset DEF McInv, DigestsInv
  <2> QED
    BY <1>3, <2>1, <2>2 DEF DigestsInv
<1>6. mcProofs' \in Seq(RangeProofs)
  BY <1>3
<1>7. AnchorsInv'
  BY <1>2 DEF McInv, AnchorsInv
<1>8. /\ fault.culprits \in Seq(RangeProofs) /\ fault.reason \in SlashReasons
      /\ fault.reason = "none" =>
              /\ \A i \in DOMAIN ps : SubmissionError(ps[i], mcAnchors) = "none"
              /\ ~ \E i, j \in DOMAIN ps : i < j /\ SameRange(ps[i], ps[j])
  <2> HIDE DEF ps
  <2> QED
    BY <1>4, RoundFaultIs
<1>9. /\ mcDigests' = flushed.digests /\ mcProofs' = <<>>
       /\ IF fault.reason = "none" THEN Seal(ps) /\ UNCHANGED <<mcSlashes, mcProvers>>
          ELSE Record(AllSlashed(registry'.height, fault.culprits, fault.reason)) /\ UNCHANGED <<mcBlocks, mcTreasury, mcCredits, mcDirty>>
  BY <1>3
<1> HIDE DEF ps, fault
<1>10. BondsInv' /\ CreditsInv' /\ BlocksInv'
  <2>1. CASE fault.reason = "none"
    <3>1. Seal(ps) /\ UNCHANGED <<mcSlashes, mcProvers>>
      BY <1>9, <2>1
    <3>2. BondsInv'
      BY <1>2, <3>1 DEF McInv, BondsInv
    <3>3. BlocksInv'
      BY <1>1, <1>2, <1>4, <1>8, <2>1, <3>1, SealKeepsBlocks
    <3>4. CreditsInv'
      <4>1. FoldLeft(Credited, [treasury |-> mcTreasury, credits |-> mcCredits], ps) \in CreditBooks
        BY <1>4, RoundCredited, RangeProofsAre DEF McInv, CreditsInv
      <4>2. PICK paid \in CreditBooks : mcTreasury' = paid.treasury /\ mcCredits' = paid.credits
        BY <3>1, <4>1 DEF Seal
      <4>3. paid = [treasury |-> paid.treasury, credits |-> paid.credits]
        BY DEF CreditBooks
      <4>4. [treasury |-> mcTreasury', credits |-> mcCredits'] \in CreditBooks
        BY <4>2, <4>3
      <4> QED
        BY <4>4 DEF CreditsInv
    <3> QED
      BY <3>2, <3>3, <3>4
  <2>2. CASE fault.reason # "none"
    <3>1. Record(AllSlashed(registry'.height, fault.culprits, fault.reason)) /\ UNCHANGED <<mcBlocks, mcTreasury, mcCredits>>
      BY <1>9, <2>2
    <3>2. BondsInv'
      <4>1. registry'.height \in Nat
        BY <1>1
      <4> QED
        BY <1>2, <1>8, <3>1, <4>1, SlashKeeps
    <3>3. BlocksInv'
      BY <1>1, <1>2, <1>7, <3>1, BlocksStay, NotBehindItself DEF McInv, AnchorsInv
    <3>4. CreditsInv'
      BY <3>1 DEF McInv, CreditsInv
    <3> QED
      BY <3>2, <3>3, <3>4
  <2> QED
    BY <2>1, <2>2
<1> QED
  BY <1>1, <1>5, <1>6, <1>7, <1>10 DEF McInv

\* Every step keeps the invariant.
LEMMA McKept == ASSUME McInv, [McNext]_mcVars PROVE McInv'
<1>1. CASE \E p \in Provers, n \in Bonds : RegisterProver(p, n) \/ TopUp(p, n)
  BY <1>1, RegisterKeeps, TopUpKeeps
<1>2. CASE \E p \in Submissions : SubmitProof(p)
  BY <1>2, SubmitProofKeeps
<1>3. CASE \E s \in Statements, v \in BOOLEAN : RecordStatement(s, v)
  BY <1>3, StatementKeeps
<1>4. CASE \E s \in Shards, h \in 1..MaxAnchor, r \in Roots : IngestAnchor(s, h, r)
  BY <1>4, AnchorKeeps
<1>5. CASE \E m \in ShardMessages : SubmitShardMessage(m)
  <2>1. /\ UNCHANGED <<zoneVars, mcAnchors, mcBlocks>>
        /\ UNCHANGED <<mcProofs, mcDigests, mcProvers, mcSlashes, mcTreasury, mcCredits, mcBonded>>
    BY <1>5 DEF SubmitShardMessage
  <2>2. ZonesInv' /\ AnchorsInv' /\ BlocksInv'
    BY <2>1, RoundsStay
  <2> QED
    BY <2>1, <2>2 DEF McInv, DigestsInv, BondsInv, CreditsInv
<1>6. CASE ZoneCall
  BY <1>6, ZoneCallKeeps
<1>7. CASE SealRound
  BY <1>7, SealRoundKeeps
<1>8. CASE IngestMcTimeout \/ UNCHANGED mcVars
  <2>1. /\ UNCHANGED <<zoneVars, mcAnchors, mcBlocks>>
        /\ UNCHANGED <<mcProofs, mcDigests, mcProvers, mcSlashes, mcTreasury, mcCredits, mcBonded>>
    BY <1>8 DEF IngestMcTimeout, mcVars, ledgerStateVars
  <2>2. ZonesInv' /\ AnchorsInv' /\ BlocksInv'
    BY <2>1, RoundsStay
  <2> QED
    BY <2>1, <2>2 DEF McInv, DigestsInv, BondsInv, CreditsInv
<1> QED
  BY <1>1, <1>2, <1>3, <1>4, <1>5, <1>6, <1>7, <1>8 DEF McNext

\* The invariant is enough.
LEMMA McEnough == ASSUME McInv PROVE MasterchainSafe
<1>1. BondsAccounted
  <2> DEFINE m == [slashes |-> mcSlashes, provers |-> mcProvers]
  <2>1. m \in BondBooks(SlashEvents, mcBonded) /\ m.slashes = mcSlashes /\ m.provers = mcProvers
    BY DEF McInv, BondsInv
  <2> HIDE DEF m
  <2>2. mcBonded = Bonded(mcProvers) + Burned(mcSlashes)
    BY <2>1 DEF BondBooks
  <2> QED
    BY <2>2 DEF BondsAccounted, Bonded, Burned
<1>2. TreasuryAccounted
  <2>1. mcTreasury + CreditSum(mcCredits) = Treasury
    BY DEF McInv, CreditsInv, CreditBooks
  <2> QED
    BY <2>1 DEF TreasuryAccounted, CreditSum
<1> QED
  BY <1>1, <1>2 DEF McInv, BlocksInv, MasterchainSafe

\* The masterchain's ledger (masterchain/src/ledger.rs), for any shards,
\* provers, bonds and submissions: bonds and treasury account for every unit
\* through slashes and rewards, what seal_round seals lies within the anchors
\* of its round with no range twice, and heights and anchors only advance.
THEOREM MasterchainIsSafe == McSpec => []MasterchainSafe
<1>1. McInit => McInv
  BY McStart
<1>2. McInv /\ [McNext]_mcVars => McInv'
  BY McKept
<1>3. McInv => MasterchainSafe
  BY McEnough
<1> QED
  BY <1>1, <1>2, <1>3, PTL DEF McSpec

=============================================================================
