-------------------------- MODULE NodeChainProofs --------------------------
(***************************************************************************)
(* For every number of nodes, blocks, transactions, crashes and stale sync *)
(* responses: nodes with a block in common have its past in common, a      *)
(* follower is in the state of its own chain, and what a node retains,     *)
(* indexes and builds agrees with its chain.                               *)
(***************************************************************************)
EXTENDS NodeChain, Values, SequenceTheorems, TLAPS

\* The chains in memory and the ones a restart can bring back.
AllChains == {chain[n] : n \in Nodes} \cup {disk[n].chain : n \in Nodes}

\* Height and parent hash of every block fit its place in the chain.
Linked(c) ==
  \A i \in 1 .. Len(c) :
    /\ c[i].height = i
    /\ i > 1 => c[i].parent = c[i - 1].hash

\* CommonPast for the chains c and d.
SharedPast(c, d) ==
  \A i \in 1 .. Len(c) :
    i \in 1 .. Len(d) /\ c[i].hash = d[i].hash => \A j \in 1 .. i : c[j] = d[j]

\* The state s is what executing the blocks of c gives, and what its head says.
Sound(c, s) ==
  /\ s = [done |-> TxsIn(c), minted |-> {}]
  /\ c # <<>> => s = Last(c).root

\* Chains are sequences of built blocks.
ChainType ==
  /\ chain \in [Nodes -> Seq(built)]
  /\ DOMAIN disk = Nodes
  /\ \A n \in Nodes : disk[n].chain \in Seq(built)
  /\ DOMAIN state = Nodes

\* A header hash identifies a block; it is the time the block was built.
HashesUnique ==
  /\ ticks \in Nat
  /\ \A b \in built : b.hash \in 1 .. ticks
  /\ \A b, c \in built : b.hash = c.hash => b = c

AllLinked == \A c \in AllChains : Linked(c)

AllSharePast == \A c, d \in AllChains : SharedPast(c, d)

FollowersSound ==
  \A f \in Followers : Sound(chain[f], state[f]) /\ Sound(disk[f].chain, disk[f].state)

\* The inductive invariant.
IInv == ChainType /\ HashesUnique /\ AllLinked /\ AllSharePast /\ FollowersSound

\* Appending a block that names the head as its parent keeps the chain linked.
LEMMA AppendLinked ==
  ASSUME NEW B, NEW c \in Seq(B), NEW b,
         Linked(c), b.height = Len(c) + 1, b.parent = HeadOf(c)
  PROVE  Linked(Append(c, b))
<1> DEFINE e == Append(c, b)
<1>1. Len(e) = Len(c) + 1 /\ Len(c) \in Nat
  OBVIOUS
<1>2. \A i \in 1 .. Len(c) : e[i] = c[i]
  OBVIOUS
<1>3. e[Len(c) + 1] = b
  OBVIOUS
<1>4. Len(c) > 0 => b.parent = c[Len(c)].hash
  BY DEF HeadOf, Last
<1>5. ASSUME NEW i \in 1 .. Len(e) PROVE e[i].height = i /\ (i > 1 => e[i].parent = e[i - 1].hash)
  <2>1. CASE i <= Len(c)
    <3>1. i \in 1 .. Len(c)
      BY <1>1, <2>1
    <3>2. i > 1 => i - 1 \in 1 .. Len(c)
      BY <1>1, <2>1
    <3> QED
      BY <1>2, <3>1, <3>2 DEF Linked
  <2>2. CASE i = Len(c) + 1
    <3>1. e[i].height = i
      BY <1>3, <2>2
    <3>2. ASSUME i > 1 PROVE e[i].parent = e[i - 1].hash
      <4>1. Len(c) > 0 /\ i - 1 = Len(c) /\ Len(c) \in 1 .. Len(c)
        BY <1>1, <2>2, <3>2
      <4>2. e[i - 1] = c[Len(c)]
        BY <1>2, <4>1
      <4> QED
        BY <1>3, <1>4, <2>2, <4>1, <4>2
    <3> QED
      BY <3>1, <3>2
  <2> QED
    BY <1>1, <2>1, <2>2
<1> QED
  BY <1>5 DEF Linked

\* A chain extended by b shares its past with every chain that d shares it with.
LEMMA AppendShares ==
  ASSUME NEW B, NEW c \in Seq(B), NEW d \in Seq(B), NEW b \in B,
         \A x, y \in B : x.hash = y.hash => x = y,
         Linked(d), SharedPast(c, d), SharedPast(d, c),
         b.height = Len(c) + 1, b.parent = HeadOf(c)
  PROVE  SharedPast(Append(c, b), d) /\ SharedPast(d, Append(c, b))
<1> DEFINE e == Append(c, b)
<1>1. Len(e) = Len(c) + 1 /\ Len(c) \in Nat /\ Len(d) \in Nat
  OBVIOUS
<1>2. \A i \in 1 .. Len(c) : e[i] = c[i]
  OBVIOUS
<1>3. e[Len(c) + 1] = b
  OBVIOUS
<1>4. ASSUME NEW i \in 1 .. Len(e), i \in 1 .. Len(d), e[i].hash = d[i].hash,
             NEW j \in 1 .. i
      PROVE  e[j] = d[j]
  <2>1. CASE i <= Len(c)
    <3>1. i \in 1 .. Len(c) /\ j \in 1 .. Len(c)
      BY <1>1, <2>1
    <3> QED
      BY <1>2, <1>4, <3>1 DEF SharedPast
  <2>2. CASE i = Len(c) + 1
    <3>1. d[i] \in B /\ d[i] = b
      BY <1>3, <1>4, <2>2
    <3>2. CASE j = i
      BY <1>3, <2>2, <3>1, <3>2
    <3>3. CASE j < i
      <4>1. Len(c) \in 1 .. Len(c) /\ Len(c) \in 1 .. Len(d) /\ i > 1 /\ i - 1 = Len(c)
        BY <1>1, <1>4, <2>2, <3>3
      <4>2. d[i].parent = d[Len(c)].hash
        BY <1>4, <4>1 DEF Linked
      <4>3. b.parent = c[Len(c)].hash
        BY <4>1 DEF HeadOf, Last
      <4>4. c[Len(c)].hash = d[Len(c)].hash
        BY <3>1, <4>2, <4>3
      <4>5. j \in 1 .. Len(c)
        BY <1>1, <2>2, <3>3
      <4>6. c[j] = d[j]
        BY <4>1, <4>4, <4>5 DEF SharedPast
      <4> QED
        BY <1>2, <4>5, <4>6
    <3> QED
      BY <1>1, <1>4, <3>2, <3>3
  <2> QED
    BY <1>1, <2>1, <2>2
<1>5. SharedPast(e, d)
  BY <1>4 DEF SharedPast
<1>6. SharedPast(d, e)
  BY <1>4 DEF SharedPast
<1> QED
  BY <1>5, <1>6

\* A chain shares its past with itself.
LEMMA SharesWithItself ==
  ASSUME NEW c PROVE SharedPast(c, c)
BY DEF SharedPast

\* Replaying a block that succeeds on a sound state gives a sound state.
LEMMA ReplaySound ==
  ASSUME NEW B, NEW c \in Seq(B), NEW s, NEW b, Sound(c, s), Succeeds(s, b.txs),
         Executed(s, b.txs) = b.root
  PROVE  Sound(Append(c, b), Executed(s, b.txs))
<1> DEFINE e == Append(c, b)
<1>1. Executed(s, b.txs) = [done |-> TxsIn(c) \cup Range(b.txs), minted |-> {}]
  <2>1. {b.txs[i] : i \in AppliedPrefix(s.done, b.txs)} = Range(b.txs)
    BY DEF Succeeds, Range
  <2> QED
    BY <2>1 DEF Executed, Sound
<1>2. TxsIn(e) = TxsIn(c) \cup Range(b.txs)
  <2>1. DOMAIN e = 1 .. Len(c) + 1 /\ DOMAIN c = 1 .. Len(c) /\ Len(c) \in Nat
    OBVIOUS
  <2>2. (\A i \in 1 .. Len(c) : e[i] = c[i]) /\ e[Len(c) + 1] = b
    OBVIOUS
  <2>3. \A i \in DOMAIN e : i \in DOMAIN c \/ i = Len(c) + 1
    BY <2>1
  <2>4. \A t : t \in TxsIn(e) <=> \E i \in DOMAIN e : t \in Range(e[i].txs)
    BY DEF TxsIn
  <2>5. \A t : t \in TxsIn(c) <=> \E i \in DOMAIN c : t \in Range(c[i].txs)
    BY DEF TxsIn
  <2>6. \A t : t \in TxsIn(e) <=> t \in TxsIn(c) \/ t \in Range(b.txs)
    BY <2>1, <2>2, <2>3, <2>4, <2>5
  <2> QED
    BY <2>6
<1>3. Last(e) = b
  BY DEF Last
<1> QED
  BY <1>1, <1>2, <1>3 DEF Sound
-----------------------------------------------------------------------------
\* What Commit does to the chains, whoever commits.
LEMMA CommitEffect ==
  ASSUME ChainType, NEW n \in Nodes, NEW b, NEW s, Commit(n, b, s)
  PROVE  LET e == Append(chain[n], b)
         IN /\ chain' = [chain EXCEPT ![n] = e]
            /\ state' = [state EXCEPT ![n] = s]
            /\ DOMAIN disk' = Nodes
            /\ \A m \in Nodes : m # n => disk'[m] = disk[m]
            /\ \/ disk'[n] = disk[n]
               \/ disk'[n].chain = e /\ disk'[n].state = s
BY DEF ChainType, Commit

\* Committing a block that extends the chain keeps the chains in order.
LEMMA CommitChains ==
  ASSUME ChainType, AllLinked, AllSharePast,
         NEW n \in Nodes, NEW b \in built', NEW s, Commit(n, b, s),
         built \subseteq built', HashesUnique',
         b.height = Len(chain[n]) + 1, b.parent = HeadOf(chain[n])
  PROVE  ChainType' /\ AllLinked' /\ AllSharePast'
<1> DEFINE e == Append(chain[n], b)
<1>1. /\ chain' = [chain EXCEPT ![n] = e]
      /\ state' = [state EXCEPT ![n] = s]
      /\ DOMAIN disk' = Nodes
      /\ \A m \in Nodes : m # n => disk'[m] = disk[m]
      /\ \/ disk'[n] = disk[n]
         \/ disk'[n].chain = e /\ disk'[n].state = s
  BY CommitEffect
<1>2. \A x \in Seq(built) : x \in Seq(built')
  OBVIOUS
<1>3. e \in Seq(built')
  BY <1>2 DEF ChainType
<1>4. ChainType'
  BY <1>1, <1>2, <1>3 DEF ChainType
<1>5. \A x \in AllChains' : x \in AllChains \/ x = e
  <2>1. \A m \in Nodes : chain'[m] = IF m = n THEN e ELSE chain[m]
    BY <1>1 DEF ChainType
  <2>2. \A m \in Nodes : disk'[m].chain = disk[m].chain \/ disk'[m].chain = e
    BY <1>1
  <2>3. \A x \in AllChains' : \E m \in Nodes : x = chain'[m] \/ x = disk'[m].chain
    BY DEF AllChains
  <2>4. \A m \in Nodes : chain[m] \in AllChains /\ disk[m].chain \in AllChains
    BY DEF AllChains
  <2> HIDE DEF e
  <2>5. ASSUME NEW x \in AllChains' PROVE x \in AllChains \/ x = e
    <3>1. PICK m \in Nodes : x = chain'[m] \/ x = disk'[m].chain
      BY <2>3
    <3> QED
      BY <2>1, <2>2, <2>4, <3>1
  <2> QED
    BY <2>5
<1>6. chain[n] \in AllChains /\ chain[n] \in Seq(built')
  BY <1>2 DEF AllChains, ChainType
<1>7. \A x \in AllChains : x \in Seq(built')
  BY <1>2 DEF AllChains, ChainType
<1>8. Linked(e)
  BY <1>6, AppendLinked DEF AllLinked
<1>9. AllLinked'
  <2>1. \A x \in AllChains' : Linked(x)
    BY <1>5, <1>8 DEF AllLinked
  <2> QED
    BY <2>1 DEF AllLinked, Linked
<1>10. \A x \in AllChains : SharedPast(e, x) /\ SharedPast(x, e)
  <2>1. ASSUME NEW x \in AllChains PROVE SharedPast(e, x) /\ SharedPast(x, e)
    <3>1. Linked(x) /\ SharedPast(chain[n], x) /\ SharedPast(x, chain[n])
      BY <1>6 DEF AllLinked, AllSharePast
    <3>2. x \in Seq(built') /\ \A y, z \in built' : y.hash = z.hash => y = z
      BY <1>7 DEF HashesUnique
    <3> QED
      BY <1>6, <3>1, <3>2, AppendShares
  <2> QED
    BY <2>1
<1>11. AllSharePast'
  <2>1. \A x, y \in AllChains' : SharedPast(x, y)
    BY <1>5, <1>10, SharesWithItself DEF AllSharePast
  <2> QED
    BY <2>1 DEF AllSharePast, SharedPast
<1> QED
  BY <1>4, <1>9, <1>11

\* The inductive invariant holds initially.
LEMMA InitInv == Init => IInv
<1> SUFFICES ASSUME Init PROVE IInv
  OBVIOUS
<1>1. \A n \in Nodes : chain[n] = <<>> /\ disk[n].chain = <<>>
  BY DEF Init, NoSnapshot
<1>2. \A x \in AllChains : x = <<>>
  BY <1>1 DEF AllChains
<1>3. ChainType
  <2>1. <<>> \in Seq(built)
    OBVIOUS
  <2>2. chain \in [Nodes -> Seq(built)]
    BY <2>1 DEF Init
  <2>3. DOMAIN disk = Nodes /\ DOMAIN state = Nodes
    BY DEF Init
  <2> QED
    BY <1>1, <2>1, <2>2, <2>3 DEF ChainType
<1>4. HashesUnique
  BY DEF Init, HashesUnique
<1>5. AllLinked /\ AllSharePast
  BY <1>2 DEF AllLinked, AllSharePast, Linked, SharedPast
<1>6. TxsIn(<<>>) = {}
  BY DEF TxsIn
<1>7. FollowersSound
  BY <1>1, <1>6 DEF Init, NoSnapshot, GenesisState, FollowersSound, Sound, Nodes
<1> QED
  BY <1>3, <1>4, <1>5, <1>7 DEF IInv

\* A built block gets a hash of its own; the followers are left alone.
LEMMA ProduceInv ==
  ASSUME IInv, Produce
  PROVE  IInv'
<1> USE DEF IInv
<1> DEFINE d == Drain(mempool, BaseFee(chain[Producer]))
           height == Len(chain[Producer]) + 1
           s == Minted(Executed(state[Producer], d.taken), height)
           b == [hash |-> ticks + 1, height |-> height, parent |-> HeadOf(chain[Producer]),
                 txs |-> d.taken, root |-> s]
<1>1. built' = built \cup {b} /\ Commit(Producer, b, s) /\ ticks' = ticks + 1
  BY DEF Produce
<1> HIDE DEF s, d
<1>2. HashesUnique'
  <2>1. b.hash = ticks + 1 /\ ticks \in Nat /\ ticks' \in Nat
    BY <1>1 DEF HashesUnique
  <2>2. \A x \in built : x.hash \in 1 .. ticks' /\ x.hash # b.hash
    BY <1>1, <2>1 DEF HashesUnique
  <2> QED
    BY <1>1, <2>1, <2>2 DEF HashesUnique
<1>3. b.height = Len(chain[Producer]) + 1 /\ b.parent = HeadOf(chain[Producer]) /\ b \in built'
  BY <1>1
<1> HIDE DEF b
<1>4. Producer \in Nodes
  BY DEF Nodes
<1>5. ChainType' /\ AllLinked' /\ AllSharePast'
  BY <1>1, <1>2, <1>3, <1>4, CommitChains
<1>6. FollowersSound'
  <2>1. /\ chain' = [chain EXCEPT ![Producer] = Append(chain[Producer], b)]
        /\ state' = [state EXCEPT ![Producer] = s]
        /\ \A m \in Nodes : m # Producer => disk'[m] = disk[m]
    BY <1>1, <1>4, CommitEffect
  <2>2. \A f \in Followers : f \in Nodes /\ f # Producer
    BY NodeChainAssumption DEF Nodes
  <2>3. \A f \in Followers : chain'[f] = chain[f] /\ state'[f] = state[f] /\ disk'[f] = disk[f]
    BY <2>1, <2>2 DEF ChainType
  <2>4. \A f \in Followers : Sound(chain'[f], state'[f]) /\ Sound(disk'[f].chain, disk'[f].state)
    BY <2>3 DEF FollowersSound
  <2> QED
    BY <2>4 DEF FollowersSound, Sound, TxsIn, Last, Range
<1> QED
  BY <1>2, <1>5, <1>6

\* A failed build changes the producer's state and no chain.
LEMMA BuildFailsInv ==
  ASSUME IInv, BuildFails
  PROVE  IInv'
<1> USE DEF IInv
<1>1. /\ state' = [state EXCEPT ![Producer] = Executed(@, Drain(mempool, BaseFee(chain[Producer])).taken)]
      /\ UNCHANGED <<chain, disk, built>> /\ ticks' = ticks + 1
  BY DEF BuildFails
<1>2. ChainType'
  BY <1>1 DEF ChainType
<1>3. HashesUnique'
  BY <1>1 DEF HashesUnique
<1>4. AllChains' = AllChains
  BY <1>1 DEF AllChains
<1>5. AllLinked'
  BY <1>4 DEF AllLinked, Linked
<1>6. AllSharePast'
  BY <1>4 DEF AllSharePast, SharedPast
<1>7. \A f \in Followers : state'[f] = state[f]
  BY <1>1, NodeChainAssumption DEF ChainType, Nodes
<1>8. FollowersSound'
  BY <1>1, <1>7 DEF FollowersSound, Sound, TxsIn, Last, Range
<1> QED
  BY <1>2, <1>3, <1>5, <1>6, <1>8

\* A follower that accepts a block appends one that extends its own chain, and
\* ends up in the state the block's header names.
LEMMA ApplySyncedInv ==
  ASSUME IInv, NEW f \in Followers, NEW b \in built, ApplySynced(f, b)
  PROVE  IInv'
<1> USE DEF IInv
<1> DEFINE s == Executed(state[f], b.txs)
<1>1. Commit(f, b, s) /\ built' = built /\ ticks' = ticks
  BY DEF ApplySynced
<1>2. b.height = Len(chain[f]) + 1 /\ b.parent = HeadOf(chain[f])
  BY DEF ApplySynced, ExtendsChain
<1>3. Succeeds(state[f], b.txs) /\ s = b.root
  BY DEF ApplySynced, ReplayMatches
<1>4. f \in Nodes /\ chain[f] \in Seq(built)
  BY DEF Nodes, ChainType
<1>5. HashesUnique'
  BY <1>1 DEF HashesUnique
<1>6. Sound(Append(chain[f], b), s)
  BY <1>3, <1>4, ReplaySound DEF FollowersSound
<1> HIDE DEF s
<1>7. ChainType' /\ AllLinked' /\ AllSharePast'
  BY <1>1, <1>2, <1>4, <1>5, CommitChains
<1>8. FollowersSound'
  <2> DEFINE e == Append(chain[f], b)
  <2>1. /\ chain' = [chain EXCEPT ![f] = e]
        /\ state' = [state EXCEPT ![f] = s]
        /\ \A m \in Nodes : m # f => disk'[m] = disk[m]
        /\ disk'[f] = disk[f] \/ (disk'[f].chain = e /\ disk'[f].state = s)
    BY <1>1, <1>4, CommitEffect
  <2>2. \A g \in Followers : g \in Nodes
    BY DEF Nodes
  <2> HIDE DEF e
  <2>3. ASSUME NEW g \in Followers
        PROVE  Sound(chain'[g], state'[g]) /\ Sound(disk'[g].chain, disk'[g].state)
    <3>1. CASE g = f
      <4>1. chain'[g] = e /\ state'[g] = s
        BY <1>4, <2>1, <3>1 DEF ChainType
      <4>2. Sound(e, s) /\ Sound(disk[f].chain, disk[f].state)
        BY <1>6 DEF e, FollowersSound
      <4> QED
        BY <2>1, <3>1, <4>1, <4>2
    <3>2. CASE g # f
      <4>1. chain'[g] = chain[g] /\ state'[g] = state[g] /\ disk'[g] = disk[g]
        BY <2>1, <2>2, <3>2 DEF ChainType
      <4> QED
        BY <4>1 DEF FollowersSound
    <3> QED
      BY <3>1, <3>2
  <2> QED
    BY <2>3 DEF FollowersSound, Sound, TxsIn, Last, Range
<1> QED
  BY <1>5, <1>7, <1>8

\* A restart brings back a chain the invariant already speaks of.
LEMMA RestartInv ==
  ASSUME IInv, NEW n \in Nodes, Restart(n)
  PROVE  IInv'
<1> USE DEF IInv
<1>1. /\ chain' = [chain EXCEPT ![n] = disk[n].chain]
      /\ state' = [state EXCEPT ![n] = disk[n].state]
      /\ UNCHANGED <<disk, built, ticks>>
  BY DEF Restart
<1>2. ChainType'
  BY <1>1 DEF ChainType
<1>3. HashesUnique'
  BY <1>1 DEF HashesUnique
<1>4. \A x \in AllChains' : x \in AllChains
  <2>1. \A m \in Nodes : chain'[m] = IF m = n THEN disk[n].chain ELSE chain[m]
    BY <1>1 DEF ChainType
  <2> QED
    BY <1>1, <2>1 DEF AllChains
<1>5. AllLinked'
  <2>1. \A x \in AllChains' : Linked(x)
    BY <1>4 DEF AllLinked
  <2> QED
    BY <2>1 DEF AllLinked, Linked
<1>6. AllSharePast'
  <2>1. \A x, y \in AllChains' : SharedPast(x, y)
    BY <1>4 DEF AllSharePast
  <2> QED
    BY <2>1 DEF AllSharePast, SharedPast
<1>7. FollowersSound'
  <2>1. ASSUME NEW g \in Followers
        PROVE  Sound(chain'[g], state'[g]) /\ Sound(disk'[g].chain, disk'[g].state)
    <3>1. g \in Nodes
      BY DEF Nodes
    <3>2. \/ chain'[g] = chain[g] /\ state'[g] = state[g]
          \/ chain'[g] = disk[g].chain /\ state'[g] = disk[g].state
      BY <1>1, <3>1 DEF ChainType
    <3> QED
      BY <1>1, <3>2 DEF FollowersSound
  <2> QED
    BY <2>1 DEF FollowersSound, Sound, TxsIn, Last, Range
<1> QED
  BY <1>2, <1>3, <1>5, <1>6, <1>7

\* The rest of the steps leave chains, snapshots and states alone.
LEMMA QuietInv ==
  ASSUME IInv, UNCHANGED <<chain, disk, state, built, ticks>>
  PROVE  IInv'
<1> USE DEF IInv
<1>1. ChainType' /\ HashesUnique'
  BY DEF ChainType, HashesUnique
<1>2. AllChains' = AllChains
  BY DEF AllChains
<1>3. AllLinked'
  BY <1>2 DEF AllLinked, Linked
<1>4. AllSharePast'
  BY <1>2 DEF AllSharePast, SharedPast
<1>5. FollowersSound'
  BY DEF FollowersSound, Sound, TxsIn, Last, Range
<1> QED
  BY <1>1, <1>3, <1>4, <1>5

\* Every step of the specification preserves the inductive invariant.
LEMMA NextInv == IInv /\ [Next]_vars => IInv'
<1> SUFFICES ASSUME IInv, [Next]_vars PROVE IInv'
  OBVIOUS
<1>1. CASE \E t \in Txs : Submit(t)
  BY <1>1, QuietInv DEF Submit
<1>2. CASE Produce
  BY <1>2, ProduceInv
<1>3. CASE BuildFails
  BY <1>3, BuildFailsInv
<1>4. CASE \E f \in Followers, b \in built : ApplySynced(f, b)
  BY <1>4, ApplySyncedInv
<1>5. CASE \E n \in MayCrash : Restart(n)
  BY <1>5, RestartInv, NodeChainAssumption DEF Nodes
<1>6. CASE UNCHANGED vars
  BY <1>6, QuietInv DEF vars
<1> QED
  BY <1>1, <1>2, <1>3, <1>4, <1>5, <1>6 DEF Next

\* The invariant holds in every reachable state.
LEMMA Invariance == Spec => []IInv
<1>1. Init => IInv
  BY InitInv
<1>2. IInv /\ [Next]_vars => IInv'
  BY NextInv
<1> QED
  BY <1>1, <1>2, PTL DEF Spec
-----------------------------------------------------------------------------
\* Two nodes, the producer and followers alike, that both have some block have
\* the same blocks below it, for any number of forks the producer made by
\* restarting from old snapshots.
THEOREM ChainsShareTheirPast == Spec => []CommonPast
<1>1. IInv => CommonPast
  <2> SUFFICES ASSUME IInv, NEW n \in Nodes, NEW m \in Nodes, NEW i \in DOMAIN chain[n],
                      i \in DOMAIN chain[m], chain[n][i].hash = chain[m][i].hash
               PROVE  SubSeq(chain[n], 1, i) = SubSeq(chain[m], 1, i)
    BY DEF CommonPast
  <2>1. chain[n] \in Seq(built) /\ chain[m] \in Seq(built)
    BY DEF IInv, ChainType
  <2>2. i \in 1 .. Len(chain[n]) /\ i \in 1 .. Len(chain[m]) /\ i \in Nat
    BY <2>1
  <2>3. SharedPast(chain[n], chain[m])
    BY DEF IInv, AllSharePast, AllChains
  <2>4. \A j \in 1 .. i : chain[n][j] = chain[m][j]
    BY <2>2, <2>3 DEF SharedPast
  <2> DEFINE c == chain[n]
             d == chain[m]
  <2>5. c \in Seq(built) /\ d \in Seq(built) /\ i <= Len(c) /\ i <= Len(d)
    BY <2>1, <2>2
  <2>6. \A j \in 1 .. i : c[j] = d[j]
    BY <2>4
  <2> HIDE DEF c, d
  <2>7. SubSeq(c, 1, i) \in Seq(built) /\ SubSeq(d, 1, i) \in Seq(built)
    BY <2>2, <2>5, <2>6
  <2>8. Len(SubSeq(c, 1, i)) = i /\ Len(SubSeq(d, 1, i)) = i
    BY <2>2, <2>5
  <2>9. \A j \in 1 .. i : SubSeq(c, 1, i)[j] = c[j] /\ SubSeq(d, 1, i)[j] = d[j]
    BY <2>2, <2>5
  <2> QED
    BY <2>6, <2>7, <2>8, <2>9 DEF c, d
<1> QED
  BY <1>1, Invariance, PTL

\* A follower's state is what its own chain executed and what its head says,
\* whatever sync responses it got and however often it restarted.
THEOREM FollowersAreSound == Spec => []FollowerIsItsChain
<1>1. IInv => FollowerIsItsChain
  BY DEF IInv, FollowersSound, Sound, FollowerIsItsChain
<1> QED
  BY <1>1, Invariance, PTL
-----------------------------------------------------------------------------
(* What a node keeps: the drain of the mempool, pruning, the index.        *)

\* Where the transaction is inserted, and the types of the sorted pool.
LEMMA InsertType ==
  ASSUME NEW s \in Seq(Txs), NEW t \in Txs
  PROVE  Insert(s, t) \in Seq(Txs)
<1> DEFINE i == 1 + Cardinality({j \in DOMAIN s : ~Before(t, s[j])})
<1>1. DOMAIN s = 1 .. Len(s) /\ Len(s) \in Nat
  OBVIOUS
<1>2. IsFiniteSet(1 .. Len(s)) /\ Cardinality(1 .. Len(s)) = Len(s)
  <2>1. Len(s) \in Int /\ 1 \in Int /\ (1 > Len(s) => Len(s) = 0) /\ Len(s) - 1 + 1 = Len(s)
    BY <1>1
  <2> QED
    BY <2>1, FS_Interval
<1>3. {j \in DOMAIN s : ~Before(t, s[j])} \subseteq 1 .. Len(s)
  BY <1>1
<1>4. i \in 1 .. Len(s) + 1
  BY <1>1, <1>2, <1>3, FS_Subset, FS_CardinalityType
<1> HIDE DEF i
<1>5. SubSeq(s, 1, i - 1) \in Seq(Txs) /\ SubSeq(s, i, Len(s)) \in Seq(Txs)
  <2>1. \A j \in 1 .. i - 1 : s[j] \in Txs
    BY <1>1, <1>4
  <2>2. \A j \in i .. Len(s) : s[j] \in Txs
    BY <1>1, <1>4
  <2> QED
    BY <1>1, <1>4, <2>1, <2>2, SubSeqProperties
<1> QED
  BY <1>5 DEF Insert, InsertAt, i

\* The sorted pool holds transactions.
LEMMA SortPendingType ==
  ASSUME NEW pool \in Seq(Txs)
  PROVE  SortPending(pool) \in Seq(Txs)
<1> DEFINE n == Len(pool)
           S == 1 .. n
           F == [p \in S \X Seq(Txs) |-> Insert(p[2], pool[p[1]])]
           c == [s \in SUBSET S |-> Max(s)]
<1>1. n \in Nat /\ DOMAIN pool = S /\ (\A i \in S : pool[i] \in Txs) /\ IsFiniteSet(S)
  BY FS_Interval
<1>2. F \in [S \X Seq(Txs) -> Seq(Txs)]
  BY <1>1, InsertType
<1>3. \A s \in SUBSET S : s # {} => Max(s) \in s
  BY <1>1, MaxIn
<1>4. \E h \in [SUBSET S -> Seq(Txs)] : IsFold(h, c, <<>>, F, S)
  <2>1. Picks(c, S)
    BY <1>3 DEF Picks
  <2>2. <<>> \in Seq(Txs)
    OBVIOUS
  <2> HIDE DEF F, c, S
  <2> QED
    BY <1>1, <1>2, <2>1, <2>2, FoldExists
<1>5. \E h : h = [s \in SUBSET S |-> IF s = {} THEN <<>>
                                   ELSE Insert(h[s \ {Max(s)}], pool[Max(s)])]
  <2>1. PICK h \in [SUBSET S -> Seq(Txs)] : IsFold(h, c, <<>>, F, S)
    BY <1>4
  <2>2. ASSUME NEW s \in SUBSET S, s # {} PROVE h[s] = Insert(h[s \ {Max(s)}], pool[Max(s)])
    <3>1. <<Max(s), h[s \ {Max(s)}]>> \in S \X Seq(Txs)
      BY <1>3, <2>2
    <3> QED
      BY <2>1, <2>2, <3>1 DEF IsFold
  <2> QED
    BY <2>1, <2>2 DEF IsFold
<1>6. PICK k : /\ k = [s \in SUBSET S |-> IF s = {} THEN <<>>
                                        ELSE Insert(k[s \ {Max(s)}], pool[Max(s)])]
               /\ SortPending(pool) = k[S]
  BY <1>1, <1>5 DEF SortPending, FoldLeft, MapThenFoldSet
<1> DEFINE P == {i \in 0 .. n : k[1 .. i] \in Seq(Txs)}
<1>7. 0 \in P
  BY <1>1, <1>6
<1>8. ASSUME NEW i \in 1 .. n, i - 1 \in P PROVE i \in P
  <2>1. 1 .. i \in SUBSET S /\ 1 .. i # {} /\ Max(1 .. i) = i /\ (1 .. i) \ {i} = 1 .. i - 1
    BY <1>1, MaxPrefix
  <2>2. k[1 .. i] = Insert(k[1 .. i - 1], pool[i])
    BY <1>6, <2>1
  <2>3. k[1 .. i - 1] \in Seq(Txs) /\ pool[i] \in Txs
    BY <1>1, <1>8
  <2>4. k[1 .. i] \in Seq(Txs)
    BY <2>2, <2>3, InsertType
  <2> QED
    BY <2>4
<1>9. n \in P
  <2> HIDE DEF P, n
  <2> QED
    BY <1>1, <1>7, <1>8, PrefixInduction
<1> QED
  BY <1>6, <1>9

\* The gas of a block, one transaction at a time.
LEMMA GasRun ==
  ASSUME NEW txs \in Seq(Txs)
  PROVE  \E r \in [0 .. Len(txs) -> Nat] :
           /\ r[0] = 0 /\ GasUsed(txs) = r[Len(txs)]
           /\ \A i \in 1 .. Len(txs) : r[i] = r[i - 1] + Gas[txs[i]]
<1> DEFINE n == Len(txs)
           S == 1 .. n
           F == [p \in S \X Nat |-> p[2] + Gas[txs[p[1]]]]
           c == [s \in SUBSET S |-> Max(s)]
<1>1. n \in Nat /\ DOMAIN txs = S /\ (\A i \in S : txs[i] \in Txs) /\ IsFiniteSet(S)
  BY FS_Interval
<1>2. F \in [S \X Nat -> Nat]
  BY <1>1, MempoolAssumption
<1>3. \A s \in SUBSET S : s # {} => Max(s) \in s
  BY <1>1, MaxIn
<1>4. \E h \in [SUBSET S -> Nat] : IsFold(h, c, 0, F, S)
  <2>1. Picks(c, S)
    BY <1>3 DEF Picks
  <2> HIDE DEF F, c, S
  <2> QED
    BY <1>1, <1>2, <2>1, FoldExists
<1>5. \E h : h = [s \in SUBSET S |-> IF s = {} THEN 0 ELSE h[s \ {Max(s)}] + Gas[txs[Max(s)]]]
  <2>1. PICK h \in [SUBSET S -> Nat] : IsFold(h, c, 0, F, S)
    BY <1>4
  <2>2. ASSUME NEW s \in SUBSET S, s # {} PROVE h[s] = h[s \ {Max(s)}] + Gas[txs[Max(s)]]
    <3>1. <<Max(s), h[s \ {Max(s)}]>> \in S \X Nat
      BY <1>3, <2>2
    <3> QED
      BY <2>1, <2>2, <3>1 DEF IsFold
  <2> QED
    BY <2>1, <2>2 DEF IsFold
<1>6. PICK k : /\ k = [s \in SUBSET S |-> IF s = {} THEN 0
                                        ELSE k[s \ {Max(s)}] + Gas[txs[Max(s)]]]
               /\ GasUsed(txs) = k[S]
  BY <1>1, <1>5 DEF GasUsed, FoldLeft, MapThenFoldSet
<1> DEFINE r == [i \in 0 .. n |-> k[1 .. i]]
           P == {i \in 0 .. n : r[i] \in Nat}
<1>7. r[0] = 0
  BY <1>1, <1>6
<1>8. ASSUME NEW i \in 1 .. n PROVE r[i] = r[i - 1] + Gas[txs[i]]
  <2>1. 1 .. i \in SUBSET S /\ 1 .. i # {} /\ Max(1 .. i) = i /\ (1 .. i) \ {i} = 1 .. i - 1
    BY <1>1, MaxPrefix
  <2>2. k[1 .. i] = k[1 .. i - 1] + Gas[txs[i]]
    BY <1>6, <2>1
  <2> QED
    BY <1>1, <2>2
<1> HIDE DEF r
<1>9. 0 .. n \subseteq P
  <2>1. 0 \in P
    BY <1>1, <1>7
  <2>2. ASSUME NEW i \in 1 .. n, i - 1 \in P PROVE i \in P
    <3>1. r[i - 1] \in Nat /\ Gas[txs[i]] \in Nat
      BY <1>1, <2>2, MempoolAssumption
    <3> QED
      BY <1>8, <3>1
  <2> HIDE DEF P, n
  <2> QED
    BY <1>1, <2>1, <2>2, PrefixInduction
<1>10. r \in [0 .. n -> Nat] /\ r[n] = k[S]
  BY <1>1, <1>9 DEF r
<1> QED
  BY <1>6, <1>7, <1>8, <1>10

\* A transaction adds its gas to the block's.
LEMMA GasUsedAppend ==
  ASSUME NEW txs \in Seq(Txs), NEW t \in Txs
  PROVE  GasUsed(txs) \in Nat /\ GasUsed(Append(txs, t)) = GasUsed(txs) + Gas[t]
<1> DEFINE n == Len(txs)
           e == Append(txs, t)
<1>1. n \in Nat /\ e \in Seq(Txs) /\ Len(e) = n + 1 /\ e[n + 1] = t
      /\ \A i \in 1 .. n : e[i] = txs[i]
  OBVIOUS
<1>2. PICK r \in [0 .. n -> Nat] :
        r[0] = 0 /\ GasUsed(txs) = r[n] /\ \A i \in 1 .. n : r[i] = r[i - 1] + Gas[txs[i]]
  BY GasRun
<1>3. PICK q \in [0 .. n + 1 -> Nat] :
        /\ q[0] = 0 /\ GasUsed(e) = q[n + 1]
        /\ \A i \in 1 .. n + 1 : q[i] = q[i - 1] + Gas[e[i]]
  BY <1>1, GasRun
<1> DEFINE P == {i \in 0 .. n : q[i] = r[i]}
<1> HIDE DEF e, n
<1>4. 0 \in P
  BY <1>1, <1>2, <1>3
<1>5. ASSUME NEW i \in 1 .. n, i - 1 \in P PROVE i \in P
  <2>1. i \in 1 .. n + 1 /\ i \in 0 .. n
    BY <1>1
  <2> QED
    BY <1>1, <1>2, <1>3, <1>5, <2>1
<1>6. q[n] = r[n]
  <2>1. 0 .. n \subseteq P
    <3> HIDE DEF P
    <3> QED
      BY <1>1, <1>4, <1>5, PrefixInduction
  <2> QED
    BY <1>1, <2>1
<1>7. q[n + 1] = q[n] + Gas[t]
  BY <1>1, <1>3
<1> QED
  BY <1>1, <1>2, <1>3, <1>6, <1>7 DEF e

\* An empty block uses no gas.
LEMMA GasUsedEmpty == GasUsed(<<>>) = 0
<1>1. <<>> \in Seq(Txs) /\ Len(<<>>) = 0
  OBVIOUS
<1> QED
  BY <1>1, GasRun

\* What the loop of the drain has taken so far.
Drained == [taken: Seq(Txs), rest: Seq(Txs), used: Nat, objects: SUBSET UNION {ObjectsOf[t] : t \in Txs}]

\* It fits a block: see BlocksFit.
FitsBlock(txs) ==
  /\ GasUsed(txs) <= BlockGas
  /\ \A i, j \in DOMAIN txs :
       i # j /\ txs[i] \in Owned /\ txs[j] \in Owned =>
         ObjectsOf[txs[i]] \cap ObjectsOf[txs[j]] = {}

DrainInv(acc, fee) ==
  /\ acc \in Drained
  /\ acc.used = GasUsed(acc.taken)
  /\ \A i \in DOMAIN acc.taken : acc.taken[i] \in Owned => ObjectsOf[acc.taken[i]] \subseteq acc.objects
  /\ FitsBlock(acc.taken)
  /\ \A t \in Range(acc.taken) : MaxFee[t] >= fee

\* One turn of the loop keeps the types.
LEMMA TakeType ==
  ASSUME NEW acc \in Drained, NEW t \in Txs, NEW fee
  PROVE  Take(acc, t, fee) \in Drained
<1>1. acc.used + Gas[t] \in Nat /\ ObjectsOf[t] \subseteq UNION {ObjectsOf[u] : u \in Txs}
  BY MempoolAssumption DEF Drained
<1> QED
  BY <1>1, SMTT(30) DEF Take, Drained

\* One turn of the loop keeps the block within its limits.
LEMMA TakeInv ==
  ASSUME NEW acc, NEW t \in Txs, NEW fee, DrainInv(acc, fee)
  PROVE  DrainInv(Take(acc, t, fee), fee)
<1> DEFINE new == Take(acc, t, fee)
           s == acc.taken
           e == Append(s, t)
<1>1. acc \in Drained /\ new \in Drained /\ s \in Seq(Txs)
  BY TakeType DEF DrainInv, Drained
<1>2. CASE PaysBaseFee(t, fee) /\ Fits(acc, t) /\ NoClash(acc, t)
  <2>1. /\ new.taken = e /\ new.used = acc.used + Gas[t]
        /\ new.objects = IF t \in Owned THEN acc.objects \cup ObjectsOf[t] ELSE acc.objects
    BY <1>2 DEF Take
  <2>2. GasUsed(e) = new.used /\ new.used <= BlockGas
    BY <1>1, <1>2, <2>1, GasUsedAppend DEF DrainInv, Fits
  <2>3. /\ DOMAIN e = 1 .. Len(s) + 1 /\ DOMAIN s = 1 .. Len(s) /\ Len(s) \in Nat
        /\ e[Len(s) + 1] = t /\ \A i \in 1 .. Len(s) : e[i] = s[i]
    BY <1>1
  <2> HIDE DEF e, new, s
  <2>4. \A i \in DOMAIN e : (i \in DOMAIN s /\ e[i] = s[i]) \/ (i = Len(s) + 1 /\ e[i] = t)
    <3> DEFINE n == Len(s)
    <3>1. n \in Nat
      BY <2>3
    <3> HIDE DEF n
    <3>2. \A i \in 1 .. n + 1 : i \in 1 .. n \/ i = n + 1
      BY <3>1
    <3> QED
      BY <2>3, <3>2 DEF n
  <2>5. \A i \in DOMAIN e : e[i] \in Owned => ObjectsOf[e[i]] \subseteq new.objects
    BY <2>1, <2>4 DEF DrainInv, s
  <2>6. \A i \in DOMAIN s : s[i] \in Owned /\ t \in Owned => ObjectsOf[s[i]] \cap ObjectsOf[t] = {}
    BY <1>2 DEF DrainInv, s, NoClash
  <2>7. \A i, j \in DOMAIN e : i # j /\ e[i] \in Owned /\ e[j] \in Owned =>
          ObjectsOf[e[i]] \cap ObjectsOf[e[j]] = {}
    <3>1. \A i, j \in DOMAIN s : i # j /\ s[i] \in Owned /\ s[j] \in Owned =>
          ObjectsOf[s[i]] \cap ObjectsOf[s[j]] = {}
      BY DEF DrainInv, FitsBlock, s
    <3> QED
      BY <2>4, <2>6, <3>1
  <2>8. \A u \in Range(e) : MaxFee[u] >= fee
    <3>1. MaxFee[t] >= fee
      BY <1>2 DEF PaysBaseFee
    <3>2. \A i \in DOMAIN s : MaxFee[s[i]] >= fee
      BY DEF DrainInv, s, Range
    <3>3. \A i \in DOMAIN e : MaxFee[e[i]] >= fee
      BY <2>4, <3>1, <3>2
    <3> QED
      BY <3>3 DEF Range
  <2>9. DrainInv(new, fee)
    BY <1>1, <2>1, <2>2, <2>5, <2>7, <2>8 DEF DrainInv, FitsBlock
  <2> QED
    BY <2>9 DEF new
<1>3. CASE ~(PaysBaseFee(t, fee) /\ Fits(acc, t) /\ NoClash(acc, t))
  <2>1. new = [acc EXCEPT !.rest = Append(@, t)]
    BY <1>3 DEF Take
  <2>2. new.taken = acc.taken /\ new.used = acc.used /\ new.objects = acc.objects
    BY <1>1, <2>1 DEF Drained
  <2> QED
    BY <1>1, <2>2 DEF DrainInv
<1> QED
  BY <1>2, <1>3

\* drain_ready_gas_budget_filtered takes what fits and keeps the rest.
LEMMA DrainFits ==
  ASSUME NEW pool \in Seq(Txs), NEW fee
  PROVE  DrainInv(Drain(pool, fee), fee)
<1> DEFINE txs == SortPending(pool)
           n == Len(txs)
           S == 1 .. n
           z == [taken |-> <<>>, rest |-> <<>>, used |-> 0, objects |-> {}]
           F == [p \in S \X Drained |-> Take(p[2], txs[p[1]], fee)]
           c == [s \in SUBSET S |-> Max(s)]
<1>0. txs \in Seq(Txs)
  BY SortPendingType
<1>1. n \in Nat /\ DOMAIN txs = S /\ (\A i \in S : txs[i] \in Txs) /\ IsFiniteSet(S)
  BY <1>0, FS_Interval
<1> HIDE DEF txs
<1>2. F \in [S \X Drained -> Drained]
  BY <1>1, TakeType
<1>3. \A s \in SUBSET S : s # {} => Max(s) \in s
  BY <1>1, MaxIn
<1>4. z \in Drained
  BY DEF Drained
<1> HIDE DEF z
<1>5. \E h \in [SUBSET S -> Drained] : IsFold(h, c, z, F, S)
  <2>1. Picks(c, S)
    BY <1>3 DEF Picks
  <2> HIDE DEF F, c, S
  <2> QED
    BY <1>1, <1>2, <1>4, <2>1, FoldExists
<1>6. \E h : h = [s \in SUBSET S |-> IF s = {} THEN z ELSE Take(h[s \ {Max(s)}], txs[Max(s)], fee)]
  <2>1. PICK h \in [SUBSET S -> Drained] : IsFold(h, c, z, F, S)
    BY <1>5
  <2>2. ASSUME NEW s \in SUBSET S, s # {} PROVE h[s] = Take(h[s \ {Max(s)}], txs[Max(s)], fee)
    <3>1. <<Max(s), h[s \ {Max(s)}]>> \in S \X Drained
      BY <1>3, <2>2
    <3> QED
      BY <2>1, <2>2, <3>1 DEF IsFold
  <2>3. h[{}] = z /\ {} \in SUBSET S
    BY <2>1 DEF IsFold
  <2> HIDE DEF S
  <2>4. \A s \in SUBSET S : h[s] = IF s = {} THEN z ELSE Take(h[s \ {Max(s)}], txs[Max(s)], fee)
    BY <2>2, <2>3
  <2> QED
    BY <2>1, <2>4
<1>7. PICK k : /\ k = [s \in SUBSET S |-> IF s = {} THEN z
                                        ELSE Take(k[s \ {Max(s)}], txs[Max(s)], fee)]
               /\ Drain(pool, fee) = k[S]
  BY <1>1, <1>6 DEF Drain, FoldLeft, MapThenFoldSet, txs, z
<1> DEFINE P == {i \in 0 .. n : DrainInv(k[1 .. i], fee)}
<1>8. 0 \in P
  <2>1. k[1 .. 0] = z
    BY <1>7
  <2>2. DrainInv(z, fee)
    <3>1. z.taken = <<>> /\ z.used = 0 /\ Range(<<>>) = {} /\ DOMAIN <<>> = {}
      BY DEF z, Range
    <3> QED
      BY <1>4, <3>1, GasUsedEmpty, MempoolAssumption DEF DrainInv, FitsBlock
  <2> QED
    BY <1>1, <2>1, <2>2
<1>9. ASSUME NEW i \in 1 .. n, i - 1 \in P PROVE i \in P
  <2>1. 1 .. i \in SUBSET S /\ 1 .. i # {} /\ Max(1 .. i) = i /\ (1 .. i) \ {i} = 1 .. i - 1
    BY <1>1, MaxPrefix, SMTT(30)
  <2>2. k[1 .. i] = Take(k[1 .. i - 1], txs[i], fee)
    BY <1>7, <2>1
  <2>3. DrainInv(k[1 .. i - 1], fee) /\ txs[i] \in Txs
    BY <1>1, <1>9
  <2>4. DrainInv(k[1 .. i], fee)
    BY <2>2, <2>3, TakeInv
  <2> QED
    BY <2>4
<1>10. n \in P
  <2> HIDE DEF P, n
  <2> QED
    BY <1>1, <1>8, <1>9, PrefixInduction, SMTT(30)
<1> QED
  BY <1>7, <1>10
-----------------------------------------------------------------------------
\* k is as many of the last blocks of c as the node is configured to retain.
KeptEnough(c, k) ==
  k <= Len(c) /\ k >= IF Len(c) < Retention THEN Len(c) ELSE Retention

\* The index entries point into the chain c.
IndexInto(c, index) ==
  \A m \in index : \E i \in DOMAIN c : c[i].hash = m[2] /\ m[1] \in Range(c[i].txs)

\* Every transaction of c offers the base fee its block had to meet.
FeesMet(c) ==
  \A i \in DOMAIN c : \A t \in Range(c[i].txs) : MaxFee[t] >= BaseFee(SubSeq(c, 1, i - 1))

\* The inductive invariant: ChainIsKept, of the snapshots too.
KeptInv ==
  /\ TypeOK
  /\ \A n \in Nodes : /\ KeptEnough(chain[n], kept[n])
                      /\ KeptEnough(disk[n].chain, disk[n].kept)
                      /\ IndexInto(chain[n], mined[n])
  /\ FeesMet(chain[Producer]) /\ FeesMet(disk[Producer].chain)
  /\ \A b \in built : FitsBlock(b.txs)

\* Pruning after a commit keeps enough.
LEMMA KeptAfterEnough ==
  ASSUME NEW B, NEW c \in Seq(B), NEW k \in Nat, KeptEnough(c, k), NEW b \in B, NEW h
  PROVE  KeptAfter(k + 1, h) \in Nat /\ KeptEnough(Append(c, b), KeptAfter(k + 1, h))
<1>1. Len(Append(c, b)) = Len(c) + 1 /\ Len(c) \in Nat /\ Retention \in Nat
  BY NodeChainAssumption
<1>2. KeptAfter(k + 1, h) = k + 1 \/ KeptAfter(k + 1, h) = Pruned(k + 1)
  BY DEF KeptAfter
<1> DEFINE n == Len(c)
           e == Append(c, b)
<1> HIDE DEF n, e
<1> QED
  BY <1>1, <1>2 DEF Pruned, KeptEnough, n, e

\* A restart prunes the chain it restores, and keeps enough.
LEMMA PrunedEnough ==
  ASSUME NEW B, NEW c \in Seq(B), NEW k \in Nat, KeptEnough(c, k)
  PROVE  Pruned(k) \in Nat /\ KeptEnough(c, Pruned(k))
<1>1. Len(c) \in Nat /\ Retention \in Nat
  BY NodeChainAssumption
<1> QED
  BY <1>1 DEF Pruned, KeptEnough

\* A longer chain still holds what the index points to.
LEMMA IndexAppend ==
  ASSUME NEW B, NEW c \in Seq(B), NEW b \in B, NEW index, IndexInto(c, index)
  PROVE  IndexInto(Append(c, b), index \cup Indexed(b))
<1> DEFINE e == Append(c, b)
<1>1. /\ DOMAIN c = 1 .. Len(c) /\ DOMAIN e = 1 .. Len(c) + 1 /\ Len(c) \in Nat
      /\ e[Len(c) + 1] = b /\ \A i \in DOMAIN c : e[i] = c[i]
  OBVIOUS
<1>2. DOMAIN c \subseteq DOMAIN e /\ Len(c) + 1 \in DOMAIN e
  BY <1>1
<1> HIDE DEF e
<1>3. ASSUME NEW m \in index
      PROVE  \E i \in DOMAIN e : e[i].hash = m[2] /\ m[1] \in Range(e[i].txs)
  BY <1>1, <1>2 DEF IndexInto
<1>4. ASSUME NEW m \in Indexed(b)
      PROVE  \E i \in DOMAIN e : e[i].hash = m[2] /\ m[1] \in Range(e[i].txs)
  <2>1. m[2] = b.hash /\ m[1] \in Range(b.txs)
    BY DEF Indexed
  <2> QED
    BY <1>1, <1>2, <2>1
<1> QED
  BY <1>3, <1>4 DEF IndexInto, e

\* A block whose transactions offer the fee of its parent chain extends it.
LEMMA FeesAppend ==
  ASSUME NEW B, NEW c \in Seq(B), NEW b \in B, FeesMet(c),
         \A t \in Range(b.txs) : MaxFee[t] >= BaseFee(c)
  PROVE  FeesMet(Append(c, b))
<1> DEFINE e == Append(c, b)
<1>1. /\ DOMAIN c = 1 .. Len(c) /\ DOMAIN e = 1 .. Len(c) + 1 /\ Len(c) \in Nat
      /\ e[Len(c) + 1] = b /\ \A i \in 1 .. Len(c) : e[i] = c[i]
  OBVIOUS
<1>2. ASSUME NEW i \in DOMAIN e PROVE SubSeq(e, 1, i - 1) = SubSeq(c, 1, i - 1)
  <2>1. i \in 1 .. Len(c) + 1
    BY <1>1, <1>2
  <2>2. \A j \in 1 .. i - 1 : e[j] = c[j] /\ j + 0 \in 1 .. Len(c) /\ c[j] \in B
    BY <1>1, <2>1
  <2>3. /\ SubSeq(e, 1, i - 1) \in Seq(B) /\ SubSeq(c, 1, i - 1) \in Seq(B)
        /\ Len(SubSeq(e, 1, i - 1)) = i - 1 /\ Len(SubSeq(c, 1, i - 1)) = i - 1
        /\ \A j \in 1 .. i - 1 : SubSeq(e, 1, i - 1)[j] = e[j] /\ SubSeq(c, 1, i - 1)[j] = c[j]
    <3>1. 1 \in Int /\ i - 1 \in Int /\ (1 <= i - 1 \/ i - 1 = 0) /\ i - 1 - 1 + 1 = i - 1
      BY <1>1, <2>1
    <3>2. \A j \in 1 .. i - 1 : 1 + j - 1 = j
      BY <3>1
    <3>3. \A j \in 1 .. i - 1 : e[j] \in B /\ c[j] \in B
      BY <2>2
    <3> HIDE DEF e
    <3> QED
      BY <3>1, <3>2, <3>3, SubSeqProperties
  <2> HIDE DEF e
  <2> QED
    BY <2>2, <2>3
<1>3. SubSeq(c, 1, Len(c)) = c
  OBVIOUS
<1>4. ASSUME NEW i \in DOMAIN e, NEW t \in Range(e[i].txs)
      PROVE  MaxFee[t] >= BaseFee(SubSeq(e, 1, i - 1))
  <2>1. CASE i = Len(c) + 1
    <3>1. e[i] = b /\ i - 1 = Len(c)
      BY <1>1, <2>1
    <3>2. SubSeq(e, 1, i - 1) = c
      BY <1>2, <1>3, <3>1
    <3> HIDE DEF e
    <3> QED
      BY <1>4, <3>1, <3>2
  <2>2. CASE i \in DOMAIN c
    <3>1. e[i] = c[i]
      BY <1>1, <2>2
    <3>2. SubSeq(e, 1, i - 1) = SubSeq(c, 1, i - 1)
      BY <1>2
    <3> HIDE DEF e
    <3> QED
      BY <1>4, <2>2, <3>1, <3>2 DEF FeesMet
  <2>3. i \in DOMAIN c \/ i = Len(c) + 1
    BY <1>1
  <2> QED
    BY <2>1, <2>2, <2>3
<1> QED
  BY <1>4 DEF FeesMet

\* Executing transactions keeps the state's type.
LEMMA ExecutedType ==
  ASSUME NEW s \in States, NEW txs \in Seq(Txs)
  PROVE  Executed(s, txs) \in States
<1>1. {txs[i] : i \in AppliedPrefix(s.done, txs)} \subseteq Txs
  BY DEF AppliedPrefix
<1> QED
  BY <1>1 DEF Executed, States

\* What Commit keeps, whoever commits.
LEMMA CommitKeeps ==
  ASSUME KeptInv, NEW n \in Nodes, NEW b \in Blocks, NEW s \in States, Commit(n, b, s)
  PROVE  /\ chain' \in [Nodes -> Seq(Blocks)]
         /\ kept' \in [Nodes -> Nat]
         /\ state' \in [Nodes -> States]
         /\ mined' \in [Nodes -> SUBSET (Txs \X Nat)]
         /\ disk' \in [Nodes -> Snapshots]
         /\ committed' \subseteq Nodes \X Nat \X Nat
         /\ \A m \in Nodes : /\ KeptEnough(chain'[m], kept'[m])
                             /\ KeptEnough(disk'[m].chain, disk'[m].kept)
                             /\ IndexInto(chain'[m], mined'[m])
<1> DEFINE c == chain[n]
           e == Append(c, b)
           k == KeptAfter(kept[n] + 1, b.height)
<1>1. c \in Seq(Blocks) /\ kept[n] \in Nat /\ KeptEnough(c, kept[n]) /\ IndexInto(c, mined[n])
  BY DEF KeptInv, TypeOK
<1>2. e \in Seq(Blocks)
  BY <1>1
<1>3. k \in Nat /\ KeptEnough(e, k)
  BY <1>1, KeptAfterEnough
<1>4. IndexInto(e, mined[n] \cup Indexed(b))
  BY <1>1, IndexAppend
<1>5. Indexed(b) \subseteq Txs \X Nat
  <2>1. b.hash \in Nat /\ Range(b.txs) \subseteq Txs
    BY DEF Blocks, Range
  <2> QED
    BY <2>1 DEF Indexed
<1>6. /\ chain' = [chain EXCEPT ![n] = e]
      /\ kept' = [kept EXCEPT ![n] = k]
      /\ state' = [state EXCEPT ![n] = s]
      /\ mined' = [mined EXCEPT ![n] = @ \cup Indexed(b)]
      /\ committed' = committed \cup {<<n, b.height, b.hash>>}
      /\ \/ disk' = [disk EXCEPT ![n] = [chain |-> e, kept |-> k, state |-> s]]
         \/ disk' = disk
  BY DEF Commit
<1> HIDE DEF c, e, k
<1>7. /\ chain' \in [Nodes -> Seq(Blocks)]
      /\ kept' \in [Nodes -> Nat]
      /\ state' \in [Nodes -> States]
  BY <1>2, <1>3, <1>6 DEF KeptInv, TypeOK
<1>8. mined' \in [Nodes -> SUBSET (Txs \X Nat)]
  BY <1>5, <1>6 DEF KeptInv, TypeOK
<1>9. [chain |-> e, kept |-> k, state |-> s] \in Snapshots
  BY <1>2, <1>3 DEF Snapshots
<1>10. disk' \in [Nodes -> Snapshots]
  BY <1>6, <1>9 DEF KeptInv, TypeOK
<1>11. committed' \subseteq Nodes \X Nat \X Nat
  <2>1. <<n, b.height, b.hash>> \in Nodes \X Nat \X Nat
    BY DEF Blocks
  <2>2. committed \subseteq Nodes \X Nat \X Nat
    BY DEF KeptInv, TypeOK
  <2> QED
    BY <1>6, <2>1, <2>2
<1>12. ASSUME NEW m \in Nodes
       PROVE  /\ KeptEnough(chain'[m], kept'[m])
              /\ KeptEnough(disk'[m].chain, disk'[m].kept)
              /\ IndexInto(chain'[m], mined'[m])
  <2>0. /\ KeptEnough(chain[m], kept[m])
        /\ KeptEnough(disk[m].chain, disk[m].kept)
        /\ IndexInto(chain[m], mined[m])
    BY DEF KeptInv
  <2>1. CASE m = n
    <3>1. chain'[m] = e /\ kept'[m] = k /\ mined'[m] = mined[n] \cup Indexed(b)
      BY <1>6, <2>1 DEF KeptInv, TypeOK
    <3>2. disk'[m] = [chain |-> e, kept |-> k, state |-> s] \/ disk'[m] = disk[m]
      BY <1>6, <2>1 DEF KeptInv, TypeOK
    <3> QED
      BY <1>3, <1>4, <2>0, <3>1, <3>2
  <2>2. CASE m # n
    <3>1. chain'[m] = chain[m] /\ kept'[m] = kept[m] /\ mined'[m] = mined[m] /\ disk'[m] = disk[m]
      BY <1>6, <2>2 DEF KeptInv, TypeOK
    <3> QED
      BY <2>0, <3>1
  <2> QED
    BY <2>1, <2>2
<1> QED
  BY <1>7, <1>8, <1>10, <1>11, <1>12

\* A built block fits, and what was drained for it was pending.
LEMMA ProduceKeeps ==
  ASSUME KeptInv, Produce
  PROVE  KeptInv'
<1> DEFINE c == chain[Producer]
           d == Drain(mempool, BaseFee(c))
           height == Len(c) + 1
           s == Minted(Executed(state[Producer], d.taken), height)
           b == [hash |-> ticks + 1, height |-> height, parent |-> HeadOf(c),
                 txs |-> d.taken, root |-> s]
<1>1. /\ built' = built \cup {b} /\ Commit(Producer, b, s) /\ mempool' = d.rest
      /\ ticks' = ticks + 1 /\ ticks < MaxTicks /\ UNCHANGED <<submits, crashes>>
  BY DEF Produce
<1>2. Producer \in Nodes /\ c \in Seq(Blocks) /\ mempool \in Seq(Txs) /\ state[Producer] \in States
      /\ ticks \in 0 .. MaxTicks /\ FeesMet(c)
  BY DEF Nodes, KeptInv, TypeOK
<1>3. DrainInv(d, BaseFee(c))
  BY <1>2, DrainFits
<1> HIDE DEF d
<1>4. d.taken \in Seq(Txs) /\ d.rest \in Seq(Txs)
  BY <1>3 DEF DrainInv, Drained
<1>5. s \in States
  <2>1. Executed(state[Producer], d.taken) \in States /\ height - 1 \in Nat
    BY <1>2, <1>4, ExecutedType
  <2> QED
    BY <2>1 DEF Minted, States
<1> HIDE DEF s
<1>6. HeadOf(c) \in Nat
  <2>1. CASE c = <<>>
    BY <2>1 DEF HeadOf, Genesis
  <2>2. CASE c # <<>>
    <3>1. c[Len(c)] \in Blocks
      BY <1>2, <2>2
    <3> QED
      BY <2>2, <3>1 DEF HeadOf, Last, Blocks
  <2> QED
    BY <2>1, <2>2
<1>7. b \in Blocks /\ b.txs = d.taken
  <2>1. ticks + 1 \in Nat \ {0} /\ height \in Nat \ {0}
    BY <1>2
  <2> QED
    BY <1>4, <1>5, <1>6, <2>1 DEF Blocks
<1> HIDE DEF b
<1>8. /\ chain' \in [Nodes -> Seq(Blocks)]
      /\ kept' \in [Nodes -> Nat]
      /\ state' \in [Nodes -> States]
      /\ mined' \in [Nodes -> SUBSET (Txs \X Nat)]
      /\ disk' \in [Nodes -> Snapshots]
      /\ committed' \subseteq Nodes \X Nat \X Nat
      /\ \A m \in Nodes : /\ KeptEnough(chain'[m], kept'[m])
                          /\ KeptEnough(disk'[m].chain, disk'[m].kept)
                          /\ IndexInto(chain'[m], mined'[m])
  BY <1>1, <1>2, <1>5, <1>7, CommitKeeps
<1>9. TypeOK'
  <2>1. built' \subseteq Blocks
    BY <1>1, <1>7 DEF KeptInv, TypeOK
  <2>2. ticks' \in 0 .. MaxTicks
    BY <1>1, <1>2, NodeChainAssumption
  <2> QED
    BY <1>1, <1>4, <1>8, <2>1, <2>2 DEF KeptInv, TypeOK
<1>10. FeesMet(Append(c, b))
  <2>1. \A t \in Range(b.txs) : MaxFee[t] >= BaseFee(c)
    BY <1>3, <1>7 DEF DrainInv
  <2> QED
    BY <1>2, <1>7, <2>1, FeesAppend
<1>11. FeesMet(chain'[Producer]) /\ FeesMet(disk'[Producer].chain)
  <2>1. chain'[Producer] = Append(c, b)
    BY <1>1, <1>2 DEF Commit, KeptInv, TypeOK
  <2>2. disk'[Producer].chain = Append(c, b) \/ disk'[Producer] = disk[Producer]
    BY <1>1, <1>2 DEF Commit, KeptInv, TypeOK
  <2>3. FeesMet(disk[Producer].chain)
    BY DEF KeptInv
  <2> HIDE DEF c
  <2> QED
    BY <1>10, <2>1, <2>2, <2>3
<1>12. \A x \in built' : FitsBlock(x.txs)
  <2>1. FitsBlock(b.txs)
    BY <1>3, <1>7 DEF DrainInv
  <2> QED
    BY <1>1, <2>1 DEF KeptInv
<1> QED
  BY <1>8, <1>9, <1>11, <1>12 DEF KeptInv, KeptEnough, IndexInto, FeesMet, FitsBlock, Range

\* Every step preserves it.
LEMMA NextKeeps == KeptInv /\ [Next]_vars => KeptInv'
<1> SUFFICES ASSUME KeptInv, [Next]_vars PROVE KeptInv'
  OBVIOUS
<1>1. CASE \E t \in Txs : Submit(t)
  <2>1. PICK t \in Txs : Submit(t)
    BY <1>1
  <2>2. TypeOK'
    BY <2>1, NodeChainAssumption DEF Submit, KeptInv, TypeOK
  <2> QED
    BY <2>1, <2>2 DEF Submit, KeptInv, KeptEnough, IndexInto, FeesMet, FitsBlock, Range
<1>2. CASE Produce
  BY <1>2, ProduceKeeps
<1>3. CASE BuildFails
  <2> DEFINE d == Drain(mempool, BaseFee(chain[Producer]))
  <2>1. /\ mempool' = d.rest /\ state' = [state EXCEPT ![Producer] = Executed(@, d.taken)]
        /\ ticks' = ticks + 1 /\ ticks < MaxTicks
        /\ UNCHANGED <<chain, kept, mined, disk, built, committed, submits, crashes>>
    BY <1>3 DEF BuildFails
  <2>2. d.taken \in Seq(Txs) /\ d.rest \in Seq(Txs)
    BY DrainFits DEF KeptInv, TypeOK, DrainInv, Drained
  <2> HIDE DEF d
  <2>3. Executed(state[Producer], d.taken) \in States
    BY <2>2, ExecutedType DEF KeptInv, TypeOK, Nodes
  <2>4. state' \in [Nodes -> States] /\ ticks' \in 0 .. MaxTicks
    BY <2>1, <2>3, NodeChainAssumption DEF KeptInv, TypeOK, Nodes
  <2>5. TypeOK'
    BY <2>1, <2>2, <2>4 DEF KeptInv, TypeOK
  <2> QED
    BY <2>1, <2>5 DEF KeptInv, KeptEnough, IndexInto, FeesMet, FitsBlock, Range
<1>4. CASE \E f \in Followers, b \in built : ApplySynced(f, b)
  <2>1. PICK f \in Followers, b \in built : ApplySynced(f, b)
    BY <1>4
  <2>2. f \in Nodes /\ f # Producer /\ b \in Blocks /\ Producer \in Nodes
    BY NodeChainAssumption DEF Nodes, KeptInv, TypeOK
  <2>3. Executed(state[f], b.txs) \in States
    BY <2>2, ExecutedType DEF KeptInv, TypeOK, Blocks
  <2>4. Commit(f, b, Executed(state[f], b.txs)) /\ UNCHANGED <<mempool, built, ticks, submits, crashes>>
    BY <2>1 DEF ApplySynced
  <2>5. /\ chain' \in [Nodes -> Seq(Blocks)]
        /\ kept' \in [Nodes -> Nat]
        /\ state' \in [Nodes -> States]
        /\ mined' \in [Nodes -> SUBSET (Txs \X Nat)]
        /\ disk' \in [Nodes -> Snapshots]
        /\ committed' \subseteq Nodes \X Nat \X Nat
        /\ \A m \in Nodes : /\ KeptEnough(chain'[m], kept'[m])
                            /\ KeptEnough(disk'[m].chain, disk'[m].kept)
                            /\ IndexInto(chain'[m], mined'[m])
    BY <2>2, <2>3, <2>4, CommitKeeps
  <2>6. TypeOK'
    BY <2>4, <2>5 DEF KeptInv, TypeOK
  <2>7. chain'[Producer] = chain[Producer] /\ disk'[Producer] = disk[Producer]
    BY <2>2, <2>4 DEF Commit, KeptInv, TypeOK
  <2> QED
    BY <2>4, <2>5, <2>6, <2>7 DEF KeptInv, KeptEnough, IndexInto, FeesMet, FitsBlock, Range
<1>5. CASE \E n \in MayCrash : Restart(n)
  <2>1. PICK n \in Nodes : Restart(n)
    BY <1>5, NodeChainAssumption DEF Nodes
  <2> DEFINE r == disk[n]
  <2>2. r.chain \in Seq(Blocks) /\ r.kept \in Nat /\ r.state \in States /\ KeptEnough(r.chain, r.kept)
    BY DEF KeptInv, TypeOK, Snapshots
  <2>3. Pruned(r.kept) \in Nat /\ KeptEnough(r.chain, Pruned(r.kept))
    BY <2>2, PrunedEnough
  <2>4. Reindexed(n, r) \subseteq Txs \X Nat /\ IndexInto(r.chain, Reindexed(n, r))
    <3>1. \A i \in Len(r.chain) - r.kept + 1 .. Len(r.chain) : i \in DOMAIN r.chain
      BY <2>2 DEF KeptEnough
    <3>2. \A m \in Reindexed(n, r) :
            \E i \in Len(r.chain) - r.kept + 1 .. Len(r.chain) : m \in Indexed(r.chain[i])
      BY DEF Reindexed
    <3>3. ASSUME NEW m \in Reindexed(n, r)
          PROVE  /\ m \in Txs \X Nat
                 /\ \E i \in DOMAIN r.chain : r.chain[i].hash = m[2] /\ m[1] \in Range(r.chain[i].txs)
      <4>1. PICK i \in DOMAIN r.chain : m \in Indexed(r.chain[i])
        BY <3>1, <3>2
      <4>2. r.chain[i] \in Blocks
        BY <2>2
      <4>3. r.chain[i].hash \in Nat /\ Range(r.chain[i].txs) \subseteq Txs
        BY <4>2 DEF Blocks, Range
      <4> QED
        BY <4>1, <4>3 DEF Indexed
    <3> QED
      BY <3>3 DEF IndexInto
  <2> HIDE DEF r
  <2>5. /\ chain' = [chain EXCEPT ![n] = r.chain]
        /\ kept' = [kept EXCEPT ![n] = Pruned(r.kept)]
        /\ state' = [state EXCEPT ![n] = r.state]
        /\ mined' = [mined EXCEPT ![n] = Reindexed(n, r)]
        /\ crashes' = crashes + 1 /\ crashes < MaxCrashes
        /\ mempool' \in {<<>>, mempool}
        /\ UNCHANGED <<disk, built, committed, ticks, submits>>
    BY <2>1 DEF Restart, r
  <2>6. TypeOK'
    <3>1. chain' \in [Nodes -> Seq(Blocks)] /\ kept' \in [Nodes -> Nat] /\ state' \in [Nodes -> States]
      BY <2>2, <2>3, <2>5 DEF KeptInv, TypeOK
    <3>2. mined' \in [Nodes -> SUBSET (Txs \X Nat)]
      BY <2>4, <2>5 DEF KeptInv, TypeOK
    <3>3. mempool' \in Seq(Txs)
      <4>1. mempool \in Seq(Txs) /\ <<>> \in Seq(Txs)
        BY DEF KeptInv, TypeOK
      <4> QED
        BY <2>5, <4>1
    <3>4. crashes' \in 0 .. MaxCrashes
      BY <2>5, NodeChainAssumption DEF KeptInv, TypeOK
    <3> QED
      BY <2>5, <3>1, <3>2, <3>3, <3>4 DEF KeptInv, TypeOK
  <2>7. ASSUME NEW m \in Nodes
        PROVE  KeptEnough(chain'[m], kept'[m]) /\ IndexInto(chain'[m], mined'[m])
    <3>1. CASE m = n
      <4>1. chain'[m] = r.chain /\ kept'[m] = Pruned(r.kept) /\ mined'[m] = Reindexed(n, r)
        BY <2>5, <3>1 DEF KeptInv, TypeOK
      <4> QED
        BY <2>3, <2>4, <4>1
    <3>2. CASE m # n
      <4>1. chain'[m] = chain[m] /\ kept'[m] = kept[m] /\ mined'[m] = mined[m]
        BY <2>5, <3>2 DEF KeptInv, TypeOK
      <4> QED
        BY <4>1 DEF KeptInv
    <3> QED
      BY <3>1, <3>2
  <2>8. FeesMet(chain'[Producer]) /\ FeesMet(disk'[Producer].chain)
    <3>1. chain'[Producer] = chain[Producer] \/ chain'[Producer] = disk[Producer].chain
      <4>1. Producer \in Nodes /\ DOMAIN chain = Nodes
        BY DEF KeptInv, TypeOK, Nodes
      <4> QED
        BY <2>5, <4>1 DEF r
    <3> QED
      BY <2>5, <3>1 DEF KeptInv
  <2> QED
    BY <2>5, <2>6, <2>7, <2>8 DEF KeptInv, KeptEnough, IndexInto, FeesMet, FitsBlock, Range
<1>6. CASE UNCHANGED vars
  BY <1>6 DEF vars, KeptInv, TypeOK, KeptEnough, IndexInto, FeesMet, FitsBlock, Range
<1> QED
  BY <1>1, <1>2, <1>3, <1>4, <1>5, <1>6 DEF Next

\* It holds initially.
LEMMA InitKeeps == Init => KeptInv
<1> SUFFICES ASSUME Init PROVE KeptInv
  OBVIOUS
<1>0. <<>> \in Seq(Blocks) /\ <<>> \in Seq(Txs) /\ Len(<<>>) = 0 /\ DOMAIN <<>> = {}
  OBVIOUS
<1>1. GenesisState \in States /\ NoSnapshot \in Snapshots
  BY <1>0 DEF GenesisState, States, NoSnapshot, Snapshots
<1>2. TypeOK
  BY <1>0, <1>1, NodeChainAssumption DEF Init, TypeOK
<1>3. \A n \in Nodes : chain[n] = <<>> /\ kept[n] = 0 /\ disk[n].chain = <<>> /\ disk[n].kept = 0 /\ mined[n] = {}
  BY DEF Init, NoSnapshot
<1>4. KeptEnough(<<>>, 0) /\ IndexInto(<<>>, {}) /\ FeesMet(<<>>)
  BY <1>0, NodeChainAssumption DEF KeptEnough, IndexInto, FeesMet
<1> QED
  BY <1>2, <1>3, <1>4 DEF KeptInv, Init, Nodes

\* Through any number of commits, prunings, crashes and restarts a node keeps
\* its tip and the configured rest of its chain, its index points into that
\* chain, and the blocks the drain of the mempool fills fit.
THEOREM ChainsAreKept == Spec => []ChainIsKept
<1>1. KeptInv => ChainIsKept
  BY DEF KeptInv, ChainIsKept, TipRetained, KeptEnough, IndexMatchesChain, IndexInto,
         BlocksFit, FeesMet, FitsBlock
<1> QED
  BY <1>1, InitKeeps, NextKeeps, PTL DEF Spec
=============================================================================
