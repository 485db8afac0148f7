---------------------------- MODULE MerkleProofs ----------------------------
(***************************************************************************)
(* Merkle trees, their proofs, and what rests on them: the payouts of a    *)
(* settled batch, the data-availability sidecar of a block with its        *)
(* sampling receipts, the receipts of a finished task and the trie of      *)
(* revoked capabilities.  The tree is one algorithm in three places           *)
(* (core/merkle.rs, consensus/lib.rs and wallet/merkle.rs): a level is     *)
(* halved by hashing pairs, a last node without a partner is paired with   *)
(* itself.  A hash of a pair is the pair, so hashes never collide.         *)
(* Indexes count from 0, as in the code.  A behaviour is about a batch, a  *)
(* sidecar, a task or the trie: they share nothing but the hashing.        *)
(***************************************************************************)
EXTENDS Values, TLC

CONSTANTS
  Payees,      \* who a payout entry pays
  Bytes,       \* the bytes of a payload
  ShareSizes,  \* share sizes to encode with
  ToolReceipts, \* receipts of tool calls: number, task, cost
  KeyBits,     \* bits of a capability id (256)
  Leaves,      \* the commitments a revocation entry can have
  MaxLeaves,   \* bound: entries of a batch
  MaxAttached, \* bound: receipts of a task
  MaxTasks,    \* bound: task receipts built
  MaxBytes     \* bound: bytes of a payload

ASSUME MerkleAssumption == ShareSizes \subseteq Nat \ {0} /\ MaxLeaves \in Nat /\ MaxBytes \in Nat
  /\ KeyBits \in Nat \ {0} /\ MaxAttached \in Nat /\ MaxTasks \in Nat

VARIABLES
  payoutList,   \* the entries of a batch: a sequence of leaves
  original,  \* the payload the header commits to
  header,    \* its da_* fields
  sidecar,   \* the sidecar that arrived with the header
  attached,  \* the tool receipts of the task in hand
  tasks,     \* the task receipts built
  revokedTrie,   \* RevocationSparseTrie: key -> leaf
  witness    \* the last proof handed out, with the state of its key

merkleVars == <<payoutList, original, header, sidecar, attached, tasks, revokedTrie, witness>>
blobVars == <<payoutList, original, header, sidecar>>
taskVars == <<attached, tasks>>
trieVars == <<revokedTrie, witness>>

CeilDiv(a, b) == (a + b - 1) \div b

Pow2[n \in Nat] == IF n = 0 THEN 1 ELSE 2 * Pow2[n - 1]

\* merkle_path_len_for_leaf_count: how often n leaves are halved
PathLen(n) == CHOOSE d \in 0 .. n : Pow2[d] >= n /\ \A e \in 0 .. d - 1 : Pow2[e] < n

\* next_level
NextLevel(level) ==
  [i \in 1 .. CeilDiv(Len(level), 2) |->
     <<level[2 * i - 1], level[IF 2 * i <= Len(level) THEN 2 * i ELSE 2 * i - 1]>>]

\* The levels of the tree over leaves, from the leaves up.
Levels(leaves) ==
  LET lev[k \in 0 .. PathLen(Len(leaves))] == IF k = 0 THEN leaves ELSE NextLevel(lev[k - 1])
  IN lev

EmptyRoot == <<>>

\* merkle_root
Root(leaves) == IF leaves = <<>> THEN EmptyRoot ELSE Levels(leaves)[PathLen(Len(leaves))][1]

\* The node beside idx on a level.
Sibling(level, idx) ==
  IF idx % 2 = 0 THEN level[IF idx + 1 < Len(level) THEN idx + 2 ELSE idx + 1] ELSE level[idx]

\* merkle_proof
Path(leaves, idx) ==
  [k \in 1 .. PathLen(Len(leaves)) |-> Sibling(Levels(leaves)[k - 1], idx \div Pow2[k - 1])]

\* verify_merkle_proof: what leaf, index and path hash up to
Climb(leaf, idx, path) ==
  LET node[k \in 0 .. Len(path)] ==
        IF k = 0 THEN leaf
        ELSE IF (idx \div Pow2[k - 1]) % 2 = 0 THEN <<node[k - 1], path[k]>> ELSE <<path[k], node[k - 1]>>
  IN node[Len(path)]

\* verify_merkle_path: the number of leaves fixes the length of the path
VerifyPath(leaf, idx, count, path, root) ==
  /\ count # 0 /\ idx < count
  /\ Len(path) = PathLen(count)
  /\ Climb(leaf, idx, path) = root

\* Seeded defect: the hash of an entry leaves out its index.
PayoutLeafUnplaced(i, payee) == <<"payout", 0, payee>>

\* hash_payout_entry
PayoutLeaf(i, payee) == <<"payout", i, payee>>

\* apply_claim_payout: whether path proves a claim of entry i by payee against
\* the root of the batch
Claims(i, payee, path, root) == Climb(PayoutLeaf(i, payee), i, path) = root

AddEntry(payee) ==
  /\ Len(payoutList) < MaxLeaves /\ original = <<>>
  /\ payoutList' = Append(payoutList, PayoutLeaf(Len(payoutList), payee))
  /\ tasks = {} /\ attached = <<>> /\ revokedTrie = Empty
  /\ UNCHANGED <<original, header, sidecar, taskVars, trieVars>>
-----------------------------------------------------------------------------
\* default_parity_share_count, at one parity share for each data share
ParityCount(data) == IF data > 1 THEN data ELSE 1

\* The i-th data share of a payload: its last one is filled up with zeros.
DataShare(payload, size, i) ==
  [j \in 1 .. size |-> IF (i - 1) * size + j <= Len(payload) THEN payload[(i - 1) * size + j] ELSE 0]

\* A byte that no payload has.
ParityTag == 100

\* ReedSolomon::encode (external): a parity share is a function of the data shares.
ParityShare(payload, size, i) ==
  <<ParityTag + i, [k \in 1 .. CeilDiv(Len(payload), size) |-> DataShare(payload, size, k)]>>

\* da_share_commitment
ShareCommitment(share) == <<"share", share.index, share.parity, share.bytes>>

\* build_da_sidecar, also of a zone blob: an empty payload has no shares at all
BuildSidecar(payload, size) ==
  LET data == CeilDiv(Len(payload), size)
      parity == IF payload = <<>> THEN 0 ELSE ParityCount(data)
      Share(i) == [index |-> i - 1, parity |-> i > data,
                   bytes |-> IF i > data THEN ParityShare(payload, size, i) ELSE DataShare(payload, size, i),
                   mark |-> <<>>]
  IN [len |-> Len(payload), size |-> size, data |-> data, parity |-> parity,
      shares |-> [i \in 1 .. data + parity |-> [Share(i) EXCEPT !.mark = ShareCommitment(Share(i))]]]

\* da_root
DaRoot(s) == Root([i \in DOMAIN s.shares |-> s.shares[i].mark])

\* The da_* fields of a header: da_gas_for_sidecar and da_fee_for_gas charge a unit a byte.
DaHeader(s) ==
  [root |-> DaRoot(s), bytes |-> s.len, count |-> Len(s.shares), gas |-> Len(s.shares) * s.size]

\* verify_da_layout
LayoutOK(s) ==
  /\ s.data = CeilDiv(s.len, s.size)
  /\ IF s.len = 0 THEN s.parity = 0 /\ s.shares = <<>>
     ELSE s.parity # 0 /\ Len(s.shares) = s.data + s.parity

\* The checks of one share: at its place, of its size, and what it says it is.
ShareOK(s, i) ==
  /\ s.shares[i].index = i - 1
  /\ s.shares[i].parity = (i > s.data)
  /\ s.shares[i].mark = ShareCommitment(s.shares[i])

\* verify_da_sidecar
VerifySidecar(h, s) ==
  /\ s.len = h.bytes
  /\ Len(s.shares) = h.count
  /\ h.gas = Len(s.shares) * s.size
  /\ LayoutOK(s)
  /\ \A i \in DOMAIN s.shares : ShareOK(s, i)
  /\ DaRoot(s) = h.root

\* ReedSolomon::reconstruct (external): the data shares, from any s.data shares
Decoded(s, held) ==
  IF \A i \in 1 .. s.data : i \in held THEN [i \in 1 .. s.data |-> s.shares[i].bytes]
  ELSE s.shares[CHOOSE i \in held : i > s.data].bytes[2]

\* reconstruct_da_payload_from_shares, given the shares held: concatenated and cut to length
Reconstruct(s, held) ==
  LET shards == Decoded(s, held)
  IN [n \in 1 .. s.len |-> shards[((n - 1) \div s.size) + 1][((n - 1) % s.size) + 1]]

\* The generator of the sample indexes on its low bits: its multiplier is 5 and its increment 7 modulo 8.
Lcg(x) == (5 * x + 7) % 8

\* deterministic_da_sample_indexes, for a number of shares that divides 8
SampleIndexes(seed, count, samples) ==
  LET x[k \in 0 .. samples] == IF k = 0 THEN seed ELSE Lcg(x[k - 1])
  IN [k \in 1 .. samples |-> x[k] % count]

\* build_da_sampling_receipt
BuildReceipt(s, seed, samples) ==
  LET marks == [i \in DOMAIN s.shares |-> s.shares[i].mark]
      at == SampleIndexes(seed, Len(marks), samples)
  IN [root |-> DaRoot(s), count |-> Len(marks), seed |-> seed,
      samples |-> [k \in 1 .. samples |-> [index |-> at[k], mark |-> marks[at[k] + 1], path |-> Path(marks, at[k])]]]

\* verify_da_sampling_receipt: of no shares, no samples are enough
VerifyReceipt(r, root, min) ==
  /\ r.root = root
  /\ Len(r.samples) >= min
  /\ r.count = 0 => r.samples = <<>>
  /\ \A k \in DOMAIN r.samples :
        /\ r.samples[k].index < r.count
        /\ r.samples[k].index = SampleIndexes(r.seed, r.count, Len(r.samples))[k]
        /\ VerifyPath(r.samples[k].mark, r.samples[k].index, r.count, r.samples[k].path, r.root)

Publish(payload, size) ==
  /\ original = <<>> /\ payoutList = <<>> /\ payload # <<>>
  /\ original' = payload
  /\ sidecar' = BuildSidecar(payload, size)
  /\ header' = DaHeader(BuildSidecar(payload, size))
  /\ tasks = {} /\ attached = <<>> /\ revokedTrie = Empty
  /\ UNCHANGED <<payoutList, taskVars, trieVars>>

\* What may happen to a sidecar on its way: a share rewritten, with or without its
\* commitment, two shares swapped, the last one lost, a count or length changed.
Damage(s) ==
  LET n == Len(s.shares)
      Other(share) == [share EXCEPT !.bytes[1] = ParityTag]
  IN {[s EXCEPT !.shares[i] = Other(@)] : i \in 1 .. n}
     \cup {[s EXCEPT !.shares[i] = [Other(@) EXCEPT !.mark = ShareCommitment(Other(s.shares[i]))]] : i \in 1 .. n}
     \cup {[s EXCEPT !.shares[i] = s.shares[j], !.shares[j] = s.shares[i]] : i \in 1 .. n, j \in 1 .. n}
     \cup {[s EXCEPT !.shares = SubSeq(@, 1, n - 1)], [s EXCEPT !.data = @ + 1, !.parity = @ - 1],
           [s EXCEPT !.len = @ + 1], [s EXCEPT !.size = @ + 1]}

Deliver ==
  /\ original # <<>>
  /\ sidecar = BuildSidecar(original, sidecar.size)
  /\ \E s \in Damage(sidecar) : sidecar' = s
  /\ UNCHANGED <<payoutList, original, header, taskVars, trieVars>>

-----------------------------------------------------------------------------
\* tool_receipt_leaf_commitment
ReceiptLeaf(r) == <<"receipt", r.number, r.task, r.cost>>

\* tool_receipt_root: the leaves in the order of their bytes
ToolReceiptRoot(rs) ==
  Root(SortSeq([i \in DOMAIN rs |-> ReceiptLeaf(rs[i])],
               LAMBDA a, b : a[2] < b[2] \/ (a[2] = b[2] /\ a[4] < b[4])))

\* verify_tool_receipt_costs
ToolCosts(rs) == SumSeq(rs, LAMBDA r : r.cost)

Attach(r) ==
  /\ payoutList = <<>> /\ original = <<>> /\ revokedTrie = Empty
  /\ Len(attached) < MaxAttached /\ Cardinality(tasks) < MaxTasks
  /\ attached' = Append(attached, r)
  /\ UNCHANGED <<blobVars, tasks, trieVars>>

\* build_task_receipt: the receipts are the task's, and the total and the root
\* that were claimed are theirs.
BuildTask(task, total) ==
  /\ attached # <<>>
  /\ \A i \in DOMAIN attached : attached[i].task = task
  /\ ToolCosts(attached) = total
  /\ tasks' = tasks \cup {[task |-> task, total |-> total, root |-> ToolReceiptRoot(attached), 
                           used |-> {attached[i] : i \in DOMAIN attached}]}
  /\ attached' = <<>>
  /\ UNCHANGED <<blobVars, trieVars>>
-----------------------------------------------------------------------------
Bits == {0, 1}
TrieKeys == [1 .. KeyBits -> Bits]
TriePrefixes == UNION {[1 .. n -> Bits] : n \in 0 .. KeyBits}
EmptyLeaf == <<"empty">>
RevokedLeaf(key, x) == <<"revoked", key, x>>

\* empty_subtree_at
EmptySubtree(depth) ==
  LET h[d \in 0 .. KeyBits] == IF d = KeyBits THEN EmptyLeaf ELSE <<h[d + 1], h[d + 1]>> IN h[depth]

\* subtree_root: the leaves are parted by the bit at each depth; no leaves, the empty subtree
SubtreeRoot(t, prefix) ==
  LET Under(p) == {k \in DOMAIN t : SubSeq(k, 1, Len(p)) = p}
      node[p \in TriePrefixes] ==
        IF Under(p) = {} THEN EmptySubtree(Len(p))
        ELSE IF Len(p) = KeyBits THEN t[p]
        ELSE <<node[Append(p, 0)], node[Append(p, 1)]>>
  IN node[prefix]

TrieRoot(t) == SubtreeRoot(t, <<>>)

\* The siblings of a key's path, only those that are not empty.
PathSiblings(t, key) ==
  LET beside(d) == SubtreeRoot(t, Append(SubSeq(key, 1, d), 1 - key[d + 1]))
      kept == {d \in 0 .. KeyBits - 1 : beside(d) # EmptySubtree(d + 1)}
  IN [d \in kept |-> beside(d)]

\* non_membership_proof and membership_proof
ProofOf(t, key) == [key |-> key, leaf |-> Get(t, key, EmptyLeaf), siblings |-> PathSiblings(t, key)]

SiblingAt(siblings, d) == Get(siblings, d, EmptySubtree(d + 1))

\* compute_root_from_path
RootFromPath(key, leaf, siblings) ==
  LET up[d \in 0 .. KeyBits] ==
        IF d = KeyBits THEN leaf
        ELSE IF key[d + 1] = 1 THEN <<SiblingAt(siblings, d), up[d + 1]>>
        ELSE <<up[d + 1], SiblingAt(siblings, d)>>
  IN up[0]

VerifyNonMembership(root, p) == RootFromPath(p.key, EmptyLeaf, p.siblings) = root

VerifyMembership(root, p) == RootFromPath(p.key, p.leaf, p.siblings) = root

\* RevocationSparseTrie::insert, again when the entry changes
InsertRevoked(key, x) ==
  /\ payoutList = <<>> /\ original = <<>> /\ tasks = {} /\ attached = <<>>
  /\ revokedTrie' = Put(revokedTrie, key, RevokedLeaf(key, x))
  /\ UNCHANGED <<blobVars, taskVars, witness>>

\* A proof is handed out; it is shown when the trie may have moved on.  One is enough.
HandOut(key) ==
  /\ revokedTrie # Empty /\ witness = <<>>
  /\ witness' = <<ProofOf(revokedTrie, key)>>
  /\ UNCHANGED <<blobVars, taskVars, revokedTrie>>

MerkleInit ==
  /\ payoutList = <<>> /\ original = <<>>
  /\ sidecar = BuildSidecar(<<>>, 1)
  /\ header = DaHeader(sidecar)
  /\ attached = <<>> /\ tasks = {} /\ revokedTrie = Empty /\ witness = <<>>

MerkleNext ==
  \/ \E p \in Payees : AddEntry(p)
  \/ \E n \in 1 .. MaxBytes : \E p \in [1 .. n -> Bytes], z \in ShareSizes : Publish(p, z)
  \/ Deliver
  \/ \E r \in ToolReceipts : Attach(r)
  \/ \E t \in {r.task : r \in ToolReceipts} :
       \E total \in 0 .. MaxAttached * Max({r.cost : r \in ToolReceipts}) : BuildTask(t, total)
  \/ \E key \in TrieKeys : HandOut(key) \/ \E x \in Leaves : InsertRevoked(key, x)

MerkleSpec == MerkleInit /\ [][MerkleNext]_merkleVars
-----------------------------------------------------------------------------
\* The nodes of the tree of the batch: what a claimant can put into a path.
Nodes == UNION {{Levels(payoutList)[k][i] : i \in DOMAIN Levels(payoutList)[k]} : k \in 0 .. PathLen(Len(payoutList))}

\* Every entry of a batch can be claimed, and every receipt built from a published
\* sidecar verifies: the sibling chosen by the prover (merkle_proof) is the one the
\* climb of the verifier needs, also beside a node without a partner.
PathsVerify ==
  /\ \A i \in DOMAIN payoutList : Climb(payoutList[i], i - 1, Path(payoutList, i - 1)) = Root(payoutList)
  /\ Len(sidecar.shares) \in {2, 4, 8} /\ VerifySidecar(header, sidecar) =>
       \A seed \in 0 .. 7 : VerifyReceipt(BuildReceipt(sidecar, seed, 2), header.root, 2)

\* No path made of nodes of the tree proves anything but an entry of the batch at its
\* own index, so a payout is paid once: core's verifier bounds neither the index nor
\* the length of the path, and a padded tree has the last node twice.
OnlyEntriesClaimed ==
  LET depth == PathLen(Len(payoutList))
      nodes == Nodes
      root == Root(payoutList)
  IN \A d \in 0 .. depth : \A path \in [1 .. d -> nodes], i \in 0 .. 2 * Len(payoutList), payee \in Payees :
      (payoutList # <<>> /\ Claims(i, payee, path, root)) =>
         i < Len(payoutList) /\ payoutList[i + 1] = PayoutLeaf(i, payee)

\* A sample that verifies against the root is the share at that index: an inner node
\* of the tree does not pass for a share (verify_merkle_path).
OnlySharesSampled ==
  LET depth == PathLen(Len(payoutList))
      nodes == Nodes
      root == Root(payoutList)
  IN \A d \in 0 .. depth : \A path \in [1 .. d -> nodes], i \in 0 .. Len(payoutList), leaf \in nodes :
      VerifyPath(leaf, i, Len(payoutList), path, root) => leaf = payoutList[i + 1]

\* A sidecar that verifies under a header built from the payload is the one the
\* producer built, whatever happened on the way.
DamageIsSeen == VerifySidecar(header, sidecar) => sidecar = BuildSidecar(original, sidecar.size)

\* Any data_share_count shares of a published sidecar give the payload back, byte for
\* byte and without the padding.
Reconstructs ==
  VerifySidecar(header, sidecar) =>
    \A held \in SUBSET DOMAIN sidecar.shares :
       Cardinality(held) >= sidecar.data => Reconstruct(sidecar, held) = original

\* As many samples as there are shares look at every share, when that number divides
\* 8: the low bits of the generator have full period, whatever the seed.
SamplesReachAll ==
  Len(sidecar.shares) \in {1, 2, 4, 8} =>
    \A seed \in 0 .. 7 :
      LET at == SampleIndexes(seed, Len(sidecar.shares), Len(sidecar.shares))
      IN {at[k] : k \in DOMAIN at} = 0 .. Len(sidecar.shares) - 1

\* The root of a task receipt commits to the set of its tool receipts: two task
\* receipts with one root list the same receipts, in whatever order they were attached
\* (tool_receipt_root, build_task_receipt).  How often one is listed it does not fix:
\* a receipt listed twice may stand for the padding of an odd level.
RootFixesReceipts ==
  \A a, b \in tasks : a.root = b.root => a.used = b.used

\* And with the receipts their cost: docs/wallet.md has a verifier check the total
\* against the receipts the root commits to.
RootFixesTotal == \A a, b \in tasks : a.root = b.root => a.total = b.total

\* The trie proves what it holds and nothing else: a fresh proof verifies as what it is,
\* and no assembly of the trie's own nodes shows a revoked capability as absent, nor
\* does a proof from before the revocation.
RevocationProved ==
  LET root == TrieRoot(revokedTrie)
      nodes == {SubtreeRoot(revokedTrie, p) : p \in TriePrefixes}
  IN revokedTrie # Empty =>
     /\ \A key \in TrieKeys :
          IF key \in DOMAIN revokedTrie
          THEN /\ VerifyMembership(root, ProofOf(revokedTrie, key))
               /\ \A ds \in SUBSET (0 .. KeyBits - 1) : \A sibs \in [ds -> nodes] :
                     ~VerifyNonMembership(root, [key |-> key, leaf |-> EmptyLeaf, siblings |-> sibs])
          ELSE VerifyNonMembership(root, ProofOf(revokedTrie, key))
     /\ \A i \in DOMAIN witness :
          witness[i].leaf = EmptyLeaf /\ VerifyNonMembership(root, witness[i])
             => witness[i].key \notin DOMAIN revokedTrie

\* The trees as a whole (core/src/merkle.rs, the sidecar, wallet/src/smt.rs):
\* an honest path verifies, nothing but an entry at its own place does,
\* damaged shares are seen and any full set of shares rebuilds the payload,
\* every share can be sampled, a root fixes its receipts and a revocation
\* proof tells the truth.
MerkleSafe ==
  /\ PathsVerify /\ OnlyEntriesClaimed /\ OnlySharesSampled /\ DamageIsSeen
  /\ Reconstructs /\ SamplesReachAll /\ RootFixesReceipts /\ RevocationProved

=============================================================================
