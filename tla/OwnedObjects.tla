---------------------------- MODULE OwnedObjects ----------------------------
(***************************************************************************)
(* The owned-object fast path: validators countersign a transaction whose  *)
(* objects are at the versions their own state shows (node/src/lib.rs),    *)
(* a quorum of countersignatures is a certificate (core/src/tx.rs), and    *)
(* the certificate pool of a node keeps one certificate per object version *)
(* (mempool/src/certificate_pool.rs).                                      *)
(*                                                                         *)
(* Meanwhile the chain executes transactions, which bumps the versions of  *)
(* the objects in their scope; validators apply it at their own pace.  The *)
(* nonce of an account is the version of an object of its own, which every *)
(* transaction of the account bumps.                                       *)
(***************************************************************************)
EXTENDS ValidatorSet, Sequences

CONSTANTS
  Txs,          \* transactions submitted by clients
  OwnedTxs,     \* those whose execution scope is Owned
  Objects,      \* object ids, the AccountNonce ids included
  ObjectsOf,    \* the objects in the scope of a transaction
  NonceObject,  \* the AccountNonce object of the transaction's signer
  NonceOf,      \* the nonce of the transaction
  Pools,        \* honest validators whose certificate pool is modelled
  MaxConflicts  \* bound: conflicts a pool records

ASSUME OwnedObjectsAssumption ==
  /\ OwnedTxs \subseteq Txs
  /\ ObjectsOf \in [Txs -> SUBSET Objects]
  /\ NonceObject \in [Txs -> Objects]
  /\ NonceOf \in [Txs -> Nat]
  /\ \A t \in Txs : NonceObject[t] \in ObjectsOf[t]
  /\ Pools \subseteq Honest
  /\ MaxConflicts \in Nat

VARIABLES
  log,        \* the transactions the chain has executed, in order
  applied,    \* applied[v]: how many of them validator v has applied
  signed,     \* countersignatures of honest validators
  accepted,   \* accepted[n]: certificates in by_object_version of node n
  conflicts   \* conflicts[n]: CertificatePool::conflicts of node n

ownedVars == <<log, applied, signed, accepted, conflicts>>

\* An OwnedObjectVersion.
ObjectVersions == Objects \X Nat

\* OwnedObjectCertificateSignBody (the transaction, at object versions) and
\* the validator that signed it.
Countersignatures == [validator: Honest, tx: OwnedTxs, at: SUBSET ObjectVersions]

Certificates ==
  [tx: OwnedTxs, at: SUBSET ObjectVersions, signers: SUBSET Validators]

\* owned_object_version in the state after k transactions: the transactions
\* bump every object of their scope by one.
Version(k, o) == Cardinality({i \in 1 .. k : o \in ObjectsOf[log[i]]})

\* owned_object_versions_for_transaction in the state of validator v.
VersionsSeenBy(v, t) == {<<o, Version(applied[v], o)>> : o \in ObjectsOf[t]}

\* Seeded defect: the nonce of the transaction is not compared.
PrecheckNoNonce(v, t) == t \in OwnedTxs

\* precheck_owned_transaction; its gas, fee and balance conditions, on which
\* nothing else depends, may hold or not.
Precheck(v, t) ==
  /\ t \in OwnedTxs
  /\ NonceOf[t] = Version(applied[v], NonceObject[t])

\* owned_object_precheck_response (fractal_ownedObjectPrecheck): the body that a
\* validator in the state of v would sign, if it passes.
PrecheckResponse(v, t) ==
  {b \in {[tx |-> t, at |-> VersionsSeenBy(v, t)]} : Precheck(v, t)}

\* The signature of v over the body of the certificate verifies.
Attests(v, c) ==
  v \in Faulty \/ [validator |-> v, tx |-> c.tx, at |-> c.at] \in signed

\* OwnedObjectCertificate::verify; distinct sorted signers are a set.
Verified(c) ==
  /\ c.signers \subseteq Validators
  /\ Cardinality(c.signers) >= QuorumThreshold
  /\ \A v \in c.signers : Attests(v, c)

\* aggregate_owned_object_certificate (fractal_aggregateOwnedObjectCertificate):
\* one version of each object of the transaction, and signatures that verify.
Aggregated(t, at, S) ==
  {c \in {[tx |-> t, at |-> at, signers |-> S]} :
     /\ t \in OwnedTxs
     /\ {ov[1] : ov \in at} = ObjectsOf[t] /\ \A a, b \in at : a[1] = b[1] => a = b
     /\ Verified(c)}

\* finality_for_object_version (fractal_getOwnedObjectFinality): the certificate
\* that node n names as final for an object version.
FinalityOf(n, ov) == {c \in accepted[n] : ov \in c.at}

Overlap(c, d) == c.at \cap d.at # {}

SameBody(c, d) == c.tx = d.tx /\ c.at = d.at

\* Seeded defect: only a certificate with all the same objects conflicts.
CollidesExactly(n, c) == {d \in accepted[n] : d.at = c.at}

\* The certificates that hold an object version of c in by_object_version.
Collides(n, c) == {d \in accepted[n] : Overlap(c, d)}

\* Seeded defect: two certificates of one transaction are taken for a conflict.
IsEvidenceAnyBody(c, d) ==
  /\ Verified(c) /\ Verified(d)
  /\ c # d
  /\ Overlap(c, d)
  /\ c.signers \cap d.signers # {}

\* OwnedObjectConflictingCertificateEvidence::verify
IsEvidence(c, d) ==
  /\ Verified(c) /\ Verified(d)
  /\ ~SameBody(c, d)
  /\ Overlap(c, d)
  /\ c.signers \cap d.signers # {}
-----------------------------------------------------------------------------
OwnedInit ==
  /\ log = <<>>
  /\ applied = [v \in Honest |-> 0]
  /\ signed = {}
  /\ accepted = [n \in Pools |-> {}]
  /\ conflicts = [n \in Pools |-> {}]

\* A block executes the transaction: its nonce must be the account's.
Execute(t) ==
  /\ NonceOf[t] = Version(Len(log), NonceObject[t])
  /\ log' = Append(log, t)
  /\ UNCHANGED <<applied, signed, accepted, conflicts>>

\* Validator v applies the next transaction of the chain.
Apply(v) ==
  /\ applied[v] < Len(log)
  /\ applied' = [applied EXCEPT ![v] = @ + 1]
  /\ UNCHANGED <<log, signed, accepted, conflicts>>

\* countersign_owned_object_tx: the check reads the state, and nothing keeps
\* what was signed before.
Countersign(v, t) ==
  /\ \E b \in PrecheckResponse(v, t) :
       signed' = signed \cup {[validator |-> v, tx |-> b.tx, at |-> b.at]}
  /\ UNCHANGED <<log, applied, accepted, conflicts>>

\* submit_owned_object_certificate where no object version is taken.
AcceptCertificate(n, c) ==
  /\ Verified(c)
  /\ Collides(n, c) = {}
  /\ accepted' = [accepted EXCEPT ![n] = @ \cup {c}]
  /\ UNCHANGED <<log, applied, signed, conflicts>>

\* submit_owned_object_certificate where an object version is taken by d.  The
\* object ids' order decides which of several d is reported; any may be.  A
\* pair that is not evidence is rejected and changes nothing.
RejectConflict(n, c, d) ==
  /\ Verified(c)
  /\ d \in Collides(n, c)
  /\ c # d
  /\ IsEvidence(d, c)
  /\ Cardinality(conflicts[n]) < MaxConflicts
  /\ conflicts' = [conflicts EXCEPT ![n] = @ \cup {<<d, c>>}]
  /\ UNCHANGED <<log, applied, signed, accepted>>

\* The certificates a client can aggregate: over a body some honest validator
\* signed (a quorum of faulty signatures alone does not verify).
Aggregates ==
  {[tx |-> s.tx, at |-> s.at, signers |-> S] : s \in signed, S \in SUBSET Validators}

OwnedNext ==
  \/ \E t \in Txs : Execute(t)
  \/ \E v \in Honest : Apply(v)
  \/ \E v \in Honest, t \in Txs : Countersign(v, t)
  \/ \E n \in Pools, c \in Aggregates : AcceptCertificate(n, c)
  \/ \E n \in Pools, c \in Aggregates :
       \E d \in accepted[n] : RejectConflict(n, c, d)

OwnedSpec == OwnedInit /\ [][OwnedNext]_ownedVars
-----------------------------------------------------------------------------
OwnedTypeOK ==
  /\ log \in Seq(Txs)
  /\ applied \in [Honest -> Nat]
  /\ signed \subseteq Countersignatures
  /\ accepted \in [Pools -> SUBSET Certificates]
  /\ conflicts \in [Pools -> SUBSET (Certificates \X Certificates)]

\* A node holds at most one certificate for an object version, also when a
\* certificate over several objects meets ones over some of them
\* (CertificatePool::insert checks all the objects before it takes any).
OnePerObjectVersion ==
  \A n \in Pools : \A c, d \in accepted[n] : Overlap(c, d) => c = d

\* An accepted certificate describes a state the chain has been in: its object
\* versions are those after one and the same prefix of the log, and the nonce
\* of its transaction is the account's there, however the validators lagged.
AcceptedWasCurrent ==
  \A n \in Pools : \A c \in accepted[n] :
    \E k \in 0 .. Len(log) :
      /\ c.at = {<<o, Version(k, o)>> : o \in ObjectsOf[c.tx]}
      /\ NonceOf[c.tx] = Version(k, NonceObject[c.tx])

\* What a client is told is final stays checkable: any node can aggregate the
\* certificate again from its parts, however many object versions it covers,
\* and against a certificate that verifies and moves the same object version
\* otherwise, whichever node accepted it, the two are evidence that names at
\* least f + 1 signers: it never fails with NoSlashableSigner.
FinalityIsAccountable ==
  \A n \in Pools : \A ov \in UNION {c.at : c \in accepted[n]} : \A c \in FinalityOf(n, ov) :
    /\ c \in Aggregated(c.tx, c.at, c.signers)
    /\ \A d \in Aggregates : ov \in d.at /\ Verified(d) =>
         /\ SameBody(c, d) \/ IsEvidence(c, d)
         /\ Cardinality(c.signers \cap d.signers) >= MaxFaulty + 1

\* A recorded conflict is between an accepted certificate and a certificate of
\* another transaction or other versions, and each honest validator it accuses
\* did sign both bodies.
ConflictsAreGenuine ==
  \A n \in Pools : \A p \in conflicts[n] :
    /\ p[1] \in accepted[n] /\ p[2] \notin accepted[n]
    /\ ~SameBody(p[1], p[2])
    /\ \A v \in p[1].signers \cap p[2].signers : Attests(v, p[1]) /\ Attests(v, p[2])

\* docs/improve.md: a "certified transaction is final for the owned object
\* without waiting for global ordering": once the chain has moved an object
\* past the certified version, it is the certified transaction that moved it.
CertifiedIsFinal ==
  \A n \in Pools : \A c \in accepted[n] : \A i \in DOMAIN log :
    ~ \E o \in ObjectsOf[log[i]] :
        /\ <<o, Version(i - 1, o)>> \in c.at
        /\ log[i] # c.tx
=============================================================================
