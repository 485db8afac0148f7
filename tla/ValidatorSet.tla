---------------------------- MODULE ValidatorSet ----------------------------
(***************************************************************************)
(* The validator set of crates/consensus/src/validators.rs: N validators   *)
(* known by their index, the leader of a view, the number of faulty        *)
(* validators the set tolerates and the number of votes of a quorum, with  *)
(* what is proved of quorums for every number of validators.               *)
(***************************************************************************)
EXTENDS Naturals, FiniteSets, FiniteSetTheorems, TLAPS

CONSTANTS
  N,       \* ValidatorSet::len
  Faulty   \* the validators that do not follow the code

Validators == 0 .. N - 1

\* leader_index: round robin over the views.
LeaderIndex(view) == view % N

\* The `f` of quorum_threshold.
MaxFaulty == (N - 1) \div 3

\* Seeded defect: one vote short of the quorum.
QuorumThresholdShort == 2 * MaxFaulty

\* quorum_threshold; its clamp to 1 never binds.
QuorumThreshold == 2 * MaxFaulty + 1

Honest == Validators \ Faulty

ASSUME NAssumption == N \in Nat \ {0}

ASSUME FaultyAssumption == Faulty \subseteq Validators
-----------------------------------------------------------------------------
(* Facts about the quorums, for every number of validators. *)

\* A set of validators large enough for quorum_threshold.
IsQuorum(Q) == Q \subseteq Validators /\ Cardinality(Q) >= QuorumThreshold

\* The number f of quorum_threshold is the largest with 3f + 1 <= N.
LEMMA MaxFaultyBound ==
  MaxFaulty \in Nat /\ 3 * MaxFaulty + 1 <= N /\ QuorumThreshold \in Nat \ {0}
BY NAssumption, SMT DEF MaxFaulty, QuorumThreshold

\* The validators are a finite set of N indices.
LEMMA ValidatorsFinite ==
  IsFiniteSet(Validators) /\ Cardinality(Validators) = N
<1>1. 0 \in Int /\ N - 1 \in Int /\ ~(0 > N - 1) /\ (N - 1) - 0 + 1 = N
  BY NAssumption
<1>2. IsFiniteSet(0 .. N - 1) /\ Cardinality(0 .. N - 1) = N
  BY <1>1, FS_Interval
<1> QED
  BY <1>2 DEF Validators

\* A set of validators is finite and has at most N members.
LEMMA ValidatorSubset ==
  ASSUME NEW S \in SUBSET Validators
  PROVE  IsFiniteSet(S) /\ Cardinality(S) \in Nat /\ Cardinality(S) <= N
BY ValidatorsFinite, FS_Subset, FS_CardinalityType

\* Of the members of a quorum at least f + 1 are honest, if at most f of all
\* validators are faulty: a certificate never rests on faulty votes alone.
THEOREM HonestInQuorum ==
  ASSUME Cardinality(Faulty) <= MaxFaulty,
         NEW Q, IsQuorum(Q)
  PROVE  Cardinality(Q \ Faulty) >= MaxFaulty + 1
<1>1. IsFiniteSet(Q) /\ Cardinality(Q) \in Nat
  BY ValidatorSubset DEF IsQuorum
<1>2. IsFiniteSet(Faulty) /\ Cardinality(Faulty) \in Nat
  BY ValidatorSubset, FaultyAssumption
<1>3. Cardinality(Q \ Faulty) = Cardinality(Q) - Cardinality(Q \cap Faulty)
  BY <1>1, FS_Difference
<1>4. Cardinality(Q \cap Faulty) \in Nat /\ Cardinality(Q \cap Faulty) <= Cardinality(Faulty)
  <2>1. Q \cap Faulty \in SUBSET Faulty
    OBVIOUS
  <2> QED
    BY <1>2, <2>1, FS_Subset, FS_CardinalityType
<1> QED
  BY <1>1, <1>2, <1>3, <1>4, MaxFaultyBound DEF IsQuorum, QuorumThreshold

\* When N = 3f + 1, any two quorums share at least f + 1 validators.  This is
\* the case of the sets the node can be started with (N = 1 and N = 7).
THEOREM QuorumsIntersect ==
  ASSUME N = 3 * MaxFaulty + 1,
         NEW Q, IsQuorum(Q),
         NEW R, IsQuorum(R)
  PROVE  Cardinality(Q \cap R) >= MaxFaulty + 1
<1>1. IsFiniteSet(Q) /\ Cardinality(Q) \in Nat
  BY ValidatorSubset DEF IsQuorum
<1>2. IsFiniteSet(R) /\ Cardinality(R) \in Nat
  BY ValidatorSubset DEF IsQuorum
<1>3. Cardinality(Q \cup R) = Cardinality(Q) + Cardinality(R) - Cardinality(Q \cap R)
  BY <1>1, <1>2, FS_Union
<1>4. Cardinality(Q \cup R) \in Nat /\ Cardinality(Q \cup R) <= N
  <2>1. Q \cup R \in SUBSET Validators
    BY DEF IsQuorum
  <2> QED
    BY <2>1, ValidatorSubset
<1>5. Cardinality(Q \cap R) \in Nat
  BY <1>1, FS_Intersection, FS_CardinalityType
<1> QED
  BY <1>1, <1>2, <1>3, <1>4, <1>5, MaxFaultyBound DEF IsQuorum, QuorumThreshold

\* When N = 3f + 1 and at most f validators are faulty, any two quorums share
\* an honest validator.
THEOREM HonestInBothQuorums ==
  ASSUME N = 3 * MaxFaulty + 1,
         Cardinality(Faulty) <= MaxFaulty,
         NEW Q, IsQuorum(Q),
         NEW R, IsQuorum(R)
  PROVE  \E v \in Q \cap R : v \in Honest
<1>1. Cardinality(Q \cap R) >= MaxFaulty + 1
  BY QuorumsIntersect
<1>2. SUFFICES ASSUME Q \cap R \subseteq Faulty PROVE FALSE
  BY DEF IsQuorum, Honest
<1>3. IsFiniteSet(Faulty) /\ Cardinality(Faulty) \in Nat
  BY ValidatorSubset, FaultyAssumption
<1>4. Cardinality(Q \cap R) \in Nat /\ Cardinality(Q \cap R) <= Cardinality(Faulty)
  <2>1. Q \cap R \in SUBSET Faulty
    BY <1>2
  <2> QED
    BY <1>3, <2>1, FS_Subset, FS_CardinalityType
<1> QED
  BY <1>1, <1>3, <1>4, MaxFaultyBound
=============================================================================
