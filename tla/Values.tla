------------------------------- MODULE Values -------------------------------
(***************************************************************************)
(* Helpers of several modules: sums, maps whose domain grows and shrinks   *)
(* (BTreeMap::insert and remove), and saturating_sub; and the lemmas on    *)
(* sums, by induction over finite sets, that the proofs cite.              *)
(***************************************************************************)
EXTENDS Naturals, Sequences, FiniteSets, FiniteSetsExt,
        WellFoundedInduction, FiniteSetTheorems, TLAPS

\* The sum of the values of g.
Total(g) == FoldSet(LAMBDA x, sum : sum + g[x], 0, DOMAIN g)

\* The sum of f(x) for the x in S.
SumOver(S, f(_)) == Total([x \in S |-> f(x)])

\* The sum of f(s[i]) over a sequence.
SumSeq(s, f(_)) == SumOver(DOMAIN s, LAMBDA i : f(s[i]))

\* The map without keys.
Empty == [k \in {} |-> 0]

\* f with the value v at k, also when k is new.
Put(f, k, v) == [x \in DOMAIN f \cup {k} |-> IF x = k THEN v ELSE f[x]]

\* f, and g where f has no value.
Over(f, g) == [x \in DOMAIN f \cup DOMAIN g |-> IF x \in DOMAIN f THEN f[x] ELSE g[x]]

\* f without the keys in K.
Without(f, K) == [x \in DOMAIN f \ K |-> f[x]]

\* f[k], or d where there is none.
Get(f, k, d) == IF k \in DOMAIN f THEN f[k] ELSE d

\* saturating_sub
Minus(x, y) == IF y > x THEN 0 ELSE x - y

\* The place of s in S under the order r: how many elements are before it.
Place(r, S, s) == Cardinality({t \in S : <<t, s>> \in r})

\* The elements of S in the order r.
InPlaces(S, r) == [i \in 1 .. Cardinality(S) |-> CHOOSE s \in S : Place(r, S, s) = i - 1]
-----------------------------------------------------------------------------
\* The element a sum takes from a set first.
Pick(s) == CHOOSE x \in s : TRUE

\* h gives every subset of S the sum of g over it.
IsSum(h, g, S) == h = [s \in SUBSET S |-> IF s = {} THEN 0 ELSE h[s \ {Pick(s)}] + g[Pick(s)]]

\* The sum of g[x] for the x in S.
SumOf(g, S) == SumOver(S, LAMBDA x : g[x])

\* A set of naturals has a least element.
LEMMA NatMin ==
  ASSUME NEW S \in SUBSET Nat, S # {}
  PROVE  \E n \in S : \A m \in S : n <= m
<1> DEFINE R == {p \in Nat \X Nat : p[1] < p[2]}
<1>1. OpToRel(<, Nat) = R
  BY DEF OpToRel
<1>2. IsWellFoundedOn(R, Nat)
  BY <1>1, NatLessThanWellFounded
<1>3. PICK x \in S : \A y \in S : ~(<<y, x>> \in R)
  <2> HIDE DEF R
  <2> QED
    BY <1>2, WFMin
<1>4. ASSUME NEW y \in S PROVE x <= y
  <2>1. x \in Nat /\ y \in Nat /\ <<y, x>> \in Nat \X Nat
    OBVIOUS
  <2>2. ~(y < x)
    BY <1>3, <2>1
  <2> QED
    BY <2>1, <2>2
<1> QED
  BY <1>3, <1>4

\* The element picked is one of the set.
LEMMA PickIn == ASSUME NEW s, s # {} PROVE Pick(s) \in s
BY DEF Pick

\* Induction over finite sets: a set is good if it is whenever one element is
\* taken away.
LEMMA FiniteInduction ==
  ASSUME NEW S, IsFiniteSet(S), NEW P,
         \A T \in SUBSET S : (\A x \in T : T \ {x} \in P) => T \in P
  PROVE  SUBSET S \subseteq P
<1> DEFINE bad == (SUBSET S) \ P
           sizes == {Cardinality(T) : T \in bad}
<1> SUFFICES ASSUME bad # {} PROVE FALSE
  OBVIOUS
<1>1. \A T \in SUBSET S : IsFiniteSet(T) /\ Cardinality(T) \in Nat
  BY FS_Subset, FS_CardinalityType
<1>2. sizes \in SUBSET Nat /\ sizes # {}
  BY <1>1
<1>3. PICK n \in sizes : \A m \in sizes : n <= m
  BY <1>2, NatMin
<1>4. PICK T \in bad : Cardinality(T) = n
  BY <1>3
<1>5. ASSUME NEW x \in T PROVE T \ {x} \in P
  <2>1. T \ {x} \in SUBSET S /\ Cardinality(T \ {x}) = Cardinality(T) - 1 /\ Cardinality(T) \in Nat
    BY <1>1, <1>4, FS_RemoveElement
  <2>2. Cardinality(T \ {x}) \notin sizes
    <3> HIDE DEF sizes, bad
    <3> QED
      BY <1>3, <1>4, <2>1
  <2> QED
    BY <2>1, <2>2
<1> QED
  BY <1>4, <1>5

\* Over a finite set there is such a function: one on the subsets of at most n
\* elements extends to those of n + 1.
LEMMA SumExists ==
  ASSUME NEW S, IsFiniteSet(S), NEW g
  PROVE  \E h : IsSum(h, g, S)
<1> DEFINE Small(n) == {s \in SUBSET S : Cardinality(s) <= n}
           Good(n, h) == h = [s \in Small(n) |-> IF s = {} THEN 0 ELSE h[s \ {Pick(s)}] + g[Pick(s)]]
           bad == {n \in Nat : ~ \E h : Good(n, h)}
<1>1. \A T \in SUBSET S : IsFiniteSet(T) /\ Cardinality(T) \in Nat /\ Cardinality(T) <= Cardinality(S)
  BY FS_Subset, FS_CardinalityType
<1>2. bad = {}
  <2> SUFFICES ASSUME bad # {} PROVE FALSE
    OBVIOUS
  <2>1. PICK n \in bad : \A m \in bad : n <= m
    <3> HIDE DEF Good
    <3> QED BY NatMin
  <2>2. n # 0
    <3> SUFFICES ASSUME n = 0 PROVE FALSE
      OBVIOUS
    <3> DEFINE h == [s \in Small(0) |-> 0]
    <3>1. \A s \in Small(0) : s = {}
      BY <1>1, FS_EmptySet
    <3>2. Good(0, h)
      BY <3>1
    <3> QED
      BY <2>1, <3>2
  <2>3. n - 1 \in Nat /\ n - 1 \notin bad
    <3> HIDE DEF Good
    <3>1. n \in Nat
      OBVIOUS
    <3>2. n - 1 \in Nat /\ n - 1 < n
      BY <2>2, <3>1
    <3> HIDE DEF bad
    <3> QED
      BY <2>1, <3>1, <3>2
  <2>4. PICK h : Good(n - 1, h)
    BY <2>3
  <2> DEFINE k == [s \in Small(n) |-> IF s = {} THEN 0 ELSE h[s \ {Pick(s)}] + g[Pick(s)]]
  <2>5. \A s \in Small(n - 1) : s \in Small(n) /\ k[s] = h[s]
    <3>1. \A s \in Small(n - 1) : s \in Small(n)
      BY <1>1, <2>1
    <3>2. \A s \in Small(n - 1) : h[s] = IF s = {} THEN 0 ELSE h[s \ {Pick(s)}] + g[Pick(s)]
      BY <2>4
    <3> QED
      BY <3>1, <3>2
  <2>6. \A s \in Small(n) : s # {} => s \ {Pick(s)} \in Small(n - 1)
    BY <1>1, <2>1, PickIn, FS_RemoveElement
  <2>7. \A s \in Small(n) : s # {} => k[s \ {Pick(s)}] = h[s \ {Pick(s)}]
    BY <2>5, <2>6
  <2>8. k = [s \in Small(n) |-> IF s = {} THEN 0 ELSE k[s \ {Pick(s)}] + g[Pick(s)]]
    BY <2>7
  <2>9. Good(n, k)
    BY <2>8
  <2> HIDE DEF k, Good
  <2> QED
    BY <2>1, <2>9
<1>3. \E h : Good(Cardinality(S), h)
  <2>1. Cardinality(S) \in Nat
    BY FS_CardinalityType
  <2> HIDE DEF Good
  <2> QED BY <1>2, <2>1
<1>4. Small(Cardinality(S)) = SUBSET S
  BY <1>1
<1> QED
  BY <1>3, <1>4 DEF IsSum

\* What the fold of Total computes is such a function's value.
LEMMA TotalUnfold ==
  ASSUME NEW g, IsFiniteSet(DOMAIN g)
  PROVE  \E h : IsSum(h, g, DOMAIN g) /\ Total(g) = h[DOMAIN g]
<1>1. \E h : IsSum(h, g, DOMAIN g)
  BY SumExists
<1> QED
  BY <1>1 DEF Total, FoldSet, MapThenFoldSet, IsSum, Pick

\* And so is the sum over a set.
LEMMA SumUnfold ==
  ASSUME NEW S, NEW g, IsFiniteSet(S)
  PROVE  \E h : IsSum(h, g, S) /\ SumOf(g, S) = h[S]
<1> DEFINE f == [x \in S |-> g[x]]
<1>2. DOMAIN f = S /\ SumOf(g, S) = Total(f)
  BY DEF SumOf, SumOver
<1> HIDE DEF f
<1>3. PICK h : IsSum(h, f, S) /\ Total(f) = h[S]
  BY <1>2, TotalUnfold
<1>4. \A s \in SUBSET S : s # {} => f[Pick(s)] = g[Pick(s)]
  BY PickIn DEF f
<1>5. IsSum(h, g, S)
  BY <1>3, <1>4 DEF IsSum
<1> QED
  BY <1>2, <1>3, <1>5

\* The values of a function add up to the sum over its domain.
LEMMA TotalSum == ASSUME NEW S, NEW g, g = [x \in S |-> g[x]] PROVE Total(g) = SumOf(g, S)
BY DEF SumOf, SumOver

\* Two such functions agree where their weights do.
LEMMA SumUnique ==
  ASSUME NEW S, IsFiniteSet(S), NEW U, S \subseteq U, NEW g, NEW f, NEW h, NEW k,
         \A x \in S : f[x] = g[x],
         IsSum(h, g, S), IsSum(k, f, U)
  PROVE  h[S] = k[S]
<1> DEFINE P == {T \in SUBSET S : h[T] = k[T]}
<1>1. {} \in P
  BY DEF IsSum
<1>2. ASSUME NEW T \in SUBSET S, T # {}, \A x \in T : T \ {x} \in P PROVE T \in P
  <2>4. Pick(T) \in T /\ h[T \ {Pick(T)}] = k[T \ {Pick(T)}]
    BY <1>2, PickIn
  <2>1. h[T] = h[T \ {Pick(T)}] + g[Pick(T)]
    BY <1>2 DEF IsSum
  <2>2. k[T] = k[T \ {Pick(T)}] + f[Pick(T)]
    BY <1>2 DEF IsSum
  <2>3. f[Pick(T)] = g[Pick(T)]
    BY <1>2, PickIn
  <2> QED
    BY <2>1, <2>2, <2>3, <2>4
<1>3. SUBSET S \subseteq P
  <2> HIDE DEF P
  <2>1. \A T \in SUBSET S : (\A x \in T : T \ {x} \in P) => T \in P
    BY <1>1, <1>2
  <2> QED
    BY <2>1, FiniteInduction
<1> QED
  BY <1>3

\* The empty sum.
LEMMA SumEmpty == ASSUME NEW g PROVE SumOf(g, {}) = 0
<1>1. PICK h : IsSum(h, g, {}) /\ SumOf(g, {}) = h[{}]
  BY SumUnfold, FS_EmptySet
<1> QED
  BY <1>1 DEF IsSum

\* Equal terms have equal sums.
LEMMA SumEqual ==
  ASSUME NEW S, IsFiniteSet(S), NEW f, NEW g, \A x \in S : f[x] = g[x]
  PROVE  SumOf(f, S) = SumOf(g, S)
<1>1. PICK h : IsSum(h, f, S) /\ SumOf(f, S) = h[S]
  BY SumUnfold
<1>2. PICK k : IsSum(k, g, S) /\ SumOf(g, S) = k[S]
  BY SumUnfold
<1> QED
  BY <1>1, <1>2, SumUnique

\* A sum without the element picked first.
LEMMA SumPicked ==
  ASSUME NEW S, IsFiniteSet(S), S # {}, NEW g
  PROVE  SumOf(g, S) = SumOf(g, S \ {Pick(S)}) + g[Pick(S)]
<1> DEFINE T == S \ {Pick(S)}
<1>1. PICK h : IsSum(h, g, S) /\ SumOf(g, S) = h[S]
  BY SumUnfold
<1>2. IsFiniteSet(T)
  BY FS_RemoveElement
<1>3. PICK k : IsSum(k, g, T) /\ SumOf(g, T) = k[T]
  BY <1>2, SumUnfold
<1>4. k[T] = h[T]
  BY <1>1, <1>2, <1>3, SumUnique
<1>5. h[S] = h[T] + g[Pick(S)]
  BY <1>1 DEF IsSum
<1> QED
  BY <1>1, <1>3, <1>4, <1>5

\* A sum of naturals is one.
LEMMA SumNat ==
  ASSUME NEW S, IsFiniteSet(S), NEW g, \A x \in S : g[x] \in Nat
  PROVE  SumOf(g, S) \in Nat
<1> DEFINE P == {T \in SUBSET S : SumOf(g, T) \in Nat}
<1>1. {} \in P
  BY SumEmpty
<1>2. ASSUME NEW T \in SUBSET S, T # {}, \A x \in T : T \ {x} \in P PROVE T \in P
  <2>1. Pick(T) \in T /\ IsFiniteSet(T)
    BY <1>2, PickIn, FS_Subset
  <2>2. SumOf(g, T) = SumOf(g, T \ {Pick(T)}) + g[Pick(T)]
    BY <1>2, <2>1, SumPicked
  <2>3. g[Pick(T)] \in Nat /\ SumOf(g, T \ {Pick(T)}) \in Nat
    BY <1>2, <2>1
  <2> QED
    BY <2>2, <2>3
<1>3. SUBSET S \subseteq P
  <2> HIDE DEF P
  <2>1. \A T \in SUBSET S : (\A x \in T : T \ {x} \in P) => T \in P
    BY <1>1, <1>2
  <2> QED
    BY <2>1, FiniteInduction
<1> QED
  BY <1>3

\* It does not matter which element is taken first.
LEMMA SumRemove ==
  ASSUME NEW S, IsFiniteSet(S), NEW g, \A x \in S : g[x] \in Nat, NEW e \in S
  PROVE  SumOf(g, S) = SumOf(g, S \ {e}) + g[e]
<1> DEFINE P == {T \in SUBSET S : \A x \in T : SumOf(g, T) = SumOf(g, T \ {x}) + g[x]}
<1>1. ASSUME NEW T \in SUBSET S, \A x \in T : T \ {x} \in P PROVE T \in P
  <2> SUFFICES ASSUME NEW x \in T PROVE SumOf(g, T) = SumOf(g, T \ {x}) + g[x]
    OBVIOUS
  <2> DEFINE p == Pick(T)
  <2>1. p \in T /\ IsFiniteSet(T)
    BY PickIn, FS_Subset
  <2>2. SumOf(g, T) = SumOf(g, T \ {p}) + g[p]
    BY <2>1, SumPicked
  <2>3. CASE x # p
    <3>1. SumOf(g, T \ {p}) = SumOf(g, (T \ {p}) \ {x}) + g[x]
      BY <1>1, <2>1, <2>3
    <3>2. SumOf(g, T \ {x}) = SumOf(g, (T \ {x}) \ {p}) + g[p]
      BY <1>1, <2>1, <2>3
    <3>3. (T \ {p}) \ {x} = (T \ {x}) \ {p}
      OBVIOUS
    <3>4. IsFiniteSet((T \ {p}) \ {x}) /\ \A y \in (T \ {p}) \ {x} : g[y] \in Nat
      BY <2>1, FS_Subset
    <3>5. SumOf(g, (T \ {p}) \ {x}) \in Nat /\ g[x] \in Nat /\ g[p] \in Nat
      BY <2>1, <3>4, SumNat
    <3> QED
      BY <2>2, <3>1, <3>2, <3>3, <3>5
  <2> QED
    BY <2>2, <2>3
<1>2. SUBSET S \subseteq P
  <2> HIDE DEF P
  <2> QED
    BY <1>1, FiniteInduction
<1> QED
  BY <1>2

\* One element more.
LEMMA SumAdd ==
  ASSUME NEW S, IsFiniteSet(S), NEW e, e \notin S, NEW g, \A x \in S \cup {e} : g[x] \in Nat
  PROVE  SumOf(g, S \cup {e}) = SumOf(g, S) + g[e]
<1>1. IsFiniteSet(S \cup {e}) /\ (S \cup {e}) \ {e} = S
  BY FS_AddElement
<1> QED
  BY <1>1, SumRemove

\* The sum over two sets without a common element.
LEMMA SumDisjoint ==
  ASSUME NEW S, IsFiniteSet(S), NEW R, IsFiniteSet(R), S \cap R = {},
         NEW g, \A x \in S \cup R : g[x] \in Nat
  PROVE  SumOf(g, S \cup R) = SumOf(g, S) + SumOf(g, R)
<1> DEFINE P == {T \in SUBSET R : SumOf(g, S \cup T) = SumOf(g, S) + SumOf(g, T)}
<1>0. SumOf(g, S) \in Nat
  BY SumNat
<1>1. {} \in P
  <2>1. S \cup {} = S
    OBVIOUS
  <2> QED
    BY <1>0, <2>1, SumEmpty
<1>2. ASSUME NEW T \in SUBSET R, T # {}, \A x \in T : T \ {x} \in P PROVE T \in P
  <2>1. PICK x \in T : TRUE
    BY <1>2
  <2> DEFINE U == T \ {x}
  <2>2. IsFiniteSet(T) /\ IsFiniteSet(U) /\ IsFiniteSet(S \cup T)
    BY FS_Subset, FS_Union
  <2>3. SumOf(g, T) = SumOf(g, U) + g[x]
    BY <2>1, <2>2, SumRemove
  <2>4. (S \cup T) \ {x} = S \cup U
    BY <2>1
  <2>5. SumOf(g, S \cup T) = SumOf(g, S \cup U) + g[x]
    BY <2>1, <2>2, <2>4, SumRemove
  <2>6. SumOf(g, S \cup U) = SumOf(g, S) + SumOf(g, U)
    BY <1>2, <2>1
  <2>7. SumOf(g, U) \in Nat /\ g[x] \in Nat
    BY <2>1, <2>2, SumNat
  <2> QED
    BY <1>0, <2>3, <2>5, <2>6, <2>7
<1>3. SUBSET R \subseteq P
  <2> HIDE DEF P
  <2>1. \A T \in SUBSET R : (\A x \in T : T \ {x} \in P) => T \in P
    BY <1>1, <1>2
  <2> QED
    BY <2>1, FiniteInduction
<1> QED
  BY <1>3

\* A larger set does not have the smaller sum.
LEMMA SumMonotone ==
  ASSUME NEW S, IsFiniteSet(S), NEW T, T \subseteq S, NEW g, \A x \in S : g[x] \in Nat
  PROVE  SumOf(g, T) <= SumOf(g, S)
<1>1. IsFiniteSet(T) /\ IsFiniteSet(S \ T) /\ T \cup (S \ T) = S /\ T \cap (S \ T) = {}
  BY FS_Subset
<1>2. SumOf(g, S) = SumOf(g, T) + SumOf(g, S \ T)
  BY <1>1, SumDisjoint
<1>3. SumOf(g, T) \in Nat /\ SumOf(g, S \ T) \in Nat
  BY <1>1, SumNat
<1> QED
  BY <1>2, <1>3

(* The same for the values of a function, the form in which SumOver has them. *)

\* The values of a function on a finite set add up to a natural.
LEMMA TotalNat == ASSUME NEW S, IsFiniteSet(S), NEW f \in [S -> Nat] PROVE Total(f) \in Nat
BY SumNat, TotalSum

\* A function without arguments.
LEMMA TotalEmpty == ASSUME NEW f, f = [x \in {} |-> f[x]] PROVE Total(f) = 0
BY SumEmpty, TotalSum

\* One argument more.
LEMMA TotalWith ==
  ASSUME NEW S, IsFiniteSet(S), NEW e, e \notin S,
         NEW f \in [S -> Nat], NEW g \in [S \cup {e} -> Nat], \A x \in S : f[x] = g[x]
  PROVE  Total(g) = Total(f) + g[e]
<1>1. Total(g) = SumOf(g, S \cup {e}) /\ Total(f) = SumOf(f, S)
  BY TotalSum
<1>2. SumOf(g, S \cup {e}) = SumOf(g, S) + g[e]
  BY SumAdd
<1>3. SumOf(f, S) = SumOf(g, S)
  BY SumEqual
<1> QED
  BY <1>1, <1>2, <1>3

\* One more place of a sequence.
LEMMA TotalNext ==
  ASSUME NEW n \in Nat, NEW f \in [1 .. n -> Nat], NEW g \in [1 .. n + 1 -> Nat], \A x \in 1 .. n : f[x] = g[x]
  PROVE  Total(g) = Total(f) + g[n + 1]
<1> DEFINE D == 1 .. n
           e == n + 1
<1>1. IsFiniteSet(D)
  BY FS_Interval
<1>2. e \notin D /\ 1 .. n + 1 = D \cup {e} /\ f \in [D -> Nat] /\ \A x \in D : f[x] = g[x]
  OBVIOUS
<1>3. g \in [D \cup {e} -> Nat]
  BY <1>2
<1> HIDE DEF D, e
<1>4. Total(g) = Total(f) + g[e]
  <2>1. Total(g) = SumOf(g, D \cup {e}) /\ Total(f) = SumOf(f, D)
    BY <1>2, <1>3, TotalSum
  <2>2. \A x \in D \cup {e} : g[x] \in Nat
    BY <1>3
  <2>3. SumOf(g, D \cup {e}) = SumOf(g, D) + g[e]
    BY <1>1, <1>2, <2>2, SumAdd
  <2>4. SumOf(f, D) = SumOf(g, D)
    BY <1>1, <1>2, SumEqual
  <2> QED
    BY <2>1, <2>3, <2>4
<1> QED
  BY <1>4 DEF e

\* One value changed.
LEMMA TotalChange ==
  ASSUME NEW S, IsFiniteSet(S), NEW e \in S,
         NEW f \in [S -> Nat], NEW g \in [S -> Nat], \A x \in S \ {e} : f[x] = g[x]
  PROVE  Total(g) + f[e] = Total(f) + g[e]
<1> DEFINE T == S \ {e}
           r == [x \in T |-> f[x]]
<1>0. S = T \cup {e}
  OBVIOUS
<1>1. /\ IsFiniteSet(T) /\ e \notin T /\ r \in [T -> Nat]
      /\ f \in [T \cup {e} -> Nat] /\ g \in [T \cup {e} -> Nat]
  BY <1>0, FS_RemoveElement
<1>2. \A x \in T : r[x] = f[x] /\ r[x] = g[x]
  OBVIOUS
<1> HIDE DEF r, T
<1>3. Total(f) = Total(r) + f[e]
  BY <1>1, <1>2, TotalWith
<1>4. Total(g) = Total(r) + g[e]
  BY <1>1, <1>2, TotalWith
<1>5. Total(r) \in Nat /\ f[e] \in Nat /\ g[e] \in Nat
  BY <1>1, TotalNat
<1> QED
  BY <1>3, <1>4, <1>5

\* More arguments and larger values do not have the smaller sum.
LEMMA TotalLess ==
  ASSUME NEW U, IsFiniteSet(U), NEW S, S \subseteq U,
         NEW f \in [S -> Nat], NEW g \in [U -> Nat], \A x \in S : f[x] <= g[x]
  PROVE  Total(f) <= Total(g)
<1> DEFINE P == {T \in SUBSET S : SumOf(f, T) <= SumOf(g, T)}
<1>0. IsFiniteSet(S)
  BY FS_Subset
<1>1. ASSUME NEW T \in SUBSET S, \A x \in T : T \ {x} \in P PROVE T \in P
  <2>1. CASE T = {}
    BY <2>1, SumEmpty
  <2>2. CASE T # {}
    <3>1. PICK e \in T : TRUE
      BY <2>2
    <3> DEFINE R == T \ {e}
    <3>2. IsFiniteSet(T) /\ IsFiniteSet(R) /\ R \subseteq S
      BY <1>0, FS_Subset
    <3>3. SumOf(f, T) = SumOf(f, R) + f[e] /\ SumOf(g, T) = SumOf(g, R) + g[e]
      BY <3>2, SumRemove
    <3>4. SumOf(f, R) \in Nat /\ SumOf(g, R) \in Nat /\ f[e] \in Nat /\ g[e] \in Nat
      BY <3>2, SumNat
    <3>5. SumOf(f, R) <= SumOf(g, R) /\ f[e] <= g[e]
      BY <1>1
    <3> QED
      BY <3>3, <3>4, <3>5
  <2> QED
    BY <2>1, <2>2
<1>2. SUBSET S \subseteq P
  <2> HIDE DEF P
  <2> QED
    BY <1>0, <1>1, FiniteInduction
<1>3. SumOf(f, S) <= SumOf(g, S) /\ SumOf(g, S) <= SumOf(g, U)
  BY <1>2, SumMonotone
<1>4. SumOf(f, S) \in Nat /\ SumOf(g, S) \in Nat /\ SumOf(g, U) \in Nat
  BY <1>0, SumNat
<1>5. Total(f) = SumOf(f, S) /\ Total(g) = SumOf(g, U)
  BY TotalSum
<1> QED
  BY <1>3, <1>4, <1>5

\* The greatest of some naturals below a bound.
LEMMA MaxIs ==
  ASSUME NEW S \in SUBSET Nat, S # {}, NEW n \in Nat, \A x \in S : x <= n
  PROVE  Max(S) \in S /\ \A y \in S : y <= Max(S)
<1> DEFINE d == {n - x : x \in S}
<1>0. \A x \in S : x \in Nat /\ n - x \in Nat
  OBVIOUS
<1>1. d \in SUBSET Nat /\ d # {}
  BY <1>0
<1>2. PICK m \in d : \A k \in d : m <= k
  BY <1>1, NatMin
<1>3. PICK x \in S : m = n - x
  BY <1>2
<1>4. \A y \in S : x >= y
  <2> SUFFICES ASSUME NEW y \in S PROVE x >= y
    OBVIOUS
  <2>1. n - y \in d /\ x \in Nat /\ y \in Nat
    OBVIOUS
  <2>2. n - x <= n - y
    BY <1>2, <1>3, <2>1
  <2> HIDE DEF d
  <2> QED
    BY <2>1, <2>2
<1>5. Max(S) \in S /\ \A y \in S : Max(S) >= y
  BY <1>3, <1>4 DEF Max
<1> QED
  BY <1>0, <1>5

\* The greater and the smaller of two numbers.
LEMMA MaxOfTwo ==
  ASSUME NEW a \in Nat, NEW b \in Nat
  PROVE  Max({a, b}) = (IF a >= b THEN a ELSE b) /\ Min({a, b}) = (IF a <= b THEN a ELSE b)
<1>1. CASE a >= b
  <2>1. \A x \in {a, b} : (\A y \in {a, b} : x >= y) <=> x = a
    BY <1>1
  <2>2. \A x \in {a, b} : (\A y \in {a, b} : x =< y) <=> x = b
    BY <1>1
  <2> QED
    BY <1>1, <2>1, <2>2 DEF Max, Min
<1>2. CASE a < b
  <2>1. \A x \in {a, b} : (\A y \in {a, b} : x >= y) <=> x = b
    BY <1>2
  <2>2. \A x \in {a, b} : (\A y \in {a, b} : x =< y) <=> x = a
    BY <1>2
  <2> QED
    BY <1>2, <2>1, <2>2 DEF Max, Min
<1> QED
  BY <1>1, <1>2
-----------------------------------------------------------------------------
(* Folds over sequences: what FoldLeft computes, one element at a time.    *)

\* Induction along a sequence of n elements.
LEMMA PrefixInduction ==
  ASSUME NEW n \in Nat, NEW P, 0 \in P, \A i \in 1 .. n : i - 1 \in P => i \in P
  PROVE  0 .. n \subseteq P
<1> DEFINE bad == {i \in 0 .. n : i \notin P}
<1> SUFFICES ASSUME bad # {} PROVE FALSE
  OBVIOUS
<1>1. PICK i \in bad : \A j \in bad : i <= j
  <2>1. bad \in SUBSET Nat
    OBVIOUS
  <2> QED
    BY <2>1, NatMin
<1>2. i \in 1 .. n /\ i - 1 \in 0 .. n /\ i - 1 < i
  BY <1>1
<1>3. i - 1 \notin bad
  BY <1>1, <1>2
<1> QED
  BY <1>1, <1>2, <1>3

\* The last position of a prefix is its maximum.
LEMMA MaxPrefix ==
  ASSUME NEW i \in Nat, i # 0
  PROVE  1 .. i # {} /\ Max(1 .. i) = i /\ (1 .. i) \ {i} = 1 .. i - 1
<1>1. i \in 1 .. i /\ \A y \in 1 .. i : i >= y
  OBVIOUS
<1>2. \A x \in 1 .. i : (\A y \in 1 .. i : x >= y) => x = i
  BY <1>1
<1> QED
  BY <1>1, <1>2 DEF Max

\* The maximum of some positions is one of them.
LEMMA MaxIn ==
  ASSUME NEW n \in Nat, NEW s \in SUBSET (1 .. n), s # {}
  PROVE  Max(s) \in s
<1> DEFINE d == {n - x : x \in s}
<1>0. \A x \in s : n - x \in Nat
  OBVIOUS
<1>1. d \in SUBSET Nat /\ d # {}
  BY <1>0
<1>2. PICK m \in d : \A k \in d : m <= k
  BY <1>1, NatMin
<1>3. PICK x \in s : m = n - x
  BY <1>2
<1>4. \A y \in s : x >= y
  <2> SUFFICES ASSUME NEW y \in s PROVE x >= y
    OBVIOUS
  <2>1. n - y \in d /\ x \in 1 .. n /\ y \in 1 .. n
    OBVIOUS
  <2> QED
    BY <1>2, <1>3, <2>1
<1> QED
  BY <1>3, <1>4 DEF Max

\* c picks an element of every subset of S.
Picks(c, S) == \A s \in SUBSET S : s # {} => c[s] \in s

\* h is the recursion over the subsets of S that adds the elements c picks to
\* base with F.
IsFold(h, c, base, F, S) ==
  \A s \in SUBSET S : h[s] = IF s = {} THEN base ELSE F[<<c[s], h[s \ {c[s]}]>>]

\* Such a recursion has a solution when S is finite.
LEMMA FoldExists ==
  ASSUME NEW S, IsFiniteSet(S), NEW c, Picks(c, S),
         NEW A, NEW base \in A, NEW F \in [S \X A -> A]
  PROVE  \E h \in [SUBSET S -> A] : IsFold(h, c, base, F, S)
<1> DEFINE Small(n) == {s \in SUBSET S : Cardinality(s) <= n}
           Good(n, h) == /\ h \in [Small(n) -> A]
                         /\ \A s \in Small(n) :
                              h[s] = IF s = {} THEN base ELSE F[<<c[s], h[s \ {c[s]}]>>]
           good == {n \in Nat : \E h : Good(n, h)}
           card == Cardinality(S)
<1>1. \A T \in SUBSET S : IsFiniteSet(T) /\ Cardinality(T) \in Nat /\ Cardinality(T) <= card
  BY FS_Subset, FS_CardinalityType
<1>2. card \in Nat
  BY FS_CardinalityType
<1>3. 0 \in good
  <2> DEFINE h == [s \in Small(0) |-> base]
  <2>1. \A s \in Small(0) : s = {}
    BY <1>1, FS_EmptySet
  <2>2. Good(0, h)
    BY <2>1
  <2> HIDE DEF Good, h
  <2> QED
    BY <2>2
<1>4. ASSUME NEW n \in 1 .. card, n - 1 \in good PROVE n \in good
  <2>1. PICK h : Good(n - 1, h)
    BY <1>4
  <2> DEFINE k == [s \in Small(n) |-> IF s = {} THEN base ELSE F[<<c[s], h[s \ {c[s]}]>>]]
  <2>2. \A s \in Small(n) : s # {} => c[s] \in S /\ s \ {c[s]} \in Small(n - 1)
    BY <1>1, FS_RemoveElement DEF Picks
  <2>3. \A s \in Small(n) : s # {} => h[s \ {c[s]}] \in A
    BY <2>1, <2>2
  <2>4. k \in [Small(n) -> A]
    BY <2>2, <2>3
  <2>5. \A s \in Small(n - 1) : s \in Small(n) /\ k[s] = h[s]
    <3>1. \A s \in Small(n - 1) : s \in Small(n)
      BY <1>1
    <3>2. \A s \in Small(n - 1) : h[s] = IF s = {} THEN base ELSE F[<<c[s], h[s \ {c[s]}]>>]
      BY <2>1
    <3> QED
      BY <3>1, <3>2
  <2>6. \A s \in Small(n) : k[s] = IF s = {} THEN base ELSE F[<<c[s], k[s \ {c[s]}]>>]
    BY <2>2, <2>5
  <2>7. Good(n, k)
    BY <2>4, <2>6
  <2> HIDE DEF Good, k
  <2> QED
    BY <2>7
<1>5. card \in good
  <2> HIDE DEF good, card
  <2>1. 0 .. card \subseteq good
    BY <1>2, <1>3, <1>4, PrefixInduction
  <2> QED
    BY <1>2, <2>1
<1>6. Small(card) = SUBSET S
  BY <1>1
<1> QED
  BY <1>5, <1>6 DEF IsFold

\* h is what F makes of a0, step by step.
IsWalk(h, n, A, a0, F) == h \in [0 .. n -> A] /\ h[0] = a0 /\ \A i \in 1 .. n : h[i] = F[h[i - 1]]

\* There is such a function.
LEMMA StepsExist ==
  ASSUME NEW n \in Nat, NEW A, NEW a0 \in A, NEW F \in [A -> A]
  PROVE  \E h : IsWalk(h, n, A, a0, F)
<1> DEFINE Good(k, h) == h \in [0 .. k -> A] /\ h[0] = a0 /\ \A i \in 1 .. k : h[i] = F[h[i - 1]]
           P == {k \in 0 .. n : \E h : Good(k, h)}
<1>1. 0 \in P
  <2>1. Good(0, [i \in 0 .. 0 |-> a0])
    OBVIOUS
  <2>2. 0 \in 0 .. n
    OBVIOUS
  <2> HIDE DEF Good
  <2> QED
    BY <2>1, <2>2
<1>2. ASSUME NEW k \in 1 .. n, k - 1 \in P PROVE k \in P
  <2>1. PICK h : Good(k - 1, h)
    BY <1>2
  <2> DEFINE g == [i \in 0 .. k |-> IF i = k THEN F[h[k - 1]] ELSE h[i]]
  <2>2. h[k - 1] \in A /\ \A i \in 0 .. k - 1 : h[i] \in A
    BY <2>1
  <2>3. g \in [0 .. k -> A] /\ g[0] = a0
    BY <2>1, <2>2
  <2>4. ASSUME NEW i \in 1 .. k PROVE g[i] = F[g[i - 1]]
    <3>1. CASE i = k
      <4>1. g[k] = F[h[k - 1]] /\ g[k - 1] = h[k - 1]
        OBVIOUS
      <4> HIDE DEF g
      <4> QED
        BY <3>1, <4>1
    <3>2. CASE i # k
      <4>1. i \in 1 .. k - 1 /\ i - 1 \in 0 .. k - 1 /\ i - 1 # k
        BY <3>2
      <4>2. g[i] = h[i] /\ g[i - 1] = h[i - 1]
        BY <3>2, <4>1
      <4>3. h[i] = F[h[i - 1]]
        BY <2>1, <4>1
      <4> HIDE DEF g
      <4> QED
        BY <4>2, <4>3
    <3> QED
      BY <3>1, <3>2
  <2>5. Good(k, g)
    BY <2>3, <2>4
  <2> HIDE DEF Good
  <2> QED
    BY <2>5
<1> HIDE DEF P
<1>3. 0 .. n \subseteq P
  BY <1>1, <1>2, PrefixInduction
<1> QED
  BY <1>3 DEF P, IsWalk

\* n times the same value.
LEMMA TotalConstant ==
  ASSUME NEW S, IsFiniteSet(S), NEW w \in Nat
  PROVE  Total([x \in S |-> w]) = Cardinality(S) * w
<1> DEFINE P == {T \in SUBSET S : Total([x \in T |-> w]) = Cardinality(T) * w}
<1>1. ASSUME NEW T \in SUBSET S, \A x \in T : T \ {x} \in P PROVE T \in P
  <2>1. CASE T = {}
    <3> DEFINE f == [x \in {} |-> w]
    <3>1. f = [x \in {} |-> f[x]]
      OBVIOUS
    <3> HIDE DEF f
    <3>2. Total(f) = 0
      BY <3>1, TotalEmpty
    <3>3. Cardinality({}) = 0
      BY FS_EmptySet
    <3> QED
      BY <2>1, <3>2, <3>3 DEF f
  <2>2. CASE T # {}
    <3>1. PICK e \in T : TRUE
      BY <2>2
    <3> DEFINE R == T \ {e}
               f == [x \in R |-> w]
               g == [x \in T |-> w]
    <3>2. R \in P /\ R \cup {e} = T /\ e \notin R
      BY <1>1, <3>1
    <3>3. IsFiniteSet(R) /\ IsFiniteSet(T)
      BY FS_Subset
    <3>4. f \in [R -> Nat] /\ g \in [R \cup {e} -> Nat] /\ (\A x \in R : f[x] = g[x]) /\ g[e] = w
      BY <3>2
    <3>5. Total(f) = Cardinality(R) * w
      BY <3>2
    <3> HIDE DEF R, f, g
    <3>6. Total(g) = Total(f) + g[e]
      BY <3>2, <3>3, <3>4, TotalWith
    <3>7. Cardinality(T) = Cardinality(R) + 1 /\ Cardinality(R) \in Nat
      <4>1. Cardinality(R \cup {e}) = Cardinality(R) + 1
        BY <3>2, <3>3, FS_AddElement
      <4> QED
        BY <3>2, <3>3, <4>1, FS_CardinalityType
    <3>8. Total(g) = Cardinality(T) * w
      BY <3>4, <3>5, <3>6, <3>7
    <3> QED
      BY <3>8 DEF g
  <2> QED
    BY <2>1, <2>2
<1> HIDE DEF P
<1>2. SUBSET S \subseteq P
  BY <1>1, FiniteInduction
<1> QED
  BY <1>2 DEF P

\* h solves the recursion of FoldLeft over n places, with values in A.
SolvesFold(h, n, A, base, F) ==
  /\ h \in [SUBSET (1 .. n) -> A] /\ h[{}] = base
  /\ \A t \in SUBSET (1 .. n) : t # {} =>
       Max(t) \in 1 .. n /\ h[t \ {Max(t)}] \in A /\ h[t] = F[<<Max(t), h[t \ {Max(t)}]>>]

\* There is a solution.
LEMMA FoldStart ==
  ASSUME NEW n \in Nat, NEW A, NEW base \in A, NEW F \in [(1 .. n) \X A -> A]
  PROVE  \E h : SolvesFold(h, n, A, base, F)
<1> DEFINE S == 1 .. n
           c == [t \in SUBSET S |-> Max(t)]
<1>1. IsFiniteSet(S)
  BY FS_Interval
<1>2. \A t \in SUBSET S : t # {} => Max(t) \in t
  BY MaxIn
<1>3. Picks(c, S)
  BY <1>2 DEF Picks
<1>4. PICK h \in [SUBSET S -> A] : IsFold(h, c, base, F, S)
  <2> HIDE DEF S, c
  <2> QED
    BY <1>1, <1>3, FoldExists DEF S
<1>5. h[{}] = base
  BY <1>4 DEF IsFold
<1>6. ASSUME NEW t \in SUBSET S, t # {}
      PROVE  Max(t) \in S /\ h[t \ {Max(t)}] \in A /\ h[t] = F[<<Max(t), h[t \ {Max(t)}]>>]
  <2>1. Max(t) \in t /\ t \ {Max(t)} \in SUBSET S /\ c[t] = Max(t)
    BY <1>2, <1>6
  <2>2. h[t] = F[<<c[t], h[t \ {c[t]}]>>]
    BY <1>4, <1>6 DEF IsFold
  <2> QED
    BY <2>1, <2>2
<1> QED
  BY <1>4, <1>5, <1>6 DEF SolvesFold

\* And whatever solves it has its value in A.
LEMMA FoldEnd ==
  ASSUME NEW n \in Nat, NEW A, NEW F \in [(1 .. n) \X A -> A], NEW k, k[{}] \in A,
         \A i \in 1 .. n : k[1 .. i - 1] \in A => k[1 .. i] = F[<<i, k[1 .. i - 1]>>]
  PROVE  k[1 .. n] \in A
<1> DEFINE P == {i \in 0 .. n : k[1 .. i] \in A}
<1>1. 0 \in P
  <2>1. 1 .. 0 = {} /\ 0 \in 0 .. n
    OBVIOUS
  <2> QED
    BY <2>1
<1>2. ASSUME NEW i \in 1 .. n, i - 1 \in P PROVE i \in P
  <2>1. k[1 .. i - 1] \in A /\ i \in 0 .. n
    BY <1>2
  <2>2. k[1 .. i] = F[<<i, k[1 .. i - 1]>>]
    BY <2>1
  <2>3. k[1 .. i] \in A
    BY <2>1, <2>2
  <2> QED
    BY <2>1, <2>3
<1> HIDE DEF P
<1>3. 0 .. n \subseteq P
  BY <1>1, <1>2, PrefixInduction
<1> QED
  BY <1>3 DEF P
-----------------------------------------------------------------------------
(* Finite sets in an order.                                                *)

\* r orders the elements of S, strictly and all of them.
OrdersAll(r, S) ==
  /\ \A s \in S : <<s, s>> \notin r
  /\ \A s, t, u \in S : <<s, t>> \in r /\ <<t, u>> \in r => <<s, u>> \in r
  /\ \A s, t \in S : s # t => <<s, t>> \in r \/ <<t, s>> \in r

\* The elements of a finite set are in its places, 0 and up, one in each, and an
\* earlier element has the smaller place.
LEMMA PlacesAre ==
  ASSUME NEW S, IsFiniteSet(S), NEW r, OrdersAll(r, S)
  PROVE  /\ \A s \in S : Place(r, S, s) \in 0 .. Cardinality(S) - 1
         /\ \A s, t \in S : <<s, t>> \in r => Place(r, S, s) < Place(r, S, t)
         /\ \A i \in 0 .. Cardinality(S) - 1 : \E s \in S : Place(r, S, s) = i
<1> DEFINE n == Cardinality(S)
           T == 0 .. n - 1
           f == [s \in S |-> Place(r, S, s)]
<1>1. n \in Nat
  BY FS_CardinalityType
<1>2. \A s \in S : Place(r, S, s) \in Nat /\ Place(r, S, s) < n
  <2> SUFFICES ASSUME NEW s \in S PROVE Place(r, S, s) \in Nat /\ Place(r, S, s) < n
    OBVIOUS
  <2> DEFINE L == {t \in S : <<t, s>> \in r}
  <2>1. L \subseteq S \ {s}
    BY DEF OrdersAll
  <2>2. IsFiniteSet(S \ {s}) /\ Cardinality(S \ {s}) = n - 1
    BY FS_RemoveElement
  <2>3. IsFiniteSet(L) /\ Cardinality(L) <= Cardinality(S \ {s}) /\ Cardinality(L) \in Nat
    BY <2>1, <2>2, FS_Subset, FS_CardinalityType
  <2> QED
    BY <1>1, <2>2, <2>3 DEF Place
<1>3. \A s, t \in S : <<s, t>> \in r => Place(r, S, s) < Place(r, S, t)
  <2> SUFFICES ASSUME NEW s \in S, NEW t \in S, <<s, t>> \in r PROVE Place(r, S, s) < Place(r, S, t)
    OBVIOUS
  <2> DEFINE L == {x \in S : <<x, s>> \in r}
             M == {x \in S : <<x, t>> \in r}
  <2>1. L \subseteq M \ {s} /\ s \in M /\ M \subseteq S
    BY DEF OrdersAll
  <2>2. IsFiniteSet(M) /\ IsFiniteSet(M \ {s}) /\ Cardinality(M \ {s}) = Cardinality(M) - 1
    BY <2>1, FS_Subset, FS_RemoveElement
  <2>3. Cardinality(L) <= Cardinality(M \ {s}) /\ Cardinality(L) \in Nat /\ Cardinality(M) \in Nat
    BY <2>1, <2>2, FS_Subset, FS_CardinalityType
  <2> QED
    BY <2>2, <2>3 DEF Place
<1>4. f \in Injection(S, T)
  <2>1. f \in [S -> T]
    BY <1>1, <1>2
  <2>2. \A s, t \in S : f[s] = f[t] => s = t
    <3> SUFFICES ASSUME NEW s \in S, NEW t \in S, f[s] = f[t] PROVE s = t
      OBVIOUS
    <3>1. Place(r, S, s) = Place(r, S, t) /\ Place(r, S, s) \in Nat
      BY <1>2
    <3>2. ~(Place(r, S, s) < Place(r, S, t)) /\ ~(Place(r, S, t) < Place(r, S, s))
      BY <3>1
    <3>3. <<s, t>> \notin r /\ <<t, s>> \notin r
      BY <1>3, <3>2
    <3> QED
      BY <3>3 DEF OrdersAll
  <2> QED
    BY <2>1, <2>2 DEF Injection, IsInjective
<1>5. IsFiniteSet(T) /\ Cardinality(T) = n
  <2>1. 0 \in Int /\ n - 1 \in Int
    BY <1>1
  <2>2. IsFiniteSet(T) /\ Cardinality(T) = IF 0 > n - 1 THEN 0 ELSE (n - 1) - 0 + 1
    BY <2>1, FS_Interval
  <2> QED
    BY <1>1, <2>2
<1>6. f \in Surjection(S, T)
  <2> HIDE DEF f, T
  <2> QED
    BY <1>4, <1>5, FS_Injection
<1>7. \A i \in T : \E s \in S : Place(r, S, s) = i
  BY <1>6 DEF Surjection
<1> QED
  BY <1>1, <1>2, <1>3, <1>7

\* The elements of S in their order are elements of S.
LEMMA InPlacesIs ==
  ASSUME NEW S, IsFiniteSet(S), NEW r, OrdersAll(r, S)
  PROVE  /\ InPlaces(S, r) \in Seq(S) /\ Len(InPlaces(S, r)) = Cardinality(S) /\ Cardinality(S) \in Nat
         /\ \A i \in 1 .. Cardinality(S) : InPlaces(S, r)[i] \in S /\ Place(r, S, InPlaces(S, r)[i]) = i - 1
<1> DEFINE n == Cardinality(S)
           f == InPlaces(S, r)
<1>1. n \in Nat
  BY FS_CardinalityType
<1>2. \A i \in 0 .. n - 1 : \E s \in S : Place(r, S, s) = i
  BY PlacesAre
<1>3. ASSUME NEW i \in 1 .. n PROVE f[i] \in S /\ Place(r, S, f[i]) = i - 1
  <2>1. i - 1 \in 0 .. n - 1
    BY <1>1
  <2>2. \E s \in S : Place(r, S, s) = i - 1
    BY <1>2, <2>1
  <2>3. f[i] = CHOOSE s \in S : Place(r, S, s) = i - 1
    BY DEF InPlaces
  <2> QED
    BY <2>2, <2>3
<1>4. f \in [1 .. n -> S]
  BY <1>3 DEF InPlaces
<1> HIDE DEF f, n
<1>5. f \in Seq(S) /\ Len(f) = n
  BY <1>1, <1>4
<1> QED
  BY <1>1, <1>3, <1>5 DEF f, n

=============================================================================
