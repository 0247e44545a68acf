---------------------------- MODULE FiniteLemmas ----------------------------
(***************************************************************************)
(* What the proofs about this system need of finite sets: induction, the   *)
(* largest number of a bounded set, and sums.                              *)
(*                                                                         *)
(* The library's induction theorems take a predicate, which the provers    *)
(* cannot be given.  Here induction is about a set instead: the set of     *)
(* what satisfies the predicate.  It rests on WFMin, that a well-founded   *)
(* order has a minimal element in every set.                               *)
(***************************************************************************)
EXTENDS FiniteSetsExt, FiniteSetTheorems, TLAPS

(* A set of naturals that has 0 and with every number the next is Nat. *)
LEMMA NaturalSetInduction ==
    ASSUME NEW T \in SUBSET Nat, 0 \in T, \A n \in T : n + 1 \in T
    PROVE  T = Nat
<1> SUFFICES ASSUME T # Nat PROVE FALSE
  OBVIOUS
<1> DEFINE Below == OpToRel(<, Nat)
<1>1. IsWellFoundedOn(Below, Nat)
  BY NatLessThanWellFounded
<1>2. Nat \ T # {} /\ Nat \ T \subseteq Nat
  OBVIOUS
<1>3. \A x, y \in Nat : y < x => <<y, x>> \in Below
  BY DEF OpToRel
<1> HIDE DEF Below
<1>4. PICK x \in Nat \ T : \A y \in Nat \ T : ~(<<y, x>> \in Below)
  BY <1>1, <1>2, WFMin
<1>5. x # 0 /\ x - 1 \in Nat /\ x - 1 < x
  BY <1>4
<1>6. x - 1 \in T
  BY <1>3, <1>4, <1>5
<1> QED
  BY <1>4, <1>5, <1>6

(* A set of subsets of S that has a subset whenever it has what is left of
   it without any one element has all of them. *)
LEMMA SubsetInduction ==
    ASSUME NEW S, IsFiniteSet(S), NEW W \in SUBSET (SUBSET S),
           \A s \in SUBSET S : (\A x \in s : s \ {x} \in W) => s \in W
    PROVE  W = SUBSET S
<1> SUFFICES ASSUME W # SUBSET S PROVE FALSE
  OBVIOUS
<1> DEFINE Order == StrictSubsetOrdering(S)
           Rest == (SUBSET S) \ W
<1>1. IsWellFoundedOn(Order, SUBSET S)
  <2>1. IsWellFoundedOn(Order, FiniteSubsetsOf(S))
    BY FS_StrictSubsetOrderingWellFounded
  <2>2. FiniteSubsetsOf(S) = SUBSET S
    BY FS_FiniteSubsetsOfFinite
  <2> QED
    BY <2>1, <2>2
<1>2. Rest # {} /\ Rest \subseteq SUBSET S
  OBVIOUS
<1>3. \A s \in SUBSET S : \A x \in s : <<s \ {x}, s>> \in Order
  BY DEF StrictSubsetOrdering
<1> HIDE DEF Order, Rest
<1>4. PICK s \in Rest : \A r \in Rest : ~(<<r, s>> \in Order)
  BY <1>1, <1>2, WFMin
<1>5. \A x \in s : s \ {x} \in W
  BY <1>3, <1>4 DEF Rest
<1> QED
  BY <1>4, <1>5 DEF Rest

(* A bounded set of naturals has a largest element. *)
LEMMA LargestExists ==
    ASSUME NEW S \in SUBSET Nat, S # {}, NEW n \in Nat, \A x \in S : x <= n
    PROVE  Max(S) \in S /\ \A x \in S : Max(S) >= x
<1>1. \E x \in S : \A y \in S : x >= y
  <2> SUFFICES ASSUME \A x \in S : \E y \in S : x < y PROVE FALSE
    OBVIOUS
  <2> DEFINE T == {m \in Nat : \E x \in S : x >= m}
  <2>1. 0 \in T
    <3>1. PICK x \in S : TRUE
      OBVIOUS
    <3>2. x \in Nat /\ x >= 0
      BY <3>1
    <3> QED
      BY <3>2
  <2>2. \A m \in T : m + 1 \in T
    OBVIOUS
  <2> HIDE DEF T
  <2>3. T = Nat
    BY <2>1, <2>2, NaturalSetInduction DEF T
  <2>4. n + 1 \in T
    BY <2>3
  <2> QED
    BY <2>4 DEF T
<1> QED
  BY <1>1 DEF Max
-----------------------------------------------------------------------------
(* Sums.  MapThenSumSet is a recursion over the elements that CHOOSE picks   *)
(* one after the other; what it adds up to depends on the values alone.      *)

Pick(s) == CHOOSE x \in s : TRUE

\* The sum of f over S.
Total(f, S) == MapThenSumSet(LAMBDA x : f[x], S)

\* g is the function by which MapThenSumSet adds up f over the subsets of S.
Sums(f, S, g) ==
    g = [s \in SUBSET S |-> IF s = {} THEN 0 ELSE f[Pick(s)] + g[s \ {Pick(s)}]]

(* What is picked is there. *)
LEMMA PickIn == \A s : s # {} => Pick(s) \in s
BY DEF Pick

(* The equation of the recursion. *)
LEMMA SumsStep ==
    ASSUME NEW S, NEW f, NEW g, Sums(f, S, g)
    PROVE  \A s \in SUBSET S :
              /\ s = {} => g[s] = 0
              /\ s # {} => Pick(s) \in s /\ g[s] = f[Pick(s)] + g[s \ {Pick(s)}]
<1>1. ASSUME NEW s \in SUBSET S
      PROVE  g[s] = IF s = {} THEN 0 ELSE f[Pick(s)] + g[s \ {Pick(s)}]
  BY Zenon DEF Sums
<1> QED
  BY <1>1, PickIn

(* The recursion is well defined: level by level of the number of elements. *)
LEMMA SumsExist ==
    ASSUME NEW S, IsFiniteSet(S), NEW f
    PROVE  \E g : Sums(f, S, g)
<1> DEFINE Level(n) == {s \in SUBSET S : Cardinality(s) <= n}
           Next(g, s) == IF s = {} THEN 0 ELSE f[Pick(s)] + g[s \ {Pick(s)}]
           Good == {n \in Nat : \E g : g = [s \in Level(n) |-> Next(g, s)]}
<1>1. \A s \in SUBSET S : IsFiniteSet(s) /\ Cardinality(s) \in Nat
  BY FS_Subset, FS_CardinalityType
<1>2. 0 \in Good
  <2> DEFINE z == [s \in Level(0) |-> 0]
  <2>1. \A s \in Level(0) : s = {}
    BY <1>1, FS_EmptySet
  <2>2. z = [s \in Level(0) |-> Next(z, s)]
    BY <2>1
  <2> HIDE DEF z
  <2> QED
    BY <2>2
<1>3. ASSUME NEW n \in Good
      PROVE  n + 1 \in Good
  <2>1. PICK g : g = [s \in Level(n) |-> Next(g, s)]
    BY <1>3
  <2> DEFINE h == [s \in Level(n + 1) |-> Next(g, s)]
  <2>2. \A s \in Level(n) : s \in Level(n + 1)
    BY <1>1, <1>3
  <2>3. \A s \in Level(n) : h[s] = g[s]
    BY <2>1, <2>2
  <2>4. ASSUME NEW s \in Level(n + 1), s # {}
        PROVE  s \ {Pick(s)} \in Level(n)
    <3>1. Cardinality(s \ {Pick(s)}) = Cardinality(s) - 1
      BY <1>1, <2>4, PickIn, FS_RemoveElement
    <3> QED
      BY <1>1, <1>3, <2>4, <3>1
  <2>5. \A s \in Level(n + 1) : Next(g, s) = Next(h, s)
    BY <2>3, <2>4
  <2>6. h = [s \in Level(n + 1) |-> Next(h, s)]
    BY <2>5
  <2>7. \E e : e = [s \in Level(n + 1) |-> Next(e, s)]
    <3> HIDE DEF h, Level, Next
    <3> QED
      BY <2>6
  <2> HIDE DEF h, Level, Next
  <2> QED
    BY <1>3, <2>7
<1> HIDE DEF Good
<1>4. Good = Nat
  BY <1>2, <1>3, NaturalSetInduction DEF Good
<1>5. Cardinality(S) \in Good
  BY <1>4, FS_CardinalityType
<1>6. Level(Cardinality(S)) = SUBSET S
  BY <1>1, FS_Subset
<1> QED
  BY <1>5, <1>6 DEF Good, Sums

(* MapThenSumSet takes one of these functions. *)
LEMMA TotalIsSum ==
    ASSUME NEW S, IsFiniteSet(S), NEW f
    PROVE  \E g : Sums(f, S, g) /\ Total(f, S) = g[S]
<1> DEFINE iter == CHOOSE g : g = [s \in SUBSET S |->
                     IF s = {} THEN 0 ELSE f[Pick(s)] + g[s \ {Pick(s)}]]
<1>1. Total(f, S) = iter[S]
  BY DEF Total, MapThenSumSet, MapThenFoldSet, Pick
<1>2. \E g : g = [s \in SUBSET S |->
                  IF s = {} THEN 0 ELSE f[Pick(s)] + g[s \ {Pick(s)}]]
  <2> HIDE DEF iter
  <2>1. PICK g : Sums(f, S, g)
    BY SumsExist
  <2>2. g = [s \in SUBSET S |->
               IF s = {} THEN 0 ELSE f[Pick(s)] + g[s \ {Pick(s)}]]
    BY <2>1, Zenon DEF Sums
  <2> QED
    BY <2>2, Zenon
<1>3. iter = [s \in SUBSET S |->
                IF s = {} THEN 0 ELSE f[Pick(s)] + iter[s \ {Pick(s)}]]
  BY <1>2, Zenon
<1>4. Sums(f, S, iter)
  BY <1>3 DEF Sums
<1> HIDE DEF iter
<1> QED
  BY <1>1, <1>4

(* Adding up integers gives integers. *)
LEMMA SumsAreIntegers ==
    ASSUME NEW S, IsFiniteSet(S), NEW f, \A x \in S : f[x] \in Int,
           NEW g, Sums(f, S, g)
    PROVE  \A s \in SUBSET S : g[s] \in Int
<1> DEFINE W == {s \in SUBSET S : g[s] \in Int}
<1>1. ASSUME NEW s \in SUBSET S, \A x \in s : s \ {x} \in W
      PROVE  s \in W
  <2>1. CASE s = {}
    <3>1. g[s] = 0
      BY <2>1, SumsStep
    <3> QED
      BY <3>1
  <2>2. CASE s # {}
    <3>1. Pick(s) \in s /\ g[s] = f[Pick(s)] + g[s \ {Pick(s)}]
      BY <2>2, SumsStep
    <3>2. f[Pick(s)] \in Int /\ g[s \ {Pick(s)}] \in Int
      BY <1>1, <3>1
    <3> QED
      BY <3>1, <3>2
  <2> QED
    BY <2>1, <2>2
<1>2. W \in SUBSET (SUBSET S)
  OBVIOUS
<1> HIDE DEF W
<1>3. W = SUBSET S
  BY <1>1, <1>2, SubsetInduction
<1> QED
  BY <1>3 DEF W

(* The sum over a set depends on the values there. *)
LEMMA SumsAgree ==
    ASSUME NEW S, IsFiniteSet(S), NEW T \in SUBSET S,
           NEW f, NEW e, \A x \in T : f[x] = e[x],
           NEW g, Sums(f, S, g), NEW h, Sums(e, T, h)
    PROVE  \A s \in SUBSET T : g[s] = h[s]
<1>1. \A s \in SUBSET S :
         /\ s = {} => g[s] = 0
         /\ s # {} => Pick(s) \in s /\ g[s] = f[Pick(s)] + g[s \ {Pick(s)}]
  BY SumsStep
<1>2. \A s \in SUBSET T :
         /\ s = {} => h[s] = 0
         /\ s # {} => Pick(s) \in s /\ h[s] = e[Pick(s)] + h[s \ {Pick(s)}]
  BY SumsStep
<1> DEFINE W == {s \in SUBSET T : g[s] = h[s]}
<1>3. ASSUME NEW s \in SUBSET T, \A x \in s : s \ {x} \in W
      PROVE  s \in W
  <2>1. CASE s = {}
    <3>1. g[s] = 0
      BY <1>1, <2>1
    <3>2. h[s] = 0
      BY <1>2, <2>1
    <3> QED
      BY <3>1, <3>2
  <2>2. CASE s # {}
    <3>1. Pick(s) \in s /\ g[s] = f[Pick(s)] + g[s \ {Pick(s)}]
      BY <1>1, <2>2
    <3>2. h[s] = e[Pick(s)] + h[s \ {Pick(s)}]
      BY <1>2, <2>2
    <3>3. g[s \ {Pick(s)}] = h[s \ {Pick(s)}] /\ f[Pick(s)] = e[Pick(s)]
      BY <1>3, <3>1
    <3> QED
      BY <3>1, <3>2, <3>3
  <2> QED
    BY <2>1, <2>2
<1>4. W \in SUBSET (SUBSET T) /\ IsFiniteSet(T)
  BY FS_Subset
<1> HIDE DEF W
<1>5. W = SUBSET T
  BY <1>3, <1>4, SubsetInduction
<1> QED
  BY <1>5 DEF W

(* Any element may be added last. *)
LEMMA SumsRemove ==
    ASSUME NEW S, IsFiniteSet(S), NEW f, \A x \in S : f[x] \in Int,
           NEW g, Sums(f, S, g)
    PROVE  \A s \in SUBSET S : \A p \in s : g[s] = f[p] + g[s \ {p}]
<1> DEFINE W == {s \in SUBSET S : \A p \in s : g[s] = f[p] + g[s \ {p}]}
<1>1. ASSUME NEW s \in SUBSET S, \A x \in s : s \ {x} \in W, NEW p \in s
      PROVE  g[s] = f[p] + g[s \ {p}]
  <2> DEFINE c == Pick(s)
  <2>1. c \in s /\ g[s] = f[c] + g[s \ {c}]
    BY SumsStep
  <2> HIDE DEF c
  <2>2. CASE c = p
    BY <2>1, <2>2
  <2>3. CASE c # p
    <3>1. g[s \ {c}] = f[p] + g[(s \ {c}) \ {p}]
      BY <1>1, <2>1, <2>3
    <3>2. g[s \ {p}] = f[c] + g[(s \ {p}) \ {c}]
      BY <1>1, <2>1, <2>3
    <3> DEFINE r == g[(s \ {p}) \ {c}]
    <3>3. (s \ {c}) \ {p} = (s \ {p}) \ {c}
      OBVIOUS
    <3>4. r \in Int /\ f[p] \in Int /\ f[c] \in Int
      BY <2>1, SumsAreIntegers
    <3>5. g[s \ {c}] = f[p] + r
      BY <3>1, <3>3
    <3> HIDE DEF r, W
    <3>6. f[c] + (f[p] + r) = f[p] + (f[c] + r)
      BY <3>4
    <3> QED
      BY <2>1, <3>2, <3>5, <3>6 DEF r
  <2> QED
    BY <2>2, <2>3
<1>2. /\ \A s \in SUBSET S : (\A x \in s : s \ {x} \in W) => s \in W
      /\ W \in SUBSET (SUBSET S)
  BY <1>1
<1> HIDE DEF W
<1>3. W = SUBSET S
  BY <1>2, SubsetInduction
<1> QED
  BY <1>3 DEF W
-----------------------------------------------------------------------------
(* What the proofs use of sums: the sum over no elements, *)
LEMMA TotalOfNothing == ASSUME NEW f PROVE Total(f, {}) = 0
<1>1. PICK g : Sums(f, {}, g) /\ Total(f, {}) = g[{}]
  BY TotalIsSum, FS_EmptySet
<1> QED
  BY <1>1 DEF Sums

(* the sum of integers, *)
LEMMA TotalType ==
    ASSUME NEW S, IsFiniteSet(S), NEW f, \A x \in S : f[x] \in Int
    PROVE  Total(f, S) \in Int
BY TotalIsSum, SumsAreIntegers

(* the sums of functions that agree on the set, *)
LEMMA TotalAgrees ==
    ASSUME NEW S, IsFiniteSet(S), NEW f, NEW e, \A x \in S : f[x] = e[x]
    PROVE  Total(f, S) = Total(e, S)
<1>1. PICK g : Sums(f, S, g) /\ Total(f, S) = g[S]
  BY TotalIsSum
<1>2. PICK h : Sums(e, S, h) /\ Total(e, S) = h[S]
  BY TotalIsSum
<1>3. \A s \in SUBSET S : g[s] = h[s]
  BY <1>1, <1>2, SumsAgree
<1> QED
  BY <1>1, <1>2, <1>3

(* and the sum without one element. *)
LEMMA TotalWithout ==
    ASSUME NEW S, IsFiniteSet(S), NEW f, \A x \in S : f[x] \in Int, NEW p \in S
    PROVE  Total(f, S) = f[p] + Total(f, S \ {p})
<1>1. PICK g : Sums(f, S, g) /\ Total(f, S) = g[S]
  BY TotalIsSum
<1>2. IsFiniteSet(S \ {p})
  BY FS_RemoveElement
<1>3. PICK h : Sums(f, S \ {p}, h) /\ Total(f, S \ {p}) = h[S \ {p}]
  BY <1>2, TotalIsSum
<1>4. g[S] = f[p] + g[S \ {p}]
  BY <1>1, SumsRemove
<1>5. g[S \ {p}] = h[S \ {p}]
  BY <1>1, <1>3, SumsAgree
<1> QED
  BY <1>1, <1>3, <1>4, <1>5
=============================================================================
