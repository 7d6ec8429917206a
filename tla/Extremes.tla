------------------------------ MODULE Extremes -------------------------------
(***************************************************************************)
(* What Min and Max of FiniteSetsExt are.  A CHOOSE gives a member only    *)
(* where there is one: a set of naturals has a least member, a bounded one *)
(* a largest.                                                              *)
(***************************************************************************)
EXTENDS Integers, FiniteSetsExt, WellFoundedInduction, TLAPS

\* The extremes of a set of numbers that is bounded are numbers of it.
LEMMA LeastExists ==
    ASSUME NEW T, T \subseteq Nat, T # {}
    PROVE  \E x \in T : \A y \in T : x <= y
<1>1. PICK x \in T : \A y \in T : ~(<<y, x>> \in OpToRel(<, Nat))
  BY WFMin, NatLessThanWellFounded
<1>2. ASSUME NEW y \in T, y < x PROVE <<y, x>> \in OpToRel(<, Nat)
  <2>1. <<y, x>> \in Nat \X Nat
    BY <1>1
  <2>2. <<y, x>>[1] < <<y, x>>[2]
    BY <1>2
  <2> QED BY <2>1, <2>2, Zenon DEF OpToRel
<1>3. \A y \in T : ~(y < x)
  BY <1>1, <1>2
<1> QED BY <1>3

LEMMA MinIsIn ==
    ASSUME NEW T, T \subseteq Nat, T # {}
    PROVE  Min(T) \in T /\ \A x \in T : Min(T) <= x
BY LeastExists DEF Min

LEMMA MaxIsIn ==
    ASSUME NEW n \in Nat, NEW T, T \subseteq 0 .. n, T # {}
    PROVE  Max(T) \in T
<1> DEFINE Mirror == {n - x : x \in T}
<1>1. PICK m \in Mirror : \A y \in Mirror : m <= y
  <2>1. \A x \in T : n - x \in Nat
    OBVIOUS
  <2>2. PICK x \in T : TRUE
    OBVIOUS
  <2>3. Mirror \subseteq Nat
    BY <2>1
  <2>4. n - x \in Mirror
    BY <2>2
  <2>5. Mirror # {}
    BY <2>4
  <2> HIDE DEF Mirror
  <2> QED BY <2>3, <2>5, LeastExists
<1>2. PICK x \in T : m = n - x
  OBVIOUS
<1>3. \A y \in T : x >= y
  <2> TAKE y \in T
  <2>1. n - x <= n - y
    BY <1>1, <1>2
  <2> QED BY <2>1
<1> QED BY <1>3 DEF Max

\* No member of a bounded set is above its largest.
LEMMA MaxBounds ==
    ASSUME NEW n \in Nat, NEW T, T \subseteq 0 .. n, T # {}
    PROVE  Max(T) \in T /\ \A x \in T : x <= Max(T)
<1>1. Max(T) \in T
  BY MaxIsIn
<1>2. \E m \in T : \A x \in T : m >= x
  <2> DEFINE Mirror == {n - x : x \in T}
  <2>1. Mirror \subseteq Nat /\ Mirror # {}
    <3>1. \A x \in T : n - x \in Nat
      OBVIOUS
    <3>2. PICK x \in T : TRUE
      OBVIOUS
    <3>3. n - x \in Mirror
      BY <3>2
    <3> QED BY <3>1, <3>3
  <2>2. PICK m \in Mirror : \A y \in Mirror : m <= y
    <3> HIDE DEF Mirror
    <3> QED BY <2>1, LeastExists
  <2>3. PICK x \in T : m = n - x
    OBVIOUS
  <2>4. \A y \in T : n - x <= n - y
    BY <2>2, <2>3
  <2> QED BY <2>4
<1> QED BY <1>1, <1>2 DEF Max

\* A member that none is above is the largest.
LEMMA LargestIs ==
    ASSUME NEW T, NEW n \in T, T \subseteq Int, \A x \in T : x <= n
    PROVE  Max(T) = n
<1>1. \A m \in T : (\A x \in T : m >= x) => m = n
  OBVIOUS
<1>2. \A x \in T : n >= x
  OBVIOUS
<1> QED BY <1>1, <1>2 DEF Max

LEMMA LeastOfTwo ==
    ASSUME NEW x \in Int, NEW y \in Int
    PROVE  Min({x, y}) \in {x, y} /\ Min({x, y}) <= x /\ Min({x, y}) <= y
<1> DEFINE m == Min({x, y})
<1>1. \E z \in {x, y} : \A w \in {x, y} : z <= w
  <2>1. CASE x <= y
    BY <2>1
  <2>2. CASE y <= x
    BY <2>2
  <2> QED BY <2>1, <2>2
<1>2. m \in {x, y} /\ \A w \in {x, y} : m <= w
  BY <1>1 DEF Min
<1> HIDE DEF m
<1> QED BY <1>2 DEF m
=============================================================================
