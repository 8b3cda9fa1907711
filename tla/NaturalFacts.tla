---------------------------- MODULE NaturalFacts ----------------------------
(***************************************************************************)
(* Facts about numbers that several proof modules share: the first and the *)
(* last position of a scan (Min and Max); induction, in the form of a set  *)
(* of numbers that contains 0 and the successor of each of its elements;   *)
(* and that a function defined by recursion on an interval exists.         *)
(***************************************************************************)
EXTENDS Integers, FiniteSetsExt, WellFoundedInduction, TLAPS

\* A set of naturals that is not empty has a least element.
LEMMA LeastNatural ==
    ASSUME NEW T \in SUBSET Nat, T # {}
    PROVE  \E x \in T : \A y \in T : x <= y
  <1> DEFINE R == OpToRel(<, Nat)
  <1>1. \A x, y \in Nat : <<x, y>> \in R <=> x < y
    BY DEF OpToRel
  <1>2. IsWellFoundedOn(R, Nat)
    BY NatLessThanWellFounded
  <1> HIDE DEF R
  <1>3. PICK x \in T : \A y \in T : ~(<<y, x>> \in R)
    <2>1. T \subseteq Nat
      OBVIOUS
    <2> QED
      BY <1>2, <2>1, WFMin, Zenon
  <1>4. \A y \in T : ~(y < x)
    BY <1>1, <1>3
  <1>5. \A y \in T : x <= y
    BY <1>4
  <1> QED
    BY <1>5

\* Min of a set of naturals.
LEMMA MinIs ==
    ASSUME NEW T \in SUBSET Nat, T # {}
    PROVE  Min(T) \in T /\ \A y \in T : Min(T) <= y
  <1>1. \E x \in T : \A y \in T : x <= y
    BY LeastNatural
  <1> QED
    BY <1>1, Zenon DEF Min

\* Max of a set of naturals that has an upper bound.
LEMMA MaxIs ==
    ASSUME NEW T \in SUBSET Nat, T # {}, NEW b \in Nat, \A y \in T : y <= b
    PROVE  Max(T) \in T /\ \A y \in T : Max(T) >= y
  <1> DEFINE U == {n \in Nat : b - n \in T}
  <1>1. U # {}
    <2>1. PICK y \in T : TRUE
      OBVIOUS
    <2>2. b - y \in Nat /\ b - (b - y) = y
      OBVIOUS
    <2> QED
      BY <2>1, <2>2
  <1>2. PICK m \in U : \A n \in U : m <= n
    BY <1>1, LeastNatural
  <1>3. \A y \in T : b - m >= y
    <2>1. ASSUME NEW y \in T PROVE b - m >= y
      <3>1. b - y \in Nat /\ b - (b - y) = y
        OBVIOUS
      <3>2. b - y \in U
        BY <3>1
      <3>3. m <= b - y
        BY <3>2, <1>2
      <3> QED
        BY <3>3, <3>1, <1>2
    <2> QED
      BY <2>1
  <1>4. b - m \in T
    BY <1>2
  <1>5. \E x \in T : \A y \in T : x >= y
    BY <1>3, <1>4
  <1> QED
    BY <1>5, Zenon DEF Max

\* Induction.
LEMMA SetInduction ==
    ASSUME NEW T, 0 \in T, \A n \in Nat : n \in T => n + 1 \in T
    PROVE  Nat \subseteq T
  <1>1. SUFFICES ASSUME Nat \ T # {} PROVE FALSE
    OBVIOUS
  <1>2. PICK x \in Nat \ T : \A y \in Nat \ T : x <= y
    BY <1>1, LeastNatural
  <1>3. x # 0 /\ x - 1 \in Nat
    BY <1>2
  <1>4. x - 1 \in T
    BY <1>2, <1>3
  <1>5. (x - 1) + 1 \in T
    BY <1>3, <1>4
  <1> QED
    BY <1>2, <1>5

\* The smaller and the larger of two numbers.
LEMMA MinOfTwo ==
    ASSUME NEW a \in Int, NEW b \in Int
    PROVE  Min({a, b}) = IF a <= b THEN a ELSE b
  <1>1. \E x \in {a, b} : \A y \in {a, b} : x <= y
    OBVIOUS
  <1>2. Min({a, b}) \in {a, b} /\ \A y \in {a, b} : Min({a, b}) <= y
    BY <1>1, Zenon DEF Min
  <1> DEFINE m == Min({a, b})
  <1> HIDE DEF m
  <1>3. (m = a \/ m = b) /\ m <= a /\ m <= b
    BY <1>2 DEF m
  <1>4. m = IF a <= b THEN a ELSE b
    BY <1>3
  <1> QED
    BY <1>4 DEF m

LEMMA MaxOfTwo ==
    ASSUME NEW a \in Int, NEW b \in Int
    PROVE  Max({a, b}) = IF a >= b THEN a ELSE b
  <1>1. \E x \in {a, b} : \A y \in {a, b} : x >= y
    OBVIOUS
  <1>2. Max({a, b}) \in {a, b} /\ \A y \in {a, b} : Max({a, b}) >= y
    BY <1>1, Zenon DEF Max
  <1> DEFINE m == Max({a, b})
  <1> HIDE DEF m
  <1>3. (m = a \/ m = b) /\ m >= a /\ m >= b
    BY <1>2 DEF m
  <1>4. m = IF a >= b THEN a ELSE b
    BY <1>3
  <1> QED
    BY <1>4 DEF m

\* A function defined by recursion on an interval exists: a is its value at
\* 0, and step[n] maps its value at n - 1 to its value at n.
StepMaps(S, L) == [1..L -> [S -> S]]
Recursions(S, a, L, step) ==
    {f \in [0..L -> S] : f[0] = a /\ \A n \in 1..L : f[n] = step[n][f[n - 1]]}

LEMMA RecursionExists ==
    ASSUME NEW S, NEW a \in S, NEW L \in Nat, NEW step \in StepMaps(S, L)
    PROVE  Recursions(S, a, L, step) # {}
  <1> DEFINE Upto(n, f) == f[0] = a /\ \A m \in 1..n : f[m] = step[m][f[m - 1]]
             Good == {n \in Nat : n <= L => \E f \in [0..n -> S] : Upto(n, f)}
  <1>1. 0 \in Good
    <2>1. [n \in 0..0 |-> a] \in [0..0 -> S] /\ Upto(0, [n \in 0..0 |-> a])
      OBVIOUS
    <2> QED
      BY <2>1
  <1> USE DEF StepMaps
  <1>2. ASSUME NEW n \in Nat, n \in Good, n + 1 <= L PROVE n + 1 \in Good
    <2>1. n <= L
      BY <1>2
    <2>2. PICK f \in [0..n -> S] : Upto(n, f)
      <3>1. n <= L => \E f \in [0..n -> S] : Upto(n, f)
        BY <1>2, Zenon
      <3> QED
        BY <2>1, <3>1, Zenon
    <2> DEFINE g == [m \in 0..(n + 1) |-> IF m <= n THEN f[m] ELSE step[n + 1][f[n]]]
    <2>3. step[n + 1] \in [S -> S] /\ f[n] \in S
      BY <1>2
    <2>4. g \in [0..(n + 1) -> S]
      BY <2>3
    <2>5. g[0] = a
      BY <2>2
    <2>6. ASSUME NEW m \in 1..(n + 1) PROVE g[m] = step[m][g[m - 1]]
      <3>1. CASE m \in 1..n
        <4>1. f[m] = step[m][f[m - 1]]
          BY <2>2, <3>1, Zenon
        <4>2. g[m] = f[m] /\ g[m - 1] = f[m - 1]
          BY <3>1
        <4> QED
          BY <4>1, <4>2
      <3>2. CASE m = n + 1
        BY <3>2
      <3> QED
        BY <3>1, <3>2
    <2> HIDE DEF g
    <2>7. \E h \in [0..(n + 1) -> S] : Upto(n + 1, h)
      BY <2>4, <2>5, <2>6, Zenon
    <2>8. n + 1 \in Nat
      OBVIOUS
    <2> QED
      BY <2>7, <2>8, Zenon
  <1>3. Nat \subseteq Good
    <2>1. ASSUME NEW n \in Nat, n \in Good PROVE n + 1 \in Good
      <3>1. CASE n + 1 <= L
        BY <2>1, <3>1, <1>2
      <3>2. CASE ~(n + 1 <= L)
        BY <3>2
      <3> QED
        BY <3>1, <3>2
    <2> HIDE DEF Good
    <2> QED
      BY <1>1, <2>1, SetInduction
  <1>4. L \in Good /\ L <= L
    BY <1>3
  <1>5. \E f \in [0..L -> S] : Upto(L, f)
    BY <1>4, Zenon
  <1> QED
    BY <1>5, Zenon DEF Recursions
=============================================================================
