------------------------------ MODULE Inductions ------------------------------
(***************************************************************************)
(* Facts the other proofs share: induction over a set of naturals (the     *)
(* library's induction theorems are about operators), the least and the    *)
(* greatest of a set, and functions defined by recursion.                  *)
(***************************************************************************)
EXTENDS Integers, FiniteSetsExt, FiniteSetTheorems, WellFoundedInduction, TLAPS

\* Induction over the naturals, for a set of them.
LEMMA Induction ==
    ASSUME NEW S, 0 \in S, \A n \in Nat : n \in S => n + 1 \in S
    PROVE  Nat \subseteq S
<1> DEFINE Less == {ss \in Nat \X Nat : ss[1] < ss[2]}
<1>1. IsWellFoundedOn(Less, Nat)
  BY NatLessThanWellFounded, Zenon DEF OpToRel
<1>2. SUFFICES ASSUME Nat \ S # {} PROVE FALSE
  OBVIOUS
<1>3. \E x \in Nat \ S : \A y \in Nat \ S : ~(<<y, x>> \in Less)
  <2> HIDE DEF Less
  <2> QED
    BY <1>1, <1>2, WFMin
<1>4. PICK x \in Nat \ S : \A y \in Nat \ S : ~(<<y, x>> \in Less)
  BY <1>3
<1>5. x # 0 /\ x - 1 \in Nat
  OBVIOUS
<1>6. <<x - 1, x>> \in Less
  BY <1>5
<1>7. x - 1 \in S
  BY <1>4, <1>5, <1>6
<1> QED
  BY <1>5, <1>7

\* The minimum of a set of positions is one of them.
LEMMA MinIsIn == ASSUME NEW S, S \subseteq Nat, S # {} PROVE Min(S) \in S
<1> DEFINE Less == {ss \in Nat \X Nat : ss[1] < ss[2]}
<1>1. IsWellFoundedOn(Less, Nat)
  BY NatLessThanWellFounded, Zenon DEF OpToRel
<1>2. \E x \in S : \A y \in S : ~(<<y, x>> \in Less)
  <2> HIDE DEF Less
  <2> QED
    BY <1>1, WFMin
<1>3. ASSUME NEW x \in S, NEW y \in S, ~(<<y, x>> \in Less) PROVE x <= y
  <2>1. <<y, x>> \in Nat \X Nat /\ <<y, x>>[1] = y /\ <<y, x>>[2] = x
    BY <1>3
  <2>2. ~(y < x)
    BY <1>3, <2>1
  <2> QED
    BY <1>3, <2>2
<1> QED
  BY <1>2, <1>3 DEF Min

\* The minimum and the maximum of two numbers.
LEMMA MinOfTwo ==
    ASSUME NEW a \in Int, NEW b \in Int
    PROVE  Min({a, b}) = IF a <= b THEN a ELSE b
<1> DEFINE m == IF a <= b THEN a ELSE b
           P(x) == x \in {a, b} /\ \A y \in {a, b} : x <= y
<1>1. P(m) /\ \A x : P(x) => x = m
  OBVIOUS
<1>2. Min({a, b}) = CHOOSE x : P(x)
  BY Zenon DEF Min
<1> HIDE DEF P, m
<1>3. (CHOOSE x : P(x)) = m
  BY <1>1
<1> QED
  BY <1>2, <1>3 DEF m

LEMMA MaxOfTwo ==
    ASSUME NEW a \in Int, NEW b \in Int
    PROVE  Max({a, b}) = IF a >= b THEN a ELSE b
<1> DEFINE m == IF a >= b THEN a ELSE b
           P(x) == x \in {a, b} /\ \A y \in {a, b} : x >= y
<1>1. P(m) /\ \A x : P(x) => x = m
  OBVIOUS
<1>2. Max({a, b}) = CHOOSE x : P(x)
  BY Zenon DEF Max
<1> HIDE DEF P, m
<1>3. (CHOOSE x : P(x)) = m
  BY <1>1
<1> QED
  BY <1>2, <1>3 DEF m

-----------------------------------------------------------------------------
(* Recursive functions over the naturals. *)

\* The function f begins at a and goes on by step, N times.
StepsFrom(f, N, a, step) ==
    /\ DOMAIN f = 0 .. N
    /\ f = [n \in 0 .. N |-> f[n]]
    /\ f[0] = a
    /\ \A n \in 1 .. N : f[n] = step[<<f[n - 1], n>>]

\* Such a function exists, whatever the step is, and its values stay where it goes.
LEMMA RecursionExists ==
    ASSUME NEW N, N \in Nat, NEW V, NEW a, a \in V, NEW step,
           \A v \in V, n \in 1 .. N : step[<<v, n>>] \in V
    PROVE  \E f : StepsFrom(f, N, a, step) /\ \A n \in 0 .. N : f[n] \in V
<1> DEFINE UpTo(f, m) == /\ f \in [0 .. m -> V]
                         /\ f[0] = a
                         /\ \A n \in 1 .. m : f[n] = step[<<f[n - 1], n>>]
           S == {m \in Nat : m <= N => \E f : UpTo(f, m)}
<1>1. 0 \in S
  <2>1. UpTo([n \in 0 .. 0 |-> a], 0)
    OBVIOUS
  <2> QED
    BY <2>1
<1>2. ASSUME NEW m \in Nat, m \in S PROVE m + 1 \in S
  <2>1. SUFFICES ASSUME m + 1 <= N PROVE \E f : UpTo(f, m + 1)
    OBVIOUS
  <2>2. PICK f : UpTo(f, m)
    BY <1>2, <2>1
  <2> DEFINE g == [n \in 0 .. m + 1 |-> IF n = m + 1 THEN step[<<f[m], n>>] ELSE f[n]]
  <2>3. step[<<f[m], m + 1>>] \in V
    <3>1. f[m] \in V /\ m + 1 \in 1 .. N
      BY <2>1, <2>2
    <3> QED
      BY <3>1
  <2>4. g \in [0 .. m + 1 -> V] /\ g[0] = a
    BY <2>2, <2>3
  <2>5. ASSUME NEW n \in 1 .. m + 1 PROVE g[n] = step[<<g[n - 1], n>>]
    <3>1. g[n - 1] = f[n - 1]
      OBVIOUS
    <3>2. CASE n = m + 1
      BY <3>1, <3>2
    <3>3. CASE n # m + 1
      BY <2>2, <3>1, <3>3
    <3> QED
      BY <3>2, <3>3
  <2>6. UpTo(g, m + 1)
    <3> HIDE DEF g
    <3> QED
      BY <2>4, <2>5
  <2> HIDE DEF g, UpTo
  <2> QED
    BY <2>6
<1>3. N \in S
  <2> HIDE DEF S
  <2> QED
    BY <1>1, <1>2, Induction
<1>4. PICK f : UpTo(f, N)
  BY <1>3
<1>5. StepsFrom(f, N, a, step) /\ \A n \in 0 .. N : f[n] \in V
  BY <1>4 DEF StepsFrom
<1> QED
  BY <1>5
=============================================================================
