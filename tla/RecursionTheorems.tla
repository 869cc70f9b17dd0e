------------------------- MODULE RecursionTheorems -------------------------
(***************************************************************************)
(* Induction and recursion over the natural numbers, stated of sets and    *)
(* functions instead of operators: what the proofs need to reason about    *)
(* the folds of the Go code, which the models write as recursive functions *)
(* over the prefixes of a sequence.                                        *)
(***************************************************************************)
EXTENDS Integers, WellFoundedInduction, TLAPS

\* A set that holds 0, and with each number the next, holds every number.
THEOREM SetInduction ==
    ASSUME NEW S, 0 \in S, \A n \in Nat : n \in S => n + 1 \in S
    PROVE  Nat \subseteq S
<1> DEFINE T == Nat \ S
<1>1. SUFFICES ASSUME T # {} PROVE FALSE
  OBVIOUS
<1>2. T \subseteq Nat
  OBVIOUS
<1>3. PICK x \in T : \A y \in T : ~(<<y, x>> \in OpToRel(<, Nat))
  <2> HIDE DEF T
  <2> QED
    BY <1>1, <1>2, NatLessThanWellFounded, WFMin
<1>4. x \in Nat /\ x # 0 /\ x - 1 \in Nat
  OBVIOUS
<1>5. <<x - 1, x>> \in OpToRel(<, Nat)
  BY <1>4 DEF OpToRel
<1>6. x - 1 \in S
  BY <1>3, <1>4, <1>5
<1>7. x \in S
  <2>1. (x - 1) + 1 \in S /\ (x - 1) + 1 = x
    BY <1>4, <1>6
  <2> QED
    BY <2>1
<1> QED
  BY <1>7

\* Steps taken one after the other lead somewhere.
THEOREM StepsLead ==
    ASSUME NEW X, NEW start \in X, NEW n \in Nat, NEW step \in [1 .. n -> [X -> X]]
    PROVE  \E a \in [0 .. n -> X] :
              a[0] = start /\ \A i \in 1 .. n : a[i] = step[i][a[i - 1]]
<1> DEFINE Leads(m, a) == a[0] = start /\ \A i \in 1 .. m : a[i] = step[i][a[i - 1]]
           S == {m \in Nat : m <= n => \E a \in [0 .. m -> X] : Leads(m, a)}
<1>1. 0 \in S
  <2>1. [i \in 0 .. 0 |-> start] \in [0 .. 0 -> X] /\ Leads(0, [i \in 0 .. 0 |-> start])
    OBVIOUS
  <2> QED
    BY <2>1
<1>2. ASSUME NEW m \in Nat, m \in S PROVE m + 1 \in S
  <2>1. SUFFICES ASSUME m + 1 <= n
                 PROVE  \E b \in [0 .. m + 1 -> X] : Leads(m + 1, b)
    OBVIOUS
  <2>2. PICK a \in [0 .. m -> X] : Leads(m, a)
    BY <1>2, <2>1
  <2> DEFINE b == [i \in 0 .. m + 1 |-> IF i <= m THEN a[i] ELSE step[m + 1][a[m]]]
  <2>3. step[m + 1][a[m]] \in X
    BY <2>1
  <2>4. b \in [0 .. m + 1 -> X]
    BY <2>3
  <2>5. Leads(m + 1, b)
    <3>1. b[0] = start
      BY <2>2
    <3>2. ASSUME NEW i \in 1 .. m + 1 PROVE b[i] = step[i][b[i - 1]]
      <4>1. CASE i <= m
        BY <2>2, <4>1
      <4>2. CASE i = m + 1
        BY <4>2
      <4> QED
        BY <4>1, <4>2
    <3> QED
      BY <3>1, <3>2
  <2> QED
    BY <2>4, <2>5
<1>3. Nat \subseteq S
  <2> HIDE DEF S
  <2> QED
    BY <1>1, <1>2, SetInduction
<1> QED
  BY <1>3

\* Of some numbers one is the least.
THEOREM LeastNumber ==
    ASSUME NEW S, S \subseteq Nat, S # {}
    PROVE  \E x \in S : \A y \in S : x <= y
<1>1. PICK x \in S : \A y \in S : ~(<<y, x>> \in OpToRel(<, Nat))
  BY NatLessThanWellFounded, WFMin
<1>2. \A y \in S : ~(y < x)
  BY <1>1 DEF OpToRel
<1> QED
  BY <1>2

\* Of some numbers up to n one is the greatest.
THEOREM GreatestNumber ==
    ASSUME NEW n \in Nat, NEW S, S \subseteq 1 .. n, S # {}
    PROVE  \E x \in S : \A y \in S : y <= x
<1> DEFINE T == {n - y : y \in S}
<1>1. T \subseteq Nat /\ T # {}
  <2>1. \A y \in S : n - y \in Nat
    OBVIOUS
  <2> QED
    BY <2>1
<1>2. PICK t \in T : \A u \in T : t <= u
  <2> HIDE DEF T
  <2> QED
    BY <1>1, LeastNumber
<1>3. PICK x \in S : t = n - x
  OBVIOUS
<1>4. \A y \in S : n - x <= n - y
  BY <1>2, <1>3
<1> QED
  BY <1>4
=============================================================================
