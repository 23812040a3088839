------------------------------ MODULE Induction ------------------------------
(***************************************************************************)
(* Induction on the numbers, over sets: the theorems of the library take   *)
(* an operator, these a set of the numbers that have the property.  And    *)
(* what a recursive function needs before anything can be said of it: that *)
(* a function with its equation exists.                                    *)
(***************************************************************************)
EXTENDS Integers, WellFoundedInduction, TLAPS

(***************************************************************************)
(* A set of natural numbers has a least one.                               *)
(***************************************************************************)
LEMMA LeastNumber ==
    ASSUME NEW T, T \subseteq Nat, T # {}
    PROVE  \E n \in T : \A m \in T : n <= m
<1> DEFINE R == OpToRel(<, Nat)
<1>1. \A m, n \in Nat : m < n => <<m, n>> \in R
  BY DEF OpToRel
<1>2. IsWellFoundedOn(R, Nat)
  BY NatLessThanWellFounded
<1> HIDE DEF R
<1>3. \E x \in T : \A y \in T : ~(<<y, x>> \in R)
  BY <1>2, WFMin
<1>4. PICK x \in T : \A y \in T : ~(<<y, x>> \in R)
  BY <1>3
<1>5. ASSUME NEW m \in T PROVE x <= m
  <2>1. ~(<<m, x>> \in R)
    BY <1>4
  <2>2. m \in Nat /\ x \in Nat
    OBVIOUS
  <2>3. ~(m < x)
    BY <1>1, <2>1, <2>2
  <2> QED
    BY <2>2, <2>3
<1> QED
  BY <1>5

(***************************************************************************)
(* What holds of 0, and of n + 1 when it holds of n, holds up to N.        *)
(***************************************************************************)
LEMMA UpTo ==
    ASSUME NEW N \in Nat, NEW P, 0 \in P, \A n \in 0 .. N - 1 : n \in P => n + 1 \in P
    PROVE  0 .. N \subseteq P
<1> DEFINE T == (0 .. N) \ P
<1> SUFFICES ASSUME T # {} PROVE FALSE
  OBVIOUS
<1>1. T \subseteq Nat
  OBVIOUS
<1> HIDE DEF T
<1>2. PICK n \in T : \A m \in T : n <= m
  BY <1>1, LeastNumber
<1> USE DEF T
<1>3. n # 0 /\ n \in 0 .. N /\ n \notin P
  OBVIOUS
<1>4. n - 1 \in 0 .. N - 1
  BY <1>3
<1>5. n - 1 \in P
  BY <1>2, <1>4
<1> QED
  BY <1>3, <1>4, <1>5

(***************************************************************************)
(* A function defined by its value at 0 and a step exists.                 *)
(***************************************************************************)
Iterates(f, N, S, base, step) ==
    /\ f \in [0 .. N -> S]
    /\ f[0] = base
    /\ \A n \in 1 .. N : f[n] = step[<<n, f[n - 1]>>]

LEMMA Recursion ==
    ASSUME NEW N \in Nat, NEW S, NEW base \in S, NEW step \in [(1 .. N) \X S -> S]
    PROVE  \E f : Iterates(f, N, S, base, step)
<1> DEFINE Makes(f, m) == f[0] = base /\ \A n \in 1 .. m : f[n] = step[<<n, f[n - 1]>>]
           P == {m \in 0 .. N : \E f \in [0 .. m -> S] : Makes(f, m)}
<1>1. 0 \in P
  <2> DEFINE f == [n \in 0 .. 0 |-> base]
  <2>1. f \in [0 .. 0 -> S] /\ Makes(f, 0)
    OBVIOUS
  <2> HIDE DEF f, Makes
  <2>2. \E h \in [0 .. 0 -> S] : Makes(h, 0)
    BY <2>1
  <2> QED
    BY <2>2
<1>2. ASSUME NEW m \in 0 .. N - 1, m \in P PROVE m + 1 \in P
  <2>1. PICK f \in [0 .. m -> S] : Makes(f, m)
    BY <1>2
  <2> DEFINE g == [n \in 0 .. m + 1 |-> IF n = m + 1 THEN step[<<m + 1, f[m]>>] ELSE f[n]]
  <2>2. <<m + 1, f[m]>> \in (1 .. N) \X S
    OBVIOUS
  <2>3. step[<<m + 1, f[m]>>] \in S
    BY <2>2
  <2>4. g \in [0 .. m + 1 -> S]
    BY <2>3
  <2>5. \A n \in 0 .. m : g[n] = f[n]
    OBVIOUS
  <2>6. g[m + 1] = step[<<m + 1, f[m]>>]
    OBVIOUS
  <2> HIDE DEF g
  <2>7. Makes(g, m + 1)
    <3>1. ASSUME NEW n \in 1 .. m + 1 PROVE g[n] = step[<<n, g[n - 1]>>]
      <4>1. CASE n = m + 1
        BY <4>1, <2>5, <2>6
      <4>2. CASE n \in 1 .. m
        <5>1. n - 1 \in 0 .. m /\ n \in 0 .. m
          BY <4>2
        <5> QED
          BY <4>2, <5>1, <2>1, <2>5
      <4> QED
        BY <4>1, <4>2
    <3> QED
      BY <3>1, <2>1, <2>5
  <2> HIDE DEF Makes
  <2>8. m + 1 \in 0 .. N
    OBVIOUS
  <2> QED
    BY <2>4, <2>7, <2>8
<1>3. N \in P
  <2> HIDE DEF P
  <2>1. 0 .. N \subseteq P
    BY <1>1, <1>2, UpTo
  <2> QED
    BY <2>1
<1> QED
  BY <1>3 DEF Iterates
==============================================================================
