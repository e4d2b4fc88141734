----------------------------- MODULE NumberLemmas -----------------------------
(***************************************************************************)
(* What the proofs need to know of division with remainder, of the least   *)
(* element of a set of numbers, of induction and of repeated steps.        *)
(***************************************************************************)
EXTENDS Integers, WellFoundedInduction, TLAPS

\* The remainder lies below the divisor.
LEMMA ModRange == \A t \in Nat, e \in Nat \ {0} : t % e \in 0 .. e - 1
  OBVIOUS

\* Quotient and remainder make up the number ...
LEMMA Division ==
    \A t \in Nat, e \in Nat \ {0} :
        t \div e \in Nat /\ t = e * (t \div e) + (t % e)
  OBVIOUS

\* ... and no other pair does.
LEMMA DivisionUnique ==
    ASSUME NEW e \in Nat \ {0}, NEW q \in Nat, NEW p \in Nat,
           NEW r \in 0 .. e - 1, NEW s \in 0 .. e - 1, e * q + r = e * p + s
    PROVE  q = p /\ r = s
  <1>1. ~(q < p)
    <2> SUFFICES ASSUME q < p PROVE FALSE
      OBVIOUS
    <2>1. p - q - 1 \in Nat
      OBVIOUS
    <2>2. e * (p - q - 1) >= 0 /\ e * p = e * q + e + e * (p - q - 1)
      BY <2>1
    <2> QED BY <2>2
  <1>2. ~(p < q)
    <2> SUFFICES ASSUME p < q PROVE FALSE
      OBVIOUS
    <2>1. q - p - 1 \in Nat
      OBVIOUS
    <2>2. e * (q - p - 1) >= 0 /\ e * q = e * p + e + e * (q - p - 1)
      BY <2>1
    <2> QED BY <2>2
  <1>3. q = p
    BY <1>1, <1>2
  <1> QED BY <1>3

\* Less than a period later, the time within the period has grown by as much,
\* or by as much less one period.
LEMMA ModStep ==
    ASSUME NEW e \in Nat \ {0}, NEW t \in Nat, NEW u \in Nat, t <= u, u - t < e
    PROVE  \/ u % e = (t % e) + (u - t)
           \/ u % e = (t % e) + (u - t) - e
  <1> DEFINE g == u - t
  <1> DEFINE q == t \div e
  <1> DEFINE r == t % e
  <1>1. q \in Nat /\ r \in 0 .. e - 1 /\ t = e * q + r
    BY ModRange, Division
  <1>2. u \div e \in Nat /\ u % e \in 0 .. e - 1 /\ u = e * (u \div e) + (u % e)
    BY ModRange, Division
  <1>3. g \in Nat /\ g < e
    OBVIOUS
  <1>4. u = e * q + r + g
    BY <1>1
  <1> HIDE DEF q, r, g
  <1>5. CASE r + g < e
    <2>1. r + g \in 0 .. e - 1
      BY <1>1, <1>3, <1>5
    <2>2. e * q + (r + g) = e * (u \div e) + (u % e)
      BY <1>1, <1>2, <1>3, <1>4
    <2> QED BY <1>1, <1>2, <2>1, <2>2, DivisionUnique DEF g, r
  <1>6. CASE ~(r + g < e)
    <2> DEFINE q1 == q + 1
    <2> DEFINE r1 == r + g - e
    <2>1. q1 \in Nat /\ r1 \in 0 .. e - 1
      BY <1>1, <1>3, <1>6
    <2>2. e * q1 + r1 = e * (u \div e) + (u % e)
      BY <1>1, <1>2, <1>3, <1>4
    <2> HIDE DEF q1, r1
    <2>3. r1 = u % e
      BY <1>2, <2>1, <2>2, DivisionUnique
    <2> QED BY <2>3 DEF g, r, r1
  <1> QED BY <1>5, <1>6

\* A set of numbers that is not empty has a least element.
LEMMA LeastExists ==
    ASSUME NEW S \in SUBSET Nat, S # {}
    PROVE  \E x \in S : \A y \in S : x <= y
  <1> DEFINE R == OpToRel(<, Nat)
  <1>1. IsWellFoundedOn(R, Nat)
    BY NatLessThanWellFounded
  <1>2. \A x, y \in Nat : y < x => <<y, x>> \in R
    BY DEF OpToRel
  <1> HIDE DEF R
  <1>3. PICK x \in S : \A y \in S : ~(<<y, x>> \in R)
    BY <1>1, WFMin
  <1>4. \A y \in S : ~(y < x)
    BY <1>2, <1>3, Zenon
  <1>5. \A y \in S : x <= y
    BY <1>4
  <1> QED BY <1>5

\* Induction, for a set of numbers.
LEMMA Induction ==
    ASSUME NEW S \in SUBSET Nat, 0 \in S, \A n \in S : n + 1 \in S
    PROVE  S = Nat
  <1> SUFFICES ASSUME Nat \ S # {} PROVE FALSE
    OBVIOUS
  <1> DEFINE Rest == Nat \ S
  <1>1. Rest \in SUBSET Nat /\ Rest # {}
    OBVIOUS
  <1> HIDE DEF Rest
  <1>2. PICK n \in Rest : \A m \in Rest : n <= m
    BY <1>1, LeastExists
  <1>3. n \in Nat /\ n # 0 /\ n \notin S
    BY <1>2 DEF Rest
  <1>4. n - 1 \in Nat /\ n - 1 \notin Rest
    BY <1>2, <1>3
  <1>5. n - 1 \in S
    BY <1>4 DEF Rest
  <1> QED BY <1>3, <1>5

\* A step can be repeated any number of times.
Iterated(f, a, step, last, T) ==
    /\ f \in [0 .. last -> T]
    /\ f[0] = a
    /\ \A k \in 1 .. last : f[k] = step[f[k - 1]]

LEMMA Iterates ==
    ASSUME NEW T, NEW a \in T, NEW step \in [T -> T], NEW last \in Nat
    PROVE  \E f : Iterated(f, a, step, last, T)
  <1> DEFINE S == {n \in Nat :
                      \E f \in [0 .. n -> T] :
                          /\ f[0] = a
                          /\ \A k \in 1 .. n : f[k] = step[f[k - 1]]}
  <1>1. 0 \in S
    <2> DEFINE f == [k \in 0 .. 0 |-> a]
    <2>1. f \in [0 .. 0 -> T] /\ f[0] = a
      OBVIOUS
    <2>2. \A k \in 1 .. 0 : f[k] = step[f[k - 1]]
      OBVIOUS
    <2> HIDE DEF f
    <2> QED BY <2>1, <2>2
  <1>2. ASSUME NEW n \in S PROVE n + 1 \in S
    <2>1. PICK f \in [0 .. n -> T] :
                f[0] = a /\ \A k \in 1 .. n : f[k] = step[f[k - 1]]
      OBVIOUS
    <2> DEFINE g == [k \in 0 .. n + 1 |->
                        IF k = n + 1 THEN step[f[n]] ELSE f[k]]
    <2>2. n \in Nat
      OBVIOUS
    <2>3. g \in [0 .. n + 1 -> T]
      BY <2>2
    <2>4. g[0] = a
      BY <2>1, <2>2
    <2>5. ASSUME NEW k \in 1 .. n + 1 PROVE g[k] = step[g[k - 1]]
      <3>1. k - 1 \in 0 .. n /\ g[k - 1] = f[k - 1]
        BY <2>2
      <3>2. CASE k = n + 1
        BY <2>2, <3>1, <3>2
      <3>3. CASE k # n + 1
        <4>1. k \in 1 .. n /\ g[k] = f[k]
          BY <2>2, <3>3
        <4> QED BY <2>1, <3>1, <4>1
      <3> QED BY <3>2, <3>3
    <2> HIDE DEF g
    <2> QED BY <2>2, <2>3, <2>4, <2>5
  <1>3. S = Nat
    <2>1. S \in SUBSET Nat
      OBVIOUS
    <2> HIDE DEF S
    <2> QED BY <1>1, <1>2, <2>1, Induction
  <1> QED BY <1>3 DEF Iterated
===============================================================================
