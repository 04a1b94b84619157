------------------------------- MODULE NatFacts -------------------------------
(***************************************************************************)
(* Facts about natural numbers that the proofs share: the loops of the     *)
(* services take their elements in order, which the models write as taking *)
(* the least of what is left, or as recursion over an index.               *)
(***************************************************************************)
EXTENDS Naturals, WellFoundedInduction, TLAPS

\* A set of natural numbers that is not empty has a least element.
LEMMA LeastExists ==
  ASSUME NEW S \in SUBSET Nat, S # {}
  PROVE  \E x \in S : \A y \in S : x <= y
<1> DEFINE less == OpToRel(<, Nat)
<1>1. PICK x \in S : \A y \in S : ~(<<y, x>> \in less)
  <2>1. IsWellFoundedOn(less, Nat)  BY NatLessThanWellFounded
  <2> HIDE DEF less
  <2> QED  BY <2>1, WFMin, Zenon
<1>2. less = {ss \in Nat \X Nat : ss[1] < ss[2]}
  BY DEF OpToRel
<1> HIDE DEF less
<1>3. ASSUME NEW y \in S PROVE x <= y
  <2>1. ~(y < x)
    BY <1>1, <1>2
  <2> QED  BY <2>1
<1> QED  BY <1>3

\* So the element that is taken next is one that is left.
LEMMA LeastIsIn ==
  ASSUME NEW S \in SUBSET Nat, S # {}
  PROVE  (CHOOSE x \in S : \A y \in S : x <= y) \in S
BY LeastExists

\* Induction, for a set of numbers instead of a predicate.
LEMMA SetInduction ==
  ASSUME NEW S, 0 \in S, \A n \in Nat : n \in S => n + 1 \in S
  PROVE  \A n \in Nat : n \in S
<1> SUFFICES ASSUME Nat \ S # {} PROVE FALSE
  OBVIOUS
<1>1. PICK m \in Nat \ S : \A y \in Nat \ S : m <= y
  BY LeastExists
<1>2. m - 1 \in Nat /\ m - 1 \in S
  BY <1>1
<1> QED  BY <1>1, <1>2

Follows(f, a, step) == f[0] = a /\ \A n \in Nat : f[n + 1] = step[n][f[n]]

\* A recursive function on the natural numbers exists.
LEMMA RecursionExists ==
  ASSUME NEW A, NEW a \in A, NEW step \in [Nat -> [A -> A]]
  PROVE  \E f \in [Nat -> A] : Follows(f, a, step)
<1> DEFINE Part(n, g) == /\ g \in [0..n -> A] /\ g[0] = a
                         /\ \A i \in 0..(n - 1) : g[i + 1] = step[i][g[i]]
           Some == {n \in Nat : \E g : Part(n, g)}
           Alike == {i \in Nat : \A n \in Nat, m \in Nat : i <= n /\ i <= m =>
                                   \A g, h : Part(n, g) /\ Part(m, h) => g[i] = h[i]}
<1>1. \A n \in Nat : n \in Some
  <2>1. 0 \in Some
    <3>1. Part(0, [i \in 0..0 |-> a])
      OBVIOUS
    <3> QED  BY <3>1
  <2>2. ASSUME NEW n \in Nat, n \in Some PROVE n + 1 \in Some
    <3>1. PICK g : Part(n, g)
      BY <2>2
    <3> DEFINE h == [i \in 0..(n + 1) |-> IF i <= n THEN g[i] ELSE step[n][g[n]]]
    <3>2. g[n] \in A /\ step[n][g[n]] \in A
      BY <3>1
    <3>3. h \in [0..(n + 1) -> A]
      BY <3>1, <3>2
    <3>4. h[0] = a
      BY <3>1
    <3>5. ASSUME NEW i \in 0..(n + 1 - 1) PROVE h[i + 1] = step[i][h[i]]
      <4>1. CASE i = n
        BY <4>1
      <4>2. CASE i # n
        BY <3>1, <4>2
      <4> QED  BY <4>1, <4>2
    <3> HIDE DEF h
    <3>6. Part(n + 1, h)
      BY <3>3, <3>4, <3>5
    <3> HIDE DEF Part
    <3> QED  BY <3>6
  <2> HIDE DEF Some
  <2> QED  BY <2>1, <2>2, SetInduction
<1>2. \A i \in Nat : i \in Alike
  <2>1. 0 \in Alike
    OBVIOUS
  <2>2. ASSUME NEW i \in Nat, i \in Alike PROVE i + 1 \in Alike
    <3>1. ASSUME NEW n \in Nat, NEW m \in Nat, i + 1 <= n, i + 1 <= m, NEW g, NEW h, Part(n, g), Part(m, h)
          PROVE  g[i + 1] = h[i + 1]
      <4>1. g[i] = h[i]
        <5> HIDE DEF Part
        <5>1. i <= n /\ i <= m
          BY <3>1
        <5> QED  BY <2>2, <3>1, <5>1
      <4>2. g[i + 1] = step[i][g[i]] /\ h[i + 1] = step[i][h[i]]
        BY <3>1
      <4> QED  BY <4>1, <4>2
    <3> HIDE DEF Part
    <3> QED  BY <3>1
  <2> HIDE DEF Alike
  <2> QED  BY <2>1, <2>2, SetInduction
<1> DEFINE f == [n \in Nat |-> (CHOOSE g : Part(n, g))[n]]
<1>3. \A n \in Nat : Part(n, CHOOSE g : Part(n, g))
  BY <1>1
<1> HIDE DEF Part
<1>4. ASSUME NEW n \in Nat, NEW g, Part(n, g) PROVE f[n] = g[n]
  BY <1>2, <1>3, <1>4
<1>5. f \in [Nat -> A]
  <2>1. ASSUME NEW n \in Nat PROVE (CHOOSE g : Part(n, g))[n] \in A
    <3>1. Part(n, CHOOSE g : Part(n, g))
      BY <1>3
    <3>2. PICK g : g = (CHOOSE x : Part(n, x))
      OBVIOUS
    <3> QED  BY <3>1, <3>2 DEF Part
  <2> QED  BY <2>1
<1>6. f[0] = a
  BY <1>3, <1>4 DEF Part
<1>7. ASSUME NEW n \in Nat PROVE f[n + 1] = step[n][f[n]]
  <2>1. PICK g : Part(n + 1, g)
    BY <1>1
  <2>2. Part(n, [i \in 0..n |-> g[i]])
    BY <2>1 DEF Part
  <2>3. f[n] = g[n] /\ f[n + 1] = g[n + 1]
    BY <1>4, <2>1, <2>2
  <2>4. g[n + 1] = step[n][g[n]]
    BY <2>1 DEF Part
  <2> QED  BY <2>3, <2>4
<1> QED  BY <1>5, <1>6, <1>7 DEF Follows
=============================================================================
