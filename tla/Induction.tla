------------------------------ MODULE Induction ------------------------------
(***************************************************************************)
(* Induction over the natural numbers, and the meaning of functions that   *)
(* are defined recursively over an interval, which the models use for what *)
(* the code does in a loop over a list.                                    *)
(*                                                                         *)
(* The theorems of NaturalsInduction have a predicate as a parameter, for  *)
(* which the provers used here do not find an instance.  These have a set  *)
(* instead: that of the numbers for which something holds.  They follow    *)
(* from the well-foundedness of < on the natural numbers.                  *)
(***************************************************************************)
EXTENDS Integers, WellFoundedInduction, TLAPS

Less == {ss \in Nat \X Nat : ss[1] < ss[2]}

LEMMA LessWellFounded == IsWellFoundedOn(Less, Nat)
<1>1. OpToRel(<, Nat) = Less
  BY DEF OpToRel, Less
<1> QED
  BY <1>1, NatLessThanWellFounded

\* Every set of natural numbers that is not empty has a least element.
LEMMA LeastNatural ==
  ASSUME NEW T \in SUBSET Nat, T # {}
  PROVE  \E x \in T : \A y \in T : x <= y
<1>1. PICK x \in T : \A y \in T : <<y, x>> \notin Less
  BY LessWellFounded, WFMin
<1>2. ASSUME NEW y \in T
      PROVE  x <= y
  <2>1. x \in Nat /\ y \in Nat /\ <<y, x>> \notin Less
    BY <1>1
  <2>2. ~(y < x)
    BY <2>1 DEF Less
  <2> QED
    BY <2>1, <2>2
<1> QED
  BY <1>2

\* A set with 0 and the successor of each of its elements has all numbers.
LEMMA NatSetInduction ==
  ASSUME NEW T, 0 \in T, \A n \in Nat : n \in T => n + 1 \in T
  PROVE  Nat \subseteq T
<1> SUFFICES ASSUME Nat \ T # {} PROVE FALSE
  OBVIOUS
<1>1. PICK x \in Nat \ T : \A y \in Nat \ T : x <= y
  BY LeastNatural
<1>2. x # 0 /\ x - 1 \in Nat /\ x - 1 \in T
  BY <1>1
<1> QED
  BY <1>1, <1>2

\* What holds before a loop, and after an iteration if it held before that, holds
\* after each: I is the set of the values for which it does.
LEMMA LoopInvariant ==
  ASSUME NEW N \in Nat, NEW g, NEW I,
         g[0] \in I,
         \A i \in 1 .. N : g[i - 1] \in I => g[i] \in I
  PROVE  \A i \in 0 .. N : g[i] \in I
<1> DEFINE T == {n \in Nat : n <= N => g[n] \in I}
<1>1. 0 \in T
  OBVIOUS
<1>2. ASSUME NEW n \in Nat, n \in T
      PROVE  n + 1 \in T
  <2>1. n + 1 <= N => n + 1 \in 1 .. N /\ (n + 1) - 1 = n /\ n <= N
    OBVIOUS
  <2> QED
    BY <1>2, <2>1
<1>3. Nat \subseteq T
  <2> HIDE DEF T
  <2> QED
    BY <1>1, <1>2, NatSetInduction
<1> QED
  BY <1>3

\* What the iterations of a loop over 1 .. N make of a value in S.
Bodies(S, N) == [S \X (1 .. N) -> S]

\* g has the value a at first, and after each iteration what D makes of the last one.
Iterates(g, a, D, N) == g[0] = a /\ \A i \in 1 .. N : g[i] = D[<<g[i - 1], i>>]

\* A loop over 1 .. N, whose i-th iteration makes D[<<v, i>>] of the value v, can be
\* run: there is a function with the values after each iteration.
LEMMA LoopRuns ==
  ASSUME NEW S, NEW a \in S, NEW N \in Nat, NEW D \in Bodies(S, N)
  PROVE  \E g \in [0 .. N -> S] : Iterates(g, a, D, N)
<1> DEFINE Run(n, g) == /\ g \in [0 .. n -> S] /\ g[0] = a
                        /\ \A i \in 1 .. n : g[i] = D[<<g[i - 1], i>>]
           T == {n \in Nat : n <= N => \E g : Run(n, g)}
<1>1. 0 \in T
  <2>1. Run(0, [i \in 0 .. 0 |-> a])
    OBVIOUS
  <2> HIDE DEF Run
  <2> QED
    BY <2>1
<1>2. ASSUME NEW n \in Nat, n \in T
      PROVE  n + 1 \in T
  <2> SUFFICES ASSUME n + 1 <= N
               PROVE  \E g : Run(n + 1, g)
    OBVIOUS
  <2>1. PICK g : Run(n, g)
    BY <1>2
  <2> DEFINE h == [i \in 0 .. n + 1 |-> IF i <= n THEN g[i] ELSE D[<<g[n], n + 1>>]]
  <2>2. g[n] \in S /\ D[<<g[n], n + 1>>] \in S
    BY <2>1 DEF Bodies
  <2>3. h \in [0 .. n + 1 -> S]
    BY <2>1, <2>2
  <2>4. h[0] = a
    BY <2>1
  <2>5. \A i \in 1 .. n + 1 : h[i] = D[<<h[i - 1], i>>]
    <3>1. \A i \in 0 .. n : h[i] = g[i]
      OBVIOUS
    <3>2. h[n + 1] = D[<<g[n], n + 1>>]
      OBVIOUS
    <3> HIDE DEF h
    <3> SUFFICES ASSUME NEW i \in 1 .. n + 1
                 PROVE  h[i] = D[<<h[i - 1], i>>]
      OBVIOUS
    <3>3. CASE i = n + 1
      <4>1. h[i - 1] = g[n]
        BY <3>1, <3>3
      <4> QED
        BY <3>2, <3>3, <4>1
    <3>4. CASE i \in 1 .. n
      <4>1. h[i] = g[i] /\ h[i - 1] = g[i - 1] /\ g[i] = D[<<g[i - 1], i>>]
        BY <2>1, <3>1, <3>4
      <4> QED
        BY <4>1
    <3> QED
      BY <3>3, <3>4
  <2> HIDE DEF h
  <2>6. Run(n + 1, h)
    BY <2>3, <2>4, <2>5
  <2> HIDE DEF Run
  <2> QED
    BY <2>6
<1>3. N \in T
  <2> HIDE DEF T
  <2> QED
    BY <1>1, <1>2, NatSetInduction
<1> QED
  BY <1>3 DEF Iterates
=============================================================================
