----------------------------- MODULE SetInduction -----------------------------
(***************************************************************************)
(* Induction and recursion over the natural numbers, with a set or a       *)
(* function where NaturalsInduction has an operator: what the proofs about *)
(* the loops of the source rest on.                                        *)
(***************************************************************************)
EXTENDS Integers, WellFoundedInduction, TLAPS

\* A set of natural numbers that is not empty has a least element.
LEMMA LeastNumber ==
  ASSUME NEW T \in SUBSET Nat, T # {}
  PROVE  \E m \in T : \A k \in T : m <= k
  <1> DEFINE R == OpToRel(<, Nat)
  <1>1. \A x, y \in Nat : <<x, y>> \in R <=> x < y
    BY DEF OpToRel
  <1>2. IsWellFoundedOn(R, Nat)
    BY NatLessThanWellFounded
  <1> HIDE DEF R
  <1>3. PICK m \in T : \A k \in T : ~ (<<k, m>> \in R)
    BY <1>2, WFMin
  <1>4. ASSUME NEW k \in T
        PROVE  m <= k
    <2>1. k \in Nat /\ m \in Nat /\ ~ (<<k, m>> \in R)
      BY <1>3
    <2>2. ~ (k < m)
      BY <1>1, <2>1
    <2> QED
      BY <2>1, <2>2
  <1> QED
    BY <1>4

\* Induction: a set with 0 in it, and with every number its successor, up to
\* a bound.
LEMMA InductionUpTo ==
  ASSUME NEW N \in Nat, NEW T, 0 \in T,
         \A n \in 0 .. N - 1 : n \in T => n + 1 \in T
  PROVE  0 .. N \subseteq T
  <1> SUFFICES ASSUME (0 .. N) \ T # {} PROVE FALSE
    OBVIOUS
  <1>1. PICK m \in (0 .. N) \ T : \A k \in (0 .. N) \ T : m <= k
    <2> DEFINE missing == (0 .. N) \ T
    <2>1. missing \in SUBSET Nat /\ missing # {}
      OBVIOUS
    <2> HIDE DEF missing
    <2>2. \E m \in missing : \A k \in missing : m <= k
      BY <2>1, LeastNumber
    <2> QED
      BY <2>2 DEF missing
  <1>2. m - 1 \in 0 .. N - 1 /\ m - 1 \in T
    BY <1>1
  <1>3. (m - 1) + 1 \in T
    BY <1>2
  <1> QED
    BY <1>1, <1>2, <1>3

\* Is g a function up to N whose values follow one from the other?
Follows(g, N, S, base, step) ==
  /\ g \in [0 .. N -> S]
  /\ g[0] = base
  /\ \A i \in 1 .. N : g[i] = step[<<i, g[i - 1]>>]

\* Recursion: there is such a function.
LEMMA RecursionUpTo ==
  ASSUME NEW N \in Nat, NEW S, NEW base \in S, NEW step \in [(1 .. N) \X S -> S]
  PROVE  \E g : Follows(g, N, S, base, step)
  <1> DEFINE Good(g, n) == /\ g \in [0 .. n -> S] /\ g[0] = base
                           /\ \A i \in 1 .. n : g[i] = step[<<i, g[i - 1]>>]
             T == {n \in 0 .. N : \E g : Good(g, n)}
  <1>1. 0 \in T
    <2>1. Good([i \in 0 .. 0 |-> base], 0)
      OBVIOUS
    <2> HIDE DEF Good
    <2> QED
      BY <2>1
  <1>2. ASSUME NEW n \in 0 .. N - 1, n \in T
        PROVE  n + 1 \in T
    <2>1. PICK g : Good(g, n)
      BY <1>2
    <2> DEFINE h == [i \in 0 .. n + 1 |-> IF i <= n THEN g[i] ELSE step[<<n + 1, g[n]>>]]
    <2>2. step[<<n + 1, g[n]>>] \in S
      BY <2>1
    <2>3. h \in [0 .. n + 1 -> S] /\ h[0] = base
      BY <2>1, <2>2
    <2>4. ASSUME NEW i \in 1 .. n + 1
          PROVE  h[i] = step[<<i, h[i - 1]>>]
      <3>1. CASE i <= n
        BY <2>1, <3>1
      <3>2. CASE i = n + 1
        BY <3>2
      <3> QED
        BY <3>1, <3>2
    <2> HIDE DEF h
    <2>5. Good(h, n + 1) /\ n + 1 \in 0 .. N
      BY <2>3, <2>4
    <2> HIDE DEF Good
    <2> QED
      BY <2>5
  <1>3. 0 .. N \subseteq T
    <2> HIDE DEF T
    <2> QED
      BY <1>1, <1>2, InductionUpTo
  <1>4. PICK g : Good(g, N)
    <2> HIDE DEF Good
    <2>1. N \in T
      BY <1>3
    <2> QED
      BY <2>1
  <1> QED
    BY <1>4 DEF Follows
=============================================================================
