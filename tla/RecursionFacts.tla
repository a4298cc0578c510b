---------------------------- MODULE RecursionFacts ----------------------------
(***************************************************************************)
(* Two facts about recursive functions on the prefixes of a list, for the  *)
(* proofs about such functions in other modules.                           *)
(***************************************************************************)
EXTENDS Integers, WellFoundedInduction, TLAPS

\* Induction for a set: the form in which the provers can use it.
LEMMA Induction ==
  ASSUME NEW T, 0 \in T, \A n \in Nat : n \in T => n + 1 \in T
  PROVE  Nat \subseteq T
<1>. SUFFICES ASSUME Nat \ T # {} PROVE FALSE
  OBVIOUS
<1>1. PICK m \in Nat \ T : \A j \in Nat \ T : <<j, m>> \notin OpToRel(<, Nat)
  BY WFMin, NatLessThanWellFounded
<1>2. m \in Nat /\ m - 1 \in Nat /\ m - 1 < m /\ m = (m - 1) + 1
  OBVIOUS
<1>3. <<m - 1, m>> \in OpToRel(<, Nat)
  BY <1>2 DEF OpToRel
<1>4. m - 1 \in T
  BY <1>1, <1>2, <1>3
<1>. QED BY <1>2, <1>4

\* A function that is defined by its value at 0 and by steps exists.
LEMMA Recursion ==
  ASSUME NEW S, NEW a \in S, NEW L \in Nat, NEW step \in [1..L -> [S -> S]]
  PROVE  \E f \in [0..L -> S] : f[0] = a /\ \A n \in 1..L : f[n] = step[n][f[n - 1]]
<1>. DEFINE Upto(k) == {f \in [0..k -> S] : f[0] = a /\ \A n \in 1..k : f[n] = step[n][f[n - 1]]}
            T == {k \in Nat : k <= L => Upto(k) # {}}
<1>1. 0 \in T
  <2>1. [n \in 0..0 |-> a] \in Upto(0)
    OBVIOUS
  <2>. QED BY <2>1
<1>2. ASSUME NEW k \in Nat, k \in T PROVE k + 1 \in T
  <2>. SUFFICES ASSUME k + 1 <= L PROVE Upto(k + 1) # {}
    OBVIOUS
  <2>1. PICK f \in Upto(k) : TRUE
    BY <1>2
  <2>. DEFINE g == [n \in 0..(k + 1) |-> IF n = k + 1 THEN step[n][f[k]] ELSE f[n]]
  <2>2. step[k + 1][f[k]] \in S
    BY <2>1
  <2>3. g \in [0..(k + 1) -> S]
    BY <2>1, <2>2
  <2>4. g[0] = a /\ \A n \in 1..(k + 1) : g[n] = step[n][g[n - 1]]
    <3>. SUFFICES ASSUME NEW n \in 1..(k + 1) PROVE g[n] = step[n][g[n - 1]]
      OBVIOUS
    <3>1. CASE n = k + 1
      BY <3>1
    <3>2. CASE n # k + 1
      <4>1. n \in 1..k /\ n - 1 \in 0..k
        BY <3>2
      <4>2. f[n] = step[n][f[n - 1]]
        BY <2>1, <4>1
      <4>. QED BY <4>1, <4>2, <3>2
    <3>. QED BY <3>1, <3>2
  <2>5. g \in Upto(k + 1)
    <3>. HIDE DEF g
    <3>. QED BY <2>3, <2>4
  <2>. QED BY <2>5
<1>3. L \in T
  <2>. HIDE DEF T
  <2>. QED BY <1>1, <1>2, Induction
<1>4. PICK f \in Upto(L) : TRUE
  BY <1>3
<1>. QED BY <1>4
=============================================================================
