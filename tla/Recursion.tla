----------------------------- MODULE Recursion ------------------------------
(* Lemmas about recursive functions and sequences built one element at a     *)
(* time, for the proofs about loops: induction over numbers, stated for sets *)
(* and functions.                                                            *)
EXTENDS Integers, SequenceTheorems, WellFoundedInduction, TLAPS

(* A set of numbers has a least one.                                         *)
LEMMA LeastNumber ==
  ASSUME NEW T \in SUBSET Nat, T # {}
  PROVE  \E n \in T : \A m \in T : n <= m
<1> DEFINE R == OpToRel(<, Nat)
<1>1. IsWellFoundedOn(R, Nat)
  BY NatLessThanWellFounded
<1> HIDE DEF R
<1>2. PICK n \in T : \A m \in T : <<m, n>> \notin R
  BY <1>1, WFMin
<1>3. ASSUME NEW m \in T PROVE n <= m
  <2>1. <<m, n>> \in Nat \X Nat /\ <<m, n>> \notin R
    BY <1>2, <1>3
  <2>2. ~(m < n)
    BY <2>1 DEF R, OpToRel
  <2> QED BY <2>2
<1> QED BY <1>3

(* What holds of 0, and of every number up to n whose predecessor it holds   *)
(* of, holds up to n.                                                        *)
LEMMA UpTo ==
  ASSUME NEW n \in Nat, NEW T, 0 \in T, \A i \in 1..n : i - 1 \in T => i \in T
  PROVE  \A i \in 0..n : i \in T
<1> SUFFICES ASSUME (0..n) \ T # {} PROVE FALSE
  OBVIOUS
<1>1. PICK i \in (0..n) \ T : \A j \in (0..n) \ T : i <= j
  <2> DEFINE B == (0..n) \ T
  <2>1. B \in SUBSET Nat /\ B # {}
    OBVIOUS
  <2> HIDE DEF B
  <2>2. \E i \in B : \A j \in B : i <= j
    BY <2>1, LeastNumber
  <2> QED BY <2>2 DEF B
<1>2. i \in 1..n
  BY <1>1
<1>3. i - 1 \in (0..n) \ T
  BY <1>1, <1>2
<1> QED BY <1>1, <1>3

(* A sequence of steps from a first value, and its run: every such sequence  *)
(* has one.                                                                  *)
IsRun(first, step, n, run) ==
  run = [i \in 0..n |-> IF i = 0 THEN first ELSE step[i][run[i - 1]]]

LEMMA RunExists ==
  ASSUME NEW S, NEW first \in S, NEW n \in Nat, NEW step \in [1..n -> [S -> S]]
  PROVE  \E run \in [0..n -> S] : IsRun(first, step, n, run)
<1> DEFINE T == {m \in 0..n : \E run \in [0..m -> S] : IsRun(first, step, m, run)}
<1>1. 0 \in T
  <2> DEFINE run == [i \in 0..0 |-> first]
  <2>1. run \in [0..0 -> S] /\ IsRun(first, step, 0, run)
    BY DEF IsRun
  <2> HIDE DEF run
  <2> QED BY <2>1
<1>2. ASSUME NEW m \in 1..n, m - 1 \in T PROVE m \in T
  <2>1. PICK run \in [0..(m-1) -> S] : IsRun(first, step, m - 1, run)
    BY <1>2
  <2> DEFINE longer == [i \in 0..m |-> IF i = m THEN step[m][run[m - 1]] ELSE run[i]]
  <2>2. run[m - 1] \in S /\ step[m][run[m - 1]] \in S
    OBVIOUS
  <2>3. longer \in [0..m -> S]
    BY <2>2
  <2>4. ASSUME NEW i \in 0..m
        PROVE  longer[i] = IF i = 0 THEN first ELSE step[i][longer[i - 1]]
    <3>1. CASE i = m
      BY <3>1
    <3>2. CASE i \in 0..(m - 1)
      <4>1. run[i] = IF i = 0 THEN first ELSE step[i][run[i - 1]]
        BY <2>1, <3>2 DEF IsRun
      <4>2. longer[i] = run[i] /\ (i # 0 => longer[i - 1] = run[i - 1])
        BY <3>2
      <4> QED BY <4>1, <4>2
    <3> QED BY <3>1, <3>2
  <2> HIDE DEF longer
  <2>5. IsRun(first, step, m, longer)
    BY <2>3, <2>4 DEF IsRun
  <2>6. m \in 0..n
    OBVIOUS
  <2> QED BY <2>3, <2>5, <2>6
<1>3. \A i \in 0..n : i \in T
  <2> HIDE DEF T
  <2>1. \A i \in 1..n : i - 1 \in T => i \in T
    BY <1>2
  <2> QED BY <1>1, <2>1, UpTo
<1>4. n \in T
  BY <1>3
<1> QED BY <1>4

(* One element more.                                                         *)
OneMore(s, e, more) ==
  /\ Len(s) \in Nat /\ Len(more) = Len(s) + 1 /\ more[Len(s) + 1] = e
  /\ \A i \in 1..Len(s) : more[i] = s[i]
  /\ \A i \in 1..Len(more) : i = Len(s) + 1 \/ i \in 1..Len(s)
  /\ \A i \in 1..Len(s) : i \in 1..Len(more)
  /\ Len(s) + 1 \in 1..Len(more)

LEMMA AppendOne ==
  ASSUME NEW S, NEW s \in Seq(S), NEW e \in S
  PROVE  Append(s, e) \in Seq(S) /\ OneMore(s, e, Append(s, e))
<1> DEFINE n == Len(s)
           more == Append(s, e)
           m == Len(more)
<1>1. n \in Nat
  BY LenProperties
<1>2. /\ more \in Seq(S) /\ m = n + 1 /\ more[n + 1] = e
      /\ \A i \in 1..n : more[i] = s[i]
  BY AppendProperties
<1> HIDE DEF n, m, more
<1>3. /\ n + 1 \in 1..m
      /\ \A i \in 1..m : i = n + 1 \/ i \in 1..n
      /\ \A i \in 1..n : i \in 1..m
  BY <1>1, <1>2
<1>4. OneMore(s, e, more)
  BY <1>1, <1>2, <1>3 DEF OneMore, n, m
<1> QED BY <1>2, <1>4 DEF more

=============================================================================
