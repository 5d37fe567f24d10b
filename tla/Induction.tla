------------------------------ MODULE Induction ------------------------------
(***************************************************************************)
(* Induction and recursion over the natural numbers, stated for sets and   *)
(* functions instead of operators: what the proofs about loops and         *)
(* searches rest on.                                                       *)
(***************************************************************************)
EXTENDS Integers, SequencesExt, SequenceTheorems, WellFoundedInduction, TLAPS

(* WFMin as a formula.                                                     *)
LEMMA Minimal ==
  \A R, S, T : IsWellFoundedOn(R, S) /\ T \subseteq S /\ T # {}
                 => \E x \in T : \A y \in T : <<y, x>> \notin R
  BY WFMin

(* Every set of natural numbers has a least element.                       *)
LEMMA LeastNat ==
  ASSUME NEW S \in SUBSET Nat, S # {}
  PROVE  \E n \in S : \A m \in S : n <= m
<1> DEFINE R == OpToRel(<, Nat)
<1>1. IsWellFoundedOn(R, Nat)
  BY NatLessThanWellFounded
<1>2. R = {p \in Nat \X Nat : p[1] < p[2]}
  BY DEF OpToRel
<1> HIDE DEF R
<1>3. \E n \in S : \A m \in S : <<m, n>> \notin R
  BY <1>1, Minimal
<1>4. \A m, n \in Nat : <<m, n>> \notin R => n <= m
  <2> SUFFICES ASSUME NEW m \in Nat, NEW n \in Nat, m < n PROVE <<m, n>> \in R
    OBVIOUS
  <2> QED  BY <1>2
<1> QED  BY <1>3, <1>4

(* A set with 0 and all successors of its elements has all numbers.        *)
LEMMA SetInduction ==
  ASSUME NEW S, 0 \in S, \A n \in Nat : n \in S => n + 1 \in S
  PROVE  Nat \subseteq S
<1> SUFFICES ASSUME NEW k \in Nat, k \notin S PROVE FALSE
  OBVIOUS
<1> DEFINE T == Nat \ S
<1>1. PICK n \in T : \A m \in T : n <= m
  BY LeastNat
<1>2. n # 0 /\ n - 1 \in Nat /\ n - 1 \notin T
  BY <1>1
<1> QED  BY <1>1, <1>2

(* The same up to a bound.                                                 *)
LEMMA BoundedInduction ==
  ASSUME NEW n \in Nat, NEW S, 0 \in S,
         \A i \in 0 .. n - 1 : i \in S => i + 1 \in S
  PROVE  0 .. n \subseteq S
<1> DEFINE T == {i \in Nat : i <= n => i \in S}
<1>1. 0 \in T
  OBVIOUS
<1>2. \A i \in Nat : i \in T => i + 1 \in T
  OBVIOUS
<1>3. Nat \subseteq T
  <2> HIDE DEF T
  <2> QED  BY <1>1, <1>2, SetInduction
<1> QED  BY <1>3

(* The runs of a loop of n turns over the values X: step gives the value   *)
(* after a turn for the number of the turn and the value before it.        *)
Runs(X, start, n, step) ==
  {g \in [0 .. n -> X] : g[0] = start /\ \A i \in 1 .. n : g[i] = step[<<i, g[i - 1]>>]}

(* Every loop has a run.                                                   *)
LEMMA LoopRuns ==
  ASSUME NEW X, NEW start \in X, NEW n \in Nat, NEW step \in [(1 .. n) \X X -> X]
  PROVE  Runs(X, start, n, step) # {}
<1> DEFINE Of(k) == {g \in [0 .. k -> X] : g[0] = start /\ \A i \in 1 .. k : g[i] = step[<<i, g[i - 1]>>]}
           S == {k \in 0 .. n : Of(k) # {}}
<1>1. 0 \in S
  <2>1. [i \in 0 .. 0 |-> start] \in Of(0)
    OBVIOUS
  <2> QED  BY <2>1
<1>2. ASSUME NEW k \in 0 .. n - 1, k \in S PROVE k + 1 \in S
  <2>1. PICK g \in Of(k) : TRUE
    BY <1>2
  <2> DEFINE h == [i \in 0 .. k + 1 |-> IF i <= k THEN g[i] ELSE step[<<k + 1, g[k]>>]]
  <2>2. g[k] \in X /\ step[<<k + 1, g[k]>>] \in X
    BY <2>1
  <2>3. h \in [0 .. k + 1 -> X]
    BY <2>1, <2>2
  <2>4. h[0] = start
    BY <2>1
  <2>5. ASSUME NEW i \in 1 .. k + 1 PROVE h[i] = step[<<i, h[i - 1]>>]
    <3>1. CASE i = k + 1
      <4>1. h[k + 1] = step[<<k + 1, g[k]>>] /\ h[k] = g[k]
        OBVIOUS
      <4>2. i - 1 = k
        BY <3>1
      <4> QED  BY <3>1, <4>1, <4>2
    <3>2. CASE i \in 1 .. k
      <4>1. h[i] = g[i] /\ h[i - 1] = g[i - 1]
        BY <3>2
      <4> QED  BY <2>1, <3>2, <4>1
    <3> QED  BY <3>1, <3>2
  <2>6. h \in Of(k + 1)
    <3> HIDE DEF h
    <3> QED  BY <2>3, <2>4, <2>5
  <2>7. k + 1 \in 0 .. n
    OBVIOUS
  <2> HIDE DEF Of, h
  <2> QED  BY <2>6, <2>7
<1>3. 0 .. n \subseteq S
  <2> HIDE DEF S
  <2> QED  BY <1>1, <1>2, BoundedInduction
<1> QED  BY <1>3 DEF Runs

(* The turns of a loop stay where each turn stays.                         *)
LEMMA TurnsStay ==
  ASSUME NEW X, NEW n \in Nat, NEW g, g = [i \in 0 .. n |-> g[i]], g[0] \in X,
         \A i \in 1 .. n : g[i - 1] \in X => g[i] \in X
  PROVE  g \in [0 .. n -> X]
<1> DEFINE S == {i \in 0 .. n : g[i] \in X}
<1>1. 0 \in S
  OBVIOUS
<1>2. \A i \in 0 .. n - 1 : i \in S => i + 1 \in S
  <2>1. ASSUME NEW i \in 0 .. n - 1, i \in S PROVE i + 1 \in S
    <3>1. i + 1 \in 1 .. n /\ (i + 1) - 1 = i
      OBVIOUS
    <3> QED  BY <2>1, <3>1
  <2> QED  BY <2>1
<1>3. 0 .. n \subseteq S
  <2> HIDE DEF S
  <2> QED  BY <1>1, <1>2, BoundedInduction
<1> QED  BY <1>3

-----------------------------------------------------------------------------
(* Sequences                                                               *)

(* The sequence s with e behind its first p elements.                      *)
Inserted(S, s, p, e) ==
  {t \in Seq(S) :
     /\ Len(t) = Len(s) + 1
     /\ \A m \in 1 .. Len(s) + 1 :
          t[m] = IF m <= p THEN s[m] ELSE IF m = p + 1 THEN e ELSE s[m - 1]}

(* InsertAt puts one element between the others.                           *)
LEMMA InsertIs ==
  ASSUME NEW S, NEW s \in Seq(S), NEW e \in S, NEW p \in 0 .. Len(s)
  PROVE  InsertAt(s, p + 1, e) \in Inserted(S, s, p, e)
<1> DEFINE before == SubSeq(s, 1, p)
           after == SubSeq(s, p + 1, Len(s))
<1>1. /\ before \in Seq(S) /\ Len(before) = p
      /\ \A m \in 1 .. p : before[m] = s[m]
  BY SubSeqProperties
<1>2. /\ after \in Seq(S) /\ Len(after) = Len(s) - p
      /\ \A m \in 1 .. Len(s) - p : after[m] = s[p + m]
  BY SubSeqProperties
<1>3. InsertAt(s, p + 1, e) = before \o <<e>> \o after
  <2>1. (p + 1) - 1 = p
    OBVIOUS
  <2>2. InsertAt(s, p + 1, e) = SubSeq(s, 1, (p + 1) - 1) \o <<e>> \o SubSeq(s, p + 1, Len(s))
    BY DEF InsertAt
  <2> QED  BY <2>1, <2>2
<1> HIDE DEF before, after
<1>4. /\ before \o <<e>> \in Seq(S) /\ Len(before \o <<e>>) = p + 1
      /\ \A m \in 1 .. p + 1 : (before \o <<e>>)[m] = IF m <= p THEN s[m] ELSE e
  BY <1>1
<1> DEFINE upper == before \o <<e>>
           t == upper \o after
<1>5. upper \in Seq(S) /\ Len(upper) = p + 1
  BY <1>4
<1>6. \A m \in 1 .. p + 1 : upper[m] = IF m <= p THEN s[m] ELSE e
  BY <1>4
<1> HIDE DEF upper
<1>7. /\ t \in Seq(S) /\ Len(t) = Len(s) + 1 /\ Len(s) \in Nat
      /\ \A m \in 1 .. Len(upper) + Len(after) : t[m] = IF m <= Len(upper) THEN upper[m] ELSE after[m - Len(upper)]
  <2>1. t \in Seq(S) /\ Len(t) = Len(upper) + Len(after)
    BY <1>2, <1>5, ConcatProperties
  <2>2. \A m \in 1 .. Len(upper) + Len(after) : t[m] = IF m <= Len(upper) THEN upper[m] ELSE after[m - Len(upper)]
    BY <1>2, <1>5, ConcatProperties
  <2> QED  BY <1>2, <1>5, <2>1, <2>2
<1>8. InsertAt(s, p + 1, e) = t
  BY <1>3 DEF upper
<1> HIDE DEF t
<1>9. ASSUME NEW m \in 1 .. Len(s) + 1
      PROVE  t[m] = IF m <= p THEN s[m] ELSE IF m = p + 1 THEN e ELSE s[m - 1]
  <2>1. CASE m <= p + 1
    <3>1. t[m] = upper[m]
      <4>1. m \in 1 .. Len(upper) + Len(after) /\ m <= Len(upper)
        BY <1>2, <1>5, <1>7, <2>1
      <4> QED  BY <1>7, <4>1
    <3> QED  BY <1>6, <2>1, <3>1
  <2>2. CASE m > p + 1
    <3>1. t[m] = after[m - (p + 1)]
      BY <1>2, <1>5, <1>7, <2>2
    <3>2. m - (p + 1) \in 1 .. Len(s) - p /\ p + (m - (p + 1)) = m - 1
      BY <2>2
    <3>3. after[m - (p + 1)] = s[p + (m - (p + 1))]
      BY <1>2, <3>2
    <3> QED  BY <2>2, <3>1, <3>2, <3>3
  <2> QED  BY <1>7, <2>1, <2>2
<1> QED  BY <1>7, <1>9, <1>8 DEF Inserted
=============================================================================
