---------------------------- MODULE NatRecursion ----------------------------
(***************************************************************************)
(* Induction over the natural numbers, and functions defined by recursion  *)
(* over them, in a form that first-order provers can use: the property of  *)
(* an induction is a set of numbers, the step of a recursion a parameter   *)
(* of this module, to be given in an INSTANCE.                             *)
(***************************************************************************)
EXTENDS Naturals

CONSTANT Step(_, _)   \* the value for n from that for n - 1, and n

Rec[n \in Nat] == Step(Rec[n - 1], n)

(* A set that has 0, and with every number the next one, has them all.     *)
InductionHolds ==
    \A S : 0 \in S /\ (\A n \in Nat : n \in S => n + 1 \in S) => \A n \in Nat : n \in S

(* The value for 0 depends on no other. *)
Starts == \A v, w : Step(v, 0) = Step(w, 0)

-----------------------------------------------------------------------------
(* A function that follows the recursion up to n. *)
Follows(g, n) == g = [i \in 0..n |-> Step(g[i - 1], i)]

(* There is one for every n: the next one has one more value. *)
LEMMA FollowsExists ==
    ASSUME InductionHolds, Starts
    PROVE  \A n \in Nat : \E g : Follows(g, n)
<1> DEFINE S == {n \in Nat : \E g : Follows(g, n)}
<1>1. 0 \in S
  <2> DEFINE g == [i \in 0..0 |-> Step(0, 0)]
  <2>1. g = [i \in 0..0 |-> Step(g[i - 1], i)]
    <3>1. \A i \in 0..0 : Step(g[i - 1], i) = Step(0, 0)
      <4> SUFFICES ASSUME NEW i \in 0..0
                   PROVE  Step(g[i - 1], i) = Step(0, 0)
          OBVIOUS
      <4>1. i = 0
          OBVIOUS
      <4> HIDE DEF g
      <4> QED BY <4>1 DEF Starts
    <3> QED BY <3>1
  <2>2. Follows(g, 0)
      BY <2>1 DEF Follows
  <2> QED BY <2>2
<1>2. ASSUME NEW n \in Nat, n \in S
      PROVE  n + 1 \in S
  <2>1. PICK g : Follows(g, n)
      BY <1>2
  <2> DEFINE h == [i \in 0..(n + 1) |-> IF i = n + 1 THEN Step(g[n], n + 1) ELSE g[i]]
  <2>2. ASSUME NEW i \in 0..(n + 1)
        PROVE  h[i] = Step(h[i - 1], i)
    <3>1. CASE i = n + 1
        BY <3>1
    <3>2. CASE i # n + 1
      <4>1. i \in 0..n
          BY <3>2
      <4>2. g[i] = Step(g[i - 1], i)
          BY <4>1, <2>1 DEF Follows
      <4>3. CASE i = 0
        <5>1. Step(g[i - 1], i) = Step(h[i - 1], i)
          <6> HIDE DEF h
          <6> QED BY <4>3 DEF Starts
        <5> QED BY <4>1, <4>2, <3>2, <5>1
      <4>4. CASE i # 0
        <5>1. i - 1 \in 0..(n + 1) /\ i - 1 # n + 1
            BY <4>1, <4>4
        <5> QED BY <4>1, <4>2, <5>1, <3>2
      <4> QED BY <4>3, <4>4
    <3> QED BY <3>1, <3>2
  <2>3. h = [i \in 0..(n + 1) |-> h[i]]
      OBVIOUS
  <2> HIDE DEF h
  <2>4. h = [i \in 0..(n + 1) |-> Step(h[i - 1], i)]
      BY <2>2, <2>3
  <2>5. Follows(h, n + 1)
      BY <2>4 DEF Follows
  <2> QED BY <2>5
<1> HIDE DEF S
<1>3. \A n \in Nat : n \in S
    BY <1>1, <1>2 DEF InductionHolds
<1> QED BY <1>3 DEF S

(* Two of them agree as far as both go. *)
LEMMA FollowsUnique ==
    ASSUME InductionHolds, Starts,
           NEW m \in Nat, NEW g, Follows(g, m), NEW n \in Nat, NEW h, Follows(h, n)
    PROVE  \A i \in Nat : i <= m /\ i <= n => g[i] = h[i]
<1> DEFINE S == {i \in Nat : i <= m /\ i <= n => g[i] = h[i]}
<1>1. 0 \in S
  <2>1. g[0] = Step(g[0 - 1], 0)
      BY DEF Follows
  <2>2. h[0] = Step(h[0 - 1], 0)
      BY DEF Follows
  <2>3. g[0] = h[0]
      BY <2>1, <2>2 DEF Starts
  <2> QED BY <2>3
<1>2. ASSUME NEW i \in Nat, i \in S
      PROVE  i + 1 \in S
  <2> SUFFICES ASSUME i + 1 <= m, i + 1 <= n
               PROVE  g[i + 1] = h[i + 1]
      OBVIOUS
  <2>1. i + 1 \in 0..m /\ i + 1 \in 0..n /\ (i + 1) - 1 = i
      OBVIOUS
  <2>2. g[i + 1] = Step(g[i], i + 1)
      BY <2>1 DEF Follows
  <2>3. h[i + 1] = Step(h[i], i + 1)
      BY <2>1 DEF Follows
  <2>4. g[i] = h[i]
      BY <1>2
  <2> QED BY <2>2, <2>3, <2>4
<1> HIDE DEF S
<1>3. \A i \in Nat : i \in S
    BY <1>1, <1>2 DEF InductionHolds
<1> QED BY <1>3 DEF S

(* The function that the recursion defines follows it, if its value for 0  *)
(* depends on no other.                                                    *)
THEOREM Recursion ==
    ASSUME InductionHolds, Starts
    PROVE  \A n \in Nat : Rec[n] = Step(Rec[n - 1], n)
<1> DEFINE G == [n \in Nat |-> (CHOOSE g : Follows(g, n))[n]]
<1>1. ASSUME NEW n \in Nat
      PROVE  G[n] = Step(G[n - 1], n)
  <2> DEFINE g == CHOOSE g : Follows(g, n)
  <2>1. Follows(g, n) /\ G[n] = g[n]
      BY FollowsExists
  <2> HIDE DEF g
  <2>2. g[n] = Step(g[n - 1], n)
      BY <2>1 DEF Follows
  <2>3. CASE n = 0
    <3> HIDE DEF G
    <3> QED BY <2>1, <2>2, <2>3 DEF Starts
  <2>4. CASE n # 0
    <3> DEFINE h == CHOOSE h : Follows(h, n - 1)
    <3>1. Follows(h, n - 1) /\ G[n - 1] = h[n - 1]
        BY <2>4, FollowsExists
    <3> HIDE DEF h, G
    <3>2. h[n - 1] = g[n - 1]
        BY <3>1, <2>1, FollowsUnique, <2>4
    <3> QED BY <3>1, <3>2, <2>1, <2>2
  <2> QED BY <2>3, <2>4
<1>2. G = [n \in Nat |-> G[n]]
    OBVIOUS
<1> HIDE DEF G
<1>3. G = [n \in Nat |-> Step(G[n - 1], n)]
    BY <1>1, <1>2
<1>4. Rec = [n \in Nat |-> Step(Rec[n - 1], n)]
    BY <1>3 DEF Rec
<1> QED BY <1>4
=============================================================================
