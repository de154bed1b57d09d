------------------------------ MODULE Recursion ------------------------------
(***************************************************************************)
(* Induction on numbers for the proof modules, and what it gives about     *)
(* functions that are defined by recursion.  A fact that fails for some    *)
(* number fails for a least one, and that least one is refuted.            *)
(***************************************************************************)
EXTENDS Integers, WellFoundedInduction, TLAPS

(* A nonempty set of numbers has a least one. *)
LEMMA LeastNumber ==
  ASSUME NEW S \in SUBSET Nat, S # {}
  PROVE  \E k \in S : \A m \in S : k <= m
<1> DEFINE Less == OpToRel(<, Nat)
<1>1. \A x, y \in Nat : <<x, y>> \in Less <=> x < y
  BY DEF OpToRel
<1>2. PICK k \in S : \A m \in S : ~ (<<m, k>> \in Less)
  BY NatLessThanWellFounded, WFMin
<1> HIDE DEF Less
<1>3. \A m \in S : k <= m
  <2> SUFFICES ASSUME NEW m \in S PROVE k <= m
    OBVIOUS
  <2>1. k \in Nat /\ m \in Nat
    OBVIOUS
  <2>2. ~ (m < k)
    BY <2>1, <1>1, <1>2
  <2> QED BY <2>1, <2>2
<1> QED BY <1>3

(* A set of numbers up to a bound has a greatest one. *)
LEMMA Greatest ==
  ASSUME NEW n \in Nat, NEW S \in SUBSET (1 .. n), S # {}
  PROVE  \E k \in S : \A m \in S : m <= k
<1> DEFINE Left == {l \in Nat : n - l \in S}
<1>1. PICK k \in S : TRUE
  OBVIOUS
<1>2. Left # {} /\ Left \subseteq Nat
  <2>1. n - k \in Nat /\ n - (n - k) = k
    OBVIOUS
  <2> QED BY <2>1
<1>3. PICK l \in Left : \A m \in Left : l <= m
  <2> HIDE DEF Left
  <2> QED BY <1>2, LeastNumber
<1>4. \A m \in S : m <= n - l
  <2> SUFFICES ASSUME NEW m \in S PROVE m <= n - l
    OBVIOUS
  <2>1. n - m \in Nat /\ n - (n - m) = m
    OBVIOUS
  <2>2. n - m \in Left
    BY <2>1
  <2> QED BY <2>2, <1>3
<1> QED BY <1>3, <1>4

(* A value that is changed n times: the values in between exist, and each comes from
   the one before. *)
Iterated(g, n, X, x, F) ==
  g \in [0..n -> X] /\ g[0] = x /\ \A i \in 1..n : g[i] = F[i][g[i - 1]]

(* There is such a sequence of values. *)
LEMMA Iterates ==
  ASSUME NEW n \in Nat, NEW X, NEW x \in X, NEW F \in [1..n -> [X -> X]]
  PROVE  \E g : Iterated(g, n, X, x, F)
<1> DEFINE Good(m) == \E g \in [0..m -> X] : g[0] = x /\ \A i \in 1..m : g[i] = F[i][g[i - 1]]
           Bad == {m \in 0..n : ~ Good(m)}
<1>1. Good(0)
  <2> DEFINE g == [i \in 0..0 |-> x]
  <2>1. g \in [0..0 -> X] /\ g[0] = x
    OBVIOUS
  <2>2. \A i \in 1..0 : g[i] = F[i][g[i - 1]]
    OBVIOUS
  <2> HIDE DEF g
  <2> QED BY <2>1, <2>2
<1>2. ASSUME NEW m \in 0..(n - 1), Good(m) PROVE Good(m + 1)
  <2>1. PICK g \in [0..m -> X] : g[0] = x /\ \A i \in 1..m : g[i] = F[i][g[i - 1]]
    BY <1>2
  <2>0. m + 1 \in 1..n /\ m \in Nat
    OBVIOUS
  <2> DEFINE h == [i \in 0..(m + 1) |-> IF i = m + 1 THEN F[m + 1][g[m]] ELSE g[i]]
  <2>2. h \in [0..(m + 1) -> X]
    <3>1. F[m + 1][g[m]] \in X
      <4>1. g[m] \in X /\ F[m + 1] \in [X -> X]
        BY <2>0, <2>1
      <4> QED BY <4>1
    <3>2. \A i \in 0..(m + 1) : i # m + 1 => i \in 0..m
      BY <2>0
    <3> QED BY <3>1, <3>2, <2>1
  <2>3. h[0] = x
    BY <2>0, <2>1
  <2>4. ASSUME NEW i \in 1..(m + 1) PROVE h[i] = F[i][h[i - 1]]
    <3>1. i - 1 \in 0..(m + 1) /\ i - 1 # m + 1 /\ i \in 0..(m + 1)
      BY <2>0
    <3>2. h[i - 1] = g[i - 1]
      BY <3>1
    <3>3. CASE i = m + 1
      BY <3>1, <3>2, <3>3, <2>0
    <3>4. CASE i # m + 1
      <4>1. i \in 1..m /\ h[i] = g[i]
        BY <3>1, <3>4, <2>0
      <4> QED BY <4>1, <3>2, <2>1
    <3> QED BY <3>3, <3>4
  <2> HIDE DEF h
  <2> QED BY <2>2, <2>3, <2>4
<1>3. Bad = {}
  <2> SUFFICES ASSUME Bad # {} PROVE FALSE
    OBVIOUS
  <2>1. PICK k \in Bad : \A m \in Bad : k <= m
    <3> HIDE DEF Good
    <3>1. Bad \in SUBSET Nat
      OBVIOUS
    <3> HIDE DEF Bad
    <3> QED BY <3>1, LeastNumber
  <2> HIDE DEF Good
  <2>2. k \in 0..n /\ k # 0 /\ ~ Good(k)
    BY <2>1, <1>1
  <2>3. k - 1 \in 0..(n - 1) /\ k - 1 \in 0..n /\ ~ (k <= k - 1) /\ (k - 1) + 1 = k
    BY <2>2
  <2>4. Good(k - 1)
    BY <2>1, <2>3
  <2> QED BY <2>2, <2>3, <2>4, <1>2
<1> HIDE DEF Good
<1>4. Good(n)
  BY <1>3
<1> QED BY <1>4 DEF Good, Iterated
=============================================================================
