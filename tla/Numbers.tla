------------------------------ MODULE Numbers ------------------------------
(* What the proofs need to know of sets of numbers, and of the functions   *)
(* defined by recursion over them.                                         *)
EXTENDS Naturals, FiniteSetTheorems, WellFoundedInduction, TLAPS

(* A set of numbers has a least one.                                       *)
LEMMA Least ==
  ASSUME NEW S \in SUBSET Nat, S # {}
  PROVE  \E m \in S : \A x \in S : m <= x
  <1> DEFINE R == OpToRel(<, Nat)
  <1>1. IsWellFoundedOn(R, Nat)
    BY NatLessThanWellFounded
  <1>2. \A x, y \in Nat : x < y => <<x, y>> \in R
    BY DEF OpToRel
  <1> HIDE DEF R
  <1>3. PICK m \in S : \A x \in S : ~ (<<x, m>> \in R)
    BY <1>1, WFMin
  <1>4. ASSUME NEW x \in S PROVE m <= x
    <2>1. ~(x < m)
      BY <1>2, <1>3
    <2> QED BY <2>1
  <1> QED BY <1>4

(* A set of numbers with a bound has a greatest one.                       *)
LEMMA Greatest ==
  ASSUME NEW n \in Nat, NEW S \in SUBSET (1..n), S # {}
  PROVE  \E m \in S : \A x \in S : x <= m
  <1> DEFINE U == {b \in Nat : \A x \in S : x <= b}
  <1>1. n \in U
    OBVIOUS
  <1>2. PICK m \in U : \A b \in U : m <= b
    <2>1. U \in SUBSET Nat /\ U # {}
      BY <1>1
    <2> HIDE DEF U
    <2> QED BY <2>1, Least
  <1>3. m \in S
    <2> SUFFICES ASSUME m \notin S PROVE FALSE
      OBVIOUS
    <2>1. PICK x \in S : TRUE
      OBVIOUS
    <2>2. m \in Nat /\ x \in 1..n /\ x <= m
      BY <2>1
    <2>3. \A y \in S : y <= m - 1
      BY <2>2
    <2>4. m - 1 \in U
      BY <2>2, <2>3
    <2> QED BY <1>2, <2>2, <2>4
  <1> QED BY <1>2, <1>3

(* Induction up to n, for the numbers of a set.                            *)
LEMMA Climb ==
  ASSUME NEW n \in Nat, NEW S, 0 \in S,
         \A k \in 1..n : k - 1 \in S => k \in S
  PROVE  0..n \subseteq S
  <1> DEFINE Bad == {k \in 0..n : k \notin S}
  <1> SUFFICES ASSUME Bad # {} PROVE FALSE
    OBVIOUS
  <1>1. PICK k \in Bad : \A x \in Bad : k <= x
    <2>1. Bad \in SUBSET Nat
      OBVIOUS
    <2> HIDE DEF Bad
    <2> QED BY <2>1, Least
  <1>2. k \in 1..n /\ k - 1 \in 0..n /\ ~(k <= k - 1)
    BY <1>1
  <1>3. k - 1 \notin Bad
    BY <1>1, <1>2
  <1> QED BY <1>1, <1>2, <1>3

(* g starts at a, and each of its values up to n is a step from the last.  *)
Recurs(g, n, a, step) ==
  g = [i \in 0..n |-> IF i = 0 THEN a ELSE step[i][g[i - 1]]]

(* Steps that stay in a set can be taken one after the other.              *)
LEMMA Recursion ==
  ASSUME NEW n \in Nat, NEW T, NEW a \in T, NEW step \in [1..n -> [T -> T]]
  PROVE  \E g \in [0..n -> T] : Recurs(g, n, a, step)
  <1> DEFINE S == {k \in 0..n : \E g \in [0..k -> T] : Recurs(g, k, a, step)}
  <1>1. 0 \in S
    <2> DEFINE g == [i \in 0..0 |-> a]
    <2>1. g \in [0..0 -> T] /\ Recurs(g, 0, a, step)
      BY DEF Recurs
    <2> QED BY <2>1
  <1>2. ASSUME NEW k \in 1..n, k - 1 \in S
        PROVE  k \in S
    <2>1. k - 1 \in 0..n /\ k \in 0..n
      OBVIOUS
    <2>2. PICK h \in [0..(k - 1) -> T] : Recurs(h, k - 1, a, step)
      BY <1>2
    <2> DEFINE g == [i \in 0..k |-> IF i = k THEN step[k][h[k - 1]] ELSE h[i]]
    <2>3. g \in [0..k -> T]
      BY <2>1, <2>2
    <2>4. ASSUME NEW i \in 0..k
          PROVE  g[i] = IF i = 0 THEN a ELSE step[i][g[i - 1]]
      <3>1. CASE i = k
        BY <2>1, <3>1
      <3>2. CASE i # k
        <4>1. i \in 0..(k - 1) /\ g[i] = h[i]
          BY <2>1, <3>2
        <4>2. h[i] = IF i = 0 THEN a ELSE step[i][h[i - 1]]
          BY <2>2, <4>1 DEF Recurs
        <4>3. i # 0 => i - 1 \in 0..k /\ i - 1 # k /\ g[i - 1] = h[i - 1]
          BY <2>1, <4>1
        <4> QED BY <4>1, <4>2, <4>3
      <3> QED BY <3>1, <3>2
    <2>5. Recurs(g, k, a, step)
      BY <2>4 DEF Recurs
    <2> QED BY <2>1, <2>3, <2>5
  <1>3. 0..n \subseteq S
    <2> HIDE DEF S
    <2> QED BY <1>1, <1>2, Climb
  <1> QED BY <1>3

(* Recursion that starts at one.                                           *)
RecursFromOne(g, n, a, step) ==
  g = [i \in 1..n |-> IF i = 1 THEN a ELSE step[i - 1][g[i - 1]]]

LEMMA RecursionFromOne ==
  ASSUME NEW n \in Nat \ {0}, NEW T, NEW a \in T, NEW step \in [1..(n - 1) -> [T -> T]]
  PROVE  \E g \in [1..n -> T] : RecursFromOne(g, n, a, step)
  <1>1. PICK h \in [0..(n - 1) -> T] : Recurs(h, n - 1, a, step)
    BY Recursion
  <1> DEFINE g == [i \in 1..n |-> h[i - 1]]
  <1>2. \A i \in 1..n : i - 1 \in 0..(n - 1)
    OBVIOUS
  <1>3. g \in [1..n -> T]
    BY <1>1, <1>2
  <1>4. ASSUME NEW i \in 1..n
        PROVE  g[i] = IF i = 1 THEN a ELSE step[i - 1][g[i - 1]]
    <2>1. g[i] = IF i - 1 = 0 THEN a ELSE step[i - 1][h[(i - 1) - 1]]
      BY <1>1, <1>2 DEF Recurs
    <2>2. i # 1 => i - 1 \in 1..n /\ g[i - 1] = h[(i - 1) - 1]
      OBVIOUS
    <2>3. i - 1 = 0 <=> i = 1
      OBVIOUS
    <2> HIDE DEF g
    <2> QED BY <2>1, <2>2, <2>3
  <1>5. g = [i \in 1..n |-> IF i = 1 THEN a ELSE step[i - 1][g[i - 1]]]
    <2>1. g = [i \in 1..n |-> g[i]]
      OBVIOUS
    <2> HIDE DEF g
    <2> QED BY <1>4, <2>1
  <1> QED BY <1>3, <1>5 DEF RecursFromOne

(* Powers of two, up to the n-th.                                          *)
Powers(p, n) ==
  p \in [0..n -> Nat] /\ p[0] = 1 /\ \A k \in 1..n : p[k] = 2 * p[k - 1]

LEMMA PowersExist ==
  ASSUME NEW n \in Nat
  PROVE  \E p : Powers(p, n)
  <1> DEFINE step == [k \in 1..n |-> [v \in Nat |-> 2 * v]]
  <1>1. step \in [1..n -> [Nat -> Nat]]
    OBVIOUS
  <1>2. PICK p \in [0..n -> Nat] : Recurs(p, n, 1, step)
    <2> HIDE DEF step
    <2> QED BY <1>1, Recursion
  <1>3. p[0] = 1
    BY <1>2 DEF Recurs
  <1>4. ASSUME NEW k \in 1..n PROVE p[k] = 2 * p[k - 1]
    <2>1. k \in 0..n /\ k # 0 /\ k - 1 \in 0..n
      OBVIOUS
    <2>2. p[k] = step[k][p[k - 1]]
      <3> HIDE DEF step
      <3> QED BY <1>2, <2>1 DEF Recurs
    <2> QED BY <1>2, <2>1, <2>2
  <1> QED BY <1>2, <1>3, <1>4 DEF Powers

(* Each is at least twice the ones before, and more than its exponent.     *)
LEMMA PowersClimb ==
  ASSUME NEW n \in Nat, NEW p, Powers(p, n), NEW j \in 0..n
  PROVE  p[j] >= j + 1 /\ \A i \in 0..(j - 1) : p[j] >= 2 * p[i]
  <1> DEFINE S == {k \in 0..n : p[k] >= k + 1 /\ \A i \in 0..(k - 1) : p[k] >= 2 * p[i]}
  <1>1. 0 \in S
    BY DEF Powers
  <1>2. ASSUME NEW k \in 1..n, k - 1 \in S PROVE k \in S
    <2>1. /\ k \in 0..n /\ k - 1 \in 0..n /\ p[k] = 2 * p[k - 1] /\ p[k] \in Nat
          /\ p[k - 1] \in Nat
      BY DEF Powers
    <2>2. p[k - 1] >= k
      BY <1>2
    <2>3. ASSUME NEW i \in 0..(k - 1) PROVE p[k] >= 2 * p[i]
      <3>1. CASE i = k - 1
        BY <2>1, <3>1
      <3>2. CASE i # k - 1
        <4>1. i \in 0..((k - 1) - 1) /\ i \in 0..n /\ p[i] \in Nat
          BY <3>2 DEF Powers
        <4>2. p[k - 1] >= 2 * p[i]
          BY <1>2, <4>1
        <4> QED BY <2>1, <4>1, <4>2
      <3> QED BY <3>1, <3>2
    <2> QED BY <2>1, <2>2, <2>3
  <1>3. 0..n \subseteq S
    <2> HIDE DEF S
    <2> QED BY <1>1, <1>2, Climb
  <1> QED BY <1>3
=============================================================================
