------------------------- MODULE RecursionTheorems -------------------------
(* Induction over a set of numbers, and that a recursive function over the    *)
(* numbers up to a bound exists: what the proofs about counts over sequences  *)
(* (the pool's cached characters, the artifact store's quotas) stand on.      *)
EXTENDS Integers, WellFoundedInduction, TLAPS

\* A nonempty set of numbers has a least one.
LEMMA LeastNumber ==
  ASSUME NEW S \in SUBSET Nat, S # {}
  PROVE  \E n \in S : \A m \in S : n <= m
<1> DEFINE R == OpToRel(<, Nat)
<1>1. R = {p \in Nat \X Nat : p[1] < p[2]}
  BY DEF OpToRel
<1>2. IsWellFoundedOn(R, Nat)
  BY NatLessThanWellFounded
<1> HIDE DEF R
<1>3. PICK x \in S : \A y \in S : ~ (<<y, x>> \in R)
  BY <1>2, WFMin
<1>4. ASSUME NEW y \in S PROVE x <= y
  <2>1. ~(y < x)
    BY <1>1, <1>3
  <2> QED BY <2>1
<1> QED BY <1>4

\* Induction over a set of numbers.
LEMMA NumbersInduction ==
  ASSUME NEW S, 0 \in S, \A n \in Nat : n \in S => n + 1 \in S
  PROVE  \A n \in Nat : n \in S
<1>1. SUFFICES ASSUME NEW T, T = Nat \ S, T # {} PROVE FALSE
  OBVIOUS
<1>2. PICK x \in T : \A y \in T : x <= y
  BY <1>1, LeastNumber
<1>3. x \in Nat /\ x # 0
  BY <1>1, <1>2
<1>4. x - 1 \in Nat /\ x - 1 \notin T
  BY <1>1, <1>2, <1>3
<1> QED BY <1>1, <1>2, <1>3, <1>4

\* f is the function on 0..N that begins with base and goes on by G: the shape of
\* the recursive functions that count a sequence's entries or keep some of them.
Follows(f, N, S, base, G) ==
  f \in [0..N -> S] /\ f[0] = base /\ \A n \in 1..N : f[n] = G[<<n, f[n - 1]>>]

\* Such a function exists for every step function and bound.
LEMMA RecursionExists ==
  ASSUME NEW N \in Nat, NEW S, NEW base \in S, NEW G \in [(1..N) \X S -> S]
  PROVE  \E f : Follows(f, N, S, base, G)
<1> DEFINE Good == {m \in Nat : m <= N => \E f : Follows(f, m, S, base, G)}
<1>1. 0 \in Good
  <2>1. Follows([n \in 0..0 |-> base], 0, S, base, G)
    BY DEF Follows
  <2> QED BY <2>1
<1>2. ASSUME NEW m \in Nat, m \in Good PROVE m + 1 \in Good
  <2>1. SUFFICES ASSUME m + 1 <= N PROVE \E f : Follows(f, m + 1, S, base, G)
    OBVIOUS
  <2>2. PICK f : Follows(f, m, S, base, G)
    BY <1>2, <2>1
  <2> DEFINE next == G[<<m + 1, f[m]>>]
             g == [n \in 0..(m + 1) |-> IF n = m + 1 THEN next ELSE f[n]]
  <2>3. next \in S
    BY <2>1, <2>2 DEF Follows
  <2>4. g \in [0..(m + 1) -> S] /\ g[0] = base /\ g[m + 1] = next /\ \A n \in 0..m : g[n] = f[n]
    BY <2>2, <2>3 DEF Follows
  <2>5. ASSUME NEW n \in 1..(m + 1) PROVE g[n] = G[<<n, g[n - 1]>>]
    <3> HIDE DEF g
    <3>1. CASE n = m + 1
      <4>1. n - 1 = m /\ m \in 0..m
        BY <3>1
      <4> QED BY <3>1, <2>4, <4>1
    <3>2. CASE n # m + 1
      <4>1. n \in 1..m /\ n \in 0..m /\ n - 1 \in 0..m
        BY <3>2
      <4> QED BY <4>1, <2>2, <2>4 DEF Follows
    <3> QED BY <3>1, <3>2
  <2> HIDE DEF g
  <2>6. Follows(g, m + 1, S, base, G)
    BY <2>4, <2>5 DEF Follows
  <2> QED BY <2>6
<1> HIDE DEF Good
<1>3. \A m \in Nat : m \in Good
  BY <1>1, <1>2, NumbersInduction
<1> QED BY <1>3 DEF Good
=============================================================================
