------------------------------ MODULE Induction ------------------------------
(***************************************************************************)
(* Induction and recursion over the natural numbers, with sets and         *)
(* functions where the theorems of NaturalsInduction have operators: what  *)
(* the proofs about the recursive functions of the models rest on.         *)
(***************************************************************************)
EXTENDS Integers, WellFoundedInduction, TLAPS

\* A set of natural numbers that is not empty has a least element.
THEOREM LeastElement ==
  ASSUME NEW T, T \subseteq Nat, T # {}
  PROVE  \E n \in T : \A m \in T : n <= m
  <1> DEFINE R == OpToRel(<, Nat)
  <1>1. IsWellFoundedOn(R, Nat)
    BY NatLessThanWellFounded
  <1>2. PICK n \in T : \A m \in T : ~(<<m, n>> \in R)
    BY <1>1, WFMin
  <1>3. \A m \in T : ~(m < n)
    BY <1>2 DEF OpToRel
  <1> QED BY <1>3

\* Induction up to a bound: what holds of 0 and of the next number below the
\* bound holds of all numbers to the bound.
THEOREM UpTo ==
  ASSUME NEW N \in Nat, NEW T, 0 \in T, \A k \in T : k \in 0..(N - 1) => k + 1 \in T
  PROVE  \A k \in 0..N : k \in T
  <1> DEFINE Bad == {k \in 0..N : k \notin T}
  <1> SUFFICES ASSUME Bad # {} PROVE FALSE
    OBVIOUS
  <1>1. Bad \subseteq Nat
    OBVIOUS
  <1>2. PICK n \in Bad : \A m \in Bad : n <= m
    BY <1>1, LeastElement
  <1>3. n \in 0..N /\ n \notin T
    BY <1>2
  <1>4. n \in 1..N
    BY <1>3
  <1>5. n - 1 \in 0..(N - 1) /\ n - 1 \in 0..N /\ ~(n <= n - 1) /\ (n - 1) + 1 = n
    BY <1>4
  <1>6. n - 1 \in T
    BY <1>2, <1>5
  <1>7. n \in T
    BY <1>5, <1>6
  <1> QED BY <1>3, <1>7

\* The rules that give the next value from a number to N and the value before
\* it, and the function from 0..N that begins with a and follows a rule.
Rule(N, S) == [1..N -> [S -> S]]

Follows(f, N, S, a, rule) ==
  f \in [0..N -> S] /\ f[0] = a /\ \A k \in 1..N : f[k] = rule[k][f[k - 1]]

\* Recursion up to a bound: such a function exists.
THEOREM Recursion ==
  ASSUME NEW N \in Nat, NEW S, NEW a \in S, NEW rule \in Rule(N, S)
  PROVE  \E f : Follows(f, N, S, a, rule)
  <1> USE DEF Rule, Follows
  <1> DEFINE Good(f, n) == f[0] = a /\ \A k \in 1..n : f[k] = rule[k][f[k - 1]]
             T == {n \in 0..N : \E f \in [0..N -> S] : Good(f, n)}
  <1>1. 0 \in T
    <2>1. Good([k \in 0..N |-> a], 0) /\ [k \in 0..N |-> a] \in [0..N -> S]
      OBVIOUS
    <2>2. 0 \in 0..N
      OBVIOUS
    <2> QED BY <2>1, <2>2
  <1>2. ASSUME NEW n \in T, n \in 0..(N - 1) PROVE n + 1 \in T
    <2>1. PICK f \in [0..N -> S] : Good(f, n)
      BY <1>2
    <2> DEFINE v == rule[n + 1][f[n]]
               g == [f EXCEPT ![n + 1] = v]
    <2>2. v \in S
      <3>1. f[n] \in S /\ n + 1 \in 1..N
        BY <1>2
      <3> QED BY <3>1
    <2>3. g \in [0..N -> S] /\ g[n + 1] = v /\ \A k \in 0..n : g[k] = f[k]
      BY <1>2, <2>2
    <2> HIDE DEF g
    <2>4. \A k \in 1..(n + 1) : g[k] = rule[k][g[k - 1]]
      <3> SUFFICES ASSUME NEW k \in 1..(n + 1) PROVE g[k] = rule[k][g[k - 1]]
        OBVIOUS
      <3>1. CASE k = n + 1
        <4>1. k - 1 = n /\ n \in 0..n
          BY <1>2, <3>1
        <4>2. g[k - 1] = f[n] /\ g[k] = rule[n + 1][f[n]]
          BY <2>3, <3>1, <4>1
        <4> QED BY <3>1, <4>2
      <3>2. CASE k \in 1..n
        BY <1>2, <2>1, <2>3, <3>2
      <3> QED BY <1>2, <3>1, <3>2
    <2>5. g[0] = a
      BY <1>2, <2>1, <2>3
    <2>6. n + 1 \in 0..N
      BY <1>2
    <2> QED BY <2>3, <2>4, <2>5, <2>6
  <1> HIDE DEF T
  <1>3. N \in T
    BY <1>1, <1>2, UpTo
  <1> QED BY <1>3 DEF T
=============================================================================
