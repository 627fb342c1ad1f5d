------------------------------- MODULE Counting -------------------------------
(***************************************************************************)
(* Least elements and induction for sets of natural numbers, and the count *)
(* of what a list names.  The theorems of the library that say so are      *)
(* about operators or second-order relations, which the provers here       *)
(* cannot instantiate; what follows is first-order, from the theorem that  *)
(* an injection of a finite set into itself is onto.                       *)
(***************************************************************************)
EXTENDS Integers, Sequences, FiniteSetsExt, FiniteSetTheorems, TLAPS

\* There is a least number in a set of numbers that has one: were there none, to
\* go down by one would map the numbers up to n that are above one of the set
\* into themselves, and miss n.
LEMMA Least ==
  ASSUME NEW S, S \subseteq Nat, S # {}
  PROVE  /\ Min(S) \in S /\ \A y \in S : Min(S) <= y
<1>1. SUFFICES ASSUME \A x \in S : \E y \in S : y < x
               PROVE  FALSE
  <2>1. CASE \E x \in S : \A y \in S : x <= y
    BY <2>1 DEF Min
  <2>2. CASE \A x \in S : \E y \in S : ~(x <= y)
    <3>1. \A x \in S : \E y \in S : y < x
      BY <2>2
    <3> QED
      BY <1>1, <3>1
  <2> QED
    BY <2>1, <2>2
<1>2. PICK n \in S : TRUE
  OBVIOUS
<1> DEFINE U == {m \in 0 .. n : \E x \in S : x <= m}
<1> DEFINE f == [m \in U |-> m - 1]
<1>3. n \in Nat /\ n \in U
  BY <1>2
<1>4. \A m \in U : m - 1 \in U
  <2> SUFFICES ASSUME NEW m \in U PROVE m - 1 \in U
    OBVIOUS
  <2>1. PICK x \in S : x <= m
    OBVIOUS
  <2>2. PICK y \in S : y < x
    BY <1>1
  <2>3. m \in Nat /\ x \in Nat /\ y \in Nat /\ m <= n
    BY <1>3
  <2>4. y <= m - 1 /\ m - 1 \in 0 .. n
    BY <1>3, <2>1, <2>2, <2>3
  <2> QED
    BY <2>4
<1>5. IsFiniteSet(U)
  <2>1. IsFiniteSet(0 .. n)
    BY <1>3, FS_Interval
  <2> QED
    BY <2>1, FS_Subset
<1>6. \A m \in U : m \in Nat /\ m <= n
  BY <1>3
<1>7. f \in Injection(U, U)
  BY <1>4, <1>6 DEF Injection, IsInjective
<1>8. f \in Surjection(U, U)
  <2> HIDE DEF U, f
  <2> QED
    BY <1>5, <1>7, FS_Injection
<1>9. PICK m \in U : f[m] = n
  BY <1>3, <1>8 DEF Surjection
<1> QED
  BY <1>3, <1>6, <1>9

\* What a set has of 0, and of n + 1 if it has it of n, it has of all numbers.
LEMMA NatInduct ==
  ASSUME NEW S, 0 \in S, \A n \in Nat : n \in S => n + 1 \in S
  PROVE  \A n \in Nat : n \in S
<1> DEFINE T == {n \in Nat : n \notin S}
<1>1. SUFFICES ASSUME T # {} PROVE FALSE
  OBVIOUS
<1>2. PICK m : m \in T /\ \A y \in T : m <= y
  <2>1. T \subseteq Nat
    OBVIOUS
  <2> HIDE DEF T
  <2> QED
    BY <1>1, <2>1, Least
<1>3. m # 0 /\ m \in Nat
  BY <1>2
<1>4. m - 1 \in Nat /\ m - 1 \notin T
  BY <1>2, <1>3
<1> QED
  BY <1>2, <1>3, <1>4

\* The first n entries of a list without repetition are n things.
LEMMA CountFirst ==
  ASSUME NEW T, NEW l \in Seq(T), NEW n \in 0 .. Len(l), NEW S,
         \A i, j \in 1 .. Len(l) : l[i] = l[j] => i = j,
         \A x : x \in S <=> \E i \in 1 .. n : x = l[i]
  PROVE  IsFiniteSet(S) /\ Cardinality(S) = n
<1>1. n \in Nat /\ 1 .. n \subseteq 1 .. Len(l)
  OBVIOUS
<1>2. S = {l[i] : i \in 1 .. n}
  OBVIOUS
<1>3. PICK f : f = [i \in 1 .. n |-> l[i]]
  OBVIOUS
<1>4. f \in Bijection(1 .. n, S)
  BY <1>1, <1>2, <1>3 DEF Bijection, Injection, Surjection, IsInjective
<1>5. Cardinality(S) = n
  BY <1>1, <1>4, FS_CountingElements DEF ExistsBijection
<1>6. IsFiniteSet(S)
  <2>1. IsFiniteSet(1 .. n)
    BY <1>1, FS_Interval
  <2> QED
    BY <1>4, <2>1, FS_Bijection DEF ExistsBijection
<1> QED
  BY <1>2, <1>5, <1>6
===============================================================================
