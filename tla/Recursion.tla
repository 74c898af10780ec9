----------------------------- MODULE Recursion -----------------------------
(***************************************************************************)
(* Induction over the natural numbers, and functions defined by recursion  *)
(* on them, as facts about sets and functions: a recursion of n steps in   *)
(* a set S, from x, where step[<<k, v>>] is what the k-th step makes of v. *)
(***************************************************************************)
EXTENDS Integers, WellFoundedInduction, TLAPS

(* A set of numbers has a least one.                                       *)
LEMMA LeastExists ==
  ASSUME NEW T, T \subseteq Nat, T # {}
  PROVE  \E least \in T : \A n \in T : least <= n
<1>1. PICK least \in T : \A n \in T : ~ (<<n, least>> \in OpToRel(<, Nat))
  BY NatLessThanWellFounded, WFMin
<1>2. \A n \in T : ~ (n < least)
  BY <1>1 DEF OpToRel
<1> QED
  BY <1>2

(* A set with 0 and the successor of each of its numbers has them all.     *)
LEMMA NatSetInduction ==
  ASSUME NEW T, 0 \in T, \A n \in Nat : n \in T => n + 1 \in T
  PROVE  \A n \in Nat : n \in T
<1> DEFINE Missing == {n \in Nat : n \notin T}
<1> SUFFICES ASSUME Missing # {} PROVE FALSE
  OBVIOUS
<1>1. PICK least \in Missing : \A n \in Missing : least <= n
  BY LeastExists
<1>2. least \in Nat /\ least # 0 /\ least - 1 \in Nat /\ least = (least - 1) + 1
  BY <1>1
<1>3. least - 1 \in T
  BY <1>1, <1>2
<1> QED
  BY <1>1, <1>2, <1>3

(* f is the course of the recursion.                                       *)
Course(f, n, x, step) ==
  f[0] = x /\ \A k \in 1 .. n : f[k] = step[<<k, f[k - 1]>>]

(* It exists, and never leaves S.                                          *)
LEMMA CourseExists ==
  ASSUME NEW S, NEW x \in S, NEW n \in Nat,
         NEW step, \A k \in 1 .. n, v \in S : step[<<k, v>>] \in S
  PROVE  \E f \in [0 .. n -> S] : Course(f, n, x, step)
<1> DEFINE T == {m \in Nat : m <= n => \E f \in [0 .. m -> S] : Course(f, m, x, step)}
<1>1. 0 \in T
  <2> DEFINE f == [k \in 0 .. 0 |-> x]
  <2>1. f \in [0 .. 0 -> S] /\ Course(f, 0, x, step)
    BY DEF Course
  <2> QED
    BY <2>1
<1>2. ASSUME NEW m \in Nat, m \in T
      PROVE  m + 1 \in T
  <2> SUFFICES ASSUME m + 1 <= n
               PROVE  \E f \in [0 .. m + 1 -> S] : Course(f, m + 1, x, step)
    OBVIOUS
  <2>1. PICK f \in [0 .. m -> S] : Course(f, m, x, step)
    BY <1>2
  <2> DEFINE g == [k \in 0 .. m + 1 |-> IF k <= m THEN f[k]
                                        ELSE step[<<m + 1, f[m]>>]]
  <2>2. m + 1 \in 1 .. n /\ f[m] \in S
    BY <2>1
  <2>3. step[<<m + 1, f[m]>>] \in S
    BY <2>2
  <2>4. g \in [0 .. m + 1 -> S]
    BY <2>1, <2>3
  <2>5. g[0] = x
    BY <2>1 DEF Course
  <2>6. ASSUME NEW k \in 1 .. m + 1
        PROVE  g[k] = step[<<k, g[k - 1]>>]
    <3>1. CASE k = m + 1
      BY <3>1
    <3>2. CASE k \in 1 .. m
      <4>1. g[k] = f[k] /\ g[k - 1] = f[k - 1]
        BY <3>2
      <4> QED
        BY <2>1, <3>2, <4>1 DEF Course
    <3> QED
      BY <3>1, <3>2
  <2>7. Course(g, m + 1, x, step)
    BY <2>5, <2>6 DEF Course
  <2> QED
    BY <2>4, <2>7
<1> HIDE DEF T
<1>3. n \in T
  BY <1>1, <1>2, NatSetInduction
<1> QED
  BY <1>3 DEF T

=============================================================================
