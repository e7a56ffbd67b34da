--------------------------- MODULE BoundedInduction ---------------------------
(***************************************************************************)
(* Induction over the naturals for the provers at hand. The library states *)
(* it with an operator parameter, which they cannot instantiate; here it   *)
(* is about sets, and rests on the least member of a well-founded relation.*)
(* RunExists gives a recursively defined function its value.               *)
(***************************************************************************)
EXTENDS Integers, TLAPS, WellFoundedInduction

(* The strict order of the naturals as a relation.                          *)
Less == {p \in Nat \X Nat : p[1] < p[2]}

(* It has no infinite descending chain.                                     *)
LEMMA LessWellFounded == IsWellFoundedOn(Less, Nat)
  <1>1. OpToRel(<, Nat) = Less
    BY Zenon DEF OpToRel, Less
  <1> QED BY <1>1, NatLessThanWellFounded, Zenon

(* A set of naturals that is not empty has a least member.                  *)
LEMMA Least ==
  ASSUME NEW T \in SUBSET Nat, T # {}
  PROVE  \E x \in T : \A y \in T : x <= y
  <1>1. PICK x \in T : \A y \in T : <<y, x>> \notin Less
    BY LessWellFounded, WFMin
  <1>2. \A y \in T : x <= y
    <2> TAKE y \in T
    <2>1. <<y, x>> \in Nat \X Nat OBVIOUS
    <2>2. ~(y < x) BY <1>1, <2>1 DEF Less
    <2> QED BY <2>2
  <1> QED BY <1>2

(* A set of naturals that holds 0 and every successor holds all of them.    *)
LEMMA Induction ==
  ASSUME NEW S \in SUBSET Nat, 0 \in S, \A n \in S : n + 1 \in S
  PROVE  S = Nat
  <1> SUFFICES ASSUME Nat \ S # {} PROVE FALSE OBVIOUS
  <1>1. PICK x \in Nat \ S : \A y \in Nat \ S : x <= y
    BY Least
  <1>2. x - 1 \in Nat /\ (x - 1) + 1 = x OBVIOUS
  <1>3. x - 1 \in S BY <1>1, <1>2
  <1> QED BY <1>2, <1>3

(* The same for a set of the numbers 0..n.                                  *)
LEMMA InductionUpTo ==
  ASSUME NEW n \in Nat, NEW T \in SUBSET (0..n),
         0 \in T, \A k \in 1..n : k - 1 \in T => k \in T
  PROVE  T = 0..n
  <1> DEFINE S == {k \in Nat : k <= n => k \in T}
  <1>1. 0 \in S OBVIOUS
  <1>2. ASSUME NEW k \in S PROVE k + 1 \in S
    <2> SUFFICES ASSUME k + 1 <= n PROVE k + 1 \in T OBVIOUS
    <2>1. k + 1 \in 1..n /\ (k + 1) - 1 = k OBVIOUS
    <2> QED BY <2>1
  <1>3. S \in SUBSET Nat OBVIOUS
  <1> HIDE DEF S
  <1>4. S = Nat BY <1>1, <1>2, <1>3, Induction
  <1>5. \A k \in 0..n : k \in S BY <1>4
  <1>6. \A k \in 0..n : k \in T BY <1>5 DEF S
  <1> QED BY <1>6

(* A recursion: G says what step k makes of the value so far.               *)
Steps(f, n, start, G) == f[0] = start /\ \A k \in 1..n : f[k] = G[<<k, f[k - 1]>>]

(* Some function with values in V follows the recursion for n steps.        *)
HasRun(V, n, start, G) == \E f \in [0..n -> V] : Steps(f, n, start, G)

(* Every recursion has such a function, however long.                       *)
LEMMA RunExists ==
  ASSUME NEW V, NEW m \in Nat, NEW start \in V, NEW G \in [(1..m) \X V -> V]
  PROVE  HasRun(V, m, start, G)
  <1> DEFINE T == {n \in 0..m : HasRun(V, n, start, G)}
  <1>1. HasRun(V, 0, start, G)
    <2> DEFINE f == [k \in 0..0 |-> start]
    <2>1. f \in [0..0 -> V] /\ f[0] = start OBVIOUS
    <2>2. Steps(f, 0, start, G) BY <2>1 DEF Steps
    <2> QED BY <2>1, <2>2 DEF HasRun
  <1>2. ASSUME NEW n \in Nat, n + 1 <= m, HasRun(V, n, start, G)
        PROVE  HasRun(V, n + 1, start, G)
    <2>1. PICK f \in [0..n -> V] : Steps(f, n, start, G) BY <1>2 DEF HasRun
    <2> DEFINE g == [k \in 0..(n + 1) |-> IF k = n + 1 THEN G[<<n + 1, f[n]>>] ELSE f[k]]
    <2>2. f[n] \in V OBVIOUS
    <2>3. <<n + 1, f[n]>> \in (1..m) \X V BY <1>2, <2>2
    <2>4. G[<<n + 1, f[n]>>] \in V BY <2>3
    <2>5. g \in [0..(n + 1) -> V] BY <2>4
    <2>6. g[0] = start BY <2>1 DEF Steps
    <2>7. ASSUME NEW k \in 1..(n + 1) PROVE g[k] = G[<<k, g[k - 1]>>]
      <3>1. CASE k = n + 1
        <4>1. g[k] = G[<<n + 1, f[n]>>] BY <3>1
        <4>2. g[k - 1] = f[n] BY <3>1
        <4> QED BY <4>1, <4>2, <3>1
      <3>2. CASE k # n + 1
        <4>1. k \in 1..n /\ g[k] = f[k] BY <3>2
        <4>2. g[k - 1] = f[k - 1] BY <3>2
        <4>3. f[k] = G[<<k, f[k - 1]>>] BY <2>1, <4>1 DEF Steps
        <4> QED BY <4>1, <4>2, <4>3
      <3> QED BY <3>1, <3>2
    <2> HIDE DEF g
    <2>8. Steps(g, n + 1, start, G) BY <2>6, <2>7 DEF Steps
    <2> QED BY <2>5, <2>8 DEF HasRun
  <1>3. 0 \in T BY <1>1
  <1>4. ASSUME NEW n \in 1..m, n - 1 \in T PROVE n \in T
    <2>1. n - 1 \in Nat /\ (n - 1) + 1 = n OBVIOUS
    <2>2. HasRun(V, n, start, G) BY <1>2, <1>4, <2>1
    <2> QED BY <2>2
  <1>5. T = 0..m BY <1>3, <1>4, InductionUpTo
  <1> QED BY <1>5

===============================================================================
