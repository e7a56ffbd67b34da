-------------------------- MODULE WorkspacePlanProofs --------------------------
(***************************************************************************)
(* The properties of WorkspacePlan for every width of size_t and every     *)
(* number of nodes, arenas and execs: first the arithmetic of one          *)
(* reservation, then the sum of all of them, the references to an arena,   *)
(* one lemma per call, and the theorems.                                   *)
(***************************************************************************)
EXTENDS WorkspacePlan, BoundedInduction, FiniteSetTheorems

(* The next multiple of an alignment, in unbounded arithmetic.              *)
NextMultiple(value, a) == ((value + a - 1) \div a) * a

(* It is a multiple, and the value or less than one alignment behind it.    *)
LEMMA NextMultipleBounds ==
  ASSUME NEW value \in Nat, NEW a \in Nat \ {0}
  PROVE  /\ NextMultiple(value, a) \in Nat /\ value <= NextMultiple(value, a)
         /\ NextMultiple(value, a) <= value + a - 1 /\ NextMultiple(value, a) % a = 0
  <1> DEFINE x == value + a - 1
             q == x \div a
  <1>1. x \in Nat OBVIOUS
  <1>2. q \in Nat /\ q * a <= x /\ x < (q + 1) * a BY <1>1
  <1> HIDE DEF q
  <1>3. q * a \in Nat BY <1>2
  <1>4. (q + 1) * a = q * a + a BY <1>2
  <1>5. value <= q * a /\ q * a <= value + a - 1 BY <1>2, <1>3, <1>4
  <1>6. (q * a) % a = 0 BY <1>2
  <1>7. NextMultiple(value, a) = q * a BY DEF NextMultiple, q
  <1> QED BY <1>3, <1>5, <1>6, <1>7

(* mg_align_up_size, when it does not refuse, is the next multiple, and it  *)
(* refuses only when size_t cannot hold that: the alignment divides the     *)
(* first number behind SIZE_MAX.                                            *)
LEMMA AlignUpExact ==
  ASSUME NEW value \in 0..SizeMax, NEW a \in Alignments
  PROVE  /\ ~AlignOverflows(value, a) =>
              AlignUp(value, a) = NextMultiple(value, a) /\ AlignUp(value, a) <= SizeMax
         /\ AlignOverflows(value, a) => NextMultiple(value, a) > SizeMax
  <1>1. SizeMax \in Nat /\ a \in 1..SizeMax /\ (SizeMax + 1) % a = 0
    BY SizesAssumption
  <1>2. a \in Nat \ {0} /\ value \in Nat BY <1>1
  <1>3. CASE ~AlignOverflows(value, a)
    <2>1. value + (a - 1) <= SizeMax BY <1>1, <1>2, <1>3 DEF AlignOverflows
    <2>2. (value + (a - 1)) % (SizeMax + 1) = value + a - 1 BY <1>1, <1>2, <2>1
    <2>3. AlignUp(value, a) = NextMultiple(value, a) BY <2>2 DEF AlignUp, NextMultiple
    <2>4. NextMultiple(value, a) <= SizeMax BY <1>1, <1>2, <2>1, NextMultipleBounds
    <2> QED BY <1>3, <2>3, <2>4
  <1>4. CASE AlignOverflows(value, a)
    <2> DEFINE m == (SizeMax + 1) \div a
               q == (value + a - 1) \div a
    <2>1. m \in Nat /\ m * a = SizeMax + 1 BY <1>1, <1>2
    <2>2. value + a - 1 >= SizeMax + 1 BY <1>1, <1>2, <1>4 DEF AlignOverflows
    <2>3. q \in Nat /\ value + a - 1 < (q + 1) * a BY <1>2
    <2> HIDE DEF m, q
    <2>4. m * a < (q + 1) * a BY <2>1, <2>2, <2>3, <1>1, <1>2
    <2>5. q + 1 <= m => (q + 1) * a <= m * a BY <1>2, <2>1, <2>3
    <2>6. m <= q BY <1>2, <2>1, <2>3, <2>4, <2>5
    <2>7. m * a <= q * a BY <1>2, <2>1, <2>3, <2>6
    <2>8. NextMultiple(value, a) = q * a BY DEF NextMultiple, q
    <2> QED BY <1>1, <1>2, <1>4, <2>1, <2>3, <2>7, <2>8
  <1> QED BY <1>3, <1>4

(* Sizes and alignments are positive.                                       *)
LEMMA NodeBounds ==
  ASSUME NEW n \in WorkspaceNode
  PROVE  /\ n.size \in 1..SizeMax /\ n.alignment \in Alignments /\ n.alignment \in 1..SizeMax
         /\ n.size \in Nat \ {0} /\ n.alignment \in Nat \ {0}
  <1>1. n.size \in 1..SizeMax /\ n.alignment \in Alignments BY DEF WorkspaceNode
  <1>2. n.alignment \in 1..SizeMax BY <1>1, SizesAssumption
  <1>3. SizeMax \in Nat BY SizesAssumption
  <1> QED BY <1>1, <1>2, <1>3

(* The sum follows its recursion, and never falls.                          *)
LEMMA UpToRun ==
  ASSUME NEW ns \in Seq(WorkspaceNode)
  PROVE  /\ UpTo(ns) \in [0..Len(ns) -> Nat] /\ UpTo(ns)[0] = 0
         /\ \A k \in 1..Len(ns) :
               UpTo(ns)[k] = NextMultiple(UpTo(ns)[k - 1], ns[k].alignment) + ns[k].size
  <1> DEFINE n == Len(ns)
             next(k, x) == NextMultiple(x, ns[k].alignment) + ns[k].size
             G == [p \in (1..n) \X Nat |-> next(p[1], p[2])]
             e[k \in 0..n] == IF k = 0 THEN 0
                              ELSE ((e[k - 1] + ns[k].alignment - 1) \div ns[k].alignment)
                                     * ns[k].alignment + ns[k].size
  <1>1. n \in Nat OBVIOUS
  <1>2. ASSUME NEW k \in 1..n, NEW x \in Nat PROVE next(k, x) \in Nat
    <2>1. ns[k] \in WorkspaceNode OBVIOUS
    <2>2. ns[k].size \in Nat /\ ns[k].alignment \in Nat \ {0} BY <2>1, NodeBounds
    <2>3. NextMultiple(x, ns[k].alignment) \in Nat BY <2>2, NextMultipleBounds
    <2> QED BY <2>2, <2>3
  <1>3. G \in [(1..n) \X Nat -> Nat] BY <1>2
  <1>4. PICK f \in [0..n -> Nat] : Steps(f, n, 0, G) BY <1>1, <1>3, RunExists DEF HasRun
  <1>5. ASSUME NEW k \in 1..n PROVE f[k] = next(k, f[k - 1])
    <2>1. f[k - 1] \in Nat BY <1>1
    <2>2. <<k, f[k - 1]>> \in (1..n) \X Nat BY <2>1
    <2>3. G[<<k, f[k - 1]>>] = next(k, f[k - 1]) BY <2>2
    <2> QED BY <2>3, <1>4 DEF Steps
  <1>6. f[0] = 0 BY <1>4 DEF Steps
  <1> HIDE DEF G
  <1>7. f = [k \in 0..n |-> IF k = 0 THEN 0
                            ELSE ((f[k - 1] + ns[k].alignment - 1) \div ns[k].alignment)
                                   * ns[k].alignment + ns[k].size]
    <2> DEFINE g == [k \in 0..n |-> IF k = 0 THEN 0
                            ELSE ((f[k - 1] + ns[k].alignment - 1) \div ns[k].alignment)
                                   * ns[k].alignment + ns[k].size]
    <2>1. ASSUME NEW k \in 0..n PROVE f[k] = g[k]
      <3>1. CASE k = 0 BY <3>1, <1>6
      <3>2. CASE k # 0
        <4>1. k \in 1..n BY <3>2, <1>1
        <4>2. f[k] = next(k, f[k - 1]) BY <4>1, <1>5
        <4> QED BY <4>2, <3>2 DEF NextMultiple
      <3> QED BY <3>1, <3>2
    <2> QED BY <2>1
  <1>8. e = [k \in 0..n |-> IF k = 0 THEN 0
                            ELSE ((e[k - 1] + ns[k].alignment - 1) \div ns[k].alignment)
                                   * ns[k].alignment + ns[k].size]
    BY <1>7
  <1>13. UpTo(ns) = e BY DEF UpTo
  <1> HIDE DEF e
  <1>9. e[0] = 0 BY <1>8, <1>1
  <1>10. ASSUME NEW k \in 1..n PROVE e[k] = next(k, e[k - 1])
    <2>1. k \in 0..n /\ k # 0 BY <1>1
    <2> QED BY <2>1, <1>8 DEF NextMultiple
  <1> HIDE DEF next
  <1>11. \A k \in 0..n : e[k] \in Nat
    <2> DEFINE T == {k \in 0..n : e[k] \in Nat}
    <2>1. 0 \in T BY <1>1, <1>9
    <2>2. ASSUME NEW k \in 1..n, k - 1 \in T PROVE k \in T
      <3>1. e[k] \in Nat BY <1>2, <1>10, <2>2
      <3> QED BY <3>1
    <2>3. T = 0..n BY <1>1, <2>1, <2>2, InductionUpTo
    <2> QED BY <2>3
  <1>12. e \in [0..n -> Nat]
    <2>1. e = [k \in 0..n |-> e[k]] BY <1>8
    <2> QED BY <2>1, <1>11
  <1> QED BY <1>9, <1>10, <1>12, <1>13 DEF next

(* What some of the nodes need is no more than what all of them need.       *)
LEMMA UpToGrows ==
  ASSUME NEW ns \in Seq(WorkspaceNode), NEW k \in 0..Len(ns)
  PROVE  UpTo(ns)[k] <= UpTo(ns)[Len(ns)]
  <1> DEFINE n == Len(ns)
             T == {j \in 0..n : j >= k => UpTo(ns)[k] <= UpTo(ns)[j]}
  <1>1. n \in Nat OBVIOUS
  <1>2. UpTo(ns) \in [0..n -> Nat] BY UpToRun
  <1>3. ASSUME NEW j \in 1..n PROVE UpTo(ns)[j - 1] <= UpTo(ns)[j]
    <2>1. ns[j] \in WorkspaceNode OBVIOUS
    <2>2. ns[j].size \in Nat /\ ns[j].alignment \in Nat \ {0} BY <2>1, NodeBounds
    <2>3. UpTo(ns)[j - 1] \in Nat /\ UpTo(ns)[j] \in Nat BY <1>1, <1>2
    <2>4. /\ NextMultiple(UpTo(ns)[j - 1], ns[j].alignment) \in Nat
          /\ UpTo(ns)[j - 1] <= NextMultiple(UpTo(ns)[j - 1], ns[j].alignment)
      BY <2>2, <2>3, NextMultipleBounds
    <2>5. UpTo(ns)[j] = NextMultiple(UpTo(ns)[j - 1], ns[j].alignment) + ns[j].size
      BY UpToRun
    <2> QED BY <2>2, <2>3, <2>4, <2>5
  <1>4. 0 \in T BY <1>1, <1>2
  <1>5. ASSUME NEW j \in 1..n, j - 1 \in T PROVE j \in T
    <2>1. UpTo(ns)[j] \in Nat /\ UpTo(ns)[j - 1] \in Nat /\ UpTo(ns)[k] \in Nat BY <1>1, <1>2
    <2>2. j >= k => UpTo(ns)[k] <= UpTo(ns)[j]
      <3>1. CASE j = k BY <2>1, <3>1
      <3>2. CASE j > k BY <1>3, <1>5, <2>1, <3>2
      <3>3. CASE j < k BY <3>3
      <3> QED BY <3>1, <3>2, <3>3
    <2> QED BY <1>1, <2>2
  <1>6. T = 0..n BY <1>1, <1>4, <1>5, InductionUpTo
  <1>7. n \in T /\ n >= k BY <1>1, <1>6
  <1> QED BY <1>7

-----------------------------------------------------------------------------

(* A reservation of a plan; its alignment is one callers ask for.           *)
Placed == [size : 1..SizeMax, alignment : Alignments, offset : 0..SizeMax]

(* An exec's plan, complete or not.                                         *)
PlanType == [records : Seq(Placed), total_size : 0..SizeMax,
             alignment : Alignments \cup {0}, arena : Arenas \cup {None}]

(* What RecordsDisjoint and RecordsAligned say of one plan.                 *)
Packed(p) ==
    \A j \in DOMAIN p.records :
        /\ p.records[j].offset + p.records[j].size <= p.total_size
        /\ \A k \in DOMAIN p.records :
              j < k => p.records[j].offset + p.records[j].size <= p.records[k].offset
        /\ p.records[j].offset % p.records[j].alignment = 0
        /\ p.records[j].alignment <= p.alignment

(* A plan by its fields.                                                    *)
PlanOf(records, total_size, alignment, arena) ==
    [records |-> records, total_size |-> total_size, alignment |-> alignment, arena |-> arena]

(* The larger of two alignments.                                            *)
Larger(a, b) == IF a > b THEN a ELSE b

(* The plan after one more reservation.                                     *)
Extended(p, n) ==
    PlanOf(Append(p.records, [size |-> n.size, alignment |-> n.alignment,
                              offset |-> AlignUp(p.total_size, n.alignment)]),
           EndAfter(AlignUp(p.total_size, n.alignment), n.size),
           Larger(n.alignment, p.alignment), p.arena)

(* mg_workspace_plan_append, when it does not refuse, keeps a plan packed   *)
(* and adds exactly what the reservation needs: neither of its two sums     *)
(* wraps.                                                                   *)
LEMMA ExtendedExact ==
  ASSUME NEW p \in PlanType, NEW n \in WorkspaceNode, Packed(p),
         ~AlignOverflows(p.total_size, n.alignment),
         ~SizeOverflows(AlignUp(p.total_size, n.alignment), n.size)
  PROVE  /\ Extended(p, n) \in PlanType /\ Packed(Extended(p, n))
         /\ Extended(p, n).arena = p.arena
         /\ Extended(p, n).total_size = NextMultiple(p.total_size, n.alignment) + n.size
  <1> DEFINE at == AlignUp(p.total_size, n.alignment)
             new == [size |-> n.size, alignment |-> n.alignment, offset |-> at]
             end == at + n.size
             rs == Append(p.records, new)
             al == Larger(n.alignment, p.alignment)
             q == Extended(p, n)
  <1>1. /\ n.size \in 1..SizeMax /\ n.alignment \in Alignments /\ n.alignment \in Nat \ {0}
        /\ n.size \in Nat \ {0} /\ SizeMax \in Nat
    BY NodeBounds, SizesAssumption
  <1>2. p.total_size \in 0..SizeMax /\ p.records \in Seq(Placed)
        /\ p.alignment \in Alignments \cup {0} /\ p.arena \in Arenas \cup {None}
    BY DEF PlanType
  <1>3. /\ at = NextMultiple(p.total_size, n.alignment) /\ at <= SizeMax /\ at \in Nat
        /\ p.total_size <= at /\ at % n.alignment = 0
    <2>1. p.total_size \in Nat BY <1>1, <1>2
    <2>2. at = NextMultiple(p.total_size, n.alignment) /\ at <= SizeMax
      BY <1>1, <1>2, AlignUpExact
    <2>3. /\ NextMultiple(p.total_size, n.alignment) \in Nat
          /\ p.total_size <= NextMultiple(p.total_size, n.alignment)
          /\ NextMultiple(p.total_size, n.alignment) % n.alignment = 0
      BY <1>1, <2>1, NextMultipleBounds
    <2> HIDE DEF at
    <2> QED BY <2>2, <2>3
  <1> HIDE DEF at
  <1>4. end <= SizeMax /\ end \in Nat
    <2>1. ~(at > SizeMax - n.size) BY DEF SizeOverflows, at
    <2> QED BY <1>1, <1>3, <2>1
  <1>5. EndAfter(at, n.size) = end BY <1>1, <1>3, <1>4 DEF EndAfter
  <1>6. q = PlanOf(rs, end, al, p.arena) BY <1>5 DEF Extended, at
  <1>7. /\ al \in Alignments /\ n.alignment <= al /\ p.alignment <= al
        /\ p.alignment \in Nat /\ al \in Nat
    <2>1. p.alignment \in Nat
      <3>1. CASE p.alignment = 0 BY <3>1
      <3>2. CASE p.alignment \in Alignments
        <4>1. p.alignment \in 1..SizeMax BY <3>2, SizesAssumption
        <4> QED BY <1>1, <4>1
      <3> QED BY <1>2, <3>1, <3>2
    <2>2. CASE n.alignment > p.alignment
      <3>1. al = n.alignment BY <2>2 DEF Larger
      <3> QED BY <1>1, <2>1, <2>2, <3>1
    <2>3. CASE ~(n.alignment > p.alignment)
      <3>1. al = p.alignment BY <2>3 DEF Larger
      <3>2. p.alignment # 0 BY <1>1, <2>1, <2>3
      <3> QED BY <1>1, <1>2, <2>1, <2>3, <3>1, <3>2
    <2> QED BY <2>2, <2>3
  <1>8. new \in Placed BY <1>1, <1>3 DEF Placed
  <1>9. /\ new.offset = at /\ new.size = n.size /\ new.alignment = n.alignment
    OBVIOUS
  <1> HIDE DEF new, al
  <1>10. rs \in Seq(Placed) /\ Len(rs) = Len(p.records) + 1 /\ Len(p.records) \in Nat
    BY <1>2, <1>8
  <1>11. q \in PlanType BY <1>2, <1>4, <1>6, <1>7, <1>10 DEF PlanOf, PlanType
  <1>12. /\ q.records = rs /\ q.total_size = end /\ q.alignment = al /\ q.arena = p.arena
    BY <1>6 DEF PlanOf
  <1>13. \A j \in DOMAIN rs : \/ j \in DOMAIN p.records /\ rs[j] = p.records[j]
                              \/ j = Len(rs) /\ rs[j] = new
    BY <1>2, <1>10
  <1>14. \A j \in DOMAIN p.records : j < Len(rs) BY <1>2, <1>10
  <1>15. ASSUME NEW j \in DOMAIN p.records
         PROVE  /\ p.records[j].offset \in Nat /\ p.records[j].size \in Nat
                /\ p.records[j].alignment \in Nat
                /\ p.records[j].offset + p.records[j].size <= p.total_size
                /\ p.records[j].offset % p.records[j].alignment = 0
                /\ p.records[j].alignment <= p.alignment
    <2>1. p.records[j] \in Placed BY <1>2
    <2>2. p.records[j].alignment \in Alignments BY <2>1 DEF Placed
    <2>3. p.records[j].offset \in 0..SizeMax /\ p.records[j].size \in 1..SizeMax
      BY <2>1 DEF Placed
    <2>4. p.records[j].alignment \in 1..SizeMax BY <2>2, SizesAssumption
    <2> QED BY <1>1, <2>3, <2>4 DEF Packed
  <1> HIDE DEF rs, end, q
  <1>16. ASSUME NEW j \in DOMAIN rs
         PROVE  /\ rs[j].offset + rs[j].size <= end
                /\ \A k \in DOMAIN rs : j < k => rs[j].offset + rs[j].size <= rs[k].offset
                /\ rs[j].offset % rs[j].alignment = 0
                /\ rs[j].alignment <= al
    <2>1. CASE j \in DOMAIN p.records /\ rs[j] = p.records[j]
      <3>1. p.total_size \in Nat BY <1>2, <1>1
      <3>2. rs[j].offset + rs[j].size <= at BY <1>3, <1>15, <2>1, <3>1
      <3>3. rs[j].offset + rs[j].size <= end BY <1>1, <1>3, <1>15, <2>1, <3>2 DEF end
      <3>4. ASSUME NEW k \in DOMAIN rs, j < k
            PROVE  rs[j].offset + rs[j].size <= rs[k].offset
        <4>1. CASE k \in DOMAIN p.records /\ rs[k] = p.records[k]
          BY <2>1, <3>4, <4>1 DEF Packed
        <4>2. CASE k = Len(rs) /\ rs[k] = new BY <1>9, <3>2, <4>2
        <4> QED BY <1>13, <4>1, <4>2
      <3>5. rs[j].alignment <= al BY <1>7, <1>15, <2>1
      <3> QED BY <1>15, <2>1, <3>3, <3>4, <3>5
    <2>2. CASE j = Len(rs) /\ rs[j] = new
      <3>1. \A k \in DOMAIN rs : ~(j < k) BY <1>10, <1>13, <1>14, <2>2
      <3>2. rs[j].offset + rs[j].size <= end BY <1>4, <1>9, <2>2 DEF end
      <3> QED BY <1>3, <1>7, <1>9, <2>2, <3>1, <3>2
    <2> QED BY <1>13, <2>1, <2>2
  <1>17. Packed(q) BY <1>12, <1>16 DEF Packed
  <1> QED BY <1>3, <1>11, <1>12, <1>17 DEF q, end

(* The cleared plan is packed.                                              *)
LEMMA NoPlanPacked == NoPlan \in PlanType /\ Packed(NoPlan)
  <1>1. <<>> \in Seq(Placed) OBVIOUS
  <1>2. 0 \in 0..SizeMax BY SizesAssumption
  <1>3. NoPlan \in PlanType BY <1>1, <1>2 DEF NoPlan, PlanType
  <1> QED BY <1>3 DEF NoPlan, Packed

(* The arena of a plan is no part of the packing.                           *)
LEMMA WithArena ==
  ASSUME NEW p \in PlanType, Packed(p), NEW a \in Arenas \cup {None}
  PROVE  LET q == [p EXCEPT !.arena = a] IN
         /\ q \in PlanType /\ Packed(q) /\ q.arena = a
         /\ q.total_size = p.total_size /\ q.alignment = p.alignment
  <1> DEFINE q == [p EXCEPT !.arena = a]
  <1>1. q \in PlanType BY DEF PlanType
  <1>2. /\ q.arena = a /\ q.records = p.records /\ q.total_size = p.total_size
        /\ q.alignment = p.alignment
    BY DEF PlanType
  <1> HIDE DEF q
  <1>3. Packed(q) BY <1>2 DEF Packed
  <1> QED BY <1>1, <1>2, <1>3 DEF q

-----------------------------------------------------------------------------
(* The invariant, by its parts.                                             *)

(* The types that every step relies on; a reference count is only an        *)
(* integer here.                                                            *)
Types ==
    /\ nodes \in Seq(WorkspaceNode) /\ galive \in BOOLEAN /\ garena \in Arenas \cup {None}
    /\ desc \in [Arenas -> [size : 0..SizeMax, alignment : 0..SizeMax]]
    /\ handle \in [Arenas -> BOOLEAN] /\ ref_count \in [Arenas -> Int]
    /\ estate \in [Execs -> {"none", "planning", "planned", "live", "overflow", "failed", "destroyed"}]
    /\ plan \in [Execs -> PlanType] /\ todo \in Seq(WorkspaceNode)

(* A plan exists from the start of planning to the end of the exec; it has  *)
(* an arena only once it is complete, and fits it.                          *)
PlanSound(state, p, d) ==
    /\ Packed(p)
    /\ state \notin {"planning", "planned", "live"} => p = NoPlan
    /\ state = "planning" => p.arena = None
    /\ p.arena # None =>
          p.total_size <= d[p.arena].size /\ p.alignment <= d[p.arena].alignment

(* The execs whose plan refers to an arena.                                 *)
Refs(pl, a) == {e \in Execs : pl[e].arena = a}

(* One reference, if there is one.                                          *)
One(condition) == IF condition THEN 1 ELSE 0

(* The references to an arena are counted, and only a created one has any.  *)
ArenaSound(h, g, rc, d, pl) ==
    \A a \in Arenas :
        /\ rc[a] = One(h[a]) + One(g = a) + Cardinality(Refs(pl, a))
        /\ h[a] \/ g = a \/ Refs(pl, a) # {} => d[a].size # 0

(* todo is what is left of the nodes, and the plan's size what the others   *)
(* need.                                                                    *)
SumOf(ns, left, total) ==
    /\ Len(left) <= Len(ns)
    /\ \A k \in 1..Len(left) : left[k] = ns[Len(ns) - Len(left) + k]
    /\ total = UpTo(ns)[Len(ns) - Len(left)]

(* Instantiation is under way.                                              *)
Running(state) == state \in {"planning", "planned"}

(* One instantiation runs at a time, and its plan is what SumOf says.       *)
Planning(state, ns, left, pl) ==
    /\ \A e, f \in Execs : Running(state[e]) /\ Running(state[f]) => e = f
    /\ \A e \in Execs : state[e] = "planning" => SumOf(ns, left, pl[e].total_size)

(* The inductive invariant. Beyond what the properties say: a failed exec   *)
(* keeps no plan, so clearing twice is harmless; a plan in the making has   *)
(* no arena, so giving it up releases nothing; an arena someone refers to   *)
(* was created, so creating one disturbs no count; and the running sum of   *)
(* the plan, without which neither overflow nor size could be told.         *)
PlanInv ==
    /\ Types
    /\ \A e \in Execs : PlanSound(estate[e], plan[e], desc)
    /\ ArenaSound(handle, garena, ref_count, desc, plan)
    /\ Planning(estate, nodes, todo, plan)

-----------------------------------------------------------------------------
(* References.                                                              *)

(* A function changed at one exec.                                          *)
Replaced(pl, e, p) == [pl EXCEPT ![e] = p]

(* Replacing a plan moves at most one exec into and out of the users of an  *)
(* arena.                                                                   *)
LEMMA RefsMove ==
  ASSUME NEW pl \in [Execs -> PlanType], NEW e \in Execs, NEW p \in PlanType, NEW a \in Arenas,
         NEW new, new = Replaced(pl, e, p)
  PROVE  /\ Cardinality(Refs(pl, a)) \in Nat
         /\ Cardinality(Refs(new, a))
              = Cardinality(Refs(pl, a)) + One(p.arena = a) - One(pl[e].arena = a)
         /\ Refs(new, a) # {} => Refs(pl, a) # {} \/ p.arena = a
  <1> DEFINE S == Refs(pl, a)
             T == Refs(new, a)
  <1>1. new[e] = p /\ \A f \in Execs : f # e => new[f] = pl[f] BY DEF Replaced
  <1>2. IsFiniteSet(S)
    <2>1. S \subseteq Execs BY DEF Refs
    <2> QED BY <2>1, ExecsAssumption, FS_Subset
  <1>3. Cardinality(S) \in Nat BY <1>2, FS_CardinalityType
  <1> DEFINE moved == One(p.arena = a) - One(pl[e].arena = a)
             goal == Cardinality(T) = Cardinality(S) + moved /\ (T # {} => S # {} \/ p.arena = a)
  <1>9. One(p.arena = a) \in Int /\ One(pl[e].arena = a) \in Int BY DEF One
  <1>10. Cardinality(S) + moved = Cardinality(S) + One(p.arena = a) - One(pl[e].arena = a)
    <2> HIDE DEF S
    <2> QED BY <1>3, <1>9
  <1> SUFFICES goal BY <1>3, <1>10
  <1>4. CASE p.arena = a /\ pl[e].arena = a
    <2>1. T = S BY <1>1, <1>4 DEF Refs
    <2>2. moved = 0 BY <1>4 DEF One
    <2> HIDE DEF S, T, moved
    <2> QED BY <1>3, <2>1, <2>2
  <1>5. CASE p.arena = a /\ pl[e].arena # a
    <2>1. T = S \cup {e} /\ e \notin S BY <1>1, <1>5 DEF Refs
    <2>2. moved = 1 BY <1>5 DEF One
    <2> HIDE DEF S, T, moved
    <2>3. Cardinality(T) = Cardinality(S) + 1 BY <1>2, <2>1, FS_AddElement
    <2> QED BY <1>3, <1>5, <2>2, <2>3
  <1>6. CASE p.arena # a /\ pl[e].arena = a
    <2>1. T = S \ {e} /\ e \in S BY <1>1, <1>6 DEF Refs
    <2>2. moved = 0 - 1 BY <1>6 DEF One
    <2> HIDE DEF S, T, moved
    <2>3. Cardinality(T) = Cardinality(S) - 1 BY <1>2, <2>1, FS_RemoveElement
    <2>4. Cardinality(S) - 1 = Cardinality(S) + moved BY <1>3, <2>2
    <2> QED BY <2>1, <2>3, <2>4
  <1>7. CASE p.arena # a /\ pl[e].arena # a
    <2>1. T = S BY <1>1, <1>7 DEF Refs
    <2>2. moved = 0 BY <1>7 DEF One
    <2> HIDE DEF S, T, moved
    <2> QED BY <1>3, <2>1, <2>2
  <1> QED BY <1>4, <1>5, <1>6, <1>7

(* mg_arena_retain and mg_arena_release change one count by one, and none   *)
(* for NULL.                                                                *)
LEMMA RetainedExact ==
  ASSUME NEW rc \in [Arenas -> Int], NEW a \in Arenas \cup {None}
  PROVE  /\ Retained(rc, a) \in [Arenas -> Int] /\ Released(rc, a) \in [Arenas -> Int]
         /\ \A x \in Arenas : /\ Retained(rc, a)[x] = rc[x] + One(a = x)
                              /\ Released(rc, a)[x] = rc[x] - One(a = x)
  BY DEF Retained, Released, One

(* A plan replaced by another moves one reference.                          *)
LEMMA PlanReplaced ==
  ASSUME NEW h, NEW g, NEW rc \in [Arenas -> Int], NEW d, NEW pl \in [Execs -> PlanType],
         ArenaSound(h, g, rc, d, pl), NEW e \in Execs, NEW p \in PlanType,
         NEW new \in [Arenas -> Int],
         \A x \in Arenas : new[x] = rc[x] + One(p.arena = x) - One(pl[e].arena = x),
         \A x \in Arenas : p.arena = x => d[x].size # 0,
         NEW q, q = Replaced(pl, e, p)
  PROVE  ArenaSound(h, g, new, d, q)
  <1> SUFFICES ASSUME NEW a \in Arenas
               PROVE  /\ new[a] = One(h[a]) + One(g = a) + Cardinality(Refs(q, a))
                      /\ h[a] \/ g = a \/ Refs(q, a) # {} => d[a].size # 0
    BY DEF ArenaSound
  <1>1. /\ Cardinality(Refs(pl, a)) \in Nat
        /\ Cardinality(Refs(q, a)) = Cardinality(Refs(pl, a)) + One(p.arena = a) - One(pl[e].arena = a)
        /\ Refs(q, a) # {} => Refs(pl, a) # {} \/ p.arena = a
    BY RefsMove
  <1>2. /\ rc[a] = One(h[a]) + One(g = a) + Cardinality(Refs(pl, a))
        /\ h[a] \/ g = a \/ Refs(pl, a) # {} => d[a].size # 0
    BY DEF ArenaSound
  <1>3. /\ One(h[a]) \in Int /\ One(g = a) \in Int /\ One(p.arena = a) \in Int
        /\ One(pl[e].arena = a) \in Int
    BY DEF One
  <1>4. new[a] = rc[a] + One(p.arena = a) - One(pl[e].arena = a) OBVIOUS
  <1>5. new[a] = One(h[a]) + One(g = a) + Cardinality(Refs(q, a))
    BY <1>1, <1>2, <1>3, <1>4
  <1> QED BY <1>1, <1>2, <1>5

-----------------------------------------------------------------------------
(* The calls.                                                               *)

(* Without a running instantiation there is no running sum.                 *)
LEMMA IdlePlanning ==
  ASSUME Idle, NEW ns, NEW left, NEW pl
  PROVE  Planning(estate, ns, left, pl)
  BY DEF Idle, Planning, Running

(* What a caller asks for is a reservation.                                 *)
LEMMA SizePositive ==
  ASSUME NEW size \in Sizes, NEW alignment \in Alignments
  PROVE  /\ size \in 1..SizeMax /\ alignment \in 1..SizeMax /\ size # 0
         /\ [size |-> size, alignment |-> alignment] \in WorkspaceNode
         /\ [size |-> size, alignment |-> alignment] \in [size : 0..SizeMax, alignment : 0..SizeMax]
  <1>1. size \in 1..SizeMax /\ alignment \in 1..SizeMax /\ SizeMax \in Nat BY SizesAssumption
  <1> QED BY <1>1 DEF WorkspaceNode

(* mgArenaCreate: nobody refers to the new arena yet.                       *)
LEMMA CreateKeeps ==
  ASSUME PlanInv, NEW a \in Arenas, NEW size \in Sizes, NEW alignment \in Alignments,
         ArenaCreate(a, size, alignment)
  PROVE  PlanInv'
  <1> DEFINE new == [size |-> size, alignment |-> alignment]
  <1>1. new \in [size : 0..SizeMax, alignment : 0..SizeMax] /\ size # 0 BY SizePositive
  <1>2. new.size = size OBVIOUS
  <1> HIDE DEF new
  <1>3. Types BY DEF PlanInv
  <1>4. /\ Idle /\ desc[a].size = 0
        /\ desc' = [desc EXCEPT ![a] = new]
        /\ handle' = [handle EXCEPT ![a] = TRUE]
        /\ ref_count' = [ref_count EXCEPT ![a] = 1]
        /\ UNCHANGED <<graphVars, estate, plan, todo>>
    BY DEF ArenaCreate, new
  <1>5. Types' BY <1>1, <1>3, <1>4 DEF Types, graphVars
  <1>6. ~handle[a] /\ garena # a /\ Refs(plan, a) = {} BY <1>4 DEF PlanInv, ArenaSound
  <1>7. \A e \in Execs : plan[e].arena # a BY <1>6 DEF Refs
  <1>8. ASSUME NEW e \in Execs PROVE PlanSound(estate[e], plan[e], desc')
    <2>1. PlanSound(estate[e], plan[e], desc) BY DEF PlanInv
    <2>2. plan[e] \in PlanType BY <1>3 DEF Types
    <2>3. plan[e].arena \in Arenas \cup {None} BY <2>2 DEF PlanType
    <2>4. plan[e].arena # None => desc'[plan[e].arena] = desc[plan[e].arena]
      BY <1>3, <1>4, <1>7, <2>3 DEF Types
    <2> QED BY <2>1, <2>4 DEF PlanSound
  <1>9. ASSUME NEW x \in Arenas
        PROVE  /\ ref_count'[x] = One(handle'[x]) + One(garena = x) + Cardinality(Refs(plan, x))
               /\ handle'[x] \/ garena = x \/ Refs(plan, x) # {} => desc'[x].size # 0
    <2>1. CASE x = a
      <3>1. Cardinality(Refs(plan, x)) = 0 BY <1>6, <2>1, FS_EmptySet
      <3>2. One(handle'[x]) = 1 /\ One(garena = x) = 0 BY <1>3, <1>4, <1>6, <2>1 DEF Types, One
      <3>3. ref_count'[x] = 1 /\ desc'[x] = new BY <1>3, <1>4, <2>1 DEF Types
      <3> QED BY <1>1, <1>2, <3>1, <3>2, <3>3
    <2>2. CASE x # a
      <3>1. ref_count'[x] = ref_count[x] /\ handle'[x] = handle[x] /\ desc'[x] = desc[x]
        BY <1>3, <1>4, <2>2 DEF Types
      <3> QED BY <3>1 DEF PlanInv, ArenaSound
    <2> QED BY <2>1, <2>2
  <1>10. ArenaSound(handle', garena, ref_count', desc', plan) BY <1>9 DEF ArenaSound
  <1>11. Planning(estate, nodes, todo, plan) BY DEF PlanInv
  <1>12. UNCHANGED <<nodes, garena, estate, plan, todo>> BY <1>4 DEF graphVars
  <1> QED BY <1>5, <1>8, <1>10, <1>11, <1>12 DEF PlanInv

(* The counts that go with the graph and the handles.                       *)
LEMMA HoldersMoved ==
  ASSUME Types, ArenaSound(handle, garena, ref_count, desc, plan),
         NEW h \in [Arenas -> BOOLEAN], NEW g \in Arenas \cup {None}, NEW rc \in [Arenas -> Int],
         \A x \in Arenas :
            /\ rc[x] = ref_count[x] + One(h[x]) - One(handle[x]) + One(g = x) - One(garena = x)
            /\ h[x] => handle[x]
            /\ g = x => handle[x] \/ garena = x
  PROVE  ArenaSound(h, g, rc, desc, plan)
  <1> SUFFICES ASSUME NEW x \in Arenas
               PROVE  /\ rc[x] = One(h[x]) + One(g = x) + Cardinality(Refs(plan, x))
                      /\ h[x] \/ g = x \/ Refs(plan, x) # {} => desc[x].size # 0
    BY DEF ArenaSound
  <1> DEFINE c == Cardinality(Refs(plan, x))
  <1>1. ref_count[x] = One(handle[x]) + One(garena = x) + c
    BY DEF ArenaSound
  <1>2. c \in Int
    <2>1. Refs(plan, x) \subseteq Execs BY DEF Refs
    <2>2. IsFiniteSet(Refs(plan, x)) BY <2>1, ExecsAssumption, FS_Subset
    <2> QED BY <2>2, FS_CardinalityType
  <1> HIDE DEF c
  <1>3. /\ One(h[x]) \in Int /\ One(g = x) \in Int /\ One(handle[x]) \in Int
        /\ One(garena = x) \in Int
    BY DEF One
  <1>4. rc[x] = ref_count[x] + One(h[x]) - One(handle[x]) + One(g = x) - One(garena = x)
    OBVIOUS
  <1>5. rc[x] = One(h[x]) + One(g = x) + c BY <1>1, <1>2, <1>3, <1>4
  <1>6. h[x] \/ g = x \/ Refs(plan, x) # {} => desc[x].size # 0 BY DEF ArenaSound
  <1> QED BY <1>5, <1>6 DEF c

(* A call that changes who holds arenas, and counts it, keeps the           *)
(* invariant.                                                               *)
LEMMA HolderKeeps ==
  ASSUME PlanInv, Idle, NEW h \in [Arenas -> BOOLEAN], NEW g \in Arenas \cup {None},
         NEW rc \in [Arenas -> Int], galive' \in BOOLEAN,
         handle' = h, garena' = g, ref_count' = rc, UNCHANGED <<nodes, desc, estate, plan, todo>>,
         \A x \in Arenas :
            /\ rc[x] = ref_count[x] + One(h[x]) - One(handle[x]) + One(g = x) - One(garena = x)
            /\ h[x] => handle[x]
            /\ g = x => handle[x] \/ garena = x
  PROVE  PlanInv'
  <1>1. Types /\ Types' BY DEF PlanInv, Types
  <1>2. ArenaSound(h, g, rc, desc, plan) BY <1>1, HoldersMoved DEF PlanInv
  <1> QED BY <1>1, <1>2 DEF PlanInv

(* mgArenaDestroy                                                           *)
LEMMA ArenaDestroyKeeps ==
  ASSUME PlanInv, NEW a \in Arenas, ArenaDestroy(a)
  PROVE  PlanInv'
  <1> DEFINE h == [handle EXCEPT ![a] = FALSE]
             rc == Released(ref_count, a)
  <1>1. Types BY DEF PlanInv
  <1>2. h \in [Arenas -> BOOLEAN] /\ rc \in [Arenas -> Int] BY <1>1, RetainedExact DEF Types
  <1>3. ASSUME NEW x \in Arenas
        PROVE  /\ rc[x] = ref_count[x] + One(h[x]) - One(handle[x]) + One(garena = x) - One(garena = x)
               /\ h[x] => handle[x]
    <2>1. rc[x] = ref_count[x] - One(a = x)
      <3>1. ref_count \in [Arenas -> Int] /\ a \in Arenas \cup {None} BY <1>1 DEF Types
      <3> QED BY <3>1, RetainedExact
    <2>2. ref_count[x] \in Int /\ One(garena = x) \in Int BY <1>1 DEF Types, One
    <2>3. CASE x = a
      <3>1. handle[x] /\ ~h[x] BY <1>1, <2>3 DEF ArenaDestroy, Types
      <3>2. One(h[x]) = 0 /\ One(handle[x]) = 1 /\ One(a = x) = 1 BY <2>3, <3>1 DEF One
      <3> HIDE DEF h, rc
      <3>3. h[x] => handle[x] BY <3>1
      <3>4. rc[x] = ref_count[x] + One(h[x]) - One(handle[x]) + One(garena = x) - One(garena = x)
        BY <2>1, <2>2, <3>2
      <3> QED BY <3>3, <3>4
    <2>4. CASE x # a
      <3>1. h[x] = handle[x] BY <1>1, <2>4 DEF Types
      <3>2. One(h[x]) \in Int /\ One(h[x]) = One(handle[x]) /\ One(a = x) = 0
        BY <2>4, <3>1 DEF One
      <3> HIDE DEF h, rc
      <3> QED BY <2>1, <2>2, <3>1, <3>2
    <2> QED BY <2>3, <2>4
  <1>4. /\ Idle /\ handle' = h /\ ref_count' = rc /\ garena' = garena /\ galive' = galive
        /\ UNCHANGED <<nodes, desc, estate, plan, todo>>
    BY DEF ArenaDestroy, graphVars
  <1>5. garena \in Arenas \cup {None} /\ galive' \in BOOLEAN BY <1>1, <1>4 DEF Types
  <1> HIDE DEF h, rc
  <1> QED BY <1>2, <1>3, <1>4, <1>5, HolderKeeps

(* mgGraphSetArena: the new arena gains a reference, the old one loses one. *)
LEMMA GraphSetArenaKeeps ==
  ASSUME PlanInv, NEW a \in Arenas, GraphSetArena(a)
  PROVE  PlanInv'
  <1> DEFINE rc == Exchanged(ref_count, a)
  <1>1. Types BY DEF PlanInv
  <1>2. ref_count \in [Arenas -> Int] /\ garena \in Arenas \cup {None} BY <1>1 DEF Types
  <1>3. Retained(ref_count, a) \in [Arenas -> Int] BY <1>2, RetainedExact
  <1>4. rc \in [Arenas -> Int] BY <1>2, <1>3, RetainedExact DEF Exchanged
  <1>5. ASSUME NEW x \in Arenas
        PROVE  /\ rc[x] = ref_count[x] + One(handle[x]) - One(handle[x]) + One(a = x) - One(garena = x)
               /\ a = x => handle[x] \/ garena = x
    <2>1. Retained(ref_count, a)[x] = ref_count[x] + One(a = x) BY <1>2, RetainedExact
    <2>2. rc[x] = Retained(ref_count, a)[x] - One(garena = x)
      BY <1>2, <1>3, RetainedExact DEF Exchanged
    <2>3. /\ ref_count[x] \in Int /\ One(garena = x) \in Int /\ One(a = x) \in Int
          /\ One(handle[x]) \in Int
      BY <1>2 DEF One
    <2> QED BY <2>1, <2>2, <2>3 DEF GraphSetArena
  <1>6. /\ Idle /\ handle' = handle /\ ref_count' = rc /\ garena' = a /\ galive' = galive
        /\ UNCHANGED <<nodes, desc, estate, plan, todo>>
    BY DEF GraphSetArena
  <1>7. handle \in [Arenas -> BOOLEAN] /\ galive' \in BOOLEAN BY <1>1, <1>6 DEF Types
  <1> HIDE DEF rc
  <1> QED BY <1>4, <1>5, <1>6, <1>7, HolderKeeps

(* mgGraphDestroy gives the graph's reference back.                         *)
LEMMA GraphDestroyKeeps ==
  ASSUME PlanInv, GraphDestroy
  PROVE  PlanInv'
  <1> DEFINE rc == Released(ref_count, garena)
  <1>1. Types BY DEF PlanInv
  <1>2. ref_count \in [Arenas -> Int] /\ garena \in Arenas \cup {None} BY <1>1 DEF Types
  <1>3. rc \in [Arenas -> Int] BY <1>2, RetainedExact
  <1>4. ASSUME NEW x \in Arenas
        PROVE  rc[x] = ref_count[x] + One(handle[x]) - One(handle[x]) + One(None = x) - One(garena = x)
    <2>1. rc[x] = ref_count[x] - One(garena = x) BY <1>2, RetainedExact
    <2>2. One(None = x) = 0 BY ExecsAssumption DEF One
    <2>3. ref_count[x] \in Int /\ One(garena = x) \in Int /\ One(handle[x]) \in Int
      BY <1>2 DEF One
    <2> QED BY <2>1, <2>2, <2>3
  <1>5. \A x \in Arenas : None # x BY ExecsAssumption
  <1>6. /\ Idle /\ handle' = handle /\ ref_count' = rc /\ garena' = None /\ galive' \in BOOLEAN
        /\ UNCHANGED <<nodes, desc, estate, plan, todo>>
    BY DEF GraphDestroy
  <1>7. handle \in [Arenas -> BOOLEAN] BY <1>1 DEF Types
  <1> HIDE DEF rc
  <1> QED BY <1>3, <1>4, <1>5, <1>6, <1>7, HolderKeeps

(* mg_internal_graph_add_workspace_node                                     *)
LEMMA NodeKeeps ==
  ASSUME PlanInv, NEW size \in Sizes, NEW alignment \in Alignments,
         AddWorkspaceNode(size, alignment)
  PROVE  PlanInv'
  <1> DEFINE new == [size |-> size, alignment |-> alignment]
  <1>1. new \in WorkspaceNode BY SizePositive
  <1>2. /\ Idle /\ nodes' = Append(nodes, new)
        /\ UNCHANGED <<galive, garena, arenaVars, estate, plan, todo>>
    BY DEF AddWorkspaceNode
  <1> HIDE DEF new
  <1>3. nodes \in Seq(WorkspaceNode) BY DEF PlanInv, Types
  <1>4. nodes' \in Seq(WorkspaceNode) BY <1>1, <1>2, <1>3
  <1>5. Types' BY <1>2, <1>4 DEF PlanInv, Types, arenaVars
  <1>6. Planning(estate, nodes', todo, plan) BY <1>2, IdlePlanning
  <1> QED BY <1>2, <1>5, <1>6 DEF PlanInv, arenaVars

-----------------------------------------------------------------------------
(* Planning.                                                                *)

(* Planning begins with an empty plan and all nodes to do.                  *)
LEMMA BeginKeeps ==
  ASSUME PlanInv, NEW e \in Execs, PlanBegin(e)
  PROVE  PlanInv'
  <1>1. Types BY DEF PlanInv
  <1>2. /\ Idle /\ estate[e] = "none" /\ estate' = [estate EXCEPT ![e] = "planning"]
        /\ todo' = nodes /\ UNCHANGED <<graphVars, arenaVars, plan>>
    BY DEF PlanBegin
  <1>3. Types' BY <1>1, <1>2 DEF Types, graphVars, arenaVars
  <1>4. plan[e] = NoPlan BY <1>2 DEF PlanInv, PlanSound
  <1>5. ASSUME NEW f \in Execs PROVE PlanSound(estate'[f], plan[f], desc)
    <2>1. PlanSound(estate[f], plan[f], desc) BY DEF PlanInv
    <2>2. CASE f = e
      <3>1. estate'[f] = "planning" BY <1>1, <1>2, <2>2 DEF Types
      <3> QED BY <1>4, <2>1, <2>2, <3>1 DEF PlanSound, NoPlan
    <2>3. CASE f # e
      <3>1. estate'[f] = estate[f] BY <1>1, <1>2, <2>3 DEF Types
      <3> QED BY <2>1, <3>1
    <2> QED BY <2>2, <2>3
  <1>6. SumOf(nodes, nodes, 0)
    <2>1. nodes \in Seq(WorkspaceNode) BY <1>1 DEF Types
    <2>2. Len(nodes) \in Nat BY <2>1
    <2>3. \A k \in 1..Len(nodes) : Len(nodes) - Len(nodes) + k = k BY <2>2
    <2>4. UpTo(nodes)[Len(nodes) - Len(nodes)] = 0 BY <2>1, <2>2, UpToRun
    <2> QED BY <2>2, <2>3, <2>4 DEF SumOf
  <1>7. Planning(estate', nodes, nodes, plan)
    <2>1. \A f \in Execs : Running(estate'[f]) => f = e
      BY <1>1, <1>2 DEF Types, Idle, Running
    <2>2. plan[e].total_size = 0 BY <1>4 DEF NoPlan
    <2>3. \A f \in Execs : estate'[f] = "planning" => f = e BY <2>1 DEF Running
    <2> QED BY <1>6, <2>1, <2>2, <2>3 DEF Planning
  <1> QED BY <1>2, <1>3, <1>5, <1>7 DEF PlanInv, graphVars, arenaVars

(* Replacing the plan of an exec.                                           *)
LEMMA PlanKeeps ==
  ASSUME PlanInv, NEW e \in Execs, NEW p \in PlanType, NEW state, NEW rc \in [Arenas -> Int],
         state \in {"planning", "planned", "live", "overflow", "failed", "destroyed"},
         estate' = Replaced(estate, e, state), plan' = Replaced(plan, e, p),
         ref_count' = rc, todo' \in Seq(WorkspaceNode),
         UNCHANGED <<nodes, galive, garena, desc, handle>>,
         PlanSound(state, p, desc),
         \A x \in Arenas : rc[x] = ref_count[x] + One(p.arena = x) - One(plan[e].arena = x),
         \A x \in Arenas : p.arena = x => desc[x].size # 0,
         Planning(estate', nodes, todo', plan')
  PROVE  PlanInv'
  <1>1. Types BY DEF PlanInv
  <1>2. plan \in [Execs -> PlanType] /\ ref_count \in [Arenas -> Int] BY <1>1 DEF Types
  <1>3. plan' \in [Execs -> PlanType] BY <1>2 DEF Replaced
  <1>4. estate' \in [Execs -> {"none", "planning", "planned", "live", "overflow", "failed", "destroyed"}]
    BY <1>1 DEF Types, Replaced
  <1>5. Types' BY <1>1, <1>3, <1>4 DEF Types
  <1>6. ASSUME NEW f \in Execs PROVE PlanSound(estate'[f], plan'[f], desc)
    <2>1. PlanSound(estate[f], plan[f], desc) BY DEF PlanInv
    <2>2. CASE f = e
      <3>1. estate'[f] = state /\ plan'[f] = p BY <1>1, <2>2 DEF Types, Replaced
      <3> QED BY <3>1
    <2>3. CASE f # e
      <3>1. estate'[f] = estate[f] /\ plan'[f] = plan[f] BY <1>1, <2>3 DEF Types, Replaced
      <3> QED BY <2>1, <3>1
    <2> QED BY <2>2, <2>3
  <1>7. ArenaSound(handle, garena, rc, desc, plan') BY <1>2, PlanReplaced DEF PlanInv
  <1> QED BY <1>5, <1>6, <1>7 DEF PlanInv

(* The replaced plan is there.                                              *)
LEMMA ReplacedAt ==
  ASSUME NEW pl \in [Execs -> PlanType], NEW e \in Execs, NEW p
  PROVE  Replaced(pl, e, p)[e] = p
  BY DEF Replaced

(* What is left of the nodes after one more is planned.                     *)
LEMMA SumAdvances ==
  ASSUME NEW ns \in Seq(WorkspaceNode), NEW left \in Seq(WorkspaceNode), NEW total \in Nat,
         SumOf(ns, left, total), left # <<>>
  PROVE  /\ Head(left) \in WorkspaceNode /\ Tail(left) \in Seq(WorkspaceNode)
         /\ Len(ns) - Len(left) + 1 \in 1..Len(ns)
         /\ UpTo(ns)[Len(ns) - Len(left) + 1]
              = NextMultiple(total, Head(left).alignment) + Head(left).size
         /\ SumOf(ns, Tail(left), NextMultiple(total, Head(left).alignment) + Head(left).size)
  <1> DEFINE k == Len(ns) - Len(left) + 1
  <1>1. Len(ns) \in Nat /\ Len(left) \in Nat /\ Len(left) # 0 OBVIOUS
  <1>2. k \in 1..Len(ns) BY <1>1 DEF SumOf
  <1>3. Head(left) = left[1] /\ Head(left) \in WorkspaceNode /\ Tail(left) \in Seq(WorkspaceNode)
    BY <1>1
  <1>4. left[1] = ns[k] BY <1>1 DEF SumOf
  <1>5. k - 1 = Len(ns) - Len(left) BY <1>1
  <1>6. UpTo(ns)[k] = NextMultiple(UpTo(ns)[k - 1], ns[k].alignment) + ns[k].size
    BY <1>2, UpToRun
  <1>7. UpTo(ns)[k] = NextMultiple(total, Head(left).alignment) + Head(left).size
    BY <1>3, <1>4, <1>5, <1>6 DEF SumOf
  <1>8. Len(Tail(left)) = Len(left) - 1 /\ \A j \in 1..(Len(left) - 1) : Tail(left)[j] = left[j + 1]
    BY <1>1
  <1>9. SumOf(ns, Tail(left), UpTo(ns)[k])
    <2>1. Len(Tail(left)) <= Len(ns) BY <1>1, <1>8 DEF SumOf
    <2>2. ASSUME NEW j \in 1..Len(Tail(left))
          PROVE  Tail(left)[j] = ns[Len(ns) - Len(Tail(left)) + j]
      <3>1. j + 1 \in 1..Len(left) /\ j \in 1..(Len(left) - 1) BY <1>1, <1>8
      <3>2. left[j + 1] = ns[Len(ns) - Len(left) + (j + 1)] BY <3>1 DEF SumOf
      <3>3. Len(ns) - Len(left) + (j + 1) = Len(ns) - Len(Tail(left)) + j BY <1>1, <1>8, <3>1
      <3> QED BY <1>8, <3>1, <3>2, <3>3
    <2>3. Len(ns) - Len(Tail(left)) = k BY <1>1, <1>8
    <2> QED BY <2>1, <2>2, <2>3 DEF SumOf
  <1> HIDE DEF k
  <1> QED BY <1>2, <1>3, <1>7, <1>9 DEF k

(* One more node planned.                                                   *)
LEMMA AppendKeeps ==
  ASSUME PlanInv, NEW e \in Execs, PlanAppend(e)
  PROVE  PlanInv'
  <1> DEFINE n == Head(todo)
             p == Extended(plan[e], n)
  <1>1. Types BY DEF PlanInv
  <1>2. /\ nodes \in Seq(WorkspaceNode) /\ todo \in Seq(WorkspaceNode)
        /\ plan \in [Execs -> PlanType] /\ plan[e] \in PlanType
        /\ ref_count \in [Arenas -> Int] /\ estate' = estate
    BY <1>1 DEF Types, PlanAppend
  <1>3. estate[e] = "planning" /\ todo # <<>> /\ todo' = Tail(todo) BY DEF PlanAppend
  <1>4. /\ PlanSound(estate[e], plan[e], desc) /\ Packed(plan[e]) /\ plan[e].arena = None
        /\ SumOf(nodes, todo, plan[e].total_size)
    BY <1>3 DEF PlanInv, PlanSound, Planning
  <1>5. plan[e].total_size \in 0..SizeMax /\ plan[e].total_size \in Nat
    BY <1>2, SizesAssumption DEF PlanType
  <1>6. /\ n \in WorkspaceNode /\ todo' \in Seq(WorkspaceNode)
        /\ SumOf(nodes, todo', NextMultiple(plan[e].total_size, n.alignment) + n.size)
    BY <1>2, <1>3, <1>4, <1>5, SumAdvances
  <1>7. /\ ~AlignOverflows(plan[e].total_size, n.alignment)
        /\ ~SizeOverflows(AlignUp(plan[e].total_size, n.alignment), n.size)
    BY DEF PlanAppend, Fits, Offset
  <1> HIDE DEF n
  <1>8. /\ p \in PlanType /\ Packed(p) /\ p.arena = None
        /\ p.total_size = NextMultiple(plan[e].total_size, n.alignment) + n.size
    BY <1>2, <1>4, <1>6, <1>7, ExtendedExact
  <1>9. plan' = Replaced(plan, e, p)
    BY DEF PlanAppend, Replaced, Extended, PlanOf, Larger, Offset, n
  <1> HIDE DEF p
  <1>10. plan'[e] = p BY <1>2, <1>9, ReplacedAt
  <1>11. PlanSound(estate[e], p, desc) BY <1>3, <1>8 DEF PlanSound
  <1>12. Planning(estate, nodes, todo', plan')
    <2>1. \A f \in Execs : estate[f] = "planning" => f = e
      BY <1>3 DEF PlanInv, Planning, Running
    <2> QED BY <1>6, <1>8, <1>10, <2>1 DEF PlanInv, Planning
  <1>13. \A x \in Arenas : /\ ref_count[x] = ref_count[x] + One(p.arena = x) - One(plan[e].arena = x)
                           /\ p.arena # x
    <2>1. \A x \in Arenas : None # x /\ ref_count[x] \in Int BY <1>2, ExecsAssumption
    <2> QED BY <1>4, <1>8, <2>1 DEF One
  <1>14. estate' = Replaced(estate, e, "planning") BY <1>1, <1>2, <1>3 DEF Types, Replaced
  <1>15. /\ ref_count' = ref_count /\ UNCHANGED <<nodes, galive, garena, desc, handle>>
    BY DEF PlanAppend, graphVars, arenaVars
  <1> QED BY <1>2, <1>3, <1>6, <1>8, <1>9, <1>11, <1>12, <1>13, <1>14, <1>15, PlanKeeps

(* mg_workspace_plan_clear, wherever instantiation gives up or the exec     *)
(* ends.                                                                    *)
LEMMA ClearKeeps ==
  ASSUME PlanInv, NEW e \in Execs, NEW state \in {"overflow", "failed", "destroyed"},
         Clear(e, state), Running(estate[e]) \/ Idle
  PROVE  PlanInv'
  <1>1. Types BY DEF PlanInv
  <1>2. /\ plan \in [Execs -> PlanType] /\ plan[e] \in PlanType /\ ref_count \in [Arenas -> Int]
        /\ plan[e].arena \in Arenas \cup {None}
    BY <1>1 DEF Types, PlanType
  <1>3. /\ estate' = [estate EXCEPT ![e] = state] /\ plan' = Replaced(plan, e, NoPlan)
        /\ ref_count' = Released(ref_count, plan[e].arena) /\ todo' = <<>>
        /\ UNCHANGED <<nodes, galive, garena, desc, handle>>
    BY DEF Clear, graphVars, Replaced
  <1>4. NoPlan \in PlanType /\ Packed(NoPlan) /\ NoPlan.arena = None
    BY NoPlanPacked DEF NoPlan
  <1>5. PlanSound(state, NoPlan, desc) BY <1>4 DEF PlanSound
  <1>6. <<>> \in Seq(WorkspaceNode) OBVIOUS
  <1>7. ref_count' \in [Arenas -> Int] BY <1>2, <1>3, RetainedExact
  <1>8. \A x \in Arenas :
           /\ ref_count'[x] = ref_count[x] + One(NoPlan.arena = x) - One(plan[e].arena = x)
           /\ NoPlan.arena # x
    <2> SUFFICES ASSUME NEW x \in Arenas
                 PROVE  /\ ref_count'[x] = ref_count[x] + One(NoPlan.arena = x) - One(plan[e].arena = x)
                        /\ NoPlan.arena # x
      OBVIOUS
    <2>1. None # x /\ ref_count[x] \in Int /\ One(plan[e].arena = x) \in Int
      BY <1>2, ExecsAssumption DEF One
    <2>2. NoPlan.arena # x BY <1>4, <2>1
    <2>3. One(NoPlan.arena = x) = 0 BY <2>2 DEF One
    <2>4. ref_count'[x] = ref_count[x] - One(plan[e].arena = x)
      BY <1>2, <1>3, RetainedExact
    <2> QED BY <2>1, <2>2, <2>3, <2>4
  <1>9. \A f \in Execs : ~Running(estate'[f])
    <2> SUFFICES ASSUME NEW f \in Execs PROVE ~Running(estate'[f]) OBVIOUS
    <2>1. CASE f = e
      <3>1. estate'[f] = state BY <1>1, <1>3, <2>1 DEF Types
      <3> QED BY <3>1 DEF Running
    <2>2. CASE f # e
      <3>1. estate'[f] = estate[f] BY <1>1, <1>3, <2>2 DEF Types
      <3> QED BY <2>2, <3>1 DEF PlanInv, Planning, Running, Idle
    <2> QED BY <2>1, <2>2
  <1>10. Planning(estate', nodes, todo', plan') BY <1>9 DEF Planning, Running
  <1>11. estate' = Replaced(estate, e, state) BY <1>3 DEF Replaced
  <1>12. /\ state \in {"planning", "planned", "live", "overflow", "failed", "destroyed"}
         /\ todo' \in Seq(WorkspaceNode)
    BY <1>3, <1>6
  <1>13. \A x \in Arenas : NoPlan.arena = x => desc[x].size # 0 BY <1>8
  <1>14. /\ plan' = Replaced(plan, e, NoPlan) /\ UNCHANGED <<nodes, galive, garena, desc, handle>>
    BY <1>3
  <1>15. \A x \in Arenas :
            ref_count'[x] = ref_count[x] + One(NoPlan.arena = x) - One(plan[e].arena = x)
    BY <1>8
  <1> QED BY <1>4, <1>5, <1>7, <1>10, <1>11, <1>12, <1>13, <1>14, <1>15, PlanKeeps

(* Planning ends: the plan passed the arena checks and retains the arena.   *)
LEMMA EndKeeps ==
  ASSUME PlanInv, NEW e \in Execs, PlanEnd(e)
  PROVE  PlanInv'
  <1> DEFINE p == [plan[e] EXCEPT !.arena = garena]
  <1>1. Types BY DEF PlanInv
  <1>2. /\ plan \in [Execs -> PlanType] /\ plan[e] \in PlanType /\ ref_count \in [Arenas -> Int]
        /\ garena \in Arenas \cup {None} /\ todo \in Seq(WorkspaceNode)
    BY <1>1 DEF Types
  <1>3. /\ estate[e] = "planning" /\ estate' = [estate EXCEPT ![e] = "planned"]
        /\ plan' = Replaced(plan, e, p)
        /\ ref_count' = Retained(ref_count, garena) /\ todo' = todo
        /\ UNCHANGED <<nodes, galive, garena, desc, handle>>
    BY <1>2 DEF PlanEnd, graphVars, Replaced
  <1>4. Packed(plan[e]) /\ plan[e].arena = None BY <1>3 DEF PlanInv, PlanSound
  <1>5. /\ p \in PlanType /\ Packed(p) /\ p.arena = garena
        /\ p.total_size = plan[e].total_size /\ p.alignment = plan[e].alignment
    BY <1>2, <1>4, WithArena
  <1> HIDE DEF p
  <1>6. PlanSound("planned", p, desc) BY <1>5 DEF PlanSound, PlanEnd, WithinArena
  <1>7. ref_count' \in [Arenas -> Int] BY <1>2, <1>3, RetainedExact
  <1>8. \A x \in Arenas : ref_count'[x] = ref_count[x] + One(p.arena = x) - One(plan[e].arena = x)
    <2> SUFFICES ASSUME NEW x \in Arenas
                 PROVE  ref_count'[x] = ref_count[x] + One(p.arena = x) - One(plan[e].arena = x)
      OBVIOUS
    <2>1. None # x /\ ref_count[x] \in Int /\ One(p.arena = x) \in Int
      BY <1>2, ExecsAssumption DEF One
    <2>2. One(plan[e].arena = x) = 0 BY <1>4, <2>1 DEF One
    <2>3. ref_count'[x] = ref_count[x] + One(p.arena = x) BY <1>2, <1>3, <1>5, RetainedExact
    <2> QED BY <2>1, <2>2, <2>3
  <1>9. \A x \in Arenas : p.arena = x => desc[x].size # 0 BY <1>5 DEF PlanInv, ArenaSound
  <1>10. \A f \in Execs : Running(estate'[f]) => f = e
    BY <1>1, <1>3 DEF PlanInv, Planning, Running, Types
  <1>11. estate'[e] = "planned" BY <1>1, <1>3 DEF Types
  <1>12. Planning(estate', nodes, todo', plan') BY <1>10, <1>11 DEF Planning, Running
  <1>13. todo' \in Seq(WorkspaceNode) BY <1>2, <1>3
  <1>14. estate' = Replaced(estate, e, "planned") BY <1>3 DEF Replaced
  <1>15. /\ plan' = Replaced(plan, e, p) /\ UNCHANGED <<nodes, galive, garena, desc, handle>>
    BY <1>3
  <1> QED BY <1>5, <1>6, <1>7, <1>8, <1>9, <1>12, <1>13, <1>14, <1>15, PlanKeeps

(* The rest of mgGraphInstantiate.                                          *)
LEMMA InstantiateKeeps ==
  ASSUME PlanInv, NEW e \in Execs, InstantiateEnd(e)
  PROVE  PlanInv'
  <1>1. Types BY DEF PlanInv
  <1>2. /\ estate[e] = "planned" /\ estate' = [estate EXCEPT ![e] = "live"]
        /\ UNCHANGED <<graphVars, arenaVars, plan, todo>>
    BY DEF InstantiateEnd
  <1>3. Types' BY <1>1, <1>2 DEF Types, graphVars, arenaVars
  <1>4. ASSUME NEW f \in Execs PROVE PlanSound(estate'[f], plan[f], desc)
    <2>1. PlanSound(estate[f], plan[f], desc) BY DEF PlanInv
    <2>2. CASE f = e
      <3>1. estate'[f] = "live" BY <1>1, <1>2, <2>2 DEF Types
      <3> QED BY <2>1, <3>1 DEF PlanSound
    <2>3. CASE f # e
      <3>1. estate'[f] = estate[f] BY <1>1, <1>2, <2>3 DEF Types
      <3> QED BY <2>1, <3>1
    <2> QED BY <2>2, <2>3
  <1>5. \A f \in Execs : ~Running(estate'[f])
    BY <1>1, <1>2 DEF PlanInv, Planning, Running, Types
  <1>6. Planning(estate', nodes, todo, plan) BY <1>5 DEF Planning, Running
  <1> QED BY <1>2, <1>3, <1>4, <1>6 DEF PlanInv, graphVars, arenaVars

-----------------------------------------------------------------------------

(* The invariant holds at the start.                                        *)
LEMMA InvInit == Init => PlanInv
  <1> SUFFICES ASSUME Init PROVE PlanInv OBVIOUS
  <1>1. NoPlan \in PlanType /\ Packed(NoPlan) BY NoPlanPacked
  <1>2. <<>> \in Seq(WorkspaceNode) /\ 0 \in 0..SizeMax BY SizesAssumption
  <1>3. Types BY <1>1, <1>2 DEF Init, Types
  <1>4. ASSUME NEW e \in Execs PROVE PlanSound(estate[e], plan[e], desc)
    <2>1. estate[e] = "none" /\ plan[e] = NoPlan BY DEF Init
    <2> QED BY <1>1, <2>1 DEF PlanSound, NoPlan
  <1>5. ASSUME NEW a \in Arenas
        PROVE  /\ ref_count[a] = One(handle[a]) + One(garena = a) + Cardinality(Refs(plan, a))
               /\ ~handle[a] /\ garena # a /\ Refs(plan, a) = {}
    <2>1. None # a BY ExecsAssumption
    <2>2. ~handle[a] /\ garena # a /\ ref_count[a] = 0 BY <2>1 DEF Init
    <2>3. Refs(plan, a) = {} BY <2>1 DEF Init, Refs, NoPlan
    <2>4. Cardinality(Refs(plan, a)) = 0 BY <2>3, FS_EmptySet
    <2>5. One(handle[a]) = 0 /\ One(garena = a) = 0 BY <2>2 DEF One
    <2>6. ref_count[a] = One(handle[a]) + One(garena = a) + Cardinality(Refs(plan, a))
      BY <2>2, <2>4, <2>5
    <2> QED BY <2>2, <2>3, <2>6
  <1>6. ArenaSound(handle, garena, ref_count, desc, plan) BY <1>5 DEF ArenaSound
  <1>7. Planning(estate, nodes, todo, plan) BY DEF Init, Planning, Running
  <1> QED BY <1>3, <1>4, <1>6, <1>7 DEF PlanInv

(* Every call keeps it.                                                     *)
LEMMA InvNext == PlanInv /\ [Next]_vars => PlanInv'
  <1> SUFFICES ASSUME PlanInv, [Next]_vars PROVE PlanInv' OBVIOUS
  <1>1. ASSUME NEW a \in Arenas, NEW size \in Sizes, NEW alignment \in Alignments,
               ArenaCreate(a, size, alignment)
        PROVE  PlanInv'
    BY <1>1, CreateKeeps
  <1>2. ASSUME NEW a \in Arenas, ArenaDestroy(a) \/ GraphSetArena(a) PROVE PlanInv'
    BY <1>2, ArenaDestroyKeeps, GraphSetArenaKeeps
  <1>3. CASE GraphDestroy BY <1>3, GraphDestroyKeeps
  <1>4. ASSUME NEW size \in Sizes, NEW alignment \in Alignments, AddWorkspaceNode(size, alignment)
        PROVE  PlanInv'
    BY <1>4, NodeKeeps
  <1>5. ASSUME NEW e \in Execs, PlanBegin(e) \/ PlanAppend(e) \/ PlanEnd(e) \/ InstantiateEnd(e)
        PROVE  PlanInv'
    BY <1>5, BeginKeeps, AppendKeeps, EndKeeps, InstantiateKeeps
  <1>6. ASSUME NEW e \in Execs,
               PlanOverflows(e) \/ PlanExceedsArena(e) \/ InstantiateFails(e) \/ ExecDestroy(e)
        PROVE  PlanInv'
    <2>1. /\ Running(estate[e]) \/ Idle
          /\ Clear(e, "overflow") \/ Clear(e, "failed") \/ Clear(e, "destroyed")
      BY <1>6 DEF PlanOverflows, PlanExceedsArena, InstantiateFails, ExecDestroy, Running
    <2> QED BY <2>1, ClearKeeps
  <1>7. CASE UNCHANGED vars
    <2>1. Types' BY <1>7 DEF vars, PlanInv, Types
    <2> QED BY <1>7, <2>1 DEF vars, PlanInv, Types
  <1> QED BY <1>1, <1>2, <1>3, <1>4, <1>5, <1>6, <1>7 DEF Next

(* The inductive invariant holds for every width of size_t, every number of *)
(* arenas, execs and reservations, and every divisor chain of alignments.   *)
THEOREM PlanInvariant == Spec => []PlanInv
  BY InvInit, InvNext, PTL DEF Spec

(* An arena's ref_count is the number of its holders, after every sequence  *)
(* of calls and failures.                                                   *)
THEOREM RefsExact == Spec => []ArenaRefExact
  <1>1. PlanInv => ArenaRefExact BY DEF PlanInv, ArenaSound, ArenaRefExact, One, Refs
  <1> QED BY <1>1, PlanInvariant, PTL

(* Every variable keeps its type: in particular no reference count goes     *)
(* below zero.                                                              *)
THEOREM TypeCorrect == Spec => []TypeOK
  <1>1. ASSUME PlanInv PROVE TypeOK
    <2>1. Types BY <1>1 DEF PlanInv
    <2>2. ref_count \in [Arenas -> Nat]
      <3>1. ASSUME NEW a \in Arenas PROVE ref_count[a] \in Nat
        <4>1. Refs(plan, a) \subseteq Execs BY DEF Refs
        <4>2. Cardinality(Refs(plan, a)) \in Nat
          BY <4>1, ExecsAssumption, FS_Subset, FS_CardinalityType
        <4>3. One(handle[a]) \in Nat /\ One(garena = a) \in Nat BY DEF One
        <4>4. ref_count[a] = One(handle[a]) + One(garena = a) + Cardinality(Refs(plan, a))
          BY <1>1 DEF PlanInv, ArenaSound
        <4> QED BY <4>2, <4>3, <4>4
      <3> QED BY <2>1, <3>1 DEF Types
    <2>3. PlanType \subseteq [records : Seq(Record), total_size : 0..SizeMax,
                              alignment : 0..SizeMax, arena : Arenas \cup {None}]
      <3>1. Alignments \subseteq 1..SizeMax /\ SizeMax \in Nat BY SizesAssumption
      <3>2. Placed \subseteq Record BY <3>1 DEF Placed, Record
      <3>3. Seq(Placed) \subseteq Seq(Record) BY <3>2
      <3> SUFFICES ASSUME NEW p \in PlanType
                   PROVE  p \in [records : Seq(Record), total_size : 0..SizeMax,
                                 alignment : 0..SizeMax, arena : Arenas \cup {None}]
        OBVIOUS
      <3>4. p.records \in Seq(Record) BY <3>3 DEF PlanType
      <3>5. p.alignment \in 0..SizeMax
        <4>1. p.alignment \in Alignments \cup {0} BY DEF PlanType
        <4>2. CASE p.alignment = 0 BY <3>1, <4>2
        <4>3. CASE p.alignment \in Alignments
          <5>1. p.alignment \in 1..SizeMax BY <3>1, <4>3
          <5> QED BY <3>1, <5>1
        <4> QED BY <4>1, <4>2, <4>3
      <3> QED BY <3>4, <3>5 DEF PlanType
    <2> QED BY <2>1, <2>2, <2>3 DEF Types, TypeOK
  <1> QED BY <1>1, PlanInvariant, PTL

(* No two reservations of a plan share a byte and all lie in the            *)
(* allocation: nothing wrapped, at any width of size_t.                     *)
THEOREM PlansDisjoint == Spec => []RecordsDisjoint
  <1>1. PlanInv => RecordsDisjoint BY DEF PlanInv, PlanSound, Packed, RecordsDisjoint
  <1> QED BY <1>1, PlanInvariant, PTL

(* Every reservation starts on its alignment, in any allocation that starts *)
(* on the alignment of the plan.                                            *)
THEOREM PlansAligned == Spec => []RecordsAligned
  <1>1. ASSUME PlanInv, NEW e \in Execs, NEW j \in DOMAIN plan[e].records
        PROVE  LET r == plan[e].records[j] IN
               r.offset % r.alignment = 0 /\ plan[e].alignment % r.alignment = 0
    <2> DEFINE r == plan[e].records[j]
    <2>1. plan[e] \in PlanType /\ Packed(plan[e]) BY <1>1 DEF PlanInv, PlanSound, Types
    <2>2. plan[e].records \in Seq(Placed) /\ plan[e].alignment \in Alignments \cup {0}
      BY <2>1 DEF PlanType
    <2>3. r \in Placed BY <2>2
    <2>4. r.alignment \in Alignments /\ r.alignment \in 1..SizeMax
      BY <2>3, SizesAssumption DEF Placed
    <2>5. r.offset % r.alignment = 0 /\ r.alignment <= plan[e].alignment BY <2>1 DEF Packed
    <2> HIDE DEF r
    <2>6. plan[e].alignment # 0 BY <2>4, <2>5, SizesAssumption
    <2>7. plan[e].alignment % r.alignment = 0 BY <2>2, <2>4, <2>5, <2>6, PowersAssumption
    <2> QED BY <2>5, <2>7 DEF r
  <1>2. PlanInv => RecordsAligned BY <1>1 DEF RecordsAligned
  <1> QED BY <1>2, PlanInvariant, PTL

(* A plan fits the arena it refers to.                                      *)
THEOREM PlansFit == Spec => []FitsArena
  <1>1. PlanInv => FitsArena BY DEF PlanInv, PlanSound, FitsArena
  <1> QED BY <1>1, PlanInvariant, PTL

(* A reservation is refused for overflow only when size_t cannot hold what  *)
(* the nodes need.                                                          *)
LEMMA OverflowNeeded ==
  ASSUME PlanInv, NEW e \in Execs, PlanOverflows(e)
  PROVE  Needed > SizeMax
  <1> DEFINE total == plan[e].total_size
             n == Head(todo)
             k == Len(nodes) - Len(todo) + 1
             at == NextMultiple(total, n.alignment)
  <1>1. /\ nodes \in Seq(WorkspaceNode) /\ todo \in Seq(WorkspaceNode) /\ plan[e] \in PlanType
        /\ SizeMax \in Nat
    BY SizesAssumption DEF PlanInv, Types
  <1>2. estate[e] = "planning" /\ todo # <<>> /\ ~Fits(e) BY DEF PlanOverflows
  <1>3. SumOf(nodes, todo, total) BY <1>2 DEF PlanInv, Planning
  <1>4. total \in 0..SizeMax /\ total \in Nat BY <1>1 DEF PlanType
  <1>5. /\ n \in WorkspaceNode /\ k \in 1..Len(nodes)
        /\ UpTo(nodes)[k] = NextMultiple(total, n.alignment) + n.size
    BY <1>1, <1>2, <1>3, <1>4, SumAdvances
  <1>6. \/ AlignOverflows(total, n.alignment)
        \/ ~AlignOverflows(total, n.alignment) /\ SizeOverflows(AlignUp(total, n.alignment), n.size)
    BY <1>2 DEF Fits, Offset
  <1> HIDE DEF total, n, k
  <1>7. n.size \in Nat \ {0} /\ n.alignment \in Alignments /\ n.alignment \in Nat \ {0}
    BY <1>5, NodeBounds
  <1>8. at \in Nat BY <1>4, <1>7, NextMultipleBounds
  <1>9. at + n.size > SizeMax
    <2>1. CASE AlignOverflows(total, n.alignment)
      <3>1. at > SizeMax BY <1>4, <1>7, <2>1, AlignUpExact
      <3> HIDE DEF at
      <3> QED BY <1>1, <1>7, <1>8, <3>1
    <2>2. CASE ~AlignOverflows(total, n.alignment) /\ SizeOverflows(AlignUp(total, n.alignment), n.size)
      <3>1. AlignUp(total, n.alignment) = at BY <1>4, <1>7, <2>2, AlignUpExact
      <3> HIDE DEF at
      <3>2. at > SizeMax - n.size BY <2>2, <3>1 DEF SizeOverflows
      <3> QED BY <1>1, <1>7, <1>8, <3>2
    <2> QED BY <1>6, <2>1, <2>2
  <1>10. k \in 0..Len(nodes) /\ Len(nodes) \in Nat BY <1>1, <1>5
  <1>11. UpTo(nodes)[k] <= Needed BY <1>1, <1>10, UpToGrows DEF Needed
  <1>12. Needed \in Nat
    <2>1. UpTo(nodes) \in [0..Len(nodes) -> Nat] BY <1>1, UpToRun
    <2>2. Len(nodes) \in 0..Len(nodes) BY <1>10
    <2> QED BY <2>1, <2>2 DEF Needed
  <1> HIDE DEF at
  <1>13. UpTo(nodes)[k] = at + n.size BY <1>5 DEF at
  <1> QED BY <1>1, <1>7, <1>8, <1>9, <1>11, <1>12, <1>13

(* A complete plan has the size its nodes need.                             *)
LEMMA EndNeeded ==
  ASSUME PlanInv, NEW e \in Execs, PlanEnd(e)
  PROVE  plan'[e].total_size = Needed
  <1>1. /\ plan \in [Execs -> PlanType] /\ plan[e] \in PlanType /\ nodes \in Seq(WorkspaceNode)
    BY DEF PlanInv, Types
  <1>2. estate[e] = "planning" /\ todo = <<>> BY DEF PlanEnd
  <1>3. SumOf(nodes, <<>>, plan[e].total_size) BY <1>2 DEF PlanInv, Planning
  <1>4. Len(<<>>) = 0 /\ Len(nodes) - 0 = Len(nodes) BY <1>1
  <1>5. plan[e].total_size = Needed BY <1>3, <1>4 DEF SumOf, Needed
  <1>6. plan'[e] = [plan[e] EXCEPT !.arena = garena] BY <1>1 DEF PlanEnd
  <1>7. plan'[e].total_size = plan[e].total_size BY <1>1, <1>6 DEF PlanType
  <1> QED BY <1>5, <1>7

(* Planning overflows only when it must, and a plan is never larger than    *)
(* what its nodes need in order: both sums of mg_workspace_plan_append are  *)
(* right at the boundary of size_t.                                         *)
THEOREM PlansExact == Spec => PlanningExact
  <1> DEFINE E(e) ==
        /\ estate[e] = "planning" /\ estate'[e] = "overflow" => Needed > SizeMax
        /\ estate'[e] = "planned" => plan'[e].total_size = Needed
  <1>1. ASSUME PlanInv, Next, NEW e \in Execs PROVE E(e)
    <2>1. Types BY <1>1 DEF PlanInv
    <2>2. \A f \in Execs : Running(estate[e]) /\ Running(estate[f]) => f = e
      BY <1>1 DEF PlanInv, Planning
    <2>3. CASE Idle /\ estate' = estate BY <2>3 DEF Idle
    <2>4. ASSUME NEW f \in Execs, PlanBegin(f) PROVE E(e)
      <3>1. /\ Idle /\ estate' = [estate EXCEPT ![f] = "planning"] BY <2>4 DEF PlanBegin
      <3>2. estate'[e] = estate[e] \/ estate'[e] = "planning" BY <2>1, <3>1 DEF Types
      <3> QED BY <3>1, <3>2 DEF Idle
    <2>5. ASSUME NEW f \in Execs, PlanAppend(f) PROVE E(e)
      <3>1. estate[f] = "planning" /\ estate' = estate BY <2>5 DEF PlanAppend
      <3> QED BY <2>2, <3>1 DEF Running
    <2>6. ASSUME NEW f \in Execs, PlanEnd(f) PROVE E(e)
      <3>1. /\ estate[f] = "planning" /\ estate' = [estate EXCEPT ![f] = "planned"]
        BY <2>6 DEF PlanEnd
      <3>2. CASE f = e
        <4>1. estate'[e] = "planned" BY <2>1, <3>1, <3>2 DEF Types
        <4>2. plan'[e].total_size = Needed BY <1>1, <2>6, <3>2, EndNeeded
        <4> QED BY <4>1, <4>2
      <3>3. CASE f # e
        <4>1. estate'[e] = estate[e] BY <2>1, <3>1, <3>3 DEF Types
        <4> QED BY <2>2, <3>1, <3>3, <4>1 DEF Running
      <3> QED BY <3>2, <3>3
    <2>7. ASSUME NEW f \in Execs, InstantiateEnd(f) PROVE E(e)
      <3>1. /\ estate[f] = "planned" /\ estate' = [estate EXCEPT ![f] = "live"]
        BY <2>7 DEF InstantiateEnd
      <3>2. f = e => estate'[e] = "live" BY <2>1, <3>1 DEF Types
      <3>3. f # e => estate'[e] = estate[e] BY <2>1, <3>1 DEF Types
      <3> QED BY <2>2, <3>1, <3>2, <3>3 DEF Running
    <2>8. ASSUME NEW f \in Execs, NEW state \in {"overflow", "failed", "destroyed"},
                 Clear(f, state), Running(estate[f]) \/ Idle,
                 state = "overflow" => PlanOverflows(f)
          PROVE  E(e)
      <3>1. estate' = [estate EXCEPT ![f] = state] BY <2>8 DEF Clear
      <3>2. CASE f = e
        <4>1. estate'[e] = state BY <2>1, <3>1, <3>2 DEF Types
        <4>2. state = "overflow" => Needed > SizeMax BY <1>1, <2>8, <3>2, OverflowNeeded
        <4> QED BY <4>1, <4>2
      <3>3. CASE f # e
        <4>1. estate'[e] = estate[e] BY <2>1, <3>1, <3>3 DEF Types
        <4> QED BY <2>2, <2>8, <3>3, <4>1 DEF Running, Idle
      <3> QED BY <3>2, <3>3
    <2>9. \/ Idle /\ estate' = estate
          \/ \E f \in Execs : PlanBegin(f) \/ PlanAppend(f) \/ PlanEnd(f) \/ InstantiateEnd(f)
          \/ \E f \in Execs, state \in {"overflow", "failed", "destroyed"} :
                /\ Clear(f, state) /\ (Running(estate[f]) \/ Idle)
                /\ state = "overflow" => PlanOverflows(f)
      <3>1. ASSUME NEW f \in Execs,
                   PlanOverflows(f) \/ PlanExceedsArena(f) \/ InstantiateFails(f) \/ ExecDestroy(f)
            PROVE  \E state \in {"overflow", "failed", "destroyed"} :
                      /\ Clear(f, state) /\ (Running(estate[f]) \/ Idle)
                      /\ state = "overflow" => PlanOverflows(f)
        BY <3>1 DEF PlanOverflows, PlanExceedsArena, InstantiateFails, ExecDestroy, Running
      <3>2. ASSUME NEW a \in Arenas, NEW size \in Sizes, NEW alignment \in Alignments,
                   ArenaCreate(a, size, alignment)
            PROVE  Idle /\ estate' = estate
        BY <3>2 DEF ArenaCreate
      <3>3. ASSUME NEW a \in Arenas, ArenaDestroy(a) \/ GraphSetArena(a)
            PROVE  Idle /\ estate' = estate
        BY <3>3 DEF ArenaDestroy, GraphSetArena
      <3>4. GraphDestroy => Idle /\ estate' = estate BY DEF GraphDestroy
      <3>5. ASSUME NEW size \in Sizes, NEW alignment \in Alignments,
                   AddWorkspaceNode(size, alignment)
            PROVE  Idle /\ estate' = estate
        BY <3>5 DEF AddWorkspaceNode
      <3> QED BY <1>1, <3>1, <3>2, <3>3, <3>4, <3>5 DEF Next
    <2> HIDE DEF E
    <2> QED BY <2>3, <2>4, <2>5, <2>6, <2>7, <2>8, <2>9
  <1>2. PlanInv /\ [Next]_vars => [\A e \in Execs : E(e)]_vars BY <1>1
  <1>3. Spec => [][\A e \in Execs : E(e)]_vars BY <1>2, PlanInvariant, PTL DEF Spec
  <1> QED BY <1>3, PTL DEF PlanningExact

===============================================================================
