-------------------------- MODULE BufferRangesProofs --------------------------
(***************************************************************************)
(* The properties of BufferRanges for every width of size_t and every      *)
(* descriptor a caller may pass. First the one loop of the module,         *)
(* mg_shape_byte_count, then what each check of a range establishes, then  *)
(* one lemma per call, and the theorems.                                   *)
(***************************************************************************)
EXTENDS BufferRanges, BoundedInduction

-----------------------------------------------------------------------------

(* The element count follows the loop of mg_shape_byte_count.               *)
LEMMA ElementsRun ==
  ASSUME NEW shape \in Seq(0..SizeMax)
  PROVE  \E e \in [0..Len(shape) -> Nat] :
            /\ e[0] = 1
            /\ \A k \in 1..Len(shape) :
                  e[k] = IF e[k - 1] = 0 \/ shape[k] = 0 THEN 0
                         ELSE IF Overflows(e[k - 1], shape[k]) THEN 0
                         ELSE SizeT(e[k - 1] * shape[k])
            /\ Elements(shape) = e[Len(shape)]
  <1> DEFINE n == Len(shape)
             next(k, x) == IF x = 0 \/ shape[k] = 0 THEN 0
                           ELSE IF Overflows(x, shape[k]) THEN 0
                           ELSE SizeT(x * shape[k])
             G == [p \in (1..n) \X Nat |-> next(p[1], p[2])]
             e[k \in 0..n] == IF k = 0 THEN 1 ELSE next(k, e[k - 1])
  <1>1. n \in Nat OBVIOUS
  <1>2. ASSUME NEW k \in 1..n, NEW x \in Nat PROVE next(k, x) \in Nat
    <2>1. shape[k] \in Nat BY SizesAssumption
    <2>2. x * shape[k] \in Nat BY <2>1
    <2>3. SizeT(x * shape[k]) \in Nat BY <2>2, SizesAssumption DEF SizeT
    <2> QED BY <2>3
  <1>3. G \in [(1..n) \X Nat -> Nat] BY <1>2
  <1>4. PICK f \in [0..n -> Nat] : Steps(f, n, 1, G) BY <1>1, <1>3, RunExists DEF HasRun
  <1>5. ASSUME NEW k \in 1..n PROVE f[k] = next(k, f[k - 1])
    <2>1. f[k - 1] \in Nat BY <1>1
    <2>2. <<k, f[k - 1]>> \in (1..n) \X Nat BY <2>1
    <2>3. G[<<k, f[k - 1]>>] = next(k, f[k - 1]) BY <2>2
    <2> QED BY <2>3, <1>4 DEF Steps
  <1>6. f[0] = 1 BY <1>4 DEF Steps
  <1> HIDE DEF next, G
  <1>7. f = [k \in 0..n |-> IF k = 0 THEN 1 ELSE next(k, f[k - 1])]
    <2> DEFINE g == [k \in 0..n |-> IF k = 0 THEN 1 ELSE next(k, f[k - 1])]
    <2>1. ASSUME NEW k \in 0..n PROVE f[k] = g[k]
      <3>1. CASE k = 0 BY <3>1, <1>6
      <3>2. CASE k # 0
        <4>1. k \in 1..n BY <3>2, <1>1
        <4> QED BY <4>1, <1>5, <3>2
      <3> QED BY <3>1, <3>2
    <2> QED BY <2>1
  <1>8. e = [k \in 0..n |-> IF k = 0 THEN 1 ELSE next(k, e[k - 1])]
    BY <1>7
  <1> HIDE DEF e
  <1>9. e[0] = 1 BY <1>8, <1>1
  <1>10. ASSUME NEW k \in 1..n PROVE e[k] = next(k, e[k - 1])
    <2>1. k \in 0..n /\ k # 0 BY <1>1
    <2> QED BY <2>1, <1>8
  <1>11. \A k \in 0..n : e[k] \in Nat
    <2> DEFINE T == {k \in 0..n : e[k] \in Nat}
    <2>1. 0 \in T BY <1>1, <1>9
    <2>2. ASSUME NEW k \in 1..n, k - 1 \in T PROVE k \in T
      <3>1. e[k] \in Nat BY <1>2, <1>10, <2>2
      <3> QED BY <3>1
    <2>3. T = 0..n BY <1>1, <2>1, <2>2, InductionUpTo
    <2> QED BY <2>3
  <1>12. e \in [0..n -> Nat]
    <2>1. e = [k \in 0..n |-> e[k]] BY <1>8
    <2> QED BY <2>1, <1>11
  <1>13. Elements(shape) = e[n] BY DEF Elements, e, next
  <1>14. \A k \in 1..n : e[k] = next(k, e[k - 1]) BY <1>10
  <1> QED BY <1>9, <1>12, <1>13, <1>14 DEF next

(* The product of a shape follows its recursion.                            *)
LEMMA ProductRun ==
  ASSUME NEW shape \in Seq(0..SizeMax)
  PROVE  \E p \in [0..Len(shape) -> Nat] :
            /\ p[0] = 1
            /\ \A k \in 1..Len(shape) : p[k] = p[k - 1] * shape[k]
            /\ Product(shape) = p[Len(shape)]
  <1> DEFINE n == Len(shape)
             G == [q \in (1..n) \X Nat |-> q[2] * shape[q[1]]]
             p[k \in 0..n] == IF k = 0 THEN 1 ELSE p[k - 1] * shape[k]
  <1>1. n \in Nat OBVIOUS
  <1>2. ASSUME NEW k \in 1..n, NEW x \in Nat PROVE x * shape[k] \in Nat
    <2>1. shape[k] \in Nat BY SizesAssumption
    <2> QED BY <2>1
  <1>3. G \in [(1..n) \X Nat -> Nat] BY <1>2
  <1>4. PICK f \in [0..n -> Nat] : Steps(f, n, 1, G) BY <1>1, <1>3, RunExists DEF HasRun
  <1>5. ASSUME NEW k \in 1..n PROVE f[k] = f[k - 1] * shape[k]
    <2>1. f[k - 1] \in Nat BY <1>1
    <2>2. <<k, f[k - 1]>> \in (1..n) \X Nat BY <2>1
    <2>3. G[<<k, f[k - 1]>>] = f[k - 1] * shape[k] BY <2>2
    <2> QED BY <2>3, <1>4 DEF Steps
  <1>6. f[0] = 1 BY <1>4 DEF Steps
  <1> HIDE DEF G
  <1>7. f = [k \in 0..n |-> IF k = 0 THEN 1 ELSE f[k - 1] * shape[k]]
    <2> DEFINE g == [k \in 0..n |-> IF k = 0 THEN 1 ELSE f[k - 1] * shape[k]]
    <2>1. ASSUME NEW k \in 0..n PROVE f[k] = g[k]
      <3>1. CASE k = 0 BY <3>1, <1>6
      <3>2. CASE k # 0
        <4>1. k \in 1..n BY <3>2, <1>1
        <4> QED BY <4>1, <1>5, <3>2
      <3> QED BY <3>1, <3>2
    <2> QED BY <2>1
  <1>8. p = [k \in 0..n |-> IF k = 0 THEN 1 ELSE p[k - 1] * shape[k]]
    BY <1>7
  <1> HIDE DEF p
  <1>9. p[0] = 1 BY <1>8, <1>1
  <1>10. ASSUME NEW k \in 1..n PROVE p[k] = p[k - 1] * shape[k]
    <2>1. k \in 0..n /\ k # 0 BY <1>1
    <2> QED BY <2>1, <1>8
  <1>11. \A k \in 0..n : p[k] \in Nat
    <2> DEFINE T == {k \in 0..n : p[k] \in Nat}
    <2>1. 0 \in T BY <1>1, <1>9
    <2>2. ASSUME NEW k \in 1..n, k - 1 \in T PROVE k \in T
      <3>1. p[k] \in Nat BY <1>2, <1>10, <2>2
      <3> QED BY <3>1
    <2>3. T = 0..n BY <1>1, <2>1, <2>2, InductionUpTo
    <2> QED BY <2>3
  <1>12. p \in [0..n -> Nat]
    <2>1. p = [k \in 0..n |-> p[k]] BY <1>8
    <2> QED BY <2>1, <1>11
  <1>13. Product(shape) = p[n] BY DEF Product, p
  <1> QED BY <1>9, <1>10, <1>12, <1>13

(* mg_shape_byte_count's division test refuses exactly the products that    *)
(* do not fit size_t.                                                       *)
LEMMA OverflowExact ==
  ASSUME NEW x \in Nat, NEW d \in Nat \ {0}
  PROVE  Overflows(x, d) <=> x * d > SizeMax
  <1>1. SizeMax \in Nat BY SizesAssumption
  <1> DEFINE q == SizeMax \div d
  <1>2. q \in Nat /\ q * d <= SizeMax /\ SizeMax < (q + 1) * d BY <1>1
  <1> HIDE DEF q
  <1>3. x <= q => x * d <= q * d BY <1>2
  <1>4. x >= q + 1 => x * d >= (q + 1) * d BY <1>2
  <1>5. x * d \in Nat /\ q * d \in Nat /\ (q + 1) * d \in Nat BY <1>2
  <1>6. Overflows(x, d) <=> x > q BY DEF Overflows, q
  <1> QED BY <1>1, <1>2, <1>3, <1>4, <1>5, <1>6

(* mg_shape_byte_count of a shape it accepts is the product of its          *)
(* dimensions times the size of an element, for every shape and every       *)
(* width of size_t: nothing wraps.                                          *)
LEMMA RequiredBytesExact ==
  ASSUME NEW shape \in Seq(0..SizeMax)
  PROVE  /\ Product(shape) \in Nat /\ RequiredBytes(shape) \in 0..SizeMax
         /\ RequiredBytes(shape) # 0 => RequiredBytes(shape) = Product(shape) * ElementSize
  <1> DEFINE n == Len(shape)
  <1>1. n \in Nat OBVIOUS
  <1>2. PICK e \in [0..n -> Nat] :
            /\ e[0] = 1
            /\ \A k \in 1..n : e[k] = IF e[k - 1] = 0 \/ shape[k] = 0 THEN 0
                                       ELSE IF Overflows(e[k - 1], shape[k]) THEN 0
                                       ELSE SizeT(e[k - 1] * shape[k])
            /\ Elements(shape) = e[n]
    BY ElementsRun
  <1>3. PICK p \in [0..n -> Nat] :
            /\ p[0] = 1 /\ \A k \in 1..n : p[k] = p[k - 1] * shape[k]
            /\ Product(shape) = p[n]
    BY ProductRun
  <1>4. \A k \in 0..n : e[k] # 0 => e[k] = p[k]
    <2> DEFINE T == {k \in 0..n : e[k] # 0 => e[k] = p[k]}
    <2>1. 0 \in T BY <1>1, <1>2, <1>3
    <2>2. ASSUME NEW k \in 1..n, k - 1 \in T PROVE k \in T
      <3> SUFFICES ASSUME e[k] # 0 PROVE e[k] = p[k] BY <1>1
      <3>1. e[k - 1] \in Nat /\ shape[k] \in Nat
        <4>1. e[k - 1] \in Nat BY <1>1
        <4>2. shape[k] \in Nat BY SizesAssumption
        <4> QED BY <4>1, <4>2
      <3>2. e[k - 1] # 0 /\ shape[k] # 0 /\ ~Overflows(e[k - 1], shape[k])
            /\ e[k] = SizeT(e[k - 1] * shape[k])
        BY <1>2
      <3>3. e[k - 1] * shape[k] <= SizeMax
        <4>1. e[k - 1] * shape[k] \in Nat BY <3>1
        <4> QED BY <3>1, <3>2, <4>1, OverflowExact, SizesAssumption
      <3>4. e[k] = e[k - 1] * shape[k] BY <3>2, <3>3 DEF SizeT
      <3>5. e[k - 1] = p[k - 1] BY <2>2, <3>2
      <3> QED BY <1>3, <3>4, <3>5
    <2>3. T = 0..n BY <1>1, <2>1, <2>2, InductionUpTo
    <2> QED BY <2>3
  <1>5. Elements(shape) \in Nat /\ Product(shape) \in Nat BY <1>1, <1>2, <1>3
  <1>6. CASE RequiredBytes(shape) = 0 BY <1>5, <1>6, SizesAssumption
  <1>7. CASE RequiredBytes(shape) # 0
    <2>1. /\ Elements(shape) # 0 /\ ~Overflows(Elements(shape), ElementSize)
          /\ RequiredBytes(shape) = SizeT(Elements(shape) * ElementSize)
      BY <1>7 DEF RequiredBytes
    <2>2. Elements(shape) = Product(shape) BY <1>1, <1>2, <1>3, <1>4, <2>1
    <2>3. ElementSize \in Nat \ {0} BY SizesAssumption
    <2>4. Elements(shape) * ElementSize \in Nat BY <1>5, <2>3
    <2>5. Elements(shape) * ElementSize <= SizeMax
      BY <1>5, <2>1, <2>3, <2>4, OverflowExact, SizesAssumption
    <2>6. RequiredBytes(shape) = Elements(shape) * ElementSize BY <2>1, <2>5 DEF SizeT
    <2> QED BY <1>5, <2>2, <2>4, <2>5, <2>6, SizesAssumption
  <1> QED BY <1>6, <1>7

-----------------------------------------------------------------------------

(* A buffer, made or not.                                                   *)
Window == [size : 0..SizeMax, byte_offset : 0..SizeMax, length : 0..SizeMax]

(* Every buffer lies in its Metal buffer.                                   *)
WindowsFit(bf) ==
    /\ bf \in [Buffers -> Window]
    /\ \A b \in Buffers : bf[b].byte_offset + bf[b].length <= bf[b].size

(* A range lies in its buffer, in unbounded arithmetic, and is aligned.     *)
Safe(o, bf) ==
    /\ bf[o.buf].length # 0
    /\ o.offset + o.rel + o.count <= bf[o.buf].length
    /\ (o.offset + o.rel) % o.alignment = 0

(* A range as a copy or a fill makes it.                                    *)
PlainRange(o) == o = Range(o.buf, o.offset, o.count)

(* What a node of each kind looks like.                                     *)
Shaped(n) ==
    /\ n.kind = "copy" => Len(n.ops) = 2
    /\ n.kind = "fill" => Len(n.ops) = 1
    /\ n.kind \in {"copy", "fill"} => \A i \in DOMAIN n.ops : PlainRange(n.ops[i])
    /\ n.kind = "mpsgraph" =>
          \A i \in DOMAIN n.ops : Product(n.ops[i].shape) * ElementSize <= n.ops[i].count
    /\ \A a \in Axes : n.grid[a] <= n.max_grid[a]

(* A node that is safe with the buffers bf.                                 *)
NodeOK(n, bf) ==
    n \in NodeType /\ (\A i \in DOMAIN n.ops : Safe(n.ops[i], bf)) /\ Shaped(n)

(* The inductive invariant: InBounds says nothing of what was made, of      *)
(* how many ranges a node has, or of which fields a copy leaves at zero;    *)
(* a patch relies on all three.                                             *)
RangesInv == WindowsFit(buffer) /\ NodeOK(node, buffer) /\ NodeOK(exec, buffer)

(* mg_range_valid, which subtracts, says the sum fits.                      *)
LEMMA RangeSafe ==
  ASSUME NEW length \in Nat, NEW offset \in Nat, NEW count \in Nat,
         RangeValid(length, offset, count)
  PROVE  count > 0 /\ offset + count <= length
  BY DEF RangeValid

(* A binding that passes the two resource checks lies in the buffer and     *)
(* is aligned, though both add in size_t.                                   *)
LEMMA BindingSafe ==
  ASSUME NEW length \in 0..SizeMax, NEW offset \in 0..SizeMax, NEW o \in Op,
         OffsetAligned(o, offset), ResourceRangeValid(o, length, offset)
  PROVE  offset + o.rel + o.count <= length /\ (offset + o.rel) % o.alignment = 0
  <1>1. /\ SizeMax \in Nat /\ o.rel \in 0..SizeMax /\ o.count \in 0..SizeMax
        /\ offset \in Nat /\ length \in Nat
    BY SizesAssumption DEF Op
  <1>2. SizeT(offset + o.rel) = offset + o.rel
    BY <1>1 DEF OffsetAligned, SizeT
  <1>3. (offset + o.rel) % o.alignment = 0
    BY <1>2 DEF OffsetAligned
  <1>4. offset + o.rel + o.count <= length
    <2>1. CASE o.count = 0 BY <1>1, <1>2, <2>1 DEF ResourceRangeValid
    <2>2. CASE o.count # 0
      <3>1. RangeValid(length, offset + o.rel, o.count) BY <1>2, <2>2 DEF ResourceRangeValid
      <3> QED BY <1>1, <3>1 DEF RangeValid
    <2> QED BY <2>1, <2>2
  <1> QED BY <1>3, <1>4

(* Making a buffer disturbs no node: none names it yet.                     *)
LEMMA NewBuffer ==
  ASSUME NEW bf, WindowsFit(bf), NEW b \in Buffers, bf[b].length = 0,
         NEW w \in Window, w.byte_offset + w.length <= w.size
  PROVE  LET new == [bf EXCEPT ![b] = w] IN
         WindowsFit(new) /\ \A n : NodeOK(n, bf) => NodeOK(n, new)
  <1> DEFINE new == [bf EXCEPT ![b] = w]
  <1>1. new \in [Buffers -> Window] /\ new[b] = w /\ \A c \in Buffers : c # b => new[c] = bf[c]
    BY DEF WindowsFit
  <1>2. WindowsFit(new) BY <1>1 DEF WindowsFit
  <1>3. ASSUME NEW n, NodeOK(n, bf), NEW i \in DOMAIN n.ops PROVE Safe(n.ops[i], new)
    <2>1. n.ops[i] \in Op BY <1>3 DEF NodeOK, NodeType
    <2>2. n.ops[i].buf \in Buffers BY <2>1 DEF Op
    <2>3. n.ops[i].buf # b BY <1>3 DEF NodeOK, Safe
    <2>4. new[n.ops[i].buf] = bf[n.ops[i].buf] BY <1>1, <2>2, <2>3
    <2>5. Safe(n.ops[i], bf) BY <1>3 DEF NodeOK
    <2> QED BY <2>4, <2>5 DEF Safe
  <1>4. ASSUME NEW n, NodeOK(n, bf) PROVE NodeOK(n, new) BY <1>3, <1>4 DEF NodeOK
  <1> QED BY <1>2, <1>4

(* The patch flags.                                                         *)
Flags == {"grid", "buffer", "scalar", "range", "value"}
(* Grids without an empty axis.                                             *)
Grid == [Axes -> Nat \ {0}]

(* A node by its fields.                                                    *)
Rec(kind, ops, flags, grid, max_grid) ==
    [kind |-> kind, ops |-> ops, flags |-> flags, grid |-> grid, max_grid |-> max_grid]

(* What it takes to be a safe node.                                         *)
LEMMA RecOK ==
  ASSUME NEW bf, NEW kind \in Kinds, NEW ops \in Seq(Op), NEW flags \in SUBSET Flags,
         NEW grid \in Grid, NEW max_grid \in Grid,
         \A i \in DOMAIN ops : Safe(ops[i], bf),
         kind = "copy" => Len(ops) = 2,
         kind = "fill" => Len(ops) = 1,
         kind \in {"copy", "fill"} => \A i \in DOMAIN ops : PlainRange(ops[i]),
         kind = "mpsgraph" =>
            \A i \in DOMAIN ops : Product(ops[i].shape) * ElementSize <= ops[i].count,
         \A a \in Axes : grid[a] <= max_grid[a]
  PROVE  NodeOK(Rec(kind, ops, flags, grid, max_grid), bf)
  <1> DEFINE n == Rec(kind, ops, flags, grid, max_grid)
  <1>1. /\ n.kind = kind /\ n.ops = ops /\ n.flags = flags
        /\ n.grid = grid /\ n.max_grid = max_grid
    BY DEF Rec
  <1>2. n \in NodeType BY DEF Rec, NodeType, Flags, Grid
  <1> HIDE DEF n
  <1>3. \A i \in DOMAIN n.ops : Safe(n.ops[i], bf) BY <1>1
  <1>4. Shaped(n) BY <1>1 DEF Shaped
  <1> QED BY <1>2, <1>3, <1>4 DEF NodeOK, n

(* A node is its fields.                                                    *)
LEMMA RecEta ==
  ASSUME NEW n \in NodeType
  PROVE  /\ n = Rec(n.kind, n.ops, n.flags, n.grid, n.max_grid)
         /\ n.kind \in Kinds /\ n.ops \in Seq(Op) /\ n.flags \in SUBSET Flags
         /\ n.grid \in Grid /\ n.max_grid \in Grid
  BY DEF NodeType, Rec, Flags, Grid

(* The grid of a node that has none.                                        *)
LEMMA UnitGridType == UnitGrid \in Grid /\ \A a \in Axes : UnitGrid[a] <= UnitGrid[a]
  BY DEF UnitGrid, Grid

(* A node just built, by its fields.                                        *)
LEMMA NodeIsRec ==
  ASSUME NEW kind, NEW ops
  PROVE  Node(kind, ops) = Rec(kind, ops, {}, UnitGrid, UnitGrid)
  BY DEF Node, Rec

(* A copied or filled range has its type.                                   *)
LEMMA RangeType ==
  ASSUME NEW b \in Buffers, NEW offset \in 0..SizeMax, NEW count \in 0..SizeMax
  PROVE  Range(b, offset, count) \in Op /\ PlainRange(Range(b, offset, count))
  <1>1. 1 \in 1..SizeMax /\ 0 \in 0..SizeMax BY SizesAssumption
  <1>2. NoShape \in Seq(0..SizeMax) BY DEF NoShape
  <1> QED BY <1>1, <1>2 DEF Range, Op, PlainRange

(* A range that passes mg_range_valid is safe.                              *)
LEMMA RangeInBufferSafe ==
  ASSUME WindowsFit(buffer), NEW b \in Buffers, NEW offset \in 0..SizeMax, NEW count \in 0..SizeMax,
         RangeInBuffer(b, offset, count)
  PROVE  Safe(Range(b, offset, count), buffer)
  <1>1. buffer[b].length \in 0..SizeMax BY DEF WindowsFit, Window
  <1>2. offset + count <= buffer[b].length
    BY <1>1, RangeSafe, SizesAssumption DEF RangeInBuffer
  <1>3. (offset + 0) % 1 = 0 BY SizesAssumption
  <1>4. offset + 0 + count = offset + count BY SizesAssumption
  <1> QED BY <1>2, <1>3, <1>4 DEF Range, Safe, RangeInBuffer, Made

(* A binding has its type.                                                  *)
LEMMA BindingType ==
  ASSUME NEW b \in Buffers, NEW offset \in 0..SizeMax,
         NEW r \in [rel : 0..SizeMax, count : 0..SizeMax, alignment : 0..SizeMax]
  PROVE  Binding(b, offset, r) \in Op
  <1>1. (IF r.alignment = 0 THEN 1 ELSE r.alignment) \in 1..SizeMax BY SizesAssumption
  <1>2. NoShape \in Seq(0..SizeMax) BY DEF NoShape
  <1> QED BY <1>1, <1>2 DEF Binding, Op

(* A binding that mgGraphAddDispatchNode accepts is safe.                   *)
LEMMA BindingValidSafe ==
  ASSUME WindowsFit(buffer), NEW o \in Op, Made(o.buf), BindingValid(o)
  PROVE  Safe(o, buffer)
  <1>1. o.buf \in Buffers /\ o.offset \in 0..SizeMax BY DEF Op
  <1>2. buffer[o.buf].length \in 0..SizeMax BY <1>1 DEF WindowsFit, Window
  <1> QED BY <1>1, <1>2, BindingSafe DEF BindingValid, Safe, Made

(* A tensor that mg_validate_mpsgraph_tensor_desc accepts is safe and its   *)
(* elements fit its bytes.                                                  *)
LEMMA TensorSafe ==
  ASSUME WindowsFit(buffer), NEW b \in Buffers, NEW offset \in 0..SizeMax,
         NEW count \in 0..SizeMax, NEW shape \in Seq(0..SizeMax),
         Made(b), TensorValid(b, offset, count, shape)
  PROVE  LET o == Tensor(b, offset, count, shape) IN
         o \in Op /\ Safe(o, buffer) /\ Product(o.shape) * ElementSize <= o.count
  <1> DEFINE required == RequiredBytes(shape)
             bytes == IF count # 0 THEN count ELSE required
             o == Tensor(b, offset, count, shape)
  <1>1. required \in 0..SizeMax /\ bytes \in 0..SizeMax BY RequiredBytesExact
  <1>2. /\ required # 0 /\ required <= bytes /\ offset = 0
        /\ RangeValid(buffer[b].length, offset, bytes)
    BY DEF TensorValid
  <1> HIDE DEF required, bytes
  <1>3. RangeInBuffer(b, offset, bytes) BY <1>2 DEF RangeInBuffer
  <1>4. Range(b, offset, bytes) \in Op /\ Safe(Range(b, offset, bytes), buffer)
    BY <1>1, <1>3, RangeType, RangeInBufferSafe
  <1>5. o = [Range(b, offset, bytes) EXCEPT !.shape = shape] BY DEF Tensor, bytes, required
  <1>6. /\ o \in Op /\ o.shape = shape /\ o.count = bytes
        /\ o.buf = Range(b, offset, bytes).buf /\ o.offset = Range(b, offset, bytes).offset
        /\ o.rel = Range(b, offset, bytes).rel /\ o.count = Range(b, offset, bytes).count
        /\ o.alignment = Range(b, offset, bytes).alignment
    BY <1>4, <1>5 DEF Range, Op
  <1>7. Safe(o, buffer) BY <1>4, <1>6 DEF Safe
  <1>8. Product(shape) * ElementSize = required BY <1>2, RequiredBytesExact DEF required
  <1> HIDE DEF o
  <1>9. Product(o.shape) * ElementSize <= o.count BY <1>2, <1>6, <1>8
  <1> QED BY <1>6, <1>7, <1>9 DEF o

-----------------------------------------------------------------------------

(* mgGraphAddCopyNode leaves a safe node.                                   *)
LEMMA CopyAdded ==
  ASSUME RangesInv, NEW src \in Buffers, NEW dst \in Buffers, NEW src_offset \in Sizes,
         NEW dst_offset \in Sizes, NEW count \in Sizes,
         AddCopyNode(src, src_offset, dst, dst_offset, count)
  PROVE  NodeOK(node', buffer)
  <1> DEFINE a == Range(src, src_offset, count)
             b == Range(dst, dst_offset, count)
             ops == <<a, b>>
  <1>1. src_offset \in 0..SizeMax /\ dst_offset \in 0..SizeMax /\ count \in 0..SizeMax
    BY SizesAssumption
  <1>2. a \in Op /\ PlainRange(a) /\ b \in Op /\ PlainRange(b) BY <1>1, RangeType
  <1>3. Safe(a, buffer) /\ Safe(b, buffer)
    BY <1>1, RangeInBufferSafe DEF AddCopyNode, RangesInv
  <1>4. node' = Rec("copy", ops, {}, UnitGrid, UnitGrid)
    BY NodeIsRec DEF AddCopyNode, Add
  <1> HIDE DEF a, b
  <1>5. ops \in Seq(Op) /\ Len(ops) = 2 BY <1>2
  <1>6. \A i \in DOMAIN ops : Safe(ops[i], buffer) /\ PlainRange(ops[i]) BY <1>2, <1>3
  <1>7. "copy" \in Kinds /\ {} \in SUBSET Flags BY DEF Kinds
  <1> HIDE DEF ops
  <1> QED BY <1>4, <1>5, <1>6, <1>7, UnitGridType, RecOK

(* mgGraphAddFillNode leaves a safe node.                                   *)
LEMMA FillAdded ==
  ASSUME RangesInv, NEW kind \in {"fill", "workspace_fill"}, NEW dst \in Buffers,
         NEW offset \in Sizes, NEW count \in Sizes, AddFillNode(kind, dst, offset, count)
  PROVE  NodeOK(node', buffer)
  <1> DEFINE a == Range(dst, offset, count)
             ops == <<a>>
  <1>1. offset \in 0..SizeMax /\ count \in 0..SizeMax BY SizesAssumption
  <1>2. a \in Op /\ PlainRange(a) BY <1>1, RangeType
  <1>3. Safe(a, buffer) BY <1>1, RangeInBufferSafe DEF AddFillNode, RangesInv
  <1>4. node' = Rec(kind, ops, {}, UnitGrid, UnitGrid) BY NodeIsRec DEF AddFillNode, Add
  <1> HIDE DEF a
  <1>5. ops \in Seq(Op) /\ Len(ops) = 1 BY <1>2
  <1>6. \A i \in DOMAIN ops : Safe(ops[i], buffer) /\ PlainRange(ops[i]) BY <1>2, <1>3
  <1>7. kind \in Kinds /\ kind \notin {"copy", "mpsgraph"} /\ {} \in SUBSET Flags BY DEF Kinds
  <1> HIDE DEF ops
  <1> QED BY <1>4, <1>5, <1>6, <1>7, UnitGridType, RecOK

(* mgGraphAddDispatchNode leaves a safe node.                               *)
LEMMA DispatchAdded ==
  ASSUME RangesInv, NEW ops \in Seq(Op), NEW grid \in [Axes -> Nat], NEW max_grid \in [Axes -> Nat],
         AddDispatchNode(ops, grid, max_grid)
  PROVE  NodeOK(node', buffer)
  <1> DEFINE max == MaxGrid(grid, max_grid)
  <1>1. grid \in Grid BY DEF AddDispatchNode, Positive, Grid
  <1>2. max \in Grid BY <1>1 DEF MaxGrid, Positive, Grid
  <1>3. \A a \in Axes : grid[a] <= max[a] BY DEF AddDispatchNode, Within
  <1>4. node' = Rec("dispatch", ops, {}, grid, max)
    BY DEF AddDispatchNode, Add, Node, Rec
  <1>5. ASSUME NEW i \in DOMAIN ops PROVE Safe(ops[i], buffer)
    <2>1. ops[i] \in Op OBVIOUS
    <2>2. Made(ops[i].buf) /\ BindingValid(ops[i]) BY DEF AddDispatchNode
    <2> QED BY <2>1, <2>2, BindingValidSafe DEF RangesInv
  <1>6. "dispatch" \in Kinds /\ {} \in SUBSET Flags BY DEF Kinds
  <1> HIDE DEF max
  <1> QED BY <1>1, <1>2, <1>3, <1>4, <1>5, <1>6, RecOK

(* The tensor descriptors a caller passes have their type.                  *)
LEMMA TensorType ==
  ASSUME NEW sizes \in SUBSET (0..SizeMax), NEW t \in Tensors(sizes, Shapes)
  PROVE  /\ t.buf \in Buffers /\ t.offset \in 0..SizeMax
         /\ t.count \in 0..SizeMax /\ t.shape \in Seq(0..SizeMax)
  <1>1. PICK b \in Buffers, offset \in sizes, count \in sizes, shape \in Shapes :
            t = [Range(b, offset, count) EXCEPT !.shape = shape]
    BY DEF Tensors
  <1>2. t.buf = b /\ t.offset = offset /\ t.count = count /\ t.shape = shape
    BY <1>1 DEF Range
  <1>3. shape \in Seq(0..SizeMax) BY SizesAssumption
  <1> QED BY <1>2, <1>3

(* mgGraphAddMPSGraphNode leaves a safe node.                               *)
LEMMA MPSGraphAdded ==
  ASSUME RangesInv, NEW t1 \in Tensors(Sizes, Shapes), NEW t2 \in Tensors({0}, Shapes),
         AddMPSGraphNode(<<t1, t2>>)
  PROVE  NodeOK(node', buffer)
  <1> DEFINE ts == <<t1, t2>>
             ops == [i \in DOMAIN ts |-> Tensor(ts[i].buf, ts[i].offset, ts[i].count, ts[i].shape)]
  <1>1. \A t \in {t1, t2} : /\ t.buf \in Buffers /\ t.offset \in 0..SizeMax
                            /\ t.count \in 0..SizeMax /\ t.shape \in Seq(0..SizeMax)
    <2>1. Sizes \in SUBSET (0..SizeMax) /\ {0} \in SUBSET (0..SizeMax) BY SizesAssumption
    <2> QED BY <2>1, TensorType
  <1>2. DOMAIN ts = 1..2 /\ \A i \in 1..2 : ts[i] \in {t1, t2} OBVIOUS
  <1>3. ASSUME NEW i \in 1..2
        PROVE  /\ ops[i] \in Op /\ Safe(ops[i], buffer)
               /\ Product(ops[i].shape) * ElementSize <= ops[i].count
    <2> DEFINE t == ts[i]
    <2>1. t \in {t1, t2} BY <1>2
    <2>2. Made(t.buf) /\ TensorValid(t.buf, t.offset, t.count, t.shape)
      BY <1>2 DEF AddMPSGraphNode
    <2>3. ops[i] = Tensor(t.buf, t.offset, t.count, t.shape) BY <1>2
    <2> HIDE DEF t, ops
    <2> QED BY <1>1, <2>1, <2>2, <2>3, TensorSafe DEF RangesInv
  <1>4. node' = Rec("mpsgraph", ops, {}, UnitGrid, UnitGrid)
    BY NodeIsRec DEF AddMPSGraphNode, Add
  <1>5. DOMAIN ops = 1..2 BY <1>2
  <1>6. ops \in Seq(Op)
    <2>1. ops \in [1..2 -> Op] BY <1>3, <1>5
    <2> QED BY <2>1
  <1>7. "mpsgraph" \in Kinds /\ {} \in SUBSET Flags BY DEF Kinds
  <1> HIDE DEF ops, ts
  <1> QED BY <1>3, <1>4, <1>5, <1>6, <1>7, UnitGridType, RecOK

(* Every add-node call leaves a safe node, the buffers and the exec.        *)
LEMMA NodeAdded ==
  ASSUME RangesInv, AddNode
  PROVE  NodeOK(node', buffer) /\ UNCHANGED <<buffer, exec>>
  <1>1. CASE \E src, dst \in Buffers, src_offset, dst_offset, count \in Sizes :
                AddCopyNode(src, src_offset, dst, dst_offset, count)
    BY <1>1, CopyAdded DEF AddCopyNode, Add
  <1>2. CASE \E dst \in Buffers, offset, count \in Sizes, kind \in {"fill", "workspace_fill"} :
                AddFillNode(kind, dst, offset, count)
    BY <1>2, FillAdded DEF AddFillNode, Add
  <1>3. UnitGrid \in [Axes -> Nat] BY DEF UnitGrid
  <1>4. \A o \in Bindings(Resources) \cup Bindings(PlainResources) : o \in Op
    BY BindingType, SizesAssumption DEF Bindings
  <1>5. ASSUME NEW o \in Bindings(Resources),
               AddDispatchNode(<<o>>, UnitGrid, UnitGrid)
        PROVE  NodeOK(node', buffer) /\ UNCHANGED <<buffer, exec>>
    <2>1. <<o>> \in Seq(Op) BY <1>4
    <2> QED BY <1>3, <1>5, <2>1, DispatchAdded DEF AddDispatchNode, Add
  <1>6. ASSUME NEW o \in Bindings(Resources), NEW plain \in Bindings(PlainResources),
               AddDispatchNode(<<plain, o>>, UnitGrid, UnitGrid)
        PROVE  NodeOK(node', buffer) /\ UNCHANGED <<buffer, exec>>
    <2>1. <<plain, o>> \in Seq(Op) BY <1>4
    <2> QED BY <1>3, <1>6, <2>1, DispatchAdded DEF AddDispatchNode, Add
  <1>7. ASSUME NEW grid \in Grids, NEW max_grid \in Grids, AddDispatchNode(<<>>, grid, max_grid)
        PROVE  NodeOK(node', buffer) /\ UNCHANGED <<buffer, exec>>
    <2>1. <<>> \in Seq(Op) OBVIOUS
    <2>2. grid \in [Axes -> Nat] /\ max_grid \in [Axes -> Nat]
      <3>1. \A a \in Axes : grid[a] \in Nat /\ max_grid[a] \in Nat
        BY SizesAssumption DEF Grids
      <3> QED BY <3>1 DEF Grids
    <2> QED BY <1>7, <2>1, <2>2, DispatchAdded DEF AddDispatchNode, Add
  <1>8. ASSUME NEW feed \in Tensors(Sizes, Shapes), NEW target \in Tensors({0}, Shapes),
               AddMPSGraphNode(<<feed, target>>)
        PROVE  NodeOK(node', buffer) /\ UNCHANGED <<buffer, exec>>
    BY <1>8, MPSGraphAdded DEF AddMPSGraphNode, Add
  <1> QED BY <1>1, <1>2, <1>5, <1>6, <1>7, <1>8 DEF AddNode

-----------------------------------------------------------------------------

(* mgGraphSetNodePatchFlags keeps the node safe.                            *)
LEMMA FlagsSet ==
  ASSUME RangesInv, NEW flags, GraphSetNodePatchFlags(flags)
  PROVE  NodeOK(node', buffer)
  <1>1. node \in NodeType BY DEF RangesInv, NodeOK
  <1>2. node' = Rec(node.kind, node.ops, flags, node.grid, node.max_grid)
    BY <1>1 DEF GraphSetNodePatchFlags, NodeType, Rec
  <1>3. flags \in SUBSET Flags
    BY DEF GraphSetNodePatchFlags, Allowed, Flags
  <1>4. NodeOK(node, buffer) BY DEF RangesInv
  <1>9. /\ \A i \in DOMAIN node.ops : Safe(node.ops[i], buffer)
        /\ node.kind = "copy" => Len(node.ops) = 2
        /\ node.kind = "fill" => Len(node.ops) = 1
        /\ node.kind \in {"copy", "fill"} => \A i \in DOMAIN node.ops : PlainRange(node.ops[i])
        /\ node.kind = "mpsgraph" =>
              \A i \in DOMAIN node.ops : Product(node.ops[i].shape) * ElementSize <= node.ops[i].count
        /\ \A a \in Axes : node.grid[a] <= node.max_grid[a]
    BY <1>4 DEF NodeOK, Shaped
  <1>10. /\ node.kind \in Kinds /\ node.ops \in Seq(Op) /\ node.flags \in SUBSET Flags
         /\ node.grid \in Grid /\ node.max_grid \in Grid
    BY <1>1, RecEta
  <1> QED BY <1>2, <1>3, <1>9, <1>10, RecOK

(* mgGraphExecPatchDispatchGrid keeps the exec safe.                        *)
LEMMA GridPatched ==
  ASSUME RangesInv, NEW grid \in Grids, PatchDispatchGrid(grid)
  PROVE  NodeOK(exec', buffer)
  <1>1. NodeOK(exec, buffer) /\ exec \in NodeType BY DEF RangesInv, NodeOK
  <1>2. exec' = Rec(exec.kind, exec.ops, exec.flags, grid, exec.max_grid)
    BY <1>1 DEF PatchDispatchGrid, NodeType, Rec
  <1>3. grid \in Grid
    <2>1. \A a \in Axes : grid[a] \in Nat BY SizesAssumption DEF Grids
    <2>2. \A a \in Axes : grid[a] > 0 BY DEF PatchDispatchGrid, Positive
    <2>3. \A a \in Axes : grid[a] \in Nat \ {0} BY <2>1, <2>2
    <2> QED BY <2>3 DEF Grids, Grid
  <1>4. \A a \in Axes : grid[a] <= exec.max_grid[a] BY DEF PatchDispatchGrid, Within
  <1>9. /\ \A i \in DOMAIN exec.ops : Safe(exec.ops[i], buffer)
        /\ exec.kind = "copy" => Len(exec.ops) = 2
        /\ exec.kind = "fill" => Len(exec.ops) = 1
        /\ exec.kind \in {"copy", "fill"} => \A i \in DOMAIN exec.ops : PlainRange(exec.ops[i])
        /\ exec.kind = "mpsgraph" =>
              \A i \in DOMAIN exec.ops : Product(exec.ops[i].shape) * ElementSize <= exec.ops[i].count
        /\ \A a \in Axes : exec.grid[a] <= exec.max_grid[a]
    BY <1>1 DEF NodeOK, Shaped
  <1>10. /\ exec.kind \in Kinds /\ exec.ops \in Seq(Op) /\ exec.flags \in SUBSET Flags
         /\ exec.grid \in Grid /\ exec.max_grid \in Grid
    BY <1>1, RecEta
  <1> QED BY <1>2, <1>3, <1>4, <1>9, <1>10, RecOK

(* A binding moved to a buffer and an offset.                               *)
Moved(o, b, offset) == [o EXCEPT !.buf = b, !.offset = offset]

(* Moving changes two fields.                                               *)
LEMMA MovedType ==
  ASSUME NEW o \in Op, NEW b \in Buffers, NEW offset \in 0..SizeMax
  PROVE  /\ Moved(o, b, offset) \in Op
         /\ Moved(o, b, offset).buf = b /\ Moved(o, b, offset).offset = offset
         /\ Moved(o, b, offset).rel = o.rel /\ Moved(o, b, offset).count = o.count
         /\ Moved(o, b, offset).alignment = o.alignment
  <1>1. Moved(o, b, offset) = [buf |-> b, offset |-> offset, rel |-> o.rel, count |-> o.count,
                               alignment |-> o.alignment, shape |-> o.shape]
    <2> DEFINE o1 == [o EXCEPT !.buf = b]
    <2>1. o1 = [buf |-> b, offset |-> o.offset, rel |-> o.rel, count |-> o.count,
                alignment |-> o.alignment, shape |-> o.shape]
      BY DEF Op
    <2>2. Moved(o, b, offset) = [o1 EXCEPT !.offset = offset] BY DEF Moved
    <2> HIDE DEF o1
    <2> QED BY <2>1, <2>2
  <1>2. /\ o.rel \in 0..SizeMax /\ o.count \in 0..SizeMax
        /\ o.alignment \in 1..SizeMax /\ o.shape \in Seq(0..SizeMax)
    BY DEF Op
  <1>3. Moved(o, b, offset) \in Op BY <1>1, <1>2 DEF Op
  <1> QED BY <1>1, <1>3

(* Replacing one of a node's ranges changes one field.                      *)
LEMMA OpReplaced ==
  ASSUME NEW n \in NodeType, NEW i \in DOMAIN n.ops, NEW new
  PROVE  [n EXCEPT !.ops[i] = new]
           = Rec(n.kind, [n.ops EXCEPT ![i] = new], n.flags, n.grid, n.max_grid)
  <1> DEFINE ops == [n.ops EXCEPT ![i] = new]
  <1>1. [n EXCEPT !.ops[i] = new] = [n EXCEPT !.ops = ops] OBVIOUS
  <1> HIDE DEF ops
  <1>2. [n EXCEPT !.ops = ops] = Rec(n.kind, ops, n.flags, n.grid, n.max_grid)
    <2>1. n = Rec(n.kind, n.ops, n.flags, n.grid, n.max_grid) BY RecEta
    <2>2. ASSUME NEW kind, NEW old, NEW flags, NEW grid, NEW max_grid
          PROVE  [Rec(kind, old, flags, grid, max_grid) EXCEPT !.ops = ops]
                   = Rec(kind, ops, flags, grid, max_grid)
      BY DEF Rec
    <2>3. [Rec(n.kind, n.ops, n.flags, n.grid, n.max_grid) EXCEPT !.ops = ops]
            = Rec(n.kind, ops, n.flags, n.grid, n.max_grid)
      BY <2>2
    <2> QED BY <2>1, <2>3
  <1> QED BY <1>1, <1>2 DEF ops

(* mgGraphExecPatchDispatchBuffer keeps the exec safe.                      *)
LEMMA BindingPatched ==
  ASSUME RangesInv, NEW i \in DOMAIN exec.ops, NEW b \in Buffers, NEW offset \in Sizes,
         PatchDispatchBuffer(i, b, offset)
  PROVE  NodeOK(exec', buffer)
  <1>1. NodeOK(exec, buffer) /\ exec \in NodeType BY DEF RangesInv, NodeOK
  <1> DEFINE new == Moved(exec.ops[i], b, offset)
             ops == [exec.ops EXCEPT ![i] = new]
  <1>2. exec' = Rec(exec.kind, ops, exec.flags, exec.grid, exec.max_grid)
    <2>1. exec' = [exec EXCEPT !.ops[i] = new] BY DEF PatchDispatchBuffer, Moved
    <2> HIDE DEF new
    <2> QED BY <1>1, <2>1, OpReplaced
  <1>3. exec.ops \in Seq(Op) /\ exec.ops[i] \in Op BY <1>1 DEF NodeType
  <1>4. offset \in 0..SizeMax BY SizesAssumption
  <1>5. /\ new \in Op /\ new.buf = b /\ new.offset = offset /\ new.rel = exec.ops[i].rel
        /\ new.count = exec.ops[i].count /\ new.alignment = exec.ops[i].alignment
    BY <1>3, <1>4, MovedType
  <1>6. Safe(new, buffer)
    <2>1. /\ Made(b) /\ OffsetAligned(exec.ops[i], offset)
          /\ ResourceRangeValid(exec.ops[i], buffer[b].length, offset)
      BY DEF PatchDispatchBuffer, PatchBindingValid
    <2>2. buffer[b].length \in 0..SizeMax BY DEF RangesInv, WindowsFit, Window
    <2>3. /\ offset + exec.ops[i].rel + exec.ops[i].count <= buffer[b].length
          /\ (offset + exec.ops[i].rel) % exec.ops[i].alignment = 0
      BY <1>3, <1>4, <2>1, <2>2, BindingSafe
    <2> HIDE DEF new
    <2> QED BY <1>5, <2>1, <2>3 DEF Safe, Made
  <1> HIDE DEF new
  <1>7. ops \in Seq(Op) /\ DOMAIN ops = DOMAIN exec.ops BY <1>3, <1>5
  <1>8. ASSUME NEW j \in DOMAIN ops PROVE Safe(ops[j], buffer)
    <2>1. CASE j = i BY <1>6, <1>7, <2>1
    <2>2. CASE j # i BY <1>1, <1>7, <2>2 DEF NodeOK
    <2> QED BY <2>1, <2>2
  <1>9. exec.kind = "dispatch" BY DEF PatchDispatchBuffer
  <1>10. \A a \in Axes : exec.grid[a] <= exec.max_grid[a] BY <1>1 DEF NodeOK, Shaped
  <1> HIDE DEF ops
  <1> QED BY <1>1, <1>2, <1>7, <1>8, <1>9, <1>10, RecEta, RecOK

(* The copy and fill patches keep the exec safe.                            *)
LEMMA RangesPatched ==
  ASSUME RangesInv, NEW ops \in Seq(Op), PatchRanges(ops),
         \A i \in DOMAIN ops : PlainRange(ops[i]),
         exec.kind \in {"copy", "fill"}, Len(ops) = Len(exec.ops)
  PROVE  NodeOK(exec', buffer)
  <1>1. NodeOK(exec, buffer) /\ exec \in NodeType BY DEF RangesInv, NodeOK
  <1>2. exec' = Rec(exec.kind, ops, exec.flags, exec.grid, exec.max_grid)
    BY <1>1 DEF PatchRanges, NodeType, Rec
  <1>3. ASSUME NEW i \in DOMAIN ops PROVE Safe(ops[i], buffer)
    <2>1. /\ ops[i] \in Op /\ ops[i] = Range(ops[i].buf, ops[i].offset, ops[i].count)
          /\ RangeInBuffer(ops[i].buf, ops[i].offset, ops[i].count)
      BY DEF PatchRanges, PlainRange
    <2>2. /\ ops[i].buf \in Buffers /\ ops[i].offset \in 0..SizeMax
          /\ ops[i].count \in 0..SizeMax
      BY <2>1 DEF Op
    <2>3. Safe(Range(ops[i].buf, ops[i].offset, ops[i].count), buffer)
      BY <2>1, <2>2, RangeInBufferSafe DEF RangesInv
    <2> QED BY <2>1, <2>3
  <1>4. \A a \in Axes : exec.grid[a] <= exec.max_grid[a] BY <1>1 DEF NodeOK, Shaped
  <1>5. /\ exec.kind = "copy" => Len(ops) = 2
        /\ exec.kind = "fill" => Len(ops) = 1
    BY <1>1 DEF NodeOK, Shaped
  <1> QED BY <1>1, <1>2, <1>3, <1>4, <1>5, RecEta, RecOK

(* mgGraphExecPatchCopyNode replaces the ranges of a copy by two plain      *)
(* ones.                                                                    *)
LEMMA CopyPatch ==
  ASSUME RangesInv, NEW src \in Buffers, NEW dst \in Buffers, NEW src_offset \in Sizes,
         NEW dst_offset \in Sizes, NEW count \in Sizes,
         PatchCopyNode(src, src_offset, dst, dst_offset, count)
  PROVE  \E ops \in Seq(Op) :
            /\ PatchRanges(ops) /\ \A i \in DOMAIN ops : PlainRange(ops[i])
            /\ exec.kind = "copy" /\ Len(ops) = Len(exec.ops)
  <1> DEFINE a == Range(src, src_offset, count)
             b == Range(dst, dst_offset, count)
             ops == <<a, b>>
  <1>1. src_offset \in 0..SizeMax /\ dst_offset \in 0..SizeMax /\ count \in 0..SizeMax
    BY SizesAssumption
  <1>2. a \in Op /\ PlainRange(a) /\ b \in Op /\ PlainRange(b) BY <1>1, RangeType
  <1>3. PatchRanges(ops) /\ exec.kind = "copy" BY DEF PatchCopyNode
  <1> HIDE DEF a, b
  <1>4. ops \in Seq(Op) /\ Len(ops) = 2 /\ \A i \in DOMAIN ops : PlainRange(ops[i]) BY <1>2
  <1>5. Len(exec.ops) = 2 BY <1>3 DEF RangesInv, NodeOK, Shaped
  <1> HIDE DEF ops
  <1> QED BY <1>3, <1>4, <1>5

(* mgGraphExecPatchFillNode replaces the range of a fill by a plain one.    *)
LEMMA FillPatch ==
  ASSUME RangesInv, NEW dst \in Buffers, NEW offset \in Sizes, NEW count \in Sizes,
         PatchFillNode(dst, offset, count)
  PROVE  \E ops \in Seq(Op) :
            /\ PatchRanges(ops) /\ \A i \in DOMAIN ops : PlainRange(ops[i])
            /\ exec.kind = "fill" /\ Len(ops) = Len(exec.ops)
  <1> DEFINE a == Range(dst, offset, count)
             ops == <<a>>
  <1>1. offset \in 0..SizeMax /\ count \in 0..SizeMax BY SizesAssumption
  <1>2. a \in Op /\ PlainRange(a) BY <1>1, RangeType
  <1>3. PatchRanges(ops) /\ exec.kind = "fill" BY DEF PatchFillNode
  <1> HIDE DEF a
  <1>4. ops \in Seq(Op) /\ Len(ops) = 1 /\ \A i \in DOMAIN ops : PlainRange(ops[i]) BY <1>2
  <1>5. Len(exec.ops) = 1 BY <1>3 DEF RangesInv, NodeOK, Shaped
  <1> HIDE DEF ops
  <1> QED BY <1>3, <1>4, <1>5

(* Making a buffer whose window fits keeps the invariant.                   *)
LEMMA BufferMade ==
  ASSUME RangesInv, NEW b \in Buffers, NEW w \in Window, ~Made(b),
         w.byte_offset + w.length <= w.size, buffer' = [buffer EXCEPT ![b] = w],
         UNCHANGED <<node, exec>>
  PROVE  RangesInv'
  <1> DEFINE new == [buffer EXCEPT ![b] = w]
  <1>1. WindowsFit(new) /\ \A n : NodeOK(n, buffer) => NodeOK(n, new)
    BY NewBuffer DEF RangesInv, Made
  <1>2. NodeOK(node, new) /\ NodeOK(exec, new) BY <1>1 DEF RangesInv
  <1>3. buffer' = new /\ node' = node /\ exec' = exec OBVIOUS
  <1> HIDE DEF new
  <1> QED BY <1>1, <1>2, <1>3 DEF RangesInv

(* The invariant holds at the start.                                        *)
LEMMA InvInit == Init => RangesInv
  <1> SUFFICES ASSUME Init PROVE RangesInv OBVIOUS
  <1>1. NotMade \in Window /\ NotMade.byte_offset + NotMade.length <= NotMade.size
    BY SizesAssumption DEF NotMade, Window
  <1>2. WindowsFit(buffer) BY <1>1 DEF Init, WindowsFit
  <1>3. NoNode = Rec("none", <<>>, {}, UnitGrid, UnitGrid) BY NodeIsRec DEF NoNode
  <1>4. "none" \in Kinds /\ {} \in SUBSET Flags BY DEF Kinds
  <1>5. <<>> \in Seq(Op) OBVIOUS
  <1>6. \A i \in DOMAIN <<>> : FALSE OBVIOUS
  <1>7. NodeOK(NoNode, buffer) BY <1>3, <1>4, <1>5, <1>6, UnitGridType, RecOK
  <1> QED BY <1>2, <1>7 DEF Init, RangesInv

(* Every call keeps it.                                                     *)
LEMMA InvNext == RangesInv /\ [Next]_vars => RangesInv'
  <1> SUFFICES ASSUME RangesInv, [Next]_vars PROVE RangesInv' OBVIOUS
  <1>1. ASSUME NEW b \in Buffers, NEW length \in Sizes, BufferCreateShared(b, length)
        PROVE  RangesInv'
    <2> DEFINE w == [size |-> length, byte_offset |-> 0, length |-> length]
    <2>1. w \in Window /\ w.byte_offset + w.length <= w.size BY SizesAssumption DEF Window
    <2>2. /\ ~Made(b) /\ buffer' = [buffer EXCEPT ![b] = w] /\ UNCHANGED <<node, exec>>
      BY <1>1 DEF BufferCreateShared
    <2> HIDE DEF w
    <2> QED BY <2>1, <2>2, BufferMade
  <1>2. ASSUME NEW b \in Buffers, NEW length \in Sizes, NEW size \in Sizes,
               NEW byte_offset \in Sizes, MetalBufferWrap(b, size, byte_offset, length)
        PROVE  RangesInv'
    <2> DEFINE w == [size |-> size, byte_offset |-> byte_offset, length |-> length]
    <2>1. byte_offset + length <= size
      BY <1>2, SizesAssumption DEF MetalBufferWrap, WindowValid, SizeT
    <2>2. w \in Window /\ w.byte_offset + w.length <= w.size
      BY <2>1, SizesAssumption DEF Window
    <2>3. /\ ~Made(b) /\ buffer' = [buffer EXCEPT ![b] = w] /\ UNCHANGED <<node, exec>>
      BY <1>2 DEF MetalBufferWrap
    <2> HIDE DEF w
    <2> QED BY <2>2, <2>3, BufferMade
  <1>3. CASE node = NoNode /\ AddNode
    BY <1>3, NodeAdded DEF RangesInv
  <1>4. ASSUME NEW flags, GraphSetNodePatchFlags(flags) PROVE RangesInv'
    BY <1>4, FlagsSet DEF RangesInv, GraphSetNodePatchFlags
  <1>5. CASE GraphInstantiate BY <1>5 DEF RangesInv, GraphInstantiate
  <1>6. ASSUME NEW grid \in Grids, PatchDispatchGrid(grid) PROVE RangesInv'
    BY <1>6, GridPatched DEF RangesInv, PatchDispatchGrid
  <1>7. ASSUME NEW i \in DOMAIN exec.ops, NEW b \in Buffers, NEW offset \in Sizes,
               PatchDispatchBuffer(i, b, offset)
        PROVE  RangesInv'
    BY <1>7, BindingPatched DEF RangesInv, PatchDispatchBuffer
  <1>8. ASSUME NEW ops, PatchRanges(ops), NodeOK(exec', buffer) PROVE RangesInv'
    BY <1>8 DEF RangesInv, PatchRanges
  <1>9. ASSUME NEW src \in Buffers, NEW dst \in Buffers, NEW src_offset \in Sizes,
               NEW dst_offset \in Sizes, NEW count \in Sizes,
               PatchCopyNode(src, src_offset, dst, dst_offset, count)
        PROVE  RangesInv'
    <2>1. PICK ops \in Seq(Op) :
              /\ PatchRanges(ops) /\ \A i \in DOMAIN ops : PlainRange(ops[i])
              /\ exec.kind = "copy" /\ Len(ops) = Len(exec.ops)
      BY <1>9, CopyPatch
    <2>2. exec.kind \in {"copy", "fill"} BY <2>1
    <2> QED BY <1>8, <2>1, <2>2, RangesPatched
  <1>10. ASSUME NEW dst \in Buffers, NEW offset \in Sizes, NEW count \in Sizes,
                PatchFillNode(dst, offset, count)
         PROVE  RangesInv'
    <2>1. PICK ops \in Seq(Op) :
              /\ PatchRanges(ops) /\ \A i \in DOMAIN ops : PlainRange(ops[i])
              /\ exec.kind = "fill" /\ Len(ops) = Len(exec.ops)
      BY <1>10, FillPatch
    <2>2. exec.kind \in {"copy", "fill"} BY <2>1
    <2> QED BY <1>8, <2>1, <2>2, RangesPatched
  <1>11. CASE UNCHANGED vars BY <1>11 DEF vars, RangesInv
  <1> QED
    BY <1>1, <1>2, <1>3, <1>4, <1>5, <1>6, <1>7, <1>9, <1>10, <1>11 DEF Next

(* The inductive invariant holds for every width of size_t and every set    *)
(* of sizes, descriptors, shapes and grids that callers pass.               *)
THEOREM RangesInvariant == Spec => []RangesInv
  BY InvInit, InvNext, PTL DEF Spec

(* Every variable keeps its type.                                           *)
THEOREM TypeCorrect == Spec => []TypeOK
  <1>1. RangesInv => TypeOK BY DEF RangesInv, WindowsFit, Window, NodeOK, TypeOK
  <1> QED BY <1>1, RangesInvariant, PTL

(* No command of a graph or an exec reaches outside its buffer or its       *)
(* Metal buffer, whatever was added and patched: in particular              *)
(* mg_metal_buffer_offset, the sum a launch computes unchecked, never       *)
(* wraps.                                                                   *)
THEOREM RangesInBounds == Spec => []InBounds
  <1>1. ASSUME RangesInv PROVE InBounds
    <2> SUFFICES ASSUME NEW n \in {node, exec}, NEW i \in DOMAIN n.ops
                 PROVE  LET o == n.ops[i]
                            w == buffer[o.buf]
                        IN  /\ w.byte_offset <= MetalOffset(o.buf, o.offset)
                            /\ EndOf(o) <= w.byte_offset + w.length
                            /\ w.byte_offset + w.length <= w.size
      BY DEF InBounds
    <2> DEFINE o == n.ops[i]
               w == buffer[o.buf]
    <2>1. n \in NodeType /\ Safe(o, buffer) BY <1>1 DEF RangesInv, NodeOK
    <2>2. o \in Op BY <2>1 DEF NodeType
    <2>3. /\ o.buf \in Buffers /\ o.offset \in Nat /\ o.rel \in Nat /\ o.count \in Nat
      BY <2>2, SizesAssumption DEF Op
    <2>4. /\ w.byte_offset \in 0..SizeMax /\ w.length \in 0..SizeMax /\ w.size \in 0..SizeMax
          /\ w.byte_offset + w.length <= w.size
      BY <1>1, <2>3 DEF RangesInv, WindowsFit, Window
    <2>5. o.offset + o.rel + o.count <= w.length BY <2>1 DEF Safe
    <2> HIDE DEF o, w
    <2>6. w.byte_offset + o.offset <= SizeMax BY <2>3, <2>4, <2>5, SizesAssumption
    <2>7. MetalOffset(o.buf, o.offset) = w.byte_offset + o.offset
      BY <2>6 DEF MetalOffset, SizeT, w
    <2>8. EndOf(o) = w.byte_offset + o.offset + o.rel + o.count
      BY <2>7 DEF EndOf
    <2>9. /\ w.byte_offset <= MetalOffset(o.buf, o.offset)
          /\ EndOf(o) <= w.byte_offset + w.length
      BY <2>3, <2>4, <2>5, <2>7, <2>8, SizesAssumption
    <2> QED BY <2>4, <2>9 DEF o, w
  <1> QED BY <1>1, RangesInvariant, PTL

(* A tensor's elements, in unbounded arithmetic, fit the bytes that were    *)
(* checked against its buffer.                                              *)
THEOREM TensorsFitTheirBytes == Spec => []TensorsFit
  <1>1. RangesInv => TensorsFit BY DEF RangesInv, NodeOK, Shaped, TensorsFit
  <1> QED BY <1>1, RangesInvariant, PTL

(* Described bindings stay aligned, also where                              *)
(* mgGraphExecPatchDispatchBuffer moved them.                               *)
THEOREM BindingsStayAligned == Spec => []BindingsAligned
  <1>1. RangesInv => BindingsAligned BY DEF RangesInv, NodeOK, Safe, BindingsAligned
  <1> QED BY <1>1, RangesInvariant, PTL

(* No patched grid exceeds the one declared.                                *)
THEOREM GridsStayWithinMax == Spec => []GridWithinMax
  <1>1. RangesInv => GridWithinMax BY DEF RangesInv, NodeOK, Shaped, GridWithinMax
  <1> QED BY <1>1, RangesInvariant, PTL

-----------------------------------------------------------------------------

(* What a patch may do to one range.                                        *)
OpKept(kind, flags, old, new) ==
    /\ "buffer" \notin flags => new.buf = old.buf
    /\ IF kind = "dispatch"
       THEN /\ "buffer" \notin flags => new = old
            /\ new = [old EXCEPT !.buf = new.buf, !.offset = new.offset]
       ELSE "range" \notin flags => new = [old EXCEPT !.buf = new.buf]

(* What a patch may do to an exec.                                          *)
Declared(old, new) ==
    /\ new.flags = old.flags /\ new.max_grid = old.max_grid
    /\ "grid" \notin old.flags => new.grid = old.grid
    /\ \A i \in DOMAIN old.ops : OpKept(old.kind, old.flags, old.ops[i], new.ops[i])

(* A range is itself with fields replaced by its own.                       *)
LEMMA SameOp ==
  ASSUME NEW o \in Op
  PROVE  /\ o = [o EXCEPT !.buf = o.buf, !.offset = o.offset]
         /\ o = [o EXCEPT !.buf = o.buf]
  BY DEF Op

(* A moved binding differs in buffer and offset only.                       *)
LEMMA MovedKept ==
  ASSUME NEW o \in Op, NEW b \in Buffers, NEW offset \in 0..SizeMax
  PROVE  Moved(o, b, offset) =
           [o EXCEPT !.buf = Moved(o, b, offset).buf, !.offset = Moved(o, b, offset).offset]
  <1>1. Moved(o, b, offset).buf = b /\ Moved(o, b, offset).offset = offset BY MovedType
  <1> QED BY <1>1 DEF Moved

(* The grid patch changes what was declared.                                *)
LEMMA GridDeclared ==
  ASSUME RangesInv, NEW grid \in Grids, PatchDispatchGrid(grid)
  PROVE  Declared(exec, exec')
  <1>1. exec \in NodeType BY DEF RangesInv, NodeOK
  <1>2. exec' = Rec(exec.kind, exec.ops, exec.flags, grid, exec.max_grid)
    BY <1>1 DEF PatchDispatchGrid, NodeType, Rec
  <1>3. exec'.ops = exec.ops /\ exec'.flags = exec.flags /\ exec'.max_grid = exec.max_grid
    BY <1>2 DEF Rec
  <1>4. "grid" \in exec.flags BY DEF PatchDispatchGrid
  <1>5. ASSUME NEW i \in DOMAIN exec.ops
        PROVE  OpKept(exec.kind, exec.flags, exec.ops[i], exec.ops[i])
    <2>1. exec.ops[i] \in Op BY <1>1 DEF NodeType
    <2> QED BY <2>1, SameOp DEF OpKept
  <1> QED BY <1>3, <1>4, <1>5 DEF Declared

(* The binding patch changes what was declared.                             *)
LEMMA BindingDeclared ==
  ASSUME RangesInv, NEW k \in DOMAIN exec.ops, NEW b \in Buffers, NEW offset \in Sizes,
         PatchDispatchBuffer(k, b, offset)
  PROVE  Declared(exec, exec')
  <1> DEFINE new == Moved(exec.ops[k], b, offset)
             ops == [exec.ops EXCEPT ![k] = new]
  <1>1. exec \in NodeType BY DEF RangesInv, NodeOK
  <1>2. exec' = Rec(exec.kind, ops, exec.flags, exec.grid, exec.max_grid)
    <2>1. exec' = [exec EXCEPT !.ops[k] = new] BY DEF PatchDispatchBuffer, Moved
    <2> HIDE DEF new
    <2> QED BY <1>1, <2>1, OpReplaced
  <1>3. exec.kind = "dispatch" /\ "buffer" \in exec.flags BY DEF PatchDispatchBuffer
  <1>4. exec.ops \in Seq(Op) BY <1>1 DEF NodeType
  <1>5. new = [exec.ops[k] EXCEPT !.buf = new.buf, !.offset = new.offset]
    <2>1. exec.ops[k] \in Op /\ offset \in 0..SizeMax BY <1>4, SizesAssumption
    <2> HIDE DEF ops
    <2> QED BY <2>1, MovedKept
  <1> HIDE DEF new
  <1>6. ASSUME NEW i \in DOMAIN exec.ops
        PROVE  OpKept(exec.kind, exec.flags, exec.ops[i], ops[i])
    <2>1. CASE i = k
      <3>1. ops[i] = new BY <1>4, <2>1
      <3> QED BY <1>3, <1>5, <2>1, <3>1 DEF OpKept
    <2>2. CASE i # k
      <3>1. ops[i] = exec.ops[i] /\ exec.ops[i] \in Op BY <1>4, <2>2
      <3> QED BY <1>3, <3>1, SameOp DEF OpKept
    <2> QED BY <2>1, <2>2
  <1> HIDE DEF ops
  <1>7. /\ exec'.ops = ops /\ exec'.flags = exec.flags
        /\ exec'.max_grid = exec.max_grid /\ exec'.grid = exec.grid
    BY <1>2 DEF Rec
  <1> QED BY <1>6, <1>7 DEF Declared

(* The copy and fill patches change what was declared.                      *)
LEMMA RangesDeclared ==
  ASSUME RangesInv, NEW ops \in Seq(Op), PatchRanges(ops),
         \A i \in DOMAIN ops : PlainRange(ops[i]),
         exec.kind \in {"copy", "fill"}, Len(ops) = Len(exec.ops)
  PROVE  Declared(exec, exec')
  <1>1. exec \in NodeType BY DEF RangesInv, NodeOK
  <1>2. exec' = Rec(exec.kind, ops, exec.flags, exec.grid, exec.max_grid)
    BY <1>1 DEF PatchRanges, NodeType, Rec
  <1>3. /\ exec'.ops = ops /\ exec'.flags = exec.flags
        /\ exec'.max_grid = exec.max_grid /\ exec'.grid = exec.grid
    BY <1>2 DEF Rec
  <1>4. exec.ops \in Seq(Op) /\ DOMAIN ops = DOMAIN exec.ops BY <1>1 DEF NodeType
  <1>5. ASSUME NEW i \in DOMAIN exec.ops
        PROVE  OpKept(exec.kind, exec.flags, exec.ops[i], ops[i])
    <2> DEFINE old == exec.ops[i]
               new == ops[i]
    <2>1. PlainRange(old) /\ PlainRange(new)
      BY <1>4 DEF RangesInv, NodeOK, Shaped
    <2>2. "buffer" \notin exec.flags => new.buf = old.buf
      BY <1>4 DEF PatchRanges, BufferChanges
    <2>3. "range" \notin exec.flags => new.offset = old.offset /\ new.count = old.count
      BY <1>4 DEF PatchRanges, RangeChanges
    <2> HIDE DEF old, new
    <2>4. ASSUME new.offset = old.offset, new.count = old.count
          PROVE  new = [old EXCEPT !.buf = new.buf]
      <3>1. new = Range(new.buf, old.offset, old.count) BY <2>1, <2>4 DEF PlainRange
      <3>2. old = Range(old.buf, old.offset, old.count) BY <2>1 DEF PlainRange
      <3>3. ASSUME NEW b, NEW c, NEW offset, NEW count
            PROVE  Range(c, offset, count) = [Range(b, offset, count) EXCEPT !.buf = c]
        BY DEF Range
      <3>4. Range(new.buf, old.offset, old.count)
              = [Range(old.buf, old.offset, old.count) EXCEPT !.buf = new.buf]
        BY <3>3
      <3> QED BY <3>1, <3>2, <3>4
    <2>5. exec.kind # "dispatch" OBVIOUS
    <2> QED BY <2>2, <2>3, <2>4, <2>5 DEF OpKept, old, new
  <1> QED BY <1>3, <1>4, <1>5 DEF Declared

(* A live exec changes only in what was declared patchable when it was      *)
(* instantiated, for every sequence of calls.                               *)
THEOREM OnlyDeclared == Spec => OnlyDeclaredChanges
  <1>1. ASSUME RangesInv, [Next]_vars, exec' # exec, exec' # node PROVE Declared(exec, exec')
    <2>1. ASSUME NEW b \in Buffers, NEW length \in Sizes, BufferCreateShared(b, length)
          PROVE FALSE
      BY <1>1, <2>1 DEF BufferCreateShared
    <2>2. ASSUME NEW b \in Buffers, NEW length \in Sizes, NEW size \in Sizes,
                 NEW byte_offset \in Sizes, MetalBufferWrap(b, size, byte_offset, length)
          PROVE FALSE
      BY <1>1, <2>2 DEF MetalBufferWrap
    <2>3. CASE node = NoNode /\ AddNode BY <1>1, <2>3, NodeAdded
    <2>4. ASSUME NEW flags, GraphSetNodePatchFlags(flags) PROVE FALSE
      BY <1>1, <2>4 DEF GraphSetNodePatchFlags
    <2>5. CASE GraphInstantiate BY <1>1, <2>5 DEF GraphInstantiate
    <2>6. ASSUME NEW grid \in Grids, PatchDispatchGrid(grid) PROVE Declared(exec, exec')
      BY <1>1, <2>6, GridDeclared
    <2>7. ASSUME NEW i \in DOMAIN exec.ops, NEW b \in Buffers, NEW offset \in Sizes,
                 PatchDispatchBuffer(i, b, offset)
          PROVE  Declared(exec, exec')
      BY <1>1, <2>7, BindingDeclared
    <2>8. ASSUME NEW src \in Buffers, NEW dst \in Buffers, NEW src_offset \in Sizes,
                 NEW dst_offset \in Sizes, NEW count \in Sizes,
                 PatchCopyNode(src, src_offset, dst, dst_offset, count)
          PROVE  Declared(exec, exec')
      BY <1>1, <2>8, CopyPatch, RangesDeclared
    <2>9. ASSUME NEW dst \in Buffers, NEW offset \in Sizes, NEW count \in Sizes,
                 PatchFillNode(dst, offset, count)
          PROVE  Declared(exec, exec')
      BY <1>1, <2>9, FillPatch, RangesDeclared
    <2>10. CASE UNCHANGED vars BY <1>1, <2>10 DEF vars
    <2> QED BY <1>1, <2>1, <2>2, <2>3, <2>4, <2>5, <2>6, <2>7, <2>8, <2>9, <2>10 DEF Next
  <1> DEFINE Kept == exec' # exec /\ exec' # node => Declared(exec, exec')
  <1>2. RangesInv /\ [Next]_vars => [Kept]_vars BY <1>1
  <1>3. Spec => [][Kept]_vars BY <1>2, RangesInvariant, PTL DEF Spec
  <1> QED BY <1>3, PTL DEF OnlyDeclaredChanges, Declared, OpKept

===============================================================================
