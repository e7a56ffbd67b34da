----------------------------- MODULE BufferRanges -----------------------------
(***************************************************************************)
(* Which bytes the GPU is told to touch. A buffer is a window of a Metal   *)
(* buffer; a node names ranges of buffers, checked when it is added        *)
(* (graph.c) and again when an exec's copy of it is patched (patch.c), and *)
(* a launch hands Metal the window's base plus the node's offset           *)
(* (metal_backend.mm). size_t arithmetic is modulo SizeMax + 1.            *)
(*                                                                         *)
(* Nodes share no state here, so the graph has one. No launch is in flight *)
(* and buffers are not destroyed: both are GraphLaunch's. A rejected call  *)
(* changes nothing: it is a disabled action.                               *)
(***************************************************************************)
EXTENDS Naturals, Sequences

CONSTANTS
    SizeMax,      \* SIZE_MAX
    Buffers,
    Sizes,        \* the lengths, offsets and byte counts callers pass
    Resources,    \* the resource descriptors they pass: [rel, count, alignment]
    PlainResources,  \* those they pass for a second binding
    Shapes,       \* the tensor shapes they pass
    ElementSize,  \* sizeof(float)
    Axes, Dims,   \* of a dispatch grid
    FlagSets      \* the patch flags they set

ASSUME SizesAssumption ==
    /\ SizeMax \in Nat \ {0} /\ ElementSize \in 1..SizeMax
    /\ Sizes \subseteq 0..SizeMax /\ Dims \subseteq Nat
    /\ Shapes \subseteq Seq(0..SizeMax)
    /\ Resources \cup PlainResources \subseteq [rel : 0..SizeMax, count : 0..SizeMax, alignment : 0..SizeMax]

VARIABLES
    buffer,  \* mg_buffer: byte_offset and length, and the length of its MTLBuffer
    node,    \* the graph's node, or NoNode
    exec     \* the exec's copy of it, or NoNode

vars == <<buffer, node, exec>>

NotMade == [size |-> 0, byte_offset |-> 0, length |-> 0]

Made(b) == buffer[b].length # 0

UnitGrid == [a \in Axes |-> 1]

Node(kind, ops) == [kind |-> kind, ops |-> ops, flags |-> {}, grid |-> UnitGrid, max_grid |-> UnitGrid]

NoNode == Node("none", <<>>)

Init == buffer = [b \in Buffers |-> NotMade] /\ node = NoNode /\ exec = NoNode

(* The value a size_t holds of a sum or a product of two.                   *)
SizeT(n) == IF n <= SizeMax THEN n ELSE n % (SizeMax + 1)

-----------------------------------------------------------------------------
(* Making a buffer: memory of its own, or a window of the caller's.         *)

BufferCreateShared(b, length) ==
    /\ ~Made(b) /\ length # 0
    /\ buffer' = [buffer EXCEPT ![b] = [size |-> length, byte_offset |-> 0, length |-> length]]
    /\ UNCHANGED <<node, exec>>

WindowValidUnchecked(size, byte_offset, byte_length) ==
    byte_length # 0 /\ SizeT(byte_offset + byte_length) <= size

WindowValid(size, byte_offset, byte_length) ==
    /\ byte_length # 0 /\ byte_offset <= SizeMax - byte_length
    /\ SizeT(byte_offset + byte_length) <= size

MetalBufferWrap(b, size, byte_offset, byte_length) ==
    /\ ~Made(b) /\ WindowValid(size, byte_offset, byte_length)
    /\ buffer' = [buffer EXCEPT ![b] =
          [size |-> size, byte_offset |-> byte_offset, length |-> byte_length]]
    /\ UNCHANGED <<node, exec>>

-----------------------------------------------------------------------------
(* A node's ranges. rel is the resource's byte_offset, relative to the      *)
(* binding's offset; count 0 is an unknown extent; shape is a tensor's.     *)

NoShape == <<>>
NoResource == [rel |-> 0, count |-> 0, alignment |-> 1]

(* A copied or filled range.                                                *)
Range(b, offset, count) ==
    [buf |-> b, offset |-> offset, rel |-> 0, count |-> count, alignment |-> 1, shape |-> NoShape]

(* A dispatch binding with its resource descriptor; alignment 0 means 1.    *)
Binding(b, offset, r) ==
    [buf |-> b, offset |-> offset, rel |-> r.rel, count |-> r.count,
     alignment |-> IF r.alignment = 0 THEN 1 ELSE r.alignment, shape |-> NoShape]

RangeValidWrapping(length, offset, count) ==
    count > 0 /\ SizeT(offset + count) <= length

(* mg_range_valid and mg_patch_range_valid                                  *)
RangeValid(length, offset, count) ==
    count > 0 /\ offset <= length /\ count <= length - offset

(* mg_dispatch_resource_range_valid, of a binding moved to a buffer and     *)
(* offset.                                                                  *)
ResourceRangeValid(o, length, offset) ==
    /\ o.rel <= SizeMax - offset
    /\ IF o.count = 0 THEN SizeT(offset + o.rel) <= length
                      ELSE RangeValid(length, SizeT(offset + o.rel), o.count)

OffsetAlignedAtBinding(o, offset) == o.rel <= SizeMax - offset /\ offset % o.alignment = 0

(* mg_dispatch_resource_offset_aligned                                      *)
OffsetAligned(o, offset) ==
    o.rel <= SizeMax - offset /\ SizeT(offset + o.rel) % o.alignment = 0

(* mg_alignment_valid: a power of two                                       *)
AlignmentValid(a) == \E k \in 0..SizeMax : a = 2^k

BindingValid(o) ==
    /\ o.offset <= buffer[o.buf].length
    /\ AlignmentValid(o.alignment) /\ OffsetAligned(o, o.offset)
    /\ ResourceRangeValid(o, buffer[o.buf].length, o.offset)

-----------------------------------------------------------------------------
(* mg_shape_byte_count, 0 where the code refuses the shape.                 *)

OverflowsLate(elements, dim) == elements > SizeMax
Overflows(elements, dim) == elements > SizeMax \div dim

Elements(shape) ==
    LET elements[k \in 0..Len(shape)] ==
          IF k = 0 THEN 1
          ELSE IF elements[k - 1] = 0 \/ shape[k] = 0 THEN 0
          ELSE IF Overflows(elements[k - 1], shape[k]) THEN 0
          ELSE SizeT(elements[k - 1] * shape[k])
    IN  elements[Len(shape)]

RequiredBytes(shape) ==
    IF shape = NoShape \/ Elements(shape) = 0 \/ Overflows(Elements(shape), ElementSize) THEN 0
    ELSE SizeT(Elements(shape) * ElementSize)

(* mg_validate_mpsgraph_tensor_desc; a byte_count of 0 means the bytes the  *)
(* shape needs.                                                             *)
TensorValid(b, byte_offset, byte_count, shape) ==
    LET required == RequiredBytes(shape)
        count == IF byte_count # 0 THEN byte_count ELSE required
    IN  /\ required # 0 /\ required <= count
        /\ byte_offset = 0 /\ buffer[b].byte_offset = 0
        /\ RangeValid(buffer[b].length, byte_offset, count)

Tensor(b, byte_offset, byte_count, shape) ==
    [Range(b, byte_offset, IF byte_count # 0 THEN byte_count ELSE RequiredBytes(shape))
       EXCEPT !.shape = shape]

-----------------------------------------------------------------------------
(* Adding the node.                                                         *)

Add(n) == node = NoNode /\ node' = n /\ UNCHANGED <<buffer, exec>>

RangeInBuffer(b, offset, count) == Made(b) /\ RangeValid(buffer[b].length, offset, count)

AddCopyNode(src, src_offset, dst, dst_offset, byte_count) ==
    /\ RangeInBuffer(src, src_offset, byte_count) /\ RangeInBuffer(dst, dst_offset, byte_count)
    /\ Add(Node("copy", <<Range(src, src_offset, byte_count), Range(dst, dst_offset, byte_count)>>))

(* kind is fill, or the internal workspace_fill, whose reservation is       *)
(* WorkspacePlan's.                                                         *)
AddFillNode(kind, dst, dst_offset, byte_count) ==
    /\ RangeInBuffer(dst, dst_offset, byte_count)
    /\ Add(Node(kind, <<Range(dst, dst_offset, byte_count)>>))

PositiveSomewhere(dims) == \E a \in Axes : dims[a] > 0
Positive(dims) == \A a \in Axes : dims[a] > 0

WithinSomewhere(dims, max) == \E a \in Axes : dims[a] <= max[a]
Within(dims, max) == \A a \in Axes : dims[a] <= max[a]

(* A maximum with a zero axis is not given: the grid itself is the maximum. *)
MaxGrid(grid, max_grid) == IF Positive(max_grid) THEN max_grid ELSE grid

AddDispatchNode(ops, grid, max_grid) ==
    /\ Positive(grid)
    /\ \A i \in DOMAIN ops : Made(ops[i].buf) /\ BindingValid(ops[i])
    /\ Within(grid, MaxGrid(grid, max_grid))
    /\ Add([Node("dispatch", ops) EXCEPT !.grid = grid, !.max_grid = MaxGrid(grid, max_grid)])

(* One feed or target, src, per tensor.                                     *)
AddMPSGraphNode(tensors) ==
    /\ \A i \in DOMAIN tensors : LET t == tensors[i] IN
          Made(t.buf) /\ TensorValid(t.buf, t.offset, t.count, t.shape)
    /\ Add(Node("mpsgraph",
                [i \in DOMAIN tensors |-> LET t == tensors[i] IN
                     Tensor(t.buf, t.offset, t.count, t.shape)]))

(* mg_patch_flags_allowed                                                   *)
Allowed(kind) ==
    CASE kind = "dispatch" -> {"grid", "buffer", "scalar"}
      [] kind = "copy"     -> {"buffer", "range"}
      [] kind = "fill"     -> {"buffer", "range", "value"}
      [] OTHER             -> {}

RangedBindings(n) == \A i \in DOMAIN n.ops : n.ops[i].count # 0

GraphSetNodePatchFlags(flags) ==
    /\ node # NoNode /\ flags \subseteq Allowed(node.kind)
    /\ node.kind = "dispatch" /\ "buffer" \in flags => RangedBindings(node)
    /\ node' = [node EXCEPT !.flags = flags]
    /\ UNCHANGED <<buffer, exec>>

-----------------------------------------------------------------------------
(* The exec's copy of the node, and its patches.                            *)

(* An earlier exec of the graph is destroyed or forgotten.                  *)
GraphInstantiate ==
    /\ node # NoNode
    /\ exec' = node
    /\ UNCHANGED <<buffer, node>>

PatchDispatchGrid(grid) ==
    /\ exec.kind = "dispatch" /\ "grid" \in exec.flags
    /\ Positive(grid) /\ Within(grid, exec.max_grid)
    /\ exec' = [exec EXCEPT !.grid = grid]
    /\ UNCHANGED <<buffer, node>>

PatchBindingValid(o, b, offset) ==
    /\ offset <= buffer[b].length /\ o.count # 0
    /\ OffsetAligned(o, offset) /\ ResourceRangeValid(o, buffer[b].length, offset)

PatchDispatchBuffer(i, b, offset) ==
    /\ exec.kind = "dispatch" /\ "buffer" \in exec.flags
    /\ Made(b) /\ PatchBindingValid(exec.ops[i], b, offset)
    /\ exec' = [exec EXCEPT !.ops[i] = [@ EXCEPT !.buf = b, !.offset = offset]]
    /\ UNCHANGED <<buffer, node>>

BufferChanges(new, old) == \E i \in DOMAIN new : new[i].buf # old[i].buf

RangeChangesFirst(new, old) == new[1].offset # old[1].offset
RangeChanges(new, old) ==
    \E i \in DOMAIN new : new[i].offset # old[i].offset \/ new[i].count # old[i].count

(* The common part of the copy and the fill patch: what changes must have   *)
(* been declared patchable.                                                 *)
PatchRanges(ops) ==
    /\ \A i \in DOMAIN ops : RangeInBuffer(ops[i].buf, ops[i].offset, ops[i].count)
    /\ BufferChanges(ops, exec.ops) => "buffer" \in exec.flags
    /\ RangeChanges(ops, exec.ops) => "range" \in exec.flags
    /\ exec' = [exec EXCEPT !.ops = ops]
    /\ UNCHANGED <<buffer, node>>

PatchCopyNode(src, src_offset, dst, dst_offset, byte_count) ==
    /\ exec.kind = "copy"
    /\ PatchRanges(<<Range(src, src_offset, byte_count), Range(dst, dst_offset, byte_count)>>)

(* The fill value is left as it is; GraphLaunch patches it.                 *)
PatchFillNode(dst, dst_offset, byte_count) ==
    /\ exec.kind = "fill"
    /\ PatchRanges(<<Range(dst, dst_offset, byte_count)>>)

Bindings(resources) == {Binding(b, offset, r) : b \in Buffers, offset \in Sizes, r \in resources}

(* What a tensor descriptor says, before a byte_count of 0 is replaced.     *)
Tensors(sizes, shapes) ==
    {[Range(b, offset, count) EXCEPT !.shape = shape] :
       b \in Buffers, offset \in sizes, count \in sizes, shape \in shapes}

Grids == [Axes -> Dims]

AddNode ==
    \/ \E src, dst \in Buffers, src_offset, dst_offset, count \in Sizes :
          AddCopyNode(src, src_offset, dst, dst_offset, count)
    \/ \E dst \in Buffers, offset, count \in Sizes, kind \in {"fill", "workspace_fill"} :
          AddFillNode(kind, dst, offset, count)
    \/ \E o \in Bindings(Resources) :
          \/ AddDispatchNode(<<o>>, UnitGrid, UnitGrid)
          \/ \E plain \in Bindings(PlainResources) : AddDispatchNode(<<plain, o>>, UnitGrid, UnitGrid)
    \/ \E grid, max_grid \in Grids : AddDispatchNode(<<>>, grid, max_grid)
    \/ \E feed \in Tensors(Sizes, Shapes), target \in Tensors({0}, Shapes) :
          AddMPSGraphNode(<<feed, target>>)

(* Inputs: every first binding and feed, with a plain second binding and a  *)
(* target that leaves its size out; grids vary on dispatches without        *)
(* buffers. No check of the code looks at two of these at once.             *)
Next ==
    \/ \E b \in Buffers, length \in Sizes :
          \/ BufferCreateShared(b, length)
          \/ \E size, byte_offset \in Sizes : MetalBufferWrap(b, size, byte_offset, length)
    \/ node = NoNode /\ AddNode
    \/ \E flags \in FlagSets : GraphSetNodePatchFlags(flags)
    \/ GraphInstantiate
    \/ \E grid \in Grids : PatchDispatchGrid(grid)
    \/ \E i \in DOMAIN exec.ops, b \in Buffers, offset \in Sizes : PatchDispatchBuffer(i, b, offset)
    \/ \E src, dst \in Buffers, src_offset, dst_offset, count \in Sizes :
          PatchCopyNode(src, src_offset, dst, dst_offset, count)
    \/ \E dst \in Buffers, offset, count \in Sizes : PatchFillNode(dst, offset, count)

Spec == Init /\ [][Next]_vars

-----------------------------------------------------------------------------
(* Properties.                                                              *)

Op == [buf : Buffers, offset : 0..SizeMax, rel : 0..SizeMax, count : 0..SizeMax,
       alignment : 1..SizeMax, shape : Seq(0..SizeMax)]

Kinds == {"none", "copy", "fill", "workspace_fill", "dispatch", "mpsgraph"}

NodeType == [kind : Kinds, ops : Seq(Op), flags : SUBSET {"grid", "buffer", "scalar", "range", "value"},
             grid : [Axes -> Nat \ {0}], max_grid : [Axes -> Nat \ {0}]]

(* Every variable has its type; no grid has an empty axis.                  *)
TypeOK ==
    /\ buffer \in [Buffers -> [size : 0..SizeMax, byte_offset : 0..SizeMax, length : 0..SizeMax]]
    /\ node \in NodeType /\ exec \in NodeType

(* mg_metal_buffer_offset: what a launch passes to Metal for the range.     *)
MetalOffsetRelative(b, offset) == offset
MetalOffset(b, offset) == SizeT(buffer[b].byte_offset + offset)

(* The first byte after the range a command touches, from the offset it was *)
(* encoded with, in unbounded arithmetic.                                   *)
EndOf(o) == MetalOffset(o.buf, o.offset) + o.rel + o.count

(* Whatever is added and however it is patched, a command touches only      *)
(* bytes of its buffer's window (on both sides: the base is not below it    *)
(* and the end not behind it), and the window lies in the Metal buffer.     *)
InBounds ==
    \A n \in {node, exec} : \A i \in DOMAIN n.ops :
        LET o == n.ops[i]
            w == buffer[o.buf]
        IN  /\ w.byte_offset <= MetalOffset(o.buf, o.offset)
            /\ EndOf(o) <= w.byte_offset + w.length
            /\ w.byte_offset + w.length <= w.size

Product(shape) ==
    LET product[k \in 0..Len(shape)] == IF k = 0 THEN 1 ELSE product[k - 1] * shape[k]
    IN  product[Len(shape)]

(* A tensor's elements, counted in unbounded arithmetic, fit the bytes that *)
(* were checked against its buffer: no shape is accepted whose product      *)
(* wrapped to something small.                                              *)
TensorsFit ==
    \A n \in {node, exec} : n.kind = "mpsgraph" =>
        \A i \in DOMAIN n.ops : Product(n.ops[i].shape) * ElementSize <= n.ops[i].count

(* A dispatch sees the first byte of each described range on the alignment  *)
(* the descriptor asks for, relative to the wrapper, also after patches.    *)
BindingsAligned ==
    \A n \in {node, exec} : \A i \in DOMAIN n.ops :
        (n.ops[i].offset + n.ops[i].rel) % n.ops[i].alignment = 0

(* A dispatch never runs a larger grid than the one declared.               *)
GridWithinMax == \A n \in {node, exec} : \A a \in Axes : n.grid[a] <= n.max_grid[a]

(* A live exec changes only in what was declared patchable when it was      *)
(* instantiated, whatever flags the graph's node is given later; the        *)
(* declared extent of a dispatch binding never changes.                     *)
OnlyDeclaredChanges ==
    [][exec' # exec /\ exec' # node =>
          /\ exec'.flags = exec.flags /\ exec'.max_grid = exec.max_grid
          /\ "grid" \notin exec.flags => exec'.grid = exec.grid
          /\ \A i \in DOMAIN exec.ops :
                LET old == exec.ops[i]
                    new == exec'.ops[i]
                IN  /\ "buffer" \notin exec.flags => new.buf = old.buf
                    /\ IF exec.kind = "dispatch"
                       THEN /\ "buffer" \notin exec.flags => new = old
                            /\ new = [old EXCEPT !.buf = new.buf, !.offset = new.offset]
                       ELSE "range" \notin exec.flags =>
                              new = [old EXCEPT !.buf = new.buf]]_vars

=============================================================================
