------------------------------ MODULE GraphBuild ------------------------------
(***************************************************************************)
(* Building: creating buffers and events, adding nodes to a graph and      *)
(* copying them into an exec (graph.c, metal_backend.mm, buffer.c), one    *)
(* allocation at a time, each of which may fail and is cleaned up after.   *)
(* GraphLaunch starts from what a successful build leaves.                 *)
(*                                                                         *)
(* Callers serialise their calls, so one call runs at a time. A call that  *)
(* fails before it holds anything changes nothing and is no action.        *)
(***************************************************************************)
EXTENDS Integers, Sequences, FiniteSets

CONSTANTS
    Objects,        \* buffers and events
    Events,         \* the events among them
    External,       \* the buffers among them that wrap a Metal buffer of the caller
    Descs,          \* what callers add: [kind, parts], see Part
    FirstCapacity,  \* of the node array; 4 in the code
    MaxNodes        \* bound on the nodes of the graph

ASSUME BuildAssumption ==
    /\ FirstCapacity \in Nat \ {0} /\ MaxNodes \in Nat
    /\ Events \subseteq Objects /\ External \subseteq Objects \ Events

(* A part of a node, in the order a call builds them: memory that holds no  *)
(* reference ("alloc"), an array filled with references ("array"), an array *)
(* of tensors with a shape each ("tensors"), references stored in the node  *)
(* itself ("hold"), the exec's copy of a package file ("package").          *)
Part(op, objs) == [op |-> op, objs |-> objs]
Alloc == Part("alloc", <<>>)

(* What callers add: allocations and references; packages are the exec's.   *)
Kinds == {"copy", "fill", "event", "barrier", "dispatch", "mpsgraph"}
Desc == [kind : Kinds, parts : Seq([op : {"alloc", "array", "tensors", "hold"}, objs : Seq(Objects)])]

ASSUME DescsAssumption ==
    /\ Descs \subseteq Desc
    /\ \A d \in Descs : \A i \in DOMAIN d.parts : d.parts[i].op = "alloc" => d.parts[i] = Alloc

Copy(src, dst) == [kind |-> "copy", parts |-> <<Part("hold", <<src, dst>>)>>]
Fill(dst) == [kind |-> "fill", parts |-> <<Part("hold", <<dst>>)>>]
Event(e) == [kind |-> "event", parts |-> <<Part("hold", <<e>>)>>]
Barrier == [kind |-> "barrier", parts |-> <<>>]

(* The strings, the bindings, the scalars and the resource descriptors. The *)
(* checks between them fail like the strings' allocation.                   *)
Dispatch(buffers) == [kind |-> "dispatch", parts |-> <<Alloc, Part("array", buffers), Alloc, Alloc>>]

MPSGraph(feeds, targets) ==
    [kind |-> "mpsgraph", parts |-> <<Alloc, Part("tensors", feeds), Part("tensors", targets)>>]

CloneWithoutLast(d) == SubSeq(d.parts, 1, Len(d.parts) - 1)

(* The exec's copy also needs a pipeline, or a package it loads.            *)
CloneParts(d) ==
    d.parts \o CASE d.kind = "dispatch" -> <<Alloc>>
                 [] d.kind = "mpsgraph" -> <<Part("package", <<>>), Alloc>>
                 [] OTHER -> <<>>

VARIABLES
    ref_count,      \* of an object; 0: not made, or freed
    backend,        \* the object retains its Metal object
    owner,          \* an external buffer retains its owner
    made,           \* the object was handed to the caller
    handle,         \* and the caller has not destroyed its handle
    galive,         \* the graph is not destroyed
    nodes,          \* mg_graph.nodes: [desc, held]
    node_capacity,  \* mg_graph.node_capacity
    estate,         \* the exec: "none", "building" or "live"
    enodes,         \* its nodes, as far as they are copied: [held, package]
    packages,       \* package copies on disk
    call            \* the call in progress

objectVars == <<ref_count, backend, owner, made, handle>>
graphVars == <<galive, nodes, node_capacity>>
execVars == <<estate, enodes, packages>>
vars == <<objectVars, graphVars, execVars, call>>

(* parts: those not built yet; tensors: the objects of the tensors copied  *)
(* so far of the array being copied; held, package: what the new node has.  *)
Call(op, desc, parts) ==
    [op |-> op, desc |-> desc, parts |-> parts, tensors |-> <<>>, held |-> <<>>, package |-> FALSE]
NoCall == Call("none", Barrier, <<>>)

Idle == call = NoCall /\ estate # "building"

Init ==
    /\ ref_count = [o \in Objects |-> 0] /\ backend = [o \in Objects |-> FALSE]
    /\ owner = [o \in Objects |-> FALSE] /\ made = [o \in Objects |-> FALSE]
    /\ handle = [o \in Objects |-> FALSE]
    /\ galive = TRUE /\ nodes = <<>> /\ node_capacity = 0
    /\ estate = "none" /\ enodes = <<>> /\ packages = 0
    /\ call = NoCall

-----------------------------------------------------------------------------
(* References.                                                              *)

Occurrences(objs, o) == Cardinality({k \in DOMAIN objs : objs[k] = o})

HeldBy(ns, o) ==
    Cardinality({p \in UNION {{i} \X DOMAIN ns[i].held : i \in DOMAIN ns} : ns[p[1]].held[p[2]] = o})

(* mg_buffer_retain, mg_event_retain                                        *)
Retain(objs) ==
    /\ ref_count' = [o \in Objects |-> ref_count[o] + Occurrences(objs, o)]
    /\ UNCHANGED <<backend, owner, made, handle>>

Kept(r, count) == [o \in Objects |-> r[o] /\ count[o] > 0]

(* mg_buffer_release, mg_event_release, given how often each object is      *)
(* released: at 0 the Metal object and the owner go.                        *)
Release(dropped) ==
    /\ ref_count' = [o \in Objects |-> ref_count[o] - dropped[o]]
    /\ backend' = Kept(backend, ref_count')
    /\ owner' = Kept(owner, ref_count')
    /\ UNCHANGED made

-----------------------------------------------------------------------------
(* Objects.                                                                 *)

(* mgBufferCreateShared: the Metal buffer is retained, then a label is      *)
(* allocated.                                                               *)
BufferCreateShared(o) ==
    /\ Idle /\ ~made[o] /\ o \notin External \cup Events
    /\ backend' = [backend EXCEPT ![o] = TRUE]
    /\ call' = Call("create", Barrier, <<Part("array", <<o>>)>>)
    /\ UNCHANGED <<ref_count, owner, made, handle, graphVars, execVars>>

HandedOut(o) ==
    /\ ref_count' = [ref_count EXCEPT ![o] = 1]
    /\ made' = [made EXCEPT ![o] = TRUE] /\ handle' = [handle EXCEPT ![o] = TRUE]

Creating(o) == call.op = "create" /\ call.parts = <<Part("array", <<o>>)>>

BufferCreateEnd(o) ==
    /\ Creating(o) /\ HandedOut(o) /\ call' = NoCall
    /\ UNCHANGED <<backend, owner, graphVars, execVars>>

BufferCreateFails(o) ==
    /\ Creating(o)
    /\ backend' = [backend EXCEPT ![o] = FALSE] /\ call' = NoCall
    /\ UNCHANGED <<ref_count, owner, made, handle, graphVars, execVars>>

(* mgEventCreate                                                            *)
EventCreate(o) ==
    /\ Idle /\ ~made[o] /\ o \in Events
    /\ backend' = [backend EXCEPT ![o] = TRUE]
    /\ HandedOut(o)
    /\ UNCHANGED <<owner, graphVars, execVars, call>>

LifetimeValid(flags) == "RETAIN_BUFFER" \in flags \/ "RETAIN_OWNER" \in flags

(* Every step that can fail comes before owner_retain.                      *)
MetalBufferWrap(o, flags) ==
    /\ Idle /\ ~made[o] /\ o \in External /\ LifetimeValid(flags)
    /\ backend' = [backend EXCEPT ![o] = "RETAIN_BUFFER" \in flags]
    /\ owner' = [owner EXCEPT ![o] = "RETAIN_OWNER" \in flags]
    /\ HandedOut(o)
    /\ UNCHANGED <<graphVars, execVars, call>>

HandleDestroy(o) ==
    /\ Idle /\ handle[o]
    /\ handle' = [handle EXCEPT ![o] = FALSE]
    /\ Release([p \in Objects |-> IF p = o THEN 1 ELSE 0])
    /\ UNCHANGED <<graphVars, execVars, call>>

-----------------------------------------------------------------------------
(* The parts of a node, built by the add-node calls and by the exec's copy. *)

Building == call.op \in {"add", "clone"} /\ call.parts # <<>>
part == Head(call.parts)

Proceed(new) == call' = [new EXCEPT !.parts = Tail(@)]

Allocate ==
    /\ Building /\ part.op = "alloc"
    /\ Proceed(call)
    /\ UNCHANGED <<objectVars, graphVars, execVars>>

HoldAll ==
    /\ Building /\ part.op \in {"array", "hold"}
    /\ Retain(part.objs)
    /\ Proceed([call EXCEPT !.held = @ \o part.objs])
    /\ UNCHANGED <<graphVars, execVars>>

MoreTensors == Len(call.tensors) < Len(part.objs)

(* The shape is allocated, then the buffer retained.                        *)
CopyTensor ==
    /\ Building /\ part.op = "tensors" /\ MoreTensors
    /\ LET o == part.objs[Len(call.tensors) + 1] IN
         /\ Retain(<<o>>)
         /\ call' = [call EXCEPT !.tensors = Append(@, o)]
    /\ UNCHANGED <<graphVars, execVars>>

TensorsCopied ==
    /\ Building /\ part.op = "tensors" /\ ~MoreTensors
    /\ Proceed([call EXCEPT !.held = @ \o call.tensors, !.tensors = <<>>])
    /\ UNCHANGED <<objectVars, graphVars, execVars>>

(* The package is copied and the name of the copy recorded; without the     *)
(* record the copy is removed at once.                                      *)
CopyPackage ==
    /\ Building /\ part.op = "package"
    /\ packages' = packages + 1
    /\ Proceed([call EXCEPT !.package = TRUE])
    /\ UNCHANGED <<objectVars, graphVars, estate, enodes>>

CanFail == Building /\ part.op # "hold" /\ (part.op = "tensors" => MoreTensors)

UndoneNode(o) == Occurrences(call.held, o)
UndoneWithFailing(o) ==
    Occurrences(call.held, o) +
      IF CanFail /\ part.op = "tensors"
      THEN Occurrences(SubSeq(part.objs, 1, Len(call.tensors) + 1), o) ELSE 0

(* A failing tensor array releases the tensors before the failing one, the  *)
(* cleared node what it holds.                                              *)
Undone(o) == Occurrences(call.tensors, o) + Occurrences(call.held, o)

-----------------------------------------------------------------------------
(* The graph.                                                               *)

RequiredNow(count) == count
Required(count) == count + 1

(* mg_graph_reserve_nodes. Its doubling loop never runs: one node more than *)
(* the capacity is at most twice the capacity.                              *)
Reserved ==
    IF Required(Len(nodes)) <= node_capacity THEN node_capacity
    ELSE IF node_capacity = 0 THEN FirstCapacity ELSE 2 * node_capacity

Named(d) == UNION {{d.parts[i].objs[k] : k \in DOMAIN d.parts[i].objs} : i \in DOMAIN d.parts}

CanAdd(d) ==
    Idle /\ galive /\ Len(nodes) < MaxNodes /\ \A o \in Named(d) : handle[o]

(* Room is reserved and the node allocated, or only the first.              *)
AddBegin(d) ==
    /\ CanAdd(d)
    /\ node_capacity' = Reserved
    /\ call' = Call("add", d, d.parts)
    /\ UNCHANGED <<objectVars, galive, nodes, execVars>>

AddOutOfMemory(d) ==
    /\ CanAdd(d)
    /\ node_capacity' = Reserved
    /\ UNCHANGED <<objectVars, galive, nodes, execVars, call>>

AddEnd ==
    /\ call.op = "add" /\ call.parts = <<>>
    /\ nodes' = Append(nodes, [desc |-> call.desc, held |-> call.held])
    /\ call' = NoCall
    /\ UNCHANGED <<objectVars, galive, node_capacity, execVars>>

AddFails ==
    /\ call.op = "add" /\ CanFail
    /\ Release([o \in Objects |-> Undone(o)])
    /\ call' = NoCall
    /\ UNCHANGED <<handle, graphVars, execVars>>

GraphDestroy ==
    /\ Idle /\ galive
    /\ galive' = FALSE /\ nodes' = <<>> /\ node_capacity' = 0
    /\ Release([o \in Objects |-> HeldBy(nodes, o)])
    /\ UNCHANGED <<handle, execVars, call>>

-----------------------------------------------------------------------------
(* The exec: mgGraphInstantiate copies node after node, here in the order   *)
(* they were added (TopoOrder has the order).                               *)

InstantiateBegin ==
    /\ Idle /\ galive /\ estate = "none"
    /\ estate' = "building"
    /\ UNCHANGED <<objectVars, graphVars, enodes, packages, call>>

CloneBegin ==
    /\ estate = "building" /\ call = NoCall /\ Len(enodes) < Len(nodes)
    /\ LET d == nodes[Len(enodes) + 1].desc IN call' = Call("clone", d, CloneParts(d))
    /\ UNCHANGED <<objectVars, graphVars, execVars>>

CloneEnd ==
    /\ call.op = "clone" /\ call.parts = <<>>
    /\ enodes' = Append(enodes, [held |-> call.held, package |-> call.package])
    /\ call' = NoCall
    /\ UNCHANGED <<objectVars, graphVars, estate, packages>>

InstantiateEnd ==
    /\ estate = "building" /\ call = NoCall /\ Len(enodes) = Len(nodes)
    /\ estate' = "live"
    /\ UNCHANGED <<objectVars, graphVars, enodes, packages, call>>

Packages(ns) == Cardinality({i \in DOMAIN ns : ns[i].package})

ExecClearedNodes == Packages(enodes)
ExecCleared == Packages(enodes) + (IF call.package THEN 1 ELSE 0)

(* mgGraphExecDestroy, of a live exec or of one that is half built: its     *)
(* copied nodes and the partial one are cleared.                            *)
ExecClear ==
    /\ estate' = "none" /\ enodes' = <<>>
    /\ packages' = packages - ExecCleared
    /\ Release([o \in Objects |-> HeldBy(enodes, o) + Undone(o)])
    /\ call' = NoCall
    /\ UNCHANGED <<handle, graphVars>>

(* The workspace cannot be allocated, before any node is copied.            *)
WorkspaceAllocateFails ==
    estate = "building" /\ call = NoCall /\ enodes = <<>> /\ ExecClear

CloneFails == call.op = "clone" /\ CanFail /\ ExecClear

ExecDestroy == Idle /\ estate = "live" /\ ExecClear

Next ==
    \/ \E o \in Objects :
          \/ BufferCreateShared(o) \/ BufferCreateEnd(o) \/ BufferCreateFails(o)
          \/ EventCreate(o) \/ HandleDestroy(o)
          \/ \E flags \in SUBSET {"RETAIN_BUFFER", "RETAIN_OWNER"} : MetalBufferWrap(o, flags)
    \/ \E d \in Descs : AddBegin(d) \/ AddOutOfMemory(d)
    \/ Allocate \/ HoldAll \/ CopyTensor \/ TensorsCopied \/ CopyPackage
    \/ AddEnd \/ AddFails \/ GraphDestroy
    \/ InstantiateBegin \/ CloneBegin \/ CloneEnd \/ CloneFails
    \/ WorkspaceAllocateFails \/ InstantiateEnd \/ ExecDestroy

Spec == Init /\ [][Next]_vars

-----------------------------------------------------------------------------
(* Properties.                                                              *)

Node == [desc : Descs, held : Seq(Objects)]
ExecNode == [held : Seq(Objects), package : BOOLEAN]

(* Every variable has its type; a reference count, a uint32_t, is never     *)
(* decremented below zero, and no package copy is removed twice.            *)
TypeOK ==
    /\ ref_count \in [Objects -> Nat] /\ backend \in [Objects -> BOOLEAN]
    /\ owner \in [Objects -> BOOLEAN] /\ made \in [Objects -> BOOLEAN]
    /\ handle \in [Objects -> BOOLEAN]
    /\ galive \in BOOLEAN /\ nodes \in Seq(Node) /\ node_capacity \in Nat
    /\ estate \in {"none", "building", "live"} /\ enodes \in Seq(ExecNode) /\ packages \in Nat
    /\ call.op \in {"none", "create", "add", "clone"}
    /\ call.tensors \in Seq(Objects) /\ call.held \in Seq(Objects) /\ call.package \in BOOLEAN

(* At every allocation of every call, an object has one reference for the   *)
(* caller's handle, one for each time a node of the graph or of the exec    *)
(* names it, and one for each time the node being built does so far.        *)
BuildRefsExact ==
    \A o \in Objects :
        ref_count[o] = (IF handle[o] THEN 1 ELSE 0) + HeldBy(nodes, o) + HeldBy(enodes, o)
                         + Occurrences(call.held, o) + Occurrences(call.tensors, o)

(* An object that exists keeps its Metal object or the owner of it alive,   *)
(* one that was destroyed or never finished keeps neither, and the package  *)
(* copies on disk are those the exec's nodes will remove.                   *)
NothingLeaks ==
    /\ \A o \in Objects : ~Creating(o) => (backend[o] \/ owner[o]) = (ref_count[o] > 0)
    /\ packages = Packages(enodes) + (IF call.package THEN 1 ELSE 0)

(* The node array has room for the nodes, and while a node is being built,  *)
(* for the one that mg_graph_commit_node will store without looking.        *)
CapacityHolds == Len(nodes) + (IF call.op = "add" THEN 1 ELSE 0) <= node_capacity

HeldSets(ns) == [i \in DOMAIN ns |-> {ns[i].held[k] : k \in DOMAIN ns[i].held}]

Contract == INSTANCE BuildContract WITH
    Uses  <- {Named(d) : d \in Descs},
    life  <- [o \in Objects |-> IF ref_count[o] > 0 THEN "live"
                               ELSE IF made[o] THEN "gone" ELSE "none"],
    graph <- HeldSets(nodes),
    exec  <- IF estate = "live" THEN HeldSets(enodes) ELSE <<>>,
    elive <- estate = "live"

(* Every call is one step of the contract or none: a node is added and a    *)
(* graph instantiated whole or not at all, the exec holds what the graph    *)
(* held, and every object ends when its last holder lets go of it, never    *)
(* before and never after.                                                  *)
ImplementsBuildContract == Contract!Spec

=============================================================================
