---------------------------- MODULE WorkspacePlan ----------------------------
(***************************************************************************)
(* Arenas and workspace planning (arena.c): a graph reserves workspace     *)
(* with its internal workspace nodes, instantiation packs the reservations *)
(* into one allocation, checks it against the attached arena and keeps a   *)
(* reference to that arena in the exec's plan. size_t arithmetic is modulo *)
(* SizeMax + 1. Planning takes one step per node; other calls are atomic.  *)
(***************************************************************************)
EXTENDS Integers, Sequences, FiniteSets

CONSTANTS
    SizeMax,     \* SIZE_MAX
    Sizes,       \* the sizes callers ask for
    Alignments,  \* the alignments they ask for: mg_alignment_valid
    Arenas, Execs,
    None,
    MaxNodes     \* bound on the workspace nodes of the graph

(* Powers of two below 2^w divide it.                                       *)
ASSUME SizesAssumption ==
    /\ SizeMax \in Nat /\ MaxNodes \in Nat
    /\ Sizes \subseteq 1..SizeMax
    /\ Alignments \subseteq {a \in 1..SizeMax : (SizeMax + 1) % a = 0}
ASSUME PowersAssumption == \A a, b \in Alignments : a <= b => b % a = 0
ASSUME ExecsAssumption == IsFiniteSet(Execs) /\ None \notin Arenas

VARIABLES
    nodes,      \* workspace nodes of the graph: [size, alignment], in the
                \* topological order (the order is TopoOrder's business)
    galive,     \* the graph is not destroyed
    garena,     \* mg_graph.arena
    desc,       \* mg_arena.size and alignment; size 0: never created
    handle,     \* the caller has not destroyed its handle of the arena
    ref_count,  \* mg_arena.ref_count; 0: freed
    estate,     \* "none", "planning", "planned", "live", "failed", "destroyed"
    plan,       \* mg_graph_exec.workspace
    todo        \* nodes still to be planned by the running instantiation

vars == <<nodes, galive, garena, desc, handle, ref_count, estate, plan, todo>>

graphVars == <<nodes, galive, garena>>
arenaVars == <<desc, handle, ref_count>>

Idle == \A e \in Execs : estate[e] \notin {"planning", "planned"}

NoPlan == [records |-> <<>>, total_size |-> 0, alignment |-> 0, arena |-> None]

Init ==
    /\ nodes = <<>> /\ galive = TRUE /\ garena = None
    /\ desc = [a \in Arenas |-> [size |-> 0, alignment |-> 0]]
    /\ handle = [a \in Arenas |-> FALSE]
    /\ ref_count = [a \in Arenas |-> 0]
    /\ estate = [e \in Execs |-> "none"]
    /\ plan = [e \in Execs |-> NoPlan]
    /\ todo = <<>>

-----------------------------------------------------------------------------
(* Arenas. None stands for NULL, on which retain and release do nothing.    *)

Retained(rc, a) == [x \in Arenas |-> IF x = a THEN rc[x] + 1 ELSE rc[x]]
Released(rc, a) == [x \in Arenas |-> IF x = a THEN rc[x] - 1 ELSE rc[x]]

ArenaCreate(a, size, alignment) ==
    /\ Idle /\ desc[a].size = 0
    /\ desc' = [desc EXCEPT ![a] = [size |-> size, alignment |-> alignment]]
    /\ handle' = [handle EXCEPT ![a] = TRUE]
    /\ ref_count' = [ref_count EXCEPT ![a] = 1]
    /\ UNCHANGED <<graphVars, estate, plan, todo>>

ArenaDestroy(a) ==
    /\ Idle /\ handle[a]
    /\ handle' = [handle EXCEPT ![a] = FALSE]
    /\ ref_count' = Released(ref_count, a)
    /\ UNCHANGED <<desc, graphVars, estate, plan, todo>>

KeepsOld(rc, a) == Retained(rc, a)
ReleasesTwice(rc, a) == Released(Released(Retained(rc, a), garena), garena)
Exchanged(rc, a) == Released(Retained(rc, a), garena)

(* Attaching the arena already attached changes nothing.                    *)
GraphSetArena(a) ==
    /\ Idle /\ galive /\ handle[a] /\ garena # a
    /\ garena' = a
    /\ ref_count' = Exchanged(ref_count, a)
    /\ UNCHANGED <<nodes, galive, desc, handle, estate, plan, todo>>

GraphDestroy ==
    /\ Idle /\ galive
    /\ galive' = FALSE /\ garena' = None
    /\ ref_count' = Released(ref_count, garena)
    /\ UNCHANGED <<nodes, desc, handle, estate, plan, todo>>

(* mg_internal_graph_add_workspace_node and ..._workspace_fill_node.        *)
AddWorkspaceNode(size, alignment) ==
    /\ Idle /\ galive /\ Len(nodes) < MaxNodes
    /\ nodes' = Append(nodes, [size |-> size, alignment |-> alignment])
    /\ UNCHANGED <<galive, garena, arenaVars, estate, plan, todo>>

-----------------------------------------------------------------------------
(* Planning: mg_graph_plan_workspace, called by mgGraphInstantiate.         *)

PlanBegin(e) ==
    /\ Idle /\ galive /\ estate[e] = "none"
    /\ estate' = [estate EXCEPT ![e] = "planning"]
    /\ todo' = nodes
    /\ UNCHANGED <<graphVars, arenaVars, plan>>

(* mg_align_up_size: value + mask would not fit.                            *)
AlignOverflows(value, alignment) == value > SizeMax - (alignment - 1)

AlignUpUnmasked(value, alignment) == (value + (alignment - 1)) % (SizeMax + 1)

(* (value + mask) & ~mask, in size_t.                                       *)
AlignUp(value, alignment) ==
    (((value + (alignment - 1)) % (SizeMax + 1)) \div alignment) * alignment

SizeOverflowsLate(offset, size) == offset > SizeMax
SizeOverflows(offset, size) == offset > SizeMax - size

Offset(e) == AlignUp(plan[e].total_size, Head(todo).alignment)

Fits(e) ==
    /\ ~AlignOverflows(plan[e].total_size, Head(todo).alignment)
    /\ ~SizeOverflows(Offset(e), Head(todo).size)

EndAtOffset(offset, size) == offset
EndAfter(offset, size) == (offset + size) % (SizeMax + 1)

(* mg_workspace_plan_append                                                 *)
PlanAppend(e) ==
    LET n == Head(todo) IN
    /\ estate[e] = "planning" /\ todo # <<>> /\ Fits(e)
    /\ plan' = [plan EXCEPT ![e] =
          [records    |-> Append(@.records, [size |-> n.size, alignment |-> n.alignment,
                                             offset |-> Offset(e)]),
           total_size |-> EndAfter(Offset(e), n.size),
           alignment  |-> IF n.alignment > @.alignment THEN n.alignment ELSE @.alignment,
           arena      |-> @.arena]]
    /\ todo' = Tail(todo)
    /\ UNCHANGED <<graphVars, arenaVars, estate>>

(* mg_workspace_plan_clear: the plan goes, with its arena reference.        *)
Clear(e, state) ==
    /\ estate' = [estate EXCEPT ![e] = state]
    /\ plan' = [plan EXCEPT ![e] = NoPlan]
    /\ ref_count' = Released(ref_count, plan[e].arena)
    /\ todo' = <<>>
    /\ UNCHANGED <<graphVars, desc, handle>>

PlanOverflows(e) ==
    /\ estate[e] = "planning" /\ todo # <<>> /\ ~Fits(e)
    /\ Clear(e, "overflow")

WithinArenaSizeOnly(p) == p.total_size <= desc[garena].size

WithinArena(p) ==
    /\ p.total_size <= desc[garena].size
    /\ p.alignment <= desc[garena].alignment

(* The arena checks that end planning; the plan retains the arena.          *)
PlanEnd(e) ==
    /\ estate[e] = "planning" /\ todo = <<>>
    /\ garena # None => WithinArena(plan[e])
    /\ estate' = [estate EXCEPT ![e] = "planned"]
    /\ plan' = [plan EXCEPT ![e].arena = garena]
    /\ ref_count' = Retained(ref_count, garena)
    /\ UNCHANGED <<graphVars, desc, handle, todo>>

PlanExceedsArena(e) ==
    /\ estate[e] = "planning" /\ todo = <<>>
    /\ garena # None /\ ~WithinArena(plan[e])
    /\ Clear(e, "failed")

(* The rest of mgGraphInstantiate succeeds, or gives the plan up; so does a *)
(* failed record allocation.                                                *)
InstantiateEnd(e) ==
    /\ estate[e] = "planned"
    /\ estate' = [estate EXCEPT ![e] = "live"]
    /\ UNCHANGED <<graphVars, arenaVars, plan, todo>>

InstantiateFails(e) ==
    /\ estate[e] = "planned" \/ (estate[e] = "planning" /\ todo # <<>>)
    /\ Clear(e, "failed")

ExecDestroy(e) ==
    /\ Idle /\ estate[e] = "live"
    /\ Clear(e, "destroyed")

Next ==
    \/ \E a \in Arenas :
          \/ \E size \in Sizes, alignment \in Alignments : ArenaCreate(a, size, alignment)
          \/ ArenaDestroy(a) \/ GraphSetArena(a)
    \/ GraphDestroy
    \/ \E size \in Sizes, alignment \in Alignments : AddWorkspaceNode(size, alignment)
    \/ \E e \in Execs :
          \/ PlanBegin(e) \/ PlanAppend(e) \/ PlanOverflows(e) \/ PlanEnd(e)
          \/ PlanExceedsArena(e) \/ InstantiateEnd(e) \/ InstantiateFails(e) \/ ExecDestroy(e)

Spec == Init /\ [][Next]_vars

-----------------------------------------------------------------------------
(* Properties.                                                              *)

Record == [size : 1..SizeMax, alignment : 1..SizeMax, offset : 0..SizeMax]

WorkspaceNode == [size : 1..SizeMax, alignment : Alignments]

(* Every variable has its type; a reference count, a uint32_t, is never     *)
(* decremented below zero.                                                  *)
TypeOK ==
    /\ nodes \in Seq(WorkspaceNode) /\ galive \in BOOLEAN /\ garena \in Arenas \cup {None}
    /\ desc \in [Arenas -> [size : 0..SizeMax, alignment : 0..SizeMax]]
    /\ handle \in [Arenas -> BOOLEAN] /\ ref_count \in [Arenas -> Nat]
    /\ estate \in [Execs -> {"none", "planning", "planned", "live", "overflow", "failed", "destroyed"}]
    /\ plan \in [Execs -> [records : Seq(Record), total_size : 0..SizeMax,
                           alignment : 0..SizeMax, arena : Arenas \cup {None}]]
    /\ todo \in Seq(WorkspaceNode)

(* An arena has one reference for the caller's handle, one for the graph it *)
(* is attached to and one per plan made while it was attached. Destroying   *)
(* the handle or the graph, or attaching another arena, does not free the   *)
(* arena of a live exec.                                                    *)
ArenaRefExact ==
    \A a \in Arenas :
        ref_count[a] = (IF handle[a] THEN 1 ELSE 0) + (IF garena = a THEN 1 ELSE 0)
                         + Cardinality({e \in Execs : plan[e].arena = a})

(* The reservations of a plan lie one after the other inside the backend    *)
(* allocation of total_size bytes: no two nodes share a byte, and no sum    *)
(* wrapped around.                                                          *)
RecordsDisjoint ==
    \A e \in Execs : LET r == plan[e].records IN
        \A j \in DOMAIN r :
            /\ r[j].offset + r[j].size <= plan[e].total_size
            /\ \A k \in DOMAIN r : j < k => r[j].offset + r[j].size <= r[k].offset

(* Every reservation starts on its alignment, and still does in an          *)
(* allocation that starts anywhere on the alignment of the plan.            *)
RecordsAligned ==
    \A e \in Execs : \A j \in DOMAIN plan[e].records :
        LET r == plan[e].records[j] IN
        r.offset % r.alignment = 0 /\ plan[e].alignment % r.alignment = 0

(* A plan that names an arena fits it, in size and alignment.               *)
FitsArena ==
    \A e \in Execs : LET p == plan[e] IN
        p.arena # None =>
            p.total_size <= desc[p.arena].size /\ p.alignment <= desc[p.arena].alignment

(* What the first k nodes need when packed in order, in unbounded           *)
(* arithmetic.                                                              *)
UpTo(ns) ==
    LET upTo[k \in 0..Len(ns)] ==
          IF k = 0 THEN 0
          ELSE ((upTo[k - 1] + ns[k].alignment - 1) \div ns[k].alignment) * ns[k].alignment
                 + ns[k].size
    IN  upTo

Needed == UpTo(nodes)[Len(nodes)]

(* Planning overflows exactly when size_t cannot hold what the nodes need,  *)
(* and a plan that is made has exactly that size.                           *)
PlanningExact ==
    [][\A e \in Execs :
          /\ estate[e] = "planning" /\ estate'[e] = "overflow" => Needed > SizeMax
          /\ estate'[e] = "planned" => plan'[e].total_size = Needed]_vars

=============================================================================
