------------------------------ MODULE TopoOrder ------------------------------
(***************************************************************************)
(* The mutable graph (graph.c): nodes and dependency edges, and the order  *)
(* mgGraphValidate and mgGraphInstantiate compute from them: Kahn's        *)
(* algorithm over an indegree array and a queue with room for node_count   *)
(* entries. One step is one round of one of its loops. Indices start at 0. *)
(***************************************************************************)
EXTENDS Integers, Sequences, FiniteSets

CONSTANTS MaxNodes, MaxEdges   \* bounds on the graphs the caller builds

ASSUME BoundsAssumption == MaxNodes \in Nat /\ MaxEdges \in Nat

VARIABLES
    node_count,  \* mg_graph.node_count
    edges,       \* mg_graph.edges: <<before, after>> in the order added
    pc,          \* "idle", or the loop the running call is in
    indegree,    \* per node, the edges into it not yet taken off
    queue,       \* the queue array up to tail
    head,
    order,       \* the order array up to produced
    i,           \* index of the next edge of the running edge loop
    status       \* what the last call returned: "none", "ok" or "cycle"

vars == <<node_count, edges, pc, indegree, queue, head, order, i, status>>

graphVars == <<node_count, edges>>

Nodes  == 0..(node_count - 1)
Before(k) == edges[k][1]
After(k)  == edges[k][2]

Init ==
    /\ node_count = 0 /\ edges = <<>>
    /\ pc = "idle" /\ indegree = <<>> /\ queue = <<>> /\ head = 0 /\ order = <<>>
    /\ i = 0 /\ status = "none"

-----------------------------------------------------------------------------
(* Building the graph: every mgGraphAdd...Node that succeeds appends a node.*)

AddNode ==
    /\ pc = "idle" /\ node_count < MaxNodes
    /\ node_count' = node_count + 1
    /\ status' = "none"
    /\ UNCHANGED <<edges, pc, indegree, queue, head, order, i>>

(* A self-dependency is rejected, a known edge is accepted and not stored.  *)
AddDependency(b, a) ==
    /\ pc = "idle" /\ Len(edges) < MaxEdges
    /\ {b, a} \subseteq Nodes /\ b # a
    /\ \A k \in DOMAIN edges : edges[k] # <<b, a>>
    /\ edges' = Append(edges, <<b, a>>)
    /\ status' = "none"
    /\ UNCHANGED <<node_count, pc, indegree, queue, head, order, i>>

-----------------------------------------------------------------------------
(* mg_graph_topological_order. An empty graph is in order.                  *)

SortBegin ==
    /\ pc = "idle"
    /\ order' = <<>> /\ i' = 0
    /\ IF node_count = 0
       THEN pc' = "idle" /\ status' = "ok" /\ UNCHANGED indegree
       ELSE pc' = "count" /\ status' = "none" /\ indegree' = [n \in Nodes |-> 0]
    /\ UNCHANGED <<graphVars, queue, head>>

(* indegree[edges[i].after]++                                               *)
CountEdge ==
    /\ pc = "count" /\ i < Len(edges)
    /\ indegree' = [indegree EXCEPT ![After(i + 1)] = @ + 1]
    /\ i' = i + 1
    /\ UNCHANGED <<graphVars, pc, queue, head, order, status>>

CountDone ==
    /\ pc = "count" /\ i = Len(edges)
    /\ pc' = "roots" /\ i' = 0
    /\ UNCHANGED <<graphVars, indegree, queue, head, order, status>>

Ready(n) == indegree[n] = 0

(* Nodes without dependencies enter the queue in the order they were added. *)
QueueRoot ==
    /\ pc = "roots" /\ i < node_count
    /\ queue' = IF Ready(i) THEN Append(queue, i) ELSE queue
    /\ i' = i + 1
    /\ UNCHANGED <<graphVars, pc, indegree, head, order, status>>

RootsDone ==
    /\ pc = "roots" /\ i = node_count
    /\ pc' = "take"
    /\ UNCHANGED <<graphVars, indegree, queue, head, order, i, status>>

Take ==
    /\ pc = "take" /\ head < Len(queue)
    /\ order' = Append(order, queue[head + 1])
    /\ head' = head + 1
    /\ pc' = "relax" /\ i' = 0
    /\ UNCHANGED <<graphVars, indegree, queue, status>>

current == order[Len(order)]

LeavesAny(k) == TRUE
Leaves(k) == Before(k) = current

NowReadyEarly(n) == indegree'[n] <= 1
NowReady(n) == indegree'[n] = 0

AdvanceIfLeaves(k) == IF Before(k) = current THEN k ELSE k - 1
Advance(k) == k

(* One round of the edge loop of the node taken last.                       *)
RelaxEdge ==
    /\ pc = "relax" /\ i < Len(edges)
    /\ IF Leaves(i + 1)
       THEN LET next == After(i + 1) IN
            /\ indegree' = [indegree EXCEPT ![next] = @ - 1]
            /\ queue' = IF NowReady(next) THEN Append(queue, next) ELSE queue
       ELSE UNCHANGED <<indegree, queue>>
    /\ i' = Advance(i + 1)
    /\ UNCHANGED <<graphVars, pc, head, order, status>>

RelaxDone ==
    /\ pc = "relax" /\ i = Len(edges)
    /\ pc' = "take"
    /\ UNCHANGED <<graphVars, indegree, queue, head, order, i, status>>

CompleteIfAny == Len(order) > 0
Complete == Len(order) = node_count

SortEnd ==
    /\ pc = "take" /\ head = Len(queue)
    /\ pc' = "idle"
    /\ status' = IF Complete THEN "ok" ELSE "cycle"
    /\ indegree' = <<>> /\ queue' = <<>> /\ head' = 0
    /\ UNCHANGED <<graphVars, order, i>>

SortStep ==
    \/ CountEdge \/ CountDone \/ QueueRoot \/ RootsDone
    \/ Take \/ RelaxEdge \/ RelaxDone \/ SortEnd

Build == AddNode \/ \E b, a \in Nodes : AddDependency(b, a)

Next == Build \/ SortBegin \/ SortStep

Spec == Init /\ [][Next]_vars

(* The algorithm is sequential code: a call once begun runs on.             *)
FairSpec == Spec /\ WF_vars(SortStep)

-----------------------------------------------------------------------------
(* Properties.                                                              *)

Elements(s) == {s[k] : k \in DOMAIN s}

(* Every variable has its type: no entry of indegree (a size_t array) is    *)
(* ever decremented below zero.                                             *)
TypeOK ==
    /\ node_count \in 0..MaxNodes
    /\ edges \in Seq(Nodes \X Nodes)
    /\ pc \in {"idle", "count", "roots", "take", "relax"}
    /\ IF pc = "idle" THEN indegree = <<>> ELSE indegree \in [Nodes -> Nat]
    /\ queue \in Seq(Nodes) /\ order \in Seq(Nodes)
    /\ head \in 0..Len(queue) /\ i \in Nat
    /\ status \in {"none", "ok", "cycle"}

(* No node is queued twice, so neither the queue nor the order array, both  *)
(* of node_count entries, is written past its end; what was taken from the  *)
(* queue is the order.                                                      *)
QueueFits ==
    /\ \A j, k \in DOMAIN queue : queue[j] = queue[k] => j = k
    /\ Len(queue) <= node_count
    /\ pc # "idle" => order = SubSeq(queue, 1, head)

(* The edge loop has taken edge k off the indegree of its end.              *)
Relaxed(k) ==
    /\ Before(k) \in Elements(order)
    /\ pc = "relax" /\ Before(k) = current => k <= i

(* While nodes are taken, indegree counts exactly the edges that still hold *)
(* a node back, and the nodes none holds back are the queued ones.          *)
IndegreeExact ==
    pc \in {"take", "relax"} =>
        \A n \in Nodes :
            /\ indegree[n] = Cardinality({k \in DOMAIN edges : After(k) = n /\ ~Relaxed(k)})
            /\ indegree[n] = 0 <=> n \in Elements(queue)

(* An order that is returned has every node once and no edge backwards.     *)
OrderIsTopological ==
    pc = "idle" /\ status = "ok" =>
        /\ Len(order) = node_count /\ Elements(order) = Nodes
        /\ \A k \in DOMAIN edges, x, y \in DOMAIN order :
              edges[k] = <<order[x], order[y]>> => x < y

(* A graph has a cycle when some nodes all depend on one another: every one *)
(* of them has a predecessor among them.                                    *)
Cyclic ==
    \E S \in (SUBSET Nodes) \ {{}} :
        \A n \in S : \E k \in DOMAIN edges : After(k) = n /\ Before(k) \in S

(* A cycle is reported for cyclic graphs and for no others.                 *)
CycleReported ==
    pc = "idle" /\ status # "none" => (status = "cycle" <=> Cyclic)

(* Every call of the sort returns.                                          *)
SortReturns == (pc # "idle") ~> (pc = "idle")

=============================================================================
