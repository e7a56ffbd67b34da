---------------------------- MODULE BuildContract ----------------------------
(***************************************************************************)
(* What building promises a caller (docs/open_questions.md, the ownership  *)
(* rules): a call that adds a node or instantiates a graph does all of it  *)
(* or nothing, an exec holds everything its graph held, and an object is   *)
(* destroyed in the step its last holder lets go of it.                    *)
(***************************************************************************)
EXTENDS Naturals, Sequences

CONSTANTS Objects, Uses  \* Uses: the sets of objects a node may name

VARIABLES
    life,    \* "none", "live" or "gone"
    handle,  \* the caller's handle of the object is not destroyed
    graph,   \* the objects each node names
    galive,
    exec,    \* the same of the exec's nodes
    elive

vars == <<life, handle, graph, galive, exec, elive>>

Init ==
    /\ life = [o \in Objects |-> "none"] /\ handle = [o \in Objects |-> FALSE]
    /\ graph = <<>> /\ galive = TRUE /\ exec = <<>> /\ elive = FALSE

Kept(o) == \/ handle[o]
           \/ \E i \in DOMAIN graph : o \in graph[i]
           \/ \E i \in DOMAIN exec : o \in exec[i]

(* Objects end exactly when nothing keeps them any more.                    *)
Reaped ==
    life' = [o \in Objects |-> IF life[o] = "live" /\ ~Kept(o)' THEN "gone" ELSE life[o]]

Create(o) ==
    /\ life[o] = "none"
    /\ life' = [life EXCEPT ![o] = "live"] /\ handle' = [handle EXCEPT ![o] = TRUE]
    /\ UNCHANGED <<graph, galive, exec, elive>>

HandleDestroy(o) ==
    /\ handle[o] /\ handle' = [handle EXCEPT ![o] = FALSE]
    /\ UNCHANGED <<graph, galive, exec, elive>> /\ Reaped

AddNode(used) ==
    /\ galive /\ \A o \in used : life[o] = "live"
    /\ graph' = Append(graph, used)
    /\ UNCHANGED <<handle, galive, exec, elive, life>>

GraphDestroy ==
    /\ galive /\ galive' = FALSE /\ graph' = <<>>
    /\ UNCHANGED <<handle, exec, elive>> /\ Reaped

Instantiate ==
    /\ galive /\ ~elive
    /\ exec' = graph /\ elive' = TRUE
    /\ UNCHANGED <<handle, graph, galive, life>>

ExecDestroy ==
    /\ elive /\ elive' = FALSE /\ exec' = <<>>
    /\ UNCHANGED <<handle, graph, galive>> /\ Reaped

Next ==
    \/ \E o \in Objects : Create(o) \/ HandleDestroy(o)
    \/ \E used \in Uses : AddNode(used)
    \/ GraphDestroy \/ Instantiate \/ ExecDestroy

Spec == Init /\ [][Next]_vars

=============================================================================
