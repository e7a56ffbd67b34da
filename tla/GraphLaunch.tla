----------------------------- MODULE GraphLaunch -----------------------------
(***************************************************************************)
(* The run-time half of Metal Graph: instantiated graphs (mg_graph_exec),  *)
(* their patches and ICB plan, launches (mg_launch), the command buffers a *)
(* launch submits to a stream, and the reference counts of the buffers and *)
(* events all of them share.                                               *)
(*                                                                         *)
(* One API caller runs one call at a time (caller-side synchronisation).   *)
(* The calls that touch the GPU, mgGraphLaunch and mgLaunchSynchronize,    *)
(* take several steps so that the GPU interleaves with them; every other   *)
(* call is one step. The GPU (Metal) is external: each stream is a queue   *)
(* of command buffers executed in commit order, a command at a time.       *)
(***************************************************************************)
EXTENDS Integers, Sequences, FiniteSets

CONSTANTS
    Execs,            \* graph execs, each instantiated at most once
    Launches,         \* launches, each made at most once (bounds relaunches)
    Streams,          \* streams (Metal command queues)
    Buffers, Events,  \* buffer and event objects
    Vals,             \* the values of a patchable range or value field
    Programs,         \* the node sequences a graph may hold, in the
                      \* topological order mgGraphInstantiate gives them
    None,             \* no exec, no stream, no launch
    IcbSupported,     \* the device answers newIndirectCommandBuffer...
    HostFaults,       \* allocations and encoder creations may fail
    GpuFaults,        \* command buffers may end in the error status
    Caller            \* what the caller does besides building, launching and
                      \* synchronising: a subset of Liberties

(* Patching, switching ICB, destroying handles, graphs and execs; launching *)
(* an exec that is in flight (which the docs call invalid); destroying a    *)
(* launch that was never synchronised.                                      *)
Liberties == {"patch", "teardown", "overlap", "unsynced_destroy"}

Objects == Buffers \cup Events

Kinds == {"dispatch", "copy", "fill", "wait", "signal", "barrier",
          "mpsgraph", "workspace", "workspace_fill"}

(* The fields mgGraphSetNodePatchFlags can declare patchable.              *)
Fields == {"grid", "scalar", "buffer", "range", "value"}

(* A dispatch either has only declared buffer bindings, or also scalars, or *)
(* a binding without a usable resource descriptor.                          *)
Bindings == {"declared", "scalars", "undeclared"}

(* An exec node: the objects it holds, in the order the launch retains      *)
(* them, its range (grid size, copy or fill range) and its value (scalar    *)
(* bytes, fill byte, event value), each abstracted to a member of Vals.     *)
Node == [kind : Kinds, objs : Seq(Objects), range : Vals, val : Vals,
         flags : SUBSET Fields, binds : Bindings]

(* What a node encodes into a command buffer.                               *)
Command == [kind : Kinds, objs : Seq(Objects), range : Vals, val : Vals]

ASSUME ProgramsAssumption == Programs \subseteq Seq(Node)
ASSUME FiniteAssumption == IsFiniteSet(Launches) /\ IsFiniteSet(Execs)
ASSUME ValsAssumption == Vals \subseteq Nat /\ 0 \in Vals
ASSUME NoneAssumption == None \notin Execs \cup Launches \cup Streams
ASSUME SwitchAssumption ==
    {IcbSupported, HostFaults, GpuFaults} \subseteq BOOLEAN /\ Caller \subseteq Liberties

VARIABLES
    galive,           \* the source graph of each exec is not destroyed
    graph,            \* its nodes
    estate,           \* "none", "live" or "destroyed"
    nodes,            \* mg_graph_exec.nodes
    in_flight_count,  \* mg_graph_exec.in_flight_count
    icb,              \* mg_graph_exec.icb
    lstate,           \* "none", "encoding", "live", "failed" or "destroyed"
    lexec, lstream,   \* the exec and the stream of a launch
    completed,        \* mg_launch.completed
    retained,         \* mg_launch.retained_buffers and retained_events
    report,           \* what the last mgLaunchSynchronize returned
    call,             \* the API call in progress and its locals
    cbs,              \* the command buffers each launch committed (its impls)
    queue,            \* per stream, the committed command buffers to run
    signaled,         \* the value each shared event has reached
    handle,           \* the caller has not destroyed its handle
    ref_count         \* mg_buffer.ref_count, mg_event.ref_count; 0: destroyed

graphVars  == <<galive, graph>>
execVars   == <<estate, nodes, in_flight_count, icb>>
launchVars == <<lstate, lexec, lstream, completed, retained, report>>
gpuVars    == <<cbs, queue, signaled>>
refVars    == <<handle, ref_count>>
vars       == <<graphVars, execVars, launchVars, call, gpuVars, refVars>>

-----------------------------------------------------------------------------
(* Reference counts.                                                        *)

Occurrences(s, o) == Cardinality({i \in DOMAIN s : s[i] = o})

NodeSlots(ns, o) ==
    {p \in UNION {{i} \X DOMAIN ns[i].objs : i \in DOMAIN ns} : ns[p[1]].objs[p[2]] = o}

NodesHold(ns, o) == Cardinality(NodeSlots(ns, o))

(* mg_buffer_retain / mg_event_retain of every object of a sequence. An     *)
(* object that was destroyed stays so: its memory was freed, and an         *)
(* increment that comes too late is lost.                                   *)
Incremented(rc, o, n) == IF rc[o] = 0 THEN 0 ELSE rc[o] + n

Retain(rc, s) == [o \in Objects |-> Incremented(rc, o, Occurrences(s, o))]

(* mg_buffer_release / mg_event_release; an object whose count reaches 0 is *)
(* destroyed: the backend object goes and owner_release runs.               *)
Release(rc, s) == [o \in Objects |-> rc[o] - Occurrences(s, o)]

RetainNodes(rc, ns)  == [o \in Objects |-> Incremented(rc, o, NodesHold(ns, o))]
ReleaseNodes(rc, ns) == [o \in Objects |-> rc[o] - NodesHold(ns, o)]

-----------------------------------------------------------------------------
(* Commands and command buffers.                                            *)

Encodes(n) == n.kind \notin {"barrier", "workspace"}

CommandOf(n) == [kind |-> n.kind, objs |-> n.objs, range |-> n.range, val |-> n.val]

Finished(cb) == cb.st \in {"completed", "error"}

AllFinished(l) == \A k \in DOMAIN cbs[l] : Finished(cbs[l][k])

NoCall == [op |-> "idle", l |-> None, i |-> 0, open |-> <<>>, work |-> FALSE, err |-> FALSE]

Idle == call.op = "idle"

(* [commandBuffer commit] and mg_launch_retain_command_buffer.              *)
Commit(l, cmds) ==
    /\ cbs' = [cbs EXCEPT ![l] = Append(@, [cmds |-> cmds, pos |-> 0, st |-> "committed"])]
    /\ queue' = [queue EXCEPT ![lstream[l]] = Append(@, <<l, Len(cbs[l]) + 1>>)]
    /\ UNCHANGED signaled

-----------------------------------------------------------------------------
(* The states the caller starts from: graphs built by the graph API, which  *)
(* retained the objects of their nodes, and a handle to every object.       *)

NoIcb == [enabled |-> FALSE, planned |-> 0, used |-> 0, fallback |-> 0,
          reason |-> "none", built |-> FALSE, captured |-> <<>>]

GraphsHold(o) == {x \in UNION {{e} \X NodeSlots(graph[e], o) : e \in Execs} : galive[x[1]]}

Init ==
    /\ galive = [e \in Execs |-> TRUE]
    /\ graph \in [Execs -> Programs]
    /\ estate = [e \in Execs |-> "none"]
    /\ nodes = [e \in Execs |-> <<>>]
    /\ in_flight_count = [e \in Execs |-> 0]
    /\ icb = [e \in Execs |-> NoIcb]
    /\ lstate = [l \in Launches |-> "none"]
    /\ lexec = [l \in Launches |-> None]
    /\ lstream = [l \in Launches |-> None]
    /\ completed = [l \in Launches |-> FALSE]
    /\ retained = [l \in Launches |-> <<>>]
    /\ report = [l \in Launches |-> "none"]
    /\ call = NoCall
    /\ cbs = [l \in Launches |-> <<>>]
    /\ queue = [s \in Streams |-> <<>>]
    /\ signaled = [ev \in Events |-> 0]
    /\ handle = [o \in Objects |-> TRUE]
    /\ ref_count = [o \in Objects |-> 1 + Cardinality(GraphsHold(o))]

-----------------------------------------------------------------------------
(* mgGraphInstantiate, mgGraphDestroy, mgGraphExecDestroy and the handles.  *)

(* mg_icb_plan_build names the first reason that applies, in this order.     *)
IcbReasonIgnoringFlags(ns, made) ==
    IF ns = <<>> THEN "none"
    ELSE IF Len(ns) > 1 \/ ns[1].kind # "dispatch" THEN "ineligible_node"
    ELSE IF ~IcbSupported THEN "unsupported"
    ELSE IF ns[1].binds = "undeclared" THEN "unknown_resource_access"
    ELSE "none"

IcbReason(ns, made) ==
    IF ns = <<>> THEN "none"
    ELSE IF Len(ns) > 1 THEN "ineligible_node"
    ELSE IF ~IcbSupported THEN "unsupported"
    ELSE IF ns[1].kind # "dispatch" THEN "ineligible_node"
    ELSE IF ns[1].flags # {} \/ ns[1].binds = "scalars" THEN "patchable_field"
    ELSE IF ns[1].binds = "undeclared" THEN "unknown_resource_access"
    ELSE IF ~made THEN "backend_error"
    ELSE "none"

(* mg_icb_plan_build: the commands of the indirect command buffer are       *)
(* recorded once, from the bindings the node has now.                       *)
IcbPlan(ns, made) ==
    LET reason == IcbReason(ns, made)
        built  == Len(ns) = 1 /\ reason = "none"
    IN  [enabled  |-> TRUE,
         planned  |-> IF ns = <<>> THEN 0 ELSE 1,
         used     |-> 0,
         fallback |-> IF reason = "none" THEN 0 ELSE 1,
         reason   |-> reason,
         built    |-> built,
         captured |-> IF built THEN <<CommandOf(ns[1])>> ELSE <<>>]

(* A failing instantiation releases all it retained and changes nothing.    *)
Instantiate(e, made) ==
    /\ Idle /\ galive[e] /\ estate[e] = "none"
    /\ made \/ HostFaults
    /\ estate' = [estate EXCEPT ![e] = "live"]
    /\ nodes' = [nodes EXCEPT ![e] = graph[e]]
    /\ icb' = [icb EXCEPT ![e] = IcbPlan(graph[e], made)]
    /\ ref_count' = RetainNodes(ref_count, graph[e])
    /\ UNCHANGED <<in_flight_count, graphVars, launchVars, call, gpuVars, handle>>

GraphDestroy(e) ==
    /\ Idle /\ galive[e]
    /\ galive' = [galive EXCEPT ![e] = FALSE]
    /\ ref_count' = ReleaseNodes(ref_count, graph[e])
    /\ UNCHANGED <<graph, execVars, launchVars, call, gpuVars, handle>>

HandleDestroy(o) ==
    /\ Idle /\ handle[o]
    /\ handle' = [handle EXCEPT ![o] = FALSE]
    /\ ref_count' = Release(ref_count, <<o>>)
    /\ UNCHANGED <<graphVars, execVars, launchVars, call, gpuVars>>

(* A launch is outstanding from its return to its first synchronisation:    *)
(* what the caller must treat as in flight.                                 *)
Outstanding(l) == lstate[l] = "live" /\ ~completed[l]

(* Destroying an exec with a launch in flight is invalid caller behaviour.  *)
ExecDestroy(e) ==
    /\ Idle /\ estate[e] = "live"
    /\ \A l \in Launches : lexec[l] = e => ~Outstanding(l)
    /\ estate' = [estate EXCEPT ![e] = "destroyed"]
    /\ nodes' = [nodes EXCEPT ![e] = <<>>]
    /\ ref_count' = ReleaseNodes(ref_count, nodes[e])
    /\ UNCHANGED <<in_flight_count, icb, graphVars, launchVars, call, gpuVars, handle>>

-----------------------------------------------------------------------------
(* Patches (patch.c). A rejected patch leaves every field as it was.        *)

PatchReadyUnchecked(e) == estate[e] = "live"

PatchReady(e) == in_flight_count[e] = 0

SwapReleasingFirst(rc, new, old) == Retain(Release(rc, old), new)

(* The new objects are retained before the old ones are released.           *)
Swap(rc, new, old) == Release(Retain(rc, new), old)

Patchable(e, i, kind) ==
    /\ Idle /\ estate[e] = "live" /\ PatchReady(e)
    /\ i \in DOMAIN nodes[e] /\ nodes[e][i].kind \in kind

(* The buffers a caller may pass: those it has a handle to, and those the   *)
(* patched node keeps alive, which it must name again to change the rest.   *)
Nameable(e, i, b) == handle[b] \/ \E j \in DOMAIN nodes[e][i].objs : nodes[e][i].objs[j] = b

Patched(e, i, n) ==
    /\ nodes' = [nodes EXCEPT ![e][i] = n]
    /\ ref_count' = Swap(ref_count, n.objs, nodes[e][i].objs)
    /\ UNCHANGED <<estate, in_flight_count, icb, graphVars, launchVars, call, gpuVars, handle>>

PatchDispatchGrid(e, i, v) ==
    /\ Patchable(e, i, {"dispatch"}) /\ "grid" \in nodes[e][i].flags
    /\ Patched(e, i, [nodes[e][i] EXCEPT !.range = v])

PatchDispatchScalar(e, i, v) ==
    /\ Patchable(e, i, {"dispatch"}) /\ "scalar" \in nodes[e][i].flags
    /\ nodes[e][i].binds = "scalars"
    /\ Patched(e, i, [nodes[e][i] EXCEPT !.val = v])

PatchDispatchBuffer(e, i, j, b) ==
    /\ Patchable(e, i, {"dispatch"}) /\ "buffer" \in nodes[e][i].flags
    /\ nodes[e][i].binds # "undeclared"
    /\ Nameable(e, i, b) /\ j \in DOMAIN nodes[e][i].objs
    /\ Patched(e, i, [nodes[e][i] EXCEPT !.objs[j] = b])

PatchCopyNode(e, i, src, dst, r) ==
    LET n == nodes[e][i] IN
    /\ Patchable(e, i, {"copy"}) /\ Nameable(e, i, src) /\ Nameable(e, i, dst)
    /\ <<src, dst>> # n.objs => "buffer" \in n.flags
    /\ r # n.range => "range" \in n.flags
    /\ Patched(e, i, [n EXCEPT !.objs = <<src, dst>>, !.range = r])

PatchFillNode(e, i, dst, r, v) ==
    LET n == nodes[e][i] IN
    /\ Patchable(e, i, {"fill"}) /\ Nameable(e, i, dst)
    /\ <<dst>> # n.objs => "buffer" \in n.flags
    /\ r # n.range => "range" \in n.flags
    /\ v # n.val => "value" \in n.flags
    /\ Patched(e, i, [n EXCEPT !.objs = <<dst>>, !.range = r, !.val = v])

PatchEventValue(e, i, v) ==
    /\ Patchable(e, i, {"wait", "signal"}) /\ "value" \in nodes[e][i].flags
    /\ Patched(e, i, [nodes[e][i] EXCEPT !.val = v])

SetOptimizationFlags(e, on) ==
    /\ Idle /\ estate[e] = "live" /\ PatchReady(e)
    /\ icb' = [icb EXCEPT ![e].enabled = on]
    /\ UNCHANGED <<estate, nodes, in_flight_count, graphVars, launchVars, call, gpuVars, refVars>>

-----------------------------------------------------------------------------
(* mgGraphLaunch.                                                           *)

UsesIcb(plan) == plan.built /\ plan.enabled

LaunchDiagnosticsStale(plan) ==
    IF plan.planned = 0 THEN plan
    ELSE IF ~plan.enabled
         THEN [plan EXCEPT !.fallback = plan.planned, !.reason = "disabled"]
         ELSE [plan EXCEPT !.fallback = IF plan.built THEN 0 ELSE plan.planned]

(* The diagnostics a launch writes before it encodes anything.              *)
LaunchDiagnostics(plan) ==
    IF plan.planned = 0 THEN plan
    ELSE IF ~plan.enabled
         THEN [plan EXCEPT !.used = 0, !.fallback = plan.planned, !.reason = "disabled"]
         ELSE IF ~plan.built
              THEN [plan EXCEPT !.used = 0, !.fallback = plan.planned,
                                !.reason = IF @ = "none" THEN "unsupported" ELSE @]
              ELSE [plan EXCEPT !.used = 0, !.fallback = 0]

(* Only one in-flight launch per exec is valid; a launch that fails before  *)
(* this step ends (no command buffer, no memory) changes nothing.           *)
LaunchBegin(e, s, l) ==
    /\ Idle /\ estate[e] = "live" /\ lstate[l] = "none"
    /\ "overlap" \in Caller \/ \A k \in Launches : lexec[k] = e => ~Outstanding(k)
    /\ lstate' = [lstate EXCEPT ![l] = "encoding"]
    /\ lexec' = [lexec EXCEPT ![l] = e]
    /\ lstream' = [lstream EXCEPT ![l] = s]
    /\ icb' = [icb EXCEPT ![e] = LaunchDiagnostics(@)]
    /\ call' = [NoCall EXCEPT !.op = IF UsesIcb(icb[e]) THEN "icb" ELSE "encode",
                              !.l = l, !.i = 1, !.work = (nodes[e] = <<>>)]
    /\ UNCHANGED <<estate, nodes, in_flight_count, completed, retained, report,
                   graphVars, gpuVars, refVars>>

Encoding(op, l) == call.op = op /\ call.l = l

NodesOf(l) == nodes[lexec[l]]

AtNode(l, kinds) ==
    /\ Encoding("encode", l) /\ call.i \in DOMAIN NodesOf(l)
    /\ NodesOf(l)[call.i].kind \in kinds

LaunchRefsBorrowed(rc, objs) == rc

(* The launch takes references of its own.                                  *)
LaunchRefs(rc, objs) == Retain(rc, objs)

RetainForLaunch(l, objs) ==
    /\ retained' = [retained EXCEPT ![l] = @ \o objs]
    /\ ref_count' = LaunchRefs(ref_count, objs)
    /\ UNCHANGED handle

(* A successful return: the launch counts as in flight.                     *)
Returned(l) ==
    /\ in_flight_count' = [in_flight_count EXCEPT ![lexec[l]] = @ + 1]
    /\ lstate' = [lstate EXCEPT ![l] = "live"]
    /\ call' = NoCall

(* The whole group ran from the indirect command buffer.                    *)
IcbDone(plan) == [plan EXCEPT !.used = plan.planned, !.fallback = 0, !.reason = "none"]

LaunchIcb(l) ==
    LET e == lexec[l] IN
    /\ Encoding("icb", l)
    /\ Commit(l, icb[e].captured)
    /\ RetainForLaunch(l, nodes[e][1].objs)
    /\ icb' = [icb EXCEPT ![e] = IcbDone(@)]
    /\ Returned(l)
    /\ UNCHANGED <<estate, nodes, lexec, lstream, completed, report, graphVars>>

MarksWorkOnlyEncoders(n) == n.kind \in {"dispatch", "copy", "fill", "workspace_fill"}

(* commandBufferHasWork = true.                                             *)
MarksWork(n) == Encodes(n)

(* Every node but an MPSGraph node goes into the open command buffer;       *)
(* barriers and workspace reservations encode nothing and hold no object.   *)
EncodeNode(l) ==
    LET n == NodesOf(l)[call.i] IN
    /\ AtNode(l, Kinds \ {"mpsgraph"})
    /\ RetainForLaunch(l, n.objs)
    /\ call' = [call EXCEPT !.i = @ + 1,
                            !.open = IF Encodes(n) THEN Append(@, CommandOf(n)) ELSE @,
                            !.work = @ \/ MarksWork(n)]
    /\ UNCHANGED <<lstate, lexec, lstream, completed, report, graphVars, execVars, gpuVars>>

CommitBeforeMpsUnsubmitted(l) ==
    /\ AtNode(l, {"mpsgraph"}) /\ call.work
    /\ cbs' = [cbs EXCEPT ![l] = Append(@, [cmds |-> call.open, pos |-> 0, st |-> "committed"])]
    /\ call' = [call EXCEPT !.op = "midwait", !.open = <<>>, !.work = FALSE]
    /\ UNCHANGED <<queue, signaled, graphVars, execVars, launchVars, refVars>>

(* Work encoded before an MPSGraph node is committed and waited for.        *)
CommitBeforeMps(l) ==
    /\ AtNode(l, {"mpsgraph"}) /\ call.work
    /\ Commit(l, call.open)
    /\ call' = [call EXCEPT !.op = "midwait", !.open = <<>>, !.work = FALSE]
    /\ UNCHANGED <<graphVars, execVars, launchVars, refVars>>

WaitBeforeMps(l) ==
    /\ Encoding("midwait", l)
    /\ cbs[l][Len(cbs[l])].st = "completed"
    /\ call' = [call EXCEPT !.op = "encode"]
    /\ UNCHANGED <<graphVars, execVars, launchVars, gpuVars, refVars>>

EncodeMps(l) ==
    LET n == NodesOf(l)[call.i] IN
    /\ AtNode(l, {"mpsgraph"}) /\ ~call.work
    /\ Commit(l, <<CommandOf(n)>>)
    /\ RetainForLaunch(l, n.objs)
    /\ call' = [call EXCEPT !.i = @ + 1]
    /\ UNCHANGED <<lstate, lexec, lstream, completed, report, graphVars, execVars>>

LaunchReturn(l) ==
    /\ Encoding("encode", l) /\ call.i > Len(NodesOf(l))
    /\ IF call.work THEN Commit(l, call.open) ELSE UNCHANGED gpuVars
    /\ Returned(l)
    /\ UNCHANGED <<estate, nodes, icb, lexec, lstream, completed, retained, report,
                   graphVars, refVars>>

(* mgLaunchDestroy on the error paths of mgGraphLaunch: the references go,  *)
(* the command buffers already committed stay with the GPU.                 *)
Abandon(l) ==
    /\ lstate' = [lstate EXCEPT ![l] = "failed"]
    /\ retained' = [retained EXCEPT ![l] = <<>>]
    /\ ref_count' = Release(ref_count, retained[l])
    /\ call' = NoCall
    /\ UNCHANGED <<estate, nodes, in_flight_count, lexec, lstream, completed, report,
                   graphVars, handle>>

(* No encoder, or the MPSGraph executable does not encode.                  *)
LaunchFailEncode(l) ==
    /\ HostFaults
    /\ Encoding("icb", l) \/ AtNode(l, Kinds \ {"wait", "signal", "barrier", "workspace"})
    /\ AtNode(l, {"mpsgraph"}) => ~call.work
    /\ Abandon(l) /\ UNCHANGED <<icb, gpuVars>>

LaunchFailSegment(l) ==
    \/ AtNode(l, {"mpsgraph"}) /\ ~call.work /\ Commit(l, <<CommandOf(NodesOf(l)[call.i])>>)
    \/ /\ AtNode(l, {"mpsgraph"}) \/ (Encoding("encode", l) /\ call.i > Len(NodesOf(l)))
       /\ call.work /\ Commit(l, call.open)

(* A command buffer is committed, then recording it in the launch or making *)
(* the next one fails. The ICB diagnostics already say it ran.              *)
LaunchFailCommit(l) ==
    /\ HostFaults
    /\ \/ /\ Encoding("icb", l) /\ Commit(l, icb[lexec[l]].captured)
          /\ icb' = [icb EXCEPT ![lexec[l]] = IcbDone(@)]
       \/ /\ UNCHANGED icb
          /\ LaunchFailSegment(l)
    /\ Abandon(l)

(* The command buffer waited for ended in error, or no further one can be   *)
(* made after it.                                                           *)
LaunchFailWait(l) ==
    LET cb == cbs[l][Len(cbs[l])] IN
    /\ Encoding("midwait", l)
    /\ cb.st = "error" \/ (cb.st = "completed" /\ HostFaults)
    /\ Abandon(l) /\ UNCHANGED <<icb, gpuVars>>

-----------------------------------------------------------------------------
(* mgLaunchSynchronize and mgLaunchDestroy.                                 *)

(* impl_count = 0: the call is rejected.                                    *)
SyncRejected(l) ==
    /\ Idle /\ lstate[l] = "live" /\ cbs[l] = <<>>
    /\ report' = [report EXCEPT ![l] = "invalid_argument"]
    /\ UNCHANGED <<lstate, lexec, lstream, completed, retained,
                   graphVars, execVars, call, gpuVars, refVars>>

SyncBegin(l) ==
    /\ Idle /\ lstate[l] = "live" /\ cbs[l] # <<>>
    /\ call' = [NoCall EXCEPT !.op = "sync", !.l = l, !.i = 1]
    /\ UNCHANGED <<graphVars, execVars, launchVars, gpuVars, refVars>>

(* [commandBuffer waitUntilCompleted] on the next command buffer.           *)
SyncWait(l) ==
    /\ Encoding("sync", l) /\ call.i \in DOMAIN cbs[l]
    /\ Finished(cbs[l][call.i])
    /\ call' = [call EXCEPT !.i = @ + 1, !.err = @ \/ cbs[l][call.i].st = "error"]
    /\ UNCHANGED <<graphVars, execVars, launchVars, gpuVars, refVars>>

SyncWaitedForFirst(l) == call.i > 1

SyncWaitedForAll(l) == call.i > Len(cbs[l])

CountsDownUnguarded(l) == TRUE
CountsDownEveryTime(l) == in_flight_count[lexec[l]] > 0
CountsDownOnSuccess(l) == ~completed[l] /\ ~call.err /\ in_flight_count[lexec[l]] > 0
CountsDownAboveOne(l) == ~completed[l] /\ in_flight_count[lexec[l]] > 1

(* What a finished synchronisation does to the exec: once per launch.       *)
CountsDown(l) == ~completed[l] /\ in_flight_count[lexec[l]] > 0

SyncReturn(l) ==
    /\ Encoding("sync", l) /\ SyncWaitedForAll(l)
    /\ in_flight_count' = [in_flight_count EXCEPT ![lexec[l]] =
                              IF CountsDown(l) THEN @ - 1 ELSE @]
    /\ completed' = [completed EXCEPT ![l] = TRUE]
    /\ report' = [report EXCEPT ![l] = IF call.err THEN "backend_error" ELSE "ok"]
    /\ call' = NoCall
    /\ UNCHANGED <<estate, nodes, icb, lstate, lexec, lstream, retained,
                   graphVars, gpuVars, refVars>>

(* The caller destroys launches it has synchronised, or tried to.           *)
LaunchDestroy(l) ==
    /\ Idle /\ lstate[l] = "live" /\ (report[l] # "none" \/ "unsynced_destroy" \in Caller)
    /\ lstate' = [lstate EXCEPT ![l] = "destroyed"]
    /\ retained' = [retained EXCEPT ![l] = <<>>]
    /\ ref_count' = Release(ref_count, retained[l])
    /\ UNCHANGED <<lexec, lstream, completed, report, graphVars, execVars, call, gpuVars, handle>>

-----------------------------------------------------------------------------
(* The GPU: the command buffer at the head of a stream runs its commands in *)
(* order; a wait holds it until the shared event has reached the value.     *)

HeadRef(s) == queue[s][1]
HeadBuffer(s) == cbs[HeadRef(s)[1]][HeadRef(s)[2]]

GpuExecute(s) ==
    /\ queue[s] # <<>> /\ HeadBuffer(s).pos < Len(HeadBuffer(s).cmds)
    /\ LET c == HeadBuffer(s).cmds[HeadBuffer(s).pos + 1] IN
       /\ c.kind = "wait" => signaled[c.objs[1]] >= c.val
       /\ signaled' = IF c.kind = "signal" THEN [signaled EXCEPT ![c.objs[1]] = c.val]
                                           ELSE signaled
    /\ cbs' = [cbs EXCEPT ![HeadRef(s)[1]][HeadRef(s)[2]].pos = @ + 1]
    /\ UNCHANGED <<queue, graphVars, execVars, launchVars, call, refVars>>

GpuEnd(s, st) ==
    /\ cbs' = [cbs EXCEPT ![HeadRef(s)[1]][HeadRef(s)[2]].st = st]
    /\ queue' = [queue EXCEPT ![s] = Tail(@)]
    /\ UNCHANGED <<signaled, graphVars, execVars, launchVars, call, refVars>>

GpuComplete(s) ==
    /\ queue[s] # <<>> /\ HeadBuffer(s).pos = Len(HeadBuffer(s).cmds)
    /\ GpuEnd(s, "completed")

GpuFail(s) ==
    /\ GpuFaults /\ queue[s] # <<>>
    /\ GpuEnd(s, "error")

-----------------------------------------------------------------------------

Patch(e) ==
    \/ \E on \in BOOLEAN : SetOptimizationFlags(e, on)
    \/ \E i \in 1..Len(nodes[e]), r, v \in Vals :
        \/ PatchDispatchGrid(e, i, r)
        \/ PatchDispatchScalar(e, i, v)
        \/ \E j \in DOMAIN nodes[e][i].objs, b \in Buffers : PatchDispatchBuffer(e, i, j, b)
        \/ \E src, dst \in Buffers : PatchCopyNode(e, i, src, dst, r)
        \/ \E dst \in Buffers : PatchFillNode(e, i, dst, r, v)
        \/ PatchEventValue(e, i, v)

(* The steps a call in progress takes.                                      *)
HostStep(l) ==
    \/ LaunchIcb(l) \/ EncodeNode(l) \/ EncodeMps(l)
    \/ CommitBeforeMps(l) \/ WaitBeforeMps(l) \/ LaunchReturn(l)
    \/ LaunchFailEncode(l) \/ LaunchFailCommit(l) \/ LaunchFailWait(l)
    \/ SyncWait(l) \/ SyncReturn(l)

(* The calls the caller may start, or make, when none is in progress.       *)
CallerStep ==
    \/ \E e \in Execs :
          \/ \E made \in BOOLEAN : Instantiate(e, made)
          \/ "teardown" \in Caller /\ (GraphDestroy(e) \/ ExecDestroy(e))
          \/ "patch" \in Caller /\ Patch(e)
          \/ \E s \in Streams, l \in Launches : LaunchBegin(e, s, l)
    \/ \E l \in Launches : SyncRejected(l) \/ SyncBegin(l) \/ LaunchDestroy(l)
    \/ "teardown" \in Caller /\ \E o \in Objects : HandleDestroy(o)

GpuStep(s) == GpuExecute(s) \/ GpuComplete(s) \/ GpuFail(s)

(* Nothing left to do: every call has returned and every stream is drained. *)
Quiet ==
    /\ Idle /\ \A s \in Streams : queue[s] = <<>>
    /\ UNCHANGED vars

Next ==
    \/ CallerStep
    \/ \E l \in Launches : HostStep(l)
    \/ \E s \in Streams : GpuStep(s)
    \/ Quiet

Spec == Init /\ [][Next]_vars

(* A call in progress runs on, and the GPU makes progress on every stream.  *)
(* Nothing makes the caller start a call, or the GPU fail a command buffer. *)
Fairness ==
    /\ \A l \in Launches : WF_vars(HostStep(l))
    /\ \A s \in Streams : WF_vars(GpuExecute(s) \/ GpuComplete(s))

FairSpec == Spec /\ Fairness

-----------------------------------------------------------------------------
(* Properties.                                                              *)

CommandBuffer == [cmds : Seq(Command), pos : Nat, st : {"committed", "completed", "error"}]

Reasons == {"none", "disabled", "unsupported", "ineligible_node", "patchable_field",
            "unknown_resource_access", "backend_error"}

IcbRecord == [enabled : BOOLEAN, planned : 0..1, used : 0..1, fallback : 0..1,
              reason : Reasons, built : BOOLEAN, captured : Seq(Command)]

CallRecord == [op : {"idle", "icb", "encode", "midwait", "sync"}, l : Launches \cup {None},
               i : Nat, open : Seq(Command), work : BOOLEAN, err : BOOLEAN]

(* Every variable has its type; in particular in_flight_count (a uint32_t)  *)
(* is never decremented below zero. Reference counts: see RefCountExact.    *)
TypeOK ==
    /\ galive \in [Execs -> BOOLEAN]
    /\ graph \in [Execs -> Seq(Node)]
    /\ estate \in [Execs -> {"none", "live", "destroyed"}]
    /\ nodes \in [Execs -> Seq(Node)]
    /\ in_flight_count \in [Execs -> Nat]
    /\ icb \in [Execs -> IcbRecord]
    /\ lstate \in [Launches -> {"none", "encoding", "live", "failed", "destroyed"}]
    /\ lexec \in [Launches -> Execs \cup {None}]
    /\ lstream \in [Launches -> Streams \cup {None}]
    /\ completed \in [Launches -> BOOLEAN]
    /\ retained \in [Launches -> Seq(Objects)]
    /\ report \in [Launches -> {"none", "ok", "backend_error", "invalid_argument"}]
    /\ call \in CallRecord
    /\ cbs \in [Launches -> Seq(CommandBuffer)]
    /\ queue \in [Streams -> Seq(Launches \X Nat)]
    /\ signaled \in [Events -> Vals]
    /\ handle \in [Objects -> BOOLEAN]
    /\ ref_count \in [Objects -> Int]

(* A launch the caller got back and never saw complete.                     *)
InFlight(l) == lstate[l] \in {"live", "destroyed"} /\ ~completed[l]

(* in_flight_count counts exactly the launches mgGraphLaunch returned and   *)
(* no mgLaunchSynchronize has finished, whatever fails and however often a  *)
(* launch is synchronised.                                                  *)
InFlightAccounting ==
    \A e \in Execs :
        in_flight_count[e] = Cardinality({l \in Launches : lexec[l] = e /\ InFlight(l)})

(* The exec and launch slots that point at an object.                       *)
ExecsHold(o) == UNION {{e} \X NodeSlots(nodes[e], o) : e \in Execs}

LaunchesHold(o) ==
    UNION {{l} \X {i \in DOMAIN retained[l] : retained[l][i] = o} : l \in Launches}

(* A reference count is the number of holders: the caller's handle, the     *)
(* graph, exec and launch slots that point at the object. No holder is left *)
(* with a destroyed object and no object outlives its holders.              *)
RefCountExact ==
    \A o \in Objects :
        ref_count[o] = (IF handle[o] THEN 1 ELSE 0) + Cardinality(GraphsHold(o))
                         + Cardinality(ExecsHold(o)) + Cardinality(LaunchesHold(o))

UsedBy(cb) == UNION {{cb.cmds[i].objs[j] : j \in DOMAIN cb.cmds[i].objs} : i \in DOMAIN cb.cmds}

(* Buffers and events of a committed command buffer are alive until it      *)
(* ends, for the launches the caller holds: patches, handle and graph       *)
(* destruction in between do not free them.                                 *)
RetainedWhileInFlight ==
    \A l \in Launches : lstate[l] \in {"encoding", "live"} =>
        \A k \in DOMAIN cbs[l] : ~Finished(cbs[l][k]) =>
            \A o \in UsedBy(cbs[l][k]) : ref_count[o] > 0

(* The same for every submitted command buffer, those of a launch that      *)
(* failed half way included.                                                *)
RetainedUntilCompletion ==
    \A l \in Launches : lstate[l] \in {"encoding", "live", "failed"} =>
        \A k \in DOMAIN cbs[l] : ~Finished(cbs[l][k]) =>
            \A o \in UsedBy(cbs[l][k]) : ref_count[o] > 0

(* mgLaunchSynchronize returns only when every command buffer of the launch *)
(* has ended, and reports OK exactly when none of them ended in error.      *)
SyncReportsFaithfully ==
    \A l \in Launches :
        /\ completed[l] => AllFinished(l)
        /\ report[l] = "ok" => \A k \in DOMAIN cbs[l] : cbs[l][k].st = "completed"
        /\ report[l] = "backend_error" => \E k \in DOMAIN cbs[l] : cbs[l][k].st = "error"

(* A patch changes an exec only when the GPU has finished every launch of   *)
(* it that the caller was given.                                            *)
PatchOnlyWhenQuiescent ==
    [][\A e \in Execs :
          (estate[e] = "live" /\ estate'[e] = "live" /\ nodes'[e] # nodes[e]) =>
             \A l \in Launches :
                (lexec[l] = e /\ lstate[l] \in {"live", "destroyed"}) => AllFinished(l)]_vars

(* When a launch returns, the diagnostics account for every planned group,  *)
(* and name a fallback reason exactly when a group fell back, whatever an   *)
(* earlier launch, successful or failed half way, left in them.             *)
DiagnosticsBalanced ==
    [][\A l \in Launches : lstate[l] = "encoding" /\ lstate'[l] = "live" =>
          LET d == icb'[lexec[l]] IN
          /\ d.used + d.fallback = d.planned
          /\ (d.reason # "none") = (d.fallback > 0)]_vars

(* A launch made with ICB enabled does not report that ICB was disabled.    *)
FallbackReasonIsCurrent ==
    [][\A l \in Launches : lstate[l] = "encoding" /\ lstate'[l] = "live" =>
          LET e == lexec[l] IN icb[e].enabled => icb'[e].reason # "disabled"]_vars

(* Once every launch of an exec has been synchronised (or the attempt was   *)
(* answered), the exec takes patches again.                                 *)
ReusableAfterSync ==
    \A e \in Execs :
        (\A l \in Launches : lexec[l] = e /\ lstate[l] \in {"live", "destroyed"} =>
             report[l] # "none")
        => PatchReady(e)

(* An exec none of whose launches is held unsynchronised takes patches once *)
(* the GPU has finished.                                                    *)
ReusableAfterCompletion ==
    \A e \in Execs :
        (\A l \in Launches : lexec[l] = e =>
             (lstate[l] # "encoding" /\ ~Outstanding(l) /\ AllFinished(l)))
        => PatchReady(e)

(* Every call returns: a launch is not left waiting in front of an MPSGraph *)
(* node, nor a synchronisation on a command buffer that never ends.         *)
CallsReturn == (call.op # "idle") ~> Idle

NodesOfKind(l, kind) == {NodesOf(l)[i] : i \in {i \in DOMAIN NodesOf(l) : NodesOf(l)[i].kind = kind}}

(* A launch whose waits are all signalled by a launch on another stream     *)
(* that waits for nothing runs to its end, whichever of the two was made    *)
(* first: event signals are submitted even when they are a graph's only     *)
(* work.                                                                    *)
SignalReleasesWaiter ==
    \A l, k \in Launches :
        (/\ Outstanding(l) /\ Outstanding(k) /\ lstream[l] # lstream[k]
         /\ NodesOfKind(k, "wait") = {}
         /\ \A w \in NodesOfKind(l, "wait") :
               \E g \in NodesOfKind(k, "signal") : g.objs = w.objs /\ g.val >= w.val)
        ~> AllFinished(l)

=============================================================================
