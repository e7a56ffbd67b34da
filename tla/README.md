# Metal Graph: TLA+ models, checks and proofs

Metal Graph is a C library (with an Objective-C++ backend and a Python adapter)
that records GPU work as a graph, instantiates the graph into an executable
snapshot, patches the snapshot between launches, and launches it on Metal
command queues. This directory models the parts of it that keep state and
decide, checks the models with TLC and proves the checked safety properties and
both refinements, for every value of the constants, with TLAPS.

## Inventory

| Part | Source | State | Operations | Modelled in |
|---|---|---|---|---|
| Graph: nodes and their contents | `src/core/graph.c` | `mg_graph`: node array and its capacity; each node's copies of bindings, tensors, strings | add-node calls, `mgGraphSetNodePatchFlags`, `mgGraphDestroy` | `GraphBuild` (ownership, failures), `BufferRanges` (what is accepted) |
| Graph: edges and order | `src/core/graph.c` | edges; queue, order and indegrees of the sort | `mgGraphAddDependency`, `mgGraphValidate`, `mg_graph_topological_order` | `TopoOrder` |
| Arenas and workspace | `src/core/arena.c` | `mg_arena` counts, `mg_workspace_plan` | create, destroy, attach, plan, clear | `WorkspacePlan` |
| Exec | `src/metal/metal_backend.mm` | `mg_graph_exec`: node snapshot, `in_flight_count`, ICB plan, workspace, package files | `mgGraphInstantiate`, `mgGraphExecDestroy` | `GraphBuild` (the copy, node by node), `WorkspacePlan`, `GraphLaunch` |
| Patches | `src/core/patch.c` | fields of exec nodes, ICB flag | six patch calls, `mgGraphExecSetOptimizationFlags` | `GraphLaunch` (gate, references), `BufferRanges` (ranges, alignment, grids) |
| ICB plan | `src/metal/metal_backend.mm` | recorded commands, counters, last reason | build, use, fall back | `GraphLaunch` |
| Launch | `src/metal/metal_backend.mm` | `mg_launch`: command buffers, retained objects, `completed` | `mgGraphLaunch`, `mgLaunchSynchronize`, `mgLaunchDestroy` | `GraphLaunch` |
| Buffers, events | `src/core/buffer.c`, `src/metal/metal_backend.mm` | `ref_count`, the Metal object, the owner of a wrapped buffer, its window | `mgBufferCreateShared`, `mgMetalBufferWrap`, `mgEventCreate`, retain, release, destroy | `GraphBuild`, `BufferRanges`, `GraphLaunch` |
| GPU | Metal (external) | command queues, shared events, command buffer status | execute in order, complete, fail | `GraphLaunch` |
| Devices, streams | `src/metal/metal_backend.mm` | one Metal object each | create, destroy | not modelled |
| Errors, version, unsupported backend | `src/core/error.c`, `version.c`, `src/metal/unsupported_backend.c` | none that matters | formatting, constants, refusals | not modelled |
| Python adapter | `bindings/python` | ctypes handles | wrappers, finalisers | not modelled |

How they interact: a graph, an exec, a launch and the caller all hold counted
references to the same buffers and events. Instantiation asks the graph for its
topological order, asks the planner for workspace, clones the nodes one by one
and may record an indirect command buffer (ICB). A patch is gated by
`in_flight_count`, which `mgGraphLaunch` increments and the first
`mgLaunchSynchronize` of each launch decrements. A launch encodes the exec's
nodes into command buffers. An MPSGraph node always gets a command buffer of its
own, and `mgGraphLaunch` first commits **and waits for** what precedes it.

What is hard: the GPU runs while the caller patches, destroys and launches
again; launches fail between two commits; the in-flight count is maintained in
three places; the ICB freezes bindings that patches change; waits on events can
block the host inside `mgGraphLaunch`; every add-node call and the clone have
several allocations, each with its own clean-up; and ranges are validated in
one file, replaced in a second and turned into Metal offsets in a third, all in
`size_t`. `PROJECT.json` lists each hazard at its line.

What makes each part correct:

- graph: the order respects every edge, cycles and only cycles are reported, and
  the arrays of the algorithm and of the nodes are large enough;
- building: a call happens whole or not at all, every reference is counted at
  every allocation, and nothing leaks;
- ranges: no command touches a byte outside its buffer's window, no size wraps,
  and a patch changes only what was declared patchable;
- workspace: reservations are disjoint and aligned, no `size_t` sum wraps, and
  arena references are exact;
- exec and launch: references are exact and keep what the GPU uses alive, the
  in-flight count is exact, a launch runs exactly the commands the exec held,
  patches never touch a launch in flight, synchronisation tells the truth, and
  calls return.

## Modules

| Module | What it is | Proofs |
|---|---|---|
| `GraphLaunch` | execs, patches, ICB, launches, GPU, reference counts | `GraphLaunchProofs`, `RefCountProofs` |
| `LaunchContract`, `LaunchRefinement`, `MCGraphLaunch` | the promise of a launch; the mapping of `GraphLaunch` onto it; graphs of the runs | `LaunchRefinementProofs` |
| `TopoOrder` | dependencies and Kahn's algorithm, loop round by loop round | `TopoOrderProofs` |
| `WorkspacePlan` | arenas, reservations, packing | `WorkspacePlanProofs` |
| `BufferRanges`, `MCBufferRanges` | windows, ranges, alignment, grids, tensor sizes, patch flags | `BufferRangesProofs` |
| `GraphBuild`, `BuildContract`, `MCGraphBuild` | creation and deep copies with every failure; what building promises | `GraphBuildProofs` |
| `BoundedInduction` | induction over an interval without an operator parameter | itself |

`GraphLaunch` is the core. Its variables are fields of `mg_graph_exec`
(`nodes`, `in_flight_count`, `icb`), of `mg_launch` (`completed`, `retained`,
`cbs` for `impls`), the reference counts, the call in progress (`call`: which
loop, index `i`, the open command buffer, `commandBufferHasWork` as `work`), and
the external GPU (`queue` per stream, `signaled` per event). Calls that only
touch host state are one action each. `mgGraphLaunch` is split at every node and
at every commit or wait, so the GPU interleaves with encoding:

| Code | Actions |
|---|---|
| `mgGraphInstantiate`, `mgGraphDestroy`, `mgGraphExecDestroy`, `mgBufferDestroy`/`mgEventDestroy` | `Instantiate`, `GraphDestroy`, `ExecDestroy`, `HandleDestroy` |
| `patch.c` | `PatchDispatchGrid` ... `PatchEventValue`, `SetOptimizationFlags` |
| `mgGraphLaunch` | `LaunchBegin`, `LaunchIcb`, `EncodeNode`, `CommitBeforeMps`, `WaitBeforeMps`, `EncodeMps`, `LaunchReturn` |
| its error paths | `LaunchFailEncode`, `LaunchFailCommit`, `LaunchFailWait` |
| `mgLaunchSynchronize`, `mgLaunchDestroy` | `SyncRejected`, `SyncBegin`, `SyncWait`, `SyncReturn`, `LaunchDestroy` |
| Metal | `GpuExecute`, `GpuComplete`, `GpuFail` |

An object whose
count reaches 0 is freed: a later retain of it (`Incremented`) has no effect, so
the order of retain and release shows in `RefCountExact`. A patch may name a
buffer by its handle or one that the node keeps alive (`Nameable`): handles may
be destroyed after instantiation, and a patch of a range names its
buffers again.

`LaunchContract` is what the documents promise: a launch executes the commands
its exec held when it was launched, each once and in order; a patch replaces one
command, affects future launches only and waits for the launches the caller was
given; only a fault of the host makes a launch fail (`Fail`, which leaves a
prefix to be executed) and only one of the GPU makes it lose commands (`Lose`,
which drops those that come next); synchronisation succeeds only after the last
command of a launch that lost none. `LaunchRefinement` maps `GraphLaunch` onto
it (`ImplementsContract`). The script of a launch is what its command buffers
hold (of one that failed, what it had executed), then the open command buffer
and what the remaining nodes will encode. So the contract's `Return`, which
leaves the script alone, holds only if `mgGraphLaunch` has committed everything.

`TopoOrder` builds graphs node by node and edge by edge and runs
`mg_graph_topological_order` one loop round per step; `Relaxed` says which edges
the algorithm has taken off. `mgGraphValidate` is the same sort with its order
thrown away.

`WorkspacePlan` attaches arenas, adds reservations and plans them, one node per
step, in arithmetic modulo `SizeMax + 1`; `InstantiateFails` stands for every
error return of `mgGraphInstantiate` after planning began.

`BufferRanges` keeps the window of each buffer (`byte_offset`, `length` and the
size of its Metal buffer), one node of a graph and its copy in an exec. Its
actions are the creation of a buffer, the add-node calls, the patch flags,
instantiation and the four patches that change ranges or grids, each with all
the checks the code makes, in `size_t` arithmetic modulo `SizeMax + 1`. The
properties compare with unbounded arithmetic, at the address a launch hands to
Metal (`MetalOffset`).

`GraphBuild` describes a node by the parts a call builds: memory without a
reference, arrays of references, arrays of tensors (each with an allocation
before its reference), references stored last, and, in an exec, a package file.
Every part of a node takes a step and may fail. `AddFails` and `CloneFails` are
the clean-up paths: the tensors copied before the failing one, the parts of the
node before this one, and for a clone all nodes before it and their package
files. The exec is destroyed by the same clean-up (`ExecClear`). `BuildContract`
has one step per call; `Contract` in `GraphBuild` is the mapping.

Abstractions. In `GraphLaunch` payloads are members of `Vals`; lengths, offsets
and grid limits, which only reject a call there, are `BufferRanges`'. A rejected
call changes nothing and is a disabled action. Objects that Objective-C reference
counting keeps alive (pipelines, the workspace buffer, the command buffers
themselves) are taken as alive. The caller makes one call at a time, which the
API requires. A destroyed launch's or exec's memory is not reused. `Caller`
switches on liberties of the caller: patching, teardown, overlapping launches of
one exec and destroying unsynchronised launches. The last two are not
recommended, or declared invalid, by the documents; counts and references are
checked and proved under them all the same. Destroying an exec under an
outstanding launch is undefined in the code and excluded.

## Runs

| Run | Instance | Question |
|---|---|---|
| `Lifecycle` | 1 exec, 2 launches, 15 graphs (every one-node graph the ICB plan distinguishes, graphs of several command buffers), host and GPU faults, patches, overlapping launches | `LaunchContract` across ICB capture, patches, segments and failures; diagnostics add up; the exec is reusable after completion |
| `Faults` | 3 graphs, 2 launches, host and GPU faults, every liberty | Types, counts, references, synchronisation results, patch gate |
| `Streams` | 2 execs on 2 streams, events before an MPSGraph node, a graph that submits nothing | Every call returns (`FairSpec`) |
| `CrossStream` | waiter and signaller on 2 streams, either order | A signal that is a graph's only work still releases the waiter (`FairSpec`) |
| `Topology` | 4 nodes, 4 edges, any construction order | Order, cycles, array bounds, indegrees; the sort terminates (`FairSpec`) |
| `Workspace` | 4-bit sizes, 3 reservations, 2 arenas, 2 execs | Packing, overflow, arena references and limits |
| `Ranges` | 4-bit sizes, 2 buffers, every node kind with ranges, every patch | Ranges, tensors, alignment, grids, declared fields |
| `Build` | a library buffer, an external buffer, an event; 3 nodes, an exec | References at every allocation, leaks, capacity, all or nothing (`BuildContract`) |

`BarrierSync`, `UnsyncedDestroy`, `FailedLaunch` and `StaleReason` are
counterexample runs, each for one sentence of the documents that the code does
not keep (`findings` in `PROJECT.json` quotes them):

- a launch that submits nothing can never be synchronised, so its exec never
  takes a patch again;
- neither does the exec of a launch that was destroyed unsynchronised;
- a launch that fails between two commits releases references that running
  command buffers still use;
- the fallback reason `disabled` sticks to later launches.

Bounds. Two launches are the fewest that overlap, relaunch after a patch, or
synchronise twice with another launch in between. Two buffers let a patch swap,
repeat or share operands. Graphs have at most three nodes: a segment before, at
and after an MPSGraph node. Value sets have two members (`Faults` has one: its
properties do not read values). `FillMps` has a fill that a patch may give the
buffer it holds already, after graph and handles are gone: the exec then has the
last reference, and releasing before retaining would free it. `Lifecycle` leaves teardown to `Faults`: it
would more than triple the states without a new way to launch, and the theorems
about the properties of `Lifecycle` do cover it. Four nodes admit a diamond and
a cycle with a tail; more edges than four add only larger indegrees. In 4-bit
arithmetic the sizes chosen for `Workspace` (5 and 14, alignments 1 and 8) and
for `Ranges` (0, 4, 8, 13) fit, fill, overflow in a sum and overflow in an
alignment. `Ranges` has one node per graph, because no check of the code looks
at two, and varies the first binding and the first tensor freely, the others
less (see `Next`). `Build` starts the node array at capacity 1 instead of 4 so
that it grows twice within `MaxNodes`. `MaxNodes`, `MaxEdges` and `Launches`
bound construction and relaunches. What is proved does not depend on any of
these bounds.

Deadlock is checked except in `CrossStream`, whose two launches may both be made
on the waiting graph alone so that the system really stops, and in `Workspace`
and `Build`, where the bounded construction runs out of operations. `Quiet` in
`GraphLaunch` lets a system with nothing left to do stutter only when no call is
in progress and every stream is drained, so a stuck call is a deadlock.

Fairness. `GraphLaunch!Fairness` is weak fairness of the steps of the call in
progress (sequential code that runs on unless it is blocked in
`waitUntilCompleted`) and of each stream executing and completing its head
command buffer (Metal schedules every committed command buffer). Nothing obliges
the caller to call or the GPU to fail. `TopoOrder!FairSpec` says that the
sequential sort runs on.

`DiagnosticsBalanced` speaks of the step in which a launch returns: a launch
whose ICB encoder cannot be made leaves `used + fallback` below `planned`, and
the property says that the next launch that returns sets all three right again.

## Proofs

The theorems hold for every value of the constants that satisfies the named
assumptions of the modules: programs are sequences of nodes, execs and launches
are finite sets, 0 is a value and `None` none of the others (`GraphLaunch`);
alignments divide `SizeMax + 1`, and a smaller one divides a larger one, as
powers of two do (`WorkspacePlan`); sizes, shapes and descriptors are within
`size_t` (`BufferRanges`); what callers add are lists of parts without packages,
and the first capacity is positive (`GraphBuild`). TLC evaluates each assumption
in the runs of its module. The two theorems on reuse have a hypothesis besides
(`ReuseInv` below). `PROJECT.json` lists what each theorem says.

| Module | Theorems | Inductive invariant |
|---|---|---|
| `GraphLaunchProofs` | types; `in_flight_count` is exact; diagnostics balance | `LaunchInv` |
| | synchronisation tells the truth; patches wait for the GPU | `SyncInv` |
| | execs are reusable after synchronisation and after completion | `ReuseInv` |
| `RefCountProofs` | reference counts are exact; what a launch uses is alive | `RefInv` |
| `LaunchRefinementProofs` | `LaunchContract` is implemented | `RefineInv` |
| `TopoOrderProofs` | types, array bounds, indegrees, the order, cycles | `SortInv` |
| `WorkspacePlanProofs` | types, arena references, disjoint, aligned and fitting plans, exact overflow | `PlanInv` |
| `BufferRangesProofs` | types, ranges, tensors, alignment, grids, declared fields | `RangesInv` |
| `GraphBuildProofs` | types, exact references, no leaks, room in the node array, `BuildContract` is implemented | `BuildInv` |
| `BoundedInduction` | lemmas: least members, induction on sets, values of recursive functions | |

Why each invariant is stronger than the properties it is for:

- `LaunchInv`. The accounting of launches in flight is not inductive alone. A
  return must be known to concern a launch that was not counted
  (`CallConsistent`: the call in progress works on a launch in state `encoding`
  with a live exec), and a synchronisation one that was. Typing a GPU step needs
  `QueueConsistent` (what a stream refers to exists), typing an ICB launch
  `IcbConsistent` (an exec with an ICB has exactly one node). For the diagnostics
  `DiagnosticsKept` is added: a launch that does not use the ICB balances them
  before it encodes, and nothing changes them until it returns.
- `SyncInv`. That a launch marked complete has really ended needs
  `SyncProgress` (`mgLaunchSynchronize` has waited for all it has passed, and
  remembers each failure), `QueuePending` and `QueueDistinct` (a queued command
  buffer has not ended and is queued once, so the GPU never touches one that
  has) and `AnsweredReturned`. The patch theorem then combines it with the exact
  in-flight count: a patch reads a counter only, yet no command buffer of a
  returned launch can be running.
- `ReuseInv`. A patch is refused while `in_flight_count` is positive, and only a
  synchronisation counts it down, which a launch without command buffers is
  refused. So an exec is reusable only if every launch that returns has one
  (`Recorded`). `Marked` gives that: while a launch has neither marked work nor
  recorded a command buffer, no node it has passed encodes anything, and
  `Worked` says that some node of the exec does, whatever was patched. The
  hypothesis of both theorems is therefore on the graphs (`HasWork`: empty, or
  with a node that encodes), and it is necessary: `BarrierSync` is the graph
  without it. Nor can the second theorem do without callers that synchronise
  before they destroy (`UnsyncedDestroy`). `ReusableWhenSynced` has no other
  hypothesis: overlapping launches, faults and teardown are all included.
- `RefInv`. Counts are exact because every holder is counted as a set of pairs
  (exec or launch, slot), and each action exchanges the slots of one exec or
  launch (`PairsReplaced`). Every retain must come while somebody else still
  holds the object (`HeldIsAlive`: the graph at instantiation, the exec at a
  launch, a handle or the node itself at a patch). `Covered` says that the list a launch retains
  covers what each of its command buffers uses. It needs `IcbFaithful`: the
  command frozen in the ICB is that of a node that no patch can change, else the
  retained list would cover the patched node and the GPU run the old one.
  `Fresh`: what is not made holds nothing.
- `RefineInv` is `SyncInv`, `RefInv` and two more. `StreamOrder`: the command
  buffers of a launch are all on its stream, in the order of their commits, and
  none starts before those before it have ended. Hence what a launch has
  executed is a prefix of what its command buffers hold, and the next command
  the GPU takes is the next of the script. `LaunchShape`: the only launch being
  encoded is that of the call in progress, and nothing is in an open command
  buffer without `commandBufferHasWork`, so a segment that is not committed is
  empty. `IcbFaithful` of `RefInv` makes the ICB's command that of the node.

  The proof of the refinement first gives the laws of flattening a sequence of
  sequences (append, replace one, all empty), then what a commit, an encoded
  node, a patch and a step of the GPU do to the script of a launch
  (`CommitScript`, `ScriptNext`, `ScriptPatched`, `GpuScript`), then one lemma
  per action (`EncodeNodeMapped` ... `PatchMapped`), each an action of the
  contract or a stutter. A command buffer that ends in error is `Lose`; a failing
  call is `Fail`, with the submitted commands as the prefix that stays.
- `SortInv`. An indegree is the number of edges in whose source is not taken
  (`Counting`), the queue holds exactly the nodes of indegree zero seen so far
  (`Rooting`), and what is taken is taken in order (`Taking`). That a sort which
  stops early leaves a cycle is a minimum argument: if the nodes left had a
  topological order, the least of them would have indegree zero.
- `PlanInv`. Plans are `Packed` at every step (ordered, aligned, within
  `total_size`), a failed exec keeps no plan and a plan in the making no arena,
  so clearing one twice or early releases nothing. While a plan is being made,
  its size is the unbounded sum of what the nodes so far need (`Planning`, with
  `SumOf`), so a wrap is noticed exactly when the sum exceeds `SizeMax`.
- `RangesInv`. Windows lie inside Metal buffers, and nodes are `Shaped`: a copy
  has two ranges and a fill one, both with the plain fields their constructors
  give, which a patch of them keeps and relies on.
- `BuildInv`. What a node holds and has still to build is what it names
  (`Covers`). A node being added names objects with handles; one being copied is
  the next of a living graph, and an exec half built holds what the first nodes
  of the graph hold (`CallOK`, `NodesOK`). So a failing call only ever drops
  second references, which is what makes it a stutter of the contract: an object
  exists exactly while the caller, the graph or a finished exec keeps it
  (`InvAliveKept`), at every allocation. Package files are counted right because
  a node copies at most one (`OnePackage`).

Induction over data is done on sets of naturals with the least-member form of
well-foundedness (`BoundedInduction`), because the provers cannot instantiate
the library's induction with an operator parameter.

## Only model-checked

- Liveness: `CallsReturn`, `SignalReleasesWaiter`, `SortReturns` (the prover
  has neither fairness nor `ENABLED`).

Every safety property, action property and refinement that a passing run checks
is stated by a theorem as well.

## Not modelled

- Devices and streams: creation and destruction of one Metal object each.
- Error objects, version, the unsupported backend: no state the rest depends on.
- The Python adapter: a `ctypes` layer with one wrapper per call. The order in
  which its finalisers destroy handles is covered by the C models, which
  destroy in every order the C interface defines.
- Shaders, examples, artifacts: kernel code and data.
- Two launches of one exec on different streams sharing its workspace
  allocation: the documents declare it invalid, and nothing in the code orders
  them.
- Reference counts incremented by two threads: `ref_count` is not atomic and the
  API asks callers to serialise calls.
- The growth of the edge array (that of the node array, which has the same form,
  is in `GraphBuild`); comparison of devices in patches; the contents of strings.
- What a Metal function or an MPSGraph package computes.

## What is left

- The Python adapter's ownership, if it starts to keep native objects alive
  itself rather than by its handles.
