-------------------------- MODULE GraphLaunchProofs --------------------------
(***************************************************************************)
(* Proofs about GraphLaunch, for any number of execs, launches, streams,   *)
(* buffers and events, any programs, and every kind of caller and fault.   *)
(***************************************************************************)
EXTENDS GraphLaunch, FiniteSetTheorems, TLAPS

-----------------------------------------------------------------------------
(* The inductive invariant.                                                 *)

(* A call in progress works on a launch in the state it expects, and an     *)
(* encoding or returned launch knows its exec.                              *)
CallConsistent ==
    /\ call.op # "idle" => call.l \in Launches
    /\ call.op \in {"icb", "encode", "midwait"} =>
          /\ lstate[call.l] = "encoding"
          /\ estate[lexec[call.l]] = "live"
    /\ call.op = "icb" => icb[lexec[call.l]].built
    /\ call.op = "sync" => lstate[call.l] = "live"
    /\ \A l \in Launches :
          /\ lstate[l] \in {"none", "encoding"} => ~completed[l]
          /\ lstate[l] \in {"encoding", "live"} => lexec[l] \in Execs /\ lstream[l] \in Streams

(* A queued command buffer exists, and an indirect command buffer belongs   *)
(* to an exec of one node.                                                  *)
QueueConsistent ==
    \A s \in Streams : \A i \in DOMAIN queue[s] :
        queue[s][i][2] \in DOMAIN cbs[queue[s][i][1]]

IcbConsistent ==
    \A e \in Execs : estate[e] = "live" /\ icb[e].built => Len(nodes[e]) = 1

(* The inductive invariant behind TypeOK and InFlightAccounting.            *)
LaunchInv ==
    TypeOK /\ CallConsistent /\ QueueConsistent /\ IcbConsistent /\ InFlightAccounting

-----------------------------------------------------------------------------
(* Lemmas about the operators.                                              *)

(* A node encodes a command.                                                *)
LEMMA CommandOfType ==
    ASSUME NEW n \in Node
    PROVE  CommandOf(n) \in Command
BY DEF CommandOf, Node, Command

(* Retaining and releasing keep counts integers.                            *)
LEMMA OccurrencesType ==
    ASSUME NEW s \in Seq(Objects), NEW o
    PROVE  Occurrences(s, o) \in Nat
<1>1. IsFiniteSet(1..Len(s)) /\ DOMAIN s = 1..Len(s)
  BY FS_Interval
<1>2. IsFiniteSet({i \in DOMAIN s : s[i] = o})
  BY <1>1, FS_Subset
<1> QED BY <1>2, FS_CardinalityType DEF Occurrences

LEMMA RetainType ==
    ASSUME NEW rc \in [Objects -> Int], NEW s \in Seq(Objects)
    PROVE  Retain(rc, s) \in [Objects -> Int] /\ Release(rc, s) \in [Objects -> Int]
BY OccurrencesType DEF Retain, Incremented, Release

(* The slots of a node sequence that hold an object are finitely many.      *)
LEMMA NodeSlotsFinite ==
    ASSUME NEW ns \in Seq(Node), NEW o
    PROVE  IsFiniteSet(NodeSlots(ns, o)) /\ NodesHold(ns, o) \in Nat
<1> DEFINE Row(i) == {i} \X DOMAIN ns[i].objs
           rows   == {Row(i) : i \in DOMAIN ns}
           f      == [i \in DOMAIN ns |-> Row(i)]
<1>1. IsFiniteSet(DOMAIN ns)
  BY FS_Interval, DOMAIN ns = 1..Len(ns), Len(ns) \in Int
<1>2. f \in Surjection(DOMAIN ns, rows)
  BY DEF Surjection
<1>3. IsFiniteSet(rows)
  BY <1>1, <1>2, FS_Surjection
<1>4. ASSUME NEW i \in DOMAIN ns PROVE IsFiniteSet(Row(i))
  <2>0. ns[i] \in Node
    OBVIOUS
  <2>1. ns[i].objs \in Seq(Objects)
    BY <2>0 DEF Node
  <2>2. DOMAIN ns[i].objs = 1..Len(ns[i].objs) /\ Len(ns[i].objs) \in Int
    BY <2>1
  <2>3. IsFiniteSet(1..Len(ns[i].objs))
    BY <2>2, FS_Interval
  <2>4. IsFiniteSet(DOMAIN ns[i].objs)
    BY <2>2, <2>3
  <2> QED BY <2>4, FS_Singleton, FS_Product
<1>5. IsFiniteSet(UNION rows)
  BY <1>3, <1>4, FS_UNION
<1>6. NodeSlots(ns, o) \in SUBSET UNION rows
  BY DEF NodeSlots
<1>7. IsFiniteSet(NodeSlots(ns, o))
  BY <1>5, <1>6, FS_Subset
<1> QED BY <1>7, FS_CardinalityType DEF NodesHold

LEMMA RetainNodesType ==
    ASSUME NEW rc \in [Objects -> Int], NEW ns \in Seq(Node)
    PROVE  RetainNodes(rc, ns) \in [Objects -> Int] /\ ReleaseNodes(rc, ns) \in [Objects -> Int]
BY NodeSlotsFinite DEF RetainNodes, Incremented, ReleaseNodes

(* A committed command buffer goes to the end of its launch and its stream. *)
LEMMA CommitType ==
    ASSUME TypeOK, NEW l \in Launches, NEW cmds \in Seq(Command), Commit(l, cmds)
    PROVE  /\ cbs' \in [Launches -> Seq(CommandBuffer)]
           /\ queue' \in [Streams -> Seq(Launches \X Nat)]
           /\ signaled' \in [Events -> Vals]
<1>1. [cmds |-> cmds, pos |-> 0, st |-> "committed"] \in CommandBuffer
  BY DEF CommandBuffer
<1>2. cbs' \in [Launches -> Seq(CommandBuffer)]
  BY <1>1 DEF Commit, TypeOK
<1>3. <<l, Len(cbs[l]) + 1>> \in Launches \X Nat
  BY DEF TypeOK
<1>4. queue' \in [Streams -> Seq(Launches \X Nat)]
  <2>1. ASSUME NEW s \in Streams
        PROVE  Append(queue[s], <<l, Len(cbs[l]) + 1>>) \in Seq(Launches \X Nat)
    <3>1. queue[s] \in Seq(Launches \X Nat)
      BY DEF TypeOK
    <3> QED BY <1>3, <3>1
  <2>2. queue' = [s \in Streams |-> IF s = lstream[l]
                                    THEN Append(queue[s], <<l, Len(cbs[l]) + 1>>)
                                    ELSE queue[s]]
    BY DEF Commit, TypeOK
  <2> QED BY <2>1, <2>2 DEF TypeOK
<1> QED BY <1>2, <1>4 DEF Commit, TypeOK

(* Building an ICB plan yields a plan; launching keeps it one.              *)
LEMMA IcbPlanType ==
    ASSUME NEW ns \in Seq(Node), NEW made \in BOOLEAN
    PROVE  /\ IcbPlan(ns, made) \in IcbRecord
           /\ IcbPlan(ns, made).built => Len(ns) = 1
<1>1. IcbReason(ns, made) \in Reasons
  BY DEF IcbReason, Reasons
<1> DEFINE built == Len(ns) = 1 /\ IcbReason(ns, made) = "none"
           cmds  == IF built THEN <<CommandOf(ns[1])>> ELSE <<>>
<1>2. built => CommandOf(ns[1]) \in Command
  BY CommandOfType
<1>3. cmds \in Seq(Command)
  BY <1>2
<1>4. IcbPlan(ns, made) =
         [enabled  |-> TRUE,
          planned  |-> IF ns = <<>> THEN 0 ELSE 1,
          used     |-> 0,
          fallback |-> IF IcbReason(ns, made) = "none" THEN 0 ELSE 1,
          reason   |-> IcbReason(ns, made),
          built    |-> built,
          captured |-> cmds]
  BY DEF IcbPlan
<1>5. built \in BOOLEAN
  OBVIOUS
<1> HIDE DEF cmds, built
<1>6. IcbPlan(ns, made) \in IcbRecord
  BY <1>1, <1>3, <1>4, <1>5 DEF IcbRecord
<1>7. IcbPlan(ns, made).built = built
  BY <1>4
<1> QED BY <1>6, <1>7 DEF built

(* Updating one field of a plan.                                            *)
LEMMA IcbUpdateUsed ==
    ASSUME NEW plan \in IcbRecord, NEW n \in 0..1
    PROVE  [plan EXCEPT !.used = n] \in IcbRecord /\ [plan EXCEPT !.used = n].built = plan.built
BY DEF IcbRecord

LEMMA IcbUpdateFallback ==
    ASSUME NEW plan \in IcbRecord, NEW n \in 0..1
    PROVE  /\ [plan EXCEPT !.fallback = n] \in IcbRecord
           /\ [plan EXCEPT !.fallback = n].built = plan.built
BY DEF IcbRecord

LEMMA IcbUpdateReason ==
    ASSUME NEW plan \in IcbRecord, NEW r \in Reasons
    PROVE  [plan EXCEPT !.reason = r] \in IcbRecord /\ [plan EXCEPT !.reason = r].built = plan.built
BY DEF IcbRecord

LEMMA IcbUpdateEnabled ==
    ASSUME NEW plan \in IcbRecord, NEW on \in BOOLEAN
    PROVE  /\ [plan EXCEPT !.enabled = on] \in IcbRecord
           /\ [plan EXCEPT !.enabled = on].built = plan.built
BY DEF IcbRecord

LEMMA IcbDoneType ==
    ASSUME NEW plan \in IcbRecord
    PROVE  IcbDone(plan) \in IcbRecord /\ IcbDone(plan).built = plan.built
<1> DEFINE p1 == [plan EXCEPT !.used = plan.planned]
           p2 == [p1 EXCEPT !.fallback = 0]
<1>1. plan.planned \in 0..1 /\ 0 \in 0..1 /\ "none" \in Reasons
  BY DEF IcbRecord, Reasons
<1>2. p1 \in IcbRecord /\ p1.built = plan.built
  BY <1>1, IcbUpdateUsed
<1>3. p2 \in IcbRecord /\ p2.built = plan.built
  BY <1>1, <1>2, IcbUpdateFallback
<1>4. IcbDone(plan) = [p2 EXCEPT !.reason = "none"]
  BY DEF IcbDone
<1> HIDE DEF p2
<1> QED BY <1>1, <1>3, <1>4, IcbUpdateReason

LEMMA LaunchDiagnosticsType ==
    ASSUME NEW plan \in IcbRecord
    PROVE  /\ LaunchDiagnostics(plan) \in IcbRecord
           /\ LaunchDiagnostics(plan).built = plan.built
<1> DEFINE Set(n, m)     == [[plan EXCEPT !.used = n] EXCEPT !.fallback = m]
           SetAll(n, m, r) == [Set(n, m) EXCEPT !.reason = r]
<1>1. /\ plan.planned \in 0..1
      /\ plan.reason \in Reasons
      /\ {"none", "disabled", "unsupported"} \subseteq Reasons
      /\ 0 \in 0..1
  BY DEF IcbRecord, Reasons
<1>2. ASSUME NEW n \in 0..1, NEW m \in 0..1
      PROVE  Set(n, m) \in IcbRecord /\ Set(n, m).built = plan.built
  <2>1. [plan EXCEPT !.used = n] \in IcbRecord /\ [plan EXCEPT !.used = n].built = plan.built
    BY IcbUpdateUsed
  <2> QED BY <2>1, IcbUpdateFallback
<1>3. ASSUME NEW n \in 0..1, NEW m \in 0..1, NEW r \in Reasons
      PROVE  SetAll(n, m, r) \in IcbRecord /\ SetAll(n, m, r).built = plan.built
  <2>1. Set(n, m) \in IcbRecord /\ Set(n, m).built = plan.built
    BY <1>2
  <2> HIDE DEF Set
  <2> QED BY <2>1, IcbUpdateReason
<1>4. \/ LaunchDiagnostics(plan) = plan
      \/ LaunchDiagnostics(plan) = SetAll(0, plan.planned, "disabled")
      \/ LaunchDiagnostics(plan) = SetAll(0, plan.planned, "unsupported")
      \/ LaunchDiagnostics(plan) = SetAll(0, plan.planned, plan.reason)
      \/ LaunchDiagnostics(plan) = Set(0, 0)
  BY DEF LaunchDiagnostics
<1> HIDE DEF Set, SetAll
<1> QED BY <1>1, <1>2, <1>3, <1>4

-----------------------------------------------------------------------------
(* Type correctness.                                                        *)

LEMMA InitInv == Init => LaunchInv
<1> SUFFICES ASSUME Init PROVE LaunchInv
  OBVIOUS
<1>1. graph \in [Execs -> Seq(Node)]
  BY ProgramsAssumption DEF Init
<1>2. ASSUME NEW o \in Objects PROVE Cardinality(GraphsHold(o)) \in Nat
  <2> DEFINE Row(e) == {e} \X NodeSlots(graph[e], o)
             rows   == {Row(e) : e \in Execs}
             f      == [e \in Execs |-> Row(e)]
  <2>1. f \in Surjection(Execs, rows)
    BY DEF Surjection
  <2>2. IsFiniteSet(rows)
    BY <2>1, FS_Surjection, FiniteAssumption
  <2>3. ASSUME NEW e \in Execs PROVE IsFiniteSet(Row(e))
    BY <1>1, NodeSlotsFinite, FS_Product, FS_Singleton
  <2>4. IsFiniteSet(UNION rows) /\ GraphsHold(o) \in SUBSET UNION rows
    BY <2>2, <2>3, FS_UNION DEF GraphsHold
  <2> QED BY <2>4, FS_Subset, FS_CardinalityType
<1>3. TypeOK
  <2>1. ref_count \in [Objects -> Int]
    BY <1>2 DEF Init
  <2>2. icb \in [Execs -> IcbRecord]
    BY DEF Init, NoIcb, IcbRecord, Reasons
  <2> QED
    BY <1>1, <2>1, <2>2, ValsAssumption DEF Init, TypeOK, NoCall, CallRecord, IcbRecord
<1>4. CallConsistent /\ QueueConsistent /\ IcbConsistent
  BY DEF Init, NoCall, CallConsistent, QueueConsistent, IcbConsistent
<1>5. ASSUME NEW e \in Execs PROVE {l \in Launches : lexec[l] = e /\ InFlight(l)} = {}
  BY DEF Init, InFlight
<1>6. InFlightAccounting
  BY <1>5, FS_EmptySet DEF Init, InFlightAccounting
<1> QED BY <1>3, <1>4, <1>6 DEF LaunchInv

(* Updating one field of the call in progress.                              *)
LEMMA CallUpdateOp ==
    ASSUME NEW c \in CallRecord, NEW op \in {"idle", "icb", "encode", "midwait", "sync"}
    PROVE  [c EXCEPT !.op = op] \in CallRecord
BY DEF CallRecord

LEMMA CallUpdateLaunch ==
    ASSUME NEW c \in CallRecord, NEW l \in Launches
    PROVE  [c EXCEPT !.l = l] \in CallRecord
BY DEF CallRecord

LEMMA CallUpdateIndex ==
    ASSUME NEW c \in CallRecord, NEW i \in Nat
    PROVE  [c EXCEPT !.i = i] \in CallRecord
BY DEF CallRecord

LEMMA CallUpdateOpen ==
    ASSUME NEW c \in CallRecord, NEW cmds \in Seq(Command)
    PROVE  [c EXCEPT !.open = cmds] \in CallRecord
BY DEF CallRecord

LEMMA CallUpdateWork ==
    ASSUME NEW c \in CallRecord, NEW work \in BOOLEAN
    PROVE  [c EXCEPT !.work = work] \in CallRecord
BY DEF CallRecord

LEMMA CallUpdateErr ==
    ASSUME NEW c \in CallRecord, NEW err \in BOOLEAN
    PROVE  [c EXCEPT !.err = err] \in CallRecord
BY DEF CallRecord

LEMMA NoCallType == NoCall \in CallRecord
BY DEF NoCall, CallRecord

(* Updating one field of a node, as the patches do.                         *)
LEMMA NodeUpdateObjs ==
    ASSUME NEW n \in Node, NEW objs \in Seq(Objects)
    PROVE  [n EXCEPT !.objs = objs] \in Node
BY DEF Node

LEMMA NodeUpdateRange ==
    ASSUME NEW n \in Node, NEW r \in Vals
    PROVE  [n EXCEPT !.range = r] \in Node
BY DEF Node

LEMMA NodeUpdateVal ==
    ASSUME NEW n \in Node, NEW v \in Vals
    PROVE  [n EXCEPT !.val = v] \in Node
BY DEF Node

(* A patch replaces a node by a node.                                       *)
LEMMA PatchedType ==
    ASSUME TypeOK, NEW e \in Execs, NEW i \in DOMAIN nodes[e], NEW n \in Node, Patched(e, i, n)
    PROVE  TypeOK'
<1>1. nodes[e] \in Seq(Node) /\ ref_count \in [Objects -> Int]
  BY DEF TypeOK
<1>2. nodes[e][i] \in Node
  BY <1>1
<1>3. n.objs \in Seq(Objects) /\ nodes[e][i].objs \in Seq(Objects)
  BY <1>2 DEF Node
<1>4. Retain(ref_count, n.objs) \in [Objects -> Int]
  BY <1>1, <1>3, RetainType
<1>5. Swap(ref_count, n.objs, nodes[e][i].objs) \in [Objects -> Int]
  BY <1>3, <1>4, RetainType DEF Swap
<1>6. nodes' \in [Execs -> Seq(Node)]
  <2>1. [nodes[e] EXCEPT ![i] = n] \in Seq(Node)
    BY <1>1
  <2> QED BY <2>1 DEF Patched, TypeOK
<1> QED BY <1>5, <1>6 DEF Patched, TypeOK, graphVars, launchVars, gpuVars

(* The objects of a node that replaces node i of an exec are alive.         *)
NamesOnly(e, i, n) == \A k \in DOMAIN n.objs : Nameable(e, i, n.objs[k])

(* A patch switches the optimization flags or replaces a node by a node of  *)
(* the same kind, one that encodes a command, with objects the caller has a *)
(* handle to or the node held before.                                       *)
LEMMA PatchForm ==
    ASSUME TypeOK, NEW e \in Execs, Patch(e)
    PROVE  /\ Idle /\ estate[e] = "live"
           /\ \/ \E on \in BOOLEAN : SetOptimizationFlags(e, on)
              \/ \E i \in DOMAIN nodes[e], n \in Node :
                    Patched(e, i, n) /\ NamesOnly(e, i, n)
                    /\ n.kind = nodes[e][i].kind /\ Encodes(n)
<1> DEFINE Replaces == \E i \in DOMAIN nodes[e], n \in Node :
                          Patched(e, i, n) /\ NamesOnly(e, i, n)
                      /\ n.kind = nodes[e][i].kind /\ Encodes(n)
           Ready    == Idle /\ estate[e] = "live"
<1>1. ASSUME NEW i \in DOMAIN nodes[e]
      PROVE  nodes[e][i] \in Node /\ nodes[e][i].objs \in Seq(Objects)
  <2>1. nodes[e] \in Seq(Node)
    BY DEF TypeOK
  <2>2. nodes[e][i] \in Node
    BY <2>1
  <2> QED BY <2>2 DEF Node
<1>2. ASSUME NEW i \in 1..Len(nodes[e]), NEW r \in Vals, PatchDispatchGrid(e, i, r)
      PROVE  Ready /\ Replaces
  <2>1. [nodes[e][i] EXCEPT !.range = r] \in Node /\ i \in DOMAIN nodes[e]
    BY <1>1, <1>2, NodeUpdateRange DEF PatchDispatchGrid, Patchable
  <2>2. NamesOnly(e, i, [nodes[e][i] EXCEPT !.range = r])
    BY <1>1, <2>1 DEF NamesOnly, Nameable, Node
  <2> QED BY <1>1, <1>2, <2>1, <2>2 DEF PatchDispatchGrid, Patchable, Node, Encodes
<1>3. ASSUME NEW i \in 1..Len(nodes[e]), NEW v \in Vals, PatchDispatchScalar(e, i, v)
      PROVE  Ready /\ Replaces
  <2>1. [nodes[e][i] EXCEPT !.val = v] \in Node /\ i \in DOMAIN nodes[e]
    BY <1>1, <1>3, NodeUpdateVal DEF PatchDispatchScalar, Patchable
  <2>2. NamesOnly(e, i, [nodes[e][i] EXCEPT !.val = v])
    BY <1>1, <2>1 DEF NamesOnly, Nameable, Node
  <2> QED BY <1>1, <1>3, <2>1, <2>2 DEF PatchDispatchScalar, Patchable, Node, Encodes
<1>4. ASSUME NEW i \in 1..Len(nodes[e]), NEW j \in DOMAIN nodes[e][i].objs, NEW b \in Buffers,
             PatchDispatchBuffer(e, i, j, b)
      PROVE  Ready /\ Replaces
  <2>1. i \in DOMAIN nodes[e] /\ b \in Objects
    BY <1>4 DEF PatchDispatchBuffer, Patchable, Objects
  <2>2. [nodes[e][i].objs EXCEPT ![j] = b] \in Seq(Objects)
    BY <1>1, <2>1
  <2>3. [nodes[e][i] EXCEPT !.objs[j] = b] \in Node
    BY <1>1, <2>1, <2>2 DEF Node
  <2>4. NamesOnly(e, i, [nodes[e][i] EXCEPT !.objs[j] = b])
    <3>1. Nameable(e, i, b)
      BY <1>4 DEF PatchDispatchBuffer
    <3>2. \A k \in DOMAIN nodes[e][i].objs : Nameable(e, i, nodes[e][i].objs[k])
      BY DEF Nameable
    <3> QED BY <1>1, <2>1, <3>1, <3>2 DEF NamesOnly, Node
  <2> QED BY <1>4, <2>1, <2>3, <2>4 DEF PatchDispatchBuffer, Patchable, Node, Encodes
<1>5. ASSUME NEW i \in 1..Len(nodes[e]), NEW src \in Buffers, NEW dst \in Buffers, NEW r \in Vals,
             PatchCopyNode(e, i, src, dst, r)
      PROVE  Ready /\ Replaces
  <2>1. i \in DOMAIN nodes[e] /\ <<src, dst>> \in Seq(Objects)
    BY <1>5 DEF PatchCopyNode, Patchable, Objects
  <2>2. [nodes[e][i] EXCEPT !.objs = <<src, dst>>] \in Node
    BY <1>1, <2>1, NodeUpdateObjs
  <2>3. [[nodes[e][i] EXCEPT !.objs = <<src, dst>>] EXCEPT !.range = r] \in Node
    BY <2>2, NodeUpdateRange
  <2>4. NamesOnly(e, i, [[nodes[e][i] EXCEPT !.objs = <<src, dst>>] EXCEPT !.range = r])
    BY <1>1, <1>5, <2>1 DEF PatchCopyNode, NamesOnly, Node
  <2> QED BY <1>5, <2>1, <2>3, <2>4 DEF PatchCopyNode, Patchable, Node, Encodes
<1>6. ASSUME NEW i \in 1..Len(nodes[e]), NEW dst \in Buffers, NEW r \in Vals, NEW v \in Vals,
             PatchFillNode(e, i, dst, r, v)
      PROVE  Ready /\ Replaces
  <2>1. i \in DOMAIN nodes[e] /\ <<dst>> \in Seq(Objects)
    BY <1>6 DEF PatchFillNode, Patchable, Objects
  <2>2. [nodes[e][i] EXCEPT !.objs = <<dst>>] \in Node
    BY <1>1, <2>1, NodeUpdateObjs
  <2>3. [[nodes[e][i] EXCEPT !.objs = <<dst>>] EXCEPT !.range = r] \in Node
    BY <2>2, NodeUpdateRange
  <2>4. [[[nodes[e][i] EXCEPT !.objs = <<dst>>] EXCEPT !.range = r] EXCEPT !.val = v] \in Node
    BY <2>3, NodeUpdateVal
  <2>5. NamesOnly(e, i,
            [[[nodes[e][i] EXCEPT !.objs = <<dst>>] EXCEPT !.range = r] EXCEPT !.val = v])
    BY <1>1, <1>6, <2>1 DEF PatchFillNode, NamesOnly, Node
  <2> QED BY <1>6, <2>1, <2>4, <2>5 DEF PatchFillNode, Patchable, Node, Encodes
<1>7. ASSUME NEW i \in 1..Len(nodes[e]), NEW v \in Vals, PatchEventValue(e, i, v)
      PROVE  Ready /\ Replaces
  <2>1. [nodes[e][i] EXCEPT !.val = v] \in Node /\ i \in DOMAIN nodes[e]
    BY <1>1, <1>7, NodeUpdateVal DEF PatchEventValue, Patchable
  <2>2. NamesOnly(e, i, [nodes[e][i] EXCEPT !.val = v])
    BY <1>1, <2>1 DEF NamesOnly, Nameable, Node
  <2> QED BY <1>1, <1>7, <2>1, <2>2 DEF PatchEventValue, Patchable, Node, Encodes
<1>8. ASSUME NEW on \in BOOLEAN, SetOptimizationFlags(e, on) PROVE Ready
  BY <1>8 DEF SetOptimizationFlags
<1> HIDE DEF Replaces, Ready
<1>9. Ready /\ ((\E on \in BOOLEAN : SetOptimizationFlags(e, on)) \/ Replaces)
  BY <1>2, <1>3, <1>4, <1>5, <1>6, <1>7, <1>8 DEF Patch
<1> QED BY <1>9 DEF Replaces, Ready

(* What a launch does to the counts, and what giving it up undoes.          *)
LEMMA RetainForLaunchType ==
    ASSUME TypeOK, NEW l \in Launches, NEW objs \in Seq(Objects), RetainForLaunch(l, objs)
    PROVE  /\ retained' \in [Launches -> Seq(Objects)]
           /\ ref_count' \in [Objects -> Int]
           /\ handle' = handle
<1>1. retained[l] \o objs \in Seq(Objects)
  BY DEF TypeOK
<1>2. ref_count \in [Objects -> Int]
  BY DEF TypeOK
<1>3. LaunchRefs(ref_count, objs) \in [Objects -> Int]
  BY <1>2, RetainType DEF LaunchRefs
<1> QED BY <1>1, <1>3 DEF RetainForLaunch, TypeOK

LEMMA AbandonType ==
    ASSUME TypeOK, NEW l \in Launches, Abandon(l),
           cbs' \in [Launches -> Seq(CommandBuffer)],
           queue' \in [Streams -> Seq(Launches \X Nat)],
           signaled' \in [Events -> Vals],
           icb' \in [Execs -> IcbRecord]
    PROVE  TypeOK'
<1>1. retained[l] \in Seq(Objects) /\ ref_count \in [Objects -> Int]
  BY DEF TypeOK
<1>2. Release(ref_count, retained[l]) \in [Objects -> Int]
  BY <1>1, RetainType
<1>3. ref_count' \in [Objects -> Int] /\ handle' \in [Objects -> BOOLEAN]
  BY <1>2 DEF Abandon, TypeOK
<1>4. retained' \in [Launches -> Seq(Objects)]
  BY DEF Abandon, TypeOK
<1>5. call' \in CallRecord
  BY NoCallType DEF Abandon
<1>6. lstate' \in [Launches -> {"none", "encoding", "live", "failed", "destroyed"}]
  BY DEF Abandon, TypeOK
<1> QED BY <1>3, <1>4, <1>5, <1>6 DEF Abandon, TypeOK, graphVars

(* The steps of a call in progress keep the types.                          *)
LEMMA HostTypeStep ==
    ASSUME LaunchInv, NEW l \in Launches, HostStep(l)
    PROVE  TypeOK'
<1> DEFINE e == lexec[l]
           n == NodesOf(l)[call.i]
<1>1. /\ TypeOK
      /\ call \in CallRecord
      /\ call.i \in Nat /\ call.i + 1 \in Nat /\ call.open \in Seq(Command) /\ call.work \in BOOLEAN /\ call.err \in BOOLEAN
  BY DEF LaunchInv, TypeOK, CallRecord
<1>2. ASSUME call.op \in {"icb", "encode", "midwait", "sync"}, call.l = l
      PROVE  e \in Execs /\ nodes[e] \in Seq(Node) /\ icb[e] \in IcbRecord
  BY <1>2 DEF LaunchInv, TypeOK, CallConsistent
<1>3. ASSUME Encoding("encode", l), call.i \in DOMAIN NodesOf(l)
      PROVE  n \in Node /\ n.objs \in Seq(Objects) /\ CommandOf(n) \in Command
  <2>1. n \in Node
    BY <1>2, <1>3 DEF Encoding, NodesOf
  <2> QED BY <2>1, CommandOfType DEF Node
<1>4. CASE LaunchIcb(l)
  <2>1. e \in Execs /\ nodes[e] \in Seq(Node) /\ icb[e] \in IcbRecord
    BY <1>2, <1>4 DEF LaunchIcb, Encoding
  <2>2. Len(nodes[e]) = 1
    BY <1>4, <2>1 DEF LaunchIcb, Encoding, LaunchInv, CallConsistent, IcbConsistent
  <2>3. nodes[e][1] \in Node
    BY <2>1, <2>2
  <2>4. nodes[e][1].objs \in Seq(Objects)
    BY <2>3 DEF Node
  <2>5. icb[e].captured \in Seq(Command) /\ icb[e].planned \in 0..1
    BY <2>1 DEF IcbRecord
  <2>6. /\ cbs' \in [Launches -> Seq(CommandBuffer)]
        /\ queue' \in [Streams -> Seq(Launches \X Nat)]
        /\ signaled' \in [Events -> Vals]
    BY <1>1, <1>4, <2>5, CommitType DEF LaunchIcb
  <2>7. /\ retained' \in [Launches -> Seq(Objects)]
        /\ ref_count' \in [Objects -> Int]
        /\ handle' \in [Objects -> BOOLEAN]
    BY <1>1, <1>4, <2>4, RetainForLaunchType DEF LaunchIcb, TypeOK
  <2>8. icb' \in [Execs -> IcbRecord]
    <3>1. IcbDone(icb[e]) \in IcbRecord
      BY <2>1, IcbDoneType
    <3> QED BY <1>1, <1>4, <3>1 DEF LaunchIcb, TypeOK
  <2>9. in_flight_count' \in [Execs -> Nat] /\ call' \in CallRecord
    BY <1>1, <1>4, <2>1, NoCallType DEF LaunchIcb, Returned, TypeOK
  <2> QED BY <1>1, <1>4, <2>6, <2>7, <2>8, <2>9 DEF LaunchIcb, Returned, TypeOK, graphVars
<1>5. CASE EncodeNode(l)
  <2>1. n.objs \in Seq(Objects) /\ CommandOf(n) \in Command
    BY <1>3, <1>5 DEF EncodeNode, AtNode
  <2>2. /\ retained' \in [Launches -> Seq(Objects)]
        /\ ref_count' \in [Objects -> Int]
        /\ handle' \in [Objects -> BOOLEAN]
    BY <1>1, <1>5, <2>1, RetainForLaunchType DEF EncodeNode, TypeOK
  <2>3. call' \in CallRecord
    <3> DEFINE open == IF Encodes(n) THEN Append(call.open, CommandOf(n)) ELSE call.open
               work == call.work \/ MarksWork(n)
               c1   == [call EXCEPT !.i = call.i + 1]
               c2   == [c1 EXCEPT !.open = open]
               c3   == [c2 EXCEPT !.work = work]
    <3>1. open \in Seq(Command) /\ work \in BOOLEAN
      BY <1>1, <2>1
    <3> HIDE DEF open, work
    <3>2. c1 \in CallRecord
      BY <1>1, CallUpdateIndex
    <3>3. c2 \in CallRecord
      BY <3>1, <3>2, CallUpdateOpen
    <3>4. c3 \in CallRecord
      BY <3>1, <3>3, CallUpdateWork
    <3>5. call' = c3
      BY <1>1, <1>5 DEF EncodeNode, open, work
    <3> QED BY <3>4, <3>5
  <2> QED BY <1>1, <1>5, <2>2, <2>3 DEF EncodeNode, TypeOK, graphVars, execVars, gpuVars
<1>6. CASE EncodeMps(l)
  <2>1. n.objs \in Seq(Objects) /\ CommandOf(n) \in Command
    BY <1>3, <1>6 DEF EncodeMps, AtNode
  <2>2. /\ retained' \in [Launches -> Seq(Objects)]
        /\ ref_count' \in [Objects -> Int]
        /\ handle' \in [Objects -> BOOLEAN]
    BY <1>1, <1>6, <2>1, RetainForLaunchType DEF EncodeMps, TypeOK
  <2>3. /\ cbs' \in [Launches -> Seq(CommandBuffer)]
        /\ queue' \in [Streams -> Seq(Launches \X Nat)]
        /\ signaled' \in [Events -> Vals]
    <3>1. <<CommandOf(n)>> \in Seq(Command) /\ Commit(l, <<CommandOf(n)>>)
      BY <1>6, <2>1 DEF EncodeMps
    <3> QED BY <1>1, <3>1, CommitType
  <2>4. call' \in CallRecord
    BY <1>1, <1>6, CallUpdateIndex DEF EncodeMps
  <2> QED BY <1>1, <1>6, <2>2, <2>3, <2>4 DEF EncodeMps, TypeOK, graphVars, execVars
<1>7. CASE CommitBeforeMps(l)
  <2>1. /\ cbs' \in [Launches -> Seq(CommandBuffer)]
        /\ queue' \in [Streams -> Seq(Launches \X Nat)]
        /\ signaled' \in [Events -> Vals]
    BY <1>1, <1>7, CommitType DEF CommitBeforeMps
  <2>2. call' \in CallRecord
    <3> DEFINE c1 == [call EXCEPT !.op = "midwait"]
               c2 == [c1 EXCEPT !.open = <<>>]
               c3 == [c2 EXCEPT !.work = FALSE]
    <3>1. c1 \in CallRecord
      BY <1>1, CallUpdateOp
    <3>2. c2 \in CallRecord
      BY <3>1, CallUpdateOpen, <<>> \in Seq(Command)
    <3>3. c3 \in CallRecord
      BY <3>2, CallUpdateWork
    <3> QED BY <1>7, <3>3 DEF CommitBeforeMps
  <2> QED BY <1>1, <1>7, <2>1, <2>2
          DEF CommitBeforeMps, TypeOK, graphVars, execVars, launchVars, refVars
<1>8. CASE WaitBeforeMps(l)
  <2>1. call' \in CallRecord
    BY <1>1, <1>8, CallUpdateOp DEF WaitBeforeMps
  <2> QED BY <1>1, <1>8, <2>1
          DEF WaitBeforeMps, TypeOK, graphVars, execVars, launchVars, gpuVars, refVars
<1>9. CASE LaunchReturn(l)
  <2>1. e \in Execs
    BY <1>2, <1>9 DEF LaunchReturn, Encoding
  <2>2. /\ cbs' \in [Launches -> Seq(CommandBuffer)]
        /\ queue' \in [Streams -> Seq(Launches \X Nat)]
        /\ signaled' \in [Events -> Vals]
    <3>1. CASE call.work
      BY <1>1, <1>9, <3>1, CommitType DEF LaunchReturn
    <3>2. CASE ~call.work
      BY <1>1, <1>9, <3>2 DEF LaunchReturn, gpuVars, TypeOK
    <3> QED BY <3>1, <3>2
  <2>3. in_flight_count' \in [Execs -> Nat] /\ call' \in CallRecord
    BY <1>1, <1>9, <2>1, NoCallType DEF LaunchReturn, Returned, TypeOK
  <2> QED BY <1>1, <1>9, <2>2, <2>3 DEF LaunchReturn, Returned, TypeOK, graphVars, refVars
<1>10. CASE LaunchFailEncode(l)
  <2>1. /\ cbs' \in [Launches -> Seq(CommandBuffer)]
        /\ queue' \in [Streams -> Seq(Launches \X Nat)]
        /\ signaled' \in [Events -> Vals]
    BY <1>1, <1>10 DEF LaunchFailEncode, gpuVars, TypeOK
  <2>2. icb' \in [Execs -> IcbRecord]
    BY <1>1, <1>10 DEF LaunchFailEncode, TypeOK
  <2> QED BY <1>1, <1>10, <2>1, <2>2, AbandonType DEF LaunchFailEncode
<1>11. CASE LaunchFailCommit(l)
  <2>1. \E cmds \in Seq(Command) : Commit(l, cmds)
    <3>1. CASE Encoding("icb", l) /\ Commit(l, icb[e].captured)
      <4>1. icb[e].captured \in Seq(Command)
        BY <1>2, <3>1 DEF Encoding, IcbRecord
      <4> QED BY <3>1, <4>1
    <3>2. CASE AtNode(l, {"mpsgraph"}) /\ Commit(l, <<CommandOf(n)>>)
      <4>1. <<CommandOf(n)>> \in Seq(Command)
        BY <1>3, <3>2 DEF AtNode
      <4> QED BY <3>2, <4>1
    <3>3. CASE Commit(l, call.open)
      BY <1>1, <3>3
    <3> QED BY <1>11, <3>1, <3>2, <3>3 DEF LaunchFailCommit, LaunchFailSegment
  <2>2. /\ cbs' \in [Launches -> Seq(CommandBuffer)]
        /\ queue' \in [Streams -> Seq(Launches \X Nat)]
        /\ signaled' \in [Events -> Vals]
    BY <1>1, <2>1, CommitType
  <2>3. icb' \in [Execs -> IcbRecord]
    <3>1. CASE UNCHANGED icb
      BY <1>1, <3>1 DEF TypeOK
    <3>2. CASE Encoding("icb", l) /\ icb' = [icb EXCEPT ![e] = IcbDone(@)]
      <4>1. IcbDone(icb[e]) \in IcbRecord
        BY <1>2, <3>2, IcbDoneType DEF Encoding
      <4> QED BY <1>1, <3>2, <4>1 DEF TypeOK
    <3> QED BY <1>11, <3>1, <3>2 DEF LaunchFailCommit
  <2> QED BY <1>1, <1>11, <2>2, <2>3, AbandonType DEF LaunchFailCommit
<1>12. CASE LaunchFailWait(l)
  <2>1. /\ cbs' \in [Launches -> Seq(CommandBuffer)]
        /\ queue' \in [Streams -> Seq(Launches \X Nat)]
        /\ signaled' \in [Events -> Vals]
    BY <1>1, <1>12 DEF LaunchFailWait, gpuVars, TypeOK
  <2>2. icb' \in [Execs -> IcbRecord]
    BY <1>1, <1>12 DEF LaunchFailWait, TypeOK
  <2> QED BY <1>1, <1>12, <2>1, <2>2, AbandonType DEF LaunchFailWait
<1>13. CASE SyncWait(l)
  <2>1. call' \in CallRecord
    <3> DEFINE err == call.err \/ cbs[l][call.i].st = "error"
               c1  == [call EXCEPT !.i = call.i + 1]
               c2  == [c1 EXCEPT !.err = err]
    <3>1. err \in BOOLEAN
      BY <1>1
    <3> HIDE DEF err
    <3>2. c1 \in CallRecord
      BY <1>1, CallUpdateIndex
    <3>3. c2 \in CallRecord
      BY <3>1, <3>2, CallUpdateErr
    <3>4. call' = c2
      BY <1>1, <1>13 DEF SyncWait, err
    <3> QED BY <3>3, <3>4
  <2> QED BY <1>1, <1>13, <2>1
          DEF SyncWait, TypeOK, graphVars, execVars, launchVars, gpuVars, refVars
<1>14. CASE SyncReturn(l)
  <2>1. e \in Execs /\ in_flight_count[e] \in Nat
    BY <1>1, <1>2, <1>14 DEF SyncReturn, Encoding, TypeOK
  <2>2. CountsDown(l) => in_flight_count[e] - 1 \in Nat
    BY <2>1 DEF CountsDown
  <2>3. in_flight_count' \in [Execs -> Nat]
    BY <1>1, <1>14, <2>1, <2>2 DEF SyncReturn, TypeOK
  <2> QED BY <1>1, <1>14, <2>3, NoCallType DEF SyncReturn, TypeOK, graphVars, gpuVars, refVars
<1> QED BY <1>4, <1>5, <1>6, <1>7, <1>8, <1>9, <1>10, <1>11, <1>12, <1>13, <1>14 DEF HostStep

(* The GPU changes the progress or the status of a queued command buffer.   *)
LEMMA GpuTypeStep ==
    ASSUME LaunchInv, NEW s \in Streams, GpuStep(s)
    PROVE  TypeOK'
<1> DEFINE l == HeadRef(s)[1]
           k == HeadRef(s)[2]
<1>1. queue[s] \in Seq(Launches \X Nat) /\ queue[s] # <<>>
  BY DEF LaunchInv, TypeOK, GpuStep, GpuExecute, GpuComplete, GpuFail
<1>2. l \in Launches /\ k \in DOMAIN cbs[l]
  <2>1. 1 \in DOMAIN queue[s] /\ HeadRef(s) \in Launches \X Nat
    BY <1>1 DEF HeadRef
  <2> QED BY <2>1 DEF LaunchInv, QueueConsistent, HeadRef
<1>3. cbs[l] \in Seq(CommandBuffer) /\ cbs[l][k] \in CommandBuffer
  <2>1. cbs[l] \in Seq(CommandBuffer)
    BY <1>2 DEF LaunchInv, TypeOK
  <2> QED BY <1>2, <2>1
<1>4. ASSUME NEW cb \in CommandBuffer, cbs' = [cbs EXCEPT ![l][k] = cb]
      PROVE  cbs' \in [Launches -> Seq(CommandBuffer)]
  <2>1. [cbs[l] EXCEPT ![k] = cb] \in Seq(CommandBuffer)
    BY <1>2, <1>3
  <2> QED BY <1>2, <1>4, <2>1 DEF LaunchInv, TypeOK
<1>5. CASE GpuExecute(s)
  <2> DEFINE pos == cbs[l][k].pos
             c   == cbs[l][k].cmds[pos + 1]
  <2>1. pos \in Nat /\ cbs[l][k].cmds \in Seq(Command)
    BY <1>3 DEF CommandBuffer
  <2>2. pos + 1 \in 1..Len(cbs[l][k].cmds)
    <3>1. pos < Len(cbs[l][k].cmds)
      BY <1>5 DEF GpuExecute, HeadBuffer
    <3>2. Len(cbs[l][k].cmds) \in Nat
      BY <2>1, SMTT(30)
    <3> DEFINE m == Len(cbs[l][k].cmds)
    <3>3. pos \in Nat /\ m \in Nat /\ pos < m
      BY <2>1, <3>1, <3>2
    <3> HIDE DEF pos, m
    <3>4. pos + 1 \in 1..m
      BY <3>3
    <3> QED BY <3>4 DEF m
  <2>3. c \in Command
    BY <2>1, <2>2
  <2>4. signaled' \in [Events -> Vals]
    BY <1>5, <2>3 DEF GpuExecute, HeadBuffer, Command, LaunchInv, TypeOK
  <2>5. [cbs[l][k] EXCEPT !.pos = pos + 1] \in CommandBuffer
    <3>1. pos + 1 \in Nat
      BY <2>1
    <3> HIDE DEF pos
    <3> QED BY <1>3, <3>1 DEF CommandBuffer
  <2>6. cbs' \in [Launches -> Seq(CommandBuffer)]
    BY <1>2, <1>3, <1>4, <1>5, <2>5 DEF GpuExecute, LaunchInv, TypeOK
  <2> QED BY <1>5, <2>4, <2>6
          DEF GpuExecute, LaunchInv, TypeOK, graphVars, execVars, launchVars, refVars
<1>6. ASSUME NEW st \in {"completed", "error"}, GpuEnd(s, st) PROVE TypeOK'
  <2>1. [cbs[l][k] EXCEPT !.st = st] \in CommandBuffer
    BY <1>3 DEF CommandBuffer
  <2>2. cbs' \in [Launches -> Seq(CommandBuffer)]
    BY <1>2, <1>3, <1>4, <1>6, <2>1 DEF GpuEnd, LaunchInv, TypeOK
  <2>3. queue' \in [Streams -> Seq(Launches \X Nat)]
    <3>1. Tail(queue[s]) \in Seq(Launches \X Nat)
      BY <1>1
    <3> QED BY <1>6, <3>1 DEF GpuEnd, LaunchInv, TypeOK
  <2> QED BY <1>6, <2>2, <2>3
          DEF GpuEnd, LaunchInv, TypeOK, graphVars, execVars, launchVars, refVars
<1> QED BY <1>5, <1>6 DEF GpuStep, GpuComplete, GpuFail

(* Every step keeps the types.                                              *)
LEMMA TypeStep ==
    ASSUME LaunchInv, [Next]_vars
    PROVE  TypeOK'
<1> USE DEF LaunchInv
<1>1. CASE UNCHANGED vars
  BY <1>1 DEF TypeOK, vars, graphVars, execVars, launchVars, gpuVars, refVars
<1>2. ASSUME NEW e \in Execs, NEW made \in BOOLEAN, Instantiate(e, made) PROVE TypeOK'
  <2>1. graph[e] \in Seq(Node)
    BY DEF TypeOK
  <2>2. IcbPlan(graph[e], made) \in IcbRecord
    BY <2>1, IcbPlanType
  <2>3. RetainNodes(ref_count, graph[e]) \in [Objects -> Int]
    BY <2>1, RetainNodesType DEF TypeOK
  <2> QED BY <1>2, <2>1, <2>2, <2>3
          DEF Instantiate, TypeOK, graphVars, launchVars, gpuVars
<1>3. ASSUME NEW e \in Execs, GraphDestroy(e) PROVE TypeOK'
  <2>1. ReleaseNodes(ref_count, graph[e]) \in [Objects -> Int]
    BY RetainNodesType DEF TypeOK
  <2> QED BY <1>3, <2>1 DEF GraphDestroy, TypeOK, execVars, launchVars, gpuVars
<1>4. ASSUME NEW o \in Objects, HandleDestroy(o) PROVE TypeOK'
  <2>1. <<o>> \in Seq(Objects) /\ ref_count \in [Objects -> Int]
    BY DEF TypeOK
  <2>2. Release(ref_count, <<o>>) \in [Objects -> Int]
    BY <2>1, RetainType
  <2> QED BY <1>4, <2>2 DEF HandleDestroy, TypeOK, graphVars, execVars, launchVars, gpuVars
<1>5. ASSUME NEW e \in Execs, ExecDestroy(e) PROVE TypeOK'
  <2>1. ReleaseNodes(ref_count, nodes[e]) \in [Objects -> Int]
    BY RetainNodesType DEF TypeOK
  <2> QED BY <1>5, <2>1 DEF ExecDestroy, TypeOK, graphVars, launchVars, gpuVars
<1>6. ASSUME NEW e \in Execs, Patch(e) PROVE TypeOK'
  <2>1. ASSUME NEW on \in BOOLEAN, SetOptimizationFlags(e, on) PROVE TypeOK'
    <3>1. icb[e] \in IcbRecord
      BY DEF TypeOK
    <3>2. [icb[e] EXCEPT !.enabled = on] \in IcbRecord
      BY <3>1, IcbUpdateEnabled
    <3> QED BY <2>1, <3>2 DEF SetOptimizationFlags, TypeOK, graphVars, launchVars, gpuVars, refVars
  <2>2. ASSUME NEW i \in DOMAIN nodes[e], NEW n \in Node, Patched(e, i, n) PROVE TypeOK'
    BY <2>2, PatchedType
  <2> QED BY <1>6, <2>1, <2>2, PatchForm
<1>7. ASSUME NEW e \in Execs, NEW s \in Streams, NEW l \in Launches, LaunchBegin(e, s, l)
      PROVE  TypeOK'
  <2> DEFINE op == IF UsesIcb(icb[e]) THEN "icb" ELSE "encode"
             c1 == [NoCall EXCEPT !.op = op]
             c2 == [c1 EXCEPT !.l = l]
             c3 == [c2 EXCEPT !.i = 1]
             c4 == [c3 EXCEPT !.work = (nodes[e] = <<>>)]
  <2>1. LaunchDiagnostics(icb[e]) \in IcbRecord
    <3>1. icb[e] \in IcbRecord
      BY DEF TypeOK
    <3> QED BY <3>1, LaunchDiagnosticsType
  <2>2. c1 \in CallRecord
    BY NoCallType, CallUpdateOp
  <2>3. c2 \in CallRecord
    BY <2>2, CallUpdateLaunch
  <2>4. c3 \in CallRecord
    BY <2>3, CallUpdateIndex
  <2>5. c4 \in CallRecord
    BY <2>4, CallUpdateWork
  <2>6. call' \in CallRecord
    BY <1>7, <2>5 DEF LaunchBegin
  <2> QED BY <1>7, <2>1, <2>6 DEF LaunchBegin, TypeOK, graphVars, gpuVars, refVars
<1>8. ASSUME NEW l \in Launches, HostStep(l) PROVE TypeOK'
  BY <1>8, HostTypeStep
<1>9. ASSUME NEW l \in Launches, SyncRejected(l) PROVE TypeOK'
  BY <1>9 DEF SyncRejected, TypeOK, graphVars, execVars, gpuVars, refVars
<1>10. ASSUME NEW l \in Launches, SyncBegin(l) PROVE TypeOK'
  <2> DEFINE c1 == [NoCall EXCEPT !.op = "sync"]
             c2 == [c1 EXCEPT !.l = l]
             c3 == [c2 EXCEPT !.i = 1]
  <2>1. c1 \in CallRecord
    BY NoCallType, CallUpdateOp
  <2>2. c2 \in CallRecord
    BY <2>1, CallUpdateLaunch
  <2>3. c3 \in CallRecord
    BY <2>2, CallUpdateIndex
  <2>4. call' \in CallRecord
    BY <1>10, <2>3 DEF SyncBegin
  <2> QED BY <1>10, <2>4 DEF SyncBegin, TypeOK, graphVars, execVars, launchVars, gpuVars, refVars
<1>11. ASSUME NEW l \in Launches, LaunchDestroy(l) PROVE TypeOK'
  <2>1. retained[l] \in Seq(Objects) /\ ref_count \in [Objects -> Int]
    BY DEF TypeOK
  <2>2. Release(ref_count, retained[l]) \in [Objects -> Int]
    BY <2>1, RetainType
  <2> QED BY <1>11, <2>2 DEF LaunchDestroy, TypeOK, graphVars, execVars, gpuVars
<1>12. ASSUME NEW s \in Streams, GpuStep(s) PROVE TypeOK'
  BY <1>12, GpuTypeStep
<1>13. CASE Quiet
  BY <1>1, <1>13 DEF Quiet
<1> QED BY <1>1, <1>2, <1>3, <1>4, <1>5, <1>6, <1>7, <1>8, <1>9, <1>10, <1>11, <1>12, <1>13
        DEF Next, CallerStep

-----------------------------------------------------------------------------
(* The indirect command buffer of an exec.                                  *)

LEMMA IcbStep ==
    ASSUME LaunchInv, [Next]_vars
    PROVE  IcbConsistent'
<1> USE DEF IcbConsistent
<1>0. TypeOK /\ IcbConsistent /\ CallConsistent
  BY DEF LaunchInv
<1>1. ASSUME UNCHANGED <<estate, nodes, icb>> PROVE IcbConsistent'
  BY <1>0, <1>1
<1>2. ASSUME NEW e \in Execs, NEW made \in BOOLEAN, Instantiate(e, made) PROVE IcbConsistent'
  <2>1. graph[e] \in Seq(Node)
    BY <1>0 DEF TypeOK
  <2>2. IcbPlan(graph[e], made).built => Len(graph[e]) = 1
    BY <2>1, IcbPlanType
  <2> QED BY <1>0, <1>2, <2>2 DEF Instantiate, TypeOK
<1>3. ASSUME NEW e \in Execs, ExecDestroy(e) PROVE IcbConsistent'
  BY <1>0, <1>3 DEF ExecDestroy, TypeOK
<1>4. ASSUME NEW e \in Execs, NEW i \in DOMAIN nodes[e], NEW n, Patched(e, i, n)
      PROVE  IcbConsistent'
  <2>1. nodes[e] \in Seq(Node)
    BY <1>0 DEF TypeOK
  <2>2. Len([nodes[e] EXCEPT ![i] = n]) = Len(nodes[e])
    BY <2>1
  <2> QED BY <1>0, <1>4, <2>2 DEF Patched, TypeOK
<1>5. ASSUME NEW e \in Execs, NEW on \in BOOLEAN, SetOptimizationFlags(e, on)
      PROVE  IcbConsistent'
  <2>1. icb[e] \in IcbRecord
    BY <1>0 DEF TypeOK
  <2>2. [icb[e] EXCEPT !.enabled = on].built = icb[e].built
    BY <2>1, IcbUpdateEnabled
  <2> QED BY <1>0, <1>5, <2>2 DEF SetOptimizationFlags, TypeOK
<1>6. ASSUME NEW e \in Execs, Patch(e) PROVE IcbConsistent'
  BY <1>0, <1>4, <1>5, <1>6, PatchForm
<1>7. ASSUME NEW e \in Execs, NEW s \in Streams, NEW l \in Launches, LaunchBegin(e, s, l)
      PROVE  IcbConsistent'
  <2>1. icb[e] \in IcbRecord
    BY <1>0 DEF TypeOK
  <2>2. LaunchDiagnostics(icb[e]).built = icb[e].built
    BY <2>1, LaunchDiagnosticsType
  <2> QED BY <1>0, <1>7, <2>2 DEF LaunchBegin, TypeOK
<1>8. ASSUME NEW e \in Execs, icb' = [icb EXCEPT ![e] = IcbDone(@)], UNCHANGED <<estate, nodes>>
      PROVE  IcbConsistent'
  <2>1. icb[e] \in IcbRecord
    BY <1>0 DEF TypeOK
  <2>2. IcbDone(icb[e]).built = icb[e].built
    BY <2>1, IcbDoneType
  <2> QED BY <1>0, <1>8, <2>2 DEF TypeOK
<1>9. CASE UNCHANGED vars
  BY <1>1, <1>9 DEF vars, execVars
<1>10. ASSUME NEW l \in Launches, HostStep(l) PROVE IcbConsistent'
  <2>1. CASE LaunchIcb(l) \/ LaunchFailCommit(l)
    <3>1. lexec[l] \in Execs
      BY <1>0, <2>1
         DEF LaunchIcb, LaunchFailCommit, LaunchFailSegment, AtNode, Encoding, CallConsistent
    <3> QED BY <1>1, <1>8, <2>1, <3>1 DEF LaunchIcb, LaunchFailCommit, Abandon
  <2> QED
    BY <1>1, <1>10, <2>1
       DEF HostStep, EncodeNode, EncodeMps, CommitBeforeMps, WaitBeforeMps, LaunchReturn,
           LaunchFailEncode, LaunchFailWait, Abandon, SyncWait, SyncReturn, execVars
<1>11. ASSUME NEW l \in Launches, SyncRejected(l) \/ SyncBegin(l) \/ LaunchDestroy(l)
       PROVE  IcbConsistent'
  BY <1>1, <1>11 DEF SyncRejected, SyncBegin, LaunchDestroy, execVars
<1>12. ASSUME NEW s \in Streams, GpuStep(s) PROVE IcbConsistent'
  BY <1>1, <1>12 DEF GpuStep, GpuExecute, GpuComplete, GpuFail, GpuEnd, execVars
<1>13. ASSUME NEW e \in Execs, GraphDestroy(e) PROVE IcbConsistent'
  BY <1>1, <1>13 DEF GraphDestroy, execVars
<1>14. ASSUME NEW o \in Objects, HandleDestroy(o) PROVE IcbConsistent'
  BY <1>1, <1>14 DEF HandleDestroy, execVars
<1> QED BY <1>2, <1>3, <1>6, <1>7, <1>9, <1>10, <1>11, <1>12, <1>13, <1>14
        DEF Next, CallerStep, Quiet

-----------------------------------------------------------------------------
(* The queues of the streams.                                               *)

LEMMA QueueStep ==
    ASSUME LaunchInv, [Next]_vars
    PROVE  QueueConsistent'
<1> USE DEF QueueConsistent
<1>0. TypeOK /\ QueueConsistent /\ CallConsistent
  BY DEF LaunchInv
<1>1. ASSUME UNCHANGED <<cbs, queue>> PROVE QueueConsistent'
  BY <1>0, <1>1
<1>2. ASSUME NEW l \in Launches, NEW cmds, Commit(l, cmds) PROVE QueueConsistent'
  <2> DEFINE cb   == [cmds |-> cmds, pos |-> 0, st |-> "committed"]
             item == <<l, Len(cbs[l]) + 1>>
  <2>1. cbs[l] \in Seq(CommandBuffer) /\ cbs' = [cbs EXCEPT ![l] = Append(cbs[l], cb)]
    BY <1>0, <1>2 DEF Commit, TypeOK
  <2>2. /\ DOMAIN Append(cbs[l], cb) = 1..Len(cbs[l]) + 1
        /\ DOMAIN cbs[l] = 1..Len(cbs[l]) /\ Len(cbs[l]) \in Nat
    BY <2>1
  <2> HIDE DEF cb
  <2>3. ASSUME NEW k \in Launches, NEW i \in DOMAIN cbs[k] PROVE i \in DOMAIN cbs'[k]
    BY <1>0, <2>1, <2>2 DEF TypeOK
  <2>4. Len(cbs[l]) + 1 \in DOMAIN cbs'[l]
    BY <1>0, <2>1, <2>2 DEF TypeOK
  <2>5. SUFFICES ASSUME NEW s \in Streams, NEW i \in DOMAIN queue'[s]
                 PROVE  queue'[s][i][2] \in DOMAIN cbs'[queue'[s][i][1]]
    OBVIOUS
  <2>6. queue[s] \in Seq(Launches \X Nat)
    BY <1>0 DEF TypeOK
  <2>7. \/ queue'[s] = queue[s]
        \/ queue'[s] = Append(queue[s], item)
    BY <1>0, <1>2 DEF Commit, TypeOK
  <2>8. \/ i \in DOMAIN queue[s] /\ queue'[s][i] = queue[s][i]
        \/ queue'[s][i] = item
    <3> HIDE DEF item
    <3>1. CASE queue'[s] = queue[s] BY <3>1
    <3>2. CASE queue'[s] = Append(queue[s], item)
      <4>1. i \in 1..Len(queue[s]) + 1 BY <2>6, <3>2
      <4> QED BY <2>6, <3>2, <4>1
    <3> QED BY <2>7, <3>1, <3>2
  <2>9. ASSUME i \in DOMAIN queue[s], queue'[s][i] = queue[s][i]
        PROVE  queue'[s][i][2] \in DOMAIN cbs'[queue'[s][i][1]]
    <3>1. queue[s][i] \in Launches \X Nat
      BY <2>6, <2>9
    <3>2. queue[s][i][2] \in DOMAIN cbs[queue[s][i][1]]
      BY <1>0, <2>9
    <3> QED BY <2>3, <2>9, <3>1, <3>2
  <2> QED BY <2>4, <2>8, <2>9
<1>3. ASSUME NEW l \in Launches, HostStep(l) PROVE QueueConsistent'
  <2>1. CASE \E cmds : Commit(l, cmds)
    BY <1>2, <2>1
  <2>2. CASE UNCHANGED <<cbs, queue>>
    BY <1>1, <2>2
  <2> QED BY <1>3, <2>1, <2>2
          DEF HostStep, LaunchIcb, EncodeNode, EncodeMps, CommitBeforeMps, WaitBeforeMps,
              LaunchReturn, LaunchFailEncode, LaunchFailCommit, LaunchFailSegment,
              LaunchFailWait, SyncWait, SyncReturn, gpuVars
<1>4. ASSUME NEW s \in Streams, GpuStep(s) PROVE QueueConsistent'
  <2> DEFINE l == HeadRef(s)[1]
             k == HeadRef(s)[2]
  <2>1. /\ queue[s] \in Seq(Launches \X Nat) /\ queue[s] # <<>>
        /\ queue \in [Streams -> Seq(Launches \X Nat)]
        /\ cbs \in [Launches -> Seq(CommandBuffer)]
    BY <1>0, <1>4 DEF TypeOK, GpuStep, GpuExecute, GpuComplete, GpuFail
  <2>2. \E cb : cbs' = [cbs EXCEPT ![l][k] = cb]
    BY <1>4 DEF GpuStep, GpuExecute, GpuComplete, GpuFail, GpuEnd
  <2>3. \A m \in Launches : DOMAIN cbs'[m] = DOMAIN cbs[m]
    BY <2>1, <2>2
  <2>4. queue' = queue \/ queue' = [queue EXCEPT ![s] = Tail(@)]
    BY <1>4 DEF GpuStep, GpuExecute, GpuComplete, GpuFail, GpuEnd
  <2>5. SUFFICES ASSUME NEW t \in Streams, NEW i \in DOMAIN queue'[t]
                 PROVE  queue'[t][i][2] \in DOMAIN cbs'[queue'[t][i][1]]
    OBVIOUS
  <2>6. \E j \in DOMAIN queue[t] : queue'[t][i] = queue[t][j]
    <3>1. CASE queue'[t] = queue[t]
      BY <3>1
    <3>2. CASE t = s /\ queue'[t] = Tail(queue[t])
      <4>1. i + 1 \in DOMAIN queue[t] /\ queue'[t][i] = queue[t][i + 1]
        BY <2>1, <3>2
      <4> QED BY <4>1
    <3> QED BY <2>1, <2>4, <3>1, <3>2
  <2>7. PICK j \in DOMAIN queue[t] : queue'[t][i] = queue[t][j]
    BY <2>6
  <2>8. queue[t][j] \in Launches \X Nat
    BY <2>1, <2>7
  <2>9. queue[t][j][2] \in DOMAIN cbs[queue[t][j][1]]
    BY <1>0, <2>7
  <2> QED BY <2>3, <2>7, <2>8, <2>9
<1>5. CASE UNCHANGED vars
  BY <1>1, <1>5 DEF vars, gpuVars
<1>6. ASSUME CallerStep PROVE UNCHANGED <<cbs, queue>>
  <2>1. ASSUME NEW e \in Execs, Patch(e) PROVE UNCHANGED <<cbs, queue>>
    BY <1>0, <2>1, PatchForm DEF Patched, SetOptimizationFlags, gpuVars
  <2>2. ASSUME NEW e \in Execs, NEW made \in BOOLEAN, Instantiate(e, made)
        PROVE  UNCHANGED <<cbs, queue>>
    BY <2>2 DEF Instantiate, gpuVars
  <2>3. ASSUME NEW e \in Execs, GraphDestroy(e) \/ ExecDestroy(e) PROVE UNCHANGED <<cbs, queue>>
    BY <2>3 DEF GraphDestroy, ExecDestroy, gpuVars
  <2>4. ASSUME NEW e \in Execs, NEW s \in Streams, NEW l \in Launches, LaunchBegin(e, s, l)
        PROVE  UNCHANGED <<cbs, queue>>
    BY <2>4 DEF LaunchBegin, gpuVars
  <2>5. ASSUME NEW l \in Launches, SyncRejected(l) \/ SyncBegin(l) \/ LaunchDestroy(l)
        PROVE  UNCHANGED <<cbs, queue>>
    BY <2>5 DEF SyncRejected, SyncBegin, LaunchDestroy, gpuVars
  <2>6. ASSUME NEW o \in Objects, HandleDestroy(o) PROVE UNCHANGED <<cbs, queue>>
    BY <2>6 DEF HandleDestroy, gpuVars
  <2> QED BY <1>6, <2>1, <2>2, <2>3, <2>4, <2>5, <2>6 DEF CallerStep
<1> QED BY <1>1, <1>3, <1>4, <1>5, <1>6 DEF Next, Quiet

-----------------------------------------------------------------------------
(* The call in progress.                                                    *)

LEMMA CallStep ==
    ASSUME LaunchInv, [Next]_vars
    PROVE  CallConsistent'
<1> USE DEF CallConsistent
<1>0. TypeOK /\ CallConsistent /\ call \in CallRecord
  BY DEF LaunchInv, TypeOK
<1>1. ASSUME UNCHANGED <<call, lstate, lexec, lstream, completed, estate, icb>>
      PROVE  CallConsistent'
  BY <1>0, <1>1
<1>2. ASSUME Idle, UNCHANGED <<call, lstate, lexec, lstream, completed>> PROVE CallConsistent'
  BY <1>0, <1>2 DEF Idle
<1>3. ASSUME NEW e \in Execs, Patch(e) PROVE CallConsistent'
  BY <1>0, <1>2, <1>3, PatchForm DEF Patched, SetOptimizationFlags, launchVars
<1>4. ASSUME NEW e \in Execs, NEW made \in BOOLEAN, Instantiate(e, made) PROVE CallConsistent'
  BY <1>2, <1>4 DEF Instantiate, launchVars
<1>5. ASSUME NEW e \in Execs, GraphDestroy(e) \/ ExecDestroy(e) PROVE CallConsistent'
  BY <1>2, <1>5 DEF GraphDestroy, ExecDestroy, launchVars
<1>6. ASSUME NEW o \in Objects, HandleDestroy(o) PROVE CallConsistent'
  BY <1>2, <1>6 DEF HandleDestroy, launchVars
<1>7. ASSUME NEW e \in Execs, NEW s \in Streams, NEW l \in Launches, LaunchBegin(e, s, l)
      PROVE  CallConsistent'
  <2>1. call'.op = (IF UsesIcb(icb[e]) THEN "icb" ELSE "encode") /\ call'.l = l
    BY <1>7 DEF LaunchBegin, NoCall
  <2>2. /\ lstate' = [lstate EXCEPT ![l] = "encoding"]
        /\ lexec' = [lexec EXCEPT ![l] = e]
        /\ lstream' = [lstream EXCEPT ![l] = s]
        /\ icb' = [icb EXCEPT ![e] = LaunchDiagnostics(icb[e])]
        /\ UNCHANGED <<estate, completed>>
        /\ estate[e] = "live" /\ lstate[l] = "none"
    BY <1>7 DEF LaunchBegin
  <2>3. icb[e] \in IcbRecord
    BY <1>0 DEF TypeOK
  <2>4. LaunchDiagnostics(icb[e]).built = icb[e].built
    BY <2>3, LaunchDiagnosticsType
  <2>5. call'.op = "icb" => icb'[lexec'[l]].built
    BY <1>0, <2>1, <2>2, <2>4 DEF UsesIcb, TypeOK
  <2>6. lstate'[l] = "encoding" /\ lexec'[l] = e /\ lstream'[l] = s /\ estate'[e] = "live"
    BY <1>0, <2>2 DEF TypeOK
  <2>7. ASSUME NEW k \in Launches
        PROVE  /\ lstate'[k] \in {"none", "encoding"} => ~completed'[k]
               /\ lstate'[k] \in {"encoding", "live"} => lexec'[k] \in Execs /\ lstream'[k] \in Streams
    BY <1>0, <2>2 DEF TypeOK
  <2> QED BY <2>1, <2>5, <2>6, <2>7
<1>8. ASSUME NEW l \in Launches, lstate[l] = "encoding", lstate' = [lstate EXCEPT ![l] = "live"],
             call' = NoCall, UNCHANGED <<lexec, lstream, completed>>
      PROVE  CallConsistent'
  BY <1>0, <1>8 DEF NoCall, TypeOK
<1>9. ASSUME NEW l \in Launches, Abandon(l) PROVE CallConsistent'
  BY <1>0, <1>9 DEF Abandon, NoCall, TypeOK
<1>10. ASSUME NEW l \in Launches, call.op # "idle", call.l = l,
              call'.l = l, call'.op \in {call.op, "encode", "midwait"},
              call.op = "sync" => call'.op = "sync",
              call'.op = "icb" => call.op = "icb",
              UNCHANGED <<lstate, lexec, lstream, completed, estate, icb>>
       PROVE  CallConsistent'
  <2>1. call.op \in {"icb", "encode", "midwait", "sync"}
    BY <1>0, <1>10 DEF CallRecord
  <2> QED BY <1>0, <1>10, <2>1
<1>11. ASSUME NEW l \in Launches, HostStep(l) PROVE CallConsistent'
  <2>1. CASE LaunchIcb(l) \/ LaunchReturn(l)
    BY <1>0, <1>8, <2>1 DEF LaunchIcb, LaunchReturn, Returned, Encoding
  <2>2. CASE LaunchFailEncode(l) \/ LaunchFailCommit(l) \/ LaunchFailWait(l)
    BY <1>9, <2>2 DEF LaunchFailEncode, LaunchFailCommit, LaunchFailWait
  <2>3. CASE EncodeNode(l)
    <3>1. call'.op = call.op /\ call'.l = call.l
      BY <1>0, <2>3 DEF EncodeNode, CallRecord
    <3> QED BY <1>10, <2>3, <3>1 DEF EncodeNode, AtNode, Encoding, execVars
  <2>4. CASE EncodeMps(l)
    <3>1. call'.op = call.op /\ call'.l = call.l
      BY <1>0, <2>4 DEF EncodeMps, CallRecord
    <3> QED BY <1>10, <2>4, <3>1 DEF EncodeMps, AtNode, Encoding, execVars
  <2>5. CASE CommitBeforeMps(l)
    <3>1. call'.op = "midwait" /\ call'.l = call.l
      BY <1>0, <2>5 DEF CommitBeforeMps, CallRecord
    <3> QED BY <1>10, <2>5, <3>1 DEF CommitBeforeMps, AtNode, Encoding, execVars, launchVars
  <2>6. CASE WaitBeforeMps(l)
    <3>1. call'.op = "encode" /\ call'.l = call.l
      BY <1>0, <2>6 DEF WaitBeforeMps, CallRecord
    <3> QED BY <1>10, <2>6, <3>1 DEF WaitBeforeMps, Encoding, execVars, launchVars
  <2>7. CASE SyncWait(l)
    <3>1. call'.op = call.op /\ call'.l = call.l
      BY <1>0, <2>7 DEF SyncWait, CallRecord
    <3> QED BY <1>10, <2>7, <3>1 DEF SyncWait, Encoding, execVars, launchVars
  <2>8. CASE SyncReturn(l)
    <3>1. /\ lstate[l] = "live" /\ call' = NoCall
          /\ completed' = [completed EXCEPT ![l] = TRUE]
          /\ UNCHANGED <<lstate, lexec, lstream>>
      BY <1>0, <2>8 DEF SyncReturn, Encoding
    <3> QED BY <1>0, <3>1 DEF NoCall, TypeOK
  <2> QED BY <1>11, <2>1, <2>2, <2>3, <2>4, <2>5, <2>6, <2>7, <2>8 DEF HostStep
<1>12. ASSUME NEW l \in Launches, SyncRejected(l) PROVE CallConsistent'
  BY <1>2, <1>12 DEF SyncRejected
<1>13. ASSUME NEW l \in Launches, SyncBegin(l) PROVE CallConsistent'
  <2>1. call'.op = "sync" /\ call'.l = l
    BY <1>13 DEF SyncBegin, NoCall
  <2> QED BY <1>0, <1>13, <2>1 DEF SyncBegin, launchVars
<1>14. ASSUME NEW l \in Launches, LaunchDestroy(l) PROVE CallConsistent'
  <2>1. /\ call'.op = "idle" /\ lstate' = [lstate EXCEPT ![l] = "destroyed"]
        /\ UNCHANGED <<lexec, lstream, completed>>
    BY <1>14 DEF LaunchDestroy, Idle
  <2> QED BY <1>0, <2>1 DEF TypeOK
<1>15. ASSUME NEW s \in Streams, GpuStep(s) PROVE CallConsistent'
  BY <1>1, <1>15 DEF GpuStep, GpuExecute, GpuComplete, GpuFail, GpuEnd, execVars, launchVars
<1>16. CASE UNCHANGED vars
  BY <1>1, <1>16 DEF vars, execVars, launchVars
<1> QED BY <1>3, <1>4, <1>5, <1>6, <1>7, <1>11, <1>12, <1>13, <1>14, <1>15, <1>16
        DEF Next, CallerStep, Quiet

-----------------------------------------------------------------------------
(* In-flight accounting.                                                    *)

InFlightOf(e) == {l \in Launches : lexec[l] = e /\ InFlight(l)}

LEMMA AccountingStep ==
    ASSUME LaunchInv, [Next]_vars
    PROVE  InFlightAccounting'
<1>0. TypeOK /\ CallConsistent
  BY DEF LaunchInv
<1>1. ASSUME NEW e \in Execs
      PROVE  IsFiniteSet(InFlightOf(e)) /\ in_flight_count[e] = Cardinality(InFlightOf(e))
  <2>1. InFlightOf(e) \in SUBSET Launches
    BY DEF InFlightOf
  <2> QED BY <2>1, FiniteAssumption, FS_Subset DEF LaunchInv, InFlightAccounting, InFlightOf
<1>2. ASSUME \A e \in Execs : in_flight_count'[e] = Cardinality(InFlightOf(e)')
      PROVE  InFlightAccounting'
  BY <1>2 DEF InFlightAccounting, InFlightOf
<1>3. ASSUME UNCHANGED in_flight_count, \A e \in Execs : InFlightOf(e)' = InFlightOf(e)
      PROVE  InFlightAccounting'
  BY <1>1, <1>2, <1>3
<1>4. ASSUME UNCHANGED <<in_flight_count, lstate, lexec, completed>> PROVE InFlightAccounting'
  BY <1>3, <1>4 DEF InFlightOf, InFlight
<1>5. ASSUME NEW l \in Launches, lstate[l] = "encoding", Returned(l), UNCHANGED <<lexec, completed>>
      PROVE  InFlightAccounting'
  <2>1. lexec[l] \in Execs /\ ~completed[l]
    BY <1>0, <1>5 DEF CallConsistent
  <2>2. ASSUME NEW e \in Execs PROVE in_flight_count'[e] = Cardinality(InFlightOf(e)')
    <3>1. CASE e = lexec[l]
      <4>1. InFlightOf(e)' = InFlightOf(e) \cup {l} /\ l \notin InFlightOf(e)
        BY <1>0, <1>5, <2>1, <3>1 DEF InFlightOf, InFlight, Returned, TypeOK
      <4>2. Cardinality(InFlightOf(e)') = Cardinality(InFlightOf(e)) + 1
        BY <1>1, <4>1, FS_AddElement
      <4> QED BY <1>0, <1>1, <1>5, <3>1, <4>2 DEF Returned, TypeOK
    <3>2. CASE e # lexec[l]
      <4>1. InFlightOf(e)' = InFlightOf(e)
        BY <1>0, <1>5, <3>2 DEF InFlightOf, InFlight, Returned, TypeOK
      <4> QED BY <1>0, <1>1, <1>5, <3>2, <4>1 DEF Returned, TypeOK
    <3> QED BY <3>1, <3>2
  <2> QED BY <1>2, <2>2
<1>6. ASSUME NEW l \in Launches, SyncReturn(l) PROVE InFlightAccounting'
  <2>1. /\ lstate[l] = "live" /\ lexec[l] \in Execs
        /\ in_flight_count' = [in_flight_count EXCEPT ![lexec[l]] = IF CountsDown(l) THEN @ - 1 ELSE @]
        /\ completed' = [completed EXCEPT ![l] = TRUE]
        /\ UNCHANGED <<lstate, lexec>>
    BY <1>0, <1>6 DEF SyncReturn, Encoding, CallConsistent
  <2>2. CASE completed[l]
    BY <1>0, <1>3, <2>1, <2>2 DEF CountsDown, InFlightOf, InFlight, TypeOK
  <2>3. CASE ~completed[l]
    <3>1. l \in InFlightOf(lexec[l])
      BY <2>1, <2>3 DEF InFlightOf, InFlight
    <3>2. in_flight_count[lexec[l]] > 0
      <4>1. Cardinality(InFlightOf(lexec[l])) # 0
        BY <1>1, <2>1, <3>1, FS_EmptySet
      <4> QED BY <1>0, <1>1, <2>1, <4>1 DEF TypeOK
    <3>3. CountsDown(l)
      BY <2>3, <3>2 DEF CountsDown
    <3>4. ASSUME NEW e \in Execs PROVE in_flight_count'[e] = Cardinality(InFlightOf(e)')
      <4>1. CASE e = lexec[l]
        <5>1. InFlightOf(e)' = InFlightOf(e) \ {l}
          BY <1>0, <2>1, <4>1 DEF InFlightOf, InFlight, TypeOK
        <5>2. Cardinality(InFlightOf(e)') = Cardinality(InFlightOf(e)) - 1
          BY <1>1, <3>1, <4>1, <5>1, FS_RemoveElement
        <5> QED BY <1>0, <1>1, <2>1, <3>3, <4>1, <5>2 DEF TypeOK
      <4>2. CASE e # lexec[l]
        <5>1. InFlightOf(e)' = InFlightOf(e)
          BY <1>0, <2>1, <4>2 DEF InFlightOf, InFlight, TypeOK
        <5> QED BY <1>0, <1>1, <2>1, <4>2, <5>1 DEF TypeOK
      <4> QED BY <4>1, <4>2
    <3> QED BY <1>2, <3>4
  <2> QED BY <2>2, <2>3
<1>7. ASSUME NEW l \in Launches, Abandon(l), lstate[l] = "encoding" PROVE InFlightAccounting'
  BY <1>0, <1>3, <1>7 DEF Abandon, InFlightOf, InFlight, TypeOK
<1>8. ASSUME NEW l \in Launches, HostStep(l) PROVE InFlightAccounting'
  <2>1. CASE LaunchIcb(l) \/ LaunchReturn(l)
    BY <1>0, <1>5, <2>1 DEF LaunchIcb, LaunchReturn, Encoding, CallConsistent
  <2>2. CASE LaunchFailEncode(l) \/ LaunchFailCommit(l) \/ LaunchFailWait(l)
    <3>1. lstate[l] = "encoding"
      BY <1>0, <2>2
         DEF LaunchFailEncode, LaunchFailCommit, LaunchFailSegment, LaunchFailWait, AtNode,
             Encoding, CallConsistent
    <3> QED BY <1>7, <2>2, <3>1 DEF LaunchFailEncode, LaunchFailCommit, LaunchFailWait
  <2>3. CASE SyncReturn(l)
    BY <1>6, <2>3
  <2>4. CASE UNCHANGED <<in_flight_count, lstate, lexec, completed>>
    BY <1>4, <2>4
  <2> QED BY <1>8, <2>1, <2>2, <2>3, <2>4
          DEF HostStep, EncodeNode, EncodeMps, CommitBeforeMps, WaitBeforeMps, SyncWait,
              execVars, launchVars
<1>9. ASSUME NEW e \in Execs, NEW s \in Streams, NEW l \in Launches, LaunchBegin(e, s, l)
      PROVE  InFlightAccounting'
  BY <1>0, <1>3, <1>9 DEF LaunchBegin, InFlightOf, InFlight, TypeOK
<1>10. ASSUME NEW l \in Launches, LaunchDestroy(l) PROVE InFlightAccounting'
  BY <1>0, <1>3, <1>10 DEF LaunchDestroy, InFlightOf, InFlight, TypeOK, execVars
<1>11. ASSUME NEW e \in Execs, Patch(e) PROVE InFlightAccounting'
  BY <1>0, <1>4, <1>11, PatchForm DEF Patched, SetOptimizationFlags, launchVars
<1>12. ASSUME NEW e \in Execs, NEW made \in BOOLEAN, Instantiate(e, made) PROVE InFlightAccounting'
  BY <1>4, <1>12 DEF Instantiate, launchVars
<1>13. ASSUME NEW e \in Execs, GraphDestroy(e) \/ ExecDestroy(e) PROVE InFlightAccounting'
  BY <1>4, <1>13 DEF GraphDestroy, ExecDestroy, launchVars, execVars
<1>14. ASSUME NEW o \in Objects, HandleDestroy(o) PROVE InFlightAccounting'
  BY <1>4, <1>14 DEF HandleDestroy, launchVars, execVars
<1>15. ASSUME NEW l \in Launches, SyncRejected(l) \/ SyncBegin(l) PROVE InFlightAccounting'
  BY <1>4, <1>15 DEF SyncRejected, SyncBegin, launchVars, execVars
<1>16. ASSUME NEW s \in Streams, GpuStep(s) PROVE InFlightAccounting'
  BY <1>4, <1>16 DEF GpuStep, GpuExecute, GpuComplete, GpuFail, GpuEnd, execVars, launchVars
<1>17. CASE UNCHANGED vars
  BY <1>4, <1>17 DEF vars, execVars, launchVars
<1> QED BY <1>8, <1>9, <1>10, <1>11, <1>12, <1>13, <1>14, <1>15, <1>16, <1>17
        DEF Next, CallerStep, Quiet

-----------------------------------------------------------------------------
(* The theorems.                                                            *)

(* The inductive invariant: types, the state a call in progress relies on,  *)
(* references of queues to command buffers, the shape of an exec with an    *)
(* indirect command buffer, and the accounting of launches in flight, hold  *)
(* whatever the caller, the allocator and the GPU do.                       *)
THEOREM LaunchInvariant == Spec => []LaunchInv
<1>1. LaunchInv /\ [Next]_vars => LaunchInv'
  <2> SUFFICES ASSUME LaunchInv, [Next]_vars PROVE LaunchInv'
    OBVIOUS
  <2> QED BY TypeStep, CallStep, QueueStep, IcbStep, AccountingStep DEF LaunchInv
<1> QED BY InitInv, <1>1, PTL DEF Spec

(* Every variable keeps its type: in particular the uint32_t                *)
(* in_flight_count never wraps below zero, however often launches are       *)
(* synchronised, overlap or fail.                                           *)
THEOREM TypeCorrect == Spec => []TypeOK
<1>1. LaunchInv => TypeOK
  BY DEF LaunchInv
<1> QED BY LaunchInvariant, <1>1, PTL

(* in_flight_count is exactly the number of launches returned to the caller *)
(* and not yet synchronised to the end, for any number of execs, launches   *)
(* and streams, also when launches of one exec overlap.                     *)
THEOREM InFlightCorrect == Spec => []InFlightAccounting
<1>1. LaunchInv => InFlightAccounting
  BY DEF LaunchInv
<1> QED BY LaunchInvariant, <1>1, PTL

-----------------------------------------------------------------------------
(* Diagnostics.                                                             *)

(* Diagnostics that account for every planned group, and name a reason when *)
(* one fell back.                                                           *)
Balanced(d) == d.used + d.fallback = d.planned /\ (d.reason # "none") = (d.fallback > 0)

(* Those of an exec without nodes are empty.                                *)
Empty(d) == d.planned = 0 => d.used = 0 /\ d.fallback = 0 /\ d.reason = "none"

(* Empty diagnostics stay so; a launch that does not use the indirect       *)
(* command buffer balances them before it encodes, one that does when it is *)
(* done, from whatever an earlier launch left.                              *)
LEMMA DiagnosticsBalance ==
    ASSUME NEW plan \in IcbRecord, Empty(plan)
    PROVE  /\ Empty(LaunchDiagnostics(plan)) /\ Empty(IcbDone(plan))
           /\ \A on \in BOOLEAN : Empty([plan EXCEPT !.enabled = on])
           /\ ~UsesIcb(plan) => Balanced(LaunchDiagnostics(plan))
           /\ Balanced(IcbDone(plan))
<1> DEFINE Diag(used, fallback, reason) ==
             [enabled |-> plan.enabled, planned |-> plan.planned, used |-> used,
              fallback |-> fallback, reason |-> reason, built |-> plan.built,
              captured |-> plan.captured]
<1>1. /\ plan.planned \in 0..1 /\ plan.used \in 0..1 /\ plan.fallback \in 0..1
      /\ plan = Diag(plan.used, plan.fallback, plan.reason)
  BY DEF IcbRecord
<1>2. IcbDone(plan) = Diag(plan.planned, 0, "none")
  <2>1. [Diag(plan.used, plan.fallback, plan.reason) EXCEPT !.used = plan.planned]
          = Diag(plan.planned, plan.fallback, plan.reason)
    OBVIOUS
  <2>2. [Diag(plan.planned, plan.fallback, plan.reason) EXCEPT !.fallback = 0]
          = Diag(plan.planned, 0, plan.reason)
    OBVIOUS
  <2>3. [Diag(plan.planned, 0, plan.reason) EXCEPT !.reason = "none"] = Diag(plan.planned, 0, "none")
    OBVIOUS
  <2>4. IcbDone(plan) = [[[plan EXCEPT !.used = plan.planned] EXCEPT !.fallback = 0] EXCEPT !.reason = "none"]
    BY DEF IcbDone
  <2> HIDE DEF Diag
  <2> QED BY <1>1, <2>1, <2>2, <2>3, <2>4
<1>3. Empty(IcbDone(plan)) /\ Balanced(IcbDone(plan))
  BY <1>1, <1>2 DEF Empty, Balanced
<1>4. \A on \in BOOLEAN : Empty([plan EXCEPT !.enabled = on])
  BY DEF Empty, IcbRecord
<1>5. CASE plan.planned = 0
  <2>1. LaunchDiagnostics(plan) = plan
    BY <1>5 DEF LaunchDiagnostics
  <2> QED BY <1>3, <1>4, <1>5, <2>1 DEF Empty, Balanced
<1>6. CASE plan.planned # 0 /\ ~plan.enabled
  <2>1. LaunchDiagnostics(plan) = Diag(0, plan.planned, "disabled")
    BY <1>1, <1>6 DEF LaunchDiagnostics
  <2>2. Empty(LaunchDiagnostics(plan)) /\ Balanced(LaunchDiagnostics(plan))
    BY <1>1, <1>6, <2>1 DEF Empty, Balanced
  <2> QED BY <1>3, <1>4, <2>2
<1>7. CASE plan.planned # 0 /\ plan.enabled /\ ~plan.built
  <2> DEFINE reason == IF plan.reason = "none" THEN "unsupported" ELSE plan.reason
  <2>1. LaunchDiagnostics(plan) = Diag(0, plan.planned, reason) /\ reason # "none"
    BY <1>1, <1>7 DEF LaunchDiagnostics
  <2> HIDE DEF reason
  <2>2. Empty(LaunchDiagnostics(plan)) /\ Balanced(LaunchDiagnostics(plan))
    BY <1>1, <1>7, <2>1 DEF Empty, Balanced
  <2> QED BY <1>3, <1>4, <2>2
<1>8. CASE plan.planned # 0 /\ plan.enabled /\ plan.built
  <2>1. UsesIcb(plan) /\ LaunchDiagnostics(plan) = Diag(0, 0, plan.reason)
    BY <1>1, <1>8 DEF LaunchDiagnostics, UsesIcb
  <2>2. Empty(LaunchDiagnostics(plan))
    BY <1>8, <2>1 DEF Empty
  <2> QED BY <1>3, <1>4, <2>1, <2>2
<1> QED BY <1>5, <1>6, <1>7, <1>8

(* The diagnostics of a plan just built for no nodes are empty.             *)
LEMMA PlanEmpty ==
    ASSUME NEW ns \in Seq(Node), NEW made \in BOOLEAN
    PROVE  Empty(IcbPlan(ns, made))
BY DEF Empty, IcbPlan, IcbReason

(* Diagnostics are balanced while a launch encodes without the indirect     *)
(* command buffer.                                                          *)
DiagnosticsKept ==
    /\ \A e \in Execs : Empty(icb[e])
    /\ call.op \in {"encode", "midwait"} => Balanced(icb[lexec[call.l]])

(* Each step keeps that.                                                    *)
LEMMA DiagnosticsStep ==
    ASSUME LaunchInv, DiagnosticsKept, [Next]_vars
    PROVE  DiagnosticsKept'
<1>0. TypeOK /\ CallConsistent
  BY DEF LaunchInv
<1>1. ASSUME UNCHANGED <<icb, lexec>>,
             \/ call'.op \notin {"encode", "midwait"}
             \/ call.op \in {"encode", "midwait"} /\ call'.l = call.l
      PROVE  DiagnosticsKept'
  BY <1>1 DEF DiagnosticsKept
<1>2. call' = NoCall => call'.op \notin {"encode", "midwait"}
  BY DEF NoCall
<1>3. Idle => call.op \notin {"encode", "midwait"}
  BY DEF Idle
<1>4. ASSUME NEW e \in Execs, NEW d, icb' = [icb EXCEPT ![e] = d], Empty(d),
             call'.op \notin {"encode", "midwait"}
      PROVE  DiagnosticsKept'
  BY <1>0, <1>4 DEF DiagnosticsKept, TypeOK
<1>5. ASSUME NEW e \in Execs, NEW made \in BOOLEAN, Instantiate(e, made) PROVE DiagnosticsKept'
  <2>1. Empty(IcbPlan(graph[e], made))
    BY <1>0, PlanEmpty DEF TypeOK
  <2> QED BY <1>3, <1>4, <1>5, <2>1 DEF Instantiate
<1>6. ASSUME NEW e \in Execs, GraphDestroy(e) \/ ExecDestroy(e) PROVE DiagnosticsKept'
  BY <1>1, <1>3, <1>6 DEF GraphDestroy, ExecDestroy, execVars, launchVars
<1>7. ASSUME NEW e \in Execs, Patch(e) PROVE DiagnosticsKept'
  <2>1. CASE \E on \in BOOLEAN : SetOptimizationFlags(e, on)
    <3>1. PICK on \in BOOLEAN : SetOptimizationFlags(e, on)
      BY <2>1
    <3>2. Empty([icb[e] EXCEPT !.enabled = on])
      BY <1>0, DiagnosticsBalance DEF DiagnosticsKept, TypeOK
    <3>3. icb' = [icb EXCEPT ![e] = [icb[e] EXCEPT !.enabled = on]] /\ call' = call /\ Idle
      BY <3>1 DEF SetOptimizationFlags
    <3> QED BY <1>3, <1>4, <3>2, <3>3
  <2>2. CASE \E i \in DOMAIN nodes[e], n \in Node : Idle /\ Patched(e, i, n)
    BY <1>1, <1>3, <2>2 DEF Patched, launchVars
  <2> QED BY <1>0, <1>1, <1>3, <1>7, <2>1, <2>2, PatchForm DEF Patched, launchVars
<1>8. ASSUME NEW e \in Execs, NEW s \in Streams, NEW l \in Launches, LaunchBegin(e, s, l)
      PROVE  DiagnosticsKept'
  <2>1. /\ icb' = [icb EXCEPT ![e] = LaunchDiagnostics(icb[e])] /\ lexec' = [lexec EXCEPT ![l] = e]
        /\ call'.op = (IF UsesIcb(icb[e]) THEN "icb" ELSE "encode") /\ call'.l = l
    BY <1>8 DEF LaunchBegin, NoCall
  <2>2. /\ Empty(LaunchDiagnostics(icb[e]))
        /\ ~UsesIcb(icb[e]) => Balanced(LaunchDiagnostics(icb[e]))
    BY <1>0, DiagnosticsBalance DEF DiagnosticsKept, TypeOK
  <2>3. icb'[lexec'[call'.l]] = LaunchDiagnostics(icb[e])
    BY <1>0, <2>1 DEF TypeOK
  <2>4. \A f \in Execs : Empty(icb'[f])
    BY <1>0, <2>1, <2>2 DEF DiagnosticsKept, TypeOK
  <2> QED BY <2>1, <2>2, <2>3, <2>4 DEF DiagnosticsKept
<1>9. ASSUME NEW l \in Launches, HostStep(l) PROVE DiagnosticsKept'
  <2>1. ASSUME icb' = [icb EXCEPT ![lexec[l]] = IcbDone(@)], Encoding("icb", l), call' = NoCall
        PROVE  DiagnosticsKept'
    <3>1. lexec[l] \in Execs
      BY <1>0, <2>1 DEF Encoding, CallConsistent
    <3>2. Empty(IcbDone(icb[lexec[l]]))
      BY <1>0, <3>1, DiagnosticsBalance DEF DiagnosticsKept, TypeOK
    <3> QED BY <1>2, <1>4, <2>1, <3>1, <3>2
  <2>2. CASE LaunchIcb(l)
    BY <2>1, <2>2 DEF LaunchIcb, Returned
  <2>3. CASE LaunchFailCommit(l)
    BY <1>1, <1>2, <2>1, <2>3 DEF LaunchFailCommit, Abandon
  <2>4. CASE LaunchReturn(l) \/ LaunchFailEncode(l) \/ LaunchFailWait(l) \/ SyncReturn(l)
    BY <1>1, <1>2, <2>4 DEF LaunchReturn, Returned, LaunchFailEncode, LaunchFailWait, Abandon, SyncReturn
  <2>5. CASE EncodeNode(l) \/ EncodeMps(l) \/ CommitBeforeMps(l) \/ WaitBeforeMps(l)
    <3>1. call.op \in {"encode", "midwait"} /\ UNCHANGED <<icb, lexec>>
      BY <2>5 DEF EncodeNode, EncodeMps, CommitBeforeMps, WaitBeforeMps, AtNode, Encoding,
                  execVars, launchVars
    <3>2. call'.l = call.l
      BY <1>0, <2>5 DEF EncodeNode, EncodeMps, CommitBeforeMps, WaitBeforeMps, TypeOK, CallRecord
    <3> QED BY <1>1, <3>1, <3>2
  <2>6. CASE SyncWait(l)
    <3>1. call.op = "sync" /\ UNCHANGED <<icb, lexec>>
      BY <2>6 DEF SyncWait, Encoding, execVars, launchVars
    <3>2. call'.op = call.op
      BY <1>0, <2>6 DEF SyncWait, TypeOK, CallRecord
    <3> QED BY <1>1, <3>1, <3>2
  <2> QED BY <1>9, <2>2, <2>3, <2>4, <2>5, <2>6 DEF HostStep
<1>10. ASSUME NEW l \in Launches, SyncRejected(l) \/ SyncBegin(l) \/ LaunchDestroy(l)
       PROVE  DiagnosticsKept'
  <2>1. CASE SyncBegin(l)
    <3>1. UNCHANGED <<icb, lexec>> /\ call'.op = "sync"
      BY <2>1 DEF SyncBegin, NoCall, execVars, launchVars
    <3> QED BY <1>1, <3>1
  <2>2. CASE SyncRejected(l)
    BY <1>1, <1>3, <2>2 DEF SyncRejected, execVars
  <2>3. CASE LaunchDestroy(l)
    BY <1>1, <1>3, <2>3 DEF LaunchDestroy, execVars
  <2> QED BY <1>10, <2>1, <2>2, <2>3
<1>11. ASSUME NEW s \in Streams, GpuStep(s) PROVE DiagnosticsKept'
  <2>1. UNCHANGED <<icb, lexec, call>>
    BY <1>11 DEF GpuStep, GpuExecute, GpuComplete, GpuFail, GpuEnd, execVars, launchVars
  <2> QED BY <1>1, <2>1
<1>12. ASSUME NEW o \in Objects, HandleDestroy(o) PROVE DiagnosticsKept'
  BY <1>1, <1>3, <1>12 DEF HandleDestroy, execVars, launchVars
<1>13. CASE UNCHANGED vars
  BY <1>1, <1>13 DEF vars, execVars, launchVars
<1> QED BY <1>5, <1>6, <1>7, <1>8, <1>9, <1>10, <1>11, <1>12, <1>13 DEF Next, CallerStep, Quiet

(* DiagnosticsBalanced: the diagnostics of a launch that returns account    *)
(* for every planned group and name a reason exactly when one fell back,    *)
(* whatever earlier launches, complete or failed half way, left in them.    *)
THEOREM DiagnosticsCorrect == Spec => DiagnosticsBalanced
<1>1. Init => DiagnosticsKept
  BY DEF Init, DiagnosticsKept, Empty, NoIcb, NoCall
<1>2. LaunchInv /\ DiagnosticsKept /\ [Next]_vars => DiagnosticsKept'
  BY DiagnosticsStep
<1>3. ASSUME LaunchInv, DiagnosticsKept, Next,
             NEW l \in Launches, lstate[l] = "encoding", lstate'[l] = "live"
      PROVE  Balanced(icb'[lexec[l]])
  <2>0. TypeOK /\ CallConsistent
    BY <1>3 DEF LaunchInv
  <2>1. ASSUME NEW k \in Launches, lstate' = [lstate EXCEPT ![k] = "live"]
        PROVE  k = l
    BY <1>3, <2>0, <2>1 DEF TypeOK
  <2>2. lexec[l] \in Execs
    BY <1>3, <2>0 DEF CallConsistent
  <2>3. ASSUME NEW k \in Launches, LaunchIcb(k) PROVE Balanced(icb'[lexec[l]])
    <3>1. k = l /\ icb' = [icb EXCEPT ![lexec[k]] = IcbDone(@)]
      BY <2>1, <2>3 DEF LaunchIcb, Returned
    <3>2. Balanced(IcbDone(icb[lexec[l]]))
      BY <1>3, <2>0, <2>2, DiagnosticsBalance DEF DiagnosticsKept, TypeOK
    <3> QED BY <2>0, <2>2, <3>1, <3>2 DEF TypeOK
  <2>4. ASSUME NEW k \in Launches, LaunchReturn(k) PROVE Balanced(icb'[lexec[l]])
    <3>1. k = l /\ icb' = icb /\ call.op = "encode" /\ call.l = k
      BY <2>1, <2>4 DEF LaunchReturn, Returned, Encoding
    <3> QED BY <1>3, <3>1 DEF DiagnosticsKept
  <2>5. ASSUME lstate' = lstate PROVE FALSE
    BY <1>3, <2>5
  <2>6. ASSUME NEW k \in Launches, NEW st \in {"encoding", "failed", "destroyed"},
               lstate' = [lstate EXCEPT ![k] = st]
        PROVE  FALSE
    BY <1>3, <2>0, <2>6 DEF TypeOK
  <2>7. ASSUME NEW k \in Launches, HostStep(k) PROVE Balanced(icb'[lexec[l]])
    BY <2>3, <2>4, <2>5, <2>6, <2>7
    DEF HostStep, EncodeNode, EncodeMps, CommitBeforeMps, WaitBeforeMps, LaunchFailEncode,
        LaunchFailCommit, LaunchFailWait, Abandon, SyncWait, SyncReturn, launchVars
  <2>8. ASSUME NEW e \in Execs, Patch(e) PROVE FALSE
    BY <2>0, <2>5, <2>8, PatchForm DEF SetOptimizationFlags, Patched, launchVars
  <2>9. ASSUME NEW e \in Execs, NEW made \in BOOLEAN, Instantiate(e, made) PROVE FALSE
    BY <2>5, <2>9 DEF Instantiate, launchVars
  <2>10. ASSUME NEW e \in Execs, GraphDestroy(e) \/ ExecDestroy(e) PROVE FALSE
    BY <2>5, <2>10 DEF GraphDestroy, ExecDestroy, launchVars
  <2>11. ASSUME NEW e \in Execs, NEW s \in Streams, NEW k \in Launches, LaunchBegin(e, s, k)
         PROVE  FALSE
    BY <2>6, <2>11 DEF LaunchBegin
  <2>12. ASSUME NEW k \in Launches, SyncRejected(k) \/ SyncBegin(k) \/ LaunchDestroy(k) PROVE FALSE
    BY <2>5, <2>6, <2>12 DEF SyncRejected, SyncBegin, LaunchDestroy, launchVars
  <2>13. ASSUME NEW o \in Objects, HandleDestroy(o) PROVE FALSE
    BY <2>5, <2>13 DEF HandleDestroy, launchVars
  <2>14. ASSUME NEW s \in Streams, GpuStep(s) PROVE FALSE
    BY <2>5, <2>14 DEF GpuStep, GpuExecute, GpuComplete, GpuFail, GpuEnd, launchVars
  <2>15. CASE Quiet
    BY <2>5, <2>15 DEF Quiet, vars, launchVars
  <2> QED BY <1>3, <2>7, <2>8, <2>9, <2>10, <2>11, <2>12, <2>13, <2>14, <2>15
          DEF Next, CallerStep
<1>4. LaunchInv /\ DiagnosticsKept /\ [Next]_vars =>
        [\A l \in Launches : lstate[l] = "encoding" /\ lstate'[l] = "live" =>
            LET d == icb'[lexec[l]] IN
            /\ d.used + d.fallback = d.planned
            /\ (d.reason # "none") = (d.fallback > 0)]_vars
  BY <1>3 DEF Balanced
<1> QED BY <1>1, <1>2, <1>4, LaunchInvariant, PTL DEF Spec, DiagnosticsBalanced

-----------------------------------------------------------------------------
(* What mgLaunchSynchronize and the patch calls promise about the GPU: a    *)
(* synchronisation reports what happened to every command buffer, and a     *)
(* patch never meets a launch the GPU has not finished.                     *)

(* The command buffer a queue entry names.                                  *)
CbAt(c, item) == c[item[1]][item[2]]

(* What is queued has not ended.                                            *)
QueuePending ==
    \A s \in Streams : \A x \in DOMAIN queue[s] : CbAt(cbs, queue[s][x]).st = "committed"

(* No command buffer is queued twice, on one stream or on two.              *)
QueueDistinct ==
    \A s, t \in Streams : \A x \in DOMAIN queue[s], y \in DOMAIN queue[t] :
        queue[s][x] = queue[t][y] => s = t /\ x = y

(* A synchronisation has seen the end of the command buffers it passed, and *)
(* knows whether one of them failed.                                        *)
SyncProgress ==
    call.op = "sync" =>
        /\ \A k \in DOMAIN cbs[call.l] : k < call.i => Finished(cbs[call.l][k])
        /\ call.err <=> \E k \in DOMAIN cbs[call.l] : k < call.i /\ cbs[call.l][k].st = "error"

(* Only launches that were returned are answered.                           *)
AnsweredReturned ==
    \A l \in Launches : completed[l] \/ report[l] # "none" => lstate[l] \in {"live", "destroyed"}

(* The inductive invariant behind SyncReportsFaithfully.                    *)
SyncInv ==
    LaunchInv /\ QueuePending /\ QueueDistinct /\ SyncProgress /\ AnsweredReturned
      /\ SyncReportsFaithfully

(* What a step leaves as it is: the number of command buffers of a launch   *)
(* that is not encoding, and the status of one that has ended.              *)
Settled ==
    \A l \in Launches :
        /\ lstate[l] # "encoding" => DOMAIN cbs'[l] = DOMAIN cbs[l]
        /\ \A k \in DOMAIN cbs[l] :
              /\ k \in DOMAIN cbs'[l]
              /\ Finished(cbs[l][k]) => cbs'[l][k].st = cbs[l][k].st

-----------------------------------------------------------------------------

(* A step leaves the command buffers alone, or commits one for the launch   *)
(* being encoded, or is a step of the GPU.                                  *)
LEMMA QueueForm ==
    ASSUME LaunchInv, [Next]_vars
    PROVE  \/ UNCHANGED <<cbs, queue>>
           \/ \E l \in Launches : \E cmds : Commit(l, cmds) /\ lstate[l] = "encoding" /\ lstream[l] \in Streams
           \/ \E s \in Streams : GpuStep(s)
<1>0. TypeOK /\ CallConsistent
  BY DEF LaunchInv
<1>1. ASSUME NEW l \in Launches, HostStep(l)
      PROVE  \/ UNCHANGED <<cbs, queue>>
             \/ \E cmds : Commit(l, cmds) /\ lstate[l] = "encoding" /\ lstream[l] \in Streams
  <2>1. CASE UNCHANGED <<cbs, queue>>
    BY <2>1
  <2>2. CASE \E cmds : Commit(l, cmds) /\ call.l = l /\ call.op \in {"icb", "encode", "midwait"}
    BY <1>0, <2>2 DEF CallConsistent
  <2> QED BY <1>1, <2>1, <2>2
          DEF HostStep, LaunchIcb, EncodeNode, EncodeMps, CommitBeforeMps, WaitBeforeMps,
              LaunchReturn, LaunchFailEncode, LaunchFailCommit, LaunchFailSegment,
              LaunchFailWait, SyncWait, SyncReturn, gpuVars, AtNode, Encoding
<1>2. CASE UNCHANGED vars
  BY <1>2 DEF vars, gpuVars
<1>3. ASSUME CallerStep PROVE UNCHANGED <<cbs, queue>>
  <2>1. ASSUME NEW e \in Execs, Patch(e) PROVE UNCHANGED <<cbs, queue>>
    BY <1>0, <2>1, PatchForm DEF Patched, SetOptimizationFlags, gpuVars
  <2>2. ASSUME NEW e \in Execs, NEW made \in BOOLEAN, Instantiate(e, made)
        PROVE  UNCHANGED <<cbs, queue>>
    BY <2>2 DEF Instantiate, gpuVars
  <2>3. ASSUME NEW e \in Execs, GraphDestroy(e) \/ ExecDestroy(e) PROVE UNCHANGED <<cbs, queue>>
    BY <2>3 DEF GraphDestroy, ExecDestroy, gpuVars
  <2>4. ASSUME NEW e \in Execs, NEW s \in Streams, NEW l \in Launches, LaunchBegin(e, s, l)
        PROVE  UNCHANGED <<cbs, queue>>
    BY <2>4 DEF LaunchBegin, gpuVars
  <2>5. ASSUME NEW l \in Launches, SyncRejected(l) \/ SyncBegin(l) \/ LaunchDestroy(l)
        PROVE  UNCHANGED <<cbs, queue>>
    BY <2>5 DEF SyncRejected, SyncBegin, LaunchDestroy, gpuVars
  <2>6. ASSUME NEW o \in Objects, HandleDestroy(o) PROVE UNCHANGED <<cbs, queue>>
    BY <2>6 DEF HandleDestroy, gpuVars
  <2> QED BY <1>3, <2>1, <2>2, <2>3, <2>4, <2>5, <2>6 DEF CallerStep
<1> QED BY <1>1, <1>2, <1>3 DEF Next, Quiet

(* A commit adds a new command buffer to one launch and one queue.          *)
LEMMA CommitSettles ==
    ASSUME LaunchInv, QueuePending, QueueDistinct,
           NEW l \in Launches, NEW cmds, Commit(l, cmds), lstate[l] = "encoding", lstream[l] \in Streams
    PROVE  Settled /\ QueuePending' /\ QueueDistinct'
<1> DEFINE cb   == [cmds |-> cmds, pos |-> 0, st |-> "committed"]
           item == <<l, Len(cbs[l]) + 1>>
<1>1. /\ cbs \in [Launches -> Seq(CommandBuffer)] /\ queue \in [Streams -> Seq(Launches \X Nat)]
      /\ QueueConsistent
  BY DEF LaunchInv, TypeOK
<1>2. cbs' = [cbs EXCEPT ![l] = Append(cbs[l], cb)] /\ cb.st = "committed"
  BY DEF Commit
<1>3. /\ DOMAIN Append(cbs[l], cb) = 1..Len(cbs[l]) + 1
      /\ DOMAIN cbs[l] = 1..Len(cbs[l]) /\ Len(cbs[l]) \in Nat
      /\ Append(cbs[l], cb)[Len(cbs[l]) + 1] = cb
      /\ \A k \in 1..Len(cbs[l]) : Append(cbs[l], cb)[k] = cbs[l][k]
  BY <1>1
<1> HIDE DEF cb
<1>4. ASSUME NEW m \in Launches, NEW k \in DOMAIN cbs[m]
      PROVE  k \in DOMAIN cbs'[m] /\ cbs'[m][k] = cbs[m][k]
  BY <1>1, <1>2, <1>3
<1>5. cbs'[l][Len(cbs[l]) + 1] = cb
  BY <1>1, <1>2, <1>3
<1>6. Settled
  <2>1. \A m \in Launches : lstate[m] # "encoding" => cbs'[m] = cbs[m]
    BY <1>1, <1>2
  <2> QED BY <1>4, <2>1 DEF Settled
<1>7. ASSUME NEW s \in Streams, NEW x \in DOMAIN queue[s]
      PROVE  /\ queue[s][x] \in Launches \X Nat /\ queue[s][x] # item
             /\ CbAt(cbs', queue[s][x]).st = "committed"
  <2>1. queue[s][x] \in Launches \X Nat
    BY <1>1
  <2>2. queue[s][x][2] \in DOMAIN cbs[queue[s][x][1]]
    BY <1>1 DEF QueueConsistent
  <2>3. CbAt(cbs, queue[s][x]).st = "committed"
    BY DEF QueuePending
  <2>4. CbAt(cbs', queue[s][x]) = CbAt(cbs, queue[s][x])
    BY <1>4, <2>1, <2>2 DEF CbAt
  <2>5. ~(queue[s][x][1] = l /\ queue[s][x][2] = Len(cbs[l]) + 1)
    BY <1>3, <2>2
  <2> QED BY <2>1, <2>3, <2>4, <2>5
<1>8. ASSUME NEW s \in Streams
      PROVE  \/ queue'[s] = queue[s] /\ s # lstream[l]
             \/ queue'[s] = Append(queue[s], item) /\ s = lstream[l]
  BY <1>1 DEF Commit
<1>9. ASSUME NEW s \in Streams, NEW x \in DOMAIN queue'[s]
      PROVE  \/ x \in DOMAIN queue[s] /\ queue'[s][x] = queue[s][x]
             \/ x = Len(queue[s]) + 1 /\ s = lstream[l] /\ queue'[s][x] = item
  <2> HIDE DEF item
  <2>1. queue[s] \in Seq(Launches \X Nat)
    BY <1>1
  <2>2. CASE queue'[s] = queue[s]
    BY <2>2
  <2>3. CASE queue'[s] = Append(queue[s], item) /\ s = lstream[l]
    <3>1. x \in 1..Len(queue[s]) + 1
      BY <2>1, <2>3
    <3> QED BY <2>1, <2>3, <3>1
  <2> QED BY <1>8, <2>2, <2>3
<1>10. CbAt(cbs', item).st = "committed"
  BY <1>2, <1>5 DEF CbAt
<1> HIDE DEF item
<1>11. QueuePending'
  <2> SUFFICES ASSUME NEW s \in Streams, NEW x \in DOMAIN queue'[s]
               PROVE  CbAt(cbs', queue'[s][x]).st = "committed"
    BY DEF QueuePending
  <2> QED BY <1>7, <1>9, <1>10
<1>12. QueueDistinct'
  <2> SUFFICES ASSUME NEW s \in Streams, NEW t \in Streams,
                      NEW x \in DOMAIN queue'[s], NEW y \in DOMAIN queue'[t],
                      queue'[s][x] = queue'[t][y]
               PROVE  s = t /\ x = y
    BY DEF QueueDistinct
  <2>1. CASE queue'[s][x] = item
    <3>1. x = Len(queue[s]) + 1 /\ s = lstream[l]
      BY <1>7, <1>9, <2>1
    <3>2. y = Len(queue[t]) + 1 /\ t = lstream[l]
      BY <1>7, <1>9, <2>1, ZenonT(40)
    <3> QED BY <3>1, <3>2
  <2>2. CASE queue'[s][x] # item
    BY <1>9, <2>2 DEF QueueDistinct
  <2> QED BY <2>1, <2>2
<1> QED BY <1>6, <1>11, <1>12

(* The GPU touches the head of one queue, which has not ended and is in no  *)
(* other place.                                                             *)
LEMMA GpuSettles ==
    ASSUME LaunchInv, QueuePending, QueueDistinct, NEW s \in Streams, GpuStep(s)
    PROVE  Settled /\ QueuePending' /\ QueueDistinct'
<1> DEFINE l == HeadRef(s)[1]
           k == HeadRef(s)[2]
<1>1. /\ cbs \in [Launches -> Seq(CommandBuffer)] /\ queue \in [Streams -> Seq(Launches \X Nat)]
      /\ QueueConsistent
  BY DEF LaunchInv, TypeOK
<1>2. queue[s] # <<>> /\ queue[s] \in Seq(Launches \X Nat) /\ 1 \in DOMAIN queue[s]
  <2>1. queue[s] # <<>>
    BY Zenon DEF GpuStep, GpuExecute, GpuComplete, GpuFail
  <2>2. queue[s] \in Seq(Launches \X Nat)
    BY <1>1
  <2> QED BY <2>1, <2>2
<1>3. HeadRef(s) \in Launches \X Nat /\ l \in Launches /\ k \in DOMAIN cbs[l]
      /\ HeadRef(s) = <<l, k>>
  BY <1>1, <1>2 DEF HeadRef, QueueConsistent
<1>4. cbs[l][k].st = "committed"
  BY <1>2 DEF QueuePending, CbAt, HeadRef
<1>5. PICK cb : /\ cbs' = [cbs EXCEPT ![l] = [cbs[l] EXCEPT ![k] = cb]]
                /\ \/ queue' = queue /\ cb.st = "committed"
                   \/ queue' = [queue EXCEPT ![s] = Tail(@)]
  <2>1. cbs[l][k] \in CommandBuffer
    BY <1>1, <1>3
  <2>2. CASE GpuExecute(s)
    <3>1. /\ cbs' = [cbs EXCEPT ![l] = [cbs[l] EXCEPT ![k] = [cbs[l][k] EXCEPT !.pos = @ + 1]]]
          /\ queue' = queue
      BY <2>2 DEF GpuExecute
    <3>2. [cbs[l][k] EXCEPT !.pos = @ + 1].st = "committed"
      BY <1>4, <2>1 DEF CommandBuffer
    <3> QED BY <3>1, <3>2
  <2>3. ASSUME NEW st, GpuEnd(s, st)
        PROVE  /\ cbs' = [cbs EXCEPT ![l] = [cbs[l] EXCEPT ![k] = [cbs[l][k] EXCEPT !.st = st]]]
               /\ queue' = [queue EXCEPT ![s] = Tail(@)]
    BY <2>3 DEF GpuEnd
  <2> QED BY <2>2, <2>3 DEF GpuStep, GpuComplete, GpuFail
<1> HIDE DEF l, k
<1>6. ASSUME NEW m \in Launches
      PROVE  /\ DOMAIN cbs'[m] = DOMAIN cbs[m]
             /\ \A n \in DOMAIN cbs[m] :
                   cbs'[m][n] = IF m = l /\ n = k THEN cb ELSE cbs[m][n]
  BY <1>1, <1>3, <1>5
<1>7. Settled
  BY <1>4, <1>6 DEF Settled, Finished
<1>8. ASSUME NEW t \in Streams, NEW x \in DOMAIN queue[t]
      PROVE  /\ queue[t][x] \in Launches \X Nat
             /\ queue[t][x] # HeadRef(s) => CbAt(cbs', queue[t][x]).st = "committed"
  <2>1. queue[t][x] \in Launches \X Nat
    BY <1>1
  <2>2. queue[t][x][2] \in DOMAIN cbs[queue[t][x][1]]
    BY <1>1 DEF QueueConsistent
  <2>3. CbAt(cbs, queue[t][x]).st = "committed"
    BY DEF QueuePending
  <2>4. queue[t][x] # HeadRef(s) => ~(queue[t][x][1] = l /\ queue[t][x][2] = k)
    BY <1>3, <2>1
  <2> QED BY <1>6, <2>1, <2>2, <2>3, <2>4 DEF CbAt
<1>9. CASE queue' = queue /\ cb.st = "committed"
  <2>1. CbAt(cbs', HeadRef(s)).st = "committed"
    BY <1>3, <1>6, <1>9 DEF CbAt
  <2>2. QueuePending'
    BY <1>8, <1>9, <2>1 DEF QueuePending
  <2>3. QueueDistinct'
    BY <1>9 DEF QueueDistinct
  <2> QED BY <1>7, <2>2, <2>3
<1>10. CASE queue' = [queue EXCEPT ![s] = Tail(@)]
  <2> DEFINE Was(t, x) == IF t = s THEN x + 1 ELSE x
  <2>1. ASSUME NEW t \in Streams, NEW x \in DOMAIN queue'[t]
        PROVE  /\ x \in Nat /\ Was(t, x) \in DOMAIN queue[t] /\ queue'[t][x] = queue[t][Was(t, x)]
               /\ queue'[t][x] # HeadRef(s)
    <3>1. queue[t] \in Seq(Launches \X Nat)
      BY <1>1
    <3>2. CASE t = s
      <4>1. queue'[t] = Tail(queue[t])
        BY <1>1, <1>10, <3>2
      <4>2. x \in Nat /\ x + 1 \in DOMAIN queue[t] /\ queue'[t][x] = queue[t][x + 1] /\ x + 1 # 1
        BY <1>2, <3>1, <3>2, <4>1
      <4>3. queue[t][x + 1] # queue[s][1]
        BY <1>2, <3>2, <4>2 DEF QueueDistinct
      <4> QED BY <3>2, <4>2, <4>3 DEF HeadRef
    <3>3. CASE t # s
      <4>1. queue'[t] = queue[t]
        BY <1>1, <1>10, <3>3
      <4>2. x \in Nat
        BY <3>1, <4>1
      <4>3. queue[t][x] # queue[s][1]
        BY <1>2, <3>3, <4>1 DEF QueueDistinct
      <4> QED BY <3>3, <4>1, <4>2, <4>3 DEF HeadRef
    <3> QED BY <3>2, <3>3
  <2>2. QueuePending'
    <3> SUFFICES ASSUME NEW t \in Streams, NEW x \in DOMAIN queue'[t]
                 PROVE  CbAt(cbs', queue'[t][x]).st = "committed"
      BY DEF QueuePending
    <3> HIDE DEF Was
    <3>1. PICK y \in DOMAIN queue[t] : queue'[t][x] = queue[t][y] /\ queue[t][y] # HeadRef(s)
      BY <2>1
    <3> QED BY <1>8, <3>1
  <2>3. QueueDistinct'
    <3> SUFFICES ASSUME NEW t \in Streams, NEW u \in Streams,
                        NEW x \in DOMAIN queue'[t], NEW y \in DOMAIN queue'[u],
                        queue'[t][x] = queue'[u][y]
                 PROVE  t = u /\ x = y
      BY DEF QueueDistinct
    <3>1. t = u /\ Was(t, x) = Was(u, y)
      <4> HIDE DEF Was
      <4> QED BY <2>1 DEF QueueDistinct
    <3> QED BY <2>1, <3>1
  <2> QED BY <1>7, <2>2, <2>3
<1> QED BY <1>5, <1>9, <1>10

(* So no step changes a command buffer that has ended, or adds one to a     *)
(* launch that was returned.                                                *)
LEMMA SettledStep ==
    ASSUME LaunchInv, QueuePending, QueueDistinct, [Next]_vars
    PROVE  Settled /\ QueuePending' /\ QueueDistinct'
<1>1. CASE UNCHANGED <<cbs, queue>>
  BY <1>1 DEF Settled, QueuePending, QueueDistinct
<1> QED BY <1>1, QueueForm, CommitSettles, GpuSettles

-----------------------------------------------------------------------------

(* What was reported stays true while no new report is made.                *)
LEMMA ReportsKept ==
    ASSUME SyncInv, Settled, UNCHANGED <<completed, report>>
    PROVE  SyncReportsFaithfully'
<1> SUFFICES ASSUME NEW l \in Launches
             PROVE  /\ completed[l] => AllFinished(l)'
                    /\ report[l] = "ok" => \A k \in DOMAIN cbs'[l] : cbs'[l][k].st = "completed"
                    /\ report[l] = "backend_error" => \E k \in DOMAIN cbs'[l] : cbs'[l][k].st = "error"
  BY DEF SyncReportsFaithfully
<1>1. completed[l] \/ report[l] # "none" => DOMAIN cbs'[l] = DOMAIN cbs[l]
  BY DEF SyncInv, AnsweredReturned, Settled
<1>2. \A k \in DOMAIN cbs[l] : k \in DOMAIN cbs'[l]
                               /\ (Finished(cbs[l][k]) => cbs'[l][k].st = cbs[l][k].st)
  BY DEF Settled
<1>3. /\ completed[l] => AllFinished(l)
      /\ report[l] = "ok" => \A k \in DOMAIN cbs[l] : cbs[l][k].st = "completed"
      /\ report[l] = "backend_error" => \E k \in DOMAIN cbs[l] : cbs[l][k].st = "error"
  BY DEF SyncInv, SyncReportsFaithfully
<1>4. completed[l] => AllFinished(l)'
  BY <1>1, <1>2, <1>3 DEF AllFinished, Finished
<1>5. report[l] = "ok" => \A k \in DOMAIN cbs'[l] : cbs'[l][k].st = "completed"
  BY <1>1, <1>2, <1>3 DEF Finished
<1>6. report[l] = "backend_error" => \E k \in DOMAIN cbs'[l] : cbs'[l][k].st = "error"
  BY <1>2, <1>3 DEF Finished
<1> QED BY <1>4, <1>5, <1>6

(* What a synchronisation in progress has seen stays true.                  *)
LEMMA ProgressKept ==
    ASSUME SyncInv, Settled, call' = call
    PROVE  SyncProgress'
<1> SUFFICES ASSUME call.op = "sync"
             PROVE  /\ \A k \in DOMAIN cbs'[call.l] : k < call.i => Finished(cbs'[call.l][k])
                    /\ call.err <=> \E k \in DOMAIN cbs'[call.l] : k < call.i /\ cbs'[call.l][k].st = "error"
  BY DEF SyncProgress
<1>1. call.l \in Launches /\ lstate[call.l] = "live"
  BY DEF SyncInv, LaunchInv, CallConsistent
<1>2. /\ DOMAIN cbs'[call.l] = DOMAIN cbs[call.l]
      /\ \A k \in DOMAIN cbs[call.l] : Finished(cbs[call.l][k]) => cbs'[call.l][k].st = cbs[call.l][k].st
  BY <1>1 DEF Settled
<1>3. /\ \A k \in DOMAIN cbs[call.l] : k < call.i => Finished(cbs[call.l][k])
      /\ call.err <=> \E k \in DOMAIN cbs[call.l] : k < call.i /\ cbs[call.l][k].st = "error"
  BY DEF SyncInv, SyncProgress
<1> QED BY <1>2, <1>3 DEF Finished

(* Beginning, returning, failing or destroying a launch answers nothing.    *)
LEMMA AnsweredKept ==
    ASSUME SyncInv, UNCHANGED <<completed, report>>, NEW l \in Launches, NEW st,
           lstate' = [lstate EXCEPT ![l] = st],
           lstate[l] \in {"none", "encoding"} \/ st = "destroyed"
    PROVE  AnsweredReturned'
  BY DEF SyncInv, AnsweredReturned, LaunchInv, TypeOK

(* Waiting for one more command buffer extends what was seen by it.         *)
LEMMA SyncWaitKeeps ==
    ASSUME SyncInv, Settled, NEW l \in Launches, SyncWait(l)
    PROVE  SyncProgress'
<1>1. /\ call.op = "sync" /\ call.l = l /\ call.i \in DOMAIN cbs[l] /\ Finished(cbs[l][call.i])
      /\ call' = [[call EXCEPT !.i = @ + 1] EXCEPT !.err = @ \/ cbs[l][call.i].st = "error"]
      /\ cbs' = cbs
  BY DEF SyncWait, Encoding, gpuVars
<1>2. call \in CallRecord /\ cbs[l] \in Seq(CommandBuffer)
  BY DEF SyncInv, LaunchInv, TypeOK
<1>3. /\ call'.op = "sync" /\ call'.l = l /\ call'.i = call.i + 1
      /\ call'.err <=> call.err \/ cbs[l][call.i].st = "error"
  BY <1>1, <1>2 DEF CallRecord
<1>4. /\ \A k \in DOMAIN cbs[l] : k < call.i => Finished(cbs[l][k])
      /\ call.err <=> \E k \in DOMAIN cbs[l] : k < call.i /\ cbs[l][k].st = "error"
  BY <1>1 DEF SyncInv, SyncProgress
<1>5. \A k \in DOMAIN cbs[l] : k < call.i + 1 <=> k < call.i \/ k = call.i
  BY <1>1, <1>2
<1>6. \A k \in DOMAIN cbs[l] : k < call.i + 1 => Finished(cbs[l][k])
  BY <1>1, <1>4, <1>5
<1>7. call'.err <=> \E k \in DOMAIN cbs[l] : k < call.i + 1 /\ cbs[l][k].st = "error"
  BY <1>1, <1>3, <1>4, <1>5
<1> QED BY <1>1, <1>3, <1>6, <1>7 DEF SyncProgress

(* The return reports on all command buffers, since all were waited for.    *)
LEMMA SyncReturnKeeps ==
    ASSUME SyncInv, NEW l \in Launches, SyncReturn(l)
    PROVE  SyncProgress' /\ AnsweredReturned' /\ SyncReportsFaithfully'
<1>1. /\ call.op = "sync" /\ call.l = l /\ call.i > Len(cbs[l]) /\ cbs' = cbs /\ lstate' = lstate
      /\ completed' = [completed EXCEPT ![l] = TRUE]
      /\ report' = [report EXCEPT ![l] = IF call.err THEN "backend_error" ELSE "ok"]
      /\ call' = NoCall /\ lstate[l] = "live"
  BY DEF SyncReturn, Encoding, SyncWaitedForAll, gpuVars, SyncInv, LaunchInv, CallConsistent
<1>2. /\ cbs[l] \in Seq(CommandBuffer) /\ call \in CallRecord
      /\ completed \in [Launches -> BOOLEAN] /\ DOMAIN report = Launches
  BY DEF SyncInv, LaunchInv, TypeOK
<1>3. \A k \in DOMAIN cbs[l] : k < call.i
  BY <1>1, <1>2 DEF CallRecord
<1>4. /\ \A k \in DOMAIN cbs[l] : Finished(cbs[l][k])
      /\ call.err <=> \E k \in DOMAIN cbs[l] : cbs[l][k].st = "error"
  BY <1>1, <1>3 DEF SyncInv, SyncProgress
<1>5. SyncProgress'
  BY <1>1 DEF SyncProgress, NoCall
<1>6. AnsweredReturned'
  BY <1>1, <1>2 DEF SyncInv, AnsweredReturned
<1>7. SyncReportsFaithfully'
  <2> SUFFICES ASSUME NEW m \in Launches
               PROVE  /\ completed'[m] => AllFinished(m)
                      /\ report'[m] = "ok" => \A k \in DOMAIN cbs[m] : cbs[m][k].st = "completed"
                      /\ report'[m] = "backend_error" => \E k \in DOMAIN cbs[m] : cbs[m][k].st = "error"
    BY <1>1 DEF SyncReportsFaithfully, AllFinished
  <2>1. CASE m = l
    <3>1. AllFinished(m)
      BY <1>4, <2>1 DEF AllFinished
    <3>2. report'[m] = IF call.err THEN "backend_error" ELSE "ok"
      BY <1>1, <1>2, <2>1
    <3>3. CASE call.err
      BY <1>4, <2>1, <3>1, <3>2, <3>3
    <3>4. CASE ~call.err
      BY <1>4, <2>1, <3>1, <3>2, <3>4 DEF Finished
    <3> QED BY <3>3, <3>4
  <2>2. CASE m # l
    <3>1. completed'[m] = completed[m] /\ report'[m] = report[m]
      BY <1>1, <1>2, <2>2
    <3> QED BY <3>1 DEF SyncInv, SyncReportsFaithfully
  <2> QED BY <2>1, <2>2
<1> QED BY <1>5, <1>6, <1>7

(* A rejected synchronisation says nothing about command buffers.           *)
LEMMA SyncRejectedKeeps ==
    ASSUME SyncInv, Settled, NEW l \in Launches, SyncRejected(l)
    PROVE  SyncProgress' /\ AnsweredReturned' /\ SyncReportsFaithfully'
<1>1. /\ lstate[l] = "live" /\ cbs' = cbs /\ lstate' = lstate /\ completed' = completed /\ call' = call
      /\ report' = [report EXCEPT ![l] = "invalid_argument"]
  BY DEF SyncRejected, gpuVars
<1>2. DOMAIN report = Launches
  BY DEF SyncInv, LaunchInv, TypeOK
<1>3. \A m \in Launches : report'[m] = IF m = l THEN "invalid_argument" ELSE report[m]
  BY <1>1, <1>2
<1>4. AnsweredReturned'
  BY <1>1, <1>3 DEF SyncInv, AnsweredReturned
<1>5. SyncReportsFaithfully'
  <2> SUFFICES ASSUME NEW m \in Launches
               PROVE  /\ completed[m] => AllFinished(m)
                      /\ report'[m] = "ok" => \A k \in DOMAIN cbs[m] : cbs[m][k].st = "completed"
                      /\ report'[m] = "backend_error" => \E k \in DOMAIN cbs[m] : cbs[m][k].st = "error"
    BY <1>1 DEF SyncReportsFaithfully, AllFinished
  <2> QED BY <1>3 DEF SyncInv, SyncReportsFaithfully
<1> QED BY <1>1, <1>4, <1>5, ProgressKept

(* Every step keeps the reports faithful.                                   *)
LEMMA ReportStep ==
    ASSUME SyncInv, Settled, [Next]_vars
    PROVE  SyncProgress' /\ AnsweredReturned' /\ SyncReportsFaithfully'
<1>0. LaunchInv /\ TypeOK /\ CallConsistent
  BY DEF SyncInv, LaunchInv
<1>1. ASSUME UNCHANGED <<completed, report, lstate>>
      PROVE  AnsweredReturned' /\ SyncReportsFaithfully'
  BY <1>1, ReportsKept DEF SyncInv, AnsweredReturned
<1>2. ASSUME UNCHANGED <<completed, report, lstate>>, call'.op # "sync" \/ call' = call
      PROVE  SyncProgress' /\ AnsweredReturned' /\ SyncReportsFaithfully'
  <2>1. SyncProgress'
    BY <1>2, ProgressKept DEF SyncProgress
  <2> QED BY <1>1, <1>2, <2>1
<1>3. ASSUME UNCHANGED <<completed, report>>, call'.op # "sync",
             NEW l \in Launches, NEW st, lstate' = [lstate EXCEPT ![l] = st],
             lstate[l] \in {"none", "encoding"} \/ st = "destroyed"
      PROVE  SyncProgress' /\ AnsweredReturned' /\ SyncReportsFaithfully'
  BY <1>3, ReportsKept, AnsweredKept DEF SyncProgress
<1>4. ASSUME NEW l \in Launches, HostStep(l)
      PROVE  SyncProgress' /\ AnsweredReturned' /\ SyncReportsFaithfully'
  <2>1. CASE LaunchIcb(l) \/ LaunchReturn(l)
    <3>1. /\ lstate[l] = "encoding" /\ lstate' = [lstate EXCEPT ![l] = "live"] /\ call'.op # "sync"
          /\ UNCHANGED <<completed, report>>
      BY <1>0, <2>1 DEF LaunchIcb, LaunchReturn, Returned, Encoding, NoCall, CallConsistent
    <3> QED BY <1>3, <3>1
  <2>2. CASE LaunchFailEncode(l) \/ LaunchFailCommit(l) \/ LaunchFailWait(l)
    <3>1. lstate[l] = "encoding"
      BY <1>0, <2>2
         DEF LaunchFailEncode, LaunchFailCommit, LaunchFailSegment, LaunchFailWait, AtNode,
             Encoding, CallConsistent
    <3>2. Abandon(l)
      BY <2>2 DEF LaunchFailEncode, LaunchFailCommit, LaunchFailWait
    <3>3. lstate' = [lstate EXCEPT ![l] = "failed"] /\ call'.op # "sync" /\ UNCHANGED <<completed, report>>
      BY <3>2 DEF Abandon, NoCall
    <3> QED BY <1>3, <3>1, <3>3
  <2>3. CASE EncodeNode(l) \/ EncodeMps(l) \/ CommitBeforeMps(l) \/ WaitBeforeMps(l)
    <3>1. UNCHANGED <<completed, report, lstate>>
      BY <2>3 DEF EncodeNode, EncodeMps, CommitBeforeMps, WaitBeforeMps, launchVars
    <3>2. call'.op # "sync"
      <4>1. call \in CallRecord
        BY <1>0 DEF TypeOK
      <4> QED BY <2>3, <4>1
              DEF EncodeNode, EncodeMps, CommitBeforeMps, WaitBeforeMps, AtNode, Encoding, CallRecord
    <3> QED BY <1>2, <3>1, <3>2
  <2>4. CASE SyncWait(l)
    <3>1. UNCHANGED <<completed, report, lstate>>
      BY <2>4 DEF SyncWait, launchVars
    <3> QED BY <1>1, <2>4, <3>1, SyncWaitKeeps
  <2>5. CASE SyncReturn(l)
    BY <2>5, SyncReturnKeeps
  <2> QED BY <1>4, <2>1, <2>2, <2>3, <2>4, <2>5 DEF HostStep
<1>5. ASSUME NEW e \in Execs, Patch(e)
      PROVE  SyncProgress' /\ AnsweredReturned' /\ SyncReportsFaithfully'
  BY <1>0, <1>2, <1>5, PatchForm DEF Patched, SetOptimizationFlags, launchVars
<1>6. ASSUME NEW e \in Execs, NEW made \in BOOLEAN, Instantiate(e, made)
      PROVE  SyncProgress' /\ AnsweredReturned' /\ SyncReportsFaithfully'
  BY <1>2, <1>6 DEF Instantiate, launchVars
<1>7. ASSUME NEW e \in Execs, GraphDestroy(e) \/ ExecDestroy(e)
      PROVE  SyncProgress' /\ AnsweredReturned' /\ SyncReportsFaithfully'
  BY <1>2, <1>7 DEF GraphDestroy, ExecDestroy, launchVars
<1>8. ASSUME NEW o \in Objects, HandleDestroy(o)
      PROVE  SyncProgress' /\ AnsweredReturned' /\ SyncReportsFaithfully'
  BY <1>2, <1>8 DEF HandleDestroy, launchVars
<1>9. ASSUME NEW e \in Execs, NEW s \in Streams, NEW l \in Launches, LaunchBegin(e, s, l)
      PROVE  SyncProgress' /\ AnsweredReturned' /\ SyncReportsFaithfully'
  <2>1. /\ lstate[l] = "none" /\ lstate' = [lstate EXCEPT ![l] = "encoding"] /\ call'.op # "sync"
        /\ UNCHANGED <<completed, report>>
    BY <1>9 DEF LaunchBegin, NoCall
  <2> QED BY <1>3, <2>1
<1>10. ASSUME NEW l \in Launches, SyncRejected(l)
       PROVE  SyncProgress' /\ AnsweredReturned' /\ SyncReportsFaithfully'
  BY <1>10, SyncRejectedKeeps
<1>11. ASSUME NEW l \in Launches, SyncBegin(l)
       PROVE  SyncProgress' /\ AnsweredReturned' /\ SyncReportsFaithfully'
  <2>1. UNCHANGED <<completed, report, lstate>> /\ cbs' = cbs
        /\ call'.i = 1 /\ call'.l = l /\ call'.err = FALSE
    BY <1>11 DEF SyncBegin, launchVars, gpuVars, NoCall
  <2>2. \A k \in DOMAIN cbs[l] : ~(k < 1)
    BY <1>0 DEF TypeOK
  <2>3. SyncProgress'
    BY <2>1, <2>2 DEF SyncProgress
  <2> QED BY <1>1, <2>1, <2>3
<1>12. ASSUME NEW l \in Launches, LaunchDestroy(l)
       PROVE  SyncProgress' /\ AnsweredReturned' /\ SyncReportsFaithfully'
  <2>1. /\ lstate' = [lstate EXCEPT ![l] = "destroyed"] /\ call'.op # "sync"
        /\ UNCHANGED <<completed, report>>
    BY <1>12 DEF LaunchDestroy, Idle
  <2> QED BY <1>3, <2>1
<1>13. ASSUME NEW s \in Streams, GpuStep(s)
       PROVE  SyncProgress' /\ AnsweredReturned' /\ SyncReportsFaithfully'
  BY <1>2, <1>13 DEF GpuStep, GpuExecute, GpuComplete, GpuFail, GpuEnd, launchVars
<1>14. CASE UNCHANGED vars
  BY <1>2, <1>14 DEF vars, launchVars
<1> QED BY <1>4, <1>5, <1>6, <1>7, <1>8, <1>9, <1>10, <1>11, <1>12, <1>13, <1>14
        DEF Next, CallerStep, Quiet

-----------------------------------------------------------------------------

(* At the start nothing is queued or reported.                              *)
LEMMA SyncInit == Init => SyncInv
<1> SUFFICES ASSUME Init PROVE SyncInv
  OBVIOUS
<1>1. LaunchInv
  BY InitInv
<1>2. QueuePending /\ QueueDistinct
  BY DEF Init, QueuePending, QueueDistinct
<1>3. SyncProgress
  BY DEF Init, SyncProgress, NoCall
<1>4. AnsweredReturned /\ SyncReportsFaithfully
  BY DEF Init, AnsweredReturned, SyncReportsFaithfully
<1> QED BY <1>1, <1>2, <1>3, <1>4 DEF SyncInv

(* Every step preserves the invariant.                                      *)
LEMMA SyncStep == SyncInv /\ [Next]_vars => SyncInv'
<1> SUFFICES ASSUME SyncInv, [Next]_vars PROVE SyncInv'
  OBVIOUS
<1>1. LaunchInv /\ QueuePending /\ QueueDistinct
  BY DEF SyncInv
<1>2. LaunchInv'
  BY <1>1, TypeStep, CallStep, QueueStep, IcbStep, AccountingStep DEF LaunchInv
<1> QED BY <1>1, <1>2, SettledStep, ReportStep DEF SyncInv

(* The invariant behind the two theorems below.                             *)
THEOREM SyncInvariant == Spec => []SyncInv
<1> QED BY SyncInit, SyncStep, PTL DEF Spec

(* SyncReportsFaithfully: mgLaunchSynchronize marks a launch complete only  *)
(* when all its command buffers have ended, and returns MG_OK exactly when  *)
(* none of them failed.                                                     *)
THEOREM SyncsFaithful == Spec => []SyncReportsFaithfully
<1>1. SyncInv => SyncReportsFaithfully
  BY DEF SyncInv
<1> QED BY SyncInvariant, <1>1, PTL

(* in_flight_count is 0 only if the GPU has finished every launch that was  *)
(* returned: it counts the others.                                          *)
LEMMA NoneInFlight ==
    ASSUME SyncInv, NEW e \in Execs, PatchReady(e), NEW l \in Launches,
           lexec[l] = e, lstate[l] \in {"live", "destroyed"}
    PROVE  AllFinished(l)
<1>1. in_flight_count[e] = Cardinality(InFlightOf(e)) /\ in_flight_count[e] = 0
  BY DEF SyncInv, LaunchInv, InFlightAccounting, InFlightOf, PatchReady
<1>2. IsFiniteSet(InFlightOf(e))
  <2>1. InFlightOf(e) \in SUBSET Launches
    BY DEF InFlightOf
  <2> QED BY <2>1, FiniteAssumption, FS_Subset
<1>3. InFlightOf(e) = {}
  BY <1>1, <1>2, FS_EmptySet
<1>4. completed[l]
  BY <1>3 DEF InFlightOf, InFlight
<1> QED BY <1>4 DEF SyncInv, SyncReportsFaithfully

(* Every patch call looks at in_flight_count first.                         *)
LEMMA PatchesWhenReady ==
    ASSUME NEW e \in Execs, Patch(e)
    PROVE  PatchReady(e)
<1>1. ASSUME NEW i, NEW kind, Patchable(e, i, kind) PROVE PatchReady(e)
  BY <1>1 DEF Patchable
<1>2. ASSUME NEW on \in BOOLEAN, SetOptimizationFlags(e, on) PROVE PatchReady(e)
  BY <1>2 DEF SetOptimizationFlags
<1>3. ASSUME NEW i, NEW v, PatchDispatchGrid(e, i, v) PROVE PatchReady(e)
  BY <1>1, <1>3 DEF PatchDispatchGrid
<1>4. ASSUME NEW i, NEW v, PatchDispatchScalar(e, i, v) PROVE PatchReady(e)
  BY <1>1, <1>4 DEF PatchDispatchScalar
<1>5. ASSUME NEW i, NEW j, NEW b, PatchDispatchBuffer(e, i, j, b) PROVE PatchReady(e)
  BY <1>1, <1>5 DEF PatchDispatchBuffer
<1>6. ASSUME NEW i, NEW src, NEW dst, NEW r, PatchCopyNode(e, i, src, dst, r) PROVE PatchReady(e)
  BY <1>1, <1>6 DEF PatchCopyNode
<1>7. ASSUME NEW i, NEW dst, NEW r, NEW v, PatchFillNode(e, i, dst, r, v) PROVE PatchReady(e)
  BY <1>1, <1>7 DEF PatchFillNode
<1>8. ASSUME NEW i, NEW v, PatchEventValue(e, i, v) PROVE PatchReady(e)
  BY <1>1, <1>8 DEF PatchEventValue
<1> QED BY <1>2, <1>3, <1>4, <1>5, <1>6, <1>7, <1>8, Zenon DEF Patch

(* Nothing but a patch changes the nodes of a live exec.                    *)
LEMMA PatchesQuiesced ==
    ASSUME SyncInv, [Next]_vars, NEW e \in Execs, estate[e] = "live", estate'[e] = "live",
           nodes'[e] # nodes[e]
    PROVE  PatchReady(e)
<1>0. TypeOK
  BY DEF SyncInv, LaunchInv
<1>1. ASSUME NEW f \in Execs, Patch(f) PROVE PatchReady(e)
  <2>1. CASE f = e
    BY <1>1, <2>1, PatchesWhenReady
  <2>2. CASE f # e
    <3>1. ASSUME NEW on \in BOOLEAN, SetOptimizationFlags(f, on) PROVE nodes'[e] = nodes[e]
      BY <3>1 DEF SetOptimizationFlags
    <3>2. ASSUME NEW i \in DOMAIN nodes[f], NEW n \in Node, Patched(f, i, n)
          PROVE  nodes'[e] = nodes[e]
      <4>1. DOMAIN nodes = Execs
        BY <1>0 DEF TypeOK
      <4>2. nodes' = [nodes EXCEPT ![f][i] = n]
        BY <3>2 DEF Patched
      <4> QED BY <4>1, <4>2, <2>2
    <3> QED BY <1>0, <1>1, <3>1, <3>2, PatchForm, Zenon
  <2> QED BY <2>1, <2>2
<1>2. ASSUME NEW f \in Execs, NEW made \in BOOLEAN, Instantiate(f, made) PROVE FALSE
  BY <1>0, <1>2 DEF Instantiate, TypeOK
<1>3. ASSUME NEW f \in Execs, ExecDestroy(f) PROVE FALSE
  BY <1>0, <1>3 DEF ExecDestroy, TypeOK
<1>4. ASSUME UNCHANGED nodes PROVE FALSE
  BY <1>4
<1>5. ASSUME NEW l \in Launches, HostStep(l) PROVE UNCHANGED nodes
  BY <1>5 DEF HostStep, LaunchIcb, EncodeNode, EncodeMps, CommitBeforeMps, WaitBeforeMps,
              LaunchReturn, LaunchFailEncode, LaunchFailCommit, LaunchFailWait, Abandon,
              SyncWait, SyncReturn, execVars
<1>6. ASSUME NEW s \in Streams, GpuStep(s) PROVE UNCHANGED nodes
  BY <1>6 DEF GpuStep, GpuExecute, GpuComplete, GpuFail, GpuEnd, execVars
<1>7. ASSUME NEW f \in Execs, GraphDestroy(f) PROVE UNCHANGED nodes
  BY <1>7 DEF GraphDestroy, execVars
<1>8. ASSUME NEW f \in Execs, NEW s \in Streams, NEW l \in Launches, LaunchBegin(f, s, l)
      PROVE  UNCHANGED nodes
  BY <1>8 DEF LaunchBegin
<1>9. ASSUME NEW l \in Launches, SyncRejected(l) \/ SyncBegin(l) \/ LaunchDestroy(l)
      PROVE  UNCHANGED nodes
  BY <1>9 DEF SyncRejected, SyncBegin, LaunchDestroy, execVars
<1>10. ASSUME NEW o \in Objects, HandleDestroy(o) PROVE UNCHANGED nodes
  BY <1>10 DEF HandleDestroy, execVars
<1>11. CASE UNCHANGED vars
  BY <1>4, <1>11 DEF vars, execVars
<1> QED BY <1>1, <1>2, <1>3, <1>4, <1>5, <1>6, <1>7, <1>8, <1>9, <1>10, <1>11
        DEF Next, CallerStep, Quiet

(* PatchOnlyWhenQuiescent: a patch never changes an exec while the GPU may  *)
(* still run a launch of it, though all it looks at is a counter.           *)
THEOREM PatchesWaitForTheGpu == Spec => PatchOnlyWhenQuiescent
<1>1. SyncInv /\ [Next]_vars =>
        [\A e \in Execs :
            (estate[e] = "live" /\ estate'[e] = "live" /\ nodes'[e] # nodes[e]) =>
               \A l \in Launches :
                  (lexec[l] = e /\ lstate[l] \in {"live", "destroyed"}) => AllFinished(l)]_vars
  BY PatchesQuiesced, NoneInFlight
<1> QED BY <1>1, SyncInvariant, PTL DEF Spec, PatchOnlyWhenQuiescent

-----------------------------------------------------------------------------
(* Which launch is encoded, and which launches have command buffers.        *)

(* A launch belongs to an exec that was instantiated.                       *)
Owned == \A l \in Launches : lexec[l] \in Execs => estate[lexec[l]] # "none"

(* A launch is being encoded only by the call in progress.                  *)
Encoder ==
    \A l \in Launches : lstate[l] = "encoding" =>
        call.op \in {"icb", "encode", "midwait"} /\ call.l = l

(* commandBufferHasWork is set once a command is in the open command        *)
(* buffer, and an indirect command buffer runs before anything is encoded.  *)
Segment ==
    /\ ~call.work => call.open = <<>>
    /\ call.op = "icb" => call.i = 1 /\ call.open = <<>>
    /\ call.op \in {"icb", "encode", "midwait"} => call.i >= 1

(* No launch without a command buffer is waited for or reported to have     *)
(* succeeded.                                                               *)
Answered ==
    /\ call.op \in {"midwait", "sync"} => cbs[call.l] # <<>>
    /\ \A l \in Launches : report[l] = "ok" => cbs[l] # <<>>

LaunchShape == Owned /\ Encoder /\ Segment /\ Answered

(* A command buffer once recorded stays with its launch.                    *)
LEMMA AnsweredStays ==
    ASSUME TypeOK, Answered, Settled, NEW l \in Launches, cbs[l] # <<>>
    PROVE  cbs'[l] # <<>>
<1>1. cbs[l] \in Seq(CommandBuffer)
  BY DEF TypeOK
<1>2. 1 \in DOMAIN cbs[l]
  BY <1>1
<1>3. 1 \in DOMAIN cbs'[l]
  BY <1>2 DEF Settled
<1> QED BY <1>3

(* A call in progress that stays within mgGraphLaunch.                      *)
LEMMA ShapeEncoding ==
    ASSUME TypeOK, TypeOK', LaunchShape, Settled, UNCHANGED <<lexec, estate, lstate, report>>,
           NEW l \in Launches, call.l = l, call'.l = l,
           call.op \in {"encode", "midwait"}, call'.op \in {"encode", "midwait"},
           call'.i >= 1, ~call'.work => call'.open = <<>>,
           call'.op = "midwait" => cbs'[l] # <<>>
    PROVE  LaunchShape'
<1>1. Owned' /\ Encoder' /\ Segment'
  BY DEF LaunchShape, Owned, Encoder, Segment
<1>2. Answered'
  BY AnsweredStays DEF LaunchShape, Answered
<1> QED BY <1>1, <1>2 DEF LaunchShape

(* A call that ends, or one that does not concern launches being encoded.   *)
LEMMA ShapeOther ==
    ASSUME TypeOK, CallConsistent, LaunchShape, Settled, UNCHANGED lexec,
           \A e \in Execs : estate'[e] = "none" => estate[e] = "none",
           \A l \in Launches : lstate'[l] = "encoding" => lstate[l] = "encoding",
           \A l \in Launches : report'[l] = "ok" => report[l] = "ok" \/ cbs[l] # <<>>,
           \/ call' = call
           \/ /\ \A l \in Launches : lstate'[l] # "encoding"
              /\ call'.op = "idle" \/ (call'.op = "sync" /\ call'.l \in Launches /\ cbs[call'.l] # <<>>)
              /\ call'.open = <<>>
    PROVE  LaunchShape'
<1>1. Owned' /\ Encoder'
  BY DEF LaunchShape, Owned, Encoder
<1>2. Segment'
  BY DEF LaunchShape, Segment
<1>3. Answered'
  <2>1. Answered
    BY DEF LaunchShape
  <2>2. \A l \in Launches : cbs[l] # <<>> => cbs'[l] # <<>>
    BY <2>1, AnsweredStays
  <2>3. call'.op \in {"midwait", "sync"} => call'.l \in Launches /\ cbs[call'.l] # <<>>
    BY <2>1 DEF Answered, CallConsistent
  <2> QED BY <2>1, <2>2, <2>3 DEF Answered
<1> QED BY <1>1, <1>2, <1>3 DEF LaunchShape

(* While no launch is being encoded none begins but by mgGraphLaunch.       *)
LEMMA NoneEncoding ==
    ASSUME LaunchShape, call.op \in {"idle", "sync"}
    PROVE  \A l \in Launches : lstate[l] # "encoding"
BY DEF LaunchShape, Encoder

(* The steps of a call.                                                     *)
LEMMA HostShape ==
    ASSUME LaunchInv, LaunchShape, TypeOK', Settled, NEW l \in Launches, HostStep(l)
    PROVE  LaunchShape'
<1>0. TypeOK /\ CallConsistent /\ call \in CallRecord /\ lstate \in [Launches ->
          {"none", "encoding", "live", "failed", "destroyed"}] /\ DOMAIN report = Launches
  BY DEF LaunchInv, TypeOK
<1>1. ASSUME NEW st \in {"live", "failed"}, lstate' = [lstate EXCEPT ![l] = st], call' = NoCall,
             call.op \in {"icb", "encode", "midwait"}, call.l = l, UNCHANGED <<lexec, estate, report>>
      PROVE  LaunchShape'
  <2>1. \A m \in Launches : lstate'[m] # "encoding"
    BY <1>0, <1>1 DEF LaunchShape, Encoder
  <2>2. call'.op = "idle" /\ call'.open = <<>>
    BY <1>1 DEF NoCall
  <2> QED BY <1>0, <1>1, <2>1, <2>2, ShapeOther
<1>2. CASE LaunchIcb(l) \/ LaunchReturn(l)
  <2>1. /\ lstate' = [lstate EXCEPT ![l] = "live"] /\ call' = NoCall
        /\ call.op \in {"icb", "encode", "midwait"} /\ call.l = l
        /\ UNCHANGED <<lexec, estate, report>>
    BY <1>2 DEF LaunchIcb, LaunchReturn, Returned, Encoding
  <2> QED BY <1>1, <2>1
<1>3. CASE LaunchFailEncode(l) \/ LaunchFailCommit(l) \/ LaunchFailWait(l)
  <2>1. Abandon(l) /\ call.op \in {"icb", "encode", "midwait"} /\ call.l = l
    BY <1>3 DEF LaunchFailEncode, LaunchFailCommit, LaunchFailSegment, LaunchFailWait, AtNode, Encoding
  <2>2. /\ lstate' = [lstate EXCEPT ![l] = "failed"] /\ call' = NoCall
        /\ UNCHANGED <<lexec, estate, report>>
    BY <2>1 DEF Abandon
  <2> QED BY <1>1, <2>1, <2>2
<1>4. CASE EncodeNode(l)
  <2> DEFINE n == NodesOf(l)[call.i]
  <2>1. /\ call.op = "encode" /\ call.l = l /\ UNCHANGED <<lexec, estate, lstate, report>>
        /\ call' = [[[call EXCEPT !.i = call.i + 1]
                          EXCEPT !.open = IF Encodes(n) THEN Append(call.open, CommandOf(n)) ELSE call.open]
                          EXCEPT !.work = call.work \/ MarksWork(n)]
    BY <1>4 DEF EncodeNode, AtNode, Encoding, execVars
  <2> HIDE DEF n
  <2>2. /\ call'.op = "encode" /\ call'.l = l /\ call'.i = call.i + 1
        /\ call'.open = IF Encodes(n) THEN Append(call.open, CommandOf(n)) ELSE call.open
        /\ call'.work = (call.work \/ MarksWork(n))
    BY <1>0, <2>1 DEF CallRecord
  <2>3. call'.i >= 1
    BY <1>0, <2>1, <2>2 DEF CallRecord
  <2>4. ~call'.work => call'.open = <<>>
    BY <2>2 DEF LaunchShape, Segment, MarksWork
  <2> QED BY <1>0, <2>1, <2>2, <2>3, <2>4, ShapeEncoding
<1>5. CASE EncodeMps(l)
  <2>1. /\ call.op = "encode" /\ call.l = l /\ UNCHANGED <<lexec, estate, lstate, report>>
        /\ call' = [call EXCEPT !.i = call.i + 1] /\ ~call.work
    BY <1>5 DEF EncodeMps, AtNode, Encoding, execVars
  <2>2. /\ call'.op = "encode" /\ call'.l = l /\ call'.i = call.i + 1 /\ call'.open = call.open
        /\ call'.i >= 1
    BY <1>0, <2>1 DEF CallRecord
  <2>3. call.open = <<>>
    BY <2>1 DEF LaunchShape, Segment
  <2> QED BY <1>0, <2>1, <2>2, <2>3, ShapeEncoding
<1>6. CASE CommitBeforeMps(l)
  <2>1. /\ call.op = "encode" /\ call.l = l /\ UNCHANGED <<lexec, estate, lstate, report>>
        /\ call' = [call EXCEPT !.op = "midwait", !.open = <<>>, !.work = FALSE]
    BY <1>6 DEF CommitBeforeMps, AtNode, Encoding, execVars, launchVars
  <2>2. /\ call'.op = "midwait" /\ call'.l = l /\ call'.open = <<>> /\ call'.i = call.i
    BY <1>0, <2>1 DEF CallRecord
  <2>3. call'.i >= 1
    BY <2>1, <2>2 DEF LaunchShape, Segment
  <2>4. cbs'[l] # <<>>
    <3>1. Commit(l, call.open) /\ call.op # "idle"
      BY <1>6, <2>1 DEF CommitBeforeMps
    <3>2. cbs' = [cbs EXCEPT ![l] = Append(cbs[l], [cmds |-> call.open, pos |-> 0, st |-> "committed"])]
          /\ cbs \in [Launches -> Seq(CommandBuffer)]
      BY <1>0, <3>1 DEF Commit, TypeOK
    <3>3. cbs'[l] = Append(cbs[l], [cmds |-> call.open, pos |-> 0, st |-> "committed"])
          /\ cbs[l] \in Seq(CommandBuffer)
      BY <3>2
    <3> QED BY <3>3
  <2> QED BY <1>0, <2>1, <2>2, <2>3, <2>4, ShapeEncoding
<1>7. CASE WaitBeforeMps(l)
  <2>1. /\ call.op = "midwait" /\ call.l = l /\ UNCHANGED <<lexec, estate, lstate, report>>
        /\ call' = [call EXCEPT !.op = "encode"]
    BY <1>7 DEF WaitBeforeMps, Encoding, execVars, launchVars
  <2>2. /\ call'.op = "encode" /\ call'.l = l /\ call'.open = call.open /\ call'.i = call.i
        /\ call'.work = call.work
    BY <1>0, <2>1 DEF CallRecord
  <2>3. call'.i >= 1 /\ (~call'.work => call'.open = <<>>)
    BY <2>1, <2>2 DEF LaunchShape, Segment
  <2> QED BY <1>0, <2>1, <2>2, <2>3, ShapeEncoding
<1>8. CASE SyncWait(l)
  <2>1. /\ call.op = "sync" /\ UNCHANGED <<lexec, estate, lstate, report>>
        /\ call' = [call EXCEPT !.i = @ + 1, !.err = @ \/ cbs[l][call.i].st = "error"]
    BY <1>8 DEF SyncWait, Encoding, execVars, launchVars
  <2>2. call'.op = "sync" /\ call'.open = call.open /\ call'.work = call.work
    BY <1>0, <2>1 DEF CallRecord
  <2>3. \A m \in Launches : lstate[m] # "encoding"
    BY <2>1, NoneEncoding
  <2>4. Owned' /\ Encoder'
    BY <2>1, <2>3 DEF LaunchShape, Owned, Encoder
  <2>5. Segment'
    BY <2>2 DEF LaunchShape, Segment
  <2>6. Answered'
    <3>1. Answered /\ cbs' = cbs /\ call'.l = call.l
      BY <1>0, <1>8, <2>1 DEF LaunchShape, SyncWait, gpuVars, CallRecord
    <3> QED BY <2>1, <2>2, <3>1 DEF Answered
  <2> QED BY <2>4, <2>5, <2>6 DEF LaunchShape
<1>9. CASE SyncReturn(l)
  <2>1. /\ call.op = "sync" /\ call.l = l /\ call.i > Len(cbs[l]) /\ UNCHANGED <<lexec, estate, lstate>>
        /\ report' = [report EXCEPT ![l] = IF call.err THEN "backend_error" ELSE "ok"]
        /\ call' = NoCall
    BY <1>9 DEF SyncReturn, Encoding, SyncWaitedForAll
  <2>2. \A m \in Launches : lstate'[m] # "encoding"
    BY <2>1, NoneEncoding
  <2>3. cbs[l] # <<>>
    BY <2>1 DEF LaunchShape, Answered
  <2>4. \A m \in Launches : report'[m] = "ok" => report[m] = "ok" \/ cbs[m] # <<>>
    BY <1>0, <2>1, <2>3
  <2>5. call'.op = "idle" /\ call'.open = <<>>
    BY <2>1 DEF NoCall
  <2> QED BY <1>0, <2>1, <2>2, <2>4, <2>5, ShapeOther
<1> QED BY <1>2, <1>3, <1>4, <1>5, <1>6, <1>7, <1>8, <1>9 DEF HostStep

(* Every step keeps the shape of the launches.                              *)
LEMMA ShapeStep ==
    ASSUME SyncInv, LaunchShape, [Next]_vars
    PROVE  LaunchShape'
<1>0. /\ TypeOK /\ CallConsistent /\ call \in CallRecord /\ LaunchInv /\ TypeOK' /\ Settled
      /\ DOMAIN report = Launches /\ DOMAIN lstate = Launches
      /\ DOMAIN estate = Execs /\ DOMAIN lexec = Launches
  BY TypeStep, SettledStep DEF SyncInv, LaunchInv, TypeOK
<1>1. ASSUME UNCHANGED <<lexec, estate, lstate, report, call>> PROVE LaunchShape'
  BY <1>0, <1>1, ShapeOther
<1>2. ASSUME NEW l \in Launches, HostStep(l) PROVE LaunchShape'
  BY <1>0, <1>2, HostShape
<1>3. ASSUME NEW s \in Streams, GpuStep(s) PROVE LaunchShape'
  BY <1>1, <1>3 DEF GpuStep, GpuExecute, GpuComplete, GpuFail, GpuEnd, execVars, launchVars
<1>4. ASSUME NEW e \in Execs, Patch(e) PROVE LaunchShape'
  BY <1>0, <1>1, <1>4, PatchForm DEF Patched, SetOptimizationFlags, launchVars
<1>5. ASSUME NEW o \in Objects, HandleDestroy(o) PROVE LaunchShape'
  BY <1>1, <1>5 DEF HandleDestroy, launchVars, execVars
<1>6. ASSUME NEW e \in Execs, GraphDestroy(e) PROVE LaunchShape'
  BY <1>1, <1>6 DEF GraphDestroy, launchVars, execVars
<1>7. ASSUME NEW e \in Execs, NEW made \in BOOLEAN, Instantiate(e, made) PROVE LaunchShape'
  <2>1. UNCHANGED <<lexec, lstate, report, call>> /\ estate' = [estate EXCEPT ![e] = "live"]
    BY <1>7 DEF Instantiate, launchVars
  <2>2. \A f \in Execs : estate'[f] = "none" => estate[f] = "none"
    BY <1>0, <2>1
  <2> QED BY <1>0, <2>1, <2>2, ShapeOther
<1>8. ASSUME NEW e \in Execs, ExecDestroy(e) PROVE LaunchShape'
  <2>1. UNCHANGED <<lexec, lstate, report, call>> /\ estate' = [estate EXCEPT ![e] = "destroyed"]
    BY <1>8 DEF ExecDestroy, launchVars
  <2>2. \A f \in Execs : estate'[f] = "none" => estate[f] = "none"
    BY <1>0, <2>1
  <2> QED BY <1>0, <2>1, <2>2, ShapeOther
<1>9. ASSUME NEW e \in Execs, NEW s \in Streams, NEW l \in Launches, LaunchBegin(e, s, l)
      PROVE  LaunchShape'
  <2>1. /\ call.op = "idle" /\ estate[e] = "live" /\ lexec' = [lexec EXCEPT ![l] = e]
        /\ lstate' = [lstate EXCEPT ![l] = "encoding"] /\ UNCHANGED <<estate, report, cbs>>
        /\ call'.op \in {"icb", "encode"} /\ call'.l = l /\ call'.i = 1 /\ call'.open = <<>>
    BY <1>9 DEF LaunchBegin, gpuVars, Idle, NoCall
  <2>2. \A m \in Launches : lstate[m] # "encoding"
    BY <2>1, NoneEncoding
  <2>3. Owned'
    BY <1>0, <2>1 DEF LaunchShape, Owned
  <2>4. Encoder' /\ Segment'
    BY <1>0, <2>1, <2>2 DEF Encoder, Segment
  <2>5. Answered'
    BY <2>1 DEF LaunchShape, Answered
  <2> QED BY <2>3, <2>4, <2>5 DEF LaunchShape
<1>10. ASSUME NEW l \in Launches, SyncRejected(l) PROVE LaunchShape'
  <2>1. UNCHANGED <<lexec, estate, lstate, call>> /\ report' = [report EXCEPT ![l] = "invalid_argument"]
    BY <1>10 DEF SyncRejected, execVars
  <2>2. \A m \in Launches : report'[m] = "ok" => report[m] = "ok" \/ cbs[m] # <<>>
    BY <1>0, <2>1
  <2> QED BY <1>0, <2>1, <2>2, ShapeOther
<1>11. ASSUME NEW l \in Launches, SyncBegin(l) PROVE LaunchShape'
  <2>1. /\ call.op = "idle" /\ cbs[l] # <<>> /\ UNCHANGED <<lexec, estate, lstate, report>>
        /\ call'.op = "sync" /\ call'.l = l /\ call'.open = <<>>
    BY <1>11 DEF SyncBegin, execVars, launchVars, NoCall, Idle
  <2>2. \A m \in Launches : lstate'[m] # "encoding"
    BY <2>1, NoneEncoding
  <2> QED BY <1>0, <2>1, <2>2, ShapeOther
<1>12. ASSUME NEW l \in Launches, LaunchDestroy(l) PROVE LaunchShape'
  <2>1. UNCHANGED <<lexec, estate, report, call>> /\ lstate' = [lstate EXCEPT ![l] = "destroyed"]
    BY <1>12 DEF LaunchDestroy, execVars
  <2>2. \A m \in Launches : lstate'[m] = "encoding" => lstate[m] = "encoding"
    BY <1>0, <2>1
  <2> QED BY <1>0, <2>1, <2>2, ShapeOther
<1>13. CASE UNCHANGED vars
  BY <1>1, <1>13 DEF vars, execVars, launchVars
<1> QED BY <1>2, <1>3, <1>4, <1>5, <1>6, <1>7, <1>8, <1>9, <1>10, <1>11, <1>12, <1>13
        DEF Next, CallerStep, Quiet

-----------------------------------------------------------------------------
(* When an exec takes patches again.                                        *)

(* A graph encodes something into a command buffer, or holds no node at     *)
(* all: then a launch commits an empty command buffer.                      *)
HasWork(ns) == ns = <<>> \/ \E i \in DOMAIN ns : Encodes(ns[i])

Worked == \A e \in Execs : HasWork(graph[e]) /\ HasWork(nodes[e])

(* While a launch has recorded no command buffer and marked no work, it has *)
(* passed no node that encodes anything.                                    *)
Marked ==
    call.op = "encode" =>
        \/ call.work
        \/ cbs[call.l] # <<>>
        \/ /\ NodesOf(call.l) # <<>>
           /\ \A j \in DOMAIN NodesOf(call.l) : j < call.i => ~Encodes(NodesOf(call.l)[j])

(* So every launch that was returned recorded one, every answer to          *)
(* mgLaunchSynchronize completed its launch, and a caller that asks before  *)
(* it destroys a launch destroys completed ones.                            *)
Recorded == \A l \in Launches : lstate[l] \in {"live", "destroyed"} => cbs[l] # <<>>

Acknowledged == \A l \in Launches : report[l] # "none" => completed[l]

SyncedFirst ==
    "unsynced_destroy" \notin Caller => \A l \in Launches : lstate[l] = "destroyed" => completed[l]

ReuseInv == SyncInv /\ LaunchShape /\ Worked /\ Marked /\ Recorded /\ Acknowledged /\ SyncedFirst

-----------------------------------------------------------------------------

(* The nodes of an exec are those of its graph, or none, but for patches,   *)
(* which keep the kind of the node and never meet one that encodes nothing. *)
LEMMA WorkedStep ==
    ASSUME TypeOK, Worked, [Next]_vars
    PROVE  Worked'
<1>0. nodes \in [Execs -> Seq(Node)] /\ DOMAIN nodes = Execs
  BY DEF TypeOK
<1>1. ASSUME UNCHANGED <<graph, nodes>> PROVE Worked'
  BY <1>1 DEF Worked, HasWork
<1>2. ASSUME NEW e \in Execs, UNCHANGED graph, NEW ns, nodes' = [nodes EXCEPT ![e] = ns], HasWork(ns)
      PROVE  Worked'
  BY <1>0, <1>2 DEF Worked
<1>3. ASSUME NEW l \in Launches, HostStep(l) PROVE Worked'
  BY <1>1, <1>3 DEF HostStep, LaunchIcb, EncodeNode, EncodeMps, CommitBeforeMps, WaitBeforeMps,
              LaunchReturn, LaunchFailEncode, LaunchFailCommit, LaunchFailWait, Abandon,
              SyncWait, SyncReturn, execVars, graphVars
<1>4. ASSUME NEW s \in Streams, GpuStep(s) PROVE Worked'
  BY <1>1, <1>4 DEF GpuStep, GpuExecute, GpuComplete, GpuFail, GpuEnd, execVars, graphVars
<1>5. ASSUME NEW e \in Execs, NEW made \in BOOLEAN, Instantiate(e, made) PROVE Worked'
  BY <1>2, <1>5 DEF Instantiate, graphVars, Worked
<1>6. ASSUME NEW e \in Execs, GraphDestroy(e) PROVE Worked'
  BY <1>1, <1>6 DEF GraphDestroy, execVars
<1>7. ASSUME NEW e \in Execs, ExecDestroy(e) PROVE Worked'
  BY <1>2, <1>7 DEF ExecDestroy, graphVars, HasWork
<1>8. ASSUME NEW e \in Execs, Patch(e) PROVE Worked'
  <2>1. CASE \E on \in BOOLEAN : SetOptimizationFlags(e, on)
    BY <1>1, <2>1 DEF SetOptimizationFlags, graphVars
  <2>2. ASSUME NEW i \in DOMAIN nodes[e], NEW n \in Node, Patched(e, i, n), Encodes(n)
        PROVE  Worked'
    <3>1. UNCHANGED graph /\ nodes' = [nodes EXCEPT ![e] = [nodes[e] EXCEPT ![i] = n]]
      BY <2>2 DEF Patched, graphVars
    <3>2. [nodes[e] EXCEPT ![i] = n][i] = n /\ i \in DOMAIN [nodes[e] EXCEPT ![i] = n]
      BY <2>2
    <3>3. HasWork([nodes[e] EXCEPT ![i] = n])
      BY <2>2, <3>2 DEF HasWork
    <3> QED BY <1>2, <3>1, <3>3
  <2> QED BY <1>8, <2>1, <2>2, PatchForm
<1>9. ASSUME NEW e \in Execs, NEW s \in Streams, NEW l \in Launches, LaunchBegin(e, s, l) PROVE Worked'
  BY <1>1, <1>9 DEF LaunchBegin, graphVars
<1>10. ASSUME NEW l \in Launches, SyncRejected(l) \/ SyncBegin(l) \/ LaunchDestroy(l) PROVE Worked'
  BY <1>1, <1>10 DEF SyncRejected, SyncBegin, LaunchDestroy, execVars, graphVars
<1>11. ASSUME NEW o \in Objects, HandleDestroy(o) PROVE Worked'
  BY <1>1, <1>11 DEF HandleDestroy, execVars, graphVars
<1>12. CASE UNCHANGED vars
  BY <1>1, <1>12 DEF vars, execVars, graphVars
<1> QED BY <1>3, <1>4, <1>5, <1>6, <1>7, <1>8, <1>9, <1>10, <1>11, <1>12
        DEF Next, CallerStep, Quiet

(* A step that answers nothing.                                             *)
LEMMA UnansweredKeeps ==
    ASSUME ReuseInv, Settled, UNCHANGED <<completed, report>>,
           \A l \in Launches : lstate'[l] \in {"live", "destroyed"} =>
               lstate[l] \in {"live", "destroyed"} \/ cbs'[l] # <<>>,
           \A l \in Launches : lstate'[l] = "destroyed" =>
               lstate[l] = "destroyed" \/ report[l] # "none" \/ "unsynced_destroy" \in Caller
    PROVE  Recorded' /\ Acknowledged' /\ SyncedFirst'
<1>1. Recorded'
  <2>1. TypeOK /\ Answered
    BY DEF ReuseInv, SyncInv, LaunchInv, LaunchShape
  <2>2. \A l \in Launches : cbs[l] # <<>> => cbs'[l] # <<>>
    BY <2>1, AnsweredStays
  <2> QED BY <2>2 DEF ReuseInv, Recorded
<1>2. Acknowledged'
  BY DEF ReuseInv, Acknowledged
<1>3. SyncedFirst'
  BY DEF ReuseInv, Acknowledged, SyncedFirst
<1> QED BY <1>1, <1>2, <1>3

(* Nor one that leaves the call in progress, and what it works on, alone.   *)
LEMMA MarkedKept ==
    ASSUME ReuseInv, Settled, call' = call, call.op = "encode" => UNCHANGED <<nodes, lexec>>
    PROVE  Marked'
<1> SUFFICES ASSUME call.op = "encode"
             PROVE  \/ call.work
                    \/ cbs'[call.l] # <<>>
                    \/ /\ NodesOf(call.l) # <<>>
                       /\ \A j \in DOMAIN NodesOf(call.l) : j < call.i => ~Encodes(NodesOf(call.l)[j])
  BY DEF Marked, NodesOf
<1>1. call.l \in Launches /\ TypeOK /\ Answered
  BY DEF ReuseInv, SyncInv, LaunchInv, CallConsistent, LaunchShape
<1>2. cbs[call.l] # <<>> => cbs'[call.l] # <<>>
  BY <1>1, AnsweredStays
<1> QED BY <1>2 DEF ReuseInv, Marked

(* A commit leaves its launch a command buffer.                             *)
LEMMA CommitRecords ==
    ASSUME TypeOK, NEW l \in Launches, NEW cmds, Commit(l, cmds)
    PROVE  cbs'[l] # <<>>
<1> DEFINE cb == [cmds |-> cmds, pos |-> 0, st |-> "committed"]
<1>1. cbs \in [Launches -> Seq(CommandBuffer)] /\ cbs' = [cbs EXCEPT ![l] = Append(cbs[l], cb)]
  BY DEF TypeOK, Commit
<1> HIDE DEF cb
<1>2. cbs'[l] = Append(cbs[l], cb) /\ cbs[l] \in Seq(CommandBuffer)
  BY <1>1
<1> QED BY <1>2

(* mgGraphLaunch commits the last segment only when work was marked: when   *)
(* nothing was, an MPSGraph node recorded a command buffer before.          *)
LEMMA ReturnRecords ==
    ASSUME ReuseInv, NEW l \in Launches, LaunchReturn(l)
    PROVE  cbs'[l] # <<>>
<1>0. /\ TypeOK /\ call \in CallRecord /\ nodes \in [Execs -> Seq(Node)]
      /\ call.op = "encode" /\ call.l = l /\ call.i > Len(NodesOf(l))
  BY DEF ReuseInv, SyncInv, LaunchInv, TypeOK, LaunchReturn, Encoding
<1>1. CASE call.work
  BY <1>0, <1>1, CommitRecords DEF LaunchReturn
<1>2. CASE ~call.work
  <2>1. cbs' = cbs
    BY <1>2 DEF LaunchReturn, gpuVars
  <2>2. lexec[l] \in Execs /\ NodesOf(l) \in Seq(Node) /\ HasWork(NodesOf(l))
    BY <1>0 DEF ReuseInv, SyncInv, LaunchInv, CallConsistent, NodesOf, Worked
  <2>3. \A j \in DOMAIN NodesOf(l) : j < call.i
    BY <1>0, <2>2 DEF CallRecord
  <2> QED BY <1>0, <1>2, <2>1, <2>2, <2>3 DEF ReuseInv, Marked, HasWork
<1> QED BY <1>1, <1>2

(* The steps of a call.                                                     *)
LEMMA HostReuse ==
    ASSUME ReuseInv, Settled, NEW l \in Launches, HostStep(l)
    PROVE  Marked' /\ Recorded' /\ Acknowledged' /\ SyncedFirst'
<1>0. /\ TypeOK /\ CallConsistent /\ call \in CallRecord
      /\ DOMAIN lstate = Launches /\ DOMAIN completed = Launches /\ DOMAIN report = Launches
  BY DEF ReuseInv, SyncInv, LaunchInv, TypeOK
<1>1. ASSUME NEW st \in {"live", "failed"}, lstate' = [lstate EXCEPT ![l] = st], call' = NoCall,
             st = "live" => cbs'[l] # <<>>, UNCHANGED <<completed, report>>
      PROVE  Marked' /\ Recorded' /\ Acknowledged' /\ SyncedFirst'
  <2>1. Marked'
    BY <1>1 DEF Marked, NoCall
  <2>2. \A m \in Launches : lstate'[m] = IF m = l THEN st ELSE lstate[m]
    BY <1>0, <1>1
  <2>3. \A m \in Launches : lstate'[m] \in {"live", "destroyed"} =>
            lstate[m] \in {"live", "destroyed"} \/ cbs'[m] # <<>>
    BY <1>1, <2>2
  <2>4. \A m \in Launches : lstate'[m] = "destroyed" => lstate[m] = "destroyed"
    BY <1>1, <2>2
  <2> QED BY <1>1, <2>1, <2>3, <2>4, UnansweredKeeps
<1>2. ASSUME UNCHANGED <<lstate, completed, report>>
      PROVE  Recorded' /\ Acknowledged' /\ SyncedFirst'
  BY <1>2, UnansweredKeeps
<1>3. CASE LaunchIcb(l)
  <2>1. /\ lstate' = [lstate EXCEPT ![l] = "live"] /\ call' = NoCall /\ UNCHANGED <<completed, report>>
        /\ Commit(l, icb[lexec[l]].captured)
    BY <1>3 DEF LaunchIcb, Returned
  <2> QED BY <1>0, <1>1, <2>1, CommitRecords
<1>4. CASE LaunchReturn(l)
  <2>1. /\ lstate' = [lstate EXCEPT ![l] = "live"] /\ call' = NoCall /\ UNCHANGED <<completed, report>>
    BY <1>4 DEF LaunchReturn, Returned
  <2> QED BY <1>1, <1>4, <2>1, ReturnRecords
<1>5. CASE LaunchFailEncode(l) \/ LaunchFailCommit(l) \/ LaunchFailWait(l)
  <2>1. Abandon(l)
    BY <1>5 DEF LaunchFailEncode, LaunchFailCommit, LaunchFailWait
  <2>2. /\ lstate' = [lstate EXCEPT ![l] = "failed"] /\ call' = NoCall /\ UNCHANGED <<completed, report>>
    BY <2>1 DEF Abandon
  <2> QED BY <1>1, <2>2
<1>6. CASE EncodeNode(l)
  <2> DEFINE n == NodesOf(l)[call.i]
  <2>1. /\ call.op = "encode" /\ call.l = l
        /\ UNCHANGED <<lstate, completed, report, nodes, lexec, cbs>>
        /\ call' = [[[call EXCEPT !.i = call.i + 1]
                          EXCEPT !.open = IF Encodes(n) THEN Append(call.open, CommandOf(n)) ELSE call.open]
                          EXCEPT !.work = call.work \/ MarksWork(n)]
    BY <1>6 DEF EncodeNode, AtNode, Encoding, execVars, gpuVars
  <2> HIDE DEF n
  <2>2. /\ call'.op = "encode" /\ call'.l = l /\ call'.i = call.i + 1
        /\ call'.work = (call.work \/ MarksWork(n))
    BY <1>0, <2>1 DEF CallRecord
  <2>3. CASE Encodes(n)
    BY <1>2, <2>1, <2>2, <2>3 DEF Marked, MarksWork
  <2>4. CASE ~Encodes(n) /\ ~call.work /\ cbs[l] = <<>>
    <3>1. /\ NodesOf(l) # <<>>
          /\ \A j \in DOMAIN NodesOf(l) : j < call.i => ~Encodes(NodesOf(l)[j])
      BY <2>1, <2>4 DEF ReuseInv, Marked
    <3>2. \A j \in DOMAIN NodesOf(l) : j \in Int
      BY <1>0, <2>1 DEF CallConsistent, NodesOf, TypeOK
    <3>3. \A j \in DOMAIN NodesOf(l) : j < call.i + 1 => ~Encodes(NodesOf(l)[j])
      BY <1>0, <2>4, <3>1, <3>2 DEF n, CallRecord
    <3>4. NodesOf(l)' = NodesOf(l)
      BY <2>1 DEF NodesOf
    <3> QED BY <1>2, <2>1, <2>2, <3>1, <3>3, <3>4 DEF Marked
  <2>5. CASE call.work \/ cbs[l] # <<>>
    BY <1>2, <2>1, <2>2, <2>5 DEF Marked
  <2> QED BY <2>3, <2>4, <2>5
<1>7. CASE EncodeMps(l)
  <2>1. /\ call.l = l /\ UNCHANGED <<lstate, completed, report>>
        /\ call' = [call EXCEPT !.i = @ + 1] /\ Commit(l, <<CommandOf(NodesOf(l)[call.i])>>)
    BY <1>7 DEF EncodeMps, AtNode, Encoding
  <2>2. call'.l = l
    BY <1>0, <2>1 DEF CallRecord
  <2>3. cbs'[l] # <<>>
    BY <1>0, <2>1, CommitRecords
  <2> QED BY <1>2, <2>1, <2>2, <2>3 DEF Marked
<1>8. CASE CommitBeforeMps(l)
  <2>1. /\ UNCHANGED <<lstate, completed, report>>
        /\ call' = [call EXCEPT !.op = "midwait", !.open = <<>>, !.work = FALSE]
    BY <1>8 DEF CommitBeforeMps, launchVars
  <2>2. call'.op = "midwait"
    BY <1>0, <2>1 DEF CallRecord
  <2> QED BY <1>2, <2>1, <2>2 DEF Marked
<1>9. CASE WaitBeforeMps(l)
  <2>1. /\ call.op = "midwait" /\ UNCHANGED <<lstate, completed, report, cbs>>
        /\ call' = [call EXCEPT !.op = "encode"]
    BY <1>9 DEF WaitBeforeMps, Encoding, launchVars, gpuVars
  <2>2. call'.l = call.l
    BY <1>0, <2>1 DEF CallRecord
  <2>3. cbs[call.l] # <<>>
    BY <2>1 DEF ReuseInv, LaunchShape, Answered
  <2> QED BY <1>2, <2>1, <2>2, <2>3 DEF Marked
<1>10. CASE SyncWait(l)
  <2>1. /\ call.op = "sync" /\ UNCHANGED <<lstate, completed, report>>
        /\ call' = [call EXCEPT !.i = @ + 1, !.err = @ \/ cbs[l][call.i].st = "error"]
    BY <1>10 DEF SyncWait, Encoding, launchVars
  <2>2. call'.op = "sync"
    BY <1>0, <2>1 DEF CallRecord
  <2> QED BY <1>2, <2>1, <2>2 DEF Marked
<1>11. CASE SyncReturn(l)
  <2>1. /\ UNCHANGED <<lstate, cbs>> /\ call' = NoCall
        /\ completed' = [completed EXCEPT ![l] = TRUE]
        /\ report' = [report EXCEPT ![l] = IF call.err THEN "backend_error" ELSE "ok"]
    BY <1>11 DEF SyncReturn, gpuVars
  <2>2. \A m \in Launches : completed'[m] = (m = l \/ completed[m]) /\ (m # l => report'[m] = report[m])
    <3>1. completed \in [Launches -> BOOLEAN]
      BY <1>0 DEF TypeOK
    <3> QED BY <1>0, <2>1, <3>1
  <2>3. Marked' /\ Recorded'
    BY <2>1 DEF Marked, NoCall, ReuseInv, Recorded
  <2>4. Acknowledged' /\ SyncedFirst'
    BY <2>1, <2>2 DEF ReuseInv, Acknowledged, SyncedFirst
  <2> QED BY <2>3, <2>4
<1> QED BY <1>3, <1>4, <1>5, <1>6, <1>7, <1>8, <1>9, <1>10, <1>11 DEF HostStep

(* Every step preserves the invariant; a synchronisation is never rejected. *)
LEMMA ReuseStep == ReuseInv /\ [Next]_vars => ReuseInv'
<1> SUFFICES ASSUME ReuseInv, [Next]_vars PROVE ReuseInv'
  OBVIOUS
<1>0. /\ SyncInv /\ LaunchShape /\ LaunchInv /\ TypeOK /\ Settled /\ DOMAIN lstate = Launches
  BY SettledStep DEF ReuseInv, SyncInv, LaunchInv, TypeOK
<1>1. SyncInv' /\ LaunchShape' /\ Worked'
  BY <1>0, SyncStep, ShapeStep, WorkedStep DEF ReuseInv
<1> DEFINE Rest == Marked' /\ Recorded' /\ Acknowledged' /\ SyncedFirst'
<1>2. ASSUME UNCHANGED <<lstate, completed, report, call>>, call.op = "encode" => UNCHANGED <<nodes, lexec>>
      PROVE  Rest
  BY <1>0, <1>2, MarkedKept, UnansweredKeeps
<1>3. ASSUME NEW l \in Launches, HostStep(l) PROVE Rest
  BY <1>0, <1>3, HostReuse
<1>4. ASSUME NEW s \in Streams, GpuStep(s) PROVE Rest
  BY <1>2, <1>4 DEF GpuStep, GpuExecute, GpuComplete, GpuFail, GpuEnd, execVars, launchVars
<1>5. ASSUME NEW e \in Execs, NEW made \in BOOLEAN, Instantiate(e, made) PROVE Rest
  BY <1>2, <1>5 DEF Instantiate, Idle, launchVars
<1>6. ASSUME NEW e \in Execs, GraphDestroy(e) \/ ExecDestroy(e) PROVE Rest
  BY <1>2, <1>6 DEF GraphDestroy, ExecDestroy, Idle, launchVars
<1>7. ASSUME NEW e \in Execs, Patch(e) PROVE Rest
  BY <1>0, <1>2, <1>7, PatchForm DEF Patched, SetOptimizationFlags, Idle, launchVars
<1>8. ASSUME NEW o \in Objects, HandleDestroy(o) PROVE Rest
  BY <1>2, <1>8 DEF HandleDestroy, Idle, launchVars
<1>9. ASSUME NEW e \in Execs, NEW s \in Streams, NEW l \in Launches, LaunchBegin(e, s, l) PROVE Rest
  <2>1. /\ lstate[l] = "none" /\ lstate' = [lstate EXCEPT ![l] = "encoding"]
        /\ lexec' = [lexec EXCEPT ![l] = e] /\ UNCHANGED <<completed, report, nodes>>
        /\ call'.l = l /\ call'.i = 1 /\ call'.work = (nodes[e] = <<>>)
    BY <1>9 DEF LaunchBegin, NoCall
  <2>2. Marked'
    <3>1. nodes[e] \in Seq(Node) /\ lexec'[l] = e
      BY <1>0, <2>1 DEF TypeOK
    <3>2. NodesOf(l)' = nodes[e] /\ \A j \in DOMAIN nodes[e] : ~(j < 1)
      BY <2>1, <3>1 DEF NodesOf
    <3> QED BY <2>1, <3>2 DEF Marked
  <2>3. \A m \in Launches : lstate'[m] \in {"live", "destroyed"} => lstate'[m] = lstate[m]
    BY <1>0, <2>1
  <2> QED BY <1>0, <2>1, <2>2, <2>3, UnansweredKeeps
<1>10. ASSUME NEW l \in Launches, SyncRejected(l) PROVE FALSE
  BY <1>10 DEF SyncRejected, ReuseInv, Recorded
<1>11. ASSUME NEW l \in Launches, SyncBegin(l) PROVE Rest
  <2>1. UNCHANGED <<lstate, completed, report>> /\ call'.op = "sync"
    BY <1>11 DEF SyncBegin, launchVars, NoCall
  <2> QED BY <1>0, <2>1, UnansweredKeeps DEF Marked
<1>12. ASSUME NEW l \in Launches, LaunchDestroy(l) PROVE Rest
  <2>1. /\ call' = call /\ call.op = "idle" /\ lstate[l] = "live" /\ UNCHANGED <<completed, report>>
        /\ report[l] # "none" \/ "unsynced_destroy" \in Caller
        /\ lstate' = [lstate EXCEPT ![l] = "destroyed"]
    BY <1>12 DEF LaunchDestroy, Idle
  <2>2. \A m \in Launches : m # l => lstate'[m] = lstate[m]
    BY <1>0, <2>1
  <2>3. \A m \in Launches : lstate'[m] \in {"live", "destroyed"} => lstate[m] \in {"live", "destroyed"}
    BY <2>1, <2>2
  <2>4. \A m \in Launches : lstate'[m] = "destroyed" =>
            lstate[m] = "destroyed" \/ report[m] # "none" \/ "unsynced_destroy" \in Caller
    BY <2>1, <2>2
  <2>5. Recorded' /\ Acknowledged' /\ SyncedFirst'
    BY <1>0, <2>1, <2>3, <2>4, UnansweredKeeps
  <2> QED BY <2>1, <2>5 DEF Marked
<1>13. ASSUME UNCHANGED vars PROVE Rest
  BY <1>2, <1>13 DEF vars, execVars, launchVars
<1> HIDE DEF Rest
<1>14. Rest
  BY <1>3, <1>4, <1>5, <1>6, <1>7, <1>8, <1>9, <1>10, <1>11, <1>12, <1>13
     DEF Next, CallerStep, Quiet
<1>15. ReuseInv'
  BY <1>1, <1>14 DEF ReuseInv, Rest
<1> QED BY <1>15

(* At the start no launch was made.                                         *)
LEMMA ReuseInit == (\A p \in Programs : HasWork(p)) /\ Init => ReuseInv
<1> SUFFICES ASSUME \A p \in Programs : HasWork(p), Init PROVE ReuseInv
  OBVIOUS
<1>1. SyncInv /\ LaunchShape
  <2>1. LaunchShape
    BY NoneAssumption DEF Init, LaunchShape, Owned, Encoder, Segment, Answered, NoCall
  <2> QED BY <2>1, SyncInit
<1>2. Worked
  BY DEF Init, Worked, HasWork
<1>3. Marked /\ Recorded /\ Acknowledged /\ SyncedFirst
  BY DEF Init, Marked, Recorded, Acknowledged, SyncedFirst, NoCall
<1> QED BY <1>1, <1>2, <1>3 DEF ReuseInv

(* in_flight_count is 0 when every launch that was returned is complete.    *)
LEMMA AllComplete ==
    ASSUME LaunchInv, NEW e \in Execs,
           \A l \in Launches : lexec[l] = e /\ lstate[l] \in {"live", "destroyed"} => completed[l]
    PROVE  PatchReady(e)
<1>1. InFlightOf(e) = {}
  BY DEF InFlightOf, InFlight
<1>2. Cardinality(InFlightOf(e)) = 0
  BY <1>1, FS_EmptySet
<1> QED BY <1>2 DEF LaunchInv, InFlightAccounting, InFlightOf, PatchReady

(* ReusableAfterSync: whatever fails, an exec takes patches again once      *)
(* mgLaunchSynchronize has answered for each of its launches, provided its  *)
(* graph encodes something. (A graph of barriers and workspace nodes alone  *)
(* does not: its launch cannot be synchronised. Run BarrierSync shows it.)  *)
THEOREM ReusableWhenSynced ==
    ASSUME \A p \in Programs : HasWork(p)
    PROVE  Spec => []ReusableAfterSync
<1>1. Init => ReuseInv
  BY ReuseInit
<1>2. ReuseInv => ReusableAfterSync
  BY AllComplete DEF ReuseInv, SyncInv, Acknowledged, ReusableAfterSync
<1> QED BY <1>1, <1>2, ReuseStep, PTL DEF Spec

(* ReusableAfterCompletion: an exec none of whose launches is held without  *)
(* having been synchronised takes patches again once the GPU has finished,  *)
(* provided besides that no launch is destroyed before it was synchronised. *)
(* (Run UnsyncedDestroy shows what such a destruction does.)                *)
THEOREM ReusableWhenCompleted ==
    ASSUME \A p \in Programs : HasWork(p), "unsynced_destroy" \notin Caller
    PROVE  Spec => []ReusableAfterCompletion
<1>1. Init => ReuseInv
  BY ReuseInit
<1>2. ReuseInv => ReusableAfterCompletion
  <2> SUFFICES ASSUME ReuseInv, NEW e \in Execs,
                      \A l \in Launches : lexec[l] = e =>
                          (lstate[l] # "encoding" /\ ~Outstanding(l) /\ AllFinished(l))
               PROVE  PatchReady(e)
    BY DEF ReusableAfterCompletion
  <2>1. ASSUME NEW l \in Launches, lexec[l] = e, lstate[l] \in {"live", "destroyed"}
        PROVE  completed[l]
    BY <2>1 DEF ReuseInv, SyncedFirst, Outstanding
  <2> QED BY <2>1, AllComplete DEF ReuseInv, SyncInv
<1> QED BY <1>1, <1>2, ReuseStep, PTL DEF Spec

=============================================================================
