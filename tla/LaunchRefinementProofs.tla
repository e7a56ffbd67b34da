------------------------ MODULE LaunchRefinementProofs ------------------------
(***************************************************************************)
(* GraphLaunch implements LaunchContract, for any number of execs,         *)
(* launches, streams and nodes: the order of the command buffers in the    *)
(* streams, the laws of FlattenSeq, what a commit, a patch and a step of   *)
(* the GPU do to the script of a launch, and every action as an action of  *)
(* the contract or a step it does not see.                                 *)
(***************************************************************************)
EXTENDS RefCountProofs, LaunchRefinement, BoundedInduction, SequenceTheorems

(* The order of command buffers in the streams.                             *)

(* A queue holds command buffers of launches made on its stream, those of   *)
(* one launch in the order in which they were committed.                    *)
OnStream ==
    \A s \in Streams : \A x \in DOMAIN queue[s] : lstream[queue[s][x][1]] = s

Fifo ==
    \A s \in Streams : \A x, y \in DOMAIN queue[s] :
        x < y /\ queue[s][x][1] = queue[s][y][1] => queue[s][x][2] < queue[s][y][2]

(* A command buffer that has not ended is in a queue.                       *)
AllQueued ==
    \A l \in Launches : \A k \in DOMAIN cbs[l] : cbs[l][k].st = "committed" =>
        \E s \in Streams : \E x \in DOMAIN queue[s] : queue[s][x] = <<l, k>>

(* A command buffer does not run past its end, nor complete before it.      *)
Progressed ==
    \A l \in Launches : \A k \in DOMAIN cbs[l] :
        /\ cbs[l][k].pos <= Len(cbs[l][k].cmds)
        /\ cbs[l][k].st = "completed" => cbs[l][k].pos = Len(cbs[l][k].cmds)

(* None of a launch starts before those committed earlier have ended.       *)
InOrder ==
    \A l \in Launches : \A k, m \in DOMAIN cbs[l] :
        k < m /\ cbs[l][k].st = "committed" => cbs[l][m].pos = 0 /\ cbs[l][m].st = "committed"

StreamOrder == OnStream /\ Fifo /\ AllQueued /\ Progressed /\ InOrder

(* What a commit does to one launch and one queue.                          *)
LEMMA CommitForm ==
    ASSUME TypeOK, NEW l \in Launches, NEW cmds, Commit(l, cmds), lstream[l] \in Streams
    PROVE  LET n == Len(cbs[l]) IN
           /\ n \in Nat /\ DOMAIN cbs[l] = 1..n /\ DOMAIN cbs'[l] = 1..(n + 1)
           /\ cbs'[l][n + 1] = [cmds |-> cmds, pos |-> 0, st |-> "committed"]
           /\ \A m \in Launches : \A k \in DOMAIN cbs[m] : k \in DOMAIN cbs'[m] /\ cbs'[m][k] = cbs[m][k]
           /\ \A m \in Launches : m # l => cbs'[m] = cbs[m]
           /\ \A s \in Streams :
                 /\ DOMAIN queue[s] = 1..Len(queue[s]) /\ Len(queue[s]) \in Nat
                 /\ \A x \in DOMAIN queue[s] : x \in DOMAIN queue'[s] /\ queue'[s][x] = queue[s][x]
                 /\ \A x \in DOMAIN queue'[s] :
                       x \in DOMAIN queue[s] \/ (s = lstream[l] /\ x = Len(queue[s]) + 1)
           /\ Len(queue[lstream[l]]) + 1 \in DOMAIN queue'[lstream[l]]
           /\ queue'[lstream[l]][Len(queue[lstream[l]]) + 1] = <<l, n + 1>>
<1> DEFINE n    == Len(cbs[l])
           cb   == [cmds |-> cmds, pos |-> 0, st |-> "committed"]
           item == <<l, n + 1>>
           t    == lstream[l]
<1>1. /\ cbs \in [Launches -> Seq(CommandBuffer)] /\ queue \in [Streams -> Seq(Launches \X Nat)]
      /\ cbs' = [cbs EXCEPT ![l] = Append(cbs[l], cb)]
      /\ queue' = [queue EXCEPT ![t] = Append(queue[t], item)]
  BY DEF TypeOK, Commit
<1> HIDE DEF cb, item
<1>2. /\ cbs'[l] = Append(cbs[l], cb) /\ cbs[l] \in Seq(CommandBuffer)
      /\ \A m \in Launches : m # l => cbs'[m] = cbs[m]
  BY <1>1
<1>3. /\ n \in Nat /\ DOMAIN cbs[l] = 1..n /\ DOMAIN cbs'[l] = 1..(n + 1)
      /\ cbs'[l][n + 1] = cb /\ \A k \in 1..n : cbs'[l][k] = cbs[l][k]
  BY <1>2
<1>4. ASSUME NEW m \in Launches, NEW k \in DOMAIN cbs[m]
      PROVE  k \in DOMAIN cbs'[m] /\ cbs'[m][k] = cbs[m][k]
  BY <1>2, <1>3
<1>5. /\ queue'[t] = Append(queue[t], item) /\ queue[t] \in Seq(Launches \X Nat)
      /\ \A s \in Streams : s # t => queue'[s] = queue[s]
  BY <1>1
<1>6. /\ DOMAIN queue[t] = 1..Len(queue[t]) /\ DOMAIN queue'[t] = 1..(Len(queue[t]) + 1)
      /\ Len(queue[t]) \in Nat
      /\ queue'[t][Len(queue[t]) + 1] = item /\ \A x \in 1..Len(queue[t]) : queue'[t][x] = queue[t][x]
  BY <1>5
<1> HIDE DEF t
<1>7. ASSUME NEW s \in Streams
      PROVE  /\ DOMAIN queue[s] = 1..Len(queue[s]) /\ Len(queue[s]) \in Nat
             /\ \A x \in DOMAIN queue[s] : x \in DOMAIN queue'[s] /\ queue'[s][x] = queue[s][x]
             /\ \A x \in DOMAIN queue'[s] :
                   x \in DOMAIN queue[s] \/ (s = t /\ x = Len(queue[s]) + 1)
  <2>1. CASE s = t
    BY <1>6, <2>1
  <2>2. CASE s # t
    BY <1>1, <1>5, <2>2
  <2> QED BY <2>1, <2>2
<1>8. Len(queue[t]) + 1 \in DOMAIN queue'[t] /\ queue'[t][Len(queue[t]) + 1] = item
  BY <1>6
<1> QED BY <1>2, <1>3, <1>4, <1>7, <1>8 DEF item, cb, t

(* A commit goes behind everything the launch committed before.             *)
LEMMA CommitInOrder ==
    ASSUME LaunchInv, StreamOrder, UNCHANGED lstream,
           NEW l \in Launches, NEW cmds \in Seq(Command), Commit(l, cmds), lstream[l] \in Streams
    PROVE  StreamOrder'
<1> DEFINE n == Len(cbs[l])
           t == lstream[l]
           q == Len(queue[t]) + 1
<1>0. TypeOK /\ QueueConsistent
  BY DEF LaunchInv
<1>1. /\ n \in Nat /\ DOMAIN cbs[l] = 1..n /\ DOMAIN cbs'[l] = 1..(n + 1)
      /\ cbs'[l][n + 1] = [cmds |-> cmds, pos |-> 0, st |-> "committed"]
      /\ \A m \in Launches : m # l => cbs'[m] = cbs[m]
  BY <1>0, CommitForm
<1>2. \A m \in Launches : \A k \in DOMAIN cbs[m] : k \in DOMAIN cbs'[m] /\ cbs'[m][k] = cbs[m][k]
  BY <1>0, CommitForm
<1>3. ASSUME NEW s \in Streams
      PROVE  /\ DOMAIN queue[s] = 1..Len(queue[s]) /\ Len(queue[s]) \in Nat
             /\ \A x \in DOMAIN queue[s] : x \in DOMAIN queue'[s] /\ queue'[s][x] = queue[s][x]
             /\ \A x \in DOMAIN queue'[s] : x \in DOMAIN queue[s] \/ (s = t /\ x = q)
  <2>1. \A u \in Streams :
            /\ DOMAIN queue[u] = 1..Len(queue[u]) /\ Len(queue[u]) \in Nat
            /\ \A x \in DOMAIN queue[u] : x \in DOMAIN queue'[u] /\ queue'[u][x] = queue[u][x]
            /\ \A x \in DOMAIN queue'[u] :
                  x \in DOMAIN queue[u] \/ (u = lstream[l] /\ x = Len(queue[u]) + 1)
    BY <1>0, CommitForm
  <2> QED BY <2>1
<1>4. q \in DOMAIN queue'[t] /\ queue'[t][q] = <<l, n + 1>>
  BY <1>0, CommitForm
<1>5. ASSUME NEW m \in Launches, NEW k \in DOMAIN cbs'[m]
      PROVE  \/ k \in DOMAIN cbs[m]
             \/ m = l /\ k = n + 1 /\ cbs'[m][k].pos = 0 /\ cbs'[m][k].st = "committed"
                  /\ cbs'[m][k].cmds = cmds
  BY <1>1
<1> HIDE DEF t, q
<1>6. OnStream'
  <2> SUFFICES ASSUME NEW s \in Streams, NEW x \in DOMAIN queue'[s] PROVE lstream[queue'[s][x][1]] = s
    BY DEF OnStream
  <2>1. CASE x \in DOMAIN queue[s]
    BY <1>3, <2>1 DEF StreamOrder, OnStream
  <2>2. CASE s = t /\ x = q
    BY <1>4, <2>2 DEF t
  <2> QED BY <1>3, <2>1, <2>2
<1>7. Fifo'
  <2> SUFFICES ASSUME NEW s \in Streams, NEW x \in DOMAIN queue'[s], NEW y \in DOMAIN queue'[s],
                      x < y, queue'[s][x][1] = queue'[s][y][1]
               PROVE  queue'[s][x][2] < queue'[s][y][2]
    BY DEF Fifo
  <2>0. x \in Int /\ y \in Int /\ (s = t => \A z \in DOMAIN queue[s] : z < q)
    BY <1>3 DEF q
  <2>1. CASE x \in DOMAIN queue[s] /\ y \in DOMAIN queue[s]
    BY <1>3, <2>1 DEF StreamOrder, Fifo
  <2>2. CASE x \in DOMAIN queue[s] /\ s = t /\ y = q
    <3>1. queue'[s][x] = queue[s][x] /\ queue[s][x][1] = l
      BY <1>3, <1>4, <2>2
    <3>2. queue[s][x][2] \in 1..n
      BY <1>0, <1>1, <2>2, <3>1 DEF QueueConsistent
    <3> QED BY <1>1, <1>4, <2>2, <3>1, <3>2
  <2>3. CASE s = t /\ x = q
    <3>1. y \in DOMAIN queue[s] \/ y = q
      BY <1>3
    <3> QED BY <2>0, <2>3, <3>1
  <2> QED BY <1>3, <2>1, <2>2, <2>3
<1>8. AllQueued'
  <2> SUFFICES ASSUME NEW m \in Launches, NEW k \in DOMAIN cbs'[m], cbs'[m][k].st = "committed"
               PROVE  \E s \in Streams : \E x \in DOMAIN queue'[s] : queue'[s][x] = <<m, k>>
    BY DEF AllQueued
  <2>1. CASE k \in DOMAIN cbs[m]
    <3>1. PICK s \in Streams : \E x \in DOMAIN queue[s] : queue[s][x] = <<m, k>>
      BY <1>2, <2>1 DEF StreamOrder, AllQueued
    <3> QED BY <1>3, <3>1
  <2>2. CASE m = l /\ k = n + 1
    <3>1. t \in Streams
      BY DEF t
    <3> QED BY <1>4, <2>2, <3>1
  <2> QED BY <1>5, <2>1, <2>2
<1>9. Progressed'
  <2> SUFFICES ASSUME NEW m \in Launches, NEW k \in DOMAIN cbs'[m]
               PROVE  /\ cbs'[m][k].pos <= Len(cbs'[m][k].cmds)
                      /\ cbs'[m][k].st = "completed" => cbs'[m][k].pos = Len(cbs'[m][k].cmds)
    BY DEF Progressed
  <2>1. CASE k \in DOMAIN cbs[m]
    BY <1>2, <2>1 DEF StreamOrder, Progressed
  <2>2. CASE cbs'[m][k].pos = 0 /\ cbs'[m][k].st = "committed" /\ cbs'[m][k].cmds = cmds
    BY <2>2
  <2> QED BY <1>5, <2>1, <2>2
<1>10. InOrder'
  <2> SUFFICES ASSUME NEW m \in Launches, NEW j \in DOMAIN cbs'[m], NEW k \in DOMAIN cbs'[m],
                      j < k, cbs'[m][j].st = "committed"
               PROVE  cbs'[m][k].pos = 0 /\ cbs'[m][k].st = "committed"
    BY DEF InOrder
  <2>1. CASE k \in DOMAIN cbs[m]
    <3>1. j \in DOMAIN cbs[m]
      <4>1. CASE m = l
        BY <1>1, <2>1, <4>1
      <4>2. CASE m # l
        BY <1>1, <4>2
      <4> QED BY <4>1, <4>2
    <3> QED BY <1>2, <2>1, <3>1 DEF StreamOrder, InOrder
  <2> QED BY <1>5, <2>1
<1> QED BY <1>6, <1>7, <1>8, <1>9, <1>10 DEF StreamOrder

(* The command buffer at the head of a queue is the first of its launch     *)
(* that has not ended, and no later one has started.                        *)
LEMMA HeadFirst ==
    ASSUME LaunchInv, QueuePending, QueueDistinct, StreamOrder, NEW s \in Streams, queue[s] # <<>>,
           NEW l, NEW k, HeadRef(s) = <<l, k>>
    PROVE  /\ l \in Launches /\ k \in DOMAIN cbs[l] /\ cbs[l][k].st = "committed"
           /\ 1 \in DOMAIN queue[s] /\ queue[s][1] = <<l, k>> /\ queue[s] \in Seq(Launches \X Nat)
           /\ \A j \in DOMAIN cbs[l] : j < k => Finished(cbs[l][j])
           /\ \A j \in DOMAIN cbs[l] : k < j => cbs[l][j].pos = 0 /\ cbs[l][j].st = "committed"
<1>1. /\ queue \in [Streams -> Seq(Launches \X Nat)] /\ cbs \in [Launches -> Seq(CommandBuffer)]
      /\ QueueConsistent
  BY DEF LaunchInv, TypeOK
<1>2. 1 \in DOMAIN queue[s] /\ queue[s][1] = <<l, k>> /\ queue[s] \in Seq(Launches \X Nat)
      /\ DOMAIN queue[s] = 1..Len(queue[s])
  BY <1>1 DEF HeadRef
<1>3. l \in Launches /\ k \in Nat /\ k \in DOMAIN cbs[l] /\ queue[s][1][1] = l /\ queue[s][1][2] = k
  <2>1. queue[s][1] \in Launches \X Nat
    BY <1>2
  <2>2. queue[s][1][1] = l /\ queue[s][1][2] = k
    BY <1>2
  <2>3. queue[s][1][2] \in DOMAIN cbs[queue[s][1][1]]
    BY <1>1, <1>2 DEF QueueConsistent
  <2> QED BY <2>1, <2>2, <2>3
<1>4. cbs[l][k].st = "committed"
  <2>1. CbAt(cbs, queue[s][1]).st = "committed"
    BY <1>2 DEF QueuePending
  <2> QED BY <1>2, <2>1 DEF CbAt
<1>5. ASSUME NEW j \in DOMAIN cbs[l], j < k PROVE Finished(cbs[l][j])
  <2>1. cbs[l][j] \in CommandBuffer
    BY <1>1, <1>3
  <2>2. CASE cbs[l][j].st = "committed"
    <3>1. PICK t \in Streams : \E x \in DOMAIN queue[t] : queue[t][x] = <<l, j>>
      BY <1>3, <2>2 DEF StreamOrder, AllQueued
    <3>2. PICK x \in DOMAIN queue[t] : queue[t][x] = <<l, j>>
      BY <3>1
    <3>3. t = s
      BY <1>2, <3>2 DEF StreamOrder, OnStream
    <3>4. j \in Int /\ k \in Int
      BY <1>1, <1>3
    <3>5. x # 1
      BY <1>2, <1>5, <3>2, <3>3, <3>4
    <3>6. 1 < x
      BY <1>2, <3>3, <3>5
    <3>7. k < j
      <4>1. queue[s][x][1] = l /\ queue[s][x][2] = j /\ x \in DOMAIN queue[s]
        BY <3>2, <3>3
      <4> QED BY <1>2, <1>3, <3>6, <4>1 DEF StreamOrder, Fifo
    <3> QED BY <1>5, <3>4, <3>7
  <2> QED BY <2>1, <2>2 DEF Finished, CommandBuffer
<1>6. ASSUME NEW j \in DOMAIN cbs[l], k < j PROVE cbs[l][j].pos = 0 /\ cbs[l][j].st = "committed"
  BY <1>3, <1>4, <1>6 DEF StreamOrder, InOrder
<1> QED BY <1>2, <1>3, <1>4, <1>5, <1>6

(* What a step of the GPU does to the head of a stream.                     *)
GpuEffect(s, l, k, cb) ==
    /\ cbs' = [cbs EXCEPT ![l] = [cbs[l] EXCEPT ![k] = cb]]
    /\ cb.cmds = cbs[l][k].cmds
    /\ \/ /\ cb.pos = cbs[l][k].pos + 1 /\ cb.pos <= Len(cb.cmds) /\ cb.st = "committed"
          /\ queue' = queue
       \/ /\ cb.pos = cbs[l][k].pos
          /\ (cb.st = "completed" /\ cb.pos = Len(cb.cmds)) \/ (cb.st = "error" /\ GpuFaults)
          /\ queue' = [queue EXCEPT ![s] = Tail(queue[s])]

(* A step of the GPU does that to the command buffer at the head of a stream. *)
LEMMA GpuForm ==
    ASSUME LaunchInv, QueuePending, QueueDistinct, StreamOrder, NEW s \in Streams, GpuStep(s)
    PROVE  /\ queue[s] # <<>>
           /\ \E l \in Launches : \E k \in DOMAIN cbs[l] : \E cb \in CommandBuffer :
                 HeadRef(s) = <<l, k>> /\ GpuEffect(s, l, k, cb)
<1>1. /\ cbs \in [Launches -> Seq(CommandBuffer)] /\ queue \in [Streams -> Seq(Launches \X Nat)]
      /\ QueueConsistent
  BY DEF LaunchInv, TypeOK
<1>2. queue[s] # <<>> /\ queue[s] \in Seq(Launches \X Nat) /\ 1 \in DOMAIN queue[s]
  <2>1. queue[s] # <<>>
    BY Zenon DEF GpuStep, GpuExecute, GpuComplete, GpuFail
  <2>2. queue[s] \in Seq(Launches \X Nat)
    BY <1>1
  <2> QED BY <2>1, <2>2
<1>3. PICK l \in Launches, k \in Nat : HeadRef(s) = <<l, k>>
  BY <1>2 DEF HeadRef
<1>4. k \in DOMAIN cbs[l] /\ cbs[l][k].st = "committed" /\ HeadRef(s)[1] = l /\ HeadRef(s)[2] = k
  BY <1>2, <1>3, HeadFirst
<1> DEFINE old == cbs[l][k]
<1>5. /\ old \in CommandBuffer /\ old.pos \in Nat /\ Len(old.cmds) \in Nat
      /\ old.pos <= Len(old.cmds) /\ HeadBuffer(s) = old
  <2>1. old \in CommandBuffer
    BY <1>1, <1>4
  <2>2. old.pos <= Len(old.cmds)
    BY <1>4 DEF StreamOrder, Progressed
  <2> QED BY <1>4, <2>1, <2>2 DEF CommandBuffer, HeadBuffer
<1>6. CASE GpuExecute(s)
  <2> DEFINE cb == [old EXCEPT !.pos = old.pos + 1]
  <2>1. cbs' = [cbs EXCEPT ![l] = [cbs[l] EXCEPT ![k] = cb]] /\ queue' = queue /\ old.pos < Len(old.cmds)
    BY <1>4, <1>5, <1>6 DEF GpuExecute
  <2>2. cb \in CommandBuffer /\ cb.pos = old.pos + 1 /\ cb.cmds = old.cmds /\ cb.st = "committed"
    BY <1>4, <1>5 DEF CommandBuffer
  <2> HIDE DEF cb, old
  <2>3. GpuEffect(s, l, k, cb)
    BY <1>5, <2>1, <2>2 DEF GpuEffect, old
  <2> QED BY <1>2, <1>3, <1>4, <2>2, <2>3
<1>7. ASSUME NEW st \in {"completed", "error"}, GpuEnd(s, st),
             st = "completed" => old.pos = Len(old.cmds), st = "error" => GpuFaults
      PROVE  \E m \in Launches : \E j \in DOMAIN cbs[m] : \E cb \in CommandBuffer :
                HeadRef(s) = <<m, j>> /\ GpuEffect(s, m, j, cb)
  <2> DEFINE cb == [old EXCEPT !.st = st]
  <2>1. cbs' = [cbs EXCEPT ![l] = [cbs[l] EXCEPT ![k] = cb]]
        /\ queue' = [queue EXCEPT ![s] = Tail(queue[s])]
    BY <1>4, <1>7 DEF GpuEnd
  <2>2. cb \in CommandBuffer /\ cb.pos = old.pos /\ cb.cmds = old.cmds /\ cb.st = st
    BY <1>5, <1>7 DEF CommandBuffer
  <2> HIDE DEF cb, old
  <2>3. GpuEffect(s, l, k, cb)
    BY <1>5, <1>7, <2>1, <2>2 DEF GpuEffect, old
  <2> QED BY <1>3, <1>4, <2>2, <2>3
<1>8. CASE GpuComplete(s)
  BY <1>2, <1>5, <1>7, <1>8 DEF GpuComplete
<1>9. CASE GpuFail(s)
  BY <1>2, <1>7, <1>9 DEF GpuFail
<1> QED BY <1>6, <1>8, <1>9 DEF GpuStep

(* What is left in a queue when its head goes.                              *)
LEMMA HeadGone ==
    ASSUME TypeOK, QueueDistinct, NEW s \in Streams, queue[s] # <<>>,
           queue' = [queue EXCEPT ![s] = Tail(queue[s])],
           NEW t \in Streams
    PROVE  /\ \A x \in DOMAIN queue[t] : x \in Nat
           /\ \A x \in DOMAIN queue'[t] :
                  LET y == IF t = s THEN x + 1 ELSE x IN
                  x \in Nat /\ y \in DOMAIN queue[t] /\ queue'[t][x] = queue[t][y]
           /\ \A y \in DOMAIN queue[t] : queue[t][y] # HeadRef(s) =>
                  \E x \in DOMAIN queue'[t] : queue'[t][x] = queue[t][y]
<1>1. queue \in [Streams -> Seq(Launches \X Nat)] /\ queue[t] \in Seq(Launches \X Nat)
  BY DEF TypeOK
<1>2. CASE t = s
  <2>1. queue'[t] = Tail(queue[t]) /\ queue[t] # <<>>
    BY <1>1, <1>2
  <2>2. /\ DOMAIN queue[t] = 1..Len(queue[t]) /\ Len(queue[t]) \in Nat
        /\ DOMAIN queue'[t] = 1..(Len(queue[t]) - 1)
        /\ \A x \in 1..(Len(queue[t]) - 1) : queue'[t][x] = queue[t][x + 1]
    BY <1>1, <2>1
  <2>3. ASSUME NEW y \in DOMAIN queue[t], queue[t][y] # HeadRef(s)
        PROVE  \E x \in DOMAIN queue'[t] : queue'[t][x] = queue[t][y]
    <3>1. y # 1
      BY <1>2, <2>3 DEF HeadRef
    <3>2. y - 1 \in DOMAIN queue'[t] /\ queue'[t][y - 1] = queue[t][y]
      <4>1. y - 1 \in 1..(Len(queue[t]) - 1) /\ (y - 1) + 1 = y
        BY <2>2, <3>1
      <4> QED BY <2>2, <4>1
    <3> QED BY <3>2
  <2> QED BY <1>2, <2>2, <2>3
<1>3. CASE t # s
  <2>1. queue'[t] = queue[t]
    BY <1>1, <1>3
  <2>2. \A x \in DOMAIN queue[t] : x \in Nat
    BY <1>1
  <2> QED BY <1>3, <2>1, <2>2
<1> QED BY <1>2, <1>3

(* What a step of the GPU does to the command buffers.                      *)
LEMMA GpuChange ==
    ASSUME LaunchInv, NEW s \in Streams, NEW l \in Launches, NEW k \in DOMAIN cbs[l],
           NEW cb \in CommandBuffer, GpuEffect(s, l, k, cb)
    PROVE  /\ cbs'[l] = [cbs[l] EXCEPT ![k] = cb] /\ cbs'[l][k] = cb
           /\ \A m \in Launches : DOMAIN cbs'[m] = DOMAIN cbs[m]
           /\ \A m \in Launches : m # l => cbs'[m] = cbs[m]
           /\ \A m \in Launches : \A j \in DOMAIN cbs[m] : m # l \/ j # k => cbs'[m][j] = cbs[m][j]
<1>1. cbs \in [Launches -> Seq(CommandBuffer)]
  BY DEF LaunchInv, TypeOK
<1> QED BY <1>1 DEF GpuEffect

(* The GPU takes the first unfinished command buffer of a launch.           *)
LEMMA GpuInOrder ==
    ASSUME LaunchInv, QueuePending, QueueDistinct, StreamOrder, UNCHANGED lstream,
           NEW s \in Streams, GpuStep(s)
    PROVE  StreamOrder'
<1>0. TypeOK /\ QueueConsistent
  BY DEF LaunchInv
<1>01. PICK l \in Launches : \E k \in DOMAIN cbs[l] : \E cb \in CommandBuffer :
          HeadRef(s) = <<l, k>> /\ GpuEffect(s, l, k, cb)
  BY GpuForm
<1>1. PICK k \in DOMAIN cbs[l], cb \in CommandBuffer :
         HeadRef(s) = <<l, k>> /\ GpuEffect(s, l, k, cb)
  BY <1>01
<1>2. queue[s] # <<>>
  BY GpuForm
<1>3. /\ cbs[l][k].st = "committed"
      /\ \A j \in DOMAIN cbs[l] : j < k => Finished(cbs[l][j])
      /\ \A j \in DOMAIN cbs[l] : k < j => cbs[l][j].pos = 0 /\ cbs[l][j].st = "committed"
  BY <1>1, <1>2, HeadFirst
<1>4. /\ cbs'[l][k] = cb /\ \A m \in Launches : DOMAIN cbs'[m] = DOMAIN cbs[m]
      /\ \A m \in Launches : \A j \in DOMAIN cbs[m] : m # l \/ j # k => cbs'[m][j] = cbs[m][j]
  <2>1. GpuEffect(s, l, k, cb)
    BY <1>1
  <2>2. /\ cbs'[l] = [cbs[l] EXCEPT ![k] = cb] /\ cbs'[l][k] = cb
        /\ \A m \in Launches : DOMAIN cbs'[m] = DOMAIN cbs[m]
        /\ \A m \in Launches : m # l => cbs'[m] = cbs[m]
        /\ \A m \in Launches : \A j \in DOMAIN cbs[m] : m # l \/ j # k => cbs'[m][j] = cbs[m][j]
    BY <2>1, GpuChange
  <2> QED BY <2>2
<1>5. /\ cb.pos \in Nat /\ Len(cb.cmds) \in Nat /\ cb.cmds = cbs[l][k].cmds
      /\ cb.pos <= Len(cb.cmds) /\ (cb.st = "completed" => cb.pos = Len(cb.cmds))
  <2>1. cb.pos \in Nat /\ Len(cb.cmds) \in Nat
    BY DEF CommandBuffer
  <2>2. cbs[l][k].pos <= Len(cbs[l][k].cmds)
    BY DEF StreamOrder, Progressed
  <2> QED BY <1>1, <2>1, <2>2 DEF GpuEffect
<1>6. Progressed'
  <2> SUFFICES ASSUME NEW m \in Launches, NEW j \in DOMAIN cbs'[m]
               PROVE  /\ cbs'[m][j].pos <= Len(cbs'[m][j].cmds)
                      /\ cbs'[m][j].st = "completed" => cbs'[m][j].pos = Len(cbs'[m][j].cmds)
    BY DEF Progressed
  <2>1. CASE m = l /\ j = k
    BY <1>4, <1>5, <2>1
  <2>2. CASE m # l \/ j # k
    BY <1>4, <2>2 DEF StreamOrder, Progressed
  <2> QED BY <2>1, <2>2
<1>7. InOrder'
  <2> SUFFICES ASSUME NEW m \in Launches, NEW i \in DOMAIN cbs'[m], NEW j \in DOMAIN cbs'[m],
                      i < j, cbs'[m][i].st = "committed"
               PROVE  cbs'[m][j].pos = 0 /\ cbs'[m][j].st = "committed"
    BY DEF InOrder
  <2>0. \A n \in DOMAIN cbs[m] : n \in Int
    BY <1>0 DEF TypeOK
  <2>1. CASE m = l /\ i = k
    BY <1>3, <1>4, <2>0, <2>1
  <2>2. CASE m = l /\ j = k
    BY <1>3, <1>4, <2>0, <2>2 DEF Finished
  <2>3. CASE m # l \/ (i # k /\ j # k)
    BY <1>4, <2>3 DEF StreamOrder, InOrder
  <2> QED BY <2>1, <2>2, <2>3
<1>8. CASE queue' = queue
  <2>1. OnStream' /\ Fifo'
    BY <1>8 DEF StreamOrder, OnStream, Fifo
  <2>2. AllQueued'
    <3> SUFFICES ASSUME NEW m \in Launches, NEW j \in DOMAIN cbs'[m], cbs'[m][j].st = "committed"
                 PROVE  \E t \in Streams : \E x \in DOMAIN queue[t] : queue[t][x] = <<m, j>>
      BY <1>8 DEF AllQueued
    <3>1. cbs[m][j].st = "committed"
      BY <1>3, <1>4
    <3> QED BY <1>4, <3>1 DEF StreamOrder, AllQueued
  <2> QED BY <1>6, <1>7, <2>1, <2>2 DEF StreamOrder
<1>9. CASE queue' = [queue EXCEPT ![s] = Tail(queue[s])] /\ cb.st # "committed"
  <2>1. ASSUME NEW t \in Streams
        PROVE  /\ \A x \in DOMAIN queue[t] : x \in Nat
               /\ \A x \in DOMAIN queue'[t] :
                      LET y == IF t = s THEN x + 1 ELSE x IN
                      x \in Nat /\ y \in DOMAIN queue[t] /\ queue'[t][x] = queue[t][y]
               /\ \A y \in DOMAIN queue[t] : queue[t][y] # HeadRef(s) =>
                      \E x \in DOMAIN queue'[t] : queue'[t][x] = queue[t][y]
    <3>1. queue' = [queue EXCEPT ![s] = Tail(queue[s])]
      BY <1>9
    <3> QED BY <1>0, <1>2, <3>1, HeadGone, ZenonT(40)
  <2>2. OnStream'
    BY <2>1 DEF StreamOrder, OnStream
  <2>3. Fifo'
    <3> SUFFICES ASSUME NEW t \in Streams, NEW x \in DOMAIN queue'[t], NEW y \in DOMAIN queue'[t],
                        x < y, queue'[t][x][1] = queue'[t][y][1]
                 PROVE  queue'[t][x][2] < queue'[t][y][2]
      BY DEF Fifo
    <3>1. PICK u \in DOMAIN queue[t], v \in DOMAIN queue[t] :
             u < v /\ queue'[t][x] = queue[t][u] /\ queue'[t][y] = queue[t][v]
      <4>1. CASE t = s
        BY <2>1, <4>1
      <4>2. CASE t # s
        BY <2>1, <4>2
      <4> QED BY <4>1, <4>2
    <3> QED BY <3>1 DEF StreamOrder, Fifo
  <2>4. AllQueued'
    <3> SUFFICES ASSUME NEW m \in Launches, NEW j \in DOMAIN cbs'[m], cbs'[m][j].st = "committed"
                 PROVE  \E t \in Streams : \E x \in DOMAIN queue'[t] : queue'[t][x] = <<m, j>>
      BY DEF AllQueued
    <3>1. m # l \/ j # k
      BY <1>4, <1>9
    <3>2. j \in DOMAIN cbs[m] /\ cbs[m][j].st = "committed"
      BY <1>4, <3>1
    <3>3. PICK t \in Streams : \E x \in DOMAIN queue[t] : queue[t][x] = <<m, j>>
      BY <3>2 DEF StreamOrder, AllQueued
    <3>4. PICK y \in DOMAIN queue[t] : queue[t][y] = <<m, j>>
      BY <3>3
    <3>5. queue[t][y] # HeadRef(s)
      BY <1>1, <3>1, <3>4
    <3>6. PICK x \in DOMAIN queue'[t] : queue'[t][x] = queue[t][y]
      BY <2>1, <3>5
    <3> QED BY <3>4, <3>6
  <2> QED BY <1>6, <1>7, <2>2, <2>3, <2>4 DEF StreamOrder
<1>10. \/ queue' = queue
       \/ queue' = [queue EXCEPT ![s] = Tail(queue[s])] /\ cb.st # "committed"
  BY <1>1 DEF GpuEffect
<1> QED BY <1>8, <1>9, <1>10

(* A launch gets its stream when it begins.                                 *)
LEMMA StreamForm ==
    ASSUME LaunchInv, [Next]_vars
    PROVE  \/ UNCHANGED lstream
           \/ \E e \in Execs, s \in Streams, l \in Launches : LaunchBegin(e, s, l)
<1>0. TypeOK
  BY DEF LaunchInv
<1>1. ASSUME NEW l \in Launches, HostStep(l) PROVE UNCHANGED lstream
  BY <1>1 DEF HostStep, LaunchIcb, EncodeNode, EncodeMps, CommitBeforeMps, WaitBeforeMps,
              LaunchReturn, LaunchFailEncode, LaunchFailCommit, LaunchFailWait, Abandon,
              SyncWait, SyncReturn, launchVars
<1>2. ASSUME NEW e \in Execs, Patch(e) PROVE UNCHANGED lstream
  BY <1>0, <1>2, PatchForm DEF Patched, SetOptimizationFlags, launchVars
<1>3. ASSUME NEW e \in Execs, GraphDestroy(e) \/ ExecDestroy(e) PROVE UNCHANGED lstream
  BY <1>3 DEF GraphDestroy, ExecDestroy, launchVars
<1>4. ASSUME NEW e \in Execs, NEW made \in BOOLEAN, Instantiate(e, made) PROVE UNCHANGED lstream
  BY <1>4 DEF Instantiate, launchVars
<1>5. ASSUME NEW l \in Launches, SyncRejected(l) \/ SyncBegin(l) \/ LaunchDestroy(l)
      PROVE  UNCHANGED lstream
  BY <1>5 DEF SyncRejected, SyncBegin, LaunchDestroy, launchVars
<1>6. ASSUME NEW o \in Objects, HandleDestroy(o) PROVE UNCHANGED lstream
  BY <1>6 DEF HandleDestroy, launchVars
<1>7. ASSUME NEW s \in Streams, GpuStep(s) PROVE UNCHANGED lstream
  BY <1>7 DEF GpuStep, GpuExecute, GpuComplete, GpuFail, GpuEnd, launchVars
<1>8. CASE UNCHANGED vars
  BY <1>8 DEF vars, launchVars
<1> QED BY <1>1, <1>2, <1>3, <1>4, <1>5, <1>6, <1>7, <1>8 DEF Next, CallerStep, Quiet

(* Nothing of a launch is queued when it begins.                            *)
LEMMA BeginInOrder ==
    ASSUME LaunchInv, Fresh, StreamOrder,
           NEW e \in Execs, NEW s \in Streams, NEW l \in Launches, LaunchBegin(e, s, l)
    PROVE  StreamOrder'
<1>1. /\ lstate[l] = "none" /\ lstream' = [lstream EXCEPT ![l] = s] /\ UNCHANGED <<cbs, queue>>
      /\ cbs[l] = <<>> /\ QueueConsistent /\ queue \in [Streams -> Seq(Launches \X Nat)]
      /\ DOMAIN lstream = Launches
  BY DEF LaunchBegin, gpuVars, Fresh, LaunchInv, TypeOK
<1>2. ASSUME NEW t \in Streams, NEW x \in DOMAIN queue[t]
      PROVE  queue[t][x][1] \in Launches /\ queue[t][x][1] # l
  <2>1. queue[t][x] \in Launches \X Nat /\ queue[t][x][2] \in DOMAIN cbs[queue[t][x][1]]
    BY <1>1 DEF QueueConsistent
  <2>2. DOMAIN cbs[l] = {}
    BY <1>1
  <2> QED BY <2>1, <2>2
<1>3. OnStream'
  BY <1>1, <1>2 DEF StreamOrder, OnStream
<1>4. Fifo' /\ AllQueued' /\ Progressed' /\ InOrder'
  BY <1>1, SMTT(30) DEF StreamOrder, Fifo, AllQueued, Progressed, InOrder
<1> QED BY <1>3, <1>4 DEF StreamOrder

(* Every step keeps the streams in order.                                   *)
LEMMA StreamStep ==
    ASSUME LaunchInv, QueuePending, QueueDistinct, Fresh, StreamOrder, [Next]_vars
    PROVE  StreamOrder'
<1>1. CASE \E e \in Execs, s \in Streams, l \in Launches : LaunchBegin(e, s, l)
  BY <1>1, BeginInOrder
<1>2. CASE UNCHANGED lstream
  <2>1. CASE UNCHANGED <<cbs, queue>>
    BY <1>2, <2>1, ZenonT(40) DEF StreamOrder, OnStream, Fifo, AllQueued, Progressed, InOrder
  <2>2. CASE \E s \in Streams : GpuStep(s)
    BY <1>2, <2>2, GpuInOrder
  <2>3. ASSUME NEW l \in Launches, NEW cmds, Commit(l, cmds), lstream[l] \in Streams
        PROVE  StreamOrder'
    <3>1. TypeOK /\ TypeOK'
      BY TypeStep DEF LaunchInv
    <3>2. LET n == Len(cbs[l]) IN
             n \in Nat /\ DOMAIN cbs'[l] = 1..(n + 1)
             /\ cbs'[l][n + 1] = [cmds |-> cmds, pos |-> 0, st |-> "committed"]
      BY <2>3, <3>1, CommitForm
    <3>3. cbs'[l] \in Seq(CommandBuffer)
      BY <3>1 DEF TypeOK
    <3>4. [cmds |-> cmds, pos |-> 0, st |-> "committed"] \in CommandBuffer
      BY <3>2, <3>3
    <3>5. cmds \in Seq(Command)
      BY <3>4 DEF CommandBuffer
    <3> QED BY <1>2, <2>3, <3>5, CommitInOrder
  <2> QED BY <2>1, <2>2, <2>3, QueueForm
<1> QED BY <1>1, <1>2, StreamForm

-----------------------------------------------------------------------------
(* Flattening a sequence of sequences.                                      *)

(* FlattenSeq follows its recursion.                                        *)
LEMMA FlattenRun ==
    ASSUME NEW S, NEW ss \in Seq(Seq(S)), ss # <<>>
    PROVE  \E f \in [1..Len(ss) -> Seq(S)] :
              /\ f[1] = ss[1]
              /\ \A i \in 2..Len(ss) : f[i] = f[i - 1] \o ss[i]
              /\ FlattenSeq(ss) = f[Len(ss)]
<1> DEFINE n == Len(ss)
           G == [p \in (1..n) \X Seq(S) |-> p[2] \o ss[p[1]]]
           e[i \in 1..n] == IF i = 1 THEN ss[i] ELSE e[i - 1] \o ss[i]
<1>1. n \in Nat /\ n >= 1 /\ \A i \in 1..n : ss[i] \in Seq(S)
  OBVIOUS
<1>0. FlattenSeq(ss) = e[n]
  BY <1>1 DEF FlattenSeq
<1> HIDE DEF n
<1>2. G \in [(1..n) \X Seq(S) -> Seq(S)] /\ <<>> \in Seq(S)
  <2>1. ASSUME NEW p \in (1..n) \X Seq(S) PROVE p[2] \o ss[p[1]] \in Seq(S)
    <3>1. p[1] \in 1..n /\ p[2] \in Seq(S)
      OBVIOUS
    <3> QED BY <1>1, <3>1
  <2> QED BY <2>1
<1>3. PICK g \in [0..n -> Seq(S)] : Steps(g, n, <<>>, G)
  <2>1. HasRun(Seq(S), n, <<>>, G)
    BY <1>1, <1>2, RunExists
  <2> QED BY <2>1 DEF HasRun
<1>4. ASSUME NEW i \in 1..n PROVE g[i] = g[i - 1] \o ss[i]
  <2>1. i - 1 \in 0..n /\ g[i - 1] \in Seq(S)
    BY <1>1
  <2>2. G[<<i, g[i - 1]>>] = g[i - 1] \o ss[i]
    BY <2>1
  <2> QED BY <1>3, <2>2 DEF Steps
<1>5. g[1] = ss[1]
  <2>1. g[0] = <<>> /\ 1 \in 1..n /\ 1 - 1 = 0
    BY <1>1, <1>3 DEF Steps
  <2>2. g[1] = <<>> \o ss[1]
    BY <1>4, <2>1
  <2> QED BY <1>1, <2>1, <2>2
<1> DEFINE f == [i \in 1..n |-> g[i]]
<1>6. f \in [1..n -> Seq(S)]
  BY <1>1
<1>7. f = [i \in 1..n |-> IF i = 1 THEN ss[i] ELSE f[i - 1] \o ss[i]]
  <2>1. ASSUME NEW i \in 1..n, i # 1 PROVE f[i] = f[i - 1] \o ss[i]
    <3>1. i - 1 \in 1..n
      BY <1>1, <2>1
    <3> QED BY <1>4, <3>1
  <2>2. f[1] = ss[1]
    BY <1>1, <1>5
  <2> HIDE DEF f
  <2> QED BY <1>6, <2>1, <2>2
<1> HIDE DEF f
<1>8. e = [i \in 1..n |-> IF i = 1 THEN ss[i] ELSE e[i - 1] \o ss[i]]
  BY <1>7
<1> HIDE DEF e
<1>10. ASSUME NEW i \in 2..n PROVE e[i] = e[i - 1] \o ss[i]
  <2>1. i \in 1..n /\ i # 1
    BY <1>1
  <2> QED BY <1>8, <2>1
<1>11. e[1] = ss[1]
  BY <1>1, <1>8
<1> DEFINE T == {k \in 0..n : k # 0 => e[k] \in Seq(S)}
<1>12. T = 0..n
  <2>1. ASSUME NEW k \in 1..n, k - 1 \in T PROVE k \in T
    <3>1. CASE k = 1
      BY <1>1, <1>11, <3>1
    <3>2. CASE k # 1
      <4>1. e[k - 1] \in Seq(S) /\ k \in 2..n
        BY <1>1, <2>1, <3>2
      <4>2. e[k] = e[k - 1] \o ss[k] /\ ss[k] \in Seq(S)
        BY <1>1, <1>10, <4>1
      <4>3. e[k] \in Seq(S)
        BY <4>1, <4>2
      <4> QED BY <1>1, <4>3
    <3> QED BY <3>1, <3>2
  <2>2. 0 \in T /\ T \in SUBSET (0..n)
    BY <1>1
  <2> HIDE DEF T
  <2> QED BY <1>1, <2>1, <2>2, InductionUpTo
<1>13. e \in [1..n -> Seq(S)]
  <2>1. \A k \in 1..n : e[k] \in Seq(S)
    <3>1. \A k \in 1..n : k \in 0..n /\ k # 0
      BY <1>1
    <3> QED BY <1>12, <3>1
  <2> HIDE DEF T
  <2> QED BY <1>8, <2>1
<1> QED BY <1>0, <1>1, <1>10, <1>11, <1>13 DEF n

(* The value is a sequence; nothing flattens to nothing.                    *)
LEMMA FlattenType ==
    ASSUME NEW S, NEW ss \in Seq(Seq(S))
    PROVE  FlattenSeq(ss) \in Seq(S) /\ FlattenSeq(<<>>) = <<>>
<1>1. FlattenSeq(<<>>) = <<>>
  BY DEF FlattenSeq
<1>2. CASE ss = <<>>
  <2>1. <<>> \in Seq(S)
    OBVIOUS
  <2> QED BY <1>1, <1>2, <2>1
<1>3. CASE ss # <<>>
  <2>1. Len(ss) \in 1..Len(ss)
    BY <1>3
  <2>2. PICK f \in [1..Len(ss) -> Seq(S)] : FlattenSeq(ss) = f[Len(ss)]
    BY <1>3, FlattenRun
  <2> QED BY <1>1, <2>1, <2>2
<1> QED BY <1>1, <1>2, <1>3

(* A sequence more is joined to the end.                                    *)
LEMMA FlattenAppend ==
    ASSUME NEW S, NEW ss \in Seq(Seq(S)), NEW s \in Seq(S)
    PROVE  FlattenSeq(Append(ss, s)) = FlattenSeq(ss) \o s
<1> DEFINE n  == Len(ss)
           tt == Append(ss, s)
<1>1. /\ n \in Nat /\ tt \in Seq(Seq(S)) /\ tt # <<>> /\ Len(tt) = n + 1
      /\ tt[n + 1] = s /\ \A i \in 1..n : tt[i] = ss[i]
  BY AppendProperties
<1> HIDE DEF tt
<1>2. \E g \in [1..Len(tt) -> Seq(S)] :
              /\ g[1] = tt[1]
              /\ \A i \in 2..Len(tt) : g[i] = g[i - 1] \o tt[i]
              /\ FlattenSeq(tt) = g[Len(tt)]
  BY <1>1, FlattenRun
<1>3. PICK g \in [1..(n + 1) -> Seq(S)] :
              /\ g[1] = tt[1]
              /\ \A i \in 2..(n + 1) : g[i] = g[i - 1] \o tt[i]
              /\ FlattenSeq(tt) = g[n + 1]
  <2> HIDE DEF n
  <2> QED BY <1>1, <1>2
<1>4. CASE ss = <<>>
  <2>1. n = 0 /\ FlattenSeq(ss) = <<>>
    BY <1>4, FlattenType
  <2>2. <<>> \o s = s
    OBVIOUS
  <2> QED BY <1>1, <1>3, <2>1, <2>2 DEF tt
<1>5. CASE ss # <<>>
  <2>1. PICK f \in [1..n -> Seq(S)] :
              /\ f[1] = ss[1]
              /\ \A i \in 2..n : f[i] = f[i - 1] \o ss[i]
              /\ FlattenSeq(ss) = f[n]
    BY <1>5, FlattenRun
  <2>2. n >= 1
    BY <1>5
  <2> DEFINE T == {k \in 0..n : k # 0 => f[k] = g[k]}
  <2>3. ASSUME NEW k \in 1..n, k - 1 \in T PROVE k \in T
    <3>1. CASE k = 1
      BY <1>1, <1>3, <2>1, <2>2, <3>1
    <3>2. CASE k # 1
      <4> HIDE DEF n
      <4>1. k \in 2..n /\ k \in 2..(n + 1) /\ f[k - 1] = g[k - 1] /\ k \in 1..n
        BY <1>1, <2>3, <3>2
      <4>2. f[k] = g[k]
        BY <1>1, <1>3, <2>1, <4>1
      <4> QED BY <1>1, <4>2
    <3> QED BY <3>1, <3>2
  <2>4. 0 \in T /\ T \in SUBSET (0..n)
    BY <1>1
  <2> HIDE DEF T
  <2>5. n \in T
    BY <1>1, <2>3, <2>4, InductionUpTo, SMTT(30)
  <2>6. f[n] = g[n]
    BY <2>2, <2>5 DEF T
  <2>7. g[n + 1] = g[n] \o s
    <3>1. n + 1 \in 2..(n + 1) /\ (n + 1) - 1 = n
      BY <1>1, <2>2
    <3> QED BY <1>1, <1>3, <3>1
  <2> QED BY <1>3, <2>1, <2>6, <2>7 DEF tt
<1> QED BY <1>4, <1>5

(* A joined list flattens to its parts joined.                              *)
LEMMA FlattenJoined ==
    ASSUME NEW S, NEW ss \in Seq(Seq(S)), NEW tt \in Seq(Seq(S))
    PROVE  FlattenSeq(ss \o tt) = FlattenSeq(ss) \o FlattenSeq(tt)
<1> DEFINE Splits(uu) == FlattenSeq(ss \o uu) = FlattenSeq(ss) \o FlattenSeq(uu)
           T == {n \in Nat : \A uu \in Seq(Seq(S)) : Len(uu) = n => Splits(uu)}
<1>1. FlattenSeq(ss) \in Seq(S) /\ FlattenSeq(<<>>) = <<>>
  BY FlattenType
<1>2. 0 \in T
  <2>1. ASSUME NEW uu \in Seq(Seq(S)), Len(uu) = 0 PROVE Splits(uu)
    <3>1. uu = <<>> /\ ss \o <<>> = ss /\ FlattenSeq(ss) \o <<>> = FlattenSeq(ss)
      BY <1>1, <2>1
    <3> QED BY <1>1, <3>1
  <2> HIDE DEF Splits
  <2> QED BY <2>1
<1>3. ASSUME NEW n \in T PROVE n + 1 \in T
  <2>1. ASSUME NEW uu \in Seq(Seq(S)), Len(uu) = n + 1 PROVE Splits(uu)
    <3>1. uu # <<>>
      BY <2>1
    <3>2. PICK vv \in Seq(Seq(S)), s \in Seq(S) : uu = Append(vv, s)
      BY <3>1, SequenceEmptyOrAppend
    <3>3. Len(vv) = n
      BY <2>1, <3>2
    <3>4. Splits(vv)
      BY <3>3
    <3>5. ss \o uu = Append(ss \o vv, s) /\ ss \o vv \in Seq(Seq(S))
      BY <3>2
    <3>6. FlattenSeq(ss \o uu) = FlattenSeq(ss \o vv) \o s
      BY <3>5, FlattenAppend
    <3>7. FlattenSeq(uu) = FlattenSeq(vv) \o s /\ FlattenSeq(vv) \in Seq(S)
      BY <3>2, FlattenAppend, FlattenType
    <3>8. \A a, b \in Seq(S) : (a \o b) \o s = a \o (b \o s)
      BY ConcatAssociative, SMTT(30)
    <3> QED BY <1>1, <3>4, <3>6, <3>7, <3>8
  <2> HIDE DEF Splits
  <2> QED BY <2>1
<1>4. T \in SUBSET Nat
  OBVIOUS
<1> HIDE DEF T
<1>5. T = Nat
  BY <1>2, <1>3, <1>4, Induction
<1>6. Len(tt) \in T
  BY <1>5
<1> QED BY <1>6 DEF T

(* One sequence is itself.                                                  *)
LEMMA FlattenOne ==
    ASSUME NEW S, NEW s \in Seq(S)
    PROVE  FlattenSeq(<<s>>) = s
<1>1. <<s>> = Append(<<>>, s) /\ <<>> \in Seq(Seq(S)) /\ <<>> \o s = s
  OBVIOUS
<1> QED BY <1>1, FlattenAppend, FlattenType

(* Empty sequences add up to nothing.                                       *)
LEMMA FlattenEmpty ==
    ASSUME NEW S, NEW ss \in Seq(Seq(S)), \A i \in 1..Len(ss) : ss[i] = <<>>
    PROVE  FlattenSeq(ss) = <<>>
<1>1. CASE ss = <<>>
  BY <1>1, FlattenType
<1>2. CASE ss # <<>>
  <2>1. PICK f \in [1..Len(ss) -> Seq(S)] :
              /\ f[1] = ss[1]
              /\ \A i \in 2..Len(ss) : f[i] = f[i - 1] \o ss[i]
              /\ FlattenSeq(ss) = f[Len(ss)]
    BY <1>2, FlattenRun
  <2>2. Len(ss) \in Nat /\ Len(ss) # 0
    BY <1>2
  <2> DEFINE T == {k \in 0..Len(ss) : k # 0 => f[k] = <<>>}
  <2>3. ASSUME NEW k \in 1..Len(ss), k - 1 \in T PROVE f[k] = <<>>
    <3>1. CASE k = 1
      BY <2>1, <2>2, <3>1
    <3>2. CASE k # 1
      <4>1. k \in 2..Len(ss) /\ f[k - 1] = <<>>
        BY <2>2, <2>3, <3>2
      <4>2. f[k] = <<>> \o <<>>
        BY <2>1, <4>1
      <4> QED BY <4>2
    <3> QED BY <3>1, <3>2
  <2>4. 0 \in T /\ T \in SUBSET (0..Len(ss)) /\ \A k \in 1..Len(ss) : k - 1 \in T => k \in T
    BY <2>2, <2>3
  <2> HIDE DEF T
  <2>5. T = 0..Len(ss)
    BY <2>2, <2>4, InductionUpTo
  <2>6. Len(ss) \in T
    BY <2>2, <2>5
  <2> QED BY <2>1, <2>2, <2>6 DEF T
<1> QED BY <1>1, <1>2

(* What comes before a place, what is there, and what comes after it.       *)
LEMMA FlattenSplit ==
    ASSUME NEW S, NEW ss \in Seq(Seq(S)), NEW k \in 1..Len(ss)
    PROVE  /\ SubSeq(ss, 1, k - 1) \in Seq(Seq(S)) /\ SubSeq(ss, k + 1, Len(ss)) \in Seq(Seq(S))
           /\ FlattenSeq(ss) = FlattenSeq(SubSeq(ss, 1, k - 1))
                                  \o (ss[k] \o FlattenSeq(SubSeq(ss, k + 1, Len(ss))))
<1> DEFINE before == SubSeq(ss, 1, k - 1)
           after  == SubSeq(ss, k + 1, Len(ss))
<1>1. before \in Seq(Seq(S)) /\ after \in Seq(Seq(S)) /\ ss[k] \in Seq(S)
      /\ <<ss[k]>> \in Seq(Seq(S))
  OBVIOUS
<1>2. ss = before \o (<<ss[k]>> \o after)
  <2>1. SubSeq(ss, k, Len(ss)) = <<ss[k]>> \o after
    BY SubSeqRecursiveFirst
  <2>2. before \o SubSeq(ss, k, Len(ss)) = ss
    OBVIOUS
  <2> QED BY <2>1, <2>2
<1> HIDE DEF before, after
<1>3. <<ss[k]>> \o after \in Seq(Seq(S))
  BY <1>1
<1>4. FlattenSeq(ss) = FlattenSeq(before) \o FlattenSeq(<<ss[k]>> \o after)
  BY <1>1, <1>2, <1>3, FlattenJoined
<1>5. FlattenSeq(<<ss[k]>> \o after) = FlattenSeq(<<ss[k]>>) \o FlattenSeq(after)
  BY <1>1, FlattenJoined
<1>6. FlattenSeq(<<ss[k]>>) = ss[k]
  BY <1>1, FlattenOne
<1> QED BY <1>1, <1>4, <1>5, <1>6 DEF before, after

-----------------------------------------------------------------------------
(* The script of a launch.                                                  *)

(* What comes after a place of a sequence.                                  *)
LEMMA After ==
    ASSUME NEW S, NEW ss \in Seq(S), NEW k \in 0..Len(ss)
    PROVE  LET tail == SubSeq(ss, k + 1, Len(ss)) IN
           /\ tail \in Seq(S) /\ Len(tail) = Len(ss) - k
           /\ \A i \in 1..Len(tail) : tail[i] = ss[k + i] /\ k + i \in 1..Len(ss)
<1>1. Len(ss) \in Nat /\ k + 1 \in Int /\ \A i \in (k + 1)..Len(ss) : ss[i] \in S
  OBVIOUS
<1> DEFINE tail == SubSeq(ss, k + 1, Len(ss))
           n    == Len(ss)
<1>2. /\ tail \in Seq(S) /\ Len(tail) = IF k + 1 <= n THEN n - (k + 1) + 1 ELSE 0
      /\ \A i \in 1..(n - (k + 1) + 1) : tail[i] = ss[(k + 1) + i - 1]
  BY <1>1, SubSeqProperties
<1> HIDE DEF tail, n
<1>3. Len(tail) = n - k /\ n - (k + 1) + 1 = n - k
  BY <1>1, <1>2 DEF n
<1>4. ASSUME NEW i \in 1..Len(tail) PROVE tail[i] = ss[k + i] /\ k + i \in 1..n
  <2>1. i \in 1..(n - (k + 1) + 1) /\ (k + 1) + i - 1 = k + i
    BY <1>1, <1>3 DEF n
  <2>2. k + i \in 1..n
    BY <1>1, <1>3 DEF n
  <2> QED BY <1>2, <2>1, <2>2
<1> QED BY <1>2, <1>3, <1>4 DEF tail, n

(* Replacing one part of a list replaces it in the joined sequence.         *)
LEMMA FlattenReplace ==
    ASSUME NEW S, NEW ss \in Seq(Seq(S)), NEW k \in 1..Len(ss), NEW s \in Seq(S)
    PROVE  /\ SubSeq(ss, 1, k - 1) \in Seq(Seq(S)) /\ SubSeq(ss, k + 1, Len(ss)) \in Seq(Seq(S))
           /\ FlattenSeq([ss EXCEPT ![k] = s]) = FlattenSeq(SubSeq(ss, 1, k - 1))
                                  \o (s \o FlattenSeq(SubSeq(ss, k + 1, Len(ss))))
<1> DEFINE tt == [ss EXCEPT ![k] = s]
<1>1. tt \in Seq(Seq(S)) /\ Len(tt) = Len(ss) /\ k \in 1..Len(tt) /\ tt[k] = s
      /\ \A j \in 1..Len(ss) : j # k => tt[j] = ss[j]
  OBVIOUS
<1> HIDE DEF tt
<1>2. SubSeq(tt, 1, k - 1) = SubSeq(ss, 1, k - 1)
  BY <1>1
<1>3. SubSeq(tt, k + 1, Len(tt)) = SubSeq(ss, k + 1, Len(ss))
  <2> DEFINE new == SubSeq(tt, k + 1, Len(tt))
             old == SubSeq(ss, k + 1, Len(ss))
  <2>1. k \in 0..Len(ss) /\ k \in 0..Len(tt) /\ Len(ss) \in Nat
    BY <1>1
  <2>2. new \in Seq(Seq(S)) /\ Len(new) = Len(tt) - k
        /\ \A i \in 1..Len(new) : new[i] = tt[k + i] /\ k + i \in 1..Len(tt)
    BY <1>1, <2>1, After
  <2>3. old \in Seq(Seq(S)) /\ Len(old) = Len(ss) - k
        /\ \A i \in 1..Len(old) : old[i] = ss[k + i] /\ k + i \in 1..Len(ss)
    BY <2>1, After
  <2> HIDE DEF new, old
  <2>4. \A i \in 1..Len(new) : k + i # k
    BY <2>1
  <2>5. \A i \in 1..Len(new) : new[i] = old[i]
    BY <1>1, <2>2, <2>3, <2>4
  <2>6. Len(new) = Len(old) /\ new \in Seq(Seq(S)) /\ old \in Seq(Seq(S))
    BY <1>1, <2>2, <2>3
  <2>7. new = old
    BY <2>5, <2>6, SeqEqual
  <2> QED BY <2>7 DEF new, old
<1>4. /\ SubSeq(tt, 1, k - 1) \in Seq(Seq(S)) /\ SubSeq(tt, k + 1, Len(tt)) \in Seq(Seq(S))
      /\ FlattenSeq(tt) = FlattenSeq(SubSeq(tt, 1, k - 1))
                            \o (tt[k] \o FlattenSeq(SubSeq(tt, k + 1, Len(tt))))
  BY <1>1, FlattenSplit
<1> QED BY <1>1, <1>2, <1>3, <1>4 DEF tt

(* Command buffers that do not run past their end.                          *)
Running == {cb \in CommandBuffer : cb.pos <= Len(cb.cmds)}

(* What each of a list of command buffers has run, and will have run.       *)
EachRan(bs)  == [k \in DOMAIN bs |-> Ran(bs[k])]
EachRuns(bs) == [k \in DOMAIN bs |-> Runs(bs[k])]

(* One command buffer.                                                      *)
LEMMA RanType ==
    ASSUME NEW cb \in Running
    PROVE  /\ Ran(cb) \in Seq(Command) /\ Len(Ran(cb)) = cb.pos /\ Runs(cb) \in Seq(Command)
           /\ cb.cmds \in Seq(Command) /\ cb.pos \in Nat /\ cb.pos <= Len(cb.cmds)
           /\ cb.pos = 0 => Ran(cb) = <<>>
           /\ cb.pos = Len(cb.cmds) => Ran(cb) = cb.cmds
           /\ Len(Ran(cb)) <= Len(Runs(cb))
<1>1. cb.cmds \in Seq(Command) /\ cb.pos \in Nat /\ cb.pos <= Len(cb.cmds)
  BY DEF Running, CommandBuffer
<1>2. Ran(cb) \in Seq(Command) /\ Len(Ran(cb)) = cb.pos
  BY <1>1 DEF Ran
<1>3. cb.pos = Len(cb.cmds) => Ran(cb) = cb.cmds
  BY <1>1 DEF Ran
<1>4. Runs(cb) \in Seq(Command) /\ Len(Ran(cb)) <= Len(Runs(cb))
  BY <1>1, <1>2 DEF Runs
<1>5. cb.pos = 0 => Ran(cb) = <<>>
  BY <1>2
<1> QED BY <1>1, <1>2, <1>3, <1>4, <1>5

(* A list of them.                                                          *)
LEMMA EachType ==
    ASSUME NEW bs \in Seq(Running)
    PROVE  /\ EachRan(bs) \in Seq(Seq(Command)) /\ Len(EachRan(bs)) = Len(bs)
           /\ EachRuns(bs) \in Seq(Seq(Command)) /\ Len(EachRuns(bs)) = Len(bs)
           /\ \A k \in 1..Len(bs) : EachRan(bs)[k] = Ran(bs[k]) /\ EachRuns(bs)[k] = Runs(bs[k])
           /\ DOMAIN bs = 1..Len(bs) /\ Len(bs) \in Nat
<1>1. DOMAIN bs = 1..Len(bs) /\ Len(bs) \in Nat /\ \A k \in 1..Len(bs) : bs[k] \in Running
  OBVIOUS
<1>2. \A k \in 1..Len(bs) : Ran(bs[k]) \in Seq(Command) /\ Runs(bs[k]) \in Seq(Command)
  BY <1>1, RanType
<1>3. EachRan(bs) \in Seq(Seq(Command)) /\ Len(EachRan(bs)) = Len(bs)
  BY <1>1, <1>2 DEF EachRan
<1>4. EachRuns(bs) \in Seq(Seq(Command)) /\ Len(EachRuns(bs)) = Len(bs)
  BY <1>1, <1>2 DEF EachRuns
<1> QED BY <1>1, <1>3, <1>4 DEF EachRan, EachRuns

(* One command buffer more.                                                 *)
LEMMA EachAppended ==
    ASSUME NEW bs \in Seq(Running), NEW cb \in Running
    PROVE  /\ EachRan(Append(bs, cb)) = Append(EachRan(bs), Ran(cb))
           /\ EachRuns(Append(bs, cb)) = Append(EachRuns(bs), Runs(cb))
<1> DEFINE cs   == Append(bs, cb)
           ran  == EachRan(bs)
           runs == EachRuns(bs)
<1>1. cs \in Seq(Running) /\ Len(cs) = Len(bs) + 1 /\ cs[Len(bs) + 1] = cb
      /\ \A k \in 1..Len(bs) : cs[k] = bs[k]
  OBVIOUS
<1> HIDE DEF cs
<1>2. /\ ran \in Seq(Seq(Command)) /\ Len(ran) = Len(bs)
      /\ runs \in Seq(Seq(Command)) /\ Len(runs) = Len(bs)
      /\ \A k \in 1..Len(bs) : ran[k] = Ran(bs[k]) /\ runs[k] = Runs(bs[k])
      /\ Len(bs) \in Nat
  BY EachType
<1>3. /\ EachRan(cs) \in Seq(Seq(Command)) /\ Len(EachRan(cs)) = Len(cs)
      /\ EachRuns(cs) \in Seq(Seq(Command)) /\ Len(EachRuns(cs)) = Len(cs)
      /\ \A k \in 1..Len(cs) : EachRan(cs)[k] = Ran(cs[k]) /\ EachRuns(cs)[k] = Runs(cs[k])
  BY <1>1, EachType
<1>4. Ran(cb) \in Seq(Command) /\ Runs(cb) \in Seq(Command)
  BY RanType
<1> HIDE DEF ran, runs
<1>5. \A k \in 1..Len(cs) : k \in 1..Len(bs) \/ k = Len(bs) + 1
  BY <1>1, <1>2
<1>6. EachRan(cs) = Append(ran, Ran(cb))
  <2> DEFINE u == EachRan(cs)
             v == Append(ran, Ran(cb))
  <2>1. /\ v \in Seq(Seq(Command)) /\ Len(v) = Len(cs)
        /\ \A k \in 1..Len(bs) : v[k] = ran[k]
        /\ v[Len(bs) + 1] = Ran(cb)
    BY <1>1, <1>2, <1>4, AppendProperties
  <2>2. u \in Seq(Seq(Command)) /\ Len(u) = Len(v) /\ \A k \in 1..Len(u) : u[k] = v[k]
    BY <1>1, <1>2, <1>3, <1>5, <2>1, SMTT(30)
  <2> HIDE DEF u, v
  <2>3. u = v
    BY <2>1, <2>2, SeqEqual
  <2> QED BY <2>3 DEF u, v
<1>7. EachRuns(cs) = Append(runs, Runs(cb))
  <2> DEFINE u == EachRuns(cs)
             v == Append(runs, Runs(cb))
  <2>1. /\ v \in Seq(Seq(Command)) /\ Len(v) = Len(cs)
        /\ \A k \in 1..Len(bs) : v[k] = runs[k]
        /\ v[Len(bs) + 1] = Runs(cb)
    BY <1>1, <1>2, <1>4, AppendProperties
  <2>2. u \in Seq(Seq(Command)) /\ Len(u) = Len(v) /\ \A k \in 1..Len(u) : u[k] = v[k]
    BY <1>1, <1>2, <1>3, <1>5, <2>1, SMTT(30)
  <2> HIDE DEF u, v
  <2>3. u = v
    BY <2>1, <2>2, SeqEqual
  <2> QED BY <2>3 DEF u, v
<1> QED BY <1>6, <1>7 DEF cs, ran, runs

(* A commit adds the commands at the end of what a launch will have run.    *)
LEMMA RunsAppended ==
    ASSUME NEW bs \in Seq(Running), NEW cmds \in Seq(Command)
    PROVE  LET cs == Append(bs, [cmds |-> cmds, pos |-> 0, st |-> "committed"]) IN
           /\ FlattenSeq(EachRan(cs)) = FlattenSeq(EachRan(bs))
           /\ FlattenSeq(EachRuns(cs)) = FlattenSeq(EachRuns(bs)) \o cmds
<1> DEFINE cb == [cmds |-> cmds, pos |-> 0, st |-> "committed"]
<1>1. cb \in Running /\ cb.pos = 0 /\ Runs(cb) = cmds
  BY DEF Running, CommandBuffer, Runs
<1> HIDE DEF cb
<1>2. Ran(cb) = <<>> /\ Ran(cb) \in Seq(Command)
  BY <1>1, RanType
<1>3. /\ EachRan(Append(bs, cb)) = Append(EachRan(bs), Ran(cb))
      /\ EachRuns(Append(bs, cb)) = Append(EachRuns(bs), Runs(cb))
  BY <1>1, EachAppended
<1>4. EachRan(bs) \in Seq(Seq(Command)) /\ EachRuns(bs) \in Seq(Seq(Command))
  BY EachType
<1>5. FlattenSeq(Append(EachRan(bs), Ran(cb))) = FlattenSeq(EachRan(bs)) \o Ran(cb)
  BY <1>2, <1>4, FlattenAppend
<1>6. FlattenSeq(Append(EachRuns(bs), cmds)) = FlattenSeq(EachRuns(bs)) \o cmds
  BY <1>4, FlattenAppend
<1>7. FlattenSeq(EachRan(bs)) \in Seq(Command)
  BY <1>4, FlattenType
<1>8. FlattenSeq(EachRan(bs)) \o <<>> = FlattenSeq(EachRan(bs))
  BY <1>7
<1> QED BY <1>1, <1>2, <1>3, <1>5, <1>6, <1>8 DEF cb

(* The first unfinished command buffer is where a launch has got to.        *)
LEMMA RunsReplaced ==
    ASSUME NEW bs \in Seq(Running), NEW k \in DOMAIN bs,
           \A j \in DOMAIN bs : j < k => Ran(bs[j]) = Runs(bs[j]),
           \A j \in DOMAIN bs : k < j => bs[j].pos = 0
    PROVE  \E before, after \in Seq(Command) : \A cb \in Running :
              /\ FlattenSeq(EachRan([bs EXCEPT ![k] = cb])) = before \o Ran(cb)
              /\ FlattenSeq(EachRuns([bs EXCEPT ![k] = cb])) = before \o (Runs(cb) \o after)
<1> DEFINE ran  == EachRan(bs)
           runs == EachRuns(bs)
           before == FlattenSeq(SubSeq(ran, 1, k - 1))
           after  == FlattenSeq(SubSeq(runs, k + 1, Len(runs)))
           rest   == FlattenSeq(SubSeq(ran, k + 1, Len(ran)))
<1>1. /\ ran \in Seq(Seq(Command)) /\ Len(ran) = Len(bs) /\ runs \in Seq(Seq(Command))
      /\ Len(runs) = Len(bs) /\ DOMAIN bs = 1..Len(bs) /\ Len(bs) \in Nat /\ k \in 1..Len(bs)
      /\ \A j \in 1..Len(bs) : ran[j] = Ran(bs[j]) /\ runs[j] = Runs(bs[j])
  BY EachType
<1>2. /\ SubSeq(ran, 1, k - 1) \in Seq(Seq(Command)) /\ SubSeq(ran, k + 1, Len(ran)) \in Seq(Seq(Command))
      /\ SubSeq(runs, k + 1, Len(runs)) \in Seq(Seq(Command))
      /\ \A s \in Seq(Command) : FlattenSeq([ran EXCEPT ![k] = s]) = before \o (s \o rest)
      /\ \A s \in Seq(Command) : FlattenSeq([runs EXCEPT ![k] = s])
                                   = FlattenSeq(SubSeq(runs, 1, k - 1)) \o (s \o after)
  <2> HIDE DEF ran, runs
  <2>1. /\ SubSeq(ran, 1, k - 1) \in Seq(Seq(Command)) /\ SubSeq(ran, k + 1, Len(ran)) \in Seq(Seq(Command))
        /\ SubSeq(runs, k + 1, Len(runs)) \in Seq(Seq(Command))
    BY <1>1, SMTT(30)
  <2>0. k \in 1..Len(ran) /\ k \in 1..Len(runs) /\ ran \in Seq(Seq(Command)) /\ runs \in Seq(Seq(Command))
    BY <1>1
  <2>2. ASSUME NEW s \in Seq(Command)
        PROVE  FlattenSeq([ran EXCEPT ![k] = s]) = before \o (s \o rest)
    BY <2>0, FlattenReplace, ZenonT(40)
  <2>3. ASSUME NEW s \in Seq(Command)
        PROVE  FlattenSeq([runs EXCEPT ![k] = s]) = FlattenSeq(SubSeq(runs, 1, k - 1)) \o (s \o after)
    BY <2>0, FlattenReplace, ZenonT(40)
  <2> QED BY <2>1, <2>2, <2>3
<1>3. before \in Seq(Command) /\ after \in Seq(Command)
  BY <1>2, FlattenType
<1>4. SubSeq(runs, 1, k - 1) = SubSeq(ran, 1, k - 1)
  <2> HIDE DEF ran, runs
  <2>1. \A j \in 1..(k - 1) : j \in 1..Len(bs) /\ j \in DOMAIN bs /\ j < k
    BY <1>1
  <2>2. \A j \in 1..(k - 1) : runs[j] = ran[j]
    BY <1>1, <2>1
  <2> QED BY <1>1, <2>2
<1>5. rest = <<>>
  <2> HIDE DEF ran
  <2> DEFINE tail == SubSeq(ran, k + 1, Len(ran))
  <2>0. Len(tail) = Len(bs) - k /\ \A i \in 1..Len(tail) : tail[i] = ran[k + i]
    <3>1. k \in 0..Len(ran)
      BY <1>1
    <3> QED BY <1>1, <3>1, After
  <2>1. ASSUME NEW i \in 1..Len(tail) PROVE tail[i] = <<>>
    <3> HIDE DEF tail
    <3>1. tail[i] = ran[k + i] /\ k + i \in 1..Len(bs) /\ k < k + i
      <4>1. tail[i] = ran[k + i] /\ i \in 1..(Len(bs) - k)
        BY <2>0
      <4>2. k \in 1..Len(bs) /\ Len(bs) \in Nat
        BY <1>1
      <4> QED BY <4>1, <4>2
    <3>2. bs[k + i] \in Running /\ bs[k + i].pos = 0
      BY <1>1, <3>1
    <3>3. ran[k + i] = Ran(bs[k + i])
      BY <1>1, <3>1
    <3> QED BY <3>1, <3>2, <3>3, RanType
  <2> HIDE DEF tail
  <2>2. tail \in Seq(Seq(Command))
    BY <1>2 DEF tail
  <2> QED BY <2>1, <2>2, FlattenEmpty DEF tail
<1>6. ASSUME NEW cb \in Running
      PROVE  /\ FlattenSeq(EachRan([bs EXCEPT ![k] = cb])) = before \o Ran(cb)
             /\ FlattenSeq(EachRuns([bs EXCEPT ![k] = cb])) = before \o (Runs(cb) \o after)
  <2> DEFINE cs == [bs EXCEPT ![k] = cb]
  <2>1. cs \in Seq(Running) /\ Len(cs) = Len(bs) /\ cs[k] = cb /\ \A j \in 1..Len(bs) : j # k => cs[j] = bs[j]
    BY <1>1
  <2> HIDE DEF cs
  <2>2. /\ EachRan(cs) \in Seq(Seq(Command)) /\ Len(EachRan(cs)) = Len(cs)
        /\ EachRuns(cs) \in Seq(Seq(Command)) /\ Len(EachRuns(cs)) = Len(cs)
        /\ \A j \in 1..Len(cs) : EachRan(cs)[j] = Ran(cs[j]) /\ EachRuns(cs)[j] = Runs(cs[j])
    BY <2>1, EachType
  <2> HIDE DEF ran, runs
  <2>5. Ran(cb) \in Seq(Command) /\ Runs(cb) \in Seq(Command) /\ Ran(cb) \o <<>> = Ran(cb)
    BY RanType
  <2>3. EachRan(cs) = [ran EXCEPT ![k] = Ran(cb)]
    <3>1. /\ [ran EXCEPT ![k] = Ran(cb)] \in Seq(Seq(Command))
          /\ Len([ran EXCEPT ![k] = Ran(cb)]) = Len(cs)
          /\ \A j \in 1..Len(cs) : [ran EXCEPT ![k] = Ran(cb)][j] = IF j = k THEN Ran(cb) ELSE ran[j]
      BY <1>1, <2>1, <2>5, ExceptSeq
    <3>2. ASSUME NEW j \in 1..Len(cs) PROVE EachRan(cs)[j] = [ran EXCEPT ![k] = Ran(cb)][j]
      <4>1. EachRan(cs)[j] = Ran(cs[j]) /\ j \in 1..Len(bs)
        BY <2>1, <2>2
      <4>2. [ran EXCEPT ![k] = Ran(cb)][j] = IF j = k THEN Ran(cb) ELSE ran[j]
        BY <3>1
      <4>3. CASE j = k
        BY <2>1, <4>1, <4>2, <4>3
      <4>4. CASE j # k
        <5>1. cs[j] = bs[j] /\ ran[j] = Ran(bs[j])
          BY <1>1, <2>1, <4>1, <4>4
        <5> QED BY <4>1, <4>2, <4>4, <5>1
      <4> QED BY <4>3, <4>4
    <3> QED BY <2>2, <3>1, <3>2, SeqEqual
  <2>4. EachRuns(cs) = [runs EXCEPT ![k] = Runs(cb)]
    <3>1. /\ [runs EXCEPT ![k] = Runs(cb)] \in Seq(Seq(Command))
          /\ Len([runs EXCEPT ![k] = Runs(cb)]) = Len(cs)
          /\ \A j \in 1..Len(cs) : [runs EXCEPT ![k] = Runs(cb)][j] = IF j = k THEN Runs(cb) ELSE runs[j]
      BY <1>1, <2>1, <2>5, ExceptSeq
    <3>2. ASSUME NEW j \in 1..Len(cs) PROVE EachRuns(cs)[j] = [runs EXCEPT ![k] = Runs(cb)][j]
      <4>1. EachRuns(cs)[j] = Runs(cs[j]) /\ j \in 1..Len(bs)
        BY <2>1, <2>2
      <4>2. [runs EXCEPT ![k] = Runs(cb)][j] = IF j = k THEN Runs(cb) ELSE runs[j]
        BY <3>1
      <4>3. CASE j = k
        BY <2>1, <4>1, <4>2, <4>3
      <4>4. CASE j # k
        <5>1. cs[j] = bs[j] /\ runs[j] = Runs(bs[j])
          BY <1>1, <2>1, <4>1, <4>4
        <5> QED BY <4>1, <4>2, <4>4, <5>1
      <4> QED BY <4>3, <4>4
    <3> QED BY <2>2, <3>1, <3>2, SeqEqual, ZenonT(40)
  <2> HIDE DEF before, after, rest
  <2>6. FlattenSeq(EachRan(cs)) = before \o Ran(cb)
    BY <1>2, <1>5, <2>3, <2>5
  <2>7. FlattenSeq(EachRuns(cs)) = FlattenSeq(SubSeq(ran, 1, k - 1)) \o (Runs(cb) \o after)
    BY <1>2, <1>4, <2>4, <2>5
  <2> QED BY <2>6, <2>7 DEF cs, before
<1> HIDE DEF before, after
<1> QED BY <1>3, <1>6

(* What the nodes from the i-th on encode, one by one.                      *)
EachEncoded(ns, i) == [k \in 1..Len(ns) - i + 1 |-> Encoded(ns[i + k - 1])]

(* A node encodes one command or none.                                      *)
LEMMA EncodedType ==
    ASSUME NEW n \in Node
    PROVE  Encoded(n) \in Seq(Command)
<1>1. CommandOf(n) \in Command
  BY CommandOfType
<1> QED BY <1>1 DEF Encoded

(* The script of a node sequence is a sequence of commands.                 *)
LEMMA ScriptType ==
    ASSUME NEW ns \in Seq(Node), NEW i \in 1..(Len(ns) + 1)
    PROVE  /\ EachEncoded(ns, i) \in Seq(Seq(Command))
           /\ Len(EachEncoded(ns, i)) = Len(ns) - i + 1
           /\ \A k \in 1..(Len(ns) - i + 1) : EachEncoded(ns, i)[k] = Encoded(ns[i + k - 1])
           /\ ScriptFrom(ns, i) = FlattenSeq(EachEncoded(ns, i))
           /\ ScriptFrom(ns, i) \in Seq(Command)
<1> DEFINE m == Len(ns) - i + 1
<1>1. m \in Nat /\ \A k \in 1..m : i + k - 1 \in 1..Len(ns)
  OBVIOUS
<1>2. \A k \in 1..m : Encoded(ns[i + k - 1]) \in Seq(Command)
  BY <1>1, EncodedType
<1>3. EachEncoded(ns, i) = [k \in 1..m |-> Encoded(ns[i + k - 1])]
  BY DEF EachEncoded
<1> HIDE DEF m
<1>4. EachEncoded(ns, i) \in Seq(Seq(Command)) /\ Len(EachEncoded(ns, i)) = m
  BY <1>1, <1>2, <1>3
<1>5. \A k \in 1..m : EachEncoded(ns, i)[k] = Encoded(ns[i + k - 1])
  BY <1>3
<1>6. ScriptFrom(ns, i) = FlattenSeq(EachEncoded(ns, i))
  BY DEF ScriptFrom, EachEncoded
<1>7. FlattenSeq(EachEncoded(ns, i)) \in Seq(Command)
  BY <1>4, FlattenType
<1> QED BY <1>4, <1>5, <1>6, <1>7 DEF m

(* Past the last node nothing is left to encode.                            *)
LEMMA ScriptEnd ==
    ASSUME NEW ns \in Seq(Node), NEW i \in Nat, i > Len(ns)
    PROVE  ScriptFrom(ns, i) = <<>>
<1>1. 1..Len(ns) - i + 1 = {}
  OBVIOUS
<1>2. [k \in 1..Len(ns) - i + 1 |-> Encoded(ns[i + k - 1])] = <<>>
  BY <1>1
<1>3. ScriptFrom(ns, i) = FlattenSeq([k \in 1..Len(ns) - i + 1 |-> Encoded(ns[i + k - 1])])
  BY DEF ScriptFrom
<1>4. <<>> \in Seq(Seq(Command))
  OBVIOUS
<1> QED BY <1>2, <1>3, <1>4, FlattenType

(* The script of the nodes from the i-th on begins with that node.          *)
LEMMA ScriptNext ==
    ASSUME NEW ns \in Seq(Node), NEW i \in 1..Len(ns)
    PROVE  /\ ScriptFrom(ns, i) = Encoded(ns[i]) \o ScriptFrom(ns, i + 1)
           /\ Encoded(ns[i]) \in Seq(Command) /\ ScriptFrom(ns, i + 1) \in Seq(Command)
           /\ ScriptFrom(ns, i) \in Seq(Command)
<1> DEFINE here == EachEncoded(ns, i)
           next == EachEncoded(ns, i + 1)
           m    == Len(ns) - i
<1>1. i \in 1..(Len(ns) + 1) /\ i + 1 \in 1..(Len(ns) + 1) /\ m \in Nat /\ ns[i] \in Node
      /\ Len(ns) - i + 1 = m + 1 /\ Len(ns) - (i + 1) + 1 = m /\ i + 1 - 1 = i
      /\ \A k \in 1..m : i + (1 + k) - 1 = (i + 1) + k - 1
  OBVIOUS
<1>2. /\ here \in Seq(Seq(Command)) /\ Len(here) = m + 1
      /\ \A k \in 1..(m + 1) : here[k] = Encoded(ns[i + k - 1])
      /\ ScriptFrom(ns, i) = FlattenSeq(here) /\ ScriptFrom(ns, i) \in Seq(Command)
  BY <1>1, ScriptType
<1>3. /\ next \in Seq(Seq(Command)) /\ Len(next) = m
      /\ \A k \in 1..m : next[k] = Encoded(ns[(i + 1) + k - 1])
      /\ ScriptFrom(ns, i + 1) = FlattenSeq(next) /\ ScriptFrom(ns, i + 1) \in Seq(Command)
  BY <1>1, ScriptType
<1> HIDE DEF here, next, m
<1> DEFINE e == Encoded(ns[i])
           joined == <<e>> \o next
<1>4. e \in Seq(Command) /\ <<e>> \in Seq(Seq(Command)) /\ Len(<<e>>) = 1 /\ <<e>>[1] = e
  BY <1>1, EncodedType
<1> HIDE DEF e
<1>5. /\ joined \in Seq(Seq(Command)) /\ Len(joined) = m + 1 /\ joined[1] = e
      /\ \A k \in 1..m : joined[1 + k] = next[k]
  BY <1>1, <1>3, <1>4
<1> HIDE DEF joined
<1>6. \A k \in 1..(m + 1) : here[k] = joined[k]
  <2>1. here[1] = e
    BY <1>1, <1>2 DEF e
  <2>2. ASSUME NEW k \in 1..m PROVE here[1 + k] = joined[1 + k]
    <3>1. 1 + k \in 1..(m + 1)
      BY <1>1
    <3>2. here[1 + k] = Encoded(ns[i + (1 + k) - 1])
      BY <1>2, <3>1
    <3> QED BY <1>1, <1>3, <1>5, <3>2
  <2>3. ASSUME NEW k \in 1..(m + 1) PROVE k = 1 \/ \E j \in 1..m : k = 1 + j
    <3>1. k # 1 => k - 1 \in 1..m /\ k = 1 + (k - 1)
      BY <1>1
    <3> QED BY <3>1
  <2> QED BY <1>5, <2>1, <2>2, <2>3
<1>7. here = joined
  BY <1>2, <1>5, <1>6, SeqEqual
<1>8. FlattenSeq(<<e>> \o next) = FlattenSeq(<<e>>) \o FlattenSeq(next)
  BY <1>3, <1>4, FlattenJoined
<1>9. FlattenSeq(<<e>>) = e
  BY <1>4, FlattenOne
<1> QED BY <1>2, <1>3, <1>4, <1>7, <1>8, <1>9 DEF e, joined

(* Replacing a node that encodes a command replaces that command alone.     *)
LEMMA ScriptPatched ==
    ASSUME NEW ns \in Seq(Node), NEW i \in DOMAIN ns, NEW n \in Node,
           Encodes(n), Encodes(ns[i])
    PROVE  \E k \in DOMAIN ScriptFrom(ns, 1) :
              ScriptFrom([ns EXCEPT ![i] = n], 1) = [ScriptFrom(ns, 1) EXCEPT ![k] = CommandOf(n)]
<1> DEFINE ms  == [ns EXCEPT ![i] = n]
           old == EachEncoded(ns, 1)
           new == EachEncoded(ms, 1)
<1>1. /\ ms \in Seq(Node) /\ Len(ms) = Len(ns) /\ ms[i] = n /\ \A j \in 1..Len(ns) : j # i => ms[j] = ns[j]
      /\ Len(ns) \in Nat /\ i \in 1..Len(ns) /\ 1 \in 1..(Len(ns) + 1) /\ Len(ns) - 1 + 1 = Len(ns)
      /\ \A j \in 1..Len(ns) : 1 + j - 1 = j
  OBVIOUS
<1> HIDE DEF ms
<1>2. /\ old \in Seq(Seq(Command)) /\ Len(old) = Len(ns) /\ \A j \in 1..Len(ns) : old[j] = Encoded(ns[j])
      /\ ScriptFrom(ns, 1) = FlattenSeq(old)
  <2>1. /\ old \in Seq(Seq(Command)) /\ Len(old) = Len(ns) - 1 + 1
        /\ \A j \in 1..(Len(ns) - 1 + 1) : old[j] = Encoded(ns[1 + j - 1])
        /\ ScriptFrom(ns, 1) = FlattenSeq(old)
    BY <1>1, ScriptType
  <2> HIDE DEF old
  <2> QED BY <1>1, <2>1
<1>3. /\ new \in Seq(Seq(Command)) /\ Len(new) = Len(ns) /\ \A j \in 1..Len(ns) : new[j] = Encoded(ms[j])
      /\ ScriptFrom(ms, 1) = FlattenSeq(new)
  BY <1>1, ScriptType
<1> HIDE DEF old, new
<1> DEFINE c == CommandOf(n)
           d == CommandOf(ns[i])
<1>4. Encoded(n) = <<c>> /\ Encoded(ns[i]) = <<d>> /\ c \in Command /\ d \in Command
  BY <1>1, CommandOfType DEF Encoded
<1> HIDE DEF c, d
<1>5. <<c>> \in Seq(Command) /\ <<d>> \in Seq(Command)
  BY <1>4
<1>6. new = [old EXCEPT ![i] = <<c>>]
  <2> DEFINE tt == [old EXCEPT ![i] = <<c>>]
  <2>1. tt \in Seq(Seq(Command)) /\ Len(tt) = Len(ns)
        /\ \A j \in 1..Len(ns) : tt[j] = IF j = i THEN <<c>> ELSE old[j]
    BY <1>1, <1>2, <1>5, ExceptSeq
  <2> HIDE DEF tt
  <2>2. ASSUME NEW j \in 1..Len(new) PROVE new[j] = tt[j]
    <3>1. j \in 1..Len(ns) /\ new[j] = Encoded(ms[j]) /\ tt[j] = IF j = i THEN <<c>> ELSE old[j]
      BY <1>3, <2>1
    <3>2. CASE j = i
      BY <1>1, <1>4, <3>1, <3>2
    <3>3. CASE j # i
      BY <1>1, <1>2, <3>1, <3>3
    <3> QED BY <3>2, <3>3
  <2>3. new = tt
    BY <1>3, <2>1, <2>2, SeqEqual
  <2> QED BY <2>3 DEF tt
<1>7. i \in 1..Len(old)
  BY <1>1, <1>2
<1> DEFINE p == FlattenSeq(SubSeq(old, 1, i - 1))
           r == FlattenSeq(SubSeq(old, i + 1, Len(old)))
<1>8. /\ SubSeq(old, 1, i - 1) \in Seq(Seq(Command)) /\ SubSeq(old, i + 1, Len(old)) \in Seq(Seq(Command))
      /\ FlattenSeq(old) = p \o (<<d>> \o r)
  BY <1>1, <1>2, <1>4, <1>7, FlattenSplit
<1>9. FlattenSeq(new) = p \o (<<c>> \o r)
  <2> DEFINE u == <<c>>
  <2>1. u \in Seq(Command) /\ old \in Seq(Seq(Command))
    BY <1>2, <1>5
  <2> HIDE DEF u
  <2>2. FlattenSeq([old EXCEPT ![i] = u]) = p \o (u \o r)
    BY <1>7, <2>1, FlattenReplace, ZenonT(40)
  <2> QED BY <1>6, <2>2 DEF u
<1>10. p \in Seq(Command) /\ r \in Seq(Command)
  BY <1>8, FlattenType
<1> HIDE DEF p, r
<1> DEFINE s == p \o (<<d>> \o r)
           t == p \o (<<c>> \o r)
           k == Len(p) + 1
<1>11. /\ s \in Seq(Command) /\ t \in Seq(Command) /\ Len(s) = Len(t) /\ k \in 1..Len(s)
       /\ t[k] = c /\ \A j \in 1..Len(s) : j # k => t[j] = s[j]
  BY <1>4, <1>10
<1> HIDE DEF s, t, k
<1>12. t = [s EXCEPT ![k] = c]
  <2>1. [s EXCEPT ![k] = c] \in Seq(Command) /\ Len([s EXCEPT ![k] = c]) = Len(s)
        /\ \A j \in 1..Len(s) : [s EXCEPT ![k] = c][j] = IF j = k THEN c ELSE s[j]
    BY <1>4, <1>11, ExceptSeq
  <2>2. \A j \in 1..Len(t) : t[j] = [s EXCEPT ![k] = c][j]
    BY <1>11, <2>1
  <2> QED BY <1>11, <2>1, <2>2, SeqEqual
<1>13. k \in DOMAIN s
  BY <1>11
<1> QED BY <1>2, <1>3, <1>8, <1>9, <1>12, <1>13 DEF s, t, ms, c

-----------------------------------------------------------------------------
(* The inductive invariant, and what a commit and a step of the GPU do to a *)
(* script.                                                                  *)

(* The inductive invariant.                                                 *)
RefineInv == SyncInv /\ RefInv /\ StreamOrder /\ LaunchShape

(* A launch has not run more than it will have run.                         *)
LEMMA RanWithin ==
    ASSUME NEW bs \in Seq(Running)
    PROVE  Len(FlattenSeq(EachRan(bs))) <= Len(FlattenSeq(EachRuns(bs)))
<1> DEFINE Within(cs) == Len(FlattenSeq(EachRan(cs))) <= Len(FlattenSeq(EachRuns(cs)))
           T == {n \in Nat : \A cs \in Seq(Running) : Len(cs) = n => Within(cs)}
<1>1. 0 \in T
  <2>1. ASSUME NEW cs \in Seq(Running), Len(cs) = 0 PROVE Within(cs)
    <3>1. /\ EachRan(cs) \in Seq(Seq(Command)) /\ Len(EachRan(cs)) = 0
          /\ EachRuns(cs) \in Seq(Seq(Command)) /\ Len(EachRuns(cs)) = 0
      BY <2>1, EachType
    <3>2. EachRan(cs) = <<>> /\ EachRuns(cs) = <<>>
      BY <3>1
    <3>3. FlattenSeq(<<>>) = <<>>
      BY DEF FlattenSeq
    <3> QED BY <3>2, <3>3
  <2> HIDE DEF Within
  <2> QED BY <2>1
<1>2. ASSUME NEW n \in T PROVE n + 1 \in T
  <2>1. ASSUME NEW cs \in Seq(Running), Len(cs) = n + 1 PROVE Within(cs)
    <3>1. cs # <<>>
      BY <2>1
    <3>2. PICK ds \in Seq(Running), cb \in Running : cs = Append(ds, cb)
      BY <3>1, SequenceEmptyOrAppend
    <3>3. Len(ds) = n
      BY <2>1, <3>2
    <3>4. Within(ds)
      BY <3>3
    <3>5. EachRan(cs) = Append(EachRan(ds), Ran(cb)) /\ EachRuns(cs) = Append(EachRuns(ds), Runs(cb))
      BY <3>2, EachAppended
    <3>6. /\ EachRan(ds) \in Seq(Seq(Command)) /\ EachRuns(ds) \in Seq(Seq(Command))
          /\ Ran(cb) \in Seq(Command) /\ Runs(cb) \in Seq(Command) /\ Len(Ran(cb)) <= Len(Runs(cb))
      BY EachType, RanType
    <3>7. /\ FlattenSeq(EachRan(cs)) = FlattenSeq(EachRan(ds)) \o Ran(cb)
          /\ FlattenSeq(EachRuns(cs)) = FlattenSeq(EachRuns(ds)) \o Runs(cb)
          /\ FlattenSeq(EachRan(ds)) \in Seq(Command) /\ FlattenSeq(EachRuns(ds)) \in Seq(Command)
      BY <3>5, <3>6, FlattenAppend, FlattenType
    <3> QED BY <3>4, <3>6, <3>7
  <2> HIDE DEF Within
  <2> QED BY <2>1
<1>3. T \in SUBSET Nat
  OBVIOUS
<1> HIDE DEF T
<1>4. T = Nat
  BY <1>1, <1>2, <1>3, Induction
<1>5. Len(bs) \in T
  BY <1>4
<1> QED BY <1>5 DEF T

(* What is known of every launch.                                           *)
LEMMA LaunchFacts ==
    ASSUME RefineInv, NEW l \in Launches
    PROVE  /\ cbs[l] \in Seq(Running)
           /\ Executed(l) = FlattenSeq(EachRan(cbs[l])) /\ Executed(l) \in Seq(Command)
           /\ Submitted(l) = FlattenSeq(EachRuns(cbs[l])) /\ Submitted(l) \in Seq(Command)
           /\ ToEncode(l) \in Seq(Command) /\ Script(l) \in Seq(Command)
           /\ Len(Executed(l)) <= Len(Submitted(l)) /\ Len(Script(l)) = Len(Submitted(l)) + Len(ToEncode(l))
<1>0. TypeOK /\ CallConsistent /\ StreamOrder /\ LaunchShape
  BY DEF RefineInv, SyncInv, LaunchInv
<1>1. cbs[l] \in Seq(CommandBuffer)
  BY <1>0 DEF TypeOK
<1>2. \A k \in DOMAIN cbs[l] : cbs[l][k] \in Running
  BY <1>0, <1>1 DEF StreamOrder, Progressed, Running
<1>3. cbs[l] \in Seq(Running)
  BY <1>1, <1>2
<1>4. Executed(l) = FlattenSeq(EachRan(cbs[l])) /\ Submitted(l) = FlattenSeq(EachRuns(cbs[l]))
  BY DEF Executed, Submitted, EachRan, EachRuns
<1>5. Executed(l) \in Seq(Command) /\ Submitted(l) \in Seq(Command)
  BY <1>3, <1>4, EachType, FlattenType
<1>6. Len(Executed(l)) <= Len(Submitted(l))
  BY <1>3, <1>4, RanWithin
<1>7. ToEncode(l) \in Seq(Command)
  <2>1. CASE lstate[l] = "encoding"
    <3>1. call.l = l /\ call.op \in {"icb", "encode", "midwait"} /\ call.i >= 1
      BY <1>0, <2>1 DEF LaunchShape, Encoder, Segment
    <3>2. call.open \in Seq(Command) /\ call.i \in Nat /\ lexec[l] \in Execs
      BY <1>0, <2>1 DEF TypeOK, CallRecord, CallConsistent
    <3>3. NodesOf(l) \in Seq(Node)
      BY <1>0, <3>2 DEF TypeOK, NodesOf
    <3>4. ScriptFrom(NodesOf(l), call.i) \in Seq(Command)
      <4>1. CASE call.i > Len(NodesOf(l))
        <5>1. ScriptFrom(NodesOf(l), call.i) = <<>>
          BY <3>2, <3>3, <4>1, ScriptEnd
        <5> QED BY <5>1
      <4>2. CASE ~(call.i > Len(NodesOf(l)))
        <5>1. call.i \in 1..(Len(NodesOf(l)) + 1)
          BY <3>1, <3>2, <3>3, <4>2
        <5> QED BY <3>3, <5>1, ScriptType
      <4> QED BY <4>1, <4>2
    <3> QED BY <2>1, <3>2, <3>4 DEF ToEncode
  <2>2. CASE lstate[l] # "encoding"
    BY <2>2 DEF ToEncode
  <2> QED BY <2>1, <2>2
<1> QED BY <1>3, <1>4, <1>5, <1>6, <1>7 DEF Script

(* A commit moves what it commits to the end of what was submitted.         *)
LEMMA CommitScript ==
    ASSUME RefineInv, NEW l \in Launches, NEW cmds \in Seq(Command), Commit(l, cmds),
           lstream[l] \in Streams
    PROVE  /\ \A m \in Launches : Executed(m)' = Executed(m) /\ Lost(m)' = Lost(m)
           /\ \A m \in Launches : m # l => Submitted(m)' = Submitted(m)
           /\ Submitted(l)' = Submitted(l) \o cmds
<1> DEFINE cb == [cmds |-> cmds, pos |-> 0, st |-> "committed"]
<1>0. TypeOK
  BY DEF RefineInv, SyncInv, LaunchInv
<1>1. cbs' = [cbs EXCEPT ![l] = Append(cbs[l], cb)] /\ cbs \in [Launches -> Seq(CommandBuffer)]
  BY <1>0 DEF Commit, TypeOK
<1>2. cbs'[l] = Append(cbs[l], cb) /\ \A m \in Launches : m # l => cbs'[m] = cbs[m]
  BY <1>1
<1>3. \A m \in Launches : m # l =>
         Executed(m)' = Executed(m) /\ Submitted(m)' = Submitted(m) /\ Lost(m)' = Lost(m)
  BY <1>2 DEF Executed, Submitted, Lost
<1>4. cbs[l] \in Seq(Running)
  BY LaunchFacts
<1>5. /\ FlattenSeq(EachRan(cbs'[l])) = FlattenSeq(EachRan(cbs[l]))
      /\ FlattenSeq(EachRuns(cbs'[l])) = FlattenSeq(EachRuns(cbs[l])) \o cmds
  BY <1>2, <1>4, RunsAppended
<1>6. Executed(l)' = Executed(l) /\ Submitted(l)' = Submitted(l) \o cmds
  BY <1>5 DEF Executed, Submitted, EachRan, EachRuns
<1>7. Lost(l)' = Lost(l)
  <2>1. /\ DOMAIN cbs'[l] = 1..(Len(cbs[l]) + 1) /\ DOMAIN cbs[l] = 1..Len(cbs[l])
        /\ cbs'[l][Len(cbs[l]) + 1] = cb /\ \A k \in 1..Len(cbs[l]) : cbs'[l][k] = cbs[l][k]
        /\ Len(cbs[l]) \in Nat
    <3> HIDE DEF cb
    <3> QED BY <1>1, <1>2
  <2>2. cb.st # "error"
    OBVIOUS
  <2> HIDE DEF cb
  <2>3. \A k \in DOMAIN cbs'[l] : k \in 1..Len(cbs[l]) \/ k = Len(cbs[l]) + 1
    BY <2>1
  <2>4. (\E k \in DOMAIN cbs'[l] : cbs'[l][k].st = "error") <=> \E k \in DOMAIN cbs[l] : cbs[l][k].st = "error"
    <3>1. ASSUME NEW k \in DOMAIN cbs'[l], cbs'[l][k].st = "error"
          PROVE  k \in DOMAIN cbs[l] /\ cbs[l][k].st = "error"
      <4>1. k # Len(cbs[l]) + 1
        BY <2>1, <2>2, <3>1
      <4>2. k \in 1..Len(cbs[l])
        BY <2>3, <4>1
      <4> QED BY <2>1, <3>1, <4>2
    <3>2. ASSUME NEW k \in DOMAIN cbs[l], cbs[l][k].st = "error"
          PROVE  k \in DOMAIN cbs'[l] /\ cbs'[l][k].st = "error"
      <4>1. k \in 1..Len(cbs[l]) /\ k \in 1..(Len(cbs[l]) + 1)
        BY <2>1
      <4> QED BY <2>1, <3>2, <4>1
    <3> QED BY <3>1, <3>2
  <2> QED BY <2>4 DEF Lost
<1> QED BY <1>3, <1>6, <1>7

(* The GPU runs one launch on from where it has got to.                     *)
LEMMA GpuScript ==
    ASSUME RefineInv, NEW s \in Streams, GpuStep(s)
    PROVE  \E l \in Launches : \E k \in DOMAIN cbs[l] : \E cb \in Running :
              /\ GpuEffect(s, l, k, cb) /\ cbs[l][k].st = "committed" /\ cbs[l][k] \in Running
              /\ \A m \in Launches : m # l => Executed(m)' = Executed(m)
                                       /\ Submitted(m)' = Submitted(m) /\ Lost(m)' = Lost(m)
              /\ Lost(l)' = (Lost(l) \/ cb.st = "error")
              /\ \E before, after \in Seq(Command) :
                    /\ Executed(l) = before \o Ran(cbs[l][k])
                    /\ Submitted(l) = before \o (cbs[l][k].cmds \o after)
                    /\ Executed(l)' = before \o Ran(cb)
                    /\ Submitted(l)' = before \o (Runs(cb) \o after)
<1>0. /\ TypeOK /\ LaunchInv /\ QueuePending /\ QueueDistinct /\ StreamOrder
      /\ LaunchInv' /\ StreamOrder'
  <2>1. RefineInv /\ [Next]_vars
    BY DEF Next
  <2>2. LaunchInv /\ QueuePending /\ QueueDistinct /\ Fresh /\ StreamOrder
    BY DEF RefineInv, SyncInv, RefInv
  <2>3. LaunchInv' /\ StreamOrder'
    BY <2>1, <2>2, TypeStep, CallStep, QueueStep, IcbStep, AccountingStep, StreamStep DEF LaunchInv
  <2> QED BY <2>2, <2>3 DEF LaunchInv
<1>1. PICK l \in Launches : \E k \in DOMAIN cbs[l] : \E cb \in CommandBuffer :
          HeadRef(s) = <<l, k>> /\ GpuEffect(s, l, k, cb)
  BY <1>0, GpuForm
<1>2. PICK k \in DOMAIN cbs[l], cb \in CommandBuffer :
         HeadRef(s) = <<l, k>> /\ GpuEffect(s, l, k, cb)
  BY <1>1
<1>3. queue[s] # <<>>
  BY <1>0, GpuForm
<1>4. /\ cbs[l][k].st = "committed"
      /\ \A j \in DOMAIN cbs[l] : j < k => Finished(cbs[l][j])
      /\ \A j \in DOMAIN cbs[l] : k < j => cbs[l][j].pos = 0 /\ cbs[l][j].st = "committed"
  BY <1>0, <1>2, <1>3, HeadFirst
<1>5. /\ cbs'[l] = [cbs[l] EXCEPT ![k] = cb] /\ cbs'[l][k] = cb
      /\ DOMAIN cbs'[l] = DOMAIN cbs[l]
      /\ \A m \in Launches : m # l => cbs'[m] = cbs[m]
      /\ \A j \in DOMAIN cbs[l] : j # k => cbs'[l][j] = cbs[l][j]
  <2>1. GpuEffect(s, l, k, cb)
    BY <1>2
  <2>2. /\ cbs'[l] = [cbs[l] EXCEPT ![k] = cb] /\ cbs'[l][k] = cb
        /\ \A m \in Launches : DOMAIN cbs'[m] = DOMAIN cbs[m]
        /\ \A m \in Launches : m # l => cbs'[m] = cbs[m]
        /\ \A m \in Launches : \A j \in DOMAIN cbs[m] : m # l \/ j # k => cbs'[m][j] = cbs[m][j]
    BY <1>0, <2>1, GpuChange
  <2> QED BY <2>2
<1>6. cbs[l] \in Seq(Running) /\ cbs[l][k] \in Running
  BY LaunchFacts
<1>7. cb \in Running
  BY <1>0, <1>5 DEF StreamOrder, Progressed, Running
<1>8. \A m \in Launches : m # l => Executed(m)' = Executed(m)
                            /\ Submitted(m)' = Submitted(m) /\ Lost(m)' = Lost(m)
  BY <1>5 DEF Executed, Submitted, Lost
<1>9. Lost(l)' = (Lost(l) \/ cb.st = "error")
  <2>1. Lost(l)' <=> Lost(l) \/ cb.st = "error"
    BY <1>4, <1>5 DEF Lost
  <2> QED BY <2>1 DEF Lost
<1>10. ASSUME NEW j \in DOMAIN cbs[l], j < k PROVE Ran(cbs[l][j]) = Runs(cbs[l][j])
  <2>1. Finished(cbs[l][j]) /\ cbs[l][j] \in Running
    BY <1>4, <1>6, <1>10
  <2>2. CASE cbs[l][j].st = "completed"
    <3>1. cbs[l][j].pos = Len(cbs[l][j].cmds)
      BY <1>0, <2>2 DEF StreamOrder, Progressed
    <3> QED BY <2>1, <2>2, <3>1, RanType DEF Runs
  <2>3. CASE cbs[l][j].st = "error"
    BY <2>3 DEF Runs
  <2> QED BY <2>1, <2>2, <2>3 DEF Finished
<1>11. PICK before, after \in Seq(Command) : \A b \in Running :
              /\ FlattenSeq(EachRan([cbs[l] EXCEPT ![k] = b])) = before \o Ran(b)
              /\ FlattenSeq(EachRuns([cbs[l] EXCEPT ![k] = b])) = before \o (Runs(b) \o after)
  BY <1>4, <1>6, <1>10, RunsReplaced
<1>12. [cbs[l] EXCEPT ![k] = cbs[l][k]] = cbs[l]
  BY <1>6, SMTT(30)
<1>13. Runs(cbs[l][k]) = cbs[l][k].cmds
  BY <1>4 DEF Runs
<1>14. /\ Executed(l) = before \o Ran(cbs[l][k])
       /\ Submitted(l) = before \o (cbs[l][k].cmds \o after)
  BY <1>6, <1>11, <1>12, <1>13, LaunchFacts
<1>15. Executed(l)' = before \o Ran(cb) /\ Submitted(l)' = before \o (Runs(cb) \o after)
  <2>1. Executed(l)' = FlattenSeq(EachRan(cbs'[l])) /\ Submitted(l)' = FlattenSeq(EachRuns(cbs'[l]))
    BY DEF Executed, Submitted, EachRan, EachRuns
  <2> QED BY <1>5, <1>7, <1>11, <2>1
<1> QED BY <1>2, <1>4, <1>6, <1>7, <1>8, <1>9, <1>14, <1>15

-----------------------------------------------------------------------------
(* Actions of the contract, from what the program does.                     *)

(* What the contract sees of a launch does not change.                      *)
Same(m) ==
    /\ Script(m)' = Script(m) /\ Executed(m)' = Executed(m)
    /\ Lost(m)' = Lost(m) /\ ContractStatus(m)' = ContractStatus(m)

(* It changes for one launch only.                                          *)
Others(l) == \A m \in Launches : m # l => Same(m)

(* A step the contract does not see.                                        *)
LEMMA AsStutter ==
    ASSUME UNCHANGED <<nodes, lexec>>, \A m \in Launches : Same(m)
    PROVE  UNCHANGED Contract!vars
BY DEF Same, Contract!vars

(* A command of one launch is executed.                                     *)
LEMMA AsExecute ==
    ASSUME UNCHANGED <<nodes, lexec>>, NEW l \in Launches, Others(l),
           Script(l)' = Script(l), Lost(l)' = Lost(l), ContractStatus(l)' = ContractStatus(l),
           Len(Executed(l)) < Len(Script(l)),
           Executed(l)' = Append(Executed(l), Script(l)[Len(Executed(l)) + 1])
    PROVE  Contract!Next
<1>1. Contract!Execute(l)
  BY DEF Others, Same, Contract!Execute
<1> QED BY <1>1 DEF Contract!Next

(* A command buffer of one launch fails.                                    *)
LEMMA AsLose ==
    ASSUME UNCHANGED <<nodes, lexec>>, NEW l \in Launches, Others(l),
           GpuFaults, ContractStatus(l) \notin {"none", "synchronized"},
           Lost(l)' = TRUE, ContractStatus(l)' = ContractStatus(l), Executed(l)' = Executed(l),
           NEW n \in Len(Executed(l))..Len(Script(l)),
           Script(l)' = Executed(l) \o SubSeq(Script(l), n + 1, Len(Script(l)))
    PROVE  Contract!Next
<1>1. Contract!Lose(l)
  BY DEF Others, Same, Contract!Lose
<1> QED BY <1>1 DEF Contract!Next

(* A launch returns.                                                        *)
LEMMA AsReturn ==
    ASSUME UNCHANGED <<nodes, lexec>>, NEW l \in Launches, Others(l),
           Script(l)' = Script(l), Executed(l)' = Executed(l), Lost(l)' = Lost(l),
           ContractStatus(l) = "open", ContractStatus(l)' = "returned"
    PROVE  Contract!Next
<1>1. Contract!Return(l)
  BY DEF Others, Same, Contract!Return
<1> QED BY <1>1 DEF Contract!Next

(* A launch fails.                                                          *)
LEMMA AsFail ==
    ASSUME UNCHANGED <<nodes, lexec>>, NEW l \in Launches, Others(l), HostFaults \/ Lost(l),
           Executed(l)' = Executed(l), Lost(l)' = Lost(l),
           ContractStatus(l) = "open", ContractStatus(l)' = "failed",
           NEW n \in Len(Executed(l))..Len(Script(l)), Script(l)' = SubSeq(Script(l), 1, n)
    PROVE  Contract!Next
<1>1. Contract!Fail(l)
  BY DEF Others, Same, Contract!Fail
<1> QED BY <1>1 DEF Contract!Next

(* A synchronisation succeeds.                                              *)
LEMMA AsSynchronize ==
    ASSUME UNCHANGED <<nodes, lexec>>, NEW l \in Launches, Others(l),
           Script(l)' = Script(l), Executed(l)' = Executed(l), Lost(l)' = Lost(l),
           ~Lost(l), Executed(l) = Script(l),
           ContractStatus(l) = "returned", ContractStatus(l)' = "synchronized"
    PROVE  Contract!Next
<1>1. Contract!Synchronize(l)
  BY DEF Others, Same, Contract!Synchronize
<1> QED BY <1>1 DEF Contract!Next

(* A launch begins.                                                         *)
LEMMA AsLaunch ==
    ASSUME UNCHANGED nodes, NEW e \in Execs, NEW l \in Launches, Others(l),
           lexec' = [lexec EXCEPT ![l] = e],
           Script(l)' = ScriptFrom(nodes[e], 1), Executed(l)' = Executed(l), Lost(l)' = Lost(l),
           ContractStatus(l) = "none", ContractStatus(l)' = "open"
    PROVE  Contract!Next
<1>1. Contract!Launch(e, l)
  BY DEF Others, Same, Contract!Launch
<1> QED BY <1>1 DEF Contract!Next

(* An exec is instantiated.                                                 *)
LEMMA AsInstantiate ==
    ASSUME UNCHANGED lexec, \A m \in Launches : Same(m), NEW e \in Execs,
           nodes \in [Execs -> Seq(Node)], nodes' \in [Execs -> Seq(Node)],
           \A f \in Execs : f # e => nodes'[f] = nodes[f],
           ScriptFrom(nodes[e], 1) = <<>>, ScriptFrom(nodes'[e], 1) \in Seq(Command),
           \A m \in Launches : lexec[m] # e
    PROVE  Contract!Next
<1>1. Contract!Instantiate(e)
  BY DEF Same, Contract!Instantiate
<1> QED BY <1>1 DEF Contract!Next

(* A command of an exec is replaced.                                        *)
LEMMA AsPatch ==
    ASSUME UNCHANGED lexec, \A m \in Launches : Same(m), NEW e \in Execs,
           \A f \in Execs : f # e => nodes'[f] = nodes[f],
           \A m \in Launches : lexec[m] = e =>
               /\ ContractStatus(m) # "open"
               /\ ContractStatus(m) = "returned" => Executed(m) = Script(m),
           NEW c \in Command, ScriptFrom(nodes[e], 1) \in Seq(Command),
           NEW k \in DOMAIN ScriptFrom(nodes[e], 1),
           ScriptFrom(nodes'[e], 1) = [ScriptFrom(nodes[e], 1) EXCEPT ![k] = c]
    PROVE  Contract!Next
<1> DEFINE old == [f \in Execs |-> ScriptFrom(nodes[f], 1)]
           new == [f \in Execs |-> ScriptFrom(nodes'[f], 1)]
<1>1. new = [old EXCEPT ![e] = [old[e] EXCEPT ![k] = c]]
  OBVIOUS
<1>2. new[e][k] = c /\ DOMAIN new[e] = DOMAIN old[e] /\ k \in DOMAIN old[e]
  OBVIOUS
<1> HIDE DEF old, new
<1>3. new = [old EXCEPT ![e][k] = new[e][k]]
  BY <1>1, <1>2
<1>4. Contract!Patch(e)
  BY <1>2, <1>3, ZenonT(40) DEF Same, Contract!Patch, old, new
<1> QED BY <1>4 DEF Contract!Next

(* An exec is destroyed.                                                    *)
LEMMA AsDestroy ==
    ASSUME UNCHANGED lexec, \A m \in Launches : Same(m), NEW e \in Execs,
           \A f \in Execs : f # e => nodes'[f] = nodes[f],
           ScriptFrom(nodes'[e], 1) = <<>>,
           \A m \in Launches : lexec[m] = e => ContractStatus(m) # "open"
    PROVE  Contract!Next
<1>1. Contract!Destroy(e)
  BY DEF Same, Contract!Destroy
<1> QED BY <1>1 DEF Contract!Next

-----------------------------------------------------------------------------
(* Scripts as concatenations; the steps of the GPU.                         *)

(* Concatenation, by its laws only.                                         *)
Joined(f, g) == f \o g

(* The elements of a concatenation are those of its parts, in order.        *)
LEMMA JoinedLaws ==
    ASSUME NEW S, NEW a \in Seq(S), NEW b \in Seq(S)
    PROVE  /\ Joined(a, b) \in Seq(S) /\ Len(Joined(a, b)) = Len(a) + Len(b)
           /\ Len(a) \in Nat /\ Len(b) \in Nat
           /\ \A i \in 1..Len(a) : Joined(a, b)[i] = a[i]
           /\ \A i \in 1..Len(b) : Joined(a, b)[Len(a) + i] = b[i]
BY DEF Joined

(* An element of the first part.                                            *)
LEMMA JoinedLeft ==
    ASSUME NEW S, NEW a \in Seq(S), NEW b \in Seq(S), NEW i \in 1..Len(a)
    PROVE  Joined(a, b)[i] = a[i]
BY DEF Joined

(* An element of the second part.                                           *)
LEMMA JoinedRight ==
    ASSUME NEW S, NEW a \in Seq(S), NEW b \in Seq(S), NEW i \in 1..Len(b)
    PROVE  Joined(a, b)[Len(a) + i] = b[i]
BY DEF Joined

(* Concatenation is associative.                                            *)
LEMMA JoinedTwice ==
    ASSUME NEW S, NEW a \in Seq(S), NEW b \in Seq(S), NEW c \in Seq(S)
    PROVE  Joined(Joined(a, b), c) = Joined(a, Joined(b, c))
BY ConcatAssociative DEF Joined

(* To append an element is to concatenate a sequence of one.                *)
LEMMA JoinedOne ==
    ASSUME NEW S, NEW a \in Seq(S), NEW d \in S
    PROVE  Append(a, d) = Joined(a, <<d>>) /\ <<d>> \in Seq(S)
<1>1. Append(a, d) = a \o <<d>>
  BY AppendIsConcat
<1>2. <<d>> \in Seq(S)
  OBVIOUS
<1> QED BY <1>1, <1>2 DEF Joined

(* A prefix and the element after it.                                       *)
Prefix(c, p) == SubSeq(c, 1, p)

(* The longer prefix has one element more.                                  *)
LEMMA PrefixGrows ==
    ASSUME NEW S, NEW c \in Seq(S), NEW p \in Nat, p < Len(c)
    PROVE  /\ Prefix(c, p) \in Seq(S) /\ Len(Prefix(c, p)) = p /\ c[p + 1] \in S
           /\ Prefix(c, p + 1) = Append(Prefix(c, p), c[p + 1])
<1> DEFINE u == SubSeq(c, 1, p)
           v == SubSeq(c, 1, p + 1)
           d == c[p + 1]
<1>1. u \in Seq(S) /\ Len(u) = p /\ v \in Seq(S) /\ Len(v) = p + 1 /\ v[p + 1] = d
      /\ d \in S /\ \A i \in 1..p : v[i] = u[i]
  <2>1. u \in Seq(S) /\ Len(u) = p /\ d \in S
    OBVIOUS
  <2>2. v \in Seq(S) /\ Len(v) = p + 1
    OBVIOUS
  <2>3. v[p + 1] = d
    OBVIOUS
  <2>4. \A i \in 1..p : v[i] = u[i]
    OBVIOUS
  <2> QED BY <2>1, <2>2, <2>3, <2>4
<1> HIDE DEF u, v, d
<1> DEFINE w == Append(u, d)
<1>2. w \in Seq(S) /\ Len(w) = p + 1 /\ w[p + 1] = d /\ \A i \in 1..p : w[i] = u[i]
  BY <1>1
<1> HIDE DEF w
<1>3. \A i \in 1..(p + 1) : i \in 1..p \/ i = p + 1
  OBVIOUS
<1>4. \A i \in 1..Len(v) : v[i] = w[i]
  BY <1>1, <1>2, <1>3
<1>5. v = w
  BY <1>1, <1>2, <1>4, SeqEqual
<1> QED BY <1>1, <1>5 DEF u, v, w, d, Prefix

(* One command more of a script.                                            *)
Whole(a, c, r, t) == Joined(Joined(a, Joined(c, r)), t)

Longer(x, s) == Append(x, s[Len(x) + 1])

(* A command buffer between others executes the next command of the script. *)
LEMMA OneMore ==
    ASSUME NEW S, NEW a \in Seq(S), NEW c \in Seq(S), NEW r \in Seq(S), NEW t \in Seq(S),
           NEW p \in Nat, p < Len(c)
    PROVE  /\ Len(Joined(a, Prefix(c, p))) < Len(Whole(a, c, r, t))
           /\ Joined(a, Prefix(c, p + 1)) = Longer(Joined(a, Prefix(c, p)), Whole(a, c, r, t))
<1> DEFINE u == Prefix(c, p)
           v == Prefix(c, p + 1)
           d == c[p + 1]
<1>1. u \in Seq(S) /\ Len(u) = p /\ v = Append(u, d) /\ d \in S
  BY PrefixGrows
<1>2. Len(a) \in Nat /\ Len(c) \in Nat /\ p + 1 \in 1..Len(c)
  OBVIOUS
<1> HIDE DEF u, v
<1> DEFINE x == Joined(a, u)
<1>3. x \in Seq(S) /\ Len(x) = Len(a) + p
  BY <1>1, JoinedLaws
<1>4. Joined(a, v) = Append(x, d)
  <2> DEFINE o == <<d>>
  <2> HIDE DEF d
  <2>1. v = Joined(u, o) /\ Append(x, d) = Joined(x, o) /\ o \in Seq(S)
    BY <1>1, <1>3, JoinedOne
  <2> HIDE DEF o
  <2>2. Joined(Joined(a, u), o) = Joined(a, Joined(u, o))
    BY <1>1, <2>1, JoinedTwice
  <2> QED BY <2>1, <2>2
<1> HIDE DEF x
<1> DEFINE y == Joined(c, r)
<1>5. y \in Seq(S) /\ Len(y) = Len(c) + Len(r) /\ y[p + 1] = d /\ Len(r) \in Nat
  <2>1. \A i \in 1..Len(c) : y[i] = c[i]
    BY JoinedLaws
  <2>2. y \in Seq(S) /\ Len(y) = Len(c) + Len(r) /\ Len(r) \in Nat
    BY JoinedLaws
  <2> HIDE DEF y
  <2> QED BY <1>2, <2>1, <2>2
<1> HIDE DEF y
<1> DEFINE z == Joined(a, y)
<1>6. z \in Seq(S) /\ Len(z) = Len(a) + Len(y) /\ z[Len(a) + (p + 1)] = y[p + 1]
  <2>1. p + 1 \in 1..Len(y)
    BY <1>2, <1>5
  <2>2. z \in Seq(S) /\ Len(z) = Len(a) + Len(y)
    BY <1>5, JoinedLaws
  <2>3. ASSUME NEW i \in 1..Len(y) PROVE z[Len(a) + i] = y[i]
    <3>1. y \in Seq(S)
      BY <1>5
    <3> QED BY <3>1, JoinedRight
  <2> HIDE DEF z
  <2> QED BY <2>1, <2>2, <2>3
<1> HIDE DEF z
<1> DEFINE s == Joined(z, t)
<1>7. Len(s) = Len(z) + Len(t) /\ s[Len(a) + (p + 1)] = z[Len(a) + (p + 1)] /\ Len(t) \in Nat
  <2>1. Len(a) + (p + 1) \in 1..Len(z)
    BY <1>2, <1>5, <1>6
  <2>2. Len(s) = Len(z) + Len(t) /\ Len(t) \in Nat
    BY <1>6, JoinedLaws
  <2>3. \A i \in 1..Len(z) : s[i] = z[i]
    BY <1>6, JoinedLeft
  <2> HIDE DEF s
  <2> QED BY <2>1, <2>2, <2>3
<1> HIDE DEF s, d
<1>8. Len(x) < Len(s) /\ s[Len(x) + 1] = d
  <2>1. Len(x) + 1 = Len(a) + (p + 1)
    BY <1>2, <1>3
  <2> QED BY <1>2, <1>3, <1>5, <1>6, <1>7, <2>1
<1> QED BY <1>4, <1>8 DEF u, v, x, y, z, s, Whole, Longer

(* What is left of a script when its middle is lost.                        *)
LEMMA MiddleLost ==
    ASSUME NEW S, NEW a \in Seq(S), NEW c \in Seq(S), NEW x \in Seq(S), NEW r \in Seq(S), NEW t \in Seq(S),
           Len(x) <= Len(c)
    PROVE  LET s == Joined(Joined(a, Joined(c, r)), t)
               n == Len(a) + Len(c)
           IN  /\ n \in Len(Joined(a, x))..Len(s)
               /\ Joined(Joined(a, Joined(x, r)), t)
                    = Joined(Joined(a, x), SubSeq(s, n + 1, Len(s)))
<1> DEFINE n  == Len(a) + Len(c)
           ac == Joined(a, c)
           ax == Joined(a, x)
           rt == Joined(r, t)
           s  == Joined(Joined(a, Joined(c, r)), t)
<1>1. /\ ac \in Seq(S) /\ Len(ac) = n /\ n \in Nat /\ rt \in Seq(S) /\ Len(rt) \in Nat
      /\ ax \in Seq(S) /\ Len(ax) = Len(a) + Len(x)
  BY JoinedLaws
<1>2. Len(ax) <= n /\ Len(ax) \in Nat
  <2>1. Len(a) \in Nat /\ Len(c) \in Nat /\ Len(x) \in Nat
    OBVIOUS
  <2> QED BY <1>1, <2>1
<1>3. s = Joined(ac, rt) /\ Joined(Joined(a, Joined(x, r)), t) = Joined(ax, rt)
  BY <1>1, JoinedTwice
<1> HIDE DEF s, ac, rt, n, ax
<1>4. s \in Seq(S) /\ Len(s) = n + Len(rt) /\ \A i \in 1..Len(rt) : s[n + i] = rt[i]
  <2>1. Joined(ac, rt) \in Seq(S) /\ Len(Joined(ac, rt)) = Len(ac) + Len(rt)
    BY <1>1, JoinedLaws
  <2>2. \A i \in 1..Len(rt) : Joined(ac, rt)[Len(ac) + i] = rt[i]
    <3> HIDE DEF ac, rt
    <3> QED BY <1>1, JoinedRight
  <2> QED BY <1>1, <1>3, <2>1, <2>2
<1>5. n \in 0..Len(s) /\ n \in Len(ax)..Len(s)
  BY <1>1, <1>2, <1>4
<1> DEFINE tail == SubSeq(s, n + 1, Len(s))
<1>6. tail \in Seq(S) /\ Len(tail) = Len(s) - n
      /\ \A i \in 1..Len(tail) : tail[i] = s[n + i] /\ n + i \in 1..Len(s)
  BY <1>4, <1>5, After
<1> HIDE DEF tail
<1>7. Len(tail) = Len(rt) /\ \A i \in 1..Len(tail) : tail[i] = rt[i]
  BY <1>1, <1>4, <1>6
<1>8. tail = rt
  BY <1>1, <1>6, <1>7, SeqEqual
<1> QED BY <1>3, <1>5, <1>8 DEF s, n, tail, ax

(* A launch that is not being encoded has nothing to encode.                *)
LEMMA NothingToEncode ==
    ASSUME NEW l, lstate[l] # "encoding"
    PROVE  ToEncode(l) = <<>>
BY DEF ToEncode

(* A step of the GPU executes a command, ends a command buffer or fails one.*)
LEMMA GpuMapped ==
    ASSUME RefineInv, NEW s \in Streams, GpuStep(s)
    PROVE  Contract!Next \/ UNCHANGED Contract!vars
<1>1. UNCHANGED <<nodes, lexec, lstate, report, call>>
  BY DEF GpuStep, GpuExecute, GpuComplete, GpuFail, GpuEnd, execVars, launchVars
<1>2. \A m \in Launches : ToEncode(m)' = ToEncode(m) /\ ContractStatus(m)' = ContractStatus(m)
  BY <1>1 DEF ToEncode, NodesOf, ContractStatus
<1>3. PICK l \in Launches : \E k \in DOMAIN cbs[l] : \E cb \in Running :
              /\ GpuEffect(s, l, k, cb) /\ cbs[l][k].st = "committed" /\ cbs[l][k] \in Running
              /\ \A m \in Launches : m # l => Executed(m)' = Executed(m)
                                       /\ Submitted(m)' = Submitted(m) /\ Lost(m)' = Lost(m)
              /\ Lost(l)' = (Lost(l) \/ cb.st = "error")
              /\ \E before, after \in Seq(Command) :
                    /\ Executed(l) = before \o Ran(cbs[l][k])
                    /\ Submitted(l) = before \o (cbs[l][k].cmds \o after)
                    /\ Executed(l)' = before \o Ran(cb)
                    /\ Submitted(l)' = before \o (Runs(cb) \o after)
  BY GpuScript
<1>4. PICK k \in DOMAIN cbs[l], cb \in Running :
              /\ GpuEffect(s, l, k, cb) /\ cbs[l][k].st = "committed" /\ cbs[l][k] \in Running
              /\ \A m \in Launches : m # l => Executed(m)' = Executed(m)
                                       /\ Submitted(m)' = Submitted(m) /\ Lost(m)' = Lost(m)
              /\ Lost(l)' = (Lost(l) \/ cb.st = "error")
              /\ \E before, after \in Seq(Command) :
                    /\ Executed(l) = before \o Ran(cbs[l][k])
                    /\ Submitted(l) = before \o (cbs[l][k].cmds \o after)
                    /\ Executed(l)' = before \o Ran(cb)
                    /\ Submitted(l)' = before \o (Runs(cb) \o after)
  BY <1>3
<1>5. PICK before \in Seq(Command), after \in Seq(Command) :
                    /\ Executed(l) = before \o Ran(cbs[l][k])
                    /\ Submitted(l) = before \o (cbs[l][k].cmds \o after)
                    /\ Executed(l)' = before \o Ran(cb)
                    /\ Submitted(l)' = before \o (Runs(cb) \o after)
  BY <1>4
<1> DEFINE old  == cbs[l][k]
           rest == ToEncode(l)
<1>6. /\ old.cmds \in Seq(Command) /\ old.pos \in Nat /\ old.pos <= Len(old.cmds)
      /\ cb.cmds = old.cmds /\ rest \in Seq(Command)
      /\ Ran(old) \in Seq(Command) /\ Len(Ran(old)) = old.pos
      /\ Runs(cb) = IF cb.st = "error" THEN Ran(cb) ELSE cb.cmds
  BY <1>4, RanType, LaunchFacts DEF GpuEffect, Runs
<1>7. Others(l)
  BY <1>2, <1>4 DEF Others, Same, Script
<1>8. /\ Script(l) = (before \o (old.cmds \o after)) \o rest
      /\ Script(l)' = (before \o (Runs(cb) \o after)) \o rest
  BY <1>2, <1>5 DEF Script
<1>9. Lost(l)' = (Lost(l) \/ cb.st = "error") /\ Lost(l) \in BOOLEAN
  BY <1>4 DEF Lost
<1>10. CASE cb.pos = old.pos + 1 /\ cb.pos <= Len(cb.cmds) /\ cb.st = "committed"
  <2>1. Ran(cb) = SubSeq(old.cmds, 1, old.pos + 1) /\ Ran(old) = SubSeq(old.cmds, 1, old.pos)
        /\ Runs(cb) = old.cmds /\ old.pos < Len(old.cmds)
    BY <1>6, <1>10 DEF Ran
  <2>2. Lost(l)' = Lost(l) /\ Script(l)' = Script(l)
    BY <1>8, <1>9, <1>10, <2>1
  <2> DEFINE c == old.cmds
             p == old.pos
  <2>3. c \in Seq(Command) /\ p \in Nat /\ p < Len(c)
    BY <1>6, <2>1
  <2>4. /\ Executed(l) = before \o SubSeq(c, 1, p) /\ Executed(l)' = before \o SubSeq(c, 1, p + 1)
        /\ Script(l) = (before \o (c \o after)) \o rest
    BY <1>5, <1>8, <2>1
  <2> HIDE DEF c, p, rest
  <2>6. /\ Executed(l) = Joined(before, Prefix(c, p)) /\ Executed(l)' = Joined(before, Prefix(c, p + 1))
        /\ Script(l) = Joined(Joined(before, Joined(c, after)), rest) /\ rest \in Seq(Command)
    BY <1>6, <2>4 DEF Joined, rest, Prefix
  <2>5. /\ Len(Executed(l)) < Len(Script(l))
        /\ Executed(l)' = Append(Executed(l), Script(l)[Len(Executed(l)) + 1])
    <3> DEFINE ss == Whole(before, c, after, rest)
               xx == Joined(before, Prefix(c, p))
    <3>1. Len(xx) < Len(ss) /\ Joined(before, Prefix(c, p + 1)) = Longer(xx, ss)
      <4>1. rest \in Seq(Command)
        BY <2>6
      <4>2. /\ c \in Seq(Command) /\ p \in Nat /\ p < Len(c)
            /\ before \in Seq(Command) /\ after \in Seq(Command)
        BY <2>3
      <4> QED BY <4>1, <4>2, OneMore
    <3>2. Executed(l) = xx /\ Script(l) = ss /\ Executed(l)' = Joined(before, Prefix(c, p + 1))
      BY <2>6 DEF Whole
    <3> HIDE DEF xx, ss
    <3> QED BY <3>1, <3>2 DEF Longer
  <2> QED BY <1>1, <1>2, <1>7, <2>2, <2>5, AsExecute
<1>11. CASE cb.pos = old.pos /\ cb.st = "completed"
  <2>1. Ran(cb) = Ran(old) /\ Runs(cb) = old.cmds
    BY <1>6, <1>11 DEF Ran
  <2>2. Same(l)
    BY <1>2, <1>5, <1>8, <1>9, <1>11, <2>1 DEF Same
  <2>3. \A m \in Launches : Same(m)
    BY <1>7, <2>2 DEF Others
  <2> QED BY <1>1, <2>3, AsStutter
<1>12. CASE cb.pos = old.pos /\ cb.st = "error" /\ GpuFaults
  <2>1. Ran(cb) = Ran(old) /\ Runs(cb) = Ran(old)
    BY <1>6, <1>12 DEF Ran
  <2>2. Lost(l)' = TRUE
    BY <1>9, <1>12
  <2>3. ContractStatus(l) \notin {"none", "synchronized"}
    <3>1. RefineInv /\ DOMAIN cbs[l] # {}
      OBVIOUS
    <3>2. lstate[l] # "none"
      BY <3>1 DEF RefineInv, RefInv, Fresh
    <3>3. report[l] # "ok"
      BY <1>4 DEF RefineInv, SyncInv, SyncReportsFaithfully
    <3> QED BY <3>2, <3>3 DEF ContractStatus
  <2> DEFINE c == old.cmds
             x == Ran(old)
             n == Len(before) + Len(c)
  <2>4. c \in Seq(Command) /\ x \in Seq(Command) /\ Len(x) <= Len(c)
    BY <1>6
  <2>5. /\ Executed(l) = before \o x /\ Executed(l)' = before \o x
        /\ Script(l) = (before \o (c \o after)) \o rest
        /\ Script(l)' = (before \o (x \o after)) \o rest
    BY <1>5, <1>8, <2>1
  <2> HIDE DEF c, x, rest
  <2>8. /\ Executed(l) = Joined(before, x) /\ rest \in Seq(Command)
        /\ Script(l) = Joined(Joined(before, Joined(c, after)), rest)
        /\ Script(l)' = Joined(Joined(before, Joined(x, after)), rest)
    BY <1>6, <2>5 DEF Joined, rest
  <2>9. /\ n \in Len(Executed(l))..Len(Script(l))
        /\ Script(l)' = Joined(Executed(l), SubSeq(Script(l), n + 1, Len(Script(l))))
    BY <2>4, <2>8, MiddleLost
  <2>6. /\ n \in Len(Executed(l))..Len(Script(l))
        /\ Script(l)' = Executed(l) \o SubSeq(Script(l), n + 1, Len(Script(l)))
    BY <2>9 DEF Joined
  <2>7. Executed(l)' = Executed(l)
    BY <2>5
  <2> HIDE DEF n
  <2> QED BY <1>1, <1>2, <1>7, <1>12, <2>2, <2>3, <2>6, <2>7, AsLose
<1> QED BY <1>4, <1>10, <1>11, <1>12 DEF GpuEffect

-----------------------------------------------------------------------------
(* The steps of mgGraphLaunch.                                              *)

(* What is known of the launch mgGraphLaunch is encoding.                   *)
LEMMA Opened ==
    ASSUME RefineInv, NEW l \in Launches, call.l = l, call.op \in {"icb", "encode", "midwait"}
    PROVE  /\ lstate[l] = "encoding" /\ lexec[l] \in Execs /\ lstream[l] \in Streams
           /\ estate[lexec[l]] = "live" /\ report[l] = "none" /\ ContractStatus(l) = "open"
           /\ NodesOf(l) \in Seq(Node) /\ call.i \in Nat /\ call.i >= 1 /\ call.open \in Seq(Command)
           /\ ScriptFrom(NodesOf(l), call.i) \in Seq(Command) /\ Submitted(l) \in Seq(Command)
           /\ Executed(l) \in Seq(Command) /\ Len(Executed(l)) <= Len(Submitted(l))
           /\ Script(l) = Joined(Submitted(l), Joined(call.open, ScriptFrom(NodesOf(l), call.i)))
           /\ \A m \in Launches : m # l => lstate[m] # "encoding"
<1>0. TypeOK /\ CallConsistent /\ LaunchShape /\ AnsweredReturned
  BY DEF RefineInv, SyncInv, LaunchInv
<1>1. /\ lstate[l] = "encoding" /\ lexec[l] \in Execs /\ lstream[l] \in Streams
      /\ estate[lexec[l]] = "live"
  BY <1>0 DEF CallConsistent
<1>2. report[l] = "none"
  BY <1>0, <1>1 DEF AnsweredReturned
<1>3. ContractStatus(l) = "open"
  BY <1>1 DEF ContractStatus
<1>4. NodesOf(l) \in Seq(Node) /\ call.i \in Nat /\ call.i >= 1 /\ call.open \in Seq(Command)
  BY <1>0, <1>1 DEF TypeOK, NodesOf, CallRecord, LaunchShape, Segment
<1>5. ScriptFrom(NodesOf(l), call.i) \in Seq(Command)
  <2>1. CASE call.i > Len(NodesOf(l))
    <3>1. ScriptFrom(NodesOf(l), call.i) = <<>>
      BY <1>4, <2>1, ScriptEnd
    <3> QED BY <3>1
  <2>2. CASE ~(call.i > Len(NodesOf(l)))
    <3>1. call.i \in 1..(Len(NodesOf(l)) + 1)
      BY <1>4, <2>2
    <3> QED BY <1>4, <3>1, ScriptType
  <2> QED BY <2>1, <2>2
<1>6. /\ Submitted(l) \in Seq(Command) /\ Executed(l) \in Seq(Command)
      /\ Len(Executed(l)) <= Len(Submitted(l))
  BY LaunchFacts
<1>7. Script(l) = Joined(Submitted(l), Joined(call.open, ScriptFrom(NodesOf(l), call.i)))
  BY <1>1 DEF Script, ToEncode, Joined
<1>8. \A m \in Launches : m # l => lstate[m] # "encoding"
  BY <1>0 DEF LaunchShape, Encoder
<1> QED BY <1>1, <1>2, <1>3, <1>4, <1>5, <1>6, <1>7, <1>8

(* The launches that are not being encoded do not change.                   *)
LEMMA OthersKept ==
    ASSUME NEW l \in Launches, UNCHANGED report,
           \A m \in Launches : m # l => lstate[m] # "encoding" /\ lstate'[m] = lstate[m],
           \A m \in Launches : m # l => Submitted(m)' = Submitted(m),
           \A m \in Launches : m # l => Executed(m)' = Executed(m) /\ Lost(m)' = Lost(m)
    PROVE  Others(l)
<1>1. \A m \in Launches : m # l => ToEncode(m)' = ToEncode(m) /\ ContractStatus(m)' = ContractStatus(m)
  BY DEF ToEncode, ContractStatus
<1> QED BY <1>1 DEF Others, Same, Script

(* What is left to encode once a node has been encoded.                     *)
LEMMA NodeEncoded ==
    ASSUME NEW ns \in Seq(Node), NEW i \in 1..Len(ns)
    PROVE  /\ ScriptFrom(ns, i) = Joined(Encoded(ns[i]), ScriptFrom(ns, i + 1))
           /\ Encoded(ns[i]) \in Seq(Command) /\ ScriptFrom(ns, i + 1) \in Seq(Command)
BY ScriptNext DEF Joined

(* Joining with nothing.                                                    *)
LEMMA JoinedEmpty ==
    ASSUME NEW S, NEW a \in Seq(S)
    PROVE  Joined(a, <<>>) = a /\ Joined(<<>>, a) = a
BY DEF Joined

(* A commit splits what was to be encoded: the rest follows.                *)
LEMMA CommitMoves ==
    ASSUME RefineInv, NEW l \in Launches, call.l = l, call.op \in {"icb", "encode", "midwait"},
           NEW cmds \in Seq(Command), Commit(l, cmds), NEW rest \in Seq(Command),
           Joined(call.open, ScriptFrom(NodesOf(l), call.i)) = Joined(cmds, rest)
    PROVE  /\ Submitted(l)' = Joined(Submitted(l), cmds)
           /\ Script(l) = Joined(Submitted(l)', rest) /\ Submitted(l)' \in Seq(Command)
           /\ Len(Submitted(l)') = Len(Submitted(l)) + Len(cmds)
           /\ Executed(l)' = Executed(l) /\ Lost(l)' = Lost(l)
           /\ \A m \in Launches : m # l => Submitted(m)' = Submitted(m)
           /\ \A m \in Launches : m # l => Executed(m)' = Executed(m) /\ Lost(m)' = Lost(m)
<1>1. /\ lstream[l] \in Streams /\ Submitted(l) \in Seq(Command)
      /\ Script(l) = Joined(Submitted(l), Joined(call.open, ScriptFrom(NodesOf(l), call.i)))
  BY Opened
<1>2. /\ \A m \in Launches : Executed(m)' = Executed(m) /\ Lost(m)' = Lost(m)
      /\ \A m \in Launches : m # l => Submitted(m)' = Submitted(m)
      /\ Submitted(l)' = Submitted(l) \o cmds
  BY <1>1, CommitScript
<1>3. Submitted(l)' = Joined(Submitted(l), cmds)
  BY <1>2 DEF Joined
<1>4. Script(l) = Joined(Joined(Submitted(l), cmds), rest)
  BY <1>1, JoinedTwice
<1>5. /\ Joined(Submitted(l), cmds) \in Seq(Command)
      /\ Len(Joined(Submitted(l), cmds)) = Len(Submitted(l)) + Len(cmds)
  BY <1>1, JoinedLaws
<1> QED BY <1>2, <1>3, <1>4, <1>5

(* A prefix of a script.                                                    *)
LEMMA PrefixOfJoined ==
    ASSUME NEW S, NEW a \in Seq(S), NEW b \in Seq(S)
    PROVE  /\ a = SubSeq(Joined(a, b), 1, Len(a)) /\ Len(a) <= Len(Joined(a, b))
           /\ Len(a) \in Nat /\ Len(Joined(a, b)) \in Nat
<1>1. Joined(a, b) \in Seq(S) /\ Len(Joined(a, b)) = Len(a) + Len(b) /\ Len(a) \in Nat /\ Len(b) \in Nat
      /\ \A i \in 1..Len(a) : Joined(a, b)[i] = a[i]
  BY JoinedLaws
<1> DEFINE c == Joined(a, b)
           p == SubSeq(c, 1, Len(a))
<1> HIDE DEF c
<1>2. c \in Seq(S) /\ Len(a) <= Len(c) /\ \A i \in 1..Len(a) : c[i] = a[i]
  BY <1>1 DEF c
<1>3. p \in Seq(S) /\ Len(p) = Len(a) /\ \A i \in 1..Len(p) : p[i] = a[i]
  BY <1>1, <1>2
<1> HIDE DEF p
<1>4. p = a
  BY <1>3, SeqEqual
<1> QED BY <1>1, <1>2, <1>4 DEF p, c

(* What an indirect command buffer runs is all there is to encode.          *)
LEMMA IcbScript ==
    ASSUME RefineInv, NEW l \in Launches, call.op = "icb", call.l = l
    PROVE  /\ icb[lexec[l]].captured \in Seq(Command)
           /\ Joined(call.open, ScriptFrom(NodesOf(l), call.i)) = Joined(icb[lexec[l]].captured, <<>>)
<1> DEFINE e == lexec[l]
           cmds == icb[e].captured
<1>1. e \in Execs /\ estate[e] = "live" /\ NodesOf(l) \in Seq(Node)
  BY Opened
<1>2. icb[e].built /\ call.i = 1 /\ call.open = <<>>
  BY DEF RefineInv, SyncInv, LaunchInv, CallConsistent, LaunchShape, Segment
<1>3. Len(NodesOf(l)) = 1 /\ NodesOf(l)[1].kind = "dispatch" /\ cmds = <<CommandOf(NodesOf(l)[1])>>
  BY <1>1, <1>2 DEF RefineInv, SyncInv, LaunchInv, IcbConsistent, RefInv, IcbFaithful, NodesOf
<1>4. Encoded(NodesOf(l)[1]) = cmds
  BY <1>3 DEF Encoded, Encodes
<1>5. /\ ScriptFrom(NodesOf(l), 1) = Joined(cmds, ScriptFrom(NodesOf(l), 2))
      /\ cmds \in Seq(Command) /\ ScriptFrom(NodesOf(l), 2) = <<>>
  <2>1. 1 \in 1..Len(NodesOf(l)) /\ 2 > Len(NodesOf(l)) /\ 1 + 1 = 2 /\ 2 \in Nat
    BY <1>3
  <2>2. /\ ScriptFrom(NodesOf(l), 1) = Joined(Encoded(NodesOf(l)[1]), ScriptFrom(NodesOf(l), 1 + 1))
        /\ Encoded(NodesOf(l)[1]) \in Seq(Command)
    BY <1>1, <2>1, NodeEncoded
  <2>3. ScriptFrom(NodesOf(l), 2) = <<>>
    BY <1>1, <2>1, ScriptEnd
  <2> QED BY <1>4, <2>1, <2>2, <2>3
<1> HIDE DEF cmds
<1>6. Joined(cmds, <<>>) = cmds /\ Joined(<<>>, cmds) = cmds
  BY <1>5, JoinedEmpty
<1>7. Joined(call.open, ScriptFrom(NodesOf(l), call.i)) = Joined(cmds, <<>>)
  BY <1>2, <1>5, <1>6
<1> QED BY <1>5, <1>7 DEF cmds

(* An MPSGraph node is encoded when nothing is open.                        *)
LEMMA MpsScript ==
    ASSUME RefineInv, NEW l \in Launches, AtNode(l, {"mpsgraph"}), ~call.work
    PROVE  LET cmds == <<CommandOf(NodesOf(l)[call.i])>>
               rest == ScriptFrom(NodesOf(l), call.i + 1)
           IN  /\ cmds \in Seq(Command) /\ rest \in Seq(Command) /\ call.open = <<>>
               /\ Joined(call.open, ScriptFrom(NodesOf(l), call.i)) = Joined(cmds, rest)
<1> DEFINE ns == NodesOf(l)
           i  == call.i
           n  == ns[i]
           cmds == <<CommandOf(n)>>
           rest == ScriptFrom(ns, i + 1)
<1>1. call.op = "encode" /\ call.l = l /\ i \in DOMAIN ns /\ n.kind = "mpsgraph"
  BY DEF AtNode, Encoding
<1>2. ns \in Seq(Node) /\ call.open = <<>>
  BY <1>1, Opened DEF RefineInv, LaunchShape, Segment
<1> HIDE DEF ns, i, n, cmds, rest
<1>3. i \in 1..Len(ns) /\ n \in Node
  BY <1>1, <1>2 DEF n
<1>4. ScriptFrom(ns, i) = Joined(cmds, rest) /\ cmds \in Seq(Command) /\ rest \in Seq(Command)
  <2>1. /\ ScriptFrom(ns, i) = Joined(Encoded(n), rest)
        /\ Encoded(n) \in Seq(Command) /\ rest \in Seq(Command)
    BY <1>2, <1>3, NodeEncoded DEF n, rest
  <2>2. Encoded(n) = cmds
    BY <1>1 DEF Encoded, Encodes, cmds
  <2> QED BY <2>1, <2>2
<1>5. Joined(call.open, ScriptFrom(NodesOf(l), call.i)) = Joined(cmds, rest)
  <2>1. Joined(cmds, rest) \in Seq(Command)
    BY <1>4, JoinedLaws
  <2>2. Joined(<<>>, Joined(cmds, rest)) = Joined(cmds, rest)
    BY <2>1, JoinedEmpty
  <2> QED BY <1>2, <1>4, <2>2 DEF ns, i
<1> QED BY <1>2, <1>4, <1>5 DEF cmds, rest, ns, i, n

-----------------------------------------------------------------------------
(* mgGraphLaunch.                                                           *)

(* Running the indirect command buffer executes the one node of the exec.   *)
LEMMA IcbMapped ==
    ASSUME RefineInv, NEW l \in Launches, LaunchIcb(l)
    PROVE  Contract!Next
<1> DEFINE e == lexec[l]
           cmds == icb[e].captured
<1>1. /\ call.op = "icb" /\ call.l = l /\ Commit(l, cmds) /\ UNCHANGED <<nodes, lexec, report>>
      /\ lstate' = [lstate EXCEPT ![l] = "live"]
  BY DEF LaunchIcb, Encoding, Returned
<1>2. /\ lstate[l] = "encoding" /\ report[l] = "none" /\ ContractStatus(l) = "open"
      /\ \A m \in Launches : m # l => lstate[m] # "encoding"
  BY <1>1, Opened
<1>3. DOMAIN lstate = Launches
  BY DEF RefineInv, SyncInv, LaunchInv, TypeOK
<1>7. /\ Joined(call.open, ScriptFrom(NodesOf(l), call.i)) = Joined(cmds, <<>>)
      /\ cmds \in Seq(Command) /\ <<>> \in Seq(Command)
  BY <1>1, IcbScript
<1> HIDE DEF cmds
<1>8. /\ Script(l) = Joined(Submitted(l)', <<>>) /\ Submitted(l)' \in Seq(Command)
      /\ Executed(l)' = Executed(l) /\ Lost(l)' = Lost(l)
      /\ \A m \in Launches : m # l => Submitted(m)' = Submitted(m)
      /\ \A m \in Launches : m # l => Executed(m)' = Executed(m) /\ Lost(m)' = Lost(m)
  BY <1>1, <1>7, CommitMoves
<1>9. lstate'[l] = "live" /\ \A m \in Launches : m # l => lstate'[m] = lstate[m]
  BY <1>1, <1>3
<1>10. Others(l)
  BY <1>1, <1>2, <1>8, <1>9, OthersKept
<1>11. Script(l)' = Joined(Submitted(l)', <<>>)
  BY <1>9 DEF Script, ToEncode, Joined
<1>12. ContractStatus(l)' = "returned"
  BY <1>1, <1>2, <1>9 DEF ContractStatus
<1> QED BY <1>1, <1>2, <1>8, <1>10, <1>11, <1>12, AsReturn

(* A step of mgGraphLaunch that moves commands from the nodes to the open   *)
(* command buffer, or from there to the stream, is not seen.                *)
LEMMA EncodingUnseen ==
    ASSUME RefineInv, NEW l \in Launches, call.l = l, call.op \in {"icb", "encode", "midwait"},
           UNCHANGED <<nodes, lexec, lstate, report>>,
           \A m \in Launches : m # l => Submitted(m)' = Submitted(m),
           \A m \in Launches : m # l => Executed(m)' = Executed(m) /\ Lost(m)' = Lost(m),
           Executed(l)' = Executed(l), Lost(l)' = Lost(l),
           Script(l) = Joined(Submitted(l)', Joined(call'.open, ScriptFrom(NodesOf(l), call'.i)))
    PROVE  UNCHANGED Contract!vars
<1>1. lstate[l] = "encoding" /\ \A m \in Launches : m # l => lstate[m] # "encoding"
  BY Opened
<1>2. Others(l)
  BY <1>1, OthersKept
<1>3. Script(l)' = Script(l) /\ ContractStatus(l)' = ContractStatus(l)
  BY <1>1 DEF Script, ToEncode, Joined, NodesOf, ContractStatus
<1>4. \A m \in Launches : Same(m)
  BY <1>2, <1>3 DEF Others, Same
<1> QED BY <1>4, AsStutter

(* A node goes into the open command buffer.                                *)
LEMMA EncodeNodeMapped ==
    ASSUME RefineInv, NEW l \in Launches, EncodeNode(l)
    PROVE  UNCHANGED Contract!vars
<1> DEFINE ns == NodesOf(l)
           i  == call.i
           n  == ns[i]
<1>1. /\ call.op = "encode" /\ call.l = l /\ i \in DOMAIN ns
      /\ UNCHANGED <<nodes, lexec, lstate, report, cbs>>
      /\ call' = [[[call EXCEPT !.i = call.i + 1]
                        EXCEPT !.open = IF Encodes(n) THEN Append(call.open, CommandOf(n)) ELSE call.open]
                        EXCEPT !.work = call.work \/ MarksWork(n)]
  BY DEF EncodeNode, AtNode, Encoding, execVars, gpuVars
<1>2. /\ ns \in Seq(Node) /\ call.open \in Seq(Command) /\ Submitted(l) \in Seq(Command)
      /\ Script(l) = Joined(Submitted(l), Joined(call.open, ScriptFrom(ns, i)))
  BY <1>1, Opened
<1>3. call \in CallRecord
  BY DEF RefineInv, SyncInv, LaunchInv, TypeOK
<1> HIDE DEF ns, i, n
<1>4. /\ call'.i = call.i + 1
      /\ call'.open = IF Encodes(n) THEN Append(call.open, CommandOf(n)) ELSE call.open
  BY <1>1, <1>3 DEF CallRecord
<1>5. i \in 1..Len(ns) /\ n \in Node
  BY <1>1, <1>2 DEF n
<1>6. /\ ScriptFrom(ns, i) = Joined(Encoded(n), ScriptFrom(ns, i + 1))
      /\ Encoded(n) \in Seq(Command) /\ ScriptFrom(ns, i + 1) \in Seq(Command)
  BY <1>2, <1>5, NodeEncoded DEF n
<1>7. call'.open = Joined(call.open, Encoded(n))
  <2>1. CASE Encodes(n)
    <3>1. CommandOf(n) \in Command
      BY <1>5, CommandOfType
    <3>2. Append(call.open, CommandOf(n)) = Joined(call.open, <<CommandOf(n)>>)
      BY <1>2, <3>1, JoinedOne
    <3> QED BY <1>4, <2>1, <3>2 DEF Encoded
  <2>2. CASE ~Encodes(n)
    <3>1. Joined(call.open, <<>>) = call.open
      BY <1>2, JoinedEmpty
    <3> QED BY <1>4, <2>2, <3>1 DEF Encoded
  <2> QED BY <2>1, <2>2
<1>8. Joined(call.open, ScriptFrom(ns, i)) = Joined(call'.open, ScriptFrom(ns, call'.i))
  <2>1. Joined(Joined(call.open, Encoded(n)), ScriptFrom(ns, i + 1))
          = Joined(call.open, Joined(Encoded(n), ScriptFrom(ns, i + 1)))
    BY <1>2, <1>6, JoinedTwice
  <2> QED BY <1>4, <1>6, <1>7, <2>1 DEF i
<1>9. \A m \in Launches : Submitted(m)' = Submitted(m) /\ Executed(m)' = Executed(m) /\ Lost(m)' = Lost(m)
  BY <1>1 DEF Submitted, Executed, Lost
<1>10. Script(l) = Joined(Submitted(l)', Joined(call'.open, ScriptFrom(NodesOf(l), call'.i)))
  BY <1>2, <1>8, <1>9 DEF ns
<1> QED BY <1>1, <1>9, <1>10, EncodingUnseen

(* An MPSGraph node is a command buffer of its own.                         *)
LEMMA EncodeMpsMapped ==
    ASSUME RefineInv, NEW l \in Launches, EncodeMps(l)
    PROVE  UNCHANGED Contract!vars
<1> DEFINE ns == NodesOf(l)
           i  == call.i
           n  == ns[i]
           cmds == <<CommandOf(n)>>
           rest == ScriptFrom(ns, i + 1)
<1>1. /\ call.op = "encode" /\ call.l = l /\ i \in DOMAIN ns /\ n.kind = "mpsgraph" /\ ~call.work
      /\ UNCHANGED <<nodes, lexec, lstate, report>> /\ Commit(l, cmds)
      /\ call' = [call EXCEPT !.i = call.i + 1]
  BY DEF EncodeMps, AtNode, Encoding, execVars
<1>2. /\ cmds \in Seq(Command) /\ rest \in Seq(Command) /\ call.open = <<>>
      /\ Joined(call.open, ScriptFrom(NodesOf(l), call.i)) = Joined(cmds, rest)
  BY <1>1, MpsScript DEF EncodeMps
<1> HIDE DEF ns, i, n, cmds, rest
<1>3. call'.i = i + 1 /\ call'.open = <<>>
  <2>1. call \in CallRecord
    BY DEF RefineInv, SyncInv, LaunchInv, TypeOK
  <2> QED BY <1>1, <1>2, <2>1 DEF CallRecord, i
<1>7. /\ Script(l) = Joined(Submitted(l)', rest)
      /\ Executed(l)' = Executed(l) /\ Lost(l)' = Lost(l)
      /\ \A m \in Launches : m # l => Submitted(m)' = Submitted(m)
      /\ \A m \in Launches : m # l => Executed(m)' = Executed(m) /\ Lost(m)' = Lost(m)
  BY <1>1, <1>2, CommitMoves
<1>8. Joined(call'.open, ScriptFrom(NodesOf(l), call'.i)) = rest
  <2>1. Joined(<<>>, rest) = rest
    BY <1>2, JoinedEmpty
  <2> QED BY <1>3, <2>1 DEF ns, rest
<1> QED BY <1>1, <1>7, <1>8, EncodingUnseen

(* The open command buffer is committed before an MPSGraph node.            *)
LEMMA CommitBeforeMpsMapped ==
    ASSUME RefineInv, NEW l \in Launches, CommitBeforeMps(l)
    PROVE  UNCHANGED Contract!vars
<1> DEFINE rest == ScriptFrom(NodesOf(l), call.i)
<1>1. /\ call.op = "encode" /\ call.l = l /\ Commit(l, call.open)
      /\ UNCHANGED <<nodes, lexec, lstate, report>>
      /\ call' = [call EXCEPT !.op = "midwait", !.open = <<>>, !.work = FALSE]
  BY DEF CommitBeforeMps, AtNode, Encoding, execVars, launchVars
<1>2. call.open \in Seq(Command) /\ rest \in Seq(Command) /\ call \in CallRecord
  BY <1>1, Opened DEF RefineInv, SyncInv, LaunchInv, TypeOK
<1>3. call'.i = call.i /\ call'.open = <<>>
  BY <1>1, <1>2 DEF CallRecord
<1>4. /\ Script(l) = Joined(Submitted(l)', rest)
      /\ Executed(l)' = Executed(l) /\ Lost(l)' = Lost(l)
      /\ \A m \in Launches : m # l => Submitted(m)' = Submitted(m)
      /\ \A m \in Launches : m # l => Executed(m)' = Executed(m) /\ Lost(m)' = Lost(m)
  BY <1>1, <1>2, CommitMoves
<1>5. Joined(call'.open, ScriptFrom(NodesOf(l), call'.i)) = rest
  <2>1. Joined(<<>>, rest) = rest
    BY <1>2, JoinedEmpty
  <2> QED BY <1>3, <2>1
<1> QED BY <1>1, <1>4, <1>5, EncodingUnseen

(* The wait before an MPSGraph node ends.                                   *)
LEMMA WaitBeforeMpsMapped ==
    ASSUME RefineInv, NEW l \in Launches, WaitBeforeMps(l)
    PROVE  UNCHANGED Contract!vars
<1>1. /\ call.op = "midwait" /\ call.l = l /\ UNCHANGED <<nodes, lexec, lstate, report, cbs>>
      /\ call' = [call EXCEPT !.op = "encode"]
  BY DEF WaitBeforeMps, Encoding, execVars, launchVars, gpuVars
<1>2. call \in CallRecord
  BY DEF RefineInv, SyncInv, LaunchInv, TypeOK
<1>3. call'.open = call.open /\ call'.i = call.i
  BY <1>1, <1>2 DEF CallRecord
<1>4. \A m \in Launches : Submitted(m)' = Submitted(m) /\ Executed(m)' = Executed(m) /\ Lost(m)' = Lost(m)
  BY <1>1 DEF Submitted, Executed, Lost
<1>5. Script(l) = Joined(Submitted(l)', Joined(call'.open, ScriptFrom(NodesOf(l), call'.i)))
  BY <1>1, <1>3, <1>4, Opened
<1> QED BY <1>1, <1>4, <1>5, EncodingUnseen

(* mgGraphLaunch returns once everything is committed.                      *)
LEMMA ReturnMapped ==
    ASSUME RefineInv, NEW l \in Launches, LaunchReturn(l)
    PROVE  Contract!Next
<1>1. /\ call.op = "encode" /\ call.l = l /\ call.i > Len(NodesOf(l))
      /\ IF call.work THEN Commit(l, call.open) ELSE UNCHANGED cbs
      /\ UNCHANGED <<nodes, lexec, report>> /\ lstate' = [lstate EXCEPT ![l] = "live"]
  BY DEF LaunchReturn, Encoding, Returned, gpuVars
<1>2. /\ lstate[l] = "encoding" /\ report[l] = "none" /\ ContractStatus(l) = "open"
      /\ NodesOf(l) \in Seq(Node) /\ call.i \in Nat /\ call.open \in Seq(Command) /\ Submitted(l) \in Seq(Command)
      /\ Script(l) = Joined(Submitted(l), Joined(call.open, ScriptFrom(NodesOf(l), call.i)))
      /\ \A m \in Launches : m # l => lstate[m] # "encoding"
  BY <1>1, Opened
<1>3. ScriptFrom(NodesOf(l), call.i) = <<>> /\ <<>> \in Seq(Command)
  <2>1. ScriptFrom(NodesOf(l), call.i) = <<>>
    BY <1>1, <1>2, ScriptEnd
  <2> QED BY <2>1
<1>4. Script(l) = Joined(Submitted(l), call.open)
  <2>1. Joined(call.open, <<>>) = call.open
    BY <1>2, JoinedEmpty
  <2> QED BY <1>2, <1>3, <2>1
<1>5. /\ Script(l) = Submitted(l)'
      /\ Executed(l)' = Executed(l) /\ Lost(l)' = Lost(l)
      /\ \A m \in Launches : m # l => Submitted(m)' = Submitted(m)
      /\ \A m \in Launches : m # l => Executed(m)' = Executed(m) /\ Lost(m)' = Lost(m)
  <2>1. CASE call.work
    <3>1. Joined(call.open, ScriptFrom(NodesOf(l), call.i)) = Joined(call.open, <<>>)
      BY <1>3
    <3>2. Commit(l, call.open)
      BY <1>1, <2>1
    <3>3. /\ Submitted(l)' = Joined(Submitted(l), call.open)
          /\ Executed(l)' = Executed(l) /\ Lost(l)' = Lost(l)
          /\ \A m \in Launches : m # l => Submitted(m)' = Submitted(m)
          /\ \A m \in Launches : m # l => Executed(m)' = Executed(m) /\ Lost(m)' = Lost(m)
      BY <1>1, <1>2, <1>3, <3>1, <3>2, CommitMoves
    <3> QED BY <1>4, <3>3
  <2>2. CASE ~call.work
    <3>1. call.open = <<>> /\ UNCHANGED cbs
      BY <1>1, <2>2 DEF RefineInv, LaunchShape, Segment
    <3>2. \A m \in Launches : Submitted(m)' = Submitted(m) /\ Executed(m)' = Executed(m) /\ Lost(m)' = Lost(m)
      BY <3>1 DEF Submitted, Executed, Lost
    <3>3. Joined(Submitted(l), <<>>) = Submitted(l)
      BY <1>2, JoinedEmpty
    <3> QED BY <1>4, <3>1, <3>2, <3>3
  <2> QED BY <2>1, <2>2
<1>6. DOMAIN lstate = Launches
  BY DEF RefineInv, SyncInv, LaunchInv, TypeOK
<1>7. lstate'[l] = "live" /\ \A m \in Launches : m # l => lstate'[m] = lstate[m]
  BY <1>1, <1>6
<1>8. Others(l)
  BY <1>1, <1>2, <1>5, <1>7, OthersKept
<1>9. Script(l)' = Submitted(l)'
  <2>1. Submitted(l)' \in Seq(Command)
    <3>1. Joined(Submitted(l), call.open) \in Seq(Command)
      BY <1>2, JoinedLaws
    <3> QED BY <1>4, <1>5, <3>1
  <2>2. Joined(Submitted(l)', <<>>) = Submitted(l)'
    BY <2>1, JoinedEmpty
  <2> QED BY <1>7, <2>2 DEF Script, ToEncode, Joined
<1>10. ContractStatus(l)' = "returned"
  BY <1>1, <1>2, <1>7 DEF ContractStatus
<1> QED BY <1>1, <1>2, <1>5, <1>8, <1>9, <1>10, AsReturn

(* A launch that is given up leaves what it had submitted.                  *)
LEMMA AbandonMapped ==
    ASSUME RefineInv, NEW l \in Launches, call.l = l, call.op \in {"icb", "encode", "midwait"},
           Abandon(l), HostFaults \/ Lost(l), NEW rest \in Seq(Command), Submitted(l)' \in Seq(Command),
           Script(l) = Joined(Submitted(l)', rest), Len(Executed(l)) <= Len(Submitted(l)'),
           \A m \in Launches : m # l => Submitted(m)' = Submitted(m),
           \A m \in Launches : m # l => Executed(m)' = Executed(m) /\ Lost(m)' = Lost(m),
           Executed(l)' = Executed(l), Lost(l)' = Lost(l)
    PROVE  Contract!Next
<1>1. /\ UNCHANGED <<nodes, lexec, report>> /\ lstate' = [lstate EXCEPT ![l] = "failed"]
      /\ DOMAIN lstate = Launches
  BY DEF Abandon, RefineInv, SyncInv, LaunchInv, TypeOK
<1>2. /\ lstate[l] = "encoding" /\ ContractStatus(l) = "open" /\ Executed(l) \in Seq(Command)
      /\ \A m \in Launches : m # l => lstate[m] # "encoding"
  BY Opened
<1>3. lstate'[l] = "failed" /\ \A m \in Launches : m # l => lstate'[m] = lstate[m]
  BY <1>1
<1>4. Others(l)
  BY <1>1, <1>2, <1>3, OthersKept
<1>5. ContractStatus(l)' = "failed"
  BY <1>3 DEF ContractStatus
<1>6. Script(l)' = Submitted(l)'
  <2>1. Joined(Submitted(l)', <<>>) = Submitted(l)'
    BY JoinedEmpty
  <2> QED BY <1>3, <2>1 DEF Script, ToEncode, Joined
<1> DEFINE sub == Submitted(l)'
           n   == Len(sub)
<1> HIDE DEF sub
<1>7. sub \in Seq(Command)
  BY DEF sub
<1>8. sub = SubSeq(Joined(sub, rest), 1, n) /\ n <= Len(Joined(sub, rest)) /\ n \in Nat
      /\ Len(Joined(sub, rest)) \in Nat
  BY <1>7, PrefixOfJoined
<1>9. Len(Executed(l)) \in Nat
  BY <1>2
<1>10. n \in Len(Executed(l))..Len(Script(l)) /\ Script(l)' = SubSeq(Script(l), 1, n)
  BY <1>6, <1>8, <1>9 DEF sub
<1> HIDE DEF n
<1> QED BY <1>1, <1>2, <1>4, <1>5, <1>10, AsFail

(* The same when a last command buffer was committed.                       *)
LEMMA AbandonCommitted ==
    ASSUME RefineInv, NEW l \in Launches, call.l = l, call.op \in {"icb", "encode", "midwait"},
           Abandon(l), HostFaults, NEW cmds \in Seq(Command), Commit(l, cmds), NEW rest \in Seq(Command),
           Joined(call.open, ScriptFrom(NodesOf(l), call.i)) = Joined(cmds, rest)
    PROVE  Contract!Next
<1>1. /\ Script(l) = Joined(Submitted(l)', rest) /\ Submitted(l)' \in Seq(Command)
      /\ Len(Submitted(l)') = Len(Submitted(l)) + Len(cmds)
      /\ Executed(l)' = Executed(l) /\ Lost(l)' = Lost(l)
      /\ \A m \in Launches : m # l => Submitted(m)' = Submitted(m)
      /\ \A m \in Launches : m # l => Executed(m)' = Executed(m) /\ Lost(m)' = Lost(m)
  BY CommitMoves
<1>2. /\ Len(Executed(l)) <= Len(Submitted(l)) /\ Submitted(l) \in Seq(Command)
      /\ Executed(l) \in Seq(Command)
  BY Opened
<1>3. Len(Executed(l)) <= Len(Submitted(l)')
  <2>1. Len(Executed(l)) \in Nat /\ Len(Submitted(l)) \in Nat /\ Len(cmds) \in Nat
    BY <1>2
  <2> QED BY <1>1, <1>2, <2>1
<1> QED BY <1>1, <1>3, AbandonMapped

(* A launch fails when nothing more was submitted.                          *)
LEMMA AbandonUnsubmitted ==
    ASSUME RefineInv, NEW l \in Launches, call.l = l, call.op \in {"icb", "encode", "midwait"},
           Abandon(l), HostFaults \/ Lost(l), UNCHANGED cbs
    PROVE  Contract!Next
<1> DEFINE rest == Joined(call.open, ScriptFrom(NodesOf(l), call.i))
<1>1. /\ call.open \in Seq(Command) /\ ScriptFrom(NodesOf(l), call.i) \in Seq(Command)
      /\ Submitted(l) \in Seq(Command) /\ Len(Executed(l)) <= Len(Submitted(l))
      /\ Script(l) = Joined(Submitted(l), rest)
  BY Opened
<1>2. rest \in Seq(Command)
  BY <1>1, JoinedLaws
<1>3. \A m \in Launches : Submitted(m)' = Submitted(m) /\ Executed(m)' = Executed(m) /\ Lost(m)' = Lost(m)
  BY DEF Submitted, Executed, Lost
<1> HIDE DEF rest
<1>4. Submitted(l)' = Submitted(l) /\ Executed(l)' = Executed(l) /\ Lost(l)' = Lost(l)
  BY <1>3
<1> QED BY <1>1, <1>2, <1>3, <1>4, AbandonMapped

(* No encoder: what is encoded so far is dropped.                           *)
LEMMA FailEncodeMapped ==
    ASSUME RefineInv, NEW l \in Launches, LaunchFailEncode(l)
    PROVE  Contract!Next
<1>1. /\ HostFaults /\ Abandon(l) /\ UNCHANGED cbs
      /\ call.l = l /\ call.op \in {"icb", "encode", "midwait"}
  BY DEF LaunchFailEncode, AtNode, Encoding, gpuVars
<1> QED BY <1>1, AbandonUnsubmitted

(* The command buffer in front of an MPSGraph node failed, or no further    *)
(* one can be made.                                                         *)
LEMMA FailWaitMapped ==
    ASSUME RefineInv, NEW l \in Launches, LaunchFailWait(l)
    PROVE  Contract!Next
<1>1. /\ Abandon(l) /\ UNCHANGED cbs /\ call.l = l /\ call.op = "midwait"
      /\ cbs[l][Len(cbs[l])].st = "error" \/ HostFaults
  BY DEF LaunchFailWait, Encoding, gpuVars
<1>2. cbs[l] # <<>> /\ cbs[l] \in Seq(CommandBuffer)
  BY <1>1 DEF RefineInv, LaunchShape, Answered, SyncInv, LaunchInv, TypeOK
<1>3. Len(cbs[l]) \in DOMAIN cbs[l]
  BY <1>2
<1>4. HostFaults \/ Lost(l)
  BY <1>1, <1>3 DEF Lost
<1> QED BY <1>1, <1>4, AbandonUnsubmitted

(* A launch fails after a command buffer was committed: that of the         *)
(* indirect commands, that of an MPSGraph node, or the open one.            *)
LEMMA FailCommitMapped ==
    ASSUME RefineInv, NEW l \in Launches, LaunchFailCommit(l)
    PROVE  Contract!Next
<1> DEFINE ns == NodesOf(l)
           i  == call.i
           rest == ScriptFrom(ns, i)
<1>0. HostFaults /\ Abandon(l)
  BY DEF LaunchFailCommit
<1>1. CASE Encoding("icb", l) /\ Commit(l, icb[lexec[l]].captured)
  <2>1. call.op = "icb" /\ call.l = l
    BY <1>1 DEF Encoding
  <2>2. /\ icb[lexec[l]].captured \in Seq(Command)
        /\ Joined(call.open, rest) = Joined(icb[lexec[l]].captured, <<>>)
    BY <2>1, IcbScript
  <2>3. <<>> \in Seq(Command)
    OBVIOUS
  <2> QED BY <1>0, <1>1, <2>1, <2>2, <2>3, AbandonCommitted
<1>2. ASSUME AtNode(l, {"mpsgraph"}), ~call.work, Commit(l, <<CommandOf(ns[i])>>)
      PROVE  Contract!Next
  <2>1. call.op = "encode" /\ call.l = l
    BY <1>2 DEF AtNode, Encoding
  <2>2. /\ <<CommandOf(ns[i])>> \in Seq(Command) /\ ScriptFrom(ns, i + 1) \in Seq(Command)
        /\ Joined(call.open, rest) = Joined(<<CommandOf(ns[i])>>, ScriptFrom(ns, i + 1))
    BY <1>2, MpsScript
  <2> QED BY <1>0, <1>2, <2>1, <2>2, AbandonCommitted
<1>3. ASSUME Encoding("encode", l), Commit(l, call.open) PROVE Contract!Next
  <2>1. call.op = "encode" /\ call.l = l
    BY <1>3 DEF Encoding
  <2>2. call.open \in Seq(Command) /\ rest \in Seq(Command)
    BY <2>1, Opened
  <2> QED BY <1>0, <1>3, <2>1, <2>2, AbandonCommitted
<1> QED BY <1>1, <1>2, <1>3 DEF LaunchFailCommit, LaunchFailSegment, AtNode

-----------------------------------------------------------------------------
(* The other calls.                                                         *)

(* Nothing the contract looks at changes.                                   *)
LEMMA Unseen ==
    ASSUME UNCHANGED <<nodes, lexec, cbs, call, lstate, report>>
    PROVE  UNCHANGED Contract!vars
<1>1. \A m \in Launches : Same(m)
  BY DEF Same, Script, Submitted, Executed, ToEncode, Lost, ContractStatus, NodesOf
<1> QED BY <1>1, AsStutter

(* While nothing is being encoded, scripts are what was submitted.          *)
LEMMA Calm ==
    ASSUME UNCHANGED cbs, NEW m \in Launches, lstate[m] # "encoding", lstate'[m] # "encoding"
    PROVE  /\ Script(m)' = Script(m) /\ Executed(m)' = Executed(m) /\ Lost(m)' = Lost(m)
           /\ Script(m) = Submitted(m) \o <<>>
BY DEF Script, Submitted, Executed, ToEncode, Lost

(* When the GPU has finished a launch it has executed what will be.         *)
LEMMA FinishedExecuted ==
    ASSUME RefineInv, NEW l \in Launches, AllFinished(l), lstate[l] # "encoding"
    PROVE  Executed(l) = Script(l)
<1>1. /\ cbs[l] \in Seq(Running) /\ Executed(l) = FlattenSeq(EachRan(cbs[l]))
      /\ Submitted(l) = FlattenSeq(EachRuns(cbs[l])) /\ Submitted(l) \in Seq(Command)
  BY LaunchFacts
<1>2. ASSUME NEW k \in DOMAIN cbs[l] PROVE Ran(cbs[l][k]) = Runs(cbs[l][k])
  <2>1. Finished(cbs[l][k]) /\ cbs[l][k] \in Running
    BY <1>1 DEF AllFinished
  <2>2. CASE cbs[l][k].st = "completed"
    <3>1. cbs[l][k].pos = Len(cbs[l][k].cmds)
      BY <2>2 DEF RefineInv, StreamOrder, Progressed
    <3> QED BY <2>1, <2>2, <3>1, RanType DEF Runs
  <2>3. CASE cbs[l][k].st = "error"
    BY <2>3 DEF Runs
  <2> QED BY <2>1, <2>2, <2>3 DEF Finished
<1>3. EachRan(cbs[l]) = EachRuns(cbs[l])
  BY <1>2 DEF EachRan, EachRuns
<1>4. Script(l) = Submitted(l)
  BY <1>1, NothingToEncode DEF Script
<1> QED BY <1>1, <1>3, <1>4

-----------------------------------------------------------------------------
(* mgLaunchSynchronize.                                                     *)

(* Waiting is not seen.                                                     *)
LEMMA SyncWaitMapped ==
    ASSUME RefineInv, NEW l \in Launches, SyncWait(l)
    PROVE  UNCHANGED Contract!vars
<1>1. UNCHANGED <<nodes, lexec, cbs, lstate, report>> /\ call.op = "sync"
  BY DEF SyncWait, Encoding, execVars, launchVars, gpuVars
<1>2. \A m \in Launches : lstate[m] # "encoding" /\ lstate'[m] # "encoding"
  BY <1>1, NoneEncoding DEF RefineInv
<1>3. \A m \in Launches : Same(m)
  BY <1>1, <1>2, Calm DEF Same, ContractStatus
<1> QED BY <1>1, <1>3, AsStutter

(* A synchronisation that reports success, for the first time, is the       *)
(* contract's; any other is not seen.                                       *)
LEMMA SyncReturnMapped ==
    ASSUME RefineInv, NEW l \in Launches, SyncReturn(l)
    PROVE  Contract!Next \/ UNCHANGED Contract!vars
<1>0. TypeOK /\ CallConsistent /\ SyncProgress /\ SyncReportsFaithfully
  BY DEF RefineInv, SyncInv, LaunchInv
<1>1. /\ UNCHANGED <<nodes, lexec, cbs, lstate>> /\ call.op = "sync" /\ call.l = l
      /\ call.i > Len(cbs[l])
      /\ report' = [report EXCEPT ![l] = IF call.err THEN "backend_error" ELSE "ok"]
  BY DEF SyncReturn, Encoding, SyncWaitedForAll, gpuVars
<1>2. \A m \in Launches : lstate[m] # "encoding" /\ lstate'[m] # "encoding"
  BY <1>1, NoneEncoding DEF RefineInv
<1>3. lstate[l] = "live" /\ lstate'[l] = "live"
  BY <1>0, <1>1 DEF CallConsistent
<1>4. \A m \in Launches : Script(m)' = Script(m) /\ Executed(m)' = Executed(m) /\ Lost(m)' = Lost(m)
  BY <1>1, <1>2, Calm
<1>5. report'[l] = (IF call.err THEN "backend_error" ELSE "ok")
      /\ \A m \in Launches : m # l => report'[m] = report[m]
  BY <1>0, <1>1 DEF TypeOK
<1>6. \A m \in Launches : m # l => Same(m)
  BY <1>1, <1>4, <1>5 DEF Same, ContractStatus
<1>7. /\ \A k \in DOMAIN cbs[l] : Finished(cbs[l][k])
      /\ call.err <=> Lost(l)
  <2>1. /\ \A k \in DOMAIN cbs[l] : k < call.i => Finished(cbs[l][k])
        /\ call.err <=> \E k \in DOMAIN cbs[l] : k < call.i /\ cbs[l][k].st = "error"
    BY <1>0, <1>1 DEF SyncProgress
  <2>2. cbs[l] \in Seq(CommandBuffer) /\ call.i \in Nat
    BY <1>0 DEF TypeOK, CallRecord
  <2>3. \A k \in DOMAIN cbs[l] : k < call.i
    BY <1>1, <2>2
  <2> QED BY <2>1, <2>3 DEF Lost
<1>8. Executed(l) = Script(l)
  BY <1>2, <1>7, FinishedExecuted DEF AllFinished
<1>9. CASE call.err
  <2>1. Lost(l) /\ report'[l] = "backend_error"
    BY <1>5, <1>7, <1>9
  <2>2. report[l] # "ok"
    BY <1>0, <2>1 DEF SyncReportsFaithfully, Lost
  <2>3. ContractStatus(l)' = ContractStatus(l)
    BY <1>3, <2>1, <2>2 DEF ContractStatus
  <2>4. \A m \in Launches : Same(m)
    BY <1>4, <1>6, <2>3 DEF Same
  <2> QED BY <1>1, <2>4, AsStutter
<1>10. CASE ~call.err /\ report[l] = "ok"
  <2>1. report'[l] = "ok"
    BY <1>5, <1>10
  <2>2. ContractStatus(l)' = ContractStatus(l)
    BY <1>3, <1>10, <2>1 DEF ContractStatus
  <2>3. \A m \in Launches : Same(m)
    BY <1>4, <1>6, <2>2 DEF Same
  <2> QED BY <1>1, <2>3, AsStutter
<1>11. CASE ~call.err /\ report[l] # "ok"
  <2>1. report'[l] = "ok" /\ ~Lost(l)
    BY <1>5, <1>7, <1>11
  <2>2. ContractStatus(l) = "returned" /\ ContractStatus(l)' = "synchronized"
    BY <1>3, <1>11, <2>1 DEF ContractStatus
  <2> QED BY <1>1, <1>4, <1>6, <1>8, <2>1, <2>2, AsSynchronize DEF Others
<1> QED BY <1>9, <1>10, <1>11

(* Every step of a call in progress.                                        *)
LEMMA HostMapped ==
    ASSUME RefineInv, NEW l \in Launches, HostStep(l)
    PROVE  Contract!Next \/ UNCHANGED Contract!vars
<1>1. CASE LaunchIcb(l)
  BY <1>1, IcbMapped
<1>2. CASE EncodeNode(l)
  BY <1>2, EncodeNodeMapped
<1>3. CASE EncodeMps(l)
  BY <1>3, EncodeMpsMapped
<1>4. CASE CommitBeforeMps(l)
  BY <1>4, CommitBeforeMpsMapped
<1>5. CASE WaitBeforeMps(l)
  BY <1>5, WaitBeforeMpsMapped
<1>6. CASE LaunchReturn(l)
  BY <1>6, ReturnMapped
<1>7. CASE LaunchFailEncode(l)
  BY <1>7, FailEncodeMapped
<1>8. CASE LaunchFailCommit(l)
  BY <1>8, FailCommitMapped
<1>9. CASE LaunchFailWait(l)
  BY <1>9, FailWaitMapped
<1>10. CASE SyncWait(l)
  BY <1>10, SyncWaitMapped
<1>11. CASE SyncReturn(l)
  BY <1>11, SyncReturnMapped
<1> QED BY <1>1, <1>2, <1>3, <1>4, <1>5, <1>6, <1>7, <1>8, <1>9, <1>10, <1>11 DEF HostStep

-----------------------------------------------------------------------------
(* The calls of one step.                                                   *)

(* Between calls nothing is being encoded.                                  *)
LEMMA IdleCalm ==
    ASSUME RefineInv, Idle
    PROVE  \A m \in Launches : lstate[m] # "encoding"
BY NoneEncoding DEF RefineInv, Idle

(* An instantiated exec gets commands; it had none and owned no launch.     *)
LEMMA InstantiateMapped ==
    ASSUME RefineInv, NEW e \in Execs, NEW made \in BOOLEAN, Instantiate(e, made)
    PROVE  Contract!Next
<1>0. TypeOK /\ Fresh /\ Owned
  BY DEF RefineInv, SyncInv, LaunchInv, RefInv, LaunchShape
<1>1. /\ Idle /\ estate[e] = "none" /\ nodes' = [nodes EXCEPT ![e] = graph[e]]
      /\ UNCHANGED <<lexec, cbs, call, lstate, report>>
  BY DEF Instantiate, launchVars, gpuVars
<1>2. nodes \in [Execs -> Seq(Node)] /\ graph[e] \in Seq(Node)
  BY <1>0 DEF TypeOK
<1>3. nodes' \in [Execs -> Seq(Node)] /\ nodes'[e] \in Seq(Node) /\ \A f \in Execs : f # e => nodes'[f] = nodes[f]
  BY <1>1, <1>2
<1>4. nodes[e] = <<>>
  BY <1>0, <1>1 DEF Fresh
<1>5. ScriptFrom(nodes[e], 1) = <<>>
  <2>1. nodes[e] \in Seq(Node) /\ 1 \in Nat /\ 1 > Len(nodes[e])
    BY <1>4
  <2> QED BY <2>1, ScriptEnd
<1>6. ScriptFrom(nodes'[e], 1) \in Seq(Command)
  <2>1. 1 \in 1..(Len(nodes'[e]) + 1)
    BY <1>3
  <2> QED BY <1>3, <2>1, ScriptType
<1>7. \A m \in Launches : lexec[m] # e
  BY <1>0, <1>1 DEF Owned
<1>8. \A m \in Launches : Same(m)
  BY <1>1, IdleCalm, Calm DEF Same, ContractStatus
<1> QED BY <1>1, <1>2, <1>3, <1>5, <1>6, <1>7, <1>8, AsInstantiate

(* A destroyed exec has no commands left; none of its launches is open.     *)
LEMMA ExecDestroyMapped ==
    ASSUME RefineInv, NEW e \in Execs, ExecDestroy(e)
    PROVE  Contract!Next
<1>1. /\ Idle /\ nodes' = [nodes EXCEPT ![e] = <<>>]
      /\ UNCHANGED <<lexec, cbs, call, lstate, report>>
  BY DEF ExecDestroy, launchVars, gpuVars
<1>2. nodes \in [Execs -> Seq(Node)]
  BY DEF RefineInv, SyncInv, LaunchInv, TypeOK
<1>3. nodes'[e] = <<>> /\ \A f \in Execs : f # e => nodes'[f] = nodes[f]
  BY <1>1, <1>2
<1>4. ScriptFrom(nodes'[e], 1) = <<>>
  <2>1. nodes'[e] \in Seq(Node) /\ 1 \in Nat /\ 1 > Len(nodes'[e])
    BY <1>3
  <2> QED BY <2>1, ScriptEnd
<1>5. \A m \in Launches : lstate[m] # "encoding"
  BY <1>1, IdleCalm
<1>6. \A m \in Launches : Same(m) /\ ContractStatus(m) # "open"
  BY <1>1, <1>5, Calm DEF Same, ContractStatus
<1> QED BY <1>1, <1>3, <1>4, <1>6, AsDestroy

(* A launch begins with the nodes the exec has.                             *)
LEMMA LaunchBeginMapped ==
    ASSUME RefineInv, NEW e \in Execs, NEW s \in Streams, NEW l \in Launches, LaunchBegin(e, s, l)
    PROVE  Contract!Next
<1>0. TypeOK /\ Fresh
  BY DEF RefineInv, SyncInv, LaunchInv, RefInv
<1>1. /\ Idle /\ lstate[l] = "none" /\ lexec' = [lexec EXCEPT ![l] = e]
      /\ lstate' = [lstate EXCEPT ![l] = "encoding"]
      /\ UNCHANGED <<nodes, cbs, report>> /\ call'.i = 1 /\ call'.open = <<>>
  BY DEF LaunchBegin, gpuVars, NoCall
<1>2. /\ lexec'[l] = e /\ lstate'[l] = "encoding"
      /\ \A m \in Launches : m # l => lstate'[m] = lstate[m]
  BY <1>0, <1>1 DEF TypeOK
<1>3. \A m \in Launches : lstate[m] # "encoding"
  BY <1>1, IdleCalm
<1>4. Others(l)
  BY <1>1, <1>2, <1>3, Calm DEF Others, Same, ContractStatus
<1>5. Executed(l)' = Executed(l) /\ Lost(l)' = Lost(l) /\ Submitted(l)' = Submitted(l)
  BY <1>1 DEF Executed, Lost, Submitted
<1>6. Submitted(l) = <<>>
  <2>1. cbs[l] = <<>>
    BY <1>0, <1>1 DEF Fresh
  <2>2. [k \in DOMAIN cbs[l] |-> Runs(cbs[l][k])] = <<>>
    BY <2>1
  <2> QED BY <2>2 DEF Submitted, FlattenSeq
<1>7. ScriptFrom(nodes[e], 1) \in Seq(Command)
  <2>1. nodes[e] \in Seq(Node)
    BY <1>0 DEF TypeOK
  <2>2. 1 \in 1..(Len(nodes[e]) + 1)
    BY <2>1
  <2> QED BY <2>1, <2>2, ScriptType
<1>8. Script(l)' = ScriptFrom(nodes[e], 1)
  <2>1. ToEncode(l)' = <<>> \o ScriptFrom(nodes[e], 1)
    BY <1>1, <1>2 DEF ToEncode, NodesOf
  <2>2. Script(l)' = <<>> \o (<<>> \o ScriptFrom(nodes[e], 1))
    BY <1>5, <1>6, <2>1 DEF Script
  <2>3. Joined(<<>>, ScriptFrom(nodes[e], 1)) = ScriptFrom(nodes[e], 1)
    BY <1>7, JoinedEmpty
  <2> QED BY <2>2, <2>3 DEF Joined
<1>9. ContractStatus(l) = "none" /\ ContractStatus(l)' = "open"
  BY <1>1, <1>2 DEF ContractStatus
<1> QED BY <1>1, <1>4, <1>5, <1>8, <1>9, AsLaunch

(* Synchronisations that are only begun or rejected, and the end of a       *)
(* launch object.                                                           *)
LEMMA LaunchCallMapped ==
    ASSUME RefineInv, NEW l \in Launches, SyncRejected(l) \/ SyncBegin(l) \/ LaunchDestroy(l)
    PROVE  UNCHANGED Contract!vars
<1>0. TypeOK /\ Answered
  BY DEF RefineInv, SyncInv, LaunchInv, LaunchShape
<1>1. UNCHANGED <<nodes, lexec, cbs>> /\ Idle
  BY DEF SyncRejected, SyncBegin, LaunchDestroy, execVars, launchVars, gpuVars
<1>2. \A m \in Launches : lstate[m] # "encoding"
  BY <1>1, IdleCalm
<1>3. CASE SyncRejected(l)
  <2>1. /\ cbs[l] = <<>> /\ lstate[l] = "live" /\ UNCHANGED lstate
        /\ report' = [report EXCEPT ![l] = "invalid_argument"]
    BY <1>3 DEF SyncRejected
  <2>2. report[l] # "ok"
    BY <1>0, <2>1 DEF Answered
  <2>3. report'[l] # "ok" /\ \A m \in Launches : m # l => report'[m] = report[m]
    BY <1>0, <2>1 DEF TypeOK
  <2>4. \A m \in Launches : ContractStatus(m)' = ContractStatus(m)
    BY <2>1, <2>2, <2>3 DEF ContractStatus
  <2>5. \A m \in Launches : Same(m)
    BY <1>1, <1>2, <2>1, <2>4, Calm DEF Same
  <2> QED BY <1>1, <2>5, AsStutter
<1>4. CASE SyncBegin(l)
  <2>1. UNCHANGED <<lstate, report>>
    BY <1>4 DEF SyncBegin, launchVars
  <2>2. \A m \in Launches : Same(m)
    BY <1>1, <1>2, <2>1, Calm DEF Same, ContractStatus
  <2> QED BY <1>1, <2>2, AsStutter
<1>5. CASE LaunchDestroy(l)
  <2>1. lstate[l] = "live" /\ lstate' = [lstate EXCEPT ![l] = "destroyed"] /\ UNCHANGED report
    BY <1>5 DEF LaunchDestroy
  <2>2. lstate'[l] = "destroyed" /\ \A m \in Launches : m # l => lstate'[m] = lstate[m]
    BY <1>0, <2>1 DEF TypeOK
  <2>3. \A m \in Launches : lstate'[m] # "encoding" /\ ContractStatus(m)' = ContractStatus(m)
    BY <1>2, <2>1, <2>2 DEF ContractStatus
  <2>4. \A m \in Launches : Same(m)
    BY <1>1, <1>2, <2>3, Calm DEF Same
  <2> QED BY <1>1, <2>4, AsStutter
<1> QED BY <1>3, <1>4, <1>5

(* A patch that replaces a node replaces a command, when the GPU has        *)
(* finished the launches of the exec.                                       *)
LEMMA PatchMapped ==
    ASSUME RefineInv, NEW e \in Execs, Patch(e)
    PROVE  Contract!Next \/ UNCHANGED Contract!vars
<1>0. TypeOK /\ SyncInv
  BY DEF RefineInv, SyncInv, LaunchInv
<1>1. Idle /\ PatchReady(e)
  BY <1>0, PatchForm, PatchesWhenReady
<1>2. CASE \E on \in BOOLEAN : SetOptimizationFlags(e, on)
  <2>1. UNCHANGED <<nodes, lexec, cbs, call, lstate, report>>
    BY <1>2 DEF SetOptimizationFlags, launchVars, gpuVars
  <2> QED BY <2>1, Unseen
<1>3. ASSUME NEW i \in DOMAIN nodes[e], NEW n \in Node, Patched(e, i, n),
             n.kind = nodes[e][i].kind, Encodes(n)
      PROVE  Contract!Next
  <2>1. nodes' = [nodes EXCEPT ![e][i] = n] /\ UNCHANGED <<lexec, cbs, call, lstate, report>>
    BY <1>3 DEF Patched, launchVars, gpuVars
  <2>2. nodes \in [Execs -> Seq(Node)] /\ nodes[e] \in Seq(Node)
    BY <1>0 DEF TypeOK
  <2>3. nodes'[e] = [nodes[e] EXCEPT ![i] = n] /\ \A f \in Execs : f # e => nodes'[f] = nodes[f]
    BY <2>1, <2>2
  <2>4. \A m \in Launches : lstate[m] # "encoding"
    BY <1>1, IdleCalm
  <2>5. \A m \in Launches : Same(m)
    BY <2>1, <2>4, Calm DEF Same, ContractStatus
  <2>6. ASSUME NEW m \in Launches, lexec[m] = e
        PROVE  /\ ContractStatus(m) # "open"
               /\ ContractStatus(m) = "returned" => Executed(m) = Script(m)
    <3>1. ContractStatus(m) # "open"
      BY <2>4 DEF ContractStatus
    <3>2. ASSUME ContractStatus(m) = "returned" PROVE Executed(m) = Script(m)
      <4>1. lstate[m] \in {"live", "destroyed"}
        <5>1. lstate[m] \in {"none", "encoding", "live", "failed", "destroyed"}
          BY <1>0 DEF TypeOK
        <5>2. lstate[m] # "none" /\ lstate[m] # "failed"
          BY <3>2 DEF ContractStatus
        <5> QED BY <2>4, <5>1, <5>2
      <4>2. AllFinished(m)
        BY <1>0, <1>1, <2>6, <4>1, NoneInFlight
      <4> QED BY <2>4, <4>2, FinishedExecuted
    <3> QED BY <3>1, <3>2
  <2>7. Encodes(nodes[e][i])
    BY <1>3 DEF Encodes
  <2>8. PICK k \in DOMAIN ScriptFrom(nodes[e], 1) :
            ScriptFrom([nodes[e] EXCEPT ![i] = n], 1) = [ScriptFrom(nodes[e], 1) EXCEPT ![k] = CommandOf(n)]
    BY <1>3, <2>2, <2>7, ScriptPatched, SMTT(30)
  <2>9. CommandOf(n) \in Command
    BY <1>3, CommandOfType
  <2>10. ScriptFrom(nodes[e], 1) \in Seq(Command)
    <3>1. 1 \in 1..(Len(nodes[e]) + 1)
      BY <2>2
    <3> QED BY <2>2, <3>1, ScriptType
  <2>11. ScriptFrom(nodes'[e], 1) = [ScriptFrom(nodes[e], 1) EXCEPT ![k] = CommandOf(n)]
    BY <2>3, <2>8
  <2> QED BY <2>1, <2>3, <2>5, <2>6, <2>9, <2>10, <2>11, AsPatch
<1> QED BY <1>0, <1>2, <1>3, PatchForm

(* The calls the caller makes or starts.                                    *)
LEMMA CallerMapped ==
    ASSUME RefineInv, CallerStep
    PROVE  Contract!Next \/ UNCHANGED Contract!vars
<1>1. ASSUME NEW e \in Execs, NEW made \in BOOLEAN, Instantiate(e, made) PROVE Contract!Next
  BY <1>1, InstantiateMapped
<1>2. ASSUME NEW e \in Execs, GraphDestroy(e) PROVE UNCHANGED Contract!vars
  <2>1. UNCHANGED <<nodes, lexec, cbs, call, lstate, report>>
    BY <1>2 DEF GraphDestroy, execVars, launchVars, gpuVars
  <2> QED BY <2>1, Unseen
<1>3. ASSUME NEW e \in Execs, ExecDestroy(e) PROVE Contract!Next
  BY <1>3, ExecDestroyMapped
<1>4. ASSUME NEW e \in Execs, Patch(e) PROVE Contract!Next \/ UNCHANGED Contract!vars
  BY <1>4, PatchMapped
<1>5. ASSUME NEW e \in Execs, NEW s \in Streams, NEW l \in Launches, LaunchBegin(e, s, l)
      PROVE  Contract!Next
  BY <1>5, LaunchBeginMapped
<1>6. ASSUME NEW l \in Launches, SyncRejected(l) \/ SyncBegin(l) \/ LaunchDestroy(l)
      PROVE  UNCHANGED Contract!vars
  BY <1>6, LaunchCallMapped
<1>7. ASSUME NEW o \in Objects, HandleDestroy(o) PROVE UNCHANGED Contract!vars
  <2>1. UNCHANGED <<nodes, lexec, cbs, call, lstate, report>>
    BY <1>7 DEF HandleDestroy, execVars, launchVars, gpuVars
  <2> QED BY <2>1, Unseen
<1> QED BY <1>1, <1>2, <1>3, <1>4, <1>5, <1>6, <1>7 DEF CallerStep

-----------------------------------------------------------------------------
(* The theorems.                                                            *)

(* The invariant holds at the start.                                        *)
LEMMA RefineInit == Init => RefineInv
<1> SUFFICES ASSUME Init PROVE RefineInv
  OBVIOUS
<1>1. SyncInv /\ RefInv
  BY SyncInit, RefInit
<1>2. StreamOrder
  BY DEF Init, StreamOrder, OnStream, Fifo, AllQueued, Progressed, InOrder
<1>3. LaunchShape
  BY NoneAssumption DEF Init, LaunchShape, Owned, Encoder, Segment, Answered, NoCall
<1> QED BY <1>1, <1>2, <1>3 DEF RefineInv

(* Every step preserves the invariant.                                      *)
LEMMA RefineStep == RefineInv /\ [Next]_vars => RefineInv'
<1> SUFFICES ASSUME RefineInv, [Next]_vars PROVE RefineInv'
  OBVIOUS
<1>1. SyncInv /\ RefInv /\ StreamOrder /\ LaunchShape
  BY DEF RefineInv
<1>2. SyncInv' /\ RefInv'
  BY <1>1, SyncStep, RefStep
<1>3. StreamOrder'
  BY <1>1, StreamStep DEF SyncInv, RefInv
<1>4. LaunchShape'
  BY <1>1, ShapeStep
<1> QED BY <1>2, <1>3, <1>4 DEF RefineInv

(* The invariant behind the refinement: what is queued, recorded, reported  *)
(* and held at every moment of a run of the program.                        *)
THEOREM RefineInvariant == Spec => []RefineInv
BY RefineInit, RefineStep, PTL DEF Spec

(* At the start no exec has a command and no launch a script.               *)
LEMMA ContractInit == Init => Contract!Init
<1> SUFFICES ASSUME Init PROVE Contract!Init
  OBVIOUS
<1>1. \A e \in Execs : ScriptFrom(nodes[e], 1) = <<>>
  <2>1. <<>> \in Seq(Node) /\ 1 \in Nat /\ 1 > Len(<<>>)
    OBVIOUS
  <2>2. ScriptFrom(<<>>, 1) = <<>>
    BY <2>1, ScriptEnd
  <2> QED BY <2>2 DEF Init
<1>2. ASSUME NEW l \in Launches
      PROVE  /\ Executed(l) = <<>> /\ Script(l) = <<>> /\ ~Lost(l) /\ ContractStatus(l) = "none"
             /\ lexec[l] = None
  <2>1. cbs[l] = <<>> /\ lstate[l] = "none" /\ lexec[l] = None
    BY DEF Init
  <2>2. /\ [k \in DOMAIN cbs[l] |-> Ran(cbs[l][k])] = <<>>
        /\ [k \in DOMAIN cbs[l] |-> Runs(cbs[l][k])] = <<>>
    BY <2>1
  <2>3. Executed(l) = <<>> /\ Submitted(l) = <<>>
    BY <2>2 DEF Executed, Submitted, FlattenSeq
  <2>4. ToEncode(l) = <<>>
    BY <2>1 DEF ToEncode
  <2>5. Script(l) = <<>>
    BY <2>3, <2>4 DEF Script
  <2> QED BY <2>1, <2>3, <2>5 DEF Lost, ContractStatus
<1>3. \A l \in Launches : Lost(l) = FALSE
  BY <1>2 DEF Lost
<1>4. lexec = [l \in Launches |-> None]
  BY DEF Init
<1> QED BY <1>1, <1>2, <1>3, <1>4 DEF Contract!Init

(* Every step of the program is a step of the contract, or is not seen.     *)
LEMMA ContractStep == RefineInv /\ [Next]_vars => [Contract!Next]_(Contract!vars)
<1> SUFFICES ASSUME RefineInv, [Next]_vars PROVE Contract!Next \/ UNCHANGED Contract!vars
  OBVIOUS
<1>1. CASE CallerStep
  BY <1>1, CallerMapped
<1>2. CASE \E l \in Launches : HostStep(l)
  BY <1>2, HostMapped
<1>3. CASE \E s \in Streams : GpuStep(s)
  BY <1>3, GpuMapped
<1>4. CASE UNCHANGED vars
  <2>1. UNCHANGED <<nodes, lexec, cbs, call, lstate, report>>
    BY <1>4 DEF vars, execVars, launchVars, gpuVars
  <2> QED BY <2>1, Unseen
<1> QED BY <1>1, <1>2, <1>3, <1>4 DEF Next, Quiet

(* ImplementsContract: for any number of execs, launches, streams and nodes, *)
(* and whatever the host or the GPU fails, mgGraphLaunch has the GPU execute *)
(* the commands the exec held when it was called, each once and in order,    *)
(* with or without the indirect command buffer and across the segments that  *)
(* MPSGraph nodes make of it; a patch affects later launches only; and       *)
(* mgLaunchSynchronize returns MG_OK only after the last of them.            *)
THEOREM LaunchImplements == Spec => ImplementsContract
BY ContractInit, ContractStep, RefineInvariant, PTL DEF Spec, ImplementsContract, Contract!Spec

=============================================================================
