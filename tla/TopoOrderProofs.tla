---------------------------- MODULE TopoOrderProofs ----------------------------
(***************************************************************************)
(* The safety properties of TopoOrder for graphs of every size: first      *)
(* facts about the edges that still hold a node back, then one lemma per   *)
(* loop round, and the theorems.                                           *)
(***************************************************************************)
EXTENDS TopoOrder, BoundedInduction, FiniteSetTheorems

(* The edges into a node among the first j.                                 *)
Counted(es, j, n) == {k \in 1..j : es[k][2] = n}

(* Relaxed, for an order od and the loop p with index j.                    *)
RelaxedIn(es, od, p, j, k) ==
    /\ es[k][1] \in Elements(od)
    /\ p = "relax" /\ es[k][1] = od[Len(od)] => k <= j

(* The edges that still hold a node back.                                   *)
Waiting(es, od, p, j, n) == {k \in DOMAIN es : es[k][2] = n /\ ~RelaxedIn(es, od, p, j, k)}

(* No member of a queue is there twice.                                     *)
Injective(q) == \A x, y \in DOMAIN q : q[x] = q[y] => x = y

(* The order is what was taken from the queue.                              *)
Prefix(od, q, h) == Len(od) = h /\ h <= Len(q) /\ \A x \in 1..h : od[x] = q[x]

(* What is queued depends only on what was taken before it was queued.      *)
Behind(es, q, h) ==
    \A y \in DOMAIN q, k \in DOMAIN es :
        es[k][2] = q[y] => \E x \in DOMAIN q : x < y /\ x <= h /\ q[x] = es[k][1]

(* TypeOK, without the claim that no indegree is negative.                  *)
Types ==
    /\ node_count \in 0..MaxNodes /\ edges \in Seq(Nodes \X Nodes)
    /\ pc \in {"idle", "count", "roots", "take", "relax"}
    /\ IF pc = "idle" THEN indegree = <<>> ELSE indegree \in [Nodes -> Int]
    /\ queue \in Seq(Nodes) /\ order \in Seq(Nodes)
    /\ head \in Nat /\ head <= Len(queue) /\ i \in Nat
    /\ status \in {"none", "ok", "cycle"}

(* Between calls the queue is gone and the last answer is right.            *)
Idling == pc = "idle" =>
    /\ queue = <<>> /\ head = 0
    /\ OrderIsTopological /\ CycleReported

(* The counting loop has counted the edges it has passed.                   *)
Counting == pc = "count" =>
    /\ queue = <<>> /\ head = 0 /\ order = <<>> /\ i <= Len(edges)
    /\ \A n \in Nodes : indegree[n] = Cardinality(Counted(edges, i, n))

(* The loop over the nodes has queued exactly the roots it has passed.      *)
Rooting == pc = "roots" =>
    /\ head = 0 /\ order = <<>> /\ i <= node_count /\ Injective(queue)
    /\ \A n \in Nodes :
          /\ indegree[n] = Cardinality(Counted(edges, Len(edges), n))
          /\ n \in Elements(queue) <=> n < i /\ indegree[n] = 0

(* The main loop: what is queued is what nothing holds back, and what was   *)
(* taken from the queue is all that no longer holds others back.            *)
Taking == pc \in {"take", "relax"} =>
    /\ Injective(queue) /\ Prefix(order, queue, head) /\ Behind(edges, queue, head)
    /\ pc = "relax" => head > 0 /\ i <= Len(edges)
    /\ \A n \in Nodes :
          /\ indegree[n] = Cardinality(Waiting(edges, order, pc, i, n))
          /\ n \in Elements(queue) <=> indegree[n] = 0

(* The inductive invariant: the claims of the loop the call is in.          *)
SortInv == Types /\ Idling /\ Counting /\ Rooting /\ Taking

-----------------------------------------------------------------------------

(* The edges counted into a node are finitely many.                         *)
LEMMA CountedFinite ==
  ASSUME NEW es, NEW j \in Nat, NEW n
  PROVE  IsFiniteSet(Counted(es, j, n)) /\ Cardinality(Counted(es, j, n)) \in Nat
  <1>1. Counted(es, j, n) \subseteq 1..j BY DEF Counted
  <1>2. IsFiniteSet(1..j) BY FS_Interval
  <1> QED BY <1>1, <1>2, FS_Subset, FS_CardinalityType

(* The next edge adds one to the count of its end.                          *)
LEMMA CountedNext ==
  ASSUME NEW es, NEW j \in Nat, NEW n
  PROVE  Cardinality(Counted(es, j + 1, n))
           = Cardinality(Counted(es, j, n)) + (IF es[j + 1][2] = n THEN 1 ELSE 0)
  <1> DEFINE S == Counted(es, j, n)
             T == Counted(es, j + 1, n)
  <1>1. IsFiniteSet(S) /\ Cardinality(S) \in Nat BY CountedFinite
  <1>2. CASE es[j + 1][2] = n
    <2>1. T = S \cup {j + 1} /\ j + 1 \notin S BY <1>2 DEF Counted
    <2> HIDE DEF S, T
    <2>2. Cardinality(T) = Cardinality(S) + 1 BY <1>1, <2>1, FS_AddElement
    <2> QED BY <1>2, <2>2 DEF S, T
  <1>3. CASE es[j + 1][2] # n
    <2>1. T = S BY <1>3 DEF Counted
    <2> HIDE DEF S, T
    <2> QED BY <1>1, <1>3, <2>1 DEF S, T
  <1> QED BY <1>2, <1>3

(* So are the edges that hold a node back.                                  *)
LEMMA WaitingFinite ==
  ASSUME NEW es, NEW m \in Nat, DOMAIN es = 1..m, NEW od, NEW p, NEW j, NEW n
  PROVE  /\ IsFiniteSet(Waiting(es, od, p, j, n))
         /\ Cardinality(Waiting(es, od, p, j, n)) \in Nat
         /\ Cardinality(Waiting(es, od, p, j, n)) = 0 <=> Waiting(es, od, p, j, n) = {}
  <1>1. Waiting(es, od, p, j, n) \subseteq 1..m BY DEF Waiting
  <1>2. IsFiniteSet(1..m) BY FS_Interval
  <1>3. IsFiniteSet(Waiting(es, od, p, j, n)) BY <1>1, <1>2, FS_Subset
  <1> QED BY <1>3, FS_CardinalityType, FS_EmptySet

(* A queue without repetitions is no longer than the number of nodes, and   *)
(* has all of them if it is that long.                                      *)
LEMMA InjectiveFits ==
  ASSUME NEW n \in Nat, NEW q \in Seq(0..(n - 1)), Injective(q)
  PROVE  Len(q) <= n /\ (Len(q) = n <=> Elements(q) = 0..(n - 1))
  <1> DEFINE S == 1..Len(q)
             T == 0..(n - 1)
  <1>1. Len(q) \in Nat /\ DOMAIN q = S OBVIOUS
  <1>2. q \in [S -> T] OBVIOUS
  <1>3. q \in Injection(S, T) BY <1>1, <1>2 DEF Injection, IsInjective, Injective
  <1>4. IsFiniteSet(S) /\ Cardinality(S) = Len(q)
    <2>1. 1 \in Int /\ Len(q) \in Int BY <1>1
    <2>2. IsFiniteSet(1..Len(q)) /\ Cardinality(1..Len(q)) = IF 1 > Len(q) THEN 0 ELSE Len(q) - 1 + 1
      BY <2>1, FS_Interval
    <2>3. (IF 1 > Len(q) THEN 0 ELSE Len(q) - 1 + 1) = Len(q) BY <1>1
    <2> QED BY <2>2, <2>3
  <1>5. IsFiniteSet(T) /\ Cardinality(T) = n
    <2>1. 0 \in Int /\ n - 1 \in Int OBVIOUS
    <2>2. IsFiniteSet(0..(n - 1)) /\ Cardinality(0..(n - 1)) = IF 0 > n - 1 THEN 0 ELSE n - 1 - 0 + 1
      BY <2>1, FS_Interval
    <2>3. (IF 0 > n - 1 THEN 0 ELSE n - 1 - 0 + 1) = n OBVIOUS
    <2> QED BY <2>2, <2>3
  <1> HIDE DEF S, T
  <1>6. Cardinality(S) <= Cardinality(T) /\ (Cardinality(S) = Cardinality(T) <=> q \in Surjection(S, T))
    BY <1>3, <1>5, FS_Injection
  <1>7. q \in Surjection(S, T) <=> Elements(q) = T
    BY <1>1, <1>2 DEF Surjection, Elements, T
  <1> QED BY <1>4, <1>5, <1>6, <1>7 DEF T

(* A sequence over a set is one over every larger set: edges and order      *)
(* outlive an added node.                                                   *)
LEMMA SeqWiden ==
  ASSUME NEW A, NEW B, A \subseteq B, NEW s \in Seq(A)
  PROVE  s \in Seq(B)
  <1>1. Len(s) \in Nat /\ s \in [1..Len(s) -> A] OBVIOUS
  <1>2. s \in [1..Len(s) -> B] BY <1>1
  <1> QED BY <1>1, <1>2

-----------------------------------------------------------------------------

(* The empty graph satisfies the invariant.                                 *)
LEMMA InitEstablishes == Init => SortInv
  <1> SUFFICES ASSUME Init PROVE SortInv OBVIOUS
  <1>1. <<>> \in Seq(Nodes) /\ <<>> \in Seq(Nodes \X Nodes) /\ Len(<<>>) = 0 OBVIOUS
  <1>2. Types BY <1>1, BoundsAssumption DEF Init, Types
  <1>3. Idling BY DEF Init, Idling, OrderIsTopological, CycleReported
  <1>4. Counting /\ Rooting /\ Taking BY DEF Init, Counting, Rooting, Taking
  <1> QED BY <1>2, <1>3, <1>4 DEF SortInv

(* A node more leaves edges and arrays valid and withdraws the last answer. *)
LEMMA AddNodeKeeps == SortInv /\ AddNode => SortInv'
  <1> SUFFICES ASSUME SortInv, AddNode PROVE SortInv' OBVIOUS
  <1>1. Types' 
    <2>1. node_count \in Nat /\ node_count' = node_count + 1 /\ node_count' \in 0..MaxNodes
      BY BoundsAssumption DEF SortInv, Types, AddNode
    <2>2. Nodes \subseteq Nodes' BY <2>1 DEF Nodes
    <2>3. edges' \in Seq((Nodes \X Nodes)') /\ queue' \in Seq(Nodes') /\ order' \in Seq(Nodes')
      <3>1. Nodes \X Nodes \subseteq (Nodes \X Nodes)' BY <2>2
      <3>2. edges \in Seq(Nodes \X Nodes) /\ queue \in Seq(Nodes) /\ order \in Seq(Nodes) BY DEF SortInv, Types
      <3>3. edges' = edges /\ queue' = queue /\ order' = order BY DEF AddNode
      <3> HIDE DEF Nodes
      <3> QED BY <2>2, <3>1, <3>2, <3>3, SeqWiden
    <2> QED BY <2>1, <2>3 DEF SortInv, Types, AddNode
  <1>2. Idling' BY DEF SortInv, Idling, AddNode, OrderIsTopological, CycleReported
  <1>3. (Counting /\ Rooting /\ Taking)' BY DEF AddNode, Counting, Rooting, Taking
  <1> QED BY <1>1, <1>2, <1>3 DEF SortInv

(* So does an edge more.                                                    *)
LEMMA AddDependencyKeeps ==
  ASSUME NEW b \in Nodes, NEW a \in Nodes, SortInv, AddDependency(b, a)
  PROVE  SortInv'
  <1>1. Types'
    <2>1. edges' \in Seq(Nodes \X Nodes) BY DEF SortInv, Types, AddDependency
    <2> QED BY <2>1 DEF SortInv, Types, AddDependency, Nodes
  <1>2. Idling' BY DEF SortInv, Idling, AddDependency, OrderIsTopological, CycleReported
  <1>3. (Counting /\ Rooting /\ Taking)' BY DEF AddDependency, Counting, Rooting, Taking
  <1> QED BY <1>1, <1>2, <1>3 DEF SortInv

(* A sort starts with zeroed indegrees; the empty graph is in order at      *)
(* once.                                                                    *)
LEMMA SortBeginKeeps == SortInv /\ SortBegin => SortInv'
  <1> SUFFICES ASSUME SortInv, SortBegin PROVE SortInv' OBVIOUS
  <1> USE DEF SortBegin, graphVars
  <1>1. /\ Types /\ pc = "idle" /\ queue = <<>> /\ head = 0 /\ queue' = <<>> /\ head' = 0
        /\ edges' = edges /\ node_count' = node_count /\ order' = <<>> /\ i' = 0
    BY DEF SortInv, Idling
  <1>2. <<>> \in Seq(Nodes) /\ Len(<<>>) = 0 OBVIOUS
  <1>3. Nodes' = Nodes BY <1>1 DEF Nodes
  <1>4. CASE node_count = 0
    <2>1. pc' = "idle" /\ status' = "ok" /\ indegree' = indegree BY <1>4
    <2>2. Types' BY <1>1, <1>2, <1>3, <2>1 DEF Types
    <2>3. Nodes' = {} BY <1>1, <1>4 DEF Nodes
    <2>4. OrderIsTopological' BY <1>1, <1>4, <2>3 DEF OrderIsTopological, Elements
    <2>5. \A S \in SUBSET Nodes' : S = {} BY <2>3
    <2>5a. ~Cyclic' BY <2>5 DEF Cyclic
    <2>6. CycleReported' BY <2>1, <2>5a DEF CycleReported
    <2>7. Idling' BY <1>1, <2>4, <2>6 DEF Idling
    <2>8. (Counting /\ Rooting /\ Taking)' BY <2>1 DEF Counting, Rooting, Taking
    <2> QED BY <2>2, <2>7, <2>8 DEF SortInv
  <1>5. CASE node_count # 0
    <2>1. pc' = "count" /\ status' = "none" /\ indegree' = [n \in Nodes |-> 0] BY <1>5
    <2>2. Types' BY <1>1, <1>2, <1>3, <2>1 DEF Types
    <2>3. \A n \in Nodes : Counted(edges, 0, n) = {} BY DEF Counted
    <2>4. \A n \in Nodes : Cardinality(Counted(edges, 0, n)) = 0 BY <2>3, FS_EmptySet
    <2>5. Len(edges) \in Nat BY <1>1 DEF Types
    <2>6. Counting' BY <1>1, <1>3, <2>1, <2>4, <2>5 DEF Counting
    <2>7. (Idling /\ Rooting /\ Taking)' BY <2>1 DEF Idling, Rooting, Taking
    <2> QED BY <2>2, <2>6, <2>7 DEF SortInv
  <1> QED BY <1>4, <1>5

(* Counting an edge extends the counted prefix by it.                       *)
LEMMA CountEdgeKeeps == SortInv /\ CountEdge => SortInv'
  <1> SUFFICES ASSUME SortInv, CountEdge PROVE SortInv' OBVIOUS
  <1> USE DEF CountEdge, graphVars
  <1> DEFINE a == edges[i + 1][2]
  <1>1. /\ Types /\ Counting /\ pc = "count" /\ pc' = "count" /\ i' = i + 1
        /\ edges' = edges /\ node_count' = node_count /\ order' = order
        /\ queue' = queue /\ head' = head /\ status' = status
        /\ indegree' = [indegree EXCEPT ![a] = @ + 1]
    BY DEF SortInv, After
  <1>2. Nodes' = Nodes BY <1>1 DEF Nodes
  <1>3. i \in Nat /\ Len(edges) \in Nat /\ i + 1 <= Len(edges) /\ indegree \in [Nodes -> Int]
    <2>1. edges \in Seq(Nodes \X Nodes) /\ i \in Nat BY <1>1 DEF Types
    <2>2. indegree \in [Nodes -> Int] BY <1>1 DEF Types
    <2>3. Len(edges) \in Nat BY <2>1
    <2>4. i < Len(edges) OBVIOUS
    <2> QED BY <2>1, <2>2, <2>3, <2>4
  <1>4. a \in Nodes BY <1>1, <1>3, SMTT(30) DEF Types
  <1>5. \A n \in Nodes : indegree'[n] = indegree[n] + (IF a = n THEN 1 ELSE 0)
    BY <1>1, <1>3, <1>4
  <1>6. \A n \in Nodes : indegree'[n] = Cardinality(Counted(edges, i + 1, n))
    <2> TAKE n \in Nodes
    <2>1. indegree[n] = Cardinality(Counted(edges, i, n)) BY <1>1 DEF Counting
    <2>2. Cardinality(Counted(edges, i + 1, n))
            = Cardinality(Counted(edges, i, n)) + (IF a = n THEN 1 ELSE 0)
      BY <1>3, CountedNext
    <2> HIDE DEF a
    <2> QED BY <1>5, <2>1, <2>2
  <1>7. indegree' \in [Nodes -> Int] BY <1>1, <1>3, <1>4
  <1> HIDE DEF a, CountEdge
  <1>8. Types' BY <1>1, <1>2, <1>3, <1>7 DEF Types
  <1>9. Counting' BY <1>1, <1>2, <1>3, <1>6 DEF Counting
  <1>10. (Idling /\ Rooting /\ Taking)' BY <1>1 DEF Idling, Rooting, Taking
  <1> QED BY <1>8, <1>9, <1>10 DEF SortInv

(* With all edges counted the roots are looked for, from node 0.            *)
LEMMA CountDoneKeeps == SortInv /\ CountDone => SortInv'
  <1> SUFFICES ASSUME SortInv, CountDone PROVE SortInv' OBVIOUS
  <1> USE DEF CountDone, graphVars
  <1>1. /\ Types /\ Counting /\ pc = "count" /\ pc' = "roots" /\ i' = 0 /\ i = Len(edges)
        /\ edges' = edges /\ node_count' = node_count /\ order' = order
        /\ queue' = queue /\ head' = head /\ status' = status /\ indegree' = indegree
    BY DEF SortInv
  <1>2. Nodes' = Nodes BY <1>1 DEF Nodes
  <1>3. Types' BY <1>1, <1>2 DEF Types
  <1>4. queue = <<>> /\ head = 0 /\ order = <<>> BY <1>1 DEF Counting
  <1>5. Elements(queue) = {} /\ Injective(queue) BY <1>4 DEF Elements, Injective
  <1>6. \A n \in Nodes : ~(n < 0) BY <1>1 DEF Types, Nodes
  <1>7. Rooting' BY <1>1, <1>2, <1>4, <1>5, <1>6 DEF Rooting, Counting, Types
  <1>8. (Idling /\ Counting /\ Taking)' BY <1>1 DEF Idling, Counting, Taking
  <1> QED BY <1>3, <1>7, <1>8 DEF SortInv

(* What appending a new element does to a queue.                            *)
LEMMA Appended ==
  ASSUME NEW A, NEW q \in Seq(A), NEW e \in A
  PROVE  /\ Append(q, e) \in Seq(A) /\ Len(Append(q, e)) = Len(q) + 1
         /\ \A x \in 1..Len(q) : Append(q, e)[x] = q[x]
         /\ Append(q, e)[Len(q) + 1] = e
         /\ Elements(Append(q, e)) = Elements(q) \cup {e}
         /\ Injective(q) /\ e \notin Elements(q) => Injective(Append(q, e))
  <1> DEFINE r == Append(q, e)
  <1>1. r \in Seq(A) /\ Len(r) = Len(q) + 1 /\ Len(q) \in Nat
        /\ (\A x \in 1..Len(q) : r[x] = q[x]) /\ r[Len(q) + 1] = e
        /\ DOMAIN r = 1..(Len(q) + 1) /\ DOMAIN q = 1..Len(q)
    OBVIOUS
  <1> HIDE DEF r
  <1>2. Elements(r) = Elements(q) \cup {e}
    <2>1. Elements(r) \subseteq Elements(q) \cup {e}
      <3> SUFFICES ASSUME NEW x \in DOMAIN r PROVE r[x] \in Elements(q) \cup {e} BY DEF Elements
      <3>1. x \in 1..Len(q) \/ x = Len(q) + 1 BY <1>1
      <3> QED BY <1>1, <3>1 DEF Elements
    <2>2. Elements(q) \subseteq Elements(r)
      <3> SUFFICES ASSUME NEW x \in DOMAIN q PROVE q[x] \in Elements(r) BY DEF Elements
      <3>1. x \in DOMAIN r /\ r[x] = q[x] BY <1>1
      <3> QED BY <3>1 DEF Elements
    <2>3. e \in Elements(r)
      <3>1. Len(q) + 1 \in DOMAIN r BY <1>1
      <3> QED BY <1>1, <3>1 DEF Elements
    <2> QED BY <2>1, <2>2, <2>3
  <1>3. ASSUME Injective(q), e \notin Elements(q) PROVE Injective(r)
    <2> SUFFICES ASSUME NEW x \in DOMAIN r, NEW y \in DOMAIN r, r[x] = r[y] PROVE x = y BY DEF Injective
    <2>1. \A z \in 1..Len(q) : r[z] = q[z] /\ q[z] \in Elements(q) /\ r[z] # e
      BY <1>1, <1>3 DEF Elements
    <2>2. x \in 1..Len(q) \/ x = Len(q) + 1 BY <1>1
    <2>3. y \in 1..Len(q) \/ y = Len(q) + 1 BY <1>1
    <2>4. CASE x \in 1..Len(q) /\ y \in 1..Len(q) BY <1>1, <1>3, <2>1, <2>4 DEF Injective
    <2>5. CASE ~(x \in 1..Len(q) /\ y \in 1..Len(q)) BY <1>1, <2>1, <2>2, <2>3, <2>5
    <2> QED BY <2>4, <2>5
  <1> QED BY <1>1, <1>2, <1>3 DEF r

(* A root enters the queue when its index is reached, and only then.        *)
LEMMA QueueRootKeeps == SortInv /\ QueueRoot => SortInv'
  <1> SUFFICES ASSUME SortInv, QueueRoot PROVE SortInv' OBVIOUS
  <1>1. /\ Types /\ Rooting /\ pc = "roots" /\ pc' = "roots" /\ i' = i + 1 /\ i < node_count
        /\ edges' = edges /\ node_count' = node_count /\ order' = order
        /\ head' = head /\ status' = status /\ indegree' = indegree
        /\ queue' = IF indegree[i] = 0 THEN Append(queue, i) ELSE queue
    BY DEF SortInv, QueueRoot, Ready, graphVars
  <1>2. Nodes' = Nodes /\ i \in Nodes /\ i \in Nat /\ node_count \in Nat BY <1>1 DEF Nodes, Types
  <1>3. queue \in Seq(Nodes) BY <1>1 DEF Types
  <1>4. i \notin Elements(queue) /\ Injective(queue) /\ head = 0 /\ order = <<>>
    BY <1>1, <1>2 DEF Rooting
  <1>5. queue' \in Seq(Nodes) /\ Injective(queue') /\ Len(queue') \in Nat
    BY <1>1, <1>2, <1>3, <1>4, Appended
  <1>6. ASSUME NEW n \in Nodes
        PROVE  n \in Elements(queue') <=> n < i + 1 /\ indegree[n] = 0
    <2>1. n \in Elements(queue) <=> n < i /\ indegree[n] = 0 BY <1>1 DEF Rooting
    <2>2. n \in Nat /\ (n < i + 1 <=> n < i \/ n = i) BY <1>2 DEF Nodes
    <2>3. Elements(queue') = IF indegree[i] = 0 THEN Elements(queue) \cup {i} ELSE Elements(queue)
      <3>1. Elements(Append(queue, i)) = Elements(queue) \cup {i} BY <1>2, <1>3, Appended
      <3>2. CASE indegree[i] = 0 BY <1>1, <3>1, <3>2
      <3>3. CASE indegree[i] # 0 BY <1>1, <3>3
      <3> QED BY <3>2, <3>3
    <2> QED BY <2>1, <2>2, <2>3
  <1>7. Types' BY <1>1, <1>2, <1>4, <1>5 DEF Types
  <1>8. Rooting' BY <1>1, <1>2, <1>4, <1>5, <1>6 DEF Rooting
  <1>9. (Idling /\ Counting /\ Taking)' BY <1>1 DEF Idling, Counting, Taking
  <1> QED BY <1>7, <1>8, <1>9 DEF SortInv

(* Nothing is taken yet, so every edge still holds its end back.            *)
LEMMA RootsDoneKeeps == SortInv /\ RootsDone => SortInv'
  <1> SUFFICES ASSUME SortInv, RootsDone PROVE SortInv' OBVIOUS
  <1>1. /\ Types /\ Rooting /\ pc = "roots" /\ pc' = "take" /\ i' = i /\ i = node_count
        /\ edges' = edges /\ node_count' = node_count /\ order' = order
        /\ head' = head /\ status' = status /\ indegree' = indegree /\ queue' = queue
    BY DEF SortInv, RootsDone, graphVars
  <1>2. Nodes' = Nodes /\ node_count \in Nat /\ Len(edges) \in Nat /\ DOMAIN edges = 1..Len(edges)
        /\ Len(queue) \in Nat /\ DOMAIN queue = 1..Len(queue) /\ queue \in Seq(Nodes)
    BY <1>1 DEF Nodes, Types
  <1>3. head = 0 /\ order = <<>> /\ Injective(queue) BY <1>1 DEF Rooting
  <1>4. Prefix(order, queue, head) BY <1>2, <1>3 DEF Prefix
  <1>5. \A n \in Nodes : Waiting(edges, order, "take", i, n) = Counted(edges, Len(edges), n)
    BY <1>2, <1>3 DEF Waiting, RelaxedIn, Counted, Elements
  <1>6. \A n \in Nodes : n \in Elements(queue) <=> indegree[n] = 0
    BY <1>1, <1>2 DEF Rooting, Nodes
  <1>7. Behind(edges, queue, head)
    <2> SUFFICES ASSUME NEW y \in DOMAIN queue, NEW k \in DOMAIN edges, edges[k][2] = queue[y]
                 PROVE  FALSE
      BY DEF Behind
    <2> DEFINE n == queue[y]
    <2>1. n \in Nodes /\ n \in Elements(queue) BY <1>2 DEF Elements
    <2>2. Cardinality(Counted(edges, Len(edges), n)) = 0 BY <1>1, <1>6, <2>1 DEF Rooting
    <2>3. Counted(edges, Len(edges), n) = {} BY <1>2, <2>2, CountedFinite, FS_EmptySet
    <2>4. k \in Counted(edges, Len(edges), n) BY <1>2 DEF Counted
    <2> QED BY <2>3, <2>4
  <1>8. Types' BY <1>1, <1>2 DEF Types
  <1>9. Taking' BY <1>1, <1>2, <1>3, <1>4, <1>5, <1>6, <1>7 DEF Taking, Rooting
  <1>10. (Idling /\ Counting /\ Rooting)' BY <1>1 DEF Idling, Counting, Rooting
  <1> QED BY <1>8, <1>9, <1>10 DEF SortInv

-----------------------------------------------------------------------------

(* Taking a node changes no indegree: the node is new in the order, so none *)
(* of its edges is taken off yet.                                           *)
LEMMA TakeKeeps == SortInv /\ Take => SortInv'
  <1> SUFFICES ASSUME SortInv, Take PROVE SortInv' OBVIOUS
  <1> DEFINE c == queue[head + 1]
  <1>1. /\ Types /\ Taking /\ pc = "take" /\ pc' = "relax" /\ i' = 0 /\ head < Len(queue)
        /\ edges' = edges /\ node_count' = node_count /\ order' = Append(order, c)
        /\ head' = head + 1 /\ status' = status /\ indegree' = indegree /\ queue' = queue
    BY DEF SortInv, Take, graphVars
  <1>2. Nodes' = Nodes BY <1>1 DEF Nodes
  <1>3. /\ Len(edges) \in Nat /\ DOMAIN edges = 1..Len(edges) /\ head \in Nat /\ i \in Nat
        /\ Len(queue) \in Nat /\ DOMAIN queue = 1..Len(queue) /\ queue \in Seq(Nodes)
        /\ order \in Seq(Nodes) /\ DOMAIN order = 1..Len(order)
    BY <1>1 DEF Types
  <1>4. Injective(queue) /\ Prefix(order, queue, head) /\ Behind(edges, queue, head)
    BY <1>1 DEF Taking
  <1>5. head + 1 \in DOMAIN queue /\ c \in Nodes BY <1>1, <1>3
  <1>6. Len(order) = head /\ \A x \in 1..head : order[x] = queue[x] BY <1>4 DEF Prefix
  <1>7. c \notin Elements(order)
    <2> SUFFICES ASSUME NEW x \in DOMAIN order, order[x] = c PROVE FALSE BY DEF Elements
    <2>1. x \in 1..head /\ x \in DOMAIN queue /\ x # head + 1 BY <1>1, <1>3, <1>6
    <2>2. queue[x] = queue[head + 1] BY <1>6, <2>1
    <2> QED BY <1>4, <1>5, <2>1, <2>2 DEF Injective
  <1> HIDE DEF c
  <1>8. /\ order' \in Seq(Nodes) /\ Len(order') = head + 1 /\ order'[head + 1] = c
        /\ \A x \in 1..head : order'[x] = queue[x]
        /\ Elements(order') = Elements(order) \cup {c}
    BY <1>1, <1>3, <1>5, <1>6, Appended
  <1>9. Prefix(order', queue, head + 1)
    <2> SUFFICES ASSUME NEW x \in 1..(head + 1) PROVE order'[x] = queue[x]
      BY <1>1, <1>3, <1>8 DEF Prefix
    <2>1. x \in 1..head \/ x = head + 1 BY <1>3
    <2> QED BY <1>8, <2>1 DEF c
  <1>10. Behind(edges, queue, head + 1)
    <2> SUFFICES ASSUME NEW y \in DOMAIN queue, NEW k \in DOMAIN edges, edges[k][2] = queue[y]
                 PROVE  \E x \in DOMAIN queue : x < y /\ x <= head + 1 /\ queue[x] = edges[k][1]
      BY DEF Behind
    <2>1. PICK x \in DOMAIN queue : x < y /\ x <= head /\ queue[x] = edges[k][1] BY <1>4 DEF Behind
    <2> QED BY <1>3, <2>1
  <1>11. ASSUME NEW k \in DOMAIN edges
         PROVE  RelaxedIn(edges, order', "relax", 0, k) <=> RelaxedIn(edges, order, "take", i, k)
    <2>1. k \in Nat /\ k > 0 /\ ~(k <= 0) BY <1>3
    <2>2. order'[Len(order')] = c BY <1>8
    <2> QED BY <1>7, <1>8, <2>1, <2>2 DEF RelaxedIn
  <1>12. \A n \in Nodes : Waiting(edges, order', "relax", 0, n) = Waiting(edges, order, "take", i, n)
    BY <1>11 DEF Waiting
  <1>13. Types' BY <1>1, <1>2, <1>3, <1>8 DEF Types
  <1>14. Taking'
    <2>1. \A n \in Nodes :
            /\ indegree[n] = Cardinality(Waiting(edges, order', "relax", 0, n))
            /\ n \in Elements(queue) <=> indegree[n] = 0
      BY <1>1, <1>12 DEF Taking
    <2>2. head + 1 > 0 /\ 0 <= Len(edges) BY <1>3
    <2> QED BY <1>1, <1>2, <1>4, <1>9, <1>10, <2>1, <2>2 DEF Taking
  <1>15. (Idling /\ Counting /\ Rooting)' BY <1>1 DEF Idling, Counting, Rooting
  <1> QED BY <1>13, <1>14, <1>15 DEF SortInv

(* Taking an edge out of the ones that hold a node back.                    *)
LEMMA OneFewer ==
  ASSUME NEW S, IsFiniteSet(S), NEW e \in S
  PROVE  Cardinality(S \ {e}) = Cardinality(S) - 1 /\ Cardinality(S) \in Nat /\ Cardinality(S) > 0
  <1>1. IsFiniteSet(S \ {e}) /\ Cardinality(S \ {e}) = Cardinality(S) - 1 BY FS_RemoveElement
  <1>2. Cardinality(S) \in Nat /\ Cardinality(S \ {e}) \in Nat BY <1>1, FS_CardinalityType
  <1> QED BY <1>1, <1>2

(* An edge that leaves another node is passed over.                         *)
LEMMA RelaxOtherKeeps == SortInv /\ RelaxEdge /\ ~Leaves(i + 1) => SortInv'
  <1> SUFFICES ASSUME SortInv, RelaxEdge, ~Leaves(i + 1) PROVE SortInv' OBVIOUS
  <1>1. /\ Types /\ Taking /\ pc = "relax" /\ pc' = "relax" /\ i' = i + 1 /\ i < Len(edges)
        /\ edges' = edges /\ node_count' = node_count /\ order' = order
        /\ head' = head /\ status' = status /\ indegree' = indegree /\ queue' = queue
        /\ edges[i + 1][1] # order[Len(order)]
    BY DEF SortInv, RelaxEdge, Advance, graphVars, Leaves, Before, current
  <1>2. Nodes' = Nodes BY <1>1 DEF Nodes
  <1>3. Len(edges) \in Nat /\ DOMAIN edges = 1..Len(edges) /\ i \in Nat
    BY <1>1 DEF Types
  <1>4. ASSUME NEW k \in DOMAIN edges
        PROVE  RelaxedIn(edges, order, "relax", i + 1, k) <=> RelaxedIn(edges, order, "relax", i, k)
    <2>1. k <= i + 1 <=> k <= i \/ k = i + 1 BY <1>3
    <2> QED BY <1>1, <2>1 DEF RelaxedIn
  <1>5. \A n \in Nodes : Waiting(edges, order, "relax", i + 1, n) = Waiting(edges, order, "relax", i, n)
    BY <1>4 DEF Waiting
  <1>6. Types' BY <1>1, <1>2, <1>3 DEF Types
  <1>7. Taking'
    <2>1. \A n \in Nodes :
            /\ indegree[n] = Cardinality(Waiting(edges, order, "relax", i + 1, n))
            /\ n \in Elements(queue) <=> indegree[n] = 0
      BY <1>1, <1>5 DEF Taking
    <2>2. i + 1 <= Len(edges) /\ head > 0 BY <1>1, <1>3 DEF Taking
    <2>3. Injective(queue) /\ Prefix(order, queue, head) /\ Behind(edges, queue, head)
      BY <1>1 DEF Taking
    <2> QED BY <1>1, <1>2, <2>1, <2>2, <2>3 DEF Taking
  <1>8. (Idling /\ Counting /\ Rooting)' BY <1>1 DEF Idling, Counting, Rooting
  <1> QED BY <1>6, <1>7, <1>8 DEF SortInv

(* An edge that leaves the current node stops holding its end back; the end *)
(* is queued when that was the last, never before and never again.          *)
LEMMA RelaxLeavingKeeps == SortInv /\ RelaxEdge /\ Leaves(i + 1) => SortInv'
  <1> SUFFICES ASSUME SortInv, RelaxEdge, Leaves(i + 1) PROVE SortInv' OBVIOUS
  <1> DEFINE a == edges[i + 1][2]
             Held(n) == Waiting(edges, order, "relax", i, n)
             Left(n) == Waiting(edges, order, "relax", i + 1, n)
  <1>1. /\ Types /\ Taking /\ pc = "relax" /\ pc' = "relax" /\ i' = i + 1 /\ i < Len(edges)
        /\ edges' = edges /\ node_count' = node_count /\ order' = order
        /\ head' = head /\ status' = status
        /\ indegree' = [indegree EXCEPT ![a] = @ - 1]
        /\ queue' = IF indegree'[a] = 0 THEN Append(queue, a) ELSE queue
        /\ edges[i + 1][1] = order[Len(order)]
    BY DEF SortInv, RelaxEdge, Advance, graphVars, Leaves, Before, current, After, NowReady
  <1>2. Nodes' = Nodes BY <1>1 DEF Nodes
  <1>3. /\ Len(edges) \in Nat /\ DOMAIN edges = 1..Len(edges) /\ i \in Nat /\ i + 1 \in DOMAIN edges
        /\ i + 1 <= Len(edges) /\ head \in Nat
        /\ Len(queue) \in Nat /\ DOMAIN queue = 1..Len(queue) /\ queue \in Seq(Nodes)
        /\ order \in Seq(Nodes) /\ DOMAIN order = 1..Len(order) /\ Len(order) \in Nat
        /\ indegree \in [Nodes -> Int]
    <2>1. Len(edges) \in Nat /\ DOMAIN edges = 1..Len(edges) /\ i \in Nat /\ head \in Nat
      BY <1>1 DEF Types
    <2>2. i + 1 \in DOMAIN edges /\ i + 1 <= Len(edges) BY <1>1, <2>1
    <2>3. /\ Len(queue) \in Nat /\ DOMAIN queue = 1..Len(queue) /\ queue \in Seq(Nodes)
          /\ order \in Seq(Nodes) /\ DOMAIN order = 1..Len(order) /\ Len(order) \in Nat
      BY <1>1, SMTT(30) DEF Types
    <2>4. indegree \in [Nodes -> Int] BY <1>1 DEF Types
    <2> QED BY <2>1, <2>2, <2>3, <2>4
  <1>4. Injective(queue) /\ Prefix(order, queue, head) /\ Behind(edges, queue, head) /\ head > 0
    BY <1>1 DEF Taking
  <1>5. a \in Nodes BY <1>1, <1>3 DEF Types
  <1>6. Len(order) = head /\ head <= Len(queue) /\ \A x \in 1..head : order[x] = queue[x]
    BY <1>4 DEF Prefix
  <1>7. edges[i + 1][1] \in Elements(order)
    <2>1. Len(order) \in DOMAIN order BY <1>3, <1>4, <1>6
    <2> QED BY <1>1, <2>1 DEF Elements
  <1>8. ASSUME NEW k \in DOMAIN edges
        PROVE  RelaxedIn(edges, order, "relax", i + 1, k)
                 <=> RelaxedIn(edges, order, "relax", i, k) \/ k = i + 1
    <2>1. k <= i + 1 <=> k <= i \/ k = i + 1 BY <1>3
    <2> QED BY <1>1, <1>7, <2>1 DEF RelaxedIn
  <1>9. ~RelaxedIn(edges, order, "relax", i, i + 1)
    <2>1. ~(i + 1 <= i) BY <1>3
    <2> QED BY <1>1, <2>1 DEF RelaxedIn
  <1>10. Left(a) = Held(a) \ {i + 1} /\ i + 1 \in Held(a)
    BY <1>3, <1>8, <1>9 DEF Waiting
  <1>11. \A n \in Nodes : n # a => Left(n) = Held(n)
    BY <1>8 DEF Waiting
  <1>12. \A n \in Nodes : IsFiniteSet(Held(n)) BY <1>3, WaitingFinite
  <1>13. \A n \in Nodes : indegree[n] = Cardinality(Held(n)) BY <1>1 DEF Taking
  <1> HIDE DEF Held
  <1>14. Cardinality(Left(a)) = indegree[a] - 1 /\ indegree[a] \in Nat /\ indegree[a] > 0
    BY <1>5, <1>10, <1>12, <1>13, OneFewer
  <1> USE DEF Held
  <1>15. \A n \in Nodes : n \in Elements(queue) <=> indegree[n] = 0 BY <1>1 DEF Taking
  <1>16. a \notin Elements(queue) BY <1>5, <1>14, <1>15
  <1>17. indegree' \in [Nodes -> Int] /\ indegree'[a] = indegree[a] - 1
         /\ \A n \in Nodes : n # a => indegree'[n] = indegree[n]
    BY <1>1, <1>3, <1>5
  <1>18. \A n \in Nodes : indegree'[n] = Cardinality(Left(n))
    <2> TAKE n \in Nodes
    <2> HIDE DEF Left, Held, a
    <2>1. CASE n = a BY <1>14, <1>17, <2>1
    <2>2. CASE n # a BY <1>11, <1>13, <1>17, <2>2
    <2> QED BY <2>1, <2>2
  <1> HIDE DEF a
  <1>19. CASE indegree'[a] = 0
    <2> DEFINE q == Append(queue, a)
    <2>1. queue' = q BY <1>1, <1>19
    <2>2. /\ q \in Seq(Nodes) /\ Len(q) = Len(queue) + 1 /\ DOMAIN q = 1..(Len(queue) + 1)
          /\ \A x \in 1..Len(queue) : q[x] = queue[x]
          /\ q[Len(queue) + 1] = a /\ Elements(q) = Elements(queue) \cup {a} /\ Injective(q)
      <3>1. q \in Seq(Nodes) /\ Len(q) = Len(queue) + 1 BY <1>3, <1>5, Appended
      <3>2. DOMAIN q = 1..(Len(queue) + 1) BY <3>1
      <3>3. /\ \A x \in 1..Len(queue) : q[x] = queue[x]
            /\ q[Len(queue) + 1] = a /\ Elements(q) = Elements(queue) \cup {a} /\ Injective(q)
        BY <1>3, <1>4, <1>5, <1>16, Appended
      <3> QED BY <3>1, <3>2, <3>3
    <2> HIDE DEF q
    <2>3. Prefix(order, q, head)
      <3>1. \A x \in 1..head : x \in 1..Len(queue) BY <1>3, <1>6
      <3>2. \A x \in 1..head : order[x] = q[x] BY <1>6, <2>2, <3>1
      <3>3. head <= Len(q) BY <1>3, <1>6, <2>2
      <3> QED BY <1>6, <3>2, <3>3 DEF Prefix
    <2>4. Left(a) = {}
      <3>1. Cardinality(Left(a)) = 0 BY <1>5, <1>18, <1>19
      <3> QED BY <1>3, <3>1, WaitingFinite
    <2>5. Behind(edges, q, head)
      <3> SUFFICES ASSUME NEW y \in DOMAIN q, NEW k \in DOMAIN edges, edges[k][2] = q[y]
                   PROVE  \E x \in DOMAIN q : x < y /\ x <= head /\ q[x] = edges[k][1]
        BY DEF Behind
      <3>1. CASE y \in 1..Len(queue)
        <4>1. y \in DOMAIN queue /\ q[y] = queue[y] BY <1>3, <2>2, <3>1
        <4>2. PICK x \in DOMAIN queue : x < y /\ x <= head /\ queue[x] = edges[k][1]
          BY <1>4, <4>1 DEF Behind
        <4>3. x \in DOMAIN q /\ q[x] = queue[x] BY <1>3, <2>2, <4>2, SMTT(30)
        <4> QED BY <4>2, <4>3
      <3>2. CASE y = Len(queue) + 1
        <4>1. edges[k][2] = a BY <2>2, <3>2
        <4>2. RelaxedIn(edges, order, "relax", i + 1, k) BY <2>4, <4>1 DEF Waiting
        <4>3. PICK x \in DOMAIN order : order[x] = edges[k][1] BY <4>2 DEF RelaxedIn, Elements
        <4>4. x \in 1..head /\ x \in 1..Len(queue) /\ x < y BY <1>3, <1>6, <3>2
        <4>5. q[x] = edges[k][1] /\ x \in DOMAIN q BY <1>3, <1>6, <2>2, <4>3, <4>4, SMTT(30)
        <4> QED BY <4>4, <4>5
      <3>3. y \in 1..Len(queue) \/ y = Len(queue) + 1 BY <1>3, <2>2
      <3> QED BY <3>1, <3>2, <3>3
    <2>6. \A n \in Nodes : n \in Elements(q) <=> indegree'[n] = 0
      BY <1>15, <1>17, <1>19, <2>2
    <2>7. Types'
      <3>1. head <= Len(q) BY <2>3 DEF Prefix
      <3>2. i + 1 \in Nat BY <1>3
      <3> QED BY <1>1, <1>2, <1>3, <1>17, <2>1, <2>2, <3>1, <3>2 DEF Types
    <2>8. Taking'
      BY <1>1, <1>2, <1>3, <1>4, <1>18, <2>1, <2>2, <2>3, <2>5, <2>6 DEF Taking
    <2>9. (Idling /\ Counting /\ Rooting)' BY <1>1 DEF Idling, Counting, Rooting
    <2> QED BY <2>7, <2>8, <2>9 DEF SortInv
  <1>20. CASE indegree'[a] # 0
    <2>1. queue' = queue BY <1>1, <1>20
    <2>2. \A n \in Nodes : n \in Elements(queue) <=> indegree'[n] = 0
      <3> TAKE n \in Nodes
      <3>1. CASE n = a BY <1>16, <1>20, <3>1
      <3>2. CASE n # a BY <1>15, <1>17, <3>2
      <3> QED BY <3>1, <3>2
    <2>3. Types'
      <3>1. i + 1 \in Nat BY <1>3
      <3> QED BY <1>1, <1>2, <1>3, <1>17, <2>1, <3>1 DEF Types
    <2>4. Taking'
      BY <1>1, <1>2, <1>3, <1>4, <1>18, <2>1, <2>2 DEF Taking
    <2>5. (Idling /\ Counting /\ Rooting)' BY <1>1 DEF Idling, Counting, Rooting
    <2> QED BY <2>3, <2>4, <2>5 DEF SortInv
  <1> QED BY <1>19, <1>20

(* After the edge loop all edges of the current node are taken off.         *)
LEMMA RelaxDoneKeeps == SortInv /\ RelaxDone => SortInv'
  <1> SUFFICES ASSUME SortInv, RelaxDone PROVE SortInv' OBVIOUS
  <1>1. /\ Types /\ Taking /\ pc = "relax" /\ pc' = "take" /\ i' = i /\ i = Len(edges)
        /\ edges' = edges /\ node_count' = node_count /\ order' = order
        /\ head' = head /\ status' = status /\ indegree' = indegree /\ queue' = queue
    BY DEF SortInv, RelaxDone, graphVars
  <1>2. Nodes' = Nodes BY <1>1 DEF Nodes
  <1>3. DOMAIN edges = 1..i BY <1>1 DEF Types
  <1>4. ASSUME NEW k \in DOMAIN edges
        PROVE  RelaxedIn(edges, order, "take", i, k) <=> RelaxedIn(edges, order, "relax", i, k)
    <2>1. k <= i BY <1>3
    <2> QED BY <2>1 DEF RelaxedIn
  <1>5. \A n \in Nodes : Waiting(edges, order, "take", i, n) = Waiting(edges, order, "relax", i, n)
    BY <1>4 DEF Waiting
  <1>6. Types' BY <1>1, <1>2 DEF Types
  <1>7. Taking'
    <2>1. \A n \in Nodes :
            /\ indegree[n] = Cardinality(Waiting(edges, order, "take", i, n))
            /\ n \in Elements(queue) <=> indegree[n] = 0
      BY <1>1, <1>5 DEF Taking
    <2> QED BY <1>1, <1>2, <2>1 DEF Taking
  <1>8. (Idling /\ Counting /\ Rooting)' BY <1>1 DEF Idling, Counting, Rooting
  <1> QED BY <1>6, <1>7, <1>8 DEF SortInv

(* The answer is right. A full order has every node behind its              *)
(* dependencies, so no set of nodes can depend on itself: look at its first *)
(* member. A short order leaves nodes each of which is held back by another *)
(* of them.                                                                 *)
LEMMA SortEndKeeps == SortInv /\ SortEnd => SortInv'
  <1> SUFFICES ASSUME SortInv, SortEnd PROVE SortInv' OBVIOUS
  <1>1. /\ Types /\ Taking /\ pc = "take" /\ pc' = "idle" /\ i' = i /\ head = Len(queue)
        /\ edges' = edges /\ node_count' = node_count /\ order' = order
        /\ head' = 0 /\ indegree' = <<>> /\ queue' = <<>>
        /\ status' = IF Len(order) = node_count THEN "ok" ELSE "cycle"
    BY DEF SortInv, SortEnd, graphVars, Complete
  <1>2. Nodes' = Nodes /\ Nodes = 0..(node_count - 1) BY <1>1 DEF Nodes
  <1>3. /\ Len(edges) \in Nat /\ DOMAIN edges = 1..Len(edges) /\ node_count \in Nat
        /\ Len(queue) \in Nat /\ DOMAIN queue = 1..Len(queue) /\ queue \in Seq(Nodes)
        /\ order \in Seq(Nodes) /\ DOMAIN order = 1..Len(order) /\ Len(order) \in Nat
    BY <1>1 DEF Types
  <1>4. Injective(queue) /\ Prefix(order, queue, head) /\ Behind(edges, queue, head)
    BY <1>1 DEF Taking
  <1>5. /\ Len(order) = Len(queue) /\ DOMAIN order = DOMAIN queue
        /\ \A x \in DOMAIN queue : order[x] = queue[x]
    BY <1>1, <1>3, <1>4 DEF Prefix
  <1>6. Injective(order) BY <1>4, <1>5 DEF Injective
  <1>7. Elements(order) = Elements(queue) BY <1>5 DEF Elements
  <1>8. Len(order) = node_count <=> Elements(order) = Nodes
    BY <1>2, <1>3, <1>6, InjectiveFits
  <1>9. \A y \in DOMAIN order, k \in DOMAIN edges :
           edges[k][2] = order[y] => \E x \in DOMAIN order : x < y /\ order[x] = edges[k][1]
    BY <1>4, <1>5 DEF Behind
  <1>10. Types'
    <2>1. <<>> \in Seq(Nodes) /\ Len(<<>>) = 0 OBVIOUS
    <2> QED BY <1>1, <1>2, <2>1 DEF Types
  <1>11. (Counting /\ Rooting /\ Taking)' BY <1>1 DEF Counting, Rooting, Taking
  <1>12. Cyclic' <=> Cyclic BY <1>1, <1>2 DEF Cyclic, After, Before
  <1>13. CASE Len(order) = node_count
    <2>1. status' = "ok" BY <1>1, <1>13
    <2>2. ASSUME NEW k \in DOMAIN edges, NEW x \in DOMAIN order, NEW y \in DOMAIN order,
                 edges[k] = <<order[x], order[y]>>
          PROVE  x < y
      <3>1. PICK z \in DOMAIN order : z < y /\ order[z] = edges[k][1] BY <1>9, <2>2
      <3>2. z = x BY <1>6, <2>2, <3>1 DEF Injective
      <3> QED BY <3>1, <3>2
    <2>3. OrderIsTopological'
      BY <1>1, <1>2, <1>8, <1>13, <2>2 DEF OrderIsTopological
    <2>4. ~Cyclic
      <3> SUFFICES ASSUME NEW S \in SUBSET Nodes, S # {},
                          \A n \in S : \E k \in DOMAIN edges : edges[k][2] = n /\ edges[k][1] \in S
                   PROVE  FALSE
        BY DEF Cyclic, After, Before
      <3> DEFINE T == {x \in DOMAIN order : order[x] \in S}
      <3>1. PICK n \in S : n \in Elements(order) BY <1>8, <1>13
      <3>2. T # {} /\ T \in SUBSET Nat BY <1>3, <3>1 DEF Elements
      <3> HIDE DEF T
      <3>3. PICK y \in T : \A z \in T : y <= z BY <3>2, Least
      <3> USE DEF T
      <3>4. PICK k \in DOMAIN edges : edges[k][2] = order[y] /\ edges[k][1] \in S OBVIOUS
      <3>5. PICK x \in DOMAIN order : x < y /\ order[x] = edges[k][1] BY <1>9, <3>4
      <3>6. x \in T /\ x \in Nat /\ y \in Nat BY <1>3, <3>4, <3>5
      <3>7. y <= x BY <3>3, <3>6
      <3> QED BY <3>5, <3>6, <3>7
    <2>5. CycleReported' BY <1>12, <2>1, <2>4 DEF CycleReported
    <2>6. Idling' BY <1>1, <2>3, <2>5 DEF Idling
    <2> QED BY <1>10, <1>11, <2>6 DEF SortInv
  <1>14. CASE Len(order) # node_count
    <2>1. status' = "cycle" BY <1>1, <1>14
    <2> DEFINE S == Nodes \ Elements(order)
    <2>2. S # {}
      <3>1. Elements(order) \subseteq Nodes BY <1>3 DEF Elements
      <3> QED BY <1>8, <1>14, <3>1
    <2>3. ASSUME NEW n \in S
          PROVE  \E k \in DOMAIN edges : edges[k][2] = n /\ edges[k][1] \in S
      <3>1. n \in Nodes /\ n \notin Elements(queue) BY <1>7
      <3>2. Cardinality(Waiting(edges, order, "take", i, n)) # 0 BY <1>1, <3>1 DEF Taking
      <3>3. Waiting(edges, order, "take", i, n) # {} BY <3>2, FS_EmptySet
      <3>4. PICK k \in Waiting(edges, order, "take", i, n) : TRUE BY <3>3
      <3>5. k \in DOMAIN edges /\ edges[k][2] = n /\ edges[k][1] \notin Elements(order)
        BY <3>4 DEF Waiting, RelaxedIn
      <3>6. edges[k][1] \in Nodes BY <1>1, <3>5 DEF Types
      <3> QED BY <3>5, <3>6
    <2>4. Cyclic
      <3> HIDE DEF S
      <3>1. S \in (SUBSET Nodes) \ {{}} BY <2>2 DEF S
      <3> QED BY <2>3, <3>1 DEF Cyclic, After, Before
    <2>5. CycleReported' BY <1>12, <2>1, <2>4 DEF CycleReported
    <2>6. OrderIsTopological' BY <2>1 DEF OrderIsTopological
    <2>7. Idling' BY <1>1, <2>5, <2>6 DEF Idling
    <2> QED BY <1>10, <1>11, <2>7 DEF SortInv
  <1> QED BY <1>13, <1>14

(* Every step preserves the invariant.                                      *)
LEMMA NextKeeps == SortInv /\ [Next]_vars => SortInv'
  <1> SUFFICES ASSUME SortInv, [Next]_vars PROVE SortInv' OBVIOUS
  <1>1. CASE AddNode BY <1>1, AddNodeKeeps
  <1>2. ASSUME NEW b \in Nodes, NEW a \in Nodes, AddDependency(b, a) PROVE SortInv'
    BY <1>2, AddDependencyKeeps
  <1>3. CASE SortBegin BY <1>3, SortBeginKeeps
  <1>4. CASE CountEdge BY <1>4, CountEdgeKeeps
  <1>5. CASE CountDone BY <1>5, CountDoneKeeps
  <1>6. CASE QueueRoot BY <1>6, QueueRootKeeps
  <1>7. CASE RootsDone BY <1>7, RootsDoneKeeps
  <1>8. CASE Take BY <1>8, TakeKeeps
  <1>9. CASE RelaxEdge BY <1>9, RelaxOtherKeeps, RelaxLeavingKeeps
  <1>10. CASE RelaxDone BY <1>10, RelaxDoneKeeps
  <1>11. CASE SortEnd BY <1>11, SortEndKeeps
  <1>12. CASE UNCHANGED vars
    <2>1. /\ edges' = edges /\ node_count' = node_count /\ order' = order /\ pc' = pc /\ i' = i
          /\ head' = head /\ status' = status /\ indegree' = indegree /\ queue' = queue
      BY <1>12 DEF vars
    <2>2. Types' /\ Counting' /\ Rooting' /\ Taking'
      <3>1. Nodes' = Nodes BY <2>1 DEF Nodes
      <3>2. Types' BY <2>1, <3>1 DEF SortInv, Types
      <3>3. Counting' BY <2>1, <3>1 DEF SortInv, Counting
      <3>4. Rooting' BY <2>1, <3>1 DEF SortInv, Rooting
      <3>5. Taking' BY <2>1, <3>1 DEF SortInv, Taking
      <3> QED BY <3>2, <3>3, <3>4, <3>5
    <2>3. Idling'
      <3>1. Cyclic' <=> Cyclic BY <2>1 DEF Cyclic, Nodes, After, Before
      <3>2. CycleReported => CycleReported' BY <2>1, <3>1 DEF CycleReported
      <3>3. Nodes' = Nodes BY <2>1 DEF Nodes
      <3>4. OrderIsTopological => OrderIsTopological' BY <2>1, <3>3 DEF OrderIsTopological
      <3> QED BY <2>1, <3>2, <3>4 DEF SortInv, Idling
    <2> QED BY <2>2, <2>3 DEF SortInv
  <1> QED BY <1>1, <1>2, <1>3, <1>4, <1>5, <1>6, <1>7, <1>8, <1>9, <1>10, <1>11, <1>12
          DEF Next, Build, SortStep

-----------------------------------------------------------------------------

(* The invariant holds throughout, for graphs of every size.                *)
THEOREM SortInvariant == Spec => []SortInv
  <1>1. Init => SortInv BY InitEstablishes
  <1>2. SortInv /\ [Next]_vars => SortInv' BY NextKeeps
  <1> QED BY <1>1, <1>2, PTL DEF Spec

(* Every indegree is a cardinality.                                         *)
LEMMA NeverNegative == SortInv => TypeOK
  <1> SUFFICES ASSUME SortInv PROVE TypeOK OBVIOUS
  <1>1. Types BY DEF SortInv
  <1>2. Len(edges) \in Nat /\ DOMAIN edges = 1..Len(edges) BY <1>1 DEF Types
  <1>3. ASSUME pc # "idle", NEW n \in Nodes PROVE indegree[n] \in Nat
    <2>1. CASE pc = "count"
      BY <2>1, <1>1, CountedFinite DEF SortInv, Counting, Types
    <2>2. CASE pc = "roots"
      BY <2>2, <1>2, CountedFinite DEF SortInv, Rooting
    <2>3. CASE pc \in {"take", "relax"}
      <3>1. indegree[n] = Cardinality(Waiting(edges, order, pc, i, n)) BY <2>3 DEF SortInv, Taking
      <3> QED BY <1>2, <3>1, WaitingFinite
    <2> QED BY <1>1, <1>3, <2>1, <2>2, <2>3 DEF Types
  <1>4. IF pc = "idle" THEN indegree = <<>> ELSE indegree \in [Nodes -> Nat]
    BY <1>1, <1>3 DEF Types
  <1>5. head \in 0..Len(queue) BY <1>1 DEF Types
  <1> QED BY <1>1, <1>4, <1>5 DEF Types, TypeOK

(* TypeOK: no size_t in indegree is decremented below zero.                 *)
THEOREM TypeCorrect == Spec => []TypeOK
  BY SortInvariant, NeverNegative, PTL

(* A queue without repetitions fits in node_count entries.                  *)
LEMMA QueueFitsAlways == SortInv => QueueFits
  <1> SUFFICES ASSUME SortInv PROVE QueueFits OBVIOUS
  <1>1. Types BY DEF SortInv
  <1>2. /\ node_count \in Nat /\ Nodes = 0..(node_count - 1) /\ queue \in Seq(Nodes)
        /\ Len(queue) \in Nat /\ DOMAIN queue = 1..Len(queue)
        /\ head \in Nat /\ head <= Len(queue)
        /\ order \in Seq(Nodes)
    BY <1>1 DEF Types, Nodes
  <1>3. Injective(queue)
    <2>1. CASE pc \in {"idle", "count"}
      <3>1. queue = <<>> BY <2>1 DEF SortInv, Idling, Counting
      <3> QED BY <3>1 DEF Injective
    <2>2. CASE pc = "roots" BY <2>2 DEF SortInv, Rooting
    <2>3. CASE pc \in {"take", "relax"} BY <2>3 DEF SortInv, Taking
    <2> QED BY <1>1, <2>1, <2>2, <2>3 DEF Types
  <1>4. Len(queue) <= node_count BY <1>2, <1>3, InjectiveFits
  <1>5. ASSUME pc # "idle" PROVE order = SubSeq(queue, 1, head)
    <2>1. Len(order) = head /\ \A x \in 1..head : order[x] = queue[x]
      <3>1. CASE pc \in {"count", "roots"}
        <4>1. order = <<>> /\ head = 0 BY <3>1 DEF SortInv, Counting, Rooting
        <4> QED BY <4>1
      <3>2. CASE pc \in {"take", "relax"} BY <3>2 DEF SortInv, Taking, Prefix
      <3> QED BY <1>1, <1>5, <3>1, <3>2 DEF Types
    <2>2. SubSeq(queue, 1, head) = [x \in 1..head |-> queue[x]]
      BY <1>2
    <2>3. order = [x \in 1..head |-> order[x]] BY <1>2, <2>1
    <2> QED BY <2>1, <2>2, <2>3
  <1> QED BY <1>3, <1>4, <1>5 DEF QueueFits, Injective

(* QueueFits: neither array of mg_graph_topological_order is written past   *)
(* its end.                                                                 *)
THEOREM QueueNeverOverruns == Spec => []QueueFits
  BY SortInvariant, QueueFitsAlways, PTL

(* The edges not yet relaxed are the ones the invariant counts.             *)
LEMMA IndegreeAlwaysExact == SortInv => IndegreeExact
  <1> SUFFICES ASSUME SortInv, pc \in {"take", "relax"}, NEW n \in Nodes
               PROVE  /\ indegree[n] = Cardinality({k \in DOMAIN edges : After(k) = n /\ ~Relaxed(k)})
                      /\ indegree[n] = 0 <=> n \in Elements(queue)
    BY DEF IndegreeExact
  <1>1. {k \in DOMAIN edges : After(k) = n /\ ~Relaxed(k)} = Waiting(edges, order, pc, i, n)
    BY DEF Waiting, RelaxedIn, Relaxed, After, Before, current
  <1> QED BY <1>1 DEF SortInv, Taking

(* IndegreeExact: the indegree array is right in every round of the loops.  *)
THEOREM IndegreesExact == Spec => []IndegreeExact
  BY SortInvariant, IndegreeAlwaysExact, PTL

(* OrderIsTopological: an order that is returned puts every node behind its *)
(* dependencies.                                                            *)
THEOREM OrderTopological == Spec => []OrderIsTopological
  <1>1. SortInv => OrderIsTopological
    BY DEF SortInv, Idling, OrderIsTopological
  <1> QED BY <1>1, SortInvariant, PTL

(* CycleReported: MG_ERROR_GRAPH_CYCLE is returned for the graphs that have *)
(* a cycle and for no others.                                               *)
THEOREM CyclesReported == Spec => []CycleReported
  <1>1. SortInv => CycleReported
    BY DEF SortInv, Idling, CycleReported
  <1> QED BY <1>1, SortInvariant, PTL

=============================================================================
