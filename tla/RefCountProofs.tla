---------------------------- MODULE RefCountProofs ----------------------------
(***************************************************************************)
(* Reference counts of buffers and events, for any number of objects,      *)
(* execs and launches: every count is the number of holders, whatever is   *)
(* patched, launched, given up half way or destroyed in whatever order, so *)
(* what a running command buffer uses is alive.                            *)
(***************************************************************************)
EXTENDS GraphLaunchProofs

(* Pairs of an index and a member of its set.                               *)
Pairs(I, F) == UNION {{d} \X F[d] : d \in I}

(* The places of an object in a list.                                       *)
Slots(s, o) == {i \in DOMAIN s : s[i] = o}

(* The holders of an object as such pairs: the places in each node, and the *)
(* slots of each graph, exec and launch.                                    *)
SlotMap(ns, o)       == [i \in DOMAIN ns |-> Slots(ns[i].objs, o)]
GraphMap(ga, g, o)   == [e \in Execs |-> IF ga[e] THEN NodeSlots(g[e], o) ELSE {}]
ExecMap(ns, o)       == [e \in Execs |-> NodeSlots(ns[e], o)]
LaunchMap(rt, o)     == [l \in Launches |-> Slots(rt[l], o)]

-----------------------------------------------------------------------------
(* Counting pairs.                                                          *)

(* Finitely many finite sets have finitely many pairs.                      *)
LEMMA PairsFinite ==
    ASSUME NEW I, IsFiniteSet(I), NEW F, \A d \in I : IsFiniteSet(F[d])
    PROVE  IsFiniteSet(Pairs(I, F)) /\ Cardinality(Pairs(I, F)) \in Nat
<1> DEFINE Row(d) == {d} \X F[d]
           rows   == {Row(d) : d \in I}
           f      == [d \in I |-> Row(d)]
<1>1. f \in Surjection(I, rows)
  BY DEF Surjection
<1>2. IsFiniteSet(rows)
  BY <1>1, FS_Surjection
<1>3. ASSUME NEW d \in I PROVE IsFiniteSet(Row(d))
  BY FS_Singleton, FS_Product
<1>4. IsFiniteSet(UNION rows)
  BY <1>2, <1>3, FS_UNION
<1> QED BY <1>4, FS_CardinalityType DEF Pairs

(* Pairing a set with one index keeps its size.                             *)
LEMMA RowSize ==
    ASSUME NEW d, NEW S, IsFiniteSet(S)
    PROVE  IsFiniteSet({d} \X S) /\ Cardinality({d} \X S) = Cardinality(S)
<1>1. IsFiniteSet({d}) /\ Cardinality({d}) = 1
  BY FS_Singleton
<1>2. IsFiniteSet({d} \X S) /\ Cardinality({d} \X S) = Cardinality({d}) * Cardinality(S)
  BY <1>1, FS_Product
<1>3. Cardinality(S) \in Nat
  BY FS_CardinalityType
<1> QED BY <1>1, <1>2, <1>3

(* One index can be counted apart from the others.                          *)
LEMMA PairsSplit ==
    ASSUME NEW I, IsFiniteSet(I), NEW F, \A d \in I : IsFiniteSet(F[d]), NEW e \in I
    PROVE  Cardinality(Pairs(I, F)) = Cardinality(Pairs(I \ {e}, F)) + Cardinality(F[e])
<1> DEFINE Rest == Pairs(I \ {e}, F)
           Row  == {e} \X F[e]
<1>1. IsFiniteSet(I \ {e})
  BY FS_Difference
<1>2. IsFiniteSet(Rest) /\ Cardinality(Rest) \in Nat
  BY <1>1, PairsFinite
<1>3. IsFiniteSet(Row) /\ Cardinality(Row) = Cardinality(F[e])
  BY RowSize
<1>4. Pairs(I, F) = Rest \cup Row
  BY DEF Pairs
<1>5. Rest \cap Row = {}
  BY DEF Pairs
<1> HIDE DEF Rest, Row
<1>6. Cardinality(Pairs(I, F)) = Cardinality(Rest) + Cardinality(Row) - Cardinality(Rest \cap Row)
  BY <1>2, <1>3, <1>4, FS_Union
<1>7. Cardinality(Rest \cap Row) = 0
  BY <1>5, FS_EmptySet
<1>8. Cardinality(Row) \in Nat
  BY <1>3, FS_CardinalityType
<1>9. Cardinality(Pairs(I, F)) = Cardinality(Rest) + Cardinality(F[e])
  BY <1>2, <1>3, <1>6, <1>7, <1>8
<1> QED BY <1>9 DEF Rest

(* Replacing the set of one index changes the count by the difference of    *)
(* the two sets.                                                            *)
LEMMA PairsReplaced ==
    ASSUME NEW I, IsFiniteSet(I), NEW F, \A d \in I : IsFiniteSet(F[d]), NEW e \in I,
           NEW G, NEW T, IsFiniteSet(T), G[e] = T, \A d \in I : d # e => G[d] = F[d]
    PROVE  Cardinality(Pairs(I, G)) = Cardinality(Pairs(I, F)) - Cardinality(F[e]) + Cardinality(T)
<1>1. \A d \in I : IsFiniteSet(G[d])
  OBVIOUS
<1>2. Pairs(I \ {e}, G) = Pairs(I \ {e}, F)
  BY DEF Pairs
<1>3. Cardinality(Pairs(I, F)) = Cardinality(Pairs(I \ {e}, F)) + Cardinality(F[e])
  BY PairsSplit
<1>4. Cardinality(Pairs(I, G)) = Cardinality(Pairs(I \ {e}, G)) + Cardinality(G[e])
  BY <1>1, PairsSplit
<1>5. IsFiniteSet(I \ {e})
  BY FS_Difference
<1>6. Cardinality(Pairs(I \ {e}, F)) \in Nat /\ Cardinality(F[e]) \in Nat /\ Cardinality(T) \in Nat
  BY <1>5, PairsFinite, FS_CardinalityType
<1> QED BY <1>2, <1>3, <1>4, <1>6

-----------------------------------------------------------------------------
(* Counting slots.                                                          *)

(* Occurrences counts the places of an object in a list.                    *)
LEMMA SlotsFinite ==
    ASSUME NEW s \in Seq(Objects), NEW o
    PROVE  IsFiniteSet(Slots(s, o)) /\ Cardinality(Slots(s, o)) = Occurrences(s, o)
           /\ Occurrences(s, o) \in Nat
<1>1. IsFiniteSet(1..Len(s)) /\ DOMAIN s = 1..Len(s)
  BY FS_Interval
<1>2. IsFiniteSet({i \in DOMAIN s : s[i] = o})
  BY <1>1, FS_Subset
<1> QED BY <1>2, OccurrencesType DEF Occurrences, Slots

(* An object occurs in a joined list as often as in its parts.              *)
LEMMA OccurrencesJoined ==
    ASSUME NEW s \in Seq(Objects), NEW t \in Seq(Objects), NEW o
    PROVE  Occurrences(s \o t, o) = Occurrences(s, o) + Occurrences(t, o)
<1> DEFINE n == Len(s)
           A == Slots(s, o)
           B == Slots(t, o)
           C == {n + i : i \in B}
<1>1. n \in Nat /\ Len(t) \in Nat /\ DOMAIN s = 1..n /\ DOMAIN t = 1..Len(t)
      /\ DOMAIN (s \o t) = 1..(n + Len(t)) /\ s \o t \in Seq(Objects)
      /\ (\A i \in 1..n : (s \o t)[i] = s[i]) /\ \A i \in 1..Len(t) : (s \o t)[n + i] = t[i]
  OBVIOUS
<1>2. Slots(s \o t, o) = A \cup C
  <2>1. Slots(s \o t, o) \subseteq A \cup C
    <3> SUFFICES ASSUME NEW i \in Slots(s \o t, o) PROVE i \in A \cup C
      OBVIOUS
    <3>1. i \in 1..(n + Len(t)) /\ (s \o t)[i] = o
      BY <1>1 DEF Slots
    <3>2. CASE i \in 1..n
      BY <1>1, <3>1, <3>2 DEF Slots
    <3>3. CASE i \notin 1..n
      <4>1. i - n \in 1..Len(t) /\ n + (i - n) = i
        BY <1>1, <3>1, <3>3
      <4>2. t[i - n] = o
        BY <1>1, <3>1, <4>1
      <4> QED BY <1>1, <4>1, <4>2 DEF Slots
    <3> QED BY <3>2, <3>3
  <2>2. A \subseteq Slots(s \o t, o)
    BY <1>1 DEF Slots
  <2>3. C \subseteq Slots(s \o t, o)
    BY <1>1 DEF Slots
  <2> QED BY <2>1, <2>2, <2>3
<1>3. A \cap C = {}
  BY <1>1 DEF Slots
<1>4. IsFiniteSet(A) /\ IsFiniteSet(B)
  BY SlotsFinite
<1>5. IsFiniteSet(C) /\ Cardinality(C) = Cardinality(B)
  <2> DEFINE f == [i \in B |-> n + i]
  <2>1. \A i, j \in B : n + i = n + j => i = j
    BY <1>1 DEF Slots
  <2>2. f \in Bijection(B, C)
    BY <2>1 DEF Bijection, Injection, Surjection, IsInjective
  <2>3. ExistsBijection(B, C)
    BY <2>2 DEF ExistsBijection
  <2> QED BY <1>4, <2>3, FS_Bijection
<1> HIDE DEF A, B, C, n
<1>6. Cardinality(A \cup C) = Cardinality(A) + Cardinality(C) - Cardinality(A \cap C)
  BY <1>4, <1>5, FS_Union
<1>7. Cardinality(A \cap C) = 0
  BY <1>3, FS_EmptySet
<1>8. Cardinality(A) \in Nat /\ Cardinality(C) \in Nat
  BY <1>4, <1>5, FS_CardinalityType
<1>9. Cardinality(Slots(s \o t, o)) = Cardinality(A) + Cardinality(B)
  BY <1>2, <1>5, <1>6, <1>7, <1>8
<1> QED BY <1>9 DEF A, B, Occurrences, Slots

(* An object occurs once in the list of itself, and not in that of another. *)
LEMMA OccurrencesOne ==
    ASSUME NEW p, NEW o
    PROVE  Occurrences(<<p>>, o) = IF p = o THEN 1 ELSE 0
<1>1. DOMAIN <<p>> = {1} /\ <<p>>[1] = p
  OBVIOUS
<1>2. CASE p = o
  <2>1. Slots(<<p>>, o) = {1}
    BY <1>1, <1>2 DEF Slots
  <2> QED BY <1>2, <2>1, FS_Singleton DEF Occurrences, Slots
<1>3. CASE p # o
  <2>1. Slots(<<p>>, o) = {}
    BY <1>1, <1>3 DEF Slots
  <2> QED BY <1>3, <2>1, FS_EmptySet DEF Occurrences, Slots
<1> QED BY <1>2, <1>3

(* The slots of a node sequence are pairs of a node and a place.            *)
LEMMA NodeSlotsPairs ==
    ASSUME NEW ns \in Seq(Node), NEW o
    PROVE  /\ NodeSlots(ns, o) = Pairs(DOMAIN ns, SlotMap(ns, o))
           /\ IsFiniteSet(DOMAIN ns)
           /\ \A i \in DOMAIN ns : /\ ns[i].objs \in Seq(Objects)
                                   /\ SlotMap(ns, o)[i] = Slots(ns[i].objs, o)
                                   /\ IsFiniteSet(SlotMap(ns, o)[i])
<1>1. NodeSlots(ns, o) = Pairs(DOMAIN ns, SlotMap(ns, o))
  <2>1. ASSUME NEW x \in NodeSlots(ns, o) PROVE x \in Pairs(DOMAIN ns, SlotMap(ns, o))
    <3>1. PICK i \in DOMAIN ns : x \in {i} \X DOMAIN ns[i].objs /\ ns[x[1]].objs[x[2]] = o
      BY DEF NodeSlots
    <3>2. x = <<i, x[2]>> /\ x[2] \in Slots(ns[i].objs, o)
      BY <3>1 DEF Slots
    <3>3. x \in {i} \X SlotMap(ns, o)[i]
      BY <3>2 DEF SlotMap
    <3> QED BY <3>3 DEF Pairs
  <2>2. ASSUME NEW x \in Pairs(DOMAIN ns, SlotMap(ns, o)) PROVE x \in NodeSlots(ns, o)
    <3>1. PICK i \in DOMAIN ns : x \in {i} \X SlotMap(ns, o)[i]
      BY DEF Pairs
    <3>2. x[1] = i /\ x[2] \in Slots(ns[i].objs, o) /\ x \in {i} \X DOMAIN ns[i].objs
      BY <3>1 DEF SlotMap, Slots
    <3>3. ns[x[1]].objs[x[2]] = o
      BY <3>2 DEF Slots
    <3> QED BY <3>2, <3>3 DEF NodeSlots
  <2> QED BY <2>1, <2>2
<1>2. IsFiniteSet(DOMAIN ns)
  BY FS_Interval, DOMAIN ns = 1..Len(ns), Len(ns) \in Int
<1>3. ASSUME NEW i \in DOMAIN ns
      PROVE  /\ ns[i].objs \in Seq(Objects) /\ SlotMap(ns, o)[i] = Slots(ns[i].objs, o)
             /\ IsFiniteSet(SlotMap(ns, o)[i])
  <2>1. ns[i] \in Node
    OBVIOUS
  <2>2. ns[i].objs \in Seq(Objects)
    BY <2>1 DEF Node
  <2>3. SlotMap(ns, o)[i] = Slots(ns[i].objs, o)
    BY DEF SlotMap
  <2> QED BY <2>2, <2>3, SlotsFinite
<1> QED BY <1>1, <1>2, <1>3

(* Replacing a node exchanges the occurrences in its objects.               *)
LEMMA NodeReplaced ==
    ASSUME NEW ns \in Seq(Node), NEW i \in DOMAIN ns, NEW n \in Node, NEW o
    PROVE  LET ms == [ns EXCEPT ![i] = n]
           IN  NodesHold(ms, o) = NodesHold(ns, o) - Occurrences(ns[i].objs, o) + Occurrences(n.objs, o)
<1> DEFINE ms == [ns EXCEPT ![i] = n]
<1>1. ms \in Seq(Node) /\ DOMAIN ms = DOMAIN ns /\ ms[i] = n
      /\ \A d \in DOMAIN ns : d # i => ms[d] = ns[d]
  OBVIOUS
<1>2. n.objs \in Seq(Objects)
  BY DEF Node
<1> HIDE DEF ms
<1>3. SlotMap(ms, o)[i] = Slots(n.objs, o)
      /\ \A d \in DOMAIN ns : d # i => SlotMap(ms, o)[d] = SlotMap(ns, o)[d]
  BY <1>1 DEF SlotMap
<1>4. /\ NodeSlots(ns, o) = Pairs(DOMAIN ns, SlotMap(ns, o)) /\ IsFiniteSet(DOMAIN ns)
      /\ \A d \in DOMAIN ns : IsFiniteSet(SlotMap(ns, o)[d])
      /\ SlotMap(ns, o)[i] = Slots(ns[i].objs, o) /\ ns[i].objs \in Seq(Objects)
  BY NodeSlotsPairs
<1>5. NodeSlots(ms, o) = Pairs(DOMAIN ns, SlotMap(ms, o))
  BY <1>1, NodeSlotsPairs
<1>6. /\ IsFiniteSet(Slots(n.objs, o)) /\ Cardinality(Slots(n.objs, o)) = Occurrences(n.objs, o)
      /\ Cardinality(Slots(ns[i].objs, o)) = Occurrences(ns[i].objs, o)
  BY <1>2, <1>4, SlotsFinite
<1>7. Cardinality(Pairs(DOMAIN ns, SlotMap(ms, o)))
        = Cardinality(Pairs(DOMAIN ns, SlotMap(ns, o))) - Cardinality(SlotMap(ns, o)[i])
            + Cardinality(Slots(n.objs, o))
  BY <1>3, <1>4, <1>6, PairsReplaced
<1>8. NodesHold(ms, o) = NodesHold(ns, o) - Occurrences(ns[i].objs, o) + Occurrences(n.objs, o)
  BY <1>4, <1>5, <1>6, <1>7 DEF NodesHold
<1> QED BY <1>8 DEF ms

-----------------------------------------------------------------------------
(* Counting holders.                                                        *)

(* The holders of an object are pairs of an exec or a launch and a finite   *)
(* set.                                                                     *)
LEMMA HoldersArePairs ==
    ASSUME TypeOK, NEW o
    PROVE  /\ GraphsHold(o) = Pairs(Execs, GraphMap(galive, graph, o))
           /\ ExecsHold(o) = Pairs(Execs, ExecMap(nodes, o))
           /\ LaunchesHold(o) = Pairs(Launches, LaunchMap(retained, o))
           /\ \A e \in Execs : /\ IsFiniteSet(GraphMap(galive, graph, o)[e])
                               /\ ExecMap(nodes, o)[e] = NodeSlots(nodes[e], o)
                               /\ IsFiniteSet(ExecMap(nodes, o)[e])
           /\ \A l \in Launches : /\ LaunchMap(retained, o)[l] = Slots(retained[l], o)
                                  /\ IsFiniteSet(LaunchMap(retained, o)[l])
<1>1. ASSUME NEW e \in Execs
      PROVE  /\ IsFiniteSet(GraphMap(galive, graph, o)[e])
             /\ ExecMap(nodes, o)[e] = NodeSlots(nodes[e], o)
             /\ IsFiniteSet(ExecMap(nodes, o)[e])
  <2>1. graph[e] \in Seq(Node) /\ nodes[e] \in Seq(Node)
    BY DEF TypeOK
  <2>2. IsFiniteSet(NodeSlots(graph[e], o)) /\ IsFiniteSet(NodeSlots(nodes[e], o))
    BY <2>1, NodeSlotsFinite
  <2> QED BY <2>2, FS_EmptySet DEF GraphMap, ExecMap
<1>2. ASSUME NEW l \in Launches
      PROVE  /\ LaunchMap(retained, o)[l] = Slots(retained[l], o)
             /\ IsFiniteSet(LaunchMap(retained, o)[l])
  <2>1. retained[l] \in Seq(Objects)
    BY DEF TypeOK
  <2> QED BY <2>1, SlotsFinite DEF LaunchMap
<1>3. GraphsHold(o) = Pairs(Execs, GraphMap(galive, graph, o))
  <2>1. ASSUME NEW x \in GraphsHold(o) PROVE x \in Pairs(Execs, GraphMap(galive, graph, o))
    <3>1. PICK e \in Execs : x \in {e} \X NodeSlots(graph[e], o) /\ galive[x[1]]
      BY DEF GraphsHold
    <3>2. x \in {e} \X GraphMap(galive, graph, o)[e]
      BY <3>1 DEF GraphMap
    <3> QED BY <3>2 DEF Pairs
  <2>2. ASSUME NEW x \in Pairs(Execs, GraphMap(galive, graph, o)) PROVE x \in GraphsHold(o)
    <3>1. PICK e \in Execs : x \in {e} \X GraphMap(galive, graph, o)[e]
      BY DEF Pairs
    <3>2. galive[x[1]] /\ x \in {e} \X NodeSlots(graph[e], o)
      BY <3>1 DEF GraphMap
    <3> QED BY <3>2 DEF GraphsHold
  <2> QED BY <2>1, <2>2
<1>4. ExecsHold(o) = Pairs(Execs, ExecMap(nodes, o))
  BY DEF ExecsHold, Pairs, ExecMap
<1>5. LaunchesHold(o) = Pairs(Launches, LaunchMap(retained, o))
  BY DEF LaunchesHold, Pairs, LaunchMap, Slots
<1> QED BY <1>1, <1>2, <1>3, <1>4, <1>5

(* So they can be counted.                                                  *)
LEMMA HoldersCounted ==
    ASSUME TypeOK, NEW o
    PROVE  /\ Cardinality(GraphsHold(o)) \in Nat
           /\ Cardinality(ExecsHold(o)) \in Nat
           /\ IsFiniteSet(LaunchesHold(o)) /\ Cardinality(LaunchesHold(o)) \in Nat
BY HoldersArePairs, FiniteAssumption, PairsFinite

(* Each action changes the holders of one kind for one exec or launch.      *)
LEMMA ExecReplaced ==
    ASSUME TypeOK, NEW e \in Execs, NEW ns \in Seq(Node), nodes' = [nodes EXCEPT ![e] = ns],
           NEW o
    PROVE  Cardinality(ExecsHold(o)')
             = Cardinality(ExecsHold(o)) - NodesHold(nodes[e], o) + NodesHold(ns, o)
<1> DEFINE F == ExecMap(nodes, o)
           G == ExecMap(nodes', o)
           T == NodeSlots(ns, o)
<1>1. /\ ExecsHold(o) = Pairs(Execs, F) /\ F[e] = NodeSlots(nodes[e], o)
      /\ \A d \in Execs : IsFiniteSet(F[d])
  BY HoldersArePairs
<1>2. ExecsHold(o)' = Pairs(Execs, G)
  BY DEF ExecsHold, Pairs, ExecMap
<1>3. \A d \in Execs : nodes'[d] = IF d = e THEN ns ELSE nodes[d]
  BY DEF TypeOK
<1>4. G[e] = T /\ \A d \in Execs : d # e => G[d] = F[d]
  BY <1>3 DEF ExecMap
<1>5. IsFiniteSet(T)
  BY NodeSlotsFinite
<1> HIDE DEF F, G, T
<1>6. Cardinality(Pairs(Execs, G)) = Cardinality(Pairs(Execs, F)) - Cardinality(F[e]) + Cardinality(T)
  BY <1>1, <1>4, <1>5, FiniteAssumption, PairsReplaced
<1> QED BY <1>1, <1>2, <1>6 DEF T, NodesHold

(* Destroying a graph takes its slots away.                                 *)
LEMMA GraphGone ==
    ASSUME TypeOK, NEW e \in Execs, galive[e], galive' = [galive EXCEPT ![e] = FALSE],
           graph' = graph, NEW o
    PROVE  Cardinality(GraphsHold(o)') = Cardinality(GraphsHold(o)) - NodesHold(graph[e], o)
<1> DEFINE F == GraphMap(galive, graph, o)
           G == GraphMap(galive', graph, o)
           T == {}
<1>1. GraphsHold(o) = Pairs(Execs, F) /\ \A d \in Execs : IsFiniteSet(F[d])
  BY HoldersArePairs
<1>2. galive' \in [Execs -> BOOLEAN] /\ \A d \in Execs : galive'[d] = IF d = e THEN FALSE ELSE galive[d]
  BY DEF TypeOK
<1>3. GraphsHold(o)' = Pairs(Execs, G)
  <2>1. ASSUME NEW x \in GraphsHold(o)' PROVE x \in Pairs(Execs, G)
    <3>1. PICK d \in Execs : x \in {d} \X NodeSlots(graph[d], o) /\ galive'[x[1]]
      BY DEF GraphsHold
    <3>2. x \in {d} \X G[d]
      BY <3>1 DEF GraphMap
    <3> QED BY <3>2 DEF Pairs
  <2>2. ASSUME NEW x \in Pairs(Execs, G) PROVE x \in GraphsHold(o)'
    <3>1. PICK d \in Execs : x \in {d} \X G[d]
      BY DEF Pairs
    <3>2. galive'[x[1]] /\ x \in {d} \X NodeSlots(graph[d], o)
      BY <3>1 DEF GraphMap
    <3> QED BY <3>2 DEF GraphsHold
  <2> QED BY <2>1, <2>2
<1>4. F[e] = NodeSlots(graph[e], o) /\ G[e] = T /\ \A d \in Execs : d # e => G[d] = F[d]
  BY <1>2 DEF GraphMap
<1>5. IsFiniteSet(T) /\ Cardinality(T) = 0
  BY FS_EmptySet
<1> HIDE DEF F, G, T
<1>6. Cardinality(Pairs(Execs, G)) = Cardinality(Pairs(Execs, F)) - Cardinality(F[e]) + Cardinality(T)
  BY <1>1, <1>4, <1>5, FiniteAssumption, PairsReplaced
<1>7. Cardinality(Pairs(Execs, F)) \in Nat /\ Cardinality(F[e]) \in Nat
  BY <1>1, HoldersCounted, FS_CardinalityType
<1> QED BY <1>1, <1>3, <1>4, <1>5, <1>6, <1>7 DEF NodesHold

(* A launch that holds another list exchanges the occurrences.              *)
LEMMA LaunchReplaced ==
    ASSUME TypeOK, NEW l \in Launches, NEW s \in Seq(Objects), retained' = [retained EXCEPT ![l] = s],
           NEW o
    PROVE  Cardinality(LaunchesHold(o)')
             = Cardinality(LaunchesHold(o)) - Occurrences(retained[l], o) + Occurrences(s, o)
<1> DEFINE F == LaunchMap(retained, o)
           G == LaunchMap(retained', o)
           T == Slots(s, o)
<1>1. /\ LaunchesHold(o) = Pairs(Launches, F) /\ F[l] = Slots(retained[l], o)
      /\ \A d \in Launches : IsFiniteSet(F[d])
  BY HoldersArePairs
<1>2. LaunchesHold(o)' = Pairs(Launches, G)
  BY DEF LaunchesHold, Pairs, LaunchMap, Slots
<1>3. \A d \in Launches : retained'[d] = IF d = l THEN s ELSE retained[d]
  BY DEF TypeOK
<1>4. G[l] = T /\ \A d \in Launches : d # l => G[d] = F[d]
  BY <1>3 DEF LaunchMap
<1>5. IsFiniteSet(T) /\ Cardinality(T) = Occurrences(s, o)
  BY SlotsFinite
<1>6. retained[l] \in Seq(Objects)
  BY DEF TypeOK
<1>7. Cardinality(Slots(retained[l], o)) = Occurrences(retained[l], o)
  BY <1>6, SlotsFinite
<1> HIDE DEF F, G, T
<1>8. Cardinality(Pairs(Launches, G)) = Cardinality(Pairs(Launches, F)) - Cardinality(F[l]) + Cardinality(T)
  BY <1>1, <1>4, <1>5, FiniteAssumption, PairsReplaced
<1> QED BY <1>1, <1>2, <1>5, <1>7, <1>8

-----------------------------------------------------------------------------
(* The steps.                                                               *)

(* A step that leaves the graphs alone leaves their holders alone.          *)
LEMMA GraphsSame ==
    ASSUME UNCHANGED <<galive, graph>>, NEW o
    PROVE  GraphsHold(o)' = GraphsHold(o)
BY DEF GraphsHold

(* The same for execs.                                                      *)
LEMMA ExecsSame ==
    ASSUME UNCHANGED nodes, NEW o
    PROVE  ExecsHold(o)' = ExecsHold(o)
BY DEF ExecsHold

(* The same for launches.                                                   *)
LEMMA LaunchesSame ==
    ASSUME UNCHANGED retained, NEW o
    PROVE  LaunchesHold(o)' = LaunchesHold(o)
BY DEF LaunchesHold

(* A step that touches no holder and no count keeps the counts exact.       *)
LEMMA CountsUnchanged ==
    ASSUME RefCountExact, UNCHANGED <<galive, graph, nodes, retained, handle, ref_count>>
    PROVE  RefCountExact'
BY GraphsSame, ExecsSame, LaunchesSame DEF RefCountExact

(* An object somebody holds has not been destroyed: whoever still has it    *)
(* may retain it again.                                                     *)
LEMMA HeldIsAlive ==
    ASSUME TypeOK, RefCountExact, NEW o \in Objects,
           \/ handle[o]
           \/ \E e \in Execs : galive[e] /\ NodeSlots(graph[e], o) # {}
           \/ \E e \in Execs : NodeSlots(nodes[e], o) # {}
    PROVE  ref_count[o] # 0
<1>1. /\ Cardinality(GraphsHold(o)) \in Nat /\ Cardinality(ExecsHold(o)) \in Nat
      /\ Cardinality(LaunchesHold(o)) \in Nat
      /\ IsFiniteSet(GraphsHold(o)) /\ IsFiniteSet(ExecsHold(o))
  BY HoldersArePairs, HoldersCounted, FiniteAssumption, PairsFinite
<1> SUFFICES ASSUME ref_count[o] = 0 PROVE FALSE
  OBVIOUS
<1>2. /\ ~handle[o]
      /\ Cardinality(GraphsHold(o)) = 0 /\ Cardinality(ExecsHold(o)) = 0
  BY <1>1 DEF RefCountExact
<1>3. GraphsHold(o) = {} /\ ExecsHold(o) = {}
  BY <1>1, <1>2, FS_EmptySet
<1>4. ASSUME NEW e \in Execs, galive[e], NEW p \in NodeSlots(graph[e], o) PROVE FALSE
  <2>1. <<e, p>> \in GraphsHold(o)
    BY <1>4 DEF GraphsHold
  <2> QED BY <1>3, <2>1
<1>5. ASSUME NEW e \in Execs, NEW p \in NodeSlots(nodes[e], o) PROVE FALSE
  <2>1. <<e, p>> \in ExecsHold(o)
    BY <1>5 DEF ExecsHold
  <2> QED BY <1>3, <2>1
<1> QED BY <1>2, <1>4, <1>5

(* A place of the object in the list of a node is a slot of the node.       *)
LEMMA NodeHoldsObject ==
    ASSUME NEW ns, NEW i \in DOMAIN ns, NEW j \in DOMAIN ns[i].objs
    PROVE  NodeSlots(ns, ns[i].objs[j]) # {}
<1>1. <<i, j>> \in NodeSlots(ns, ns[i].objs[j])
  BY DEF NodeSlots
<1> QED BY <1>1

(* An object of a list occurs in it.                                        *)
LEMMA OccurrencePlace ==
    ASSUME NEW s \in Seq(Objects), NEW o, Occurrences(s, o) # 0
    PROVE  \E i \in DOMAIN s : s[i] = o
<1> SUFFICES ASSUME Slots(s, o) = {} PROVE FALSE
  BY DEF Slots
<1> QED BY FS_EmptySet DEF Occurrences, Slots

(* Retaining objects that are alive adds their occurrences.                 *)
LEMMA RetainAlive ==
    ASSUME TypeOK, NEW s \in Seq(Objects), NEW o \in Objects,
           Occurrences(s, o) # 0 => ref_count[o] # 0
    PROVE  Retain(ref_count, s)[o] = ref_count[o] + Occurrences(s, o)
<1>1. ref_count[o] \in Int /\ Occurrences(s, o) \in Nat
  BY OccurrencesType DEF TypeOK
<1> QED BY <1>1 DEF Retain, Incremented

(* mgGraphInstantiate: the exec, which held nothing, holds the objects of   *)
(* the nodes it retained, all alive because the graph holds them.           *)
LEMMA InstantiateCounts ==
    ASSUME LaunchInv, RefCountExact, NEW e \in Execs, NEW made \in BOOLEAN, Instantiate(e, made),
           nodes[e] = <<>>
    PROVE  RefCountExact'
<1>1. /\ nodes' = [nodes EXCEPT ![e] = graph[e]] /\ ref_count' = RetainNodes(ref_count, graph[e])
      /\ UNCHANGED <<galive, graph, retained, handle>>
  BY DEF Instantiate, graphVars, launchVars
<1>2. TypeOK /\ graph[e] \in Seq(Node)
  BY DEF LaunchInv, TypeOK
<1> SUFFICES ASSUME NEW o \in Objects
             PROVE  ref_count'[o] = (IF handle[o] THEN 1 ELSE 0) + Cardinality(GraphsHold(o)')
                                      + Cardinality(ExecsHold(o)') + Cardinality(LaunchesHold(o)')
  BY <1>1 DEF RefCountExact
<1>3. NodesHold(<<>>, o) = 0 /\ NodesHold(graph[e], o) \in Nat
  <2>1. NodeSlots(<<>>, o) = {}
    BY DEF NodeSlots
  <2> QED BY <1>2, <2>1, FS_EmptySet, NodeSlotsFinite DEF NodesHold
<1>4. ref_count'[o] = ref_count[o] + NodesHold(graph[e], o)
  <2>1. NodesHold(graph[e], o) # 0 => ref_count[o] # 0
    <3>1. NodesHold(graph[e], o) # 0 => NodeSlots(graph[e], o) # {}
      BY FS_EmptySet DEF NodesHold
    <3>2. galive[e]
      BY DEF Instantiate
    <3> QED BY <1>2, <3>1, <3>2, HeldIsAlive
  <2>2. ref_count'[o] = Incremented(ref_count, o, NodesHold(graph[e], o))
    BY <1>1 DEF RetainNodes
  <2>3. ref_count[o] \in Int
    BY <1>2 DEF TypeOK
  <2> QED BY <1>3, <2>1, <2>2, <2>3 DEF Incremented
<1>5. Cardinality(ExecsHold(o)') = Cardinality(ExecsHold(o)) - 0 + NodesHold(graph[e], o)
  BY <1>1, <1>2, <1>3, ExecReplaced, ZenonT(40)
<1> QED BY <1>1, <1>2, <1>3, <1>4, <1>5, GraphsSame, LaunchesSame, HoldersCounted DEF RefCountExact

(* mgGraphDestroy releases what the graph held.                             *)
LEMMA GraphDestroyCounts ==
    ASSUME LaunchInv, RefCountExact, NEW e \in Execs, GraphDestroy(e)
    PROVE  RefCountExact'
<1>1. /\ galive[e] /\ galive' = [galive EXCEPT ![e] = FALSE]
      /\ ref_count' = ReleaseNodes(ref_count, graph[e])
      /\ UNCHANGED <<graph, nodes, retained, handle>>
  BY DEF GraphDestroy, execVars, launchVars
<1>2. TypeOK /\ graph[e] \in Seq(Node)
  BY DEF LaunchInv, TypeOK
<1> SUFFICES ASSUME NEW o \in Objects
             PROVE  ref_count'[o] = (IF handle[o] THEN 1 ELSE 0) + Cardinality(GraphsHold(o)')
                                      + Cardinality(ExecsHold(o)') + Cardinality(LaunchesHold(o)')
  BY <1>1 DEF RefCountExact
<1>3. ref_count'[o] = ref_count[o] - NodesHold(graph[e], o)
  BY <1>1 DEF ReleaseNodes
<1>4. NodesHold(graph[e], o) \in Nat
  BY <1>2, NodeSlotsFinite
<1>5. Cardinality(GraphsHold(o)') = Cardinality(GraphsHold(o)) - NodesHold(graph[e], o)
  BY <1>1, <1>2, GraphGone
<1> QED BY <1>1, <1>2, <1>3, <1>4, <1>5, ExecsSame, LaunchesSame, HoldersCounted DEF RefCountExact

(* mgGraphExecDestroy releases what the exec holds, which patches may have  *)
(* changed since it was made.                                               *)
LEMMA ExecDestroyCounts ==
    ASSUME LaunchInv, RefCountExact, NEW e \in Execs, ExecDestroy(e)
    PROVE  RefCountExact'
<1>1. /\ nodes' = [nodes EXCEPT ![e] = <<>>] /\ ref_count' = ReleaseNodes(ref_count, nodes[e])
      /\ UNCHANGED <<galive, graph, retained, handle>>
  BY DEF ExecDestroy, graphVars, launchVars
<1>2. TypeOK /\ nodes[e] \in Seq(Node) /\ <<>> \in Seq(Node)
  BY DEF LaunchInv, TypeOK
<1> SUFFICES ASSUME NEW o \in Objects
             PROVE  ref_count'[o] = (IF handle[o] THEN 1 ELSE 0) + Cardinality(GraphsHold(o)')
                                      + Cardinality(ExecsHold(o)') + Cardinality(LaunchesHold(o)')
  BY <1>1 DEF RefCountExact
<1>3. ref_count'[o] = ref_count[o] - NodesHold(nodes[e], o)
  BY <1>1 DEF ReleaseNodes
<1>4. NodesHold(<<>>, o) = 0 /\ NodesHold(nodes[e], o) \in Nat
  <2>1. NodeSlots(<<>>, o) = {}
    BY DEF NodeSlots
  <2> QED BY <1>2, <2>1, FS_EmptySet, NodeSlotsFinite DEF NodesHold
<1>5. Cardinality(ExecsHold(o)') = Cardinality(ExecsHold(o)) - NodesHold(nodes[e], o) + NodesHold(<<>>, o)
  BY <1>1, <1>2, ExecReplaced
<1> QED BY <1>1, <1>2, <1>3, <1>4, <1>5, GraphsSame, LaunchesSame, HoldersCounted DEF RefCountExact

(* mgBufferDestroy and mgEventDestroy give up the handle, once.             *)
LEMMA HandleDestroyCounts ==
    ASSUME LaunchInv, RefCountExact, NEW p \in Objects, HandleDestroy(p)
    PROVE  RefCountExact'
<1>1. /\ handle[p] /\ handle' = [handle EXCEPT ![p] = FALSE]
      /\ ref_count' = Release(ref_count, <<p>>)
      /\ UNCHANGED <<galive, graph, nodes, retained>>
  BY DEF HandleDestroy, graphVars, execVars, launchVars
<1>2. TypeOK
  BY DEF LaunchInv
<1> SUFFICES ASSUME NEW o \in Objects
             PROVE  ref_count'[o] = (IF handle'[o] THEN 1 ELSE 0) + Cardinality(GraphsHold(o)')
                                      + Cardinality(ExecsHold(o)') + Cardinality(LaunchesHold(o)')
  BY DEF RefCountExact
<1>3. ref_count'[o] = ref_count[o] - (IF p = o THEN 1 ELSE 0)
  BY <1>1, OccurrencesOne DEF Release
<1>4. handle'[o] = IF o = p THEN FALSE ELSE handle[o]
  BY <1>1, <1>2 DEF TypeOK
<1>5. /\ GraphsHold(o)' = GraphsHold(o) /\ ExecsHold(o)' = ExecsHold(o)
      /\ LaunchesHold(o)' = LaunchesHold(o)
  BY <1>1, GraphsSame, ExecsSame, LaunchesSame
<1>6. /\ Cardinality(GraphsHold(o)) \in Nat /\ Cardinality(ExecsHold(o)) \in Nat
      /\ Cardinality(LaunchesHold(o)) \in Nat
  BY <1>2, HoldersCounted
<1>7. ref_count[o] = (IF handle[o] THEN 1 ELSE 0) + Cardinality(GraphsHold(o))
                       + Cardinality(ExecsHold(o)) + Cardinality(LaunchesHold(o))
  BY DEF RefCountExact
<1>8. CASE o = p
  <2>1. (IF handle[o] THEN 1 ELSE 0) = 1 /\ (IF handle'[o] THEN 1 ELSE 0) = 0
    BY <1>1, <1>4, <1>8
  <2>2. ref_count'[o] = ref_count[o] - 1
    BY <1>3, <1>8
  <2> QED BY <1>5, <1>6, <1>7, <2>1, <2>2
<1>9. CASE o # p
  BY <1>3, <1>4, <1>5, <1>6, <1>7, <1>9
<1> QED BY <1>8, <1>9

(* A patch retains the new objects of the node and releases the old ones,   *)
(* also when some are both.                                                 *)
LEMMA PatchedCounts ==
    ASSUME LaunchInv, RefCountExact, NEW e \in Execs, NEW i \in DOMAIN nodes[e], NEW n \in Node,
           Patched(e, i, n), NamesOnly(e, i, n)
    PROVE  RefCountExact'
<1> DEFINE ms  == [nodes[e] EXCEPT ![i] = n]
           old == nodes[e][i].objs
<1>1. /\ nodes' = [nodes EXCEPT ![e] = ms] /\ ref_count' = Swap(ref_count, n.objs, old)
      /\ UNCHANGED <<galive, graph, retained, handle>>
  BY DEF Patched, graphVars, launchVars
<1>2. TypeOK /\ nodes[e] \in Seq(Node) /\ ms \in Seq(Node) /\ nodes[e][i] \in Node
  BY DEF LaunchInv, TypeOK
<1>3. old \in Seq(Objects) /\ n.objs \in Seq(Objects)
  BY <1>2 DEF Node
<1> SUFFICES ASSUME NEW o \in Objects
             PROVE  ref_count'[o] = (IF handle[o] THEN 1 ELSE 0) + Cardinality(GraphsHold(o)')
                                      + Cardinality(ExecsHold(o)') + Cardinality(LaunchesHold(o)')
  BY <1>1 DEF RefCountExact
<1>4. ref_count'[o] = ref_count[o] + Occurrences(n.objs, o) - Occurrences(old, o)
  <2>1. Retain(ref_count, n.objs)[o] = ref_count[o] + Occurrences(n.objs, o)
    <3>1. ASSUME NEW k \in DOMAIN n.objs, n.objs[k] = o PROVE ref_count[o] # 0
      <4>1. handle[o] \/ \E j \in DOMAIN nodes[e][i].objs : nodes[e][i].objs[j] = o
        BY <3>1 DEF NamesOnly, Nameable
      <4>2. handle[o] \/ NodeSlots(nodes[e], o) # {}
        BY <4>1, NodeHoldsObject
      <4> QED BY <1>2, <4>2, HeldIsAlive
    <3> QED BY <1>2, <1>3, <3>1, OccurrencePlace, RetainAlive
  <2> HIDE DEF ms, old
  <2>2. ref_count' = Release(Retain(ref_count, n.objs), old)
    BY <1>1 DEF Swap
  <2>3. ref_count'[o] = Retain(ref_count, n.objs)[o] - Occurrences(old, o)
    BY <2>2 DEF Release
  <2>4. ref_count[o] \in Int /\ Occurrences(n.objs, o) \in Nat /\ Occurrences(old, o) \in Nat
    BY <1>2, <1>3, OccurrencesType DEF TypeOK
  <2> QED BY <2>1, <2>3, <2>4
<1>5. NodesHold(ms, o) = NodesHold(nodes[e], o) - Occurrences(old, o) + Occurrences(n.objs, o)
  BY <1>2, NodeReplaced
<1> HIDE DEF ms, old
<1>6. /\ Occurrences(n.objs, o) \in Nat /\ Occurrences(old, o) \in Nat
      /\ NodesHold(nodes[e], o) \in Nat
  BY <1>2, <1>3, OccurrencesType, NodeSlotsFinite
<1>7. Cardinality(ExecsHold(o)') = Cardinality(ExecsHold(o)) - NodesHold(nodes[e], o) + NodesHold(ms, o)
  BY <1>1, <1>2, ExecReplaced
<1> QED BY <1>1, <1>2, <1>4, <1>5, <1>6, <1>7, GraphsSame, LaunchesSame, HoldersCounted,
          SMTT(30) DEF RefCountExact

(* What a launch retains it holds; the exec holds it at that time.          *)
LEMMA LaunchRetainCounts ==
    ASSUME LaunchInv, RefCountExact, NEW l \in Launches, NEW objs \in Seq(Objects),
           NEW e \in Execs, NEW i \in DOMAIN nodes[e], objs = nodes[e][i].objs,
           RetainForLaunch(l, objs), UNCHANGED <<galive, graph, nodes>>
    PROVE  RefCountExact'
<1>1. /\ retained' = [retained EXCEPT ![l] = retained[l] \o objs]
      /\ ref_count' = Retain(ref_count, objs) /\ handle' = handle
  BY DEF RetainForLaunch, LaunchRefs
<1>2. TypeOK /\ retained[l] \in Seq(Objects) /\ retained[l] \o objs \in Seq(Objects)
  BY DEF LaunchInv, TypeOK
<1> SUFFICES ASSUME NEW o \in Objects
             PROVE  ref_count'[o] = (IF handle[o] THEN 1 ELSE 0) + Cardinality(GraphsHold(o)')
                                      + Cardinality(ExecsHold(o)') + Cardinality(LaunchesHold(o)')
  BY <1>1 DEF RefCountExact
<1>3. ref_count'[o] = ref_count[o] + Occurrences(objs, o)
  <2>1. ASSUME NEW j \in DOMAIN objs, objs[j] = o PROVE ref_count[o] # 0
    BY <1>2, <2>1, NodeHoldsObject, HeldIsAlive
  <2> QED BY <1>1, <1>2, <2>1, OccurrencePlace, RetainAlive
<1>4. Occurrences(retained[l] \o objs, o) = Occurrences(retained[l], o) + Occurrences(objs, o)
  BY <1>2, OccurrencesJoined
<1>5. Occurrences(retained[l], o) \in Nat /\ Occurrences(objs, o) \in Nat
  BY <1>2, OccurrencesType
<1>6. Cardinality(LaunchesHold(o)')
        = Cardinality(LaunchesHold(o)) - Occurrences(retained[l], o) + Occurrences(retained[l] \o objs, o)
  BY <1>1, <1>2, LaunchReplaced
<1> QED BY <1>2, <1>3, <1>4, <1>5, <1>6, GraphsSame, ExecsSame, HoldersCounted,
          SMTT(30) DEF RefCountExact

(* A launch that is destroyed, or given up half way, releases what it       *)
(* retained.                                                                *)
LEMMA LaunchReleaseCounts ==
    ASSUME LaunchInv, RefCountExact, NEW l \in Launches,
           retained' = [retained EXCEPT ![l] = <<>>],
           ref_count' = Release(ref_count, retained[l]), UNCHANGED <<galive, graph, nodes, handle>>
    PROVE  RefCountExact'
<1>2. TypeOK /\ retained[l] \in Seq(Objects) /\ <<>> \in Seq(Objects)
  BY DEF LaunchInv, TypeOK
<1> SUFFICES ASSUME NEW o \in Objects
             PROVE  ref_count'[o] = (IF handle[o] THEN 1 ELSE 0) + Cardinality(GraphsHold(o)')
                                      + Cardinality(ExecsHold(o)') + Cardinality(LaunchesHold(o)')
  BY DEF RefCountExact
<1>3. ref_count'[o] = ref_count[o] - Occurrences(retained[l], o)
  BY DEF Release
<1>4. Occurrences(<<>>, o) = 0
  <2>1. Slots(<<>>, o) = {}
    BY DEF Slots
  <2> QED BY <2>1, FS_EmptySet DEF Occurrences, Slots
<1>5. Occurrences(retained[l], o) \in Nat
  BY <1>2, OccurrencesType
<1>6. Cardinality(LaunchesHold(o)')
        = Cardinality(LaunchesHold(o)) - Occurrences(retained[l], o) + Occurrences(<<>>, o)
  BY <1>2, LaunchReplaced
<1> QED BY <1>2, <1>3, <1>4, <1>5, <1>6, GraphsSame, ExecsSame, HoldersCounted DEF RefCountExact

-----------------------------------------------------------------------------
(* What command buffers use is among what their launch holds.               *)

(* A command takes the object; a list holds it.                             *)
Uses(cmds, o) == \E i \in DOMAIN cmds : \E j \in DOMAIN cmds[i].objs : cmds[i].objs[j] = o

Lists(s, o) == \E i \in DOMAIN s : s[i] = o

(* A list holds all that a command buffer, or those of a launch, use.       *)
BufferCovered(cmds, s) == \A o \in Objects : Uses(cmds, o) => Lists(s, o)

LaunchCovered(bs, s) == \A k \in DOMAIN bs : BufferCovered(bs[k].cmds, s)

(* No submitted or open command buffer of a launch that is encoding or was  *)
(* returned uses an object the launch does not hold.                        *)
Covered ==
    /\ \A l \in Launches : lstate[l] \in {"encoding", "live"} => LaunchCovered(cbs[l], retained[l])
    /\ call.op # "idle" => BufferCovered(call.open, retained[call.l])

(* Execs and launches not made yet hold nothing.                            *)
Fresh ==
    /\ \A e \in Execs : estate[e] = "none" => nodes[e] = <<>>
    /\ \A l \in Launches : lstate[l] = "none" => cbs[l] = <<>>

(* The indirect command buffer of an exec has the one command of a node     *)
(* that no patch can change, so what it uses is what the node holds.        *)
IcbFaithful ==
    \A e \in Execs : estate[e] = "live" /\ icb[e].built =>
        /\ 1 \in DOMAIN nodes[e] /\ nodes[e][1].kind = "dispatch" /\ nodes[e][1].flags = {}
        /\ icb[e].captured = <<CommandOf(nodes[e][1])>>

(* The inductive invariant.                                                 *)
RefInv == LaunchInv /\ Fresh /\ IcbFaithful /\ Covered /\ RefCountExact

(* A joined list holds what its parts hold.                                 *)
LEMMA ListsJoined ==
    ASSUME NEW s \in Seq(Objects), NEW t \in Seq(Objects), NEW o
    PROVE  Lists(s, o) \/ Lists(t, o) => Lists(s \o t, o)
<1>1. /\ Len(s) \in Nat /\ DOMAIN s = 1..Len(s) /\ DOMAIN t = 1..Len(t) /\ Len(t) \in Nat
      /\ DOMAIN (s \o t) = 1..(Len(s) + Len(t))
      /\ (\A i \in 1..Len(s) : (s \o t)[i] = s[i])
      /\ \A i \in 1..Len(t) : (s \o t)[Len(s) + i] = t[i]
  OBVIOUS
<1>2. ASSUME NEW i \in DOMAIN s, s[i] = o PROVE Lists(s \o t, o)
  <2>1. i \in DOMAIN (s \o t) /\ (s \o t)[i] = o
    BY <1>1, <1>2
  <2> QED BY <2>1 DEF Lists
<1>3. ASSUME NEW i \in DOMAIN t, t[i] = o PROVE Lists(s \o t, o)
  <2>1. Len(s) + i \in DOMAIN (s \o t) /\ (s \o t)[Len(s) + i] = o
    BY <1>1, <1>3
  <2> QED BY <2>1 DEF Lists
<1> QED BY <1>2, <1>3 DEF Lists

(* The command of a node uses what the node holds.                          *)
LEMMA CommandUses ==
    ASSUME NEW n
    PROVE  BufferCovered(<<CommandOf(n)>>, n.objs)
<1>1. DOMAIN <<CommandOf(n)>> = {1} /\ <<CommandOf(n)>>[1] = CommandOf(n) /\ CommandOf(n).objs = n.objs
  BY DEF CommandOf
<1> QED BY <1>1 DEF BufferCovered, Uses, Lists

(* What one part of a joined list covers the whole covers.                  *)
LEMMA CoveredJoined ==
    ASSUME NEW cmds, NEW s \in Seq(Objects), NEW t \in Seq(Objects),
           BufferCovered(cmds, s) \/ BufferCovered(cmds, t)
    PROVE  BufferCovered(cmds, s \o t)
BY ListsJoined DEF BufferCovered

(* Encoding one more command.                                               *)
LEMMA AppendedUses ==
    ASSUME NEW cmds \in Seq(Command), NEW c \in Command, NEW s,
           BufferCovered(cmds, s), BufferCovered(<<c>>, s)
    PROVE  BufferCovered(Append(cmds, c), s)
<1> DEFINE r == Append(cmds, c)
<1>1. /\ DOMAIN r = 1..(Len(cmds) + 1) /\ DOMAIN cmds = 1..Len(cmds) /\ Len(cmds) \in Nat
      /\ r[Len(cmds) + 1] = c /\ \A i \in 1..Len(cmds) : r[i] = cmds[i]
  OBVIOUS
<1>2. DOMAIN <<c>> = {1} /\ <<c>>[1] = c
  OBVIOUS
<1> HIDE DEF r
<1>3. ASSUME NEW o \in Objects, NEW i \in DOMAIN r, NEW j \in DOMAIN r[i].objs, r[i].objs[j] = o
      PROVE  Lists(s, o)
  <2>1. CASE i \in 1..Len(cmds)
    <3>1. Uses(cmds, o)
      BY <1>1, <1>3, <2>1 DEF Uses
    <3> QED BY <3>1 DEF BufferCovered
  <2>2. CASE i = Len(cmds) + 1
    <3>1. Uses(<<c>>, o)
      BY <1>1, <1>2, <1>3, <2>2 DEF Uses
    <3> QED BY <3>1 DEF BufferCovered
  <2> QED BY <1>1, <2>1, <2>2
<1>4. BufferCovered(r, s)
  BY <1>3 DEF BufferCovered, Uses
<1> QED BY <1>4 DEF r

(* Committing covered commands.                                             *)
LEMMA CommitCovered ==
    ASSUME TypeOK, NEW l \in Launches, NEW cmds, Commit(l, cmds), NEW s,
           LaunchCovered(cbs[l], s), BufferCovered(cmds, s)
    PROVE  LaunchCovered(cbs'[l], s) /\ \A m \in Launches : m # l => cbs'[m] = cbs[m]
<1> DEFINE cb == [cmds |-> cmds, pos |-> 0, st |-> "committed"]
<1>1. /\ cbs[l] \in Seq(CommandBuffer) /\ cbs'[l] = Append(cbs[l], cb) /\ cb.cmds = cmds
      /\ \A m \in Launches : m # l => cbs'[m] = cbs[m]
  BY DEF Commit, TypeOK
<1> HIDE DEF cb
<1>2. /\ DOMAIN Append(cbs[l], cb) = 1..(Len(cbs[l]) + 1) /\ DOMAIN cbs[l] = 1..Len(cbs[l])
      /\ Append(cbs[l], cb)[Len(cbs[l]) + 1] = cb /\ Len(cbs[l]) \in Nat
      /\ \A k \in 1..Len(cbs[l]) : Append(cbs[l], cb)[k] = cbs[l][k]
  BY <1>1
<1>3. ASSUME NEW k \in DOMAIN cbs'[l] PROVE BufferCovered(cbs'[l][k].cmds, s)
  <2>1. CASE k \in 1..Len(cbs[l])
    BY <1>1, <1>2, <2>1 DEF LaunchCovered
  <2>2. CASE k = Len(cbs[l]) + 1
    BY <1>1, <1>2, <2>2
  <2> QED BY <1>1, <1>2, <2>1, <2>2
<1> QED BY <1>1, <1>3 DEF LaunchCovered

(* A launch that retains more still covers what it covered.                 *)
LEMMA LaunchCoveredJoined ==
    ASSUME NEW bs, NEW s \in Seq(Objects), NEW t \in Seq(Objects), LaunchCovered(bs, s)
    PROVE  LaunchCovered(bs, s \o t)
BY CoveredJoined DEF LaunchCovered

(* What is to show of a step that works on one launch.                      *)
LEMMA CoveredStep ==
    ASSUME Covered, NEW l \in Launches,
           \A m \in Launches : m # l => cbs'[m] = cbs[m] /\ retained'[m] = retained[m]
                                          /\ lstate'[m] = lstate[m],
           lstate'[l] \in {"encoding", "live"} => LaunchCovered(cbs'[l], retained'[l]),
           call'.op # "idle" => call'.l = l /\ BufferCovered(call'.open, retained'[l])
    PROVE  Covered'
BY DEF Covered

(* The GPU changes the progress of a command buffer, never its commands.    *)
LEMMA GpuChanges ==
    ASSUME TypeOK, QueueConsistent, NEW s \in Streams, GpuStep(s)
    PROVE  \E m \in Launches : \E k \in DOMAIN cbs[m] : \E cb \in CommandBuffer :
              /\ cbs' = [cbs EXCEPT ![m] = [cbs[m] EXCEPT ![k] = cb]]
              /\ cb.cmds = cbs[m][k].cmds
<1> DEFINE l == HeadRef(s)[1]
           k == HeadRef(s)[2]
<1>1. /\ queue[s] # <<>> /\ queue[s] \in Seq(Launches \X Nat) /\ 1 \in DOMAIN queue[s]
      /\ cbs \in [Launches -> Seq(CommandBuffer)]
  <2>1. queue[s] # <<>>
    BY Zenon DEF GpuStep, GpuExecute, GpuComplete, GpuFail
  <2>2. queue[s] \in Seq(Launches \X Nat) /\ cbs \in [Launches -> Seq(CommandBuffer)]
    BY DEF TypeOK
  <2> QED BY <2>1, <2>2
<1>2. HeadRef(s) \in Launches \X Nat /\ l \in Launches /\ k \in DOMAIN cbs[l]
  BY <1>1 DEF HeadRef, QueueConsistent
<1>3. cbs[l][k] \in CommandBuffer
  BY <1>1, <1>2
<1>4. CASE GpuExecute(s)
  <2>1. cbs' = [cbs EXCEPT ![l] = [cbs[l] EXCEPT ![k] = [cbs[l][k] EXCEPT !.pos = @ + 1]]]
    BY <1>4 DEF GpuExecute
  <2>2. /\ [cbs[l][k] EXCEPT !.pos = @ + 1] \in CommandBuffer
        /\ [cbs[l][k] EXCEPT !.pos = @ + 1].cmds = cbs[l][k].cmds
    BY <1>3 DEF CommandBuffer
  <2> QED BY <1>2, <2>1, <2>2
<1>5. ASSUME NEW st \in {"completed", "error"}, GpuEnd(s, st)
      PROVE  \E m \in Launches : \E j \in DOMAIN cbs[m] : \E cb \in CommandBuffer :
                /\ cbs' = [cbs EXCEPT ![m] = [cbs[m] EXCEPT ![j] = cb]]
                /\ cb.cmds = cbs[m][j].cmds
  <2>1. cbs' = [cbs EXCEPT ![l] = [cbs[l] EXCEPT ![k] = [cbs[l][k] EXCEPT !.st = st]]]
    BY <1>5 DEF GpuEnd
  <2>2. /\ [cbs[l][k] EXCEPT !.st = st] \in CommandBuffer
        /\ [cbs[l][k] EXCEPT !.st = st].cmds = cbs[l][k].cmds
    BY <1>3 DEF CommandBuffer
  <2> QED BY <1>2, <2>1, <2>2
<1> QED BY <1>4, <1>5 DEF GpuStep, GpuComplete, GpuFail

(* Nothing gives an exec nodes before it is instantiated, or a launch       *)
(* command buffers before it is begun.                                      *)
LEMMA FreshStep ==
    ASSUME LaunchInv, Fresh, [Next]_vars
    PROVE  Fresh'
<1>0. TypeOK /\ CallConsistent /\ QueueConsistent /\ Fresh
  BY DEF LaunchInv
<1>1. ASSUME UNCHANGED <<estate, nodes>> PROVE \A e \in Execs : estate'[e] = "none" => nodes'[e] = <<>>
  BY <1>0, <1>1 DEF Fresh
<1>2. \A e \in Execs : estate'[e] = "none" => nodes'[e] = <<>>
  <2>1. ASSUME NEW e \in Execs, NEW made \in BOOLEAN, Instantiate(e, made)
        PROVE  \A d \in Execs : estate'[d] = "none" => nodes'[d] = <<>>
    BY <1>0, <2>1 DEF Instantiate, Fresh, TypeOK
  <2>2. ASSUME NEW e \in Execs, ExecDestroy(e)
        PROVE  \A d \in Execs : estate'[d] = "none" => nodes'[d] = <<>>
    BY <1>0, <2>2 DEF ExecDestroy, Fresh, TypeOK
  <2>3. ASSUME NEW e \in Execs, Patch(e)
        PROVE  \A d \in Execs : estate'[d] = "none" => nodes'[d] = <<>>
    <3>1. estate[e] = "live" /\ estate' = estate
      BY <1>0, <2>3, PatchForm DEF Patched, SetOptimizationFlags
    <3>2. \A d \in Execs : d # e => nodes'[d] = nodes[d]
      <4>1. CASE \E on \in BOOLEAN : SetOptimizationFlags(e, on)
        BY <4>1 DEF SetOptimizationFlags
      <4>2. ASSUME NEW i \in DOMAIN nodes[e], NEW n \in Node, Patched(e, i, n)
            PROVE  \A d \in Execs : d # e => nodes'[d] = nodes[d]
        <5>1. nodes' = [nodes EXCEPT ![e] = [nodes[e] EXCEPT ![i] = n]]
          BY <4>2 DEF Patched
        <5> QED BY <1>0, <5>1 DEF TypeOK
      <4> QED BY <1>0, <2>3, <4>1, <4>2, PatchForm
    <3> QED BY <1>0, <3>1, <3>2 DEF Fresh
  <2>4. ASSUME NEW l \in Launches, HostStep(l) PROVE UNCHANGED <<estate, nodes>>
    BY <2>4 DEF HostStep, LaunchIcb, EncodeNode, EncodeMps, CommitBeforeMps, WaitBeforeMps,
                LaunchReturn, LaunchFailEncode, LaunchFailCommit, LaunchFailWait, Abandon,
                SyncWait, SyncReturn, execVars
  <2>5. ASSUME NEW s \in Streams, GpuStep(s) PROVE UNCHANGED <<estate, nodes>>
    BY <2>5 DEF GpuStep, GpuExecute, GpuComplete, GpuFail, GpuEnd, execVars
  <2>6. ASSUME NEW f \in Execs, GraphDestroy(f) PROVE UNCHANGED <<estate, nodes>>
    BY <2>6 DEF GraphDestroy, execVars
  <2>7. ASSUME NEW f \in Execs, NEW s \in Streams, NEW l \in Launches, LaunchBegin(f, s, l)
        PROVE  UNCHANGED <<estate, nodes>>
    BY <2>7 DEF LaunchBegin
  <2>8. ASSUME NEW l \in Launches, SyncRejected(l) \/ SyncBegin(l) \/ LaunchDestroy(l)
        PROVE  UNCHANGED <<estate, nodes>>
    BY <2>8 DEF SyncRejected, SyncBegin, LaunchDestroy, execVars
  <2>9. ASSUME NEW o \in Objects, HandleDestroy(o) PROVE UNCHANGED <<estate, nodes>>
    BY <2>9 DEF HandleDestroy, execVars
  <2>10. CASE UNCHANGED vars
    BY <1>1, <2>10 DEF vars, execVars
  <2> QED BY <1>1, <2>1, <2>2, <2>3, <2>4, <2>5, <2>6, <2>7, <2>8, <2>9, <2>10
          DEF Next, CallerStep, Quiet
<1>3. ASSUME NEW l \in Launches, lstate'[l] = "none" PROVE lstate[l] = "none"
  <2>1. ASSUME NEW k \in Launches, NEW st, st # "none", lstate' = [lstate EXCEPT ![k] = st]
        PROVE  lstate[l] = "none"
    BY <1>0, <1>3, <2>1 DEF TypeOK
  <2>2. ASSUME NEW k \in Launches, HostStep(k) PROVE lstate[l] = "none"
    <3>1. CASE LaunchIcb(k) \/ LaunchReturn(k)
      BY <2>1, <3>1 DEF LaunchIcb, LaunchReturn, Returned
    <3>2. CASE LaunchFailEncode(k) \/ LaunchFailCommit(k) \/ LaunchFailWait(k)
      BY <2>1, <3>2 DEF LaunchFailEncode, LaunchFailCommit, LaunchFailWait, Abandon
    <3>3. CASE EncodeNode(k) \/ EncodeMps(k) \/ CommitBeforeMps(k) \/ WaitBeforeMps(k)
                 \/ SyncWait(k) \/ SyncReturn(k)
      BY <1>3, <3>3 DEF EncodeNode, EncodeMps, CommitBeforeMps, WaitBeforeMps, SyncWait,
                        SyncReturn, launchVars
    <3> QED BY <2>2, <3>1, <3>2, <3>3 DEF HostStep
  <2>3. ASSUME UNCHANGED lstate PROVE lstate[l] = "none"
    BY <1>3, <2>3
  <2>4. ASSUME NEW e \in Execs, NEW s \in Streams, NEW k \in Launches, LaunchBegin(e, s, k)
        PROVE  lstate[l] = "none"
    BY <2>1, <2>4 DEF LaunchBegin
  <2>5. ASSUME NEW k \in Launches, LaunchDestroy(k) PROVE lstate[l] = "none"
    BY <2>1, <2>5 DEF LaunchDestroy
  <2>6. ASSUME NEW k \in Launches, SyncRejected(k) \/ SyncBegin(k) PROVE UNCHANGED lstate
    BY <2>6 DEF SyncRejected, SyncBegin, launchVars
  <2>7. ASSUME NEW s \in Streams, GpuStep(s) PROVE UNCHANGED lstate
    BY <2>7 DEF GpuStep, GpuExecute, GpuComplete, GpuFail, GpuEnd, launchVars
  <2>8. ASSUME NEW e \in Execs, NEW made \in BOOLEAN, Instantiate(e, made) PROVE UNCHANGED lstate
    BY <2>8 DEF Instantiate, launchVars
  <2>9. ASSUME NEW e \in Execs, GraphDestroy(e) \/ ExecDestroy(e) PROVE UNCHANGED lstate
    BY <2>9 DEF GraphDestroy, ExecDestroy, launchVars
  <2>10. ASSUME NEW e \in Execs, Patch(e) PROVE UNCHANGED lstate
    BY <1>0, <2>10, PatchForm DEF Patched, SetOptimizationFlags, launchVars
  <2>11. ASSUME NEW o \in Objects, HandleDestroy(o) PROVE UNCHANGED lstate
    BY <2>11 DEF HandleDestroy, launchVars
  <2>12. CASE UNCHANGED vars
    BY <2>3, <2>12 DEF vars, launchVars
  <2> QED BY <2>2, <2>3, <2>4, <2>5, <2>6, <2>7, <2>8, <2>9, <2>10, <2>11, <2>12
          DEF Next, CallerStep, Quiet
<1>4. ASSUME NEW l \in Launches, lstate'[l] = "none" PROVE cbs'[l] = <<>>
  <2>1. cbs[l] = <<>> /\ lstate[l] = "none"
    BY <1>0, <1>3, <1>4 DEF Fresh
  <2>2. ASSUME NEW k \in Launches, HostStep(k) PROVE cbs'[l] = cbs[l]
    <3>1. CASE UNCHANGED cbs
      BY <3>1
    <3>2. CASE \E cmds : Commit(k, cmds) /\ call.l = k /\ call.op \in {"icb", "encode", "midwait"}
      <4>1. k # l
        BY <1>0, <2>1, <3>2 DEF CallConsistent
      <4> QED BY <1>0, <3>2, <4>1 DEF Commit, TypeOK
    <3> QED BY <2>2, <3>1, <3>2
            DEF HostStep, LaunchIcb, EncodeNode, EncodeMps, CommitBeforeMps, WaitBeforeMps,
                LaunchReturn, LaunchFailEncode, LaunchFailCommit, LaunchFailSegment,
                LaunchFailWait, SyncWait, SyncReturn, gpuVars, AtNode, Encoding
  <2>3. ASSUME NEW s \in Streams, GpuStep(s) PROVE cbs'[l] = <<>>
    <3>2. PICK m \in Launches :
             \E k \in DOMAIN cbs[m] : \E cb \in CommandBuffer :
                cbs' = [cbs EXCEPT ![m] = [cbs[m] EXCEPT ![k] = cb]]
      BY <1>0, <2>3, GpuChanges
    <3>3. CASE m = l
      BY <1>0, <2>1, <3>2, <3>3 DEF TypeOK
    <3>4. CASE m # l
      BY <1>0, <2>1, <3>2, <3>4 DEF TypeOK
    <3> QED BY <3>3, <3>4
  <2>4. ASSUME CallerStep PROVE UNCHANGED cbs
    <3>1. ASSUME NEW e \in Execs, Patch(e) PROVE UNCHANGED cbs
      BY <1>0, <3>1, PatchForm DEF Patched, SetOptimizationFlags, gpuVars
    <3>2. ASSUME NEW e \in Execs, NEW made \in BOOLEAN, Instantiate(e, made) PROVE UNCHANGED cbs
      BY <3>2 DEF Instantiate, gpuVars
    <3>3. ASSUME NEW e \in Execs, GraphDestroy(e) \/ ExecDestroy(e) PROVE UNCHANGED cbs
      BY <3>3 DEF GraphDestroy, ExecDestroy, gpuVars
    <3>4. ASSUME NEW e \in Execs, NEW s \in Streams, NEW k \in Launches, LaunchBegin(e, s, k)
          PROVE  UNCHANGED cbs
      BY <3>4 DEF LaunchBegin, gpuVars
    <3>5. ASSUME NEW k \in Launches, SyncRejected(k) \/ SyncBegin(k) \/ LaunchDestroy(k)
          PROVE  UNCHANGED cbs
      BY <3>5 DEF SyncRejected, SyncBegin, LaunchDestroy, gpuVars
    <3>6. ASSUME NEW o \in Objects, HandleDestroy(o) PROVE UNCHANGED cbs
      BY <3>6 DEF HandleDestroy, gpuVars
    <3> QED BY <2>4, <3>1, <3>2, <3>3, <3>4, <3>5, <3>6 DEF CallerStep
  <2>5. CASE UNCHANGED vars
    BY <2>1, <2>5 DEF vars, gpuVars
  <2> QED BY <2>1, <2>2, <2>3, <2>4, <2>5 DEF Next, Quiet
<1> QED BY <1>2, <1>4 DEF Fresh

(* Every step changes a count as it changes the holders.                    *)
LEMMA RefCountStep ==
    ASSUME LaunchInv, Fresh, RefCountExact, [Next]_vars
    PROVE  RefCountExact'
<1>0. TypeOK /\ CallConsistent /\ IcbConsistent
  BY DEF LaunchInv
<1> DEFINE Same == UNCHANGED <<galive, graph, nodes, retained, handle, ref_count>>
<1>1. ASSUME Same PROVE RefCountExact'
  BY <1>1, CountsUnchanged
<1>2. ASSUME NEW l \in Launches, NEW i \in DOMAIN NodesOf(l), NodesOf(l) \in Seq(Node),
             lexec[l] \in Execs, RetainForLaunch(l, NodesOf(l)[i].objs),
             UNCHANGED <<galive, graph, nodes>>
      PROVE  RefCountExact'
  <2>1. NodesOf(l)[i] \in Node
    BY <1>2
  <2>2. NodesOf(l)[i].objs \in Seq(Objects)
    BY <2>1 DEF Node
  <2> QED BY <1>2, <2>2, LaunchRetainCounts DEF NodesOf
<1>3. ASSUME NEW l \in Launches, call.op \in {"icb", "encode", "midwait"}, call.l = l
      PROVE  lexec[l] \in Execs /\ NodesOf(l) \in Seq(Node)
  BY <1>0, <1>3 DEF CallConsistent, TypeOK, NodesOf
<1>4. ASSUME NEW l \in Launches, HostStep(l) PROVE RefCountExact'
  <2>1. CASE LaunchIcb(l)
    <3>1. call.op = "icb" /\ call.l = l /\ RetainForLaunch(l, NodesOf(l)[1].objs)
      BY <2>1 DEF LaunchIcb, Encoding, NodesOf
    <3>2. lexec[l] \in Execs /\ estate[lexec[l]] = "live" /\ icb[lexec[l]].built
      BY <1>0, <1>3, <3>1 DEF CallConsistent
    <3>3. Len(NodesOf(l)) = 1 /\ NodesOf(l) \in Seq(Node)
      BY <1>0, <1>3, <3>1, <3>2 DEF IcbConsistent, NodesOf
    <3>4. 1 \in DOMAIN NodesOf(l)
      BY <3>3
    <3> QED BY <1>2, <2>1, <3>1, <3>2, <3>3, <3>4 DEF LaunchIcb, graphVars
  <2>2. CASE EncodeNode(l)
    <3>1. call.op = "encode" /\ call.l = l /\ call.i \in DOMAIN NodesOf(l)
      BY <2>2 DEF EncodeNode, AtNode, Encoding
    <3>2. RetainForLaunch(l, NodesOf(l)[call.i].objs) /\ UNCHANGED <<galive, graph, nodes>>
      BY <2>2 DEF EncodeNode, graphVars, execVars
    <3> QED BY <1>2, <1>3, <3>1, <3>2
  <2>3. CASE EncodeMps(l)
    <3>1. call.op = "encode" /\ call.l = l /\ call.i \in DOMAIN NodesOf(l)
      BY <2>3 DEF EncodeMps, AtNode, Encoding
    <3>2. RetainForLaunch(l, NodesOf(l)[call.i].objs) /\ UNCHANGED <<galive, graph, nodes>>
      BY <2>3 DEF EncodeMps, graphVars, execVars
    <3> QED BY <1>2, <1>3, <3>1, <3>2
  <2>4. CASE CommitBeforeMps(l) \/ WaitBeforeMps(l)
    BY <1>1, <2>4 DEF CommitBeforeMps, WaitBeforeMps, graphVars, execVars, launchVars, refVars
  <2>5. CASE LaunchReturn(l) \/ SyncReturn(l) \/ SyncWait(l)
    BY <1>1, <2>5 DEF LaunchReturn, SyncReturn, SyncWait, graphVars, execVars, launchVars, refVars
  <2>6. CASE LaunchFailEncode(l) \/ LaunchFailCommit(l) \/ LaunchFailWait(l)
    <3>1. Abandon(l)
      BY <2>6 DEF LaunchFailEncode, LaunchFailCommit, LaunchFailWait
    <3> QED BY <3>1, LaunchReleaseCounts DEF Abandon, graphVars
  <2> QED BY <1>4, <2>1, <2>2, <2>3, <2>4, <2>5, <2>6 DEF HostStep
<1>5. ASSUME CallerStep PROVE RefCountExact'
  <2>1. ASSUME NEW e \in Execs, NEW made \in BOOLEAN, Instantiate(e, made) PROVE RefCountExact'
    <3>1. nodes[e] = <<>>
      BY <2>1 DEF Instantiate, Fresh
    <3> QED BY <2>1, <3>1, InstantiateCounts
  <2>2. ASSUME NEW e \in Execs, GraphDestroy(e) \/ ExecDestroy(e) PROVE RefCountExact'
    BY <2>2, GraphDestroyCounts, ExecDestroyCounts
  <2>3. ASSUME NEW e \in Execs, Patch(e) PROVE RefCountExact'
    <3>1. CASE \E on \in BOOLEAN : SetOptimizationFlags(e, on)
      BY <1>1, <3>1 DEF SetOptimizationFlags, graphVars, launchVars, refVars
    <3> QED BY <1>0, <2>3, <3>1, PatchForm, PatchedCounts
  <2>4. ASSUME NEW e \in Execs, NEW s \in Streams, NEW l \in Launches, LaunchBegin(e, s, l)
        PROVE  RefCountExact'
    BY <1>1, <2>4 DEF LaunchBegin, graphVars, refVars
  <2>5. ASSUME NEW l \in Launches, SyncRejected(l) \/ SyncBegin(l) PROVE RefCountExact'
    BY <1>1, <2>5 DEF SyncRejected, SyncBegin, graphVars, execVars, launchVars, refVars
  <2>6. ASSUME NEW l \in Launches, LaunchDestroy(l) PROVE RefCountExact'
    BY <2>6, LaunchReleaseCounts DEF LaunchDestroy, graphVars, execVars
  <2>7. ASSUME NEW o \in Objects, HandleDestroy(o) PROVE RefCountExact'
    BY <2>7, HandleDestroyCounts
  <2> QED BY <1>5, <2>1, <2>2, <2>3, <2>4, <2>5, <2>6, <2>7 DEF CallerStep
<1>6. ASSUME NEW s \in Streams, GpuStep(s) PROVE RefCountExact'
  BY <1>1, <1>6 DEF GpuStep, GpuExecute, GpuComplete, GpuFail, GpuEnd, graphVars, execVars,
                    launchVars, refVars
<1>7. CASE UNCHANGED vars
  BY <1>1, <1>7 DEF vars, graphVars, execVars, launchVars, refVars
<1> QED BY <1>4, <1>5, <1>6, <1>7 DEF Next, Quiet

(* No patch applies to a node that declares nothing patchable.              *)
LEMMA UnpatchableDispatch ==
    ASSUME TypeOK, NEW e \in Execs, Patch(e), Len(nodes[e]) = 1, 1 \in DOMAIN nodes[e],
           nodes[e][1].kind = "dispatch", nodes[e][1].flags = {}
    PROVE  \E on \in BOOLEAN : SetOptimizationFlags(e, on)
<1>1. \A i \in 1..Len(nodes[e]) : i = 1
  OBVIOUS
<1>2. ASSUME NEW i \in 1..Len(nodes[e]), NEW v, PatchDispatchGrid(e, i, v) PROVE FALSE
  BY <1>1, <1>2 DEF PatchDispatchGrid
<1>3. ASSUME NEW i \in 1..Len(nodes[e]), NEW v, PatchDispatchScalar(e, i, v) PROVE FALSE
  BY <1>1, <1>3 DEF PatchDispatchScalar
<1>4. ASSUME NEW i \in 1..Len(nodes[e]), NEW j, NEW b, PatchDispatchBuffer(e, i, j, b) PROVE FALSE
  BY <1>1, <1>4 DEF PatchDispatchBuffer
<1>5. ASSUME NEW i \in 1..Len(nodes[e]), NEW src, NEW dst, NEW r, PatchCopyNode(e, i, src, dst, r) PROVE FALSE
  BY <1>1, <1>5 DEF PatchCopyNode, Patchable
<1>6. ASSUME NEW i \in 1..Len(nodes[e]), NEW dst, NEW r, NEW v, PatchFillNode(e, i, dst, r, v) PROVE FALSE
  BY <1>1, <1>6 DEF PatchFillNode, Patchable
<1>7. ASSUME NEW i \in 1..Len(nodes[e]), NEW v, PatchEventValue(e, i, v) PROVE FALSE
  BY <1>1, <1>7 DEF PatchEventValue
<1> QED BY <1>1, <1>2, <1>3, <1>4, <1>5, <1>6, <1>7, Zenon DEF Patch

(* What a launch writes in the plan is not what the plan recorded.          *)
LEMMA CapturedKept ==
    ASSUME NEW plan \in IcbRecord
    PROVE  /\ LaunchDiagnostics(plan).captured = plan.captured
           /\ IcbDone(plan).captured = plan.captured
           /\ \A on \in BOOLEAN : [plan EXCEPT !.enabled = on].captured = plan.captured
<1>1. IcbDone(plan).captured = plan.captured
  BY DEF IcbDone, IcbRecord
<1>2. \A on \in BOOLEAN : [plan EXCEPT !.enabled = on].captured = plan.captured
  BY DEF IcbRecord
<1>3. LaunchDiagnostics(plan).captured = plan.captured
  BY DEF LaunchDiagnostics, IcbRecord
<1> QED BY <1>1, <1>2, <1>3

(* The plan of an exec captures the command of its only node, which         *)
(* declares nothing patchable.                                              *)
LEMMA PlanCaptures ==
    ASSUME NEW ns \in Seq(Node), NEW made \in BOOLEAN, IcbPlan(ns, made).built
    PROVE  /\ 1 \in DOMAIN ns /\ ns[1].kind = "dispatch" /\ ns[1].flags = {}
           /\ IcbPlan(ns, made).captured = <<CommandOf(ns[1])>>
<1>1. Len(ns) = 1 /\ IcbReason(ns, made) = "none"
  BY DEF IcbPlan
<1>2. 1 \in DOMAIN ns
  BY <1>1
<1>3. ns[1].kind = "dispatch" /\ ns[1].flags = {}
  BY <1>1 DEF IcbReason
<1>4. IcbPlan(ns, made).captured = <<CommandOf(ns[1])>>
  BY <1>1 DEF IcbPlan
<1> QED BY <1>2, <1>3, <1>4

(* A step that leaves execs and what plans captured alone.                  *)
LEMMA IcbKept ==
    ASSUME IcbFaithful,
           \A e \in Execs : estate'[e] = "live" => estate[e] = "live" /\ nodes'[e] = nodes[e],
           \A e \in Execs : icb'[e].built = icb[e].built /\ icb'[e].captured = icb[e].captured
    PROVE  IcbFaithful'
BY DEF IcbFaithful

(* No step makes the recorded command differ from the node: in particular a *)
(* patch of an exec with an indirect command buffer can only switch the     *)
(* optimization flags.                                                      *)
LEMMA IcbFaithfulStep ==
    ASSUME LaunchInv, IcbFaithful, [Next]_vars
    PROVE  IcbFaithful'
<1>0. TypeOK /\ IcbConsistent /\ CallConsistent
  BY DEF LaunchInv
<1> DEFINE Kept == /\ \A e \in Execs : estate'[e] = "live" => estate[e] = "live" /\ nodes'[e] = nodes[e]
                   /\ \A e \in Execs : icb'[e].built = icb[e].built /\ icb'[e].captured = icb[e].captured
<1>1. ASSUME Kept PROVE IcbFaithful'
  BY <1>1, IcbKept
<1>2. ASSUME UNCHANGED <<estate, nodes, icb>> PROVE IcbFaithful'
  BY <1>2 DEF IcbFaithful
<1>3. ASSUME NEW e \in Execs, NEW plan, plan.built = icb[e].built, plan.captured = icb[e].captured,
             icb' = [icb EXCEPT ![e] = plan], UNCHANGED <<estate, nodes>>
      PROVE  IcbFaithful'
  <2>1. \A d \in Execs : icb'[d] = IF d = e THEN plan ELSE icb[d]
    BY <1>0, <1>3 DEF TypeOK
  <2>2. \A d \in Execs : icb'[d].built = icb[d].built /\ icb'[d].captured = icb[d].captured
    BY <1>3, <2>1
  <2> QED BY <1>1, <1>3, <2>2
<1>4. \A e \in Execs : icb[e] \in IcbRecord
  BY <1>0 DEF TypeOK
<1>5. ASSUME NEW e \in Execs, NEW made \in BOOLEAN, Instantiate(e, made) PROVE IcbFaithful'
  <2>1. graph[e] \in Seq(Node)
    BY <1>0 DEF TypeOK
  <2>2. /\ nodes'[e] = graph[e] /\ icb'[e] = IcbPlan(graph[e], made)
        /\ \A d \in Execs : d # e => nodes'[d] = nodes[d] /\ icb'[d] = icb[d] /\ estate'[d] = estate[d]
    BY <1>0, <1>5 DEF Instantiate, TypeOK
  <2>3. ASSUME NEW d \in Execs, estate'[d] = "live", icb'[d].built
        PROVE  /\ 1 \in DOMAIN nodes'[d] /\ nodes'[d][1].kind = "dispatch" /\ nodes'[d][1].flags = {}
               /\ icb'[d].captured = <<CommandOf(nodes'[d][1])>>
    <3>1. CASE d = e
      BY <2>1, <2>2, <2>3, <3>1, PlanCaptures
    <3>2. CASE d # e
      BY <2>2, <2>3, <3>2 DEF IcbFaithful
    <3> QED BY <3>1, <3>2
  <2> QED BY <2>3 DEF IcbFaithful, CommandOf
<1>6. ASSUME NEW e \in Execs, ExecDestroy(e) PROVE IcbFaithful'
  <2>1. \A d \in Execs : /\ estate'[d] = IF d = e THEN "destroyed" ELSE estate[d]
                         /\ nodes'[d] = IF d = e THEN <<>> ELSE nodes[d]
    BY <1>0, <1>6 DEF ExecDestroy, TypeOK
  <2>2. icb' = icb
    BY <1>6 DEF ExecDestroy
  <2> QED BY <1>1, <2>1, <2>2
<1>7. ASSUME NEW e \in Execs, NEW on \in BOOLEAN, SetOptimizationFlags(e, on) PROVE IcbFaithful'
  <2>1. icb' = [icb EXCEPT ![e] = [icb[e] EXCEPT !.enabled = on]] /\ UNCHANGED <<estate, nodes>>
    BY <1>7 DEF SetOptimizationFlags
  <2>2. [icb[e] EXCEPT !.enabled = on].built = icb[e].built
    BY <1>4, IcbUpdateEnabled
  <2>3. [icb[e] EXCEPT !.enabled = on].captured = icb[e].captured
    BY <1>4, CapturedKept
  <2> QED BY <1>3, <2>1, <2>2, <2>3
<1>8. ASSUME NEW e \in Execs, Patch(e) PROVE IcbFaithful'
  <2>1. estate[e] = "live"
    BY <1>0, <1>8, PatchForm
  <2>2. CASE icb[e].built
    <3>1. Len(nodes[e]) = 1 /\ 1 \in DOMAIN nodes[e] /\ nodes[e][1].kind = "dispatch" /\ nodes[e][1].flags = {}
      BY <1>0, <2>1, <2>2 DEF IcbFaithful, IcbConsistent
    <3> QED BY <1>0, <1>7, <1>8, <3>1, UnpatchableDispatch
  <2>3. CASE ~icb[e].built
    <3>1. ASSUME NEW i \in DOMAIN nodes[e], NEW n \in Node, Patched(e, i, n) PROVE IcbFaithful'
      <4>1. /\ nodes' = [nodes EXCEPT ![e] = [nodes[e] EXCEPT ![i] = n]]
            /\ UNCHANGED <<estate, icb>>
        BY <3>1 DEF Patched
      <4>2. \A d \in Execs : d # e => nodes'[d] = nodes[d]
        BY <1>0, <4>1 DEF TypeOK
      <4> QED BY <2>3, <4>1, <4>2 DEF IcbFaithful
    <3> QED BY <1>0, <1>7, <1>8, <3>1, PatchForm
  <2> QED BY <2>2, <2>3
<1>9. ASSUME NEW e \in Execs, NEW s \in Streams, NEW l \in Launches, LaunchBegin(e, s, l)
      PROVE  IcbFaithful'
  BY <1>3, <1>4, <1>9, CapturedKept, LaunchDiagnosticsType DEF LaunchBegin
<1>10. ASSUME NEW l \in Launches, call.op = "icb", call.l = l,
              icb' = [icb EXCEPT ![lexec[l]] = IcbDone(icb[lexec[l]])], UNCHANGED <<estate, nodes>>
       PROVE  IcbFaithful'
  <2>1. lexec[l] \in Execs
    BY <1>0, <1>10 DEF CallConsistent
  <2> QED BY <1>3, <1>4, <1>10, <2>1, CapturedKept, IcbDoneType
<1>11. ASSUME NEW l \in Launches, HostStep(l) PROVE IcbFaithful'
  <2>1. CASE LaunchIcb(l)
    BY <1>10, <2>1 DEF LaunchIcb, Encoding
  <2>2. CASE LaunchFailCommit(l)
    <3>1. UNCHANGED <<estate, nodes>>
      BY <2>2 DEF LaunchFailCommit, Abandon
    <3> QED BY <1>2, <1>10, <2>2, <3>1 DEF LaunchFailCommit, Encoding
  <2>3. CASE LaunchFailEncode(l) \/ LaunchFailWait(l)
    BY <1>2, <2>3 DEF LaunchFailEncode, LaunchFailWait, Abandon
  <2>4. CASE EncodeNode(l) \/ EncodeMps(l) \/ CommitBeforeMps(l) \/ WaitBeforeMps(l)
    BY <1>2, <2>4 DEF EncodeNode, EncodeMps, CommitBeforeMps, WaitBeforeMps, execVars
  <2>5. CASE LaunchReturn(l) \/ SyncWait(l) \/ SyncReturn(l)
    BY <1>2, <2>5 DEF LaunchReturn, SyncWait, SyncReturn, execVars
  <2> QED BY <1>11, <2>1, <2>2, <2>3, <2>4, <2>5 DEF HostStep
<1>12. ASSUME NEW e \in Execs, GraphDestroy(e) PROVE IcbFaithful'
  BY <1>2, <1>12 DEF GraphDestroy, execVars
<1>13. ASSUME NEW l \in Launches, SyncRejected(l) \/ SyncBegin(l) \/ LaunchDestroy(l)
       PROVE  IcbFaithful'
  BY <1>2, <1>13 DEF SyncRejected, SyncBegin, LaunchDestroy, execVars
<1>14. ASSUME NEW o \in Objects, HandleDestroy(o) PROVE IcbFaithful'
  BY <1>2, <1>14 DEF HandleDestroy, execVars
<1>15. ASSUME NEW s \in Streams, GpuStep(s) PROVE IcbFaithful'
  BY <1>2, <1>15 DEF GpuStep, GpuExecute, GpuComplete, GpuFail, GpuEnd, execVars
<1>16. CASE UNCHANGED vars
  BY <1>2, <1>16 DEF vars, execVars
<1> QED BY <1>5, <1>6, <1>8, <1>9, <1>11, <1>12, <1>13, <1>14, <1>15, <1>16
        DEF Next, CallerStep, Quiet

(* What the call in progress covers while it encodes or synchronises.       *)
LEMMA CoveredNow ==
    ASSUME LaunchInv, Covered, NEW l \in Launches, call.op # "idle", call.l = l
    PROVE  /\ LaunchCovered(cbs[l], retained[l]) /\ BufferCovered(call.open, retained[l])
           /\ retained[l] \in Seq(Objects) /\ call.open \in Seq(Command)
<1>1. lstate[l] \in {"encoding", "live"}
  BY DEF LaunchInv, TypeOK, CallRecord, CallConsistent
<1>2. retained[l] \in Seq(Objects) /\ call.open \in Seq(Command)
  BY DEF LaunchInv, TypeOK, CallRecord
<1> QED BY <1>1, <1>2 DEF Covered

(* A launch retains the objects of a node in the step that encodes it,      *)
(* before the command buffer is committed.                                  *)
LEMMA HostCovered ==
    ASSUME LaunchInv, IcbFaithful, Covered, NEW l \in Launches, HostStep(l)
    PROVE  Covered'
<1>0. TypeOK /\ CallConsistent
  BY DEF LaunchInv
<1>1. call.op # "idle" /\ call.l = l
  BY DEF HostStep, LaunchIcb, EncodeNode, EncodeMps, CommitBeforeMps, WaitBeforeMps, LaunchReturn,
         LaunchFailEncode, LaunchFailCommit, LaunchFailSegment, LaunchFailWait, SyncWait,
         SyncReturn, AtNode, Encoding
<1>2. /\ LaunchCovered(cbs[l], retained[l]) /\ BufferCovered(call.open, retained[l])
      /\ retained[l] \in Seq(Objects) /\ call.open \in Seq(Command)
  BY <1>1, CoveredNow
<1>3. ASSUME NEW st, lstate' = [lstate EXCEPT ![l] = st] \/ UNCHANGED lstate,
             NEW s, retained' = [retained EXCEPT ![l] = s] \/ UNCHANGED retained,
             UNCHANGED cbs \/ \E cmds : Commit(l, cmds)
      PROVE  \A m \in Launches : m # l => cbs'[m] = cbs[m] /\ retained'[m] = retained[m]
                                             /\ lstate'[m] = lstate[m]
  BY <1>0, <1>3 DEF Commit, TypeOK
<1>4. ASSUME NEW i \in DOMAIN NodesOf(l), call.op \in {"icb", "encode", "midwait"}
      PROVE  /\ NodesOf(l)[i].objs \in Seq(Objects) /\ CommandOf(NodesOf(l)[i]) \in Command
             /\ \A cmds : BufferCovered(cmds, retained[l]) \/ BufferCovered(cmds, NodesOf(l)[i].objs)
                             => BufferCovered(cmds, retained[l] \o NodesOf(l)[i].objs)
             /\ LaunchCovered(cbs[l], retained[l] \o NodesOf(l)[i].objs)
             /\ BufferCovered(<<CommandOf(NodesOf(l)[i])>>, retained[l] \o NodesOf(l)[i].objs)
  <2>1. NodesOf(l) \in Seq(Node)
    BY <1>0, <1>1, <1>4 DEF CallConsistent, TypeOK, NodesOf
  <2>2. NodesOf(l)[i] \in Node
    BY <1>4, <2>1
  <2>3. NodesOf(l)[i].objs \in Seq(Objects)
    BY <2>2 DEF Node
  <2>4. \A cmds : BufferCovered(cmds, retained[l]) \/ BufferCovered(cmds, NodesOf(l)[i].objs)
                    => BufferCovered(cmds, retained[l] \o NodesOf(l)[i].objs)
    BY <1>2, <2>3, CoveredJoined
  <2>5. LaunchCovered(cbs[l], retained[l] \o NodesOf(l)[i].objs)
    BY <1>2, <2>3, LaunchCoveredJoined
  <2>6. BufferCovered(<<CommandOf(NodesOf(l)[i])>>, retained[l] \o NodesOf(l)[i].objs)
    BY <2>4, CommandUses
  <2> QED BY <2>2, <2>3, <2>4, <2>5, <2>6, CommandOfType
<1>5. ASSUME NEW objs, RetainForLaunch(l, objs)
      PROVE  retained'[l] = retained[l] \o objs /\ retained' = [retained EXCEPT ![l] = retained[l] \o objs]
  BY <1>0, <1>5 DEF RetainForLaunch, TypeOK
<1>6. NoCall.op = "idle"
  BY DEF NoCall
<1>7. CASE LaunchIcb(l)
  <2>1. /\ call.op = "icb" /\ Commit(l, icb[lexec[l]].captured) /\ call' = NoCall
        /\ RetainForLaunch(l, NodesOf(l)[1].objs) /\ lstate' = [lstate EXCEPT ![l] = "live"]
    BY <1>7 DEF LaunchIcb, Encoding, Returned, NodesOf
  <2>2. /\ 1 \in DOMAIN NodesOf(l) /\ icb[lexec[l]].captured = <<CommandOf(NodesOf(l)[1])>>
    BY <1>0, <1>1, <2>1 DEF CallConsistent, IcbFaithful, NodesOf
  <2>3. /\ LaunchCovered(cbs[l], retained'[l])
        /\ BufferCovered(icb[lexec[l]].captured, retained'[l])
    <3>1. retained'[l] = retained[l] \o NodesOf(l)[1].objs
      BY <1>5, <2>1
    <3>2. /\ LaunchCovered(cbs[l], retained[l] \o NodesOf(l)[1].objs)
          /\ BufferCovered(<<CommandOf(NodesOf(l)[1])>>, retained[l] \o NodesOf(l)[1].objs)
      BY <1>4, <2>1, <2>2
    <3> QED BY <2>2, <3>1, <3>2
  <2>4. LaunchCovered(cbs'[l], retained'[l])
    BY <1>0, <2>1, <2>3, CommitCovered
  <2>5. \A m \in Launches : m # l => cbs'[m] = cbs[m] /\ retained'[m] = retained[m]
                                        /\ lstate'[m] = lstate[m]
    BY <1>3, <1>5, <2>1
  <2> QED BY <1>6, <2>1, <2>4, <2>5, CoveredStep
<1>8. CASE EncodeNode(l)
  <2> DEFINE n == NodesOf(l)[call.i]
  <2>1. /\ call.op = "encode" /\ call.i \in DOMAIN NodesOf(l) /\ RetainForLaunch(l, n.objs)
        /\ UNCHANGED <<cbs, lstate>>
        /\ call' = [call EXCEPT !.i = @ + 1,
                                !.open = IF Encodes(n) THEN Append(@, CommandOf(n)) ELSE @,
                                !.work = @ \/ MarksWork(n)]
    BY <1>8 DEF EncodeNode, AtNode, Encoding, gpuVars
  <2>2. call \in CallRecord
    BY <1>0 DEF TypeOK
  <2>3. /\ call'.l = l
        /\ call'.open = IF Encodes(n) THEN Append(call.open, CommandOf(n)) ELSE call.open
    <3> HIDE DEF n
    <3> QED BY <1>1, <2>1, <2>2 DEF CallRecord
  <2>4. /\ BufferCovered(call.open, retained'[l]) /\ BufferCovered(<<CommandOf(n)>>, retained'[l])
        /\ LaunchCovered(cbs[l], retained'[l]) /\ CommandOf(n) \in Command
    BY <1>2, <1>4, <1>5, <2>1
  <2>5. BufferCovered(Append(call.open, CommandOf(n)), retained'[l])
    BY <1>2, <2>4, AppendedUses
  <2>6. \A m \in Launches : m # l => cbs'[m] = cbs[m] /\ retained'[m] = retained[m]
                                        /\ lstate'[m] = lstate[m]
    BY <1>3, <1>5, <2>1
  <2> HIDE DEF n
  <2>7. LaunchCovered(cbs'[l], retained'[l]) /\ BufferCovered(call'.open, retained'[l])
    BY <2>1, <2>3, <2>4, <2>5
  <2> QED BY <2>3, <2>6, <2>7, CoveredStep
<1>9. CASE EncodeMps(l)
  <2> DEFINE n == NodesOf(l)[call.i]
  <2>1. /\ call.op = "encode" /\ call.i \in DOMAIN NodesOf(l) /\ RetainForLaunch(l, n.objs)
        /\ Commit(l, <<CommandOf(n)>>) /\ UNCHANGED lstate
        /\ call' = [call EXCEPT !.i = call.i + 1]
    BY <1>9 DEF EncodeMps, AtNode, Encoding
  <2>2. call \in CallRecord
    BY <1>0 DEF TypeOK
  <2>3. call'.l = l /\ call'.open = call.open
    <3> HIDE DEF n
    <3> QED BY <1>1, <2>1, <2>2 DEF CallRecord
  <2>4. /\ BufferCovered(call.open, retained'[l]) /\ BufferCovered(<<CommandOf(n)>>, retained'[l])
        /\ LaunchCovered(cbs[l], retained'[l])
    BY <1>2, <1>4, <1>5, <2>1
  <2>5. LaunchCovered(cbs'[l], retained'[l])
    BY <1>0, <2>1, <2>4, CommitCovered
  <2>6. \A m \in Launches : m # l => cbs'[m] = cbs[m] /\ retained'[m] = retained[m]
                                        /\ lstate'[m] = lstate[m]
    BY <1>3, <1>5, <2>1
  <2> HIDE DEF n
  <2> QED BY <2>3, <2>4, <2>5, <2>6, CoveredStep
<1>10. CASE CommitBeforeMps(l)
  <2>1. /\ Commit(l, call.open) /\ UNCHANGED <<retained, lstate>>
        /\ call' = [call EXCEPT !.op = "midwait", !.open = <<>>, !.work = FALSE]
    BY <1>10 DEF CommitBeforeMps, launchVars
  <2>2. call'.l = l /\ call'.open = <<>>
    BY <1>0, <1>1, <2>1 DEF TypeOK, CallRecord
  <2>3. BufferCovered(<<>>, retained'[l])
    BY DEF BufferCovered, Uses
  <2>4. LaunchCovered(cbs'[l], retained'[l])
    BY <1>0, <1>2, <2>1, CommitCovered
  <2>5. \A m \in Launches : m # l => cbs'[m] = cbs[m] /\ retained'[m] = retained[m]
                                        /\ lstate'[m] = lstate[m]
    BY <1>3, <2>1
  <2> QED BY <2>2, <2>3, <2>4, <2>5, CoveredStep
<1>11. CASE WaitBeforeMps(l) \/ SyncWait(l)
  <2>1. UNCHANGED <<cbs, retained, lstate>>
    BY <1>11 DEF WaitBeforeMps, SyncWait, launchVars, gpuVars
  <2>2. call'.l = l /\ call'.open = call.open
    BY <1>0, <1>1, <1>11 DEF WaitBeforeMps, SyncWait, TypeOK, CallRecord
  <2> QED BY <1>2, <2>1, <2>2, CoveredStep
<1>12. CASE LaunchReturn(l)
  <2>1. /\ call' = NoCall /\ UNCHANGED retained /\ lstate' = [lstate EXCEPT ![l] = "live"]
        /\ Commit(l, call.open) \/ UNCHANGED cbs
    BY <1>12 DEF LaunchReturn, Returned, gpuVars
  <2>2. LaunchCovered(cbs'[l], retained'[l])
    BY <1>0, <1>2, <2>1, CommitCovered
  <2>3. \A m \in Launches : m # l => cbs'[m] = cbs[m] /\ retained'[m] = retained[m]
                                        /\ lstate'[m] = lstate[m]
    BY <1>3, <2>1
  <2> QED BY <1>6, <2>1, <2>2, <2>3, CoveredStep
<1>13. CASE LaunchFailEncode(l) \/ LaunchFailCommit(l) \/ LaunchFailWait(l)
  <2>1. /\ lstate' = [lstate EXCEPT ![l] = "failed"] /\ retained' = [retained EXCEPT ![l] = <<>>]
        /\ call' = NoCall
    BY <1>13 DEF LaunchFailEncode, LaunchFailCommit, LaunchFailWait, Abandon
  <2>2. UNCHANGED cbs \/ \E cmds : Commit(l, cmds)
    BY <1>13 DEF LaunchFailEncode, LaunchFailCommit, LaunchFailSegment, LaunchFailWait, gpuVars
  <2>3. \A m \in Launches : m # l => cbs'[m] = cbs[m] /\ retained'[m] = retained[m]
                                        /\ lstate'[m] = lstate[m]
    BY <1>3, <2>1, <2>2
  <2>4. lstate'[l] = "failed"
    BY <1>0, <2>1 DEF TypeOK
  <2> QED BY <1>6, <2>1, <2>3, <2>4, CoveredStep
<1>14. CASE SyncReturn(l)
  <2>1. call' = NoCall /\ UNCHANGED <<cbs, retained, lstate>>
    BY <1>14 DEF SyncReturn, gpuVars
  <2> QED BY <1>2, <1>6, <2>1, CoveredStep
<1> QED BY <1>7, <1>8, <1>9, <1>10, <1>11, <1>12, <1>13, <1>14 DEF HostStep

(* Nothing else makes a command buffer use, or a launch release, anything.  *)
LEMMA CoveredKept ==
    ASSUME LaunchInv, Fresh, IcbFaithful, Covered, [Next]_vars
    PROVE  Covered'
<1>0. TypeOK /\ QueueConsistent /\ NoCall.op = "idle"
  BY DEF LaunchInv, NoCall
<1>1. ASSUME UNCHANGED <<cbs, retained, lstate, call>> PROVE Covered'
  BY <1>1 DEF Covered
<1>2. ASSUME NEW s \in Streams, GpuStep(s) PROVE Covered'
  <2>1. UNCHANGED <<retained, lstate, call>>
    BY <1>2 DEF GpuStep, GpuExecute, GpuComplete, GpuFail, GpuEnd, launchVars
  <2>2. PICK m \in Launches :
           \E k \in DOMAIN cbs[m] : \E cb \in CommandBuffer :
              /\ cbs' = [cbs EXCEPT ![m] = [cbs[m] EXCEPT ![k] = cb]]
              /\ cb.cmds = cbs[m][k].cmds
    BY <1>0, <1>2, GpuChanges
  <2>3. PICK k \in DOMAIN cbs[m] :
           \E cb \in CommandBuffer :
              /\ cbs' = [cbs EXCEPT ![m] = [cbs[m] EXCEPT ![k] = cb]]
              /\ cb.cmds = cbs[m][k].cmds
    BY <2>2
  <2>4. PICK cb \in CommandBuffer :
           /\ cbs' = [cbs EXCEPT ![m] = [cbs[m] EXCEPT ![k] = cb]]
           /\ cb.cmds = cbs[m][k].cmds
    BY <2>3
  <2>5. ASSUME NEW l \in Launches
        PROVE  /\ DOMAIN cbs'[l] = DOMAIN cbs[l]
               /\ \A j \in DOMAIN cbs[l] : cbs'[l][j].cmds = cbs[l][j].cmds
    <3>1. cbs'[l] = IF l = m THEN [cbs[m] EXCEPT ![k] = cb] ELSE cbs[l]
      BY <1>0, <2>4 DEF TypeOK
    <3> QED BY <2>4, <3>1
  <2> QED BY <2>1, <2>5 DEF Covered, LaunchCovered
<1>3. ASSUME NEW e \in Execs, NEW s \in Streams, NEW l \in Launches, LaunchBegin(e, s, l)
      PROVE  Covered'
  <2>1. /\ cbs[l] = <<>> /\ UNCHANGED <<cbs, retained>>
        /\ lstate' = [lstate EXCEPT ![l] = "encoding"]
    BY <1>3 DEF LaunchBegin, Fresh, gpuVars
  <2>2. call'.l = l /\ call'.open = <<>>
    BY <1>3 DEF LaunchBegin, NoCall
  <2>3. BufferCovered(<<>>, retained'[l]) /\ LaunchCovered(<<>>, retained'[l])
    BY DEF BufferCovered, Uses, LaunchCovered
  <2>4. \A m \in Launches : m # l => lstate'[m] = lstate[m]
    BY <1>0, <2>1 DEF TypeOK
  <2> QED BY <2>1, <2>2, <2>3, <2>4, CoveredStep
<1>4. ASSUME NEW l \in Launches, SyncBegin(l) PROVE Covered'
  <2>1. lstate[l] = "live" /\ UNCHANGED <<cbs, retained, lstate>>
    BY <1>4 DEF SyncBegin, gpuVars, launchVars
  <2>2. call'.l = l /\ call'.open = <<>>
    BY <1>4 DEF SyncBegin, NoCall
  <2>3. BufferCovered(<<>>, retained'[l]) /\ LaunchCovered(cbs[l], retained[l])
    BY <2>1 DEF BufferCovered, Uses, Covered
  <2> QED BY <2>1, <2>2, <2>3, CoveredStep
<1>5. ASSUME NEW l \in Launches, LaunchDestroy(l) PROVE Covered'
  <2>1. /\ UNCHANGED <<cbs, call>> /\ call.op = "idle"
        /\ lstate' = [lstate EXCEPT ![l] = "destroyed"] /\ retained' = [retained EXCEPT ![l] = <<>>]
    BY <1>5 DEF LaunchDestroy, gpuVars, Idle
  <2>2. lstate'[l] = "destroyed" /\ \A m \in Launches : m # l => retained'[m] = retained[m]
                                                                /\ lstate'[m] = lstate[m]
    BY <1>0, <2>1 DEF TypeOK
  <2> QED BY <2>1, <2>2, CoveredStep
<1>6. ASSUME NEW l \in Launches, SyncRejected(l) PROVE Covered'
  BY <1>1, <1>6 DEF SyncRejected, gpuVars
<1>7. ASSUME NEW e \in Execs, NEW made \in BOOLEAN, Instantiate(e, made) PROVE Covered'
  BY <1>1, <1>7 DEF Instantiate, launchVars, gpuVars
<1>8. ASSUME NEW e \in Execs, GraphDestroy(e) \/ ExecDestroy(e) PROVE Covered'
  BY <1>1, <1>8 DEF GraphDestroy, ExecDestroy, launchVars, gpuVars
<1>9. ASSUME NEW e \in Execs, Patch(e) PROVE Covered'
  BY <1>0, <1>1, <1>9, PatchForm DEF SetOptimizationFlags, Patched, launchVars, gpuVars
<1>10. ASSUME NEW o \in Objects, HandleDestroy(o) PROVE Covered'
  BY <1>1, <1>10 DEF HandleDestroy, launchVars, gpuVars
<1>11. CASE UNCHANGED vars
  BY <1>1, <1>11 DEF vars, launchVars, gpuVars
<1> QED BY <1>2, <1>3, <1>4, <1>5, <1>6, <1>7, <1>8, <1>9, <1>10, <1>11, HostCovered
        DEF Next, CallerStep, Quiet

-----------------------------------------------------------------------------
(* The theorems.                                                            *)

(* At the start the graphs and the handles are the only holders.            *)
LEMMA RefInit == Init => RefInv
<1> SUFFICES ASSUME Init PROVE RefInv
  OBVIOUS
<1>1. LaunchInv
  BY InitInv
<1>2. Fresh
  BY DEF Init, Fresh
<1>3. IcbFaithful
  BY DEF Init, IcbFaithful
<1>4. Covered
  BY DEF Init, Covered, NoCall
<1>5. ASSUME NEW o \in Objects
      PROVE  ref_count[o] = (IF handle[o] THEN 1 ELSE 0) + Cardinality(GraphsHold(o))
                              + Cardinality(ExecsHold(o)) + Cardinality(LaunchesHold(o))
  <2>1. ExecsHold(o) = {}
    BY DEF Init, ExecsHold, NodeSlots
  <2>2. LaunchesHold(o) = {}
    BY DEF Init, LaunchesHold
  <2>3. Cardinality(ExecsHold(o)) = 0 /\ Cardinality(LaunchesHold(o)) = 0
    BY <2>1, <2>2, FS_EmptySet
  <2>4. Cardinality(GraphsHold(o)) \in Nat
    BY <1>1, HoldersCounted DEF LaunchInv
  <2>5. handle[o] /\ ref_count[o] = 1 + Cardinality(GraphsHold(o))
    BY DEF Init
  <2> QED BY <2>3, <2>4, <2>5
<1>6. RefCountExact
  BY <1>5 DEF RefCountExact
<1> QED BY <1>1, <1>2, <1>3, <1>4, <1>6 DEF RefInv

(* Every step preserves the invariant.                                      *)
LEMMA RefStep == RefInv /\ [Next]_vars => RefInv'
<1> SUFFICES ASSUME RefInv, [Next]_vars PROVE RefInv'
  OBVIOUS
<1>1. LaunchInv /\ Fresh /\ IcbFaithful /\ Covered /\ RefCountExact
  BY DEF RefInv
<1>2. LaunchInv'
  BY <1>1, TypeStep, CallStep, QueueStep, IcbStep, AccountingStep DEF LaunchInv
<1>3. Fresh' /\ IcbFaithful' /\ Covered' /\ RefCountExact'
  BY <1>1, FreshStep, IcbFaithfulStep, CoveredKept, RefCountStep
<1> QED BY <1>2, <1>3 DEF RefInv

(* The invariant behind the two theorems below.                             *)
THEOREM RefInvariant == Spec => []RefInv
BY RefInit, RefStep, PTL DEF Spec

(* RefCountExact: at every moment the ref_count of every buffer and event   *)
(* is the number of its holders, for any number of objects, execs and       *)
(* launches, whatever is patched, given up half way or destroyed in         *)
(* whatever order. No count is leaked, and none reaches zero under a        *)
(* holder.                                                                  *)
THEOREM RefCountsExact == Spec => []RefCountExact
<1>1. RefInv => RefCountExact
  BY DEF RefInv
<1> QED BY <1>1, RefInvariant, PTL

(* A launch that covers its command buffers counts among the holders of     *)
(* what they use, so the counts are positive.                               *)
LEMMA CoveredAlive ==
    ASSUME RefInv
    PROVE  RetainedWhileInFlight
<1>0. TypeOK
  BY DEF RefInv, LaunchInv
<1>1. ASSUME NEW l \in Launches, lstate[l] \in {"encoding", "live"}, NEW k \in DOMAIN cbs[l],
             NEW o \in UsedBy(cbs[l][k])
      PROVE  ref_count[o] > 0
  <2>1. cbs[l][k] \in CommandBuffer
    BY <1>0 DEF TypeOK
  <2>2. PICK i \in DOMAIN cbs[l][k].cmds : \E j \in DOMAIN cbs[l][k].cmds[i].objs :
                                             cbs[l][k].cmds[i].objs[j] = o
    BY DEF UsedBy
  <2>3. cbs[l][k].cmds[i] \in Command
    BY <2>1 DEF CommandBuffer
  <2>4. cbs[l][k].cmds[i].objs \in Seq(Objects)
    BY <2>3 DEF Command
  <2>5. o \in Objects /\ Uses(cbs[l][k].cmds, o)
    BY <2>2, <2>4 DEF Uses
  <2>6. PICK j \in DOMAIN retained[l] : retained[l][j] = o
    BY <1>1, <2>5 DEF RefInv, Covered, LaunchCovered, BufferCovered, Lists
  <2>7. <<l, j>> \in LaunchesHold(o)
    BY <2>6 DEF LaunchesHold
  <2>8. /\ IsFiniteSet(LaunchesHold(o)) /\ Cardinality(LaunchesHold(o)) \in Nat
        /\ Cardinality(GraphsHold(o)) \in Nat /\ Cardinality(ExecsHold(o)) \in Nat
    BY <1>0, HoldersCounted
  <2>9. Cardinality(LaunchesHold(o)) # 0
    BY <2>7, <2>8, FS_EmptySet
  <2>10. ref_count[o] = (IF handle[o] THEN 1 ELSE 0) + Cardinality(GraphsHold(o))
                          + Cardinality(ExecsHold(o)) + Cardinality(LaunchesHold(o))
    BY <2>5 DEF RefInv, RefCountExact
  <2> QED BY <2>8, <2>9, <2>10
<1> QED BY <1>1 DEF RetainedWhileInFlight

(* RetainedWhileInFlight: what a submitted command buffer of a launch the   *)
(* caller holds uses is alive, whatever was destroyed or patched since.     *)
THEOREM InFlightRetained == Spec => []RetainedWhileInFlight
<1>1. RefInv => RetainedWhileInFlight
  BY CoveredAlive
<1> QED BY <1>1, RefInvariant, PTL

=============================================================================
