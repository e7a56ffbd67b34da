--------------------------- MODULE GraphBuildProofs ---------------------------
(***************************************************************************)
(* Proofs about GraphBuild: references are exact at every allocation,      *)
(* nothing leaks, the node array has room, and every call happens whole or *)
(* not at all (BuildContract).                                             *)
(***************************************************************************)
EXTENDS GraphBuild, FiniteSetTheorems, TLAPS

(* The objects in a list, and the places of one of them.                    *)
Items(s) == {s[k] : k \in DOMAIN s}
Places(s, o) == {k \in DOMAIN s : s[k] = o}

(* The slots of an object in a list of nodes.                               *)
Slots(ns, o) == {p \in UNION {{i} \X DOMAIN ns[i].held : i \in DOMAIN ns} : ns[p[1]].held[p[2]] = o}

-----------------------------------------------------------------------------
(* Counting.                                                                *)

(* The places of an object are finitely many, and some exactly if it is in  *)
(* the list.                                                                *)
LEMMA PlacesFinite ==
    ASSUME NEW s \in Seq(Objects), NEW o
    PROVE  /\ IsFiniteSet(Places(s, o)) /\ Cardinality(Places(s, o)) = Occurrences(s, o)
           /\ Occurrences(s, o) \in Nat
           /\ Occurrences(s, o) = 0 <=> o \notin Items(s)
<1>1. IsFiniteSet(1..Len(s)) /\ DOMAIN s = 1..Len(s)
  BY FS_Interval
<1>2. IsFiniteSet(Places(s, o))
  BY <1>1, FS_Subset DEF Places
<1>3. Cardinality(Places(s, o)) = Occurrences(s, o)
  BY DEF Places, Occurrences
<1>4. Occurrences(s, o) \in Nat
  BY <1>2, <1>3, FS_CardinalityType
<1>5. Places(s, o) = {} <=> o \notin Items(s)
  BY DEF Places, Items
<1>6. Cardinality(Places(s, o)) = 0 <=> Places(s, o) = {}
  BY <1>2, FS_EmptySet
<1> QED BY <1>2, <1>3, <1>4, <1>5, <1>6

(* An object occurs in a joined list as often as in its parts.              *)
LEMMA OccurrencesJoined ==
    ASSUME NEW s \in Seq(Objects), NEW t \in Seq(Objects), NEW o
    PROVE  Occurrences(s \o t, o) = Occurrences(s, o) + Occurrences(t, o)
<1> DEFINE n == Len(s)
           A == Places(s, o)
           B == Places(t, o)
           C == {n + i : i \in B}
<1>1. n \in Nat /\ Len(t) \in Nat /\ DOMAIN s = 1..n /\ DOMAIN t = 1..Len(t)
      /\ DOMAIN (s \o t) = 1..(n + Len(t)) /\ s \o t \in Seq(Objects)
      /\ (\A i \in 1..n : (s \o t)[i] = s[i]) /\ \A i \in 1..Len(t) : (s \o t)[n + i] = t[i]
  OBVIOUS
<1>2. Places(s \o t, o) = A \cup C
  <2>1. ASSUME NEW i \in Places(s \o t, o) PROVE i \in A \cup C
    <3>1. i \in 1..(n + Len(t)) /\ (s \o t)[i] = o
      BY <1>1, <2>1 DEF Places
    <3>2. CASE i \in 1..n
      BY <1>1, <3>1, <3>2 DEF Places
    <3>3. CASE i \notin 1..n
      <4>1. i - n \in 1..Len(t) /\ n + (i - n) = i
        BY <1>1, <3>1, <3>3
      <4>2. t[i - n] = o
        BY <1>1, <3>1, <4>1
      <4> QED BY <1>1, <4>1, <4>2 DEF Places
    <3> QED BY <3>2, <3>3
  <2>2. A \subseteq Places(s \o t, o)
    BY <1>1 DEF Places
  <2>3. C \subseteq Places(s \o t, o)
    BY <1>1 DEF Places
  <2> QED BY <2>1, <2>2, <2>3
<1>3. A \cap C = {}
  BY <1>1 DEF Places
<1>4. IsFiniteSet(A) /\ IsFiniteSet(B)
  BY PlacesFinite
<1>5. IsFiniteSet(C) /\ Cardinality(C) = Cardinality(B)
  <2> DEFINE f == [i \in B |-> n + i]
  <2>1. \A i, j \in B : n + i = n + j => i = j
    BY <1>1 DEF Places
  <2>2. f \in Bijection(B, C)
    BY <2>1 DEF Bijection, Injection, Surjection, IsInjective
  <2>3. ExistsBijection(B, C)
    BY <2>2 DEF ExistsBijection
  <2> QED BY <1>4, <2>3, FS_Bijection
<1> HIDE DEF A, B, C, n
<1>6. Cardinality(A \cup C) = Cardinality(A) + Cardinality(C) - Cardinality(A \cap C)
  BY <1>4, <1>5, FS_Union
<1>7. Cardinality(A \cap C) = 0
  BY <1>3, FS_EmptySet
<1>8. Cardinality(A) \in Nat /\ Cardinality(C) \in Nat
  BY <1>4, <1>5, FS_CardinalityType
<1>9. Cardinality(Places(s \o t, o)) = Cardinality(A) + Cardinality(B)
  BY <1>2, <1>5, <1>6, <1>7, <1>8
<1> QED BY <1>9 DEF A, B, Occurrences, Places

(* An object occurs once in the list of itself, and not in that of another, *)
(* nor in the empty list.                                                   *)
LEMMA OccurrencesOne ==
    ASSUME NEW p, NEW o
    PROVE  /\ Occurrences(<<p>>, o) = IF p = o THEN 1 ELSE 0
           /\ Occurrences(<<>>, o) = 0
<1>1. DOMAIN <<p>> = {1} /\ <<p>>[1] = p
  OBVIOUS
<1>2. ASSUME p = o PROVE Occurrences(<<p>>, o) = 1
  <2>1. Places(<<p>>, o) = {1}
    BY <1>1, <1>2 DEF Places
  <2> QED BY <2>1, FS_Singleton DEF Occurrences, Places
<1>3. ASSUME p # o PROVE Occurrences(<<p>>, o) = 0
  <2>1. Places(<<p>>, o) = {}
    BY <1>1, <1>3 DEF Places
  <2> QED BY <2>1, FS_EmptySet DEF Occurrences, Places
<1>4. Places(<<>>, o) = {}
  BY DEF Places
<1>5. Occurrences(<<>>, o) = 0
  BY <1>4, FS_EmptySet DEF Occurrences, Places
<1> QED BY <1>2, <1>3, <1>5

(* Appending is joining a list of one.                                      *)
LEMMA AppendJoins ==
    ASSUME NEW s \in Seq(Objects), NEW o \in Objects
    PROVE  /\ Append(s, o) \in Seq(Objects) /\ <<o>> \in Seq(Objects) /\ Append(s, o) = s \o <<o>>
           /\ Len(Append(s, o)) = Len(s) + 1 /\ DOMAIN Append(s, o) = 1..(Len(s) + 1)
           /\ Append(s, o)[Len(s) + 1] = o /\ \A k \in DOMAIN s : Append(s, o)[k] = s[k]
           /\ DOMAIN s = 1..Len(s)
OBVIOUS

(* What a list lists after joining or appending.                            *)
LEMMA ItemsJoined ==
    ASSUME NEW s \in Seq(Objects), NEW t \in Seq(Objects)
    PROVE  Items(s \o t) = Items(s) \cup Items(t)
<1>1. \A o : o \in Items(s \o t) <=> o \in Items(s) \/ o \in Items(t)
  <2> TAKE o
  <2>1. /\ Occurrences(s \o t, o) = 0 <=> o \notin Items(s \o t)
        /\ Occurrences(s, o) = 0 <=> o \notin Items(s)
        /\ Occurrences(t, o) = 0 <=> o \notin Items(t)
        /\ Occurrences(s, o) \in Nat /\ Occurrences(t, o) \in Nat
    <3>1. s \o t \in Seq(Objects) OBVIOUS
    <3> QED BY <3>1, PlacesFinite
  <2>2. Occurrences(s \o t, o) = Occurrences(s, o) + Occurrences(t, o)
    BY OccurrencesJoined
  <2> HIDE DEF Occurrences
  <2>3. Occurrences(s \o t, o) = 0 <=> Occurrences(s, o) = 0 /\ Occurrences(t, o) = 0
    BY <2>1, <2>2
  <2> QED BY <2>1, <2>3
<1> QED BY <1>1

(* The list of one object, and the empty list.                              *)
LEMMA ItemsOne ==
    ASSUME NEW o
    PROVE  Items(<<o>>) = {o} /\ Items(<<>>) = {}
BY DEF Items

(* The slots of a list of nodes are finitely many, and some exactly if a    *)
(* node lists the object.                                                   *)
LEMMA SlotsFinite ==
    ASSUME NEW ns, ns \in Seq(ExecNode) \/ ns \in Seq(Node), NEW o
    PROVE  /\ IsFiniteSet(Slots(ns, o)) /\ Cardinality(Slots(ns, o)) = HeldBy(ns, o)
           /\ HeldBy(ns, o) \in Nat
           /\ HeldBy(ns, o) = 0 <=> \A i \in DOMAIN ns : o \notin Items(ns[i].held)
<1> DEFINE Row(i) == {i} \X DOMAIN ns[i].held
           f == [i \in DOMAIN ns |-> Row(i)]
           rows == {Row(i) : i \in DOMAIN ns}
<1>1. IsFiniteSet(DOMAIN ns) /\ \A i \in DOMAIN ns : ns[i].held \in Seq(Objects)
  <2>1. IsFiniteSet(DOMAIN ns)
    BY FS_Interval, DOMAIN ns = 1..Len(ns), Len(ns) \in Int
  <2>2. CASE ns \in Seq(ExecNode)
    <3>1. \A i \in DOMAIN ns : ns[i] \in ExecNode
      BY <2>2
    <3> QED BY <2>1, <3>1 DEF ExecNode
  <2>3. CASE ns \in Seq(Node)
    <3>1. \A i \in DOMAIN ns : ns[i] \in Node
      BY <2>3
    <3> QED BY <2>1, <3>1 DEF Node
  <2> QED BY <2>2, <2>3
<1>2. \A i \in DOMAIN ns : IsFiniteSet(Row(i))
  <2> TAKE i \in DOMAIN ns
  <2>1. ns[i].held \in Seq(Objects)
    BY <1>1
  <2>2. IsFiniteSet(DOMAIN ns[i].held)
    BY <2>1, FS_Interval, DOMAIN ns[i].held = 1..Len(ns[i].held), Len(ns[i].held) \in Int
  <2>3. IsFiniteSet({i})
    BY FS_Singleton
  <2> QED BY <2>2, <2>3, FS_Product
<1>3. f \in Surjection(DOMAIN ns, rows)
  BY DEF Surjection
<1>4. IsFiniteSet(rows)
  BY <1>1, <1>3, FS_Surjection
<1>5. IsFiniteSet(UNION rows)
  BY <1>2, <1>4, FS_UNION
<1>6. Slots(ns, o) \subseteq UNION rows
  BY DEF Slots
<1>7. IsFiniteSet(Slots(ns, o))
  BY <1>5, <1>6, FS_Subset
<1>8. Cardinality(Slots(ns, o)) = HeldBy(ns, o)
  BY DEF Slots, HeldBy
<1>9. HeldBy(ns, o) \in Nat
  BY <1>7, <1>8, FS_CardinalityType
<1>10. HeldBy(ns, o) = 0 <=> Slots(ns, o) = {}
  BY <1>7, <1>8, FS_EmptySet
<1>11. Slots(ns, o) = {} <=> \A i \in DOMAIN ns : o \notin Items(ns[i].held)
  <2>1. ASSUME NEW i \in DOMAIN ns, NEW k \in DOMAIN ns[i].held, ns[i].held[k] = o
        PROVE  <<i, k>> \in Slots(ns, o)
    <3>1. <<i, k>> \in {i} \X DOMAIN ns[i].held /\ <<i, k>>[1] = i /\ <<i, k>>[2] = k
      OBVIOUS
    <3> QED BY <2>1, <3>1 DEF Slots
  <2>2. ASSUME NEW p \in Slots(ns, o)
        PROVE  \E i \in DOMAIN ns : o \in Items(ns[i].held)
    <3>1. PICK i \in DOMAIN ns : p \in {i} \X DOMAIN ns[i].held /\ ns[p[1]].held[p[2]] = o
      BY <2>2 DEF Slots
    <3>2. p[1] = i /\ p[2] \in DOMAIN ns[i].held
      BY <3>1
    <3> QED BY <3>1, <3>2 DEF Items
  <2> QED BY <2>1, <2>2 DEF Items
<1> QED BY <1>7, <1>8, <1>9, <1>10, <1>11

(* An object is held by a longer list of nodes as often as before, and as   *)
(* often as the new node lists it; by no nodes not at all.                  *)
LEMMA HeldByAppended ==
    ASSUME NEW ns, NEW n, NEW o,
           (ns \in Seq(ExecNode) /\ n \in ExecNode) \/ (ns \in Seq(Node) /\ n \in Node)
    PROVE  HeldBy(Append(ns, n), o) = HeldBy(ns, o) + Occurrences(n.held, o)
<1> DEFINE m == Len(ns) + 1
           ms == Append(ns, n)
           A == Slots(ns, o)
           B == {m} \X Places(n.held, o)
<1>1. /\ m \in Nat \ {0} /\ DOMAIN ns = 1..(m - 1) /\ DOMAIN ms = 1..m /\ ms[m] = n
      /\ \A i \in DOMAIN ns : ms[i] = ns[i]
  <2>1. CASE ns \in Seq(ExecNode)
    BY <2>1
  <2>2. CASE ns \in Seq(Node)
    BY <2>2
  <2> QED BY <2>1, <2>2
<1>2. n.held \in Seq(Objects)
  BY DEF ExecNode, Node
<1> HIDE DEF ms, m
<1>3. Slots(ms, o) = A \cup B
  <2>1. ASSUME NEW p \in Slots(ms, o) PROVE p \in A \cup B
    <3>1. PICK i \in DOMAIN ms : p \in {i} \X DOMAIN ms[i].held /\ ms[p[1]].held[p[2]] = o
      BY <2>1 DEF Slots
    <3>2. p = <<i, p[2]>> /\ p[1] = i /\ p[2] \in DOMAIN ms[i].held
      BY <3>1
    <3>3. CASE i = m
      BY <1>1, <3>1, <3>2, <3>3 DEF Places
    <3>4. CASE i # m
      <4>1. i \in DOMAIN ns /\ ms[i] = ns[i]
        BY <1>1, <3>4
      <4> QED BY <3>1, <3>2, <4>1 DEF Slots
    <3> QED BY <3>3, <3>4
  <2>2. ASSUME NEW p \in A PROVE p \in Slots(ms, o)
    <3>1. PICK i \in DOMAIN ns : p \in {i} \X DOMAIN ns[i].held /\ ns[p[1]].held[p[2]] = o
      BY <2>2 DEF Slots
    <3>2. p[1] = i /\ i \in DOMAIN ms /\ ms[i] = ns[i]
      BY <1>1, <3>1
    <3> QED BY <3>1, <3>2 DEF Slots
  <2>3. ASSUME NEW p \in B PROVE p \in Slots(ms, o)
    <3>1. p[1] = m /\ p[2] \in DOMAIN n.held /\ n.held[p[2]] = o /\ p \in {m} \X DOMAIN n.held
      BY <2>3 DEF Places
    <3>2. m \in DOMAIN ms /\ ms[m] = n
      BY <1>1
    <3> QED BY <3>1, <3>2 DEF Slots
  <2> QED BY <2>1, <2>2, <2>3
<1>4. A \cap B = {}
  <2> SUFFICES ASSUME NEW p \in A, p \in B PROVE FALSE
    OBVIOUS
  <2>1. PICK i \in DOMAIN ns : p \in {i} \X DOMAIN ns[i].held
    BY DEF Slots
  <2>2. p[1] = i /\ p[1] = m
    BY <2>1
  <2> QED BY <1>1, <2>2
<1>5. IsFiniteSet(A) /\ Cardinality(A) = HeldBy(ns, o)
  BY SlotsFinite
<1>6. IsFiniteSet(B) /\ Cardinality(B) = Occurrences(n.held, o)
  <2>1. IsFiniteSet({m}) /\ Cardinality({m}) = 1
    BY FS_Singleton
  <2>2. /\ IsFiniteSet(Places(n.held, o)) /\ Cardinality(Places(n.held, o)) = Occurrences(n.held, o)
        /\ Occurrences(n.held, o) \in Nat
    BY <1>2, PlacesFinite
  <2>3. IsFiniteSet(B) /\ Cardinality(B) = Cardinality({m}) * Cardinality(Places(n.held, o))
    BY <2>1, <2>2, FS_Product
  <2> QED BY <2>1, <2>2, <2>3
<1> HIDE DEF A, B
<1>7. Cardinality(A \cup B) = Cardinality(A) + Cardinality(B) - Cardinality(A \cap B)
  BY <1>5, <1>6, FS_Union
<1>8. Cardinality(A \cap B) = 0
  BY <1>4, FS_EmptySet
<1>9. Cardinality(A) \in Nat /\ Cardinality(B) \in Nat
  BY <1>5, <1>6, FS_CardinalityType
<1>10. Cardinality(Slots(ms, o)) = HeldBy(ns, o) + Occurrences(n.held, o)
  BY <1>3, <1>5, <1>6, <1>7, <1>8, <1>9
<1> QED BY <1>10 DEF ms, Slots, HeldBy

(* No nodes hold nothing and have no packages.                              *)
LEMMA NothingHeld ==
    ASSUME NEW o
    PROVE  HeldBy(<<>>, o) = 0 /\ Packages(<<>>) = 0
<1>1. Slots(<<>>, o) = {}
  BY DEF Slots
<1>2. {i \in DOMAIN <<>> : <<>>[i].package} = {}
  OBVIOUS
<1> QED BY <1>1, <1>2, FS_EmptySet DEF HeldBy, Slots, Packages

(* Packages are counted in naturals.                                        *)
LEMMA PackagesCounted ==
    ASSUME NEW ns \in Seq(ExecNode)
    PROVE  IsFiniteSet({i \in DOMAIN ns : ns[i].package}) /\ Packages(ns) \in Nat
<1>1. IsFiniteSet(DOMAIN ns)
  BY FS_Interval, DOMAIN ns = 1..Len(ns), Len(ns) \in Int
<1>2. IsFiniteSet({i \in DOMAIN ns : ns[i].package})
  BY <1>1, FS_Subset
<1> QED BY <1>2, FS_CardinalityType DEF Packages

(* A node that has a package adds one.                                      *)
LEMMA PackagesAppended ==
    ASSUME NEW ns \in Seq(ExecNode), NEW n \in ExecNode
    PROVE  Packages(Append(ns, n)) = Packages(ns) + IF n.package THEN 1 ELSE 0
<1> DEFINE m == Len(ns) + 1
           ms == Append(ns, n)
           A == {i \in DOMAIN ns : ns[i].package}
           C == {i \in DOMAIN ms : ms[i].package}
<1>1. /\ m \in Nat \ {0} /\ DOMAIN ns = 1..(m - 1) /\ DOMAIN ms = 1..m /\ ms[m] = n
      /\ \A i \in DOMAIN ns : ms[i] = ns[i]
  OBVIOUS
<1> HIDE DEF ms, m
<1>2. IsFiniteSet(A) /\ Cardinality(A) \in Nat
  BY PackagesCounted DEF Packages
<1>3. m \notin A
  BY <1>1
<1>4. ASSUME n.package PROVE C = A \cup {m}
  <2>1. ASSUME NEW i \in C PROVE i \in A \cup {m}
    <3>1. CASE i = m
      BY <3>1
    <3>2. CASE i # m
      BY <1>1, <2>1, <3>2
    <3> QED BY <3>1, <3>2
  <2>2. A \cup {m} \subseteq C
    BY <1>1, <1>4
  <2> QED BY <2>1, <2>2
<1>5. ASSUME ~n.package PROVE C = A
  BY <1>1, <1>5
<1> HIDE DEF A, C
<1>6. ASSUME n.package PROVE Cardinality(C) = Cardinality(A) + 1
  BY <1>2, <1>3, <1>4, <1>6, FS_AddElement
<1>7. Cardinality(C) = Cardinality(A) + IF n.package THEN 1 ELSE 0
  <2>1. CASE n.package
    BY <1>6, <2>1
  <2>2. CASE ~n.package
    BY <1>2, <1>5, <2>2
  <2> QED BY <2>1, <2>2
<1> QED BY <1>2, <1>7 DEF A, C, ms, Packages

-----------------------------------------------------------------------------
(* The invariant.                                                           *)

(* Parts and calls.                                                         *)
PartSet == [op : {"alloc", "array", "tensors", "hold", "package"}, objs : Seq(Objects)]

CallType ==
    [op : {"none", "create", "add", "clone"}, desc : Descs \cup {Barrier}, parts : Seq(PartSet),
     tensors : Seq(Objects), held : Seq(Objects), package : BOOLEAN]

(* What parts name.                                                         *)
PartsNamed(ps) == UNION {Items(ps[i].objs) : i \in DOMAIN ps}

(* A call with other parts left, tensors, references and package.           *)
With(c, parts, tensors, held, package) ==
    [op |-> c.op, desc |-> c.desc, parts |-> parts, tensors |-> tensors, held |-> held,
     package |-> package]

(* TypeOK, without the claim that no count is negative, and with the fields *)
(* of the call that it does not look at.                                    *)
Types ==
    /\ ref_count \in [Objects -> Int] /\ backend \in [Objects -> BOOLEAN]
    /\ owner \in [Objects -> BOOLEAN] /\ made \in [Objects -> BOOLEAN]
    /\ handle \in [Objects -> BOOLEAN]
    /\ galive \in BOOLEAN /\ nodes \in Seq(Node) /\ node_capacity \in Nat
    /\ estate \in {"none", "building", "live"} /\ enodes \in Seq(ExecNode) /\ packages \in Int
    /\ call \in CallType

(* Parts without references list none; tensors are copied in order.         *)
PartsOK(c) ==
    /\ \A i \in DOMAIN c.parts : c.parts[i].op \in {"alloc", "package"} => c.parts[i].objs = <<>>
    /\ c.tensors # <<>> => c.parts # <<>> /\ Head(c.parts).op = "tensors"
    /\ c.parts # <<>> =>
          /\ Len(c.tensors) <= Len(Head(c.parts).objs)
          /\ \A k \in DOMAIN c.tensors : c.tensors[k] = Head(c.parts).objs[k]

(* What a node holds so far and will still take is what it names.           *)
Covers(c) == Items(c.held) \cup Items(c.tensors) \cup PartsNamed(c.parts) = Named(c.desc)

(* The call in progress: an object that is being made is not yet handed     *)
(* out; a node that is being added names objects the caller has handles of; *)
(* one that is being copied is the next of the graph.                       *)
CallOK ==
    /\ call.op = "none" => call = NoCall
    /\ call.op = "create" =>
          /\ estate # "building"
          /\ \E o \in Objects :
                /\ call = Call("create", Barrier, <<Part("array", <<o>>)>>)
                /\ ~made[o] /\ backend[o] /\ ~owner[o]
    /\ call.op \in {"add", "clone"} => call.desc \in Descs /\ PartsOK(call) /\ Covers(call)
    /\ call.op = "add" =>
          /\ estate # "building" /\ galive /\ ~call.package
          /\ \A i \in DOMAIN call.parts : call.parts[i].op # "package"
          /\ \A o \in Named(call.desc) : handle[o]
    /\ call.op = "clone" =>
          /\ estate = "building" /\ Len(enodes) < Len(nodes)
          /\ call.desc = nodes[Len(enodes) + 1].desc

(* Nodes hold what they name; a half-built exec holds what the first nodes  *)
(* of a living graph do, and a destroyed graph or exec has no nodes.        *)
NodesOK ==
    /\ \A i \in DOMAIN nodes : nodes[i].desc \in Descs /\ Items(nodes[i].held) = Named(nodes[i].desc)
    /\ ~galive => nodes = <<>>
    /\ estate = "none" => enodes = <<>>
    /\ estate = "building" =>
          /\ galive /\ Len(enodes) <= Len(nodes)
          /\ \A i \in DOMAIN enodes : Items(enodes[i].held) = Items(nodes[i].held)

(* Only what was made is referred to.                                       *)
ObjectsOK == \A o \in Objects : ~made[o] => ref_count[o] = 0

(* A node copies at most one package, and has none before it does.          *)
OnePackage ==
    \A i \in DOMAIN call.parts : call.parts[i].op = "package" =>
        ~call.package /\ \A j \in DOMAIN call.parts : call.parts[j].op = "package" => j = i

(* The inductive invariant.                                                 *)
BuildInv ==
    /\ Types /\ CallOK /\ NodesOK /\ ObjectsOK /\ OnePackage
    /\ BuildRefsExact /\ NothingLeaks /\ CapacityHolds

-----------------------------------------------------------------------------
(* The call in progress.                                                    *)

(* A part and what is left of the parts behind it.                          *)
LEMMA FirstPart ==
    ASSUME NEW ps \in Seq(PartSet), ps # <<>>
    PROVE  /\ Head(ps) \in PartSet /\ Head(ps).objs \in Seq(Objects) /\ Head(ps) = ps[1]
           /\ 1 \in DOMAIN ps /\ Tail(ps) \in Seq(PartSet)
           /\ \A i \in DOMAIN Tail(ps) : i + 1 \in DOMAIN ps /\ Tail(ps)[i] = ps[i + 1]
           /\ PartsNamed(ps) = Items(Head(ps).objs) \cup PartsNamed(Tail(ps))
<1>1. /\ Head(ps) \in PartSet /\ Head(ps) = ps[1] /\ 1 \in DOMAIN ps /\ Tail(ps) \in Seq(PartSet)
      /\ Len(ps) \in Nat \ {0} /\ DOMAIN ps = 1..Len(ps) /\ DOMAIN Tail(ps) = 1..(Len(ps) - 1)
      /\ \A i \in DOMAIN Tail(ps) : i + 1 \in DOMAIN ps /\ Tail(ps)[i] = ps[i + 1]
  OBVIOUS
<1>2. Head(ps).objs \in Seq(Objects)
  BY <1>1 DEF PartSet
<1>3. ASSUME NEW o \in PartsNamed(ps) PROVE o \in Items(Head(ps).objs) \cup PartsNamed(Tail(ps))
  <2>1. PICK i \in DOMAIN ps : o \in Items(ps[i].objs)
    BY <1>3 DEF PartsNamed
  <2>2. CASE i = 1
    BY <1>1, <2>1, <2>2
  <2>3. CASE i # 1
    <3>1. i - 1 \in DOMAIN Tail(ps) /\ (i - 1) + 1 = i
      BY <1>1, <2>3
    <3>2. Tail(ps)[i - 1] = ps[i]
      BY <1>1, <3>1
    <3> QED BY <2>1, <3>1, <3>2 DEF PartsNamed
  <2> QED BY <2>2, <2>3
<1>4. ASSUME NEW o \in PartsNamed(Tail(ps)) PROVE o \in PartsNamed(ps)
  <2>1. PICK i \in DOMAIN Tail(ps) : o \in Items(Tail(ps)[i].objs)
    BY <1>4 DEF PartsNamed
  <2> QED BY <1>1, <2>1 DEF PartsNamed
<1>5. Items(Head(ps).objs) \subseteq PartsNamed(ps)
  BY <1>1 DEF PartsNamed
<1> QED BY <1>1, <1>2, <1>3, <1>4, <1>5

(* What each step of building a part makes of the call.                     *)
LEMMA CallAfter ==
    ASSUME call \in CallType, call.parts # <<>>
    PROVE  /\ Allocate => call' = With(call, Tail(call.parts), call.tensors, call.held, call.package)
           /\ HoldAll => call' = With(call, Tail(call.parts), call.tensors,
                                      call.held \o Head(call.parts).objs, call.package)
           /\ CopyPackage => call' = With(call, Tail(call.parts), call.tensors, call.held, TRUE)
           /\ CopyTensor => call' = With(call, call.parts,
                                Append(call.tensors, Head(call.parts).objs[Len(call.tensors) + 1]),
                                call.held, call.package)
           /\ TensorsCopied => call' = With(call, Tail(call.parts), <<>>,
                                            call.held \o call.tensors, call.package)
<1>1. Allocate => call' = With(call, Tail(call.parts), call.tensors, call.held, call.package)
  BY DEF Allocate, Proceed, With, CallType
<1>2. HoldAll => call' = With(call, Tail(call.parts), call.tensors,
                             call.held \o Head(call.parts).objs, call.package)
  BY DEF HoldAll, Proceed, With, CallType, part
<1>3. CopyPackage => call' = With(call, Tail(call.parts), call.tensors, call.held, TRUE)
  BY DEF CopyPackage, Proceed, With, CallType
<1>4. CopyTensor => call' = With(call, call.parts,
                       Append(call.tensors, Head(call.parts).objs[Len(call.tensors) + 1]),
                       call.held, call.package)
  BY DEF CopyTensor, With, CallType, part
<1>5. TensorsCopied => call' = With(call, Tail(call.parts), <<>>,
                                   call.held \o call.tensors, call.package)
  BY DEF TensorsCopied, Proceed, With, CallType
<1> QED BY <1>1, <1>2, <1>3, <1>4, <1>5

(* A step of building a part.                                               *)
BuildPart == Allocate \/ HoldAll \/ CopyTensor \/ TensorsCopied \/ CopyPackage

(* Building a part keeps the call what it was, for the same node, and what  *)
(* the node holds and will take complete.                                   *)
LEMMA PartBuilt ==
    ASSUME call \in CallType, PartsOK(call), Covers(call), BuildPart
    PROVE  /\ call' \in CallType /\ call'.op = call.op /\ call'.desc = call.desc
           /\ call.op \in {"add", "clone"}
           /\ PartsOK(call') /\ Covers(call')
           /\ (\A i \in DOMAIN call.parts : call.parts[i].op # "package") =>
                 /\ \A i \in DOMAIN call'.parts : call'.parts[i].op # "package"
                 /\ call'.package = call.package
<1> DEFINE ps == call.parts
           tl == Tail(ps)
           objs == Head(ps).objs
           ts == call.tensors
           Goal == /\ call' \in CallType /\ call'.op = call.op /\ call'.desc = call.desc
                   /\ PartsOK(call') /\ Covers(call')
                   /\ (\A i \in DOMAIN ps : ps[i].op # "package") =>
                         /\ \A i \in DOMAIN call'.parts : call'.parts[i].op # "package"
                         /\ call'.package = call.package
<1>1. call.op \in {"add", "clone"} /\ ps # <<>> /\ part = Head(ps)
  BY DEF BuildPart, Allocate, HoldAll, CopyTensor, TensorsCopied, CopyPackage, Building, part
<1>2. /\ ps \in Seq(PartSet) /\ ts \in Seq(Objects) /\ call.held \in Seq(Objects)
      /\ call.package \in BOOLEAN
  BY DEF CallType
<1>3. /\ Head(ps) \in PartSet /\ objs \in Seq(Objects) /\ Head(ps) = ps[1]
      /\ 1 \in DOMAIN ps /\ tl \in Seq(PartSet)
      /\ \A i \in DOMAIN tl : i + 1 \in DOMAIN ps /\ tl[i] = ps[i + 1]
      /\ PartsNamed(ps) = Items(objs) \cup PartsNamed(tl)
  BY <1>1, <1>2, FirstPart
<1>4. /\ \A i \in DOMAIN ps : ps[i].op \in {"alloc", "package"} => ps[i].objs = <<>>
      /\ ts # <<>> => Head(ps).op = "tensors"
      /\ Len(ts) <= Len(objs) /\ \A k \in DOMAIN ts : ts[k] = objs[k]
      /\ Items(call.held) \cup Items(ts) \cup PartsNamed(ps) = Named(call.desc)
  BY <1>1 DEF PartsOK, Covers
<1>5. ASSUME NEW hs \in Seq(Objects), NEW pk \in BOOLEAN, call' = With(call, tl, <<>>, hs, pk),
             Items(hs) = Items(call.held) \cup Items(objs), Items(ts) \subseteq Items(objs),
             pk = call.package \/ Head(ps).op = "package"
      PROVE  Goal
  <2>1. /\ call' \in CallType /\ call'.op = call.op /\ call'.desc = call.desc
        /\ call'.parts = tl /\ call'.tensors = <<>> /\ call'.held = hs /\ call'.package = pk
    <3>1. <<>> \in Seq(Objects) /\ tl \in Seq(PartSet)
      BY <1>3
    <3> HIDE DEF tl
    <3>2. call' = With(call, tl, <<>>, hs, pk)
      BY <1>5
    <3>3. With(call, tl, <<>>, hs, pk) \in CallType
      BY <3>1 DEF With, CallType
    <3> QED BY <3>2, <3>3 DEF With
  <2>2. \A i \in DOMAIN tl : tl[i].op \in {"alloc", "package"} => tl[i].objs = <<>>
    BY <1>3, <1>4
  <2>3. tl # <<>> => Head(tl).objs \in Seq(Objects)
    BY <1>3, FirstPart
  <2>4. PartsOK(call')
    BY <2>1, <2>2, <2>3, SMTT(30) DEF PartsOK
  <2>5. Covers(call')
    <3>1. Items(<<>>) = {}
      BY DEF Items
    <3> HIDE DEF objs, tl, ts, ps
    <3> QED BY <1>3, <1>4, <1>5, <2>1, <3>1 DEF Covers
  <2>6. (\A i \in DOMAIN ps : ps[i].op # "package") =>
          (\A i \in DOMAIN tl : tl[i].op # "package") /\ pk = call.package
    BY <1>3, <1>5
  <2> QED BY <2>1, <2>4, <2>5, <2>6
<1>6. Items(<<>>) = {}
  BY DEF Items
<1>7. ASSUME Head(ps).op # "tensors" PROVE ts = <<>>
  BY <1>4, <1>7
<1>8. CASE Allocate \/ CopyPackage
  <2>1. Head(ps).op \in {"alloc", "package"} /\ (CopyPackage => Head(ps).op = "package")
    BY <1>1, <1>8 DEF Allocate, CopyPackage
  <2>2. objs = <<>> /\ ts = <<>>
    BY <1>3, <1>4, <1>7, <2>1
  <2>3. CASE Allocate
    <3>1. call' = With(call, tl, <<>>, call.held, call.package)
      BY <1>1, <2>2, <2>3, CallAfter
    <3>2. Items(call.held) = Items(call.held) \cup Items(objs) /\ Items(ts) \subseteq Items(objs)
      BY <1>6, <2>2
    <3>3. Goal
      BY <1>2, <1>5, <3>1, <3>2
    <3> QED BY <1>1, <3>3
  <2>4. CASE CopyPackage
    <3>1. call' = With(call, tl, <<>>, call.held, TRUE)
      BY <1>1, <2>2, <2>4, CallAfter
    <3>2. Items(call.held) = Items(call.held) \cup Items(objs) /\ Items(ts) \subseteq Items(objs)
      BY <1>6, <2>2
    <3>3. Goal
      BY <1>2, <1>5, <2>1, <2>4, <3>1, <3>2
    <3> QED BY <1>1, <3>3
  <2> QED BY <1>1, <1>8, <2>3, <2>4
<1>9. CASE HoldAll
  <2>1. Head(ps).op \in {"array", "hold"}
    BY <1>1, <1>9 DEF HoldAll
  <2>2. ts = <<>>
    BY <1>7, <2>1
  <2>3. call' = With(call, tl, <<>>, call.held \o objs, call.package)
    BY <1>1, <1>9, <2>2, CallAfter
  <2>4. call.held \o objs \in Seq(Objects) /\ Items(call.held \o objs) = Items(call.held) \cup Items(objs)
    BY <1>2, <1>3, ItemsJoined
  <2> QED BY <1>1, <1>2, <1>5, <1>6, <2>2, <2>3, <2>4
<1>10. CASE TensorsCopied
  <2>1. Head(ps).op = "tensors" /\ ~(Len(ts) < Len(objs))
    BY <1>1, <1>10 DEF TensorsCopied, MoreTensors
  <2>2. Len(ts) = Len(objs) /\ DOMAIN ts = DOMAIN objs
    BY <1>2, <1>3, <1>4, <2>1
  <2>3. Items(ts) = Items(objs)
    BY <1>4, <2>2 DEF Items
  <2>4. call' = With(call, tl, <<>>, call.held \o ts, call.package)
    BY <1>1, <1>10, CallAfter
  <2>5. call.held \o ts \in Seq(Objects) /\ Items(call.held \o ts) = Items(call.held) \cup Items(ts)
    BY <1>2, ItemsJoined
  <2> QED BY <1>1, <1>2, <1>5, <2>3, <2>4, <2>5
<1>11. CASE CopyTensor
  <2> DEFINE o == objs[Len(ts) + 1]
             us == Append(ts, o)
  <2>1. Head(ps).op = "tensors" /\ Len(ts) < Len(objs)
    BY <1>1, <1>11 DEF CopyTensor, MoreTensors
  <2>2. Len(ts) \in Nat /\ Len(ts) + 1 \in DOMAIN objs /\ o \in Objects
    BY <1>2, <1>3, <2>1
  <2>3. /\ us \in Seq(Objects) /\ Len(us) = Len(ts) + 1 /\ DOMAIN us = 1..(Len(ts) + 1)
        /\ us[Len(ts) + 1] = o /\ \A k \in DOMAIN ts : us[k] = ts[k]
        /\ DOMAIN ts = 1..Len(ts) /\ us = ts \o <<o>> /\ <<o>> \in Seq(Objects)
    BY <1>2, <2>2, AppendJoins
  <2>4. call' = With(call, ps, us, call.held, call.package)
    BY <1>1, <1>11, CallAfter
  <2>5. /\ call' \in CallType /\ call'.op = call.op /\ call'.desc = call.desc
        /\ call'.parts = ps /\ call'.tensors = us /\ call'.held = call.held
        /\ call'.package = call.package
    <3> HIDE DEF us
    <3>1. With(call, ps, us, call.held, call.package) \in CallType
      BY <1>2, <2>3 DEF With, CallType
    <3> QED BY <2>4, <3>1 DEF With
  <2>6. \A k \in DOMAIN us : us[k] = objs[k]
    BY <1>4, <2>2, <2>3, SMTT(30)
  <2>7. Items(us) = Items(ts) \cup {o} /\ o \in Items(objs)
    <3>1. Items(ts \o <<o>>) = Items(ts) \cup Items(<<o>>)
      BY <1>2, <2>3, ItemsJoined
    <3>2. Items(<<o>>) = {o}
      BY ItemsOne
    <3>3. o \in Items(objs)
      BY <2>2 DEF Items
    <3> HIDE DEF us, o
    <3> QED BY <2>3, <3>1, <3>2, <3>3
  <2> HIDE DEF us, o
  <2>8. PartsOK(call')
    BY <1>1, <1>4, <2>1, <2>2, <2>3, <2>5, <2>6, SMTT(30) DEF PartsOK
  <2>9. Covers(call')
    BY <1>3, <1>4, <2>5, <2>7 DEF Covers
  <2> QED BY <1>1, <2>5, <2>8, <2>9
<1> QED BY <1>1, <1>8, <1>9, <1>10, <1>11 DEF BuildPart

(* And every object gains as many references as the call comes to hold; the *)
(* others keep theirs.                                                      *)
LEMMA PartCounted ==
    ASSUME call \in CallType, PartsOK(call), Covers(call), BuildPart,
           ref_count \in [Objects -> Int], NEW o \in Objects
    PROVE  /\ ref_count' \in [Objects -> Int]
           /\ ref_count'[o] - Occurrences(call'.held, o) - Occurrences(call'.tensors, o)
                = ref_count[o] - Occurrences(call.held, o) - Occurrences(call.tensors, o)
           /\ ref_count'[o] >= ref_count[o]
           /\ ref_count'[o] # ref_count[o] => o \in Named(call.desc)
<1> DEFINE ps == call.parts
           objs == Head(ps).objs
           ts == call.tensors
           Occ(s) == Occurrences(s, o)
<1>1. call.op \in {"add", "clone"} /\ ps # <<>> /\ part = Head(ps)
  BY DEF BuildPart, Allocate, HoldAll, CopyTensor, TensorsCopied, CopyPackage, Building, part
<1>2. /\ ps \in Seq(PartSet) /\ ts \in Seq(Objects) /\ call.held \in Seq(Objects)
      /\ call.package \in BOOLEAN
  BY DEF CallType
<1>3. objs \in Seq(Objects) /\ PartsNamed(ps) = Items(objs) \cup PartsNamed(Tail(ps))
      /\ Tail(ps) \in Seq(PartSet)
  BY <1>1, <1>2, FirstPart
<1>4. Items(objs) \subseteq Named(call.desc)
  BY <1>3 DEF Covers
<1>5. Occ(ts) \in Nat /\ Occ(call.held) \in Nat /\ Occ(objs) \in Nat /\ Occ(<<>>) = 0
      /\ (Occ(objs) # 0 => o \in Named(call.desc))
  <2>1. Occ(ts) \in Nat /\ Occ(call.held) \in Nat /\ Occ(objs) \in Nat
        /\ (Occ(objs) # 0 => o \in Items(objs))
    BY <1>2, <1>3, PlacesFinite
  <2> QED BY <1>4, <2>1, OccurrencesOne
<1>6. ref_count[o] \in Int
  OBVIOUS
<1>7. CASE Allocate \/ CopyPackage
  <2>1. ref_count' = ref_count
    BY <1>7 DEF Allocate, CopyPackage, objectVars
  <2>2. call'.held = call.held /\ call'.tensors = ts
    BY <1>1, <1>7, CallAfter DEF With
  <2> HIDE DEF Occ
  <2> QED BY <1>5, <1>6, <2>1, <2>2 DEF Occ
<1>8. CASE HoldAll
  <2>1. ref_count' = [p \in Objects |-> ref_count[p] + Occurrences(objs, p)]
    BY <1>1, <1>8 DEF HoldAll, Retain
  <2>2. call'.held = call.held \o objs /\ call'.tensors = ts
    <3>1. call' = With(call, Tail(ps), ts, call.held \o objs, call.package)
      BY <1>1, <1>8, CallAfter
    <3> QED BY <3>1 DEF With
  <2>3. Occ(call.held \o objs) = Occ(call.held) + Occ(objs)
    BY <1>2, <1>3, OccurrencesJoined
  <2>4. \A p \in Objects : Occurrences(objs, p) \in Nat
    BY <1>3, PlacesFinite
  <2>5. ref_count'[o] = ref_count[o] + Occ(objs) /\ ref_count' \in [Objects -> Int]
    BY <2>1, <2>4
  <2> HIDE DEF Occ
  <2> QED BY <1>5, <1>6, <2>2, <2>3, <2>5 DEF Occ
<1>9. CASE TensorsCopied
  <2>1. ref_count' = ref_count
    BY <1>9 DEF TensorsCopied, objectVars
  <2>2. call'.held = call.held \o ts /\ call'.tensors = <<>>
    <3>1. call' = With(call, Tail(ps), <<>>, call.held \o ts, call.package)
      BY <1>1, <1>9, CallAfter
    <3> QED BY <3>1 DEF With
  <2>3. Occ(call.held \o ts) = Occ(call.held) + Occ(ts)
    BY <1>2, OccurrencesJoined
  <2> HIDE DEF Occ
  <2> QED BY <1>5, <1>6, <2>1, <2>2, <2>3 DEF Occ
<1>10. CASE CopyTensor
  <2> DEFINE q == objs[Len(ts) + 1]
  <2>1. Len(ts) < Len(objs) /\ ref_count' = [p \in Objects |-> ref_count[p] + Occurrences(<<q>>, p)]
    BY <1>1, <1>10 DEF CopyTensor, Retain, MoreTensors
  <2>2. q \in Objects /\ q \in Items(objs)
    BY <1>2, <1>3, <2>1, SMTT(30) DEF Items
  <2>3. call'.held = call.held /\ call'.tensors = Append(ts, q)
    <3>1. call' = With(call, ps, Append(ts, q), call.held, call.package)
      BY <1>1, <1>10, CallAfter
    <3> QED BY <3>1 DEF With
  <2>4. Append(ts, q) = ts \o <<q>> /\ <<q>> \in Seq(Objects)
    BY <1>2, <2>2, AppendJoins
  <2>5. Occ(ts \o <<q>>) = Occ(ts) + Occ(<<q>>)
    BY <1>2, <2>4, OccurrencesJoined, ZenonT(40)
  <2>6. /\ \A p \in Objects : Occurrences(<<q>>, p) \in Nat
        /\ Occ(<<q>>) # 0 => o = q
    BY <2>4, OccurrencesOne, PlacesFinite
  <2>7. ref_count'[o] = ref_count[o] + Occ(<<q>>) /\ ref_count' \in [Objects -> Int]
        /\ Occ(<<q>>) \in Nat
    BY <2>1, <2>6, SMTT(30)
  <2>8. Occ(<<q>>) # 0 => o \in Named(call.desc)
    BY <1>4, <2>2, <2>6
  <2>9. call'.tensors = ts \o <<q>>
    BY <2>3, <2>4
  <2> HIDE DEF Occ, q
  <2> QED BY <1>5, <1>6, <2>3, <2>5, <2>7, <2>8, <2>9 DEF Occ
<1> QED BY <1>7, <1>8, <1>9, <1>10 DEF BuildPart

(* Parts that name nothing can be added to a node's.                        *)
LEMMA PartsAdded ==
    ASSUME NEW ps \in Seq(PartSet), NEW es \in Seq(PartSet), \A i \in DOMAIN es : es[i].objs = <<>>
    PROVE  /\ ps \o es \in Seq(PartSet) /\ PartsNamed(ps \o es) = PartsNamed(ps)
           /\ \A i \in DOMAIN (ps \o es) :
                 (i \in DOMAIN ps /\ (ps \o es)[i] = ps[i]) \/ (ps \o es)[i].objs = <<>>
<1> DEFINE n == Len(ps)
           qs == ps \o es
<1>1. /\ n \in Nat /\ Len(es) \in Nat /\ DOMAIN ps = 1..n /\ DOMAIN es = 1..Len(es)
      /\ qs \in Seq(PartSet) /\ DOMAIN qs = 1..(n + Len(es))
      /\ (\A i \in 1..n : qs[i] = ps[i]) /\ \A i \in 1..Len(es) : qs[n + i] = es[i]
  OBVIOUS
<1> HIDE DEF n, qs
<1>2. ASSUME NEW i \in DOMAIN qs
      PROVE  (i \in DOMAIN ps /\ qs[i] = ps[i]) \/ qs[i].objs = <<>>
  <2>1. CASE i \in 1..n
    BY <1>1, <2>1
  <2>2. CASE i \notin 1..n
    <3>1. i - n \in 1..Len(es) /\ n + (i - n) = i
      BY <1>1, <2>2
    <3>2. qs[i] = es[i - n]
      BY <1>1, <3>1
    <3> QED BY <1>1, <3>1, <3>2
  <2> QED BY <2>1, <2>2
<1>3. Items(<<>>) = {}
  BY DEF Items
<1>4. PartsNamed(qs) \subseteq PartsNamed(ps)
  BY <1>2, <1>3 DEF PartsNamed
<1>5. PartsNamed(ps) \subseteq PartsNamed(qs)
  <2> SUFFICES ASSUME NEW i \in DOMAIN ps PROVE i \in DOMAIN qs /\ qs[i] = ps[i]
    BY DEF PartsNamed
  <2> QED BY <1>1
<1> QED BY <1>1, <1>2, <1>4, <1>5 DEF qs

(* A node the caller adds, and the exec's copy of it, are built from parts  *)
(* that name what the node does.                                            *)
LEMMA DescParts ==
    ASSUME NEW d \in Descs
    PROVE  /\ d.parts \in Seq(PartSet) /\ CloneParts(d) \in Seq(PartSet)
           /\ PartsNamed(d.parts) = Named(d) /\ PartsNamed(CloneParts(d)) = Named(d)
           /\ \A i \in DOMAIN d.parts :
                 /\ d.parts[i].op \in {"alloc", "package"} => d.parts[i].objs = <<>>
                 /\ d.parts[i].op # "package"
           /\ \A i \in DOMAIN CloneParts(d) :
                 CloneParts(d)[i].op \in {"alloc", "package"} => CloneParts(d)[i].objs = <<>>
<1> DEFINE Four == [op : {"alloc", "array", "tensors", "hold"}, objs : Seq(Objects)]
           es == CASE d.kind = "dispatch" -> <<Alloc>>
                   [] d.kind = "mpsgraph" -> <<Part("package", <<>>), Alloc>>
                   [] OTHER -> <<>>
<1>1. d.parts \in Seq(Four) /\ Four \subseteq PartSet
  BY DescsAssumption DEF Desc, PartSet
<1>2. /\ d.parts \in Seq(PartSet)
      /\ \A i \in DOMAIN d.parts : d.parts[i].op # "package"
  <2>1. \A p \in Four : p.op # "package"
    OBVIOUS
  <2> HIDE DEF Four
  <2>2. d.parts \in Seq(PartSet) /\ \A i \in DOMAIN d.parts : d.parts[i] \in Four
    BY <1>1
  <2> QED BY <2>1, <2>2
<1>3. \A i \in DOMAIN d.parts : d.parts[i].op = "alloc" => d.parts[i].objs = <<>>
  BY DescsAssumption DEF Alloc, Part
<1>4. PartsNamed(d.parts) = Named(d)
  BY DEF PartsNamed, Named, Items
<1>5. Alloc \in PartSet /\ Part("package", <<>>) \in PartSet
      /\ Alloc.objs = <<>> /\ Part("package", <<>>).objs = <<>>
  <2>1. <<>> \in Seq(Objects)
    OBVIOUS
  <2> QED BY <2>1 DEF Alloc, Part, PartSet
<1>6. es \in Seq(PartSet) /\ \A i \in DOMAIN es : es[i].objs = <<>>
  <2>1. CASE es = <<Alloc>>
    <3> HIDE DEF es
    <3> QED BY <1>5, <2>1
  <2>2. CASE es = <<Part("package", <<>>), Alloc>>
    <3> HIDE DEF es
    <3> QED BY <1>5, <2>2
  <2>3. CASE es = <<>>
    <3> HIDE DEF es
    <3> QED BY <2>3
  <2> QED BY <2>1, <2>2, <2>3
<1>7. CloneParts(d) = d.parts \o es
  BY DEF CloneParts
<1> HIDE DEF es
<1>8. /\ CloneParts(d) \in Seq(PartSet) /\ PartsNamed(CloneParts(d)) = PartsNamed(d.parts)
      /\ \A i \in DOMAIN CloneParts(d) :
            (i \in DOMAIN d.parts /\ CloneParts(d)[i] = d.parts[i]) \/ CloneParts(d)[i].objs = <<>>
  BY <1>2, <1>6, <1>7, PartsAdded
<1> QED BY <1>2, <1>3, <1>4, <1>8

-----------------------------------------------------------------------------
(* Types.                                                                   *)

(* A call that begins, and no call, are calls.                              *)
LEMMA CallTyped ==
    /\ NoCall \in CallType
    /\ \A op \in {"none", "create", "add", "clone"}, d \in Descs \cup {Barrier}, ps \in Seq(PartSet) :
          Call(op, d, ps) \in CallType
    /\ \A o \in Objects : <<Part("array", <<o>>)>> \in Seq(PartSet)
<1>1. \A op \in {"none", "create", "add", "clone"}, d \in Descs \cup {Barrier}, ps \in Seq(PartSet) :
          Call(op, d, ps) \in CallType
  <2>1. <<>> \in Seq(Objects)
    OBVIOUS
  <2> QED BY <2>1 DEF Call, CallType
<1>2. NoCall \in CallType
  <2>1. <<>> \in Seq(PartSet)
    OBVIOUS
  <2> QED BY <1>1, <2>1 DEF NoCall
<1>3. ASSUME NEW o \in Objects PROVE <<Part("array", <<o>>)>> \in Seq(PartSet)
  <2>1. <<o>> \in Seq(Objects)
    OBVIOUS
  <2>2. Part("array", <<o>>) \in PartSet
    BY <2>1 DEF Part, PartSet
  <2> QED BY <2>2
<1> QED BY <1>1, <1>2, <1>3

(* What references come to when they are given up.                          *)
LEMMA Released ==
    ASSUME Types, NEW dropped \in [Objects -> Nat], Release(dropped)
    PROVE  /\ ref_count' \in [Objects -> Int] /\ backend' \in [Objects -> BOOLEAN]
           /\ owner' \in [Objects -> BOOLEAN] /\ made' = made
           /\ \A o \in Objects : /\ ref_count'[o] = ref_count[o] - dropped[o]
                                 /\ backend'[o] <=> backend[o] /\ ref_count'[o] > 0
                                 /\ owner'[o] <=> owner[o] /\ ref_count'[o] > 0
<1>1. ref_count' \in [Objects -> Int] /\ \A o \in Objects : ref_count'[o] = ref_count[o] - dropped[o]
  BY DEF Types, Release
<1>2. /\ backend' = [o \in Objects |-> backend[o] /\ ref_count'[o] > 0]
      /\ owner' = [o \in Objects |-> owner[o] /\ ref_count'[o] > 0]
      /\ made' = made
  BY DEF Release, Kept
<1>3. backend' \in [Objects -> BOOLEAN] /\ owner' \in [Objects -> BOOLEAN]
  BY <1>2, Zenon DEF Types
<1>4. \A o \in Objects : /\ backend'[o] <=> backend[o] /\ ref_count'[o] > 0
                         /\ owner'[o] <=> owner[o] /\ ref_count'[o] > 0
  BY <1>2, Zenon
<1>5. ref_count' \in [Objects -> Int] /\ made' = made
  BY <1>1, <1>2, Zenon
<1> QED BY <1>1, <1>3, <1>4, <1>5, Zenon

(* What is held is counted in naturals.                                     *)
LEMMA CountsTyped ==
    ASSUME Types, NEW o
    PROVE  /\ HeldBy(nodes, o) \in Nat /\ HeldBy(enodes, o) \in Nat
           /\ Occurrences(call.held, o) \in Nat /\ Occurrences(call.tensors, o) \in Nat
           /\ Undone(o) = Occurrences(call.held, o) + Occurrences(call.tensors, o)
<1>1. HeldBy(nodes, o) \in Nat /\ HeldBy(enodes, o) \in Nat
  BY SlotsFinite DEF Types
<1>2. call.held \in Seq(Objects) /\ call.tensors \in Seq(Objects)
  BY DEF Types, CallType
<1>3. Occurrences(call.held, o) \in Nat /\ Occurrences(call.tensors, o) \in Nat
  BY <1>2, PlacesFinite
<1> QED BY <1>1, <1>3 DEF Undone

(* Building a part keeps the types of what it changes.                      *)
LEMMA PartTyped ==
    ASSUME Types, CallOK, BuildPart
    PROVE  /\ call.op \in {"add", "clone"} /\ PartsOK(call) /\ Covers(call)
           /\ call' \in CallType
           /\ ref_count' \in [Objects -> Int] /\ packages' \in Int
           /\ UNCHANGED <<backend, owner, made, handle, graphVars, estate, enodes>>
<1>1. call.op \in {"add", "clone"} /\ call.parts # <<>> /\ call \in CallType
  BY DEF Types, BuildPart, Allocate, HoldAll, CopyTensor, TensorsCopied, CopyPackage, Building
<1>2. PartsOK(call) /\ Covers(call)
  BY <1>1 DEF CallOK
<1>3. call' \in CallType
  BY <1>1, <1>2, PartBuilt
<1>4. UNCHANGED <<backend, owner, made, handle, graphVars, estate, enodes>>
  BY DEF BuildPart, Allocate, HoldAll, CopyTensor, TensorsCopied, CopyPackage, Retain,
         objectVars, execVars
<1>5. packages' \in Int
  BY DEF Types, BuildPart, Allocate, HoldAll, CopyTensor, TensorsCopied, CopyPackage, execVars
<1>6. ASSUME NEW s \in Seq(Objects), Retain(s) PROVE ref_count' \in [Objects -> Int]
  <2>1. \A o \in Objects : Occurrences(s, o) \in Nat
    BY PlacesFinite
  <2> QED BY <1>6, <2>1 DEF Retain, Types
<1>7. ref_count' \in [Objects -> Int]
  <2>1. /\ call.parts \in Seq(PartSet) /\ part = Head(call.parts) /\ part.objs \in Seq(Objects)
        /\ call.tensors \in Seq(Objects)
    BY <1>1, FirstPart DEF CallType, part
  <2>2. CASE HoldAll
    BY <1>6, <2>1, <2>2 DEF HoldAll
  <2>3. CASE CopyTensor
    <3> DEFINE q == part.objs[Len(call.tensors) + 1]
    <3>1. Retain(<<q>>) /\ Len(call.tensors) < Len(part.objs)
      BY <2>3 DEF CopyTensor, MoreTensors
    <3>2. q \in Objects
      BY <2>1, <3>1
    <3> HIDE DEF q
    <3>3. <<q>> \in Seq(Objects)
      BY <3>2
    <3> QED BY <1>6, <3>1, <3>3
  <2>4. CASE Allocate \/ TensorsCopied \/ CopyPackage
    BY <2>4 DEF Allocate, TensorsCopied, CopyPackage, objectVars, Types
  <2> QED BY <2>2, <2>3, <2>4 DEF BuildPart
<1> QED BY <1>1, <1>2, <1>3, <1>4, <1>5, <1>7

(* Handing an object out keeps the types.                                   *)
LEMMA HandedOutTyped ==
    ASSUME Types, NEW o \in Objects, HandedOut(o)
    PROVE  /\ ref_count' \in [Objects -> Int] /\ made' \in [Objects -> BOOLEAN]
           /\ handle' \in [Objects -> BOOLEAN]
BY DEF HandedOut, Types

(* Clearing an exec, whole or half built.                                   *)
LEMMA ExecClearTyped ==
    ASSUME Types, ExecClear
    PROVE  /\ [o \in Objects |-> HeldBy(enodes, o) + Undone(o)] \in [Objects -> Nat]
           /\ Types'
<1>1. [o \in Objects |-> HeldBy(enodes, o) + Undone(o)] \in [Objects -> Nat]
  BY CountsTyped
<1>2. /\ ref_count' \in [Objects -> Int] /\ backend' \in [Objects -> BOOLEAN]
      /\ owner' \in [Objects -> BOOLEAN] /\ made' = made
  BY <1>1, Released DEF ExecClear
<1>3. ExecCleared \in Int /\ packages \in Int
  <2>1. Packages(enodes) \in Nat
    BY PackagesCounted DEF Types
  <2> QED BY <2>1 DEF ExecCleared, Types
<1>4. packages' \in Int /\ estate' = "none" /\ enodes' = <<>> /\ call' = NoCall
  BY <1>3 DEF ExecClear
<1>5. UNCHANGED <<handle, graphVars>> /\ <<>> \in Seq(ExecNode)
  BY DEF ExecClear
<1> QED BY <1>1, <1>2, <1>4, <1>5, CallTyped DEF Types, graphVars

(* Each step keeps the types.                                               *)
LEMMA TypesStep ==
    ASSUME BuildInv, [Next]_vars
    PROVE  Types'
<1>0. Types /\ CallOK /\ NodesOK
  BY DEF BuildInv
<1>1. CASE UNCHANGED vars
  BY <1>0, <1>1 DEF vars, objectVars, graphVars, execVars, Types
<1>2. ASSUME NEW o \in Objects, BufferCreateShared(o) PROVE Types'
  <2>1. call' \in CallType
    BY <1>2, CallTyped DEF BufferCreateShared
  <2> QED BY <1>0, <1>2, <2>1 DEF BufferCreateShared, Types, graphVars, execVars
<1>3. ASSUME NEW o \in Objects, BufferCreateEnd(o) \/ EventCreate(o) PROVE Types'
  <2>1. HandedOut(o) /\ call' \in CallType /\ backend' \in [Objects -> BOOLEAN]
        /\ UNCHANGED <<owner, graphVars, execVars>>
    BY <1>0, <1>3, CallTyped DEF BufferCreateEnd, EventCreate, Types
  <2> QED BY <1>0, <2>1, HandedOutTyped DEF Types, graphVars, execVars
<1>4. ASSUME NEW o \in Objects, BufferCreateFails(o) PROVE Types'
  BY <1>0, <1>4, CallTyped DEF BufferCreateFails, Types, graphVars, execVars
<1>5. ASSUME NEW o \in Objects, NEW flags, MetalBufferWrap(o, flags) PROVE Types'
  <2>1. /\ HandedOut(o) /\ UNCHANGED <<graphVars, execVars, call>>
        /\ backend' = [backend EXCEPT ![o] = "RETAIN_BUFFER" \in flags]
        /\ owner' = [owner EXCEPT ![o] = "RETAIN_OWNER" \in flags]
    BY <1>5 DEF MetalBufferWrap
  <2>2. backend' \in [Objects -> BOOLEAN] /\ owner' \in [Objects -> BOOLEAN]
    BY <1>0, <2>1 DEF Types
  <2> QED BY <1>0, <2>1, <2>2, HandedOutTyped DEF Types, graphVars, execVars
<1>6. ASSUME NEW o \in Objects, HandleDestroy(o) PROVE Types'
  <2>1. [p \in Objects |-> IF p = o THEN 1 ELSE 0] \in [Objects -> Nat]
    OBVIOUS
  <2>2. /\ ref_count' \in [Objects -> Int] /\ backend' \in [Objects -> BOOLEAN]
        /\ owner' \in [Objects -> BOOLEAN] /\ made' = made
    BY <1>0, <1>6, <2>1, Released DEF HandleDestroy
  <2>3. handle' \in [Objects -> BOOLEAN] /\ UNCHANGED <<graphVars, execVars, call>>
    BY <1>0, <1>6 DEF HandleDestroy, Types
  <2> QED BY <1>0, <2>2, <2>3 DEF Types, graphVars, execVars
<1>7. ASSUME NEW d \in Descs, AddBegin(d) \/ AddOutOfMemory(d) PROVE Types'
  <2>1. node_capacity' \in Nat
    BY <1>0, <1>7, BuildAssumption DEF AddBegin, AddOutOfMemory, Reserved, Types
  <2>2. call' \in CallType
    BY <1>0, <1>7, DescParts, CallTyped DEF AddBegin, AddOutOfMemory, Types
  <2> QED BY <1>0, <1>7, <2>1, <2>2 DEF AddBegin, AddOutOfMemory, Types, objectVars, execVars
<1>8. CASE BuildPart
  BY <1>0, <1>8, PartTyped DEF Types, graphVars
<1>9. CASE AddEnd
  <2>1. call.desc \in Descs /\ call.held \in Seq(Objects)
    BY <1>0, <1>9 DEF AddEnd, CallOK, Types, CallType
  <2>2. [desc |-> call.desc, held |-> call.held] \in Node
    BY <2>1 DEF Node
  <2>3. nodes' \in Seq(Node)
    BY <1>0, <1>9, <2>2 DEF AddEnd, Types
  <2> QED BY <1>0, <1>9, <2>3, CallTyped DEF AddEnd, Types, objectVars, execVars
<1>10. CASE AddFails
  <2>1. [o \in Objects |-> Undone(o)] \in [Objects -> Nat]
    BY <1>0, CountsTyped
  <2>2. /\ ref_count' \in [Objects -> Int] /\ backend' \in [Objects -> BOOLEAN]
        /\ owner' \in [Objects -> BOOLEAN] /\ made' = made
    BY <1>0, <1>10, <2>1, Released DEF AddFails
  <2> QED BY <1>0, <1>10, <2>2, CallTyped DEF AddFails, Types, graphVars, execVars
<1>11. CASE GraphDestroy
  <2>1. [o \in Objects |-> HeldBy(nodes, o)] \in [Objects -> Nat]
    BY <1>0, CountsTyped
  <2>2. /\ ref_count' \in [Objects -> Int] /\ backend' \in [Objects -> BOOLEAN]
        /\ owner' \in [Objects -> BOOLEAN] /\ made' = made
    BY <1>0, <1>11, <2>1, Released DEF GraphDestroy
  <2>3. <<>> \in Seq(Node)
    OBVIOUS
  <2> QED BY <1>0, <1>11, <2>2, <2>3 DEF GraphDestroy, Types, execVars
<1>12. CASE InstantiateBegin \/ InstantiateEnd
  BY <1>0, <1>12 DEF InstantiateBegin, InstantiateEnd, Types, objectVars, graphVars
<1>13. CASE CloneBegin
  <2>1. Len(enodes) + 1 \in DOMAIN nodes
    BY <1>0, <1>13 DEF CloneBegin, Types
  <2>2. nodes[Len(enodes) + 1].desc \in Descs
    BY <1>0, <2>1 DEF NodesOK
  <2>3. call' \in CallType
    BY <1>13, <2>2, DescParts, CallTyped DEF CloneBegin
  <2> QED BY <1>0, <1>13, <2>3 DEF CloneBegin, Types, objectVars, graphVars, execVars
<1>14. CASE CloneEnd
  <2>1. [held |-> call.held, package |-> call.package] \in ExecNode
    BY <1>0 DEF Types, CallType, ExecNode
  <2>2. enodes' \in Seq(ExecNode)
    BY <1>0, <1>14, <2>1 DEF CloneEnd, Types
  <2> QED BY <1>0, <1>14, <2>2, CallTyped DEF CloneEnd, Types, objectVars, graphVars
<1>15. CASE ExecClear
  BY <1>0, <1>15, ExecClearTyped
<1> QED
  BY <1>1, <1>2, <1>3, <1>4, <1>5, <1>6, <1>7, <1>8, <1>9, <1>10, <1>11, <1>12, <1>13, <1>14, <1>15
  DEF Next, BuildPart, CloneFails, WorkspaceAllocateFails, ExecDestroy

-----------------------------------------------------------------------------
(* The call in progress and the nodes.                                      *)

(* Between calls there is nothing to say of the call.                       *)
LEMMA NoCallOK == call = NoCall => CallOK
BY DEF CallOK, NoCall, Call

(* A call that begins a node has all of it to build.                        *)
LEMMA NodeBegun ==
    ASSUME NEW op, NEW d, NEW ps \in Seq(PartSet), NEW c, c = Call(op, d, ps),
           PartsNamed(ps) = Named(d),
           \A i \in DOMAIN ps : ps[i].op \in {"alloc", "package"} => ps[i].objs = <<>>
    PROVE  PartsOK(c) /\ Covers(c)
<1>1. c.op = op /\ c.desc = d /\ c.parts = ps /\ c.tensors = <<>> /\ c.held = <<>>
  BY DEF Call
<1>2. ps # <<>> => Head(ps).objs \in Seq(Objects)
  BY FirstPart
<1>3. PartsOK(c)
  BY <1>1, <1>2 DEF PartsOK
<1>4. Covers(c)
  BY <1>1, ItemsOne DEF Covers
<1> QED BY <1>3, <1>4

(* Each step keeps what is said of the call.                                *)
LEMMA CallStep ==
    ASSUME BuildInv, [Next]_vars
    PROVE  CallOK'
<1>0. Types /\ CallOK /\ NodesOK
  BY DEF BuildInv
<1>1. CASE UNCHANGED vars
  BY <1>0, <1>1 DEF vars, objectVars, graphVars, execVars, CallOK
<1>2. (call' = NoCall) => CallOK'
  BY NoCallOK DEF CallOK, NoCall, Call
<1>3. ASSUME NEW o \in Objects, BufferCreateShared(o) PROVE CallOK'
  <2>1. /\ call' = Call("create", Barrier, <<Part("array", <<o>>)>>) /\ estate' # "building"
        /\ ~made'[o] /\ backend'[o] /\ ~owner[o] /\ owner' = owner
    <3>1. ~Creating(o)
      BY <1>3 DEF BufferCreateShared, Idle, Creating, NoCall, Call
    <3>2. ref_count[o] = 0
      BY <1>3 DEF BufferCreateShared, BuildInv, ObjectsOK
    <3>3. ~owner[o]
      BY <3>1, <3>2 DEF BuildInv, NothingLeaks
    <3>4. backend'[o]
      BY <1>0, <1>3 DEF BufferCreateShared, Types
    <3> QED BY <1>3, <3>3, <3>4 DEF BufferCreateShared, Idle, execVars
  <2>2. call'.op = "create"
    BY <2>1 DEF Call
  <2> QED BY <2>1, <2>2 DEF CallOK
<1>4. ASSUME NEW o \in Objects, BufferCreateEnd(o) \/ BufferCreateFails(o) PROVE CallOK'
  BY <1>2, <1>4 DEF BufferCreateEnd, BufferCreateFails
<1>5. ASSUME NEW o \in Objects, NEW flags, EventCreate(o) \/ MetalBufferWrap(o, flags) \/ HandleDestroy(o)
      PROVE  CallOK'
  BY <1>2, <1>5 DEF EventCreate, MetalBufferWrap, HandleDestroy, Idle
<1>6. ASSUME NEW d \in Descs, AddOutOfMemory(d) PROVE CallOK'
  BY <1>2, <1>6 DEF AddOutOfMemory, CanAdd, Idle
<1>7. ASSUME NEW d \in Descs, AddBegin(d) PROVE CallOK'
  <2>1. /\ call' = Call("add", d, d.parts) /\ estate' # "building" /\ galive'
        /\ \A o \in Named(d) : handle'[o]
    BY <1>7 DEF AddBegin, CanAdd, Idle, objectVars, execVars
  <2>2. /\ call'.op = "add" /\ call'.desc = d /\ call'.parts = d.parts /\ call'.package = FALSE
    BY <2>1 DEF Call
  <2>3. PartsOK(call') /\ Covers(call') /\ \A i \in DOMAIN d.parts : d.parts[i].op # "package"
    BY <2>1, DescParts, NodeBegun
  <2> QED BY <2>1, <2>2, <2>3 DEF CallOK
<1>8. CASE BuildPart
  <2>1. /\ call.op \in {"add", "clone"} /\ PartsOK(call) /\ Covers(call)
        /\ UNCHANGED <<handle, graphVars, estate, enodes>> /\ call \in CallType
    BY <1>0, <1>8, PartTyped DEF Types
  <2>2. /\ call'.op = call.op /\ call'.desc = call.desc
        /\ PartsOK(call') /\ Covers(call')
        /\ (\A i \in DOMAIN call.parts : call.parts[i].op # "package") =>
              /\ \A i \in DOMAIN call'.parts : call'.parts[i].op # "package"
              /\ call'.package = call.package
    BY <1>8, <2>1, PartBuilt
  <2> QED BY <1>0, <2>1, <2>2 DEF CallOK, graphVars
<1>9. CASE AddEnd \/ AddFails \/ CloneEnd \/ ExecClear
  BY <1>2, <1>9 DEF AddEnd, AddFails, CloneEnd, ExecClear
<1>10. CASE GraphDestroy \/ InstantiateEnd \/ InstantiateBegin
  BY <1>2, <1>10 DEF GraphDestroy, InstantiateEnd, InstantiateBegin, Idle
<1>11. CASE CloneBegin
  <2> DEFINE d == nodes[Len(enodes) + 1].desc
  <2>1. /\ call' = Call("clone", d, CloneParts(d)) /\ estate' = "building"
        /\ Len(enodes) < Len(nodes) /\ UNCHANGED <<enodes, nodes>>
    BY <1>11 DEF CloneBegin, graphVars, execVars
  <2>2. d \in Descs
    <3>1. Len(enodes) + 1 \in DOMAIN nodes
      BY <1>0, <2>1 DEF Types
    <3> QED BY <1>0, <3>1 DEF NodesOK
  <2> HIDE DEF d
  <2>3. call'.op = "clone" /\ call'.desc = d
    BY <2>1 DEF Call
  <2>4. PartsOK(call') /\ Covers(call')
    BY <2>1, <2>2, DescParts, NodeBegun
  <2> QED BY <2>1, <2>2, <2>3, <2>4 DEF CallOK, d
<1> QED
  BY <1>1, <1>3, <1>4, <1>5, <1>6, <1>7, <1>8, <1>9, <1>10, <1>11
  DEF Next, BuildPart, CloneFails, WorkspaceAllocateFails, ExecDestroy

(* Each step keeps what is said of the nodes.                               *)
LEMMA NodesStep ==
    ASSUME BuildInv, [Next]_vars
    PROVE  NodesOK'
<1>0. Types /\ CallOK /\ NodesOK
  BY DEF BuildInv
<1>1. CASE UNCHANGED vars
  BY <1>0, <1>1 DEF vars, graphVars, execVars, NodesOK
<1>2. ASSUME NEW o \in Objects, NEW flags,
             \/ BufferCreateShared(o) \/ BufferCreateEnd(o) \/ BufferCreateFails(o)
             \/ EventCreate(o) \/ MetalBufferWrap(o, flags) \/ HandleDestroy(o)
      PROVE  NodesOK'
  BY <1>0, <1>2 DEF BufferCreateShared, BufferCreateEnd, BufferCreateFails, EventCreate,
                    MetalBufferWrap, HandleDestroy, graphVars, execVars, NodesOK
<1>3. ASSUME NEW d \in Descs, AddBegin(d) \/ AddOutOfMemory(d) PROVE NodesOK'
  BY <1>0, <1>3 DEF AddBegin, AddOutOfMemory, execVars, NodesOK
<1>4. CASE BuildPart
  BY <1>0, <1>4, PartTyped DEF graphVars, NodesOK
<1>5. (call.op \in {"add", "clone"} /\ call.parts = <<>>) =>
        call.desc \in Descs /\ call.tensors = <<>> /\ Items(call.held) = Named(call.desc)
  <2>1. PartsNamed(<<>>) = {}
    BY DEF PartsNamed
  <2> QED BY <1>0, <2>1, ItemsOne DEF CallOK, PartsOK, Covers
<1>6. CASE AddEnd
  <2> DEFINE n == [desc |-> call.desc, held |-> call.held]
  <2>1. /\ call.desc \in Descs /\ Items(call.held) = Named(call.desc)
        /\ estate # "building" /\ galive
    BY <1>0, <1>5, <1>6 DEF AddEnd, CallOK
  <2>2. /\ n.desc \in Descs /\ Items(n.held) = Named(n.desc) /\ n \in Node
    BY <1>0, <2>1 DEF Node, Types, CallType
  <2>3. nodes' = Append(nodes, n) /\ UNCHANGED <<galive, execVars>>
    BY <1>6 DEF AddEnd
  <2> HIDE DEF n
  <2>4. \A i \in DOMAIN nodes' : nodes'[i] = n \/ (i \in DOMAIN nodes /\ nodes'[i] = nodes[i])
    BY <1>0, <2>2, <2>3 DEF Types
  <2> QED BY <1>0, <2>1, <2>2, <2>3, <2>4 DEF NodesOK, execVars
<1>7. CASE AddFails
  BY <1>0, <1>7 DEF AddFails, graphVars, execVars, NodesOK
<1>8. CASE GraphDestroy
  BY <1>0, <1>8 DEF GraphDestroy, Idle, execVars, NodesOK
<1>9. CASE InstantiateBegin \/ InstantiateEnd
  BY <1>0, <1>9 DEF InstantiateBegin, InstantiateEnd, graphVars, NodesOK, Types
<1>10. CASE CloneBegin
  BY <1>0, <1>10 DEF CloneBegin, graphVars, execVars, NodesOK
<1>11. CASE CloneEnd
  <2> DEFINE n == [held |-> call.held, package |-> call.package]
             m == Len(enodes) + 1
  <2>1. /\ Items(call.held) = Named(nodes[m].desc) /\ estate = "building"
        /\ Len(enodes) < Len(nodes)
    BY <1>0, <1>5, <1>11 DEF CloneEnd, CallOK
  <2>2. n.held = call.held /\ n \in ExecNode
    BY <1>0 DEF ExecNode, Types, CallType
  <2>3. enodes' = Append(enodes, n) /\ UNCHANGED <<graphVars, estate>>
    BY <1>11 DEF CloneEnd
  <2>4. m \in DOMAIN nodes /\ Items(nodes[m].held) = Named(nodes[m].desc)
    BY <1>0, <2>1 DEF Types, NodesOK
  <2> HIDE DEF n
  <2>5. /\ Len(enodes') = m /\ m <= Len(nodes) /\ enodes'[m] = n
        /\ \A i \in DOMAIN enodes' : i = m \/ (i \in DOMAIN enodes /\ enodes'[i] = enodes[i])
    BY <1>0, <2>1, <2>2, <2>3 DEF Types
  <2> HIDE DEF m
  <2> QED BY <1>0, <2>1, <2>2, <2>3, <2>4, <2>5 DEF NodesOK, graphVars
<1>12. CASE ExecClear
  BY <1>0, <1>12 DEF ExecClear, graphVars, NodesOK
<1> QED
  BY <1>1, <1>2, <1>3, <1>4, <1>6, <1>7, <1>8, <1>9, <1>10, <1>11, <1>12
  DEF Next, BuildPart, CloneFails, WorkspaceAllocateFails, ExecDestroy

-----------------------------------------------------------------------------
(* References.                                                              *)

(* The reference of a handle, if there is one.                              *)
One(condition) == IF condition THEN 1 ELSE 0

(* It counts one or none.                                                   *)
LEMMA OneTyped == One(TRUE) = 1 /\ One(FALSE) = 0 /\ \A b \in BOOLEAN : One(b) \in Nat
BY DEF One

(* A call that is not building a node holds nothing.                        *)
LEMMA HoldsNothing ==
    ASSUME CallOK, call.op \in {"none", "create"}
    PROVE  call.held = <<>> /\ call.tensors = <<>> /\ call.package = FALSE
<1>1. call = NoCall \/ \E p : call = Call("create", Barrier, p)
  BY DEF CallOK
<1> QED BY <1>1 DEF NoCall, Call

(* The object a creation is about is the one it is named for.               *)
LEMMA CreatingOne ==
    ASSUME CallOK, NEW o, Creating(o)
    PROVE  o \in Objects /\ ~made[o] /\ backend[o] /\ ~owner[o]
<1>1. call.op = "create" /\ call.parts = <<Part("array", <<o>>)>>
  BY DEF Creating
<1>2. PICK p \in Objects : /\ call = Call("create", Barrier, <<Part("array", <<p>>)>>)
                           /\ ~made[p] /\ backend[p] /\ ~owner[p]
  BY <1>1 DEF CallOK
<1>3. call.parts[1].objs[1] = o /\ call.parts[1].objs[1] = p
  <2>1. call.parts[1] = Part("array", <<o>>) /\ call.parts[1] = Part("array", <<p>>)
    BY <1>1, <1>2 DEF Call
  <2>2. call.parts[1].objs = <<o>> /\ call.parts[1].objs = <<p>>
    BY <2>1 DEF Part
  <2> QED BY <2>2
<1> QED BY <1>2, <1>3

(* An object is handed out once.                                            *)
LEMMA HandsOut ==
    ASSUME BuildInv, NEW o \in Objects, NEW flags,
           BufferCreateEnd(o) \/ EventCreate(o) \/ MetalBufferWrap(o, flags)
    PROVE  /\ HandedOut(o) /\ ~made[o] /\ ref_count[o] = 0
           /\ call.op \in {"none", "create"} /\ call' = NoCall
           /\ UNCHANGED <<graphVars, execVars>>
<1>1. ~made[o]
  <2>1. BufferCreateEnd(o) => Creating(o)
    BY DEF BufferCreateEnd
  <2> QED BY <2>1, CreatingOne DEF BuildInv, EventCreate, MetalBufferWrap
<1>2. ref_count[o] = 0
  BY <1>1 DEF BuildInv, ObjectsOK
<1> QED BY <1>1, <1>2 DEF BufferCreateEnd, EventCreate, MetalBufferWrap, Creating, Idle, NoCall, Call

(* References stay exact where every object gains or loses as many of them  *)
(* as of its holders.                                                       *)
LEMMA BalancedStep ==
    ASSUME BuildInv, NEW o \in Objects, Types',
           ref_count'[o] - One(handle'[o]) - HeldBy(nodes', o) - HeldBy(enodes', o)
               - Occurrences(call'.held, o) - Occurrences(call'.tensors, o)
             = ref_count[o] - One(handle[o]) - HeldBy(nodes, o) - HeldBy(enodes, o)
               - Occurrences(call.held, o) - Occurrences(call.tensors, o)
    PROVE  ref_count'[o] = One(handle'[o]) + HeldBy(nodes', o) + HeldBy(enodes', o)
                             + Occurrences(call'.held, o) + Occurrences(call'.tensors, o)
<1>1. /\ HeldBy(nodes, o) \in Nat /\ HeldBy(enodes, o) \in Nat
      /\ Occurrences(call.held, o) \in Nat /\ Occurrences(call.tensors, o) \in Nat
  BY CountsTyped DEF BuildInv
<1>2. /\ HeldBy(nodes', o) \in Nat /\ HeldBy(enodes', o) \in Nat
  BY SlotsFinite DEF Types
<1>3. Occurrences(call'.held, o) \in Nat /\ Occurrences(call'.tensors, o) \in Nat
  BY PlacesFinite DEF Types, CallType
<1>4. ref_count[o] \in Int /\ ref_count'[o] \in Int
  BY DEF BuildInv, Types
<1>5. ref_count[o] = One(handle[o]) + HeldBy(nodes, o) + HeldBy(enodes, o)
                       + Occurrences(call.held, o) + Occurrences(call.tensors, o)
  BY DEF BuildInv, BuildRefsExact, One
<1>6. One(handle[o]) \in Nat /\ One(handle'[o]) \in Nat
  BY OneTyped DEF BuildInv, Types
<1> QED BY <1>1, <1>2, <1>3, <1>4, <1>5, <1>6

(* Each step keeps references exact.                                        *)
LEMMA RefStep ==
    ASSUME BuildInv, [Next]_vars, Types'
    PROVE  BuildRefsExact'
<1> SUFFICES ASSUME NEW o \in Objects
             PROVE  ref_count'[o] = One(handle'[o]) + HeldBy(nodes', o)
                                      + HeldBy(enodes', o) + Occurrences(call'.held, o)
                                      + Occurrences(call'.tensors, o)
  BY DEF BuildRefsExact, One
<1> DEFINE Balanced ==
             ref_count'[o] - One(handle'[o]) - HeldBy(nodes', o) - HeldBy(enodes', o)
                 - Occurrences(call'.held, o) - Occurrences(call'.tensors, o)
               = ref_count[o] - One(handle[o]) - HeldBy(nodes, o) - HeldBy(enodes, o)
                 - Occurrences(call.held, o) - Occurrences(call.tensors, o)
           Exact == ref_count'[o] = One(handle'[o]) + HeldBy(nodes', o)
                                      + HeldBy(enodes', o) + Occurrences(call'.held, o)
                                      + Occurrences(call'.tensors, o)
<1>0. Types /\ CallOK /\ NodesOK
  BY DEF BuildInv
<1>1. Balanced => Exact
  BY BalancedStep
<1>2. /\ HeldBy(nodes, o) \in Nat /\ HeldBy(enodes, o) \in Nat
      /\ Occurrences(call.held, o) \in Nat /\ Occurrences(call.tensors, o) \in Nat
      /\ Undone(o) = Occurrences(call.held, o) + Occurrences(call.tensors, o)
      /\ HeldBy(<<>>, o) = 0 /\ Occurrences(<<>>, o) = 0
  BY <1>0, CountsTyped, NothingHeld, OccurrencesOne
<1>3. ref_count[o] \in Int /\ ref_count'[o] \in Int /\ One(handle[o]) \in Nat
      /\ One(TRUE) = 1 /\ One(FALSE) = 0
  BY <1>0, OneTyped DEF Types
<1>4. ref_count[o] = One(handle[o]) + HeldBy(nodes, o) + HeldBy(enodes, o)
                       + Occurrences(call.held, o) + Occurrences(call.tensors, o)
  BY DEF BuildInv, BuildRefsExact, One
<1>5. call' = NoCall => Occurrences(call'.held, o) = 0 /\ Occurrences(call'.tensors, o) = 0
  BY <1>2 DEF NoCall, Call
<1>6. call.op \in {"none", "create"} =>
        Occurrences(call.held, o) = 0 /\ Occurrences(call.tensors, o) = 0
  BY <1>0, <1>2, HoldsNothing
<1>7. call = NoCall => call.op \in {"none", "create"}
  BY DEF NoCall, Call
<1>8. ASSUME NEW op, NEW d, NEW ps, call' = Call(op, d, ps)
      PROVE  Occurrences(call'.held, o) = 0 /\ Occurrences(call'.tensors, o) = 0
  BY <1>2, <1>8 DEF Call
<1>9. CASE UNCHANGED vars
  BY <1>1, <1>9 DEF vars, objectVars, graphVars, execVars
<1>10. ASSUME NEW q \in Objects, BufferCreateShared(q) PROVE Exact
  <2>1. /\ UNCHANGED <<ref_count, handle, nodes, enodes>> /\ call = NoCall
        /\ Occurrences(call'.held, o) = 0 /\ Occurrences(call'.tensors, o) = 0
    BY <1>8, <1>10 DEF BufferCreateShared, Idle, graphVars, execVars
  <2>2. Balanced
    BY <1>6, <1>7, <2>1
  <2> QED BY <1>1, <2>2
<1>11. ASSUME NEW q \in Objects, BufferCreateFails(q) PROVE Exact
  <2>1. /\ UNCHANGED <<ref_count, handle, nodes, enodes>> /\ call.op = "create" /\ call' = NoCall
    BY <1>11 DEF BufferCreateFails, Creating, graphVars, execVars
  <2>2. Balanced
    BY <1>5, <1>6, <2>1
  <2> QED BY <1>1, <2>2
<1>12. ASSUME NEW q \in Objects, NEW flags,
              BufferCreateEnd(q) \/ EventCreate(q) \/ MetalBufferWrap(q, flags)
       PROVE  Exact
  <2>1. /\ HandedOut(q) /\ ref_count[q] = 0
        /\ call.op \in {"none", "create"} /\ call' = NoCall
        /\ UNCHANGED <<nodes, enodes>>
    BY <1>12, HandsOut DEF graphVars, execVars
  <2>2. CASE o = q
    <3>1. ref_count'[o] = 1 /\ handle'[o] = TRUE
      BY <1>0, <2>1, <2>2 DEF HandedOut, Types
    <3>2. ref_count[o] = 0
      BY <2>1, <2>2
    <3>3. HeldBy(nodes, o) = 0 /\ HeldBy(enodes, o) = 0
      BY <1>2, <1>3, <1>4, <3>2
    <3>4. /\ One(handle'[o]) = 1 /\ HeldBy(nodes', o) = 0 /\ HeldBy(enodes', o) = 0
          /\ Occurrences(call'.held, o) = 0 /\ Occurrences(call'.tensors, o) = 0
      BY <1>3, <1>5, <2>1, <3>1, <3>3
    <3> QED BY <3>1, <3>4
  <2>3. CASE o # q
    <3>1. ref_count'[o] = ref_count[o] /\ handle'[o] = handle[o]
      BY <1>0, <2>1, <2>3 DEF HandedOut, Types
    <3>2. Balanced
      BY <1>5, <1>6, <2>1, <3>1
    <3> QED BY <1>1, <3>2
  <2> QED BY <2>2, <2>3
<1>13. ASSUME NEW q \in Objects, HandleDestroy(q) PROVE Exact
  <2> DEFINE dropped == [p \in Objects |-> IF p = q THEN 1 ELSE 0]
  <2>1. /\ Release(dropped) /\ handle[q] /\ handle' = [handle EXCEPT ![q] = FALSE]
        /\ UNCHANGED <<nodes, enodes, call>> /\ dropped \in [Objects -> Nat]
    BY <1>13 DEF HandleDestroy, graphVars, execVars
  <2>2. ref_count'[o] = ref_count[o] - dropped[o]
    <3> HIDE DEF dropped
    <3> QED BY <1>0, <2>1, Released
  <2>3. CASE o = q
    <3>1. handle[o] = TRUE /\ handle'[o] = FALSE /\ ref_count'[o] = ref_count[o] - 1
      BY <1>0, <2>1, <2>2, <2>3 DEF Types
    <3>2. /\ One(handle[o]) = 1 /\ One(handle'[o]) = 0 /\ call' = call
          /\ HeldBy(nodes', o) = HeldBy(nodes, o) /\ HeldBy(enodes', o) = HeldBy(enodes, o)
      BY <1>3, <2>1, <3>1
    <3>3. Balanced
      BY <1>2, <1>3, <3>1, <3>2
    <3> QED BY <1>1, <3>3
  <2>4. CASE o # q
    <3>1. handle'[o] = handle[o] /\ ref_count'[o] = ref_count[o]
      BY <1>0, <1>3, <2>1, <2>2, <2>4 DEF Types
    <3>2. Balanced
      BY <2>1, <3>1
    <3> QED BY <1>1, <3>2
  <2> QED BY <2>3, <2>4
<1>14. ASSUME NEW d \in Descs, AddBegin(d) \/ AddOutOfMemory(d) PROVE Exact
  <2>1. /\ UNCHANGED <<ref_count, handle, nodes, enodes>> /\ call.op \in {"none", "create"}
        /\ Occurrences(call'.held, o) = 0 /\ Occurrences(call'.tensors, o) = 0
    <3>1. CASE AddBegin(d)
      BY <1>7, <1>8, <3>1 DEF AddBegin, CanAdd, Idle, objectVars, execVars
    <3>2. CASE AddOutOfMemory(d)
      BY <1>5, <1>7, <3>2 DEF AddOutOfMemory, CanAdd, Idle, objectVars, execVars
    <3> QED BY <1>14, <3>1, <3>2
  <2>2. Balanced
    BY <1>6, <2>1
  <2> QED BY <1>1, <2>2
<1>15. CASE BuildPart
  <2>1. /\ PartsOK(call) /\ Covers(call) /\ call \in CallType /\ ref_count \in [Objects -> Int]
        /\ UNCHANGED <<handle, nodes, enodes>>
    BY <1>0, <1>15, PartTyped DEF Types, graphVars
  <2>2. ref_count'[o] - Occurrences(call'.held, o) - Occurrences(call'.tensors, o)
          = ref_count[o] - Occurrences(call.held, o) - Occurrences(call.tensors, o)
    BY <1>15, <2>1, PartCounted
  <2>3. Occurrences(call'.held, o) \in Nat /\ Occurrences(call'.tensors, o) \in Nat
    BY PlacesFinite DEF Types, CallType
  <2>4. /\ One(handle'[o]) = One(handle[o]) /\ HeldBy(nodes', o) = HeldBy(nodes, o)
        /\ HeldBy(enodes', o) = HeldBy(enodes, o)
    BY <2>1
  <2>5. Balanced
    <3> DEFINE r == ref_count[o]    rr == ref_count'[o]
               h == Occurrences(call.held, o)    hh == Occurrences(call'.held, o)
               t == Occurrences(call.tensors, o) tt == Occurrences(call'.tensors, o)
               a == One(handle[o])  b == HeldBy(nodes, o)  c == HeldBy(enodes, o)
    <3>1. /\ r \in Int /\ rr \in Int /\ h \in Nat /\ hh \in Nat /\ t \in Nat /\ tt \in Nat
          /\ a \in Nat /\ b \in Nat /\ c \in Nat /\ rr - hh - tt = r - h - t
      BY <1>2, <1>3, <2>2, <2>3
    <3> HIDE DEF r, rr, h, hh, t, tt, a, b, c
    <3>2. rr - a - b - c - hh - tt = r - a - b - c - h - t
      BY <3>1
    <3> QED BY <2>4, <3>2 DEF r, rr, h, hh, t, tt, a, b, c
  <2> QED BY <1>1, <2>5
<1>16. (call.op \in {"add", "clone"} /\ call.parts = <<>>) => call.tensors = <<>>
  BY <1>0 DEF CallOK, PartsOK
<1>17. CASE AddEnd
  <2> DEFINE n == [desc |-> call.desc, held |-> call.held]
  <2>1. /\ nodes' = Append(nodes, n) /\ n.held = call.held /\ call' = NoCall
        /\ UNCHANGED <<ref_count, handle, enodes>> /\ call.tensors = <<>>
    BY <1>16, <1>17 DEF AddEnd, objectVars, execVars
  <2>2. n \in Node
    BY <1>0, <1>17 DEF AddEnd, CallOK, Node, Types, CallType
  <2> HIDE DEF n
  <2>3. HeldBy(nodes', o) = HeldBy(nodes, o) + Occurrences(call.held, o)
    BY <1>0, <2>1, <2>2, HeldByAppended DEF Types
  <2>4. Balanced
    BY <1>2, <1>3, <1>5, <2>1, <2>3
  <2> QED BY <1>1, <2>4
<1>18. CASE CloneEnd
  <2> DEFINE n == [held |-> call.held, package |-> call.package]
  <2>1. /\ enodes' = Append(enodes, n) /\ n.held = call.held /\ call' = NoCall
        /\ UNCHANGED <<ref_count, handle, nodes>> /\ call.tensors = <<>>
    BY <1>16, <1>18 DEF CloneEnd, objectVars, graphVars
  <2>2. n \in ExecNode
    BY <1>0 DEF ExecNode, Types, CallType
  <2> HIDE DEF n
  <2>3. HeldBy(enodes', o) = HeldBy(enodes, o) + Occurrences(call.held, o)
    BY <1>0, <2>1, <2>2, HeldByAppended DEF Types
  <2>4. Balanced
    BY <1>2, <1>3, <1>5, <2>1, <2>3
  <2> QED BY <1>1, <2>4
<1>19. CASE AddFails
  <2> DEFINE dropped == [p \in Objects |-> Undone(p)]
  <2>1. /\ Release(dropped) /\ call' = NoCall /\ UNCHANGED <<handle, nodes, enodes>>
        /\ dropped \in [Objects -> Nat] /\ dropped[o] = Undone(o)
    BY <1>0, <1>19, CountsTyped DEF AddFails, graphVars, execVars
  <2> HIDE DEF dropped
  <2>2. ref_count'[o] = ref_count[o] - dropped[o]
    BY <1>0, <2>1, Released
  <2>3. /\ One(handle'[o]) = One(handle[o]) /\ HeldBy(nodes', o) = HeldBy(nodes, o)
        /\ HeldBy(enodes', o) = HeldBy(enodes, o)
        /\ Occurrences(call'.held, o) = 0 /\ Occurrences(call'.tensors, o) = 0
    BY <1>5, <2>1
  <2>4. ref_count'[o] = ref_count[o] - (Occurrences(call.held, o) + Occurrences(call.tensors, o))
    BY <1>2, <2>1, <2>2
  <2>5. Balanced
    BY <1>2, <1>3, <2>3, <2>4, SMTT(30)
  <2> QED BY <1>1, <2>5
<1>20. CASE GraphDestroy
  <2> DEFINE dropped == [p \in Objects |-> HeldBy(nodes, p)]
  <2>1. /\ Release(dropped) /\ nodes' = <<>> /\ UNCHANGED <<handle, enodes, call>>
        /\ dropped \in [Objects -> Nat] /\ dropped[o] = HeldBy(nodes, o)
    BY <1>0, <1>20, CountsTyped DEF GraphDestroy, execVars
  <2> HIDE DEF dropped
  <2>2. ref_count'[o] = ref_count[o] - dropped[o]
    BY <1>0, <2>1, Released
  <2>3. /\ One(handle'[o]) = One(handle[o]) /\ HeldBy(nodes', o) = 0
        /\ HeldBy(enodes', o) = HeldBy(enodes, o) /\ call' = call
        /\ ref_count'[o] = ref_count[o] - HeldBy(nodes, o)
    BY <1>2, <2>1, <2>2
  <2>4. Balanced
    BY <1>2, <1>3, <2>3
  <2> QED BY <1>1, <2>4
<1>21. CASE ExecClear
  <2> DEFINE dropped == [p \in Objects |-> HeldBy(enodes, p) + Undone(p)]
  <2>1. /\ Release(dropped) /\ enodes' = <<>> /\ call' = NoCall /\ UNCHANGED <<handle, nodes>>
        /\ dropped \in [Objects -> Nat] /\ dropped[o] = HeldBy(enodes, o) + Undone(o)
    BY <1>0, <1>21, ExecClearTyped DEF ExecClear, graphVars
  <2> HIDE DEF dropped
  <2>2. ref_count'[o] = ref_count[o] - dropped[o]
    BY <1>0, <2>1, Released
  <2>3. /\ One(handle'[o]) = One(handle[o]) /\ HeldBy(nodes', o) = HeldBy(nodes, o)
        /\ HeldBy(enodes', o) = 0
        /\ Occurrences(call'.held, o) = 0 /\ Occurrences(call'.tensors, o) = 0
    BY <1>2, <1>5, <2>1
  <2>4. ref_count'[o] = ref_count[o] - (HeldBy(enodes, o) + Occurrences(call.held, o)
                                         + Occurrences(call.tensors, o))
    BY <1>2, <1>3, <2>1, <2>2
  <2>5. Balanced
    BY <1>2, <1>3, <2>3, <2>4, SMTT(30)
  <2> QED BY <1>1, <2>5
<1>22. CASE InstantiateBegin \/ InstantiateEnd
  BY <1>1, <1>22 DEF InstantiateBegin, InstantiateEnd, objectVars, graphVars
<1>23. CASE CloneBegin
  <2>1. /\ UNCHANGED <<ref_count, handle, nodes, enodes>> /\ call = NoCall
        /\ Occurrences(call'.held, o) = 0 /\ Occurrences(call'.tensors, o) = 0
    BY <1>8, <1>23 DEF CloneBegin, objectVars, graphVars, execVars
  <2>2. Balanced
    BY <1>6, <1>7, <2>1
  <2> QED BY <1>1, <2>2
<1> QED
  BY <1>9, <1>10, <1>11, <1>12, <1>13, <1>14, <1>15, <1>17, <1>18, <1>19, <1>20, <1>21, <1>22, <1>23
  DEF Next, BuildPart, CloneFails, WorkspaceAllocateFails, ExecDestroy

-----------------------------------------------------------------------------
(* Objects, packages and capacity.                                          *)

(* An object is referred to exactly while something holds it.               *)
Alive ==
    \A o \in Objects :
        /\ ref_count[o] \in Nat
        /\ ref_count[o] = 0 <=>
             /\ ~handle[o] /\ HeldBy(nodes, o) = 0 /\ HeldBy(enodes, o) = 0
             /\ Occurrences(call.held, o) = 0 /\ Occurrences(call.tensors, o) = 0

(* Exact counts say so, before a step and after it.                         *)
LEMMA ExactAlive == Types /\ BuildRefsExact => Alive
<1> SUFFICES ASSUME Types, BuildRefsExact, NEW o \in Objects
             PROVE  /\ ref_count[o] \in Nat
                    /\ ref_count[o] = 0 <=>
                         /\ ~handle[o] /\ HeldBy(nodes, o) = 0 /\ HeldBy(enodes, o) = 0
                         /\ Occurrences(call.held, o) = 0 /\ Occurrences(call.tensors, o) = 0
  BY DEF Alive
<1>1. /\ HeldBy(nodes, o) \in Nat /\ HeldBy(enodes, o) \in Nat
      /\ Occurrences(call.held, o) \in Nat /\ Occurrences(call.tensors, o) \in Nat
  BY CountsTyped
<1>2. ref_count[o] = One(handle[o]) + HeldBy(nodes, o) + HeldBy(enodes, o)
                       + Occurrences(call.held, o) + Occurrences(call.tensors, o)
  BY DEF BuildRefsExact, One
<1>3. One(handle[o]) \in Nat /\ (One(handle[o]) = 0 <=> ~handle[o])
  BY DEF One, Types
<1>4. ref_count[o] = 0 <=>
        /\ One(handle[o]) = 0 /\ HeldBy(nodes, o) = 0 /\ HeldBy(enodes, o) = 0
        /\ Occurrences(call.held, o) = 0 /\ Occurrences(call.tensors, o) = 0
  BY <1>1, <1>2, <1>3
<1>5. ref_count[o] \in Nat
  BY <1>1, <1>2, <1>3
<1> QED BY <1>3, <1>4, <1>5, Zenon

(* And so they do after a step.                                             *)
LEMMA ExactAliveNext ==
    ASSUME Types', BuildRefsExact'
    PROVE  Alive'
BY ExactAlive, PTL

(* What the node being built names, something else holds.                   *)
LEMMA NamedHeld ==
    ASSUME BuildInv, call.op \in {"add", "clone"}, NEW o \in Named(call.desc)
    PROVE  handle[o] \/ HeldBy(nodes, o) # 0
<1>0. Types /\ CallOK /\ NodesOK
  BY DEF BuildInv
<1>1. CASE call.op = "add"
  BY <1>0, <1>1 DEF CallOK
<1>2. CASE call.op = "clone"
  <2> DEFINE m == Len(enodes) + 1
  <2>1. m \in DOMAIN nodes /\ call.desc = nodes[m].desc
    BY <1>0, <1>2 DEF CallOK, Types
  <2>2. o \in Items(nodes[m].held)
    BY <1>0, <2>1 DEF NodesOK
  <2>3. nodes \in Seq(Node)
    BY <1>0 DEF Types
  <2> HIDE DEF m
  <2> QED BY <2>1, <2>2, <2>3, SlotsFinite
<1> QED BY <1>1, <1>2

(* What the call has built so far, the node names.                          *)
LEMMA UndoneNamed ==
    ASSUME Types, CallOK, NEW o, Undone(o) # 0
    PROVE  call.op \in {"add", "clone"} /\ o \in Named(call.desc)
<1>1. /\ Undone(o) = Occurrences(call.held, o) + Occurrences(call.tensors, o)
      /\ Occurrences(call.held, o) \in Nat /\ Occurrences(call.tensors, o) \in Nat
  BY CountsTyped
<1>2. Occurrences(call.held, o) # 0 \/ Occurrences(call.tensors, o) # 0
  BY <1>1
<1>3. call.op \notin {"none", "create"}
  BY <1>2, HoldsNothing, OccurrencesOne
<1>4. call.op \in {"add", "clone"}
  BY <1>3 DEF Types, CallType
<1>5. call.held \in Seq(Objects) /\ call.tensors \in Seq(Objects)
  BY DEF Types, CallType
<1>6. o \in Items(call.held) \/ o \in Items(call.tensors)
  BY <1>2, <1>5, PlacesFinite
<1> QED BY <1>4, <1>6 DEF CallOK, Covers

(* How a step leaves an object: as alive as it was, with what it keeps; let *)
(* go of; or handed out.                                                    *)
Untouched(o) ==
    /\ backend'[o] = backend[o] /\ owner'[o] = owner[o] /\ made'[o] = made[o]
    /\ ref_count'[o] > 0 <=> ref_count[o] > 0
LetGo(o) ==
    /\ made'[o] = made[o] /\ ref_count'[o] <= ref_count[o]
    /\ backend'[o] <=> backend[o] /\ ref_count'[o] > 0
    /\ owner'[o] <=> owner[o] /\ ref_count'[o] > 0

(* What is given up lets go of objects.                                     *)
LEMMA ReleaseLetsGo ==
    ASSUME Types, NEW dropped \in [Objects -> Nat], Release(dropped), NEW o \in Objects
    PROVE  LetGo(o)
<1>1. /\ ref_count'[o] = ref_count[o] - dropped[o] /\ made' = made
      /\ backend'[o] <=> backend[o] /\ ref_count'[o] > 0
      /\ owner'[o] <=> owner[o] /\ ref_count'[o] > 0
  BY Released
<1>2. ref_count'[o] <= ref_count[o]
  <2>1. ref_count[o] \in Int /\ dropped[o] \in Nat
    BY DEF Types
  <2>2. ref_count'[o] = ref_count[o] - dropped[o]
    BY <1>1
  <2> QED BY <2>1, <2>2
<1> QED BY <1>1, <1>2, Zenon DEF LetGo

(* A step leaves each object in one of these ways.                          *)
LEMMA ObjectForm ==
    ASSUME BuildInv, [Next]_vars, Types', Alive', NEW o \in Objects
    PROVE  \/ ~Creating(o) /\ ~Creating(o)' /\ (Untouched(o) \/ LetGo(o))
           \/ made'[o] /\ ref_count'[o] > 0 /\ (backend'[o] \/ owner'[o])
           \/ Creating(o)' /\ ~made'[o] /\ ref_count'[o] = 0
           \/ ~made'[o] /\ ref_count'[o] = 0 /\ ~backend'[o] /\ ~owner'[o]
<1> DEFINE Goal == \/ ~Creating(o) /\ ~Creating(o)' /\ (Untouched(o) \/ LetGo(o))
                   \/ made'[o] /\ ref_count'[o] > 0 /\ (backend'[o] \/ owner'[o])
                   \/ Creating(o)' /\ ~made'[o] /\ ref_count'[o] = 0
                   \/ ~made'[o] /\ ref_count'[o] = 0 /\ ~backend'[o] /\ ~owner'[o]
<1>0. Types /\ CallOK /\ NodesOK
  BY DEF BuildInv
<1>1. Alive
  BY ExactAlive DEF BuildInv
<1>2. UNCHANGED objectVars => Untouched(o)
  BY DEF objectVars, Untouched
<1>3. call.op # "create" => ~Creating(o)
  BY DEF Creating
<1>4. call'.op # "create" => ~Creating(o)'
  BY DEF Creating
<1>5. call = NoCall => ~Creating(o)
  BY DEF Creating, NoCall, Call
<1>6. call' = NoCall => ~Creating(o)'
  BY DEF Creating, NoCall, Call
<1>7. Creating(o) => ~made[o] /\ ref_count[o] = 0 /\ ~owner[o]
  BY <1>0, CreatingOne DEF BuildInv, ObjectsOK
<1>8. CASE UNCHANGED vars
  <2>1. Untouched(o) /\ made'[o] = made[o] /\ ref_count'[o] = ref_count[o] /\ call' = call
    BY <1>2, <1>8 DEF vars, objectVars
  <2>2. Creating(o)' <=> Creating(o)
    BY <2>1 DEF Creating
  <2> QED BY <1>7, <2>1, <2>2
<1>9. ASSUME NEW q \in Objects, BufferCreateShared(q) PROVE Goal
  <2>1. /\ call = NoCall /\ call' = Call("create", Barrier, <<Part("array", <<q>>)>>)
        /\ backend' = [backend EXCEPT ![q] = TRUE] /\ UNCHANGED <<ref_count, owner, made>> /\ ~made[q]
    BY <1>9 DEF BufferCreateShared, Idle
  <2>2. CASE o = q
    <3>1. Creating(o)'
      BY <2>1, <2>2 DEF Creating, Call
    <3>2. ref_count'[o] = 0 /\ ~made'[o]
      BY <2>1, <2>2 DEF BuildInv, ObjectsOK
    <3> QED BY <3>1, <3>2
  <2>3. CASE o # q
    <3>1. ~Creating(o)'
      <4>1. call'.parts[1].objs = <<q>>
        BY <2>1 DEF Call, Part
      <4>2. Creating(o)' => call'.parts[1].objs = <<o>>
        BY DEF Creating, Part
      <4> QED BY <2>3, <4>1, <4>2
    <3>2. Untouched(o)
      BY <1>0, <2>1, <2>3 DEF Untouched, Types
    <3> QED BY <1>5, <2>1, <3>1, <3>2
  <2> QED BY <2>2, <2>3
<1>10. ASSUME NEW q \in Objects, BufferCreateFails(q) PROVE Goal
  <2>1. /\ Creating(q) /\ backend' = [backend EXCEPT ![q] = FALSE] /\ call' = NoCall
        /\ UNCHANGED <<ref_count, owner, made>>
    BY <1>10 DEF BufferCreateFails
  <2>2. CASE Creating(o)
    <3>1. o = q
      BY <2>1, <2>2 DEF Creating, Part
    <3>2. ~backend'[o]
      BY <1>0, <2>1, <3>1 DEF Types
    <3> QED BY <1>7, <2>1, <2>2, <3>2
  <2>3. CASE ~Creating(o)
    <3>1. o # q
      BY <2>1, <2>3
    <3>2. Untouched(o)
      BY <1>0, <2>1, <3>1 DEF Untouched, Types
    <3> QED BY <1>6, <2>1, <2>3, <3>2
  <2> QED BY <2>2, <2>3
<1>11. ASSUME NEW q \in Objects, NEW flags,
              BufferCreateEnd(q) \/ EventCreate(q) \/ MetalBufferWrap(q, flags)
       PROVE  Goal
  <2>1. HandedOut(q) /\ call' = NoCall
    BY <1>11, HandsOut
  <2>2. backend'[q] \/ owner'[q]
    <3>1. CASE BufferCreateEnd(q)
      BY <1>0, <3>1, CreatingOne DEF BufferCreateEnd
    <3>2. CASE EventCreate(q)
      BY <1>0, <3>2 DEF EventCreate, Types
    <3>3. CASE MetalBufferWrap(q, flags)
      BY <1>0, <3>3 DEF MetalBufferWrap, LifetimeValid, Types
    <3> QED BY <1>11, <3>1, <3>2, <3>3
  <2>3. CASE o = q
    <3>1. made'[o] /\ ref_count'[o] = 1
      BY <1>0, <2>1, <2>3 DEF HandedOut, Types
    <3> QED BY <2>2, <2>3, <3>1
  <2>4. CASE o # q
    <3>1. ref_count'[o] = ref_count[o] /\ made'[o] = made[o]
      BY <1>0, <2>1, <2>4 DEF HandedOut, Types
    <3>2. backend'[o] = backend[o] /\ owner'[o] = owner[o]
      BY <1>0, <1>11, <2>4 DEF BufferCreateEnd, EventCreate, MetalBufferWrap, Types
    <3>3. ~Creating(o)
      <4>1. BufferCreateEnd(q) => Creating(q)
        BY DEF BufferCreateEnd
      <4>2. Creating(q) /\ Creating(o) => o = q
        BY DEF Creating, Part
      <4>3. EventCreate(q) \/ MetalBufferWrap(q, flags) => call = NoCall
        BY DEF EventCreate, MetalBufferWrap, Idle
      <4> QED BY <1>5, <1>11, <2>4, <4>1, <4>2, <4>3
    <3>4. Untouched(o)
      BY <3>1, <3>2 DEF Untouched
    <3> QED BY <1>6, <2>1, <3>3, <3>4
  <2> QED BY <2>3, <2>4
<1>12. ASSUME NEW q \in Objects, HandleDestroy(q) PROVE Goal
  <2>1. [p \in Objects |-> IF p = q THEN 1 ELSE 0] \in [Objects -> Nat]
    OBVIOUS
  <2>2. LetGo(o) /\ call = NoCall /\ call' = NoCall
    BY <1>0, <1>12, <2>1, ReleaseLetsGo DEF HandleDestroy, Idle
  <2> QED BY <1>5, <1>6, <2>2
<1>13. ASSUME NEW d \in Descs, AddBegin(d) \/ AddOutOfMemory(d) PROVE Goal
  <2>1. UNCHANGED objectVars /\ call = NoCall /\ call'.op # "create"
    BY <1>13 DEF AddBegin, AddOutOfMemory, CanAdd, Idle, NoCall, Call
  <2> QED BY <1>2, <1>4, <1>5, <2>1
<1>14. CASE BuildPart
  <2>1. /\ call.op \in {"add", "clone"} /\ PartsOK(call) /\ Covers(call) /\ call \in CallType
        /\ ref_count \in [Objects -> Int] /\ UNCHANGED <<backend, owner, made>>
    BY <1>0, <1>14, PartTyped DEF Types
  <2>2. call'.op = call.op
    BY <1>14, <2>1, PartBuilt
  <2>3. ref_count'[o] >= ref_count[o] /\ (ref_count'[o] # ref_count[o] => o \in Named(call.desc))
    BY <1>14, <2>1, PartCounted
  <2>4. o \in Named(call.desc) => ref_count[o] # 0
    BY <1>1, <2>1, NamedHeld DEF Alive
  <2>5. ref_count[o] \in Nat /\ ref_count'[o] \in Nat
    BY <1>1 DEF Alive
  <2>6. ref_count'[o] > 0 <=> ref_count[o] > 0
    BY <2>3, <2>4, <2>5
  <2>7. Untouched(o)
    BY <2>1, <2>6 DEF Untouched
  <2> QED BY <1>3, <1>4, <2>1, <2>2, <2>7
<1>15. CASE AddEnd \/ CloneEnd
  <2>1. UNCHANGED objectVars /\ call.op # "create" /\ call' = NoCall
    BY <1>15 DEF AddEnd, CloneEnd
  <2> QED BY <1>2, <1>3, <1>6, <2>1
<1>16. CASE AddFails
  <2>1. [p \in Objects |-> Undone(p)] \in [Objects -> Nat]
    BY <1>0, CountsTyped
  <2>2. LetGo(o) /\ call.op # "create" /\ call' = NoCall
    BY <1>0, <1>16, <2>1, ReleaseLetsGo DEF AddFails
  <2> QED BY <1>3, <1>6, <2>2
<1>17. CASE GraphDestroy
  <2>1. [p \in Objects |-> HeldBy(nodes, p)] \in [Objects -> Nat]
    BY <1>0, CountsTyped
  <2>2. LetGo(o) /\ call = NoCall /\ call' = NoCall
    BY <1>0, <1>17, <2>1, ReleaseLetsGo DEF GraphDestroy, Idle
  <2> QED BY <1>5, <1>6, <2>2
<1>18. CASE InstantiateBegin \/ InstantiateEnd
  <2>1. UNCHANGED objectVars /\ call = NoCall /\ call' = NoCall
    BY <1>18 DEF InstantiateBegin, InstantiateEnd, Idle
  <2> QED BY <1>2, <1>5, <1>6, <2>1
<1>19. CASE CloneBegin
  <2>1. UNCHANGED objectVars /\ call = NoCall /\ call'.op # "create"
    BY <1>19 DEF CloneBegin, Call
  <2> QED BY <1>2, <1>4, <1>5, <2>1
<1>20. CASE WorkspaceAllocateFails \/ CloneFails \/ ExecDestroy
  <2>1. ExecClear /\ (call = NoCall \/ call.op # "create")
    BY <1>20 DEF WorkspaceAllocateFails, CloneFails, ExecDestroy, Idle
  <2>2. [p \in Objects |-> HeldBy(enodes, p) + Undone(p)] \in [Objects -> Nat]
    BY <1>0, <2>1, ExecClearTyped
  <2>3. LetGo(o) /\ call' = NoCall
    BY <1>0, <2>1, <2>2, ReleaseLetsGo DEF ExecClear
  <2> QED BY <1>3, <1>5, <1>6, <2>1, <2>3
<1> QED
  BY <1>8, <1>9, <1>10, <1>11, <1>12, <1>13, <1>14, <1>15, <1>16, <1>17, <1>18, <1>19, <1>20
  DEF Next, BuildPart


(* Each step keeps what was never made unreferenced, and Metal objects and  *)
(* owners with the objects that exist.                                      *)
LEMMA ObjectsStep ==
    ASSUME BuildInv, [Next]_vars, Types', Alive'
    PROVE  /\ ObjectsOK'
           /\ \A o \in Objects : ~Creating(o)' => (backend'[o] \/ owner'[o]) = (ref_count'[o] > 0)
<1> SUFFICES ASSUME NEW o \in Objects
             PROVE  /\ ~made'[o] => ref_count'[o] = 0
                    /\ ~Creating(o)' => (backend'[o] \/ owner'[o]) = (ref_count'[o] > 0)
  BY DEF ObjectsOK
<1>1. Alive
  BY ExactAlive DEF BuildInv
<1>2. ref_count[o] \in Nat /\ ref_count'[o] \in Nat
  BY <1>1 DEF Alive
<1>3. /\ ~made[o] => ref_count[o] = 0
      /\ ~Creating(o) => (backend[o] \/ owner[o]) = (ref_count[o] > 0)
  BY DEF BuildInv, ObjectsOK, NothingLeaks
<1>4. CASE ~Creating(o) /\ ~Creating(o)' /\ Untouched(o)
  BY <1>2, <1>3, <1>4 DEF Untouched
<1>5. CASE ~Creating(o) /\ ~Creating(o)' /\ LetGo(o)
  <2>1. (backend[o] \/ owner[o]) <=> ref_count[o] > 0
    BY <1>3, <1>5
  <2>2. ref_count'[o] > 0 => ref_count[o] > 0
    BY <1>2, <1>5 DEF LetGo
  <2>3. (backend'[o] \/ owner'[o]) <=> ref_count'[o] > 0
    BY <1>5, <2>1, <2>2 DEF LetGo
  <2>4. ~made'[o] => ref_count'[o] = 0
    BY <1>2, <1>3, <1>5 DEF LetGo
  <2> QED BY <2>3, <2>4
<1>6. CASE made'[o] /\ ref_count'[o] > 0 /\ (backend'[o] \/ owner'[o])
  BY <1>6
<1>7. CASE Creating(o)' /\ ~made'[o] /\ ref_count'[o] = 0
  BY <1>7
<1>8. CASE ~made'[o] /\ ref_count'[o] = 0 /\ ~backend'[o] /\ ~owner'[o]
  BY <1>8
<1> QED BY <1>4, <1>5, <1>6, <1>7, <1>8, ObjectForm

(* A node the caller adds copies no package, the exec's copy at most one.   *)
LEMMA CloneOnePackage ==
    ASSUME NEW d \in Descs, NEW i \in DOMAIN CloneParts(d), NEW j \in DOMAIN CloneParts(d),
           CloneParts(d)[i].op = "package", CloneParts(d)[j].op = "package"
    PROVE  j = i
<1> DEFINE es == CASE d.kind = "dispatch" -> <<Alloc>>
                   [] d.kind = "mpsgraph" -> <<Part("package", <<>>), Alloc>>
                   [] OTHER -> <<>>
           n == Len(d.parts)
<1>1. d.parts \in Seq(PartSet) /\ \A k \in DOMAIN d.parts : d.parts[k].op # "package"
  BY DescParts
<1>2. Len(es) \in {0, 1, 2} /\ \A k \in 1..Len(es) : es[k].op = "package" => k = 1
  <2>1. CASE es = <<Alloc>>
    <3> HIDE DEF es
    <3> QED BY <2>1 DEF Alloc, Part
  <2>2. CASE es = <<Part("package", <<>>), Alloc>>
    <3> HIDE DEF es
    <3> QED BY <2>2 DEF Alloc, Part
  <2>3. CASE es = <<>>
    <3> HIDE DEF es
    <3> QED BY <2>3
  <2> QED BY <2>1, <2>2, <2>3
<1>3. es \in Seq(PartSet)
  <2>1. Alloc \in PartSet /\ Part("package", <<>>) \in PartSet
    <3>1. <<>> \in Seq(Objects)
      OBVIOUS
    <3> QED BY <3>1 DEF Alloc, Part, PartSet
  <2> QED BY <2>1
<1>4. CloneParts(d) = d.parts \o es
  BY DEF CloneParts
<1> HIDE DEF es, n
<1>5. /\ n \in Nat /\ DOMAIN d.parts = 1..n /\ DOMAIN CloneParts(d) = 1..(n + Len(es))
      /\ \A k \in 1..n : CloneParts(d)[k] = d.parts[k]
      /\ \A k \in 1..Len(es) : CloneParts(d)[n + k] = es[k]
  BY <1>1, <1>3, <1>4 DEF n
<1>6. ASSUME NEW k \in DOMAIN CloneParts(d), CloneParts(d)[k].op = "package"
      PROVE  k = n + 1
  <2>1. k \notin 1..n
    BY <1>1, <1>5, <1>6
  <2>2. k - n \in 1..Len(es) /\ n + (k - n) = k
    BY <1>2, <1>5, <2>1, SMTT(30)
  <2>3. es[k - n].op = "package"
    BY <1>5, <1>6, <2>2
  <2> QED BY <1>2, <1>5, <2>2, <2>3
<1> QED BY <1>6

(* Each step keeps one package at most in a node being built.               *)
LEMMA OnePackageStep ==
    ASSUME BuildInv, [Next]_vars
    PROVE  OnePackage'
<1>0. Types /\ CallOK /\ NodesOK /\ OnePackage
  BY DEF BuildInv
<1>1. call' = call => OnePackage'
  BY <1>0 DEF OnePackage
<1>2. call' = NoCall => OnePackage'
  BY DEF OnePackage, NoCall, Call
<1>3. ASSUME NEW o \in Objects, BufferCreateShared(o) PROVE OnePackage'
  <2>1. call'.parts = <<Part("array", <<o>>)>>
    BY <1>3 DEF BufferCreateShared, Call
  <2> QED BY <2>1 DEF OnePackage, Part
<1>4. ASSUME NEW d \in Descs, AddBegin(d) PROVE OnePackage'
  <2>1. call'.parts = d.parts
    BY <1>4 DEF AddBegin, Call
  <2> QED BY <2>1, DescParts DEF OnePackage
<1>5. CASE CloneBegin
  <2> DEFINE d == nodes[Len(enodes) + 1].desc
  <2>1. call' = Call("clone", d, CloneParts(d)) /\ Len(enodes) < Len(nodes)
    BY <1>5 DEF CloneBegin
  <2>2. d \in Descs
    <3>1. Len(enodes) + 1 \in DOMAIN nodes
      BY <1>0, <2>1 DEF Types
    <3> QED BY <1>0, <3>1 DEF NodesOK
  <2> HIDE DEF d
  <2>3. call'.parts = CloneParts(d) /\ call'.package = FALSE
    BY <2>1 DEF Call
  <2> QED BY <2>2, <2>3, CloneOnePackage DEF OnePackage
<1>6. CASE BuildPart
  <2>1. call.parts # <<>> /\ part = Head(call.parts) /\ call.parts \in Seq(PartSet)
        /\ call \in CallType
    BY <1>0, <1>6 DEF BuildPart, Allocate, HoldAll, CopyTensor, TensorsCopied, CopyPackage, Building,
                      part, Types, CallType
  <2>2. /\ Head(call.parts) = call.parts[1] /\ 1 \in DOMAIN call.parts
        /\ \A i \in DOMAIN Tail(call.parts) :
              i + 1 \in DOMAIN call.parts /\ Tail(call.parts)[i] = call.parts[i + 1]
        /\ DOMAIN Tail(call.parts) \subseteq Nat \ {0}
    BY <2>1, FirstPart
  <2>3. CASE CopyTensor
    BY <1>0, <2>1, <2>3, CallAfter DEF OnePackage, With
  <2>4. CASE CopyPackage
    <3>1. call'.parts = Tail(call.parts) /\ call.parts[1].op = "package"
      <4>1. call' = With(call, Tail(call.parts), call.tensors, call.held, TRUE)
        BY <2>1, <2>4, CallAfter
      <4> QED BY <2>1, <2>2, <2>4, <4>1 DEF With, CopyPackage
    <3>2. \A i \in DOMAIN Tail(call.parts) : call.parts[i + 1].op # "package"
      BY <1>0, <2>2, <3>1 DEF OnePackage
    <3> QED BY <2>2, <3>1, <3>2 DEF OnePackage
  <2>5. CASE Allocate \/ HoldAll \/ TensorsCopied
    <3>1. \E tensors, held : call' = With(call, Tail(call.parts), tensors, held, call.package)
      BY <2>1, <2>5, CallAfter, Zenon
    <3>2. call'.parts = Tail(call.parts) /\ call'.package = call.package
      BY <3>1 DEF With
    <3> QED BY <1>0, <2>2, <3>2 DEF OnePackage
  <2> QED BY <1>6, <2>3, <2>4, <2>5 DEF BuildPart
<1>7. \A o \in Objects : BufferCreateEnd(o) \/ BufferCreateFails(o) => call' = NoCall
  BY DEF BufferCreateEnd, BufferCreateFails
<1>8. \A o \in Objects, flags \in SUBSET {"RETAIN_BUFFER", "RETAIN_OWNER"} :
        EventCreate(o) \/ MetalBufferWrap(o, flags) \/ HandleDestroy(o) => call' = call
  BY DEF EventCreate, MetalBufferWrap, HandleDestroy
<1>9. \A d \in Descs : AddOutOfMemory(d) => call' = call
  BY DEF AddOutOfMemory
<1>10. (AddEnd \/ AddFails \/ CloneEnd \/ ExecClear => call' = NoCall)
       /\ (GraphDestroy \/ InstantiateBegin \/ InstantiateEnd \/ UNCHANGED vars => call' = call)
  BY DEF AddEnd, AddFails, CloneEnd, ExecClear, GraphDestroy, InstantiateBegin, InstantiateEnd, vars
<1> QED
  BY <1>1, <1>2, <1>3, <1>4, <1>5, <1>6, <1>7, <1>8, <1>9, <1>10
  DEF Next, BuildPart, CloneFails, WorkspaceAllocateFails, ExecDestroy

(* Each step leaves the package copies on disk those of the exec's nodes.   *)
LEMMA PackageStep ==
    ASSUME BuildInv, [Next]_vars
    PROVE  packages' = Packages(enodes') + One(call'.package)
<1> DEFINE Goal == packages' = Packages(enodes') + One(call'.package)
<1>0. Types /\ CallOK /\ OnePackage
  BY DEF BuildInv
<1>1. packages = Packages(enodes) + One(call.package) /\ packages \in Int
      /\ Packages(enodes) \in Nat /\ One(FALSE) = 0 /\ One(TRUE) = 1 /\ Packages(<<>>) = 0
      /\ One(call.package) \in Nat
  <2>1. call.package \in BOOLEAN
    BY <1>0 DEF Types, CallType
  <2> QED BY <1>0, <2>1, PackagesCounted, OneTyped, NothingHeld DEF BuildInv, NothingLeaks, One, Types
<1>2. ASSUME UNCHANGED <<packages, enodes>>, call'.package = call.package PROVE Goal
  BY <1>1, <1>2
<1>3. (call = NoCall \/ call.op \in {"none", "create", "add"}) => call.package = FALSE
  <2>1. call.op = "add" => call.package = FALSE
    BY <1>0 DEF CallOK, Types, CallType
  <2>2. call = NoCall => call.op = "none"
    BY DEF NoCall, Call
  <2> QED BY <1>0, <2>1, <2>2, HoldsNothing
<1>4. call' = NoCall => call'.package = FALSE
  BY DEF NoCall, Call
<1>5. ASSUME NEW o \in Objects, NEW flags,
             \/ BufferCreateShared(o) \/ BufferCreateEnd(o) \/ BufferCreateFails(o)
             \/ EventCreate(o) \/ MetalBufferWrap(o, flags) \/ HandleDestroy(o)
      PROVE  Goal
  <2>1. UNCHANGED <<packages, enodes>>
    BY <1>5 DEF BufferCreateShared, BufferCreateEnd, BufferCreateFails, EventCreate,
                MetalBufferWrap, HandleDestroy, execVars
  <2>2. call'.package = call.package
    <3>1. CASE BufferCreateShared(o)
      BY <1>3, <3>1 DEF BufferCreateShared, Idle, Call
    <3>2. CASE BufferCreateEnd(o) \/ BufferCreateFails(o)
      BY <1>3, <1>4, <3>2 DEF BufferCreateEnd, BufferCreateFails, Creating
    <3>3. CASE EventCreate(o) \/ MetalBufferWrap(o, flags) \/ HandleDestroy(o)
      BY <3>3 DEF EventCreate, MetalBufferWrap, HandleDestroy
    <3> QED BY <1>5, <3>1, <3>2, <3>3
  <2> QED BY <1>2, <2>1, <2>2
<1>6. ASSUME NEW d \in Descs, AddBegin(d) \/ AddOutOfMemory(d) PROVE Goal
  <2>1. UNCHANGED <<packages, enodes>>
    BY <1>6 DEF AddBegin, AddOutOfMemory, execVars
  <2>2. call'.package = call.package
    <3>1. call = NoCall /\ (call' = Call("add", d, d.parts) \/ call' = call)
      BY <1>6 DEF AddBegin, AddOutOfMemory, CanAdd, Idle
    <3>2. call.package = FALSE
      BY <1>3, <3>1
    <3>3. Call("add", d, d.parts).package = FALSE
      BY DEF Call
    <3> QED BY <3>1, <3>2, <3>3
  <2> QED BY <1>2, <2>1, <2>2
<1>7. CASE BuildPart
  <2>1. enodes' = enodes /\ call \in CallType
    BY <1>0, <1>7, PartTyped DEF Types
  <2>2. call.parts # <<>> /\ part = Head(call.parts) /\ call.parts \in Seq(PartSet)
    BY <1>7, <2>1 DEF BuildPart, Allocate, HoldAll, CopyTensor, TensorsCopied, CopyPackage, Building,
                      part, CallType
  <2>3. CASE CopyPackage
    <3>1. call.parts[1].op = "package" /\ 1 \in DOMAIN call.parts
      BY <2>2, <2>3, FirstPart DEF CopyPackage
    <3>2. call.package = FALSE
      BY <1>0, <2>1, <3>1 DEF OnePackage, CallType
    <3>3. call'.package = TRUE
      BY <2>1, <2>2, <2>3, CallAfter DEF With
    <3>4. packages' = packages + 1
      BY <2>3 DEF CopyPackage
    <3>5. One(call.package) = 0 /\ One(call'.package) = 1 /\ Packages(enodes') = Packages(enodes)
      BY <1>1, <2>1, <3>2, <3>3
    <3> QED BY <1>1, <3>4, <3>5
  <2>4. CASE Allocate \/ HoldAll \/ CopyTensor \/ TensorsCopied
    <3>1. call'.package = call.package
      <4>1. \E parts, tensors, held : call' = With(call, parts, tensors, held, call.package)
        BY <2>1, <2>2, <2>4, CallAfter, Zenon
      <4> QED BY <4>1 DEF With
    <3>2. packages' = packages
      BY <2>4 DEF Allocate, HoldAll, CopyTensor, TensorsCopied, execVars
    <3> QED BY <1>2, <2>1, <3>1, <3>2
  <2> QED BY <1>7, <2>3, <2>4 DEF BuildPart
<1>8. CASE AddEnd \/ AddFails
  <2>1. UNCHANGED <<packages, enodes>> /\ call'.package = call.package
    BY <1>3, <1>4, <1>8 DEF AddEnd, AddFails, execVars
  <2> QED BY <1>2, <2>1
<1>9. CASE GraphDestroy \/ InstantiateBegin \/ InstantiateEnd \/ UNCHANGED vars
  <2>1. UNCHANGED <<packages, enodes>> /\ call'.package = call.package
    BY <1>9 DEF GraphDestroy, InstantiateBegin, InstantiateEnd, vars, execVars
  <2> QED BY <1>2, <2>1
<1>10. CASE CloneBegin
  <2>1. UNCHANGED <<packages, enodes>> /\ call'.package = call.package
    BY <1>3, <1>10 DEF CloneBegin, execVars, Call
  <2> QED BY <1>2, <2>1
<1>11. CASE CloneEnd
  <2> DEFINE n == [held |-> call.held, package |-> call.package]
  <2>1. n \in ExecNode /\ n.package = call.package
    BY <1>0 DEF ExecNode, Types, CallType
  <2>2. enodes' = Append(enodes, n) /\ packages' = packages /\ call' = NoCall
    BY <1>11 DEF CloneEnd
  <2> HIDE DEF n
  <2>3. Packages(enodes') = Packages(enodes) + One(call.package)
    BY <1>0, <2>1, <2>2, PackagesAppended DEF Types, One
  <2>4. One(call'.package) = 0
    BY <1>1, <1>4, <2>2
  <2> QED BY <1>1, <2>2, <2>3, <2>4
<1>12. CASE ExecClear
  <2>1. /\ packages' = packages - (Packages(enodes) + One(call.package))
        /\ enodes' = <<>> /\ call' = NoCall
    BY <1>12 DEF ExecClear, ExecCleared, One
  <2>2. One(call'.package) = 0 /\ Packages(enodes') = 0
    BY <1>1, <1>4, <2>1
  <2> QED BY <1>1, <2>1, <2>2
<1> QED
  BY <1>5, <1>6, <1>7, <1>8, <1>9, <1>10, <1>11, <1>12
  DEF Next, BuildPart, CloneFails, WorkspaceAllocateFails, ExecDestroy

(* Each step leaves room for the nodes, and for the one being added: the    *)
(* capacity is at least one, and doubled holds one node more.               *)
LEMMA CapacityStep ==
    ASSUME BuildInv, [Next]_vars
    PROVE  CapacityHolds'
<1>0. Types /\ CallOK /\ CapacityHolds
  BY DEF BuildInv
<1>1. Len(nodes) \in Nat /\ node_capacity \in Nat /\ Len(nodes) <= node_capacity
      /\ (call.op = "add" => Len(nodes) + 1 <= node_capacity)
  BY <1>0 DEF CapacityHolds, Types
<1>2. ASSUME UNCHANGED <<nodes, node_capacity>>, call'.op = "add" => call.op = "add"
      PROVE  CapacityHolds'
  BY <1>1, <1>2 DEF CapacityHolds
<1>3. call' = NoCall => call'.op # "add"
  BY DEF NoCall, Call
<1>4. ASSUME NEW o \in Objects, NEW flags,
             \/ BufferCreateShared(o) \/ BufferCreateEnd(o) \/ BufferCreateFails(o)
             \/ EventCreate(o) \/ MetalBufferWrap(o, flags) \/ HandleDestroy(o)
      PROVE  CapacityHolds'
  BY <1>2, <1>3, <1>4 DEF BufferCreateShared, BufferCreateEnd, BufferCreateFails, EventCreate,
                          MetalBufferWrap, HandleDestroy, graphVars, Call
<1>5. ASSUME NEW d \in Descs, AddBegin(d) \/ AddOutOfMemory(d) PROVE CapacityHolds'
  <2>1. node_capacity' = Reserved /\ nodes' = nodes
    BY <1>5 DEF AddBegin, AddOutOfMemory
  <2>2. Reserved \in Nat /\ Len(nodes) + 1 <= Reserved
    <3>1. CASE Len(nodes) + 1 <= node_capacity
      BY <1>1, <3>1 DEF Reserved, Required
    <3>2. CASE ~(Len(nodes) + 1 <= node_capacity) /\ node_capacity = 0
      BY <1>1, <3>2, BuildAssumption DEF Reserved, Required
    <3>3. CASE ~(Len(nodes) + 1 <= node_capacity) /\ node_capacity # 0
      <4>1. Reserved = 2 * node_capacity
        BY <3>3 DEF Reserved, Required
      <4> QED BY <1>1, <3>3, <4>1
    <3> QED BY <3>1, <3>2, <3>3
  <2> QED BY <1>1, <2>1, <2>2 DEF CapacityHolds
<1>6. CASE BuildPart
  <2>1. UNCHANGED <<nodes, node_capacity>>
    BY <1>0, <1>6, PartTyped DEF graphVars
  <2>2. call'.op = call.op
    <3>1. call \in CallType /\ PartsOK(call) /\ Covers(call)
      BY <1>0, <1>6, PartTyped DEF Types
    <3> QED BY <1>6, <3>1, PartBuilt
  <2> QED BY <1>2, <2>1, <2>2
<1>7. CASE AddEnd
  <2>1. Len(nodes') = Len(nodes) + 1 /\ node_capacity' = node_capacity /\ call.op = "add"
        /\ call' = NoCall
    <3>1. call.op = "add" /\ nodes' = Append(nodes, [desc |-> call.desc, held |-> call.held])
          /\ node_capacity' = node_capacity /\ call' = NoCall
      BY <1>7 DEF AddEnd
    <3> QED BY <1>0, <3>1 DEF Types
  <2> QED BY <1>1, <1>3, <2>1 DEF CapacityHolds
<1>8. CASE AddFails \/ InstantiateBegin \/ InstantiateEnd \/ ExecClear
  BY <1>2, <1>3, <1>8 DEF AddFails, InstantiateBegin, InstantiateEnd, ExecClear, graphVars
<1>9. CASE CloneBegin \/ CloneEnd \/ UNCHANGED vars
  BY <1>2, <1>3, <1>9 DEF CloneBegin, CloneEnd, vars, graphVars, Call
<1>10. CASE GraphDestroy
  <2>1. nodes' = <<>> /\ node_capacity' = 0 /\ call'.op # "add"
    BY <1>3, <1>10 DEF GraphDestroy, Idle
  <2>2. Len(nodes') = 0
    BY <2>1
  <2> QED BY <2>1, <2>2 DEF CapacityHolds
<1> QED
  BY <1>4, <1>5, <1>6, <1>7, <1>8, <1>9, <1>10
  DEF Next, BuildPart, CloneFails, WorkspaceAllocateFails, ExecDestroy

-----------------------------------------------------------------------------
(* The invariant holds.                                                     *)

(* It holds at first.                                                       *)
LEMMA BuildInit == Init => BuildInv
<1> SUFFICES ASSUME Init PROVE BuildInv
  OBVIOUS
<1>1. Types
  <2>1. <<>> \in Seq(Node) /\ <<>> \in Seq(ExecNode)
    OBVIOUS
  <2> QED BY <2>1, CallTyped DEF Init, Types
<1>2. CallOK
  BY NoCallOK DEF Init
<1>3. NodesOK /\ ObjectsOK
  BY DEF Init, NodesOK, ObjectsOK
<1>4. OnePackage
  BY DEF Init, OnePackage, NoCall, Call
<1>5. call.held = <<>> /\ call.tensors = <<>> /\ call.package = FALSE /\ call.op = "none"
  BY DEF Init, NoCall, Call
<1>6. BuildRefsExact
  <2> SUFFICES ASSUME NEW o \in Objects
               PROVE  ref_count[o] = One(handle[o]) + HeldBy(nodes, o) + HeldBy(enodes, o)
                                       + Occurrences(call.held, o) + Occurrences(call.tensors, o)
    BY DEF BuildRefsExact, One
  <2>1. /\ One(handle[o]) = 0 /\ HeldBy(nodes, o) = 0 /\ HeldBy(enodes, o) = 0
        /\ Occurrences(call.held, o) = 0 /\ Occurrences(call.tensors, o) = 0 /\ ref_count[o] = 0
    BY <1>5, NothingHeld, OccurrencesOne, OneTyped DEF Init
  <2> QED BY <2>1
<1>7. NothingLeaks
  <2>1. packages = 0 /\ Packages(enodes) = 0 /\ One(call.package) = 0
    BY <1>5, NothingHeld, OneTyped DEF Init
  <2>2. \A o \in Objects : ref_count[o] = 0 /\ backend[o] = FALSE /\ owner[o] = FALSE
    BY DEF Init
  <2>3. \A o \in Objects : (backend[o] \/ owner[o]) = (ref_count[o] > 0)
    BY <2>2
  <2> QED BY <2>1, <2>3 DEF NothingLeaks, One
<1>8. CapacityHolds
  BY <1>5 DEF Init, CapacityHolds
<1> QED BY <1>1, <1>2, <1>3, <1>4, <1>6, <1>7, <1>8 DEF BuildInv

(* And each step keeps it.                                                  *)
LEMMA BuildStep == BuildInv /\ [Next]_vars => BuildInv'
<1> SUFFICES ASSUME BuildInv, [Next]_vars PROVE BuildInv'
  OBVIOUS
<1>1. Types' /\ CallOK' /\ NodesOK' /\ OnePackage' /\ CapacityHolds'
  BY TypesStep, CallStep, NodesStep, OnePackageStep, CapacityStep
<1>2. BuildRefsExact' /\ Alive'
  BY <1>1, RefStep, ExactAliveNext
<1>3. ObjectsOK' /\ \A o \in Objects : ~Creating(o)' => (backend'[o] \/ owner'[o]) = (ref_count'[o] > 0)
  BY <1>1, <1>2, ObjectsStep
<1>4. packages' = Packages(enodes') + One(call'.package)
  BY PackageStep
<1>5. NothingLeaks'
  BY <1>3, <1>4 DEF NothingLeaks, One
<1> QED BY <1>1, <1>2, <1>3, <1>5 DEF BuildInv

(* The invariant holds of every state of every build.                       *)
THEOREM BuildInvariant == Spec => []BuildInv
<1> QED BY BuildInit, BuildStep, PTL DEF Spec

(* Every variable has its type: no reference count falls below zero, and no *)
(* package copy is removed twice.                                           *)
THEOREM TypeCorrect == Spec => []TypeOK
<1>1. BuildInv => TypeOK
  <2> SUFFICES ASSUME BuildInv PROVE TypeOK
    OBVIOUS
  <2>1. Types /\ Alive
    BY ExactAlive DEF BuildInv
  <2>2. ref_count \in [Objects -> Nat]
    BY <2>1 DEF Types, Alive
  <2>3. packages \in Nat
    <3>1. Packages(enodes) \in Nat /\ One(call.package) \in Nat
      BY <2>1, PackagesCounted, OneTyped DEF Types, CallType
    <3>2. packages = Packages(enodes) + One(call.package)
      BY DEF BuildInv, NothingLeaks, One
    <3> QED BY <3>1, <3>2
  <2> QED BY <2>1, <2>2, <2>3 DEF TypeOK, Types, CallType
<1> QED BY <1>1, BuildInvariant, PTL

(* At every allocation of every call references are exactly those of the    *)
(* handle, the nodes and the node being built.                              *)
THEOREM RefsExact == Spec => []BuildRefsExact
<1>1. BuildInv => BuildRefsExact
  BY DEF BuildInv
<1> QED BY <1>1, BuildInvariant, PTL

(* An object keeps its Metal object or owner exactly while it exists, and   *)
(* the package copies on disk are those the exec's nodes will remove.       *)
THEOREM LeakFree == Spec => []NothingLeaks
<1>1. BuildInv => NothingLeaks
  BY DEF BuildInv
<1> QED BY <1>1, BuildInvariant, PTL

(* A node that is built always has room in the array.                       *)
THEOREM CapacitySuffices == Spec => []CapacityHolds
<1>1. BuildInv => CapacityHolds
  BY DEF BuildInv
<1> QED BY <1>1, BuildInvariant, PTL

-----------------------------------------------------------------------------
(* The contract.                                                            *)

(* The contract's view of the objects and of the exec.                      *)
Life == [o \in Objects |-> IF ref_count[o] > 0 THEN "live" ELSE IF made[o] THEN "gone" ELSE "none"]
Exec == IF estate = "live" THEN HeldSets(enodes) ELSE <<>>

(* What the contract says keeps an object, counted.                         *)
Keeps(o) == handle[o] \/ HeldBy(nodes, o) # 0 \/ (estate = "live" /\ HeldBy(enodes, o) # 0)

(* An object exists exactly while the caller, the graph or a finished exec  *)
(* keeps it: what is being built, and an exec half built, name only objects *)
(* that one of these keeps.                                                 *)
AliveKept == \A o \in Objects : (ref_count[o] > 0 <=> Keeps(o)) /\ (Contract!Kept(o) <=> Keeps(o))

(* So it is in every state.                                                 *)
LEMMA InvAliveKept == BuildInv => AliveKept
<1> SUFFICES ASSUME BuildInv, NEW o \in Objects
             PROVE  (ref_count[o] > 0 <=> Keeps(o)) /\ (Contract!Kept(o) <=> Keeps(o))
  BY DEF AliveKept
<1>0. Types /\ CallOK /\ NodesOK /\ Alive
  BY ExactAlive DEF BuildInv
<1>1. /\ HeldBy(nodes, o) = 0 <=> \A i \in DOMAIN nodes : o \notin Items(nodes[i].held)
      /\ HeldBy(enodes, o) = 0 <=> \A i \in DOMAIN enodes : o \notin Items(enodes[i].held)
  BY <1>0, SlotsFinite DEF Types
<1>2. ref_count[o] > 0 <=> ref_count[o] # 0
  BY <1>0 DEF Alive
<1>3. ASSUME Occurrences(call.held, o) # 0 \/ Occurrences(call.tensors, o) # 0 PROVE Keeps(o)
  <2>1. Undone(o) # 0
    BY <1>0, <1>3, CountsTyped
  <2>2. call.op \in {"add", "clone"} /\ o \in Named(call.desc)
    BY <1>0, <2>1, UndoneNamed
  <2> QED BY <2>2, NamedHeld DEF Keeps
<1>4. ASSUME HeldBy(enodes, o) # 0 PROVE Keeps(o)
  <2>1. PICK i \in DOMAIN enodes : o \in Items(enodes[i].held)
    BY <1>1, <1>4
  <2>2. CASE estate = "live"
    BY <1>4, <2>2 DEF Keeps
  <2>3. CASE estate = "building"
    <3>1. Len(enodes) <= Len(nodes) /\ Items(enodes[i].held) = Items(nodes[i].held)
      BY <1>0, <2>3 DEF NodesOK
    <3>2. i \in DOMAIN nodes
      BY <1>0, <3>1 DEF Types
    <3> QED BY <1>1, <2>1, <3>1, <3>2 DEF Keeps
  <2>4. CASE estate = "none"
    <3>1. enodes = <<>>
      BY <1>0, <2>4 DEF NodesOK
    <3> QED BY <2>1, <3>1
  <2> QED BY <1>0, <2>2, <2>3, <2>4 DEF Types
<1>5. Keeps(o) => ref_count[o] # 0
  BY <1>0 DEF Alive, Keeps
<1>6. ref_count[o] # 0 => Keeps(o)
  BY <1>0, <1>3, <1>4 DEF Alive, Keeps
<1>7. Contract!Kept(o) <=> Keeps(o)
  <2>1. /\ DOMAIN HeldSets(nodes) = DOMAIN nodes
        /\ \A i \in DOMAIN nodes : HeldSets(nodes)[i] = Items(nodes[i].held)
        /\ DOMAIN HeldSets(enodes) = DOMAIN enodes
        /\ \A i \in DOMAIN enodes : HeldSets(enodes)[i] = Items(enodes[i].held)
    BY DEF HeldSets, Items
  <2>2. Contract!Kept(o) <=> \/ handle[o]
                             \/ \E i \in DOMAIN HeldSets(nodes) : o \in HeldSets(nodes)[i]
                             \/ \E i \in DOMAIN Exec : o \in Exec[i]
    BY DEF Contract!Kept, Exec
  <2>3. (\E i \in DOMAIN Exec : o \in Exec[i]) <=>
          estate = "live" /\ \E i \in DOMAIN HeldSets(enodes) : o \in HeldSets(enodes)[i]
    BY DEF Exec
  <2> QED BY <1>1, <2>1, <2>2, <2>3 DEF Keeps
<1> QED BY <1>2, <1>5, <1>6, <1>7

(* And in the next.                                                         *)
LEMMA InvAliveKeptNext ==
    ASSUME BuildInv'
    PROVE  AliveKept'
BY InvAliveKept, PTL

(* The life of an object.                                                   *)
LEMMA LifeOf ==
    ASSUME BuildInv, NEW o \in Objects
    PROVE  /\ Life[o] = "live" <=> ref_count[o] > 0
           /\ Life[o] = "gone" <=> ~(ref_count[o] > 0) /\ made[o]
           /\ Life[o] = "none" <=> ~made[o]
           /\ Life[o] \in {"live", "gone", "none"}
<1>1. ~made[o] => ~(ref_count[o] > 0)
  BY DEF BuildInv, ObjectsOK
<1> QED BY <1>1 DEF Life

(* The contract's variables, in terms of these.                             *)
LEMMA ContractVars ==
    /\ UNCHANGED <<Life, handle, HeldSets(nodes), galive, Exec, estate = "live">>
         => UNCHANGED Contract!vars
    /\ \A o \in Objects :
          /\ Life[o] = "none"
          /\ Life' = [Life EXCEPT ![o] = "live"] /\ handle' = [handle EXCEPT ![o] = TRUE]
          /\ UNCHANGED <<HeldSets(nodes), galive, Exec, estate = "live">>
          => Contract!Create(o)
    /\ Contract!Reaped <=>
          Life' = [o \in Objects |-> IF Life[o] = "live" /\ ~Contract!Kept(o)' THEN "gone" ELSE Life[o]]
<1>1. UNCHANGED <<Life, handle, HeldSets(nodes), galive, Exec, estate = "live">>
        => UNCHANGED Contract!vars
  BY DEF Contract!vars, Life, Exec
<1>2. ASSUME NEW o \in Objects,
             Life[o] = "none",
             Life' = [Life EXCEPT ![o] = "live"], handle' = [handle EXCEPT ![o] = TRUE],
             UNCHANGED <<HeldSets(nodes), galive, Exec, estate = "live">>
      PROVE  Contract!Create(o)
  BY <1>2 DEF Contract!Create, Life, Exec
<1>3. Contract!Reaped <=>
        Life' = [o \in Objects |-> IF Life[o] = "live" /\ ~Contract!Kept(o)' THEN "gone" ELSE Life[o]]
  BY DEF Contract!Reaped, Life
<1> QED BY <1>1, <1>2, <1>3

(* Where an object is as kept as before, its life is the same; where it is  *)
(* no more so, the objects no longer kept are reaped.                       *)
LEMMA LifeFollows ==
    ASSUME BuildInv, BuildInv', made' = made, \A o \in Objects : Keeps(o)' => Keeps(o)
    PROVE  /\ Contract!Reaped
           /\ (\A o \in Objects : Keeps(o) => Keeps(o)') => Life' = Life
<1>1. \A o \in Objects : /\ ref_count[o] > 0 <=> Keeps(o)
                         /\ ref_count'[o] > 0 <=> Keeps(o)'
                         /\ Contract!Kept(o)' <=> Keeps(o)'
  BY InvAliveKept, InvAliveKeptNext DEF AliveKept
<1>2. /\ Life = [o \in Objects |-> IF ref_count[o] > 0 THEN "live" ELSE IF made[o] THEN "gone" ELSE "none"]
      /\ Life' = [o \in Objects |-> IF ref_count'[o] > 0 THEN "live" ELSE IF made[o] THEN "gone" ELSE "none"]
  BY DEF Life
<1>3. \A o \in Objects : ref_count[o] > 0 => made[o]
  BY DEF BuildInv, ObjectsOK
<1>4. ASSUME NEW o \in Objects
      PROVE  Life'[o] = IF Life[o] = "live" /\ ~Contract!Kept(o)' THEN "gone" ELSE Life[o]
  <2>1. /\ Life[o] = IF ref_count[o] > 0 THEN "live" ELSE IF made[o] THEN "gone" ELSE "none"
        /\ Life'[o] = IF ref_count'[o] > 0 THEN "live" ELSE IF made[o] THEN "gone" ELSE "none"
    BY <1>2
  <2>2. /\ ref_count'[o] > 0 => ref_count[o] > 0
        /\ Contract!Kept(o)' <=> ref_count'[o] > 0
    BY <1>1
  <2>3. ref_count[o] > 0 => made[o]
    BY <1>3
  <2> QED BY <2>1, <2>2, <2>3
<1>5. Life' = [o \in Objects |-> IF Life[o] = "live" /\ ~Contract!Kept(o)' THEN "gone" ELSE Life[o]]
  BY <1>2, <1>4
<1>6. Contract!Reaped
  BY <1>5, ContractVars
<1>7. ASSUME \A o \in Objects : Keeps(o) => Keeps(o)'
      PROVE  Life' = Life
  <2>1. \A o \in Objects : ref_count'[o] > 0 <=> ref_count[o] > 0
    BY <1>1, <1>7
  <2> QED BY <1>2, <2>1
<1> QED BY <1>6, <1>7

(* A step that hands no object out and leaves the handles, the graph and    *)
(* the finished exec alone is none of the contract's.                       *)
LEMMA Stutters ==
    ASSUME BuildInv, BuildInv', UNCHANGED <<made, handle, galive, nodes>>,
           UNCHANGED <<estate, enodes>> \/ (estate # "live" /\ estate' # "live")
    PROVE  UNCHANGED Contract!vars
<1>1. Exec' = Exec /\ (estate = "live")' = (estate = "live")
  BY DEF Exec, HeldSets
<1>2. \A o \in Objects : Keeps(o)' <=> Keeps(o)
  BY DEF Keeps
<1>3. Life' = Life
  BY <1>2, LifeFollows
<1>4. HeldSets(nodes)' = HeldSets(nodes)
  BY DEF HeldSets
<1> QED BY <1>1, <1>3, <1>4, ContractVars

(* A node added to the graph names what it holds.                           *)
LEMMA GraphGrows ==
    ASSUME NEW ns \in Seq(Node), NEW n \in Node
    PROVE  HeldSets(Append(ns, n)) = Append(HeldSets(ns), Items(n.held))
<1> DEFINE m == Len(ns) + 1
           ms == Append(ns, n)
           gs == HeldSets(ns)
<1>1. /\ m \in Nat \ {0} /\ DOMAIN ns = 1..(m - 1) /\ DOMAIN ms = 1..m /\ ms[m] = n
      /\ \A i \in 1..(m - 1) : ms[i] = ns[i]
  OBVIOUS
<1>2. gs = [i \in 1..(m - 1) |-> Items(ns[i].held)] /\ Len(gs) = m - 1
  BY <1>1 DEF HeldSets, Items
<1>3. HeldSets(ms) = [i \in 1..m |-> Items(ms[i].held)]
  BY <1>1 DEF HeldSets, Items
<1> HIDE DEF ms, gs, m
<1>4. Append(gs, Items(n.held)) = [i \in 1..m |-> IF i = m THEN Items(n.held) ELSE gs[i]]
  <2>1. gs \in Seq({gs[i] : i \in 1..(m - 1)})
    BY <1>1, <1>2
  <2> QED BY <1>1, <1>2, <2>1, SMTT(30)
<1>5. \A i \in 1..m : Items(ms[i].held) = IF i = m THEN Items(n.held) ELSE gs[i]
  BY <1>1, <1>2
<1> QED BY <1>3, <1>4, <1>5 DEF ms, gs

(* Every step is one of the contract's or none.                             *)
LEMMA ContractStep ==
    ASSUME BuildInv, BuildInv', [Next]_vars
    PROVE  Contract!Next \/ UNCHANGED Contract!vars
<1> DEFINE Goal == Contract!Next \/ UNCHANGED Contract!vars
<1>0. Types /\ CallOK /\ NodesOK /\ Types'
  BY DEF BuildInv
<1>1. \A o \in Objects : (ref_count[o] > 0 <=> Keeps(o)) /\ (ref_count'[o] > 0 <=> Keeps(o)')
  BY InvAliveKept, InvAliveKeptNext DEF AliveKept
<1>2. ASSUME NEW o \in Objects, BufferCreateShared(o) \/ BufferCreateFails(o) PROVE Goal
  BY <1>2, Stutters DEF BufferCreateShared, BufferCreateFails, graphVars, execVars
<1>3. ASSUME NEW o \in Objects, NEW flags,
             BufferCreateEnd(o) \/ EventCreate(o) \/ MetalBufferWrap(o, flags)
      PROVE  Goal
  <2>1. HandedOut(o) /\ ~made[o] /\ UNCHANGED <<graphVars, execVars>>
    BY <1>3, HandsOut
  <2>2. /\ ref_count' = [ref_count EXCEPT ![o] = 1] /\ made' = [made EXCEPT ![o] = TRUE]
        /\ handle' = [handle EXCEPT ![o] = TRUE]
    BY <2>1 DEF HandedOut
  <2>3. Life' = [Life EXCEPT ![o] = "live"]
    <3>1. \A p \in Objects : Life'[p] = IF p = o THEN "live" ELSE Life[p]
      BY <1>0, <2>2 DEF Life, Types
    <3> QED BY <3>1 DEF Life
  <2>4. Life[o] = "none"
    BY <2>1, LifeOf
  <2>5. UNCHANGED <<HeldSets(nodes), galive, Exec, estate = "live">>
    BY <2>1 DEF HeldSets, Exec, graphVars, execVars
  <2> QED BY <2>2, <2>3, <2>4, <2>5, ContractVars DEF Contract!Next
<1>4. ASSUME NEW o \in Objects, HandleDestroy(o) PROVE Goal
  <2>1. /\ handle[o] /\ handle' = [handle EXCEPT ![o] = FALSE] /\ made' = made
        /\ UNCHANGED <<graphVars, execVars>>
    BY <1>4 DEF HandleDestroy, Release
  <2>2. \A p \in Objects : Keeps(p)' => Keeps(p)
    <3>1. \A p \in Objects : handle'[p] => handle[p]
      BY <1>0, <2>1 DEF Types
    <3> QED BY <2>1, <3>1 DEF Keeps, graphVars, execVars
  <2>3. Contract!Reaped
    BY <2>1, <2>2, LifeFollows
  <2>4. Contract!HandleDestroy(o)
    BY <2>1, <2>3 DEF Contract!HandleDestroy, HeldSets, graphVars, execVars
  <2> QED BY <2>4 DEF Contract!Next
<1>5. ASSUME NEW d \in Descs, AddBegin(d) \/ AddOutOfMemory(d) PROVE Goal
  BY <1>5, Stutters DEF AddBegin, AddOutOfMemory, objectVars, execVars
<1>6. CASE BuildPart
  BY <1>0, <1>6, PartTyped, Stutters DEF graphVars
<1>7. CASE AddEnd
  <2> DEFINE n == [desc |-> call.desc, held |-> call.held]
             used == Named(call.desc)
  <2>1. /\ nodes' = Append(nodes, n) /\ UNCHANGED <<handle, made, galive, estate, enodes, ref_count>>
        /\ call.op = "add" /\ call.desc \in Descs /\ galive /\ \A o \in used : handle[o]
    BY <1>0, <1>7 DEF AddEnd, CallOK, objectVars, execVars
  <2>2. n \in Node /\ n.held = call.held /\ Items(call.held) = used
    <3>1. call.tensors = <<>> /\ PartsNamed(call.parts) = {}
      BY <1>0, <1>7 DEF AddEnd, CallOK, PartsOK, PartsNamed
    <3>2. Items(call.held) = used
      BY <1>0, <1>7, <3>1, ItemsOne DEF AddEnd, CallOK, Covers
    <3> QED BY <1>0, <2>1, <3>2 DEF Node, Types, CallType
  <2>3. HeldSets(nodes)' = Append(HeldSets(nodes), used)
    <3> HIDE DEF n
    <3>1. HeldSets(Append(nodes, n)) = Append(HeldSets(nodes), Items(n.held))
      BY <1>0, <2>2, GraphGrows DEF Types
    <3>2. HeldSets(nodes)' = HeldSets(Append(nodes, n))
      BY <2>1 DEF HeldSets
    <3> QED BY <2>2, <3>1, <3>2
  <2>4. Life' = Life /\ Exec' = Exec
    BY <2>1 DEF Life, Exec, HeldSets
  <2>5. \A o \in used : Life[o] = "live"
    <3>1. used \subseteq Objects
      BY <1>0, <2>2 DEF Items, Types, CallType
    <3>2. \A o \in used : Keeps(o)
      BY <2>1 DEF Keeps
    <3> QED BY <1>1, <3>1, <3>2, LifeOf
  <2>6. Contract!AddNode(used)
    BY <2>1, <2>3, <2>4, <2>5 DEF Contract!AddNode, Life, Exec
  <2>7. used \in {Named(d) : d \in Descs}
    BY <2>1
  <2> QED BY <2>6, <2>7 DEF Contract!Next
<1>8. CASE AddFails
  BY <1>8, Stutters DEF AddFails, Release, graphVars, execVars
<1>9. CASE GraphDestroy
  <2>1. /\ galive /\ galive' = FALSE /\ nodes' = <<>> /\ UNCHANGED <<handle, made, estate, enodes>>
    BY <1>9 DEF GraphDestroy, Release, execVars
  <2>2. \A o \in Objects : Keeps(o)' => Keeps(o)
    BY <2>1, NothingHeld DEF Keeps
  <2>3. Contract!Reaped
    BY <2>1, <2>2, LifeFollows
  <2>4. HeldSets(nodes)' = <<>>
    BY <2>1 DEF HeldSets
  <2>5. Contract!GraphDestroy
    BY <2>1, <2>3, <2>4 DEF Contract!GraphDestroy, HeldSets
  <2> QED BY <2>5 DEF Contract!Next
<1>10. CASE InstantiateBegin
  BY <1>10, Stutters DEF InstantiateBegin, objectVars, graphVars
<1>11. CASE CloneBegin
  BY <1>11, Stutters DEF CloneBegin, objectVars, graphVars, execVars
<1>12. CASE CloneEnd
  <2>1. estate = "building"
    BY <1>0, <1>12 DEF CloneEnd, CallOK
  <2> QED BY <1>12, <2>1, Stutters DEF CloneEnd, objectVars, graphVars
<1>13. CASE CloneFails \/ WorkspaceAllocateFails
  <2>1. estate = "building" /\ ExecClear
    BY <1>0, <1>13 DEF CloneFails, WorkspaceAllocateFails, CallOK
  <2>2. estate' = "none" /\ UNCHANGED <<made, handle, graphVars>>
    BY <2>1 DEF ExecClear, Release
  <2> QED BY <2>1, <2>2, Stutters DEF graphVars
<1>14. CASE InstantiateEnd
  <2>1. /\ estate = "building" /\ Len(enodes) = Len(nodes) /\ estate' = "live"
        /\ UNCHANGED <<handle, galive, nodes, enodes, ref_count, made>>
    BY <1>14 DEF InstantiateEnd, objectVars, graphVars
  <2>2. galive /\ \A i \in DOMAIN enodes : Items(enodes[i].held) = Items(nodes[i].held)
    BY <1>0, <2>1 DEF NodesOK
  <2>3. HeldSets(enodes) = HeldSets(nodes)
    <3>1. DOMAIN enodes = DOMAIN nodes
      BY <1>0, <2>1 DEF Types
    <3> QED BY <2>2, <3>1 DEF HeldSets, Items
  <2>4. Exec' = HeldSets(nodes) /\ Life' = Life /\ HeldSets(nodes)' = HeldSets(nodes)
    BY <2>1, <2>3, ZenonT(40) DEF Exec, Life, HeldSets
  <2>5. Contract!Instantiate
    BY <2>1, <2>2, <2>4 DEF Contract!Instantiate, Exec, Life
  <2> QED BY <2>5 DEF Contract!Next
<1>15. CASE ExecDestroy
  <2>1. /\ estate = "live" /\ estate' = "none" /\ UNCHANGED <<handle, made, galive, nodes>>
    BY <1>15 DEF ExecDestroy, ExecClear, Release, graphVars
  <2>2. \A o \in Objects : Keeps(o)' => Keeps(o)
    BY <2>1 DEF Keeps
  <2>3. Contract!Reaped
    BY <2>1, <2>2, LifeFollows
  <2>4. Contract!ExecDestroy
    BY <2>1, <2>3 DEF Contract!ExecDestroy, HeldSets
  <2> QED BY <2>4 DEF Contract!Next
<1>16. CASE UNCHANGED vars
  BY <1>16, Stutters DEF vars, objectVars, graphVars, execVars
<1> QED
  BY <1>2, <1>3, <1>4, <1>5, <1>6, <1>7, <1>8, <1>9, <1>10, <1>11, <1>12, <1>13, <1>14, <1>15, <1>16
  DEF Next, BuildPart

(* Every call is one step of the contract or none: all of it happens or     *)
(* nothing, the exec holds what the graph held, and an object ends in the   *)
(* step its last holder lets go of it.                                      *)
THEOREM Implements == Spec => ImplementsBuildContract
<1>1. Init => Contract!Init
  BY DEF Init, Contract!Init, HeldSets
<1>2. BuildInv /\ BuildInv' /\ [Next]_vars => [Contract!Next]_(Contract!vars)
  BY ContractStep
<1> QED BY <1>1, <1>2, BuildInvariant, PTL DEF Spec, ImplementsBuildContract, Contract!Spec

===============================================================================
