---------------------------- MODULE GraphProofs -----------------------------
(***************************************************************************)
(* Proofs about Graph and its traversals, for any bounds on the indices.   *)
(***************************************************************************)
EXTENDS GraphTraversal, SequenceTheorems, FiniteSetTheorems, NaturalsInduction, TLAPS

Incoming(n) == { e \in DOMAIN edges : edges[e].target = n }
Outgoing(n) == { e \in DOMAIN edges : edges[e].source = n }

\* What the loops have still to do is exactly what is left to be done.
LoopInv ==
  /\ \A n \in removing : edgeSet = Incoming(n) \cup Outgoing(n)
  /\ removing = {} => edgeSet = {}
  /\ toDrop # {} => removing = {} /\ toRemove = {}

IInv == TypeOK /\ AdjacencyAgrees /\ LoopInv

-----------------------------------------------------------------------------
(***************************************************************************)
(* Ascending lists.                                                        *)
(***************************************************************************)
LEMMA EmptyListLists == Lists(<< >>, {})
BY DEF Lists, ToSet

LEMMA AppendLists ==
  ASSUME NEW list \in Seq(EdgeIndex), NEW E, Lists(list, E),
         NEW e \in EdgeIndex, \A f \in E : f < e
  PROVE  Append(list, e) \in Seq(EdgeIndex) /\ Lists(Append(list, e), E \cup {e})
<1> DEFINE r == Append(list, e)
<1>0. EdgeIndex \subseteq Int
  BY BoundsType DEF EdgeIndex
<1>1. /\ r \in Seq(EdgeIndex) /\ Len(r) = Len(list) + 1 /\ Len(list) \in Nat
      /\ \A i \in 1 .. Len(list) : r[i] = list[i]
      /\ r[Len(list) + 1] = e
  OBVIOUS
<1>2. DOMAIN r = 1 .. (Len(list) + 1) /\ DOMAIN list = 1 .. Len(list)
  BY <1>1
<1>3. ToSet(list) = E /\ (\A i, j \in 1 .. Len(list) : i < j => list[i] < list[j])
  BY <1>2 DEF Lists
<1>4. \A i \in 1 .. Len(list) : list[i] \in E
  BY <1>2, <1>3 DEF ToSet
<1> HIDE DEF r
<1>5. ToSet(r) = E \cup {e}
  <2>1. \A i \in DOMAIN r : r[i] \in E \cup {e}
    BY <1>1, <1>2, <1>4
  <2>2. \A f \in E : \E i \in DOMAIN r : r[i] = f
    BY <1>1, <1>2, <1>3 DEF ToSet
  <2>3. \E i \in DOMAIN r : r[i] = e
    BY <1>1, <1>2
  <2> QED BY <2>1, <2>2, <2>3 DEF ToSet
<1>6. \A i, j \in DOMAIN r : i < j => r[i] < r[j]
  <2> SUFFICES ASSUME NEW i \in DOMAIN r, NEW j \in DOMAIN r, i < j PROVE r[i] < r[j]
    OBVIOUS
  <2>1. i \in 1 .. Len(list)
    BY <1>1, <1>2
  <2>2. CASE j \in 1 .. Len(list)  BY <2>1, <2>2, <1>1, <1>3
  <2>3. CASE j = Len(list) + 1  BY <2>1, <2>3, <1>1, <1>4
  <2> QED BY <2>2, <2>3, <1>1, <1>2
<1> QED BY <1>1, <1>5, <1>6 DEF Lists, r

LEMMA RemoveAtProperties ==
  ASSUME NEW S, NEW s \in Seq(S), NEW k \in 1 .. Len(s)
  PROVE  /\ RemoveAt(s, k) \in Seq(S) /\ Len(RemoveAt(s, k)) = Len(s) - 1
         /\ \A i \in 1 .. (Len(s) - 1) :
              RemoveAt(s, k)[i] = IF i < k THEN s[i] ELSE s[i + 1]
<1> DEFINE a == SubSeq(s, 1, k - 1)
           b == SubSeq(s, k + 1, Len(s))
<1>0. Len(s) \in Nat /\ (\A i \in 1 .. Len(s) : s[i] \in S)
  BY ElementOfSeq, LenProperties
<1>1. a \in Seq(S) /\ Len(a) = k - 1 /\ \A i \in 1 .. (k - 1) : a[i] = s[i]
  <2>1. \A i \in 1 .. (k - 1) : s[i] \in S
    BY <1>0
  <2>2. /\ a \in Seq(S) /\ Len(a) = IF 1 <= k - 1 THEN (k - 1) - 1 + 1 ELSE 0
        /\ \A i \in 1 .. ((k - 1) - 1 + 1) : a[i] = s[1 + i - 1]
    BY <2>1, <1>0, SubSeqProperties
  <2> HIDE DEF a
  <2> QED BY <2>2, <1>0
<1>2. /\ b \in Seq(S) /\ Len(b) = Len(s) - k
      /\ \A i \in 1 .. (Len(s) - k) : b[i] = s[i + k]
  <2>1. \A i \in (k + 1) .. Len(s) : s[i] \in S
    BY <1>0
  <2>2. /\ b \in Seq(S)
        /\ Len(b) = IF k + 1 <= Len(s) THEN Len(s) - (k + 1) + 1 ELSE 0
        /\ \A i \in 1 .. (Len(s) - (k + 1) + 1) : b[i] = s[(k + 1) + i - 1]
    BY <2>1, <1>0, SubSeqProperties
  <2> HIDE DEF b
  <2> QED BY <2>2, <1>0
<1>3. RemoveAt(s, k) = a \o b
  BY DEF RemoveAt
<1> HIDE DEF a, b
<1>4. /\ a \o b \in Seq(S) /\ Len(a \o b) = Len(a) + Len(b)
      /\ \A i \in 1 .. (Len(a) + Len(b)) :
           (a \o b)[i] = IF i <= Len(a) THEN a[i] ELSE b[i - Len(a)]
  BY <1>1, <1>2, ConcatProperties
<1>5. ASSUME NEW i \in 1 .. (Len(s) - 1)
      PROVE  (a \o b)[i] = IF i < k THEN s[i] ELSE s[i + 1]
  <2>1. CASE i < k  BY <2>1, <1>0, <1>1, <1>2, <1>4
  <2>2. CASE k <= i
    <3>1. PICK j \in 1 .. (Len(s) - k) : j = i - (k - 1)
      BY <2>2, <1>0
    <3>2. (a \o b)[i] = b[j]
      BY <2>2, <3>1, <1>0, <1>1, <1>2, <1>4
    <3>3. b[j] = s[i + 1]
      <4>1. j + k = i + 1
        BY <3>1, <1>0
      <4>2. b[j] = s[j + k]
        BY <1>2
      <4> QED BY <4>1, <4>2, Zenon
    <3>4. ~ (i < k)
      BY <2>2, <1>0
    <3> QED BY <3>2, <3>3, <3>4
  <2>3. i < k \/ k <= i
    BY <1>0
  <2> QED BY <2>1, <2>2, <2>3, Zenon
<1> QED BY <1>0, <1>1, <1>2, <1>3, <1>4, <1>5

LEMMA RemoveFirstLists ==
  ASSUME NEW list \in Seq(EdgeIndex), NEW E, Lists(list, E), NEW e
  PROVE  RemoveFirst(list, e) \in Seq(EdgeIndex) /\ Lists(RemoveFirst(list, e), E \ {e})
<1>0. EdgeIndex \subseteq Int
  BY BoundsType DEF EdgeIndex
<1>1. DOMAIN list = 1 .. Len(list) /\ Len(list) \in Nat
  OBVIOUS
<1>2. ToSet(list) = E /\ (\A i, j \in 1 .. Len(list) : i < j => list[i] < list[j])
  BY <1>1 DEF Lists
<1>3. CASE ~ \E i \in 1 .. Len(list) : list[i] = e
  <2>1. RemoveFirst(list, e) = list
    BY <1>3 DEF RemoveFirst
  <2>2. e \notin E
    BY <1>1, <1>2, <1>3 DEF ToSet
  <2>3. E \ {e} = E
    BY <2>2
  <2> QED BY <2>1, <2>3
<1>4. CASE \E i \in 1 .. Len(list) : list[i] = e
  <2>1. PICK k \in 1 .. Len(list) : list[k] = e
    BY <1>4
  <2>i. \A i \in 1 .. Len(list) : list[i] \in Int
    <3>1. \A i \in 1 .. Len(list) : list[i] \in EdgeIndex
      OBVIOUS
    <3> QED BY <3>1, <1>0
  <2>2. \A i \in 1 .. Len(list) : list[i] = e => i = k
    <3> SUFFICES ASSUME NEW i \in 1 .. Len(list), list[i] = e, i # k PROVE FALSE
      OBVIOUS
    <3>1. i < k \/ k < i
      BY <1>1
    <3>2. list[i] < list[k] \/ list[k] < list[i]
      BY <3>1, <1>2
    <3> QED BY <3>2, <2>1, <2>i
  <2>3. { i \in 1 .. Len(list) : list[i] = e } = {k}
    BY <2>1, <2>2
  <2>4. Min({k}) = k
    BY <1>1 DEF Min
  <2>5. SelectInSeq(list, LAMBDA v : v = e) = k
    BY <2>3, <2>4 DEF SelectInSeq
  <2>6. RemoveFirst(list, e) = RemoveAt(list, k)
    BY <1>4, <2>5 DEF RemoveFirst
  <2>7. PICK r \in Seq(EdgeIndex) :
          /\ r = RemoveFirst(list, e) /\ Len(r) = Len(list) - 1
          /\ \A i \in 1 .. (Len(list) - 1) : r[i] = IF i < k THEN list[i] ELSE list[i + 1]
    BY <2>6, RemoveAtProperties
  <2>8. DOMAIN r = 1 .. (Len(list) - 1)
    BY <2>7, <1>1
  <2>9. ToSet(r) = E \ {e}
    <3>1. \A i \in DOMAIN r : r[i] \in E \ {e}
      <4> SUFFICES ASSUME NEW i \in DOMAIN r PROVE r[i] \in E \ {e}
        OBVIOUS
      <4>1. PICK j \in 1 .. Len(list) : j # k /\ r[i] = list[j]
        BY <2>7, <2>8, <1>1
      <4> QED BY <4>1, <2>2, <1>1, <1>2 DEF ToSet
    <3>2. \A f \in E \ {e} : \E i \in DOMAIN r : r[i] = f
      <4> SUFFICES ASSUME NEW f \in E \ {e} PROVE \E i \in DOMAIN r : r[i] = f
        OBVIOUS
      <4>1. PICK j \in 1 .. Len(list) : list[j] = f
        BY <1>1, <1>2 DEF ToSet
      <4>2. j # k
        BY <4>1, <2>1
      <4>3. CASE j < k
        <5>1. j \in 1 .. (Len(list) - 1) /\ r[j] = list[j]
          BY <4>3, <2>7, <1>1
        <5> QED BY <5>1, <4>1, <2>8
      <4>4. CASE k < j
        <5>1. j - 1 \in 1 .. (Len(list) - 1) /\ r[j - 1] = list[j]
          BY <4>4, <2>7, <1>1
        <5> QED BY <5>1, <4>1, <2>8
      <4> QED BY <4>2, <4>3, <4>4, <1>1
    <3> QED BY <3>1, <3>2 DEF ToSet
  <2>10. \A i, j \in DOMAIN r : i < j => r[i] < r[j]
    BY <2>7, <2>8, <1>1, <1>2
  <2> QED BY <2>7, <2>9, <2>10 DEF Lists
<1> QED BY <1>3, <1>4

-----------------------------------------------------------------------------
(***************************************************************************)
(* What the operations do to the tables.                                   *)
(***************************************************************************)
LEMMA WithoutEdge ==
  ASSUME TypeOK, NEW e, edges' = Restrict(edges, DOMAIN edges \ {e}), UNCHANGED nodes
  PROVE  /\ DOMAIN edges' = DOMAIN edges \ {e}
         /\ edges' \in [DOMAIN edges' -> [source : nodes', target : nodes']]
         /\ \A n : Outgoing(n)' = Outgoing(n) \ {e} /\ Incoming(n)' = Incoming(n) \ {e}
BY DEF TypeOK, Restrict, Outgoing, Incoming

\* An edge that is taken off the lists of its ends.
LEMMA UnlinkedEnds ==
  ASSUME IInv, NEW e \in DOMAIN edges, edges' = Restrict(edges, DOMAIN edges \ {e}),
         UNCHANGED <<nodes, removing>>,
         adjacency' = IF edges[e].source \in removing THEN adjacency
                      ELSE removeFromSlice(adjacency, edges[e].source, e),
         reverseAdjacency' = IF edges[e].target \in removing THEN reverseAdjacency
                             ELSE removeFromSlice(reverseAdjacency, edges[e].target, e)
  PROVE  /\ adjacency' \in [nodes -> Seq(EdgeIndex)]
         /\ reverseAdjacency' \in [nodes -> Seq(EdgeIndex)]
         /\ AdjacencyAgrees'
<1>k. /\ TypeOK /\ AdjacencyAgrees
      /\ edges[e].source \in nodes /\ edges[e].target \in nodes
      /\ adjacency \in [nodes -> Seq(EdgeIndex)]
      /\ reverseAdjacency \in [nodes -> Seq(EdgeIndex)]
  BY DEF IInv, TypeOK
<1>1. /\ \A n : Outgoing(n)' = Outgoing(n) \ {e} /\ Incoming(n)' = Incoming(n) \ {e}
      /\ \A n : n # edges[e].source => Outgoing(n) \ {e} = Outgoing(n)
      /\ \A n : n # edges[e].target => Incoming(n) \ {e} = Incoming(n)
  <2>1. \A n : Outgoing(n)' = Outgoing(n) \ {e} /\ Incoming(n)' = Incoming(n) \ {e}
    BY <1>k, WithoutEdge
  <2>2. /\ \A n : n # edges[e].source => Outgoing(n) \ {e} = Outgoing(n)
        /\ \A n : n # edges[e].target => Incoming(n) \ {e} = Incoming(n)
    BY DEF Outgoing, Incoming
  <2> QED BY <2>1, <2>2
<1>2. /\ adjacency' \in [nodes -> Seq(EdgeIndex)]
      /\ \A n \in nodes \ removing : Lists(adjacency'[n], Outgoing(n) \ {e})
  <2>1. CASE edges[e].source \in removing
    BY <2>1, <1>k, <1>1 DEF AdjacencyAgrees, Outgoing
  <2>2. CASE edges[e].source \notin removing
    <3>0. adjacency' = removeFromSlice(adjacency, edges[e].source, e)
      BY <2>2
    <3>1. Lists(adjacency[edges[e].source], Outgoing(edges[e].source))
      BY <2>2, <1>k DEF AdjacencyAgrees, Outgoing
    <3>m. PICK m \in nodes : m = edges[e].source
      BY <1>k
    <3>e. PICK E : E = Outgoing(m)
      OBVIOUS
    <3>a. m = edges[e].source /\ E = Outgoing(m)
      BY <3>m, <3>e
    <3>r. /\ RemoveFirst(adjacency[m], e) \in Seq(EdgeIndex)
          /\ Lists(RemoveFirst(adjacency[m], e), E \ {e})
      BY <3>1, <3>a, <1>k, RemoveFirstLists
    <3>b. /\ adjacency' \in [nodes -> Seq(EdgeIndex)]
          /\ Lists(adjacency'[m], E \ {e})
          /\ \A n \in nodes : n # m => adjacency'[n] = adjacency[n]
      BY <3>0, <3>a, <3>r, <1>k DEF removeFromSlice
    <3>2. /\ adjacency' \in [nodes -> Seq(EdgeIndex)]
          /\ Lists(adjacency'[edges[e].source], Outgoing(edges[e].source) \ {e})
          /\ \A n \in nodes : n # edges[e].source => adjacency'[n] = adjacency[n]
      BY <3>a, <3>b
    <3>3. ASSUME NEW n \in nodes \ removing, n # edges[e].source
          PROVE  Lists(adjacency'[n], Outgoing(n) \ {e})
      BY <3>2, <3>3, <1>k, <1>1 DEF AdjacencyAgrees, Outgoing
    <3> QED BY <3>2, <3>3
  <2> QED BY <2>1, <2>2
<1>3. /\ reverseAdjacency' \in [nodes -> Seq(EdgeIndex)]
      /\ \A n \in nodes \ removing : Lists(reverseAdjacency'[n], Incoming(n) \ {e})
  <2>1. CASE edges[e].target \in removing
    BY <2>1, <1>k, <1>1 DEF AdjacencyAgrees, Incoming
  <2>2. CASE edges[e].target \notin removing
    <3>0. reverseAdjacency' = removeFromSlice(reverseAdjacency, edges[e].target, e)
      BY <2>2
    <3>1. Lists(reverseAdjacency[edges[e].target], Incoming(edges[e].target))
      BY <2>2, <1>k DEF AdjacencyAgrees, Incoming
    <3>m. PICK m \in nodes : m = edges[e].target
      BY <1>k
    <3>e. PICK E : E = Incoming(m)
      OBVIOUS
    <3>a. m = edges[e].target /\ E = Incoming(m)
      BY <3>m, <3>e
    <3>r. /\ RemoveFirst(reverseAdjacency[m], e) \in Seq(EdgeIndex)
          /\ Lists(RemoveFirst(reverseAdjacency[m], e), E \ {e})
      BY <3>1, <3>a, <1>k, RemoveFirstLists
    <3>b. /\ reverseAdjacency' \in [nodes -> Seq(EdgeIndex)]
          /\ Lists(reverseAdjacency'[m], E \ {e})
          /\ \A n \in nodes : n # m => reverseAdjacency'[n] = reverseAdjacency[n]
      BY <3>0, <3>a, <3>r, <1>k DEF removeFromSlice
    <3>2. /\ reverseAdjacency' \in [nodes -> Seq(EdgeIndex)]
          /\ Lists(reverseAdjacency'[edges[e].target], Incoming(edges[e].target) \ {e})
          /\ \A n \in nodes : n # edges[e].target => reverseAdjacency'[n] = reverseAdjacency[n]
      BY <3>a, <3>b
    <3>3. ASSUME NEW n \in nodes \ removing, n # edges[e].target
          PROVE  Lists(reverseAdjacency'[n], Incoming(n) \ {e})
      BY <3>2, <3>3, <1>k, <1>1 DEF AdjacencyAgrees, Incoming
    <3> QED BY <3>2, <3>3
  <2> QED BY <2>1, <2>2
<1>4. \A n \in nodes' \ removing' : /\ Lists(adjacency'[n], Outgoing(n)')
                                    /\ Lists(reverseAdjacency'[n], Incoming(n)')
  BY <1>1, <1>2, <1>3
<1> QED BY <1>2, <1>3, <1>4 DEF AdjacencyAgrees, Outgoing, Incoming

-----------------------------------------------------------------------------
LEMMA InvInit == Init => IInv
BY BoundsType DEF Init, IInv, TypeOK, AdjacencyAgrees, LoopInv

LEMMA DropSafe ==
  ASSUME IInv, NEW e \in DOMAIN edges, removing = {}, Drop(e), toDrop' = toDrop \ {e}
  PROVE  IInv'
<1>k. TypeOK /\ LoopInv /\ edgeSet = {}
  BY DEF IInv, LoopInv
<1>1. /\ edges' = Restrict(edges, DOMAIN edges \ {e}) /\ UNCHANGED <<nodes, removing>>
      /\ adjacency' = removeFromSlice(adjacency, edges[e].source, e)
      /\ reverseAdjacency' = removeFromSlice(reverseAdjacency, edges[e].target, e)
      /\ UNCHANGED <<nextNodeIndex, nextEdgeIndex, toRemove, edgeSet>>
  BY DEF Drop, next
<1>2. /\ adjacency' \in [nodes -> Seq(EdgeIndex)] /\ reverseAdjacency' \in [nodes -> Seq(EdgeIndex)]
      /\ AdjacencyAgrees'
  BY <1>1, UnlinkedEnds
<1>3. TypeOK'
  BY <1>k, <1>1, <1>2, WithoutEdge DEF TypeOK
<1>4. LoopInv'
  BY <1>k, <1>1 DEF LoopInv
<1> QED BY <1>2, <1>3, <1>4 DEF IInv

LEMMA StartRemovalSafe ==
  ASSUME IInv, NEW n \in nodes, removing = {}, toDrop = {}, StartRemoval(n),
         toRemove' = toRemove \ {n}
  PROVE  IInv'
<1>k. TypeOK /\ AdjacencyAgrees
  BY DEF IInv
<1>1. UNCHANGED <<nodes, edges, adjacency, reverseAdjacency, nextNodeIndex, nextEdgeIndex, toDrop>>
  BY DEF StartRemoval, graph, next
<1>2. removing' = {n} /\ edgeSet' = Incoming(n) \cup Outgoing(n)
  BY <1>k DEF StartRemoval, Incident, AdjacencyAgrees, Lists, Incoming, Outgoing
<1>3. TypeOK'
  BY <1>k, <1>1, <1>2 DEF TypeOK, Incoming, Outgoing
<1>4. AdjacencyAgrees'
  BY <1>k, <1>1, <1>2 DEF AdjacencyAgrees
<1>5. LoopInv'
  BY <1>1, <1>2 DEF LoopInv, Incoming, Outgoing
<1> QED BY <1>3, <1>4, <1>5 DEF IInv

LEMMA UnlinkSafe ==
  ASSUME IInv, NEW e \in DOMAIN edges, UnlinkEdge(e)
  PROVE  IInv'
<1>k. TypeOK /\ LoopInv /\ removing # {} /\ toDrop = {}
  BY DEF IInv, LoopInv, UnlinkEdge
<1>1. /\ edges' = Restrict(edges, DOMAIN edges \ {e}) /\ UNCHANGED <<nodes, removing>>
      /\ adjacency' = IF edges[e].source \in removing THEN adjacency
                      ELSE removeFromSlice(adjacency, edges[e].source, e)
      /\ reverseAdjacency' = IF edges[e].target \in removing THEN reverseAdjacency
                             ELSE removeFromSlice(reverseAdjacency, edges[e].target, e)
      /\ edgeSet' = edgeSet \ {e}
      /\ UNCHANGED <<nextNodeIndex, nextEdgeIndex, toRemove, toDrop>>
  BY DEF UnlinkEdge, next
<1>2. /\ adjacency' \in [nodes -> Seq(EdgeIndex)] /\ reverseAdjacency' \in [nodes -> Seq(EdgeIndex)]
      /\ AdjacencyAgrees'
  BY <1>1, UnlinkedEnds
<1>3. TypeOK'
  BY <1>k, <1>1, <1>2, WithoutEdge DEF TypeOK
<1>4. \A n : Outgoing(n)' = Outgoing(n) \ {e} /\ Incoming(n)' = Incoming(n) \ {e}
  BY <1>k, <1>1, WithoutEdge
<1>5. \A n \in removing' : edgeSet' = Incoming(n)' \cup Outgoing(n)'
  BY <1>k, <1>1, <1>4 DEF LoopInv
<1>6. LoopInv'
  BY <1>k, <1>1, <1>5 DEF LoopInv, Incoming, Outgoing
<1> QED BY <1>2, <1>3, <1>6 DEF IInv

LEMMA DeleteSafe == ASSUME IInv, DeleteNode PROVE IInv'
<1>0. removing # {} /\ removing \subseteq nodes /\ \A m, n \in removing : m = n
  BY DEF IInv, TypeOK, DeleteNode
<1>1. PICK n \in nodes : removing = {n}
  BY <1>0
<1>k. /\ TypeOK /\ AdjacencyAgrees /\ LoopInv /\ edgeSet = {} /\ toDrop = {}
      /\ Incoming(n) = {} /\ Outgoing(n) = {}
  BY <1>1 DEF IInv, LoopInv, DeleteNode
<1>2. /\ nodes' = nodes \ {n} /\ removing' = {}
      /\ adjacency' = Restrict(adjacency, nodes \ {n})
      /\ reverseAdjacency' = Restrict(reverseAdjacency, nodes \ {n})
      /\ UNCHANGED <<edges, nextNodeIndex, nextEdgeIndex, toRemove, edgeSet, toDrop>>
  BY <1>1, <1>k DEF DeleteNode, TypeOK, next
<1>3. edges \in [DOMAIN edges -> [source : nodes', target : nodes']]
  <2>1. \A e \in DOMAIN edges : edges[e].source # n /\ edges[e].target # n
    BY <1>k DEF Incoming, Outgoing
  <2> QED BY <2>1, <1>2, <1>k DEF TypeOK
<1>4. TypeOK'
  BY <1>1, <1>k, <1>2, <1>3 DEF TypeOK, Restrict
<1>5. AdjacencyAgrees'
  BY <1>1, <1>k, <1>2 DEF AdjacencyAgrees, Restrict
<1>6. LoopInv'
  BY <1>k, <1>2 DEF LoopInv
<1> QED BY <1>4, <1>5, <1>6 DEF IInv

LEMMA AddNodeSafe == ASSUME IInv, AddNode PROVE IInv'
<1> DEFINE n == nextNodeIndex
<1>k. /\ TypeOK /\ AdjacencyAgrees /\ n \in Nat /\ n \notin nodes /\ n \in NodeIndex
      /\ removing = {} /\ toRemove = {} /\ toDrop = {} /\ edgeSet = {} /\ n < MaxNode
  BY BoundsType DEF IInv, LoopInv, AddNode, AtRest, TypeOK, NodeIndex
<1>1. /\ nodes' = nodes \cup {n} /\ nextNodeIndex' = n + 1
      /\ adjacency' = Put(adjacency, n, << >>) /\ reverseAdjacency' = Put(reverseAdjacency, n, << >>)
      /\ UNCHANGED <<edges, nextEdgeIndex, toRemove, removing, edgeSet, toDrop>>
  BY DEF AddNode, loops
<1> HIDE DEF n
<1>2. /\ adjacency' \in [nodes' -> Seq(EdgeIndex)] /\ reverseAdjacency' \in [nodes' -> Seq(EdgeIndex)]
      /\ adjacency'[n] = << >> /\ reverseAdjacency'[n] = << >>
      /\ \A m \in nodes : adjacency'[m] = adjacency[m] /\ reverseAdjacency'[m] = reverseAdjacency[m]
  BY <1>k, <1>1 DEF TypeOK, Put
<1>3. nodes' \subseteq 0 .. (nextNodeIndex' - 1) /\ nextNodeIndex' \in 0 .. MaxNode
  BY <1>k, <1>1, BoundsType DEF TypeOK, n
<1>4. edges \in [DOMAIN edges -> [source : nodes', target : nodes']]
  BY <1>k, <1>1 DEF TypeOK
<1>5. TypeOK'
  BY <1>k, <1>1, <1>2, <1>3, <1>4 DEF TypeOK
<1>6. Outgoing(n) = {} /\ Incoming(n) = {}
  BY <1>k DEF TypeOK, Outgoing, Incoming
<1>7. AdjacencyAgrees'
  <2>1. \A m \in nodes \ removing : Lists(adjacency[m], Outgoing(m)) /\ Lists(reverseAdjacency[m], Incoming(m))
    BY <1>k DEF AdjacencyAgrees, Outgoing, Incoming
  <2>2. /\ \A m \in nodes \ removing : /\ Lists(adjacency'[m], Outgoing(m))
                                       /\ Lists(reverseAdjacency'[m], Incoming(m))
        /\ Lists(adjacency'[n], Outgoing(n)) /\ Lists(reverseAdjacency'[n], Incoming(n))
    BY <2>1, <1>2, <1>6, EmptyListLists
  <2>3. \A m : Outgoing(m)' = Outgoing(m) /\ Incoming(m)' = Incoming(m)
    BY <1>1 DEF Outgoing, Incoming
  <2>4. \A m \in nodes' \ removing' : /\ Lists(adjacency'[m], Outgoing(m)')
                                       /\ Lists(reverseAdjacency'[m], Incoming(m)')
    BY <2>2, <2>3, <1>1
  <2> QED BY <2>4 DEF AdjacencyAgrees, Outgoing, Incoming
<1>8. LoopInv'
  BY <1>k, <1>1 DEF LoopInv
<1> QED BY <1>5, <1>7, <1>8 DEF IInv

LEMMA AddEdgeSafe ==
  ASSUME IInv, NEW s \in nodes, NEW t \in nodes, AddEdge(s, t) PROVE IInv'
<1> DEFINE e == nextEdgeIndex
<1>k. /\ TypeOK /\ AdjacencyAgrees /\ e \in EdgeIndex /\ e \notin DOMAIN edges /\ e \in Nat
      /\ \A f \in DOMAIN edges : f \in EdgeIndex /\ f < e
      /\ removing = {} /\ toRemove = {} /\ toDrop = {} /\ edgeSet = {} /\ e < MaxEdge
  <2>1. /\ TypeOK /\ AdjacencyAgrees /\ e < MaxEdge
        /\ removing = {} /\ toRemove = {} /\ toDrop = {} /\ edgeSet = {}
    BY DEF IInv, LoopInv, AddEdge, AtRest
  <2>2. e \in 0 .. MaxEdge /\ DOMAIN edges \subseteq 0 .. (e - 1)
    BY <2>1 DEF TypeOK
  <2> HIDE DEF e
  <2>3. e \in Nat /\ e \in 0 .. (MaxEdge - 1)
    BY <2>1, <2>2, BoundsType
  <2>4. \A f \in DOMAIN edges : f \in 0 .. (MaxEdge - 1) /\ f < e
    BY <2>1, <2>2, <2>3, BoundsType
  <2>5. e \notin DOMAIN edges
    BY <2>3, <2>4
  <2> QED BY <2>1, <2>3, <2>4, <2>5 DEF EdgeIndex
<1>1. /\ edges' = Put(edges, e, [source |-> s, target |-> t]) /\ nextEdgeIndex' = e + 1
      /\ adjacency' = [adjacency EXCEPT ![s] = Append(adjacency[s], e)]
      /\ reverseAdjacency' = [reverseAdjacency EXCEPT ![t] = Append(reverseAdjacency[t], e)]
      /\ UNCHANGED <<nodes, nextNodeIndex, toRemove, removing, edgeSet, toDrop>>
  BY DEF AddEdge, loops
<1> HIDE DEF e
<1>2. /\ DOMAIN edges' = DOMAIN edges \cup {e}
      /\ edges' \in [DOMAIN edges' -> [source : nodes, target : nodes]]
  BY <1>k, <1>1 DEF TypeOK, Put
<1>3. /\ \A n : Outgoing(n)' = IF n = s THEN Outgoing(n) \cup {e} ELSE Outgoing(n)
      /\ \A n : Incoming(n)' = IF n = t THEN Incoming(n) \cup {e} ELSE Incoming(n)
  BY <1>k, <1>1 DEF Put, Outgoing, Incoming
<1>4. \A n \in nodes : /\ Lists(adjacency[n], Outgoing(n)) /\ adjacency[n] \in Seq(EdgeIndex)
                       /\ Lists(reverseAdjacency[n], Incoming(n))
                       /\ reverseAdjacency[n] \in Seq(EdgeIndex)
  BY <1>k DEF AdjacencyAgrees, Outgoing, Incoming, TypeOK
<1>5. /\ Append(adjacency[s], e) \in Seq(EdgeIndex)
      /\ Lists(Append(adjacency[s], e), Outgoing(s) \cup {e})
  <2>1. \A f \in Outgoing(s) : f < e
    BY <1>k DEF Outgoing
  <2> QED BY <2>1, <1>k, <1>4, AppendLists
<1>6. /\ Append(reverseAdjacency[t], e) \in Seq(EdgeIndex)
      /\ Lists(Append(reverseAdjacency[t], e), Incoming(t) \cup {e})
  <2>1. \A f \in Incoming(t) : f < e
    BY <1>k DEF Incoming
  <2> QED BY <2>1, <1>k, <1>4, AppendLists
<1>7. /\ adjacency' \in [nodes -> Seq(EdgeIndex)] /\ reverseAdjacency' \in [nodes -> Seq(EdgeIndex)]
      /\ adjacency'[s] = Append(adjacency[s], e) /\ reverseAdjacency'[t] = Append(reverseAdjacency[t], e)
      /\ \A n \in nodes : /\ n # s => adjacency'[n] = adjacency[n]
                          /\ n # t => reverseAdjacency'[n] = reverseAdjacency[n]
  BY <1>k, <1>1, <1>5, <1>6 DEF TypeOK
<1>8. DOMAIN edges' \subseteq 0 .. (nextEdgeIndex' - 1) /\ nextEdgeIndex' \in 0 .. MaxEdge
  <2>1. \A f \in DOMAIN edges' : f \in 0 .. e
    BY <1>k, <1>2 DEF EdgeIndex
  <2>2. nextEdgeIndex' = e + 1 /\ (e + 1) - 1 = e /\ e + 1 \in 0 .. MaxEdge
    BY <1>k, <1>1, BoundsType
  <2> QED BY <2>1, <2>2
<1>9. TypeOK'
  BY <1>k, <1>1, <1>2, <1>7, <1>8 DEF TypeOK
<1>10. \A n \in nodes' \ removing' : /\ Lists(adjacency'[n], Outgoing(n)')
                                     /\ Lists(reverseAdjacency'[n], Incoming(n)')
  BY <1>1, <1>3, <1>4, <1>5, <1>6, <1>7
<1>11. AdjacencyAgrees'
  BY <1>10 DEF AdjacencyAgrees, Outgoing, Incoming
<1>12. LoopInv'
  BY <1>k, <1>1 DEF LoopInv
<1> QED BY <1>9, <1>11, <1>12 DEF IInv

LEMMA TurnSafe == ASSUME IInv, Turn PROVE IInv'
<1>k. /\ TypeOK /\ AdjacencyAgrees
      /\ removing = {} /\ toRemove = {} /\ toDrop = {} /\ edgeSet = {}
  BY DEF IInv, LoopInv, Turn, AtRest
<1>1. /\ edges' = [e \in DOMAIN edges |-> [source |-> edges[e].target, target |-> edges[e].source]]
      /\ adjacency' = reverseAdjacency /\ reverseAdjacency' = adjacency
      /\ UNCHANGED <<nodes, nextNodeIndex, nextEdgeIndex, toRemove, removing, edgeSet, toDrop>>
  BY DEF Turn, next, loops
<1>2. DOMAIN edges' = DOMAIN edges /\ \A n : Outgoing(n)' = Incoming(n) /\ Incoming(n)' = Outgoing(n)
  BY <1>1 DEF Outgoing, Incoming
<1>3. TypeOK'
  BY <1>k, <1>1 DEF TypeOK
<1>4. \A n \in nodes' \ removing' : /\ Lists(adjacency'[n], Outgoing(n)')
                                    /\ Lists(reverseAdjacency'[n], Incoming(n)')
  BY <1>k, <1>1, <1>2 DEF AdjacencyAgrees, Outgoing, Incoming
<1>5. AdjacencyAgrees'
  BY <1>4 DEF AdjacencyAgrees, Outgoing, Incoming
<1>6. LoopInv'
  BY <1>k, <1>1 DEF LoopInv
<1> QED BY <1>3, <1>5, <1>6 DEF IInv

LEMMA FilterSafe ==
  ASSUME IInv, (\E N \in SUBSET nodes : FilterNodes(N)) \/ (\E E \in SUBSET DOMAIN edges : FilterEdges(E))
  PROVE  IInv'
<1>k. /\ TypeOK /\ AdjacencyAgrees
      /\ removing = {} /\ toRemove = {} /\ toDrop = {} /\ edgeSet = {}
  BY DEF IInv, LoopInv, FilterNodes, FilterEdges, AtRest
<1>1. /\ UNCHANGED <<nodes, edges, adjacency, reverseAdjacency, nextNodeIndex, nextEdgeIndex,
                     removing, edgeSet>>
      /\ \/ toRemove' \subseteq nodes /\ toDrop' = toDrop
         \/ toDrop' \subseteq DOMAIN edges /\ toRemove' = toRemove
  BY DEF FilterNodes, FilterEdges, graph, next
<1> QED BY <1>k, <1>1 DEF IInv, TypeOK, AdjacencyAgrees, LoopInv

LEMMA InvNext == IInv /\ [Next]_vars => IInv'
<1> SUFFICES ASSUME IInv, [Next]_vars PROVE IInv'
  OBVIOUS
<1>1. ASSUME NEW e \in DOMAIN edges, RemoveEdge(e) \/ DropFiltered(e) PROVE IInv'
  <2>1. removing = {} /\ Drop(e) /\ toDrop' = toDrop \ {e}
    BY <1>1 DEF RemoveEdge, DropFiltered, AtRest, IInv, LoopInv
  <2> QED BY <2>1, DropSafe
<1>2. ASSUME NEW n \in nodes, RemoveNode(n) \/ RemoveFiltered(n) PROVE IInv'
  <2>1. removing = {} /\ toDrop = {} /\ StartRemoval(n) /\ toRemove' = toRemove \ {n}
    BY <1>2 DEF RemoveNode, RemoveFiltered, AtRest, IInv, LoopInv
  <2> QED BY <2>1, StartRemovalSafe
<1>3. CASE UNCHANGED vars
  BY <1>3 DEF vars, graph, next, loops, IInv, TypeOK, AdjacencyAgrees, LoopInv, Incoming, Outgoing
<1> QED BY <1>1, <1>2, <1>3, AddNodeSafe, AddEdgeSafe, TurnSafe, DeleteSafe, UnlinkSafe, FilterSafe
        DEF Next

(***************************************************************************)
(* The tables keep their types, whatever operations are done and in        *)
(* whatever order their loops run: no edge ends at a node that is gone,    *)
(* and the next index to be given out is above those in use (Graph.tla,    *)
(* TypeOK).                                                                *)
(***************************************************************************)
THEOREM TypeCorrect == Spec => []TypeOK
<1>1. IInv => TypeOK
  BY DEF IInv
<1> QED BY <1>1, InvInit, InvNext, PTL DEF Spec

(***************************************************************************)
(* Outside the loop of a removal, and for every node the loop does not     *)
(* remove inside it, each adjacency list holds exactly the edges the edge  *)
(* table has for the node, in the order in which they were added           *)
(* (Graph.tla, AdjacencyAgrees).                                           *)
(***************************************************************************)
THEOREM TablesAgree == Spec => []AdjacencyAgrees
<1>1. IInv => AdjacencyAgrees
  BY DEF IInv
<1> QED BY <1>1, InvInit, InvNext, PTL DEF Spec

-----------------------------------------------------------------------------
(***************************************************************************)
(* What the tables stand for: the nodes and edges no loop has to remove.   *)
(***************************************************************************)
LiveNodes == nodes \ Going
LiveEdges == Restrict(edges, Live)

LEMMA AtRestAllLive ==
  ASSUME TypeOK, AtRest
  PROVE  Going = {} /\ LiveNodes = nodes /\ Live = DOMAIN edges /\ LiveEdges = edges
<1>1. Going = {} /\ LiveNodes = nodes /\ Live = DOMAIN edges
  BY DEF AtRest, Going, LiveNodes, Live
<1> QED BY <1>1 DEF TypeOK, LiveEdges, Restrict

\* A step of a loop removes only what was gone already.
LEMMA LoopStutters ==
  ASSUME IInv,
         \/ \E e \in DOMAIN edges : DropFiltered(e) \/ UnlinkEdge(e)
         \/ \E n \in nodes : RemoveFiltered(n)
         \/ DeleteNode
  PROVE  UNCHANGED <<LiveNodes, LiveEdges, nextNodeIndex, nextEdgeIndex>>
<1>k. TypeOK /\ LoopInv
  BY DEF IInv
<1>1. ASSUME NEW e \in DOMAIN edges, UNCHANGED <<nodes, Going, nextNodeIndex, nextEdgeIndex>>,
             edges' = Restrict(edges, DOMAIN edges \ {e}),
             e \notin Live, toDrop' = toDrop \ {e}
      PROVE  UNCHANGED <<LiveNodes, LiveEdges, nextNodeIndex, nextEdgeIndex>>
  <2>1. UNCHANGED Live
    BY <1>1 DEF Live, Restrict
  <2>2. UNCHANGED LiveEdges
    BY <1>1, <2>1 DEF LiveEdges, Live, Restrict
  <2> QED BY <1>1, <2>2 DEF LiveNodes
<1>2. ASSUME NEW e \in DOMAIN edges, DropFiltered(e)
      PROVE  UNCHANGED <<LiveNodes, LiveEdges, nextNodeIndex, nextEdgeIndex>>
  BY <1>1, <1>2 DEF DropFiltered, Drop, next, Going, Live
<1>3. ASSUME NEW e \in DOMAIN edges, UnlinkEdge(e)
      PROVE  UNCHANGED <<LiveNodes, LiveEdges, nextNodeIndex, nextEdgeIndex>>
  <2>1. e \notin Live /\ toDrop = {}
    BY <1>k, <1>3 DEF LoopInv, UnlinkEdge, Live, Going, Incoming, Outgoing
  <2> QED BY <1>1, <1>3, <2>1 DEF UnlinkEdge, next, Going
<1>4. ASSUME NEW n \in nodes, RemoveFiltered(n)
      PROVE  UNCHANGED <<LiveNodes, LiveEdges, nextNodeIndex, nextEdgeIndex>>
  <2>1. Going' = Going /\ UNCHANGED <<nodes, edges, toDrop, nextNodeIndex, nextEdgeIndex>>
    BY <1>4 DEF RemoveFiltered, StartRemoval, Going, graph, next
  <2> QED BY <2>1 DEF LiveNodes, LiveEdges, Live
<1>5. ASSUME DeleteNode
      PROVE  UNCHANGED <<LiveNodes, LiveEdges, nextNodeIndex, nextEdgeIndex>>
  <2>1. /\ \A e \in DOMAIN edges : edges[e].source \notin removing /\ edges[e].target \notin removing
    BY <1>k, <1>5 DEF LoopInv, DeleteNode, Incoming, Outgoing
  <2>2. /\ nodes' = nodes \ removing /\ removing' = {}
        /\ UNCHANGED <<edges, toRemove, toDrop, nextNodeIndex, nextEdgeIndex>>
    BY <1>5 DEF DeleteNode, next
  <2>3. UNCHANGED LiveNodes
    BY <2>2 DEF LiveNodes, Going
  <2>4. UNCHANGED Live
    BY <2>1, <2>2 DEF Live, Going
  <2> QED BY <2>2, <2>3, <2>4 DEF LiveEdges
<1> QED BY <1>2, <1>3, <1>4, <1>5

\* Every removal removes nodes and edges when it starts.
LEMMA RemovalRemoves ==
  ASSUME IInv, AtRest, UNCHANGED <<nextNodeIndex, nextEdgeIndex>>,
         \/ \E e \in DOMAIN edges : RemoveEdge(e)
         \/ \E n \in nodes : RemoveNode(n)
         \/ \E N \in SUBSET nodes : FilterNodes(N)
         \/ \E E \in SUBSET DOMAIN edges : FilterEdges(E)
  PROVE  Abstract!Remove
<1>k. TypeOK /\ LiveNodes = nodes /\ Live = DOMAIN edges /\ LiveEdges = edges
  BY AtRestAllLive DEF IInv
<1>1. /\ nodes' = nodes
      /\ \/ edges' = edges
         \/ \E e \in DOMAIN edges : edges' = Restrict(edges, DOMAIN edges \ {e})
  BY DEF RemoveEdge, Drop, RemoveNode, StartRemoval, FilterNodes, FilterEdges, graph
<1>2. DOMAIN edges' \subseteq DOMAIN edges /\ \A f \in DOMAIN edges' : edges'[f] = edges[f]
  BY <1>1 DEF Restrict
<1>3. LiveNodes' = nodes \ Going' /\ LiveEdges' = [f \in Live' |-> edges'[f]]
  BY <1>1 DEF LiveNodes, LiveEdges, Restrict
<1>4. /\ Live' \subseteq DOMAIN edges'
      /\ \A f \in Live' : edges'[f].source \notin Going' /\ edges'[f].target \notin Going'
  BY DEF Live
<1>5. /\ LiveNodes' \subseteq LiveNodes /\ DOMAIN LiveEdges' = Live' /\ Live' \subseteq DOMAIN LiveEdges
      /\ LiveEdges' = Restrict(LiveEdges, DOMAIN LiveEdges')
  BY <1>k, <1>2, <1>3, <1>4 DEF Restrict
<1>6. \A f \in DOMAIN LiveEdges' : LiveEdges[f].source \in LiveNodes' /\ LiveEdges[f].target \in LiveNodes'
  BY <1>k, <1>2, <1>3, <1>4, <1>5 DEF TypeOK
<1>7. UNCHANGED <<0 .. (nextNodeIndex - 1), 0 .. (nextEdgeIndex - 1)>>
  OBVIOUS
<1>8. LiveEdges' = Abstract!Restrict(LiveEdges, DOMAIN LiveEdges')
  BY <1>5 DEF Restrict, Abstract!Restrict
<1> QED BY <1>5, <1>6, <1>7, <1>8 DEF Abstract!Remove, LiveNodes, LiveEdges

LEMMA AdditionsAdd ==
  ASSUME IInv, AtRest, AtRest',
         AddNode \/ (\E s, t \in nodes : AddEdge(s, t)) \/ Turn
  PROVE  Abstract!Next
<1>0. TypeOK /\ TypeOK'
  <2>1. IInv'
    BY AddNodeSafe, AddEdgeSafe, TurnSafe
  <2> QED BY <2>1 DEF IInv
<1>1. /\ LiveNodes = nodes /\ LiveEdges = edges /\ LiveNodes' = nodes' /\ LiveEdges' = edges'
  <2>1. LiveNodes = nodes /\ LiveEdges = edges
    BY <1>0, AtRestAllLive
  <2>2. LiveNodes' = nodes' /\ Live' = DOMAIN edges'
    BY DEF AtRest, Going, LiveNodes, Live
  <2>3. LiveEdges' = edges'
    BY <1>0, <2>2 DEF TypeOK, LiveEdges, Restrict
  <2> QED BY <2>1, <2>2, <2>3
<1>2. CASE AddNode
  <2>1. PICK n \in NodeIndex : n = nextNodeIndex /\ n \in Nat
    BY <1>0, <1>2, BoundsType DEF TypeOK, AddNode, NodeIndex
  <2>2. /\ n \notin 0 .. (nextNodeIndex - 1)
        /\ 0 .. (nextNodeIndex' - 1) = 0 .. (nextNodeIndex - 1) \cup {n}
    BY <1>2, <2>1 DEF AddNode
  <2>3. LiveNodes' = LiveNodes \cup {n} /\ LiveEdges' = LiveEdges /\ UNCHANGED nextEdgeIndex
    BY <1>1, <1>2, <2>1 DEF AddNode
  <2>4. Abstract!AddNode
    BY <2>2, <2>3 DEF Abstract!AddNode, LiveNodes, LiveEdges
  <2> QED BY <2>4 DEF Abstract!Next
<1>3. CASE \E s, t \in nodes : AddEdge(s, t)
  <2>1. PICK s \in nodes, t \in nodes : AddEdge(s, t)
    BY <1>3
  <2>2. PICK e \in EdgeIndex : e = nextEdgeIndex /\ e \in Nat
    BY <1>0, <2>1, BoundsType DEF TypeOK, AddEdge, EdgeIndex
  <2>3. /\ e \notin 0 .. (nextEdgeIndex - 1)
        /\ 0 .. (nextEdgeIndex' - 1) = 0 .. (nextEdgeIndex - 1) \cup {e}
    BY <2>1, <2>2 DEF AddEdge
  <2>4. /\ LiveNodes' = LiveNodes /\ s \in LiveNodes /\ t \in LiveNodes /\ UNCHANGED nextNodeIndex
        /\ LiveEdges' = [f \in DOMAIN LiveEdges \cup {e} |->
                           IF f = e THEN [source |-> s, target |-> t] ELSE LiveEdges[f]]
    BY <1>1, <2>1, <2>2 DEF AddEdge, Put
  <2>5. Abstract!AddEdge
    BY <2>3, <2>4 DEF Abstract!AddEdge, LiveNodes, LiveEdges
  <2> QED BY <2>5 DEF Abstract!Next
<1>4. CASE Turn
  <2>1. /\ LiveNodes' = LiveNodes /\ UNCHANGED <<nextNodeIndex, nextEdgeIndex>>
        /\ LiveEdges' = [e \in DOMAIN LiveEdges |->
                           [source |-> LiveEdges[e].target, target |-> LiveEdges[e].source]]
    BY <1>1, <1>4 DEF Turn, next
  <2>2. Abstract!Turn
    BY <2>1 DEF Abstract!Turn, LiveNodes, LiveEdges
  <2> QED BY <2>2 DEF Abstract!Next
<1> QED BY <1>2, <1>3, <1>4

LEMMA InitMaps == Init => Abstract!Init
<1> SUFFICES ASSUME Init PROVE Abstract!Init
  OBVIOUS
<1>1. nodes \ Going = {} /\ Live = {} /\ 0 .. (nextNodeIndex - 1) = {} /\ 0 .. (nextEdgeIndex - 1) = {}
  BY DEF Init, Going, Live
<1>2. Restrict(edges, Live) = << >>
  BY <1>1 DEF Restrict
<1> QED BY <1>1, <1>2 DEF Abstract!Init

LEMMA StepMaps == IInv /\ [Next]_vars => [Abstract!Next]_(Abstract!vars)
<1> SUFFICES ASSUME IInv, [Next]_vars PROVE [Abstract!Next]_(Abstract!vars)
  OBVIOUS
<1>1. ASSUME UNCHANGED <<LiveNodes, LiveEdges, nextNodeIndex, nextEdgeIndex>>
      PROVE  UNCHANGED Abstract!vars
  BY <1>1 DEF Abstract!vars, LiveNodes, LiveEdges
<1>2. CASE UNCHANGED vars
  BY <1>1, <1>2 DEF vars, graph, next, loops, LiveNodes, LiveEdges, Live, Going
<1>3. CASE \/ \E e \in DOMAIN edges : DropFiltered(e) \/ UnlinkEdge(e)
           \/ \E n \in nodes : RemoveFiltered(n)
           \/ DeleteNode
  BY <1>1, <1>3, LoopStutters
<1>4. CASE \/ \E e \in DOMAIN edges : RemoveEdge(e)
           \/ \E n \in nodes : RemoveNode(n)
           \/ \E N \in SUBSET nodes : FilterNodes(N)
           \/ \E E \in SUBSET DOMAIN edges : FilterEdges(E)
  <2>1. AtRest /\ UNCHANGED <<nextNodeIndex, nextEdgeIndex>>
    BY <1>4 DEF RemoveEdge, Drop, RemoveNode, StartRemoval, FilterNodes, FilterEdges, next
  <2>2. Abstract!Remove
    BY <1>4, <2>1, RemovalRemoves
  <2> QED BY <2>2 DEF Abstract!Next
<1>5. CASE AddNode \/ (\E s, t \in nodes : AddEdge(s, t)) \/ Turn
  <2>1. AtRest /\ AtRest'
    BY <1>5 DEF AddNode, AddEdge, Turn, AtRest, loops
  <2>2. Abstract!Next
    BY <1>5, <2>1, AdditionsAdd
  <2> QED BY <2>2
<1> QED BY <1>2, <1>3, <1>4, <1>5 DEF Next

(***************************************************************************)
(* Loops and all, the operations are those of a graph of nodes and edges   *)
(* known by indices that are never given out twice, where an edge goes     *)
(* with its node: a removal takes effect in one step, as its loop starts,  *)
(* and the loop has no other effect (Graph.tla, ImplementsAbstractGraph).  *)
(***************************************************************************)
THEOREM Implementation == Spec => ImplementsAbstractGraph
<1> QED BY InvInit, InvNext, InitMaps, StepMaps, PTL
        DEF Spec, ImplementsAbstractGraph, Abstract!Spec
-----------------------------------------------------------------------------
LEMMA LeastNatural ==
  ASSUME NEW S, S \subseteq Nat, S # {}
  PROVE  \E x \in S : \A y \in S : x <= y
<1> DEFINE R == OpToRel(<, Nat)
<1>1. IsWellFoundedOn(R, Nat)
  BY NatLessThanWellFounded
<1>2. \A x, y \in Nat : <<x, y>> \in R <=> x < y
  BY DEF OpToRel
<1>3. PICK x \in S : \A y \in S : ~ (<<y, x>> \in R)
  <2> HIDE DEF R
  <2> QED BY <1>1, WFMin, Zenon
<1>4. ASSUME NEW y \in S PROVE x <= y
  <2>1. x \in Nat /\ y \in Nat /\ ~ (y < x)
    BY <1>2, <1>3
  <2> QED BY <2>1
<1> QED BY <1>4

(***************************************************************************)
(* Loops.  A loop is a recursive function, and it exists whatever the step *)
(* does: its value is where the steps from a state come to rest, if they   *)
(* do, which is the one state at rest in every set that contains the state *)
(* and is closed under the step.                                           *)
(***************************************************************************)
LEMMA RepeatUnfolds ==
  ASSUME NEW S, NEW step \in [S -> S], NEW s \in S
  PROVE  Repeat(step, s) = IF step[s] = s THEN s ELSE Repeat(step, step[s])
<1> DEFINE Closed(U)  == \A u \in U : step[u] \in U
           Ends(t)    == { e \in S : step[e] = e /\ \A U \in SUBSET S : t \in U /\ Closed(U) => e \in U }
           end        == [t \in S |-> CHOOSE e : e \in Ends(t)]
           Runs(f)    == f = [t \in DOMAIN step |-> IF step[t] = t THEN t ELSE f[step[t]]]
           run        == CHOOSE f : Runs(f)
<1>1. ASSUME NEW t \in S, step[t] = t PROVE end[t] = t
  <2>1. t \in Ends(t)
    BY <1>1
  <2>2. ASSUME NEW e \in Ends(t) PROVE e = t
    <3>1. {t} \in SUBSET S /\ t \in {t} /\ Closed({t})
      BY <1>1
    <3>2. e \in {t}
      BY <3>1
    <3> QED BY <3>2
  <2>3. end[t] = CHOOSE e : e \in Ends(t)
    OBVIOUS
  <2> HIDE DEF Ends, end
  <2> QED BY <2>1, <2>2, <2>3
<1>2. ASSUME NEW t \in S, step[t] # t PROVE end[t] = end[step[t]]
  <2>1. Ends(t) = Ends(step[t])
    <3>1. ASSUME NEW e \in Ends(t) PROVE e \in Ends(step[t])
      <4>1. SUFFICES ASSUME NEW U \in SUBSET S, step[t] \in U, Closed(U) PROVE e \in U
        OBVIOUS
      <4>2. U \cup {t} \in SUBSET S /\ t \in U \cup {t} /\ Closed(U \cup {t})
        BY <4>1
      <4>3. e \in U \cup {t} /\ step[e] = e
        BY <4>2
      <4> QED BY <4>3, <1>2
    <3>2. ASSUME NEW e \in Ends(step[t]) PROVE e \in Ends(t)
      <4>1. SUFFICES ASSUME NEW U \in SUBSET S, t \in U, Closed(U) PROVE e \in U
        OBVIOUS
      <4>2. step[t] \in U
        BY <4>1
      <4> QED BY <4>1, <4>2
    <3> QED BY <3>1, <3>2
  <2>2. step[t] \in S
    OBVIOUS
  <2>3. end[t] = (CHOOSE e : e \in Ends(t)) /\ end[step[t]] = CHOOSE e : e \in Ends(step[t])
    BY <2>2
  <2> HIDE DEF Ends, end
  <2> QED BY <2>1, <2>3
<1>3. DOMAIN step = S
  OBVIOUS
<1>4. Runs(end)
  <2>1. end = [t \in S |-> end[t]]
    OBVIOUS
  <2>2. \A t \in S : end[t] = IF step[t] = t THEN t ELSE end[step[t]]
    <3> HIDE DEF end
    <3> QED BY <1>1, <1>2
  <2>3. [t \in S |-> end[t]] = [t \in S |-> IF step[t] = t THEN t ELSE end[step[t]]]
    <3> HIDE DEF end
    <3> QED BY <2>2
  <2> HIDE DEF end
  <2> QED BY <2>1, <2>3, <1>3
<1>5. Runs(run)
  <2> HIDE DEF Runs, end
  <2> QED BY <1>4
<1>6. \A t \in S : run[t] = IF step[t] = t THEN t ELSE run[step[t]]
  <2> HIDE DEF run
  <2> QED BY <1>3, <1>5, Zenon
<1>7. \A t \in S : Repeat(step, t) = run[t]
  BY DEF Repeat
<1> HIDE DEF run
<1>8. step[s] \in S
  OBVIOUS
<1> QED BY <1>6, <1>7, <1>8

(***************************************************************************)
(* A loop whose steps keep an invariant, and decrease a pair of naturals   *)
(* until they change nothing, ends in a state of the invariant.            *)
(***************************************************************************)
LEMMA RepeatEnds ==
  ASSUME NEW S, NEW step \in [S -> S], NEW I \in SUBSET S,
         NEW outer \in [I -> Nat], NEW inner \in [I -> Nat],
         \A s \in I : step[s] # s =>
           /\ step[s] \in I
           /\ \/ outer[step[s]] < outer[s]
              \/ outer[step[s]] = outer[s] /\ inner[step[s]] < inner[s],
         NEW start \in I
  PROVE  Repeat(step, start) \in I /\ step[Repeat(step, start)] = Repeat(step, start)
<1> DEFINE Good(s)   == Repeat(step, s) \in I /\ step[Repeat(step, s)] = Repeat(step, s)
           Bad       == { s \in I : ~ Good(s) }
           Least     == { outer[s] : s \in Bad }
<1>1. SUFFICES ASSUME Bad # {} PROVE FALSE
  OBVIOUS
<1>2. PICK s1 \in Bad : \A s \in Bad : outer[s1] <= outer[s]
  <2>1. Least \subseteq Nat /\ Least # {}
    BY <1>1
  <2>2. PICK k \in Least : \A j \in Least : k <= j
    <3> HIDE DEF Least
    <3> QED BY <2>1, LeastNatural
  <2> HIDE DEF Good
  <2> QED BY <2>2
<1> DEFINE Level == { s \in Bad : outer[s] = outer[s1] }
           Inner == { inner[s] : s \in Level }
<1>3. PICK s2 \in Level : \A s \in Level : inner[s2] <= inner[s]
  <2>1. Inner \subseteq Nat /\ Inner # {}
    <3> HIDE DEF Good
    <3> QED OBVIOUS
  <2>2. PICK k \in Inner : \A j \in Inner : k <= j
    <3> HIDE DEF Inner
    <3> QED BY <2>1, LeastNatural
  <2> HIDE DEF Good
  <2> QED BY <2>2
<1>4. s2 \in I /\ s2 \in S /\ ~ Good(s2) /\ outer[s2] = outer[s1]
  <2> HIDE DEF Good
  <2> QED OBVIOUS
<1>5. Repeat(step, s2) = IF step[s2] = s2 THEN s2 ELSE Repeat(step, step[s2])
  BY <1>4, RepeatUnfolds
<1>6. step[s2] # s2
  BY <1>4, <1>5
<1>7. step[s2] \in I /\ ~ Good(step[s2])
  <2>1. Repeat(step, s2) = Repeat(step, step[s2])
    BY <1>5, <1>6
  <2> QED BY <2>1, <1>4, <1>6
<1>8. step[s2] \in Bad
  <2> HIDE DEF Good
  <2> QED BY <1>7
<1>9. outer[step[s2]] \in Nat /\ outer[s2] \in Nat /\ inner[step[s2]] \in Nat /\ inner[s2] \in Nat
  BY <1>4, <1>7
<1>10. ~ (outer[step[s2]] < outer[s2])
  <2>1. outer[s1] <= outer[step[s2]]
    <3> HIDE DEF Bad
    <3> QED BY <1>2, <1>8
  <2> QED BY <2>1, <1>4, <1>9
<1>11. outer[step[s2]] = outer[s2] /\ inner[step[s2]] < inner[s2]
  BY <1>4, <1>6, <1>10
<1>12. step[s2] \in Level
  <2> HIDE DEF Bad
  <2> QED BY <1>4, <1>8, <1>11
<1>13. inner[s2] <= inner[step[s2]]
  <2> HIDE DEF Level
  <2> QED BY <1>3, <1>12
<1> QED BY <1>9, <1>11, <1>13

\* The same for a loop of which it is known when it has nothing left to do.
ComesToRest(S, step, I, Done, outer, inner) ==
  /\ step \in [S -> S] /\ I \in SUBSET S /\ Done \in SUBSET I
  /\ outer \in [I -> Nat] /\ inner \in [I -> Nat]
  /\ \A s \in Done : step[s] = s
  /\ \A s \in I \ Done :
       /\ step[s] \in I
       /\ \/ outer[step[s]] < outer[s]
          \/ outer[step[s]] = outer[s] /\ inner[step[s]] < inner[s]

LEMMA RepeatFinishes ==
  ASSUME NEW S, NEW step, NEW I, NEW Done, NEW outer, NEW inner,
         ComesToRest(S, step, I, Done, outer, inner), NEW start \in I
  PROVE  Repeat(step, start) \in Done
<1>0. /\ step \in [S -> S] /\ I \in SUBSET S /\ Done \in SUBSET I
      /\ outer \in [I -> Nat] /\ inner \in [I -> Nat]
      /\ \A s \in Done : step[s] = s
      /\ \A s \in I \ Done :
           /\ step[s] \in I
           /\ \/ outer[step[s]] < outer[s]
              \/ outer[step[s]] = outer[s] /\ inner[step[s]] < inner[s]
  BY DEF ComesToRest
<1>1. \A s \in I : step[s] # s =>
           /\ step[s] \in I
           /\ \/ outer[step[s]] < outer[s]
              \/ outer[step[s]] = outer[s] /\ inner[step[s]] < inner[s]
  BY <1>0
<1>2. Repeat(step, start) \in I /\ step[Repeat(step, start)] = Repeat(step, start)
  BY <1>0, <1>1, RepeatEnds
<1>3. \A s \in I : outer[s] \in Nat /\ inner[s] \in Nat
  BY <1>0
<1>4. ASSUME NEW s \in I \ Done, step[s] = s PROVE FALSE
  <2>1. outer[s] < outer[s] \/ inner[s] < inner[s]
    BY <1>0, <1>4
  <2>2. outer[s] \in Nat /\ inner[s] \in Nat
    BY <1>3
  <2> QED BY <2>1, <2>2
<1> QED BY <1>2, <1>4

(***************************************************************************)
(* In a finite set with a strict total order R, the number of elements     *)
(* before each is its place.                                               *)
(***************************************************************************)
LowerThan(P, R, p) == { q \in P : <<q, p>> \in R }

StrictlyOrders(R, P) ==
  /\ \A p \in P : <<p, p>> \notin R
  /\ \A o, p, q \in P : <<o, p>> \in R /\ <<p, q>> \in R => <<o, q>> \in R
  /\ \A p, q \in P : p # q => <<p, q>> \in R \/ <<q, p>> \in R

LEMMA Ranks ==
  ASSUME NEW P, IsFiniteSet(P), NEW R, StrictlyOrders(R, P)
  PROVE  /\ Cardinality(P) \in Nat
         /\ \E rank \in [P -> 0 .. (Cardinality(P) - 1)] :
              /\ \A p \in P : rank[p] = Cardinality(LowerThan(P, R, p))
              /\ \A p, q \in P : <<p, q>> \in R => rank[p] < rank[q]
              /\ \A p, q \in P : rank[p] = rank[q] => p = q
              /\ \A i \in 1 .. Cardinality(P) : \E p \in P : rank[p] = i - 1
<1> DEFINE before(p) == { q \in P : <<q, p>> \in R }
           rank      == [p \in P |-> Cardinality(before(p))]
           k         == Cardinality(P)
<1>0. /\ k \in Nat
      /\ \A p \in P : <<p, p>> \notin R
      /\ \A o, p, q \in P : <<o, p>> \in R /\ <<p, q>> \in R => <<o, q>> \in R
      /\ \A p, q \in P : p # q => <<p, q>> \in R \/ <<q, p>> \in R
  BY FS_CardinalityType DEF StrictlyOrders
<1>1. \A p \in P : before(p) \in SUBSET P /\ IsFiniteSet(before(p)) /\ Cardinality(before(p)) \in Nat
  <2> SUFFICES ASSUME NEW p \in P
               PROVE  before(p) \in SUBSET P /\ IsFiniteSet(before(p)) /\ Cardinality(before(p)) \in Nat
    OBVIOUS
  <2>1. before(p) \in SUBSET P
    OBVIOUS
  <2> HIDE DEF before
  <2> QED BY <2>1, FS_Subset, FS_CardinalityType
<1>2. \A p \in P : rank[p] \in 0 .. (k - 1)
  <2> SUFFICES ASSUME NEW p \in P PROVE Cardinality(before(p)) \in 0 .. (k - 1)
    OBVIOUS
  <2>1. p \notin before(p)
    BY <1>0
  <2>2. Cardinality(before(p)) <= k /\ (k = Cardinality(before(p)) => P = before(p))
    BY <1>1, FS_Subset
  <2>3. Cardinality(before(p)) # k
    BY <2>1, <2>2
  <2> HIDE DEF k, before
  <2> QED BY <2>2, <2>3, <1>0, <1>1
<1>3. ASSUME NEW p \in P, NEW q \in P, <<p, q>> \in R
      PROVE  rank[p] < rank[q]
  <2>1. before(p) \in SUBSET before(q)
    BY <1>0, <1>3
  <2>2. p \in before(q) /\ p \notin before(p)
    BY <1>0, <1>3
  <2>3. /\ Cardinality(before(p)) <= Cardinality(before(q))
        /\ Cardinality(before(q)) = Cardinality(before(p)) => before(q) = before(p)
    BY <2>1, <1>1, FS_Subset
  <2>4. Cardinality(before(p)) # Cardinality(before(q))
    BY <2>2, <2>3
  <2>5. Cardinality(before(p)) \in Nat /\ Cardinality(before(q)) \in Nat
    BY <1>1
  <2>6. rank[p] = Cardinality(before(p)) /\ rank[q] = Cardinality(before(q))
    OBVIOUS
  <2> HIDE DEF rank, before
  <2> QED BY <2>3, <2>4, <2>5, <2>6
<1>4. \A p, q \in P : rank[p] = rank[q] => p = q
  <2> SUFFICES ASSUME NEW p \in P, NEW q \in P, p # q PROVE rank[p] # rank[q]
    OBVIOUS
  <2>1. rank[p] \in 0 .. (k - 1) /\ rank[q] \in 0 .. (k - 1)
    BY <1>2
  <2>2. <<p, q>> \in R \/ <<q, p>> \in R
    BY <1>0
  <2>3. rank[p] < rank[q] \/ rank[q] < rank[p]
    BY <2>2, <1>3
  <2> HIDE DEF rank
  <2> QED BY <2>1, <2>3, <1>0
<1>5. rank \in Injection(P, 0 .. (k - 1))
  <2>1. rank \in [P -> 0 .. (k - 1)]
    BY <1>2
  <2> HIDE DEF rank
  <2> QED BY <2>1, <1>4 DEF Injection, IsInjective
<1>6. rank \in Surjection(P, 0 .. (k - 1))
  <2>1. IsFiniteSet(0 .. (k - 1)) /\ Cardinality(0 .. (k - 1)) = k
    <3>1. 0 \in Int /\ k - 1 \in Int
      BY <1>0
    <3>2. /\ IsFiniteSet(0 .. (k - 1))
          /\ Cardinality(0 .. (k - 1)) = IF 0 > k - 1 THEN 0 ELSE (k - 1) - 0 + 1
      BY <3>1, FS_Interval
    <3> HIDE DEF k
    <3> QED BY <3>2, <1>0
  <2> HIDE DEF rank
  <2> QED BY <1>5, <2>1, FS_Injection
<1>7. ASSUME NEW i \in 1 .. k PROVE \E p \in P : rank[p] = i - 1
  <2>1. i - 1 \in 0 .. (k - 1)
    BY <1>0
  <2> HIDE DEF rank
  <2> QED BY <2>1, <1>6 DEF Surjection
<1>8. \A p \in P : rank[p] = Cardinality(LowerThan(P, R, p))
  BY DEF LowerThan
<1>9. \A p, q \in P : <<p, q>> \in R => rank[p] < rank[q]
  BY <1>3
<1>10. \A i \in 1 .. k : \E p \in P : rank[p] = i - 1
  BY <1>7
<1>11. rank \in [P -> 0 .. (k - 1)]
  BY <1>2
<1> HIDE DEF rank
<1> QED BY <1>0, <1>4, <1>8, <1>9, <1>10, <1>11

Kept(list, S) == { p \in DOMAIN list : list[p] \in S }

(***************************************************************************)
(* Sorting keeps every element that is asked for, wherever it was.         *)
(***************************************************************************)
LEMMA SortedInKeeps ==
  ASSUME NEW list \in Seq(Nat), NEW S
  PROVE  LET k == Cardinality(Kept(list, S)) IN
         /\ k \in Nat
         /\ \E c \in [1 .. k -> Kept(list, S)] :
              /\ SortedIn(list, S) = [i \in 1 .. k |-> list[c[i]]]
              /\ \A i, j \in 1 .. k : c[i] = c[j] => i = j
              /\ \A p \in Kept(list, S) : \E i \in 1 .. k : c[i] = p
              /\ \A i, j \in 1 .. k : i < j => list[c[i]] <= list[c[j]]
<1> DEFINE kept       == { p \in DOMAIN list : list[p] \in S }
           k          == Cardinality(kept)
           goes(q, p) == list[q] < list[p] \/ (list[q] = list[p] /\ q < p)
           R          == { e \in kept \X kept : goes(e[1], e[2]) }
<1>1. /\ Len(list) \in Nat /\ DOMAIN list = 1 .. Len(list)
      /\ \A p \in kept : p \in Nat /\ list[p] \in Nat
  OBVIOUS
<1>2. IsFiniteSet(kept)
  <2>1. IsFiniteSet(DOMAIN list)
    BY <1>1, FS_Interval
  <2> QED BY <2>1, FS_Subset
<1>3. \A p, q \in kept : <<q, p>> \in R <=> goes(q, p)
  OBVIOUS
<1>4. \A p \in kept : LowerThan(kept, R, p) = { q \in kept : goes(q, p) }
  <2> HIDE DEF R, goes, kept
  <2> QED BY <1>3 DEF LowerThan
<1> HIDE DEF R, kept
<1>5. /\ \A p \in kept : <<p, p>> \notin R
      /\ \A o, p, q \in kept : <<o, p>> \in R /\ <<p, q>> \in R => <<o, q>> \in R
      /\ \A p, q \in kept : p # q => <<p, q>> \in R \/ <<q, p>> \in R
  <2>1. \A p \in kept : ~ goes(p, p)
    BY <1>1
  <2>2. \A o, p, q \in kept : goes(o, p) /\ goes(p, q) => goes(o, q)
    BY <1>1
  <2>3. \A p, q \in kept : p # q => goes(p, q) \/ goes(q, p)
    BY <1>1
  <2> HIDE DEF goes
  <2> QED BY <2>1, <2>2, <2>3, <1>3
<1> HIDE DEF goes
<1>6. /\ k \in Nat
      /\ \E rank \in [kept -> 0 .. (k - 1)] :
           /\ \A p \in kept : rank[p] = Cardinality(LowerThan(kept, R, p))
           /\ \A p, q \in kept : <<p, q>> \in R => rank[p] < rank[q]
           /\ \A p, q \in kept : rank[p] = rank[q] => p = q
           /\ \A i \in 1 .. k : \E p \in kept : rank[p] = i - 1
  <2>1. StrictlyOrders(R, kept)
    BY <1>5 DEF StrictlyOrders
  <2> QED BY <1>2, <2>1, Ranks
<1>7. PICK rank \in [kept -> 0 .. (k - 1)] :
           /\ \A p \in kept : rank[p] = Cardinality(LowerThan(kept, R, p))
           /\ \A p, q \in kept : <<p, q>> \in R => rank[p] < rank[q]
           /\ \A p, q \in kept : rank[p] = rank[q] => p = q
           /\ \A i \in 1 .. k : \E p \in kept : rank[p] = i - 1
  BY <1>6
<1>8. \A p \in kept : Cardinality({ q \in kept : goes(q, p) }) = rank[p]
  BY <1>4, <1>7
<1> DEFINE pick(i) == CHOOSE p \in kept : Cardinality({ q \in kept : goes(q, p) }) = i - 1
           c       == [i \in 1 .. k |-> pick(i)]
<1>9. SortedIn(list, S) = [i \in 1 .. k |-> list[c[i]]]
  <2>1. SortedIn(list, S) =
          [i \in 1 .. k |-> list[CHOOSE p \in kept : Cardinality({ q \in kept : goes(q, p) }) = i - 1]]
    BY DEF SortedIn, kept, goes
  <2> HIDE DEF k
  <2> QED BY <2>1
<1>10. \A i \in 1 .. k : c[i] \in kept /\ rank[c[i]] = i - 1
  <2> SUFFICES ASSUME NEW i \in 1 .. k PROVE c[i] \in kept /\ rank[c[i]] = i - 1
    OBVIOUS
  <2> DEFINE P(p) == Cardinality({ q \in kept : goes(q, p) }) = i - 1
  <2>1. c[i] = CHOOSE p \in kept : P(p)
    <3> HIDE DEF k
    <3> QED BY Zenon
  <2>2. \E p \in kept : P(p)
    BY <1>7, <1>8
  <2>3. c[i] \in kept /\ P(c[i])
    <3> HIDE DEF P, c
    <3> QED BY <2>1, <2>2
  <2> HIDE DEF c
  <2> QED BY <2>3, <1>8
<1>11. c \in [1 .. k -> kept]
  <2>1. c = [i \in 1 .. k |-> c[i]]
    <3> HIDE DEF k, pick
    <3> QED OBVIOUS
  <2> HIDE DEF c
  <2> QED BY <1>10, <2>1
<1> HIDE DEF c, k
<1>12. \A i, j \in 1 .. k : c[i] = c[j] => i = j
  <2> SUFFICES ASSUME NEW i \in 1 .. k, NEW j \in 1 .. k, c[i] = c[j] PROVE i = j
    OBVIOUS
  <2>1. i - 1 = j - 1
    BY <1>10
  <2> QED BY <2>1, <1>6
<1>13. \A p \in kept : \E i \in 1 .. k : c[i] = p
  <2> SUFFICES ASSUME NEW p \in kept PROVE \E i \in 1 .. k : c[i] = p
    OBVIOUS
  <2>1. rank[p] \in 0 .. (k - 1)
    BY <1>7
  <2>2. rank[p] + 1 \in 1 .. k /\ (rank[p] + 1) - 1 = rank[p]
    BY <2>1, <1>6
  <2>3. c[rank[p] + 1] \in kept /\ rank[c[rank[p] + 1]] = rank[p]
    BY <2>2, <1>10
  <2> QED BY <2>2, <2>3, <1>7
<1>14. \A i, j \in 1 .. k : i < j => list[c[i]] <= list[c[j]]
  <2> SUFFICES ASSUME NEW i \in 1 .. k, NEW j \in 1 .. k, i < j PROVE list[c[i]] <= list[c[j]]
    OBVIOUS
  <2>1. c[i] \in kept /\ c[j] \in kept /\ rank[c[i]] = i - 1 /\ rank[c[j]] = j - 1
    BY <1>10
  <2>2. c[i] # c[j] /\ ~ (<<c[j], c[i]>> \in R)
    BY <2>1, <1>6, <1>7
  <2>3. <<c[i], c[j]>> \in R
    BY <2>1, <2>2, <1>5
  <2>4. goes(c[i], c[j])
    BY <2>1, <2>3, <1>3
  <2> QED BY <2>1, <2>4, <1>1 DEF goes
<1>15. kept = Kept(list, S)
  BY DEF kept, Kept
<1> QED BY <1>6, <1>9, <1>11, <1>12, <1>13, <1>14, <1>15 DEF k

-----------------------------------------------------------------------------
(***************************************************************************)
(* The keys of the node table come out in ascending order.                 *)
(***************************************************************************)
LEMMA KeysAscend ==
  ASSUME nodes \subseteq Nat, IsFiniteSet(nodes), NEW S \in SUBSET nodes
  PROVE  /\ KeysIn(S) \in Seq(nodes) /\ ToSet(KeysIn(S)) = S
         /\ \A i, j \in DOMAIN KeysIn(S) : i < j => KeysIn(S)[i] < KeysIn(S)[j]
<1> DEFINE list == SetToSeq(nodes)
           r    == KeysIn(S)
<1>1. Cardinality(nodes) \in Nat
  BY FS_CardinalityType
<1>2. /\ list \in [1 .. Cardinality(nodes) -> nodes]
      /\ \A i, j \in 1 .. Cardinality(nodes) : list[i] = list[j] => i = j
      /\ \A n \in nodes : \E i \in 1 .. Cardinality(nodes) : list[i] = n
  <2>1. PICK f \in Bijection(1 .. Cardinality(nodes), nodes) : TRUE
    <3>1. PICK n \in Nat : ExistsBijection(1 .. n, nodes)
      BY FS_NatBijection
    <3>2. n = Cardinality(nodes)
      BY <3>1, FS_CountingElements
    <3> QED BY <3>1, <3>2 DEF ExistsBijection
  <2>2. f \in [1 .. Cardinality(nodes) -> nodes] /\ IsInjective(f)
    BY <2>1 DEF Bijection, Injection, IsInjective
  <2>3. list \in [1 .. Cardinality(nodes) -> nodes] /\ IsInjective(list)
    BY <2>2 DEF SetToSeq
  <2> HIDE DEF list
  <2>4. list \in Injection(1 .. Cardinality(nodes), nodes)
    BY <2>3 DEF Injection, IsInjective
  <2>5. IsFiniteSet(1 .. Cardinality(nodes)) /\ Cardinality(1 .. Cardinality(nodes)) = Cardinality(nodes)
    BY <1>1, FS_Interval
  <2>6. list \in Surjection(1 .. Cardinality(nodes), nodes)
    BY <2>4, <2>5, FS_Injection
  <2> QED BY <2>3, <2>6 DEF IsInjective, Surjection
<1>3. list \in Seq(nodes) /\ list \in Seq(Nat) /\ DOMAIN list = 1 .. Cardinality(nodes)
  <2> HIDE DEF list
  <2>1. PICK m \in Nat : m = Cardinality(nodes)
    BY <1>1
  <2>2. list \in [1 .. m -> nodes] /\ list \in [1 .. m -> Nat]
    BY <1>2, <2>1
  <2>3. list \in Seq(nodes) /\ list \in Seq(Nat) /\ DOMAIN list = 1 .. m
    BY <2>2
  <2> QED BY <2>1, <2>3
<1> DEFINE kept == Kept(list, S)
           k    == Cardinality(kept)
<1>4. k \in Nat
  <2> HIDE DEF list
  <2> QED BY <1>3, SortedInKeeps
<1>5. PICK c \in [1 .. k -> kept] :
                  /\ SortedIn(list, S) = [i \in 1 .. k |-> list[c[i]]]
                  /\ \A i, j \in 1 .. k : c[i] = c[j] => i = j
                  /\ \A p \in kept : \E i \in 1 .. k : c[i] = p
                  /\ \A i, j \in 1 .. k : i < j => list[c[i]] <= list[c[j]]
  <2> HIDE DEF list
  <2> QED BY <1>3, SortedInKeeps
<1>6. r = [i \in 1 .. k |-> list[c[i]]]
  BY <1>5 DEF KeysIn
<1> HIDE DEF r, list
<1>7. \A p \in kept : list[p] \in S /\ p \in 1 .. Cardinality(nodes) /\ list[p] \in nodes /\ list[p] \in Nat
  BY <1>2, <1>3 DEF Kept
<1> HIDE DEF kept
<1> HIDE DEF k
<1>8. r \in Seq(nodes) /\ DOMAIN r = 1 .. k
  BY <1>4, <1>5, <1>6, <1>7
<1>9. ToSet(r) = S
  <2>1. \A i \in 1 .. k : r[i] \in S
    BY <1>5, <1>6, <1>7
  <2>2. ASSUME NEW n \in S PROVE \E i \in 1 .. k : r[i] = n
    <3>1. PICK p \in 1 .. Cardinality(nodes) : list[p] = n
      BY <1>2
    <3>2. p \in kept
      BY <3>1, <1>3 DEF kept, Kept
    <3> QED BY <3>1, <3>2, <1>5, <1>6
  <2> QED BY <2>1, <2>2, <1>8 DEF ToSet
<1>10. \A i, j \in 1 .. k : i < j => r[i] < r[j]
  <2> SUFFICES ASSUME NEW i \in 1 .. k, NEW j \in 1 .. k, i < j PROVE r[i] < r[j]
    OBVIOUS
  <2>1. c[i] \in kept /\ c[j] \in kept /\ c[i] # c[j] /\ list[c[i]] <= list[c[j]]
    BY <1>4, <1>5
  <2>2. list[c[i]] # list[c[j]]
    BY <2>1, <1>2, <1>7
  <2>3. list[c[i]] \in Nat /\ list[c[j]] \in Nat
    BY <2>1, <1>7
  <2> QED BY <2>1, <2>2, <2>3, <1>6
<1> QED BY <1>8, <1>9, <1>10 DEF r

-----------------------------------------------------------------------------
Settled == TypeOK /\ AdjacencyAgrees /\ AtRest

NearEnd(e, direction) ==
  IF direction = "Incoming" THEN edges[e].target ELSE edges[e].source

EdgesOf(n, direction) == { e \in DOMAIN edges : NearEnd(e, direction) = n }

LEMMA SettledGraph ==
  ASSUME Settled
  PROVE  /\ nodes \subseteq Nat /\ IsFiniteSet(nodes) /\ IsFiniteSet(DOMAIN edges)
         /\ \A N \in SUBSET nodes : IsFiniteSet(N) /\ Cardinality(N) \in Nat
         /\ \A e \in DOMAIN edges : edges[e].source \in nodes /\ edges[e].target \in nodes
         /\ \A n \in nodes, direction \in Direction :
              /\ AdjList(n, direction) \in Seq(Nat)
              /\ Lists(AdjList(n, direction), EdgesOf(n, direction))
<1>0. /\ nextNodeIndex \in Nat /\ nextEdgeIndex \in Nat /\ EdgeIndex \subseteq Nat
      /\ nodes \subseteq 0 .. (nextNodeIndex - 1) /\ DOMAIN edges \subseteq 0 .. (nextEdgeIndex - 1)
      /\ edges \in [DOMAIN edges -> [source : nodes, target : nodes]]
      /\ adjacency \in [nodes -> Seq(EdgeIndex)]
      /\ reverseAdjacency \in [nodes -> Seq(EdgeIndex)]
  BY BoundsType DEF Settled, TypeOK, EdgeIndex
<1>1. nodes \subseteq Nat /\ IsFiniteSet(nodes) /\ IsFiniteSet(DOMAIN edges)
  <2>1. IsFiniteSet(0 .. (nextNodeIndex - 1)) /\ IsFiniteSet(0 .. (nextEdgeIndex - 1))
    <3>1. 0 \in Int /\ nextNodeIndex - 1 \in Int /\ nextEdgeIndex - 1 \in Int
      BY <1>0
    <3> QED BY <3>1, FS_Interval
  <2> QED BY <2>1, <1>0, FS_Subset
<1>2. \A N \in SUBSET nodes : IsFiniteSet(N) /\ Cardinality(N) \in Nat
  BY <1>1, FS_Subset, FS_CardinalityType
<1>3. \A e \in DOMAIN edges : edges[e].source \in nodes /\ edges[e].target \in nodes
  BY <1>0
<1>4. ASSUME NEW n \in nodes, NEW direction \in Direction
      PROVE  /\ AdjList(n, direction) \in Seq(Nat)
             /\ Lists(AdjList(n, direction), EdgesOf(n, direction))
  <2>1. adjacency[n] \in Seq(Nat) /\ reverseAdjacency[n] \in Seq(Nat)
    BY <1>0
  <2>2. /\ Lists(adjacency[n], { e \in DOMAIN edges : edges[e].source = n })
        /\ Lists(reverseAdjacency[n], { e \in DOMAIN edges : edges[e].target = n })
    BY DEF Settled, AdjacencyAgrees, AtRest
  <2>3. EdgesOf(n, direction) = IF direction = "Incoming"
                                THEN { e \in DOMAIN edges : edges[e].target = n }
                                ELSE { e \in DOMAIN edges : edges[e].source = n }
    BY DEF EdgesOf, NearEnd
  <2> QED BY <2>1, <2>2, <2>3 DEF AdjList
<1> QED BY <1>1, <1>2, <1>3, <1>4

(***************************************************************************)
(* The neighbors of a node are the far ends of its edges, each edge once.  *)
(***************************************************************************)
LEMMA NeighborsOfEdges ==
  ASSUME Settled, NEW direction \in Direction, NEW n \in nodes
  PROVE  \E known \in Seq(DOMAIN edges) :
           /\ Len(known) = Len(sortedNeighborsDirected(n, direction))
           /\ \A i, j \in 1 .. Len(known) : known[i] = known[j] => i = j
           /\ ToSet(known) = EdgesOf(n, direction)
           /\ \A i \in 1 .. Len(known) :
                sortedNeighborsDirected(n, direction)[i] = FarEnd(known[i], direction)
           /\ sortedNeighborsDirected(n, direction) \in Seq(nodes)
<1> DEFINE list == AdjList(n, direction)
           E    == EdgesOf(n, direction)
           kept == Kept(list, DOMAIN edges)
           k    == Cardinality(kept)
<1>1. /\ list \in Seq(Nat) /\ ToSet(list) = E
      /\ \A i, j \in DOMAIN list : i < j => list[i] < list[j]
  BY SettledGraph DEF Lists
<1>2. E \subseteq DOMAIN edges /\ \A e \in E : FarEnd(e, direction) \in nodes
  BY SettledGraph DEF EdgesOf, FarEnd
<1>3. kept = DOMAIN list /\ \A p \in DOMAIN list : list[p] \in E /\ list[p] \in Nat /\ p \in Nat
  <2>1. \A p \in DOMAIN list : list[p] \in E
    BY <1>1 DEF ToSet
  <2> HIDE DEF list, E
  <2>2. kept = DOMAIN list
    BY <2>1, <1>2 DEF Kept
  <2>3. \A p \in DOMAIN list : list[p] \in Nat /\ p \in Nat
    BY <1>1
  <2> QED BY <2>1, <2>2, <2>3
<1> HIDE DEF list, E
<1>4. /\ k \in Nat
      /\ \E c \in [1 .. k -> kept] :
                  /\ SortedIn(list, DOMAIN edges) = [i \in 1 .. k |-> list[c[i]]]
                  /\ \A i, j \in 1 .. k : c[i] = c[j] => i = j
                  /\ \A p \in kept : \E i \in 1 .. k : c[i] = p
                  /\ \A i, j \in 1 .. k : i < j => list[c[i]] <= list[c[j]]
  BY <1>1, SortedInKeeps
<1>5. PICK c \in [1 .. k -> kept] :
                  /\ SortedIn(list, DOMAIN edges) = [i \in 1 .. k |-> list[c[i]]]
                  /\ \A i, j \in 1 .. k : c[i] = c[j] => i = j
                  /\ \A p \in kept : \E i \in 1 .. k : c[i] = p
  BY <1>4
<1> DEFINE known == [i \in 1 .. k |-> list[c[i]]]
           ns    == sortedNeighborsDirected(n, direction)
<1>6. ns = [i \in 1 .. k |-> FarEnd(known[i], direction)]
  <2>1. SortedIn(AdjList(n, direction), DOMAIN edges) = known
    BY <1>5 DEF list
  <2>2. DOMAIN known = 1 .. k
    OBVIOUS
  <2> HIDE DEF known, k
  <2> QED BY <2>1, <2>2 DEF sortedNeighborsDirected
<1> HIDE DEF kept, k
<1>7. \A i \in 1 .. k : known[i] = list[c[i]] /\ c[i] \in DOMAIN list /\ known[i] \in E
  BY <1>3, <1>5
<1>8. known \in Seq(DOMAIN edges) /\ Len(known) = k /\ DOMAIN known = 1 .. k
  <2>1. known \in [1 .. k -> DOMAIN edges]
    BY <1>7, <1>2
  <2> HIDE DEF known
  <2> QED BY <2>1, <1>4
<1>9. ns \in Seq(nodes) /\ Len(ns) = k
  <2>1. ns \in [1 .. k -> nodes]
    BY <1>6, <1>7, <1>2
  <2> HIDE DEF ns
  <2> QED BY <2>1, <1>4
<1> HIDE DEF known, ns
<1>10. \A i, j \in 1 .. k : known[i] = known[j] => i = j
  <2> SUFFICES ASSUME NEW i \in 1 .. k, NEW j \in 1 .. k, known[i] = known[j] PROVE i = j
    OBVIOUS
  <2>1. c[i] \in DOMAIN list /\ c[j] \in DOMAIN list /\ list[c[i]] = list[c[j]]
    BY <1>7
  <2>2. c[i] \in Nat /\ c[j] \in Nat /\ list[c[i]] \in Nat
    BY <2>1, <1>3
  <2>3. c[i] = c[j]
    BY <2>1, <2>2, <1>1
  <2> QED BY <2>3, <1>5
<1>11. ToSet(known) = E
  <2>1. \A e \in E : \E i \in 1 .. k : known[i] = e
    <3> SUFFICES ASSUME NEW e \in E PROVE \E i \in 1 .. k : known[i] = e
      OBVIOUS
    <3>1. PICK p \in DOMAIN list : list[p] = e
      BY <1>1 DEF ToSet
    <3>2. PICK i \in 1 .. k : c[i] = p
      BY <3>1, <1>3, <1>5
    <3> QED BY <3>1, <3>2, <1>7
  <2> QED BY <2>1, <1>7, <1>8 DEF ToSet
<1>12. \A i \in 1 .. k : ns[i] = FarEnd(known[i], direction)
  BY <1>6
<1> QED BY <1>8, <1>9, <1>10, <1>11, <1>12 DEF ns, E

LEMMA NeighborsAreSuccessors ==
  ASSUME Settled, NEW direction \in Direction
  PROVE  /\ \A n \in nodes : /\ sortedNeighborsDirected(n, direction) \in Seq(nodes)
                             /\ ToSet(sortedNeighborsDirected(n, direction)) = Successors(n, direction)
         /\ \A n : Successors(n, direction) \subseteq nodes
<1>1. ASSUME NEW n \in nodes
      PROVE  /\ sortedNeighborsDirected(n, direction) \in Seq(nodes)
             /\ ToSet(sortedNeighborsDirected(n, direction)) = Successors(n, direction)
  <2> DEFINE ns == sortedNeighborsDirected(n, direction)
  <2>1. PICK known \in Seq(DOMAIN edges) :
           /\ Len(known) = Len(ns)
           /\ ToSet(known) = EdgesOf(n, direction)
           /\ \A i \in 1 .. Len(known) : ns[i] = FarEnd(known[i], direction)
           /\ ns \in Seq(nodes)
    BY NeighborsOfEdges
  <2> HIDE DEF ns
  <2>2. DOMAIN ns = 1 .. Len(known) /\ DOMAIN known = 1 .. Len(known)
    BY <2>1
  <2>3. Successors(n, direction) = { FarEnd(e, direction) : e \in EdgesOf(n, direction) }
    BY DEF Successors, EdgesOf, NearEnd
  <2>4. ToSet(ns) = { FarEnd(known[i], direction) : i \in 1 .. Len(known) }
    BY <2>1, <2>2 DEF ToSet
  <2>5. EdgesOf(n, direction) = { known[i] : i \in 1 .. Len(known) }
    BY <2>1, <2>2 DEF ToSet
  <2>6. ToSet(ns) = Successors(n, direction)
    BY <2>3, <2>4, <2>5
  <2> QED BY <2>1, <2>6 DEF ns
<1>2. \A n : Successors(n, direction) \subseteq nodes
  BY SettledGraph DEF Successors, FarEnd
<1> QED BY <1>1, <1>2

(***************************************************************************)
(* What is reached is the least set that is closed under successors.       *)
(***************************************************************************)
Closed(N, direction) == \A m \in N : Successors(m, direction) \subseteq N

LEMMA ReachedIsLeast ==
  ASSUME NEW direction, NEW N \in SUBSET nodes, NEW S \in SUBSET N, Closed(N, direction)
  PROVE  Reached(S, direction) \subseteq N
BY DEF Reached, Closed

LEMMA ReachedIsClosed ==
  ASSUME Settled, NEW direction \in Direction, NEW S \in SUBSET nodes
  PROVE  /\ Reached(S, direction) \subseteq nodes
         /\ S \subseteq Reached(S, direction)
         /\ Closed(Reached(S, direction), direction)
<1>1. Reached(S, direction) \subseteq nodes /\ S \subseteq Reached(S, direction)
  BY DEF Reached
<1>2. ASSUME NEW m \in Reached(S, direction), NEW x \in Successors(m, direction)
      PROVE  x \in Reached(S, direction)
  <2>1. x \in nodes
    BY NeighborsAreSuccessors
  <2>2. SUFFICES ASSUME NEW N \in SUBSET nodes, S \subseteq N,
                        \A y \in N : Successors(y, direction) \subseteq N
                 PROVE  x \in N
    BY <2>1 DEF Reached
  <2>3. m \in N
    BY <2>2 DEF Reached
  <2> QED BY <2>2, <2>3
<1> QED BY <1>1, <1>2 DEF Closed

LEMMA ReachedFromReached ==
  ASSUME Settled, NEW direction \in Direction, NEW T \in SUBSET nodes,
         NEW S \in SUBSET Reached(T, direction)
  PROVE  Reached(S, direction) \subseteq Reached(T, direction)
BY ReachedIsClosed, ReachedIsLeast

LEMMA LeastOf ==
  ASSUME NEW S, S \subseteq Nat, S # {}
  PROVE  Min(S) \in S /\ \A x \in S : Min(S) <= x
BY LeastNatural DEF Min

LEMMA GreatestOf ==
  ASSUME NEW b \in Nat, NEW S \in SUBSET (0 .. b), S # {}
  PROVE  Max(S) \in S /\ \A x \in S : x <= Max(S)
<1> DEFINE D == { b - x : x \in S }
<1>1. D \subseteq Nat /\ D # {}
  <2>1. \A x \in S : x \in 0 .. b /\ b - x \in Nat
    OBVIOUS
  <2> QED BY <2>1
<1>2. PICK m \in D : \A y \in D : m <= y
  <2> HIDE DEF D
  <2> QED BY <1>1, LeastNatural
<1>3. PICK x \in S : m = b - x
  OBVIOUS
<1>4. \A y \in S : x >= y
  <2> SUFFICES ASSUME NEW y \in S PROVE x >= y
    OBVIOUS
  <2>1. b - x <= b - y
    BY <1>2, <1>3
  <2>2. x \in Int /\ y \in Int
    OBVIOUS
  <2> QED BY <2>1, <2>2
<1>5. Max(S) \in S /\ \A y \in S : Max(S) >= y
  BY <1>4 DEF Max
<1>6. \A y \in S : y \in Int
  OBVIOUS
<1> QED BY <1>5, <1>6

LEMMA FrontFacts ==
  ASSUME NEW X, NEW s \in Seq(X), s # << >>
  PROVE  /\ Front(s) \in Seq(X) /\ Len(Front(s)) = Len(s) - 1 /\ Len(s) \in Nat /\ Len(s) > 0
         /\ \A i \in 1 .. (Len(s) - 1) : Front(s)[i] = s[i]
         /\ Last(s) = s[Len(s)] /\ Last(s) \in X
<1>1. Len(s) \in Nat /\ Len(s) > 0
  OBVIOUS
<1>2. Last(s) = s[Len(s)] /\ Last(s) \in X
  BY <1>1 DEF Last
<1>3. Front(s) = SubSeq(s, 1, Len(s) - 1)
  BY DEF Front
<1>4. /\ SubSeq(s, 1, Len(s) - 1) \in Seq(X) /\ Len(SubSeq(s, 1, Len(s) - 1)) = Len(s) - 1
      /\ \A i \in 1 .. (Len(s) - 1) : SubSeq(s, 1, Len(s) - 1)[i] = s[i]
  <2>1. PICK m \in Nat : m = Len(s) - 1
    BY <1>1
  <2>2. (\A i \in 1 .. m : s[i] \in X) /\ 1 \in Int /\ m \in Int
    BY <2>1
  <2>3. /\ SubSeq(s, 1, m) \in Seq(X) /\ Len(SubSeq(s, 1, m)) = IF 1 <= m THEN m - 1 + 1 ELSE 0
        /\ \A i \in 1 .. (m - 1 + 1) : SubSeq(s, 1, m)[i] = s[1 + i - 1]
    BY <2>2, SubSeqProperties
  <2>4. \A i \in 1 .. m : SubSeq(s, 1, m)[i] = s[i]
    BY <2>3
  <2>5. Len(SubSeq(s, 1, m)) = m
    BY <2>3
  <2> QED BY <2>1, <2>3, <2>4, <2>5
<1> QED BY <1>1, <1>2, <1>3, <1>4

LEMMA PushFacts ==
  ASSUME NEW X, NEW s \in Seq(X), NEW x \in X
  PROVE  /\ <<x>> \o s \in Seq(X) /\ Len(<<x>> \o s) = Len(s) + 1 /\ Len(s) \in Nat
         /\ (<<x>> \o s)[1] = x
         /\ \A i \in 1 .. Len(s) : (<<x>> \o s)[i + 1] = s[i]
         /\ \A i \in 2 .. (Len(s) + 1) : (<<x>> \o s)[i] = s[i - 1]
OBVIOUS

LEMMA TailFacts ==
  ASSUME NEW X, NEW s \in Seq(X), s # << >>
  PROVE  /\ Tail(s) \in Seq(X) /\ Len(Tail(s)) = Len(s) - 1 /\ Len(s) \in Nat /\ Len(s) > 0
         /\ \A i \in 1 .. (Len(s) - 1) : Tail(s)[i] = s[i + 1]
         /\ \A i \in 2 .. Len(s) : Tail(s)[i - 1] = s[i]
         /\ Head(s) = s[1] /\ Head(s) \in X
OBVIOUS

LEMMA AppendFacts ==
  ASSUME NEW X, NEW s \in Seq(X), NEW x \in X
  PROVE  /\ Append(s, x) \in Seq(X) /\ Len(Append(s, x)) = Len(s) + 1 /\ Len(s) \in Nat
         /\ Append(s, x)[Len(s) + 1] = x
         /\ \A i \in 1 .. Len(s) : Append(s, x)[i] = s[i]
         /\ ToSet(Append(s, x)) = ToSet(s) \cup {x}
         /\ Last(Append(s, x)) = x
<1> DEFINE r == Append(s, x)
<1>1. /\ r \in Seq(X) /\ Len(r) = Len(s) + 1 /\ Len(s) \in Nat /\ r[Len(s) + 1] = x
      /\ \A i \in 1 .. Len(s) : r[i] = s[i]
  OBVIOUS
<1>2. DOMAIN r = 1 .. (Len(s) + 1) /\ DOMAIN s = 1 .. Len(s)
  BY <1>1
<1> HIDE DEF r
<1>3. ToSet(r) = ToSet(s) \cup {x}
  <2>1. \A i \in DOMAIN r : r[i] \in ToSet(s) \cup {x}
    BY <1>1, <1>2 DEF ToSet
  <2>2. \A y \in ToSet(s) : \E i \in DOMAIN r : r[i] = y
    BY <1>1, <1>2 DEF ToSet
  <2>3. \E i \in DOMAIN r : r[i] = x
    BY <1>1, <1>2
  <2> QED BY <2>1, <2>2, <2>3 DEF ToSet
<1>4. Last(r) = x
  BY <1>1 DEF Last
<1> QED BY <1>1, <1>3, <1>4 DEF r

Distinct(s) == \A i, j \in DOMAIN s : s[i] = s[j] => i = j

LEMMA DistinctCounted ==
  ASSUME NEW X, NEW s \in Seq(X), Distinct(s)
  PROVE  IsFiniteSet(ToSet(s)) /\ Cardinality(ToSet(s)) = Len(s)
<1>1. Len(s) \in Nat /\ DOMAIN s = 1 .. Len(s) /\ s \in [1 .. Len(s) -> ToSet(s)]
  BY DEF ToSet
<1>2. s \in Bijection(1 .. Len(s), ToSet(s))
  BY <1>1 DEF Bijection, Injection, Surjection, IsInjective, Distinct, ToSet
<1>3. ExistsBijection(1 .. Len(s), ToSet(s))
  BY <1>2 DEF ExistsBijection
<1> QED BY <1>1, <1>3, FS_CountingElements, FS_NatBijection

LEMMA AppendDistinct ==
  ASSUME NEW X, NEW s \in Seq(X), NEW x \in X, Distinct(s), x \notin ToSet(s)
  PROVE  Distinct(Append(s, x))
<1>1. /\ Len(s) \in Nat /\ Len(Append(s, x)) = Len(s) + 1
      /\ Append(s, x)[Len(s) + 1] = x
      /\ \A i \in 1 .. Len(s) : Append(s, x)[i] = s[i]
      /\ DOMAIN Append(s, x) = 1 .. (Len(s) + 1) /\ DOMAIN s = 1 .. Len(s)
  OBVIOUS
<1>2. \A i \in 1 .. Len(s) : s[i] # x
  BY <1>1 DEF ToSet
<1> QED BY <1>1, <1>2 DEF Distinct

LEMMA InSet ==
  ASSUME NEW X, NEW s \in Seq(X)
  PROVE  /\ Len(s) \in Nat /\ DOMAIN s = 1 .. Len(s)
         /\ \A x : x \in ToSet(s) <=> \E i \in 1 .. Len(s) : s[i] = x
         /\ ToSet(s) \subseteq X
         /\ \A i \in 1 .. Len(s) : s[i] \in X
BY DEF ToSet

LEMMA SetOfPush ==
  ASSUME NEW X, NEW s \in Seq(X), NEW x \in X
  PROVE  ToSet(<<x>> \o s) = ToSet(s) \cup {x}
<1> DEFINE r == <<x>> \o s
<1>1. /\ r \in Seq(X) /\ Len(r) = Len(s) + 1 /\ Len(s) \in Nat /\ r[1] = x
      /\ \A i \in 1 .. Len(s) : r[i + 1] = s[i]
      /\ \A i \in 2 .. (Len(s) + 1) : r[i] = s[i - 1]
  BY PushFacts
<1> HIDE DEF r
<1>2. DOMAIN r = 1 .. (Len(s) + 1) /\ DOMAIN s = 1 .. Len(s)
  BY <1>1
<1>3. ASSUME NEW i \in 1 .. (Len(s) + 1) PROVE r[i] \in ToSet(s) \cup {x}
  <2>1. CASE i = 1  BY <1>1, <2>1
  <2>2. CASE i # 1
    <3>1. i - 1 \in 1 .. Len(s) /\ i \in 2 .. (Len(s) + 1)
      BY <1>1, <2>2
    <3> QED BY <1>1, <1>2, <3>1 DEF ToSet
  <2> QED BY <2>1, <2>2
<1>4. ASSUME NEW i \in 1 .. Len(s) PROVE \E j \in 1 .. (Len(s) + 1) : r[j] = s[i]
  <2>1. i + 1 \in 1 .. (Len(s) + 1)
    BY <1>1
  <2> QED BY <1>1, <2>1
<1>5. \E j \in 1 .. (Len(s) + 1) : r[j] = x
  <2>1. 1 \in 1 .. (Len(s) + 1)
    BY <1>1
  <2> QED BY <1>1, <2>1
<1>6. ToSet(r) = ToSet(s) \cup {x}
  BY <1>2, <1>3, <1>4, <1>5 DEF ToSet
<1> QED BY <1>6 DEF r

LEMMA SetOfTail ==
  ASSUME NEW X, NEW s \in Seq(X), s # << >>
  PROVE  ToSet(s) = ToSet(Tail(s)) \cup {Head(s)}
<1> DEFINE r == Tail(s)
<1>1. /\ r \in Seq(X) /\ Len(r) = Len(s) - 1 /\ Len(s) \in Nat /\ Len(s) > 0 /\ Head(s) = s[1]
      /\ \A i \in 1 .. (Len(s) - 1) : r[i] = s[i + 1]
      /\ \A i \in 2 .. Len(s) : r[i - 1] = s[i]
  BY TailFacts
<1> HIDE DEF r
<1>2. DOMAIN r = 1 .. (Len(s) - 1) /\ DOMAIN s = 1 .. Len(s)
  BY <1>1
<1>3. ASSUME NEW i \in 1 .. Len(s) PROVE s[i] \in ToSet(r) \cup {s[1]}
  <2>1. CASE i = 1  BY <1>1, <2>1
  <2>2. CASE i # 1
    <3>1. i - 1 \in 1 .. (Len(s) - 1) /\ i \in 2 .. Len(s)
      BY <1>1, <2>2
    <3> QED BY <1>1, <1>2, <3>1 DEF ToSet
  <2> QED BY <2>1, <2>2
<1>4. ASSUME NEW i \in 1 .. (Len(s) - 1) PROVE \E j \in 1 .. Len(s) : r[i] = s[j]
  <2>1. i + 1 \in 1 .. Len(s)
    BY <1>1
  <2> QED BY <1>1, <2>1
<1>5. 1 \in 1 .. Len(s)
  BY <1>1
<1>6. ToSet(s) = ToSet(r) \cup {s[1]}
  <2>1. \A x \in ToSet(s) : x \in ToSet(r) \cup {s[1]}
    BY <1>2, <1>3 DEF ToSet
  <2>2. \A x \in ToSet(r) : x \in ToSet(s)
    BY <1>2, <1>4 DEF ToSet
  <2>3. s[1] \in ToSet(s)
    BY <1>2, <1>5 DEF ToSet
  <2> QED BY <2>1, <2>2, <2>3
<1> QED BY <1>1, <1>6 DEF r

LEMMA SetOfFront ==
  ASSUME NEW X, NEW s \in Seq(X), s # << >>
  PROVE  ToSet(s) = ToSet(Front(s)) \cup {Last(s)}
<1> DEFINE r == Front(s)
<1>1. /\ r \in Seq(X) /\ Len(r) = Len(s) - 1 /\ Len(s) \in Nat /\ Len(s) > 0 /\ Last(s) = s[Len(s)]
      /\ \A i \in 1 .. (Len(s) - 1) : r[i] = s[i]
  BY FrontFacts
<1> HIDE DEF r
<1>2. DOMAIN r = 1 .. (Len(s) - 1) /\ DOMAIN s = 1 .. Len(s)
  BY <1>1
<1>3. ASSUME NEW i \in 1 .. Len(s) PROVE s[i] \in ToSet(r) \cup {s[Len(s)]}
  <2>1. CASE i = Len(s)  BY <2>1
  <2>2. CASE i # Len(s)
    <3>1. i \in 1 .. (Len(s) - 1)
      BY <1>1, <2>2
    <3> QED BY <1>1, <1>2, <3>1 DEF ToSet
  <2> QED BY <2>1, <2>2
<1>4. ASSUME NEW i \in 1 .. (Len(s) - 1) PROVE \E j \in 1 .. Len(s) : r[i] = s[j]
  <2>1. i \in 1 .. Len(s)
    BY <1>1
  <2> QED BY <1>1, <2>1
<1>5. Len(s) \in 1 .. Len(s)
  BY <1>1
<1>6. ToSet(s) = ToSet(r) \cup {s[Len(s)]}
  <2>1. \A x \in ToSet(s) : x \in ToSet(r) \cup {s[Len(s)]}
    BY <1>2, <1>3 DEF ToSet
  <2>2. \A x \in ToSet(r) : x \in ToSet(s)
    BY <1>2, <1>4 DEF ToSet
  <2>3. s[Len(s)] \in ToSet(s)
    BY <1>2, <1>5 DEF ToSet
  <2> QED BY <2>1, <2>2, <2>3
<1> QED BY <1>1, <1>6 DEF r

\* A search that takes one more node has fewer left.
LEMMA FewerLeft ==
  ASSUME Settled, NEW Y \in SUBSET nodes, NEW n \in nodes \ Y
  PROVE  /\ Cardinality(nodes \ Y) \in Nat /\ Cardinality(nodes \ (Y \cup {n})) \in Nat
         /\ Cardinality(nodes \ (Y \cup {n})) < Cardinality(nodes \ Y)
<1>1. IsFiniteSet(nodes \ Y) /\ n \in nodes \ Y /\ nodes \ (Y \cup {n}) = (nodes \ Y) \ {n}
      /\ Cardinality(nodes \ Y) \in Nat /\ Cardinality((nodes \ Y) \ {n}) \in Nat
  BY SettledGraph
<1>2. Cardinality((nodes \ Y) \ {n}) = Cardinality(nodes \ Y) - 1
  BY <1>1, FS_RemoveElement
<1> QED BY <1>1, <1>2

(***************************************************************************)
(* The searches in their order.                                            *)
(***************************************************************************)
Before(result, i) == { result[j] : j \in 1 .. (i - 1) }

OpenAt(result, direction, i) ==
  { j \in 1 .. (i - 1) : Fresh(result[j], Before(result, i), direction) # {} }

\* result[i] is the first fresh neighbor of result[k].
FirstFresh(result, direction, k, i) ==
  result[i] = sortedNeighborsDirected(result[k], direction)[Min(Fresh(result[k], Before(result, i), direction))]

LEMMA ContinuesUnfolds ==
  ASSUME NEW result, NEW direction, NEW i
  PROVE  /\ ContinuesFrom(result, direction, Max, i) <=>
              (OpenAt(result, direction, i) # {} =>
                 FirstFresh(result, direction, Max(OpenAt(result, direction, i)), i))
         /\ ContinuesFrom(result, direction, Min, i) <=>
              (OpenAt(result, direction, i) # {} =>
                 FirstFresh(result, direction, Min(OpenAt(result, direction, i)), i))
BY DEF ContinuesFrom, OpenAt, FirstFresh, Before

\* The order of the first nodes does not depend on those that follow.
LEMMA OrderOfPrefix ==
  ASSUME NEW X, NEW s \in Seq(X), NEW x \in X, NEW direction, NEW i \in 1 .. Len(s)
  PROVE  /\ ContinuesFrom(s, direction, Max, i) => ContinuesFrom(Append(s, x), direction, Max, i)
         /\ ContinuesFrom(s, direction, Min, i) => ContinuesFrom(Append(s, x), direction, Min, i)
<1> DEFINE r == Append(s, x)
           O == OpenAt(s, direction, i)
<1>1. Len(s) \in Nat /\ (\A j \in 1 .. Len(s) : r[j] = s[j]) /\ i \in Nat
  OBVIOUS
<1> HIDE DEF r
<1>2. Before(r, i) = Before(s, i)
  <2>1. \A j \in 1 .. (i - 1) : r[j] = s[j]
    BY <1>1
  <2> QED BY <2>1 DEF Before
<1>3. OpenAt(r, direction, i) = O
  <2>1. \A j \in 1 .. (i - 1) : r[j] = s[j]
    BY <1>1
  <2> QED BY <2>1, <1>2 DEF OpenAt
<1>4. O # {} => Max(O) \in 1 .. Len(s) /\ Min(O) \in 1 .. Len(s)
  <2>1. O \subseteq 1 .. (i - 1) /\ i - 1 \in Nat
    BY <1>1 DEF OpenAt
  <2>2. O \in SUBSET (0 .. (i - 1)) /\ O \subseteq Nat
    BY <2>1
  <2>3. O # {} => Max(O) \in O /\ Min(O) \in O
    <3> HIDE DEF O
    <3> QED BY <2>1, <2>2, LeastOf, GreatestOf
  <2> QED BY <2>1, <2>3, <1>1
<1>5. \A k \in 1 .. Len(s) : FirstFresh(r, direction, k, i) <=> FirstFresh(s, direction, k, i)
  BY <1>1, <1>2 DEF FirstFresh
<1> QED BY <1>3, <1>4, <1>5, ContinuesUnfolds DEF r

\* What a loop has still to push, and then to pop.
LEMMA Measure ==
  ASSUME NEW p \in Nat, NEW q \in Nat
  PROVE  /\ 2 * p + q \in Nat
         /\ \A o \in Nat, r \in Nat : o = p - 1 /\ (r = q \/ r = q + 1) => 2 * o + r < 2 * p + q
         /\ \A r \in Nat : r = q - 1 => 2 * p + r < 2 * p + q
OBVIOUS

-----------------------------------------------------------------------------
LEMMA StartsKnown ==
  ASSUME Settled, NEW start \in Seq(nodes)
  PROVE  StartNodes(start) \in Seq(nodes)
BY SettledGraph, KeysAscend DEF StartNodes, Externals

-----------------------------------------------------------------------------
(***************************************************************************)
(* Depth first.  A neighbor that is not yielded is on the stack, and above *)
(* it are only nodes that are yielded, that a later yielded node leads to, *)
(* or that the same node leads to along an earlier edge.                   *)
(***************************************************************************)
\* The node at place a among the neighbors of the k-th yielded node.
Neighbor(Y, direction, k, a) == sortedNeighborsDirected(Y[k], direction)[a]

Places(Y, direction, k) == DOMAIN sortedNeighborsDirected(Y[k], direction)

Sooner(Y, direction, k, a, n) ==
  \E l \in DOMAIN Y : \E b \in Places(Y, direction, l) :
    (l > k \/ (l = k /\ b < a)) /\ n = Neighbor(Y, direction, l, b)

Held(s, direction, k, a) ==
  \/ Neighbor(s.yielded, direction, k, a) \in ToSet(s.yielded)
  \/ \E i \in 1 .. Len(s.stack) :
       /\ s.stack[i] = Neighbor(s.yielded, direction, k, a)
       /\ \A j \in 1 .. (i - 1) :
            s.stack[j] \in ToSet(s.yielded) \/ Sooner(s.yielded, direction, k, a, s.stack[j])

DFSInv(s, start, direction) ==
  LET Y == s.yielded
      R == ReachedFrom(start, direction)
      k == Len(Y)
  IN  /\ Distinct(Y)
      /\ ToSet(s.stack) \subseteq R /\ ToSet(s.pending) \subseteq R /\ ToSet(Y) \subseteq R
      /\ ToSet(StartNodes(start)) \subseteq ToSet(Y) \cup ToSet(s.stack) \cup ToSet(s.pending)
      /\ Y # << >> => \A a \in 1 .. Len(s.pending) :
           a \in Places(Y, direction, k) /\ s.pending[a] = Neighbor(Y, direction, k, a)
      /\ \A l \in DOMAIN Y : \A a \in Places(Y, direction, l) :
           (l = k /\ a <= Len(s.pending)) \/ Held(s, direction, l, a)
      /\ \A i \in DOMAIN Y : ContinuesFrom(Y, direction, Max, i)

LEMMA DFSCases ==
  ASSUME Settled, NEW direction \in Direction, NEW s \in DFSState
  PROVE  LET t == DFSStep(direction)[s]
             x == Head(s.stack)
         IN  /\ t \in DFSState
             /\ s.pending # << >> =>
                  /\ t.pending = Front(s.pending) /\ t.yielded = s.yielded
                  /\ t.stack = IF Last(s.pending) \in ToSet(s.yielded) THEN s.stack
                               ELSE <<Last(s.pending)>> \o s.stack
             /\ s.pending = << >> /\ s.stack = << >> => t = s
             /\ s.pending = << >> /\ s.stack # << >> /\ x \in ToSet(s.yielded) =>
                  t.pending = s.pending /\ t.yielded = s.yielded /\ t.stack = Tail(s.stack)
             /\ s.pending = << >> /\ s.stack # << >> /\ x \notin ToSet(s.yielded) =>
                  /\ t.pending = sortedNeighborsDirected(x, direction)
                  /\ t.yielded = Append(s.yielded, x) /\ t.stack = Tail(s.stack)
<1> DEFINE t == DFSStep(direction)[s]
           x == Head(s.stack)
<1>1. s.stack \in Seq(nodes) /\ s.pending \in Seq(nodes) /\ s.yielded \in Seq(nodes)
      /\ s = [stack |-> s.stack, pending |-> s.pending, yielded |-> s.yielded]
  BY DEF DFSState
<1>2. CASE s.pending # << >>
  <2> DEFINE st == IF Last(s.pending) \in ToSet(s.yielded) THEN s.stack
                   ELSE <<Last(s.pending)>> \o s.stack
  <2>1. t = [s EXCEPT !.pending = Front(@), !.stack = IF Last(s.pending) \in ToSet(s.yielded) THEN @
                                                     ELSE <<Last(s.pending)>> \o @]
    BY <1>2 DEF DFSStep
  <2>2. t = [stack |-> st, pending |-> Front(s.pending), yielded |-> s.yielded]
    BY <1>1, <2>1
  <2>3. Front(s.pending) \in Seq(nodes) /\ Last(s.pending) \in nodes
    BY <1>1, <1>2, FrontFacts
  <2>4. st \in Seq(nodes)
    BY <1>1, <2>3, PushFacts
  <2> HIDE DEF st, t
  <2>5. t.stack = st /\ t.pending = Front(s.pending) /\ t.yielded = s.yielded /\ t \in DFSState
    BY <1>1, <2>2, <2>3, <2>4 DEF DFSState
  <2> QED BY <2>5, <1>2 DEF st, t
<1>3. CASE s.pending = << >> /\ s.stack = << >>
  BY <1>3 DEF DFSStep
<1>4. CASE s.pending = << >> /\ s.stack # << >> /\ x \in ToSet(s.yielded)
  <2>1. t = [s EXCEPT !.stack = Tail(@)]
    BY <1>4 DEF DFSStep
  <2>2. t = [stack |-> Tail(s.stack), pending |-> s.pending, yielded |-> s.yielded]
    BY <1>1, <2>1
  <2>3. Tail(s.stack) \in Seq(nodes)
    BY <1>1, <1>4
  <2> HIDE DEF t
  <2>4. t.stack = Tail(s.stack) /\ t.pending = s.pending /\ t.yielded = s.yielded /\ t \in DFSState
    BY <1>1, <2>2, <2>3 DEF DFSState
  <2> QED BY <2>4, <1>4 DEF t
<1>5. CASE s.pending = << >> /\ s.stack # << >> /\ x \notin ToSet(s.yielded)
  <2>1. t = [stack |-> Tail(s.stack), pending |-> sortedNeighborsDirected(x, direction),
             yielded |-> Append(s.yielded, x)]
    BY <1>5 DEF DFSStep
  <2>2. Tail(s.stack) \in Seq(nodes) /\ x \in nodes
    BY <1>1, <1>5
  <2>3. sortedNeighborsDirected(x, direction) \in Seq(nodes) /\ Append(s.yielded, x) \in Seq(nodes)
    BY <1>1, <2>2, NeighborsAreSuccessors
  <2> HIDE DEF t
  <2>4. t.stack = Tail(s.stack) /\ t.pending = sortedNeighborsDirected(x, direction)
        /\ t.yielded = Append(s.yielded, x) /\ t \in DFSState
    BY <2>1, <2>2, <2>3 DEF DFSState
  <2> QED BY <2>4, <1>5 DEF t
<1> QED BY <1>2, <1>3, <1>4, <1>5

LEMMA DFSPush ==
  ASSUME Settled, NEW direction \in Direction, NEW start \in Seq(nodes),
         NEW s \in DFSState, DFSInv(s, start, direction), s.pending # << >>,
         NEW t \in DFSState, t.pending = Front(s.pending), t.yielded = s.yielded,
         t.stack = IF Last(s.pending) \in ToSet(s.yielded) THEN s.stack
                   ELSE <<Last(s.pending)>> \o s.stack
  PROVE  DFSInv(t, start, direction)
<1> DEFINE Y == s.yielded
           R == ReachedFrom(start, direction)
           k == Len(Y)
           p == Len(s.pending)
           m == Last(s.pending)
<1>1. /\ s.stack \in Seq(nodes) /\ s.pending \in Seq(nodes) /\ Y \in Seq(nodes)
      /\ t.stack \in Seq(nodes) /\ t.pending \in Seq(nodes) /\ t.yielded = Y
  BY DEF DFSState
<1>2. /\ Distinct(Y)
      /\ ToSet(s.stack) \subseteq R /\ ToSet(s.pending) \subseteq R /\ ToSet(Y) \subseteq R
      /\ ToSet(StartNodes(start)) \subseteq ToSet(Y) \cup ToSet(s.stack) \cup ToSet(s.pending)
      /\ Y # << >> => \A a \in 1 .. p :
           a \in Places(Y, direction, k) /\ s.pending[a] = Neighbor(Y, direction, k, a)
      /\ \A l \in DOMAIN Y : \A a \in Places(Y, direction, l) :
           (l = k /\ a <= p) \/ Held(s, direction, l, a)
      /\ \A i \in DOMAIN Y : ContinuesFrom(Y, direction, Max, i)
  BY DEF DFSInv
<1>3. /\ p \in Nat /\ p > 0 /\ Len(t.pending) = p - 1 /\ m = s.pending[p] /\ m \in nodes
      /\ \A i \in 1 .. (p - 1) : t.pending[i] = s.pending[i]
  BY <1>1, FrontFacts
<1>4. Len(s.stack) \in Nat /\ k \in Nat /\ DOMAIN Y = 1 .. k
  BY <1>1
<1>5. m \notin ToSet(Y) =>
        /\ Len(t.stack) = Len(s.stack) + 1 /\ t.stack[1] = m
        /\ \A i \in 1 .. Len(s.stack) : t.stack[i + 1] = s.stack[i]
        /\ \A i \in 2 .. (Len(s.stack) + 1) : t.stack[i] = s.stack[i - 1]
  BY <1>1, <1>3, PushFacts
<1>6. m \in ToSet(Y) => t.stack = s.stack
  OBVIOUS
<1>7. m \in R /\ ToSet(s.pending) = ToSet(t.pending) \cup {m}
  BY <1>1, <1>2, SetOfFront
<1>8. ToSet(t.stack) \subseteq ToSet(s.stack) \cup {m} /\ ToSet(s.stack) \subseteq ToSet(t.stack)
      /\ (m \in ToSet(Y) \/ m \in ToSet(t.stack))
  BY <1>1, <1>3, SetOfPush
<1>9. ASSUME NEW l \in DOMAIN Y, NEW a \in Places(Y, direction, l)
      PROVE  (l = k /\ a <= p - 1) \/ Held(t, direction, l, a)
  <2>0. a \in Nat /\ Y # << >> /\ k \in DOMAIN Y /\ l \in 1 .. k
    <3>1. sortedNeighborsDirected(Y[l], direction) \in Seq(nodes)
      BY <1>1, NeighborsAreSuccessors
    <3>2. l \in 1 .. k
      BY <1>4
    <3> QED BY <3>1, <3>2, <1>4 DEF Places
  <2>1. p \in Places(Y, direction, k) /\ m = Neighbor(Y, direction, k, p)
    BY <1>2, <1>3, <2>0
  <2>2. CASE l = k /\ a = p /\ m \in ToSet(Y)
    BY <2>1, <2>2, <1>1 DEF Held
  <2>3. CASE l = k /\ a = p /\ m \notin ToSet(Y)
    <3>1. 1 \in 1 .. Len(t.stack) /\ t.stack[1] = m /\ 1 .. (1 - 1) = {}
      BY <1>4, <1>5, <2>3
    <3> QED BY <3>1, <2>1, <2>3, <1>1 DEF Held
  <2>4. CASE ~ (l = k /\ a <= p)
    <3>1. Held(s, direction, l, a)
      BY <1>2, <2>4
    <3>2. CASE m \in ToSet(Y)
      BY <3>1, <3>2, <1>6 DEF Held
    <3>3. CASE m \notin ToSet(Y)
      <4>1. SUFFICES ASSUME Neighbor(Y, direction, l, a) \notin ToSet(Y) PROVE Held(t, direction, l, a)
        BY <1>1 DEF Held
      <4>2. PICK i \in 1 .. Len(s.stack) :
              /\ s.stack[i] = Neighbor(Y, direction, l, a)
              /\ \A j \in 1 .. (i - 1) :
                   s.stack[j] \in ToSet(Y) \/ Sooner(Y, direction, l, a, s.stack[j])
        BY <3>1, <4>1 DEF Held
      <4>3. i + 1 \in 1 .. Len(t.stack) /\ t.stack[i + 1] = Neighbor(Y, direction, l, a)
        BY <1>4, <1>5, <3>3, <4>2
      <4>4. ASSUME NEW j \in 1 .. ((i + 1) - 1)
            PROVE  t.stack[j] \in ToSet(Y) \/ Sooner(Y, direction, l, a, t.stack[j])
        <5>1. CASE j = 1
          <6>1. k > l \/ (k = l /\ p < a)
            BY <1>3, <1>4, <2>0, <2>4
          <6>2. Sooner(Y, direction, l, a, m)
            BY <2>0, <2>1, <6>1 DEF Sooner
          <6> QED BY <6>2, <5>1, <1>5, <3>3
        <5>2. CASE j # 1
          <6>1. j - 1 \in 1 .. (i - 1) /\ j \in 2 .. (Len(s.stack) + 1)
            BY <1>4, <5>2
          <6> QED BY <6>1, <4>2, <1>5, <3>3
        <5> QED BY <5>1, <5>2
      <4> QED BY <4>3, <4>4, <1>1 DEF Held
    <3> QED BY <3>2, <3>3
  <2>5. CASE l = k /\ a <= p - 1
    BY <2>5
  <2> QED BY <2>2, <2>3, <2>4, <2>5, <2>0, <1>3
<1>10. Y # << >> => \A a \in 1 .. (p - 1) :
         a \in Places(Y, direction, k) /\ t.pending[a] = Neighbor(Y, direction, k, a)
  BY <1>2, <1>3
<1> HIDE DEF R, p, m, Y, k
<1>11. /\ ToSet(t.stack) \subseteq R /\ ToSet(t.pending) \subseteq R
       /\ ToSet(StartNodes(start)) \subseteq ToSet(Y) \cup ToSet(t.stack) \cup ToSet(t.pending)
  BY <1>2, <1>7, <1>8
<1> QED BY <1>1, <1>2, <1>3, <1>9, <1>10, <1>11 DEF DFSInv, Y, k, R

LEMMA DFSSkip ==
  ASSUME Settled, NEW direction \in Direction, NEW start \in Seq(nodes),
         NEW s \in DFSState, DFSInv(s, start, direction), s.pending = << >>,
         s.stack # << >>, Head(s.stack) \in ToSet(s.yielded),
         NEW t \in DFSState, t.pending = s.pending, t.yielded = s.yielded, t.stack = Tail(s.stack)
  PROVE  DFSInv(t, start, direction)
<1> DEFINE Y == s.yielded
           R == ReachedFrom(start, direction)
           k == Len(Y)
<1>1. /\ s.stack \in Seq(nodes) /\ Y \in Seq(nodes) /\ t.yielded = Y /\ t.pending = s.pending
  BY DEF DFSState
<1>2. /\ Distinct(Y)
      /\ ToSet(s.stack) \subseteq R /\ ToSet(s.pending) \subseteq R /\ ToSet(Y) \subseteq R
      /\ ToSet(StartNodes(start)) \subseteq ToSet(Y) \cup ToSet(s.stack) \cup ToSet(s.pending)
      /\ Y # << >> => \A a \in 1 .. Len(s.pending) :
           a \in Places(Y, direction, k) /\ s.pending[a] = Neighbor(Y, direction, k, a)
      /\ \A l \in DOMAIN Y : \A a \in Places(Y, direction, l) :
           (l = k /\ a <= Len(s.pending)) \/ Held(s, direction, l, a)
      /\ \A i \in DOMAIN Y : ContinuesFrom(Y, direction, Max, i)
  BY DEF DFSInv
<1>3. /\ Len(t.stack) = Len(s.stack) - 1 /\ Len(s.stack) \in Nat /\ Head(s.stack) = s.stack[1]
      /\ \A i \in 1 .. (Len(s.stack) - 1) : t.stack[i] = s.stack[i + 1]
      /\ \A i \in 2 .. Len(s.stack) : t.stack[i - 1] = s.stack[i]
  BY <1>1, TailFacts
<1>4. ToSet(s.stack) = ToSet(t.stack) \cup {Head(s.stack)}
  BY <1>1, SetOfTail
<1>5. ASSUME NEW l \in DOMAIN Y, NEW a \in Places(Y, direction, l), Held(s, direction, l, a)
      PROVE  Held(t, direction, l, a)
  <2>1. SUFFICES ASSUME Neighbor(Y, direction, l, a) \notin ToSet(Y) PROVE Held(t, direction, l, a)
    BY <1>1 DEF Held
  <2>2. PICK i \in 1 .. Len(s.stack) :
          /\ s.stack[i] = Neighbor(Y, direction, l, a)
          /\ \A j \in 1 .. (i - 1) :
               s.stack[j] \in ToSet(Y) \/ Sooner(Y, direction, l, a, s.stack[j])
    BY <1>5, <2>1 DEF Held
  <2>3. i # 1
    BY <1>3, <2>1, <2>2
  <2>4. i - 1 \in 1 .. Len(t.stack) /\ t.stack[i - 1] = Neighbor(Y, direction, l, a)
    BY <1>3, <2>2, <2>3
  <2>5. ASSUME NEW j \in 1 .. ((i - 1) - 1)
        PROVE  t.stack[j] \in ToSet(Y) \/ Sooner(Y, direction, l, a, t.stack[j])
    <3>1. j + 1 \in 1 .. (i - 1) /\ j \in 1 .. (Len(s.stack) - 1)
      BY <1>3
    <3> QED BY <3>1, <1>3, <2>2
  <2> QED BY <2>4, <2>5, <1>1 DEF Held
<1> HIDE DEF Y, R, k
<1>6. /\ ToSet(t.stack) \subseteq R
      /\ ToSet(StartNodes(start)) \subseteq ToSet(Y) \cup ToSet(t.stack) \cup ToSet(t.pending)
  <2>1. Head(s.stack) \in ToSet(Y)
    BY DEF Y
  <2> QED BY <2>1, <1>1, <1>2, <1>4
<1> QED BY <1>1, <1>2, <1>5, <1>6 DEF DFSInv, Y, k, R

LEMMA DFSYield ==
  ASSUME Settled, NEW direction \in Direction, NEW start \in Seq(nodes),
         NEW s \in DFSState, DFSInv(s, start, direction), s.pending = << >>,
         s.stack # << >>, Head(s.stack) \notin ToSet(s.yielded),
         NEW t \in DFSState, t.pending = sortedNeighborsDirected(Head(s.stack), direction),
         t.yielded = Append(s.yielded, Head(s.stack)), t.stack = Tail(s.stack)
  PROVE  DFSInv(t, start, direction)
<1> DEFINE Y == s.yielded
           Z == t.yielded
           R == ReachedFrom(start, direction)
           k == Len(Y)
           x == Head(s.stack)
<1>1. /\ s.stack \in Seq(nodes) /\ Y \in Seq(nodes) /\ Z \in Seq(nodes) /\ x \in nodes
  BY TailFacts DEF DFSState
<1>2. /\ Distinct(Y)
      /\ ToSet(s.stack) \subseteq R /\ ToSet(Y) \subseteq R
      /\ ToSet(StartNodes(start)) \subseteq ToSet(Y) \cup ToSet(s.stack) \cup ToSet(s.pending)
      /\ \A l \in DOMAIN Y : \A a \in Places(Y, direction, l) :
           (l = k /\ a <= Len(s.pending)) \/ Held(s, direction, l, a)
      /\ \A i \in DOMAIN Y : ContinuesFrom(Y, direction, Max, i)
  BY DEF DFSInv
<1>3. /\ Len(t.stack) = Len(s.stack) - 1 /\ Len(s.stack) \in Nat /\ Len(s.stack) > 0 /\ x = s.stack[1]
      /\ \A i \in 1 .. (Len(s.stack) - 1) : t.stack[i] = s.stack[i + 1]
      /\ \A i \in 2 .. Len(s.stack) : t.stack[i - 1] = s.stack[i]
  BY <1>1, TailFacts
<1>4. ToSet(s.stack) = ToSet(t.stack) \cup {x}
  BY <1>1, SetOfTail
<1>5. /\ Len(Z) = k + 1 /\ k \in Nat /\ Z[k + 1] = x /\ (\A i \in 1 .. k : Z[i] = Y[i])
      /\ ToSet(Z) = ToSet(Y) \cup {x} /\ DOMAIN Y = 1 .. k /\ DOMAIN Z = 1 .. (k + 1)
  BY <1>1, AppendFacts
<1>6. Distinct(Z)
  BY <1>1, <1>2, AppendDistinct
<1>7. x \in R /\ ToSet(t.pending) \subseteq R
  <2>1. x \in R
    BY <1>2, <1>4
  <2>2. ToSet(t.pending) = Successors(x, direction)
    BY <1>1, NeighborsAreSuccessors
  <2>3. ToSet(StartNodes(start)) \in SUBSET nodes
    BY StartsKnown, InSet
  <2>4. Closed(R, direction)
    BY <2>3, ReachedIsClosed DEF ReachedFrom
  <2> QED BY <2>1, <2>2, <2>4 DEF Closed
<1>8. ToSet(s.pending) = {} /\ Len(s.pending) = 0
  BY DEF ToSet
<1>9. \A l \in 1 .. k : /\ Places(Z, direction, l) = Places(Y, direction, l)
                        /\ \A a : Neighbor(Z, direction, l, a) = Neighbor(Y, direction, l, a)
  BY <1>5 DEF Places, Neighbor
<1>10. ASSUME NEW l \in 1 .. k, NEW a \in Places(Y, direction, l), NEW n, Sooner(Y, direction, l, a, n)
       PROVE  Sooner(Z, direction, l, a, n)
  BY <1>5, <1>9, <1>10 DEF Sooner
<1>11. ASSUME NEW l \in 1 .. k, NEW a \in Places(Y, direction, l) PROVE Held(s, direction, l, a)
  <2>1. a \in 1 .. Len(sortedNeighborsDirected(Y[l], direction))
    <3>1. Y[l] \in nodes
      BY <1>1, <1>5
    <3>2. sortedNeighborsDirected(Y[l], direction) \in Seq(nodes)
      BY <3>1, NeighborsAreSuccessors
    <3> QED BY <3>2 DEF Places
  <2>2. ~ (a <= Len(s.pending))
    BY <2>1, <1>8
  <2> QED BY <2>2, <1>2, <1>5
<1>12. ASSUME NEW l \in DOMAIN Z, NEW a \in Places(Z, direction, l)
       PROVE  (l = Len(Z) /\ a <= Len(t.pending)) \/ Held(t, direction, l, a)
  <2>1. CASE l = k + 1
    <3>1. t.pending = sortedNeighborsDirected(Z[l], direction)
      BY <2>1, <1>5
    <3>2. t.pending \in Seq(nodes)
      BY DEF DFSState
    <3>3. a \in 1 .. Len(t.pending)
      BY <3>1, <3>2 DEF Places
    <3> QED BY <3>3, <2>1, <1>5
  <2>2. CASE l # k + 1
    <3>0. l \in 1 .. k /\ a \in Places(Y, direction, l)
      BY <2>2, <1>5, <1>9
    <3>1. SUFFICES ASSUME Neighbor(Z, direction, l, a) \notin ToSet(Z) PROVE Held(t, direction, l, a)
      BY DEF Held
    <3>2. PICK i \in 1 .. Len(s.stack) :
            /\ s.stack[i] = Neighbor(Y, direction, l, a)
            /\ \A j \in 1 .. (i - 1) :
                 s.stack[j] \in ToSet(Y) \/ Sooner(Y, direction, l, a, s.stack[j])
      BY <3>0, <3>1, <1>5, <1>9, <1>11 DEF Held
    <3>3. i # 1
      BY <1>3, <1>5, <1>9, <3>0, <3>1, <3>2
    <3>4. i - 1 \in 1 .. Len(t.stack) /\ t.stack[i - 1] = Neighbor(Z, direction, l, a)
      BY <1>3, <1>9, <3>0, <3>2, <3>3
    <3>5. ASSUME NEW j \in 1 .. ((i - 1) - 1)
          PROVE  t.stack[j] \in ToSet(Z) \/ Sooner(Z, direction, l, a, t.stack[j])
      <4>1. j + 1 \in 1 .. (i - 1) /\ j \in 1 .. (Len(s.stack) - 1)
        BY <1>3
      <4>2. t.stack[j] = s.stack[j + 1]
        BY <4>1, <1>3
      <4>3. t.stack[j] \in ToSet(Y) \/ Sooner(Y, direction, l, a, t.stack[j])
        BY <4>1, <4>2, <3>2
      <4> QED BY <4>3, <3>0, <1>5, <1>10
    <3> QED BY <3>4, <3>5 DEF Held
  <2> QED BY <2>1, <2>2
<1>13. \A a \in 1 .. Len(t.pending) :
          a \in Places(Z, direction, Len(Z)) /\ t.pending[a] = Neighbor(Z, direction, Len(Z), a)
  <2>1. t.pending = sortedNeighborsDirected(Z[Len(Z)], direction)
    BY <1>5
  <2>2. t.pending \in Seq(nodes)
    BY DEF DFSState
  <2>3. DOMAIN t.pending = 1 .. Len(t.pending)
    BY <2>2
  <2> QED BY <2>1, <2>3 DEF Places, Neighbor
<1>14. ContinuesFrom(Z, direction, Max, k + 1)
  <2> DEFINE O == OpenAt(Z, direction, k + 1)
             K == Max(O)
  <2>1. Before(Z, k + 1) = ToSet(Y)
    <3>1. (k + 1) - 1 = k
      BY <1>5
    <3>2. Before(Z, k + 1) = { Y[j] : j \in 1 .. k }
      BY <3>1, <1>5 DEF Before
    <3> QED BY <3>2, <1>5 DEF ToSet
  <2>2. O = { j \in 1 .. k : Fresh(Y[j], ToSet(Y), direction) # {} }
    <3>1. (k + 1) - 1 = k
      BY <1>5
    <3> HIDE DEF Y, Z, k
    <3> QED BY <3>1, <2>1, <1>5 DEF OpenAt
  <2>3. SUFFICES ASSUME O # {} PROVE FirstFresh(Z, direction, K, k + 1)
    BY ContinuesUnfolds
  <2>4. K \in O /\ \A j \in O : j <= K
    <3>1. O \in SUBSET (0 .. k)
      BY <2>2, <1>5
    <3> HIDE DEF O
    <3> QED BY <3>1, <2>3, <1>5, GreatestOf
  <2> DEFINE F == Fresh(Y[K], ToSet(Y), direction)
             a == Min(F)
  <2>5. K \in 1 .. k /\ F # {} /\ Z[K] = Y[K]
    BY <2>2, <2>4, <1>5
  <2>6. F = { b \in Places(Y, direction, K) : Neighbor(Y, direction, K, b) \notin ToSet(Y) }
    BY DEF Fresh, Places, Neighbor
  <2>7. a \in F /\ \A b \in F : a <= b
    <3>1. Y[K] \in nodes
      BY <1>1, <1>5, <2>5
    <3>2. sortedNeighborsDirected(Y[K], direction) \in Seq(nodes)
      BY <3>1, NeighborsAreSuccessors
    <3>3. F \subseteq Nat
      BY <3>2 DEF Fresh
    <3> HIDE DEF F
    <3> QED BY <3>3, <2>5, LeastOf
  <2> HIDE DEF O, K, F, a
  <2>8. a \in Places(Y, direction, K) /\ Neighbor(Y, direction, K, a) \notin ToSet(Y)
    BY <2>6, <2>7
  <2>9. PICK i \in 1 .. Len(s.stack) :
            /\ s.stack[i] = Neighbor(Y, direction, K, a)
            /\ \A j \in 1 .. (i - 1) :
                 s.stack[j] \in ToSet(Y) \/ Sooner(Y, direction, K, a, s.stack[j])
    BY <2>5, <2>8, <1>11 DEF Held
  <2>10. x = Neighbor(Y, direction, K, a)
    <3>1. CASE i = 1
      BY <3>1, <2>9, <1>3
    <3>2. CASE i # 1
      <4>1. 1 \in 1 .. (i - 1)
        BY <3>2, <1>3
      <4>2. Sooner(Y, direction, K, a, x)
        BY <4>1, <2>9, <1>3
      <4>0. PICK l \in DOMAIN Y : \E b \in Places(Y, direction, l) :
              (l > K \/ (l = K /\ b < a)) /\ x = Neighbor(Y, direction, l, b)
        BY <4>2 DEF Sooner
      <4>3. PICK b \in Places(Y, direction, l) :
              (l > K \/ (l = K /\ b < a)) /\ x = Neighbor(Y, direction, l, b)
        BY <4>0
      <4>4. b \in Fresh(Y[l], ToSet(Y), direction)
        BY <4>3 DEF Fresh, Places, Neighbor
      <4>5. l \in O
        BY <4>4, <2>2, <1>5
      <4>6. l = K /\ b < a
        BY <4>3, <4>5, <2>4, <2>5, <1>5
      <4>7. a <= b
        BY <4>4, <4>6, <2>7 DEF F
      <4>8. a \in Nat /\ b \in Nat
        <5>1. sortedNeighborsDirected(Y[K], direction) \in Seq(nodes)
          BY <1>1, <1>5, <2>5, NeighborsAreSuccessors
        <5> QED BY <5>1, <2>8, <4>3, <4>6 DEF Places
      <4> QED BY <4>6, <4>7, <4>8
    <3> QED BY <3>1, <3>2
  <2>11. Min(Fresh(Z[K], Before(Z, k + 1), direction)) = a
    BY <2>1, <2>5 DEF F, a
  <2> QED BY <2>10, <2>11, <2>5, <1>5 DEF FirstFresh, Neighbor
<1>15. \A i \in DOMAIN Z : ContinuesFrom(Z, direction, Max, i)
  <2> SUFFICES ASSUME NEW i \in 1 .. (k + 1) PROVE ContinuesFrom(Z, direction, Max, i)
    BY <1>5
  <2>1. CASE i = k + 1  BY <2>1, <1>14
  <2>2. CASE i # k + 1
    <3>1. i \in 1 .. Len(Y) /\ ContinuesFrom(Y, direction, Max, i)
      BY <2>2, <1>2, <1>5
    <3> QED BY <3>1, <1>1, OrderOfPrefix
  <2> QED BY <2>1, <2>2
<1> HIDE DEF Y, Z, R, k, x
<1>16. /\ ToSet(t.stack) \subseteq R /\ ToSet(Z) \subseteq R
       /\ ToSet(StartNodes(start)) \subseteq ToSet(Z) \cup ToSet(t.stack) \cup ToSet(t.pending)
  BY <1>2, <1>4, <1>5, <1>7, <1>8
<1> QED BY <1>6, <1>7, <1>12, <1>13, <1>15, <1>16 DEF DFSInv, Z, R

LEMMA ReachedStarts ==
  ASSUME Settled, NEW direction \in Direction, NEW start \in Seq(nodes)
  PROVE  /\ ToSet(StartNodes(start)) \subseteq ReachedFrom(start, direction)
         /\ ReachedFrom(start, direction) \subseteq nodes
         /\ Closed(ReachedFrom(start, direction), direction)
<1>1. ToSet(StartNodes(start)) \in SUBSET nodes
  BY StartsKnown, InSet
<1> QED BY <1>1, ReachedIsClosed DEF ReachedFrom

\* What a search yields is what it reaches, when it is closed under neighbors.
LEMMA YieldsReached ==
  ASSUME Settled, NEW direction \in Direction, NEW start \in Seq(nodes),
         NEW Y \in Seq(nodes), Distinct(Y), ToSet(Y) \subseteq ReachedFrom(start, direction),
         ToSet(StartNodes(start)) \subseteq ToSet(Y),
         \A k \in 1 .. Len(Y) : Successors(Y[k], direction) \subseteq ToSet(Y)
  PROVE  YieldsOnce(Y, ReachedFrom(start, direction))
<1>1. ToSet(Y) \in SUBSET nodes
  BY InSet
<1>2. Closed(ToSet(Y), direction)
  <2>1. SUFFICES ASSUME NEW m \in ToSet(Y) PROVE Successors(m, direction) \subseteq ToSet(Y)
    BY DEF Closed
  <2>2. PICK k \in 1 .. Len(Y) : Y[k] = m
    BY InSet
  <2> QED BY <2>2
<1>3. ToSet(Y) = ReachedFrom(start, direction)
  BY <1>1, <1>2, ReachedIsLeast DEF ReachedFrom
<1> QED BY <1>3, DistinctCounted DEF YieldsOnce

LEMMA DFSEnds ==
  ASSUME Settled, NEW direction \in Direction, NEW start \in Seq(nodes)
  PROVE  \E e \in DFSState : /\ DFSInv(e, start, direction) /\ e.pending = << >> /\ e.stack = << >>
                             /\ e.yielded = DFS(start, direction)
<1> DEFINE step  == DFSStep(direction)
           I     == { s \in DFSState : DFSInv(s, start, direction) }
           Done  == { s \in I : s.pending = << >> /\ s.stack = << >> }
           outer == [s \in I |-> Cardinality(nodes \ ToSet(s.yielded))]
           inner == [s \in I |-> 2 * Len(s.pending) + Len(s.stack)]
           s0    == [stack |-> << >>, pending |-> StartNodes(start), yielded |-> << >>]
<1>1. step \in [DFSState -> DFSState]
  <2>1. \A s \in DFSState : step[s] \in DFSState
    BY DFSCases
  <2>2. step = [s \in DFSState |-> step[s]]
    BY DEF DFSStep
  <2> HIDE DEF step
  <2> QED BY <2>1, <2>2
<1>2. ASSUME NEW s \in DFSState
      PROVE  /\ s.stack \in Seq(nodes) /\ s.pending \in Seq(nodes) /\ s.yielded \in Seq(nodes)
             /\ Len(s.stack) \in Nat /\ Len(s.pending) \in Nat
             /\ 2 * Len(s.pending) + Len(s.stack) \in Nat
             /\ ToSet(s.yielded) \in SUBSET nodes
  <2>1. s.stack \in Seq(nodes) /\ s.pending \in Seq(nodes) /\ s.yielded \in Seq(nodes)
    BY DEF DFSState
  <2>2. Len(s.stack) \in Nat /\ Len(s.pending) \in Nat
    BY <2>1
  <2>3. 2 * Len(s.pending) + Len(s.stack) \in Nat
    BY <2>2, Measure
  <2> QED BY <2>1, <2>2, <2>3, InSet
<1>3. outer \in [I -> Nat] /\ inner \in [I -> Nat]
  <2>1. \A s \in I : Cardinality(nodes \ ToSet(s.yielded)) \in Nat
    BY SettledGraph
  <2>2. \A s \in I : 2 * Len(s.pending) + Len(s.stack) \in Nat
    BY <1>2
  <2> QED BY <2>1, <2>2
<1>4. s0 \in I
  <2>1. StartNodes(start) \in Seq(nodes)
    BY StartsKnown
  <2>2. s0 \in DFSState
    BY <2>1 DEF DFSState
  <2>3. /\ s0.yielded = << >> /\ s0.stack = << >> /\ s0.pending = StartNodes(start)
        /\ DOMAIN s0.yielded = {} /\ ToSet(s0.yielded) = {} /\ ToSet(s0.stack) = {}
    BY DEF ToSet
  <2> HIDE DEF s0
  <2>4. DFSInv(s0, start, direction)
    BY <2>3, ReachedStarts DEF DFSInv, Distinct
  <2> QED BY <2>2, <2>4
<1>5. ASSUME NEW s \in I \ Done
      PROVE  /\ step[s] \in I
             /\ \/ outer[step[s]] < outer[s]
                \/ outer[step[s]] = outer[s] /\ inner[step[s]] < inner[s]
  <2> DEFINE t == step[s]
             x == Head(s.stack)
  <2>0. s \in DFSState /\ DFSInv(s, start, direction) /\ ~ (s.pending = << >> /\ s.stack = << >>)
    BY <1>5
  <2>1. /\ t \in DFSState
        /\ s.pending # << >> =>
                  /\ t.pending = Front(s.pending) /\ t.yielded = s.yielded
                  /\ t.stack = IF Last(s.pending) \in ToSet(s.yielded) THEN s.stack
                               ELSE <<Last(s.pending)>> \o s.stack
        /\ s.pending = << >> /\ s.stack # << >> /\ x \in ToSet(s.yielded) =>
             t.pending = s.pending /\ t.yielded = s.yielded /\ t.stack = Tail(s.stack)
        /\ s.pending = << >> /\ s.stack # << >> /\ x \notin ToSet(s.yielded) =>
             /\ t.pending = sortedNeighborsDirected(x, direction)
             /\ t.yielded = Append(s.yielded, x) /\ t.stack = Tail(s.stack)
    BY <2>0, DFSCases
  <2> HIDE DEF t, x, step
  <2>2. /\ s.stack \in Seq(nodes) /\ s.pending \in Seq(nodes) /\ s.yielded \in Seq(nodes)
        /\ Len(s.stack) \in Nat /\ Len(s.pending) \in Nat
        /\ ToSet(s.yielded) \in SUBSET nodes
        /\ Len(t.stack) \in Nat /\ Len(t.pending) \in Nat
    BY <2>0, <2>1, <1>2
  <2>3. DFSInv(t, start, direction) =>
          /\ t \in I /\ outer[t] = Cardinality(nodes \ ToSet(t.yielded))
          /\ inner[t] = 2 * Len(t.pending) + Len(t.stack)
    BY <2>1
  <2>4. outer[s] = Cardinality(nodes \ ToSet(s.yielded)) /\ inner[s] = 2 * Len(s.pending) + Len(s.stack)
    BY <1>5
  <2> SUFFICES t \in I /\ (outer[t] < outer[s] \/ (outer[t] = outer[s] /\ inner[t] < inner[s]))
    BY DEF t
  <2> HIDE DEF outer, inner, I
  <2>5. CASE s.pending # << >>
    <3>1. DFSInv(t, start, direction)
      BY <2>0, <2>1, <2>5, DFSPush
    <3>2. Len(t.pending) = Len(s.pending) - 1
      BY <2>1, <2>5, <2>2, FrontFacts
    <3>3. Last(s.pending) \in nodes
      BY <2>5, <2>2, FrontFacts
    <3>4. Len(<<Last(s.pending)>> \o s.stack) = Len(s.stack) + 1
      BY <3>3, <2>2, PushFacts
    <3>5. Len(t.stack) = Len(s.stack) + 1 \/ Len(t.stack) = Len(s.stack)
      BY <3>4, <2>1, <2>5
    <3>6. 2 * Len(t.pending) + Len(t.stack) < 2 * Len(s.pending) + Len(s.stack)
      BY <3>2, <3>5, <2>2, Measure
    <3> QED BY <3>1, <3>6, <2>1, <2>3, <2>4, <2>5
  <2>6. CASE s.pending = << >> /\ s.stack # << >> /\ x \in ToSet(s.yielded)
    <3>1. DFSInv(t, start, direction)
      BY <2>0, <2>1, <2>6, DFSSkip DEF x
    <3>2. Len(t.stack) = Len(s.stack) - 1 /\ Len(t.pending) = Len(s.pending)
      BY <2>1, <2>6, <2>2, TailFacts
    <3>3. 2 * Len(t.pending) + Len(t.stack) < 2 * Len(s.pending) + Len(s.stack)
      BY <3>2, <2>2, Measure
    <3> QED BY <3>1, <3>3, <2>1, <2>3, <2>4, <2>6
  <2>7. CASE s.pending = << >> /\ s.stack # << >> /\ x \notin ToSet(s.yielded)
    <3>1. DFSInv(t, start, direction)
      BY <2>0, <2>1, <2>7, DFSYield DEF x
    <3>2. x \in nodes
      BY <2>7, <2>2, TailFacts DEF x
    <3>3. ToSet(t.yielded) = ToSet(s.yielded) \cup {x}
      <4>1. t.yielded = Append(s.yielded, x)
        BY <2>1, <2>7
      <4> QED BY <4>1, <3>2, <2>2, AppendFacts
    <3>4. Cardinality(nodes \ ToSet(t.yielded)) < Cardinality(nodes \ ToSet(s.yielded))
      BY <3>2, <3>3, <2>7, <2>2, FewerLeft
    <3> QED BY <3>1, <3>4, <2>3, <2>4
  <2> QED BY <2>0, <2>5, <2>6, <2>7
<1>6. \A s \in Done : step[s] = s
  BY DFSCases
<1> DEFINE e == Repeat(step, s0)
<1>7. e \in Done
  <2>1. ComesToRest(DFSState, step, I, Done, outer, inner)
    <3>1. I \in SUBSET DFSState /\ Done \in SUBSET I
      OBVIOUS
    <3> HIDE DEF step, outer, inner, I, s0, Done
    <3> QED BY <3>1, <1>1, <1>3, <1>5, <1>6 DEF ComesToRest
  <2> HIDE DEF step, outer, inner, I, s0, Done
  <2> QED BY <2>1, <1>4, RepeatFinishes
<1>8. e.yielded = DFS(start, direction)
  BY DEF DFS
<1> HIDE DEF e, step
<1> QED BY <1>7, <1>8

LEMMA DepthFirstSearch ==
  ASSUME Settled, NEW direction \in Direction, NEW start \in Seq(nodes)
  PROVE  DepthFirst(start, direction)
<1>1. PICK e \in DFSState : /\ DFSInv(e, start, direction) /\ e.pending = << >> /\ e.stack = << >>
                            /\ e.yielded = DFS(start, direction)
  BY DFSEnds
<1> DEFINE Y == DFS(start, direction)
<1>2. Y \in Seq(nodes)
  BY <1>1 DEF DFSState
<1>3. /\ Distinct(Y) /\ ToSet(Y) \subseteq ReachedFrom(start, direction)
      /\ ToSet(StartNodes(start)) \subseteq ToSet(Y) \cup ToSet(e.stack) \cup ToSet(e.pending)
      /\ \A l \in DOMAIN Y : \A a \in Places(Y, direction, l) :
           (l = Len(Y) /\ a <= Len(e.pending)) \/ Held(e, direction, l, a)
      /\ \A i \in DOMAIN Y : ContinuesFrom(Y, direction, Max, i)
  BY <1>1 DEF DFSInv
<1>4. ToSet(e.stack) = {} /\ ToSet(e.pending) = {} /\ Len(e.stack) = 0 /\ Len(e.pending) = 0
  BY <1>1 DEF ToSet
<1> HIDE DEF Y
<1>5. ASSUME NEW k \in 1 .. Len(Y), NEW m \in Successors(Y[k], direction) PROVE m \in ToSet(Y)
  <2>1. /\ sortedNeighborsDirected(Y[k], direction) \in Seq(nodes)
        /\ ToSet(sortedNeighborsDirected(Y[k], direction)) = Successors(Y[k], direction)
    BY <1>2, NeighborsAreSuccessors
  <2>2. PICK a \in Places(Y, direction, k) : Neighbor(Y, direction, k, a) = m
    BY <2>1 DEF ToSet, Places, Neighbor
  <2>3. a \in Nat /\ a > 0 /\ k \in DOMAIN Y
    BY <1>2, <2>1, <2>2 DEF Places
  <2>4. Held(e, direction, k, a)
    BY <1>3, <1>4, <2>2, <2>3
  <2> QED BY <2>2, <2>4, <1>1, <1>4 DEF Held, Y
<1>6. YieldsOnce(Y, ReachedFrom(start, direction))
  BY <1>2, <1>3, <1>4, <1>5, YieldsReached
<1> QED BY <1>3, <1>6 DEF DepthFirst, Y

-----------------------------------------------------------------------------
(***************************************************************************)
(* Breadth first.  What has been yielded and what waits in the queue are   *)
(* the discovered nodes, in the order of their discovery, which is the     *)
(* order of the search; of the node yielded last, the neighbors that are   *)
(* still pending are the last ones.                                        *)
(***************************************************************************)
Found(s) == s.yielded \o s.queue

\* How many neighbors of the node yielded last are through.
Passed(s, direction) ==
  Len(sortedNeighborsDirected(Found(s)[Len(s.yielded)], direction)) - Len(s.pending)

BFSInv(s, start, direction) ==
  LET D == Found(s)
      S == ToSet(StartNodes(start))
      R == ReachedFrom(start, direction)
      k == Len(s.yielded)
  IN  /\ Distinct(D) /\ ToSet(D) = s.discovered
      /\ s.discovered \subseteq R /\ ToSet(s.pending) \subseteq R
      /\ S \subseteq s.discovered \cup ToSet(s.pending)
      /\ k = 0 => s.discovered \subseteq S /\ ToSet(s.pending) \subseteq S
      /\ k > 0 => S \subseteq s.discovered
      /\ \A i \in DOMAIN D :
           IF i <= Cardinality(S) THEN D[i] \in S ELSE ContinuesFrom(D, direction, Min, i)
      /\ \A l \in 1 .. k : \A a \in Places(D, direction, l) :
           Neighbor(D, direction, l, a) \in s.discovered \/ (l = k /\ a > Passed(s, direction))
      /\ k > 0 =>
           /\ Passed(s, direction) \in Nat
           /\ \A b \in 1 .. Len(s.pending) :
                s.pending[b] = Neighbor(D, direction, k, Passed(s, direction) + b)

LEMMA BFSCases ==
  ASSUME Settled, NEW direction \in Direction, NEW s \in BFSState
  PROVE  LET t == BFSStep(direction)[s]
             m == Head(s.pending)
             x == Head(s.queue)
         IN  /\ t \in BFSState
             /\ s.pending # << >> /\ m \in s.discovered =>
                  /\ t.pending = Tail(s.pending) /\ t.yielded = s.yielded
                  /\ t.queue = s.queue /\ t.discovered = s.discovered
             /\ s.pending # << >> /\ m \notin s.discovered =>
                  /\ t.pending = Tail(s.pending) /\ t.yielded = s.yielded
                  /\ t.queue = Append(s.queue, m) /\ t.discovered = s.discovered \cup {m}
             /\ s.pending = << >> /\ s.queue = << >> => t = s
             /\ s.pending = << >> /\ s.queue # << >> =>
                  /\ t.pending = sortedNeighborsDirected(x, direction)
                  /\ t.yielded = Append(s.yielded, x) /\ t.queue = Tail(s.queue)
                  /\ t.discovered = s.discovered
<1> DEFINE t == BFSStep(direction)[s]
           m == Head(s.pending)
           x == Head(s.queue)
<1>1. /\ s.queue \in Seq(nodes) /\ s.pending \in Seq(nodes) /\ s.yielded \in Seq(nodes)
      /\ s.discovered \in SUBSET nodes
  BY DEF BFSState
<1>2. s = [queue |-> s.queue, pending |-> s.pending, discovered |-> s.discovered, yielded |-> s.yielded]
  BY DEF BFSState
<1>3. t = IF s.pending # << >> THEN Discover(s, m)
          ELSE IF s.queue = << >> THEN s
          ELSE [s EXCEPT !.queue = Tail(@),
                         !.pending = sortedNeighborsDirected(Head(s.queue), direction),
                         !.yielded = Append(@, Head(s.queue))]
  BY DEF BFSStep
<1> HIDE DEF t
<1>4. CASE s.pending # << >>
  <2>1. Tail(s.pending) \in Seq(nodes) /\ m \in nodes
    BY <1>1, <1>4, TailFacts
  <2>2. Append(s.queue, m) \in Seq(nodes)
    BY <1>1, <2>1
  <2>3. m \in s.discovered => t = [queue |-> s.queue, pending |-> Tail(s.pending),
                                   discovered |-> s.discovered, yielded |-> s.yielded]
    BY <1>2, <1>3, <1>4 DEF Discover
  <2>4. m \notin s.discovered => t = [queue |-> Append(s.queue, m), pending |-> Tail(s.pending),
                                      discovered |-> s.discovered \cup {m}, yielded |-> s.yielded]
    BY <1>2, <1>3, <1>4 DEF Discover
  <2> HIDE DEF m
  <2>5. s.discovered \cup {m} \in SUBSET nodes
    BY <2>1, <1>1
  <2>6. CASE m \in s.discovered
    <3>0. t = [queue |-> s.queue, pending |-> Tail(s.pending),
               discovered |-> s.discovered, yielded |-> s.yielded]
      BY <2>3, <2>6, Zenon
    <3>1. /\ t.pending = Tail(s.pending) /\ t.yielded = s.yielded /\ t.queue = s.queue
          /\ t.discovered = s.discovered
      BY <3>0
    <3>2. t \in BFSState
      BY <2>1, <3>0, <1>1 DEF BFSState
    <3> QED BY <3>1, <3>2, <2>6, <1>4 DEF t, m
  <2>7. CASE m \notin s.discovered
    <3>0. t = [queue |-> Append(s.queue, m), pending |-> Tail(s.pending),
               discovered |-> s.discovered \cup {m}, yielded |-> s.yielded]
      BY <2>4, <2>7, Zenon
    <3>1. /\ t.pending = Tail(s.pending) /\ t.yielded = s.yielded /\ t.queue = Append(s.queue, m)
          /\ t.discovered = s.discovered \cup {m}
      BY <3>0
    <3>2. t \in BFSState
      BY <2>1, <2>2, <2>5, <3>0, <1>1 DEF BFSState
    <3> QED BY <3>1, <3>2, <2>7, <1>4 DEF t, m
  <2> QED BY <2>6, <2>7
<1>5. CASE s.pending = << >> /\ s.queue = << >>
  BY <1>3, <1>5 DEF t
<1>6. CASE s.pending = << >> /\ s.queue # << >>
  <2>1. Tail(s.queue) \in Seq(nodes) /\ x \in nodes
    BY <1>1, <1>6, TailFacts
  <2>2. Append(s.yielded, x) \in Seq(nodes) /\ sortedNeighborsDirected(x, direction) \in Seq(nodes)
    BY <1>1, <2>1, NeighborsAreSuccessors
  <2>3. t = [queue |-> Tail(s.queue), pending |-> sortedNeighborsDirected(x, direction),
             discovered |-> s.discovered, yielded |-> Append(s.yielded, x)]
    BY <1>2, <1>3, <1>6
  <2> HIDE DEF x
  <2>4. t \in BFSState
    BY <2>1, <2>2, <2>3, <1>1 DEF BFSState
  <2> QED BY <2>3, <2>4, <1>6 DEF t, x
<1> QED BY <1>4, <1>5, <1>6

\* Taking the first of the queue leaves the order of discovery as it is, and
\* joining the queue continues it.
LEMMA FoundKept ==
  ASSUME NEW X, NEW Y \in Seq(X), NEW q \in Seq(X)
  PROVE  /\ q # << >> => Append(Y, Head(q)) \o Tail(q) = Y \o q
         /\ Y \o q \in Seq(X) /\ Len(Y \o q) = Len(Y) + Len(q)
         /\ \A i \in 1 .. Len(Y) : (Y \o q)[i] = Y[i]
         /\ q # << >> => (Y \o q)[Len(Y) + 1] = Head(q)
<1>1. q # << >> => Append(Y, Head(q)) \o Tail(q) = Y \o q
  OBVIOUS
<1>3. /\ Y \o q \in Seq(X) /\ Len(Y \o q) = Len(Y) + Len(q)
      /\ \A i \in 1 .. Len(Y) : (Y \o q)[i] = Y[i]
      /\ q # << >> => (Y \o q)[Len(Y) + 1] = Head(q)
  OBVIOUS
<1> QED BY <1>1, <1>3

LEMMA FoundGrows ==
  ASSUME NEW X, NEW Y \in Seq(X), NEW q \in Seq(X), NEW m \in X
  PROVE  Y \o Append(q, m) = Append(Y \o q, m)
OBVIOUS

LEMMA BFSDiscover ==
  ASSUME Settled, NEW direction \in Direction, NEW start \in Seq(nodes),
         NEW s \in BFSState, BFSInv(s, start, direction), s.pending # << >>,
         NEW t \in BFSState, t.pending = Tail(s.pending), t.yielded = s.yielded,
         \/ /\ Head(s.pending) \in s.discovered
            /\ t.queue = s.queue /\ t.discovered = s.discovered
         \/ /\ Head(s.pending) \notin s.discovered
            /\ t.queue = Append(s.queue, Head(s.pending))
            /\ t.discovered = s.discovered \cup {Head(s.pending)}
  PROVE  BFSInv(t, start, direction)
<1> DEFINE D == Found(s)
           E == Found(t)
           S == ToSet(StartNodes(start))
           R == ReachedFrom(start, direction)
           k == Len(s.yielded)
           m == Head(s.pending)
           p == Len(s.pending)
           d == Passed(s, direction)
           N == sortedNeighborsDirected(D[k], direction)
           L == Len(D)
<1>1. /\ s.queue \in Seq(nodes) /\ s.pending \in Seq(nodes) /\ s.yielded \in Seq(nodes)
      /\ t.yielded = s.yielded /\ t.pending = Tail(s.pending)
  BY DEF BFSState
<1>2. /\ Distinct(D) /\ ToSet(D) = s.discovered
      /\ s.discovered \subseteq R /\ ToSet(s.pending) \subseteq R
      /\ S \subseteq s.discovered \cup ToSet(s.pending)
      /\ k = 0 => s.discovered \subseteq S /\ ToSet(s.pending) \subseteq S
      /\ k > 0 => S \subseteq s.discovered
      /\ \A i \in DOMAIN D :
           IF i <= Cardinality(S) THEN D[i] \in S ELSE ContinuesFrom(D, direction, Min, i)
      /\ \A l \in 1 .. k : \A a \in Places(D, direction, l) :
           Neighbor(D, direction, l, a) \in s.discovered \/ (l = k /\ a > d)
      /\ k > 0 => /\ d \in Nat
                 /\ \A b \in 1 .. p : s.pending[b] = Neighbor(D, direction, k, d + b)
  BY DEF BFSInv
<1>3. /\ p \in Nat /\ p > 0 /\ Len(t.pending) = p - 1 /\ m = s.pending[1] /\ m \in nodes
      /\ \A i \in 1 .. (p - 1) : t.pending[i] = s.pending[i + 1]
      /\ ToSet(s.pending) = ToSet(t.pending) \cup {m}
  BY <1>1, TailFacts, SetOfTail
<1>4. /\ D \in Seq(nodes) /\ L \in Nat /\ k \in Nat /\ k <= L /\ DOMAIN D = 1 .. L
      /\ m \in s.discovered => E = D
      /\ m \notin s.discovered => E = Append(D, m)
  <2>1. /\ D \in Seq(nodes) /\ Len(D) = k + Len(s.queue) /\ k \in Nat /\ Len(s.queue) \in Nat
    BY <1>1, FoundKept DEF Found
  <2>2. m \notin s.discovered => E = Append(D, m)
    <3>1. SUFFICES ASSUME m \notin s.discovered PROVE E = Append(D, m)
      OBVIOUS
    <3>2. t.queue = Append(s.queue, m)
      BY <3>1
    <3> HIDE DEF m
    <3> DEFINE y == s.yielded
               q == s.queue
    <3>3. m \in nodes /\ y \in Seq(nodes) /\ q \in Seq(nodes)
      BY <1>1, <1>3
    <3>4. E = y \o Append(q, m) /\ D = y \o q
      BY <3>2, <1>1 DEF Found
    <3> HIDE DEF y, q, E, D
    <3> QED BY <3>3, <3>4, FoundGrows
  <2>3. m \in s.discovered => E = D
    BY <1>1 DEF Found
  <2> HIDE DEF D, E, m, k
  <2> QED BY <2>1, <2>2, <2>3
<1>5. /\ E \in Seq(nodes) /\ ToSet(E) = t.discovered /\ Distinct(E)
      /\ t.discovered = s.discovered \cup {m}
      /\ \A i \in 1 .. L : E[i] = D[i]
      /\ m \notin s.discovered => Len(E) = L + 1 /\ E[L + 1] = m
      /\ m \in s.discovered => Len(E) = L
      /\ DOMAIN E = 1 .. Len(E)
  <2>1. CASE m \in s.discovered
    BY <2>1, <1>2, <1>4
  <2>2. CASE m \notin s.discovered
    <3>1. E = Append(D, m) /\ m \notin ToSet(D)
      BY <2>2, <1>2, <1>4
    <3>2. t.discovered = s.discovered \cup {m}
      BY <2>2
    <3> HIDE DEF D, E, m
    <3>3. Distinct(E)
      BY <3>1, <1>2, <1>3, <1>4, AppendDistinct
    <3>4. /\ E \in Seq(nodes) /\ ToSet(E) = ToSet(D) \cup {m} /\ Len(E) = L + 1 /\ E[L + 1] = m
          /\ \A i \in 1 .. L : E[i] = D[i]
      <4>1. D \in Seq(nodes) /\ m \in nodes
        BY <1>3, <1>4
      <4> QED BY <3>1, <4>1, AppendFacts
    <3> QED BY <2>2, <3>2, <3>3, <3>4, <1>2
  <2> QED BY <2>1, <2>2
<1>6. \A l \in 1 .. k : /\ Places(E, direction, l) = Places(D, direction, l)
                        /\ \A a : Neighbor(E, direction, l, a) = Neighbor(D, direction, l, a)
  <2>1. \A l \in 1 .. k : E[l] = D[l]
    <3>1. k \in Nat /\ L \in Nat /\ k <= L
      BY <1>4
    <3>2. \A l \in 1 .. L : E[l] = D[l]
      BY <1>5
    <3> HIDE DEF D, E, k, L
    <3> QED BY <3>1, <3>2
  <2> QED BY <2>1 DEF Places, Neighbor
<1>7. k > 0 => /\ Passed(t, direction) = d + 1 /\ d \in Nat
               /\ m = Neighbor(D, direction, k, d + 1)
               /\ d + 1 \in Places(D, direction, k)
  <2> SUFFICES ASSUME k > 0 
               PROVE  /\ Passed(t, direction) = d + 1 /\ d \in Nat
                      /\ m = Neighbor(D, direction, k, d + 1)
                      /\ d + 1 \in Places(D, direction, k)
    OBVIOUS
  <2>1. k \in 1 .. L
    BY <1>4
  <2>2. E[k] = D[k] /\ D[k] \in nodes
    <3>1. E[k] = D[k]
      BY <2>1, <1>5
    <3> HIDE DEF D, k
    <3> QED BY <3>1, <2>1, <1>4
  <2>3. N \in Seq(nodes) /\ Len(N) \in Nat
    BY <2>2, NeighborsAreSuccessors
  <2>4. d = Len(N) - p /\ Passed(t, direction) = Len(N) - (p - 1)
    BY <1>1, <1>3, <2>2 DEF Passed
  <2>5. d \in Nat /\ \A b \in 1 .. p : s.pending[b] = Neighbor(D, direction, k, d + b)
    BY <1>2
  <2> HIDE DEF D, E, d, p, N, k, m
  <2>6. d + 1 \in 1 .. Len(N) /\ 1 \in 1 .. p /\ Len(N) - (p - 1) = d + 1
    BY <2>3, <2>4, <2>5, <1>3
  <2>7. m = Neighbor(D, direction, k, d + 1)
    BY <2>5, <2>6, <1>3
  <2>8. d + 1 \in Places(D, direction, k)
    BY <2>3, <2>6 DEF Places, N
  <2> QED BY <2>4, <2>5, <2>6, <2>7, <2>8
<1>8. ASSUME NEW l \in 1 .. k, NEW a \in Places(E, direction, l)
      PROVE  Neighbor(E, direction, l, a) \in t.discovered \/ (l = k /\ a > Passed(t, direction))
  <2>1. a \in Places(D, direction, l) /\ Neighbor(E, direction, l, a) = Neighbor(D, direction, l, a)
    BY <1>6
  <2>2. a \in Nat
    <3>1. l \in 1 .. L
      BY <1>4
    <3>2. sortedNeighborsDirected(D[l], direction) \in Seq(nodes)
      BY <3>1, <1>4, NeighborsAreSuccessors
    <3> QED BY <3>2, <2>1 DEF Places
  <2>3. Neighbor(D, direction, l, a) \in s.discovered \/ (l = k /\ a > d)
    BY <2>1, <1>2
  <2>4. k > 0 /\ d \in Nat
    BY <1>4, <1>7
  <2> HIDE DEF D, E, d, m, k
  <2>5. CASE a = d + 1 /\ l = k
    BY <2>1, <2>4, <2>5, <1>5, <1>7
  <2>6. CASE ~ (a = d + 1 /\ l = k)
    <3>1. CASE l = k /\ a > d
      <4>1. a > d + 1
        BY <3>1, <2>2, <2>4, <2>6
      <4> QED BY <3>1, <4>1, <2>4, <1>7
    <3>2. CASE Neighbor(D, direction, l, a) \in s.discovered
      BY <3>2, <2>1, <1>5
    <3> QED BY <3>1, <3>2, <2>3
  <2> QED BY <2>5, <2>6
<1>9. k > 0 => /\ Passed(t, direction) \in Nat
               /\ \A b \in 1 .. Len(t.pending) :
                    t.pending[b] = Neighbor(E, direction, k, Passed(t, direction) + b)
  <2> SUFFICES ASSUME k > 0
               PROVE  /\ Passed(t, direction) \in Nat
                      /\ \A b \in 1 .. Len(t.pending) :
                           t.pending[b] = Neighbor(E, direction, k, Passed(t, direction) + b)
    OBVIOUS
  <2>1. Passed(t, direction) = d + 1 /\ d \in Nat /\ k \in 1 .. k
    BY <1>4, <1>7
  <2>2. \A b \in 1 .. p : s.pending[b] = Neighbor(D, direction, k, d + b)
    BY <1>2
  <2> HIDE DEF D, E, d, m, k, p
  <2>3. ASSUME NEW b \in 1 .. (p - 1)
        PROVE  t.pending[b] = Neighbor(E, direction, k, d + 1 + b)
    <3>1. b + 1 \in 1 .. p /\ d + (b + 1) = d + 1 + b
      BY <1>3, <2>1
    <3>2. t.pending[b] = Neighbor(D, direction, k, d + 1 + b)
      BY <3>1, <2>2, <1>3
    <3> QED BY <3>2, <2>1, <1>6
  <2>4. 1 .. Len(t.pending) = 1 .. (p - 1) /\ d + 1 \in Nat
    BY <2>1, <1>3
  <2> QED BY <2>1, <2>3, <2>4
<1>10. IsFiniteSet(S) /\ Cardinality(S) \in Nat /\ S \subseteq nodes
  BY StartsKnown, InSet, SettledGraph
<1>11. ASSUME m \notin s.discovered, k = 0 PROVE L + 1 <= Cardinality(S) /\ m \in S
  <2>1. m \in S /\ ToSet(E) \subseteq S
    BY <1>11, <1>2, <1>3, <1>5
  <2>2. Cardinality(ToSet(E)) = L + 1
    BY <1>5, <1>11, DistinctCounted
  <2>3. Cardinality(ToSet(E)) <= Cardinality(S)
    BY <2>1, <1>10, FS_Subset
  <2> QED BY <2>1, <2>2, <2>3
<1>12. ASSUME m \notin s.discovered, k > 0
       PROVE  Cardinality(S) <= L /\ ContinuesFrom(E, direction, Min, L + 1)
  <2> DEFINE O == OpenAt(E, direction, L + 1)
             F == Fresh(D[k], ToSet(D), direction)
  <2>1. Cardinality(S) <= L
    <3>1. S \subseteq ToSet(D) /\ IsFiniteSet(ToSet(D)) /\ Cardinality(ToSet(D)) = L
      BY <1>2, <1>4, <1>12, DistinctCounted
    <3>2. Cardinality(S) <= Cardinality(ToSet(D))
      BY <3>1, FS_Subset
    <3> QED BY <3>1, <3>2
  <2>2. Before(E, L + 1) = ToSet(D)
    <3>1. (L + 1) - 1 = L
      BY <1>4
    <3>2. Before(E, L + 1) = { D[j] : j \in 1 .. L }
      BY <3>1, <1>5 DEF Before
    <3> QED BY <3>2, <1>4 DEF ToSet
  <2>3. O = { j \in 1 .. L : Fresh(D[j], ToSet(D), direction) # {} }
    <3>1. (L + 1) - 1 = L
      BY <1>4
    <3> HIDE DEF D, E, L
    <3> QED BY <3>1, <2>2, <1>5 DEF OpenAt
  <2>4. F = { b \in Places(D, direction, k) : Neighbor(D, direction, k, b) \notin ToSet(D) }
    BY DEF Fresh, Places, Neighbor
  <2>5. d + 1 \in F /\ \A b \in F : d + 1 <= b /\ b \in Nat
    <3>1. d + 1 \in F
      BY <2>4, <1>7, <1>12, <1>2
    <3>2. k \in 1 .. k /\ k \in 1 .. L
      BY <1>4, <1>12
    <3>3. sortedNeighborsDirected(D[k], direction) \in Seq(nodes)
      BY <3>2, <1>4, NeighborsAreSuccessors
    <3>4. \A b \in F : b > d /\ b \in Nat
      <4>1. \A b \in F : b \in Nat
        BY <2>4, <3>3 DEF Places
      <4>2. \A b \in F : b > d
        <5> HIDE DEF D, d, k, F
        <5> QED BY <2>4, <1>2, <3>2
      <4> QED BY <4>1, <4>2
    <3>5. d \in Nat
      BY <1>7, <1>12
    <3> HIDE DEF F, d
    <3> QED BY <3>1, <3>4, <3>5
  <2>6. k \in O /\ \A j \in O : k <= j /\ j \in Nat
    <3>1. k \in O
      <4>1. k \in 1 .. L
        BY <1>4, <1>12
      <4> QED BY <4>1, <2>3, <2>5
    <3>2. \A j \in O : j \in 1 .. L /\ j \in Nat
      BY <2>3, <1>4
    <3>3. ASSUME NEW j \in O, j < k PROVE FALSE
      <4>1. PICK b : b \in Fresh(D[j], ToSet(D), direction)
        BY <2>3
      <4>2. b \in Places(D, direction, j) /\ Neighbor(D, direction, j, b) \notin ToSet(D)
        BY <4>1 DEF Fresh, Places, Neighbor
      <4>3. j \in 1 .. k /\ j # k
        BY <3>2, <3>3, <1>4
      <4> HIDE DEF D, d, k, O
      <4> QED BY <4>2, <4>3, <1>2
    <3> HIDE DEF O, k
    <3> QED BY <3>1, <3>2, <3>3, <1>4
  <2> HIDE DEF O, F, D, E, d, k, L, m
  <2>7. Min(O) = k
    <3>1. O \subseteq Nat /\ O # {}
      BY <2>6
    <3>2. Min(O) \in O /\ \A j \in O : Min(O) <= j
      BY <3>1, LeastOf
    <3> QED BY <3>2, <2>6
  <2>8. Min(F) = d + 1
    <3>1. F \subseteq Nat /\ F # {}
      BY <2>5
    <3>2. Min(F) \in F /\ \A j \in F : Min(F) <= j
      BY <3>1, LeastOf
    <3> QED BY <3>2, <2>5
  <2>9. k \in 1 .. L
    BY <1>4, <1>12
  <2>10. FirstFresh(E, direction, k, L + 1)
    <3>1. E[k] = D[k] /\ E[L + 1] = m /\ m = Neighbor(D, direction, k, d + 1)
      BY <1>5, <1>7, <1>12, <2>9
    <3> QED BY <3>1, <2>2, <2>8 DEF FirstFresh, F, Neighbor
  <2> QED BY <2>1, <2>7, <2>10, ContinuesUnfolds DEF O
<1>13. ASSUME NEW i \in DOMAIN E
       PROVE  IF i <= Cardinality(S) THEN E[i] \in S ELSE ContinuesFrom(E, direction, Min, i)
  <2> HIDE DEF D, E, k, m, S, L
  <2>1. CASE i \in 1 .. L
    <3>1. IF i <= Cardinality(S) THEN D[i] \in S ELSE ContinuesFrom(D, direction, Min, i)
      BY <2>1, <1>2, <1>4
    <3>2. ContinuesFrom(D, direction, Min, i) => ContinuesFrom(E, direction, Min, i)
      <4>1. CASE m \in s.discovered
        BY <4>1, <1>4
      <4>2. CASE m \notin s.discovered
        <5>1. D \in Seq(nodes) /\ m \in nodes /\ E = Append(D, m) /\ i \in 1 .. Len(D)
          BY <4>2, <2>1, <1>3, <1>4 DEF L
        <5> QED BY <5>1, OrderOfPrefix
      <4> QED BY <4>1, <4>2
    <3> QED BY <3>1, <3>2, <2>1, <1>5
  <2>2. CASE i \notin 1 .. L
    <3>1. m \notin s.discovered /\ i = L + 1 /\ E[i] = m
      <4>1. i \in 1 .. Len(E) /\ L \in Nat
        BY <1>4, <1>5
      <4>2. m \notin s.discovered
        BY <4>1, <2>2, <1>5
      <4> QED BY <4>1, <4>2, <2>2, <1>5
    <3>2. CASE k = 0
      BY <3>1, <3>2, <1>11
    <3>3. CASE k > 0
      BY <3>1, <3>3, <1>12, <1>10, <1>4
    <3> QED BY <3>2, <3>3, <1>4
  <2> QED BY <2>1, <2>2
<1>14. /\ t.discovered \subseteq R /\ ToSet(t.pending) \subseteq R
       /\ S \subseteq t.discovered \cup ToSet(t.pending)
       /\ k = 0 => t.discovered \subseteq S /\ ToSet(t.pending) \subseteq S
       /\ k > 0 => S \subseteq t.discovered
  <2> HIDE DEF R, S, m, k, D, E
  <2> QED BY <1>2, <1>3, <1>5
<1>15. Len(t.yielded) = k
  BY <1>1
<1> HIDE DEF R, S, m, k, D, E
<1> QED BY <1>5, <1>8, <1>9, <1>13, <1>14, <1>15 DEF BFSInv, E, S, R

LEMMA BFSYield ==
  ASSUME Settled, NEW direction \in Direction, NEW start \in Seq(nodes),
         NEW s \in BFSState, BFSInv(s, start, direction), s.pending = << >>, s.queue # << >>,
         NEW t \in BFSState, t.pending = sortedNeighborsDirected(Head(s.queue), direction),
         t.yielded = Append(s.yielded, Head(s.queue)), t.queue = Tail(s.queue),
         t.discovered = s.discovered
  PROVE  BFSInv(t, start, direction)
<1> DEFINE D == Found(s)
           S == ToSet(StartNodes(start))
           R == ReachedFrom(start, direction)
           k == Len(s.yielded)
           x == Head(s.queue)
           N == sortedNeighborsDirected(x, direction)
<1>1. /\ s.queue \in Seq(nodes) /\ s.yielded \in Seq(nodes) /\ Len(s.pending) = 0 /\ ToSet(s.pending) = {}
  BY DEF BFSState, ToSet
<1>2. /\ Distinct(D) /\ ToSet(D) = s.discovered
      /\ s.discovered \subseteq R
      /\ S \subseteq s.discovered
      /\ \A i \in DOMAIN D :
           IF i <= Cardinality(S) THEN D[i] \in S ELSE ContinuesFrom(D, direction, Min, i)
      /\ \A l \in 1 .. k : \A a \in Places(D, direction, l) :
           Neighbor(D, direction, l, a) \in s.discovered \/ (l = k /\ a > Passed(s, direction))
  BY <1>1 DEF BFSInv
<1>3. Found(t) = D /\ D \in Seq(nodes) /\ x \in nodes /\ D[k + 1] = x /\ Len(D) \in Nat /\ k \in Nat
      /\ k + 1 <= Len(D)
  <2> DEFINE y == s.yielded
             q == s.queue
  <2>1. y \in Seq(nodes) /\ q \in Seq(nodes) /\ q # << >>
    BY <1>1
  <2>2. Found(t) = Append(y, Head(q)) \o Tail(q) /\ D = y \o q /\ x = Head(q) /\ k = Len(y)
    BY DEF Found
  <2> HIDE DEF y, q, D, x, k
  <2>3. Found(t) = D /\ D \in Seq(nodes) /\ D[k + 1] = x /\ Len(D) = k + Len(q)
    BY <2>1, <2>2, FoundKept
  <2>4. x \in nodes /\ Len(q) \in Nat /\ Len(q) > 0 /\ k \in Nat
    BY <2>1, <2>2, TailFacts
  <2> QED BY <2>3, <2>4
<1>4. N \in Seq(nodes) /\ ToSet(N) = Successors(x, direction)
  BY <1>3, NeighborsAreSuccessors
<1>5. ToSet(t.pending) \subseteq R
  <2>1. x \in R
    <3>1. k + 1 \in 1 .. Len(D)
      BY <1>3
    <3>2. x \in ToSet(D)
      <4> HIDE DEF D, x, k
      <4> QED BY <3>1, <1>3, InSet
    <3> QED BY <3>2, <1>2
  <2>2. Closed(R, direction)
    BY ReachedStarts
  <2> QED BY <2>1, <2>2, <1>4 DEF Closed
<1>6. Len(t.yielded) = k + 1
  BY <1>1, <1>3
<1>7. Passed(t, direction) = 0
  <2>1. Found(t)[Len(t.yielded)] = x /\ t.pending = N
    BY <1>3, <1>6
  <2>2. Len(N) \in Nat
    BY <1>4
  <2> QED BY <2>1, <2>2 DEF Passed
<1>8. ASSUME NEW l \in 1 .. (k + 1), NEW a \in Places(D, direction, l)
      PROVE  Neighbor(D, direction, l, a) \in s.discovered \/ (l = k + 1 /\ a > 0)
  <2>0. D[l] \in nodes
    <3>1. l \in 1 .. Len(D)
      BY <1>3
    <3> HIDE DEF D
    <3> QED BY <3>1, <1>3, InSet
  <2>1. a \in 1 .. Len(sortedNeighborsDirected(D[l], direction))
    <3>1. sortedNeighborsDirected(D[l], direction) \in Seq(nodes)
      BY <2>0, NeighborsAreSuccessors
    <3> QED BY <3>1 DEF Places
  <2>2. CASE l = k + 1
    BY <2>1, <2>2
  <2>3. CASE l # k + 1
    <3>1. l \in 1 .. k
      BY <1>3, <2>3
    <3>2. l = k => Passed(s, direction) = Len(sortedNeighborsDirected(D[l], direction))
      <4>1. sortedNeighborsDirected(D[l], direction) \in Seq(nodes)
        BY <2>0, NeighborsAreSuccessors
      <4> QED BY <4>1, <1>1 DEF Passed
    <3>3. ~ (l = k /\ a > Passed(s, direction))
      BY <2>1, <3>2
    <3> QED BY <3>1, <3>3, <1>2
  <2> QED BY <2>2, <2>3
<1>9. \A b \in 1 .. Len(t.pending) : t.pending[b] = Neighbor(D, direction, k + 1, 0 + b)
  <2>1. t.pending = N
    OBVIOUS
  <2>2. Neighbor(D, direction, k + 1, 0) = Neighbor(D, direction, k + 1, 0)
        /\ \A b \in 1 .. Len(N) : 0 + b = b
    BY <1>4
  <2> QED BY <2>1, <2>2, <1>3 DEF Neighbor
<1> HIDE DEF D, S, R, k, x, N
<1> QED BY <1>2, <1>3, <1>5, <1>6, <1>7, <1>8, <1>9 DEF BFSInv, S, R

LEMMA BFSEnds ==
  ASSUME Settled, NEW direction \in Direction, NEW start \in Seq(nodes)
  PROVE  \E e \in BFSState : /\ BFSInv(e, start, direction) /\ e.pending = << >> /\ e.queue = << >>
                             /\ e.yielded = BFS(start, direction)
<1> DEFINE step  == BFSStep(direction)
           I     == { s \in BFSState : BFSInv(s, start, direction) }
           Done  == { s \in I : s.pending = << >> /\ s.queue = << >> }
           outer == [s \in I |-> Cardinality(nodes \ ToSet(s.yielded))]
           inner == [s \in I |-> 2 * Len(s.pending) + Len(s.queue)]
           s0    == [queue |-> << >>, pending |-> StartNodes(start), discovered |-> {}, yielded |-> << >>]
<1>1. step \in [BFSState -> BFSState]
  <2>1. \A s \in BFSState : step[s] \in BFSState
    BY BFSCases
  <2>2. step = [s \in BFSState |-> step[s]]
    BY DEF BFSStep
  <2> HIDE DEF step
  <2> QED BY <2>1, <2>2
<1>2. ASSUME NEW s \in BFSState
      PROVE  /\ s.queue \in Seq(nodes) /\ s.pending \in Seq(nodes) /\ s.yielded \in Seq(nodes)
             /\ Len(s.queue) \in Nat /\ Len(s.pending) \in Nat
             /\ 2 * Len(s.pending) + Len(s.queue) \in Nat
             /\ ToSet(s.yielded) \in SUBSET nodes
  <2>1. s.queue \in Seq(nodes) /\ s.pending \in Seq(nodes) /\ s.yielded \in Seq(nodes)
    BY DEF BFSState
  <2>2. Len(s.queue) \in Nat /\ Len(s.pending) \in Nat
    BY <2>1
  <2>3. 2 * Len(s.pending) + Len(s.queue) \in Nat
    BY <2>2, Measure
  <2> QED BY <2>1, <2>2, <2>3, InSet
<1>3. outer \in [I -> Nat] /\ inner \in [I -> Nat]
  <2>1. \A s \in I : Cardinality(nodes \ ToSet(s.yielded)) \in Nat
    BY SettledGraph
  <2>2. \A s \in I : 2 * Len(s.pending) + Len(s.queue) \in Nat
    BY <1>2
  <2> QED BY <2>1, <2>2
<1>4. s0 \in I
  <2>1. StartNodes(start) \in Seq(nodes)
    BY StartsKnown
  <2>2. s0 \in BFSState
    BY <2>1 DEF BFSState
  <2>3. /\ s0.yielded = << >> /\ s0.queue = << >> /\ s0.pending = StartNodes(start)
        /\ s0.discovered = {} /\ Len(s0.yielded) = 0
        /\ Found(s0) = << >> /\ ToSet(Found(s0)) = {} /\ DOMAIN Found(s0) = {}
    BY DEF ToSet, Found
  <2> HIDE DEF s0
  <2>4. BFSInv(s0, start, direction)
    BY <2>3, ReachedStarts DEF BFSInv, Distinct
  <2> QED BY <2>2, <2>4
<1>5. ASSUME NEW s \in I \ Done
      PROVE  /\ step[s] \in I
             /\ \/ outer[step[s]] < outer[s]
                \/ outer[step[s]] = outer[s] /\ inner[step[s]] < inner[s]
  <2> DEFINE t == step[s]
             m == Head(s.pending)
             x == Head(s.queue)
  <2>0. s \in BFSState /\ BFSInv(s, start, direction) /\ ~ (s.pending = << >> /\ s.queue = << >>)
    BY <1>5
  <2>1. /\ t \in BFSState
        /\ s.pending # << >> /\ m \in s.discovered =>
             /\ t.pending = Tail(s.pending) /\ t.yielded = s.yielded
             /\ t.queue = s.queue /\ t.discovered = s.discovered
        /\ s.pending # << >> /\ m \notin s.discovered =>
             /\ t.pending = Tail(s.pending) /\ t.yielded = s.yielded
             /\ t.queue = Append(s.queue, m) /\ t.discovered = s.discovered \cup {m}
        /\ s.pending = << >> /\ s.queue # << >> =>
             /\ t.pending = sortedNeighborsDirected(x, direction)
             /\ t.yielded = Append(s.yielded, x) /\ t.queue = Tail(s.queue)
             /\ t.discovered = s.discovered
    BY <2>0, BFSCases
  <2> HIDE DEF t, x, m, step
  <2>2. /\ s.queue \in Seq(nodes) /\ s.pending \in Seq(nodes) /\ s.yielded \in Seq(nodes)
        /\ Len(s.queue) \in Nat /\ Len(s.pending) \in Nat
        /\ ToSet(s.yielded) \in SUBSET nodes
        /\ Len(t.queue) \in Nat /\ Len(t.pending) \in Nat
    BY <2>0, <2>1, <1>2
  <2>3. BFSInv(t, start, direction) =>
          /\ t \in I /\ outer[t] = Cardinality(nodes \ ToSet(t.yielded))
          /\ inner[t] = 2 * Len(t.pending) + Len(t.queue)
    BY <2>1
  <2>4. outer[s] = Cardinality(nodes \ ToSet(s.yielded)) /\ inner[s] = 2 * Len(s.pending) + Len(s.queue)
    BY <1>5
  <2> SUFFICES t \in I /\ (outer[t] < outer[s] \/ (outer[t] = outer[s] /\ inner[t] < inner[s]))
    BY DEF t
  <2> HIDE DEF outer, inner, I
  <2>5. CASE s.pending # << >>
    <3>1. BFSInv(t, start, direction)
      BY <2>0, <2>1, <2>5, BFSDiscover DEF m
    <3>2. Len(t.pending) = Len(s.pending) - 1
      BY <2>1, <2>5, <2>2, TailFacts
    <3>3. m \in nodes
      BY <2>5, <2>2, TailFacts DEF m
    <3>4. Len(Append(s.queue, m)) = Len(s.queue) + 1
      BY <3>3, <2>2, AppendFacts
    <3>5. Len(t.queue) = Len(s.queue) + 1 \/ Len(t.queue) = Len(s.queue)
      BY <3>4, <2>1, <2>5
    <3>6. 2 * Len(t.pending) + Len(t.queue) < 2 * Len(s.pending) + Len(s.queue)
      BY <3>2, <3>5, <2>2, Measure
    <3> QED BY <3>1, <3>6, <2>1, <2>3, <2>4, <2>5
  <2>6. CASE s.pending = << >> /\ s.queue # << >>
    <3>1. BFSInv(t, start, direction)
      BY <2>0, <2>1, <2>6, BFSYield DEF x
    <3>2. x \in nodes
      BY <2>6, <2>2, TailFacts DEF x
    <3>3. x \notin ToSet(s.yielded)
      <4> DEFINE y == s.yielded
                 q == s.queue
                 D == Found(s)
      <4>1. y \in Seq(nodes) /\ q \in Seq(nodes) /\ q # << >> /\ D = y \o q /\ x = Head(q) /\ Distinct(D)
        BY <2>2, <2>6, <2>0 DEF Found, BFSInv, x
      <4>2. Len(q) \in Nat /\ Len(q) > 0
        BY <4>1, TailFacts
      <4> HIDE DEF y, q, D
      <4>3. /\ D \in Seq(nodes) /\ Len(D) = Len(y) + Len(q) /\ D[Len(y) + 1] = x
            /\ \A i \in 1 .. Len(y) : D[i] = y[i]
        BY <4>1, FoundKept
      <4>4. DOMAIN D = 1 .. Len(D) /\ Len(y) \in Nat
        BY <4>1, <4>3, InSet
      <4>5. \A i \in 1 .. Len(y) : y[i] # x
        <5> SUFFICES ASSUME NEW i \in 1 .. Len(y), y[i] = x PROVE FALSE
          OBVIOUS
        <5>1. i \in 1 .. Len(D) /\ Len(y) + 1 \in 1 .. Len(D) /\ i # Len(y) + 1
          BY <4>2, <4>3, <4>4
        <5>2. D[i] = D[Len(y) + 1]
          BY <4>3
        <5> QED BY <5>1, <5>2, <4>1, <4>4 DEF Distinct
      <4>6. x \notin ToSet(y)
        BY <4>1, <4>5, InSet
      <4> QED BY <4>6 DEF y
    <3>4. ToSet(t.yielded) = ToSet(s.yielded) \cup {x}
      <4>1. t.yielded = Append(s.yielded, x)
        BY <2>1, <2>6
      <4> QED BY <4>1, <3>2, <2>2, AppendFacts
    <3>5. Cardinality(nodes \ ToSet(t.yielded)) < Cardinality(nodes \ ToSet(s.yielded))
      BY <3>2, <3>3, <3>4, <2>2, FewerLeft
    <3> QED BY <3>1, <3>5, <2>3, <2>4
  <2> QED BY <2>0, <2>5, <2>6
<1>6. \A s \in Done : step[s] = s
  BY BFSCases
<1> DEFINE e == Repeat(step, s0)
<1>7. e \in Done
  <2>1. ComesToRest(BFSState, step, I, Done, outer, inner)
    <3>1. I \in SUBSET BFSState /\ Done \in SUBSET I
      OBVIOUS
    <3> HIDE DEF step, outer, inner, I, s0, Done
    <3> QED BY <3>1, <1>1, <1>3, <1>5, <1>6 DEF ComesToRest
  <2> HIDE DEF step, outer, inner, I, s0, Done
  <2> QED BY <2>1, <1>4, RepeatFinishes
<1>8. e.yielded = BFS(start, direction)
  BY DEF BFS
<1> HIDE DEF e, step
<1> QED BY <1>7, <1>8

LEMMA BreadthFirstSearch ==
  ASSUME Settled, NEW direction \in Direction, NEW start \in Seq(nodes)
  PROVE  BreadthFirst(start, direction)
<1>1. PICK e \in BFSState : /\ BFSInv(e, start, direction) /\ e.pending = << >> /\ e.queue = << >>
                            /\ e.yielded = BFS(start, direction)
  BY BFSEnds
<1> DEFINE Y == BFS(start, direction)
           S == ToSet(StartNodes(start))
<1>2. Y \in Seq(nodes) /\ Len(Y) \in Nat /\ DOMAIN Y = 1 .. Len(Y) /\ Found(e) = Y
  <2>1. Y \in Seq(nodes)
    BY <1>1 DEF BFSState
  <2>2. Found(e) = Y \o << >>
    BY <1>1 DEF Found
  <2> HIDE DEF Y
  <2> QED BY <2>1, <2>2
<1>3. /\ Distinct(Y) /\ ToSet(Y) = e.discovered /\ e.discovered \subseteq ReachedFrom(start, direction)
      /\ S \subseteq e.discovered \cup ToSet(e.pending)
      /\ \A i \in DOMAIN Y :
           IF i <= Cardinality(S) THEN Y[i] \in S ELSE ContinuesFrom(Y, direction, Min, i)
      /\ \A l \in 1 .. Len(Y) : \A a \in Places(Y, direction, l) :
           Neighbor(Y, direction, l, a) \in e.discovered \/ (l = Len(Y) /\ a > Passed(e, direction))
  <2> HIDE DEF Y
  <2> QED BY <1>1, <1>2 DEF BFSInv, Y
<1>4. ToSet(e.pending) = {} /\ Len(e.pending) = 0
  BY <1>1 DEF ToSet
<1> HIDE DEF Y
<1>5. ASSUME NEW k \in 1 .. Len(Y), NEW m \in Successors(Y[k], direction) PROVE m \in ToSet(Y)
  <2>1. /\ sortedNeighborsDirected(Y[k], direction) \in Seq(nodes)
        /\ ToSet(sortedNeighborsDirected(Y[k], direction)) = Successors(Y[k], direction)
    BY <1>2, NeighborsAreSuccessors
  <2>2. PICK a \in Places(Y, direction, k) : Neighbor(Y, direction, k, a) = m
    BY <2>1 DEF ToSet, Places, Neighbor
  <2>3. a \in 1 .. Len(sortedNeighborsDirected(Y[k], direction))
    BY <2>1, <2>2 DEF Places
  <2>4. k = Len(Y) => Passed(e, direction) = Len(sortedNeighborsDirected(Y[k], direction))
    BY <1>1, <1>2, <1>4, <2>1 DEF Passed, Y
  <2>5. ~ (k = Len(Y) /\ a > Passed(e, direction))
    BY <2>3, <2>4
  <2> QED BY <2>2, <2>5, <1>3
<1>6. YieldsOnce(Y, ReachedFrom(start, direction))
  BY <1>2, <1>3, <1>4, <1>5, YieldsReached
<1> QED BY <1>3, <1>6 DEF BreadthFirst, Y

-----------------------------------------------------------------------------
(***************************************************************************)
(* Post-order.  The discovered nodes are the yielded ones and those that   *)
(* wait on the stack for their children, which lead to everything above    *)
(* them.  A successor that was discovered but not yielded before a node is *)
(* below it on the stack, and so leads back to it.                         *)
(***************************************************************************)
Waiting(s) == { j \in 1 .. Len(s.stack) : s.stack[j].expanded }

NodeAt(s, j) == s.stack[j].node

\* Discovered, on the stack above place j, or still to be pushed.
InHand(s, j, n) ==
  \/ n \in s.discovered
  \/ \E i \in 1 .. (j - 1) : NodeAt(s, i) = n
  \/ n \in ToSet(s.pending)

PostOrderInv(s, start, direction) ==
  LET Y == s.yielded
      W == Waiting(s)
      R == ReachedFrom(start, direction)
      n == Len(s.stack)
  IN  /\ Distinct(Y) /\ ToSet(Y) \subseteq s.discovered /\ s.discovered \subseteq R
      /\ ToSet(s.pending) \subseteq R /\ \A i \in 1 .. n : NodeAt(s, i) \in R
      /\ \A j \in W : NodeAt(s, j) \in s.discovered /\ NodeAt(s, j) \notin ToSet(Y)
      /\ \A m \in s.discovered : m \in ToSet(Y) \/ \E j \in W : NodeAt(s, j) = m
      /\ \A i, j \in W : NodeAt(s, i) = NodeAt(s, j) => i = j
      /\ \A j \in W : /\ ToSet(s.pending) \subseteq Reached({NodeAt(s, j)}, direction)
                      /\ \A i \in 1 .. (j - 1) : NodeAt(s, i) \in Reached({NodeAt(s, j)}, direction)
                      /\ \A m \in Successors(NodeAt(s, j), direction) : InHand(s, j, m)
      /\ \A m \in ToSet(StartNodes(start)) : InHand(s, n + 1, m)
      /\ \A i \in DOMAIN Y : \A m \in Successors(Y[i], direction) :
           /\ m \in s.discovered
           /\ (\E k \in 1 .. (i - 1) : Y[k] = m) \/ Y[i] \in Reached({m}, direction)

LEMMA PostOrderCases ==
  ASSUME Settled, NEW direction \in Direction, NEW s \in PostOrderState
  PROVE  LET t == PostOrderStep(direction)[s]
             m == Last(s.pending)
             x == Head(s.stack)
         IN  /\ t \in PostOrderState
             /\ s.pending # << >> =>
                  /\ t.pending = Front(s.pending) /\ t.yielded = s.yielded
                  /\ t.discovered = s.discovered
                  /\ m \in s.discovered => t.stack = s.stack
                  /\ m \notin s.discovered => t.stack = <<[node |-> m, expanded |-> FALSE]>> \o s.stack
             /\ s.pending = << >> /\ s.stack = << >> => t = s
             /\ s.pending = << >> /\ s.stack # << >> /\ x.node \notin s.discovered =>
                  /\ t.pending = sortedNeighborsDirected(x.node, direction) /\ t.yielded = s.yielded
                  /\ t.discovered = s.discovered \cup {x.node}
                  /\ t.stack = <<[node |-> x.node, expanded |-> TRUE]>> \o Tail(s.stack)
             /\ s.pending = << >> /\ s.stack # << >> /\ x.node \in s.discovered =>
                  /\ t.pending = s.pending /\ t.discovered = s.discovered /\ t.stack = Tail(s.stack)
                  /\ x.expanded => t.yielded = Append(s.yielded, x.node)
                  /\ ~ x.expanded => t.yielded = s.yielded
<1> DEFINE t == PostOrderStep(direction)[s]
           m == Last(s.pending)
           x == Head(s.stack)
<1>1. /\ s.stack \in Seq(Entry) /\ s.pending \in Seq(nodes) /\ s.yielded \in Seq(nodes)
      /\ s.discovered \in SUBSET nodes
  BY DEF PostOrderState
<1>2. s = [stack |-> s.stack, pending |-> s.pending, discovered |-> s.discovered, yielded |-> s.yielded]
  BY DEF PostOrderState
<1>3. t = IF s.pending # << >> THEN
            [s EXCEPT !.pending = Front(@),
                      !.stack = IF m \in s.discovered THEN @
                                ELSE <<[node |-> m, expanded |-> FALSE]>> \o @]
          ELSE IF s.stack = << >> THEN s
          ELSE IF x.node \notin s.discovered THEN Visit(s, x.node, direction)
          ELSE [s EXCEPT !.stack = Tail(@),
                         !.yielded = IF x.expanded THEN Append(@, x.node) ELSE @]
  BY DEF PostOrderStep
<1> HIDE DEF t
<1>4. CASE s.pending # << >>
  <2> DEFINE st == IF m \in s.discovered THEN s.stack ELSE <<[node |-> m, expanded |-> FALSE]>> \o s.stack
  <2>1. Front(s.pending) \in Seq(nodes) /\ m \in nodes
    BY <1>1, <1>4, FrontFacts
  <2>2. t = [s EXCEPT !.pending = Front(@),
                      !.stack = IF m \in s.discovered THEN @
                                ELSE <<[node |-> m, expanded |-> FALSE]>> \o @]
    BY <1>3, <1>4
  <2>3. t = [stack |-> st, pending |-> Front(s.pending), discovered |-> s.discovered, yielded |-> s.yielded]
    BY <1>2, <2>2
  <2>4. st \in Seq(Entry)
    <3>1. [node |-> m, expanded |-> FALSE] \in Entry
      BY <2>1 DEF Entry
    <3> HIDE DEF m
    <3> QED BY <3>1, <1>1, PushFacts
  <2> HIDE DEF st
  <2>5. /\ t.pending = Front(s.pending) /\ t.yielded = s.yielded /\ t.discovered = s.discovered
        /\ t.stack = st
    BY <2>3
  <2>6. t \in PostOrderState
    BY <2>1, <2>3, <2>4, <1>1 DEF PostOrderState
  <2> QED BY <2>5, <2>6, <1>4 DEF t, st
<1>5. CASE s.pending = << >> /\ s.stack = << >>
  BY <1>3, <1>5 DEF t
<1>6. CASE s.pending = << >> /\ s.stack # << >> /\ x.node \notin s.discovered
  <2>1. Tail(s.stack) \in Seq(Entry) /\ x \in Entry
    BY <1>1, <1>6, TailFacts
  <2>2. x.node \in nodes
    BY <2>1 DEF Entry
  <2>3. sortedNeighborsDirected(x.node, direction) \in Seq(nodes)
    BY <2>2, NeighborsAreSuccessors
  <2>4. t = [stack |-> <<[node |-> x.node, expanded |-> TRUE]>> \o Tail(s.stack),
             pending |-> sortedNeighborsDirected(x.node, direction),
             discovered |-> s.discovered \cup {x.node}, yielded |-> s.yielded]
    BY <1>3, <1>6 DEF Visit, DiscoveredAtVisit
  <2>5. <<[node |-> x.node, expanded |-> TRUE]>> \o Tail(s.stack) \in Seq(Entry)
    <3>1. [node |-> x.node, expanded |-> TRUE] \in Entry
      BY <2>2 DEF Entry
    <3> QED BY <3>1, <2>1, PushFacts
  <2> HIDE DEF x
  <2>6. /\ t.pending = sortedNeighborsDirected(x.node, direction) /\ t.yielded = s.yielded
        /\ t.discovered = s.discovered \cup {x.node}
        /\ t.stack = <<[node |-> x.node, expanded |-> TRUE]>> \o Tail(s.stack)
    BY <2>4
  <2>7. s.discovered \cup {x.node} \in SUBSET nodes
    BY <1>1, <2>2
  <2>8. t \in PostOrderState
    BY <2>3, <2>4, <2>5, <2>7, <1>1 DEF PostOrderState
  <2> QED BY <2>6, <2>8, <1>6 DEF t, x
<1>7. CASE s.pending = << >> /\ s.stack # << >> /\ x.node \in s.discovered
  <2> DEFINE y == IF x.expanded THEN Append(s.yielded, x.node) ELSE s.yielded
  <2>1. Tail(s.stack) \in Seq(Entry) /\ x \in Entry
    BY <1>1, <1>7, TailFacts
  <2>2. x.node \in nodes
    BY <2>1 DEF Entry
  <2>3. t = [s EXCEPT !.stack = Tail(@),
                      !.yielded = IF x.expanded THEN Append(@, x.node) ELSE @]
    BY <1>3, <1>7
  <2>4. t = [stack |-> Tail(s.stack), pending |-> s.pending, discovered |-> s.discovered, yielded |-> y]
    BY <1>2, <2>3
  <2>5. y \in Seq(nodes)
    BY <1>1, <2>2
  <2> HIDE DEF y, x
  <2>6. /\ t.pending = s.pending /\ t.discovered = s.discovered /\ t.stack = Tail(s.stack)
        /\ t.yielded = y
    BY <2>4
  <2>7. t \in PostOrderState
    BY <2>1, <2>4, <2>5, <1>1 DEF PostOrderState
  <2> QED BY <2>6, <2>7, <1>7 DEF t, x, y
<1> QED BY <1>4, <1>5, <1>6, <1>7

\* A pending node is dropped, or goes on the stack.
LEMMA PostOrderPush ==
  ASSUME Settled, NEW direction \in Direction, NEW start \in Seq(nodes),
         NEW s \in PostOrderState, PostOrderInv(s, start, direction), s.pending # << >>,
         NEW t \in PostOrderState, t.pending = Front(s.pending), t.yielded = s.yielded,
         t.discovered = s.discovered,
         Last(s.pending) \in s.discovered => t.stack = s.stack,
         Last(s.pending) \notin s.discovered =>
           t.stack = <<[node |-> Last(s.pending), expanded |-> FALSE]>> \o s.stack
  PROVE  PostOrderInv(t, start, direction)
<1> DEFINE Y == s.yielded
           W == Waiting(s)
           R == ReachedFrom(start, direction)
           n == Len(s.stack)
           d == s.discovered
           m == Last(s.pending)
           S == ToSet(StartNodes(start))
<1>1. /\ s.stack \in Seq(Entry) /\ s.pending \in Seq(nodes) /\ Y \in Seq(nodes) /\ d \in SUBSET nodes
      /\ t.yielded = Y /\ t.discovered = d /\ n \in Nat
  BY DEF PostOrderState
<1>2. /\ Distinct(Y) /\ ToSet(Y) \subseteq d /\ d \subseteq R
      /\ ToSet(s.pending) \subseteq R /\ \A i \in 1 .. n : NodeAt(s, i) \in R
      /\ \A j \in W : NodeAt(s, j) \in d /\ NodeAt(s, j) \notin ToSet(Y)
      /\ \A y \in d : y \in ToSet(Y) \/ \E j \in W : NodeAt(s, j) = y
      /\ \A i, j \in W : NodeAt(s, i) = NodeAt(s, j) => i = j
      /\ \A j \in W : /\ ToSet(s.pending) \subseteq Reached({NodeAt(s, j)}, direction)
                      /\ \A i \in 1 .. (j - 1) : NodeAt(s, i) \in Reached({NodeAt(s, j)}, direction)
                      /\ \A y \in Successors(NodeAt(s, j), direction) : InHand(s, j, y)
      /\ \A y \in S : InHand(s, n + 1, y)
      /\ \A i \in DOMAIN Y : \A y \in Successors(Y[i], direction) :
           /\ y \in d
           /\ (\E k \in 1 .. (i - 1) : Y[k] = y) \/ Y[i] \in Reached({y}, direction)
  BY DEF PostOrderInv
<1>3. ToSet(s.pending) = ToSet(t.pending) \cup {m} /\ m \in nodes
  BY <1>1, SetOfFront, FrontFacts
<1>4. CASE m \in d
  <2>1. t.stack = s.stack
    BY <1>4
  <2>2. Waiting(t) = W /\ Len(t.stack) = n /\ \A i : NodeAt(t, i) = NodeAt(s, i)
    BY <2>1 DEF Waiting, NodeAt
  <2> HIDE DEF Y, R, n, d, m, S, W
  <2>3. \A j, y : InHand(s, j, y) => InHand(t, j, y)
    BY <2>2, <1>1, <1>3, <1>4 DEF InHand, d
  <2>4. ToSet(t.pending) \subseteq ToSet(s.pending)
    BY <1>3
  <2>5. /\ ToSet(t.pending) \subseteq R
        /\ \A j \in W : /\ ToSet(t.pending) \subseteq Reached({NodeAt(t, j)}, direction)
                        /\ \A i \in 1 .. (j - 1) : NodeAt(t, i) \in Reached({NodeAt(t, j)}, direction)
                        /\ \A y \in Successors(NodeAt(t, j), direction) : InHand(t, j, y)
    BY <2>2, <2>3, <2>4, <1>2
  <2>6. \A y \in S : InHand(t, n + 1, y)
    BY <2>3, <1>2
  <2> QED BY <2>2, <2>5, <2>6, <1>1, <1>2 DEF PostOrderInv, S, R
<1>5. CASE m \notin d
  <2> DEFINE en == [node |-> m, expanded |-> FALSE]
             st == s.stack
  <2>0. t.stack = <<en>> \o st /\ en \in Entry /\ en.node = m /\ ~ en.expanded
    BY <1>3, <1>5 DEF Entry
  <2>1. /\ Len(t.stack) = n + 1 /\ t.stack[1] = en
        /\ \A i \in 1 .. n : t.stack[i + 1] = s.stack[i]
        /\ \A i \in 2 .. (n + 1) : t.stack[i] = s.stack[i - 1]
    <3> HIDE DEF en, st
    <3> QED BY <2>0, <1>1, PushFacts DEF st
  <2>2. /\ NodeAt(t, 1) = m
        /\ \A i \in 1 .. n : NodeAt(t, i + 1) = NodeAt(s, i)
        /\ \A i \in 2 .. (n + 1) : NodeAt(t, i) = NodeAt(s, i - 1)
    <3> HIDE DEF en, m
    <3> QED BY <2>0, <2>1 DEF NodeAt
  <2>3. /\ \A j \in Waiting(t) : j \in 2 .. (n + 1) /\ j - 1 \in W
        /\ \A j \in W : j \in 1 .. n /\ j + 1 \in Waiting(t)
    <3> HIDE DEF en, m
    <3>1. \A j \in Waiting(t) : j \in 2 .. (n + 1) /\ j - 1 \in W
      <4> SUFFICES ASSUME NEW j \in Waiting(t) PROVE j \in 2 .. (n + 1) /\ j - 1 \in W
        OBVIOUS
      <4>1. j \in 1 .. (n + 1) /\ t.stack[j].expanded
        BY <2>1 DEF Waiting
      <4>2. j # 1
        BY <4>1, <2>0, <2>1
      <4>3. j \in 2 .. (n + 1) /\ j - 1 \in 1 .. n
        BY <4>1, <4>2, <1>1
      <4>4. s.stack[j - 1].expanded
        BY <4>1, <4>3, <2>1
      <4> QED BY <4>3, <4>4 DEF Waiting
    <3>2. \A j \in W : j \in 1 .. n /\ j + 1 \in Waiting(t)
      <4> SUFFICES ASSUME NEW j \in W PROVE j \in 1 .. n /\ j + 1 \in Waiting(t)
        OBVIOUS
      <4>1. j \in 1 .. n /\ s.stack[j].expanded
        BY DEF Waiting
      <4>2. j + 1 \in 1 .. (n + 1)
        BY <4>1, <1>1
      <4>3. t.stack[j + 1].expanded
        BY <4>1, <2>1
      <4> QED BY <4>1, <4>2, <4>3, <2>1 DEF Waiting
    <3> QED BY <3>1, <3>2
  <2> HIDE DEF Y, R, n, d, m, S, W, en, st
  <2>4. ASSUME NEW j \in 1 .. (n + 1), NEW y, InHand(s, j, y) PROVE InHand(t, j + 1, y)
    <3>1. CASE y \in d
      BY <3>1, <1>1 DEF InHand
    <3>2. CASE \E i \in 1 .. (j - 1) : NodeAt(s, i) = y
      <4>1. PICK i \in 1 .. (j - 1) : NodeAt(s, i) = y
        BY <3>2
      <4>2. i + 1 \in 1 .. ((j + 1) - 1) /\ i \in 1 .. n
        BY <1>1
      <4> QED BY <4>1, <4>2, <2>2 DEF InHand
    <3>3. CASE y \in ToSet(s.pending)
      <4>1. 1 \in 1 .. ((j + 1) - 1)
        BY <1>1
      <4> QED BY <3>3, <4>1, <2>2, <1>3 DEF InHand
    <3> QED BY <2>4, <3>1, <3>2, <3>3 DEF InHand, d
  <2>5. ASSUME NEW j \in Waiting(t)
        PROVE  /\ NodeAt(t, j) \in d /\ NodeAt(t, j) \notin ToSet(Y)
               /\ ToSet(t.pending) \subseteq Reached({NodeAt(t, j)}, direction)
               /\ \A i \in 1 .. (j - 1) : NodeAt(t, i) \in Reached({NodeAt(t, j)}, direction)
               /\ \A y \in Successors(NodeAt(t, j), direction) : InHand(t, j, y)
    <3>1. j \in 2 .. (n + 1) /\ j - 1 \in W /\ NodeAt(t, j) = NodeAt(s, j - 1) /\ j - 1 \in 1 .. n
      BY <2>2, <2>3
    <3>2. ASSUME NEW i \in 1 .. (j - 1) PROVE NodeAt(t, i) \in Reached({NodeAt(t, j)}, direction)
      <4>1. CASE i = 1
        BY <4>1, <3>1, <2>2, <1>2, <1>3
      <4>2. CASE i # 1
        <5>1. i - 1 \in 1 .. ((j - 1) - 1) /\ i \in 2 .. (n + 1)
          BY <3>1, <4>2, <1>1
        <5> QED BY <5>1, <3>1, <2>2, <1>2
      <4> QED BY <4>1, <4>2
    <3>3. \A y \in Successors(NodeAt(t, j), direction) : InHand(t, j, y)
      <4> SUFFICES ASSUME NEW y \in Successors(NodeAt(t, j), direction) PROVE InHand(t, j, y)
        OBVIOUS
      <4>0. PICK h \in W : h = j - 1
        BY <3>1
      <4>4. y \in Successors(NodeAt(s, h), direction)
        BY <3>1, <4>0
      <4>5. InHand(s, h, y)
        BY <4>4, <1>2
      <4>1. InHand(s, j - 1, y) /\ j - 1 \in 1 .. (n + 1)
        BY <3>1, <1>1, <4>0, <4>5
      <4>2. InHand(t, (j - 1) + 1, y)
        BY <4>1, <2>4
      <4>3. (j - 1) + 1 = j
        BY <3>1, <1>1
      <4> QED BY <4>2, <4>3
    <3> QED BY <3>1, <3>2, <3>3, <1>2, <1>3
  <2>6. \A y \in d : y \in ToSet(Y) \/ \E j \in Waiting(t) : NodeAt(t, j) = y
    <3> SUFFICES ASSUME NEW y \in d, y \notin ToSet(Y) PROVE \E j \in Waiting(t) : NodeAt(t, j) = y
      OBVIOUS
    <3>1. PICK j \in W : NodeAt(s, j) = y
      BY <1>2
    <3> QED BY <3>1, <2>2, <2>3
  <2>7. \A i, j \in Waiting(t) : NodeAt(t, i) = NodeAt(t, j) => i = j
    <3> SUFFICES ASSUME NEW i \in Waiting(t), NEW j \in Waiting(t), NodeAt(t, i) = NodeAt(t, j)
                 PROVE  i = j
      OBVIOUS
    <3>1. i - 1 \in W /\ j - 1 \in W /\ NodeAt(s, i - 1) = NodeAt(s, j - 1)
          /\ i \in 2 .. (n + 1) /\ j \in 2 .. (n + 1)
      BY <2>2, <2>3
    <3>2. i - 1 = j - 1
      BY <3>1, <1>2
    <3> QED BY <3>1, <3>2, <1>1
  <2>8. \A y \in S : InHand(t, Len(t.stack) + 1, y)
    <3>1. n + 1 \in 1 .. (n + 1)
      BY <1>1
    <3> QED BY <3>1, <2>1, <2>4, <1>2
  <2>9. \A i \in 1 .. Len(t.stack) : NodeAt(t, i) \in R
    <3> SUFFICES ASSUME NEW i \in 1 .. (n + 1) PROVE NodeAt(t, i) \in R
      BY <2>1
    <3>1. CASE i = 1
      BY <3>1, <2>2, <1>2, <1>3
    <3>2. CASE i # 1
      <4>1. i \in 2 .. (n + 1) /\ i - 1 \in 1 .. n
        BY <3>2, <1>1
      <4> QED BY <4>1, <2>2, <1>2
    <3> QED BY <3>1, <3>2
  <2>10. ToSet(t.pending) \subseteq R
    BY <1>2, <1>3
  <2> QED BY <2>5, <2>6, <2>7, <2>8, <2>9, <2>10, <1>1, <1>2 DEF PostOrderInv, S, R
<1> QED BY <1>4, <1>5

\* The node on top is discovered, and waits for the neighbors it pushes.
LEMMA PostOrderVisit ==
  ASSUME Settled, NEW direction \in Direction, NEW start \in Seq(nodes),
         NEW s \in PostOrderState, PostOrderInv(s, start, direction), s.pending = << >>,
         s.stack # << >>, Head(s.stack).node \notin s.discovered,
         NEW t \in PostOrderState,
         t.pending = sortedNeighborsDirected(Head(s.stack).node, direction),
         t.yielded = s.yielded, t.discovered = s.discovered \cup {Head(s.stack).node},
         t.stack = <<[node |-> Head(s.stack).node, expanded |-> TRUE]>> \o Tail(s.stack)
  PROVE  PostOrderInv(t, start, direction)
<1> DEFINE Y == s.yielded
           W == Waiting(s)
           R == ReachedFrom(start, direction)
           n == Len(s.stack)
           d == s.discovered
           x == Head(s.stack).node
           S == ToSet(StartNodes(start))
<1>1. /\ s.stack \in Seq(Entry) /\ Y \in Seq(nodes) /\ d \in SUBSET nodes
      /\ t.yielded = Y /\ t.discovered = d \cup {x} /\ n \in Nat /\ n > 0 /\ s.stack[1].node = x
      /\ ToSet(s.pending) = {} /\ x \notin d
  BY DEF PostOrderState, ToSet
<1>2. /\ Distinct(Y) /\ ToSet(Y) \subseteq d /\ d \subseteq R
      /\ \A i \in 1 .. n : NodeAt(s, i) \in R
      /\ \A j \in W : NodeAt(s, j) \in d /\ NodeAt(s, j) \notin ToSet(Y)
      /\ \A y \in d : y \in ToSet(Y) \/ \E j \in W : NodeAt(s, j) = y
      /\ \A i, j \in W : NodeAt(s, i) = NodeAt(s, j) => i = j
      /\ \A j \in W : /\ \A i \in 1 .. (j - 1) : NodeAt(s, i) \in Reached({NodeAt(s, j)}, direction)
                      /\ \A y \in Successors(NodeAt(s, j), direction) : InHand(s, j, y)
      /\ \A y \in S : InHand(s, n + 1, y)
      /\ \A i \in DOMAIN Y : \A y \in Successors(Y[i], direction) :
           /\ y \in d
           /\ (\E k \in 1 .. (i - 1) : Y[k] = y) \/ Y[i] \in Reached({y}, direction)
  BY DEF PostOrderInv
<1> DEFINE en == [node |-> x, expanded |-> TRUE]
           tl == Tail(s.stack)
<1>3. x \in nodes /\ en \in Entry /\ en.node = x /\ en.expanded /\ t.stack = <<en>> \o tl
  <2>1. Head(s.stack) \in Entry
    BY <1>1
  <2>2. x \in nodes
    BY <2>1 DEF Entry
  <2> HIDE DEF x
  <2>3. en \in Entry /\ en.node = x /\ en.expanded
    BY <2>2 DEF Entry
  <2> QED BY <2>2, <2>3 DEF x
<1>4. /\ tl \in Seq(Entry) /\ Len(tl) = n - 1
      /\ \A i \in 2 .. n : tl[i - 1] = s.stack[i]
  BY <1>1, TailFacts
<1>5. /\ Len(t.stack) = n /\ t.stack[1] = en
      /\ \A i \in 2 .. n : t.stack[i] = s.stack[i]
  <2> HIDE DEF en, tl, n
  <2>1. /\ Len(t.stack) = Len(tl) + 1 /\ t.stack[1] = en
        /\ \A i \in 2 .. (Len(tl) + 1) : t.stack[i] = tl[i - 1]
    BY <1>3, <1>4, PushFacts
  <2> QED BY <2>1, <1>1, <1>4
<1> HIDE DEF en, tl, x
<1>6. \A i \in 1 .. n : NodeAt(t, i) = NodeAt(s, i)
  <2> SUFFICES ASSUME NEW i \in 1 .. n PROVE NodeAt(t, i) = NodeAt(s, i)
    OBVIOUS
  <2>1. CASE i = 1
    BY <2>1, <1>1, <1>3, <1>5 DEF NodeAt
  <2>2. CASE i # 1
    <3>1. i \in 2 .. n
      BY <2>2, <1>1
    <3> QED BY <3>1, <1>5 DEF NodeAt
  <2> QED BY <2>1, <2>2
<1>7. 1 \notin W /\ \A j \in W : j \in 2 .. n /\ j \in Nat
  <2>1. 1 \notin W
    BY <1>1, <1>2 DEF NodeAt
  <2>2. \A j \in W : j \in 1 .. n
    BY DEF Waiting
  <2> HIDE DEF W, n
  <2> QED BY <2>1, <2>2, <1>1
<1>8. /\ \A j \in W : j \in Waiting(t)
      /\ \A j \in Waiting(t) : j = 1 \/ j \in W
      /\ 1 \in Waiting(t)
  <2>1. \A j \in 2 .. n : t.stack[j].expanded <=> s.stack[j].expanded
    BY <1>5
  <2>2. \A j \in W : j \in Waiting(t)
    <3>1. \A j \in W : j \in 1 .. n /\ s.stack[j].expanded
      BY DEF Waiting
    <3> HIDE DEF W
    <3> QED BY <3>1, <2>1, <1>5, <1>7 DEF Waiting
  <2>3. \A j \in Waiting(t) : j = 1 \/ j \in W
    <3> SUFFICES ASSUME NEW j \in Waiting(t), j # 1 PROVE j \in W
      OBVIOUS
    <3>1. j \in 1 .. n /\ t.stack[j].expanded
      BY <1>5 DEF Waiting
    <3>2. j \in 2 .. n
      BY <3>1, <1>1
    <3> QED BY <3>1, <3>2, <2>1 DEF Waiting
  <2>4. 1 \in Waiting(t)
    BY <1>1, <1>3, <1>5 DEF Waiting
  <2> QED BY <2>2, <2>3, <2>4
<1> HIDE DEF Y, W, R, n, d, S
<1>9. NodeAt(t, 1) = x /\ NodeAt(s, 1) = x /\ x \in R
  <2>1. NodeAt(t, 1) = x
    BY <1>3, <1>5 DEF NodeAt
  <2>2. NodeAt(s, 1) = x
    BY <1>1 DEF NodeAt
  <2>3. 1 \in 1 .. n
    BY <1>1
  <2> QED BY <2>1, <2>2, <2>3, <1>2
<1>10. ToSet(t.pending) = Successors(x, direction)
  BY <1>3, NeighborsAreSuccessors DEF x
<1>11. ASSUME NEW T \in SUBSET nodes, x \in Reached(T, direction)
       PROVE  ToSet(t.pending) \subseteq Reached(T, direction)
  BY <1>10, <1>11, ReachedIsClosed DEF Closed
<1>12. ASSUME NEW j \in 1 .. (n + 1), NEW y, InHand(s, j, y) PROVE InHand(t, j, y)
  <2>1. CASE y \in d
    BY <2>1, <1>1 DEF InHand
  <2>2. CASE \E i \in 1 .. (j - 1) : NodeAt(s, i) = y
    <3>1. PICK i \in 1 .. (j - 1) : NodeAt(s, i) = y
      BY <2>2
    <3>2. i \in 1 .. n
      BY <1>1
    <3> QED BY <3>1, <3>2, <1>6 DEF InHand
  <2> QED BY <2>1, <2>2, <1>1, <1>12 DEF InHand, d
<1>13. ASSUME NEW j \in Waiting(t)
       PROVE  /\ NodeAt(t, j) \in d \cup {x} /\ NodeAt(t, j) \notin ToSet(Y)
              /\ ToSet(t.pending) \subseteq Reached({NodeAt(t, j)}, direction)
              /\ \A i \in 1 .. (j - 1) : NodeAt(t, i) \in Reached({NodeAt(t, j)}, direction)
              /\ \A y \in Successors(NodeAt(t, j), direction) : InHand(t, j, y)
  <2>1. CASE j = 1
    <3>1. x \in Reached({x}, direction)
      BY <1>3, ReachedIsClosed
    <3>2. ToSet(t.pending) \subseteq Reached({x}, direction)
      BY <1>3, <1>11, <3>1
    <3>3. \A y \in Successors(x, direction) : InHand(t, j, y)
      BY <1>10 DEF InHand
    <3>4. NodeAt(t, j) = x /\ 1 .. (j - 1) = {}
      BY <2>1, <1>9
    <3>5. x \notin ToSet(Y)
      BY <1>1, <1>2
    <3> QED BY <3>2, <3>3, <3>4, <3>5
  <2>2. CASE j # 1
    <3>1. j \in W /\ j \in 2 .. n /\ j \in 1 .. n
      BY <2>2, <1>7, <1>8, <1>1
    <3>2. NodeAt(t, j) = NodeAt(s, j) /\ NodeAt(s, j) \in nodes
      BY <3>1, <1>1, <1>2, <1>6
    <3>3. \A i \in 1 .. (j - 1) : i \in 1 .. n /\ NodeAt(t, i) = NodeAt(s, i)
      BY <3>1, <1>1, <1>6
    <3>4. ToSet(t.pending) \subseteq Reached({NodeAt(s, j)}, direction)
      <4>1. 1 \in 1 .. (j - 1)
        BY <3>1, <1>1
      <4>2. x \in Reached({NodeAt(s, j)}, direction)
        BY <4>1, <3>1, <1>2, <1>9
      <4>3. {NodeAt(s, j)} \in SUBSET nodes
        BY <3>2
      <4> QED BY <4>2, <4>3, <1>11
    <3>5. \A y \in Successors(NodeAt(s, j), direction) : InHand(t, j, y)
      <4>1. j \in 1 .. (n + 1)
        BY <3>1, <1>1
      <4>2. \A y \in Successors(NodeAt(s, j), direction) : InHand(s, j, y)
        BY <3>1, <1>2
      <4> QED BY <4>1, <4>2, <1>12
    <3> QED BY <3>1, <3>2, <3>3, <3>4, <3>5, <1>2
  <2> QED BY <2>1, <2>2
<1>14. \A y \in d \cup {x} : y \in ToSet(Y) \/ \E j \in Waiting(t) : NodeAt(t, j) = y
  <2> SUFFICES ASSUME NEW y \in d \cup {x}, y \notin ToSet(Y)
               PROVE  \E j \in Waiting(t) : NodeAt(t, j) = y
    OBVIOUS
  <2>1. CASE y = x
    BY <2>1, <1>8, <1>9
  <2>2. CASE y # x
    <3>1. PICK j \in W : NodeAt(s, j) = y
      BY <2>2, <1>2
    <3>2. j \in 1 .. n /\ j \in Waiting(t)
      BY <3>1, <1>1, <1>7, <1>8
    <3> QED BY <3>1, <3>2, <1>6
  <2> QED BY <2>1, <2>2
<1>15. \A i, j \in Waiting(t) : NodeAt(t, i) = NodeAt(t, j) => i = j
  <2>1. \A j \in W : NodeAt(t, j) = NodeAt(s, j) /\ NodeAt(t, j) # x
    <3> SUFFICES ASSUME NEW j \in W PROVE NodeAt(t, j) = NodeAt(s, j) /\ NodeAt(t, j) # x
      OBVIOUS
    <3>1. j \in 1 .. n /\ NodeAt(s, j) \in d
      BY <1>1, <1>2, <1>7
    <3> QED BY <3>1, <1>1, <1>6
  <2> QED BY <2>1, <1>2, <1>8, <1>9
<1>16. \A y \in S : InHand(t, n + 1, y)
  <2>1. n + 1 \in 1 .. (n + 1)
    BY <1>1
  <2> QED BY <2>1, <1>2, <1>12
<1>17. \A i \in 1 .. n : NodeAt(t, i) \in R
  BY <1>2, <1>6
<1>18. ToSet(t.pending) \subseteq R
  BY <1>9, <1>10, ReachedStarts DEF Closed, R
<1>19. d \cup {x} \subseteq R /\ ToSet(Y) \subseteq d \cup {x} /\ Len(t.stack) = n
  BY <1>2, <1>5, <1>9
<1> QED BY <1>1, <1>2, <1>13, <1>14, <1>15, <1>16, <1>17, <1>18, <1>19 DEF PostOrderInv, S, R

\* A discovered node comes up: it is yielded if it waited for its children.
LEMMA PostOrderPop ==
  ASSUME Settled, NEW direction \in Direction, NEW start \in Seq(nodes),
         NEW s \in PostOrderState, PostOrderInv(s, start, direction), s.pending = << >>,
         s.stack # << >>, Head(s.stack).node \in s.discovered,
         NEW t \in PostOrderState, t.pending = s.pending,
         t.discovered = s.discovered, t.stack = Tail(s.stack),
         Head(s.stack).expanded => t.yielded = Append(s.yielded, Head(s.stack).node),
         ~ Head(s.stack).expanded => t.yielded = s.yielded
  PROVE  PostOrderInv(t, start, direction)
<1> DEFINE Y == s.yielded
           Z == t.yielded
           W == Waiting(s)
           R == ReachedFrom(start, direction)
           n == Len(s.stack)
           d == s.discovered
           x == Head(s.stack).node
           S == ToSet(StartNodes(start))
           k == Len(Y)
<1>1. /\ s.stack \in Seq(Entry) /\ Y \in Seq(nodes) /\ Z \in Seq(nodes) /\ d \in SUBSET nodes
      /\ t.discovered = d /\ n \in Nat /\ n > 0 /\ Head(s.stack) = s.stack[1]
      /\ s.stack[1].node = x /\ ToSet(s.pending) = {} /\ ToSet(t.pending) = {}
      /\ x \in d /\ x \in nodes
  BY DEF PostOrderState, ToSet
<1>2. /\ Distinct(Y) /\ ToSet(Y) \subseteq d /\ d \subseteq R
      /\ \A i \in 1 .. n : NodeAt(s, i) \in R
      /\ \A j \in W : NodeAt(s, j) \in d /\ NodeAt(s, j) \notin ToSet(Y)
      /\ \A y \in d : y \in ToSet(Y) \/ \E j \in W : NodeAt(s, j) = y
      /\ \A i, j \in W : NodeAt(s, i) = NodeAt(s, j) => i = j
      /\ \A j \in W : /\ \A i \in 1 .. (j - 1) : NodeAt(s, i) \in Reached({NodeAt(s, j)}, direction)
                      /\ \A y \in Successors(NodeAt(s, j), direction) : InHand(s, j, y)
      /\ \A y \in S : InHand(s, n + 1, y)
      /\ \A i \in DOMAIN Y : \A y \in Successors(Y[i], direction) :
           /\ y \in d
           /\ (\E l \in 1 .. (i - 1) : Y[l] = y) \/ Y[i] \in Reached({y}, direction)
  BY DEF PostOrderInv
<1>3. /\ Len(t.stack) = n - 1
      /\ \A i \in 1 .. (n - 1) : t.stack[i] = s.stack[i + 1]
  BY <1>1, TailFacts
<1>4. NodeAt(s, 1) = x /\ (1 \in W <=> Head(s.stack).expanded)
  <2>1. 1 \in 1 .. n
    BY <1>1
  <2> QED BY <1>1, <2>1 DEF NodeAt, Waiting
<1> HIDE DEF x, n
<1>5. \A i \in 1 .. (n - 1) : NodeAt(t, i) = NodeAt(s, i + 1) /\ i + 1 \in 2 .. n
  BY <1>1, <1>3 DEF NodeAt
<1>6. \A j \in Waiting(t) : j \in 1 .. (n - 1) /\ j + 1 \in W /\ j + 1 # 1
  <2> SUFFICES ASSUME NEW j \in Waiting(t) PROVE j \in 1 .. (n - 1) /\ j + 1 \in W /\ j + 1 # 1
    OBVIOUS
  <2>1. j \in 1 .. (n - 1) /\ t.stack[j].expanded
    BY <1>3 DEF Waiting
  <2>2. j + 1 \in 1 .. n /\ s.stack[j + 1].expanded /\ j + 1 # 1
    BY <2>1, <1>1, <1>3
  <2> QED BY <2>1, <2>2 DEF Waiting, n
<1>7. \A j \in W : j = 1 \/ (j - 1 \in Waiting(t) /\ j \in 2 .. n)
  <2> SUFFICES ASSUME NEW j \in W, j # 1 PROVE j - 1 \in Waiting(t) /\ j \in 2 .. n
    OBVIOUS
  <2>1. j \in 1 .. n /\ s.stack[j].expanded
    BY DEF Waiting, n
  <2>2. j \in 2 .. n /\ j - 1 \in 1 .. (n - 1) /\ (j - 1) + 1 = j
    BY <2>1, <1>1
  <2>3. t.stack[j - 1].expanded
    BY <2>1, <2>2, <1>3
  <2> QED BY <2>2, <2>3, <1>3 DEF Waiting
<1>8. ASSUME NEW j \in 0 .. n, NEW y, InHand(s, j + 1, y) PROVE InHand(t, j, y)
  <2> HIDE DEF d
  <2>1. CASE y \in d
    BY <2>1, <1>1 DEF InHand
  <2>2. CASE \E i \in 1 .. ((j + 1) - 1) : NodeAt(s, i) = y
    <3>1. PICK i \in 1 .. ((j + 1) - 1) : NodeAt(s, i) = y
      BY <2>2
    <3>2. CASE i = 1
      BY <3>1, <3>2, <1>1, <1>4 DEF InHand
    <3>3. CASE i # 1
      <4>1. i - 1 \in 1 .. (j - 1) /\ i - 1 \in 1 .. (n - 1) /\ (i - 1) + 1 = i
        BY <3>3, <1>1
      <4>2. NodeAt(t, i - 1) = y
        BY <4>1, <3>1, <1>5
      <4> QED BY <4>1, <4>2 DEF InHand
    <3> QED BY <3>2, <3>3
  <2> QED BY <2>1, <2>2, <1>1, <1>8 DEF InHand, d
<1>9. ASSUME NEW j \in Waiting(t)
      PROVE  /\ NodeAt(t, j) = NodeAt(s, j + 1) /\ NodeAt(t, j) \in d /\ NodeAt(t, j) \notin ToSet(Y)
             /\ 1 \in W => NodeAt(t, j) # x
             /\ \A i \in 1 .. (j - 1) : NodeAt(t, i) \in Reached({NodeAt(t, j)}, direction)
             /\ \A y \in Successors(NodeAt(t, j), direction) : InHand(t, j, y)
  <2> HIDE DEF Y, W, d
  <2>1. j \in 1 .. (n - 1) /\ j + 1 \in W /\ j + 1 # 1 /\ NodeAt(t, j) = NodeAt(s, j + 1)
    BY <1>5, <1>6
  <2>2. PICK h \in W : h = j + 1
    BY <2>1
  <2>3. ASSUME NEW i \in 1 .. (j - 1) PROVE NodeAt(t, i) \in Reached({NodeAt(t, j)}, direction)
    <3>1. i + 1 \in 1 .. (h - 1) /\ i \in 1 .. (n - 1)
      BY <2>1, <2>2, <1>1
    <3> QED BY <3>1, <2>1, <2>2, <1>2, <1>5
  <2>4. ASSUME NEW y \in Successors(NodeAt(t, j), direction) PROVE InHand(t, j, y)
    <3>1. y \in Successors(NodeAt(s, h), direction)
      BY <2>1, <2>2
    <3>2. InHand(s, h, y)
      BY <3>1, <1>2
    <3>3. j \in 0 .. n
      BY <2>1, <1>1
    <3> QED BY <3>2, <3>3, <2>2, <1>8
  <2>5. 1 \in W => NodeAt(t, j) # x
    BY <2>1, <1>2, <1>4
  <2> QED BY <2>1, <2>3, <2>4, <2>5, <1>2
<1>10. \A i, j \in Waiting(t) : NodeAt(t, i) = NodeAt(t, j) => i = j
  <2> SUFFICES ASSUME NEW i \in Waiting(t), NEW j \in Waiting(t), NodeAt(t, i) = NodeAt(t, j)
               PROVE  i = j
    OBVIOUS
  <2>1. i + 1 \in W /\ j + 1 \in W /\ NodeAt(s, i + 1) = NodeAt(s, j + 1)
        /\ i \in 1 .. (n - 1) /\ j \in 1 .. (n - 1)
    BY <1>6, <1>9
  <2>2. i + 1 = j + 1
    BY <2>1, <1>2
  <2> QED BY <2>1, <2>2
<1>11. \A y \in S : InHand(t, Len(t.stack) + 1, y)
  <2>1. n \in 0 .. n /\ Len(t.stack) + 1 = n
    BY <1>1, <1>3
  <2> HIDE DEF S
  <2> QED BY <2>1, <1>2, <1>8 DEF n
<1>12. \A i \in 1 .. Len(t.stack) : NodeAt(t, i) \in R
  <2> SUFFICES ASSUME NEW i \in 1 .. (n - 1) PROVE NodeAt(t, i) \in R
    BY <1>3
  <2>1. i + 1 \in 1 .. n
    BY <1>1
  <2> QED BY <2>1, <1>2, <1>5 DEF n
<1>13. \A y \in d : y = x \/ y \in ToSet(Y) \/ \E j \in Waiting(t) : NodeAt(t, j) = y
  <2> SUFFICES ASSUME NEW y \in d, y # x, y \notin ToSet(Y)
               PROVE  \E j \in Waiting(t) : NodeAt(t, j) = y
    OBVIOUS
  <2> HIDE DEF d, Y, W
  <2>1. PICK j \in W : NodeAt(s, j) = y
    BY <1>2
  <2>2. j # 1
    BY <2>1, <1>4
  <2>3. j - 1 \in Waiting(t) /\ j \in 2 .. n
    BY <2>2, <1>7
  <2>4. (j - 1) + 1 = j
    BY <2>3, <1>1
  <2> QED BY <2>1, <2>3, <2>4, <1>9
<1>14. CASE ~ Head(s.stack).expanded
  <2>1. Z = Y /\ 1 \notin W
    BY <1>4, <1>14
  <2>2. x \in ToSet(Y) \/ \E j \in Waiting(t) : NodeAt(t, j) = x
    <3> HIDE DEF d, Y, W
    <3>1. CASE x \in ToSet(Y)
      BY <3>1
    <3>2. CASE x \notin ToSet(Y)
      <4>1. PICK j \in W : NodeAt(s, j) = x
        BY <3>2, <1>1, <1>2
      <4>2. j - 1 \in Waiting(t) /\ j \in 2 .. n
        BY <4>1, <2>1, <1>7
      <4>3. (j - 1) + 1 = j
        BY <4>2, <1>1
      <4> QED BY <4>1, <4>2, <4>3, <1>9
    <3> QED BY <3>1, <3>2
  <2>3. \A y \in d : y \in ToSet(Z) \/ \E j \in Waiting(t) : NodeAt(t, j) = y
    BY <2>1, <2>2, <1>13
  <2> HIDE DEF Y, Z, W, d, R, S
  <2> QED BY <2>1, <2>3, <1>1, <1>2, <1>9, <1>10, <1>11, <1>12 DEF PostOrderInv, Z, R, S
<1>15. CASE Head(s.stack).expanded
  <2>1. Z = Append(Y, x) /\ 1 \in W
    BY <1>4, <1>15 DEF x
  <2> HIDE DEF Z, Y, W, d
  <2>2. x \notin ToSet(Y)
    BY <2>1, <1>2, <1>4
  <2>3. /\ Len(Z) = k + 1 /\ k \in Nat /\ Z[k + 1] = x /\ (\A i \in 1 .. k : Z[i] = Y[i])
        /\ ToSet(Z) = ToSet(Y) \cup {x} /\ DOMAIN Y = 1 .. k /\ DOMAIN Z = 1 .. (k + 1)
    BY <2>1, <1>1, AppendFacts
  <2>4. Distinct(Z)
    BY <2>1, <2>2, <1>1, <1>2, AppendDistinct
  <2> HIDE DEF k
  <2>5. ASSUME NEW i \in 1 .. (k + 1), NEW y \in Successors(Z[i], direction)
        PROVE  /\ y \in d
               /\ (\E l \in 1 .. (i - 1) : Z[l] = y) \/ Z[i] \in Reached({y}, direction)
    <3>1. CASE i = k + 1
      <4>1. y \in d
        <5>1. InHand(s, 1, y)
          BY <3>1, <2>1, <2>3, <1>2, <1>4
        <5> QED BY <5>1, <1>1 DEF InHand, d
      <4>2. CASE y \in ToSet(Y)
        <5>1. PICK l \in 1 .. k : Y[l] = y
          BY <4>2, <1>1, InSet DEF k
        <5>2. Z[l] = y /\ l \in 1 .. (i - 1)
          BY <5>1, <3>1, <2>3
        <5> QED BY <4>1, <5>2
      <4>3. CASE y \notin ToSet(Y)
        <5>1. PICK j \in W : NodeAt(s, j) = y
          BY <4>1, <4>3, <1>2
        <5>2. CASE j = 1
          <6>1. {x} \in SUBSET nodes /\ y = x
            BY <5>1, <5>2, <1>1, <1>4
          <6> QED BY <6>1, <4>1, <3>1, <2>3, ReachedIsClosed
        <5>3. CASE j # 1
          <6>1. 1 \in 1 .. (j - 1)
            BY <5>3, <1>1, <1>7
          <6>2. x \in Reached({y}, direction)
            BY <6>1, <5>1, <1>2, <1>4
          <6> QED BY <6>2, <4>1, <3>1, <2>3
        <5> QED BY <5>2, <5>3
      <4> QED BY <4>2, <4>3
    <3>2. CASE i # k + 1
      <4>1. i \in 1 .. k /\ Z[i] = Y[i]
        BY <3>2, <2>3
      <4>2. y \in d /\ ((\E l \in 1 .. (i - 1) : Y[l] = y) \/ Y[i] \in Reached({y}, direction))
        BY <4>1, <2>3, <1>2
      <4>3. \A l \in 1 .. (i - 1) : l \in 1 .. k
        BY <4>1, <2>3
      <4> QED BY <4>1, <4>2, <4>3, <2>3
    <3> QED BY <3>1, <3>2
  <2>6. \A y \in d : y \in ToSet(Z) \/ \E j \in Waiting(t) : NodeAt(t, j) = y
    BY <2>3, <1>13
  <2>7. \A j \in Waiting(t) : NodeAt(t, j) \notin ToSet(Z)
    BY <2>1, <2>3, <1>9
  <2>8. ToSet(Z) \subseteq d
    BY <2>3, <1>1, <1>2
  <2> HIDE DEF R, S
  <2> QED BY <2>3, <2>4, <2>5, <2>6, <2>7, <2>8, <1>1, <1>2, <1>9, <1>10, <1>11, <1>12
          DEF PostOrderInv, Z, R, S
<1> QED BY <1>14, <1>15

LEMMA PostOrderEnds ==
  ASSUME Settled, NEW direction \in Direction, NEW start \in Seq(nodes)
  PROVE  \E e \in PostOrderState :
           /\ PostOrderInv(e, start, direction) /\ e.pending = << >> /\ e.stack = << >>
           /\ e.yielded = DFSPostOrder(start, direction)
<1> DEFINE step  == PostOrderStep(direction)
           I     == { s \in PostOrderState : PostOrderInv(s, start, direction) }
           Done  == { s \in I : s.pending = << >> /\ s.stack = << >> }
           outer == [s \in I |-> Cardinality(nodes \ s.discovered)]
           inner == [s \in I |-> 2 * Len(s.pending) + Len(s.stack)]
           s0    == [stack |-> << >>, pending |-> StartNodes(start), discovered |-> {}, yielded |-> << >>]
<1>1. step \in [PostOrderState -> PostOrderState]
  <2>1. \A s \in PostOrderState : step[s] \in PostOrderState
    BY PostOrderCases
  <2>2. step = [s \in PostOrderState |-> step[s]]
    BY DEF PostOrderStep
  <2> HIDE DEF step
  <2> QED BY <2>1, <2>2
<1>2. ASSUME NEW s \in PostOrderState
      PROVE  /\ s.stack \in Seq(Entry) /\ s.pending \in Seq(nodes) /\ s.yielded \in Seq(nodes)
             /\ Len(s.stack) \in Nat /\ Len(s.pending) \in Nat
             /\ 2 * Len(s.pending) + Len(s.stack) \in Nat
             /\ s.discovered \in SUBSET nodes
  <2>1. /\ s.stack \in Seq(Entry) /\ s.pending \in Seq(nodes) /\ s.yielded \in Seq(nodes)
        /\ s.discovered \in SUBSET nodes
    BY DEF PostOrderState
  <2>2. Len(s.stack) \in Nat /\ Len(s.pending) \in Nat
    BY <2>1
  <2>3. 2 * Len(s.pending) + Len(s.stack) \in Nat
    BY <2>2, Measure
  <2> QED BY <2>1, <2>2, <2>3
<1>3. outer \in [I -> Nat] /\ inner \in [I -> Nat]
  <2>1. \A s \in I : Cardinality(nodes \ s.discovered) \in Nat
    BY SettledGraph
  <2>2. \A s \in I : 2 * Len(s.pending) + Len(s.stack) \in Nat
    BY <1>2
  <2> QED BY <2>1, <2>2
<1>4. s0 \in I
  <2>1. StartNodes(start) \in Seq(nodes)
    BY StartsKnown
  <2>2. s0 \in PostOrderState
    BY <2>1 DEF PostOrderState
  <2>3. /\ s0.yielded = << >> /\ s0.stack = << >> /\ s0.pending = StartNodes(start)
        /\ s0.discovered = {} /\ Len(s0.stack) = 0
        /\ DOMAIN s0.yielded = {} /\ ToSet(s0.yielded) = {} /\ Waiting(s0) = {}
    BY DEF ToSet, Waiting
  <2> HIDE DEF s0
  <2>4. \A m \in ToSet(StartNodes(start)) : InHand(s0, Len(s0.stack) + 1, m)
    BY <2>3 DEF InHand
  <2>5. PostOrderInv(s0, start, direction)
    BY <2>3, <2>4, ReachedStarts DEF PostOrderInv, Distinct
  <2> QED BY <2>2, <2>5
<1>5. ASSUME NEW s \in I \ Done
      PROVE  /\ step[s] \in I
             /\ \/ outer[step[s]] < outer[s]
                \/ outer[step[s]] = outer[s] /\ inner[step[s]] < inner[s]
  <2> DEFINE t == step[s]
             m == Last(s.pending)
             x == Head(s.stack)
  <2>0. s \in PostOrderState /\ PostOrderInv(s, start, direction) /\ ~ (s.pending = << >> /\ s.stack = << >>)
    BY <1>5
  <2>1. /\ t \in PostOrderState
        /\ s.pending # << >> =>
             /\ t.pending = Front(s.pending) /\ t.yielded = s.yielded
             /\ t.discovered = s.discovered
             /\ m \in s.discovered => t.stack = s.stack
             /\ m \notin s.discovered => t.stack = <<[node |-> m, expanded |-> FALSE]>> \o s.stack
        /\ s.pending = << >> /\ s.stack # << >> /\ x.node \notin s.discovered =>
             /\ t.pending = sortedNeighborsDirected(x.node, direction) /\ t.yielded = s.yielded
             /\ t.discovered = s.discovered \cup {x.node}
             /\ t.stack = <<[node |-> x.node, expanded |-> TRUE]>> \o Tail(s.stack)
        /\ s.pending = << >> /\ s.stack # << >> /\ x.node \in s.discovered =>
             /\ t.pending = s.pending /\ t.discovered = s.discovered /\ t.stack = Tail(s.stack)
             /\ x.expanded => t.yielded = Append(s.yielded, x.node)
             /\ ~ x.expanded => t.yielded = s.yielded
    BY <2>0, PostOrderCases
  <2> HIDE DEF t, x, m, step
  <2>2. /\ s.stack \in Seq(Entry) /\ s.pending \in Seq(nodes)
        /\ Len(s.stack) \in Nat /\ Len(s.pending) \in Nat
        /\ s.discovered \in SUBSET nodes
        /\ Len(t.stack) \in Nat /\ Len(t.pending) \in Nat
    BY <2>0, <2>1, <1>2
  <2>3. PostOrderInv(t, start, direction) =>
          /\ t \in I /\ outer[t] = Cardinality(nodes \ t.discovered)
          /\ inner[t] = 2 * Len(t.pending) + Len(t.stack)
    BY <2>1
  <2>4. outer[s] = Cardinality(nodes \ s.discovered) /\ inner[s] = 2 * Len(s.pending) + Len(s.stack)
    BY <1>5
  <2> SUFFICES t \in I /\ (outer[t] < outer[s] \/ (outer[t] = outer[s] /\ inner[t] < inner[s]))
    BY DEF t
  <2> HIDE DEF outer, inner, I
  <2>5. CASE s.pending # << >>
    <3>1. PostOrderInv(t, start, direction)
      BY <2>0, <2>1, <2>5, PostOrderPush DEF m
    <3>2. Len(t.pending) = Len(s.pending) - 1
      BY <2>1, <2>5, <2>2, FrontFacts
    <3>3. m \in nodes
      BY <2>5, <2>2, FrontFacts DEF m
    <3>4. Len(<<[node |-> m, expanded |-> FALSE]>> \o s.stack) = Len(s.stack) + 1
      <4>1. [node |-> m, expanded |-> FALSE] \in Entry
        BY <3>3 DEF Entry
      <4> QED BY <4>1, <2>2, PushFacts
    <3>5. Len(t.stack) = Len(s.stack) + 1 \/ Len(t.stack) = Len(s.stack)
      BY <3>4, <2>1, <2>5
    <3>6. 2 * Len(t.pending) + Len(t.stack) < 2 * Len(s.pending) + Len(s.stack)
      BY <3>2, <3>5, <2>2, Measure
    <3> QED BY <3>1, <3>6, <2>1, <2>3, <2>4, <2>5
  <2>6. CASE s.pending = << >> /\ s.stack # << >> /\ x.node \notin s.discovered
    <3>1. PostOrderInv(t, start, direction)
      BY <2>0, <2>1, <2>6, PostOrderVisit DEF x
    <3>2. x.node \in nodes
      <4>1. x \in Entry
        BY <2>6, <2>2, TailFacts DEF x
      <4> QED BY <4>1 DEF Entry
    <3>3. Cardinality(nodes \ t.discovered) < Cardinality(nodes \ s.discovered)
      BY <3>2, <2>1, <2>6, <2>2, FewerLeft
    <3> QED BY <3>1, <3>3, <2>3, <2>4
  <2>7. CASE s.pending = << >> /\ s.stack # << >> /\ x.node \in s.discovered
    <3>1. PostOrderInv(t, start, direction)
      BY <2>0, <2>1, <2>7, PostOrderPop DEF x
    <3>2. Len(t.stack) = Len(s.stack) - 1 /\ Len(t.pending) = Len(s.pending)
      BY <2>1, <2>7, <2>2, TailFacts
    <3>3. 2 * Len(t.pending) + Len(t.stack) < 2 * Len(s.pending) + Len(s.stack)
      BY <3>2, <2>2, Measure
    <3> QED BY <3>1, <3>3, <2>1, <2>3, <2>4, <2>7
  <2> QED BY <2>0, <2>5, <2>6, <2>7
<1>6. \A s \in Done : step[s] = s
  BY PostOrderCases
<1> DEFINE e == Repeat(step, s0)
<1>7. e \in Done
  <2>1. ComesToRest(PostOrderState, step, I, Done, outer, inner)
    <3>1. I \in SUBSET PostOrderState /\ Done \in SUBSET I
      OBVIOUS
    <3> HIDE DEF step, outer, inner, I, s0, Done
    <3> QED BY <3>1, <1>1, <1>3, <1>5, <1>6 DEF ComesToRest
  <2> HIDE DEF step, outer, inner, I, s0, Done
  <2> QED BY <2>1, <1>4, RepeatFinishes
<1>8. e.yielded = DFSPostOrder(start, direction)
  BY DEF DFSPostOrder
<1> HIDE DEF e, step
<1> QED BY <1>7, <1>8

LEMMA PostOrderSearch ==
  ASSUME Settled, NEW direction \in Direction, NEW start \in Seq(nodes)
  PROVE  ChildrenFirst(start, direction)
<1>1. PICK e \in PostOrderState :
           /\ PostOrderInv(e, start, direction) /\ e.pending = << >> /\ e.stack = << >>
           /\ e.yielded = DFSPostOrder(start, direction)
  BY PostOrderEnds
<1> DEFINE Y == DFSPostOrder(start, direction)
<1>2. Y \in Seq(nodes) /\ Waiting(e) = {} /\ ToSet(e.pending) = {} /\ Len(e.stack) = 0
  BY <1>1 DEF PostOrderState, Waiting, ToSet
<1>3. /\ Distinct(Y) /\ ToSet(Y) \subseteq e.discovered
      /\ e.discovered \subseteq ReachedFrom(start, direction)
      /\ \A m \in e.discovered : m \in ToSet(Y) \/ \E j \in Waiting(e) : NodeAt(e, j) = m
      /\ \A m \in ToSet(StartNodes(start)) : InHand(e, Len(e.stack) + 1, m)
      /\ \A i \in DOMAIN Y : \A m \in Successors(Y[i], direction) :
           /\ m \in e.discovered
           /\ (\E k \in 1 .. (i - 1) : Y[k] = m) \/ Y[i] \in Reached({m}, direction)
  BY <1>1 DEF PostOrderInv
<1> HIDE DEF Y
<1>4. ToSet(Y) = e.discovered
  BY <1>2, <1>3
<1>5. ToSet(StartNodes(start)) \subseteq ToSet(Y)
  BY <1>2, <1>3, <1>4 DEF InHand
<1>6. Len(Y) \in Nat /\ DOMAIN Y = 1 .. Len(Y)
  BY <1>2
<1>7. YieldsOnce(Y, ReachedFrom(start, direction))
  BY <1>2, <1>3, <1>4, <1>5, <1>6, YieldsReached
<1>8. ASSUME NEW i \in DOMAIN Y, NEW j \in DOMAIN Y,
             Y[j] \in Successors(Y[i], direction), Y[i] \notin Reached({Y[j]}, direction)
      PROVE  j < i
  <2>1. PICK k \in 1 .. (i - 1) : Y[k] = Y[j]
    BY <1>3, <1>8
  <2>2. k \in DOMAIN Y /\ k < i
    BY <1>6
  <2>3. k = j
    BY <2>1, <2>2, <1>3 DEF Distinct
  <2> QED BY <2>2, <2>3
<1> QED BY <1>7, <1>8 DEF ChildrenFirst, Y

-----------------------------------------------------------------------------
Ascends(s) == \A i, j \in DOMAIN s : i < j => s[i] < s[j]

LEMMA ConcatFacts ==
  ASSUME NEW X, NEW a \in Seq(X), NEW b \in Seq(X)
  PROVE  /\ a \o b \in Seq(X) /\ Len(a \o b) = Len(a) + Len(b)
         /\ \A i \in 1 .. Len(a) : (a \o b)[i] = a[i]
         /\ \A i \in (Len(a) + 1) .. (Len(a) + Len(b)) : (a \o b)[i] = b[i - Len(a)]
OBVIOUS

LEMMA InsertAtFacts ==
  ASSUME NEW X, NEW s \in Seq(X), NEW x \in X, NEW p \in 1 .. (Len(s) + 1)
  PROVE  /\ InsertAt(s, p, x) \in Seq(X) /\ Len(InsertAt(s, p, x)) = Len(s) + 1
         /\ \A i \in 1 .. (p - 1) : InsertAt(s, p, x)[i] = s[i]
         /\ InsertAt(s, p, x)[p] = x
         /\ \A i \in (p + 1) .. (Len(s) + 1) : InsertAt(s, p, x)[i] = s[i - 1]
<1> DEFINE a == SubSeq(s, 1, p - 1)
           b == SubSeq(s, p, Len(s))
           n == Len(s)
<1>1. n \in Nat /\ p \in Nat /\ p >= 1 /\ p <= n + 1 /\ \A i \in 1 .. n : s[i] \in X
  OBVIOUS
<1>2. a \in Seq(X) /\ Len(a) = p - 1 /\ \A i \in 1 .. (p - 1) : a[i] = s[i]
  <2>1. PICK m \in Nat : m = p - 1
    BY <1>1
  <2>2. (\A i \in 1 .. m : s[i] \in X) /\ 1 \in Int /\ m \in Int
    BY <2>1, <1>1
  <2>3. /\ SubSeq(s, 1, m) \in Seq(X) /\ Len(SubSeq(s, 1, m)) = IF 1 <= m THEN m - 1 + 1 ELSE 0
        /\ \A i \in 1 .. (m - 1 + 1) : SubSeq(s, 1, m)[i] = s[1 + i - 1]
    BY <2>2, SubSeqProperties
  <2>4. \A i \in 1 .. m : SubSeq(s, 1, m)[i] = s[i]
    BY <2>3
  <2>5. Len(SubSeq(s, 1, m)) = m
    BY <2>3
  <2> QED BY <2>1, <2>3, <2>4, <2>5
<1>3. b \in Seq(X) /\ Len(b) = n - p + 1 /\ \A i \in 1 .. (n - p + 1) : b[i] = s[p + i - 1]
  <2>1. (\A i \in p .. n : s[i] \in X) /\ p \in Int /\ n \in Int
    BY <1>1
  <2>2. /\ b \in Seq(X) /\ Len(b) = IF p <= n THEN n - p + 1 ELSE 0
        /\ \A i \in 1 .. (n - p + 1) : b[i] = s[p + i - 1]
    BY <2>1, SubSeqProperties
  <2> HIDE DEF b, n
  <2>3. Len(b) = n - p + 1
    BY <2>2, <1>1
  <2> QED BY <2>2, <2>3
<1>4. InsertAt(s, p, x) = (a \o <<x>>) \o b
  BY DEF InsertAt
<1> HIDE DEF a, b, n
<1> DEFINE u == <<x>>
           c == a \o u
<1>5. u \in Seq(X) /\ Len(u) = 1 /\ u[1] = x
  OBVIOUS
<1> HIDE DEF u
<1>6. c \in Seq(X) /\ Len(c) = p /\ (\A i \in 1 .. (p - 1) : c[i] = s[i]) /\ c[p] = x
  <2>1. /\ c \in Seq(X) /\ Len(c) = Len(a) + Len(u)
        /\ \A i \in 1 .. Len(a) : c[i] = a[i]
        /\ \A i \in (Len(a) + 1) .. (Len(a) + Len(u)) : c[i] = u[i - Len(a)]
    <3>1. a \in Seq(X) /\ u \in Seq(X)
      BY <1>2, <1>5
    <3> QED BY <3>1, ConcatFacts
  <2> HIDE DEF c
  <2>2. Len(c) = p /\ (\A i \in 1 .. (p - 1) : c[i] = s[i])
    BY <2>1, <1>1, <1>2, <1>5
  <2>3. p \in (Len(a) + 1) .. (Len(a) + Len(u)) /\ p - Len(a) = 1
    BY <1>1, <1>2, <1>5
  <2>4. c[p] = u[1]
    BY <2>1, <2>3
  <2> QED BY <2>1, <2>2, <2>4, <1>5
<1>7. InsertAt(s, p, x) = c \o b
  BY <1>4 DEF u
<1> HIDE DEF c
<1>8. /\ c \o b \in Seq(X) /\ Len(c \o b) = n + 1
      /\ \A i \in 1 .. p : (c \o b)[i] = c[i]
      /\ \A i \in (p + 1) .. (n + 1) : (c \o b)[i] = b[i - p]
  <2>1. /\ c \o b \in Seq(X) /\ Len(c \o b) = Len(c) + Len(b)
        /\ \A i \in 1 .. Len(c) : (c \o b)[i] = c[i]
        /\ \A i \in (Len(c) + 1) .. (Len(c) + Len(b)) : (c \o b)[i] = b[i - Len(c)]
    <3>1. c \in Seq(X) /\ b \in Seq(X)
      BY <1>3, <1>6
    <3> QED BY <3>1, ConcatFacts
  <2>2. p + Len(b) = n + 1
    BY <1>1, <1>3
  <2> QED BY <2>1, <2>2, <1>6
<1>9. \A i \in (p + 1) .. (n + 1) : b[i - p] = s[i - 1]
  <2> SUFFICES ASSUME NEW i \in (p + 1) .. (n + 1) PROVE b[i - p] = s[i - 1]
    OBVIOUS
  <2>1. i - p \in 1 .. (n - p + 1) /\ p + (i - p) - 1 = i - 1
    BY <1>1
  <2> QED BY <2>1, <1>3
<1>10. \A i \in 1 .. (p - 1) : i \in 1 .. p
  BY <1>1
<1>11. p \in 1 .. p
  BY <1>1
<1> QED BY <1>6, <1>7, <1>8, <1>9, <1>10, <1>11 DEF n

(***************************************************************************)
(* A node that is not in the sorted queue goes to its place in it.         *)
(***************************************************************************)
LEMMA InsertSortedKeeps ==
  ASSUME nodes \subseteq Nat, NEW q \in Seq(nodes), Ascends(q), NEW n \in nodes, n \notin ToSet(q)
  PROVE  /\ InsertSorted(q, n) \in Seq(nodes) /\ Ascends(InsertSorted(q, n))
         /\ ToSet(InsertSorted(q, n)) = ToSet(q) \cup {n}
<1> DEFINE P == { p \in 1 .. (Len(q) + 1) : p > Len(q) \/ q[p] >= n }
           p == Min(P)
           r == InsertSorted(q, n)
           l == Len(q)
<1>1. l \in Nat /\ n \in Nat /\ DOMAIN q = 1 .. l /\ \A i \in 1 .. l : q[i] \in Nat /\ q[i] # n
  BY InSet
<1>2. p \in P /\ \A i \in P : p <= i
  <2>1. P \subseteq Nat
    BY <1>1
  <2>2. l + 1 \in P
    BY <1>1
  <2> HIDE DEF P
  <2> QED BY <2>1, <2>2, LeastOf
<1>3. r = InsertAt(q, p, n)
  BY DEF InsertSorted
<1>4. p \in 1 .. (l + 1) /\ p \in Nat
  BY <1>1, <1>2
<1> HIDE DEF p, r
<1>5. \A i \in 1 .. (p - 1) : q[i] < n /\ i \in 1 .. l
  <2> SUFFICES ASSUME NEW i \in 1 .. (p - 1) PROVE q[i] < n /\ i \in 1 .. l
    OBVIOUS
  <2>1. i \in 1 .. l /\ ~ (p <= i)
    BY <1>1, <1>4
  <2>2. i \notin P
    BY <1>2, <2>1
  <2>3. ~ (q[i] >= n)
    BY <1>1, <2>1, <2>2
  <2> QED BY <1>1, <2>1, <2>3
<1>6. p <= l => q[p] > n
  <2> SUFFICES ASSUME p <= l PROVE q[p] > n
    OBVIOUS
  <2>1. p \in 1 .. l
    BY <1>1, <1>4
  <2>2. p > l \/ q[p] >= n
    BY <1>2
  <2> QED BY <2>1, <2>2, <1>1
<1>7. \A i \in p .. l : q[i] > n /\ i \in 1 .. l
  <2> SUFFICES ASSUME NEW i \in p .. l PROVE q[i] > n /\ i \in 1 .. l
    OBVIOUS
  <2>1. i \in 1 .. l /\ p \in 1 .. l
    BY <1>1, <1>4
  <2>2. i = p \/ q[p] < q[i]
    BY <2>1, <1>1 DEF Ascends
  <2> QED BY <2>1, <2>2, <1>1, <1>6
<1> HIDE DEF P
<1>8. /\ r \in Seq(nodes) /\ Len(r) = l + 1 /\ r[p] = n /\ DOMAIN r = 1 .. (l + 1)
      /\ \A i \in 1 .. (p - 1) : r[i] = q[i]
      /\ \A i \in (p + 1) .. (l + 1) : r[i] = q[i - 1]
  <2>1. /\ r \in Seq(nodes) /\ Len(r) = l + 1 /\ r[p] = n
        /\ \A i \in 1 .. (p - 1) : r[i] = q[i]
        /\ \A i \in (p + 1) .. (l + 1) : r[i] = q[i - 1]
    <3>1. q \in Seq(nodes) /\ n \in nodes /\ p \in 1 .. (Len(q) + 1)
      BY <1>4
    <3>2. /\ InsertAt(q, p, n) \in Seq(nodes) /\ Len(InsertAt(q, p, n)) = Len(q) + 1
          /\ \A i \in 1 .. (p - 1) : InsertAt(q, p, n)[i] = q[i]
          /\ InsertAt(q, p, n)[p] = n
          /\ \A i \in (p + 1) .. (Len(q) + 1) : InsertAt(q, p, n)[i] = q[i - 1]
      BY <3>1, InsertAtFacts
    <3> QED BY <3>2, <1>3
  <2> HIDE DEF l
  <2> QED BY <2>1, <1>1
<1> HIDE DEF l
<1>9. ASSUME NEW i \in 1 .. (l + 1)
      PROVE  \/ i < p /\ r[i] = q[i] /\ i \in 1 .. l /\ q[i] < n
             \/ i = p /\ r[i] = n
             \/ i > p /\ r[i] = q[i - 1] /\ i - 1 \in 1 .. l /\ q[i - 1] > n
  <2>1. CASE i < p
    <3>1. i \in 1 .. (p - 1)
      BY <2>1, <1>4, <1>1
    <3> QED BY <2>1, <3>1, <1>5, <1>8
  <2>2. CASE i = p
    BY <2>2, <1>8
  <2>3. CASE i > p
    <3>1. i \in (p + 1) .. (l + 1) /\ i - 1 \in p .. l
      BY <2>3, <1>4, <1>1
    <3> QED BY <2>3, <3>1, <1>7, <1>8
  <2> QED BY <2>1, <2>2, <2>3, <1>4
<1>10. ASSUME NEW i \in 1 .. (l + 1), NEW j \in 1 .. (l + 1), i < j PROVE r[i] < r[j]
  <2>0. \A a, b \in 1 .. l : a < b => q[a] < q[b]
    BY <1>1 DEF Ascends
  <2>1. \/ i < p /\ r[i] = q[i] /\ i \in 1 .. l /\ q[i] < n
        \/ i = p /\ r[i] = n
        \/ i > p /\ r[i] = q[i - 1] /\ i - 1 \in 1 .. l /\ q[i - 1] > n
    BY <1>9
  <2>2. \/ j < p /\ r[j] = q[j] /\ j \in 1 .. l /\ q[j] < n
        \/ j = p /\ r[j] = n
        \/ j > p /\ r[j] = q[j - 1] /\ j - 1 \in 1 .. l /\ q[j - 1] > n
    BY <1>9
  <2>3. CASE i < p /\ j < p
    BY <2>0, <2>1, <2>2, <2>3, <1>1, <1>4, <1>10
  <2>4. CASE i < p /\ j > p
    BY <2>1, <2>2, <2>4, <1>1, <1>4
  <2>5. CASE i > p /\ j > p
    <3>1. i - 1 < j - 1 /\ i - 1 \in 1 .. l /\ j - 1 \in 1 .. l /\ r[i] = q[i - 1] /\ r[j] = q[j - 1]
      BY <2>1, <2>2, <2>5, <1>1, <1>4, <1>10
    <3> QED BY <3>1, <2>0
  <2>6. CASE i = p \/ j = p
    BY <2>1, <2>2, <2>6, <1>1, <1>4, <1>10
  <2> QED BY <2>3, <2>4, <2>5, <2>6, <1>4, <1>10
<1>11. ToSet(r) = ToSet(q) \cup {n}
  <2>1. \A i \in 1 .. (l + 1) : r[i] \in ToSet(q) \cup {n}
    <3>1. \A i \in 1 .. l : q[i] \in ToSet(q)
      BY <1>1 DEF ToSet
    <3> QED BY <3>1, <1>9
  <2>2. \A i \in 1 .. l : \E j \in 1 .. (l + 1) : r[j] = q[i]
    <3> SUFFICES ASSUME NEW i \in 1 .. l PROVE \E j \in 1 .. (l + 1) : r[j] = q[i]
      OBVIOUS
    <3>1. CASE i < p
      <4>1. i \in 1 .. (p - 1) /\ i \in 1 .. (l + 1)
        BY <3>1, <1>1, <1>4
      <4> QED BY <4>1, <1>8
    <3>2. CASE i >= p
      <4>1. i + 1 \in (p + 1) .. (l + 1) /\ i + 1 \in 1 .. (l + 1) /\ (i + 1) - 1 = i
        BY <3>2, <1>1, <1>4
      <4>2. r[i + 1] = q[(i + 1) - 1]
        BY <4>1, <1>8
      <4> QED BY <4>1, <4>2
    <3> QED BY <3>1, <3>2, <1>4
  <2>3. \E j \in 1 .. (l + 1) : r[j] = n
    BY <1>4, <1>8
  <2>4. /\ \A y : y \in ToSet(r) <=> \E i \in 1 .. (l + 1) : r[i] = y
        /\ \A y : y \in ToSet(q) <=> \E i \in 1 .. l : q[i] = y
    BY <1>1, <1>8 DEF ToSet
  <2>5. \A y \in ToSet(r) : y \in ToSet(q) \cup {n}
    BY <2>1, <2>4
  <2>6. \A y \in ToSet(q) \cup {n} : y \in ToSet(r)
    BY <2>2, <2>3, <2>4
  <2> QED BY <2>5, <2>6
<1>12. Ascends(r)
  BY <1>8, <1>10 DEF Ascends
<1> QED BY <1>8, <1>11, <1>12 DEF r

LEMMA InsertSortedType ==
  ASSUME nodes \subseteq Nat, NEW q \in Seq(nodes), NEW n \in nodes
  PROVE  InsertSorted(q, n) \in Seq(nodes)
<1> DEFINE P == { p \in 1 .. (Len(q) + 1) : p > Len(q) \/ q[p] >= n }
           p == Min(P)
<1>1. Len(q) \in Nat
  OBVIOUS
<1>2. p \in P
  <2>1. P \subseteq Nat
    BY <1>1
  <2>2. Len(q) + 1 \in P
    BY <1>1
  <2> HIDE DEF P
  <2> QED BY <2>1, <2>2, LeastOf
<1>3. p \in 1 .. (Len(q) + 1)
  BY <1>2
<1>4. InsertSorted(q, n) = InsertAt(q, p, n)
  BY DEF InsertSorted
<1> HIDE DEF p
<1> QED BY <1>3, <1>4, InsertAtFacts

(***************************************************************************)
(* The topological sort.  left are the edges whose targets are pending; an *)
(* edge is open until it is through, and the degree of a node is the       *)
(* number of the open edges that lead to it.                               *)
(***************************************************************************)
OpenEdges(Y, left, m) ==
  { e \in DOMAIN edges :
      edges[e].target = m /\ (edges[e].source \notin ToSet(Y) \/ e \in ToSet(left)) }

Ready(done) == { n \in nodes \ done : Successors(n, "Incoming") \subseteq done }

NextReady(Y, i) ==
  Y[i] \in Ready(Before(Y, i)) /\ \A r \in Ready(Before(Y, i)) : Y[i] <= r

TopoInv(s, left) ==
  LET Y == s.yielded
  IN  /\ Distinct(Y) /\ Distinct(left) /\ Len(left) = Len(s.pending)
      /\ \A i \in 1 .. Len(left) : s.pending[i] = edges[left[i]].target
      /\ \A e \in ToSet(left) : edges[e].source \in ToSet(Y)
      /\ \A m \in nodes : s.degree[m] = Cardinality(OpenEdges(Y, left, m))
      /\ \A m \in ToSet(Y) : OpenEdges(Y, left, m) = {}
      /\ Ascends(s.queue) /\ ToSet(s.queue) = { m \in nodes \ ToSet(Y) : s.degree[m] = 0 }
      /\ \A i \in DOMAIN Y : NextReady(Y, i)

LEMMA TopoCases ==
  ASSUME Settled, NEW s \in TopoState
  PROVE  LET t == TopoStep[s]
             m == Head(s.pending)
             x == Head(s.queue)
         IN  /\ t \in TopoState
             /\ s.pending # << >> =>
                  /\ t.pending = Tail(s.pending) /\ t.yielded = s.yielded
                  /\ t.degree = [s.degree EXCEPT ![m] = @ - 1]
                  /\ s.degree[m] = 1 => t.queue = InsertSorted(s.queue, m)
                  /\ s.degree[m] # 1 => t.queue = s.queue
             /\ s.pending = << >> /\ s.queue = << >> => t = s
             /\ s.pending = << >> /\ s.queue # << >> =>
                  /\ t.pending = sortedNeighborsDirected(x, "Outgoing") /\ t.degree = s.degree
                  /\ t.yielded = Append(s.yielded, x) /\ t.queue = Tail(s.queue)
<1> DEFINE t == TopoStep[s]
           m == Head(s.pending)
           x == Head(s.queue)
<1>1. /\ s.queue \in Seq(nodes) /\ s.pending \in Seq(nodes) /\ s.yielded \in Seq(nodes)
      /\ s.degree \in [nodes -> Int]
  BY DEF TopoState
<1>2. s = [queue |-> s.queue, degree |-> s.degree, pending |-> s.pending, yielded |-> s.yielded]
  BY DEF TopoState
<1>3. t = IF s.pending # << >> THEN Release(s, m)
          ELSE IF s.queue = << >> THEN s
          ELSE [s EXCEPT !.queue = Tail(@),
                         !.pending = sortedNeighborsDirected(Head(s.queue), "Outgoing"),
                         !.yielded = Append(@, Head(s.queue))]
  BY DEF TopoStep
<1> HIDE DEF t
<1>4. CASE s.pending # << >>
  <2> DEFINE q == IF s.degree[m] = 1 THEN InsertSorted(s.queue, m) ELSE s.queue
             g == [s.degree EXCEPT ![m] = @ - 1]
  <2>1. Tail(s.pending) \in Seq(nodes) /\ m \in nodes
    BY <1>1, <1>4, TailFacts
  <2>2. t = [s EXCEPT !.pending = Tail(@), !.degree[m] = @ - 1,
                      !.queue = IF s.degree[m] = 1 THEN InsertSorted(@, m) ELSE @]
    BY <1>3, <1>4 DEF Release
  <2>3. t = [queue |-> q, degree |-> g, pending |-> Tail(s.pending), yielded |-> s.yielded]
    BY <1>2, <2>2
  <2>4. q \in Seq(nodes)
    <3>1. nodes \subseteq Nat
      BY SettledGraph
    <3> HIDE DEF m
    <3> QED BY <3>1, <2>1, <1>1, InsertSortedType
  <2>5. g \in [nodes -> Int]
    BY <1>1, <2>1
  <2> HIDE DEF q, g
  <2>6. t.queue = q /\ t.degree = g /\ t.pending = Tail(s.pending) /\ t.yielded = s.yielded
    BY <2>3
  <2>7. t \in TopoState
    BY <2>1, <2>3, <2>4, <2>5, <1>1 DEF TopoState
  <2> QED BY <2>6, <2>7, <1>4 DEF t, q, g
<1>5. CASE s.pending = << >> /\ s.queue = << >>
  BY <1>3, <1>5 DEF t
<1>6. CASE s.pending = << >> /\ s.queue # << >>
  <2>1. Tail(s.queue) \in Seq(nodes) /\ x \in nodes
    BY <1>1, <1>6, TailFacts
  <2>2. Append(s.yielded, x) \in Seq(nodes) /\ sortedNeighborsDirected(x, "Outgoing") \in Seq(nodes)
    BY <1>1, <2>1, NeighborsAreSuccessors DEF Direction
  <2>3. t = [queue |-> Tail(s.queue), degree |-> s.degree,
             pending |-> sortedNeighborsDirected(x, "Outgoing"), yielded |-> Append(s.yielded, x)]
    BY <1>2, <1>3, <1>6
  <2> HIDE DEF x
  <2>4. /\ t.pending = sortedNeighborsDirected(x, "Outgoing") /\ t.degree = s.degree
        /\ t.yielded = Append(s.yielded, x) /\ t.queue = Tail(s.queue)
    BY <2>3
  <2>5. t \in TopoState
    BY <2>1, <2>2, <2>3, <1>1 DEF TopoState
  <2> QED BY <2>4, <2>5, <1>6 DEF t, x
<1> QED BY <1>4, <1>5, <1>6

\* The order of the first nodes does not depend on those that follow.
LEMMA ReadyOfPrefix ==
  ASSUME NEW X, NEW s \in Seq(X), NEW x \in X, NEW i \in 1 .. Len(s), NextReady(s, i)
  PROVE  NextReady(Append(s, x), i)
<1> DEFINE r == Append(s, x)
<1>1. Len(s) \in Nat /\ (\A j \in 1 .. Len(s) : r[j] = s[j]) /\ i \in Nat
  OBVIOUS
<1> HIDE DEF r
<1>2. Before(r, i) = Before(s, i)
  <2>1. \A j \in 1 .. (i - 1) : r[j] = s[j]
    BY <1>1
  <2> QED BY <2>1 DEF Before
<1> QED BY <1>1, <1>2 DEF NextReady, r

\* When nothing is pending, a node is ready when its degree is zero.
LEMMA ReadyOfDegree ==
  ASSUME Settled, NEW Y, NEW m \in nodes \ ToSet(Y), NEW left, ToSet(left) = {}
  PROVE  Cardinality(OpenEdges(Y, left, m)) = 0 <=> m \in Ready(ToSet(Y))
<1>1. IsFiniteSet(OpenEdges(Y, left, m))
  <2>1. OpenEdges(Y, left, m) \subseteq DOMAIN edges /\ IsFiniteSet(DOMAIN edges)
    BY SettledGraph DEF OpenEdges
  <2> QED BY <2>1, FS_Subset
<1>2. Cardinality(OpenEdges(Y, left, m)) = 0 <=> OpenEdges(Y, left, m) = {}
  BY <1>1, FS_EmptySet
<1>3. Successors(m, "Incoming") = { edges[e].source : e \in { x \in DOMAIN edges : edges[x].target = m } }
  BY DEF Successors, FarEnd
<1>4. OpenEdges(Y, left, m) = {} <=> Successors(m, "Incoming") \subseteq ToSet(Y)
  BY <1>3 DEF OpenEdges
<1> QED BY <1>2, <1>4 DEF Ready

LEMMA TopoRelease ==
  ASSUME Settled, NEW s \in TopoState, NEW left \in Seq(DOMAIN edges), TopoInv(s, left),
         s.pending # << >>, NEW t \in TopoState,
         t.pending = Tail(s.pending), t.yielded = s.yielded,
         t.degree = [s.degree EXCEPT ![Head(s.pending)] = @ - 1],
         s.degree[Head(s.pending)] = 1 => t.queue = InsertSorted(s.queue, Head(s.pending)),
         s.degree[Head(s.pending)] # 1 => t.queue = s.queue
  PROVE  TopoInv(t, Tail(left))
<1> DEFINE Y == s.yielded
           m == Head(s.pending)
           e1 == Head(left)
           rest == Tail(left)
           g == s.degree
           q == s.queue
           O(n) == OpenEdges(Y, left, n)
           U(n) == OpenEdges(Y, rest, n)
           l == Len(left)
<1>1. /\ q \in Seq(nodes) /\ s.pending \in Seq(nodes) /\ Y \in Seq(nodes)
      /\ g \in [nodes -> Int] /\ t.yielded = Y
  BY DEF TopoState
<1>2. /\ Distinct(Y) /\ Distinct(left) /\ l = Len(s.pending)
      /\ \A i \in 1 .. l : s.pending[i] = edges[left[i]].target
      /\ \A e \in ToSet(left) : edges[e].source \in ToSet(Y)
      /\ \A n \in nodes : g[n] = Cardinality(O(n))
      /\ \A n \in ToSet(Y) : O(n) = {}
      /\ Ascends(q) /\ ToSet(q) = { n \in nodes \ ToSet(Y) : g[n] = 0 }
      /\ \A i \in DOMAIN Y : NextReady(Y, i)
  BY DEF TopoInv
<1>3. /\ Len(s.pending) \in Nat /\ Len(s.pending) > 0 /\ Len(t.pending) = Len(s.pending) - 1
      /\ m = s.pending[1] /\ m \in nodes
      /\ \A i \in 1 .. (Len(s.pending) - 1) : t.pending[i] = s.pending[i + 1]
  BY <1>1, TailFacts
<1>4. /\ left # << >> /\ l \in Nat /\ l > 0
      /\ rest \in Seq(DOMAIN edges) /\ Len(rest) = l - 1
      /\ (\A i \in 1 .. (l - 1) : rest[i] = left[i + 1])
      /\ e1 = left[1] /\ e1 \in DOMAIN edges
      /\ ToSet(left) = ToSet(rest) \cup {e1}
  <2>1. left # << >>
    BY <1>2, <1>3
  <2> QED BY <2>1, TailFacts, SetOfTail
<1>5. DOMAIN left = 1 .. l /\ DOMAIN rest = 1 .. (l - 1)
  BY <1>4
<1> HIDE DEF m, e1, rest, g, q, l
<1>6. Distinct(rest) /\ e1 \notin ToSet(rest)
  <2>1. Distinct(rest)
    <3> SUFFICES ASSUME NEW i \in 1 .. (l - 1), NEW j \in 1 .. (l - 1), rest[i] = rest[j] PROVE i = j
      BY <1>5 DEF Distinct
    <3>1. i + 1 \in 1 .. l /\ j + 1 \in 1 .. l /\ left[i + 1] = left[j + 1]
      BY <1>4
    <3>2. i + 1 = j + 1
      BY <3>1, <1>2, <1>5 DEF Distinct
    <3> QED BY <3>2
  <2>2. ASSUME e1 \in ToSet(rest) PROVE FALSE
    <3>1. PICK i \in 1 .. (l - 1) : rest[i] = e1
      BY <2>2, <1>5 DEF ToSet
    <3>2. i + 1 \in 1 .. l /\ 1 \in 1 .. l /\ left[i + 1] = left[1] /\ i + 1 # 1
      BY <3>1, <1>4
    <3> QED BY <3>2, <1>2, <1>5 DEF Distinct
  <2> QED BY <2>1, <2>2
<1>7. edges[e1].target = m /\ edges[e1].source \in ToSet(Y) /\ e1 \in ToSet(left)
  <2>1. 1 \in 1 .. l
    BY <1>4
  <2> QED BY <2>1, <1>2, <1>3, <1>4
<1>8. \A n : U(n) = O(n) \ {e1} /\ (e1 \in O(n) <=> n = m)
  BY <1>4, <1>6, <1>7 DEF OpenEdges
<1>9. \A n : IsFiniteSet(O(n)) /\ Cardinality(O(n)) \in Nat
  <2> SUFFICES ASSUME NEW n PROVE IsFiniteSet(O(n)) /\ Cardinality(O(n)) \in Nat
    OBVIOUS
  <2>1. O(n) \subseteq DOMAIN edges /\ IsFiniteSet(DOMAIN edges)
    BY SettledGraph DEF OpenEdges
  <2> QED BY <2>1, FS_Subset, FS_CardinalityType
<1> HIDE DEF O, U
<1>10. /\ Cardinality(U(m)) = g[m] - 1 /\ g[m] \in Nat
       /\ \A n \in nodes : n # m => U(n) = O(n)
  <2>1. Cardinality(O(m) \ {e1}) = Cardinality(O(m)) - 1
    BY <1>8, <1>9, FS_RemoveElement
  <2>2. Cardinality(U(m)) = Cardinality(O(m)) - 1
    BY <2>1, <1>8
  <2>3. g[m] = Cardinality(O(m)) /\ Cardinality(O(m)) \in Nat
    BY <1>2, <1>3, <1>9
  <2>4. \A n \in nodes : n # m => U(n) = O(n)
    BY <1>8
  <2> QED BY <2>2, <2>3, <2>4
<1>11. m \notin ToSet(Y)
  BY <1>2, <1>8
<1>12. /\ t.degree[m] = g[m] - 1
       /\ \A n \in nodes : n # m => t.degree[n] = g[n]
  BY <1>1, <1>3 DEF g, m
<1>13. \A n \in nodes : t.degree[n] = Cardinality(U(n))
  BY <1>2, <1>10, <1>12
<1>14. \A n \in ToSet(Y) : U(n) = {}
  BY <1>2, <1>8
<1>15. Ascends(t.queue) /\ ToSet(t.queue) = { n \in nodes \ ToSet(Y) : t.degree[n] = 0 }
  <2>1. CASE g[m] = 1
    <3>1. t.queue = InsertSorted(q, m)
      BY <2>1 DEF g, m, q
    <3>2. m \notin ToSet(q) /\ nodes \subseteq Nat
      BY <2>1, <1>2, SettledGraph
    <3>3. Ascends(t.queue) /\ ToSet(t.queue) = ToSet(q) \cup {m}
      BY <3>1, <3>2, <1>1, <1>2, <1>3, InsertSortedKeeps DEF q
    <3>4. t.degree[m] = 0
      BY <2>1, <1>12
    <3> QED BY <3>3, <3>4, <1>2, <1>3, <1>11, <1>12
  <2>2. CASE g[m] # 1
    <3>1. t.queue = q
      BY <2>2 DEF g, m, q
    <3>2. g[m] # 0
      <4>1. O(m) # {}
        BY <1>8
      <4>2. Cardinality(O(m)) # 0
        BY <4>1, <1>9, FS_EmptySet
      <4> QED BY <4>2, <1>2, <1>3
    <3>3. t.degree[m] # 0
      BY <2>2, <1>10, <1>12
    <3> QED BY <3>1, <3>2, <3>3, <1>2, <1>12
  <2> QED BY <2>1, <2>2
<1>16. \A i \in 1 .. Len(rest) : t.pending[i] = edges[rest[i]].target
  <2> SUFFICES ASSUME NEW i \in 1 .. (l - 1) PROVE t.pending[i] = edges[rest[i]].target
    BY <1>4
  <2>1. i + 1 \in 1 .. l
    BY <1>4
  <2> QED BY <2>1, <1>2, <1>3, <1>4
<1>17. Len(rest) = Len(t.pending) /\ \A e \in ToSet(rest) : edges[e].source \in ToSet(Y)
  BY <1>2, <1>3, <1>4
<1> QED BY <1>1, <1>2, <1>6, <1>13, <1>14, <1>15, <1>16, <1>17 DEF TopoInv, U, rest

LEMMA TopoYield ==
  ASSUME Settled, NEW s \in TopoState, NEW left \in Seq(DOMAIN edges), TopoInv(s, left),
         s.pending = << >>, s.queue # << >>, NEW t \in TopoState,
         t.pending = sortedNeighborsDirected(Head(s.queue), "Outgoing"), t.degree = s.degree,
         t.yielded = Append(s.yielded, Head(s.queue)), t.queue = Tail(s.queue)
  PROVE  \E known \in Seq(DOMAIN edges) : TopoInv(t, known)
<1> DEFINE Y == s.yielded
           Z == t.yielded
           k == Len(Y)
           x == Head(s.queue)
           g == s.degree
           q == s.queue
<1>1. /\ q \in Seq(nodes) /\ Y \in Seq(nodes) /\ Z \in Seq(nodes) /\ g \in [nodes -> Int] /\ q # << >>
  BY DEF TopoState
<1>2. /\ Distinct(Y) /\ Len(left) = 0 /\ ToSet(left) = {}
      /\ \A n \in nodes : g[n] = Cardinality(OpenEdges(Y, left, n))
      /\ \A n \in ToSet(Y) : OpenEdges(Y, left, n) = {}
      /\ Ascends(q) /\ ToSet(q) = { n \in nodes \ ToSet(Y) : g[n] = 0 }
      /\ \A i \in DOMAIN Y : NextReady(Y, i)
  <2>1. Len(left) = Len(s.pending) /\ Len(s.pending) = 0
    BY DEF TopoInv
  <2>2. left = << >>
    BY <2>1
  <2> QED BY <2>1, <2>2 DEF TopoInv, ToSet
<1>3. /\ Len(q) \in Nat /\ Len(q) > 0 /\ Len(t.queue) = Len(q) - 1 /\ x = q[1] /\ x \in nodes
      /\ (\A i \in 1 .. (Len(q) - 1) : t.queue[i] = q[i + 1])
      /\ ToSet(q) = ToSet(t.queue) \cup {x}
  BY <1>1, TailFacts, SetOfTail
<1>4. "Outgoing" \in Direction
  BY DEF Direction
<1>5. PICK known \in Seq(DOMAIN edges) :
           /\ Len(known) = Len(sortedNeighborsDirected(x, "Outgoing"))
           /\ \A i, j \in 1 .. Len(known) : known[i] = known[j] => i = j
           /\ ToSet(known) = EdgesOf(x, "Outgoing")
           /\ \A i \in 1 .. Len(known) :
                sortedNeighborsDirected(x, "Outgoing")[i] = FarEnd(known[i], "Outgoing")
           /\ sortedNeighborsDirected(x, "Outgoing") \in Seq(nodes)
  BY <1>3, <1>4, NeighborsOfEdges
<1>6. /\ x \in ToSet(q) /\ x \notin ToSet(Y) /\ g[x] = 0
  BY <1>2, <1>3
<1>7. Z = Append(Y, x)
  OBVIOUS
<1> HIDE DEF Y, Z, k, x, g, q
<1>8. /\ Len(Z) = k + 1 /\ k \in Nat /\ Z[k + 1] = x /\ (\A i \in 1 .. k : Z[i] = Y[i])
      /\ ToSet(Z) = ToSet(Y) \cup {x} /\ DOMAIN Y = 1 .. k /\ DOMAIN Z = 1 .. (k + 1)
      /\ Distinct(Z)
  <2>1. /\ Len(Z) = k + 1 /\ k \in Nat /\ Z[k + 1] = x /\ (\A i \in 1 .. k : Z[i] = Y[i])
        /\ ToSet(Z) = ToSet(Y) \cup {x}
    BY <1>1, <1>3, <1>7, AppendFacts DEF k
  <2>2. Distinct(Z)
    BY <1>1, <1>2, <1>3, <1>6, <1>7, AppendDistinct
  <2>3. DOMAIN Y = 1 .. Len(Y) /\ DOMAIN Z = 1 .. Len(Z)
    BY <1>1
  <2> QED BY <2>1, <2>2, <2>3 DEF k
<1>9. ToSet(known) = { e \in DOMAIN edges : edges[e].source = x }
  BY <1>5 DEF EdgesOf, NearEnd
<1>10. \A n : OpenEdges(Z, known, n) = OpenEdges(Y, left, n)
  <2>1. \A e \in DOMAIN edges :
          (edges[e].source \notin ToSet(Z) \/ e \in ToSet(known))
            <=> (edges[e].source \notin ToSet(Y) \/ e \in ToSet(left))
    BY <1>2, <1>6, <1>8, <1>9
  <2> QED BY <2>1 DEF OpenEdges
<1>11. \A n \in ToSet(Z) : OpenEdges(Z, known, n) = {}
  <2>1. IsFiniteSet(OpenEdges(Y, left, x))
    <3>1. OpenEdges(Y, left, x) \subseteq DOMAIN edges /\ IsFiniteSet(DOMAIN edges)
      BY SettledGraph DEF OpenEdges
    <3> QED BY <3>1, FS_Subset
  <2>2. OpenEdges(Y, left, x) = {}
    BY <2>1, <1>2, <1>3, <1>6, FS_EmptySet
  <2> QED BY <2>2, <1>2, <1>8, <1>10
<1>12. Distinct(q) /\ x \notin ToSet(t.queue) /\ Ascends(t.queue)
  <2>0. \A i \in 1 .. Len(q) : q[i] \in Nat
    <3>1. nodes \subseteq Nat
      BY SettledGraph
    <3> QED BY <3>1, <1>1, InSet
  <2>1. DOMAIN q = 1 .. Len(q) /\ \A i, j \in 1 .. Len(q) : i < j => q[i] < q[j]
    BY <1>1, <1>2 DEF Ascends
  <2>2. DOMAIN t.queue = 1 .. (Len(q) - 1)
    <3>1. t.queue \in Seq(nodes)
      BY DEF TopoState
    <3> QED BY <3>1, <1>3
  <2>3. Ascends(t.queue)
    <3> SUFFICES ASSUME NEW i \in 1 .. (Len(q) - 1), NEW j \in 1 .. (Len(q) - 1), i < j
                 PROVE  t.queue[i] < t.queue[j]
      BY <2>2 DEF Ascends
    <3>1. i + 1 \in 1 .. Len(q) /\ j + 1 \in 1 .. Len(q) /\ i + 1 < j + 1
      BY <1>3
    <3> QED BY <3>1, <2>1, <1>3
  <2>4. ASSUME x \in ToSet(t.queue) PROVE FALSE
    <3>1. PICK i \in 1 .. (Len(q) - 1) : t.queue[i] = x
      BY <2>2, <2>4 DEF ToSet
    <3>2. i + 1 \in 1 .. Len(q) /\ 1 \in 1 .. Len(q) /\ 1 < i + 1
      BY <1>3
    <3>3. q[1] < q[i + 1] /\ q[i + 1] = q[1]
      BY <3>1, <3>2, <2>1, <1>3
    <3> QED BY <3>2, <3>3, <2>0
  <2>5. Distinct(q)
    <3> SUFFICES ASSUME NEW i \in 1 .. Len(q), NEW j \in 1 .. Len(q), q[i] = q[j] PROVE i = j
      BY <2>1 DEF Distinct
    <3>1. ~ (i < j) /\ ~ (j < i)
      BY <2>0, <2>1
    <3> QED BY <3>1, <1>3
  <2> QED BY <2>3, <2>4, <2>5
<1>13. ToSet(t.queue) = { n \in nodes \ ToSet(Z) : g[n] = 0 }
  BY <1>2, <1>3, <1>8, <1>12
<1>14. ToSet(q) = Ready(ToSet(Y))
  <2>1. \A n \in nodes \ ToSet(Y) : n \in ToSet(q) <=> n \in Ready(ToSet(Y))
    <3> SUFFICES ASSUME NEW n \in nodes \ ToSet(Y) PROVE n \in ToSet(q) <=> n \in Ready(ToSet(Y))
      OBVIOUS
    <3>1. Cardinality(OpenEdges(Y, left, n)) = 0 <=> n \in Ready(ToSet(Y))
      BY <1>2, ReadyOfDegree
    <3> QED BY <3>1, <1>2
  <2> QED BY <2>1, <1>2 DEF Ready
<1>15. NextReady(Z, k + 1)
  <2>1. Before(Z, k + 1) = ToSet(Y)
    <3>1. (k + 1) - 1 = k
      BY <1>8
    <3>2. Before(Z, k + 1) = { Y[j] : j \in 1 .. k }
      BY <3>1, <1>8 DEF Before
    <3> QED BY <3>2, <1>8 DEF ToSet
  <2>2. ASSUME NEW r \in ToSet(q) PROVE x <= r
    <3>1. PICK i \in 1 .. Len(q) : q[i] = r
      BY <1>1, InSet
    <3>2. q[i] \in Nat /\ x \in Nat
      <4>1. nodes \subseteq Nat
        BY SettledGraph
      <4> QED BY <4>1, <1>1, <1>3, InSet
    <3>3. i = 1 \/ q[1] < q[i]
      <4>1. DOMAIN q = 1 .. Len(q) /\ 1 \in 1 .. Len(q)
        BY <1>1, <1>3
      <4> QED BY <4>1, <1>2, <1>3 DEF Ascends
    <3> QED BY <3>1, <3>2, <3>3, <1>3
  <2> QED BY <2>1, <2>2, <1>6, <1>8, <1>14 DEF NextReady
<1>16. \A i \in DOMAIN Z : NextReady(Z, i)
  <2> SUFFICES ASSUME NEW i \in 1 .. (k + 1) PROVE NextReady(Z, i)
    BY <1>8
  <2>1. CASE i = k + 1  BY <2>1, <1>15
  <2>2. CASE i # k + 1
    <3>1. i \in 1 .. Len(Y) /\ NextReady(Y, i)
      BY <2>2, <1>2, <1>8 DEF k
    <3> QED BY <3>1, <1>1, <1>3, <1>7, ReadyOfPrefix
  <2> QED BY <2>1, <2>2
<1>17. \A i \in 1 .. Len(known) : t.pending[i] = edges[known[i]].target
  BY <1>5 DEF FarEnd, x
<1>18. /\ Distinct(known) /\ Len(known) = Len(t.pending)
       /\ \A e \in ToSet(known) : edges[e].source \in ToSet(Z)
  <2>1. DOMAIN known = 1 .. Len(known)
    BY <1>5
  <2> QED BY <2>1, <1>5, <1>8, <1>9 DEF Distinct, x
<1>19. \A n \in nodes : g[n] = Cardinality(OpenEdges(Z, known, n))
  BY <1>2, <1>10
<1>20. TopoInv(t, known)
  BY <1>8, <1>11, <1>12, <1>13, <1>16, <1>17, <1>18, <1>19 DEF TopoInv, Z, g
<1> QED BY <1>5, <1>20

TopoGood(s) == \E left \in Seq(DOMAIN edges) : TopoInv(s, left)

LEMMA TopoStarts ==
  ASSUME Settled
  PROVE  LET degree == [n \in nodes |-> InDegree(n)]
             s0 == [queue |-> KeysIn({ n \in nodes : degree[n] = 0 }), degree |-> degree,
                    pending |-> << >>, yielded |-> << >>]
         IN  s0 \in TopoState /\ TopoInv(s0, << >>)
<1> DEFINE degree == [n \in nodes |-> InDegree(n)]
           Z  == { n \in nodes : degree[n] = 0 }
           s0 == [queue |-> KeysIn(Z), degree |-> degree, pending |-> << >>, yielded |-> << >>]
<1>1. /\ KeysIn(Z) \in Seq(nodes) /\ ToSet(KeysIn(Z)) = Z /\ Ascends(KeysIn(Z))
  <2>1. Z \in SUBSET nodes /\ nodes \subseteq Nat /\ IsFiniteSet(nodes)
    BY SettledGraph
  <2> HIDE DEF Z
  <2> QED BY <2>1, KeysAscend DEF Ascends
<1>2. ASSUME NEW n \in nodes
      PROVE  degree[n] \in Nat /\ degree[n] = Cardinality(OpenEdges(<< >>, << >>, n))
  <2>1. degree[n] = Len(reverseAdjacency[n])
    BY DEF InDegree
  <2>2. "Incoming" \in Direction
    BY DEF Direction
  <2>3. AdjList(n, "Incoming") \in Seq(Nat) /\ Lists(AdjList(n, "Incoming"), EdgesOf(n, "Incoming"))
    BY <2>2, SettledGraph
  <2>4. AdjList(n, "Incoming") = reverseAdjacency[n]
    BY DEF AdjList
  <2> DEFINE list == reverseAdjacency[n]
  <2>5. /\ list \in Seq(Nat) /\ ToSet(list) = EdgesOf(n, "Incoming")
        /\ \A i, j \in DOMAIN list : i < j => list[i] < list[j]
    BY <2>3, <2>4 DEF Lists
  <2> HIDE DEF list
  <2>6. Distinct(list)
    <3>1. DOMAIN list = 1 .. Len(list) /\ Len(list) \in Nat /\ \A i \in DOMAIN list : list[i] \in Nat
      BY <2>5
    <3> SUFFICES ASSUME NEW i \in DOMAIN list, NEW j \in DOMAIN list, list[i] = list[j] PROVE i = j
      BY DEF Distinct
    <3>2. ~ (i < j) /\ ~ (j < i)
      BY <2>5, <3>1
    <3> QED BY <3>1, <3>2
  <2>7. Cardinality(ToSet(list)) = Len(list)
    BY <2>5, <2>6, DistinctCounted
  <2>8. OpenEdges(<< >>, << >>, n) = EdgesOf(n, "Incoming")
    BY DEF OpenEdges, EdgesOf, NearEnd, ToSet
  <2>9. Len(list) \in Nat
    BY <2>5
  <2> HIDE DEF degree
  <2> QED BY <2>1, <2>5, <2>7, <2>8, <2>9 DEF list
<1>3. degree \in [nodes -> Int]
  <2>1. \A n \in nodes : InDegree(n) \in Nat
    BY <1>2
  <2> QED BY <2>1
<1>4. \A n \in Z : n \in nodes /\ degree[n] = 0
  OBVIOUS
<1>5. \A n \in nodes : degree[n] = 0 => n \in Z
  OBVIOUS
<1> HIDE DEF degree, Z
<1>6. /\ s0.queue = KeysIn(Z) /\ s0.degree = degree /\ s0.pending = << >> /\ s0.yielded = << >>
      /\ s0 \in TopoState
  BY <1>1, <1>3 DEF TopoState
<1> HIDE DEF s0
<1>7. /\ ToSet(<< >>) = {} /\ Distinct(<< >>) /\ Len(<< >>) = 0 /\ DOMAIN << >> = {}
  BY DEF ToSet, Distinct
<1>8. ToSet(s0.queue) = { n \in nodes \ ToSet(<< >>) : s0.degree[n] = 0 }
  BY <1>1, <1>4, <1>5, <1>6, <1>7
<1>9. \A n \in nodes : s0.degree[n] = Cardinality(OpenEdges(<< >>, << >>, n))
  BY <1>2, <1>6
<1>10. TopoInv(s0, << >>)
  BY <1>1, <1>6, <1>7, <1>8, <1>9 DEF TopoInv
<1> QED BY <1>6, <1>10 DEF s0, degree, Z

LEMMA TopoEnds ==
  ASSUME Settled
  PROVE  \E e \in TopoState : /\ TopoGood(e) /\ e.pending = << >> /\ e.queue = << >>
                              /\ e.yielded = Topo
<1> DEFINE step  == TopoStep
           I     == { s \in TopoState : TopoGood(s) }
           Done  == { s \in I : s.pending = << >> /\ s.queue = << >> }
           outer == [s \in I |-> Cardinality(nodes \ ToSet(s.yielded))]
           inner == [s \in I |-> Len(s.pending)]
           degree == [n \in nodes |-> InDegree(n)]
           s0    == [queue |-> KeysIn({ n \in nodes : degree[n] = 0 }), degree |-> degree,
                     pending |-> << >>, yielded |-> << >>]
<1>1. step \in [TopoState -> TopoState]
  <2>1. \A s \in TopoState : step[s] \in TopoState
    BY TopoCases
  <2>2. step = [s \in TopoState |-> step[s]]
    BY DEF TopoStep
  <2> HIDE DEF step
  <2> QED BY <2>1, <2>2
<1>2. ASSUME NEW s \in TopoState
      PROVE  /\ s.queue \in Seq(nodes) /\ s.pending \in Seq(nodes) /\ s.yielded \in Seq(nodes)
             /\ Len(s.pending) \in Nat /\ ToSet(s.yielded) \in SUBSET nodes
  <2>1. s.queue \in Seq(nodes) /\ s.pending \in Seq(nodes) /\ s.yielded \in Seq(nodes)
    BY DEF TopoState
  <2>2. Len(s.pending) \in Nat
    BY <2>1
  <2> QED BY <2>1, <2>2, InSet
<1>3. outer \in [I -> Nat] /\ inner \in [I -> Nat]
  <2>1. \A s \in I : Cardinality(nodes \ ToSet(s.yielded)) \in Nat
    BY SettledGraph
  <2>2. \A s \in I : Len(s.pending) \in Nat
    BY <1>2
  <2> QED BY <2>1, <2>2
<1>4. s0 \in I
  <2>1. s0 \in TopoState /\ TopoInv(s0, << >>)
    BY TopoStarts
  <2>2. << >> \in Seq(DOMAIN edges)
    OBVIOUS
  <2> HIDE DEF s0
  <2>3. TopoGood(s0)
    BY <2>1, <2>2 DEF TopoGood
  <2> QED BY <2>1, <2>3
<1>5. ASSUME NEW s \in I \ Done
      PROVE  /\ step[s] \in I
             /\ \/ outer[step[s]] < outer[s]
                \/ outer[step[s]] = outer[s] /\ inner[step[s]] < inner[s]
  <2> DEFINE t == step[s]
             m == Head(s.pending)
             x == Head(s.queue)
  <2>0. s \in TopoState /\ TopoGood(s) /\ ~ (s.pending = << >> /\ s.queue = << >>)
    BY <1>5
  <2>a. PICK left \in Seq(DOMAIN edges) : TopoInv(s, left)
    BY <2>0 DEF TopoGood
  <2>1. /\ t \in TopoState
        /\ s.pending # << >> =>
             /\ t.pending = Tail(s.pending) /\ t.yielded = s.yielded
             /\ t.degree = [s.degree EXCEPT ![m] = @ - 1]
             /\ s.degree[m] = 1 => t.queue = InsertSorted(s.queue, m)
             /\ s.degree[m] # 1 => t.queue = s.queue
        /\ s.pending = << >> /\ s.queue # << >> =>
             /\ t.pending = sortedNeighborsDirected(x, "Outgoing") /\ t.degree = s.degree
             /\ t.yielded = Append(s.yielded, x) /\ t.queue = Tail(s.queue)
    BY <2>0, TopoCases
  <2> HIDE DEF t, x, m, step
  <2>2. /\ s.queue \in Seq(nodes) /\ s.pending \in Seq(nodes) /\ s.yielded \in Seq(nodes)
        /\ Len(s.pending) \in Nat /\ ToSet(s.yielded) \in SUBSET nodes
        /\ Len(t.pending) \in Nat
    BY <2>0, <2>1, <1>2
  <2>3. TopoGood(t) =>
          /\ t \in I /\ outer[t] = Cardinality(nodes \ ToSet(t.yielded))
          /\ inner[t] = Len(t.pending)
    BY <2>1
  <2>4. outer[s] = Cardinality(nodes \ ToSet(s.yielded)) /\ inner[s] = Len(s.pending)
    BY <1>5
  <2> SUFFICES t \in I /\ (outer[t] < outer[s] \/ (outer[t] = outer[s] /\ inner[t] < inner[s]))
    BY DEF t
  <2> HIDE DEF outer, inner, I
  <2>5. CASE s.pending # << >>
    <3>1. TopoInv(t, Tail(left))
      BY <2>0, <2>a, <2>1, <2>5, TopoRelease DEF m
    <3>2. Tail(left) \in Seq(DOMAIN edges)
      <4>1. Len(left) = Len(s.pending)
        BY <2>a DEF TopoInv
      <4>2. Len(s.pending) > 0
        BY <2>5, <2>2, TailFacts
      <4>3. left # << >>
        BY <4>1, <4>2
      <4> QED BY <4>3, TailFacts
    <3>3. TopoGood(t)
      BY <3>1, <3>2 DEF TopoGood
    <3>4. Len(t.pending) = Len(s.pending) - 1
      BY <2>1, <2>5, <2>2, TailFacts
    <3>5. Len(t.pending) < Len(s.pending)
      BY <3>4, <2>2
    <3> QED BY <3>3, <3>5, <2>1, <2>3, <2>4, <2>5
  <2>6. CASE s.pending = << >> /\ s.queue # << >>
    <3>1. TopoGood(t)
      BY <2>0, <2>a, <2>1, <2>6, TopoYield DEF x, TopoGood
    <3>2. x \in nodes /\ x \in ToSet(s.queue)
      BY <2>6, <2>2, TailFacts, SetOfTail DEF x
    <3>3. x \notin ToSet(s.yielded)
      BY <2>a, <3>2 DEF TopoInv
    <3>4. ToSet(t.yielded) = ToSet(s.yielded) \cup {x}
      <4>1. t.yielded = Append(s.yielded, x)
        BY <2>1, <2>6
      <4> QED BY <4>1, <3>2, <2>2, AppendFacts
    <3>5. Cardinality(nodes \ ToSet(t.yielded)) < Cardinality(nodes \ ToSet(s.yielded))
      BY <3>2, <3>3, <3>4, <2>2, FewerLeft
    <3> QED BY <3>1, <3>5, <2>3, <2>4
  <2> QED BY <2>0, <2>5, <2>6
<1>6. \A s \in Done : step[s] = s
  BY TopoCases
<1> DEFINE e == Repeat(step, s0)
<1>7. e \in Done
  <2>1. ComesToRest(TopoState, step, I, Done, outer, inner)
    <3>1. I \in SUBSET TopoState /\ Done \in SUBSET I
      OBVIOUS
    <3> HIDE DEF step, outer, inner, I, s0, Done
    <3> QED BY <3>1, <1>1, <1>3, <1>5, <1>6 DEF ComesToRest
  <2> HIDE DEF step, outer, inner, I, s0, Done
  <2> QED BY <2>1, <1>4, RepeatFinishes
<1>8. e.yielded = Topo
  BY DEF Topo
<1> HIDE DEF e, step
<1> QED BY <1>7, <1>8

(***************************************************************************)
(* No node that has been yielded is on a cycle: the nodes that have not    *)
(* been yielded up to it lead only to one another.                         *)
(***************************************************************************)
LEMMA YieldedOffCycles ==
  ASSUME Settled, NEW Y \in Seq(nodes), Distinct(Y), \A i \in DOMAIN Y : NextReady(Y, i),
         NEW i \in DOMAIN Y
  PROVE  ~ OnCycle(Y[i])
<1> DEFINE done == { Y[j] : j \in 1 .. i }
           N == nodes \ done
<1>1. Len(Y) \in Nat /\ DOMAIN Y = 1 .. Len(Y) /\ i \in Nat /\ Y[i] \in nodes
  OBVIOUS
<1>2. ASSUME NEW m \in nodes, NEW x \in Successors(m, "Outgoing"), x \in done
      PROVE  m \in done /\ m # Y[i]
  <2>1. PICK j \in 1 .. i : Y[j] = x
    BY <1>2
  <2>2. j \in DOMAIN Y
    BY <1>1
  <2>3. m \in Successors(x, "Incoming")
    BY DEF Successors, FarEnd
  <2>4. m \in Before(Y, j)
    BY <2>1, <2>2, <2>3 DEF NextReady, Ready
  <2>5. PICK l \in 1 .. (j - 1) : Y[l] = m
    BY <2>4 DEF Before
  <2>6. l \in 1 .. i /\ l \in DOMAIN Y /\ l # i
    BY <1>1, <2>5
  <2> QED BY <2>5, <2>6 DEF Distinct
<1>3. Closed(N, "Outgoing") /\ Successors(Y[i], "Outgoing") \subseteq N
  <2>1. \A m : Successors(m, "Outgoing") \subseteq nodes
    BY NeighborsAreSuccessors DEF Direction
  <2> HIDE DEF done
  <2> QED BY <2>1, <1>1, <1>2 DEF Closed
<1>4. Reached(Successors(Y[i], "Outgoing"), "Outgoing") \subseteq N
  <2> HIDE DEF done
  <2> QED BY <1>3, ReachedIsLeast
<1>5. Y[i] \in done
  BY <1>1
<1> QED BY <1>4, <1>5 DEF OnCycle

LEMMA TopologicalSort ==
  ASSUME Settled
  PROVE  /\ Topo \in Seq(nodes) /\ Distinct(Topo)
         /\ \A i \in DOMAIN Topo : NextReady(Topo, i)
         /\ Ready(ToSet(Topo)) = {}
         /\ \A n \in ToSet(Topo) : ~ OnCycle(n)
<1>1. PICK e \in TopoState : /\ TopoGood(e) /\ e.pending = << >> /\ e.queue = << >>
                             /\ e.yielded = Topo
  BY TopoEnds
<1>2. PICK left \in Seq(DOMAIN edges) : TopoInv(e, left)
  BY <1>1 DEF TopoGood
<1>3. Topo \in Seq(nodes)
  BY <1>1 DEF TopoState
<1>4. /\ Distinct(Topo) /\ Len(left) = 0
      /\ \A m \in nodes : e.degree[m] = Cardinality(OpenEdges(Topo, left, m))
      /\ { m \in nodes \ ToSet(Topo) : e.degree[m] = 0 } = {}
      /\ \A i \in DOMAIN Topo : NextReady(Topo, i)
  <2>1. Len(e.pending) = 0 /\ ToSet(e.queue) = {}
    BY <1>1 DEF ToSet
  <2> QED BY <1>1, <1>2, <2>1 DEF TopoInv
<1>5. ToSet(left) = {}
  <2>1. left = << >>
    BY <1>4
  <2> QED BY <2>1 DEF ToSet
<1>6. Ready(ToSet(Topo)) = {}
  <2> SUFFICES ASSUME NEW m \in Ready(ToSet(Topo)) PROVE FALSE
    OBVIOUS
  <2>1. m \in nodes \ ToSet(Topo)
    BY DEF Ready
  <2>2. Cardinality(OpenEdges(Topo, left, m)) = 0
    BY <2>1, <1>5, ReadyOfDegree
  <2> QED BY <2>1, <2>2, <1>4
<1>7. \A n \in ToSet(Topo) : ~ OnCycle(n)
  <2> SUFFICES ASSUME NEW n \in ToSet(Topo) PROVE ~ OnCycle(n)
    OBVIOUS
  <2>1. PICK i \in DOMAIN Topo : Topo[i] = n
    BY DEF ToSet
  <2> QED BY <2>1, <1>3, <1>4, YieldedOffCycles
<1> QED BY <1>3, <1>4, <1>6, <1>7

-----------------------------------------------------------------------------
(***************************************************************************)
(* The search for a cycle.  The stack is a path: a node on it leads to     *)
(* every node above, and its neighbors so far are off the search, or the   *)
(* one right above.  A node is off once it has been left.                  *)
(***************************************************************************)
Frame == [node : nodes, neighborIdx : Nat]

Ahead(n)  == sortedNeighborsDirected(n, "Outgoing")
Beyond(n) == Reached(Successors(n, "Outgoing"), "Outgoing")

Behind(stack, j, off) ==
  \A p \in 1 .. Len(Ahead(stack[j].node)) : p < stack[j].neighborIdx =>
    \/ Ahead(stack[j].node)[p] \in off
    \/ j > 1 /\ Ahead(stack[j].node)[p] = stack[j - 1].node

Path(stack, open, off) ==
  /\ \A i, j \in DOMAIN stack : stack[i].node = stack[j].node => i = j
  /\ \A n : n \in open <=> \E i \in DOMAIN stack : stack[i].node = n
  /\ \A i, j \in DOMAIN stack : i < j => stack[i].node \in Beyond(stack[j].node)
  /\ \A j \in DOMAIN stack :
       /\ 1 <= stack[j].neighborIdx /\ stack[j].neighborIdx <= Len(Ahead(stack[j].node)) + 1
       /\ Behind(stack, j, off)

LEMMA BeyondFacts ==
  ASSUME Settled, NEW n \in nodes
  PROVE  /\ Ahead(n) \in Seq(nodes) /\ Len(Ahead(n)) \in Nat
         /\ DOMAIN Ahead(n) = 1 .. Len(Ahead(n))
         /\ ToSet(Ahead(n)) = Successors(n, "Outgoing")
         /\ \A p \in 1 .. Len(Ahead(n)) : Ahead(n)[p] \in nodes /\ Ahead(n)[p] \in Beyond(n)
         /\ \A m \in Beyond(n) : m \in nodes /\ Successors(m, "Outgoing") \subseteq Beyond(n)
         /\ \A m \in Beyond(n) : \A p \in 1 .. Len(Ahead(m)) : Ahead(m)[p] \in Beyond(n)
<1>1. "Outgoing" \in Direction
  BY DEF Direction
<1>2. /\ \A m \in nodes : Ahead(m) \in Seq(nodes) /\ ToSet(Ahead(m)) = Successors(m, "Outgoing")
      /\ \A m : Successors(m, "Outgoing") \subseteq nodes
  BY <1>1, NeighborsAreSuccessors DEF Ahead
<1>3. /\ Beyond(n) \subseteq nodes /\ Successors(n, "Outgoing") \subseteq Beyond(n)
      /\ \A m \in Beyond(n) : Successors(m, "Outgoing") \subseteq Beyond(n)
  BY <1>1, <1>2, ReachedIsClosed DEF Beyond, Closed
<1>4. \A m \in nodes : /\ Len(Ahead(m)) \in Nat /\ DOMAIN Ahead(m) = 1 .. Len(Ahead(m))
                       /\ \A p \in 1 .. Len(Ahead(m)) : /\ Ahead(m)[p] \in nodes
                                                        /\ Ahead(m)[p] \in Successors(m, "Outgoing")
  <2> SUFFICES ASSUME NEW m \in nodes
               PROVE  /\ Len(Ahead(m)) \in Nat /\ DOMAIN Ahead(m) = 1 .. Len(Ahead(m))
                      /\ \A p \in 1 .. Len(Ahead(m)) : /\ Ahead(m)[p] \in nodes
                                                       /\ Ahead(m)[p] \in Successors(m, "Outgoing")
    OBVIOUS
  <2>1. Ahead(m) \in Seq(nodes)
    BY <1>2
  <2>2. /\ Len(Ahead(m)) \in Nat /\ DOMAIN Ahead(m) = 1 .. Len(Ahead(m))
        /\ \A p \in 1 .. Len(Ahead(m)) : Ahead(m)[p] \in nodes /\ Ahead(m)[p] \in ToSet(Ahead(m))
    BY <2>1, InSet
  <2> QED BY <2>2, <1>2
<1>5. \A m \in Beyond(n) : m \in nodes
  BY <1>3
<1>6. \A p \in 1 .. Len(Ahead(n)) : Ahead(n)[p] \in nodes /\ Ahead(n)[p] \in Beyond(n)
  BY <1>3, <1>4
<1>7. \A m \in Beyond(n) : \A p \in 1 .. Len(Ahead(m)) : Ahead(m)[p] \in Beyond(n)
  BY <1>3, <1>4, <1>5
<1> QED BY <1>2, <1>3, <1>4, <1>5, <1>6, <1>7

\* A node joins the path on top: as its first, or as the next neighbor of the
\* node that was on top.
LEMMA PathGrows ==
  ASSUME Settled, NEW stack \in Seq(Frame), NEW t \in Seq(Frame), NEW open, NEW off,
         Path(stack, open, off), NEW n \in nodes, n \notin open,
         Len(t) = Len(stack) + 1,
         t[1].node = n, t[1].neighborIdx = 1,
         \A i \in 1 .. Len(stack) : t[i + 1].node = stack[i].node,
         \A i \in 2 .. Len(stack) : t[i + 1].neighborIdx = stack[i].neighborIdx,
         stack # << >> => /\ stack[1].neighborIdx <= Len(Ahead(stack[1].node))
                          /\ Ahead(stack[1].node)[stack[1].neighborIdx] = n
                          /\ t[2].neighborIdx = stack[1].neighborIdx + 1
  PROVE  Path(t, open \cup {n}, off)
<1> DEFINE k == Len(stack)
<1>1. /\ k \in Nat /\ DOMAIN stack = 1 .. k /\ DOMAIN t = 1 .. (k + 1)
      /\ \A i \in 1 .. k : stack[i].node \in nodes /\ stack[i].neighborIdx \in Nat
  <2>1. k \in Nat /\ DOMAIN stack = 1 .. k /\ DOMAIN t = 1 .. (k + 1) /\ \A i \in 1 .. k : stack[i] \in Frame
    OBVIOUS
  <2>2. \A f \in Frame : f.node \in nodes /\ f.neighborIdx \in Nat
    BY DEF Frame
  <2> QED BY <2>1, <2>2
<1>2. \A j \in 1 .. (k + 1) : j = 1 \/ \E i \in 1 .. k : j = i + 1
  <2> SUFFICES ASSUME NEW j \in 1 .. (k + 1), j # 1 PROVE \E i \in 1 .. k : j = i + 1
    OBVIOUS
  <2>1. j - 1 \in 1 .. k /\ j = (j - 1) + 1
    BY <1>1
  <2> QED BY <2>1
<1>3. \A i \in 1 .. k : i + 1 \in 1 .. (k + 1)
  BY <1>1
<1>4. \A i \in 1 .. k : i = 1 \/ i \in 2 .. k
  BY <1>1
<1>5. k > 0 => stack # << >> /\ 1 \in 1 .. k
  BY <1>1
<1>6. /\ \A i, j \in 1 .. k : stack[i].node = stack[j].node => i = j
      /\ \A m : m \in open <=> \E i \in 1 .. k : stack[i].node = m
      /\ \A i, j \in 1 .. k : i < j => stack[i].node \in Beyond(stack[j].node)
      /\ \A j \in 1 .. k : 1 <= stack[j].neighborIdx /\ stack[j].neighborIdx <= Len(Ahead(stack[j].node)) + 1
      /\ \A j \in 1 .. k : Behind(stack, j, off)
  BY <1>1 DEF Path
<1>7. \A i \in 1 .. k : t[i + 1].node = stack[i].node
  OBVIOUS
<1>8. \A m \in nodes : Len(Ahead(m)) \in Nat
  BY BeyondFacts
<1> HIDE DEF k
<1>9. ASSUME NEW i \in DOMAIN t, NEW j \in DOMAIN t, t[i].node = t[j].node PROVE i = j
  <2>1. ASSUME NEW h \in 1 .. k PROVE t[h + 1].node # n
    BY <1>6, <1>7
  <2>2. CASE i = 1 \/ j = 1
    BY <2>1, <2>2, <1>1, <1>2, <1>9
  <2>3. CASE i # 1 /\ j # 1
    <3>1. PICK a \in 1 .. k : i = a + 1
      BY <2>3, <1>1, <1>2
    <3>2. PICK b \in 1 .. k : j = b + 1
      BY <2>3, <1>1, <1>2
    <3>3. a = b
      BY <3>1, <3>2, <1>6, <1>7, <1>9
    <3> QED BY <3>1, <3>2, <3>3
  <2> QED BY <2>2, <2>3
<1>10. ASSUME NEW m PROVE m \in open \cup {n} <=> \E i \in DOMAIN t : t[i].node = m
  <2>1. 1 \in 1 .. (k + 1)
    BY <1>1
  <2>2. ASSUME m \in open PROVE \E i \in 1 .. (k + 1) : t[i].node = m
    <3>1. PICK h \in 1 .. k : stack[h].node = m
      BY <2>2, <1>6
    <3> QED BY <3>1, <1>3, <1>7
  <2>3. ASSUME NEW i \in 1 .. (k + 1), t[i].node = m PROVE m \in open \cup {n}
    <3>1. CASE i = 1  BY <2>3, <3>1
    <3>2. CASE i # 1
      <4>1. PICK h \in 1 .. k : i = h + 1
        BY <3>2, <1>2
      <4>2. stack[h].node = m
        BY <4>1, <2>3, <1>7
      <4> QED BY <4>2, <1>6
    <3> QED BY <3>1, <3>2
  <2> QED BY <2>1, <2>2, <2>3, <1>1
<1>11. ASSUME NEW i \in DOMAIN t, NEW j \in DOMAIN t, i < j PROVE t[i].node \in Beyond(t[j].node)
  <2>1. j # 1 /\ i \in Nat /\ j \in Nat
    BY <1>1, <1>11
  <2>2. PICK b \in 1 .. k : j = b + 1
    BY <2>1, <1>1, <1>2
  <2>3. CASE i = 1
    <3>1. stack # << >> /\ 1 \in 1 .. k
      BY <2>2, <1>1, <1>5
    <3>2. n \in Beyond(stack[1].node)
      <4>1. /\ stack[1].neighborIdx \in 1 .. Len(Ahead(stack[1].node)) /\ stack[1].node \in nodes
            /\ Ahead(stack[1].node)[stack[1].neighborIdx] = n
        BY <3>1, <1>1, <1>6, <1>8
      <4> QED BY <4>1, BeyondFacts
    <3>3. CASE b = 1  BY <3>2, <3>3, <2>2, <2>3, <1>7
    <3>4. CASE b # 1
      <4>1. stack[1].node \in Beyond(stack[b].node)
        <5>1. 1 < b
          BY <3>4, <1>1
        <5> QED BY <5>1, <3>1, <1>6
      <4>2. /\ stack[1].neighborIdx \in 1 .. Len(Ahead(stack[1].node)) /\ stack[b].node \in nodes
            /\ Ahead(stack[1].node)[stack[1].neighborIdx] = n
        BY <3>1, <1>1, <1>6, <1>8
      <4>3. n \in Beyond(stack[b].node)
        BY <4>1, <4>2, BeyondFacts
      <4> QED BY <4>3, <2>2, <2>3, <1>7
    <3> QED BY <3>3, <3>4
  <2>4. CASE i # 1
    <3>1. PICK a \in 1 .. k : i = a + 1
      BY <2>4, <1>1, <1>2
    <3>2. a < b
      BY <2>2, <3>1, <1>11, <1>1
    <3>3. stack[a].node \in Beyond(stack[b].node)
      BY <3>2, <1>6
    <3>4. t[i].node = stack[a].node /\ t[j].node = stack[b].node
      BY <2>2, <3>1, <1>7
    <3> QED BY <3>3, <3>4
  <2> QED BY <2>3, <2>4
<1>12. ASSUME NEW j \in DOMAIN t
       PROVE  /\ 1 <= t[j].neighborIdx /\ t[j].neighborIdx <= Len(Ahead(t[j].node)) + 1
              /\ Behind(t, j, off)
  <2>1. CASE j = 1
    <3>1. \A p \in 1 .. Len(Ahead(n)) : ~ (p < 1)
      BY <1>8
    <3>2. 1 <= 1 /\ 1 <= Len(Ahead(n)) + 1
      BY <1>8
    <3> QED BY <2>1, <3>1, <3>2 DEF Behind
  <2>2. CASE j = 2
    <3>1. 1 \in 1 .. k /\ stack # << >> /\ 1 + 1 = 2
      BY <2>2, <1>1, <1>5
    <3>2. /\ t[2].node = stack[1].node /\ t[2].neighborIdx = stack[1].neighborIdx + 1
          /\ stack[1].neighborIdx <= Len(Ahead(stack[1].node))
          /\ Ahead(stack[1].node)[stack[1].neighborIdx] = n
          /\ 1 <= stack[1].neighborIdx /\ stack[1].neighborIdx \in Nat
          /\ Len(Ahead(stack[1].node)) \in Nat
      BY <3>1, <1>1, <1>6, <1>7, <1>8
    <3>3. \A p \in 1 .. Len(Ahead(stack[1].node)) : p < stack[1].neighborIdx => Ahead(stack[1].node)[p] \in off
      BY <3>1, <1>6 DEF Behind
    <3>4. \A p \in 1 .. Len(Ahead(t[2].node)) : p < t[2].neighborIdx =>
             Ahead(t[2].node)[p] \in off \/ Ahead(t[2].node)[p] = n
      BY <3>2, <3>3
    <3>5. 2 > 1 /\ 2 - 1 = 1
      OBVIOUS
    <3>6. 1 <= t[2].neighborIdx /\ t[2].neighborIdx <= Len(Ahead(t[2].node)) + 1
      BY <3>2
    <3> QED BY <2>2, <3>4, <3>5, <3>6 DEF Behind
  <2>3. CASE j # 1 /\ j # 2
    <3>1. PICK b \in 1 .. k : j = b + 1
      BY <2>3, <1>1, <1>2
    <3>2. b \in 2 .. k /\ b > 1 /\ b - 1 \in 1 .. k /\ (b - 1) + 1 = b /\ j - 1 = b /\ j > 1
      BY <2>3, <3>1, <1>1
    <3>3. PICK c \in 1 .. k : c = b - 1 /\ b = c + 1
      BY <3>2
    <3>4. t[j].node = stack[b].node /\ t[j].neighborIdx = stack[b].neighborIdx /\ t[b].node = stack[c].node
      BY <3>1, <3>2, <3>3, <1>7
    <3>5. Behind(stack, b, off)
      BY <1>6
    <3>6. Behind(t, j, off)
      BY <3>2, <3>3, <3>4, <3>5 DEF Behind
    <3> QED BY <3>4, <3>6, <1>6
  <2> QED BY <2>1, <2>2, <2>3
<1> QED BY <1>9, <1>10, <1>11, <1>12 DEF Path

LEMMA PathNodes ==
  ASSUME NEW stack \in Seq(Frame), NEW open, NEW off, Path(stack, open, off)
  PROVE  /\ Len(stack) \in Nat /\ DOMAIN stack = 1 .. Len(stack)
         /\ \A i \in 1 .. Len(stack) : stack[i].node \in nodes /\ stack[i].neighborIdx \in Nat
         /\ \A i, j \in 1 .. Len(stack) : stack[i].node = stack[j].node => i = j
         /\ \A m : m \in open <=> \E i \in 1 .. Len(stack) : stack[i].node = m
         /\ \A i, j \in 1 .. Len(stack) : i < j => stack[i].node \in Beyond(stack[j].node)
         /\ \A j \in 1 .. Len(stack) :
              /\ 1 <= stack[j].neighborIdx /\ stack[j].neighborIdx <= Len(Ahead(stack[j].node)) + 1
              /\ Behind(stack, j, off)
<1>1. Len(stack) \in Nat /\ DOMAIN stack = 1 .. Len(stack) /\ \A i \in 1 .. Len(stack) : stack[i] \in Frame
  OBVIOUS
<1>2. \A f \in Frame : f.node \in nodes /\ f.neighborIdx \in Nat
  BY DEF Frame
<1> QED BY <1>1, <1>2 DEF Path

\* The node on top passes a neighbor that is off.
LEMMA PathPasses ==
  ASSUME Settled, NEW stack \in Seq(Frame), NEW t \in Seq(Frame), NEW open, NEW off,
         Path(stack, open, off), stack # << >>, Len(t) = Len(stack),
         \A i \in 1 .. Len(stack) : t[i].node = stack[i].node,
         \A i \in 2 .. Len(stack) : t[i].neighborIdx = stack[i].neighborIdx,
         t[1].neighborIdx = stack[1].neighborIdx + 1,
         stack[1].neighborIdx <= Len(Ahead(stack[1].node)),
         Ahead(stack[1].node)[stack[1].neighborIdx] \in off
  PROVE  Path(t, open, off)
<1> DEFINE k == Len(stack)
<1>1. /\ k \in Nat /\ DOMAIN stack = 1 .. k /\ DOMAIN t = 1 .. k /\ k > 0 /\ 1 \in 1 .. k
      /\ \A i \in 1 .. k : i = 1 \/ (i \in 2 .. k /\ i > 1 /\ i - 1 \in 1 .. k)
      /\ \A i \in 1 .. k : t[i].node = stack[i].node
  OBVIOUS
<1>2. /\ \A i \in 1 .. k : stack[i].node \in nodes /\ stack[i].neighborIdx \in Nat
      /\ \A i, j \in 1 .. k : stack[i].node = stack[j].node => i = j
      /\ \A m : m \in open <=> \E i \in 1 .. k : stack[i].node = m
      /\ \A i, j \in 1 .. k : i < j => stack[i].node \in Beyond(stack[j].node)
      /\ \A j \in 1 .. k : /\ 1 <= stack[j].neighborIdx /\ stack[j].neighborIdx <= Len(Ahead(stack[j].node)) + 1
                           /\ Behind(stack, j, off)
  BY PathNodes
<1>3. \A m \in nodes : Len(Ahead(m)) \in Nat
  BY BeyondFacts
<1> HIDE DEF k
<1>4. ASSUME NEW j \in 1 .. k
      PROVE  /\ 1 <= t[j].neighborIdx /\ t[j].neighborIdx <= Len(Ahead(t[j].node)) + 1
             /\ Behind(t, j, off)
  <2>1. CASE j = 1
    <3> DEFINE list == Ahead(stack[1].node)
               idx  == stack[1].neighborIdx
    <3>1. /\ idx \in Nat /\ 1 <= idx /\ Len(list) \in Nat
          /\ \A p \in 1 .. Len(list) : p < idx => list[p] \in off
      BY <1>1, <1>2, <1>3 DEF Behind
    <3>2. t[1].node = stack[1].node /\ t[1].neighborIdx = idx + 1 /\ idx <= Len(list) /\ list[idx] \in off
      BY <1>1
    <3> HIDE DEF list, idx
    <3>3. 1 <= idx + 1 /\ idx + 1 <= Len(list) + 1
      BY <3>1, <3>2
    <3>4. \A p \in 1 .. Len(list) : p < idx + 1 => list[p] \in off
      BY <3>1, <3>2
    <3>5. list = Ahead(t[1].node)
      BY <3>2 DEF list
    <3> QED BY <2>1, <3>2, <3>3, <3>4, <3>5 DEF Behind
  <2>2. CASE j # 1
    <3>1. PICK h \in 1 .. k : h = j - 1
      BY <2>2, <1>1
    <3>2. t[j].node = stack[j].node /\ t[j].neighborIdx = stack[j].neighborIdx /\ t[h].node = stack[h].node
      BY <2>2, <1>1 DEF k
    <3>3. Behind(t, j, off)
      BY <3>1, <3>2, <1>2 DEF Behind
    <3> QED BY <3>2, <3>3, <1>2
  <2> QED BY <2>1, <2>2
<1>5. /\ \A i, j \in 1 .. k : t[i].node = t[j].node => i = j
      /\ \A m : m \in open <=> \E i \in 1 .. k : t[i].node = m
      /\ \A i, j \in 1 .. k : i < j => t[i].node \in Beyond(t[j].node)
  BY <1>1, <1>2
<1> QED BY <1>1, <1>4, <1>5 DEF Path

\* The node on top is left when all its neighbors are off.
LEMMA PathShrinks ==
  ASSUME Settled, NEW stack \in Seq(Frame), NEW t \in Seq(Frame), NEW open, NEW off,
         Path(stack, open, off), stack # << >>, Len(t) = Len(stack) - 1,
         \A i \in 1 .. Len(t) : t[i] = stack[i + 1]
  PROVE  Path(t, open \ {stack[1].node}, off \cup {stack[1].node})
<1> DEFINE k == Len(t)
           n == stack[1].node
<1>1. /\ k \in Nat /\ Len(stack) = k + 1 /\ DOMAIN t = 1 .. k /\ 1 \in 1 .. (k + 1)
      /\ \A i \in 1 .. k : i + 1 \in 1 .. (k + 1) /\ i + 1 # 1 /\ i + 1 > 1 /\ (i + 1) - 1 = i /\ i \in 1 .. (k + 1)
      /\ \A i \in 1 .. k : t[i] = stack[i + 1]
      /\ \A i \in 1 .. (k + 1) : i = 1 \/ \E h \in 1 .. k : i = h + 1
  <2>1. Len(stack) \in Nat /\ Len(stack) > 0 /\ k \in Nat /\ DOMAIN t = 1 .. k
    OBVIOUS
  <2>2. Len(stack) = k + 1
    BY <2>1
  <2>3. \A i \in 1 .. (k + 1) : i = 1 \/ \E h \in 1 .. k : i = h + 1
    <3> SUFFICES ASSUME NEW i \in 1 .. (k + 1), i # 1 PROVE \E h \in 1 .. k : i = h + 1
      OBVIOUS
    <3>1. i - 1 \in 1 .. k /\ i = (i - 1) + 1
      BY <2>1
    <3> QED BY <3>1
  <2> QED BY <2>1, <2>2, <2>3
<1>2. /\ \A i, j \in 1 .. (k + 1) : stack[i].node = stack[j].node => i = j
      /\ \A m : m \in open <=> \E i \in 1 .. (k + 1) : stack[i].node = m
      /\ \A i, j \in 1 .. (k + 1) : i < j => stack[i].node \in Beyond(stack[j].node)
      /\ \A j \in 1 .. (k + 1) :
           /\ 1 <= stack[j].neighborIdx /\ stack[j].neighborIdx <= Len(Ahead(stack[j].node)) + 1
           /\ Behind(stack, j, off)
  BY <1>1, PathNodes
<1> HIDE DEF k, n
<1>3. ASSUME NEW i \in 1 .. k, NEW j \in 1 .. k, t[i].node = t[j].node PROVE i = j
  <2>1. /\ i + 1 \in 1 .. (k + 1) /\ j + 1 \in 1 .. (k + 1)
        /\ stack[i + 1].node = stack[j + 1].node
    <3>1. t[i] = stack[i + 1] /\ t[j] = stack[j + 1]
      BY <1>1
    <3> QED BY <3>1, <1>1, <1>3
  <2>a. PICK a \in 1 .. (k + 1) : a = i + 1
    BY <2>1
  <2>b. PICK b \in 1 .. (k + 1) : b = j + 1
    BY <2>1
  <2>c. a = b
    BY <2>1, <2>a, <2>b, <1>2
  <2> QED BY <2>a, <2>b, <2>c, <1>1
<1>4. ASSUME NEW m PROVE m \in open \ {n} <=> \E i \in 1 .. k : t[i].node = m
  <2>1. ASSUME m \in open, m # n PROVE \E i \in 1 .. k : t[i].node = m
    <3>1. PICK i \in 1 .. (k + 1) : stack[i].node = m
      BY <2>1, <1>2
    <3>2. i # 1
      BY <3>1, <2>1 DEF n
    <3>3. PICK h \in 1 .. k : i = h + 1
      BY <3>2, <1>1
    <3> QED BY <3>1, <3>3, <1>1
  <2>2. ASSUME NEW i \in 1 .. k, t[i].node = m PROVE m \in open /\ m # n
    <3>1. t[i] = stack[i + 1] /\ i + 1 \in 1 .. (k + 1) /\ i + 1 # 1
      BY <1>1
    <3> QED BY <2>2, <3>1, <1>1, <1>2 DEF n
  <2> QED BY <2>1, <2>2
<1>5. ASSUME NEW i \in 1 .. k, NEW j \in 1 .. k, i < j PROVE t[i].node \in Beyond(t[j].node)
  <2>1. i + 1 < j + 1
    BY <1>5, <1>1
  <2>2. stack[i + 1].node \in Beyond(stack[j + 1].node)
    BY <2>1, <1>1, <1>2
  <2> QED BY <2>2, <1>1
<1>6. ASSUME NEW j \in 1 .. k
      PROVE  /\ 1 <= t[j].neighborIdx /\ t[j].neighborIdx <= Len(Ahead(t[j].node)) + 1
             /\ Behind(t, j, off \cup {n})
  <2>1. PICK h \in 1 .. (k + 1) : h = j + 1
    BY <1>1
  <2>2. t[j] = stack[h] /\ h > 1 /\ h - 1 = j
    BY <2>1, <1>1
  <2>3. \A p \in 1 .. Len(Ahead(stack[h].node)) : p < stack[h].neighborIdx =>
          Ahead(stack[h].node)[p] \in off \/ Ahead(stack[h].node)[p] = stack[j].node
    BY <2>2, <1>2 DEF Behind
  <2>4. j = 1 => stack[j].node = n
    BY DEF n
  <2>5. j # 1 => j > 1 /\ stack[j].node = t[j - 1].node
    <3> SUFFICES ASSUME j # 1 PROVE j > 1 /\ stack[j].node = t[j - 1].node
      OBVIOUS
    <3>1. PICK g \in 1 .. k : j = g + 1
      BY <1>1
    <3>2. j > 1 /\ j - 1 = g
      BY <3>1, <1>1
    <3> QED BY <3>1, <3>2, <1>1
  <2>6. Behind(t, j, off \cup {n})
    BY <2>2, <2>3, <2>4, <2>5 DEF Behind
  <2> QED BY <2>2, <2>6, <1>2
<1>7. Path(t, open \ {n}, off \cup {n})
  BY <1>1, <1>3, <1>4, <1>5, <1>6 DEF Path
<1> QED BY <1>7 DEF n

\* An edge from the node on top to a node of the path closes a cycle.
LEMMA BackEdge ==
  ASSUME Settled, NEW stack \in Seq(Frame), NEW open, NEW off, Path(stack, open, off),
         stack # << >>, NEW n \in open, n \in Successors(stack[1].node, "Outgoing")
  PROVE  n \in nodes /\ OnCycle(n)
<1>1. /\ Len(stack) \in Nat /\ Len(stack) > 0 /\ 1 \in 1 .. Len(stack)
      /\ \A i \in 1 .. Len(stack) : i = 1 \/ 1 < i
  OBVIOUS
<1>2. PICK i \in 1 .. Len(stack) : stack[i].node = n
  BY PathNodes
<1>3. n \in nodes
  BY <1>2, PathNodes
<1>4. CASE i = 1
  <2>1. n \in Successors(n, "Outgoing") /\ Successors(n, "Outgoing") \subseteq Beyond(n)
    BY <1>2, <1>3, <1>4, ReachedIsClosed, NeighborsAreSuccessors DEF Beyond, Direction
  <2> QED BY <1>3, <2>1 DEF OnCycle, Beyond
<1>5. CASE i # 1
  <2>1. stack[1].node \in Beyond(n)
    BY <1>1, <1>2, <1>5, PathNodes
  <2>2. n \in Beyond(n)
    BY <2>1, <1>3, BeyondFacts
  <2> QED BY <1>3, <2>2 DEF OnCycle, Beyond
<1> QED BY <1>4, <1>5

\* What is off stays off, and none of it is on a cycle.
Spent(off) ==
  \A n \in off : Successors(n, "Outgoing") \subseteq off /\ ~ OnCycle(n)

LEMMA SpentGrows ==
  ASSUME Settled, NEW off \in SUBSET nodes, Spent(off), NEW n \in nodes \ off,
         Successors(n, "Outgoing") \subseteq off
  PROVE  Spent(off \cup {n})
<1>1. Closed(off, "Outgoing")
  BY DEF Spent, Closed
<1>2. Beyond(n) \subseteq off
  BY <1>1, ReachedIsLeast DEF Beyond
<1>3. ~ OnCycle(n)
  BY <1>2 DEF OnCycle, Beyond
<1> QED BY <1>3 DEF Spent

Off(s) == s.visited \ s.recursionStack

AcyclicInv(s) ==
  /\ s.recursionStack \subseteq s.visited
  /\ nodes = ToSet(s.keys) \cup s.visited
  /\ Spent(Off(s))
  /\ s.acyclic => Path(s.stack, s.recursionStack, Off(s))
  /\ ~ s.acyclic => \E n \in nodes : OnCycle(n)

\* What the loop has still to do before it visits or leaves a node.
Budget(s) ==
  IF s.acyclic
  THEN Len(s.keys) + 1 + (IF s.stack = << >> THEN 0
                          ELSE Len(Ahead(s.stack[1].node)) + 1 - s.stack[1].neighborIdx)
  ELSE 0

Undone(s) == Cardinality(nodes \ s.visited) + Cardinality(nodes \ Off(s))

Progress(s, t) == Undone(t) < Undone(s) \/ (Undone(t) = Undone(s) /\ Budget(t) < Budget(s))

LEMMA AcyclicFields ==
  ASSUME NEW s \in AcyclicState
  PROVE  /\ s.stack \in Seq(Frame) /\ s.visited \in SUBSET nodes /\ s.recursionStack \in SUBSET nodes
         /\ s.keys \in Seq(nodes) /\ s.acyclic \in BOOLEAN /\ Off(s) \in SUBSET nodes
         /\ Len(s.keys) \in Nat /\ ToSet(s.keys) \subseteq nodes
<1>1. /\ s.stack \in Seq(Frame) /\ s.visited \in SUBSET nodes /\ s.recursionStack \in SUBSET nodes
      /\ s.keys \in Seq(nodes) /\ s.acyclic \in BOOLEAN
  BY DEF AcyclicState, Frame
<1>2. Off(s) \in SUBSET nodes
  BY <1>1 DEF Off
<1> QED BY <1>1, <1>2, InSet

\* A node goes on the stack.
Enters(s, t, n) ==
  /\ t.visited = s.visited \cup {n} /\ t.recursionStack = s.recursionStack \cup {n}
  /\ t.acyclic = s.acyclic
  /\ Len(t.stack) = Len(s.stack) + 1
  /\ t.stack[1].node = n /\ t.stack[1].neighborIdx = 1
  /\ \A i \in 1 .. Len(s.stack) : t.stack[i + 1].node = s.stack[i].node
  /\ \A i \in 2 .. Len(s.stack) : t.stack[i + 1].neighborIdx = s.stack[i].neighborIdx

LEMMA EnterCases ==
  ASSUME NEW s \in AcyclicState, NEW n \in nodes
  PROVE  /\ Enter(s, n) \in AcyclicState /\ Enters(s, Enter(s, n), n)
         /\ Enter(s, n).keys = s.keys
         /\ s.stack # << >> => Enter(s, n).stack[2] = s.stack[1]
<1> DEFINE t == Enter(s, n)
           f == [node |-> n, neighborIdx |-> 1]
           y == s.stack
           r == <<f>> \o y
           V == s.visited \cup {n}
           W == s.recursionStack \cup {n}
<1>1. t = [s EXCEPT !.stack = r, !.visited = V, !.recursionStack = W]
  BY DEF Enter
<1>0. V \in SUBSET nodes /\ W \in SUBSET nodes
  BY AcyclicFields
<1>2. f \in Frame /\ f.node = n /\ f.neighborIdx = 1 /\ y \in Seq(Frame)
  BY AcyclicFields DEF Frame
<1> HIDE DEF f, y
<1>3. /\ r \in Seq(Frame) /\ Len(r) = Len(y) + 1 /\ Len(y) \in Nat /\ r[1] = f
      /\ \A i \in 1 .. Len(y) : r[i + 1] = y[i]
  BY <1>2, PushFacts
<1>4. y # << >> => r[2] = y[1]
  <2> SUFFICES ASSUME y # << >> PROVE r[2] = y[1]
    OBVIOUS
  <2>1. 1 \in 1 .. Len(y) /\ 1 + 1 = 2
    BY <1>2
  <2> QED BY <2>1, <1>3
<1>5. \A i \in 2 .. Len(y) : i \in 1 .. Len(y)
  BY <1>3
<1> HIDE DEF r, t, V, W
<1>a. t.stack = r /\ t.visited = V /\ t.recursionStack = W /\ t.keys = s.keys /\ t.acyclic = s.acyclic
  BY <1>1 DEF AcyclicState
<1>6. t \in AcyclicState
  <2>1. r \in Seq([node : nodes, neighborIdx : Nat])
    BY <1>3 DEF Frame
  <2> QED BY <2>1, <1>0, <1>1 DEF AcyclicState
<1>7. Enters(s, t, n)
  BY <1>a, <1>2, <1>3, <1>5 DEF Enters, y, V, W
<1> QED BY <1>a, <1>4, <1>6, <1>7 DEF t, y

LEMMA NextKeyCases ==
  ASSUME NEW s \in AcyclicState, s.keys # << >>
  PROVE  LET t == NextKey(s)
             n == Head(s.keys)
         IN  /\ t \in AcyclicState /\ n \in nodes /\ t.keys = Tail(s.keys)
             /\ n \in s.visited => /\ t.stack = s.stack /\ t.visited = s.visited
                                   /\ t.recursionStack = s.recursionStack /\ t.acyclic = s.acyclic
             /\ n \notin s.visited => Enters(s, t, n)
<1> DEFINE t == NextKey(s)
           n == Head(s.keys)
           q == Tail(s.keys)
           u == Enter(s, n)
<1>1. n \in nodes /\ q \in Seq(nodes)
  BY AcyclicFields, TailFacts
<1>2. u \in AcyclicState /\ Enters(s, u, n)
  BY <1>1, EnterCases
<1> HIDE DEF n, q, u
<1>3. CASE n \in s.visited
  <2>1. t = [s EXCEPT !.keys = q]
    BY <1>3 DEF NextKey, n, q
  <2>2. t \in AcyclicState
    BY <2>1, <1>1 DEF AcyclicState
  <2>3. /\ t.stack = s.stack /\ t.visited = s.visited /\ t.keys = q
        /\ t.recursionStack = s.recursionStack /\ t.acyclic = s.acyclic
    BY <2>1 DEF AcyclicState
  <2> QED BY <2>2, <2>3, <1>1, <1>3 DEF n, q
<1>4. CASE n \notin s.visited
  <2>1. t = [u EXCEPT !.keys = Tail(@)]
    BY <1>4 DEF NextKey, n, u
  <2>2. u.keys = s.keys
    BY <1>1, EnterCases DEF u
  <2>3. t = [u EXCEPT !.keys = q]
    BY <2>1, <2>2 DEF q
  <2>4. t \in AcyclicState
    BY <2>3, <1>1, <1>2 DEF AcyclicState
  <2>5. /\ t.stack = u.stack /\ t.visited = u.visited /\ t.keys = q
        /\ t.recursionStack = u.recursionStack /\ t.acyclic = u.acyclic
    BY <2>3, <1>2 DEF AcyclicState
  <2>6. Enters(s, t, n)
    BY <2>5, <1>2 DEF Enters
  <2> QED BY <2>4, <2>5, <2>6, <1>1, <1>4 DEF n, q
<1> QED BY <1>3, <1>4

\* The index of the frame on top goes up.
Advances(s, t) ==
  /\ Len(t) = Len(s)
  /\ \A i \in 1 .. Len(s) : t[i].node = s[i].node
  /\ \A i \in 2 .. Len(s) : t[i].neighborIdx = s[i].neighborIdx
  /\ t[1].neighborIdx = s[1].neighborIdx + 1

LEMMA AdvanceCases ==
  ASSUME NEW s \in AcyclicState, s.stack # << >>, NEW n \in nodes
  PROVE  LET t == Advance(s, n)
         IN  /\ t \in AcyclicState /\ t.keys = s.keys
             /\ n \in s.recursionStack => /\ ~ t.acyclic /\ t.visited = s.visited
                                          /\ t.recursionStack = s.recursionStack
             /\ n \notin s.recursionStack /\ n \in s.visited =>
                  /\ t.acyclic = s.acyclic /\ t.visited = s.visited
                  /\ t.recursionStack = s.recursionStack /\ Advances(s.stack, t.stack)
             /\ n \notin s.recursionStack /\ n \notin s.visited =>
                  /\ Enters(s, t, n) /\ t.stack[2].neighborIdx = s.stack[1].neighborIdx + 1
<1> DEFINE t == Advance(s, n)
           a == [s EXCEPT !.stack[1].neighborIdx = @ + 1]
           y == s.stack
           g == [y[1] EXCEPT !.neighborIdx = @ + 1]
           z == [y EXCEPT ![1] = g]
<1>1. a = [s EXCEPT !.stack = z]
  OBVIOUS
<1>2. y \in Seq(Frame) /\ Len(y) \in Nat /\ Len(y) > 0 /\ y[1] \in Frame /\ 1 \in 1 .. Len(y)
  BY AcyclicFields, TailFacts
<1>3. g \in Frame /\ g.node = y[1].node /\ g.neighborIdx = y[1].neighborIdx + 1
  BY <1>2 DEF Frame
<1> HIDE DEF y, g
<1>4. z \in Seq(Frame) /\ Len(z) = Len(y) /\ z[1] = g /\ \A i \in 2 .. Len(y) : z[i] = y[i]
  BY <1>2, <1>3
<1>5. \A i \in 1 .. Len(y) : i = 1 \/ i \in 2 .. Len(y)
  BY <1>2
<1> HIDE DEF z
<1>6. Advances(y, z) /\ z # << >>
  BY <1>2, <1>3, <1>4, <1>5 DEF Advances
<1>7. /\ a.stack = z /\ a.visited = s.visited /\ a.recursionStack = s.recursionStack
      /\ a.keys = s.keys /\ a.acyclic = s.acyclic
  BY <1>1 DEF AcyclicState
<1>8. a \in AcyclicState
  <2>1. z \in Seq([node : nodes, neighborIdx : Nat])
    BY <1>4 DEF Frame
  <2> QED BY <2>1, <1>1 DEF AcyclicState
<1>9. /\ n \in s.recursionStack => t = [a EXCEPT !.acyclic = FALSE]
      /\ n \notin s.recursionStack /\ n \in s.visited => t = a
      /\ n \notin s.recursionStack /\ n \notin s.visited => t = Enter(a, n)
  BY DEF Advance
<1> HIDE DEF a, t
<1>10. CASE n \in s.recursionStack
  <2>1. t = [a EXCEPT !.acyclic = FALSE]
    BY <1>9, <1>10
  <2>2. t \in AcyclicState /\ ~ t.acyclic /\ t.visited = a.visited /\ t.recursionStack = a.recursionStack
        /\ t.keys = a.keys
    BY <2>1, <1>8 DEF AcyclicState
  <2> QED BY <2>2, <1>7, <1>10 DEF t
<1>11. CASE n \notin s.recursionStack /\ n \in s.visited
  BY <1>6, <1>7, <1>8, <1>9, <1>11 DEF t, y
<1>12. CASE n \notin s.recursionStack /\ n \notin s.visited
  <2>1. t = Enter(a, n)
    BY <1>9, <1>12
  <2>2. t \in AcyclicState /\ Enters(a, t, n) /\ t.keys = a.keys /\ t.stack[2] = a.stack[1]
    BY <2>1, <1>6, <1>7, <1>8, EnterCases
  <2>3. /\ \A i \in 1 .. Len(y) : t.stack[i + 1].node = y[i].node
        /\ \A i \in 2 .. Len(y) : t.stack[i + 1].neighborIdx = y[i].neighborIdx
        /\ Len(t.stack) = Len(y) + 1
    BY <2>2, <1>6, <1>7 DEF Enters, Advances
  <2>4. Enters(s, t, n)
    BY <2>2, <2>3, <1>7 DEF Enters, y
  <2>5. t.stack[2].neighborIdx = y[1].neighborIdx + 1
    BY <2>2, <1>3, <1>4, <1>7
  <2> QED BY <2>2, <2>4, <2>5, <1>7, <1>12 DEF t, y
<1> QED BY <1>10, <1>11, <1>12

LEMMA LeaveCases ==
  ASSUME NEW s \in AcyclicState, s.stack # << >>
  PROVE  LET t == Leave(s)
         IN  /\ t \in AcyclicState /\ t.keys = s.keys /\ t.visited = s.visited
             /\ t.acyclic = s.acyclic /\ t.stack = Tail(s.stack)
             /\ t.recursionStack = s.recursionStack \ {s.stack[1].node}
<1> DEFINE t == Leave(s)
           y == s.stack
           z == Tail(y)
           W == s.recursionStack \ {y[1].node}
<1>1. z \in Seq(Frame) /\ Head(y) = y[1]
  BY AcyclicFields, TailFacts
<1>2. W \in SUBSET nodes
  BY AcyclicFields
<1>3. t = [s EXCEPT !.stack = z, !.recursionStack = W]
  BY <1>1 DEF Leave
<1> HIDE DEF z, W, t
<1>4. t \in AcyclicState
  <2>1. z \in Seq([node : nodes, neighborIdx : Nat])
    BY <1>1 DEF Frame
  <2> QED BY <2>1, <1>2, <1>3 DEF AcyclicState
<1>5. /\ t.keys = s.keys /\ t.visited = s.visited /\ t.acyclic = s.acyclic /\ t.stack = z
      /\ t.recursionStack = W
  BY <1>3 DEF AcyclicState
<1> QED BY <1>4, <1>5 DEF t, z, W

LEMMA BudgetMeasure ==
  ASSUME NEW k \in Nat, NEW l \in Nat, NEW i \in Nat
  PROVE  /\ k + 1 + (l + 1 - (i + 1)) < k + 1 + (l + 1 - i)
         /\ i <= l => 0 < k + 1 + (l + 1 - i)
OBVIOUS

LEMMA Budgeted ==
  ASSUME Settled, NEW s \in AcyclicState, AcyclicInv(s)
  PROVE  Budget(s) \in Nat /\ Undone(s) \in Nat
<1>1. Undone(s) \in Nat
  <2>1. nodes \ s.visited \in SUBSET nodes /\ nodes \ Off(s) \in SUBSET nodes
    OBVIOUS
  <2>2. Cardinality(nodes \ s.visited) \in Nat /\ Cardinality(nodes \ Off(s)) \in Nat
    BY <2>1, SettledGraph
  <2> QED BY <2>2 DEF Undone
<1>2. Budget(s) \in Nat
  <2>1. CASE ~ s.acyclic
    BY <2>1 DEF Budget
  <2>2. CASE s.acyclic /\ s.stack = << >>
    BY <2>2, AcyclicFields DEF Budget
  <2>3. CASE s.acyclic /\ s.stack # << >>
    <3> DEFINE l == Len(Ahead(s.stack[1].node))
               i == s.stack[1].neighborIdx
    <3>1. 1 \in 1 .. Len(s.stack)
      BY <2>3, AcyclicFields
    <3>2. i \in Nat /\ i <= l + 1 /\ s.stack[1].node \in nodes
      BY <2>3, <3>1, AcyclicFields, PathNodes DEF AcyclicInv
    <3>3. l \in Nat
      BY <3>2, BeyondFacts
    <3>4. Budget(s) = Len(s.keys) + 1 + (l + 1 - i)
      BY <2>3 DEF Budget
    <3> HIDE DEF l, i
    <3>5. l + 1 - i \in Nat
      BY <3>2, <3>3
    <3> QED BY <3>4, <3>5, AcyclicFields
  <2> QED BY <2>1, <2>2, <2>3
<1> QED BY <1>1, <1>2

\* A step that visits a node.
LEMMA EnterKeeps ==
  ASSUME Settled, NEW s \in AcyclicState, AcyclicInv(s), s.acyclic,
         NEW t \in AcyclicState, NEW n \in nodes, n \notin s.visited, Enters(s, t, n),
         ToSet(s.keys) \subseteq ToSet(t.keys) \cup {n}, ToSet(t.keys) \subseteq nodes,
         s.stack # << >> => /\ s.stack[1].neighborIdx <= Len(Ahead(s.stack[1].node))
                            /\ Ahead(s.stack[1].node)[s.stack[1].neighborIdx] = n
                            /\ t.stack[2].neighborIdx = s.stack[1].neighborIdx + 1
  PROVE  AcyclicInv(t) /\ Progress(s, t)
<1>1. /\ t.visited = s.visited \cup {n} /\ t.recursionStack = s.recursionStack \cup {n}
      /\ t.acyclic = s.acyclic
  BY DEF Enters
<1>2. s.recursionStack \subseteq s.visited /\ n \notin s.recursionStack
  BY DEF AcyclicInv
<1>3. Off(t) = Off(s)
  BY <1>1, <1>2 DEF Off
<1>4. Path(t.stack, t.recursionStack, Off(t))
  <2>1. /\ s.stack \in Seq(Frame) /\ t.stack \in Seq(Frame)
        /\ Path(s.stack, s.recursionStack, Off(s))
    BY AcyclicFields DEF AcyclicInv
  <2>2. Path(t.stack, s.recursionStack \cup {n}, Off(s))
    BY <2>1, <1>2, PathGrows DEF Enters
  <2> QED BY <2>2, <1>1, <1>3
<1>5. nodes = ToSet(t.keys) \cup t.visited
  <2>1. nodes = ToSet(s.keys) \cup s.visited
    BY DEF AcyclicInv
  <2> QED BY <2>1, <1>1
<1>6. AcyclicInv(t)
  BY <1>1, <1>2, <1>3, <1>4, <1>5 DEF AcyclicInv
<1>7. Undone(t) < Undone(s)
  <2>1. s.visited \in SUBSET nodes /\ n \in nodes \ s.visited
    BY AcyclicFields
  <2>2. /\ Cardinality(nodes \ s.visited) \in Nat /\ Cardinality(nodes \ t.visited) \in Nat
        /\ Cardinality(nodes \ t.visited) < Cardinality(nodes \ s.visited)
    BY <2>1, <1>1, FewerLeft
  <2>3. Cardinality(nodes \ Off(s)) \in Nat
    <3>1. nodes \ Off(s) \in SUBSET nodes
      OBVIOUS
    <3> QED BY <3>1, SettledGraph
  <2> QED BY <2>2, <2>3, <1>3 DEF Undone
<1> QED BY <1>6, <1>7 DEF Progress

LEMMA NextKeyKeeps ==
  ASSUME Settled, NEW s \in AcyclicState, AcyclicInv(s), s.acyclic, s.stack = << >>, s.keys # << >>
  PROVE  NextKey(s) \in AcyclicState /\ AcyclicInv(NextKey(s)) /\ Progress(s, NextKey(s))
<1> DEFINE t == NextKey(s)
           n == Head(s.keys)
<1>1. /\ t \in AcyclicState /\ n \in nodes /\ t.keys = Tail(s.keys)
      /\ n \in s.visited => /\ t.stack = s.stack /\ t.visited = s.visited
                            /\ t.recursionStack = s.recursionStack /\ t.acyclic = s.acyclic
      /\ n \notin s.visited => Enters(s, t, n)
  BY NextKeyCases
<1>2. /\ ToSet(s.keys) = ToSet(t.keys) \cup {n} /\ Len(t.keys) = Len(s.keys) - 1
      /\ Len(s.keys) \in Nat /\ Len(s.keys) > 0 /\ ToSet(t.keys) \subseteq nodes
  <2>1. s.keys \in Seq(nodes)
    BY AcyclicFields
  <2> HIDE DEF t
  <2>2. ToSet(s.keys) = ToSet(t.keys) \cup {n}
    BY <2>1, <1>1, SetOfTail
  <2>3. Len(t.keys) = Len(s.keys) - 1 /\ Len(s.keys) \in Nat /\ Len(s.keys) > 0
    BY <2>1, <1>1, TailFacts
  <2>4. ToSet(t.keys) \subseteq nodes
    BY <1>1, AcyclicFields
  <2> QED BY <2>2, <2>3, <2>4
<1> SUFFICES AcyclicInv(t) /\ Progress(s, t)
  BY <1>1
<1> HIDE DEF t, n
<1>3. CASE n \notin s.visited
  BY <1>1, <1>2, <1>3, EnterKeeps
<1>4. CASE n \in s.visited
  <2>1. /\ t.stack = s.stack /\ t.visited = s.visited
        /\ t.recursionStack = s.recursionStack /\ t.acyclic = s.acyclic
    BY <1>1, <1>4
  <2>2. Off(t) = Off(s)
    BY <2>1 DEF Off
  <2>3. nodes = ToSet(t.keys) \cup t.visited
    <3>1. nodes = ToSet(s.keys) \cup s.visited
      BY DEF AcyclicInv
    <3> QED BY <3>1, <2>1, <1>2, <1>4
  <2>4. AcyclicInv(t)
    BY <2>1, <2>2, <2>3 DEF AcyclicInv
  <2>5. Undone(t) = Undone(s)
    BY <2>1, <2>2 DEF Undone
  <2>6. Budget(t) = Len(t.keys) + 1 + 0 /\ Budget(s) = Len(s.keys) + 1 + 0
    BY <2>1 DEF Budget
  <2>7. Budget(t) < Budget(s)
    BY <2>6, <1>2
  <2> QED BY <2>4, <2>5, <2>7 DEF Progress
<1> QED BY <1>3, <1>4

LEMMA AdvanceKeeps ==
  ASSUME Settled, NEW s \in AcyclicState, AcyclicInv(s), s.acyclic, s.stack # << >>,
         s.stack[1].neighborIdx \in DOMAIN Ahead(s.stack[1].node)
  PROVE  LET t == Advance(s, Ahead(s.stack[1].node)[s.stack[1].neighborIdx])
         IN  t \in AcyclicState /\ AcyclicInv(t) /\ Progress(s, t)
<1> DEFINE y == s.stack
           list == Ahead(y[1].node)
           idx == y[1].neighborIdx
           n == list[idx]
           t == Advance(s, n)
<1>1. /\ y \in Seq(Frame) /\ 1 \in 1 .. Len(y) /\ y[1].node \in nodes /\ idx \in Nat
      /\ Path(y, s.recursionStack, Off(s))
  <2>1. y \in Seq(Frame) /\ Path(y, s.recursionStack, Off(s))
    BY AcyclicFields DEF AcyclicInv
  <2>2. 1 \in 1 .. Len(y)
    BY <2>1
  <2> QED BY <2>1, <2>2, PathNodes
<1>2. /\ list \in Seq(nodes) /\ Len(list) \in Nat /\ DOMAIN list = 1 .. Len(list)
      /\ ToSet(list) = Successors(y[1].node, "Outgoing")
  BY <1>1, BeyondFacts
<1>3. idx \in 1 .. Len(list) /\ idx <= Len(list) /\ 1 <= idx
  BY <1>1, <1>2
<1>4. n \in nodes /\ n \in Successors(y[1].node, "Outgoing")
  <2> HIDE DEF list, idx
  <2> QED BY <1>2, <1>3, InSet
<1> HIDE DEF n, y
<1>5. /\ t \in AcyclicState /\ t.keys = s.keys
      /\ n \in s.recursionStack => /\ ~ t.acyclic /\ t.visited = s.visited
                                   /\ t.recursionStack = s.recursionStack
      /\ n \notin s.recursionStack /\ n \in s.visited =>
           /\ t.acyclic = s.acyclic /\ t.visited = s.visited
           /\ t.recursionStack = s.recursionStack /\ Advances(s.stack, t.stack)
      /\ n \notin s.recursionStack /\ n \notin s.visited =>
           /\ Enters(s, t, n) /\ t.stack[2].neighborIdx = s.stack[1].neighborIdx + 1
  BY <1>4, AdvanceCases
<1> SUFFICES AcyclicInv(t) /\ Progress(s, t)
  BY <1>5 DEF n, y
<1> HIDE DEF t
<1>6. nodes = ToSet(s.keys) \cup s.visited /\ s.recursionStack \subseteq s.visited /\ Spent(Off(s))
  BY DEF AcyclicInv
<1>7. CASE n \in s.recursionStack
  <2>1. ~ t.acyclic /\ t.visited = s.visited /\ t.recursionStack = s.recursionStack
    BY <1>5, <1>7
  <2>2. Off(t) = Off(s)
    BY <2>1 DEF Off
  <2>3. n \in nodes /\ OnCycle(n)
    BY <1>1, <1>4, <1>7, BackEdge DEF y
  <2>4. AcyclicInv(t)
    BY <2>1, <2>2, <2>3, <1>5, <1>6 DEF AcyclicInv
  <2>5. Undone(t) = Undone(s)
    BY <2>1, <2>2 DEF Undone
  <2>6. Budget(t) = 0 /\ Budget(s) = Len(s.keys) + 1 + (Len(list) + 1 - idx)
    BY <2>1 DEF Budget, y
  <2> HIDE DEF list, idx
  <2>7. Budget(t) < Budget(s)
    <3>1. Len(s.keys) \in Nat /\ Len(list) \in Nat /\ idx \in Nat /\ idx <= Len(list)
      BY <1>1, <1>2, <1>3, AcyclicFields
    <3> QED BY <2>6, <3>1, BudgetMeasure
  <2> QED BY <2>4, <2>5, <2>7 DEF Progress
<1>8. CASE n \notin s.recursionStack /\ n \in s.visited
  <2>1. /\ t.acyclic = s.acyclic /\ t.visited = s.visited
        /\ t.recursionStack = s.recursionStack /\ Advances(y, t.stack)
    BY <1>5, <1>8 DEF y
  <2>2. Off(t) = Off(s) /\ n \in Off(s)
    BY <2>1, <1>8 DEF Off
  <2>3. Path(t.stack, t.recursionStack, Off(t))
    <3>1. t.stack \in Seq(Frame) /\ y # << >>
      BY <1>5, AcyclicFields DEF y
    <3>2. Path(t.stack, s.recursionStack, Off(s))
      BY <3>1, <2>1, <2>2, <1>1, <1>3, PathPasses DEF Advances, n
    <3> QED BY <3>2, <2>1, <2>2
  <2>4. AcyclicInv(t)
    BY <2>1, <2>2, <2>3, <1>5, <1>6 DEF AcyclicInv
  <2>5. Undone(t) = Undone(s)
    BY <2>1, <2>2 DEF Undone
  <2>6. t.stack # << >> /\ t.stack[1].node = y[1].node /\ t.stack[1].neighborIdx = idx + 1
    <3>1. Len(t.stack) = Len(y) /\ Len(y) > 0
      BY <2>1, <1>1 DEF Advances
    <3> QED BY <3>1, <2>1, <1>1 DEF Advances
  <2>7. /\ Budget(t) = Len(s.keys) + 1 + (Len(list) + 1 - (idx + 1))
        /\ Budget(s) = Len(s.keys) + 1 + (Len(list) + 1 - idx)
    BY <2>1, <2>6, <1>5 DEF Budget, y
  <2> HIDE DEF list, idx
  <2>8. Budget(t) < Budget(s)
    <3>1. Len(s.keys) \in Nat /\ Len(list) \in Nat /\ idx \in Nat
      BY <1>1, <1>2, <1>3, AcyclicFields
    <3> QED BY <2>7, <3>1, BudgetMeasure
  <2> QED BY <2>4, <2>5, <2>8 DEF Progress
<1>9. CASE n \notin s.recursionStack /\ n \notin s.visited
  <2>1. Enters(s, t, n) /\ t.stack[2].neighborIdx = s.stack[1].neighborIdx + 1
    BY <1>5, <1>9
  <2>2. /\ s.stack[1].neighborIdx <= Len(Ahead(s.stack[1].node))
        /\ Ahead(s.stack[1].node)[s.stack[1].neighborIdx] = n
    BY <1>3 DEF n, y
  <2>3. ToSet(s.keys) \subseteq ToSet(t.keys) \cup {n} /\ ToSet(t.keys) \subseteq nodes
    BY <1>5, AcyclicFields
  <2> HIDE DEF list, idx
  <2> QED BY <2>1, <2>2, <2>3, <1>4, <1>5, <1>9, EnterKeeps
<1> QED BY <1>7, <1>8, <1>9

LEMMA LeaveKeeps ==
  ASSUME Settled, NEW s \in AcyclicState, AcyclicInv(s), s.acyclic, s.stack # << >>,
         s.stack[1].neighborIdx \notin DOMAIN Ahead(s.stack[1].node)
  PROVE  Leave(s) \in AcyclicState /\ AcyclicInv(Leave(s)) /\ Progress(s, Leave(s))
<1> DEFINE t == Leave(s)
           y == s.stack
           n == y[1].node
           list == Ahead(n)
           idx == y[1].neighborIdx
<1>1. /\ t \in AcyclicState /\ t.keys = s.keys /\ t.visited = s.visited
      /\ t.acyclic = s.acyclic /\ t.stack = Tail(y)
      /\ t.recursionStack = s.recursionStack \ {n}
  BY LeaveCases
<1> SUFFICES AcyclicInv(t) /\ Progress(s, t)
  BY <1>1
<1> HIDE DEF t
<1>2. /\ y \in Seq(Frame) /\ 1 \in 1 .. Len(y) /\ n \in nodes /\ idx \in Nat /\ 1 <= idx
      /\ Path(y, s.recursionStack, Off(s)) /\ n \in s.recursionStack /\ Behind(y, 1, Off(s))
  <2>1. y \in Seq(Frame) /\ Path(y, s.recursionStack, Off(s))
    BY AcyclicFields DEF AcyclicInv
  <2>2. 1 \in 1 .. Len(y)
    BY <2>1
  <2> QED BY <2>1, <2>2, PathNodes
<1>3. /\ list \in Seq(nodes) /\ Len(list) \in Nat /\ DOMAIN list = 1 .. Len(list)
      /\ ToSet(list) = Successors(n, "Outgoing")
  BY <1>2, BeyondFacts
<1>4. /\ nodes = ToSet(s.keys) \cup s.visited /\ s.recursionStack \subseteq s.visited
      /\ Spent(Off(s)) /\ Off(s) \in SUBSET nodes
  BY AcyclicFields DEF AcyclicInv
<1>5. Off(t) = Off(s) \cup {n} /\ n \notin Off(s)
  BY <1>1, <1>2, <1>4 DEF Off
<1>6. Successors(n, "Outgoing") \subseteq Off(s)
  <2>1. \A p \in 1 .. Len(list) : p < idx => list[p] \in Off(s)
    BY <1>2 DEF Behind
  <2>2. \A p \in 1 .. Len(list) : p < idx
    <3> HIDE DEF list, idx
    <3>1. idx \notin 1 .. Len(list)
      BY <1>3 DEF list, idx
    <3> QED BY <3>1, <1>2, <1>3
  <2> HIDE DEF list, idx
  <2> QED BY <2>1, <2>2, <1>3, InSet
<1>7. Spent(Off(t))
  BY <1>2, <1>4, <1>5, <1>6, SpentGrows
<1>8. Path(t.stack, t.recursionStack, Off(t))
  <2>1. t.stack \in Seq(Frame) /\ y # << >>
    BY <1>1, AcyclicFields
  <2> HIDE DEF y
  <2>2. Len(t.stack) = Len(y) - 1 /\ \A i \in 1 .. Len(t.stack) : t.stack[i] = y[i + 1]
    BY <2>1, <1>1, <1>2, TailFacts
  <2>3. Path(t.stack, s.recursionStack \ {n}, Off(s) \cup {n})
    BY <2>1, <2>2, <1>2, PathShrinks
  <2> QED BY <2>3, <1>1, <1>5
<1>9. AcyclicInv(t)
  BY <1>1, <1>4, <1>7, <1>8 DEF AcyclicInv
<1>10. Undone(t) < Undone(s)
  <2>1. /\ Cardinality(nodes \ Off(s)) \in Nat /\ Cardinality(nodes \ Off(t)) \in Nat
        /\ Cardinality(nodes \ Off(t)) < Cardinality(nodes \ Off(s))
    <3>1. n \in nodes \ Off(s)
      BY <1>2, <1>5
    <3> QED BY <3>1, <1>4, <1>5, FewerLeft
  <2>2. Cardinality(nodes \ s.visited) \in Nat
    <3>1. nodes \ s.visited \in SUBSET nodes
      OBVIOUS
    <3> QED BY <3>1, SettledGraph
  <2> QED BY <2>1, <2>2, <1>1 DEF Undone
<1> QED BY <1>9, <1>10 DEF Progress

LEMMA AcyclicStepKeeps ==
  ASSUME Settled, NEW s \in AcyclicState, AcyclicInv(s),
         s.acyclic, ~ (s.stack = << >> /\ s.keys = << >>)
  PROVE  AcyclicStep[s] \in AcyclicState /\ AcyclicInv(AcyclicStep[s]) /\ Progress(s, AcyclicStep[s])
<1>1. CASE s.stack # << >>
  <2>1. Head(s.stack) = s.stack[1]
    BY <1>1, AcyclicFields, TailFacts
  <2> DEFINE list == Ahead(s.stack[1].node)
             idx == s.stack[1].neighborIdx
  <2>2. AcyclicStep[s] = IF idx \in DOMAIN list THEN Advance(s, list[idx]) ELSE Leave(s)
    BY <1>1, <2>1 DEF AcyclicStep, Ahead
  <2>3. CASE idx \in DOMAIN list
    <3>1. AcyclicStep[s] = Advance(s, list[idx])
      BY <2>2, <2>3
    <3> QED BY <3>1, <1>1, <2>3, AdvanceKeeps
  <2>4. CASE idx \notin DOMAIN list
    <3>1. AcyclicStep[s] = Leave(s)
      BY <2>2, <2>4
    <3> QED BY <3>1, <1>1, <2>4, LeaveKeeps
  <2> QED BY <2>3, <2>4
<1>2. CASE s.stack = << >>
  <2>1. AcyclicStep[s] = NextKey(s)
    BY <1>2 DEF AcyclicStep
  <2> QED BY <2>1, <1>2, NextKeyKeeps
<1> QED BY <1>1, <1>2

(***************************************************************************)
(* The search says there is no cycle exactly when no node is on one.       *)
(***************************************************************************)
LEMMA AcyclicStarts ==
  ASSUME Settled
  PROVE  LET s0 == [stack |-> << >>, visited |-> {}, recursionStack |-> {},
                    keys |-> KeysIn(nodes), acyclic |-> TRUE]
         IN  s0 \in AcyclicState /\ AcyclicInv(s0)
<1> DEFINE s0 == [stack |-> << >>, visited |-> {}, recursionStack |-> {},
                  keys |-> KeysIn(nodes), acyclic |-> TRUE]
<1>1. KeysIn(nodes) \in Seq(nodes) /\ ToSet(KeysIn(nodes)) = nodes
  BY SettledGraph, KeysAscend
<1>2. s0 \in AcyclicState
  <2>1. << >> \in Seq([node : nodes, neighborIdx : Nat])
    OBVIOUS
  <2> QED BY <2>1, <1>1 DEF AcyclicState
<1>3. /\ s0.stack = << >> /\ s0.visited = {} /\ s0.recursionStack = {} /\ s0.keys = KeysIn(nodes)
      /\ s0.acyclic
  OBVIOUS
<1> HIDE DEF s0
<1>4. Off(s0) = {} /\ Spent({})
  BY <1>3 DEF Off, Spent
<1>5. Path(<< >>, {}, {})
  <2>1. DOMAIN << >> = {}
    OBVIOUS
  <2> QED BY <2>1 DEF Path
<1>6. AcyclicInv(s0)
  BY <1>1, <1>3, <1>4, <1>5 DEF AcyclicInv
<1> QED BY <1>2, <1>6 DEF s0

LEMMA CycleSearch ==
  ASSUME Settled
  PROVE  IsAcyclic <=> \A n \in nodes : ~ OnCycle(n)
<1> DEFINE step  == AcyclicStep
           I     == { s \in AcyclicState : AcyclicInv(s) }
           Done  == { s \in I : ~ s.acyclic \/ (s.stack = << >> /\ s.keys = << >>) }
           outer == [s \in I |-> Undone(s)]
           inner == [s \in I |-> Budget(s)]
           s0    == [stack |-> << >>, visited |-> {}, recursionStack |-> {},
                     keys |-> KeysIn(nodes), acyclic |-> TRUE]
<1>1. step \in [AcyclicState -> AcyclicState]
  <2>1. \A s \in AcyclicState : step[s] \in AcyclicState
    <3> SUFFICES ASSUME NEW s \in AcyclicState PROVE step[s] \in AcyclicState
      OBVIOUS
    <3>1. CASE ~ s.acyclic \/ (s.stack = << >> /\ s.keys = << >>)
      BY <3>1 DEF AcyclicStep
    <3>2. CASE s.acyclic /\ s.stack = << >> /\ s.keys # << >>
      <4>1. step[s] = NextKey(s)
        BY <3>2 DEF AcyclicStep
      <4> QED BY <4>1, <3>2, NextKeyCases
    <3>3. CASE s.acyclic /\ s.stack # << >>
      <4>1. Head(s.stack) = s.stack[1] /\ s.stack[1] \in Frame
        BY <3>3, AcyclicFields, TailFacts
      <4> DEFINE list == Ahead(s.stack[1].node)
                 idx == s.stack[1].neighborIdx
      <4>2. step[s] = IF idx \in DOMAIN list THEN Advance(s, list[idx]) ELSE Leave(s)
        BY <3>3, <4>1 DEF AcyclicStep, Ahead
      <4>3. list \in Seq(nodes)
        BY <4>1, BeyondFacts DEF Frame
      <4>4. idx \in DOMAIN list => list[idx] \in nodes
        <5> HIDE DEF list, idx
        <5> QED BY <4>3, InSet
      <4> HIDE DEF list, idx, step
      <4>5. Leave(s) \in AcyclicState
        BY <3>3, LeaveCases
      <4>6. idx \in DOMAIN list => Advance(s, list[idx]) \in AcyclicState
        BY <3>3, <4>4, AdvanceCases
      <4> QED BY <4>2, <4>5, <4>6
    <3> QED BY <3>1, <3>2, <3>3
  <2>2. step = [s \in AcyclicState |-> step[s]]
    BY DEF AcyclicStep
  <2> HIDE DEF step
  <2> QED BY <2>1, <2>2
<1>2. outer \in [I -> Nat] /\ inner \in [I -> Nat]
  <2>1. \A s \in I : Undone(s) \in Nat /\ Budget(s) \in Nat
    BY Budgeted
  <2> QED BY <2>1
<1>3. s0 \in I
  BY AcyclicStarts
<1>4. ASSUME NEW s \in I \ Done
      PROVE  /\ step[s] \in I
             /\ \/ outer[step[s]] < outer[s]
                \/ outer[step[s]] = outer[s] /\ inner[step[s]] < inner[s]
  <2>1. /\ s \in AcyclicState /\ AcyclicInv(s) /\ s.acyclic /\ ~ (s.stack = << >> /\ s.keys = << >>)
    BY <1>4, AcyclicFields
  <2>2. step[s] \in I /\ Progress(s, step[s])
    BY <2>1, AcyclicStepKeeps
  <2> HIDE DEF step
  <2>3. /\ outer[step[s]] = Undone(step[s]) /\ inner[step[s]] = Budget(step[s])
        /\ outer[s] = Undone(s) /\ inner[s] = Budget(s)
    BY <2>2, <1>4
  <2> HIDE DEF outer, inner, I, Done
  <2> QED BY <2>2, <2>3 DEF Progress
<1>5. \A s \in Done : step[s] = s
  BY DEF AcyclicStep
<1> DEFINE e == Repeat(step, s0)
<1>6. e \in Done
  <2>1. ComesToRest(AcyclicState, step, I, Done, outer, inner)
    <3>1. I \in SUBSET AcyclicState /\ Done \in SUBSET I
      OBVIOUS
    <3> HIDE DEF step, outer, inner, I, s0, Done
    <3> QED BY <3>1, <1>1, <1>2, <1>4, <1>5 DEF ComesToRest
  <2> HIDE DEF step, outer, inner, I, s0, Done
  <2> QED BY <2>1, <1>3, RepeatFinishes
<1>7. e.acyclic = IsAcyclic
  BY DEF IsAcyclic
<1>8. e \in AcyclicState /\ AcyclicInv(e) /\ (~ e.acyclic \/ (e.stack = << >> /\ e.keys = << >>))
  <2> HIDE DEF e
  <2> QED BY <1>6
<1> HIDE DEF e, step
<1>9. CASE ~ e.acyclic
  <2>1. \E n \in nodes : OnCycle(n)
    BY <1>8, <1>9 DEF AcyclicInv
  <2> QED BY <2>1, <1>7, <1>9
<1>10. CASE e.acyclic
  <2>1. e.stack = << >> /\ e.keys = << >>
    BY <1>8, <1>10
  <2>2. /\ Path(e.stack, e.recursionStack, Off(e)) /\ nodes = ToSet(e.keys) \cup e.visited
        /\ Spent(Off(e))
    BY <1>8, <1>10 DEF AcyclicInv
  <2>3. e.recursionStack = {}
    <3>1. DOMAIN e.stack = {}
      BY <2>1
    <3> QED BY <2>2, <3>1 DEF Path
  <2>4. ToSet(e.keys) = {}
    BY <2>1 DEF ToSet
  <2>5. Off(e) = nodes
    BY <2>2, <2>3, <2>4 DEF Off
  <2> QED BY <2>2, <2>5, <1>7, <1>10 DEF Spent
<1> QED BY <1>8, <1>9, <1>10, AcyclicFields

-----------------------------------------------------------------------------
\* Each search, from start, yields what it promises in the order it promises.
InOrderFrom(start, direction) ==
  DepthFirst(start, direction) /\ BreadthFirst(start, direction) /\ ChildrenFirst(start, direction)

(***************************************************************************)
(* After any operations, outside their loops, the three searches end and   *)
(* yield what is reachable, each node once and in their order, from any    *)
(* sequence of start nodes or the default ones, in either direction        *)
(* (graph.go:514-629).                                                     *)
(***************************************************************************)
THEOREM SearchesFromAnyNodes ==
  Spec => [](AtRest => \A start \in Seq(nodes), direction \in Direction : InOrderFrom(start, direction))
<1>1. IInv => (AtRest => \A start \in Seq(nodes), direction \in Direction : InOrderFrom(start, direction))
  <2> SUFFICES ASSUME IInv, AtRest, NEW start \in Seq(nodes), NEW direction \in Direction
               PROVE  InOrderFrom(start, direction)
    OBVIOUS
  <2>1. Settled
    BY DEF IInv, Settled
  <2> QED BY <2>1, DepthFirstSearch, BreadthFirstSearch, PostOrderSearch DEF InOrderFrom
<1> QED BY <1>1, InvInit, InvNext, PTL DEF Spec

LEMMA StartsAreNodes == ASSUME NEW start \in Starts PROVE start \in Seq(nodes)
<1>1. PICK k \in 0 .. 2 : start \in [1 .. k -> nodes]
  BY DEF Starts
<1>2. k \in Nat
  BY <1>1
<1> QED BY <1>1, <1>2

(***************************************************************************)
(* In particular from at most two start nodes, which is what the runs try  *)
(* (GraphTraversal.tla, SearchesInOrder).                                  *)
(***************************************************************************)
THEOREM SearchesKeepTheirOrder == Spec => []SearchesInOrder
<1>1. (AtRest => \A start \in Seq(nodes), direction \in Direction : InOrderFrom(start, direction))
        => SearchesInOrder
  <2> SUFFICES ASSUME \A start \in Seq(nodes), direction \in Direction : InOrderFrom(start, direction),
                      NEW start \in Starts, NEW direction \in Direction
               PROVE  InOrderFrom(start, direction)
    BY DEF SearchesInOrder, InOrderFrom
  <2> QED BY StartsAreNodes
<1> QED BY <1>1, SearchesFromAnyNodes, PTL

(***************************************************************************)
(* After any operations, outside their loops, Topo yields the smallest     *)
(* ready node for as long as there is one, and no node of a cycle, and     *)
(* IsAcyclic says whether there is a cycle (GraphTraversal.tla,            *)
(* TopologicalOrder).                                                      *)
(***************************************************************************)
THEOREM TopoKeepsItsOrder == Spec => []TopologicalOrder
<1>1. ASSUME IInv PROVE TopologicalOrder
  <2> SUFFICES ASSUME AtRest PROVE TopologicalOrder
    BY DEF TopologicalOrder
  <2>1. Settled
    BY <1>1 DEF IInv, Settled
  <2>2. /\ \A i \in DOMAIN Topo : NextReady(Topo, i)
        /\ Ready(ToSet(Topo)) = {}
        /\ \A n \in ToSet(Topo) : ~ OnCycle(n)
        /\ IsAcyclic <=> \A n \in nodes : ~ OnCycle(n)
    BY <2>1, TopologicalSort, CycleSearch
  <2>3. ASSUME NEW i \in DOMAIN Topo
        PROVE  Ready(Before(Topo, i)) # {} /\ Topo[i] = Min(Ready(Before(Topo, i)))
    <3> DEFINE S == Ready(Before(Topo, i))
    <3>1. Topo[i] \in S /\ \A r \in S : Topo[i] <= r
      BY <2>2 DEF NextReady
    <3>2. S \subseteq Nat
      BY <2>1, SettledGraph DEF Ready
    <3> HIDE DEF S
    <3>3. Min(S) \in S /\ \A r \in S : Min(S) <= r
      BY <3>1, <3>2, LeastOf
    <3>4. Topo[i] = Min(S)
      <4>1. Topo[i] \in Nat /\ Min(S) \in Nat
        BY <3>1, <3>2, <3>3
      <4>2. Topo[i] <= Min(S) /\ Min(S) <= Topo[i]
        BY <3>1, <3>3
      <4> QED BY <4>1, <4>2
    <3> QED BY <3>1, <3>4 DEF S
  <2> QED BY <2>2, <2>3 DEF TopologicalOrder, Ready, Before
<1>2. IInv => TopologicalOrder
  BY <1>1
<1> QED BY <1>2, InvInit, InvNext, PTL DEF Spec
=============================================================================
