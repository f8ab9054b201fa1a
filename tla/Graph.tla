------------------------------- MODULE Graph --------------------------------
(***************************************************************************)
(* The directed multigraph of internal/graph/graph.go: a table of edges    *)
(* and, for each node, the list of its outgoing and of its incoming edges, *)
(* which every operation must keep in agreement.  The data on nodes and    *)
(* edges is left out.                                                      *)
(*                                                                         *)
(* RemoveNode, FilterNodes and FilterEdges loop over Go maps, whose order  *)
(* is not defined: each iteration is a step, on any element that is left,  *)
(* and no other operation starts before the loop has ended.                *)
(***************************************************************************)
EXTENDS Integers, SequencesExt

CONSTANTS
  MaxNode, MaxEdge      \* bounds on the indices that are given out

ASSUME BoundsType == MaxNode \in Nat /\ MaxEdge \in Nat

NodeIndex == 0 .. (MaxNode - 1)
EdgeIndex == 0 .. (MaxEdge - 1)

VARIABLES
  nodes, edges,         \* edges maps an index to its source and target
  adjacency, reverseAdjacency,
  nextNodeIndex, nextEdgeIndex,
  toRemove,             \* nodes FilterNodes has still to remove
  removing, edgeSet,    \* {n} while RemoveNode(n) runs, and the edges it has still to unlink
  toDrop                \* edges FilterEdges has still to remove

graph == <<nodes, edges, adjacency, reverseAdjacency>>
next  == <<nextNodeIndex, nextEdgeIndex>>
loops == <<toRemove, removing, edgeSet, toDrop>>
vars  == <<graph, next, loops>>

AtRest == toRemove = {} /\ removing = {} /\ toDrop = {}

\* New
Init ==
  /\ nodes = {} /\ edges = << >>
  /\ adjacency = << >> /\ reverseAdjacency = << >>
  /\ nextNodeIndex = 0 /\ nextEdgeIndex = 0
  /\ toRemove = {} /\ removing = {} /\ edgeSet = {} /\ toDrop = {}

-----------------------------------------------------------------------------
Put(f, k, v) == [x \in DOMAIN f \cup {k} |-> IF x = k THEN v ELSE f[x]]

\* removeFromSlice: the first occurrence goes.
removeFromSlice(lists, n, e) == [lists EXCEPT ![n] = RemoveFirst(@, e)]

AddNode ==
  /\ AtRest /\ nextNodeIndex < MaxNode
  /\ nodes' = nodes \cup {nextNodeIndex}
  /\ adjacency' = Put(adjacency, nextNodeIndex, << >>)
  /\ reverseAdjacency' = Put(reverseAdjacency, nextNodeIndex, << >>)
  /\ nextNodeIndex' = nextNodeIndex + 1
  /\ UNCHANGED <<edges, nextEdgeIndex, loops>>

\* Panics if one of the nodes does not exist.
AddEdge(source, target) ==
  /\ AtRest /\ nextEdgeIndex < MaxEdge
  /\ source \in nodes /\ target \in nodes
  /\ edges' = Put(edges, nextEdgeIndex, [source |-> source, target |-> target])
  /\ adjacency' = [adjacency EXCEPT ![source] = Append(@, nextEdgeIndex)]
  /\ reverseAdjacency' = [reverseAdjacency EXCEPT ![target] = Append(@, nextEdgeIndex)]
  /\ nextEdgeIndex' = nextEdgeIndex + 1
  /\ UNCHANGED <<nodes, nextNodeIndex, loops>>

\* Removes an edge and its entries in both lists.
Drop(e) ==
  /\ edges' = Restrict(edges, DOMAIN edges \ {e})
  /\ adjacency' = removeFromSlice(adjacency, edges[e].source, e)
  /\ reverseAdjacency' = removeFromSlice(reverseAdjacency, edges[e].target, e)
  /\ UNCHANGED <<nodes, next, toRemove, removing, edgeSet>>

RemoveEdge(e) ==
  /\ AtRest /\ e \in DOMAIN edges
  /\ Drop(e)
  /\ UNCHANGED toDrop

\* The edges are collected, then the predicate's verdict is carried out.
FilterEdges(drop) ==
  /\ AtRest
  /\ toDrop' = drop
  /\ UNCHANGED <<graph, next, toRemove, removing, edgeSet>>

DropFiltered(e) ==
  /\ e \in toDrop
  /\ Drop(e)
  /\ toDrop' = toDrop \ {e}

-----------------------------------------------------------------------------
\* Mutation of Incident: only the edges that leave the node are collected.
Incident_Outgoing(n) == ToSet(adjacency[n])

\* A self-loop is in both lists, and is collected once.
Incident(n) == ToSet(adjacency[n]) \cup ToSet(reverseAdjacency[n])

StartRemoval(n) ==
  /\ removing' = {n}
  /\ edgeSet' = Incident(n)
  /\ UNCHANGED <<graph, next, toDrop>>

RemoveNode(n) ==
  /\ AtRest /\ n \in nodes
  /\ StartRemoval(n)
  /\ UNCHANGED toRemove

FilterNodes(drop) ==
  /\ AtRest
  /\ toRemove' = drop
  /\ UNCHANGED <<graph, next, removing, edgeSet, toDrop>>

RemoveFiltered(n) ==
  /\ removing = {} /\ n \in toRemove
  /\ StartRemoval(n)
  /\ toRemove' = toRemove \ {n}

\* Mutation of UnlinkEdge: the list of the edge's target is forgotten.
UnlinkEdge_SourceOnly(e) ==
  /\ removing # {} /\ e \in edgeSet
  /\ adjacency' = IF edges[e].source \in removing THEN adjacency
                  ELSE removeFromSlice(adjacency, edges[e].source, e)
  /\ edges' = Restrict(edges, DOMAIN edges \ {e})
  /\ edgeSet' = edgeSet \ {e}
  /\ UNCHANGED <<nodes, reverseAdjacency, next, toRemove, removing, toDrop>>

\* Only the lists of the node at the other end are brought up to date.
UnlinkEdge(e) ==
  /\ removing # {} /\ e \in edgeSet
  /\ adjacency' = IF edges[e].source \in removing THEN adjacency
                  ELSE removeFromSlice(adjacency, edges[e].source, e)
  /\ reverseAdjacency' = IF edges[e].target \in removing THEN reverseAdjacency
                         ELSE removeFromSlice(reverseAdjacency, edges[e].target, e)
  /\ edges' = Restrict(edges, DOMAIN edges \ {e})
  /\ edgeSet' = edgeSet \ {e}
  /\ UNCHANGED <<nodes, next, toRemove, removing, toDrop>>

\* Mutation of DeleteNode: its lists are left behind.
DeleteNode_KeepsLists ==
  /\ removing # {} /\ edgeSet = {}
  /\ nodes' = nodes \ removing
  /\ removing' = {}
  /\ UNCHANGED <<edges, adjacency, reverseAdjacency, next, toRemove, edgeSet, toDrop>>

DeleteNode ==
  /\ removing # {} /\ edgeSet = {}
  /\ nodes' = nodes \ removing
  /\ adjacency' = Restrict(adjacency, DOMAIN adjacency \ removing)
  /\ reverseAdjacency' = Restrict(reverseAdjacency, DOMAIN reverseAdjacency \ removing)
  /\ removing' = {}
  /\ UNCHANGED <<edges, next, toRemove, edgeSet, toDrop>>

\* Reverse
Turn ==
  /\ AtRest
  /\ edges' = [e \in DOMAIN edges |-> [source |-> edges[e].target, target |-> edges[e].source]]
  /\ adjacency' = reverseAdjacency /\ reverseAdjacency' = adjacency
  /\ UNCHANGED <<nodes, next, loops>>

Next ==
  \/ AddNode \/ Turn \/ DeleteNode
  \/ \E s, t \in nodes : AddEdge(s, t)
  \/ \E e \in DOMAIN edges : RemoveEdge(e) \/ DropFiltered(e) \/ UnlinkEdge(e)
  \/ \E n \in nodes : RemoveNode(n) \/ RemoveFiltered(n)
  \/ \E N \in SUBSET nodes : FilterNodes(N)
  \/ \E E \in SUBSET DOMAIN edges : FilterEdges(E)

Spec == Init /\ [][Next]_vars

-----------------------------------------------------------------------------
TypeOK ==
  /\ nextNodeIndex \in 0 .. MaxNode /\ nextEdgeIndex \in 0 .. MaxEdge
  /\ nodes \subseteq 0 .. (nextNodeIndex - 1)
  /\ DOMAIN edges \subseteq 0 .. (nextEdgeIndex - 1)
  /\ edges \in [DOMAIN edges -> [source : nodes, target : nodes]]
  /\ adjacency \in [nodes -> Seq(EdgeIndex)]
  /\ reverseAdjacency \in [nodes -> Seq(EdgeIndex)]
  /\ toRemove \subseteq nodes /\ toDrop \subseteq DOMAIN edges
  /\ removing \subseteq nodes \ toRemove /\ \A m, n \in removing : m = n
  /\ edgeSet \subseteq DOMAIN edges

\* The list holds the set, in ascending order.
Lists(list, E) ==
  /\ ToSet(list) = E
  /\ \A i, j \in DOMAIN list : i < j => list[i] < list[j]

\* The edge table and both adjacency tables tell the same graph, and every
\* list is in the order in which its edges were added, which OutgoingEdges
\* and the traversals promise (graph.go:193, graph.go:475).
AdjacencyAgrees ==
  \A n \in nodes \ removing :
    /\ Lists(adjacency[n], { e \in DOMAIN edges : edges[e].source = n })
    /\ Lists(reverseAdjacency[n], { e \in DOMAIN edges : edges[e].target = n })

\* The operations, loops and all, implement those of a graph of nodes and
\* edges.  A removal takes effect when its loop starts, and leaves nothing
\* behind when it ends.
Going == toRemove \cup removing
Live  == { e \in DOMAIN edges \ toDrop :
             edges[e].source \notin Going /\ edges[e].target \notin Going }

Abstract == INSTANCE AbstractGraph WITH
  Node <- NodeIndex, Edge <- EdgeIndex,
  nodes <- nodes \ Going,
  edges <- Restrict(edges, Live),
  usedNodes <- 0 .. (nextNodeIndex - 1),
  usedEdges <- 0 .. (nextEdgeIndex - 1)

ImplementsAbstractGraph == Abstract!Spec
=============================================================================
