--------------------------- MODULE AbstractGraph ----------------------------
(***************************************************************************)
(* What a directed multigraph promises: nodes and edges are known by       *)
(* indices that are never given out twice, and an edge lives exactly as    *)
(* long as it is not removed and both its nodes are there.                 *)
(***************************************************************************)
EXTENDS Functions

CONSTANTS Node, Edge        \* every index there may be

VARIABLES
  nodes, edges,             \* the edges, by index, with source and target
  usedNodes, usedEdges      \* every index given out so far

vars == <<nodes, edges, usedNodes, usedEdges>>

Init == nodes = {} /\ edges = << >> /\ usedNodes = {} /\ usedEdges = {}

AddNode ==
  /\ \E n \in Node \ usedNodes : nodes' = nodes \cup {n} /\ usedNodes' = usedNodes \cup {n}
  /\ UNCHANGED <<edges, usedEdges>>

AddEdge ==
  /\ \E e \in Edge \ usedEdges, s \in nodes, t \in nodes :
       /\ edges' = [f \in DOMAIN edges \cup {e} |->
                      IF f = e THEN [source |-> s, target |-> t] ELSE edges[f]]
       /\ usedEdges' = usedEdges \cup {e}
  /\ UNCHANGED <<nodes, usedNodes>>

\* Nodes and edges are removed; the edges of a removed node go with it.
Remove ==
  /\ nodes' \subseteq nodes
  /\ DOMAIN edges' \subseteq DOMAIN edges
  /\ edges' = Restrict(edges, DOMAIN edges')
  /\ \A e \in DOMAIN edges' : edges[e].source \in nodes' /\ edges[e].target \in nodes'
  /\ UNCHANGED <<usedNodes, usedEdges>>

Turn ==
  /\ edges' = [e \in DOMAIN edges |-> [source |-> edges[e].target, target |-> edges[e].source]]
  /\ UNCHANGED <<nodes, usedNodes, usedEdges>>

Next == AddNode \/ AddEdge \/ Remove \/ Turn

Spec == Init /\ [][Next]_vars
=============================================================================
