--------------------------- MODULE GraphTraversal ---------------------------
(***************************************************************************)
(* The traversals of internal/graph/graph.go on the graph of module Graph, *)
(* and what each promises, on every graph the operations can build.  A     *)
(* traversal is the repetition of a step on a record of its local          *)
(* variables, one step per iteration of the innermost loop that runs;      *)
(* pending is what an inner loop has still to go through.  The top of a    *)
(* stack is the head of its sequence.                                      *)
(***************************************************************************)
EXTENDS Graph

\* A loop repeats its step until there is nothing left to do.
Repeat(step, start) ==
  LET run[s \in DOMAIN step] == IF step[s] = s THEN s ELSE run[step[s]]
  IN  run[start]

Direction == {"Outgoing", "Incoming"}

AdjList(n, direction) ==
  IF direction = "Incoming" THEN reverseAdjacency[n] ELSE adjacency[n]

FarEnd(e, direction) ==
  IF direction = "Incoming" THEN edges[e].source ELSE edges[e].target

\* The elements of the list that are in S, sorted.
SortedIn(list, S) ==
  LET kept    == { p \in DOMAIN list : list[p] \in S }
      rank(p) == Cardinality({ q \in kept : list[q] < list[p] \/ (list[q] = list[p] /\ q < p) })
  IN  [i \in 1 .. Cardinality(kept) |-> list[CHOOSE p \in kept : rank(p) = i - 1]]

sortedNeighborsDirected(n, direction) ==
  LET known == SortedIn(AdjList(n, direction), DOMAIN edges)
  IN  [i \in DOMAIN known |-> FarEnd(known[i], direction)]

\* The keys of the node table, collected in no particular order, sorted, and
\* of these the ones in S.
KeysIn(S) == SortedIn(SetToSeq(nodes), S)

\* The nodes with no edge in the direction, in index order.
Externals(direction) == KeysIn({ n \in nodes : AdjList(n, direction) = << >> })

\* Whatever the direction, the default is the nodes without incoming edges.
StartNodes(start) == IF start = << >> THEN Externals("Incoming") ELSE start

-----------------------------------------------------------------------------
\* Pending nodes are pushed from the last to the first, which is popped first.
\* What is discovered is what has been yielded.
DFSState == [stack : Seq(nodes), pending : Seq(nodes), yielded : Seq(nodes)]

DFSStep(direction) == [s \in DFSState |->
  IF s.pending # << >> THEN
    [s EXCEPT !.pending = Front(@),
              !.stack = IF Last(s.pending) \in ToSet(s.yielded) THEN @ ELSE <<Last(s.pending)>> \o @]
  ELSE IF s.stack = << >> THEN s
  ELSE IF Head(s.stack) \in ToSet(s.yielded) THEN [s EXCEPT !.stack = Tail(@)]
  ELSE [stack   |-> Tail(s.stack),
        pending |-> sortedNeighborsDirected(Head(s.stack), direction),
        yielded |-> Append(s.yielded, Head(s.stack))]]

DFS(start, direction) ==
  Repeat(DFSStep(direction),
         [stack |-> << >>, pending |-> StartNodes(start), yielded |-> << >>]).yielded

Entry == [node : nodes, expanded : BOOLEAN]

PostOrderState ==
  [stack : Seq(Entry), pending : Seq(nodes), discovered : SUBSET nodes, yielded : Seq(nodes)]

\* Mutation of DiscoveredAtVisit: the neighbors are discovered with the node.
DiscoveredAtVisit_Neighbors(n, neighbors) == {n} \cup ToSet(neighbors)

DiscoveredAtVisit(n, neighbors) == {n}

Visit(s, n, direction) ==
  LET neighbors == sortedNeighborsDirected(n, direction)
  IN  [stack      |-> <<[node |-> n, expanded |-> TRUE]>> \o Tail(s.stack),
       pending    |-> neighbors,
       discovered |-> s.discovered \cup DiscoveredAtVisit(n, neighbors),
       yielded    |-> s.yielded]

\* A visited node goes back on the stack below its children, and is yielded
\* when it comes up again.
PostOrderStep(direction) == [s \in PostOrderState |->
  IF s.pending # << >> THEN
    [s EXCEPT !.pending = Front(@),
              !.stack = IF Last(s.pending) \in s.discovered THEN @
                        ELSE <<[node |-> Last(s.pending), expanded |-> FALSE]>> \o @]
  ELSE IF s.stack = << >> THEN s
  ELSE IF Head(s.stack).node \notin s.discovered THEN Visit(s, Head(s.stack).node, direction)
  ELSE [s EXCEPT !.stack = Tail(@),
                 !.yielded = IF Head(s.stack).expanded THEN Append(@, Head(s.stack).node) ELSE @]]

DFSPostOrder(start, direction) ==
  Repeat(PostOrderStep(direction),
         [stack |-> << >>, pending |-> StartNodes(start), discovered |-> {}, yielded |-> << >>]).yielded

BFSState ==
  [queue : Seq(nodes), pending : Seq(nodes), discovered : SUBSET nodes, yielded : Seq(nodes)]

\* A pending node joins the queue when it is discovered: once.
Discover(s, n) ==
  IF n \in s.discovered THEN [s EXCEPT !.pending = Tail(@)]
  ELSE [s EXCEPT !.pending = Tail(@), !.discovered = @ \cup {n}, !.queue = Append(@, n)]

BFSStep(direction) == [s \in BFSState |->
  IF s.pending # << >> THEN Discover(s, Head(s.pending))
  ELSE IF s.queue = << >> THEN s
  ELSE [s EXCEPT !.queue = Tail(@),
                 !.pending = sortedNeighborsDirected(Head(s.queue), direction),
                 !.yielded = Append(@, Head(s.queue))]]

BFS(start, direction) ==
  Repeat(BFSStep(direction),
         [queue |-> << >>, pending |-> StartNodes(start), discovered |-> {}, yielded |-> << >>]).yielded

-----------------------------------------------------------------------------
\* Mutation of InDegree: parallel edges count once.
InDegree_Sources(n) == Cardinality({ edges[e].source : e \in ToSet(reverseAdjacency[n]) })

InDegree(n) == Len(reverseAdjacency[n])

\* BinarySearch finds the first place in the sorted queue that is not below.
InsertSorted(queue, n) ==
  InsertAt(queue, Min({ p \in 1 .. (Len(queue) + 1) : p > Len(queue) \/ queue[p] >= n }), n)

TopoState ==
  [queue : Seq(nodes), degree : [nodes -> Int], pending : Seq(nodes), yielded : Seq(nodes)]

Release(s, n) ==
  [s EXCEPT !.pending = Tail(@), !.degree[n] = @ - 1,
            !.queue = IF s.degree[n] = 1 THEN InsertSorted(@, n) ELSE @]

TopoStep == [s \in TopoState |->
  IF s.pending # << >> THEN Release(s, Head(s.pending))
  ELSE IF s.queue = << >> THEN s
  ELSE [s EXCEPT !.queue = Tail(@),
                 !.pending = sortedNeighborsDirected(Head(s.queue), "Outgoing"),
                 !.yielded = Append(@, Head(s.queue))]]

Topo ==
  LET degree == [n \in nodes |-> InDegree(n)] IN
  Repeat(TopoStep, [queue |-> KeysIn({ n \in nodes : degree[n] = 0 }), degree |-> degree,
                    pending |-> << >>, yielded |-> << >>]).yielded

AcyclicState ==
  [stack : Seq([node : nodes, neighborIdx : Nat]), visited : SUBSET nodes,
   recursionStack : SUBSET nodes, keys : Seq(nodes), acyclic : BOOLEAN]

Enter(s, n) ==
  [s EXCEPT !.stack = <<[node |-> n, neighborIdx |-> 1]>> \o @,
            !.visited = @ \cup {n}, !.recursionStack = @ \cup {n}]

NextKey(s) ==
  IF Head(s.keys) \in s.visited THEN [s EXCEPT !.keys = Tail(@)]
  ELSE [Enter(s, Head(s.keys)) EXCEPT !.keys = Tail(@)]

\* The next neighbor of the node on top; a back edge ends the search.
Advance(s, n) ==
  LET advanced == [s EXCEPT !.stack[1].neighborIdx = @ + 1]
  IN  IF n \in s.recursionStack THEN [advanced EXCEPT !.acyclic = FALSE]
      ELSE IF n \in s.visited THEN advanced
      ELSE Enter(advanced, n)

Leave(s) ==
  [s EXCEPT !.stack = Tail(@), !.recursionStack = @ \ {Head(s.stack).node}]

AcyclicStep == [s \in AcyclicState |->
  IF ~ s.acyclic THEN s
  ELSE IF s.stack # << >> THEN
    LET neighbors == sortedNeighborsDirected(Head(s.stack).node, "Outgoing")
    IN  IF Head(s.stack).neighborIdx \in DOMAIN neighbors
        THEN Advance(s, neighbors[Head(s.stack).neighborIdx])
        ELSE Leave(s)
  ELSE IF s.keys # << >> THEN NextKey(s)
  ELSE s]

IsAcyclic ==
  Repeat(AcyclicStep, [stack |-> << >>, visited |-> {}, recursionStack |-> {},
                       keys |-> KeysIn(nodes), acyclic |-> TRUE]).acyclic

-----------------------------------------------------------------------------
\* The nodes one step from n in the direction, in terms of the edges alone.
Successors(n, direction) ==
  { FarEnd(e, direction) : e \in { x \in DOMAIN edges :
      n = IF direction = "Incoming" THEN edges[x].target ELSE edges[x].source } }

\* What is in every set that contains S and all that it leads to.
Reached(S, direction) ==
  { n \in nodes : \A N \in SUBSET nodes :
      S \subseteq N /\ (\A m \in N : Successors(m, direction) \subseteq N) => n \in N }

OnCycle(n) == n \in Reached(Successors(n, "Outgoing"), "Outgoing")

Starts == UNION { [1 .. k -> nodes] : k \in 0 .. 2 }

YieldsOnce(result, S) == ToSet(result) = S /\ Len(result) = Cardinality(S)

ReachedFrom(start, direction) == Reached(ToSet(StartNodes(start)), direction)

\* The places of the neighbors of n that are not among the nodes before.
Fresh(n, before, direction) ==
  LET neighbors == sortedNeighborsDirected(n, direction)
  IN  { a \in DOMAIN neighbors : neighbors[a] \notin before }

\* The next node of a search continues from the node that Choice picks among
\* the yielded ones with a fresh neighbor, along its first such edge.
ContinuesFrom(result, direction, Choice(_), i) ==
  LET before == { result[j] : j \in 1 .. (i - 1) }
      open   == { j \in 1 .. (i - 1) : Fresh(result[j], before, direction) # {} }
      from   == result[Choice(open)]
  IN  open # {} => result[i] = sortedNeighborsDirected(from, direction)[Min(Fresh(from, before, direction))]

DepthFirst(start, direction) ==
  LET result == DFS(start, direction)
  IN  /\ YieldsOnce(result, ReachedFrom(start, direction))
      /\ \A i \in DOMAIN result : ContinuesFrom(result, direction, Max, i)

BreadthFirst(start, direction) ==
  LET result == BFS(start, direction)
      S == ToSet(StartNodes(start))
  IN  /\ YieldsOnce(result, ReachedFrom(start, direction))
      /\ \A i \in DOMAIN result :
           IF i <= Cardinality(S) THEN result[i] \in S ELSE ContinuesFrom(result, direction, Min, i)

ChildrenFirst(start, direction) ==
  LET result == DFSPostOrder(start, direction)
  IN  /\ YieldsOnce(result, ReachedFrom(start, direction))
      /\ \A i, j \in DOMAIN result :
           /\ result[j] \in Successors(result[i], direction)
           /\ result[i] \notin Reached({result[j]}, direction)
           => j < i

\* Every search yields every reachable node once.  DFS goes on from the node it
\* yielded last, as far as one has a fresh neighbor, and BFS from the one it
\* yielded first, once the start nodes are through (graph.go:514, graph.go:595);
\* in post-order "Children are emitted before their parents" (graph.go:555),
\* which a cycle through both rules out.
SearchesInOrder ==
  AtRest => \A start \in Starts, direction \in Direction :
    /\ DepthFirst(start, direction)
    /\ BreadthFirst(start, direction)
    /\ ChildrenFirst(start, direction)

\* Topo yields next the smallest node all of whose predecessors it has
\* yielded, until there is none: on an acyclic graph it yields every node,
\* otherwise none that is on a cycle (graph.go:631).  IsAcyclic finds every
\* cycle, and takes neither parallel edges nor a node reached on two paths for
\* one (graph.go:678).
TopologicalOrder ==
  AtRest =>
    LET Ready(done) == { n \in nodes \ done : Successors(n, "Incoming") \subseteq done }
    IN  /\ \A i \in DOMAIN Topo : LET ready == Ready({ Topo[j] : j \in 1 .. (i - 1) })
                                  IN  ready # {} /\ Topo[i] = Min(ready)
        /\ Ready(ToSet(Topo)) = {}
        /\ \A n \in ToSet(Topo) : ~ OnCycle(n)
        /\ IsAcyclic <=> \A n \in nodes : ~ OnCycle(n)
=============================================================================
