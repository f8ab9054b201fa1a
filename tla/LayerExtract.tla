---------------------------- MODULE LayerExtract ----------------------------
(***************************************************************************)
(* How the composition of a layer is read off the source: the work stack   *)
(* of ExtractLayerGraph (internal/layergraph/extract.go), and who is named *)
(* as the provider of a service (internal/layergraph/providers.go).        *)
(*                                                                         *)
(* The source is a set of expressions, each with its kind, the expressions *)
(* that it takes apart into, the expression that declares it and whether   *)
(* its type is a layer.  One service stands for whichever is looked for: a *)
(* layer is "wanted" if it provides it, "other" if not.                    *)
(***************************************************************************)
EXTENDS Integers, SequencesExt

CONSTANTS
  Ast,                \* the expressions; 0 is none of them
  Requested,          \* the one asked about
  Inputs              \* the programs that are tried, each set of them under some options

LayerType == {"none", "other", "wanted"}

Expression ==
  [kind : {"pipe", "call", "array", "identifier", "other"},
   children : Seq(Ast),               \* subject and arguments, arguments or elements
   declaration : Ast \cup {0},        \* of an identifier, if there is exactly one
   layerCall : BOOLEAN,               \* a call of the Layer module
   type : LayerType, returns : LayerType]   \* its own, the return type its context expects

Option ==
  [ArrayLiteralAsMerge : BOOLEAN, ExplodeOnlyLayerCalls : BOOLEAN,
   FollowSymbolsDepth : Nat, SkipExplode : BOOLEAN]

ASSUME InputsType ==
  /\ Ast \subseteq Nat \ {0} /\ Requested \in Ast
  /\ \A given \in Inputs : given.programs \subseteq [Ast -> Expression] /\ given.options \subseteq Option

\* A pipe has a subject, and the source is a tree: an expression is a member of
\* one other at most, at one place, and the one asked about, taken alone, of none.
IsTree(program) ==
  \A m \in Ast :
    /\ program[m].kind = "pipe" => program[m].children # << >>
    /\ \A i \in DOMAIN program[m].children :
         /\ program[m].children[i] # Requested
         /\ \A n \in Ast : \A j \in DOMAIN program[n].children :
              program[m].children[i] = program[n].children[j] => m = n /\ i = j

ASSUME InputsAreTrees == \A given \in Inputs : \A program \in given.programs : IsTree(program)

\* A declaration is read at its initializer, which is a member of nothing.
ReadsInitializers(program) ==
  \A m, n \in Ast : program[n].declaration \notin ToSet(program[m].children)

ASSUME InputsReadInitializers ==
  \A given \in Inputs : \A program \in given.programs : ReadsInitializers(program)

VARIABLES
  source, opts,                           \* the input
  pc,                                     \* "extract", "walk" or "done"
  stack,                                  \* the work stack, its top at the head
  depthBudget, visitedNodes, nodeInPipeContext,
  nodes, edges, nextNodeIndex, nextEdgeIndex,   \* the graph
  nodeToGraphIndex,
  queue, discovered, providers            \* the walk to the providers

input == <<source, opts>>
graph == <<nodes, edges, nextNodeIndex, nextEdgeIndex>>
marks == <<depthBudget, visitedNodes, nodeInPipeContext>>
walk  == <<queue, discovered, providers>>
vars  == <<input, pc, stack, marks, graph, nodeToGraphIndex, walk>>

current     == Head(stack)
children(n) == source[n].children

-----------------------------------------------------------------------------
(***************************************************************************)
(* Reading an expression.                                                  *)
(***************************************************************************)
Explodes(n) ==
  /\ ~ opts.SkipExplode
  /\ \/ source[n].kind = "pipe"
     \/ source[n].kind = "call" /\ (opts.ExplodeOnlyLayerCalls => source[n].layerCall)
     \/ source[n].kind = "array" /\ opts.ArrayLiteralAsMerge

\* Mutation of FollowsSymbol: a reference is followed once more than the depth allows.
FollowsSymbol_AtZero(n) == source[n].kind = "identifier" /\ source[n].declaration # 0

FollowsSymbol(n) ==
  depthBudget[n] > 0 /\ source[n].kind = "identifier" /\ source[n].declaration # 0

layerType(n) == IF n \in nodeInPipeContext THEN source[n].returns ELSE source[n].type

InGraph(n) == n \in DOMAIN nodeToGraphIndex /\ nodeToGraphIndex[n] \in DOMAIN nodes
\* Mutation of Complete: one member is enough.
Complete_AnyMember(n) == \E c \in ToSet(children(n)) : InGraph(c)

Complete(n) == \A c \in ToSet(children(n)) : InGraph(c)

\* The members of a set of numbers in ascending order: each behind those below it.
InOrder(S) ==
  [k \in 1 .. Cardinality(S) |-> CHOOSE i \in S : Cardinality({ j \in S : j < i }) = k - 1]

childIndices(n) ==
  LET found == InOrder({ i \in DOMAIN children(n) : InGraph(children(n)[i]) })
  IN  [k \in DOMAIN found |-> nodeToGraphIndex[children(n)[found[k]]]]

-----------------------------------------------------------------------------
(***************************************************************************)
(* Writing the graph.                                                      *)
(***************************************************************************)
AddNode(N, E, index, n, added) ==
  /\ nodes' = [i \in DOMAIN N \cup {nextNodeIndex} |->
                 IF i = nextNodeIndex THEN [node |-> n, type |-> layerType(n)] ELSE N[i]]
  /\ edges' = [k \in DOMAIN E \cup nextEdgeIndex .. (nextEdgeIndex + Len(added) - 1) |->
                 IF k \in DOMAIN E THEN E[k] ELSE added[k - nextEdgeIndex + 1]]
  /\ nextNodeIndex' = nextNodeIndex + 1 /\ nextEdgeIndex' = nextEdgeIndex + Len(added)
  /\ nodeToGraphIndex' = [a \in DOMAIN index \cup {n} |-> IF a = n THEN nextNodeIndex ELSE index[a]]

Edge(i, j, relationship) == [source |-> i, target |-> j, relationship |-> relationship]

\* Each member is linked to the one before it, the composition to what it is made of.
Links(n) ==
  LET at == childIndices(n) IN
  IF source[n].kind = "pipe"
    THEN [i \in 1 .. Len(at) |-> Edge(IF i < Len(at) THEN at[i + 1] ELSE nextNodeIndex, at[i], "pipe")]
    ELSE [i \in 1 .. Len(at) |-> Edge(nextNodeIndex, at[i], source[n].kind)]

\* The expression is popped and, if it is a layer, shown on its own.
AddLeaf(N, E, index, n) ==
  IF layerType(n) # "none" THEN AddNode(N, E, index, n, << >>)
  ELSE /\ nodes' = N /\ edges' = E /\ nodeToGraphIndex' = index
       /\ UNCHANGED <<nextNodeIndex, nextEdgeIndex>>

-----------------------------------------------------------------------------
NoGraph ==
  /\ nodes = << >> /\ edges = << >> /\ nodeToGraphIndex = << >>
  /\ nextNodeIndex = 0 /\ nextEdgeIndex = 0

Init ==
  /\ \E given \in Inputs : source \in given.programs /\ opts \in given.options
  /\ pc = "extract" /\ stack = << Requested >>
  /\ depthBudget = [n \in Ast |-> IF n = Requested THEN opts.FollowSymbolsDepth ELSE 0]
  /\ visitedNodes = {} /\ nodeInPipeContext = {}
  /\ NoGraph
  /\ queue = << >> /\ discovered = {} /\ providers = {}

Extracting == pc = "extract" /\ stack # << >>

\* First pass over a composition: it stays on the stack, its members on top of it.
Enter ==
  /\ Extracting /\ Explodes(current) /\ current \notin visitedNodes
  /\ stack' = Reverse(children(current)) \o stack
  /\ depthBudget' = [n \in Ast |-> IF n \in ToSet(children(current))
                                     THEN depthBudget[current] ELSE depthBudget[n]]
  /\ visitedNodes' = visitedNodes \cup {current}
  /\ nodeInPipeContext' = IF source[current].kind = "pipe"
                            THEN nodeInPipeContext \cup ToSet(Tail(children(current)))
                            ELSE nodeInPipeContext
  /\ UNCHANGED <<input, pc, graph, nodeToGraphIndex, walk>>

\* Second pass: every member is in the graph, or some element of an array.
Link ==
  /\ Extracting /\ Explodes(current) /\ current \in visitedNodes
  /\ \/ source[current].kind # "array" /\ Complete(current)
     \/ source[current].kind = "array" /\ childIndices(current) # << >>
  /\ AddNode(nodes, edges, nodeToGraphIndex, current, Links(current))
  /\ stack' = Tail(stack)
  /\ UNCHANGED <<input, pc, marks, walk>>

\* No element of an array is a layer.
SkipArray ==
  /\ Extracting /\ Explodes(current) /\ current \in visitedNodes
  /\ source[current].kind = "array" /\ childIndices(current) = << >>
  /\ stack' = Tail(stack)
  /\ UNCHANGED <<input, pc, marks, graph, nodeToGraphIndex, walk>>

\* Mutation of RemovePartialChildren: the removed nodes stay in the index.
RemovePartialChildren_KeepsIndex ==
  /\ Extracting /\ Explodes(current) /\ current \in visitedNodes
  /\ source[current].kind # "array" /\ ~ Complete(current)
  /\ LET mapped  == ToSet(children(current)) \cap DOMAIN nodeToGraphIndex
         removed == { nodeToGraphIndex[c] : c \in mapped }
         kept    == { k \in DOMAIN edges : {edges[k].source, edges[k].target} \cap removed = {} }
     IN  AddLeaf(Restrict(nodes, DOMAIN nodes \ removed), Restrict(edges, kept),
                 nodeToGraphIndex, current)
  /\ stack' = Tail(stack)
  /\ UNCHANGED <<input, pc, marks, walk>>

\* Some member is not: the others are removed and the composition is a leaf.
RemovePartialChildren ==
  /\ Extracting /\ Explodes(current) /\ current \in visitedNodes
  /\ source[current].kind # "array" /\ ~ Complete(current)
  /\ LET mapped  == ToSet(children(current)) \cap DOMAIN nodeToGraphIndex
         removed == { nodeToGraphIndex[c] : c \in mapped }
         kept    == { k \in DOMAIN edges : {edges[k].source, edges[k].target} \cap removed = {} }
     IN  AddLeaf(Restrict(nodes, DOMAIN nodes \ removed), Restrict(edges, kept),
                 Restrict(nodeToGraphIndex, DOMAIN nodeToGraphIndex \ mapped), current)
  /\ stack' = Tail(stack)
  /\ UNCHANGED <<input, pc, marks, walk>>

\* Mutation of FollowSymbol: the declaration gets the budget of the reference.
FollowSymbol_SameDepth ==
  /\ Extracting /\ ~ Explodes(current) /\ FollowsSymbol(current) /\ current \notin visitedNodes
  /\ LET declaration == source[current].declaration IN
       /\ stack' = << declaration >> \o stack
       /\ depthBudget' = [depthBudget EXCEPT ![declaration] = depthBudget[current]]
  /\ visitedNodes' = visitedNodes \cup {current}
  /\ UNCHANGED <<input, pc, nodeInPipeContext, graph, nodeToGraphIndex, walk>>

\* Mutation of FollowSymbol: the reference is not marked.
FollowSymbol_Unmarked ==
  /\ Extracting /\ ~ Explodes(current) /\ FollowsSymbol(current) /\ current \notin visitedNodes
  /\ LET declaration == source[current].declaration IN
       /\ stack' = << declaration >> \o stack
       /\ depthBudget' = [depthBudget EXCEPT ![declaration] = depthBudget[current] - 1]
  /\ UNCHANGED <<input, pc, visitedNodes, nodeInPipeContext, graph, nodeToGraphIndex, walk>>

\* First pass over an identifier: its declaration is read one level deeper.
FollowSymbol ==
  /\ Extracting /\ ~ Explodes(current) /\ FollowsSymbol(current) /\ current \notin visitedNodes
  /\ LET declaration == source[current].declaration IN
       /\ stack' = << declaration >> \o stack
       /\ depthBudget' = [depthBudget EXCEPT ![declaration] = depthBudget[current] - 1]
  /\ visitedNodes' = visitedNodes \cup {current}
  /\ UNCHANGED <<input, pc, nodeInPipeContext, graph, nodeToGraphIndex, walk>>

\* Second pass: the declaration is in the graph.
LinkSymbol ==
  /\ Extracting /\ ~ Explodes(current) /\ FollowsSymbol(current) /\ current \in visitedNodes
  /\ source[current].declaration \in DOMAIN nodeToGraphIndex
  /\ AddNode(nodes, edges, nodeToGraphIndex, current,
             << Edge(nextNodeIndex, nodeToGraphIndex[source[current].declaration], "symbol") >>)
  /\ stack' = Tail(stack)
  /\ UNCHANGED <<input, pc, marks, walk>>

Leaf ==
  /\ Extracting /\ ~ Explodes(current)
  /\ FollowsSymbol(current) =>
       current \in visitedNodes /\ source[current].declaration \notin DOMAIN nodeToGraphIndex
  /\ AddLeaf(nodes, edges, nodeToGraphIndex, current)
  /\ stack' = Tail(stack)
  /\ UNCHANGED <<input, pc, marks, walk>>

-----------------------------------------------------------------------------
(***************************************************************************)
(* The providers of a service: the deepest layers that provide it, from    *)
(* the roots of the graph down.                                            *)
(***************************************************************************)
wanted(i) == nodes[i].type = "wanted"

Outgoing(i)  == { k \in DOMAIN edges : edges[k].source = i }
Neighbors(i) == { edges[k].target : k \in Outgoing(i) }
Roots        == { i \in DOMAIN nodes : \A j \in DOMAIN edges : edges[j].target # i }

matchingNeighbors(i) ==
  LET found == InOrder({ k \in Outgoing(i) : wanted(edges[k].target) })
  IN  [k \in DOMAIN found |-> edges[found[k]].target]

StartWalk ==
  /\ pc = "extract" /\ stack = << >>
  /\ pc' = IF \E i \in Roots : wanted(i) THEN "walk" ELSE "done"
  /\ queue' = IF pc' = "walk" THEN InOrder(Roots) ELSE << >>
  /\ UNCHANGED <<input, stack, marks, graph, nodeToGraphIndex, discovered, providers>>

\* Mutation of Walk: only a layer without members is taken for a provider.
Walk_LeavesOnly ==
  /\ pc = "walk" /\ queue # << >>
  /\ LET i == Head(queue)
         again == i \in discovered
     IN  /\ queue' = Tail(queue) \o (IF again THEN << >> ELSE matchingNeighbors(i))
         /\ discovered' = discovered \cup {i}
         /\ providers' = IF ~ again /\ Neighbors(i) = {} /\ wanted(i) THEN providers \cup {i}
                         ELSE providers
  /\ UNCHANGED <<input, pc, stack, marks, graph, nodeToGraphIndex>>

Walk ==
  /\ pc = "walk" /\ queue # << >>
  /\ LET i == Head(queue)
         again == i \in discovered
     IN  /\ queue' = Tail(queue) \o (IF again THEN << >> ELSE matchingNeighbors(i))
         /\ discovered' = discovered \cup {i}
         /\ providers' = IF ~ again /\ matchingNeighbors(i) = << >> /\ wanted(i) THEN providers \cup {i}
                         ELSE providers
  /\ UNCHANGED <<input, pc, stack, marks, graph, nodeToGraphIndex>>

EndWalk ==
  /\ pc = "walk" /\ queue = << >>
  /\ pc' = "done"
  /\ UNCHANGED <<input, stack, marks, graph, nodeToGraphIndex, walk>>

Next ==
  \/ Enter \/ Link \/ SkipArray \/ RemovePartialChildren
  \/ FollowSymbol \/ LinkSymbol \/ Leaf
  \/ StartWalk \/ Walk \/ EndWalk

Spec == Init /\ [][Next]_vars /\ WF_vars(Next)

-----------------------------------------------------------------------------
TypeOK ==
  /\ source \in [Ast -> Expression] /\ opts \in Option
  /\ pc \in {"extract", "walk", "done"}
  /\ stack \in Seq(Ast) /\ visitedNodes \subseteq Ast /\ nodeInPipeContext \subseteq Ast
  /\ depthBudget \in [Ast -> 0 .. opts.FollowSymbolsDepth]
  /\ nextNodeIndex \in Nat /\ DOMAIN nodes \subseteq 0 .. (nextNodeIndex - 1)
  /\ \A i \in DOMAIN nodes : nodes[i] \in [node : Ast, type : LayerType]
  /\ nextEdgeIndex \in Nat /\ DOMAIN edges \subseteq 0 .. (nextEdgeIndex - 1)
  /\ \A k \in DOMAIN edges :
       edges[k] \in [source : Nat, target : Nat, relationship : {"pipe", "call", "array", "symbol"}]
  /\ DOMAIN nodeToGraphIndex \subseteq Ast
  /\ queue \in Seq(DOMAIN nodes) /\ providers \subseteq discovered
  /\ discovered \subseteq DOMAIN nodes

\* The index never names a removed node, though a declaration may be read along
\* several paths and its members removed along any of them: LinkSymbol adds an
\* edge to what it names without looking, and AddEdge panics on a node that is
\* not there (extract.go:211, graph.go:165).
MappedNodesLive ==
  /\ \A n \in DOMAIN nodeToGraphIndex :
       nodeToGraphIndex[n] \in DOMAIN nodes /\ nodes[nodeToGraphIndex[n]].node = n
  /\ \A k \in DOMAIN edges :
       edges[k].source \in DOMAIN nodes /\ edges[k].target \in DOMAIN nodes

\* What the edges of one relationship lead to, in the order they were added.
Targets(i, relationship) ==
  LET own == InOrder({ k \in Outgoing(i) : edges[k].relationship = relationship })
  IN  [k \in DOMAIN own |-> nodes[edges[own[k]].target].node]

\* A call is in the graph with all of its arguments in their order, or with none
\* ("remove partial children and try as leaf", extract.go:99), and unless
\* symbols are followed no expression is in it twice: Layer Magic builds with
\* every expression that it finds.
ShownWhole ==
  /\ \A i \in DOMAIN nodes : Targets(i, "call") \in {<< >>, children(nodes[i].node)}
  /\ opts.FollowSymbolsDepth = 0 =>
       \A i, j \in DOMAIN nodes : nodes[i].node = nodes[j].node => i = j

\* The expressions that those of N take apart into, themselves included.
Parts(N) ==
  { n \in Ast : \A M \in SUBSET Ast :
      N \subseteq M /\ (\A m \in M : Explodes(m) => ToSet(children(m)) \subseteq M) => n \in M }

\* Those that at most d references from one to its declaration lead to.
Followed[d \in Nat] ==
  IF d = 0 THEN Parts({Requested})
  ELSE Followed[d - 1] \cup
       Parts({ source[n].declaration :
               n \in { m \in Followed[d - 1] : source[m].kind = "identifier" } } \ {0})

\* However often the budget of a declaration is overwritten, nothing is shown
\* that lies more than FollowSymbolsDepth declarations away ("how many levels
\* deep to follow identifier references", types.go:113).
WithinDepth ==
  pc = "done" => \A i \in DOMAIN nodes : nodes[i].node \in Followed[opts.FollowSymbolsDepth]

\* Every root of the graph that provides the service is explained: the walk ends
\* at some provider below it, so that the matching layers never lead in a circle
\* and none is passed by (providers.go:11).
AttributedToSource ==
  pc = "done" =>
    \A r \in { i \in Roots : wanted(i) } :
      \A I \in SUBSET { i \in DOMAIN nodes : wanted(i) } :
        r \in I /\ (\A i \in I : { j \in Neighbors(i) : wanted(j) } \subseteq I) =>
          I \cap providers # {}

\* Extraction comes to an end, also where declarations refer to one another in a
\* circle and where a declaration is read again on each path to it: every
\* expression is taken apart and every reference followed only once
\* (extract.go:69, :201).
Ends == <>(pc = "done")
=============================================================================
