----------------------------- MODULE LayerMagic -----------------------------
(***************************************************************************)
(* The composition of a list of layers into one that provides the target   *)
(* services: who needs whom (internal/layergraph/outline.go), an order in  *)
(* which to provide them (internal/layergraph/magic.go) and the pipe of    *)
(* combinators (internal/refactors/layer_magic.go).                        *)
(*                                                                         *)
(* A layer is the services it provides and requires.  A node is a layer of *)
(* the list, known by its place in it.                                     *)
(***************************************************************************)
EXTENDS Integers, FiniteSets, SequencesExt

CONSTANTS
  Service,
  Assignable,         \* <<s, t>>: s is assignable to t
  Lists, Targets      \* the lists of layers and sets of targets that are tried

Layer == [provides : SUBSET Service, requires : SUBSET Service]

ASSUME InputsType ==
  /\ IsFiniteSet(Service)
  /\ Assignable \subseteq Service \X Service /\ \A s \in Service : <<s, s>> \in Assignable
  /\ Lists \subseteq Seq(Layer) /\ Targets \subseteq SUBSET Service

VARIABLES
  layers, target,             \* the input
  pc,                         \* "search", "annotate", "compose", "composed" or "refused"
  stack, discovered, order,   \* the search, the top of its stack at the head
  nodes, missing,             \* the annotated layers, the targets no one provides yet
  composed, piped             \* the layer written so far, the number of layers in it

search == <<stack, discovered, order>>
vars   == <<layers, target, pc, search, nodes, missing, composed, piped>>

Node == DOMAIN layers

-----------------------------------------------------------------------------
(***************************************************************************)
(* The outline graph.                                                      *)
(***************************************************************************)
\* Services that are only passed through are not counted as provided.
ActualProvides(n) ==
  { p \in layers[n].provides : \A r \in layers[n].requires : <<p, r>> \notin Assignable }

Needs(a, b) ==
  \E r \in layers[a].requires, p \in ActualProvides(b) : <<r, p>> \in Assignable

\* The graph is reversed: its edges lead from a layer to those that need it.
Roots        == { n \in Node : \A m \in Node : ~ Needs(n, m) }
Neighbors(n) == { m \in Node : Needs(m, n) }

layerOrderRank(n) ==
  CASE layers[n].provides # {} /\ layers[n].requires # {} -> 0
    [] layers[n].provides # {} /\ layers[n].requires = {} -> 1
    [] layers[n].provides = {} /\ layers[n].requires = {} -> 2
    [] layers[n].provides = {} /\ layers[n].requires # {} -> 3

\* By rank, then more provided, more required, and the place in the list.
compareNodesByOrder(a, b) ==
  LET provides(n) == Cardinality(layers[n].provides)
      requires(n) == Cardinality(layers[n].requires)
  IN  \/ layerOrderRank(a) < layerOrderRank(b)
      \/ /\ layerOrderRank(a) = layerOrderRank(b)
         /\ \/ provides(a) > provides(b)
            \/ /\ provides(a) = provides(b)
               /\ requires(a) > requires(b) \/ (requires(a) = requires(b) /\ a < b)

\* The i-th node in this order has i - 1 before it.
Sorted(N) ==
  LET before(n) == { m \in N : compareNodesByOrder(m, n) }
  IN  [i \in 1 .. Cardinality(N) |-> CHOOSE n \in N : Cardinality(before(n)) = i - 1]

\* Pushed in reverse, so that the first is on top.
Entries(N) == [i \in 1 .. Cardinality(N) |-> [node |-> Sorted(N)[i], expanded |-> FALSE]]

-----------------------------------------------------------------------------
(***************************************************************************)
(* The combinators of effect's Layer on the services of layers.            *)
(***************************************************************************)
Empty == [provides |-> {}, requires |-> {}]

provide(self, that) ==
  [provides |-> self.provides,
   requires |-> that.requires \cup
                { r \in self.requires : \A p \in that.provides : <<r, p>> \notin Assignable }]

provideMerge(self, that) ==
  [provides |-> self.provides \cup that.provides, requires |-> provide(self, that).requires]

-----------------------------------------------------------------------------
\* Mutation of Init: the services that count as missing are those of the layers.
Init_AllServices ==
  /\ layers \in { list \in Lists : Len(list) > 1 } /\ target \in Targets
  /\ pc = "search"
  /\ stack = Entries(Roots) /\ discovered = {} /\ order = << >>
  /\ nodes = << >> /\ missing = UNION { layers[n].provides : n \in Node }
  /\ composed = Empty /\ piped = 0

\* Fewer than two layers are not composed.
Init ==
  /\ layers \in { list \in Lists : Len(list) > 1 } /\ target \in Targets
  /\ pc = "search"
  /\ stack = Entries(Roots) /\ discovered = {} /\ order = << >>
  /\ nodes = << >> /\ missing = target
  /\ composed = Empty /\ piped = 0

input == <<layers, target>>
after == <<nodes, missing, composed, piped>>

\* Mutation of Expand: the node goes back on top of its neighbors.
Expand_NodeOnTop ==
  /\ pc = "search" /\ stack # << >>
  /\ LET n == Head(stack).node IN
       /\ n \notin discovered
       /\ discovered' = discovered \cup {n}
       /\ stack' = << [node |-> n, expanded |-> TRUE] >> \o
                   Entries(Neighbors(n) \ discovered') \o Tail(stack)
  /\ UNCHANGED <<input, pc, order, after>>

Expand ==
  /\ pc = "search" /\ stack # << >>
  /\ LET n == Head(stack).node IN
       /\ n \notin discovered
       /\ discovered' = discovered \cup {n}
       /\ stack' = Entries(Neighbors(n) \ discovered') \o
                   << [node |-> n, expanded |-> TRUE] >> \o Tail(stack)
  /\ UNCHANGED <<input, pc, order, after>>

\* Mutation of Return: every second visit is taken for the last.
Return_AnyEntry ==
  /\ pc = "search" /\ stack # << >> /\ Head(stack).node \in discovered
  /\ stack' = Tail(stack)
  /\ order' = Append(order, Head(stack).node)
  /\ UNCHANGED <<input, pc, discovered, after>>

\* Mutation of Return: an entry that is skipped stays on the stack.
Return_KeepsSkipped ==
  /\ pc = "search" /\ stack # << >> /\ Head(stack).node \in discovered
  /\ stack' = IF Head(stack).expanded THEN Tail(stack) ELSE stack
  /\ order' = IF Head(stack).expanded THEN Append(order, Head(stack).node) ELSE order
  /\ UNCHANGED <<input, pc, discovered, after>>

\* The node was discovered before: it is done with, or came up another way.
Return ==
  /\ pc = "search" /\ stack # << >> /\ Head(stack).node \in discovered
  /\ stack' = Tail(stack)
  /\ order' = IF Head(stack).expanded THEN Append(order, Head(stack).node) ELSE order
  /\ UNCHANGED <<input, pc, discovered, after>>

EndSearch ==
  /\ pc = "search" /\ stack = << >>
  /\ pc' = "annotate"
  /\ UNCHANGED <<input, search, after>>

\* A layer merges if it provides a target that no earlier one did.
Annotate ==
  /\ pc = "annotate" /\ Len(nodes) < Len(order)
  /\ LET n == order[Len(nodes) + 1]
         merges == ActualProvides(n) \cap missing # {}
     IN  /\ nodes' = Append(nodes, [node |-> n, merges |-> merges])
         /\ missing' = IF merges THEN missing \ ActualProvides(n) ELSE missing
  /\ UNCHANGED <<input, pc, search, composed, piped>>

\* Mutation of StartPipe: the receiver is empty, and the first layer left out.
StartPipe_DropsFirst ==
  /\ pc = "annotate" /\ Len(nodes) = Len(order) /\ nodes # << >>
  /\ pc' = "compose"
  /\ composed' = Empty /\ piped' = 1
  /\ UNCHANGED <<input, search, nodes, missing>>

\* The pipe starts from the first layer if it provides a target.
StartPipe ==
  /\ pc = "annotate" /\ Len(nodes) = Len(order) /\ nodes # << >>
  /\ pc' = "compose"
  /\ IF nodes[1].merges
       THEN composed' = layers[nodes[1].node] /\ piped' = 1
       ELSE composed' = Empty /\ piped' = 0
  /\ UNCHANGED <<input, search, nodes, missing>>

\* No refactor is offered.
Refuse ==
  /\ pc = "annotate" /\ Len(nodes) = Len(order) /\ nodes = << >>
  /\ pc' = "refused"
  /\ UNCHANGED <<input, search, after>>

\* Mutation of Pipe: a layer that merges provides nothing to the layers before it.
Pipe_MergeOnly ==
  /\ pc = "compose" /\ piped < Len(nodes)
  /\ LET next == nodes[piped + 1]
         layer == layers[next.node]
     IN  composed' = IF next.merges
                       THEN [provides |-> composed.provides \cup layer.provides,
                             requires |-> composed.requires \cup layer.requires]
                       ELSE provide(composed, layer)
  /\ piped' = piped + 1
  /\ UNCHANGED <<input, pc, search, nodes, missing>>

Pipe ==
  /\ pc = "compose" /\ piped < Len(nodes)
  /\ LET next == nodes[piped + 1] IN
       composed' = IF next.merges THEN provideMerge(composed, layers[next.node])
                   ELSE provide(composed, layers[next.node])
  /\ piped' = piped + 1
  /\ UNCHANGED <<input, pc, search, nodes, missing>>

EndPipe ==
  /\ pc = "compose" /\ piped = Len(nodes)
  /\ pc' = "composed"
  /\ UNCHANGED <<input, search, after>>

Next ==
  \/ Expand \/ Return \/ EndSearch
  \/ Annotate \/ StartPipe \/ Refuse
  \/ Pipe \/ EndPipe

Spec == Init /\ [][Next]_vars /\ WF_vars(Next)

-----------------------------------------------------------------------------
Entry == [node : Node, expanded : BOOLEAN]

TypeOK ==
  /\ layers \in Lists /\ target \in Targets
  /\ pc \in {"search", "annotate", "compose", "composed", "refused"}
  /\ stack \in Seq(Entry) /\ discovered \subseteq Node /\ order \in Seq(Node)
  /\ nodes \in Seq([node : Node, merges : BOOLEAN]) /\ missing \subseteq target
  /\ composed \in Layer /\ piped \in 0 .. Len(nodes)

\* The layers that need themselves in the end: each of a cycle, and those
\* that need one of these.
Entangled == UNION { N \in SUBSET Node : \A n \in N : \E m \in N : Needs(n, m) }

\* A layer is placed after every layer that needs it, since provide gives its
\* services to what was composed before (magic.go:12, layer_magic.go:160); only
\* layers that need themselves have no such place.
RequirersFirst ==
  \A i \in DOMAIN order : \A n \in Neighbors(order[i]) :
    (\E j \in 1 .. (i - 1) : order[j] = n) \/ order[i] \in Entangled

\* No layer is composed twice, and none is left out that does not need itself.
EveryLayerOnce ==
  /\ \A i, j \in DOMAIN order : order[i] = order[j] => i = j
  /\ pc \in {"composed", "refused"} => Node \ Entangled \subseteq ToSet(order)

\* What the composed layer still requires is not provided by any of the
\* layers, except by some that cannot be built themselves.
RequirementsMet ==
  pc = "composed" =>
    \A r \in composed.requires, n \in Node :
      (\E p \in ActualProvides(n) : <<r, p>> \in Assignable) => n \in Entangled

\* The composed layer provides every target that is not reported missing, and
\* one that a layer provides is not reported, unless that layer cannot be built.
TargetsMet ==
  pc = "composed" =>
    /\ target \ missing \subseteq composed.provides
    /\ \A n \in Node : ActualProvides(n) \cap missing # {} => n \in Entangled

\* The computation ends: the search pushes a node back only once.
Ends == <>(pc \in {"composed", "refused"})
=============================================================================
