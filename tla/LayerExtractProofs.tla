------------------------- MODULE LayerExtractProofs -------------------------
(***************************************************************************)
(* Proofs about LayerExtract, for every set of programs and options.       *)
(***************************************************************************)
EXTENDS LayerExtract, SequenceTheorems, FiniteSetTheorems, NaturalsInduction, TLAPS

(***************************************************************************)
(* A nonempty set of naturals has a least element: the only form of        *)
(* induction used here.                                                    *)
(***************************************************************************)
LEMMA LeastNatural ==
  ASSUME NEW S, S \subseteq Nat, S # {}
  PROVE  \E x \in S : \A y \in S : x <= y
<1> DEFINE R == OpToRel(<, Nat)
<1>1. IsWellFoundedOn(R, Nat)
  BY NatLessThanWellFounded
<1>2. \A x, y \in Nat : <<x, y>> \in R <=> x < y
  BY DEF OpToRel
<1>3. PICK x \in S : \A y \in S : ~ (<<y, x>> \in R)
  <2> HIDE DEF R
  <2> QED BY <1>1, WFMin, Zenon
<1>4. ASSUME NEW y \in S PROVE x <= y
  <2>1. x \in Nat /\ y \in Nat /\ ~ (y < x)
    BY <1>2, <1>3
  <2> QED BY <2>1
<1> QED BY <1>4

(***************************************************************************)
(* A nonempty set of naturals with an upper bound has a greatest element.  *)
(***************************************************************************)
LEMMA GreatestBounded ==
  ASSUME NEW S, S \subseteq Nat, S # {}, NEW b \in Nat, \A x \in S : x <= b
  PROVE  \E x \in S : \A y \in S : y <= x
<1> DEFINE D == { b - x : x \in S }
<1>1. D \subseteq Nat
  <2> SUFFICES ASSUME NEW x \in S PROVE b - x \in Nat
    OBVIOUS
  <2> x \in Nat /\ x <= b
    OBVIOUS
  <2> QED OBVIOUS
<1>2. D # {}
  OBVIOUS
<1>3. PICK m \in D : \A y \in D : m <= y
  <2> HIDE DEF D
  <2> QED BY <1>1, <1>2, LeastNatural
<1>4. PICK x \in S : m = b - x
  OBVIOUS
<1>5. ASSUME NEW y \in S PROVE y <= x
  <2>1. b - x <= b - y
    BY <1>3, <1>4
  <2>2. x \in Nat /\ y \in Nat
    OBVIOUS
  <2> QED BY <2>1, <2>2
<1> QED BY <1>5

(***************************************************************************)
(* A function can be iterated from any point: the finite iterations exist  *)
(* for every length and agree where two of them are defined.               *)
(***************************************************************************)
LEMMA IterationExists ==
  ASSUME NEW X, NEW p \in X, NEW G \in [X -> X]
  PROVE  \E f \in [Nat -> X] : f[0] = p /\ \A n \in Nat : f[n + 1] = G[f[n]]
<1> DEFINE A(n) == { g \in [0 .. n -> X] : g[0] = p /\ \A k \in 0 .. (n - 1) : g[k + 1] = G[g[k]] }
           Missing == { n \in Nat : A(n) = {} }
<1>1. Missing = {}
  <2>1. SUFFICES ASSUME Missing # {} PROVE FALSE
    OBVIOUS
  <2>2. PICK n \in Missing : \A y \in Missing : n <= y
    <3>1. Missing \subseteq Nat
      OBVIOUS
    <3> HIDE DEF Missing
    <3> QED BY <2>1, <3>1, LeastNatural
  <2>3. CASE n = 0
    <3>1. [k \in 0 .. 0 |-> p] \in A(0)
      OBVIOUS
    <3> QED BY <2>2, <2>3, <3>1
  <2>4. CASE n # 0
    <3>1. n \in Nat /\ n - 1 \in Nat /\ n - 1 \notin Missing
      <4>1. n \in Nat
        OBVIOUS
      <4> HIDE DEF Missing
      <4> QED BY <2>2, <2>4, <4>1
    <3>2. PICK g \in [0 .. (n - 1) -> X] :
            g[0] = p /\ \A k \in 0 .. (n - 2) : g[k + 1] = G[g[k]]
      <4>1. A(n - 1) # {} /\ (n - 1) - 1 = n - 2
        BY <3>1
      <4> QED BY <4>1
    <3> DEFINE h == [k \in 0 .. n |-> IF k = n THEN G[g[n - 1]] ELSE g[k]]
    <3>3. h \in [0 .. n -> X] /\ h[0] = p
      BY <2>4, <3>1, <3>2
    <3>4. ASSUME NEW k \in 0 .. (n - 1) PROVE h[k + 1] = G[h[k]]
      <4>1. CASE k = n - 1
        BY <3>1, <3>2, <4>1
      <4>2. CASE k # n - 1
        <5>1. k \in 0 .. (n - 2) /\ k \in 0 .. n /\ k + 1 \in 0 .. n /\ k # n /\ k + 1 # n
          BY <3>1, <4>2
        <5> QED BY <3>2, <5>1
      <4> QED BY <4>1, <4>2
    <3>5. h \in A(n)
      <4> HIDE DEF h
      <4> QED BY <3>3, <3>4
    <3> QED BY <2>2, <3>5
  <2> QED BY <2>3, <2>4
<1>2. ASSUME NEW m \in Nat, NEW n \in Nat, NEW g \in A(m), NEW h \in A(n),
             NEW j \in Nat, j <= m, j <= n
      PROVE  g[j] = h[j]
  <2> DEFINE Differ == { k \in 0 .. j : g[k] # h[k] }
  <2>1. SUFFICES ASSUME Differ # {} PROVE FALSE
    <3>1. j \in 0 .. j
      OBVIOUS
    <3> QED BY <2>1, <3>1
  <2>2. PICK k \in Differ : \A y \in Differ : k <= y
    <3>1. Differ \subseteq Nat
      OBVIOUS
    <3> HIDE DEF Differ
    <3> QED BY <2>1, <3>1, LeastNatural
  <2>3. k # 0
    OBVIOUS
  <2>4. k \in 0 .. j /\ k - 1 \in 0 .. j /\ ~ (k <= k - 1)
    BY <2>3
  <2>5. k - 1 \notin Differ
    <3> HIDE DEF Differ
    <3> QED BY <2>2, <2>4
  <2>6. g[k - 1] = h[k - 1]
    BY <2>4, <2>5
  <2>7. k - 1 \in 0 .. (m - 1) /\ k - 1 \in 0 .. (n - 1) /\ (k - 1) + 1 = k
    BY <1>2, <2>4
  <2>8. g[(k - 1) + 1] = G[g[k - 1]] /\ h[(k - 1) + 1] = G[h[k - 1]]
    BY <2>7
  <2> QED BY <2>6, <2>7, <2>8
<1> DEFINE a(n) == CHOOSE g \in A(n) : TRUE
           f    == [n \in Nat |-> a(n)[n]]
<1>3. ASSUME NEW n \in Nat PROVE a(n) \in A(n)
  <2>1. A(n) # {}
    BY <1>1
  <2> HIDE DEF A
  <2> QED BY <2>1
<1>4. f \in [Nat -> X]
  <2> SUFFICES ASSUME NEW n \in Nat PROVE a(n)[n] \in X
    OBVIOUS
  <2>1. a(n) \in [0 .. n -> X] /\ n \in 0 .. n
    <3>1. a(n) \in A(n)
      BY <1>3
    <3> HIDE DEF a
    <3> QED BY <3>1
  <2> HIDE DEF a
  <2> QED BY <2>1
<1>5. f[0] = p
  <2>1. ASSUME NEW n \in Nat PROVE a(n)[0] = p
    <3>1. a(n) \in A(n)
      BY <1>3
    <3> HIDE DEF a
    <3> QED BY <3>1
  <2>2. f[0] = a(0)[0]
    OBVIOUS
  <2> HIDE DEF a, f
  <2> QED BY <2>1, <2>2
<1>6. ASSUME NEW n \in Nat PROVE f[n + 1] = G[f[n]]
  <2>1. a(n) \in A(n) /\ a(n + 1) \in A(n + 1) /\ n + 1 \in Nat
    <3>1. n + 1 \in Nat
      OBVIOUS
    <3> HIDE DEF a, A
    <3> QED BY <1>3, <3>1
  <2>2. a(n + 1)[n + 1] = G[a(n + 1)[n]]
    <3> HIDE DEF a
    <3>1. n \in 0 .. ((n + 1) - 1)
      OBVIOUS
    <3> QED BY <2>1, <3>1
  <2>3. a(n + 1)[n] = a(n)[n]
    <3> HIDE DEF a, A
    <3>1. n <= n + 1 /\ n <= n
      OBVIOUS
    <3> QED BY <1>2, <2>1, <3>1
  <2> HIDE DEF a
  <2> QED BY <2>1, <2>2, <2>3
<1> HIDE DEF f
<1> QED BY <1>4, <1>5, <1>6

-----------------------------------------------------------------------------
(***************************************************************************)
(* The members of a finite set of numbers are told apart by how many of    *)
(* the set lie below them, and each such count occurs.                     *)
(***************************************************************************)
LEMMA RanksAreDistinct ==
  ASSUME NEW S \in SUBSET Nat, IsFiniteSet(S)
  PROVE  /\ Cardinality(S) \in Nat
         /\ \A i \in S : Cardinality({ j \in S : j < i }) \in 0 .. (Cardinality(S) - 1)
         /\ \A i, k \in S : i < k =>
              Cardinality({ j \in S : j < i }) < Cardinality({ j \in S : j < k })
         /\ \A r \in 0 .. (Cardinality(S) - 1) :
              \E i \in S : Cardinality({ j \in S : j < i }) = r
<1> DEFINE below(i) == { j \in S : j < i }
           n        == Cardinality(S)
           rank     == [i \in S |-> Cardinality(below(i))]
<1>1. /\ n \in Nat
      /\ \A T \in SUBSET S : IsFiniteSet(T) /\ Cardinality(T) \in Nat /\ Cardinality(T) <= n
      /\ \A T \in SUBSET S : Cardinality(T) = n => T = S
  BY FS_Subset, FS_CardinalityType
<1>2. ASSUME NEW i \in S PROVE Cardinality(below(i)) \in 0 .. (n - 1)
  <2>1. below(i) \in SUBSET S /\ below(i) # S
    OBVIOUS
  <2> HIDE DEF below
  <2>2. Cardinality(below(i)) \in Nat /\ Cardinality(below(i)) <= n /\ Cardinality(below(i)) # n
    BY <1>1, <2>1
  <2> HIDE DEF n
  <2> QED BY <1>1, <2>2
<1>3. ASSUME NEW i \in S, NEW k \in S, i < k
      PROVE  Cardinality(below(i)) < Cardinality(below(k))
  <2>1. below(i) \in SUBSET below(k) /\ i \in below(k) /\ i \notin below(i)
    <3>1. i \in Nat /\ k \in Nat /\ \A j \in S : j \in Nat
      OBVIOUS
    <3>2. \A j \in S : j < i => j < k
      BY <1>3, <3>1
    <3>3. ~ (i < i)
      BY <3>1
    <3> QED BY <1>3, <3>2, <3>3
  <2>2. below(i) \in SUBSET S /\ below(k) \in SUBSET S
    OBVIOUS
  <2> HIDE DEF below
  <2>3. IsFiniteSet(below(k)) /\ Cardinality(below(k)) \in Nat /\ Cardinality(below(i)) \in Nat
    BY <1>1, <2>2
  <2>4. /\ Cardinality(below(i)) <= Cardinality(below(k))
        /\ Cardinality(below(k)) = Cardinality(below(i)) => below(k) = below(i)
    BY <2>1, <2>3, FS_Subset
  <2> QED BY <2>1, <2>3, <2>4
<1>4. rank \in Injection(S, 0 .. (n - 1))
  <2>1. rank \in [S -> 0 .. (n - 1)]
    BY <1>2
  <2>2. ASSUME NEW i \in S, NEW k \in S, rank[i] = rank[k] PROVE i = k
    <3>1. i < k => rank[i] < rank[k]
      BY <1>3
    <3>2. k < i => rank[k] < rank[i]
      BY <1>3
    <3>3. rank[i] \in Nat /\ rank[k] \in Nat
      BY <1>1, <2>1
    <3> QED BY <2>2, <3>1, <3>2, <3>3
  <2> HIDE DEF rank
  <2> QED BY <2>1, <2>2 DEF Injection, IsInjective
<1>5. IsFiniteSet(0 .. (n - 1)) /\ Cardinality(0 .. (n - 1)) = n
  <2> HIDE DEF n
  <2>1. 0 \in Int /\ n - 1 \in Int
    BY <1>1
  <2>2. IsFiniteSet(0 .. (n - 1)) /\ Cardinality(0 .. (n - 1)) = IF 0 > n - 1 THEN 0 ELSE n - 1 - 0 + 1
    BY <2>1, FS_Interval
  <2> QED BY <1>1, <2>2
<1>6. rank \in Surjection(S, 0 .. (n - 1))
  <2> HIDE DEF rank
  <2> QED BY <1>4, <1>5, FS_Injection
<1>7. ASSUME NEW r \in 0 .. (n - 1) PROVE \E i \in S : Cardinality(below(i)) = r
  <2>1. \E i \in S : rank[i] = r
    <3> HIDE DEF rank, n
    <3> QED BY <1>6 DEF Surjection
  <2> QED BY <2>1
<1> QED BY <1>1, <1>2, <1>3, <1>7

(***************************************************************************)
(* InOrder lists exactly the members of the set.                           *)
(***************************************************************************)
LEMMA InOrderLists ==
  ASSUME NEW S \in SUBSET Nat, IsFiniteSet(S)
  PROVE  /\ InOrder(S) \in Seq(S) /\ Len(InOrder(S)) = Cardinality(S) /\ Cardinality(S) \in Nat
         /\ \A i \in S : \E k \in DOMAIN InOrder(S) : InOrder(S)[k] = i
<1> DEFINE below(i) == { j \in S : j < i }
           n        == Cardinality(S)
<1>1. n \in Nat
  BY RanksAreDistinct
<1>2. ASSUME NEW k \in 1 .. n
      PROVE  InOrder(S)[k] \in S /\ Cardinality(below(InOrder(S)[k])) = k - 1
  <2>1. k - 1 \in 0 .. (n - 1)
    BY <1>1
  <2>2. \E i \in S : Cardinality(below(i)) = k - 1
    <3> HIDE DEF n
    <3> QED BY <2>1, RanksAreDistinct DEF n
  <2> QED BY <2>2 DEF InOrder
<1>3. InOrder(S) \in [1 .. n -> S]
  BY <1>2 DEF InOrder
<1>4. InOrder(S) \in Seq(S) /\ Len(InOrder(S)) = n /\ DOMAIN InOrder(S) = 1 .. n
  <2> HIDE DEF n
  <2> QED BY <1>1, <1>3
<1>5. ASSUME NEW i \in S PROVE \E k \in 1 .. n : InOrder(S)[k] = i
  <2> DEFINE k == Cardinality(below(i)) + 1
  <2>1. Cardinality(below(i)) \in 0 .. (n - 1)
    BY RanksAreDistinct
  <2>2. k \in 1 .. n /\ k - 1 = Cardinality(below(i))
    <3> HIDE DEF below, n
    <3> QED BY <1>1, <2>1
  <2>3. InOrder(S)[k] \in S /\ Cardinality(below(InOrder(S)[k])) = Cardinality(below(i))
    <3> HIDE DEF below, n
    <3> QED BY <1>2, <2>2
  <2>4. \A x, y \in S : x < y => Cardinality(below(x)) < Cardinality(below(y))
    BY RanksAreDistinct
  <2>5. \A x \in S : Cardinality(below(x)) \in Nat /\ x \in Nat
    <3>1. \A x \in S : Cardinality(below(x)) \in 0 .. (n - 1)
      BY RanksAreDistinct
    <3> HIDE DEF below, n
    <3> QED BY <1>1, <3>1
  <2>6. InOrder(S)[k] = i
    <3> DEFINE o == InOrder(S)[k]
    <3>1. o \in S /\ Cardinality(below(o)) = Cardinality(below(i))
      BY <2>3
    <3> HIDE DEF below, o
    <3>2. Cardinality(below(i)) \in Nat /\ o \in Nat /\ i \in Nat
      BY <2>5, <3>1
    <3>3. ~ (o < i) /\ ~ (i < o)
      BY <2>4, <3>1, <3>2
    <3>4. o = i
      BY <3>2, <3>3
    <3> QED BY <3>4 DEF o
  <2> QED BY <2>2, <2>6
<1> QED BY <1>1, <1>4, <1>5

(***************************************************************************)
(* The numbers of an interval, in order, are counted from its start.       *)
(***************************************************************************)
LEMMA InOrderOfInterval ==
  ASSUME NEW b \in Nat, NEW n \in Nat
  PROVE  InOrder(b .. (b + n - 1)) = [k \in 1 .. n |-> b + k - 1]
<1> DEFINE S == b .. (b + n - 1)
<1>1. Cardinality(S) = n /\ IsFiniteSet(S) /\ S \in SUBSET Nat
  BY FS_Interval
<1>2. ASSUME NEW i \in S PROVE Cardinality({ j \in S : j < i }) = i - b
  <2>1. { j \in S : j < i } = b .. (i - 1)
    OBVIOUS
  <2>2. i \in Int /\ i >= b /\ i - 1 \in Int /\ b \in Int
    OBVIOUS
  <2>3. Cardinality(b .. (i - 1)) = IF b > i - 1 THEN 0 ELSE i - 1 - b + 1
    BY <2>2, FS_Interval
  <2>4. Cardinality(b .. (i - 1)) = i - b
    BY <2>2, <2>3
  <2> HIDE DEF S
  <2> QED BY <2>1, <2>4
<1>3. ASSUME NEW k \in 1 .. n
      PROVE  (CHOOSE i \in S : Cardinality({ j \in S : j < i }) = k - 1) = b + k - 1
  <2>1. b + k - 1 \in S /\ (b + k - 1) - b = k - 1
    OBVIOUS
  <2>2. \A i \in S : Cardinality({ j \in S : j < i }) = k - 1 <=> i = b + k - 1
    <3> SUFFICES ASSUME NEW i \in S
                 PROVE  Cardinality({ j \in S : j < i }) = k - 1 <=> i = b + k - 1
      OBVIOUS
    <3>1. Cardinality({ j \in S : j < i }) = i - b
      BY <1>2
    <3>2. i \in Int /\ (i - b = k - 1 <=> i = b + k - 1)
      OBVIOUS
    <3> QED BY <3>1, <3>2
  <2> HIDE DEF S
  <2> QED BY <2>1, <2>2
<1> QED BY <1>1, <1>3 DEF InOrder

-----------------------------------------------------------------------------
(***************************************************************************)
(* Well-formed graphs: numbered below the counters, with edges between     *)
(* nodes that are there, and an index that names each expression's node.   *)
(***************************************************************************)
Relationship == {"pipe", "call", "array", "symbol"}
EdgeOver(I)  == [source : I, target : I, relationship : Relationship]

GraphOf(N, E, index) ==
  /\ DOMAIN N \subseteq 0 .. (nextNodeIndex - 1)
  /\ \A i \in DOMAIN N : N[i] \in [node : Ast, type : LayerType]
  /\ DOMAIN E \subseteq 0 .. (nextEdgeIndex - 1)
  /\ \A k \in DOMAIN E : E[k] \in EdgeOver(DOMAIN N)
  /\ DOMAIN index \subseteq Ast
  /\ \A n \in DOMAIN index : index[n] \in DOMAIN N /\ N[index[n]].node = n

GraphInv ==
  /\ nextNodeIndex \in Nat /\ nextEdgeIndex \in Nat
  /\ GraphOf(nodes, edges, nodeToGraphIndex)

(***************************************************************************)
(* The inductive invariant of the types: the graph is well-formed, and the *)
(* walk has not begun while the graph grows.                               *)
(***************************************************************************)
ReadInv ==
  /\ IsTree(source) /\ source \in [Ast -> Expression] /\ opts \in Option
  /\ pc \in {"extract", "walk", "done"}
  /\ stack \in Seq(Ast) /\ visitedNodes \subseteq Ast /\ nodeInPipeContext \subseteq Ast
  /\ depthBudget \in [Ast -> 0 .. opts.FollowSymbolsDepth]

WalkInv ==
  /\ pc = "extract" => queue = << >> /\ discovered = {} /\ providers = {}
  /\ queue \in Seq(DOMAIN nodes) /\ providers \subseteq discovered
  /\ discovered \subseteq DOMAIN nodes

IInv == ReadInv /\ GraphInv /\ WalkInv

(***************************************************************************)
(* It says what the types and the liveness of mapped nodes say.            *)
(***************************************************************************)
LEMMA InvImplies == IInv => TypeOK /\ MappedNodesLive
<1> SUFFICES ASSUME IInv PROVE TypeOK /\ MappedNodesLive
  OBVIOUS
<1>1. DOMAIN nodes \subseteq Nat
  BY DEF IInv, GraphInv, GraphOf
<1>2. \A k \in DOMAIN edges : edges[k] \in EdgeOver(DOMAIN nodes)
  BY DEF IInv, GraphInv, GraphOf
<1>3. \A k \in DOMAIN edges :
        /\ edges[k] \in [source : Nat, target : Nat, relationship : Relationship]
        /\ edges[k].source \in DOMAIN nodes /\ edges[k].target \in DOMAIN nodes
  BY <1>1, <1>2 DEF EdgeOver
<1>4. TypeOK
  BY <1>3 DEF IInv, ReadInv, GraphInv, GraphOf, WalkInv, TypeOK, Relationship
<1>5. MappedNodesLive
  BY <1>3 DEF IInv, GraphInv, GraphOf, MappedNodesLive
<1> QED BY <1>4, <1>5

(***************************************************************************)
(* Adding a node, with edges between nodes that are there and itself,      *)
(* leaves a well-formed graph.                                             *)
(***************************************************************************)
LEMMA AddNodeKeeps ==
  ASSUME NEW N, NEW E, NEW index, NEW n \in Ast, NEW added,
         nextNodeIndex \in Nat, nextEdgeIndex \in Nat, GraphOf(N, E, index),
         layerType(n) \in LayerType,
         added \in Seq(EdgeOver(DOMAIN N \cup {nextNodeIndex})),
         AddNode(N, E, index, n, added)
  PROVE  GraphInv'
<1> DEFINE I == DOMAIN N \cup {nextNodeIndex}
           L == Len(added)
<1>1. L \in Nat /\ \A k \in 1 .. L : added[k] \in EdgeOver(I)
  OBVIOUS
<1>2. nextNodeIndex' = nextNodeIndex + 1 /\ nextEdgeIndex' = nextEdgeIndex + L
  BY DEF AddNode
<1>3. nextNodeIndex' \in Nat /\ nextEdgeIndex' \in Nat
  <2> HIDE DEF L
  <2> QED BY <1>1, <1>2
<1>4. /\ DOMAIN nodes' = I /\ I \subseteq 0 .. (nextNodeIndex' - 1)
      /\ nextNodeIndex \notin DOMAIN N
      /\ \A i \in DOMAIN N : nodes'[i] = N[i]
      /\ nodes'[nextNodeIndex] = [node |-> n, type |-> layerType(n)]
  BY <1>2 DEF AddNode, GraphOf
<1>5. \A i \in I : nodes'[i] \in [node : Ast, type : LayerType]
  BY <1>4 DEF GraphOf
<1>6. /\ DOMAIN edges' = DOMAIN E \cup nextEdgeIndex .. (nextEdgeIndex + L - 1)
      /\ \A k \in DOMAIN edges' :
           edges'[k] = IF k \in DOMAIN E THEN E[k] ELSE added[k - nextEdgeIndex + 1]
  BY DEF AddNode
<1>7. DOMAIN edges' \subseteq 0 .. (nextEdgeIndex' - 1)
  <2>1. DOMAIN E \subseteq 0 .. (nextEdgeIndex - 1)
    BY DEF GraphOf
  <2> HIDE DEF L
  <2> QED BY <1>1, <1>2, <1>6, <2>1
<1>8. \A k \in DOMAIN edges' : edges'[k] \in EdgeOver(I)
  <2> SUFFICES ASSUME NEW k \in DOMAIN edges' PROVE edges'[k] \in EdgeOver(I)
    OBVIOUS
  <2>1. CASE k \in DOMAIN E
    BY <1>6, <2>1 DEF GraphOf, EdgeOver
  <2>2. CASE k \notin DOMAIN E
    <3>1. k \in nextEdgeIndex .. (nextEdgeIndex + L - 1)
      BY <1>6, <2>2
    <3> HIDE DEF L, I
    <3>2. k - nextEdgeIndex + 1 \in 1 .. L
      BY <1>1, <3>1
    <3> QED BY <1>1, <1>6, <2>2, <3>2
  <2> QED BY <2>1, <2>2
<1>9. /\ DOMAIN nodeToGraphIndex' = DOMAIN index \cup {n}
      /\ \A a \in DOMAIN nodeToGraphIndex' :
           nodeToGraphIndex'[a] = IF a = n THEN nextNodeIndex ELSE index[a]
  BY DEF AddNode
<1>10. \A a \in DOMAIN nodeToGraphIndex' :
         nodeToGraphIndex'[a] \in I /\ nodes'[nodeToGraphIndex'[a]].node = a
  BY <1>4, <1>9 DEF GraphOf
<1>11. DOMAIN nodeToGraphIndex' \subseteq Ast
  BY <1>9 DEF GraphOf
<1> HIDE DEF I, L
<1> QED BY <1>3, <1>4, <1>5, <1>7, <1>8, <1>10, <1>11 DEF GraphInv, GraphOf

(***************************************************************************)
(* So does showing an expression on its own, or not at all.                *)
(***************************************************************************)
LEMMA AddLeafKeeps ==
  ASSUME NEW N, NEW E, NEW index, NEW n \in Ast,
         nextNodeIndex \in Nat, nextEdgeIndex \in Nat, GraphOf(N, E, index),
         layerType(n) \in LayerType,
         AddLeaf(N, E, index, n)
  PROVE  GraphInv'
<1>1. CASE layerType(n) # "none"
  <2>1. AddNode(N, E, index, n, << >>)
    BY <1>1 DEF AddLeaf
  <2>2. << >> \in Seq(EdgeOver(DOMAIN N \cup {nextNodeIndex}))
    OBVIOUS
  <2> QED BY <2>1, <2>2, AddNodeKeeps
<1>2. CASE layerType(n) = "none"
  BY <1>2 DEF AddLeaf, GraphInv, GraphOf
<1> QED BY <1>1, <1>2

(***************************************************************************)
(* A function on an interval that starts with one is a sequence.           *)
(***************************************************************************)
LEMMA FunctionIsSequence ==
  ASSUME NEW S, NEW n \in Nat, NEW f \in [1 .. n -> S]
  PROVE  f \in Seq(S) /\ Len(f) = n
OBVIOUS

(***************************************************************************)
(* What the expressions of the source are.                                 *)
(***************************************************************************)
LEMMA ExpressionType ==
  ASSUME ReadInv, NEW n \in Ast
  PROVE  /\ source[n] \in Expression /\ children(n) \in Seq(Ast)
         /\ Len(children(n)) \in Nat /\ DOMAIN children(n) = 1 .. Len(children(n))
         /\ \A i \in DOMAIN children(n) : children(n)[i] \in Ast
         /\ ToSet(children(n)) \subseteq Ast
         /\ layerType(n) \in LayerType
<1>1. source[n] \in Expression
  BY DEF ReadInv
<1>2. children(n) \in Seq(Ast)
  BY <1>1 DEF children, Expression
<1>3. layerType(n) \in LayerType
  BY <1>1 DEF layerType, Expression
<1> QED BY <1>1, <1>2, <1>3 DEF ToSet

(***************************************************************************)
(* The nodes of the members that are in the graph are in the graph.        *)
(***************************************************************************)
LEMMA ChildIndicesType ==
  ASSUME ReadInv, NEW n \in Ast
  PROVE  childIndices(n) \in Seq(DOMAIN nodes)
<1> DEFINE P     == { i \in DOMAIN children(n) : InGraph(children(n)[i]) }
           found == InOrder(P)
<1>1. DOMAIN children(n) = 1 .. Len(children(n)) /\ Len(children(n)) \in Nat
  BY ExpressionType
<1>2. P \in SUBSET Nat /\ IsFiniteSet(P)
  <2>1. P \in SUBSET (1 .. Len(children(n)))
    BY <1>1
  <2>2. IsFiniteSet(1 .. Len(children(n)))
    BY <1>1, FS_Interval
  <2> HIDE DEF P
  <2>3. IsFiniteSet(P)
    BY <2>1, <2>2, FS_Subset
  <2>4. \A i \in P : i \in 1 .. Len(children(n))
    BY <2>1
  <2>5. \A i \in P : i \in Nat
    BY <1>1, <2>4
  <2> QED BY <2>3, <2>5
<1>3. found \in Seq(P) /\ DOMAIN found = 1 .. Cardinality(P) /\ Cardinality(P) \in Nat
  <2> HIDE DEF P
  <2> QED BY <1>2, InOrderLists
<1>4. \A k \in DOMAIN found : found[k] \in P
  <2> HIDE DEF P
  <2> QED BY <1>3
<1>5. \A k \in DOMAIN found : nodeToGraphIndex[children(n)[found[k]]] \in DOMAIN nodes
  BY <1>4 DEF InGraph
<1>6. childIndices(n) = [k \in 1 .. Cardinality(P) |-> nodeToGraphIndex[children(n)[found[k]]]]
  BY <1>3 DEF childIndices
<1> HIDE DEF P, found
<1> QED BY <1>3, <1>5, <1>6

(***************************************************************************)
(* The edges of a composition lead to nodes that are in the graph.         *)
(***************************************************************************)
LEMMA LinksType ==
  ASSUME ReadInv, NEW n \in Ast, Explodes(n)
  PROVE  Links(n) \in Seq(EdgeOver(DOMAIN nodes \cup {nextNodeIndex}))
<1> DEFINE at == childIndices(n)
           I  == DOMAIN nodes \cup {nextNodeIndex}
<1>1. at \in Seq(DOMAIN nodes)
  BY ChildIndicesType
<1>2. Len(at) \in Nat /\ \A i \in 1 .. Len(at) : at[i] \in DOMAIN nodes
  <2> HIDE DEF at
  <2> QED BY <1>1
<1>3. source[n].kind \in {"pipe", "call", "array"}
  BY DEF Explodes
<1> HIDE DEF at
<1>4. CASE source[n].kind = "pipe"
  <2>1. \A i \in 1 .. Len(at) :
          Edge(IF i < Len(at) THEN at[i + 1] ELSE nextNodeIndex, at[i], "pipe") \in EdgeOver(I)
    BY <1>2 DEF Edge, EdgeOver, Relationship
  <2>2. Links(n) = [i \in 1 .. Len(at) |->
          Edge(IF i < Len(at) THEN at[i + 1] ELSE nextNodeIndex, at[i], "pipe")]
    BY <1>4 DEF Links, at
  <2> HIDE DEF I
  <2>3. Links(n) \in [1 .. Len(at) -> EdgeOver(I)]
    BY <2>1, <2>2, Zenon
  <2> QED BY <1>2, <2>3, FunctionIsSequence DEF I
<1>5. CASE source[n].kind # "pipe"
  <2>1. \A i \in 1 .. Len(at) : Edge(nextNodeIndex, at[i], source[n].kind) \in EdgeOver(I)
    BY <1>2, <1>3 DEF Edge, EdgeOver, Relationship
  <2>2. Links(n) = [i \in 1 .. Len(at) |-> Edge(nextNodeIndex, at[i], source[n].kind)]
    BY <1>5 DEF Links, at
  <2> HIDE DEF I
  <2>3. Links(n) \in [1 .. Len(at) -> EdgeOver(I)]
    BY <2>1, <2>2, Zenon
  <2> QED BY <1>2, <2>3, FunctionIsSequence DEF I
<1> QED BY <1>4, <1>5

(***************************************************************************)
(* Removing the nodes of some expressions, with the edges at them and      *)
(* their entries in the index, leaves a well-formed graph.                 *)
(***************************************************************************)
LEMMA RemovalKeeps ==
  ASSUME GraphInv, NEW mapped, mapped \subseteq DOMAIN nodeToGraphIndex
  PROVE  LET removed == { nodeToGraphIndex[c] : c \in mapped }
             kept    == { k \in DOMAIN edges : {edges[k].source, edges[k].target} \cap removed = {} }
         IN  GraphOf(Restrict(nodes, DOMAIN nodes \ removed), Restrict(edges, kept),
                     Restrict(nodeToGraphIndex, DOMAIN nodeToGraphIndex \ mapped))
<1> DEFINE removed == { nodeToGraphIndex[c] : c \in mapped }
           kept    == { k \in DOMAIN edges : {edges[k].source, edges[k].target} \cap removed = {} }
           N       == Restrict(nodes, DOMAIN nodes \ removed)
           E       == Restrict(edges, kept)
           index   == Restrict(nodeToGraphIndex, DOMAIN nodeToGraphIndex \ mapped)
<1> USE DEF GraphInv, GraphOf
<1>1. /\ DOMAIN N = DOMAIN nodes \ removed /\ \A i \in DOMAIN N : N[i] = nodes[i]
      /\ DOMAIN E = kept /\ \A k \in kept : E[k] = edges[k]
      /\ DOMAIN index = DOMAIN nodeToGraphIndex \ mapped
      /\ \A a \in DOMAIN index : index[a] = nodeToGraphIndex[a]
  BY DEF Restrict
<1>2. \A k \in kept : E[k] \in EdgeOver(DOMAIN N)
  BY <1>1 DEF EdgeOver
<1>3. ASSUME NEW a \in DOMAIN index PROVE index[a] \in DOMAIN N
  <2>1. \A c \in mapped : nodeToGraphIndex[c] # nodeToGraphIndex[a]
    BY <1>1, <1>3
  <2>2. a \in DOMAIN nodeToGraphIndex /\ nodeToGraphIndex[a] \in DOMAIN nodes
    BY <1>1, <1>3
  <2>3. nodeToGraphIndex[a] \notin removed
    BY <2>1
  <2>4. index[a] = nodeToGraphIndex[a]
    BY <1>1, <1>3
  <2> HIDE DEF index, removed, N
  <2> QED BY <1>1, <2>2, <2>3, <2>4
<1>4. /\ DOMAIN N \subseteq 0 .. (nextNodeIndex - 1) /\ DOMAIN E \subseteq 0 .. (nextEdgeIndex - 1)
      /\ \A i \in DOMAIN N : N[i] \in [node : Ast, type : LayerType]
      /\ DOMAIN index \subseteq Ast /\ \A a \in DOMAIN index : N[index[a]].node = a
  BY <1>1, <1>3
<1>5. GraphOf(N, E, index)
  <2> HIDE DEF N, E, index
  <2> QED BY <1>1, <1>2, <1>3, <1>4
<1> QED BY <1>5

(***************************************************************************)
(* The top of the stack while expressions are read.                        *)
(***************************************************************************)
LEMMA CurrentType ==
  ASSUME ReadInv, Extracting
  PROVE  current \in Ast /\ Tail(stack) \in Seq(Ast)
BY DEF ReadInv, Extracting, current

(***************************************************************************)
(* The targets of the edges of a node that match, in the order in which    *)
(* the edges were added.                                                   *)
(***************************************************************************)
LEMMA NeighborsListed ==
  ASSUME GraphInv, NEW i
  PROVE  matchingNeighbors(i) \in Seq(DOMAIN nodes)
<1> DEFINE P     == { k \in Outgoing(i) : wanted(edges[k].target) }
           found == InOrder(P)
<1>1. P \subseteq DOMAIN edges /\ DOMAIN edges \subseteq 0 .. (nextEdgeIndex - 1)
  BY DEF Outgoing, GraphInv, GraphOf
<1>2. P \in SUBSET Nat /\ IsFiniteSet(P)
  <2>1. IsFiniteSet(0 .. (nextEdgeIndex - 1)) /\ 0 .. (nextEdgeIndex - 1) \subseteq Nat
    BY FS_Interval DEF GraphInv
  <2> HIDE DEF P
  <2>2. P \in SUBSET (0 .. (nextEdgeIndex - 1))
    BY <1>1
  <2> QED BY <2>1, <2>2, FS_Subset
<1>3. found \in Seq(P) /\ DOMAIN found = 1 .. Cardinality(P) /\ Cardinality(P) \in Nat
  <2> HIDE DEF P
  <2> QED BY <1>2, InOrderLists
<1>4. \A k \in DOMAIN found : found[k] \in P
  <2> HIDE DEF P
  <2> QED BY <1>3
<1>5. \A e \in DOMAIN edges : edges[e].target \in DOMAIN nodes
  BY DEF GraphInv, GraphOf, EdgeOver
<1>6. \A k \in 1 .. Cardinality(P) : edges[found[k]].target \in DOMAIN nodes
  <2> HIDE DEF P, found
  <2> QED BY <1>1, <1>3, <1>4, <1>5
<1>7. matchingNeighbors(i) = [k \in 1 .. Cardinality(P) |-> edges[found[k]].target]
  BY <1>3 DEF matchingNeighbors
<1> HIDE DEF P, found
<1>8. matchingNeighbors(i) \in [1 .. Cardinality(P) -> DOMAIN nodes]
  BY <1>6, <1>7
<1> QED BY <1>3, <1>8, FunctionIsSequence

(***************************************************************************)
(* The roots of the graph, in the order of their indices.                  *)
(***************************************************************************)
LEMMA RootsListed ==
  ASSUME GraphInv
  PROVE  InOrder(Roots) \in Seq(DOMAIN nodes)
<1>1. Roots \subseteq DOMAIN nodes /\ DOMAIN nodes \subseteq 0 .. (nextNodeIndex - 1)
  BY DEF Roots, GraphInv, GraphOf
<1>2. IsFiniteSet(0 .. (nextNodeIndex - 1)) /\ 0 .. (nextNodeIndex - 1) \subseteq Nat
  BY FS_Interval DEF GraphInv
<1>3. Roots \in SUBSET (0 .. (nextNodeIndex - 1))
  BY <1>1
<1>4. Roots \in SUBSET Nat /\ IsFiniteSet(Roots)
  BY <1>2, <1>3, FS_Subset
<1>5. InOrder(Roots) \in Seq(Roots)
  BY <1>4, InOrderLists
<1> QED BY <1>1, <1>5

(***************************************************************************)
(* The invariant holds at first.                                           *)
(***************************************************************************)
LEMMA InvInit == Init => IInv
<1> SUFFICES ASSUME Init PROVE IInv
  OBVIOUS
<1>1. PICK given \in Inputs : source \in given.programs /\ opts \in given.options
  BY DEF Init
<1>2. IsTree(source) /\ source \in [Ast -> Expression] /\ opts \in Option
  BY <1>1, InputsType, InputsAreTrees
<1>3. opts.FollowSymbolsDepth \in Nat
  BY <1>2 DEF Option
<1>4. ReadInv
  BY <1>2, <1>3, InputsType DEF Init, ReadInv
<1>5. GraphInv
  BY DEF Init, NoGraph, GraphInv, GraphOf
<1>6. WalkInv
  BY DEF Init, WalkInv, NoGraph
<1> QED BY <1>4, <1>5, <1>6 DEF IInv

(***************************************************************************)
(* Every step preserves it.                                                *)
(***************************************************************************)
LEMMA InvNext == IInv /\ [Next]_vars => IInv'
<1> SUFFICES ASSUME ReadInv, GraphInv, WalkInv, [Next]_vars PROVE IInv'
  BY DEF IInv
<1>1. nextNodeIndex \in Nat /\ nextEdgeIndex \in Nat /\ GraphOf(nodes, edges, nodeToGraphIndex)
  BY DEF GraphInv
<1>2. opts.FollowSymbolsDepth \in Nat
  BY DEF ReadInv, Option
\* A step that only grows or prunes the graph, and pops the stack.
<1>3. ASSUME Extracting, GraphInv', stack' = Tail(stack), UNCHANGED <<input, pc, marks, walk>>
      PROVE  IInv'
  <2>1. ReadInv'
    BY <1>3, CurrentType DEF ReadInv, input, marks
  <2>2. WalkInv'
    BY <1>3 DEF WalkInv, Extracting, walk
  <2> QED BY <1>3, <2>1, <2>2 DEF IInv
\* A step that leaves the graph alone.
<1>4. ASSUME ReadInv', UNCHANGED <<pc, graph, nodeToGraphIndex, walk>>
      PROVE  IInv'
  <2>1. GraphInv' /\ WalkInv'
    BY <1>4 DEF GraphInv, GraphOf, WalkInv, graph, walk
  <2> QED BY <1>4, <2>1 DEF IInv
<1>5. CASE Enter
  <2>1. current \in Ast /\ Extracting
    BY <1>5, CurrentType DEF Enter
  <2>2. children(current) \in Seq(Ast) /\ ToSet(children(current)) \subseteq Ast
    BY <2>1, ExpressionType
  <2>3. Reverse(children(current)) \in Seq(Ast)
    BY <2>2 DEF Reverse
  <2>4. stack' \in Seq(Ast)
    BY <1>5, <2>3 DEF Enter, ReadInv
  <2>5. depthBudget' \in [Ast -> 0 .. opts.FollowSymbolsDepth]
    BY <1>5, <2>1 DEF Enter, ReadInv
  <2>6. source[current].kind = "pipe" => ToSet(Tail(children(current))) \subseteq Ast
    <3>1. source[current].kind = "pipe" => children(current) # << >>
      BY <2>1 DEF ReadInv, IsTree, children
    <3> QED BY <2>2, <3>1 DEF ToSet
  <2>7. nodeInPipeContext' \subseteq Ast
    BY <1>5, <2>6 DEF Enter, ReadInv
  <2>8. ReadInv'
    BY <1>5, <2>1, <2>4, <2>5, <2>7 DEF Enter, ReadInv, input
  <2> QED BY <1>4, <1>5, <2>8 DEF Enter
<1>6. CASE Link
  <2>1. current \in Ast /\ Extracting /\ Explodes(current)
    BY <1>6, CurrentType DEF Link
  <2>2. GraphInv'
    BY <1>1, <1>6, <2>1, AddNodeKeeps, LinksType, ExpressionType DEF Link
  <2> QED BY <1>3, <1>6, <2>1, <2>2 DEF Link
<1>7. CASE SkipArray
  <2>1. ReadInv'
    BY <1>7, CurrentType DEF SkipArray, ReadInv, input, marks
  <2> QED BY <1>4, <1>7, <2>1 DEF SkipArray
<1>8. CASE RemovePartialChildren
  <2> DEFINE mapped  == ToSet(children(current)) \cap DOMAIN nodeToGraphIndex
             removed == { nodeToGraphIndex[c] : c \in mapped }
             kept    == { k \in DOMAIN edges : {edges[k].source, edges[k].target} \cap removed = {} }
             N       == Restrict(nodes, DOMAIN nodes \ removed)
             E       == Restrict(edges, kept)
             index   == Restrict(nodeToGraphIndex, DOMAIN nodeToGraphIndex \ mapped)
  <2>1. current \in Ast /\ Extracting
    BY <1>8, CurrentType DEF RemovePartialChildren
  <2>2. AddLeaf(N, E, index, current)
    BY <1>8 DEF RemovePartialChildren
  <2>3. GraphOf(N, E, index)
    BY RemovalKeeps
  <2>4. GraphInv'
    <3> HIDE DEF N, E, index
    <3> QED BY <1>1, <2>1, <2>2, <2>3, AddLeafKeeps, ExpressionType
  <2> QED BY <1>3, <1>8, <2>1, <2>4 DEF RemovePartialChildren
<1>9. CASE FollowSymbol
  <2>1. current \in Ast /\ Extracting
    BY <1>9, CurrentType DEF FollowSymbol
  <2>2. source[current].declaration \in Ast /\ depthBudget[current] > 0
    BY <1>9, <2>1, ExpressionType DEF FollowSymbol, FollowsSymbol, Expression
  <2>3. stack' \in Seq(Ast)
    BY <1>9, <2>2 DEF FollowSymbol, ReadInv
  <2>4. depthBudget' \in [Ast -> 0 .. opts.FollowSymbolsDepth]
    <3>1. depthBudget[current] - 1 \in 0 .. opts.FollowSymbolsDepth
      BY <1>2, <2>1, <2>2 DEF ReadInv
    <3> QED BY <1>9, <2>2, <3>1 DEF FollowSymbol, ReadInv
  <2>5. ReadInv'
    BY <1>9, <2>1, <2>3, <2>4 DEF FollowSymbol, ReadInv, input
  <2> QED BY <1>4, <1>9, <2>5 DEF FollowSymbol
<1>10. CASE LinkSymbol
  <2> DEFINE d == nodeToGraphIndex[source[current].declaration]
  <2>1. current \in Ast /\ Extracting
    BY <1>10, CurrentType DEF LinkSymbol
  <2>2. d \in DOMAIN nodes
    BY <1>1, <1>10 DEF LinkSymbol, GraphOf
  <2>3. << Edge(nextNodeIndex, d, "symbol") >> \in Seq(EdgeOver(DOMAIN nodes \cup {nextNodeIndex}))
    BY <2>2 DEF Edge, EdgeOver, Relationship
  <2>4. GraphInv'
    BY <1>1, <1>10, <2>1, <2>3, AddNodeKeeps, ExpressionType DEF LinkSymbol
  <2> QED BY <1>3, <1>10, <2>1, <2>4 DEF LinkSymbol
<1>11. CASE Leaf
  <2>1. current \in Ast /\ Extracting
    BY <1>11, CurrentType DEF Leaf
  <2>2. GraphInv'
    BY <1>1, <1>11, <2>1, AddLeafKeeps, ExpressionType DEF Leaf
  <2> QED BY <1>3, <1>11, <2>1, <2>2 DEF Leaf
<1>12. CASE StartWalk
  <2>1. ReadInv' /\ GraphInv' /\ UNCHANGED <<nodes, discovered, providers>>
    BY <1>12 DEF StartWalk, ReadInv, GraphInv, GraphOf, input, marks, graph
  <2>2. queue' \in Seq(DOMAIN nodes) /\ pc' # "extract"
    <3>1. pc' \in {"walk", "done"} /\ queue' \in {InOrder(Roots), << >>}
      BY <1>12 DEF StartWalk
    <3>2. InOrder(Roots) \in Seq(DOMAIN nodes) /\ << >> \in Seq(DOMAIN nodes)
      BY RootsListed
    <3> QED BY <3>1, <3>2
  <2> QED BY <2>1, <2>2 DEF IInv, WalkInv
<1>13. CASE Walk
  <2>1. ReadInv' /\ GraphInv' /\ UNCHANGED <<nodes, pc>> /\ pc = "walk" /\ queue # << >>
    BY <1>13 DEF Walk, ReadInv, GraphInv, GraphOf, input, marks, graph
  <2>2. Head(queue) \in DOMAIN nodes /\ Tail(queue) \in Seq(DOMAIN nodes)
    BY <2>1 DEF WalkInv
  <2>3. matchingNeighbors(Head(queue)) \in Seq(DOMAIN nodes) /\ << >> \in Seq(DOMAIN nodes)
    BY NeighborsListed
  <2>4. queue' \in Seq(DOMAIN nodes)
    <3>1. queue' \in {Tail(queue) \o << >>, Tail(queue) \o matchingNeighbors(Head(queue))}
      BY <1>13 DEF Walk
    <3> QED BY <2>2, <2>3, <3>1, ConcatProperties
  <2>5. discovered' \subseteq DOMAIN nodes /\ providers' \subseteq discovered'
    BY <1>13, <2>2 DEF Walk, WalkInv
  <2> QED BY <2>1, <2>4, <2>5 DEF IInv, WalkInv
<1>14. CASE EndWalk
  <2>1. ReadInv' /\ GraphInv'
    BY <1>14 DEF EndWalk, ReadInv, GraphInv, GraphOf, input, marks, graph
  <2>2. WalkInv'
    BY <1>14 DEF EndWalk, WalkInv, graph, walk
  <2> QED BY <2>1, <2>2 DEF IInv
<1>15. CASE UNCHANGED vars
  <2>1. ReadInv'
    BY <1>15 DEF vars, ReadInv, input, marks
  <2> QED BY <1>4, <1>15, <2>1 DEF vars
<1> QED BY <1>5, <1>6, <1>7, <1>8, <1>9, <1>10, <1>11, <1>12, <1>13, <1>14, <1>15 DEF Next

(***************************************************************************)
(* The variables keep their types (LayerExtract.tla, TypeOK).              *)
(***************************************************************************)
THEOREM TypeCorrect == Spec => []TypeOK
<1>1. IInv => TypeOK
  BY InvImplies
<1> QED BY <1>1, InvInit, InvNext, PTL DEF Spec

(***************************************************************************)
(* For every program and options, the index never names a node that has    *)
(* been removed and no edge hangs: AddEdge never panics                    *)
(* (internal/layergraph/extract.go:211).                                   *)
(***************************************************************************)
THEOREM MappedNodesLiveAlways == Spec => []MappedNodesLive
<1>1. IInv => MappedNodesLive
  BY InvImplies
<1> QED BY <1>1, InvInit, InvNext, PTL DEF Spec

-----------------------------------------------------------------------------
(***************************************************************************)
(* How far the source is followed.                                         *)
(***************************************************************************)
Further(F) ==
  F \cup Parts({ source[n].declaration :
                 n \in { m \in F : source[m].kind = "identifier" } } \ {0})

(***************************************************************************)
(* The recursion of Followed is well-defined: what d + 1 references lead   *)
(* to is found from what d lead to.                                        *)
(***************************************************************************)
LEMMA FollowedDef ==
  /\ Followed[0] = Parts({Requested})
  /\ \A d \in Nat : Followed[d] \subseteq Ast /\ Followed[d + 1] = Further(Followed[d])
<1> DEFINE p == Parts({Requested})
           G == [F \in SUBSET Ast |-> Further(F)]
           IsFollowed(f) ==
             f = [d \in Nat |->
                    IF d = 0 THEN Parts({Requested})
                    ELSE f[d - 1] \cup
                         Parts({ source[n].declaration :
                                 n \in { m \in f[d - 1] : source[m].kind = "identifier" } } \ {0})]
<1>1. p \in SUBSET Ast /\ \A N : Parts(N) \subseteq Ast
  BY DEF Parts
<1>2. G \in [SUBSET Ast -> SUBSET Ast]
  BY <1>1 DEF Further
<1>3. PICK f \in [Nat -> SUBSET Ast] : f[0] = p /\ \A d \in Nat : f[d + 1] = G[f[d]]
  <2> DEFINE X == SUBSET Ast
  <2>1. p \in X /\ G \in [X -> X]
    BY <1>1, <1>2
  <2>2. \E f \in [Nat -> X] : f[0] = p /\ \A d \in Nat : f[d + 1] = G[f[d]]
    <3> HIDE DEF p, G, X
    <3> QED BY <2>1, IterationExists
  <2> QED BY <2>2
<1>4. IsFollowed(f)
  <2>1. ASSUME NEW d \in Nat, d # 0 PROVE f[d] = Further(f[d - 1])
    <3>1. d - 1 \in Nat /\ (d - 1) + 1 = d
      BY <2>1
    <3>2. f[(d - 1) + 1] = G[f[d - 1]] /\ f[d - 1] \in SUBSET Ast
      <4> HIDE DEF G
      <4> QED BY <1>3, <3>1
    <3> QED BY <3>1, <3>2
  <2>2. \A d \in Nat : f[d] = IF d = 0 THEN p ELSE Further(f[d - 1])
    <3> HIDE DEF p
    <3> QED BY <1>3, <2>1
  <2>3. f = [d \in Nat |-> IF d = 0 THEN p ELSE Further(f[d - 1])]
    <3> HIDE DEF p
    <3> QED BY <1>3, <2>2
  <2> QED BY <2>3 DEF Further
<1>5. Followed = CHOOSE g : IsFollowed(g)
  BY DEF Followed
<1>6. IsFollowed(Followed)
  <2> HIDE DEF IsFollowed
  <2> QED BY <1>4, <1>5
<1>7. Followed[0] = p
  BY <1>6
<1>8. ASSUME NEW d \in Nat PROVE Followed[d + 1] = Further(Followed[d])
  <2>1. d + 1 \in Nat /\ d + 1 # 0 /\ (d + 1) - 1 = d
    OBVIOUS
  <2>2. Followed[d + 1] = Further(Followed[(d + 1) - 1])
    BY <1>6, <2>1 DEF Further
  <2> QED BY <2>1, <2>2
<1>9. ASSUME NEW d \in Nat PROVE Followed[d] \subseteq Ast
  <2> DEFINE Outside == { k \in Nat : ~ (Followed[k] \subseteq Ast) }
  <2>1. SUFFICES ASSUME Outside # {} PROVE FALSE
    OBVIOUS
  <2>2. PICK k \in Outside : \A y \in Outside : k <= y
    <3>1. Outside \subseteq Nat
      OBVIOUS
    <3> HIDE DEF Outside
    <3> QED BY <2>1, <3>1, LeastNatural
  <2>3. k # 0
    BY <1>1, <1>7
  <2>4. k \in Nat /\ k - 1 \in Nat /\ (k - 1) + 1 = k /\ ~ (k <= k - 1)
    BY <2>3
  <2>5. k - 1 \notin Outside
    <3> HIDE DEF Outside
    <3> QED BY <2>2, <2>4
  <2>6. Followed[k] = Further(Followed[k - 1])
    BY <1>8, <2>4
  <2> QED BY <1>1, <2>4, <2>5, <2>6 DEF Further
<1> QED BY <1>7, <1>8, <1>9

(***************************************************************************)
(* Parts contains what it starts from and what its members take apart into.*)
(***************************************************************************)
LEMMA PartsAreClosed ==
  ASSUME ReadInv, NEW N, N \subseteq Ast
  PROVE  /\ N \subseteq Parts(N)
         /\ \A n \in Parts(N) : Explodes(n) => ToSet(children(n)) \subseteq Parts(N)
<1>1. \A n \in Ast : ToSet(children(n)) \subseteq Ast
  BY ExpressionType
<1> QED BY <1>1 DEF Parts

(***************************************************************************)
(* So is what some number of references lead to; one more leads to the     *)
(* declarations of the identifiers that are found there.                   *)
(***************************************************************************)
LEMMA FollowedIsClosed ==
  ASSUME ReadInv, NEW d \in Nat
  PROVE  /\ \A n \in Followed[d] : Explodes(n) => ToSet(children(n)) \subseteq Followed[d]
         /\ \A n \in Followed[d] : source[n].kind = "identifier" /\ source[n].declaration # 0 =>
              source[n].declaration \in Followed[d + 1]
<1> DEFINE Declared(F) == { source[n].declaration :
                            n \in { m \in F : source[m].kind = "identifier" } } \ {0}
           Open == { k \in Nat : \E n \in Followed[k] :
                       Explodes(n) /\ ~ (ToSet(children(n)) \subseteq Followed[k]) }
<1>1. \A k \in Nat : Followed[k] \subseteq Ast /\ Followed[k + 1] = Followed[k] \cup Parts(Declared(Followed[k]))
  BY FollowedDef DEF Further
<1>2. ASSUME NEW k \in Nat PROVE Declared(Followed[k]) \subseteq Ast
  <2>1. \A n \in Followed[k] : source[n] \in Expression
    BY <1>1, ExpressionType
  <2> QED BY <2>1 DEF Expression
<1>3. Open = {}
  <2>1. SUFFICES ASSUME Open # {} PROVE FALSE
    OBVIOUS
  <2>2. PICK k \in Open : \A y \in Open : k <= y
    <3>1. Open \subseteq Nat
      OBVIOUS
    <3> HIDE DEF Open
    <3> QED BY <2>1, <3>1, LeastNatural
  <2>3. k # 0
    <3>1. Requested \in Ast
      BY InputsType
    <3> QED BY <3>1, FollowedDef, PartsAreClosed
  <2>4. k \in Nat /\ k - 1 \in Nat /\ (k - 1) + 1 = k /\ ~ (k <= k - 1)
    BY <2>3
  <2>5. k - 1 \notin Open
    <3> HIDE DEF Open
    <3> QED BY <2>2, <2>4
  <2>6. Followed[k] = Followed[k - 1] \cup Parts(Declared(Followed[k - 1]))
    <3> HIDE DEF Declared
    <3> QED BY <1>1, <2>4
  <2>7. \A n \in Parts(Declared(Followed[k - 1])) :
          Explodes(n) => ToSet(children(n)) \subseteq Parts(Declared(Followed[k - 1]))
    <3>1. Declared(Followed[k - 1]) \subseteq Ast
      BY <1>2, <2>4
    <3> HIDE DEF Declared
    <3> QED BY <3>1, PartsAreClosed
  <2> HIDE DEF Declared
  <2> QED BY <2>2, <2>4, <2>5, <2>6, <2>7
<1>4. Declared(Followed[d]) \subseteq Followed[d + 1]
  <2>1. Declared(Followed[d]) \subseteq Parts(Declared(Followed[d]))
    <3>1. Declared(Followed[d]) \subseteq Ast
      BY <1>2
    <3> HIDE DEF Declared
    <3> QED BY <3>1, PartsAreClosed
  <2> HIDE DEF Declared
  <2> QED BY <1>1, <2>1
<1> QED BY <1>3, <1>4

(***************************************************************************)
(* More references lead to no less.                                        *)
(***************************************************************************)
LEMMA FollowedGrows ==
  ASSUME NEW d \in Nat, NEW e \in Nat, d <= e
  PROVE  Followed[d] \subseteq Followed[e]
<1> DEFINE Lost == { k \in Nat : d <= k /\ ~ (Followed[d] \subseteq Followed[k]) }
<1>1. SUFFICES ASSUME Lost # {} PROVE FALSE
  OBVIOUS
<1>2. PICK k \in Lost : \A y \in Lost : k <= y
  <2>1. Lost \subseteq Nat
    OBVIOUS
  <2> HIDE DEF Lost
  <2> QED BY <1>1, <2>1, LeastNatural
<1>3. k \in Nat /\ k # d /\ k - 1 \in Nat /\ (k - 1) + 1 = k /\ d <= k - 1 /\ ~ (k <= k - 1)
  OBVIOUS
<1>4. k - 1 \notin Lost
  <2> HIDE DEF Lost
  <2> QED BY <1>2, <1>3
<1>5. Followed[k - 1] \subseteq Followed[k]
  BY <1>3, FollowedDef DEF Further
<1> QED BY <1>3, <1>4, <1>5

(***************************************************************************)
(* What is on a stack after expressions are pushed or popped.              *)
(***************************************************************************)
LEMMA StackMembers ==
  ASSUME NEW s \in Seq(Ast), NEW c \in Seq(Ast)
  PROVE  /\ s # << >> => Head(s) \in ToSet(s) /\ ToSet(Tail(s)) \subseteq ToSet(s)
         /\ ToSet(c \o s) = ToSet(c) \cup ToSet(s)
         /\ ToSet(Reverse(c)) \subseteq ToSet(c)
         /\ \A a \in Ast : ToSet(<< a >> \o s) = {a} \cup ToSet(s)
<1>1. s # << >> => Head(s) \in ToSet(s) /\ ToSet(Tail(s)) \subseteq ToSet(s)
  BY DEF ToSet
<1>2. ASSUME NEW b \in Seq(Ast) PROVE ToSet(b \o s) = ToSet(b) \cup ToSet(s)
  <2>1. DOMAIN (b \o s) = 1 .. (Len(b) + Len(s)) /\ Len(b) \in Nat /\ Len(s) \in Nat
    OBVIOUS
  <2>2. ASSUME NEW k \in DOMAIN (b \o s) PROVE (b \o s)[k] \in ToSet(b) \cup ToSet(s)
    BY <2>1 DEF ToSet
  <2>3. ASSUME NEW k \in DOMAIN b PROVE b[k] \in ToSet(b \o s)
    <3>1. k \in DOMAIN (b \o s) /\ (b \o s)[k] = b[k]
      BY <2>1
    <3> QED BY <3>1 DEF ToSet
  <2>4. ASSUME NEW k \in DOMAIN s PROVE s[k] \in ToSet(b \o s)
    <3>1. Len(b) + k \in DOMAIN (b \o s) /\ (b \o s)[Len(b) + k] = s[k]
      BY <2>1
    <3> QED BY <3>1 DEF ToSet
  <2>5. /\ \A x \in ToSet(b \o s) : \E k \in DOMAIN (b \o s) : x = (b \o s)[k]
        /\ \A x \in ToSet(b) : \E k \in DOMAIN b : x = b[k]
        /\ \A x \in ToSet(s) : \E k \in DOMAIN s : x = s[k]
    BY DEF ToSet
  <2> QED BY <2>2, <2>3, <2>4, <2>5
<1>3. ToSet(Reverse(c)) \subseteq ToSet(c)
  <2>1. /\ DOMAIN Reverse(c) = DOMAIN c
        /\ \A k \in DOMAIN c : Reverse(c)[k] = c[Len(c) - k + 1] /\ Len(c) - k + 1 \in DOMAIN c
    BY DEF Reverse
  <2> QED BY <2>1 DEF ToSet
<1>4. ASSUME NEW a \in Ast PROVE ToSet(<< a >> \o s) = {a} \cup ToSet(s)
  <2>1. << a >> \in Seq(Ast) /\ ToSet(<< a >>) = {a}
    BY DEF ToSet
  <2> QED BY <1>2, <2>1
<1> QED BY <1>1, <1>2, <1>3, <1>4

(***************************************************************************)
(* The inductive invariant of the depth: an expression on the stack is     *)
(* reached by as many references as its budget is short of the whole.      *)
(***************************************************************************)
DepthInv ==
  /\ \A n \in ToSet(stack) : n \in Followed[opts.FollowSymbolsDepth - depthBudget[n]]
  /\ \A i \in DOMAIN nodes : nodes[i].node \in Followed[opts.FollowSymbolsDepth]

\* The nodes after a step are some of those before, and perhaps one for n.
OnlyAdds(n) ==
  \A i \in DOMAIN nodes' :
    (i \in DOMAIN nodes /\ nodes'[i] = nodes[i]) \/ (i = nextNodeIndex /\ nodes'[i].node = n)

(***************************************************************************)
(* Adding a node, or showing an expression on its own or not at all,       *)
(* keeps the other nodes and adds one for the expression at most.          *)
(***************************************************************************)
LEMMA AddingOnlyAdds ==
  ASSUME NEW N, NEW E, NEW index, NEW n, NEW added,
         \A i \in DOMAIN N : i \in DOMAIN nodes /\ N[i] = nodes[i],
         AddNode(N, E, index, n, added) \/ AddLeaf(N, E, index, n)
  PROVE  OnlyAdds(n)
<1>1. CASE \E a : AddNode(N, E, index, n, a)
  BY <1>1 DEF AddNode, OnlyAdds
<1>2. CASE nodes' = N
  BY <1>2 DEF OnlyAdds
<1> QED BY <1>1, <1>2 DEF AddLeaf

(***************************************************************************)
(* So does joining members: what it removes is out of the index as well.   *)
(***************************************************************************)
LEMMA RemovingOnlyAdds == RemovePartialChildren => OnlyAdds(current)
<1> SUFFICES ASSUME RemovePartialChildren PROVE OnlyAdds(current)
  OBVIOUS
<1> DEFINE mapped  == ToSet(children(current)) \cap DOMAIN nodeToGraphIndex
           removed == { nodeToGraphIndex[c] : c \in mapped }
           kept    == { k \in DOMAIN edges : {edges[k].source, edges[k].target} \cap removed = {} }
           N       == Restrict(nodes, DOMAIN nodes \ removed)
           E       == Restrict(edges, kept)
           index   == Restrict(nodeToGraphIndex, DOMAIN nodeToGraphIndex \ mapped)
<1>1. AddLeaf(N, E, index, current)
  BY DEF RemovePartialChildren
<1>2. \A i \in DOMAIN N : i \in DOMAIN nodes /\ N[i] = nodes[i]
  BY DEF Restrict
<1> HIDE DEF N, E, index
<1> QED BY <1>1, <1>2, AddingOnlyAdds

(***************************************************************************)
(* At first only the requested expression is waiting, with the whole       *)
(* depth left.                                                             *)
(***************************************************************************)
LEMMA DepthInit == Init => DepthInv
<1> SUFFICES ASSUME Init PROVE DepthInv
  OBVIOUS
<1>1. ReadInv /\ Requested \in Ast
  BY InvInit, InputsType DEF IInv
<1>2. opts.FollowSymbolsDepth \in Nat
  BY <1>1 DEF ReadInv, Option
<1>3. ToSet(stack) = {Requested} /\ depthBudget[Requested] = opts.FollowSymbolsDepth
  BY <1>1 DEF Init, ToSet
<1>4. Requested \in Followed[0]
  BY <1>1, FollowedDef, PartsAreClosed
<1>5. opts.FollowSymbolsDepth - depthBudget[Requested] = 0
  BY <1>2, <1>3
<1>6. DOMAIN nodes = {}
  BY DEF Init, NoGraph
<1> QED BY <1>3, <1>4, <1>5, <1>6 DEF DepthInv

(***************************************************************************)
(* Each step that follows a reference spends one of the depth that is      *)
(* left, and each other step goes on to a member.                          *)
(***************************************************************************)
LEMMA DepthNext == IInv /\ DepthInv /\ [Next]_vars => DepthInv'
<1> SUFFICES ASSUME ReadInv, GraphInv, WalkInv, DepthInv, [Next]_vars PROVE DepthInv'
  BY DEF IInv
<1> DEFINE D == opts.FollowSymbolsDepth
<1>1. D \in Nat /\ \A n \in Ast : depthBudget[n] \in 0 .. D
  BY DEF ReadInv, Option
<1>2. input' = input /\ Followed' = Followed /\ opts' = opts
  <2>1. UNCHANGED input
    BY DEF Next, vars, Enter, Link, SkipArray, RemovePartialChildren, FollowSymbol, LinkSymbol,
           Leaf, StartWalk, Walk, EndWalk
  <2>2. Followed' = Followed
    BY <2>1 DEF input, Followed, Parts, Explodes, children
  <2> QED BY <2>1, <2>2 DEF input
<1>3. stack \in Seq(Ast) /\ \A n \in ToSet(stack) : n \in Ast
  BY DEF ReadInv, ToSet
<1>4. ASSUME Extracting
      PROVE  /\ current \in Ast /\ current \in ToSet(stack) /\ ToSet(Tail(stack)) \subseteq ToSet(stack)
             /\ D - depthBudget[current] \in Nat
             /\ current \in Followed[D - depthBudget[current]] /\ current \in Followed[D]
  <2>1. current \in Ast /\ current \in ToSet(stack) /\ ToSet(Tail(stack)) \subseteq ToSet(stack)
    BY <1>3, <1>4, CurrentType, StackMembers DEF Extracting, current
  <2>2. D - depthBudget[current] \in Nat /\ D - depthBudget[current] <= D
    <3>1. depthBudget[current] \in 0 .. D
      BY <1>1, <2>1
    <3> HIDE DEF D
    <3> QED BY <1>1, <3>1
  <2>3. current \in Followed[D - depthBudget[current]]
    BY <2>1 DEF DepthInv
  <2>4. Followed[D - depthBudget[current]] \subseteq Followed[D]
    <3> HIDE DEF D
    <3> QED BY <1>1, <2>2, FollowedGrows
  <2> QED BY <2>1, <2>2, <2>3, <2>4
\* A step that pops the expression and may show it.
<1>5. ASSUME Extracting, stack' = Tail(stack), depthBudget' = depthBudget, OnlyAdds(current)
      PROVE  DepthInv'
  <2>1. \A n \in ToSet(stack') : n \in Followed'[D' - depthBudget'[n]]
    BY <1>2, <1>4, <1>5 DEF DepthInv
  <2>2. \A i \in DOMAIN nodes' : nodes'[i].node \in Followed'[D']
    BY <1>2, <1>4, <1>5 DEF DepthInv, OnlyAdds
  <2> QED BY <2>1, <2>2 DEF DepthInv
<1>6. CASE Enter
  <2> DEFINE c == children(current)
             b == depthBudget[current]
  <2>1. Extracting /\ Explodes(current) /\ UNCHANGED nodes
    BY <1>6 DEF Enter, graph
  <2>2. current \in Ast /\ c \in Seq(Ast) /\ ToSet(c) \subseteq Ast
    BY <1>4, <2>1, ExpressionType
  <2>3. stack' = Reverse(c) \o stack /\ Reverse(c) \in Seq(Ast)
    BY <1>6, <2>2 DEF Enter, Reverse
  <2>4. ToSet(stack') \subseteq ToSet(c) \cup ToSet(stack)
    <3> HIDE DEF c
    <3>1. ToSet(Reverse(c) \o stack) = ToSet(Reverse(c)) \cup ToSet(stack)
      BY <1>3, <2>3, StackMembers
    <3>2. ToSet(Reverse(c)) \subseteq ToSet(c)
      BY <1>3, <2>2, StackMembers
    <3> QED BY <2>3, <3>1, <3>2
  <2>5. \A n \in Ast : depthBudget'[n] = IF n \in ToSet(c) THEN b ELSE depthBudget[n]
    BY <1>6 DEF Enter
  <2>6. ToSet(c) \subseteq Followed[D - b]
    BY <1>4, <2>1, FollowedIsClosed
  <2>7. ASSUME NEW n \in ToSet(stack') PROVE n \in Followed'[D' - depthBudget'[n]]
    <3>1. n \in Ast
      BY <1>3, <2>2, <2>4
    <3>2. CASE n \in ToSet(c)
      BY <1>2, <2>5, <2>6, <3>1, <3>2
    <3>3. CASE n \notin ToSet(c)
      <4>1. n \in ToSet(stack) /\ depthBudget'[n] = depthBudget[n]
        BY <2>4, <2>5, <3>1, <3>3
      <4> QED BY <1>2, <4>1 DEF DepthInv
    <3> QED BY <3>2, <3>3
  <2> QED BY <1>2, <2>1, <2>7 DEF DepthInv
<1>7. CASE Link
  <2>1. OnlyAdds(current)
    BY <1>7, AddingOnlyAdds DEF Link
  <2> QED BY <1>5, <1>7, <2>1 DEF Link, marks
<1>8. CASE SkipArray
  <2>1. OnlyAdds(current)
    BY <1>8 DEF SkipArray, OnlyAdds, graph
  <2> QED BY <1>5, <1>8, <2>1 DEF SkipArray, marks
<1>9. CASE RemovePartialChildren
  <2>1. OnlyAdds(current)
    BY <1>9, RemovingOnlyAdds
  <2> QED BY <1>5, <1>9, <2>1 DEF RemovePartialChildren, marks
<1>10. CASE FollowSymbol
  <2> DEFINE d == source[current].declaration
             b == depthBudget[current]
  <2>1. Extracting /\ UNCHANGED nodes /\ source[current].kind = "identifier" /\ d # 0 /\ b > 0
    BY <1>10 DEF FollowSymbol, FollowsSymbol, graph
  <2>2. d \in Ast
    BY <1>4, <2>1, ExpressionType DEF Expression
  <2>3. stack' = << d >> \o stack /\ depthBudget' = [depthBudget EXCEPT ![d] = b - 1]
    BY <1>10 DEF FollowSymbol
  <2>4. ToSet(stack') = {d} \cup ToSet(stack)
    <3> HIDE DEF d
    <3> QED BY <1>3, <2>2, <2>3, StackMembers
  <2>5. DOMAIN depthBudget = Ast
    BY DEF ReadInv
  <2>6. \A n \in Ast : depthBudget'[n] = IF n = d THEN b - 1 ELSE depthBudget[n]
    <3> HIDE DEF b, d
    <3> QED BY <2>3, <2>5
  <2>7. d \in Followed[(D - b) + 1]
    BY <1>4, <2>1, FollowedIsClosed
  <2>8. (D - b) + 1 = D - (b - 1)
    <3>1. b \in 0 .. D
      BY <1>1, <1>4, <2>1
    <3> HIDE DEF D, b
    <3> QED BY <1>1, <3>1
  <2>9. ASSUME NEW n \in ToSet(stack') PROVE n \in Followed'[D' - depthBudget'[n]]
    <3>1. CASE n = d
      BY <1>2, <2>2, <2>6, <2>7, <2>8, <3>1
    <3>2. CASE n # d
      <4>1. n \in ToSet(stack) /\ depthBudget'[n] = depthBudget[n]
        BY <1>3, <2>4, <2>6, <3>2
      <4> QED BY <1>2, <4>1 DEF DepthInv
    <3> QED BY <3>1, <3>2
  <2> QED BY <1>2, <2>1, <2>9 DEF DepthInv
<1>11. CASE LinkSymbol
  <2>1. OnlyAdds(current)
    BY <1>11, AddingOnlyAdds DEF LinkSymbol
  <2> QED BY <1>5, <1>11, <2>1 DEF LinkSymbol, marks
<1>12. CASE Leaf
  <2>1. OnlyAdds(current)
    BY <1>12, AddingOnlyAdds DEF Leaf
  <2> QED BY <1>5, <1>12, <2>1 DEF Leaf, marks
<1>13. CASE UNCHANGED <<stack, depthBudget, nodes>>
  BY <1>2, <1>13 DEF DepthInv
<1>14. StartWalk \/ Walk \/ EndWalk \/ UNCHANGED vars => UNCHANGED <<stack, depthBudget, nodes>>
  BY DEF StartWalk, Walk, EndWalk, vars, marks, graph
<1> QED BY <1>6, <1>7, <1>8, <1>9, <1>10, <1>11, <1>12, <1>13, <1>14 DEF Next

(***************************************************************************)
(* For every program and depth, whatever is shown lies within the number   *)
(* of declarations that the caller asked for, though the budget of an      *)
(* expression is overwritten on each path to it                            *)
(* (internal/layergraph/types.go:113, extract.go:201).                     *)
(***************************************************************************)
THEOREM WithinDepthAlways == Spec => []WithinDepth
<1>1. DepthInv => WithinDepth
  BY DEF DepthInv, WithinDepth
<1> QED BY <1>1, InvInit, InvNext, DepthInit, DepthNext, PTL DEF Spec

-----------------------------------------------------------------------------
(***************************************************************************)
(* Calls are shown with all of their arguments, or with none.              *)
(***************************************************************************)
Calls(E, i) == { k \in DOMAIN E : E[k].source = i /\ E[k].relationship = "call" }

CompleteIn(N, index, n) == \A c \in ToSet(children(n)) : c \in DOMAIN index /\ index[c] \in DOMAIN N

(***************************************************************************)
(* The inductive invariant: a node with call edges is that of an           *)
(* expression whose members are all in the graph, and its call edges are   *)
(* numbered consecutively, in the order of the members they lead to.       *)
(***************************************************************************)
WholeAt(N, E, index, i) ==
  LET c == children(N[i].node) IN
  \/ Calls(E, i) = {}
  \/ /\ CompleteIn(N, index, N[i].node)
     /\ \E b \in 0 .. nextEdgeIndex :
          /\ Calls(E, i) = b .. (b + Len(c) - 1)
          /\ \A p \in 1 .. Len(c) : N[E[b + p - 1].target].node = c[p]

WholeInv == \A i \in DOMAIN nodes : WholeAt(nodes, edges, nodeToGraphIndex, i)

\* The edges added for n are no call's, or those of a whole call.
LinkedWhole(N, index, n, added) ==
  \/ \A k \in 1 .. Len(added) : added[k].relationship # "call"
  \/ /\ CompleteIn(N, index, n) /\ Len(added) = Len(children(n))
     /\ \A p \in 1 .. Len(added) :
          /\ added[p].source = nextNodeIndex /\ added[p].relationship = "call"
          /\ added[p].target \in DOMAIN N /\ N[added[p].target].node = children(n)[p]

(***************************************************************************)
(* It says what ShownWhole says of calls.                                  *)
(***************************************************************************)
LEMMA InvImpliesWhole ==
  ASSUME IInv, WholeInv, NEW i \in DOMAIN nodes
  PROVE  Targets(i, "call") \in {<< >>, children(nodes[i].node)}
<1> DEFINE c   == children(nodes[i].node)
           L   == Len(c)
           own == InOrder(Calls(edges, i))
<1>1. Targets(i, "call") = [k \in DOMAIN own |-> nodes[edges[own[k]].target].node]
  <2>1. Calls(edges, i) = { k \in Outgoing(i) : edges[k].relationship = "call" }
    BY DEF Calls, Outgoing
  <2> QED BY <2>1 DEF Targets
<1>2. nodes[i].node \in Ast
  BY DEF IInv, GraphInv, GraphOf
<1>3. c \in Seq(Ast) /\ L \in Nat
  BY <1>2, ExpressionType DEF IInv
<1>4. CASE Calls(edges, i) = {}
  <2>1. own = [k \in 1 .. 0 |-> 0 + k - 1]
    <3>1. 0 .. (0 + 0 - 1) = {}
      OBVIOUS
    <3> QED BY <1>4, <3>1, InOrderOfInterval
  <2>2. DOMAIN own = {}
    BY <2>1
  <2> HIDE DEF own
  <2> QED BY <1>1, <2>2
<1>5. CASE Calls(edges, i) # {}
  <2>1. PICK b \in 0 .. nextEdgeIndex :
          /\ Calls(edges, i) = b .. (b + L - 1)
          /\ \A p \in 1 .. L : nodes[edges[b + p - 1].target].node = c[p]
    BY <1>5 DEF WholeInv, WholeAt
  <2>2. own = [k \in 1 .. L |-> b + k - 1]
    <3>1. b \in Nat
      OBVIOUS
    <3> HIDE DEF L
    <3> QED BY <1>3, <2>1, <3>1, InOrderOfInterval
  <2> HIDE DEF own, L
  <2>3. Targets(i, "call") = [k \in 1 .. L |-> nodes[edges[b + k - 1].target].node]
    BY <1>1, <2>2
  <2>4. Targets(i, "call") = [k \in 1 .. L |-> c[k]]
    BY <2>1, <2>3
  <2>5. c = [k \in 1 .. L |-> c[k]]
    BY <1>3 DEF L
  <2> QED BY <2>4, <2>5
<1> QED BY <1>4, <1>5

(***************************************************************************)
(* Adding a node with such edges keeps it.                                 *)
(***************************************************************************)
LEMMA AddNodeKeepsWhole ==
  ASSUME ReadInv, NEW N, NEW E, NEW index, NEW n \in Ast, NEW added,
         nextNodeIndex \in Nat, nextEdgeIndex \in Nat, GraphOf(N, E, index),
         \A i \in DOMAIN N : WholeAt(N, E, index, i),
         Len(added) \in Nat, LinkedWhole(N, index, n, added), UNCHANGED source,
         AddNode(N, E, index, n, added)
  PROVE  WholeInv'
<1> DEFINE L == Len(added)
<1>1. /\ DOMAIN nodes' = DOMAIN N \cup {nextNodeIndex}
      /\ nextNodeIndex \notin DOMAIN N
      /\ \A i \in DOMAIN N : nodes'[i] = N[i]
      /\ nodes'[nextNodeIndex].node = n
  BY DEF AddNode, GraphOf
<1>2. nextEdgeIndex' = nextEdgeIndex + L /\ 0 .. nextEdgeIndex \subseteq 0 .. nextEdgeIndex'
  BY DEF AddNode
<1>3. /\ DOMAIN edges' = DOMAIN E \cup nextEdgeIndex .. (nextEdgeIndex + L - 1)
      /\ \A k \in DOMAIN E : edges'[k] = E[k]
      /\ \A k \in nextEdgeIndex .. (nextEdgeIndex + L - 1) :
           k \notin DOMAIN E /\ k - nextEdgeIndex + 1 \in 1 .. L /\ edges'[k] = added[k - nextEdgeIndex + 1]
  <2>1. \A k \in nextEdgeIndex .. (nextEdgeIndex + L - 1) : k \notin DOMAIN E
    <3>1. DOMAIN E \subseteq 0 .. (nextEdgeIndex - 1)
      BY DEF GraphOf
    <3> HIDE DEF L
    <3> QED BY <3>1
  <2>2. \A k \in nextEdgeIndex .. (nextEdgeIndex + L - 1) : k - nextEdgeIndex + 1 \in 1 .. L
    <3>1. L \in Nat
      OBVIOUS
    <3> HIDE DEF L
    <3> QED BY <3>1
  <2>3. /\ DOMAIN edges' = DOMAIN E \cup nextEdgeIndex .. (nextEdgeIndex + L - 1)
        /\ \A k \in DOMAIN edges' :
             edges'[k] = IF k \in DOMAIN E THEN E[k] ELSE added[k - nextEdgeIndex + 1]
    BY DEF AddNode
  <2> HIDE DEF L
  <2> QED BY <2>1, <2>2, <2>3
<1>4. /\ DOMAIN nodeToGraphIndex' = DOMAIN index \cup {n}
      /\ \A a \in DOMAIN nodeToGraphIndex' : nodeToGraphIndex'[a] = IF a = n THEN nextNodeIndex ELSE index[a]
  BY DEF AddNode
<1>5. \A m : children(m)' = children(m)
  BY DEF children
<1>6. \A m : CompleteIn(N, index, m) => CompleteIn(nodes, nodeToGraphIndex, m)'
  BY <1>1, <1>4, <1>5 DEF CompleteIn
<1>7. \A k \in DOMAIN E : E[k].source \in DOMAIN N /\ E[k].target \in DOMAIN N
  BY DEF GraphOf, EdgeOver
<1>8. ASSUME NEW i \in DOMAIN N PROVE WholeAt(nodes, edges, nodeToGraphIndex, i)'
  <2> DEFINE c == children(N[i].node)
  <2>1. Calls(edges', i) = Calls(E, i)
    <3>1. ASSUME NEW k \in nextEdgeIndex .. (nextEdgeIndex + L - 1) PROVE k \notin Calls(edges', i)
      <4>1. k - nextEdgeIndex + 1 \in 1 .. L /\ edges'[k] = added[k - nextEdgeIndex + 1]
        BY <1>3
      <4>2. edges'[k].relationship # "call" \/ edges'[k].source = nextNodeIndex
        <5> HIDE DEF L
        <5> QED BY <4>1 DEF LinkedWhole, L
      <4>3. i # nextNodeIndex
        BY <1>1
      <4> QED BY <4>2, <4>3 DEF Calls
    <3>2. \A k \in DOMAIN E : k \in Calls(edges', i) <=> k \in Calls(E, i)
      BY <1>3 DEF Calls
    <3>3. Calls(edges', i) \subseteq DOMAIN edges' /\ Calls(E, i) \subseteq DOMAIN E
      BY DEF Calls
    <3> HIDE DEF L
    <3> QED BY <1>3, <3>1, <3>2, <3>3
  <2>2. CASE Calls(E, i) = {}
    BY <2>1, <2>2 DEF WholeAt
  <2>3. CASE Calls(E, i) # {}
    <3>1. CompleteIn(N, index, N[i].node)
      BY <2>3 DEF WholeAt
    <3>2. PICK b \in 0 .. nextEdgeIndex :
            /\ Calls(E, i) = b .. (b + Len(c) - 1)
            /\ \A p \in 1 .. Len(c) : N[E[b + p - 1].target].node = c[p]
      BY <2>3 DEF WholeAt
    <3>3. N[i].node \in Ast
      BY DEF GraphOf
    <3>4. Len(c) \in Nat
      BY <3>3, ExpressionType
    <3>5. ASSUME NEW p \in 1 .. Len(c) PROVE nodes'[edges'[b + p - 1].target].node = c[p]
      <4>1. b + p - 1 \in b .. (b + Len(c) - 1)
        <5> HIDE DEF c
        <5> QED BY <3>4
      <4>2. b + p - 1 \in DOMAIN E
        BY <3>2, <4>1 DEF Calls
      <4>3. edges'[b + p - 1] = E[b + p - 1] /\ E[b + p - 1].target \in DOMAIN N
        BY <1>3, <1>7, <4>2
      <4> QED BY <1>1, <3>2, <4>3
    <3>6. nodes'[i].node = N[i].node /\ children(nodes[i].node)' = c
      BY <1>1, <1>5
    <3>7. b \in 0 .. nextEdgeIndex'
      BY <1>2
    <3>8. CompleteIn(nodes, nodeToGraphIndex, nodes[i].node)'
      BY <1>6, <3>1, <3>6
    <3> HIDE DEF c
    <3> QED BY <2>1, <3>2, <3>5, <3>6, <3>7, <3>8 DEF WholeAt
  <2> QED BY <2>2, <2>3
<1>9. ASSUME NEW i, i = nextNodeIndex PROVE WholeAt(nodes, edges, nodeToGraphIndex, i)'
  <2>1. \A k \in DOMAIN E : k \notin Calls(edges', i)
    BY <1>1, <1>9, <1>3, <1>7 DEF Calls
  <2>2. Calls(edges', i) \subseteq nextEdgeIndex .. (nextEdgeIndex + L - 1)
    BY <1>3, <2>1 DEF Calls
  <2>3. CASE \A k \in 1 .. L : added[k].relationship # "call"
    <3>1. Calls(edges', i) = {}
      BY <1>3, <2>2, <2>3 DEF Calls
    <3> QED BY <3>1 DEF WholeAt
  <2>4. CASE ~ \A k \in 1 .. L : added[k].relationship # "call"
    <3> DEFINE c == children(n)
    <3>1. /\ CompleteIn(N, index, n) /\ L = Len(c)
          /\ \A p \in 1 .. L :
               /\ added[p].source = nextNodeIndex /\ added[p].relationship = "call"
               /\ added[p].target \in DOMAIN N /\ N[added[p].target].node = c[p]
      BY <2>4 DEF LinkedWhole
    <3>2. Calls(edges', i) = nextEdgeIndex .. (nextEdgeIndex + Len(c) - 1)
      <4> HIDE DEF L, c
      <4> QED BY <1>3, <1>9, <2>2, <3>1 DEF Calls
    <3>3. ASSUME NEW p \in 1 .. Len(c)
          PROVE  nodes'[edges'[nextEdgeIndex + p - 1].target].node = c[p]
      <4> DEFINE k == nextEdgeIndex + p - 1
      <4> HIDE DEF L, c
      <4>1. k \in nextEdgeIndex .. (nextEdgeIndex + L - 1) /\ k - nextEdgeIndex + 1 = p
        BY <3>1 DEF L
      <4>2. edges'[k] = added[p]
        BY <1>3, <4>1
      <4> HIDE DEF k
      <4>3. edges'[k].target \in DOMAIN N /\ N[edges'[k].target].node = c[p]
        BY <3>1, <4>2
      <4> QED BY <1>1, <4>3 DEF k
    <3>4. nodes'[i].node = n /\ children(nodes[i].node)' = c
      BY <1>1, <1>5, <1>9
    <3>5. CompleteIn(nodes, nodeToGraphIndex, nodes[i].node)'
      BY <1>6, <3>1, <3>4
    <3>6. nextEdgeIndex \in 0 .. nextEdgeIndex'
      BY <1>2
    <3> HIDE DEF c, L
    <3> QED BY <3>2, <3>3, <3>4, <3>5, <3>6 DEF WholeAt
  <2> QED BY <2>3, <2>4
<1> QED BY <1>1, <1>8, <1>9 DEF WholeInv

(***************************************************************************)
(* When every member is in the graph, their indices are those of all       *)
(* members in order; otherwise they are those of some members.             *)
(***************************************************************************)
LEMMA CompleteIndices ==
  ASSUME ReadInv, NEW n \in Ast, Complete(n)
  PROVE  childIndices(n) = [k \in 1 .. Len(children(n)) |-> nodeToGraphIndex[children(n)[k]]]
<1> DEFINE c  == children(n)
           L  == Len(c)
           at == childIndices(n)
           found == InOrder({ k \in DOMAIN c : InGraph(c[k]) })
<1>1. L \in Nat /\ DOMAIN c = 1 .. L
  BY ExpressionType
<1>2. \A k \in 1 .. L : InGraph(c[k])
  <2> HIDE DEF L
  <2> QED BY <1>1 DEF Complete, ToSet
<1>3. { k \in DOMAIN c : InGraph(c[k]) } = 1 .. (1 + L - 1)
  <2> HIDE DEF L, c
  <2>1. 1 + L - 1 = L
    BY <1>1
  <2> QED BY <1>1, <1>2, <2>1
<1>4. found = [k \in 1 .. L |-> 1 + k - 1]
  <2> HIDE DEF L, c
  <2> QED BY <1>1, <1>3, InOrderOfInterval
<1>5. at = [k \in DOMAIN found |-> nodeToGraphIndex[c[found[k]]]]
  BY DEF childIndices
<1>6. DOMAIN found = 1 .. L /\ \A k \in 1 .. L : found[k] = k
  <2> HIDE DEF L, c
  <2>1. \A k \in 1 .. L : 1 + k - 1 = k
    BY <1>1
  <2> HIDE DEF found
  <2> QED BY <1>4, <2>1
<1>7. at = [k \in 1 .. L |-> nodeToGraphIndex[c[k]]]
  <2> HIDE DEF found, at, L, c
  <2> QED BY <1>5, <1>6
<1> QED BY <1>7

(***************************************************************************)
(* An index that a composition collects is that of a member of it which    *)
(* is in the graph.                                                        *)
(***************************************************************************)
LEMMA IndicesNameMembers ==
  ASSUME ReadInv, GraphInv, NEW n \in Ast, NEW k \in DOMAIN childIndices(n)
  PROVE  /\ childIndices(n)[k] \in DOMAIN nodes
         /\ nodes[childIndices(n)[k]].node \in ToSet(children(n))
<1> DEFINE P     == { i \in DOMAIN children(n) : InGraph(children(n)[i]) }
           found == InOrder(P)
<1>1. DOMAIN children(n) = 1 .. Len(children(n)) /\ Len(children(n)) \in Nat
  BY ExpressionType
<1>2. P \in SUBSET Nat /\ IsFiniteSet(P)
  <2>1. IsFiniteSet(1 .. Len(children(n))) /\ P \in SUBSET (1 .. Len(children(n)))
    BY <1>1, FS_Interval
  <2>2. 1 .. Len(children(n)) \subseteq Nat
    OBVIOUS
  <2> HIDE DEF P
  <2> QED BY <2>1, <2>2, FS_Subset
<1>3. found \in Seq(P)
  <2> HIDE DEF P
  <2> QED BY <1>2, InOrderLists
<1>4. childIndices(n) = [j \in DOMAIN found |-> nodeToGraphIndex[children(n)[found[j]]]]
  BY DEF childIndices
<1>5. k \in DOMAIN found /\ childIndices(n)[k] = nodeToGraphIndex[children(n)[found[k]]]
  <2> HIDE DEF found
  <2> QED BY <1>4
<1>6. found[k] \in P
  <2> HIDE DEF P, found
  <2> QED BY <1>3, <1>5
<1> DEFINE a == children(n)[found[k]]
<1>7. a \in ToSet(children(n)) /\ a \in DOMAIN nodeToGraphIndex /\ nodeToGraphIndex[a] \in DOMAIN nodes
  <2> HIDE DEF found
  <2> QED BY <1>6 DEF ToSet, InGraph
<1> HIDE DEF a
<1>8. nodes[nodeToGraphIndex[a]].node = a
  BY <1>7 DEF GraphInv, GraphOf
<1> QED BY <1>5, <1>7, <1>8 DEF a

(***************************************************************************)
(* The edges of a composition are of that kind: when every member is in    *)
(* the graph, their indices are those of all members in order.             *)
(***************************************************************************)
LEMMA LinksAreWhole ==
  ASSUME ReadInv, GraphInv, NEW n \in Ast, Explodes(n),
         source[n].kind = "call" => Complete(n)
  PROVE  LinkedWhole(nodes, nodeToGraphIndex, n, Links(n))
<1> DEFINE c  == children(n)
           L  == Len(c)
           at == childIndices(n)
<1>1. c \in Seq(Ast) /\ L \in Nat /\ DOMAIN c = 1 .. L
  BY ExpressionType
<1>2. at \in Seq(DOMAIN nodes) /\ Len(at) \in Nat /\ DOMAIN at = 1 .. Len(at)
  <2>1. at \in Seq(DOMAIN nodes)
    BY ChildIndicesType
  <2> HIDE DEF at
  <2> QED BY <2>1
<1>3. CASE source[n].kind = "pipe"
  <2>1. Links(n) = [i \in 1 .. Len(at) |->
          Edge(IF i < Len(at) THEN at[i + 1] ELSE nextNodeIndex, at[i], "pipe")]
    BY <1>3 DEF Links
  <2> HIDE DEF at
  <2>2. Len(Links(n)) = Len(at)
    BY <1>2, <2>1
  <2>3. \A k \in 1 .. Len(Links(n)) : Links(n)[k].relationship = "pipe"
    BY <2>1, <2>2 DEF Edge
  <2> QED BY <2>3 DEF LinkedWhole
<1>4. CASE source[n].kind # "pipe"
  <2>1. Links(n) = [i \in 1 .. Len(at) |-> Edge(nextNodeIndex, at[i], source[n].kind)]
    BY <1>4 DEF Links
  <2>2. Len(Links(n)) = Len(at)
    <3> HIDE DEF at
    <3> QED BY <1>2, <2>1
  <2>3. \A k \in 1 .. Len(at) : Links(n)[k] = [source |-> nextNodeIndex, target |-> at[k],
                                                relationship |-> source[n].kind]
    <3> HIDE DEF at
    <3> QED BY <2>1 DEF Edge
  <2>4. CASE source[n].kind # "call"
    <3>1. ASSUME NEW k \in 1 .. Len(at) PROVE Links(n)[k].relationship # "call"
      <4> HIDE DEF at
      <4>1. Links(n)[k] = [source |-> nextNodeIndex, target |-> at[k], relationship |-> source[n].kind]
        BY <2>3
      <4>2. Links(n)[k].relationship = source[n].kind
        BY <4>1
      <4> QED BY <2>4, <4>2
    <3> HIDE DEF at
    <3> QED BY <2>2, <3>1 DEF LinkedWhole
  <2>5. CASE source[n].kind = "call"
    <3>1. CompleteIn(nodes, nodeToGraphIndex, n)
      BY <2>5 DEF Complete, CompleteIn, InGraph
    <3>2. \A k \in 1 .. L : c[k] \in DOMAIN nodeToGraphIndex /\ nodeToGraphIndex[c[k]] \in DOMAIN nodes
      BY <1>1, <3>1 DEF CompleteIn, ToSet
    <3>3. at = [k \in 1 .. L |-> nodeToGraphIndex[c[k]]]
      BY <2>5, CompleteIndices
    <3>4. Len(at) = L
      <4> HIDE DEF L, c, at
      <4> QED BY <1>1, <1>2, <3>3
    <3>5. ASSUME NEW k \in 1 .. L
          PROVE  /\ Links(n)[k].source = nextNodeIndex /\ Links(n)[k].relationship = "call"
                 /\ Links(n)[k].target \in DOMAIN nodes /\ nodes[Links(n)[k].target].node = c[k]
      <4>1. at[k] = nodeToGraphIndex[c[k]]
        <5> HIDE DEF at, L, c
        <5> QED BY <3>3
      <4>2. at[k] \in DOMAIN nodes /\ nodes[at[k]].node = c[k]
        <5> HIDE DEF at, L, c
        <5> QED BY <3>2, <4>1 DEF GraphInv, GraphOf
      <4>3. Links(n)[k] = [source |-> nextNodeIndex, target |-> at[k], relationship |-> "call"]
        <5> HIDE DEF at, L, c
        <5> QED BY <2>3, <2>5, <3>4
      <4> HIDE DEF at, L, c
      <4> QED BY <4>2, <4>3
    <3> HIDE DEF at
    <3> QED BY <2>2, <3>1, <3>4, <3>5 DEF LinkedWhole
  <2> QED BY <2>4, <2>5
<1> QED BY <1>3, <1>4

(***************************************************************************)
(* Removing the members of a composition that is not complete touches no   *)
(* whole call: what is removed is a member of that composition alone.      *)
(***************************************************************************)
LEMMA RemovalKeepsWhole ==
  ASSUME ReadInv, GraphInv, WholeInv, NEW m \in Ast, ~ Complete(m)
  PROVE  LET mapped  == ToSet(children(m)) \cap DOMAIN nodeToGraphIndex
             removed == { nodeToGraphIndex[c] : c \in mapped }
             kept    == { k \in DOMAIN edges : {edges[k].source, edges[k].target} \cap removed = {} }
             N       == Restrict(nodes, DOMAIN nodes \ removed)
             E       == Restrict(edges, kept)
             index   == Restrict(nodeToGraphIndex, DOMAIN nodeToGraphIndex \ mapped)
         IN  \A i \in DOMAIN N : WholeAt(N, E, index, i)
<1> DEFINE mapped  == ToSet(children(m)) \cap DOMAIN nodeToGraphIndex
           removed == { nodeToGraphIndex[c] : c \in mapped }
           kept    == { k \in DOMAIN edges : {edges[k].source, edges[k].target} \cap removed = {} }
           N       == Restrict(nodes, DOMAIN nodes \ removed)
           E       == Restrict(edges, kept)
           index   == Restrict(nodeToGraphIndex, DOMAIN nodeToGraphIndex \ mapped)
<1> SUFFICES ASSUME NEW i \in DOMAIN N PROVE WholeAt(N, E, index, i)
  OBVIOUS
<1> DEFINE n == nodes[i].node
           c == children(n)
           L == Len(c)
<1>1. /\ DOMAIN N = DOMAIN nodes \ removed /\ \A j \in DOMAIN N : N[j] = nodes[j]
      /\ DOMAIN E = kept /\ \A k \in kept : E[k] = edges[k]
      /\ DOMAIN index = DOMAIN nodeToGraphIndex \ mapped
      /\ \A a \in DOMAIN index : index[a] = nodeToGraphIndex[a]
  BY DEF Restrict
<1>2. /\ \A a \in DOMAIN nodeToGraphIndex :
           nodeToGraphIndex[a] \in DOMAIN nodes /\ nodes[nodeToGraphIndex[a]].node = a
      /\ \A k \in DOMAIN edges : edges[k].source \in DOMAIN nodes /\ edges[k].target \in DOMAIN nodes
      /\ \A j \in DOMAIN nodes : nodes[j].node \in Ast
  BY DEF GraphInv, GraphOf, EdgeOver
<1>3. i \in DOMAIN nodes /\ i \notin removed /\ N[i] = nodes[i]
  <2> HIDE DEF N, removed
  <2> QED BY <1>1
<1>4. n \in Ast
  BY <1>2, <1>3
<1>5. c \in Seq(Ast) /\ L \in Nat /\ DOMAIN c = 1 .. L
  BY <1>4, ExpressionType
<1>6. Calls(E, i) \subseteq Calls(edges, i)
  <2> HIDE DEF E, kept
  <2>1. kept \subseteq DOMAIN edges
    BY DEF kept
  <2> QED BY <1>1, <2>1 DEF Calls
<1>7. CASE Calls(edges, i) = {}
  <2>1. Calls(E, i) = {}
    BY <1>6, <1>7
  <2> HIDE DEF N, E, index
  <2> QED BY <2>1 DEF WholeAt
<1>8. CASE Calls(edges, i) # {}
  <2>1. CompleteIn(nodes, nodeToGraphIndex, n)
    BY <1>3, <1>8 DEF WholeInv, WholeAt
  <2>2. PICK b \in 0 .. nextEdgeIndex :
          /\ Calls(edges, i) = b .. (b + L - 1)
          /\ \A p \in 1 .. L : nodes[edges[b + p - 1].target].node = c[p]
    BY <1>3, <1>8 DEF WholeInv, WholeAt
  <2>3. m # n
    BY <2>1 DEF CompleteIn, Complete, InGraph
  \* No member of this call is a member of the other composition.
  <2>4. \A a \in mapped, p \in 1 .. L : a # c[p]
    <3> SUFFICES ASSUME NEW a \in mapped, NEW p \in 1 .. L, a = c[p] PROVE FALSE
      OBVIOUS
    <3>1. PICK j \in DOMAIN children(m) : a = children(m)[j]
      BY DEF ToSet
    <3>2. \A k \in DOMAIN source[n].children :
            source[m].children[j] = source[n].children[k] => m = n
      BY <1>4, <3>1 DEF ReadInv, IsTree, children
    <3>3. p \in DOMAIN c
      BY <1>5
    <3> QED BY <2>3, <3>1, <3>2, <3>3 DEF children
  <2>5. \A t \in removed, p \in 1 .. L : nodes[t].node # c[p]
    BY <1>2, <2>4
  <2>6. CompleteIn(N, index, n)
    <3> SUFFICES ASSUME NEW a \in ToSet(c) PROVE a \in DOMAIN index /\ index[a] \in DOMAIN N
      BY DEF CompleteIn
    <3>1. PICK p \in 1 .. L : a = c[p]
      <4> HIDE DEF L, c
      <4> QED BY <1>5 DEF ToSet
    <3>2. a \in DOMAIN nodeToGraphIndex /\ nodeToGraphIndex[a] \in DOMAIN nodes
      BY <2>1 DEF CompleteIn
    <3>3. a \notin mapped
      BY <2>4, <3>1
    <3>4. nodeToGraphIndex[a] \notin removed
      BY <1>2, <2>5, <3>1, <3>2
    <3> HIDE DEF N, index, removed, mapped
    <3> QED BY <1>1, <3>2, <3>3, <3>4
  <2>7. Calls(edges, i) \subseteq kept
    <3> SUFFICES ASSUME NEW k \in Calls(edges, i) PROVE k \in kept
      OBVIOUS
    <3>1. k \in DOMAIN edges /\ edges[k].source = i
      BY DEF Calls
    <3>2. k \in b .. (b + L - 1)
      BY <2>2
    <3> DEFINE p == k - b + 1
    <3>3. p \in 1 .. L /\ b + p - 1 = k
      <4> HIDE DEF L
      <4> QED BY <1>5, <3>2
    <3>4. nodes[edges[k].target].node = c[p]
      <4> HIDE DEF p, L, c
      <4> QED BY <2>2, <3>3
    <3>5. edges[k].target \notin removed
      <4> HIDE DEF p, L, c, removed
      <4> QED BY <2>5, <3>3, <3>4
    <3> HIDE DEF removed
    <3> QED BY <1>3, <3>1, <3>5
  <2>8. Calls(E, i) = Calls(edges, i)
    <3> HIDE DEF E, kept
    <3> QED BY <1>1, <1>6, <2>7 DEF Calls
  <2>9. ASSUME NEW p \in 1 .. L PROVE N[E[b + p - 1].target].node = c[p]
    <3> DEFINE k == b + p - 1
    <3>1. k \in Calls(edges, i)
      <4> HIDE DEF L
      <4> QED BY <1>5, <2>2
    <3> HIDE DEF k
    <3>2. k \in kept /\ E[k] = edges[k] /\ k \in DOMAIN edges
      <4> HIDE DEF E, kept
      <4> QED BY <1>1, <2>7, <3>1 DEF Calls
    <3>3. nodes[edges[k].target].node = c[p]
      <4> HIDE DEF L, c
      <4> QED BY <2>2 DEF k
    <3>4. edges[k].target \in DOMAIN nodes \ removed
      <4>1. edges[k].target \notin removed
        BY <3>2
      <4> HIDE DEF removed
      <4> QED BY <1>2, <3>2, <4>1
    <3>5. N[edges[k].target] = nodes[edges[k].target]
      <4> HIDE DEF N, removed
      <4> QED BY <1>1, <3>4
    <3> HIDE DEF N, E, L, c
    <3> QED BY <3>2, <3>3, <3>5 DEF k
  <2> HIDE DEF N, E, index
  <2> QED BY <1>3, <2>2, <2>6, <2>8, <2>9 DEF WholeAt
<1> QED BY <1>7, <1>8

(***************************************************************************)
(* So the invariant holds throughout.                                      *)
(***************************************************************************)
LEMMA WholeInit == Init => WholeInv
BY DEF Init, NoGraph, WholeInv

(***************************************************************************)
(* Adding the node of a composition and removing those of its members are  *)
(* the two cases; every other step leaves the graph alone.                 *)
(***************************************************************************)
LEMMA WholeNext == IInv /\ WholeInv /\ [Next]_vars => WholeInv'
<1> SUFFICES ASSUME ReadInv, GraphInv, WalkInv, WholeInv, [Next]_vars PROVE WholeInv'
  BY DEF IInv
<1>1. nextNodeIndex \in Nat /\ nextEdgeIndex \in Nat /\ GraphOf(nodes, edges, nodeToGraphIndex)
  BY DEF GraphInv
<1>2. source' = source
  BY DEF Next, vars, input, Enter, Link, SkipArray, RemovePartialChildren, FollowSymbol, LinkSymbol,
         Leaf, StartWalk, Walk, EndWalk
<1>3. \A i \in DOMAIN nodes : WholeAt(nodes, edges, nodeToGraphIndex, i)
  BY DEF WholeInv
\* A step that leaves the graph alone.
<1>4. ASSUME UNCHANGED <<graph, nodeToGraphIndex>> PROVE WholeInv'
  <2>1. nodes' = nodes /\ edges' = edges /\ nodeToGraphIndex' = nodeToGraphIndex
        /\ nextEdgeIndex' = nextEdgeIndex
    BY <1>4 DEF graph
  <2>2. \A i \in DOMAIN nodes' : WholeAt(nodes, edges, nodeToGraphIndex, i)'
    BY <1>2, <1>3, <2>1 DEF WholeAt, CompleteIn, Calls, children
  <2> QED BY <2>2 DEF WholeInv
\* One that shows an expression on its own, or not at all.
<1>5. ASSUME NEW N, NEW E, NEW index, NEW n \in Ast, GraphOf(N, E, index),
             \A i \in DOMAIN N : WholeAt(N, E, index, i), AddLeaf(N, E, index, n)
      PROVE  WholeInv'
  <2>1. CASE AddNode(N, E, index, n, << >>)
    <3>1. Len(<< >>) = 0 /\ Len(<< >>) \in Nat
      OBVIOUS
    <3>2. LinkedWhole(N, index, n, << >>)
      BY DEF LinkedWhole
    <3> QED BY <1>1, <1>2, <1>5, <2>1, <3>1, <3>2, AddNodeKeepsWhole
  <2>2. CASE nodes' = N /\ edges' = E /\ nodeToGraphIndex' = index /\ UNCHANGED nextEdgeIndex
    BY <1>2, <1>5, <2>2 DEF WholeInv, WholeAt, CompleteIn, Calls, children
  <2> QED BY <1>5, <2>1, <2>2 DEF AddLeaf
<1>6. CASE Enter
  BY <1>4, <1>6 DEF Enter
<1>7. CASE Link
  <2>1. current \in Ast /\ Explodes(current)
    BY <1>7, CurrentType DEF Link
  <2>2. LinkedWhole(nodes, nodeToGraphIndex, current, Links(current))
    BY <1>7, <2>1, LinksAreWhole DEF Link
  <2>3. Len(Links(current)) \in Nat
    <3>1. Links(current) \in Seq(EdgeOver(DOMAIN nodes \cup {nextNodeIndex}))
      BY <2>1, LinksType
    <3> QED BY <3>1
  <2> QED BY <1>1, <1>2, <1>3, <1>7, <2>1, <2>2, <2>3, AddNodeKeepsWhole DEF Link
<1>8. CASE SkipArray
  BY <1>4, <1>8 DEF SkipArray
<1>9. CASE RemovePartialChildren
  <2> DEFINE mapped  == ToSet(children(current)) \cap DOMAIN nodeToGraphIndex
             removed == { nodeToGraphIndex[c] : c \in mapped }
             kept    == { k \in DOMAIN edges : {edges[k].source, edges[k].target} \cap removed = {} }
             N       == Restrict(nodes, DOMAIN nodes \ removed)
             E       == Restrict(edges, kept)
             index   == Restrict(nodeToGraphIndex, DOMAIN nodeToGraphIndex \ mapped)
  <2>1. current \in Ast /\ ~ Complete(current)
    BY <1>9, CurrentType DEF RemovePartialChildren
  <2>2. AddLeaf(N, E, index, current)
    BY <1>9 DEF RemovePartialChildren
  <2>3. GraphOf(N, E, index)
    BY RemovalKeeps
  <2>4. \A i \in DOMAIN N : WholeAt(N, E, index, i)
    BY <2>1, RemovalKeepsWhole
  <2> HIDE DEF N, E, index
  <2> QED BY <1>5, <2>1, <2>2, <2>3, <2>4
<1>10. CASE FollowSymbol
  BY <1>4, <1>10 DEF FollowSymbol
<1>11. CASE LinkSymbol
  <2> DEFINE added == << Edge(nextNodeIndex, nodeToGraphIndex[source[current].declaration], "symbol") >>
  <2>1. current \in Ast
    BY <1>11, CurrentType DEF LinkSymbol
  <2>2. Len(added) = 1 /\ added[1].relationship = "symbol"
    BY DEF Edge
  <2>3. LinkedWhole(nodes, nodeToGraphIndex, current, added)
    <3> HIDE DEF added
    <3> QED BY <2>2 DEF LinkedWhole
  <2>4. AddNode(nodes, edges, nodeToGraphIndex, current, added)
    BY <1>11 DEF LinkSymbol
  <2>5. Len(added) \in Nat
    BY <2>2
  <2> HIDE DEF added
  <2> QED BY <1>1, <1>2, <1>3, <2>1, <2>3, <2>4, <2>5, AddNodeKeepsWhole
<1>12. CASE Leaf
  <2>1. current \in Ast
    BY <1>12, CurrentType DEF Leaf
  <2> QED BY <1>1, <1>3, <1>5, <1>12, <2>1 DEF Leaf
<1>13. StartWalk \/ Walk \/ EndWalk \/ UNCHANGED vars => UNCHANGED <<graph, nodeToGraphIndex>>
  BY DEF StartWalk, Walk, EndWalk, vars
<1> QED BY <1>4, <1>6, <1>7, <1>8, <1>9, <1>10, <1>11, <1>12, <1>13 DEF Next

-----------------------------------------------------------------------------
(***************************************************************************)
(* Unless references are followed, no expression is read twice: each is    *)
(* put on the stack by the one it is a member of, on the first pass.       *)
(***************************************************************************)
Seen == ToSet(stack) \cup { nodes[i].node : i \in DOMAIN nodes }

UniqueInv ==
  opts.FollowSymbolsDepth = 0 =>
    /\ \A j, k \in DOMAIN stack : stack[j] = stack[k] => j = k
    /\ \A i, j \in DOMAIN nodes : nodes[i].node = nodes[j].node => i = j
    /\ \A i \in DOMAIN nodes : nodes[i].node \notin ToSet(stack)
    /\ \A n \in Seen : n = Requested \/ \E m \in visitedNodes : n \in ToSet(children(m))

(***************************************************************************)
(* At first only the requested expression has been seen.                   *)
(***************************************************************************)
LEMMA UniqueInit == Init => UniqueInv
<1> SUFFICES ASSUME Init PROVE UniqueInv
  OBVIOUS
<1>1. Requested \in Ast /\ stack = << Requested >> /\ nodes = << >>
  BY InputsType DEF Init, NoGraph
<1>2. DOMAIN stack = {1} /\ DOMAIN nodes = {} /\ ToSet(stack) = {Requested}
  BY <1>1 DEF ToSet
<1> QED BY <1>2 DEF UniqueInv, Seen

(***************************************************************************)
(* Nothing is pushed twice: members have one composition only, and that    *)
(* is visited once.                                                        *)
(***************************************************************************)
LEMMA UniqueNext == IInv /\ UniqueInv /\ [Next]_vars => UniqueInv'
<1> SUFFICES ASSUME ReadInv, GraphInv, WalkInv, UniqueInv, [Next]_vars, opts'.FollowSymbolsDepth = 0
             PROVE  UniqueInv'
  BY DEF IInv, UniqueInv
<1>1. opts' = opts /\ source' = source
  BY DEF Next, vars, input, Enter, Link, SkipArray, RemovePartialChildren, FollowSymbol, LinkSymbol,
         Leaf, StartWalk, Walk, EndWalk
<1>2. /\ \A j, k \in DOMAIN stack : stack[j] = stack[k] => j = k
      /\ \A i, j \in DOMAIN nodes : nodes[i].node = nodes[j].node => i = j
      /\ \A i \in DOMAIN nodes : nodes[i].node \notin ToSet(stack)
      /\ \A n \in Seen : n = Requested \/ \E m \in visitedNodes : n \in ToSet(children(m))
  BY <1>1 DEF UniqueInv
<1>3. \A n \in Ast : ~ FollowsSymbol(n)
  <2>1. \A n \in Ast : depthBudget[n] \in 0 .. 0
    BY <1>1 DEF ReadInv
  <2> QED BY <2>1 DEF FollowsSymbol
<1>4. stack \in Seq(Ast) /\ (Extracting => current \in Ast /\ stack # << >>)
  BY CurrentType DEF ReadInv, Extracting
<1>5. \A m : children(m)' = children(m)
  BY <1>1 DEF children
\* A step that pops the expression and may show it.
<1>6. ASSUME Extracting, stack' = Tail(stack), visitedNodes' = visitedNodes, OnlyAdds(current)
      PROVE  UniqueInv'
  <2>1. /\ \A k \in DOMAIN stack' : k + 1 \in DOMAIN stack /\ k + 1 # 1 /\ k \in Int /\ stack'[k] = stack[k + 1]
        /\ 1 \in DOMAIN stack /\ stack[1] = current
    BY <1>4, <1>6 DEF current
  <2>2. \A j, k \in DOMAIN stack' : stack'[j] = stack'[k] => j = k
    <3> SUFFICES ASSUME NEW j \in DOMAIN stack', NEW k \in DOMAIN stack', stack'[j] = stack'[k]
                 PROVE  j = k
      OBVIOUS
    <3>1. j + 1 = k + 1
      BY <1>2, <2>1
    <3> QED BY <2>1, <3>1
  <2>3. ToSet(stack') \subseteq ToSet(stack) /\ current \in ToSet(stack)
    BY <1>4, <1>6, StackMembers DEF current
  <2>4. current \notin ToSet(stack')
    BY <1>2, <2>1 DEF ToSet
  <2>5. \A i, j \in DOMAIN nodes' : nodes'[i].node = nodes'[j].node => i = j
    BY <1>2, <1>6, <2>3 DEF OnlyAdds
  <2>6. \A i \in DOMAIN nodes' : nodes'[i].node \notin ToSet(stack')
    BY <1>2, <1>6, <2>3, <2>4 DEF OnlyAdds
  <2>7. Seen' \subseteq Seen
    BY <1>6, <2>3 DEF Seen, OnlyAdds
  <2>8. \A n \in Seen' : n = Requested \/ \E m \in visitedNodes' : n \in ToSet(children(m)')
    BY <1>2, <1>5, <1>6, <2>7
  <2> QED BY <2>2, <2>5, <2>6, <2>8 DEF UniqueInv
<1>7. CASE Enter
  <2> DEFINE c == children(current)
             L == Len(c)
  <2>1. /\ Extracting /\ current \notin visitedNodes /\ visitedNodes' = visitedNodes \cup {current}
        /\ stack' = Reverse(c) \o stack /\ nodes' = nodes
    BY <1>7 DEF Enter, graph
  <2>2. current \in Ast /\ c \in Seq(Ast) /\ L \in Nat /\ DOMAIN c = 1 .. L
    BY <1>4, <2>1, ExpressionType
  <2>3. \A j, k \in DOMAIN c : c[j] = c[k] => j = k
    BY <2>2 DEF ReadInv, IsTree, children
  <2>4. \A x \in ToSet(c) : x \notin Seen
    <3> SUFFICES ASSUME NEW x \in ToSet(c), x \in Seen PROVE FALSE
      OBVIOUS
    <3>1. PICK j \in DOMAIN source[current].children : x = source[current].children[j]
      BY DEF ToSet, children
    <3>2. x # Requested
      BY <2>2, <3>1 DEF ReadInv, IsTree
    <3>3. PICK m \in visitedNodes : x \in ToSet(children(m))
      BY <1>2, <3>2
    <3>4. PICK k \in DOMAIN source[m].children : x = source[m].children[k]
      BY <3>3 DEF ToSet, children
    <3>5. m \in Ast
      BY DEF ReadInv
    <3>6. current = m
      BY <2>2, <3>1, <3>4, <3>5 DEF ReadInv, IsTree
    <3> QED BY <2>1, <3>6
  <2>5. /\ Reverse(c) \in Seq(Ast) /\ Len(Reverse(c)) = L
        /\ \A k \in 1 .. L : Reverse(c)[k] = c[L - k + 1] /\ L - k + 1 \in 1 .. L
    BY <2>2 DEF Reverse
  <2>6. ToSet(stack') = ToSet(Reverse(c)) \cup ToSet(stack) /\ ToSet(Reverse(c)) \subseteq ToSet(c)
    <3> HIDE DEF c
    <3> QED BY <1>4, <2>1, <2>2, <2>5, StackMembers
  <2>7. \A k \in DOMAIN stack' :
          \/ k \in 1 .. L /\ stack'[k] = c[L - k + 1] /\ L - k + 1 \in DOMAIN c
          \/ k - L \in DOMAIN stack /\ k \in Int /\ stack'[k] = stack[k - L]
    <3> HIDE DEF c, L
    <3> QED BY <1>4, <2>1, <2>2, <2>5
  <2>8. \A j \in DOMAIN c, k \in DOMAIN stack : c[j] # stack[k]
    BY <2>4 DEF Seen, ToSet
  <2>9. \A j, k \in DOMAIN stack' : stack'[j] = stack'[k] => j = k
    <3> SUFFICES ASSUME NEW j \in DOMAIN stack', NEW k \in DOMAIN stack', stack'[j] = stack'[k]
                 PROVE  j = k
      OBVIOUS
    <3> HIDE DEF c, L
    <3>1. CASE j \in 1 .. L /\ stack'[j] = c[L - j + 1] /\ L - j + 1 \in DOMAIN c
      <4>1. k \in 1 .. L /\ stack'[k] = c[L - k + 1] /\ L - k + 1 \in DOMAIN c
        BY <2>7, <2>8, <3>1
      <4>2. L - j + 1 = L - k + 1
        BY <2>3, <3>1, <4>1
      <4> QED BY <2>2, <3>1, <4>1, <4>2
    <3>2. CASE j - L \in DOMAIN stack /\ j \in Int /\ stack'[j] = stack[j - L]
      <4>1. k - L \in DOMAIN stack /\ k \in Int /\ stack'[k] = stack[k - L]
        BY <2>7, <2>8, <3>2
      <4>2. j - L = k - L
        BY <1>2, <3>2, <4>1
      <4> QED BY <2>2, <3>2, <4>1, <4>2
    <3> QED BY <2>7, <3>1, <3>2
  <2>10. \A i \in DOMAIN nodes' : nodes'[i].node \notin ToSet(stack')
    <3> HIDE DEF c
    <3>1. \A i \in DOMAIN nodes : nodes[i].node \in Seen
      BY DEF Seen
    <3> QED BY <1>2, <2>1, <2>4, <2>6, <3>1
  <2>11. \A n \in Seen' : n = Requested \/ \E m \in visitedNodes' : n \in ToSet(children(m)')
    <3>1. Seen' \subseteq Seen \cup ToSet(c)
      <4> HIDE DEF c
      <4> QED BY <2>1, <2>6 DEF Seen
    <3> QED BY <1>2, <1>5, <2>1, <3>1
  <2> QED BY <1>2, <2>1, <2>9, <2>10, <2>11 DEF UniqueInv
<1>8. CASE Link
  <2>1. OnlyAdds(current)
    BY <1>8, AddingOnlyAdds DEF Link
  <2> QED BY <1>6, <1>8, <2>1 DEF Link, marks
<1>9. CASE SkipArray
  <2>1. OnlyAdds(current)
    BY <1>9 DEF SkipArray, OnlyAdds, graph
  <2> QED BY <1>6, <1>9, <2>1 DEF SkipArray, marks
<1>10. CASE RemovePartialChildren
  <2>1. OnlyAdds(current)
    BY <1>10, RemovingOnlyAdds
  <2> QED BY <1>6, <1>10, <2>1 DEF RemovePartialChildren, marks
<1>11. CASE FollowSymbol \/ LinkSymbol
  BY <1>3, <1>4, <1>11 DEF FollowSymbol, LinkSymbol
<1>12. CASE Leaf
  <2>1. OnlyAdds(current)
    BY <1>12, AddingOnlyAdds DEF Leaf
  <2> QED BY <1>6, <1>12, <2>1 DEF Leaf, marks
<1>13. CASE UNCHANGED <<stack, nodes, visitedNodes>>
  <2>1. Seen' = Seen
    BY <1>13 DEF Seen
  <2> QED BY <1>2, <1>5, <1>13, <2>1 DEF UniqueInv
<1>14. StartWalk \/ Walk \/ EndWalk \/ UNCHANGED vars => UNCHANGED <<stack, nodes, visitedNodes>>
  BY DEF StartWalk, Walk, EndWalk, vars, marks, graph
<1> QED BY <1>7, <1>8, <1>9, <1>10, <1>11, <1>12, <1>13, <1>14 DEF Next

(***************************************************************************)
(* For every program and options, a call is shown with all of its          *)
(* arguments in their order or with none, and without references followed  *)
(* no expression is shown twice (internal/layergraph/extract.go:99).       *)
(***************************************************************************)
THEOREM ShownWholeAlways == Spec => []ShownWhole
<1>1. IInv /\ WholeInv /\ UniqueInv => ShownWhole
  BY InvImpliesWhole DEF UniqueInv, ShownWhole
<1> QED BY <1>1, InvInit, InvNext, WholeInit, WholeNext, UniqueInit, UniqueNext, PTL DEF Spec

-----------------------------------------------------------------------------
(***************************************************************************)
(* The graph has no circles.  A member of a composition is read once: the  *)
(* composition puts it on the stack on its first pass, no reference does,  *)
(* and it is shown when it leaves the stack.                               *)
(***************************************************************************)
Shown(n) == { i \in DOMAIN nodes : nodes[i].node = n }

MemberInv ==
  /\ ReadsInitializers(source)
  /\ \A m \in visitedNodes : m \notin ToSet(children(m))
  /\ \A m \in Ast : \A a \in ToSet(children(m)) :
       /\ m \notin visitedNodes => a \notin ToSet(stack) /\ Shown(a) = {}
       /\ a \in ToSet(stack) => Shown(a) = {}
       /\ \A j, k \in DOMAIN stack : stack[j] = a /\ stack[k] = a => j = k

(***************************************************************************)
(* A member of two compositions is a member of the same one twice.         *)
(***************************************************************************)
LEMMA SameComposition ==
  ASSUME ReadInv, NEW m \in Ast, NEW n \in Ast,
         NEW a \in ToSet(children(m)), a \in ToSet(children(n))
  PROVE  m = n /\ a # Requested
<1>1. PICK j \in DOMAIN source[m].children : a = source[m].children[j]
  BY DEF ToSet, children
<1>2. PICK k \in DOMAIN source[n].children : a = source[n].children[k]
  BY DEF ToSet, children
<1> QED BY <1>1, <1>2 DEF ReadInv, IsTree

(***************************************************************************)
(* At first nothing is shown and nothing is waiting.                       *)
(***************************************************************************)
LEMMA MemberInit == Init => MemberInv
<1> SUFFICES ASSUME Init PROVE MemberInv
  OBVIOUS
<1>1. PICK given \in Inputs : source \in given.programs /\ opts \in given.options
  BY DEF Init
<1>2. ReadsInitializers(source)
  BY <1>1, InputsReadInitializers
<1>3. stack = << Requested >> /\ nodes = << >> /\ visitedNodes = {} /\ ReadInv
  BY InvInit DEF Init, NoGraph, IInv
<1>4. DOMAIN stack = {1} /\ DOMAIN nodes = {} /\ ToSet(stack) = {Requested}
  BY <1>3 DEF ToSet
<1>5. \A m \in Ast : \A a \in ToSet(children(m)) : a # Requested
  BY <1>3, SameComposition
<1> QED BY <1>2, <1>3, <1>4, <1>5 DEF MemberInv, Shown

(***************************************************************************)
(* A composition is visited once, when it puts its members on the stack;   *)
(* a step shows only what it takes from the stack, and a member is taken   *)
(* from it once.                                                           *)
(***************************************************************************)
LEMMA MemberNext == IInv /\ MemberInv /\ [Next]_vars => MemberInv'
<1> SUFFICES ASSUME ReadInv, GraphInv, MemberInv, [Next]_vars PROVE MemberInv'
  BY DEF IInv
<1>1. source' = source /\ ReadsInitializers(source)'
  <2>1. source' = source
    BY DEF Next, vars, input, Enter, Link, SkipArray, RemovePartialChildren, FollowSymbol, LinkSymbol,
           Leaf, StartWalk, Walk, EndWalk
  <2> QED BY <2>1 DEF MemberInv, ReadsInitializers
<1>2. stack \in Seq(Ast) /\ (Extracting => current \in Ast /\ stack # << >>)
  BY CurrentType DEF ReadInv, Extracting
<1>3. \A m : children(m)' = children(m)
  BY <1>1 DEF children
<1>4. \A m \in visitedNodes : m \notin ToSet(children(m))
  BY DEF MemberInv
<1>5. ASSUME NEW m \in Ast, NEW a \in ToSet(children(m))
      PROVE  /\ m \notin visitedNodes => a \notin ToSet(stack) /\ Shown(a) = {}
             /\ a \in ToSet(stack) => Shown(a) = {}
             /\ \A j, k \in DOMAIN stack : stack[j] = a /\ stack[k] = a => j = k
  BY DEF MemberInv
\* A step that pops the expression and may show it.
<1>6. ASSUME Extracting, stack' = Tail(stack), visitedNodes' = visitedNodes, OnlyAdds(current)
      PROVE  MemberInv'
  <2>1. /\ \A k \in DOMAIN stack' : k + 1 \in DOMAIN stack /\ k + 1 # 1 /\ k \in Int /\ stack'[k] = stack[k + 1]
        /\ 1 \in DOMAIN stack /\ stack[1] = current
    BY <1>2, <1>6 DEF current
  <2>2. ToSet(stack') \subseteq ToSet(stack) /\ current \in ToSet(stack)
    BY <1>2, <1>6, StackMembers DEF current
  <2>3. ASSUME NEW m \in Ast, NEW a \in ToSet(children(m)), a # current PROVE Shown(a)' \subseteq Shown(a)
    BY <1>6, <2>3 DEF Shown, OnlyAdds
  <2>4. ASSUME NEW m \in Ast, NEW a \in ToSet(children(m))
        PROVE  /\ m \notin visitedNodes' => a \notin ToSet(stack') /\ Shown(a)' = {}
               /\ a \in ToSet(stack') => Shown(a)' = {}
               /\ \A j, k \in DOMAIN stack' : stack'[j] = a /\ stack'[k] = a => j = k
    <3>1. m \notin visitedNodes => a \notin ToSet(stack') /\ Shown(a)' = {}
      BY <1>5, <1>6, <2>2, <2>3
    <3>2. a \in ToSet(stack') => a # current
      BY <1>5, <2>1 DEF ToSet
    <3>3. a \in ToSet(stack') => Shown(a)' = {}
      BY <1>5, <2>2, <2>3, <3>2
    <3>4. ASSUME NEW j \in DOMAIN stack', NEW k \in DOMAIN stack', stack'[j] = a, stack'[k] = a
          PROVE  j = k
      <4>1. j + 1 = k + 1
        BY <1>5, <2>1, <3>4
      <4> QED BY <2>1, <4>1
    <3> QED BY <1>6, <3>1, <3>3, <3>4
  <2> QED BY <1>1, <1>3, <1>4, <1>6, <2>4 DEF MemberInv
<1>7. CASE Enter
  <2> DEFINE c == children(current)
             L == Len(c)
  <2>1. /\ Extracting /\ current \notin visitedNodes /\ visitedNodes' = visitedNodes \cup {current}
        /\ stack' = Reverse(c) \o stack /\ nodes' = nodes
    BY <1>7 DEF Enter, graph
  <2>2. current \in Ast /\ c \in Seq(Ast) /\ L \in Nat /\ DOMAIN c = 1 .. L
    BY <1>2, <2>1, ExpressionType
  <2>3. \A j, k \in DOMAIN c : c[j] = c[k] => j = k
    BY <2>2 DEF ReadInv, IsTree, children
  <2>4. \A x \in ToSet(c) : x \notin ToSet(stack) /\ Shown(x) = {}
    BY <1>5, <2>1, <2>2
  <2>5. /\ Reverse(c) \in Seq(Ast) /\ Len(Reverse(c)) = L
        /\ \A k \in 1 .. L : Reverse(c)[k] = c[L - k + 1] /\ L - k + 1 \in 1 .. L
    BY <2>2 DEF Reverse
  <2>6. ToSet(stack') = ToSet(Reverse(c)) \cup ToSet(stack) /\ ToSet(Reverse(c)) \subseteq ToSet(c)
    <3> HIDE DEF c
    <3> QED BY <1>2, <2>1, <2>2, <2>5, StackMembers
  <2>7. \A k \in DOMAIN stack' :
          \/ k \in 1 .. L /\ stack'[k] = c[L - k + 1] /\ L - k + 1 \in DOMAIN c
          \/ k - L \in DOMAIN stack /\ k \in Int /\ stack'[k] = stack[k - L]
    <3> HIDE DEF c, L
    <3> QED BY <1>2, <2>1, <2>2, <2>5
  <2>8. \A j \in DOMAIN c : c[j] \in ToSet(c)
    <3> HIDE DEF c
    <3> QED BY DEF ToSet
  <2>9. \A n : Shown(n)' = Shown(n)
    BY <2>1 DEF Shown
  <2>10. ASSUME NEW m \in visitedNodes' PROVE m \notin ToSet(children(m))
    <3>1. current \in ToSet(stack)
      BY <1>2, <2>1, StackMembers DEF current
    <3> QED BY <1>4, <2>1, <2>4, <3>1
  <2>11. ASSUME NEW m \in Ast, NEW a \in ToSet(children(m)), a \in ToSet(c)
         PROVE  m = current
    BY <2>2, <2>11, SameComposition
  <2>12. ASSUME NEW m \in Ast, NEW a \in ToSet(children(m))
         PROVE  /\ m \notin visitedNodes' => a \notin ToSet(stack') /\ Shown(a)' = {}
                /\ a \in ToSet(stack') => Shown(a)' = {}
                /\ \A j, k \in DOMAIN stack' : stack'[j] = a /\ stack'[k] = a => j = k
    <3>1. a \in ToSet(c) => m = current
      BY <2>11
    <3> HIDE DEF c, L
    <3>2. m \notin visitedNodes' => a \notin ToSet(stack') /\ Shown(a)' = {}
      BY <1>5, <2>1, <2>6, <2>9, <3>1
    <3>3. a \in ToSet(stack') => Shown(a)' = {}
      BY <1>5, <2>4, <2>6, <2>9
    <3>4. ASSUME NEW j \in DOMAIN stack', NEW k \in DOMAIN stack', stack'[j] = a, stack'[k] = a
          PROVE  j = k
      <4>1. CASE a \in ToSet(c)
        <5>1. /\ j \in 1 .. L /\ a = c[L - j + 1] /\ L - j + 1 \in DOMAIN c
              /\ k \in 1 .. L /\ a = c[L - k + 1] /\ L - k + 1 \in DOMAIN c
          BY <2>4, <2>7, <3>4, <4>1 DEF ToSet
        <5>2. L - j + 1 = L - k + 1
          BY <2>3, <5>1
        <5> QED BY <2>2, <5>1, <5>2
      <4>2. CASE a \notin ToSet(c)
        <5>1. /\ j - L \in DOMAIN stack /\ j \in Int /\ a = stack[j - L]
              /\ k - L \in DOMAIN stack /\ k \in Int /\ a = stack[k - L]
          BY <2>7, <2>8, <3>4, <4>2
        <5>2. j - L = k - L
          BY <1>5, <5>1
        <5> QED BY <2>2, <5>1, <5>2
      <4> QED BY <4>1, <4>2
    <3> QED BY <3>2, <3>3, <3>4
  <2> QED BY <1>1, <1>3, <2>10, <2>12 DEF MemberInv
<1>8. CASE Link
  <2>1. OnlyAdds(current)
    BY <1>8, AddingOnlyAdds DEF Link
  <2> QED BY <1>6, <1>8, <2>1 DEF Link, marks
<1>9. CASE SkipArray
  <2>1. OnlyAdds(current)
    BY <1>9 DEF SkipArray, OnlyAdds, graph
  <2> QED BY <1>6, <1>9, <2>1 DEF SkipArray, marks
<1>10. CASE RemovePartialChildren
  <2>1. OnlyAdds(current)
    BY <1>10, RemovingOnlyAdds
  <2> QED BY <1>6, <1>10, <2>1 DEF RemovePartialChildren, marks
<1>11. CASE FollowSymbol
  <2> DEFINE d == source[current].declaration
  <2>1. /\ Extracting /\ UNCHANGED nodes /\ d # 0
        /\ visitedNodes' = visitedNodes \cup {current} /\ stack' = << d >> \o stack
        /\ ~ Explodes(current)
    BY <1>11 DEF FollowSymbol, FollowsSymbol, graph
  <2>2. current \in Ast /\ d \in Ast
    BY <1>2, <2>1, ExpressionType DEF Expression
  <2>3. \A m \in Ast : d \notin ToSet(children(m))
    BY <2>2 DEF MemberInv, ReadsInitializers, children
  <2>4. ToSet(stack') = {d} \cup ToSet(stack)
    <3> HIDE DEF d
    <3> QED BY <1>2, <2>1, <2>2, StackMembers
  <2>5. \A k \in DOMAIN stack' :
          \/ k = 1 /\ stack'[k] = d
          \/ k - 1 \in DOMAIN stack /\ k \in Int /\ stack'[k] = stack[k - 1]
    <3> HIDE DEF d
    <3> QED BY <1>2, <2>1, <2>2
  <2>6. \A n : Shown(n)' = Shown(n)
    BY <2>1 DEF Shown
  <2>7. ASSUME NEW m \in Ast, NEW a \in ToSet(children(m))
        PROVE  /\ m \notin visitedNodes' => a \notin ToSet(stack') /\ Shown(a)' = {}
               /\ a \in ToSet(stack') => Shown(a)' = {}
               /\ \A j, k \in DOMAIN stack' : stack'[j] = a /\ stack'[k] = a => j = k
    <3>1. a # d
      BY <2>3
    <3> HIDE DEF d
    <3>2. a \in ToSet(stack') => a \in ToSet(stack)
      BY <2>4, <3>1
    <3>3. ASSUME NEW j \in DOMAIN stack', NEW k \in DOMAIN stack', stack'[j] = a, stack'[k] = a
          PROVE  j = k
      <4>1. /\ j - 1 \in DOMAIN stack /\ j \in Int /\ stack[j - 1] = a
            /\ k - 1 \in DOMAIN stack /\ k \in Int /\ stack[k - 1] = a
        BY <2>5, <3>1, <3>3
      <4>2. j - 1 = k - 1
        BY <1>5, <4>1
      <4> QED BY <4>1, <4>2
    <3> QED BY <1>5, <2>1, <2>6, <3>2, <3>3
  <2>8. current \notin ToSet(children(current))
    <3>1. current \in ToSet(stack)
      BY <1>2, <2>1, StackMembers DEF current
    <3>2. current \notin visitedNodes
      BY <1>11 DEF FollowSymbol
    <3> QED BY <1>5, <2>2, <3>1, <3>2
  <2> QED BY <1>1, <1>3, <1>4, <2>1, <2>7, <2>8 DEF MemberInv
<1>12. CASE LinkSymbol
  <2>1. OnlyAdds(current)
    BY <1>12, AddingOnlyAdds DEF LinkSymbol
  <2> QED BY <1>6, <1>12, <2>1 DEF LinkSymbol, marks
<1>13. CASE Leaf
  <2>1. OnlyAdds(current)
    BY <1>13, AddingOnlyAdds DEF Leaf
  <2> QED BY <1>6, <1>13, <2>1 DEF Leaf, marks
<1>14. CASE UNCHANGED <<stack, nodes, visitedNodes>>
  <2>1. \A n : Shown(n)' = Shown(n)
    BY <1>14 DEF Shown
  <2> QED BY <1>1, <1>3, <1>4, <1>5, <1>14, <2>1 DEF MemberInv
<1>15. StartWalk \/ Walk \/ EndWalk \/ UNCHANGED vars => UNCHANGED <<stack, nodes, visitedNodes>>
  BY DEF StartWalk, Walk, EndWalk, vars, marks, graph
<1> QED BY <1>7, <1>8, <1>9, <1>10, <1>11, <1>12, <1>13, <1>14, <1>15 DEF Next

(***************************************************************************)
(* An edge leads to an older node, or to a member of a pipe.  Such a       *)
(* member is led to by the member behind it alone, and by nodes that are   *)
(* younger than all the members, none of which is still to be read.        *)
(***************************************************************************)
Ordered(s, t) ==
  /\ t < s \/ \E m \in Ast : source[m].kind = "pipe" /\ nodes[t].node \in ToSet(children(m))
  /\ \A m \in Ast : \A q \in DOMAIN children(m) :
       source[m].kind = "pipe" /\ nodes[t].node = children(m)[q] =>
         \/ q + 1 \in DOMAIN children(m) /\ nodes[s].node = children(m)[q + 1]
         \/ \A a \in ToSet(children(m)) : a \notin ToSet(stack) /\ \A j \in Shown(a) : j < s

OrderInv == \A k \in DOMAIN edges : Ordered(edges[k].source, edges[k].target)

(***************************************************************************)
(* Popping an expression and showing it changes nothing for other edges.   *)
(***************************************************************************)
LEMMA OrderedStays ==
  ASSUME ReadInv, GraphInv, Extracting, UNCHANGED source, stack' = Tail(stack), OnlyAdds(current),
         NEW s, NEW t, Ordered(s, t), nodes'[s] = nodes[s], nodes'[t] = nodes[t]
  PROVE  Ordered(s, t)'
<1>1. \A m : children(m)' = children(m) /\ source'[m].kind = source[m].kind
  BY DEF children
<1>2. ToSet(stack') \subseteq ToSet(stack) /\ current \in ToSet(stack)
  BY StackMembers DEF ReadInv, Extracting, current
<1>3. (t < s \/ \E m \in Ast : source[m].kind = "pipe" /\ nodes[t].node \in ToSet(children(m)))'
  BY <1>1 DEF Ordered
<1>4. ASSUME NEW m \in Ast, NEW q \in DOMAIN children(m)',
             source[m].kind = "pipe", nodes[t].node = children(m)[q]
      PROVE  \/ q + 1 \in DOMAIN children(m) /\ nodes[s].node = children(m)[q + 1]
             \/ \A a \in ToSet(children(m)) : a \notin ToSet(stack') /\ \A j \in Shown(a)' : j < s
  <2>1. CASE \A a \in ToSet(children(m)) : a \notin ToSet(stack) /\ \A j \in Shown(a) : j < s
    <3>1. ASSUME NEW a \in ToSet(children(m)) PROVE Shown(a)' \subseteq Shown(a)
      BY <1>2, <2>1 DEF Shown, OnlyAdds
    <3> QED BY <1>2, <2>1, <3>1
  <2>2. CASE ~ \A a \in ToSet(children(m)) : a \notin ToSet(stack) /\ \A j \in Shown(a) : j < s
    BY <1>1, <1>4, <2>2 DEF Ordered
  <2> QED BY <2>1, <2>2
<1> QED BY <1>1, <1>3, <1>4 DEF Ordered

(***************************************************************************)
(* A graph without edges has them in order.                                *)
(***************************************************************************)
LEMMA OrderInit == Init => OrderInv
BY DEF Init, NoGraph, OrderInv

(***************************************************************************)
(* The edges that a composition adds are of that kind.                     *)
(***************************************************************************)
LEMMA LinksAreOrdered ==
  ASSUME IInv, MemberInv, Link, GraphInv', NEW p \in 1 .. Len(Links(current)),
         NEW s, NEW t, s = Links(current)[p].source, t = Links(current)[p].target
  PROVE  Ordered(s, t)'
<1> DEFINE c  == children(current)
           L  == Len(c)
           at == childIndices(current)
<1>1. /\ ReadInv /\ GraphInv /\ Extracting /\ Explodes(current) /\ current \in visitedNodes
      /\ source' = source /\ stack' = Tail(stack)
      /\ AddNode(nodes, edges, nodeToGraphIndex, current, Links(current))
  BY DEF IInv, Link, input
<1>2. current \in Ast /\ c \in Seq(Ast) /\ L \in Nat /\ DOMAIN c = 1 .. L
  BY <1>1, CurrentType, ExpressionType
<1>3. nextNodeIndex \in Nat /\ nextNodeIndex \notin DOMAIN nodes /\ \A j \in DOMAIN nodes : j \in Nat /\ j < nextNodeIndex
  BY <1>1 DEF GraphInv, GraphOf
<1>4. /\ DOMAIN nodes' = DOMAIN nodes \cup {nextNodeIndex}
      /\ \A j \in DOMAIN nodes : nodes'[j] = nodes[j]
      /\ nodes'[nextNodeIndex].node = current
  BY <1>1, <1>3 DEF AddNode
<1>5. \A m : children(m)' = children(m) /\ source'[m].kind = source[m].kind
  BY <1>1 DEF children
<1>6. at \in Seq(DOMAIN nodes) /\ Len(at) \in Nat /\ DOMAIN at = 1 .. Len(at)
  <2>1. at \in Seq(DOMAIN nodes)
    BY <1>1, <1>2, ChildIndicesType
  <2> HIDE DEF at
  <2> QED BY <2>1
<1>7. \A k \in DOMAIN at : at[k] \in DOMAIN nodes /\ nodes[at[k]].node \in ToSet(c)
  BY <1>1, <1>2, IndicesNameMembers
<1>8. CASE source[current].kind # "pipe"
  <2>1. Links(current) = [i \in 1 .. Len(at) |-> Edge(nextNodeIndex, at[i], source[current].kind)]
    BY <1>8 DEF Links
  <2>2. p \in 1 .. Len(at) /\ s = nextNodeIndex /\ t = at[p]
    <3> HIDE DEF at
    <3>1. Len(Links(current)) = Len(at)
      BY <1>6, <2>1
    <3>2. Links(current)[p] = [source |-> nextNodeIndex, target |-> at[p],
                               relationship |-> source[current].kind]
      BY <2>1, <3>1 DEF Edge
    <3>3. Links(current)[p].source = nextNodeIndex /\ Links(current)[p].target = at[p]
      BY <3>2
    <3> QED BY <3>1, <3>3
  <2>3. t \in DOMAIN nodes /\ nodes[t].node \in ToSet(c) /\ t < s
    BY <1>3, <1>6, <1>7, <2>2
  <2>4. ASSUME NEW m \in Ast, NEW q \in DOMAIN children(m), source[m].kind = "pipe",
               nodes[t].node = children(m)[q]
        PROVE  FALSE
    <3>1. nodes[t].node \in ToSet(children(m))
      BY <2>4 DEF ToSet
    <3>2. m = current
      BY <1>1, <1>2, <2>3, <3>1, SameComposition
    <3> QED BY <1>8, <2>4, <3>2
  <2>5. nodes'[t] = nodes[t]
    BY <1>4, <2>3
  <2> QED BY <1>5, <2>3, <2>4, <2>5 DEF Ordered
<1>9. CASE source[current].kind = "pipe"
  <2>1. Complete(current)
    BY <1>9 DEF Link
  <2>2. at = [k \in 1 .. L |-> nodeToGraphIndex[c[k]]]
    BY <1>1, <1>2, <2>1, CompleteIndices
  <2>3. Len(at) = L
    <3> HIDE DEF at, L
    <3> QED BY <1>2, <1>6, <2>2
  <2>4. \A k \in 1 .. L : at[k] \in DOMAIN nodes /\ nodes[at[k]].node = c[k]
    <3>1. \A k \in 1 .. L : c[k] \in DOMAIN nodeToGraphIndex /\ nodeToGraphIndex[c[k]] \in DOMAIN nodes
      BY <1>2, <2>1 DEF Complete, InGraph, ToSet
    <3>2. \A k \in 1 .. L : nodes[nodeToGraphIndex[c[k]]].node = c[k]
      BY <1>1, <3>1 DEF GraphInv, GraphOf
    <3> HIDE DEF at, L, c
    <3> QED BY <2>2, <3>1, <3>2
  <2>5. Links(current) = [i \in 1 .. Len(at) |->
          Edge(IF i < Len(at) THEN at[i + 1] ELSE nextNodeIndex, at[i], "pipe")]
    BY <1>9 DEF Links
  <2>6. p \in 1 .. L /\ s = (IF p < L THEN at[p + 1] ELSE nextNodeIndex) /\ t = at[p]
    <3> HIDE DEF at, L
    <3>1. Len(Links(current)) = Len(at)
      BY <1>6, <2>5
    <3>2. Links(current)[p] = [source |-> IF p < L THEN at[p + 1] ELSE nextNodeIndex, target |-> at[p],
                               relationship |-> "pipe"]
      BY <2>3, <2>5, <3>1 DEF Edge
    <3> QED BY <2>3, <3>1, <3>2
  <2>7. t \in DOMAIN nodes /\ nodes[t].node = c[p] /\ c[p] \in ToSet(c) /\ nodes'[t] = nodes[t]
    <3>1. c[p] \in ToSet(c)
      <4> HIDE DEF L, c
      <4> QED BY <1>2, <2>6 DEF ToSet, L
    <3> HIDE DEF at, c, L
    <3> QED BY <1>4, <2>4, <2>6, <3>1
  <2>8. ASSUME NEW a \in ToSet(c) PROVE a \notin ToSet(stack') /\ \A j \in Shown(a)' : j < nextNodeIndex
    <3>1. Shown(a) # {}
      <4>1. PICK k \in 1 .. L : a = c[k]
        <5> HIDE DEF L, c
        <5> QED BY <1>2 DEF ToSet
      <4> HIDE DEF at, c, L
      <4> QED BY <2>4, <4>1 DEF Shown
    <3>2. a \notin ToSet(stack)
      BY <1>2, <3>1 DEF MemberInv
    <3>3. a # current
      BY <1>1 DEF MemberInv
    <3>4. ToSet(stack') \subseteq ToSet(stack)
      BY <1>1, StackMembers DEF ReadInv, Extracting
    <3>5. Shown(a)' \subseteq DOMAIN nodes
      BY <1>4, <3>3 DEF Shown
    <3> QED BY <1>3, <3>2, <3>4, <3>5
  <2>9. ASSUME NEW m \in Ast, NEW q \in DOMAIN children(m), source[m].kind = "pipe",
               nodes[t].node = children(m)[q]
        PROVE  \/ q + 1 \in DOMAIN children(m) /\ nodes'[s].node = children(m)[q + 1]
               \/ \A a \in ToSet(children(m)) : a \notin ToSet(stack') /\ \A j \in Shown(a)' : j < s
    <3>1. nodes[t].node \in ToSet(children(m))
      BY <2>9 DEF ToSet
    <3>2. m = current
      BY <1>1, <1>2, <2>7, <3>1, SameComposition
    <3>3. q = p
      <4>1. source[current].children[q] = source[current].children[p] /\ p \in DOMAIN source[current].children
        BY <1>2, <2>6, <2>7, <2>9, <3>2 DEF children
      <4> QED BY <1>1, <1>2, <2>9, <3>2, <4>1 DEF ReadInv, IsTree, children
    <3>4. CASE p < L
      <4>1. p + 1 \in 1 .. L /\ s = at[p + 1]
        <5> HIDE DEF L, at
        <5> QED BY <1>2, <2>6, <3>4
      <4>2. s \in DOMAIN nodes /\ nodes[s].node = c[p + 1]
        <5> HIDE DEF L, at, c
        <5> QED BY <2>4, <4>1
      <4>3. nodes'[s].node = c[p + 1] /\ p + 1 \in DOMAIN c
        <5> HIDE DEF L, at, c
        <5> QED BY <1>2, <1>4, <4>1, <4>2
      <4> QED BY <3>2, <3>3, <4>3
    <3>5. CASE ~ (p < L)
      <4>1. s = nextNodeIndex
        <5> HIDE DEF L, at
        <5> QED BY <2>6, <3>5
      <4> QED BY <2>8, <3>2, <4>1
    <3> QED BY <3>4, <3>5
  <2>10. \E m \in Ast : source'[m].kind = "pipe" /\ nodes'[t].node \in ToSet(children(m)')
    BY <1>2, <1>5, <1>9, <2>7
  <2> QED BY <1>5, <2>7, <2>9, <2>10 DEF Ordered
<1> QED BY <1>8, <1>9

(***************************************************************************)
(* Showing an expression on its own adds no edge.                          *)
(***************************************************************************)
LEMMA LeafAddsNoEdge ==
  ASSUME NEW N, NEW E, NEW index, NEW n, nextEdgeIndex \in Nat, AddLeaf(N, E, index, n)
  PROVE  \A k \in DOMAIN edges' : k \in DOMAIN E /\ edges'[k] = E[k]
<1>1. CASE AddNode(N, E, index, n, << >>)
  <2>1. Len(<< >>) = 0 /\ nextEdgeIndex .. (nextEdgeIndex + 0 - 1) = {}
    OBVIOUS
  <2>2. DOMAIN edges' = DOMAIN E \cup nextEdgeIndex .. (nextEdgeIndex + 0 - 1)
    BY <1>1, <2>1 DEF AddNode
  <2> QED BY <1>1, <2>1, <2>2 DEF AddNode
<1>2. CASE edges' = E
  BY <1>2
<1> QED BY <1>1, <1>2 DEF AddLeaf

(***************************************************************************)
(* Only the step that joins a composition adds edges, and it adds those    *)
(* of its members in order.                                                *)
(***************************************************************************)
LEMMA OrderNext == IInv /\ IInv' /\ MemberInv /\ OrderInv /\ [Next]_vars => OrderInv'
<1> SUFFICES ASSUME IInv, ReadInv, GraphInv, GraphInv', MemberInv, OrderInv, [Next]_vars PROVE OrderInv'
  BY DEF IInv
<1>1. source' = source
  BY DEF Next, vars, input, Enter, Link, SkipArray, RemovePartialChildren, FollowSymbol, LinkSymbol,
         Leaf, StartWalk, Walk, EndWalk
<1>2. stack \in Seq(Ast) /\ (Extracting => current \in Ast /\ stack # << >>)
  BY CurrentType DEF ReadInv, Extracting
<1>3. \A m : children(m)' = children(m) /\ source'[m].kind = source[m].kind
  BY <1>1 DEF children
<1>4. /\ nextNodeIndex \notin DOMAIN nodes /\ \A j \in DOMAIN nodes : j \in Nat /\ j < nextNodeIndex
      /\ \A k \in DOMAIN edges : edges[k].source \in DOMAIN nodes /\ edges[k].target \in DOMAIN nodes
      /\ \A k \in DOMAIN edges' : edges'[k].source \in DOMAIN nodes' /\ edges'[k].target \in DOMAIN nodes'
  <2>1. /\ \A k \in DOMAIN edges : edges[k] \in EdgeOver(DOMAIN nodes)
        /\ \A k \in DOMAIN edges' : edges'[k] \in EdgeOver(DOMAIN nodes')
    BY DEF GraphInv, GraphOf
  <2> QED BY <2>1 DEF GraphInv, GraphOf, EdgeOver
<1>5. SUFFICES ASSUME NEW k \in DOMAIN edges', NEW s, NEW t,
                      s = edges'[k].source, t = edges'[k].target
               PROVE  Ordered(s, t)'
  <2>1. OrderInv' <=> \A k \in DOMAIN edges' : Ordered(edges[k].source, edges[k].target)'
    BY DEF OrderInv
  <2>2. ASSUME NEW k \in DOMAIN edges',
               \A s, t : s = edges'[k].source /\ t = edges'[k].target => Ordered(s, t)'
        PROVE  Ordered(edges[k].source, edges[k].target)'
    BY <2>2 DEF Ordered
  <2> QED BY <2>1, <2>2
\* An edge that was there, in a step that pops the expression and may show it.
<1>6. ASSUME Extracting, stack' = Tail(stack), OnlyAdds(current), k \in DOMAIN edges, edges'[k] = edges[k]
      PROVE  Ordered(s, t)'
  <2>1. s \in DOMAIN nodes' /\ t \in DOMAIN nodes' /\ s # nextNodeIndex /\ t # nextNodeIndex
    BY <1>4, <1>5, <1>6
  <2>2. nodes'[s] = nodes[s] /\ nodes'[t] = nodes[t]
    BY <1>6, <2>1 DEF OnlyAdds
  <2>3. Ordered(s, t)
    BY <1>5, <1>6 DEF OrderInv
  <2> QED BY <1>1, <1>6, <2>2, <2>3, OrderedStays
<1>7. CASE Enter
  <2> DEFINE c == children(current)
  <2>1. /\ Extracting /\ Explodes(current) /\ current \notin visitedNodes
        /\ stack' = Reverse(c) \o stack /\ UNCHANGED <<nodes, edges>>
    BY <1>7 DEF Enter, graph
  <2>2. current \in Ast /\ c \in Seq(Ast) /\ Reverse(c) \in Seq(Ast)
    <3>1. current \in Ast /\ c \in Seq(Ast)
      BY <1>2, <2>1, ExpressionType
    <3> QED BY <3>1 DEF Reverse
  <2>3. ToSet(stack') \subseteq ToSet(c) \cup ToSet(stack)
    <3> HIDE DEF c
    <3>1. ToSet(Reverse(c) \o stack) = ToSet(Reverse(c)) \cup ToSet(stack)
      BY <1>2, <2>2, StackMembers
    <3>2. ToSet(Reverse(c)) \subseteq ToSet(c)
      BY <1>2, <2>2, StackMembers
    <3> QED BY <2>1, <3>1, <3>2
  <2>4. k \in DOMAIN edges /\ s = edges[k].source /\ t = edges[k].target /\ t \in DOMAIN nodes
    BY <1>4, <1>5, <2>1
  <2>5. Ordered(s, t)
    BY <2>4 DEF OrderInv
  <2>6. \A n : Shown(n)' = Shown(n)
    BY <2>1 DEF Shown
  <2>7. ASSUME NEW m \in Ast, NEW q \in DOMAIN children(m), nodes[t].node = children(m)[q],
               \A a \in ToSet(children(m)) : a \notin ToSet(stack) /\ \A j \in Shown(a) : j < s
        PROVE  \A a \in ToSet(children(m)) : a \notin ToSet(stack') /\ \A j \in Shown(a) : j < s
    <3>1. nodes[t].node \in ToSet(children(m)) /\ t \in Shown(nodes[t].node)
      BY <2>4, <2>7 DEF ToSet, Shown
    <3>2. m # current
      BY <2>1, <2>2, <3>1 DEF MemberInv
    <3>3. \A a \in ToSet(children(m)) : a \notin ToSet(c)
      BY <2>2, <3>2, SameComposition
    <3> HIDE DEF c
    <3> QED BY <2>3, <2>7, <3>3
  <2>8. \A m \in Ast : \A q \in DOMAIN children(m) :
          source[m].kind = "pipe" /\ nodes[t].node = children(m)[q] =>
            \/ q + 1 \in DOMAIN children(m) /\ nodes[s].node = children(m)[q + 1]
            \/ \A a \in ToSet(children(m)) : a \notin ToSet(stack') /\ \A j \in Shown(a) : j < s
    BY <2>5, <2>7 DEF Ordered
  <2> QED BY <1>3, <2>1, <2>5, <2>6, <2>8 DEF Ordered
<1>8. CASE Link
  <2>1. OnlyAdds(current)
    BY <1>8, AddingOnlyAdds DEF Link
  <2>2. CASE k \in DOMAIN edges
    <3>1. edges'[k] = edges[k]
      BY <1>8, <2>2 DEF Link, AddNode
    <3> QED BY <1>6, <1>8, <2>1, <2>2, <3>1 DEF Link
  <2>3. CASE k \notin DOMAIN edges
    <3> DEFINE p == k - nextEdgeIndex + 1
    <3>1. AddNode(nodes, edges, nodeToGraphIndex, current, Links(current))
      BY <1>8 DEF Link
    <3>2. k \in nextEdgeIndex .. (nextEdgeIndex + Len(Links(current)) - 1) /\ edges'[k] = Links(current)[p]
      BY <1>5, <2>3, <3>1 DEF AddNode
    <3>3. Len(Links(current)) \in Nat /\ nextEdgeIndex \in Nat
      <4>1. current \in Ast /\ Explodes(current)
        BY <1>2, <1>8 DEF Link
      <4>2. Links(current) \in Seq(EdgeOver(DOMAIN nodes \cup {nextNodeIndex}))
        BY <4>1, LinksType
      <4> QED BY <4>2 DEF GraphInv
    <3>4. p \in 1 .. Len(Links(current))
      BY <3>2, <3>3
    <3> HIDE DEF p
    <3>5. s = Links(current)[p].source /\ t = Links(current)[p].target
      BY <1>5, <3>2
    <3> QED BY <1>8, <3>4, <3>5, LinksAreOrdered
  <2> QED BY <2>2, <2>3
<1>9. CASE SkipArray
  <2>1. OnlyAdds(current) /\ k \in DOMAIN edges /\ edges'[k] = edges[k]
    BY <1>5, <1>9 DEF SkipArray, OnlyAdds, graph
  <2> QED BY <1>6, <1>9, <2>1 DEF SkipArray
<1>10. CASE RemovePartialChildren
  <2> DEFINE mapped  == ToSet(children(current)) \cap DOMAIN nodeToGraphIndex
             removed == { nodeToGraphIndex[c] : c \in mapped }
             kept    == { e \in DOMAIN edges : {edges[e].source, edges[e].target} \cap removed = {} }
             N       == Restrict(nodes, DOMAIN nodes \ removed)
             E       == Restrict(edges, kept)
             index   == Restrict(nodeToGraphIndex, DOMAIN nodeToGraphIndex \ mapped)
  <2>1. AddLeaf(N, E, index, current)
    BY <1>10 DEF RemovePartialChildren
  <2>2. \A e \in DOMAIN E : e \in DOMAIN edges /\ E[e] = edges[e]
    BY DEF Restrict
  <2>3. k \in DOMAIN E /\ edges'[k] = E[k]
    <3> HIDE DEF N, E, index
    <3> QED BY <1>5, <2>1, LeafAddsNoEdge DEF GraphInv
  <2>4. k \in DOMAIN edges /\ edges'[k] = edges[k]
    <3> HIDE DEF E
    <3> QED BY <2>2, <2>3
  <2> QED BY <1>6, <1>10, <2>4, RemovingOnlyAdds DEF RemovePartialChildren
<1>11. CASE FollowSymbol
  <2> DEFINE d == source[current].declaration
  <2>1. Extracting /\ UNCHANGED <<nodes, edges>> /\ d # 0 /\ stack' = << d >> \o stack
    BY <1>11 DEF FollowSymbol, FollowsSymbol, graph
  <2>2. current \in Ast /\ d \in Ast
    BY <1>2, <2>1, ExpressionType DEF Expression
  <2>3. \A m \in Ast : d \notin ToSet(children(m))
    BY <2>2 DEF MemberInv, ReadsInitializers, children
  <2>4. ToSet(stack') = {d} \cup ToSet(stack)
    <3> HIDE DEF d
    <3> QED BY <1>2, <2>1, <2>2, StackMembers
  <2>5. Ordered(s, t)
    BY <1>5, <2>1 DEF OrderInv
  <2>6. \A n : Shown(n)' = Shown(n)
    BY <2>1 DEF Shown
  <2>7. \A m \in Ast : \A a \in ToSet(children(m)) : a \notin ToSet(stack) => a \notin ToSet(stack')
    BY <2>3, <2>4
  <2> QED BY <1>3, <2>1, <2>5, <2>6, <2>7 DEF Ordered
<1>12. CASE LinkSymbol
  <2> DEFINE d == source[current].declaration
             e == [source |-> nextNodeIndex, target |-> nodeToGraphIndex[d], relationship |-> "symbol"]
  <2>1. OnlyAdds(current) /\ Extracting /\ stack' = Tail(stack)
    BY <1>12, AddingOnlyAdds DEF LinkSymbol
  <2>2. CASE k \in DOMAIN edges
    <3>1. edges'[k] = edges[k]
      BY <1>12, <2>2 DEF LinkSymbol, AddNode
    <3> QED BY <1>6, <2>1, <2>2, <3>1
  <2>3. CASE k \notin DOMAIN edges
    <3>1. AddNode(nodes, edges, nodeToGraphIndex, current, << e >>) /\ Len(<< e >>) = 1
      BY <1>12 DEF LinkSymbol, Edge
    <3>2. edges'[k] = e
      <4>1. k \in nextEdgeIndex .. (nextEdgeIndex + 1 - 1) /\ edges'[k] = << e >>[k - nextEdgeIndex + 1]
        BY <1>5, <2>3, <3>1 DEF AddNode
      <4>2. k - nextEdgeIndex + 1 = 1
        BY <4>1 DEF GraphInv
      <4> QED BY <4>1, <4>2
    <3>3. s = nextNodeIndex /\ t = nodeToGraphIndex[d]
      BY <1>5, <3>2
    <3>4. t \in DOMAIN nodes /\ nodes[t].node = d /\ t < s
      BY <1>4, <1>12, <3>3 DEF LinkSymbol, GraphInv, GraphOf
    <3>5. nodes'[t] = nodes[t]
      BY <1>4, <2>1, <3>1, <3>4 DEF AddNode
    <3>6. current \in Ast
      BY <1>2, <2>1
    <3>7. \A m \in Ast : \A q \in DOMAIN children(m) : nodes[t].node # children(m)[q]
      BY <3>4, <3>6 DEF MemberInv, ReadsInitializers, children, ToSet
    <3> QED BY <1>3, <3>4, <3>5, <3>7 DEF Ordered
  <2> QED BY <2>2, <2>3
<1>13. CASE Leaf
  <2>1. OnlyAdds(current)
    BY <1>13, AddingOnlyAdds DEF Leaf
  <2>2. k \in DOMAIN edges /\ edges'[k] = edges[k]
    BY <1>5, <1>13, LeafAddsNoEdge DEF Leaf, GraphInv
  <2> QED BY <1>6, <1>13, <2>1, <2>2 DEF Leaf
<1>14. CASE UNCHANGED <<stack, nodes, edges>>
  <2>1. \A n : Shown(n)' = Shown(n)
    BY <1>14 DEF Shown
  <2>2. Ordered(s, t)
    BY <1>5, <1>14 DEF OrderInv
  <2> QED BY <1>3, <1>14, <2>1, <2>2 DEF Ordered
<1>15. StartWalk \/ Walk \/ EndWalk \/ UNCHANGED vars => UNCHANGED <<stack, nodes, edges>>
  BY DEF StartWalk, Walk, EndWalk, vars, graph
<1> QED BY <1>7, <1>8, <1>9, <1>10, <1>11, <1>12, <1>13, <1>14, <1>15 DEF Next

-----------------------------------------------------------------------------
(***************************************************************************)
(* A finite set in which the relation leads on from each member has a part *)
(* in which it also leads to each member: the smallest from which it leads *)
(* on.                                                                     *)
(***************************************************************************)
LEMMA SomeCircle ==
  ASSUME NEW S, IsFiniteSet(S), S # {}, NEW R, \A i \in S : \E j \in S : << i, j >> \in R
  PROVE  \E Z \in SUBSET S : Z # {} /\ \A i \in Z : \E j \in Z : << j, i >> \in R
<1> DEFINE Going == { Z \in SUBSET S : Z # {} /\ \A i \in Z : \E j \in Z : << i, j >> \in R }
           Sizes == { Cardinality(Z) : Z \in Going }
<1>1. \A Z \in SUBSET S : IsFiniteSet(Z) /\ Cardinality(Z) \in Nat
  BY FS_Subset, FS_CardinalityType
<1>2. Sizes \subseteq Nat /\ Sizes # {}
  <2>1. S \in Going
    OBVIOUS
  <2>2. \A Z \in Going : Cardinality(Z) \in Nat
    BY <1>1
  <2> HIDE DEF Going
  <2> QED BY <2>1, <2>2
<1>3. PICK n \in Sizes : \A x \in Sizes : n <= x
  <2> HIDE DEF Sizes
  <2> QED BY <1>2, LeastNatural
<1>4. PICK Z \in Going : n = Cardinality(Z)
  <2> HIDE DEF Going
  <2> QED BY <1>3
<1>5. ASSUME NEW i \in Z, \A j \in Z : << j, i >> \notin R PROVE FALSE
  <2> DEFINE Y == Z \ {i}
  <2>1. Y \in Going
    <3>1. Z \in SUBSET S /\ Z # {} /\ \A x \in Z : \E y \in Z : << x, y >> \in R
      OBVIOUS
    <3>2. ASSUME NEW x \in Z PROVE \E y \in Y : << x, y >> \in R
      <4>1. PICK y \in Z : << x, y >> \in R
        BY <3>1
      <4>2. y # i
        BY <1>5, <4>1
      <4> QED BY <4>1, <4>2
    <3>3. Y # {}
      BY <3>1, <3>2
    <3> QED BY <3>1, <3>2, <3>3
  <2>2. Cardinality(Y) = Cardinality(Z) - 1 /\ Cardinality(Z) \in Nat
    <3>1. IsFiniteSet(Z) /\ Cardinality(Z) \in Nat
      BY <1>1
    <3> QED BY <3>1, FS_RemoveElement
  <2>3. Cardinality(Y) \in Sizes
    <3> HIDE DEF Going, Y
    <3> QED BY <2>1
  <2>4. Cardinality(Z) <= Cardinality(Y)
    <3> HIDE DEF Sizes, Y
    <3> QED BY <1>3, <1>4, <2>3
  <2> HIDE DEF Y
  <2> QED BY <2>2, <2>4
<1> QED BY <1>5

(***************************************************************************)
(* The targets of the edges of a node that match are its neighbors that    *)
(* match.                                                                  *)
(***************************************************************************)
LEMMA MatchingListed ==
  ASSUME GraphInv, NEW i
  PROVE  /\ \A j \in Neighbors(i) : wanted(j) => j \in ToSet(matchingNeighbors(i))
         /\ (\A j \in Neighbors(i) : ~ wanted(j)) => matchingNeighbors(i) = << >>
<1> DEFINE P     == { k \in Outgoing(i) : wanted(edges[k].target) }
           found == InOrder(P)
<1>1. P \in SUBSET Nat /\ IsFiniteSet(P)
  <2>1. P \subseteq DOMAIN edges /\ DOMAIN edges \subseteq 0 .. (nextEdgeIndex - 1)
    BY DEF Outgoing, GraphInv, GraphOf
  <2>2. IsFiniteSet(0 .. (nextEdgeIndex - 1)) /\ 0 .. (nextEdgeIndex - 1) \subseteq Nat
    BY FS_Interval DEF GraphInv
  <2> HIDE DEF P
  <2>3. P \in SUBSET (0 .. (nextEdgeIndex - 1))
    BY <2>1
  <2> QED BY <2>2, <2>3, FS_Subset
<1>2. /\ found \in Seq(P) /\ DOMAIN found = 1 .. Cardinality(P)
      /\ \A k \in P : \E x \in DOMAIN found : found[x] = k
  <2> HIDE DEF P
  <2> QED BY <1>1, InOrderLists
<1>3. matchingNeighbors(i) = [k \in DOMAIN found |-> edges[found[k]].target]
  BY DEF matchingNeighbors
<1>4. ASSUME NEW j \in Neighbors(i), wanted(j) PROVE j \in ToSet(matchingNeighbors(i))
  <2>1. PICK k \in P : j = edges[k].target
    BY <1>4 DEF Neighbors
  <2> HIDE DEF P, found
  <2>2. PICK x \in DOMAIN found : found[x] = k
    BY <1>2
  <2>3. x \in DOMAIN matchingNeighbors(i) /\ matchingNeighbors(i)[x] = j
    BY <1>3, <2>1, <2>2
  <2> QED BY <2>3 DEF ToSet
<1>5. ASSUME \A j \in Neighbors(i) : ~ wanted(j) PROVE matchingNeighbors(i) = << >>
  <2>1. P = {}
    BY <1>5 DEF Neighbors
  <2>2. Cardinality(P) = 0
    <3> HIDE DEF P
    <3> QED BY <2>1, FS_EmptySet
  <2>3. DOMAIN found = {}
    <3> HIDE DEF P, found
    <3> QED BY <1>2, <2>2
  <2> HIDE DEF found
  <2> QED BY <1>3, <2>3
<1> QED BY <1>4, <1>5

(***************************************************************************)
(* What is in one of two sequences is in their concatenation.              *)
(***************************************************************************)
LEMMA ConcatenationMembers ==
  ASSUME NEW S, NEW s \in Seq(S), NEW t \in Seq(S)
  PROVE  ToSet(s) \subseteq ToSet(s \o t) /\ ToSet(t) \subseteq ToSet(s \o t)
<1>1. DOMAIN (s \o t) = 1 .. (Len(s) + Len(t)) /\ Len(s) \in Nat /\ Len(t) \in Nat
  OBVIOUS
<1>2. ASSUME NEW k \in DOMAIN s PROVE s[k] \in ToSet(s \o t)
  <2>1. k \in DOMAIN (s \o t) /\ (s \o t)[k] = s[k]
    BY <1>1
  <2> QED BY <2>1 DEF ToSet
<1>3. ASSUME NEW k \in DOMAIN t PROVE t[k] \in ToSet(s \o t)
  <2>1. Len(s) + k \in DOMAIN (s \o t) /\ (s \o t)[Len(s) + k] = t[k]
    BY <1>1
  <2> QED BY <2>1 DEF ToSet
<1>4. /\ \A x \in ToSet(s) : \E k \in DOMAIN s : x = s[k]
      /\ \A x \in ToSet(t) : \E k \in DOMAIN t : x = t[k]
  BY DEF ToSet
<1> QED BY <1>2, <1>3, <1>4

(***************************************************************************)
(* The walk has seen, or will see, every root and every matching neighbor  *)
(* of what it has seen; it took for a provider what has none of these.     *)
(***************************************************************************)
FoundInv ==
  pc # "extract" =>
    /\ pc = "walk" => \A r \in Roots : r \in discovered \cup ToSet(queue)
    /\ pc = "done" => queue = << >> /\ \A r \in Roots : wanted(r) => r \in discovered
    /\ \A i \in discovered : \A j \in Neighbors(i) : wanted(j) => j \in discovered \cup ToSet(queue)
    /\ \A i \in discovered : wanted(i) /\ (\A j \in Neighbors(i) : ~ wanted(j)) => i \in providers

(***************************************************************************)
(* At first nothing is found.                                              *)
(***************************************************************************)
LEMMA FoundInit == Init => FoundInv
BY DEF Init, FoundInv

(***************************************************************************)
(* A step of the walk queues the matching neighbors of what it takes, and  *)
(* provides what has none.                                                 *)
(***************************************************************************)
LEMMA FoundNext == IInv /\ FoundInv /\ [Next]_vars => FoundInv'
<1> SUFFICES ASSUME GraphInv, WalkInv, FoundInv, [Next]_vars PROVE FoundInv'
  BY DEF IInv
<1>1. CASE pc' = "extract"
  BY <1>1 DEF FoundInv
<1>2. Enter \/ Link \/ SkipArray \/ RemovePartialChildren \/ FollowSymbol \/ LinkSymbol \/ Leaf =>
        pc' = "extract"
  BY DEF Enter, Link, SkipArray, RemovePartialChildren, FollowSymbol, LinkSymbol, Leaf, Extracting
<1>3. ASSUME UNCHANGED graph
      PROVE  Roots' = Roots /\ \A i : Neighbors(i)' = Neighbors(i) /\ (wanted(i)' <=> wanted(i))
  BY <1>3 DEF graph, Roots, Neighbors, Outgoing, wanted
<1>4. CASE StartWalk
  <2>1. /\ pc = "extract" /\ UNCHANGED <<discovered, providers>> /\ discovered = {}
        /\ pc' = IF \E i \in Roots : wanted(i) THEN "walk" ELSE "done"
        /\ queue' = IF pc' = "walk" THEN InOrder(Roots) ELSE << >>
    BY <1>4 DEF StartWalk, WalkInv
  <2>2. \A r \in Roots : r \in ToSet(InOrder(Roots))
    <3>1. Roots \subseteq DOMAIN nodes /\ DOMAIN nodes \subseteq 0 .. (nextNodeIndex - 1)
      BY DEF Roots, GraphInv, GraphOf
    <3>2. IsFiniteSet(0 .. (nextNodeIndex - 1)) /\ 0 .. (nextNodeIndex - 1) \subseteq Nat
      BY FS_Interval DEF GraphInv
    <3>3. Roots \in SUBSET (0 .. (nextNodeIndex - 1))
      BY <3>1
    <3>4. Roots \in SUBSET Nat /\ IsFiniteSet(Roots)
      BY <3>2, <3>3, FS_Subset
    <3>5. \A r \in Roots : \E k \in DOMAIN InOrder(Roots) : InOrder(Roots)[k] = r
      BY <3>4, InOrderLists
    <3> QED BY <3>5 DEF ToSet
  <2>3. Roots' = Roots /\ \A i : Neighbors(i)' = Neighbors(i) /\ (wanted(i)' <=> wanted(i))
    BY <1>3, <1>4 DEF StartWalk
  <2> QED BY <2>1, <2>2, <2>3 DEF FoundInv
<1>5. CASE Walk
  <2> DEFINE i == Head(queue)
             F == matchingNeighbors(i)
  <2>1. /\ pc = "walk" /\ pc' = "walk" /\ queue # << >>
        /\ queue' = Tail(queue) \o (IF i \in discovered THEN << >> ELSE F)
        /\ discovered' = discovered \cup {i}
        /\ providers' = IF ~ i \in discovered /\ F = << >> /\ wanted(i) THEN providers \cup {i} ELSE providers
    BY <1>5 DEF Walk
  <2>2. Roots' = Roots /\ \A x : Neighbors(x)' = Neighbors(x) /\ (wanted(x)' <=> wanted(x))
    BY <1>3, <1>5 DEF Walk
  <2>3. queue \in Seq(DOMAIN nodes) /\ Tail(queue) \in Seq(DOMAIN nodes) /\ F \in Seq(DOMAIN nodes)
    BY <2>1, NeighborsListed DEF WalkInv
  <2>4. \A x \in ToSet(queue) : x = i \/ x \in ToSet(Tail(queue))
    <3> SUFFICES ASSUME NEW k \in DOMAIN queue PROVE queue[k] = i \/ queue[k] \in ToSet(Tail(queue))
      BY DEF ToSet
    <3>1. CASE k = 1
      BY <2>1, <2>3, <3>1
    <3>2. CASE k # 1
      <4>1. k - 1 \in DOMAIN Tail(queue) /\ Tail(queue)[k - 1] = queue[k]
        BY <2>1, <2>3, <3>2
      <4> QED BY <4>1 DEF ToSet
    <3> QED BY <3>1, <3>2
  <2>5. \A x \in ToSet(Tail(queue)) : x \in ToSet(queue')
    <3> HIDE DEF F, i
    <3>1. \E G \in Seq(DOMAIN nodes) : queue' = Tail(queue) \o G
      <4>1. CASE i \in discovered
        <5>1. queue' = Tail(queue) \o << >> /\ << >> \in Seq(DOMAIN nodes)
          BY <2>1, <4>1
        <5> QED BY <5>1
      <4>2. CASE i \notin discovered
        <5>1. queue' = Tail(queue) \o F
          BY <2>1, <4>2
        <5> QED BY <2>3, <5>1
      <4> QED BY <4>1, <4>2
    <3> QED BY <2>3, <3>1, ConcatenationMembers
  <2>6. i \notin discovered => \A x \in ToSet(F) : x \in ToSet(queue')
    <3> HIDE DEF F, i
    <3>1. i \notin discovered => queue' = Tail(queue) \o F
      BY <2>1
    <3> QED BY <2>3, <3>1, ConcatenationMembers
  <2>7. /\ \A j \in Neighbors(i) : wanted(j) => j \in ToSet(F)
        /\ (\A j \in Neighbors(i) : ~ wanted(j)) => F = << >>
    BY MatchingListed
  <2> HIDE DEF i, F
  <2>8. \A x : x \in discovered \cup ToSet(queue) => x \in discovered' \cup ToSet(queue')
    BY <2>1, <2>4, <2>5
  <2>9. \A r \in Roots : r \in discovered' \cup ToSet(queue')
    BY <2>1, <2>8 DEF FoundInv
  <2>10. \A x \in discovered' : \A j \in Neighbors(x) : wanted(j) => j \in discovered' \cup ToSet(queue')
    <3>1. \A x \in discovered : \A j \in Neighbors(x) : wanted(j) => j \in discovered' \cup ToSet(queue')
      BY <2>1, <2>8 DEF FoundInv
    <3> QED BY <2>1, <2>6, <2>7, <3>1
  <2>11. \A x \in discovered' : wanted(x) /\ (\A j \in Neighbors(x) : ~ wanted(j)) => x \in providers'
    <3>1. \A x \in discovered : wanted(x) /\ (\A j \in Neighbors(x) : ~ wanted(j)) => x \in providers'
      BY <2>1 DEF FoundInv
    <3> QED BY <2>1, <2>7, <3>1
  <2> QED BY <2>1, <2>2, <2>9, <2>10, <2>11 DEF FoundInv
<1>6. CASE EndWalk
  <2>1. /\ pc = "walk" /\ pc' = "done" /\ queue = << >> /\ UNCHANGED <<queue, discovered, providers>>
        /\ ToSet(queue) = {}
    BY <1>6 DEF EndWalk, walk, ToSet
  <2>2. Roots' = Roots /\ \A x : Neighbors(x)' = Neighbors(x) /\ (wanted(x)' <=> wanted(x))
    BY <1>3, <1>6 DEF EndWalk
  <2> QED BY <2>1, <2>2 DEF FoundInv
<1>7. CASE UNCHANGED vars
  <2>1. Roots' = Roots /\ \A x : Neighbors(x)' = Neighbors(x) /\ (wanted(x)' <=> wanted(x))
    BY <1>3, <1>7 DEF vars
  <2> QED BY <1>7, <2>1 DEF FoundInv, vars, walk
<1> QED BY <1>1, <1>2, <1>4, <1>5, <1>6, <1>7 DEF Next

(***************************************************************************)
(* Were a matching root without a provider below it, the nodes that the    *)
(* walk saw below it would contain a circle; the edge to the youngest node *)
(* of that circle would come from the member behind it in a pipe, and so   *)
(* on back to the last member, to which only younger nodes lead.           *)
(***************************************************************************)
LEMMA InvImpliesAttributed == IInv /\ OrderInv /\ FoundInv => AttributedToSource
<1> SUFFICES ASSUME IInv, OrderInv, FoundInv, pc = "done",
                    NEW r \in { i \in Roots : wanted(i) },
                    NEW I \in SUBSET { i \in DOMAIN nodes : wanted(i) },
                    r \in I, \A i \in I : { j \in Neighbors(i) : wanted(j) } \subseteq I,
                    I \cap providers = {}
             PROVE  FALSE
  BY DEF AttributedToSource
<1> DEFINE S == I \cap discovered
           R == { e \in (DOMAIN nodes) \X (DOMAIN nodes) : e[2] \in Neighbors(e[1]) }
<1>1. /\ DOMAIN nodes \subseteq 0 .. (nextNodeIndex - 1) /\ nextNodeIndex \in Nat
      /\ \A i \in DOMAIN nodes : i \in Nat /\ i < nextNodeIndex
  BY DEF IInv, GraphInv, GraphOf
<1>2. IsFiniteSet(S)
  <2>1. IsFiniteSet(0 .. (nextNodeIndex - 1))
    BY <1>1, FS_Interval
  <2>2. S \in SUBSET (0 .. (nextNodeIndex - 1))
    BY <1>1
  <2> HIDE DEF S
  <2> QED BY <2>1, <2>2, FS_Subset
<1>3. r \in S /\ ToSet(queue) = {}
  BY DEF FoundInv, ToSet
<1>4. ASSUME NEW i \in S PROVE \E j \in S : << i, j >> \in R
  <2>1. i \in I /\ i \in discovered /\ i \notin providers /\ wanted(i)
    OBVIOUS
  <2>2. PICK j \in Neighbors(i) : wanted(j)
    BY <2>1 DEF FoundInv
  <2>3. j \in I /\ j \in discovered
    BY <1>3, <2>1, <2>2 DEF FoundInv
  <2>4. << i, j >> \in R
    <3>1. i \in DOMAIN nodes /\ j \in DOMAIN nodes
      BY <2>1, <2>3
    <3>2. << i, j >> \in (DOMAIN nodes) \X (DOMAIN nodes) /\ << i, j >>[1] = i /\ << i, j >>[2] = j
      BY <3>1
    <3> QED BY <2>2, <3>2
  <2> QED BY <2>3, <2>4
<1>5. PICK Z \in SUBSET S : Z # {} /\ \A i \in Z : \E j \in Z : << j, i >> \in R
  <2> HIDE DEF S, R
  <2> QED BY <1>2, <1>3, <1>4, SomeCircle
<1>6. Z \subseteq DOMAIN nodes /\ \A i \in Z : i \in Nat
  BY <1>1
<1>7. ASSUME NEW i \in Z PROVE \E j \in Z : Ordered(j, i)
  <2>1. PICK j \in Z : << j, i >> \in R
    BY <1>5
  <2>2. PICK k \in DOMAIN edges : edges[k].source = j /\ edges[k].target = i
    BY <2>1 DEF Neighbors, Outgoing
  <2> QED BY <2>2 DEF OrderInv
<1> HIDE DEF S, R
<1>8. PICK youngest \in Z : \A z \in Z : z <= youngest
  <2>1. Z \subseteq Nat /\ \A z \in Z : z <= nextNodeIndex
    BY <1>1, <1>6
  <2> QED BY <1>1, <1>5, <2>1, GreatestBounded
<1>9. PICK m \in Ast : source[m].kind = "pipe" /\ nodes[youngest].node \in ToSet(children(m))
  <2>1. PICK j \in Z : Ordered(j, youngest)
    BY <1>7
  <2>2. ~ (youngest < j)
    BY <1>6, <1>8
  <2> QED BY <2>1, <2>2 DEF Ordered
<1>10. DOMAIN children(m) = 1 .. Len(children(m)) /\ Len(children(m)) \in Nat
  BY ExpressionType DEF IInv
<1> DEFINE Q == { q \in DOMAIN children(m) : \E z \in Z : nodes[z].node = children(m)[q] }
<1>11. PICK last \in Q : \A q \in Q : q <= last
  <2>1. Q \subseteq Nat /\ \A q \in Q : q <= Len(children(m))
    BY <1>10
  <2>2. Q # {}
    BY <1>9 DEF ToSet
  <2> HIDE DEF Q
  <2> QED BY <1>10, <2>1, <2>2, GreatestBounded
<1>12. PICK z \in Z : nodes[z].node = children(m)[last]
  OBVIOUS
<1>13. PICK j \in Z : Ordered(j, z)
  BY <1>7
<1>14. last \in DOMAIN children(m) /\ last \in Int
  BY <1>10
<1>15. CASE last + 1 \in DOMAIN children(m) /\ nodes[j].node = children(m)[last + 1]
  <2>1. last + 1 \in Q
    BY <1>15
  <2> HIDE DEF Q
  <2> QED BY <1>11, <1>14, <2>1
<1>16. CASE \A a \in ToSet(children(m)) : \A i \in Shown(a) : i < j
  <2>1. youngest \in Shown(nodes[youngest].node)
    BY <1>6 DEF Shown
  <2>2. youngest < j /\ j <= youngest
    BY <1>8, <1>9, <1>16, <2>1
  <2> QED BY <1>6, <2>2
<1> QED BY <1>9, <1>12, <1>13, <1>14, <1>15, <1>16 DEF Ordered

(***************************************************************************)
(* For every program and options, each root of the graph that provides the *)
(* service leads to a provider of it: the graph has no circle of layers    *)
(* that provide it, though pipes link their members against the order in   *)
(* which they were read and declarations are read again on each path to    *)
(* them (internal/layergraph/providers.go:11, extract.go:91).              *)
(***************************************************************************)
THEOREM AttributedToSourceAlways == Spec => []AttributedToSource
BY InvInit, InvNext, MemberInit, MemberNext, OrderInit, OrderNext, FoundInit, FoundNext,
   InvImpliesAttributed, PTL DEF Spec
=============================================================================
