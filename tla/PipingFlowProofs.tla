-------------------------- MODULE PipingFlowProofs --------------------------
(***************************************************************************)
(* Proofs about PipingFlow, for every source.                              *)
(***************************************************************************)
EXTENDS PipingFlow, SequenceTheorems, FiniteSetTheorems, NaturalsInduction, TLAPS

(***************************************************************************)
(* A nonempty set of naturals has a least element: the only form of        *)
(* induction used here.                                                    *)
(***************************************************************************)
LEMMA LeastNatural ==
  ASSUME NEW S, S \subseteq Nat, S # {}
  PROVE  \E x \in S : \A y \in S : x <= y
<1> DEFINE R == OpToRel(<, Nat)
<1>1. IsWellFoundedOn(R, Nat)
  BY NatLessThanWellFounded
<1>2. \A x, y \in Nat : <<x, y>> \in R <=> x < y
  BY DEF OpToRel
<1>3. PICK x \in S : \A y \in S : ~ (<<y, x>> \in R)
  <2> HIDE DEF R
  <2> QED BY <1>1, WFMin, Zenon
<1>4. ASSUME NEW y \in S PROVE x <= y
  <2>1. x \in Nat /\ y \in Nat /\ ~ (y < x)
    BY <1>2, <1>3
  <2> QED BY <2>1
<1> QED BY <1>4

-----------------------------------------------------------------------------
(***************************************************************************)
(* The type invariant.                                                     *)
(***************************************************************************)
Steplike == [kind : {"call", "effectFn"} \cup PipeKind \cup DataKind, node : Node, callee : Node,
             args : Seq(Node), type : {"pipeable", "function", "other"}]

Unfinished == [node : Node, transformations : Seq(Steplike)]
Finished   == [node : Node, subject : Node, transformations : Seq(Steplike)]
WorkItem   == [node : Node, parentFlow : Seq(Unfinished)]

\* The source keeps what the parser promises.
Parsed == source \in [Node -> Expression] /\ includeEffectFn \in BOOLEAN /\ Tree(source) /\ Parses(source)

Typed == Parsed /\ TypeOK

LEMMA TypeOKIs ==
  TypeOK <=> /\ source \in [Node -> Expression] /\ includeEffectFn \in BOOLEAN /\ pc \in {"search", "done"}
             /\ queue \in Seq(WorkItem) /\ result \in Seq(Finished)
             /\ pc = "done" => queue = << >>
BY DEF TypeOK, Steplike, Unfinished, Finished, WorkItem

LEMMA Numbered ==
  /\ Cardinality(Node) \in Nat /\ Node = 1 .. Cardinality(Node)
  /\ Node \subseteq Nat /\ 0 \notin Node /\ File \in Node
<1>1. Cardinality(Node) \in Nat
  BY InputsType, FS_CardinalityType
<1> QED BY <1>1, InputsType

\* What is known of an expression, by its kind.
LEMMA Members ==
  ASSUME Parsed, NEW n \in Node
  PROVE  /\ source[n] \in Expression /\ args(n) \in Seq(Node)
         /\ kind(n) \in {"name", "method", "function", "call", "effectFn"} \cup PipeKind \cup DataKind
         /\ source[n].callee \in Node \cup {0} /\ subject(n) \in Node \cup {0}
         /\ source[n].type \in {"pipeable", "function", "other"}
         /\ source[n].callee # 0 => source[n].callee > n
         /\ subject(n) # 0 => subject(n) > n
         /\ \A i \in DOMAIN args(n) : args(n)[i] \in Node /\ args(n)[i] > n
         /\ kind(n) \in {"call"} \cup DataKind => source[n].callee \in Node
         /\ kind(n) \in {"effectFn"} \cup PipeKind \cup DataKind => subject(n) \in Node
         /\ kind(n) \in DataKind => args(n) # << >>
<1>1. source[n] \in Expression
  BY DEF Parsed
<1>2. /\ source[n].kind \in {"name", "method", "function", "call", "effectFn"} \cup PipeKind \cup DataKind
      /\ source[n].callee \in Node \cup {0} /\ source[n].subject \in Node \cup {0}
      /\ source[n].args \in Seq(Node) /\ source[n].type \in {"pipeable", "function", "other"}
  BY <1>1 DEF Expression
<1>3. /\ \A c \in {source[n].callee, source[n].subject} \cup ToSet(source[n].args) : c # 0 => c > n
      /\ source[n].kind \in {"call"} \cup DataKind => source[n].callee # 0
      /\ source[n].kind \in {"effectFn"} \cup PipeKind \cup DataKind => source[n].subject # 0
      /\ source[n].kind \in DataKind => source[n].args # << >>
  BY DEF Parsed, Tree, Parses, Parts
<1>4. \A i \in DOMAIN source[n].args : source[n].args[i] \in Node /\ source[n].args[i] \in ToSet(source[n].args)
  BY <1>2 DEF ToSet
<1>5. \A i \in DOMAIN source[n].args : source[n].args[i] > n
  <2> SUFFICES ASSUME NEW i \in DOMAIN source[n].args PROVE source[n].args[i] > n
    OBVIOUS
  <2> QED BY <1>3, <1>4, Numbered
<1> QED BY <1>1, <1>2, <1>3, <1>4, <1>5 DEF kind, subject, args

LEMMA ChildrenAreNodes ==
  ASSUME Parsed, NEW n \in Node
  PROVE  Children(n) \in Seq(Node)
<1>1. \A m \in Node \cup {0} : Known(m) \in Seq(Node)
  BY DEF Known
<1> QED BY <1>1, Members DEF Children

LEMMA FlattenIs ==
  ASSUME NEW cs \in Seq(Seq(Node)), Len(cs) # 0
  PROVE  \E f \in [1 .. Len(cs) -> Seq(Node)] :
           /\ f[1] = cs[1] /\ \A i \in 1 .. Len(cs) : i # 1 => f[i] = f[i - 1] \o cs[i]
           /\ FlattenSeq(cs) = f[Len(cs)]
<1> DEFINE n  == Len(cs)
           Step(f, i) == IF i = 1 THEN cs[i] ELSE f[i - 1] \o cs[i]
           B(k) == { f \in [1 .. k -> Seq(Node)] : \A i \in 1 .. k : f[i] = Step(f, i) }
           flatten == CHOOSE f : f = [i \in 1 .. n |-> Step(f, i)]
<1>1. n \in Nat /\ \A i \in 1 .. n : cs[i] \in Seq(Node)
  OBVIOUS
<1>2. \A k \in 0 .. n : B(k) # {}
  <2> DEFINE Missing == { k \in 0 .. n : B(k) = {} }
  <2>1. SUFFICES ASSUME Missing # {} PROVE FALSE
    OBVIOUS
  <2>2. PICK k \in Missing : \A y \in Missing : k <= y
    <3>1. Missing \subseteq Nat
      BY <1>1
    <3> HIDE DEF Missing
    <3> QED BY <2>1, <3>1, LeastNatural
  <2>3. CASE k = 0
    <3>1. << >> \in B(0)
      OBVIOUS
    <3> QED BY <2>2, <2>3, <3>1
  <2>4. CASE k # 0
    <3>1. k \in 1 .. n /\ k - 1 \in 0 .. n /\ ~ (k <= k - 1)
      BY <1>1, <2>4
    <3>2. B(k - 1) # {}
      <4>1. k - 1 \notin Missing
        <5> HIDE DEF Missing
        <5> QED BY <2>2, <3>1
      <4> QED BY <3>1, <4>1
    <3>3. PICK g \in [1 .. (k - 1) -> Seq(Node)] : \A i \in 1 .. (k - 1) : g[i] = Step(g, i)
      BY <3>2
    <3> DEFINE h == [i \in 1 .. k |-> IF i = k THEN Step(g, k) ELSE g[i]]
    <3>4. Step(g, k) \in Seq(Node)
      <4>1. k = 1 \/ k - 1 \in 1 .. (k - 1)
        BY <3>1
      <4> QED BY <1>1, <3>1, <3>3, <4>1, ConcatProperties
    <3>5. h \in [1 .. k -> Seq(Node)]
      BY <3>1, <3>3, <3>4
    <3>6. ASSUME NEW i \in 1 .. k PROVE h[i] = Step(h, i)
      <4>1. i # 1 => i - 1 \in 1 .. (k - 1) /\ i - 1 # k
        BY <3>1
      <4>2. i # 1 => h[i - 1] = g[i - 1]
        BY <3>1, <4>1
      <4>3. Step(h, i) = Step(g, i)
        BY <4>2
      <4>4. i # k => i \in 1 .. (k - 1)
        BY <3>1
      <4> QED BY <3>1, <3>3, <4>3, <4>4
    <3> HIDE DEF h
    <3>7. h \in B(k)
      BY <3>5, <3>6
    <3> QED BY <2>2, <3>7
  <2> QED BY <2>3, <2>4
<1>3. flatten \in B(n)
  <2>1. PICK f \in [1 .. n -> Seq(Node)] : \A i \in 1 .. n : f[i] = Step(f, i)
    <3>1. B(n) # {}
      <4>1. n \in 0 .. n
        BY <1>1
      <4> HIDE DEF B, n
      <4> QED BY <1>2, <4>1
    <3> HIDE DEF n
    <3> QED BY <3>1
  <2>2. f = [i \in 1 .. n |-> Step(f, i)]
    BY <2>1
  <2>3. flatten = [i \in 1 .. n |-> Step(flatten, i)]
    <3> HIDE DEF n
    <3> QED BY <2>2
  <2> DEFINE Untyped == { i \in 1 .. n : flatten[i] \notin Seq(Node) }
  <2> HIDE DEF flatten
  <2>4. Untyped = {}
    <3>1. SUFFICES ASSUME Untyped # {} PROVE FALSE
      OBVIOUS
    <3>2. PICK i \in Untyped : \A y \in Untyped : i <= y
      <4>1. Untyped \subseteq Nat
        OBVIOUS
      <4> HIDE DEF Untyped
      <4> QED BY <3>1, <4>1, LeastNatural
    <3>3. i \in 1 .. n /\ flatten[i] = Step(flatten, i) /\ i # 1
      BY <1>1, <2>3
    <3>4. i - 1 \in 1 .. n /\ ~ (i <= i - 1)
      BY <3>3
    <3>5. flatten[i - 1] \in Seq(Node)
      <4>1. i - 1 \notin Untyped
        <5> HIDE DEF Untyped
        <5> QED BY <3>2, <3>4
      <4> QED BY <3>4, <4>1
    <3> QED BY <1>1, <3>3, <3>5, ConcatProperties
  <2>5. flatten \in [1 .. n -> Seq(Node)]
    BY <2>3, <2>4
  <2> QED BY <2>3, <2>5
<1>4. FlattenSeq(cs) = flatten[n]
  BY DEF FlattenSeq
<1>5. 1 \in 1 .. n
  BY <1>1
<1> HIDE DEF flatten
<1> QED BY <1>3, <1>4, <1>5

LEMMA ChildrenOfAreNodes ==
  ASSUME Parsed, NEW ns \in Seq(Node)
  PROVE  ChildrenOf(ns) \in Seq(Node)
<1> DEFINE cs == [i \in DOMAIN ns |-> Children(ns[i])]
<1>1. cs \in Seq(Seq(Node))
  <2>1. Len(ns) \in Nat /\ DOMAIN ns = 1 .. Len(ns) /\ \A i \in 1 .. Len(ns) : ns[i] \in Node
    OBVIOUS
  <2>2. cs \in [1 .. Len(ns) -> Seq(Node)]
    BY <2>1, ChildrenAreNodes
  <2> HIDE DEF cs
  <2> QED BY <2>1, <2>2
<1>2. ChildrenOf(ns) = FlattenSeq(cs)
  BY DEF ChildrenOf
<1> HIDE DEF cs
<1>3. CASE Len(cs) = 0
  <2>1. cs = << >> /\ << >> \in Seq(Node)
    BY <1>1, <1>3
  <2> QED BY <1>2, <1>3, <2>1 DEF FlattenSeq
<1>4. CASE Len(cs) # 0
  <2>1. Len(cs) \in 1 .. Len(cs)
    BY <1>1, <1>4
  <2>2. PICK f \in [1 .. Len(cs) -> Seq(Node)] : FlattenSeq(cs) = f[Len(cs)]
    BY <1>1, <1>4, FlattenIs
  <2> QED BY <1>2, <2>1, <2>2
<1> QED BY <1>3, <1>4

LEMMA EnqueuedAreItems ==
  ASSUME NEW ns \in Seq(Node)
  PROVE  Enqueued(ns) \in Seq(WorkItem) /\ \A i \in DOMAIN Enqueued(ns) : Enqueued(ns)[i].parentFlow = NoFlow
<1>1. Reverse(ns) \in Seq(Node)
  <2>1. \A i \in 1 .. Len(ns) : (Len(ns) - i) + 1 \in 1 .. Len(ns)
    OBVIOUS
  <2> QED BY <2>1 DEF Reverse
<1>2. \A n \in Node : Item(n, NoFlow) \in WorkItem /\ Item(n, NoFlow).parentFlow = NoFlow
  BY DEF Item, NoFlow, WorkItem
<1> DEFINE back == Reverse(ns)
<1>3. Enqueued(ns) = [i \in DOMAIN back |-> Item(back[i], NoFlow)]
  BY DEF Enqueued
<1> HIDE DEF back
<1>4. back \in Seq(Node)
  BY <1>1 DEF back
<1> QED BY <1>2, <1>3, <1>4

LEMMA PipeTransformationsAreSteps ==
  ASSUME Parsed, NEW n \in Node, kind(n) \in PipeKind \cup {"effectFn"}
  PROVE  /\ PipeTransformations(n) \in Seq(Steplike) /\ Len(PipeTransformations(n)) = Len(args(n))
         /\ \A i \in DOMAIN args(n) : PipeTransformations(n)[i] = PipeTransformation(kind(n), args(n)[i])
<1>1. \A i \in DOMAIN args(n) : PipeTransformation(kind(n), args(n)[i]) \in Steplike
  <2> SUFFICES ASSUME NEW i \in DOMAIN args(n) PROVE PipeTransformation(kind(n), args(n)[i]) \in Steplike
    OBVIOUS
  <2>1. args(n)[i] \in Node
    BY Members
  <2> DEFINE m == args(n)[i]
  <2> HIDE DEF m
  <2>2. m \in Node
    BY <2>1 DEF m
  <2>3. PipeTransformation(kind(n), m) \in Steplike
    BY <2>2, Members DEF PipeTransformation, Transformation, Steplike
  <2> QED BY <2>3 DEF m
<1>2. args(n) \in Seq(Node)
  BY Members
<1> QED BY <1>1, <1>2 DEF PipeTransformations

LEMMA ExtendIsUnfinished ==
  ASSUME NEW flow \in Seq(Unfinished), NEW n \in Node, NEW transformations \in Seq(Steplike)
  PROVE  Extend(flow, n, transformations) \in Seq(Unfinished)
<1>1. CASE flow = NoFlow
  BY <1>1 DEF Extend, NoFlow, Unfinished
<1>2. CASE flow # NoFlow
  <2>1. flow[1] \in Unfinished
    BY <1>2 DEF NoFlow
  <2>2. transformations \o flow[1].transformations \in Seq(Steplike)
    BY <2>1, ConcatProperties DEF Unfinished
  <2>3. [flow[1] EXCEPT !.transformations = transformations \o @] \in Unfinished
    BY <2>1, <2>2 DEF Unfinished
  <2> QED BY <1>2, <2>3 DEF Extend
<1> QED BY <1>1, <1>2

LEMMA HeadTyped ==
  ASSUME Typed, queue # << >>
  PROVE  node \in Node /\ parentFlow \in Seq(Unfinished) /\ Tail(queue) \in Seq(WorkItem)
<1>1. queue \in Seq(WorkItem)
  BY TypeOKIs DEF Typed
<1>2. Head(queue) \in WorkItem /\ Tail(queue) \in Seq(WorkItem)
  BY <1>1
<1> QED BY <1>2 DEF node, parentFlow, WorkItem

LEMMA FinalizedTyped ==
  ASSUME Typed, queue # << >>
  PROVE  Finalized(node) \in Seq(Finished)
<1>1. node \in Node /\ parentFlow \in Seq(Unfinished)
  BY HeadTyped
<1> DEFINE n == node
           p == parentFlow
<1>2. Finalized(n) = [i \in DOMAIN p |-> Flow(p[i].node, n, p[i].transformations)]
  BY DEF Finalized
<1> HIDE DEF n, p
<1>3. n \in Node /\ p \in Seq(Unfinished)
  BY <1>1 DEF n, p
<1>4. \A i \in DOMAIN p : Flow(p[i].node, n, p[i].transformations) \in Finished
  <2> SUFFICES ASSUME NEW i \in DOMAIN p PROVE Flow(p[i].node, n, p[i].transformations) \in Finished
    OBVIOUS
  <2>1. p[i] \in Unfinished
    BY <1>3
  <2>2. p[i].node \in Node /\ p[i].transformations \in Seq(Steplike)
    BY <2>1 DEF Unfinished
  <2> QED BY <1>3, <2>2 DEF Finished, Flow
<1>5. Finalized(n) \in Seq(Finished)
  BY <1>2, <1>3, <1>4
<1> QED BY <1>5 DEF n

LEMMA TypedNext ==
  ASSUME Parsed', pc' \in {"search", "done"}, queue' \in Seq(WorkItem), result' \in Seq(Finished),
         pc' = "done" => queue' = << >>
  PROVE  Typed'
<1>1. source' \in [Node -> Expression] /\ includeEffectFn' \in BOOLEAN
  BY DEF Parsed
<1>2. TypeOK' <=> /\ source' \in [Node -> Expression] /\ includeEffectFn' \in BOOLEAN
                  /\ pc' \in {"search", "done"}
                  /\ queue' \in Seq(WorkItem) /\ result' \in Seq(Finished)
                  /\ pc' = "done" => queue' = << >>
  BY DEF TypeOK, Steplike, Unfinished, Finished, WorkItem
<1> QED BY <1>1, <1>2 DEF Typed

LEMMA ContinueTyped ==
  ASSUME Typed, queue # << >>, Parsed', pc = "search",
         NEW n \in Node, NEW at \in Node, NEW transformations \in Seq(Steplike), NEW inner \in Seq(Node),
         Continue(n, at, transformations, inner)
  PROVE  Typed'
<1>1. parentFlow \in Seq(Unfinished) /\ Tail(queue) \in Seq(WorkItem)
  BY HeadTyped
<1>2. Extend(parentFlow, n, transformations) \in Seq(Unfinished)
  BY <1>1, ExtendIsUnfinished
<1>3. Item(at, Extend(parentFlow, n, transformations)) \in WorkItem
  BY <1>2 DEF Item, WorkItem
<1>4. Enqueued(inner) \in Seq(WorkItem)
  BY EnqueuedAreItems
<1> DEFINE next == Item(at, Extend(parentFlow, n, transformations))
<1>5. queue' = Enqueued(inner) \o << next >> \o Tail(queue) /\ pc' = pc /\ result' = result
  BY DEF Continue
<1> HIDE DEF next
<1>6. next \in WorkItem
  BY <1>3 DEF next
<1>7. queue' \in Seq(WorkItem)
  BY <1>1, <1>4, <1>5, <1>6, ConcatProperties
<1>8. result \in Seq(Finished)
  BY TypeOKIs DEF Typed
<1> QED BY <1>5, <1>7, <1>8, TypedNext

LEMMA VisitEffectFnTyped ==
  ASSUME Typed, Parsed', VisitEffectFn
  PROVE  Typed'
<1>1. queue # << >> /\ node \in Node /\ parentFlow \in Seq(Unfinished) /\ Tail(queue) \in Seq(WorkItem)
  BY HeadTyped DEF VisitEffectFn, Searching
<1>2. kind(node) = "effectFn" /\ Parsed
  BY DEF VisitEffectFn, IsEffectFn, Typed
<1>3. subject(node) \in Node /\ args(node) \in Seq(Node)
  BY <1>1, <1>2, Members
<1>4. ChildrenOf(<< subject(node) >> \o args(node)) \in Seq(Node)
  <2>1. << subject(node) >> \o args(node) \in Seq(Node)
    BY <1>3
  <2> QED BY <1>2, <2>1, ChildrenOfAreNodes
<1>5. queue' \in Seq(WorkItem)
  <2>1. Enqueued(ChildrenOf(<< subject(node) >> \o args(node))) \in Seq(WorkItem)
    BY <1>4, EnqueuedAreItems
  <2> QED BY <1>1, <2>1, ConcatProperties DEF VisitEffectFn
<1>6. Flow(node, node, PipeTransformations(node)) \in Finished
  <2>1. PipeTransformations(node) \in Seq(Steplike)
    BY <1>1, <1>2, PipeTransformationsAreSteps
  <2> QED BY <1>1, <2>1 DEF Flow, Finished
<1>7. result' \in Seq(Finished)
  <2>1. result \in Seq(Finished)
    BY TypeOKIs DEF Typed
  <2>2. Append(result, Flow(node, node, PipeTransformations(node))) \in Seq(Finished)
    BY <1>6, <2>1, AppendProperties
  <2>3. Finalized(node) \in Seq(Finished)
    BY <1>1, FinalizedTyped
  <2> QED BY <2>2, <2>3, ConcatProperties DEF VisitEffectFn
<1>8. pc' = "search"
  BY DEF VisitEffectFn, Searching
<1> QED BY <1>5, <1>7, <1>8, TypedNext

LEMMA VisitPipeTyped ==
  ASSUME Typed, Parsed', VisitPipe
  PROVE  Typed'
<1>1. queue # << >> /\ node \in Node /\ pc = "search" /\ kind(node) \in PipeKind /\ Parsed
  BY HeadTyped DEF VisitPipe, Searching, Typed
<1>2. subject(node) \in Node /\ ChildrenOf(args(node)) \in Seq(Node)
  BY <1>1, Members, ChildrenOfAreNodes
<1>3. PipeTransformations(node) \in Seq(Steplike)
  BY <1>1, PipeTransformationsAreSteps
<1> QED BY <1>1, <1>2, <1>3, ContinueTyped DEF VisitPipe

\* What a data first or data last call applies.
DataStep(n) == Transformation(kind(n), n, source[n].callee, args(n))

\* What f(x) applies.
CallStep(n) == Transformation("call", n, source[n].callee, << >>)

LEMMA StepsTyped ==
  ASSUME Parsed, NEW n \in Node
  PROVE  /\ kind(n) \in DataKind => << DataStep(n) >> \in Seq(Steplike)
         /\ kind(n) = "call" => << CallStep(n) >> \in Seq(Steplike)
<1>1. kind(n) \in DataKind => DataStep(n) \in Steplike
  BY Members DEF DataStep, Transformation, Steplike
<1>2. kind(n) = "call" => CallStep(n) \in Steplike
  BY Members DEF CallStep, Transformation, Steplike
<1> QED BY <1>1, <1>2

LEMMA VisitDataTyped ==
  ASSUME Typed, Parsed', VisitDataFirstOrLast
  PROVE  Typed'
<1>1. queue # << >> /\ node \in Node /\ pc = "search" /\ kind(node) \in DataKind /\ Parsed
  BY HeadTyped DEF VisitDataFirstOrLast, Searching, Typed
<1>2. subject(node) \in Node /\ args(node) \in Seq(Node) /\ source[node].callee \in Node
  BY <1>1, Members
<1>3. << source[node].callee >> \o args(node) \in Seq(Node)
  BY <1>2
<1>4. ChildrenOf(<< source[node].callee >> \o args(node)) \in Seq(Node)
  BY <1>1, <1>3, ChildrenOfAreNodes
<1>5. << DataStep(node) >> \in Seq(Steplike)
  BY <1>1, StepsTyped
<1>6. Continue(node, subject(node), << DataStep(node) >>, ChildrenOf(<< source[node].callee >> \o args(node)))
  BY DEF VisitDataFirstOrLast, DataStep
<1> QED BY <1>1, <1>2, <1>4, <1>5, <1>6, ContinueTyped

LEMMA VisitSingleTyped ==
  ASSUME Typed, Parsed', VisitSingleArgCall
  PROVE  Typed'
<1>1. /\ queue # << >> /\ node \in Node /\ pc = "search" /\ Parsed
      /\ kind(node) = "call" /\ Len(args(node)) = 1
  BY HeadTyped DEF VisitSingleArgCall, Searching, ParseSingleArgCall, Typed
<1>2. args(node)[1] \in Node /\ source[node].callee \in Node
  BY <1>1, Members
<1>3. Children(source[node].callee) \in Seq(Node)
  BY <1>1, <1>2, ChildrenAreNodes
<1>4. << CallStep(node) >> \in Seq(Steplike)
  BY <1>1, StepsTyped
<1>5. Continue(node, args(node)[1], << CallStep(node) >>, Children(source[node].callee))
  BY DEF VisitSingleArgCall, CallStep
<1> QED BY <1>1, <1>2, <1>3, <1>4, <1>5, ContinueTyped

LEMMA VisitOtherTyped ==
  ASSUME Typed, Parsed', VisitOther
  PROVE  Typed'
<1>1. queue # << >> /\ node \in Node /\ Tail(queue) \in Seq(WorkItem) /\ pc = "search" /\ Parsed
  BY HeadTyped DEF VisitOther, Searching, Typed
<1>2. queue' \in Seq(WorkItem)
  <2>1. Enqueued(Children(node)) \in Seq(WorkItem)
    BY <1>1, ChildrenAreNodes, EnqueuedAreItems
  <2> QED BY <1>1, <2>1, ConcatProperties DEF VisitOther
<1>3. result' \in Seq(Finished)
  <2>1. result \in Seq(Finished)
    BY TypeOKIs DEF Typed
  <2>2. Finalized(node) \in Seq(Finished)
    BY <1>1, FinalizedTyped
  <2> QED BY <2>1, <2>2, ConcatProperties DEF VisitOther
<1>4. pc' = "search"
  BY <1>1 DEF VisitOther
<1> QED BY <1>2, <1>3, <1>4, TypedNext

\* Sorting keeps every flow, and adds none.
LEMMA FinishKeeps ==
  ASSUME Typed, Finish
  PROVE  /\ result' \in Seq(Finished)
         /\ \A i \in DOMAIN result' : \E j \in DOMAIN result : result'[i] = result[j]
<1>1. result \in Seq(Finished)
  BY TypeOKIs DEF Typed
<1>2. PICK from \in Bijection(DOMAIN result, DOMAIN result) : result' = [i \in DOMAIN result |-> result[from[i]]]
  BY DEF Finish
<1>3. from \in [DOMAIN result -> DOMAIN result]
  BY DEF Bijection, Injection
<1> QED BY <1>1, <1>2, <1>3

LEMMA FinishTyped ==
  ASSUME Typed, Parsed', Finish
  PROVE  Typed'
<1>1. result' \in Seq(Finished) /\ pc' = "done" /\ queue' = << >> /\ queue = << >>
  BY FinishKeeps DEF Finish
<1> QED BY <1>1, TypedNext

LEMMA InputKept ==
  ASSUME Parsed, [Next]_vars
  PROVE  source' = source /\ includeEffectFn' = includeEffectFn /\ Parsed'
<1>1. source' = source /\ includeEffectFn' = includeEffectFn
  BY DEF Next, VisitEffectFn, VisitPipe, VisitDataFirstOrLast, VisitSingleArgCall, VisitOther, Finish,
         Continue, vars, input
<1>2. (Tree(source)' <=> Tree(source)) /\ (Parses(source)' <=> Parses(source))
  BY <1>1 DEF Tree, Parses
<1> QED BY <1>1, <1>2 DEF Parsed

LEMMA InitTyped ==
  ASSUME Init
  PROVE  Typed
<1>1. Parsed
  BY InputsType DEF Init, Parsed
<1>2. queue \in Seq(WorkItem)
  <2>1. << File >> \in Seq(Node)
    BY Numbered
  <2> QED BY <2>1, EnqueuedAreItems DEF Init
<1>3. result \in Seq(Finished)
  BY DEF Init
<1> QED BY <1>1, <1>2, <1>3, TypeOKIs DEF Init, Parsed, Typed

LEMMA NextTyped ==
  ASSUME Typed, [Next]_vars
  PROVE  Typed'
<1>1. Parsed'
  BY InputKept DEF Typed
<1>2. CASE VisitEffectFn
  BY <1>1, <1>2, VisitEffectFnTyped
<1>3. CASE VisitPipe
  BY <1>1, <1>3, VisitPipeTyped
<1>4. CASE VisitDataFirstOrLast
  BY <1>1, <1>4, VisitDataTyped
<1>5. CASE VisitSingleArgCall
  BY <1>1, <1>5, VisitSingleTyped
<1>6. CASE VisitOther
  BY <1>1, <1>6, VisitOtherTyped
<1>7. CASE Finish
  BY <1>1, <1>7, FinishTyped
<1>8. CASE UNCHANGED vars
  <2>1. result' = result /\ queue' = queue /\ pc' = pc
    BY <1>8 DEF vars
  <2>2. result \in Seq(Finished) /\ queue \in Seq(WorkItem) /\ pc \in {"search", "done"} /\ (pc = "done" => queue = << >>)
    BY TypeOKIs DEF Typed
  <2> QED BY <1>1, <2>1, <2>2, TypedNext
<1> QED BY <1>2, <1>3, <1>4, <1>5, <1>6, <1>7, <1>8 DEF Next

(***************************************************************************)
(* The type invariant, for every source.                                   *)
(***************************************************************************)
THEOREM TypeCorrect == Spec => []TypeOK
<1>1. Init => Typed
  BY InitTyped
<1>2. Typed /\ [Next]_vars => Typed'
  BY NextTyped
<1>3. Typed => TypeOK
  BY DEF Typed
<1> QED BY <1>1, <1>2, <1>3, PTL DEF Spec

-----------------------------------------------------------------------------
(***************************************************************************)
(* The recursive functions exist, so that each satisfies its equation.     *)
(***************************************************************************)
LEMMA AfterIs ==
  ASSUME NEW x, NEW fs, Len(fs) \in Nat
  PROVE  /\ DOMAIN After(x, fs) = 0 .. Len(fs) /\ After(x, fs)[0] = x
         /\ \A i \in 1 .. Len(fs) : After(x, fs)[i] = Apply(fs[i], << After(x, fs)[i - 1] >>)
<1> DEFINE n == Len(fs)
           Step(f, i) == IF i = 0 THEN x ELSE Apply(fs[i], << f[i - 1] >>)
           Missing == { k \in 0 .. n : ~ \E f : f = [i \in 0 .. k |-> Step(f, i)] }
           after == CHOOSE f : f = [i \in 0 .. n |-> Step(f, i)]
<1> HIDE DEF Step, Missing, n
<1>0. n \in Nat
  BY DEF n
<1>1. Missing = {}
  <2>1. SUFFICES ASSUME Missing # {} PROVE FALSE
    OBVIOUS
  <2>2. PICK k \in Missing : \A y \in Missing : k <= y
    <3>1. Missing \subseteq Nat
      BY DEF Missing
    <3> QED BY <2>1, <3>1, LeastNatural
  <2>3. k \in 0 .. n /\ ~ \E f : f = [i \in 0 .. k |-> Step(f, i)]
    BY DEF Missing
  <2>4. CASE k = 0
    <3> DEFINE h == [i \in 0 .. 0 |-> x]
    <3>1. \A i \in 0 .. 0 : Step(h, i) = x
      BY DEF Step
    <3>2. h = [i \in 0 .. 0 |-> Step(h, i)]
      <4> HIDE DEF h
      <4>1. h = [i \in 0 .. 0 |-> x]
        BY DEF h
      <4> QED BY <3>1, <4>1
    <3> QED BY <2>3, <2>4, <3>2
  <2>5. CASE k # 0
    <3>1. k - 1 \in 0 .. n /\ ~ (k <= k - 1)
      BY <1>0, <2>3, <2>5
    <3>2. PICK g : g = [i \in 0 .. (k - 1) |-> Step(g, i)]
      BY <2>2, <3>1 DEF Missing
    <3> DEFINE h == [i \in 0 .. k |-> IF i = k THEN Step(g, k) ELSE g[i]]
    <3>3. ASSUME NEW i \in 0 .. k PROVE h[i] = Step(h, i)
      <4>1. i # 0 => i - 1 \in 0 .. k /\ i - 1 # k
        BY <2>3
      <4>2. i # 0 => h[i - 1] = g[i - 1]
        BY <4>1
      <4>3. Step(h, i) = Step(g, i)
        <5> HIDE DEF h
        <5> QED BY <4>2 DEF Step
      <4>4. i # k => i \in 0 .. (k - 1)
        BY <2>3
      <4>5. i # k => g[i] = Step(g, i)
        BY <3>2, <4>4
      <4>6. h[i] = Step(g, i)
        BY <4>5
      <4> QED BY <4>3, <4>6
    <3>4. h = [i \in 0 .. k |-> Step(h, i)]
      <4>1. h = [i \in 0 .. k |-> h[i]]
        OBVIOUS
      <4> HIDE DEF h
      <4> QED BY <3>3, <4>1
    <3> QED BY <2>3, <3>4
  <2> QED BY <2>4, <2>5
<1>2. after = [i \in 0 .. n |-> Step(after, i)]
  <2>1. n \in 0 .. n
    BY <1>0
  <2>2. \E f : f = [i \in 0 .. n |-> Step(f, i)]
    BY <1>1, <2>1 DEF Missing
  <2> QED BY <2>2
<1>3. After(x, fs) = after
  BY DEF After, Step, n
<1> HIDE DEF after
<1>4. DOMAIN after = 0 .. n /\ 0 \in 0 .. n /\ \A i \in 0 .. n : after[i] = Step(after, i)
  BY <1>0, <1>2
<1>5. after[0] = x /\ \A i \in 1 .. n : after[i] = Apply(fs[i], << after[i - 1] >>)
  <2>1. \A i \in 1 .. n : i \in 0 .. n /\ i # 0
    BY <1>0
  <2> QED BY <1>4, <2>1 DEF Step
<1> QED BY <1>3, <1>4, <1>5 DEF n

\* What comes of x after fs and then gs.
LEMMA AfterConcat ==
  ASSUME NEW x, NEW fs, NEW gs, NEW hs,
         Len(fs) \in Nat, Len(gs) \in Nat, Len(hs) = Len(fs) + Len(gs),
         \A i \in 1 .. Len(fs) : hs[i] = fs[i],
         \A i \in 1 .. Len(gs) : hs[Len(fs) + i] = gs[i]
  PROVE  \A k \in 0 .. Len(gs) : After(x, hs)[Len(fs) + k] = After(Piped(x, fs), gs)[k]
<1> DEFINE m == Len(fs)
           n == Len(gs)
           a == After(x, hs)
           b == After(x, fs)
           c == After(Piped(x, fs), gs)
<1>1. /\ a[0] = x /\ \A i \in 1 .. (m + n) : a[i] = Apply(hs[i], << a[i - 1] >>)
      /\ b[0] = x /\ \A i \in 1 .. m : b[i] = Apply(fs[i], << b[i - 1] >>)
      /\ c[0] = b[m] /\ \A i \in 1 .. n : c[i] = Apply(gs[i], << c[i - 1] >>)
  <2>1. Len(hs) \in Nat /\ Len(hs) = m + n
    OBVIOUS
  <2>2. a[0] = x /\ \A i \in 1 .. Len(hs) : a[i] = Apply(hs[i], << a[i - 1] >>)
    BY <2>1, AfterIs
  <2>3. b[0] = x /\ \A i \in 1 .. m : b[i] = Apply(fs[i], << b[i - 1] >>)
    BY AfterIs
  <2>4. c[0] = Piped(x, fs) /\ \A i \in 1 .. n : c[i] = Apply(gs[i], << c[i - 1] >>)
    BY AfterIs
  <2>5. Piped(x, fs) = b[m]
    BY DEF Piped
  <2> HIDE DEF a, b, c, m, n
  <2> QED BY <2>1, <2>2, <2>3, <2>4, <2>5
<1> HIDE DEF a, b, c
<1>2. \A i \in 0 .. m : a[i] = b[i]
  <2> DEFINE Differ == { i \in 0 .. m : a[i] # b[i] }
  <2>1. SUFFICES ASSUME Differ # {} PROVE FALSE
    OBVIOUS
  <2>2. PICK i \in Differ : \A y \in Differ : i <= y
    <3>1. Differ \subseteq Nat
      OBVIOUS
    <3> HIDE DEF Differ
    <3> QED BY <2>1, <3>1, LeastNatural
  <2>3. i # 0
    BY <1>1
  <2>4. i \in 1 .. m /\ i - 1 \in 0 .. m /\ ~ (i <= i - 1) /\ i \in 1 .. (m + n)
    BY <2>3
  <2>5. a[i - 1] = b[i - 1]
    <3>1. i - 1 \notin Differ
      <4> HIDE DEF Differ
      <4> QED BY <2>2, <2>4
    <3> QED BY <2>4, <3>1
  <2> QED BY <1>1, <2>4, <2>5
<1>3. \A i \in 0 .. n : a[m + i] = c[i]
  <2> DEFINE Differ == { i \in 0 .. n : a[m + i] # c[i] }
  <2>1. SUFFICES ASSUME Differ # {} PROVE FALSE
    OBVIOUS
  <2>2. PICK i \in Differ : \A y \in Differ : i <= y
    <3>1. Differ \subseteq Nat
      OBVIOUS
    <3> HIDE DEF Differ
    <3> QED BY <2>1, <3>1, LeastNatural
  <2>3. i # 0
    <3>1. a[m + 0] = b[m]
      BY <1>2
    <3> QED BY <1>1, <3>1
  <2>4. i \in 1 .. n /\ i - 1 \in 0 .. n /\ ~ (i <= i - 1) /\ m + i \in 1 .. (m + n) /\ (m + i) - 1 = m + (i - 1)
    BY <2>3
  <2>5. a[m + (i - 1)] = c[i - 1]
    <3>1. i - 1 \notin Differ
      <4> HIDE DEF Differ
      <4> QED BY <2>2, <2>4
    <3> QED BY <2>4, <3>1
  <2>6. hs[m + i] = gs[i]
    BY <2>4
  <2>7. a[m + i] = Apply(gs[i], << a[m + (i - 1)] >>)
    BY <1>1, <2>4, <2>6
  <2>8. c[i] = Apply(gs[i], << c[i - 1] >>)
    BY <1>1, <2>4
  <2> QED BY <2>5, <2>7, <2>8
<1> QED BY <1>3 DEF a, c

LEMMA ChildrenAreInside ==
  ASSUME Parsed, NEW n \in Node, NEW i \in DOMAIN Children(n)
  PROVE  Children(n)[i] \in Node /\ Children(n)[i] > n
<1> DEFINE Later == { m \in Node : m > n }
<1>1. \A m \in Node \cup {0} : (m # 0 => m > n) => Known(m) \in Seq(Later)
  <2> SUFFICES ASSUME NEW m \in Node \cup {0}, m # 0 => m > n PROVE Known(m) \in Seq(Later)
    OBVIOUS
  <2>1. m # 0 => m \in Later
    OBVIOUS
  <2> HIDE DEF Later
  <2> QED BY <2>1 DEF Known
<1>2. Known(source[n].callee) \in Seq(Later) /\ Known(subject(n)) \in Seq(Later)
  BY <1>1, Members
<1>3. args(n) \in Seq(Later)
  <2>1. args(n) \in Seq(Node) /\ \A j \in DOMAIN args(n) : args(n)[j] \in Later
    BY Members
  <2> HIDE DEF Later
  <2> QED BY <2>1
<1> HIDE DEF Later
<1>4. Children(n) \in Seq(Later)
  BY <1>2, <1>3, ConcatProperties DEF Children
<1>5. Children(n)[i] \in Later
  BY <1>4
<1> QED BY <1>5 DEF Later

\* What an expression means depends on what is in it.
LEMMA MeaningFromInside ==
  ASSUME Parsed, NEW n \in Node, NEW f, NEW g, \A m \in Node : m > n => f[m] = g[m]
  PROVE  MeaningFrom(f, n) = MeaningFrom(g, n)
<1> DEFINE All(h, ns) == [i \in DOMAIN ns |-> h[ns[i]]]
           From(h) == CASE kind(n) = "call"      -> Apply(h[source[n].callee], All(h, args(n)))
                       [] kind(n) \in PipeKind -> Piped(h[subject(n)], All(h, args(n)))
                       [] kind(n) \in DataKind -> Apply(Apply(h[source[n].callee], All(h, args(n))), << h[subject(n)] >>)
                       [] OTHER                -> Term(n, All(h, Children(n)))
<1>1. All(f, args(n)) = All(g, args(n))
  <2>1. \A i \in DOMAIN args(n) : f[args(n)[i]] = g[args(n)[i]]
    BY Members
  <2> QED BY <2>1
<1>2. All(f, Children(n)) = All(g, Children(n))
  <2>1. \A i \in DOMAIN Children(n) : f[Children(n)[i]] = g[Children(n)[i]]
    BY ChildrenAreInside
  <2> QED BY <2>1
<1>3. kind(n) \in {"call"} \cup DataKind => f[source[n].callee] = g[source[n].callee]
  <2>1. kind(n) \in {"call"} \cup DataKind => source[n].callee \in Node /\ source[n].callee > n
    BY Members, Numbered
  <2> QED BY <2>1
<1>4. kind(n) \in PipeKind \cup DataKind => f[subject(n)] = g[subject(n)]
  <2>1. kind(n) \in PipeKind \cup DataKind => subject(n) \in Node /\ subject(n) > n
    BY Members, Numbered
  <2> QED BY <2>1
<1>5. \A h : MeaningFrom(h, n) = From(h)
  BY DEF MeaningFrom
<1> HIDE DEF All
<1>6. From(f) = From(g)
  <2>1. CASE kind(n) = "call"
    BY <1>1, <1>3, <2>1 DEF PipeKind, DataKind
  <2>2. CASE kind(n) \in PipeKind
    BY <1>1, <1>4, <2>2 DEF PipeKind, DataKind
  <2>3. CASE kind(n) \in DataKind
    BY <1>1, <1>3, <1>4, <2>3 DEF PipeKind, DataKind
  <2>4. CASE kind(n) # "call" /\ kind(n) \notin PipeKind \cup DataKind
    BY <1>2, <2>4
  <2> QED BY <2>1, <2>2, <2>3, <2>4
<1> HIDE DEF From
<1> QED BY <1>5, <1>6

LEMMA MeaningIs ==
  ASSUME Parsed
  PROVE  \E of : of = [n \in Node |-> MeaningFrom(of, n)] /\ \A n \in Node : Meaning(n) = of[n]
<1> DEFINE N == Cardinality(Node)
           Missing == { k \in 0 .. N : ~ \E f : f = [m \in (N - k + 1) .. N |-> MeaningFrom(f, m)] }
           of == CHOOSE f : f = [m \in Node |-> MeaningFrom(f, m)]
<1> HIDE DEF N, Missing
<1>0. N \in Nat /\ Node = 1 .. N
  BY Numbered DEF N
<1>1. Missing = {}
  <2>1. SUFFICES ASSUME Missing # {} PROVE FALSE
    OBVIOUS
  <2>2. PICK k \in Missing : \A y \in Missing : k <= y
    <3>1. Missing \subseteq Nat
      BY DEF Missing
    <3> QED BY <2>1, <3>1, LeastNatural
  <2>3. k \in 0 .. N /\ ~ \E f : f = [m \in (N - k + 1) .. N |-> MeaningFrom(f, m)]
    BY DEF Missing
  <2>4. CASE k = 0
    <3> DEFINE h == [m \in {} |-> 0]
    <3>1. (N - 0 + 1) .. N = {}
      BY <1>0
    <3>2. h = [m \in {} |-> MeaningFrom(h, m)]
      OBVIOUS
    <3> HIDE DEF h
    <3> QED BY <2>3, <2>4, <3>1, <3>2
  <2>5. CASE k # 0
    <3>1. k - 1 \in 0 .. N /\ ~ (k <= k - 1)
      BY <1>0, <2>3, <2>5
    <3>2. PICK g : g = [m \in (N - (k - 1) + 1) .. N |-> MeaningFrom(g, m)]
      BY <2>2, <3>1 DEF Missing
    <3> DEFINE n == N - k + 1
               h == [m \in n .. N |-> IF m = n THEN MeaningFrom(g, n) ELSE g[m]]
    <3>3. n \in Node /\ N - (k - 1) + 1 = n + 1
      BY <1>0, <2>3, <2>5
    <3>4. ASSUME NEW m \in n .. N PROVE h[m] = MeaningFrom(h, m)
      <4>1. m \in Node /\ \A l \in Node : l > m => l \in n .. N /\ l # n
        BY <1>0, <3>3
      <4>2. \A l \in Node : l > m => h[l] = g[l]
        BY <4>1
      <4>3. MeaningFrom(h, m) = MeaningFrom(g, m)
        <5> HIDE DEF h, n
        <5> QED BY <4>1, <4>2, MeaningFromInside
      <4>4. m # n => m \in (N - (k - 1) + 1) .. N
        BY <1>0, <3>3
      <4>5. m # n => g[m] = MeaningFrom(g, m)
        <5> HIDE DEF n
        <5> QED BY <3>2, <4>4
      <4>6. h[m] = MeaningFrom(g, m)
        <5>1. h[m] = IF m = n THEN MeaningFrom(g, n) ELSE g[m]
          OBVIOUS
        <5> HIDE DEF h, n
        <5> QED BY <4>5, <5>1
      <4> HIDE DEF h
      <4> QED BY <4>3, <4>6
    <3>5. h = [m \in n .. N |-> MeaningFrom(h, m)]
      <4>1. h = [m \in n .. N |-> h[m]]
        OBVIOUS
      <4> HIDE DEF h, n
      <4> QED BY <3>4, <4>1
    <3> HIDE DEF h
    <3> QED BY <2>3, <3>5
  <2> QED BY <2>4, <2>5
<1>2. of = [m \in Node |-> MeaningFrom(of, m)]
  <2>1. N \in 0 .. N /\ (N - N + 1) .. N = Node
    BY <1>0
  <2>2. \E f : f = [m \in Node |-> MeaningFrom(f, m)]
    BY <1>1, <2>1 DEF Missing
  <2> QED BY <2>2
<1>3. \A n \in Node : Meaning(n) = of[n]
  BY DEF Meaning
<1> HIDE DEF of
<1> QED BY <1>2, <1>3

\* What calls, pipes and data first calls mean.
LEMMA MeaningByKind ==
  ASSUME Parsed, NEW n \in Node
  PROVE  /\ kind(n) = "call" => Meaning(n) = Apply(Meaning(source[n].callee), Meanings(args(n)))
         /\ kind(n) \in PipeKind => Meaning(n) = Piped(Meaning(subject(n)), Meanings(args(n)))
         /\ kind(n) \in DataKind =>
              Meaning(n) = Apply(Apply(Meaning(source[n].callee), Meanings(args(n))), << Meaning(subject(n)) >>)
<1>1. PICK of : of = [m \in Node |-> MeaningFrom(of, m)] /\ \A m \in Node : Meaning(m) = of[m]
  BY MeaningIs
<1>2. Meaning(n) = MeaningFrom(of, n)
  BY <1>1
<1>3. [i \in DOMAIN args(n) |-> of[args(n)[i]]] = Meanings(args(n))
  <2>1. \A i \in DOMAIN args(n) : Meaning(args(n)[i]) = of[args(n)[i]]
    BY <1>1, Members
  <2> QED BY <2>1 DEF Meanings
<1>4. kind(n) \in {"call"} \cup DataKind => of[source[n].callee] = Meaning(source[n].callee)
  BY <1>1, Members
<1>5. kind(n) \in PipeKind \cup DataKind => of[subject(n)] = Meaning(subject(n))
  BY <1>1, Members
<1>6. kind(n) = "call" => MeaningFrom(of, n) = Apply(of[source[n].callee], [i \in DOMAIN args(n) |-> of[args(n)[i]]])
  BY DEF MeaningFrom, PipeKind, DataKind
<1>7. kind(n) \in PipeKind => MeaningFrom(of, n) = Piped(of[subject(n)], [i \in DOMAIN args(n) |-> of[args(n)[i]]])
  BY DEF MeaningFrom, PipeKind, DataKind
<1>8. kind(n) \in DataKind =>
        MeaningFrom(of, n) = Apply(Apply(of[source[n].callee], [i \in DOMAIN args(n) |-> of[args(n)[i]]]), << of[subject(n)] >>)
  BY DEF MeaningFrom, PipeKind, DataKind
<1> QED BY <1>2, <1>3, <1>4, <1>5, <1>6, <1>7, <1>8

\* One step of the way in.
Inward(flow, k, outer) ==
  IF outer = 0 \/ flow.transformations[k + 1].kind # "call" THEN 0 ELSE FirstArgument(outer)

LEMMA InsideIs ==
  ASSUME NEW flow, Steps(flow) \in Nat
  PROVE  /\ Inside(flow)[Steps(flow)] = flow.node
         /\ \A k \in 0 .. (Steps(flow) - 1) : Inside(flow)[k] = Inward(flow, k, Inside(flow)[k + 1])
<1> DEFINE n == Steps(flow)
           Step(f, k) == IF k = n THEN flow.node
                         ELSE IF f[k + 1] = 0 \/ flow.transformations[k + 1].kind # "call" THEN 0
                         ELSE FirstArgument(f[k + 1])
           Missing == { k \in 0 .. n : ~ \E f : f = [i \in (n - k) .. n |-> Step(f, i)] }
           inside == CHOOSE f : f = [i \in 0 .. n |-> Step(f, i)]
<1> HIDE DEF Step, Missing, n
<1>0. n \in Nat
  BY DEF n
<1>1. Missing = {}
  <2>1. SUFFICES ASSUME Missing # {} PROVE FALSE
    OBVIOUS
  <2>2. PICK k \in Missing : \A y \in Missing : k <= y
    <3>1. Missing \subseteq Nat
      BY DEF Missing
    <3> QED BY <2>1, <3>1, LeastNatural
  <2>3. k \in 0 .. n /\ ~ \E f : f = [i \in (n - k) .. n |-> Step(f, i)]
    BY DEF Missing
  <2>4. CASE k = 0
    <3> DEFINE h == [i \in n .. n |-> flow.node]
    <3>1. \A i \in n .. n : Step(h, i) = flow.node
      BY <1>0 DEF Step
    <3>2. h = [i \in n .. n |-> Step(h, i)]
      <4> HIDE DEF h
      <4>1. h = [i \in n .. n |-> flow.node]
        BY DEF h
      <4> QED BY <3>1, <4>1
    <3>3. n - k = n
      BY <1>0, <2>4
    <3> HIDE DEF h
    <3> QED BY <2>3, <3>2, <3>3
  <2>5. CASE k # 0
    <3>1. k - 1 \in 0 .. n /\ ~ (k <= k - 1)
      BY <1>0, <2>3, <2>5
    <3>2. PICK g : g = [i \in (n - (k - 1)) .. n |-> Step(g, i)]
      BY <2>2, <3>1 DEF Missing
    <3> DEFINE j == n - k
               h == [i \in j .. n |-> IF i = j THEN Step(g, j) ELSE g[i]]
    <3>3. ASSUME NEW i \in j .. n PROVE h[i] = Step(h, i)
      <4>1. i # n => i + 1 \in j .. n /\ i + 1 # j
        BY <1>0, <2>3
      <4>2. i # n => h[i + 1] = g[i + 1]
        BY <4>1
      <4>3. Step(h, i) = Step(g, i)
        <5> HIDE DEF h, j
        <5> QED BY <4>2 DEF Step
      <4>4. i # j => i \in (n - (k - 1)) .. n
        BY <1>0, <2>3
      <4>5. i # j => g[i] = Step(g, i)
        <5> HIDE DEF j
        <5> QED BY <3>2, <4>4
      <4>6. h[i] = Step(g, i)
        <5>1. h[i] = IF i = j THEN Step(g, j) ELSE g[i]
          OBVIOUS
        <5> HIDE DEF h, j
        <5> QED BY <4>5, <5>1
      <4> HIDE DEF h
      <4> QED BY <4>3, <4>6
    <3>4. h = [i \in j .. n |-> Step(h, i)]
      <4>1. h = [i \in j .. n |-> h[i]]
        OBVIOUS
      <4> HIDE DEF h, j
      <4> QED BY <3>3, <4>1
    <3> HIDE DEF h
    <3> QED BY <2>3, <3>4
  <2> QED BY <2>4, <2>5
<1>2. inside = [i \in 0 .. n |-> Step(inside, i)]
  <2>1. n \in 0 .. n /\ n - n = 0
    BY <1>0
  <2>2. \E f : f = [i \in 0 .. n |-> Step(f, i)]
    BY <1>1, <2>1 DEF Missing
  <2> QED BY <2>2
<1>3. Inside(flow) = inside
  BY DEF Inside, Step, n
<1> HIDE DEF inside
<1>4. \A k \in 0 .. n : inside[k] = Step(inside, k)
  BY <1>2
<1>5. inside[n] = flow.node
  BY <1>0, <1>4 DEF Step
<1>6. ASSUME NEW k \in 0 .. (n - 1) PROVE inside[k] = Inward(flow, k, inside[k + 1])
  <2>1. k \in 0 .. n /\ k # n
    BY <1>0
  <2> QED BY <1>4, <2>1 DEF Step, Inward
<1> QED BY <1>3, <1>5, <1>6 DEF n

\* The way in starts at the node, whatever is put before the first transformation.
LEMMA InsideShifted ==
  ASSUME NEW f, NEW g, NEW m \in Nat, Steps(f) \in Nat, Steps(g) = m + Steps(f), g.node = f.node,
         \A i \in 1 .. Steps(f) : g.transformations[m + i] = f.transformations[i]
  PROVE  \A k \in 0 .. Steps(f) : Inside(g)[m + k] = Inside(f)[k]
<1> DEFINE n == Steps(f)
           a == Inside(f)
           b == Inside(g)
           Differ == { i \in 0 .. n : b[m + (n - i)] # a[n - i] }
<1>1. /\ a[n] = f.node /\ \A k \in 0 .. (n - 1) : a[k] = Inward(f, k, a[k + 1])
      /\ b[m + n] = g.node /\ \A k \in 0 .. (m + n - 1) : b[k] = Inward(g, k, b[k + 1])
  <2>1. n \in Nat /\ Steps(g) \in Nat /\ Steps(g) = m + n
    OBVIOUS
  <2>2. a[n] = f.node /\ \A k \in 0 .. (n - 1) : a[k] = Inward(f, k, a[k + 1])
    BY InsideIs
  <2>3. b[Steps(g)] = g.node /\ \A k \in 0 .. (Steps(g) - 1) : b[k] = Inward(g, k, b[k + 1])
    BY <2>1, InsideIs
  <2> HIDE DEF a, b, n
  <2>4. \A k \in 0 .. (m + n - 1) : k \in 0 .. (Steps(g) - 1)
    BY <2>1
  <2> QED BY <2>1, <2>2, <2>3, <2>4
<1> HIDE DEF a, b
<1>2. Differ = {}
  <2>1. SUFFICES ASSUME Differ # {} PROVE FALSE
    OBVIOUS
  <2>2. PICK i \in Differ : \A y \in Differ : i <= y
    <3>1. Differ \subseteq Nat
      OBVIOUS
    <3> HIDE DEF Differ
    <3> QED BY <2>1, <3>1, LeastNatural
  <2>3. i \in 0 .. n /\ b[m + (n - i)] # a[n - i]
    OBVIOUS
  <2>4. i # 0
    <3>1. n - 0 = n
      OBVIOUS
    <3> HIDE DEF n
    <3> QED BY <1>1, <2>3, <3>1
  <2> DEFINE k == n - i
  <2>5. i - 1 \in 0 .. n /\ ~ (i <= i - 1) /\ n - (i - 1) = k + 1 /\ m + (n - (i - 1)) = (m + k) + 1
    BY <2>3, <2>4
  <2>6. b[(m + k) + 1] = a[k + 1]
    <3>1. i - 1 \notin Differ
      <4> HIDE DEF Differ
      <4> QED BY <2>2, <2>5
    <3>2. b[m + (n - (i - 1))] = a[n - (i - 1)]
      BY <2>5, <3>1
    <3> QED BY <2>5, <3>2
  <2>7. k \in 0 .. (n - 1) /\ m + k \in 0 .. (m + n - 1) /\ k + 1 \in 1 .. n /\ (m + k) + 1 = m + (k + 1)
    BY <2>3, <2>4
  <2>8. g.transformations[(m + k) + 1] = f.transformations[k + 1]
    BY <2>7
  <2>9. a[k] = Inward(f, k, a[k + 1]) /\ b[m + k] = Inward(g, m + k, b[(m + k) + 1])
    <3> HIDE DEF k, n
    <3> QED BY <1>1, <2>7
  <2>10. Inward(g, m + k, b[(m + k) + 1]) = Inward(f, k, a[k + 1])
    <3> HIDE DEF k, n
    <3> QED BY <2>6, <2>8 DEF Inward
  <2> QED BY <2>3, <2>9, <2>10
<1>3. ASSUME NEW k \in 0 .. n PROVE b[m + k] = a[k]
  <2>1. n - k \in 0 .. n /\ n - (n - k) = k
    OBVIOUS
  <2>2. n - k \notin Differ
    BY <1>2
  <2>3. b[m + (n - (n - k))] = a[n - (n - k)]
    BY <2>1, <2>2
  <2> QED BY <2>1, <2>3
<1> QED BY <1>3 DEF a, b

-----------------------------------------------------------------------------
(***************************************************************************)
(* The invariant of the search: what a flow has so far, applied to the     *)
(* expression that the search goes on with, means what its node does, and  *)
(* so does every part of it that the way in reaches, but for the parts     *)
(* inside an empty pipe.  Where the way in ends is where the search goes   *)
(* on, unless it is lost.                                                  *)
(***************************************************************************)
Partial(n, ts) == [node |-> n, transformations |-> ts]
Way(n, ts, k)  == Inside(Partial(n, ts))[k]

EmptyPipe(n) == n # 0 /\ kind(n) = "pipe" /\ args(n) = << >>
Idle(n)      == kind(n) = "pipeable" /\ args(n) = << >>

\* A call without arguments among what a pipe applies: such a flow is Bare.
Loose(ts) == \E i \in DOMAIN ts : ts[i].kind \in PipeKind /\ ts[i].callee # ts[i].node /\ ts[i].args = << >>

WayLeads(n, ts, to) ==
  Way(n, ts, 0) \in {0, to} \/ Idle(Way(n, ts, 0)) \/ \E k \in 0 .. Len(ts) : EmptyPipe(Way(n, ts, k))

PartsKept(n, ts, from) ==
  \A k \in 0 .. Len(ts) :
    Way(n, ts, k) # 0 =>
      \/ \E j \in (k + 1) .. Len(ts) : EmptyPipe(Way(n, ts, j))
      \/ Meaning(Way(n, ts, k)) = After(Meaning(from), Functions(ts))[k]

Kept(n, ts, from) ==
  /\ \A i \in DOMAIN ts : ts[i].kind # "effectFn"
  /\ WayLeads(n, ts, from)
  /\ ~ Loose(ts) => PartsKept(n, ts, from)

\* What the outer expression applies to the inner one.
StepsOf(outer, inner, ts) ==
  /\ \A i \in DOMAIN ts : ts[i].kind # "effectFn"
  /\ ~ Loose(ts) => Piped(Meaning(inner), Functions(ts)) = Meaning(outer)
  /\ \/ Len(ts) = 1 /\ ts[1].kind = "call" /\ FirstArgument(outer) = inner
     \/ Len(ts) >= 1 /\ \A i \in DOMAIN ts : ts[i].kind # "call"
     \/ Len(ts) = 0 /\ (EmptyPipe(outer) \/ Idle(outer))

LEMMA ConcatIs ==
  ASSUME NEW S, NEW s \in Seq(S), NEW t \in Seq(S)
  PROVE  /\ Len(s \o t) = Len(s) + Len(t) /\ Len(s) \in Nat /\ Len(t) \in Nat
         /\ DOMAIN s = 1 .. Len(s) /\ DOMAIN t = 1 .. Len(t) /\ DOMAIN (s \o t) = 1 .. (Len(s) + Len(t))
         /\ \A i \in 1 .. Len(s) : (s \o t)[i] = s[i]
         /\ \A i \in 1 .. Len(t) : (s \o t)[Len(s) + i] = t[i]
OBVIOUS

LEMMA FunctionsIs ==
  ASSUME NEW ts \in Seq(Steplike)
  PROVE  Len(Functions(ts)) = Len(ts) /\ \A i \in 1 .. Len(ts) : Functions(ts)[i] = Function(ts[i])
BY DEF Functions

\* The way into a flow that was extended.
LEMMA WayExtended ==
  ASSUME NEW n, NEW steps \in Seq(Steplike), NEW ts \in Seq(Steplike)
  PROVE  /\ \A k \in 0 .. Len(ts) : Way(n, steps \o ts, Len(steps) + k) = Way(n, ts, k)
         /\ \A k \in 0 .. (Len(steps) - 1) :
              Way(n, steps \o ts, k) =
                IF Way(n, steps \o ts, k + 1) = 0 \/ steps[k + 1].kind # "call" THEN 0
                ELSE FirstArgument(Way(n, steps \o ts, k + 1))
<1> DEFINE all == steps \o ts
           f   == Partial(n, ts)
           g   == Partial(n, all)
           m   == Len(steps)
<1>1. /\ Len(all) = m + Len(ts) /\ m \in Nat /\ Len(ts) \in Nat
      /\ (\A i \in 1 .. m : all[i] = steps[i]) /\ (\A i \in 1 .. Len(ts) : all[m + i] = ts[i])
  BY ConcatIs
<1>2. Steps(f) = Len(ts) /\ Steps(g) = Len(all) /\ f.node = n /\ g.node = n
      /\ f.transformations = ts /\ g.transformations = all
  BY DEF Steps, Partial
<1> HIDE DEF all, f, g, m
<1>3. \A k \in 0 .. Len(ts) : Inside(g)[m + k] = Inside(f)[k]
  <2>1. Steps(f) \in Nat /\ Steps(g) = m + Steps(f) /\ m \in Nat /\ g.node = f.node
    BY <1>1, <1>2
  <2>2. \A i \in 1 .. Steps(f) : g.transformations[m + i] = f.transformations[i]
    BY <1>1, <1>2
  <2>3. \A k \in 0 .. Steps(f) : Inside(g)[m + k] = Inside(f)[k]
    BY <2>1, <2>2, InsideShifted
  <2> QED BY <1>2, <2>3
<1>4. ASSUME NEW k \in 0 .. (m - 1)
      PROVE  Inside(g)[k] = IF Inside(g)[k + 1] = 0 \/ steps[k + 1].kind # "call" THEN 0
                            ELSE FirstArgument(Inside(g)[k + 1])
  <2>1. Steps(g) \in Nat /\ k \in 0 .. (Steps(g) - 1) /\ k + 1 \in 1 .. m
    BY <1>1, <1>2
  <2>2. Inside(g)[k] = Inward(g, k, Inside(g)[k + 1])
    BY <2>1, InsideIs
  <2>3. g.transformations[k + 1] = steps[k + 1]
    BY <1>1, <1>2, <2>1
  <2> QED BY <2>2, <2>3 DEF Inward
<1> QED BY <1>3, <1>4 DEF Way, all, f, g, m

LEMMA ExtendLeads ==
  ASSUME NEW n, NEW ts \in Seq(Steplike), NEW steps \in Seq(Steplike), NEW outer \in Node, NEW inner \in Node,
         WayLeads(n, ts, outer), StepsOf(outer, inner, steps)
  PROVE  WayLeads(n, steps \o ts, inner)
<1> DEFINE all == steps \o ts
           m   == Len(steps)
<1>1. Len(all) = m + Len(ts) /\ m \in Nat /\ Len(ts) \in Nat
  BY ConcatIs
<1>2. /\ \A k \in 0 .. Len(ts) : Way(n, all, m + k) = Way(n, ts, k)
      /\ \A k \in 0 .. (m - 1) :
           Way(n, all, k) = IF Way(n, all, k + 1) = 0 \/ steps[k + 1].kind # "call" THEN 0
                            ELSE FirstArgument(Way(n, all, k + 1))
  BY WayExtended
<1> HIDE DEF all, m
<1>3. Way(n, all, m) = Way(n, ts, 0)
  BY <1>1, <1>2
<1>4. outer # 0
  BY Numbered
<1>5. CASE \E k \in 0 .. Len(ts) : EmptyPipe(Way(n, ts, k))
  <2>1. PICK k \in 0 .. Len(ts) : EmptyPipe(Way(n, ts, k))
    BY <1>5
  <2>2. m + k \in 0 .. Len(all) /\ Way(n, all, m + k) = Way(n, ts, k)
    BY <1>1, <1>2
  <2> QED BY <2>1, <2>2 DEF WayLeads, all
<1>6. CASE Way(n, ts, 0) \in {0, outer} \/ Idle(Way(n, ts, 0))
  <2>1. CASE m = 1 /\ steps[1].kind = "call" /\ FirstArgument(outer) = inner
    <3>1. Way(n, all, 0) = IF Way(n, ts, 0) = 0 THEN 0 ELSE FirstArgument(Way(n, ts, 0))
      BY <1>2, <1>3, <2>1
    <3>2. Idle(Way(n, ts, 0)) => FirstArgument(Way(n, ts, 0)) = 0
      BY DEF Idle, FirstArgument
    <3>3. Way(n, all, 0) \in {0, inner}
      BY <1>6, <2>1, <3>1, <3>2
    <3> QED BY <3>3 DEF WayLeads, all
  <2>2. CASE m >= 1 /\ \A i \in DOMAIN steps : steps[i].kind # "call"
    <3>1. 0 \in 0 .. (m - 1) /\ 1 \in DOMAIN steps
      BY <1>1, <2>2 DEF m
    <3>2. Way(n, all, 0) = 0
      BY <1>2, <2>2, <3>1
    <3> QED BY <3>2 DEF WayLeads, all
  <2>3. CASE m = 0 /\ (EmptyPipe(outer) \/ Idle(outer))
    <3>1. Way(n, all, 0) = Way(n, ts, 0) /\ 0 \in 0 .. Len(all)
      BY <1>1, <1>3, <2>3
    <3>2. Way(n, all, 0) = 0 \/ Idle(Way(n, all, 0)) \/ EmptyPipe(Way(n, all, 0))
      BY <1>6, <2>3, <3>1
    <3> QED BY <3>1, <3>2 DEF WayLeads, all
  <2> QED BY <2>1, <2>2, <2>3 DEF StepsOf, m
<1> QED BY <1>5, <1>6 DEF WayLeads

LEMMA ExtendKeepsParts ==
  ASSUME NEW n, NEW ts \in Seq(Steplike), NEW steps \in Seq(Steplike), NEW outer \in Node, NEW inner \in Node,
         WayLeads(n, ts, outer), PartsKept(n, ts, outer), StepsOf(outer, inner, steps), ~ Loose(steps)
  PROVE  PartsKept(n, steps \o ts, inner)
<1> DEFINE all == steps \o ts
           m   == Len(steps)
           V(k) == Way(n, all, k)
           W(k) == Way(n, ts, k)
<1>1. Len(all) = m + Len(ts) /\ m \in Nat /\ Len(ts) \in Nat /\ all \in Seq(Steplike)
  BY ConcatIs, ConcatProperties
<1>2. /\ \A k \in 0 .. Len(ts) : V(m + k) = W(k)
      /\ \A k \in 0 .. (m - 1) :
           V(k) = IF V(k + 1) = 0 \/ steps[k + 1].kind # "call" THEN 0 ELSE FirstArgument(V(k + 1))
  BY WayExtended
<1>3. \A j \in 0 .. Len(ts) :
        After(Meaning(inner), Functions(all))[m + j] = After(Meaning(outer), Functions(ts))[j]
  <2> DEFINE fs == Functions(steps)
             gs == Functions(ts)
             hs == Functions(all)
  <2>1. Len(fs) = m /\ \A i \in 1 .. m : fs[i] = Function(steps[i])
    BY FunctionsIs
  <2>2. Len(gs) = Len(ts) /\ \A i \in 1 .. Len(ts) : gs[i] = Function(ts[i])
    BY FunctionsIs
  <2>3. Len(hs) = m + Len(ts) /\ \A i \in 1 .. (m + Len(ts)) : hs[i] = Function(all[i])
    <3> HIDE DEF all, m
    <3> QED BY <1>1, FunctionsIs
  <2>4. (\A i \in 1 .. m : all[i] = steps[i]) /\ (\A i \in 1 .. Len(ts) : all[m + i] = ts[i])
    BY ConcatIs
  <2> HIDE DEF all, m, fs, gs, hs
  <2>5. \A i \in 1 .. m : hs[i] = fs[i]
    <3>1. \A i \in 1 .. m : i \in 1 .. (m + Len(ts))
      BY <1>1
    <3> QED BY <2>1, <2>3, <2>4, <3>1
  <2>6. \A i \in 1 .. Len(ts) : hs[m + i] = gs[i]
    <3>1. \A i \in 1 .. Len(ts) : m + i \in 1 .. (m + Len(ts))
      BY <1>1
    <3> QED BY <2>2, <2>3, <2>4, <3>1
  <2>7. \A j \in 0 .. Len(gs) : After(Meaning(inner), hs)[Len(fs) + j] = After(Piped(Meaning(inner), fs), gs)[j]
    <3>1. /\ Len(fs) \in Nat /\ Len(gs) \in Nat /\ Len(hs) = Len(fs) + Len(gs)
          /\ \A i \in 1 .. Len(fs) : hs[i] = fs[i]
          /\ \A i \in 1 .. Len(gs) : hs[Len(fs) + i] = gs[i]
      BY <1>1, <2>1, <2>2, <2>3, <2>5, <2>6
    <3> DEFINE x == Meaning(inner)
    <3> HIDE DEF x
    <3>2. \A j \in 0 .. Len(gs) : After(x, hs)[Len(fs) + j] = After(Piped(x, fs), gs)[j]
      BY <3>1, AfterConcat, SMTT(60)
    <3> QED BY <3>2 DEF x
  <2>8. Piped(Meaning(inner), fs) = Meaning(outer)
    BY DEF StepsOf, fs
  <2> QED BY <2>1, <2>2, <2>7, <2>8 DEF gs, hs
<1> HIDE DEF all, m, V, W
<1>4. outer # 0 /\ V(m) = W(0)
  BY <1>1, <1>2, Numbered
<1>5. SUFFICES ASSUME NEW k \in 0 .. Len(all), V(k) # 0
               PROVE  \/ \E j \in (k + 1) .. Len(all) : EmptyPipe(V(j))
                      \/ Meaning(V(k)) = After(Meaning(inner), Functions(all))[k]
  BY DEF PartsKept, V, all
<1>6. CASE k >= m
  <2> DEFINE i == k - m
  <2>1. i \in 0 .. Len(ts) /\ k = m + i
    BY <1>1, <1>6
  <2> HIDE DEF i
  <2>2. W(i) # 0 /\ V(k) = W(i)
    BY <1>2, <1>5, <2>1
  <2>3. \/ \E j \in (i + 1) .. Len(ts) : EmptyPipe(W(j))
        \/ Meaning(W(i)) = After(Meaning(outer), Functions(ts))[i]
    BY <2>1, <2>2 DEF PartsKept, W
  <2>4. ASSUME NEW j \in (i + 1) .. Len(ts), EmptyPipe(W(j))
        PROVE  \E l \in (k + 1) .. Len(all) : EmptyPipe(V(l))
    <3>1. m + j \in (k + 1) .. Len(all) /\ j \in 0 .. Len(ts)
      BY <1>1, <2>1
    <3>2. V(m + j) = W(j)
      BY <1>2, <3>1
    <3> QED BY <2>4, <3>1, <3>2
  <2>5. After(Meaning(inner), Functions(all))[k] = After(Meaning(outer), Functions(ts))[i]
    BY <1>3, <2>1
  <2> QED BY <2>2, <2>3, <2>4, <2>5
<1>7. CASE k < m
  <2>1. k \in 0 .. (m - 1)
    BY <1>1, <1>7
  <2>2. V(k) = IF V(k + 1) = 0 \/ steps[k + 1].kind # "call" THEN 0 ELSE FirstArgument(V(k + 1))
    BY <1>2, <2>1
  <2>3. k + 1 \in DOMAIN steps
    BY <1>1, <2>1 DEF m
  <2>4. m = 1 /\ k = 0 /\ FirstArgument(outer) = inner
    <3>1. steps[k + 1].kind = "call"
      BY <1>5, <2>2
    <3>2. m = 1 /\ FirstArgument(outer) = inner
      BY <1>1, <2>1, <2>3, <3>1 DEF StepsOf, m
    <3> QED BY <2>1, <3>2
  <2>5. W(0) # 0 /\ V(k) = FirstArgument(W(0))
    BY <1>4, <1>5, <2>2, <2>4
  <2>6. CASE W(0) = outer
    <3>1. V(k) = inner
      BY <2>4, <2>5, <2>6
    <3>2. After(Meaning(inner), Functions(all))[0] = Meaning(inner)
      <4>1. Len(Functions(all)) \in Nat
        BY <1>1, FunctionsIs
      <4> QED BY <4>1, AfterIs
    <3> QED BY <2>4, <3>1, <3>2
  <2>7. CASE Idle(W(0))
    <3>1. FirstArgument(W(0)) = 0
      BY <2>7 DEF Idle, FirstArgument
    <3> QED BY <1>5, <2>5, <3>1
  <2>8. ASSUME NEW j \in 0 .. Len(ts), EmptyPipe(W(j))
        PROVE  \E l \in (k + 1) .. Len(all) : EmptyPipe(V(l))
    <3>1. m + j \in (k + 1) .. Len(all)
      BY <1>1, <2>1, <2>4
    <3>2. V(m + j) = W(j)
      BY <1>2
    <3> QED BY <2>8, <3>1, <3>2
  <2>9. W(0) = outer \/ Idle(W(0)) \/ \E j \in 0 .. Len(ts) : EmptyPipe(W(j))
    BY <2>5 DEF WayLeads, W
  <2> QED BY <2>6, <2>7, <2>8, <2>9
<1> QED BY <1>1, <1>6, <1>7

LEMMA LooseConcat ==
  ASSUME NEW steps \in Seq(Steplike), NEW ts \in Seq(Steplike), ~ Loose(steps \o ts)
  PROVE  ~ Loose(steps) /\ ~ Loose(ts)
<1> DEFINE all == steps \o ts
           m   == Len(steps)
<1>1. /\ DOMAIN steps = 1 .. m /\ DOMAIN ts = 1 .. Len(ts) /\ DOMAIN all = 1 .. (m + Len(ts))
      /\ m \in Nat /\ Len(ts) \in Nat
      /\ (\A i \in 1 .. m : all[i] = steps[i]) /\ (\A i \in 1 .. Len(ts) : all[m + i] = ts[i])
  BY ConcatIs
<1>2. \A i \in DOMAIN all : ~ (all[i].kind \in PipeKind /\ all[i].callee # all[i].node /\ all[i].args = << >>)
  BY DEF Loose
<1> HIDE DEF all, m
<1>3. \A i \in 1 .. m : i \in DOMAIN all
  BY <1>1
<1>4. \A i \in 1 .. Len(ts) : m + i \in DOMAIN all
  BY <1>1
<1>5. ~ Loose(steps)
  BY <1>1, <1>2, <1>3 DEF Loose
<1>6. ~ Loose(ts)
  BY <1>1, <1>2, <1>4 DEF Loose
<1> QED BY <1>5, <1>6

LEMMA ExtendKeeps ==
  ASSUME NEW n, NEW ts \in Seq(Steplike), NEW steps \in Seq(Steplike), NEW outer \in Node, NEW inner \in Node,
         Kept(n, ts, outer), StepsOf(outer, inner, steps)
  PROVE  Kept(n, steps \o ts, inner)
<1>1. WayLeads(n, steps \o ts, inner)
  BY ExtendLeads DEF Kept
<1>2. ~ Loose(steps \o ts) => PartsKept(n, steps \o ts, inner)
  <2> SUFFICES ASSUME ~ Loose(steps \o ts) PROVE PartsKept(n, steps \o ts, inner)
    OBVIOUS
  <2>1. ~ Loose(steps) /\ ~ Loose(ts)
    BY LooseConcat
  <2>2. WayLeads(n, ts, outer) /\ PartsKept(n, ts, outer)
    BY <2>1 DEF Kept
  <2> QED BY <2>1, <2>2, ExtendKeepsParts
<1>3. \A i \in DOMAIN (steps \o ts) : (steps \o ts)[i].kind # "effectFn"
  <2> DEFINE all == steps \o ts
             m   == Len(steps)
  <2>1. /\ DOMAIN steps = 1 .. m /\ DOMAIN ts = 1 .. Len(ts) /\ DOMAIN all = 1 .. (m + Len(ts))
        /\ m \in Nat /\ Len(ts) \in Nat
        /\ (\A i \in 1 .. m : all[i] = steps[i]) /\ (\A i \in 1 .. Len(ts) : all[m + i] = ts[i])
    BY ConcatIs
  <2>2. (\A i \in DOMAIN steps : steps[i].kind # "effectFn") /\ (\A i \in DOMAIN ts : ts[i].kind # "effectFn")
    BY DEF Kept, StepsOf
  <2> HIDE DEF all, m
  <2>3. ASSUME NEW i \in DOMAIN all PROVE all[i].kind # "effectFn"
    <3>1. CASE i \in 1 .. m
      BY <2>1, <2>2, <3>1
    <3>2. CASE i \notin 1 .. m
      <4>1. i - m \in 1 .. Len(ts) /\ i = m + (i - m)
        BY <2>1, <3>2
      <4>2. all[i] = ts[i - m]
        BY <2>1, <4>1
      <4> QED BY <2>1, <2>2, <4>1, <4>2
    <3> QED BY <3>1, <3>2
  <2> QED BY <2>3 DEF all
<1> QED BY <1>1, <1>2, <1>3 DEF Kept

\* A flow begins with nothing applied.
LEMMA BeginKept ==
  ASSUME NEW n
  PROVE  Kept(n, << >>, n)
<1>1. Way(n, << >>, 0) = n
  <2>1. Steps(Partial(n, << >>)) = 0 /\ Partial(n, << >>).node = n
    BY DEF Steps, Partial
  <2>2. Inside(Partial(n, << >>))[Steps(Partial(n, << >>))] = Partial(n, << >>).node
    BY <2>1, InsideIs
  <2> QED BY <2>1, <2>2 DEF Way
<1>2. Len(<< >>) = 0 /\ 0 .. 0 = {0}
  OBVIOUS
<1>3. After(Meaning(n), Functions(<< >>))[0] = Meaning(n)
  <2>1. Len(Functions(<< >>)) = 0
    BY DEF Functions
  <2> QED BY <2>1, AfterIs
<1>4. PartsKept(n, << >>, n)
  BY <1>1, <1>2, <1>3 DEF PartsKept
<1>5. WayLeads(n, << >>, n)
  BY <1>1 DEF WayLeads
<1> QED BY <1>4, <1>5 DEF Kept

LEMMA SeqIs ==
  ASSUME NEW S, NEW s \in Seq(S)
  PROVE  /\ Len(s) \in Nat /\ DOMAIN s = 1 .. Len(s) /\ (Len(s) = 0 <=> s = << >>)
         /\ \A i \in DOMAIN s : s[i] \in S
OBVIOUS

LEMMA PipeSteps ==
  ASSUME Parsed, NEW n \in Node, kind(n) \in PipeKind
  PROVE  StepsOf(n, subject(n), PipeTransformations(n))
<1> DEFINE ts == PipeTransformations(n)
           ns == args(n)
<1>0. ns \in Seq(Node) /\ ts \in Seq(Steplike) /\ Len(ts) = Len(ns)
  BY PipeTransformationsAreSteps, Members
<1>1. \A i \in DOMAIN ns : ts[i] = PipeTransformation(kind(n), ns[i])
  BY PipeTransformationsAreSteps
<1> HIDE DEF ts, ns
<1>2. DOMAIN ts = 1 .. Len(ns) /\ DOMAIN ns = 1 .. Len(ns) /\ Len(ns) \in Nat
  <2>1. DOMAIN ts = 1 .. Len(ts)
    BY <1>0, SeqIs, Zenon
  <2>2. DOMAIN ns = 1 .. Len(ns) /\ Len(ns) \in Nat
    BY <1>0, SeqIs, Zenon
  <2> QED BY <1>0, <2>1, <2>2, Zenon
<1>3. \A i \in DOMAIN ts : ts[i].kind = kind(n) /\ ts[i].node = ns[i]
  <2> SUFFICES ASSUME NEW i \in DOMAIN ts PROVE ts[i].kind = kind(n) /\ ts[i].node = ns[i]
    OBVIOUS
  <2>1. ts[i] = PipeTransformation(kind(n), ns[i])
    BY <1>1, <1>2
  <2> DEFINE t == ts[i]
             a == ns[i]
  <2>2. t = PipeTransformation(kind(n), a)
    BY <2>1
  <2> HIDE DEF t, a
  <2>3. t.kind = kind(n) /\ t.node = a
    BY <2>2 DEF PipeTransformation, Transformation
  <2> QED BY <2>3 DEF t, a
<1>4. ASSUME ~ Loose(ts), NEW i \in DOMAIN ts PROVE Function(ts[i]) = Meaning(ns[i])
  <2>1. ts[i] = PipeTransformation(kind(n), ns[i]) /\ ns[i] \in Node
    <3>1. i \in DOMAIN ns
      BY <1>2
    <3>2. ns[i] \in Node
      BY <1>0, <3>1, SeqIs, Zenon
    <3> QED BY <1>1, <3>1, <3>2
  <2>2. CASE kind(ns[i]) = "call"
    <3>1. ts[i].callee = source[ns[i]].callee /\ ts[i].args = args(ns[i])
      BY <2>1, <2>2 DEF PipeTransformation, Transformation
    <3>2. ts[i].callee # ts[i].node
      <4>1. source[ns[i]].callee \in Node /\ source[ns[i]].callee > ns[i]
        BY <2>1, <2>2, Members, Numbered
      <4>2. source[ns[i]].callee # ns[i]
        <5>1. \A x, y \in Node : x > y => x # y
          BY Numbered
        <5> QED BY <2>1, <4>1, <5>1
      <4>3. ts[i].node = ns[i]
        BY <1>3
      <4> QED BY <3>1, <4>2, <4>3
    <3>3. ts[i].args # << >>
      BY <1>3, <1>4, <3>2 DEF Loose
    <3>4. Function(ts[i]) = Apply(Meaning(source[ns[i]].callee), Meanings(args(ns[i])))
      BY <3>1, <3>3 DEF Function
    <3>5. Meaning(ns[i]) = Apply(Meaning(source[ns[i]].callee), Meanings(args(ns[i])))
      BY <2>1, <2>2, MeaningByKind
    <3> QED BY <3>4, <3>5
  <2>3. CASE kind(ns[i]) # "call"
    <3>1. ts[i].callee = ns[i] /\ ts[i].args = << >>
      BY <2>1, <2>3 DEF PipeTransformation, Transformation
    <3> QED BY <3>1 DEF Function
  <2> QED BY <2>2, <2>3
<1>5. ~ Loose(ts) => Piped(Meaning(subject(n)), Functions(ts)) = Meaning(n)
  <2>1. ~ Loose(ts) => Functions(ts) = Meanings(ns)
    BY <1>2, <1>4 DEF Functions, Meanings
  <2>2. Meaning(n) = Piped(Meaning(subject(n)), Meanings(ns))
    BY MeaningByKind DEF ns
  <2> QED BY <2>1, <2>2
<1>6. \A i \in DOMAIN ts : ts[i].kind # "effectFn" /\ ts[i].kind # "call"
  BY <1>3 DEF PipeKind
<1>7. Len(ts) = 0 => EmptyPipe(n) \/ Idle(n)
  <2>1. Len(ts) = 0 => ns = << >>
    BY <1>0, SeqIs, Zenon
  <2>2. n # 0
    BY Numbered
  <2> QED BY <2>1, <2>2 DEF EmptyPipe, Idle, ns, PipeKind
<1>8. Len(ts) = 0 \/ Len(ts) >= 1
  <2>1. Len(ts) \in Nat
    BY <1>0, SeqIs, Zenon
  <2> QED BY <2>1
<1> QED BY <1>5, <1>6, <1>7, <1>8 DEF StepsOf, ts

\* Of one step.
LEMMA OneStep ==
  ASSUME NEW x, NEW t \in Steplike
  PROVE  /\ Piped(x, Functions(<< t >>)) = Apply(Function(t), << x >>)
         /\ Len(<< t >>) = 1 /\ DOMAIN << t >> = {1} /\ << t >>[1] = t
<1> DEFINE fs == Functions(<< t >>)
<1>1. Len(fs) = 1 /\ fs[1] = Function(t)
  BY DEF Functions
<1> HIDE DEF fs
<1>2. After(x, fs)[0] = x /\ After(x, fs)[1] = Apply(fs[1], << After(x, fs)[1 - 1] >>)
  BY <1>1, AfterIs
<1>3. Piped(x, fs) = Apply(Function(t), << x >>)
  BY <1>1, <1>2 DEF Piped
<1> QED BY <1>3 DEF fs

LEMMA DataSteps ==
  ASSUME Parsed, NEW n \in Node, kind(n) \in DataKind
  PROVE  StepsOf(n, subject(n), << DataStep(n) >>)
<1> DEFINE t == DataStep(n)
<1>1. t \in Steplike
  BY Members DEF DataStep, Transformation, Steplike
<1>2. t.kind = kind(n) /\ t.callee = source[n].callee /\ t.args = args(n) /\ args(n) # << >>
  BY Members DEF DataStep, Transformation
<1> HIDE DEF t
<1>3. Piped(Meaning(subject(n)), Functions(<< t >>)) = Meaning(n)
  <2>1. Function(t) = Apply(Meaning(source[n].callee), Meanings(args(n)))
    BY <1>2 DEF Function
  <2>2. Meaning(n) = Apply(Apply(Meaning(source[n].callee), Meanings(args(n))), << Meaning(subject(n)) >>)
    BY MeaningByKind
  <2>3. Piped(Meaning(subject(n)), Functions(<< t >>)) = Apply(Function(t), << Meaning(subject(n)) >>)
    BY <1>1, OneStep
  <2> QED BY <2>1, <2>2, <2>3
<1>4. Len(<< t >>) = 1 /\ DOMAIN << t >> = {1} /\ << t >>[1] = t
  OBVIOUS
<1>5. t.kind # "effectFn" /\ t.kind # "call"
  BY <1>2 DEF DataKind
<1>6. StepsOf(n, subject(n), << t >>)
  BY <1>3, <1>4, <1>5 DEF StepsOf
<1> QED BY <1>6 DEF t

LEMMA CallSteps ==
  ASSUME Parsed, NEW n \in Node, ParseSingleArgCall(n)
  PROVE  StepsOf(n, args(n)[1], << CallStep(n) >>)
<1> DEFINE t == CallStep(n)
<1>1. kind(n) = "call" /\ Len(args(n)) = 1 /\ args(n) \in Seq(Node)
  BY Members DEF ParseSingleArgCall
<1>2. t \in Steplike
  BY <1>1, Members DEF CallStep, Transformation, Steplike
<1>3. t.kind = "call" /\ t.callee = source[n].callee /\ t.args = << >>
  BY DEF CallStep, Transformation
<1> HIDE DEF t
<1>4. Piped(Meaning(args(n)[1]), Functions(<< t >>)) = Meaning(n)
  <2>1. Function(t) = Meaning(source[n].callee)
    BY <1>3 DEF Function
  <2>2. Meaning(n) = Apply(Meaning(source[n].callee), Meanings(args(n)))
    BY <1>1, MeaningByKind
  <2>3. Meanings(args(n)) = << Meaning(args(n)[1]) >>
    BY <1>1 DEF Meanings
  <2>4. Piped(Meaning(args(n)[1]), Functions(<< t >>)) = Apply(Function(t), << Meaning(args(n)[1]) >>)
    BY <1>2, OneStep
  <2> QED BY <2>1, <2>2, <2>3, <2>4
<1>5. Len(<< t >>) = 1 /\ DOMAIN << t >> = {1} /\ << t >>[1] = t
  OBVIOUS
<1>6. FirstArgument(n) = args(n)[1]
  <2>1. args(n) # << >>
    <3>1. Len(args(n)) = 0 <=> args(n) = << >>
      BY <1>1, SeqIs, Zenon
    <3> QED BY <1>1, <3>1
  <2> QED BY <1>1, <2>1 DEF FirstArgument
<1>7. StepsOf(n, args(n)[1], << t >>)
  BY <1>3, <1>4, <1>5, <1>6 DEF StepsOf
<1> QED BY <1>7 DEF t

-----------------------------------------------------------------------------
(***************************************************************************)
(* The search keeps the invariant.                                         *)
(***************************************************************************)
ItemKept(item) ==
  \A j \in DOMAIN item.parentFlow :
    Kept(item.parentFlow[j].node, item.parentFlow[j].transformations, item.node)

\* The flow of an Effect.fn stands for the call.
Whole(flow) ==
  /\ includeEffectFn /\ flow.subject = flow.node
  /\ \A i \in DOMAIN flow.transformations : flow.transformations[i].kind = "effectFn"

FlowKept(flow) == Whole(flow) \/ Kept(flow.node, flow.transformations, flow.subject)

AllKept == (\A i \in DOMAIN queue : ItemKept(queue[i])) /\ (\A i \in DOMAIN result : FlowKept(result[i]))

\* They only look at the input.
LEMMA KeptUnchanged ==
  ASSUME source' = source, includeEffectFn' = includeEffectFn
  PROVE  /\ \A item : ItemKept(item)' <=> ItemKept(item)
         /\ \A flow : FlowKept(flow)' <=> FlowKept(flow)
<1>1. \A n : Meaning(n)' = Meaning(n)
  BY DEF Meaning, MeaningFrom, kind, subject, args, Children, Known
<1>2. \A flow : Inside(flow)' = Inside(flow)
  BY DEF Inside, FirstArgument, Steps, kind, subject, args
<1>3. \A ns : Meanings(ns)' = Meanings(ns)
  BY <1>1 DEF Meanings
<1>4. \A ts : Functions(ts)' = Functions(ts)
  <2>1. \A t : Function(t)' = Function(t)
    BY <1>1, <1>3 DEF Function
  <2> QED BY <2>1 DEF Functions
<1>5. \A n, ts, k : Way(n, ts, k)' = Way(n, ts, k)
  BY <1>2 DEF Way
<1>6. \A n : (EmptyPipe(n)' <=> EmptyPipe(n)) /\ (Idle(n)' <=> Idle(n))
  BY DEF EmptyPipe, Idle, kind, args
<1>7. \A n, ts, from : WayLeads(n, ts, from)' <=> WayLeads(n, ts, from)
  BY <1>5, <1>6 DEF WayLeads
<1>8. \A n, ts, from : PartsKept(n, ts, from)' <=> PartsKept(n, ts, from)
  BY <1>1, <1>4, <1>5, <1>6 DEF PartsKept
<1>9. \A n, ts, from : Kept(n, ts, from)' <=> Kept(n, ts, from)
  BY <1>7, <1>8 DEF Kept
<1>10. \A item : ItemKept(item)' <=> ItemKept(item)
  BY <1>9 DEF ItemKept
<1>11. \A flow : FlowKept(flow)' <=> FlowKept(flow)
  BY <1>9 DEF FlowKept, Whole
<1> QED BY <1>10, <1>11

LEMMA ConcatElements ==
  ASSUME NEW S, NEW s \in Seq(S), NEW t \in Seq(S)
  PROVE  \A i \in DOMAIN (s \o t) : \/ \E j \in DOMAIN s : (s \o t)[i] = s[j]
                                    \/ \E j \in DOMAIN t : (s \o t)[i] = t[j]
<1> SUFFICES ASSUME NEW i \in DOMAIN (s \o t)
             PROVE  \/ \E j \in DOMAIN s : (s \o t)[i] = s[j]
                    \/ \E j \in DOMAIN t : (s \o t)[i] = t[j]
  OBVIOUS
<1>1. /\ DOMAIN s = 1 .. Len(s) /\ DOMAIN t = 1 .. Len(t) /\ DOMAIN (s \o t) = 1 .. (Len(s) + Len(t))
      /\ Len(s) \in Nat /\ Len(t) \in Nat
      /\ (\A k \in 1 .. Len(s) : (s \o t)[k] = s[k]) /\ (\A k \in 1 .. Len(t) : (s \o t)[Len(s) + k] = t[k])
  BY ConcatIs
<1> DEFINE all == s \o t
<1> HIDE DEF all
<1>2. CASE i \in 1 .. Len(s)
  BY <1>1, <1>2
<1>3. CASE i \notin 1 .. Len(s)
  <2>1. i - Len(s) \in 1 .. Len(t) /\ i = Len(s) + (i - Len(s))
    BY <1>1, <1>3
  <2> QED BY <1>1, <2>1
<1> QED BY <1>2, <1>3

LEMMA ExtendedItemKept ==
  ASSUME NEW flow \in Seq(Unfinished), NEW outer \in Node, NEW inner \in Node, NEW steps \in Seq(Steplike),
         ItemKept(Item(outer, flow)), StepsOf(outer, inner, steps)
  PROVE  ItemKept(Item(inner, Extend(flow, outer, steps)))
<1> DEFINE new == Extend(flow, outer, steps)
<1>1. \E f : /\ new = << f >> /\ Kept(f.node, f.transformations, inner)
  <2>1. CASE flow = NoFlow
    <3>1. steps \o << >> = steps /\ << >> \in Seq(Steplike)
      OBVIOUS
    <3>2. Kept(outer, << >>, outer)
      BY BeginKept
    <3>3. Kept(outer, steps \o << >>, inner)
      BY <3>1, <3>2, ExtendKeeps
    <3> DEFINE f == [node |-> outer, transformations |-> steps]
    <3>4. new = << f >> /\ f.node = outer /\ f.transformations = steps
      BY <2>1 DEF Extend
    <3>5. Kept(f.node, f.transformations, inner)
      BY <3>1, <3>3, <3>4
    <3> QED BY <3>4, <3>5
  <2>2. CASE flow # NoFlow
    <3>1. 1 \in DOMAIN flow /\ flow[1] \in Unfinished
      BY <2>2 DEF NoFlow
    <3>2. Kept(flow[1].node, flow[1].transformations, outer)
      <4>1. Item(outer, flow).node = outer /\ Item(outer, flow).parentFlow = flow
        BY DEF Item
      <4> QED BY <3>1, <4>1 DEF ItemKept
    <3>3. flow[1].transformations \in Seq(Steplike)
      BY <3>1 DEF Unfinished
    <3>4. Kept(flow[1].node, steps \o flow[1].transformations, inner)
      BY <3>2, <3>3, ExtendKeeps
    <3> DEFINE f == [flow[1] EXCEPT !.transformations = steps \o @]
    <3>5. new = << f >>
      BY <2>2 DEF Extend
    <3>6. f.node = flow[1].node /\ f.transformations = steps \o flow[1].transformations
      BY <3>1 DEF Unfinished
    <3>7. Kept(f.node, f.transformations, inner)
      <4> HIDE DEF f
      <4> QED BY <3>4, <3>6
    <3> QED BY <3>5, <3>7
  <2> QED BY <2>1, <2>2
<1>2. PICK f : new = << f >> /\ Kept(f.node, f.transformations, inner)
  BY <1>1
<1>3. Item(inner, new).node = inner /\ Item(inner, new).parentFlow = << f >>
  BY <1>2 DEF Item
<1>4. DOMAIN << f >> = {1} /\ << f >>[1] = f
  OBVIOUS
<1>5. ItemKept(Item(inner, new))
  BY <1>2, <1>3, <1>4 DEF ItemKept
<1> QED BY <1>5

LEMMA EnqueuedKept ==
  ASSUME NEW ns \in Seq(Node), NEW i \in DOMAIN Enqueued(ns)
  PROVE  ItemKept(Enqueued(ns)[i])
<1>1. Enqueued(ns)[i].parentFlow = << >>
  BY EnqueuedAreItems DEF NoFlow
<1> QED BY <1>1 DEF ItemKept

\* What is on the queue after the head.
LEMMA TailKept ==
  ASSUME Typed, AllKept, queue # << >>
  PROVE  /\ ItemKept(Item(node, parentFlow))
         /\ \A i \in DOMAIN Tail(queue) : ItemKept(Tail(queue)[i])
<1>1. queue \in Seq(WorkItem)
  BY TypeOKIs DEF Typed
<1>2. Head(queue) = queue[1] /\ 1 \in DOMAIN queue
  BY <1>1
<1>3. \A i \in DOMAIN Tail(queue) : i + 1 \in DOMAIN queue /\ Tail(queue)[i] = queue[i + 1]
  BY <1>1
<1>4. ItemKept(queue[1])
  BY <1>2 DEF AllKept
<1>5. ItemKept(Item(node, parentFlow))
  <2>1. Item(node, parentFlow).node = queue[1].node /\ Item(node, parentFlow).parentFlow = queue[1].parentFlow
    BY <1>2 DEF Item, node, parentFlow
  <2> QED BY <1>4, <2>1 DEF ItemKept
<1> QED BY <1>3, <1>5 DEF AllKept

\* If the new items and flows keep it, all do.
LEMMA KeptNext ==
  ASSUME source' = source, includeEffectFn' = includeEffectFn,
         \A i \in DOMAIN queue' : ItemKept(queue'[i]),
         \A i \in DOMAIN result' : FlowKept(result'[i])
  PROVE  AllKept'
BY KeptUnchanged DEF AllKept

LEMMA ConcatKept ==
  ASSUME NEW first \in Seq(WorkItem), NEW next \in WorkItem, NEW rest \in Seq(WorkItem),
         \A i \in DOMAIN first : ItemKept(first[i]), ItemKept(next),
         \A i \in DOMAIN rest : ItemKept(rest[i])
  PROVE  \A i \in DOMAIN ((first \o << next >>) \o rest) : ItemKept(((first \o << next >>) \o rest)[i])
<1> DEFINE front == first \o << next >>
<1>1. << next >> \in Seq(WorkItem) /\ DOMAIN << next >> = {1} /\ << next >>[1] = next
  OBVIOUS
<1>2. front \in Seq(WorkItem)
  BY <1>1, ConcatProperties
<1>3. \A i \in DOMAIN front : ItemKept(front[i])
  <2>1. \A i \in DOMAIN front : \/ \E j \in DOMAIN first : front[i] = first[j]
                               \/ \E j \in DOMAIN << next >> : front[i] = << next >>[j]
    BY <1>1, ConcatElements
  <2> HIDE DEF front
  <2> QED BY <1>1, <2>1
<1> HIDE DEF front
<1>4. \A i \in DOMAIN (front \o rest) : \/ \E j \in DOMAIN front : (front \o rest)[i] = front[j]
                                      \/ \E j \in DOMAIN rest : (front \o rest)[i] = rest[j]
  BY <1>2, ConcatElements
<1>5. \A i \in DOMAIN (front \o rest) : ItemKept((front \o rest)[i])
  BY <1>3, <1>4
<1> QED BY <1>5 DEF front

LEMMA ContinueKept ==
  ASSUME Typed, AllKept, queue # << >>, source' = source, includeEffectFn' = includeEffectFn,
         NEW at \in Node, NEW steps \in Seq(Steplike), NEW inner \in Seq(Node),
         StepsOf(node, at, steps), Continue(node, at, steps, inner)
  PROVE  AllKept'
<1>1. node \in Node /\ parentFlow \in Seq(Unfinished) /\ Tail(queue) \in Seq(WorkItem)
  BY HeadTyped
<1>2. ItemKept(Item(at, Extend(parentFlow, node, steps)))
  BY <1>1, TailKept, ExtendedItemKept
<1> DEFINE next == Item(at, Extend(parentFlow, node, steps))
           first == Enqueued(inner)
           rest == Tail(queue)
<1>3. next \in WorkItem /\ first \in Seq(WorkItem) /\ rest \in Seq(WorkItem)
  BY <1>1, ExtendIsUnfinished, EnqueuedAreItems DEF Item, WorkItem
<1>4. queue' = (first \o << next >>) \o rest /\ result' = result
  BY DEF Continue
<1>5. /\ \A i \in DOMAIN first : ItemKept(first[i])
      /\ \A i \in DOMAIN rest : ItemKept(rest[i])
  BY EnqueuedKept, TailKept
<1> HIDE DEF next, first, rest
<1>6. \A i \in DOMAIN ((first \o << next >>) \o rest) : ItemKept(((first \o << next >>) \o rest)[i])
  <2>1. ItemKept(next)
    BY <1>2 DEF next
  <2> QED BY <1>3, <1>5, <2>1, ConcatKept
<1>7. \A i \in DOMAIN queue' : ItemKept(queue'[i])
  BY <1>4, <1>6
<1>8. \A i \in DOMAIN result' : FlowKept(result'[i])
  BY <1>4 DEF AllKept
<1> QED BY <1>7, <1>8, KeptNext

LEMMA ItemsTogether ==
  ASSUME NEW s \in Seq(WorkItem), NEW t \in Seq(WorkItem),
         \A i \in DOMAIN s : ItemKept(s[i]), \A i \in DOMAIN t : ItemKept(t[i])
  PROVE  \A i \in DOMAIN (s \o t) : ItemKept((s \o t)[i])
<1>1. \A i \in DOMAIN (s \o t) : \/ \E j \in DOMAIN s : (s \o t)[i] = s[j]
                                 \/ \E j \in DOMAIN t : (s \o t)[i] = t[j]
  BY ConcatElements
<1> QED BY <1>1

LEMMA FlowsTogether ==
  ASSUME NEW s \in Seq(Finished), NEW t \in Seq(Finished),
         \A i \in DOMAIN s : FlowKept(s[i]), \A i \in DOMAIN t : FlowKept(t[i])
  PROVE  \A i \in DOMAIN (s \o t) : FlowKept((s \o t)[i])
<1>1. \A i \in DOMAIN (s \o t) : \/ \E j \in DOMAIN s : (s \o t)[i] = s[j]
                                 \/ \E j \in DOMAIN t : (s \o t)[i] = t[j]
  BY ConcatElements
<1> QED BY <1>1

\* A flow that gets its subject.
LEMMA FinalizedKept ==
  ASSUME Typed, AllKept, queue # << >>
  PROVE  \A i \in DOMAIN Finalized(node) : FlowKept(Finalized(node)[i])
<1> DEFINE n == node
           p == parentFlow
<1>1. ItemKept(Item(n, p))
  BY TailKept
<1>2. Finalized(n) = [i \in DOMAIN p |-> Flow(p[i].node, n, p[i].transformations)]
  BY DEF Finalized
<1> HIDE DEF n, p
<1>3. \A i \in DOMAIN p : Kept(p[i].node, p[i].transformations, n)
  BY <1>1 DEF ItemKept, Item
<1>4. ASSUME NEW i \in DOMAIN p PROVE FlowKept(Flow(p[i].node, n, p[i].transformations))
  <2> DEFINE a == p[i].node
             ts == p[i].transformations
  <2>1. Kept(a, ts, n)
    BY <1>3
  <2> HIDE DEF a, ts
  <2>2. FlowKept(Flow(a, n, ts))
    BY <2>1 DEF FlowKept, Flow
  <2> QED BY <2>2 DEF a, ts
<1>5. \A i \in DOMAIN Finalized(n) : FlowKept(Finalized(n)[i])
  BY <1>2, <1>4
<1> QED BY <1>5 DEF n

LEMMA VisitEffectFnKept ==
  ASSUME Typed, AllKept, source' = source, includeEffectFn' = includeEffectFn, VisitEffectFn
  PROVE  AllKept'
<1>1. queue # << >> /\ node \in Node /\ Tail(queue) \in Seq(WorkItem)
  BY HeadTyped DEF VisitEffectFn, Searching
<1>2. kind(node) = "effectFn" /\ includeEffectFn /\ Parsed
  BY DEF VisitEffectFn, IsEffectFn, Typed
<1>3. << subject(node) >> \o args(node) \in Seq(Node)
  <2>1. subject(node) \in Node /\ args(node) \in Seq(Node)
    BY <1>1, <1>2, Members
  <2> QED BY <2>1
<1> DEFINE inner == ChildrenOf(<< subject(node) >> \o args(node))
           first == Enqueued(inner)
           rest  == Tail(queue)
           whole == Flow(node, node, PipeTransformations(node))
           done  == Finalized(node)
<1>4. first \in Seq(WorkItem) /\ \A i \in DOMAIN first : ItemKept(first[i])
  <2>1. inner \in Seq(Node)
    BY <1>2, <1>3, ChildrenOfAreNodes
  <2> QED BY <2>1, EnqueuedAreItems, EnqueuedKept
<1>5. \A i \in DOMAIN rest : ItemKept(rest[i])
  BY <1>1, TailKept
<1>6. done \in Seq(Finished) /\ \A i \in DOMAIN done : FlowKept(done[i])
  BY <1>1, FinalizedTyped, FinalizedKept
<1>7. whole \in Finished /\ FlowKept(whole)
  <2> DEFINE n  == node
             ts == PipeTransformations(n)
             ns == args(n)
  <2>1. /\ ts \in Seq(Steplike) /\ Len(ts) = Len(ns)
        /\ \A i \in DOMAIN ns : ts[i] = PipeTransformation(kind(n), ns[i])
        /\ ns \in Seq(Node)
    BY <1>1, <1>2, PipeTransformationsAreSteps, Members
  <2>2. n \in Node /\ kind(n) = "effectFn" /\ whole = Flow(n, n, ts)
    BY <1>1, <1>2
  <2> HIDE DEF n, ts, ns, whole
  <2>3. DOMAIN ts = DOMAIN ns
    <3>1. DOMAIN ts = 1 .. Len(ts)
      BY <2>1, SeqIs, Zenon
    <3>2. DOMAIN ns = 1 .. Len(ns)
      BY <2>1, SeqIs, Zenon
    <3> QED BY <2>1, <3>1, <3>2
  <2>4. \A i \in DOMAIN ts : ts[i].kind = "effectFn"
    BY <2>1, <2>2, <2>3 DEF PipeTransformation, Transformation
  <2>5. FlowKept(Flow(n, n, ts))
    BY <1>2, <2>4 DEF FlowKept, Whole, Flow
  <2>6. Flow(n, n, ts) \in Finished
    BY <2>1, <2>2 DEF Flow, Finished
  <2> QED BY <2>2, <2>5, <2>6
<1>8. queue' = first \o rest /\ result' = Append(result, whole) \o done
  BY DEF VisitEffectFn
<1>9. result \in Seq(Finished) /\ \A i \in DOMAIN result : FlowKept(result[i])
  BY TypeOKIs DEF Typed, AllKept
<1> HIDE DEF first, rest, whole, done
<1>10. \A i \in DOMAIN queue' : ItemKept(queue'[i])
  <2>1. rest \in Seq(WorkItem)
    BY <1>1 DEF rest
  <2>2. \A i \in DOMAIN (first \o rest) : ItemKept((first \o rest)[i])
    BY <1>4, <1>5, <2>1, ItemsTogether
  <2> QED BY <1>8, <2>2
<1> DEFINE found == Append(result, whole)
<1>11. found \in Seq(Finished) /\ \A i \in DOMAIN found : FlowKept(found[i])
  <2>1. /\ found \in Seq(Finished) /\ DOMAIN found = 1 .. (Len(result) + 1) /\ found[Len(result) + 1] = whole
        /\ (\A i \in 1 .. Len(result) : found[i] = result[i]) /\ DOMAIN result = 1 .. Len(result)
        /\ Len(result) \in Nat
    BY <1>7, <1>9
  <2> HIDE DEF found
  <2>2. \A i \in DOMAIN found : i = Len(result) + 1 \/ i \in DOMAIN result
    BY <2>1
  <2> QED BY <1>7, <1>9, <2>1, <2>2
<1> HIDE DEF found
<1>12. \A i \in DOMAIN (found \o done) : FlowKept((found \o done)[i])
  BY <1>6, <1>11, FlowsTogether
<1>13. \A i \in DOMAIN result' : FlowKept(result'[i])
  BY <1>8, <1>12 DEF found
<1> QED BY <1>10, <1>13, KeptNext

LEMMA VisitOtherKept ==
  ASSUME Typed, AllKept, source' = source, includeEffectFn' = includeEffectFn, VisitOther
  PROVE  AllKept'
<1>1. queue # << >> /\ node \in Node /\ Tail(queue) \in Seq(WorkItem) /\ Parsed
  BY HeadTyped DEF VisitOther, Searching, Typed
<1> DEFINE first == Enqueued(Children(node))
           rest  == Tail(queue)
           done  == Finalized(node)
<1>2. first \in Seq(WorkItem) /\ \A i \in DOMAIN first : ItemKept(first[i])
  BY <1>1, ChildrenAreNodes, EnqueuedAreItems, EnqueuedKept
<1>3. \A i \in DOMAIN rest : ItemKept(rest[i])
  BY <1>1, TailKept
<1>4. done \in Seq(Finished) /\ \A i \in DOMAIN done : FlowKept(done[i])
  BY <1>1, FinalizedTyped, FinalizedKept
<1>5. queue' = first \o rest /\ result' = result \o done
  BY DEF VisitOther
<1>6. result \in Seq(Finished) /\ \A i \in DOMAIN result : FlowKept(result[i])
  BY TypeOKIs DEF Typed, AllKept
<1>7. rest \in Seq(WorkItem)
  BY <1>1
<1> HIDE DEF first, rest, done
<1>8. \A i \in DOMAIN (first \o rest) : ItemKept((first \o rest)[i])
  BY <1>2, <1>3, <1>7, ItemsTogether
<1>9. \A i \in DOMAIN (result \o done) : FlowKept((result \o done)[i])
  BY <1>4, <1>6, FlowsTogether
<1>10. \A i \in DOMAIN queue' : ItemKept(queue'[i])
  BY <1>5, <1>8
<1>11. \A i \in DOMAIN result' : FlowKept(result'[i])
  BY <1>5, <1>9
<1> QED BY <1>10, <1>11, KeptNext

LEMMA VisitPipeKept ==
  ASSUME Typed, AllKept, source' = source, includeEffectFn' = includeEffectFn, VisitPipe
  PROVE  AllKept'
<1>1. queue # << >> /\ node \in Node /\ kind(node) \in PipeKind /\ Parsed
  BY HeadTyped DEF VisitPipe, Searching, Typed
<1>2. subject(node) \in Node /\ ChildrenOf(args(node)) \in Seq(Node)
  BY <1>1, Members, ChildrenOfAreNodes
<1>3. PipeTransformations(node) \in Seq(Steplike)
  BY <1>1, PipeTransformationsAreSteps
<1>4. StepsOf(node, subject(node), PipeTransformations(node))
  BY <1>1, PipeSteps
<1>5. Continue(node, subject(node), PipeTransformations(node), ChildrenOf(args(node)))
  BY DEF VisitPipe
<1> QED BY <1>1, <1>2, <1>3, <1>4, <1>5, ContinueKept

LEMMA VisitDataKept ==
  ASSUME Typed, AllKept, source' = source, includeEffectFn' = includeEffectFn, VisitDataFirstOrLast
  PROVE  AllKept'
<1>1. queue # << >> /\ node \in Node /\ kind(node) \in DataKind /\ Parsed
  BY HeadTyped DEF VisitDataFirstOrLast, Searching, Typed
<1>2. subject(node) \in Node /\ args(node) \in Seq(Node) /\ source[node].callee \in Node
  BY <1>1, Members
<1>3. ChildrenOf(<< source[node].callee >> \o args(node)) \in Seq(Node)
  <2>1. << source[node].callee >> \o args(node) \in Seq(Node)
    BY <1>2
  <2> QED BY <1>1, <2>1, ChildrenOfAreNodes
<1>4. << DataStep(node) >> \in Seq(Steplike)
  BY <1>1, StepsTyped
<1>5. StepsOf(node, subject(node), << DataStep(node) >>)
  BY <1>1, DataSteps
<1>6. Continue(node, subject(node), << DataStep(node) >>, ChildrenOf(<< source[node].callee >> \o args(node)))
  BY DEF VisitDataFirstOrLast, DataStep
<1> QED BY <1>1, <1>2, <1>3, <1>4, <1>5, <1>6, ContinueKept

LEMMA VisitSingleKept ==
  ASSUME Typed, AllKept, source' = source, includeEffectFn' = includeEffectFn, VisitSingleArgCall
  PROVE  AllKept'
<1>1. queue # << >> /\ node \in Node /\ ParseSingleArgCall(node) /\ Parsed
  BY HeadTyped DEF VisitSingleArgCall, Searching, Typed
<1>2. kind(node) = "call" /\ Len(args(node)) = 1
  BY <1>1 DEF ParseSingleArgCall
<1>3. args(node)[1] \in Node /\ source[node].callee \in Node
  BY <1>1, <1>2, Members
<1>4. Children(source[node].callee) \in Seq(Node)
  BY <1>1, <1>3, ChildrenAreNodes
<1>5. << CallStep(node) >> \in Seq(Steplike)
  BY <1>1, <1>2, StepsTyped
<1>6. StepsOf(node, args(node)[1], << CallStep(node) >>)
  BY <1>1, CallSteps
<1>7. Continue(node, args(node)[1], << CallStep(node) >>, Children(source[node].callee))
  BY DEF VisitSingleArgCall, CallStep
<1> QED BY <1>1, <1>3, <1>4, <1>5, <1>6, <1>7, ContinueKept

LEMMA FinishKept ==
  ASSUME Typed, AllKept, source' = source, includeEffectFn' = includeEffectFn, Finish
  PROVE  AllKept'
<1>1. \A i \in DOMAIN queue' : ItemKept(queue'[i])
  BY DEF Finish
<1>2. \A i \in DOMAIN result' : FlowKept(result'[i])
  BY FinishKeeps DEF AllKept
<1> QED BY <1>1, <1>2, KeptNext

LEMMA NextKept ==
  ASSUME Typed, AllKept, [Next]_vars
  PROVE  AllKept'
<1>1. source' = source /\ includeEffectFn' = includeEffectFn
  BY InputKept DEF Typed
<1>2. CASE VisitEffectFn
  BY <1>1, <1>2, VisitEffectFnKept
<1>3. CASE VisitPipe
  BY <1>1, <1>3, VisitPipeKept
<1>4. CASE VisitDataFirstOrLast
  BY <1>1, <1>4, VisitDataKept
<1>5. CASE VisitSingleArgCall
  BY <1>1, <1>5, VisitSingleKept
<1>6. CASE VisitOther
  BY <1>1, <1>6, VisitOtherKept
<1>7. CASE Finish
  BY <1>1, <1>7, FinishKept
<1>8. CASE UNCHANGED vars
  <2>1. queue' = queue /\ result' = result
    BY <1>8 DEF vars
  <2>2. (\A i \in DOMAIN queue' : ItemKept(queue'[i])) /\ \A i \in DOMAIN result' : FlowKept(result'[i])
    BY <2>1 DEF AllKept
  <2> QED BY <1>1, <2>2, KeptNext
<1> QED BY <1>2, <1>3, <1>4, <1>5, <1>6, <1>7, <1>8 DEF Next

LEMMA InitKept ==
  ASSUME Init
  PROVE  AllKept
<1>1. << File >> \in Seq(Node)
  BY Numbered
<1>2. \A i \in DOMAIN queue : ItemKept(queue[i])
  BY <1>1, EnqueuedKept DEF Init
<1>3. \A i \in DOMAIN result : FlowKept(result[i])
  BY DEF Init
<1> QED BY <1>2, <1>3 DEF AllKept

-----------------------------------------------------------------------------
(***************************************************************************)
(* What the fix rewrites.                                                  *)
(***************************************************************************)
LEMMA LeastIn ==
  ASSUME NEW S, S \subseteq Nat, S # {}
  PROVE  Min(S) \in S
<1>1. \E x \in S : \A y \in S : x <= y
  BY LeastNatural
<1> QED BY <1>1 DEF Min

LEMMA GreatestIn ==
  ASSUME NEW a \in Nat, NEW b \in Nat, NEW S, S \subseteq a .. b, S # {}
  PROVE  Max(S) \in S
<1> DEFINE D == { b - x : x \in S }
<1>1. D \subseteq Nat /\ D # {}
  <2>1. \A x \in S : b - x \in Nat
    <3> SUFFICES ASSUME NEW x \in S PROVE b - x \in Nat
      OBVIOUS
    <3>1. x \in a .. b
      OBVIOUS
    <3> QED BY <3>1
  <2> QED BY <2>1
<1>2. PICK m \in D : \A y \in D : m <= y
  <2> HIDE DEF D
  <2> QED BY <1>1, LeastNatural
<1>3. PICK x \in S : m = b - x
  OBVIOUS
<1>4. ASSUME NEW y \in S PROVE x >= y
  <2>1. b - x <= b - y
    BY <1>2, <1>3
  <2>2. x \in Nat /\ y \in Nat
    OBVIOUS
  <2> QED BY <2>1, <2>2
<1> QED BY <1>4 DEF Max

Starts(flow, i) == { k \in i .. Steps(flow) : IsPipeableAtIndex(flow, k) }

\* A part of a flow.
Segments(flow) == { [first |-> a, last |-> b] : a \in 0 .. Steps(flow), b \in 0 .. Steps(flow) }
Proper(flow)   == { match \in Segments(flow) : match.first <= match.last }

LEMMA SegmentIs ==
  ASSUME NEW flow, Steps(flow) \in Nat, NEW i \in 0 .. (Steps(flow) + 1), Starts(flow, i) # {}
  PROVE  LET first == Min(Starts(flow, i))
             last  == End(flow, first)
         IN  /\ first \in i .. Steps(flow) /\ last \in first .. Steps(flow)
             /\ [first |-> first, last |-> last] \in Proper(flow)
<1> DEFINE first == Min(Starts(flow, i))
           last  == End(flow, first)
           n     == Steps(flow)
<1>1. first \in i .. n
  <2>1. Starts(flow, i) \subseteq Nat /\ Starts(flow, i) \subseteq i .. n
    BY DEF Starts
  <2>2. first \in Starts(flow, i)
    BY <2>1, LeastIn
  <2> QED BY <2>1, <2>2
<1> HIDE DEF first
<1>2. first \in Nat /\ first \in 0 .. n
  BY <1>1
<1>3. last \in first .. n
  <2> DEFINE S == { j \in first .. n : \A k \in (first + 1) .. j : IsSafelyPipeableCallee(flow.transformations[k]) }
  <2>1. first \in S
    BY <1>1, <1>2
  <2>2. S \subseteq first .. n
    OBVIOUS
  <2>3. last = Max(S)
    BY DEF End
  <2> HIDE DEF S, last
  <2>4. Max(S) \in S
    BY <1>2, <2>1, <2>2, GreatestIn
  <2> QED BY <2>2, <2>3, <2>4
<1> HIDE DEF last
<1>4. [first |-> first, last |-> last] \in Proper(flow)
  BY <1>2, <1>3 DEF Proper, Segments
<1> QED BY <1>1, <1>3, <1>4 DEF first, last

LEMMA AnalyzeInRange ==
  ASSUME NEW flow, Steps(flow) \in Nat, NEW minArgCount
  PROVE  Analyze(flow, minArgCount) \in { << >> } \cup { << match >> : match \in Proper(flow) }
<1> DEFINE n == Steps(flow)
           Results == { << >> } \cup { << match >> : match \in Proper(flow) }
           FirstOf(i) == Min(Starts(flow, i))
           LastOf(i)  == End(flow, FirstOf(i))
           Enough(i) == Calls(flow, FirstOf(i), LastOf(i)) >= minArgCount
           Segment(i) == << [first |-> FirstOf(i), last |-> LastOf(i)] >>
           Step(f, i) == IF Starts(flow, i) = {} THEN << >> ELSE IF Enough(i) THEN Segment(i) ELSE f[LastOf(i) + 1]
           Missing == { k \in 0 .. (n + 1) : ~ \E f : f = [i \in (n + 1 - k) .. (n + 1) |-> Step(f, i)] }
           search == CHOOSE f : f = [i \in 0 .. (n + 1) |-> Step(f, i)]
<1>0. n \in Nat
  OBVIOUS
<1>1. ASSUME NEW i \in 0 .. (n + 1), Starts(flow, i) # {}
      PROVE  LastOf(i) + 1 \in (i + 1) .. (n + 1) /\ Segment(i) \in Results
  <2>1. FirstOf(i) \in i .. n /\ LastOf(i) \in FirstOf(i) .. n /\ [first |-> FirstOf(i), last |-> LastOf(i)] \in Proper(flow)
    BY <1>1, SegmentIs
  <2> DEFINE a == FirstOf(i)
             b == LastOf(i)
             match == [first |-> FirstOf(i), last |-> LastOf(i)]
  <2>2. match \in Proper(flow) /\ Segment(i) = << match >>
    BY <2>1
  <2>3. a \in i .. n /\ b \in a .. n
    BY <2>1
  <2> HIDE DEF a, b, match
  <2>4. b + 1 \in (i + 1) .. (n + 1)
    BY <1>0, <2>3
  <2>5. << match >> \in Results
    BY <2>2
  <2> QED BY <2>2, <2>4, <2>5 DEF b
<1> HIDE DEF FirstOf, LastOf, Enough, Segment, Results, n, Missing
<1>2. ASSUME NEW i \in 0 .. (n + 1), NEW f, NEW g, \A j \in (i + 1) .. (n + 1) : f[j] = g[j]
      PROVE  Step(f, i) = Step(g, i)
  BY <1>1, <1>2
<1> HIDE DEF Step
<1>3. Missing = {}
  <2>1. SUFFICES ASSUME Missing # {} PROVE FALSE
    OBVIOUS
  <2>2. PICK k \in Missing : \A y \in Missing : k <= y
    <3>1. Missing \subseteq Nat
      BY DEF Missing
    <3> QED BY <2>1, <3>1, LeastNatural
  <2>3. k \in 0 .. (n + 1) /\ ~ \E f : f = [i \in (n + 1 - k) .. (n + 1) |-> Step(f, i)]
    BY DEF Missing
  <2> DEFINE j == n + 1 - k
  <2>4. \E g : \A i \in (j + 1) .. (n + 1) : g[i] = Step(g, i)
    <3>1. CASE k = 0
      <4>1. (j + 1) .. (n + 1) = {}
        BY <1>0, <3>1
      <4> HIDE DEF j
      <4> QED BY <4>1
    <3>2. CASE k # 0
      <4>1. k - 1 \in 0 .. (n + 1) /\ ~ (k <= k - 1) /\ n + 1 - (k - 1) = j + 1
        BY <1>0, <2>3, <3>2
      <4>2. PICK g : g = [i \in (n + 1 - (k - 1)) .. (n + 1) |-> Step(g, i)]
        BY <2>2, <4>1 DEF Missing
      <4>3. g = [i \in (j + 1) .. (n + 1) |-> Step(g, i)]
        <5> HIDE DEF j
        <5> QED BY <4>1, <4>2
      <4> HIDE DEF j
      <4> QED BY <4>3
    <3> QED BY <3>1, <3>2
  <2>5. PICK g : \A i \in (j + 1) .. (n + 1) : g[i] = Step(g, i)
    BY <2>4
  <2> DEFINE h == [i \in j .. (n + 1) |-> IF i = j THEN Step(g, j) ELSE g[i]]
  <2>6. ASSUME NEW i \in j .. (n + 1) PROVE h[i] = Step(h, i)
    <3>1. i \in 0 .. (n + 1) /\ \A l \in (i + 1) .. (n + 1) : l \in j .. (n + 1) /\ l # j
      BY <1>0, <2>3
    <3>2. \A l \in (i + 1) .. (n + 1) : h[l] = g[l]
      BY <3>1
    <3>3. h[i] = IF i = j THEN Step(g, j) ELSE g[i]
      OBVIOUS
    <3>4. i # j => i \in (j + 1) .. (n + 1)
      BY <1>0, <2>3
    <3> HIDE DEF h, j
    <3>5. Step(h, i) = Step(g, i)
      BY <1>2, <3>1, <3>2
    <3>6. i # j => g[i] = Step(g, i)
      BY <2>5, <3>4
    <3> QED BY <3>3, <3>5, <3>6
  <2>7. h = [i \in j .. (n + 1) |-> Step(h, i)]
    <3>1. h = [i \in j .. (n + 1) |-> h[i]]
      OBVIOUS
    <3> HIDE DEF h, j
    <3> QED BY <2>6, <3>1
  <2> HIDE DEF h
  <2> QED BY <2>3, <2>7
<1>4. search = [i \in 0 .. (n + 1) |-> Step(search, i)]
  <2>1. n + 1 \in 0 .. (n + 1) /\ n + 1 - (n + 1) = 0
    BY <1>0
  <2>2. \E f : f = [i \in 0 .. (n + 1) |-> Step(f, i)]
    BY <1>3, <2>1 DEF Missing
  <2> QED BY <2>2
<1>5. Analyze(flow, minArgCount) \in { << >>, search[0] }
  <2> DEFINE search1 == LET search2[i \in 0 .. (Steps(flow) + 1)] ==
                              LET starts == { k \in i .. Steps(flow) : IsPipeableAtIndex(flow, k) } IN
                              IF starts = {} THEN << >>
                              ELSE LET first == Min(starts)
                                       last  == End(flow, first)
                                   IN  IF Calls(flow, first, last) >= minArgCount THEN << [first |-> first, last |-> last] >>
                                       ELSE search2[last + 1]
                        IN  search2[0]
  <2>1. Analyze(flow, minArgCount) \in { << >>, search1 }
    BY DEF Analyze
  <2>2. search1 = search[0]
    BY DEF Step, Starts, FirstOf, LastOf, Enough, Segment, n
  <2> QED BY <2>1, <2>2
<1> HIDE DEF search
<1>6. search[0] \in Results
  <2> DEFINE Bad == { k \in 0 .. (n + 1) : search[n + 1 - k] \notin Results }
  <2>1. Bad = {}
    <3>1. SUFFICES ASSUME Bad # {} PROVE FALSE
      OBVIOUS
    <3>2. PICK k \in Bad : \A y \in Bad : k <= y
      <4>1. Bad \subseteq Nat
        OBVIOUS
      <4> HIDE DEF Bad
      <4> QED BY <3>1, <4>1, LeastNatural
    <3> DEFINE i == n + 1 - k
    <3>3. k \in 0 .. (n + 1) /\ i \in 0 .. (n + 1) /\ search[i] \notin Results
      BY <1>0
    <3> HIDE DEF i
    <3>4. search[i] = Step(search, i)
      BY <1>4, <3>3
    <3>5. << >> \in Results
      BY DEF Results
    <3>6. Starts(flow, i) # {} /\ search[i] = search[LastOf(i) + 1]
      BY <1>1, <3>3, <3>4, <3>5 DEF Step
    <3>7. LastOf(i) + 1 \in (i + 1) .. (n + 1)
      BY <1>1, <3>3, <3>6
    <3> DEFINE l == LastOf(i) + 1
               j == n + 1 - l
    <3>8. l \in (i + 1) .. (n + 1) /\ search[i] = search[l]
      BY <3>6, <3>7
    <3> HIDE DEF l
    <3>9. j \in 0 .. (n + 1) /\ ~ (k <= j) /\ n + 1 - j = l
      BY <1>0, <3>3, <3>8 DEF i
    <3>10. j \notin Bad
      <4> HIDE DEF Bad, j
      <4> QED BY <3>2, <3>9
    <3>11. search[n + 1 - j] \in Results
      <4> HIDE DEF j
      <4> QED BY <3>9, <3>10
    <3>12. search[l] \in Results
      <4> HIDE DEF j
      <4> QED BY <3>9, <3>11
    <3> QED BY <3>3, <3>8, <3>12
  <2>2. n + 1 \in 0 .. (n + 1) /\ n + 1 - (n + 1) = 0
    BY <1>0
  <2> QED BY <2>1, <2>2
<1>7. << >> \in Results
  BY DEF Results
<1>8. Analyze(flow, minArgCount) \in Results
  BY <1>5, <1>6, <1>7
<1> QED BY <1>8 DEF Results

\* What comes of the functions from the a-th on, of what came of those before.
LEMMA AfterSegment ==
  ASSUME NEW x, NEW fs, NEW gs, NEW a \in Nat, Len(fs) \in Nat, Len(gs) \in Nat, a + Len(gs) <= Len(fs),
         \A i \in 1 .. Len(gs) : gs[i] = fs[a + i]
  PROVE  Piped(After(x, fs)[a], gs) = After(x, fs)[a + Len(gs)]
<1> DEFINE n == Len(gs)
           A == After(x, fs)
           C == After(A[a], gs)
           Differ == { i \in 0 .. n : A[a + i] # C[i] }
<1>1. \A i \in 1 .. Len(fs) : A[i] = Apply(fs[i], << A[i - 1] >>)
  BY AfterIs
<1>2. C[0] = A[a] /\ \A i \in 1 .. n : C[i] = Apply(gs[i], << C[i - 1] >>)
  <2> HIDE DEF A
  <2> QED BY AfterIs
<1>3. Piped(A[a], gs) = C[n]
  BY DEF Piped
<1> HIDE DEF A, C
<1>4. Differ = {}
  <2>1. SUFFICES ASSUME Differ # {} PROVE FALSE
    OBVIOUS
  <2>2. PICK i \in Differ : \A y \in Differ : i <= y
    <3>1. Differ \subseteq Nat
      OBVIOUS
    <3> HIDE DEF Differ
    <3> QED BY <2>1, <3>1, LeastNatural
  <2>3. i # 0
    BY <1>2
  <2>4. i \in 1 .. n /\ i - 1 \in 0 .. n /\ ~ (i <= i - 1) /\ a + i \in 1 .. Len(fs) /\ (a + i) - 1 = a + (i - 1)
    BY <2>3
  <2>5. A[a + (i - 1)] = C[i - 1]
    <3>1. i - 1 \notin Differ
      <4> HIDE DEF Differ
      <4> QED BY <2>2, <2>4
    <3> QED BY <2>4, <3>1
  <2>6. gs[i] = fs[a + i]
    BY <2>4
  <2>7. A[a + i] = Apply(fs[a + i], << A[a + (i - 1)] >>) /\ C[i] = Apply(gs[i], << C[i - 1] >>)
    BY <1>1, <1>2, <2>4
  <2>8. A[a + i] = C[i]
    BY <2>5, <2>6, <2>7
  <2> QED BY <2>8
<1>5. n \in 0 .. n
  OBVIOUS
<1> QED BY <1>3, <1>4, <1>5 DEF A

LEMMA ReconstructIs ==
  ASSUME NEW x, NEW ts \in Seq(Steplike), \A i \in DOMAIN ts : ts[i].kind # "effectFn"
  PROVE  Reconstruct(x, ts) = Piped(x, Functions(ts))
<1>1. CASE DOMAIN ts = {}
  <2>1. Len(Functions(ts)) = 0
    <3>1. DOMAIN ts = 1 .. Len(ts) /\ Len(ts) \in Nat /\ Len(Functions(ts)) = Len(ts)
      BY SeqIs, FunctionsIs
    <3> QED BY <1>1, <3>1
  <2>2. After(x, Functions(ts))[0] = x
    BY <2>1, AfterIs
  <2>3. Piped(x, Functions(ts)) = x
    BY <2>1, <2>2 DEF Piped
  <2> QED BY <1>1, <2>3 DEF Reconstruct
<1>2. CASE DOMAIN ts # {}
  BY <1>2 DEF Reconstruct
<1> QED BY <1>1, <1>2

\* The rest of a flow from the a-th transformation to the b-th.
LEMMA SegmentRebuilt ==
  ASSUME NEW x, NEW ts \in Seq(Steplike), \A i \in DOMAIN ts : ts[i].kind # "effectFn",
         NEW a \in Nat, NEW b \in Nat, a <= b, b <= Len(ts)
  PROVE  Reconstruct(After(x, Functions(ts))[a], SubSeq(ts, a + 1, b)) = After(x, Functions(ts))[b]
<1> DEFINE part == SubSeq(ts, a + 1, b)
<1>1. /\ part \in Seq(Steplike) /\ Len(part) = b - a /\ b - a \in Nat
      /\ \A i \in 1 .. (b - a) : part[i] = ts[a + i] /\ a + i \in DOMAIN ts
  <2>1. Len(ts) \in Nat /\ DOMAIN ts = 1 .. Len(ts)
    OBVIOUS
  <2>2. /\ part \in Seq(Steplike)
        /\ Len(part) = IF a + 1 <= b THEN b - (a + 1) + 1 ELSE 0
        /\ \A i \in 1 .. (b - (a + 1) + 1) : part[i] = ts[(a + 1) + i - 1]
    BY <2>1, SubSeqProperties
  <2>3. \A i \in 1 .. (b - a) : (a + 1) + i - 1 = a + i /\ a + i \in 1 .. Len(ts) /\ i \in 1 .. (b - (a + 1) + 1)
    BY <2>1
  <2>4. (IF a + 1 <= b THEN b - (a + 1) + 1 ELSE 0) = b - a /\ b - a \in Nat
    OBVIOUS
  <2> HIDE DEF part
  <2> QED BY <2>1, <2>2, <2>3, <2>4
<1> HIDE DEF part
<1>2. \A i \in DOMAIN part : part[i].kind # "effectFn"
  <2>1. DOMAIN part = 1 .. (b - a)
    BY <1>1, SeqIs
  <2> QED BY <1>1, <2>1
<1> DEFINE y  == After(x, Functions(ts))[a]
           fs == Functions(ts)
           gs == Functions(part)
<1>3. Reconstruct(y, part) = Piped(y, gs)
  <2> HIDE DEF y
  <2> QED BY <1>1, <1>2, ReconstructIs
<1>4. /\ Len(gs) = b - a /\ Len(fs) = Len(ts) /\ Len(ts) \in Nat
      /\ (\A i \in 1 .. (b - a) : gs[i] = Function(part[i]))
      /\ (\A i \in 1 .. Len(ts) : fs[i] = Function(ts[i]))
      /\ DOMAIN ts = 1 .. Len(ts)
  BY <1>1, FunctionsIs, SeqIs
<1> HIDE DEF fs, gs
<1>5. /\ Len(fs) \in Nat /\ Len(gs) \in Nat /\ a + Len(gs) <= Len(fs) /\ a + Len(gs) = b
      /\ \A i \in 1 .. Len(gs) : gs[i] = fs[a + i]
  BY <1>1, <1>4
<1>6. Piped(After(x, fs)[a], gs) = After(x, fs)[a + Len(gs)]
  <2>1. Len(fs) \in Nat /\ Len(gs) \in Nat /\ a + Len(gs) <= Len(fs)
    BY <1>5
  <2>2. \A i \in 1 .. Len(gs) : gs[i] = fs[a + i]
    BY <1>5
  <2> QED BY <2>1, <2>2, AfterSegment
<1>7. After(x, fs)[a + Len(gs)] = After(x, fs)[b]
  BY <1>5
<1> QED BY <1>3, <1>6, <1>7 DEF y, fs, part

LEMMA FlowMeans ==
  ASSUME Typed, NEW flow \in Finished, Kept(flow.node, flow.transformations, flow.subject), ~ Bare(flow)
  PROVE  /\ Reconstruct(Meaning(flow.subject), flow.transformations) = Meaning(flow.node)
         /\ \A match \in Fixes(flow) : Short(flow, match) \/ Fixed(flow, match) = Meaning(flow.node)
<1> DEFINE n  == flow.node
           ts == flow.transformations
           x  == Meaning(flow.subject)
           A  == After(x, Functions(ts))
<1>1. n \in Node /\ flow.subject \in Node /\ ts \in Seq(Steplike) /\ n # 0
  BY Numbered DEF Finished
<1>2. Len(ts) \in Nat /\ Steps(flow) = Len(ts)
  BY <1>1 DEF Steps
<1>3. ~ Loose(ts)
  BY DEF Bare, Loose
<1>4. (\A i \in DOMAIN ts : ts[i].kind # "effectFn") /\ PartsKept(n, ts, flow.subject)
  BY <1>3 DEF Kept
<1>5. \A k \in 0 .. Len(ts) : Inside(flow)[k] = Way(n, ts, k)
  <2> DEFINE g == Partial(n, ts)
  <2>1. Steps(g) = 0 + Steps(flow) /\ g.node = flow.node /\ g.transformations = ts
    BY <1>2 DEF Steps, Partial
  <2>2. \A i \in 1 .. Steps(flow) : g.transformations[0 + i] = flow.transformations[i]
    BY <1>2, <2>1
  <2> HIDE DEF g
  <2>3. 0 \in Nat /\ Steps(flow) \in Nat
    BY <1>2
  <2>4. \A k \in 0 .. Steps(flow) : Inside(g)[0 + k] = Inside(flow)[k]
    BY <2>1, <2>2, <2>3, InsideShifted
  <2>5. \A k \in 0 .. Len(ts) : Inside(g)[k] = Inside(flow)[k]
    BY <1>2, <2>4
  <2> QED BY <2>5 DEF Way, g
<1>6. A[Len(ts)] = Meaning(n) /\ A[0] = x
  <2>1. Way(n, ts, Len(ts)) = n
    <3>1. Inside(flow)[Steps(flow)] = flow.node
      BY <1>2, InsideIs
    <3> QED BY <1>2, <1>5, <3>1
  <2>2. Len(ts) \in 0 .. Len(ts) /\ (Len(ts) + 1) .. Len(ts) = {}
    BY <1>2
  <2>3. Meaning(Way(n, ts, Len(ts))) = A[Len(ts)]
    <3> HIDE DEF A
    <3>1. PartsKept(n, ts, flow.subject) <=>
            \A k \in 0 .. Len(ts) : Way(n, ts, k) # 0 =>
              \/ \E j \in (k + 1) .. Len(ts) : EmptyPipe(Way(n, ts, j))
              \/ Meaning(Way(n, ts, k)) = A[k]
      BY DEF PartsKept, A
    <3> QED BY <1>1, <1>4, <2>1, <2>2, <3>1
  <2>4. Len(Functions(ts)) \in Nat
    BY <1>1, <1>2, FunctionsIs
  <2>5. A[0] = x
    BY <2>4, AfterIs
  <2> QED BY <2>1, <2>3, <2>5
<1>7. Reconstruct(x, ts) = Meaning(n)
  <2>1. Reconstruct(x, ts) = Piped(x, Functions(ts))
    BY <1>1, <1>4, ReconstructIs
  <2>2. Piped(x, Functions(ts)) = A[Len(ts)]
    BY <1>1, FunctionsIs DEF Piped
  <2> QED BY <1>6, <2>1, <2>2
<1>8. ASSUME NEW match \in Fixes(flow), ~ Short(flow, match)
      PROVE  Fixed(flow, match) = Meaning(n)
  <2>1. match \in Proper(flow) /\ SubjectAtDepth(flow, match.first) # 0
    <3>1. PICK minArgCount \in 1 .. 2 : match \in ToSet(Analyze(flow, minArgCount))
      BY DEF Fixes
    <3>2. Analyze(flow, minArgCount) \in { << >> } \cup { << m >> : m \in Proper(flow) }
      BY <1>2, AnalyzeInRange
    <3>3. match \in Proper(flow)
      BY <3>1, <3>2 DEF ToSet
    <3> QED BY <3>3 DEF Fixes
  <2> DEFINE a == match.first
             b == match.last
  <2>2. a \in 0 .. Len(ts) /\ b \in 0 .. Len(ts) /\ a <= b
    BY <1>2, <2>1 DEF Proper, Segments
  <2> HIDE DEF a, b
  <2>3. Meaning(SubjectAtDepth(flow, a)) = A[a]
    <3>1. CASE a = 0
      BY <1>6, <3>1 DEF SubjectAtDepth
    <3>2. CASE a # 0
      <4>1. SubjectAtDepth(flow, a) = Way(n, ts, a) /\ Way(n, ts, a) # 0
        BY <1>5, <2>1, <2>2, <3>2 DEF SubjectAtDepth, a
      <4>2. \A j \in (a + 1) .. Len(ts) : ~ EmptyPipe(Way(n, ts, j))
        <5>1. \A k \in (a + 1) .. Steps(flow) : ~ EmptyPipe(Inside(flow)[k])
          BY <1>8 DEF Short, EmptyPipe, a
        <5>2. \A j \in (a + 1) .. Len(ts) : j \in 0 .. Len(ts)
          BY <1>2, <2>2
        <5> QED BY <1>2, <1>5, <5>1, <5>2
      <4>3. Meaning(Way(n, ts, a)) = A[a]
        BY <1>4, <2>2, <4>1, <4>2 DEF PartsKept
      <4> QED BY <4>1, <4>3
    <3> QED BY <3>1, <3>2
  <2>4. Reconstruct(A[a], SubSeq(ts, a + 1, b)) = A[b]
    <3>1. a \in Nat /\ b \in Nat /\ a <= b /\ b <= Len(ts)
      BY <1>2, <2>2
    <3> HIDE DEF x
    <3> QED BY <1>1, <1>4, <3>1, SegmentRebuilt
  <2>5. Reconstruct(A[b], SubSeq(ts, b + 1, Len(ts))) = A[Len(ts)]
    <3>1. b \in Nat /\ b <= Len(ts)
      BY <1>2, <2>2
    <3> HIDE DEF x
    <3> QED BY <1>1, <1>2, <1>4, <3>1, SegmentRebuilt
  <2>6. Fixed(flow, match) =
          Reconstruct(Reconstruct(Meaning(SubjectAtDepth(flow, a)), SubSeq(ts, a + 1, b)), SubSeq(ts, b + 1, Len(ts)))
    BY DEF Fixed, a, b
  <2> HIDE DEF A
  <2> QED BY <1>6, <2>3, <2>4, <2>5, <2>6
<1> QED BY <1>7, <1>8

(***************************************************************************)
(* For every source, a flow that is read from nested calls and pipes means *)
(* what they do (reconstruct.go:24), and so does what the fix of           *)
(* missedPipeableOpportunity writes for it, but for the two cases that     *)
(* Bare and Short name.                                                    *)
(***************************************************************************)
THEOREM MeaningKeptAlways == Spec => []MeaningKept
<1>1. Init => Typed /\ AllKept
  BY InitTyped, InitKept
<1>2. Typed /\ AllKept /\ [Next]_vars => Typed' /\ AllKept'
  BY NextTyped, NextKept
<1>3. Typed /\ AllKept => MeaningKept
  <2> SUFFICES ASSUME Typed, AllKept, NEW i \in DOMAIN result, ~ Bare(result[i])
               PROVE  /\ Reconstruct(Meaning(result[i].subject), result[i].transformations) = Meaning(result[i].node)
                      /\ ~ includeEffectFn => \A match \in Fixes(result[i]) :
                           Short(result[i], match) \/ Fixed(result[i], match) = Meaning(result[i].node)
    BY DEF MeaningKept
  <2>1. result[i] \in Finished
    BY TypeOKIs DEF Typed
  <2>2. CASE Whole(result[i])
    <3>1. Reconstruct(Meaning(result[i].subject), result[i].transformations) = Meaning(result[i].subject)
      BY <2>2 DEF Whole, Reconstruct
    <3> QED BY <2>2, <3>1 DEF Whole
  <2>3. CASE Kept(result[i].node, result[i].transformations, result[i].subject)
    BY <2>1, <2>3, FlowMeans
  <2> QED BY <2>2, <2>3 DEF AllKept, FlowKept
<1> QED BY <1>1, <1>2, <1>3, PTL DEF Spec

-----------------------------------------------------------------------------
(***************************************************************************)
(* That every call is in one flow and in no other.                         *)
(***************************************************************************)
LEMMA ConcatDistinct ==
  ASSUME NEW S, NEW s \in Seq(S), NEW t \in Seq(S)
  PROVE  /\ ToSet(s \o t) = ToSet(s) \cup ToSet(t)
         /\ IsInjective(s) /\ IsInjective(t) /\ ToSet(s) \cap ToSet(t) = {} => IsInjective(s \o t)
<1> DEFINE u == s \o t
<1>1. /\ Len(s) \in Nat /\ Len(t) \in Nat
      /\ DOMAIN s = 1 .. Len(s) /\ DOMAIN t = 1 .. Len(t) /\ DOMAIN u = 1 .. (Len(s) + Len(t))
      /\ \A i \in 1 .. Len(s) : u[i] = s[i]
      /\ \A i \in 1 .. Len(t) : u[Len(s) + i] = t[i]
  BY ConcatIs
<1> HIDE DEF u
<1>2. \A i \in DOMAIN u : i \in DOMAIN s \/ (i - Len(s) \in DOMAIN t /\ Len(s) + (i - Len(s)) = i)
  BY <1>1
<1>3. \A i \in DOMAIN s : i \in DOMAIN u /\ u[i] = s[i]
  BY <1>1
<1>4. \A i \in DOMAIN t : Len(s) + i \in DOMAIN u /\ u[Len(s) + i] = t[i]
  BY <1>1
<1>5. \A i \in DOMAIN u : i \notin DOMAIN s => i - Len(s) \in DOMAIN t /\ u[i] = t[i - Len(s)]
  BY <1>1, <1>2
<1>6. ToSet(u) = ToSet(s) \cup ToSet(t)
  <2>1. \A i \in DOMAIN u : u[i] \in ToSet(s) \cup ToSet(t)
    BY <1>3, <1>5 DEF ToSet
  <2>2. \A i \in DOMAIN s : s[i] \in ToSet(u)
    BY <1>3 DEF ToSet
  <2>3. \A i \in DOMAIN t : t[i] \in ToSet(u)
    BY <1>4 DEF ToSet
  <2> QED BY <2>1, <2>2, <2>3 DEF ToSet
<1>7. ASSUME IsInjective(s), IsInjective(t), ToSet(s) \cap ToSet(t) = {}, NEW i \in DOMAIN u, NEW j \in DOMAIN u, u[i] = u[j]
      PROVE  i = j
  <2>1. \A k \in DOMAIN s, l \in DOMAIN t : s[k] # t[l]
    BY <1>7 DEF ToSet
  <2>2. CASE i \in DOMAIN s /\ j \in DOMAIN s
    BY <1>3, <1>7, <2>2 DEF IsInjective
  <2>3. CASE i \in DOMAIN s /\ j \notin DOMAIN s
    BY <1>3, <1>5, <1>7, <2>1, <2>3
  <2>4. CASE i \notin DOMAIN s /\ j \in DOMAIN s
    BY <1>3, <1>5, <1>7, <2>1, <2>4
  <2>5. CASE i \notin DOMAIN s /\ j \notin DOMAIN s
    <3>1. i - Len(s) = j - Len(s)
      BY <1>5, <1>7, <2>5 DEF IsInjective
    <3> QED BY <1>1, <3>1
  <2> QED BY <2>2, <2>3, <2>4, <2>5
<1>8. IsInjective(s) /\ IsInjective(t) /\ ToSet(s) \cap ToSet(t) = {} => IsInjective(u)
  BY <1>7 DEF IsInjective
<1> QED BY <1>6, <1>8 DEF u

LEMMA FlattenDistinct ==
  ASSUME NEW cs \in Seq(Seq(Node)), \A i \in DOMAIN cs : IsInjective(cs[i]),
         \A i, j \in DOMAIN cs : i # j => ToSet(cs[i]) \cap ToSet(cs[j]) = {}
  PROVE  /\ FlattenSeq(cs) \in Seq(Node) /\ IsInjective(FlattenSeq(cs))
         /\ ToSet(FlattenSeq(cs)) = UNION { ToSet(cs[i]) : i \in DOMAIN cs }
<1> DEFINE n == Len(cs)
           All(k) == UNION { ToSet(cs[i]) : i \in 1 .. k }
<1>1. n \in Nat /\ DOMAIN cs = 1 .. n /\ \A i \in 1 .. n : cs[i] \in Seq(Node)
  OBVIOUS
<1>2. CASE n = 0
  <2>1. cs = << >> /\ << >> \in Seq(Node) /\ DOMAIN << >> = {} /\ FlattenSeq(cs) = << >>
    BY <1>2 DEF FlattenSeq
  <2> QED BY <2>1 DEF IsInjective, ToSet
<1>3. CASE n # 0
  <2>1. PICK f \in [1 .. n -> Seq(Node)] :
          /\ f[1] = cs[1] /\ \A i \in 1 .. n : i # 1 => f[i] = f[i - 1] \o cs[i]
          /\ FlattenSeq(cs) = f[n]
    BY <1>3, FlattenIs
  <2> DEFINE Good(k) == IsInjective(f[k]) /\ ToSet(f[k]) = All(k)
             Bad == { k \in 1 .. n : ~ Good(k) }
  <2>2. Bad = {}
    <3>1. SUFFICES ASSUME Bad # {} PROVE FALSE
      OBVIOUS
    <3>2. PICK k \in Bad : \A y \in Bad : k <= y
      <4>1. Bad \subseteq Nat
        OBVIOUS
      <4> HIDE DEF Bad
      <4> QED BY <3>1, <4>1, LeastNatural
    <3>3. k \in 1 .. n /\ ~ Good(k)
      OBVIOUS
    <3>4. CASE k = 1
      <4>1. All(1) = ToSet(cs[1])
        OBVIOUS
      <4>2. IsInjective(f[1]) /\ ToSet(f[1]) = ToSet(cs[1])
        BY <1>1, <2>1, <3>3, <3>4
      <4> QED BY <3>3, <3>4, <4>1, <4>2
    <3>5. CASE k # 1
      <4>1. k - 1 \in 1 .. n /\ ~ (k <= k - 1)
        BY <1>1, <3>3, <3>5
      <4>2. Good(k - 1)
        <5>1. k - 1 \notin Bad
          <6> HIDE DEF Bad
          <6> QED BY <3>2, <4>1
        <5> HIDE DEF Good
        <5> QED BY <4>1, <5>1
      <4>3. All(k) = All(k - 1) \cup ToSet(cs[k])
        <5>1. 1 .. k = 1 .. (k - 1) \cup {k}
          BY <3>3
        <5> QED BY <5>1
      <4>4. All(k - 1) \cap ToSet(cs[k]) = {}
        <5>1. \A i \in 1 .. (k - 1) : i \in DOMAIN cs /\ i # k /\ k \in DOMAIN cs
          BY <1>1, <3>3
        <5>2. \A i \in 1 .. (k - 1) : ToSet(cs[i]) \cap ToSet(cs[k]) = {}
          BY <5>1
        <5> QED BY <5>2
      <4>5. f[k] = f[k - 1] \o cs[k] /\ f[k - 1] \in Seq(Node) /\ cs[k] \in Seq(Node) /\ IsInjective(cs[k])
        BY <1>1, <2>1, <3>3, <3>5, <4>1
      <4>6. IsInjective(f[k - 1]) /\ ToSet(f[k - 1]) = All(k - 1)
        BY <4>2
      <4> HIDE DEF All
      <4>7. IsInjective(f[k]) /\ ToSet(f[k]) = All(k)
        BY <4>3, <4>4, <4>5, <4>6, ConcatDistinct
      <4> QED BY <3>3, <4>7
    <3> QED BY <3>4, <3>5
  <2>3. n \in 1 .. n
    BY <1>1, <1>3
  <2>4. Good(n)
    <3> HIDE DEF Good
    <3> QED BY <2>2, <2>3
  <2>5. All(n) = UNION { ToSet(cs[i]) : i \in DOMAIN cs }
    BY <1>1
  <2> HIDE DEF All, n
  <2> QED BY <2>1, <2>3, <2>4, <2>5
<1> QED BY <1>2, <1>3

-----------------------------------------------------------------------------
(***************************************************************************)
(* The tree, and what a call applies.                                      *)
(***************************************************************************)
PartsOf(n) == Parts(source[n])

LEMMA PartsIs ==
  ASSUME Parsed, NEW n \in Node
  PROVE  /\ PartsOf(n) \subseteq Node
         /\ \A c \in PartsOf(n) : c > n /\ c # File
         /\ \A m \in Node : m # n => PartsOf(m) \cap PartsOf(n) = {}
         /\ PartsOf(n) # {} => n = File \/ \E m \in Node : n \in PartsOf(m)
         /\ source[n].callee # 0 => source[n].callee \notin {subject(n)} \cup ToSet(args(n))
         /\ subject(n) # 0 => subject(n) \notin ToSet(args(n))
         /\ IsInjective(args(n)) /\ ToSet(args(n)) \subseteq PartsOf(n)
         /\ source[n].callee # 0 <=> kind(n) \in {"call"} \cup DataKind
         /\ subject(n) # 0 <=> kind(n) \in {"effectFn"} \cup PipeKind \cup DataKind
         /\ source[n].callee # 0 => source[n].callee \in PartsOf(n)
         /\ subject(n) # 0 => subject(n) \in PartsOf(n)
         /\ PartsOf(n) = (({source[n].callee, subject(n)}) \ {0}) \cup ToSet(args(n))
         /\ kind(n) = "effectFn" => kind(subject(n)) = "function"
<1>1. /\ args(n) \in Seq(Node) /\ source[n].callee \in Node \cup {0} /\ subject(n) \in Node \cup {0}
      /\ \A i \in DOMAIN args(n) : args(n)[i] \in Node
  BY Members
<1>2. /\ \A c \in PartsOf(n) : c > n /\ c # File /\ \A m \in 1 .. (n - 1) : c \notin PartsOf(m)
      /\ source[n].callee \in PartsOf(n) => source[n].callee \notin {source[n].subject} \cup ToSet(source[n].args)
      /\ source[n].subject \in PartsOf(n) => source[n].subject \notin ToSet(source[n].args)
      /\ IsInjective(source[n].args)
      /\ PartsOf(n) # {} => n = File \/ \E m \in 1 .. (n - 1) : n \in PartsOf(m)
  BY DEF Parsed, Tree, PartsOf
<1>3. /\ source[n].kind \in {"call"} \cup DataKind <=> source[n].callee # 0
      /\ source[n].kind \in {"effectFn"} \cup PipeKind \cup DataKind <=> source[n].subject # 0
      /\ source[n].kind = "effectFn" => source[source[n].subject].kind = "function"
  BY DEF Parsed, Parses
<1>4. PartsOf(n) = (({source[n].callee, subject(n)}) \ {0}) \cup ToSet(args(n))
  <2>1. 0 \notin ToSet(args(n))
    BY <1>1, Numbered DEF ToSet
  <2> QED BY <2>1 DEF PartsOf, Parts, subject, args
<1>5. PartsOf(n) \subseteq Node
  BY <1>1, <1>4 DEF ToSet
<1>6. ASSUME NEW m \in Node, m # n PROVE PartsOf(m) \cap PartsOf(n) = {}
  <2>1. m \in Nat /\ n \in Nat /\ m >= 1 /\ n >= 1
    BY Numbered
  <2>2. CASE m < n
    <3>1. m \in 1 .. (n - 1)
      BY <2>1, <2>2
    <3> QED BY <1>2, <3>1
  <2>3. CASE n < m
    <3>1. n \in 1 .. (m - 1)
      BY <2>1, <2>3
    <3>2. \A c \in PartsOf(m) : \A l \in 1 .. (m - 1) : c \notin PartsOf(l)
      BY DEF Parsed, Tree, PartsOf
    <3> QED BY <3>1, <3>2
  <2> QED BY <1>6, <2>1, <2>2, <2>3
<1>7. \A m \in 1 .. (n - 1) : m \in Node
  <2>1. n \in Nat /\ Cardinality(Node) \in Nat /\ n <= Cardinality(Node) /\ Node = 1 .. Cardinality(Node)
    BY Numbered
  <2> DEFINE N == Cardinality(Node)
  <2> HIDE DEF N
  <2>2. n \in Nat /\ N \in Nat /\ n <= N
    BY <2>1 DEF N
  <2>3. \A m \in 1 .. (n - 1) : m \in 1 .. N
    BY <2>2
  <2> QED BY <2>1, <2>3 DEF N
<1> QED BY <1>2, <1>3, <1>4, <1>5, <1>6, <1>7 DEF subject, args, kind

LEMMA ChildrenIs ==
  ASSUME Parsed, NEW n \in Node
  PROVE  Children(n) \in Seq(Node) /\ ToSet(Children(n)) = PartsOf(n) /\ IsInjective(Children(n))
<1> DEFINE c == Known(source[n].callee)
           r == Known(subject(n))
<1>1. \A m \in Node \cup {0} :
        /\ Known(m) \in Seq(Node) /\ IsInjective(Known(m))
        /\ ToSet(Known(m)) = {m} \ {0}
  <2> SUFFICES ASSUME NEW m \in Node \cup {0}
               PROVE  Known(m) \in Seq(Node) /\ IsInjective(Known(m)) /\ ToSet(Known(m)) = {m} \ {0}
    OBVIOUS
  <2>1. CASE m = 0
    <3>1. Known(m) = << >> /\ DOMAIN << >> = {} /\ << >> \in Seq(Node)
      BY <2>1 DEF Known
    <3> QED BY <2>1, <3>1 DEF IsInjective, ToSet
  <2>2. CASE m # 0
    <3>1. Known(m) = << m >> /\ DOMAIN << m >> = {1} /\ << m >> \in Seq(Node) /\ << m >>[1] = m
      BY <2>2 DEF Known
    <3> QED BY <2>2, <3>1 DEF IsInjective, ToSet
  <2> QED BY <2>1, <2>2
<1>2. /\ source[n].callee \in Node \cup {0} /\ subject(n) \in Node \cup {0} /\ args(n) \in Seq(Node)
      /\ IsInjective(args(n))
  BY Members, PartsIs
<1>3. /\ c \in Seq(Node) /\ IsInjective(c) /\ ToSet(c) = {source[n].callee} \ {0}
      /\ r \in Seq(Node) /\ IsInjective(r) /\ ToSet(r) = {subject(n)} \ {0}
  BY <1>1, <1>2
<1>4. ToSet(r) \cap ToSet(args(n)) = {} /\ ToSet(c) \cap (ToSet(r) \cup ToSet(args(n))) = {}
  BY <1>3, PartsIs
<1>5. ToSet(c) \cup (ToSet(r) \cup ToSet(args(n))) = PartsOf(n)
  BY <1>3, PartsIs
<1>6. Children(n) = c \o (IF kind(n) = "dataLast" THEN args(n) \o r ELSE r \o args(n))
  BY DEF Children
<1> HIDE DEF c, r
<1>7. /\ args(n) \o r \in Seq(Node) /\ ToSet(args(n) \o r) = ToSet(r) \cup ToSet(args(n)) /\ IsInjective(args(n) \o r)
  BY <1>2, <1>3, <1>4, ConcatDistinct, ConcatProperties
<1>8. /\ r \o args(n) \in Seq(Node) /\ ToSet(r \o args(n)) = ToSet(r) \cup ToSet(args(n)) /\ IsInjective(r \o args(n))
  BY <1>2, <1>3, <1>4, ConcatDistinct, ConcatProperties
<1> DEFINE rest == IF kind(n) = "dataLast" THEN args(n) \o r ELSE r \o args(n)
<1>9. rest \in Seq(Node) /\ ToSet(rest) = ToSet(r) \cup ToSet(args(n)) /\ IsInjective(rest)
  BY <1>7, <1>8
<1>10. Children(n) = c \o rest
  BY <1>6
<1> HIDE DEF rest
<1>11. ToSet(c) \cap ToSet(rest) = {} /\ ToSet(c) \cup ToSet(rest) = PartsOf(n)
  BY <1>4, <1>5, <1>9
<1>12. c \o rest \in Seq(Node)
  BY <1>3, <1>9, ConcatProperties
<1>13. ToSet(c \o rest) = PartsOf(n) /\ IsInjective(c \o rest)
  <2>1. c \in Seq(Node) /\ rest \in Seq(Node) /\ IsInjective(c) /\ IsInjective(rest)
    BY <1>3, <1>9
  <2>2. ToSet(c \o rest) = ToSet(c) \cup ToSet(rest)
    BY <2>1, ConcatDistinct
  <2>3. IsInjective(c \o rest)
    BY <1>11, <2>1, ConcatDistinct
  <2> QED BY <1>11, <2>2, <2>3
<1> QED BY <1>10, <1>12, <1>13

\* What is applied by a call of a flow: it is passed over, and what is in it is
\* searched.
Applied(n) ==
  IF IsEffectFn(n) THEN << subject(n) >> \o args(n)
  ELSE IF kind(n) \in PipeKind THEN args(n)
  ELSE IF kind(n) \in DataKind THEN << source[n].callee >> \o args(n)
  ELSE << source[n].callee >>

Inner(n) == IF PipingCall(n) THEN ChildrenOf(Applied(n)) ELSE Children(n)

\* What is put in the queue for it.
Opened(n) == ToSet(Inner(n)) \cup IF GoesIn(n) THEN {Subject(n)} ELSE {}

LEMMA AppliedIs ==
  ASSUME Parsed, NEW n \in Node, PipingCall(n)
  PROVE  /\ Applied(n) \in Seq(Node) /\ IsInjective(Applied(n))
         /\ GoesIn(n) => Subject(n) \in PartsOf(n) /\ ToSet(Applied(n)) = PartsOf(n) \ {Subject(n)}
         /\ ~ GoesIn(n) => ToSet(Applied(n)) = PartsOf(n)
         /\ \A m \in Node : m \in Applies(n) => m \in ToSet(Applied(n))
         /\ \A m \in Node : m \in ToSet(Applied(n)) /\ m \notin Applies(n) => kind(m) = "function"
<1>1. /\ args(n) \in Seq(Node) /\ source[n].callee \in Node \cup {0} /\ subject(n) \in Node \cup {0}
      /\ 0 \notin Node
  BY Members, Numbered
<1>2. /\ source[n].callee # 0 => source[n].callee \notin {subject(n)} \cup ToSet(args(n))
      /\ subject(n) # 0 => subject(n) \notin ToSet(args(n))
      /\ IsInjective(args(n))
      /\ source[n].callee # 0 <=> kind(n) \in {"call"} \cup DataKind
      /\ subject(n) # 0 <=> kind(n) \in {"effectFn"} \cup PipeKind \cup DataKind
      /\ PartsOf(n) = (({source[n].callee, subject(n)}) \ {0}) \cup ToSet(args(n))
      /\ kind(n) = "effectFn" => kind(subject(n)) = "function"
  BY PartsIs
<1>3. \A m \in Node : << m >> \in Seq(Node) /\ ToSet(<< m >>) = {m} /\ IsInjective(<< m >>)
  BY DEF ToSet, IsInjective
<1>4. \A m \in Node : m \notin ToSet(args(n)) =>
        /\ << m >> \o args(n) \in Seq(Node) /\ IsInjective(<< m >> \o args(n))
        /\ ToSet(<< m >> \o args(n)) = {m} \cup ToSet(args(n))
  <2> SUFFICES ASSUME NEW m \in Node, m \notin ToSet(args(n))
               PROVE  /\ << m >> \o args(n) \in Seq(Node) /\ IsInjective(<< m >> \o args(n))
                      /\ ToSet(<< m >> \o args(n)) = {m} \cup ToSet(args(n))
    OBVIOUS
  <2> DEFINE s == << m >>
             t == args(n)
  <2>1. s \in Seq(Node) /\ ToSet(s) = {m} /\ IsInjective(s) /\ t \in Seq(Node) /\ IsInjective(t)
    BY <1>1, <1>2, <1>3
  <2>2. ToSet(s) \cap ToSet(t) = {}
    BY <2>1
  <2> HIDE DEF s, t
  <2>3. s \o t \in Seq(Node) /\ ToSet(s \o t) = ToSet(s) \cup ToSet(t) /\ IsInjective(s \o t)
    BY <2>1, <2>2, ConcatDistinct, ConcatProperties
  <2> QED BY <2>1, <2>3 DEF s, t
<1>5. CASE IsEffectFn(n)
  <2>1. kind(n) = "effectFn" /\ subject(n) \in Node /\ subject(n) \notin ToSet(args(n)) /\ source[n].callee = 0
    BY <1>1, <1>2, <1>5 DEF IsEffectFn, PipeKind, DataKind
  <2>2. Applied(n) = << subject(n) >> \o args(n) /\ ~ GoesIn(n)
    BY <1>5 DEF Applied, GoesIn
  <2>3. Applies(n) = {0} \cup ToSet(args(n))
    BY <2>1 DEF Applies, ParseSingleArgCall
  <2>4. PartsOf(n) = {subject(n)} \cup ToSet(args(n))
    BY <1>1, <1>2, <2>1
  <2>5. /\ Applied(n) \in Seq(Node) /\ IsInjective(Applied(n)) /\ ToSet(Applied(n)) = {subject(n)} \cup ToSet(args(n))
    BY <1>4, <2>1, <2>2
  <2> QED BY <1>1, <1>2, <2>1, <2>2, <2>3, <2>4, <2>5
<1>6. CASE kind(n) \in PipeKind
  <2>1. subject(n) \in Node /\ subject(n) \notin ToSet(args(n)) /\ source[n].callee = 0 /\ kind(n) # "call" /\ ~ IsEffectFn(n)
    BY <1>1, <1>2, <1>6 DEF PipeKind, DataKind, IsEffectFn
  <2>2. Applied(n) = args(n) /\ GoesIn(n) /\ Subject(n) = subject(n)
    BY <1>6, <2>1 DEF Applied, GoesIn, Subject
  <2>3. Applies(n) = {0} \cup ToSet(args(n))
    BY <2>1 DEF Applies, ParseSingleArgCall
  <2>4. PartsOf(n) = {subject(n)} \cup ToSet(args(n))
    BY <1>1, <1>2, <2>1
  <2> QED BY <1>1, <1>2, <2>1, <2>2, <2>3, <2>4
<1>7. CASE kind(n) \in DataKind
  <2>1. /\ subject(n) \in Node /\ subject(n) \notin ToSet(args(n)) /\ source[n].callee \in Node
        /\ source[n].callee \notin {subject(n)} \cup ToSet(args(n)) /\ kind(n) # "call" /\ ~ IsEffectFn(n)
        /\ kind(n) \notin PipeKind
    BY <1>1, <1>2, <1>7 DEF PipeKind, DataKind, IsEffectFn
  <2>2. Applied(n) = << source[n].callee >> \o args(n) /\ GoesIn(n) /\ Subject(n) = subject(n)
    BY <1>7, <2>1 DEF Applied, GoesIn, Subject
  <2>3. Applies(n) = {source[n].callee} \cup ToSet(args(n))
    BY <2>1 DEF Applies, ParseSingleArgCall
  <2>4. PartsOf(n) = {source[n].callee, subject(n)} \cup ToSet(args(n))
    BY <1>1, <1>2, <2>1
  <2>5. /\ Applied(n) \in Seq(Node) /\ IsInjective(Applied(n))
        /\ ToSet(Applied(n)) = {source[n].callee} \cup ToSet(args(n))
    BY <1>4, <2>1, <2>2
  <2> QED BY <1>1, <1>2, <2>1, <2>2, <2>3, <2>4, <2>5
<1>8. CASE ParseSingleArgCall(n)
  <2>1. /\ subject(n) = 0 /\ source[n].callee \in Node /\ kind(n) = "call" /\ Len(args(n)) = 1
        /\ source[n].callee \notin ToSet(args(n)) /\ ~ IsEffectFn(n) /\ kind(n) \notin PipeKind \cup DataKind
    BY <1>1, <1>2, <1>8 DEF PipeKind, DataKind, IsEffectFn, ParseSingleArgCall
  <2>2. ToSet(args(n)) = {args(n)[1]}
    BY <1>1, <2>1 DEF ToSet
  <2>3. Applied(n) = << source[n].callee >> /\ GoesIn(n) /\ Subject(n) = args(n)[1]
    BY <1>8, <2>1 DEF Applied, GoesIn, Subject, PipingCall
  <2>4. Applies(n) = {source[n].callee}
    BY <1>8 DEF Applies
  <2>5. PartsOf(n) = {source[n].callee, args(n)[1]} /\ source[n].callee # args(n)[1]
    BY <1>1, <1>2, <2>1, <2>2
  <2> QED BY <1>1, <1>3, <2>1, <2>3, <2>4, <2>5
<1> QED BY <1>5, <1>6, <1>7, <1>8 DEF PipingCall

LEMMA InnerIs ==
  ASSUME Parsed, NEW n \in Node
  PROVE  /\ Inner(n) \in Seq(Node) /\ IsInjective(Inner(n))
         /\ PipingCall(n) => ToSet(Inner(n)) = UNION { PartsOf(m) : m \in ToSet(Applied(n)) }
         /\ ~ PipingCall(n) => ToSet(Inner(n)) = PartsOf(n)
<1>1. CASE ~ PipingCall(n)
  BY <1>1, ChildrenIs DEF Inner
<1>2. CASE PipingCall(n)
  <2> DEFINE ns == Applied(n)
             cs == [i \in DOMAIN ns |-> Children(ns[i])]
  <2>1. ns \in Seq(Node) /\ IsInjective(ns)
    BY <1>2, AppliedIs
  <2> HIDE DEF ns
  <2>2. Len(ns) \in Nat /\ DOMAIN ns = 1 .. Len(ns) /\ \A i \in DOMAIN ns : ns[i] \in Node
    BY <2>1
  <2>3. DOMAIN cs = DOMAIN ns
    OBVIOUS
  <2>4. \A i \in DOMAIN ns : cs[i] \in Seq(Node) /\ ToSet(cs[i]) = PartsOf(ns[i]) /\ IsInjective(cs[i])
    BY <2>2, ChildrenIs
  <2>5. cs \in Seq(Seq(Node))
    <3>1. cs \in [1 .. Len(ns) -> Seq(Node)]
      BY <2>2, <2>4
    <3> HIDE DEF cs
    <3> QED BY <2>2, <3>1
  <2>6. FlattenSeq(cs) = Inner(n)
    BY <1>2 DEF Inner, ChildrenOf, ns
  <2> HIDE DEF cs
  <2>7. \A i, j \in DOMAIN cs : i # j => ToSet(cs[i]) \cap ToSet(cs[j]) = {}
    <3> SUFFICES ASSUME NEW i \in DOMAIN cs, NEW j \in DOMAIN cs, i # j
                 PROVE  ToSet(cs[i]) \cap ToSet(cs[j]) = {}
      OBVIOUS
    <3>1. ns[i] \in Node /\ ns[j] \in Node /\ ns[i] # ns[j]
      BY <2>1, <2>2, <2>3 DEF IsInjective
    <3> QED BY <2>3, <2>4, <3>1, PartsIs
  <2>8. /\ FlattenSeq(cs) \in Seq(Node) /\ IsInjective(FlattenSeq(cs))
        /\ ToSet(FlattenSeq(cs)) = UNION { ToSet(cs[i]) : i \in DOMAIN cs }
    BY <2>3, <2>4, <2>5, <2>7, FlattenDistinct
  <2>9. UNION { ToSet(cs[i]) : i \in DOMAIN cs } = UNION { PartsOf(m) : m \in ToSet(ns) }
    BY <2>3, <2>4 DEF ToSet
  <2> QED BY <1>2, <2>6, <2>8, <2>9 DEF ns
<1> QED BY <1>1, <1>2

-----------------------------------------------------------------------------
(***************************************************************************)
(* Which expressions are in a flow, and where it starts.                   *)
(***************************************************************************)
LEMMA InFlowIs ==
  ASSUME Parsed
  PROVE  \A n \in Node :
           InFlow(n) <=> PipingCall(n) /\ \A outer \in 1 .. (n - 1) : InFlow(outer) => n \notin Applies(outer)
<1> DEFINE N == Cardinality(Node)
           Step(f, m) == PipingCall(m) /\ \A outer \in 1 .. (m - 1) : f[outer] => m \notin Applies(outer)
           Missing == { k \in 0 .. N : ~ \E f : f = [m \in 1 .. k |-> Step(f, m)] }
           in == CHOOSE f : f = [m \in Node |-> Step(f, m)]
<1> HIDE DEF N, Step, Missing
<1>0. N \in Nat /\ Node = 1 .. N
  BY Numbered DEF N
<1>1. ASSUME NEW f, NEW g, NEW m \in Nat, \A l \in 1 .. (m - 1) : f[l] = g[l]
      PROVE  Step(f, m) = Step(g, m)
  BY <1>1 DEF Step
<1>2. Missing = {}
  <2>1. SUFFICES ASSUME Missing # {} PROVE FALSE
    OBVIOUS
  <2>2. PICK k \in Missing : \A y \in Missing : k <= y
    <3>1. Missing \subseteq Nat
      BY DEF Missing
    <3> QED BY <2>1, <3>1, LeastNatural
  <2>3. k \in 0 .. N /\ ~ \E f : f = [m \in 1 .. k |-> Step(f, m)]
    BY DEF Missing
  <2>4. CASE k = 0
    <3> DEFINE h == [m \in {} |-> 0]
    <3>1. 1 .. 0 = {}
      OBVIOUS
    <3>2. h = [m \in {} |-> Step(h, m)]
      OBVIOUS
    <3> HIDE DEF h
    <3> QED BY <2>3, <2>4, <3>1, <3>2
  <2>5. CASE k # 0
    <3>1. k - 1 \in 0 .. N /\ ~ (k <= k - 1)
      BY <1>0, <2>3, <2>5
    <3>2. PICK g : g = [m \in 1 .. (k - 1) |-> Step(g, m)]
      BY <2>2, <3>1 DEF Missing
    <3> DEFINE h == [m \in 1 .. k |-> IF m = k THEN Step(g, k) ELSE g[m]]
    <3>3. ASSUME NEW m \in 1 .. k PROVE h[m] = Step(h, m)
      <4>1. m \in Nat /\ \A l \in 1 .. (m - 1) : l \in 1 .. k /\ l # k
        BY <2>3
      <4>2. \A l \in 1 .. (m - 1) : h[l] = g[l]
        BY <4>1
      <4>3. Step(h, m) = Step(g, m)
        <5> HIDE DEF h
        <5> QED BY <1>1, <4>1, <4>2
      <4>4. m # k => m \in 1 .. (k - 1)
        BY <2>3
      <4>5. m # k => g[m] = Step(g, m)
        BY <3>2, <4>4
      <4>6. h[m] = IF m = k THEN Step(g, k) ELSE g[m]
        OBVIOUS
      <4> HIDE DEF h
      <4> QED BY <4>3, <4>5, <4>6
    <3>4. h = [m \in 1 .. k |-> Step(h, m)]
      <4>1. h = [m \in 1 .. k |-> h[m]]
        OBVIOUS
      <4> HIDE DEF h
      <4> QED BY <3>3, <4>1
    <3> HIDE DEF h
    <3> QED BY <2>3, <3>4
  <2> QED BY <2>4, <2>5
<1>3. in = [m \in Node |-> Step(in, m)]
  <2>1. N \in 0 .. N
    BY <1>0
  <2>2. \E f : f = [m \in Node |-> Step(f, m)]
    BY <1>0, <1>2, <2>1 DEF Missing
  <2> QED BY <2>2
<1>4. \A n \in Node : InFlow(n) = in[n]
  BY DEF InFlow, Step
<1> HIDE DEF in
<1>5. \A n \in Node : InFlow(n) = Step(in, n)
  BY <1>3, <1>4
<1>6. \A n \in Node : \A outer \in 1 .. (n - 1) : outer \in Node
  BY <1>0
<1>7. \A n \in Node : \A outer \in 1 .. (n - 1) : in[outer] = InFlow(outer)
  BY <1>4, <1>6
<1> QED BY <1>5, <1>7 DEF Step

LEMMA SpineIs ==
  ASSUME Parsed
  PROVE  \E from :
           /\ \A n \in Node : from[n] = {n} \cup IF GoesIn(n) /\ GoesIn(Subject(n)) THEN from[Subject(n)] ELSE {}
           /\ \A flow : PipingCall(flow.node) => Spine(flow) = from[flow.node]
<1> DEFINE N == Cardinality(Node)
           Step(f, m) == {m} \cup IF GoesIn(m) /\ GoesIn(Subject(m)) THEN f[Subject(m)] ELSE {}
           Missing == { k \in 0 .. N : ~ \E f : f = [m \in (N - k + 1) .. N |-> Step(f, m)] }
           from == CHOOSE f : f = [m \in Node |-> Step(f, m)]
<1> HIDE DEF N, Missing, Step
<1>0. N \in Nat /\ Node = 1 .. N
  BY Numbered DEF N
<1>1. \A m \in Node : GoesIn(m) => Subject(m) \in Node /\ Subject(m) > m
  BY AppliedIs, PartsIs DEF GoesIn
<1>2. Missing = {}
  <2>1. SUFFICES ASSUME Missing # {} PROVE FALSE
    OBVIOUS
  <2>2. PICK k \in Missing : \A y \in Missing : k <= y
    <3>1. Missing \subseteq Nat
      BY DEF Missing
    <3> QED BY <2>1, <3>1, LeastNatural
  <2>3. k \in 0 .. N /\ ~ \E f : f = [m \in (N - k + 1) .. N |-> Step(f, m)]
    BY DEF Missing
  <2>4. CASE k = 0
    <3> DEFINE h == [m \in {} |-> 0]
    <3>1. (N - 0 + 1) .. N = {}
      BY <1>0
    <3>2. h = [m \in {} |-> Step(h, m)]
      OBVIOUS
    <3> HIDE DEF h
    <3> QED BY <2>3, <2>4, <3>1, <3>2
  <2>5. CASE k # 0
    <3>1. k - 1 \in 0 .. N /\ ~ (k <= k - 1)
      BY <1>0, <2>3, <2>5
    <3>2. PICK g : g = [m \in (N - (k - 1) + 1) .. N |-> Step(g, m)]
      BY <2>2, <3>1 DEF Missing
    <3> DEFINE n == N - k + 1
               h == [m \in n .. N |-> IF m = n THEN Step(g, n) ELSE g[m]]
    <3>3. n \in Node /\ N - (k - 1) + 1 = n + 1
      BY <1>0, <2>3, <2>5
    <3>4. ASSUME NEW m \in n .. N PROVE h[m] = Step(h, m)
      <4>1. m \in Node /\ \A l \in Node : l > m => l \in n .. N /\ l # n
        BY <1>0, <3>3
      <4>2. \A l \in Node : l > m => h[l] = g[l]
        BY <4>1
      <4>3. Step(h, m) = Step(g, m)
        <5> HIDE DEF h, n
        <5> QED BY <1>1, <4>1, <4>2 DEF Step
      <4>4. m # n => m \in (N - (k - 1) + 1) .. N
        BY <1>0, <3>3
      <4>5. m # n => g[m] = Step(g, m)
        <5> HIDE DEF n
        <5> QED BY <3>2, <4>4
      <4>6. h[m] = IF m = n THEN Step(g, n) ELSE g[m]
        OBVIOUS
      <4> HIDE DEF h, n
      <4> QED BY <4>3, <4>5, <4>6
    <3>5. h = [m \in n .. N |-> Step(h, m)]
      <4>1. h = [m \in n .. N |-> h[m]]
        OBVIOUS
      <4> HIDE DEF h, n
      <4> QED BY <3>4, <4>1
    <3> HIDE DEF h
    <3> QED BY <2>3, <3>5
  <2> QED BY <2>4, <2>5
<1>3. from = [m \in Node |-> Step(from, m)]
  <2>1. N \in 0 .. N /\ (N - N + 1) .. N = Node
    BY <1>0
  <2>2. \E f : f = [m \in Node |-> Step(f, m)]
    BY <1>2, <2>1 DEF Missing
  <2> QED BY <2>2
<1>4. \A flow : PipingCall(flow.node) => Spine(flow) = from[flow.node]
  BY DEF Spine, Step
<1> HIDE DEF from
<1>5. \A n \in Node : from[n] = Step(from, n)
  BY <1>3
<1> QED BY <1>4, <1>5 DEF Step

\* The search comes to it.
Reached(n) == n \in Used /\ \A outer \in Node : InFlow(outer) => n \notin ToSet(Applied(outer))

\* A flow that comes from outside goes on with it.
Chained(n) == \E m \in Node : InFlow(m) /\ GoesIn(m) /\ n = Subject(m)

\* A flow starts there.
Start(n) == InFlow(n) /\ (IsEffectFn(n) \/ ~ Chained(n))

LEMMA UsedIs ==
  ASSUME Parsed
  PROVE  Used \subseteq Node /\ \A n : n \in Used <=> n = File \/ \E m \in Node : n \in PartsOf(m)
<1>1. \A m \in Node : ToSet(Children(m)) = PartsOf(m) /\ PartsOf(m) \subseteq Node
  BY ChildrenIs, PartsIs
<1>2. File \in Node
  BY Numbered
<1> QED BY <1>1, <1>2 DEF Used

LEMMA PipingHasParts ==
  ASSUME Parsed, NEW n \in Node, PipingCall(n)
  PROVE  n \in Used
<1>1. PartsOf(n) # {}
  <2>1. kind(n) \in PipeKind \cup DataKind \cup {"call", "effectFn"}
    BY DEF PipingCall, ParseSingleArgCall, IsEffectFn
  <2>2. source[n].callee # 0 \/ subject(n) # 0
    BY <2>1, PartsIs
  <2> QED BY <2>2, PartsIs
<1> QED BY <1>1, PartsIs, UsedIs

LEMMA InFlowReached ==
  ASSUME Parsed, NEW n \in Node
  PROVE  InFlow(n) <=> PipingCall(n) /\ Reached(n)
<1>1. InFlow(n) <=> PipingCall(n) /\ \A outer \in 1 .. (n - 1) : InFlow(outer) => n \notin Applies(outer)
  BY InFlowIs
<1>2. \A outer \in Node : InFlow(outer) => PipingCall(outer)
  BY InFlowIs
<1>3. ASSUME PipingCall(n), NEW outer \in Node, InFlow(outer)
      PROVE  n \in Applies(outer) <=> n \in ToSet(Applied(outer))
  <2>1. kind(n) # "function"
    BY <1>3 DEF PipingCall, ParseSingleArgCall, IsEffectFn, PipeKind, DataKind
  <2> QED BY <1>2, <1>3, <2>1, AppliedIs
<1>4. ASSUME NEW outer \in Node, InFlow(outer), n \in ToSet(Applied(outer))
      PROVE  outer \in 1 .. (n - 1)
  <2>1. n \in PartsOf(outer)
    BY <1>2, <1>4, AppliedIs
  <2>2. n > outer
    BY <2>1, PartsIs
  <2> QED BY <2>2, Numbered
<1>5. \A outer \in 1 .. (n - 1) : outer \in Node
  <2> DEFINE N == Cardinality(Node)
  <2> HIDE DEF N
  <2>1. Node = 1 .. N /\ N \in Nat
    BY Numbered DEF N
  <2> QED BY <2>1
<1>6. ASSUME InFlow(n) PROVE PipingCall(n) /\ Reached(n)
  <2>1. PipingCall(n) /\ n \in Used
    BY <1>1, <1>6, PipingHasParts
  <2>2. \A outer \in Node : InFlow(outer) => n \notin ToSet(Applied(outer))
    BY <1>1, <1>3, <1>4, <1>6, <2>1
  <2> QED BY <2>1, <2>2 DEF Reached
<1>7. ASSUME PipingCall(n), Reached(n) PROVE InFlow(n)
  BY <1>1, <1>3, <1>5, <1>7 DEF Reached
<1> QED BY <1>6, <1>7

LEMMA OpenedIs ==
  ASSUME Parsed, NEW n \in Node, NEW x
  PROVE  x \in Opened(n) <=>
           \/ x \in PartsOf(n) /\ (PipingCall(n) => GoesIn(n) /\ x = Subject(n))
           \/ PipingCall(n) /\ \E m \in ToSet(Applied(n)) : x \in PartsOf(m)
<1>1. GoesIn(n) => PipingCall(n) /\ Subject(n) \in PartsOf(n)
  BY AppliedIs DEF GoesIn
<1> QED BY <1>1, InnerIs DEF Opened

\* What a call applies.
LEMMA AppliedParts ==
  ASSUME Parsed, NEW n \in Node, PipingCall(n), NEW m \in ToSet(Applied(n))
  PROVE  m \in Node /\ m \in PartsOf(n) /\ m > n /\ (GoesIn(n) => m # Subject(n))
<1>1. m \in PartsOf(n) /\ (GoesIn(n) => m # Subject(n))
  BY AppliedIs
<1> QED BY <1>1, PartsIs

LEMMA OnePlace ==
  ASSUME Parsed, NEW m \in Node, NEW n \in Node, NEW x, x \in PartsOf(m), x \in PartsOf(n)
  PROVE  m = n
BY PartsIs

LEMMA OpenedInside ==
  ASSUME Parsed, NEW n \in Node, NEW x \in Opened(n)
  PROVE  x \in Node /\ x > n /\ x # File /\ x \in Used
<1>1. CASE x \in PartsOf(n)
  BY <1>1, PartsIs, UsedIs
<1>2. CASE PipingCall(n) /\ \E m \in ToSet(Applied(n)) : x \in PartsOf(m)
  <2>1. PICK m \in Node : m > n /\ x \in PartsOf(m)
    BY <1>2, AppliedParts
  <2>2. x \in Node /\ x > m /\ x # File /\ x \in Used
    BY <2>1, PartsIs, UsedIs
  <2> QED BY <2>1, <2>2, Numbered
<1> QED BY <1>1, <1>2, OpenedIs

\* The search comes from one place only.
LEMMA OpenedOnce ==
  ASSUME Parsed, NEW p \in Node, Reached(p), NEW q \in Node, Reached(q), NEW x, x \in Opened(p), x \in Opened(q)
  PROVE  p = q
<1>1. ASSUME NEW a \in Node, Reached(a), NEW b \in Node, Reached(b), PipingCall(b),
             x \in PartsOf(a), \E m \in ToSet(Applied(b)) : x \in PartsOf(m)
      PROVE  FALSE
  <2>1. PICK m \in ToSet(Applied(b)) : x \in PartsOf(m)
    BY <1>1
  <2>2. m \in Node
    BY <1>1, AppliedParts
  <2>3. m = a
    BY <1>1, <2>1, <2>2, OnePlace
  <2>4. InFlow(b)
    BY <1>1, InFlowReached
  <2> QED BY <1>1, <2>1, <2>3, <2>4 DEF Reached
<1>2. \/ x \in PartsOf(p)
      \/ PipingCall(p) /\ \E m \in ToSet(Applied(p)) : x \in PartsOf(m)
  BY OpenedIs
<1>3. \/ x \in PartsOf(q)
      \/ PipingCall(q) /\ \E m \in ToSet(Applied(q)) : x \in PartsOf(m)
  BY OpenedIs
<1>4. CASE x \in PartsOf(p) /\ x \in PartsOf(q)
  BY <1>4, OnePlace
<1>5. CASE x \in PartsOf(p) /\ x \notin PartsOf(q)
  BY <1>1, <1>3, <1>5
<1>6. CASE x \notin PartsOf(p) /\ x \in PartsOf(q)
  BY <1>1, <1>2, <1>6
<1>7. CASE x \notin PartsOf(p) /\ x \notin PartsOf(q)
  <2>1. PICK m \in ToSet(Applied(p)) : x \in PartsOf(m)
    BY <1>2, <1>7
  <2>2. PICK n \in ToSet(Applied(q)) : x \in PartsOf(n)
    BY <1>3, <1>7
  <2>3. PipingCall(p) /\ PipingCall(q)
    BY <1>2, <1>3, <1>7
  <2>4. m \in Node /\ m \in PartsOf(p) /\ n \in Node /\ n \in PartsOf(q)
    BY <2>3, AppliedParts
  <2>5. m = n
    BY <2>1, <2>2, <2>4, OnePlace
  <2> QED BY <2>4, <2>5, OnePlace
<1> QED BY <1>4, <1>5, <1>6, <1>7

LEMMA OpenedReached ==
  ASSUME Parsed, NEW p \in Node, Reached(p), NEW x \in Opened(p)
  PROVE  Reached(x)
<1> SUFFICES ASSUME NEW outer \in Node, InFlow(outer), x \in ToSet(Applied(outer)) PROVE FALSE
  BY OpenedInside DEF Reached
<1>1. PipingCall(outer) /\ Reached(outer)
  BY InFlowReached
<1>2. x \in PartsOf(outer) /\ (GoesIn(outer) => x # Subject(outer))
  BY <1>1, AppliedParts
<1>3. CASE x \in PartsOf(p) /\ (PipingCall(p) => GoesIn(p) /\ x = Subject(p))
  <2>1. p = outer
    BY <1>2, <1>3, OnePlace
  <2> QED BY <1>1, <1>2, <1>3, <2>1
<1>4. CASE PipingCall(p) /\ \E m \in ToSet(Applied(p)) : x \in PartsOf(m)
  <2>1. PICK m \in ToSet(Applied(p)) : x \in PartsOf(m)
    BY <1>4
  <2>2. m \in Node
    BY <1>4, AppliedParts
  <2>3. m = outer
    BY <1>2, <2>1, <2>2, OnePlace
  <2>4. InFlow(p)
    BY <1>4, InFlowReached
  <2> QED BY <1>1, <2>1, <2>3, <2>4 DEF Reached
<1> QED BY <1>3, <1>4, OpenedIs

LEMMA ReachedFromAbove ==
  ASSUME Parsed, NEW x, Reached(x), x # File
  PROVE  \E p \in Node : Reached(p) /\ p < x /\ x \in Opened(p)
<1>1. x \in Node /\ \E q \in Node : x \in PartsOf(q)
  BY UsedIs DEF Reached
<1>2. PICK q \in Node : x \in PartsOf(q)
  BY <1>1
<1>3. q \in Used
  BY <1>2, PartsIs, UsedIs
<1>4. SUFFICES \E p \in Node : Reached(p) /\ x \in Opened(p)
  <2>1. PICK p \in Node : Reached(p) /\ x \in Opened(p)
    BY <1>4
  <2>2. x > p /\ x \in Nat /\ p \in Nat
    BY <1>1, <2>1, OpenedInside, Numbered
  <2> QED BY <2>1, <2>2
<1>5. CASE Reached(q)
  <2>1. PipingCall(q) => GoesIn(q) /\ x = Subject(q)
    <3>1. SUFFICES ASSUME PipingCall(q) PROVE GoesIn(q) /\ x = Subject(q)
      OBVIOUS
    <3>2. x \notin ToSet(Applied(q))
      BY <1>5, <3>1, InFlowReached DEF Reached
    <3> QED BY <1>2, <3>1, <3>2, AppliedIs
  <2>2. x \in Opened(q)
    BY <1>2, <2>1, OpenedIs
  <2> QED BY <1>5, <2>2
<1>6. CASE ~ Reached(q)
  <2>1. PICK outer \in Node : InFlow(outer) /\ q \in ToSet(Applied(outer))
    BY <1>3, <1>6 DEF Reached
  <2>2. PipingCall(outer) /\ Reached(outer)
    BY <2>1, InFlowReached
  <2>3. x \in Opened(outer)
    BY <1>2, <2>1, <2>2, OpenedIs
  <2> QED BY <2>2, <2>3
<1> QED BY <1>5, <1>6

LEMMA ChainedIs ==
  ASSUME Parsed, NEW p \in Node, Reached(p), NEW x \in Opened(p)
  PROVE  Chained(x) <=> GoesIn(p) /\ x = Subject(p)
<1>1. ASSUME GoesIn(p), x = Subject(p) PROVE Chained(x)
  <2>1. InFlow(p)
    BY <1>1, InFlowReached DEF GoesIn
  <2> QED BY <1>1, <2>1 DEF Chained
<1>2. ASSUME Chained(x) PROVE GoesIn(p) /\ x = Subject(p)
  <2>1. PICK m \in Node : InFlow(m) /\ GoesIn(m) /\ x = Subject(m)
    BY <1>2 DEF Chained
  <2>2. Reached(m) /\ x \in Opened(m)
    BY <2>1, InFlowReached DEF Opened
  <2>3. m = p
    BY <2>2, OpenedOnce
  <2> QED BY <2>1, <2>3
<1> QED BY <1>1, <1>2

LEMMA FileReached ==
  ASSUME Parsed
  PROVE  Reached(File) /\ ~ Chained(File)
<1>1. \A m \in Node : File \notin PartsOf(m)
  BY PartsIs
<1>2. \A m \in Node : InFlow(m) => PipingCall(m)
  BY InFlowIs
<1>3. \A m \in Node : InFlow(m) => File \notin ToSet(Applied(m))
  BY <1>1, <1>2, AppliedParts
<1>4. \A m \in Node : GoesIn(m) => Subject(m) \in PartsOf(m)
  BY AppliedIs DEF GoesIn
<1> QED BY <1>1, <1>3, <1>4, UsedIs DEF Reached, Chained

\* The calls of a flow, one after another.
IsSpine(from) ==
  \A n \in Node : from[n] = {n} \cup IF GoesIn(n) /\ GoesIn(Subject(n)) THEN from[Subject(n)] ELSE {}

LEMMA SubjectIs ==
  ASSUME Parsed, NEW n \in Node, GoesIn(n)
  PROVE  Subject(n) \in Node /\ Subject(n) > n /\ Subject(n) \in PartsOf(n) /\ Subject(n) \in Opened(n)
BY AppliedIs, PartsIs DEF GoesIn, Opened

LEMMA SpineStep ==
  ASSUME Parsed, NEW from, IsSpine(from), NEW r \in Node
  PROVE  /\ r \in from[r]
         /\ \A n \in from[r] :
              /\ n \in Node
              /\ n # r => \E m \in from[r] : m \in Node /\ GoesIn(m) /\ GoesIn(n) /\ n = Subject(m)
              /\ GoesIn(n) /\ GoesIn(Subject(n)) => Subject(n) \in from[r]
<1> DEFINE N == Cardinality(Node)
           Good(q, n) ==
             /\ n \in Node
             /\ n # q => \E m \in from[q] : m \in Node /\ GoesIn(m) /\ GoesIn(n) /\ n = Subject(m)
             /\ GoesIn(n) /\ GoesIn(Subject(n)) => Subject(n) \in from[q]
           Bad == { q \in Node : \E n \in from[q] : ~ Good(q, n) }
<1>1. Bad = {}
  <2>1. SUFFICES ASSUME Bad # {} PROVE FALSE
    OBVIOUS
  <2> DEFINE Left == { N - q : q \in Bad }
  <2>2. N \in Nat /\ Node = 1 .. N
    BY Numbered
  <2> HIDE DEF N
  <2>3. PICK q \in Bad : \A s \in Bad : s <= q
    <3>1. \A s \in Bad : s \in Nat /\ s <= N /\ N - s \in Nat
      BY <2>2
    <3> HIDE DEF Bad
    <3>2. Left \subseteq Nat /\ Left # {}
      BY <2>1, <3>1
    <3>3. PICK k \in Left : \A l \in Left : k <= l
      <4> HIDE DEF Left
      <4> QED BY <3>2, LeastNatural
    <3>4. PICK q \in Bad : k = N - q
      OBVIOUS
    <3>5. ASSUME NEW s \in Bad PROVE s <= q
      <4>1. N - q <= N - s
        BY <3>3, <3>4
      <4> QED BY <2>2, <3>1, <4>1
    <3> QED BY <3>5
  <2>4. q \in Node
    OBVIOUS
  <2>5. PICK n \in from[q] : ~ Good(q, n)
    OBVIOUS
  <2> DEFINE s == Subject(q)
  <2> HIDE DEF Bad, Good
  <2>6. from[q] = {q} \cup IF GoesIn(q) /\ GoesIn(s) THEN from[s] ELSE {}
    BY <2>4 DEF IsSpine
  <2>7. CASE n = q
    <3>1. GoesIn(q) /\ GoesIn(s) => s \in from[s]
      BY <2>4, SubjectIs DEF IsSpine
    <3>2. GoesIn(q) /\ GoesIn(s) => s \in from[q]
      BY <2>6, <3>1
    <3> QED BY <2>4, <2>5, <2>7, <3>2 DEF Good
  <2>8. CASE n # q
    <3>1. GoesIn(q) /\ GoesIn(s) /\ n \in from[s]
      BY <2>5, <2>6, <2>8
    <3>2. s \in Node /\ s > q
      BY <2>4, <3>1, SubjectIs
    <3>3. Good(s, n)
      <4>1. ~ (s <= q)
        BY <2>4, <3>2, Numbered
      <4>2. s \notin Bad
        BY <2>3, <4>1
      <4> QED BY <3>1, <3>2, <4>2 DEF Bad
    <3>4. from[s] \subseteq from[q] /\ q \in from[q]
      BY <2>6, <3>1
    <3>5. CASE n = s
      BY <2>4, <2>5, <3>1, <3>2, <3>3, <3>4, <3>5 DEF Good
    <3>6. CASE n # s
      <4>1. PICK m \in from[s] : m \in Node /\ GoesIn(m) /\ GoesIn(n) /\ n = Subject(m)
        BY <3>3, <3>6 DEF Good
      <4> QED BY <2>5, <3>3, <3>4, <4>1 DEF Good
    <3> QED BY <3>5, <3>6
  <2> QED BY <2>7, <2>8
<1>2. r \in from[r]
  BY DEF IsSpine
<1> QED BY <1>1, <1>2

LEMMA SpineInFlow ==
  ASSUME Parsed, NEW from, IsSpine(from), NEW r \in Node, Start(r), NEW n \in from[r]
  PROVE  n \in Node /\ InFlow(n)
<1> DEFINE Bad == { k \in from[r] : ~ InFlow(k) }
<1>1. \A k \in from[r] : k \in Node
  BY SpineStep
<1>2. Bad = {}
  <2>1. SUFFICES ASSUME Bad # {} PROVE FALSE
    OBVIOUS
  <2>2. PICK k \in Bad : \A y \in Bad : k <= y
    <3>1. Bad \subseteq Nat
      BY <1>1, Numbered
    <3> HIDE DEF Bad
    <3> QED BY <2>1, <3>1, LeastNatural
  <2>3. k \in from[r] /\ k \in Node /\ ~ InFlow(k)
    BY <1>1
  <2>4. k # r
    BY <2>3 DEF Start
  <2>5. PICK m \in from[r] : m \in Node /\ GoesIn(m) /\ GoesIn(k) /\ k = Subject(m)
    BY <2>3, <2>4, SpineStep
  <2>6. m < k /\ k \in Opened(m)
    BY <2>3, <2>5, SubjectIs, Numbered
  <2>7. InFlow(m)
    <3>1. ~ (k <= m)
      BY <2>3, <2>5, <2>6, Numbered
    <3> QED BY <2>2, <2>5, <3>1
  <2>8. Reached(m)
    BY <2>5, <2>7, InFlowReached
  <2>9. Reached(k)
    BY <2>5, <2>6, <2>8, OpenedReached
  <2> QED BY <2>3, <2>5, <2>9, InFlowReached DEF GoesIn
<1> QED BY <1>1, <1>2

LEMMA OnSomeSpine ==
  ASSUME Parsed, NEW from, IsSpine(from), NEW n \in Node, InFlow(n)
  PROVE  \E r \in Node : Start(r) /\ n \in from[r]
<1> DEFINE Bad == { k \in Node : InFlow(k) /\ \A r \in Node : Start(r) => k \notin from[r] }
<1>1. Bad = {}
  <2>1. SUFFICES ASSUME Bad # {} PROVE FALSE
    OBVIOUS
  <2>2. PICK k \in Bad : \A y \in Bad : k <= y
    <3>1. Bad \subseteq Nat
      BY Numbered
    <3> HIDE DEF Bad
    <3> QED BY <2>1, <3>1, LeastNatural
  <2>3. k \in Node /\ InFlow(k) /\ \A r \in Node : Start(r) => k \notin from[r]
    OBVIOUS
  <2>4. ~ Start(k)
    BY <2>3, SpineStep
  <2>5. PICK m \in Node : InFlow(m) /\ GoesIn(m) /\ k = Subject(m)
    BY <2>3, <2>4 DEF Start, Chained
  <2>6. GoesIn(k)
    <3>1. ~ IsEffectFn(k) /\ PipingCall(k)
      BY <2>3, <2>4, InFlowReached DEF Start
    <3> QED BY <3>1 DEF GoesIn
  <2>7. ~ (k <= m)
    BY <2>3, <2>5, SubjectIs, Numbered
  <2>8. PICK r \in Node : Start(r) /\ m \in from[r]
    <3>1. m \notin Bad
      <4> HIDE DEF Bad
      <4> QED BY <2>2, <2>7
    <3> QED BY <2>5, <3>1
  <2>9. k \in from[r]
    BY <2>5, <2>6, <2>8, SpineStep
  <2> QED BY <2>3, <2>8, <2>9
<1> QED BY <1>1

LEMMA OnOneSpine ==
  ASSUME Parsed, NEW from, IsSpine(from), NEW r \in Node, Start(r), NEW q \in Node, Start(q),
         NEW n, n \in from[r], n \in from[q]
  PROVE  r = q
<1> DEFINE Bad == { k \in Node : k \in from[r] /\ k \in from[q] }
<1>1. SUFFICES ASSUME r # q PROVE FALSE
  OBVIOUS
<1>2. PICK k \in Bad : \A y \in Bad : k <= y
  <2>1. Bad \subseteq Nat /\ Bad # {}
    BY SpineStep, Numbered
  <2> HIDE DEF Bad
  <2> QED BY <2>1, LeastNatural
<1>3. k \in Node /\ k \in from[r] /\ k \in from[q]
  OBVIOUS
<1>4. ASSUME NEW s \in Node, Start(s), k \in from[s], k # s
      PROVE  GoesIn(k) /\ \E m \in from[s] : m \in Node /\ InFlow(m) /\ GoesIn(m) /\ k = Subject(m)
  <2>1. PICK m \in from[s] : m \in Node /\ GoesIn(m) /\ GoesIn(k) /\ k = Subject(m)
    BY <1>4, SpineStep
  <2>2. InFlow(m)
    BY <1>4, SpineInFlow
  <2> QED BY <2>1, <2>2
<1>5. ASSUME NEW s \in Node, Start(s), k \in from[s], k # s PROVE ~ Start(k)
  BY <1>4, <1>5 DEF Start, Chained, GoesIn
<1>6. k # r /\ k # q
  BY <1>1, <1>3, <1>5
<1>7. PICK m \in from[r] : m \in Node /\ InFlow(m) /\ GoesIn(m) /\ k = Subject(m)
  BY <1>3, <1>4, <1>6
<1>8. PICK l \in from[q] : l \in Node /\ InFlow(l) /\ GoesIn(l) /\ k = Subject(l)
  BY <1>3, <1>4, <1>6
<1>9. m = l
  BY <1>7, <1>8, SubjectIs, OnePlace
<1>10. ~ (k <= m)
  BY <1>3, <1>7, SubjectIs, Numbered
<1>11. m \in Bad
  BY <1>7, <1>8, <1>9
<1> HIDE DEF Bad
<1> QED BY <1>2, <1>10, <1>11

-----------------------------------------------------------------------------
(***************************************************************************)
(* The accounts of the search, over the expressions V that it has been to. *)
(***************************************************************************)
Carries(item) == item.parentFlow # NoFlow
Owner(item)   == item.parentFlow[1].node

From(V, x) == x = File \/ \E p \in V : x \in Opened(p)

VisitedOK(V, q) ==
  /\ V \subseteq Node /\ \A x \in V : Reached(x) /\ From(V, x)
  /\ \A x : From(V, x) => x \in V \/ \E i \in DOMAIN q : q[i].node = x

QueueOK(V, q) ==
  /\ \A i \in DOMAIN q :
       /\ q[i].node \notin V /\ Reached(q[i].node) /\ From(V, q[i].node)
       /\ Carries(q[i]) <=> Chained(q[i].node)
       /\ Len(q[i].parentFlow) <= 1
       /\ Carries(q[i]) => Start(Owner(q[i])) /\ Owner(q[i]) \in V
  /\ \A i, j \in DOMAIN q : q[i].node = q[j].node => i = j

FlowsOK(V, q, r) ==
  /\ \A i, j \in DOMAIN q : Carries(q[i]) /\ Carries(q[j]) /\ Owner(q[i]) = Owner(q[j]) => i = j
  /\ \A i, j \in DOMAIN r : r[i].node = r[j].node => i = j
  /\ \A i \in DOMAIN q, j \in DOMAIN r : Carries(q[i]) => Owner(q[i]) # r[j].node
  /\ \A j \in DOMAIN r : r[j].node \in V /\ Start(r[j].node)
  /\ \A x \in V : Start(x) =>
       \/ \E j \in DOMAIN r : r[j].node = x
       \/ \E i \in DOMAIN q : Carries(q[i]) /\ Owner(q[i]) = x

Accounted(V, q, r) == VisitedOK(V, q) /\ QueueOK(V, q) /\ FlowsOK(V, q, r)

\* The flows that a step has to do with.
Mine(item) ==
  (IF Carries(item) THEN {Owner(item)} ELSE {}) \cup (IF Start(item.node) THEN {item.node} ELSE {})

\* What a step puts in the queue for an expression.
NewOK(n, new) ==
  /\ \A i \in DOMAIN new :
       new[i].node \in Opened(n) /\ (Carries(new[i]) <=> Chained(new[i].node)) /\ Len(new[i].parentFlow) <= 1
  /\ \A x \in Opened(n) : \E i \in DOMAIN new : new[i].node = x
  /\ \A i, j \in DOMAIN new : new[i].node = new[j].node => i = j

\* It hands each of its flows on, or ends it.
HandsOn(mine, new, fin) ==
  /\ \A i \in DOMAIN new : Carries(new[i]) => Owner(new[i]) \in mine
  /\ \A j \in DOMAIN fin : fin[j].node \in mine
  /\ \A i, j \in DOMAIN new : Carries(new[i]) /\ Carries(new[j]) /\ Owner(new[i]) = Owner(new[j]) => i = j
  /\ \A i, j \in DOMAIN fin : fin[i].node = fin[j].node => i = j
  /\ \A i \in DOMAIN new, j \in DOMAIN fin : Carries(new[i]) => Owner(new[i]) # fin[j].node
  /\ \A x \in mine : (\E j \in DOMAIN fin : fin[j].node = x) \/ (\E i \in DOMAIN new : Carries(new[i]) /\ Owner(new[i]) = x)

LEMMA QueueIndices ==
  ASSUME NEW q \in Seq(WorkItem), q # << >>, NEW new \in Seq(WorkItem)
  PROVE  LET after == new \o Tail(q) IN
         /\ \A i \in DOMAIN after :
              \/ i \in DOMAIN new /\ after[i] = new[i]
              \/ \E k \in DOMAIN q : k # 1 /\ i = k - 1 + Len(new) /\ after[i] = q[k]
         /\ \A i \in DOMAIN new : i \in DOMAIN after /\ after[i] = new[i]
         /\ \A k \in DOMAIN q : k # 1 => k - 1 + Len(new) \in DOMAIN after /\ after[k - 1 + Len(new)] = q[k]
         /\ 1 \in DOMAIN q /\ q[1] = Head(q)
<1> DEFINE t == Tail(q)
           u == new \o t
<1>1. /\ t \in Seq(WorkItem) /\ Len(q) \in Nat /\ Len(q) # 0 /\ DOMAIN q = 1 .. Len(q) /\ Len(t) = Len(q) - 1
      /\ \A i \in 1 .. Len(t) : t[i] = q[i + 1]
  OBVIOUS
<1> HIDE DEF t
<1>2. /\ Len(new) \in Nat /\ DOMAIN new = 1 .. Len(new) /\ DOMAIN u = 1 .. (Len(new) + Len(t)) /\ DOMAIN t = 1 .. Len(t)
      /\ \A i \in 1 .. Len(new) : u[i] = new[i]
      /\ \A i \in 1 .. Len(t) : u[Len(new) + i] = t[i]
  <2>1. new \in Seq(WorkItem) /\ t \in Seq(WorkItem)
    BY <1>1
  <2> QED BY <2>1, ConcatIs
<1> HIDE DEF u
<1>3. \A k \in DOMAIN q : k # 1 => k - 1 + Len(new) \in DOMAIN u /\ u[k - 1 + Len(new)] = q[k]
  <2> SUFFICES ASSUME NEW k \in DOMAIN q, k # 1
               PROVE  k - 1 + Len(new) \in DOMAIN u /\ u[k - 1 + Len(new)] = q[k]
    OBVIOUS
  <2>1. k - 1 \in 1 .. Len(t) /\ (k - 1) + 1 = k /\ k - 1 + Len(new) = Len(new) + (k - 1)
    BY <1>1, <1>2
  <2>2. u[Len(new) + (k - 1)] = t[k - 1] /\ t[k - 1] = q[(k - 1) + 1]
    BY <1>1, <1>2, <2>1
  <2>3. Len(new) + (k - 1) \in DOMAIN u
    BY <1>1, <1>2, <2>1
  <2> QED BY <2>1, <2>2, <2>3
<1>4. ASSUME NEW i \in DOMAIN u, i \notin DOMAIN new
      PROVE  \E k \in DOMAIN q : k # 1 /\ i = k - 1 + Len(new) /\ u[i] = q[k]
  <2> DEFINE k == i - Len(new) + 1
  <2>1. k \in DOMAIN q /\ k # 1 /\ i = k - 1 + Len(new)
    BY <1>1, <1>2, <1>4
  <2> HIDE DEF k
  <2> QED BY <1>3, <2>1
<1>5. \A i \in DOMAIN new : i \in DOMAIN u /\ u[i] = new[i]
  BY <1>1, <1>2
<1>6. 1 \in DOMAIN q /\ q[1] = Head(q)
  BY <1>1
<1> QED BY <1>3, <1>4, <1>5, <1>6 DEF u, t

\* A step keeps the accounts.
LEMMA StepAccounted ==
  ASSUME Parsed, NEW V, NEW q \in Seq(WorkItem), q # << >>, NEW r \in Seq(Finished), Accounted(V, q, r),
         NEW new \in Seq(WorkItem), NEW fin \in Seq(Finished),
         NewOK(Head(q).node, new), HandsOn(Mine(Head(q)), new, fin)
  PROVE  Accounted(V \cup {Head(q).node}, new \o Tail(q), r \o fin)
<1> DEFINE n == q[1].node
           W == V \cup {n}
           u == new \o Tail(q)
           s == r \o fin
           m == Len(new)
           M == Mine(q[1])
<1>1. /\ \A i \in DOMAIN u :
           \/ i \in DOMAIN new /\ u[i] = new[i]
           \/ \E k \in DOMAIN q : k # 1 /\ i = k - 1 + m /\ u[i] = q[k]
      /\ \A i \in DOMAIN new : i \in DOMAIN u /\ u[i] = new[i]
      /\ \A k \in DOMAIN q : k # 1 => k - 1 + m \in DOMAIN u /\ u[k - 1 + m] = q[k]
      /\ 1 \in DOMAIN q /\ q[1] = Head(q)
  BY QueueIndices
<1>2. /\ Len(r) \in Nat /\ DOMAIN r = 1 .. Len(r) /\ DOMAIN fin = 1 .. Len(fin) /\ DOMAIN s = 1 .. (Len(r) + Len(fin))
      /\ Len(fin) \in Nat
      /\ \A i \in 1 .. Len(r) : s[i] = r[i]
      /\ \A i \in 1 .. Len(fin) : s[Len(r) + i] = fin[i]
  <2>1. r \in Seq(Finished) /\ fin \in Seq(Finished)
    OBVIOUS
  <2> QED BY <2>1, ConcatIs
<1> HIDE DEF u, s, m, M, n
<1>3. /\ \A i \in DOMAIN r : i \in DOMAIN s /\ s[i] = r[i]
      /\ \A i \in DOMAIN fin : Len(r) + i \in DOMAIN s /\ s[Len(r) + i] = fin[i]
      /\ \A j \in DOMAIN s : j \in DOMAIN r \/ \E i \in DOMAIN fin : j = Len(r) + i
  <2>1. \A i \in DOMAIN r : i \in DOMAIN s /\ s[i] = r[i]
    BY <1>2
  <2>2. \A i \in DOMAIN fin : Len(r) + i \in DOMAIN s /\ s[Len(r) + i] = fin[i]
    BY <1>2
  <2>3. \A j \in DOMAIN s : j \notin DOMAIN r => j - Len(r) \in DOMAIN fin /\ j = Len(r) + (j - Len(r))
    BY <1>2
  <2> QED BY <2>1, <2>2, <2>3
<1>4. VisitedOK(V, q) /\ QueueOK(V, q) /\ FlowsOK(V, q, r)
  BY DEF Accounted
<1>5. n \notin V /\ Reached(n) /\ From(V, n) /\ n \in Node /\ V \subseteq Node
  BY <1>1, <1>4, UsedIs DEF QueueOK, VisitedOK, n, Reached
<1>6. NewOK(n, new) /\ HandsOn(M, new, fin)
  BY <1>1 DEF n, M
<1>7. \A x \in Opened(n) : Reached(x) /\ x \notin W /\ \A k \in DOMAIN q : q[k].node # x
  <2> SUFFICES ASSUME NEW x \in Opened(n) PROVE Reached(x) /\ x \notin W /\ \A k \in DOMAIN q : q[k].node # x
    OBVIOUS
  <2>1. Reached(x) /\ x # File /\ x # n
    BY <1>5, OpenedReached, OpenedInside, Numbered
  <2>2. ~ From(V, x)
    <3>1. SUFFICES ASSUME NEW p \in V, x \in Opened(p) PROVE FALSE
      BY <2>1 DEF From
    <3>2. p \in Node /\ Reached(p) /\ p # n
      BY <1>4, <1>5 DEF VisitedOK
    <3> QED BY <1>5, <3>1, <3>2, OpenedOnce
  <2> QED BY <1>4, <2>1, <2>2 DEF VisitedOK, QueueOK
<1>8. \A x : From(W, x) <=> From(V, x) \/ x \in Opened(n)
  BY DEF From
<1>9. VisitedOK(W, u)
  <2>1. \A x \in W : Reached(x) /\ From(W, x)
    BY <1>4, <1>5, <1>8 DEF VisitedOK
  <2>2. ASSUME NEW x, From(V, x), x \notin W PROVE \E i \in DOMAIN u : u[i].node = x
    <3>1. PICK k \in DOMAIN q : q[k].node = x
      BY <1>4, <2>2 DEF VisitedOK
    <3>2. k # 1
      BY <2>2, <3>1 DEF n
    <3> QED BY <1>1, <3>1, <3>2
  <2>3. ASSUME NEW x \in Opened(n) PROVE \E i \in DOMAIN u : u[i].node = x
    BY <1>1, <1>6 DEF NewOK
  <2> QED BY <1>5, <1>8, <2>1, <2>2, <2>3 DEF VisitedOK
<1>10. QueueOK(W, u)
  <2>1. ASSUME NEW i \in DOMAIN u
        PROVE  /\ u[i].node \notin W /\ Reached(u[i].node) /\ From(W, u[i].node)
               /\ Carries(u[i]) <=> Chained(u[i].node)
               /\ Len(u[i].parentFlow) <= 1
               /\ Carries(u[i]) => Start(Owner(u[i])) /\ Owner(u[i]) \in W
    <3>1. CASE i \in DOMAIN new /\ u[i] = new[i]
      <4>1. u[i].node \in Opened(n) /\ (Carries(u[i]) <=> Chained(u[i].node)) /\ Len(u[i].parentFlow) <= 1
        BY <1>6, <3>1 DEF NewOK
      <4>2. Carries(u[i]) => Owner(u[i]) \in M
        BY <1>6, <3>1 DEF HandsOn
      <4>3. \A x \in M : Start(x) /\ x \in W
        BY <1>1, <1>4 DEF Mine, M, QueueOK, n
      <4> QED BY <1>7, <1>8, <4>1, <4>2, <4>3
    <3>2. CASE \E k \in DOMAIN q : k # 1 /\ i = k - 1 + m /\ u[i] = q[k]
      <4>1. PICK k \in DOMAIN q : k # 1 /\ u[i] = q[k]
        BY <3>2
      <4>2. q[k].node # n
        BY <1>1, <1>4, <4>1 DEF QueueOK, n
      <4> QED BY <1>4, <1>8, <4>1, <4>2 DEF QueueOK
    <3> QED BY <1>1, <3>1, <3>2
  <2>2. ASSUME NEW i \in DOMAIN u, NEW j \in DOMAIN u, u[i].node = u[j].node
        PROVE  i = j
    <3>1. CASE i \in DOMAIN new /\ u[i] = new[i] /\ j \in DOMAIN new /\ u[j] = new[j]
      BY <1>6, <2>2, <3>1 DEF NewOK
    <3>2. ASSUME NEW a \in DOMAIN new, NEW k \in DOMAIN q PROVE new[a].node # q[k].node
      BY <1>6, <1>7 DEF NewOK
    <3>3. ASSUME NEW k \in DOMAIN q, NEW l \in DOMAIN q, q[k].node = q[l].node PROVE k = l
      BY <1>4, <3>3 DEF QueueOK
    <3> QED BY <1>1, <2>2, <3>1, <3>2, <3>3
  <2> QED BY <2>1, <2>2 DEF QueueOK
<1>11. ASSUME NEW x \in M
       PROVE  /\ x \in W
              /\ \A k \in DOMAIN q : k # 1 /\ Carries(q[k]) => Owner(q[k]) # x
              /\ \A j \in DOMAIN r : r[j].node # x
  <2>1. CASE Carries(q[1]) /\ x = Owner(q[1])
    BY <1>1, <1>4, <2>1 DEF FlowsOK, QueueOK
  <2>2. CASE x = n
    BY <1>4, <1>5, <2>2 DEF FlowsOK, QueueOK
  <2> QED BY <2>1, <2>2 DEF M, Mine, n
<1>12. FlowsOK(W, u, s)
  <2>1. ASSUME NEW i \in DOMAIN u, NEW j \in DOMAIN u, Carries(u[i]), Carries(u[j]), Owner(u[i]) = Owner(u[j])
        PROVE  i = j
    <3>1. ASSUME NEW a \in DOMAIN new, NEW b \in DOMAIN new, Carries(new[a]), Carries(new[b]), Owner(new[a]) = Owner(new[b])
          PROVE  a = b
      BY <1>6, <3>1 DEF HandsOn
    <3>2. ASSUME NEW a \in DOMAIN new, NEW k \in DOMAIN q, k # 1, Carries(new[a]), Carries(q[k])
          PROVE  Owner(new[a]) # Owner(q[k])
      BY <1>6, <1>11, <3>2 DEF HandsOn
    <3>3. ASSUME NEW k \in DOMAIN q, NEW l \in DOMAIN q, Carries(q[k]), Carries(q[l]), Owner(q[k]) = Owner(q[l])
          PROVE  k = l
      BY <1>4, <3>3 DEF FlowsOK
    <3> QED BY <1>1, <2>1, <3>1, <3>2, <3>3
  <2>2. ASSUME NEW i \in DOMAIN s, NEW j \in DOMAIN s, s[i].node = s[j].node
        PROVE  i = j
    <3>1. ASSUME NEW a \in DOMAIN fin, NEW b \in DOMAIN fin, fin[a].node = fin[b].node PROVE a = b
      BY <1>6, <3>1 DEF HandsOn
    <3>2. ASSUME NEW a \in DOMAIN fin, NEW b \in DOMAIN r PROVE fin[a].node # r[b].node
      BY <1>6, <1>11 DEF HandsOn
    <3>3. ASSUME NEW a \in DOMAIN r, NEW b \in DOMAIN r, r[a].node = r[b].node PROVE a = b
      BY <1>4, <3>3 DEF FlowsOK
    <3> QED BY <1>3, <2>2, <3>1, <3>2, <3>3
  <2>3. ASSUME NEW i \in DOMAIN u, NEW j \in DOMAIN s, Carries(u[i])
        PROVE  Owner(u[i]) # s[j].node
    <3>1. ASSUME NEW a \in DOMAIN new, Carries(new[a])
          PROVE  (\A b \in DOMAIN fin : Owner(new[a]) # fin[b].node) /\ (\A b \in DOMAIN r : Owner(new[a]) # r[b].node)
      BY <1>6, <1>11, <3>1 DEF HandsOn
    <3>2. ASSUME NEW k \in DOMAIN q, k # 1, Carries(q[k])
          PROVE  (\A b \in DOMAIN fin : Owner(q[k]) # fin[b].node) /\ (\A b \in DOMAIN r : Owner(q[k]) # r[b].node)
      BY <1>4, <1>6, <1>11, <3>2 DEF HandsOn, FlowsOK
    <3> QED BY <1>1, <1>3, <2>3, <3>1, <3>2
  <2>4. ASSUME NEW j \in DOMAIN s PROVE s[j].node \in W /\ Start(s[j].node)
    <3>1. CASE j \in DOMAIN r
      BY <1>3, <1>4, <3>1 DEF FlowsOK
    <3>2. CASE \E i \in DOMAIN fin : j = Len(r) + i
      <4>1. s[j].node \in M
        BY <1>3, <1>6, <3>2 DEF HandsOn
      <4>2. \A x \in M : Start(x)
        BY <1>1, <1>4 DEF Mine, M, QueueOK, n
      <4> QED BY <1>11, <4>1, <4>2
    <3> QED BY <1>3, <3>1, <3>2
  <2>5. ASSUME NEW x \in W, Start(x)
        PROVE  \/ \E j \in DOMAIN s : s[j].node = x
               \/ \E i \in DOMAIN u : Carries(u[i]) /\ Owner(u[i]) = x
    <3>1. CASE x \in M
      <4>1. (\E j \in DOMAIN fin : fin[j].node = x) \/ (\E i \in DOMAIN new : Carries(new[i]) /\ Owner(new[i]) = x)
        BY <1>6, <3>1 DEF HandsOn
      <4> QED BY <1>1, <1>3, <4>1
    <3>2. CASE x \notin M
      <4>1. x \in V
        BY <2>5, <3>2 DEF M, Mine, n
      <4>2. (\E j \in DOMAIN r : r[j].node = x) \/ (\E k \in DOMAIN q : Carries(q[k]) /\ Owner(q[k]) = x)
        BY <1>4, <2>5, <4>1 DEF FlowsOK
      <4>3. \A k \in DOMAIN q : Carries(q[k]) /\ Owner(q[k]) = x => k # 1
        BY <3>2 DEF M, Mine
      <4> QED BY <1>1, <1>3, <4>2, <4>3
    <3> QED BY <3>1, <3>2
  <2> QED BY <2>1, <2>2, <2>3, <2>4, <2>5 DEF FlowsOK
<1> QED BY <1>1, <1>9, <1>10, <1>12 DEF Accounted, n, u, s

-----------------------------------------------------------------------------
(***************************************************************************)
(* Every step keeps them.                                                  *)
(***************************************************************************)
LEMMA EnqueuedIs ==
  ASSUME NEW ns \in Seq(Node), IsInjective(ns)
  PROVE  /\ Enqueued(ns) \in Seq(WorkItem)
         /\ \A i \in DOMAIN Enqueued(ns) : Enqueued(ns)[i].node \in ToSet(ns) /\ Enqueued(ns)[i].parentFlow = NoFlow
         /\ \A n \in ToSet(ns) : \E i \in DOMAIN Enqueued(ns) : Enqueued(ns)[i].node = n
         /\ \A i, j \in DOMAIN Enqueued(ns) : Enqueued(ns)[i].node = Enqueued(ns)[j].node => i = j
<1> DEFINE l == Len(ns)
           q == Enqueued(ns)
<1>1. l \in Nat /\ DOMAIN ns = 1 .. l
  OBVIOUS
<1>2. q \in Seq(WorkItem) /\ \A i \in DOMAIN q : q[i].parentFlow = NoFlow
  BY EnqueuedAreItems
<1>3. DOMAIN Reverse(ns) = 1 .. l /\ \A i \in 1 .. l : Reverse(ns)[i] = ns[(l - i) + 1]
  BY <1>1 DEF Reverse
<1>4. DOMAIN q = 1 .. l /\ \A i \in 1 .. l : q[i].node = ns[(l - i) + 1]
  BY <1>3 DEF Enqueued, Item
<1> HIDE DEF l, q
<1>5. \A i \in 1 .. l : (l - i) + 1 \in 1 .. l /\ (l - ((l - i) + 1)) + 1 = i
  BY <1>1
<1>6. \A i \in DOMAIN q : q[i].node \in ToSet(ns)
  BY <1>1, <1>4, <1>5 DEF ToSet
<1>7. ASSUME NEW n \in ToSet(ns) PROVE \E i \in DOMAIN q : q[i].node = n
  <2>1. PICK k \in 1 .. l : n = ns[k]
    BY <1>1 DEF ToSet
  <2> QED BY <1>4, <1>5, <2>1
<1>8. ASSUME NEW i \in DOMAIN q, NEW j \in DOMAIN q, q[i].node = q[j].node PROVE i = j
  <2>1. (l - i) + 1 = (l - j) + 1
    BY <1>1, <1>4, <1>5, <1>8 DEF IsInjective
  <2> QED BY <1>1, <1>4, <2>1
<1> QED BY <1>2, <1>6, <1>7, <1>8 DEF q

LEMMA ExtendIs ==
  ASSUME NEW p \in Seq(Unfinished), Len(p) <= 1, NEW n \in Node, NEW ts \in Seq(Steplike)
  PROVE  LET f == Extend(p, n, ts) IN
         f \in Seq(Unfinished) /\ f # NoFlow /\ Len(f) <= 1 /\ f[1].node = IF p = NoFlow THEN n ELSE p[1].node
<1>1. CASE p = NoFlow
  <2> DEFINE g == [node |-> n, transformations |-> ts]
  <2>1. g.node = n /\ Extend(p, n, ts) = << g >>
    BY <1>1 DEF Extend
  <2> HIDE DEF g
  <2>2. << g >> # << >> /\ Len(<< g >>) = 1 /\ << g >>[1] = g
    OBVIOUS
  <2>3. Extend(p, n, ts) \in Seq(Unfinished)
    BY ExtendIsUnfinished
  <2> QED BY <1>1, <2>1, <2>2, <2>3 DEF NoFlow
<1>2. CASE p # NoFlow
  <2> DEFINE g == [p[1] EXCEPT !.transformations = ts \o @]
  <2>1. p[1] \in Unfinished
    BY <1>2 DEF NoFlow
  <2>2. g.node = p[1].node
    BY <2>1 DEF Unfinished
  <2>3. Extend(p, n, ts) = << g >>
    BY <1>2 DEF Extend
  <2> HIDE DEF g
  <2>4. << g >> # << >> /\ Len(<< g >>) = 1 /\ << g >>[1] = g
    OBVIOUS
  <2> QED BY <1>2, <2>2, <2>3, <2>4, ExtendIsUnfinished DEF NoFlow
<1> QED BY <1>1, <1>2

\* What is put in the queue for a call that does not end a flow: what is in what
\* it applies, and its subject with the flow.
LEMMA GoesInStep ==
  ASSUME Parsed, NEW n \in Node, Reached(n), GoesIn(n), NEW p \in Seq(Unfinished), Len(p) <= 1,
         p # NoFlow <=> Chained(n), NEW ts \in Seq(Steplike)
  PROVE  LET new == Enqueued(Inner(n)) \o << Item(Subject(n), Extend(p, n, ts)) >> IN
         new \in Seq(WorkItem) /\ NewOK(n, new) /\ HandsOn(Mine(Item(n, p)), new, << >>)
<1> DEFINE first == Enqueued(Inner(n))
           f     == Extend(p, n, ts)
           item  == Item(Subject(n), f)
           new   == first \o << item >>
           owner == IF p = NoFlow THEN n ELSE p[1].node
<1>1. f \in Seq(Unfinished) /\ f # NoFlow /\ Len(f) <= 1 /\ f[1].node = owner
  BY ExtendIs
<1>2. Subject(n) \in Node /\ Subject(n) \in PartsOf(n) /\ Subject(n) \in Opened(n)
  BY SubjectIs
<1>3. PipingCall(n) /\ ~ IsEffectFn(n) /\ InFlow(n)
  BY InFlowReached DEF GoesIn
<1>4. Inner(n) \in Seq(Node) /\ IsInjective(Inner(n)) /\ Opened(n) = ToSet(Inner(n)) \cup {Subject(n)}
  BY InnerIs DEF Opened
<1>5. Subject(n) \notin ToSet(Inner(n))
  <2>1. SUFFICES ASSUME NEW m \in ToSet(Applied(n)), Subject(n) \in PartsOf(m) PROVE FALSE
    BY <1>3, InnerIs
  <2>2. m \in Node /\ m > n
    BY <1>3, AppliedParts
  <2>3. m = n
    BY <1>2, <2>1, <2>2, OnePlace
  <2> QED BY <2>2, <2>3, Numbered
<1> HIDE DEF f
<1>6. /\ item \in WorkItem /\ item.node = Subject(n) /\ item.parentFlow = f /\ Carries(item) /\ Owner(item) = owner
  BY <1>1, <1>2 DEF Item, WorkItem, Carries, Owner
<1>7. /\ first \in Seq(WorkItem)
      /\ \A i \in DOMAIN first : first[i].node \in ToSet(Inner(n)) /\ first[i].parentFlow = << >> /\ ~ Carries(first[i])
      /\ \A x \in ToSet(Inner(n)) : \E i \in DOMAIN first : first[i].node = x
      /\ \A i, j \in DOMAIN first : first[i].node = first[j].node => i = j
  BY <1>4, EnqueuedIs DEF Carries, NoFlow
<1> HIDE DEF first, item
<1>8. << item >> \in Seq(WorkItem) /\ Len(<< item >>) = 1 /\ << item >>[1] = item
  BY <1>6
<1>9. new \in Seq(WorkItem)
  BY <1>7, <1>8, ConcatProperties
<1> DEFINE last == Len(first) + 1
<1>10. /\ Len(first) \in Nat /\ DOMAIN first = 1 .. Len(first) /\ DOMAIN new = 1 .. last
       /\ \A i \in DOMAIN first : i \in DOMAIN new /\ new[i] = first[i]
       /\ last \in DOMAIN new /\ new[last] = item
  <2>1. /\ DOMAIN first = 1 .. Len(first) /\ DOMAIN new = 1 .. (Len(first) + Len(<< item >>))
        /\ \A i \in 1 .. Len(first) : new[i] = first[i]
        /\ \A i \in 1 .. Len(<< item >>) : new[Len(first) + i] = << item >>[i]
        /\ Len(first) \in Nat
    BY <1>7, <1>8, ConcatIs
  <2> HIDE DEF new
  <2> QED BY <1>8, <2>1
<1>11. \A i \in DOMAIN new : i \in DOMAIN first \/ i = last
  BY <1>10
<1> HIDE DEF new, last
<1>12. \A i \in DOMAIN new : Carries(new[i]) => i = last /\ Owner(new[i]) = owner
  BY <1>6, <1>7, <1>10, <1>11
<1>13. NewOK(n, new)
  <2>1. ASSUME NEW i \in DOMAIN new
        PROVE  new[i].node \in Opened(n) /\ (Carries(new[i]) <=> Chained(new[i].node)) /\ Len(new[i].parentFlow) <= 1
    <3>1. CASE i \in DOMAIN first
      <4>1. new[i] = first[i] /\ new[i].node \in ToSet(Inner(n)) /\ Len(new[i].parentFlow) <= 1 /\ ~ Carries(new[i])
        BY <1>7, <1>10, <3>1
      <4>2. new[i].node \in Opened(n) /\ new[i].node # Subject(n)
        BY <1>4, <1>5, <4>1
      <4> QED BY <4>1, <4>2, ChainedIs
    <3>2. CASE i = last
      <4>1. new[i].node = Subject(n) /\ Len(new[i].parentFlow) <= 1 /\ Carries(new[i])
        BY <1>1, <1>6, <1>10, <3>2
      <4> QED BY <1>2, <4>1, ChainedIs
    <3> QED BY <1>11, <3>1, <3>2
  <2>2. ASSUME NEW x \in Opened(n) PROVE \E i \in DOMAIN new : new[i].node = x
    BY <1>4, <1>6, <1>7, <1>10
  <2>3. ASSUME NEW i \in DOMAIN new, NEW j \in DOMAIN new, new[i].node = new[j].node PROVE i = j
    BY <1>5, <1>6, <1>7, <1>10, <1>11, <2>3
  <2> QED BY <2>1, <2>2, <2>3 DEF NewOK
<1>14. Mine(Item(n, p)) = {owner}
  <2>1. Start(n) <=> p = NoFlow
    BY <1>3 DEF Start
  <2>2. Item(n, p).node = n /\ Item(n, p).parentFlow = p
    BY DEF Item
  <2> QED BY <2>1, <2>2 DEF Mine, Carries, Owner
<1>15. HandsOn({owner}, new, << >>)
  <2>1. DOMAIN << >> = {}
    OBVIOUS
  <2>2. last \in DOMAIN new /\ Carries(new[last]) /\ Owner(new[last]) = owner
    BY <1>6, <1>10
  <2> HIDE DEF owner
  <2> QED BY <1>12, <2>1, <2>2 DEF HandsOn
<1> QED BY <1>9, <1>13, <1>14, <1>15 DEF new, first, item, f

\* A flow that gets its subject.
LEMMA FinalizedIs ==
  ASSUME Typed, queue # << >>, Len(parentFlow) <= 1
  PROVE  /\ Finalized(node) \in Seq(Finished)
         /\ parentFlow = NoFlow => Finalized(node) = << >>
         /\ parentFlow # NoFlow => DOMAIN Finalized(node) = {1} /\ Finalized(node)[1].node = parentFlow[1].node
         /\ \A i \in DOMAIN Finalized(node) : Finalized(node)[i].subject = node
<1> DEFINE n == node
           p == parentFlow
<1>1. p \in Seq(Unfinished) /\ Finalized(n) \in Seq(Finished)
  BY HeadTyped, FinalizedTyped
<1>2. Finalized(n) = [i \in DOMAIN p |-> Flow(p[i].node, n, p[i].transformations)]
  BY DEF Finalized
<1> HIDE DEF n
<1>3. \A i \in DOMAIN p : Finalized(n)[i].node = p[i].node /\ Finalized(n)[i].subject = n
  BY <1>2 DEF Flow
<1>4. Len(p) <= 1
  OBVIOUS
<1> HIDE DEF p
<1>5. CASE p = << >>
  BY <1>1, <1>2, <1>5 DEF n, p, NoFlow
<1>6. CASE p # << >>
  <2>1. DOMAIN p = {1}
    <3>1. Len(p) \in Nat /\ DOMAIN p = 1 .. Len(p) /\ Len(p) # 0
      BY <1>1, <1>6, SeqIs
    <3>2. Len(p) = 1
      BY <1>4, <3>1
    <3> QED BY <3>1, <3>2
  <2> QED BY <1>1, <1>2, <1>3, <1>6, <2>1 DEF n, p, NoFlow
<1> QED BY <1>5, <1>6

\* What is put in the queue for an expression that ends a flow or is in none, and
\* the flows that it ends.
LEMMA EndStep ==
  ASSUME Parsed, NEW n \in Node, Reached(n), ~ GoesIn(n), NEW p \in Seq(Unfinished), Len(p) <= 1,
         p # NoFlow <=> Chained(n), p # NoFlow => p[1].node # n, NEW fin \in Seq(Finished),
         \A j \in DOMAIN fin : \/ IsEffectFn(n) /\ fin[j].node = n
                               \/ p # NoFlow /\ fin[j].node = p[1].node,
         IsEffectFn(n) => \E j \in DOMAIN fin : fin[j].node = n,
         p # NoFlow => \E j \in DOMAIN fin : fin[j].node = p[1].node,
         \A i, j \in DOMAIN fin : fin[i].node = fin[j].node => i = j
  PROVE  LET new == Enqueued(Inner(n)) IN
         new \in Seq(WorkItem) /\ NewOK(n, new) /\ HandsOn(Mine(Item(n, p)), new, fin)
<1> DEFINE new == Enqueued(Inner(n))
<1>1. Inner(n) \in Seq(Node) /\ IsInjective(Inner(n)) /\ Opened(n) = ToSet(Inner(n))
  BY InnerIs DEF Opened
<1>2. /\ new \in Seq(WorkItem)
      /\ \A i \in DOMAIN new : new[i].node \in Opened(n) /\ new[i].parentFlow = << >> /\ ~ Carries(new[i])
      /\ \A x \in Opened(n) : \E i \in DOMAIN new : new[i].node = x
      /\ \A i, j \in DOMAIN new : new[i].node = new[j].node => i = j
  BY <1>1, EnqueuedIs DEF Carries, NoFlow
<1> HIDE DEF new
<1>3. NewOK(n, new)
  <2>1. \A x \in Opened(n) : ~ Chained(x)
    BY ChainedIs
  <2>2. \A i \in DOMAIN new : Len(new[i].parentFlow) <= 1
    BY <1>2
  <2> QED BY <1>2, <2>1, <2>2 DEF NewOK
<1>4. Start(n) <=> IsEffectFn(n)
  <2>1. IsEffectFn(n) => InFlow(n)
    BY InFlowReached DEF PipingCall
  <2>2. InFlow(n) => PipingCall(n)
    BY InFlowReached
  <2> QED BY <2>1, <2>2 DEF Start, GoesIn
<1>5. Mine(Item(n, p)) = (IF p # NoFlow THEN {p[1].node} ELSE {}) \cup (IF IsEffectFn(n) THEN {n} ELSE {})
  <2>1. Item(n, p).node = n /\ Item(n, p).parentFlow = p
    BY DEF Item
  <2> QED BY <1>4, <2>1 DEF Mine, Carries, Owner
<1>6. HandsOn(Mine(Item(n, p)), new, fin)
  BY <1>2, <1>5 DEF HandsOn
<1> QED BY <1>2, <1>3, <1>6 DEF new

EachOnce(r) ==
  /\ \A j \in DOMAIN r : Start(r[j].node)
  /\ \A i, j \in DOMAIN r : r[i].node = r[j].node => i = j
  /\ \A x \in Node : Start(x) => \E j \in DOMAIN r : r[j].node = x

\* A flow goes in until there is no further call.
Ended(r) == \A j \in DOMAIN r : PipingCall(r[j].subject) => IsEffectFn(r[j].subject)

AllAccounted ==
  /\ pc = "search" => \E V : Accounted(V, queue, result)
  /\ pc = "done" => EachOnce(result)
  /\ Ended(result)

LEMMA AccountsUnchanged ==
  ASSUME source' = source, includeEffectFn' = includeEffectFn
  PROVE  /\ \A V, q, r : Accounted(V, q, r)' <=> Accounted(V, q, r)
         /\ \A r : (EachOnce(r)' <=> EachOnce(r)) /\ (Ended(r)' <=> Ended(r))
<1>1. \A n : /\ IsEffectFn(n)' <=> IsEffectFn(n)
             /\ PipingCall(n)' <=> PipingCall(n)
             /\ GoesIn(n)' <=> GoesIn(n)
             /\ Subject(n)' = Subject(n)
             /\ Applied(n)' = Applied(n)
             /\ Applies(n)' = Applies(n)
             /\ Children(n)' = Children(n)
  BY DEF IsEffectFn, PipingCall, GoesIn, Subject, Applied, Applies, Children, ParseSingleArgCall, kind, subject, args
<1>2. \A n : InFlow(n)' <=> InFlow(n)
  BY DEF InFlow, IsEffectFn, PipingCall, Applies, ParseSingleArgCall, kind, subject, args
<1>3. Used' = Used /\ \A ns : ChildrenOf(ns)' = ChildrenOf(ns)
  BY <1>1 DEF Used, ChildrenOf
<1>4. \A n : Inner(n)' = Inner(n)
  BY <1>1, <1>3 DEF Inner
<1>5. \A n : Opened(n)' = Opened(n)
  BY <1>1, <1>4 DEF Opened
<1>6. \A n : (Reached(n)' <=> Reached(n)) /\ (Chained(n)' <=> Chained(n)) /\ (Start(n)' <=> Start(n))
  BY <1>1, <1>2, <1>3 DEF Reached, Chained, Start
<1>7. \A V, x : From(V, x)' <=> From(V, x)
  BY <1>5 DEF From
<1>8. \A V, q, r : (VisitedOK(V, q)' <=> VisitedOK(V, q)) /\ (QueueOK(V, q)' <=> QueueOK(V, q))
  BY <1>6, <1>7 DEF VisitedOK, QueueOK, Carries, Owner
<1>9. \A V, q, r : FlowsOK(V, q, r)' <=> FlowsOK(V, q, r)
  BY <1>6 DEF FlowsOK, Carries, Owner
<1>10. \A r : (EachOnce(r)' <=> EachOnce(r)) /\ (Ended(r)' <=> Ended(r))
  BY <1>1, <1>6 DEF EachOnce, Ended
<1>11. \A V, q, r : Accounted(V, q, r)' <=> Accounted(V, q, r)
  BY <1>8, <1>9 DEF Accounted
<1> QED BY <1>10, <1>11

\* The head of the queue, with the accounts.
LEMMA HeadAccounted ==
  ASSUME Typed, queue # << >>, NEW V, Accounted(V, queue, result)
  PROVE  /\ Parsed /\ queue \in Seq(WorkItem) /\ result \in Seq(Finished)
         /\ node \in Node /\ Reached(node) /\ parentFlow \in Seq(Unfinished) /\ Len(parentFlow) <= 1
         /\ parentFlow # NoFlow <=> Chained(node)
         /\ parentFlow # NoFlow => parentFlow[1].node # node
         /\ Head(queue).node = node /\ Mine(Head(queue)) = Mine(Item(node, parentFlow))
<1>1. queue \in Seq(WorkItem) /\ result \in Seq(Finished) /\ Parsed
  BY TypeOKIs DEF Typed
<1>2. 1 \in DOMAIN queue /\ queue[1] = Head(queue)
  BY <1>1
<1>3. node = queue[1].node /\ parentFlow = queue[1].parentFlow
  BY <1>2 DEF node, parentFlow
<1>4. /\ Reached(node) /\ Len(parentFlow) <= 1 /\ (parentFlow # NoFlow <=> Chained(node))
      /\ node \notin V /\ (parentFlow # NoFlow => parentFlow[1].node \in V)
  BY <1>2, <1>3 DEF Accounted, QueueOK, Carries, Owner
<1>5. Mine(queue[1]) = Mine(Item(node, parentFlow))
  <2>1. Item(node, parentFlow).node = node /\ Item(node, parentFlow).parentFlow = parentFlow
    BY DEF Item
  <2> QED BY <1>3, <2>1 DEF Mine, Carries, Owner
<1> QED BY <1>1, <1>2, <1>3, <1>4, <1>5, HeadTyped

LEMMA EndedTogether ==
  ASSUME NEW s \in Seq(Finished), NEW t \in Seq(Finished), Ended(s), Ended(t)
  PROVE  Ended(s \o t)
<1>1. \A i \in DOMAIN (s \o t) : \/ \E j \in DOMAIN s : (s \o t)[i] = s[j]
                                 \/ \E j \in DOMAIN t : (s \o t)[i] = t[j]
  BY ConcatElements
<1> QED BY <1>1 DEF Ended

LEMMA AccountedNext ==
  ASSUME Typed, queue # << >>, NEW V, Accounted(V, queue, result),
         source' = source, includeEffectFn' = includeEffectFn, pc' = "search",
         NEW new \in Seq(WorkItem), NEW fin \in Seq(Finished),
         NewOK(node, new), HandsOn(Mine(Item(node, parentFlow)), new, fin),
         queue' = new \o Tail(queue), result' = result \o fin,
         Ended(result), Ended(fin)
  PROVE  AllAccounted'
<1>1. Accounted(V \cup {node}, new \o Tail(queue), result \o fin)
  BY HeadAccounted, StepAccounted
<1>2. Ended(result \o fin)
  <2>1. result \in Seq(Finished)
    BY HeadAccounted
  <2> QED BY <2>1, EndedTogether
<1>3. PICK W : W = V \cup {node}
  OBVIOUS
<1>4. Accounted(W, queue', result') /\ Ended(result')
  BY <1>1, <1>2, <1>3
<1>5. Accounted(W, queue, result)' /\ Ended(result)'
  BY <1>4, AccountsUnchanged
<1> QED BY <1>5 DEF AllAccounted

LEMMA ContinueAccounted ==
  ASSUME Typed, AllAccounted, Searching, GoesIn(node), source' = source, includeEffectFn' = includeEffectFn,
         NEW ts \in Seq(Steplike), Continue(node, Subject(node), ts, Inner(node))
  PROVE  AllAccounted'
<1>1. queue # << >> /\ pc = "search"
  BY DEF Searching
<1>2. PICK V : Accounted(V, queue, result)
  BY <1>1 DEF AllAccounted
<1> DEFINE new == Enqueued(Inner(node)) \o << Item(Subject(node), Extend(parentFlow, node, ts)) >>
<1>3. new \in Seq(WorkItem) /\ NewOK(node, new) /\ HandsOn(Mine(Item(node, parentFlow)), new, << >>)
  BY <1>1, <1>2, HeadAccounted, GoesInStep
<1>4. queue' = new \o Tail(queue) /\ pc' = "search" /\ result' = result
  BY <1>1 DEF Continue
<1> HIDE DEF new
<1>5. result \in Seq(Finished) /\ result = result \o << >> /\ << >> \in Seq(Finished) /\ DOMAIN << >> = {}
  <2>1. result \in Seq(Finished)
    BY TypeOKIs DEF Typed
  <2> QED BY <2>1
<1>6. Ended(result) /\ Ended(<< >>)
  BY <1>5 DEF AllAccounted, Ended
<1> QED BY <1>1, <1>2, <1>3, <1>4, <1>5, <1>6, AccountedNext

LEMMA ChildrenOfOne ==
  ASSUME Parsed, NEW n \in Node
  PROVE  ChildrenOf(<< n >>) = Children(n)
<1> DEFINE cs == [i \in DOMAIN << n >> |-> Children((<< n >>)[i])]
<1>1. Children(n) \in Seq(Node)
  BY ChildrenAreNodes
<1>2. cs = << Children(n) >>
  OBVIOUS
<1>3. ChildrenOf(<< n >>) = FlattenSeq(cs)
  BY DEF ChildrenOf
<1> HIDE DEF cs
<1>4. cs \in Seq(Seq(Node)) /\ Len(cs) = 1 /\ cs[1] = Children(n)
  BY <1>1, <1>2
<1>5. cs \in Seq(Seq(Node)) /\ Len(cs) # 0
  BY <1>4
<1>6. \E f \in [1 .. Len(cs) -> Seq(Node)] :
        /\ f[1] = cs[1] /\ \A i \in 1 .. Len(cs) : i # 1 => f[i] = f[i - 1] \o cs[i]
        /\ FlattenSeq(cs) = f[Len(cs)]
  BY <1>5, FlattenIs
<1> QED BY <1>3, <1>4, <1>6

LEMMA AppendedThen ==
  ASSUME NEW S, NEW s \in Seq(S), NEW x \in S, NEW t \in Seq(S)
  PROVE  Append(s, x) \o t = s \o (<< x >> \o t)
OBVIOUS

LEMMA GoesInAccounted ==
  ASSUME Typed, AllAccounted, source' = source, includeEffectFn' = includeEffectFn,
         VisitPipe \/ VisitDataFirstOrLast \/ VisitSingleArgCall
  PROVE  AllAccounted'
<1>1. queue # << >> /\ Searching /\ node \in Node /\ Parsed
  BY HeadTyped DEF VisitPipe, VisitDataFirstOrLast, VisitSingleArgCall, Searching, Typed
<1>2. CASE VisitPipe
  <2>1. kind(node) \in PipeKind /\ kind(node) # "call" /\ ~ IsEffectFn(node)
    BY <1>2 DEF VisitPipe, PipeKind, IsEffectFn
  <2>2. GoesIn(node) /\ Subject(node) = subject(node) /\ Inner(node) = ChildrenOf(args(node))
    BY <2>1 DEF GoesIn, PipingCall, Subject, Inner, Applied
  <2>3. PipeTransformations(node) \in Seq(Steplike)
    BY <1>1, <2>1, PipeTransformationsAreSteps
  <2>4. Continue(node, Subject(node), PipeTransformations(node), Inner(node))
    BY <1>2, <2>2 DEF VisitPipe
  <2> QED BY <1>1, <2>2, <2>3, <2>4, ContinueAccounted
<1>3. CASE VisitDataFirstOrLast
  <2>1. kind(node) \in DataKind /\ kind(node) # "call" /\ ~ IsEffectFn(node) /\ kind(node) \notin PipeKind
    BY <1>3 DEF VisitDataFirstOrLast, DataKind, PipeKind, IsEffectFn
  <2>2. /\ GoesIn(node) /\ Subject(node) = subject(node)
        /\ Inner(node) = ChildrenOf(<< source[node].callee >> \o args(node))
    BY <2>1 DEF GoesIn, PipingCall, Subject, Inner, Applied
  <2>3. << DataStep(node) >> \in Seq(Steplike)
    BY <1>1, <2>1, StepsTyped
  <2>4. Continue(node, Subject(node), << DataStep(node) >>, Inner(node))
    BY <1>3, <2>2 DEF VisitDataFirstOrLast, DataStep
  <2> QED BY <1>1, <2>2, <2>3, <2>4, ContinueAccounted
<1>4. CASE VisitSingleArgCall
  <2>1. ParseSingleArgCall(node) /\ kind(node) = "call"
    BY <1>4 DEF VisitSingleArgCall, ParseSingleArgCall
  <2>2. ~ IsEffectFn(node) /\ kind(node) \notin PipeKind /\ kind(node) \notin DataKind
    BY <2>1 DEF DataKind, PipeKind, IsEffectFn
  <2>3. /\ GoesIn(node) /\ Subject(node) = args(node)[1]
        /\ Inner(node) = ChildrenOf(<< source[node].callee >>)
    BY <2>1, <2>2 DEF GoesIn, PipingCall, Subject, Inner, Applied
  <2>4. ChildrenOf(<< source[node].callee >>) = Children(source[node].callee)
    <3>1. source[node].callee \in Node
      BY <1>1, <2>1, Members
    <3> QED BY <1>1, <3>1, ChildrenOfOne
  <2>5. << CallStep(node) >> \in Seq(Steplike)
    BY <1>1, <2>1, StepsTyped
  <2>6. Continue(node, Subject(node), << CallStep(node) >>, Inner(node))
    BY <1>4, <2>3, <2>4 DEF VisitSingleArgCall, CallStep
  <2> QED BY <1>1, <2>3, <2>5, <2>6, ContinueAccounted
<1> QED BY <1>2, <1>3, <1>4

LEMMA VisitOtherAccounted ==
  ASSUME Typed, AllAccounted, source' = source, includeEffectFn' = includeEffectFn, VisitOther
  PROVE  AllAccounted'
<1>1. queue # << >> /\ pc = "search" /\ node \in Node
  BY HeadTyped DEF VisitOther, Searching
<1>2. PICK V : Accounted(V, queue, result)
  BY <1>1 DEF AllAccounted
<1>3. ~ PipingCall(node) /\ ~ GoesIn(node) /\ ~ IsEffectFn(node)
  BY DEF VisitOther, PipingCall, GoesIn
<1>4. Inner(node) = Children(node)
  BY <1>3 DEF Inner
<1> DEFINE new == Enqueued(Inner(node))
           fin == Finalized(node)
<1>5. new \in Seq(WorkItem) /\ NewOK(node, new) /\ HandsOn(Mine(Item(node, parentFlow)), new, fin)
  <2>1. /\ fin \in Seq(Finished)
        /\ parentFlow = NoFlow => fin = << >>
        /\ parentFlow # NoFlow => DOMAIN fin = {1} /\ fin[1].node = parentFlow[1].node
    BY <1>1, <1>2, HeadAccounted, FinalizedIs
  <2> HIDE DEF fin
  <2>2. DOMAIN << >> = {}
    OBVIOUS
  <2>3. /\ \A j \in DOMAIN fin : parentFlow # NoFlow /\ fin[j].node = parentFlow[1].node
        /\ parentFlow # NoFlow => \E j \in DOMAIN fin : fin[j].node = parentFlow[1].node
        /\ \A i, j \in DOMAIN fin : i = j
    BY <2>1, <2>2
  <2> QED BY <1>1, <1>2, <1>3, <2>1, <2>3, HeadAccounted, EndStep
<1>6. fin \in Seq(Finished) /\ Ended(fin)
  <2>1. fin \in Seq(Finished) /\ \A j \in DOMAIN fin : fin[j].subject = node
    BY <1>1, <1>2, HeadAccounted, FinalizedIs
  <2> HIDE DEF fin
  <2> QED BY <1>3, <2>1 DEF Ended
<1>7. queue' = new \o Tail(queue) /\ result' = result \o fin /\ pc' = "search"
  BY <1>1, <1>4 DEF VisitOther
<1> HIDE DEF new, fin
<1>8. Ended(result)
  BY DEF AllAccounted
<1> QED BY <1>1, <1>2, <1>5, <1>6, <1>7, <1>8, AccountedNext

LEMMA VisitEffectFnAccounted ==
  ASSUME Typed, AllAccounted, source' = source, includeEffectFn' = includeEffectFn, VisitEffectFn
  PROVE  AllAccounted'
<1>1. queue # << >> /\ pc = "search" /\ node \in Node /\ IsEffectFn(node) /\ kind(node) = "effectFn" /\ Parsed
  BY HeadTyped DEF VisitEffectFn, Searching, IsEffectFn, Typed
<1>2. PICK V : Accounted(V, queue, result)
  BY <1>1 DEF AllAccounted
<1>3. PipingCall(node) /\ ~ GoesIn(node)
  BY <1>1 DEF PipingCall, GoesIn
<1>4. Inner(node) = ChildrenOf(<< subject(node) >> \o args(node))
  BY <1>1, <1>3 DEF Inner, Applied
<1> DEFINE new   == Enqueued(Inner(node))
           whole == Flow(node, node, PipeTransformations(node))
           ended == Finalized(node)
           fin   == << whole >> \o ended
<1>5. whole \in Finished /\ whole.node = node /\ whole.subject = node
  <2>1. PipeTransformations(node) \in Seq(Steplike)
    BY <1>1, PipeTransformationsAreSteps
  <2> QED BY <1>1, <2>1 DEF Flow, Finished
<1>6. /\ ended \in Seq(Finished)
      /\ parentFlow = NoFlow => ended = << >>
      /\ parentFlow # NoFlow => DOMAIN ended = {1} /\ ended[1].node = parentFlow[1].node
      /\ \A j \in DOMAIN ended : ended[j].subject = node
  BY <1>1, <1>2, HeadAccounted, FinalizedIs
<1>7. queue' = new \o Tail(queue) /\ result' = Append(result, whole) \o ended /\ pc' = "search"
  BY <1>1, <1>4 DEF VisitEffectFn
<1> HIDE DEF new, whole, ended
<1>8. << whole >> \in Seq(Finished) /\ Len(<< whole >>) = 1 /\ << whole >>[1] = whole
  BY <1>5
<1>9. /\ fin \in Seq(Finished) /\ DOMAIN ended = 1 .. Len(ended) /\ DOMAIN fin = 1 .. (1 + Len(ended)) /\ Len(ended) \in Nat
      /\ fin[1] = whole /\ \A i \in DOMAIN ended : fin[1 + i] = ended[i]
  <2>1. fin \in Seq(Finished)
    BY <1>6, <1>8, ConcatProperties
  <2>2. /\ DOMAIN ended = 1 .. Len(ended) /\ DOMAIN fin = 1 .. (Len(<< whole >>) + Len(ended)) /\ Len(ended) \in Nat
        /\ \A i \in 1 .. Len(<< whole >>) : fin[i] = << whole >>[i]
        /\ \A i \in 1 .. Len(ended) : fin[Len(<< whole >>) + i] = ended[i]
    BY <1>6, <1>8, ConcatIs
  <2> HIDE DEF fin
  <2> QED BY <1>8, <2>1, <2>2
<1>10. result' = result \o fin
  <2>1. result \in Seq(Finished)
    BY TypeOKIs DEF Typed
  <2>2. whole \in Finished /\ ended \in Seq(Finished)
    BY <1>5, <1>6
  <2>3. Append(result, whole) \o ended = result \o (<< whole >> \o ended)
    BY <2>1, <2>2, AppendedThen
  <2> QED BY <1>7, <2>3
<1> HIDE DEF fin
<1>11. \A i \in DOMAIN fin : i = 1 \/ (i - 1 \in DOMAIN ended /\ fin[i] = ended[i - 1])
  <2>1. \A i \in DOMAIN fin : i # 1 => i - 1 \in DOMAIN ended /\ 1 + (i - 1) = i
    BY <1>9
  <2> QED BY <1>9, <2>1
<1>12. 1 \in DOMAIN fin /\ \A i \in DOMAIN ended : 1 + i \in DOMAIN fin /\ i \in Nat
  BY <1>9
<1>13. DOMAIN << >> = {}
  OBVIOUS
<1>14. new \in Seq(WorkItem) /\ NewOK(node, new) /\ HandsOn(Mine(Item(node, parentFlow)), new, fin)
  <2>1. \A j \in DOMAIN fin : fin[j].node = node \/ (parentFlow # NoFlow /\ fin[j].node = parentFlow[1].node)
    BY <1>5, <1>6, <1>9, <1>11, <1>13
  <2>2. fin[1].node = node
    BY <1>5, <1>9
  <2>3. parentFlow # NoFlow => \E j \in DOMAIN fin : fin[j].node = parentFlow[1].node
    BY <1>6, <1>9, <1>12
  <2>4. parentFlow # NoFlow => parentFlow[1].node # node
    BY <1>1, <1>2, HeadAccounted
  <2>5. \A i, j \in DOMAIN fin : fin[i].node = fin[j].node => i = j
    <3>1. \A i \in DOMAIN fin : i # 1 => parentFlow # NoFlow /\ i - 1 = 1 /\ fin[i].node = parentFlow[1].node
      BY <1>6, <1>11, <1>13
    <3>2. \A i, j \in DOMAIN fin : i # 1 /\ j # 1 => i = j
      <4>1. \A i \in DOMAIN fin : i \in Nat
        BY <1>9
      <4> QED BY <3>1, <4>1
    <3> QED BY <2>2, <2>4, <3>1, <3>2
  <2> QED BY <1>1, <1>2, <1>3, <1>9, <1>12, <2>1, <2>2, <2>3, <2>4, <2>5, HeadAccounted, EndStep DEF new
<1>15. Ended(fin)
  BY <1>1, <1>5, <1>6, <1>9, <1>11 DEF Ended
<1>16. Ended(result)
  BY DEF AllAccounted
<1> QED BY <1>1, <1>2, <1>7, <1>9, <1>10, <1>14, <1>15, <1>16, AccountedNext

\* When the queue is empty the search was everywhere.
LEMMA AllVisited ==
  ASSUME Parsed, NEW V, NEW q, q = << >>, VisitedOK(V, q)
  PROVE  \A x : Reached(x) => x \in V
<1> DEFINE Bad == { x \in Node : Reached(x) /\ x \notin V }
<1>1. \A x : From(V, x) => x \in V
  <2>1. DOMAIN << >> = {}
    OBVIOUS
  <2> QED BY <2>1 DEF VisitedOK
<1>2. Bad = {}
  <2>1. SUFFICES ASSUME Bad # {} PROVE FALSE
    OBVIOUS
  <2>2. PICK k \in Bad : \A y \in Bad : k <= y
    <3>1. Bad \subseteq Nat
      BY Numbered
    <3> HIDE DEF Bad
    <3> QED BY <2>1, <3>1, LeastNatural
  <2>3. k \in Node /\ Reached(k) /\ k \notin V
    OBVIOUS
  <2>4. k # File
    BY <1>1, <2>3 DEF From
  <2>5. PICK p \in Node : Reached(p) /\ p < k /\ k \in Opened(p)
    BY <2>3, <2>4, ReachedFromAbove
  <2>6. ~ (k <= p)
    BY <2>3, <2>5, Numbered
  <2>7. p \in V
    <3>1. p \notin Bad
      <4> HIDE DEF Bad
      <4> QED BY <2>2, <2>6
    <3> QED BY <2>5, <3>1
  <2> QED BY <1>1, <2>3, <2>5, <2>7 DEF From
<1>3. \A x : Reached(x) => x \in Node
  BY UsedIs DEF Reached
<1> QED BY <1>2, <1>3

LEMMA FinishAccounted ==
  ASSUME Typed, AllAccounted, source' = source, includeEffectFn' = includeEffectFn, Finish
  PROVE  AllAccounted'
<1>1. queue = << >> /\ pc = "search" /\ pc' = "done" /\ result \in Seq(Finished) /\ Parsed
  BY TypeOKIs DEF Finish, Typed
<1>2. PICK V : Accounted(V, queue, result)
  BY <1>1 DEF AllAccounted
<1>3. \A x : Reached(x) => x \in V
  BY <1>1, <1>2, AllVisited DEF Accounted
<1>4. EachOnce(result)
  <2>1. \A j \in DOMAIN result : Start(result[j].node)
    BY <1>2 DEF Accounted, FlowsOK
  <2>2. \A i, j \in DOMAIN result : result[i].node = result[j].node => i = j
    BY <1>2 DEF Accounted, FlowsOK
  <2>3. ASSUME NEW x \in Node, Start(x) PROVE \E j \in DOMAIN result : result[j].node = x
    <3>1. x \in V
      BY <1>1, <1>3, <2>3, InFlowReached DEF Start
    <3>2. DOMAIN queue = {}
      BY <1>1
    <3> QED BY <1>2, <2>3, <3>1, <3>2 DEF Accounted, FlowsOK
  <2> QED BY <2>1, <2>2, <2>3 DEF EachOnce
<1>5. PICK D : D = DOMAIN result
  OBVIOUS
<1>6. PICK r : r = result
  OBVIOUS
<1>7. PICK from \in Bijection(D, D) : result' = [i \in D |-> r[from[i]]]
  BY <1>5, <1>6 DEF Finish
<1>8. /\ from \in [D -> D] /\ \A i, j \in D : from[i] = from[j] => i = j
      /\ \A k \in D : \E i \in D : from[i] = k
  BY DEF Bijection, Injection, Surjection, IsInjective
<1>9. DOMAIN result' = D /\ \A i \in D : result'[i] = r[from[i]] /\ from[i] \in D
  BY <1>7, <1>8
<1>10. EachOnce(result')
  <2>1. \A j \in DOMAIN result' : Start(result'[j].node)
    BY <1>4, <1>5, <1>6, <1>9 DEF EachOnce
  <2>2. ASSUME NEW i \in D, NEW j \in D, result'[i].node = result'[j].node PROVE i = j
    <3>1. from[i] = from[j]
      BY <1>4, <1>5, <1>6, <1>9, <2>2 DEF EachOnce
    <3> QED BY <1>8, <3>1
  <2>3. ASSUME NEW x \in Node, Start(x) PROVE \E j \in D : result'[j].node = x
    <3>1. PICK k \in D : r[k].node = x
      BY <1>4, <1>5, <1>6, <2>3 DEF EachOnce
    <3>2. PICK i \in D : from[i] = k
      BY <1>8
    <3> QED BY <1>9, <3>1, <3>2
  <2> QED BY <1>9, <2>1, <2>2, <2>3 DEF EachOnce
<1>11. Ended(result')
  BY <1>5, <1>6, <1>9 DEF AllAccounted, Ended
<1>12. EachOnce(result)' /\ Ended(result)'
  BY <1>10, <1>11, AccountsUnchanged
<1> QED BY <1>1, <1>12 DEF AllAccounted

LEMMA NextAccounted ==
  ASSUME Typed, AllAccounted, [Next]_vars
  PROVE  AllAccounted'
<1>1. source' = source /\ includeEffectFn' = includeEffectFn
  BY InputKept DEF Typed
<1>2. CASE VisitEffectFn
  BY <1>1, <1>2, VisitEffectFnAccounted
<1>3. CASE VisitPipe \/ VisitDataFirstOrLast \/ VisitSingleArgCall
  BY <1>1, <1>3, GoesInAccounted
<1>4. CASE VisitOther
  BY <1>1, <1>4, VisitOtherAccounted
<1>5. CASE Finish
  BY <1>1, <1>5, FinishAccounted
<1>6. CASE UNCHANGED vars
  <2>1. pc' = pc /\ queue' = queue /\ result' = result
    BY <1>6 DEF vars
  <2>2. pc' = "search" => \E V : Accounted(V, queue', result')
    BY <2>1 DEF AllAccounted
  <2>3. (pc' = "done" => EachOnce(result')) /\ Ended(result')
    BY <2>1 DEF AllAccounted
  <2>4. pc' = "search" => \E V : Accounted(V, queue, result)'
    BY <1>1, <2>2, AccountsUnchanged
  <2>5. (pc' = "done" => EachOnce(result)') /\ Ended(result)'
    BY <1>1, <2>3, AccountsUnchanged
  <2> QED BY <2>4, <2>5 DEF AllAccounted
<1> QED BY <1>2, <1>3, <1>4, <1>5, <1>6 DEF Next

LEMMA InitAccounted ==
  ASSUME Init
  PROVE  AllAccounted
<1>1. Parsed /\ pc = "search" /\ result = << >> /\ queue = Enqueued(<< File >>)
  BY InitTyped DEF Typed, Init
<1>2. << File >> \in Seq(Node) /\ IsInjective(<< File >>) /\ ToSet(<< File >>) = {File}
  BY Numbered DEF IsInjective, ToSet
<1>3. /\ \A i \in DOMAIN queue : queue[i].node = File /\ queue[i].parentFlow = << >> /\ ~ Carries(queue[i])
      /\ \E i \in DOMAIN queue : queue[i].node = File
      /\ \A i, j \in DOMAIN queue : i = j
  BY <1>1, <1>2, EnqueuedIs DEF Carries, NoFlow
<1>4. Reached(File) /\ ~ Chained(File)
  BY <1>1, FileReached
<1>5. DOMAIN result = {}
  BY <1>1
<1>6. \A x : From({}, x) <=> x = File
  BY DEF From
<1>7. VisitedOK({}, queue)
  BY <1>3, <1>6 DEF VisitedOK
<1>8. \A i \in DOMAIN queue : Len(queue[i].parentFlow) <= 1
  BY <1>3
<1>9. QueueOK({}, queue)
  BY <1>3, <1>4, <1>6, <1>8 DEF QueueOK
<1>10. FlowsOK({}, queue, result)
  BY <1>3, <1>5 DEF FlowsOK
<1>11. Accounted({}, queue, result)
  BY <1>7, <1>9, <1>10 DEF Accounted
<1>12. Ended(result)
  BY <1>5 DEF Ended
<1> QED BY <1>1, <1>11, <1>12 DEF AllAccounted

-----------------------------------------------------------------------------
LEMMA SpinesOnce ==
  ASSUME Typed, EachOnce(result), NEW n \in Node, PipingCall(n)
  PROVE  Cardinality({ i \in DOMAIN result : n \in Spine(result[i]) }) = IF InFlow(n) THEN 1 ELSE 0
<1> DEFINE At == { i \in DOMAIN result : n \in Spine(result[i]) }
<1>1. Parsed
  BY DEF Typed
<1>2. PICK from : IsSpine(from) /\ \A flow : PipingCall(flow.node) => Spine(flow) = from[flow.node]
  BY <1>1, SpineIs DEF IsSpine
<1>3. ASSUME NEW i \in DOMAIN result
      PROVE  result[i].node \in Node /\ Start(result[i].node) /\ Spine(result[i]) = from[result[i].node]
  <2>1. result[i].node \in Node
    <3>1. result \in Seq(Finished)
      BY TypeOKIs DEF Typed
    <3>2. result[i] \in Finished
      BY <3>1
    <3> QED BY <3>2 DEF Finished
  <2>2. Start(result[i].node)
    BY DEF EachOnce
  <2>3. PipingCall(result[i].node)
    BY <1>1, <2>1, <2>2, InFlowReached DEF Start
  <2> QED BY <1>2, <2>1, <2>2, <2>3
<1>4. CASE InFlow(n)
  <2>1. PICK r \in Node : Start(r) /\ n \in from[r]
    BY <1>1, <1>2, <1>4, OnSomeSpine
  <2>2. PICK i \in DOMAIN result : result[i].node = r
    BY <2>1 DEF EachOnce
  <2>3. i \in At
    BY <1>3, <2>1, <2>2
  <2>4. ASSUME NEW j \in At PROVE j = i
    <3>1. j \in DOMAIN result /\ n \in from[result[j].node] /\ result[j].node \in Node /\ Start(result[j].node)
      BY <1>3
    <3>2. result[j].node = r
      BY <1>1, <1>2, <2>1, <3>1, OnOneSpine
    <3> QED BY <2>2, <3>1, <3>2 DEF EachOnce
  <2>5. At = {i}
    BY <2>3, <2>4
  <2> HIDE DEF At
  <2>6. Cardinality(At) = 1
    BY <2>5, FS_Singleton
  <2> QED BY <1>4, <2>6 DEF At
<1>5. CASE ~ InFlow(n)
  <2>1. At = {}
    <3>1. SUFFICES ASSUME NEW i \in DOMAIN result, n \in Spine(result[i]) PROVE FALSE
      OBVIOUS
    <3> QED BY <1>1, <1>2, <1>3, <1>5, <3>1, SpineInFlow
  <2>2. Cardinality(At) = 0
    BY <2>1, FS_EmptySet
  <2> QED BY <1>5, <2>2
<1> QED BY <1>4, <1>5

(***************************************************************************)
(* For every source, every call that applies something is in one flow and  *)
(* in no other, and a flow goes in until there is no further call, however *)
(* deep they are (piping_flow.go:235), but for the calls in an argument's  *)
(* place.                                                                  *)
(***************************************************************************)
THEOREM CallsInFlowsAlways == Spec => []CallsInFlows
<1>1. Init => Typed /\ AllAccounted
  BY InitTyped, InitAccounted
<1>2. Typed /\ AllAccounted /\ [Next]_vars => Typed' /\ AllAccounted'
  BY NextTyped, NextAccounted
<1>3. Typed /\ AllAccounted => CallsInFlows
  <2> SUFFICES ASSUME Typed, AllAccounted, pc = "done"
               PROVE  /\ \A n \in Used : PipingCall(n) =>
                           Cardinality({ i \in DOMAIN result : n \in Spine(result[i]) }) = IF InFlow(n) THEN 1 ELSE 0
                      /\ \A i \in DOMAIN result : PipingCall(result[i].subject) => IsEffectFn(result[i].subject)
    BY DEF CallsInFlows
  <2>1. EachOnce(result) /\ Ended(result)
    BY DEF AllAccounted
  <2>2. Used \subseteq Node
    BY UsedIs DEF Typed
  <2> QED BY <2>1, <2>2, SpinesOnce DEF Ended
<1> QED BY <1>1, <1>2, <1>3, PTL DEF Spec
=============================================================================
