----------------------------- MODULE PipingFlow -----------------------------
(***************************************************************************)
(* How nested calls and pipes are read as piping flows, a subject and what *)
(* is applied to it: the work queue of PipingFlows                         *)
(* (internal/typeparser/piping_flow.go), which fourteen rules start from.  *)
(* One of them offers to rewrite nested calls with .pipe(), whose message  *)
(* says that this "represents the same call sequence":                     *)
(* internal/rules/missed_pipeable_opportunity.go, and the fix of the same  *)
(* name in internal/fixables.                                              *)
(*                                                                         *)
(* The source is a tree of expressions.  What the checker decides about a  *)
(* call, whether it is pipe, .pipe, data first, data last or Effect.fn, is *)
(* its kind.  Spread arguments and optional calls, f?.(x), are left out.    *)
(***************************************************************************)
EXTENDS Integers, SequencesExt

CONSTANTS
  Node,               \* the expressions, numbered from outside in; 0 is none of them
  File,               \* the one that the others are in
  Inputs              \* sets of sources that are tried

PipeKind == {"pipe", "pipeable"}
DataKind == {"dataFirst", "dataLast"}

Expression ==
  [kind : {"name", "method", "function", "call", "effectFn"} \cup PipeKind \cup DataKind,
   callee : Node \cup {0},     \* of a call and of a data first or data last one
   subject : Node \cup {0},    \* of these and of a pipe; the function of an Effect.fn
   args : Seq(Node),           \* the others; the body of a function
   type : {"pipeable", "function", "other"}]   \* of what it is, or as a transformation yields

Parts(e) == ({e.callee, e.subject} \cup ToSet(e.args)) \ {0}

\* A tree below File: an expression is in one other at most, at one place, and
\* what is in none has nothing in it.
Tree(s) ==
  \A n \in Node :
    LET e == s[n]
        parts == Parts(e)
    IN  /\ \A c \in parts : c > n /\ c # File /\ \A m \in 1 .. (n - 1) : c \notin Parts(s[m])
        /\ e.callee \in parts => e.callee \notin {e.subject} \cup ToSet(e.args)
        /\ e.subject \in parts => e.subject \notin ToSet(e.args)
        /\ IsInjective(e.args)
        /\ parts # {} => n = File \/ \E m \in 1 .. (n - 1) : n \in Parts(s[m])

\* What parses: a call has a callee, a pipe and the like a subject, of an
\* Effect.fn it is a function (internal/typeparser/effect_fn.go:23), and data first
\* or last is a call of two arguments or more (data_first_signature.go:28).
Parses(s) ==
  \A n \in Node :
    LET e == s[n] IN
    /\ e.kind \in {"call"} \cup DataKind <=> e.callee # 0
    /\ e.kind \in {"effectFn"} \cup PipeKind \cup DataKind <=> e.subject # 0
    /\ e.kind = "effectFn" => s[e.subject].kind = "function"
    /\ e.kind \in DataKind => e.args # << >>

ASSUME InputsType ==
  /\ IsFiniteSet(Node) /\ Node = 1 .. Cardinality(Node) /\ File \in Node
  /\ \A sources \in Inputs : \A s \in sources : s \in [Node -> Expression] /\ Tree(s) /\ Parses(s)

VARIABLES
  source, includeEffectFn,    \* the input
  pc,                         \* "search" or "done"
  queue,                      \* the work items, the one to pop at the head
  result                      \* the flows found

input == <<source, includeEffectFn>>
vars  == <<input, pc, queue, result>>

Item(n, flow) == [node |-> n, parentFlow |-> flow]

\* None or one flow that is still without its subject.
NoFlow == << >>

node       == Head(queue).node
parentFlow == Head(queue).parentFlow

kind(n)    == source[n].kind
subject(n) == source[n].subject
args(n)    == source[n].args

Known(n) == IF n = 0 THEN << >> ELSE << n >>

\* In source order.
Children(n) ==
  LET receiver == Known(subject(n))
  IN  Known(source[n].callee) \o (IF kind(n) = "dataLast" THEN args(n) \o receiver ELSE receiver \o args(n))

ChildrenOf(ns) == FlattenSeq([i \in DOMAIN ns |-> Children(ns[i])])

\* Items without a flow, the last one pushed on top.
Enqueued(ns) == LET back == Reverse(ns) IN [i \in DOMAIN back |-> Item(back[i], NoFlow)]

-----------------------------------------------------------------------------
(***************************************************************************)
(* What a call applies to its subject.                                     *)
(***************************************************************************)
Transformation(as, n, callee, arguments) ==
  [kind |-> as, node |-> n, callee |-> callee, args |-> arguments, type |-> source[n].type]

\* Mutation of PipeTransformation: what is no call is taken for one.
PipeTransformation_Call(as, n) == Transformation(as, n, source[n].callee, args(n))

\* An argument of a pipe is what is applied.  Of a call the callee and the
\* arguments are kept; one of another kind is kept whole, which is the same
\* wherever it is written again, but for y.pipe() (Bare).
PipeTransformation(as, n) ==
  IF kind(n) = "call" THEN Transformation(as, n, source[n].callee, args(n))
  ELSE Transformation(as, n, n, << >>)

PipeTransformations(n) == [i \in DOMAIN args(n) |-> PipeTransformation(kind(n), args(n)[i])]

ParseSingleArgCall(n) == kind(n) = "call" /\ Len(args(n)) = 1

Init ==
  /\ \E sources \in Inputs : source \in sources
  /\ includeEffectFn \in BOOLEAN
  /\ pc = "search" /\ queue = Enqueued(<< File >>) /\ result = << >>

-----------------------------------------------------------------------------
(***************************************************************************)
(* The search.                                                             *)
(***************************************************************************)
\* Mutation of Extend: what the outer calls apply comes first.
Extend_Append(flow, n, transformations) ==
  IF flow = NoFlow THEN << [node |-> n, transformations |-> transformations] >>
  ELSE << [flow[1] EXCEPT !.transformations = @ \o transformations] >>

\* A call in the subject of another goes before it in the same flow.
Extend(flow, n, transformations) ==
  IF flow = NoFlow THEN << [node |-> n, transformations |-> transformations] >>
  ELSE << [flow[1] EXCEPT !.transformations = transformations \o @] >>

Flow(n, at, transformations) == [node |-> n, subject |-> at, transformations |-> transformations]

\* The flow that was waiting for its subject, if any.
Finalized(n) == [i \in DOMAIN parentFlow |-> Flow(parentFlow[i].node, n, parentFlow[i].transformations)]

\* The queue goes on with the subject, below the inner expressions.
Continue(n, at, transformations, inner) ==
  /\ queue' = Enqueued(inner) \o << Item(at, Extend(parentFlow, n, transformations)) >> \o Tail(queue)
  /\ UNCHANGED <<input, pc, result>>

Searching == pc = "search" /\ queue # << >>

IsEffectFn(n) == includeEffectFn /\ kind(n) = "effectFn"

\* Its subject is not written: the flow stands for the whole call.
VisitEffectFn ==
  /\ Searching /\ IsEffectFn(node)
  /\ result' = Append(result, Flow(node, node, PipeTransformations(node))) \o Finalized(node)
  /\ queue' = Enqueued(ChildrenOf(<< subject(node) >> \o args(node))) \o Tail(queue)
  /\ UNCHANGED <<input, pc>>

VisitPipe ==
  /\ Searching /\ kind(node) \in PipeKind
  /\ Continue(node, subject(node), PipeTransformations(node), ChildrenOf(args(node)))

VisitDataFirstOrLast ==
  /\ Searching /\ kind(node) \in DataKind
  /\ Continue(node, subject(node),
              << Transformation(kind(node), node, source[node].callee, args(node)) >>,
              ChildrenOf(<< source[node].callee >> \o args(node)))

VisitSingleArgCall ==
  /\ Searching /\ ParseSingleArgCall(node)
  /\ Continue(node, args(node)[1], << Transformation("call", node, source[node].callee, << >>) >>,
              Children(source[node].callee))

\* Mutation of VisitOther: what is in a subject is not searched.
VisitOther_SubjectClosed ==
  /\ Searching /\ ~ IsEffectFn(node) /\ kind(node) \notin PipeKind \cup DataKind /\ ~ ParseSingleArgCall(node)
  /\ result' = result \o Finalized(node)
  /\ queue' = (IF parentFlow = NoFlow THEN Enqueued(Children(node)) ELSE << >>) \o Tail(queue)
  /\ UNCHANGED <<input, pc>>

VisitOther ==
  /\ Searching /\ ~ IsEffectFn(node) /\ kind(node) \notin PipeKind \cup DataKind /\ ~ ParseSingleArgCall(node)
  /\ result' = result \o Finalized(node)
  /\ queue' = Enqueued(Children(node)) \o Tail(queue)
  /\ UNCHANGED <<input, pc>>

\* Where a node starts.
Pos(n) ==
  LET start[m \in Node] ==
        IF kind(m) = "pipeable" THEN start[subject(m)]
        ELSE IF source[m].callee # 0 THEN start[source[m].callee]
        ELSE m
  IN  start[n]

\* Flows that start at the same place come in any order: the sort is not stable.
Finish ==
  /\ pc = "search" /\ queue = << >>
  /\ pc' = "done"
  /\ \E from \in Bijection(DOMAIN result, DOMAIN result) :
       /\ \A i, j \in DOMAIN result : i < j => Pos(result[from[i]].node) <= Pos(result[from[j]].node)
       /\ result' = [i \in DOMAIN result |-> result[from[i]]]
  /\ UNCHANGED <<input, queue>>

Next == VisitEffectFn \/ VisitPipe \/ VisitDataFirstOrLast \/ VisitSingleArgCall \/ VisitOther \/ Finish

Spec == Init /\ [][Next]_vars

-----------------------------------------------------------------------------
(***************************************************************************)
(* missedPipeableOpportunity: where a flow can be written with .pipe(),    *)
(* and what the fix writes.                                                *)
(***************************************************************************)
Steps(flow) == Len(flow.transformations)

\* The type that is there before the transformation after the i-th.
IsPipeableAtIndex(flow, i) ==
  (IF i = 0 THEN source[flow.subject].type ELSE flow.transformations[i].type) = "pipeable"

\* A method would lose its object.
IsSafelyPipeableCallee(t) ==
  LET callee == IF t.callee = t.node /\ kind(t.node) \in DataKind THEN source[t.node].callee ELSE t.callee
  IN  kind(callee) # "method" /\ (t.callee = t.node => kind(callee) # "pipeable")

\* How far the callees are safe after the first i transformations.
End(flow, i) ==
  Max({ j \in i .. Steps(flow) : \A k \in (i + 1) .. j : IsSafelyPipeableCallee(flow.transformations[k]) })

Calls(flow, i, j) == Cardinality({ k \in (i + 1) .. j : flow.transformations[k].kind = "call" })

\* The first segment from where the type is pipeable with enough calls, or none.
Analyze(flow, minArgCount) ==
  LET search[i \in 0 .. (Steps(flow) + 1)] ==
        LET starts == { k \in i .. Steps(flow) : IsPipeableAtIndex(flow, k) } IN
        IF starts = {} THEN << >>
        ELSE LET first == Min(starts)
                 last  == End(flow, first)
             IN  IF Calls(flow, first, last) >= minArgCount THEN << [first |-> first, last |-> last] >>
                 ELSE search[last + 1]
  IN  IF Steps(flow) < minArgCount \/ flow.transformations[Steps(flow)].type = "function" THEN << >>
      ELSE search[0]

\* The first of what is written between the parentheses of a call, 0 if nothing
\* is: the subject, but for that of .pipe and of data last.
FirstArgument(n) ==
  LET written == CASE kind(n) \in {"call", "pipeable", "dataLast"}    -> args(n)
                   [] kind(n) \in {"pipe", "dataFirst", "effectFn"} -> << subject(n) >>
                   [] OTHER                                   -> << >>
  IN  IF written = << >> THEN 0 ELSE written[1]

\* The way in from the node of a flow: what its first k transformations are
\* taken to make, 0 where one of the outer ones is not written as a call.
Inside(flow) ==
  LET inside[k \in 0 .. Steps(flow)] ==
        IF k = Steps(flow) THEN flow.node
        ELSE IF inside[k + 1] = 0 \/ flow.transformations[k + 1].kind # "call" THEN 0
        ELSE FirstArgument(inside[k + 1])
  IN  inside

\* findSubjectNodeAtDepth: what the first i transformations make.
SubjectAtDepth(flow, i) == IF i = 0 THEN flow.subject ELSE Inside(flow)[i]

-----------------------------------------------------------------------------
(***************************************************************************)
(* What an expression computes, as a term.                                 *)
(***************************************************************************)
Term(n, parts) == [of |-> n, parts |-> parts]

\* A function applied to arguments.
Apply(f, xs) == Term(0, << f >> \o xs)

\* What comes of x after each of the functions.
After(x, fs) == LET after[i \in 0 .. Len(fs)] == IF i = 0 THEN x ELSE Apply(fs[i], << after[i - 1] >>) IN after

Piped(x, fs) == After(x, fs)[Len(fs)]

\* From what the others mean.
MeaningFrom(of, n) ==
  LET all(ns) == [i \in DOMAIN ns |-> of[ns[i]]]
      callee  == of[source[n].callee]
  IN  CASE kind(n) = "call"       -> Apply(callee, all(args(n)))
        [] kind(n) \in PipeKind -> Piped(of[subject(n)], all(args(n)))
        [] kind(n) \in DataKind -> Apply(Apply(callee, all(args(n))), << of[subject(n)] >>)
        [] OTHER                 -> Term(n, all(Children(n)))

Meaning(n) == LET of[m \in Node] == MeaningFrom(of, m) IN of[n]

Meanings(ns) == [i \in DOMAIN ns |-> Meaning(ns[i])]

\* What is written as callee(args...)(x), or callee(x) where there are no arguments.
Function(t) == IF t.args = << >> THEN Meaning(t.callee) ELSE Apply(Meaning(t.callee), Meanings(t.args))

Functions(transformations) == [i \in DOMAIN transformations |-> Function(transformations[i])]

\* ReconstructPipingFlow, and the fix: .pipe() applies the segment, and the
\* rest is wrapped around it.  Those of an Effect.fn, which are only with one
\* another, are left out.
Reconstruct(x, transformations) ==
  IF \A i \in DOMAIN transformations : transformations[i].kind = "effectFn" THEN x
  ELSE Piped(x, Functions(transformations))

Fixed(flow, match) ==
  LET steps == flow.transformations
      piped == Reconstruct(Meaning(SubjectAtDepth(flow, match.first)),
                           SubSeq(steps, match.first + 1, match.last))
  IN  Reconstruct(piped, SubSeq(steps, match.last + 1, Len(steps)))

-----------------------------------------------------------------------------
TypeOK ==
  LET transformation ==
        [kind : {"call", "effectFn"} \cup PipeKind \cup DataKind, node : Node, callee : Node,
         args : Seq(Node), type : {"pipeable", "function", "other"}]
      unfinished == [node : Node, transformations : Seq(transformation)]
  IN /\ source \in [Node -> Expression] /\ includeEffectFn \in BOOLEAN /\ pc \in {"search", "done"}
     /\ queue \in Seq([node : Node, parentFlow : Seq(unfinished)])
     /\ result \in Seq([node : Node, subject : Node, transformations : Seq(transformation)])
     /\ pc = "done" => queue = << >>

\* Of a call without arguments in a pipe, f() or y.pipe(), only the callee is kept
\* (piping_flow.go:452): what is written for it, f(x) or y.pipe(x), is another
\* program (README, "Met while modelling").
Bare(flow) ==
  \E i \in DOMAIN flow.transformations :
    LET t == flow.transformations[i]
    IN  /\ t.kind \in PipeKind /\ t.args = << >>
        /\ t.callee # t.node \/ (kind(t.node) = "pipeable" /\ args(t.node) = << >>)

\* A pipe(x) is around the part that is rewritten.  It applies nothing, so that
\* the way in, which takes one step for each transformation, is a step short
\* (missed_pipeable_opportunity.go:112): the fix writes a call twice (README,
\* "Met while modelling").
Short(flow, match) ==
  \E k \in (match.first + 1) .. Steps(flow) :
    LET n == Inside(flow)[k] IN n # 0 /\ kind(n) = "pipe" /\ args(n) = << >>

\* What can be rewritten, and how, for the least numbers of calls that are tried.
Fixes(flow) ==
  { match \in UNION { ToSet(Analyze(flow, minArgCount)) : minArgCount \in 1 .. 2 } :
      SubjectAtDepth(flow, match.first) # 0 }

\* Whatever calls and pipes are nested how, a flow applied to its subject
\* computes what its node does (reconstruct.go:24), and so does what the fix
\* writes: the same calls in the same order, none lost and none doubled, with
\* what is before and after the rewritten part around it.
MeaningKept ==
  pc = "done" =>
    \A i \in DOMAIN result :
      LET flow == result[i] IN
      ~ Bare(flow) =>
        /\ Reconstruct(Meaning(flow.subject), flow.transformations) = Meaning(flow.node)
        /\ ~ includeEffectFn => \A match \in Fixes(flow) :
             Short(flow, match) \/ Fixed(flow, match) = Meaning(flow.node)

PipingCall(n) ==
  \/ kind(n) \in PipeKind \cup DataKind
  \/ ParseSingleArgCall(n)
  \/ IsEffectFn(n)

\* It is not the end of a flow: its subject may be another of its calls.
GoesIn(n) == PipingCall(n) /\ ~ IsEffectFn(n)

Subject(n) == IF kind(n) = "call" THEN args(n)[1] ELSE subject(n)

\* The calls that a flow is made of, from the outermost in.
Spine(flow) ==
  LET from[n \in Node] ==
        {n} \cup IF GoesIn(n) /\ GoesIn(Subject(n)) THEN from[Subject(n)] ELSE {}
  IN  IF PipingCall(flow.node) THEN from[flow.node] ELSE {}

\* What a call in a flow applies is no flow of its own.
Applies(n) ==
  IF ParseSingleArgCall(n) THEN {source[n].callee} ELSE {source[n].callee} \cup ToSet(args(n))

InFlow(n) ==
  LET in[m \in Node] == PipingCall(m) /\ \A outer \in 1 .. (m - 1) : in[outer] => m \notin Applies(outer)
  IN  in[n]

Used == {File} \cup UNION { ToSet(Children(n)) : n \in Node }

\* "PipingFlows returns all piping flows found in a source file" (piping_flow.go:235):
\* every call that applies something is in one flow and in no other, and a flow
\* goes in until there is no further call, however deep in functions, arguments
\* or subjects of others they are.  Not so the calls in an argument's place: in a
\* pipe they are what is applied, and after a data first call they are passed
\* over (README, "Met while modelling").
CallsInFlows ==
  pc = "done" =>
    /\ \A n \in Used : PipingCall(n) =>
         Cardinality({ i \in DOMAIN result : n \in Spine(result[i]) }) = IF InFlow(n) THEN 1 ELSE 0
    /\ \A i \in DOMAIN result : PipingCall(result[i].subject) => IsEffectFn(result[i].subject)
=============================================================================
