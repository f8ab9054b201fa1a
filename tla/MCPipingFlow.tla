---------------------------- MODULE MCPipingFlow ----------------------------
(***************************************************************************)
(* PipingFlow on every source of few expressions, and on larger ones in    *)
(* which pipes, calls and functions are in one another.                    *)
(***************************************************************************)
EXTENDS PipingFlow

CONSTANTS MaxNode, MaxSmall

MCNode == 1 .. MaxNode

expression(as, callee, subjectOf, others, type) ==
  [kind |-> as, callee |-> callee, subject |-> subjectOf, args |-> others, type |-> type]

Nothing == expression("name", 0, 0, << >>, "other")

\* What an expression with these members can be.
Forms(members, types) ==
  LET n == Len(members)
      m(i) == members[i]
      from(i) == SubSeq(members, i, n)
  IN  UNION { CASE n = 0 -> { expression(as, 0, 0, << >>, type) : as \in {"name", "method"} }
                [] OTHER ->
                     { expression("call", m(1), 0, from(2), type) } \cup
                     { expression(as, 0, m(1), from(2), type) : as \in PipeKind } \cup
                     (IF n = 1 THEN { expression("function", 0, 0, members, type) } ELSE {}) \cup
                     (IF n = 2 THEN { expression("effectFn", 0, m(1), from(2), type) } ELSE {}) \cup
                     (IF n = 3 THEN { expression("dataFirst", m(1), m(2), from(3), type),
                                      expression("dataLast", m(1), m(3), << m(2) >>, type) } ELSE {})
              : type \in types }

\* An Effect.fn begins with a function.
Possible(s) ==
  \A n \in Node : s[n].kind = "effectFn" => s[s[n].subject].kind = "function"

\* The sources in which each expression is in the one that "of" names.
Sources(of, types) ==
  LET n == Len(of)
      may == [k \in MCNode |->
                IF k > n THEN {Nothing}
                ELSE Forms(SetToSortSeq({ c \in 1 .. n : of[c] = k }, <), types)]
      first[k \in 0 .. MaxNode] ==
        IF k = 0 THEN { << >> } ELSE { Append(s, e) : s \in first[k - 1], e \in may[k] }
  IN  { s \in first[MaxNode] : Possible(s) }

\* Numbered from outside in: what follows an expression is in it, or in what it is in.
Trees(n) ==
  { of \in [1 .. n -> 0 .. (n - 1)] :
      /\ \A k \in 1 .. n : of[k] < k /\ (of[k] = 0 <=> k = 1)
      /\ \A k \in 2 .. n :
           LET around[x \in 1 .. n] == {x} \cup IF x = 1 THEN {} ELSE around[of[x]] IN of[k] \in around[k - 1] }

Pipeable == {"pipeable"}
Some     == {"pipeable", "other"}

\* f(g(h(x))) with pipes, methods and types of either kind, and what is in the
\* arguments of a pipe, in a callee and in functions.
MCInputs ==
  { Sources(of, Some \cup {"function"}) : of \in UNION { Trees(n) : n \in 1 .. (MaxSmall - 1) } } \cup
  { Sources(of, Some) : of \in Trees(MaxSmall) \cup {<<0, 1, 1, 3, 3, 5, 5>>, <<0, 1, 2, 2, 4, 4>>} } \cup
  { Sources(of, Pipeable) :
      of \in { <<0, 1, 1, 3, 3, 5, 3>>, <<0, 1, 2, 2, 1, 5, 5>>,
               <<0, 1, 1, 3, 3, 5, 5, 7>>, <<0, 1, 1, 3, 3, 3, 6>> } }
=============================================================================
