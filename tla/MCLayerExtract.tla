--------------------------- MODULE MCLayerExtract ---------------------------
EXTENDS LayerExtract, TLC

CONSTANT MaxAst, MaxSmall

MCAst == 1 .. MaxAst

expression(kind, members, declaration, layerCall, type, returns) ==
  [kind |-> kind, children |-> members, declaration |-> declaration,
   layerCall |-> layerCall, type |-> type, returns |-> returns]

Absent == expression("other", << >>, 0, FALSE, "none", "none")

\* What takes apart into members; a pipe or a call makes a layer of them or not.
Compositions(members) ==
  { expression(kind, members, 0, TRUE, type, "wanted") :
      kind \in {"pipe", "call"}, type \in {"none", "wanted"} } \cup
  { expression("array", members, 0, FALSE, "none", "none") }

References(declared) ==
  { expression("identifier", << >>, d, FALSE, "wanted", "wanted") : d \in declared }

Values == { expression("other", << >>, 0, FALSE, type, "wanted") : type \in {"none", "wanted"} }

\* A layer that provides something else, and calls without arguments.
OddValues ==
  { expression("other", << >>, 0, FALSE, "other", "other"),
    expression("call", << >>, 0, TRUE, "none", "other"),
    expression("call", << >>, 0, FALSE, "wanted", "wanted") }

\* The programs over the first n expressions, each a member of the one that
\* "of" names, or an initializer.
Programs(n, of, values) ==
  LET declared == { d \in 1 .. n : of[d] = 0 }
      members  == [m \in 1 .. n |-> SetToSortSeq({ c \in 1 .. n : of[c] = m }, <)]
      may      == [m \in MCAst |->
                     IF m > n THEN {Absent}
                     ELSE IF members[m] # << >> THEN Compositions(members[m])
                     ELSE References(declared) \cup values]
      first[m \in 0 .. MaxAst] ==
        IF m = 0 THEN { << >> } ELSE { Append(s, e) : s \in first[m - 1], e \in may[m] }
  IN  first[MaxAst]

Small == { of \in [1 .. MaxSmall -> 0 .. (MaxSmall - 1)] : \A m \in 1 .. MaxSmall : of[m] < m }

option(arrays, calls, depth, skip) ==
  [ArrayLiteralAsMerge |-> arrays, ExplodeOnlyLayerCalls |-> calls,
   FollowSymbolsDepth |-> depth, SkipExplode |-> skip]

\* Hover, the same with a depth set, the missing context rule, Layer Magic and
\* the public API.
Hover(depth) == option(FALSE, FALSE, depth, FALSE)
Callers      == { Hover(0), Hover(1), Hover(2), option(TRUE, TRUE, 0, FALSE), option(FALSE, FALSE, 0, TRUE) }

Asked(of, values, options) == [programs |-> Programs(Len(of), of, values), options |-> options]

\* Every program of few expressions, and larger ones with a declaration that is
\* used twice, directly and through another, or with a composition in another.
MCInputs ==
  { Asked(of, Values \cup OddValues, Callers) : of \in Small } \cup
  { Asked(of, Values, {Hover(1), Hover(2)}) : of \in { <<0, 1, 1, 0, 4, 0>>, <<0, 1, 1, 0, 0>> } } \cup
  { Asked(<<0, 1, 1, 0, 4, 4>>, Values, {Hover(2)}) } \cup
  { Asked(<<0, 1, 1, 2, 2>>, Values, {Hover(0), option(TRUE, TRUE, 0, FALSE)}) }
=============================================================================
