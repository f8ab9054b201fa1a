---------------------------- MODULE MCRuleRunner ----------------------------
(***************************************************************************)
(* RuleRunner on files of three lines with up to two directives, two rules *)
(* (one off by default, one a suggestion) and the options that tell its    *)
(* branches apart.                                                         *)
(***************************************************************************)
EXTENDS RuleRunner

CONSTANTS r1, r2

MCDefaultSeverity == [r \in {r1, r2} |-> IF r = r1 THEN "off" ELSE "suggestion"]

Pair(r, s) == [rule |-> r, severity |-> s]

\* One pair, two pairs in both orders of precedence, wildcards, and skip-file
\* alone and beside another pair.
PairLists ==
  { <<Pair(r1, "error")>>, <<Pair(r1, "off")>>, <<Pair(r2, "off")>>,
    <<Pair(r2, "skip-file")>>, <<Pair(r1, "skip-file"), Pair(r2, "off")>>,
    <<Pair(Any, "off")>>, <<Pair(Any, "skip-file")>>,
    <<Pair(r2, "warning"), Pair(Any, "off")>>, <<Pair(Any, "message")>> }

At(l) == { [line |-> l, isNextLine |-> n, rules |-> p] : n \in BOOLEAN, p \in PairLists }

MCDirectives ==
  { {} } \cup { {d} : d \in At(0) \cup At(1) \cup At(2) }
    \cup { {d, e} : d \in At(0), e \in At(1) }

Finds(s1, s2) == [r \in {r1, r2} |-> IF r = r1 THEN s1 ELSE s2]

MCFile ==
  { [eligible |-> TRUE, directives |-> D, finds |-> f, tscErrors |-> FALSE] :
      D \in MCDirectives, f \in { Finds({1, 2}, {2}), Finds({2}, {1}) } }
  \cup { [eligible |-> e, directives |-> {}, finds |-> Finds({1}, {1, 2}), tscErrors |-> ~ e] :
           e \in BOOLEAN }

Opt(enabled, s1, s2, unused, skip, include, ignore) ==
  [ enabled |-> enabled, severity |-> [r \in {r1, r2} |-> IF r = r1 THEN s1 ELSE s2],
    unusedDirective |-> unused, skipDisabledOptimization |-> skip,
    includeSuggestionsInTsc |-> include, ignoreInExitCode |-> ignore ]

MCOptions ==
  { Opt(TRUE, Unset, Unset, Unset, skip, TRUE, {"suggestion"}) : skip \in BOOLEAN }
  \cup { Opt(TRUE, "error", "off", "off", skip, FALSE, {"suggestion"}) : skip \in BOOLEAN }
  \cup { Opt(TRUE, "message", Unset, "suggestion", FALSE, FALSE, {"suggestion"}),
         Opt(TRUE, "warning", "skip-file", "error", FALSE, TRUE, {"error", "warning"}),
         Opt(FALSE, "error", "error", Unset, FALSE, TRUE, {}) }

MCInit ==
  /\ session \in {"tsc", "lsp"} /\ options \in MCOptions /\ file \in MCFile
  /\ Idle

MCSpec == MCInit /\ [][Next]_vars
=============================================================================
