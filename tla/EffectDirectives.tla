-------------------------- MODULE EffectDirectives --------------------------
(***************************************************************************)
(* The @effect-diagnostics comment directives of one source file and the   *)
(* lookups the rule runner makes in them (internal/directives/parser.go,   *)
(* etscore/severity.go).                                                   *)
(*                                                                         *)
(* A file's directives are a set of records with distinct lines: at most   *)
(* one directive is taken from a line, so the order in which the code      *)
(* keeps them is the order of their lines.  Rule names are compared in     *)
(* lower case by the code; a member of Rule stands for all the spellings   *)
(* of one rule's name.  Any is the wildcard "*".                           *)
(***************************************************************************)
EXTENDS Integers, Sequences

CONSTANTS Rule, Any

ASSUME WildcardIsNoRule == Any \notin Rule

Category == {"error", "warning", "suggestion", "message"}
Severity == Category \cup {"off", "skip-file"}

IsOff(severity) == severity \in {"off", "skip-file"}

\* Only severities that are not off are turned into a category; for the
\* others the code answers "warning", and nobody asks.
ToCategory(severity) == IF severity \in Category THEN severity ELSE "warning"

RuleSeverity == [rule : Rule \cup {Any}, severity : Severity]
Directive    == [line : Nat, isNextLine : BOOLEAN, rules : Seq(RuleSeverity)]

\* What CollectEffectDirectives returns: a directive without a rule:severity
\* pair is dropped, and a line yields at most one directive.
DirectiveLists ==
  { D \in SUBSET Directive :
      /\ \A d \in D : d.rules # << >>
      /\ \A d, e \in D : d.line = e.line => d = e }

-----------------------------------------------------------------------------
Matches(rs, r)  == rs.rule \in {r, Any}
Names(d, r)     == \E i \in DOMAIN d.rules : Matches(d.rules[i], r)
HasSkipFile(d)  == \E i \in DOMAIN d.rules : d.rules[i].severity = "skip-file"
HasWildcard(d)  == \E i \in DOMAIN d.rules : d.rules[i].rule = Any
AffectedLine(d) == IF d.isNextLine THEN d.line + 1 ELSE d.line

\* Position of the first pair of d that matches r: the lookups return at the
\* first match.
FirstMatch(d, r) ==
  CHOOSE i \in DOMAIN d.rules :
    /\ Matches(d.rules[i], r)
    /\ \A j \in DOMAIN d.rules : j < i => ~ Matches(d.rules[j], r)

SeverityFor(d, r) == d.rules[FirstMatch(d, r)].severity

\* skip-file pairs go to fileLevel wherever they stand.  A regular directive
\* that holds one gives up its other pairs; a next-line directive keeps all.
BuildDirectiveSet(D) ==
  [ fileLevel |-> { r \in Rule \cup {Any} :
                      \E d \in D : \E i \in DOMAIN d.rules :
                        d.rules[i].severity = "skip-file" /\ d.rules[i].rule = r },
    byLine            |-> { d \in D : d.isNextLine },
    sectionDirectives |-> { d \in D : ~ d.isNextLine /\ ~ HasSkipFile(d) } ]

IsSkipFile(ds, r) == ds.fileLevel \cap {r, Any} # {}

NextLineFor(ds, r, line) ==
  { d \in ds.byLine : AffectedLine(d) = line /\ Names(d, r) }

SectionsFor(ds, r, line) ==
  { d \in ds.sectionDirectives : d.line <= line /\ Names(d, r) }

\* The section list is scanned from its end.
Closest(S) == CHOOSE d \in S : \A e \in S : e.line <= d.line

GetEffectiveSeverity(ds, r, line, default) ==
  IF IsSkipFile(ds, r) THEN "skip-file"
  ELSE IF NextLineFor(ds, r, line) # {}
       THEN SeverityFor(Closest(NextLineFor(ds, r, line)), r)
  ELSE IF SectionsFor(ds, r, line) # {}
       THEN SeverityFor(Closest(SectionsFor(ds, r, line)), r)
  ELSE default

\* Mutations of MarkedUsed: a line off by one; a directive that turns a rule
\* off is not counted as used.
MarkedUsed_LineAbove(ds, r, line) ==
  IF IsSkipFile(ds, r) THEN {} ELSE { d.line - 1 : d \in NextLineFor(ds, r, line) }

MarkedUsed_OnlyEnabling(ds, r, line) ==
  { d.line : d \in { e \in NextLineFor(ds, r, line) : ~ IsOff(SeverityFor(e, r)) } }

\* The directive lines that GetEffectiveSeverityAndMarkUsed marks.
MarkedUsed(ds, r, line) ==
  IF IsSkipFile(ds, r) THEN {}
  ELSE { d.line : d \in NextLineFor(ds, r, line) }

HasEnablingDirective(ds, r) ==
  \E d \in ds.sectionDirectives \cup ds.byLine : \E i \in DOMAIN d.rules :
    Matches(d.rules[i], r) /\ ~ IsOff(d.rules[i].severity)

GetUnusedNextLineDirectives(D, used) ==
  { d \in D : d.isNextLine /\ d.line \notin used /\ ~ HasWildcard(d) }

-----------------------------------------------------------------------------
(***************************************************************************)
(* The promise, stated on the directives as they are written and not on    *)
(* the tables built from them: a skip-file pair for the rule silences it   *)
(* everywhere; else a directive on the line just above the finding rules;  *)
(* else, of the directives above it that mention the rule, the one         *)
(* "closest above the diagnostic line" (.specs/wildcard-directives.md:28). *)
(***************************************************************************)
Silenced(D, r) ==
  \E d \in D : \E i \in DOMAIN d.rules :
    Matches(d.rules[i], r) /\ d.rules[i].severity = "skip-file"

Governing(D, r, line) ==
  LET above   == { d \in D : d.isNextLine /\ d.line = line - 1 /\ Names(d, r) }
      earlier == { d \in D : ~ d.isNextLine /\ ~ HasSkipFile(d)
                               /\ d.line <= line /\ Names(d, r) }
  IN  IF above # {} THEN above
      ELSE { d \in earlier : \A e \in earlier : e.line <= d.line }

PolicySeverity(D, r, line, default) ==
  IF Silenced(D, r) THEN "off"
  ELSE IF Governing(D, r, line) = {} THEN default
  ELSE CHOOSE s \in Severity :
         \E d \in Governing(D, r, line) : \E i \in DOMAIN d.rules :
           /\ Matches(d.rules[i], r) /\ d.rules[i].severity = s
           /\ \A j \in 1 .. (i - 1) : ~ Matches(d.rules[j], r)
=============================================================================
