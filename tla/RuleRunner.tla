----------------------------- MODULE RuleRunner -----------------------------
(***************************************************************************)
(* Effect diagnostics for one source file: the checker calls the after-    *)
(* check hook, rulerunner.Run collects what the enabled rules find, moves  *)
(* each finding to its effective severity and reports the directives that  *)
(* did nothing (internal/rulerunner/diagnostics.go).  The session is the   *)
(* tsc command line, which sets the process-wide command-line flag for the *)
(* length of the command and turns the diagnostics into an exit status, or *)
(* the language server, which does neither.                                *)
(*                                                                         *)
(* A rule's analysis is a function of the file: finds[r] is the set of     *)
(* lines on which rule r reports.  Rules are taken in any order, and so    *)
(* are findings; the code takes both in a fixed one.                       *)
(***************************************************************************)
EXTENDS EffectDirectives

CONSTANTS
  DefaultSeverity,  \* the severity each rule declares
  Unset             \* no entry in the resolved severity map

ASSUME DefaultSeverityType == DefaultSeverity \in [Rule -> Severity]
ASSUME UnsetIsNoSeverity   == Unset \notin Severity

\* The key under which unused directives are configured; no rule has the name.
UnusedDirective == "unusedDirective"

ASSUME UnusedDirectiveIsNoRule == UnusedDirective \notin Rule

VARIABLES
  session,    \* "tsc" or "lsp"
  cli,        \* etscore.commandLineMode
  options,    \* the resolved Effect options of the file
  file,       \* the file: its directives, its findings, tsc's own errors
  pc,         \* where Run stands
  todo,       \* selected rules not yet visited
  pending,    \* collected findings not yet transformed
  emitted,    \* diagnostics handed to the checker
  used,       \* DirectiveSet.usedDirectives
  status      \* the exit status of the command

vars == <<session, cli, options, file, pc, todo, pending, emitted, used, status>>
inputs == <<session, options, file>>

Options ==
  [ enabled : BOOLEAN, severity : [Rule -> Severity \cup {Unset}],
    unusedDirective : Severity \cup {Unset},
    skipDisabledOptimization : BOOLEAN, includeSuggestionsInTsc : BOOLEAN,
    ignoreInExitCode : SUBSET {"suggestion", "warning", "error"} ]

File ==
  [ eligible : BOOLEAN,    \* neither a declaration file nor a library's
    directives : DirectiveLists, finds : [Rule -> SUBSET Nat],
    tscErrors : BOOLEAN ]

Finding    == [rule : Rule, line : Nat]
Diagnostic == [rule : Rule \cup {UnusedDirective}, line : Nat, category : Category]

directiveSet == BuildDirectiveSet(file.directives)

ConfigSeverity(r) ==
  IF options.severity[r] = Unset THEN DefaultSeverity[r] ELSE options.severity[r]

UnusedSeverity ==
  IF options.unusedDirective = Unset THEN "warning" ELSE options.unusedDirective

HiddenFromTsc(category) ==
  /\ cli /\ ~ options.includeSuggestionsInTsc
  /\ category \in {"suggestion", "message"}

-----------------------------------------------------------------------------
EnterCommandLineMode ==
  /\ pc = "idle" /\ session = "tsc" /\ ~ cli
  /\ cli' = TRUE
  /\ UNCHANGED <<inputs, pc, todo, pending, emitted, used, status>>

\* The early returns of Run leave the file without a diagnostic.
RunReturnsNothing ==
  /\ pc = "idle" /\ (session = "tsc" => cli)
  /\ \/ ~ file.eligible
     \/ ~ options.enabled
     \/ IsSkipFile(directiveSet, Any)
  /\ pc' = "checked"
  /\ UNCHANGED <<inputs, cli, todo, pending, emitted, used, status>>

RunStarts ==
  /\ pc = "idle" /\ (session = "tsc" => cli)
  /\ file.eligible /\ options.enabled /\ ~ IsSkipFile(directiveSet, Any)
  /\ todo' = Rule
  /\ pc' = "collect"
  /\ UNCHANGED <<inputs, cli, pending, emitted, used, status>>

\* Mutation of DisabledRule: the directives of the file are not looked at.
DisabledRule_IgnoresDirectives(r) ==
  ~ options.skipDisabledOptimization /\ IsOff(ConfigSeverity(r))

DisabledRule(r) ==
  /\ ~ options.skipDisabledOptimization
  /\ IsOff(ConfigSeverity(r))
  /\ ~ HasEnablingDirective(directiveSet, r)

SkipRule(r) ==
  /\ pc = "collect" /\ r \in todo
  /\ DisabledRule(r) \/ IsSkipFile(directiveSet, r)
  /\ todo' = todo \ {r}
  /\ UNCHANGED <<inputs, cli, pc, pending, emitted, used, status>>

RunRule(r) ==
  /\ pc = "collect" /\ r \in todo
  /\ ~ DisabledRule(r) /\ ~ IsSkipFile(directiveSet, r)
  /\ pending' = pending \cup { [rule |-> r, line |-> l] : l \in file.finds[r] }
  /\ todo' = todo \ {r}
  /\ UNCHANGED <<inputs, cli, pc, emitted, used, status>>

Collected ==
  /\ pc = "collect" /\ todo = {}
  /\ pc' = "transform"
  /\ UNCHANGED <<inputs, cli, todo, pending, emitted, used, status>>

EffectiveSeverity(f) ==
  GetEffectiveSeverity(directiveSet, f.rule, f.line, ConfigSeverity(f.rule))

\* Every lookup marks the directive that decided it, whatever the outcome.
Visit(f) ==
  /\ pc = "transform" /\ f \in pending
  /\ pending' = pending \ {f}
  /\ used' = used \cup MarkedUsed(directiveSet, f.rule, f.line)
  /\ UNCHANGED <<inputs, cli, pc, todo, status>>

DropFinding(f) ==
  /\ Visit(f)
  /\ \/ IsOff(EffectiveSeverity(f))
     \/ HiddenFromTsc(ToCategory(EffectiveSeverity(f)))
  /\ UNCHANGED emitted

EmitFinding(f) ==
  /\ Visit(f)
  /\ ~ IsOff(EffectiveSeverity(f))
  /\ ~ HiddenFromTsc(ToCategory(EffectiveSeverity(f)))
  /\ emitted' = emitted \cup
       { [rule |-> f.rule, line |-> f.line,
          category |-> ToCategory(EffectiveSeverity(f))] }

ReportUnusedDirectives ==
  /\ pc = "transform" /\ pending = {}
  /\ emitted' = emitted \cup
       ( IF IsOff(UnusedSeverity) THEN {}
         ELSE { [rule |-> UnusedDirective, line |-> d.line,
                 category |-> ToCategory(UnusedSeverity)] :
                d \in GetUnusedNextLineDirectives(file.directives, used) } )
  /\ pc' = "checked"
  /\ UNCHANGED <<inputs, cli, todo, pending, used, status>>

\* Mutation of ShouldIgnoreForExitCode: messages are not suggestions.
ShouldIgnoreForExitCode_Literal(category) == category \in options.ignoreInExitCode

ShouldIgnoreForExitCode(category) ==
  ( IF category = "message" THEN "suggestion" ELSE category )
    \in options.ignoreInExitCode

\* tsc reports every diagnostic, derives its exit status from those the
\* filter leaves, and returns: the deferred restore clears the flag.
ExitTsc ==
  /\ pc = "checked" /\ session = "tsc"
  /\ status' = IF \/ file.tscErrors
                  \/ \E d \in emitted : ~ ShouldIgnoreForExitCode(d.category)
               THEN "diagnosticsPresent" ELSE "success"
  /\ cli' = FALSE
  /\ pc' = "done"
  /\ UNCHANGED <<inputs, todo, pending, emitted, used>>

Publish ==
  /\ pc = "checked" /\ session = "lsp"
  /\ pc' = "done"
  /\ UNCHANGED <<inputs, cli, todo, pending, emitted, used, status>>

Idle ==
  /\ cli = FALSE /\ pc = "idle"
  /\ todo = {} /\ pending = {} /\ emitted = {} /\ used = {}
  /\ status = "running"

Init ==
  /\ session \in {"tsc", "lsp"} /\ options \in Options /\ file \in File
  /\ Idle

Next ==
  \/ EnterCommandLineMode \/ RunReturnsNothing \/ RunStarts \/ Collected
  \/ \E r \in Rule : SkipRule(r) \/ RunRule(r)
  \/ \E f \in pending : DropFinding(f) \/ EmitFinding(f)
  \/ ReportUnusedDirectives \/ ExitTsc \/ Publish

Spec == Init /\ [][Next]_vars

-----------------------------------------------------------------------------
TypeOK ==
  /\ session \in {"tsc", "lsp"} /\ cli \in BOOLEAN
  /\ options \in Options /\ file \in File
  /\ pc \in {"idle", "collect", "transform", "checked", "done"}
  /\ todo \subseteq Rule /\ pending \subseteq Finding
  /\ emitted \subseteq Diagnostic /\ used \subseteq Nat
  /\ status \in {"running", "success", "diagnosticsPresent"}

(***************************************************************************)
(* The abstract promise.  It mentions neither the optimisation that skips  *)
(* disabled rules nor the order of the stages.                             *)
(***************************************************************************)
Wanted(D, r, l) ==
  LET s == PolicySeverity(D, r, l, ConfigSeverity(r)) IN
    /\ file.eligible /\ options.enabled /\ ~ IsOff(s)
    /\ ~ ( session = "tsc" /\ ~ options.includeSuggestionsInTsc
           /\ s \in {"suggestion", "message"} )

Policy(D) ==
  { x \in [rule : Rule, line : UNION { file.finds[r] : r \in Rule },
           category : Category] :
      /\ x.line \in file.finds[x.rule]
      /\ Wanted(D, x.rule, x.line)
      /\ x.category = PolicySeverity(D, x.rule, x.line, ConfigSeverity(x.rule)) }

RuleDiagnostics == { x \in emitted : x.rule # UnusedDirective }
ReportedUnused  ==
  { d \in file.directives :
      \E x \in emitted : x.rule = UnusedDirective /\ x.line = d.line }

\* A diagnostic never appears against the directives and the configured
\* severities, in whatever order rules and findings were visited, and none is
\* lost: when the check of the file is over (diagnostics.go:29) exactly the
\* promised ones were emitted, with or without skipDisabledOptimization.
EmittedFollowsPolicy ==
  /\ RuleDiagnostics \subseteq Policy(file.directives)
  /\ pc \in {"checked", "done"} => RuleDiagnostics = Policy(file.directives)

\* A directive reported as having no effect can be deleted: without it, the
\* file has the same diagnostics.  Next-line directives that carry a skip-file
\* pair are left out: their pair decides for the whole file and they are reported
\* all the same (parser.go:252, :328).
UnusedDirectivesAreInert ==
  \A d \in ReportedUnused :
    ~ HasSkipFile(d) => Policy(file.directives \ {d}) = Policy(file.directives)

\* "message" is the category an option cannot name: it counts as suggestion.
Tolerated(category) ==
  category \in options.ignoreInExitCode \cup
    { c \in {"message"} : "suggestion" \in options.ignoreInExitCode }

\* tsc fails exactly when something the options do not ignore was promised:
\* neither the visiting order nor a hidden suggestion can turn the exit
\* status, and an ignored category never hides tsc's own errors.
ExitStatusFollowsPolicy ==
  status # "running" =>
    ( status = "success" <=>
        /\ ~ file.tscErrors
        /\ \A x \in Policy(file.directives) : Tolerated(x.category)
        /\ ReportedUnused # {} =>
             Tolerated(ToCategory(UnusedSeverity)) )
=============================================================================
