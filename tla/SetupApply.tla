----------------------------- MODULE SetupApply -----------------------------
(***************************************************************************)
(* A project through any number of runs of `effect-tsgo setup` and         *)
(* `config`: the files are read, the changes reviewed and then written one *)
(* file after the other (setup/index.ts, config.ts,                        *)
(* setup/changes.ts:reviewAndApplyChanges).  A write may fail, and the     *)
(* command may be stopped between two; what is written stays.              *)
(***************************************************************************)
EXTENDS SetupChanges

CONSTANTS
  Projects,           \* the files to start with
  Answers             \* what is answered to the prompts

VARIABLES files, pc, answers, changes,
          before      \* the files that the changes were computed from

vars == <<files, pc, answers, changes, before>>

\* The lists of a project.
Lists ==
  LET file(f) == { files[f][l] : l \in DOMAIN files[f] }
  IN  UNION { file(f) : f \in { g \in DOMAIN files : files[g] # Absent } } \ {Absent}

Parses == \A list \in Lists : list.parses

Init ==
  /\ files \in Projects /\ before = files
  /\ pc = "idle" /\ answers = None /\ changes = << >>

\* The files are assessed, the prompts answered and the changes shown.  If there
\* are none the command is done.  (What is read into a file that is not JSON is
\* left out.)
Review ==
  /\ Parses
  /\ pc \in {"idle", "done", "stopped"}
  /\ answers' \in Answers
  /\ changes' = Changes(files, Target(files, answers'))
  /\ pc' = IF changes' = << >> THEN "done" ELSE "review"
  /\ before' = files
  /\ UNCHANGED files

Cancel ==
  /\ pc = "review"
  /\ pc' = "stopped" /\ changes' = << >>
  /\ UNCHANGED <<files, answers, before>>

Confirm ==
  /\ pc = "review"
  /\ pc' = "applying"
  /\ UNCHANGED <<files, answers, changes, before>>

WriteFile ==
  /\ pc = "applying"
  /\ files' = Applied(files, Head(changes))
  /\ changes' = Tail(changes)
  /\ pc' = IF changes' = << >> THEN "done" ELSE "applying"
  /\ UNCHANGED <<answers, before>>

\* A write fails, or the command ends before it.
Stop ==
  /\ pc = "applying"
  /\ pc' = "stopped" /\ changes' = << >>
  /\ UNCHANGED <<files, answers, before>>

Next == Review \/ Cancel \/ Confirm \/ WriteFile \/ Stop

Spec == Init /\ [][Next]_vars

-----------------------------------------------------------------------------
TypeOK ==
  /\ pc \in {"idle", "review", "applying", "done", "stopped"}
  /\ answers \in Answers \cup {None}
  /\ changes # << >> <=> pc \in {"review", "applying"}
  /\ \A list \in Lists : Cardinality(Keys(list)) = Len(list.entries)

\* Wherever a command was stopped, the same answers again lead to the files that
\* it would have ended with; at its end nothing is left to change.
SameEnd ==
  Parses /\ answers # None => Result(files, answers) = Result(before, answers)

\* What setup leaves: the package in one section, a native TypeScript in some, the
\* patch in the prepare script, and one plugin with the severities chosen; or none
\* of that.  ($schema stays where there are no compilerOptions, changes.ts:527.)
SetupReached ==
  LET p == files.package
      c == files.tsconfig
      in(name) == { t \in DependencyTypes : name \in Keys(p[t]) }
  IN
  IF answers.install = "no" THEN
    /\ in(LSP_PACKAGE_NAME) = {}
    /\ ~ HasPatch(PrepareScript(p))
    /\ LSP_PLUGIN_NAME \notin Keys(c.plugins)
    /\ c.compilerOptions # Absent => SchemaPath(c) = None
  ELSE
    /\ in(LSP_PACKAGE_NAME) = {answers.install} /\ LspVersion(p).version = "new"
    /\ \E name \in ToSet(defaultTypescriptPackageNames) : \E t \in in(name) : Of(p[t], name) \in NativeVersion
    /\ HasPatch(PrepareScript(p))
    /\ SchemaPath(c) = "ours"
    /\ LSP_PLUGIN_NAME \in Keys(c.plugins) /\ Of(c.plugins, LSP_PLUGIN_NAME) = answers.severities
    /\ answers.vscode => files.settings # Absent /\ SettingKeys \subseteq Keys(files.settings.root)

\* "only targets diagnostic severities" (test/config-cli.test.ts:32): where the
\* package is listed, config changes no file but the tsconfig, and there only the
\* plugin.  Where it is not, as in a member of a workspace, config takes the
\* plugin and the patch away like an uninstallation (changes.ts:624).
ConfigReached ==
  LspVersion(before.package) # None =>
    /\ files.package = before.package /\ files.settings = before.settings
    /\ files.tsconfig.root.entries = before.tsconfig.root.entries
    /\ Keys(before.tsconfig.plugins) \cup {LSP_PLUGIN_NAME} = Keys(files.tsconfig.plugins)
    /\ Of(files.tsconfig.plugins, LSP_PLUGIN_NAME) = answers.severities

\* Where a command is done the project is as it was asked for, from whatever an
\* earlier one that was stopped has left ("Changes applied successfully!",
\* changes.ts:968).
ReachesTarget ==
  Parses /\ pc = "done" =>
    IF answers.command = "setup" THEN SetupReached ELSE ConfigReached

\* What is not the command's own: every entry of another key, the rest of the
\* prepare script, the settings that are there and a TypeScript that will do.
Others(f) ==
  LET entries(list, own) ==
        IF list = Absent THEN {} ELSE { e \in ToSet(list.entries) : e.key \notin own }
  IN  [dependencies |-> [t \in DependencyTypes |-> entries(f.package[t], {LSP_PACKAGE_NAME, "typescript"})],
       scripts |-> entries(f.package.scripts, {"prepare"}),
       builds  |-> PrepareScript(f.package) \in {"build", "build && patch", "patch && build"},
       root    |-> entries(f.tsconfig.root, {"$schema"}),
       options |-> entries(f.tsconfig.compilerOptions, {"plugins"}),
       plugins |-> entries(f.tsconfig.plugins, {LSP_PLUGIN_NAME})]

OthersKept ==
  [][/\ Others(files') = Others(files)
     /\ files.settings # Absent =>
          ToSet(files.settings.root.entries) \subseteq ToSet(files'.settings.root.entries)
     /\ TypescriptVersion(files.package) # None =>
          TypescriptVersion(files'.package) = TypescriptVersion(files.package)]_files

\* "expect(() => JSON.parse(finalPackageJson)).not.toThrow()"
\* (test/setup/setup-cli.test.ts:110): what is written is JSON.
WrittenFilesParse == Parses
=============================================================================
