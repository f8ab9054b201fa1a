---------------------------- MODULE SetupChanges ----------------------------
(***************************************************************************)
(* What `effect-tsgo setup` and `config` make of a project: what is there  *)
(* (setup/assessment.ts), what is wanted (setup/target-prompt.ts,          *)
(* setup/target.ts) and the edits in between (setup/changes.ts).           *)
(*                                                                         *)
(* A file is a function from the names of its lists, the objects and       *)
(* arrays that are edited, to what they hold: entries with a key and a     *)
(* value, in the order of the text.  A list may be Absent.                 *)
(***************************************************************************)
EXTENDS Naturals, SequencesExt

CONSTANTS
  Absent,             \* no such list, no such file
  None                \* Option.none()

LSP_PACKAGE_NAME == "effect-tsgo"
LSP_PLUGIN_NAME  == "effect plugin"
defaultTypescriptPackageNames == << "typescript", "@typescript/native" >>

\* Of the versions of TypeScript these are native, the last the one that is offered.
NativeVersion   == {"7", "offered"}
SettingKeys     == {"useTsgo", "tsdk"}
DependencyTypes == {"dependencies", "devDependencies"}

Entry(key, value) == [key |-> key, value |-> value]
\* gap: there is white space behind the opening brace.
List(entries)     == [entries |-> entries, gap |-> TRUE, parses |-> TRUE]

Keys(list)   == IF list = Absent THEN {} ELSE { list.entries[i].key : i \in DOMAIN list.entries }
Of(list, key) == LET own(e) == e.key = key IN Head(SelectSeq(list.entries, own)).value

-----------------------------------------------------------------------------
(***************************************************************************)
(* Edits of the text.                                                      *)
(***************************************************************************)
Insert(list, key, value)  == [op |-> "insert", list |-> list, entries |-> << Entry(key, value) >>]
Replace(list, key, value) == [op |-> "replace", list |-> list, entries |-> << Entry(key, value) >>]
Delete(list, key)         == [op |-> "delete", list |-> list, entries |-> << Entry(key, "") >>]
Create(list, entries)     == [op |-> "create", list |-> list, entries |-> entries]
When(condition, edits)    == IF condition THEN edits ELSE {}

\* An entry is put behind the last one, with a comma.  Into an empty list it goes
\* one character behind the opening brace and without one: out of the list if the
\* closing brace is there, next to another one with nothing in between.
WellPlaced(list, added) ==
  list.entries # << >> \/ added = << >> \/ (list.gap /\ Len(added) = 1)

EditedList(list, edits) ==
  LET named(op, key) == { e \in edits : e.op = op /\ e.entries[1].key = key }
      stays(e) == named("delete", e.key) = {}
      kept     == SelectSeq(list.entries, stays)
      added    == SetToSeq({ e.entries[1] : e \in { d \in edits : d.op = "insert" } })
  IN  [entries |-> [i \in DOMAIN kept |->
                      IF named("replace", kept[i].key) = {} THEN kept[i]
                      ELSE (CHOOSE e \in named("replace", kept[i].key) : TRUE).entries[1]] \o added,
       gap     |-> list.gap,
       parses  |-> list.parses /\ WellPlaced(list, added)]

Edited(file, edits) ==
  [name \in DOMAIN file |->
     LET own     == { e \in edits : e.list = name }
         created == { e \in own : e.op = "create" }
     IN  IF created # {} THEN List((CHOOSE e \in created : TRUE).entries)
         ELSE IF file[name] = Absent THEN Absent
         ELSE EditedList(file[name], own)]

-----------------------------------------------------------------------------
(***************************************************************************)
(* What is there.                                                          *)
(***************************************************************************)
Dependency(package, name) ==
  IF name \in Keys(package.devDependencies)
    THEN [type |-> "devDependencies", name |-> name, version |-> Of(package.devDependencies, name)]
  ELSE IF name \in Keys(package.dependencies)
    THEN [type |-> "dependencies", name |-> name, version |-> Of(package.dependencies, name)]
  ELSE None

LspVersion(package) == Dependency(package, LSP_PACKAGE_NAME)

TypescriptVersion(package) ==
  LET native(name) == Dependency(package, name) # None /\ Dependency(package, name).version \in NativeVersion
      found == SelectSeq(defaultTypescriptPackageNames, native)
  IN  IF found = << >> THEN None ELSE Dependency(package, Head(found))

PrepareScript(package) ==
  IF "prepare" \in Keys(package.scripts) THEN Of(package.scripts, "prepare") ELSE None

HasPatch(script)  == script \in {"patch", "build && patch", "patch && build"}
HasMultiple(script) == script \in {"build && patch", "patch && build"}
WithPatch(script) == IF script = "build" THEN "build && patch" ELSE script
Stripped(script)  == IF HasMultiple(script) THEN "build" ELSE script

SchemaPath(tsconfig) == IF "$schema" \in Keys(tsconfig.root) THEN Of(tsconfig.root, "$schema") ELSE None

-----------------------------------------------------------------------------
(***************************************************************************)
(* What is wanted.                                                         *)
(***************************************************************************)
Target(files, answers) ==
  LET package == files.package IN
  IF answers.command = "config" THEN
    [lsp |-> LspVersion(package), typescript |-> TypescriptVersion(package),
     prepareScript |-> HasPatch(PrepareScript(package)), schemaPath |-> SchemaPath(files.tsconfig),
     severities |-> answers.severities, vscode |-> FALSE]
  ELSE IF answers.install = "no" THEN
    [lsp |-> None, typescript |-> TypescriptVersion(package), prepareScript |-> FALSE,
     schemaPath |-> None, severities |-> None, vscode |-> FALSE]
  ELSE
    [lsp |-> [type |-> answers.install, name |-> LSP_PACKAGE_NAME, version |-> "new"],
     typescript |-> IF TypescriptVersion(package) # None THEN TypescriptVersion(package)
                    ELSE [type |-> answers.install, name |-> "typescript", version |-> "offered"],
     prepareScript |-> TRUE, schemaPath |-> "ours",
     severities |-> answers.severities, vscode |-> answers.vscode]

-----------------------------------------------------------------------------
(***************************************************************************)
(* package.json.                                                           *)
(***************************************************************************)
AddsTypescript(package, target) == target.typescript # None /\ TypescriptVersion(package) = None

\* Mutation of UpsertDependency: what is there is not looked for.
UpsertDependency_Again(package, dependency) ==
  IF package[dependency.type] = Absent
    THEN { Create(dependency.type, << Entry(dependency.name, dependency.version) >>) }
  ELSE { Insert(dependency.type, dependency.name, dependency.version) }

UpsertDependency(package, dependency) ==
  IF package[dependency.type] = Absent
    THEN { Create(dependency.type, << Entry(dependency.name, dependency.version) >>) }
  ELSE IF dependency.name \notin Keys(package[dependency.type])
    THEN { Insert(dependency.type, dependency.name, dependency.version) }
  ELSE When(Of(package[dependency.type], dependency.name) # dependency.version,
            { Replace(dependency.type, dependency.name, dependency.version) })

\* A section that is missing is written with TypeScript in it, if that is wanted too.
AddLsp(package, target) ==
  LET lsp == Entry(LSP_PACKAGE_NAME, target.lsp.version)
      typescript == Entry(target.typescript.name, target.typescript.version)
  IN  IF package[target.lsp.type] # Absent
        THEN { Insert(target.lsp.type, lsp.key, lsp.value) }
      ELSE IF AddsTypescript(package, target) /\ target.typescript.type = target.lsp.type
        THEN { Create(target.lsp.type, << lsp, typescript >>) }
      ELSE { Create(target.lsp.type, << lsp >>) }

EnsureTypescriptDependency(package, target) ==
  IF \/ ~ AddsTypescript(package, target)
     \/ package[target.typescript.type] = Absent /\ target.lsp.type = target.typescript.type
  THEN {}
  ELSE UpsertDependency(package, target.typescript)

\* Mutation of LspEdits: the package is put where it is wanted, and left where it was.
LspEdits_Copies(package, target) ==
  LET current == LspVersion(package) IN
  IF target.lsp = None
    THEN When(current # None, { Delete(current.type, LSP_PACKAGE_NAME) })
  ELSE (IF current = None \/ current.type # target.lsp.type THEN AddLsp(package, target)
        ELSE When(current.version # target.lsp.version,
                  { Replace(current.type, LSP_PACKAGE_NAME, target.lsp.version) }))
       \cup EnsureTypescriptDependency(package, target)

LspEdits(package, target) ==
  LET current == LspVersion(package) IN
  IF target.lsp = None
    THEN When(current # None, { Delete(current.type, LSP_PACKAGE_NAME) })
  ELSE (IF current = None THEN AddLsp(package, target)
        ELSE IF current.type # target.lsp.type
          THEN { Delete(current.type, LSP_PACKAGE_NAME) } \cup AddLsp(package, target)
        ELSE When(current.version # target.lsp.version,
                  { Replace(current.type, LSP_PACKAGE_NAME, target.lsp.version) }))
       \cup EnsureTypescriptDependency(package, target)

\* Mutation of PrepareEdits: the script is removed with whatever else it runs.
PrepareEdits_WholeScript(package, target) ==
  LET script == PrepareScript(package) IN
  IF target.prepareScript /\ target.lsp # None THEN
    IF package.scripts = Absent THEN { Create("scripts", << Entry("prepare", "patch") >>) }
    ELSE IF script = None THEN { Insert("scripts", "prepare", "patch") }
    ELSE When(~ HasPatch(script), { Replace("scripts", "prepare", WithPatch(script)) })
  ELSE IF target.lsp = None /\ HasPatch(script) THEN { Delete("scripts", "prepare") }
  ELSE {}

PrepareEdits(package, target) ==
  LET script == PrepareScript(package) IN
  IF target.prepareScript /\ target.lsp # None THEN
    IF package.scripts = Absent THEN { Create("scripts", << Entry("prepare", "patch") >>) }
    ELSE IF script = None THEN { Insert("scripts", "prepare", "patch") }
    ELSE When(~ HasPatch(script), { Replace("scripts", "prepare", WithPatch(script)) })
  ELSE IF target.lsp = None /\ HasPatch(script) THEN
    IF HasMultiple(script) THEN { Replace("scripts", "prepare", Stripped(script)) }
    ELSE { Delete("scripts", "prepare") }
  ELSE {}

PackageEdits(package, target) == LspEdits(package, target) \cup PrepareEdits(package, target)

-----------------------------------------------------------------------------
(***************************************************************************)
(* tsconfig.json and .vscode/settings.json.                                *)
(***************************************************************************)
\* The root is written anew, with what it had.
AddCompilerOptions(tsconfig, target) ==
  LET schema == << Entry("$schema", target.schemaPath) >>
      set(e) == IF e.key = "$schema" /\ target.schemaPath # None THEN schema[1] ELSE e
      root   == [i \in DOMAIN tsconfig.root.entries |-> set(tsconfig.root.entries[i])]
  IN  { Create("root", IF target.schemaPath # None /\ "$schema" \notin Keys(tsconfig.root)
                         THEN root \o schema ELSE root),
        Create("compilerOptions", << Entry("plugins", "array") >>),
        Create("plugins", << Entry(LSP_PLUGIN_NAME, target.severities) >>) }

RemovePlugin(tsconfig) ==
  When("$schema" \in Keys(tsconfig.root), { Delete("root", "$schema") }) \cup
  When(LSP_PLUGIN_NAME \in Keys(tsconfig.plugins), { Delete("plugins", LSP_PLUGIN_NAME) })

SchemaEdits(tsconfig, target) ==
  IF target.schemaPath \in {None, SchemaPath(tsconfig)} THEN {}
  ELSE IF SchemaPath(tsconfig) = None THEN { Insert("root", "$schema", target.schemaPath) }
  ELSE { Replace("root", "$schema", target.schemaPath) }

\* Mutation of PluginEdits: the plugin is added next to the one that is there.
PluginEdits_Again(tsconfig, target) ==
  LET severities == target.severities IN
  IF tsconfig.plugins = Absent THEN
    { Insert("compilerOptions", "plugins", "array"),
      Create("plugins", << Entry(LSP_PLUGIN_NAME, severities) >>) }
  ELSE { Insert("plugins", LSP_PLUGIN_NAME, severities) }

PluginEdits(tsconfig, target) ==
  LET severities == target.severities IN
  IF tsconfig.plugins = Absent THEN
    { Insert("compilerOptions", "plugins", "array"),
      Create("plugins", << Entry(LSP_PLUGIN_NAME, severities) >>) }
  ELSE IF LSP_PLUGIN_NAME \notin Keys(tsconfig.plugins) THEN
    { Insert("plugins", LSP_PLUGIN_NAME, severities) }
  ELSE When({severities, Of(tsconfig.plugins, LSP_PLUGIN_NAME)} # {None},
            { Replace("plugins", LSP_PLUGIN_NAME, severities) })

TsConfigEdits(tsconfig, target) ==
  IF tsconfig.compilerOptions = Absent
    THEN IF target.lsp = None THEN {} ELSE AddCompilerOptions(tsconfig, target)
  ELSE IF target.lsp = None THEN RemovePlugin(tsconfig)
  ELSE SchemaEdits(tsconfig, target) \cup PluginEdits(tsconfig, target)

AllSettings == LET entry(key) == Entry(key, "ours") IN SetToSeq({ entry(key) : key \in SettingKeys })

\* A file that is missing or holds nothing is written whole.
VSCodeSettingsEdits(settings, target) ==
  IF ~ target.vscode \/ target.lsp = None THEN {}
  ELSE IF settings = Absent THEN { Create("root", AllSettings) }
  ELSE IF settings.root.entries = << >> THEN { Create("root", AllSettings) }
  ELSE { Insert("root", key, "ours") : key \in SettingKeys \ Keys(settings.root) }

-----------------------------------------------------------------------------
Change(file, edits) == IF edits = {} THEN << >> ELSE << [file |-> file, edits |-> edits] >>

\* The edits of each file, in the order in which they are applied.
Changes(files, target) ==
  Change("package", PackageEdits(files.package, target)) \o
  Change("tsconfig", TsConfigEdits(files.tsconfig, target)) \o
  Change("settings", VSCodeSettingsEdits(files.settings, target))

Applied(files, change) ==
  LET old == IF files[change.file] = Absent THEN [root |-> Absent] ELSE files[change.file]
  IN  [files EXCEPT ![change.file] = Edited(old, change.edits)]

\* What the project is after all of the changes.
Result(files, answers) == FoldLeft(Applied, files, Changes(files, Target(files, answers)))
=============================================================================
