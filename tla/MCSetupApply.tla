--------------------------- MODULE MCSetupApply ---------------------------
EXTENDS SetupApply, TLC

Tight == [entries |-> << >>, gap |-> FALSE, parses |-> TRUE]

effect        == Entry("effect", "3")
ours(version) == Entry(LSP_PACKAGE_NAME, version)
typescript(v) == Entry("typescript", v)
native        == Entry("@typescript/native", "7")

\* The sections of dependencies, with what the command looks for in one, the
\* other or neither.
Placed ==
  { [dependencies |-> a, devDependencies |-> b] :
      a \in {Absent, List(<< effect >>), List(<< effect, typescript("5") >>), List(<< typescript("7"), effect >>)},
      b \in {Absent, List(<< effect >>), List(<< effect, typescript("5") >>), List(<< native >>)} } \cup
  { [dependencies |-> a, devDependencies |-> b] :
      a \in {Absent, List(<< effect >>)},
      b \in {List(<< ours("old") >>), List(<< ours("new"), typescript("7") >>)} } \cup
  { [dependencies |-> List(<< effect, ours("old") >>), devDependencies |-> b] :
      b \in {Absent, List(<< typescript("5") >>), List(<< typescript("7") >>)} }

package(sections, scripts) ==
  [dependencies |-> sections.dependencies, devDependencies |-> sections.devDependencies,
   scripts |-> scripts]

Scripts == {Absent, List(<< Entry("test", "vitest") >>)} \cup
           { List(<< Entry("prepare", script) >>) : script \in {"build", "patch", "patch && build"} }

Installed(entries) == [dependencies |-> List(<< effect >>), devDependencies |-> List(entries)]

\* All of the sections, all of the scripts, and a section that is written {}.
Packages ==
  { package(sections, Absent) : sections \in Placed } \cup
  { package(Installed(entries), s) :
      entries \in {<< ours("old"), typescript("7") >>, << typescript("7") >>}, s \in Scripts } \cup
  { package([dependencies |-> List(<< effect >>), devDependencies |-> Tight], Absent) }

options == List(<< Entry("strict", "true") >>)
withPlugins == List(<< Entry("plugins", "array"), Entry("strict", "true") >>)
tsconfig(schema, opts, plugins) ==
  [root |-> List(IF schema = None THEN << Entry("include", "src") >>
                 ELSE << Entry("$schema", schema), Entry("include", "src") >>),
   compilerOptions |-> opts, plugins |-> plugins]

TsConfigs ==
  { tsconfig(schema, Absent, Absent) : schema \in {None, "other"} } \cup
  { tsconfig(None, opts, Absent) : opts \in {options, List(<< >>)} } \cup
  { tsconfig("other", withPlugins, List(plugins)) :
      plugins \in {<< >>, << Entry("next", None) >>,
                   << Entry(LSP_PLUGIN_NAME, "own"), Entry("next", None) >>} } \cup
  { tsconfig("ours", withPlugins, List(<< Entry(LSP_PLUGIN_NAME, None) >>)) }

Settings == {Absent, [root |-> List(<< >>)],
             [root |-> List(<< Entry("tsdk", "own"), Entry("format", "true") >>)]}

\* Every package.json with a plain tsconfig, and every tsconfig and settings with
\* the package there, or missing.
MCProjects ==
  [package : Packages, tsconfig : {tsconfig(None, options, Absent)}, settings : {Absent}] \cup
  [package : {package(Installed(entries), Absent) :
                entries \in {<< ours("old"), typescript("7") >>, << typescript("7") >>}},
   tsconfig : TsConfigs, settings : Settings]

MCAnswers ==
  [command : {"setup"}, install : DependencyTypes, severities : {None, "chosen"}, vscode : BOOLEAN] \cup
  [command : {"setup"}, install : {"no"}, severities : {None}, vscode : {FALSE}] \cup
  [command : {"config"}, install : {"no"}, severities : {"chosen"}, vscode : {FALSE}]
=============================================================================
