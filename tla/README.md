# A TLA+ development of effect-tsgo

effect-tsgo extends TypeScript-Go, the native TypeScript compiler, with the
diagnostics, quick fixes, refactors and editor features of Effect. The compiler
is a git submodule to which `_patches/` adds hooks; the Go packages at the
root and under `internal/` implement the hooks; the npm package
`_packages/tsgo` replaces the `tsc` binary of an installed TypeScript by the
extended one.

This directory models the parts of it that decide something over several steps,
and checks and proves that they decide as they should.

    tlc -config RuleRunner.cfg MCRuleRunner        (each run: PROJECT.json, "runs")
    tlapm RuleRunnerProofs.tla                     (each *Proofs module)

## 1. Inventory

| component | code | state it keeps | interacts with | what is hard | what makes it correct |
|---|---|---|---|---|---|
| Diagnostic directives | `internal/directives`, `etscore/severity.go` | the tables of one file, the directives marked used | rule runner | four kinds of directive over one another, wildcards | the lookup gives what the directives say; "unused" means deletable |
| Rule runner, exit status | `internal/rulerunner`, `etscheckerhooks`, `etsexecutehooks`, `etscore/climode.go` | findings in transit, the process-wide command-line flag | directives, options, the checker, tsc | an optimisation that skips rules, marking by lookup, categories that move | exactly the promised diagnostics; the exit status matches them |
| Plugin options | `internal/effectconfigraw`, `internal/pluginoptions`, `etscore/options*.go` | options of each config during the parse | TypeScript's config parser | order of merges, defaults against settings, globs relative to moving directories | the nearest config decides; a glob keeps its files |
| Patch CLI | `_packages/tsgo/src/cli.ts` | the binary, its backups and discarded copies on disk | package manager, other packages' `prepare` scripts | killed or failing between two calls, overlap, bounded backups | the official binary is never lost; unpatch brings it back |
| Graph library | `internal/graph` | nodes, edges, two adjacency maps | layer graph | removal and reversal must keep the maps in agreement | adjacency agrees with edges; topological order |
| Layer graph extraction | `internal/layergraph/extract.go`, `providers.go` | work stack, visited nodes, index from syntax to graph | type parser, graph, hover and refactors | one declaration on two paths, partial children | the index never names a node that is gone |
| Layer composition | `internal/layergraph/outline.go`, `magic.go`, `internal/refactors/layer_magic.go` | search stack, placed layers, missing targets, the pipe | extraction, graph, tracker | diamonds, cycles, services passed through | what is composed provides what was asked, and requires nothing a layer provides |
| Native diagnostics command | `etsdiagnostics` | diagnostics and counters of a run | rule runner, language server protocol configuration | filter against exit code, cancellation, missing targets | the exit code says what was found |
| Setup CLI, config CLI | `_packages/tsgo/src/setup`, `config.ts` | the planned edits of `package.json`, the tsconfig and the editor's settings | the files, other runs of the same commands | several writes, each of which can fail; edits computed from what a stopped run left | wherever it starts from, a finished command leaves what was asked for; nothing else changes |
| Edit tracker | `internal/rewriter` | insertions held back | quick fixes, refactors | held-back text at the same node | no edit is lost or doubled |
| Structural schemas | `internal/schemagen`, `etsapi` | names used, schemas hoisted, statements, recursion depth | refactors, API | naming collisions, recursion, reuse while the traversal is under way | references only lead back; what is asked for is declared |
| Effect links cache, the rest of the type parser | `internal/typeparser` | a cache per checker | rules, everything that asks for a type | recursion through the checker | a cached answer is the computed one |
| Piping flows | `internal/typeparser/piping_flow.go`, `reconstruct.go`; `missed_pipeable_opportunity.go` in `internal/rules` and `internal/fixables` | work queue with unfinished flows, flows found | fourteen rules, document symbols, tracker | flows collected from the outside in, flows within flows, source written again from pieces | a flow, and what a fix makes of it, computes what the source does |
| Rules, quick fixes, refactors, completions, LSP hooks, auto-import style, key builder | `internal/rules`, `internal/fixables`, `internal/refactors`, `internal/completions`, `etslshooks`, `internal/autoimportstyle`, `internal/keybuilder` | none between requests | type parser, checker | shape recognition | tested by example, one file per rule, in the repository |
| Shims, code generation, tests | `shim`, `_tools`, `internal/codegens`, `internal/effecttest` | none | build | generated | - |

How they meet: TypeScript parses `tsconfig.json` and calls the options hook for
every merge along `extends` (patches 013, 025); when it has checked a file it
calls `afterCheckSourceFile`, which runs the rules on it with those options and
adds what is left to the checker's diagnostics; the tsc command sets a
process-wide flag for its length (patch 009), prints the diagnostics and derives
its exit status from those the Effect filter leaves. The patch CLI only meets
the rest through the file it installs.

The hazards, each at its line and with the properties that watch it, are in
PROJECT.json.

## 2. Modules

| module | models | state | actions |
|---|---|---|---|
| `EffectDirectives` | directives and their lookups; the promise `PolicySeverity`, stated on the directives as written | none (operators) | - |
| `RuleRunner` | one file through `rulerunner.Run`, in a tsc command or the language server | session, flag, options, file, position, rules and findings left, emitted, used, exit status | `EnterCommandLineMode`, `RunReturnsNothing`, `RunStarts`, `SkipRule`, `RunRule`, `Collected`, `DropFinding`, `EmitFinding`, `ReportUnusedDirectives`, `ExitTsc`, `Publish` |
| `Installation` | abstract: the official binary runs or is set aside | what runs, what is set aside | `SetAside`, `Replace`, `Restore`, `Reinstall` |
| `PatchBinary` | `patch` and `unpatch`, one action per file-system call, any of which may fail, with `Crash` and `Reinstall` | files of each package; position and locals of each command | twelve `Step`s and the two starts |
| `ConfigExtends` | the depth-first parse of extended configs with the Effect merge hook; the per-file severities | the stack of parses, the result | `Begin`, `ParseExtended`, `MergeExtended`, `Finish` |
| `AbstractGraph` | abstract: a directed multigraph, a removal in one step | nodes, edges, every index given out | `AddNode`, `AddEdge`, `Remove`, `Turn` |
| `Graph` | `internal/graph`: the edge table, the adjacency lists, the loops of removals and filters over Go maps | those tables, the next indices, what each loop has left | `AddNode`, `AddEdge`, `RemoveEdge`, `RemoveNode`, `FilterNodes`, `FilterEdges` and their iterations `UnlinkEdge`, `DeleteNode`, `RemoveFiltered`, `DropFiltered`; `Turn` |
| `GraphTraversal` | DFS, post-order, BFS, topological order, cycle test, on the current graph | the local variables of each, in a record; a traversal is a step repeated until nothing is left to do | - |
| `LayerMagic` | the outline graph, the search for an order, the annotation and the pipe of combinators, for one list of layers | the layers, the targets; the stack, what is discovered and placed; the annotated layers, the missing targets; the layer composed so far | `Expand`, `Return`, `EndSearch`, `Annotate`, `StartPipe`, `Refuse`, `Pipe`, `EndPipe` |
| `LayerExtract` | how the layer graph is read off the source, and the walk to the providers of a service | the program and the options; the work stack, depths, visited nodes; the graph and the index from syntax to it; the walk's queue and results | `Enter`, `Link`, `SkipArray`, `RemovePartialChildren`, `FollowSymbol`, `LinkSymbol`, `Leaf`, `StartWalk`, `Walk`, `EndWalk` |
| `SetupChanges` | assessment, target and the edits that lead from one to the other, for each file | none (operators) | - |
| `SetupApply` | any number of runs of setup and config over one project, a write failing or the command stopping between any two | the files, the changes under review, the answers | `Review`, `Cancel`, `Confirm`, `WriteFile`, `Stop` |
| `PipingFlow` | the search for piping flows in one source, and what missedPipeableOpportunity and its fix make of one | the source and the caller's option; the work queue, the flows found | `VisitEffectFn`, `VisitPipe`, `VisitDataFirstOrLast`, `VisitSingleArgCall`, `VisitOther`, `Finish` |
| `StructuralSchema` | the generator of schemas from types: names, reuse, recursion, statements | the program; the calls under way, what the last returned; names used, schemas hoisted, statements and their index | `Request`, `TooDeep`, `Reuse`, `Leaf`, `Open`, `Descend`, `Receive`, `Abort`, `Hoist`, `Inline`, `Answer`, `Declare`, `Export` |
| `MC*` | the instances that TLC checks | | |
| `*Proofs` | the theorems | | |

### What is abstracted, and why it may be

* **Text of directives.** A directive is a record (line, form, pairs). At most one
  is taken from a line, so the code's list in line order is a set with distinct
  lines. Rule names are compared in lower case; a rule stands for all spellings.
* **Analysis by a rule.** A rule is a function from lines: `file.finds[r]`. What a
  rule finds does not depend on directives, options of severity, or other rules.
* **Order of rules and findings.** Fixed in the code, free in the model: the
  properties hold in every order.
* **Paths.** Directories and files are integers, a relative path is a difference.
  Globs are single places. This keeps the algebra that rewriting relies on
  (joining adds, going there and back cancels) and drops the syntax of globs.
* **Option values.** All keys but `diagnosticSeverity`, `overrides` and `debug`
  follow one pattern in `mergeEffectOptions`; `Key` stands for them. `debug` is
  missing from that function: it is never merged, and is left out of `Key`.
* **Data on nodes and edges** of a graph has no influence on its shape. The
  predicate of a filter is the set of elements it rejects.
* **Loops over Go maps** take the elements in any order, one per step; nothing
  else touches the graph meanwhile, as the graph is used by one goroutine.
* **A layer** is the services it provides and those it requires, assignability a
  relation between services. The list of layers is the one that is left when a
  declaration met twice has been dropped. In this refactor every leaf is an
  expression and `Provides` of an annotated layer is always true, so the filter
  at `magic.go:53` and the combinator `merge` are never taken. `Sorted` is defined
  by the number of nodes before each, not as a sort, which the provers know.
* **An expression** (`LayerExtract`) has a kind, its members, its declaration and
  whether its type is a layer, all given: parsing and typing are the checker's. Of
  the services one is looked for, the others are "other". Following one declaration
  stands for the alias chain. The edges carry no positions, as their order does.
  `RemovePartialChildren` removes a node and its edges in one step, which is what
  `Graph` shows of `RemoveNode`. Edges have the indices the library gives them,
  and an edge list is read in their order. A program is a tree whose declarations are
  read at initializers (`extract.go:314`), which are members of nothing. Two corners
  are left out by this: a declaration by an assignment of JavaScript which itself
  stands in a composition, and a requested expression inside a declaration that it
  refers back to.
* **A JSON file** (`SetupChanges`) is the lists that are edited, entries in order.
  An edit names the list and the entry instead of a span of the text. Two facts of
  the text are kept: whether an empty list has white space in it, and whether what
  is written is JSON. A prepare script is one of those the code tells apart; a
  version is native or not, and new or old. All severities are one value, all
  editors one. Files that change while the prompt is open are left out.
* **A schema expression** (`StructuralSchema`) is the names it refers to. A type has
  its parts in the order of the traversal; types that are assignable to one
  another have the same shape. The count that is put behind a name is a number in
  a sequence, so that a numbered name can be met again. The order in which Go
  ranges over the requested names and the hoisted schemas is free.
* **A source** (`PipingFlow`) is a tree of expressions, each with what the checker
  decides about it: whether it is a pipe, a data-first call, an Effect.fn or a plain
  call, and whether its type is pipeable. What an expression computes is a term, in
  which a pipe is the calls it stands for and a data-first call the curried one:
  `f(x, a)` is `f(a)(x)`. An argument of a pipe that is itself a pipe or a
  data-first call is written again as it is, and is kept whole, which for `y.pipe()` is
  not what the code keeps (`Bare`). Spread arguments and optional calls, `f?.(x)`,
  are left out; when `Effect.fn` is included nothing is rewritten, so the fix is
  only followed without it. The flows are sorted by where they start, with a sort
  that is not stable (`piping_flow.go:423`): those that start at the same place come
  in any order. What a parser promises of a source is an assumption: it is a tree,
  in which an expression is at one place of one other and is numbered after it
  (`Tree`), a call has a callee, an Effect.fn is given a function, and a data-first
  call has two arguments or more (`Parses`).
* **A binary** is its origin and whether it is completely written and
  executable. A failed copy leaves nothing or an incomplete file.
* **Verification** of a patched binary (`--version`) only warns and is not a step.

Parts that are TypeScript's, the file system's or the package manager's are marked
`external` in PROJECT.json: the traversal of `extends` (the patches show its two
calls of the hook), the death of a process, a reinstall.

## 3. Runs

| run | instance | distinct states | shows |
|---|---|---|---|
| `RuleRunner` | files of three lines; up to two directives out of nine lists of pairs, both forms; two rules, one off by default; seven settings of the options; both sessions | 95,616 | exactly the promised diagnostics (`EmittedFollowsPolicy`), unused directives can be deleted (`UnusedDirectivesAreInert`), the exit status (`ExitStatusFollowsPolicy`) |
| `PatchBinary` | two packages, two builds of TypeScript, `.original` and one numbered backup, one command at a time | 264,608 | `OriginalKept`, `UnpatchRestoresOriginal`, `PatchInstallsBinary`, `CommandsEnd`, refinement of `Installation` |
| `PatchBinary_concurrent` | two commands, of which unpatch runs alone | violation | finding 1 |
| `ConfigExtends` | four configs, every graph of `extends` among twenty, seven plugin entries each, in one directory and in several | 864,360 | `OverridesKeepPlace`, `NearestConfigDecides` |
| `Graph` | every sequence of operations on at most three nodes and four edges, ever; traversals from every sequence of one or two start nodes, in each direction | 702,076 | `AdjacencyAgrees`, refinement of `AbstractGraph`, the traversals (`SearchesInOrder`), the topological order and the cycle test (`TopologicalOrder`) |
| `LayerMagic` | lists of two to four layers out of ten (seven for four) over three services, one assignable to another; three sets of targets | 164,258 | `RequirersFirst`, `EveryLayerOnce`, `RequirementsMet`, `TargetsMet`, `Ends` |
| `LayerExtract` | all programs of up to three expressions under the five callers' options; larger ones, of five or six, with a declaration used twice, directly or through another, or a composition in a composition | 496,417 | `MappedNodesLive`, `ShownWhole`, `WithinDepth`, `AttributedToSource`, `Ends` |
| `SetupApply` | 34 `package.json`s with a plain tsconfig; eight tsconfigs and three settings with the package there or missing; every answer, any number of runs | 90,731 | `SameEnd`, `ReachesTarget`, `OthersKept` |
| `SetupApply_parse` | same | violation | finding 2 |
| `StructuralSchema` | every combination of forms for three types, recursive ones included, two of them equal or not, four scopes, one or two requested names; depth 5 | 631,214 | `DeclaredBeforeUse`, `RequestedAnswered` |
| `StructuralSchema_conflict` | same, one requested name, as in the refactor | violation | finding 3 |
| `PipingFlow` | every source of up to five expressions, and those of six to eight in six shapes; types that are pipeable or not, and functions in the smaller ones; at least one or two calls to rewrite; with and without `Effect.fn` | 2,336,788 | `MeaningKept`, `CallsInFlows` |

Bounds. Two directives are what it takes for one to overrule, shadow or mix with
another; each lookup ends at the first match, so a third repeats a case.
`MaxBackup` is 1 where the code has 100: the search is the same at every slot,
the first and the last are both there, and the theorems hold for every
`MaxBackup`. Four configs give chains of three merges, arrays of two entries with a common
base, in both orders, and an array of two of which the second inherits: an override
is rewritten at several hops, a config is met on two paths, and what an inherited
list has contributed is merged over and goes on. Three nodes and four edges give self-loops,
parallel edges, two paths to a node, cycles of each length, and a removal that
meets several of them at once; the theorems hold for every number. Four layers
give chains, diamonds and cycles of two and three with and without a root, and a
layer that comes up on the stack several times.

`LayerExtract`: with three expressions every mix of kinds, types and references is
tried; the larger shapes are those in which a declaration is read twice while a
composition that contains it is removed, and in which the depth of a declaration is
overwritten. `SetupApply` needs no bound on the runs, as the files it can reach are
few; each list is there, missing or empty, each entry right, wrong or missing, and
what is independent of `package.json` is tried with two of them only.
`PipingFlow`: five expressions are two calls or pipes in one another with their
callees; the larger shapes are three in one another, as subjects, in a callee, in
arguments and in functions, so that a segment to rewrite has steps before and after
it. `StructuralSchema`: a third type is what it takes for a name or a schema made along
one branch to be met along another; a depth of 5 lets every type come up in every
other and again before the limit, and the theorems hold for every depth.

Deadlock is checked for `PatchBinary`, where a command can always be started, for
`Graph`, which can always be reversed once its loops have ended, and for
`StructuralSchema`, which must not get stuck on any program. The other
systems stop: a checked file, a parsed config, a composed layer, an extracted
graph and the flows of a file stay so, and a project whose file is no JSON any more
is not assessed again (finding 2).

Fairness. `PatchBinary` assumes weak fairness of each command's next step: a
started command that is not killed makes its next call. Nothing is assumed of
users, of crashes or of other commands. `CommandsEnd` needs no more: the search
for a free name visits at most `MaxBackup + 1` names. `LayerMagic` assumes weak
fairness of its next step, as the computation is sequential and waits for
nothing; `Ends` then says that the search terminates. `LayerExtract` assumes the same
for the same reason, and its `Ends` says that extraction terminates, also where
declarations refer to one another in a circle. `SetupApply` assumes none: a
user may leave the prompt open.

### Findings

1. Overlapping `patch` commands overwrite the official binary's backup
   (`_packages/tsgo/src/cli.ts:455`, `:465`).
2. An entry added to a list that is written `{}` goes behind its closing brace, and
   two entries added to any empty list get no comma: what is written is no JSON
   (`_packages/tsgo/src/setup/changes.ts:101`; the tests expect JSON,
   `test/setup/setup-cli.test.ts:110`).
3. A nested type that has the requested name as its own is declared under it too
   (`internal/schemagen/structural.go:184`, `:185`).

The next three are stated as definitions of the modules which TLC refutes when they are
put in the place of an invariant. They have no run of their own; the properties of
the runs exempt them by name, so that a passing run does not speak for them.

4. `diagnosticSeverity: null` disables only where nothing is inherited: the entry is
   parsed to no options and the merge passes it over
   (`internal/effectconfigraw/hooks.go:25`), so that what was inherited stays in
   force. "diagnosticSeverity: null means explicitly disabled"
   (`etscore/options_parser.go:68`, and `:11`). `NullDisables` in `ConfigExtends`;
   `NearestConfigDecides` exempts a null over what others set (`NullSettled`).
5. A config without an entry of its own, second in an `extends` array, replaces what the
   entries before it set by what it inherits itself
   (`internal/effectconfigraw/hooks.go:34`), against the comment that it carries settings
   forward so as not to "drop inherited Effect settings" (`:32`); one with an entry passes on of
   its inherited settings only the keys it sets itself. `NothingDropped` in
   `ConfigExtends`; `NearestConfigDecides` exempts such lists (`PassesOwn`).
6. A requested type that contains itself is declared as
   `undefined /* maximum depth exceeded */`: a type is hoisted only when all that it
   contains is processed (`internal/schemagen/structural.go:97`), so that its
   traversal comes to the depth limit (`:123`). The package comment promises the
   "handling of recursive types and complex type hierarchies through a hoisting
   mechanism" (`:5`). `RecursiveHandled` in `StructuralSchema`; `RequestedAnswered`
   exempts recursive types (`Recursive`).

Met while modelling, and not the subject of a run:

* `-next-line` directives with a `skip-file` pair act on the whole file and are
  reported as having no effect (`internal/directives/parser.go:252`, `:328`).
* An `unusedDirective` severity of "suggestion" ignores `includeSuggestionsInTsc`
  (`etscore/options.go:29`, `internal/rulerunner/diagnostics.go:224`).
* Of a call without arguments in a pipe, `f()` or `y.pipe()`, only the callee is kept
  (`internal/typeparser/piping_flow.go:452`): `pipe(x, f())` within nested calls is
  rewritten to `x.pipe(f)`, which the message of missedPipeableOpportunity calls
  "the same call sequence". `MeaningKept` leaves such flows out (`Bare`).
* A `pipe(x)` that applies nothing is part of a flow without a transformation of its
  own, but the way in to where the fix starts takes one step per transformation
  (`internal/fixables/missed_pipeable_opportunity.go:112`): with one around the part
  to rewrite the fix starts a step too far out, and writes a call twice. The rule's
  message promises "the same call sequence"
  (`internal/rules/missed_pipeable_opportunity.go:27`). `MeaningKept` leaves such
  fixes out (`Short`), and only them.
* Arguments of a data-first call are passed over, only what is in them is searched
  (`internal/typeparser/piping_flow.go:367`): `Effect.zip(a, b.pipe(f))` does not
  yield the flow `b.pipe(f)`, although "PipingFlows returns all piping flows"
  (`:235`).
* `.specs/missed-pipeable-opportunity.md` asks that every intermediate type be
  pipeable; the code looks at the first only (`:87`).
* Layers that need one another in a cycle which no layer without a need leads to are
  dropped from the composed layer, and their services reported as not found
  (`internal/layergraph/magic.go:38`, `internal/refactors/layer_magic.go:214`).
* Extraction: nodes left over from a composition inside a removed one become roots,
  against `providers.go:62`; a call without arguments becomes a node whether or not
  it is a layer; where one declaration is reached at two depths, what is shown of it
  depends on the order, which is why `WithinDepth` is an upper bound only.
* Setup: `config`, in a `package.json` that does not list the package, takes the
  plugin and the patch away (`changes.ts:624`); a package listed in both sections
  survives in one; a TypeScript 5 in devDependencies hides a native one in
  dependencies; `$schema` stays where there are no compilerOptions.
* Structural schemas: the refactor inserts the statements in reverse
  (`internal/refactors/structural_type_to_schema.go:55`), so that in its output a
  class refers to classes below it, as the recorded baselines show, although the
  generator's order is the right one (`DeclaredBeforeUse`); what was not hoisted is
  exported whether or not that was asked for.

## 4. Proofs

Every theorem is about every value of the constants that satisfies the ASSUMEs of
its module. The only form of induction is that a nonempty set of naturals has a least
element, which follows from the library's theorem that `<` is well-founded;
each module that needs it proves it first (`LeastNatural`). Where a definition is a
recursive function, a lemma shows with it that the function exists (`InFlowIs`,
`SpineIs`, `MeaningIs`, `FlattenIs`, `RepeatUnfolds`).

* `RuleRunnerProofs`: `LookupFollowsPolicy` (the tables give what the directives
  promise) and `NothingEnablesMeansOff` (skipping a disabled rule loses nothing);
  `TypeCorrect`, `EmittedFollowsPolicyAlways`, `UnusedDirectivesAreInertAlways` and
  `ExitStatusFollowsPolicyAlways`. That the promise is kept is not inductive: that nothing promised is missing at the end needs,
  for every rule and line, where the finding is now. The invariant says, while
  rules run, that exactly the findings of the visited rules which are not skipped
  are pending, and, while findings are transformed, that exactly the shown ones
  among those no longer pending are emitted; once nothing is pending the
  diagnostics are what the policy promises. The other two follow from it and from
  what the lookup marks: a directive that is not marked as used was the answer
  to no lookup that changed a severity, so that deleting it changes no answer.
* `PatchBinaryProofs`: `TypeCorrect` for any number of commands;
  `OriginalIsKept`, `UnpatchRestores`, `PatchInstalls` and
  `PatchRefinesInstallation` for any number of packages and backups when
  commands do not overlap (`OneCommandAtATime`, which finding 1 shows is
  necessary). The inductive invariant adds to each position of a command what
  its earlier steps established: a backup name probed free is still free, the
  first slot is taken once the search has passed it and holds the official binary
  once a command has renamed it there or found it there.
* `ConfigExtendsProofs`: `TypeCorrect`, and `OverridesStayInPlace` for every
  graph of `extends`, any directories and any entries. The invariant states the
  same of the options in every frame of the stack, relative to that frame's
  directory, so that a merge only moves overrides by the difference.
  `NearestConfigDecidesAlways`: that configs are extended without a circle numbers
  them so that each extends lower ones (`Descending`), and the order of the merges
  is a recursive function over them (`OrderExists`). A parse in progress is of the
  config that the one below it is about to take, and what a frame has taken is what
  the configs merged before its next one decide (`StackDecided`); so is the result
  (`DoneDecided`). What a
  list of configs decides is what its last part does, and where that says nothing what its
  first does (`DecidedConcat`). What a config came to, merged into what those before
  it did, is what all of them decide in that order (`InheritedDecided`); the merge goes
  by the raw entry of that config only, which is why the exemptions are needed: it
  must replace nothing, or have nothing to pass on but its own entry.
* `GraphProofs`: `TypeCorrect`, `TablesAgree` and `Implementation`, the
  refinement of `AbstractGraph`, for any bounds. The first lemmas are about the
  lists: appending a larger index, or removing one, keeps a list ascending and
  changes its elements by that index. Agreement is not inductive: while
  `RemoveNode` runs, its node's own lists still name edges that are gone. The
  invariant adds that what the loop has left is exactly the edges the table
  still has at that node, so that the node's lists can be deleted when it ends,
  and that the loops of the two filters exclude one another. The refinement maps
  a removal to the step in which its loop starts: the abstract graph has the
  nodes and edges that no loop has still to remove.
  `SearchesFromAnyNodes`, `SearchesKeepTheirOrder` and `TopoKeepsItsOrder`: the traversals
  end and do what they promise on every graph that the operations build, of any
  size, from any start nodes. A traversal is the repetition of a step, and one
  lemma (`RepeatFinishes`) carries the induction for all five: if the steps keep an
  invariant and decrease a pair of naturals until nothing is left to do, the
  repetition ends in the invariant with nothing left to do. The pair is the number of nodes not yet
  through, and what the inner loop has left. The invariants: `DFSInv`, that a fresh
  neighbor is on the stack with nothing above it but what the search will pass over
  or what a later node leads to; `BFSInv`, that yielded and queued nodes
  together are the discovered ones in the order of the search; `PostOrderInv`, that
  a node waiting for its children leads to everything above it on the stack, so that
  a child that is yielded later leads back; `TopoInv`, that a
  degree counts the edges from nodes that are not yielded and those still to be
  released, and that the queue is what has none, ascending; `AcyclicInv`, that the
  stack is a path, on which each node's passed neighbors have been left or are the
  node above, and that what has been left is closed and off every cycle.
  The lemmas before them say that the neighbors, in the order of their edges, are
  the successors (`NeighborsOfEdges`, which needs `TypeOK` and `AdjacencyAgrees`), that
  sorting neither loses nor repeats (`SortedInKeeps`), and that what is
  reached is the least closed set.

* `LayerMagicProofs`: `TypeCorrect`, `RequirersComeFirst`, `EachLayerOnce`,
  `RequirementsAreMet` and `TargetsAreMet`, for any services, assignability and
  lists. A node is open from its expansion until it is placed. The invariant of
  the search says that a discovered node is either open once or placed once, that
  the open nodes on the stack form a chain, each needing the next below it, and
  that no node is forgotten: one that needs an open node is discovered, or waits
  above it. When a node is placed, one that needs it and
  is not placed must therefore be open below it, and the open nodes from the one
  to the other form a cycle: this is why `RequirersFirst` makes an exception of
  layers that need themselves (`Entangled`). When the stack is empty, a node that
  was not placed needs another one that was not, so all of them are entangled.
  The rest follows the pipe: what is still required of a layer already in the
  pipe is required by one that is not before it, against the order. A lemma shows
  that sorting by `compareNodesByOrder` keeps every neighbor, from the order
  being total.

* `StructuralSchemaProofs`: `TypeCorrect`, `StatementsInOrder` and
  `RequestsDeclared`, for any types, any program and any depth. That statements
  refer only to earlier ones is not inductive: it needs that whatever a call under
  way has collected, whatever the last call returned and whatever a hoisted schema
  is called is already declared or in scope (`RefsAvailable`), which stays true as
  statements are only ever added. That every request is declared needs that what
  has been answered and what is still to come make up the requests
  (`RequestsFollowed`), and that the index leads from a type to its statement.
  `RequestsAnswered` adds the reason of every failure, where there are no more types
  than the depth limit. The hypothesis is necessary: a chain of more types
  than that is cut off by the code although nothing in it is unsupported. The calls
  under way are nested types (`Nested`), so that more of them than there are types
  means that one contains itself, and whatever failed is within a type that is
  unsupported or contains itself (`FailuresExplained`): a request that is neither
  recursive nor unsupported does not fail. Of recursive ones nothing is proved but
  that they are declared (finding 6).

* `LayerExtractProofs`: `TypeCorrect`, `MappedNodesLiveAlways`, `ShownWholeAlways`,
  `WithinDepthAlways` and `AttributedToSourceAlways`, for any programs and options.
  The first two need that edges join nodes of the graph and indices given out are
  below the counters (`GraphInv`), that what is on the stack or in the graph has
  been given a depth (`ReadInv`), and that the walk only holds nodes (`WalkInv`).
  Depth: what has a budget lies as many references away as were spent (`DepthInv`).
  Wholeness: a node that is joined to some of its members is joined to all of
  them, in order, as long as it is there (`WholeInv`), and nothing is in the graph
  twice while no symbol is followed (`UniqueInv`), for which the source must be a tree.
  Attribution: no circle of edges can arise. An edge leads to an older node, or from a
  member of a pipe to the one before it, and such a member is otherwise only led to by
  nodes that are younger than all the members (`OrderInv`), as each member is read
  once (`MemberInv`). From a root that provides the service the walk, which stops at
  nothing else (`FoundInv`), therefore comes to an end. `IterationExists`, that a function can be iterated
  from any point, gives the path whose end is the provider.

* `PipingFlowProofs`: `TypeCorrect`, `MeaningKeptAlways` and `CallsInFlowsAlways`, for
  any source. What a
  flow has collected so far, applied to the expression that waits in the queue with
  it, computes what the node of the flow does; that is not inductive for the fix, which
  starts from an expression in the middle. The invariant (`Kept`) says it of every
  point of the way in: what is found there computes what comes of the innermost
  expression after the transformations up to it (`PartsKept`), unless a `pipe(x)` was
  met (`Short`), and the way leads to the expression that waits (`WayLeads`). One
  lemma per kind of call shows that it is the application of what it collects to its
  subject (`StepsOf`), one that collecting it in front keeps the invariant. The search
  for a segment is shown to return one that lies in the flow; that the three parts of
  what the fix writes are the whole follows by cutting the transformations there
  (`SegmentRebuilt`).
  That every call is in one flow is a matter of accounts (`Accounted`), which are kept
  over the expressions that the search has been to: each expression that these lead to
  was either visited or waits in the queue once, and each flow that starts at a visited
  one is either found once or with one item of the queue, which is there exactly if
  a flow goes on with it. The lemmas before it say, of the tree, which expressions
  the search comes to (`Reached`), that it comes to each from one place only
  (`OpenedOnce`, where it is needed that a source is a tree), and that the calls of
  the flows do not overlap (`OnOneSpine`) and leave none out (`OnSomeSpine`).

Only model-checked:

* `SetupApply` (`TypeOK`, `SameEnd`, `ReachesTarget`, `OthersKept`): assessment, target
  and edits are folds over the lists of a file, each of which needs an induction of its
  own that is not written yet.
* The liveness properties `CommandsEnd` and `Ends`, which are out of the prover's
  reach, as is anything about ENABLED.

## 5. Plan

The components with state of their own are modelled. What is left to do:

1. Proofs: the type invariant of `SetupApply`, and that a stopped setup can be taken
   up again (`SameEnd`).
2. Options whose values have the wrong type, and the per-file options besides
   severity, in `ConfigExtends`.
3. `DiagnosticsCli` (targets, filter and exit code of the native command) and
   `Tracker` (held-back insertions against the abstract list of edits).
4. Execution flows of the type parser, auto-import style, presets.

## 6. Not modelled

The native diagnostics command (`etsdiagnostics`) is a loop over files whose exit
code the repository says nothing about where a filter or a missing target is
involved. The edit tracker hands its edits to TypeScript-Go's change tracker, whose
treatment of edits at one place is what a property would be about and whose source
is not here. The cache of Effect links is keyed by the checker's objects. The
generator of schemas from syntax (`schemagen.go`) recurses over the syntax and keeps
nothing. Presets fill in severities, which are one value in `SetupChanges`.

The other rules and quick fixes, refactors, completions, hover and document symbols compute a
result from a program in one call and keep nothing; their difficulty is in
recognising syntax and types of TypeScript, whose checker is not part of this
repository. Rendering (Mermaid, URLs, key strings), interactive prompts,
generated shims and test infrastructure have no behaviour over time.
