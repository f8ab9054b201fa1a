--------------------------- MODULE ConfigExtends ----------------------------
(***************************************************************************)
(* The Effect options of a tsconfig.json that extends others.  TypeScript  *)
(* parses the extended configs depth first and merges each into the one    *)
(* that extends it; the Effect hook (internal/effectconfigraw/hooks.go)    *)
(* decides what becomes of the plugin's options in each merge, and         *)
(* internal/pluginoptions/resolver.go reads the result for one file.       *)
(*                                                                         *)
(* Directories and files are integers: the path from directory d to        *)
(* directory e is e - d, and joining two relative paths adds them.         *)
(***************************************************************************)
EXTENDS Integers, Sequences

Seqs == INSTANCE SequencesExt

CONSTANTS
  Last,        \* configs are numbered, and extend lower numbers only
  Key, Value,  \* the plugin's scalar options but "debug", and their values
  Default,     \* what ParseFromPlugins gives an option that is not set
  Rule, Severity,
  Unset, Null, \* key that is missing, null
  NoStanza,    \* no plugin entry in the config
  Nil          \* the nil *EffectPluginOptions

ASSUME LastType      == Last \in Nat
ASSUME DefaultType   == Default \in [Key -> Value]
ASSUME UnsetIsNone   == Unset \notin Value /\ Unset \notin Severity

Config == 0 .. Last

\* fixed: rooted, or under ${configDir}; otherwise relative to a directory.
FileSpec   == [fixed : BOOLEAN, at : Int]
Severities == [Rule -> Severity \cup {Unset}]
Override   == [include : SUBSET FileSpec, exclude : SUBSET FileSpec, severity : Severities]

\* A plugin entry as it is written, and the options it is parsed to.
Stanza  == [option : [Key -> Value \cup {Unset}], severity : Severities \cup {Unset, Null},
            overrides : Seq(Override) \cup {Unset}]
Options == [option : [Key -> Value], severity : Severities, overrides : Seq(Override)]

ASSUME NilIsNone == /\ Nil \notin Options /\ NoStanza \notin Stanza
                    /\ {Unset, Null} \cap Severities = {} /\ Unset \notin Seq(Override)

VARIABLES
  extends, stanza, dir,   \* the configs
  stack,                  \* parses in progress, the root's first
  result,                 \* the Effect options of the root
  done                    \* the root is parsed

vars   == <<extends, stanza, dir, stack, result, done>>
inputs == <<extends, stanza, dir>>

Frame == [config : Config, next : Nat \ {0}, options : Options \cup {Nil}]

-----------------------------------------------------------------------------
\* Mutation of ParseFromPlugins: options that are not set get no default.
ParseFromPlugins_NoDefaults(st) ==
  IF st = NoStanza \/ st.severity = Null THEN Nil
  ELSE [ option    |-> st.option,
         severity  |-> IF st.severity = Unset THEN [r \in Rule |-> Unset] ELSE st.severity,
         overrides |-> IF st.overrides = Unset THEN << >> ELSE st.overrides ]

ParseFromPlugins(st) ==
  IF st = NoStanza THEN Nil
  ELSE IF st.severity = Null THEN Nil
  ELSE [ option    |-> [k \in Key |-> IF st.option[k] = Unset THEN Default[k] ELSE st.option[k]],
         severity  |-> IF st.severity = Unset THEN [r \in Rule |-> Unset] ELSE st.severity,
         overrides |-> IF st.overrides = Unset THEN << >> ELSE st.overrides ]

\* Mutation of RewriteSpecs: rooted specs are moved too.
RewriteSpecs_Fixed(specs, difference) ==
  { [fixed |-> s.fixed, at |-> difference + s.at] : s \in specs }

RewriteSpecs(specs, difference) ==
  { [fixed |-> s.fixed, at |-> IF s.fixed THEN s.at ELSE difference + s.at] : s \in specs }

RewriteOverride(o, difference) ==
  [include |-> RewriteSpecs(o.include, difference),
   exclude |-> RewriteSpecs(o.exclude, difference), severity |-> o.severity]

RewriteOptionsOverrides(options, difference) ==
  [option |-> options.option, severity |-> options.severity,
   overrides |-> [i \in DOMAIN options.overrides |->
                    RewriteOverride(options.overrides[i], difference)]]

MergeSeverityMaps(target, source) ==
  [r \in Rule |-> IF source[r] = Unset THEN target[r] ELSE source[r]]

\* Mutation of MergeOptions: inherited overrides come last.
MergeOptions_InheritedLast(target, source, raw) ==
  [ option |-> [k \in Key |-> IF raw.option[k] = Unset THEN target.option[k]
                              ELSE source.option[k]],
    severity  |-> IF raw.severity = Unset THEN target.severity
                  ELSE MergeSeverityMaps(target.severity, source.severity),
    overrides |-> IF raw.overrides = Unset THEN target.overrides
                  ELSE source.overrides \o target.overrides ]

\* raw is the source's own plugin entry: of what the source inherited, only
\* the keys it also sets itself come across.  A null severity map leaves the
\* inherited one of the source in place.
MergeOptions(target, source, raw) ==
  [ option |-> [k \in Key |-> IF raw.option[k] = Unset THEN target.option[k]
                              ELSE source.option[k]],
    severity  |-> IF raw.severity = Unset THEN target.severity
                  ELSE MergeSeverityMaps(target.severity, source.severity),
    overrides |-> IF raw.overrides = Unset THEN target.overrides
                  ELSE target.overrides \o source.overrides ]

MergeEffectCompilerOptions(target, source, raw, difference) ==
  IF source = Nil THEN target
  ELSE LET rewritten == RewriteOptionsOverrides(source, difference) IN
       IF raw = NoStanza \/ target = Nil THEN rewritten
       ELSE MergeOptions(target, rewritten, raw)

-----------------------------------------------------------------------------
Top == stack[Len(stack)]

Parse(c) == Append(stack, [config |-> c, next |-> 1, options |-> Nil])

Begin ==
  /\ ~ done /\ stack = << >>
  /\ stack' = Parse(Last)
  /\ UNCHANGED <<inputs, result, done>>

ParseExtended ==
  /\ stack # << >> /\ Top.next <= Len(extends[Top.config])
  /\ stack' = Parse(extends[Top.config][Top.next])
  /\ UNCHANGED <<inputs, result, done>>

\* A config's own options are merged over what it extends; they are at home.
Merged ==
  MergeEffectCompilerOptions(Top.options, ParseFromPlugins(stanza[Top.config]),
                             stanza[Top.config], 0)

\* The extended config is done: the config below it takes its options.
MergeExtended ==
  /\ Len(stack) > 1 /\ Top.next > Len(extends[Top.config])
  /\ LET n == Len(stack) - 1
         f == stack[n]
     IN stack' = [ SubSeq(stack, 1, n) EXCEPT ![n] =
          [ config |-> f.config, next |-> f.next + 1,
            options |-> MergeEffectCompilerOptions(f.options, Merged, stanza[Top.config],
                                                   dir[Top.config] - dir[f.config]) ] ]
  /\ UNCHANGED <<inputs, result, done>>

Finish ==
  /\ Len(stack) = 1 /\ Top.next > Len(extends[Top.config])
  /\ result' = Merged /\ done' = TRUE
  /\ stack' = << >>
  /\ UNCHANGED inputs

Start == stack = << >> /\ result = Nil /\ done = FALSE

Init ==
  /\ extends \in { e \in [Config -> Seq(Config)] :
                     \A c \in Config : \A i \in DOMAIN e[c] : e[c][i] < c }
  /\ stanza \in [Config -> Stanza \cup {NoStanza}]
  /\ dir \in [Config -> Int]
  /\ Start

Next == Begin \/ ParseExtended \/ MergeExtended \/ Finish

Spec == Init /\ [][Next]_vars

-----------------------------------------------------------------------------
(***************************************************************************)
(* The severities of the file at place l (resolver.go).                    *)
(***************************************************************************)
Place(spec, d) == IF spec.fixed THEN spec.at ELSE d + spec.at

MatchesOverride(o, d, l) ==
  /\ o.include = {} \/ \E s \in o.include : Place(s, d) = l
  /\ ~ \E s \in o.exclude : Place(s, d) = l

\* Overrides are applied in order: the last one that sets r wins.
ResolveSeverity(options, l, r) ==
  LET setting == { i \in DOMAIN options.overrides :
        /\ MatchesOverride(options.overrides[i], dir[Last], l)
        /\ options.overrides[i].severity[r] # Unset }
  IN  IF setting = {} THEN options.severity[r]
      ELSE options.overrides[CHOOSE i \in setting : \A j \in setting : j <= i].severity[r]

-----------------------------------------------------------------------------
TypeOK ==
  /\ extends \in [Config -> Seq(Config)]
  /\ stanza \in [Config -> Stanza \cup {NoStanza}] /\ dir \in [Config -> Int]
  /\ stack \in Seq(Frame)
  /\ result \in Options \cup {Nil} /\ done \in BOOLEAN

Usable(c) == stanza[c] # NoStanza /\ stanza[c].severity # Null

\* What a config says itself, whatever becomes of it.
Says(c)      == IF Usable(c) THEN ParseFromPlugins(stanza[c]) ELSE Nil
Scopes(c)    == IF Usable(c) THEN Says(c).overrides ELSE << >>
SaysOption(c, k)   == Usable(c) /\ stanza[c].option[k] # Unset
SaysSeverity(c, r) == Usable(c) /\ Says(c).severity[r] # Unset

\* The same files, seen from directory d and from directory e.
SamePlaces(S, d, T, e) == { Place(s, d) : s \in S } = { Place(t, e) : t \in T }

DeclaredIn(o, d, c) ==
  \E i \in DOMAIN Scopes(c) :
    /\ Scopes(c)[i].severity = o.severity
    /\ SamePlaces(Scopes(c)[i].include, dir[c], o.include, d)
    /\ SamePlaces(Scopes(c)[i].exclude, dir[c], o.exclude, d)

\* "A scope entry inherited through extends must keep path semantics relative
\* to the config where it was originally declared"
\* (.specs/path-scoped-diagnostic-config.md:176): whatever merges an override
\* goes through, it stands for the files it was written for.
OverridesKeepPlace ==
  result # Nil =>
    \A i \in DOMAIN result.overrides :
      \E c \in Config : DeclaredIn(result.overrides[i], dir[Last], c)

\* The configs that c is made of, in the order of their merges: what it extends,
\* one after the other, and itself.  One that is met twice is there twice.
Order ==
  LET order[c \in Config] ==
        Append(Seqs!FlattenSeq([i \in DOMAIN extends[c] |-> order[extends[c][i]]]), c)
  IN  order

\* What is merged before the n-th config that c extends, and before c itself.
Before(c, n) == Seqs!FlattenSeq([i \in 1 .. (n - 1) |-> Order[extends[c][i]]])
Inherited(c) == Before(c, Len(extends[c]) + 1)

Silent(s) == \A p \in DOMAIN s : ~ Usable(s[p])

Greatest(S) == CHOOSE c \in S : \A d \in S : d <= c

ExpectedOption(k) ==
  LET order   == Order[Last]
      setting == { p \in DOMAIN order : SaysOption(order[p], k) }
  IN  IF setting = {} THEN Default[k] ELSE stanza[order[Greatest(setting)]].option[k]

ExpectedSeverity(l, r) ==
  LET order   == Order[Last]
      setting == { p \in DOMAIN order : SaysSeverity(order[p], r) }
      scoping[p \in DOMAIN order] ==
        { i \in DOMAIN Scopes(order[p]) :
            /\ MatchesOverride(Scopes(order[p])[i], dir[order[p]], l)
            /\ Scopes(order[p])[i].severity[r] # Unset }
      scopes  == { p \in DOMAIN order : scoping[p] # {} }
      nearest == Greatest(scopes)
  IN  IF scopes # {} THEN Scopes(order[nearest])[Greatest(scoping[nearest])].severity[r]
      ELSE IF setting # {} THEN Says(order[Greatest(setting)]).severity[r]
      ELSE Unset

\* The places some override names, and one that none does.
Files == {1000} \cup UNION { { Place(s, dir[c]) :
             s \in UNION { Scopes(c)[i].include \cup Scopes(c)[i].exclude :
                           i \in DOMAIN Scopes(c) } } : c \in Config }

NearestDecides ==
  /\ (result = Nil <=> Silent(Order[Last]))
  /\ result # Nil =>
       /\ \A k \in Key : result.option[k] = ExpectedOption(k)
       /\ \A l \in Files, r \in Rule : ResolveSeverity(result, l, r) = ExpectedSeverity(l, r)

RootDecides ==
  /\ \A k \in Key : SaysOption(Last, k) => result.option[k] = stanza[Last].option[k]
  /\ \A r \in Rule : SaysSeverity(Last, r) => result.severity[r] = Says(Last).severity[r]

IsNull(c) == stanza[c] # NoStanza /\ stanza[c].severity = Null

\* A config with a null severity map has nothing before it that it could disable.
NullSettled ==
  \A c \in Config :
    /\ IsNull(c) => Silent(Inherited(c))
    /\ \A i \in DOMAIN extends[c] : IsNull(extends[c][i]) => Silent(Before(c, i))

\* A config that is merged into what others before it contributed has nothing to
\* pass on but its own entry.
PassesOwn ==
  \A c \in Config : \A i \in DOMAIN extends[c] :
    Silent(Before(c, i)) \/ Silent(Inherited(extends[c][i]))

\* Of a config and those it extends, the last in the order of the merges that sets
\* an option, a rule's severity or an override of it for the file decides
\* (hooks.go:24, resolver.go:48), and the plugin is off only when none turns it on.
\* Two cases are left out, in which the code is at odds with its comments (README,
\* findings 4 and 5): a null over what others set (NullSettled), and a config that passes on
\* what it inherits to a list of several (PassesOwn).  What the root says itself
\* wins in those as well (hooks.go:46).
NearestConfigDecides == done => RootDecides /\ (NullSettled /\ PassesOwn => NearestDecides)

\* "diagnosticSeverity: null means explicitly disabled" (options_parser.go:68).
\* Not so where something is inherited (hooks.go:25): README, finding 4.
NullDisables == done /\ IsNull(Last) => result = Nil

\* A config without an entry does "not drop inherited Effect settings"
\* (hooks.go:32): what some config it is made of sets is set in the end.  Not so
\* in a list of several (hooks.go:34): README, finding 5.
NothingDropped ==
  done /\ (\A c \in Config : ~ IsNull(c)) =>
    \A k \in Key : (\E p \in DOMAIN Order[Last] : SaysOption(Order[Last][p], k)) =>
      \E p \in DOMAIN Order[Last] :
        SaysOption(Order[Last][p], k) /\ result.option[k] = stanza[Order[Last][p]].option[k]
=============================================================================
