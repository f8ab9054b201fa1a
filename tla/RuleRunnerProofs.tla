-------------------------- MODULE RuleRunnerProofs --------------------------
(***************************************************************************)
(* The directive tables answer what the directives, read as written,       *)
(* promise: the lookup of internal/directives/parser.go:187 against the    *)
(* policy of EffectDirectives.  From it follow the promises of the rule    *)
(* runner: the diagnostics of a file follow its directives and configured  *)
(* severities, a directive reported as unused can be deleted, and the exit *)
(* status is that of the promised diagnostics.                             *)
(***************************************************************************)
EXTENDS RuleRunner, FiniteSetTheorems, NaturalsInduction, TLAPS

(***************************************************************************)
(* A nonempty set of naturals has a least element: the only form of        *)
(* induction used here.                                                    *)
(***************************************************************************)
LEMMA LeastNatural ==
  ASSUME NEW S, S \subseteq Nat, S # {}
  PROVE  \E x \in S : \A y \in S : x <= y
<1> DEFINE R == OpToRel(<, Nat)
<1>1. IsWellFoundedOn(R, Nat)
  BY NatLessThanWellFounded
<1>2. \A x, y \in Nat : <<x, y>> \in R <=> x < y
  BY DEF OpToRel
<1>3. PICK x \in S : \A y \in S : ~ (<<y, x>> \in R)
  <2> HIDE DEF R
  <2> QED BY <1>1, WFMin, Zenon
<1>4. ASSUME NEW y \in S PROVE x <= y
  <2>1. x \in Nat /\ y \in Nat /\ ~ (y < x)
    BY <1>2, <1>3
  <2> QED BY <2>1
<1> QED BY <1>4

(***************************************************************************)
(* A nonempty set of naturals with an upper bound has a greatest element.  *)
(***************************************************************************)
LEMMA GreatestBounded ==
  ASSUME NEW S, S \subseteq Nat, S # {}, NEW b \in Nat, \A x \in S : x <= b
  PROVE  \E x \in S : \A y \in S : y <= x
<1> DEFINE D == { b - x : x \in S }
<1>1. D \subseteq Nat
  <2> SUFFICES ASSUME NEW x \in S PROVE b - x \in Nat
    OBVIOUS
  <2> x \in Nat /\ x <= b
    OBVIOUS
  <2> QED OBVIOUS
<1>2. D # {}
  OBVIOUS
<1>3. PICK m \in D : \A y \in D : m <= y
  <2> HIDE DEF D
  <2> QED BY <1>1, <1>2, LeastNatural
<1>4. PICK x \in S : m = b - x
  OBVIOUS
<1>5. ASSUME NEW y \in S PROVE y <= x
  <2>1. b - x <= b - y
    BY <1>3, <1>4
  <2>2. x \in Nat /\ y \in Nat
    OBVIOUS
  <2> QED BY <2>1, <2>2
<1> QED BY <1>5

-----------------------------------------------------------------------------
(***************************************************************************)
(* A directive that mentions a rule has a first pair that matches it.      *)
(***************************************************************************)
LEMMA FirstMatchExists ==
  ASSUME NEW d \in Directive, NEW r, Names(d, r)
  PROVE  /\ FirstMatch(d, r) \in DOMAIN d.rules
         /\ Matches(d.rules[FirstMatch(d, r)], r)
         /\ \A j \in DOMAIN d.rules : j < FirstMatch(d, r) => ~ Matches(d.rules[j], r)
<1> DEFINE S == { i \in DOMAIN d.rules : Matches(d.rules[i], r) }
<1>1. d.rules \in Seq(RuleSeverity) /\ DOMAIN d.rules \subseteq Nat
  BY DEF Directive
<1>2. S \subseteq Nat /\ S # {}
  BY <1>1 DEF Names
<1>3. PICK i \in S : \A j \in S : i <= j
  <2> HIDE DEF S
  <2> QED BY <1>2, LeastNatural
<1>4. /\ i \in DOMAIN d.rules /\ Matches(d.rules[i], r)
      /\ \A j \in DOMAIN d.rules : j < i => ~ Matches(d.rules[j], r)
  BY <1>1, <1>3
<1> QED BY <1>4 DEF FirstMatch

(***************************************************************************)
(* The severity a directive gives to a rule it mentions is a severity.     *)
(***************************************************************************)
LEMMA SeverityForType ==
  ASSUME NEW d \in Directive, NEW r, Names(d, r)
  PROVE  SeverityFor(d, r) \in Severity
<1>1. FirstMatch(d, r) \in DOMAIN d.rules
  BY FirstMatchExists
<1>2. d.rules \in Seq(RuleSeverity)
  BY DEF Directive
<1>3. d.rules[FirstMatch(d, r)] \in RuleSeverity
  BY <1>1, <1>2
<1> QED BY <1>3 DEF SeverityFor, RuleSeverity

(***************************************************************************)
(* Among directives of one file that stand no later than a given line,     *)
(* there is a single closest one.                                          *)
(***************************************************************************)
LEMMA ClosestIsUnique ==
  ASSUME NEW D \in DirectiveLists, NEW S, S \subseteq D, S # {},
         NEW b \in Nat, \A d \in S : d.line <= b
  PROVE  /\ Closest(S) \in S
         /\ { d \in S : \A e \in S : e.line <= d.line } = {Closest(S)}
<1> DEFINE L == { d.line : d \in S }
<1>1. \A d \in S : d \in Directive /\ d.line \in Nat
  BY DEF DirectiveLists, Directive
<1>2. L \subseteq Nat /\ L # {} /\ \A l \in L : l <= b
  BY <1>1
<1>3. PICK l \in L : \A m \in L : m <= l
  <2> HIDE DEF L
  <2> QED BY <1>2, GreatestBounded
<1>4. PICK d \in S : d.line = l
  OBVIOUS
<1>5. \A e \in S : e.line <= d.line
  BY <1>3, <1>4
<1>6. Closest(S) \in S /\ \A e \in S : e.line <= Closest(S).line
  BY <1>5 DEF Closest
<1>7. ASSUME NEW x \in S, \A e \in S : e.line <= x.line
      PROVE  x = Closest(S)
  <2>1. x.line = Closest(S).line
    BY <1>1, <1>6, <1>7
  <2> QED BY <1>6, <2>1 DEF DirectiveLists
<1> QED BY <1>6, <1>7

(***************************************************************************)
(* The directives that decide a lookup, as the tables give them.           *)
(***************************************************************************)
LEMMA TablesHoldDirectives ==
  ASSUME NEW D \in DirectiveLists, NEW r, NEW line \in Nat
  PROVE  LET ds == BuildDirectiveSet(D) IN
         /\ NextLineFor(ds, r, line) =
              { d \in D : d.isNextLine /\ d.line = line - 1 /\ Names(d, r) }
         /\ SectionsFor(ds, r, line) =
              { d \in D : ~ d.isNextLine /\ ~ HasSkipFile(d)
                            /\ d.line <= line /\ Names(d, r) }
<1>1. \A d \in D : d.line \in Nat
  BY DEF DirectiveLists, Directive
<1>2. \A d \in D : d.isNextLine => (AffectedLine(d) = line <=> d.line = line - 1)
  BY <1>1 DEF AffectedLine
<1> QED BY <1>2 DEF BuildDirectiveSet, NextLineFor, SectionsFor

(***************************************************************************)
(* The file-level table answers whether some directive silences the rule.  *)
(***************************************************************************)
LEMMA SkipFileIsSilenced ==
  ASSUME NEW D \in DirectiveLists, NEW r \in Rule \cup {Any}
  PROVE  IsSkipFile(BuildDirectiveSet(D), r) <=> Silenced(D, r)
BY DEF BuildDirectiveSet, IsSkipFile, Silenced, Matches

(***************************************************************************)
(* When directives govern the finding, they are a single directive, and    *)
(* the policy's severity is that of its first matching pair.               *)
(***************************************************************************)
LEMMA GovernedSeverity ==
  ASSUME NEW D \in DirectiveLists, NEW r, NEW line \in Nat, NEW default,
         NEW d \in D, Names(d, r), Governing(D, r, line) = {d}, ~ Silenced(D, r)
  PROVE  PolicySeverity(D, r, line, default) = SeverityFor(d, r)
<1> DEFINE P(s) == \E e \in Governing(D, r, line) : \E i \in DOMAIN e.rules :
                     /\ Matches(e.rules[i], r) /\ e.rules[i].severity = s
                     /\ \A j \in 1 .. (i - 1) : ~ Matches(e.rules[j], r)
           f == FirstMatch(d, r)
<1>1. d \in Directive /\ d.rules \in Seq(RuleSeverity) /\ DOMAIN d.rules = 1 .. Len(d.rules)
  BY DEF DirectiveLists, Directive
<1>2. /\ f \in DOMAIN d.rules /\ Matches(d.rules[f], r)
      /\ \A j \in DOMAIN d.rules : j < f => ~ Matches(d.rules[j], r)
  BY <1>1, FirstMatchExists
<1>3. SeverityFor(d, r) \in Severity
  BY <1>1, SeverityForType
<1>4. Len(d.rules) \in Nat
  BY <1>1
<1>5. P(SeverityFor(d, r))
  <2>1. \A j \in 1 .. (f - 1) : ~ Matches(d.rules[j], r)
    BY <1>1, <1>2, <1>4
  <2> QED BY <1>2, <2>1 DEF SeverityFor
<1>6. ASSUME NEW s, P(s) PROVE s = SeverityFor(d, r)
  <2>1. PICK i \in DOMAIN d.rules :
          /\ Matches(d.rules[i], r) /\ d.rules[i].severity = s
          /\ \A j \in 1 .. (i - 1) : ~ Matches(d.rules[j], r)
    BY <1>6
  <2>2. i = f
    BY <1>1, <1>2, <1>4, <2>1
  <2> QED BY <2>1, <2>2 DEF SeverityFor
<1>7. PolicySeverity(D, r, line, default) = CHOOSE s \in Severity : P(s)
  BY DEF PolicySeverity
<1> HIDE DEF P
<1> QED BY <1>3, <1>5, <1>6, <1>7

(***************************************************************************)
(* The lookup in the tables and the policy give the same severity; when a  *)
(* skip-file pair decides, both are off.                                   *)
(***************************************************************************)
THEOREM LookupFollowsPolicy ==
  ASSUME NEW D \in DirectiveLists, NEW r \in Rule, NEW line \in Nat,
         NEW default \in Severity
  PROVE  LET e == GetEffectiveSeverity(BuildDirectiveSet(D), r, line, default)
             p == PolicySeverity(D, r, line, default)
         IN  /\ e \in Severity /\ p \in Severity
             /\ IsOff(e) <=> IsOff(p)
             /\ ~ IsOff(e) => e = p
<1> DEFINE ds    == BuildDirectiveSet(D)
           above == NextLineFor(ds, r, line)
           sect  == SectionsFor(ds, r, line)
           e     == GetEffectiveSeverity(ds, r, line, default)
           p     == PolicySeverity(D, r, line, default)
<1>1. IsSkipFile(ds, r) <=> Silenced(D, r)
  BY SkipFileIsSilenced
<1>2. /\ above = { d \in D : d.isNextLine /\ d.line = line - 1 /\ Names(d, r) }
      /\ sect = { d \in D : ~ d.isNextLine /\ ~ HasSkipFile(d)
                              /\ d.line <= line /\ Names(d, r) }
  BY TablesHoldDirectives
<1>3. Governing(D, r, line) = IF above # {} THEN above
                              ELSE { d \in sect : \A x \in sect : x.line <= d.line }
  BY <1>2 DEF Governing
<1>4. CASE Silenced(D, r)
  <2>1. e = "skip-file" /\ p = "off"
    BY <1>1, <1>4 DEF GetEffectiveSeverity, PolicySeverity
  <2> QED BY <2>1 DEF IsOff, Severity
<1>5. CASE ~ Silenced(D, r) /\ above # {}
  <2>1. \A d \in above : d \in D /\ Names(d, r) /\ d.line = line - 1 /\ d.line \in Nat
    BY <1>2 DEF DirectiveLists, Directive
  <2>2. above \subseteq D /\ \A d \in above : d.line <= line
    BY <2>1
  <2>3. Closest(above) \in above
    BY <1>5, <2>2, ClosestIsUnique
  <2>4. above = {Closest(above)}
    BY <2>1, <2>3 DEF DirectiveLists
  <2>5. p = SeverityFor(Closest(above), r)
    BY <1>3, <1>5, <2>1, <2>3, <2>4, GovernedSeverity
  <2>6. e = SeverityFor(Closest(above), r)
    BY <1>1, <1>5 DEF GetEffectiveSeverity
  <2>7. Closest(above) \in Directive /\ Names(Closest(above), r)
    BY <2>1, <2>3 DEF DirectiveLists
  <2> QED BY <2>5, <2>6, <2>7, SeverityForType
<1>6. CASE ~ Silenced(D, r) /\ above = {} /\ sect # {}
  <2>1. sect \subseteq D /\ \A d \in sect : d.line <= line /\ Names(d, r)
    BY <1>2
  <2>2. /\ Closest(sect) \in sect
        /\ { d \in sect : \A x \in sect : x.line <= d.line } = {Closest(sect)}
    <3> HIDE DEF sect
    <3> QED BY <1>6, <2>1, ClosestIsUnique
  <2>3. Governing(D, r, line) = {Closest(sect)}
    BY <1>3, <1>6, <2>2
  <2>4. p = SeverityFor(Closest(sect), r)
    BY <1>6, <2>1, <2>2, <2>3, GovernedSeverity
  <2>5. e = SeverityFor(Closest(sect), r)
    BY <1>1, <1>6 DEF GetEffectiveSeverity
  <2>6. Closest(sect) \in Directive /\ Names(Closest(sect), r)
    BY <2>1, <2>2 DEF DirectiveLists
  <2> QED BY <2>4, <2>5, <2>6, SeverityForType
<1>7. CASE ~ Silenced(D, r) /\ above = {} /\ sect = {}
  <2>1. e = default /\ p = default
    BY <1>1, <1>3, <1>7 DEF GetEffectiveSeverity, PolicySeverity
  <2> QED BY <2>1
<1> QED BY <1>4, <1>5, <1>6, <1>7

(***************************************************************************)
(* What the optimisation relies on: if no directive gives the rule a       *)
(* severity that is not off, and it is off by configuration, every lookup  *)
(* answers off.                                                            *)
(***************************************************************************)
THEOREM NothingEnablesMeansOff ==
  ASSUME NEW D \in DirectiveLists, NEW r \in Rule, NEW line \in Nat,
         NEW default \in Severity, IsOff(default),
         ~ HasEnablingDirective(BuildDirectiveSet(D), r)
  PROVE  IsOff(GetEffectiveSeverity(BuildDirectiveSet(D), r, line, default))
<1> DEFINE ds    == BuildDirectiveSet(D)
           above == NextLineFor(ds, r, line)
           sect  == SectionsFor(ds, r, line)
<1>1. ASSUME NEW d \in ds.sectionDirectives \cup ds.byLine, Names(d, r)
      PROVE  IsOff(SeverityFor(d, r))
  <2>1. d \in Directive
    BY DEF BuildDirectiveSet, DirectiveLists
  <2>2. FirstMatch(d, r) \in DOMAIN d.rules /\ Matches(d.rules[FirstMatch(d, r)], r)
    BY <1>1, <2>1, FirstMatchExists
  <2> QED BY <2>2 DEF HasEnablingDirective, SeverityFor
<1>2. \A d \in above : d \in D /\ d \in ds.byLine /\ Names(d, r) /\ d.line = line - 1
  <2>1. above = { d \in D : d.isNextLine /\ d.line = line - 1 /\ Names(d, r) }
    BY TablesHoldDirectives
  <2> QED BY <2>1 DEF BuildDirectiveSet
<1>3. \A d \in sect : d \in D /\ d \in ds.sectionDirectives /\ Names(d, r) /\ d.line <= line
  <2>1. sect = { d \in D : ~ d.isNextLine /\ ~ HasSkipFile(d)
                             /\ d.line <= line /\ Names(d, r) }
    BY TablesHoldDirectives
  <2> QED BY <2>1 DEF BuildDirectiveSet
<1>4. CASE IsSkipFile(ds, r)
  BY <1>4 DEF GetEffectiveSeverity, IsOff
<1>5. CASE ~ IsSkipFile(ds, r) /\ above # {}
  <2>1. above \subseteq D /\ \A d \in above : d.line \in Nat /\ d.line <= line
    BY <1>2 DEF DirectiveLists, Directive
  <2>2. Closest(above) \in above
    <3> HIDE DEF above
    <3> QED BY <1>5, <2>1, ClosestIsUnique
  <2> QED BY <1>1, <1>2, <1>5, <2>2 DEF GetEffectiveSeverity
<1>6. CASE ~ IsSkipFile(ds, r) /\ above = {} /\ sect # {}
  <2>1. sect \subseteq D /\ \A d \in sect : d.line <= line
    BY <1>3
  <2>2. Closest(sect) \in sect
    <3> HIDE DEF sect
    <3> QED BY <1>6, <2>1, ClosestIsUnique
  <2> QED BY <1>1, <1>3, <1>6, <2>2 DEF GetEffectiveSeverity
<1>7. CASE ~ IsSkipFile(ds, r) /\ above = {} /\ sect = {}
  BY <1>7 DEF GetEffectiveSeverity
<1> QED BY <1>4, <1>5, <1>6, <1>7

-----------------------------------------------------------------------------
(***************************************************************************)
(* The severity a rule starts from, and the category given to a severity,  *)
(* are what the types say.                                                 *)
(***************************************************************************)
LEMMA ConfigSeverityType ==
  ASSUME TypeOK, NEW r \in Rule
  PROVE  ConfigSeverity(r) \in Severity
BY DefaultSeverityType DEF TypeOK, Options, ConfigSeverity

(***************************************************************************)
(* Every severity is turned into a category.                               *)
(***************************************************************************)
LEMMA ToCategoryType == \A s : ToCategory(s) \in Category
BY DEF ToCategory, Category

(***************************************************************************)
(* The variables keep their types (RuleRunner.tla, TypeOK).                *)
(***************************************************************************)
THEOREM TypeCorrect == Spec => []TypeOK
<1>1. Init => TypeOK
  BY DEF Init, Idle, TypeOK
<1>2. TypeOK /\ [Next]_vars => TypeOK'
  <2> SUFFICES ASSUME TypeOK, [Next]_vars PROVE TypeOK'
    OBVIOUS
  <2> USE DEF TypeOK, inputs
  <2>1. CASE EnterCommandLineMode
    BY <2>1 DEF EnterCommandLineMode
  <2>2. CASE RunReturnsNothing
    BY <2>2 DEF RunReturnsNothing
  <2>3. CASE RunStarts
    BY <2>3 DEF RunStarts
  <2>4. CASE Collected
    BY <2>4 DEF Collected
  <2>5. ASSUME NEW r \in Rule, SkipRule(r) PROVE TypeOK'
    BY <2>5 DEF SkipRule
  <2>6. ASSUME NEW r \in Rule, RunRule(r) PROVE TypeOK'
    <3>1. file.finds[r] \subseteq Nat
      BY DEF File
    <3>2. { [rule |-> r, line |-> l] : l \in file.finds[r] } \subseteq Finding
      BY <3>1 DEF Finding
    <3> QED BY <2>6, <3>2 DEF RunRule
  <2>7. ASSUME NEW f \in pending, DropFinding(f) \/ EmitFinding(f) PROVE TypeOK'
    <3>1. f \in Finding /\ f.rule \in Rule /\ f.line \in Nat
      BY DEF Finding
    <3>2. MarkedUsed(directiveSet, f.rule, f.line) \subseteq Nat
      <4>1. \A d \in directiveSet.byLine : d.line \in Nat
        BY DEF directiveSet, BuildDirectiveSet, File, DirectiveLists, Directive
      <4> QED BY <4>1 DEF MarkedUsed, NextLineFor
    <3>3. used' \subseteq Nat /\ pending' \subseteq Finding
      BY <2>7, <3>2 DEF DropFinding, EmitFinding, Visit
    <3>4. emitted' \subseteq Diagnostic
      BY <2>7, <3>1, ToCategoryType DEF DropFinding, EmitFinding, Diagnostic
    <3> QED BY <2>7, <3>3, <3>4 DEF DropFinding, EmitFinding, Visit
  <2>8. CASE ReportUnusedDirectives
    <3>1. \A d \in file.directives : d.line \in Nat
      BY DEF File, DirectiveLists, Directive
    <3>2. emitted' \subseteq Diagnostic
      BY <2>8, <3>1, ToCategoryType
         DEF ReportUnusedDirectives, GetUnusedNextLineDirectives, Diagnostic
    <3> QED BY <2>8, <3>2 DEF ReportUnusedDirectives
  <2>9. CASE ExitTsc
    BY <2>9 DEF ExitTsc
  <2>10. CASE Publish
    BY <2>10 DEF Publish
  <2>11. CASE UNCHANGED vars
    BY <2>11 DEF vars
  <2> QED BY <2>1, <2>2, <2>3, <2>4, <2>5, <2>6, <2>7, <2>8, <2>9, <2>10, <2>11 DEF Next
<1> QED BY <1>1, <1>2, PTL DEF Spec

-----------------------------------------------------------------------------
(***************************************************************************)
(* The inductive invariant: what has been collected and emitted at each    *)
(* stage, in terms of the findings of the rules that are not skipped.      *)
(***************************************************************************)
Collectable ==
  { f \in Finding : /\ f.line \in file.finds[f.rule]
                    /\ ~ DisabledRule(f.rule)
                    /\ ~ IsSkipFile(directiveSet, f.rule) }

Shown(f) ==
  /\ ~ IsOff(EffectiveSeverity(f))
  /\ ~ HiddenFromTsc(ToCategory(EffectiveSeverity(f)))

Reported(f) == [rule |-> f.rule, line |-> f.line,
                category |-> ToCategory(EffectiveSeverity(f))]

Checking == file.eligible /\ options.enabled /\ ~ IsSkipFile(directiveSet, Any)

CliInv ==
  /\ cli => session = "tsc"
  /\ pc \in {"collect", "transform"} => (session = "tsc" => cli)

StageInv ==
  /\ pc = "idle" => emitted = {} /\ pending = {}
  /\ pc \in {"collect", "transform"} => Checking
  /\ pc = "collect" => /\ emitted = {}
                       /\ pending = { f \in Collectable : f.rule \notin todo }
  /\ pc = "transform" =>
       /\ pending \subseteq Collectable
       /\ emitted = { Reported(f) : f \in { g \in Collectable \ pending : Shown(g) } }
  /\ pc \in {"checked", "done"} => RuleDiagnostics = Policy(file.directives)

IInv == TypeOK /\ CliInv /\ StageInv

(***************************************************************************)
(* A finding of a skipped rule is not promised, and a finding that is      *)
(* shown is promised with the category it is shown with.                   *)
(***************************************************************************)
LEMMA ShownIsWanted ==
  ASSUME TypeOK, Checking, cli <=> session = "tsc", NEW f \in Finding
  PROVE  LET s == PolicySeverity(file.directives, f.rule, f.line, ConfigSeverity(f.rule))
         IN  /\ Wanted(file.directives, f.rule, f.line) <=> Shown(f)
             /\ Shown(f) => ToCategory(EffectiveSeverity(f)) = s
             /\ DisabledRule(f.rule) \/ IsSkipFile(directiveSet, f.rule) => ~ Shown(f)
<1> DEFINE D == file.directives
           e == EffectiveSeverity(f)
           s == PolicySeverity(D, f.rule, f.line, ConfigSeverity(f.rule))
<1>1. f.rule \in Rule /\ f.line \in Nat /\ D \in DirectiveLists
  BY DEF TypeOK, Finding, File
<1>2. ConfigSeverity(f.rule) \in Severity
  BY <1>1, ConfigSeverityType
<1>3. /\ e \in Severity /\ s \in Severity
      /\ IsOff(e) <=> IsOff(s)
      /\ ~ IsOff(e) => e = s
  BY <1>1, <1>2, LookupFollowsPolicy DEF EffectiveSeverity, directiveSet
<1>4. ~ IsOff(e) => ToCategory(e) = e
  BY <1>3 DEF ToCategory, IsOff, Severity
<1>5. Wanted(D, f.rule, f.line) <=> Shown(f)
  BY <1>3, <1>4 DEF Wanted, Shown, HiddenFromTsc, Checking
<1>6. Shown(f) => ToCategory(e) = s
  BY <1>3, <1>4 DEF Shown
<1>7. DisabledRule(f.rule) => IsOff(e)
  BY <1>1, <1>2, NothingEnablesMeansOff DEF DisabledRule, EffectiveSeverity, directiveSet
<1>8. IsSkipFile(directiveSet, f.rule) => IsOff(e)
  BY DEF EffectiveSeverity, GetEffectiveSeverity, IsOff
<1> QED BY <1>5, <1>6, <1>7, <1>8 DEF Shown

(***************************************************************************)
(* So the promised diagnostics of a checked file are those of the shown    *)
(* findings of the rules that run.                                         *)
(***************************************************************************)
LEMMA PolicyIsShown ==
  ASSUME TypeOK, Checking, cli <=> session = "tsc"
  PROVE  Policy(file.directives) = { Reported(f) : f \in { g \in Collectable : Shown(g) } }
<1> DEFINE D == file.directives
           P == Policy(D)
           R == { Reported(f) : f \in { g \in Collectable : Shown(g) } }
<1>1. ASSUME NEW x \in P PROVE x \in R
  <2> DEFINE f == [rule |-> x.rule, line |-> x.line]
  <2>1. /\ x.rule \in Rule /\ x.line \in file.finds[x.rule]
        /\ Wanted(D, x.rule, x.line)
        /\ x.category = PolicySeverity(D, x.rule, x.line, ConfigSeverity(x.rule))
        /\ x = [rule |-> x.rule, line |-> x.line, category |-> x.category]
    BY DEF Policy
  <2>2. f \in Finding /\ f.rule = x.rule /\ f.line = x.line
    BY <2>1 DEF Finding, TypeOK, File
  <2>3. Shown(f) /\ ToCategory(EffectiveSeverity(f)) = x.category
    BY <2>1, <2>2, ShownIsWanted
  <2>4. f \in Collectable
    BY <2>1, <2>2, <2>3, ShownIsWanted DEF Collectable
  <2>5. x = Reported(f)
    BY <2>1, <2>2, <2>3 DEF Reported
  <2> QED BY <2>3, <2>4, <2>5
<1>2. ASSUME NEW x \in R PROVE x \in P
  <2>1. PICK f \in Collectable : Shown(f) /\ x = Reported(f)
    OBVIOUS
  <2>2. f \in Finding /\ f.rule \in Rule /\ f.line \in file.finds[f.rule]
    BY DEF Collectable, Finding
  <2>3. Wanted(D, f.rule, f.line)
    BY <2>1, <2>2, ShownIsWanted
  <2>4. ToCategory(EffectiveSeverity(f)) =
          PolicySeverity(D, f.rule, f.line, ConfigSeverity(f.rule))
    BY <2>1, <2>2, ShownIsWanted
  <2>5. /\ x.rule = f.rule /\ x.line = f.line
        /\ x.category = ToCategory(EffectiveSeverity(f))
        /\ x.category \in Category
    BY <2>1, ToCategoryType DEF Reported
  <2>6. x \in [rule : Rule, line : UNION { file.finds[r] : r \in Rule },
               category : Category]
    BY <2>1, <2>2, <2>5, ToCategoryType DEF Reported
  <2> QED BY <2>2, <2>3, <2>4, <2>5, <2>6 DEF Policy
<1> QED BY <1>1, <1>2

(***************************************************************************)
(* A file that Run leaves at once is promised no diagnostic.               *)
(***************************************************************************)
LEMMA NothingPromisedUnchecked ==
  ASSUME TypeOK, ~ Checking
  PROVE  Policy(file.directives) = {}
<1>1. SUFFICES ASSUME NEW x \in Policy(file.directives) PROVE FALSE
  OBVIOUS
<1>2. x.rule \in Rule /\ Wanted(file.directives, x.rule, x.line)
  BY <1>1 DEF Policy
<1>3. file.eligible /\ options.enabled /\ file.directives \in DirectiveLists
  BY <1>2 DEF Wanted, TypeOK, File
<1>4. IsSkipFile(directiveSet, Any)
  BY <1>3 DEF Checking
<1>5. Silenced(file.directives, x.rule)
  BY <1>2, <1>3, <1>4, SkipFileIsSilenced DEF directiveSet, Silenced, Matches
<1>6. PolicySeverity(file.directives, x.rule, x.line, ConfigSeverity(x.rule)) = "off"
  BY <1>5 DEF PolicySeverity
<1> QED BY <1>2, <1>6 DEF Wanted, IsOff

(***************************************************************************)
(* Reading the inputs leaves them alone, so what is computed from them     *)
(* alone does not change.                                                  *)
(***************************************************************************)
LEMMA InputsStable ==
  ASSUME UNCHANGED inputs
  PROVE  /\ directiveSet' = directiveSet /\ Policy(file.directives)' = Policy(file.directives)
         /\ Collectable' = Collectable /\ Checking' = Checking
         /\ \A r : DisabledRule(r)' = DisabledRule(r)
         /\ cli' = cli => \A f : Shown(f)' = Shown(f) /\ Reported(f)' = Reported(f)
BY DEF inputs, directiveSet, Policy, Wanted, ConfigSeverity, Collectable, Checking,
       DisabledRule, Shown, Reported, EffectiveSeverity, HiddenFromTsc

(***************************************************************************)
(* The invariant holds at first.                                           *)
(***************************************************************************)
LEMMA InvInit == Init => CliInv /\ StageInv
BY DEF Init, Idle, CliInv, StageInv

(***************************************************************************)
(* Every step preserves the invariant.                                     *)
(***************************************************************************)
LEMMA InvNext == IInv /\ TypeOK' /\ [Next]_vars => CliInv' /\ StageInv'
<1> SUFFICES ASSUME TypeOK, CliInv, StageInv, TypeOK', [Next]_vars
             PROVE  CliInv' /\ StageInv'
  BY DEF IInv
<1>1. CASE EnterCommandLineMode
  BY <1>1 DEF EnterCommandLineMode, CliInv, StageInv, inputs
<1>2. CASE RunReturnsNothing
  <2>1. UNCHANGED inputs /\ emitted' = {} /\ pc' = "checked" /\ ~ Checking
    BY <1>2 DEF RunReturnsNothing, StageInv, Checking
  <2>2. RuleDiagnostics' = Policy(file.directives)'
    BY <2>1, NothingPromisedUnchecked, InputsStable DEF RuleDiagnostics
  <2> QED BY <1>2, <2>1, <2>2 DEF RunReturnsNothing, CliInv, StageInv, inputs
<1>3. CASE RunStarts
  <2>1. /\ UNCHANGED inputs /\ emitted' = {} /\ pending' = {} /\ pc' = "collect"
        /\ todo' = Rule /\ Checking
    BY <1>3 DEF RunStarts, StageInv, Checking
  <2>2. pending' = { f \in Collectable : f.rule \notin todo' }
    BY <2>1 DEF Collectable, Finding
  <2> QED BY <1>3, <2>1, <2>2, InputsStable DEF RunStarts, CliInv, StageInv, inputs
<1>4. CASE Collected
  <2>1. /\ UNCHANGED <<inputs, cli>> /\ emitted' = {} /\ pc' = "transform" /\ Checking
        /\ pending' = pending /\ pending = Collectable
    BY <1>4 DEF Collected, StageInv
  <2> QED BY <1>4, <2>1, InputsStable DEF Collected, CliInv, StageInv, inputs
<1>5. ASSUME NEW r \in Rule, SkipRule(r) PROVE CliInv' /\ StageInv'
  <2>1. /\ UNCHANGED <<inputs, cli, pc, pending, emitted>> /\ pc = "collect" /\ Checking
        /\ pending = { f \in Collectable : f.rule \notin todo } /\ todo' = todo \ {r}
        /\ emitted = {}
    BY <1>5 DEF SkipRule, StageInv
  <2>2. \A f \in Collectable : f.rule # r
    BY <1>5 DEF SkipRule, Collectable
  <2>3. pending' = { f \in Collectable : f.rule \notin todo' }
    BY <2>1, <2>2
  <2> QED BY <2>1, <2>3, InputsStable DEF CliInv, StageInv, inputs
<1>6. ASSUME NEW r \in Rule, RunRule(r) PROVE CliInv' /\ StageInv'
  <2> DEFINE new == { [rule |-> r, line |-> l] : l \in file.finds[r] }
  <2>1. /\ UNCHANGED <<inputs, cli, pc, emitted>> /\ pc = "collect" /\ Checking
        /\ pending = { f \in Collectable : f.rule \notin todo } /\ todo' = todo \ {r}
        /\ pending' = pending \cup new /\ emitted = {} /\ r \in todo
    BY <1>6 DEF RunRule, StageInv
  <2>2. new = { f \in Collectable : f.rule = r }
    <3>1. file.finds[r] \subseteq Nat
      BY DEF TypeOK, File
    <3>2. ASSUME NEW f \in new PROVE f \in Collectable /\ f.rule = r
      BY <1>6, <3>1 DEF RunRule, Collectable, Finding
    <3>3. ASSUME NEW f \in Collectable, f.rule = r PROVE f \in new
      BY <3>3 DEF Collectable, Finding
    <3> QED BY <3>2, <3>3
  <2>3. pending' = { f \in Collectable : f.rule \notin todo' }
    <3> HIDE DEF new
    <3> QED BY <2>1, <2>2
  <2> QED BY <2>1, <2>3, InputsStable DEF CliInv, StageInv, inputs
<1>7. ASSUME NEW f \in pending, DropFinding(f) PROVE CliInv' /\ StageInv'
  <2>1. /\ UNCHANGED <<inputs, cli, pc, emitted>> /\ pc = "transform" /\ Checking
        /\ pending' = pending \ {f} /\ pending \subseteq Collectable /\ ~ Shown(f)
    BY <1>7 DEF DropFinding, Visit, StageInv, Shown
  <2>2. { g \in Collectable \ pending' : Shown(g) } = { g \in Collectable \ pending : Shown(g) }
    BY <2>1
  <2> QED BY <2>1, <2>2, InputsStable DEF CliInv, StageInv, inputs
<1>8. ASSUME NEW f \in pending, EmitFinding(f) PROVE CliInv' /\ StageInv'
  <2>1. /\ UNCHANGED <<inputs, cli, pc>> /\ pc = "transform" /\ Checking
        /\ pending' = pending \ {f} /\ pending \subseteq Collectable /\ Shown(f)
        /\ emitted' = emitted \cup {Reported(f)}
        /\ emitted = { Reported(g) : g \in { h \in Collectable \ pending : Shown(h) } }
    BY <1>8 DEF EmitFinding, Visit, StageInv, Shown, Reported
  <2>2. { h \in Collectable \ pending' : Shown(h) } =
          { h \in Collectable \ pending : Shown(h) } \cup {f}
    BY <2>1
  <2>3. emitted' = { Reported(g) : g \in { h \in Collectable \ pending' : Shown(h) } }
    BY <2>1, <2>2
  <2> QED BY <2>1, <2>3, InputsStable DEF CliInv, StageInv, inputs
<1>9. CASE ReportUnusedDirectives
  <2>1. /\ UNCHANGED <<inputs, cli>> /\ pc = "transform" /\ pending = {} /\ pc' = "checked"
        /\ Checking /\ (cli <=> session = "tsc")
        /\ emitted = { Reported(f) : f \in { g \in Collectable : Shown(g) } }
    BY <1>9 DEF ReportUnusedDirectives, StageInv, CliInv
  <2>2. emitted = Policy(file.directives)
    BY <2>1, PolicyIsShown
  <2>3. \A x \in emitted : x.rule # UnusedDirective
    BY <2>1, UnusedDirectiveIsNoRule DEF Reported, Collectable, Finding
  <2>4. \A x \in emitted' : x \in emitted \/ x.rule = UnusedDirective
    BY <1>9 DEF ReportUnusedDirectives
  <2>5. emitted \subseteq emitted'
    BY <1>9 DEF ReportUnusedDirectives
  <2>6. RuleDiagnostics' = Policy(file.directives)'
    BY <2>1, <2>2, <2>3, <2>4, <2>5, InputsStable DEF RuleDiagnostics
  <2> QED BY <2>1, <2>6 DEF CliInv, StageInv, inputs
<1>10. CASE ExitTsc
  <2>1. UNCHANGED <<inputs, emitted>> /\ pc = "checked" /\ pc' = "done" /\ cli' = FALSE
    BY <1>10 DEF ExitTsc
  <2>2. RuleDiagnostics' = Policy(file.directives)'
    BY <2>1, InputsStable DEF StageInv, RuleDiagnostics
  <2> QED BY <2>1, <2>2 DEF CliInv, StageInv, inputs
<1>11. CASE Publish
  <2>1. UNCHANGED <<inputs, emitted, cli>> /\ pc = "checked" /\ pc' = "done"
    BY <1>11 DEF Publish
  <2>2. RuleDiagnostics' = Policy(file.directives)'
    BY <2>1, InputsStable DEF StageInv, RuleDiagnostics
  <2> QED BY <2>1, <2>2 DEF CliInv, StageInv, inputs
<1>12. CASE UNCHANGED vars
  <2>1. UNCHANGED <<inputs, cli, pc, todo, pending, emitted>>
    BY <1>12 DEF vars, inputs
  <2>2. RuleDiagnostics' = RuleDiagnostics
    BY <2>1 DEF RuleDiagnostics
  <2> QED BY <2>1, <2>2, InputsStable DEF CliInv, StageInv, inputs
<1> QED BY <1>1, <1>2, <1>3, <1>4, <1>5, <1>6, <1>7, <1>8, <1>9, <1>10, <1>11, <1>12
        DEF Next

(***************************************************************************)
(* The invariant gives the promise: before the unused directives are       *)
(* reported only promised diagnostics are there, afterwards all of them.   *)
(***************************************************************************)
LEMMA InvImpliesPolicy == IInv => EmittedFollowsPolicy
<1> SUFFICES ASSUME TypeOK, CliInv, StageInv PROVE EmittedFollowsPolicy
  BY DEF IInv
<1>1. CASE pc \in {"idle", "collect"}
  BY <1>1 DEF StageInv, EmittedFollowsPolicy, RuleDiagnostics
<1>2. CASE pc = "transform"
  <2>1. Policy(file.directives) = { Reported(f) : f \in { g \in Collectable : Shown(g) } }
    BY <1>2, PolicyIsShown DEF StageInv, CliInv
  <2> QED BY <1>2, <2>1 DEF StageInv, EmittedFollowsPolicy, RuleDiagnostics
<1>3. CASE pc \in {"checked", "done"}
  BY <1>3 DEF StageInv, EmittedFollowsPolicy
<1> QED BY <1>1, <1>2, <1>3 DEF TypeOK

(***************************************************************************)
(* For every set of rules, file, configuration and visiting order, the     *)
(* diagnostics of a checked file are the promised ones                     *)
(* (internal/rulerunner/diagnostics.go:29).                                *)
(***************************************************************************)
THEOREM EmittedFollowsPolicyAlways == Spec => []EmittedFollowsPolicy
<1>1. Init => CliInv /\ StageInv
  BY InvInit
<1>2. CliInv /\ StageInv /\ TypeOK /\ TypeOK' /\ [Next]_vars => CliInv' /\ StageInv'
  BY InvNext DEF IInv
<1>3. TypeOK /\ CliInv /\ StageInv => EmittedFollowsPolicy
  BY InvImpliesPolicy DEF IInv
<1> QED BY <1>1, <1>2, <1>3, TypeCorrect, PTL DEF Spec

-----------------------------------------------------------------------------
(***************************************************************************)
(* A next-line directive concerns the line below it and the rules it names *)
(* and nothing else: elsewhere the policy does not see it, unless it holds *)
(* a skip-file pair.                                                       *)
(***************************************************************************)
LEMMA NextLineIsLocal ==
  ASSUME NEW D \in DirectiveLists, NEW d \in D, d.isNextLine, ~ HasSkipFile(d),
         NEW r, NEW line \in Nat, NEW default,
         ~ Names(d, r) \/ line # d.line + 1
  PROVE  PolicySeverity(D \ {d}, r, line, default) = PolicySeverity(D, r, line, default)
<1> DEFINE above(E)   == { e \in E : e.isNextLine /\ e.line = line - 1 /\ Names(e, r) }
           earlier(E) == { e \in E : ~ e.isNextLine /\ ~ HasSkipFile(e)
                                       /\ e.line <= line /\ Names(e, r) }
<1>1. Silenced(D \ {d}, r) <=> Silenced(D, r)
  BY DEF Silenced, HasSkipFile
<1>2. d.line \in Nat
  BY DEF DirectiveLists, Directive
<1>3. d \notin above(D) /\ d \notin earlier(D)
  BY <1>2
<1>4. above(D \ {d}) = above(D) /\ earlier(D \ {d}) = earlier(D)
  BY <1>3
<1>5. Governing(D \ {d}, r, line) = Governing(D, r, line)
  BY <1>4 DEF Governing
<1> DEFINE Given(G) == CHOOSE s \in Severity :
                        \E e \in G : \E i \in DOMAIN e.rules :
                          /\ Matches(e.rules[i], r) /\ e.rules[i].severity = s
                          /\ \A j \in 1 .. (i - 1) : ~ Matches(e.rules[j], r)
<1>6. \A E : PolicySeverity(E, r, line, default) =
              IF Silenced(E, r) THEN "off"
              ELSE IF Governing(E, r, line) = {} THEN default
              ELSE Given(Governing(E, r, line))
  BY DEF PolicySeverity
<1> HIDE DEF Given
<1> QED BY <1>1, <1>5, <1>6

(***************************************************************************)
(* The lines that the lookups of all collected findings mark as used.      *)
(***************************************************************************)
UsedBy(F) == UNION { MarkedUsed(directiveSet, f.rule, f.line) : f \in F }

(***************************************************************************)
(* A next-line directive that no lookup of a collected finding marks is    *)
(* not missed: what it could decide was never looked up, because the rule  *)
(* is off without it as well.                                              *)
(***************************************************************************)
LEMMA UnmarkedIsInert ==
  ASSUME TypeOK, NEW d \in file.directives, d.isNextLine, ~ HasSkipFile(d),
         d.line \notin UsedBy(Collectable)
  PROVE  Policy(file.directives \ {d}) = Policy(file.directives)
<1> DEFINE D == file.directives
           E == D \ {d}
           s(F, r, l) == PolicySeverity(F, r, l, ConfigSeverity(r))
<1>1. D \in DirectiveLists /\ E \in DirectiveLists /\ d.line \in Nat
  BY DEF TypeOK, File, DirectiveLists, Directive
<1>2. ASSUME NEW r \in Rule, NEW l \in file.finds[r]
      PROVE  s(E, r, l) = s(D, r, l) \/ (IsOff(s(E, r, l)) /\ IsOff(s(D, r, l)))
  <2>1. l \in Nat /\ ConfigSeverity(r) \in Severity
    BY ConfigSeverityType DEF TypeOK, File
  <2>2. CASE ~ Names(d, r) \/ l # d.line + 1
    BY <1>1, <2>1, <2>2, NextLineIsLocal
  <2>3. CASE Names(d, r) /\ l = d.line + 1
    <3> DEFINE f == [rule |-> r, line |-> l]
    <3>1. f \in Finding /\ f.rule = r /\ f.line = l
      BY <2>1 DEF Finding
    <3>2. d \in NextLineFor(directiveSet, r, l)
      BY <1>1, <2>3 DEF NextLineFor, directiveSet, BuildDirectiveSet, AffectedLine
    <3>3. f \notin Collectable
      <4>1. SUFFICES ASSUME f \in Collectable PROVE FALSE
        OBVIOUS
      <4>2. ~ IsSkipFile(directiveSet, r)
        BY <3>1, <4>1 DEF Collectable
      <4>3. d.line \in MarkedUsed(directiveSet, r, l)
        BY <3>2, <4>2 DEF MarkedUsed
      <4> QED BY <3>1, <4>1, <4>3 DEF UsedBy
    <3>4. DisabledRule(r) \/ IsSkipFile(directiveSet, r)
      BY <3>1, <3>3 DEF Collectable
    <3>5. CASE IsSkipFile(directiveSet, r)
      <4>1. Silenced(D, r)
        BY <1>1, <3>5, SkipFileIsSilenced DEF directiveSet
      <4>2. Silenced(E, r)
        BY <4>1 DEF Silenced, HasSkipFile
      <4>3. s(D, r, l) = "off" /\ s(E, r, l) = "off"
        BY <4>1, <4>2 DEF PolicySeverity
      <4> QED BY <4>3
    <3>6. CASE DisabledRule(r)
      <4>1. IsOff(ConfigSeverity(r)) /\ ~ HasEnablingDirective(BuildDirectiveSet(D), r)
        BY <3>6 DEF DisabledRule, directiveSet
      <4>2. ~ HasEnablingDirective(BuildDirectiveSet(E), r)
        BY <4>1 DEF HasEnablingDirective, BuildDirectiveSet
      <4>3. IsOff(s(D, r, l))
        BY <1>1, <2>1, <4>1, NothingEnablesMeansOff, LookupFollowsPolicy
      <4>4. IsOff(s(E, r, l))
        BY <1>1, <2>1, <4>1, <4>2, NothingEnablesMeansOff, LookupFollowsPolicy
      <4> QED BY <4>3, <4>4
    <3> QED BY <3>4, <3>5, <3>6
  <2> QED BY <2>2, <2>3
<1>3. ASSUME NEW x \in [rule : Rule, line : UNION { file.finds[r] : r \in Rule },
                        category : Category],
             x.line \in file.finds[x.rule]
      PROVE  /\ Wanted(E, x.rule, x.line) <=> Wanted(D, x.rule, x.line)
             /\ Wanted(D, x.rule, x.line) => s(E, x.rule, x.line) = s(D, x.rule, x.line)
  <2>1. x.rule \in Rule
    OBVIOUS
  <2> QED BY <1>2, <1>3, <2>1 DEF Wanted
<1> QED BY <1>3 DEF Policy

(***************************************************************************)
(* The second half of the inductive invariant: which directives have been  *)
(* marked as used when findings have been transformed, that a directive is *)
(* reported only if no finding at all has marked it, with the configured   *)
(* category, and that the exit status is read off what was emitted.        *)
(***************************************************************************)
UsedInv ==
  /\ pc \in {"idle", "collect"} => used = {}
  /\ pc = "transform" => pending \subseteq Collectable /\ used = UsedBy(Collectable \ pending)
  /\ pc \in {"idle", "collect", "transform"} => \A x \in emitted : x.rule # UnusedDirective
  /\ \A x \in emitted : x.rule = UnusedDirective =>
       /\ x.category = ToCategory(UnusedSeverity)
       /\ \E d \in file.directives :
            d.line = x.line /\ d.isNextLine /\ d.line \notin UsedBy(Collectable)

StatusInv ==
  status # "running" =>
    /\ pc = "done"
    /\ status = "success" <=>
         /\ ~ file.tscErrors
         /\ \A x \in emitted : ShouldIgnoreForExitCode(x.category)

(***************************************************************************)
(* What is computed from the inputs alone does not change (second half).   *)
(***************************************************************************)
LEMMA UsedInputsStable ==
  ASSUME UNCHANGED inputs
  PROVE  /\ \A F : UsedBy(F)' = UsedBy(F')
         /\ Collectable' = Collectable /\ UnusedSeverity' = UnusedSeverity
         /\ \A c : ShouldIgnoreForExitCode(c)' = ShouldIgnoreForExitCode(c)
BY DEF inputs, directiveSet, UsedBy, Collectable, DisabledRule, ConfigSeverity,
       UnusedSeverity, ShouldIgnoreForExitCode

(***************************************************************************)
(* Every step preserves the second half of the invariant.                  *)
(***************************************************************************)
LEMMA UsedNext == IInv /\ UsedInv /\ TypeOK' /\ [Next]_vars => UsedInv'
<1> SUFFICES ASSUME TypeOK, CliInv, StageInv, UsedInv, TypeOK', [Next]_vars
             PROVE  UsedInv'
  BY DEF IInv
<1>1. ASSUME UNCHANGED <<inputs, emitted, used>>,
             pc' \in {"idle", "collect"} => pc \in {"idle", "collect"},
             pc' = "transform" => pending' \subseteq Collectable /\ used = UsedBy(Collectable \ pending'),
             pc' \in {"idle", "collect", "transform"} => pc \in {"idle", "collect", "transform"}
      PROVE  UsedInv'
  <2>1. file' = file /\ emitted' = emitted /\ used' = used
    BY <1>1 DEF inputs
  <2>2. /\ Collectable' = Collectable /\ UnusedSeverity' = UnusedSeverity
        /\ UsedBy(Collectable)' = UsedBy(Collectable)
        /\ UsedBy(Collectable \ pending)' = UsedBy(Collectable \ pending')
    BY <1>1, UsedInputsStable DEF inputs, UsedBy, directiveSet, Collectable, DisabledRule,
         ConfigSeverity
  <2> QED BY <1>1, <2>1, <2>2 DEF UsedInv
<1>2. CASE EnterCommandLineMode
  BY <1>1, <1>2 DEF EnterCommandLineMode
<1>3. CASE RunReturnsNothing
  BY <1>1, <1>3 DEF RunReturnsNothing
<1>4. CASE RunStarts
  BY <1>1, <1>4 DEF RunStarts
<1>5. CASE Collected
  <2>1. pc = "collect" /\ pc' = "transform" /\ UNCHANGED <<inputs, pending, emitted, used>>
    BY <1>5 DEF Collected
  <2>2. used = {} /\ pending = Collectable
    BY <1>5, <2>1 DEF UsedInv, StageInv, Collected
  <2>3. used = UsedBy(Collectable \ pending')
    BY <2>1, <2>2 DEF UsedBy
  <2> QED BY <1>1, <2>1, <2>2, <2>3
<1>6. ASSUME NEW r \in Rule, SkipRule(r) \/ RunRule(r) PROVE UsedInv'
  BY <1>1, <1>6 DEF SkipRule, RunRule
<1>7. ASSUME NEW f \in pending, DropFinding(f) \/ EmitFinding(f) PROVE UsedInv'
  <2>1. /\ UNCHANGED <<inputs, pc>> /\ pc = "transform" /\ pending' = pending \ {f}
        /\ used' = used \cup MarkedUsed(directiveSet, f.rule, f.line)
        /\ f \in Collectable /\ f \in Finding
    BY <1>7 DEF DropFinding, EmitFinding, Visit, UsedInv, Collectable
  <2>2. pending' \subseteq Collectable /\ Collectable \ pending' = (Collectable \ pending) \cup {f}
    BY <2>1 DEF UsedInv
  <2>3. used' = UsedBy(Collectable \ pending')
    <3> DEFINE F == Collectable \ pending
               G == Collectable \ pending'
    <3>1. used = UsedBy(F) /\ G = F \cup {f}
      BY <2>1, <2>2 DEF UsedInv
    <3> HIDE DEF F, G
    <3>2. UsedBy(F \cup {f}) = UsedBy(F) \cup MarkedUsed(directiveSet, f.rule, f.line)
      BY DEF UsedBy
    <3> QED BY <2>1, <3>1, <3>2 DEF G
  <2>4. \A x \in emitted' : x.rule # UnusedDirective
    BY <1>7, <2>1, UnusedDirectiveIsNoRule DEF DropFinding, EmitFinding, UsedInv, Finding
  <2>5. UsedBy(Collectable \ pending)' = UsedBy(Collectable \ pending') /\ Collectable' = Collectable
    BY <2>1, UsedInputsStable
  <2> QED BY <2>1, <2>2, <2>3, <2>4, <2>5 DEF UsedInv
<1>8. CASE ReportUnusedDirectives
  <2>1. /\ UNCHANGED <<inputs, used>> /\ pc = "transform" /\ pending = {} /\ pc' = "checked"
        /\ file' = file
    BY <1>8 DEF ReportUnusedDirectives, inputs
  <2>2. used = UsedBy(Collectable) /\ \A x \in emitted : x.rule # UnusedDirective
    <3>1. Collectable \ pending = Collectable
      BY <2>1
    <3> QED BY <2>1, <3>1 DEF UsedInv
  <2>3. ASSUME NEW x \in emitted', x.rule = UnusedDirective
        PROVE  /\ x.category = ToCategory(UnusedSeverity)
               /\ \E d \in file.directives :
                    d.line = x.line /\ d.isNextLine /\ d.line \notin UsedBy(Collectable)
    <3>1. x \notin emitted
      BY <2>2, <2>3
    <3>2. PICK d \in GetUnusedNextLineDirectives(file.directives, used) :
            x = [rule |-> UnusedDirective, line |-> d.line,
                 category |-> ToCategory(UnusedSeverity)]
      BY <1>8, <3>1 DEF ReportUnusedDirectives
    <3> QED BY <2>2, <3>2 DEF GetUnusedNextLineDirectives
  <2>4. UnusedSeverity' = UnusedSeverity /\ UsedBy(Collectable)' = UsedBy(Collectable)
    BY <2>1, UsedInputsStable
  <2> QED BY <2>1, <2>3, <2>4 DEF UsedInv
<1>9. CASE ExitTsc
  BY <1>1, <1>9 DEF ExitTsc
<1>10. CASE Publish
  BY <1>1, <1>10 DEF Publish
<1>11. CASE UNCHANGED vars
  <2>1. /\ UNCHANGED <<inputs, emitted, used, pc>> /\ pending' = pending
    BY <1>11 DEF vars, inputs
  <2> QED BY <1>1, <2>1 DEF UsedInv
<1> QED BY <1>2, <1>3, <1>4, <1>5, <1>6, <1>7, <1>8, <1>9, <1>10, <1>11 DEF Next

(***************************************************************************)
(* Every step preserves what is known of the exit status.                  *)
(***************************************************************************)
LEMMA StatusNext == TypeOK /\ StatusInv /\ [Next]_vars => StatusInv'
<1> SUFFICES ASSUME TypeOK, StatusInv, [Next]_vars PROVE StatusInv'
  OBVIOUS
<1>1. CASE ExitTsc
  <2>1. /\ UNCHANGED <<inputs, emitted>> /\ pc' = "done" /\ file' = file /\ emitted' = emitted
        /\ status' = IF \/ file.tscErrors
                        \/ \E d \in emitted : ~ ShouldIgnoreForExitCode(d.category)
                     THEN "diagnosticsPresent" ELSE "success"
    BY <1>1 DEF ExitTsc, inputs
  <2>2. \A c : ShouldIgnoreForExitCode(c)' = ShouldIgnoreForExitCode(c)
    BY <2>1, UsedInputsStable
  <2>3. status' = "success" <=>
          ~ file.tscErrors /\ \A x \in emitted : ShouldIgnoreForExitCode(x.category)
    BY <2>1
  <2> QED BY <2>1, <2>2, <2>3 DEF StatusInv
<1>2. CASE Publish
  <2>1. UNCHANGED <<inputs, emitted, status>> /\ pc = "checked"
    BY <1>2 DEF Publish
  <2> QED BY <2>1 DEF StatusInv
<1>3. CASE UNCHANGED vars
  <2>1. UNCHANGED <<inputs, emitted, status, pc, options, file>>
    BY <1>3 DEF vars, inputs
  <2>2. \A c : ShouldIgnoreForExitCode(c)' = ShouldIgnoreForExitCode(c)
    BY <2>1, UsedInputsStable
  <2> QED BY <2>1, <2>2 DEF StatusInv
<1>4. ASSUME pc # "done", status' = status PROVE StatusInv'
  BY <1>4 DEF StatusInv
<1>5. ASSUME ~ ExitTsc, ~ Publish, Next PROVE pc # "done" /\ status' = status
  BY <1>5 DEF Next, EnterCommandLineMode, RunReturnsNothing, RunStarts, Collected, SkipRule,
       RunRule, DropFinding, EmitFinding, Visit, ReportUnusedDirectives
<1> QED BY <1>1, <1>2, <1>3, <1>4, <1>5

(***************************************************************************)
(* What is reported as having no effect can be deleted.                    *)
(***************************************************************************)
LEMMA InvImpliesInert == TypeOK /\ UsedInv => UnusedDirectivesAreInert
<1> SUFFICES ASSUME TypeOK, UsedInv, NEW d \in ReportedUnused, ~ HasSkipFile(d)
             PROVE  Policy(file.directives \ {d}) = Policy(file.directives)
  BY DEF UnusedDirectivesAreInert
<1>1. PICK x \in emitted : x.rule = UnusedDirective /\ x.line = d.line
  BY DEF ReportedUnused
<1>2. PICK e \in file.directives :
        e.line = x.line /\ e.isNextLine /\ e.line \notin UsedBy(Collectable)
  BY <1>1 DEF UsedInv
<1>3. d \in file.directives /\ e = d
  BY <1>1, <1>2 DEF ReportedUnused, TypeOK, File, DirectiveLists
<1> QED BY <1>2, <1>3, UnmarkedIsInert

(***************************************************************************)
(* The exit status, read off what was emitted, is that of what was         *)
(* promised and of the unused directives reported.                         *)
(***************************************************************************)
LEMMA InvImpliesStatus == IInv /\ UsedInv /\ StatusInv => ExitStatusFollowsPolicy
<1> SUFFICES ASSUME TypeOK, StageInv, UsedInv, StatusInv, status # "running"
             PROVE  status = "success" <=>
                      /\ ~ file.tscErrors
                      /\ \A x \in Policy(file.directives) : Tolerated(x.category)
                      /\ ReportedUnused # {} => Tolerated(ToCategory(UnusedSeverity))
  BY DEF IInv, ExitStatusFollowsPolicy
<1> DEFINE P == Policy(file.directives)
           U == { x \in emitted : x.rule = UnusedDirective }
<1>1. /\ pc = "done"
      /\ status = "success" <=>
           ~ file.tscErrors /\ \A x \in emitted : ShouldIgnoreForExitCode(x.category)
  BY DEF StatusInv
<1>2. { x \in emitted : x.rule # UnusedDirective } = P
  BY <1>1 DEF StageInv, RuleDiagnostics
<1>3. \A x \in U : x.category = ToCategory(UnusedSeverity)
  BY DEF UsedInv
<1>4. U # {} <=> ReportedUnused # {}
  <2>1. ASSUME NEW x \in U PROVE ReportedUnused # {}
    <3>1. PICK d \in file.directives : d.line = x.line
      BY DEF UsedInv
    <3>2. d \in ReportedUnused
      BY <3>1 DEF ReportedUnused
    <3> QED BY <3>2
  <2>2. ASSUME NEW d \in ReportedUnused PROVE U # {}
    BY DEF ReportedUnused
  <2> QED BY <2>1, <2>2
<1>5. ASSUME NEW c \in Category PROVE ShouldIgnoreForExitCode(c) <=> Tolerated(c)
  <2>1. options.ignoreInExitCode \subseteq {"suggestion", "warning", "error"}
    BY DEF TypeOK, Options
  <2> QED BY <2>1 DEF ShouldIgnoreForExitCode, Tolerated, Category
<1>6. \A x \in emitted : x.category \in Category
  BY DEF TypeOK, Diagnostic
<1>7. (\A x \in emitted : ShouldIgnoreForExitCode(x.category)) <=>
        (\A x \in P : Tolerated(x.category)) /\ (\A x \in U : Tolerated(x.category))
  <2> HIDE DEF P
  <2> QED BY <1>2, <1>5, <1>6
<1>8. (\A x \in U : Tolerated(x.category)) <=>
        (ReportedUnused # {} => Tolerated(ToCategory(UnusedSeverity)))
  <2> HIDE DEF U
  <2> QED BY <1>3, <1>4
<1> QED BY <1>1, <1>7, <1>8

(***************************************************************************)
(* For every set of rules, file, configuration and visiting order, a       *)
(* next-line directive that is reported as unused has no influence on the  *)
(* diagnostics of the file (internal/directives/parser.go:328).            *)
(***************************************************************************)
THEOREM UnusedDirectivesAreInertAlways == Spec => []UnusedDirectivesAreInert
<1>1. Init => CliInv /\ StageInv /\ UsedInv
  BY InvInit DEF Init, Idle, UsedInv
<1>2. CliInv /\ StageInv /\ UsedInv /\ TypeOK /\ TypeOK' /\ [Next]_vars
        => CliInv' /\ StageInv' /\ UsedInv'
  BY InvNext, UsedNext DEF IInv
<1> QED BY <1>1, <1>2, InvImpliesInert, TypeCorrect, PTL DEF Spec

(***************************************************************************)
(* For every file and configuration the exit status of tsc is the one that *)
(* the promised diagnostics call for (rulerunner/diagnostics.go:29, and    *)
(* the filter of the exit code).                                           *)
(***************************************************************************)
THEOREM ExitStatusFollowsPolicyAlways == Spec => []ExitStatusFollowsPolicy
<1>1. Init => CliInv /\ StageInv /\ UsedInv /\ StatusInv
  BY InvInit DEF Init, Idle, UsedInv, StatusInv
<1>2. CliInv /\ StageInv /\ UsedInv /\ StatusInv /\ TypeOK /\ TypeOK' /\ [Next]_vars
        => CliInv' /\ StageInv' /\ UsedInv' /\ StatusInv'
  BY InvNext, UsedNext, StatusNext DEF IInv
<1>3. TypeOK /\ CliInv /\ StageInv /\ UsedInv /\ StatusInv => ExitStatusFollowsPolicy
  BY InvImpliesStatus DEF IInv
<1> QED BY <1>1, <1>2, <1>3, TypeCorrect, PTL DEF Spec
=============================================================================
