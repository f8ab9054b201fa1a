------------------------ MODULE ConfigExtendsProofs -------------------------
(***************************************************************************)
(* Type correctness of the merging of extended configs, that overrides     *)
(* keep standing for the files they were written for, and that the last    *)
(* config in the order of the merges decides, for any configs in any       *)
(* directories extending each other in any way.                            *)
(***************************************************************************)
EXTENDS ConfigExtends, SequenceTheorems, FiniteSetTheorems, NaturalsInduction, TLAPS

(***************************************************************************)
(* A nonempty set of naturals has a least element: the only form of        *)
(* induction used here.                                                    *)
(***************************************************************************)
LEMMA LeastNatural ==
  ASSUME NEW S, S \subseteq Nat, S # {}
  PROVE  \E x \in S : \A y \in S : x <= y
<1> DEFINE R == OpToRel(<, Nat)
<1>1. IsWellFoundedOn(R, Nat)
  BY NatLessThanWellFounded
<1>2. \A x, y \in Nat : <<x, y>> \in R <=> x < y
  BY DEF OpToRel
<1>3. PICK x \in S : \A y \in S : ~ (<<y, x>> \in R)
  <2> HIDE DEF R
  <2> QED BY <1>1, WFMin, Zenon
<1>4. ASSUME NEW y \in S PROVE x <= y
  <2>1. x \in Nat /\ y \in Nat /\ ~ (y < x)
    BY <1>2, <1>3
  <2> QED BY <2>1
<1> QED BY <1>4

(***************************************************************************)
(* A nonempty set of naturals with an upper bound has a greatest element.  *)
(***************************************************************************)
LEMMA GreatestBounded ==
  ASSUME NEW S, S \subseteq Nat, S # {}, NEW b \in Nat, \A x \in S : x <= b
  PROVE  \E x \in S : \A y \in S : y <= x
<1> DEFINE D == { b - x : x \in S }
<1>1. D \subseteq Nat
  <2> SUFFICES ASSUME NEW x \in S PROVE b - x \in Nat
    OBVIOUS
  <2> x \in Nat /\ x <= b
    OBVIOUS
  <2> QED OBVIOUS
<1>2. D # {}
  OBVIOUS
<1>3. PICK m \in D : \A y \in D : m <= y
  <2> HIDE DEF D
  <2> QED BY <1>1, <1>2, LeastNatural
<1>4. PICK x \in S : m = b - x
  OBVIOUS
<1>5. ASSUME NEW y \in S PROVE y <= x
  <2>1. b - x <= b - y
    BY <1>3, <1>4
  <2>2. x \in Nat /\ y \in Nat
    OBVIOUS
  <2> QED BY <2>1, <2>2
<1> QED BY <1>5

-----------------------------------------------------------------------------
\* Every override among options read in directory d was declared somewhere,
\* for the same files.
Kept(options, d) ==
  options # Nil =>
    \A i \in DOMAIN options.overrides :
      \E c \in Config : DeclaredIn(options.overrides[i], d, c)

StackKept == \A j \in DOMAIN stack : Kept(stack[j].options, dir[stack[j].config])

\* The parse at the bottom is the root's.
RootFirst == stack # << >> => stack[1].config = Last

IInv == TypeOK /\ StackKept /\ RootFirst /\ OverridesKeepPlace

-----------------------------------------------------------------------------
(***************************************************************************)
(* Parsing, rewriting and merging give options.                            *)
(***************************************************************************)
LEMMA ParseType ==
  ASSUME NEW st \in Stanza \cup {NoStanza}
  PROVE  /\ ParseFromPlugins(st) \in Options \cup {Nil}
         /\ ParseFromPlugins(st) = Nil <=> st = NoStanza \/ st.severity = Null
<1>1. CASE st = NoStanza  BY <1>1 DEF ParseFromPlugins
<1>2. CASE st # NoStanza
  <2>1. st \in Stanza
    BY <1>2
  <2>2. CASE st.severity = Null  BY <1>2, <2>2 DEF ParseFromPlugins
  <2>3. CASE st.severity # Null
    <3>1. [k \in Key |-> IF st.option[k] = Unset THEN Default[k] ELSE st.option[k]]
            \in [Key -> Value]
      BY <2>1, DefaultType DEF Stanza
    <3>2. (IF st.severity = Unset THEN [r \in Rule |-> Unset] ELSE st.severity) \in Severities
      BY <2>1, <2>3 DEF Stanza, Severities
    <3>3. (IF st.overrides = Unset THEN << >> ELSE st.overrides) \in Seq(Override)
      BY <2>1 DEF Stanza
    <3>4. ParseFromPlugins(st) \in Options
      BY <1>2, <2>3, <3>1, <3>2, <3>3 DEF ParseFromPlugins, Options
    <3> QED BY <1>2, <2>3, <3>4, NilIsNone
  <2> QED BY <2>2, <2>3
<1> QED BY <1>1, <1>2

LEMMA RewriteSpecsType ==
  ASSUME NEW S \in SUBSET FileSpec, NEW n \in Int
  PROVE  RewriteSpecs(S, n) \in SUBSET FileSpec
BY DEF RewriteSpecs, FileSpec

LEMMA RewriteOverrideType ==
  ASSUME NEW o \in Override, NEW n \in Int
  PROVE  RewriteOverride(o, n) \in Override
BY RewriteSpecsType DEF RewriteOverride, Override

LEMMA RewriteType ==
  ASSUME NEW options \in Options, NEW n \in Int
  PROVE  /\ RewriteOptionsOverrides(options, n) \in Options
         /\ DOMAIN RewriteOptionsOverrides(options, n).overrides = DOMAIN options.overrides
         /\ \A i \in DOMAIN options.overrides :
              RewriteOptionsOverrides(options, n).overrides[i] =
                RewriteOverride(options.overrides[i], n)
<1> DEFINE os == options.overrides
           rs == [i \in DOMAIN os |-> RewriteOverride(os[i], n)]
<1>1. os \in Seq(Override) /\ options.option \in [Key -> Value] /\ options.severity \in Severities
  BY DEF Options
<1>2. \A i \in DOMAIN os : rs[i] \in Override
  BY <1>1, RewriteOverrideType
<1>3. rs \in Seq(Override)
  <2>1. DOMAIN os = 1 .. Len(os) /\ Len(os) \in Nat
    BY <1>1, LenProperties
  <2>2. rs \in [1 .. Len(os) -> Override]
    BY <1>2, <2>1
  <2> QED BY <2>1, <2>2, SeqDef
<1> QED BY <1>1, <1>3 DEF RewriteOptionsOverrides, Options

LEMMA MergeOptionsType ==
  ASSUME NEW target \in Options, NEW source \in Options, NEW raw \in Stanza
  PROVE  MergeOptions(target, source, raw) \in Options
<1>1. [k \in Key |-> IF raw.option[k] = Unset THEN target.option[k] ELSE source.option[k]]
        \in [Key -> Value]
  BY DEF Options
<1>2. (IF raw.severity = Unset THEN target.severity
       ELSE MergeSeverityMaps(target.severity, source.severity)) \in Severities
  BY DEF Options, Severities, MergeSeverityMaps
<1>3. (IF raw.overrides = Unset THEN target.overrides
       ELSE target.overrides \o source.overrides) \in Seq(Override)
  BY DEF Options
<1> QED BY <1>1, <1>2, <1>3 DEF MergeOptions, Options

LEMMA MergeType ==
  ASSUME NEW target \in Options \cup {Nil}, NEW source \in Options \cup {Nil},
         NEW raw \in Stanza \cup {NoStanza}, NEW n \in Int
  PROVE  MergeEffectCompilerOptions(target, source, raw, n) \in Options \cup {Nil}
<1>1. CASE source = Nil  BY <1>1 DEF MergeEffectCompilerOptions
<1>2. CASE source # Nil
  <2>1. RewriteOptionsOverrides(source, n) \in Options
    BY <1>2, RewriteType
  <2>2. CASE raw = NoStanza \/ target = Nil
    BY <1>2, <2>1, <2>2 DEF MergeEffectCompilerOptions
  <2>3. CASE raw # NoStanza /\ target # Nil
    BY <1>2, <2>1, <2>3, MergeOptionsType DEF MergeEffectCompilerOptions
  <2> QED BY <2>2, <2>3
<1> QED BY <1>1, <1>2

-----------------------------------------------------------------------------
(***************************************************************************)
(* Parsing declares overrides; rewriting and merging keep their places.    *)
(***************************************************************************)
LEMMA SpecKeepsPlace ==
  ASSUME NEW s \in FileSpec, NEW d \in Int, NEW e \in Int
  PROVE  Place([fixed |-> s.fixed, at |-> IF s.fixed THEN s.at ELSE (d - e) + s.at], e)
           = Place(s, d)
BY DEF Place, FileSpec

LEMMA SpecsKeepPlaces ==
  ASSUME NEW S \in SUBSET FileSpec, NEW d \in Int, NEW e \in Int
  PROVE  SamePlaces(S, d, RewriteSpecs(S, d - e), e)
<1> DEFINE moved(s) == [fixed |-> s.fixed, at |-> IF s.fixed THEN s.at ELSE (d - e) + s.at]
<1>1. \A s \in S : Place(moved(s), e) = Place(s, d)
  BY SpecKeepsPlace
<1>2. RewriteSpecs(S, d - e) = { moved(s) : s \in S }
  BY DEF RewriteSpecs
<1> HIDE DEF moved
<1>3. { Place(t, e) : t \in RewriteSpecs(S, d - e) } = { Place(s, d) : s \in S }
  BY <1>1, <1>2
<1> QED BY <1>3 DEF SamePlaces

LEMMA ParseKept ==
  ASSUME TypeOK, NEW c \in Config
  PROVE  Kept(ParseFromPlugins(stanza[c]), dir[c])
<1> DEFINE o == ParseFromPlugins(stanza[c])
<1>1. CASE o = Nil  BY <1>1 DEF Kept
<1>2. CASE o # Nil
  <2>1. Usable(c) /\ Scopes(c) = o.overrides
    BY <1>2 DEF Usable, Scopes, Says, ParseFromPlugins
  <2>2. \A i \in DOMAIN o.overrides : DeclaredIn(o.overrides[i], dir[c], c)
    BY <2>1 DEF DeclaredIn, SamePlaces
  <2> QED BY <2>2 DEF Kept
<1> QED BY <1>1, <1>2

LEMMA RewriteKept ==
  ASSUME NEW options \in Options, NEW d \in Int, NEW e \in Int, Kept(options, d)
  PROVE  Kept(RewriteOptionsOverrides(options, d - e), e)
<1> DEFINE rewritten == RewriteOptionsOverrides(options, d - e)
<1>1. SUFFICES ASSUME NEW i \in DOMAIN rewritten.overrides
               PROVE  \E c \in Config : DeclaredIn(rewritten.overrides[i], e, c)
  BY DEF Kept
<1>2. /\ i \in DOMAIN options.overrides /\ options.overrides[i] \in Override
      /\ rewritten.overrides[i] = RewriteOverride(options.overrides[i], d - e)
  BY RewriteType DEF Options
<1>3. PICK c \in Config : DeclaredIn(options.overrides[i], d, c)
  BY <1>2, NilIsNone DEF Kept
<1>4. DeclaredIn(rewritten.overrides[i], e, c)
  <2>1. PICK o \in Override : o = options.overrides[i]
    BY <1>2
  <2>2. PICK n : n = rewritten.overrides[i]
    OBVIOUS
  <2> HIDE DEF rewritten
  <2>3. /\ n.severity = o.severity
        /\ n.include = RewriteSpecs(o.include, d - e)
        /\ n.exclude = RewriteSpecs(o.exclude, d - e)
    BY <1>2, <2>1, <2>2 DEF RewriteOverride
  <2>4. o.include \in SUBSET FileSpec /\ o.exclude \in SUBSET FileSpec
    BY <2>1 DEF Override
  <2>5. /\ SamePlaces(o.include, d, n.include, e)
        /\ SamePlaces(o.exclude, d, n.exclude, e)
    BY <2>3, <2>4, SpecsKeepPlaces
  <2>6. DeclaredIn(o, d, c)
    BY <1>3, <2>1
  <2>7. DeclaredIn(n, e, c)
    BY <2>3, <2>5, <2>6 DEF DeclaredIn, SamePlaces
  <2> QED BY <2>2, <2>7
<1> QED BY <1>4

LEMMA ConcatElement ==
  ASSUME NEW s \in Seq(Override), NEW t \in Seq(Override), NEW i \in DOMAIN (s \o t)
  PROVE  \/ i \in DOMAIN s /\ (s \o t)[i] = s[i]
         \/ \E j \in DOMAIN t : (s \o t)[i] = t[j]
<1>1. /\ s \o t \in Seq(Override) /\ Len(s \o t) = Len(s) + Len(t)
      /\ \A k \in 1 .. Len(s) + Len(t) :
           (s \o t)[k] = IF k <= Len(s) THEN s[k] ELSE t[k - Len(s)]
  BY ConcatProperties
<1>2. /\ DOMAIN s = 1 .. Len(s) /\ Len(s) \in Nat
      /\ DOMAIN t = 1 .. Len(t) /\ Len(t) \in Nat
  BY LenProperties
<1>3. DOMAIN (s \o t) = 1 .. Len(s \o t)
  BY <1>1, LenProperties
<1> DEFINE m == Len(s)
           n == Len(t)
<1>4. i \in 1 .. m + n /\ m \in Nat /\ n \in Nat
  BY <1>1, <1>2, <1>3
<1>5. CASE i <= m
  <2>1. i \in DOMAIN s
    BY <1>2, <1>4, <1>5
  <2> QED BY <1>1, <1>4, <1>5, <2>1
<1>6. CASE ~ (i <= m)
  <2> HIDE DEF m, n
  <2>1. i - m \in 1 .. n
    BY <1>4, <1>6
  <2> USE DEF m, n
  <2>2. (s \o t)[i] = t[i - m]
    BY <1>1, <1>4, <1>6
  <2>3. i - m \in DOMAIN t
    BY <1>2, <2>1
  <2> QED BY <2>2, <2>3
<1> QED BY <1>5, <1>6

LEMMA MergeKept ==
  ASSUME NEW target \in Options \cup {Nil}, NEW source \in Options \cup {Nil},
         NEW raw \in Stanza \cup {NoStanza}, NEW d \in Int, NEW e \in Int,
         Kept(target, e), Kept(source, d)
  PROVE  Kept(MergeEffectCompilerOptions(target, source, raw, d - e), e)
<1> DEFINE rewritten == RewriteOptionsOverrides(source, d - e)
<1>1. CASE source = Nil  BY <1>1 DEF MergeEffectCompilerOptions
<1>2. CASE source # Nil /\ (raw = NoStanza \/ target = Nil)
  BY <1>2, RewriteKept DEF MergeEffectCompilerOptions
<1>3. CASE source # Nil /\ raw # NoStanza /\ target # Nil
  <2>1. rewritten \in Options /\ Kept(rewritten, e)
    BY <1>3, RewriteKept, RewriteType
  <2>2. /\ target.overrides \in Seq(Override) /\ rewritten.overrides \in Seq(Override)
        /\ \A i \in DOMAIN target.overrides : \E c \in Config : DeclaredIn(target.overrides[i], e, c)
        /\ \A i \in DOMAIN rewritten.overrides :
             \E c \in Config : DeclaredIn(rewritten.overrides[i], e, c)
    BY <1>3, <2>1, NilIsNone DEF Kept, Options
  <2> DEFINE merged == MergeOptions(target, rewritten, raw)
  <2>3. \/ merged.overrides = target.overrides
        \/ merged.overrides = target.overrides \o rewritten.overrides
    BY DEF MergeOptions
  <2> HIDE DEF merged, rewritten
  <2>4. ASSUME NEW i \in DOMAIN merged.overrides
        PROVE  \E c \in Config : DeclaredIn(merged.overrides[i], e, c)
    <3>1. CASE merged.overrides = target.overrides  BY <2>2, <3>1
    <3>2. CASE merged.overrides = target.overrides \o rewritten.overrides
      <4>1. \/ i \in DOMAIN target.overrides /\ merged.overrides[i] = target.overrides[i]
            \/ \E j \in DOMAIN rewritten.overrides : merged.overrides[i] = rewritten.overrides[j]
        <5>1. i \in DOMAIN (target.overrides \o rewritten.overrides)
          BY <3>2
        <5>2. \/ /\ i \in DOMAIN target.overrides
                 /\ (target.overrides \o rewritten.overrides)[i] = target.overrides[i]
              \/ \E j \in DOMAIN rewritten.overrides :
                   (target.overrides \o rewritten.overrides)[i] = rewritten.overrides[j]
          BY <2>2, <5>1, ConcatElement
        <5> QED BY <3>2, <5>2
      <4> QED BY <2>2, <4>1
    <3> QED BY <2>3, <3>1, <3>2
  <2>5. MergeEffectCompilerOptions(target, source, raw, d - e) = merged
    BY <1>3 DEF MergeEffectCompilerOptions, merged, rewritten
  <2> QED BY <2>4, <2>5 DEF Kept
<1> QED BY <1>1, <1>2, <1>3

-----------------------------------------------------------------------------
(***************************************************************************)
(* The frame on top of the stack, and the options it comes to.             *)
(***************************************************************************)
LEMMA TopType ==
  ASSUME TypeOK, Len(stack) >= 1
  PROVE  /\ Len(stack) \in Nat /\ Len(stack) \in DOMAIN stack
         /\ Top \in Frame /\ Top.config \in Config
         /\ dir[Top.config] \in Int /\ stanza[Top.config] \in Stanza \cup {NoStanza}
         /\ Merged \in Options \cup {Nil}
<1>1. Len(stack) \in Nat /\ DOMAIN stack = 1 .. Len(stack) /\ stack \in [1 .. Len(stack) -> Frame]
  BY LenProperties DEF TypeOK
<1>2. Top \in Frame /\ Len(stack) \in DOMAIN stack
  BY <1>1 DEF Top
<1>3. /\ Top.config \in Config /\ Top.options \in Options \cup {Nil}
  BY <1>2 DEF Frame
<1>4. dir[Top.config] \in Int /\ stanza[Top.config] \in Stanza \cup {NoStanza}
  BY <1>3 DEF TypeOK
<1>5. Merged \in Options \cup {Nil}
  <2>1. PICK st \in Stanza \cup {NoStanza} : st = stanza[Top.config]
    BY <1>4
  <2>2. ParseFromPlugins(st) \in Options \cup {Nil} /\ 0 \in Int
    BY ParseType
  <2>3. MergeEffectCompilerOptions(Top.options, ParseFromPlugins(st), st, 0) \in Options \cup {Nil}
    BY <1>3, <2>2, MergeType
  <2> QED BY <2>1, <2>3 DEF Merged
<1> QED BY <1>1, <1>2, <1>3, <1>4, <1>5

LEMMA EmptyOrNot ==
  ASSUME TypeOK
  PROVE  stack # << >> => Len(stack) >= 1
BY EmptySeq, LenProperties DEF TypeOK

LEMMA ExtendedType ==
  ASSUME TypeOK, Len(stack) >= 1, Top.next <= Len(extends[Top.config])
  PROVE  extends[Top.config][Top.next] \in Config
<1>1. Top.config \in Config /\ Top.next \in Nat \ {0}
  BY TopType DEF Frame
<1>2. PICK e \in Seq(Config) : e = extends[Top.config]
  BY <1>1 DEF TypeOK
<1>3. Top.next \in DOMAIN e
  BY <1>1, <1>2, LenProperties
<1> QED BY <1>2, <1>3, LenProperties

LEMMA ParseFrame ==
  ASSUME TypeOK, NEW c \in Config
  PROVE  /\ Parse(c) \in Seq(Frame)
         /\ \A j \in DOMAIN Parse(c) :
              \/ j \in DOMAIN stack /\ Parse(c)[j] = stack[j]
              \/ Parse(c)[j].options = Nil
<1> DEFINE f == [config |-> c, next |-> 1, options |-> Nil]
<1>1. f \in Frame /\ f.options = Nil
  BY DEF Frame
<1> HIDE DEF f
<1>2. /\ Append(stack, f) \in Seq(Frame) /\ Len(Append(stack, f)) = Len(stack) + 1
      /\ \A i \in 1 .. Len(stack) : Append(stack, f)[i] = stack[i]
      /\ Append(stack, f)[Len(stack) + 1] = f
  BY <1>1, AppendProperties DEF TypeOK
<1>3. /\ DOMAIN stack = 1 .. Len(stack) /\ Len(stack) \in Nat
      /\ DOMAIN Append(stack, f) = 1 .. Len(Append(stack, f))
  BY <1>2, LenProperties DEF TypeOK
<1>4. Parse(c) = Append(stack, f)
  BY DEF Parse, f
<1> QED BY <1>1, <1>2, <1>3, <1>4

\* What MergeExtended leaves on the stack.
LEMMA MergedFrame ==
  ASSUME TypeOK, MergeExtended
  PROVE  LET n == Len(stack) - 1
             f == stack[n]
         IN  /\ n \in DOMAIN stack /\ f \in Frame
             /\ stack' \in Seq(Frame) /\ DOMAIN stack' = 1 .. n
             /\ \A j \in 1 .. n - 1 : j \in DOMAIN stack /\ stack'[j] = stack[j]
             /\ stack'[n].config = f.config /\ stack'[n].next = f.next + 1
             /\ stack'[n].options =
                  MergeEffectCompilerOptions(f.options, Merged, stanza[Top.config],
                                             dir[Top.config] - dir[f.config])
<1> DEFINE n == Len(stack) - 1
           f == stack[n]
           o == MergeEffectCompilerOptions(f.options, Merged, stanza[Top.config],
                                           dir[Top.config] - dir[f.config])
           g == [config |-> f.config, next |-> f.next + 1, options |-> o]
           s == SubSeq(stack, 1, n)
<1>1. /\ Len(stack) \in Nat /\ Len(stack) > 1 /\ DOMAIN stack = 1 .. Len(stack)
      /\ stack \in [1 .. Len(stack) -> Frame]
  BY LenProperties DEF TypeOK, MergeExtended
<1>2. n \in Nat \ {0} /\ n \in DOMAIN stack /\ f \in Frame
  BY <1>1
<1>3. f.config \in Config /\ f.next \in Nat \ {0} /\ f.options \in Options \cup {Nil}
  BY <1>2 DEF Frame
<1>4. dir[Top.config] - dir[f.config] \in Int
  BY <1>1, <1>3, TopType DEF TypeOK
<1>5. o \in Options \cup {Nil}
  <2>1. Merged \in Options \cup {Nil} /\ stanza[Top.config] \in Stanza \cup {NoStanza}
    BY <1>1, TopType
  <2> QED BY <1>3, <1>4, <2>1, MergeType
<1>6. stack' = [s EXCEPT ![n] = g]
  BY DEF MergeExtended
<1> HIDE DEF o
<1>7. g \in Frame
  BY <1>3, <1>5 DEF Frame
<1>8. \A i \in 1 .. n : stack[i] \in Frame
  BY <1>1, <1>2
<1> HIDE DEF f, n
<1>9. /\ s \in Seq(Frame) /\ Len(s) = n
      /\ \A i \in 1 .. n : s[i] = stack[i]
  BY <1>2, <1>8, SubSeqProperties
<1>10. DOMAIN s = 1 .. n /\ s \in [1 .. n -> Frame]
  BY <1>9, LenProperties
<1> HIDE DEF s, g
<1>11. stack' \in [1 .. n -> Frame] /\ stack'[n] = g
  BY <1>2, <1>6, <1>7, <1>10
<1>12. stack' \in Seq(Frame)
  BY <1>2, <1>11, SeqDef
<1>13. \A j \in 1 .. n - 1 : j \in DOMAIN stack /\ stack'[j] = stack[j]
  <2>1. TAKE j \in 1 .. n - 1
  <2>2. j \in 1 .. n /\ j # n
    BY <1>2, <2>1
  <2>3. stack'[j] = stack[j]
    BY <1>6, <1>9, <1>10, <2>2
  <2>4. j \in DOMAIN stack
    <3>1. PICK m \in Nat : m = Len(stack)
      BY <1>1
    <3>2. j \in 1 .. m
      BY <2>2, <3>1 DEF n
    <3> QED BY <1>1, <3>1, <3>2
  <2> QED BY <2>3, <2>4
<1>14. stack'[n].config = f.config /\ stack'[n].next = f.next + 1 /\ stack'[n].options = o
  BY <1>11 DEF g
<1> QED BY <1>2, <1>11, <1>12, <1>13, <1>14 DEF f, n, o

-----------------------------------------------------------------------------
(***************************************************************************)
(* Whatever the configs say and however they extend each other, parses in  *)
(* progress and the root's options are well formed (hooks.go:20).          *)
(***************************************************************************)
THEOREM TypeCorrect == Spec => []TypeOK
<1>1. Init => TypeOK
  BY EmptySeq DEF Init, Start, TypeOK
<1>2. TypeOK /\ [Next]_vars => TypeOK'
  <2>1. SUFFICES ASSUME TypeOK, [Next]_vars PROVE TypeOK'
    OBVIOUS
  <2>2. CASE Begin
    <3>1. Last \in Config
      BY LastType DEF Config
    <3> QED BY <2>1, <2>2, <3>1, ParseFrame DEF Begin, TypeOK, inputs
  <2>3. CASE ParseExtended
    <3>1. extends[Top.config][Top.next] \in Config
      BY <2>1, <2>3, EmptyOrNot, ExtendedType DEF ParseExtended
    <3> QED BY <2>1, <2>3, <3>1, ParseFrame DEF ParseExtended, TypeOK, inputs
  <2>4. CASE MergeExtended
    <3>1. stack' \in Seq(Frame)
      BY <2>1, <2>4, MergedFrame
    <3> QED BY <2>1, <2>4, <3>1 DEF MergeExtended, TypeOK, inputs
  <2>5. CASE Finish
    <3>1. Merged \in Options \cup {Nil}
      BY <2>1, <2>5, TopType DEF Finish
    <3> QED BY <2>1, <2>5, <3>1, EmptySeq DEF Finish, TypeOK, inputs
  <2>6. CASE UNCHANGED vars
    BY <2>1, <2>6 DEF vars, TypeOK
  <2> QED BY <2>1, <2>2, <2>3, <2>4, <2>5, <2>6 DEF Next
<1> QED BY <1>1, <1>2, PTL DEF Spec

-----------------------------------------------------------------------------
(***************************************************************************)
(* The configs do not change, so a kept override stays kept.               *)
(***************************************************************************)
LEMMA DeclarationsStay ==
  ASSUME UNCHANGED inputs
  PROVE  \A o, d, c : DeclaredIn(o, d, c)' <=> DeclaredIn(o, d, c)
<1>1. stanza' = stanza /\ dir' = dir
  BY DEF inputs
<1>2. ASSUME NEW c PROVE Scopes(c)' = Scopes(c)
  BY <1>1 DEF Scopes, Says, Usable
<1>3. ASSUME NEW o, NEW d, NEW c PROVE DeclaredIn(o, d, c)' <=> DeclaredIn(o, d, c)
  <2>1. Scopes(c)' = Scopes(c)
    BY <1>2
  <2> QED BY <1>1, <2>1 DEF DeclaredIn
<1> QED BY <1>3

LEMMA StackStaysKept ==
  ASSUME UNCHANGED inputs, NEW s, stack' = s,
         \A j \in DOMAIN s : Kept(s[j].options, dir[s[j].config])
  PROVE  StackKept'
BY DeclarationsStay DEF StackKept, Kept, inputs

LEMMA ResultStaysKept ==
  ASSUME UNCHANGED inputs, NEW o, result' = o, Kept(o, dir[Last])
  PROVE  OverridesKeepPlace'
BY DeclarationsStay DEF OverridesKeepPlace, Kept, inputs

LEMMA MergedKept ==
  ASSUME TypeOK, StackKept, Len(stack) >= 1
  PROVE  Kept(Merged, dir[Top.config])
<1>1. /\ Top.config \in Config /\ Top.options \in Options \cup {Nil}
      /\ Len(stack) \in DOMAIN stack
  BY TopType DEF Frame
<1>2. Kept(Top.options, dir[Top.config])
  BY <1>1 DEF StackKept, Top
<1>3. PICK c \in Config : c = Top.config
  BY <1>1
<1>4. PICK d \in Int : d = dir[c]
  BY <1>3 DEF TypeOK
<1>5. PICK st \in Stanza \cup {NoStanza} : st = stanza[c]
  BY <1>3 DEF TypeOK
<1>6. PICK o \in Options \cup {Nil} : o = ParseFromPlugins(st)
  BY ParseType
<1>7. Kept(o, d) /\ Kept(Top.options, d)
  BY <1>2, <1>3, <1>4, <1>5, <1>6, ParseKept
<1>8. Kept(MergeEffectCompilerOptions(Top.options, o, st, d - d), d)
  BY <1>1, <1>7, MergeKept
<1>9. d - d = 0
  BY <1>4
<1> QED BY <1>3, <1>4, <1>5, <1>6, <1>8, <1>9 DEF Merged

LEMMA RootStaysFirst ==
  ASSUME TypeOK, RootFirst, [Next]_vars
  PROVE  RootFirst'
<1>1. /\ DOMAIN stack = 1 .. Len(stack) /\ Len(stack) \in Nat
  BY LenProperties DEF TypeOK
<1>2. CASE Begin
  <2>1. stack' = << [config |-> Last, next |-> 1, options |-> Nil] >>
    BY <1>2 DEF Begin, Parse
  <2> QED BY <2>1 DEF RootFirst
<1>3. CASE ParseExtended
  <2>1. PICK c \in Config : stack' = Parse(c)
    BY <1>3, EmptyOrNot, ExtendedType DEF ParseExtended
  <2>2. /\ Parse(c) = Append(stack, [config |-> c, next |-> 1, options |-> Nil])
        /\ [config |-> c, next |-> 1, options |-> Nil] \in Frame
    BY DEF Parse, Frame
  <2>3. Len(stack) >= 1
    BY <1>3, EmptyOrNot DEF ParseExtended
  <2>4. 1 \in 1 .. Len(stack)
    BY <1>1, <2>3
  <2>5. Parse(c)[1] = stack[1]
    BY <2>2, <2>4, AppendProperties DEF TypeOK
  <2> QED BY <1>3, <2>1, <2>5 DEF RootFirst, ParseExtended
<1>4. CASE MergeExtended
  <2> DEFINE n == Len(stack) - 1
  <2>1. n \in Nat \ {0}
    BY <1>1, <1>4 DEF MergeExtended
  <2>2. stack'[1].config = stack[1].config
    <3>1. /\ \A j \in 1 .. n - 1 : stack'[j] = stack[j]
          /\ stack'[n].config = stack[n].config
      BY <1>4, MergedFrame
    <3>2. CASE n = 1  BY <3>1, <3>2
    <3> HIDE DEF n
    <3>3. CASE n # 1
      <4>1. 1 \in 1 .. n - 1
        BY <2>1, <3>3
      <4> QED BY <3>1, <4>1
    <3> QED BY <3>2, <3>3
  <2>3. stack # << >>
    BY <1>4, EmptySeq DEF MergeExtended
  <2> QED BY <2>2, <2>3 DEF RootFirst
<1>5. CASE Finish
  BY <1>5 DEF Finish, RootFirst
<1>6. CASE UNCHANGED vars
  BY <1>6 DEF vars, RootFirst
<1> QED BY <1>2, <1>3, <1>4, <1>5, <1>6 DEF Next

LEMMA KeptInit == Init => StackKept /\ RootFirst /\ OverridesKeepPlace
BY DEF Init, Start, StackKept, RootFirst, OverridesKeepPlace

LEMMA KeptNext ==
  ASSUME TypeOK, StackKept, RootFirst, OverridesKeepPlace, [Next]_vars
  PROVE  StackKept' /\ OverridesKeepPlace'
<1>1. Kept(result, dir[Last])
  BY DEF OverridesKeepPlace, Kept
<1>2. ASSUME NEW c \in Config, UNCHANGED inputs, stack' = Parse(c)
      PROVE  StackKept'
  <2>1. \A j \in DOMAIN Parse(c) : Kept(Parse(c)[j].options, dir[Parse(c)[j].config])
    BY ParseFrame DEF StackKept, Kept
  <2> QED BY <1>2, <2>1, StackStaysKept
<1>3. CASE Begin
  <2>1. Last \in Config
    BY LastType DEF Config
  <2> QED BY <1>1, <1>2, <1>3, <2>1, ResultStaysKept DEF Begin
<1>4. CASE ParseExtended
  <2>1. extends[Top.config][Top.next] \in Config
    BY <1>4, EmptyOrNot, ExtendedType DEF ParseExtended
  <2> QED BY <1>1, <1>2, <1>4, <2>1, ResultStaysKept DEF ParseExtended
<1>5. CASE MergeExtended
  <2> DEFINE n == Len(stack) - 1
             f == stack[n]
             target == f.options
             m == MergeEffectCompilerOptions(target, Merged, stanza[Top.config],
                                             dir[Top.config] - dir[f.config])
  <2>1. Len(stack) >= 1 /\ Len(stack) \in Nat
    BY <1>5, TopType, LenProperties DEF MergeExtended, TypeOK
  <2>2. /\ n \in DOMAIN stack /\ f \in Frame /\ DOMAIN stack' = 1 .. n
        /\ \A j \in 1 .. n - 1 : j \in DOMAIN stack /\ stack'[j] = stack[j]
        /\ stack'[n].config = f.config /\ stack'[n].options = m
    BY <1>5, MergedFrame
  <2>3. /\ f.config \in Config /\ target \in Options \cup {Nil}
        /\ Kept(target, dir[f.config])
    BY <2>2 DEF Frame, StackKept
  <2>4. /\ dir[f.config] \in Int /\ dir[Top.config] \in Int
        /\ stanza[Top.config] \in Stanza \cup {NoStanza}
        /\ Merged \in Options \cup {Nil} /\ Kept(Merged, dir[Top.config])
    BY <2>1, <2>3, TopType, MergedKept DEF TypeOK
  <2> HIDE DEF target
  <2>5. Kept(m, dir[f.config])
    BY <2>3, <2>4, MergeKept
  <2> HIDE DEF m, f, n
  <2>6. PICK s : s = stack'
    OBVIOUS
  <2>7. ASSUME NEW j \in DOMAIN s
        PROVE  Kept(s[j].options, dir[s[j].config])
    <3>1. CASE j = n  BY <2>2, <2>5, <2>6, <3>1
    <3>2. CASE j # n
      <4>1. n \in Int
        BY <2>1 DEF n
      <4>2. j \in 1 .. n - 1
        BY <2>2, <2>6, <3>2, <4>1
      <4> QED BY <2>2, <2>6, <4>2 DEF StackKept
    <3> QED BY <3>1, <3>2
  <2>8. StackKept'
    BY <1>5, <2>6, <2>7, StackStaysKept DEF MergeExtended
  <2> QED BY <1>1, <1>5, <2>8, ResultStaysKept DEF MergeExtended
<1>6. CASE Finish
  <2>1. Len(stack) = 1
    BY <1>6 DEF Finish
  <2>2. Kept(Merged, dir[Top.config]) /\ Top.config = Last
    BY <2>1, MergedKept, EmptySeq DEF RootFirst, Top
  <2>3. UNCHANGED inputs /\ result' = Merged /\ stack' = << >>
    BY <1>6 DEF Finish
  <2>4. OverridesKeepPlace'
    BY <2>2, <2>3, ResultStaysKept
  <2>5. StackKept'
    BY <2>3 DEF StackKept
  <2> QED BY <2>4, <2>5
<1>7. CASE UNCHANGED vars
  <2>1. UNCHANGED inputs /\ stack' = stack /\ result' = result
    BY <1>7 DEF vars, inputs
  <2> QED BY <1>1, <2>1, StackStaysKept, ResultStaysKept DEF StackKept
<1> QED BY <1>3, <1>4, <1>5, <1>6, <1>7 DEF Next

(***************************************************************************)
(* However configs extend each other, and from whatever directories, each  *)
(* override of the root stands for the files some config wrote it for      *)
(* (hooks.go:137).                                                         *)
(***************************************************************************)
THEOREM OverridesStayInPlace == Spec => []OverridesKeepPlace
<1>1. Init => StackKept /\ RootFirst /\ OverridesKeepPlace
  BY KeptInit
<1>2. IInv /\ [Next]_vars => StackKept' /\ RootFirst' /\ OverridesKeepPlace'
  BY KeptNext, RootStaysFirst DEF IInv
<1>3. TypeOK /\ StackKept /\ RootFirst /\ OverridesKeepPlace <=> IInv
  BY DEF IInv
<1> QED BY <1>1, <1>2, <1>3, TypeCorrect, PTL DEF Spec

-----------------------------------------------------------------------------

-----------------------------------------------------------------------------
(***************************************************************************)
(* The last config in the order of the merges decides.  A sequence s of    *)
(* configs stands for what they come to when they are merged one after the *)
(* other; Decided says that options are what the last of them comes to     *)
(* that sets each option, each rule and each rule's overrides of a file.   *)
(***************************************************************************)
IsOrder(order) ==
  order = [c \in Config |->
             Append(Seqs!FlattenSeq([i \in DOMAIN extends[c] |-> order[extends[c][i]]]), c)]

Descending == \A c \in Config : \A i \in DOMAIN extends[c] : extends[c][i] < c

\* The positions of the configs of P in s, and the last of these configs.
At(s, P)   == { p \in DOMAIN s : s[p] \in P }
Latest(s, P) == s[Greatest(At(s, P))]

\* The overrides that set r for the file at l, and the severity they give it.
Setting(overrides, d, l, r) ==
  { i \in DOMAIN overrides :
      MatchesOverride(overrides[i], d, l) /\ overrides[i].severity[r] # Unset }

Scoped(overrides, d, l, r) ==
  LET setting == Setting(overrides, d, l, r) IN
  IF setting = {} THEN Unset ELSE overrides[Greatest(setting)].severity[r]

Own(c, l, r) == Setting(Scopes(c), dir[c], l, r)

OptionSayers(k)   == { c \in Config : SaysOption(c, k) }
SeveritySayers(r) == { c \in Config : SaysSeverity(c, r) }
ScopeSayers(l, r) == { c \in Config : Own(c, l, r) # {} }

OwnScope(c, l, r) == Scoped(Scopes(c), dir[c], l, r)

DecidedOption(s, k) ==
  IF At(s, OptionSayers(k)) = {} THEN Default[k]
  ELSE stanza[Latest(s, OptionSayers(k))].option[k]

DecidedSeverity(s, r) ==
  IF At(s, SeveritySayers(r)) = {} THEN Unset
  ELSE Says(Latest(s, SeveritySayers(r))).severity[r]

DecidedScope(s, l, r) ==
  IF At(s, ScopeSayers(l, r)) = {} THEN Unset
  ELSE OwnScope(Latest(s, ScopeSayers(l, r)), l, r)

Decided(options, d, s) ==
  /\ options = Nil <=> Silent(s)
  /\ options # Nil =>
       /\ \A k \in Key : options.option[k] = DecidedOption(s, k)
       /\ \A r \in Rule : options.severity[r] = DecidedSeverity(s, r)
       /\ \A l \in Int, r \in Rule : Scoped(options.overrides, d, l, r) = DecidedScope(s, l, r)

-----------------------------------------------------------------------------
(***************************************************************************)
(* The order of the merges: its recursion is well-defined since configs    *)
(* extend lower ones only, and each config comes after what it extends.    *)
(***************************************************************************)
LEMMA FlattenIs ==
  ASSUME NEW cs \in Seq(Seq(Config)), Len(cs) # 0
  PROVE  \E f \in [1 .. Len(cs) -> Seq(Config)] :
           /\ f[1] = cs[1] /\ \A i \in 1 .. Len(cs) : i # 1 => f[i] = f[i - 1] \o cs[i]
           /\ Seqs!FlattenSeq(cs) = f[Len(cs)]
<1> DEFINE n  == Len(cs)
           Step(f, i) == IF i = 1 THEN cs[i] ELSE f[i - 1] \o cs[i]
           B(k) == { f \in [1 .. k -> Seq(Config)] : \A i \in 1 .. k : f[i] = Step(f, i) }
           flatten == CHOOSE f : f = [i \in 1 .. n |-> Step(f, i)]
<1>1. n \in Nat /\ \A i \in 1 .. n : cs[i] \in Seq(Config)
  OBVIOUS
<1>2. \A k \in 0 .. n : B(k) # {}
  <2> DEFINE Missing == { k \in 0 .. n : B(k) = {} }
  <2>1. SUFFICES ASSUME Missing # {} PROVE FALSE
    OBVIOUS
  <2>2. PICK k \in Missing : \A y \in Missing : k <= y
    <3>1. Missing \subseteq Nat
      BY <1>1
    <3> HIDE DEF Missing
    <3> QED BY <2>1, <3>1, LeastNatural
  <2>3. CASE k = 0
    <3>1. << >> \in B(0)
      OBVIOUS
    <3> QED BY <2>2, <2>3, <3>1
  <2>4. CASE k # 0
    <3>1. k \in 1 .. n /\ k - 1 \in 0 .. n /\ ~ (k <= k - 1)
      BY <1>1, <2>4
    <3>2. B(k - 1) # {}
      <4>1. k - 1 \notin Missing
        <5> HIDE DEF Missing
        <5> QED BY <2>2, <3>1
      <4> QED BY <3>1, <4>1
    <3>3. PICK g \in [1 .. (k - 1) -> Seq(Config)] : \A i \in 1 .. (k - 1) : g[i] = Step(g, i)
      BY <3>2
    <3> DEFINE h == [i \in 1 .. k |-> IF i = k THEN Step(g, k) ELSE g[i]]
    <3>4. Step(g, k) \in Seq(Config)
      <4>1. k = 1 \/ k - 1 \in 1 .. (k - 1)
        BY <3>1
      <4> QED BY <1>1, <3>1, <3>3, <4>1, ConcatProperties
    <3>5. h \in [1 .. k -> Seq(Config)]
      BY <3>1, <3>3, <3>4
    <3>6. ASSUME NEW i \in 1 .. k PROVE h[i] = Step(h, i)
      <4>1. i # 1 => i - 1 \in 1 .. (k - 1) /\ i - 1 # k
        BY <3>1
      <4>2. i # 1 => h[i - 1] = g[i - 1]
        BY <3>1, <4>1
      <4>3. Step(h, i) = Step(g, i)
        BY <4>2
      <4>4. i # k => i \in 1 .. (k - 1)
        BY <3>1
      <4> QED BY <3>1, <3>3, <4>3, <4>4
    <3> HIDE DEF h
    <3>7. h \in B(k)
      BY <3>5, <3>6
    <3> QED BY <2>2, <3>7
  <2> QED BY <2>3, <2>4
<1>3. flatten \in B(n)
  <2>1. PICK f \in [1 .. n -> Seq(Config)] : \A i \in 1 .. n : f[i] = Step(f, i)
    <3>1. B(n) # {}
      <4>1. n \in 0 .. n
        BY <1>1
      <4> HIDE DEF B, n
      <4> QED BY <1>2, <4>1
    <3> HIDE DEF n
    <3> QED BY <3>1
  <2>2. f = [i \in 1 .. n |-> Step(f, i)]
    BY <2>1
  <2>3. flatten = [i \in 1 .. n |-> Step(flatten, i)]
    <3> HIDE DEF n
    <3> QED BY <2>2
  <2> DEFINE Untyped == { i \in 1 .. n : flatten[i] \notin Seq(Config) }
  <2> HIDE DEF flatten
  <2>4. Untyped = {}
    <3>1. SUFFICES ASSUME Untyped # {} PROVE FALSE
      OBVIOUS
    <3>2. PICK i \in Untyped : \A y \in Untyped : i <= y
      <4>1. Untyped \subseteq Nat
        OBVIOUS
      <4> HIDE DEF Untyped
      <4> QED BY <3>1, <4>1, LeastNatural
    <3>3. i \in 1 .. n /\ flatten[i] = Step(flatten, i) /\ i # 1
      BY <1>1, <2>3
    <3>4. i - 1 \in 1 .. n /\ ~ (i <= i - 1)
      BY <3>3
    <3>5. flatten[i - 1] \in Seq(Config)
      <4>1. i - 1 \notin Untyped
        <5> HIDE DEF Untyped
        <5> QED BY <3>2, <3>4
      <4> QED BY <3>4, <4>1
    <3> QED BY <1>1, <3>3, <3>5, ConcatProperties
  <2>5. flatten \in [1 .. n -> Seq(Config)]
    BY <2>3, <2>4
  <2> QED BY <2>3, <2>5
<1>4. Seqs!FlattenSeq(cs) = flatten[n]
  BY DEF Seqs!FlattenSeq
<1>5. 1 \in 1 .. n
  BY <1>1
<1> HIDE DEF flatten
<1> QED BY <1>3, <1>4, <1>5

LEMMA FlattenType ==
  ASSUME NEW cs \in Seq(Seq(Config))
  PROVE  Seqs!FlattenSeq(cs) \in Seq(Config)
<1>1. Len(cs) \in Nat
  BY LenProperties
<1>2. CASE Len(cs) = 0
  <2>1. cs = << >>
    BY <1>2, EmptySeq
  <2> QED BY <1>2, <2>1, EmptySeq DEF Seqs!FlattenSeq
<1>3. CASE Len(cs) # 0
  <2>1. Len(cs) \in 1 .. Len(cs)
    BY <1>1, <1>3
  <2> QED BY <1>3, <2>1, FlattenIs
<1> QED BY <1>2, <1>3

LEMMA FlattenNext ==
  ASSUME NEW cs \in Seq(Seq(Config)), NEW x \in Seq(Config)
  PROVE  Seqs!FlattenSeq(Append(cs, x)) = Seqs!FlattenSeq(cs) \o x
<1> DEFINE n  == Len(cs)
           ds == Append(cs, x)
<1>1. /\ ds \in Seq(Seq(Config)) /\ Len(ds) = n + 1 /\ n \in Nat
      /\ \A i \in 1 .. n : ds[i] = cs[i]
      /\ ds[n + 1] = x
  BY AppendProperties, LenProperties
<1> HIDE DEF ds
<1>2. PICK f \in [1 .. Len(ds) -> Seq(Config)] :
         /\ f[1] = ds[1] /\ \A i \in 1 .. Len(ds) : i # 1 => f[i] = f[i - 1] \o ds[i]
         /\ Seqs!FlattenSeq(ds) = f[Len(ds)]
  <2>1. Len(ds) # 0
    BY <1>1
  <2> QED BY <1>1, <2>1, FlattenIs
<1>3. CASE n = 0
  <2>1. cs = << >>
    BY <1>3, EmptySeq
  <2>2. Seqs!FlattenSeq(cs) = << >>
    BY <1>3, <2>1 DEF Seqs!FlattenSeq
  <2>3. << >> \o x = x
    BY ConcatEmptySeq
  <2> QED BY <1>1, <1>2, <1>3, <2>2, <2>3 DEF ds
<1>4. CASE n # 0
  <2>1. PICK g \in [1 .. n -> Seq(Config)] :
           /\ g[1] = cs[1] /\ \A i \in 1 .. n : i # 1 => g[i] = g[i - 1] \o cs[i]
           /\ Seqs!FlattenSeq(cs) = g[n]
    BY <1>4, FlattenIs
  <2> HIDE DEF n
  <2> DEFINE Differ == { i \in 1 .. n : f[i] # g[i] }
  <2>2. Differ = {}
    <3>1. SUFFICES ASSUME Differ # {} PROVE FALSE
      OBVIOUS
    <3>2. PICK i \in Differ : \A y \in Differ : i <= y
      <4>1. Differ \subseteq Nat
        OBVIOUS
      <4> HIDE DEF Differ
      <4> QED BY <3>1, <4>1, LeastNatural
    <3>3. i \in 1 .. n /\ i \in 1 .. Len(ds) /\ f[i] # g[i] /\ ds[i] = cs[i]
      BY <1>1
    <3>4. CASE i = 1
      BY <1>1, <1>2, <2>1, <3>3, <3>4
    <3>5. CASE i # 1
      <4>1. i - 1 \in 1 .. n /\ ~ (i <= i - 1)
        BY <1>1, <3>3, <3>5
      <4>2. i - 1 \notin Differ
        <5> HIDE DEF Differ
        <5> QED BY <3>2, <4>1
      <4>3. f[i - 1] = g[i - 1]
        BY <4>1, <4>2
      <4> QED BY <1>2, <2>1, <3>3, <3>5, <4>3
    <3> QED BY <3>4, <3>5
  <2>3. n \in 1 .. n /\ n + 1 \in 1 .. n + 1 /\ n + 1 # 1 /\ (n + 1) - 1 = n
    BY <1>1, <1>4
  <2>4. f[n] = g[n]
    BY <2>2, <2>3
  <2>5. f[n + 1] = f[n] \o x
    BY <1>1, <1>2, <2>3
  <2> QED BY <1>1, <1>2, <2>1, <2>4, <2>5 DEF ds
<1> QED BY <1>3, <1>4

LEMMA ExtendsType ==
  ASSUME TypeOK, NEW c \in Config
  PROVE  /\ extends[c] \in Seq(Config) /\ Len(extends[c]) \in Nat
         /\ DOMAIN extends[c] = 1 .. Len(extends[c])
         /\ \A i \in 1 .. Len(extends[c]) : extends[c][i] \in Config
<1>1. extends[c] \in Seq(Config)
  BY DEF TypeOK
<1> QED BY <1>1, LenProperties

\* Some function on the first n configs satisfies the recursion.
LEMMA OrderExists ==
  ASSUME TypeOK, Descending
  PROVE  \E order \in [Config -> Seq(Config)] : IsOrder(order)
<1> DEFINE Step(o, c) ==
             Append(Seqs!FlattenSeq([i \in DOMAIN extends[c] |-> o[extends[c][i]]]), c)
           First(n) == { c \in Config : c < n }
           B(n) == { o \in [First(n) -> Seq(Config)] : \A c \in First(n) : o[c] = Step(o, c) }
<1>1. ASSUME NEW n, NEW o \in [First(n) -> Seq(Config)], NEW c \in Config,
             \A i \in DOMAIN extends[c] : extends[c][i] \in First(n)
      PROVE  Step(o, c) \in Seq(Config)
  <2>1. DOMAIN extends[c] = 1 .. Len(extends[c]) /\ Len(extends[c]) \in Nat
    BY ExtendsType
  <2> DEFINE cs == [i \in DOMAIN extends[c] |-> o[extends[c][i]]]
  <2>2. cs \in [1 .. Len(extends[c]) -> Seq(Config)]
    BY <1>1, <2>1
  <2>3. cs \in Seq(Seq(Config))
    <3> HIDE DEF cs
    <3> QED BY <2>1, <2>2, SeqDef
  <2>4. PICK fs \in Seq(Config) : fs = Seqs!FlattenSeq(cs)
    BY <2>3, FlattenType
  <2>5. Step(o, c) = Append(fs, c)
    BY <2>4
  <2> QED BY <2>5, AppendProperties
<1>2. \A n \in 0 .. (Last + 1) : B(n) # {}
  <2> DEFINE Missing == { n \in 0 .. (Last + 1) : B(n) = {} }
  <2>1. SUFFICES ASSUME Missing # {} PROVE FALSE
    OBVIOUS
  <2>2. PICK n \in Missing : \A y \in Missing : n <= y
    <3>1. Missing \subseteq Nat
      BY LastType
    <3> HIDE DEF Missing
    <3> QED BY <2>1, <3>1, LeastNatural
  <2>3. CASE n = 0
    <3>1. First(0) = {}
      BY DEF Config
    <3>2. << >> \in [First(0) -> Seq(Config)]
      BY <3>1
    <3>3. << >> \in B(0)
      BY <3>1, <3>2
    <3> QED BY <2>2, <2>3, <3>3
  <2>4. CASE n # 0
    <3>1. /\ n \in Nat /\ n - 1 \in 0 .. (Last + 1) /\ ~ (n <= n - 1) /\ n - 1 \in Config
          /\ First(n) = First(n - 1) \cup {n - 1} /\ n - 1 \notin First(n - 1)
      BY <2>2, <2>4, LastType DEF Config
    <3>2. PICK m \in Config : m = n - 1
      BY <3>1
    <3>3. B(m) # {}
      <4>1. m \notin Missing
        <5> HIDE DEF Missing
        <5> QED BY <2>2, <3>1, <3>2
      <4> QED BY <3>1, <3>2, <4>1
    <3>4. PICK g \in [First(m) -> Seq(Config)] : \A c \in First(m) : g[c] = Step(g, c)
      BY <3>3
    <3> DEFINE h == [c \in First(n) |-> IF c = m THEN Step(g, m) ELSE g[c]]
    <3>5. ASSUME NEW c \in First(n)
          PROVE  /\ c \in Config
                 /\ \A i \in DOMAIN extends[c] :
                      extends[c][i] \in First(m) /\ extends[c][i] \in First(n) /\ extends[c][i] # m
      <4>1. c \in Config /\ c \in Nat /\ c <= m /\ m \in Nat
        BY <3>1, <3>2 DEF Config
      <4>2. ASSUME NEW i \in DOMAIN extends[c] PROVE extends[c][i] \in Config /\ extends[c][i] < c
        BY <4>1, <4>2, ExtendsType DEF Descending
      <4>3. \A x \in Config : x < c => x \in First(m) /\ x # m
        BY <4>1 DEF Config
      <4> QED BY <3>1, <3>2, <4>1, <4>2, <4>3
    <3>6. Step(g, m) \in Seq(Config)
      <4>1. m \in First(n)
        BY <3>1, <3>2
      <4> HIDE DEF Step, First
      <4> QED BY <1>1, <3>5, <4>1
    <3>7. h \in [First(n) -> Seq(Config)]
      <4> HIDE DEF Step, First
      <4> QED BY <3>1, <3>2, <3>4, <3>6
    <3>8. ASSUME NEW c \in First(n) PROVE h[c] = Step(h, c)
      <4>1. \A i \in DOMAIN extends[c] : h[extends[c][i]] = g[extends[c][i]]
        <5> HIDE DEF First, Step
        <5> QED BY <3>5
      <4>2. Step(h, c) = Step(g, c)
        <5> HIDE DEF h
        <5>1. [i \in DOMAIN extends[c] |-> h[extends[c][i]]] =
                [i \in DOMAIN extends[c] |-> g[extends[c][i]]]
          BY <4>1
        <5> QED BY <5>1
      <4>3. c = m \/ c \in First(m)
        <5> HIDE DEF First
        <5> QED BY <3>1, <3>2, <3>8
      <4>4. h[c] = IF c = m THEN Step(g, m) ELSE g[c]
        <5> HIDE DEF First, Step
        <5> QED BY <3>8
      <4> HIDE DEF First, Step, h
      <4> QED BY <3>4, <4>2, <4>3, <4>4
    <3> HIDE DEF h
    <3>9. h \in B(n)
      BY <3>7, <3>8
    <3> QED BY <2>2, <3>9
  <2> QED BY <2>3, <2>4
<1>3. First(Last + 1) = Config /\ Last + 1 \in 0 .. (Last + 1)
  BY LastType DEF Config
<1>4. PICK o \in [Config -> Seq(Config)] : \A c \in Config : o[c] = Step(o, c)
  <2>1. B(Last + 1) # {}
    <3> HIDE DEF B
    <3> QED BY <1>2, <1>3
  <2> QED BY <1>3, <2>1
<1>5. o = [c \in Config |-> Step(o, c)]
  BY <1>4
<1> QED BY <1>5 DEF IsOrder

LEMMA OrderChosen == Order = CHOOSE order : IsOrder(order)
<1>1. (CHOOSE order : IsOrder(order)) =
        CHOOSE order : order = [c \in Config |->
          Append(Seqs!FlattenSeq([i \in DOMAIN extends[c] |-> order[extends[c][i]]]), c)]
  BY DEF IsOrder
<1> QED BY <1>1 DEF Order

LEMMA OrderDef ==
  ASSUME TypeOK, Descending
  PROVE  \A c \in Config :
           Order[c] = Append(Seqs!FlattenSeq([i \in DOMAIN extends[c] |-> Order[extends[c][i]]]), c)
<1>1. IsOrder(Order)
  BY OrderExists, OrderChosen, Zenon
<1> QED BY <1>1 DEF IsOrder

LEMMA OrderType ==
  ASSUME TypeOK, Descending, NEW c \in Config
  PROVE  Order[c] \in Seq(Config)
<1> DEFINE Bad == { e \in Config : Order[e] \notin Seq(Config) }
<1>1. SUFFICES ASSUME Bad # {} PROVE FALSE
  OBVIOUS
<1>2. PICK e \in Bad : \A y \in Bad : e <= y
  <2>1. Bad \subseteq Nat
    BY DEF Config
  <2> HIDE DEF Bad
  <2> QED BY <1>1, <2>1, LeastNatural
<1>3. e \in Config /\ e \in Nat /\ Order[e] \notin Seq(Config)
  BY DEF Config
<1>4. ASSUME NEW i \in 1 .. Len(extends[e]) PROVE Order[extends[e][i]] \in Seq(Config)
  <2>1. PICK x \in Config : x = extends[e][i]
    BY <1>3, ExtendsType
  <2>2. x \in Nat /\ x < e
    BY <1>3, <1>4, <2>1, ExtendsType DEF Descending, Config
  <2>3. x \notin Bad
    <3> HIDE DEF Bad
    <3> QED BY <1>2, <1>3, <2>2
  <2> QED BY <2>1, <2>3
<1> DEFINE cs == [i \in DOMAIN extends[e] |-> Order[extends[e][i]]]
<1>5. cs \in Seq(Seq(Config))
  <2>1. DOMAIN extends[e] = 1 .. Len(extends[e]) /\ Len(extends[e]) \in Nat
    BY <1>3, ExtendsType
  <2>2. cs \in [1 .. Len(extends[e]) -> Seq(Config)]
    BY <1>4, <2>1
  <2> HIDE DEF cs
  <2> QED BY <2>1, <2>2, SeqDef
<1>6. Order[e] = Append(Seqs!FlattenSeq(cs), e)
  BY <1>3, OrderDef
<1> HIDE DEF cs
<1>7. Seqs!FlattenSeq(cs) \in Seq(Config)
  BY <1>5, FlattenType
<1> QED BY <1>3, <1>6, <1>7, AppendProperties

LEMMA BeforeIs ==
  ASSUME TypeOK, Descending, NEW c \in Config
  PROVE  /\ Before(c, 1) = << >>
         /\ \A n \in 1 .. Len(extends[c]) + 1 : Before(c, n) \in Seq(Config)
         /\ \A n \in 1 .. Len(extends[c]) :
              Before(c, n + 1) = Before(c, n) \o Order[extends[c][n]]
         /\ Order[c] = Append(Inherited(c), c)
<1> DEFINE m == Len(extends[c])
           part(n) == [i \in 1 .. (n - 1) |-> Order[extends[c][i]]]
<1>1. /\ m \in Nat /\ DOMAIN extends[c] = 1 .. m
      /\ \A i \in 1 .. m : extends[c][i] \in Config
  BY ExtendsType
<1> HIDE DEF m
<1>2. \A i \in 1 .. m : Order[extends[c][i]] \in Seq(Config)
  BY <1>1, OrderType
<1>3. ASSUME NEW n \in 1 .. m + 1
      PROVE  part(n) \in Seq(Seq(Config)) /\ Len(part(n)) = n - 1
  <2>1. n - 1 \in Nat /\ \A i \in 1 .. (n - 1) : i \in 1 .. m
    BY <1>1
  <2>2. part(n) \in [1 .. (n - 1) -> Seq(Config)]
    BY <1>2, <2>1
  <2>3. part(n) \in Seq(Seq(Config))
    <3> HIDE DEF part
    <3> QED BY <2>1, <2>2, SeqDef
  <2>4. DOMAIN part(n) = 1 .. (n - 1)
    OBVIOUS
  <2> HIDE DEF part
  <2> QED BY <2>1, <2>3, <2>4, LenProperties
<1>4. Before(c, 1) = << >>
  <2>1. 1 \in 1 .. m + 1
    BY <1>1
  <2>2. Len(part(1)) = 0 /\ part(1) \in Seq(Seq(Config))
    <3> HIDE DEF part
    <3> QED BY <1>3, <2>1
  <2>3. Before(c, 1) = Seqs!FlattenSeq(part(1))
    BY DEF Before
  <2> HIDE DEF part
  <2> QED BY <2>2, <2>3, EmptySeq DEF Seqs!FlattenSeq
<1>5. ASSUME NEW n \in 1 .. m + 1 PROVE Before(c, n) \in Seq(Config)
  <2>1. Before(c, n) = Seqs!FlattenSeq(part(n))
    BY DEF Before
  <2> HIDE DEF part
  <2> QED BY <1>3, <2>1, FlattenType
<1>6. ASSUME NEW n \in 1 .. m
      PROVE  Before(c, n + 1) = Before(c, n) \o Order[extends[c][n]]
  <2>1. n \in 1 .. m + 1 /\ n + 1 \in 1 .. m + 1 /\ (n + 1) - 1 = n /\ n \in Nat \ {0}
    BY <1>1
  <2>2. part(n) \in Seq(Seq(Config)) /\ Len(part(n)) = n - 1
    <3> HIDE DEF part
    <3> QED BY <1>3, <2>1
  <2>3. part(n + 1) \in Seq(Seq(Config)) /\ Len(part(n + 1)) = n
    <3> HIDE DEF part
    <3> QED BY <1>3, <2>1
  <2>4. PICK x \in Seq(Config) : x = Order[extends[c][n]]
    BY <1>2
  <2>5. /\ \A i \in 1 .. n : part(n + 1)[i] = Order[extends[c][i]]
        /\ \A i \in 1 .. (n - 1) : part(n)[i] = Order[extends[c][i]]
    BY <2>1
  <2>6. /\ Before(c, n + 1) = Seqs!FlattenSeq(part(n + 1))
        /\ Before(c, n) = Seqs!FlattenSeq(part(n))
    BY DEF Before
  <2> HIDE DEF part
  <2>7. PICK ps \in Seq(Seq(Config)) : ps = part(n)
    BY <2>2
  <2>8. PICK qs \in Seq(Seq(Config)) : qs = part(n + 1)
    BY <2>3
  <2>9. qs = Append(ps, x)
    <3>1. /\ Append(ps, x) \in Seq(Seq(Config)) /\ Len(Append(ps, x)) = n
          /\ \A i \in 1 .. (n - 1) : Append(ps, x)[i] = ps[i]
          /\ Append(ps, x)[n] = x
      <4>1. Len(ps) = n - 1 /\ (n - 1) + 1 = n
        BY <2>1, <2>2, <2>7
      <4> QED BY <4>1, AppendProperties
    <3>2. \A i \in 1 .. n : qs[i] = Append(ps, x)[i]
      <4> TAKE i \in 1 .. n
      <4>1. CASE i = n
        BY <2>4, <2>5, <2>8, <3>1, <4>1
      <4>2. CASE i # n
        <5>1. i \in 1 .. (n - 1)
          BY <2>1, <4>2
        <5> QED BY <2>5, <2>7, <2>8, <3>1, <5>1
      <4> QED BY <4>1, <4>2
    <3>3. Len(qs) = n
      BY <2>3, <2>8
    <3> QED BY <3>1, <3>2, <3>3, SeqEqual
  <2> QED BY <2>4, <2>6, <2>7, <2>8, <2>9, FlattenNext
<1>7. Order[c] = Append(Inherited(c), c)
  <2>1. (m + 1) - 1 = m
    BY <1>1
  <2>2. [i \in DOMAIN extends[c] |-> Order[extends[c][i]]] =
          [i \in 1 .. ((m + 1) - 1) |-> Order[extends[c][i]]]
    BY <1>1, <2>1
  <2> QED BY <2>2, OrderDef DEF Inherited, Before, m
<1> QED BY <1>4, <1>5, <1>6, <1>7 DEF m

-----------------------------------------------------------------------------
(***************************************************************************)
(* The last override that sets a rule for a file.                          *)
(***************************************************************************)
LEMMA GreatestIs ==
  ASSUME NEW S, S \subseteq Nat, NEW x \in S, \A y \in S : y <= x
  PROVE  Greatest(S) = x
<1>1. Greatest(S) \in S /\ \A y \in S : y <= Greatest(S)
  BY DEF Greatest
<1>2. PICK g \in S : g = Greatest(S)
  BY <1>1
<1>3. g <= x /\ x <= g /\ g \in Nat /\ x \in Nat
  BY <1>1, <1>2
<1> QED BY <1>2, <1>3

LEMMA GreatestIn ==
  ASSUME NEW S, S \subseteq Nat, S # {}, NEW b \in Nat, \A x \in S : x <= b
  PROVE  Greatest(S) \in S /\ \A y \in S : y <= Greatest(S)
BY GreatestBounded DEF Greatest

LEMMA SettingIn ==
  ASSUME NEW s \in Seq(Override), NEW d, NEW l, NEW r
  PROVE  /\ Setting(s, d, l, r) \subseteq 1 .. Len(s) /\ Len(s) \in Nat
         /\ Setting(s, d, l, r) \subseteq Nat
         /\ Setting(s, d, l, r) # {} =>
              /\ Greatest(Setting(s, d, l, r)) \in Setting(s, d, l, r)
              /\ \A y \in Setting(s, d, l, r) : y <= Greatest(Setting(s, d, l, r))
<1>1. Setting(s, d, l, r) \subseteq 1 .. Len(s) /\ Len(s) \in Nat
  BY LenProperties DEF Setting
<1> DEFINE S == Setting(s, d, l, r)
           b == Len(s)
<1> HIDE DEF S, b
<1>2. S \subseteq 1 .. b /\ b \in Nat
  BY <1>1 DEF S, b
<1>3. S \subseteq Nat /\ \A x \in S : x <= b
  BY <1>2
<1>4. S # {} => Greatest(S) \in S /\ \A y \in S : y <= Greatest(S)
  BY <1>2, <1>3, GreatestIn
<1> QED BY <1>1, <1>3, <1>4 DEF S

LEMMA ScopedSets ==
  ASSUME NEW s \in Seq(Override), NEW d, NEW l, NEW r
  PROVE  Scoped(s, d, l, r) = Unset <=> Setting(s, d, l, r) = {}
<1>1. ASSUME Setting(s, d, l, r) # {}
      PROVE  s[Greatest(Setting(s, d, l, r))].severity[r] # Unset
  BY <1>1, SettingIn DEF Setting
<1> QED BY <1>1 DEF Scoped

\* Moving overrides to another directory changes neither.
LEMMA ScopedMoves ==
  ASSUME NEW options \in Options, NEW d \in Int, NEW e \in Int, NEW l, NEW r
  PROVE  LET moved == RewriteOptionsOverrides(options, d - e).overrides IN
         /\ Setting(moved, e, l, r) = Setting(options.overrides, d, l, r)
         /\ Scoped(moved, e, l, r) = Scoped(options.overrides, d, l, r)
<1> DEFINE os == options.overrides
           moved == RewriteOptionsOverrides(options, d - e).overrides
<1>1. /\ DOMAIN moved = DOMAIN os
      /\ \A i \in DOMAIN os : moved[i] = RewriteOverride(os[i], d - e)
  BY RewriteType
<1>2. os \in Seq(Override)
  BY DEF Options
<1> HIDE DEF os, moved
<1>3. ASSUME NEW i \in DOMAIN os
      PROVE  /\ moved[i].severity = os[i].severity
             /\ MatchesOverride(moved[i], e, l) <=> MatchesOverride(os[i], d, l)
  <2>1. os[i] \in Override
    BY <1>2, LenProperties
  <2>2. PICK o \in Override : o = os[i]
    BY <2>1
  <2>3. PICK n : n = moved[i]
    OBVIOUS
  <2>4. /\ n.severity = o.severity
        /\ n.include = RewriteSpecs(o.include, d - e)
        /\ n.exclude = RewriteSpecs(o.exclude, d - e)
    BY <1>1, <2>2, <2>3 DEF RewriteOverride
  <2>5. o.include \in SUBSET FileSpec /\ o.exclude \in SUBSET FileSpec
    BY <2>2 DEF Override
  <2>6. /\ SamePlaces(o.include, d, n.include, e)
        /\ SamePlaces(o.exclude, d, n.exclude, e)
    BY <2>4, <2>5, SpecsKeepPlaces
  <2>7. /\ (\E s \in n.include : Place(s, e) = l) <=> \E s \in o.include : Place(s, d) = l
        /\ (\E s \in n.exclude : Place(s, e) = l) <=> \E s \in o.exclude : Place(s, d) = l
        /\ n.include = {} <=> o.include = {}
    <3>1. /\ l \in { Place(s, e) : s \in n.include } <=> l \in { Place(s, d) : s \in o.include }
          /\ l \in { Place(s, e) : s \in n.exclude } <=> l \in { Place(s, d) : s \in o.exclude }
      BY <2>6 DEF SamePlaces
    <3>2. n.include = {} <=> o.include = {}
      BY <2>6 DEF SamePlaces
    <3> QED BY <3>1, <3>2
  <2>8. MatchesOverride(n, e, l) <=> MatchesOverride(o, d, l)
    BY <2>7 DEF MatchesOverride
  <2> QED BY <2>2, <2>3, <2>4, <2>8
<1>4. Setting(moved, e, l, r) = Setting(os, d, l, r)
  BY <1>1, <1>3 DEF Setting
<1>5. Scoped(moved, e, l, r) = Scoped(os, d, l, r)
  <2>1. CASE Setting(os, d, l, r) = {}
    BY <1>4, <2>1 DEF Scoped
  <2>2. CASE Setting(os, d, l, r) # {}
    <3>1. Greatest(Setting(os, d, l, r)) \in DOMAIN os
      BY <1>2, <2>2, SettingIn DEF Setting
    <3> QED BY <1>3, <1>4, <2>2, <3>1 DEF Scoped
  <2> QED BY <2>1, <2>2
<1> QED BY <1>4, <1>5 DEF os, moved

\* Overrides that come after others win where they say something.
LEMMA ScopedConcat ==
  ASSUME NEW s \in Seq(Override), NEW t \in Seq(Override), NEW d, NEW l, NEW r
  PROVE  Scoped(s \o t, d, l, r) = IF Setting(t, d, l, r) = {} THEN Scoped(s, d, l, r)
                                   ELSE Scoped(t, d, l, r)
<1> DEFINE m == Len(s)
           n == Len(t)
           st == s \o t
           Sets(o) == MatchesOverride(o, d, l) /\ o.severity[r] # Unset
<1>1. /\ st \in Seq(Override) /\ Len(st) = m + n /\ m \in Nat /\ n \in Nat
      /\ DOMAIN st = 1 .. Len(st) /\ DOMAIN s = 1 .. m /\ DOMAIN t = 1 .. n
      /\ \A k \in 1 .. m + n : st[k] = IF k <= m THEN s[k] ELSE t[k - m]
  BY ConcatProperties, LenProperties
<1> HIDE DEF m, n, st, Sets
<1>2. /\ Setting(s, d, l, r) = { i \in 1 .. m : Sets(s[i]) }
      /\ Setting(t, d, l, r) = { i \in 1 .. n : Sets(t[i]) }
      /\ Setting(st, d, l, r) = { i \in 1 .. m + n : Sets(st[i]) }
  BY <1>1 DEF Setting, Sets
<1>3. /\ \A i \in 1 .. m : i \in 1 .. m + n /\ st[i] = s[i]
      /\ \A i \in 1 .. n : m + i \in 1 .. m + n /\ st[m + i] = t[i]
  <2>1. \A i \in 1 .. m : i \in 1 .. m + n /\ i <= m
    BY <1>1
  <2>2. \A i \in 1 .. n : m + i \in 1 .. m + n /\ ~ (m + i <= m) /\ (m + i) - m = i
    BY <1>1
  <2> QED BY <1>1, <2>1, <2>2
<1>4. CASE Setting(t, d, l, r) = {}
  <2>1. Setting(st, d, l, r) = Setting(s, d, l, r)
    <3>1. ASSUME NEW i \in 1 .. m + n, Sets(st[i]) PROVE i \in 1 .. m
      <4>1. SUFFICES ASSUME ~ (i <= m) PROVE FALSE
        BY <1>1, <3>1
      <4>2. i - m \in 1 .. n /\ st[i] = t[i - m]
        BY <1>1, <4>1
      <4> QED BY <1>2, <1>4, <3>1, <4>2
    <3> QED BY <1>2, <1>3, <3>1
  <2>2. CASE Setting(s, d, l, r) = {}
    BY <1>4, <2>1, <2>2 DEF Scoped, st
  <2>3. CASE Setting(s, d, l, r) # {}
    <3>1. Greatest(Setting(s, d, l, r)) \in 1 .. m
      BY <1>2, <2>3, SettingIn
    <3>2. Scoped(st, d, l, r) = Scoped(s, d, l, r)
      BY <1>3, <2>1, <2>3, <3>1 DEF Scoped
    <3> QED BY <1>4, <3>2 DEF st
  <2> QED BY <2>2, <2>3
<1>5. CASE Setting(t, d, l, r) # {}
  <2>1. PICK g \in Setting(t, d, l, r) :
          g = Greatest(Setting(t, d, l, r)) /\ \A y \in Setting(t, d, l, r) : y <= g
    BY <1>5, SettingIn
  <2>2. g \in 1 .. n /\ Sets(t[g])
    BY <1>2, <2>1
  <2>3. m + g \in Setting(st, d, l, r)
    BY <1>2, <1>3, <2>2
  <2>4. ASSUME NEW y \in Setting(st, d, l, r) PROVE y <= m + g
    <3>1. y \in 1 .. m + n /\ Sets(st[y])
      BY <1>2, <2>4
    <3>2. CASE y <= m
      BY <1>1, <2>2, <3>1, <3>2
    <3>3. CASE ~ (y <= m)
      <4>1. y - m \in 1 .. n /\ st[y] = t[y - m]
        BY <1>1, <3>1, <3>3
      <4>2. y - m <= g
        BY <1>2, <2>1, <3>1, <4>1
      <4> QED BY <1>1, <2>2, <3>1, <4>2
    <3> QED BY <3>2, <3>3
  <2>5. Setting(st, d, l, r) \subseteq Nat
    BY <1>1, <1>2
  <2>6. Greatest(Setting(st, d, l, r)) = m + g
    BY <2>3, <2>4, <2>5, GreatestIs
  <2>7. st[m + g] = t[g]
    BY <1>3, <2>2
  <2>8. Scoped(st, d, l, r) = Scoped(t, d, l, r)
    BY <1>5, <2>1, <2>3, <2>6, <2>7 DEF Scoped
  <2> QED BY <1>5, <2>8 DEF st
<1> QED BY <1>4, <1>5

-----------------------------------------------------------------------------
(***************************************************************************)
(* What configs merged one after the other decide.                         *)
(***************************************************************************)
LEMMA LatestIn ==
  ASSUME NEW s \in Seq(Config), NEW P, At(s, P) # {}
  PROVE  /\ Greatest(At(s, P)) \in At(s, P) /\ Greatest(At(s, P)) \in DOMAIN s
         /\ \A p \in At(s, P) : p <= Greatest(At(s, P))
         /\ Latest(s, P) \in P /\ Latest(s, P) \in Config
<1> DEFINE S == At(s, P)
           b == Len(s)
<1>1. S \subseteq 1 .. b /\ b \in Nat /\ DOMAIN s = 1 .. b
  BY LenProperties DEF At
<1> HIDE DEF S, b
<1>2. S # {} /\ S \subseteq Nat /\ \A p \in S : p <= b
  BY <1>1 DEF S
<1>3. Greatest(S) \in S /\ \A p \in S : p <= Greatest(S)
  BY <1>1, <1>2, GreatestIn
<1>4. s[Greatest(S)] \in P /\ Greatest(S) \in DOMAIN s
  BY <1>3 DEF At, S
<1>5. s[Greatest(S)] \in Config
  BY <1>1, <1>4, LenProperties DEF b
<1> QED BY <1>3, <1>4, <1>5 DEF S, Latest

LEMMA AtConcat ==
  ASSUME NEW s \in Seq(Config), NEW t \in Seq(Config), NEW P
  PROVE  /\ At(s \o t, P) = {} <=> At(s, P) = {} /\ At(t, P) = {}
         /\ At(t, P) # {} => Latest(s \o t, P) = Latest(t, P)
         /\ At(t, P) = {} /\ At(s, P) # {} => Latest(s \o t, P) = Latest(s, P)
<1> DEFINE m == Len(s)
           n == Len(t)
           st == s \o t
<1>1. /\ st \in Seq(Config) /\ Len(st) = m + n /\ m \in Nat /\ n \in Nat
      /\ DOMAIN st = 1 .. Len(st) /\ DOMAIN s = 1 .. m /\ DOMAIN t = 1 .. n
      /\ \A k \in 1 .. m + n : st[k] = IF k <= m THEN s[k] ELSE t[k - m]
  BY ConcatProperties, LenProperties
<1> HIDE DEF m, n, st
<1>2. /\ At(s, P) = { i \in 1 .. m : s[i] \in P }
      /\ At(t, P) = { i \in 1 .. n : t[i] \in P }
      /\ At(st, P) = { i \in 1 .. m + n : st[i] \in P }
  BY <1>1 DEF At
<1>3. /\ \A i \in 1 .. m : i \in 1 .. m + n /\ st[i] = s[i]
      /\ \A i \in 1 .. n : m + i \in 1 .. m + n /\ st[m + i] = t[i]
  <2>1. \A i \in 1 .. m : i \in 1 .. m + n /\ i <= m
    BY <1>1
  <2>2. \A i \in 1 .. n : m + i \in 1 .. m + n /\ ~ (m + i <= m) /\ (m + i) - m = i
    BY <1>1
  <2> QED BY <1>1, <2>1, <2>2
<1>4. ASSUME NEW i \in At(st, P)
      PROVE  i \in At(s, P) \/ (i - m \in At(t, P) /\ i \in Nat)
  <2>1. i \in 1 .. m + n /\ st[i] \in P
    BY <1>2, <1>4
  <2>2. CASE i <= m
    <3>1. i \in 1 .. m
      BY <1>1, <2>1, <2>2
    <3> QED BY <1>2, <1>3, <2>1, <3>1
  <2>3. CASE ~ (i <= m)
    <3>1. i - m \in 1 .. n /\ st[i] = t[i - m] /\ i \in Nat
      BY <1>1, <2>1, <2>3
    <3> QED BY <1>2, <2>1, <3>1
  <2> QED BY <2>2, <2>3
<1>5. /\ \A i \in At(s, P) : i \in At(st, P)
      /\ \A i \in At(t, P) : m + i \in At(st, P)
  BY <1>2, <1>3
<1>6. At(st, P) = {} <=> At(s, P) = {} /\ At(t, P) = {}
  BY <1>4, <1>5
<1>7. At(st, P) \subseteq Nat /\ At(s, P) \subseteq Nat
  BY <1>1, <1>2
<1>8. ASSUME At(t, P) # {} PROVE Latest(st, P) = Latest(t, P)
  <2>1. PICK g \in At(t, P) : g = Greatest(At(t, P)) /\ \A y \in At(t, P) : y <= g
    BY <1>8, LatestIn
  <2>2. g \in 1 .. n
    BY <1>2, <2>1
  <2>3. ASSUME NEW y \in At(st, P) PROVE y <= m + g
    <3>1. CASE y \in At(s, P)
      BY <1>1, <1>2, <2>2, <3>1
    <3>2. CASE y - m \in At(t, P) /\ y \in Nat
      <4>1. y - m <= g
        BY <2>1, <3>2
      <4> QED BY <1>1, <2>2, <3>2, <4>1
    <3> QED BY <1>4, <2>3, <3>1, <3>2
  <2>4. m + g \in At(st, P)
    BY <1>5, <2>1
  <2>5. Greatest(At(st, P)) = m + g
    BY <1>7, <2>3, <2>4, GreatestIs
  <2> QED BY <1>3, <2>1, <2>2, <2>5 DEF Latest
<1>9. ASSUME At(t, P) = {}, At(s, P) # {} PROVE Latest(st, P) = Latest(s, P)
  <2>1. At(st, P) = At(s, P)
    BY <1>4, <1>5, <1>9
  <2>2. Greatest(At(s, P)) \in 1 .. m
    BY <1>1, <1>9, LatestIn
  <2> QED BY <1>3, <2>1, <2>2 DEF Latest
<1> QED BY <1>6, <1>8, <1>9 DEF st

LEMMA AtOne ==
  ASSUME NEW c \in Config, NEW P
  PROVE  /\ << c >> \in Seq(Config)
         /\ At(<< c >>, P) = {} <=> c \notin P
         /\ c \in P => Latest(<< c >>, P) = c
<1> DEFINE s == << c >>
<1>1. s \in Seq(Config) /\ DOMAIN s = {1} /\ s[1] = c
  OBVIOUS
<1> HIDE DEF s
<1>2. At(s, P) = {} <=> c \notin P
  BY <1>1 DEF At
<1>3. ASSUME c \in P PROVE Latest(s, P) = c
  <2>1. Greatest(At(s, P)) \in DOMAIN s
    BY <1>1, <1>2, <1>3, LatestIn
  <2> QED BY <1>1, <2>1 DEF Latest
<1> QED BY <1>1, <1>2, <1>3 DEF s

LEMMA SilentAt ==
  ASSUME NEW s \in Seq(Config)
  PROVE  /\ Silent(s) <=> At(s, { c \in Config : Usable(c) }) = {}
         /\ Silent(s) => /\ \A k : At(s, OptionSayers(k)) = {}
                         /\ \A r : At(s, SeveritySayers(r)) = {}
                         /\ \A l, r : At(s, ScopeSayers(l, r)) = {}
<1>1. \A p \in DOMAIN s : s[p] \in Config
  BY LenProperties
<1>2. ASSUME NEW c \in Config, ~ Usable(c)
      PROVE  /\ \A k : c \notin OptionSayers(k)
             /\ \A r : c \notin SeveritySayers(r)
             /\ \A l, r : c \notin ScopeSayers(l, r)
  <2>1. \A l, r : Own(c, l, r) = {}
    BY <1>2 DEF Scopes, Own, Setting
  <2> QED BY <1>2, <2>1 DEF SaysOption, SaysSeverity, OptionSayers, SeveritySayers, ScopeSayers
<1>3. Silent(s) <=> At(s, { c \in Config : Usable(c) }) = {}
  BY <1>1 DEF Silent, At
<1>4. ASSUME Silent(s)
      PROVE  /\ \A k : At(s, OptionSayers(k)) = {}
             /\ \A r : At(s, SeveritySayers(r)) = {}
             /\ \A l, r : At(s, ScopeSayers(l, r)) = {}
  <2>1. \A p \in DOMAIN s : s[p] \in Config /\ ~ Usable(s[p])
    BY <1>1, <1>4 DEF Silent
  <2> QED BY <1>2, <2>1 DEF At
<1> QED BY <1>3, <1>4

LEMMA DecidedConcat ==
  ASSUME NEW s \in Seq(Config), NEW t \in Seq(Config)
  PROVE  /\ \A k : DecidedOption(s \o t, k) =
                     IF At(t, OptionSayers(k)) = {} THEN DecidedOption(s, k) ELSE DecidedOption(t, k)
         /\ \A r : DecidedSeverity(s \o t, r) =
                     IF At(t, SeveritySayers(r)) = {} THEN DecidedSeverity(s, r)
                     ELSE DecidedSeverity(t, r)
         /\ \A l, r : DecidedScope(s \o t, l, r) =
                     IF At(t, ScopeSayers(l, r)) = {} THEN DecidedScope(s, l, r)
                     ELSE DecidedScope(t, l, r)
         /\ Silent(s \o t) <=> Silent(s) /\ Silent(t)
         /\ s \o t \in Seq(Config)
<1>1. s \o t \in Seq(Config)
  BY ConcatProperties
<1>2. ASSUME NEW k
      PROVE  DecidedOption(s \o t, k) =
               IF At(t, OptionSayers(k)) = {} THEN DecidedOption(s, k) ELSE DecidedOption(t, k)
  BY AtConcat DEF DecidedOption
<1>3. ASSUME NEW r
      PROVE  DecidedSeverity(s \o t, r) =
               IF At(t, SeveritySayers(r)) = {} THEN DecidedSeverity(s, r) ELSE DecidedSeverity(t, r)
  BY AtConcat DEF DecidedSeverity
<1>4. ASSUME NEW l, NEW r
      PROVE  DecidedScope(s \o t, l, r) =
               IF At(t, ScopeSayers(l, r)) = {} THEN DecidedScope(s, l, r) ELSE DecidedScope(t, l, r)
  BY AtConcat DEF DecidedScope
<1>5. Silent(s \o t) <=> Silent(s) /\ Silent(t)
  BY <1>1, SilentAt, AtConcat
<1> QED BY <1>1, <1>2, <1>3, <1>4, <1>5

\* Configs that say nothing decide nothing.
LEMMA DecidedNone ==
  ASSUME NEW s \in Seq(Config), Silent(s)
  PROVE  /\ \A k : DecidedOption(s, k) = Default[k]
         /\ \A r : DecidedSeverity(s, r) = Unset
         /\ \A l, r : DecidedScope(s, l, r) = Unset
BY SilentAt DEF DecidedOption, DecidedSeverity, DecidedScope

LEMMA DecidedAfterSilent ==
  ASSUME NEW s \in Seq(Config), NEW t \in Seq(Config), NEW options, NEW d,
         Silent(s), Decided(options, d, t)
  PROVE  Decided(options, d, s \o t)
<1>1. Silent(s \o t) <=> Silent(t)
  BY DecidedConcat
<1>2. \A k : DecidedOption(s \o t, k) = DecidedOption(t, k)
  BY DecidedConcat, DecidedNone DEF DecidedOption
<1>3. \A r : DecidedSeverity(s \o t, r) = DecidedSeverity(t, r)
  BY DecidedConcat, DecidedNone DEF DecidedSeverity
<1>4. \A l, r : DecidedScope(s \o t, l, r) = DecidedScope(t, l, r)
  BY DecidedConcat, DecidedNone DEF DecidedScope
<1> QED BY <1>1, <1>2, <1>3, <1>4 DEF Decided

LEMMA DecidedBeforeSilent ==
  ASSUME NEW s \in Seq(Config), NEW t \in Seq(Config), NEW options, NEW d,
         Silent(t), Decided(options, d, s)
  PROVE  Decided(options, d, s \o t)
<1>1. Silent(s \o t) <=> Silent(s)
  BY DecidedConcat
<1>2. \A k : DecidedOption(s \o t, k) = DecidedOption(s, k)
  BY DecidedConcat, SilentAt
<1>3. \A r : DecidedSeverity(s \o t, r) = DecidedSeverity(s, r)
  BY DecidedConcat, SilentAt
<1>4. \A l, r : DecidedScope(s \o t, l, r) = DecidedScope(s, l, r)
  BY DecidedConcat, SilentAt
<1> QED BY <1>1, <1>2, <1>3, <1>4 DEF Decided

\* One config after others decides what it says itself.
LEMMA DecidedLast ==
  ASSUME NEW s \in Seq(Config), NEW c \in Config
  PROVE  LET t == Append(s, c) IN
         /\ t \in Seq(Config) /\ t = s \o << c >>
         /\ \A k : DecidedOption(t, k) =
                     IF SaysOption(c, k) THEN stanza[c].option[k] ELSE DecidedOption(s, k)
         /\ \A r : DecidedSeverity(t, r) =
                     IF SaysSeverity(c, r) THEN Says(c).severity[r] ELSE DecidedSeverity(s, r)
         /\ \A l, r : DecidedScope(t, l, r) =
                     IF Own(c, l, r) # {} THEN OwnScope(c, l, r) ELSE DecidedScope(s, l, r)
         /\ Silent(t) <=> Silent(s) /\ ~ Usable(c)
<1> DEFINE t == Append(s, c)
           one == << c >>
<1>1. one \in Seq(Config)
  BY AtOne
<1>2. t = s \o one /\ t \in Seq(Config)
  OBVIOUS
<1>3. /\ \A k : c \in OptionSayers(k) <=> SaysOption(c, k)
      /\ \A r : c \in SeveritySayers(r) <=> SaysSeverity(c, r)
      /\ \A l, r : c \in ScopeSayers(l, r) <=> Own(c, l, r) # {}
  BY DEF OptionSayers, SeveritySayers, ScopeSayers
<1>4. \A P : /\ At(one, P) = {} <=> c \notin P
             /\ c \in P => Latest(one, P) = c
  BY AtOne
<1> HIDE DEF one, t
<1>5. ASSUME NEW k
      PROVE  DecidedOption(t, k) =
               IF SaysOption(c, k) THEN stanza[c].option[k] ELSE DecidedOption(s, k)
  BY <1>1, <1>2, <1>3, <1>4, DecidedConcat DEF DecidedOption
<1>6. ASSUME NEW r
      PROVE  DecidedSeverity(t, r) =
               IF SaysSeverity(c, r) THEN Says(c).severity[r] ELSE DecidedSeverity(s, r)
  BY <1>1, <1>2, <1>3, <1>4, DecidedConcat DEF DecidedSeverity
<1>7. ASSUME NEW l, NEW r
      PROVE  DecidedScope(t, l, r) =
               IF Own(c, l, r) # {} THEN OwnScope(c, l, r) ELSE DecidedScope(s, l, r)
  <2> DEFINE P == ScopeSayers(l, r)
  <2>1. /\ At(one, P) = {} <=> ~ Own(c, l, r) # {}
        /\ Own(c, l, r) # {} => Latest(one, P) = c
    BY <1>3, <1>4
  <2>2. DecidedScope(t, l, r) =
          IF At(one, P) = {} THEN DecidedScope(s, l, r) ELSE DecidedScope(one, l, r)
    BY <1>1, <1>2, DecidedConcat
  <2>3. DecidedScope(one, l, r) = IF At(one, P) = {} THEN Unset ELSE OwnScope(Latest(one, P), l, r)
    BY DEF DecidedScope
  <2> HIDE DEF P
  <2> QED BY <2>1, <2>2, <2>3
<1>8. Silent(t) <=> Silent(s) /\ ~ Usable(c)
  <2>1. Silent(one) <=> ~ Usable(c)
    BY <1>1, <1>4, SilentAt
  <2> QED BY <1>1, <1>2, <2>1, DecidedConcat
<1> QED BY <1>2, <1>5, <1>6, <1>7, <1>8 DEF t, one

LEMMA DecidedMoves ==
  ASSUME NEW options \in Options \cup {Nil}, NEW raw, NEW d \in Int, NEW e \in Int, NEW s,
         Decided(options, d, s)
  PROVE  Decided(MergeEffectCompilerOptions(Nil, options, raw, d - e), e, s)
<1>1. CASE options = Nil
  BY <1>1 DEF MergeEffectCompilerOptions, Decided
<1>2. CASE options # Nil
  <2> DEFINE moved == RewriteOptionsOverrides(options, d - e)
  <2>1. MergeEffectCompilerOptions(Nil, options, raw, d - e) = moved
    BY <1>2 DEF MergeEffectCompilerOptions
  <2>2. moved # Nil
    BY <1>2, RewriteType, NilIsNone
  <2>3. moved.option = options.option /\ moved.severity = options.severity
    BY DEF RewriteOptionsOverrides
  <2>4. \A l, r : Scoped(moved.overrides, e, l, r) = Scoped(options.overrides, d, l, r)
    BY <1>2, ScopedMoves
  <2> HIDE DEF moved
  <2> QED BY <1>2, <2>1, <2>2, <2>3, <2>4 DEF Decided
<1> QED BY <1>1, <1>2

(***************************************************************************)
(* Options that say what config c does: those its entry is parsed to, and  *)
(* those it passes on when all it extends is silent.  Merged into others,  *)
(* they win where c says something, and leave the others elsewhere.        *)
(***************************************************************************)
SayWhat(o, c, d) ==
  /\ \A k \in Key : o.option[k] = IF SaysOption(c, k) THEN stanza[c].option[k] ELSE Default[k]
  /\ \A r \in Rule : o.severity[r] = IF SaysSeverity(c, r) THEN Says(c).severity[r] ELSE Unset
  /\ \A l \in Int, r \in Rule : Scoped(o.overrides, d, l, r) =
       IF Own(c, l, r) # {} THEN OwnScope(c, l, r) ELSE Unset

\* What c says is laid over the target, as files are seen from directory e.
Laid(merged, c, target, e) ==
  /\ merged # Nil
  /\ \A k \in Key : merged.option[k] =
       IF SaysOption(c, k) THEN stanza[c].option[k]
       ELSE IF target = Nil THEN Default[k] ELSE target.option[k]
  /\ \A r \in Rule : merged.severity[r] =
       IF SaysSeverity(c, r) THEN Says(c).severity[r]
       ELSE IF target = Nil THEN Unset ELSE target.severity[r]
  /\ \A l \in Int, r \in Rule : Scoped(merged.overrides, e, l, r) =
       IF Own(c, l, r) # {} THEN OwnScope(c, l, r)
       ELSE IF target = Nil THEN Unset ELSE Scoped(target.overrides, e, l, r)

LEMMA UsableEntry ==
  ASSUME TypeOK, NEW c \in Config, Usable(c)
  PROVE  /\ stanza[c] \in Stanza /\ stanza[c] # NoStanza /\ stanza[c].severity # Null
         /\ Says(c) \in Options /\ Says(c) # Nil /\ Says(c) = ParseFromPlugins(stanza[c])
         /\ Says(c).option = [k \in Key |-> IF stanza[c].option[k] = Unset THEN Default[k]
                                            ELSE stanza[c].option[k]]
         /\ Says(c).severity = IF stanza[c].severity = Unset THEN [r \in Rule |-> Unset]
                               ELSE stanza[c].severity
         /\ Says(c).overrides = IF stanza[c].overrides = Unset THEN << >>
                                ELSE stanza[c].overrides
         /\ Scopes(c) = Says(c).overrides
<1>1. PICK st \in Stanza : st = stanza[c]
  BY DEF TypeOK, Usable
<1>2. st # NoStanza /\ st.severity # Null
  BY <1>1, NilIsNone DEF Usable
<1>3. PICK o \in Options : o = ParseFromPlugins(st)
  BY <1>1, ParseType DEF Usable
<1>4. /\ o.option = [k \in Key |-> IF st.option[k] = Unset THEN Default[k] ELSE st.option[k]]
      /\ o.severity = IF st.severity = Unset THEN [r \in Rule |-> Unset] ELSE st.severity
      /\ o.overrides = IF st.overrides = Unset THEN << >> ELSE st.overrides
  BY <1>2, <1>3 DEF ParseFromPlugins
<1> QED BY <1>1, <1>2, <1>3, <1>4, NilIsNone DEF Says, Scopes

LEMMA ParsedSays ==
  ASSUME TypeOK, NEW c \in Config, Usable(c)
  PROVE  SayWhat(Says(c), c, dir[c])
<1>1. PICK o \in Options : o = Says(c)
  BY UsableEntry
<1>2. o.overrides \in Seq(Override)
  BY DEF Options
<1>3. \A k \in Key : o.option[k] = IF SaysOption(c, k) THEN stanza[c].option[k] ELSE Default[k]
  BY <1>1, UsableEntry DEF SaysOption
<1>4. \A r \in Rule : o.severity[r] = IF SaysSeverity(c, r) THEN Says(c).severity[r] ELSE Unset
  BY <1>1 DEF SaysSeverity
<1>5. ASSUME NEW l, NEW r
      PROVE  Scoped(o.overrides, dir[c], l, r) = IF Own(c, l, r) # {} THEN OwnScope(c, l, r) ELSE Unset
  <2>1. Scopes(c) = o.overrides
    BY <1>1, UsableEntry
  <2>2. Scoped(o.overrides, dir[c], l, r) = Unset <=> Setting(o.overrides, dir[c], l, r) = {}
    BY <1>2, ScopedSets
  <2> QED BY <2>1, <2>2 DEF Own, OwnScope
<1> QED BY <1>1, <1>3, <1>4, <1>5 DEF SayWhat

LEMMA SaysMerge ==
  ASSUME TypeOK, NEW c \in Config, Usable(c), NEW target \in Options \cup {Nil},
         NEW o \in Options, NEW d \in Int, NEW e \in Int, SayWhat(o, c, d),
         NEW merged, merged = MergeEffectCompilerOptions(target, o, stanza[c], d - e)
  PROVE  Laid(merged, c, target, e)
<1>1. PICK st \in Stanza : st = stanza[c] /\ st # NoStanza
  BY UsableEntry
<1> DEFINE moved == RewriteOptionsOverrides(o, d - e)
<1>2. o # Nil
  BY NilIsNone
<1>3. /\ \A k : SaysOption(c, k) <=> st.option[k] # Unset
      /\ st.severity = Unset => \A r \in Rule : ~ SaysSeverity(c, r)
      /\ st.overrides = Unset => \A l, r : Own(c, l, r) = {}
  <2>1. \A k : SaysOption(c, k) <=> st.option[k] # Unset
    BY <1>1 DEF SaysOption
  <2>2. ASSUME st.severity = Unset PROVE \A r \in Rule : ~ SaysSeverity(c, r)
    BY <1>1, <2>2, UsableEntry DEF SaysSeverity
  <2>3. ASSUME st.overrides = Unset PROVE \A l, r : Own(c, l, r) = {}
    <3>1. Scopes(c) = << >>
      BY <1>1, <2>3, UsableEntry
    <3> QED BY <3>1 DEF Own, Setting
  <2> QED BY <2>1, <2>2, <2>3
<1>4. moved \in Options /\ moved.option = o.option /\ moved.severity = o.severity
  <2>1. d - e \in Int
    OBVIOUS
  <2>2. moved \in Options
    BY <2>1, RewriteType
  <2>3. moved.option = o.option /\ moved.severity = o.severity
    BY DEF RewriteOptionsOverrides
  <2> QED BY <2>2, <2>3
<1>5. \A l, r : Scoped(moved.overrides, e, l, r) = Scoped(o.overrides, d, l, r)
  BY ScopedMoves
<1>6. moved.overrides \in Seq(Override)
  BY <1>4 DEF Options
<1>7. \A l, r : Own(c, l, r) # {} => OwnScope(c, l, r) # Unset
  <2>1. Scopes(c) \in Seq(Override)
    BY UsableEntry DEF Options
  <2> QED BY <2>1, ScopedSets DEF Own, OwnScope
<1> HIDE DEF moved
<1>8. CASE target = Nil
  <2>1. merged = moved
    BY <1>1, <1>2, <1>8 DEF MergeEffectCompilerOptions, moved
  <2>2. merged # Nil
    BY <1>4, <2>1, NilIsNone
  <2> QED BY <1>1, <1>4, <1>5, <1>8, <2>1, <2>2 DEF SayWhat, Laid
<1>9. CASE target # Nil
  <2>1. merged = MergeOptions(target, moved, st)
    BY <1>1, <1>2, <1>9 DEF MergeEffectCompilerOptions, moved
  <2>2. merged \in Options /\ target.overrides \in Seq(Override)
    <3>1. PICK t \in Options : t = target
      BY <1>9
    <3>2. MergeOptions(t, moved, st) \in Options
      BY <1>4, MergeOptionsType
    <3>3. t.overrides \in Seq(Override)
      BY DEF Options
    <3> QED BY <2>1, <3>1, <3>2, <3>3
  <2>3. merged # Nil
    BY <2>2, NilIsNone
  <2>4. \A k \in Key : merged.option[k] =
          IF SaysOption(c, k) THEN stanza[c].option[k] ELSE target.option[k]
    BY <1>1, <1>3, <1>4, <2>1 DEF MergeOptions, SayWhat
  <2>5. \A r \in Rule : merged.severity[r] =
          IF SaysSeverity(c, r) THEN Says(c).severity[r] ELSE target.severity[r]
    <3>1. merged.severity = IF st.severity = Unset THEN target.severity
                            ELSE MergeSeverityMaps(target.severity, moved.severity)
      BY <2>1 DEF MergeOptions
    <3>2. CASE st.severity = Unset
      BY <1>3, <3>1, <3>2
    <3>3. CASE st.severity # Unset
      <4>1. \A r \in Rule : o.severity[r] =
              IF SaysSeverity(c, r) THEN Says(c).severity[r] ELSE Unset
        BY DEF SayWhat
      <4>2. \A r : SaysSeverity(c, r) => Says(c).severity[r] # Unset
        BY DEF SaysSeverity
      <4> QED BY <1>4, <3>1, <3>3, <4>1, <4>2 DEF MergeSeverityMaps
    <3> QED BY <3>2, <3>3
  <2>6. merged.overrides = IF st.overrides = Unset THEN target.overrides
                           ELSE target.overrides \o moved.overrides
    <3>1. MergeOptions(target, moved, st).overrides =
            IF st.overrides = Unset THEN target.overrides ELSE target.overrides \o moved.overrides
      BY DEF MergeOptions
    <3> QED BY <2>1, <3>1
  <2>7. ASSUME NEW l \in Int, NEW r \in Rule
        PROVE  Scoped(merged.overrides, e, l, r) =
                 IF Own(c, l, r) # {} THEN OwnScope(c, l, r) ELSE Scoped(target.overrides, e, l, r)
    <3>1. CASE st.overrides = Unset
      BY <1>3, <2>6, <3>1
    <3>2. CASE st.overrides # Unset
      <4>1. Scoped(target.overrides \o moved.overrides, e, l, r) =
              IF Setting(moved.overrides, e, l, r) = {} THEN Scoped(target.overrides, e, l, r)
              ELSE Scoped(moved.overrides, e, l, r)
        BY <1>6, <2>2, ScopedConcat
      <4>2. Scoped(moved.overrides, e, l, r) = Unset <=> Setting(moved.overrides, e, l, r) = {}
        BY <1>6, ScopedSets
      <4>3. Scoped(moved.overrides, e, l, r) =
              IF Own(c, l, r) # {} THEN OwnScope(c, l, r) ELSE Unset
        BY <1>5 DEF SayWhat
      <4> QED BY <1>7, <2>6, <3>2, <4>1, <4>2, <4>3
    <3> QED BY <3>1, <3>2
  <2> QED BY <1>1, <1>9, <2>3, <2>4, <2>5, <2>7 DEF Laid
<1> QED BY <1>8, <1>9

\* Merging what c says, and nothing else, over what the configs s decide.
LEMMA DecidedStep ==
  ASSUME TypeOK, NEW c \in Config, Usable(c), NEW s \in Seq(Config),
         NEW target \in Options \cup {Nil}, NEW o \in Options, NEW d \in Int, NEW e \in Int,
         Decided(target, e, s), SayWhat(o, c, d)
  PROVE  Decided(MergeEffectCompilerOptions(target, o, stanza[c], d - e), e, Append(s, c))
<1> DEFINE t == Append(s, c)
<1>1. PICK merged : merged = MergeEffectCompilerOptions(target, o, stanza[c], d - e)
  OBVIOUS
<1>2. /\ \A k : DecidedOption(t, k) =
            IF SaysOption(c, k) THEN stanza[c].option[k] ELSE DecidedOption(s, k)
      /\ \A r : DecidedSeverity(t, r) =
            IF SaysSeverity(c, r) THEN Says(c).severity[r] ELSE DecidedSeverity(s, r)
      /\ \A l, r : DecidedScope(t, l, r) =
            IF Own(c, l, r) # {} THEN OwnScope(c, l, r) ELSE DecidedScope(s, l, r)
      /\ ~ Silent(t)
  BY DecidedLast
<1>3. Laid(merged, c, target, e)
  BY <1>1, SaysMerge
<1> HIDE DEF t
<1>4. /\ \A k \in Key : DecidedOption(s, k) =
           IF target = Nil THEN Default[k] ELSE target.option[k]
      /\ \A r \in Rule : DecidedSeverity(s, r) =
           IF target = Nil THEN Unset ELSE target.severity[r]
      /\ \A l \in Int, r \in Rule : DecidedScope(s, l, r) =
           IF target = Nil THEN Unset ELSE Scoped(target.overrides, e, l, r)
  <2>1. CASE target = Nil
    <3>1. Silent(s)
      BY <2>1 DEF Decided
    <3> QED BY <2>1, <3>1, DecidedNone
  <2>2. CASE target # Nil
    BY <2>2 DEF Decided
  <2> QED BY <2>1, <2>2
<1>5. Decided(merged, e, t)
  BY <1>2, <1>3, <1>4 DEF Decided, Laid
<1> QED BY <1>1, <1>5 DEF t

\* A config's own options over what it inherits.
LEMMA OwnDecided ==
  ASSUME TypeOK, NEW c \in Config, NEW s \in Seq(Config),
         NEW target \in Options \cup {Nil}, Decided(target, dir[c], s)
  PROVE  Decided(MergeEffectCompilerOptions(target, ParseFromPlugins(stanza[c]), stanza[c], 0),
                 dir[c], Append(s, c))
<1>1. CASE ~ Usable(c)
  <2>1. ParseFromPlugins(stanza[c]) = Nil
    BY <1>1, ParseType DEF Usable, TypeOK
  <2>2. << c >> \in Seq(Config) /\ Silent(<< c >>) /\ Append(s, c) = s \o << c >>
    BY <1>1 DEF Silent
  <2>3. Decided(target, dir[c], s \o << c >>)
    BY <2>2, DecidedBeforeSilent
  <2> QED BY <2>1, <2>2, <2>3 DEF MergeEffectCompilerOptions
<1>2. CASE Usable(c)
  <2>1. PICK d \in Int : d = dir[c]
    BY DEF TypeOK
  <2>2. /\ SayWhat(Says(c), c, d) /\ Says(c) \in Options
        /\ Says(c) = ParseFromPlugins(stanza[c])
    BY <1>2, <2>1, ParsedSays, UsableEntry
  <2>3. Decided(MergeEffectCompilerOptions(target, Says(c), stanza[c], d - d), d, Append(s, c))
    BY <1>2, <2>1, <2>2, DecidedStep
  <2>4. d - d = 0
    OBVIOUS
  <2> QED BY <2>1, <2>2, <2>3, <2>4
<1> QED BY <1>1, <1>2

\* What config x came to, merged into what the configs s before it did: it
\* replaces nothing, or has nothing to pass on but its own entry.
LEMMA InheritedDecided ==
  ASSUME TypeOK, NEW x \in Config, NEW s \in Seq(Config), NEW u \in Seq(Config),
         NEW target \in Options \cup {Nil}, NEW options \in Options \cup {Nil}, NEW e \in Int,
         Decided(target, e, s), Decided(options, dir[x], Append(u, x)),
         IsNull(x) => Silent(s),
         Silent(s) \/ Silent(u)
  PROVE  Decided(MergeEffectCompilerOptions(target, options, stanza[x], dir[x] - e), e,
                 s \o Append(u, x))
<1>1. PICK d \in Int : d = dir[x]
  BY DEF TypeOK
<1> DEFINE t == Append(u, x)
           merged == MergeEffectCompilerOptions(target, options, stanza[x], d - e)
<1>2. t \in Seq(Config) /\ (Silent(t) <=> Silent(u) /\ ~ Usable(x))
  BY DecidedLast
<1>3. CASE Silent(s)
  <2>1. target = Nil
    BY <1>3 DEF Decided
  <2>2. Decided(merged, e, t)
    BY <1>1, <2>1, DecidedMoves
  <2> HIDE DEF merged, t
  <2>3. Decided(merged, e, s \o t)
    BY <1>2, <1>3, <2>2, DecidedAfterSilent
  <2> QED BY <1>1, <2>3 DEF merged, t
<1>4. CASE ~ Silent(s) /\ ~ Usable(x)
  <2>1. Silent(t)
    BY <1>2, <1>4
  <2>2. options = Nil
    BY <2>1 DEF Decided
  <2>3. merged = target
    BY <2>2 DEF MergeEffectCompilerOptions
  <2> HIDE DEF merged, t
  <2>4. Decided(merged, e, s \o t)
    BY <1>2, <2>1, <2>3, DecidedBeforeSilent
  <2> QED BY <1>1, <2>4 DEF merged, t
<1>5. CASE ~ Silent(s) /\ Usable(x)
  <2>1. Silent(u)
    BY <1>5
  <2>2. SayWhat(options, x, d) /\ options \in Options
    <3>1. options # Nil /\ options \in Options
      BY <1>2, <1>5 DEF Decided
    <3>2. /\ \A k : DecidedOption(u, k) = Default[k]
          /\ \A r : DecidedSeverity(u, r) = Unset
          /\ \A l, r : DecidedScope(u, l, r) = Unset
      BY <2>1, DecidedNone
    <3>3. /\ \A k : DecidedOption(t, k) =
                IF SaysOption(x, k) THEN stanza[x].option[k] ELSE DecidedOption(u, k)
          /\ \A r : DecidedSeverity(t, r) =
                IF SaysSeverity(x, r) THEN Says(x).severity[r] ELSE DecidedSeverity(u, r)
          /\ \A l, r : DecidedScope(t, l, r) =
                IF Own(x, l, r) # {} THEN OwnScope(x, l, r) ELSE DecidedScope(u, l, r)
      BY DecidedLast
    <3> HIDE DEF t
    <3>4. Decided(options, d, t)
      BY <1>1 DEF t
    <3> QED BY <3>1, <3>2, <3>3, <3>4 DEF SayWhat, Decided
  <2>3. Decided(merged, e, Append(s, x))
    BY <1>1, <1>5, <2>2, DecidedStep
  <2> HIDE DEF merged
  <2>4. Decided(merged, e, s \o t)
    <3>1. /\ s \o u \in Seq(Config) /\ s \o t = Append(s \o u, x)
      BY ConcatProperties
    <3>2. /\ \A k : DecidedOption(s \o u, k) = DecidedOption(s, k)
          /\ \A r : DecidedSeverity(s \o u, r) = DecidedSeverity(s, r)
          /\ \A l, r : DecidedScope(s \o u, l, r) = DecidedScope(s, l, r)
          /\ Silent(s \o u) <=> Silent(s)
      BY <2>1, DecidedConcat, SilentAt
    <3> DEFINE a == Append(s, x)
               b == Append(s \o u, x)
    <3>3. /\ \A k : DecidedOption(b, k) = DecidedOption(a, k)
          /\ \A r : DecidedSeverity(b, r) = DecidedSeverity(a, r)
          /\ \A l, r : DecidedScope(b, l, r) = DecidedScope(a, l, r)
          /\ Silent(b) <=> Silent(a)
      <4>1. ASSUME NEW k PROVE DecidedOption(b, k) = DecidedOption(a, k)
        <5>1. DecidedOption(a, k) =
                IF SaysOption(x, k) THEN stanza[x].option[k] ELSE DecidedOption(s, k)
          BY DecidedLast
        <5>2. DecidedOption(b, k) =
                IF SaysOption(x, k) THEN stanza[x].option[k] ELSE DecidedOption(s \o u, k)
          BY <3>1, DecidedLast
        <5> HIDE DEF a, b
        <5> QED BY <3>2, <5>1, <5>2
      <4>2. ASSUME NEW r PROVE DecidedSeverity(b, r) = DecidedSeverity(a, r)
        <5>1. DecidedSeverity(a, r) =
                IF SaysSeverity(x, r) THEN Says(x).severity[r] ELSE DecidedSeverity(s, r)
          BY DecidedLast
        <5>2. DecidedSeverity(b, r) =
                IF SaysSeverity(x, r) THEN Says(x).severity[r] ELSE DecidedSeverity(s \o u, r)
          BY <3>1, DecidedLast
        <5> HIDE DEF a, b
        <5> QED BY <3>2, <5>1, <5>2
      <4>3. ASSUME NEW l, NEW r PROVE DecidedScope(b, l, r) = DecidedScope(a, l, r)
        <5>1. \A l1, r1 : DecidedScope(a, l1, r1) =
                IF Own(x, l1, r1) # {} THEN OwnScope(x, l1, r1) ELSE DecidedScope(s, l1, r1)
          BY DecidedLast
        <5>2. \A l1, r1 : DecidedScope(b, l1, r1) =
                IF Own(x, l1, r1) # {} THEN OwnScope(x, l1, r1) ELSE DecidedScope(s \o u, l1, r1)
          BY <3>1, DecidedLast
        <5> HIDE DEF a, b
        <5> QED BY <3>2, <5>1, <5>2
      <4>4. Silent(b) <=> Silent(a)
        BY <3>1, <3>2, DecidedLast
      <4> QED BY <4>1, <4>2, <4>3, <4>4
    <3>4. Decided(merged, e, a)
      BY <2>3
    <3> HIDE DEF a, b
    <3>5. Decided(merged, e, b)
      BY <3>3, <3>4 DEF Decided
    <3> QED BY <3>1, <3>5 DEF b
  <2> QED BY <1>1, <2>4 DEF merged, t
<1> QED BY <1>3, <1>4, <1>5

-----------------------------------------------------------------------------
(***************************************************************************)
(* The invariant: parses in progress are linked by extends, and what a     *)
(* parse took so far is what the configs merged before its next one decide.*)
(***************************************************************************)
Settled == NullSettled /\ PassesOwn

Linked(s, j) ==
  j < Len(s) => /\ s[j].next <= Len(extends[s[j].config])
                /\ s[j + 1].config = extends[s[j].config][s[j].next]

FrameDecided(f) ==
  /\ f.next <= Len(extends[f.config]) + 1
  /\ Settled => Decided(f.options, dir[f.config], Before(f.config, f.next))

StackDecided == \A j \in DOMAIN stack : Linked(stack, j) /\ FrameDecided(stack[j])

DoneDecided == done => RootDecides /\ (Settled => Decided(result, dir[Last], Order[Last]))

LEMMA DecidedStays ==
  ASSUME UNCHANGED inputs
  PROVE  /\ Order' = Order /\ (Settled' <=> Settled)
         /\ \A c, n : Before(c, n)' = Before(c, n)
         /\ \A options, d, s : Decided(options, d, s)' <=> Decided(options, d, s)
<1>1. extends' = extends /\ stanza' = stanza /\ dir' = dir
  BY DEF inputs
<1>2. Order' = Order
  BY <1>1 DEF Order
<1>3. \A c : /\ Usable(c)' <=> Usable(c)
             /\ Says(c)' = Says(c)
             /\ Scopes(c)' = Scopes(c)
             /\ IsNull(c)' <=> IsNull(c)
  BY <1>1 DEF Usable, Says, Scopes, IsNull
<1>4. \A c, n : Before(c, n)' = Before(c, n)
  BY <1>1, <1>2 DEF Before
<1>5. \A s : Silent(s)' <=> Silent(s)
  BY <1>3 DEF Silent
<1>6. Settled' <=> Settled
  <2>1. \A c : Inherited(c)' = Inherited(c)
    BY <1>1, <1>4 DEF Inherited
  <2>2. NullSettled' <=> NullSettled
    BY <1>1, <1>3, <1>4, <1>5, <2>1 DEF NullSettled
  <2>3. PassesOwn' <=> PassesOwn
    BY <1>1, <1>4, <1>5, <2>1 DEF PassesOwn
  <2> QED BY <2>2, <2>3 DEF Settled
<1>7. \A s, k : DecidedOption(s, k)' = DecidedOption(s, k)
  <2>1. \A k : OptionSayers(k)' = OptionSayers(k)
    BY <1>1, <1>3 DEF SaysOption, OptionSayers
  <2> QED BY <1>1, <2>1 DEF DecidedOption, At, Latest
<1>8. \A s, r : DecidedSeverity(s, r)' = DecidedSeverity(s, r)
  <2>1. \A r : SeveritySayers(r)' = SeveritySayers(r)
    BY <1>3 DEF SaysSeverity, SeveritySayers
  <2> QED BY <1>3, <2>1 DEF DecidedSeverity, At, Latest
<1>9. \A s, l, r : DecidedScope(s, l, r)' = DecidedScope(s, l, r)
  <2>1. \A c, l, r : Own(c, l, r)' = Own(c, l, r) /\ OwnScope(c, l, r)' = OwnScope(c, l, r)
    BY <1>1, <1>3 DEF Own, OwnScope
  <2>2. \A l, r : ScopeSayers(l, r)' = ScopeSayers(l, r)
    BY <2>1 DEF ScopeSayers
  <2> QED BY <2>1, <2>2 DEF DecidedScope, At, Latest
<1>10. \A options, d, s : Decided(options, d, s)' <=> Decided(options, d, s)
  BY <1>5, <1>7, <1>8, <1>9 DEF Decided
<1> QED BY <1>2, <1>4, <1>6, <1>10

LEMMA StackStaysDecided ==
  ASSUME UNCHANGED inputs, NEW s, stack' = s,
         \A j \in DOMAIN s : Linked(s, j) /\ FrameDecided(s[j])
  PROVE  StackDecided'
BY DecidedStays DEF StackDecided, Linked, FrameDecided, inputs

LEMMA DoneStaysDecided ==
  ASSUME UNCHANGED inputs, UNCHANGED <<result, done>>, DoneDecided
  PROVE  DoneDecided'
<1>1. extends' = extends /\ stanza' = stanza /\ dir' = dir /\ result' = result /\ done' = done
  BY DEF inputs
<1>2. RootDecides' <=> RootDecides
  <2>1. \A k : SaysOption(Last, k)' <=> SaysOption(Last, k)
    BY <1>1 DEF SaysOption, Usable
  <2>2. Says(Last)' = Says(Last)
    BY <1>1 DEF Says, Usable
  <2>3. \A r : SaysSeverity(Last, r)' <=> SaysSeverity(Last, r)
    BY <1>1, <2>2 DEF SaysSeverity, Usable
  <2> QED BY <1>1, <2>1, <2>2, <2>3 DEF RootDecides
<1> QED BY <1>1, <1>2, DecidedStays DEF DoneDecided

\* What a parse comes to when all it extends is merged.
LEMMA TopDecided ==
  ASSUME TypeOK, Descending, StackDecided, Settled,
         Len(stack) >= 1, Top.next > Len(extends[Top.config])
  PROVE  Decided(Merged, dir[Top.config], Order[Top.config])
<1>1. /\ Top \in Frame /\ Top.config \in Config /\ Len(stack) \in DOMAIN stack
  BY TopType
<1>2. PICK c \in Config : c = Top.config
  BY <1>1
<1>3. /\ Len(extends[c]) \in Nat /\ Len(extends[c]) + 1 \in 1 .. Len(extends[c]) + 1
  BY ExtendsType
<1>4. Top.next \in Nat /\ Top.options \in Options \cup {Nil}
  BY <1>1 DEF Frame
<1>5. FrameDecided(Top)
  BY <1>1 DEF StackDecided, Top
<1>6. Top.next = Len(extends[c]) + 1
  BY <1>2, <1>3, <1>4, <1>5 DEF FrameDecided
<1>7. Decided(Top.options, dir[c], Inherited(c))
  BY <1>2, <1>5, <1>6 DEF FrameDecided, Inherited
<1>8. PICK s \in Seq(Config) : s = Inherited(c) /\ Order[c] = Append(s, c)
  <2>1. Inherited(c) \in Seq(Config)
    BY <1>3, BeforeIs DEF Inherited
  <2> QED BY <2>1, BeforeIs
<1>9. PICK target \in Options \cup {Nil} : target = Top.options
  BY <1>4
<1>10. Decided(MergeEffectCompilerOptions(target, ParseFromPlugins(stanza[c]), stanza[c], 0),
               dir[c], Append(s, c))
  BY <1>7, <1>8, <1>9, OwnDecided
<1> QED BY <1>2, <1>8, <1>9, <1>10 DEF Merged

\* What the root says itself is in its options, whatever it extends.
LEMMA RootMerged ==
  ASSUME TypeOK, Len(stack) >= 1, Top.config = Last
  PROVE  /\ \A k \in Key : SaysOption(Last, k) => Merged.option[k] = stanza[Last].option[k]
         /\ \A r \in Rule : SaysSeverity(Last, r) => Merged.severity[r] = Says(Last).severity[r]
<1>1. Last \in Config /\ Top.options \in Options \cup {Nil}
  BY TopType DEF Frame
<1>2. CASE Usable(Last)
  <2>1. PICK target \in Options \cup {Nil} : target = Top.options
    BY <1>1
  <2>2. PICK d \in Int : d = dir[Last]
    BY <1>1 DEF TypeOK
  <2>3. PICK o \in Options : o = Says(Last)
    BY <1>1, <1>2, UsableEntry
  <2>4. SayWhat(o, Last, d) /\ o = ParseFromPlugins(stanza[Last])
    BY <1>1, <1>2, <2>2, <2>3, ParsedSays, UsableEntry
  <2>5. d - d = 0
    OBVIOUS
  <2>6. Merged = MergeEffectCompilerOptions(target, o, stanza[Last], d - d)
    BY <2>1, <2>4, <2>5 DEF Merged
  <2>7. PICK merged : merged = Merged
    OBVIOUS
  <2>8. Laid(merged, Last, target, d)
    BY <1>1, <1>2, <2>4, <2>6, <2>7, SaysMerge
  <2> QED BY <2>7, <2>8 DEF Laid
<1>3. CASE ~ Usable(Last)
  BY <1>3 DEF SaysOption, SaysSeverity
<1> QED BY <1>2, <1>3

LEMMA ParseDecided ==
  ASSUME TypeOK, Descending, StackDecided, NEW c \in Config, UNCHANGED inputs, stack' = Parse(c),
         stack # << >> =>
           Top.next <= Len(extends[Top.config]) /\ c = extends[Top.config][Top.next]
  PROVE  StackDecided'
<1> DEFINE f == [config |-> c, next |-> 1, options |-> Nil]
           s == Append(stack, f)
           m == Len(stack)
<1>1. f \in Frame /\ f.config = c /\ f.next = 1 /\ f.options = Nil
  BY DEF Frame
<1> HIDE DEF f, s, m
<1>2. /\ Len(s) = m + 1 /\ m \in Nat /\ DOMAIN s = 1 .. m + 1 /\ DOMAIN stack = 1 .. m
      /\ \A i \in 1 .. m : s[i] = stack[i]
      /\ s[m + 1] = f
  <2>1. /\ s \in Seq(Frame) /\ Len(s) = Len(stack) + 1
        /\ \A i \in 1 .. Len(stack) : s[i] = stack[i]
        /\ s[Len(stack) + 1] = f
    BY <1>1, AppendProperties DEF TypeOK, s
  <2> QED BY <2>1, LenProperties DEF TypeOK, m
<1>3. FrameDecided(f)
  <2>1. Len(extends[c]) \in Nat
    BY ExtendsType
  <2>2. Before(c, 1) = << >>
    BY BeforeIs
  <2>3. Decided(Nil, dir[c], << >>)
    BY DEF Decided, Silent
  <2> QED BY <1>1, <2>1, <2>2, <2>3 DEF FrameDecided
<1>4. ASSUME NEW j \in DOMAIN s PROVE Linked(s, j) /\ FrameDecided(s[j])
  <2>1. CASE j = m + 1
    BY <1>2, <1>3, <2>1 DEF Linked
  <2>2. CASE j = m /\ m # 0
    <3>1. stack # << >> /\ s[j] = Top /\ s[j + 1] = f /\ j \in DOMAIN stack /\ stack[j] = Top
      BY <1>2, <1>4, <2>2, EmptySeq DEF Top, m
    <3> QED BY <1>1, <3>1 DEF Linked, StackDecided
  <2>3. CASE j # m /\ j # m + 1
    <3>1. j \in 1 .. m /\ j + 1 \in 1 .. m /\ j < m
      BY <1>2, <1>4, <2>3
    <3>2. s[j] = stack[j] /\ s[j + 1] = stack[j + 1] /\ j \in DOMAIN stack
      BY <1>2, <3>1
    <3>3. Linked(stack, j) /\ FrameDecided(stack[j])
      BY <3>2 DEF StackDecided
    <3> QED BY <3>1, <3>2, <3>3 DEF Linked, m
  <2> QED BY <1>2, <1>4, <2>1, <2>2, <2>3
<1>5. stack' = s
  BY DEF Parse, s, f
<1> QED BY <1>4, <1>5, StackStaysDecided

LEMMA MergeDecided ==
  ASSUME TypeOK, Descending, StackDecided, MergeExtended
  PROVE  StackDecided'
<1> DEFINE n == Len(stack) - 1
           f == stack[n]
           o == MergeEffectCompilerOptions(f.options, Merged, stanza[Top.config],
                                           dir[Top.config] - dir[f.config])
<1>1. /\ Len(stack) \in Nat /\ Len(stack) > 1 /\ n \in Nat \ {0} /\ n < Len(stack)
      /\ n + 1 = Len(stack) /\ DOMAIN stack = 1 .. Len(stack)
  BY LenProperties DEF TypeOK, MergeExtended
<1>2. /\ n \in DOMAIN stack /\ f \in Frame
      /\ stack' \in Seq(Frame) /\ DOMAIN stack' = 1 .. n
      /\ \A j \in 1 .. n - 1 : j \in DOMAIN stack /\ stack'[j] = stack[j]
      /\ stack'[n].config = f.config /\ stack'[n].next = f.next + 1 /\ stack'[n].options = o
  BY MergedFrame
<1>3. /\ f.next <= Len(extends[f.config]) /\ Top.config = extends[f.config][f.next]
      /\ FrameDecided(f)
  BY <1>1, <1>2 DEF StackDecided, Linked, Top
<1>4. f.config \in Config /\ f.next \in Nat \ {0}
  BY <1>2 DEF Frame
<1>5. Len(extends[f.config]) \in Nat
  <2>1. extends[f.config] \in Seq(Config)
    BY <1>4 DEF TypeOK
  <2> QED BY <2>1, LenProperties
<1>6. ASSUME Settled
      PROVE  Decided(o, dir[f.config], Before(f.config, f.next + 1))
  <2>1. PICK c \in Config : c = f.config
    BY <1>4
  <2>2. PICK n1 \in 1 .. Len(extends[c]) : n1 = f.next
    BY <1>3, <1>4, <1>5, <2>1
  <2>3. PICK x \in Config : x = extends[c][n1] /\ x = Top.config
    BY <1>3, <2>1, <2>2, ExtendsType
  <2>4. PICK e \in Int : e = dir[c]
    BY DEF TypeOK
  <2>5. PICK options \in Options \cup {Nil} : options = Merged /\ Decided(options, dir[x], Order[x])
    BY <1>1, <1>6, <2>3, TopDecided, TopType DEF MergeExtended
  <2>6. PICK target \in Options \cup {Nil} : target = f.options
    BY <1>2 DEF Frame
  <2>7. n1 \in 1 .. Len(extends[c]) + 1 /\ Len(extends[c]) \in Nat
    BY ExtendsType
  <2>8. PICK s \in Seq(Config) : s = Before(c, n1)
    BY <2>7, BeforeIs
  <2>9. PICK u \in Seq(Config) : u = Inherited(x) /\ Order[x] = Append(u, x)
    <3>1. Len(extends[x]) + 1 \in 1 .. Len(extends[x]) + 1
      BY ExtendsType
    <3>2. Inherited(x) \in Seq(Config)
      BY <3>1, BeforeIs DEF Inherited
    <3> QED BY <3>2, BeforeIs
  <2>10. Decided(target, e, s)
    BY <1>3, <1>6, <2>1, <2>2, <2>4, <2>6, <2>8 DEF FrameDecided
  <2>11. (IsNull(x) => Silent(s)) /\ (Silent(s) \/ Silent(u))
    <3>1. n1 \in DOMAIN extends[c]
      BY ExtendsType
    <3> QED BY <1>6, <2>3, <2>8, <2>9, <3>1 DEF Settled, NullSettled, PassesOwn
  <2>12. Decided(MergeEffectCompilerOptions(target, options, stanza[x], dir[x] - e), e,
                 s \o Append(u, x))
    BY <2>5, <2>9, <2>10, <2>11, InheritedDecided
  <2>13. Before(c, n1 + 1) = s \o Append(u, x)
    BY <2>3, <2>8, <2>9, BeforeIs
  <2> QED BY <2>1, <2>2, <2>3, <2>4, <2>5, <2>6, <2>12, <2>13
<1> HIDE DEF f, o
<1>7. PICK s \in Seq(Frame) : s = stack'
  BY <1>2
<1>8. FrameDecided(s[n])
  <2>1. s[n].next <= Len(extends[s[n].config]) + 1
    BY <1>2, <1>3, <1>4, <1>5, <1>7
  <2>2. s[n].config = f.config /\ s[n].next = f.next + 1 /\ s[n].options = o
    BY <1>2, <1>7
  <2> QED BY <1>6, <2>1, <2>2 DEF FrameDecided
<1> HIDE DEF n
<1>9. Len(s) = n
  BY <1>1, <1>2, <1>7, LenProperties
<1>10. ASSUME NEW j \in DOMAIN s PROVE Linked(s, j) /\ FrameDecided(s[j])
  <2>1. j \in 1 .. n
    BY <1>2, <1>7, <1>10
  <2>2. CASE j = n
    BY <1>8, <1>9, <2>2 DEF Linked
  <2>3. CASE j # n
    <3>1. j \in 1 .. n - 1 /\ j + 1 \in 1 .. n /\ j < n /\ j < Len(stack)
      BY <1>1, <2>1, <2>3
    <3>2. j \in DOMAIN stack /\ s[j] = stack[j]
      BY <1>2, <1>7, <3>1
    <3>3. s[j + 1].config = stack[j + 1].config
      <4>1. CASE j + 1 = n
        BY <1>2, <1>7, <4>1 DEF f
      <4>2. CASE j + 1 # n
        <5>1. j + 1 \in 1 .. n - 1
          BY <1>1, <3>1, <4>2
        <5> QED BY <1>2, <1>7, <5>1
      <4> QED BY <4>1, <4>2
    <3>4. Linked(stack, j) /\ FrameDecided(stack[j])
      BY <3>2 DEF StackDecided
    <3> QED BY <3>1, <3>2, <3>3, <3>4 DEF Linked
  <2> QED BY <2>2, <2>3
<1>11. UNCHANGED inputs
  BY DEF MergeExtended
<1> QED BY <1>7, <1>10, <1>11, StackStaysDecided

LEMMA FinishDecided ==
  ASSUME TypeOK, Descending, StackDecided, RootFirst, Finish
  PROVE  StackDecided' /\ DoneDecided'
<1>1. UNCHANGED inputs /\ stack' = << >> /\ result' = Merged /\ Len(stack) >= 1
  BY DEF Finish
<1>2. Top.config = Last
  BY <1>1, EmptySeq DEF RootFirst, Top, Finish
<1>3. Settled => Decided(Merged, dir[Last], Order[Last])
  BY <1>1, <1>2, TopDecided DEF Finish
<1>4. extends' = extends /\ stanza' = stanza /\ dir' = dir
  BY <1>1 DEF inputs
<1>5. PICK o : o = Merged
  OBVIOUS
<1>6. RootDecides'
  <2>1. Says(Last)' = Says(Last) /\ (Usable(Last)' <=> Usable(Last))
    BY <1>4 DEF Says, Usable
  <2>2. \A k : SaysOption(Last, k)' <=> SaysOption(Last, k)
    BY <1>4, <2>1 DEF SaysOption
  <2>3. \A r : SaysSeverity(Last, r)' <=> SaysSeverity(Last, r)
    BY <2>1 DEF SaysSeverity
  <2> QED BY <1>1, <1>2, <1>4, <2>1, <2>2, <2>3, RootMerged DEF RootDecides
<1>7. StackDecided'
  BY <1>1 DEF StackDecided
<1>8. DoneDecided'
  BY <1>1, <1>3, <1>4, <1>5, <1>6, DecidedStays DEF DoneDecided
<1> QED BY <1>7, <1>8

-----------------------------------------------------------------------------
(***************************************************************************)
(* What the configs decide in the order of their merges is what the file's *)
(* severities are resolved to.                                             *)
(***************************************************************************)
LEMMA ScopesType ==
  ASSUME TypeOK, NEW c \in Config
  PROVE  Scopes(c) \in Seq(Override)
<1>1. CASE Usable(c)
  <2>1. ParseFromPlugins(stanza[c]) \in Options
    BY <1>1, ParseType DEF TypeOK, Usable
  <2> QED BY <1>1, <2>1 DEF Scopes, Says, Options
<1>2. CASE ~ Usable(c)
  BY <1>2 DEF Scopes
<1> QED BY <1>1, <1>2

LEMMA FilesType == TypeOK => Files \subseteq Int
<1>1. SUFFICES ASSUME TypeOK,
                      NEW c \in Config, NEW i \in DOMAIN Scopes(c),
                      NEW s \in Scopes(c)[i].include \cup Scopes(c)[i].exclude
               PROVE  Place(s, dir[c]) \in Int
  BY DEF Files
<1>2. Scopes(c)[i] \in Override
  BY <1>1, ScopesType, LenProperties
<1>3. s \in FileSpec
  BY <1>1, <1>2 DEF Override
<1>4. dir[c] \in Int
  BY <1>1 DEF TypeOK
<1> QED BY <1>3, <1>4 DEF Place, FileSpec

LEMMA ResolvedSeverity ==
  ASSUME NEW options \in Options, NEW l, NEW r
  PROVE  ResolveSeverity(options, l, r) =
           IF Scoped(options.overrides, dir[Last], l, r) = Unset THEN options.severity[r]
           ELSE Scoped(options.overrides, dir[Last], l, r)
<1>1. options.overrides \in Seq(Override)
  BY DEF Options
<1>2. Scoped(options.overrides, dir[Last], l, r) = Unset <=>
        Setting(options.overrides, dir[Last], l, r) = {}
  BY <1>1, ScopedSets
<1>3. ResolveSeverity(options, l, r) =
        IF Setting(options.overrides, dir[Last], l, r) = {} THEN options.severity[r]
        ELSE options.overrides[Greatest(Setting(options.overrides, dir[Last], l, r))].severity[r]
  BY Zenon DEF ResolveSeverity, Setting, Greatest
<1> QED BY <1>2, <1>3 DEF Scoped

LEMMA ExpectedIsDecided ==
  ASSUME TypeOK, Descending
  PROVE  /\ \A k : ExpectedOption(k) = DecidedOption(Order[Last], k)
         /\ \A l, r : ExpectedSeverity(l, r) =
              IF DecidedScope(Order[Last], l, r) = Unset THEN DecidedSeverity(Order[Last], r)
              ELSE DecidedScope(Order[Last], l, r)
<1>1. Last \in Config
  BY LastType DEF Config
<1> DEFINE s == Order[Last]
<1>2. s \in Seq(Config)
  BY <1>1, OrderType
<1>3. \A p \in DOMAIN s : s[p] \in Config
  BY <1>2, LenProperties
<1>4. ASSUME NEW k PROVE ExpectedOption(k) = DecidedOption(s, k)
  <2> DEFINE setting == { p \in DOMAIN s : SaysOption(s[p], k) }
  <2>1. ExpectedOption(k) =
          IF setting = {} THEN Default[k] ELSE stanza[s[Greatest(setting)]].option[k]
    BY Zenon DEF ExpectedOption
  <2>2. setting = At(s, OptionSayers(k))
    BY <1>3 DEF At, OptionSayers
  <2> HIDE DEF setting, s
  <2> QED BY <2>1, <2>2 DEF DecidedOption, Latest
<1>5. ASSUME NEW l, NEW r
      PROVE  ExpectedSeverity(l, r) =
               IF DecidedScope(s, l, r) = Unset THEN DecidedSeverity(s, r) ELSE DecidedScope(s, l, r)
  <2> DEFINE scoping == [p \in DOMAIN s |-> { i \in DOMAIN Scopes(s[p]) :
                                       /\ MatchesOverride(Scopes(s[p])[i], dir[s[p]], l)
                                       /\ Scopes(s[p])[i].severity[r] # Unset }]
             some    == { p \in DOMAIN s : scoping[p] # {} }
             setting == { p \in DOMAIN s : SaysSeverity(s[p], r) }
  <2>1. ExpectedSeverity(l, r) =
          IF some # {} THEN Scopes(s[Greatest(some)])[Greatest(scoping[Greatest(some)])].severity[r]
          ELSE IF setting # {} THEN Says(s[Greatest(setting)]).severity[r] ELSE Unset
    BY Zenon DEF ExpectedSeverity
  <2>2. setting = At(s, SeveritySayers(r))
    BY <1>3 DEF At, SeveritySayers
  <2>3. \A p \in DOMAIN s : scoping[p] = Own(s[p], l, r)
    BY DEF Own, Setting
  <2> HIDE DEF scoping, setting, s
  <2>4. some = At(s, ScopeSayers(l, r))
    BY <1>3, <2>3 DEF At, ScopeSayers
  <2> HIDE DEF some
  <2>5. CASE some = {}
    BY <2>1, <2>2, <2>4, <2>5 DEF DecidedScope, DecidedSeverity, Latest
  <2>6. CASE some # {}
    <3>1. PICK p \in DOMAIN s : p = Greatest(some)
      BY <1>2, <2>4, <2>6, LatestIn
    <3>2. PICK c \in Config : c = s[p] /\ c \in ScopeSayers(l, r) /\ c = Latest(s, ScopeSayers(l, r))
      BY <1>2, <2>4, <2>6, <3>1, LatestIn DEF Latest
    <3>3. Own(c, l, r) # {}
      BY <3>2 DEF ScopeSayers
    <3>4. Scopes(c) \in Seq(Override)
      BY ScopesType
    <3>5. OwnScope(c, l, r) # Unset
      BY <3>3, <3>4, ScopedSets DEF Own, OwnScope
    <3>6. OwnScope(c, l, r) = Scopes(c)[Greatest(Own(c, l, r))].severity[r]
      BY <3>3 DEF Scoped, Own, OwnScope
    <3>7. DecidedScope(s, l, r) = OwnScope(c, l, r)
      BY <2>4, <2>6, <3>2 DEF DecidedScope
    <3>8. scoping[p] = Own(c, l, r)
      BY <2>3, <3>2
    <3>9. ExpectedSeverity(l, r) = Scopes(c)[Greatest(Own(c, l, r))].severity[r]
      BY <2>1, <2>6, <3>1, <3>2, <3>8
    <3> QED BY <3>5, <3>6, <3>7, <3>9
  <2> QED BY <2>5, <2>6
<1> QED BY <1>4, <1>5

LEMMA DecidedIsNearest ==
  ASSUME TypeOK, Descending, Decided(result, dir[Last], Order[Last])
  PROVE  NearestDecides
<1>1. ASSUME result # Nil, NEW l \in Files, NEW r \in Rule
      PROVE  ResolveSeverity(result, l, r) = ExpectedSeverity(l, r)
  <2>1. result \in Options /\ l \in Int
    BY <1>1, FilesType DEF TypeOK
  <2>2. /\ Scoped(result.overrides, dir[Last], l, r) = DecidedScope(Order[Last], l, r)
        /\ result.severity[r] = DecidedSeverity(Order[Last], r)
    BY <1>1, <2>1 DEF Decided
  <2> QED BY <2>1, <2>2, ResolvedSeverity, ExpectedIsDecided
<1> QED BY <1>1, ExpectedIsDecided DEF NearestDecides, Decided

(***************************************************************************)
(* Of any configs that extend each other, in any directories, the last in  *)
(* the order of the merges that sets an option, a rule's severity or an    *)
(* override of it for the file decides (hooks.go:24, resolver.go:48),      *)
(* unless a null comes over what others set or a config passes on what it  *)
(* inherits to a list of several; the root's own entry wins in any case.   *)
(***************************************************************************)
THEOREM NearestConfigDecidesAlways == Spec => []NearestConfigDecides
<1> DEFINE Inv == Descending /\ StackDecided /\ DoneDecided
<1>1. Init => RootFirst /\ Inv
  <2>1. SUFFICES ASSUME Init PROVE RootFirst /\ Inv
    OBVIOUS
  <2>2. Descending
    BY <2>1 DEF Init, Descending
  <2> QED BY <2>1, <2>2 DEF Init, Start, RootFirst, StackDecided, DoneDecided
<1>2. TypeOK /\ RootFirst /\ Inv /\ [Next]_vars => RootFirst' /\ Inv'
  <2>1. SUFFICES ASSUME TypeOK, RootFirst, Inv, [Next]_vars PROVE RootFirst' /\ Inv'
    OBVIOUS
  <2>2. RootFirst'
    BY <2>1, RootStaysFirst
  <2>3. Descending'
    <3>1. extends' = extends
      BY <2>1 DEF Next, Begin, ParseExtended, MergeExtended, Finish, vars, inputs
    <3> QED BY <2>1, <3>1 DEF Descending
  <2>4. CASE Begin
    <3>1. Last \in Config
      BY LastType DEF Config
    <3> QED BY <2>1, <2>2, <2>3, <2>4, <3>1, ParseDecided, DoneStaysDecided DEF Begin
  <2>5. CASE ParseExtended
    <3>1. PICK c \in Config : c = extends[Top.config][Top.next]
      BY <2>1, <2>5, EmptyOrNot, ExtendedType DEF ParseExtended
    <3>2. /\ stack' = Parse(c) /\ UNCHANGED inputs /\ UNCHANGED <<result, done>>
          /\ Top.next <= Len(extends[Top.config])
      BY <2>5, <3>1 DEF ParseExtended
    <3> QED BY <2>1, <2>2, <2>3, <3>1, <3>2, ParseDecided, DoneStaysDecided
  <2>6. CASE MergeExtended
    <3>1. UNCHANGED inputs /\ UNCHANGED <<result, done>>
      BY <2>6 DEF MergeExtended
    <3> QED BY <2>1, <2>2, <2>3, <2>6, <3>1, MergeDecided, DoneStaysDecided
  <2>7. CASE Finish
    BY <2>1, <2>2, <2>3, <2>7, FinishDecided
  <2>8. CASE UNCHANGED vars
    <3>1. UNCHANGED inputs /\ UNCHANGED <<result, done>> /\ stack' = stack
      BY <2>8 DEF vars, inputs
    <3>2. StackDecided'
      BY <2>1, <3>1, StackStaysDecided DEF StackDecided
    <3> QED BY <2>1, <2>2, <2>3, <3>1, <3>2, DoneStaysDecided
  <2> QED BY <2>1, <2>4, <2>5, <2>6, <2>7, <2>8 DEF Next
<1>3. TypeOK /\ Inv => NearestConfigDecides
  BY DecidedIsNearest DEF NearestConfigDecides, DoneDecided, Settled
<1> QED BY <1>1, <1>2, <1>3, TypeCorrect, PTL DEF Spec
=============================================================================
