----------------------- MODULE StructuralSchemaProofs -----------------------
(***************************************************************************)
(* Proofs about StructuralSchema, for any types, programs and depth.       *)
(***************************************************************************)
EXTENDS StructuralSchema, SequenceTheorems, FiniteSetTheorems, TLAPS

\* What a statement may refer to once the present ones are printed.
Available == input.scope \cup { schemaStatements[i].name : i \in DOMAIN schemaStatements }

\* Whatever will end up in a statement refers to what is printed before it.
RefsAvailable ==
  /\ \A t \in DOMAIN hoistedSchemas : hoistedSchemas[t] \in Available
  /\ \A i \in DOMAIN stack : stack[i].refs \subseteq Available
  /\ \A i \in DOMAIN returned : returned[i].refs \subseteq Available
  /\ \A i \in DOMAIN results :
       \A k \in DOMAIN results[i].value : results[i].value[k].refs \subseteq Available

\* Only the last result may still wait, and only for calls that are under way.
ResultsAnswered ==
  /\ \A i \in DOMAIN results :
       \/ results[i].value # << >>
       \/ i = Len(results) /\ (called # << >> \/ stack # << >> \/ returned # << >>)
  /\ results = << >> => called = << >> /\ stack = << >> /\ returned = << >>

\* A requested type is only ever declared under a requested name, and no request is lost.
RequestsFollowed ==
  /\ \A i \in DOMAIN stack :
       RequestedAs(stack[i].type) # {} => stack[i].hoistName \in RequestedAs(stack[i].type)
  /\ \A t \in DOMAIN typeToStatementIndex :
       RequestedAs(t) # {} => schemaStatements[typeToStatementIndex[t]].name \in RequestedAs(t)
  /\ \A name \in DOMAIN input.requested :
       \/ name \in todo
       \/ input.requested[name] \in DOMAIN typeToStatementIndex
       \/ \E i \in DOMAIN results : results[i].name = name
  /\ pc = "done" => todo = {} /\ results = << >>

InputOK == input \in Programs

-----------------------------------------------------------------------------
(***************************************************************************)
(* Sequences: what the steps do to the stack, the results and the          *)
(* statements.                                                             *)
(***************************************************************************)
LEMMA Pushed ==
  ASSUME NEW S, NEW s \in Seq(S), NEW x \in S
  PROVE  /\ << x >> \o s \in Seq(S) /\ Len(<< x >> \o s) = Len(s) + 1 /\ << x >> \o s # << >>
         /\ \A i \in DOMAIN (<< x >> \o s) :
              (<< x >> \o s)[i] = x \/ \E j \in DOMAIN s : (<< x >> \o s)[i] = s[j]
<1>1. << x >> \in Seq(S) /\ Len(<< x >>) = 1 /\ << x >>[1] = x
  OBVIOUS
<1>2. /\ << x >> \o s \in Seq(S) /\ Len(<< x >> \o s) = 1 + Len(s)
      /\ \A i \in 1 .. (1 + Len(s)) : (<< x >> \o s)[i] = IF i <= 1 THEN << x >>[i] ELSE s[i - 1]
  BY <1>1, ConcatProperties
<1>3. Len(s) \in Nat /\ DOMAIN s = 1 .. Len(s)
  OBVIOUS
<1>4. DOMAIN (<< x >> \o s) = 1 .. (1 + Len(s))
  BY <1>2
<1>5. ASSUME NEW i \in 1 .. (1 + Len(s))
      PROVE  (<< x >> \o s)[i] = x \/ \E j \in DOMAIN s : (<< x >> \o s)[i] = s[j]
  <2>1. CASE i = 1
    BY <2>1, <1>1, <1>2, <1>3
  <2>2. CASE i # 1
    <3>1. i - 1 \in DOMAIN s /\ ~ (i <= 1)
      BY <2>2, <1>3
    <3>2. (<< x >> \o s)[i] = s[i - 1]
      BY <3>1, <1>2
    <3> QED BY <3>1, <3>2
  <2> QED BY <2>1, <2>2
<1>6. << x >> \o s # << >>
  BY <1>2, <1>3, EmptySeq
<1> QED BY <1>2, <1>3, <1>4, <1>5, <1>6

LEMMA Popped ==
  ASSUME NEW S, NEW s \in Seq(S), s # << >>
  PROVE  /\ Head(s) \in S /\ Tail(s) \in Seq(S) /\ Len(Tail(s)) = Len(s) - 1 /\ Len(s) \in Nat \ {0}
         /\ 1 \in DOMAIN s /\ Head(s) = s[1]
         /\ \A i \in DOMAIN Tail(s) : i + 1 \in DOMAIN s /\ Tail(s)[i] = s[i + 1]
<1>1. Head(s) \in S /\ Tail(s) \in Seq(S) /\ Len(Tail(s)) = Len(s) - 1
  BY HeadTailProperties
<1>2. Len(s) \in Nat \ {0} /\ DOMAIN s = 1 .. Len(s) /\ Head(s) = s[1]
  BY EmptySeq
<1>3. DOMAIN Tail(s) = 1 .. (Len(s) - 1)
  BY <1>1
<1>4. \A i \in 1 .. (Len(s) - 1) : Tail(s)[i] = s[i + 1]
  BY <1>2
<1> QED BY <1>1, <1>2, <1>3, <1>4

LEMMA Appended ==
  ASSUME NEW S, NEW s \in Seq(S), NEW x \in S
  PROVE  /\ Append(s, x) \in Seq(S) /\ Len(Append(s, x)) = Len(s) + 1 /\ Len(s) \in Nat
         /\ DOMAIN s = 1 .. Len(s) /\ DOMAIN Append(s, x) = 1 .. (Len(s) + 1)
         /\ Append(s, x)[Len(s) + 1] = x /\ \A i \in DOMAIN s : Append(s, x)[i] = s[i]
         /\ Append(s, x) # << >>
<1>1. /\ Append(s, x) \in Seq(S) /\ Len(Append(s, x)) = Len(s) + 1
      /\ Append(s, x)[Len(s) + 1] = x /\ \A i \in 1 .. Len(s) : Append(s, x)[i] = s[i]
  BY AppendProperties
<1>2. Len(s) \in Nat /\ DOMAIN s = 1 .. Len(s)
  OBVIOUS
<1>3. Append(s, x) # << >>
  BY <1>1, <1>2, EmptySeq
<1> QED BY <1>1, <1>2, <1>3

-----------------------------------------------------------------------------
(***************************************************************************)
(* The two halves of the types: calls and results, and what they fill.     *)
(***************************************************************************)
CallsTyped ==
  /\ todo \subseteq DOMAIN input.requested /\ pc \in {"process", "done"}
  /\ called \in Seq(Type) /\ stack \in Seq(Call) /\ returned \in Seq(Returned)
  /\ Len(called) + Len(returned) <= 1 /\ Len(stack) <= MaxDepth
  /\ results \in Seq(Result)

UsedTyped ==
  /\ DOMAIN usedGlobalIdentifiers \subseteq Name
  /\ \A name \in DOMAIN usedGlobalIdentifiers : usedGlobalIdentifiers[name] \in Nat \ {0}

StatementsTyped ==
  /\ schemaStatements \in Seq(Declared)
  /\ DOMAIN hoistedSchemas \subseteq Type
  /\ \A t \in DOMAIN typeToStatementIndex :
       /\ t \in Type /\ typeToStatementIndex[t] \in 1 .. Len(schemaStatements)
       /\ schemaStatements[typeToStatementIndex[t]].type = t

LEMMA TypeParts == TypeOK <=> (CallsTyped /\ UsedTyped /\ StatementsTyped)
BY DEF TypeOK, CallsTyped, UsedTyped, StatementsTyped

LEMMA InputFacts ==
  ASSUME InputOK
  PROVE  /\ MaxDepth \in Nat \ {0} /\ input.scope \subseteq Name /\ DOMAIN input.requested \subseteq Name
         /\ \A t \in Type : input.parts[t] \in Seq(Type) /\ input.symbol[t] \in Name
         /\ \A name \in DOMAIN input.requested : input.requested[name] \in Type
         /\ \A s \in input.schemas : s[1] \in input.scope /\ s[2] \in Type
BY StructuralSchemaAssumption DEF InputOK, IsInput

\* Whatever is chosen for the name of a type, the table of names keeps its type,
\* and a type that was asked for gets a name it was asked for under.
LEMMA HoistNamesType ==
  ASSUME InputOK, UsedTyped, NEW t \in Type, NEW hoist \in HoistNames(t)
  PROVE  /\ hoist.name \in Name
         /\ DOMAIN hoist.used \subseteq Name
         /\ \A name \in DOMAIN hoist.used : hoist.used[name] \in Nat \ {0}
         /\ RequestedAs(t) # {} => hoist.name \in RequestedAs(t)
<1> DEFINE symbol == input.symbol[t]
           count  == Used(symbol)
           asked  == symbol \in DOMAIN input.requested /\ typesEqual(t, input.requested[symbol])
<1>1. symbol \in Name /\ count \in Nat
  BY InputFacts DEF UsedTyped, Used
<1>2. RequestedAs(t) \subseteq Name
  BY InputFacts DEF RequestedAs
<1>3. CASE RequestedAs(t) # {}
  <2>1. PICK name \in RequestedAs(t) : hoist = [name |-> name, used |-> usedGlobalIdentifiers]
    BY <1>3 DEF HoistNames
  <2>2. hoist.name = name /\ hoist.used = usedGlobalIdentifiers
    BY <2>1
  <2> QED BY <2>2, <1>2 DEF UsedTyped
<1>4. CASE RequestedAs(t) = {} /\ (symbol = << >> \/ asked)
  <2>1. hoist = [name |-> symbol, used |-> usedGlobalIdentifiers]
    BY <1>4 DEF HoistNames
  <2>2. hoist.name = symbol /\ hoist.used = usedGlobalIdentifiers
    BY <2>1
  <2> QED BY <2>2, <1>1, <1>4 DEF UsedTyped
<1>5. CASE RequestedAs(t) = {} /\ ~ (symbol = << >> \/ asked)
  <2>1. hoist = [name |-> IF count = 0 THEN symbol ELSE Append(symbol, count),
                 used |-> Marked(symbol, count + 1)]
    BY <1>5 DEF HoistNames
  <2>2. Append(symbol, count) \in Name
    BY <1>1, AppendProperties DEF Name
  <2> HIDE DEF symbol, count, asked
  <2>3. hoist.name \in Name /\ hoist.used = Marked(symbol, count + 1)
    BY <2>1, <2>2, <1>1
  <2>4. DOMAIN Marked(symbol, count + 1) = DOMAIN usedGlobalIdentifiers \cup {symbol}
    BY DEF Marked
  <2>5. \A name \in DOMAIN usedGlobalIdentifiers \cup {symbol} :
          Marked(symbol, count + 1)[name] =
            IF name = symbol THEN count + 1 ELSE usedGlobalIdentifiers[name]
    BY DEF Marked
  <2>6. count + 1 \in Nat \ {0}
    BY <1>1
  <2> QED BY <2>3, <2>4, <2>5, <2>6, <1>1, <1>5 DEF UsedTyped
<1> QED BY <1>3, <1>4, <1>5

LEMMA MarkedType ==
  ASSUME UsedTyped, NEW name \in Name, usedGlobalIdentifiers' = Marked(name, Used(name) + 1)
  PROVE  UsedTyped'
<1>1. Used(name) \in Nat
  BY DEF UsedTyped, Used
<1>2. PICK n \in Nat : n = Used(name) + 1 /\ n # 0
  BY <1>1
<1>3. usedGlobalIdentifiers' = Marked(name, n)
  BY <1>2
<1>4. DOMAIN Marked(name, n) = DOMAIN usedGlobalIdentifiers \cup {name}
  BY DEF Marked
<1>5. \A x \in DOMAIN usedGlobalIdentifiers \cup {name} :
        Marked(name, n)[x] = IF x = name THEN n ELSE usedGlobalIdentifiers[x]
  BY DEF Marked
<1> QED BY <1>2, <1>3, <1>4, <1>5 DEF UsedTyped

-----------------------------------------------------------------------------
(***************************************************************************)
(* The types of the calls and the results, one step at a time.             *)
(***************************************************************************)
LEMMA FrameType ==
  ASSUME NEW t \in Type, NEW hoistName \in Name, NEW left \in Seq(Type), NEW refs \in SUBSET Name
  PROVE  /\ Frame(t, hoistName, left, refs) \in Call
         /\ Frame(t, hoistName, left, refs).type = t
         /\ Frame(t, hoistName, left, refs).hoistName = hoistName
         /\ Frame(t, hoistName, left, refs).refs = refs
BY DEF Frame, Call

LEMMA ExpressionType ==
  ASSUME NEW refs \in SUBSET Name
  PROVE  /\ Expression(refs) \in Seq(Returned) /\ Len(Expression(refs)) = 1 /\ Expression(refs) # << >>
         /\ DOMAIN Expression(refs) = {1} /\ Expression(refs)[1].refs = refs
         /\ Expression(refs)[1] \in Returned
         /\ Failure \in Seq(Returned) /\ Len(Failure) = 1 /\ Failure # << >>
         /\ DOMAIN Failure = {1} /\ Failure[1].refs = {}
<1>1. [refs |-> refs, failed |-> FALSE] \in Returned /\ [refs |-> {}, failed |-> TRUE] \in Returned
  BY DEF Returned
<1> QED BY <1>1 DEF Expression, Failure

LEMMA TopType ==
  ASSUME stack \in Seq(Call), stack # << >>
  PROVE  /\ Head(stack) \in Call /\ Head(stack) = stack[1] /\ 1 \in DOMAIN stack
         /\ Head(stack).type \in Type /\ Head(stack).hoistName \in Name
         /\ Head(stack).left \in Seq(Type) /\ Head(stack).refs \in SUBSET Name
<1>1. Head(stack) \in Call /\ Head(stack) = stack[1] /\ 1 \in DOMAIN stack
  BY Popped
<1> QED BY <1>1 DEF Call

LEMMA CalledType ==
  ASSUME called \in Seq(Type), called # << >>
  PROVE  called[1] \in Type /\ Len(called) \in Nat \ {0}
BY Popped

LEMMA ReturnedType ==
  ASSUME returned \in Seq(Returned), returned # << >>
  PROVE  /\ returned[1] \in Returned /\ returned[1].refs \in SUBSET Name
         /\ 1 \in DOMAIN returned /\ Len(returned) \in Nat \ {0}
<1>1. returned[1] \in Returned /\ 1 \in DOMAIN returned /\ Len(returned) \in Nat \ {0}
  BY Popped
<1> QED BY <1>1 DEF Returned

LEMMA EmptyType == \A S : << >> \in Seq(S) /\ Len(<< >>) = 0
OBVIOUS

LEMMA SingleType ==
  ASSUME NEW S, NEW x \in S
  PROVE  << x >> \in Seq(S) /\ Len(<< x >>) = 1 /\ << x >> # << >>
OBVIOUS

\* What is referred to is a name.
LEMMA AvailableType ==
  ASSUME InputOK, StatementsTyped
  PROVE  Available \subseteq Name
<1>1. \A i \in DOMAIN schemaStatements : schemaStatements[i] \in Declared
  BY ElementOfSeq DEF StatementsTyped
<1>2. \A i \in DOMAIN schemaStatements : schemaStatements[i].name \in Name
  BY <1>1 DEF Declared
<1> QED BY <1>2, InputFacts DEF Available

LEMMA CallsStep ==
  ASSUME InputOK, CallsTyped, UsedTyped, StatementsTyped, RefsAvailable, ResultsAnswered, Next
  PROVE  CallsTyped'
<1> DEFINE top == Head(stack)
<1>0. /\ input' = input /\ MaxDepth \in Nat /\ Len(stack) \in Nat
      /\ Len(called) \in Nat /\ Len(returned) \in Nat
      /\ (called = << >> \/ returned = << >>)
  <2>1. input' = input
    BY DEF Next, Request, TooDeep, Reuse, Leaf, Open, Descend, Receive, Abort, Hoist, Inline, Answer,
           Declare, Export, Done, vars
  <2>2. Len(stack) \in Nat /\ Len(called) \in Nat /\ Len(returned) \in Nat
    BY DEF CallsTyped
  <2>3. called = << >> \/ returned = << >>
    <3>1. SUFFICES ASSUME called # << >>, returned # << >> PROVE FALSE
      OBVIOUS
    <3>2. Len(called) \in Nat \ {0} /\ Len(returned) \in Nat \ {0}
      BY <3>1, CalledType, ReturnedType DEF CallsTyped
    <3>3. Len(called) + Len(returned) <= 1
      BY DEF CallsTyped
    <3> QED BY <3>2, <3>3
  <2> QED BY <2>1, <2>2, <2>3, InputFacts
<1>1. ASSUME NEW name \in todo, Request(name) PROVE CallsTyped'
  <2>1. name \in DOMAIN input.requested /\ input.requested[name] \in Type
    BY InputFacts DEF CallsTyped
  <2>2. [name |-> name, value |-> << >>] \in Result
    BY <2>1 DEF Result
  <2>3. results' \in Seq(Result)
    BY <1>1, <2>2, Appended DEF Request, CallsTyped
  <2>4. called' \in Seq(Type) /\ Len(called') = 1
    BY <1>1, <2>1, SingleType DEF Request
  <2>5. returned' = << >> /\ stack' = stack /\ Len(returned') = 0
    BY <1>1 DEF Request
  <2>6. Result' = Result
    BY <1>0 DEF Result
  <2> QED BY <1>1, <1>0, <2>3, <2>4, <2>5, <2>6 DEF Request, CallsTyped
<1>2. ASSUME TooDeep \/ Reuse \/ Leaf PROVE CallsTyped'
  <2>1. called # << >> /\ called' = << >> /\ UNCHANGED <<todo, stack, results, pc>>
    BY <1>2 DEF TooDeep, Reuse, Leaf
  <2>2. \A u \in DOMAIN hoistedSchemas : hoistedSchemas[u] \in Name
    BY AvailableType DEF RefsAvailable
  <2>3. returned' = Failure \/ \E refs \in SUBSET Name : returned' = Expression(refs)
    <3>1. CASE TooDeep
      BY <3>1 DEF TooDeep
    <3>2. CASE Reuse
      <4>1. PICK u \in Reusable(called[1]) : returned' = Expression({hoistedSchemas[u]})
        BY <3>2 DEF Reuse
      <4>2. {hoistedSchemas[u]} \in SUBSET Name
        BY <2>2 DEF Reusable
      <4> QED BY <4>1, <4>2
    <3>3. CASE Leaf
      <4>1. returned' = Expression({}) \/ returned' = Failure
        BY <3>3 DEF Leaf
      <4>2. {} \in SUBSET Name
        OBVIOUS
      <4> QED BY <4>1, <4>2
    <3> QED BY <1>2, <3>1, <3>2, <3>3
  <2>4. returned' \in Seq(Returned) /\ Len(returned') = 1
    BY <2>3, ExpressionType
  <2>5. Len(called') = 0 /\ called' \in Seq(Type)
    BY <2>1
  <2>6. Result' = Result
    BY <1>0 DEF Result
  <2> QED BY <1>0, <2>1, <2>4, <2>5, <2>6 DEF CallsTyped
<1>3. ASSUME Open PROVE CallsTyped'
  <2>1. called[1] \in Type /\ called # << >> /\ called' = << >> /\ returned' = returned
    BY <1>3, CalledType DEF Open, CallsTyped
  <2>2. PICK hoist \in HoistNames(called[1]) :
          stack' = << Frame(called[1], hoist.name, input.parts[called[1]], {}) >> \o stack
    BY <1>3 DEF Open
  <2>3. Frame(called[1], hoist.name, input.parts[called[1]], {}) \in Call
    BY <2>1, HoistNamesType, InputFacts, FrameType
  <2>4. stack' \in Seq(Call) /\ Len(stack') = Len(stack) + 1
    BY <2>2, <2>3, Pushed DEF CallsTyped
  <2>5. Len(stack') <= MaxDepth
    BY <1>3, <1>0, <2>4 DEF Open
  <2>6. Len(called') + Len(returned') <= 1 /\ called' \in Seq(Type)
    BY <1>0, <2>1, EmptyType
  <2>7. Result' = Result
    BY <1>0 DEF Result
  <2> QED BY <1>3, <1>0, <2>1, <2>4, <2>5, <2>6, <2>7 DEF CallsTyped, Open
<1>4. ASSUME Descend \/ Receive PROVE CallsTyped'
  <2>0. stack # << >> /\ called = << >> /\ UNCHANGED <<todo, results, pc>>
    BY <1>4 DEF Descend, Receive, Running
  <2>1. /\ top.type \in Type /\ top.hoistName \in Name
        /\ top.left \in Seq(Type) /\ top.refs \in SUBSET Name
    BY <2>0, TopType DEF CallsTyped
  <2>2. \E left \in Seq(Type), refs \in SUBSET Name :
          stack' = << Frame(top.type, top.hoistName, left, refs) >> \o Tail(stack)
    <3>1. CASE Descend
      <4>1. Tail(top.left) \in Seq(Type)
        BY <2>1, <3>1, Popped DEF Descend
      <4> QED BY <3>1, <4>1, <2>1 DEF Descend
    <3>2. CASE Receive
      <4>1. top.refs \cup returned[1].refs \in SUBSET Name
        BY <3>2, <2>1, ReturnedType DEF Receive, CallsTyped
      <4> QED BY <3>2, <4>1, <2>1 DEF Receive
    <3> QED BY <1>4, <3>1, <3>2
  <2>3. PICK left \in Seq(Type), refs \in SUBSET Name :
          stack' = << Frame(top.type, top.hoistName, left, refs) >> \o Tail(stack)
    BY <2>2
  <2>4. Tail(stack) \in Seq(Call) /\ Len(Tail(stack)) = Len(stack) - 1
    BY <2>0, Popped DEF CallsTyped
  <2>5. stack' \in Seq(Call) /\ Len(stack') = Len(Tail(stack)) + 1
    BY <2>1, <2>3, <2>4, FrameType, Pushed
  <2>6. Len(stack') <= MaxDepth
    BY <2>4, <2>5, <1>0 DEF CallsTyped
  <2>7. /\ called' \in Seq(Type) /\ returned' \in Seq(Returned)
        /\ Len(called') + Len(returned') <= 1
    <3>1. CASE Descend
      <4>1. Head(top.left) \in Type
        BY <2>1, <3>1, Popped DEF Descend
      <4>2. called' = << Head(top.left) >> /\ returned' = << >>
        BY <3>1 DEF Descend
      <4> QED BY <4>1, <4>2, SingleType, EmptyType
    <3>2. CASE Receive
      <4>1. called' = << >> /\ returned' = << >>
        BY <3>2, <2>0 DEF Receive
      <4> QED BY <4>1, EmptyType
    <3> QED BY <1>4, <3>1, <3>2
  <2>8. Result' = Result
    BY <1>0 DEF Result
  <2> QED BY <1>0, <2>0, <2>5, <2>6, <2>7, <2>8 DEF CallsTyped
<1>5. ASSUME Abort \/ Hoist \/ Inline PROVE CallsTyped'
  <2>0. /\ stack # << >> /\ called = << >> /\ called' = << >> /\ stack' = Tail(stack)
        /\ UNCHANGED <<todo, results, pc>>
    BY <1>5 DEF Abort, Hoist, Inline, Running, Complete
  <2>1. top.hoistName \in Name /\ top.refs \in SUBSET Name
    BY <2>0, TopType DEF CallsTyped
  <2>2. returned' = returned \/ \E refs \in SUBSET Name : returned' = Expression(refs)
    <3>1. CASE Abort
      BY <3>1 DEF Abort
    <3>2. CASE Hoist
      <4>1. {top.hoistName} \in SUBSET Name
        BY <2>1
      <4> QED BY <3>2, <4>1 DEF Hoist
    <3>3. CASE Inline
      BY <3>3, <2>1 DEF Inline
    <3> QED BY <1>5, <3>1, <3>2, <3>3
  <2>3. returned' \in Seq(Returned) /\ Len(returned') <= 1
    <3>1. CASE returned' = returned
      BY <3>1, <1>0, <2>0 DEF CallsTyped
    <3>2. CASE \E refs \in SUBSET Name : returned' = Expression(refs)
      <4>1. PICK refs \in SUBSET Name : returned' = Expression(refs)
        BY <3>2
      <4>2. returned' \in Seq(Returned) /\ Len(returned') = 1
        BY <4>1, ExpressionType
      <4> QED BY <4>2
    <3> QED BY <2>2, <3>1, <3>2
  <2>4. Tail(stack) \in Seq(Call) /\ Len(Tail(stack)) = Len(stack) - 1
    BY <2>0, Popped DEF CallsTyped
  <2>5. stack' \in Seq(Call) /\ Len(stack') <= MaxDepth
    BY <2>0, <2>4, <1>0 DEF CallsTyped
  <2>6. called' \in Seq(Type) /\ Len(called') = 0 /\ Len(returned') \in Nat
    BY <2>0, <2>3, EmptyType
  <2>7. Result' = Result
    BY <1>0 DEF Result
  <2> QED BY <1>0, <2>0, <2>3, <2>5, <2>6, <2>7 DEF CallsTyped
<1>6. ASSUME Answer PROVE CallsTyped'
  <2>0. /\ called = << >> /\ stack = << >> /\ returned # << >> /\ returned' = << >>
        /\ UNCHANGED <<todo, called, stack, pc>>
    BY <1>6 DEF Answer
  <2>1. results # << >> /\ results \in Seq(Result)
    BY <2>0 DEF ResultsAnswered, CallsTyped
  <2>2. Len(results) \in DOMAIN results /\ results[Len(results)] \in Result
    BY <2>1, EmptySeq
  <2>3. [name |-> results[Len(results)].name, value |-> returned] \in Result
    BY <2>2 DEF Result, CallsTyped
  <2>4. results' \in Seq(Result)
    <3>1. PICK r \in Result : results' = [results EXCEPT ![Len(results)] = r]
      BY <1>6, <2>3 DEF Answer
    <3> QED BY <3>1, <2>1, <2>2
  <2>5. Len(called') + Len(returned') <= 1 /\ returned' \in Seq(Returned)
    BY <2>0, EmptyType
  <2>6. Result' = Result
    BY <1>0 DEF Result
  <2> QED BY <1>0, <2>0, <2>4, <2>5, <2>6 DEF CallsTyped
<1>7. ASSUME Declare \/ Export \/ Done PROVE CallsTyped'
  <2>1. todo' = todo /\ called' = called /\ stack' = stack /\ returned' = returned
    BY <1>7 DEF Declare, Export, Done, vars, calls
  <2>2. results' \in Seq(Result) /\ pc' \in {"process", "done"}
    <3>1. CASE Declare
      BY <3>1, Popped DEF Declare, CallsTyped
    <3>2. CASE Export \/ Done
      BY <3>2 DEF Export, Done, vars, CallsTyped
    <3> QED BY <1>7, <3>1, <3>2
  <2>3. Result' = Result
    BY <1>0 DEF Result
  <2> QED BY <1>0, <2>1, <2>2, <2>3 DEF CallsTyped
<1> QED BY <1>1, <1>2, <1>3, <1>4, <1>5, <1>6, <1>7 DEF Next

-----------------------------------------------------------------------------
(***************************************************************************)
(* The types of the tables.                                                *)
(***************************************************************************)
LEMMA UsedStep ==
  ASSUME InputOK, CallsTyped, UsedTyped, Next
  PROVE  UsedTyped'
<1>1. ASSUME called # << >>, NEW hoist \in HoistNames(called[1]), usedGlobalIdentifiers' = hoist.used
      PROVE  UsedTyped'
  <2>1. called[1] \in Type
    BY <1>1, CalledType DEF CallsTyped
  <2> QED BY <1>1, <2>1, HoistNamesType DEF UsedTyped
<1>2. CASE Reuse
  BY <1>1, <1>2 DEF Reuse
<1>3. CASE Leaf
  BY <1>1, <1>3 DEF Leaf
<1>4. CASE Open
  BY <1>1, <1>4 DEF Open
<1>5. CASE Hoist
  <2>1. Head(stack).hoistName \in Name
    BY <1>5, TopType DEF Hoist, Complete, Running, CallsTyped
  <2> QED BY <1>5, <2>1, MarkedType DEF Hoist, PushHoistedStatement
<1>6. CASE usedGlobalIdentifiers' = usedGlobalIdentifiers
  BY <1>6 DEF UsedTyped
<1> QED BY <1>2, <1>3, <1>4, <1>5, <1>6
        DEF Next, Request, TooDeep, Descend, Receive, Abort, Inline, Answer, Declare, Export, Done,
            vars, tables

\* What the tables are after a statement is added.
Added(t, s) ==
  /\ schemaStatements' = Append(schemaStatements, s)
  /\ typeToStatementIndex' = Indexed(t, Len(schemaStatements) + 1)

LEMMA AddedType ==
  ASSUME StatementsTyped, NEW t \in Type, NEW s \in Declared, s.type = t, Added(t, s)
  PROVE  /\ schemaStatements' \in Seq(Declared)
         /\ \A u \in DOMAIN typeToStatementIndex' :
              /\ u \in Type /\ typeToStatementIndex'[u] \in 1 .. Len(schemaStatements')
              /\ schemaStatements'[typeToStatementIndex'[u]].type = u
<1>1. /\ schemaStatements' \in Seq(Declared) /\ Len(schemaStatements') = Len(schemaStatements) + 1
      /\ Len(schemaStatements) \in Nat /\ DOMAIN schemaStatements = 1 .. Len(schemaStatements)
      /\ schemaStatements'[Len(schemaStatements) + 1] = s
      /\ \A i \in DOMAIN schemaStatements : schemaStatements'[i] = schemaStatements[i]
  BY Appended DEF StatementsTyped, Added
<1>2. /\ DOMAIN typeToStatementIndex' = DOMAIN typeToStatementIndex \cup {t}
      /\ \A u \in DOMAIN typeToStatementIndex \cup {t} :
           typeToStatementIndex'[u] = IF u = t THEN Len(schemaStatements) + 1 ELSE typeToStatementIndex[u]
  BY DEF Indexed, Added
<1>3. ASSUME NEW u \in DOMAIN typeToStatementIndex \cup {t}
      PROVE  /\ u \in Type /\ typeToStatementIndex'[u] \in 1 .. Len(schemaStatements')
             /\ schemaStatements'[typeToStatementIndex'[u]].type = u
  <2>1. CASE u = t
    BY <2>1, <1>1, <1>2
  <2>2. CASE u # t
    <3>1. /\ u \in Type /\ typeToStatementIndex[u] \in 1 .. Len(schemaStatements)
          /\ schemaStatements[typeToStatementIndex[u]].type = u
      BY <2>2 DEF StatementsTyped
    <3>2. typeToStatementIndex'[u] = typeToStatementIndex[u]
      BY <2>2, <1>2
    <3> QED BY <3>1, <3>2, <1>1
  <2> QED BY <2>1, <2>2
<1> QED BY <1>1, <1>2, <1>3

LEMMA StatementType ==
  ASSUME NEW name \in Name, NEW t \in Type, NEW value, NEW exported \in BOOLEAN,
         value.refs \in SUBSET Name, value.failed \in BOOLEAN
  PROVE  /\ Statement(name, t, value, exported) \in Declared
         /\ Statement(name, t, value, exported).name = name
         /\ Statement(name, t, value, exported).type = t
         /\ Statement(name, t, value, exported).refs = value.refs
         /\ Statement(name, t, value, exported).failed = value.failed
<1>1. PICK refs \in SUBSET Name, failed \in BOOLEAN : refs = value.refs /\ failed = value.failed
  OBVIOUS
<1>2. Statement(name, t, value, exported) =
        [name |-> name, type |-> t, refs |-> refs, failed |-> failed, exported |-> exported]
  BY <1>1 DEF Statement
<1>3. [name |-> name, type |-> t, refs |-> refs, failed |-> failed, exported |-> exported] \in Declared
  BY DEF Declared
<1> QED BY <1>1, <1>2, <1>3

\* The statement that a step adds: that of the top call, or that of the first result.
LEMMA HoistAdds ==
  ASSUME CallsTyped, Hoist
  PROVE  \E s \in Declared :
           /\ s.type = Head(stack).type /\ s.name = Head(stack).hoistName /\ s.refs = Head(stack).refs
           /\ s.failed = FALSE /\ Added(Head(stack).type, s)
<1> DEFINE top == Head(stack)
           value == Expression(top.refs)[1]
           s == Statement(top.hoistName, top.type, value, FALSE)
<1>1. /\ top.type \in Type /\ top.hoistName \in Name /\ top.refs \in SUBSET Name
  BY TopType DEF Hoist, Complete, Running, CallsTyped
<1>2. value.refs = top.refs /\ value.failed = FALSE
  BY DEF Expression
<1>4. s \in Declared /\ s.type = top.type /\ s.name = top.hoistName /\ s.refs = top.refs
      /\ s.failed = FALSE
  <2> HIDE DEF top, value
  <2>1. value.refs \in SUBSET Name /\ value.failed \in BOOLEAN
    BY <1>1, <1>2
  <2>3. PICK e \in BOOLEAN : e = FALSE
    OBVIOUS
  <2>4. s = Statement(top.hoistName, top.type, value, e)
    BY <2>3 DEF Statement
  <2>2. \A name \in Name, t \in Type :
          /\ Statement(name, t, value, e) \in Declared /\ Statement(name, t, value, e).name = name
          /\ Statement(name, t, value, e).type = t
          /\ Statement(name, t, value, e).refs = value.refs
          /\ Statement(name, t, value, e).failed = value.failed
    BY <2>1, StatementType
  <2> HIDE DEF s
  <2> QED BY <1>1, <1>2, <2>2, <2>4
<1>5. Added(top.type, s)
  BY DEF Hoist, PushHoistedStatement, Added
<1> QED BY <1>4, <1>5

LEMMA DeclareAdds ==
  ASSUME InputOK, CallsTyped, ResultsAnswered, Declare
  PROVE  /\ 1 \in DOMAIN results /\ Head(results) = results[1]
         /\ results[1].name \in DOMAIN input.requested
         /\ 1 \in DOMAIN results[1].value
         /\ IF input.requested[results[1].name] \in DOMAIN typeToStatementIndex
              THEN UNCHANGED <<schemaStatements, typeToStatementIndex>>
              ELSE \E s \in Declared :
                     /\ s.type = input.requested[results[1].name] /\ s.name = results[1].name
                     /\ s.refs = results[1].value[1].refs /\ s.failed = results[1].value[1].failed
                     /\ Added(input.requested[results[1].name], s)
<1> DEFINE result == Head(results)
           t == input.requested[result.name]
           s == Statement(result.name, t, result.value[1], TRUE)
<1>1. results # << >> /\ called = << >> /\ stack = << >> /\ returned = << >>
  BY DEF Declare
<1>2. 1 \in DOMAIN results /\ result = results[1] /\ result \in Result
  BY <1>1, Popped DEF CallsTyped
<1>3. result.value # << >>
  BY <1>1, <1>2 DEF ResultsAnswered
<1>4. /\ result.name \in DOMAIN input.requested /\ result.name \in Name /\ t \in Type
      /\ result.value \in Seq(Returned)
  BY <1>2, InputFacts DEF Result
<1>5. result.value[1] \in Returned /\ 1 \in DOMAIN result.value
  BY <1>3, <1>4, Popped
<1>6. result.value[1].refs \in SUBSET Name /\ result.value[1].failed \in BOOLEAN
  BY <1>5 DEF Returned
<1>8. s \in Declared /\ s.type = t /\ s.name = result.name /\ s.refs = result.value[1].refs
      /\ s.failed = result.value[1].failed
  <2> HIDE DEF result, t
  <2> DEFINE value == result.value[1]
  <2>1. value.refs \in SUBSET Name /\ value.failed \in BOOLEAN
    BY <1>6
  <2>2. PICK e \in BOOLEAN : e = TRUE
    OBVIOUS
  <2>3. s = Statement(result.name, t, value, e)
    BY <2>2 DEF Statement
  <2>4. \A name \in Name, u \in Type :
          /\ Statement(name, u, value, e) \in Declared /\ Statement(name, u, value, e).name = name
          /\ Statement(name, u, value, e).type = u
          /\ Statement(name, u, value, e).refs = value.refs
          /\ Statement(name, u, value, e).failed = value.failed
    <3> HIDE DEF value, s
    <3> QED BY <2>1, StatementType
  <2> HIDE DEF s
  <2> QED BY <1>4, <2>3, <2>4
<1>9. IF t \in DOMAIN typeToStatementIndex THEN UNCHANGED <<schemaStatements, typeToStatementIndex>>
      ELSE Added(t, s)
  BY DEF Declare, Added
<1> HIDE DEF s
<1> QED BY <1>2, <1>4, <1>5, <1>8, <1>9

\* Exporting changes nothing of a statement but the one mark.
LEMMA ExportKeeps ==
  ASSUME StatementsTyped, Export
  PROVE  /\ schemaStatements' \in Seq(Declared)
         /\ Len(schemaStatements') = Len(schemaStatements)
         /\ DOMAIN schemaStatements = 1 .. Len(schemaStatements)
         /\ DOMAIN schemaStatements' = DOMAIN schemaStatements
         /\ \A i \in DOMAIN schemaStatements :
              /\ schemaStatements'[i].name = schemaStatements[i].name
              /\ schemaStatements'[i].type = schemaStatements[i].type
              /\ schemaStatements'[i].refs = schemaStatements[i].refs
              /\ schemaStatements'[i].failed = schemaStatements[i].failed
<1> DEFINE wanted == { typeToStatementIndex[t] : t \in Range(input.requested) \cap DOMAIN typeToStatementIndex }
           marked(i) == schemaStatements[i].exported \/ (input.isExported /\ i \in wanted)
           new(i) == Statement(schemaStatements[i].name, schemaStatements[i].type,
                               schemaStatements[i], marked(i))
<1>1. schemaStatements' = [i \in 1 .. Len(schemaStatements) |-> new(i)]
  BY DEF Export
<1>2. Len(schemaStatements) \in Nat /\ DOMAIN schemaStatements = 1 .. Len(schemaStatements)
  BY DEF StatementsTyped
<1>3. \A i : marked(i) \in BOOLEAN
  BY Zenon
<1> HIDE DEF marked
<1>5. \A i \in 1 .. Len(schemaStatements) :
        /\ new(i) \in Declared /\ new(i).name = schemaStatements[i].name
        /\ new(i).type = schemaStatements[i].type /\ new(i).refs = schemaStatements[i].refs
        /\ new(i).failed = schemaStatements[i].failed
  <2> SUFFICES ASSUME NEW i \in 1 .. Len(schemaStatements)
               PROVE  /\ new(i) \in Declared /\ new(i).name = schemaStatements[i].name
                      /\ new(i).type = schemaStatements[i].type /\ new(i).refs = schemaStatements[i].refs
                      /\ new(i).failed = schemaStatements[i].failed
    OBVIOUS
  <2>1. schemaStatements[i] \in Declared
    BY ElementOfSeq DEF StatementsTyped
  <2>2. /\ schemaStatements[i].name \in Name /\ schemaStatements[i].type \in Type
        /\ schemaStatements[i].refs \in SUBSET Name /\ schemaStatements[i].failed \in BOOLEAN
    BY <2>1 DEF Declared
  <2> QED BY <2>2, <1>3, StatementType
<1>6. schemaStatements' \in Seq(Declared) /\ Len(schemaStatements') = Len(schemaStatements)
  BY <1>1, <1>2, <1>5
<1> QED BY <1>1, <1>2, <1>5, <1>6

LEMMA StatementsStep ==
  ASSUME InputOK, CallsTyped, UsedTyped, StatementsTyped, ResultsAnswered, Next
  PROVE  StatementsTyped'
<1>1. CASE Hoist
  <2>1. Head(stack).type \in Type
    BY <1>1, TopType DEF Hoist, Complete, Running, CallsTyped
  <2>2. PICK s \in Declared : s.type = Head(stack).type /\ Added(Head(stack).type, s)
    BY <1>1, HoistAdds
  <2>3. DOMAIN hoistedSchemas' = DOMAIN hoistedSchemas \cup {Head(stack).type}
    BY <1>1 DEF Hoist, PushHoistedStatement
  <2> QED BY <2>1, <2>2, <2>3, AddedType DEF StatementsTyped
<1>2. CASE Declare
  <2> DEFINE t == input.requested[results[1].name]
  <2>1. t \in Type /\ hoistedSchemas' = hoistedSchemas
    BY <1>2, DeclareAdds, InputFacts DEF Declare
  <2>2. CASE t \in DOMAIN typeToStatementIndex
    BY <1>2, <2>1, <2>2, DeclareAdds DEF StatementsTyped
  <2>3. CASE t \notin DOMAIN typeToStatementIndex
    <3>1. PICK s \in Declared : s.type = t /\ Added(t, s)
      BY <1>2, <2>3, DeclareAdds
    <3> HIDE DEF t
    <3> QED BY <2>1, <3>1, AddedType DEF StatementsTyped
  <2> QED BY <2>2, <2>3
<1>3. CASE Export
  <2>1. hoistedSchemas' = hoistedSchemas /\ typeToStatementIndex' = typeToStatementIndex
    BY <1>3 DEF Export
  <2>2. ASSUME NEW u \in DOMAIN typeToStatementIndex'
        PROVE  /\ u \in Type /\ typeToStatementIndex'[u] \in 1 .. Len(schemaStatements')
               /\ schemaStatements'[typeToStatementIndex'[u]].type = u
    <3>1. /\ u \in Type /\ typeToStatementIndex[u] \in DOMAIN schemaStatements
          /\ schemaStatements[typeToStatementIndex[u]].type = u
      BY <2>1, <1>3, ExportKeeps DEF StatementsTyped
    <3> QED BY <2>1, <3>1, <1>3, ExportKeeps
  <2> QED BY <1>3, <2>1, <2>2, ExportKeeps DEF StatementsTyped
<1>4. CASE UNCHANGED <<schemaStatements, typeToStatementIndex, hoistedSchemas>>
  BY <1>4 DEF StatementsTyped
<1> QED BY <1>1, <1>2, <1>3, <1>4
        DEF Next, Request, TooDeep, Reuse, Leaf, Open, Descend, Receive, Abort, Inline, Answer, Done,
            vars, tables

-----------------------------------------------------------------------------
(***************************************************************************)
(* What may be referred to only grows, and what refers to something only   *)
(* ever gets what may be referred to already.                              *)
(***************************************************************************)
LEMMA AvailableGrows ==
  ASSUME InputOK, CallsTyped, StatementsTyped, ResultsAnswered, Next
  PROVE  input' = input /\ Available \subseteq Available'
<1>0. input' = input
  BY DEF Next, Request, TooDeep, Reuse, Leaf, Open, Descend, Receive, Abort, Hoist, Inline, Answer,
         Declare, Export, Done, vars
<1>1. ASSUME NEW t, NEW s \in Declared, Added(t, s)
      PROVE  Available \subseteq Available'
  <2>1. /\ DOMAIN schemaStatements \subseteq DOMAIN schemaStatements'
        /\ \A i \in DOMAIN schemaStatements : schemaStatements'[i] = schemaStatements[i]
    BY <1>1, Appended DEF StatementsTyped, Added
  <2> QED BY <1>0, <2>1 DEF Available
<1>2. CASE Hoist
  BY <1>0, <1>1, <1>2, HoistAdds
<1>3. CASE Declare
  <2>1. schemaStatements' = schemaStatements \/ \E t : \E s \in Declared : Added(t, s)
    BY <1>3, DeclareAdds
  <2> QED BY <1>0, <1>1, <2>1 DEF Available
<1>4. CASE Export
  BY <1>0, <1>4, ExportKeeps DEF Available
<1>5. CASE schemaStatements' = schemaStatements
  BY <1>0, <1>5 DEF Available
<1> QED BY <1>0, <1>2, <1>3, <1>4, <1>5
        DEF Next, Request, TooDeep, Reuse, Leaf, Open, Descend, Receive, Abort, Inline, Answer, Done,
            vars, tables

LEMMA AddedAvailable ==
  ASSUME StatementsTyped, input' = input, NEW t, NEW s \in Declared, Added(t, s)
  PROVE  s.name \in Available'
<1>1. /\ Len(schemaStatements) + 1 \in DOMAIN schemaStatements'
      /\ schemaStatements'[Len(schemaStatements) + 1] = s
  BY Appended DEF StatementsTyped, Added
<1> QED BY <1>1 DEF Available

LEMMA RefsStep ==
  ASSUME InputOK, CallsTyped, UsedTyped, StatementsTyped, RefsAvailable, ResultsAnswered, Next
  PROVE  RefsAvailable'
<1> DEFINE top == Head(stack)
<1>0. input' = input /\ Available \subseteq Available'
  BY AvailableGrows
<1> DEFINE Hoisted  == \A t \in DOMAIN hoistedSchemas : hoistedSchemas[t] \in Available
           Stacked  == \A i \in DOMAIN stack : stack[i].refs \subseteq Available
           Handed   == \A i \in DOMAIN returned : returned[i].refs \subseteq Available
           Answered == \A i \in DOMAIN results :
                         \A k \in DOMAIN results[i].value : results[i].value[k].refs \subseteq Available
<1>1. Hoisted'
  <2>1. CASE Hoist
    <3>1. PICK s \in Declared : s.name = top.hoistName /\ Added(top.type, s)
      BY <2>1, HoistAdds
    <3>2. top.hoistName \in Available'
      BY <1>0, <3>1, AddedAvailable
    <3>3. \A t \in DOMAIN hoistedSchemas' :
            \/ hoistedSchemas'[t] = top.hoistName
            \/ t \in DOMAIN hoistedSchemas /\ hoistedSchemas'[t] = hoistedSchemas[t]
      BY <2>1 DEF Hoist, PushHoistedStatement
    <3> QED BY <1>0, <3>2, <3>3 DEF RefsAvailable
  <2>2. CASE hoistedSchemas' = hoistedSchemas
    BY <1>0, <2>2 DEF RefsAvailable
  <2> QED BY <2>1, <2>2
          DEF Next, Request, TooDeep, Reuse, Leaf, Open, Descend, Receive, Abort, Inline, Answer,
              Declare, Export, Done, vars, tables
<1>2. Stacked'
  <2>1. CASE Open
    <3>0. called[1] \in Type
      BY <2>1, CalledType DEF Open, CallsTyped
    <3>1. PICK hoist \in HoistNames(called[1]) :
            stack' = << Frame(called[1], hoist.name, input.parts[called[1]], {}) >> \o stack
      BY <2>1 DEF Open
    <3>2. /\ Frame(called[1], hoist.name, input.parts[called[1]], {}) \in Call
          /\ Frame(called[1], hoist.name, input.parts[called[1]], {}).refs = {}
      BY <3>0, HoistNamesType, InputFacts, FrameType
    <3>3. \A i \in DOMAIN stack' : stack'[i].refs = {} \/ \E j \in DOMAIN stack : stack'[i] = stack[j]
      BY <3>1, <3>2, Pushed DEF CallsTyped
    <3> QED BY <1>0, <3>3 DEF RefsAvailable
  <2>2. CASE Descend \/ Receive
    <3>0. stack # << >>
      BY <2>2 DEF Descend, Receive, Running
    <3>1. /\ top.type \in Type /\ top.hoistName \in Name
          /\ top.left \in Seq(Type) /\ top.refs \in SUBSET Name /\ top = stack[1] /\ 1 \in DOMAIN stack
      BY <3>0, TopType DEF CallsTyped
    <3>2. top.refs \subseteq Available
      BY <3>1 DEF RefsAvailable
    <3>3. \E left \in Seq(Type), refs \in SUBSET Name :
            /\ refs \subseteq Available
            /\ stack' = << Frame(top.type, top.hoistName, left, refs) >> \o Tail(stack)
      <4>1. CASE Descend
        <5>1. Tail(top.left) \in Seq(Type)
          BY <3>1, <4>1, Popped DEF Descend
        <5> QED BY <4>1, <5>1, <3>1, <3>2 DEF Descend
      <4>2. CASE Receive
        <5>1. returned[1].refs \in SUBSET Name /\ returned[1].refs \subseteq Available
          BY <4>2, ReturnedType DEF Receive, CallsTyped, RefsAvailable
        <5>2. /\ top.refs \cup returned[1].refs \in SUBSET Name
              /\ top.refs \cup returned[1].refs \subseteq Available
          BY <5>1, <3>1, <3>2
        <5> QED BY <4>2, <5>2, <3>1 DEF Receive
      <4> QED BY <2>2, <4>1, <4>2
    <3>4. PICK left \in Seq(Type), refs \in SUBSET Name :
            /\ refs \subseteq Available
            /\ stack' = << Frame(top.type, top.hoistName, left, refs) >> \o Tail(stack)
      BY <3>3
    <3>5. /\ Frame(top.type, top.hoistName, left, refs) \in Call
          /\ Frame(top.type, top.hoistName, left, refs).refs = refs
      BY <3>1, FrameType
    <3>6. /\ Tail(stack) \in Seq(Call)
          /\ \A i \in DOMAIN Tail(stack) : \E j \in DOMAIN stack : Tail(stack)[i] = stack[j]
      BY <3>0, Popped DEF CallsTyped
    <3>7. \A i \in DOMAIN stack' :
            stack'[i].refs = refs \/ \E j \in DOMAIN Tail(stack) : stack'[i] = Tail(stack)[j]
      BY <3>4, <3>5, <3>6, Pushed
    <3>8. \A i \in DOMAIN stack' : stack'[i].refs = refs \/ \E j \in DOMAIN stack : stack'[i] = stack[j]
      BY <3>6, <3>7
    <3> QED BY <1>0, <3>4, <3>8 DEF RefsAvailable
  <2>3. CASE Abort \/ Hoist \/ Inline
    <3>0. stack # << >> /\ stack' = Tail(stack)
      BY <2>3 DEF Abort, Hoist, Inline, Running, Complete
    <3>1. \A i \in DOMAIN stack' : \E j \in DOMAIN stack : stack'[i] = stack[j]
      BY <3>0, Popped DEF CallsTyped
    <3> QED BY <1>0, <3>1 DEF RefsAvailable
  <2>4. CASE stack' = stack
    BY <1>0, <2>4 DEF RefsAvailable
  <2> QED BY <2>1, <2>2, <2>3, <2>4
          DEF Next, Request, TooDeep, Reuse, Leaf, Answer, Declare, Export, Done, vars, calls
<1>3. Handed'
  <2>1. ASSUME NEW refs \in SUBSET Name, refs \subseteq Available', returned' = Expression(refs)
        PROVE  Handed'
    <3>1. DOMAIN returned' = {1} /\ returned'[1].refs = refs
      BY <2>1, ExpressionType
    <3> QED BY <2>1, <3>1
  <2>2. CASE TooDeep \/ Leaf
    <3>1. returned' = Failure \/ returned' = Expression({})
      BY <2>2 DEF TooDeep, Leaf
    <3>2. {} \in SUBSET Name /\ {} \subseteq Available'
      OBVIOUS
    <3>3. CASE returned' = Failure
      BY <3>2, <3>3, ExpressionType
    <3>4. CASE returned' = Expression({})
      BY <2>1, <3>2, <3>4
    <3> QED BY <3>1, <3>3, <3>4
  <2>3. CASE Reuse
    <3>1. PICK u \in Reusable(called[1]) : returned' = Expression({hoistedSchemas[u]})
      BY <2>3 DEF Reuse
    <3>2. hoistedSchemas[u] \in Available
      BY DEF Reusable, RefsAvailable
    <3>3. {hoistedSchemas[u]} \in SUBSET Name /\ {hoistedSchemas[u]} \subseteq Available'
      BY <1>0, <3>2, AvailableType
    <3> QED BY <2>1, <3>1, <3>3
  <2>4. CASE Hoist
    <3>1. PICK s \in Declared : s.name = top.hoistName /\ Added(top.type, s)
      BY <2>4, HoistAdds
    <3>2. top.hoistName \in Available' /\ top.hoistName \in Name
      BY <1>0, <2>4, <3>1, AddedAvailable, TopType DEF Hoist, Complete, Running, CallsTyped
    <3>3. {top.hoistName} \in SUBSET Name /\ {top.hoistName} \subseteq Available'
      BY <3>2
    <3>4. returned' = Expression({top.hoistName})
      BY <2>4 DEF Hoist
    <3> QED BY <2>1, <3>3, <3>4
  <2>5. CASE Inline
    <3>0. stack # << >> /\ returned' = Expression(top.refs)
      BY <2>5 DEF Inline, Complete, Running
    <3>1. top.refs \in SUBSET Name /\ top = stack[1] /\ 1 \in DOMAIN stack
      BY <3>0, TopType DEF CallsTyped
    <3>2. top.refs \subseteq Available'
      BY <1>0, <3>1 DEF RefsAvailable
    <3> QED BY <2>1, <3>0, <3>1, <3>2
  <2>6. CASE returned' = << >>
    BY <2>6
  <2>7. CASE returned' = returned
    BY <1>0, <2>7 DEF RefsAvailable
  <2> QED BY <2>2, <2>3, <2>4, <2>5, <2>6, <2>7
          DEF Next, Request, Open, Descend, Receive, Abort, Answer, Declare, Export, Done, vars, calls
<1>4. Answered'
  <2>1. ASSUME NEW name \in todo, Request(name) PROVE Answered'
    <3>1. results' = Append(results, [name |-> name, value |-> << >>])
      BY <2>1 DEF Request
    <3>2. [name |-> name, value |-> << >>] \in Result
      BY DEF CallsTyped, Result
    <3>3. \A i \in DOMAIN results' :
            results'[i].value = << >> \/ (i \in DOMAIN results /\ results'[i] = results[i])
      BY <3>1, <3>2, Appended DEF CallsTyped
    <3> QED BY <1>0, <3>3 DEF RefsAvailable
  <2>2. CASE Answer
    <3>1. \A i \in DOMAIN results' :
            results'[i].value = returned \/ (i \in DOMAIN results /\ results'[i] = results[i])
      BY <2>2 DEF Answer
    <3> QED BY <1>0, <3>1 DEF RefsAvailable
  <2>3. CASE Declare
    <3>1. results # << >> /\ results' = Tail(results)
      BY <2>3 DEF Declare
    <3>2. \A i \in DOMAIN results' : \E j \in DOMAIN results : results'[i] = results[j]
      BY <3>1, Popped DEF CallsTyped
    <3> QED BY <1>0, <3>2 DEF RefsAvailable
  <2>4. CASE results' = results
    BY <1>0, <2>4 DEF RefsAvailable
  <2> QED BY <2>1, <2>2, <2>3, <2>4
          DEF Next, TooDeep, Reuse, Leaf, Open, Descend, Receive, Abort, Hoist, Inline, Export, Done, vars
<1> QED BY <1>1, <1>2, <1>3, <1>4 DEF RefsAvailable

\* The new statement is the last one, and all that was available is before it.
LEMMA AddedBeforeUse ==
  ASSUME StatementsTyped, DeclaredBeforeUse, input' = input,
         NEW t, NEW s \in Declared, Added(t, s), s.refs \subseteq Available
  PROVE  DeclaredBeforeUse'
<1>1. /\ Len(schemaStatements) \in Nat /\ DOMAIN schemaStatements = 1 .. Len(schemaStatements)
      /\ DOMAIN schemaStatements' = 1 .. (Len(schemaStatements) + 1)
      /\ schemaStatements'[Len(schemaStatements) + 1] = s
      /\ \A i \in DOMAIN schemaStatements : schemaStatements'[i] = schemaStatements[i]
  BY Appended DEF StatementsTyped, Added
<1> SUFFICES ASSUME NEW i \in DOMAIN schemaStatements'
             PROVE  schemaStatements'[i].refs \subseteq
                      input'.scope \cup { schemaStatements'[j].name : j \in 1 .. (i - 1) }
  BY DEF DeclaredBeforeUse
<1>2. ASSUME NEW j \in 1 .. (i - 1) PROVE schemaStatements'[j] = schemaStatements[j]
  BY <1>1
<1>3. CASE i \in DOMAIN schemaStatements
  <2>1. schemaStatements[i].refs \subseteq
          input.scope \cup { schemaStatements[j].name : j \in 1 .. (i - 1) }
    BY <1>3 DEF DeclaredBeforeUse
  <2> QED BY <1>1, <1>2, <1>3, <2>1
<1>4. CASE i = Len(schemaStatements) + 1
  <2>1. Available = input.scope \cup { schemaStatements[j].name : j \in 1 .. (i - 1) }
    BY <1>1, <1>4 DEF Available
  <2> QED BY <1>1, <1>2, <1>4, <2>1
<1> QED BY <1>1, <1>3, <1>4

LEMMA DeclaredStep ==
  ASSUME InputOK, CallsTyped, StatementsTyped, RefsAvailable, ResultsAnswered, DeclaredBeforeUse, Next
  PROVE  DeclaredBeforeUse'
<1>0. input' = input
  BY AvailableGrows
<1>1. CASE Hoist
  <2>1. PICK s \in Declared : s.refs = Head(stack).refs /\ Added(Head(stack).type, s)
    BY <1>1, HoistAdds
  <2>2. Head(stack) = stack[1] /\ 1 \in DOMAIN stack
    BY <1>1, TopType DEF Hoist, Complete, Running, CallsTyped
  <2>3. s.refs \subseteq Available
    BY <2>1, <2>2 DEF RefsAvailable
  <2> QED BY <1>0, <2>1, <2>3, AddedBeforeUse
<1>2. CASE Declare
  <2>1. CASE UNCHANGED schemaStatements
    BY <1>0, <2>1 DEF DeclaredBeforeUse
  <2>2. CASE ~ UNCHANGED schemaStatements
    <3>1. /\ 1 \in DOMAIN results /\ 1 \in DOMAIN results[1].value
          /\ \E s \in Declared : /\ s.refs = results[1].value[1].refs
                                 /\ Added(input.requested[results[1].name], s)
      BY <1>2, <2>2, DeclareAdds
    <3>2. PICK s \in Declared : /\ s.refs = results[1].value[1].refs
                                /\ Added(input.requested[results[1].name], s)
      BY <3>1
    <3>3. s.refs \subseteq Available
      BY <3>1, <3>2 DEF RefsAvailable
    <3> QED BY <1>0, <3>2, <3>3, AddedBeforeUse
  <2> QED BY <2>1, <2>2
<1>3. CASE Export
  <2>1. /\ DOMAIN schemaStatements = 1 .. Len(schemaStatements) /\ Len(schemaStatements) \in Nat
        /\ DOMAIN schemaStatements' = DOMAIN schemaStatements
        /\ \A i \in DOMAIN schemaStatements :
             /\ schemaStatements'[i].name = schemaStatements[i].name
             /\ schemaStatements'[i].refs = schemaStatements[i].refs
    BY <1>3, ExportKeeps DEF StatementsTyped
  <2> SUFFICES ASSUME NEW i \in DOMAIN schemaStatements
               PROVE  schemaStatements'[i].refs \subseteq
                        input'.scope \cup { schemaStatements'[j].name : j \in 1 .. (i - 1) }
    BY <2>1 DEF DeclaredBeforeUse
  <2>2. \A j \in 1 .. (i - 1) : schemaStatements'[j].name = schemaStatements[j].name
    BY <2>1
  <2>3. schemaStatements[i].refs \subseteq
          input.scope \cup { schemaStatements[j].name : j \in 1 .. (i - 1) }
    BY DEF DeclaredBeforeUse
  <2> QED BY <1>0, <2>1, <2>2, <2>3
<1>4. CASE schemaStatements' = schemaStatements
  BY <1>0, <1>4 DEF DeclaredBeforeUse
<1> QED BY <1>1, <1>2, <1>3, <1>4
        DEF Next, Request, TooDeep, Reuse, Leaf, Open, Descend, Receive, Abort, Inline, Answer, Done,
            vars, tables

-----------------------------------------------------------------------------
(***************************************************************************)
(* Every request ends in a result or in a statement.                       *)
(***************************************************************************)
LEMMA AnsweredStep ==
  ASSUME InputOK, CallsTyped, ResultsAnswered, Next
  PROVE  ResultsAnswered'
<1> DEFINE waiting == called # << >> \/ stack # << >> \/ returned # << >>
<1>1. ASSUME NEW name \in todo, Request(name) PROVE ResultsAnswered'
  <2>1. results' = Append(results, [name |-> name, value |-> << >>]) /\ ~ waiting /\ called' # << >>
    BY <1>1, SingleType DEF Request
  <2>2. [name |-> name, value |-> << >>] \in Result
    BY DEF CallsTyped, Result
  <2>3. /\ Len(results') = Len(results) + 1 /\ Len(results) \in Nat
        /\ DOMAIN results = 1 .. Len(results) /\ DOMAIN results' = 1 .. (Len(results) + 1)
        /\ (\A i \in DOMAIN results : results'[i] = results[i]) /\ results' # << >>
    BY <2>1, <2>2, Appended DEF CallsTyped
  <2>4. \A i \in DOMAIN results : results[i].value # << >>
    BY <2>1 DEF ResultsAnswered
  <2> QED BY <2>1, <2>3, <2>4 DEF ResultsAnswered
<1>2. CASE TooDeep \/ Reuse \/ Leaf \/ Open \/ Descend \/ Receive \/ Abort \/ Hoist \/ Inline
  <2>1. waiting /\ results' = results
    BY <1>2 DEF TooDeep, Reuse, Leaf, Open, Descend, Receive, Abort, Hoist, Inline, Running, Complete
  <2>2. called' # << >> \/ stack' # << >> \/ returned' # << >>
    <3>1. CASE TooDeep \/ Reuse \/ Leaf \/ Hoist \/ Inline
      <4>1. \A refs : Expression(refs) # << >> /\ Failure # << >>
        BY DEF Expression, Failure
      <4> QED BY <3>1, <4>1 DEF TooDeep, Reuse, Leaf, Hoist, Inline
    <3>2. CASE Open
      <4>1. called[1] \in Type /\ stack \in Seq(Call)
        BY <3>2, CalledType DEF Open, CallsTyped
      <4>2. \A x : << x >> \o stack # << >>
        <5>1. \A x : << x >> \in Seq({x}) /\ Len(<< x >>) = 1
          OBVIOUS
        <5>2. \A x : Len(<< x >> \o stack) = 1 + Len(stack) /\ Len(stack) \in Nat
          BY <4>1, <5>1
        <5> QED BY <5>2
      <4> QED BY <3>2, <4>2 DEF Open
    <3>3. CASE Descend
      <4>1. \A x : << x >> # << >>
        OBVIOUS
      <4> QED BY <3>3, <4>1 DEF Descend
    <3>4. CASE Receive
      <4>1. Tail(stack) \in Seq(Call)
        BY <3>4, Popped DEF Receive, Running, CallsTyped
      <4>2. \A x : << x >> \o Tail(stack) # << >>
        <5>1. \A x : << x >> \in Seq({x}) /\ Len(<< x >>) = 1
          OBVIOUS
        <5>2. \A x : Len(<< x >> \o Tail(stack)) = 1 + Len(Tail(stack)) /\ Len(Tail(stack)) \in Nat
          BY <4>1, <5>1
        <5> QED BY <5>2
      <4> QED BY <3>4, <4>2 DEF Receive
    <3>5. CASE Abort
      <4>1. returned' = returned /\ returned = Failure /\ Failure # << >>
        BY <3>5 DEF Abort, Failure
      <4> QED BY <4>1
    <3> QED BY <1>2, <3>1, <3>2, <3>3, <3>4, <3>5
  <2> QED BY <2>1, <2>2 DEF ResultsAnswered
<1>3. CASE Answer
  <2>1. results # << >> /\ returned # << >>
    BY <1>3 DEF Answer, ResultsAnswered
  <2>2. Len(results) \in Nat \ {0} /\ DOMAIN results = 1 .. Len(results)
    BY <2>1, EmptySeq DEF CallsTyped
  <2>3. PICK r : r.value = returned /\ results' = [results EXCEPT ![Len(results)] = r]
    BY <1>3 DEF Answer
  <2>4. /\ DOMAIN results' = DOMAIN results /\ results'[Len(results)] = r
        /\ \A i \in DOMAIN results : i # Len(results) => results'[i] = results[i]
    BY <2>2, <2>3
  <2>5. results' # << >>
    BY <2>2, <2>4
  <2>6. \A i \in DOMAIN results' : results'[i].value # << >>
    BY <2>1, <2>2, <2>3, <2>4 DEF ResultsAnswered
  <2>7. called' = << >> /\ stack' = << >> /\ returned' = << >>
    BY <1>3 DEF Answer
  <2> QED BY <2>5, <2>6 DEF ResultsAnswered
<1>4. CASE Declare
  <2>1. /\ results # << >> /\ results' = Tail(results) /\ ~ waiting
        /\ called' = << >> /\ stack' = << >> /\ returned' = << >>
    BY <1>4 DEF Declare, calls
  <2>2. \A i \in DOMAIN results' : i + 1 \in DOMAIN results /\ results'[i] = results[i + 1]
    BY <2>1, Popped DEF CallsTyped
  <2>3. \A i \in DOMAIN results' : results'[i].value # << >>
    BY <2>1, <2>2 DEF ResultsAnswered
  <2> QED BY <2>1, <2>3 DEF ResultsAnswered
<1>5. CASE Export \/ Done
  <2>1. results' = results /\ called' = called /\ stack' = stack /\ returned' = returned
    BY <1>5 DEF Export, Done, vars, calls
  <2> QED BY <2>1 DEF ResultsAnswered
<1> QED BY <1>1, <1>2, <1>3, <1>4, <1>5 DEF Next

\* The type that a statement is added for: under a name that was asked for, if any was.
LEMMA AddedAsRequested ==
  ASSUME StatementsTyped, RequestsFollowed, input' = input,
         NEW t \in Type, NEW s \in Declared, s.type = t, Added(t, s),
         RequestedAs(t) # {} => s.name \in RequestedAs(t)
  PROVE  /\ DOMAIN typeToStatementIndex' = DOMAIN typeToStatementIndex \cup {t}
         /\ \A u \in DOMAIN typeToStatementIndex' :
              RequestedAs(u) # {} => schemaStatements'[typeToStatementIndex'[u]].name \in RequestedAs(u)
<1>1. /\ Len(schemaStatements) \in Nat /\ DOMAIN schemaStatements = 1 .. Len(schemaStatements)
      /\ schemaStatements'[Len(schemaStatements) + 1] = s
      /\ \A i \in DOMAIN schemaStatements : schemaStatements'[i] = schemaStatements[i]
  BY Appended DEF StatementsTyped, Added
<1>2. /\ DOMAIN typeToStatementIndex' = DOMAIN typeToStatementIndex \cup {t}
      /\ \A u \in DOMAIN typeToStatementIndex \cup {t} :
           typeToStatementIndex'[u] = IF u = t THEN Len(schemaStatements) + 1 ELSE typeToStatementIndex[u]
  BY DEF Indexed, Added
<1>3. ASSUME NEW u \in DOMAIN typeToStatementIndex', RequestedAs(u) # {}
      PROVE  schemaStatements'[typeToStatementIndex'[u]].name \in RequestedAs(u)
  <2>1. CASE u = t
    <3>1. schemaStatements'[typeToStatementIndex'[u]] = s
      BY <1>1, <1>2, <2>1
    <3> QED BY <1>3, <2>1, <3>1
  <2>2. CASE u # t
    <3>1. u \in DOMAIN typeToStatementIndex /\ typeToStatementIndex'[u] = typeToStatementIndex[u]
      BY <1>2, <2>2
    <3>2. typeToStatementIndex[u] \in DOMAIN schemaStatements
      BY <1>1, <3>1 DEF StatementsTyped
    <3>3. schemaStatements'[typeToStatementIndex'[u]] = schemaStatements[typeToStatementIndex[u]]
      BY <1>1, <3>1, <3>2
    <3>4. schemaStatements[typeToStatementIndex[u]].name \in RequestedAs(u)
      BY <1>3, <3>1 DEF RequestsFollowed
    <3> QED BY <3>3, <3>4
  <2> QED BY <2>1, <2>2
<1> QED BY <1>2, <1>3

LEMMA RequestsStep ==
  ASSUME InputOK, CallsTyped, UsedTyped, StatementsTyped, ResultsAnswered, RequestsFollowed, Next
  PROVE  RequestsFollowed'
<1> DEFINE top == Head(stack)
           Stacked  == \A i \in DOMAIN stack :
                         RequestedAs(stack[i].type) # {} => stack[i].hoistName \in RequestedAs(stack[i].type)
           Indexes  == \A t \in DOMAIN typeToStatementIndex :
                         RequestedAs(t) # {} =>
                           schemaStatements[typeToStatementIndex[t]].name \in RequestedAs(t)
           Followed == \A name \in DOMAIN input.requested :
                         \/ name \in todo
                         \/ input.requested[name] \in DOMAIN typeToStatementIndex
                         \/ \E i \in DOMAIN results : results[i].name = name
           Emptied  == pc = "done" => todo = {} /\ results = << >>
<1>0. input' = input /\ \A t : RequestedAs(t)' = RequestedAs(t)
  BY AvailableGrows DEF RequestedAs
<1>1. Stacked'
  <2>1. CASE Open
    <3>0. called[1] \in Type
      BY <2>1, CalledType DEF Open, CallsTyped
    <3>1. PICK hoist \in HoistNames(called[1]) :
            stack' = << Frame(called[1], hoist.name, input.parts[called[1]], {}) >> \o stack
      BY <2>1 DEF Open
    <3>2. /\ Frame(called[1], hoist.name, input.parts[called[1]], {}) \in Call
          /\ Frame(called[1], hoist.name, input.parts[called[1]], {}).type = called[1]
          /\ Frame(called[1], hoist.name, input.parts[called[1]], {}).hoistName = hoist.name
          /\ RequestedAs(called[1]) # {} => hoist.name \in RequestedAs(called[1])
      BY <3>0, HoistNamesType, InputFacts, FrameType
    <3>3. \A i \in DOMAIN stack' :
            \/ stack'[i].type = called[1] /\ stack'[i].hoistName = hoist.name
            \/ \E j \in DOMAIN stack : stack'[i] = stack[j]
      BY <3>1, <3>2, Pushed DEF CallsTyped
    <3> QED BY <1>0, <3>2, <3>3 DEF RequestsFollowed, RequestedAs
  <2>2. CASE Descend \/ Receive
    <3>0. stack # << >>
      BY <2>2 DEF Descend, Receive, Running
    <3>1. /\ top.type \in Type /\ top.hoistName \in Name
          /\ top.left \in Seq(Type) /\ top.refs \in SUBSET Name /\ top = stack[1] /\ 1 \in DOMAIN stack
      BY <3>0, TopType DEF CallsTyped
    <3>2. \E left \in Seq(Type), refs \in SUBSET Name :
            stack' = << Frame(top.type, top.hoistName, left, refs) >> \o Tail(stack)
      <4>1. CASE Descend
        <5>1. Tail(top.left) \in Seq(Type)
          BY <3>1, <4>1, Popped DEF Descend
        <5> QED BY <4>1, <5>1, <3>1 DEF Descend
      <4>2. CASE Receive
        <5>1. top.refs \cup returned[1].refs \in SUBSET Name
          BY <4>2, <3>1, ReturnedType DEF Receive, CallsTyped
        <5> QED BY <4>2, <5>1, <3>1 DEF Receive
      <4> QED BY <2>2, <4>1, <4>2
    <3>3. PICK left \in Seq(Type), refs \in SUBSET Name :
            stack' = << Frame(top.type, top.hoistName, left, refs) >> \o Tail(stack)
      BY <3>2
    <3>4. /\ Frame(top.type, top.hoistName, left, refs) \in Call
          /\ Frame(top.type, top.hoistName, left, refs).type = stack[1].type
          /\ Frame(top.type, top.hoistName, left, refs).hoistName = stack[1].hoistName
      BY <3>1, FrameType
    <3>5. /\ Tail(stack) \in Seq(Call)
          /\ \A i \in DOMAIN Tail(stack) : \E j \in DOMAIN stack : Tail(stack)[i] = stack[j]
      BY <3>0, Popped DEF CallsTyped
    <3>6. \A i \in DOMAIN stack' :
            \/ stack'[i].type = stack[1].type /\ stack'[i].hoistName = stack[1].hoistName
            \/ \E j \in DOMAIN Tail(stack) : stack'[i] = Tail(stack)[j]
      BY <3>3, <3>4, <3>5, Pushed
    <3>7. \A i \in DOMAIN stack' : \E j \in DOMAIN stack :
            stack'[i].type = stack[j].type /\ stack'[i].hoistName = stack[j].hoistName
      BY <3>1, <3>5, <3>6
    <3> QED BY <1>0, <3>7 DEF RequestsFollowed, RequestedAs
  <2>3. CASE Abort \/ Hoist \/ Inline
    <3>0. stack # << >> /\ stack' = Tail(stack)
      BY <2>3 DEF Abort, Hoist, Inline, Running, Complete
    <3>1. \A i \in DOMAIN stack' : \E j \in DOMAIN stack : stack'[i] = stack[j]
      BY <3>0, Popped DEF CallsTyped
    <3> QED BY <1>0, <3>1 DEF RequestsFollowed, RequestedAs
  <2>4. CASE stack' = stack
    BY <1>0, <2>4 DEF RequestsFollowed, RequestedAs
  <2> QED BY <2>1, <2>2, <2>3, <2>4
          DEF Next, Request, TooDeep, Reuse, Leaf, Answer, Declare, Export, Done, vars, calls
<1>2. Indexes' /\ DOMAIN typeToStatementIndex \subseteq DOMAIN typeToStatementIndex'
  <2>1. CASE Hoist
    <3>0. top.type \in Type /\ top = stack[1] /\ 1 \in DOMAIN stack
      BY <2>1, TopType DEF Hoist, Complete, Running, CallsTyped
    <3>1. PICK s \in Declared : s.type = top.type /\ s.name = top.hoistName /\ Added(top.type, s)
      BY <2>1, HoistAdds
    <3>2. RequestedAs(top.type) # {} => s.name \in RequestedAs(top.type)
      BY <3>0, <3>1 DEF RequestsFollowed
    <3> HIDE DEF top
    <3>3. /\ DOMAIN typeToStatementIndex \subseteq DOMAIN typeToStatementIndex'
          /\ \A u \in DOMAIN typeToStatementIndex' :
               RequestedAs(u) # {} => schemaStatements'[typeToStatementIndex'[u]].name \in RequestedAs(u)
      BY <1>0, <3>0, <3>1, <3>2, AddedAsRequested
    <3> QED BY <1>0, <3>3 DEF RequestedAs
  <2>2. CASE Declare /\ ~ UNCHANGED <<schemaStatements, typeToStatementIndex>>
    <3> DEFINE t == input.requested[results[1].name]
    <3>0. t \in Type /\ results[1].name \in RequestedAs(t)
      BY <2>2, DeclareAdds, InputFacts DEF RequestedAs
    <3>1. \E s \in Declared : s.type = t /\ s.name = results[1].name /\ Added(t, s)
      BY <2>2, DeclareAdds
    <3>2. PICK s \in Declared : s.type = t /\ s.name = results[1].name /\ Added(t, s)
      BY <3>1
    <3> HIDE DEF t
    <3>3. /\ DOMAIN typeToStatementIndex \subseteq DOMAIN typeToStatementIndex'
          /\ \A u \in DOMAIN typeToStatementIndex' :
               RequestedAs(u) # {} => schemaStatements'[typeToStatementIndex'[u]].name \in RequestedAs(u)
      BY <1>0, <3>0, <3>2, AddedAsRequested
    <3> QED BY <1>0, <3>3 DEF RequestedAs
  <2>3. CASE Export
    <3>1. typeToStatementIndex' = typeToStatementIndex
      BY <2>3 DEF Export
    <3>2. \A u \in DOMAIN typeToStatementIndex :
            schemaStatements'[typeToStatementIndex[u]].name = schemaStatements[typeToStatementIndex[u]].name
      BY <2>3, ExportKeeps DEF StatementsTyped
    <3> QED BY <1>0, <3>1, <3>2 DEF RequestsFollowed, RequestedAs
  <2>4. CASE schemaStatements' = schemaStatements /\ typeToStatementIndex' = typeToStatementIndex
    BY <1>0, <2>4 DEF RequestsFollowed, RequestedAs
  <2> QED BY <2>1, <2>2, <2>3, <2>4
          DEF Next, Request, TooDeep, Reuse, Leaf, Open, Descend, Receive, Abort, Inline, Answer, Done,
              vars, tables
<1>3. Followed'
  <2>1. ASSUME NEW name \in todo, Request(name) PROVE Followed'
    <3>1. /\ results' = Append(results, [name |-> name, value |-> << >>]) /\ todo' = todo \ {name}
          /\ typeToStatementIndex' = typeToStatementIndex
      BY <2>1 DEF Request, tables
    <3>2. [name |-> name, value |-> << >>] \in Result
      BY DEF CallsTyped, Result
    <3>3. /\ \E i \in DOMAIN results' : results'[i].name = name
          /\ \A i \in DOMAIN results : i \in DOMAIN results' /\ results'[i] = results[i]
      <4>1. /\ Len(results) + 1 \in DOMAIN results'
            /\ results'[Len(results) + 1] = [name |-> name, value |-> << >>]
            /\ \A i \in DOMAIN results : i \in DOMAIN results' /\ results'[i] = results[i]
        BY <3>1, <3>2, Appended DEF CallsTyped
      <4>2. results'[Len(results) + 1].name = name
        BY <4>1
      <4> QED BY <4>1, <4>2
    <3> QED BY <1>0, <3>1, <3>3 DEF RequestsFollowed
  <2>2. CASE Answer
    <3>1. /\ todo' = todo /\ typeToStatementIndex' = typeToStatementIndex
          /\ DOMAIN results' = DOMAIN results
          /\ \A i \in DOMAIN results : results'[i].name = results[i].name
      BY <2>2 DEF Answer, tables
    <3> QED BY <1>0, <3>1 DEF RequestsFollowed
  <2>3. CASE Declare
    <3>1. results # << >> /\ results' = Tail(results) /\ todo' = todo
      BY <2>3 DEF Declare
    <3>2. input.requested[results[1].name] \in DOMAIN typeToStatementIndex'
      <4>1. CASE input.requested[results[1].name] \in DOMAIN typeToStatementIndex
        BY <1>2, <4>1
      <4>2. CASE input.requested[results[1].name] \notin DOMAIN typeToStatementIndex
        <5>1. PICK s : Added(input.requested[results[1].name], s)
          BY <2>3, <4>2, DeclareAdds
        <5> QED BY <5>1 DEF Added, Indexed
      <4> QED BY <4>1, <4>2
    <3>3. \A j \in DOMAIN results : j = 1 \/ \E i \in DOMAIN results' : results'[i] = results[j]
      <4>1. /\ Len(results) \in Nat \ {0} /\ DOMAIN results = 1 .. Len(results)
            /\ DOMAIN results' = 1 .. (Len(results) - 1)
            /\ \A i \in DOMAIN results' : results'[i] = results[i + 1]
        BY <3>1, Popped DEF CallsTyped
      <4>2. ASSUME NEW j \in DOMAIN results, j # 1 PROVE \E i \in DOMAIN results' : results'[i] = results[j]
        <5>1. j - 1 \in DOMAIN results' /\ (j - 1) + 1 = j
          BY <4>1, <4>2
        <5>2. results'[j - 1] = results[j]
          BY <4>1, <5>1
        <5> QED BY <5>1, <5>2
      <4> QED BY <4>2
    <3> QED BY <1>0, <1>2, <3>1, <3>2, <3>3 DEF RequestsFollowed
  <2>4. CASE results' = results /\ todo' = todo
    BY <1>0, <1>2, <2>4 DEF RequestsFollowed
  <2> QED BY <2>1, <2>2, <2>3, <2>4
          DEF Next, TooDeep, Reuse, Leaf, Open, Descend, Receive, Abort, Hoist, Inline, Export, Done, vars
<1>4. Emptied'
  <2>1. CASE Export
    BY <2>1 DEF Export
  <2>2. CASE pc' = pc /\ pc = "process"
    BY <2>2
  <2>3. CASE Done
    BY <2>3 DEF Done, vars, RequestsFollowed
  <2>4. CASE pc' = pc /\ pc # "process" /\ ~ Done
    <3>1. todo = {} /\ results = << >> /\ called = << >> /\ stack = << >> /\ returned = << >>
      BY <2>4 DEF CallsTyped, RequestsFollowed, ResultsAnswered
    <3> QED BY <2>4, <3>1 DEF Next, Request, TooDeep, Reuse, Leaf, Open, Descend, Receive, Abort, Hoist,
                   Inline, Running, Complete, Answer, Declare, Export
  <2> QED BY <2>1, <2>2, <2>3, <2>4
          DEF Next, Request, TooDeep, Reuse, Leaf, Open, Descend, Receive, Abort, Hoist, Inline, Answer,
              Declare
<1> QED BY <1>1, <1>2, <1>3, <1>4 DEF RequestsFollowed

-----------------------------------------------------------------------------
(***************************************************************************)
(* The inductive invariant and what follows from it.                       *)
(***************************************************************************)
IInv ==
  /\ InputOK /\ CallsTyped /\ UsedTyped /\ StatementsTyped
  /\ RefsAvailable /\ ResultsAnswered /\ RequestsFollowed
  /\ DeclaredBeforeUse

LEMMA InitIInv == Init => IInv
<1> SUFFICES ASSUME Init PROVE IInv
  OBVIOUS
<1>0. InputOK
  BY DEF Init, InputOK
<1>1. /\ schemaStatements = << >> /\ typeToStatementIndex = << >> /\ results = << >>
      /\ called = << >> /\ stack = << >> /\ returned = << >> /\ pc = "process"
      /\ todo = DOMAIN input.requested /\ usedGlobalIdentifiers = [name \in input.scope |-> 1]
  BY DEF Init
<1>2. DOMAIN << >> = {} /\ Len(<< >>) = 0
  OBVIOUS
<1>3. CallsTyped
  BY <1>0, <1>1, <1>2, InputFacts, EmptyType DEF CallsTyped
<1>4. UsedTyped
  BY <1>0, <1>1, InputFacts DEF UsedTyped
<1>5. /\ DOMAIN hoistedSchemas \subseteq Type
      /\ \A t \in DOMAIN hoistedSchemas : hoistedSchemas[t] \in input.scope
  <2> DEFINE known == { s[2] : s \in input.schemas }
  <2>1. known \subseteq Type /\ hoistedSchemas \in [known -> input.scope]
    BY <1>0, InputFacts DEF Init
  <2> HIDE DEF known
  <2> QED BY <2>1
<1>6. StatementsTyped
  BY <1>1, <1>2, <1>5, EmptyType DEF StatementsTyped
<1>7. RefsAvailable
  BY <1>1, <1>2, <1>5 DEF RefsAvailable, Available
<1>8. ResultsAnswered /\ DeclaredBeforeUse
  BY <1>1, <1>2 DEF ResultsAnswered, DeclaredBeforeUse
<1>9. RequestsFollowed
  BY <1>1, <1>2 DEF RequestsFollowed
<1> QED BY <1>0, <1>3, <1>4, <1>6, <1>7, <1>8, <1>9 DEF IInv

LEMMA NextIInv == IInv /\ [Next]_vars => IInv'
<1> SUFFICES ASSUME IInv, [Next]_vars PROVE IInv'
  OBVIOUS
<1>1. CASE Next
  <2>1. InputOK'
    BY <1>1, AvailableGrows DEF IInv, InputOK
  <2>2. CallsTyped' /\ UsedTyped' /\ StatementsTyped'
    BY <1>1, CallsStep, UsedStep, StatementsStep DEF IInv
  <2>3. RefsAvailable' /\ DeclaredBeforeUse'
    BY <1>1, RefsStep, DeclaredStep DEF IInv
  <2>4. ResultsAnswered' /\ RequestsFollowed'
    BY <1>1, AnsweredStep, RequestsStep DEF IInv
  <2> QED BY <2>1, <2>2, <2>3, <2>4 DEF IInv
<1>2. CASE UNCHANGED vars
  <2>1. /\ input' = input /\ todo' = todo /\ called' = called /\ stack' = stack /\ returned' = returned
        /\ results' = results /\ usedGlobalIdentifiers' = usedGlobalIdentifiers
        /\ hoistedSchemas' = hoistedSchemas /\ schemaStatements' = schemaStatements
        /\ typeToStatementIndex' = typeToStatementIndex /\ pc' = pc
    BY <1>2 DEF vars, calls, tables
  <2>2. InputOK' /\ CallsTyped' /\ UsedTyped' /\ StatementsTyped'
    BY <2>1 DEF IInv, InputOK, CallsTyped, UsedTyped, StatementsTyped, Result
  <2>3. RefsAvailable' /\ ResultsAnswered' /\ DeclaredBeforeUse'
    BY <2>1 DEF IInv, RefsAvailable, Available, ResultsAnswered, DeclaredBeforeUse
  <2>4. RequestsFollowed'
    BY <2>1 DEF IInv, RequestsFollowed, RequestedAs
  <2> QED BY <2>2, <2>3, <2>4 DEF IInv
<1> QED BY <1>1, <1>2

LEMMA IInvHolds == Spec => []IInv
BY InitIInv, NextIInv, PTL DEF Spec

\* The calls, the results and the tables keep their types, the calls never nest
\* deeper than the limit, and the index of statements is right
\* (internal/schemagen/structural.go).
THEOREM TypeCorrect == Spec => []TypeOK
<1>1. IInv => TypeOK
  BY TypeParts DEF IInv
<1> QED BY <1>1, IInvHolds, PTL

\* Whatever the types contain and in whatever order they are asked for, no
\* statement refers to one that is printed after it (pushHoistedStatement).
THEOREM StatementsInOrder == Spec => []DeclaredBeforeUse
<1>1. IInv => DeclaredBeforeUse
  BY DEF IInv
<1> QED BY <1>1, IInvHolds, PTL

\* At the end every request was followed.
LEMMA IInvRequested == IInv => RequestedDeclared
<1> SUFFICES ASSUME IInv, pc = "done", NEW name \in DOMAIN input.requested
             PROVE  LET t == input.requested[name] IN
                    /\ t \in DOMAIN typeToStatementIndex
                    /\ schemaStatements[typeToStatementIndex[t]].name \in RequestedAs(t)
  BY DEF RequestedDeclared
<1>1. todo = {} /\ DOMAIN results = {}
  BY DEF IInv, RequestsFollowed
<1>2. input.requested[name] \in DOMAIN typeToStatementIndex
  BY <1>1 DEF IInv, RequestsFollowed
<1>3. name \in RequestedAs(input.requested[name])
  BY DEF RequestedAs
<1> QED BY <1>2, <1>3 DEF IInv, RequestsFollowed

\* Every type that is asked for ends up declared under a name that was asked for
\* (Process and resolveHoistName).
THEOREM RequestsDeclared == Spec => []RequestedDeclared
BY IInvRequested, IInvHolds, PTL

-----------------------------------------------------------------------------
(***************************************************************************)
(* What was asked for is an error for a reason.  The calls that are under  *)
(* way are for a type within each of those below them, so that more of     *)
(* them than there are types come to a type within itself.                 *)
(***************************************************************************)
\* The type that the calls under way are for.
Root == input.requested[results[Len(results)].name]

\* It has no schema.
Broken(t) == Recursive(t) \/ Unsupported(t)

Nested ==
  /\ \A i \in DOMAIN stack : ToSet(stack[i].left) \subseteq ToSet(input.parts[stack[i].type])
  /\ \A i, j \in DOMAIN stack : i < j => stack[i].type \in Within(stack[j].type)
  /\ called # << >> => \A j \in DOMAIN stack : called[1] \in Within(stack[j].type)
  /\ called # << >> /\ stack = << >> => called[1] = Root
  /\ stack # << >> => stack[Len(stack)].type = Root

FailuresExplained ==
  /\ returned # << >> /\ returned[1].failed => Broken(Root)
  /\ \A i \in DOMAIN results : results[i].value # << >> /\ results[i].value[1].failed =>
       Broken(input.requested[results[i].name])
  /\ \A i \in DOMAIN schemaStatements : schemaStatements[i].failed => Broken(schemaStatements[i].type)

RequestsExported ==
  pc = "done" /\ input.isExported =>
    \A t \in Range(input.requested) \cap DOMAIN typeToStatementIndex :
      schemaStatements[typeToStatementIndex[t]].exported

(***************************************************************************)
(* What is within a type contains its parts, and theirs.                   *)
(***************************************************************************)
LEMMA WithinIsClosed ==
  ASSUME InputOK, NEW t \in Type
  PROVE  /\ Within(t) \subseteq Type /\ ToSet(input.parts[t]) \subseteq Within(t)
         /\ \A u \in Within(t) : ToSet(input.parts[u]) \subseteq Within(t)
<1>1. \A u \in Type : ToSet(input.parts[u]) \subseteq Type
  BY InputFacts DEF ToSet
<1>2. ToSet(input.parts[t]) \subseteq Within(t)
  BY <1>1 DEF Within
<1>3. ASSUME NEW u \in Within(t), NEW v \in ToSet(input.parts[u]) PROVE v \in Within(t)
  <2>1. u \in Type /\ v \in Type
    BY <1>1 DEF Within
  <2> SUFFICES ASSUME NEW S \in SUBSET Type, ToSet(input.parts[t]) \subseteq S,
                      \A s \in S : ToSet(input.parts[s]) \subseteq S
               PROVE  v \in S
    BY <2>1 DEF Within
  <2> QED BY DEF Within
<1> QED BY <1>2, <1>3 DEF Within

(***************************************************************************)
(* The indices of the stack after a push and after a change of its top.    *)
(***************************************************************************)
LEMMA PushedAt ==
  ASSUME NEW S, NEW s \in Seq(S), NEW x \in S
  PROVE  /\ << x >> \o s \in Seq(S) /\ DOMAIN (<< x >> \o s) = 1 .. (Len(s) + 1)
         /\ Len(<< x >> \o s) = Len(s) + 1 /\ Len(s) \in Nat /\ DOMAIN s = 1 .. Len(s)
         /\ (<< x >> \o s)[1] = x /\ \A i \in DOMAIN s : (<< x >> \o s)[i + 1] = s[i]
<1>1. << x >> \in Seq(S) /\ Len(<< x >>) = 1 /\ << x >>[1] = x
  OBVIOUS
<1>2. /\ << x >> \o s \in Seq(S) /\ Len(<< x >> \o s) = 1 + Len(s)
      /\ \A i \in 1 .. (1 + Len(s)) : (<< x >> \o s)[i] = IF i <= 1 THEN << x >>[i] ELSE s[i - 1]
  BY <1>1, ConcatProperties
<1>3. Len(s) \in Nat /\ DOMAIN s = 1 .. Len(s)
  OBVIOUS
<1>4. DOMAIN (<< x >> \o s) = 1 .. (1 + Len(s))
  BY <1>2
<1>5. (<< x >> \o s)[1] = x
  BY <1>1, <1>2, <1>3
<1>6. ASSUME NEW i \in DOMAIN s PROVE (<< x >> \o s)[i + 1] = s[i]
  <2>1. i + 1 \in 1 .. (1 + Len(s)) /\ ~ (i + 1 <= 1) /\ (i + 1) - 1 = i
    BY <1>3
  <2> QED BY <2>1, <1>2
<1> QED BY <1>2, <1>3, <1>4, <1>5, <1>6

LEMMA ReplacedAt ==
  ASSUME NEW S, NEW s \in Seq(S), s # << >>, NEW x \in S
  PROVE  /\ << x >> \o Tail(s) \in Seq(S) /\ DOMAIN (<< x >> \o Tail(s)) = DOMAIN s
         /\ Len(<< x >> \o Tail(s)) = Len(s) /\ DOMAIN s = 1 .. Len(s) /\ Len(s) \in Nat \ {0}
         /\ (<< x >> \o Tail(s))[1] = x
         /\ \A i \in DOMAIN s : i # 1 => (<< x >> \o Tail(s))[i] = s[i]
<1>1. /\ Tail(s) \in Seq(S) /\ Len(Tail(s)) = Len(s) - 1 /\ Len(s) \in Nat \ {0}
      /\ \A i \in DOMAIN Tail(s) : i + 1 \in DOMAIN s /\ Tail(s)[i] = s[i + 1]
  BY Popped
<1>2. /\ << x >> \o Tail(s) \in Seq(S) /\ DOMAIN (<< x >> \o Tail(s)) = 1 .. (Len(Tail(s)) + 1)
      /\ Len(<< x >> \o Tail(s)) = Len(Tail(s)) + 1 /\ DOMAIN Tail(s) = 1 .. Len(Tail(s))
      /\ (<< x >> \o Tail(s))[1] = x
      /\ \A i \in DOMAIN Tail(s) : (<< x >> \o Tail(s))[i + 1] = Tail(s)[i]
  BY <1>1, PushedAt
<1>3. DOMAIN s = 1 .. Len(s)
  OBVIOUS
<1>4. ASSUME NEW i \in DOMAIN s, i # 1 PROVE (<< x >> \o Tail(s))[i] = s[i]
  <2>1. i - 1 \in DOMAIN Tail(s) /\ (i - 1) + 1 = i
    BY <1>1, <1>2, <1>3, <1>4
  <2>2. (<< x >> \o Tail(s))[(i - 1) + 1] = Tail(s)[i - 1] /\ Tail(s)[i - 1] = s[(i - 1) + 1]
    BY <2>1, <1>1, <1>2
  <2> QED BY <2>1, <2>2
<1> QED BY <1>1, <1>2, <1>3, <1>4

(***************************************************************************)
(* A step of a call stays with the request, and so with its type.          *)
(***************************************************************************)
LEMMA RootStays ==
  ASSUME IInv, Next, called # << >> \/ stack # << >> \/ returned # << >>
  PROVE  /\ input' = input /\ Root' = Root /\ DOMAIN results' = DOMAIN results
         /\ \A i \in DOMAIN results : results'[i].name = results[i].name
         /\ ~ Answer => results' = results
<1>1. input' = input
  BY AvailableGrows DEF IInv
<1>2. CASE results' = results
  BY <1>1, <1>2 DEF Root
<1>3. CASE Answer
  <2>1. results # << >> /\ results \in Seq(Result)
    BY <1>3 DEF Answer, ResultsAnswered, IInv, CallsTyped
  <2>2. Len(results) \in Nat \ {0} /\ DOMAIN results = 1 .. Len(results)
    BY <2>1, EmptySeq
  <2>3. PICK r : r.name = results[Len(results)].name /\ results' = [results EXCEPT ![Len(results)] = r]
    BY <1>3 DEF Answer
  <2>4. /\ DOMAIN results' = DOMAIN results /\ results'[Len(results)] = r
        /\ \A i \in DOMAIN results : i # Len(results) => results'[i] = results[i]
    BY <2>2, <2>3
  <2>5. results' \in Seq(Result')
    BY <1>3, CallsStep DEF IInv, CallsTyped
  <2>6. Len(results') = Len(results)
    <3>1. Len(results') \in Nat /\ DOMAIN results' = 1 .. Len(results')
      BY <2>5
    <3>2. Len(results) \in 1 .. Len(results')
      BY <3>1, <2>2, <2>4
    <3>3. Len(results') \in 1 .. Len(results)
      BY <3>1, <3>2, <2>2, <2>4
    <3>4. \A a, b \in Nat : a \in 1 .. b /\ b \in 1 .. a => b = a
      OBVIOUS
    <3> QED BY <3>1, <3>2, <3>3, <3>4, <2>2, Zenon
  <2> QED BY <1>1, <1>3, <2>2, <2>3, <2>4, <2>6 DEF Root
<1> QED BY <1>2, <1>3
        DEF Next, Request, TooDeep, Reuse, Leaf, Open, Descend, Receive, Abort, Hoist, Inline, Running,
            Complete, Declare, Export, Done, vars

(***************************************************************************)
(* The calls under way are for types within one another.                   *)
(***************************************************************************)
LEMMA NestedStep == IInv /\ Nested /\ [Next]_vars => Nested'
<1> SUFFICES ASSUME IInv, Nested, [Next]_vars PROVE Nested'
  OBVIOUS
<1> DEFINE top == Head(stack)
           busy == called # << >> \/ stack # << >> \/ returned # << >>
<1>0. /\ stack \in Seq(Call) /\ DOMAIN stack = 1 .. Len(stack) /\ Len(stack) \in Nat
      /\ \A i \in DOMAIN stack : stack[i].type \in Type /\ stack[i].left \in Seq(Type)
  <2>1. stack \in Seq(Call) /\ DOMAIN stack = 1 .. Len(stack) /\ Len(stack) \in Nat
    BY DEF IInv, CallsTyped
  <2>2. \A i \in DOMAIN stack : stack[i] \in Call
    BY <2>1, ElementOfSeq
  <2> QED BY <2>1, <2>2 DEF Call
<1>1. CASE UNCHANGED vars
  BY <1>1 DEF vars, calls, Nested, Within, Root
<1> SUFFICES ASSUME Next PROVE Nested'
  BY <1>1
<1>2. input' = input
  BY AvailableGrows DEF IInv
<1>2a. \A t : Within(t)' = Within(t)
  BY <1>2 DEF Within
<1>3. ASSUME NEW name \in todo, Request(name) PROVE Nested'
  <2>1. /\ stack' = << >> /\ called' = << input.requested[name] >>
        /\ results' = Append(results, [name |-> name, value |-> << >>])
    BY <1>3 DEF Request
  <2>2. [name |-> name, value |-> << >>] \in Result
    BY DEF IInv, CallsTyped, Result
  <2>3. /\ Len(results') = Len(results) + 1
        /\ results'[Len(results) + 1] = [name |-> name, value |-> << >>]
    BY <2>1, <2>2, Appended DEF IInv, CallsTyped
  <2>4. Root' = input.requested[name]
    BY <1>2, <2>3 DEF Root
  <2>5. DOMAIN stack' = {} /\ called'[1] = input.requested[name]
    BY <2>1
  <2> QED BY <2>1, <2>4, <2>5 DEF Nested
<1>4. CASE TooDeep \/ Reuse \/ Leaf
  <2>1. called # << >> /\ called' = << >> /\ stack' = stack
    BY <1>4 DEF TooDeep, Reuse, Leaf
  <2>2. Root' = Root
    BY <2>1, RootStays
  <2> QED BY <1>2, <1>2a, <2>1, <2>2 DEF Nested
<1>5. CASE Open
  <2>1. called # << >> /\ called[1] \in Type /\ called' = << >>
    BY <1>5, CalledType DEF Open, IInv, CallsTyped
  <2>2. PICK hoist \in HoistNames(called[1]) :
          stack' = << Frame(called[1], hoist.name, input.parts[called[1]], {}) >> \o stack
    BY <1>5 DEF Open
  <2> DEFINE frame == Frame(called[1], hoist.name, input.parts[called[1]], {})
  <2>3. frame \in Call /\ frame.type = called[1] /\ frame.left = input.parts[called[1]]
    <3>1. hoist.name \in Name /\ input.parts[called[1]] \in Seq(Type) /\ {} \in SUBSET Name
      BY <2>1, HoistNamesType, InputFacts DEF IInv
    <3> QED BY <2>1, <3>1, FrameType DEF Frame
  <2> HIDE DEF frame
  <2>4. /\ DOMAIN stack' = 1 .. (Len(stack) + 1) /\ Len(stack') = Len(stack) + 1
        /\ stack'[1] = frame /\ \A i \in DOMAIN stack : stack'[i + 1] = stack[i]
    BY <1>0, <2>2, <2>3, PushedAt DEF frame
  <2>5. \A i \in DOMAIN stack' : i = 1 \/ (i - 1 \in DOMAIN stack /\ stack'[i] = stack[i - 1])
    <3> SUFFICES ASSUME NEW i \in DOMAIN stack', i # 1
                 PROVE  i - 1 \in DOMAIN stack /\ stack'[i] = stack[i - 1]
      OBVIOUS
    <3>1. i - 1 \in DOMAIN stack /\ (i - 1) + 1 = i
      BY <1>0, <2>4
    <3> QED BY <2>4, <3>1
  <2>6. \A i \in DOMAIN stack' : ToSet(stack'[i].left) \subseteq ToSet(input'.parts[stack'[i].type])
    BY <1>2, <2>3, <2>4, <2>5 DEF Nested
  <2>7. ASSUME NEW i \in DOMAIN stack', NEW j \in DOMAIN stack', i < j
        PROVE  stack'[i].type \in Within(stack'[j].type)
    <3>1. j - 1 \in DOMAIN stack /\ stack'[j] = stack[j - 1]
      BY <2>4, <2>5, <2>7
    <3>2. CASE i = 1
      BY <3>1, <3>2, <2>1, <2>3, <2>4 DEF Nested
    <3>3. CASE i # 1
      <4>1. i - 1 \in DOMAIN stack /\ stack'[i] = stack[i - 1] /\ i - 1 < j - 1
        BY <2>4, <2>5, <2>7, <3>3
      <4> QED BY <3>1, <4>1 DEF Nested
    <3> QED BY <3>2, <3>3
  <2>8. stack'[Len(stack')].type = Root'
    <3>1. Root' = Root
      BY <2>1, RootStays
    <3>2. CASE stack = << >>
      <4>1. Len(stack) = 0
        BY <3>2
      <4> QED BY <3>1, <3>2, <4>1, <2>1, <2>3, <2>4 DEF Nested
    <3>3. CASE stack # << >>
      <4>1. Len(stack) \in DOMAIN stack
        BY <1>0, <3>3, EmptySeq
      <4> QED BY <3>1, <3>3, <4>1, <2>4 DEF Nested
    <3> QED BY <3>2, <3>3
  <2> QED BY <1>2a, <2>1, <2>6, <2>7, <2>8 DEF Nested
<1>6. CASE Descend \/ Receive
  <2>0. stack # << >> /\ top = stack[1] /\ 1 \in DOMAIN stack
    BY <1>6, TopType DEF Descend, Receive, Running, IInv, CallsTyped
  <2>1. top.type \in Type /\ top.hoistName \in Name /\ top.left \in Seq(Type) /\ top.refs \in SUBSET Name
    BY <2>0, TopType DEF IInv, CallsTyped
  <2>2. \E left \in Seq(Type), refs \in SUBSET Name :
          /\ stack' = << Frame(top.type, top.hoistName, left, refs) >> \o Tail(stack)
          /\ ToSet(left) \subseteq ToSet(top.left)
          /\ called' # << >> => called'[1] \in ToSet(top.left)
    <3>1. CASE Descend
      <4>1. /\ Tail(top.left) \in Seq(Type) /\ 1 \in DOMAIN top.left /\ Head(top.left) = top.left[1]
            /\ \A i \in DOMAIN Tail(top.left) : i + 1 \in DOMAIN top.left /\ Tail(top.left)[i] = top.left[i + 1]
        BY <2>1, <3>1, Popped DEF Descend
      <4>2. ToSet(Tail(top.left)) \subseteq ToSet(top.left) /\ Head(top.left) \in ToSet(top.left)
        BY <4>1 DEF ToSet
      <4>3. called' = << Head(top.left) >> /\ called'[1] = Head(top.left)
        BY <3>1 DEF Descend
      <4> QED BY <3>1, <4>1, <4>2, <4>3, <2>1 DEF Descend
    <3>2. CASE Receive
      <4>1. top.refs \cup returned[1].refs \in SUBSET Name
        BY <3>2, <2>1, ReturnedType DEF Receive, IInv, CallsTyped
      <4>2. called' = << >>
        BY <3>2 DEF Receive, Running
      <4> QED BY <3>2, <4>1, <4>2, <2>1 DEF Receive
    <3> QED BY <1>6, <3>1, <3>2
  <2>3. PICK left \in Seq(Type), refs \in SUBSET Name :
          /\ stack' = << Frame(top.type, top.hoistName, left, refs) >> \o Tail(stack)
          /\ ToSet(left) \subseteq ToSet(top.left)
          /\ called' # << >> => called'[1] \in ToSet(top.left)
    BY <2>2
  <2> DEFINE frame == Frame(top.type, top.hoistName, left, refs)
  <2>4. frame \in Call /\ frame.type = stack[1].type /\ frame.left = left
    BY <2>0, <2>1, FrameType DEF Frame
  <2> HIDE DEF frame
  <2>5. /\ DOMAIN stack' = DOMAIN stack /\ Len(stack') = Len(stack) /\ Len(stack) \in Nat \ {0}
        /\ stack'[1] = frame /\ \A i \in DOMAIN stack : i # 1 => stack'[i] = stack[i]
    BY <1>0, <2>0, <2>3, <2>4, ReplacedAt DEF frame
  <2>6. \A i \in DOMAIN stack : stack'[i].type = stack[i].type
    BY <2>4, <2>5
  <2>7. \A i \in DOMAIN stack' : ToSet(stack'[i].left) \subseteq ToSet(input'.parts[stack'[i].type])
    <3>1. ToSet(top.left) \subseteq ToSet(input.parts[stack[1].type])
      BY <2>0 DEF Nested
    <3>2. ToSet(stack'[1].left) \subseteq ToSet(input.parts[stack[1].type])
      BY <2>3, <2>4, <2>5, <3>1
    <3>3. \A i \in DOMAIN stack : i # 1 =>
            ToSet(stack'[i].left) \subseteq ToSet(input.parts[stack[i].type])
      BY <2>5 DEF Nested
    <3> QED BY <1>2, <2>5, <2>6, <3>2, <3>3
  <2>8. Root' = Root
    BY <2>0, RootStays
  <2>9. called' # << >> => \A j \in DOMAIN stack : called'[1] \in Within(stack[j].type)
    <3> SUFFICES ASSUME called' # << >>, NEW j \in DOMAIN stack
                 PROVE  called'[1] \in Within(stack[j].type)
      OBVIOUS
    <3>1. called'[1] \in ToSet(input.parts[stack[1].type])
      BY <2>0, <2>3 DEF Nested
    <3>2. stack[j].type \in Type /\ stack[1].type \in Type
      BY <1>0, <2>0
    <3>3. CASE j = 1
      BY <3>1, <3>2, <3>3, WithinIsClosed DEF IInv
    <3>4. CASE j # 1
      <4>1. stack[1].type \in Within(stack[j].type)
        BY <1>0, <2>0, <3>4 DEF Nested
      <4> QED BY <3>1, <3>2, <4>1, WithinIsClosed DEF IInv
    <3> QED BY <3>3, <3>4
  <2>10. stack'[Len(stack')].type = Root'
    <3>1. Len(stack) \in DOMAIN stack
      BY <1>0, <2>5
    <3> QED BY <2>0, <2>5, <2>6, <2>8, <3>1 DEF Nested
  <2>11. \A i, j \in DOMAIN stack' : i < j => stack'[i].type \in Within(stack'[j].type)
    BY <2>5, <2>6 DEF Nested
  <2>12. stack' # << >> /\ \A j \in DOMAIN stack' : called' # << >> => called'[1] \in Within(stack'[j].type)
    <3>1. stack' # << >>
      BY <2>5
    <3> QED BY <3>1, <2>5, <2>6, <2>9
  <2> QED BY <1>2a, <2>7, <2>10, <2>11, <2>12 DEF Nested
<1>7. CASE Abort \/ Hoist \/ Inline
  <2>0. stack # << >> /\ stack' = Tail(stack) /\ called' = << >>
    BY <1>7 DEF Abort, Hoist, Inline, Complete, Running
  <2>1. /\ Len(stack') = Len(stack) - 1 /\ Len(stack) \in Nat \ {0} /\ DOMAIN stack' = 1 .. (Len(stack) - 1)
        /\ \A i \in DOMAIN stack' : i + 1 \in DOMAIN stack /\ stack'[i] = stack[i + 1]
    <3>1. stack' \in Seq(Call)
      BY <1>0, <2>0, Popped
    <3> QED BY <1>0, <2>0, <3>1, Popped
  <2>2. Root' = Root
    BY <2>0, RootStays
  <2>3. \A i \in DOMAIN stack' : ToSet(stack'[i].left) \subseteq ToSet(input'.parts[stack'[i].type])
    BY <1>2, <2>1 DEF Nested
  <2>4. \A i, j \in DOMAIN stack' : i < j => stack'[i].type \in Within(stack'[j].type)
    <3> SUFFICES ASSUME NEW i \in DOMAIN stack', NEW j \in DOMAIN stack', i < j
                 PROVE  stack'[i].type \in Within(stack'[j].type)
      OBVIOUS
    <3>1. i + 1 \in DOMAIN stack /\ j + 1 \in DOMAIN stack /\ i + 1 < j + 1
      BY <2>1
    <3> QED BY <3>1, <2>1 DEF Nested
  <2>5. stack' # << >> => stack'[Len(stack')].type = Root'
    <3> SUFFICES ASSUME stack' # << >> PROVE stack'[Len(stack')].type = Root'
      OBVIOUS
    <3>1. Len(stack') # 0
      <4>1. stack' \in Seq(Call)
        BY <1>0, <2>0, Popped
      <4> QED BY <4>1, EmptySeq
    <3>2. Len(stack') \in DOMAIN stack' /\ Len(stack') + 1 = Len(stack)
      BY <2>1, <3>1
    <3>3. stack'[Len(stack')] = stack[Len(stack)]
      BY <2>1, <3>2
    <3> QED BY <2>0, <2>2, <3>3 DEF Nested
  <2> QED BY <1>2a, <2>0, <2>3, <2>4, <2>5 DEF Nested
<1>8. CASE Answer \/ Declare \/ Export
  <2>1. stack' = << >> /\ called' = << >>
    BY <1>8 DEF Answer, Declare, Export, calls
  <2>2. DOMAIN stack' = {}
    BY <2>1
  <2> QED BY <2>1, <2>2 DEF Nested
<1>9. CASE Done
  BY <1>1, <1>9 DEF Done
<1> QED BY <1>3, <1>4, <1>5, <1>6, <1>7, <1>8, <1>9 DEF Next

(***************************************************************************)
(* All that is under way is part of what was asked for.                    *)
(***************************************************************************)
LEMMA CalledWithin ==
  ASSUME IInv, Nested, called # << >>
  PROVE  called[1] \in Within(Root) \cup {Root}
<1>1. CASE stack = << >>
  BY <1>1 DEF Nested
<1>2. CASE stack # << >>
  <2>1. Len(stack) \in DOMAIN stack
    BY <1>2, EmptySeq DEF IInv, CallsTyped
  <2> QED BY <1>2, <2>1 DEF Nested
<1> QED BY <1>1, <1>2

(***************************************************************************)
(* As many calls as there are types, and one more: two of them are for one *)
(* type, which is within itself.                                           *)
(***************************************************************************)
LEMMA TooDeepIsBroken ==
  ASSUME IsFiniteSet(Type), Cardinality(Type) <= MaxDepth, IInv, Nested, TooDeep
  PROVE  Broken(Root)
<1> DEFINE L == Len(stack)
           f == [i \in 1 .. (L + 1) |-> IF i = 1 THEN called[1] ELSE stack[i - 1].type]
<1>1. /\ called # << >> /\ called[1] \in Type /\ L \in Nat /\ DOMAIN stack = 1 .. L
      /\ L >= MaxDepth /\ MaxDepth \in Nat \ {0} /\ stack # << >>
  <2>1. called # << >> /\ L >= MaxDepth /\ stack \in Seq(Call) /\ called \in Seq(Type)
    BY DEF TooDeep, IInv, CallsTyped
  <2>2. MaxDepth \in Nat \ {0}
    BY InputFacts DEF IInv
  <2>3. L \in Nat /\ DOMAIN stack = 1 .. L /\ called[1] \in Type
    BY <2>1, CalledType
  <2>4. stack # << >>
    <3> SUFFICES ASSUME stack = << >> PROVE FALSE
      OBVIOUS
    <3>1. L = 0
      OBVIOUS
    <3> QED BY <3>1, <2>1, <2>2
  <2> QED BY <2>1, <2>2, <2>3, <2>4
<1>2. \A i \in DOMAIN stack : stack[i].type \in Type
  <2>1. \A i \in DOMAIN stack : stack[i] \in Call
    BY ElementOfSeq DEF IInv, CallsTyped
  <2> QED BY <2>1 DEF Call
<1>3. f \in [1 .. (L + 1) -> Type]
  <2> SUFFICES ASSUME NEW i \in 1 .. (L + 1), i # 1 PROVE stack[i - 1].type \in Type
    BY <1>1
  <2>1. i - 1 \in DOMAIN stack
    BY <1>1
  <2> QED BY <1>2, <2>1
<1>4. IsFiniteSet(1 .. (L + 1)) /\ Cardinality(Type) < Cardinality(1 .. (L + 1))
  <2>1. IsFiniteSet(1 .. (L + 1)) /\ Cardinality(1 .. (L + 1)) = L + 1
    BY <1>1, FS_Interval
  <2>2. Cardinality(Type) \in Nat
    BY FS_CardinalityType
  <2> QED BY <1>1, <2>1, <2>2
<1>5. \E i, j \in 1 .. (L + 1) : i # j /\ f[i] = f[j]
  <2> HIDE DEF f
  <2> QED BY <1>3, <1>4, FS_PigeonHole
<1>6. PICK i \in 1 .. (L + 1), j \in 1 .. (L + 1) : i < j /\ f[i] = f[j]
  BY <1>1, <1>5
<1>7. j - 1 \in DOMAIN stack /\ f[j] = stack[j - 1].type
  BY <1>1, <1>6
<1>8. f[i] \in Within(stack[j - 1].type)
  <2>1. CASE i = 1
    BY <1>1, <1>7, <2>1 DEF Nested
  <2>2. CASE i # 1
    <3>1. i - 1 \in DOMAIN stack /\ i - 1 < j - 1 /\ f[i] = stack[i - 1].type
      BY <1>1, <1>6, <2>2
    <3> QED BY <1>7, <3>1 DEF Nested
  <2> QED BY <2>1, <2>2
<1>9. stack[j - 1].type \in Within(Root) \cup {Root}
  <2>1. L \in DOMAIN stack /\ stack[L].type = Root
    BY <1>1 DEF Nested
  <2>2. CASE j - 1 = L
    BY <2>1, <2>2
  <2>3. CASE j - 1 < L
    BY <1>7, <2>1, <2>3 DEF Nested
  <2> QED BY <1>1, <1>7, <2>2, <2>3
<1>10. stack[j - 1].type \in Within(stack[j - 1].type)
  BY <1>6, <1>7, <1>8
<1> QED BY <1>9, <1>10 DEF Broken, Recursive

(***************************************************************************)
(* What is returned, kept as a result or declared as an error has a reason.*)
(***************************************************************************)
LEMMA ExplainedStep ==
  ASSUME IsFiniteSet(Type), Cardinality(Type) <= MaxDepth,
         IInv, Nested, FailuresExplained, [Next]_vars
  PROVE  FailuresExplained'
<1> DEFINE ReturnedFails  == returned # << >> /\ returned[1].failed
           ResultFails(i) == results[i].value # << >> /\ results[i].value[1].failed
<1>1. CASE UNCHANGED vars
  <2>1. /\ input' = input /\ returned' = returned /\ results' = results
        /\ schemaStatements' = schemaStatements
    BY <1>1 DEF vars, calls, tables
  <2>2. Root' = Root /\ \A t : Broken(t)' <=> Broken(t)
    BY <2>1 DEF Root, Broken, Recursive, Unsupported, Within
  <2> QED BY <2>1, <2>2 DEF FailuresExplained
<1> SUFFICES ASSUME Next PROVE FailuresExplained'
  BY <1>1
<1>2. input' = input
  BY AvailableGrows DEF IInv
<1>3. \A t : Broken(t)' <=> Broken(t)
  BY <1>2 DEF Broken, Recursive, Unsupported, Within
<1>4. returned' # << >> /\ returned'[1].failed => Broken(Root')
  <2>1. CASE TooDeep
    <3>1. called # << >>
      BY <2>1 DEF TooDeep
    <3> QED BY <2>1, <3>1, TooDeepIsBroken, RootStays
  <2>2. CASE Leaf
    <3>1. called # << >> /\ (input.kind[called[1]] = "unsupported" \/ returned' = Expression({}))
      BY <2>2 DEF Leaf
    <3>2. CASE input.kind[called[1]] = "unsupported"
      BY <3>1, <3>2, CalledWithin, RootStays DEF Broken, Unsupported
    <3>3. CASE returned' = Expression({})
      BY <3>3 DEF Expression
    <3> QED BY <3>1, <3>2, <3>3
  <2>3. CASE Reuse \/ Hoist \/ Inline
    <3>1. \E refs : returned' = Expression(refs)
      BY <2>3 DEF Reuse, Hoist, Inline
    <3>2. \A refs : ~ Expression(refs)[1].failed
      BY DEF Expression
    <3> QED BY <3>1, <3>2
  <2>4. CASE returned' = << >>
    BY <2>4
  <2>5. CASE returned' = returned /\ returned # << >>
    BY <2>5, RootStays DEF FailuresExplained
  <2>6. CASE Answer
    BY <2>6 DEF Answer
  <2> QED BY <2>1, <2>2, <2>3, <2>4, <2>5, <2>6
          DEF Next, Request, Open, Descend, Receive, Abort, Declare, Export, Done, vars, calls
<1>5. \A i \in DOMAIN results' : results'[i].value # << >> /\ results'[i].value[1].failed =>
        Broken(input.requested[results'[i].name])
  <2>1. ASSUME NEW name \in todo, Request(name)
        PROVE  \A i \in DOMAIN results' : results'[i].value # << >> /\ results'[i].value[1].failed =>
                 Broken(input.requested[results'[i].name])
    <3>1. results' = Append(results, [name |-> name, value |-> << >>])
      BY <2>1 DEF Request
    <3>2. [name |-> name, value |-> << >>] \in Result
      BY DEF IInv, CallsTyped, Result
    <3>3. /\ DOMAIN results = 1 .. Len(results) /\ DOMAIN results' = 1 .. (Len(results) + 1)
          /\ results'[Len(results) + 1] = [name |-> name, value |-> << >>] /\ Len(results) \in Nat
          /\ \A i \in DOMAIN results : results'[i] = results[i]
      BY <3>1, <3>2, Appended DEF IInv, CallsTyped
    <3> SUFFICES ASSUME NEW i \in DOMAIN results', results'[i].value # << >>, results'[i].value[1].failed
                 PROVE  Broken(input.requested[results'[i].name])
      OBVIOUS
    <3>4. i # Len(results) + 1
      BY <3>3
    <3>5. i \in DOMAIN results /\ results'[i] = results[i]
      BY <3>3, <3>4
    <3> QED BY <3>5 DEF FailuresExplained
  <2>2. CASE Answer
    <3>1. results # << >> /\ returned # << >>
      BY <2>2 DEF Answer, IInv, ResultsAnswered
    <3>2. Len(results) \in Nat \ {0} /\ DOMAIN results = 1 .. Len(results)
      BY <3>1, EmptySeq DEF IInv, CallsTyped
    <3>3. PICK r : /\ r.value = returned /\ r.name = results[Len(results)].name
                   /\ results' = [results EXCEPT ![Len(results)] = r]
      BY <2>2 DEF Answer
    <3>4. /\ DOMAIN results' = DOMAIN results /\ results'[Len(results)] = r
          /\ \A i \in DOMAIN results : i # Len(results) => results'[i] = results[i]
      BY <3>2, <3>3
    <3>5. ASSUME returned[1].failed PROVE Broken(input.requested[r.name])
      BY <3>1, <3>3, <3>5 DEF FailuresExplained, Root
    <3> SUFFICES ASSUME NEW i \in DOMAIN results', results'[i].value # << >>, results'[i].value[1].failed
                 PROVE  Broken(input.requested[results'[i].name])
      OBVIOUS
    <3>6. CASE i = Len(results)
      BY <3>3, <3>4, <3>5, <3>6
    <3>7. CASE i # Len(results)
      BY <3>4, <3>7 DEF FailuresExplained
    <3> QED BY <3>6, <3>7
  <2>3. CASE Declare
    <3>1. results # << >> /\ results' = Tail(results)
      BY <2>3 DEF Declare
    <3>2. \A i \in DOMAIN results' : i + 1 \in DOMAIN results /\ results'[i] = results[i + 1]
      BY <3>1, Popped DEF IInv, CallsTyped
    <3> QED BY <3>2 DEF FailuresExplained
  <2>4. CASE results' = results
    BY <2>4 DEF FailuresExplained
  <2> QED BY <2>1, <2>2, <2>3, <2>4
          DEF Next, TooDeep, Reuse, Leaf, Open, Descend, Receive, Abort, Hoist, Inline, Export, Done, vars
<1>6. \A i \in DOMAIN schemaStatements' :
        schemaStatements'[i].failed => Broken(schemaStatements'[i].type)
  <2>1. ASSUME NEW t, NEW s \in Declared, Added(t, s), s.failed => Broken(s.type)
        PROVE  \A i \in DOMAIN schemaStatements' :
                 schemaStatements'[i].failed => Broken(schemaStatements'[i].type)
    <3>1. /\ DOMAIN schemaStatements = 1 .. Len(schemaStatements) /\ Len(schemaStatements) \in Nat
          /\ DOMAIN schemaStatements' = 1 .. (Len(schemaStatements) + 1)
          /\ schemaStatements'[Len(schemaStatements) + 1] = s
          /\ \A i \in DOMAIN schemaStatements : schemaStatements'[i] = schemaStatements[i]
      BY <2>1, Appended DEF Added, IInv, StatementsTyped
    <3> SUFFICES ASSUME NEW i \in DOMAIN schemaStatements', schemaStatements'[i].failed
                 PROVE  Broken(schemaStatements'[i].type)
      OBVIOUS
    <3>2. CASE i = Len(schemaStatements) + 1
      BY <2>1, <3>1, <3>2
    <3>3. CASE i # Len(schemaStatements) + 1
      <4>1. i \in DOMAIN schemaStatements /\ schemaStatements'[i] = schemaStatements[i]
        BY <3>1, <3>3
      <4> QED BY <4>1 DEF FailuresExplained
    <3> QED BY <3>2, <3>3
  <2>2. CASE Hoist
    <3>1. PICK s \in Declared : s.failed = FALSE /\ Added(Head(stack).type, s)
      BY <2>2, HoistAdds DEF IInv
    <3> QED BY <2>1, <3>1
  <2>3. CASE Declare
    <3>1. CASE UNCHANGED schemaStatements
      BY <3>1 DEF FailuresExplained
    <3>2. CASE ~ UNCHANGED schemaStatements
      <4>1. /\ 1 \in DOMAIN results /\ 1 \in DOMAIN results[1].value
            /\ \E s \in Declared :
                 /\ s.type = input.requested[results[1].name] /\ s.failed = results[1].value[1].failed
                 /\ Added(input.requested[results[1].name], s)
        BY <2>3, <3>2, DeclareAdds DEF IInv
      <4>2. PICK s \in Declared :
              /\ s.type = input.requested[results[1].name] /\ s.failed = results[1].value[1].failed
              /\ Added(input.requested[results[1].name], s)
        BY <4>1
      <4>3. results[1].value # << >>
        BY <4>1
      <4>4. s.failed => Broken(s.type)
        BY <4>1, <4>2, <4>3 DEF FailuresExplained
      <4> QED BY <2>1, <4>2, <4>4
    <3> QED BY <3>1, <3>2
  <2>4. CASE Export
    <3>1. /\ DOMAIN schemaStatements' = DOMAIN schemaStatements
          /\ \A i \in DOMAIN schemaStatements :
               /\ schemaStatements'[i].type = schemaStatements[i].type
               /\ schemaStatements'[i].failed = schemaStatements[i].failed
      BY <2>4, ExportKeeps DEF IInv
    <3> QED BY <3>1 DEF FailuresExplained
  <2>5. CASE schemaStatements' = schemaStatements
    BY <2>5 DEF FailuresExplained
  <2> QED BY <2>2, <2>3, <2>4, <2>5
          DEF Next, Request, TooDeep, Reuse, Leaf, Open, Descend, Receive, Abort, Inline, Answer, Done,
              vars, tables
<1> QED BY <1>2, <1>3, <1>4, <1>5, <1>6 DEF FailuresExplained

(***************************************************************************)
(* The last step exports what was asked for, and nothing comes after it.   *)
(***************************************************************************)
LEMMA ExportedStep == IInv /\ RequestsExported /\ [Next]_vars => RequestsExported'
<1> SUFFICES ASSUME IInv, RequestsExported, [Next]_vars PROVE RequestsExported'
  OBVIOUS
<1>1. CASE UNCHANGED vars \/ Done
  BY <1>1 DEF Done, vars, tables, RequestsExported
<1>2. CASE Export
  <2> DEFINE asked == Range(input.requested) \cap DOMAIN typeToStatementIndex
             wanted == { typeToStatementIndex[t] : t \in asked }
  <2>1. /\ input' = input /\ typeToStatementIndex' = typeToStatementIndex
        /\ schemaStatements' = [i \in 1 .. Len(schemaStatements) |->
             LET s == schemaStatements[i] IN
             Statement(s.name, s.type, s, s.exported \/ (input.isExported /\ i \in wanted))]
    BY <1>2 DEF Export
  <2> SUFFICES ASSUME input.isExported, NEW t \in asked
               PROVE  schemaStatements'[typeToStatementIndex[t]].exported
    BY <2>1 DEF RequestsExported
  <2>2. typeToStatementIndex[t] \in 1 .. Len(schemaStatements) /\ typeToStatementIndex[t] \in wanted
    BY DEF IInv, StatementsTyped
  <2>3. schemaStatements'[typeToStatementIndex[t]].exported =
          (schemaStatements[typeToStatementIndex[t]].exported
             \/ (input.isExported /\ typeToStatementIndex[t] \in wanted))
    BY <2>1, <2>2, Zenon DEF Statement
  <2> QED BY <2>2, <2>3
<1>3. CASE pc' # "done"
  BY <1>3 DEF RequestsExported
<1>4. CASE pc = "done" /\ ~ Done /\ ~ UNCHANGED vars
  <2>1. todo = {} /\ called = << >> /\ stack = << >> /\ returned = << >>
    BY <1>4 DEF IInv, CallsTyped, RequestsFollowed, ResultsAnswered
  <2> QED BY <1>4, <2>1 DEF Next, Request, TooDeep, Reuse, Leaf, Open, Descend, Receive, Abort, Hoist,
                Inline, Running, Complete, Answer, Declare, Export
<1> QED BY <1>1, <1>2, <1>3, <1>4
        DEF Next, Request, TooDeep, Reuse, Leaf, Open, Descend, Receive, Abort, Hoist, Inline, Answer,
            Declare

\* What is asked for ends up declared and exported, and is no error unless it
\* contains a type that is not supported, or is recursive: with a limit of no less
\* than the number of types no other is too deep (structural.go:123, :618).
THEOREM RequestsAnswered ==
  ASSUME IsFiniteSet(Type), Cardinality(Type) <= MaxDepth
  PROVE  Spec => []RequestedAnswered
<1> DEFINE Inv == IInv /\ Nested /\ FailuresExplained /\ RequestsExported
<1>1. Init => Inv
  <2> SUFFICES ASSUME Init PROVE Nested /\ FailuresExplained /\ RequestsExported
    BY InitIInv
  <2>1. /\ schemaStatements = << >> /\ results = << >>
        /\ called = << >> /\ stack = << >> /\ returned = << >> /\ pc = "process"
    BY DEF Init
  <2>2. DOMAIN << >> = {}
    OBVIOUS
  <2> QED BY <2>1, <2>2 DEF Nested, FailuresExplained, RequestsExported
<1>2. Inv /\ [Next]_vars => Inv'
  BY NextIInv, NestedStep, ExplainedStep, ExportedStep
<1>3. Inv => RequestedAnswered
  <2> SUFFICES ASSUME Inv PROVE RequestedAnswered
    OBVIOUS
  <2>1. RequestedDeclared
    BY IInvRequested
  <2> SUFFICES ASSUME pc = "done", NEW t \in Range(input.requested)
               PROVE  LET statement == schemaStatements[typeToStatementIndex[t]] IN
                      /\ input.isExported => statement.exported
                      /\ statement.failed /\ ~ Recursive(t) => Unsupported(t)
    BY <2>1 DEF RequestedAnswered
  <2>2. t \in DOMAIN typeToStatementIndex
    BY <2>1 DEF RequestedDeclared, Range
  <2>3. /\ typeToStatementIndex[t] \in DOMAIN schemaStatements
        /\ schemaStatements[typeToStatementIndex[t]].type = t
    BY <2>2 DEF IInv, StatementsTyped
  <2>4. schemaStatements[typeToStatementIndex[t]].failed => Broken(t)
    BY <2>3 DEF FailuresExplained
  <2>5. input.isExported => schemaStatements[typeToStatementIndex[t]].exported
    BY <2>2 DEF RequestsExported
  <2> QED BY <2>4, <2>5 DEF Broken
<1> QED BY <1>1, <1>2, <1>3, PTL DEF Spec
=============================================================================
