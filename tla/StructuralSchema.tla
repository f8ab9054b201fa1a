-------------------------- MODULE StructuralSchema --------------------------
(***************************************************************************)
(* The generator of schemas from resolved types                            *)
(* (internal/schemagen/structural.go): the types a type is made of are     *)
(* turned into expressions, and those with a name into statements of their *)
(* own that the expressions refer to.                                      *)
(*                                                                         *)
(* An expression is abstracted to the names it refers to.  A name is a     *)
(* sequence of numbers: << 1 >> is what is written in the source, and      *)
(* << 1, 2 >> the same with "_2" behind it.                                *)
(***************************************************************************)
EXTENDS Naturals, SequencesExt

CONSTANTS
  Type,               \* the types of the program
  MaxDepth,           \* 200 in the code
  Programs            \* the programs that are tried

\* Leaves are primitives and literals; records have an index signature and no
\* properties, objects no index signature, composites are all the others.
Kind == {"leaf", "composite", "record", "object", "unsupported"}
Name == Seq(Nat)

IsInput(p) ==
  /\ p.kind \in [Type -> Kind]
  /\ p.parts \in [Type -> Seq(Type)]         \* in the order of the traversal
  /\ p.shape \in [Type -> Nat]               \* types are equal if their shape is
  /\ p.symbol \in [Type -> Name]             \* of the interface or alias, << >> if there is none
  /\ p.scope \subseteq Name                  \* the values in scope
  /\ p.schemas \subseteq p.scope \X Type     \* those that are schemas, and of what
  /\ DOMAIN p.requested \subseteq Name       \* what to declare, and the type to declare it for
  /\ \A name \in DOMAIN p.requested : p.requested[name] \in Type
  /\ p.isExported \in BOOLEAN

ASSUME StructuralSchemaAssumption ==
  /\ MaxDepth \in Nat \ {0}
  /\ \A p \in Programs : IsInput(p)

VARIABLES
  input,
  todo,                                     \* requested names that are to come
  called,                                   \* what processType is called with: a sequence of at most one
  stack,                                    \* the calls that are under way, the last one first
  returned,                                 \* what the last call returned, at most one
  results,                                  \* of the requested names, in the order of their turns
  usedGlobalIdentifiers, hoistedSchemas,
  schemaStatements, typeToStatementIndex,
  pc

tables == <<usedGlobalIdentifiers, hoistedSchemas, schemaStatements, typeToStatementIndex>>
calls  == <<called, stack, returned>>
vars   == <<input, todo, calls, results, tables, pc>>

Used(name) == IF name \in DOMAIN usedGlobalIdentifiers THEN usedGlobalIdentifiers[name] ELSE 0
Marked(name, n) ==
  [x \in DOMAIN usedGlobalIdentifiers \cup {name} |-> IF x = name THEN n ELSE usedGlobalIdentifiers[x]]

typesEqual(t, u) == input.shape[t] = input.shape[u]

-----------------------------------------------------------------------------
(***************************************************************************)
(* The name to declare a type with, and how often the names are then taken.*)
(***************************************************************************)
RequestedAs(t) == { name \in DOMAIN input.requested : input.requested[name] = t }

\* Mutation of HoistNames: a requested type goes by the name of its symbol.
HoistNames_Symbol(t) ==
  LET symbol == input.symbol[t]
      count  == Used(symbol)
  IN  IF symbol = << >> THEN { [name |-> << >>, used |-> usedGlobalIdentifiers] }
      ELSE { [name |-> IF count = 0 THEN symbol ELSE Append(symbol, count),
              used |-> Marked(symbol, count + 1)] }

HoistNames(t) ==
  LET symbol == input.symbol[t]
      count  == Used(symbol)
      asked  == symbol \in DOMAIN input.requested /\ typesEqual(t, input.requested[symbol])
  IN  IF RequestedAs(t) # {}
        THEN { [name |-> name, used |-> usedGlobalIdentifiers] : name \in RequestedAs(t) }
      ELSE IF symbol = << >> \/ asked
        THEN { [name |-> symbol, used |-> usedGlobalIdentifiers] }
      ELSE { [name |-> IF count = 0 THEN symbol ELSE Append(symbol, count),
              used |-> Marked(symbol, count + 1)] }

Reusable(t) == { u \in DOMAIN hoistedSchemas : typesEqual(t, u) }

Frame(t, hoistName, left, refs) == [type |-> t, hoistName |-> hoistName, left |-> left, refs |-> refs]

Expression(refs) == << [refs |-> refs, failed |-> FALSE] >>
Failure          == << [refs |-> {}, failed |-> TRUE] >>

-----------------------------------------------------------------------------
\* ScanExistingSchemas: of several schemas of one type the last one is kept.
Init ==
  /\ input \in Programs
  /\ LET known == { s[2] : s \in input.schemas }
         names(t) == { s[1] : s \in { r \in input.schemas : r[2] = t } }
     IN  hoistedSchemas \in { h \in [known -> input.scope] : \A t \in known : h[t] \in names(t) }
  /\ usedGlobalIdentifiers = [name \in input.scope |-> 1]
  /\ schemaStatements = << >> /\ typeToStatementIndex = << >>
  /\ todo = DOMAIN input.requested /\ results = << >>
  /\ called = << >> /\ stack = << >> /\ returned = << >>
  /\ pc = "process"

\* The requested types in any order, that of a map.
Request(name) ==
  /\ pc = "process" /\ stack = << >> /\ called = << >> /\ returned = << >>
  /\ name \in todo
  /\ todo' = todo \ {name}
  /\ called' = << input.requested[name] >>
  /\ results' = Append(results, [name |-> name, value |-> << >>])
  /\ UNCHANGED <<input, stack, returned, tables, pc>>

TooDeep ==
  /\ called # << >> /\ Len(stack) >= MaxDepth
  /\ returned' = Failure /\ called' = << >>
  /\ UNCHANGED <<input, todo, stack, results, tables, pc>>

\* A schema of an equal type is taken; a name was looked for all the same.
Reuse ==
  /\ called # << >> /\ Len(stack) < MaxDepth
  /\ \E u \in Reusable(called[1]), hoist \in HoistNames(called[1]) :
       /\ returned' = Expression({hoistedSchemas[u]})
       /\ usedGlobalIdentifiers' = hoist.used
  /\ called' = << >>
  /\ UNCHANGED <<input, todo, stack, results, hoistedSchemas, schemaStatements, typeToStatementIndex, pc>>

Leaf ==
  /\ called # << >> /\ Len(stack) < MaxDepth /\ Reusable(called[1]) = {}
  /\ input.kind[called[1]] \in {"leaf", "unsupported"}
  /\ \E hoist \in HoistNames(called[1]) : usedGlobalIdentifiers' = hoist.used
  /\ returned' = IF input.kind[called[1]] = "leaf" THEN Expression({}) ELSE Failure
  /\ called' = << >>
  /\ UNCHANGED <<input, todo, stack, results, hoistedSchemas, schemaStatements, typeToStatementIndex, pc>>

\* Mutation of Open: the type can be referred to before it is declared.
Open_Early ==
  /\ called # << >> /\ Len(stack) < MaxDepth /\ Reusable(called[1]) = {}
  /\ input.kind[called[1]] \notin {"leaf", "unsupported"}
  /\ \E hoist \in HoistNames(called[1]) :
       /\ stack' = << Frame(called[1], hoist.name, input.parts[called[1]], {}) >> \o stack
       /\ usedGlobalIdentifiers' = hoist.used
       /\ hoistedSchemas' =
            IF hoist.name = << >> THEN hoistedSchemas
            ELSE [t \in DOMAIN hoistedSchemas \cup {called[1]} |->
                    IF t = called[1] THEN hoist.name ELSE hoistedSchemas[t]]
  /\ called' = << >>
  /\ UNCHANGED <<input, todo, returned, results, schemaStatements, typeToStatementIndex, pc>>

Open ==
  /\ called # << >> /\ Len(stack) < MaxDepth /\ Reusable(called[1]) = {}
  /\ input.kind[called[1]] \notin {"leaf", "unsupported"}
  /\ \E hoist \in HoistNames(called[1]) :
       /\ stack' = << Frame(called[1], hoist.name, input.parts[called[1]], {}) >> \o stack
       /\ usedGlobalIdentifiers' = hoist.used
  /\ called' = << >>
  /\ UNCHANGED <<input, todo, returned, results, hoistedSchemas, schemaStatements, typeToStatementIndex, pc>>

Running == called = << >> /\ stack # << >>

Descend ==
  /\ Running /\ returned = << >> /\ Head(stack).left # << >>
  /\ LET top == Head(stack) IN
       /\ called' = << Head(top.left) >>
       /\ stack' = << Frame(top.type, top.hoistName, Tail(top.left), top.refs) >> \o Tail(stack)
  /\ UNCHANGED <<input, todo, returned, results, tables, pc>>

Receive ==
  /\ Running /\ returned # << >> /\ ~ returned[1].failed
  /\ LET top == Head(stack) IN
       stack' = << Frame(top.type, top.hoistName, top.left, top.refs \cup returned[1].refs) >> \o Tail(stack)
  /\ returned' = << >>
  /\ UNCHANGED <<input, todo, called, results, tables, pc>>

\* An error ends the calls one after the other; what was hoisted stays.
Abort ==
  /\ Running /\ returned = Failure
  /\ stack' = Tail(stack)
  /\ UNCHANGED <<input, todo, called, returned, results, tables, pc>>

Statement(name, t, value, exported) ==
  [name |-> name, type |-> t, refs |-> value.refs, failed |-> value.failed, exported |-> exported]

Indexed(t, i) ==
  [u \in DOMAIN typeToStatementIndex \cup {t} |-> IF u = t THEN i ELSE typeToStatementIndex[u]]

\* Mutation of PushHoistedStatement: the index of the statement to come.
PushHoistedStatement_Next(name, t, value) ==
  /\ usedGlobalIdentifiers' = Marked(name, Used(name) + 1)
  /\ schemaStatements' = Append(schemaStatements, Statement(name, t, value, FALSE))
  /\ typeToStatementIndex' = Indexed(t, Len(schemaStatements) + 2)
  /\ hoistedSchemas' = [u \in DOMAIN hoistedSchemas \cup {t} |-> IF u = t THEN name ELSE hoistedSchemas[u]]

PushHoistedStatement(name, t, value) ==
  /\ usedGlobalIdentifiers' = Marked(name, Used(name) + 1)
  /\ schemaStatements' = Append(schemaStatements, Statement(name, t, value, FALSE))
  /\ typeToStatementIndex' = Indexed(t, Len(schemaStatements) + 1)
  /\ hoistedSchemas' = [u \in DOMAIN hoistedSchemas \cup {t} |-> IF u = t THEN name ELSE hoistedSchemas[u]]

Complete == Running /\ returned = << >> /\ Head(stack).left = << >>

\* A type with a name is declared, an object as a class, and referred to.
Hoist ==
  /\ Complete /\ Head(stack).hoistName # << >> /\ input.kind[Head(stack).type] # "record"
  /\ PushHoistedStatement(Head(stack).hoistName, Head(stack).type, Expression(Head(stack).refs)[1])
  /\ returned' = Expression({Head(stack).hoistName})
  /\ stack' = Tail(stack)
  /\ UNCHANGED <<input, todo, called, results, pc>>

Inline ==
  /\ Complete /\ (Head(stack).hoistName = << >> \/ input.kind[Head(stack).type] = "record")
  /\ returned' = Expression(Head(stack).refs)
  /\ stack' = Tail(stack)
  /\ UNCHANGED <<input, todo, called, results, tables, pc>>

Answer ==
  /\ called = << >> /\ stack = << >> /\ returned # << >>
  /\ results' = [results EXCEPT ![Len(results)] = [name |-> results[Len(results)].name, value |-> returned]]
  /\ returned' = << >>
  /\ UNCHANGED <<input, todo, called, stack, tables, pc>>

\* The results that are no statements yet become some, in their order.
Declare ==
  /\ pc = "process" /\ todo = {} /\ called = << >> /\ stack = << >> /\ returned = << >>
  /\ results # << >>
  /\ LET result == Head(results)
         t == input.requested[result.name]
     IN  IF t \in DOMAIN typeToStatementIndex THEN UNCHANGED <<schemaStatements, typeToStatementIndex>>
         ELSE /\ schemaStatements' =
                   Append(schemaStatements, Statement(result.name, t, result.value[1], TRUE))
              /\ typeToStatementIndex' = Indexed(t, Len(schemaStatements) + 1)
  /\ results' = Tail(results)
  /\ UNCHANGED <<input, todo, calls, usedGlobalIdentifiers, hoistedSchemas, pc>>

Export ==
  /\ pc = "process" /\ todo = {} /\ called = << >> /\ stack = << >> /\ returned = << >>
  /\ results = << >>
  /\ LET wanted == { typeToStatementIndex[t] : t \in Range(input.requested) \cap DOMAIN typeToStatementIndex }
     IN  schemaStatements' =
           [i \in 1 .. Len(schemaStatements) |->
              LET s == schemaStatements[i] IN
              Statement(s.name, s.type, s, s.exported \/ (input.isExported /\ i \in wanted))]
  /\ pc' = "done"
  /\ UNCHANGED <<input, todo, calls, results, usedGlobalIdentifiers, hoistedSchemas, typeToStatementIndex>>

Done == pc = "done" /\ UNCHANGED vars

Next ==
  \/ \E name \in todo : Request(name)
  \/ TooDeep \/ Reuse \/ Leaf \/ Open
  \/ Descend \/ Receive \/ Abort \/ Hoist \/ Inline \/ Answer
  \/ Declare \/ Export \/ Done

Spec == Init /\ [][Next]_vars

-----------------------------------------------------------------------------
Returned  == [refs : SUBSET Name, failed : BOOLEAN]
Call      == [type : Type, hoistName : Name, left : Seq(Type), refs : SUBSET Name]
Result    == [name : DOMAIN input.requested, value : Seq(Returned)]
Declared  == [name : Name, type : Type, refs : SUBSET Name, failed : BOOLEAN, exported : BOOLEAN]

TypeOK ==
  /\ todo \subseteq DOMAIN input.requested /\ pc \in {"process", "done"}
  /\ called \in Seq(Type) /\ stack \in Seq(Call) /\ returned \in Seq(Returned)
  /\ Len(called) + Len(returned) <= 1 /\ Len(stack) <= MaxDepth
  /\ results \in Seq(Result) /\ schemaStatements \in Seq(Declared)
  /\ DOMAIN usedGlobalIdentifiers \subseteq Name
  /\ \A name \in DOMAIN usedGlobalIdentifiers : usedGlobalIdentifiers[name] \in Nat \ {0}
  /\ DOMAIN hoistedSchemas \subseteq Type
  /\ \A t \in DOMAIN typeToStatementIndex :
       /\ t \in Type /\ typeToStatementIndex[t] \in 1 .. Len(schemaStatements)
       /\ schemaStatements[typeToStatementIndex[t]].type = t

\* Every statement refers to values in scope and to names that statements before
\* it declare, so that a caller that prints them in this order, and each name once
\* (NamesDistinct), uses no schema before it is declared.
DeclaredBeforeUse ==
  \A i \in DOMAIN schemaStatements :
    schemaStatements[i].refs \subseteq input.scope \cup { schemaStatements[j].name : j \in 1 .. (i - 1) }

\* The types that t is made of, itself included only if it contains itself.
Within(t) ==
  { u \in Type : \A S \in SUBSET Type :
      ToSet(input.parts[t]) \subseteq S /\ (\A s \in S : ToSet(input.parts[s]) \subseteq S) => u \in S }

\* Every type that is asked for ends up declared, under a name that was asked for.
RequestedDeclared ==
  pc = "done" =>
    \A name \in DOMAIN input.requested :
      LET t == input.requested[name] IN
      /\ t \in DOMAIN typeToStatementIndex
      /\ schemaStatements[typeToStatementIndex[t]].name \in RequestedAs(t)

Recursive(t)   == \E u \in Within(t) \cup {t} : u \in Within(u)
Unsupported(t) == \E u \in Within(t) \cup {t} : input.kind[u] = "unsupported"

\* What is asked for ends up declared, exported if it was, and as an error ("On
\* error, emit an error comment", structural.go:618) only when it contains a type
\* that is not supported.  Recursive types are left out: of them the code is at
\* odds with what the package says (RecursiveHandled).
RequestedAnswered ==
  /\ RequestedDeclared
  /\ pc = "done" =>
       \A t \in Range(input.requested) :
         LET statement == schemaStatements[typeToStatementIndex[t]] IN
         /\ input.isExported => statement.exported
         /\ statement.failed /\ ~ Recursive(t) => Unsupported(t)

\* The package enables the "handling of recursive types" by hoisting
\* (structural.go:4-6): they are no errors either.  Not so: a type is hoisted when
\* all it contains is processed (structural.go:97), and one that contains itself
\* ends at the depth limit (structural.go:123): README, finding 6.
RecursiveHandled ==
  pc = "done" =>
    \A t \in Range(input.requested) :
      schemaStatements[typeToStatementIndex[t]].failed => Unsupported(t)

\* "Avoid name conflicts" (structural.go:184): no name is declared twice, and none
\* that is in scope, unless it was asked for.
NamesDistinct ==
  /\ \A i, j \in DOMAIN schemaStatements :
       schemaStatements[i].name = schemaStatements[j].name => i = j
  /\ \A i \in DOMAIN schemaStatements :
       schemaStatements[i].name \in input.scope => schemaStatements[i].name \in DOMAIN input.requested
=============================================================================
