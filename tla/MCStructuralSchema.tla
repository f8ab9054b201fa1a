------------------------ MODULE MCStructuralSchema ------------------------
EXTENDS StructuralSchema, TLC

MCType == 1 .. 3

form(kind, parts, symbol) == [kind |-> kind, parts |-> parts, symbol |-> symbol]

Simple == { form(kind, << >>, << >>) : kind \in {"leaf", "unsupported"} }

\* What the requested type may be, what is made of it or of the others, and a
\* third one that may have the name of either.
Forms ==
  << { form(kind, parts, <<1>>) : kind \in {"object", "composite"}, parts \in {<<2>>, <<2, 3>>, <<3, 2>>} }
       \cup { form("leaf", << >>, << >>) },
     { form(kind, parts, symbol) : kind \in {"object", "composite", "record"},
         parts \in {<< >>, <<3>>, <<1>>, <<3, 3>>}, symbol \in {<< >>, <<2>>} } \cup Simple,
     { form(kind, parts, symbol) : kind \in {"object", "composite"},
         parts \in {<< >>, <<2>>}, symbol \in {<<1>>, <<2>>} } \cup Simple >>

\* Nothing in scope, a value with a type's name, which is a schema or not, and a
\* schema of another name.
Scopes ==
  { [scope |-> {}, schemas |-> {}], [scope |-> {<<2>>}, schemas |-> {}],
    [scope |-> {<<2>>}, schemas |-> {<< <<2>>, 3 >>}],
    [scope |-> {<<2>>, <<4>>}, schemas |-> {<< <<2>>, 2 >>, << <<4>>, 2 >>}] }

\* The refactor and the API ask for one type, Process takes several.
One == { <<1>> :> 1 }
Two == { <<1>> :> 1 @@ <<2>> :> 2 }

\* Types that are equal are of one kind.
Shaped ==
  { [forms |-> f, shape |-> shape] :
      f \in Forms[1] \X Forms[2] \X Forms[3], shape \in {<<1, 2, 3>>, <<1, 2, 2>>} }
Sound == { x \in Shaped : x.shape[2] = x.shape[3] => x.forms[2].kind = x.forms[3].kind }

ProgramsWith(requests) ==
  { [kind |-> [t \in Type |-> x.forms[t].kind], parts |-> [t \in Type |-> x.forms[t].parts],
     symbol |-> [t \in Type |-> x.forms[t].symbol], shape |-> x.shape, scope |-> s.scope,
     schemas |-> s.schemas, requested |-> requested, isExported |-> s.scope # {}] :
      x \in Sound, s \in Scopes, requested \in requests }

MCPrograms    == ProgramsWith(One \cup Two)
MCOneProgram  == ProgramsWith(One)
=============================================================================
