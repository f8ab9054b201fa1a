CONSTANTS
  Type <- MCType
  MaxDepth = 5
  Programs <- MCPrograms
SPECIFICATION Spec
INVARIANTS
  TypeOK
  DeclaredBeforeUse
  RequestedAnswered
