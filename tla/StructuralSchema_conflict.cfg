CONSTANTS
  Type <- MCType
  MaxDepth = 5
  Programs <- MCOneProgram
SPECIFICATION Spec
INVARIANT NamesDistinct
