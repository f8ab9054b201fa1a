CONSTANTS
  MaxAst = 6
  MaxSmall = 3
  Ast <- MCAst
  Requested = 1
  Inputs <- MCInputs
SPECIFICATION Spec
CHECK_DEADLOCK FALSE
INVARIANTS
  TypeOK
  MappedNodesLive
  ShownWhole
  WithinDepth
  AttributedToSource
PROPERTY
  Ends
