CONSTANTS
  MaxNode = 8
  MaxSmall = 5
  Node <- MCNode
  File = 1
  Inputs <- MCInputs
SPECIFICATION Spec
CHECK_DEADLOCK FALSE
INVARIANTS
  TypeOK
  MeaningKept
  CallsInFlows
