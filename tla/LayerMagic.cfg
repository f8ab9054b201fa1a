CONSTANTS
  a = a
  b = b
  c = c
  MaxList = 4
  Service <- MCService
  Assignable <- MCAssignable
  Lists <- MCLists
  Targets <- MCTargets
SPECIFICATION Spec
CHECK_DEADLOCK FALSE
INVARIANTS
  TypeOK
  RequirersFirst
  EveryLayerOnce
  RequirementsMet
  TargetsMet
PROPERTIES
  Ends
