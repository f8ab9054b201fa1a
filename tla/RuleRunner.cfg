CONSTANTS
  r1 = r1
  r2 = r2
  Rule = {r1, r2}
  Any = Any
  Unset = Unset
  DefaultSeverity <- MCDefaultSeverity
SPECIFICATION MCSpec
INVARIANTS
  TypeOK
  EmittedFollowsPolicy
  UnusedDirectivesAreInert
  ExitStatusFollowsPolicy
CHECK_DEADLOCK FALSE
