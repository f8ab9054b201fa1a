CONSTANTS
  Absent = Absent
  None = None
  Projects <- MCProjects
  Answers <- MCAnswers
SPECIFICATION Spec
CHECK_DEADLOCK FALSE
INVARIANTS
  TypeOK
  SameEnd
  ReachesTarget
PROPERTY
  OthersKept
