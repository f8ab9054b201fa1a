CONSTANTS
  k1 = k1
  v1 = v1
  v2 = v2
  r1 = r1
  r2 = r2
  Last = 3
  Key = {k1}
  Value = {v1, v2}
  Default <- MCDefault
  Rule = {r1, r2}
  Severity = {"off", "error"}
  Unset = Unset
  Null = Null
  NoStanza = NoStanza
  Nil = Nil
SPECIFICATION MCSpec
INVARIANTS
  TypeOK
  OverridesKeepPlace
  NearestConfigDecides
CHECK_DEADLOCK FALSE
