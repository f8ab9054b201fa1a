CONSTANTS
  ts = ts
  native = native
  h1 = h1
  h2 = h2
  Package = {ts, native}
  Default <- MCDefault
  GitHead = {h1, h2}
  NoHead = NoHead
  NotInstalled = NotInstalled
  NotPackaged = NotPackaged
  Packaged <- MCPackaged
  Process = {p1, p2}
  MaxBackup = 1
SPECIFICATION Spec
CONSTRAINT OnlyPatchesOverlap
PROPERTY UnpatchRestoresOriginal
