CONSTANTS
  ts = ts
  native = native
  h1 = h1
  h2 = h2
  Package = {ts, native}
  Default <- MCDefault
  GitHead = {h1, h2}
  NoHead = NoHead
  NotInstalled = NotInstalled
  NotPackaged = NotPackaged
  Packaged <- MCPackaged
  Process = {p1}
  MaxBackup = 1
SPECIFICATION FairSpec
INVARIANTS
  TypeOK
  OriginalKept
PROPERTIES
  UnpatchRestoresOriginal
  PatchInstallsBinary
  CommandsEnd
  ImplementsInstallation
