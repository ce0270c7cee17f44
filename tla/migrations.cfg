SPECIFICATION FairSpec
CONSTANTS
  Procs <- TwoProcs
  Versions = {1, 2, 3}
  Steps = 2
  Unreadable = {}
  Repeatable = {}
  NoProc = NoProc
INVARIANTS
  TypeOK
  SchemaMatchesVersion
  OpenMeansCurrent
PROPERTY
  LockReleased
