SPECIFICATION FairSpec
CONSTANTS
  Threads <- ProgramThreads
  Calls <- ProgramCalls
  Keys = {"cpu", "mem"}
  Times = {1}
  Cutoffs <- AtTheLimit
  MaxCalls = 3
  NoThread = NoThread
INVARIANTS
  TypeOK
  OpenTxnHasOwner
  AckedBatchesDurable
  ErasedStaysErased
  DeletionsAudited
  AuditCountExact
PROPERTIES
  ChangesReachDisk
  UnsharedCallsAtomic
