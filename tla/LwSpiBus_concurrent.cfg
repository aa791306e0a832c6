SPECIFICATION FairSpec
CONSTANTS
  t1 = t1
  t2 = t2
  NoTask = NoTask
  Task <- TwoTasks
  Calls <- Calls_concurrent
INVARIANTS BusExclusive AsyncLockBalance HisrHasTransaction TransferWhole
PROPERTY CallsReturn
