SPECIFICATION FairSpec
CONSTANTS
  Workers = {w1, w2}
  Loopers = {w1}
  Accounts = {a1, a2}
  Deletable = {a1}
  MaxJobs = 2
  MaxCrashes = 1
  NoJob = NoJob
  NoAccount = NoAccount
INVARIANTS
  TypeOK
  NoDoubleExecution
  ResultMatchesScan
  StrandedOnlyByCrash
  NothingSeenIsLeft
PROPERTIES
  ImplementsLifecycle
  QueuedIsPickedUp
  ClaimedJobEnds
