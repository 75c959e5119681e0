SPECIFICATION FairSpec
CONSTANTS
  Schedulers = {s1, s2}
  NumAccounts = 2
  Scheduled = {1, 2}
  Broken = {1}
  Deletable = {2}
  Intervals = {1, 2}
  DefaultInterval = 2
  Endpoints = {e1}
  AIKey = AIKey
  MayNotDecrypt = {e1, AIKey}
  ReportHours = {1}
  DayLength = 2
  MaxTime = 2
  MaxEdits = 1
  MaxCrashes = 1
INVARIANTS
  TypeOK
PROPERTIES
  IntervalIsKept
  
CHECK_DEADLOCK FALSE
