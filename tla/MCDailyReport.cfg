SPECIFICATION Spec
CONSTANTS
  Schedulers = {s1, s2}
  NumAccounts = 0
  Scheduled = {}
  Broken = {}
  Deletable = {}
  Intervals = {1}
  DefaultInterval = 1
  Endpoints = {e1, e2}
  AIKey = AIKey
  MayNotDecrypt = {e2, AIKey}
  ReportHours = {0, 1}
  DayLength = 2
  MaxTime = 3
  MaxEdits = 1
  MaxCrashes = 1
INVARIANTS
  ReportNotSkipped
  RepeatHasCause
CHECK_DEADLOCK FALSE
