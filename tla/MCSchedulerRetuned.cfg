SPECIFICATION Spec
CONSTANTS
  Schedulers = {s1}
  NumAccounts = 1
  Scheduled = {}
  Broken = {}
  Deletable = {}
  Intervals = {1, 2}
  DefaultInterval = 2
  Endpoints = {}
  AIKey = AIKey
  MayNotDecrypt = {}
  ReportHours = {1}
  DayLength = 2
  MaxTime = 3
  MaxEdits = 2
  MaxCrashes = 0
INVARIANTS
  EditedIsDue
CHECK_DEADLOCK FALSE
