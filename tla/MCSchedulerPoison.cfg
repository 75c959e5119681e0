SPECIFICATION FairSpec
CONSTANTS
  Schedulers = {s1}
  NumAccounts = 2
  Scheduled = {}
  Broken = {1}
  Deletable = {}
  Intervals = {1, 2}
  DefaultInterval = 2
  Endpoints = {}
  AIKey = AIKey
  MayNotDecrypt = {}
  ReportHours = {1}
  DayLength = 2
  MaxTime = 3
  MaxEdits = 2
  MaxCrashes = 0
PROPERTIES
  DueIsScanned
CHECK_DEADLOCK FALSE
