SPECIFICATION Spec
CONSTANTS
  Runs = {r1, r2, r3}
  Items = {x, y}
  InitialCloud = {x}
  Alarming = {x}
  Untriggered = {}
  RuleMatches = {y}
  Guarded = {y}
  MaxAtOnce = 2
  MaxChanges = 1
  MaxFaults = 1
  NoRun = NoRun
  NoKey = NoKey
  NoItem = NoItem
SYMMETRY Symmetry
INVARIANTS
  TypeOK
  DuplicatesNeedOverlap
  FoundIsNotified
  LoneScanIsExact
  StableItemStays
  AddedIsAnnounced
CHECK_DEADLOCK FALSE
