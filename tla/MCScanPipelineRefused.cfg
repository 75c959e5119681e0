SPECIFICATION Spec
CONSTANTS
  Runs = {r1, r2}
  Items = {x, y}
  InitialCloud = {x}
  Alarming = {x}
  Untriggered = {y}
  RuleMatches = {}
  Guarded = {x}
  MaxAtOnce = 1
  MaxChanges = 0
  MaxFaults = 1
  NoRun = NoRun
  NoKey = NoKey
  NoItem = NoItem
SYMMETRY Symmetry
INVARIANTS
  RemovedIsGone
CHECK_DEADLOCK FALSE
