SPECIFICATION Spec
CONSTANTS
  Proposals = {p1, p2, p3}
  FreeCalls = 1
  PaidCalls = 2
  MaxDay = 2
  MaxEvents = 2
SYMMETRY Symmetry
INVARIANTS
  TypeOK
  PlanAsBilled
  UsageIsExact
  LimitKeptButForRaces
CHECK_DEADLOCK FALSE
