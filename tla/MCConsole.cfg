SPECIFICATION Spec
CONSTANTS
  Edits = {1, 2}
  Scans = {s1}
  MaxVersion = 3
  NoRow = NoRow
  Providers = {1, 2, 3}
  Saves = {1, 2, 3}
  MaxKey = 2
  NoProvider = NoProvider
  Findings = {f1}
  Clicks = {1, 2, 3}
  NoIssue = NoIssue
  NoFinding = NoFinding
  NumEndpoints = 3
  Users = {"ann", "ben"}
  UserOf <- MCUserOf
  Active = {1, 2, 3}
  InitialSubs <- MCInitialSubs
  Broken = {2}
  Severities = {10, 30}
  NoSub = NoSub
  MaxBegun = 4
INVARIANTS
  OnlyOverlapUndoes
  DeletedStaysDeleted
  DefaultsBeingCleared
  DefaultStays
  KeyStays
  SecondIssueHasCause
  EntitledAreTold
CHECK_DEADLOCK FALSE
