SPECIFICATION Spec
CONSTANTS
  NumResources = 2
  NumSchedules = 3
  Refs <- MCRefs
  IdOf <- MCIdOf
  Mentions <- MCMentions
  Paused = {1, 3}
  Internal = {id1, id2}
  Triggered = {1}
  Roles = {"role"}
  RoleOf <- MCRoleOf
  InitialTargets <- MCInitialTargets
  NoRole = NoRole
  NoRef = NoRef
  NoRow = NoRow
  id1 = id1
  id2 = id2
  url = url
  t60 = t60
  t60f = t60f
  t90 = t90
  tNan = tNan
  tInf = tInf
  tOff = tOff
  Texts <- MCTexts
  NumberOf <- MCNumberOf
  Infinity = 1000
  NaN = NaN
  NoNumber = NoNumber
  Within <- MCWithin
  Found <- MCWithin
  BadPatterns = {tOff}
  Missing = Missing
  Structure = Structure
  ScheduleNames = {"nightly", "weekly"}
  NameOf <- MCNameOf
  RuleIds = {1, 2, 3}
  RuleNames = {1, 2}
  RuleName <- MCRuleName
  RuleForms <- MCRuleForms
  InitialRules <- MCInitialRules
  Fields <- MCFields
  ValueOf <- MCValueOf
  Severities = {"info", "warning", "critical"}
  NoRule = NoRule
  MaxRuns = 1
  MaxOthers = 0
INVARIANT PausedIsReported
CHECK_DEADLOCK FALSE
