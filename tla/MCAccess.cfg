SPECIFICATION Spec
CONSTANTS
  Requests = {r1, r2}
  Founder = Founder
  Tokens = {t}
  Accounts = {a, b}
  NoRole = NoRole
  NoToken = NoToken
  NoUser = NoUser
  FreeSeats = 1
  PaidSeats = 2
  FreeAccounts = 1
  PaidAccounts = 2
SYMMETRY Symmetry
INVARIANTS
  TypeOK
  LimitsKeptButForRaces
  OneUserPerLink
  OneOwner
  GrantsAreExact
CHECK_DEADLOCK FALSE
