CONSTANTS
  User = {adm, old, fresh}
  Request = {r1, r2}
  None = None
  Seeded = {adm, old}
  Admins = {adm}
  MaxRequests = 3
  FirstUserAlone = TRUE
  DecisionsAlone = TRUE
  SupabaseFails = TRUE
  RedisFails = FALSE
  DeletionsCommit = TRUE
SPECIFICATION FairSpec
INVARIANTS TypeOK DecidedOneWay LoginOutlivesProfile
PROPERTIES AdministratorsAreFixed DeletedLosesLogin
CHECK_DEADLOCK FALSE
