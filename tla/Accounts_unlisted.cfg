CONSTANTS
  User = {adm, fresh}
  Request = {r1, r2}
  None = None
  Seeded = {adm}
  Admins = {adm}
  MaxRequests = 3
  FirstUserAlone = TRUE
  DecisionsAlone = TRUE
  SupabaseFails = FALSE
  RedisFails = FALSE
  DeletionsCommit = TRUE
SPECIFICATION Spec
INVARIANT CreatedAwaitsApproval
CHECK_DEADLOCK FALSE
