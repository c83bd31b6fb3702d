\* Any two requests, of an admin and a user, with or without a secret registered before, and two keys.
CONSTANTS
  Requests = {r1, r2}
  Subjects = {admin, user}
  Admins = {admin}
  RATE_LIMIT_MAX_REQUESTS = 1
  Keys = {k1, k2}
  Malformed = Malformed
  Earlier = Earlier
  None = None
SYMMETRY Symmetry
SPECIFICATION Spec
INVARIANTS TypeOK PinOfOwnSecret RowsAreProvisioned AuditTrail PaidFor LastUsedIsRecent AnsweredSecretIsStored
           NotFoundMeansUnregistered
