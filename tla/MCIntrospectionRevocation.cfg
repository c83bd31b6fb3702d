\* The claim that a revocation takes effect on the very next request.
CONSTANTS
  Requests = {r1, r2}
  Tokens = {t1}
  OurAudience = {t1}
  WithSub = {t1}
  WithExp = {t1}
  None = None
SPECIFICATION Spec
INVARIANT RevocationHitsNextRequest
