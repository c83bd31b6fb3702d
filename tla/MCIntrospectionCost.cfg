\* The claim that concurrent requests with one token cost one call, with patient clients.
CONSTANTS
  Requests = {r1, r2, r3}
  Tokens = {t1}
  OurAudience = {t1}
  WithSub = {t1}
  WithExp = {t1}
  None = None
SPECIFICATION PatientSpec
INVARIANT OneCallPerToken
