CONSTANTS
  STEP_SECONDS = 3
  Hotp <- MCHotp
  DIGITS = 2
  SKEW_STEPS = 1
  s1 = s1
  s2 = s2
  Secrets = {s1, s2}
  MaxTime = 12
  MaxDrift = 2
  None = None
SPECIFICATION Spec
INVARIANTS TypeOK HonouredWhileValid OpensOnlyNearIssue
