\* Three connections bearing one token: leader, follower and newcomer.
CONSTANTS
  Requests = {r1, r2, r3}
  Tokens = {t1}
  OurAudience = {t1}
  WithSub = {t1}
  WithExp = {t1}
  None = None
SYMMETRY RequestSymmetry
SPECIFICATION Spec
INVARIANTS TypeOK EntryHasLeader FollowersWillHear AdmittedOnFreshAnswer
