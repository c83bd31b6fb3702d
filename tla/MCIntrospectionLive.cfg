\* Progress and admission of two connections, with one token for each outcome of evaluate.
CONSTANTS
  Requests = {r1, r2}
  Tokens = {good, other_audience, no_sub}
  OurAudience = {good, no_sub}
  WithSub = {good, other_audience}
  WithExp = {good}
  None = None
SPECIFICATION FairSpec
INVARIANT AdmittedOnFreshAnswer
PROPERTY EveryRequestEnds
