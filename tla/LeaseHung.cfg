SPECIFICATION PromptOrNotSpec
CONSTANTS
  k1 = k1
  k2 = k2
  Tokens = {k1, k2}
  NoToken = NoToken
  Ttl = 10
  Interval = 2
  Lag = 1
  Answer = 11
  MaxTime = 12
  MaxFaults = 1
SYMMETRY TokenSymmetry
CHECK_DEADLOCK FALSE
INVARIANTS
  HealthyHoldsKey
  OneHealthyHolder
  PromptLeaseSurvives
