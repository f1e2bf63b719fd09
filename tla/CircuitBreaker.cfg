SPECIFICATION FairSpec
CONSTANTS
  p1 = p1 p2 = p2 k1 = k1 k2 = k2 k3 = k3
  NoCall = NoCall NoRecord = NoRecord
  Proc <- MCTwoProcs
  Call <- MCThreeCalls
  Home <- MCHomeSplit
  Threshold = 2
  MaxRetries = 1
  RedisMayFail = TRUE
INVARIANTS
  BreakersCoherent
PROPERTY CallsEnd
