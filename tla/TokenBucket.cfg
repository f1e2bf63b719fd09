SPECIFICATION BucketSpec
CONSTANTS
  Callers = {"api", "worker"}
  Rate = 1
  Cost = 3
  Burst = 7
  TTL = 9
  MaxDelay = 2
  MaxTime = 20
INVARIANTS
  RateRespected
