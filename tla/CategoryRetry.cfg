SPECIFICATION Spec
CONSTANTS
  dp = dp
  r1 = r1
  r2 = r2
  k1 = k1
  k2 = k2
  Categories <- OneCategory
  Requests <- MCRequests
  Tasks <- MCTasks
  MaxRetry = 2
  MaxReruns = 1
  MaxExcused = 2
  Eager = FALSE
SYMMETRY
  MCSymmetry
INVARIANTS
  OvershootBounded
