SPECIFICATION Spec
CONSTANTS
  t1 = t1 t2 = t2 c1 = c1 c2 = c2 r1 = r1
  NoTask = NoTask Idle = Idle
  Task <- MCTwoTasks
  Client <- MCClients
  Rerun <- MCRerun
  Watched <- MCUnwatched
  MaxRestarts = 1
  RedisMayBlock = TRUE
SYMMETRY MCSymmetry2
INVARIANTS
  EndedIsUnreferenced
  EndedShowsOutcome
PROPERTY RejectionJustified
