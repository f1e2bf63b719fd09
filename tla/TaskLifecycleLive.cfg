SPECIFICATION FairSpec
CONSTANTS
  t1 = t1 t2 = t2 c1 = c1 c2 = c2 r1 = r1
  NoTask = NoTask Idle = Idle
  Task <- MCOneTask
  Client <- MCClients
  Rerun <- MCNoRerun
  Watched <- MCOneTask
  MaxRestarts = 1
  RedisMayBlock = FALSE
PROPERTIES
  TaskEnds
  KeyLetsGo
  StreamEnds
