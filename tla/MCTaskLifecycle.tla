--------------------------- MODULE MCTaskLifecycle ---------------------------
\* Instances of TaskLifecycle for TLC: tasks and clients are interchangeable.
EXTENDS TaskLifecycle, TLC

CONSTANTS t1, t2, c1, c2, r1

MCOneTask    == {t1}
MCTwoTasks   == {t1, t2}
MCRerun      == {r1}
MCNoRerun    == {}
MCUnwatched  == {}
MCClients    == {c1, c2}
MCSymmetry2  == Permutations(MCTwoTasks) \cup Permutations(MCClients)
=============================================================================
