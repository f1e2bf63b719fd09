--------------------------- MODULE MCCircuitBreaker ---------------------------
\* Instances of CircuitBreaker for TLC: two calls of one process, or three
\* calls with one of them in another process.
EXTENDS CircuitBreaker

CONSTANTS p1, p2, k1, k2, k3

MCOneProc  == {p1}
MCTwoProcs == {p1, p2}
MCTwoCalls == {k1, k2}
MCThreeCalls == {k1, k2, k3}
MCHomeOne   == [c \in MCTwoCalls |-> p1]
MCHomeSplit == [c \in MCThreeCalls |-> IF c = k3 THEN p2 ELSE p1]
=============================================================================
