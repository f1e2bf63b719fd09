-------------------------- MODULE MCIncrementalDiff --------------------------
(* Five files, every subset of four dependencies, and a call.  With a and b  *)
(* modified, the file c is one dependency from a and two from b by way of d, *)
(* and e is behind c: a search that came to c by the long way first would    *)
(* not get to e within two.  Edges are followed both ways, so each is a      *)
(* cycle.                                                                    *)
EXTENDS IncrementalDiff, TLC

CONSTANTS a, b, c, d, e, h1, h2

MCFile     == {a, b, c, d, e}
MCNodePath == [f \in MCFile |-> <<f>>]
MCAbsolutePath == {<<f>> : f \in MCFile}
MCHash     == {h1, h2}
MCImports  == {<<a, c>>, <<b, d>>, <<d, c>>, <<c, e>>}
MCCalls    == {<<d, a>>}
MCSymmetry == Permutations(MCHash)
=============================================================================
