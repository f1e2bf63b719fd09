---------------------------- MODULE MCCategoryRetry ----------------------------
(* One category, one or two requests and two tasks at a time.                  *)
EXTENDS CategoryRetry, TLC

CONSTANTS dp, r1, r2, k1, k2

OneCategory == {dp}
OneRequest == {r1}
MCRequests == {r1, r2}
MCTasks == {k1, k2}
MCSymmetry == Permutations(MCRequests) \cup Permutations(MCTasks)
===============================================================================
