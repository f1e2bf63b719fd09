---------------------------- MODULE MCAnalysisRun ----------------------------
(* Instances of AnalysisRun for TLC: two files, two contents.  The runs    *)
(* start from a tree with one of the files; the edit adds the other one,   *)
(* which an incremental run may pick up, changes the first or empties the  *)
(* tree, which both lead to a full run.                                    *)
EXTENDS AnalysisRun

CONSTANTS f1, f2, c1, c2
MCFile     == {f1, f2}
MCContent  == {c1, c2}
MCParsable == {f1, f2}

OneFile == [f \in File |-> IF f = f1 THEN c1 ELSE Missing]
MCInit == Init /\ disk = OneFile
MCSpec == MCInit /\ [][Next]_vars /\ WF_vars(RunStep)
=============================================================================
