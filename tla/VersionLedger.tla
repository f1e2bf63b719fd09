---------------------------- MODULE VersionLedger ----------------------------
(***************************************************************************)
(* What every other session may ever see of a repository's analysis        *)
(* versions: the abstract specification AnalysisRun implements.  Of the    *)
(* eight working states of TaskStatus a reader sees one, the checkpoint    *)
(* analyzing_structures, and sees it on at most one version at a time.     *)
(***************************************************************************)
EXTENDS Integers

CONSTANT Version

VARIABLES status,   \* [Version -> committed status]
          repo      \* the repository's committed status

Checkpointed == {v \in Version : status[v] = "analyzing_structures"}

\* A version becomes visible, or is finished, only while no other one is open.
MayWrite(v) == Checkpointed \subseteq {v} /\ status[v] \in {"absent", "analyzing_structures"}

Init == status = [v \in Version |-> "absent"] /\ repo = "analyzing"

\* The incremental run's commit in the middle.  A resumed run commits it
\* again, over a repository its predecessor's fail() may have left failed.
Checkpoint(v) ==
  /\ MayWrite(v)
  /\ status' = [status EXCEPT ![v] = "analyzing_structures"]
  /\ repo' = IF status[v] = "absent" THEN "analyzing" ELSE repo

\* The commit that ends a run: version and repository together.
Publish(v) ==
  /\ MayWrite(v)
  /\ status' = [status EXCEPT ![v] = "completed"] /\ repo' = "completed"

\* fail() or cancel() reaches a version that is visible.  A completed one is
\* overwritten too, when the interruption arrives as the session closes.
Abandon(v, final) ==
  /\ status[v] \in {"analyzing_structures", "completed"}
  /\ status' = [status EXCEPT ![v] = final] /\ UNCHANGED repo

\* The second transaction of fail() or cancel().  fail() comes here although
\* it could not mark the version; cancel() only with no version open any more.
Settle(final) ==
  /\ final = "failed" \/ Checkpointed = {}
  /\ repo' = final /\ UNCHANGED status

Next ==
  \/ \E v \in Version : Checkpoint(v) \/ Publish(v)
  \/ \E v \in Version, final \in {"failed", "cancelled"} : Abandon(v, final)
  \/ \E final \in {"failed", "cancelled"} : Settle(final)

Spec == Init /\ [][Next]_<<status, repo>>
=============================================================================
