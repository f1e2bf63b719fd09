------------------------- MODULE TaskLifecycleProofs -------------------------
(***************************************************************************)
(* For any set of tasks and clients: the key and the table never point at  *)
(* an ended task, an ended task shows what its transaction did, and a 409  *)
(* names a task that has not ended.                                        *)
(***************************************************************************)
EXTENDS TaskLifecycle, TLAPS

\* What a step may rely on at task t beyond the invariants: who has been
\* cancelled has lost its key, a cancel that is pending was counted, fail()
\* has published its step, and only a committed run is closing.
Bookkeeping(t) ==
  /\ st[t] = "new" => progress[t] = "none" /\ ~cancelling[t] /\ interrupt[t] = "none"
  /\ cancelling[t] => active # t
  /\ interrupt[t] = "cancel" => cancelling[t]
  /\ st[t] = "failing" => progress[t] = "failed" /\ interrupt[t] # "timeout"
  /\ st[t] = "closing" => outcome[t] = "completed"

Shown(t) ==
  st[t] = "done" =>
    /\ progress[t] \in FinalStep
    /\ progress[t] = "completed" => outcome[t] = "completed"

IInv ==
  /\ TypeOK
  /\ EndedIsUnreferenced
  /\ \A t \in Task : Bookkeeping(t) /\ Shown(t)
  /\ \A r \in Rerun : progress[r] # "working"

USE ConstantsAssumption DEF Phase, Handler, FinalStep, Running, redis, DropKey, Publish

LEMMA InitIInv == Init => IInv
BY DEF Init, IInv, TypeOK, EndedIsUnreferenced, Bookkeeping, Shown

\* Submitting, rejecting and accepting.
LEMMA SubmissionKeeps ==
  ASSUME IInv, NEW c \in Client,
         ReadActiveKey(c) \/ Reject(c) \/ \E t \in Task : Accept(c, t)
  PROVE  IInv'
<1>1. CASE ReadActiveKey(c)
  BY <1>1 DEF ReadActiveKey, IInv, TypeOK, EndedIsUnreferenced, Bookkeeping, Shown
<1>2. CASE Reject(c)
  BY <1>2 DEF Reject, IInv, TypeOK, EndedIsUnreferenced, Bookkeeping, Shown
<1>3. ASSUME NEW t \in Task, Accept(c, t) PROVE IInv'
  BY <1>3 DEF Accept, IInv, TypeOK, EndedIsUnreferenced, Bookkeeping, Shown
<1> QED BY <1>1, <1>2, <1>3

\* The task inside wait_for.
LEMMA PhaseKeeps ==
  ASSUME IInv, NEW t \in Task,
         \/ Work(t) \/ StopPusher(t) \/ SkipAgents(t) \/ AwaitPusher(t)
         \/ Complete(t) \/ Commit(t) \/ Return(t)
         \/ Raise(t) \/ RaiseAfterPusher(t) \/ TimesOut(t) \/ Interrupted(t)
  PROVE  IInv'
<1> USE DEF IInv, TypeOK, EndedIsUnreferenced, Bookkeeping, Shown
<1>1. CASE Work(t) BY <1>1 DEF Work, Step
<1>2. CASE StopPusher(t) BY <1>2 DEF StopPusher, Step
<1>3. CASE SkipAgents(t) BY <1>3 DEF SkipAgents, Step
<1>4. CASE AwaitPusher(t) BY <1>4 DEF AwaitPusher
<1>5. CASE Complete(t) BY <1>5 DEF Complete, Step
<1>6. CASE Commit(t) BY <1>6 DEF Commit
<1>7. CASE Return(t) BY <1>7 DEF Return, Step
<1>8. CASE Raise(t) BY <1>8 DEF Raise, Step
<1>9. CASE RaiseAfterPusher(t) BY <1>9 DEF RaiseAfterPusher
<1>10. CASE TimesOut(t) BY <1>10 DEF TimesOut
<1>11. CASE Interrupted(t) BY <1>11 DEF Interrupted
<1> QED BY <1>1, <1>2, <1>3, <1>4, <1>5, <1>6, <1>7, <1>8, <1>9, <1>10, <1>11

\* The handlers after wait_for.
LEMMA HandlerKeeps ==
  ASSUME IInv, NEW t \in Task, FailEnds(t) \/ FailInterrupted(t) \/ CancelEnds(t)
  PROVE  IInv'
<1> USE DEF IInv, TypeOK, EndedIsUnreferenced, Bookkeeping, Shown
<1>1. CASE FailEnds(t) BY <1>1 DEF FailEnds, Step
<1>2. CASE FailInterrupted(t) BY <1>2 DEF FailInterrupted
<1>3. CASE CancelEnds(t) BY <1>3 DEF CancelEnds, Step
<1> QED BY <1>1, <1>2, <1>3

\* Cancel requests, streams, expiring keys and restarts.
LEMMA OutsideKeeps ==
  ASSUME IInv,
         \/ \E t \in Task : CancelTask(t) \/ FlagExpires(t) \/ OpenStream(t) \/ PollStream(t)
         \/ KeyExpires \/ Restart
  PROVE  IInv'
<1> USE DEF IInv, TypeOK, EndedIsUnreferenced, Bookkeeping, Shown
<1>1. ASSUME NEW t \in Task, CancelTask(t) PROVE IInv'
  <2>1. CASE t \in registered
    <3>1. /\ cancelling' = [cancelling EXCEPT ![t] = TRUE]
          /\ interrupt' = [interrupt EXCEPT ![t] = "cancel"]
      BY <1>1, <2>1 DEF CancelTask
    <3>2. TypeOK' BY <1>1, <3>1 DEF CancelTask
    <3>3. EndedIsUnreferenced' BY <1>1 DEF CancelTask
    <3>4. \A u \in Task : Bookkeeping(u)' /\ Shown(u)' BY <1>1, <3>1 DEF CancelTask
    <3>5. UNCHANGED <<progress, rerun>> BY <1>1 DEF CancelTask
    <3> QED BY <3>2, <3>3, <3>4, <3>5
  <2>2. CASE t \notin registered BY <1>1, <2>2 DEF CancelTask
  <2> QED BY <2>1, <2>2
<1>2. ASSUME NEW t \in Task, FlagExpires(t) PROVE IInv' BY <1>2 DEF FlagExpires
<1>3. ASSUME NEW t \in Task, OpenStream(t) PROVE IInv' BY <1>3 DEF OpenStream
<1>4. ASSUME NEW t \in Task, PollStream(t) PROVE IInv' BY <1>4 DEF PollStream
<1>5. CASE KeyExpires BY <1>5 DEF KeyExpires
<1>6. CASE Restart BY <1>6 DEF Restart
<1> QED BY <1>1, <1>2, <1>3, <1>4, <1>5, <1>6

\* Reruns of single agents, which write and drop the key but touch no analysis.
LEMMA RerunKeeps ==
  ASSUME IInv, NEW r \in Rerun,
         \/ StartRerun(r) \/ RerunFindsNoFiles(r) \/ RerunFails(r)
         \/ RerunEnds(r) \/ CancelRerun(r)
  PROVE  IInv'
<1> USE DEF IInv, TypeOK, EndedIsUnreferenced, Bookkeeping, Shown, notRerun
<1>1. CASE StartRerun(r) BY <1>1 DEF StartRerun
<1>2. CASE RerunFindsNoFiles(r) BY <1>2 DEF RerunFindsNoFiles
<1>3. CASE RerunFails(r) BY <1>3 DEF RerunFails
<1>4. CASE RerunEnds(r) BY <1>4 DEF RerunEnds
<1>5. CASE CancelRerun(r) BY <1>5 DEF CancelRerun
<1> QED BY <1>1, <1>2, <1>3, <1>4, <1>5

LEMMA StepKeeps == IInv /\ [Next]_vars => IInv'
<1> SUFFICES ASSUME IInv, [Next]_vars PROVE IInv' OBVIOUS
<1>1. CASE UNCHANGED vars
  BY <1>1 DEF vars, IInv, TypeOK, EndedIsUnreferenced, Bookkeeping, Shown
<1>2. CASE Next
  BY <1>2, SubmissionKeeps, PhaseKeeps, HandlerKeeps, OutsideKeeps, RerunKeeps DEF Next, TaskStep
<1> QED BY <1>1, <1>2

\* The inductive invariant holds of every behaviour of the tasks.
THEOREM InductiveInvariant == Spec => []IInv
BY InitIInv, StepKeeps, PTL DEF Spec

\* Type correctness: the states the code writes to Redis and keeps in memory.
THEOREM TypeCorrect == Spec => []TypeOK
<1>1. IInv => TypeOK BY DEF IInv
<1> QED BY <1>1, InductiveInvariant, PTL

\* The active-task key and _active_eager_tasks never name a task that came to
\* its end.  A task cut off by a restart ("lost") may still be named by the key:
\* that the TTL removes it is the liveness property KeyLetsGo, left to TLC.
THEOREM EndedAreUnreferenced == Spec => []EndedIsUnreferenced
<1>1. IInv => EndedIsUnreferenced BY DEF IInv
<1> QED BY <1>1, InductiveInvariant, PTL

\* What GET /tasks/{id} shows of an ended task is final, and "completed" only
\* if the run was committed, whatever interrupted it.
THEOREM EndIsShown == Spec => []EndedShowsOutcome
<1>1. IInv => EndedShowsOutcome BY DEF IInv, Shown, EndedShowsOutcome
<1> QED BY <1>1, InductiveInvariant, PTL

\* submit_analysis answers 409 only because of a task that has not ended.
THEOREM RejectionsAreJustified == Spec => RejectionJustified
<1>1. IInv /\ [Next]_vars =>
        [\A c \in Client : Reject(c) =>
           asked[c] \in Task /\ st[asked[c]] \in Phase \cup Handler \cup {"lost"}]_vars
  BY DEF IInv, TypeOK, Bookkeeping, Shown, Reject, Blocks
<1> QED BY <1>1, InductiveInvariant, PTL DEF Spec, RejectionJustified
=============================================================================
