---------------------------- MODULE TaskLifecycle ----------------------------
(***************************************************************************)
(* The tasks of one repository in eager mode, the default: every analysis  *)
(* is an asyncio task of the API process, which shares Redis keys with the *)
(* requests that submit, cancel and watch it.                              *)
(*                                                                         *)
(* Everything between two awaits is one step.  What the analysis computes  *)
(* and commits is AnalysisRun's subject; here a task is the wrapper _run,  *)
(* the progress it publishes and the outcome it leaves in the database.    *)
(* A task is named when submitted; it is registered and started before the *)
(* answer that names it can reach a client, so those are one step.         *)
(***************************************************************************)
EXTENDS Naturals, FiniteSets

CONSTANTS
  Task,          \* bound: the analyses ever submitted
  Rerun,         \* bound: the tasks analyze_specific_agents ever starts
  Watched,       \* bound: the analyses whose progress a client streams
  NoTask,        \* "no key"
  Client,        \* requests that submit at the same time
  Idle,          \* a client between two requests
  MaxRestarts,   \* bound: restarts of the API process
  RedisMayBlock  \* whether the 5 s limit of the pre-check can be hit

ASSUME ConstantsAssumption ==
  /\ Task \cap Rerun = {} /\ Watched \subseteq Task
  /\ NoTask \notin Task \cup Rerun /\ Idle \notin Task \cup Rerun \cup {NoTask}
  /\ MaxRestarts \in Nat /\ RedisMayBlock \in BOOLEAN

VARIABLES
  active,     \* Redis repo:{id}:active_task
  progress,   \* Redis task:{id}:progress, current_step
  flag,       \* Redis task:{id}:cancel
  registered, \* _active_eager_tasks
  st,         \* where each task is
  interrupt,  \* what the task's next await will raise
  cancelling, \* task.cancelling(): the user's cancel() is counted
  expired,    \* the 600 s timer of wait_for is gone: it fired or wait_for returned
  outcome,    \* what the database says of the task's run
  asked,      \* what a submitting client read from `active`
  stream,     \* the SSE response watching each task
  rerun,      \* where each rerun of single agents is
  restarts

redis  == <<active, progress, flag>>
vars == <<active, progress, flag, registered, st, interrupt, cancelling, expired,
          outcome, asked, stream, rerun, restarts>>

FinalStep == {"completed", "failed", "cancelled"}
Phase == {"analyzing", "pushing", "storing", "committing", "closing"}  \* inside wait_for
Handler == {"failing", "cancelling"}
Running == {t \in Task : st[t] \in Phase \cup Handler}

\* Type invariant: progress, outcome and stream only take the values the
\* endpoints know.
TypeOK ==
  /\ active \in Task \cup Rerun \cup {NoTask}
  /\ progress \in [Task \cup Rerun -> {"none", "working"} \cup FinalStep]
  /\ flag \in [Task -> BOOLEAN] /\ registered \subseteq Task
  /\ st \in [Task -> {"new", "done", "lost"} \cup Phase \cup Handler]
  /\ interrupt \in [Task -> {"none", "cancel", "timeout"}]
  /\ cancelling \in [Task -> BOOLEAN] /\ expired \in [Task -> BOOLEAN]
  /\ outcome \in [Task -> {"none"} \cup FinalStep]
  /\ asked \in [Client -> Task \cup Rerun \cup {NoTask, Idle}]
  /\ stream \in [Task -> {"closed", "open", "complete", "error"}]
  /\ rerun \in [Rerun -> {"new", "running", "failing", "done", "lost"}]
  /\ restarts \in 0..MaxRestarts

Init ==
  /\ active = NoTask /\ progress = [t \in Task \cup Rerun |-> "none"]
  /\ flag = [t \in Task |-> FALSE] /\ registered = {}
  /\ st = [t \in Task |-> "new"] /\ interrupt = [t \in Task |-> "none"]
  /\ cancelling = [t \in Task |-> FALSE] /\ expired = [t \in Task |-> FALSE]
  /\ outcome = [t \in Task |-> "none"] /\ asked = [c \in Client |-> Idle]
  /\ stream = [t \in Task |-> "closed"] /\ rerun = [r \in Rerun |-> "new"] /\ restarts = 0

----------------------------------------------------------------------------
(* _trigger_analysis: the key is read by a thread, which is an await; all  *)
(* the rest, up to the answer, is one step.                                *)

ReadActiveKey(c) ==
  /\ asked[c] = Idle
  /\ \/ asked' = [asked EXCEPT ![c] = active]
     \/ RedisMayBlock /\ asked' = [asked EXCEPT ![c] = NoTask]
  /\ UNCHANGED <<redis, registered, st, interrupt, cancelling, expired, outcome,
                 stream, rerun, restarts>>

\* The task the key named counts as active while its progress is not final;
\* a task that has not published any progress yet does not count.
Blocks(k) == k # NoTask /\ progress[k] = "working"

\* Answered 409.
Reject(c) ==
  /\ asked[c] # Idle /\ Blocks(asked[c])
  /\ asked' = [asked EXCEPT ![c] = Idle]
  /\ UNCHANGED <<redis, registered, st, interrupt, cancelling, expired, outcome,
                 stream, rerun, restarts>>

\* Answered 202: whatever the key held is replaced by the new task.
Accept(c, t) ==
  /\ asked[c] # Idle /\ ~Blocks(asked[c]) /\ st[t] = "new"
  /\ active' = t
  /\ st' = [st EXCEPT ![t] = "analyzing"]
  /\ registered' = registered \cup {t}
  /\ asked' = [asked EXCEPT ![c] = Idle]
  /\ UNCHANGED <<progress, flag, interrupt, cancelling, expired, outcome, stream, rerun, restarts>>

----------------------------------------------------------------------------
(* The task.  A step of it ends at an await, and a pending interruption is *)
(* raised there instead of the await's result.                             *)

\* Task t goes from one place to another with no interruption pending.
Step(t, from, to) ==
  /\ st[t] = from /\ interrupt[t] = "none"
  /\ st' = [st EXCEPT ![t] = to]
  /\ expired' = [expired EXCEPT ![t] = @ \/ to \notin Phase]
  /\ UNCHANGED <<interrupt, cancelling, asked, stream, rerun, restarts>>

\* _cleanup_redis_task_key deletes the key whoever it names.
DropKey == active' = NoTask

Publish(t, step) == progress' = [progress EXCEPT ![t] = step]

\* Any step of the analysis that reports progress.
Work(t) ==
  /\ Step(t, "analyzing", "analyzing") /\ Publish(t, "working")
  /\ UNCHANGED <<active, flag, registered, outcome>>

\* The agent graph has returned (or raised): its `finally` cancels the task
\* that pushes progress and awaits it.  A run without AI goes straight on.
StopPusher(t) ==
  /\ Step(t, "analyzing", "pushing") /\ progress[t] = "working"
  /\ UNCHANGED <<redis, registered, outcome>>

SkipAgents(t) ==
  /\ Step(t, "analyzing", "storing") /\ progress[t] = "working"
  /\ UNCHANGED <<redis, registered, outcome>>

\* Mutant of AwaitPusher: the await waits for a pending interruption to go.
AwaitPusherUninterrupted(t) ==
  /\ Step(t, "pushing", "storing") /\ flag' = [flag EXCEPT ![t] = FALSE]
  /\ UNCHANGED <<active, progress, registered, outcome>>

\* That await suppresses every CancelledError, the one that interrupts this
\* task included.  The checkpoint that follows reads and deletes the cancel
\* flag, but CancelChecker catches what it raises itself.
AwaitPusher(t) ==
  /\ st[t] = "pushing" /\ st' = [st EXCEPT ![t] = "storing"]
  /\ interrupt' = [interrupt EXCEPT ![t] = "none"]
  /\ flag' = [flag EXCEPT ![t] = FALSE]
  /\ UNCHANGED <<active, progress, registered, cancelling, expired, outcome, asked,
                 stream, rerun, restarts>>

\* complete(): progress and key first, the database after them.
Complete(t) ==
  /\ Step(t, "storing", "committing") /\ Publish(t, "completed") /\ DropKey
  /\ UNCHANGED <<flag, registered, outcome>>

\* The database may commit although the await is interrupted.
Commit(t) ==
  /\ st[t] = "committing" /\ st' = [st EXCEPT ![t] = "closing"]
  /\ outcome' = [outcome EXCEPT ![t] = "completed"]
  /\ UNCHANGED <<redis, registered, interrupt, cancelling, expired, asked, stream, rerun, restarts>>

\* The session is closed and the wrapper ends.
Return(t) ==
  /\ Step(t, "closing", "done") /\ Publish(t, "completed") /\ DropKey
  /\ registered' = registered \ {t}
  /\ UNCHANGED <<flag, outcome>>

\* An exception inside the run: fail() publishes at once, then awaits.
Raise(t) ==
  /\ \E p \in Phase \ {"pushing"} : Step(t, p, "failing")
  /\ Publish(t, "failed")
  /\ UNCHANGED <<active, flag, registered, outcome>>

\* The graph raised: the await of the pusher suppresses the interruption too.
RaiseAfterPusher(t) ==
  /\ st[t] = "pushing" /\ st' = [st EXCEPT ![t] = "failing"]
  /\ interrupt' = [interrupt EXCEPT ![t] = "none"]
  /\ Publish(t, "failed")
  /\ expired' = [expired EXCEPT ![t] = TRUE]
  /\ UNCHANGED <<active, flag, registered, cancelling, outcome, asked,
                 stream, rerun, restarts>>

\* The timer of wait_for cancels the task.  wait_for turns that into
\* TimeoutError only if nobody else has called cancel().
TimesOut(t) ==
  /\ st[t] \in Phase /\ ~expired[t]
  /\ expired' = [expired EXCEPT ![t] = TRUE]
  /\ interrupt' = [interrupt EXCEPT ![t] = IF cancelling[t] THEN "cancel" ELSE "timeout"]
  /\ UNCHANGED <<redis, registered, st, cancelling, outcome, asked, stream, rerun, restarts>>

\* Mutant of Interrupted: progress is left to the end of the handler.
InterruptedSilently(t) ==
  /\ st[t] \in Phase \ {"pushing"} /\ interrupt[t] # "none"
  /\ interrupt' = [interrupt EXCEPT ![t] = "none"]
  /\ st' = [st EXCEPT ![t] = IF interrupt[t] = "timeout" THEN "failing" ELSE "cancelling"]
  /\ expired' = [expired EXCEPT ![t] = TRUE]
  /\ UNCHANGED <<redis, registered, cancelling, outcome, asked, stream, rerun, restarts>>

\* The interruption leaves wait_for and its handler starts.
Interrupted(t) ==
  /\ st[t] \in Phase \ {"pushing"} /\ interrupt[t] # "none"
  /\ interrupt' = [interrupt EXCEPT ![t] = "none"]
  /\ IF interrupt[t] = "timeout"
     THEN Publish(t, "failed") /\ st' = [st EXCEPT ![t] = "failing"]
     ELSE st' = [st EXCEPT ![t] = "cancelling"] /\ UNCHANGED progress
  /\ expired' = [expired EXCEPT ![t] = TRUE]
  /\ UNCHANGED <<active, flag, registered, cancelling, outcome, asked,
                 stream, rerun, restarts>>

\* Mutant of FailEnds: the key is left to the wrapper's success path.
FailEndsKeepingKey(t) ==
  /\ Step(t, "failing", "done") /\ Publish(t, "failed")
  /\ registered' = registered \ {t}
  /\ outcome' = [outcome EXCEPT ![t] = "failed"]
  /\ UNCHANGED <<active, flag>>

\* fail() ends; a database that refused its updates is only logged.
FailEnds(t) ==
  /\ Step(t, "failing", "done") /\ Publish(t, "failed") /\ DropKey
  /\ registered' = registered \ {t}
  /\ outcome' \in {outcome, [outcome EXCEPT ![t] = "failed"]}
  /\ UNCHANGED flag

\* A cancel() while fail() awaits leaves the wrapper through `finally`; the
\* version or the repository may have been updated by then.
FailInterrupted(t) ==
  /\ st[t] = "failing" /\ interrupt[t] # "none"
  /\ st' = [st EXCEPT ![t] = "done"] /\ registered' = registered \ {t}
  /\ interrupt' = [interrupt EXCEPT ![t] = "none"]
  /\ outcome' \in {outcome, [outcome EXCEPT ![t] = "failed"]}
  /\ UNCHANGED <<redis, cancelling, expired, asked, stream, rerun, restarts>>

\* Mutant of CancelEnds: only the database and the key are written.
CancelEndsSilently(t) ==
  /\ Step(t, "cancelling", "done") /\ DropKey
  /\ registered' = registered \ {t}
  /\ outcome' \in {outcome, [outcome EXCEPT ![t] = "cancelled"]}
  /\ UNCHANGED <<progress, flag>>

\* cancel(None) writes nothing when the version was never committed.
CancelEnds(t) ==
  /\ Step(t, "cancelling", "done") /\ Publish(t, "cancelled") /\ DropKey
  /\ registered' = registered \ {t}
  /\ outcome' \in {outcome, [outcome EXCEPT ![t] = "cancelled"]}
  /\ UNCHANGED flag

----------------------------------------------------------------------------
(* POST /tasks/{id}/cancel: for a task that was submitted, at any time.    *)

CancelTask(t) ==
  /\ st[t] # "new" /\ DropKey
  /\ flag' = [flag EXCEPT ![t] = TRUE]
  /\ registered' = registered \ {t}
  /\ IF t \in registered
     THEN /\ cancelling' = [cancelling EXCEPT ![t] = TRUE]
          /\ interrupt' = [interrupt EXCEPT ![t] = "cancel"]
     ELSE UNCHANGED <<cancelling, interrupt>>
  /\ UNCHANGED <<progress, st, expired, outcome, asked, stream, rerun, restarts>>

\* The flag lives for redis_cancel_flag_ttl; when it is gone matters to a task
\* that may still read it.
FlagExpires(t) ==
  /\ flag[t] /\ st[t] \in Phase /\ flag' = [flag EXCEPT ![t] = FALSE]
  /\ UNCHANGED <<active, progress, registered, st, interrupt, cancelling, expired,
                 outcome, asked, stream, rerun, restarts>>

\* The key lives for redis_task_mapping_ttl, longer than any analysis runs.
KeyExpires ==
  /\ \/ active \in Task /\ st[active] = "lost"
     \/ active \in Rerun
  /\ DropKey
  /\ UNCHANGED <<progress, flag, registered, st, interrupt, cancelling, expired,
                 outcome, asked, stream, rerun, restarts>>

----------------------------------------------------------------------------
(* POST /repositories/{id}/analyze-agents starts single agents beside the  *)
(* wrapper: their task is in no table, has no timer, reports progress only *)
(* when it finds no files, and leaves the key behind when it ends.         *)

notRerun == <<flag, registered, st, interrupt, cancelling, expired, outcome, asked,
              stream, restarts>>

\* A key whose task's status is not among the first steps is answered 409:
\* a final one as well as "storing", which is one of those "working" stands for.
MayRerun(k) == k # NoTask => progress[k] \in {"none", "working"}

StartRerun(r) ==
  /\ rerun[r] = "new" /\ MayRerun(active)
  /\ active' = r /\ rerun' = [rerun EXCEPT ![r] = "running"]
  /\ UNCHANGED <<notRerun, progress>>

\* No files are stored: fail() publishes, awaits and drops the key.
RerunFindsNoFiles(r) ==
  /\ rerun[r] = "running" /\ rerun' = [rerun EXCEPT ![r] = "failing"]
  /\ Publish(r, "failed")
  /\ UNCHANGED <<notRerun, active>>

RerunFails(r) ==
  /\ rerun[r] = "failing" /\ rerun' = [rerun EXCEPT ![r] = "done"] /\ DropKey
  /\ UNCHANGED <<notRerun, progress>>

\* The agents have run, or an exception has left the task.
RerunEnds(r) ==
  /\ rerun[r] = "running" /\ rerun' = [rerun EXCEPT ![r] = "done"]
  /\ UNCHANGED <<notRerun, redis>>

\* cancel_task finds no task to cancel; the flag it sets is never read.
CancelRerun(r) ==
  /\ rerun[r] # "new" /\ DropKey
  /\ UNCHANGED <<notRerun, progress, rerun>>
----------------------------------------------------------------------------
(* GET /tasks/{id}/stream. *)

OpenStream(t) ==
  /\ t \in Watched /\ st[t] # "new" /\ stream[t] = "closed"
  /\ stream' = [stream EXCEPT ![t] = "open"]
  /\ UNCHANGED <<redis, registered, st, interrupt, cancelling, expired, outcome, asked,
                 rerun, restarts>>

\* Mutant of PollStream: the failed step is not recognised.
PollStreamIgnoringFailure(t) ==
  /\ stream[t] = "open" /\ progress[t] = "completed"
  /\ stream' = [stream EXCEPT ![t] = "complete"]
  /\ UNCHANGED <<redis, registered, st, interrupt, cancelling, expired, outcome, asked,
                 rerun, restarts>>

\* The generator polls every second and ends on two of the final steps.
PollStream(t) ==
  /\ stream[t] = "open" /\ progress[t] \in {"completed", "failed"}
  /\ stream' = [stream EXCEPT ![t] = IF progress[t] = "completed" THEN "complete" ELSE "error"]
  /\ UNCHANGED <<redis, registered, st, interrupt, cancelling, expired, outcome, asked,
                 rerun, restarts>>

\* The API process restarts: tasks, requests and responses are gone, Redis
\* keeps its keys.
Restart ==
  /\ restarts < MaxRestarts /\ restarts' = restarts + 1
  /\ st' = [t \in Task |-> IF t \in Running THEN "lost" ELSE st[t]]
  /\ registered' = {} /\ interrupt' = [t \in Task |-> "none"]
  /\ asked' = [c \in Client |-> Idle]
  /\ stream' = [t \in Task |-> IF stream[t] = "open" THEN "closed" ELSE stream[t]]
  /\ rerun' = [r \in Rerun |-> IF rerun[r] \in {"running", "failing"} THEN "lost" ELSE rerun[r]]
  /\ UNCHANGED <<redis, cancelling, expired, outcome>>

\* Steps of a task that the event loop takes once their await is over.
TaskStep(t) ==
  \/ AwaitPusher(t) \/ Complete(t) \/ Commit(t) \/ Return(t)
  \/ Interrupted(t) \/ FailEnds(t) \/ FailInterrupted(t) \/ CancelEnds(t)

Next ==
  \/ \E c \in Client : ReadActiveKey(c) \/ Reject(c) \/ \E t \in Task : Accept(c, t)
  \/ \E t \in Task : \/ Work(t) \/ StopPusher(t) \/ SkipAgents(t)
                     \/ Raise(t) \/ RaiseAfterPusher(t) \/ TimesOut(t)
                     \/ TaskStep(t)
                     \/ CancelTask(t) \/ FlagExpires(t)
                     \/ OpenStream(t) \/ PollStream(t)
  \/ \E r \in Rerun : \/ StartRerun(r) \/ RerunFindsNoFiles(r) \/ RerunFails(r)
                      \/ RerunEnds(r) \/ CancelRerun(r)
  \/ KeyExpires
  \/ Restart

Spec == Init /\ [][Next]_vars

\* Nothing is assumed of the analysis itself but its timer; the handlers'
\* database calls return, the stream's sleep ends, and Redis expires the key.
FairSpec ==
  /\ Spec /\ WF_vars(KeyExpires)
  /\ \A t \in Task : WF_vars(TimesOut(t)) /\ WF_vars(TaskStep(t)) /\ WF_vars(PollStream(t))

----------------------------------------------------------------------------

\* An analysis that came to its end is not pointed at any more: neither by the
\* key that blocks the next submission nor by the table that cancel_task looks
\* tasks up in, whichever task wrote or deleted the key in between.  The key
\* may name a task that a restart cut off: that one never ran its wrapper's
\* end, and nothing but the key's TTL removes the name (KeyLetsGo).
EndedIsUnreferenced ==
  /\ active \in Task => st[active] \notin {"new", "done"}
  /\ \A t \in registered : t \in Running

\* What GET /tasks/{id} shows of a task that has ended: never that it still
\* works, and "completed" only if the run's transaction was committed.
EndedShowsOutcome ==
  \A t \in Task : st[t] = "done" =>
    /\ progress[t] \in FinalStep
    /\ progress[t] = "completed" => outcome[t] = "completed"

\* A 409 names an analysis that has not ended, or one the restarted process
\* has forgotten; never a rerun, whose key would otherwise block for a week.
RejectionJustified ==
  [][\A c \in Client : Reject(c) =>
       asked[c] \in Task /\ st[asked[c]] \in Phase \cup Handler \cup {"lost"}]_vars

\* Every task ends, cancelled, timed out or failed on the way, unless the
\* process that runs it goes away.
TaskEnds == \A t \in Task : t \in Running ~> st[t] \in {"done", "lost"}

\* The key lets go of every analysis it names: the task's own end drops it, or
\* another writer does, or, when a restart has cut the task off, the TTL that
\* _trigger_eager_analysis_background set.  No repository is blocked for good.
KeyLetsGo == \A t \in Task : active = t ~> active # t

\* A stream ends once its task has succeeded or failed.
StreamEnds ==
  \A t \in Task : stream[t] = "open" /\ progress[t] \in {"completed", "failed"}
                    ~> stream[t] # "open" \/ progress[t] = "cancelled"

----------------------------------------------------------------------------
(* What the repository's documents say of tasks. *)

\* "before submitting, the key is checked; if it exists, answer 409": two
\* runs of a repository never work at the same time.
OneRunAtATime == Cardinality(Running) <= 1

\* "the Redis cancel flag is kept as a fallback, the checkpoints read it": a
\* run that was cancelled before it published its result is not completed.
CancelHonoured ==
  [][\A t \in Task : cancelling[t] => ~Complete(t)]_vars

\* "complete: the task is completed": what the stream said is what the
\* database holds once the task has ended.
CompleteEventTrue ==
  \A t \in Task : stream[t] = "complete" /\ st[t] = "done" => outcome[t] = "completed"

\* "the connection is closed automatically when the task ends".
StreamClosesWithTask ==
  \A t \in Task : stream[t] = "open" /\ st[t] = "done" ~> stream[t] # "open"

\* "check whether there is an active task": single agents are never started
\* beside an analysis (they are, while its status is an early one).
RerunsAlone == [][\A r \in Rerun : StartRerun(r) => Running = {}]_vars

\* The key names a task that is active: not a rerun that has ended.
KeyNamesActive == active \in Rerun => rerun[active] \in {"running", "failing"}
=============================================================================
