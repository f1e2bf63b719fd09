----------------------------- MODULE CategoryRetry -----------------------------
(* Retrying one AI category of a repository (api/retry.py,                     *)
(* tasks/retry_tasks.py, db/redis_failed_nodes.py) against the four places     *)
(* that describe a category: the counter and the failure record in Redis, the  *)
(* agent_status of the latest completed version, the knowledge points in the   *)
(* database and their documents in Meilisearch.                                *)
(*                                                                             *)
(* Requests run on the event loop of the API and yield while they read the     *)
(* version.  Tasks run in Celery workers, concurrently; in eager mode the      *)
(* endpoint calls the task itself.  One version is the latest completed one    *)
(* for the whole run: no analysis completes meanwhile.                         *)
EXTENDS Naturals, FiniteSets

CONSTANTS
  Categories,   \* the category codes
  Requests,     \* the requests the API may be handling at a time
  Tasks,        \* the retry tasks that may be under way at a time
  MaxRetry,     \* MAX_RETRY_ATTEMPTS of redis_failed_nodes.py
  MaxReruns,    \* max_retries of the Celery task
  MaxExcused,   \* bound: retries of a category the counter does not vouch for
  Eager         \* celery_task_always_eager

ASSUME RetryAssumption ==
  /\ MaxRetry \in Nat \ {0} /\ MaxReruns \in Nat /\ MaxExcused \in Nat
  /\ Eager \in BOOLEAN
ASSUME FiniteAssumption == IsFiniteSet(Requests) /\ Requests # {}

VARIABLES
  request,    \* request[r]: the call of _do_retry
  task,       \* task[t]: the run of _retry_analysis_category_async
  count,      \* count[c]: the retry counter in Redis
  failed,     \* the categories with a failure record in Redis
  status,     \* agent_status[c].status of the latest completed version
  stored,     \* stored[c]: committed points of category c
  index,      \* index[c]: documents of category c in the search index
  succeeded,  \* history: categories whose last reported run was a success
  started,    \* history: accepted retries of c since count[c] began
  excused     \* history: those of them that were forced, or found Redis
              \* failing when they read or incremented the counter

vars == <<request, task, count, failed, status, stored, index, succeeded, started,
          excused>>
storeVars == <<stored, index>>
redisVars == <<count, failed>>
history == <<succeeded, started, excused>>

\* Generations of points: those of the analysis and those of a retry.
Generations == {"old", "new"}
Statuses == {"none", "success", "failed"}

IdleRequest == [pc |-> "idle"]
IdleTask == [pc |-> "idle"]

RequestType ==
  [pc : {"idle", "error"}]  \* error: an accepted request ended in a server error
  \cup [pc : {"checked"}, cat : Categories, force : BOOLEAN,
        blind : BOOLEAN]        \* the counter could not be read
TaskType ==
  {IdleTask} \cup
  [pc : {"queued", "run", "store", "report", "close"}, cat : Categories,
   force : BOOLEAN, reruns : 0..MaxReruns,
   removed : BOOLEAN,      \* the open transaction deleted the old points
   result : {"none", "points", "empty", "failed"}]  \* what the graph returned

MaxCount == MaxRetry + Cardinality(Requests) - 1 + MaxExcused

\* Type invariant: the counter and the retries it should count stay within
\* MaxCount, a Celery task within its reruns.
TypeOK ==
  /\ request \in [Requests -> RequestType]
  /\ task \in [Tasks -> TaskType]
  /\ count \in [Categories -> 0..MaxCount]
  /\ failed \in SUBSET Categories
  /\ status \in [Categories -> Statuses]
  /\ stored \in [Categories -> SUBSET Generations]
  /\ index \in [Categories -> SUBSET Generations]
  /\ succeeded \in SUBSET Categories
  /\ started \in [Categories -> 0..MaxCount]
  /\ excused \in [Categories -> 0..MaxExcused]

\* A completed analysis: each category ended in success, with points or
\* without, or failed and was recorded; the index holds what the database
\* holds.
Init ==
  /\ request = [r \in Requests |-> IdleRequest]
  /\ task = [t \in Tasks |-> IdleTask]
  /\ count = [c \in Categories |-> 0]
  /\ status \in [Categories -> {"success", "failed"}]
  /\ failed = {c \in Categories : status[c] = "failed"}
  /\ stored \in [Categories -> {{}, {"old"}}]
  /\ \A c \in failed : stored[c] = {}
  /\ index = stored
  /\ succeeded = Categories \ failed
  /\ started = [c \in Categories |-> 0]
  /\ excused = [c \in Categories |-> 0]

-----------------------------------------------------------------------------
(* The endpoint                                                              *)

\* What get_retry_count may say: the counter, or 0 when Redis does not answer.
Readings(c) == {[n |-> count[c], blind |-> FALSE], [n |-> 0, blind |-> TRUE]}

\* Mutant: off by one.
CheckLimitOneMore(r, c, force) ==
  /\ request[r].pc # "checked"
  /\ \E reading \in Readings(c) :
       request' = [request EXCEPT ![r] =
         IF reading.n <= MaxRetry \/ force
         THEN [pc |-> "checked", cat |-> c, force |-> force, blind |-> reading.blind]
         ELSE IdleRequest]
  /\ UNCHANGED <<task, status>>
  /\ UNCHANGED redisVars /\ UNCHANGED storeVars /\ UNCHANGED history

\* can_retry reads the counter; then the request waits for the database.
CheckLimit(r, c, force) ==
  /\ request[r].pc # "checked"
  /\ \E reading \in Readings(c) :
       request' = [request EXCEPT ![r] =
         IF reading.n < MaxRetry \/ force
         THEN [pc |-> "checked", cat |-> c, force |-> force, blind |-> reading.blind]
         ELSE IdleRequest]
  /\ UNCHANGED <<task, status>>
  /\ UNCHANGED redisVars /\ UNCHANGED storeVars /\ UNCHANGED history

\* The version shows the category as done, and the retry is not forced.
Skip(r) ==
  /\ request[r].pc = "checked"
  /\ status[request[r].cat] = "success" /\ ~request[r].force
  /\ request' = [request EXCEPT ![r] = IdleRequest]
  /\ UNCHANGED <<task, status>>
  /\ UNCHANGED redisVars /\ UNCHANGED storeVars /\ UNCHANGED history

\* The query of the version fails, and the request with it.
QueryFails(r) ==
  /\ request[r].pc = "checked"
  /\ request' = [request EXCEPT ![r] = IdleRequest]
  /\ UNCHANGED <<task, status>>
  /\ UNCHANGED redisVars /\ UNCHANGED storeVars /\ UNCHANGED history

NewTask(r) ==
  [pc |-> "queued", cat |-> request[r].cat, force |-> request[r].force,
   reruns |-> 0, removed |-> FALSE, result |-> "none"]

\* increment_retry_count, which gives up in silence when Redis does not answer,
\* then start_retry_task.  In eager mode the endpoint calls the task, whose
\* asyncio.run raises inside the running event loop.
Accept(r) ==
  /\ request[r].pc = "checked"
  /\ status[request[r].cat] # "success" \/ request[r].force
  /\ \E counted \in BOOLEAN :
       LET c == request[r].cat
           excuse == IF request[r].force \/ request[r].blind \/ ~counted THEN 1 ELSE 0
       IN
       /\ excused[c] + excuse <= MaxExcused
       /\ count' = IF counted THEN [count EXCEPT ![c] = @ + 1] ELSE count
       /\ started' = [started EXCEPT ![c] = @ + 1]
       /\ excused' = [excused EXCEPT ![c] = @ + excuse]
  /\ IF Eager
     THEN /\ request' = [request EXCEPT ![r] = [pc |-> "error"]]
          /\ UNCHANGED task
     ELSE /\ request' = [request EXCEPT ![r] = IdleRequest]
          /\ \E t \in Tasks : /\ task[t] = IdleTask
                              /\ task' = [task EXCEPT ![t] = NewTask(r)]
  /\ UNCHANGED <<failed, status, succeeded>>
  /\ UNCHANGED storeVars

\* A day after the last increment the counter is gone (DEFAULT_TTL).
CountersExpire ==
  /\ \E c \in Categories : count[c] > 0
  /\ count' = [c \in Categories |-> 0]
  /\ started' = [c \in Categories |-> 0]
  /\ excused' = [c \in Categories |-> 0]
  /\ UNCHANGED <<request, task, failed, status, succeeded>>
  /\ UNCHANGED storeVars

-----------------------------------------------------------------------------
(* The task                                                                  *)

Go(t, pc) == task' = [task EXCEPT ![t].pc = pc]
End(t) == task' = [task EXCEPT ![t] = IdleTask]

\* The rows of a category are locked from the delete to the end of the
\* transaction.
Locked(c) == \E t \in Tasks : task[t] # IdleTask /\ task[t].cat = c /\ task[t].removed

\* The task reads the version again and stops when the category is done.
StopSkipped(t) ==
  /\ task[t].pc = "queued"
  /\ status[task[t].cat] = "success" /\ ~task[t].force
  /\ End(t)
  /\ UNCHANGED <<request, status>>
  /\ UNCHANGED redisVars /\ UNCHANGED storeVars /\ UNCHANGED history

\* It deletes the old points in its transaction; their documents leave the
\* index at once, or stay when Meilisearch does not answer.
Clean(t) ==
  /\ task[t].pc = "queued"
  /\ status[task[t].cat] # "success" \/ task[t].force
  /\ LET c == task[t].cat IN
     IF stored[c] = {}
     THEN /\ Go(t, "run")
          /\ UNCHANGED index
     ELSE /\ ~Locked(c)
          /\ task' = [task EXCEPT ![t].pc = "run", ![t].removed = TRUE]
          /\ index' \in {index, [index EXCEPT ![c] = @ \ stored[c]]}
  /\ UNCHANGED <<request, status, stored>>
  /\ UNCHANGED redisVars /\ UNCHANGED history

\* The graph runs for the one category: with points, with none, or with an
\* LLM failure, which the node records in Redis if it can.
RunGraph(t) ==
  /\ task[t].pc = "run"
  /\ \E result \in {"points", "empty", "failed"} :
       /\ task' = [task EXCEPT ![t].pc = "store", ![t].result = result]
       /\ failed' \in {failed} \cup
            (IF result = "failed" THEN {failed \cup {task[t].cat}} ELSE {})
  /\ UNCHANGED <<request, count, status>>
  /\ UNCHANGED storeVars /\ UNCHANGED history

\* batch_create flushes the new points and puts their documents into the
\* index, if Meilisearch answers.
Store(t) ==
  /\ task[t].pc = "store"
  /\ Go(t, "report")
  /\ LET c == task[t].cat IN
     IF task[t].result = "points"
     THEN index' \in {index, [index EXCEPT ![c] = @ \cup {"new"}]}
     ELSE UNCHANGED index
  /\ UNCHANGED <<request, status, stored>>
  /\ UNCHANGED redisVars /\ UNCHANGED history

\* The status dictionary of a retry: the graph ran one category, so it has one
\* entry.
NewStatus(c, result) ==
  [d \in Categories |-> IF d # c THEN "none"
                        ELSE IF result = "failed" THEN "failed" ELSE "success"]

\* No version carries the retry's tag, so the latest completed one is taken;
\* its agent_status is replaced in a session of its own, and after that the
\* failure record is cleared if there were points.  A failing update is
\* logged.
ReportStatus(t) ==
  /\ task[t].pc = "report"
  /\ Go(t, "close")
  /\ LET c == task[t].cat IN
     \/ /\ status' = NewStatus(c, task[t].result)
        /\ failed' = IF task[t].result = "points" THEN failed \ {c} ELSE failed
        /\ succeeded' = IF task[t].result = "failed" THEN succeeded \ {c}
                        ELSE succeeded \cup {c}
     \/ UNCHANGED <<status, failed, succeeded>>
  /\ UNCHANGED <<request, count, started, excused>>
  /\ UNCHANGED storeVars

\* The session is left without a commit: the transaction is rolled back.
Close(t) ==
  /\ task[t].pc = "close"
  /\ End(t)
  /\ UNCHANGED <<request, status>>
  /\ UNCHANGED redisVars /\ UNCHANGED storeVars /\ UNCHANGED history

\* A connection error or a timeout (of the graph too) rolls back, and Celery
\* runs the task again, up to max_retries times.
Rerun(t) ==
  /\ task[t].pc \in {"run", "store"}
  /\ task[t].reruns < MaxReruns
  /\ task' = [task EXCEPT ![t].pc = "queued", ![t].reruns = @ + 1,
                          ![t].removed = FALSE,
                          ![t].result = "none"]
  /\ UNCHANGED <<request, status>>
  /\ UNCHANGED redisVars /\ UNCHANGED storeVars /\ UNCHANGED history

\* Any other exception, or the last rerun failing, ends the task.
Abort(t) ==
  /\ task[t].pc \in {"queued", "run", "store"}
  /\ End(t)
  /\ UNCHANGED <<request, status>>
  /\ UNCHANGED redisVars /\ UNCHANGED storeVars /\ UNCHANGED history

TaskStep(t) ==
  \/ StopSkipped(t)
  \/ Clean(t)
  \/ RunGraph(t)
  \/ Store(t)
  \/ ReportStatus(t)
  \/ Close(t)
  \/ Rerun(t)
  \/ Abort(t)

Next ==
  \/ \E r \in Requests :
       \/ \E c \in Categories, force \in BOOLEAN : CheckLimit(r, c, force)
       \/ Skip(r)
       \/ QueryFails(r)
       \/ Accept(r)
  \/ CountersExpire
  \/ \E t \in Tasks : TaskStep(t)

Spec == Init /\ [][Next]_vars

\* A Celery worker carries on with the task it took, whose graph returns because
\* its LLM calls time out; the database hands its row locks out in the order
\* they were asked for.  Nothing is assumed of failures and reruns.
Progress(t) ==
  StopSkipped(t) \/ RunGraph(t) \/ Store(t) \/ ReportStatus(t) \/ Close(t)

FairSpec ==
  Spec /\ \A t \in Tasks : WF_vars(Progress(t)) /\ SF_vars(Clean(t))

-----------------------------------------------------------------------------
(* Properties                                                                *)

\* The check of the counter and its increment are two steps, and either may
\* find Redis failing.  The retries that start pass the limit by less than the
\* requests under way, those left out that were forced or met such a failure:
\* an accepted retry that read and incremented the counter is never forgotten,
\* whatever the others do.
OvershootBounded ==
  \A c \in Categories :
    started[c] <= MaxRetry + Cardinality(Requests) - 1 + excused[c]

\* A retry that was started ends, also when another one holds the rows of its
\* category locked, is run again and locks them anew, and again.
RetriesEnd == \A t \in Tasks : task[t] # IdleTask ~> task[t] = IdleTask

-----------------------------------------------------------------------------
(* Statements of the docs and comments                                       *)

\* api/retry.py:231: a category is retried at most MAX_RETRY_ATTEMPTS times.
RetryLimitHolds == \A c \in Categories : started[c] <= MaxRetry + excused[c]

\* api/retry.py:233: a category that succeeded is not run again unforced.
SuccessIsSkipped ==
  [][\A t \in Tasks :
       task[t] = IdleTask /\ task'[t] # IdleTask /\ ~task'[t].force
       => task'[t].cat \notin succeeded]_vars

\* tasks/retry_tasks.py:360: a retry leaves the entries of the other categories
\* of the latest completed version alone.
OtherStatusesKept ==
  [][\A t \in Tasks : task[t].pc = "report" /\ task'[t].pc = "close"
       => \A c \in Categories \ {task[t].cat} : status'[c] = status[c]]_vars

\* tasks/retry_tasks.py:184: the points a retry reports are stored.
SuccessIsStored ==
  [][\A t \in Tasks :
       task[t].pc = "close" /\ task[t].result = "points" /\ task'[t] = IdleTask
       => "new" \in stored'[task[t].cat]]_vars

\* services/meilisearch_client.py:5: the index follows the database.  When no
\* task is under way, every stored point has its document.
IndexFollowsStore ==
  (\A t \in Tasks : task[t] = IdleTask) =>
    \A c \in Categories : stored[c] \subseteq index[c]

\* db/redis_failed_nodes.py:108: after a successful retry the failure record is
\* gone.
SuccessClearsRecord ==
  [][\A t \in Tasks :
       task[t].pc = "report" /\ task'[t].pc = "close" /\ status'[task[t].cat] = "success"
       => task[t].cat \notin failed']_vars

\* api/retry.py:234: a request that is neither refused nor skipped starts a
\* task and is answered with its id.
AcceptedRequestsStart == \A r \in Requests : request[r].pc # "error"
===============================================================================
