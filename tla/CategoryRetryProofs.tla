-------------------------- MODULE CategoryRetryProofs --------------------------
(* How far the retry counter can pass its limit, for any number of categories, *)
(* requests and tasks.                                                         *)
EXTENDS CategoryRetry, FiniteSetTheorems, TLAPS

\* The requests for c that the counter let through and that have not yet counted.
Pending(c) ==
  {r \in Requests : /\ request[r].pc = "checked"
                    /\ request[r].cat = c
                    /\ ~request[r].force /\ ~request[r].blind}

\* Types but for the upper bounds of the counter and of the retries started,
\* which are the other half of the invariant.
Types ==
  /\ request \in [Requests -> RequestType]
  /\ task \in [Tasks -> TaskType]
  /\ count \in [Categories -> Nat]
  /\ failed \in SUBSET Categories
  /\ status \in [Categories -> Statuses]
  /\ stored \in [Categories -> SUBSET Generations]
  /\ index \in [Categories -> SUBSET Generations]
  /\ succeeded \in SUBSET Categories
  /\ started \in [Categories -> Nat]
  /\ excused \in [Categories -> 0..MaxExcused]

\* The counter has counted every started retry that is not excused, so a request
\* that it let through saw fewer of these than the limit; the ones that may still
\* start are set aside for.
Reserved ==
  \A c \in Categories :
    /\ started[c] <= count[c] + excused[c]
    /\ count[c] <= started[c]
    /\ started[c] + Cardinality(Pending(c))
         <= MaxRetry - 1 + Cardinality(Requests) + excused[c]

Inv == Types /\ Reserved

LEMMA PendingCount ==
  ASSUME NEW c
  PROVE  /\ IsFiniteSet(Pending(c)) /\ Cardinality(Pending(c)) \in Nat
         /\ Cardinality(Pending(c)) <= Cardinality(Requests)
         /\ Cardinality(Requests) \in Nat
PROOF
<1>1. Pending(c) \in SUBSET Requests
  BY DEF Pending
<1> QED BY <1>1, FiniteAssumption, FS_Subset, FS_CardinalityType

LEMMA PendingCountNext ==
  ASSUME NEW c
  PROVE  /\ IsFiniteSet(Pending(c)') /\ Cardinality(Pending(c)') \in Nat
         /\ Cardinality(Pending(c)') <= Cardinality(Requests)
PROOF
<1>1. Pending(c)' \in SUBSET Requests
  BY DEF Pending
<1> QED BY <1>1, FiniteAssumption, FS_Subset, FS_CardinalityType

LEMMA InitInv == Init => Inv
PROOF
<1> SUFFICES ASSUME Init PROVE Inv
  OBVIOUS
<1>1. Types
  BY RetryAssumption
     DEF Init, Types, RequestType, TaskType, IdleRequest, IdleTask, Statuses, Generations
<1>2. ASSUME NEW c \in Categories
      PROVE  /\ started[c] <= count[c] + excused[c] /\ count[c] <= started[c]
             /\ started[c] + Cardinality(Pending(c))
                  <= MaxRetry - 1 + Cardinality(Requests) + excused[c]
  BY PendingCount, RetryAssumption DEF Init
<1> QED BY <1>1, <1>2 DEF Inv, Reserved

\* Steps that neither count nor let a request through keep the reserve.
LEMMA ReservedKept ==
  ASSUME Types, Reserved, UNCHANGED <<count, started, excused>>,
         \A c \in Categories : Pending(c)' \subseteq Pending(c)
  PROVE  Reserved'
PROOF
<1>1. ASSUME NEW c \in Categories
      PROVE  Cardinality(Pending(c)') <= Cardinality(Pending(c))
  BY PendingCount, FS_Subset
<1>2. ASSUME NEW c \in Categories
      PROVE  /\ started'[c] <= count'[c] + excused'[c] /\ count'[c] <= started'[c]
             /\ started'[c] + Cardinality(Pending(c)')
                  <= MaxRetry - 1 + Cardinality(Requests) + excused'[c]
  <2>1. /\ count[c] \in Nat /\ started[c] \in Nat /\ excused[c] \in Nat
        /\ MaxRetry \in Nat
    BY RetryAssumption DEF Types
  <2> QED BY <2>1, <1>1, PendingCount, PendingCountNext DEF Reserved
<1> QED BY <1>2 DEF Reserved

LEMMA CheckLimitStep ==
  ASSUME Inv, NEW r \in Requests, NEW c \in Categories, NEW force \in BOOLEAN,
         CheckLimit(r, c, force)
  PROVE  Inv'
PROOF
<1>0. PICK reading \in Readings(c) :
        request' = [request EXCEPT ![r] =
          IF reading.n < MaxRetry \/ force
          THEN [pc |-> "checked", cat |-> c, force |-> force, blind |-> reading.blind]
          ELSE IdleRequest]
  BY DEF CheckLimit
<1>9. reading.blind \in BOOLEAN /\ (~reading.blind => reading.n = count[c])
  <2>1. CASE reading = [n |-> count[c], blind |-> FALSE]
    <3>1. reading.n = count[c] /\ reading.blind = FALSE BY <2>1
    <3> QED BY <3>1, Zenon
  <2>2. CASE reading = [n |-> 0, blind |-> TRUE]
    <3>1. reading.blind = TRUE BY <2>2
    <3> QED BY <3>1, Zenon
  <2> QED BY <2>1, <2>2, Zenon DEF Readings
<1> DEFINE new == IF reading.n < MaxRetry \/ force
                  THEN [pc |-> "checked", cat |-> c, force |-> force, blind |-> reading.blind]
                  ELSE IdleRequest
<1>1. new \in RequestType
  BY <1>9 DEF RequestType, IdleRequest
<1>2. /\ request' = [request EXCEPT ![r] = new]
      /\ request \in [Requests -> RequestType]
      /\ UNCHANGED <<task, status, count, failed, stored, index, succeeded, started, excused>>
  BY <1>0 DEF CheckLimit, Inv, Types, redisVars, storeVars, history
<1>3. Types'
  BY <1>1, <1>2 DEF Inv, Types
<1>4. ASSUME NEW d \in Categories
      PROVE  /\ started'[d] <= count'[d] + excused'[d] /\ count'[d] <= started'[d]
             /\ started'[d] + Cardinality(Pending(d)')
                  <= MaxRetry - 1 + Cardinality(Requests) + excused'[d]
  <2>1. /\ count[d] \in Nat /\ started[d] \in Nat /\ excused[d] \in Nat
        /\ MaxRetry \in Nat
    BY RetryAssumption DEF Inv, Types
  <2>2. CASE d = c /\ count[c] < MaxRetry
    BY <1>2, <2>1, <2>2, PendingCount, PendingCountNext DEF Inv, Reserved
  <2>3. CASE ~(d = c /\ count[c] < MaxRetry)
    <3>1. Pending(d)' \subseteq Pending(d)
      BY <1>2, <1>9, <2>3 DEF Pending, IdleRequest
    <3>2. Cardinality(Pending(d)') <= Cardinality(Pending(d))
      BY <3>1, PendingCount, FS_Subset
    <3> QED BY <1>2, <2>1, <3>2, PendingCount, PendingCountNext DEF Inv, Reserved
  <2> QED BY <2>2, <2>3
<1> QED BY <1>3, <1>4 DEF Inv, Reserved

LEMMA AcceptStep ==
  ASSUME Inv, NEW r \in Requests, Accept(r)
  PROVE  Inv'
PROOF
<1> DEFINE c == request[r].cat
<1>0. PICK counted \in BOOLEAN :
        LET excuse == IF request[r].force \/ request[r].blind \/ ~counted THEN 1 ELSE 0
        IN  /\ excused[c] + excuse <= MaxExcused
            /\ count' = IF counted THEN [count EXCEPT ![c] = @ + 1] ELSE count
            /\ started' = [started EXCEPT ![c] = @ + 1]
            /\ excused' = [excused EXCEPT ![c] = @ + excuse]
  BY DEF Accept
<1> DEFINE spared == request[r].force \/ request[r].blind \/ ~counted
           excuse == IF spared THEN 1 ELSE 0
<1>1. /\ c \in Categories /\ request[r].force \in BOOLEAN
      /\ request[r].pc = "checked"
      /\ request' \in {[request EXCEPT ![r] = IdleRequest],
                       [request EXCEPT ![r] = [pc |-> "error"]]}
      /\ UNCHANGED <<failed, status, succeeded, stored, index>>
  BY DEF Accept, Inv, Types, RequestType, storeVars
<1>2. /\ excused[c] + excuse <= MaxExcused /\ excuse \in {0, 1}
      /\ count' = IF counted THEN [count EXCEPT ![c] = @ + 1] ELSE count
      /\ started' = [started EXCEPT ![c] = @ + 1]
      /\ excused' = [excused EXCEPT ![c] = @ + excuse]
  BY <1>0
<1>3. Types'
  <2>1. request' \in [Requests -> RequestType]
    BY <1>1 DEF Inv, Types, RequestType, IdleRequest
  <2>2. task' \in [Tasks -> TaskType]
    <3>1. NewTask(r) \in TaskType
      BY <1>1, RetryAssumption DEF NewTask, TaskType
    <3> QED BY <3>1 DEF Accept, Inv, Types
  <2>3. count' \in [Categories -> Nat] /\ started' \in [Categories -> Nat]
    BY <1>1, <1>2 DEF Inv, Types
  <2>4. excused' \in [Categories -> 0..MaxExcused]
    <3>1. excused[c] + excuse \in 0..MaxExcused
      BY <1>1, <1>2, RetryAssumption DEF Inv, Types
    <3> HIDE DEF excuse
    <3> QED BY <1>1, <1>2, <3>1 DEF Inv, Types
  <2> QED BY <1>1, <2>1, <2>2, <2>3, <2>4 DEF Inv, Types
<1>4. ASSUME NEW d \in Categories
      PROVE  /\ started'[d] <= count'[d] + excused'[d] /\ count'[d] <= started'[d]
             /\ started'[d] + Cardinality(Pending(d)')
                  <= MaxRetry - 1 + Cardinality(Requests) + excused'[d]
  <2>1. /\ count[d] \in Nat /\ started[d] \in Nat /\ excused[d] \in Nat
        /\ MaxRetry \in Nat
    BY RetryAssumption DEF Inv, Types
  <2>2. Pending(d)' \subseteq Pending(d)
    BY <1>1 DEF Pending, IdleRequest, Inv, Types
  <2>3. Cardinality(Pending(d)') <= Cardinality(Pending(d))
    BY <2>2, PendingCount, FS_Subset
  <2>4. CASE d # c
    <3>1. count'[d] = count[d] /\ started'[d] = started[d] /\ excused'[d] = excused[d]
      BY <1>1, <1>2, <2>4 DEF Inv, Types
    <3> QED BY <2>1, <2>3, <3>1, PendingCount, PendingCountNext DEF Inv, Reserved
  <2>5. CASE d = c /\ spared
    <3>1. /\ count'[d] = (IF counted THEN count[d] + 1 ELSE count[d])
          /\ started'[d] = started[d] + 1 /\ excused'[d] = excused[d] + 1
      BY <1>1, <1>2, <2>5 DEF Inv, Types
    <3> QED BY <2>1, <2>3, <3>1, PendingCount, PendingCountNext DEF Inv, Reserved
  <2>6. CASE d = c /\ ~spared
    <3>1. /\ count'[d] = count[d] + 1 /\ started'[d] = started[d] + 1
          /\ excused'[d] = excused[d]
      BY <1>1, <1>2, <2>6 DEF Inv, Types
    <3>2. r \in Pending(d)
      BY <1>1, <2>6 DEF Pending
    <3>3. Pending(d)' \subseteq Pending(d) \ {r}
      BY <1>1, <2>2 DEF Pending, IdleRequest, Inv, Types
    <3>4. /\ IsFiniteSet(Pending(d) \ {r})
          /\ Cardinality(Pending(d) \ {r}) = Cardinality(Pending(d)) - 1
      BY <3>2, PendingCount, FS_RemoveElement
    <3>5. Cardinality(Pending(d)') <= Cardinality(Pending(d)) - 1
      BY <3>3, <3>4, FS_Subset
    <3> QED BY <2>1, <3>1, <3>5, PendingCount, PendingCountNext DEF Inv, Reserved
  <2> QED BY <2>4, <2>5, <2>6, <1>1
<1> QED BY <1>3, <1>4 DEF Inv, Reserved

LEMMA ExpireStep ==
  ASSUME Inv, CountersExpire
  PROVE  Inv'
PROOF
<1>1. Types'
  BY RetryAssumption DEF CountersExpire, Inv, Types, storeVars
<1>2. ASSUME NEW c \in Categories
      PROVE  /\ started'[c] <= count'[c] + excused'[c] /\ count'[c] <= started'[c]
             /\ started'[c] + Cardinality(Pending(c)')
                  <= MaxRetry - 1 + Cardinality(Requests) + excused'[c]
  <2>1. count'[c] = 0 /\ started'[c] = 0 /\ excused'[c] = 0
    BY DEF CountersExpire
  <2> QED BY <2>1, PendingCountNext, PendingCount, RetryAssumption
<1> QED BY <1>1, <1>2 DEF Inv, Reserved

\* The tasks touch neither the requests nor the counters.
LEMMA TaskStepKeeps ==
  ASSUME Inv, NEW t \in Tasks, TaskStep(t)
  PROVE  Inv'
PROOF
<1> USE DEF Go, End, redisVars, storeVars, history
<1>1. UNCHANGED <<request, count, started, excused>>
  BY DEF TaskStep, StopSkipped, Clean, RunGraph, Store, ReportStatus, Close, Rerun, Abort
<1>2. Reserved'
  BY <1>1, ReservedKept DEF Inv, Pending
<1>3. task[t] \in TaskType /\ IdleTask \in TaskType
  BY DEF Inv, Types, TaskType
<1>4. task[t].pc # "idle" => task[t] \in TaskType \ {IdleTask}
  BY <1>3 DEF IdleTask
<1>5. Types'
  <2>1. CASE StopSkipped(t) \/ Close(t) \/ Abort(t)
    BY <2>1, <1>1, <1>3 DEF StopSkipped, Close, Abort, Inv, Types
  <2>2. CASE Clean(t)
    <3>1. \/ task' = [task EXCEPT ![t].pc = "run"]
          \/ task' = [task EXCEPT ![t].pc = "run", ![t].removed = TRUE]
      BY <2>2 DEF Clean
    <3>2. task[t].pc = "queued" /\ task[t].cat \in Categories
      BY <2>2, <1>3 DEF Clean, TaskType, IdleTask
    <3>3. task' \in [Tasks -> TaskType]
      <4>1. CASE task' = [task EXCEPT ![t].pc = "run"]
        BY <4>1, <3>2, <1>3 DEF Inv, Types, TaskType, IdleTask
      <4>2. CASE task' = [task EXCEPT ![t].pc = "run", ![t].removed = TRUE]
        BY <4>2, <3>2, <1>3, <1>4 DEF Inv, Types, TaskType, IdleTask
      <4> QED BY <3>1, <4>1, <4>2
    <3>4. index' \in [Categories -> SUBSET Generations]
      BY <2>2, <3>2 DEF Clean, Inv, Types
    <3> QED BY <2>2, <1>1, <3>3, <3>4 DEF Clean, Inv, Types
  <2>3. CASE RunGraph(t)
    <3>1. PICK result \in {"points", "empty", "failed"} :
            /\ task' = [task EXCEPT ![t].pc = "store", ![t].result = result]
            /\ failed' \in {failed} \cup
                 (IF result = "failed" THEN {failed \cup {task[t].cat}} ELSE {})
      BY <2>3 DEF RunGraph
    <3>2. task[t].pc = "run" /\ task[t].cat \in Categories
      BY <2>3, <1>3 DEF RunGraph, TaskType, IdleTask
    <3>3. task' \in [Tasks -> TaskType]
      BY <3>1, <3>2, <1>3, <1>4 DEF Inv, Types, TaskType, IdleTask
    <3>4. failed' \in SUBSET Categories
      BY <3>1, <3>2 DEF Inv, Types
    <3> QED BY <2>3, <1>1, <3>3, <3>4 DEF RunGraph, Inv, Types
  <2>4. CASE Store(t)
    <3>1. task[t].pc = "store" /\ task[t].cat \in Categories
      BY <2>4, <1>3 DEF Store, TaskType, IdleTask
    <3>2. task' \in [Tasks -> TaskType]
      BY <2>4, <3>1, <1>3 DEF Store, Inv, Types, TaskType, IdleTask
    <3>3. index' \in [Categories -> SUBSET Generations]
      <4>1. \A c \in Categories : index[c] \cup {"new"} \in SUBSET Generations
        BY DEF Inv, Types, Generations
      <4>2. \/ index' = index
            \/ index' = [index EXCEPT ![task[t].cat] = @ \cup {"new"}]
        BY <2>4 DEF Store
      <4> QED BY <3>1, <4>1, <4>2 DEF Inv, Types
    <3> QED BY <2>4, <1>1, <3>2, <3>3 DEF Store, Inv, Types
  <2>5. CASE ReportStatus(t)
    <3>1. task[t].pc = "report" /\ task[t].cat \in Categories
      BY <2>5, <1>3 DEF ReportStatus, TaskType, IdleTask
    <3>2. task' \in [Tasks -> TaskType]
      BY <2>5, <3>1, <1>3 DEF ReportStatus, Inv, Types, TaskType, IdleTask
    <3>3. status' \in [Categories -> Statuses]
      BY <2>5 DEF ReportStatus, NewStatus, Inv, Types, Statuses
    <3>4. failed' \in SUBSET Categories /\ succeeded' \in SUBSET Categories
      BY <2>5, <3>1 DEF ReportStatus, Inv, Types
    <3> QED BY <2>5, <1>1, <3>2, <3>3, <3>4 DEF ReportStatus, Inv, Types
  <2>6. CASE Rerun(t)
    <3>1. task[t].reruns < MaxReruns /\ task[t] \in TaskType \ {IdleTask}
      BY <2>6, <1>4 DEF Rerun
    <3>2. task[t].reruns + 1 \in 0..MaxReruns
      BY <3>1, RetryAssumption DEF TaskType
    <3>3. task' \in [Tasks -> TaskType]
      BY <2>6, <3>1, <3>2, <1>3 DEF Rerun, Inv, Types, TaskType, IdleTask
    <3> QED BY <2>6, <1>1, <3>3 DEF Rerun, Inv, Types
  <2> QED BY <2>1, <2>2, <2>3, <2>4, <2>5, <2>6 DEF TaskStep
<1> QED BY <1>2, <1>5 DEF Inv

LEMMA NextInv == Inv /\ [Next]_vars => Inv'
PROOF
<1> SUFFICES ASSUME Inv, [Next]_vars PROVE Inv'
  OBVIOUS
<1>1. ASSUME NEW r \in Requests, NEW c \in Categories, NEW force \in BOOLEAN,
             CheckLimit(r, c, force)
      PROVE  Inv'
  BY <1>1, CheckLimitStep
<1>2. ASSUME NEW r \in Requests, Skip(r) \/ QueryFails(r) PROVE Inv'
  <2>1. /\ request' = [request EXCEPT ![r] = IdleRequest]
        /\ UNCHANGED <<task, status, count, failed, stored, index, succeeded, started, excused>>
    BY <1>2 DEF Skip, QueryFails, redisVars, storeVars, history
  <2>2. Types'
    BY <2>1 DEF Inv, Types, RequestType, IdleRequest
  <2>3. \A c \in Categories : Pending(c)' \subseteq Pending(c)
    BY <2>1 DEF Pending, IdleRequest, Inv, Types
  <2> QED BY <2>1, <2>2, <2>3, ReservedKept DEF Inv
<1>3. ASSUME NEW r \in Requests, Accept(r) PROVE Inv'
  BY <1>3, AcceptStep
<1>4. CASE CountersExpire
  BY <1>4, ExpireStep
<1>5. ASSUME NEW t \in Tasks, TaskStep(t) PROVE Inv'
  BY <1>5, TaskStepKeeps
<1>6. CASE UNCHANGED vars
  <2>1. Types' /\ UNCHANGED <<count, started, excused>>
    BY <1>6 DEF Inv, Types, vars
  <2>2. \A c \in Categories : Pending(c)' \subseteq Pending(c)
    BY <1>6 DEF Pending, vars
  <2> QED BY <2>1, <2>2, ReservedKept DEF Inv
<1> QED BY <1>1, <1>2, <1>3, <1>4, <1>5, <1>6 DEF Next

LEMMA InvBounds == Inv => OvershootBounded /\ TypeOK
PROOF
<1> SUFFICES ASSUME Inv PROVE OvershootBounded /\ TypeOK
  OBVIOUS
<1>1. ASSUME NEW c \in Categories
      PROVE  /\ started[c] <= MaxRetry + Cardinality(Requests) - 1 + excused[c]
             /\ count[c] \in 0..MaxCount /\ started[c] \in 0..MaxCount
  <2>1. count[c] \in Nat /\ started[c] \in Nat /\ excused[c] \in 0..MaxExcused
    BY DEF Inv, Types
  <2>2. /\ count[c] <= started[c]
        /\ started[c] + Cardinality(Pending(c))
             <= MaxRetry - 1 + Cardinality(Requests) + excused[c]
    BY DEF Inv, Reserved
  <2> QED BY <2>1, <2>2, PendingCount, RetryAssumption DEF MaxCount
<1>2. count \in [Categories -> 0..MaxCount] /\ started \in [Categories -> 0..MaxCount]
  BY <1>1 DEF Inv, Types
<1> QED BY <1>1, <1>2 DEF OvershootBounded, TypeOK, Inv, Types

-----------------------------------------------------------------------------
\* Every state keeps its types; a task is run again at most max_retries times
\* (tasks/retry_tasks.py).
THEOREM TypeCorrect == Spec => []TypeOK
PROOF BY InitInv, NextInv, InvBounds, PTL DEF Spec

\* The retries started for a category pass MAX_RETRY_ATTEMPTS by less than the
\* number of requests in flight, those aside that were forced or found Redis
\* failing, however the requests interleave (_do_retry of api/retry.py).
THEOREM OvershootIsBounded == Spec => []OvershootBounded
PROOF BY InitInv, NextInv, InvBounds, PTL DEF Spec
===============================================================================
