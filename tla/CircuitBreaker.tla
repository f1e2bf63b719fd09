--------------------------- MODULE CircuitBreaker ---------------------------
(***************************************************************************)
(* LLM calls behind the circuit breaker of LLMLimiter: each process keeps  *)
(* a breaker in memory and shares it with the others through a Redis hash. *)
(*                                                                         *)
(* Every call overwrites the memory with what it reads from Redis, without *)
(* the lock that the other operations hold; record_success and             *)
(* record_failure hold it while they write to Redis.  A step ends at an    *)
(* await.  Time is reduced to whether the breaker's timeout has passed     *)
(* since the last failure; the token bucket is TokenBucket's subject, here *)
(* it grants or denies at will.                                            *)
(***************************************************************************)
EXTENDS Naturals

CONSTANTS
  Proc,          \* processes that use the limiter
  Call,          \* bound: LLM calls
  Home,          \* the process of each call
  NoCall,        \* "the lock is free"
  NoRecord,      \* "the hash does not exist"
  Threshold,     \* circuit_breaker_threshold
  MaxRetries,    \* max_retries of _acompletion_with_retry
  RedisMayFail   \* whether breaker reads and writes can fail

ASSUME ConstantsAssumption ==
  /\ Home \in [Call -> Proc] /\ NoCall \notin Call
  /\ Threshold \in Nat \ {0} /\ MaxRetries \in Nat /\ RedisMayFail \in BOOLEAN

VARIABLES
  local,    \* the breaker in each process's memory
  shared,   \* the hash circuit_breaker:llm_global
  lock,     \* who holds each process's asyncio.Lock
  pc,       \* where each call is
  buf,      \* the record a call has read, or is about to write
  attempt,  \* retries of each call so far
  streak    \* failures recorded since the last recorded success

vars == <<local, shared, lock, pc, buf, attempt, streak>>

\* Failures beyond this are counted as this many.
MaxCount == Threshold + 1
Plus1(n) == IF n < MaxCount THEN n + 1 ELSE n

State == {"closed", "open", "half_open"}
Breaker == [state : State, count : 0..MaxCount, cold : BOOLEAN]
ASSUME NoRecordAssumption == NoRecord \notin Breaker

Fresh == [state |-> "closed", count |-> 0, cold |-> TRUE]

Steps == {"load", "loaded", "check", "token", "calling", "succeeded", "failed",
          "writeS", "writeF", "done", "gaveUp"}

\* Type invariant: a call makes at most MaxRetries further attempts.
TypeOK ==
  /\ local \in [Proc -> Breaker] /\ shared \in Breaker \cup {NoRecord}
  /\ lock \in [Proc -> Call \cup {NoCall}] /\ pc \in [Call -> Steps]
  /\ buf \in [Call -> Breaker \cup {NoRecord}]
  /\ attempt \in [Call -> 0..MaxRetries] /\ streak \in 0..MaxCount

Init ==
  /\ local = [p \in Proc |-> Fresh] /\ shared = NoRecord
  /\ lock = [p \in Proc |-> NoCall] /\ pc = [c \in Call |-> "load"]
  /\ buf = [c \in Call |-> NoRecord] /\ attempt = [c \in Call |-> 0] /\ streak = 0

Go(c, from, to) == pc[c] = from /\ pc' = [pc EXCEPT ![c] = to]
LockFree(c) == lock[Home[c]] = NoCall

----------------------------------------------------------------------------
(* acquire(skip_bucket=True): load the hash, then check. *)

ReadShared(c) ==
  /\ Go(c, "load", "loaded")
  /\ \/ buf' = [buf EXCEPT ![c] = shared]
     \/ RedisMayFail /\ buf' = [buf EXCEPT ![c] = NoRecord]
  /\ UNCHANGED <<local, shared, lock, attempt, streak>>

\* An absent hash or a failed read leaves the memory as it is.
Loaded(c) == IF buf[c] = NoRecord THEN local[Home[c]] ELSE buf[c]

\* _check_circuit_with_backoff: once the timeout has passed the breaker is
\* half open.  Within the timeout it returns the remaining seconds as an
\* int, which acquire's isinstance(backoff, float) does not recognise: the
\* call goes on whatever the state is.
AfterCheck(b) ==
  IF b.state = "open" /\ b.cold THEN [b EXCEPT !.state = "half_open"] ELSE b

\* The memory is overwritten without the lock; the check waits for it.
LoadAndCheck(c) ==
  /\ LockFree(c) /\ Go(c, "loaded", "token")
  /\ local' = [local EXCEPT ![Home[c]] = AfterCheck(Loaded(c))]
  /\ UNCHANGED <<shared, lock, buf, attempt, streak>>

LoadOnly(c) ==
  /\ ~LockFree(c) /\ Go(c, "loaded", "check")
  /\ local' = [local EXCEPT ![Home[c]] = Loaded(c)]
  /\ UNCHANGED <<shared, lock, buf, attempt, streak>>

Check(c) ==
  /\ LockFree(c) /\ Go(c, "check", "token")
  /\ local' = [local EXCEPT ![Home[c]] = AfterCheck(@)]
  /\ UNCHANGED <<shared, lock, buf, attempt, streak>>

----------------------------------------------------------------------------
(* The second phase: a token, the call, and the record of its result.      *)

Granted(c) ==
  /\ Go(c, "token", "calling")
  /\ UNCHANGED <<local, shared, lock, buf, attempt, streak>>

\* Sleep and try again, from the token on; or give up.
Retry(c, from) ==
  IF attempt[c] < MaxRetries
  THEN Go(c, from, "token") /\ attempt' = [attempt EXCEPT ![c] = @ + 1]
  ELSE Go(c, from, "gaveUp") /\ UNCHANGED attempt

Denied(c) ==
  /\ Retry(c, "token")
  /\ UNCHANGED <<local, shared, lock, buf, streak>>

\* RateLimitError and InternalServerError are failures; any other exception
\* leaves the breaker alone.
Answer(c) ==
  /\ \E result \in {"succeeded", "failed", "gaveUp"} : Go(c, "calling", result)
  /\ UNCHANGED <<local, shared, lock, buf, attempt, streak>>

\* Mutant of RecordSuccess: an open breaker is closed too.
RecordSuccessAlways(c) ==
  /\ LockFree(c) /\ streak' = 0
  /\ Go(c, "succeeded", "writeS")
  /\ local' = [local EXCEPT ![Home[c]] = [@ EXCEPT !.count = 0, !.cold = TRUE]]
  /\ buf' = [buf EXCEPT ![c] = local'[Home[c]]]
  /\ lock' = [lock EXCEPT ![Home[c]] = c]
  /\ UNCHANGED <<shared, attempt>>

\* An open breaker is left alone.  What is sent to Redis is the memory at
\* this point: nothing is awaited before the write.
RecordSuccess(c) ==
  /\ LockFree(c) /\ streak' = 0
  /\ IF local[Home[c]].state = "open"
     THEN Go(c, "succeeded", "done") /\ UNCHANGED <<local, buf, lock>>
     ELSE /\ Go(c, "succeeded", "writeS")
          /\ local' = [local EXCEPT ![Home[c]] = Fresh]
          /\ buf' = [buf EXCEPT ![c] = Fresh]
          /\ lock' = [lock EXCEPT ![Home[c]] = c]
  /\ UNCHANGED <<shared, attempt>>

RecordFailure(c) ==
  /\ LockFree(c) /\ Go(c, "failed", "writeF")
  /\ local' = [local EXCEPT ![Home[c]] =
       [state |-> IF Plus1(@.count) >= Threshold THEN "open" ELSE @.state,
        count |-> Plus1(@.count), cold |-> FALSE]]
  /\ lock' = [lock EXCEPT ![Home[c]] = c]
  /\ buf' = [buf EXCEPT ![c] = local'[Home[c]]]
  /\ streak' = Plus1(streak)
  /\ UNCHANGED <<shared, attempt>>

\* Mutant of Write: the lock is kept when the write fails.
WriteLocked(c) ==
  /\ pc[c] \in {"writeS", "writeF"}
  /\ \/ shared' = buf[c] /\ lock' = [lock EXCEPT ![Home[c]] = NoCall]
     \/ RedisMayFail /\ UNCHANGED <<shared, lock>>
  /\ IF pc[c] = "writeS" THEN Go(c, "writeS", "done") /\ UNCHANGED attempt
                         ELSE Retry(c, "writeF")
  /\ UNCHANGED <<local, buf, streak>>

\* The hash is written, the lock released and the call returns or retries.
Write(c) ==
  /\ pc[c] \in {"writeS", "writeF"}
  /\ \/ shared' = buf[c]
     \/ RedisMayFail /\ UNCHANGED shared
  /\ lock' = [lock EXCEPT ![Home[c]] = NoCall]
  /\ IF pc[c] = "writeS" THEN Go(c, "writeS", "done") /\ UNCHANGED attempt
                         ELSE Retry(c, "writeF")
  /\ UNCHANGED <<local, buf, streak>>

----------------------------------------------------------------------------

Cooled(b) == IF b = NoRecord THEN b ELSE [b EXCEPT !.cold = TRUE]

\* The timeout passes without a failure anywhere.
CoolDown ==
  /\ local' = [p \in Proc |-> Cooled(local[p])] /\ shared' = Cooled(shared)
  /\ buf' = [c \in Call |-> Cooled(buf[c])]
  /\ UNCHANGED <<lock, pc, attempt, streak>>

\* The hash expires an hour after the last write.
SharedExpires ==
  /\ shared # NoRecord /\ shared.cold /\ shared' = NoRecord
  /\ UNCHANGED <<local, lock, pc, buf, attempt, streak>>

CallStep(c) ==
  \/ ReadShared(c) \/ LoadAndCheck(c) \/ LoadOnly(c) \/ Check(c)
  \/ Granted(c) \/ Denied(c) \/ Answer(c)
  \/ RecordSuccess(c) \/ RecordFailure(c) \/ Write(c)

AllEnded == \A c \in Call : pc[c] \in {"done", "gaveUp"}

Next ==
  \/ \E c \in Call : CallStep(c)
  \/ CoolDown
  \/ SharedExpires

Spec == Init /\ [][Next]_vars

\* Sleeps end, Redis and the model answer, and the lock is handed on.
FairSpec == Spec /\ \A c \in Call : WF_vars(CallStep(c))

----------------------------------------------------------------------------

\* A breaker is closed exactly when it has counted fewer failures than the
\* threshold, in every memory, in the hash and in every record in flight.
Coherent(b) == b.state = "closed" <=> b.count < Threshold
BreakersCoherent ==
  /\ \A p \in Proc : Coherent(local[p])
  /\ shared # NoRecord => Coherent(shared)
  /\ \A c \in Call : buf[c] # NoRecord => Coherent(buf[c])

\* HALF_OPEN is one process's own: the hash never says so, because what is
\* written is never taken from a memory that a check has just changed.
HalfOpenIsLocal == shared # NoRecord => shared.state # "half_open"

\* Every call ends: nobody keeps the lock and nobody retries for ever.
CallsEnd == <>AllEnded

----------------------------------------------------------------------------
(* What the limiter's comments say. *)

\* "OPEN: requests fail fast; the call waits": a call goes on to its token
\* only through a breaker that is not within its timeout.
OpenBlocks ==
  [][\A c \in Call : pc[c] \in {"loaded", "check"} /\ pc'[c] = "token" =>
       ~(local'[Home[c]].state = "open" /\ ~local'[Home[c]].cold)]_vars

\* "threshold of consecutive failures": once that many were recorded in a
\* row and all are written, the shared breaker is open.
Written == \A c \in Call : pc[c] \notin {"writeS", "writeF"}
StreakOpens ==
  streak >= Threshold /\ Written /\ shared # NoRecord => shared.state = "open"

\* "must not reset the count and the time [of an open breaker]": the shared
\* breaker is not closed within its timeout.
OpenIsKept ==
  [][shared # NoRecord /\ shared' # NoRecord /\ shared.state = "open" /\ ~shared.cold
       => shared'.state # "closed"]_vars
=============================================================================
