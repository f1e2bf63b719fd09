----------------------------- MODULE TokenBucket -----------------------------
(***************************************************************************)
(* The Redis token bucket that limits the rate of LLM calls.  A caller     *)
(* reads its clock, then has Redis run one Lua script, atomically, on that *)
(* reading: between the two the scripts of other callers may run, on later *)
(* readings.                                                               *)
(*                                                                         *)
(* Fractions of a token are counted in units: a call costs Cost units and  *)
(* a tick of the clock brings Rate units.  `ideal` is not in the code: it  *)
(* is a bucket filled at every tick, and once more for every time that a   *)
(* late reading makes the script count again, from which the same calls    *)
(* have been granted.                                                      *)
(***************************************************************************)
EXTENDS Integers

CONSTANTS
  Callers,   \* the processes that make LLM calls
  Rate,      \* rate_limit_qps, in units per tick
  Cost,      \* one token, in units
  Burst,     \* burst_size, in units
  TTL,       \* the script's EXPIRE, in ticks
  MaxDelay,  \* the longest time from a reading to its script, in ticks
  MaxTime    \* bound: ticks of the clock

ASSUME BucketAssumption ==
  /\ Rate \in Nat /\ Cost \in Nat \ {0} /\ Burst \in Nat /\ Burst >= Cost
  /\ TTL \in Nat \ {0} /\ MaxDelay \in Nat /\ MaxTime \in Nat

\* What a caller may find at most, and what a late reading leaves to come.
Capacity == Burst + MaxDelay * Rate

\* A bucket left alone until it expires would have been full by then.
ASSUME ExpiresFull == TTL * Rate >= Capacity

VARIABLES
  now,      \* the clock
  reading,  \* reading[c]: the time c has read and not yet used
  exists,   \* whether the hash rate_limit:bucket:llm_global exists
  tokens,   \* its field tokens
  last,     \* its field last_refresh
  ttl,      \* ticks until the hash expires
  ideal     \* the bucket filled at every tick

hash == <<exists, tokens, last, ttl>>
bucketVars == <<now, reading, exists, tokens, last, ttl, ideal>>

NoReading == -1

AtMost(limit, n) == IF n > limit THEN limit ELSE n

\* Type invariant: the bucket never holds more than the burst, and never a
\* refresh time of the future.
BucketTypeOK ==
  /\ now \in 0..MaxTime /\ reading \in [Callers -> NoReading..now]
  /\ exists \in BOOLEAN /\ tokens \in 0..Burst
  /\ last \in 0..now /\ ttl \in 0..TTL /\ ideal \in Int /\ ideal <= Capacity

BucketInit ==
  /\ now = 0 /\ reading = [c \in Callers |-> NoReading]
  /\ exists = FALSE /\ tokens = 0 /\ last = 0 /\ ttl = 0
  /\ ideal = Capacity

\* now = datetime.now(UTC).timestamp(), before the script is sent.
ReadClock(c) ==
  /\ reading[c] = NoReading
  /\ reading' = [reading EXCEPT ![c] = now]
  /\ UNCHANGED <<now, hash, ideal>>

\* math.max(0, now - last_refresh) of a script that runs on reading r.
Elapsed(r) == IF r > last THEN r - last ELSE 0

\* What the script finds in the bucket: an absent hash is a full bucket.
Available(r) ==
  IF exists THEN AtMost(Burst, tokens + Elapsed(r) * Rate) ELSE Burst

\* What a reading older than last_refresh, once stored, brings again.
Again(r) == IF exists /\ r < last THEN (last - r) * Rate ELSE 0

Refilled(r) == AtMost(Capacity, ideal + Again(r))

Used(c) == reading' = [reading EXCEPT ![c] = NoReading]

\* Mutant of Grant: last_refresh does not move.
GrantKeepingRefresh(c) ==
  LET r == reading[c] IN
  /\ r # NoReading /\ Available(r) >= Cost
  /\ exists' = TRUE /\ tokens' = Available(r) - Cost /\ ttl' = TTL
  /\ last' = IF exists THEN last ELSE r
  /\ ideal' = Refilled(r) - Cost
  /\ Used(c) /\ UNCHANGED now

\* A token is taken and the hash lives for another TTL.  last_refresh becomes
\* the reading, also when that is older.
Grant(c) ==
  LET r == reading[c] IN
  /\ r # NoReading /\ Available(r) >= Cost
  /\ exists' = TRUE /\ tokens' = Available(r) - Cost /\ last' = r /\ ttl' = TTL
  /\ ideal' = Refilled(r) - Cost
  /\ Used(c) /\ UNCHANGED now

\* Less than a token: last_refresh becomes the reading, what has accrued since
\* the previous one is not stored, and the hash expires when it would have.
Deny(c) ==
  LET r == reading[c] IN
  /\ r # NoReading /\ Available(r) < Cost
  /\ last' = r
  /\ ideal' = Refilled(r)
  /\ Used(c) /\ UNCHANGED <<now, exists, tokens, ttl>>

\* Redis does not run the script, and the call goes through without a token.
\* (When only the reply is lost, the script ran: Grant or Deny.)
LetThrough(c) ==
  /\ reading[c] # NoReading
  /\ Used(c) /\ UNCHANGED <<now, hash, ideal>>

\* No reading grows older than MaxDelay.
Tick ==
  /\ now < MaxTime /\ now' = now + 1
  /\ \A c \in Callers : reading[c] # NoReading => now - reading[c] < MaxDelay
  /\ ideal' = AtMost(Capacity, ideal + Rate)
  /\ IF exists /\ ttl > 1 THEN ttl' = ttl - 1 /\ UNCHANGED <<exists, tokens, last>>
     ELSE ttl' = 0 /\ exists' = FALSE /\ tokens' = 0 /\ last' = 0
  /\ UNCHANGED reading

BucketNext ==
  \/ \E c \in Callers : ReadClock(c) \/ Grant(c) \/ Deny(c) \/ LetThrough(c)
  \/ Tick

BucketSpec == BucketInit /\ [][BucketNext]_bucketVars

----------------------------------------------------------------------------

\* Over any time the script grants no more tokens than a full bucket, the rate
\* and the time that late readings made it count again allow, also across the
\* expiry of the hash: the ideal bucket is never overdrawn.  With MaxDelay = 0
\* that is the burst and the rate alone.
RateRespected == ideal >= 0

\* "tokens are refilled at the rate of the QPS": a caller is denied only if
\* less than one token has been filled in.
DeniedOnlyWhenEmpty ==
  [][\A c \in Callers : Deny(c) => ideal < Cost]_bucketVars
=============================================================================
