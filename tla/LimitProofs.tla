------------------------------ MODULE LimitProofs ------------------------------
(***************************************************************************)
(* What the system spends: the two halves of LLMLimiter and the evaluation. *)
(*                                                                         *)
(* The token bucket, for any callers, rate, burst, delay of a reading and  *)
(* time-to-live that lets an idle bucket fill up: the script never grants  *)
(* more than the burst, the rate and the time counted again allow.         *)
(*                                                                         *)
(* The evaluation, for any cases, testers, plans, batches, limit and       *)
(* permits: the bridge begins no more analyses than its limit and skips    *)
(* none before it, a tester alone on the engine reports under its own      *)
(* configurations, and the greedy score of every result lies between half  *)
(* the best pairing and the best one.                                      *)
(*                                                                         *)
(* The circuit breaker, for any processes, calls, threshold and failures   *)
(* of Redis: no breaker ever disagrees with its failure count, and Redis   *)
(* never holds HALF_OPEN.                                                  *)
(***************************************************************************)
EXTENDS CircuitBreaker, TokenBucket, Evaluation, FiniteSets, TLAPS,
        FiniteSetTheorems, SequenceTheorems

----------------------------------------------------------------------------
(* The token bucket *)

\* What the bucket could hold at the present time, late readings included.
Held == IF exists THEN AtMost(Capacity, tokens + (now - last) * Rate) ELSE Capacity

\* The script's bucket never holds more than the ideal one, and the ideal
\* one has been filled since the grant that started the time-to-live.
BucketInv ==
  /\ BucketTypeOK
  /\ \A c \in Callers : reading[c] # NoReading => now - reading[c] <= MaxDelay
  /\ Held <= ideal
  /\ exists => ttl > 0 /\ ideal >= AtMost(Capacity, (TTL - ttl) * Rate)

LEMMA OneMore == \A n \in Int : /\ (n + 1) * Rate = n * Rate + Rate
                                /\ n \in Nat => n * Rate \in Nat
BY BucketAssumption

LEMMA Apart == \A a, b \in Int : /\ a * Rate \in Int
                                 /\ (a + b) * Rate = a * Rate + b * Rate
                                 /\ a <= b => a * Rate <= b * Rate
<1> SUFFICES ASSUME NEW a \in Int, NEW b \in Int
             PROVE  /\ a * Rate \in Int
                    /\ (a + b) * Rate = a * Rate + b * Rate
                    /\ a <= b => a * Rate <= b * Rate
  OBVIOUS
<1>1. (a + b) * Rate = a * Rate + b * Rate BY BucketAssumption
<1>2. ASSUME a <= b PROVE a * Rate <= b * Rate
  <2>1. b - a \in Nat BY <1>2
  <2>2. (b - a) * Rate \in Nat BY <2>1, OneMore
  <2>3. b * Rate = a * Rate + (b - a) * Rate BY BucketAssumption
  <2> QED BY <2>2, <2>3, BucketAssumption
<1> QED BY <1>1, <1>2, BucketAssumption

LEMMA CapacityBounds == Capacity \in Nat /\ Capacity >= Burst
BY OneMore, BucketAssumption DEF Capacity

\* What a script that runs on reading r finds, leaves behind and brings again.
LEMMA ScriptBounds ==
  ASSUME BucketInv, NEW c \in Callers, reading[c] # NoReading
  PROVE  /\ reading[c] \in 0..now
         /\ Available(reading[c]) \in 0..Burst
         /\ Again(reading[c]) \in Nat
         /\ Refilled(reading[c]) \in Int
         /\ Available(reading[c]) <= Refilled(reading[c])
         /\ Refilled(reading[c]) <= Capacity
         /\ Available(reading[c]) + (now - reading[c]) * Rate <= Refilled(reading[c])
            \/ Refilled(reading[c]) = Capacity
         /\ (now - reading[c]) * Rate \in 0..(MaxDelay * Rate)
<1> DEFINE r == reading[c]
<1> USE BucketAssumption, CapacityBounds
<1>1. r \in 0..now /\ now \in Nat /\ now - r \in Nat /\ now - r <= MaxDelay
  BY DEF BucketInv, BucketTypeOK, NoReading
<1>2. /\ last \in 0..now /\ tokens \in 0..Burst /\ exists \in BOOLEAN
      /\ ideal \in Int /\ ideal <= Capacity /\ Held <= ideal
  BY DEF BucketInv, BucketTypeOK
<1>3. (now - r) * Rate \in 0..(MaxDelay * Rate) BY <1>1, OneMore, Apart
<1>4. CASE ~exists
  <2>1. Held = Capacity BY <1>4 DEF Held
  <2>2. Available(r) = Burst /\ Again(r) = 0 BY <1>4 DEF Available, Again
  <2> HIDE DEF r
  <2>3. Refilled(r) = Capacity BY <1>2, <2>1, <2>2 DEF Refilled, AtMost
  <2> QED BY <1>1, <1>3, <2>2, <2>3 DEF r
<1>5. CASE exists /\ r < last
  <2>1. Elapsed(r) = 0 /\ Elapsed(r) * Rate = 0 BY <1>1, <1>2, <1>5 DEF Elapsed
  <2>2. Available(r) = tokens BY <1>2, <1>5, <2>1 DEF Available, AtMost
  <2>3. Again(r) = (last - r) * Rate BY <1>5 DEF Again
  <2>4. (last - r) * Rate \in Nat BY <1>1, <1>2, <1>5, OneMore
  <2>5. (now - r) * Rate = (now - last) * Rate + (last - r) * Rate
    BY <1>1, <1>2, Apart
  <2>6. (now - last) * Rate \in Nat BY <1>1, <1>2, OneMore
  <2>7. Held = AtMost(Capacity, tokens + (now - last) * Rate) BY <1>5 DEF Held
  <2> HIDE DEF r
  <2>8. Refilled(r) = AtMost(Capacity, ideal + (last - r) * Rate) BY <2>3 DEF Refilled
  <2>9. /\ tokens <= Refilled(r) /\ Refilled(r) <= Capacity /\ Refilled(r) \in Int
        /\ tokens + (now - r) * Rate <= Refilled(r) \/ Refilled(r) = Capacity
    BY <1>2, <2>4, <2>5, <2>6, <2>7, <2>8 DEF AtMost
  <2> QED BY <1>1, <1>2, <1>3, <2>2, <2>3, <2>4, <2>9 DEF r
<1>6. CASE exists /\ ~(r < last)
  <2>1. Elapsed(r) = r - last /\ r - last \in Nat BY <1>1, <1>2, <1>6 DEF Elapsed
  <2>2. Available(r) = AtMost(Burst, tokens + (r - last) * Rate)
    BY <1>6, <2>1 DEF Available
  <2>3. (r - last) * Rate \in Nat BY <2>1, OneMore
  <2>4. Again(r) = 0 BY <1>6 DEF Again
  <2>5. (now - last) * Rate = (now - r) * Rate + (r - last) * Rate
    BY <1>1, <1>2, Apart
  <2>6. Held = AtMost(Capacity, tokens + (now - last) * Rate) BY <1>6 DEF Held
  <2> HIDE DEF r
  <2>7. Refilled(r) = ideal BY <1>2, <2>4 DEF Refilled, AtMost
  <2>8. /\ Available(r) \in 0..Burst
        /\ Available(r) <= tokens + (r - last) * Rate
    BY <1>2, <2>2, <2>3 DEF AtMost
  <2>9. /\ Available(r) <= Refilled(r)
        /\ Available(r) + (now - r) * Rate <= Refilled(r) \/ Refilled(r) = Capacity
    BY <1>2, <1>3, <2>3, <2>5, <2>6, <2>7, <2>8 DEF AtMost
  <2> QED BY <1>1, <1>2, <1>3, <2>4, <2>7, <2>8, <2>9 DEF r
<1> QED BY <1>2, <1>4, <1>5, <1>6

LEMMA BucketBegins == BucketInit => BucketInv
<1> SUFFICES ASSUME BucketInit PROVE BucketInv OBVIOUS
<1>1. exists \in BOOLEAN BY Zenon DEF BucketInit
<1>2. \A c \in Callers : reading[c] = NoReading BY DEF BucketInit
<1>3. reading \in [Callers -> NoReading..now] BY DEF BucketInit, NoReading
<1>4. BucketTypeOK
  BY <1>1, <1>3, BucketAssumption, CapacityBounds DEF BucketInit, BucketTypeOK
<1>5. Held = Capacity BY DEF BucketInit, Held
<1> QED BY <1>2, <1>4, <1>5, CapacityBounds DEF BucketInit, BucketInv

\* Taking a reading and giving it up leave the bucket as it is.
LEMMA ReadingKeeps ==
  ASSUME BucketInv, NEW c \in Callers, NEW r \in {NoReading, now},
         reading' = [reading EXCEPT ![c] = r], UNCHANGED <<now, hash, ideal>>
  PROVE  BucketInv'
<1>1. reading' \in [Callers -> NoReading..now]
  BY DEF BucketInv, BucketTypeOK, NoReading
<1>2. BucketTypeOK' BY <1>1 DEF BucketInv, BucketTypeOK, hash
<1>3. \A d \in Callers : reading'[d] # NoReading => now' - reading'[d] <= MaxDelay
  BY BucketAssumption DEF BucketInv, BucketTypeOK, hash
<1> QED BY <1>2, <1>3 DEF BucketInv, Held, hash

\* A script keeps the readings of the others.
LEMMA ScriptReadings ==
  ASSUME BucketInv, NEW c \in Callers, Used(c), now' = now
  PROVE  /\ reading' \in [Callers -> NoReading..now']
         /\ \A d \in Callers : reading'[d] # NoReading => now' - reading'[d] <= MaxDelay
BY DEF BucketInv, BucketTypeOK, NoReading, Used

LEMMA GrantKeeps == ASSUME BucketInv, NEW c \in Callers, Grant(c) PROVE BucketInv'
<1> DEFINE r == reading[c]
           a == Available(r)
<1> USE BucketAssumption, CapacityBounds
<1>1. /\ r # NoReading /\ a >= Cost /\ exists' = TRUE /\ tokens' = a - Cost
      /\ last' = r /\ ttl' = TTL /\ ideal' = Refilled(r) - Cost /\ Used(c)
      /\ now' = now
  BY DEF Grant
<1>2. /\ r \in 0..now /\ a \in 0..Burst /\ Refilled(r) \in Int /\ a <= Refilled(r)
      /\ Refilled(r) <= Capacity
      /\ a + (now - r) * Rate <= Refilled(r) \/ Refilled(r) = Capacity
      /\ (now - r) * Rate \in 0..(MaxDelay * Rate)
  BY <1>1, ScriptBounds
<1>3. Held' = AtMost(Capacity, a - Cost + (now - r) * Rate) BY <1>1 DEF Held
<1> HIDE DEF a, r
<1>4. BucketTypeOK'
  <2>1. now' \in 0..MaxTime BY <1>1 DEF BucketInv, BucketTypeOK
  <2>2. exists' \in BOOLEAN BY <1>1, Zenon
  <2> QED BY <1>1, <1>2, <2>1, <2>2, ScriptReadings DEF BucketTypeOK
<1>5. Held' <= ideal'
  BY <1>1, <1>2, <1>3 DEF AtMost, Capacity
<1>6. (TTL - ttl') * Rate = 0 BY <1>1
<1>7. ideal' >= AtMost(Capacity, (TTL - ttl') * Rate) /\ ttl' > 0
  BY <1>1, <1>2, <1>6 DEF AtMost
<1> QED BY <1>1, <1>4, <1>5, <1>7, ScriptReadings DEF BucketInv

LEMMA DenyKeeps == ASSUME BucketInv, NEW c \in Callers, Deny(c) PROVE BucketInv'
<1> DEFINE r == reading[c]
<1> USE BucketAssumption, CapacityBounds
<1>1. /\ r # NoReading /\ Available(r) < Cost /\ last' = r /\ ideal' = Refilled(r)
      /\ Used(c) /\ UNCHANGED <<now, exists, tokens, ttl>>
  BY DEF Deny
<1>2. /\ r \in 0..now /\ Available(r) \in 0..Burst
      /\ Refilled(r) \in Int /\ Refilled(r) <= Capacity
      /\ Available(r) + (now - r) * Rate <= Refilled(r) \/ Refilled(r) = Capacity
      /\ Again(r) \in Nat
      /\ (now - r) * Rate \in 0..(MaxDelay * Rate)
  BY <1>1, ScriptBounds
<1>3. exists BY <1>1 DEF Available
<1>4. /\ tokens \in 0..Burst /\ ideal \in Int /\ ideal <= Capacity
      /\ r \in Int /\ last \in Int
  BY <1>2 DEF BucketInv, BucketTypeOK
<1>5. tokens <= Available(r)
  <2>1. Elapsed(r) \in Nat BY <1>4 DEF Elapsed
  <2>2. Elapsed(r) * Rate \in Nat BY <2>1, OneMore
  <2> QED BY <1>3, <1>4, <2>2 DEF Available, AtMost
<1>6. Held' = AtMost(Capacity, tokens + (now - r) * Rate) BY <1>1, <1>3 DEF Held
<1>7. ideal <= Refilled(r)
  <2> HIDE DEF r
  <2> QED BY <1>2, <1>4 DEF Refilled, AtMost
<1> HIDE DEF r
<1>8. BucketTypeOK'
  BY <1>1, <1>2, <1>4, ScriptReadings DEF BucketInv, BucketTypeOK
<1>9. Held' <= ideal' BY <1>1, <1>2, <1>4, <1>5, <1>6 DEF AtMost
<1>10. ttl' > 0 /\ ideal' >= AtMost(Capacity, (TTL - ttl') * Rate)
  <2>1. ttl > 0 /\ ideal >= AtMost(Capacity, (TTL - ttl) * Rate) BY <1>3 DEF BucketInv
  <2>2. (TTL - ttl) * Rate \in Int
    BY Apart DEF BucketInv, BucketTypeOK
  <2> QED BY <1>1, <1>2, <1>4, <1>7, <2>1, <2>2 DEF AtMost
<1> QED BY <1>1, <1>8, <1>9, <1>10, ScriptReadings DEF BucketInv

LEMMA TickKeeps == ASSUME BucketInv, Tick PROVE BucketInv'
<1> USE BucketAssumption, CapacityBounds DEF BucketInv
<1>1. BucketTypeOK'
  <2>1. now' \in 0..MaxTime /\ now' = now + 1 BY DEF Tick, BucketTypeOK
  <2>2. ideal' \in Int /\ ideal' <= Capacity BY DEF Tick, BucketTypeOK, AtMost
  <2>3. reading' \in [Callers -> NoReading..now']
    BY <2>1 DEF Tick, BucketTypeOK, NoReading
  <2>4. CASE exists /\ ttl > 1 BY <2>1, <2>2, <2>3, <2>4 DEF Tick, BucketTypeOK
  <2>5. CASE ~(exists /\ ttl > 1)
    <3>1. ttl' = 0 /\ exists' = FALSE /\ tokens' = 0 /\ last' = 0 BY <2>5 DEF Tick
    <3>2. exists' \in BOOLEAN BY <3>1, Zenon
    <3> QED BY <2>1, <2>2, <2>3, <3>1, <3>2 DEF BucketTypeOK
  <2> QED BY <2>4, <2>5
<1>2. \A c \in Callers : reading'[c] # NoReading => now' - reading'[c] <= MaxDelay
  BY DEF Tick, BucketTypeOK, NoReading
<1>3. CASE exists /\ ttl > 1
  <2>1. /\ ttl' = ttl - 1 /\ UNCHANGED <<exists, tokens, last>> /\ now' = now + 1
        /\ ideal' = AtMost(Capacity, ideal + Rate)
    BY <1>3 DEF Tick
  <2>2. /\ TTL - ttl' = (TTL - ttl) + 1 /\ TTL - ttl \in Int
        /\ now' - last' = (now - last) + 1 /\ now - last \in Int
    BY <2>1 DEF BucketTypeOK
  <2>3. /\ (TTL - ttl') * Rate = (TTL - ttl) * Rate + Rate
        /\ (now' - last') * Rate = (now - last) * Rate + Rate
    BY <2>2, OneMore
  <2>4. (TTL - ttl) * Rate \in Int /\ (now - last) * Rate \in Int BY <2>2, Apart
  <2>5. Held' <= ideal'
    BY <1>3, <2>1, <2>3, <2>4 DEF Held, AtMost, BucketTypeOK
  <2>6. ideal' >= AtMost(Capacity, (TTL - ttl') * Rate) /\ ttl' > 0
    BY <1>3, <2>1, <2>3, <2>4 DEF AtMost, BucketTypeOK
  <2> QED BY <1>1, <1>2, <2>5, <2>6
<1>4. CASE exists /\ ~(ttl > 1)
  <2>1. ~exists' /\ ideal' = AtMost(Capacity, ideal + Rate) BY <1>4 DEF Tick
  <2>2. ttl = 1 BY <1>4 DEF BucketTypeOK
  <2>3. (TTL - 1) + 1 = TTL /\ TTL - 1 \in Int OBVIOUS
  <2>4. TTL * Rate = (TTL - 1) * Rate + Rate BY <2>3, OneMore
  <2>5. (TTL - 1) * Rate \in Int BY <2>3
  <2>6. ideal' = Capacity
    BY <1>4, <2>1, <2>2, <2>4, <2>5, ExpiresFull DEF AtMost, BucketTypeOK
  <2> QED BY <1>1, <1>2, <2>1, <2>6 DEF Held
<1>5. CASE ~exists
  <2>1. ~exists' /\ ideal' = AtMost(Capacity, ideal + Rate) BY <1>5 DEF Tick
  <2>2. ideal = Capacity BY <1>5 DEF Held, BucketTypeOK
  <2>3. ideal' = Capacity BY <2>1, <2>2 DEF AtMost
  <2> QED BY <1>1, <1>2, <2>1, <2>3 DEF Held
<1> QED BY <1>3, <1>4, <1>5

LEMMA BucketStepKeeps == BucketInv /\ [BucketNext]_bucketVars => BucketInv'
<1>1. ASSUME BucketInv, UNCHANGED bucketVars PROVE BucketInv'
  BY <1>1 DEF bucketVars, BucketInv, BucketTypeOK, Held
<1>2. ASSUME BucketInv, NEW c \in Callers, ReadClock(c) \/ LetThrough(c) PROVE BucketInv'
  BY <1>2, ReadingKeeps DEF ReadClock, LetThrough, Used
<1> QED BY <1>1, <1>2, GrantKeeps, DenyKeeps, TickKeeps DEF BucketNext

\* The inductive invariant holds of every behaviour of the bucket.
THEOREM BucketInductive == BucketSpec => []BucketInv
BY BucketBegins, BucketStepKeeps, PTL DEF BucketSpec

\* Type correctness: the bucket stays within the burst, and however late a
\* reading is used, last_refresh is a time of the past.
THEOREM BucketTypeCorrect == BucketSpec => []BucketTypeOK
<1>1. BucketInv => BucketTypeOK BY DEF BucketInv
<1> QED BY <1>1, BucketInductive, PTL

\* The tokens granted over any time are at most a full bucket, what the rate
\* has brought since and what late readings brought again, denials and expiries
\* included.
THEOREM RateIsRespected == BucketSpec => []RateRespected
<1>1. ASSUME BucketInv PROVE RateRespected
  <2>1. now - last \in Nat BY <1>1 DEF BucketInv, BucketTypeOK
  <2>2. (now - last) * Rate \in Nat BY <2>1, OneMore
  <2>3. Held >= 0
    BY <1>1, <2>2, CapacityBounds DEF Held, AtMost, BucketInv, BucketTypeOK
  <2> QED BY <1>1, <2>3, CapacityBounds, <2>2
         DEF Held, AtMost, BucketInv, BucketTypeOK, RateRespected
<1> QED BY <1>1, BucketInductive, PTL

----------------------------------------------------------------------------
(* The evaluation: the bridge's budget *)

\* The bridge has begun as many analyses as it was called, up to the limit.
BudgetOK(b) ==
  /\ b \in [processed : Nat, begun : Nat]
  /\ b.begun = IF MaxCases > 0 /\ b.processed > MaxCases THEN MaxCases ELSE b.processed

UsedUp(b) == MaxCases > 0 /\ b.begun = MaxCases

TaskStates == {"new", "waiting", "graph", "skipped", "done"}

InGraph(x, n) == {i \in 1..n : x.task[i] = "graph"}

BatchType(n) == [task : [1..n -> TaskStates], queue : Seq(1..n), free : Nat]

\* A batch of n tasks: a permit is free or some task's, and the queue holds
\* waiting tasks, none of them twice.
BatchOK(x, n) ==
  /\ x \in BatchType(n)
  /\ x.free + Cardinality(InGraph(x, n)) = Permits
  /\ \A k \in DOMAIN x.queue : x.task[x.queue[k]] = "waiting"
  /\ \A j, k \in DOMAIN x.queue : x.queue[j] = x.queue[k] => j = k

SomeSkipped(x, n) == \E i \in 1..n : x.task[i] = "skipped"

LimitInv ==
  /\ BudgetOK(bridge)
  /\ DOMAIN batch = DOMAIN Batches
  /\ \A b \in DOMAIN Batches :
       /\ BatchOK(batch[b], Batches[b])
       /\ SomeSkipped(batch[b], Batches[b]) => UsedUp(bridge)

----------------------------------------------------------------------------
(* The evaluation: who has the engine *)

TesterOK(u, t) ==
  /\ DOMAIN t = {"pc", "plan", "found", "todo", "results", "reports", "alone"}
  /\ t.alone \in BOOLEAN
  /\ t.pc = "idle" => t.alone /\ t.plan = Plan[u] /\ t.reports = <<>>

\* The version a tester's i-th report is to have.
Wanted(u, t, i) == IF Plan[u] = <<>> THEN t.found.version ELSE Plan[u][i].version

FirstHalf(u, t) ==
  /\ t.plan = Plan[u] /\ t.reports = <<>>
  /\ config = IF Plan[u] = <<>> THEN t.found ELSE Plan[u][1]

SecondHalf(u, t) ==
  /\ Plan[u] # <<>> /\ t.plan = <<Plan[u][2]>> /\ config = Plan[u][2]
  /\ t.reports = <<t.reports[1]>> /\ t.reports[1].version = Plan[u][1].version

AllAlone == \A u \in Testers : tester[u].alone /\ tester[u].pc # "failed"

OwnReports(u, t) == \A i \in DOMAIN t.reports : t.reports[i].version = Wanted(u, t, i)

EngineInv ==
  /\ DOMAIN tester = Testers
  /\ \A u \in Testers : TesterOK(u, tester[u])
  /\ \A u \in Testers : tester[u].alone => OwnReports(u, tester[u])
  /\ \A u \in Testers : tester[u].alone /\ Active(u) =>
       /\ \A v \in Testers \ {u} : ~Active(v)
       /\ FirstHalf(u, tester[u]) \/ SecondHalf(u, tester[u])
  /\ AllAlone =>
       /\ (\A u \in Testers : ~Active(u)) => config = FirstConfig
       /\ \A u \in Testers : Active(u) => tester[u].found = FirstConfig

----------------------------------------------------------------------------
(* Numbers *)

LEMMA LeastNatural ==
  ASSUME NEW S \in SUBSET Nat, S # {} PROVE \E n \in S : \A m \in S : n <= m
<1> DEFINE Below(n) == {k \in Nat : k < n}
           Lowers == {Below(n) : n \in S}
<1>1. IsWellFoundedOn(StrictSubsetOrdering(Nat), FiniteSubsetsOf(Nat))
  BY FS_StrictSubsetOrderingWellFounded
<1>2. ASSUME NEW n \in Nat PROVE Below(n) \in FiniteSubsetsOf(Nat)
  <2>1. \A k \in Below(n) : k <= n
    OBVIOUS
  <2>2. IsFiniteSet(Below(n))
    BY <2>1, FS_BoundedSetOfNaturals
  <2> QED BY <2>2 DEF FiniteSubsetsOf
<1>3. Lowers \subseteq FiniteSubsetsOf(Nat) /\ Lowers # {}
  BY <1>2
<1>4. PICK l \in Lowers : \A o \in Lowers : <<o, l>> \notin StrictSubsetOrdering(Nat)
  <2> HIDE DEF Lowers
  <2> QED BY <1>1, <1>3, WFMin
<1>5. PICK n \in S : l = Below(n)
  OBVIOUS
<1>6. ASSUME NEW m \in S, ~(n <= m) PROVE FALSE
  <2>1. m \in Below(n) /\ m \notin Below(m) /\ Below(m) \subseteq Below(n)
    BY <1>6
  <2>2. <<Below(m), Below(n)>> \in StrictSubsetOrdering(Nat)
    BY <2>1 DEF StrictSubsetOrdering
  <2> QED BY <2>2, <1>4, <1>5
<1> QED BY <1>6

\* Induction up to a bound, with a set for the induction hypothesis.
LEMMA UpTo ==
  ASSUME NEW m \in Nat, NEW S, 0 \in S, \A n \in S \cap Nat : n < m => n + 1 \in S
  PROVE  0..m \subseteq S
<1> DEFINE Bad == {n \in 0..m : n \notin S}
<1> SUFFICES ASSUME Bad # {} PROVE FALSE  OBVIOUS
<1>1. PICK b \in Bad : \A n \in Bad : b <= n
  <2>1. Bad \in SUBSET Nat
    OBVIOUS
  <2> HIDE DEF Bad
  <2> QED BY <2>1, LeastNatural
<1>2. b # 0 /\ b - 1 \in 0..m /\ b - 1 \notin Bad /\ b - 1 < m /\ (b - 1) + 1 = b
  BY <1>1
<1>3. b - 1 \in S \cap Nat
  BY <1>2
<1> QED BY <1>1, <1>2, <1>3

----------------------------------------------------------------------------
(* The bridge *)

LEMMA ExtractFacts ==
  ASSUME NEW b, BudgetOK(b)
  PROVE  /\ BudgetOK(Extract(b))
         /\ UsedUp(b) => UsedUp(Extract(b))
         /\ ~Runs(b, Extract(b)) => UsedUp(Extract(b))
         /\ Spent(b) => UsedUp(b)
<1> USE EvaluationAssumption
<1>1. /\ Extract(b) \in [processed : Nat, begun : Nat]
      /\ Extract(b).processed = b.processed + 1
      /\ Extract(b).begun = IF MaxCases > 0 /\ b.processed + 1 > MaxCases THEN b.begun ELSE b.begun + 1
  BY DEF Extract, BudgetOK
<1>2. BudgetOK(Extract(b)) BY <1>1 DEF BudgetOK
<1>3. UsedUp(b) => UsedUp(Extract(b)) BY <1>1 DEF BudgetOK, UsedUp
<1>4. ~Runs(b, Extract(b)) => UsedUp(Extract(b)) BY <1>1 DEF BudgetOK, UsedUp, Runs
<1>5. Spent(b) => UsedUp(b) BY DEF BudgetOK, UsedUp, Spent
<1> QED BY <1>2, <1>3, <1>4, <1>5

----------------------------------------------------------------------------
(* A batch *)

\* A task changes from a state that holds no permit.
LEMMA TaskChanges ==
  ASSUME NEW n \in Nat, NEW x, x.task \in [1..n -> TaskStates], NEW i \in 1..n,
         NEW state \in TaskStates, NEW y, y.task = [x.task EXCEPT ![i] = state]
  PROVE  /\ Cardinality(InGraph(x, n)) \in Nat /\ Cardinality(InGraph(y, n)) \in Nat
         /\ Cardinality(InGraph(y, n)) = Cardinality(InGraph(x, n))
              - (IF x.task[i] = "graph" THEN 1 ELSE 0) + (IF state = "graph" THEN 1 ELSE 0)
<1> DEFINE before == InGraph(x, n)
           after == InGraph(y, n)
<1>1. IsFiniteSet(1..n)
  <2>1. 1 \in Int /\ n \in Int OBVIOUS
  <2> QED BY <2>1, FS_Interval, SMTT(30)
<1>2. IsFiniteSet(before) /\ IsFiniteSet(after) BY <1>1, FS_Subset DEF InGraph
<1>3. Cardinality(before) \in Nat /\ Cardinality(after) \in Nat BY <1>2, FS_CardinalityType
<1>4. i \in before <=> x.task[i] = "graph" BY DEF InGraph
<1>5. i \in after <=> state = "graph" BY DEF InGraph
<1>6. before \ {i} = after \ {i} BY DEF InGraph
<1>7. /\ Cardinality(before \ {i}) = IF i \in before THEN Cardinality(before) - 1 ELSE Cardinality(before)
      /\ Cardinality(after \ {i}) = IF i \in after THEN Cardinality(after) - 1 ELSE Cardinality(after)
  <2> HIDE DEF before, after
  <2> QED BY <1>2, FS_RemoveElement
<1>8. Cardinality(after) = Cardinality(before)
        - (IF x.task[i] = "graph" THEN 1 ELSE 0) + (IF state = "graph" THEN 1 ELSE 0)
  <2>1. Cardinality(before \ {i}) = Cardinality(after \ {i}) BY <1>6
  <2> HIDE DEF before, after
  <2>2. CASE i \in before /\ i \in after BY <1>3, <1>4, <1>5, <1>7, <2>1, <2>2
  <2>3. CASE i \in before /\ i \notin after BY <1>3, <1>4, <1>5, <1>7, <2>1, <2>3
  <2>4. CASE i \notin before /\ i \in after BY <1>3, <1>4, <1>5, <1>7, <2>1, <2>4
  <2>5. CASE i \notin before /\ i \notin after BY <1>3, <1>4, <1>5, <1>7, <2>1, <2>5
  <2> QED BY <2>2, <2>3, <2>4, <2>5
<1> QED BY <1>3, <1>8

StateOK(s, n) ==
  /\ s \in [bridge : [processed : Nat, begun : Nat], batch : BatchType(n)]
  /\ BudgetOK(s.bridge) /\ BatchOK(s.batch, n)

\* What changes when a step of task i leads from s to t: only that task is
\* skipped or goes on, and it is skipped only when the budget is used up.
TaskStep(s, t, n, i) ==
  /\ StateOK(t, n)
  /\ UsedUp(s.bridge) => UsedUp(t.bridge)
  /\ SomeSkipped(t.batch, n) => SomeSkipped(s.batch, n) \/ UsedUp(t.bridge)
  /\ \A j \in 1..n \ {i} : t.batch.task[j] = s.batch.task[j]

LEMMA SetTask ==
  ASSUME NEW n \in Nat, NEW x, BatchOK(x, n), NEW i \in 1..n, NEW state \in TaskStates,
         state # "waiting", \A k \in DOMAIN x.queue : x.queue[k] # i,
         NEW y \in BatchType(n), y.task = [x.task EXCEPT ![i] = state], y.queue = x.queue,
         y.free = x.free + (IF x.task[i] = "graph" THEN 1 ELSE 0) - (IF state = "graph" THEN 1 ELSE 0)
  PROVE  BatchOK(y, n)
<1>1. /\ x.task \in [1..n -> TaskStates] /\ x.queue \in Seq(1..n)
      /\ x.free \in Nat /\ y.free \in Nat
  BY DEF BatchOK, BatchType
<1>2. y.free + Cardinality(InGraph(y, n)) = Permits
  <2>1. /\ Cardinality(InGraph(x, n)) \in Nat /\ Cardinality(InGraph(y, n)) \in Nat
        /\ Cardinality(InGraph(y, n)) = Cardinality(InGraph(x, n))
             - (IF x.task[i] = "graph" THEN 1 ELSE 0) + (IF state = "graph" THEN 1 ELSE 0)
    BY <1>1, TaskChanges, SMTT(60)
  <2>2. x.free + Cardinality(InGraph(x, n)) = Permits BY DEF BatchOK
  <2>3. \A a, b, cx, cy, fx, fy \in Int :
          cy = cx - a + b /\ fy = fx + a - b => fy + cy = fx + cx
    OBVIOUS
  <2> DEFINE a == IF x.task[i] = "graph" THEN 1 ELSE 0
             b == IF state = "graph" THEN 1 ELSE 0
  <2>4. a \in Int /\ b \in Int OBVIOUS
  <2>5. Cardinality(InGraph(y, n)) = Cardinality(InGraph(x, n)) - a + b BY <2>1
  <2>6. y.free = x.free + a - b OBVIOUS
  <2> HIDE DEF a, b
  <2> QED BY <1>1, <2>1, <2>2, <2>3, <2>4, <2>5, <2>6
<1>3. \A k \in DOMAIN y.queue : y.task[y.queue[k]] = "waiting"
  <2>1. \A k \in DOMAIN x.queue : x.queue[k] \in 1..n /\ x.task[x.queue[k]] = "waiting"
    BY <1>1 DEF BatchOK
  <2> QED BY <1>1, <2>1
<1>4. \A j, k \in DOMAIN y.queue : y.queue[j] = y.queue[k] => j = k BY DEF BatchOK
<1> QED BY <1>2, <1>3, <1>4 DEF BatchOK

LEMMA AdmitKeeps ==
  ASSUME NEW n \in Nat, NEW s, StateOK(s, n), NEW i \in 1..n,
         s.batch.task[i] # "graph", s.batch.free > 0,
         \A k \in DOMAIN s.batch.queue : s.batch.queue[k] # i
  PROVE  TaskStep(s, Admit(s, i), n, i)
<1> DEFINE x == s.batch
           after == Extract(s.bridge)
           runs == Runs(s.bridge, after)
           state == IF runs THEN "graph" ELSE "skipped"
           y == Admit(s, i).batch
<1>1. /\ x \in BatchType(n) /\ BatchOK(x, n) /\ x.free > 0 /\ x.task[i] # "graph"
      /\ \A k \in DOMAIN x.queue : x.queue[k] # i
  BY DEF StateOK
<1>2. /\ BudgetOK(after)
      /\ UsedUp(s.bridge) => UsedUp(after)
      /\ ~runs => UsedUp(after)
  BY ExtractFacts DEF StateOK
<1>3. /\ Admit(s, i) = [bridge |-> after, batch |-> y]
      /\ y = [x EXCEPT !.task[i] = state, !.free = IF runs THEN x.free - 1 ELSE x.free]
  BY DEF Admit
<1> HIDE DEF after, runs, x, y
<1>4. /\ y \in BatchType(n) /\ y.task = [x.task EXCEPT ![i] = state] /\ y.queue = x.queue
      /\ y.free = IF runs THEN x.free - 1 ELSE x.free
  <2> DEFINE free == IF runs THEN x.free - 1 ELSE x.free
  <2>1. free \in Nat /\ state \in TaskStates BY <1>1 DEF BatchType, TaskStates
  <2> HIDE DEF free, state
  <2>2. y = [x EXCEPT !.task[i] = state, !.free = free] BY <1>3 DEF free
  <2>3. y \in BatchType(n) /\ y.task = [x.task EXCEPT ![i] = state] /\ y.queue = x.queue /\ y.free = free
    BY <1>1, <2>1, <2>2 DEF BatchType
  <2> QED BY <2>3 DEF free
<1>5. state \in TaskStates /\ state # "waiting" BY DEF TaskStates
<1>6. y.free = x.free + (IF x.task[i] = "graph" THEN 1 ELSE 0) - (IF state = "graph" THEN 1 ELSE 0)
  BY <1>1, <1>4 DEF BatchType
<1>7. BatchOK(y, n)
  <2> HIDE DEF state
  <2> QED BY <1>1, <1>4, <1>5, <1>6, SetTask
<1>8. StateOK(Admit(s, i), n) BY <1>2, <1>3, <1>4, <1>7 DEF StateOK, BudgetOK
<1>9. (\A j \in 1..n \ {i} : y.task[j] = x.task[j]) /\ y.task[i] = state
  BY <1>1, <1>4 DEF BatchType
<1>10. SomeSkipped(y, n) => SomeSkipped(x, n) \/ ~runs BY <1>9 DEF SomeSkipped
<1>11. Admit(s, i).bridge = after /\ Admit(s, i).batch = y BY <1>3
<1>12. TaskStep(s, Admit(s, i), n, i)
  <2> USE DEF x
  <2> QED BY <1>2, <1>8, <1>9, <1>10, <1>11 DEF TaskStep
<1> QED BY <1>12

LEMMA FirstStepKeeps ==
  ASSUME NEW n \in Nat, NEW s, StateOK(s, n), NEW i \in 1..n, s.batch.task[i] = "new"
  PROVE  TaskStep(s, FirstStep(s, i), n, i)
<1> DEFINE x == s.batch
           t == FirstStep(s, i)
           y == t.batch
<1>1. /\ x \in BatchType(n) /\ BatchOK(x, n) /\ BudgetOK(s.bridge)
      /\ s.bridge \in [processed : Nat, begun : Nat]
      /\ x.task \in [1..n -> TaskStates] /\ x.queue \in Seq(1..n) /\ x.free \in Nat
  BY DEF StateOK, BatchType
<1>2. \A k \in DOMAIN x.queue : x.queue[k] # i
  BY <1>1 DEF BatchOK
<1>3. ASSUME NEW state \in {"skipped", "waiting"}, y \in BatchType(n), t.bridge = s.bridge,
             t \in [bridge : [processed : Nat, begun : Nat], batch : BatchType(n)],
             y.task = [x.task EXCEPT ![i] = state], BatchOK(y, n),
             state = "skipped" => UsedUp(s.bridge)
      PROVE  TaskStep(s, t, n, i)
  <2> HIDE DEF t
  <2>1. StateOK(t, n) BY <1>1, <1>3 DEF StateOK
  <2>2. (\A j \in 1..n \ {i} : t.batch.task[j] = s.batch.task[j]) /\ y.task[i] = state BY <1>1, <1>3
  <2>3. SomeSkipped(t.batch, n) => SomeSkipped(s.batch, n) \/ UsedUp(t.bridge)
    BY <1>3, <2>2 DEF SomeSkipped
  <2> QED BY <1>3, <2>1, <2>2, <2>3 DEF TaskStep
<1>4. CASE Spent(s.bridge)
  <2> DEFINE skipped == "skipped"
  <2>1. t = [s EXCEPT !.batch.task[i] = skipped] BY <1>4 DEF FirstStep
  <2>2. skipped \in TaskStates /\ skipped \notin {"waiting", "graph"} BY DEF TaskStates
  <2>a. skipped \in {"skipped", "waiting"} OBVIOUS
  <2> HIDE DEF t, skipped
  <2>3. /\ t.bridge = s.bridge /\ y.task = [x.task EXCEPT ![i] = skipped]
        /\ y.queue = x.queue /\ y.free = x.free /\ y \in BatchType(n)
        /\ t \in [bridge : [processed : Nat, begun : Nat], batch : BatchType(n)]
    BY <1>1, <2>1, <2>2 DEF BatchType, StateOK
  <2> HIDE DEF x, y
  <2>4. y.free = x.free + (IF x.task[i] = "graph" THEN 1 ELSE 0) - (IF skipped = "graph" THEN 1 ELSE 0)
    BY <1>1, <2>2, <2>3 DEF x
  <2>5. /\ BatchOK(x, n) /\ y \in BatchType(n) /\ y.task = [x.task EXCEPT ![i] = skipped]
        /\ y.queue = x.queue /\ skipped \in TaskStates /\ skipped # "waiting"
    BY <1>1, <2>2, <2>3
  <2>6. BatchOK(y, n) BY <1>2, <2>4, <2>5, SetTask
  <2>7. UsedUp(s.bridge) BY <1>1, <1>4, ExtractFacts
  <2> QED BY <1>3, <2>a, <2>3, <2>6, <2>7 DEF t
<1>5. CASE ~Spent(s.bridge) /\ x.free = 0
  <2>1. t = [s EXCEPT !.batch.task[i] = "waiting", !.batch.queue = Append(@, i)]
    BY <1>5 DEF FirstStep
  <2>2. "waiting" \in TaskStates /\ Append(x.queue, i) \in Seq(1..n) BY <1>1 DEF TaskStates
  <2> HIDE DEF t
  <2>3. /\ t.bridge = s.bridge /\ y.task = [x.task EXCEPT ![i] = "waiting"]
        /\ y.queue = Append(x.queue, i) /\ y.free = x.free /\ y \in BatchType(n)
        /\ t \in [bridge : [processed : Nat, begun : Nat], batch : BatchType(n)]
    BY <1>1, <2>1, <2>2 DEF BatchType, StateOK
  <2>4. BatchOK(y, n)
    <3> HIDE DEF x, y
    <3>1. y.free + Cardinality(InGraph(y, n)) = Permits
      <4>1. InGraph(y, n) = InGraph(x, n) BY <1>1, <2>3 DEF InGraph, x
      <4> QED BY <1>1, <2>3, <4>1 DEF BatchOK
    <3>2. /\ DOMAIN y.queue = 1..(Len(x.queue) + 1) /\ y.queue[Len(x.queue) + 1] = i
          /\ \A k \in 1..Len(x.queue) : y.queue[k] = x.queue[k]
          /\ DOMAIN x.queue = 1..Len(x.queue) /\ Len(x.queue) \in Nat
      BY <1>1, <2>3
    <3>3. \A k \in DOMAIN x.queue : x.queue[k] \in 1..n /\ x.task[x.queue[k]] = "waiting"
      BY <1>1 DEF BatchOK
    <3>4. \A k \in DOMAIN y.queue : k \in DOMAIN x.queue \/ k = Len(x.queue) + 1
      BY <3>2
    <3>5. \A k \in DOMAIN y.queue : y.task[y.queue[k]] = "waiting"
      BY <1>1, <2>3, <3>2, <3>3, <3>4
    <3>6. \A j, k \in DOMAIN y.queue : y.queue[j] = y.queue[k] => j = k
      BY <1>1, <1>2, <3>2, <3>4 DEF BatchOK
    <3> QED BY <2>3, <3>1, <3>5, <3>6 DEF BatchOK
  <2> DEFINE waiting == "waiting"
  <2>5. waiting \in {"skipped", "waiting"} /\ waiting # "skipped" OBVIOUS
  <2>6. y.task = [x.task EXCEPT ![i] = waiting] BY <2>3
  <2> HIDE DEF x, y, waiting
  <2> QED BY <1>3, <2>3, <2>4, <2>5, <2>6 DEF t
<1>6. CASE ~Spent(s.bridge) /\ x.free # 0
  BY <1>1, <1>2, <1>6, AdmitKeeps DEF FirstStep
<1> QED BY <1>4, <1>5, <1>6

\* The recursive definition of Started defines what it says.
LEMMA StartedUnfolds ==
  ASSUME NEW b \in DOMAIN Batches
  PROVE  /\ Started(b)[0] = [bridge |-> bridge, batch |-> batch[b]]
         /\ \A i \in 1..Batches[b] : Started(b)[i] = FirstStep(Started(b)[i - 1], i)
<1> DEFINE n == Batches[b]
           start == [bridge |-> bridge, batch |-> batch[b]]
           Unfolds(g, m) == g = [i \in 0..m |-> IF i = 0 THEN start ELSE FirstStep(g[i - 1], i)]
           Bad == {m \in Nat : ~ \E g : Unfolds(g, m)}
<1> HIDE DEF start
<1>0. n \in Nat BY EvaluationAssumption
<1>1. ASSUME NEW m \in Nat, NEW g, Unfolds(g, m) PROVE \E h : Unfolds(h, m + 1)
  <2> DEFINE h == [i \in 0..(m + 1) |-> IF i = 0 THEN start ELSE FirstStep(g[i - 1], i)]
  <2>1. \A i \in 0..m : h[i] = g[i] BY <1>1
  <2>2. \A i \in 0..(m + 1) : i # 0 => i - 1 \in 0..m OBVIOUS
  <2>3. Unfolds(h, m + 1) BY <2>1, <2>2
  <2> QED BY <2>3
<1>2. Unfolds([i \in 0..0 |-> start], 0) OBVIOUS
<1>3. Bad = {}
  <2> SUFFICES ASSUME Bad # {} PROVE FALSE OBVIOUS
  <2>1. PICK d \in Bad : \A m \in Bad : d <= m
    <3>1. Bad \in SUBSET Nat OBVIOUS
    <3> HIDE DEF Bad
    <3> QED BY <3>1, LeastNatural
  <2>2. d # 0 BY <1>2
  <2>3. d - 1 \in Nat /\ d - 1 \notin Bad /\ (d - 1) + 1 = d BY <2>1, <2>2
  <2>4. PICK g : Unfolds(g, d - 1) BY <2>3
  <2> HIDE DEF Unfolds
  <2>5. \E h : Unfolds(h, d) BY <1>1, <2>3, <2>4
  <2> QED BY <2>5
<1>4. \E g : Unfolds(g, n) BY <1>0, <1>3
<1>5. Started(b) = CHOOSE g : Unfolds(g, n) BY DEF Started, start
<1>6. Unfolds(Started(b), n)
  <2> HIDE DEF Unfolds
  <2> QED BY <1>4, <1>5
<1>7. Started(b)[0] = start /\ \A i \in 1..n : Started(b)[i] = FirstStep(Started(b)[i - 1], i)
  <2> DEFINE g == Started(b)
  <2> HIDE DEF g
  <2>1. g = [i \in 0..n |-> IF i = 0 THEN start ELSE FirstStep(g[i - 1], i)] BY <1>6 DEF g
  <2>2. 0 \in 0..n /\ \A i \in 1..n : i \in 0..n /\ i # 0 BY <1>0
  <2>3. g[0] = start /\ \A i \in 1..n : g[i] = FirstStep(g[i - 1], i) BY <2>1, <2>2
  <2> QED BY <2>3 DEF g
<1> QED BY <1>7 DEF start

\* A batch started as a whole keeps the budget, and skips only when it is used up.
LEMMA StartedKeeps ==
  ASSUME LimitInv, NEW b \in DOMAIN Batches, \A i \in 1..Batches[b] : batch[b].task[i] = "new"
  PROVE  LET after == Started(b)[Batches[b]]
         IN /\ StateOK(after, Batches[b])
            /\ UsedUp(bridge) => UsedUp(after.bridge)
            /\ SomeSkipped(after.batch, Batches[b]) => UsedUp(after.bridge)
<1> DEFINE n == Batches[b]
           S == Started(b)
           Good(k) == /\ StateOK(S[k], n)
                      /\ UsedUp(bridge) => UsedUp(S[k].bridge)
                      /\ SomeSkipped(S[k].batch, n) => UsedUp(S[k].bridge)
                      /\ \A j \in 1..n : j > k => S[k].batch.task[j] = "new"
           Goods == {k \in 0..n : Good(k)}
<1>0. n \in Nat BY EvaluationAssumption
<1>1. S[0] = [bridge |-> bridge, batch |-> batch[b]] /\ \A i \in 1..n : S[i] = FirstStep(S[i - 1], i)
  BY StartedUnfolds
<1> HIDE DEF S
<1>2. Good(0)
  <2>1. S[0].bridge = bridge /\ S[0].batch = batch[b] BY <1>1
  <2>2. BudgetOK(bridge) /\ BatchOK(batch[b], n) BY DEF LimitInv
  <2>3. StateOK(S[0], n) BY <1>1, <2>1, <2>2 DEF StateOK, BudgetOK, BatchOK
  <2>4. ~SomeSkipped(batch[b], n) BY DEF SomeSkipped
  <2> QED BY <2>1, <2>3, <2>4
<1>3. ASSUME NEW k \in 0..n, k < n, Good(k) PROVE Good(k + 1)
  <2>1. k + 1 \in 1..n /\ (k + 1) - 1 = k BY <1>0, <1>3
  <2>2. S[k + 1] = FirstStep(S[k], k + 1) BY <1>1, <2>1
  <2>3. S[k].batch.task[k + 1] = "new" BY <1>3, <2>1
  <2>4. TaskStep(S[k], S[k + 1], n, k + 1)
    BY <1>0, <1>3, <2>1, <2>2, <2>3, FirstStepKeeps
  <2>5. \A j \in 1..n : j > k + 1 => j > k /\ j \in 1..n \ {k + 1} BY <2>1
  <2> QED BY <1>3, <2>4, <2>5 DEF TaskStep
<1>4. n \in Goods
  <2>1. 0 \in Goods BY <1>0, <1>2
  <2>2. \A k \in Goods \cap Nat : k < n => k + 1 \in Goods
    <3> SUFFICES ASSUME NEW k \in Goods, k < n PROVE k + 1 \in Goods OBVIOUS
    <3> HIDE DEF Good
    <3>1. k \in 0..n /\ Good(k) OBVIOUS
    <3>2. Good(k + 1) BY <1>3, <3>1
    <3> QED BY <1>0, <3>1, <3>2
  <2> HIDE DEF Goods
  <2>3. 0..n \subseteq Goods BY <1>0, <2>1, <2>2, UpTo
  <2> QED BY <1>0, <2>3
<1>5. Good(n) BY <1>4
<1> QED BY <1>5 DEF S

----------------------------------------------------------------------------
(* The evaluation keeps its budget *)

\* One batch and the bridge are replaced by what a step makes of them.
LEMMA BatchMoves ==
  ASSUME LimitInv, NEW b \in DOMAIN Batches, NEW after, StateOK(after, Batches[b]),
         UsedUp(bridge) => UsedUp(after.bridge),
         SomeSkipped(after.batch, Batches[b]) => UsedUp(after.bridge),
         bridge' = after.bridge, batch' = [batch EXCEPT ![b] = after.batch]
  PROVE  LimitInv'
<1>1. BudgetOK(bridge') BY DEF StateOK
<1>2. DOMAIN batch' = DOMAIN Batches BY DEF LimitInv
<1>3. ASSUME NEW c \in DOMAIN Batches
      PROVE  /\ BatchOK(batch'[c], Batches[c])
             /\ SomeSkipped(batch'[c], Batches[c]) => UsedUp(bridge')
  <2>1. CASE c = b BY <2>1 DEF StateOK, LimitInv
  <2>2. CASE c # b BY <2>2 DEF LimitInv
  <2> QED BY <2>1, <2>2
<1> QED BY <1>1, <1>2, <1>3 DEF LimitInv, BudgetOK, UsedUp

LEMMA ResumeKeeps ==
  ASSUME LimitInv, NEW b \in DOMAIN Batches, Resume(b)
  PROVE  LimitInv'
<1> DEFINE n == Batches[b]
           x == batch[b]
           i == Head(x.queue)
           y == [x EXCEPT !.queue = Tail(@)]
           s == [bridge |-> bridge, batch |-> y]
           t == Admit(s, i)
<1>0. n \in Nat BY EvaluationAssumption
<1>1. /\ x.queue # <<>> /\ x.free > 0 /\ bridge' = t.bridge
      /\ batch' = [batch EXCEPT ![b] = t.batch]
  BY DEF Resume
<1>2. /\ x \in BatchType(n) /\ BatchOK(x, n) /\ BudgetOK(bridge) /\ x.queue \in Seq(1..n)
      /\ x.free \in Nat
      /\ SomeSkipped(x, n) => UsedUp(bridge)
  BY DEF LimitInv, BatchOK, BatchType
<1> HIDE DEF x, t
<1>3. /\ y \in BatchType(n) /\ y.task = x.task /\ y.queue = Tail(x.queue) /\ y.free = x.free
  <2>1. Tail(x.queue) \in Seq(1..n) BY <1>1, <1>2, HeadTailProperties
  <2> DEFINE rest == Tail(x.queue)
  <2>2. y = [x EXCEPT !.queue = rest] OBVIOUS
  <2> HIDE DEF rest, y
  <2> QED BY <1>2, <2>1, <2>2 DEF BatchType, rest
<1> HIDE DEF y
<1>4. /\ i = x.queue[1] /\ i \in 1..n /\ x.task[i] = "waiting"
      /\ 1 \in DOMAIN x.queue
      /\ \A k \in DOMAIN y.queue : k + 1 \in DOMAIN x.queue /\ k + 1 # 1 /\ y.queue[k] = x.queue[k + 1]
  <2>1. /\ Len(x.queue) \in Nat /\ Len(x.queue) > 0 /\ DOMAIN x.queue = 1..Len(x.queue)
        /\ i = x.queue[1]
    BY <1>1, <1>2, HeadTailProperties
  <2>2. i \in 1..n /\ x.task[i] = "waiting"
    <3>1. 1 \in DOMAIN x.queue BY <2>1
    <3>2. x.task[x.queue[1]] = "waiting" BY <1>2, <3>1 DEF BatchOK
    <3>3. x.queue[1] \in 1..n BY <1>2, <2>1, <3>1, ElementOfSeq
    <3> HIDE DEF i
    <3> QED BY <2>1, <3>2, <3>3
  <2>3. /\ DOMAIN y.queue = 1..(Len(x.queue) - 1)
        /\ \A k \in 1..(Len(x.queue) - 1) : y.queue[k] = x.queue[k + 1]
    BY <1>1, <1>2, <1>3, HeadTailProperties
  <2> QED BY <2>1, <2>2, <2>3
<1> HIDE DEF i
<1>5. /\ \A k \in DOMAIN y.queue : y.task[y.queue[k]] = "waiting"
      /\ \A k \in DOMAIN y.queue : y.queue[k] # i
      /\ \A j, k \in DOMAIN y.queue : y.queue[j] = y.queue[k] => j = k
  <2>1. \A k \in DOMAIN y.queue : y.task[y.queue[k]] = "waiting"
    BY <1>2, <1>3, <1>4 DEF BatchOK
  <2>2. \A k \in DOMAIN y.queue : y.queue[k] # i
    BY <1>2, <1>4 DEF BatchOK
  <2>3. \A k \in DOMAIN y.queue : k \in Int
    BY <1>3 DEF BatchType
  <2>4. \A j, k \in DOMAIN y.queue : y.queue[j] = y.queue[k] => j = k
    BY <1>2, <1>4, <2>3 DEF BatchOK
  <2> QED BY <2>1, <2>2, <2>4
<1>6. BatchOK(y, n)
  <2>1. InGraph(y, n) = InGraph(x, n) BY <1>3 DEF InGraph
  <2> QED BY <1>2, <1>3, <1>5, <2>1 DEF BatchOK
<1>7. StateOK(s, n) BY <1>2, <1>3, <1>6 DEF StateOK, BudgetOK
<1>8. s.batch = y /\ s.bridge = bridge OBVIOUS
<1> HIDE DEF s
<1>9. TaskStep(s, t, n, i)
  <2>1. s.batch.task[i] # "graph" /\ s.batch.free > 0 /\ \A k \in DOMAIN s.batch.queue : s.batch.queue[k] # i
    BY <1>1, <1>3, <1>4, <1>5, <1>8
  <2> QED BY <1>0, <1>4, <1>7, <2>1, AdmitKeeps DEF t
<1>10. /\ StateOK(t, n)
       /\ UsedUp(bridge) => UsedUp(t.bridge)
  BY <1>8, <1>9 DEF TaskStep
<1>11. SomeSkipped(t.batch, n) => UsedUp(t.bridge)
  <2>1. SomeSkipped(y, n) => SomeSkipped(x, n) BY <1>3 DEF SomeSkipped
  <2> QED BY <1>2, <1>8, <1>9, <2>1 DEF TaskStep
<1>12. bridge' = t.bridge /\ batch' = [batch EXCEPT ![b] = t.batch] BY <1>1
<1> QED BY <1>10, <1>11, <1>12, BatchMoves

LEMMA StartKeeps ==
  ASSUME LimitInv, NEW b \in DOMAIN Batches, StartBatch(b)
  PROVE  LimitInv'
<1> DEFINE after == Started(b)[Batches[b]]
<1>1. /\ \A i \in 1..Batches[b] : batch[b].task[i] = "new"
      /\ bridge' = after.bridge /\ batch' = [batch EXCEPT ![b] = after.batch]
  BY DEF StartBatch
<1>2. /\ StateOK(after, Batches[b])
      /\ UsedUp(bridge) => UsedUp(after.bridge)
      /\ SomeSkipped(after.batch, Batches[b]) => UsedUp(after.bridge)
  BY <1>1, StartedKeeps
<1> HIDE DEF after
<1> QED BY <1>1, <1>2, BatchMoves

LEMMA GraphEndsKeeps ==
  ASSUME LimitInv, NEW b \in DOMAIN Batches, NEW i \in 1..Batches[b], GraphEnds(b, i)
  PROVE  LimitInv'
<1> DEFINE n == Batches[b]
           x == batch[b]
           state == "done"
           y == [x EXCEPT !.task[i] = state, !.free = x.free + 1]
           after == [bridge |-> bridge, batch |-> y]
<1>0. n \in Nat BY EvaluationAssumption
<1>1. x.task[i] = "graph" /\ bridge' = bridge BY DEF GraphEnds
<1>2. /\ x \in BatchType(n) /\ BatchOK(x, n) /\ BudgetOK(bridge)
      /\ x.task \in [1..n -> TaskStates] /\ x.queue \in Seq(1..n) /\ x.free \in Nat
      /\ SomeSkipped(x, n) => UsedUp(bridge)
      /\ DOMAIN batch = DOMAIN Batches
  BY DEF LimitInv, BatchOK, BatchType
<1>3. state \in TaskStates /\ state \notin {"waiting", "graph", "skipped"} BY DEF TaskStates
<1> HIDE DEF state
<1>4. batch' = [batch EXCEPT ![b] = y]
  BY <1>2 DEF GraphEnds, state, BatchType
<1> HIDE DEF x
<1>5. /\ y \in BatchType(n) /\ y.task = [x.task EXCEPT ![i] = state]
      /\ y.queue = x.queue /\ y.free = x.free + 1
  <2> DEFINE free == x.free + 1
  <2>1. free \in Nat BY <1>2
  <2>2. y = [x EXCEPT !.task[i] = state, !.free = free] OBVIOUS
  <2> HIDE DEF free, y
  <2>3. /\ y \in BatchType(n) /\ y.task = [x.task EXCEPT ![i] = state]
        /\ y.queue = x.queue /\ y.free = free
    BY <1>2, <1>3, <2>1, <2>2 DEF BatchType
  <2> QED BY <2>3 DEF free
<1> HIDE DEF y
<1>6. \A k \in DOMAIN x.queue : x.queue[k] # i BY <1>1, <1>2 DEF BatchOK
<1>7. y.free = x.free + (IF x.task[i] = "graph" THEN 1 ELSE 0) - (IF state = "graph" THEN 1 ELSE 0)
  BY <1>1, <1>2, <1>3, <1>5
<1>8. BatchOK(y, n)
  <2>1. state # "waiting" BY <1>3
  <2> QED BY <1>0, <1>2, <1>3, <1>5, <1>6, <1>7, <2>1, SetTask
<1>9. SomeSkipped(y, n) => SomeSkipped(x, n) BY <1>2, <1>3, <1>5 DEF SomeSkipped
<1>10. after.bridge = bridge /\ after.batch = y /\ StateOK(after, n)
  BY <1>2, <1>5, <1>8 DEF StateOK, BudgetOK
<1> HIDE DEF after
<1> QED BY <1>1, <1>2, <1>4, <1>9, <1>10, BatchMoves

LEMMA LimitInit == EvaluationInit => LimitInv
<1> SUFFICES ASSUME EvaluationInit PROVE LimitInv OBVIOUS
<1>1. BudgetOK(bridge) BY EvaluationAssumption DEF EvaluationInit, BudgetOK
<1>2. ASSUME NEW b \in DOMAIN Batches
      PROVE  BatchOK(batch[b], Batches[b]) /\ ~SomeSkipped(batch[b], Batches[b])
  <2> DEFINE n == Batches[b]
             x == NewBatch(n)
  <2>1. batch[b] = x /\ n \in Nat BY EvaluationAssumption DEF EvaluationInit
  <2>2. x.task = [i \in 1..n |-> "new"] /\ x.queue = <<>> /\ x.free = Permits /\ x \in BatchType(n)
    BY EvaluationAssumption DEF NewBatch, BatchType, TaskStates
  <2>3. InGraph(x, n) = {} BY <2>2 DEF InGraph
  <2>4. Cardinality(InGraph(x, n)) = 0 BY <2>3, FS_EmptySet
  <2>5. BatchOK(x, n) BY <2>2, <2>4, EvaluationAssumption DEF BatchOK
  <2>6. ~SomeSkipped(x, n) BY <2>2 DEF SomeSkipped
  <2> QED BY <2>1, <2>5, <2>6
<1>3. DOMAIN batch = DOMAIN Batches BY DEF EvaluationInit
<1> QED BY <1>1, <1>2, <1>3 DEF LimitInv

LEMMA LimitStep == LimitInv /\ [EvaluationNext]_evaluationVars => LimitInv'
<1> SUFFICES ASSUME LimitInv, [EvaluationNext]_evaluationVars PROVE LimitInv' OBVIOUS
<1>1. ASSUME UNCHANGED <<bridge, batch>> PROVE LimitInv'
  BY <1>1 DEF LimitInv, BudgetOK, UsedUp
<1>2. CASE \E u \in Testers : CallAgent(u)
  <2>1. bridge' = Extract(bridge) /\ batch' = batch BY <1>2 DEF CallAgent
  <2>2. BudgetOK(bridge') /\ (UsedUp(bridge) => UsedUp(bridge'))
    BY <2>1, ExtractFacts DEF LimitInv
  <2> QED BY <2>1, <2>2 DEF LimitInv, BudgetOK, UsedUp
<1>3. CASE \E b \in DOMAIN Batches : StartBatch(b) BY <1>3, StartKeeps
<1>4. CASE \E b \in DOMAIN Batches : Resume(b) BY <1>4, ResumeKeeps
<1>5. CASE \E b \in DOMAIN Batches : \E i \in 1..Batches[b] : GraphEnds(b, i) BY <1>5, GraphEndsKeeps
<1>6. CASE \E u \in Testers : BeginTest(u) BY <1>1, <1>6 DEF BeginTest
<1>7. CASE \E u \in Testers : AgentAnswers(u) BY <1>1, <1>7 DEF AgentAnswers
<1>8. CASE \E u \in Testers : AgentFails(u) BY <1>1, <1>8 DEF AgentFails
<1>9. CASE \E u \in Testers : FinishRun(u) BY <1>1, <1>9 DEF FinishRun
<1>10. CASE \E j \in DOMAIN Jobs : RunJob(j) BY <1>1, <1>10 DEF RunJob
<1>11. CASE \E j \in DOMAIN Jobs : DetectJob(j) BY <1>1, <1>11 DEF DetectJob
<1>12. CASE UNCHANGED evaluationVars BY <1>1, <1>12 DEF evaluationVars
<1> QED BY <1>2, <1>3, <1>4, <1>5, <1>6, <1>7, <1>8, <1>9, <1>10, <1>11, <1>12 DEF EvaluationNext

\* Whoever calls the bridge, alone or in a batch, no more than max_cases
\* analyses start, no batch has more than its permits of them at a time, and
\* no case is skipped while the limit is not used up.
THEOREM LimitHolds == EvaluationSpec => []LimitIsExact
<1>1. LimitInv => LimitIsExact
  <2> SUFFICES ASSUME LimitInv PROVE LimitIsExact OBVIOUS
  <2>1. MaxCases > 0 => bridge.begun <= MaxCases
    BY EvaluationAssumption DEF LimitInv, BudgetOK
  <2>2. ASSUME NEW b \in DOMAIN Batches
        PROVE  Cardinality(InGraph(batch[b], Batches[b])) <= Permits
    <3> DEFINE n == Batches[b]
               x == batch[b]
    <3>1. BatchOK(x, n) /\ x.free \in Nat BY DEF LimitInv, BatchOK, BatchType
    <3>2. IsFiniteSet(1..n) BY EvaluationAssumption, FS_Interval
    <3>3. Cardinality(InGraph(x, n)) \in Nat BY <3>2, FS_Subset, FS_CardinalityType DEF InGraph
    <3> HIDE DEF x, n
    <3> QED BY <3>1, <3>3, EvaluationAssumption DEF BatchOK, x, n
  <2>3. ASSUME NEW b \in DOMAIN Batches, \E i \in 1..Batches[b] : batch[b].task[i] = "skipped"
        PROVE  bridge.begun = MaxCases
    BY <2>3 DEF LimitInv, SomeSkipped, UsedUp
  <2> QED BY <2>1, <2>2, <2>3 DEF LimitIsExact, InGraph
<1> QED BY <1>1, LimitInit, LimitStep, PTL DEF EvaluationSpec

----------------------------------------------------------------------------
(* The evaluation: a tester that is alone *)

LEMMA BeginKeeps ==
  ASSUME EngineInv, NEW u \in Testers, BeginTest(u) PROVE EngineInv'
<1> DEFINE t == tester[u]
           settings == IF Plan[u] = <<>> THEN config ELSE Plan[u][1]
           others == {v \in Testers \ {u} : Active(v)}
           todo == LoadTestCases(settings)
           s == [t EXCEPT !.pc = "case", !.found = config, !.todo = todo, !.alone = others = {}]
<1>1. /\ t.pc = "idle" /\ config' = settings
      /\ tester' = [v \in Testers |->
           CASE v = u -> s
             [] v \in others -> [tester[v] EXCEPT !.alone = FALSE]
             [] OTHER -> tester[v]]
  BY DEF BeginTest
<1>2. TesterOK(u, t) /\ t.alone /\ t.plan = Plan[u] /\ t.reports = <<>>
  BY <1>1 DEF EngineInv, TesterOK
<1> DEFINE lonely == others = {}
<1>3. /\ DOMAIN s = DOMAIN t /\ s.pc = "case" /\ s.found = config /\ s.plan = Plan[u]
      /\ s.reports = <<>> /\ s.alone = lonely
  <2> HIDE DEF settings, todo, others
  <2> QED BY <1>2 DEF TesterOK
<1>4. tester'[u] = s /\ \A v \in Testers \ {u} :
        tester'[v] = IF v \in others THEN [tester[v] EXCEPT !.alone = FALSE] ELSE tester[v]
  <2> HIDE DEF s
  <2> QED BY <1>1
<1> HIDE DEF s, settings
<1>5. \A v \in Testers \ {u} :
        /\ TesterOK(v, tester'[v]) /\ tester'[v].pc = tester[v].pc
        /\ tester'[v].alone => v \notin others /\ tester'[v] = tester[v]
  <2> SUFFICES ASSUME NEW v \in Testers \ {u}
      PROVE /\ TesterOK(v, tester'[v]) /\ tester'[v].pc = tester[v].pc
            /\ tester'[v].alone => v \notin others /\ tester'[v] = tester[v]
    OBVIOUS
  <2>1. TesterOK(v, tester[v]) BY DEF EngineInv
  <2>2. CASE v \in others
    <3> DEFINE r == [tester[v] EXCEPT !.alone = FALSE]
    <3>1. tester'[v] = r /\ tester[v].pc \in {"case", "graph"} BY <1>4, <2>2 DEF Active
    <3>2. DOMAIN r = DOMAIN tester[v] /\ r.pc = tester[v].pc /\ r.alone = FALSE BY <2>1 DEF TesterOK
    <3> HIDE DEF r
    <3> QED BY <2>1, <3>1, <3>2 DEF TesterOK
  <2>3. CASE v \notin others BY <1>4, <2>1, <2>3
  <2> QED BY <2>2, <2>3
<1>6. DOMAIN tester' = Testers BY <1>1
<1>7. TesterOK(u, s) BY <1>2, <1>3 DEF TesterOK
<1>8. \A v \in Testers \ {u} : Active(v)' <=> v \in others BY <1>5 DEF Active
<1>9. \A v \in Testers : tester'[v].alone => OwnReports(v, tester'[v])
  <2>1. OwnReports(u, s) BY <1>3 DEF OwnReports
  <2> QED BY <1>4, <1>5, <2>1 DEF EngineInv
<1>10. FirstHalf(u, tester[u])' <=> s.plan = Plan[u] /\ s.reports = <<>>
         /\ config' = IF Plan[u] = <<>> THEN s.found ELSE Plan[u][1]
  BY <1>4 DEF FirstHalf
<1>11. FirstHalf(u, tester[u])' BY <1>1, <1>3, <1>10 DEF settings
<1>12. ASSUME NEW v \in Testers, tester'[v].alone, Active(v)'
       PROVE  v = u /\ others = {}
  BY <1>3, <1>4, <1>5, <1>8, <1>12
<1>13. AllAlone' => AllAlone /\ \A v \in Testers : ~Active(v)
  <2> SUFFICES ASSUME AllAlone' PROVE AllAlone /\ \A v \in Testers : ~Active(v) OBVIOUS
  <2>1. others = {} BY <1>3, <1>4 DEF AllAlone
  <2>2. \A v \in Testers \ {u} : tester'[v] = tester[v] BY <1>4, <2>1
  <2>3. ~Active(u) BY <1>1 DEF Active
  <2> QED BY <1>1, <1>2, <2>1, <2>2, <2>3 DEF AllAlone
<1>14. Active(u)' BY <1>3, <1>4 DEF Active
<1>15. AllAlone' => \A v \in Testers : Active(v)' => tester'[v].found = FirstConfig
  BY <1>3, <1>4, <1>8, <1>13 DEF EngineInv
<1> HIDE DEF others
<1> QED
  <2>1. \A v \in Testers : TesterOK(v, tester[v])' BY <1>4, <1>5, <1>7 DEF TesterOK
  <2>2. \A v \in Testers : (tester[v].alone => OwnReports(v, tester[v]))'
    BY <1>9 DEF OwnReports, Wanted
  <2>3. \A v \in Testers : (tester[v].alone /\ Active(v) =>
          /\ \A w \in Testers \ {v} : ~Active(w)
          /\ FirstHalf(v, tester[v]) \/ SecondHalf(v, tester[v]))'
    BY <1>8, <1>11, <1>12
  <2> QED BY <1>6, <1>14, <1>15, <2>1, <2>2, <2>3 DEF EngineInv

\* A tester goes on with its cases, or fails in one.
LEMMA CaseKeeps ==
  ASSUME EngineInv, NEW u \in Testers, NEW s, config' = config, tester' = [tester EXCEPT ![u] = s],
         Active(u), s.pc \in {"case", "graph", "failed"}, DOMAIN s = DOMAIN tester[u],
         s.plan = tester[u].plan, s.found = tester[u].found, s.reports = tester[u].reports,
         s.alone = tester[u].alone
  PROVE  EngineInv'
<1>1. DOMAIN tester' = Testers BY DEF EngineInv
<1>2. tester'[u] = s /\ \A v \in Testers \ {u} : tester'[v] = tester[v] BY DEF EngineInv
<1>3. \A v \in Testers : Active(v)' => Active(v) BY <1>2 DEF Active
<1>4. \A v \in Testers : TesterOK(v, tester[v])' BY <1>2 DEF EngineInv, TesterOK
<1>5. \A v \in Testers : (tester[v].alone => OwnReports(v, tester[v]))'
  BY <1>2 DEF EngineInv, OwnReports, Wanted
<1>6. \A v \in Testers : (tester[v].alone /\ Active(v) =>
        /\ \A w \in Testers \ {v} : ~Active(w)
        /\ FirstHalf(v, tester[v]) \/ SecondHalf(v, tester[v]))'
  BY <1>2, <1>3 DEF EngineInv, FirstHalf, SecondHalf
<1>7. AllAlone' => AllAlone /\ Active(u)' BY <1>2 DEF AllAlone, Active
<1>8. AllAlone' => \A v \in Testers : Active(v)' => tester'[v].found = FirstConfig
  BY <1>2, <1>3, <1>7 DEF EngineInv
<1> QED BY <1>1, <1>4, <1>5, <1>6, <1>7, <1>8 DEF EngineInv

LEMMA ShortSequences ==
  ASSUME NEW q, NEW r
  PROVE  /\ Append(<<>>, r) = <<r>> /\ Append(<<q>>, r) = <<q, r>>
         /\ Tail(<<q, r>>) = <<r>> /\ <<q, r>>[1] = q /\ <<q, r>>[2] = r
         /\ Len(<<>>) = 0 /\ Len(<<r>>) = 1 /\ Len(<<q, r>>) = 2 /\ <<r>> # <<>>
<1>1. Append(<<>>, r) = <<r>> OBVIOUS
<1>2. Append(<<q>>, r) = <<q, r>>
  <2> DEFINE s == Append(<<q>>, r)
             t == <<q, r>>
  <2>1. /\ <<q>> \in Seq({q, r}) /\ r \in {q, r} /\ t \in Seq({q, r}) /\ Len(<<q>>) = 1 /\ Len(t) = 2
        /\ <<q>>[1] = q /\ t[1] = q /\ t[2] = r
    OBVIOUS
  <2>2. s \in Seq({q, r}) /\ Len(s) = 2 /\ s[1] = q /\ s[2] = r BY <2>1, AppendProperties
  <2>3. \A k \in 1..2 : s[k] = t[k]
    <3>1. \A k \in 1..2 : k = 1 \/ k = 2 OBVIOUS
    <3> HIDE DEF s, t
    <3> QED BY <2>1, <2>2, <3>1
  <2> HIDE DEF s, t
  <2>4. s = t BY <2>1, <2>2, <2>3, SeqEqual
  <2> QED BY <2>4 DEF s, t
<1>3. Tail(<<q, r>>) = <<r>> OBVIOUS
<1>4. <<q, r>>[1] = q /\ <<q, r>>[2] = r OBVIOUS
<1>5. Len(<<>>) = 0 /\ Len(<<r>>) = 1 /\ Len(<<q, r>>) = 2 OBVIOUS
<1>6. <<r>> # <<>> OBVIOUS
<1> QED BY <1>1, <1>2, <1>3, <1>4, <1>5, <1>6

LEMMA FinishKeeps ==
  ASSUME EngineInv, NEW u \in Testers, FinishRun(u) PROVE EngineInv'
<1> DEFINE t == tester[u]
           report == Report(t.results, config)
           reports == Append(t.reports, report)
           s == tester'[u]
<1>1. t.pc = "case" /\ Active(u) BY DEF FinishRun, Active
<1>2. TesterOK(u, t) /\ DOMAIN tester = Testers BY DEF EngineInv
<1>3. report.version = config.version BY DEF Report
<1>4. /\ DOMAIN tester' = Testers /\ \A v \in Testers \ {u} : tester'[v] = tester[v]
      /\ DOMAIN s = DOMAIN t /\ s.found = t.found /\ s.alone = t.alone /\ s.reports = reports
      /\ IF Len(t.plan) = 2
         THEN s.pc = "case" /\ s.plan = Tail(t.plan) /\ config' = t.plan[2]
         ELSE s.pc = "done" /\ s.plan = t.plan /\ config' = IF t.plan = <<>> THEN config ELSE t.found
  <2> HIDE DEF report
  <2>1. CASE Len(t.plan) = 2
    <3> DEFINE todo == LoadTestCases(t.plan[2])
    <3>1. /\ config' = t.plan[2]
          /\ tester' = [tester EXCEPT ![u] =
               [[t EXCEPT !.results = <<>>, !.reports = reports] EXCEPT
                  !.plan = Tail(t.plan), !.todo = todo]]
      BY <2>1, <1>2 DEF FinishRun, report, TesterOK
    <3> DEFINE rest == Tail(t.plan)
               r == [[t EXCEPT !.results = <<>>, !.reports = reports] EXCEPT
                       !.plan = rest, !.todo = todo]
    <3>2. tester' = [tester EXCEPT ![u] = r] BY <3>1
    <3>3. s = r /\ \A v \in Testers \ {u} : tester'[v] = tester[v] BY <1>2, <3>2
    <3> HIDE DEF todo, reports, rest
    <3>4. /\ DOMAIN r = DOMAIN t /\ r.found = t.found /\ r.alone = t.alone
          /\ r.reports = reports /\ r.pc = t.pc /\ r.plan = rest
      BY <1>2 DEF TesterOK
    <3> HIDE DEF r, s
    <3>5. DOMAIN tester' = Testers BY <1>2, <3>2
    <3> QED BY <1>1, <2>1, <3>1, <3>3, <3>4, <3>5 DEF rest, s
  <2>2. CASE Len(t.plan) # 2
    <3>1. /\ config' = IF t.plan = <<>> THEN config ELSE t.found
          /\ tester' = [tester EXCEPT ![u] =
               [[t EXCEPT !.results = <<>>, !.reports = reports] EXCEPT !.pc = "done"]]
      BY <2>2, <1>2 DEF FinishRun, report, TesterOK
    <3> HIDE DEF reports
    <3> QED BY <1>2, <2>2, <3>1 DEF TesterOK
  <2> QED BY <2>1, <2>2
<1> HIDE DEF report, s
<1>5. \A v \in Testers : TesterOK(v, tester[v])' BY <1>2, <1>4 DEF EngineInv, TesterOK, s
<1>6. Plan[u] = <<>> \/ Plan[u] = <<Plan[u][1], Plan[u][2]>> BY EvaluationAssumption
<1>7. CASE ~t.alone
  <2>1. \A v \in Testers : tester'[v].alone => v # u /\ tester'[v] = tester[v] BY <1>4, <1>7 DEF s
  <2>2. \A v \in Testers : tester[v].alone => ~Active(v) \/ v = u BY <1>1 DEF EngineInv
  <2>3. ~AllAlone' BY <1>4, <1>7 DEF AllAlone, s
  <2>4. \A v \in Testers : (tester[v].alone => OwnReports(v, tester[v]))'
    BY <2>1 DEF EngineInv, OwnReports, Wanted
  <2>5. \A v \in Testers : ~(tester[v].alone /\ Active(v))' BY <2>1, <2>2 DEF Active
  <2> QED BY <1>4, <1>5, <2>3, <2>4, <2>5 DEF EngineInv
<1>8. CASE t.alone
  <2>1. \A v \in Testers \ {u} : ~Active(v) /\ ~Active(v)' BY <1>1, <1>4, <1>8 DEF EngineInv, Active
  <2>2. OwnReports(u, t) BY <1>8 DEF EngineInv
  <2>3. AllAlone' => AllAlone /\ t.found = FirstConfig
    BY <1>1, <1>4, <1>8 DEF EngineInv, AllAlone
  <2>4. ASSUME OwnReports(u, s), Active(u)' => SecondHalf(u, tester[u])',
               AllAlone' => Active(u)' \/ config' = FirstConfig
        PROVE  EngineInv'
    <3>1. \A v \in Testers : (tester[v].alone => OwnReports(v, tester[v]))'
      BY <1>4, <2>4 DEF EngineInv, OwnReports, Wanted, s
    <3>2. \A v \in Testers : (tester[v].alone /\ Active(v) =>
            /\ \A w \in Testers \ {v} : ~Active(w)
            /\ FirstHalf(v, tester[v]) \/ SecondHalf(v, tester[v]))'
      BY <2>1, <2>4
    <3>3. AllAlone' => \A v \in Testers : Active(v)' => tester'[v].found = FirstConfig
      BY <1>4, <2>1, <2>3 DEF s
    <3> QED BY <1>4, <1>5, <2>4, <3>1, <3>2, <3>3 DEF EngineInv
  <2>5. FirstHalf(u, t) \/ SecondHalf(u, t) BY <1>1, <1>8 DEF EngineInv
  <2>6. CASE Len(t.plan) = 2
    <3>1. FirstHalf(u, t) /\ Plan[u] = <<Plan[u][1], Plan[u][2]>>
      BY <1>6, <2>5, <2>6 DEF FirstHalf, SecondHalf
    <3>2. /\ s.plan = <<Plan[u][2]>> /\ config' = Plan[u][2]
          /\ s.reports = <<report>> /\ report.version = Plan[u][1].version
      <4> DEFINE first == Plan[u][1]
                 second == Plan[u][2]
      <4>1. t.plan = <<first, second>> /\ t.reports = <<>> /\ config = first
        BY <3>1, ShortSequences DEF FirstHalf
      <4> HIDE DEF first, second
      <4>2. Tail(t.plan) = <<second>> /\ t.plan[2] = second /\ reports = <<report>>
        BY <4>1, ShortSequences
      <4> QED BY <1>3, <1>4, <2>6, <4>1, <4>2 DEF first, second
    <3>3. Plan[u] # <<>> BY <3>1
    <3>4. OwnReports(u, s) BY <3>2, <3>3 DEF OwnReports, Wanted
    <3>5. SecondHalf(u, tester[u])' BY <3>2, <3>3 DEF SecondHalf, s
    <3>6. Active(u)' BY <1>4, <2>6 DEF Active, s
    <3> QED BY <2>4, <3>4, <3>5, <3>6
  <2>7. CASE Len(t.plan) # 2
    <3>1. s.pc = "done" /\ ~Active(u)' BY <1>4, <2>7 DEF Active, s
    <3>2. CASE FirstHalf(u, t)
      <4>1. t.plan = <<>> /\ Plan[u] = <<>> /\ config = t.found /\ config' = t.found
            /\ s.reports = <<report>>
        <5>1. t.plan = <<>>
          <6> DEFINE first == Plan[u][1]
                     second == Plan[u][2]
          <6>1. t.plan = <<>> \/ t.plan = <<first, second>> BY <1>6, <3>2 DEF FirstHalf
          <6> HIDE DEF first, second
          <6> QED BY <2>7, <6>1, ShortSequences
        <5>2. Plan[u] = <<>> /\ config = t.found /\ t.reports = <<>> BY <3>2, <5>1 DEF FirstHalf
        <5>3. reports = <<report>> BY <5>2, ShortSequences
        <5> QED BY <1>4, <2>7, <5>1, <5>2, <5>3
      <4>2. OwnReports(u, s) BY <1>3, <1>4, <4>1 DEF OwnReports, Wanted
      <4> QED BY <2>3, <2>4, <3>1, <4>1, <4>2
    <3>3. CASE SecondHalf(u, t)
      <4>1. /\ Plan[u] # <<>> /\ t.plan # <<>> /\ config' = t.found /\ report.version = Plan[u][2].version
            /\ s.reports = <<t.reports[1], report>> /\ t.reports[1].version = Plan[u][1].version
        <5> DEFINE second == Plan[u][2]
                   old == t.reports[1]
        <5>1. /\ Plan[u] # <<>> /\ t.plan = <<second>> /\ t.reports = <<old>>
              /\ config = second /\ old.version = Plan[u][1].version
          BY <3>3 DEF SecondHalf
        <5> HIDE DEF second, old
        <5>2. reports = <<old, report>>
          <6>1. Append(<<old>>, report) = <<old, report>> BY ShortSequences
          <6>2. reports = Append(<<old>>, report) BY <5>1
          <6> QED BY <6>1, <6>2
        <5>3. t.plan # <<>> BY <5>1, ShortSequences
        <5> QED BY <1>3, <1>4, <2>7, <5>1, <5>2, <5>3 DEF old, second
      <4>2. OwnReports(u, s) BY <4>1 DEF OwnReports, Wanted
      <4> QED BY <2>3, <2>4, <3>1, <4>1, <4>2
    <3> QED BY <2>5, <3>2, <3>3
  <2> QED BY <2>6, <2>7
<1> QED BY <1>7, <1>8

LEMMA EngineInit == EvaluationInit => EngineInv
<1> SUFFICES ASSUME EvaluationInit PROVE EngineInv OBVIOUS
<1>1. \A u \in Testers : /\ TesterOK(u, tester[u]) /\ tester[u].reports = <<>>
                         /\ tester[u].pc = "idle" /\ tester[u].found = FirstConfig
  BY DEF EvaluationInit, TesterOK
<1>2. DOMAIN tester = Testers /\ config = FirstConfig BY DEF EvaluationInit
<1> QED BY <1>1, <1>2 DEF EngineInv, OwnReports, Active

LEMMA EngineStep == EngineInv /\ [EvaluationNext]_evaluationVars => EngineInv'
<1> SUFFICES ASSUME EngineInv, [EvaluationNext]_evaluationVars PROVE EngineInv' OBVIOUS
<1>1. ASSUME UNCHANGED <<config, tester>> PROVE EngineInv'
  BY <1>1 DEF EngineInv, TesterOK, OwnReports, Wanted, Active, FirstHalf, SecondHalf, AllAlone
<1>2. CASE \E u \in Testers : CallAgent(u)
  <2>1. PICK u \in Testers : CallAgent(u) BY <1>2
  <2> DEFINE t == tester[u]
             todo == OtherCases(t.todo)
             results == Append(t.results, Scored(NextCase(t.todo), <<>>))
             s == IF Runs(bridge, bridge') THEN [t EXCEPT !.pc = "graph"]
                  ELSE [t EXCEPT !.todo = todo, !.results = results]
  <2>2. /\ tester' = [tester EXCEPT ![u] = s] /\ config' = config
        /\ t.pc = "case" /\ Active(u) /\ TesterOK(u, t)
    BY <2>1 DEF CallAgent, Active, EngineInv
  <2> HIDE DEF todo, results
  <2>3. /\ s.pc \in {"case", "graph", "failed"} /\ DOMAIN s = DOMAIN t /\ s.plan = t.plan
        /\ s.found = t.found /\ s.reports = t.reports /\ s.alone = t.alone
    BY <2>2 DEF TesterOK
  <2> HIDE DEF s
  <2> QED BY <2>2, <2>3, CaseKeeps
<1>3. CASE \E u \in Testers : AgentAnswers(u)
  <2>1. PICK u \in Testers : AgentAnswers(u) BY <1>3
  <2> DEFINE t == tester[u]
             todo == OtherCases(t.todo)
             results(answer) == Append(t.results, Scored(NextCase(t.todo), answer))
  <2>2. PICK answer \in Answers[NextCase(t.todo)] :
          tester' = [tester EXCEPT ![u] =
            [t EXCEPT !.pc = "case", !.todo = todo, !.results = results(answer)]]
    BY <2>1 DEF AgentAnswers
  <2> DEFINE s == [t EXCEPT !.pc = "case", !.todo = todo, !.results = results(answer)]
  <2>3. tester' = [tester EXCEPT ![u] = s] /\ config' = config /\ Active(u) /\ TesterOK(u, t)
    BY <2>1, <2>2 DEF AgentAnswers, Active, EngineInv
  <2> HIDE DEF todo, results
  <2>4. /\ s.pc \in {"case", "graph", "failed"} /\ DOMAIN s = DOMAIN t /\ s.plan = t.plan
        /\ s.found = t.found /\ s.reports = t.reports /\ s.alone = t.alone
    BY <2>3 DEF TesterOK
  <2> HIDE DEF s
  <2> QED BY <2>3, <2>4, CaseKeeps
<1>4. CASE \E u \in Testers : AgentFails(u)
  <2>1. PICK u \in Testers : AgentFails(u) BY <1>4
  <2> DEFINE t == tester[u]
             s == [t EXCEPT !.pc = "failed"]
  <2>2. tester' = [tester EXCEPT ![u] = s] /\ config' = config /\ Active(u) /\ TesterOK(u, t)
    BY <2>1 DEF AgentFails, Active, EngineInv
  <2>3. /\ s.pc \in {"case", "graph", "failed"} /\ DOMAIN s = DOMAIN t /\ s.plan = t.plan
        /\ s.found = t.found /\ s.reports = t.reports /\ s.alone = t.alone
    BY <2>2 DEF TesterOK
  <2> HIDE DEF s
  <2> QED BY <2>2, <2>3, CaseKeeps
<1>5. CASE \E u \in Testers : BeginTest(u) BY <1>5, BeginKeeps
<1>6. CASE \E u \in Testers : FinishRun(u) BY <1>6, FinishKeeps
<1>7. CASE \E b \in DOMAIN Batches : StartBatch(b) BY <1>1, <1>7 DEF StartBatch
<1>8. CASE \E b \in DOMAIN Batches : Resume(b) BY <1>1, <1>8 DEF Resume
<1>9. CASE \E b \in DOMAIN Batches : \E i \in 1..Batches[b] : GraphEnds(b, i)
  BY <1>1, <1>9 DEF GraphEnds
<1>10. CASE \E j \in DOMAIN Jobs : RunJob(j) BY <1>1, <1>10 DEF RunJob
<1>11. CASE \E j \in DOMAIN Jobs : DetectJob(j) BY <1>1, <1>11 DEF DetectJob
<1>12. CASE UNCHANGED evaluationVars BY <1>1, <1>12 DEF evaluationVars
<1> QED BY <1>2, <1>3, <1>4, <1>5, <1>6, <1>7, <1>8, <1>9, <1>10, <1>11, <1>12 DEF EvaluationNext

\* A tester that had the engine for itself reports under the configurations
\* it asked for, and while none failed or shared it the idle engine has the
\* configuration it was made with.
THEOREM AloneHasEngine == EvaluationSpec => []AloneMeansOwn
<1>1. EngineInv => AloneMeansOwn
  <2> SUFFICES ASSUME EngineInv PROVE AloneMeansOwn OBVIOUS
  <2>1. \A u \in Testers : tester[u].alone => OwnReports(u, tester[u]) BY DEF EngineInv
  <2>2. (\A u \in Testers : tester[u].alone /\ tester[u].pc \in {"idle", "done"}) => config = FirstConfig
    BY DEF EngineInv, AllAlone, Active
  <2> QED BY <2>1, <2>2 DEF AloneMeansOwn, OwnReports, Wanted
<1> QED BY <1>1, EngineInit, EngineStep, PTL DEF EvaluationSpec

----------------------------------------------------------------------------
(* The scoring *)

\* What may be paired in a category, and that nothing is paired twice.
Links(extracted, expected, name) ==
  {p \in InCategory(extracted, name) \X InCategory(expected, name) :
     IsMatch(extracted[p[1]], expected[p[2]])}

OneToOne(M) == \A p, q \in M : p # q => p[1] # q[1] /\ p[2] # q[2]

\* M is what has been paired after n points: a matching of the size counted,
\* which leaves no link of these points between two free ends.
PairedOff(M, found, links, n) ==
  /\ M \subseteq links /\ OneToOne(M) /\ IsFiniteSet(M)
  /\ found.tp = Cardinality(M) /\ found.matched = {p[2] : p \in M}
  /\ \A p \in M : p[1] <= n
  /\ \A p \in links : p[1] <= n => \E q \in M : q[1] = p[1] \/ q[2] = p[2]

LEMMA LeastFound ==
  ASSUME NEW S \in SUBSET Nat, S # {}
  PROVE  Least(S) \in S /\ \A j \in S : Least(S) <= j
<1>1. \E i \in S : \A j \in S : i <= j
  BY LeastNatural
<1> QED BY <1>1 DEF Least

\* A function that pairs the points one by one.
Pairs(paired, extracted, expected, name) ==
  /\ paired[0] = Nothing
  /\ \A n \in 1..Len(extracted) :
       paired[n] = Take(paired[n - 1],
                        Matching(extracted, expected, name, n) \ paired[n - 1].matched)

\* The recursive definition of Pair defines one.
LEMMA PairUnfolds ==
  ASSUME NEW extracted, Len(extracted) \in Nat, NEW expected, NEW name
  PROVE  Pairs(Pair(extracted, expected, name), extracted, expected, name)
<1> DEFINE N == Len(extracted)
           Step(g, n) == Take(g[n - 1], Matching(extracted, expected, name, n) \ g[n - 1].matched)
           Unfolds(g, m) == g = [n \in 0..m |-> IF n = 0 THEN Nothing ELSE Step(g, n)]
           Bad == {m \in Nat : ~ \E g : Unfolds(g, m)}
           paired == Pair(extracted, expected, name)
<1>1. ASSUME NEW m \in Nat, NEW g, Unfolds(g, m) PROVE \E h : Unfolds(h, m + 1)
  <2> DEFINE h == [n \in 0..(m + 1) |-> IF n = 0 THEN Nothing ELSE Step(g, n)]
  <2>1. \A n \in 0..m : h[n] = g[n]
    <3> HIDE DEF Step
    <3> QED BY <1>1
  <2>2. \A n \in 0..(m + 1) : n # 0 => n - 1 \in 0..m OBVIOUS
  <2>3. \A n \in 0..(m + 1) : n # 0 => Step(h, n) = Step(g, n) BY <2>1, <2>2
  <2> HIDE DEF Step
  <2>4. Unfolds(h, m + 1) BY <2>3
  <2> QED BY <2>4
<1>2. Unfolds([n \in 0..0 |-> Nothing], 0) OBVIOUS
<1>3. Bad = {}
  <2> SUFFICES ASSUME Bad # {} PROVE FALSE OBVIOUS
  <2>1. PICK d \in Bad : \A m \in Bad : d <= m
    <3>1. Bad \in SUBSET Nat OBVIOUS
    <3> HIDE DEF Bad
    <3> QED BY <3>1, LeastNatural
  <2>2. d # 0 BY <1>2
  <2>3. d - 1 \in Nat /\ d - 1 \notin Bad /\ (d - 1) + 1 = d
    <3>1. d \in Nat OBVIOUS
    <3> HIDE DEF Bad
    <3> QED BY <2>1, <2>2, <3>1
  <2>4. PICK g : Unfolds(g, d - 1) BY <2>3
  <2> HIDE DEF Unfolds
  <2>5. \E h : Unfolds(h, d) BY <1>1, <2>3, <2>4
  <2> QED BY <2>5
<1>4. \E g : Unfolds(g, N) BY <1>3
<1>5. Pair(extracted, expected, name) = CHOOSE g : Unfolds(g, N) BY DEF Pair
<1>6. Unfolds(Pair(extracted, expected, name), N)
  <2> HIDE DEF Unfolds
  <2> QED BY <1>4, <1>5
<1> HIDE DEF Step, paired
<1>7. paired = [n \in 0..N |-> IF n = 0 THEN Nothing ELSE Step(paired, n)]
  BY <1>6 DEF paired
<1>8. 0 \in 0..N /\ \A n \in 1..N : n \in 0..N /\ n # 0
  OBVIOUS
<1>9. paired[0] = Nothing /\ \A n \in 1..N : paired[n] = Step(paired, n)
  BY <1>7, <1>8
<1>10. Pairs(paired, extracted, expected, name)
  BY <1>9 DEF Step, Pairs
<1> QED BY <1>10 DEF paired

\* One point more.
LEMMA TakeKeeps ==
  ASSUME NEW extracted, Len(extracted) \in Nat, DOMAIN extracted = 1..Len(extracted),
         NEW expected, DOMAIN expected \subseteq Nat, NEW name,
         NEW n \in 1..Len(extracted), NEW found, NEW M,
         PairedOff(M, found, Links(extracted, expected, name), n - 1)
  PROVE  \E K : PairedOff(K, Take(found, Matching(extracted, expected, name, n) \ found.matched),
                          Links(extracted, expected, name), n)
<1> DEFINE links == Links(extracted, expected, name)
           free == Matching(extracted, expected, name, n) \ found.matched
           j == Least(free)
           K == M \cup {<<n, j>>}
<1>0. \A p \in links : p = <<p[1], p[2]>> /\ p[1] \in Nat /\ p[2] \in Nat
  BY DEF Links, InCategory
<1>1. \A p \in links : p[1] = n => p[2] \in Matching(extracted, expected, name, n)
  BY DEF Links, Matching
<1>2. \A i \in Matching(extracted, expected, name, n) : <<n, i>> \in links
  BY DEF Links, Matching
<1>3. \A p \in links : p[1] <= n => p[1] <= n - 1 \/ p[1] = n
  BY <1>0
<1>6. PairedOff(M, found, links, n - 1)
  OBVIOUS
<1>4. CASE free = {}
  <2>1. \A p \in links : p[1] = n => \E q \in M : q[2] = p[2]
    BY <1>1, <1>4 DEF PairedOff
  <2>2. PairedOff(M, found, links, n)
    <3> HIDE DEF links, free
    <3> QED BY <1>3, <1>6, <2>1, <1>0 DEF PairedOff
  <2> QED BY <1>4, <2>2 DEF Take
<1>5. CASE free # {}
  <2>1. j \in free
    <3>1. free \in SUBSET Nat
      BY DEF Matching, InCategory
    <3> HIDE DEF free
    <3> QED BY <3>1, <1>5, LeastFound
  <2>2. <<n, j>> \in links /\ j \notin found.matched
    BY <2>1, <1>2
  <2> DEFINE taken == [tp |-> found.tp + 1, matched |-> found.matched \cup {j}]
  <2>3. Take(found, free) = taken
    BY <1>5 DEF Take
  <2> HIDE DEF links, free, j
  <2>4. \A p \in M : p \in links /\ p[1] < n /\ p[1] # n /\ p[2] # j
    BY <1>0, <1>6, <2>2 DEF PairedOff
  <2>5. <<n, j>> \notin M
    BY <2>4
  <2>6. IsFiniteSet(K) /\ Cardinality(K) = Cardinality(M) + 1
    BY <1>6, <2>5, FS_AddElement DEF PairedOff
  <2>7. OneToOne(K)
    BY <1>6, <2>4 DEF PairedOff, OneToOne
  <2>8. {p[2] : p \in K} = found.matched \cup {j}
    <3> DEFINE e == <<n, j>>
    <3>1. e[2] = j /\ K = M \cup {e} /\ found.matched = {p[2] : p \in M}
      BY <1>6 DEF PairedOff
    <3> HIDE DEF e, K
    <3> QED BY <3>1
  <2>9. K \subseteq links /\ \A p \in K : p[1] <= n
    BY <1>0, <1>6, <2>2, <2>4 DEF PairedOff
  <2>10. \A p \in links : p[1] <= n => \E q \in K : q[1] = p[1] \/ q[2] = p[2]
    BY <1>3, <1>6 DEF PairedOff
  <2>11. taken.tp = Cardinality(K) /\ taken.matched = {p[2] : p \in K}
    BY <1>6, <2>6, <2>8 DEF PairedOff
  <2> HIDE DEF taken, K
  <2>12. PairedOff(K, taken, links, n)
    BY <2>6, <2>7, <2>9, <2>10, <2>11 DEF PairedOff
  <2> QED BY <2>3, <2>12 DEF free, links
<1> QED BY <1>4, <1>5

\* The greedy pairing of a category is a matching that none contains.
LEMMA PairFinds ==
  ASSUME NEW extracted, Len(extracted) \in Nat, DOMAIN extracted = 1..Len(extracted),
         NEW expected, DOMAIN expected \subseteq Nat, NEW name
  PROVE  \E M : PairedOff(M, Pair(extracted, expected, name)[Len(extracted)],
                          Links(extracted, expected, name), Len(extracted))
<1> DEFINE N == Len(extracted)
           links == Links(extracted, expected, name)
           g == Pair(extracted, expected, name)
           Paired(n) == \E M : PairedOff(M, g[n], links, n)
           Good == {n \in 0..N : Paired(n)}
<1>0. Pairs(g, extracted, expected, name)
  BY PairUnfolds
<1> HIDE DEF g
<1>1. g[0] = Nothing
  BY <1>0 DEF Pairs
<1>2. \A n \in 1..N :
        g[n] = Take(g[n - 1], Matching(extracted, expected, name, n) \ g[n - 1].matched)
  BY <1>0 DEF Pairs
<1>3. 0 \in Good
  <2>1. \A p \in links : ~(p[1] <= 0)
    BY DEF Links, InCategory
  <2> HIDE DEF links
  <2>2. PairedOff({}, g[0], links, 0)
    BY <1>1, <2>1, FS_EmptySet DEF PairedOff, OneToOne, Nothing
  <2> QED BY <2>2
<1>4. ASSUME NEW n \in Good, n < N PROVE n + 1 \in Good
  <2>1. n \in 0..N /\ n + 1 \in 1..N /\ n + 1 \in 0..N /\ (n + 1) - 1 = n /\ Paired(n)
    <3> HIDE DEF Paired
    <3> QED BY <1>4
  <2>2. PICK M : PairedOff(M, g[n], links, n)
    <3> HIDE DEF links
    <3> QED BY <2>1
  <2>3. \E K : PairedOff(K, Take(g[n], Matching(extracted, expected, name, n + 1) \ g[n].matched),
                         links, n + 1)
    BY <2>1, <2>2, TakeKeeps
  <2> HIDE DEF links
  <2>4. Paired(n + 1)
    BY <1>2, <2>1, <2>3
  <2> HIDE DEF Paired
  <2> QED BY <2>1, <2>4
<1>5. N \in Good
  <2> HIDE DEF Good
  <2>1. \A n \in Good \cap Nat : n < N => n + 1 \in Good
    BY <1>4
  <2>2. 0..N \subseteq Good
    BY <1>3, <2>1, UpTo
  <2> QED BY <2>2
<1>6. Paired(N)
  <2> HIDE DEF Paired
  <2> QED BY <1>5
<1> QED BY <1>6 DEF g

\* Pairs of a matching that share one kind of end with pairs of M are no more
\* than these.
LEMMA SharedEnds ==
  ASSUME NEW M, IsFiniteSet(M), NEW N, OneToOne(N), NEW e \in {1, 2},
         \A p \in N : \E q \in M : q[e] = p[e]
  PROVE  IsFiniteSet(N) /\ Cardinality(N) <= Cardinality(M)
<1> DEFINE f == [p \in N |-> CHOOSE q \in M : q[e] = p[e]]
<1>1. \A p \in N : f[p] \in M /\ f[p][e] = p[e]
  OBVIOUS
<1>2. \A p, q \in N : p # q => p[e] # q[e]
  BY DEF OneToOne
<1>3. f \in [N -> M]
  BY <1>1
<1> HIDE DEF f
<1>4. f \in Injection(N, M)
  BY <1>1, <1>2, <1>3 DEF Injection, IsInjective
<1> QED BY <1>4, FS_Injection

\* If every pair of a matching shares an end with one of M, it has at most
\* twice as many pairs: each pair of M is in the way of two.
LEMMA AtMostTwice ==
  ASSUME NEW M, IsFiniteSet(M), NEW N, OneToOne(N),
         \A p \in N : \E q \in M : q[1] = p[1] \/ q[2] = p[2]
  PROVE  IsFiniteSet(N) /\ Cardinality(N) <= 2 * Cardinality(M)
<1> DEFINE N1 == {p \in N : \E q \in M : q[1] = p[1]}
           N2 == {p \in N : \E q \in M : q[2] = p[2]}
<1>1. N = N1 \cup N2 /\ OneToOne(N1) /\ OneToOne(N2)
  BY DEF OneToOne
<1>2. /\ \A p \in N1 : \E q \in M : q[1] = p[1]
      /\ \A p \in N2 : \E q \in M : q[2] = p[2]
  OBVIOUS
<1> HIDE DEF N1, N2
<1>3. IsFiniteSet(N1) /\ Cardinality(N1) <= Cardinality(M)
  BY <1>1, <1>2, SharedEnds
<1>4. IsFiniteSet(N2) /\ Cardinality(N2) <= Cardinality(M)
  BY <1>1, <1>2, SharedEnds
<1>5. IsFiniteSet(N1 \cap N2)
  BY <1>3, FS_Subset
<1>6. IsFiniteSet(N) /\ Cardinality(N) = Cardinality(N1) + Cardinality(N2) - Cardinality(N1 \cap N2)
  BY <1>1, <1>3, <1>4, FS_Union
<1>7. /\ Cardinality(M) \in Nat /\ Cardinality(N1) \in Nat /\ Cardinality(N2) \in Nat
      /\ Cardinality(N1 \cap N2) \in Nat
  BY <1>3, <1>4, <1>5, FS_CardinalityType
<1> QED BY <1>3, <1>4, <1>6, <1>7

\* A matching has as many second ends as pairs.
LEMMA SecondEnds ==
  ASSUME NEW M, IsFiniteSet(M), OneToOne(M)
  PROVE  /\ IsFiniteSet({p[2] : p \in M})
         /\ Cardinality({p[2] : p \in M}) = Cardinality(M)
<1> DEFINE T == {p[2] : p \in M}
           f == [p \in M |-> p[2]]
<1>1. f \in [M -> T] /\ \A t \in T : \E p \in M : f[p] = t
  OBVIOUS
<1>2. \A p, q \in M : f[p] = f[q] => p = q
  BY DEF OneToOne
<1> HIDE DEF f, T
<1>3. f \in Bijection(M, T)
  BY <1>1, <1>2 DEF Bijection, Injection, IsInjective, Surjection
<1>4. ExistsBijection(M, T)
  BY <1>3 DEF ExistsBijection
<1>5. IsFiniteSet(T) /\ Cardinality(T) = Cardinality(M)
  BY <1>4, FS_Bijection
<1> QED BY <1>5 DEF T

LEMMA DisjointUnion ==
  ASSUME NEW A, IsFiniteSet(A), NEW B, IsFiniteSet(B), A \cap B = {}
  PROVE  /\ IsFiniteSet(A \cup B) /\ Cardinality(A \cup B) = Cardinality(A) + Cardinality(B)
         /\ Cardinality(A) \in Nat /\ Cardinality(B) \in Nat
<1>1. IsFiniteSet(A \cup B) /\ Cardinality(A \cup B) = Cardinality(A) + Cardinality(B) - Cardinality(A \cap B)
  BY FS_Union
<1>2. Cardinality(A) \in Nat /\ Cardinality(B) \in Nat /\ Cardinality({}) = 0
  BY FS_CardinalityType, FS_EmptySet
<1>3. Cardinality(A \cap B) = 0
  BY <1>2
<1> QED BY <1>1, <1>2, <1>3

\* The size of five disjoint sets.
LEMMA FiveSets ==
  ASSUME NEW S, \A k \in 1..5 : IsFiniteSet(S[k]),
         \A j, k \in 1..5 : j # k => S[j] \cap S[k] = {}
  PROVE  LET all == S[1] \cup S[2] \cup S[3] \cup S[4] \cup S[5]
         IN  /\ IsFiniteSet(all)
             /\ Cardinality(all) = Cardinality(S[1]) + Cardinality(S[2]) + Cardinality(S[3])
                                     + Cardinality(S[4]) + Cardinality(S[5])
             /\ \A k \in 1..5 : Cardinality(S[k]) \in Nat
<1> DEFINE A == S[1] \cup S[2]
           B == A \cup S[3]
           C == B \cup S[4]
           D == C \cup S[5]
<1>1. /\ IsFiniteSet(S[1]) /\ IsFiniteSet(S[2]) /\ IsFiniteSet(S[3]) /\ IsFiniteSet(S[4])
      /\ IsFiniteSet(S[5])
  OBVIOUS
<1>2. /\ S[1] \cap S[2] = {} /\ A \cap S[3] = {} /\ B \cap S[4] = {} /\ C \cap S[5] = {}
  <2>1. /\ S[1] \cap S[2] = {} /\ S[1] \cap S[3] = {} /\ S[1] \cap S[4] = {} /\ S[1] \cap S[5] = {}
        /\ S[2] \cap S[3] = {} /\ S[2] \cap S[4] = {} /\ S[2] \cap S[5] = {}
        /\ S[3] \cap S[4] = {} /\ S[3] \cap S[5] = {} /\ S[4] \cap S[5] = {}
    OBVIOUS
  <2> QED BY <2>1
<1>3. IsFiniteSet(A) /\ Cardinality(A) = Cardinality(S[1]) + Cardinality(S[2])
  BY <1>1, <1>2, DisjointUnion
<1> HIDE DEF A
<1>4. IsFiniteSet(B) /\ Cardinality(B) = Cardinality(A) + Cardinality(S[3])
  BY <1>1, <1>2, <1>3, DisjointUnion
<1> HIDE DEF B
<1>5. IsFiniteSet(C) /\ Cardinality(C) = Cardinality(B) + Cardinality(S[4])
  BY <1>1, <1>2, <1>4, DisjointUnion
<1> HIDE DEF C
<1>6. IsFiniteSet(D) /\ Cardinality(D) = Cardinality(C) + Cardinality(S[5])
  BY <1>1, <1>2, <1>5, DisjointUnion
<1>7. \A k \in 1..5 : Cardinality(S[k]) \in Nat
  BY FS_CardinalityType
<1> QED BY <1>3, <1>4, <1>5, <1>6, <1>7 DEF A, B, C

\* Given the annotated answer itself, the greedy pairing pairs everything: the
\* first free point that matches the n-th is the n-th.
LEMMA PairsItself ==
  ASSUME NEW points, Len(points) \in Nat, DOMAIN points = 1..Len(points), NEW name
  PROVE  Pair(points, points, name)[Len(points)].matched = InCategory(points, name)
<1> DEFINE N == Len(points)
           In == InCategory(points, name)
           g == Pair(points, points, name)
           Upto(n) == {i \in In : i <= n}
           Good == {n \in 0..N : g[n].matched = Upto(n)}
<1>0. Pairs(g, points, points, name)
  BY PairUnfolds
<1> HIDE DEF g
<1>1. In \subseteq 1..N
  BY DEF InCategory
<1>2. 0 \in Good
  <2>1. g[0].matched = {}
    BY <1>0 DEF Pairs, Nothing
  <2>2. Upto(0) = {}
    BY <1>1
  <2> QED BY <2>1, <2>2
<1>3. ASSUME NEW n \in Good, n < N PROVE n + 1 \in Good
  <2> DEFINE m == n + 1
             matching == Matching(points, points, name, m)
             free == matching \ g[n].matched
  <2>1. n \in 0..N /\ m \in 1..N /\ m - 1 = n /\ g[n].matched = Upto(n)
    BY <1>3
  <2>2. g[m] = Take(g[n], free)
    BY <1>0, <2>1 DEF Pairs
  <2>3. CASE m \in In
    <3>1. m \in matching
      BY <2>3 DEF Matching, InCategory, IsMatch, ExactTitle
    <3>2. matching \subseteq In
      BY DEF Matching
    <3>3. m \in free /\ \A i \in free : m <= i
      BY <2>1, <3>1, <3>2, <1>1
    <3>4. free \in SUBSET Nat
      BY <3>2, <1>1
    <3> HIDE DEF free
    <3>5. Least(free) = m
      <4>1. Least(free) \in free /\ \A j \in free : Least(free) <= j
        BY <3>3, <3>4, LeastFound
      <4> DEFINE l == Least(free)
      <4>2. l \in Nat /\ m \in Nat /\ m <= l /\ l <= m
        BY <3>3, <3>4, <4>1, <2>1
      <4> HIDE DEF l, m
      <4>3. l = m
        BY <4>2
      <4> QED BY <4>3 DEF l
    <3>6. g[m].matched = g[n].matched \cup {m}
      BY <2>2, <3>3, <3>5 DEF Take
    <3>7. Upto(m) = Upto(n) \cup {m}
      BY <2>1, <2>3, <1>1
    <3> QED BY <2>1, <3>6, <3>7
  <2>4. CASE m \notin In
    <3>1. free = {}
      BY <2>4 DEF Matching
    <3>2. g[m] = g[n]
      BY <2>2, <3>1 DEF Take
    <3>3. Upto(m) = Upto(n)
      BY <2>1, <2>4, <1>1
    <3> QED BY <2>1, <3>2, <3>3
  <2> QED BY <2>3, <2>4
<1>4. N \in Good
  <2> HIDE DEF Good
  <2>1. \A n \in Good \cap Nat : n < N => n + 1 \in Good
    BY <1>3
  <2>2. 0..N \subseteq Good
    BY <1>2, <2>1, UpTo
  <2> QED BY <2>2
<1>5. Upto(N) = In
  BY <1>1
<1> QED BY <1>4, <1>5 DEF g

LEMMA FiveNames ==
  /\ ToSet(CategoryNames) = {CategoryNames[k] : k \in 1..5}
  /\ \A j, k \in 1..5 : j # k => CategoryNames[j] # CategoryNames[k]
<1>1. DOMAIN CategoryNames = 1..5
  BY DEF CategoryNames
<1>2. \A j, k \in {1, 2, 3, 4, 5} : j # k => CategoryNames[j] # CategoryNames[k]
  BY DEF CategoryNames
<1> QED BY <1>1, <1>2 DEF ToSet

\* A link of two points of a known category is one of that category's links.
LEMMA LinkedInCategory ==
  ASSUME NEW extracted, NEW expected,
         NEW i \in DOMAIN extracted, NEW j \in DOMAIN expected,
         extracted[i].category \in ToSet(CategoryNames), IsMatch(extracted[i], expected[j])
  PROVE  \E k \in 1..5 : <<i, j>> \in Links(extracted, expected, CategoryNames[k])
<1>1. PICK k \in 1..5 : extracted[i].category = CategoryNames[k]
  BY FiveNames
<1>2. expected[j].category = CategoryNames[k]
  BY <1>1 DEF IsMatch
<1> QED BY <1>1, <1>2 DEF Links, InCategory

\* The pairs of the five categories together: a matching as large as the true
\* positives, which shares an end with every pair of any other.
LEMMA ScoreIsMatching ==
  ASSUME NEW extracted, Len(extracted) \in Nat, DOMAIN extracted = 1..Len(extracted),
         NEW expected, DOMAIN expected \subseteq Nat
  PROVE  \E M \in Matchings(extracted, expected) :
           /\ IsFiniteSet(M) /\ Cardinality(M) = Evaluate(extracted, expected)[1]
           /\ \A N \in Matchings(extracted, expected) : \A p \in N :
                \E q \in M : q[1] = p[1] \/ q[2] = p[2]
           /\ \A k \in 1..5 :
                Pair(extracted, expected, CategoryNames[k])[Len(extracted)].matched \subseteq {q[2] : q \in M}
<1> DEFINE L == Len(extracted)
           name(k) == CategoryNames[k]
           found(k) == Pair(extracted, expected, name(k))[L]
           links(k) == Links(extracted, expected, name(k))
           S == [k \in 1..5 |-> CHOOSE M : PairedOff(M, found(k), links(k), L)]
           all == S[1] \cup S[2] \cup S[3] \cup S[4] \cup S[5]
<1>1. \A k \in 1..5 : PairedOff(S[k], found(k), links(k), L)
  <2> SUFFICES ASSUME NEW k \in 1..5 PROVE PairedOff(S[k], found(k), links(k), L)
    OBVIOUS
  <2>1. \E M : PairedOff(M, found(k), links(k), L)
    BY PairFinds
  <2>2. S[k] = CHOOSE M : PairedOff(M, found(k), links(k), L)
    OBVIOUS
  <2> HIDE DEF found, links, S
  <2> QED BY <2>1, <2>2
<1>2. \A k \in 1..5 : \A p \in links(k) :
        /\ p = <<p[1], p[2]>> /\ p[1] \in 1..L /\ p[1] <= L /\ p[2] \in DOMAIN expected
        /\ extracted[p[1]].category = name(k) /\ expected[p[2]].category = name(k)
        /\ IsMatch(extracted[p[1]], expected[p[2]])
  BY DEF Links, InCategory
<1>3. \A j, k \in 1..5 : j # k => name(j) # name(k)
  BY FiveNames
<1>4. \A p : p \in all <=> \E k \in 1..5 : p \in S[k]
  <2> HIDE DEF S
  <2>1. 1..5 = {1, 2, 3, 4, 5}
    OBVIOUS
  <2> QED BY <2>1
<1>5. Evaluate(extracted, expected)[1]
        = found(1).tp + found(2).tp + found(3).tp + found(4).tp + found(5).tp
  <2> DEFINE part == [k \in 1..5 |-> Confusion(extracted, expected, name(k))]
  <2>1. Evaluate(extracted, expected)[1]
          = part[1][1] + part[2][1] + part[3][1] + part[4][1] + part[5][1]
    BY DEF Evaluate
  <2>2. \A k \in 1..5 : part[k][1] = found(k).tp
    BY DEF Confusion
  <2> HIDE DEF part, found
  <2>3. /\ part[1][1] = found(1).tp /\ part[2][1] = found(2).tp /\ part[3][1] = found(3).tp
        /\ part[4][1] = found(4).tp /\ part[5][1] = found(5).tp
    BY <2>2
  <2> QED BY <2>1, <2>3
<1> HIDE DEF found, links, S, name
<1>6. \A k \in 1..5 : /\ S[k] \subseteq links(k) /\ OneToOne(S[k]) /\ IsFiniteSet(S[k])
                      /\ found(k).tp = Cardinality(S[k]) /\ found(k).matched = {p[2] : p \in S[k]}
                      /\ \A p \in links(k) : p[1] <= L => \E q \in S[k] : q[1] = p[1] \/ q[2] = p[2]
  BY <1>1 DEF PairedOff
<1>7. \A j, k \in 1..5 : j # k => \A p \in S[j], q \in S[k] : p[1] # q[1] /\ p[2] # q[2]
  <2> SUFFICES ASSUME NEW j \in 1..5, NEW k \in 1..5, j # k, NEW p \in S[j], NEW q \in S[k]
               PROVE  p[1] # q[1] /\ p[2] # q[2]
    OBVIOUS
  <2>1. /\ extracted[p[1]].category = name(j) /\ expected[p[2]].category = name(j)
        /\ extracted[q[1]].category = name(k) /\ expected[q[2]].category = name(k)
    BY <1>2, <1>6
  <2> QED BY <2>1, <1>3
<1>8. IsFiniteSet(all) /\ Cardinality(all) = Evaluate(extracted, expected)[1]
  <2>1. \A j, k \in 1..5 : j # k => S[j] \cap S[k] = {}
    BY <1>7
  <2>2. /\ IsFiniteSet(all)
        /\ Cardinality(all) = Cardinality(S[1]) + Cardinality(S[2]) + Cardinality(S[3])
                                + Cardinality(S[4]) + Cardinality(S[5])
    BY <1>6, <2>1, FiveSets
  <2>3. /\ found(1).tp = Cardinality(S[1]) /\ found(2).tp = Cardinality(S[2])
        /\ found(3).tp = Cardinality(S[3]) /\ found(4).tp = Cardinality(S[4])
        /\ found(5).tp = Cardinality(S[5])
    BY <1>6
  <2> QED BY <1>5, <2>2, <2>3
<1> HIDE DEF all
<1>9. OneToOne(all)
  <2> SUFFICES ASSUME NEW p \in all, NEW q \in all, p # q PROVE p[1] # q[1] /\ p[2] # q[2]
    BY DEF OneToOne
  <2>1. PICK j \in 1..5 : p \in S[j]
    BY <1>4
  <2>2. PICK k \in 1..5 : q \in S[k]
    BY <1>4
  <2>3. CASE j = k
    BY <1>6, <2>1, <2>2, <2>3 DEF OneToOne
  <2>4. CASE j # k
    BY <1>7, <2>1, <2>2, <2>4
  <2> QED BY <2>3, <2>4
<1>10. all \in Matchings(extracted, expected)
  <2>1. \A p \in all : /\ p \in (DOMAIN extracted) \X (DOMAIN expected)
                       /\ extracted[p[1]].category \in ToSet(CategoryNames)
                       /\ IsMatch(extracted[p[1]], expected[p[2]])
    <3> SUFFICES ASSUME NEW p \in all
                 PROVE  /\ p \in (DOMAIN extracted) \X (DOMAIN expected)
                        /\ extracted[p[1]].category \in ToSet(CategoryNames)
                        /\ IsMatch(extracted[p[1]], expected[p[2]])
      OBVIOUS
    <3>1. PICK k \in 1..5 : p \in S[k]
      BY <1>4
    <3>2. /\ p = <<p[1], p[2]>> /\ p[1] \in 1..L /\ p[2] \in DOMAIN expected
          /\ extracted[p[1]].category = name(k) /\ IsMatch(extracted[p[1]], expected[p[2]])
      BY <1>2, <1>6, <3>1
    <3>3. name(k) \in ToSet(CategoryNames)
      BY FiveNames DEF name
    <3> QED BY <3>2, <3>3
  <2> QED BY <2>1, <1>9 DEF Matchings, OneToOne
<1>11. ASSUME NEW N \in Matchings(extracted, expected), NEW p \in N
       PROVE  \E q \in all : q[1] = p[1] \/ q[2] = p[2]
  <2>1. /\ p \in (DOMAIN extracted) \X (DOMAIN expected)
        /\ extracted[p[1]].category \in ToSet(CategoryNames)
        /\ IsMatch(extracted[p[1]], expected[p[2]])
    BY DEF Matchings
  <2>2. PICK k \in 1..5 : <<p[1], p[2]>> \in links(k)
    BY <2>1, LinkedInCategory DEF links, name
  <2>3. p \in links(k) /\ p[1] <= L
    BY <1>2, <2>1, <2>2
  <2>4. PICK q \in S[k] : q[1] = p[1] \/ q[2] = p[2]
    BY <1>6, <2>3
  <2> QED BY <1>4, <2>4
<1>12. \A k \in 1..5 : found(k).matched \subseteq {q[2] : q \in all}
  BY <1>4, <1>6
<1> QED BY <1>8, <1>10, <1>11, <1>12 DEF found, name

\* The largest size of a matching.
Best(extracted, expected) ==
  LET sizes == {Cardinality(M) : M \in Matchings(extracted, expected)}
  IN CHOOSE n \in sizes : \A k \in sizes : k <= n

\* A bounded set of naturals has a greatest element.
LEMMA GreatestNatural ==
  ASSUME NEW S \in SUBSET Nat, S # {}, NEW bound \in Nat, \A n \in S : n <= bound
  PROVE  \E n \in S : \A k \in S : k <= n
<1> DEFINE T == {bound - n : n \in S}
<1>1. T \in SUBSET Nat /\ T # {}
  <2>1. \A n \in S : bound - n \in Nat
    OBVIOUS
  <2> QED BY <2>1
<1>2. PICK t \in T : \A x \in T : t <= x
  <2> HIDE DEF T
  <2> QED BY <1>1, LeastNatural
<1>3. PICK n \in S : t = bound - n
  OBVIOUS
<1>4. ASSUME NEW k \in S PROVE k <= n
  <2>1. t <= bound - k
    BY <1>2
  <2> QED BY <2>1, <1>3
<1> QED BY <1>4

\* The greedy score is between half the best and the best.
LEMMA ScoreIsFair ==
  ASSUME NEW extracted, Len(extracted) \in Nat, DOMAIN extracted = 1..Len(extracted),
         NEW expected, DOMAIN expected \subseteq Nat
  PROVE  /\ Evaluate(extracted, expected)[1] <= Best(extracted, expected)
         /\ Best(extracted, expected) <= 2 * Evaluate(extracted, expected)[1]
         /\ \E N \in Matchings(extracted, expected) : Best(extracted, expected) = Cardinality(N)
         /\ Evaluate(extracted, expected)[1] \in Nat /\ Best(extracted, expected) \in Nat
<1> DEFINE all == Matchings(extracted, expected)
           sizes == {Cardinality(M) : M \in all}
           tp == Evaluate(extracted, expected)[1]
           best == Best(extracted, expected)
<1>1. PICK M \in all : /\ IsFiniteSet(M) /\ Cardinality(M) = tp
                       /\ \A N \in all : \A p \in N : \E q \in M : q[1] = p[1] \/ q[2] = p[2]
  <2>1. PICK M \in all :
          /\ IsFiniteSet(M) /\ Cardinality(M) = tp
          /\ \A N \in all : \A p \in N : \E q \in M : q[1] = p[1] \/ q[2] = p[2]
          /\ \A k \in 1..5 :
               Pair(extracted, expected, CategoryNames[k])[Len(extracted)].matched \subseteq {q[2] : q \in M}
    BY ScoreIsMatching
  <2> HIDE DEF all, tp
  <2> QED BY <2>1
<1>2. tp \in Nat
  BY <1>1, FS_CardinalityType
<1>3. \A N \in all : OneToOne(N)
  BY DEF Matchings, OneToOne
<1>4. best = CHOOSE n \in sizes : \A k \in sizes : k <= n
  BY DEF Best
<1> HIDE DEF all, tp, best
<1>5. ASSUME NEW N \in all PROVE Cardinality(N) \in Nat /\ Cardinality(N) <= 2 * tp
  <2>1. IsFiniteSet(N) /\ Cardinality(N) <= 2 * Cardinality(M)
    BY <1>1, <1>3, AtMostTwice
  <2> QED BY <2>1, <1>1, FS_CardinalityType
<1>6. sizes \in SUBSET Nat /\ tp \in sizes /\ \A n \in sizes : n <= 2 * tp
  BY <1>1, <1>5
<1>7. best \in sizes /\ \A k \in sizes : k <= best
  <2>1. 2 * tp \in Nat
    BY <1>2
  <2> HIDE DEF sizes
  <2>2. \E n \in sizes : \A k \in sizes : k <= n
    BY <1>6, <2>1, GreatestNatural
  <2> QED BY <1>4, <2>2
<1>8. \E N \in all : best = Cardinality(N)
  BY <1>7
<1> HIDE DEF sizes
<1>9. tp <= best /\ best <= 2 * tp /\ best \in Nat
  BY <1>6, <1>7
<1> QED BY <1>2, <1>8, <1>9 DEF all, tp, best

\* The annotated answer itself gets every point of a known category, and
\* nothing of it is counted as false.
LEMMA ItselfIsBest ==
  ASSUME NEW points, Len(points) \in Nat, DOMAIN points = 1..Len(points)
  PROVE  /\ Evaluate(points, points)[1] = Best(points, points)
         /\ Evaluate(points, points)[2] = 0 /\ Evaluate(points, points)[3] = 0
<1> DEFINE L == Len(points)
           name(k) == CategoryNames[k]
           In(k) == InCategory(points, name(k))
           found(k) == Pair(points, points, name(k))[L]
           part == [k \in 1..5 |-> Confusion(points, points, name(k))]
           counts == Evaluate(points, points)
           best == Best(points, points)
<1>1. \A k \in 1..5 : found(k).matched = In(k)
  BY PairsItself
<1>2. \A k \in 1..5 : In(k) \subseteq 1..L /\ IsFiniteSet(In(k)) /\ Cardinality(In(k)) \in Nat
  <2> SUFFICES ASSUME NEW k \in 1..5
               PROVE  In(k) \subseteq 1..L /\ IsFiniteSet(In(k)) /\ Cardinality(In(k)) \in Nat
    OBVIOUS
  <2>1. In(k) \subseteq 1..L
    BY DEF InCategory
  <2>2. IsFiniteSet(1..L)
    BY FS_Interval
  <2> HIDE DEF In
  <2> QED BY <2>1, <2>2, FS_Subset, FS_CardinalityType
<1>3. \A k \in 1..5 : found(k).tp = Cardinality(In(k))
  <2> SUFFICES ASSUME NEW k \in 1..5 PROVE found(k).tp = Cardinality(In(k))
    OBVIOUS
  <2>1. PICK M : PairedOff(M, found(k), Links(points, points, name(k)), L)
    BY PairFinds
  <2> HIDE DEF found
  <2>2. OneToOne(M) /\ IsFiniteSet(M) /\ found(k).tp = Cardinality(M) /\ found(k).matched = {p[2] : p \in M}
    BY <2>1 DEF PairedOff
  <2>3. Cardinality({p[2] : p \in M}) = Cardinality(M)
    BY <2>2, SecondEnds
  <2> QED BY <1>1, <2>2, <2>3
<1>4. \A k \in 1..5 : part[k][2] = 0 /\ part[k][3] = 0
  <2> SUFFICES ASSUME NEW k \in 1..5 PROVE part[k][2] = 0 /\ part[k][3] = 0
    OBVIOUS
  <2>1. /\ part[k][2] = Cardinality(In(k)) - found(k).tp
        /\ part[k][3] = Cardinality(In(k)) - Cardinality(found(k).matched)
    BY DEF Confusion
  <2> HIDE DEF part, In, found
  <2> QED BY <2>1, <1>1, <1>2, <1>3
<1>5. /\ counts[2] = part[1][2] + part[2][2] + part[3][2] + part[4][2] + part[5][2]
      /\ counts[3] = part[1][3] + part[2][3] + part[3][3] + part[4][3] + part[5][3]
  BY DEF Evaluate
<1>6. counts[2] = 0 /\ counts[3] = 0
  <2> HIDE DEF part, counts
  <2>1. /\ part[1][2] = 0 /\ part[2][2] = 0 /\ part[3][2] = 0 /\ part[4][2] = 0 /\ part[5][2] = 0
        /\ part[1][3] = 0 /\ part[2][3] = 0 /\ part[3][3] = 0 /\ part[4][3] = 0 /\ part[5][3] = 0
    BY <1>4
  <2> QED BY <1>5, <2>1
<1>7. PICK M \in Matchings(points, points) :
        /\ IsFiniteSet(M) /\ Cardinality(M) = counts[1]
        /\ \A N \in Matchings(points, points) : \A p \in N :
             \E q \in M : q[1] = p[1] \/ q[2] = p[2]
        /\ \A k \in 1..5 :
             Pair(points, points, CategoryNames[k])[Len(points)].matched \subseteq {q[2] : q \in M}
  <2>1. DOMAIN points \subseteq Nat
    OBVIOUS
  <2> QED BY <2>1, ScoreIsMatching
<1>8. \A k \in 1..5 : In(k) \subseteq {q[2] : q \in M}
  <2>1. \A k \in 1..5 : found(k).matched \subseteq {q[2] : q \in M}
    BY <1>7
  <2> HIDE DEF found, In
  <2> QED BY <1>1, <2>1
<1>9. /\ counts[1] <= best /\ counts[1] \in Nat /\ best \in Nat
      /\ \E N \in Matchings(points, points) : best = Cardinality(N)
  <2>1. DOMAIN points \subseteq Nat
    OBVIOUS
  <2> QED BY <2>1, ScoreIsFair
<1>10. PICK N \in Matchings(points, points) : best = Cardinality(N)
  BY <1>9
<1>11. \A p \in N : \E q \in M : q[2] = p[2]
  <2> SUFFICES ASSUME NEW p \in N PROVE \E q \in M : q[2] = p[2]
    OBVIOUS
  <2>1. /\ p \in (DOMAIN points) \X (DOMAIN points)
        /\ points[p[1]].category \in ToSet(CategoryNames)
        /\ IsMatch(points[p[1]], points[p[2]])
    BY DEF Matchings
  <2>2. PICK k \in 1..5 : <<p[1], p[2]>> \in Links(points, points, CategoryNames[k])
    BY <2>1, LinkedInCategory
  <2>3. p[2] \in In(k)
    BY <2>2 DEF Links
  <2> HIDE DEF In
  <2> QED BY <2>3, <1>8
<1>12. OneToOne(N)
  BY DEF Matchings, OneToOne
<1>13. Cardinality(N) <= Cardinality(M)
  <2>1. IsFiniteSet(M)
    BY <1>7
  <2> QED BY <2>1, <1>11, <1>12, SharedEnds
<1> HIDE DEF counts, best
<1>14. counts[1] = best
  BY <1>7, <1>9, <1>10, <1>13
<1> QED BY <1>6, <1>14 DEF counts, best

----------------------------------------------------------------------------
(* The results *)

CaseSet == ToSet(CaseOrder)
AnswersTo(c) == Answers[c] \union {<<>>, Expected[c]}

\* The scores of the answers there may be.
Scores == UNION {{Scored(c, answer) : answer \in AnswersTo(c)} : c \in CaseSet}

\* What is still to do are cases of the data sets, one of them while its
\* analysis runs; what is done are scores.
ScoreInv ==
  /\ DOMAIN tester = Testers
  /\ \A u \in Testers :
       /\ {"pc", "todo", "results"} \subseteq DOMAIN tester[u]
       /\ tester[u].todo \subseteq DOMAIN CaseOrder
       /\ tester[u].pc = "graph" => tester[u].todo # {}
       /\ tester[u].results \in Seq(Scores)

LEMMA AnswersAreLists ==
  ASSUME NEW c \in CaseSet, NEW answer \in AnswersTo(c)
  PROVE  Len(answer) \in Nat /\ DOMAIN answer = 1..Len(answer)
<1>1. CASE answer = <<>>
  BY <1>1
<1>2. CASE answer \in Answers[c] \union {Expected[c]}
  <2>1. answer \in Seq(ToSet(answer))
    BY <1>2, CasesAssumption DEF CaseSet
  <2> QED BY <2>1, LenProperties
<1> QED BY <1>1, <1>2 DEF AnswersTo

LEMMA CasesLeft ==
  ASSUME NEW todo, todo \subseteq DOMAIN CaseOrder
  PROVE  /\ OtherCases(todo) \subseteq DOMAIN CaseOrder
         /\ todo # {} => NextCase(todo) \in CaseSet
<1>1. DOMAIN CaseOrder = 1..Len(CaseOrder)
  BY CasesAssumption, LenProperties
<1>2. ASSUME todo # {} PROVE NextCase(todo) \in CaseSet
  <2>1. DOMAIN CaseOrder \subseteq Nat
    BY <1>1, CasesAssumption, LenProperties
  <2>2. Least(todo) \in todo
    BY <1>2, <2>1, LeastFound
  <2>3. CaseOrder[Least(todo)] \in ToSet(CaseOrder)
    BY <2>2 DEF ToSet
  <2> QED BY <2>3 DEF NextCase, CaseSet
<1> QED BY <1>2 DEF OtherCases

LEMMA ScoreIsKept ==
  ASSUME NEW c \in CaseSet, NEW answer \in AnswersTo(c), NEW results \in Seq(Scores)
  PROVE  Append(results, Scored(c, answer)) \in Seq(Scores)
<1>1. Scored(c, answer) \in Scores
  BY DEF Scores
<1> QED BY <1>1, AppendProperties

\* A step of one tester, which has its cases and scores in order.
LEMMA TesterKeeps ==
  ASSUME ScoreInv, NEW u \in Testers, NEW s, tester' = [tester EXCEPT ![u] = s],
         {"pc", "todo", "results"} \subseteq DOMAIN s, s.todo \subseteq DOMAIN CaseOrder,
         s.pc = "graph" => s.todo # {}, s.results \in Seq(Scores)
  PROVE  ScoreInv'
<1>1. DOMAIN tester' = Testers
  BY DEF ScoreInv
<1>2. tester'[u] = s /\ \A v \in Testers \ {u} : tester'[v] = tester[v]
  BY DEF ScoreInv
<1> QED BY <1>1, <1>2 DEF ScoreInv

LEMMA ScoreInit == EvaluationInit => ScoreInv
<1> SUFFICES ASSUME EvaluationInit PROVE ScoreInv OBVIOUS
<1>1. DOMAIN tester = Testers
  BY DEF EvaluationInit
<1>2. \A u \in Testers : /\ {"pc", "todo", "results"} \subseteq DOMAIN tester[u]
                         /\ tester[u].todo = {} /\ tester[u].pc = "idle" /\ tester[u].results = <<>>
  BY DEF EvaluationInit
<1>3. <<>> \in Seq(Scores)
  OBVIOUS
<1> QED BY <1>1, <1>2, <1>3 DEF ScoreInv

LEMMA BeginScores ==
  ASSUME ScoreInv, NEW u \in Testers, BeginTest(u) PROVE ScoreInv'
<1> DEFINE t == tester[u]
           settings == IF Plan[u] = <<>> THEN config ELSE Plan[u][1]
           others == {v \in Testers \ {u} : Active(v)}
           lonely == others = {}
           todo == LoadTestCases(settings)
           s == [t EXCEPT !.pc = "case", !.found = config, !.todo = todo, !.alone = lonely]
           r(v) == [tester[v] EXCEPT !.alone = FALSE]
<1>1. tester' = [v \in Testers |-> CASE v = u -> s [] v \in others -> r(v) [] OTHER -> tester[v]]
  BY DEF BeginTest
<1>2. todo \subseteq DOMAIN CaseOrder
  BY DEF LoadTestCases
<1>3. \A v \in Testers : {"pc", "todo", "results"} \subseteq DOMAIN tester[v] /\ tester[v].results \in Seq(Scores)
  BY DEF ScoreInv
<1> HIDE DEF todo, settings, lonely
<1>4. /\ {"pc", "todo", "results"} \subseteq DOMAIN s /\ s.pc = "case"
      /\ s.todo = todo /\ s.results = t.results
  BY <1>3
<1>5. \A v \in Testers : /\ {"pc", "todo", "results"} \subseteq DOMAIN r(v)
                         /\ r(v).pc = tester[v].pc /\ r(v).todo = tester[v].todo
                         /\ r(v).results = tester[v].results
  BY <1>3
<1>6. DOMAIN tester' = Testers
  BY <1>1
<1>7. tester'[u] = s /\ \A v \in Testers \ {u} : tester'[v] \in {r(v), tester[v]}
  <2> HIDE DEF s
  <2>1. /\ tester'[u] = s
        /\ \A v \in Testers \ {u} : tester'[v] = IF v \in others THEN r(v) ELSE tester[v]
    BY <1>1
  <2> HIDE DEF r, others
  <2> QED BY <2>1
<1> HIDE DEF s, r, others
<1>8. ASSUME NEW v \in Testers
      PROVE  /\ {"pc", "todo", "results"} \subseteq DOMAIN tester'[v]
             /\ tester'[v].todo \subseteq DOMAIN CaseOrder
             /\ tester'[v].pc = "graph" => tester'[v].todo # {}
             /\ tester'[v].results \in Seq(Scores)
  <2>1. CASE v = u
    BY <1>2, <1>3, <1>4, <1>7, <2>1
  <2>2. CASE v # u
    BY <1>5, <1>7, <2>2 DEF ScoreInv
  <2> QED BY <2>1, <2>2
<1> QED BY <1>6, <1>8 DEF ScoreInv

LEMMA CallScores ==
  ASSUME ScoreInv, NEW u \in Testers, CallAgent(u) PROVE ScoreInv'
<1> DEFINE t == tester[u]
           c == NextCase(t.todo)
           todo == OtherCases(t.todo)
           results == Append(t.results, Scored(c, <<>>))
           runs == Runs(bridge, bridge')
           s == IF runs THEN [t EXCEPT !.pc = "graph"]
                ELSE [t EXCEPT !.todo = todo, !.results = results]
<1>1. tester' = [tester EXCEPT ![u] = s] /\ t.pc = "case" /\ t.todo # {}
  BY DEF CallAgent, ScoreInv
<1>2. /\ {"pc", "todo", "results"} \subseteq DOMAIN t /\ t.todo \subseteq DOMAIN CaseOrder
      /\ t.results \in Seq(Scores)
  BY DEF ScoreInv
<1>3. c \in CaseSet /\ todo \subseteq DOMAIN CaseOrder
  BY <1>1, <1>2, CasesLeft
<1>4. results \in Seq(Scores)
  <2>1. <<>> \in AnswersTo(c)
    BY DEF AnswersTo
  <2> HIDE DEF c
  <2> QED BY <1>2, <1>3, <2>1, ScoreIsKept
<1> HIDE DEF runs, todo, results
<1>5. /\ {"pc", "todo", "results"} \subseteq DOMAIN s /\ s.todo \in {t.todo, todo}
      /\ s.pc = "graph" => s.todo = t.todo
      /\ s.results \in {t.results, results}
  BY <1>1, <1>2
<1> HIDE DEF s
<1> QED BY <1>1, <1>2, <1>3, <1>4, <1>5, TesterKeeps

LEMMA AnswerScores ==
  ASSUME ScoreInv, NEW u \in Testers, AgentAnswers(u) PROVE ScoreInv'
<1> DEFINE t == tester[u]
           c == NextCase(t.todo)
           todo == OtherCases(t.todo)
<1>1. t.pc = "graph" /\ t.todo # {}
  BY DEF AgentAnswers, ScoreInv
<1>2. PICK answer \in Answers[c] :
        tester' = [tester EXCEPT ![u] =
          [t EXCEPT !.pc = "case", !.todo = todo, !.results = Append(t.results, Scored(c, answer))]]
  BY DEF AgentAnswers, ScoreInv
<1>3. /\ {"pc", "todo", "results"} \subseteq DOMAIN t /\ t.todo \subseteq DOMAIN CaseOrder
      /\ t.results \in Seq(Scores)
  BY DEF ScoreInv
<1>4. c \in CaseSet /\ todo \subseteq DOMAIN CaseOrder
  BY <1>1, <1>3, CasesLeft
<1> DEFINE results == Append(t.results, Scored(c, answer))
<1>5. results \in Seq(Scores)
  <2>1. answer \in AnswersTo(c)
    BY DEF AnswersTo
  <2> HIDE DEF c
  <2> QED BY <1>3, <1>4, <2>1, ScoreIsKept
<1> DEFINE s == [t EXCEPT !.pc = "case", !.todo = todo, !.results = results]
<1>6. tester' = [tester EXCEPT ![u] = s]
  BY <1>2
<1> HIDE DEF todo, results
<1>7. /\ {"pc", "todo", "results"} \subseteq DOMAIN s /\ s.todo = todo /\ s.pc = "case"
      /\ s.results = results
  BY <1>3
<1> HIDE DEF s
<1> QED BY <1>4, <1>5, <1>6, <1>7, TesterKeeps

LEMMA FinishScores ==
  ASSUME ScoreInv, NEW u \in Testers, FinishRun(u) PROVE ScoreInv'
<1> DEFINE t == tester[u]
           reports == Append(t.reports, Report(t.results, config))
           done == [t EXCEPT !.results = <<>>, !.reports = reports]
           todo == LoadTestCases(t.plan[2])
           rest == Tail(done.plan)
           more == [done EXCEPT !.plan = rest, !.todo = todo]
           ended == [done EXCEPT !.pc = "done"]
           s == tester'[u]
<1>1. t.pc = "case" /\ t.todo = {}
  BY DEF FinishRun
<1>2. {"pc", "todo", "results"} \subseteq DOMAIN t
  BY DEF ScoreInv
<1>3. \/ tester' = [tester EXCEPT ![u] = more]
      \/ tester' = [tester EXCEPT ![u] = ended]
  BY DEF FinishRun
<1>4. todo \subseteq DOMAIN CaseOrder /\ <<>> \in Seq(Scores)
  BY DEF LoadTestCases
<1> HIDE DEF reports, todo, rest
<1>5. /\ {"pc", "todo", "results"} \subseteq DOMAIN more /\ more.pc = "case" /\ more.todo = todo
      /\ more.results = <<>>
  BY <1>1, <1>2
<1>6. /\ {"pc", "todo", "results"} \subseteq DOMAIN ended /\ ended.pc = "done" /\ ended.todo = {}
      /\ ended.results = <<>>
  BY <1>1, <1>2
<1> HIDE DEF more, ended
<1>7. CASE tester' = [tester EXCEPT ![u] = more]
  BY <1>4, <1>5, <1>7, TesterKeeps
<1>8. CASE tester' = [tester EXCEPT ![u] = ended]
  BY <1>4, <1>6, <1>8, TesterKeeps
<1> QED BY <1>3, <1>7, <1>8

LEMMA FailScores ==
  ASSUME ScoreInv, NEW u \in Testers, AgentFails(u) PROVE ScoreInv'
<1> DEFINE t == tester[u]
           s == [t EXCEPT !.pc = "failed"]
<1>1. tester' = [tester EXCEPT ![u] = s]
  BY DEF AgentFails
<1>2. /\ {"pc", "todo", "results"} \subseteq DOMAIN t /\ t.todo \subseteq DOMAIN CaseOrder
      /\ t.results \in Seq(Scores)
  BY DEF ScoreInv
<1>3. /\ {"pc", "todo", "results"} \subseteq DOMAIN s /\ s.todo = t.todo /\ s.pc = "failed"
      /\ s.results = t.results
  BY <1>2
<1> HIDE DEF s
<1> QED BY <1>1, <1>2, <1>3, TesterKeeps

LEMMA ScoreStep == ScoreInv /\ [EvaluationNext]_evaluationVars => ScoreInv'
<1> SUFFICES ASSUME ScoreInv, [EvaluationNext]_evaluationVars PROVE ScoreInv' OBVIOUS
<1>1. ASSUME UNCHANGED tester PROVE ScoreInv'
  BY <1>1 DEF ScoreInv
<1>2. CASE \E u \in Testers : BeginTest(u) BY <1>2, BeginScores
<1>3. CASE \E u \in Testers : CallAgent(u) BY <1>3, CallScores
<1>4. CASE \E u \in Testers : AgentAnswers(u) BY <1>4, AnswerScores
<1>5. CASE \E u \in Testers : AgentFails(u) BY <1>5, FailScores
<1>6. CASE \E u \in Testers : FinishRun(u) BY <1>6, FinishScores
<1>7. CASE \E b \in DOMAIN Batches : StartBatch(b) BY <1>1, <1>7 DEF StartBatch
<1>8. CASE \E b \in DOMAIN Batches : Resume(b) BY <1>1, <1>8 DEF Resume
<1>9. CASE \E b \in DOMAIN Batches : \E i \in 1..Batches[b] : GraphEnds(b, i)
  BY <1>1, <1>9 DEF GraphEnds
<1>10. CASE \E j \in DOMAIN Jobs : RunJob(j) BY <1>1, <1>10 DEF RunJob
<1>11. CASE \E j \in DOMAIN Jobs : DetectJob(j) BY <1>1, <1>11 DEF DetectJob
<1>12. CASE UNCHANGED evaluationVars BY <1>1, <1>12 DEF evaluationVars
<1> QED BY <1>2, <1>3, <1>4, <1>5, <1>6, <1>7, <1>8, <1>9, <1>10, <1>11, <1>12 DEF EvaluationNext

\* Whatever the cases, the similar titles and the answers, the greedy score of
\* a result is at most the best pairing's and at least half of it, and the
\* annotated answer is scored without a fault.
THEOREM ScoresAreFair == EvaluationSpec => []GreedyIsFair
<1>1. ScoreInv => GreedyIsFair
  <2> SUFFICES ASSUME ScoreInv, NEW u \in Testers, NEW r \in ToSet(tester[u].results)
               PROVE  LET best == BestTP[r.case][r.answer]
                      IN /\ r.counts[1] <= best
                         /\ best <= 2 * r.counts[1]
                         /\ r.answer = Expected[r.case] =>
                              r.counts[1] = best /\ r.counts[2] = 0 /\ r.counts[3] = 0
    BY DEF GreedyIsFair
  <2>1. r \in Scores
    BY DEF ScoreInv, ToSet
  <2>2. PICK c \in CaseSet : \E answer \in AnswersTo(c) : r = Scored(c, answer)
    BY <2>1 DEF Scores
  <2>3. PICK answer \in AnswersTo(c) : r = Scored(c, answer)
    BY <2>2
  <2>4. r.case = c /\ r.answer = answer /\ r.counts = Evaluate(answer, Expected[c])
    BY <2>3 DEF Scored
  <2>5. BestTP[c][answer] = Best(answer, Expected[c])
    BY DEF BestTP, Best, CaseSet, AnswersTo
  <2>6. /\ Len(answer) \in Nat /\ DOMAIN answer = 1..Len(answer)
        /\ Len(Expected[c]) \in Nat /\ DOMAIN Expected[c] = 1..Len(Expected[c])
    <3>1. Expected[c] \in AnswersTo(c)
      BY DEF AnswersTo
    <3> QED BY <3>1, AnswersAreLists
  <2>7. DOMAIN Expected[c] \subseteq Nat
    BY <2>6
  <2>8. /\ Evaluate(answer, Expected[c])[1] <= Best(answer, Expected[c])
        /\ Best(answer, Expected[c]) <= 2 * Evaluate(answer, Expected[c])[1]
    BY <2>6, <2>7, ScoreIsFair
  <2>9. ASSUME answer = Expected[c]
        PROVE  /\ Evaluate(answer, Expected[c])[1] = Best(answer, Expected[c])
               /\ Evaluate(answer, Expected[c])[2] = 0 /\ Evaluate(answer, Expected[c])[3] = 0
    BY <2>6, <2>9, ItselfIsBest
  <2> QED BY <2>4, <2>5, <2>8, <2>9
<1> QED BY <1>1, ScoreInit, ScoreStep, PTL DEF EvaluationSpec

----------------------------------------------------------------------------
(* The circuit breaker *)

\* A record that is in Redis or on its way from or to it.
Sound(b) == b # NoRecord => Coherent(b) /\ b.state # "half_open"

IInv ==
  /\ TypeOK
  /\ \A p \in Proc : Coherent(local[p])
  /\ Sound(shared)
  /\ \A c \in Call : Sound(buf[c])

USE ConstantsAssumption, NoRecordAssumption
    DEF MaxCount, Breaker, State, Steps, Go, LockFree, Fresh, Plus1, Coherent, Sound

LEMMA InitIInv == Init => IInv
BY DEF Init, IInv, TypeOK

LEMMA LoadKeeps ==
  ASSUME IInv, NEW c \in Call,
         ReadShared(c) \/ LoadAndCheck(c) \/ LoadOnly(c) \/ Check(c)
  PROVE  IInv'
<1> USE DEF IInv, TypeOK
<1>0. /\ Home[c] \in Proc
      /\ Loaded(c) \in Breaker /\ Coherent(Loaded(c))
  BY DEF Loaded
<1>1. \A b \in Breaker : Coherent(b) => AfterCheck(b) \in Breaker /\ Coherent(AfterCheck(b))
  BY DEF AfterCheck
<1>2. CASE ReadShared(c)
  <2>1. PICK b \in {shared, NoRecord} : buf' = [buf EXCEPT ![c] = b]
    BY <1>2 DEF ReadShared
  <2>2. b \in Breaker \cup {NoRecord} /\ Sound(b) BY <2>1
  <2>3. TypeOK' BY <1>2, <2>1, <2>2 DEF ReadShared
  <2>4. \A d \in Call : Sound(buf[d])' BY <2>1, <2>2
  <2> QED BY <1>2, <2>3, <2>4 DEF ReadShared
<1>3. CASE LoadAndCheck(c) BY <1>0, <1>1, <1>3 DEF LoadAndCheck
<1>4. CASE LoadOnly(c) BY <1>0, <1>4 DEF LoadOnly
<1>5. CASE Check(c) BY <1>0, <1>1, <1>5 DEF Check
<1> QED BY <1>2, <1>3, <1>4, <1>5

\* A retry counts within the bound.
LEMMA RetryTyped ==
  ASSUME TypeOK, NEW c \in Call, NEW from \in Steps, Retry(c, from)
  PROVE  pc' \in [Call -> Steps] /\ attempt' \in [Call -> 0..MaxRetries]
<1>1. CASE attempt[c] < MaxRetries
  <2>1. attempt[c] \in 0..MaxRetries BY DEF TypeOK
  <2>2. attempt[c] + 1 \in 0..MaxRetries BY <1>1, <2>1
  <2>3. /\ pc' = [pc EXCEPT ![c] = "token"]
        /\ attempt' = [attempt EXCEPT ![c] = attempt[c] + 1]
    BY <1>1 DEF Retry
  <2> QED BY <2>2, <2>3 DEF TypeOK
<1>2. CASE ~(attempt[c] < MaxRetries) BY <1>2 DEF Retry, TypeOK
<1> QED BY <1>1, <1>2

LEMMA CallKeeps ==
  ASSUME IInv, NEW c \in Call,
         \/ Granted(c) \/ Denied(c) \/ Answer(c)
         \/ RecordSuccess(c) \/ RecordFailure(c) \/ Write(c)
  PROVE  IInv'
<1> USE DEF IInv, TypeOK
<1>1. Home[c] \in Proc OBVIOUS
<1>2. CASE Granted(c) BY <1>2 DEF Granted
<1>3. CASE Denied(c) BY <1>3, RetryTyped DEF Denied
<1>4. CASE Answer(c) BY <1>4 DEF Answer
<1>5. CASE RecordSuccess(c)
  <2>1. CASE local[Home[c]].state = "open" BY <1>1, <1>5, <2>1 DEF RecordSuccess
  <2>2. CASE local[Home[c]].state # "open"
    <3>1. /\ local' = [local EXCEPT ![Home[c]] = Fresh]
          /\ buf' = [buf EXCEPT ![c] = Fresh]
          /\ lock' = [lock EXCEPT ![Home[c]] = c]
          /\ pc' = [pc EXCEPT ![c] = "writeS"]
          /\ streak' = 0 /\ UNCHANGED <<shared, attempt>>
      BY <1>5, <2>2 DEF RecordSuccess
    <3>2. Fresh \in Breaker /\ Coherent(Fresh) /\ Sound(Fresh) OBVIOUS
    <3>3. TypeOK' BY <1>1, <3>1, <3>2
    <3>4. \A p \in Proc : Coherent(local[p])' BY <3>1, <3>2
    <3>5. \A d \in Call : Sound(buf[d])' BY <3>1, <3>2
    <3> QED BY <3>1, <3>3, <3>4, <3>5
  <2> QED BY <2>1, <2>2
<1>6. CASE RecordFailure(c) BY <1>1, <1>6 DEF RecordFailure
<1>7. CASE Write(c)
  <2>1. shared' \in {shared, buf[c]} BY <1>7 DEF Write
  <2>2. shared' \in Breaker \cup {NoRecord} /\ Sound(shared)' BY <2>1
  <2>3. pc' \in [Call -> Steps] /\ attempt' \in [Call -> 0..MaxRetries]
    <3>1. CASE pc[c] = "writeS" BY <1>7, <3>1 DEF Write
    <3>2. CASE pc[c] # "writeS" BY <1>7, <3>2, RetryTyped DEF Write
    <3> QED BY <3>1, <3>2
  <2>4. lock' \in [Proc -> Call \cup {NoCall}] BY <1>1, <1>7 DEF Write
  <2>5. UNCHANGED <<local, buf, streak>> BY <1>7 DEF Write
  <2> QED BY <2>2, <2>3, <2>4, <2>5
<1> QED BY <1>2, <1>3, <1>4, <1>5, <1>6, <1>7

LEMMA TimeKeeps ==
  ASSUME IInv, CoolDown \/ SharedExpires
  PROVE  IInv'
<1> USE DEF IInv, TypeOK
<1>1. \A b \in Breaker : Cooled(b) \in Breaker /\ Cooled(b).state = b.state
                           /\ Cooled(b).count = b.count
  BY DEF Cooled
<1>2. Cooled(NoRecord) = NoRecord BY DEF Cooled
<1>3. CASE CoolDown BY <1>1, <1>2, <1>3 DEF CoolDown
<1>4. CASE SharedExpires BY <1>4 DEF SharedExpires
<1> QED BY <1>3, <1>4

LEMMA StepKeeps == IInv /\ [Next]_vars => IInv'
<1> SUFFICES ASSUME IInv, [Next]_vars PROVE IInv' OBVIOUS
<1>1. CASE UNCHANGED vars BY <1>1 DEF vars, IInv, TypeOK
<1>2. CASE Next BY <1>2, LoadKeeps, CallKeeps, TimeKeeps DEF Next, CallStep
<1> QED BY <1>1, <1>2

\* The inductive invariant holds of every behaviour of the calls.
THEOREM InductiveInvariant == Spec => []IInv
BY InitIInv, StepKeeps, PTL DEF Spec

\* Type correctness of the breakers, the hash and the calls.
THEOREM TypeCorrect == Spec => []TypeOK
<1>1. IInv => TypeOK BY DEF IInv
<1> QED BY <1>1, InductiveInvariant, PTL

\* State and failure count agree in every memory, in Redis and in flight,
\* although loads overwrite the memory without the lock.
THEOREM StateFollowsCount == Spec => []BreakersCoherent
<1>1. IInv => BreakersCoherent BY DEF IInv, BreakersCoherent
<1> QED BY <1>1, InductiveInvariant, PTL

\* Redis never holds HALF_OPEN: a process probes on its own account.
THEOREM SharedNeverHalfOpen == Spec => []HalfOpenIsLocal
<1>1. IInv => HalfOpenIsLocal BY DEF IInv, HalfOpenIsLocal
<1> QED BY <1>1, InductiveInvariant, PTL
=============================================================================
