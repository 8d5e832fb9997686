------------------------ MODULE Idempotency_proofs ------------------------
(* Proofs about Idempotency, for every set of requests, keys and payloads. *)
EXTENDS Idempotency, TLAPS

(* Only a keyed request talks to Redis about its key, and one that is past *)
(* the interceptor's first checks has a usable header.                     *)
KeyedInv ==
  \A r \in Requests :
    /\ pc[r] \in {"missed", "caching", "releasing"} => key[r] \in Keys
    /\ pc[r] = "handling" => key[r] # BadKey

(* Typing: the type invariant, inductive together with KeyedInv. *)
THEOREM Typing == Spec => [](TypeOK /\ KeyedInv)
<1> USE IdempotencyAssumption
<1>1. Init => TypeOK /\ KeyedInv
  BY DEF Init, TypeOK, KeyedInv, NoAnswer, PCs, Codes
<1>2. TypeOK /\ KeyedInv /\ [Next]_vars => (TypeOK /\ KeyedInv)'
  <2> SUFFICES ASSUME TypeOK, KeyedInv, [Next]_vars
               PROVE  TypeOK' /\ KeyedInv'
    OBVIOUS
  <2> USE DEF TypeOK, KeyedInv, PCs, Codes, request, redis, bookkeeping,
              Respond, NoAnswer
  <2>1. ASSUME NEW r \in Requests, Send(r) \/ RetryEarly(r)
        PROVE  TypeOK' /\ KeyedInv'
    BY <2>1 DEF Send, RetryEarly
  <2>2. ASSUME NEW r \in Requests, PassThrough(r) \/ RejectKey(r) \/ Unavailable(r)
        PROVE  TypeOK' /\ KeyedInv'
    BY <2>2 DEF PassThrough, RejectKey, Unavailable
  <2>3. ASSUME NEW r \in Requests, GetResult(r)
        PROVE  TypeOK' /\ KeyedInv'
    <3>1. TypeOK'
      BY <2>3 DEF GetResult
    <3>2. KeyedInv'
      BY <2>3 DEF GetResult
    <3> QED
      BY <3>1, <3>2
  <2>4. ASSUME NEW r \in Requests, AcquireLock(r)
        PROVE  TypeOK' /\ KeyedInv'
    <3>1. key[r] \in Keys
      BY <2>4 DEF AcquireLock
    <3>2. CASE key[r] \notin lock
      <4>1. TypeOK'
        BY <2>4, <3>1, <3>2 DEF AcquireLock
      <4>2. KeyedInv'
        BY <2>4, <3>1, <3>2 DEF AcquireLock
      <4> QED
        BY <4>1, <4>2
    <3>3. CASE key[r] \in lock
      BY <2>4, <3>1, <3>3 DEF AcquireLock
    <3> QED
      BY <3>2, <3>3
  <2>5. ASSUME NEW r \in Requests, HandlerCommits(r)
        PROVE  TypeOK' /\ KeyedInv'
    BY <2>5 DEF HandlerCommits
  <2>6. ASSUME NEW r \in Requests, HandlerFails(r)
        PROVE  TypeOK' /\ KeyedInv'
    BY <2>6 DEF HandlerFails
  <2>7. ASSUME NEW r \in Requests, CacheResult(r) \/ ReleaseLock(r)
        PROVE  TypeOK' /\ KeyedInv'
    BY <2>7 DEF CacheResult, ReleaseLock
  <2>8. ASSUME NEW k \in Keys, LockExpires(k) \/ ResultExpires(k)
        PROVE  TypeOK' /\ KeyedInv'
    BY <2>8 DEF LockExpires, ResultExpires
  <2>9. CASE RedisGoesDown \/ RedisComesUp
    BY <2>9 DEF RedisGoesDown, RedisComesUp
  <2>10. CASE Crash
    BY <2>10 DEF Crash, Running
  <2>11. CASE UNCHANGED vars
    BY <2>11 DEF vars
  <2> QED
    BY <2>1, <2>2, <2>3, <2>4, <2>5, <2>6, <2>7, <2>8, <2>9, <2>10, <2>11
       DEF Next, Step
<1> QED
  BY <1>1, <1>2, PTL DEF Spec

-----------------------------------------------------------------------------
(* A processor of a key holds the key's lock: SET NX comes before the      *)
(* handler, and while handlers stay in the 60 s budget only the processor  *)
(* itself deletes it.                                                      *)
LockHeld ==
  \A r \in Requests : Processing(r) /\ key[r] \in Keys => key[r] \in lock

(* While handlers stay inside the lock's TTL no two requests with one key  *)
(* are past the lock together, whatever the interleaving of the Redis      *)
(* round trips, the crashes and the outages (tryAcquireOrReplay,           *)
(* cacheResult, releaseLock).                                              *)
THEOREM Exclusion ==
  ASSUME WithinBudget
  PROVE  Spec => []ExclusiveProcessing
<1> DEFINE IInv == LockHeld /\ ExclusiveProcessing
<1> USE IdempotencyAssumption
<1>1. Init => IInv
  BY DEF Init, LockHeld, ExclusiveProcessing, Processing
<1>2. TypeOK /\ KeyedInv /\ IInv /\ [Next]_vars => IInv'
  <2> SUFFICES ASSUME TypeOK, KeyedInv, IInv, [Next]_vars
               PROVE  IInv'
    OBVIOUS
  <2> USE DEF TypeOK, KeyedInv, LockHeld, ExclusiveProcessing, Processing,
              request, redis, bookkeeping, Respond
  <2>1. ASSUME NEW r \in Requests, Send(r) \/ RetryEarly(r)
        PROVE  IInv'
    BY <2>1 DEF Send, RetryEarly
  <2>2. ASSUME NEW r \in Requests, PassThrough(r) \/ RejectKey(r) \/ Unavailable(r)
        PROVE  IInv'
    BY <2>2 DEF PassThrough, RejectKey, Unavailable
  <2>3. ASSUME NEW r \in Requests, GetResult(r)
        PROVE  IInv'
    BY <2>3 DEF GetResult
  <2>4. ASSUME NEW r \in Requests, AcquireLock(r)
        PROVE  IInv'
    <3>1. key[r] \in Keys
      BY <2>4 DEF AcquireLock
    <3>2. CASE key[r] \notin lock
      BY <2>4, <3>1, <3>2 DEF AcquireLock
    <3>3. CASE key[r] \in lock
      BY <2>4, <3>1, <3>3 DEF AcquireLock
    <3> QED
      BY <3>2, <3>3
  <2>5. ASSUME NEW r \in Requests, HandlerCommits(r) \/ HandlerFails(r)
        PROVE  IInv'
    BY <2>5 DEF HandlerCommits, HandlerFails
  <2>6. ASSUME NEW r \in Requests, CacheResult(r)
        PROVE  IInv'
    BY <2>6 DEF CacheResult
  <2>7. ASSUME NEW r \in Requests, ReleaseLock(r)
        PROVE  IInv'
    BY <2>7 DEF ReleaseLock
  <2>8. ASSUME NEW k \in Keys, LockExpires(k) \/ ResultExpires(k)
        PROVE  IInv'
    BY <2>8 DEF LockExpires, ResultExpires
  <2>9. CASE RedisGoesDown \/ RedisComesUp
    BY <2>9 DEF RedisGoesDown, RedisComesUp
  <2>10. CASE Crash
    BY <2>10 DEF Crash, Running
  <2>11. CASE UNCHANGED vars
    BY <2>11 DEF vars
  <2> QED
    BY <2>1, <2>2, <2>3, <2>4, <2>5, <2>6, <2>7, <2>8, <2>9, <2>10, <2>11
       DEF Next, Step
<1>3. IInv => ExclusiveProcessing
  OBVIOUS
<1> QED
  BY <1>1, <1>2, <1>3, Typing, PTL DEF Spec

-----------------------------------------------------------------------------
(* What Redis and the interceptor hold on to was committed: a request that *)
(* is about to cache has committed, and a cached result belongs to a       *)
(* committed request with the key it is stored under.                      *)
CacheSound ==
  /\ \A r \in Requests : pc[r] = "caching" => r \in executed
  /\ \A k \in Keys : result[k] # NoBody =>
       result[k] \in executed /\ key[result[k]] = k

(* Every replay returns what a committed run with the same key and the     *)
(* same payload produced (tryAcquireOrReplay's GET and hash comparison).   *)
THEOREM Replay == Spec => [](CacheSound /\ ReplayIsFaithful)
<1> DEFINE IInv == CacheSound /\ ReplayIsFaithful
<1> USE IdempotencyAssumption
<1>1. Init => IInv
  BY DEF Init, CacheSound, ReplayIsFaithful, NoAnswer
<1>2. TypeOK /\ KeyedInv /\ IInv /\ [Next]_vars => IInv'
  <2> SUFFICES ASSUME TypeOK, KeyedInv, IInv, [Next]_vars
               PROVE  IInv'
    OBVIOUS
  <2> USE DEF TypeOK, KeyedInv, CacheSound, ReplayIsFaithful,
              request, redis, bookkeeping, Respond
  <2>1. ASSUME NEW r \in Requests, Send(r) \/ RetryEarly(r)
        PROVE  IInv'
    BY <2>1 DEF Send, RetryEarly, NoAnswer
  <2>2. ASSUME NEW r \in Requests, PassThrough(r) \/ RejectKey(r) \/ Unavailable(r)
        PROVE  IInv'
    BY <2>2 DEF PassThrough, RejectKey, Unavailable
  <2>3. ASSUME NEW r \in Requests, GetResult(r)
        PROVE  IInv'
    BY <2>3 DEF GetResult
  <2>4. ASSUME NEW r \in Requests, AcquireLock(r)
        PROVE  IInv'
    BY <2>4 DEF AcquireLock
  <2>5. ASSUME NEW r \in Requests, HandlerCommits(r) \/ HandlerFails(r)
        PROVE  IInv'
    BY <2>5 DEF HandlerCommits, HandlerFails
  <2>6. ASSUME NEW r \in Requests, CacheResult(r)
        PROVE  IInv'
    BY <2>6 DEF CacheResult
  <2>7. ASSUME NEW r \in Requests, ReleaseLock(r)
        PROVE  IInv'
    BY <2>7 DEF ReleaseLock
  <2>8. ASSUME NEW k \in Keys, LockExpires(k) \/ ResultExpires(k)
        PROVE  IInv'
    BY <2>8 DEF LockExpires, ResultExpires
  <2>9. CASE RedisGoesDown \/ RedisComesUp
    BY <2>9 DEF RedisGoesDown, RedisComesUp
  <2>10. CASE Crash
    BY <2>10 DEF Crash, Running
  <2>11. CASE UNCHANGED vars
    BY <2>11 DEF vars
  <2> QED
    BY <2>1, <2>2, <2>3, <2>4, <2>5, <2>6, <2>7, <2>8, <2>9, <2>10, <2>11
       DEF Next, Step
<1> QED
  BY <1>1, <1>2, Typing, PTL DEF Spec

-----------------------------------------------------------------------------
(* A committed transaction of a key that is not forgotten is cached or     *)
(* about to be, and while a request of such a key is at work the key has   *)
(* no result.                                                              *)
Remembered ==
  /\ \A r \in executed :
       key[r] \in Keys \ forgotten => pc[r] = "caching" \/ result[key[r]] = r
  /\ \A r \in Requests :
       pc[r] \in {"handling", "caching"} /\ key[r] \in Keys \ forgotten
         => result[key[r]] = NoBody

(* While handlers stay inside the lock's TTL one key commits at most one   *)
(* transaction, through any overlap, retry, crash or outage, unless its    *)
(* result was kept from a later request in one of the three ways that      *)
(* `forgotten` records (intercept, tryAcquireOrReplay, cacheResult).       *)
THEOREM OnceUnlessForgotten ==
  ASSUME WithinBudget
  PROVE  Spec => []AtMostOnce
<1> USE IdempotencyAssumption
<1>1. Init => Remembered
  BY DEF Init, Remembered
<1>2. TypeOK /\ KeyedInv /\ ExclusiveProcessing /\ Remembered /\ [Next]_vars
        => Remembered'
  <2> SUFFICES ASSUME TypeOK, KeyedInv, ExclusiveProcessing, Remembered,
                      [Next]_vars
               PROVE  Remembered'
    OBVIOUS
  <2> USE DEF TypeOK, KeyedInv, Remembered, request, redis, bookkeeping, Respond
  <2>1. ASSUME NEW r \in Requests, Send(r) \/ RetryEarly(r)
        PROVE  Remembered'
    BY <2>1 DEF Send, RetryEarly
  <2>2. ASSUME NEW r \in Requests, PassThrough(r) \/ RejectKey(r) \/ Unavailable(r)
        PROVE  Remembered'
    BY <2>2 DEF PassThrough, RejectKey, Unavailable
  <2>3. ASSUME NEW r \in Requests, GetResult(r)
        PROVE  Remembered'
    BY <2>3 DEF GetResult
  <2>4. ASSUME NEW r \in Requests, AcquireLock(r)
        PROVE  Remembered'
    BY <2>4 DEF AcquireLock
  <2>5. ASSUME NEW r \in Requests, HandlerCommits(r)
        PROVE  Remembered'
    BY <2>5 DEF HandlerCommits
  <2>6. ASSUME NEW r \in Requests, HandlerFails(r)
        PROVE  Remembered'
    BY <2>6 DEF HandlerFails
  <2>7. ASSUME NEW r \in Requests, CacheResult(r)
        PROVE  Remembered'
    <3>1. CASE redisUp
      <4>1. \A q \in Requests :
              q # r /\ key[q] = key[r] => pc[q] \notin {"handling", "caching"}
        BY <2>7 DEF CacheResult, ExclusiveProcessing, Processing
      <4> QED
        BY <2>7, <3>1, <4>1 DEF CacheResult
    <3>2. CASE ~redisUp
      BY <2>7, <3>2 DEF CacheResult
    <3> QED
      BY <3>1, <3>2
  <2>8. ASSUME NEW r \in Requests, ReleaseLock(r)
        PROVE  Remembered'
    BY <2>8 DEF ReleaseLock
  <2>9. ASSUME NEW k \in Keys, LockExpires(k) \/ ResultExpires(k)
        PROVE  Remembered'
    BY <2>9 DEF LockExpires, ResultExpires
  <2>10. CASE RedisGoesDown \/ RedisComesUp
    BY <2>10 DEF RedisGoesDown, RedisComesUp
  <2>11. CASE Crash
    BY <2>11 DEF Crash, Running
  <2>12. CASE UNCHANGED vars
    BY <2>12 DEF vars
  <2> QED
    BY <2>1, <2>2, <2>3, <2>4, <2>5, <2>6, <2>7, <2>8, <2>9, <2>10, <2>11,
       <2>12 DEF Next, Step
<1>3. TypeOK /\ ExclusiveProcessing /\ Remembered => AtMostOnce
  BY DEF TypeOK, KeyedInv, ExclusiveProcessing, Processing, Remembered, AtMostOnce
<1> QED
  BY <1>1, <1>2, <1>3, Typing, Exclusion, PTL DEF Spec
=============================================================================
