---------------------------- MODULE Idempotency ----------------------------
(***************************************************************************)
(* HTTP idempotency of the financial endpoints.                            *)
(*                                                                         *)
(*   backend/src/common/interceptors/idempotency.interceptor.ts            *)
(*   backend/src/common/cache/idempotency-cache.service.ts                 *)
(*   frontend/src/api/client.ts (the single automatic retry of a 425)      *)
(*                                                                         *)
(* A request carries an Idempotency-Key and a payload.  The interceptor    *)
(* talks to Redis in separate round trips: GET result, SET NX lock, and,   *)
(* after the handler, MULTI(SET result, DEL lock) or DEL lock.  Each round *)
(* trip is an action, so the requests interleave between them.  The        *)
(* handler is the wrapped endpoint: one database transaction that commits  *)
(* or fails.  A response body is named by the request whose handler run    *)
(* produced it.                                                            *)
(***************************************************************************)
EXTENDS Naturals, FiniteSets

CONSTANTS
  Requests,        \* request slots of the API server
  Keys,            \* well-formed Idempotency-Key values
  Payloads,        \* canonicalized request bodies (their SHA-256)
  NoKey,           \* the header is absent
  BadKey,          \* the header does not match IDEMPOTENCY_KEY_PATTERN
  NoBody,          \* no response body / no cached result
  WithinBudget,    \* do handlers finish inside the 60 s lock TTL?
  MaxCrashes       \* bound on the crashes of the API process

ASSUME IdempotencyAssumption ==
  /\ NoKey \notin Keys /\ BadKey \notin Keys /\ NoKey # BadKey
  /\ NoBody \notin Requests
  /\ WithinBudget \in BOOLEAN
  /\ MaxCrashes \in Nat

VARIABLES
  key,       \* Requests -> header of the request
  payload,   \* Requests -> hash of its body
  pc,        \* Requests -> how far the interceptor got
  answer,    \* Requests -> [code, body] sent to the client
  retried,   \* the requests client.ts already retried after a 425
  executed,  \* the requests whose handler committed its transaction
  result,    \* Redis <ns>:result, per key: the request that produced it
  lock,      \* Redis <ns>:lock: the keys being processed
  redisUp,   \* isAvailable()
  crashes,
  forgotten  \* history: the keys whose committed run a later request could
             \* overlook: its result never reached Redis or is gone, or was
             \* stored between another request's GET and its SET NX

request     == <<key, payload>>
redis       == <<result, lock, redisUp>>
bookkeeping == <<crashes, forgotten>>
vars        == <<key, payload, pc, answer, retried, executed, result, lock,
                 redisUp, crashes, forgotten>>

Codes == {"none", "ok", "replay", "invalid", "mismatch", "early",
          "unavailable", "error"}
PCs   == {"idle", "sent", "missed", "handling", "caching", "releasing", "done"}
NoAnswer == [code |-> "none", body |-> NoBody]

(* The type invariant: every variable holds the values its code can give it. *)
TypeOK ==
  /\ key \in [Requests -> Keys \cup {NoKey, BadKey}]
  /\ payload \in [Requests -> Payloads]
  /\ pc \in [Requests -> PCs]
  /\ answer \in [Requests -> [code : Codes, body : Requests \cup {NoBody}]]
  /\ retried \subseteq Requests
  /\ executed \subseteq Requests
  /\ result \in [Keys -> Requests \cup {NoBody}]
  /\ lock \subseteq Keys
  /\ redisUp \in BOOLEAN
  /\ crashes \in 0 .. MaxCrashes
  /\ forgotten \subseteq Keys

Init ==
  /\ key \in [Requests -> Keys \cup {NoKey, BadKey}]
  /\ payload \in [Requests -> Payloads]
  /\ pc = [r \in Requests |-> "idle"]
  /\ answer = [r \in Requests |-> NoAnswer]
  /\ retried = {}
  /\ executed = {}
  /\ result = [k \in Keys |-> NoBody]
  /\ lock = {}
  /\ redisUp = TRUE
  /\ crashes = 0
  /\ forgotten = {}

Running(r)    == pc[r] \notin {"idle", "done"}
Processing(r) == pc[r] \in {"handling", "caching", "releasing"}

Respond(r, code, body) ==
  /\ pc' = [pc EXCEPT ![r] = "done"]
  /\ answer' = [answer EXCEPT ![r] = [code |-> code, body |-> body]]

-----------------------------------------------------------------------------
(* The client. *)

(* A page sends a request under its current key: the first attempt of an   *)
(* intent, or a cashier pressing the button again after an error.          *)
Send(r) ==
  /\ pc[r] = "idle"
  /\ pc' = [pc EXCEPT ![r] = "sent"]
  /\ UNCHANGED <<request, answer, retried, executed, redis, bookkeeping>>

(* _handleIdempotencyError: one automatic retry of a 425, same headers and *)
(* body; the second 425 is rejected.                                       *)
RetryEarly(r) ==
  /\ pc[r] = "done"
  /\ answer[r].code = "early"
  /\ r \notin retried
  /\ pc' = [pc EXCEPT ![r] = "sent"]
  /\ answer' = [answer EXCEPT ![r] = NoAnswer]
  /\ retried' = retried \cup {r}
  /\ UNCHANGED <<request, executed, redis, bookkeeping>>

-----------------------------------------------------------------------------
(* The interceptor and the cache service. *)

(* No header: next.handle() with no protection at all. *)
PassThrough(r) ==
  /\ pc[r] = "sent"
  /\ key[r] = NoKey
  /\ pc' = [pc EXCEPT ![r] = "handling"]
  /\ UNCHANGED <<request, answer, retried, executed, redis, bookkeeping>>

RejectKey(r) ==
  /\ pc[r] = "sent"
  /\ key[r] = BadKey
  /\ Respond(r, "invalid", NoBody)
  /\ UNCHANGED <<request, retried, executed, redis, bookkeeping>>

(* isAvailable() is false, or the command throws: 503, fail closed. *)
Unavailable(r) ==
  /\ pc[r] \in {"sent", "missed"}
  /\ key[r] \in Keys
  /\ ~redisUp
  /\ Respond(r, "unavailable", NoBody)
  /\ UNCHANGED <<request, retried, executed, redis, bookkeeping>>

(* Mutant: the payload hash is not compared. *)
GetResultAnyPayload(r) ==
  /\ pc[r] = "sent" /\ key[r] \in Keys /\ redisUp
  /\ IF result[key[r]] = NoBody
     THEN pc' = [pc EXCEPT ![r] = "missed"] /\ UNCHANGED answer
     ELSE Respond(r, "replay", result[key[r]])
  /\ UNCHANGED <<request, retried, executed, redis, bookkeeping>>

(* GET result: replay, 409 on another payload, or go on to the lock. *)
GetResult(r) ==
  /\ pc[r] = "sent"
  /\ key[r] \in Keys
  /\ redisUp
  /\ LET cached == result[key[r]] IN
     \/ /\ cached = NoBody
        /\ pc' = [pc EXCEPT ![r] = "missed"]
        /\ UNCHANGED answer
     \/ /\ cached # NoBody
        /\ payload[cached] = payload[r]
        /\ Respond(r, "replay", cached)
     \/ /\ cached # NoBody
        /\ payload[cached] # payload[r]
        /\ Respond(r, "mismatch", NoBody)
  /\ UNCHANGED <<request, retried, executed, redis, bookkeeping>>

(* Mutant: SET without NX. *)
AcquireLockNoNX(r) ==
  /\ pc[r] = "missed" /\ redisUp
  /\ lock' = lock \cup {key[r]}
  /\ pc' = [pc EXCEPT ![r] = "handling"]
  /\ UNCHANGED <<request, answer, retried, executed, result, redisUp,
                 bookkeeping>>

(* SET lock NX EX 60: the caller becomes the processor, or gets a 425. *)
AcquireLock(r) ==
  /\ pc[r] = "missed"
  /\ redisUp
  /\ \/ /\ key[r] \notin lock
        /\ lock' = lock \cup {key[r]}
        /\ pc' = [pc EXCEPT ![r] = "handling"]
        /\ forgotten' = IF result[key[r]] = NoBody THEN forgotten
                        ELSE forgotten \cup {key[r]}
        /\ UNCHANGED answer
     \/ /\ key[r] \in lock
        /\ Respond(r, "early", NoBody)
        /\ UNCHANGED <<lock, forgotten>>
  /\ UNCHANGED <<request, retried, executed, result, redisUp, crashes>>

(* The handler commits.  tap() does not wait for its async callback, so    *)
(* the response leaves now and cacheResult runs later.                     *)
HandlerCommits(r) ==
  /\ pc[r] = "handling"
  /\ executed' = executed \cup {r}
  /\ answer' = [answer EXCEPT ![r] = [code |-> "ok", body |-> r]]
  /\ pc' = [pc EXCEPT ![r] = IF key[r] = NoKey THEN "done" ELSE "caching"]
  /\ UNCHANGED <<request, retried, redis, bookkeeping>>

(* The handler throws and its transaction rolls back. *)
HandlerFails(r) ==
  /\ pc[r] = "handling"
  /\ IF key[r] = NoKey
     THEN Respond(r, "error", NoBody)
     ELSE pc' = [pc EXCEPT ![r] = "releasing"] /\ UNCHANGED answer
  /\ UNCHANGED <<request, retried, executed, redis, bookkeeping>>

(* cacheResult: MULTI SET result, DEL lock; nothing when Redis is down. *)
CacheResult(r) ==
  /\ pc[r] = "caching"
  /\ IF redisUp
     THEN /\ result' = [result EXCEPT ![key[r]] = r]
          /\ lock' = lock \ {key[r]}
          /\ UNCHANGED forgotten
     ELSE /\ forgotten' = forgotten \cup {key[r]}
          /\ UNCHANGED <<result, lock>>
  /\ pc' = [pc EXCEPT ![r] = "done"]
  /\ UNCHANGED <<request, answer, retried, executed, redisUp, crashes>>

(* releaseLock is awaited, then catchError rethrows the handler's error. *)
ReleaseLock(r) ==
  /\ pc[r] = "releasing"
  /\ lock' = IF redisUp THEN lock \ {key[r]} ELSE lock
  /\ Respond(r, "error", NoBody)
  /\ UNCHANGED <<request, retried, executed, result, redisUp, bookkeeping>>

-----------------------------------------------------------------------------
(* The environment. *)

(* Mutant: SET NX without EX. *)
LockNeverExpires(k) == FALSE /\ k \in lock /\ UNCHANGED vars

(* The 60 s TTL of the lock elapses. *)
LockExpires(k) ==
  /\ k \in lock
  /\ WithinBudget => \A r \in Requests : key[r] = k => ~Processing(r)
  /\ lock' = lock \ {k}
  /\ UNCHANGED <<request, pc, answer, retried, executed, result, redisUp,
                 bookkeeping>>

(* The 24 h TTL of the result elapses. *)
ResultExpires(k) ==
  /\ result[k] # NoBody
  /\ result' = [result EXCEPT ![k] = NoBody]
  /\ forgotten' = forgotten \cup {k}
  /\ UNCHANGED <<request, pc, answer, retried, executed, lock, redisUp,
                 crashes>>

RedisGoesDown ==
  /\ redisUp
  /\ redisUp' = FALSE
  /\ UNCHANGED <<request, pc, answer, retried, executed, result, lock,
                 bookkeeping>>

RedisComesUp ==
  /\ ~redisUp
  /\ redisUp' = TRUE
  /\ UNCHANGED <<request, pc, answer, retried, executed, result, lock,
                 bookkeeping>>

(* The API process dies: every running request is gone, Redis is not.  A   *)
(* committed run that had not reached cacheResult leaves only its lock.    *)
Crash ==
  /\ crashes < MaxCrashes
  /\ \E r \in Requests : Running(r)
  /\ crashes' = crashes + 1
  /\ pc' = [r \in Requests |-> IF Running(r) THEN "done" ELSE pc[r]]
  /\ forgotten' =
       forgotten \cup {key[r] : r \in {q \in Requests : pc[q] = "caching"}}
  /\ UNCHANGED <<request, answer, retried, executed, redis>>

Step(r) ==
  \/ PassThrough(r) \/ RejectKey(r) \/ Unavailable(r)
  \/ GetResult(r) \/ AcquireLock(r)
  \/ HandlerCommits(r) \/ HandlerFails(r)
  \/ CacheResult(r) \/ ReleaseLock(r)

Next ==
  \/ \E r \in Requests : Send(r) \/ RetryEarly(r) \/ Step(r)
  \/ \E k \in Keys : LockExpires(k) \/ ResultExpires(k)
  \/ RedisGoesDown \/ RedisComesUp \/ Crash

(* Node runs every request to its end; Redis expires every lock. *)
Fairness ==
  /\ \A r \in Requests : WF_vars(Step(r))
  /\ \A k \in Keys : WF_vars(LockExpires(k))

Spec == Init /\ [][Next]_vars /\ Fairness

-----------------------------------------------------------------------------
(* Properties. *)

(* Two requests with one key are never both past the lock: neither the     *)
(* interleaving of GET and SET NX, nor a late DEL, nor a crash or a Redis  *)
(* outage lets a second processor in while the first one is at work.       *)
ExclusiveProcessing ==
  \A q, r \in Requests :
    q # r /\ key[q] \in Keys /\ key[q] = key[r] =>
      ~(Processing(q) /\ Processing(r))

(* A replayed body was produced by a committed handler run with the same   *)
(* key and the same payload: never by a run that rolled back, and never    *)
(* another sale.                                                           *)
ReplayIsFaithful ==
  \A r \in Requests :
    answer[r].code = "replay" =>
      LET x == answer[r].body IN
      /\ x \in executed
      /\ key[x] = key[r]
      /\ payload[x] = payload[r]

(* However requests with one key overlap, are retried, crash or find Redis *)
(* down, the key commits one transaction, unless one of three things took  *)
(* its result from a later request: Redis was down or the process died     *)
(* when it should be cached, its TTL elapsed, or it was cached after that  *)
(* request had looked and before it took the free lock.                    *)
AtMostOnce ==
  \A q, r \in executed :
    key[q] \in Keys \ forgotten /\ key[q] = key[r] => q = r

(* A key is not blocked for ever by a processor that died or that could    *)
(* not reach Redis to release its lock.                                    *)
LockIsFreed == \A k \in Keys : k \in lock ~> k \notin lock
=============================================================================
