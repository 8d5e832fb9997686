---------------------------- MODULE OfflineSync ----------------------------
(***************************************************************************)
(* Offline sales of one device: the checkout page's fallback, the          *)
(* IndexedDB queue with its sync() runs, and the server's /sync/push.      *)
(*                                                                         *)
(*   frontend/src/pages/POS.tsx          checkout, fallback to the queue   *)
(*   frontend/src/lib/offline-queue.ts   enqueueInvoice, sync, auto-sync   *)
(*   backend/src/sync/sync.service.ts    push, applyOperation              *)
(*                                                                         *)
(* sync() is started by the 'online' event and by a 60 s interval, only    *)
(* while navigator.onLine says so, with no guard against a run that is     *)
(* still waiting, so several runs may be alive (Runs).  A push is handled  *)
(* statement by statement on the server: the SELECT of the queue row, the  *)
(* operation's own transaction, the UPDATE of the row.  The device may     *)
(* give up on a push (30 s timeout, lost connection) while the server goes *)
(* on with it.                                                             *)
(* The order of the operations inside a batch is left open.                *)
(***************************************************************************)
EXTENDS Naturals, FiniteSets

CONSTANTS
  Sales,          \* sales rung up on the device
  Runs,           \* sync() runs that may be alive together
  NoSale,
  MaxRetries,     \* MAX_RETRIES (5)
  BatchSize,      \* BATCH_SIZE (50)
  MaxCrashes,     \* bound on server crashes
  MaxBooked       \* bound on the invoices booked for one sale

ASSUME OfflineSyncAssumption ==
  /\ NoSale \notin Sales
  /\ MaxRetries \in Nat \ {0} /\ BatchSize \in Nat \ {0}
  /\ MaxCrashes \in Nat /\ MaxBooked \in Nat \ {0}

VARIABLES
  online,    \* navigator.onLine
  sale,      \* Sales -> where the device has the sale
  attempts,  \* Sales -> attempts of its IndexedDB record
  client,    \* Runs -> is the device's run waiting for an answer?
  batch,     \* Runs -> the sales of the push that is waiting
  rest,      \* Runs -> the sales of the run's snapshot not sent yet
  seen,      \* Runs -> the attempts as the run's snapshot has them
  server,    \* Runs -> step of the server on the run's push
  todo,      \* Runs -> operations the server has not finished
  current,   \* Runs -> the operation it is working on
  outcome,   \* Runs -> how applyOperation ended
  results,   \* Runs -> the states returned to the device
  row,       \* Sales -> state of the row in offline_sync_queue
  booked,    \* Sales -> invoices created for the sale
  post,      \* Sales -> the POST /pos/invoices of the sale on the server
  crashes,
  tries,     \* history: deliveries of the sale that ended in a failure
  unsure     \* history: sales of which the server may hold an invoice that
             \* neither their row nor the device knows of

deviceVars == <<online, sale, attempts, tries>>
runVars    == <<client, batch, rest, seen>>
pushVars   == <<server, todo, current, outcome, results>>
vars == <<online, sale, attempts, client, batch, rest, seen, server, todo,
          current, outcome, results, row, booked, post, crashes, tries, unsure>>

States == {"pending", "synced", "conflict", "failed"}

(* The type invariant. *)
TypeOK ==
  /\ online \in BOOLEAN
  /\ sale \in [Sales -> {"cart", "posting", "queued", "settled",
                       "refused", "dropped"}]
  /\ attempts \in [Sales -> 0 .. MaxRetries - 1]
  /\ client \in [Runs -> {"idle", "waiting"}]
  /\ batch \in [Runs -> SUBSET Sales]
  /\ rest \in [Runs -> SUBSET Sales]
  /\ seen \in [Runs -> [Sales -> 0 .. MaxRetries - 1]]
  /\ server \in [Runs -> {"idle", "next", "apply", "mark"}]
  /\ todo \in [Runs -> SUBSET Sales]
  /\ current \in [Runs -> Sales \cup {NoSale}]
  /\ outcome \in [Runs -> {"none", "synced", "conflict", "failed"}]
  /\ results \in [Runs -> [Sales -> {"none", "duplicate", "synced",
                                     "conflict", "failed"}]]
  /\ row \in [Sales -> States \cup {"none"}]
  /\ booked \in [Sales -> Nat]
  /\ post \in [Sales -> {"none", "running", "created", "rejected"}]
  /\ crashes \in Nat
  /\ tries \in [Sales -> Nat]
  /\ unsure \in SUBSET Sales

NoResults == [s \in Sales |-> "none"]

Init ==
  /\ online \in BOOLEAN
  /\ sale = [s \in Sales |-> "cart"]
  /\ attempts = [s \in Sales |-> 0]
  /\ client = [y \in Runs |-> "idle"]
  /\ batch = [y \in Runs |-> {}]
  /\ rest = [y \in Runs |-> {}]
  /\ seen = [y \in Runs |-> [s \in Sales |-> 0]]
  /\ server = [y \in Runs |-> "idle"]
  /\ todo = [y \in Runs |-> {}]
  /\ current = [y \in Runs |-> NoSale]
  /\ outcome = [y \in Runs |-> "none"]
  /\ results = [y \in Runs |-> NoResults]
  /\ row = [s \in Sales |-> "none"]
  /\ booked = [s \in Sales |-> 0]
  /\ post = [s \in Sales |-> "none"]
  /\ crashes = 0
  /\ tries = [s \in Sales |-> 0]
  /\ unsure = {}

Queue == {s \in Sales : sale[s] = "queued"}

(* The browser notices that it has, or lost, a network. *)
Connection ==
  /\ online' = ~online
  /\ UNCHANGED <<sale, attempts, tries, runVars, pushVars, row, booked, post,
                 crashes, unsure>>

-----------------------------------------------------------------------------
(* The checkout page. *)

(* navigator.onLine is false: straight to the queue. *)
QueueSale(s) ==
  /\ ~online
  /\ sale[s] = "cart"
  /\ sale' = [sale EXCEPT ![s] = "queued"]
  /\ UNCHANGED <<online, attempts, tries, runVars, pushVars, row, booked, post,
                 crashes, unsure>>

PostSale(s) ==
  /\ online
  /\ sale[s] = "cart"
  /\ sale' = [sale EXCEPT ![s] = "posting"]
  /\ post' = [post EXCEPT ![s] = "running"]
  /\ UNCHANGED <<online, attempts, tries, runVars, pushVars, row, booked, crashes,
                 unsure>>

(* PosService.createInvoice on the server: commit or refuse. *)
CreateInvoice(s) ==
  /\ post[s] = "running"
  /\ booked[s] < MaxBooked
  /\ \/ /\ post' = [post EXCEPT ![s] = "created"]
        /\ booked' = [booked EXCEPT ![s] = @ + 1]
     \/ /\ post' = [post EXCEPT ![s] = "rejected"]
        /\ UNCHANGED booked
  /\ UNCHANGED <<deviceVars, runVars, pushVars, row, crashes, unsure>>

(* onSuccess clears the cart; an error with a response leaves it. *)
PostAnswered(s) ==
  /\ sale[s] = "posting"
  /\ \/ /\ post[s] = "created"
        /\ sale' = [sale EXCEPT ![s] = "settled"]
     \/ /\ post[s] = "rejected"
        /\ sale' = [sale EXCEPT ![s] = "cart"]
  /\ post' = [post EXCEPT ![s] = "none"]
  /\ UNCHANGED <<online, attempts, tries, runVars, pushVars, row, booked, crashes,
                 unsure>>

(* onError without a response: the payload goes to the queue under a new   *)
(* offline id and the cart, with its idempotency key, is cleared.  The     *)
(* server may be anywhere with the POST, or never have seen it; when it    *)
(* books the POST, or has booked it, nothing ties that invoice to the      *)
(* record in the queue.                                                    *)
PostLost(s) ==
  /\ sale[s] = "posting"
  /\ sale' = [sale EXCEPT ![s] = "queued"]
  /\ \/ /\ unsure' = IF post[s] \in {"running", "created"}
                       THEN unsure \cup {s} ELSE unsure
        /\ UNCHANGED post
     \/ /\ post[s] = "running"
        /\ post' = [post EXCEPT ![s] = "none"]
        /\ UNCHANGED unsure
  /\ UNCHANGED <<online, attempts, tries, runVars, pushVars, row, booked, crashes>>

-----------------------------------------------------------------------------
(* The device's sync() run. *)

(* The next slice of the snapshot goes out as one POST /sync/push. *)
SendBatch(y, snapshot) ==
  \E b \in SUBSET snapshot :
    /\ Cardinality(b) = IF Cardinality(snapshot) < BatchSize
                        THEN Cardinality(snapshot) ELSE BatchSize
    /\ batch' = [batch EXCEPT ![y] = b]
    /\ rest' = [rest EXCEPT ![y] = snapshot \ b]
    /\ client' = [client EXCEPT ![y] = "waiting"]
    /\ server' = [server EXCEPT ![y] = "next"]
    /\ todo' = [todo EXCEPT ![y] = b]
    /\ results' = [results EXCEPT ![y] = NoResults]

(* navigator.onLine, then pending() reads the whole queue; its attempts    *)
(* are used until the run ends.                                            *)
StartSync(y) ==
  /\ online
  /\ client[y] = "idle" /\ server[y] = "idle"
  /\ Queue # {}
  /\ seen' = [seen EXCEPT ![y] = attempts]
  /\ SendBatch(y, Queue)
  /\ UNCHANGED <<deviceVars, current, outcome, row, booked, post, crashes, unsure>>

(* A failed delivery of the sales in b: attempts + 1 from the snapshot,    *)
(* dropped at MAX_RETRIES; a record that is gone stays gone.               *)
Bumped(y, b) == [s \in Sales |->
  IF s \in b \cap Queue /\ seen[y][s] + 1 < MaxRetries
  THEN seen[y][s] + 1 ELSE attempts[s]]
Exhausted(y, b) == {s \in b \cap Queue : seen[y][s] + 1 >= MaxRetries}
CountTries(b) == [s \in Sales |-> IF s \in b \cap Queue THEN tries[s] + 1 ELSE tries[s]]

Answered(y, states) == {s \in batch[y] : results[y][s] \in states}

EndRun(y) ==
  /\ client' = [client EXCEPT ![y] = "idle"]
  /\ batch' = [batch EXCEPT ![y] = {}]
  /\ rest' = [rest EXCEPT ![y] = {}]
  /\ seen' = [seen EXCEPT ![y] = [s \in Sales |-> 0]]

EndPush(y) ==
  /\ server' = [server EXCEPT ![y] = "idle"]
  /\ todo' = [todo EXCEPT ![y] = {}]
  /\ results' = [results EXCEPT ![y] = NoResults]

(* Mutant: a 'failed' answer removes the record as if it were synced. *)
PushAnsweredTrusts(y) ==
  /\ client[y] = "waiting" /\ server[y] = "next" /\ todo[y] = {}
  /\ sale' = [s \in Sales |->
       IF s \in Queue \cap batch[y] THEN "settled" ELSE sale[s]]
  /\ EndRun(y) /\ EndPush(y)
  /\ UNCHANGED <<online, attempts, tries, current, outcome, row, booked, post,
                 crashes, unsure>>
(* Mutants: the retry limit is off by one; a failed sale is never dropped. *)
PushAnsweredImpatient(y) ==
  /\ client[y] = "waiting" /\ server[y] = "next" /\ todo[y] = {}
  /\ LET failed == Answered(y, {"failed"}) IN
     /\ sale' = [s \in Sales |-> CASE
          s \in Queue \cap Answered(y, {"synced", "duplicate"}) -> "settled"
          [] s \in Queue \cap Answered(y, {"conflict"}) -> "refused"
          [] s \in Queue \cap failed /\ seen[y][s] + 2 >= MaxRetries -> "dropped"
          [] OTHER -> sale[s]]
     /\ attempts' = Bumped(y, failed)
     /\ tries' = CountTries(failed)
  /\ EndRun(y) /\ EndPush(y)
  /\ UNCHANGED <<online, current, outcome, row, booked, post, crashes, unsure>>
PushAnsweredForever(y) ==
  /\ client[y] = "waiting" /\ server[y] = "next" /\ todo[y] = {}
  /\ sale' = [s \in Sales |->
       IF s \in Queue \cap Answered(y, {"synced", "duplicate"}) THEN "settled"
       ELSE sale[s]]
  /\ EndRun(y) /\ EndPush(y)
  /\ UNCHANGED <<online, attempts, tries, current, outcome, row, booked, post,
                 crashes, unsure>>

(* The answer arrives: synced, duplicate and conflict records are removed, *)
(* failed ones are counted; then the next slice, or the end of the run.    *)
PushAnswered(y) ==
  /\ client[y] = "waiting" /\ server[y] = "next" /\ todo[y] = {}
  /\ LET failed == Answered(y, {"failed"}) IN
     /\ sale' = [s \in Sales |-> CASE
          s \in Queue \cap Answered(y, {"synced", "duplicate"}) -> "settled"
          [] s \in Queue \cap Answered(y, {"conflict"}) -> "refused"
          [] s \in Exhausted(y, failed) -> "dropped"
          [] OTHER -> sale[s]]
     /\ attempts' = Bumped(y, failed)
     /\ tries' = CountTries(failed)
  /\ IF rest[y] = {} THEN EndRun(y) /\ EndPush(y)
                     ELSE SendBatch(y, rest[y]) /\ UNCHANGED seen
  /\ UNCHANGED <<online, current, outcome, row, booked, post, crashes, unsure>>

(* The push fails for the device: every record of the batch is counted and *)
(* the run stops.  The server keeps working on it, or never received it.   *)
PushLost(y) ==
  /\ client[y] = "waiting"
  /\ sale' = [s \in Sales |->
       IF s \in Exhausted(y, batch[y]) THEN "dropped" ELSE sale[s]]
  /\ attempts' = Bumped(y, batch[y])
  /\ tries' = CountTries(batch[y])
  /\ EndRun(y)
  /\ \/ UNCHANGED <<server, todo, results>>
     \/ server[y] = "next" /\ todo[y] = batch[y] /\ EndPush(y)
  /\ UNCHANGED <<online, current, outcome, row, booked, post, crashes, unsure>>

-----------------------------------------------------------------------------
(* SyncService.push on the server, one operation of the batch at a time. *)

(* Another push is between its SELECT of the row and its UPDATE: two       *)
(* transactions of one sale at the same time. *)
WorksOn(z, s) == server[z] \in {"apply", "mark"} /\ current[z] = s
Contended(s) == IF \E z \in Runs : WorksOn(z, s) THEN unsure \cup {s} ELSE unsure

(* Mutant: the idempotency check is skipped. *)
CheckRowBlind(y) ==
  /\ server[y] = "next"
  /\ \E s \in todo[y] :
       /\ row' = [row EXCEPT ![s] = IF @ = "none" THEN "pending" ELSE @]
       /\ current' = [current EXCEPT ![y] = s]
       /\ server' = [server EXCEPT ![y] = "apply"]
       /\ unsure' = Contended(s)
  /\ UNCHANGED <<deviceVars, runVars, todo, results, outcome, booked, post,
                 crashes>>

(* SELECT the row: 'synced' is a duplicate; otherwise upsert it, which     *)
(* creates it as 'pending' and leaves the state of an existing row.        *)
CheckRow(y) ==
  /\ server[y] = "next"
  /\ \E s \in todo[y] :
       \/ /\ row[s] = "synced"
          /\ results' = [results EXCEPT ![y][s] = "duplicate"]
          /\ todo' = [todo EXCEPT ![y] = @ \ {s}]
          /\ UNCHANGED <<row, current, server, unsure>>
       \/ /\ row[s] # "synced"
          /\ row' = [row EXCEPT ![s] = IF @ = "none" THEN "pending" ELSE @]
          /\ current' = [current EXCEPT ![y] = s]
          /\ server' = [server EXCEPT ![y] = "apply"]
          /\ unsure' = Contended(s)
          /\ UNCHANGED <<results, todo>>
  /\ UNCHANGED <<deviceVars, runVars, outcome, booked, post, crashes>>

(* applyOperation: createInvoice in a transaction of its own. *)
ApplyOperation(y) ==
  /\ server[y] = "apply"
  /\ \/ /\ booked[current[y]] < MaxBooked
        /\ booked' = [booked EXCEPT ![current[y]] = @ + 1]
        /\ outcome' = [outcome EXCEPT ![y] = "synced"]
     \/ /\ \E e \in {"conflict", "failed"} : outcome' = [outcome EXCEPT ![y] = e]
        /\ UNCHANGED booked
  /\ server' = [server EXCEPT ![y] = "mark"]
  /\ UNCHANGED <<deviceVars, runVars, todo, current, results, row, post, crashes,
                 unsure>>

(* UPDATE the row with the outcome.  The UPDATE to 'synced' sits inside    *)
(* the try block: if it throws, the catch block writes 'failed' although   *)
(* the invoice exists.                                                     *)
MarkRow(y) ==
  /\ server[y] = "mark"
  /\ \E o \in {outcome[y], "failed"} :
       /\ row' = [row EXCEPT ![current[y]] = o]
       /\ results' = [results EXCEPT ![y][current[y]] = o]
       /\ unsure' = IF o # outcome[y] /\ outcome[y] = "synced"
                    THEN unsure \cup {current[y]} ELSE unsure
  /\ todo' = [todo EXCEPT ![y] = @ \ {current[y]}]
  /\ server' = [server EXCEPT ![y] = "next"]
  /\ current' = [current EXCEPT ![y] = NoSale]
  /\ outcome' = [outcome EXCEPT ![y] = "none"]
  /\ UNCHANGED <<deviceVars, runVars, booked, post, crashes>>

(* The push ends and nobody listens any more. *)
PushUnheard(y) ==
  /\ client[y] = "idle" /\ server[y] = "next" /\ todo[y] = {}
  /\ EndPush(y)
  /\ UNCHANGED <<deviceVars, runVars, current, outcome, row, booked, post, crashes, unsure>>

(* The server dies: pushes and posts stop where they are; what committed   *)
(* stays, and so does an invoice whose row was not marked yet.             *)
Crash ==
  /\ crashes < MaxCrashes
  /\ \/ \E y \in Runs : server[y] # "idle"
     \/ \E s \in Sales : post[s] = "running"
  /\ crashes' = crashes + 1
  /\ server' = [y \in Runs |-> "idle"]
  /\ todo' = [y \in Runs |-> {}]
  /\ current' = [y \in Runs |-> NoSale]
  /\ outcome' = [y \in Runs |-> "none"]
  /\ results' = [y \in Runs |-> NoResults]
  /\ post' = [s \in Sales |-> IF post[s] = "running" THEN "none" ELSE post[s]]
  /\ unsure' = unsure \cup {s \in Sales : \E y \in Runs :
       server[y] = "mark" /\ outcome[y] = "synced" /\ current[y] = s}
  /\ UNCHANGED <<deviceVars, runVars, row, booked>>

-----------------------------------------------------------------------------
ServerStep(y) ==
  CheckRow(y) \/ ApplyOperation(y) \/ MarkRow(y) \/ PushUnheard(y)

Next ==
  \/ \E s \in Sales : QueueSale(s) \/ PostSale(s) \/ CreateInvoice(s)
                      \/ PostAnswered(s) \/ PostLost(s)
  \/ \E y \in Runs : StartSync(y) \/ PushAnswered(y) \/ PushLost(y)
                     \/ ServerStep(y)
  \/ Crash
  \/ Connection

(* The interval fires for ever and starts a run whenever navigator.onLine  *)
(* holds, every push ends for the device by its answer or by the 30 s      *)
(* timeout, and the server finishes what it started.  Nothing is assumed   *)
(* of the network: it may stay away, or come and go, for ever.             *)
Fairness ==
  \A y \in Runs :
    /\ WF_vars(StartSync(y))
    /\ WF_vars(PushAnswered(y) \/ PushLost(y))
    /\ WF_vars(ServerStep(y))

Spec == Init /\ [][Next]_vars /\ Fairness

-----------------------------------------------------------------------------
(* Properties. *)

(* The device considers a sale done only if the server holds an invoice    *)
(* for it: no answer is believed that an overlapping run, a crash or a     *)
(* stale row made false.                                                   *)
AckMeansBooked ==
  \A s \in Sales : sale[s] = "settled" => booked[s] >= 1

(* A row says 'synced' only after the operation's transaction committed. *)
SyncedMeansBooked ==
  \A s \in Sales : row[s] = "synced" => booked[s] >= 1

(* A record is dropped by MAX_RETRIES only after that many deliveries of   *)
(* it really failed: the stale attempts an overlapping run writes back may *)
(* lose a count but never invent one.                                      *)
DropIsEarned ==
  \A s \in Sales : sale[s] = "dropped" => tries[s] >= MaxRetries

(* On a device that is online from some time on, no sale stays queued for  *)
(* ever, whatever fails: each push ends in an answer or counts against     *)
(* MAX_RETRIES, also when several runs overwrite each other's counts.      *)
QueueDrains ==
  <>[]online => \A s \in Sales : sale[s] = "queued" ~> sale[s] # "queued"

(* The promise of the offline path: a sale is booked once, and done only   *)
(* when booked.  A sale is booked again only after one of four steps left  *)
(* the server unsure of it: a POST lost while the server had it, two       *)
(* pushes at work on one row, an UPDATE that failed after the commit, and  *)
(* a crash between the two.                                                *)
Intake == INSTANCE SaleIntake WITH
  acked <- {s \in Sales : sale[s] = "settled"},
  givenUp <- {s \in Sales : sale[s] \in {"refused", "dropped"}}
IntakeSpec == Intake!Spec
=============================================================================
