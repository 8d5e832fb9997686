---------------------------- MODULE Sales_proofs -----------------------------
(***************************************************************************)
(* Theorems about OfflineSync, for any sales, overlapping runs, crashes and*)
(* lost answers, and about Sales, for any quantities, prices and number of *)
(* edits.                                                                  *)
(***************************************************************************)
EXTENDS OfflineSync, Sales, SumTheorems, SequenceTheorems, TLAPS

(***************************************************************************)
(* Offline sales and their sync.                                           *)
(***************************************************************************)
(* The server works on a sale of the batch. *)
Working == \A y \in Runs : server[y] \in {"apply", "mark"} => current[y] \in Sales

LEMMA BumpedType ==
  ASSUME TypeOK, NEW y \in Runs, NEW b
  PROVE  Bumped(y, b) \in [Sales -> 0 .. MaxRetries - 1]
BY OfflineSyncAssumption DEF TypeOK, Bumped

LEMMA CountTriesType ==
  ASSUME TypeOK, NEW b
  PROVE  /\ CountTries(b) \in [Sales -> Nat]
         /\ \A s \in Sales : CountTries(b)[s] >= tries[s]
BY DEF TypeOK, CountTries

(* The initial state is typed. *)
LEMMA InitTyped == Init => TypeOK /\ Working
BY OfflineSyncAssumption DEF Init, TypeOK, Working, NoResults, States

LEMMA SendBatchTyped ==
  ASSUME TypeOK, NEW y \in Runs, NEW S \in SUBSET Sales, SendBatch(y, S)
  PROVE  /\ client' \in [Runs -> {"idle", "waiting"}]
         /\ batch' \in [Runs -> SUBSET Sales]
         /\ rest' \in [Runs -> SUBSET Sales]
         /\ server' = [server EXCEPT ![y] = "next"]
         /\ server' \in [Runs -> {"idle", "next", "apply", "mark"}]
         /\ todo' \in [Runs -> SUBSET Sales]
         /\ results' = [results EXCEPT ![y] = NoResults]
         /\ results' \in [Runs -> [Sales -> {"none", "duplicate", "synced",
                                             "conflict", "failed"}]]
<1>1. NoResults \in [Sales -> {"none", "duplicate", "synced", "conflict", "failed"}]
  BY DEF NoResults
<1>2. PICK b \in SUBSET S :
        /\ batch' = [batch EXCEPT ![y] = b]
        /\ rest' = [rest EXCEPT ![y] = S \ b]
        /\ client' = [client EXCEPT ![y] = "waiting"]
        /\ server' = [server EXCEPT ![y] = "next"]
        /\ todo' = [todo EXCEPT ![y] = b]
        /\ results' = [results EXCEPT ![y] = NoResults]
  BY DEF SendBatch
<1> QED
  BY <1>1, <1>2 DEF TypeOK

LEMMA EndsTyped ==
  ASSUME TypeOK, NEW y \in Runs
  PROVE  /\ EndRun(y) =>
              /\ client' \in [Runs -> {"idle", "waiting"}]
              /\ batch' \in [Runs -> SUBSET Sales]
              /\ rest' \in [Runs -> SUBSET Sales]
              /\ seen' \in [Runs -> [Sales -> 0 .. MaxRetries - 1]]
         /\ EndPush(y) =>
              /\ server' = [server EXCEPT ![y] = "idle"]
              /\ server' \in [Runs -> {"idle", "next", "apply", "mark"}]
              /\ todo' \in [Runs -> SUBSET Sales]
              /\ results' = [results EXCEPT ![y] = NoResults]
              /\ results' \in [Runs -> [Sales -> {"none", "duplicate", "synced",
                                                  "conflict", "failed"}]]
<1>1. NoResults \in [Sales -> {"none", "duplicate", "synced", "conflict", "failed"}]
  BY DEF NoResults
<1>2. [s \in Sales |-> 0] \in [Sales -> 0 .. MaxRetries - 1]
  BY OfflineSyncAssumption
<1>3. EndRun(y) =>
        /\ client' \in [Runs -> {"idle", "waiting"}]
        /\ batch' \in [Runs -> SUBSET Sales]
        /\ rest' \in [Runs -> SUBSET Sales]
        /\ seen' \in [Runs -> [Sales -> 0 .. MaxRetries - 1]]
  BY <1>2 DEF EndRun, TypeOK
<1>4. EndPush(y) =>
        /\ server' = [server EXCEPT ![y] = "idle"]
        /\ server' \in [Runs -> {"idle", "next", "apply", "mark"}]
        /\ todo' \in [Runs -> SUBSET Sales]
        /\ results' = [results EXCEPT ![y] = NoResults]
        /\ results' \in [Runs -> [Sales -> {"none", "duplicate", "synced",
                                            "conflict", "failed"}]]
  BY <1>1 DEF EndPush, TypeOK
<1> QED
  BY <1>3, <1>4

(* Every step keeps the types. *)
LEMMA StepTyped ==
  ASSUME TypeOK, Working, [Next]_vars
  PROVE  TypeOK' /\ Working'
<1> USE OfflineSyncAssumption
<1>1. ASSUME NEW s \in Sales, QueueSale(s)
      PROVE TypeOK' /\ Working'
  BY <1>1 DEF QueueSale, TypeOK, Working, runVars, pushVars
<1>2. ASSUME NEW s \in Sales, PostSale(s)
      PROVE TypeOK' /\ Working'
  BY <1>2 DEF PostSale, TypeOK, Working, runVars, pushVars
<1>3. ASSUME NEW s \in Sales, CreateInvoice(s)
      PROVE TypeOK' /\ Working'
  <2>1. post' \in [Sales -> {"none", "running", "created", "rejected"}]
    <3>1. post \in [Sales -> {"none", "running", "created", "rejected"}]
      BY DEF TypeOK
    <3>2. \/ post' = [post EXCEPT ![s] = "created"]
          \/ post' = [post EXCEPT ![s] = "rejected"]
      BY <1>3 DEF CreateInvoice
    <3> QED
      BY ONLY <3>1, <3>2
  <2>2. booked' \in [Sales -> Nat]
    <3>1. booked \in [Sales -> Nat]
      BY DEF TypeOK
    <3> QED
      BY <1>3, <3>1 DEF CreateInvoice
  <2> QED
    BY <1>3, <2>1, <2>2
    DEF CreateInvoice, TypeOK, Working, deviceVars, runVars, pushVars
<1>4. ASSUME NEW s \in Sales, PostAnswered(s)
      PROVE TypeOK' /\ Working'
  <2>1. sale' \in [Sales -> {"cart", "posting", "queued", "settled", "refused", "dropped"}]
    <3>1. sale \in [Sales -> {"cart", "posting", "queued", "settled", "refused", "dropped"}]
      BY DEF TypeOK
    <3>2. \/ sale' = [sale EXCEPT ![s] = "settled"]
          \/ sale' = [sale EXCEPT ![s] = "cart"]
      BY <1>4 DEF PostAnswered
    <3> QED
      BY ONLY <3>1, <3>2
  <2>2. post' \in [Sales -> {"none", "running", "created", "rejected"}]
    BY <1>4 DEF PostAnswered, TypeOK
  <2> QED
    BY <1>4, <2>1, <2>2 DEF PostAnswered, TypeOK, Working, runVars, pushVars
<1>5. ASSUME NEW s \in Sales, PostLost(s)
      PROVE TypeOK' /\ Working'
  <2>1. sale' \in [Sales -> {"cart", "posting", "queued", "settled", "refused", "dropped"}]
    BY <1>5 DEF PostLost, TypeOK
  <2>2. post' \in [Sales -> {"none", "running", "created", "rejected"}]
    BY <1>5 DEF PostLost, TypeOK
  <2> QED
    BY <1>5, <2>1, <2>2 DEF PostLost, TypeOK, Working, runVars, pushVars
<1>6. ASSUME NEW y \in Runs, StartSync(y)
      PROVE TypeOK' /\ Working'
  <2>1. Queue \in SUBSET Sales
    BY DEF Queue
  <2>2. SendBatch(y, Queue)
    BY <1>6 DEF StartSync
  <2>3. seen' \in [Runs -> [Sales -> 0 .. MaxRetries - 1]]
    BY <1>6 DEF StartSync, TypeOK
  <2> QED
    BY <1>6, <2>1, <2>2, <2>3, SendBatchTyped
    DEF StartSync, TypeOK, Working, deviceVars
<1>7. ASSUME NEW y \in Runs, PushAnswered(y)
      PROVE TypeOK' /\ Working'
  <2> DEFINE failed == Answered(y, {"failed"})
  <2>1. sale' \in [Sales -> {"cart", "posting", "queued", "settled", "refused", "dropped"}]
    BY <1>7 DEF PushAnswered, TypeOK
  <2>2. attempts' = Bumped(y, failed) /\ tries' = CountTries(failed)
    BY <1>7 DEF PushAnswered
  <2>3. attempts' \in [Sales -> 0 .. MaxRetries - 1] /\ tries' \in [Sales -> Nat]
    BY <2>2, BumpedType, CountTriesType
  <2>4. UNCHANGED <<online, current, outcome, row, booked, post, crashes, unsure>>
    BY <1>7 DEF PushAnswered
  <2>5. rest[y] \in SUBSET Sales
    BY DEF TypeOK
  <2>6. CASE rest[y] = {}
    <3>1. EndRun(y) /\ EndPush(y)
      BY <1>7, <2>6 DEF PushAnswered
    <3> QED
      BY <3>1, <2>1, <2>3, <2>4, EndsTyped DEF TypeOK, Working
  <2>7. CASE rest[y] # {}
    <3>1. SendBatch(y, rest[y]) /\ UNCHANGED seen
      BY <1>7, <2>7 DEF PushAnswered
    <3> QED
      BY <3>1, <2>1, <2>3, <2>4, <2>5, SendBatchTyped DEF TypeOK, Working
  <2> QED
    BY <2>6, <2>7
<1>8. ASSUME NEW y \in Runs, PushLost(y)
      PROVE TypeOK' /\ Working'
  <2>1. sale' \in [Sales -> {"cart", "posting", "queued", "settled", "refused", "dropped"}]
    BY <1>8 DEF PushLost, TypeOK
  <2>2. attempts' \in [Sales -> 0 .. MaxRetries - 1] /\ tries' \in [Sales -> Nat]
    BY <1>8, BumpedType, CountTriesType DEF PushLost
  <2>3. EndRun(y) /\ UNCHANGED <<online, current, outcome, row, booked, post, crashes,
                                 unsure>>
    BY <1>8 DEF PushLost
  <2>4. CASE UNCHANGED <<server, todo, results>>
    BY <2>1, <2>2, <2>3, <2>4, EndsTyped DEF TypeOK, Working
  <2>5. CASE EndPush(y)
    BY <2>1, <2>2, <2>3, <2>5, EndsTyped DEF TypeOK, Working
  <2> QED
    BY <1>8, <2>4, <2>5 DEF PushLost
<1>9. ASSUME NEW y \in Runs, CheckRow(y)
      PROVE TypeOK' /\ Working'
  <2>1. PICK s \in todo[y] :
          \/ /\ row[s] = "synced"
             /\ results' = [results EXCEPT ![y][s] = "duplicate"]
             /\ todo' = [todo EXCEPT ![y] = @ \ {s}]
             /\ UNCHANGED <<row, current, server, unsure>>
          \/ /\ row[s] # "synced"
             /\ row' = [row EXCEPT ![s] = IF @ = "none" THEN "pending" ELSE @]
             /\ current' = [current EXCEPT ![y] = s]
             /\ server' = [server EXCEPT ![y] = "apply"]
             /\ unsure' = Contended(s)
             /\ UNCHANGED <<results, todo>>
    BY <1>9 DEF CheckRow
  <2>2. s \in Sales
    BY DEF TypeOK
  <2>3. UNCHANGED <<deviceVars, runVars, outcome, booked, post, crashes>>
    BY <1>9 DEF CheckRow
  <2>4. CASE row[s] = "synced"
    <3>0. /\ results' = [results EXCEPT ![y][s] = "duplicate"]
          /\ todo' = [todo EXCEPT ![y] = @ \ {s}]
          /\ UNCHANGED <<row, current, server, unsure>>
      BY <2>1, <2>4
    <3>1. results' \in [Runs -> [Sales -> {"none", "duplicate", "synced", "conflict", "failed"}]]
      BY <2>2, <3>0 DEF TypeOK
    <3>2. /\ todo' \in [Runs -> SUBSET Sales]
          /\ UNCHANGED <<row, current, server, unsure>>
      BY <3>0 DEF TypeOK
    <3> QED
      BY <2>3, <3>1, <3>2 DEF TypeOK, Working, deviceVars, runVars
  <2>5. CASE row[s] # "synced"
    <3>1. row' \in [Sales -> States \cup {"none"}]
      BY <2>1, <2>2, <2>5 DEF TypeOK, States
    <3>2. /\ current' = [current EXCEPT ![y] = s]
          /\ server' = [server EXCEPT ![y] = "apply"]
          /\ unsure' \in SUBSET Sales
          /\ UNCHANGED <<results, todo>>
      BY <2>1, <2>2, <2>5 DEF Contended, TypeOK
    <3> QED
      BY <2>2, <2>3, <3>1, <3>2 DEF TypeOK, Working, deviceVars, runVars
  <2> QED
    BY <2>4, <2>5
<1>10. ASSUME NEW y \in Runs, ApplyOperation(y)
       PROVE TypeOK' /\ Working'
  <2>1. current[y] \in Sales
    BY <1>10 DEF ApplyOperation, Working
  <2>2. booked' \in [Sales -> Nat]
    <3>1. \/ booked' = [booked EXCEPT ![current[y]] = @ + 1]
          \/ booked' = booked
      BY <1>10 DEF ApplyOperation
    <3>2. CASE booked' = booked
      BY <3>2 DEF TypeOK
    <3>3. CASE booked' = [booked EXCEPT ![current[y]] = @ + 1]
      BY <2>1, <3>3 DEF TypeOK
    <3> QED
      BY <3>1, <3>2, <3>3
  <2>3. outcome' \in [Runs -> {"none", "synced", "conflict", "failed"}]
    BY <1>10 DEF ApplyOperation, TypeOK
  <2> QED
    BY <1>10, <2>1, <2>2, <2>3 DEF ApplyOperation, TypeOK, Working, deviceVars, runVars
<1>11. ASSUME NEW y \in Runs, MarkRow(y)
       PROVE TypeOK' /\ Working'
  <2>1. current[y] \in Sales
    BY <1>11 DEF MarkRow, Working
  <2>2. PICK o \in {"none", "synced", "conflict", "failed"} :
          /\ row' = [row EXCEPT ![current[y]] = o]
          /\ results' = [results EXCEPT ![y][current[y]] = o]
          /\ unsure' \in SUBSET Sales
    BY <1>11, <2>1 DEF MarkRow, TypeOK
  <2>3. row' \in [Sales -> States \cup {"none"}]
    BY <2>1, <2>2 DEF TypeOK, States
  <2>4. results' \in [Runs -> [Sales -> {"none", "duplicate", "synced", "conflict", "failed"}]]
    BY <2>1, <2>2 DEF TypeOK
  <2> QED
    BY <1>11, <2>2, <2>3, <2>4 DEF MarkRow, TypeOK, Working, deviceVars, runVars
<1>12. ASSUME NEW y \in Runs, PushUnheard(y)
       PROVE TypeOK' /\ Working'
  BY <1>12, EndsTyped DEF PushUnheard, TypeOK, Working, deviceVars, runVars
<1>13. CASE Crash
  <2>1. NoResults \in [Sales -> {"none", "duplicate", "synced", "conflict", "failed"}]
    BY DEF NoResults
  <2> QED
    BY <1>13, <2>1 DEF Crash, TypeOK, Working, deviceVars, runVars
<1>14. CASE Connection
  BY <1>14 DEF Connection, TypeOK, Working, runVars, pushVars
<1>15. CASE UNCHANGED vars
  BY <1>15 DEF vars, TypeOK, Working
<1> QED
  BY <1>1, <1>2, <1>3, <1>4, <1>5, <1>6, <1>7, <1>8, <1>9, <1>10, <1>11,
     <1>12, <1>13, <1>14, <1>15 DEF Next, ServerStep

(* In every reachable state the variables have their types. *)
THEOREM Typing == Spec => [](TypeOK /\ Working)
<1>1. Init => TypeOK /\ Working
  BY InitTyped
<1>2. TypeOK /\ Working /\ [Next]_vars => TypeOK' /\ Working'
  BY StepTyped
<1> QED
  BY <1>1, <1>2, PTL DEF Spec

-----------------------------------------------------------------------------
(* What an acknowledgement means. *)

Booked(s) == booked[s] >= 1

(* Every place where the server remembers a success stands for an invoice; *)
(* AckMeansBooked needs them all, because an answer may arrive long after  *)
(* the row, the run or the server that produced it is gone.                *)
Evidence ==
  /\ AckMeansBooked
  /\ SyncedMeansBooked
  /\ \A y \in Runs : server[y] = "mark" /\ outcome[y] = "synced"
                     => Booked(current[y])
  /\ \A y \in Runs, s \in Sales :
       results[y][s] \in {"synced", "duplicate"} => Booked(s)
  /\ \A s \in Sales : post[s] = "created" => Booked(s)

(* Invoices are never taken away. *)
LEMMA BookedGrows ==
  ASSUME TypeOK, Working, [Next]_vars
  PROVE  \A s \in Sales : booked[s] \in Nat /\ booked'[s] >= booked[s]
<1>1. ASSUME NEW s \in Sales, CreateInvoice(s)
      PROVE booked' = booked \/ booked' = [booked EXCEPT ![s] = @ + 1]
  BY <1>1 DEF CreateInvoice
<1>2. ASSUME NEW y \in Runs, ApplyOperation(y)
      PROVE /\ current[y] \in Sales
            /\ booked' = booked \/ booked' = [booked EXCEPT ![current[y]] = @ + 1]
  BY <1>2 DEF ApplyOperation, Working
<1>3. CASE booked' = booked
  BY <1>3 DEF TypeOK
<1>4. CASE \E s \in Sales : booked' = [booked EXCEPT ![s] = @ + 1]
  BY <1>4 DEF TypeOK
<1>5. booked' = booked \/ \E s \in Sales : booked' = [booked EXCEPT ![s] = @ + 1]
  BY <1>1, <1>2 DEF Next, ServerStep, vars, QueueSale, PostSale, PostAnswered,
     PostLost, Connection, StartSync, PushAnswered, PushLost, CheckRow, MarkRow,
     PushUnheard, Crash
<1> QED
  BY <1>3, <1>4, <1>5

LEMMA InitEvidence == Init => Evidence
BY DEF Init, Evidence, AckMeansBooked, SyncedMeansBooked, NoResults

LEMMA StepEvidence ==
  ASSUME TypeOK, Working, TypeOK', Evidence, [Next]_vars
  PROVE  Evidence'
<1>1. \A s \in Sales : Booked(s) => Booked(s)'
  BY BookedGrows DEF Booked, TypeOK
<1>2. AckMeansBooked'
  <2>1. ASSUME NEW s \in Sales, PostAnswered(s)
        PROVE AckMeansBooked'
    BY <1>1, <2>1 DEF PostAnswered, Evidence, AckMeansBooked, Booked, TypeOK
  <2>2. ASSUME NEW y \in Runs, PushAnswered(y)
        PROVE AckMeansBooked'
    <3> SUFFICES ASSUME NEW s \in Sales, sale'[s] = "settled"
                 PROVE Booked(s)'
      BY DEF AckMeansBooked, Booked
    <3>1. sale[s] = "settled" \/ results[y][s] \in {"synced", "duplicate"}
      BY <2>2 DEF PushAnswered, Answered, TypeOK
    <3> QED
      BY <1>1, <3>1 DEF Evidence, AckMeansBooked, Booked
  <2>3. ASSUME \A s \in Sales : sale'[s] = "settled" => sale[s] = "settled"
        PROVE AckMeansBooked'
    BY <1>1, <2>3 DEF Evidence, AckMeansBooked, Booked
  <2>4. \A s \in Sales : QueueSale(s) \/ PostSale(s) \/ CreateInvoice(s) \/ PostLost(s)
          => \A t \in Sales : sale'[t] = "settled" => sale[t] = "settled"
    BY DEF QueueSale, PostSale, CreateInvoice, PostLost, deviceVars, TypeOK
  <2>5. \A y \in Runs : StartSync(y) \/ PushLost(y) \/ ServerStep(y)
          => \A t \in Sales : sale'[t] = "settled" => sale[t] = "settled"
    BY DEF StartSync, PushLost, ServerStep, CheckRow, ApplyOperation, MarkRow,
       PushUnheard, deviceVars, TypeOK
  <2>6. Crash \/ Connection \/ UNCHANGED vars
          => \A t \in Sales : sale'[t] = "settled" => sale[t] = "settled"
    BY DEF Crash, Connection, vars, deviceVars
  <2> QED
    BY <2>1, <2>2, <2>3, <2>4, <2>5, <2>6 DEF Next
<1>3. SyncedMeansBooked'
  <2>1. ASSUME NEW y \in Runs, MarkRow(y)
        PROVE SyncedMeansBooked'
    <3>1. current[y] \in Sales
      BY <2>1 DEF MarkRow, Working
    <3>2. PICK o \in {outcome[y]} \cup {"failed"} :
            row' = [row EXCEPT ![current[y]] = o]
      BY <2>1 DEF MarkRow
    <3>3. o = "synced" => Booked(current[y])
      BY <2>1, <3>2 DEF Evidence, MarkRow
    <3>4. \A s \in Sales : row'[s] = "synced" => Booked(s)
      BY <3>1, <3>2, <3>3 DEF TypeOK, Evidence, SyncedMeansBooked, Booked
    <3> QED
      BY <1>1, <3>4 DEF SyncedMeansBooked, Booked
  <2>2. ASSUME NEW y \in Runs, CheckRow(y)
        PROVE \A s \in Sales : row'[s] = "synced" => row[s] = "synced"
    BY <2>2 DEF CheckRow, TypeOK
  <2>3. ASSUME \A s \in Sales : row'[s] = "synced" => row[s] = "synced"
        PROVE SyncedMeansBooked'
    BY <1>1, <2>3 DEF Evidence, SyncedMeansBooked, Booked
  <2> QED
    BY <2>1, <2>2, <2>3 DEF Next, ServerStep, QueueSale, PostSale, CreateInvoice,
       PostAnswered, PostLost, Connection, StartSync, PushAnswered, PushLost, ApplyOperation,
       PushUnheard, Crash, vars
<1>4. (\A y \in Runs : server[y] = "mark" /\ outcome[y] = "synced"
                       => Booked(current[y]))'
  <2> SUFFICES ASSUME NEW y \in Runs, server'[y] = "mark", outcome'[y] = "synced"
               PROVE Booked(current[y])'
    OBVIOUS
  <2>1. CASE ApplyOperation(y)
    <3>1. current[y] \in Sales /\ current' = current
      BY <2>1 DEF ApplyOperation, Working
    <3>2. booked' = [booked EXCEPT ![current[y]] = @ + 1]
      BY <2>1 DEF ApplyOperation, TypeOK
    <3> QED
      BY <3>1, <3>2 DEF TypeOK, Booked
  <2>2. CASE /\ server[y] = "mark" /\ outcome[y] = "synced"
             /\ current'[y] = current[y]
    <3>1. current[y] \in Sales /\ Booked(current[y])
      BY <2>2 DEF Evidence, Working
    <3> QED
      BY <1>1, <2>2, <3>1 DEF Booked
  <2>3. ASSUME NEW z \in Runs, ServerStep(z), ~ApplyOperation(y)
        PROVE /\ server[y] = "mark" /\ outcome[y] = "synced"
              /\ current'[y] = current[y]
    <3>1. CASE CheckRow(z)
      <4>1. /\ server[z] = "next" /\ outcome' = outcome
            /\ \/ server' = server /\ current' = current
               \/ \E s \in todo[z] : /\ server' = [server EXCEPT ![z] = "apply"]
                                      /\ current' = [current EXCEPT ![z] = s]
        BY <3>1 DEF CheckRow
      <4>2. CASE server' = server /\ current' = current
        BY <4>1, <4>2
      <4>3. CASE \E s \in todo[z] : /\ server' = [server EXCEPT ![z] = "apply"]
                                    /\ current' = [current EXCEPT ![z] = s]
        BY <4>1, <4>3 DEF TypeOK
      <4> QED
        BY <4>1, <4>2, <4>3
    <3>2. CASE ApplyOperation(z)
      <4>1. /\ server' = [server EXCEPT ![z] = "mark"] /\ current' = current
            /\ \E o \in {"synced", "conflict", "failed"} :
                 outcome' = [outcome EXCEPT ![z] = o]
        BY <3>2 DEF ApplyOperation
      <4>2. y # z
        BY <2>3, <3>2
      <4> QED
        BY <4>1, <4>2 DEF TypeOK
    <3>3. CASE MarkRow(z)
      BY <3>3 DEF MarkRow, TypeOK
    <3>4. CASE PushUnheard(z)
      BY <3>4 DEF PushUnheard, EndPush, TypeOK
    <3> QED
      BY <2>3, <3>1, <3>2, <3>3, <3>4 DEF ServerStep
  <2>4. ASSUME NEW z \in Runs, StartSync(z) \/ PushAnswered(z) \/ PushLost(z)
        PROVE /\ server[y] = "mark" /\ outcome[y] = "synced"
              /\ current'[y] = current[y]
    <3>1. /\ outcome' = outcome /\ current' = current
          /\ \/ server' = [server EXCEPT ![z] = "next"]
             \/ server' = [server EXCEPT ![z] = "idle"]
             \/ server' = server
      BY <2>4 DEF StartSync, PushAnswered, PushLost, SendBatch, EndPush
    <3> QED
      BY <3>1 DEF TypeOK
  <2>5. ASSUME NEW s \in Sales, QueueSale(s) \/ PostSale(s) \/ CreateInvoice(s)
                                 \/ PostAnswered(s) \/ PostLost(s)
        PROVE /\ server[y] = "mark" /\ outcome[y] = "synced"
              /\ current'[y] = current[y]
    BY <2>5 DEF QueueSale, PostSale, CreateInvoice, PostAnswered, PostLost, pushVars
  <2>6. CASE UNCHANGED vars
    BY <2>2, <2>6 DEF vars
  <2>7. ~Crash
    BY DEF Crash
  <2>8. CASE Connection
    BY <2>2, <2>8 DEF Connection, pushVars
  <2> QED
    BY <2>1, <2>2, <2>3, <2>4, <2>5, <2>6, <2>7, <2>8 DEF Next
<1>5. (\A y \in Runs, s \in Sales :
         results[y][s] \in {"synced", "duplicate"} => Booked(s))'
  <2> SUFFICES ASSUME NEW y \in Runs, NEW s \in Sales,
                      results'[y][s] \in {"synced", "duplicate"}
               PROVE Booked(s)'
    OBVIOUS
  <2>1. CASE results[y][s] \in {"synced", "duplicate"}
    BY <1>1, <2>1 DEF Evidence
  <2>2. ASSUME NEW z \in Runs, CheckRow(z)
        PROVE results[y][s] \in {"synced", "duplicate"} \/ Booked(s)
    <3>1. PICK t \in Sales :
            \/ row[t] = "synced" /\ results' = [results EXCEPT ![z][t] = "duplicate"]
            \/ results' = results
      BY <2>2 DEF CheckRow, TypeOK
    <3>2. CASE results' = results
      BY <3>2
    <3>3. CASE row[t] = "synced" /\ results' = [results EXCEPT ![z][t] = "duplicate"]
      <4>1. CASE y = z /\ s = t
        BY <3>3, <4>1 DEF Evidence, SyncedMeansBooked, Booked
      <4>2. CASE ~(y = z /\ s = t)
        BY <3>3, <4>2 DEF TypeOK
      <4> QED
        BY <4>1, <4>2
    <3> QED
      BY <3>1, <3>2, <3>3
  <2>3. ASSUME NEW z \in Runs, MarkRow(z)
        PROVE results[y][s] \in {"synced", "duplicate"} \/ Booked(s)
    <3>1. current[z] \in Sales
      BY <2>3 DEF MarkRow, Working
    <3>2. PICK o \in {outcome[z]} \cup {"failed"} :
            results' = [results EXCEPT ![z][current[z]] = o]
      BY <2>3 DEF MarkRow
    <3>3. outcome[z] = "synced" => Booked(current[z])
      BY <2>3 DEF Evidence, MarkRow
    <3>4. CASE y = z /\ s = current[z]
      <4>1. results'[y][s] = o
        BY <3>1, <3>2, <3>4 DEF TypeOK
      <4>2. outcome[z] # "duplicate"
        BY DEF TypeOK
      <4> QED
        BY <3>2, <3>3, <3>4, <4>1, <4>2
    <3>5. CASE ~(y = z /\ s = current[z])
      BY <3>1, <3>2, <3>5 DEF TypeOK
    <3> QED
      BY <3>4, <3>5
  <2>4. ASSUME NEW z \in Runs, StartSync(z) \/ PushAnswered(z) \/ PushLost(z)
                               \/ PushUnheard(z)
        PROVE results[y][s] \in {"synced", "duplicate"}
    <3>1. results' = [results EXCEPT ![z] = NoResults] \/ results' = results
      BY <2>4 DEF StartSync, PushAnswered, PushLost, PushUnheard, SendBatch, EndPush
    <3>2. CASE results' = results
      BY <3>2
    <3>3. CASE results' = [results EXCEPT ![z] = NoResults]
      <4>1. y # z
        BY <3>3 DEF TypeOK, NoResults
      <4> QED
        BY <3>3, <4>1 DEF TypeOK
    <3> QED
      BY <3>1, <3>2, <3>3
  <2>5. ASSUME NEW z \in Runs, ApplyOperation(z)
        PROVE results' = results
    BY <2>5 DEF ApplyOperation
  <2>6. ASSUME NEW t \in Sales, QueueSale(t) \/ PostSale(t) \/ CreateInvoice(t)
                                 \/ PostAnswered(t) \/ PostLost(t)
        PROVE results' = results
    BY <2>6 DEF QueueSale, PostSale, CreateInvoice, PostAnswered, PostLost, pushVars
  <2>7. CASE UNCHANGED vars
    BY <2>1, <2>7 DEF vars
  <2>8. ~Crash
    BY DEF Crash, NoResults
  <2>9. Booked(s) => Booked(s)'
    BY <1>1
  <2>10. Connection => results' = results
    BY DEF Connection, pushVars
  <2> QED
    BY <2>1, <2>2, <2>3, <2>4, <2>5, <2>6, <2>7, <2>8, <2>9, <2>10
    DEF Next, ServerStep
<1>6. (\A s \in Sales : post[s] = "created" => Booked(s))'
  <2> SUFFICES ASSUME NEW s \in Sales, post'[s] = "created"
               PROVE Booked(s)'
    OBVIOUS
  <2>1. CASE post[s] = "created"
    BY <1>1, <2>1 DEF Evidence
  <2>2. ASSUME NEW t \in Sales, CreateInvoice(t), post[s] # "created"
        PROVE Booked(s)'
    <3>1. s = t /\ booked' = [booked EXCEPT ![t] = @ + 1]
      BY <2>2 DEF CreateInvoice, TypeOK
    <3> QED
      BY <3>1 DEF TypeOK, Booked
  <2>3. ASSUME NEW t \in Sales, QueueSale(t) \/ PostSale(t) \/ PostAnswered(t)
                                 \/ PostLost(t)
        PROVE post[s] = "created"
    BY <2>3 DEF QueueSale, PostSale, PostAnswered, PostLost, TypeOK
  <2>4. CASE Crash
    BY <2>1, <2>4 DEF Crash
  <2>5. ASSUME NEW y \in Runs, StartSync(y) \/ PushAnswered(y) \/ PushLost(y)
                               \/ ServerStep(y)
        PROVE post' = post
    BY <2>5 DEF StartSync, PushAnswered, PushLost, ServerStep, CheckRow,
       ApplyOperation, MarkRow, PushUnheard
  <2>6. CASE Connection \/ UNCHANGED vars
    BY <2>1, <2>6 DEF Connection, vars
  <2> QED
    BY <2>1, <2>2, <2>3, <2>4, <2>5, <2>6 DEF Next
<1> QED
  BY <1>2, <1>3, <1>4, <1>5, <1>6 DEF Evidence

(* A sale the device counts as done, and a row marked 'synced', each stand *)
(* for an invoice on the server, whatever overlaps, crashes or is lost.    *)
THEOREM Acknowledged == Spec => [](AckMeansBooked /\ SyncedMeansBooked)
<1>1. Init => Evidence
  BY InitEvidence
<1>2. TypeOK /\ Working /\ TypeOK' /\ Evidence /\ [Next]_vars => Evidence'
  BY StepEvidence
<1>3. Evidence => AckMeansBooked /\ SyncedMeansBooked
  BY DEF Evidence
<1>4. Spec => [](TypeOK /\ Working)
  BY Typing
<1> QED
  BY <1>1, <1>2, <1>3, <1>4, PTL DEF Spec

-----------------------------------------------------------------------------
(* When a record is dropped. *)

(* No copy of a record's attempts, in the queue or in a run's snapshot,    *)
(* counts more failures than there were.                                   *)
CountsAreEarned ==
  /\ DropIsEarned
  /\ \A s \in Sales : attempts[s] <= tries[s]
  /\ \A y \in Runs, s \in Sales : seen[y][s] <= tries[s]

LEMMA StepCounts ==
  ASSUME TypeOK, TypeOK', CountsAreEarned, [Next]_vars
  PROVE  CountsAreEarned'
<1> USE OfflineSyncAssumption
<1>1. ASSUME NEW y \in Runs, NEW b, attempts' = Bumped(y, b), tries' = CountTries(b),
             \A s \in Sales : sale'[s] = "dropped"
                => sale[s] = "dropped" \/ s \in Exhausted(y, b),
             \A z \in Runs, s \in Sales : seen'[z][s] \in {seen[z][s], 0}
      PROVE CountsAreEarned'
  <2>1. \A s \in Sales : tries'[s] \in Nat /\ tries[s] \in Nat /\ tries'[s] >= tries[s]
    BY <1>1, CountTriesType DEF TypeOK
  <2>2. \A z \in Runs, s \in Sales : seen[z][s] \in Nat /\ attempts[s] \in Nat
    BY DEF TypeOK
  <2>3. DropIsEarned'
    <3> SUFFICES ASSUME NEW s \in Sales, sale'[s] = "dropped"
                 PROVE tries'[s] >= MaxRetries
      BY DEF DropIsEarned
    <3>1. CASE sale[s] = "dropped"
      BY <2>1, <3>1 DEF CountsAreEarned, DropIsEarned
    <3>2. CASE s \in Exhausted(y, b)
      <4>1. tries'[s] = tries[s] + 1 /\ seen[y][s] + 1 >= MaxRetries
        BY <1>1, <3>2 DEF Exhausted, CountTries
      <4>2. seen[y][s] <= tries[s]
        BY DEF CountsAreEarned
      <4> QED
        BY <2>1, <2>2, <4>1, <4>2
    <3> QED
      BY <1>1, <3>1, <3>2
  <2>4. \A s \in Sales : attempts'[s] <= tries'[s]
    <3> SUFFICES ASSUME NEW s \in Sales
                 PROVE attempts'[s] <= tries'[s]
      OBVIOUS
    <3>1. CASE s \in b \cap Queue
      <4>1. tries'[s] = tries[s] + 1 /\ attempts'[s] \in {seen[y][s] + 1, attempts[s]}
        BY <1>1, <3>1 DEF Bumped, CountTries
      <4> QED
        BY <2>1, <2>2, <4>1 DEF CountsAreEarned
    <3>2. CASE s \notin b \cap Queue
      <4>1. attempts'[s] = attempts[s]
        BY <1>1, <3>2 DEF Bumped
      <4> QED
        BY <2>1, <2>2, <4>1 DEF CountsAreEarned
    <3> QED
      BY <3>1, <3>2
  <2>5. \A z \in Runs, s \in Sales : seen'[z][s] <= tries'[s]
    BY <1>1, <2>1, <2>2 DEF CountsAreEarned
  <2> QED
    BY <2>3, <2>4, <2>5 DEF CountsAreEarned
<1>2. ASSUME NEW y \in Runs, PushAnswered(y)
      PROVE CountsAreEarned'
  <2> DEFINE failed == Answered(y, {"failed"})
  <2>1. attempts' = Bumped(y, failed) /\ tries' = CountTries(failed)
    BY <1>2 DEF PushAnswered
  <2>2. \A s \in Sales : sale'[s] = "dropped"
          => sale[s] = "dropped" \/ s \in Exhausted(y, failed)
    BY <1>2 DEF PushAnswered
  <2>3. \A z \in Runs, s \in Sales : seen'[z][s] \in {seen[z][s], 0}
    <3>1. seen' = seen \/ seen' = [seen EXCEPT ![y] = [s \in Sales |-> 0]]
      BY <1>2 DEF PushAnswered, EndRun
    <3>2. CASE seen' = seen
      BY <3>2
    <3>3. CASE seen' = [seen EXCEPT ![y] = [s \in Sales |-> 0]]
      BY <3>3 DEF TypeOK
    <3> QED
      BY <3>1, <3>2, <3>3
  <2> QED
    BY <1>1, <2>1, <2>2, <2>3
<1>3. ASSUME NEW y \in Runs, PushLost(y)
      PROVE CountsAreEarned'
  <2>1. \A s \in Sales : sale'[s] = "dropped"
          => sale[s] = "dropped" \/ s \in Exhausted(y, batch[y])
    BY <1>3 DEF PushLost
  <2>2. \A z \in Runs, s \in Sales : seen'[z][s] \in {seen[z][s], 0}
    BY <1>3 DEF PushLost, EndRun, TypeOK
  <2> QED
    BY <1>1, <1>3, <2>1, <2>2 DEF PushLost
<1>4. ASSUME NEW y \in Runs, StartSync(y)
      PROVE CountsAreEarned'
  <2>1. UNCHANGED <<sale, attempts, tries>> /\ seen' = [seen EXCEPT ![y] = attempts]
    BY <1>4 DEF StartSync, deviceVars
  <2> QED
    BY <2>1 DEF CountsAreEarned, DropIsEarned, TypeOK
<1>5. ASSUME UNCHANGED <<attempts, tries, seen>>,
             \A s \in Sales : sale'[s] = "dropped" => sale[s] = "dropped"
      PROVE CountsAreEarned'
  BY <1>5 DEF CountsAreEarned, DropIsEarned
<1>6. ASSUME NEW s \in Sales, QueueSale(s) \/ PostSale(s) \/ CreateInvoice(s)
                               \/ PostAnswered(s) \/ PostLost(s)
      PROVE CountsAreEarned'
  <2>1. UNCHANGED <<attempts, tries, seen>>
    BY <1>6 DEF QueueSale, PostSale, CreateInvoice, PostAnswered, PostLost,
       deviceVars, runVars
  <2>2. \A t \in Sales : sale'[t] = "dropped" => sale[t] = "dropped"
    BY <1>6 DEF QueueSale, PostSale, CreateInvoice, PostAnswered, PostLost,
       deviceVars, TypeOK
  <2> QED
    BY <1>5, <2>1, <2>2
<1>7. ASSUME NEW y \in Runs, ServerStep(y)
      PROVE UNCHANGED <<sale, attempts, tries, seen>>
  BY <1>7 DEF ServerStep, CheckRow, ApplyOperation, MarkRow, PushUnheard,
     deviceVars, runVars
<1>8. Crash \/ Connection \/ UNCHANGED vars
        => UNCHANGED <<sale, attempts, tries, seen>>
  BY DEF Crash, Connection, vars, deviceVars, runVars
<1> QED
  BY <1>2, <1>3, <1>4, <1>5, <1>6, <1>7, <1>8 DEF Next

(* A record reaches MAX_RETRIES only through that many failed deliveries.  *)
THEOREM DroppedLate == Spec => []DropIsEarned
<1>1. Init => CountsAreEarned
  BY DEF Init, CountsAreEarned, DropIsEarned
<1>2. TypeOK /\ TypeOK' /\ CountsAreEarned /\ [Next]_vars => CountsAreEarned'
  BY StepCounts
<1>3. CountsAreEarned => DropIsEarned
  BY DEF CountsAreEarned
<1>4. Spec => [](TypeOK /\ Working)
  BY Typing
<1> QED
  BY <1>1, <1>2, <1>3, <1>4, PTL DEF Spec

-----------------------------------------------------------------------------
(* The promise of the offline path.                                        *)

Marking(y, s) == WorksOn(y, s) /\ server[y] = "mark" /\ outcome[y] = "synced"

(* No push has the sale or is going to get it, and its row does not exist. *)
Untried(s) ==
  /\ row[s] = "none"
  /\ \A y \in Runs : s \notin rest[y] \cup todo[y] /\ ~WorksOn(y, s)

(* What the server and the device know of a sale that no failure left in   *)
(* doubt: one push at most works on it, and an invoice of it shows in its  *)
(* row, or is about to, or in the answer of its POST.                      *)
Tracked(s) ==
  /\ booked[s] \in {0, 1}
  /\ \A y, z \in Runs : WorksOn(y, s) /\ WorksOn(z, s) => y = z
  /\ \A y \in Runs : WorksOn(y, s) => row[s] # "synced"
  /\ post[s] \in {"running", "created"} => sale[s] = "posting"
  /\ sale[s] \in {"cart", "posting"} => Untried(s)
  /\ booked[s] = 1 =>
       \/ row[s] = "synced"
       \/ \E y \in Runs : Marking(y, s)
       \/ post[s] = "created"
       \/ sale[s] = "settled" /\ Untried(s)

BookedOnce == \A s \in Sales \ unsure : Tracked(s)

(* A sale once in doubt stays so. *)
LEMMA DoubtStays ==
  ASSUME [Next]_vars
  PROVE  unsure \subseteq unsure'
BY DEF Next, vars, QueueSale, PostSale, CreateInvoice, PostAnswered, PostLost,
   StartSync, PushAnswered, PushLost, ServerStep, CheckRow, ApplyOperation,
   MarkRow, PushUnheard, Crash, Connection, Contended

(* A step that leaves the invoices, the POST, the row and the work on a    *)
(* sale alone, and at most takes it off the queue.                         *)
LEMMA KeptTracked ==
  ASSUME NEW s \in Sales, Tracked(s),
         booked'[s] = booked[s], post'[s] = post[s], row'[s] = row[s],
         \A z \in Runs : WorksOn(z, s)' <=> WorksOn(z, s),
         \A z \in Runs : Marking(z, s) => Marking(z, s)',
         \/ sale'[s] = sale[s]
         \/ sale[s] = "queued" /\ sale'[s] \in {"settled", "refused", "dropped"},
         sale[s] # "queued" /\ Untried(s) => Untried(s)'
  PROVE  Tracked(s)'
<1>1. /\ post'[s] \in {"running", "created"} => sale'[s] = "posting"
      /\ sale'[s] \in {"cart", "posting"} => Untried(s)'
  BY DEF Tracked
<1>2. booked'[s] = 1 =>
        \/ row'[s] = "synced"
        \/ \E y \in Runs : Marking(y, s)'
        \/ post'[s] = "created"
        \/ sale'[s] = "settled" /\ Untried(s)'
  BY DEF Tracked
<1> QED
  BY <1>1, <1>2 DEF Tracked

(* A sale in the cart, or whose POST is not answered yet, is not booked.   *)
LEMMA NotYetBooked ==
  ASSUME NEW s \in Sales, Tracked(s),
         sale[s] \in {"cart", "posting"}, post[s] # "created"
  PROVE  booked[s] = 0 /\ Untried(s)
BY DEF Tracked, Untried, Marking

(* A push that is about to apply a sale, or that found it unapplied, works *)
(* on one that is not booked.                                              *)
LEMMA NotBookedAtWork ==
  ASSUME NEW s \in Sales, Tracked(s), NEW y \in Runs, WorksOn(y, s),
         ~Marking(y, s)
  PROVE  booked[s] = 0
<1>1. \A z \in Runs : ~Marking(z, s)
  BY DEF Tracked, Marking
<1>2. ~Untried(s)
  BY DEF Untried
<1>3. post[s] # "created"
  BY <1>2 DEF Tracked
<1>4. row[s] # "synced"
  BY DEF Tracked
<1> QED
  BY <1>1, <1>2, <1>3, <1>4 DEF Tracked

(* The checkout page. *)
LEMMA CheckoutTracks ==
  ASSUME TypeOK, NEW s \in Sales, Tracked(s), s \notin unsure', NEW t \in Sales,
         \/ QueueSale(t) \/ PostSale(t) \/ CreateInvoice(t)
         \/ PostAnswered(t) \/ PostLost(t)
  PROVE  Tracked(s)'
<1>1. UNCHANGED <<runVars, pushVars, row>>
  BY DEF QueueSale, PostSale, CreateInvoice, PostAnswered, PostLost
<1>2. /\ \A z \in Runs : WorksOn(z, s)' <=> WorksOn(z, s)
      /\ \A z \in Runs : Marking(z, s)' <=> Marking(z, s)
      /\ Untried(s)' <=> Untried(s)
      /\ row'[s] = row[s]
  BY <1>1 DEF WorksOn, Marking, Untried, runVars, pushVars
<1>3. CASE s # t
  <2>1. sale'[s] = sale[s] /\ booked'[s] = booked[s] /\ post'[s] = post[s]
    BY <1>3 DEF QueueSale, PostSale, CreateInvoice, PostAnswered, PostLost,
       TypeOK, deviceVars
  <2> QED
    BY <1>2, <2>1, KeptTracked
<1>4. CASE QueueSale(s)
  <2>1. sale[s] = "cart" /\ sale'[s] = "queued" /\ booked' = booked /\ post' = post
    BY <1>4 DEF QueueSale, TypeOK
  <2>2. post[s] \notin {"running", "created"}
    BY <2>1 DEF Tracked
  <2>3. booked[s] = 0
    BY <2>1, <2>2, NotYetBooked
  <2> QED
    BY <1>2, <2>1, <2>2, <2>3 DEF Tracked
<1>5. CASE PostSale(s)
  <2>1. /\ sale[s] = "cart" /\ sale'[s] = "posting" /\ booked' = booked
        /\ post'[s] = "running"
    BY <1>5 DEF PostSale, TypeOK
  <2>2. post[s] # "created"
    BY <2>1 DEF Tracked
  <2>3. booked[s] = 0 /\ Untried(s)
    BY <2>1, <2>2, NotYetBooked
  <2> QED
    BY <1>2, <2>1, <2>3 DEF Tracked
<1>6. CASE CreateInvoice(s)
  <2>1. post[s] = "running" /\ sale' = sale
    BY <1>6 DEF CreateInvoice, deviceVars
  <2>2. sale[s] = "posting"
    BY <2>1 DEF Tracked
  <2>3. booked[s] = 0 /\ Untried(s)
    BY <2>1, <2>2, NotYetBooked
  <2>4. \/ post'[s] = "created" /\ booked'[s] = 1
        \/ post'[s] = "rejected" /\ booked'[s] = 0
    BY <1>6, <2>3 DEF CreateInvoice, TypeOK
  <2> QED
    BY <1>2, <2>1, <2>2, <2>3, <2>4 DEF Tracked
<1>7. CASE PostAnswered(s)
  <2>1. /\ sale[s] = "posting" /\ post'[s] = "none" /\ booked' = booked
        /\ \/ post[s] = "created" /\ sale'[s] = "settled"
           \/ post[s] = "rejected" /\ sale'[s] = "cart"
    BY <1>7 DEF PostAnswered, TypeOK
  <2>2. Untried(s)
    BY <2>1 DEF Tracked
  <2>3. post[s] = "rejected" => booked[s] = 0
    BY <2>1, NotYetBooked
  <2> QED
    BY <1>2, <2>1, <2>2, <2>3 DEF Tracked
<1>8. CASE PostLost(s)
  <2>1. /\ sale[s] = "posting" /\ sale'[s] = "queued" /\ booked' = booked
        /\ post[s] # "created" /\ post'[s] \notin {"running", "created"}
    <3>1. post[s] # "created"
      BY <1>8 DEF PostLost
    <3>2. post'[s] \notin {"running", "created"}
      BY <1>8 DEF PostLost, TypeOK
    <3> QED
      BY <1>8, <3>1, <3>2 DEF PostLost, TypeOK
  <2>2. booked[s] = 0
    BY <2>1, NotYetBooked
  <2> QED
    BY <1>2, <2>1, <2>2 DEF Tracked
<1> QED
  BY <1>3, <1>4, <1>5, <1>6, <1>7, <1>8

(* What a run sends comes from the queue, or from what it has left. *)
LEMMA SentFrom ==
  ASSUME TypeOK, NEW y \in Runs, NEW S \in SUBSET Sales, SendBatch(y, S)
  PROVE  /\ server' = [server EXCEPT ![y] = "next"]
         /\ \A z \in Runs : /\ rest'[z] \subseteq rest[z] \cup S
                            /\ todo'[z] \subseteq todo[z] \cup S
<1>1. PICK b \in SUBSET S : /\ rest' = [rest EXCEPT ![y] = S \ b]
                            /\ todo' = [todo EXCEPT ![y] = b]
                            /\ server' = [server EXCEPT ![y] = "next"]
  BY DEF SendBatch
<1> QED
  BY <1>1 DEF TypeOK

LEMMA StartTracks ==
  ASSUME TypeOK, NEW s \in Sales, Tracked(s), NEW y \in Runs, StartSync(y)
  PROVE  Tracked(s)'
<1>1. /\ UNCHANGED <<sale, booked, post, row, current, outcome>>
      /\ server[y] = "idle" /\ Queue \in SUBSET Sales /\ SendBatch(y, Queue)
  BY DEF StartSync, deviceVars, Queue
<1>2. /\ server' = [server EXCEPT ![y] = "next"]
      /\ \A z \in Runs : rest'[z] \subseteq rest[z] \cup Queue
                         /\ todo'[z] \subseteq todo[z] \cup Queue
  BY <1>1, SentFrom
<1>3. \A z \in Runs : WorksOn(z, s)' <=> WorksOn(z, s)
  BY <1>1, <1>2 DEF WorksOn, TypeOK
<1>4. \A z \in Runs : Marking(z, s) => Marking(z, s)'
  BY <1>1, <1>2, <1>3 DEF Marking, TypeOK
<1>5. sale[s] # "queued" /\ Untried(s) => Untried(s)'
  BY <1>1, <1>2, <1>3 DEF Untried, Queue
<1> QED
  BY <1>1, <1>3, <1>4, <1>5, KeptTracked

LEMMA AnswerTracks ==
  ASSUME TypeOK, NEW s \in Sales, Tracked(s), NEW y \in Runs,
         PushAnswered(y) \/ PushLost(y)
  PROVE  Tracked(s)'
<1>1. UNCHANGED <<booked, post, row, current, outcome>>
  BY DEF PushAnswered, PushLost
<1>2. \/ sale'[s] = sale[s]
      \/ sale[s] = "queued" /\ sale'[s] \in {"settled", "refused", "dropped"}
  <2>1. CASE PushAnswered(y)
    <3>1. \/ sale'[s] = sale[s]
          \/ s \in Queue /\ sale'[s] \in {"settled", "refused"}
          \/ s \in Exhausted(y, Answered(y, {"failed"})) /\ sale'[s] = "dropped"
      BY <2>1 DEF PushAnswered
    <3> QED
      BY <3>1 DEF Queue, Exhausted
  <2>2. CASE PushLost(y)
    BY <2>2 DEF PushLost, Exhausted, Queue
  <2> QED
    BY <2>1, <2>2
<1>3. /\ \/ server' = server
         \/ server[y] = "next" /\ server' = [server EXCEPT ![y] = "next"]
         \/ server[y] = "next" /\ server' = [server EXCEPT ![y] = "idle"]
      /\ \A z \in Runs : rest'[z] \subseteq rest[z]
      /\ \A z \in Runs : todo'[z] \subseteq todo[z] \cup rest[z]
  <2>1. CASE PushAnswered(y) /\ rest[y] # {}
    <3>1. server[y] = "next" /\ SendBatch(y, rest[y]) /\ rest[y] \in SUBSET Sales
      BY <2>1 DEF PushAnswered, TypeOK
    <3>2. PICK b \in SUBSET rest[y] : /\ rest' = [rest EXCEPT ![y] = rest[y] \ b]
                                      /\ todo' = [todo EXCEPT ![y] = b]
                                      /\ server' = [server EXCEPT ![y] = "next"]
      BY <3>1 DEF SendBatch
    <3> QED
      BY <3>1, <3>2 DEF TypeOK
  <2>2. CASE PushAnswered(y) /\ rest[y] = {}
    <3>1. server[y] = "next" /\ EndRun(y) /\ EndPush(y)
      BY <2>2 DEF PushAnswered
    <3> QED
      BY <3>1 DEF EndRun, EndPush, TypeOK
  <2>3. CASE PushLost(y)
    BY <2>3 DEF PushLost, EndRun, EndPush, TypeOK
  <2> QED
    BY <2>1, <2>2, <2>3
<1>4. \A z \in Runs : WorksOn(z, s)' <=> WorksOn(z, s)
  BY <1>1, <1>3 DEF WorksOn, TypeOK
<1>5. \A z \in Runs : Marking(z, s) => Marking(z, s)'
  BY <1>1, <1>3, <1>4 DEF Marking, TypeOK
<1>6. Untried(s) => Untried(s)'
  BY <1>1, <1>3, <1>4 DEF Untried
<1> QED
  BY <1>1, <1>2, <1>4, <1>5, <1>6, KeptTracked

(* A push picks a sale nobody works on, or leaves it in doubt. *)
LEMMA CheckTracks ==
  ASSUME TypeOK, NEW s \in Sales, Tracked(s), s \notin unsure', NEW y \in Runs,
         CheckRow(y)
  PROVE  Tracked(s)'
<1>1. PICK t \in todo[y] :
        \/ /\ todo' = [todo EXCEPT ![y] = @ \ {t}]
           /\ UNCHANGED <<row, current, server>>
        \/ /\ row[t] # "synced"
           /\ row' = [row EXCEPT ![t] = IF @ = "none" THEN "pending" ELSE @]
           /\ current' = [current EXCEPT ![y] = t]
           /\ server' = [server EXCEPT ![y] = "apply"]
           /\ unsure' = Contended(t)
           /\ UNCHANGED todo
  BY DEF CheckRow
<1>2. /\ UNCHANGED <<sale, rest, outcome, booked, post>> /\ server[y] = "next"
      /\ t \in Sales
  BY DEF CheckRow, deviceVars, runVars, TypeOK
<1>3. CASE /\ todo' = [todo EXCEPT ![y] = @ \ {t}]
           /\ UNCHANGED <<row, current, server>>
  <2>1. /\ \A z \in Runs : WorksOn(z, s)' <=> WorksOn(z, s)
        /\ \A z \in Runs : Marking(z, s)' <=> Marking(z, s)
    BY <1>2, <1>3 DEF WorksOn, Marking
  <2>2. Untried(s) => Untried(s)'
    BY <1>2, <1>3, <2>1 DEF Untried, TypeOK
  <2> QED
    BY <1>2, <1>3, <2>1, <2>2, KeptTracked
<1>4. CASE /\ row[t] # "synced"
           /\ row' = [row EXCEPT ![t] = IF @ = "none" THEN "pending" ELSE @]
           /\ current' = [current EXCEPT ![y] = t]
           /\ server' = [server EXCEPT ![y] = "apply"]
           /\ unsure' = Contended(t)
           /\ UNCHANGED todo
  <2>1. \A z \in Runs : z # y => (WorksOn(z, s)' <=> WorksOn(z, s))
    BY <1>4 DEF WorksOn, TypeOK
  <2>2. ~WorksOn(y, s) /\ (WorksOn(y, s)' <=> s = t)
    BY <1>2, <1>4 DEF WorksOn, TypeOK
  <2>3. \A z \in Runs : Marking(z, s) => Marking(z, s)'
    BY <1>2, <1>4, <2>1, <2>2 DEF Marking, TypeOK
  <2>4. CASE s # t
    <3>1. row'[s] = row[s]
      BY <1>4, <2>4 DEF TypeOK
    <3>2. Untried(s) => Untried(s)'
      BY <1>2, <1>4, <2>1, <2>2, <2>4, <3>1 DEF Untried
    <3> QED
      BY <1>2, <2>1, <2>2, <2>3, <2>4, <3>1, <3>2, KeptTracked
  <2>5. CASE s = t
    <3>1. \A z \in Runs : ~WorksOn(z, s)
      BY <1>4, <2>5 DEF Contended
    <3>2. row[s] # "synced" /\ row'[s] # "synced"
      BY <1>2, <1>4, <2>5 DEF TypeOK
    <3>3. ~Untried(s)
      BY <1>1, <2>5 DEF Untried
    <3>4. sale[s] \notin {"cart", "posting"} /\ post[s] \notin {"running", "created"}
      BY <3>3 DEF Tracked
    <3>5. booked[s] = 0
      BY <3>1, <3>2, <3>3, <3>4 DEF Tracked, Marking
    <3> QED
      BY <1>2, <2>1, <3>1, <3>2, <3>4, <3>5 DEF Tracked
  <2> QED
    BY <2>4, <2>5
<1> QED
  BY <1>1, <1>3, <1>4

LEMMA ApplyTracks ==
  ASSUME TypeOK, Working, NEW s \in Sales, Tracked(s), NEW y \in Runs,
         ApplyOperation(y)
  PROVE  Tracked(s)'
<1>1. /\ server[y] = "apply" /\ server' = [server EXCEPT ![y] = "mark"]
      /\ UNCHANGED <<sale, rest, todo, current, row, post>>
      /\ current[y] \in Sales
  BY DEF ApplyOperation, Working, deviceVars, runVars
<1>2. \A z \in Runs : WorksOn(z, s)' <=> WorksOn(z, s)
  BY <1>1 DEF WorksOn, TypeOK
<1>3. Untried(s)' <=> Untried(s)
  BY <1>1, <1>2 DEF Untried
<1>4. \A z \in Runs : z # y => outcome'[z] = outcome[z] /\ server'[z] = server[z]
  BY DEF ApplyOperation, TypeOK
<1>5. CASE current[y] # s
  <2>1. booked'[s] = booked[s]
    BY <1>5 DEF ApplyOperation, TypeOK
  <2>2. \A z \in Runs : Marking(z, s) => Marking(z, s)'
    BY <1>2, <1>4, <1>5 DEF Marking, WorksOn
  <2> QED
    BY <1>1, <1>2, <1>3, <2>1, <2>2, KeptTracked
<1>6. CASE current[y] = s
  <2>1. WorksOn(y, s) /\ ~Marking(y, s)
    BY <1>1, <1>6 DEF WorksOn, Marking
  <2>2. booked[s] = 0
    BY <2>1, NotBookedAtWork
  <2>3. \/ booked'[s] = 0
        \/ booked'[s] = 1 /\ outcome'[y] = "synced"
    BY <1>6, <2>2 DEF ApplyOperation, TypeOK
  <2>4. booked'[s] = 1 => Marking(y, s)'
    <3>1. server'[y] = "mark" /\ WorksOn(y, s)'
      BY <1>1, <1>2, <2>1 DEF TypeOK
    <3> QED
      BY <2>3, <3>1 DEF Marking
  <2> QED
    BY <1>1, <1>2, <1>3, <2>3, <2>4 DEF Tracked
<1> QED
  BY <1>5, <1>6

LEMMA MarkTracks ==
  ASSUME TypeOK, Working, NEW s \in Sales, Tracked(s), s \notin unsure',
         NEW y \in Runs, MarkRow(y)
  PROVE  Tracked(s)'
<1>1. /\ server[y] = "mark" /\ server' = [server EXCEPT ![y] = "next"]
      /\ todo' = [todo EXCEPT ![y] = @ \ {current[y]}]
      /\ current' = [current EXCEPT ![y] = NoSale]
      /\ outcome' = [outcome EXCEPT ![y] = "none"]
      /\ UNCHANGED <<sale, rest, post, booked>>
      /\ current[y] \in Sales
  BY DEF MarkRow, Working, deviceVars, runVars
<1>2. PICK o \in {outcome[y], "failed"} :
        /\ row' = [row EXCEPT ![current[y]] = o]
        /\ o # outcome[y] /\ outcome[y] = "synced" => current[y] \in unsure'
  BY DEF MarkRow
<1>3. \A z \in Runs : z # y => (WorksOn(z, s)' <=> WorksOn(z, s))
                               /\ (Marking(z, s)' <=> Marking(z, s))
  BY <1>1 DEF WorksOn, Marking, TypeOK
<1>4. ~WorksOn(y, s)'
  BY <1>1 DEF WorksOn, TypeOK
<1>5. CASE current[y] # s
  <2>1. row'[s] = row[s] /\ ~WorksOn(y, s) /\ ~Marking(y, s)
    BY <1>2, <1>5 DEF TypeOK, WorksOn, Marking
  <2>2. Untried(s) => Untried(s)'
    BY <1>1, <1>3, <1>4, <2>1 DEF Untried, TypeOK
  <2> QED
    BY <1>1, <1>3, <1>4, <2>1, <2>2, KeptTracked
<1>6. CASE current[y] = s
  <2>1. WorksOn(y, s) /\ ~Untried(s)
    BY <1>1, <1>6 DEF WorksOn, Untried
  <2>2. \A z \in Runs : ~WorksOn(z, s)'
    BY <1>3, <1>4, <2>1 DEF Tracked
  <2>3. sale[s] \notin {"cart", "posting"} /\ post[s] \notin {"running", "created"}
    BY <2>1 DEF Tracked
  <2>4. CASE outcome[y] = "synced"
    <3>1. row'[s] = "synced"
      BY <1>2, <1>6, <2>4 DEF TypeOK
    <3> QED
      BY <1>1, <2>2, <2>3, <3>1 DEF Tracked
  <2>5. CASE outcome[y] # "synced"
    <3>1. booked[s] = 0
      BY <2>1, <2>5, NotBookedAtWork DEF Marking
    <3> QED
      BY <1>1, <2>2, <2>3, <3>1 DEF Tracked
  <2> QED
    BY <2>4, <2>5
<1> QED
  BY <1>5, <1>6

(* A crash leaves in doubt what was applied and not marked. *)
LEMMA CrashTracks ==
  ASSUME TypeOK, NEW s \in Sales, Tracked(s), s \notin unsure', Crash
  PROVE  Tracked(s)'
<1>1. /\ UNCHANGED <<sale, rest, row, booked>>
      /\ \A z \in Runs : server'[z] = "idle" /\ todo'[z] = {}
      /\ post'[s] = IF post[s] = "running" THEN "none" ELSE post[s]
  BY DEF Crash, deviceVars, runVars
<1>2. \A z \in Runs : ~Marking(z, s)
  BY DEF Crash, Marking, WorksOn
<1>3. \A z \in Runs : ~WorksOn(z, s)'
  BY <1>1 DEF WorksOn
<1>4. Untried(s) => Untried(s)'
  BY <1>1, <1>3 DEF Untried
<1> QED
  BY <1>1, <1>2, <1>3, <1>4 DEF Tracked

LEMMA StepBooksOnce ==
  ASSUME TypeOK, Working, BookedOnce, [Next]_vars
  PROVE  BookedOnce'
<1> SUFFICES ASSUME NEW s \in Sales, s \notin unsure'
             PROVE  Tracked(s)'
  BY DEF BookedOnce
<1>1. Tracked(s)
  BY DoubtStays DEF BookedOnce
<1>2. ASSUME UNCHANGED <<sale, rest, todo, server, current, outcome, row, booked, post>>
      PROVE  Tracked(s)'
  <2>1. /\ \A z \in Runs : WorksOn(z, s)' <=> WorksOn(z, s)
        /\ \A z \in Runs : Marking(z, s)' <=> Marking(z, s)
    BY <1>2 DEF WorksOn, Marking
  <2>2. Untried(s)' <=> Untried(s)
    BY <1>2, <2>1 DEF Untried
  <2> QED
    BY <1>1, <1>2, <2>1, <2>2, KeptTracked
<1>3. ASSUME NEW y \in Runs, PushUnheard(y)
      PROVE  Tracked(s)'
  <2>1. /\ UNCHANGED <<sale, rest, current, outcome, row, booked, post>>
        /\ server[y] = "next" /\ server' = [server EXCEPT ![y] = "idle"]
        /\ todo' = [todo EXCEPT ![y] = {}]
    BY <1>3 DEF PushUnheard, EndPush, deviceVars, runVars
  <2>2. /\ \A z \in Runs : WorksOn(z, s)' <=> WorksOn(z, s)
        /\ \A z \in Runs : Marking(z, s)' <=> Marking(z, s)
    BY <2>1 DEF WorksOn, Marking, TypeOK
  <2>3. Untried(s) => Untried(s)'
    BY <2>1, <2>2 DEF Untried, TypeOK
  <2> QED
    BY <1>1, <2>1, <2>2, <2>3, KeptTracked
<1>4. CASE Connection \/ UNCHANGED vars
  BY <1>2, <1>4 DEF Connection, vars, runVars, pushVars
<1> QED
  BY <1>1, <1>3, <1>4, CheckoutTracks, StartTracks, AnswerTracks, CheckTracks,
     ApplyTracks, MarkTracks, CrashTracks DEF Next, ServerStep

(* A step that books is the booking of a sale that was not booked, or is in *)
(* doubt; a step that takes records off the queue, or clears the cart,     *)
(* settles the ones it acknowledges, which are booked; and the rest puts   *)
(* sales in doubt at most.                                                 *)
LEMMA StepOfIntake ==
  ASSUME TypeOK, Working, Evidence, BookedOnce, [Next]_vars
  PROVE  [Intake!Next]_(Intake!vars)
<1> DEFINE acked   == {s \in Sales : sale[s] = "settled"}
           givenUp == {s \in Sales : sale[s] \in {"refused", "dropped"}}
           done    == {s \in Sales : sale[s] # "settled" /\ sale'[s] = "settled"}
           lost    == {s \in Sales : sale[s] \notin {"refused", "dropped"}
                                     /\ sale'[s] \in {"refused", "dropped"}}
<1>1. ASSUME UNCHANGED <<sale, booked>>, unsure \subseteq unsure', TypeOK
      PROVE  [Intake!Next]_(Intake!vars)
  <2>1. acked' = acked /\ givenUp' = givenUp
    BY <1>1
  <2>2. CASE unsure' = unsure
    BY <1>1, <2>1, <2>2 DEF Intake!vars
  <2>3. CASE \E S \in SUBSET Sales : unsure' = unsure \cup S
    <3>1. PICK S \in SUBSET Sales : unsure' = unsure \cup S
      BY <2>3
    <3>2. Intake!Doubt(S)
      BY <1>1, <2>1, <3>1 DEF Intake!Doubt
    <3> QED
      BY <3>2 DEF Intake!Next
  <2>4. unsure' \in SUBSET Sales
    BY StepTyped DEF TypeOK
  <2>5. unsure' = unsure \cup unsure'
    BY <1>1
  <2> QED
    BY <2>3, <2>4, <2>5
<1>2. ASSUME UNCHANGED <<booked, unsure>>,
             \A s \in Sales :
               \/ sale'[s] = sale[s]
               \/ /\ sale[s] \in {"queued", "posting", "cart"}
                  /\ sale'[s] = "settled" => Booked(s)
      PROVE  [Intake!Next]_(Intake!vars)
  <2>1. \E d, l \in SUBSET Sales : d = done /\ l = lost
    OBVIOUS
  <2>2. PICK d \in SUBSET Sales, l \in SUBSET Sales : d = done /\ l = lost
    BY <2>1
  <2>3. \A s \in d : booked[s] >= 1
    BY <1>2, <2>2 DEF Booked
  <2>4. (d \cup l) \cap (acked \cup givenUp) = {} /\ d \cap l = {}
    BY <1>2, <2>2
  <2>5. acked' = acked \cup d /\ givenUp' = givenUp \cup l
    BY <1>2, <2>2
  <2>6. Intake!Settle(d, l)
    BY <1>2, <2>3, <2>4, <2>5 DEF Intake!Settle
  <2>7. Intake!Next
    BY <2>6 DEF Intake!Next
  <2> QED
    BY <2>7
<1>3. ASSUME NEW s \in Sales, booked[s] = 0 \/ s \in unsure,
             UNCHANGED <<sale, unsure>>,
             booked' = booked \/ booked' = [booked EXCEPT ![s] = @ + 1]
      PROVE  [Intake!Next]_(Intake!vars)
  <2>1. acked' = acked /\ givenUp' = givenUp
    BY <1>3
  <2>2. CASE booked' = [booked EXCEPT ![s] = @ + 1]
    <3>1. Intake!Book(s)
      BY <1>3, <2>1, <2>2 DEF Intake!Book
    <3> QED
      BY <3>1 DEF Intake!Next
  <2>3. CASE booked' = booked
    BY <1>3, <2>1, <2>3 DEF Intake!vars
  <2> QED
    BY <1>3, <2>2, <2>3
<1>4. ASSUME NEW s \in Sales, QueueSale(s) \/ PostSale(s) \/ PostAnswered(s)
      PROVE  [Intake!Next]_(Intake!vars)
  <2>1. /\ UNCHANGED <<booked, unsure>>
        /\ sale[s] \in {"cart", "posting"}
        /\ \A t \in Sales : t # s => sale'[t] = sale[t]
        /\ sale'[s] = "settled" => post[s] = "created"
    BY <1>4 DEF QueueSale, PostSale, PostAnswered, TypeOK
  <2> QED
    BY <1>2, <2>1 DEF Evidence
<1>5. ASSUME NEW s \in Sales, PostLost(s)
      PROVE  [Intake!Next]_(Intake!vars)
  <2>1. acked' = acked /\ givenUp' = givenUp /\ booked' = booked
    BY <1>5 DEF PostLost, TypeOK
  <2>2. unsure' = unsure \/ unsure' = unsure \cup {s}
    BY <1>5 DEF PostLost
  <2>3. CASE unsure' = unsure
    BY <2>1, <2>3 DEF Intake!vars
  <2>4. CASE unsure' = unsure \cup {s}
    <3>1. Intake!Doubt({s})
      BY <2>1, <2>4 DEF Intake!Doubt
    <3> QED
      BY <3>1 DEF Intake!Next
  <2> QED
    BY <2>2, <2>3, <2>4
<1>6. ASSUME NEW s \in Sales, CreateInvoice(s)
      PROVE  [Intake!Next]_(Intake!vars)
  <2>1. /\ post[s] = "running" /\ UNCHANGED <<sale, unsure>>
        /\ booked' = booked \/ booked' = [booked EXCEPT ![s] = @ + 1]
    BY <1>6 DEF CreateInvoice, deviceVars
  <2>2. s \notin unsure => booked[s] = 0
    <3> SUFFICES ASSUME s \notin unsure PROVE booked[s] = 0
      OBVIOUS
    <3>1. Tracked(s)
      BY DEF BookedOnce
    <3>2. sale[s] = "posting"
      BY <2>1, <3>1 DEF Tracked
    <3> QED
      BY <2>1, <3>1, <3>2, NotYetBooked
  <2> QED
    BY <1>3, <2>1, <2>2
<1>7. ASSUME NEW y \in Runs, PushAnswered(y)
      PROVE  [Intake!Next]_(Intake!vars)
  <2>1. UNCHANGED <<booked, unsure>>
    BY <1>7 DEF PushAnswered
  <2>2. ASSUME NEW s \in Sales, sale'[s] # sale[s]
        PROVE  sale[s] = "queued" /\ (sale'[s] = "settled" => Booked(s))
    <3>1. \/ /\ s \in Queue \cap Answered(y, {"synced", "duplicate"})
             /\ sale'[s] = "settled"
          \/ s \in Queue \cap Answered(y, {"conflict"}) /\ sale'[s] = "refused"
          \/ s \in Exhausted(y, Answered(y, {"failed"})) /\ sale'[s] = "dropped"
      BY <1>7, <2>2 DEF PushAnswered
    <3> QED
      BY <3>1 DEF Queue, Exhausted, Answered, Evidence
  <2> QED
    BY <1>2, <2>1, <2>2
<1>8. ASSUME NEW y \in Runs, PushLost(y)
      PROVE  [Intake!Next]_(Intake!vars)
  <2>1. UNCHANGED <<booked, unsure>>
    BY <1>8 DEF PushLost
  <2>2. ASSUME NEW s \in Sales, sale'[s] # sale[s]
        PROVE  sale[s] = "queued" /\ sale'[s] = "dropped"
    BY <1>8, <2>2 DEF PushLost, Exhausted, Queue
  <2> QED
    BY <1>2, <2>1, <2>2
<1>9. ASSUME NEW y \in Runs, ApplyOperation(y)
      PROVE  [Intake!Next]_(Intake!vars)
  <2> DEFINE s == current[y]
  <2>1. /\ s \in Sales /\ server[y] = "apply" /\ UNCHANGED <<sale, unsure>>
        /\ booked' = booked \/ booked' = [booked EXCEPT ![s] = @ + 1]
    BY <1>9 DEF ApplyOperation, Working, deviceVars
  <2>2. s \notin unsure => booked[s] = 0
    BY <2>1, NotBookedAtWork DEF BookedOnce, WorksOn, Marking
  <2> QED
    BY <1>3, <2>1, <2>2
<1>10. ASSUME NEW y \in Runs,
              StartSync(y) \/ CheckRow(y) \/ MarkRow(y) \/ PushUnheard(y)
       PROVE  [Intake!Next]_(Intake!vars)
  <2>1. UNCHANGED <<sale, booked>>
    BY <1>10 DEF StartSync, CheckRow, MarkRow, PushUnheard, deviceVars
  <2> QED
    BY <1>1, <2>1, DoubtStays
<1>11. CASE Crash \/ Connection \/ UNCHANGED vars
  <2>1. UNCHANGED <<sale, booked>>
    BY <1>11 DEF Crash, Connection, vars, deviceVars
  <2> QED
    BY <1>1, <2>1, DoubtStays
<1> QED
  BY <1>4, <1>5, <1>6, <1>7, <1>8, <1>9, <1>10, <1>11 DEF Next, ServerStep

(* The offline path implements what it promises, for any sales, overlapping *)
(* runs, batch size, retry limit, lost answers and crashes: a sale is      *)
(* forgotten as done only when booked, and booked again only after a POST  *)
(* was lost at the server, two pushes worked on its row at the same time,  *)
(* or its row was not marked although it was booked.                       *)
THEOREM Implements == Spec => IntakeSpec
<1>1. Init => Intake!Init
  BY DEF Init, Intake!Init
<1>2. Init => BookedOnce
  BY DEF Init, BookedOnce, Tracked, WorksOn, Untried
<1>3. Init => Evidence
  BY InitEvidence
<1>4. TypeOK /\ Working /\ TypeOK' /\ Evidence /\ [Next]_vars => Evidence'
  BY StepEvidence
<1>5. TypeOK /\ Working /\ BookedOnce /\ [Next]_vars => BookedOnce'
  BY StepBooksOnce
<1>6. TypeOK /\ Working /\ Evidence /\ BookedOnce /\ [Next]_vars
        => [Intake!Next]_(Intake!vars)
  BY StepOfIntake
<1>7. Spec => [](TypeOK /\ Working)
  BY Typing
<1> QED
  BY <1>1, <1>2, <1>3, <1>4, <1>5, <1>6, <1>7, PTL DEF Spec, IntakeSpec, Intake!Spec

------------------------------------------------------------------------------
(***************************************************************************)
(* The invoice: its edits, its books and its void.                         *)
(***************************************************************************)
-----------------------------------------------------------------------------
(* Rows of amounts and their sums.                                           *)

Money == Nat \ {0}
PayRows   == Seq(Money)

LEMMA SumIsOver ==
  ASSUME NEW s
  PROVE  Sum(s) = SumOver(s, DOMAIN s)
BY DEF Sum, FoldFunction, FoldFunctionOnSet, SumOver

LEMMA SumNone == Sum(<< >>) = 0
<1>1. DOMAIN << >> = {}
  OBVIOUS
<1> QED
  BY <1>1, SumIsOver, SumOfNone

LEMMA RowsFinite ==
  ASSUME NEW S, NEW s \in Seq(S)
  PROVE  IsFiniteSet(DOMAIN s) /\ DOMAIN s = 1 .. Len(s) /\ Len(s) \in Nat
BY FS_Interval

LEMMA SumGrows ==
  ASSUME NEW s \in Seq(Int), NEW t \in Seq(Int), NEW n, n = Len(t),
         n = Len(s) + 1, \A i \in 1 .. Len(s) : t[i] = s[i]
  PROVE  SumOver(t, DOMAIN t) = SumOver(s, DOMAIN s) + t[n]
<1>1. IsFiniteSet(DOMAIN s) /\ IsFiniteSet(DOMAIN t)
      /\ DOMAIN s = 1 .. Len(s) /\ DOMAIN t = 1 .. n /\ Len(s) \in Nat
  BY RowsFinite
<1>2. \A i \in DOMAIN s : s[i] \in Int
  OBVIOUS
<1>3. \A i \in DOMAIN t : t[i] \in Int
  OBVIOUS
<1>4. n \in DOMAIN t /\ n \notin DOMAIN s /\ DOMAIN s \ {n} = DOMAIN t \ {n}
  BY <1>1
<1>5. \A i \in DOMAIN s \ {n} : t[i] = s[i]
  BY <1>1
<1>6. SumOver(t, DOMAIN t) = SumOver(s, DOMAIN s)
        + (IF n \in DOMAIN t THEN t[n] ELSE 0) - (IF n \in DOMAIN s THEN s[n] ELSE 0)
  <2> DEFINE R == DOMAIN s
             Q == DOMAIN t
  <2>1. /\ IsFiniteSet(R) /\ IsFiniteSet(Q) /\ R \ {n} = Q \ {n}
        /\ \A i \in R : s[i] \in Int
        /\ \A i \in Q : t[i] \in Int
        /\ \A i \in R \ {n} : t[i] = s[i]
    BY <1>1, <1>2, <1>3, <1>4, <1>5
  <2> HIDE DEF R, Q
  <2>2. SumOver(t, Q) = SumOver(s, R) + (IF n \in Q THEN t[n] ELSE 0)
                                      - (IF n \in R THEN s[n] ELSE 0)
    BY <2>1, SumMove
  <2> QED
    BY <2>2 DEF R, Q
<1>7. SumOver(s, DOMAIN s) \in Int /\ t[n] \in Int
  BY <1>1, <1>2, <1>3, <1>4, SumIsInt
<1> QED
  BY <1>4, <1>6, <1>7

LEMMA SumAppend ==
  ASSUME NEW s \in Seq(Int), NEW a \in Int
  PROVE  Sum(Append(s, a)) = Sum(s) + a /\ Sum(s) \in Int
<1> DEFINE t == Append(s, a)
<1>1. t \in Seq(Int) /\ Len(t) = Len(s) + 1 /\ t[Len(t)] = a
      /\ \A i \in 1 .. Len(s) : t[i] = s[i]
  OBVIOUS
<1>2. SumOver(s, DOMAIN s) \in Int
  BY RowsFinite, SumIsInt
<1> HIDE DEF t
<1>3. SumOver(t, DOMAIN t) = SumOver(s, DOMAIN s) + t[Len(t)]
  BY <1>1, SumGrows
<1>4. Sum(t) = SumOver(t, DOMAIN t) /\ Sum(s) = SumOver(s, DOMAIN s)
  BY SumIsOver
<1>5. Sum(t) = Sum(s) + a /\ Sum(s) \in Int
  BY <1>1, <1>2, <1>3, <1>4
<1> QED
  BY <1>5 DEF t

LEMMA SumOne ==
  ASSUME NEW a \in Int
  PROVE  Sum(<<a>>) = a
<1>1. << >> \in Seq(Int) /\ Append(<< >>, a) = <<a>>
  OBVIOUS
<1>2. Sum(Append(<< >>, a)) = Sum(<< >>) + a
  BY <1>1, SumAppend
<1>3. Sum(<<a>>) = Sum(<< >>) + a
  BY <1>1, <1>2
<1> QED
  BY <1>3, SumNone

(* Payment rows are positive, so only an empty bucket adds up to nothing.    *)
LEMMA SumPayRows ==
  ASSUME NEW s \in PayRows
  PROVE  /\ s \in Seq(Nat) /\ s \in Seq(Int) /\ Len(s) \in Nat
         /\ Sum(s) \in Nat
         /\ Sum(s) = 0 <=> s = << >>
<1>1. s \in Seq(Nat) /\ s \in Seq(Int) /\ Len(s) \in Nat
  BY DEF PayRows, Money
<1>2. IsFiniteSet(DOMAIN s) /\ DOMAIN s = 1 .. Len(s)
  BY <1>1, RowsFinite
<1>3. \A i \in DOMAIN s : s[i] \in Nat /\ s[i] # 0
  BY DEF PayRows, Money
<1>4. /\ SumOver(s, DOMAIN s) \in Nat
      /\ \A i \in DOMAIN s : s[i] <= SumOver(s, DOMAIN s)
  BY <1>2, <1>3, SumIsNat
<1>5. s # << >> => 1 \in DOMAIN s
  BY <1>1, <1>2
<1>6. Sum(s) = 0 => s = << >>
  BY <1>3, <1>4, <1>5, SumIsOver
<1> QED
  BY <1>1, <1>4, <1>6, SumIsOver, SumNone

(* What a request may carry. *)
LEMMA RequestType ==
  ASSUME NEW r \in Requests
  PROVE  /\ r.items \in [rows : Nat, qty : Nat, revenue : Nat]
         /\ r.items.rows >= 1 /\ r.items.qty >= 1 /\ r.items.revenue >= 1
         /\ r.pay \in [Boxes -> PayRows]
<1>1. Amounts \subseteq Money
  BY SalesAssumption DEF Amounts, Money
<1>2. r.items \in Orders /\ r.pay \in Tenders
  BY DEF Requests
<1>3. /\ << >> \in PayRows
      /\ \A a \in Amounts : <<a>> \in PayRows
      /\ \A a, b \in Amounts : <<a, b>> \in PayRows
  BY <1>1 DEF PayRows
<1>4. r.pay \in [Boxes -> PayRows]
  BY <1>2, <1>3 DEF Tenders
<1>5. r.items \in [rows : Nat, qty : Nat, revenue : Nat]
      /\ r.items.rows >= 1 /\ r.items.qty >= 1 /\ r.items.revenue >= 1
  BY <1>2, SalesAssumption DEF Orders, Amounts
<1> QED
  BY <1>4, <1>5

-----------------------------------------------------------------------------
(* The inductive invariant.  Before the sale nothing is booked.              *)

PayTyped == payments \in [Boxes -> PayRows]
Received == paid = Total(payments)

Untouched ==
  /\ status = "none" =>
       /\ payments = NoRows /\ delta = NoDelta /\ asked = Nothing
       /\ voiding = "no" /\ ~reposted /\ ~drift
  /\ voiding # "no" => status = "cancelled"

(* A live invoice has a live entry, and the cash is that entry with what the *)
(* deltas added; the movements are at least those of the entry, and exactly  *)
(* those until the legacy path posts again.                                  *)
LiveBooks == status = "paid" =>
  /\ entry # NoEntry
  /\ \A b \in Boxes : held[b] = Sum(entry.lines[b]) + delta.cash[b]
  /\ \A b \in Boxes : Len(trail[b]) >= Len(entry.lines[b])
  /\ trail # NoRows
  /\ ~reposted => trail = entry.lines
  /\ ~drift /\ payments = NoRows => \A b \in Boxes : delta.cash[b] = 0

(* Between the two steps of a void: what reverseByReference is about to take *)
(* is what is left in the cashbox.                                           *)
Reversing ==
  voiding = "reversing" =>
    /\ entry # NoEntry
    /\ ~drift /\ (\E b \in Boxes : OneMeans(b)) =>
         \A b \in Boxes :
           held[b] = IF trail = entry.lines THEN Sum(entry.lines[b]) ELSE 0

Typed    == SalesTypeOK /\ PayTyped /\ Received
SalesInv == /\ Typed /\ Untouched /\ LiveBooks /\ Reversing
            /\ BooksMatchInvoice /\ StockMatchesItems /\ EditedAsAsked
            /\ VoidReturnsTheMoney

(* The sums of the invoice and of a request are numbers.                     *)
LEMMA Figures ==
  ASSUME Typed, NEW r \in Requests
  PROVE  /\ items.rows \in Nat /\ items.qty \in Nat /\ items.revenue \in Nat
         /\ r.items.rows \in Nat /\ r.items.qty \in Nat /\ r.items.revenue \in Nat
         /\ r.items.revenue > 0 /\ grand \in Nat /\ paid \in Nat
         /\ paid = Total(payments)
         /\ \A b \in Boxes :
              /\ payments[b] \in PayRows /\ r.pay[b] \in PayRows
              /\ Sum(payments[b]) \in Nat /\ Sum(r.pay[b]) \in Nat
              /\ Change(r, b) \in Int
              /\ Sum(r.pay[b]) = Sum(payments[b]) + Change(r, b)
         /\ Total(payments) = Sum(payments[Drawer]) + Sum(payments[Bank])
         /\ Total(r.pay) = Sum(r.pay[Drawer]) + Sum(r.pay[Bank])
         /\ Total(payments) \in Nat /\ Total(r.pay) \in Nat
<1>1. \A b \in Boxes : payments[b] \in PayRows /\ r.pay[b] \in PayRows
  BY RequestType DEF Typed, PayTyped
<1>2. \A b \in Boxes : Sum(payments[b]) \in Nat /\ Sum(r.pay[b]) \in Nat
  BY <1>1, SumPayRows
<1>3. Drawer \in Boxes /\ Bank \in Boxes
  BY DEF Boxes
<1>4. /\ items.rows \in Nat /\ items.qty \in Nat /\ items.revenue \in Nat
      /\ grand \in Nat /\ paid \in Nat
  BY DEF Typed, SalesTypeOK
<1>5. /\ r.items.rows \in Nat /\ r.items.qty \in Nat /\ r.items.revenue \in Nat
      /\ r.items.revenue > 0
  BY RequestType
<1>6. \A b \in Boxes : /\ Change(r, b) \in Int
                       /\ Sum(r.pay[b]) = Sum(payments[b]) + Change(r, b)
  BY <1>2 DEF Change
<1>7. /\ Total(payments) = Sum(payments[Drawer]) + Sum(payments[Bank])
      /\ Total(r.pay) = Sum(r.pay[Drawer]) + Sum(r.pay[Bank])
  BY DEF Total
<1>8. Total(payments) \in Nat /\ Total(r.pay) \in Nat
  BY <1>2, <1>3, <1>7
<1> QED
  BY <1>1, <1>2, <1>4, <1>5, <1>6, <1>7, <1>8 DEF Typed, Received

(* Two payment tables of rows with the same sums, and a table with one row.  *)
LEMMA OneRow ==
  ASSUME Typed, Rows(payments) = 1
  PROVE  \E b \in Boxes : /\ Len(payments[b]) = 1
                          /\ \A c \in Boxes \ {b} : payments[c] = << >>
<1>1. /\ payments[Drawer] \in PayRows /\ payments[Bank] \in PayRows
      /\ Len(payments[Drawer]) + Len(payments[Bank]) = 1
      /\ Boxes = {Drawer, Bank}
  BY DEF Typed, PayTyped, Boxes, Rows
<1>2. /\ Len(payments[Drawer]) \in Nat /\ Len(payments[Bank]) \in Nat
      /\ Len(payments[Drawer]) = 0 => payments[Drawer] = << >>
      /\ Len(payments[Bank]) = 0 => payments[Bank] = << >>
  BY <1>1 DEF PayRows
<1>3. \/ Len(payments[Drawer]) = 1 /\ Len(payments[Bank]) = 0
      \/ Len(payments[Drawer]) = 0 /\ Len(payments[Bank]) = 1
  <2>1. \A m, n \in Nat : m + n = 1 => (m = 1 /\ n = 0) \/ (m = 0 /\ n = 1)
    OBVIOUS
  <2> QED
    BY <1>1, <1>2, <2>1
<1> QED
  BY <1>1, <1>2, <1>3

(* What a redistribution makes of the rows of one bucket. *)
LEMMA RedistributedRows ==
  ASSUME Typed, NEW r \in Requests, NEW b \in Boxes, NEW i \in 1 .. 3,
         i \in DOMAIN payments[b] \/ i = 1
  PROVE  /\ Redistributed(payments, r, b, i) \in PayRows
         /\ Len(payments[b]) <= 1 \/ Change(r, b) = 0 =>
              Sum(Redistributed(payments, r, b, i)) = Sum(r.pay[b])
<1> DEFINE want == Sum(r.pay[b])
           p    == payments[b]
           q    == Redistributed(payments, r, b, i)
<1>1. /\ p \in PayRows /\ want \in Nat /\ Sum(p) \in Nat
      /\ Change(r, b) \in Int /\ want = Sum(p) + Change(r, b)
  BY Figures
<1>2. /\ Len(p) \in Nat /\ DOMAIN p = 1 .. Len(p) /\ p \in [1 .. Len(p) -> Money]
      /\ Len(p) = 0 => p = << >>
  BY <1>1 DEF PayRows
<1>3. CASE Change(r, b) = 0
  BY <1>1, <1>3 DEF Redistributed
<1>4. CASE Change(r, b) # 0 /\ p = << >>
  <2>1. q = <<want>> /\ want # 0
    BY <1>1, <1>4, SumNone DEF Redistributed
  <2>2. <<want>> \in PayRows
    BY <1>1, <2>1 DEF PayRows, Money
  <2> QED
    BY <1>1, <2>1, <2>2, SumOne
<1>5. CASE Change(r, b) # 0 /\ p # << >> /\ want = 0
  <2> DEFINE n == Len(p) - 1
  <2>1. q = [k \in 1 .. n |-> p[IF k < i THEN k ELSE k + 1]]
    BY <1>5 DEF Redistributed
  <2>2. n \in Nat
    BY <1>1, <1>2, <1>5 DEF PayRows
  <2>3. \A k \in 1 .. n : p[IF k < i THEN k ELSE k + 1] \in Money
    BY <1>2, <2>2
  <2>4. q \in [1 .. n -> Money]
    BY <2>1, <2>3
  <2>5. q \in PayRows /\ Len(q) = n
    BY <2>2, <2>4 DEF PayRows
  <2>6. Len(p) <= 1 => q = << >>
    BY <1>2, <2>2, <2>5 DEF PayRows
  <2> QED
    BY <1>5, <2>5, <2>6, SumNone
<1>6. CASE Change(r, b) # 0 /\ p # << >> /\ want # 0
  <2>1. q = [p EXCEPT ![i] = want]
    BY <1>6 DEF Redistributed
  <2>2. want \in Money
    BY <1>1, <1>6 DEF Money
  <2>3. q \in PayRows /\ Len(q) = Len(p) /\ DOMAIN q = 1 .. Len(p) /\ i \in DOMAIN p
    <3>1. i \in DOMAIN p
      <4>1. Len(p) >= 1
        BY <1>2, <1>6
      <4> QED
        BY <1>2, <4>1
    <3>2. q \in Seq(Money) /\ Len(q) = Len(p)
      BY <1>1, <2>1, <2>2, <3>1, ExceptSeq DEF PayRows
    <3> QED
      BY <1>2, <2>1, <3>1, <3>2 DEF PayRows
  <2>4. ASSUME Len(p) <= 1
        PROVE  q = <<want>>
    <3>1. Len(p) = 1 /\ i = 1
      <4>1. i \in 1 .. Len(p) /\ Len(p) \in Nat /\ Len(p) <= 1
        BY <1>2, <2>3, <2>4
      <4>2. \A n \in Nat : n <= 1 /\ i \in 1 .. n => n = 1 /\ i = 1
        OBVIOUS
      <4> HIDE DEF p
      <4> QED
        BY <4>1, <4>2
    <3> QED
      BY <1>1, <2>1, <2>3, <3>1 DEF PayRows
  <2>5. Sum(<<want>>) = want
    BY <1>1, SumOne
  <2>6. Len(p) <= 1 => Sum(q) = want
    BY <2>4, <2>5
  <2> QED
    BY <1>6, <2>3, <2>6
<1> QED
  BY <1>3, <1>4, <1>5, <1>6

-----------------------------------------------------------------------------
(* What the edits have in common.                                            *)

(* An edit of a live invoice leaves it live, and after a plain one asked is   *)
(* what the request wanted.                                                  *)
LEMMA EditFrame ==
  ASSUME SalesInv, NEW r \in Requests, Editable, Edited(r)
  PROVE  /\ status = "paid" /\ status' = "paid"
         /\ voiding = "no" /\ voiding' = "no"
         /\ edits' \in 0 .. MaxEdits
         /\ asked' \in [revenue : Nat, pay : [Boxes -> Nat]] \cup {Nothing}
         /\ Untouched' /\ Reversing' /\ VoidReturnsTheMoney'
         /\ (Plain(r) => grand' = r.items.revenue /\ Sums(payments') = Sums(r.pay))
              => EditedAsAsked'
<1>1. status = "paid" /\ status' = "paid" /\ voiding' = voiding /\ edits' = edits + 1
      /\ edits < MaxEdits
  BY DEF Editable, Edited
<1>2. voiding = "no"
  BY <1>1 DEF SalesInv, Untouched
<1>3. edits' \in 0 .. MaxEdits
  BY <1>1, SalesAssumption DEF SalesInv, Typed, SalesTypeOK
<1>4. Sums(r.pay) \in [Boxes -> Nat] /\ r.items.revenue \in Nat
  BY Figures DEF SalesInv, Sums
<1>5. \/ Plain(r) /\ asked' = [revenue |-> r.items.revenue, pay |-> Sums(r.pay)]
      \/ ~Plain(r) /\ asked' = Nothing
  BY DEF Edited
<1>6. asked' \in [revenue : Nat, pay : [Boxes -> Nat]] \cup {Nothing}
  BY <1>4, <1>5
<1>7. Untouched'
  BY <1>1, <1>2 DEF Untouched
<1>8. Reversing' /\ VoidReturnsTheMoney'
  BY <1>1, <1>2 DEF Reversing, VoidReturnsTheMoney
<1>9. ASSUME Plain(r) => grand' = r.items.revenue /\ Sums(payments') = Sums(r.pay)
      PROVE  EditedAsAsked'
  <2>1. CASE Plain(r)
    <3>1. asked'.revenue = r.items.revenue /\ asked'.pay = Sums(r.pay)
      BY <1>5, <2>1
    <3>2. grand' = asked'.revenue /\ Sums(payments)' = asked'.pay
      BY <1>9, <2>1, <3>1 DEF Sums
    <3> QED
      BY <3>2 DEF EditedAsAsked
  <2>2. CASE ~Plain(r)
    BY <1>5, <2>2 DEF EditedAsAsked
  <2> QED
    BY <2>1, <2>2
<1> QED
  BY <1>1, <1>2, <1>3, <1>6, <1>7, <1>8, <1>9

(* A delta entry, and the cash it moves. *)
LEMMA DeltaStep ==
  ASSUME Typed, NEW cash \in [Boxes -> Int], NEW ar \in Int, NEW revenue \in Int,
         AddDelta(cash, ar, revenue)
  PROVE  /\ delta' \in [cash : [Boxes -> Int], ar : Int, revenue : Int]
         /\ held' \in [Boxes -> Int]
         /\ entry' = entry /\ trail' = trail
         /\ \A b \in Boxes : /\ delta'.cash[b] = delta.cash[b] + cash[b]
                             /\ held'[b] = held[b] + cash[b]
                             /\ delta.cash[b] \in Int /\ held[b] \in Int
         /\ delta'.ar = delta.ar + ar /\ delta'.revenue = delta.revenue + revenue
         /\ delta.ar \in Int /\ delta.revenue \in Int
<1>1. /\ delta \in [cash : [Boxes -> Int], ar : Int, revenue : Int]
      /\ held \in [Boxes -> Int]
  BY DEF Typed, SalesTypeOK
<1>2. /\ delta' = [cash |-> [b \in Boxes |-> delta.cash[b] + cash[b]],
                   ar |-> delta.ar + ar, revenue |-> delta.revenue + revenue]
      /\ held' = [b \in Boxes |-> held[b] + cash[b]]
      /\ entry' = entry /\ trail' = trail
  BY DEF AddDelta
<1>3. [b \in Boxes |-> delta.cash[b] + cash[b]] \in [Boxes -> Int]
  BY <1>1
<1> QED
  BY <1>1, <1>2, <1>3

(* The entry and the movements stay, so the cash is still the entry with the *)
(* deltas.                                                                   *)
LEMMA DeltaBooks ==
  ASSUME SalesInv, status = "paid", status' = "paid", reposted' = reposted,
         NEW cash \in [Boxes -> Int], NEW ar \in Int, NEW revenue \in Int,
         AddDelta(cash, ar, revenue),
         ~drift' /\ payments' = NoRows => \A b \in Boxes : delta'.cash[b] = 0
  PROVE  LiveBooks'
<1>1. /\ entry' = entry /\ trail' = trail
      /\ \A b \in Boxes : /\ delta'.cash[b] = delta.cash[b] + cash[b]
                          /\ held'[b] = held[b] + cash[b]
                          /\ delta.cash[b] \in Int /\ held[b] \in Int
  BY DeltaStep DEF SalesInv
<1>2. /\ entry # NoEntry
      /\ \A b \in Boxes : held[b] = Sum(entry.lines[b]) + delta.cash[b]
      /\ \A b \in Boxes : Len(trail[b]) >= Len(entry.lines[b])
      /\ trail # NoRows
      /\ ~reposted => trail = entry.lines
  BY DEF SalesInv, LiveBooks
<1>3. entry.lines \in [Boxes -> Seq(Nat)]
  BY <1>2 DEF SalesInv, Typed, SalesTypeOK, Entries
<1>4. ASSUME NEW b \in Boxes
      PROVE  held'[b] = Sum(entry.lines[b]) + delta'.cash[b]
  <2>1. Sum(entry.lines[b]) \in Int
    <3>1. entry.lines[b] \in Seq(Int)
      BY <1>3
    <3>2. Sum(entry.lines[b]) \in Int
      BY <3>1, RowsFinite, SumIsInt, SumIsOver
    <3> QED
      BY <3>2
  <2>2. /\ delta'.cash[b] = delta.cash[b] + cash[b]
        /\ held'[b] = held[b] + cash[b]
        /\ held[b] = Sum(entry.lines[b]) + delta.cash[b]
        /\ delta.cash[b] \in Int /\ cash[b] \in Int
    BY <1>1, <1>2, <1>4
  <2> QED
    BY ONLY <2>1, <2>2
<1> QED
  BY <1>1, <1>2, <1>4 DEF LiveBooks

(* Pieces leave the shelf or come back. *)
LEMMA MovementTyped ==
  ASSUME Typed, NEW n \in Int, Movement(n)
  PROVE  onHand' \in Nat /\ moved' \in Int /\ moved' = moved + n
BY DEF Typed, SalesTypeOK, Movement

(* What an edit takes from the shelf is what the items gained. *)
LEMMA StockFollows ==
  ASSUME SalesInv, NEW qty \in Nat, status = "paid", status' = "paid",
         items'.qty = qty, moved' = moved + (items.qty - qty)
  PROVE  StockMatchesItems'
<1>1. moved = -items.qty /\ items.qty \in Nat
  BY DEF SalesInv, Typed, SalesTypeOK, StockMatchesItems
<1>2. moved' = -qty
  BY ONLY <1>1, moved' = moved + (items.qty - qty), qty \in Nat
<1> QED
  BY <1>2 DEF StockMatchesItems

-----------------------------------------------------------------------------
(* The sale. *)
LEMMA CreateKeeps ==
  ASSUME SalesInv, NEW r \in Requests, Create(r)
  PROVE  SalesInv'
<1> DEFINE e == Entry(r.pay, r.items.revenue, Total(r.pay))
<1>1. /\ payments = NoRows /\ delta = NoDelta /\ asked = Nothing
      /\ voiding = "no" /\ ~reposted /\ ~drift /\ moved = 0
  BY DEF Create, SalesInv, Untouched, StockMatchesItems
<1>2. /\ status' = "paid" /\ items' = r.items
      /\ grand' = r.items.revenue /\ paid' = Total(r.pay) /\ payments' = r.pay
      /\ entry' = e /\ trail' = r.pay /\ held' = Sums(r.pay)
      /\ delta' = delta /\ edits' = edits /\ voiding' = voiding
      /\ asked' = asked /\ reposted' = reposted /\ drift' = drift
      /\ Movement(-r.items.qty)
      /\ Total(r.pay) >= r.items.revenue
      /\ Balanced(r.pay, r.items.revenue, Total(r.pay))
  BY DEF Create, past
<1>3. /\ r.items \in [rows : Nat, qty : Nat, revenue : Nat]
      /\ r.items.revenue \in Nat /\ r.items.revenue > 0 /\ r.items.qty \in Nat
      /\ Total(r.pay) \in Nat /\ r.pay \in [Boxes -> PayRows]
      /\ \A b \in Boxes : Sum(r.pay[b]) \in Nat
      /\ Total(r.pay) = Sum(r.pay[Drawer]) + Sum(r.pay[Bank])
  BY RequestType, Figures DEF SalesInv
<1>4. /\ r.pay \in [Boxes -> Seq(Nat)] /\ r.pay \in [Boxes -> Seq(Int)]
      /\ Sums(r.pay) \in [Boxes -> Nat]
  BY <1>3, SumPayRows DEF Sums
<1>5. /\ e.lines = r.pay /\ e.ar \in Nat /\ e.revenue = r.items.revenue
      /\ e \in Entries
      /\ Total(r.pay) + e.ar = r.items.revenue
  BY <1>2, <1>3, <1>4 DEF Entry, Entries, Balanced
<1>6. onHand' \in Nat /\ moved' = -r.items.qty
  BY <1>1, <1>2, <1>3, MovementTyped DEF SalesInv
<1> HIDE DEF e
<1>7. Typed'
  <2>1. /\ status' \in {"none", "paid", "cancelled"}
        /\ items' \in [rows : Nat, qty : Nat, revenue : Nat]
        /\ grand' \in Nat /\ paid' \in Nat /\ payments' \in [Boxes -> Seq(Nat)]
    <3>1. items' = r.items /\ payments' = r.pay
      BY <1>2
    <3>2. items' \in [rows : Nat, qty : Nat, revenue : Nat]
      BY <1>3, <3>1
    <3>3. payments' \in [Boxes -> Seq(Nat)]
      BY <1>4, <3>1
    <3>4. grand' \in Nat /\ paid' \in Nat
      BY <1>2, <1>3
    <3> QED
      BY <1>2, <3>2, <3>3, <3>4
  <2>2. /\ entry' \in Entries \cup {NoEntry} /\ trail' \in [Boxes -> Seq(Int)]
        /\ held' \in [Boxes -> Int] /\ onHand' \in Nat /\ moved' \in Int
    <3>1. entry' \in Entries \cup {NoEntry}
      BY <1>2, <1>5
    <3>2. trail' \in [Boxes -> Seq(Int)]
      BY <1>2, <1>4
    <3>3. held' \in [Boxes -> Int]
      <4>1. Sums(r.pay) \in [Boxes -> Int]
        BY <1>4
      <4> QED
        BY <1>2, <4>1
    <3> QED
      BY <1>6, <3>1, <3>2, <3>3
  <2>3. /\ delta' \in [cash : [Boxes -> Int], ar : Int, revenue : Int]
        /\ edits' \in 0 .. MaxEdits
        /\ voiding' \in {"no", "reversing", "answered", "crashed"}
        /\ asked' \in [revenue : Nat, pay : [Boxes -> Nat]] \cup {Nothing}
        /\ reposted' \in BOOLEAN /\ drift' \in BOOLEAN
    BY <1>2 DEF SalesInv, Typed, SalesTypeOK
  <2>4. PayTyped' /\ Received'
    BY <1>2, <1>3 DEF PayTyped, Received, Total
  <2> QED
    BY <2>1, <2>2, <2>3, <2>4 DEF Typed, SalesTypeOK
<1>8. e # NoEntry
  BY <1>5, SalesAssumption
<1>9. \A b \in Boxes : delta.cash[b] = 0 /\ delta.ar = 0 /\ delta.revenue = 0
  BY <1>1 DEF NoDelta
<1>10. r.pay # NoRows
  <2>1. ASSUME r.pay = NoRows
        PROVE  FALSE
    <3>1. r.pay[Drawer] = << >> /\ r.pay[Bank] = << >>
      BY <2>1 DEF NoRows, Boxes
    <3>2. Total(r.pay) = 0 + 0
      BY <1>3, <3>1, SumNone
    <3> QED
      BY <1>2, <1>3, <3>2
  <2> QED
    BY <2>1
<1>11. Untouched' /\ Reversing' /\ VoidReturnsTheMoney' /\ EditedAsAsked'
  BY <1>1, <1>2 DEF Untouched, Reversing, VoidReturnsTheMoney, EditedAsAsked
<1>12. LiveBooks'
  <2>1. \A b \in Boxes : held'[b] = Sum(r.pay[b])
    BY <1>2 DEF Sums
  <2>2. \A b \in Boxes : Len(r.pay[b]) >= Len(r.pay[b])
    BY <1>4
  <2> QED
    BY <1>2, <1>3, <1>5, <1>8, <1>9, <1>10, <2>1, <2>2 DEF LiveBooks
<1>13. BooksMatchInvoice'
  <2>1. e.revenue + 0 = r.items.revenue /\ e.ar + 0 = r.items.revenue - Total(r.pay)
        /\ Total(r.pay) <= r.items.revenue
    BY <1>3, <1>5
  <2>2. held' = Sums(payments)'
    BY <1>2 DEF Sums
  <2>3. entry'.revenue + delta'.revenue = grand' /\ entry'.ar + delta'.ar = grand' - paid'
        /\ paid' <= grand'
    BY <1>2, <1>9, <2>1 DEF Boxes
  <2> QED
    BY <2>2, <2>3 DEF BooksMatchInvoice, Sums
<1>14. StockMatchesItems'
  BY <1>2, <1>6 DEF StockMatchesItems
<1> QED
  BY <1>7, <1>11, <1>12, <1>13, <1>14 DEF SalesInv

-----------------------------------------------------------------------------
(* The edits that post a delta.                                              *)

LEMMA DeltaTyped ==
  ASSUME SalesInv, NEW r \in Requests, Editable, Edited(r),
         NEW cash \in [Boxes -> Int], NEW ar \in Int, NEW revenue \in Int,
         AddDelta(cash, ar, revenue),
         items' \in [rows : Nat, qty : Nat, revenue : Nat], grand' \in Nat,
         payments' \in [Boxes -> PayRows], paid' = Total(payments'),
         onHand' \in Nat, moved' \in Int, reposted' = reposted, drift' \in BOOLEAN
  PROVE  Typed'
<1>1. /\ delta' \in [cash : [Boxes -> Int], ar : Int, revenue : Int]
      /\ held' \in [Boxes -> Int] /\ entry' = entry /\ trail' = trail
  BY DeltaStep DEF SalesInv
<1>2. /\ status' = "paid" /\ voiding' = "no" /\ edits' \in 0 .. MaxEdits
      /\ asked' \in [revenue : Nat, pay : [Boxes -> Nat]] \cup {Nothing}
  BY EditFrame
<1>3. \A b \in Boxes : payments'[b] \in Seq(Nat) /\ Sum(payments'[b]) \in Nat
  BY SumPayRows
<1>4. payments' \in [Boxes -> Seq(Nat)]
  BY <1>3
<1>5. paid' \in Nat
  <2>1. Sum(payments'[Drawer]) \in Nat /\ Sum(payments'[Bank]) \in Nat
    BY <1>3 DEF Boxes
  <2>2. paid' = Sum(payments'[Drawer]) + Sum(payments'[Bank])
    BY DEF Total
  <2> QED
    BY ONLY <2>1, <2>2
<1>6. /\ entry' \in Entries \cup {NoEntry} /\ trail' \in [Boxes -> Seq(Int)]
      /\ reposted' \in BOOLEAN
  BY <1>1 DEF SalesInv, Typed, SalesTypeOK
<1>7. SalesTypeOK'
  BY <1>1, <1>2, <1>4, <1>5, <1>6 DEF SalesTypeOK
<1>8. PayTyped' /\ Received'
  BY DEF PayTyped, Received, Total
<1> QED
  BY <1>7, <1>8 DEF Typed

(* The books of a live invoice that nothing inexact was done to. *)
LEMMA LiveMatch ==
  ASSUME SalesInv, status = "paid", ~drift
  PROVE  /\ \A b \in Boxes : held[b] = Sum(payments[b])
         /\ entry.revenue + delta.revenue = grand
         /\ entry.ar + delta.ar = grand - paid /\ paid <= grand
         /\ entry.ar \in Nat /\ entry.revenue \in Nat
<1>1. entry # NoEntry
  BY DEF SalesInv, LiveBooks
<1>2. entry.ar \in Nat /\ entry.revenue \in Nat
  BY <1>1 DEF SalesInv, Typed, SalesTypeOK, Entries
<1>3. /\ held = Sums(payments) /\ entry.revenue + delta.revenue = grand
      /\ entry.ar + delta.ar = grand - paid /\ paid <= grand
  BY DEF SalesInv, BooksMatchInvoice
<1> QED
  BY <1>2, <1>3 DEF Sums

(* One more payment: the bucket it goes to has the sum it had and the rest. *)
LEMMA MonetaryRows ==
  ASSUME SalesInv, NEW r \in Requests, NEW b \in Boxes, EditMonetary(r, b),
         NEW more, more = Total(r.pay) - paid
  PROVE  /\ more \in Nat
         /\ payments' \in [Boxes -> PayRows]
         /\ \A c \in Boxes : Sum(payments'[c]) = Sum(payments[c])
                                                   + (IF c = b THEN more ELSE 0)
         /\ payments' = NoRows => more = 0 /\ payments = NoRows
<1>1. /\ more >= 0
      /\ payments' = IF more > 0 THEN [payments EXCEPT ![b] = Append(@, more)]
                                 ELSE payments
  BY Figures DEF EditMonetary, MonetaryOnly, SalesInv
<1>2. more \in Nat
  BY <1>1, Figures DEF SalesInv
<1>3. payments \in [Boxes -> PayRows]
  BY DEF SalesInv, Typed, PayTyped
<1>4. CASE more = 0
  <2>1. payments' = payments
    BY <1>1, <1>4
  <2>2. \A c \in Boxes : Sum(payments[c]) = Sum(payments[c]) + 0
    BY Figures DEF SalesInv
  <2> QED
    BY <1>2, <1>3, <1>4, <2>1, <2>2
<1>5. CASE more # 0
  <2>1. more \in Money /\ more > 0
    BY <1>2, <1>5 DEF Money
  <2>2. payments' = [payments EXCEPT ![b] = Append(payments[b], more)]
    BY <1>1, <2>1
  <2>3. payments[b] \in PayRows
    BY <1>3
  <2>4. Append(payments[b], more) \in PayRows /\ Append(payments[b], more) # << >>
    BY <2>1, <2>3 DEF PayRows
  <2>5. Sum(Append(payments[b], more)) = Sum(payments[b]) + more
    BY <1>2, <2>3, SumPayRows, SumAppend
  <2>6. ASSUME NEW c \in Boxes
        PROVE  Sum(payments'[c]) = Sum(payments[c]) + (IF c = b THEN more ELSE 0)
    <3>1. CASE c = b
      BY <1>3, <2>2, <2>5, <3>1
    <3>2. CASE c # b
      <4>1. payments'[c] = payments[c] /\ Sum(payments[c]) \in Nat
        BY <1>3, <2>2, <3>2, SumPayRows
      <4> QED
        BY <3>2, <4>1
    <3> QED
      BY <3>1, <3>2
  <2>7. payments'[b] # << >>
    BY <1>3, <2>2, <2>4
  <2> QED
    BY <1>2, <1>3, <2>2, <2>4, <2>6, <2>7 DEF NoRows
<1> QED
  BY <1>4, <1>5

(* Of a plain edit, the one payment there was is the one the request has. *)
LEMMA MonetaryPlain ==
  ASSUME SalesInv, NEW r \in Requests, NEW b \in Boxes, EditMonetary(r, b), Plain(r)
  PROVE  Sums(payments') = Sums(r.pay)
<1> DEFINE more == Total(r.pay) - paid
<1>1. PICK c \in Boxes : /\ Len(payments[c]) = 1
                         /\ \A d \in Boxes \ {c} : payments[d] = << >>
  BY OneRow DEF Plain, SalesInv
<1>2. PICK d \in Boxes : d # c /\ Boxes = {c, d}
  BY SalesAssumption DEF Boxes
<1>3. /\ Sum(payments[c]) \in Nat /\ payments[d] = << >> /\ Sum(payments[d]) = 0
      /\ Sum(r.pay[c]) \in Nat /\ Sum(r.pay[d]) \in Nat
      /\ r.pay[d] \in PayRows
      /\ paid = Total(payments)
  BY <1>1, <1>2, Figures, SumNone DEF SalesInv
<1>4. r.pay[d] = << >> /\ Sum(r.pay[d]) = 0
  <2>1. Len(r.pay[d]) = Len(payments[d])
    BY DEF EditMonetary, MonetaryOnly, SameShape
  <2>2. r.pay[d] = << >>
    BY <1>3, <2>1 DEF PayRows
  <2> QED
    BY <2>2, SumNone
<1>5. Total(payments) = Sum(payments[c]) + Sum(payments[d])
      /\ Total(r.pay) = Sum(r.pay[c]) + Sum(r.pay[d])
  <2>1. (c = Drawer /\ d = Bank) \/ (c = Bank /\ d = Drawer)
    BY <1>2 DEF Boxes
  <2> QED
    BY <1>3, <2>1 DEF Total
<1>6. Sum(r.pay[c]) = Sum(payments[c]) + more
  BY <1>3, <1>4, <1>5
<1>7. more # 0 => b = c
  <2>1. more > 0 => payments[b] # << >>
    BY DEF EditMonetary
  <2>2. more \in Nat
    BY MonetaryRows
  <2> QED
    BY <1>1, <1>2, <2>1, <2>2
<1>8. /\ more \in Nat
      /\ \A e \in Boxes : Sum(payments'[e]) = Sum(payments[e])
                                                + (IF e = b THEN more ELSE 0)
  BY MonetaryRows
<1> HIDE DEF more
<1>9. Sum(payments'[c]) = Sum(r.pay[c]) /\ Sum(payments'[d]) = Sum(r.pay[d])
  BY <1>2, <1>3, <1>4, <1>6, <1>7, <1>8
<1> QED
  BY <1>2, <1>9 DEF Sums

LEMMA MonetaryKeeps ==
  ASSUME SalesInv, NEW r \in Requests, NEW b \in Boxes, EditMonetary(r, b)
  PROVE  SalesInv'
<1> DEFINE more == Total(r.pay) - paid
           cash == [c \in Boxes |-> IF c = b THEN more ELSE 0]
<1>1. /\ Editable /\ Edited(r) /\ AddDelta(cash, 0, more)
      /\ grand' = r.items.revenue /\ paid' = Total(r.pay)
      /\ items' = items /\ onHand' = onHand /\ moved' = moved
      /\ reposted' = reposted /\ drift' = drift
      /\ r.items.revenue - grand = more
  BY DEF EditMonetary, MonetaryOnly, shelf
<1>2. /\ more \in Nat
      /\ payments' \in [Boxes -> PayRows]
      /\ \A c \in Boxes : Sum(payments'[c]) = Sum(payments[c])
                                                + (IF c = b THEN more ELSE 0)
      /\ payments' = NoRows => more = 0 /\ payments = NoRows
  BY MonetaryRows
<1>3. /\ paid = Total(payments) /\ paid \in Nat /\ grand \in Nat
      /\ r.items.revenue \in Nat /\ Total(r.pay) \in Nat
      /\ Total(payments) = Sum(payments[Drawer]) + Sum(payments[Bank])
      /\ \A c \in Boxes : Sum(payments[c]) \in Nat
  BY Figures DEF SalesInv
<1>4. Total(r.pay) = paid + more /\ r.items.revenue = grand + more
  BY <1>1, <1>3
<1>5. status = "paid" /\ status' = "paid"
  BY <1>1, EditFrame
<1> HIDE DEF more
<1>6. paid' = Total(payments')
  BY <1>1, <1>2, <1>3, <1>4, SalesAssumption DEF Total, Boxes
<1>7. cash \in [Boxes -> Int] /\ \A c \in Boxes : cash[c] = IF c = b THEN more ELSE 0
  BY <1>2
<1> HIDE DEF cash
<1>8. /\ entry' = entry
      /\ \A c \in Boxes : /\ delta'.cash[c] = delta.cash[c] + cash[c]
                          /\ held'[c] = held[c] + cash[c]
                          /\ delta.cash[c] \in Int
      /\ delta'.ar = delta.ar + 0 /\ delta'.revenue = delta.revenue + more
      /\ delta.ar \in Int /\ delta.revenue \in Int /\ held' \in [Boxes -> Int]
  BY <1>1, <1>2, <1>7, DeltaStep DEF SalesInv
<1>9. Typed'
  <2>1. items' \in [rows : Nat, qty : Nat, revenue : Nat] /\ grand' \in Nat
        /\ onHand' \in Nat /\ moved' \in Int /\ drift' \in BOOLEAN
    BY <1>1, <1>3 DEF SalesInv, Typed, SalesTypeOK
  <2>2. cash \in [Boxes -> Int] /\ 0 \in Int /\ more \in Int
    BY <1>2, <1>7
  <2>3. Editable /\ Edited(r) /\ AddDelta(cash, 0, more) /\ reposted' = reposted
    BY <1>1
  <2>4. payments' \in [Boxes -> PayRows] /\ paid' = Total(payments')
    BY <1>2, <1>6
  <2> QED
    BY <2>1, <2>2, <2>3, <2>4, DeltaTyped
<1>10. LiveBooks'
  <2>1. ~drift /\ payments = NoRows => \A c \in Boxes : delta.cash[c] = 0
    BY <1>5 DEF SalesInv, LiveBooks
  <2>2. ~drift' /\ payments' = NoRows => \A c \in Boxes : delta'.cash[c] = 0
    BY <1>1, <1>2, <1>7, <1>8, <2>1
  <2> QED
    BY <1>1, <1>2, <1>5, <1>7, <2>2, DeltaBooks
<1>11. BooksMatchInvoice'
  <2> SUFFICES ASSUME ~drift
               PROVE  BooksMatchInvoice'
    BY <1>1 DEF BooksMatchInvoice
  <2>1. /\ \A c \in Boxes : held[c] = Sum(payments[c])
        /\ entry.revenue + delta.revenue = grand
        /\ entry.ar + delta.ar = grand - paid /\ paid <= grand
        /\ entry.ar \in Nat /\ entry.revenue \in Nat
    BY <1>5, LiveMatch
  <2>2. \A c \in Boxes : held'[c] = Sum(payments'[c])
    BY <1>2, <1>7, <1>8, <2>1
  <2>3. held' = Sums(payments)'
    BY <1>8, <2>2 DEF Sums
  <2>4. /\ entry'.revenue + delta'.revenue = grand'
        /\ entry'.ar + delta'.ar = grand' - paid' /\ paid' <= grand'
    BY <1>1, <1>2, <1>3, <1>4, <1>8, <2>1
  <2> QED
    BY <2>3, <2>4 DEF BooksMatchInvoice
<1>12. StockMatchesItems'
  BY <1>1, <1>5 DEF SalesInv, StockMatchesItems
<1>13. Untouched' /\ Reversing' /\ VoidReturnsTheMoney' /\ EditedAsAsked'
  <2>1. Plain(r) => grand' = r.items.revenue /\ Sums(payments') = Sums(r.pay)
    BY <1>1, MonetaryPlain
  <2> QED
    BY <1>1, <2>1, EditFrame
<1> QED
  BY <1>9, <1>10, <1>11, <1>12, <1>13 DEF SalesInv

-----------------------------------------------------------------------------
(* A redistribution leaves each bucket with what the request has, unless one *)
(* of the buckets it changed had more than one row.                          *)
LEMMA RedistributeRows ==
  ASSUME SalesInv, NEW r \in Requests, EditRedistribute(r)
  PROVE  /\ payments' \in [Boxes -> PayRows]
         /\ (\A b \in Changed(r) : Len(payments[b]) <= 1) =>
              /\ \A b \in Boxes : Sum(payments'[b]) = Sum(r.pay[b])
              /\ Sums(payments') = Sums(r.pay) /\ Total(payments') = Total(r.pay)
<1>1. PICK first \in [Boxes -> 1 .. 3] :
        /\ \A b \in Boxes : first[b] \in DOMAIN payments[b] \/ first[b] = 1
        /\ payments' = [b \in Boxes |-> Redistributed(payments, r, b, first[b])]
  BY DEF EditRedistribute
<1>2. ASSUME NEW b \in Boxes
      PROVE  /\ payments'[b] \in PayRows
             /\ Len(payments[b]) <= 1 \/ Change(r, b) = 0 =>
                  Sum(payments'[b]) = Sum(r.pay[b])
  <2>1. /\ first[b] \in 1 .. 3 /\ (first[b] \in DOMAIN payments[b] \/ first[b] = 1)
        /\ payments'[b] = Redistributed(payments, r, b, first[b])
    BY <1>1
  <2> QED
    BY <2>1, RedistributedRows DEF SalesInv
<1>3. payments' \in [Boxes -> PayRows]
  BY <1>1, <1>2
<1>4. ASSUME \A b \in Changed(r) : Len(payments[b]) <= 1
      PROVE  /\ \A b \in Boxes : Sum(payments'[b]) = Sum(r.pay[b])
             /\ Sums(payments') = Sums(r.pay) /\ Total(payments') = Total(r.pay)
  <2>1. \A b \in Boxes : Sum(payments'[b]) = Sum(r.pay[b])
    BY <1>2, <1>4 DEF Changed
  <2> QED
    BY <2>1 DEF Sums, Total, Boxes
<1> QED
  BY <1>3, <1>4

LEMMA RedistributeKeeps ==
  ASSUME SalesInv, NEW r \in Requests, EditRedistribute(r)
  PROVE  SalesInv'
<1> DEFINE cash == [b \in Boxes |-> Change(r, b)]
<1>1. /\ Editable /\ Edited(r) /\ AddDelta(cash, 0, 0)
      /\ grand' = items.revenue /\ paid' = Total(payments')
      /\ items' = items /\ onHand' = onHand /\ moved' = moved
      /\ reposted' = reposted
      /\ drift' = (drift \/ items.revenue # grand
                         \/ \E b \in Changed(r) : Len(payments[b]) > 1)
      /\ Total(r.pay) = paid /\ Total(r.pay) = grand
      /\ Changed(r) # {} /\ Total(r.pay) = Total(payments)
  BY DEF EditRedistribute, Redistribution, shelf
<1>2. /\ paid = Total(payments) /\ paid \in Nat /\ grand \in Nat
      /\ items.revenue \in Nat
      /\ Total(payments) = Sum(payments[Drawer]) + Sum(payments[Bank])
      /\ Total(r.pay) = Sum(r.pay[Drawer]) + Sum(r.pay[Bank])
      /\ \A b \in Boxes : /\ payments[b] \in PayRows /\ r.pay[b] \in PayRows
                          /\ Sum(payments[b]) \in Nat /\ Sum(r.pay[b]) \in Nat
                          /\ Change(r, b) \in Int
                          /\ Sum(r.pay[b]) = Sum(payments[b]) + Change(r, b)
  BY Figures DEF SalesInv
<1>3. status = "paid" /\ status' = "paid"
  BY <1>1, EditFrame
<1>4. \A b \in Boxes : Len(payments[b]) \in Nat
  BY <1>2, SumPayRows
<1>5. ~drift' => /\ ~drift /\ items.revenue = grand
                 /\ \A b \in Changed(r) : Len(payments[b]) <= 1
  <2>1. Changed(r) \subseteq Boxes
    BY DEF Changed
  <2>2. \A b \in Changed(r) : ~(Len(payments[b]) > 1) => Len(payments[b]) <= 1
    BY <1>4, <2>1
  <2>3. ~drift' => /\ ~drift /\ items.revenue = grand
                   /\ \A b \in Changed(r) : ~(Len(payments[b]) > 1)
    BY <1>1, Zenon
  <2> QED
    BY <2>2, <2>3
<1>6. /\ payments' \in [Boxes -> PayRows]
      /\ (\A b \in Changed(r) : Len(payments[b]) <= 1) =>
           /\ \A b \in Boxes : Sum(payments'[b]) = Sum(r.pay[b])
           /\ Sums(payments') = Sums(r.pay) /\ Total(payments') = Total(r.pay)
  BY RedistributeRows
<1>7. cash \in [Boxes -> Int] /\ \A b \in Boxes : cash[b] = Change(r, b)
  BY <1>2
<1> HIDE DEF cash
<1>8. /\ entry' = entry
      /\ \A b \in Boxes : /\ delta'.cash[b] = delta.cash[b] + cash[b]
                          /\ held'[b] = held[b] + cash[b]
                          /\ delta.cash[b] \in Int
      /\ delta'.ar = delta.ar + 0 /\ delta'.revenue = delta.revenue + 0
      /\ delta.ar \in Int /\ delta.revenue \in Int /\ held' \in [Boxes -> Int]
  BY <1>1, <1>7, DeltaStep DEF SalesInv
<1>9. Typed'
  <2>1. items' \in [rows : Nat, qty : Nat, revenue : Nat] /\ grand' \in Nat
        /\ onHand' \in Nat /\ moved' \in Int /\ drift' \in BOOLEAN
    BY <1>1, <1>2 DEF SalesInv, Typed, SalesTypeOK
  <2>2. cash \in [Boxes -> Int] /\ 0 \in Int
    BY <1>7
  <2>3. /\ Editable /\ Edited(r) /\ AddDelta(cash, 0, 0) /\ reposted' = reposted
        /\ payments' \in [Boxes -> PayRows] /\ paid' = Total(payments')
    BY <1>1, <1>6
  <2> QED
    BY <2>1, <2>2, <2>3, DeltaTyped
<1>10. LiveBooks'
  <2>1. ASSUME ~drift', payments' = NoRows
        PROVE  FALSE
    <3>1. PICK b \in Boxes : Change(r, b) # 0
      BY <1>1 DEF Changed
    <3>2. \A c \in Boxes : Sum(r.pay[c]) = 0
      <4>1. \A c \in Boxes : Sum(payments'[c]) = 0
        BY <2>1, SumNone DEF NoRows
      <4> QED
        BY <1>5, <1>6, <2>1, <4>1
    <3>3. Total(payments) = 0
      BY <1>1, <1>2, <3>2 DEF Boxes
    <3>4. Sum(payments[Drawer]) = 0 /\ Sum(payments[Bank]) = 0
      BY <1>2, <3>3 DEF Boxes
    <3>5. Sum(payments[b]) = 0
      BY <3>1, <3>4 DEF Boxes
    <3>6. Sum(r.pay[b]) = 0
      BY <3>1, <3>2
    <3>7. /\ Change(r, b) \in Int
          /\ Sum(r.pay[b]) = Sum(payments[b]) + Change(r, b)
      BY <1>2, <3>1
    <3> QED
      BY <3>1, <3>5, <3>6, <3>7
  <2>2. 0 \in Int
    OBVIOUS
  <2> QED
    BY <1>1, <1>3, <1>7, <2>1, <2>2, DeltaBooks
<1>11. BooksMatchInvoice'
  <2> SUFFICES ASSUME ~drift'
               PROVE  BooksMatchInvoice'
    BY DEF BooksMatchInvoice
  <2>1. /\ \A b \in Boxes : held[b] = Sum(payments[b])
        /\ entry.revenue + delta.revenue = grand
        /\ entry.ar + delta.ar = grand - paid /\ paid <= grand
    BY <1>3, <1>5, LiveMatch
  <2>2. \A b \in Boxes : held'[b] = Sum(payments'[b])
    BY <1>2, <1>5, <1>6, <1>7, <1>8, <2>1
  <2>3. held' = Sums(payments)'
    BY <1>8, <2>2 DEF Sums
  <2>4. grand' = grand /\ paid' = paid
    BY <1>1, <1>5, <1>6
  <2>5. /\ entry'.revenue + delta'.revenue = grand'
        /\ entry'.ar + delta'.ar = grand' - paid' /\ paid' <= grand'
    BY <1>8, <2>1, <2>4
  <2> QED
    BY <2>3, <2>5 DEF BooksMatchInvoice
<1>12. StockMatchesItems'
  BY <1>1, <1>3 DEF SalesInv, StockMatchesItems
<1>13. Untouched' /\ Reversing' /\ VoidReturnsTheMoney' /\ EditedAsAsked'
  <2>1. ASSUME Plain(r)
        PROVE  grand' = r.items.revenue /\ Sums(payments') = Sums(r.pay)
    <3>1. PICK c \in Boxes : /\ Len(payments[c]) = 1
                             /\ \A d \in Boxes \ {c} : payments[d] = << >>
      BY <2>1, OneRow DEF Plain, SalesInv
    <3>2. \A b \in Changed(r) : Len(payments[b]) <= 1
      <4>1. Len(<< >>) = 0 /\ Changed(r) \subseteq Boxes
        BY DEF Changed
      <4>2. \A b \in Changed(r) : Len(payments[b]) = 1 \/ Len(payments[b]) = 0
        BY <3>1, <4>1, Zenon
      <4>3. \A n : n = 1 \/ n = 0 => n <= 1
        OBVIOUS
      <4> QED
        BY <4>2, <4>3, Zenon
    <3>3. grand' = r.items.revenue
      BY <1>1, <2>1 DEF Plain
    <3> QED
      BY <1>6, <3>2, <3>3
  <2> QED
    BY <1>1, <2>1, EditFrame
<1> QED
  BY <1>9, <1>10, <1>11, <1>12, <1>13 DEF SalesInv

-----------------------------------------------------------------------------
(* A positive edit brings each bucket to what the request has. *)
LEMMA PositiveRows ==
  ASSUME SalesInv, NEW r \in Requests, EditPositive(r)
  PROVE  /\ payments' \in [Boxes -> PayRows]
         /\ \A b \in Boxes : Sum(payments'[b]) = Sum(r.pay[b])
         /\ payments' = NoRows =>
              payments = NoRows /\ \A b \in Boxes : Change(r, b) = 0
<1>1. /\ payments' = [b \in Boxes |-> IF Change(r, b) > 0
                                      THEN Append(payments[b], Change(r, b))
                                      ELSE payments[b]]
      /\ \A b \in Boxes : Change(r, b) >= 0
  BY DEF EditPositive, Positive
<1>2. \A b \in Boxes : /\ payments[b] \in PayRows /\ Change(r, b) \in Int
                       /\ Sum(payments[b]) \in Nat
                       /\ Sum(r.pay[b]) = Sum(payments[b]) + Change(r, b)
  BY Figures DEF SalesInv
<1>3. ASSUME NEW b \in Boxes
      PROVE  /\ payments'[b] \in PayRows /\ Sum(payments'[b]) = Sum(r.pay[b])
             /\ payments'[b] = << >> => payments[b] = << >> /\ Change(r, b) = 0
  <2>1. CASE Change(r, b) > 0
    <3>1. payments'[b] = Append(payments[b], Change(r, b))
      BY <1>1, <2>1
    <3>2. /\ Append(payments[b], Change(r, b)) \in PayRows
          /\ Append(payments[b], Change(r, b)) # << >>
      BY <1>2, <2>1 DEF PayRows, Money
    <3>3. Sum(Append(payments[b], Change(r, b))) = Sum(payments[b]) + Change(r, b)
      BY <1>2, SumPayRows, SumAppend
    <3> QED
      BY <1>2, <3>1, <3>2, <3>3
  <2>2. CASE Change(r, b) = 0
    BY <1>1, <1>2, <2>2
  <2> QED
    BY <1>1, <1>2, <2>1, <2>2
<1>4. payments' \in [Boxes -> PayRows]
  BY <1>1, <1>3
<1>5. ASSUME payments' = NoRows
      PROVE  payments = NoRows /\ \A b \in Boxes : Change(r, b) = 0
  <2>1. \A b \in Boxes : payments'[b] = << >>
    BY <1>5 DEF NoRows
  <2>2. \A b \in Boxes : payments[b] = << >> /\ Change(r, b) = 0
    BY <1>3, <2>1
  <2>3. payments \in [Boxes -> PayRows]
    BY DEF SalesInv, Typed, PayTyped
  <2> QED
    BY <2>2, <2>3 DEF NoRows
<1> QED
  BY <1>3, <1>4, <1>5

LEMMA PositiveKeeps ==
  ASSUME SalesInv, NEW r \in Requests, EditPositive(r)
  PROVE  SalesInv'
<1> DEFINE cash    == [b \in Boxes |-> Change(r, b)]
           revenue == r.items.revenue - items.revenue
           more    == Total(r.pay) - Total(payments)
<1>0. /\ Editable /\ Edited(r)
      /\ grand' = grand + revenue /\ paid' = paid + more
      /\ Movement(-(r.items.qty - items.qty))
      /\ reposted' = reposted
      /\ r.items.qty > items.qty
      /\ r.items.revenue > items.revenue /\ revenue >= more
      /\ \A b \in Boxes : Change(r, b) >= 0
  BY DEF EditPositive, Positive
<1>2. /\ paid = Total(payments) /\ paid \in Nat /\ grand \in Nat
      /\ items.rows \in Nat /\ items.qty \in Nat /\ items.revenue \in Nat
      /\ r.items.qty \in Nat /\ r.items.revenue \in Nat
      /\ Total(payments) \in Nat /\ Total(r.pay) \in Nat
      /\ Total(payments) = Sum(payments[Drawer]) + Sum(payments[Bank])
      /\ Total(r.pay) = Sum(r.pay[Drawer]) + Sum(r.pay[Bank])
      /\ \A b \in Boxes : /\ Sum(payments[b]) \in Nat /\ Sum(r.pay[b]) \in Nat
                          /\ Change(r, b) \in Int
                          /\ Sum(r.pay[b]) = Sum(payments[b]) + Change(r, b)
  BY Figures DEF SalesInv
<1>1. PICK line \in Nat :
        /\ items' = [rows |-> items.rows + 1, qty |-> r.items.qty,
                     revenue |-> items.revenue + line]
        /\ AddDelta(cash, revenue - more, line)
        /\ drift' = (drift \/ line # revenue)
  <2>1. PICK unit \in UnitPrices(r) :
          /\ items' = [rows |-> items.rows + 1, qty |-> r.items.qty,
                       revenue |-> items.revenue
                                     + (r.items.qty - items.qty) * unit]
          /\ AddDelta(cash, revenue - more, (r.items.qty - items.qty) * unit)
          /\ drift' = (drift \/ (r.items.qty - items.qty) * unit # revenue)
    BY DEF EditPositive
  <2>2. unit \in Nat /\ r.items.qty - items.qty \in Nat
    BY <1>0, <1>2 DEF UnitPrices
  <2>3. (r.items.qty - items.qty) * unit \in Nat
    <3>1. \A p, u \in Nat : p * u \in Nat
      OBVIOUS
    <3> QED
      BY <2>2, <3>1
  <2> QED
    BY <2>1, <2>3
<1>3. status = "paid" /\ status' = "paid"
  BY <1>0, EditFrame
<1>4. /\ payments' \in [Boxes -> PayRows]
      /\ \A b \in Boxes : Sum(payments'[b]) = Sum(r.pay[b])
      /\ payments' = NoRows =>
           payments = NoRows /\ \A b \in Boxes : Change(r, b) = 0
  BY PositiveRows
<1>5. revenue \in Int /\ more \in Int /\ revenue - more \in Int
      /\ grand + revenue \in Nat
  BY <1>0, <1>2
<1>6. Total(payments') = Total(r.pay) /\ paid' = Total(payments')
  <2>1. Total(payments') = Total(r.pay)
    BY <1>4 DEF Total, Boxes
  <2> QED
    BY <1>0, <1>2, <2>1
<1>7. /\ items' \in [rows : Nat, qty : Nat, revenue : Nat]
      /\ items'.qty = r.items.qty
  BY <1>1, <1>2
<1>8. onHand' \in Nat /\ moved' \in Int /\ moved' = moved + (items.qty - r.items.qty)
  <2>1. /\ -(r.items.qty - items.qty) \in Int
        /\ -(r.items.qty - items.qty) = items.qty - r.items.qty
    BY <1>2
  <2> QED
    BY <1>0, <2>1, MovementTyped DEF SalesInv
<1>9. cash \in [Boxes -> Int] /\ \A b \in Boxes : cash[b] = Change(r, b)
  BY <1>2
<1> HIDE DEF cash, revenue, more
<1>10. /\ entry' = entry
       /\ \A b \in Boxes : /\ delta'.cash[b] = delta.cash[b] + cash[b]
                           /\ held'[b] = held[b] + cash[b]
                           /\ delta.cash[b] \in Int
       /\ delta'.ar = delta.ar + (revenue - more)
       /\ delta'.revenue = delta.revenue + line
       /\ delta.ar \in Int /\ delta.revenue \in Int /\ held' \in [Boxes -> Int]
  BY <1>1, <1>5, <1>9, DeltaStep DEF SalesInv
<1>11. Typed'
  <2>1. drift' \in BOOLEAN /\ grand' \in Nat
    BY <1>0, <1>1, <1>5 DEF SalesInv, Typed, SalesTypeOK
  <2>2. /\ Editable /\ Edited(r) /\ AddDelta(cash, revenue - more, line)
        /\ reposted' = reposted
    BY <1>0, <1>1
  <2> QED
    BY <1>4, <1>5, <1>6, <1>7, <1>8, <1>9, <2>1, <2>2, DeltaTyped
<1>12. LiveBooks'
  <2>1. ~drift /\ payments = NoRows => \A b \in Boxes : delta.cash[b] = 0
    BY <1>3 DEF SalesInv, LiveBooks
  <2>2. ~drift' /\ payments' = NoRows => \A b \in Boxes : delta'.cash[b] = 0
    <3> SUFFICES ASSUME ~drift', payments' = NoRows, NEW b \in Boxes
                 PROVE  delta'.cash[b] = 0
      OBVIOUS
    <3>1. ~drift
      BY <1>1
    <3>2. payments = NoRows /\ Change(r, b) = 0
      BY <1>4
    <3>3. delta.cash[b] = 0
      BY <2>1, <3>1, <3>2
    <3> QED
      BY <1>9, <1>10, <3>2, <3>3
  <2> QED
    BY <1>0, <1>1, <1>3, <1>5, <1>9, <2>2, DeltaBooks
<1>13. BooksMatchInvoice'
  <2> SUFFICES ASSUME ~drift, line = revenue
               PROVE  BooksMatchInvoice'
    BY <1>1 DEF BooksMatchInvoice
  <2>1. /\ \A b \in Boxes : held[b] = Sum(payments[b])
        /\ entry.revenue + delta.revenue = grand
        /\ entry.ar + delta.ar = grand - paid /\ paid <= grand
        /\ entry.ar \in Nat /\ entry.revenue \in Nat
    BY <1>3, LiveMatch
  <2>2. \A b \in Boxes : held'[b] = Sum(payments'[b])
    BY <1>2, <1>4, <1>9, <1>10, <2>1
  <2>3. held' = Sums(payments)'
    BY <1>10, <2>2 DEF Sums
  <2>4. /\ entry'.revenue + delta'.revenue = grand'
        /\ entry'.ar + delta'.ar = grand' - paid' /\ paid' <= grand'
    <3>1. /\ grand' = grand + revenue /\ paid' = paid + more
          /\ delta'.revenue = delta.revenue + revenue /\ revenue >= more
      BY <1>0, <1>10
    <3>2. entry' = entry /\ delta'.ar = delta.ar + (revenue - more)
          /\ delta.ar \in Int /\ delta.revenue \in Int
          /\ revenue \in Int /\ more \in Int /\ grand \in Nat /\ paid \in Nat
      BY <1>2, <1>5, <1>10
    <3>3. entry'.revenue + delta'.revenue = grand'
      BY <2>1, <3>1, <3>2
    <3>4. entry'.ar + delta'.ar = grand' - paid'
      BY <2>1, <3>1, <3>2
    <3>5. paid' <= grand'
      BY <2>1, <3>1, <3>2
    <3> QED
      BY <3>3, <3>4, <3>5
  <2> QED
    BY <2>3, <2>4 DEF BooksMatchInvoice
<1>14. StockMatchesItems'
  BY <1>2, <1>3, <1>7, <1>8, StockFollows
<1>15. Untouched' /\ Reversing' /\ VoidReturnsTheMoney' /\ EditedAsAsked'
  <2>1. ASSUME Plain(r)
        PROVE  grand' = r.items.revenue /\ Sums(payments') = Sums(r.pay)
    BY <1>0, <1>2, <1>4, <2>1 DEF Plain, Sums, revenue
  <2> QED
    BY <1>0, <2>1, EditFrame
<1> QED
  BY <1>11, <1>12, <1>13, <1>14, <1>15 DEF SalesInv

-----------------------------------------------------------------------------
(* A reduction leaves the payments, which are those of the request. *)
LEMMA ReduceKeeps ==
  ASSUME SalesInv, NEW r \in Requests, EditReduce(r)
  PROVE  SalesInv'
<1> DEFINE cash    == [b \in Boxes |-> 0]
           revenue == r.items.revenue - items.revenue
<1>1. /\ Editable /\ Edited(r) /\ AddDelta(cash, revenue, revenue)
      /\ grand' = grand + revenue /\ paid' = paid /\ payments' = payments
      /\ items' = [r.items EXCEPT !.rows = 1]
      /\ Movement(items.qty - r.items.qty)
      /\ reposted' = reposted /\ drift' = drift
      /\ paid <= grand + r.items.revenue - items.revenue
      /\ Total(r.pay) = paid /\ \A b \in Boxes : Change(r, b) >= 0
  BY DEF EditReduce, Owed
<1>2. /\ paid = Total(payments) /\ paid \in Nat /\ grand \in Nat
      /\ items.qty \in Nat /\ items.revenue \in Nat
      /\ r.items.qty \in Nat /\ r.items.revenue \in Nat
      /\ Total(payments) = Sum(payments[Drawer]) + Sum(payments[Bank])
      /\ Total(r.pay) = Sum(r.pay[Drawer]) + Sum(r.pay[Bank])
      /\ \A b \in Boxes : /\ Sum(payments[b]) \in Nat /\ Sum(r.pay[b]) \in Nat
                          /\ Change(r, b) \in Int
                          /\ Sum(r.pay[b]) = Sum(payments[b]) + Change(r, b)
  BY Figures DEF SalesInv
<1>3. status = "paid" /\ status' = "paid"
  BY <1>1, EditFrame
<1>4. \A b \in Boxes : Sum(payments[b]) = Sum(r.pay[b])
  <2>1. Drawer \in Boxes /\ Bank \in Boxes /\ \A b \in Boxes : b = Drawer \/ b = Bank
    BY DEF Boxes
  <2>2. /\ Change(r, Drawer) >= 0 /\ Change(r, Bank) >= 0
        /\ Change(r, Drawer) \in Int /\ Change(r, Bank) \in Int
    BY <1>1, <1>2, <2>1
  <2>3. Change(r, Drawer) + Change(r, Bank) = 0
    <3>1. /\ Sum(r.pay[Drawer]) = Sum(payments[Drawer]) + Change(r, Drawer)
          /\ Sum(r.pay[Bank]) = Sum(payments[Bank]) + Change(r, Bank)
          /\ Sum(payments[Drawer]) \in Nat /\ Sum(payments[Bank]) \in Nat
      BY <1>2, <2>1
    <3>2. Sum(r.pay[Drawer]) + Sum(r.pay[Bank])
            = Sum(payments[Drawer]) + Sum(payments[Bank])
      BY <1>1, <1>2
    <3> QED
      BY <2>2, <3>1, <3>2
  <2>4. Change(r, Drawer) = 0 /\ Change(r, Bank) = 0
    BY <2>2, <2>3
  <2> QED
    BY <1>2, <2>1, <2>4
<1>5. revenue \in Int /\ paid <= grand + revenue /\ grand + revenue \in Nat
  BY <1>1, <1>2
<1>6. /\ items' \in [rows : Nat, qty : Nat, revenue : Nat]
      /\ items'.qty = r.items.qty
  BY <1>1, <1>2, RequestType
<1>7. onHand' \in Nat /\ moved' \in Int /\ moved' = moved + (items.qty - r.items.qty)
  BY <1>1, <1>2, MovementTyped DEF SalesInv
<1>8. cash \in [Boxes -> Int] /\ \A b \in Boxes : cash[b] = 0
  OBVIOUS
<1> HIDE DEF cash, revenue
<1>9. /\ entry' = entry
      /\ \A b \in Boxes : /\ delta'.cash[b] = delta.cash[b] + cash[b]
                          /\ held'[b] = held[b] + cash[b]
                          /\ delta.cash[b] \in Int /\ held[b] \in Int
      /\ delta'.ar = delta.ar + revenue /\ delta'.revenue = delta.revenue + revenue
      /\ delta.ar \in Int /\ delta.revenue \in Int /\ held' \in [Boxes -> Int]
  BY <1>1, <1>5, <1>8, DeltaStep DEF SalesInv
<1>10. Typed'
  <2>1. /\ drift' \in BOOLEAN /\ grand' \in Nat /\ reposted' = reposted
        /\ payments' \in [Boxes -> PayRows] /\ paid' = Total(payments')
    BY <1>1, <1>2, <1>5 DEF SalesInv, Typed, SalesTypeOK, PayTyped
  <2>2. Editable /\ Edited(r) /\ AddDelta(cash, revenue, revenue)
    BY <1>1
  <2> QED
    BY <1>5, <1>6, <1>7, <1>8, <2>1, <2>2, DeltaTyped
<1>11. LiveBooks'
  <2>1. ~drift /\ payments = NoRows => \A b \in Boxes : delta.cash[b] = 0
    BY <1>3 DEF SalesInv, LiveBooks
  <2>2. ~drift' /\ payments' = NoRows => \A b \in Boxes : delta'.cash[b] = 0
    BY <1>1, <1>8, <1>9, <2>1
  <2> QED
    BY <1>1, <1>3, <1>5, <1>8, <2>2, DeltaBooks
<1>12. BooksMatchInvoice'
  <2> SUFFICES ASSUME ~drift
               PROVE  BooksMatchInvoice'
    BY <1>1 DEF BooksMatchInvoice
  <2>1. /\ \A b \in Boxes : held[b] = Sum(payments[b])
        /\ entry.revenue + delta.revenue = grand
        /\ entry.ar + delta.ar = grand - paid /\ paid <= grand
        /\ entry.ar \in Nat /\ entry.revenue \in Nat
    BY <1>3, LiveMatch
  <2>2. \A b \in Boxes : held'[b] = Sum(payments'[b])
    BY <1>1, <1>8, <1>9, <2>1
  <2>3. held' = Sums(payments)'
    BY <1>9, <2>2 DEF Sums
  <2>4. /\ entry'.revenue + delta'.revenue = grand'
        /\ entry'.ar + delta'.ar = grand' - paid' /\ paid' <= grand'
    BY <1>1, <1>2, <1>5, <1>9, <2>1
  <2> QED
    BY <2>3, <2>4 DEF BooksMatchInvoice
<1>13. StockMatchesItems'
  BY <1>2, <1>3, <1>6, <1>7, StockFollows
<1>14. Untouched' /\ Reversing' /\ VoidReturnsTheMoney' /\ EditedAsAsked'
  <2>1. ASSUME Plain(r)
        PROVE  grand' = r.items.revenue /\ Sums(payments') = Sums(r.pay)
    <3>1. items.revenue = grand
      BY <2>1 DEF Plain
    <3>2. grand' = r.items.revenue
      BY <1>1, <1>2, <3>1 DEF revenue
    <3> QED
      BY <1>1, <1>4, <3>2 DEF Sums
  <2> QED
    BY <1>1, <2>1, EditFrame
<1> QED
  BY <1>10, <1>11, <1>12, <1>13, <1>14 DEF SalesInv

-----------------------------------------------------------------------------
(* The legacy path posts the invoice anew. *)
LEMMA LegacyKeeps ==
  ASSUME SalesInv, NEW r \in Requests, EditLegacy(r)
  PROVE  SalesInv'
<1> DEFINE e       == Entry(r.pay, r.items.revenue, Total(r.pay))
           before  == Sums(entry.lines)
<1>1. /\ Editable /\ Edited(r)
      /\ Balanced(r.pay, r.items.revenue, Total(r.pay))
      /\ items' = r.items /\ payments' = r.pay
      /\ grand' = r.items.revenue /\ paid' = Total(r.pay)
      /\ Movement(items.qty - r.items.qty)
      /\ entry' = e
      /\ trail' = [b \in Boxes |-> trail[b] \o r.pay[b]]
      /\ held' = [b \in Boxes |-> held[b] - before[b] + Sum(r.pay[b])]
      /\ reposted' = TRUE /\ drift' = (drift \/ delta # NoDelta)
      /\ delta' = delta
  BY DEF EditLegacy
<1>2. /\ r.items \in [rows : Nat, qty : Nat, revenue : Nat]
      /\ r.items.revenue \in Nat /\ r.items.qty \in Nat /\ items.qty \in Nat
      /\ Total(r.pay) \in Nat /\ r.pay \in [Boxes -> PayRows]
      /\ \A b \in Boxes : Sum(r.pay[b]) \in Nat
      /\ Total(r.pay) = Sum(r.pay[Drawer]) + Sum(r.pay[Bank])
  BY RequestType, Figures DEF SalesInv
<1>3. /\ r.pay \in [Boxes -> Seq(Nat)] /\ r.pay \in [Boxes -> Seq(Int)]
      /\ \A b \in Boxes : Len(r.pay[b]) \in Nat
  BY <1>2, SumPayRows
<1>4. /\ status = "paid" /\ status' = "paid" /\ voiding' = "no"
      /\ edits' \in 0 .. MaxEdits
      /\ asked' \in [revenue : Nat, pay : [Boxes -> Nat]] \cup {Nothing}
  BY <1>1, EditFrame
<1>5. /\ e.lines = r.pay /\ e.ar \in Nat /\ e.revenue = r.items.revenue
      /\ e \in Entries /\ e # NoEntry
      /\ Total(r.pay) + e.ar = r.items.revenue
  BY <1>1, <1>2, <1>3, SalesAssumption DEF Entry, Entries, Balanced
<1>6. /\ onHand' \in Nat /\ moved' \in Int
      /\ moved' = moved + (items.qty - r.items.qty)
  BY <1>1, <1>2, MovementTyped DEF SalesInv
<1> HIDE DEF e
<1>7. /\ \A b \in Boxes : /\ held[b] = Sum(entry.lines[b]) + delta.cash[b]
                          /\ before[b] = Sum(entry.lines[b])
                          /\ trail[b] \in Seq(Int) /\ Len(trail[b]) \in Nat
      /\ trail # NoRows /\ entry # NoEntry /\ trail \in [Boxes -> Seq(Int)]
  BY <1>4 DEF SalesInv, LiveBooks, Typed, SalesTypeOK, Sums
<1>8. \A b \in Boxes : Sum(entry.lines[b]) \in Int /\ delta.cash[b] \in Int
  <2>1. entry.lines \in [Boxes -> Seq(Nat)] /\ delta.cash \in [Boxes -> Int]
    BY <1>7 DEF SalesInv, Typed, SalesTypeOK, Entries
  <2>2. \A b \in Boxes : entry.lines[b] \in Seq(Int)
    BY <2>1
  <2> QED
    BY <2>1, <2>2, RowsFinite, SumIsInt, SumIsOver
<1> HIDE DEF before
<1>9. \A b \in Boxes : held'[b] = Sum(r.pay[b]) + delta.cash[b] /\ held'[b] \in Int
  <2> SUFFICES ASSUME NEW b \in Boxes
               PROVE  held'[b] = Sum(r.pay[b]) + delta.cash[b] /\ held'[b] \in Int
    OBVIOUS
  <2>1. held'[b] = held[b] - before[b] + Sum(r.pay[b])
    BY <1>1
  <2>2. /\ held[b] = Sum(entry.lines[b]) + delta.cash[b]
        /\ before[b] = Sum(entry.lines[b])
    BY <1>7
  <2>3. Sum(r.pay[b]) \in Nat /\ Sum(entry.lines[b]) \in Int /\ delta.cash[b] \in Int
    BY <1>2, <1>8
  <2> QED
    BY <2>1, <2>2, <2>3
<1>10. \A b \in Boxes : /\ trail'[b] = trail[b] \o r.pay[b]
                        /\ trail'[b] \in Seq(Int)
                        /\ Len(trail'[b]) = Len(trail[b]) + Len(r.pay[b])
  BY <1>1, <1>3, <1>7, ConcatProperties
<1>11. Typed'
  <2>1. held' \in [Boxes -> Int] /\ trail' \in [Boxes -> Seq(Int)]
    BY <1>1, <1>9, <1>10
  <2>2. delta' \in [cash : [Boxes -> Int], ar : Int, revenue : Int]
    BY <1>1 DEF SalesInv, Typed, SalesTypeOK
  <2>3. drift' \in BOOLEAN /\ reposted' \in BOOLEAN
    BY <1>1 DEF SalesInv, Typed, SalesTypeOK
  <2>4. SalesTypeOK'
    BY <1>1, <1>2, <1>3, <1>4, <1>5, <1>6, <2>1, <2>2, <2>3 DEF SalesTypeOK
  <2>5. PayTyped' /\ Received'
    BY <1>1, <1>2 DEF PayTyped, Received, Total
  <2> QED
    BY <2>4, <2>5 DEF Typed
<1>12. ~drift' => ~drift /\ delta = NoDelta
  BY <1>1, Zenon
<1>13. ~drift' => /\ \A b \in Boxes : delta.cash[b] = 0
                  /\ delta.ar = 0 /\ delta.revenue = 0
  BY <1>12 DEF NoDelta
<1>14. LiveBooks'
  <2>1. \A b \in Boxes : Len(trail'[b]) >= Len(r.pay[b])
    BY <1>3, <1>7, <1>10
  <2>2. trail' # NoRows
    <3>1. PICK b \in Boxes : trail[b] # << >>
      BY <1>7 DEF NoRows
    <3>2. Len(trail[b]) > 0
      BY <1>7, <3>1
    <3>3. Len(trail'[b]) > 0
      BY <1>3, <1>7, <1>10, <3>2
    <3> QED
      BY <3>3 DEF NoRows
  <2> QED
    BY <1>1, <1>5, <1>9, <1>13, <2>1, <2>2 DEF LiveBooks
<1>15. BooksMatchInvoice'
  <2> SUFFICES ASSUME ~drift'
               PROVE  BooksMatchInvoice'
    BY DEF BooksMatchInvoice
  <2>1. ASSUME NEW b \in Boxes
        PROVE  held'[b] = Sum(payments'[b])
    <3>1. held'[b] = Sum(r.pay[b]) + delta.cash[b] /\ Sum(r.pay[b]) \in Nat
      BY <1>2, <1>9
    <3>2. delta.cash[b] = 0 /\ payments' = r.pay
      BY <1>1, <1>13
    <3> QED
      BY <3>1, <3>2
  <2>2. held' = Sums(payments)'
    BY <1>1, <2>1 DEF Sums
  <2>3. /\ entry'.revenue + delta'.revenue = grand'
        /\ entry'.ar + delta'.ar = grand' - paid' /\ paid' <= grand'
    BY <1>1, <1>2, <1>5, <1>13
  <2> QED
    BY <2>2, <2>3 DEF BooksMatchInvoice
<1>16. StockMatchesItems'
  BY <1>1, <1>2, <1>4, <1>6, StockFollows
<1>17. Untouched' /\ Reversing' /\ VoidReturnsTheMoney' /\ EditedAsAsked'
  BY <1>1, EditFrame
<1> QED
  BY <1>11, <1>14, <1>15, <1>16, <1>17 DEF SalesInv

-----------------------------------------------------------------------------
(* The void, in its two steps.                                               *)

(* Of an invoice that was paid by one means, and whose movements are of that  *)
(* means, fn_void_invoice takes the cash payments back from the very cashbox  *)
(* they are in; what is left there is what the entry says, if it can be       *)
(* reversed, and nothing if it cannot.                                       *)
LEMMA VoidLeaves ==
  ASSUME SalesInv, NEW b \in Boxes, Void(b), ~drift', NEW m \in Boxes, OneMeans(m)'
  PROVE  \A c \in Boxes :
           held'[c] = IF trail' = entry'.lines THEN Sum(entry'.lines[c]) ELSE 0
<1> DEFINE cash == payments[Drawer]
           back == [i \in DOMAIN cash |-> -cash[i]]
<1>1. /\ status = "paid" /\ ~drift /\ ~(trail = NoRows)
      /\ trail[b] # << >>
      /\ trail' = [trail EXCEPT ![b] = trail[b] \o back]
      /\ held' = [held EXCEPT ![b] = held[b] - Sum(cash)]
      /\ payments' = payments /\ entry' = entry /\ delta' = delta
      /\ reposted' = reposted
  <2>1. status = "paid" /\ trail # NoRows
    BY DEF Void, SalesInv, LiveBooks
  <2> QED
    BY <2>1 DEF Void, lines, past
<1>2. /\ \A c \in Boxes : /\ held[c] = Sum(entry.lines[c]) + delta.cash[c]
                          /\ held[c] = Sum(payments[c])
                          /\ Len(trail[c]) >= Len(entry.lines[c])
      /\ ~reposted => trail = entry.lines
      /\ payments = NoRows => \A c \in Boxes : delta.cash[c] = 0
      /\ entry # NoEntry
  BY <1>1, LiveMatch DEF SalesInv, LiveBooks
<1>3. /\ trail \in [Boxes -> Seq(Int)] /\ held \in [Boxes -> Int]
      /\ entry.lines \in [Boxes -> Seq(Nat)] /\ delta.cash \in [Boxes -> Int]
      /\ payments \in [Boxes -> PayRows]
  BY <1>2 DEF SalesInv, Typed, SalesTypeOK, PayTyped, Entries
<1>4. /\ Drawer \in Boxes /\ Bank \in Boxes /\ Drawer # Bank
      /\ \A c \in Boxes : c = Drawer \/ c = Bank
  BY SalesAssumption DEF Boxes
<1>5. /\ cash \in PayRows /\ cash \in Seq(Int) /\ Len(cash) \in Nat /\ Sum(cash) \in Nat
      /\ DOMAIN cash = 1 .. Len(cash)
  BY <1>3, <1>4, SumPayRows
<1>6. back \in Seq(Int) /\ Len(back) = Len(cash)
  <2>1. back \in [1 .. Len(cash) -> Int]
    BY <1>5
  <2> QED
    BY <1>5, <2>1
<1>7. \A c \in Boxes : Sum(entry.lines[c]) \in Int
  <2>1. \A c \in Boxes : entry.lines[c] \in Seq(Int)
    BY <1>3
  <2> QED
    BY <2>1, RowsFinite, SumIsInt, SumIsOver
<1> HIDE DEF back
<1>8. /\ trail[b] \o back \in Seq(Int)
      /\ Len(trail[b] \o back) = Len(trail[b]) + Len(cash)
      /\ Len(trail[b]) \in Nat /\ Len(trail[b]) > 0
  <2>1. trail[b] \in Seq(Int) /\ trail[b] # << >>
    BY <1>1, <1>3
  <2>2. Len(trail[b]) \in Nat /\ Len(trail[b]) > 0
    BY <2>1
  <2>3. \A u, v \in Seq(Int) : u \o v \in Seq(Int) /\ Len(u \o v) = Len(u) + Len(v)
    BY ConcatProperties
  <2>4. Len(trail[b] \o back) = Len(trail[b]) + Len(back)
    BY <1>6, <2>1, <2>3
  <2>5. trail[b] \o back \in Seq(Int)
    BY <1>6, <2>1, <2>3
  <2> QED
    BY <1>6, <2>2, <2>4, <2>5
<1>9. m = b
  <2>1. trail'[b] = trail[b] \o back
    BY <1>1, <1>3
  <2>2. trail'[b] # << >>
    BY <1>5, <1>8, <2>1
  <2>3. \A c \in Boxes \ {m} : trail'[c] = << >>
    BY DEF OneMeans
  <2> QED
    BY <2>2, <2>3
<1>10. ASSUME NEW c \in Boxes, c # b
       PROVE  /\ payments[c] = << >> /\ held'[c] = 0
              /\ entry.lines[c] = << >> /\ Sum(entry.lines[c]) = 0
  <2>1. payments[c] = << >> /\ trail[c] = << >>
    BY <1>1, <1>3, <1>9, <1>10 DEF OneMeans
  <2>2. held'[c] = 0
    BY <1>1, <1>2, <1>3, <1>10, <2>1, SumNone
  <2>3. Len(entry.lines[c]) <= 0
    BY <1>2, <2>1
  <2>4. entry.lines[c] = << >>
    BY <1>3, <2>3
  <2> QED
    BY <2>1, <2>2, <2>4, SumNone
<1>11. held'[b] = IF trail' = entry.lines THEN Sum(entry.lines[b]) ELSE 0
  <2>1. held'[b] = held[b] - Sum(cash)
    BY <1>1, <1>3
  <2>2. CASE b = Drawer
    <3>1. held'[b] = 0
      BY <1>2, <1>3, <1>5, <2>1, <2>2
    <3>2. ASSUME trail' = entry.lines
          PROVE  Sum(entry.lines[b]) = 0
      <4>1. Len(entry.lines[b]) = Len(trail[b]) + Len(cash)
        BY <1>1, <1>3, <1>8, <3>2
      <4>2. Len(cash) = 0
        <5>1. Len(trail[b]) >= Len(entry.lines[b])
          BY <1>2
        <5>2. \A x, y \in Nat : x >= x + y => y = 0
          OBVIOUS
        <5> QED
          BY <1>5, <1>8, <4>1, <5>1, <5>2
      <4>3. cash = << >>
        BY <1>5, <4>2
      <4>4. payments = NoRows
        BY <1>3, <1>4, <1>10, <2>2, <4>3 DEF NoRows
      <4>5. held[b] = 0 /\ delta.cash[b] = 0
        BY <1>2, <1>4, <4>4, SumNone DEF NoRows
      <4> QED
        BY <1>2, <1>7, <4>5
    <3> QED
      BY <3>1, <3>2
  <2>3. CASE b = Bank
    <3>1. cash = << >> /\ ~reposted /\ delta.cash[b] = 0
      BY <1>1, <1>4, <1>9, <1>10, <2>3 DEF OneMeans
    <3>2. held'[b] = Sum(entry.lines[b])
      BY <1>2, <1>3, <1>7, <2>1, <3>1, SumNone
    <3>3. trail' = entry.lines
      <4>1. back = << >>
        BY <1>6, <3>1
      <4>2. trail[b] \o back = trail[b]
        BY <1>3, <4>1
      <4> QED
        BY <1>1, <1>2, <1>3, <3>1, <4>2
    <3> QED
      BY <3>2, <3>3
  <2> QED
    BY <1>4, <2>2, <2>3
<1> QED
  BY <1>1, <1>10, <1>11

LEMMA VoidKeeps ==
  ASSUME SalesInv, NEW b \in Boxes, Void(b)
  PROVE  SalesInv'
<1> DEFINE cash == payments[Drawer]
           back == [i \in DOMAIN cash |-> -cash[i]]
<1>1. /\ status = "paid" /\ status' = "cancelled" /\ voiding' = "reversing"
      /\ Movement(items.qty)
      /\ trail' = [trail EXCEPT ![b] = trail[b] \o back]
      /\ held' = [held EXCEPT ![b] = held[b] - Sum(cash)]
      /\ items' = items /\ grand' = grand /\ paid' = paid /\ payments' = payments
      /\ entry' = entry /\ delta' = delta /\ edits' = edits
      /\ asked' = asked /\ reposted' = reposted /\ drift' = drift
  <2>1. status = "paid" /\ trail # NoRows
    BY DEF Void, SalesInv, LiveBooks
  <2>2. trail[b] # << >>
    BY <2>1 DEF Void
  <2> QED
    BY <2>2 DEF Void, lines, past
<1>2. SalesTypeOK /\ PayTyped /\ Received /\ entry # NoEntry /\ items.qty \in Nat
  BY <1>1 DEF SalesInv, Typed, LiveBooks, SalesTypeOK
<1>3. cash \in PayRows /\ cash \in Seq(Int) /\ Sum(cash) \in Nat /\ Len(cash) \in Nat
  BY <1>2, SumPayRows DEF PayTyped, Boxes
<1>4. trail' \in [Boxes -> Seq(Int)] /\ held' \in [Boxes -> Int]
  <2>1. /\ Len(cash) \in Nat /\ back \in [1 .. Len(cash) -> Int]
    BY <1>3
  <2> HIDE DEF back
  <2>2. back \in Seq(Int)
    BY ONLY <2>1
  <2>3. trail[b] \in Seq(Int) /\ trail \in [Boxes -> Seq(Int)] /\ held \in [Boxes -> Int]
    BY <1>2 DEF SalesTypeOK
  <2> HIDE DEF cash
  <2>4. trail[b] \o back \in Seq(Int)
    BY <2>2, <2>3, ConcatProperties
  <2>5. held[b] - Sum(cash) \in Int
    BY <1>3, <2>3
  <2> QED
    BY <1>1, <2>3, <2>4, <2>5
<1>5. onHand' \in Nat /\ moved' \in Int /\ moved' = moved + items.qty
  BY <1>1, <1>2, MovementTyped DEF SalesInv
<1>6. Typed'
  BY <1>1, <1>2, <1>4, <1>5 DEF Typed, SalesTypeOK, PayTyped, Received, Total
<1>7. Untouched' /\ LiveBooks' /\ BooksMatchInvoice' /\ VoidReturnsTheMoney'
  BY <1>1 DEF Untouched, LiveBooks, BooksMatchInvoice, VoidReturnsTheMoney
<1>8. Reversing'
  <2>1. ASSUME ~drift', NEW m \in Boxes, OneMeans(m)'
        PROVE  \A c \in Boxes :
                 held'[c] = IF trail' = entry'.lines THEN Sum(entry'.lines[c]) ELSE 0
    BY <2>1, VoidLeaves
  <2> QED
    BY <1>1, <1>2, <2>1 DEF Reversing
<1>9. StockMatchesItems'
  BY <1>1, <1>2, <1>5 DEF SalesInv, StockMatchesItems
<1>10. EditedAsAsked'
  BY <1>1 DEF SalesInv, EditedAsAsked, Sums
<1> QED
  BY <1>6, <1>7, <1>8, <1>9, <1>10 DEF SalesInv

LEMMA VoidReverseKeeps ==
  ASSUME SalesInv, VoidReverse
  PROVE  SalesInv'
<1>1. /\ voiding = "reversing" /\ voiding' = "answered" /\ status' = status
      /\ items' = items /\ grand' = grand /\ paid' = paid /\ payments' = payments
      /\ trail' = trail /\ delta' = delta /\ onHand' = onHand /\ moved' = moved
      /\ edits' = edits /\ asked' = asked /\ reposted' = reposted /\ drift' = drift
  BY DEF VoidReverse, lines, shelf, past
<1>2. status = "cancelled" /\ entry # NoEntry
  BY <1>1 DEF SalesInv, Untouched, Reversing
<1>3. \/ /\ trail = entry.lines /\ entry' = NoEntry
         /\ held' = [b \in Boxes |-> held[b] - Sum(entry.lines[b])]
      \/ trail # entry.lines /\ entry' = entry /\ held' = held
  BY <1>2 DEF VoidReverse, Reversible
<1>4. \A b \in Boxes : held[b] \in Int /\ Sum(entry.lines[b]) \in Int
  <2>1. entry.lines \in [Boxes -> Seq(Nat)] /\ held \in [Boxes -> Int]
    BY <1>2 DEF SalesInv, Typed, SalesTypeOK, Entries
  <2>2. \A b \in Boxes : entry.lines[b] \in Seq(Int)
    BY <2>1
  <2> QED
    BY <2>1, <2>2, RowsFinite, SumIsInt, SumIsOver
<1>5. held' \in [Boxes -> Int] /\ entry' \in Entries \cup {NoEntry}
  <2>1. held \in [Boxes -> Int] /\ entry \in Entries \cup {NoEntry}
    BY DEF SalesInv, Typed, SalesTypeOK
  <2> QED
    BY <1>3, <1>4, <2>1
<1>6. Typed'
  BY <1>1, <1>5 DEF SalesInv, Typed, SalesTypeOK, PayTyped, Received, Total
<1>7. Untouched' /\ LiveBooks' /\ Reversing' /\ BooksMatchInvoice'
  BY <1>1, <1>2 DEF Untouched, LiveBooks, Reversing, BooksMatchInvoice
<1>8. StockMatchesItems' /\ EditedAsAsked'
  BY <1>1 DEF SalesInv, StockMatchesItems, EditedAsAsked, Sums
<1>9. VoidReturnsTheMoney'
  <2>1. ASSUME ~drift', NEW m \in Boxes, OneMeans(m)'
        PROVE  \A b \in Boxes : held'[b] = 0
    <3>1. OneMeans(m)
      BY <1>1, <2>1 DEF OneMeans
    <3>2. \A b \in Boxes :
            held[b] = IF trail = entry.lines THEN Sum(entry.lines[b]) ELSE 0
      BY <1>1, <2>1, <3>1 DEF SalesInv, Reversing
    <3> QED
      BY <1>3, <1>4, <3>2
  <2> QED
    BY <2>1 DEF VoidReturnsTheMoney
<1> QED
  BY <1>6, <1>7, <1>8, <1>9 DEF SalesInv

(* A crash between the two steps leaves everything but the answer. *)
LEMMA CrashKeeps ==
  ASSUME SalesInv, VoidCrash
  PROVE  SalesInv'
<1>1. /\ voiding = "reversing" /\ voiding' = "crashed" /\ status' = status
      /\ items' = items /\ grand' = grand /\ paid' = paid /\ payments' = payments
      /\ entry' = entry /\ trail' = trail /\ delta' = delta /\ held' = held
      /\ onHand' = onHand /\ moved' = moved
      /\ edits' = edits /\ asked' = asked /\ reposted' = reposted /\ drift' = drift
  BY DEF VoidCrash, lines, books, shelf, past
<1>2. status = "cancelled"
  BY <1>1 DEF SalesInv, Untouched
<1>3. Typed'
  BY <1>1 DEF SalesInv, Typed, SalesTypeOK, PayTyped, Received, Total
<1>4. /\ Untouched' /\ LiveBooks' /\ Reversing' /\ BooksMatchInvoice'
      /\ VoidReturnsTheMoney'
  BY <1>1, <1>2 DEF Untouched, LiveBooks, Reversing, BooksMatchInvoice,
                    VoidReturnsTheMoney
<1>5. StockMatchesItems' /\ EditedAsAsked'
  BY <1>1 DEF SalesInv, StockMatchesItems, EditedAsAsked, Sums
<1> QED
  BY <1>3, <1>4, <1>5 DEF SalesInv

(* Another sale only takes from the shelf. *)
LEMMA OtherSaleKeeps ==
  ASSUME SalesInv, OtherSale
  PROVE  SalesInv'
<1>1. /\ onHand > 0 /\ onHand' = onHand - 1
      /\ status' = status /\ voiding' = voiding
      /\ items' = items /\ grand' = grand /\ paid' = paid /\ payments' = payments
      /\ entry' = entry /\ trail' = trail /\ delta' = delta /\ held' = held
      /\ moved' = moved
      /\ edits' = edits /\ asked' = asked /\ reposted' = reposted /\ drift' = drift
  BY DEF OtherSale, lines, books, past
<1>2. onHand' \in Nat
  BY <1>1 DEF SalesInv, Typed, SalesTypeOK
<1>3. Typed'
  BY <1>1, <1>2 DEF SalesInv, Typed, SalesTypeOK, PayTyped, Received, Total
<1>4. Untouched' /\ LiveBooks'
  BY <1>1 DEF SalesInv, Untouched, LiveBooks
<1>5. Reversing' /\ VoidReturnsTheMoney'
  BY <1>1 DEF SalesInv, Reversing, VoidReturnsTheMoney, OneMeans
<1>6. BooksMatchInvoice' /\ StockMatchesItems' /\ EditedAsAsked'
  BY <1>1 DEF SalesInv, BooksMatchInvoice, StockMatchesItems, EditedAsAsked, Sums
<1> QED
  BY <1>3, <1>4, <1>5, <1>6 DEF SalesInv

LEMMA StillKeeps ==
  ASSUME SalesInv, UNCHANGED salesVars
  PROVE  SalesInv'
<1>1. /\ onHand' = onHand /\ status' = status /\ voiding' = voiding
      /\ items' = items /\ grand' = grand /\ paid' = paid /\ payments' = payments
      /\ entry' = entry /\ trail' = trail /\ delta' = delta /\ held' = held
      /\ moved' = moved
      /\ edits' = edits /\ asked' = asked /\ reposted' = reposted /\ drift' = drift
  BY DEF salesVars
<1>2. Typed'
  BY <1>1 DEF SalesInv, Typed, SalesTypeOK, PayTyped, Received, Total
<1>3. Untouched' /\ LiveBooks'
  BY <1>1 DEF SalesInv, Untouched, LiveBooks
<1>4. Reversing' /\ VoidReturnsTheMoney'
  BY <1>1 DEF SalesInv, Reversing, VoidReturnsTheMoney, OneMeans
<1>5. BooksMatchInvoice' /\ StockMatchesItems' /\ EditedAsAsked'
  BY <1>1 DEF SalesInv, BooksMatchInvoice, StockMatchesItems, EditedAsAsked, Sums
<1> QED
  BY <1>2, <1>3, <1>4, <1>5 DEF SalesInv

(* Before the sale all of it holds. *)
LEMMA SalesInitOK == SalesInit => SalesInv
<1> SUFFICES ASSUME SalesInit
             PROVE  SalesInv
  OBVIOUS
<1>1. /\ payments = NoRows /\ << >> \in PayRows
      /\ NoRows \in [Boxes -> PayRows] /\ NoRows \in [Boxes -> Seq(Nat)]
      /\ NoRows \in [Boxes -> Seq(Int)]
  BY DEF SalesInit, NoRows, PayRows
<1>2. Total(NoRows) = 0
  BY SumNone DEF Total, NoRows, Boxes
<1>3. NoDelta \in [cash : [Boxes -> Int], ar : Int, revenue : Int]
  BY DEF NoDelta
<1>4. SalesTypeOK
  <2>1. /\ items \in [rows : Nat, qty : Nat, revenue : Nat]
        /\ held \in [Boxes -> Int] /\ entry \in Entries \cup {NoEntry}
        /\ trail \in [Boxes -> Seq(Int)] /\ payments \in [Boxes -> Seq(Nat)]
        /\ delta \in [cash : [Boxes -> Int], ar : Int, revenue : Int]
    BY <1>1, <1>3 DEF SalesInit
  <2>2. onHand \in Nat /\ edits \in 0 .. MaxEdits
    BY SalesAssumption DEF SalesInit
  <2>3. /\ status \in {"none", "paid", "cancelled"} /\ grand \in Nat /\ paid \in Nat
        /\ moved \in Int /\ voiding \in {"no", "reversing", "answered", "crashed"}
    BY DEF SalesInit
  <2>4. asked \in [revenue : Nat, pay : [Boxes -> Nat]] \cup {Nothing}
    BY DEF SalesInit
  <2>5. reposted \in BOOLEAN /\ drift \in BOOLEAN
    BY DEF SalesInit
  <2> QED
    BY <2>1, <2>2, <2>3, <2>4, <2>5 DEF SalesTypeOK
<1>5. PayTyped /\ Received
  BY <1>1, <1>2 DEF SalesInit, PayTyped, Received
<1>6. Untouched /\ LiveBooks /\ Reversing
  BY DEF SalesInit, Untouched, LiveBooks, Reversing
<1>7. BooksMatchInvoice /\ StockMatchesItems /\ EditedAsAsked /\ VoidReturnsTheMoney
  BY DEF SalesInit, BooksMatchInvoice, StockMatchesItems, EditedAsAsked,
         VoidReturnsTheMoney
<1> QED
  BY <1>4, <1>5, <1>6, <1>7 DEF SalesInv, Typed

LEMMA SalesNextKeeps == SalesInv /\ [SalesNext]_salesVars => SalesInv'
<1> SUFFICES ASSUME SalesInv, [SalesNext]_salesVars
             PROVE  SalesInv'
  OBVIOUS
<1>1. CASE UNCHANGED salesVars
  BY <1>1, StillKeeps
<1>2. CASE SalesNext
  <2>1. ASSUME NEW r \in Requests, Create(r)
        PROVE  SalesInv'
    BY <2>1, CreateKeeps
  <2>2. ASSUME NEW r \in Requests, NEW b \in Boxes, EditMonetary(r, b)
        PROVE  SalesInv'
    BY <2>2, MonetaryKeeps
  <2>3. ASSUME NEW r \in Requests, EditRedistribute(r)
        PROVE  SalesInv'
    BY <2>3, RedistributeKeeps
  <2>4. ASSUME NEW r \in Requests, EditPositive(r)
        PROVE  SalesInv'
    BY <2>4, PositiveKeeps
  <2>5. ASSUME NEW r \in Requests, EditReduce(r)
        PROVE  SalesInv'
    BY <2>5, ReduceKeeps
  <2>6. ASSUME NEW r \in Requests, EditLegacy(r)
        PROVE  SalesInv'
    BY <2>6, LegacyKeeps
  <2>7. ASSUME NEW b \in Boxes, Void(b)
        PROVE  SalesInv'
    BY <2>7, VoidKeeps
  <2>8. VoidReverse => SalesInv'
    BY VoidReverseKeeps
  <2>9. VoidCrash \/ OtherSale => SalesInv'
    BY CrashKeeps, OtherSaleKeeps
  <2> QED
    BY <1>2, <2>1, <2>2, <2>3, <2>4, <2>5, <2>6, <2>7, <2>8, <2>9 DEF SalesNext
<1> QED
  BY <1>1, <1>2

LEMMA SalesAlways == SalesSpec => []SalesInv
BY SalesInitOK, SalesNextKeeps, PTL DEF SalesSpec

-----------------------------------------------------------------------------
(* The invoice, its rows and its books keep their types whatever edits and   *)
(* voids came: the total, the amount paid and the stock row never fall below *)
(* zero, for any quantities, prices and number of edits (editInvoice,        *)
(* fn_void_invoice).                                                         *)
THEOREM SalesTyping == SalesSpec => []SalesTypeOK
<1>1. SalesInv => SalesTypeOK
  BY DEF SalesInv, Typed
<1> QED
  BY <1>1, SalesAlways, PTL

(* Through any sequence of the five ways editInvoice books an edit, the      *)
(* cashboxes hold what the payment rows say and the entries add up to the    *)
(* total and to what is owed, unless one path ran on what another one left   *)
(* inexact.                                                                  *)
THEOREM BooksAreInvoice == SalesSpec => []BooksMatchInvoice
<1>1. SalesInv => BooksMatchInvoice
  BY DEF SalesInv
<1> QED
  BY <1>1, SalesAlways, PTL

(* The movements createInvoice, the edits and fn_void_invoice write for the  *)
(* invoice are its pieces, and nothing after a void.                         *)
THEOREM StockIsItems == SalesSpec => []StockMatchesItems
<1>1. SalesInv => StockMatchesItems
  BY DEF SalesInv
<1> QED
  BY <1>1, SalesAlways, PTL

(* Whichever classifier takes a plain edit, the invoice gets the total and   *)
(* the payments that were asked for.                                         *)
THEOREM EditIsAsked == SalesSpec => []EditedAsAsked
<1>1. SalesInv => EditedAsAsked
  BY DEF SalesInv
<1> QED
  BY <1>1, SalesAlways, PTL

(* A void that was answered has given the money back, for an invoice paid by *)
(* one means: fn_void_invoice and reverseByReference between them take back  *)
(* each payment once, also when the alignment guards refuse the reversal.    *)
THEOREM VoidGivesBack == SalesSpec => []VoidReturnsTheMoney
<1>1. SalesInv => VoidReturnsTheMoney
  BY DEF SalesInv
<1> QED
  BY <1>1, SalesAlways, PTL
==============================================================================
