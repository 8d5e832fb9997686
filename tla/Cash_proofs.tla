----------------------------- MODULE Cash_proofs -----------------------------
(***************************************************************************)
(* Theorems about Shifts, for any number of shifts, requests and amounts,  *)
(* and about CashDesk, for any boxes, payments, tasks and amounts.         *)
(***************************************************************************)
EXTENDS Shifts, CashDesk, TLAPS

(***************************************************************************)
(* Shifts.                                                                 *)
(***************************************************************************)

(* Every request past its first read is about a shift. *)
Bound == \A q \in Requests :
  request[q].pc \notin {"idle", "opening"} => request[q].of \in Shifts

(* A request that close() let through has a treatment exactly when it has  *)
(* a variance.                                                             *)
Decision == \A q \in Requests :
  request[q].pc \in {"closing", "close"} =>
    (request[q].actual = request[q].expected <=> request[q].treatment = Unset)

IInv == TypeOK /\ Bound /\ Decision

(* A request's record replaced by another that satisfies the invariant.    *)
LEMMA HoldKeeps ==
  ASSUME request \in [Requests -> Holdings], Bound, Decision,
         NEW q \in Requests, NEW r \in Holdings, Hold(q, r),
         r.pc \notin {"idle", "opening"} => r.of \in Shifts,
         r.pc \in {"closing", "close"} => (r.actual = r.expected <=> r.treatment = Unset)
  PROVE  request' \in [Requests -> Holdings] /\ Bound' /\ Decision'
<1>1. request' = [request EXCEPT ![q] = r]
  BY DEF Hold
<1>2. request' \in [Requests -> Holdings]
  BY <1>1
<1>3. \A p \in Requests : request'[p] = IF p = q THEN r ELSE request[p]
  BY <1>1
<1>4. Bound'
  BY <1>3 DEF Bound
<1>5. Decision'
  BY <1>3 DEF Decision
<1>6. QED
  BY <1>2, <1>4, <1>5

LEMMA IdleHolds == Idle \in Holdings
  BY ShiftsAssumption DEF Idle, Holding, Holdings

LEMMA EndKeeps ==
  ASSUME request \in [Requests -> Holdings], Bound, Decision,
         NEW q \in Requests, EndRequest(q)
  PROVE  request' \in [Requests -> Holdings] /\ Bound' /\ Decision'
<1>1. Hold(q, Idle)
  BY DEF EndRequest
<1>2. Idle.pc = "idle"
  BY DEF Idle, Holding
<1>3. QED
  BY <1>1, <1>2, IdleHolds, HoldKeeps

LEMMA UnsetIsNoTreatment == Unset \notin Treatments
  BY ShiftsAssumption

LEMMA AmountsAreNat == Amounts \subseteq Nat
  BY ShiftsAssumption DEF Amounts

(* The columns and counters without the requests. *)
RowOK ==
  /\ status \in [Shifts -> Live \cup {"none", "closed"}]
  /\ opening \in [Shifts -> Nat]
  /\ expected \in [Shifts -> Int]
  /\ actual \in [Shifts -> Nat \cup {Unset}]
  /\ asked \in [Shifts -> Nat \cup {Unset}]
  /\ treatment \in [Shifts -> Treatments \cup {Unset}]
  /\ cash \in [Shifts -> Int]
  /\ moving \in [Shifts -> -1 .. 1]
  /\ missed \in [Shifts -> Nat]
BookOK ==
  /\ entries \in [Shifts -> Nat]
  /\ deductions \in [Shifts -> Nat]
  /\ booked \in [Shifts -> Int]

LEMMA TypeParts ==
  TypeOK <=> /\ RowOK /\ BookOK /\ raced \subseteq Shifts
             /\ request \in [Requests -> Holdings]
  BY DEF TypeOK, RowOK, BookOK

LEMMA RacedStays ==
  ASSUME raced \subseteq Shifts, NEW c, NEW s \in Shifts, RacedIf(c, s)
  PROVE  raced' \subseteq Shifts
  BY DEF RacedIf

(* What a step that leaves row, cash and book alone leaves alone. *)
LEMMA RowStays ==
  ASSUME RowOK, BookOK, UNCHANGED <<row, cash, moving, book, missed>>
  PROVE  RowOK' /\ BookOK'
  BY DEF RowOK, BookOK, row, book

LEMMA ExpectedIsInt ==
  ASSUME RowOK, NEW s \in Shifts
  PROVE  opening[s] \in Nat /\ cash[s] \in Int /\ Expected(s) \in Int
  BY DEF RowOK, Expected

(* What a read makes of the request's record. *)
LEMMA HoldingHeld ==
  ASSUME NEW s \in Shifts, NEW count \in Nat, NEW read \in Nat, NEW sum \in Int,
         NEW treat \in Treatments \cup {Unset},
         NEW pc \in {"asking", "decided", "closing", "rejecting"}
  PROVE  Holding(pc, s, count, treat, read, sum) \in Holdings
  BY DEF Holding, Holdings

(* A request that reads the shift and writes nothing yet. *)
LEMMA ReadKeeps ==
  ASSUME IInv, NEW q \in Requests, NEW s \in Shifts, NEW count \in Nat,
         NEW read \in Nat, NEW sum \in Int, NEW treat \in Treatments \cup {Unset},
         NEW pc \in {"asking", "decided", "closing", "rejecting"},
         Hold(q, Holding(pc, s, count, treat, read, sum)),
         pc = "closing" => (count = sum <=> treat = Unset),
         UNCHANGED <<row, cash, moving, book, missed>>, raced' \subseteq Shifts
  PROVE  IInv'
<1> DEFINE r == Holding(pc, s, count, treat, read, sum)
<1>1. r \in Holdings
  BY HoldingHeld
<1>2. /\ r.pc = pc /\ r.of = s /\ r.actual = count /\ r.expected = sum
      /\ r.treatment = treat
  BY DEF Holding
<1>3. RowOK /\ BookOK /\ request \in [Requests -> Holdings] /\ Bound /\ Decision
  BY TypeParts DEF IInv
<1>4. r.pc \in {"closing", "close"} => (r.actual = r.expected <=> r.treatment = Unset)
  BY <1>2
<1>5. request' \in [Requests -> Holdings] /\ Bound' /\ Decision'
  <2> HIDE DEF r
  <2> Hold(q, r)
    BY DEF r
  <2> QED
    BY <1>1, <1>2, <1>3, <1>4, HoldKeeps
<1>6. RowOK' /\ BookOK'
  BY <1>3, RowStays
<1>7. QED
  BY <1>5, <1>6, TypeParts DEF IInv, TypeOK, RowOK, BookOK

(* The request ends, or one is admitted to open a shift; nothing is read.  *)
LEMMA UnboundKeeps ==
  ASSUME IInv, NEW q \in Requests, OpenCheck(q) \/ Refuse(q)
  PROVE  IInv'
<1>1. RowOK /\ BookOK /\ request \in [Requests -> Holdings] /\ Bound /\ Decision
  BY TypeParts DEF IInv
<1>2. RowOK' /\ BookOK' /\ raced' = raced
  BY <1>1, RowStays DEF OpenCheck, Refuse
<1>3. request' \in [Requests -> Holdings] /\ Bound' /\ Decision'
  <2>1. CASE OpenCheck(q)
    <3> DEFINE r == Holding("opening", NoShift, 0, Unset, 0, 0)
    <3>1. r \in Holdings /\ r.pc = "opening"
      BY DEF Holding, Holdings
    <3>2. Hold(q, r)
      BY <2>1 DEF OpenCheck
    <3> HIDE DEF r
    <3>3. QED
      BY <1>1, <3>1, <3>2, HoldKeeps
  <2>2. CASE Refuse(q)
    BY <1>1, <2>2, EndKeeps DEF Refuse
  <2>3. QED
    BY <2>1, <2>2
<1>4. QED
  BY <1>2, <1>3, TypeParts DEF IInv, TypeOK, RowOK, BookOK

(* The reads of a request that is not yet in close(). *)
LEMMA FirstReads ==
  ASSUME IInv, NEW q \in Requests, NEW s \in Shifts, NEW n \in Amounts,
         NEW treat \in Treatments \cup {Unset},
         RequestClose(q, s, n) \/ ApproveClose(q, s, treat) \/ RejectClose(q, s)
  PROVE  IInv'
<1>1. RowOK /\ raced \subseteq Shifts
  BY TypeParts DEF IInv
<1>2. n \in Nat
  BY AmountsAreNat
<1>3. /\ opening[s] \in Nat /\ Expected(s) \in Int
      /\ actual[s] \in Nat \cup {Unset} /\ asked[s] \in Nat \cup {Unset}
  BY <1>1, ExpectedIsInt DEF RowOK
<1>4. UNCHANGED <<row, cash, moving, book, missed>> /\ RacedIf(InFlight(s), s)
  BY DEF RequestClose, ApproveClose, RejectClose
<1>5. raced' \subseteq Shifts
  BY <1>1, <1>4, RacedStays
<1>6. CASE RequestClose(q, s, n)
  <2>1. CASE Hold(q, Holding("decided", s, n, Unset, 0, 0))
    BY <1>2, <1>4, <1>5, <2>1, ReadKeeps
  <2>2. CASE Hold(q, Holding("asking", s, n, Unset, opening[s], Expected(s)))
    BY <1>2, <1>3, <1>4, <1>5, <2>2, ReadKeeps
  <2>3. QED
    BY <1>6, <2>1, <2>2 DEF RequestClose
<1>7. CASE ApproveClose(q, s, treat)
  <2> DEFINE count == IF actual[s] # Unset THEN actual[s] ELSE OrZero(asked[s])
  <2>1. count \in Nat
    BY <1>3 DEF OrZero
  <2>2. Hold(q, Holding("decided", s, count, treat, 0, 0))
    BY <1>7 DEF ApproveClose
  <2> HIDE DEF count
  <2>3. QED
    BY <1>4, <1>5, <2>1, <2>2, ReadKeeps
<1>8. CASE RejectClose(q, s)
  <2>1. Hold(q, Holding("rejecting", s, 0, Unset, 0, 0))
    BY <1>8 DEF RejectClose
  <2>2. QED
    BY <1>4, <1>5, <2>1, ReadKeeps
<1>9. QED
  BY <1>6, <1>7, <1>8

(* A treatment that close() accepts is one, or there is nothing to treat.  *)
LEMMA ValidDecides ==
  ASSUME NEW treat, NEW variance \in Int, Valid(treat, variance)
  PROVE  variance = 0 \/ treat # Unset
  BY UnsetIsNoTreatment DEF Valid, Treatments

(* close() up to its transaction, whoever calls it. *)
LEMMA BeginCloseKeeps ==
  ASSUME IInv, NEW q \in Requests, NEW s \in Shifts, NEW count \in Nat,
         NEW treat \in Treatments \cup {Unset}, BeginClose(q, s, count, treat),
         UNCHANGED <<row, cash, moving, book, missed>>, raced' \subseteq Shifts
  PROVE  IInv'
<1> DEFINE resolved == Resolved(s, treat, count - Expected(s))
<1>1. /\ opening[s] \in Nat /\ Expected(s) \in Int
      /\ treatment[s] \in Treatments \cup {Unset}
  <2>1. RowOK
    BY TypeParts DEF IInv
  <2>2. QED
    BY <2>1, ExpectedIsInt DEF RowOK
<1>2. resolved \in Treatments \cup {Unset}
  BY <1>1 DEF Resolved
<1>3. /\ Valid(resolved, count - Expected(s))
      /\ Hold(q, Holding("closing", s, count, resolved, opening[s], Expected(s)))
  BY DEF BeginClose
<1>4. count = Expected(s) => resolved = Unset
  BY <1>1 DEF Resolved
<1> HIDE DEF resolved
<1>5. count = Expected(s) \/ resolved # Unset
  <2>1. count - Expected(s) \in Int
    BY <1>1
  <2>2. count - Expected(s) = 0 \/ resolved # Unset
    BY <1>3, <2>1, ValidDecides
  <2>3. QED
    BY <1>1, <2>2
<1>6. QED
  BY <1>1, <1>2, <1>3, <1>4, <1>5, ReadKeeps

LEMMA CloseKeeps ==
  ASSUME IInv, NEW q \in Requests, NEW s \in Shifts, NEW n \in Amounts,
         NEW treat \in Treatments \cup {Unset}, Close(q, s, n, treat)
  PROVE  IInv'
<1>1. n \in Nat
  BY AmountsAreNat
<1>2. raced' \subseteq Shifts
  BY TypeParts, RacedStays DEF IInv, Close
<1>3. QED
  BY <1>1, <1>2, BeginCloseKeeps DEF Close

LEMMA CloseReadKeeps ==
  ASSUME IInv, NEW q \in Requests, CloseRead(q)
  PROVE  IInv'
<1>1. request \in [Requests -> Holdings] /\ Bound /\ raced \subseteq Shifts
  BY TypeParts DEF IInv
<1>2. request[q].of \in Shifts
  BY <1>1 DEF CloseRead, Bound
<1>3. /\ request[q].actual \in Nat
      /\ request[q].treatment \in Treatments \cup {Unset}
  BY <1>1 DEF Holdings
<1>4. QED
  BY <1>1, <1>2, <1>3, BeginCloseKeeps DEF CloseRead

(* The check of the snapshot moves the request on. *)
LEMMA CheckKeeps ==
  ASSUME IInv, NEW q \in Requests, CheckSnapshot(q)
  PROVE  IInv'
<1>1. RowOK /\ BookOK /\ request \in [Requests -> Holdings] /\ Bound /\ Decision
  BY TypeParts DEF IInv
<1>2. RowOK' /\ BookOK' /\ raced' = raced
  BY <1>1, RowStays DEF CheckSnapshot
<1> DEFINE next == IF request[q].pc = "asking" THEN "ask" ELSE "close"
           r == [request[q] EXCEPT !.pc = next]
<1>3. request[q] \in Holdings /\ next \in {"ask", "close"}
  BY <1>1
<1>4. /\ r \in Holdings /\ r.pc = next /\ r.of = request[q].of
      /\ r.actual = request[q].actual /\ r.expected = request[q].expected
      /\ r.treatment = request[q].treatment
  <2> HIDE DEF next
  <2> QED
    BY <1>3 DEF Holdings
<1>5. Hold(q, r) /\ request[q].pc \in {"asking", "closing"}
  BY DEF CheckSnapshot
<1>6. request[q].of \in Shifts
  BY <1>1, <1>5 DEF Bound
<1>7. next = "close" => (r.actual = r.expected <=> r.treatment = Unset)
  BY <1>1, <1>4, <1>5 DEF Decision
<1>8. request' \in [Requests -> Holdings] /\ Bound' /\ Decision'
  <2>1. /\ r.pc \notin {"idle", "opening"} => r.of \in Shifts
        /\ r.pc \in {"closing", "close"} => (r.actual = r.expected <=> r.treatment = Unset)
    BY <1>3, <1>4, <1>6, <1>7
  <2> HIDE DEF r
  <2>2. QED
    BY <1>1, <1>4, <1>5, <2>1, HoldKeeps
<1>9. QED
  BY <1>2, <1>8, TypeParts DEF IInv, TypeOK, RowOK, BookOK

(* Opening: the row of a shift that was only an id. *)
LEMMA OpenKeeps ==
  ASSUME IInv, NEW q \in Requests, NEW s \in Shifts, NEW n \in Amounts,
         OpenInsert(q, s, n)
  PROVE  IInv'
<1>1. RowOK /\ BookOK /\ request \in [Requests -> Holdings] /\ Bound /\ Decision
  BY TypeParts DEF IInv
<1>2. request' \in [Requests -> Holdings] /\ Bound' /\ Decision'
  BY <1>1, EndKeeps DEF OpenInsert
<1>3. n \in Nat /\ n \in Int
  BY AmountsAreNat
<1>4. /\ status' = [status EXCEPT ![s] = "open"]
      /\ opening' = [opening EXCEPT ![s] = n]
      /\ expected' = [expected EXCEPT ![s] = n]
      /\ UNCHANGED <<actual, asked, treatment, cash, moving, book, missed, raced>>
  BY DEF OpenInsert
<1>5. RowOK'
  BY <1>1, <1>3, <1>4 DEF RowOK, Live
<1>6. BookOK' /\ raced' = raced
  BY <1>1, <1>4 DEF BookOK, book
<1>7. QED
  BY <1>2, <1>5, <1>6, TypeParts DEF IInv, TypeOK, RowOK, BookOK

(* The writes of requestClose and rejectClose. *)
LEMMA AskKeeps ==
  ASSUME IInv, NEW q \in Requests, AskWrite(q) \/ RejectWrite(q)
  PROVE  IInv'
<1>1. RowOK /\ BookOK /\ request \in [Requests -> Holdings] /\ Bound /\ Decision
  BY TypeParts DEF IInv
<1>2. request' \in [Requests -> Holdings] /\ Bound' /\ Decision'
  BY <1>1, EndKeeps DEF AskWrite, RejectWrite
<1> DEFINE s == request[q].of
           n == request[q].actual
           e == request[q].expected
<1>3. n \in Nat \cup {Unset} /\ e \in Int
  BY <1>1 DEF Holdings
<1>4. BookOK' /\ raced' = raced
  BY <1>1 DEF AskWrite, RejectWrite, BookOK, book
<1>5. CASE AskWrite(q)
  <2>1. /\ status' = [status EXCEPT ![s] = "pending_close"]
        /\ asked' = [asked EXCEPT ![s] = n]
        /\ expected' = [expected EXCEPT ![s] = e]
        /\ UNCHANGED <<opening, actual, treatment, cash, moving, missed>>
    BY <1>5 DEF AskWrite
  <2> HIDE DEF s, n, e
  <2>2. RowOK'
    BY <1>1, <1>3, <2>1 DEF RowOK, Live
  <2>3. QED
    BY <1>2, <1>4, <2>2, TypeParts DEF IInv, TypeOK, RowOK, BookOK
<1>6. CASE RejectWrite(q)
  <2>1. /\ status' = [status EXCEPT ![s] = "open"]
        /\ UNCHANGED <<opening, expected, actual, asked, treatment, cash, moving, missed>>
    BY <1>6 DEF RejectWrite
  <2> HIDE DEF s, n, e
  <2>2. RowOK'
    BY <1>1, <2>1 DEF RowOK, Live
  <2>3. QED
    BY <1>2, <1>4, <2>2, TypeParts DEF IInv, TypeOK, RowOK, BookOK
<1>7. QED
  BY <1>5, <1>6

(* Booking adds one entry or one deduction at most. *)
LEMMA BookKeeps ==
  ASSUME BookOK, NEW s \in Shifts, NEW treat, NEW variance \in Int,
         Book(s, treat, variance)
  PROVE  BookOK'
<1> DEFINE charge == treat = "charge_employee" /\ deductions[s] = 0
           post   == variance # 0 /\ treat # "charge_employee" /\ entries[s] = 0
           d == IF charge THEN deductions[s] + 1 ELSE deductions[s]
           e == IF post THEN entries[s] + 1 ELSE entries[s]
           b == IF charge \/ post THEN booked[s] + variance ELSE booked[s]
<1>1. /\ deductions' = [deductions EXCEPT ![s] = d]
      /\ entries' = [entries EXCEPT ![s] = e]
      /\ booked' = [booked EXCEPT ![s] = b]
  BY DEF Book
<1>2. deductions[s] \in Nat /\ entries[s] \in Nat /\ booked[s] \in Int
  BY DEF BookOK
<1>3. d \in Nat /\ e \in Nat /\ b \in Int
  <2>1. d \in Nat
    BY <1>2
  <2>2. e \in Nat
    BY <1>2
  <2>3. b \in Int
    BY <1>2
  <2>4. QED
    BY <2>1, <2>2, <2>3
<1> HIDE DEF d, e, b
<1>4. QED
  BY <1>1, <1>3 DEF BookOK

(* The write of close() stores what was decided and books it. *)
LEMMA CloseWriteKeeps ==
  ASSUME IInv, NEW q \in Requests, CloseWrite(q)
  PROVE  IInv'
<1>1. RowOK /\ BookOK /\ request \in [Requests -> Holdings] /\ Bound /\ Decision
  BY TypeParts DEF IInv
<1>2. request' \in [Requests -> Holdings] /\ Bound' /\ Decision'
  BY <1>1, EndKeeps DEF CloseWrite
<1> DEFINE s == request[q].of
           n == request[q].actual
           e == request[q].expected
           t == request[q].treatment
           stored == IF t # Unset THEN t ELSE treatment[s]
<1>3. n \in Nat /\ e \in Int /\ t \in Treatments \cup {Unset}
  BY <1>1 DEF Holdings
<1>4. s \in Shifts
  BY <1>1 DEF CloseWrite, Bound
<1>5. /\ status' = [status EXCEPT ![s] = "closed"]
      /\ actual' = [actual EXCEPT ![s] = n]
      /\ expected' = [expected EXCEPT ![s] = e]
      /\ treatment' = [treatment EXCEPT ![s] = stored]
      /\ Book(s, t, n - e)
      /\ missed' = [missed EXCEPT ![s] = 0]
      /\ UNCHANGED <<opening, asked, cash, moving, raced>>
  BY DEF CloseWrite
<1>6. treatment[s] \in Treatments \cup {Unset} /\ n - e \in Int
  BY <1>1, <1>3, <1>4 DEF RowOK
<1>7. stored \in Treatments \cup {Unset}
  BY <1>3, <1>6
<1> HIDE DEF s, n, e, t, stored
<1>8. RowOK'
  BY <1>1, <1>3, <1>5, <1>7 DEF RowOK, Live
<1>9. BookOK'
  BY <1>1, <1>4, <1>5, <1>6, BookKeeps
<1>10. QED
  BY <1>2, <1>5, <1>8, <1>9, TypeParts DEF IInv, TypeOK, RowOK, BookOK

(* Movements, edits and adjustments leave the requests and the book alone. *)
LEMMA RowKeeps ==
  ASSUME IInv, NEW s \in Shifts, NEW n \in Amounts, NEW d \in {-1, 1},
         AdjustCount(s, n) \/ AdjustOpening(s, n) \/ MovementPicks(s, d)
           \/ EditInvoice(s, d) \/ VoidInvoice(s, n) \/ MovementCommits(s)
  PROVE  IInv'
<1>1. RowOK /\ BookOK /\ raced \subseteq Shifts
  BY TypeParts DEF IInv
<1>2. UNCHANGED <<book, request>>
  BY DEF AdjustCount, AdjustOpening, MovementPicks, EditInvoice, VoidInvoice,
      MovementCommits
<1>3. BookOK'
  BY <1>1, <1>2 DEF BookOK, book
<1>4. Bound' /\ Decision' /\ request' = request
  BY <1>2 DEF IInv, Bound, Decision
<1>5. n \in Nat /\ n \in Int /\ n \in Nat \cup {Unset}
  BY AmountsAreNat
<1>6. /\ opening[s] \in Nat /\ cash[s] \in Int /\ expected[s] \in Int
      /\ moving[s] \in Int /\ missed[s] \in Nat
  BY <1>1 DEF RowOK
<1>7. raced' \subseteq Shifts
  BY <1>1, RacedStays
     DEF AdjustCount, AdjustOpening, MovementPicks, EditInvoice, VoidInvoice,
      MovementCommits
<1>8. RowOK'
  <2>1. CASE AdjustCount(s, n)
    BY <1>1, <1>5, <2>1 DEF RowOK, AdjustCount
  <2>2. CASE AdjustOpening(s, n)
    <3>1. /\ opening' = [opening EXCEPT ![s] = n]
          /\ expected' = [expected EXCEPT ![s] = n] \/ expected' = expected
          /\ UNCHANGED <<status, actual, asked, treatment, cash, moving, missed>>
      BY <2>2 DEF AdjustOpening
    <3>2. QED
      BY <1>1, <1>5, <3>1 DEF RowOK
  <2>3. CASE MovementPicks(s, d)
    <3>1. moving' = [moving EXCEPT ![s] = d] /\ UNCHANGED <<row, cash, missed>>
      BY <2>3 DEF MovementPicks
    <3>2. d \in -1 .. 1
      OBVIOUS
    <3>3. QED
      BY <1>1, <3>1, <3>2 DEF RowOK, row
  <2>4. CASE EditInvoice(s, d)
    <3> DEFINE c == cash[s] + d
               e == IF status[s] = "closed" THEN opening[s] + cash[s] + d
                    ELSE expected[s]
               m == IF status[s] = "closed" THEN 0 ELSE missed[s]
    <3>1. /\ cash' = [cash EXCEPT ![s] = c]
          /\ expected' = [expected EXCEPT ![s] = e]
          /\ missed' = [missed EXCEPT ![s] = m]
          /\ UNCHANGED <<status, opening, actual, asked, treatment, moving>>
      BY <2>4 DEF EditInvoice
    <3>2. c \in Int /\ e \in Int /\ m \in Nat
      BY <1>6
    <3> HIDE DEF c, e, m
    <3>3. QED
      BY <1>1, <3>1, <3>2 DEF RowOK
  <2>5. CASE MovementCommits(s)
    <3> DEFINE c == cash[s] + moving[s]
    <3>1. /\ cash' = [cash EXCEPT ![s] = c]
          /\ moving' = [moving EXCEPT ![s] = 0]
          /\ UNCHANGED <<row, missed>>
      BY <2>5 DEF MovementCommits
    <3>2. c \in Int /\ 0 \in -1 .. 1
      BY <1>6
    <3> HIDE DEF c
    <3>3. QED
      BY <1>1, <3>1, <3>2 DEF RowOK, row
  <2>6. CASE VoidInvoice(s, n)
    <3> DEFINE c == cash[s] - n
               m == IF status[s] = "closed" /\ s \notin raced
                    THEN missed[s] + n ELSE 0
    <3>1. /\ cash' = [cash EXCEPT ![s] = c]
          /\ missed' = [missed EXCEPT ![s] = m]
          /\ UNCHANGED <<row, moving>>
      BY <2>6 DEF VoidInvoice
    <3>2. c \in Int /\ m \in Nat
      BY <1>5, <1>6
    <3> HIDE DEF c, m
    <3>3. QED
      BY <1>1, <3>1, <3>2 DEF RowOK, row
  <2>7. QED
    BY <2>1, <2>2, <2>3, <2>4, <2>5, <2>6
<1>9. QED
  BY <1>3, <1>4, <1>7, <1>8, TypeParts DEF IInv, TypeOK, RowOK, BookOK

-----------------------------------------------------------------------------
LEMMA IInvStep ==
  ASSUME IInv, [Next]_vars
  PROVE  IInv'
<1>1. ASSUME NEW q \in Requests, OpenCheck(q) \/ Refuse(q)
      PROVE  IInv'
  BY <1>1, UnboundKeeps
<1>2. ASSUME NEW q \in Requests, NEW s \in Shifts, NEW n \in Amounts,
             NEW treat \in Treatments \cup {Unset},
             RequestClose(q, s, n) \/ ApproveClose(q, s, treat) \/ RejectClose(q, s)
      PROVE  IInv'
  BY <1>2, FirstReads
<1>3. ASSUME NEW q \in Requests, NEW s \in Shifts, NEW n \in Amounts,
             NEW treat \in Treatments \cup {Unset}, Close(q, s, n, treat)
      PROVE  IInv'
  BY <1>3, CloseKeeps
<1>4. ASSUME NEW q \in Requests, CloseRead(q)
      PROVE  IInv'
  BY <1>4, CloseReadKeeps
<1>5. ASSUME NEW q \in Requests, CheckSnapshot(q)
      PROVE  IInv'
  BY <1>5, CheckKeeps
<1>6. ASSUME NEW q \in Requests, CloseWrite(q)
      PROVE  IInv'
  BY <1>6, CloseWriteKeeps
<1>7. ASSUME NEW q \in Requests, AskWrite(q) \/ RejectWrite(q)
      PROVE  IInv'
  BY <1>7, AskKeeps
<1>8. ASSUME NEW q \in Requests, NEW s \in Shifts, NEW n \in Amounts,
             OpenInsert(q, s, n)
      PROVE  IInv'
  BY <1>8, OpenKeeps
<1>9. ASSUME NEW s \in Shifts, NEW n \in Amounts, NEW d \in {-1, 1},
             AdjustCount(s, n) \/ AdjustOpening(s, n) \/ MovementPicks(s, d)
               \/ EditInvoice(s, d) \/ VoidInvoice(s, n) \/ MovementCommits(s)
      PROVE  IInv'
  BY <1>9, RowKeeps
<1>10. CASE UNCHANGED vars
  BY <1>10
     DEF IInv, TypeOK, Bound, Decision, vars
<1>11. 0 \in Amounts
  BY ShiftsAssumption DEF Amounts
<1>12. QED
  BY <1>1, <1>2, <1>3, <1>4, <1>5, <1>6, <1>7, <1>8, <1>9, <1>10, <1>11 DEF Next

LEMMA IInvInit == Init => IInv
<1> SUFFICES ASSUME Init
             PROVE  IInv
  OBVIOUS
<1>1. RowOK /\ BookOK /\ raced \subseteq Shifts
  BY DEF Init, RowOK, BookOK
<1>2. request \in [Requests -> Holdings]
  BY IdleHolds DEF Init
<1>3. \A q \in Requests : request[q].pc = "idle"
  BY DEF Init, Idle, Holding
<1>4. Bound /\ Decision
  BY <1>3 DEF Bound, Decision
<1>5. QED
  BY <1>1, <1>2, <1>4, TypeParts DEF IInv

(* Every shift and every request keeps its type: a request that read a     *)
(* shift still names one when it writes.                                   *)
THEOREM Typing == Spec => []TypeOK
<1>1. IInv => TypeOK
  BY DEF IInv
<1>2. QED
  BY <1>1, IInvInit, IInvStep, PTL DEF Spec

(* Only the write of close() closes a shift.                               *)
LEMMA ClosedByWrite ==
  ASSUME IInv, [Next]_vars, NEW s \in Shifts,
         status[s] # "closed", status'[s] = "closed"
  PROVE  \E q \in Requests : CloseWrite(q) /\ request[q].of = s
<1>1. RowOK
  BY TypeParts DEF IInv
<1>2. ASSUME NEW q \in Requests, CloseWrite(q)
      PROVE  request[q].of = s
  <2>1. status' = [status EXCEPT ![request[q].of] = "closed"]
    BY <1>2 DEF CloseWrite
  <2>2. QED
    BY <1>1, <2>1 DEF RowOK
<1>3. ASSUME NEW q \in Requests,
             OpenCheck(q) \/ CloseRead(q) \/ CheckSnapshot(q) \/ Refuse(q)
      PROVE  FALSE
  BY <1>3 DEF OpenCheck, CloseRead, CheckSnapshot, Refuse, row
<1>4. ASSUME NEW q \in Requests, AskWrite(q) \/ RejectWrite(q)
      PROVE  FALSE
  <2>1. \/ status' = [status EXCEPT ![request[q].of] = "pending_close"]
        \/ status' = [status EXCEPT ![request[q].of] = "open"]
    BY <1>4 DEF AskWrite, RejectWrite
  <2>2. QED
    BY <1>1, <2>1 DEF RowOK
<1>5. ASSUME NEW q \in Requests, NEW p \in Shifts, NEW n \in Amounts,
             NEW treat \in Treatments \cup {Unset},
             RejectClose(q, p) \/ RequestClose(q, p, n)
               \/ ApproveClose(q, p, treat) \/ Close(q, p, n, treat)
      PROVE  FALSE
  BY <1>5 DEF RejectClose, RequestClose, ApproveClose, Close, row
<1>6. ASSUME NEW q \in Requests, NEW p \in Shifts, NEW n \in Amounts,
             OpenInsert(q, p, n)
      PROVE  FALSE
  <2>1. status' = [status EXCEPT ![p] = "open"]
    BY <1>6 DEF OpenInsert
  <2>2. QED
    BY <1>1, <2>1 DEF RowOK
<1>7. ASSUME NEW p \in Shifts, NEW n \in Amounts, NEW d \in {-1, 1},
             AdjustCount(p, n) \/ AdjustOpening(p, n) \/ MovementPicks(p, d)
               \/ EditInvoice(p, d) \/ VoidInvoice(p, n) \/ MovementCommits(p)
      PROVE  FALSE
  BY <1>7 DEF AdjustCount, AdjustOpening, MovementPicks, EditInvoice,
              VoidInvoice, MovementCommits, row
<1>8. CASE UNCHANGED vars
  BY <1>8 DEF vars
<1>9. 0 \in Amounts
  BY ShiftsAssumption DEF Amounts
<1>10. QED
  BY <1>2, <1>3, <1>4, <1>5, <1>6, <1>7, <1>8, <1>9 DEF Next

(* What it stores as the treatment is the request's, or was there already. *)
LEMMA ClosingDecides ==
  ASSUME IInv, [Next]_vars, NEW s \in Shifts,
         status[s] # "closed", status'[s] = "closed", actual'[s] # expected'[s]
  PROVE  treatment'[s] # Unset
<1>1. RowOK /\ Decision
  BY TypeParts DEF IInv
<1>2. PICK q \in Requests : CloseWrite(q) /\ request[q].of = s
  BY ClosedByWrite
<1> DEFINE r == request[q]
           stored == IF r.treatment # Unset THEN r.treatment ELSE treatment[r.of]
<1>3. /\ actual' = [actual EXCEPT ![s] = r.actual]
      /\ expected' = [expected EXCEPT ![s] = r.expected]
      /\ treatment' = [treatment EXCEPT ![s] = stored]
  BY <1>2 DEF CloseWrite
<1>4. r.actual = r.expected \/ r.treatment # Unset
  BY <1>1, <1>2 DEF Decision, CloseWrite
<1>5. actual'[s] = r.actual /\ expected'[s] = r.expected /\ treatment'[s] = stored
  BY <1>1, <1>3 DEF RowOK
<1>6. QED
  BY <1>4, <1>5

(* No shift is closed over a variance that nobody decided on, whichever of *)
(* the three ways leads to close() and whatever moved cash in between.     *)
THEOREM NothingUndecided == Spec => VarianceIsDecided
<1>1. IInv /\ [Next]_vars =>
        [\A s \in Shifts :
           status[s] # "closed" /\ status'[s] = "closed" /\ actual'[s] # expected'[s]
             => treatment'[s] # Unset]_vars
  BY ClosingDecides
<1>2. QED
  BY <1>1, IInvInit, IInvStep, PTL DEF Spec, VarianceIsDecided
-----------------------------------------------------------------------------
(* What a request of shift s has read is what the row still says; once its *)
(* snapshot was checked, it is the cash of the shift as well.              *)
Fresh(r, s) ==
  /\ r.pc \in {"asking", "closing", "ask", "close"} => r.opening = opening[s]
  /\ r.pc \in {"ask", "close"} => r.expected = Expected(s)

(* Outside raced one request at a time is about a shift, and none once it  *)
(* is closed; only then there is an entry or a deduction for its variance. *)
Sound(s) ==
  /\ \A p, q \in Requests : request[p].of = s /\ request[q].of = s => p = q
  /\ \A q \in Requests : request[q].of = s => Fresh(request[q], s)
  /\ status[s] \in {"none", "closed"} => ~InFlight(s)
  /\ status[s] = "closed" => expected[s] = Expected(s) + missed[s]
  /\ entries[s] + deductions[s] =
       IF status[s] = "closed" /\ booked[s] # 0 THEN 1 ELSE 0
  /\ status[s] # "closed" => entries[s] = 0 /\ deductions[s] = 0 /\ booked[s] = 0

Watched == \A s \in Shifts \ raced : Sound(s)

(* The history only grows, and a step that races the shift adds it.        *)
LEMMA RacedAdds ==
  ASSUME NEW c, NEW p, NEW s, RacedIf(c, p), s \notin raced'
  PROVE  s \notin raced /\ (s = p => ~c)
  BY DEF RacedIf

(* A request's record is replaced, the shift stays as it is.               *)
LEMMA HoldSound ==
  ASSUME NEW s \in Shifts, Sound(s), request \in [Requests -> Holdings],
         NEW q \in Requests, NEW r \in Holdings, Hold(q, r),
         UNCHANGED <<row, cash, book, missed>>,
         r.of = s => /\ request[q].of = s \/ ~InFlight(s)
                     /\ status[s] \notin {"none", "closed"}
                     /\ Fresh(r, s)
  PROVE  Sound(s)'
<1>1. \A p \in Requests : request'[p] = IF p = q THEN r ELSE request[p]
  BY DEF Hold
<1>2. /\ opening' = opening /\ cash' = cash /\ status' = status
      /\ expected' = expected
      /\ entries' = entries /\ deductions' = deductions /\ booked' = booked
      /\ missed' = missed
  BY DEF row, book
<1>4. \A p, o \in Requests : request'[p].of = s /\ request'[o].of = s => p = o
  BY <1>1 DEF Sound, InFlight
<1>5. \A p \in Requests : request'[p].of = s => Fresh(request[p], s)'
  BY <1>1, <1>2 DEF Sound, Fresh, Expected
<1>6. status[s] \in {"none", "closed"} => ~InFlight(s)'
  BY <1>1 DEF Sound, InFlight
<1>7. QED
  BY <1>2, <1>4, <1>5, <1>6 DEF Sound, Expected

(* A request ends: what it held is of no shift any more. *)
LEMMA EndSound ==
  ASSUME NEW s \in Shifts, Sound(s), request \in [Requests -> Holdings],
         NEW q \in Requests, EndRequest(q)
  PROVE  /\ \A p \in Requests : request'[p].of = s =>
              p # q /\ request'[p] = request[p]
         /\ \A p, o \in Requests :
              request'[p].of = s /\ request'[o].of = s => p = o
         /\ request[q].of = s => ~InFlight(s)'
<1>1. \A p \in Requests : request'[p] = IF p = q THEN Idle ELSE request[p]
  BY DEF EndRequest, Hold
<1>2. Idle.of # s
  BY ShiftsAssumption DEF Idle, Holding
<1>3. QED
  BY <1>1, <1>2 DEF Sound, InFlight

LEMMA EndOnlySound ==
  ASSUME IInv, NEW s \in Shifts, Sound(s), NEW q \in Requests, Refuse(q)
  PROVE  Sound(s)'
<1>1. request \in [Requests -> Holdings]
  BY TypeParts DEF IInv
<1>2. Hold(q, Idle) /\ Idle.of # s
  BY ShiftsAssumption DEF Refuse, EndRequest, Idle, Holding
<1>3. UNCHANGED <<row, cash, book, missed>>
  BY DEF Refuse
<1> QED
  BY <1>1, <1>2, <1>3, IdleHolds, HoldSound

(* A request that reads a shift races the one that already did.            *)
LEMMA ReadSound ==
  ASSUME IInv, NEW s \in Shifts, Sound(s), s \notin raced',
         NEW q \in Requests, NEW p \in Shifts, NEW n \in Amounts,
         NEW treat \in Treatments \cup {Unset},
         \/ RequestClose(q, p, n) \/ ApproveClose(q, p, treat)
         \/ RejectClose(q, p) \/ Close(q, p, n, treat)
  PROVE  Sound(s)'
<1>1. request \in [Requests -> Holdings] /\ RowOK
  BY TypeParts DEF IInv
<1>2. UNCHANGED <<row, cash, book, missed>> /\ RacedIf(InFlight(p), p)
  BY DEF RequestClose, ApproveClose, RejectClose, Close
<1>3. s = p => ~InFlight(s)
  BY <1>2, RacedAdds
<1>4. status[p] \in Live
  BY DEF RequestClose, ApproveClose, RejectClose, Close, BeginClose, Live
<1>5. n \in Nat /\ opening[p] \in Nat /\ Expected(p) \in Int
  BY <1>1, AmountsAreNat, ExpectedIsInt
<1>6. ASSUME NEW pc \in {"asking", "decided", "closing", "rejecting"},
             NEW count \in Nat, NEW use \in Treatments \cup {Unset},
             NEW read \in Nat, NEW sum \in Int,
             Hold(q, Holding(pc, p, count, use, read, sum)),
             pc \in {"asking", "closing"} => read = opening[p]
      PROVE  Sound(s)'
  <2> DEFINE r == Holding(pc, p, count, use, read, sum)
  <2>1. r \in Holdings
    BY HoldingHeld
  <2>2. r.of = p /\ r.pc = pc /\ r.opening = read
    BY DEF Holding
  <2>3. r.of = s => /\ ~InFlight(s) /\ status[s] \notin {"none", "closed"}
                    /\ Fresh(r, s)
    BY <1>3, <1>4, <1>6, <2>2 DEF Fresh, Live
  <2>4. Hold(q, r)
    BY <1>6
  <2> HIDE DEF r
  <2>5. QED
    BY <1>1, <1>2, <2>1, <2>3, <2>4, HoldSound
<1>7. CASE RequestClose(q, p, n)
  <2>1. CASE Hold(q, Holding("decided", p, n, Unset, 0, 0))
    BY <1>5, <1>6, <2>1
  <2>2. CASE Hold(q, Holding("asking", p, n, Unset, opening[p], Expected(p)))
    BY <1>5, <1>6, <2>2
  <2>3. QED
    BY <1>7, <2>1, <2>2 DEF RequestClose
<1>8. CASE ApproveClose(q, p, treat)
  <2> DEFINE count == IF actual[p] # Unset THEN actual[p] ELSE OrZero(asked[p])
  <2>1. count \in Nat
    BY <1>1 DEF OrZero, RowOK
  <2>2. Hold(q, Holding("decided", p, count, treat, 0, 0))
    BY <1>8 DEF ApproveClose
  <2> HIDE DEF count
  <2>3. QED
    BY <1>6, <2>1, <2>2
<1>9. CASE RejectClose(q, p)
  <2>1. Hold(q, Holding("rejecting", p, 0, Unset, 0, 0))
    BY <1>9 DEF RejectClose
  <2>2. QED
    BY <1>6, <2>1
<1>10. CASE Close(q, p, n, treat)
  <2> DEFINE resolved == Resolved(p, treat, n - Expected(p))
  <2>1. resolved \in Treatments \cup {Unset}
    BY <1>1 DEF Resolved, RowOK
  <2>2. Hold(q, Holding("closing", p, n, resolved, opening[p], Expected(p)))
    BY <1>10 DEF Close, BeginClose
  <2> HIDE DEF resolved
  <2>3. QED
    BY <1>5, <1>6, <2>1, <2>2
<1>11. QED
  BY <1>7, <1>8, <1>9, <1>10

(* close() reads again, for a request that already is the shift's only one. *)
LEMMA CloseReadSound ==
  ASSUME IInv, NEW s \in Shifts, Sound(s), NEW q \in Requests, CloseRead(q)
  PROVE  Sound(s)'
<1> DEFINE p == request[q].of
           n == request[q].actual
           resolved == Resolved(p, request[q].treatment, n - Expected(p))
           r == Holding("closing", p, n, resolved, opening[p], Expected(p))
<1>1. request \in [Requests -> Holdings] /\ RowOK /\ Bound
  BY TypeParts DEF IInv
<1>2. p \in Shifts /\ n \in Nat /\ request[q].treatment \in Treatments \cup {Unset}
  BY <1>1 DEF CloseRead, Bound, Holdings
<1>3. resolved \in Treatments \cup {Unset}
  BY <1>1, <1>2 DEF Resolved, RowOK
<1>4. Hold(q, r) /\ status[p] \in Live /\ UNCHANGED <<row, cash, book, missed>>
  BY DEF CloseRead, BeginClose
<1>5. opening[p] \in Nat /\ Expected(p) \in Int
  BY <1>1, <1>2, ExpectedIsInt
<1>6. r \in Holdings
  <2> HIDE DEF p, n, resolved
  <2> QED
    BY <1>2, <1>3, <1>5, HoldingHeld
<1>7. r.of = p /\ r.pc = "closing" /\ r.opening = opening[p]
  BY DEF Holding
<1>8. r.of = s => /\ request[q].of = s /\ status[s] \notin {"none", "closed"}
                  /\ Fresh(r, s)
  BY <1>4, <1>7 DEF Live, Fresh
<1> HIDE DEF r
<1>9. QED
  BY <1>1, <1>4, <1>6, <1>8, HoldSound

(* The check: with the opening balance the row still has, the snapshot is  *)
(* the cash of the shift.                                                  *)
LEMMA CheckSound ==
  ASSUME IInv, NEW s \in Shifts, Sound(s), NEW q \in Requests, CheckSnapshot(q)
  PROVE  Sound(s)'
<1> DEFINE next == IF request[q].pc = "asking" THEN "ask" ELSE "close"
           r == [request[q] EXCEPT !.pc = next]
<1>1. request \in [Requests -> Holdings]
  BY TypeParts DEF IInv
<1>2. /\ request[q] \in Holdings /\ next \in {"ask", "close"}
      /\ request[q].pc \in {"asking", "closing"}
      /\ request[q].opening + cash[request[q].of] = request[q].expected
      /\ Hold(q, r) /\ UNCHANGED <<row, cash, book, missed>>
  BY <1>1 DEF CheckSnapshot
<1>3. /\ r \in Holdings /\ r.of = request[q].of
      /\ r.opening = request[q].opening /\ r.expected = request[q].expected
  <2> HIDE DEF next
  <2> QED
    BY <1>2 DEF Holdings
<1>4. ASSUME request[q].of = s
      PROVE  Fresh(r, s) /\ status[s] \notin {"none", "closed"}
  <2>1. Fresh(request[q], s)
    BY <1>4 DEF Sound
  <2>2. request[q].opening = opening[s]
    BY <1>2, <2>1 DEF Fresh
  <2>3. request[q].expected = Expected(s)
    BY <1>2, <1>4, <2>2 DEF Expected
  <2> HIDE DEF r
  <2>4. QED
    BY <1>3, <1>4, <2>2, <2>3 DEF Fresh, Sound, InFlight
<1> HIDE DEF r
<1>5. QED
  BY <1>1, <1>2, <1>3, <1>4, HoldSound

LEMMA OpenCheckSound ==
  ASSUME IInv, NEW s \in Shifts, Sound(s), NEW q \in Requests, OpenCheck(q)
  PROVE  Sound(s)'
<1> DEFINE r == Holding("opening", NoShift, 0, Unset, 0, 0)
<1>1. request \in [Requests -> Holdings]
  BY TypeParts DEF IInv
<1>2. r \in Holdings /\ r.of # s
  BY ShiftsAssumption DEF Holding, Holdings
<1>3. Hold(q, r) /\ UNCHANGED <<row, cash, book, missed>>
  BY DEF OpenCheck
<1> HIDE DEF r
<1>4. QED
  BY <1>1, <1>2, <1>3, HoldSound

(* What the rest of Sound needs when a request ended.                      *)
LEMMA EndedSound ==
  ASSUME NEW s \in Shifts, Sound(s), request \in [Requests -> Holdings],
         NEW q \in Requests, EndRequest(q),
         (opening'[s] = opening[s] \/ ~InFlight(s)) /\ cash'[s] = cash[s],
         status'[s] \in {"none", "closed"} => request[q].of = s \/ ~InFlight(s),
         status'[s] = "closed" => expected'[s] = Expected(s)' + missed'[s],
         entries'[s] + deductions'[s] =
           IF status'[s] = "closed" /\ booked'[s] # 0 THEN 1 ELSE 0,
         status'[s] # "closed" =>
           entries'[s] = 0 /\ deductions'[s] = 0 /\ booked'[s] = 0
  PROVE  Sound(s)'
<1>1. /\ \A p \in Requests : request'[p].of = s => request'[p] = request[p]
      /\ \A p, o \in Requests : request'[p].of = s /\ request'[o].of = s => p = o
      /\ request[q].of = s => ~InFlight(s)'
  BY EndSound
<1>2. ~InFlight(s) => ~InFlight(s)'
  BY <1>1 DEF InFlight
<1>3. \A p \in Requests : request'[p].of = s => Fresh(request[p], s)'
  BY <1>1 DEF Sound, Fresh, Expected, InFlight
<1>4. QED
  BY <1>1, <1>2, <1>3 DEF Sound, Expected

LEMMA OpenSound ==
  ASSUME IInv, NEW s \in Shifts, Sound(s),
         NEW q \in Requests, NEW p \in Shifts, NEW n \in Amounts, OpenInsert(q, p, n)
  PROVE  Sound(s)'
<1>1. request \in [Requests -> Holdings] /\ RowOK
  BY TypeParts DEF IInv
<1>2. /\ status[p] = "none" /\ status' = [status EXCEPT ![p] = "open"]
      /\ opening' = [opening EXCEPT ![p] = n]
      /\ expected' = [expected EXCEPT ![p] = n]
      /\ EndRequest(q) /\ UNCHANGED <<cash, book, missed>>
  BY DEF OpenInsert
<1>3. CASE s = p
  <2>1. ~InFlight(s) /\ status[s] # "closed"
    BY <1>2, <1>3 DEF Sound
  <2>2. status'[s] = "open"
    BY <1>1, <1>2, <1>3 DEF RowOK
  <2>3. entries'[s] = 0 /\ deductions'[s] = 0 /\ booked'[s] = 0
    BY <1>2, <2>1 DEF Sound, book
  <2>4. QED
    BY <1>1, <1>2, <2>1, <2>2, <2>3, EndedSound
<1>4. CASE s # p
  <2>1. /\ status'[s] = status[s] /\ opening'[s] = opening[s]
        /\ expected'[s] = expected[s] /\ cash' = cash /\ missed' = missed
        /\ entries' = entries /\ deductions' = deductions /\ booked' = booked
    BY <1>1, <1>2, <1>4 DEF RowOK, book
  <2>2. QED
    BY <1>1, <1>2, <2>1, EndedSound DEF Sound, Expected
<1>5. QED
  BY <1>3, <1>4

(* requestClose and rejectClose write a shift that is live: it has no      *)
(* entry, and a request about it keeps it from being closed.               *)
LEMMA AskSound ==
  ASSUME IInv, NEW s \in Shifts, Sound(s),
         NEW q \in Requests, AskWrite(q) \/ RejectWrite(q)
  PROVE  Sound(s)'
<1> DEFINE p == request[q].of
<1>1. request \in [Requests -> Holdings] /\ RowOK
  BY TypeParts DEF IInv
<1>2. /\ EndRequest(q) /\ UNCHANGED <<opening, cash, book, missed>>
      /\ \/ status' = [status EXCEPT ![p] = "pending_close"]
         \/ status' = [status EXCEPT ![p] = "open"]
      /\ expected' = expected \/ expected' = [expected EXCEPT ![p] = request[q].expected]
  BY DEF AskWrite, RejectWrite
<1>3. entries' = entries /\ deductions' = deductions /\ booked' = booked
  BY <1>2 DEF book
<1>4. CASE p = s
  <2>1. status[s] # "closed"
    BY <1>4 DEF Sound, InFlight
  <2>2. status'[s] \in Live
    BY <1>1, <1>2, <1>4 DEF RowOK, Live
  <2>3. QED
    BY <1>1, <1>2, <1>3, <1>4, <2>1, <2>2, EndedSound DEF Live, Sound
<1>5. CASE p # s
  <2>1. status'[s] = status[s] /\ expected'[s] = expected[s]
    BY <1>1, <1>2, <1>5 DEF RowOK
  <2>2. QED
    BY <1>1, <1>2, <1>3, <2>1, EndedSound DEF Sound, Expected
<1>6. QED
  BY <1>4, <1>5

(* The write of close(): what the request brings along is the cash that is *)
(* there, and nothing was booked for the shift before.                     *)
LEMMA CloseWriteBooks ==
  ASSUME IInv, NEW q \in Requests, CloseWrite(q), Sound(request[q].of)
  PROVE  LET s == request[q].of IN
         /\ s \in Shifts
         /\ status[s] # "closed" /\ status'[s] = "closed"
         /\ opening'[s] = opening[s] /\ cash'[s] = cash[s]
         /\ expected'[s] = Expected(s) /\ missed'[s] = 0
         /\ entries'[s] + deductions'[s] = IF booked'[s] # 0 THEN 1 ELSE 0
         /\ actual'[s] - Expected(s) = booked'[s]
<1> DEFINE r == request[q]
           s == r.of
<1>1. RowOK /\ BookOK /\ request \in [Requests -> Holdings] /\ Bound
  BY TypeParts DEF IInv
<1>2. r.pc = "close" /\ s \in Shifts
  BY <1>1 DEF CloseWrite, Bound
<1>3. /\ status' = [status EXCEPT ![s] = "closed"]
      /\ actual' = [actual EXCEPT ![s] = r.actual]
      /\ expected' = [expected EXCEPT ![s] = r.expected]
      /\ Book(s, r.treatment, r.actual - r.expected)
      /\ missed' = [missed EXCEPT ![s] = 0]
      /\ UNCHANGED <<opening, cash>>
  BY DEF CloseWrite
<1>4. InFlight(s) /\ Fresh(r, s)
  BY DEF Sound, InFlight
<1>5. r.expected = Expected(s)
  BY <1>2, <1>4 DEF Fresh
<1>6. status[s] # "closed" /\ entries[s] = 0 /\ deductions[s] = 0 /\ booked[s] = 0
  BY <1>4 DEF Sound
<1>7. r.actual \in Nat /\ r.expected \in Int
  BY <1>1 DEF Holdings
<1> DEFINE v == r.actual - r.expected
           charge == r.treatment = "charge_employee" /\ deductions[s] = 0
           post == v # 0 /\ r.treatment # "charge_employee" /\ entries[s] = 0
<1>8. booked'[s] = v
  <2> DEFINE books == charge \/ post
  <2>1. booked' = [booked EXCEPT ![s] = IF books THEN booked[s] + v ELSE booked[s]]
    BY <1>3 DEF Book
  <2>2. books \/ v = 0
    BY <1>6
  <2>3. booked'[s] = IF books THEN booked[s] + v ELSE booked[s]
    BY <1>1, <1>2, <2>1 DEF BookOK
  <2> HIDE DEF books
  <2>4. QED
    BY <1>6, <1>7, <2>2, <2>3
<1>9. /\ status'[s] = "closed" /\ actual'[s] = r.actual
      /\ expected'[s] = r.expected
  BY <1>1, <1>2, <1>3 DEF RowOK
<1>10. missed'[s] = 0
  BY <1>1, <1>2, <1>3 DEF RowOK
<1>11. entries'[s] + deductions'[s] = IF booked'[s] # 0 THEN 1 ELSE 0
  <2>1. charge => v # 0
    <3>1. r.actual = r.expected <=> r.treatment = Unset
      BY <1>2 DEF IInv, Decision, CloseWrite
    <3>2. Unset # "charge_employee"
      BY ShiftsAssumption DEF Treatments
    <3>3. QED
      BY <1>7, <3>1, <3>2
  <2>2. /\ deductions' = [deductions EXCEPT ![s] =
             IF charge THEN deductions[s] + 1 ELSE deductions[s]]
        /\ entries' = [entries EXCEPT ![s] = IF post THEN entries[s] + 1 ELSE entries[s]]
    BY <1>3 DEF Book
  <2>3. /\ deductions'[s] = IF charge THEN 1 ELSE 0
        /\ entries'[s] = IF post THEN 1 ELSE 0
    <3> HIDE DEF charge, post
    <3> QED
      BY <1>1, <1>2, <1>6, <2>2 DEF BookOK
  <2>4. QED
    BY <1>6, <1>8, <2>1, <2>3
<1>12. QED
  BY <1>2, <1>3, <1>5, <1>6, <1>8, <1>9, <1>10, <1>11

LEMMA CloseWriteSound ==
  ASSUME IInv, NEW s \in Shifts, Sound(s), NEW q \in Requests, CloseWrite(q)
  PROVE  Sound(s)'
<1> DEFINE p == request[q].of
<1>1. RowOK /\ BookOK /\ request \in [Requests -> Holdings]
  BY TypeParts DEF IInv
<1>2. EndRequest(q) /\ opening' = opening /\ cash' = cash
  BY DEF CloseWrite
<1>3. CASE p = s
  <2>1. /\ status'[s] = "closed" /\ expected'[s] = Expected(s) /\ missed'[s] = 0
        /\ entries'[s] + deductions'[s] = IF booked'[s] # 0 THEN 1 ELSE 0
    BY <1>3, CloseWriteBooks
  <2>2. expected'[s] = Expected(s)' + missed'[s]
    BY <1>1, <1>2, <2>1, ExpectedIsInt DEF Expected
  <2>3. QED
    BY <1>1, <1>2, <1>3, <2>1, <2>2, EndedSound
<1>4. CASE p # s
  <2>1. /\ status'[s] = status[s] /\ expected'[s] = expected[s]
        /\ entries'[s] = entries[s] /\ deductions'[s] = deductions[s]
        /\ booked'[s] = booked[s] /\ missed'[s] = missed[s]
    BY <1>1, <1>4 DEF CloseWrite, Book, RowOK, BookOK
  <2>2. QED
    BY <1>1, <1>2, <2>1, EndedSound DEF Sound, Expected
<1>5. QED
  BY <1>3, <1>4

(* Movements, edits and adjustments: behind the back of a request they race *)
(* the shift, and on a closed one they follow up the snapshot.             *)
LEMMA RowSound ==
  ASSUME IInv, NEW s \in Shifts, Sound(s), s \notin raced',
         NEW p \in Shifts, NEW n \in Amounts, NEW d \in {-1, 1},
         AdjustCount(p, n) \/ AdjustOpening(p, n) \/ MovementPicks(p, d)
           \/ EditInvoice(p, d) \/ VoidInvoice(p, n) \/ MovementCommits(p)
  PROVE  Sound(s)'
<1>1. RowOK
  BY TypeParts DEF IInv
<1>2. /\ UNCHANGED <<status, request, book>>
  BY DEF AdjustCount, AdjustOpening, MovementPicks, EditInvoice, VoidInvoice,
      MovementCommits, row
<1>3. /\ entries' = entries /\ deductions' = deductions /\ booked' = booked
      /\ InFlight(s)' <=> InFlight(s)
  BY <1>2 DEF book, InFlight
<1>4. ASSUME opening'[s] = opening[s], cash'[s] = cash[s],
             expected'[s] = expected[s], missed'[s] = missed[s]
      PROVE  Sound(s)'
  BY <1>2, <1>3, <1>4 DEF Sound, Fresh, Expected
<1>5. CASE AdjustCount(p, n) \/ MovementPicks(p, d)
  BY <1>4, <1>5 DEF AdjustCount, MovementPicks, row
<1>6. CASE s # p
  <2>1. /\ opening'[s] = opening[s] /\ cash'[s] = cash[s]
        /\ expected'[s] = expected[s] /\ missed'[s] = missed[s]
    BY <1>1, <1>6 DEF AdjustCount, AdjustOpening, MovementPicks, EditInvoice,
                      VoidInvoice, MovementCommits, RowOK, row
  <2>2. QED
    BY <1>4, <2>1
<1>7. CASE AdjustOpening(p, n) /\ s = p
  <2>1. ~InFlight(s) /\ status[s] = "open"
    BY <1>7, RacedAdds DEF AdjustOpening
  <2>2. QED
    BY <1>2, <1>3, <2>1 DEF Sound, InFlight
<1>8. CASE EditInvoice(p, d) /\ s = p
  <2>1. ~Checked(s)
    BY <1>8, RacedAdds DEF EditInvoice
  <2>2. /\ opening' = opening
        /\ cash'[s] = cash[s] + d
        /\ status[s] = "closed" =>
             expected'[s] = opening[s] + cash[s] + d /\ missed'[s] = 0
    BY <1>1, <1>8 DEF EditInvoice, RowOK
  <2>3. \A q \in Requests : request[q].of = s => request[q].pc \notin {"ask", "close"}
    BY <2>1 DEF Checked
  <2>4. \A q \in Requests : request[q].of = s => Fresh(request[q], s)'
    BY <1>2, <2>2, <2>3 DEF Sound, Fresh
  <2>5. status[s] = "closed" => expected'[s] = Expected(s)' + missed'[s]
    <3>1. opening[s] \in Nat /\ cash[s] \in Int
      BY <1>1 DEF RowOK
    <3>2. QED
      BY <2>2, <3>1 DEF Expected
  <2>6. QED
    BY <1>2, <1>3, <2>4, <2>5 DEF Sound
<1>9. CASE MovementCommits(p) /\ s = p
  <2>1. ~Checked(s) /\ status[s] # "closed"
    BY <1>9, RacedAdds DEF MovementCommits
  <2>2. \A q \in Requests : request[q].of = s => request[q].pc \notin {"ask", "close"}
    BY <2>1 DEF Checked
  <2>3. opening' = opening
    BY <1>9 DEF MovementCommits, row
  <2>4. \A q \in Requests : request[q].of = s => Fresh(request[q], s)'
    BY <1>2, <2>2, <2>3 DEF Sound, Fresh
  <2>5. QED
    BY <1>2, <1>3, <2>1, <2>4 DEF Sound
<1>10. CASE VoidInvoice(p, n) /\ s = p
  <2>1. ~Checked(s) /\ s \notin raced
    BY <1>10, RacedAdds DEF VoidInvoice
  <2>2. /\ opening' = opening /\ expected' = expected
        /\ cash'[s] = cash[s] - n
        /\ status[s] = "closed" => missed'[s] = missed[s] + n
    BY <1>1, <1>10, <2>1 DEF VoidInvoice, RowOK, row
  <2>3. \A q \in Requests : request[q].of = s => request[q].pc \notin {"ask", "close"}
    BY <2>1 DEF Checked
  <2>4. \A q \in Requests : request[q].of = s => Fresh(request[q], s)'
    BY <1>2, <2>2, <2>3 DEF Sound, Fresh
  <2>5. status[s] = "closed" => expected'[s] = Expected(s)' + missed'[s]
    <3>1. opening[s] \in Nat /\ cash[s] \in Int /\ missed[s] \in Nat /\ n \in Nat
      BY <1>1, AmountsAreNat DEF RowOK
    <3>2. status[s] = "closed" => expected[s] = opening[s] + cash[s] + missed[s]
      BY DEF Sound, Expected
    <3>3. QED
      BY <2>2, <3>1, <3>2 DEF Expected
  <2>6. QED
    BY <1>2, <1>3, <2>4, <2>5 DEF Sound
<1>11. QED
  BY <1>5, <1>6, <1>7, <1>8, <1>9, <1>10

LEMMA RacedGrows ==
  ASSUME [Next]_vars
  PROVE  raced \subseteq raced'
<1>1. ASSUME NEW q \in Requests,
             OpenCheck(q) \/ CloseRead(q) \/ CheckSnapshot(q) \/ CloseWrite(q)
               \/ AskWrite(q) \/ RejectWrite(q) \/ Refuse(q)
      PROVE  raced' = raced
  BY <1>1 DEF OpenCheck, CloseRead, CheckSnapshot, CloseWrite, AskWrite,
              RejectWrite, Refuse
<1>2. ASSUME NEW q \in Requests, NEW s \in Shifts, NEW n \in Amounts,
             NEW treat \in Treatments \cup {Unset},
             RejectClose(q, s) \/ OpenInsert(q, s, n) \/ RequestClose(q, s, n)
               \/ ApproveClose(q, s, treat) \/ Close(q, s, n, treat)
      PROVE  raced \subseteq raced'
  BY <1>2 DEF RejectClose, OpenInsert, RequestClose, ApproveClose, Close, RacedIf
<1>3. ASSUME NEW s \in Shifts, NEW n \in Amounts, NEW d \in {-1, 1},
             AdjustCount(s, n) \/ AdjustOpening(s, n) \/ MovementPicks(s, d)
               \/ EditInvoice(s, d) \/ VoidInvoice(s, n) \/ MovementCommits(s)
      PROVE  raced \subseteq raced'
  BY <1>3 DEF AdjustCount, AdjustOpening, MovementPicks, EditInvoice,
              VoidInvoice, MovementCommits, RacedIf
<1>4. 0 \in Amounts
  BY ShiftsAssumption DEF Amounts
<1>5. QED
  BY <1>1, <1>2, <1>3, <1>4 DEF Next, vars

LEMMA WatchedStep ==
  ASSUME IInv, Watched, [Next]_vars
  PROVE  Watched'
<1> SUFFICES ASSUME NEW s \in Shifts, s \notin raced'
             PROVE  Sound(s)'
  BY DEF Watched
<1>1. Sound(s)
  BY RacedGrows DEF Watched
<1>2. ASSUME NEW q \in Requests,
             OpenCheck(q) \/ CloseRead(q) \/ CheckSnapshot(q) \/ CloseWrite(q)
               \/ AskWrite(q) \/ RejectWrite(q) \/ Refuse(q)
      PROVE  Sound(s)'
  BY <1>1, <1>2, OpenCheckSound, CloseReadSound, CheckSound, CloseWriteSound,
     AskSound, EndOnlySound
<1>3. ASSUME NEW q \in Requests, NEW p \in Shifts, NEW n \in Amounts,
             NEW treat \in Treatments \cup {Unset},
             RejectClose(q, p) \/ RequestClose(q, p, n)
               \/ ApproveClose(q, p, treat) \/ Close(q, p, n, treat)
      PROVE  Sound(s)'
  BY <1>1, <1>3, ReadSound
<1>4. ASSUME NEW q \in Requests, NEW p \in Shifts, NEW n \in Amounts,
             OpenInsert(q, p, n)
      PROVE  Sound(s)'
  BY <1>1, <1>4, OpenSound
<1>5. ASSUME NEW p \in Shifts, NEW n \in Amounts, NEW d \in {-1, 1},
             AdjustCount(p, n) \/ AdjustOpening(p, n) \/ MovementPicks(p, d)
               \/ EditInvoice(p, d) \/ VoidInvoice(p, n) \/ MovementCommits(p)
      PROVE  Sound(s)'
  BY <1>1, <1>5, RowSound
<1>6. CASE UNCHANGED vars
  BY <1>1, <1>6 DEF vars, Sound, Fresh, Expected, InFlight
<1>7. 0 \in Amounts
  BY ShiftsAssumption DEF Amounts
<1>8. QED
  BY <1>2, <1>3, <1>4, <1>5, <1>6, <1>7 DEF Next

LEMMA WatchedInit == Init => Watched
<1> SUFFICES ASSUME Init, NEW s \in Shifts
             PROVE  Sound(s)
  BY DEF Watched
<1>1. \A q \in Requests : request[q].of # s
  BY ShiftsAssumption DEF Init, Idle, Holding
<1>2. /\ status[s] = "none"
      /\ entries[s] = 0 /\ deductions[s] = 0 /\ booked[s] = 0
  BY DEF Init
<1>3. QED
  BY <1>1, <1>2 DEF Sound, InFlight

(* What holds of raced shifts as well.                                     *)
Counted ==
  /\ entries \in [Shifts -> {0, 1}]
  /\ deductions \in [Shifts -> {0, 1}]

(* The engine's guard and the unique index keep each counter at one.       *)
LEMMA BookCounts ==
  ASSUME Counted, NEW s, NEW treat, NEW variance, Book(s, treat, variance)
  PROVE  Counted'
<1> DEFINE charge == treat = "charge_employee" /\ deductions[s] = 0
           post   == variance # 0 /\ treat # "charge_employee" /\ entries[s] = 0
<1>1. /\ deductions' = [deductions EXCEPT ![s] = IF charge THEN deductions[s] + 1
                                                 ELSE deductions[s]]
      /\ entries' = [entries EXCEPT ![s] = IF post THEN entries[s] + 1
                                           ELSE entries[s]]
  BY DEF Book
<1>2. deductions' \in [Shifts -> {0, 1}]
  <2>1. CASE charge
    <3>1. deductions' = [deductions EXCEPT ![s] = 1]
      BY <1>1, <2>1
    <3>2. QED
      BY <3>1 DEF Counted
  <2>2. CASE ~charge
    <3>1. deductions' = [deductions EXCEPT ![s] = deductions[s]]
      BY <1>1, <2>2
    <3>2. QED
      BY <3>1 DEF Counted
  <2>3. QED
    BY <2>1, <2>2
<1>3. entries' \in [Shifts -> {0, 1}]
  <2>1. CASE post
    <3>1. entries' = [entries EXCEPT ![s] = 1]
      BY <1>1, <2>1
    <3>2. QED
      BY <3>1 DEF Counted
  <2>2. CASE ~post
    <3>1. entries' = [entries EXCEPT ![s] = entries[s]]
      BY <1>1, <2>2
    <3>2. QED
      BY <3>1 DEF Counted
  <2>3. QED
    BY <2>1, <2>2
<1>4. QED
  BY <1>2, <1>3 DEF Counted

(* Only close() books a variance. *)
LEMMA CountedStep ==
  ASSUME Counted, [Next]_vars
  PROVE  Counted'
<1>1. CASE UNCHANGED book
  BY <1>1 DEF Counted, book
<1>2. ASSUME NEW q \in Requests, CloseWrite(q)
      PROVE  Counted'
  <2>1. Book(request[q].of, request[q].treatment, request[q].actual - request[q].expected)
    BY <1>2 DEF CloseWrite
  <2>2. QED
    BY <2>1, BookCounts
<1>3. ASSUME NEW q \in Requests,
             OpenCheck(q) \/ CloseRead(q) \/ CheckSnapshot(q) \/ AskWrite(q)
               \/ RejectWrite(q) \/ Refuse(q)
      PROVE  UNCHANGED book
  BY <1>3 DEF OpenCheck, CloseRead, CheckSnapshot, AskWrite, RejectWrite, Refuse
<1>4. ASSUME NEW q \in Requests, NEW s \in Shifts, NEW n \in Amounts,
             NEW treat \in Treatments \cup {Unset},
             RejectClose(q, s) \/ OpenInsert(q, s, n) \/ RequestClose(q, s, n)
               \/ ApproveClose(q, s, treat) \/ Close(q, s, n, treat)
      PROVE  UNCHANGED book
  BY <1>4 DEF RejectClose, OpenInsert, RequestClose, ApproveClose, Close
<1>5. ASSUME NEW s \in Shifts, NEW n \in Amounts, NEW d \in {-1, 1},
             AdjustCount(s, n) \/ AdjustOpening(s, n) \/ MovementPicks(s, d)
               \/ EditInvoice(s, d) \/ VoidInvoice(s, n) \/ MovementCommits(s)
      PROVE  UNCHANGED book
  BY <1>5 DEF AdjustCount, AdjustOpening, MovementPicks, EditInvoice, VoidInvoice,
      MovementCommits
<1>6. CASE UNCHANGED vars
  BY <1>6, <1>1 DEF vars, book
<1>7. 0 \in Amounts
  BY ShiftsAssumption DEF Amounts
<1>8. QED
  BY <1>1, <1>2, <1>3, <1>4, <1>5, <1>6, <1>7 DEF Next

(* However the requests about a shift interleave, its variance has at most *)
(* one journal entry and one deduction; and when they kept out of each     *)
(* other's way, exactly one of the two if the shift was closed over a      *)
(* variance and none otherwise: a rejected, retried or repeated request    *)
(* books nothing, and a closed shift is not booked a second time.          *)
THEOREM BookedOnce == Spec => []VarianceOnce
<1>1. Init => Counted
  BY DEF Init, Counted
<1>2. Counted /\ [Next]_vars => Counted'
  BY CountedStep
<1>3. ASSUME Counted, Watched
      PROVE  VarianceOnce
  <2>1. \A s \in Shifts : entries[s] <= 1 /\ deductions[s] <= 1
    BY <1>3 DEF Counted
  <2>2. \A s \in Shifts \ raced :
          entries[s] + deductions[s] =
            IF status[s] = "closed" /\ booked[s] # 0 THEN 1 ELSE 0
    BY <1>3 DEF Watched, Sound
  <2>3. QED
    BY <2>1, <2>2 DEF VarianceOnce
<1>4. QED
  BY <1>1, <1>2, <1>3, IInvInit, IInvStep, WatchedInit, WatchedStep, PTL DEF Spec

(* A closed shift that nothing raced shows the cash of its movements, after *)
(* every adjustment, rejected request and later edit; only invoices voided *)
(* since make it differ, and by exactly their amounts.                     *)
THEOREM SnapshotIsCash == Spec => []SnapshotMatches
<1>1. Watched => SnapshotMatches
  BY DEF Watched, Sound, SnapshotMatches, Expected
<1>2. QED
  BY <1>1, IInvInit, IInvStep, WatchedInit, WatchedStep, PTL DEF Spec

(* Closing a shift that nothing raced books exactly what the count differs *)
(* from the cash that is there.                                            *)
THEOREM ClosingIsExplained == Spec => ClosingExplainsCash
<1>1. ASSUME IInv, Watched, [Next]_vars, NEW s \in Shifts \ raced',
             status[s] # "closed", status'[s] = "closed"
      PROVE  actual'[s] - (opening'[s] + cash'[s]) = booked'[s]
  <2>1. PICK q \in Requests : CloseWrite(q) /\ request[q].of = s
    BY <1>1, ClosedByWrite
  <2>2. Sound(s)
    BY <1>1, RacedGrows DEF Watched
  <2>3. QED
    BY <1>1, <2>1, <2>2, CloseWriteBooks DEF Expected
<1>2. IInv /\ Watched /\ [Next]_vars =>
        [\A s \in Shifts \ raced' :
           status[s] # "closed" /\ status'[s] = "closed" =>
             actual'[s] - (opening'[s] + cash'[s]) = booked'[s]]_vars
  BY <1>1
<1>3. QED
  BY <1>2, IInvInit, IInvStep, WatchedInit, WatchedStep, PTL
     DEF Spec, ClosingExplainsCash

-----------------------------------------------------------------------------
(***************************************************************************)
(* The cash desk.                                                          *)
(***************************************************************************)

(* task and payment are functions, which DeskTypeOK leaves open.  *)
Functional ==
  /\ task = [r \in Tasks |-> task[r]]
  /\ payment = [p \in Payments |-> payment[p]]

(* A transfer owns its source: no other request has it FOR UPDATE or FOR   *)
(* KEY SHARE, and the balance is still what was read.                      *)
Owned(r) ==
  task[r].pc = "transfer" =>
    /\ task[r].from # task[r].to
    /\ task[r].seen = balance[task[r].from]
    /\ \A q \in Tasks \ {r} :
         /\ task[q].pc = "transfer" => task[q].from # task[r].from
         /\ task[q].pc \in {"paying", "spending"} =>
              task[q].box # task[r].from

(* A trigger that read the balance of a box nobody overtook read the       *)
(* present one.                                                            *)
Current(r) ==
  /\ task[r].pc = "paying" /\ task[r].box \notin overtaken =>
       task[r].seen = balance[task[r].box]
  /\ task[r].pc = "returning" /\ payment[task[r].of].box \notin overtaken =>
       task[r].seen = balance[payment[task[r].of].box]

(* How far a request about a payment is says what the payment's row is,    *)
(* and only one request at a time holds that row.                          *)
Placed(r) ==
  LET p == task[r].of IN
  /\ task[r].pc = "paying" => payment[p].status = "none"
  /\ task[r].pc = "voiding" => payment[p].status # "none"
  /\ task[r].pc = "returning" => payment[p].status = "live"
  /\ task[r].pc \in Undoing => payment[p].status = "void"
  /\ task[r].pc \in {"paying", "returning"} =>
       \A q \in Tasks \ {r} :
         task[q].pc = task[r].pc => task[q].of # p

(* The cash and the entry of a payment, by the status of its row.          *)
Booked(p) ==
  LET n == Signed(p, payment[p].amount) IN
  /\ payment[p].status = "none" => moved[p] = 0 /\ posted[p] = 0
  /\ payment[p].status = "live" => moved[p] = n /\ posted[p] = n
  /\ payment[p].status = "void" =>
       /\ moved[p] = 0
       /\ p \notin overlapped =>
            /\ posted[p] \in {0, n}
            /\ (\E r \in Pcs({"posting"}) : task[r].of = p) => posted[p] = n
            /\ \/ posted[p] = 0 \/ p \in unreversed
               \/ \E r \in Pcs(Undoing) : task[r].of = p

DeskInv ==
  /\ DeskTypeOK /\ Functional
  /\ BalanceIsLedger /\ overtaken \cap Liquid = {}
  /\ \A r \in Tasks : Owned(r) /\ Current(r) /\ Placed(r)
  /\ \A p \in Payments : Booked(p)

-----------------------------------------------------------------------------
(* The types, one record at a time. *)
PaymentOK(x) ==
  \/ x = [status |-> "none"]
  \/ x \in [status : {"live", "void"}, box : Boxes \ Liquid, amount : Money]

RequestOK(x) ==
  \/ x \in [pc : {"idle", "done"}]
  \/ x \in [pc : {"transfer"}, from : Boxes, to : Boxes, amount : Money, seen : Int]
  \/ x \in [pc : {"paying"}, of : Payments, box : Boxes, amount : Money, seen : Int]
  \/ x \in [pc : {"spending"}, box : Boxes, amount : Money]
  \/ x \in [pc : {"voiding", "returning"} \cup Undoing, of : Payments, seen : Int]

MoneyOK ==
  /\ balance \in [Boxes -> Int]
  /\ ledger \in [Boxes -> Int]
  /\ moved \in [Payments -> Int]
  /\ posted \in [Payments -> Int]
  /\ overtaken \subseteq Boxes
  /\ unreversed \cup overlapped \subseteq Payments

LEMMA DeskParts ==
  DeskTypeOK <=> /\ MoneyOK
                 /\ \A p \in Payments : PaymentOK(payment[p])
                 /\ \A r \in Tasks : RequestOK(task[r])
  BY DEF DeskTypeOK, MoneyOK, PaymentOK, RequestOK

LEMMA MoneyIsInt ==
  \A n \in Money : n \in Int /\ n > 0
  BY CashDeskAssumption

LEMMA SignedIsInt ==
  ASSUME NEW p, NEW n \in Int
  PROVE  Signed(p, n) \in Int
  BY DEF Signed

(* What a request holds, by how far it is. *)
LEMMA RequestShape ==
  ASSUME NEW x, RequestOK(x)
  PROVE  /\ x.pc \in {"idle", "done", "transfer", "paying", "spending", "voiding",
                      "returning"} \cup Undoing
         /\ x.pc = "transfer" =>
              x.from \in Boxes /\ x.to \in Boxes /\ x.amount \in Money /\ x.seen \in Int
         /\ x.pc = "paying" =>
              x.of \in Payments /\ x.box \in Boxes /\ x.amount \in Money /\ x.seen \in Int
         /\ x.pc = "spending" => x.box \in Boxes /\ x.amount \in Money
         /\ x.pc \in {"voiding", "returning"} \cup Undoing =>
              /\ x.of \in Payments /\ x.seen \in Int
              /\ x \in [pc : {"voiding", "returning"} \cup Undoing, of : Payments,
                        seen : Int]
  BY DEF RequestOK, Undoing

LEMMA PaymentShape ==
  ASSUME NEW x, PaymentOK(x)
  PROVE  /\ x.status \in {"none", "live", "void"}
         /\ x.status # "none" =>
              /\ x.box \in Boxes /\ x.box \notin Liquid /\ x.amount \in Money
              /\ x \in [status : {"live", "void"}, box : Boxes \ Liquid, amount : Money]
  BY DEF PaymentOK

(* The request's record is replaced, the others stay. *)
LEMMA BecomesAt ==
  ASSUME Functional, NEW r \in Tasks, NEW x, Becomes(r, x)
  PROVE  /\ task' = [q \in Tasks |-> IF q = r THEN x ELSE task[q]]
         /\ \A q \in Tasks : task'[q] = IF q = r THEN x ELSE task[q]
         /\ task' = [q \in Tasks |-> task'[q]]
  BY DEF Functional, Becomes

(* Who holds or shares the lock of a box. *)
LEMMA Lockers ==
  ASSUME NEW r, NEW b
  PROVE  /\ MayLock(r, b) <=>
              \A q \in Tasks \ {r} :
                /\ task[q].pc = "transfer" => task[q].from # b
                /\ task[q].pc \in {"paying", "spending"} => task[q].box # b
         /\ MayUpdate(r, b) <=>
              \A q \in Tasks \ {r} :
                task[q].pc = "transfer" => task[q].from # b
  BY DEF MayLock, MayUpdate, ForUpdate, KeyShare, Pcs

-----------------------------------------------------------------------------
(* Steps that change a request only. *)

(* What the record x of request r must satisfy in the present state. *)
Fits(r, x) ==
  /\ RequestOK(x)
  /\ x.pc = "transfer" =>
       /\ x.from # x.to
       /\ x.seen = balance[x.from]
       /\ MayLock(r, x.from)
  /\ x.pc \in {"paying", "spending"} => MayUpdate(r, x.box)
  /\ x.pc = "paying" =>
       /\ x.seen = balance[x.box]
       /\ payment[x.of].status = "none"
  /\ x.pc = "voiding" => payment[x.of].status # "none"
  /\ x.pc = "returning" =>
       /\ x.seen = balance[payment[x.of].box]
       /\ payment[x.of].status = "live"
  /\ x.pc \in Undoing => payment[x.of].status = "void"
  /\ x.pc = "posting" => posted[x.of] = Signed(x.of, payment[x.of].amount)
  /\ x.pc \in {"paying", "returning"} =>
       \A q \in Tasks \ {r} : task[q].pc = x.pc => task[q].of # x.of
  /\ task[r].pc \in Undoing /\ task[r].of \notin overlapped =>
       \/ x.pc \in Undoing /\ x.of = task[r].of
       \/ posted[task[r].of] = 0

LEMMA QuietKeeps ==
  ASSUME DeskInv, NEW r \in Tasks, NEW x, Fits(r, x), Becomes(r, x),
         UNCHANGED <<boxes, rows, histories>>
  PROVE  DeskInv'
<1>1. /\ balance' = balance /\ ledger' = ledger /\ payment' = payment
      /\ moved' = moved /\ posted' = posted /\ overtaken' = overtaken
      /\ unreversed' = unreversed /\ overlapped' = overlapped
  BY DEF boxes, rows, histories
<1>2. /\ \A q \in Tasks : task'[q] = IF q = r THEN x ELSE task[q]
      /\ Functional'
  BY <1>1, BecomesAt DEF DeskInv, Functional
<1>3. DeskTypeOK'
  <2>1. \A q \in Tasks : RequestOK(task'[q])
    BY <1>2, DeskParts DEF DeskInv, Fits
  <2>2. MoneyOK' /\ \A p \in Payments : PaymentOK(payment'[p])
    BY <1>1, DeskParts DEF DeskInv, MoneyOK
  <2>3. QED
    BY <2>1, <2>2 DEF DeskTypeOK, MoneyOK, PaymentOK, RequestOK
<1>4. BalanceIsLedger' /\ (overtaken \cap Liquid = {})'
  BY <1>1 DEF DeskInv, BalanceIsLedger
<1>5. \A q \in Tasks : Owned(q)'
  <2>1. ASSUME NEW q \in Tasks, task'[q].pc = "transfer",
               NEW o \in Tasks \ {q}
        PROVE  /\ task'[q].seen = balance[task'[q].from]
               /\ task'[o].pc = "transfer" => task'[o].from # task'[q].from
               /\ task'[o].pc \in {"paying", "spending"} =>
                    task'[o].box # task'[q].from
    BY <1>2, <2>1, Lockers DEF DeskInv, Owned, Fits
  <2>2. ASSUME NEW q \in Tasks, task'[q].pc = "transfer"
        PROVE  /\ task'[q].from # task'[q].to
               /\ task'[q].seen = balance[task'[q].from]
    BY <1>2, <2>2 DEF DeskInv, Owned, Fits
  <2>3. QED
    BY <1>1, <2>1, <2>2 DEF Owned
<1>6. \A q \in Tasks : Current(q)'
  BY <1>1, <1>2 DEF DeskInv, Current, Fits
<1>7. \A q \in Tasks : Placed(q)'
  <2>1. ASSUME NEW q \in Tasks, q # r
        PROVE  Placed(q)'
    BY <1>1, <1>2, <2>1 DEF DeskInv, Placed, Fits
  <2>2. Placed(r)'
    BY <1>1, <1>2 DEF Placed, Fits
  <2>3. QED
    BY <2>1, <2>2
<1>8. \A p \in Payments : Booked(p)'
  <2> SUFFICES ASSUME NEW p \in Payments
               PROVE  Booked(p)'
    OBVIOUS
  <2>1. Booked(p)
    BY DEF DeskInv
  <2> DEFINE n == Signed(p, payment[p].amount)
  <2>2. CASE payment[p].status # "void"
    BY <1>1, <2>1, <2>2 DEF Booked, Signed
  <2>3. CASE payment[p].status = "void" /\ p \in overlapped
    BY <1>1, <2>1, <2>3 DEF Booked, Signed
  <2>4. CASE payment[p].status = "void" /\ p \notin overlapped
    <3>1. (\E q \in Tasks : task'[q].pc = "posting" /\ task'[q].of = p)
            => posted[p] = n
      BY <1>2, <2>1, <2>4 DEF Booked, Fits, Pcs
    <3>2. \/ posted[p] = 0 \/ p \in unreversed
          \/ \E q \in Tasks : task'[q].pc \in Undoing /\ task'[q].of = p
      BY <1>2, <2>1, <2>4 DEF Booked, Fits, Pcs
    <3>3. QED
      BY <1>1, <2>1, <2>4, <3>1, <3>2 DEF Booked, Signed, Pcs
  <2>5. QED
    BY <2>2, <2>3, <2>4
<1>9. QED
  BY <1>2, <1>3, <1>4, <1>5, <1>6, <1>7, <1>8 DEF DeskInv

(* An answered request holds nothing; only a reversal that was still to do *)
(* would be missed.                                                        *)
LEMMA EndFits ==
  ASSUME DeskInv, NEW r \in Tasks, task[r].pc \notin Undoing
  PROVE  Fits(r, [pc |-> "done"])
  BY DEF Fits, RequestOK, Undoing

LEMMA EndQuietly ==
  ASSUME DeskInv, NEW r \in Tasks,
         RefuseTransfer(r) \/ RefuseExpense(r) \/ RefusePayment(r) \/ Deadlocked(r)
  PROVE  DeskInv'
<1>1. Ends(r) /\ UNCHANGED <<boxes, rows, histories>>
  BY DEF RefuseTransfer, RefuseExpense, RefusePayment, Deadlocked
<1>2. task[r].pc \in {"transfer", "spending", "paying"}
  BY DEF RefuseTransfer, RefuseExpense, RefusePayment, Deadlocked, Wants
<1>3. QED
  BY <1>1, <1>2, EndFits, QuietKeeps DEF Ends, Undoing

(* The first statements of a transfer, an expense and a payment.           *)
LEMMA BeginKeeps ==
  ASSUME DeskInv, NEW r \in Tasks, NEW b \in Boxes, NEW c, NEW n \in Money,
         NEW p,
         \/ c \in Boxes /\ LockSource(r, b, c, n)
         \/ InsertExpense(r, b, n)
         \/ p \in Payments /\ InsertPayment(r, p, b, n)
  PROVE  DeskInv'
<1>1. task[r].pc = "idle" /\ UNCHANGED <<boxes, rows, histories>>
  BY DEF LockSource, InsertExpense, InsertPayment
<1>2. balance[b] \in Int
  BY DeskParts DEF DeskInv, MoneyOK
<1>3. CASE c \in Boxes /\ LockSource(r, b, c, n)
  <2> DEFINE x == [pc |-> "transfer", from |-> b, to |-> c, amount |-> n,
                   seen |-> balance[b]]
  <2>1. Becomes(r, x) /\ MayLock(r, b) /\ b # c /\ c \in Boxes
    BY <1>3 DEF LockSource
  <2>2. Fits(r, x)
    BY <1>1, <1>2, <2>1 DEF Fits, RequestOK, Undoing
  <2>3. QED
    BY <1>1, <2>1, <2>2, QuietKeeps
<1>4. CASE InsertExpense(r, b, n)
  <2> DEFINE x == [pc |-> "spending", box |-> b, amount |-> n]
  <2>1. Becomes(r, x) /\ MayUpdate(r, b)
    BY <1>4 DEF InsertExpense
  <2>2. Fits(r, x)
    BY <1>1, <2>1 DEF Fits, RequestOK, Undoing
  <2>3. QED
    BY <1>1, <2>1, <2>2, QuietKeeps
<1>5. CASE p \in Payments /\ InsertPayment(r, p, b, n)
  <2> DEFINE x == [pc |-> "paying", of |-> p, box |-> b, amount |-> n,
                   seen |-> balance[b]]
  <2>1. /\ Becomes(r, x) /\ MayUpdate(r, b) /\ p \in Payments
        /\ payment[p].status = "none"
        /\ \A q \in Tasks : task[q].pc = "paying" => task[q].of # p
    BY <1>5 DEF InsertPayment, Pcs
  <2>2. Fits(r, x)
    BY <1>1, <1>2, <2>1 DEF Fits, RequestOK, Undoing
  <2>3. QED
    BY <1>1, <2>1, <2>2, QuietKeeps
<1>6. QED
  BY <1>3, <1>4, <1>5

LEMMA AskVoidKeeps ==
  ASSUME DeskInv, NEW r \in Tasks, NEW p \in Payments, AskVoid(r, p)
  PROVE  DeskInv'
<1> DEFINE x == [pc |-> "voiding", of |-> p, seen |-> 0]
<1>1. /\ Becomes(r, x) /\ payment[p].status # "none" /\ task[r].pc = "idle"
      /\ UNCHANGED <<boxes, rows, histories>>
  BY DEF AskVoid
<1>2. Fits(r, x)
  BY <1>1 DEF Fits, RequestOK, Undoing
<1>3. QED
  BY <1>1, <1>2, QuietKeeps

(* The void's UPDATE finds the row live and nobody else turning it, or it  *)
(* is void already.                                                        *)
LEMMA BeginVoidKeeps ==
  ASSUME DeskInv, NEW r \in Tasks, BeginVoid(r)
  PROVE  DeskInv'
<1> DEFINE p == task[r].of
           next == IF payment[p].status = "live" THEN "returning" ELSE "reversing"
           x == [pc |-> next, of |-> p, seen |-> balance[payment[p].box]]
<1>1. /\ task[r].pc = "voiding" /\ Becomes(r, x)
      /\ \A q \in Tasks : task[q].pc = "returning" => task[q].of # p
      /\ UNCHANGED <<boxes, rows, histories>>
  BY DEF BeginVoid, Pcs
<1>2. p \in Payments /\ payment[p].status # "none"
  BY <1>1, RequestShape, DeskParts DEF DeskInv, Placed
<1>3. payment[p].status \in {"live", "void"} /\ payment[p].box \in Boxes
  BY <1>2, PaymentShape, DeskParts DEF DeskInv
<1>4. balance[payment[p].box] \in Int
  BY <1>3, DeskParts DEF DeskInv, MoneyOK
<1>5. Fits(r, x)
  <2>1. next \in {"returning", "reversing"}
    OBVIOUS
  <2>2. RequestOK(x)
    BY <1>2, <1>4, <2>1 DEF RequestOK, Undoing
  <2>3. QED
    BY <1>1, <1>3, <2>2 DEF Fits, Undoing
<1>6. QED
  BY <1>1, <1>5, QuietKeeps

(* A reversal that finds no live entry has nothing to do: the entry of a   *)
(* void payment that is not live is gone.                                  *)
LEMMA FindEntryKeeps ==
  ASSUME DeskInv, NEW r \in Tasks, FindEntry(r)
  PROVE  DeskInv'
<1> DEFINE p == task[r].of
           n == Signed(p, payment[p].amount)
<1>1. task[r].pc = "reversing" /\ UNCHANGED <<boxes, rows, histories>>
  BY DEF FindEntry
<1>2. /\ p \in Payments /\ payment[p].status = "void"
      /\ task[r] \in [pc : {"voiding", "returning"} \cup Undoing, of : Payments,
                         seen : Int]
  BY <1>1, RequestShape, DeskParts DEF DeskInv, Placed, Undoing
<1>3. Booked(p)
  BY <1>2 DEF DeskInv
<1>4. CASE posted[p] = n
  <2> DEFINE x == [task[r] EXCEPT !.pc = "posting"]
  <2>1. Becomes(r, x)
    BY <1>4 DEF FindEntry
  <2>2. /\ x.pc = "posting" /\ x.of = p
        /\ x \in [pc : {"voiding", "returning"} \cup Undoing, of : Payments,
                  seen : Int]
    BY <1>2 DEF Undoing
  <2>3. Fits(r, x)
    <3> HIDE DEF x
    <3>1. QED
      BY <1>1, <1>2, <1>4, <2>2 DEF Fits, RequestOK, Undoing
  <2>4. QED
    BY <1>1, <2>1, <2>3, QuietKeeps
<1>5. CASE posted[p] # n
  <2> DEFINE x == [pc |-> "done"]
  <2>1. Becomes(r, x)
    BY <1>5 DEF FindEntry, Ends
  <2>2. Fits(r, x)
    BY <1>1, <1>2, <1>3, <1>5 DEF Fits, RequestOK, Undoing, Booked
  <2>3. QED
    BY <1>1, <2>1, <2>2, QuietKeeps
<1>6. QED
  BY <1>4, <1>5

-----------------------------------------------------------------------------
(* The engine's movements. *)

(* Whoever can lock a box finds no payment that has read it, and a void    *)
(* reads only boxes with an account of their own.                          *)
LEMMA NobodyReads ==
  ASSUME DeskInv, NEW r \in Tasks, NEW b \in Boxes, MayLock(r, b),
         task[r].pc \notin {"paying", "returning"}
  PROVE  /\ Readers(b) = {q \in Tasks : /\ task[q].pc = "returning"
                                        /\ payment[task[q].of].box = b}
         /\ b \in Liquid => Readers(b) = {}
<1>1. \A q \in Tasks : task[q].pc = "paying" => task[q].box # b
  BY Lockers
<1>2. Readers(b) = {q \in Tasks : /\ task[q].pc = "returning"
                                 /\ payment[task[q].of].box = b}
  BY <1>1 DEF Readers, Pcs
<1>3. ASSUME NEW q \in Tasks, task[q].pc = "returning"
      PROVE  payment[task[q].of].box \notin Liquid
  <2>1. task[q].of \in Payments /\ Placed(q)
    BY <1>3, RequestShape, DeskParts DEF DeskInv
  <2>2. QED
    BY <1>3, <2>1, PaymentShape, DeskParts DEF DeskInv, Placed
<1>4. QED
  BY <1>2, <1>3

(* What it moves, it moves in boxes whose lock it can have: no transfer    *)
(* owns them, and the trigger that has read one is overtaken.              *)
LEMMA EngineKeeps ==
  ASSUME DeskInv, NEW r \in Tasks, NEW deltas \in [Boxes -> Int],
         task[r].pc \notin Undoing,
         Ends(r), Record(deltas), UNCHANGED <<rows, unreversed, overlapped>>,
         overtaken \subseteq overtaken', overtaken' \subseteq Boxes \ Liquid,
         \A b \in Boxes : deltas[b] # 0 =>
           /\ MayLock(r, b)
           /\ b \notin overtaken' =>
                \A q \in Tasks :
                  task[q].pc = "returning" => payment[task[q].of].box # b
  PROVE  DeskInv'
<1>1. /\ payment' = payment /\ moved' = moved /\ posted' = posted
      /\ unreversed' = unreversed /\ overlapped' = overlapped
      /\ balance' = [b \in Boxes |-> balance[b] + deltas[b]]
      /\ ledger' = [b \in Boxes |-> ledger[b] + deltas[b]]
  BY DEF rows, Record
<1>2. /\ \A q \in Tasks : task'[q] = IF q = r THEN [pc |-> "done"] ELSE task[q]
      /\ Functional'
  BY <1>1, BecomesAt DEF DeskInv, Functional, Ends
<1>3. MoneyOK /\ \A b \in Boxes : balance[b] \in Int /\ ledger[b] \in Int
  BY DeskParts DEF DeskInv, MoneyOK
<1>4. \A b \in Boxes : deltas[b] = 0 => balance'[b] = balance[b]
  BY <1>1, <1>3
<1>5. DeskTypeOK'
  <2>1. MoneyOK'
    BY <1>1, <1>3 DEF MoneyOK
  <2>2. /\ \A q \in Tasks : RequestOK(task'[q])
        /\ \A p \in Payments : PaymentOK(payment'[p])
    BY <1>1, <1>2, DeskParts DEF DeskInv, RequestOK
  <2>3. QED
    BY <2>1, <2>2 DEF DeskTypeOK, MoneyOK, PaymentOK, RequestOK
<1>6. BalanceIsLedger'
  <2>1. \A b \in Boxes \ overtaken' : balance[b] = ledger[b]
    BY DEF DeskInv, BalanceIsLedger
  <2>2. \A b \in Boxes \ overtaken' : balance'[b] = ledger'[b]
    BY <1>1, <1>3, <2>1
  <2>3. QED
    BY <2>2 DEF BalanceIsLedger
<1>7. \A q \in Tasks : Owned(q)'
  <2> SUFFICES ASSUME NEW q \in Tasks, q # r, task[q].pc = "transfer"
               PROVE  Owned(q)'
    BY <1>2 DEF Owned
  <2>1. task[q].from \in Boxes /\ Owned(q)
    BY RequestShape, DeskParts DEF DeskInv
  <2>2. deltas[task[q].from] = 0
    BY <2>1, Lockers
  <2>3. QED
    BY <1>2, <1>4, <2>1, <2>2 DEF Owned
<1>8. \A q \in Tasks : Current(q)'
  <2> SUFFICES ASSUME NEW q \in Tasks, q # r,
                      task[q].pc \in {"paying", "returning"}
               PROVE  Current(q)'
    BY <1>2 DEF Current
  <2>1. Current(q) /\ Placed(q)
    BY DEF DeskInv
  <2>2. CASE task[q].pc = "paying"
    <3>1. task[q].box \in Boxes
      BY <2>2, RequestShape, DeskParts DEF DeskInv
    <3>2. deltas[task[q].box] = 0
      BY <2>2, <3>1, Lockers
    <3>3. QED
      BY <1>1, <1>2, <1>4, <2>1, <2>2, <3>1, <3>2 DEF Current
  <2>3. CASE task[q].pc = "returning"
    <3> DEFINE p == task[q].of
    <3>1. p \in Payments
      BY <2>3, RequestShape, DeskParts DEF DeskInv
    <3>2. payment[p].box \in Boxes
      BY <2>1, <2>3, <3>1, PaymentShape, DeskParts DEF DeskInv, Placed
    <3>3. payment[p].box \notin overtaken' => deltas[payment[p].box] = 0
      BY <2>3, <3>2
    <3>4. QED
      BY <1>1, <1>2, <1>4, <2>1, <2>3, <3>2, <3>3 DEF Current
  <2>4. QED
    BY <2>2, <2>3
<1>9. \A q \in Tasks : Placed(q)'
  BY <1>1, <1>2 DEF DeskInv, Placed, Undoing
<1>10. \A p \in Payments : Booked(p)'
  BY <1>1, <1>2 DEF DeskInv, Booked, Signed, Pcs, Undoing
<1>11. QED
  BY <1>2, <1>5, <1>6, <1>7, <1>8, <1>9, <1>10 DEF DeskInv

LEMMA SingleAt ==
  ASSUME NEW b \in Boxes, NEW n \in Int
  PROVE  /\ Single(b, n) \in [Boxes -> Int]
         /\ \A c \in Boxes : Single(b, n)[c] # 0 => c = b
  BY DEF Single

LEMMA MoveKeeps ==
  ASSUME DeskInv, NEW r \in Tasks, NEW b \in Boxes, NEW n \in Int, Move(r, b, n)
  PROVE  DeskInv'
<1>1. /\ task[r].pc = "idle" /\ Ends(r) /\ Record(Single(b, n)) /\ MayLock(r, b)
      /\ overtaken' = IF Readers(b) = {} THEN overtaken ELSE overtaken \cup {b}
      /\ UNCHANGED <<rows, unreversed, overlapped>>
  BY DEF Move
<1>2. /\ Readers(b) = {q \in Tasks : /\ task[q].pc = "returning"
                                     /\ payment[task[q].of].box = b}
      /\ b \in Liquid => Readers(b) = {}
  BY <1>1, NobodyReads
<1>3. overtaken \subseteq overtaken' /\ overtaken' \subseteq Boxes \ Liquid
  BY <1>1, <1>2, DeskParts DEF DeskInv, MoneyOK
<1>4. b \notin overtaken' =>
        \A q \in Tasks : task[q].pc = "returning" => payment[task[q].of].box # b
  BY <1>1, <1>2
<1>5. QED
  BY <1>1, <1>3, <1>4, SingleAt, EngineKeeps DEF Undoing

LEMMA PostExpenseKeeps ==
  ASSUME DeskInv, NEW r \in Tasks, PostExpense(r)
  PROVE  DeskInv'
<1> DEFINE b == task[r].box
           n == -task[r].amount
<1>1. /\ task[r].pc = "spending" /\ Ends(r) /\ Record(Single(b, n))
      /\ UNCHANGED <<rows, overtaken, unreversed, overlapped>>
      /\ b \in Liquid /\ MayLock(r, b)
  BY DEF PostExpense, histories
<1>2. b \in Boxes /\ n \in Int
  BY RequestShape, DeskParts, MoneyIsInt DEF DeskInv, PostExpense
<1>3. \A q \in Tasks : task[q].pc = "returning" => payment[task[q].of].box # b
  BY <1>1, <1>2, NobodyReads
<1>4. overtaken' \subseteq Boxes \ Liquid
  BY <1>1, DeskParts DEF DeskInv, MoneyOK
<1> HIDE DEF b, n
<1>5. QED
  BY <1>1, <1>2, <1>3, <1>4, SingleAt, EngineKeeps DEF Undoing

LEMMA TransferKeeps ==
  ASSUME DeskInv, NEW r \in Tasks, Transfer(r)
  PROVE  DeskInv'
<1> DEFINE t == task[r]
           deltas == [b \in Boxes |-> CASE b = t.from -> -t.amount
                                        [] b = t.to -> t.amount
                                        [] OTHER -> 0]
<1>1. /\ t.pc = "transfer" /\ Ends(r) /\ Record(deltas) /\ MayLock(r, t.to)
      /\ UNCHANGED <<rows, overtaken, unreversed, overlapped>>
      /\ {t.from, t.to} \subseteq Liquid
  BY DEF Transfer, histories
<1>2. t.from \in Boxes /\ t.to \in Boxes /\ t.amount \in Int
  BY <1>1, RequestShape, DeskParts, MoneyIsInt DEF DeskInv
<1>3. deltas \in [Boxes -> Int]
  BY <1>2
<1>4. MayLock(r, t.from)
  BY <1>1, Lockers DEF DeskInv, Owned
<1>5. \A b \in Boxes : deltas[b] # 0 => b \in Liquid /\ MayLock(r, b)
  BY <1>1, <1>4
<1> HIDE DEF deltas
<1>6. \A b \in Boxes : deltas[b] # 0 =>
        /\ MayLock(r, b)
        /\ \A q \in Tasks : task[q].pc = "returning" => payment[task[q].of].box # b
  BY <1>1, <1>5, NobodyReads
<1>7. overtaken' \subseteq Boxes \ Liquid
  BY <1>1, DeskParts DEF DeskInv, MoneyOK
<1>8. QED
  BY <1>1, <1>3, <1>6, <1>7, EngineKeeps DEF Undoing

-----------------------------------------------------------------------------
(* The payment triggers. *)

LEMMA ReadersOf ==
  ASSUME NEW r, NEW b
  PROVE  Readers(b) \subseteq {r} <=>
           \A q \in Tasks \ {r} :
             /\ task[q].pc = "paying" => task[q].box # b
             /\ task[q].pc = "returning" => payment[task[q].of].box # b
  BY DEF Readers, Pcs

(* A write back that overtakes nobody wrote the present balance, plus the  *)
(* payment; it waits for the transfers that own the box.                   *)
LEMMA WriteBackKeeps ==
  ASSUME DeskInv, NEW r \in Tasks, task[r].pc \in {"paying", "returning"},
         NEW b \in Boxes, NEW seen \in Int, NEW delta \in Int, NEW x,
         b \notin Liquid, MayUpdate(r, b), WriteBack(r, b, seen, delta),
         b \notin overtaken => seen = balance[b],
         Becomes(r, x), x.pc \notin {"transfer", "spending", "paying", "returning"},
         \A q \in Tasks \ {r} : task[q].pc = "returning" =>
           payment'[task[q].of].box = payment[task[q].of].box
  PROVE  /\ balance' \in [Boxes -> Int] /\ ledger' \in [Boxes -> Int]
         /\ overtaken' \subseteq Boxes
         /\ BalanceIsLedger' /\ (overtaken \cap Liquid = {})'
         /\ \A q \in Tasks : Owned(q)' /\ Current(q)'
<1>1. /\ balance' = [balance EXCEPT ![b] = seen + delta]
      /\ ledger' = [ledger EXCEPT ![b] = ledger[b] + delta]
      /\ overtaken \subseteq overtaken' /\ overtaken' \subseteq overtaken \cup {b}
      /\ b \notin overtaken' => b \notin overtaken /\ Readers(b) \subseteq {r}
  BY DEF WriteBack
<1>2. /\ balance \in [Boxes -> Int] /\ ledger \in [Boxes -> Int]
      /\ overtaken \subseteq Boxes
  BY DeskParts DEF DeskInv, MoneyOK
<1>3. /\ balance' \in [Boxes -> Int] /\ ledger' \in [Boxes -> Int]
      /\ overtaken' \subseteq Boxes /\ (overtaken \cap Liquid = {})'
  BY <1>1, <1>2 DEF DeskInv
<1>4. /\ balance'[b] = seen + delta /\ ledger'[b] = ledger[b] + delta
      /\ \A c \in Boxes \ {b} : balance'[c] = balance[c] /\ ledger'[c] = ledger[c]
  BY <1>1, <1>2
<1>5. BalanceIsLedger'
  BY <1>1, <1>2, <1>4 DEF DeskInv, BalanceIsLedger
<1>6. \A q \in Tasks : task'[q] = IF q = r THEN x ELSE task[q]
  BY BecomesAt DEF DeskInv
<1>7. \A q \in Tasks : Owned(q)'
  <2> SUFFICES ASSUME NEW q \in Tasks, q # r, task[q].pc = "transfer"
               PROVE  Owned(q)'
    BY <1>6 DEF Owned
  <2>1. task[q].from \in Boxes /\ task[q].from # b /\ Owned(q)
    BY RequestShape, DeskParts, Lockers DEF DeskInv
  <2>2. balance'[task[q].from] = balance[task[q].from]
    BY <1>4, <2>1
  <2>3. QED
    BY <1>6, <2>1, <2>2 DEF Owned
<1>8. \A q \in Tasks : Current(q)'
  <2> SUFFICES ASSUME NEW q \in Tasks, q # r,
                      task[q].pc \in {"paying", "returning"}
               PROVE  Current(q)'
    BY <1>6 DEF Current
  <2>1. Current(q) /\ Placed(q) /\ task'[q] = task[q]
    BY <1>6 DEF DeskInv
  <2>2. CASE task[q].pc = "paying"
    <3>1. task[q].box \in Boxes
      BY <2>2, RequestShape, DeskParts DEF DeskInv
    <3>2. task[q].box = b => b \in overtaken'
      BY <1>1, <2>2, ReadersOf
    <3>3. QED
      BY <1>1, <1>4, <2>1, <2>2, <3>1, <3>2 DEF Current
  <2>3. CASE task[q].pc = "returning"
    <3> DEFINE p == task[q].of
    <3>1. p \in Payments
      BY <2>3, RequestShape, DeskParts DEF DeskInv
    <3>2. payment[p].box \in Boxes /\ payment'[p].box = payment[p].box
      BY <2>1, <2>3, <3>1, PaymentShape, DeskParts DEF DeskInv, Placed
    <3>3. payment[p].box = b => b \in overtaken'
      BY <1>1, <2>3, ReadersOf
    <3>4. QED
      BY <1>1, <1>4, <2>1, <2>3, <3>2, <3>3 DEF Current
  <2>4. QED
    BY <2>2, <2>3
<1>9. QED
  BY <1>3, <1>5, <1>7, <1>8

(* A payment commits: its row was not there, so nobody but its own request *)
(* is about it.                                                            *)
LEMMA CommitPaymentKeeps ==
  ASSUME DeskInv, NEW r \in Tasks, CommitPayment(r)
  PROVE  DeskInv'
<1> DEFINE p == task[r].of
           b == task[r].box
           a == task[r].amount
           n == Signed(p, a)
           new == [status |-> "live", box |-> b, amount |-> a]
<1>1. /\ task[r].pc = "paying" /\ b \notin Liquid /\ MayUpdate(r, b)
      /\ WriteBack(r, b, task[r].seen, n)
      /\ payment' = [payment EXCEPT ![p] = new]
      /\ moved' = [moved EXCEPT ![p] = n] /\ posted' = [posted EXCEPT ![p] = n]
      /\ Ends(r) /\ unreversed' = unreversed /\ overlapped' = overlapped
  BY DEF CommitPayment
<1>2. /\ p \in Payments /\ b \in Boxes /\ a \in Money /\ task[r].seen \in Int
      /\ payment[p].status = "none"
      /\ \A q \in Tasks \ {r} : task[q].pc = "paying" => task[q].of # p
  BY <1>1, RequestShape, DeskParts DEF DeskInv, Placed
<1>3. n \in Int
  BY <1>2, MoneyIsInt, SignedIsInt
<1>4. /\ \A q \in Tasks : task'[q] = IF q = r THEN [pc |-> "done"] ELSE task[q]
      /\ task' = [q \in Tasks |-> task'[q]]
  BY <1>1, BecomesAt DEF DeskInv, Ends
<1>5. /\ payment' = [o \in Payments |-> payment'[o]]
      /\ \A o \in Payments : payment'[o] = IF o = p THEN new ELSE payment[o]
  BY <1>1, <1>2 DEF DeskInv, Functional
<1>6. Functional'
  BY <1>4, <1>5 DEF Functional
<1>7. \A q \in Tasks \ {r} :
        /\ task[q].pc \in {"voiding", "returning"} \cup Undoing => task[q].of # p
        /\ task[q].pc \in {"paying", "voiding", "returning"} \cup Undoing =>
             payment'[task[q].of] = payment[task[q].of]
  <2>1. ASSUME NEW q \in Tasks \ {r},
               task[q].pc \in {"paying", "voiding", "returning"} \cup Undoing
        PROVE  task[q].of # p /\ task[q].of \in Payments
    BY <1>2, <2>1, RequestShape, DeskParts DEF DeskInv, Placed
  <2>2. QED
    BY <1>5, <2>1
<1>8. /\ balance' \in [Boxes -> Int] /\ ledger' \in [Boxes -> Int]
      /\ overtaken' \subseteq Boxes
      /\ BalanceIsLedger' /\ (overtaken \cap Liquid = {})'
      /\ \A q \in Tasks : Owned(q)' /\ Current(q)'
  <2>1. b \notin overtaken => task[r].seen = balance[b]
    BY <1>1 DEF DeskInv, Current
  <2>2. Becomes(r, [pc |-> "done"])
    BY <1>1 DEF Ends
  <2> HIDE DEF n, b
  <2>3. QED
    BY <1>1, <1>2, <1>3, <1>7, <2>1, <2>2, WriteBackKeeps
<1>9. DeskTypeOK'
  <2>1. MoneyOK'
    BY <1>1, <1>2, <1>3, <1>8, DeskParts DEF DeskInv, MoneyOK
  <2>2. \A q \in Tasks : RequestOK(task'[q])
    BY <1>4, DeskParts DEF DeskInv, RequestOK
  <2>3. \A o \in Payments : PaymentOK(payment'[o])
    BY <1>1, <1>2, <1>5, DeskParts DEF DeskInv, PaymentOK
  <2>4. QED
    BY <2>1, <2>2, <2>3 DEF DeskTypeOK, MoneyOK, PaymentOK, RequestOK
<1>10. \A q \in Tasks : Placed(q)'
  BY <1>4, <1>7 DEF DeskInv, Placed, Undoing
<1>11. \A o \in Payments : Booked(o)'
  <2>1. ASSUME NEW o \in Payments, o = p
        PROVE  Booked(o)'
    <3>1. moved'[o] = n /\ posted'[o] = n /\ payment'[o] = new
      BY <1>1, <1>2, <1>3, <1>5, <2>1, DeskParts DEF DeskInv, MoneyOK
    <3>2. QED
      BY <2>1, <3>1 DEF Booked, Signed
  <2>2. ASSUME NEW o \in Payments, o # p
        PROVE  Booked(o)'
    <3>1. moved'[o] = moved[o] /\ posted'[o] = posted[o] /\ payment'[o] = payment[o]
      BY <1>1, <1>5, <2>2, DeskParts DEF DeskInv, MoneyOK
    <3>2. \A q \in Tasks, S \in {{"posting"}, Undoing} :
            task'[q].pc \in S /\ task'[q].of = o
              <=> task[q].pc \in S /\ task[q].of = o
      BY <1>1, <1>4 DEF Undoing
    <3>3. Booked(o) /\ Signed(o, payment'[o].amount) = Signed(o, payment[o].amount)
          /\ unreversed' = unreversed /\ overlapped' = overlapped
      BY <1>1, <3>1 DEF DeskInv, Signed
    <3>4. /\ (\E q \in Tasks : task'[q].pc \in {"posting"} /\ task'[q].of = o)
            <=> \E q \in Tasks : task[q].pc \in {"posting"} /\ task[q].of = o
          /\ (\E q \in Tasks : task'[q].pc \in Undoing /\ task'[q].of = o)
            <=> \E q \in Tasks : task[q].pc \in Undoing /\ task[q].of = o
      BY <3>2
    <3>5. QED
      BY <3>1, <3>3, <3>4 DEF Booked, Pcs
  <2>3. QED
    BY <2>1, <2>2
<1>12. QED
  BY <1>6, <1>8, <1>9, <1>10, <1>11 DEF DeskInv

(* A void commits: the row was live, and this request turned it.           *)
LEMMA CommitVoidKeeps ==
  ASSUME DeskInv, NEW r \in Tasks, CommitVoid(r)
  PROVE  DeskInv'
<1> DEFINE p == task[r].of
           b == payment[p].box
           m == Signed(p, payment[p].amount)
           n == -m
           x == [task[r] EXCEPT !.pc = "reversing"]
<1>1. /\ task[r].pc = "returning" /\ MayUpdate(r, b)
      /\ WriteBack(r, b, task[r].seen, n)
      /\ payment' = [payment EXCEPT ![p] = [payment[p] EXCEPT !.status = "void"]]
      /\ moved' = [moved EXCEPT ![p] = moved[p] + n] /\ posted' = posted
      /\ Becomes(r, x) /\ unreversed' = unreversed /\ overlapped' = overlapped
  BY DEF CommitVoid
<1>2. /\ p \in Payments /\ task[r].seen \in Int
      /\ task[r] \in [pc : {"voiding", "returning"} \cup Undoing, of : Payments,
                         seen : Int]
      /\ payment[p].status = "live"
      /\ \A q \in Tasks \ {r} : task[q].pc = "returning" => task[q].of # p
  BY <1>1, RequestShape, DeskParts DEF DeskInv, Placed
<1>3. /\ b \in Boxes /\ b \notin Liquid /\ payment[p].amount \in Money
      /\ payment[p] \in [status : {"live", "void"}, box : Boxes \ Liquid,
                         amount : Money]
  BY <1>2, PaymentShape, DeskParts DEF DeskInv
<1>4. m \in Int /\ n \in Int
  BY <1>3, MoneyIsInt, SignedIsInt
<1>5. x.pc = "reversing" /\ x.of = p
      /\ x \in [pc : Undoing, of : Payments, seen : Int]
  BY <1>2 DEF Undoing
<1>6. /\ \A q \in Tasks : task'[q] = IF q = r THEN x ELSE task[q]
      /\ task' = [q \in Tasks |-> task'[q]]
  BY <1>1, BecomesAt DEF DeskInv
<1>7. /\ payment' = [o \in Payments |-> payment'[o]]
      /\ \A o \in Payments \ {p} : payment'[o] = payment[o]
      /\ payment'[p].status = "void" /\ payment'[p].box = b
      /\ payment'[p].amount = payment[p].amount
      /\ payment'[p] \in [status : {"live", "void"}, box : Boxes \ Liquid,
                          amount : Money]
  BY <1>1, <1>2, <1>3 DEF DeskInv, Functional
<1> HIDE DEF x
<1>8. Functional'
  BY <1>6, <1>7 DEF Functional
<1>9. /\ balance' \in [Boxes -> Int] /\ ledger' \in [Boxes -> Int]
      /\ overtaken' \subseteq Boxes
      /\ BalanceIsLedger' /\ (overtaken \cap Liquid = {})'
      /\ \A q \in Tasks : Owned(q)' /\ Current(q)'
  <2>1. b \notin overtaken => task[r].seen = balance[b]
    BY <1>1 DEF DeskInv, Current
  <2>2. \A q \in Tasks \ {r} : task[q].pc = "returning" =>
          payment'[task[q].of].box = payment[task[q].of].box
    BY <1>2, <1>7, RequestShape, DeskParts DEF DeskInv
  <2>3. x.pc \notin {"transfer", "spending", "paying", "returning"}
    BY <1>5
  <2> HIDE DEF n, b
  <2>4. QED
    BY <1>1, <1>2, <1>3, <1>4, <2>1, <2>2, <2>3, WriteBackKeeps
<1>10. DeskTypeOK'
  <2>1. MoneyOK'
    <3> HIDE DEF n
    <3>1. QED
      BY <1>1, <1>2, <1>4, <1>9, DeskParts DEF DeskInv, MoneyOK
  <2>2. \A q \in Tasks : RequestOK(task'[q])
    BY <1>5, <1>6, DeskParts DEF DeskInv, RequestOK
  <2>3. \A o \in Payments : PaymentOK(payment'[o])
    BY <1>7, DeskParts DEF DeskInv, PaymentOK
  <2>4. QED
    BY <2>1, <2>2, <2>3 DEF DeskTypeOK, MoneyOK, PaymentOK, RequestOK
<1>11. \A q \in Tasks : Placed(q)'
  <2>1. Placed(r)'
    BY <1>5, <1>6, <1>7 DEF Placed, Undoing
  <2>2. ASSUME NEW q \in Tasks, q # r
        PROVE  Placed(q)'
    <3>1. task'[q] = task[q] /\ task'[r].pc = "reversing" /\ Placed(q)
      BY <1>5, <1>6, <2>2 DEF DeskInv
    <3>2. task[q].pc \in {"paying", "voiding", "returning"} \cup Undoing =>
            task[q].of \in Payments
      BY RequestShape, DeskParts DEF DeskInv
    <3>3. task[q].pc = "returning" => task[q].of # p
      BY <1>2, <2>2
    <3>4. task[q].pc = "paying" => task[q].of # p
      BY <1>2, <3>1 DEF Placed
    <3>5. \A o \in Tasks \ {q} : task'[o].pc \in {"paying", "returning"} =>
            task'[o] = task[o]
      BY <1>5, <1>6
    <3>6. QED
      BY <1>7, <3>1, <3>2, <3>3, <3>4, <3>5 DEF Placed, Undoing
  <2>3. QED
    BY <2>1, <2>2
<1>12. \A o \in Payments : Booked(o)'
  <2>1. ASSUME NEW o \in Payments, o = p
        PROVE  Booked(o)'
    <3>1. moved[o] = m /\ posted[o] = m
      BY <1>2, <2>1 DEF DeskInv, Booked
    <3>2. moved'[o] = 0 /\ posted'[o] = m
      BY <1>1, <1>2, <1>4, <2>1, <3>1, DeskParts DEF DeskInv, MoneyOK
    <3>3. task'[r].pc \in Undoing /\ task'[r].of = o
      BY <1>5, <1>6, <2>1 DEF Undoing
    <3>4. payment'[o].status = "void" /\ Signed(o, payment'[o].amount) = m
      BY <1>7, <2>1
    <3> HIDE DEF m
    <3>5. QED
      BY <3>2, <3>3, <3>4 DEF Booked, Pcs, Signed
  <2>2. ASSUME NEW o \in Payments, o # p
        PROVE  Booked(o)'
    <3>1. moved'[o] = moved[o] /\ posted'[o] = posted[o] /\ payment'[o] = payment[o]
      BY <1>1, <1>7, <2>2, DeskParts DEF DeskInv, MoneyOK
    <3>2. \A q \in Tasks :
            /\ q # r => task'[q] = task[q]
            /\ task[r].pc = "returning" /\ task'[r].of # o
      BY <1>1, <1>5, <1>6, <2>2
    <3>3. Booked(o)
      BY DEF DeskInv
    <3>4. \A S : "returning" \notin S =>
            ((\E q \in Tasks : task'[q].pc \in S /\ task'[q].of = o)
               <=> (\E q \in Tasks : task[q].pc \in S /\ task[q].of = o))
      BY <3>2
    <3>5. QED
      BY <1>1, <3>1, <3>3, <3>4 DEF Booked, Signed, Pcs, Undoing
  <2>3. QED
    BY <2>1, <2>2
<1>13. QED
  BY <1>8, <1>9, <1>10, <1>11, <1>12 DEF DeskInv

-----------------------------------------------------------------------------
(* The second transaction of a void. *)

(* A request about p that ends: the others, and the rows but for book[p].  *)
LEMMA UndoneKeeps ==
  ASSUME DeskInv, NEW r \in Tasks, task[r].pc \in Undoing, Ends(r),
         UNCHANGED <<balance, ledger, payment, moved, overtaken>>
  PROVE  /\ Functional'
         /\ BalanceIsLedger' /\ (overtaken \cap Liquid = {})'
         /\ \A q \in Tasks : RequestOK(task'[q])
         /\ \A q \in Tasks : Owned(q)' /\ Current(q)' /\ Placed(q)'
         /\ \A q \in Tasks : task'[q] = IF q = r THEN [pc |-> "done"]
                                              ELSE task[q]
<1>1. /\ \A q \in Tasks : task'[q] = IF q = r THEN [pc |-> "done"] ELSE task[q]
      /\ Functional'
  BY BecomesAt DEF DeskInv, Functional, Ends
<1>2. \A q \in Tasks : RequestOK(task'[q])
  BY <1>1, DeskParts DEF DeskInv, RequestOK
<1>3. BalanceIsLedger' /\ (overtaken \cap Liquid = {})'
  BY DEF DeskInv, BalanceIsLedger
<1>4. \A q \in Tasks : Owned(q)'
  BY <1>1 DEF DeskInv, Owned
<1>5. \A q \in Tasks : Current(q)'
  BY <1>1 DEF DeskInv, Current
<1>6. \A q \in Tasks : Placed(q)'
  BY <1>1 DEF DeskInv, Placed, Undoing
<1>7. QED
  BY <1>1, <1>2, <1>3, <1>4, <1>5, <1>6

(* The reversing entry of a payment nobody else reverses leaves nothing.   *)
LEMMA PostReversalKeeps ==
  ASSUME DeskInv, NEW r \in Tasks, PostReversal(r)
  PROVE  DeskInv'
<1> DEFINE p == task[r].of
           n == Signed(p, payment[p].amount)
           others == \E q \in Pcs({"posting"}) \ {r} : task[q].of = p
<1>1. /\ task[r].pc = "posting" /\ Ends(r)
      /\ UNCHANGED <<balance, ledger, payment, moved, overtaken>>
      /\ posted' = [posted EXCEPT ![p] = posted[p] - n]
      /\ unreversed' = unreversed \ {p}
      /\ overlapped' = IF others THEN overlapped \cup {p} ELSE overlapped
  BY DEF PostReversal, boxes
<1>2. p \in Payments /\ payment[p].status = "void"
  BY <1>1, RequestShape, DeskParts DEF DeskInv, Placed, Undoing
<1>3. n \in Int /\ posted[p] \in Int
  BY <1>2, PaymentShape, MoneyIsInt, SignedIsInt, DeskParts DEF DeskInv, MoneyOK
<1>4. /\ Functional' /\ BalanceIsLedger' /\ (overtaken \cap Liquid = {})'
      /\ \A q \in Tasks : RequestOK(task'[q])
      /\ \A q \in Tasks : Owned(q)' /\ Current(q)' /\ Placed(q)'
      /\ \A q \in Tasks : task'[q] = IF q = r THEN [pc |-> "done"]
                                           ELSE task[q]
  BY <1>1, UndoneKeeps DEF Undoing
<1>5. DeskTypeOK'
  <2>1. MoneyOK'
    <3> HIDE DEF n
    <3>1. QED
      BY <1>1, <1>2, <1>3, DeskParts DEF DeskInv, MoneyOK
  <2>2. \A o \in Payments : PaymentOK(payment'[o])
    BY <1>1, DeskParts DEF DeskInv
  <2>3. QED
    BY <1>4, <2>1, <2>2 DEF DeskTypeOK, MoneyOK, PaymentOK, RequestOK
<1>6. \A o \in Payments : Booked(o)'
  <2>1. ASSUME NEW o \in Payments, o = p
        PROVE  Booked(o)'
    <3>1. Booked(o) /\ payment'[o] = payment[o] /\ moved'[o] = moved[o]
      BY <1>1 DEF DeskInv
    <3>2. CASE o \in overlapped'
      BY <1>2, <2>1, <3>1, <3>2 DEF Booked
    <3>3. CASE o \notin overlapped'
      <4>1. ~others /\ o \notin overlapped
        BY <1>1, <2>1, <3>3
      <4>2. posted[o] = n
        BY <1>1, <1>2, <2>1, <3>1, <4>1 DEF Booked, Pcs
      <4>3. posted'[o] = 0
        <5> HIDE DEF n
        <5>1. QED
          BY <1>1, <1>2, <1>3, <2>1, <4>2, DeskParts DEF DeskInv, MoneyOK
      <4>4. \A q \in Tasks : task'[q].pc = "posting" => task'[q].of # o
        BY <1>4, <2>1, <4>1 DEF Pcs
      <4>5. QED
        BY <1>2, <2>1, <3>1, <4>3, <4>4 DEF Booked, Pcs
    <3>4. QED
      BY <3>2, <3>3
  <2>2. ASSUME NEW o \in Payments, o # p
        PROVE  Booked(o)'
    <3>1. /\ moved'[o] = moved[o] /\ posted'[o] = posted[o] /\ payment'[o] = payment[o]
          /\ o \in unreversed' <=> o \in unreversed
          /\ o \in overlapped' <=> o \in overlapped
      BY <1>1, <2>2, DeskParts DEF DeskInv, MoneyOK
    <3>2. \A S : "done" \notin S =>
            ((\E q \in Tasks : task'[q].pc \in S /\ task'[q].of = o)
               <=> (\E q \in Tasks : task[q].pc \in S /\ task[q].of = o))
      BY <1>4, <2>2
    <3>3. Booked(o)
      BY DEF DeskInv
    <3>4. QED
      BY <3>1, <3>2, <3>3 DEF Booked, Signed, Pcs, Undoing
  <2>3. QED
    BY <2>1, <2>2
<1>7. QED
  BY <1>4, <1>5, <1>6 DEF DeskInv

LEMMA LoseReversalKeeps ==
  ASSUME DeskInv, NEW r \in Tasks, LoseReversal(r)
  PROVE  DeskInv'
<1> DEFINE p == task[r].of
<1>1. /\ task[r].pc \in Undoing /\ Ends(r)
      /\ UNCHANGED <<balance, ledger, payment, moved, posted, overtaken, overlapped>>
      /\ unreversed' = unreversed \cup {p}
  BY DEF LoseReversal, boxes, rows
<1>2. p \in Payments /\ payment[p].status = "void"
  BY <1>1, RequestShape, DeskParts DEF DeskInv, Placed
<1>3. /\ Functional' /\ BalanceIsLedger' /\ (overtaken \cap Liquid = {})'
      /\ \A q \in Tasks : RequestOK(task'[q])
      /\ \A q \in Tasks : Owned(q)' /\ Current(q)' /\ Placed(q)'
      /\ \A q \in Tasks : task'[q] = IF q = r THEN [pc |-> "done"]
                                           ELSE task[q]
  BY <1>1, UndoneKeeps
<1>4. DeskTypeOK'
  <2>1. MoneyOK' /\ \A o \in Payments : PaymentOK(payment'[o])
    BY <1>1, <1>2, DeskParts DEF DeskInv, MoneyOK
  <2>2. QED
    BY <1>3, <2>1 DEF DeskTypeOK, MoneyOK, PaymentOK, RequestOK
<1>5. \A o \in Payments : Booked(o)'
  <2> SUFFICES ASSUME NEW o \in Payments
               PROVE  Booked(o)'
    OBVIOUS
  <2>1. Booked(o)
    BY DEF DeskInv
  <2>2. \A q \in Tasks : task'[q].pc = "posting" /\ task'[q].of = o =>
          task[q].pc = "posting" /\ task[q].of = o
    BY <1>3
  <2>3. \A q \in Tasks : task[q].pc \in Undoing /\ task[q].of = o =>
          \/ o \in unreversed'
          \/ task'[q].pc \in Undoing /\ task'[q].of = o
    BY <1>1, <1>3
  <2>4. QED
    BY <1>1, <2>1, <2>2, <2>3 DEF Booked, Signed, Pcs
<1>6. QED
  BY <1>3, <1>4, <1>5 DEF DeskInv

-----------------------------------------------------------------------------
LEMMA DeskInvStep ==
  ASSUME DeskInv, [DeskNext]_deskVars
  PROVE  DeskInv'
<1>1. ASSUME NEW r \in Tasks, NEW b \in Boxes, NEW n \in Money,
             Move(r, b, n) \/ Move(r, b, -n)
      PROVE  DeskInv'
  BY <1>1, MoveKeeps, MoneyIsInt
<1>2. ASSUME NEW r \in Tasks, NEW b \in Boxes, NEW c \in Boxes,
             NEW n \in Money, LockSource(r, b, c, n) \/ InsertExpense(r, b, n)
      PROVE  DeskInv'
  BY <1>2, BeginKeeps
<1>3. ASSUME NEW r \in Tasks, NEW b \in Boxes, NEW n \in Money,
             NEW p \in Payments, InsertPayment(r, p, b, n)
      PROVE  DeskInv'
  BY <1>3, BeginKeeps
<1>4. ASSUME NEW r \in Tasks, NEW p \in Payments, AskVoid(r, p)
      PROVE  DeskInv'
  BY <1>4, AskVoidKeeps
<1>5. ASSUME NEW r \in Tasks, Step(r)
      PROVE  DeskInv'
  BY <1>5, TransferKeeps, PostExpenseKeeps, EndQuietly, CommitPaymentKeeps,
     BeginVoidKeeps, CommitVoidKeeps, FindEntryKeeps, PostReversalKeeps,
     LoseReversalKeeps DEF Step
<1>6. CASE UNCHANGED deskVars
  BY <1>6 DEF deskVars, DeskInv, DeskTypeOK, Functional, BalanceIsLedger, Owned, Current,
              Placed, Booked, Signed, Pcs
<1>7. QED
  BY <1>1, <1>2, <1>3, <1>4, <1>5, <1>6 DEF DeskNext, AtRest

LEMMA DeskInvInit == DeskInit => DeskInv
<1> SUFFICES ASSUME DeskInit
             PROVE  DeskInv
  OBVIOUS
<1>1. \A r \in Tasks : task[r] = [pc |-> "idle"]
  BY DEF DeskInit
<1>2. \A p \in Payments : payment[p] = [status |-> "none"]
  BY DEF DeskInit
<1>3. DeskTypeOK
  BY <1>1, <1>2 DEF DeskInit, DeskTypeOK
<1>4. Functional /\ BalanceIsLedger /\ overtaken \cap Liquid = {}
  BY DEF DeskInit, Functional, BalanceIsLedger
<1>5. \A r \in Tasks : Owned(r) /\ Current(r) /\ Placed(r)
  BY <1>1 DEF Owned, Current, Placed, Undoing
<1>6. \A p \in Payments : Booked(p)
  BY <1>2 DEF DeskInit, Booked
<1>7. QED
  BY <1>3, <1>4, <1>5, <1>6 DEF DeskInv

(* Every box, payment and request keeps its type; in particular no payment *)
(* is ever booked on a box that falls back on a liquid account.            *)
THEOREM DeskTyping == DeskSpec => []DeskTypeOK
<1>1. DeskInv => DeskTypeOK
  BY DEF DeskInv
<1>2. QED
  BY <1>1, DeskInvInit, DeskInvStep, PTL DEF DeskSpec

(* A balance is the sum of its movements, for any number of boxes and of   *)
(* overlapping requests, except where one payment trigger overtook another. *)
THEOREM NoUpdateLost == DeskSpec => []BalanceIsLedger
<1>1. DeskInv => BalanceIsLedger
  BY DEF DeskInv
<1>2. QED
  BY <1>1, DeskInvInit, DeskInvStep, PTL DEF DeskSpec

(* No transfer takes out of its source what is not there.                  *)
THEOREM SpentOnce == DeskSpec => NoDoubleSpend
<1>1. ASSUME DeskInv, NEW r \in Tasks, Transfer(r)
      PROVE  ledger'[task[r].from] >= 0
  <2> DEFINE t == task[r]
             deltas == [b \in Boxes |-> CASE b = t.from -> -t.amount
                                          [] b = t.to -> t.amount
                                          [] OTHER -> 0]
  <2>1. /\ t.pc = "transfer" /\ t.seen >= t.amount /\ Record(deltas)
        /\ t.from \in Liquid
    BY <1>1 DEF Transfer
  <2>2. t.from \in Boxes /\ t.amount \in Int /\ t.seen \in Int
    BY <1>1, <2>1, RequestShape, DeskParts, MoneyIsInt DEF DeskInv
  <2>3. t.from # t.to /\ t.seen = balance[t.from] /\ balance[t.from] = ledger[t.from]
    BY <1>1, <2>1, <2>2 DEF DeskInv, Owned, BalanceIsLedger
  <2>4. ledger'[t.from] = ledger[t.from] - t.amount
    <3>1. ledger[t.from] \in Int
      BY <2>2, <2>3
    <3>2. ledger'[t.from] = ledger[t.from] + deltas[t.from]
      BY <2>1, <2>2 DEF Record
    <3>3. deltas[t.from] = -t.amount
      BY <2>2, <2>3
    <3>4. QED
      BY <2>2, <3>1, <3>2, <3>3
  <2>5. QED
    BY <2>1, <2>2, <2>3, <2>4
<1>2. DeskInv /\ [DeskNext]_deskVars =>
        [\A r \in Tasks : Transfer(r) => ledger'[task[r].from] >= 0]_deskVars
  BY <1>1
<1>3. QED
  BY <1>2, DeskInvInit, DeskInvStep, PTL DEF DeskSpec, NoDoubleSpend

(* However often and by how many requests a payment is voided, its cash    *)
(* comes back once, and so does its entry, unless a reversal was lost or   *)
(* two of them overlapped.                                                 *)
THEOREM VoidedOnce == DeskSpec => []VoidUndoesPayment
<1>1. ASSUME DeskInv, NEW p \in Payments
      PROVE  LET standing == IF payment[p].status = "live"
                             THEN Signed(p, payment[p].amount) ELSE 0
             IN  /\ moved[p] = standing
                 /\ \/ posted[p] = standing \/ p \in unreversed \cup overlapped
                    \/ \E r \in Pcs(Undoing) : task[r].of = p
  <2>1. Booked(p) /\ payment[p].status \in {"none", "live", "void"}
    BY <1>1, PaymentShape, DeskParts DEF DeskInv
  <2>2. QED
    BY <2>1 DEF Booked
<1>2. DeskInv => VoidUndoesPayment
  BY <1>1 DEF VoidUndoesPayment
<1>3. QED
  BY <1>2, DeskInvInit, DeskInvStep, PTL DEF DeskSpec
=============================================================================
