------------------------------- MODULE Shifts -------------------------------
(***************************************************************************)
(* Cashier shifts of one cashbox, from opening to the booked variance.     *)
(*                                                                         *)
(*   backend/src/shifts/shifts.service.ts                                  *)
(*   backend/src/pos/pos.service.ts (the shift an invoice belongs to)      *)
(*   backend/src/chart-of-accounts/financial-engine.service.ts             *)
(*     recordShiftVariance                                                 *)
(*                                                                         *)
(* open, close, requestClose, approveClose and rejectClose read the shift  *)
(* outside the transaction, or the statement, that writes it, and nothing  *)
(* they write looks at the status again, so each is several actions.  The  *)
(* adjustments lock the row and are one action.  Cash is what computeSummary *)
(* and computeCanonicalSnapshot both add up: they are two queries over the *)
(* same movements, issued one after the other.  The treatments that post a *)
(* journal entry (company_loss, revenue, suspense) are one, "post", which  *)
(* stands for one that suits the sign; an employee to charge is named.     *)
(***************************************************************************)
EXTENDS Integers

CONSTANTS
  Shifts,
  Requests,       \* requests the server works on at the same time
  NoShift,
  Unset,          \* a column that is NULL
  MaxCash,        \* bound on an amount of money, and on a shift's movements
  MaxBooked       \* bound on the bookings of a closed shift that is reopened

Treatments == {"charge_employee", "post"}

ASSUME ShiftsAssumption ==
  /\ NoShift \notin Shifts
  /\ Unset \notin Int \cup Treatments
  /\ MaxCash \in Nat \ {0} /\ MaxBooked \in Nat

VARIABLES
  status,     \* Shifts -> shifts.status, "none" before open
  opening,    \* Shifts -> opening_balance
  expected,   \* Shifts -> expected_closing
  actual,     \* Shifts -> actual_closing
  asked,      \* Shifts -> close_requested_amount
  treatment,  \* Shifts -> variance_treatment
  cash,       \* Shifts -> sum of the shift's committed cash movements
  moving,     \* Shifts -> amount of a transaction that picked the shift, or 0
  entries,    \* Shifts -> number of its live variance journal entries
  deductions, \* Shifts -> number of its live shortage deductions
  booked,     \* Shifts -> the variance these entries and deductions add up to
  request,    \* Requests -> what a request holds of its shift
  missed,     \* history: Shifts -> cash of the invoices voided since the
              \* snapshot of the closed shift was written, unless it was raced
  raced       \* history: shifts something happened to behind a request's back

row  == <<status, opening, expected, actual, asked, treatment>>
book == <<entries, deductions, booked>>
vars == <<status, opening, expected, actual, asked, treatment, cash, moving,
          entries, deductions, booked, request, missed, raced>>

Amounts    == 0 .. MaxCash
Live       == {"open", "pending_close"}
Holdings == [pc : {"idle", "opening", "asking", "ask", "decided", "closing",
                   "close", "rejecting"},
             of : Shifts \cup {NoShift}, actual : Nat,
             treatment : Treatments \cup {Unset}, opening : Nat, expected : Int]
Holding(pc, s, count, treat, read, sum) ==
  [pc |-> pc, of |-> s, actual |-> count, treatment |-> treat,
   opening |-> read, expected |-> sum]
Idle == Holding("idle", NoShift, 0, Unset, 0, 0)

(* The type invariant. *)
TypeOK ==
  /\ status \in [Shifts -> Live \cup {"none", "closed"}]
  /\ opening \in [Shifts -> Nat]
  /\ expected \in [Shifts -> Int]
  /\ actual \in [Shifts -> Nat \cup {Unset}]
  /\ asked \in [Shifts -> Nat \cup {Unset}]
  /\ treatment \in [Shifts -> Treatments \cup {Unset}]
  /\ cash \in [Shifts -> Int]
  /\ moving \in [Shifts -> -1 .. 1]
  /\ entries \in [Shifts -> Nat] /\ deductions \in [Shifts -> Nat]
  /\ booked \in [Shifts -> Int]
  /\ request \in [Requests -> Holdings]
  /\ missed \in [Shifts -> Nat]
  /\ raced \subseteq Shifts

Init ==
  /\ status = [s \in Shifts |-> "none"]
  /\ opening = [s \in Shifts |-> 0]
  /\ expected = [s \in Shifts |-> 0]
  /\ actual = [s \in Shifts |-> Unset]
  /\ asked = [s \in Shifts |-> Unset]
  /\ treatment = [s \in Shifts |-> Unset]
  /\ cash = [s \in Shifts |-> 0]
  /\ moving = [s \in Shifts |-> 0]
  /\ entries = [s \in Shifts |-> 0]
  /\ deductions = [s \in Shifts |-> 0]
  /\ booked = [s \in Shifts |-> 0]
  /\ request = [q \in Requests |-> Idle]
  /\ missed = [s \in Shifts |-> 0]
  /\ raced = {}

OrZero(n)     == IF n = Unset THEN 0 ELSE n
Expected(s)   == opening[s] + cash[s]       \* computeSummary
InFlight(s)   == \E q \in Requests : request[q].of = s
Checked(s)    == \E q \in Requests : request[q].of = s /\ request[q].pc \in {"ask", "close"}
RacedIf(c, s) == raced' = IF c THEN raced \cup {s} ELSE raced
Hold(q, r)    == request' = [request EXCEPT ![q] = r]
EndRequest(q) == Hold(q, Idle)

-----------------------------------------------------------------------------
(* open: the check, then the INSERT; only as many as there are ids. *)
OpenCheck(q) ==
  /\ request[q] = Idle
  /\ \E s \in Shifts : status[s] = "none"
  /\ \A s \in Shifts : status[s] # "open"
  /\ Hold(q, Holding("opening", NoShift, 0, Unset, 0, 0))
  /\ UNCHANGED <<row, cash, moving, book, missed, raced>>

OpenInsert(q, s, amount) ==
  /\ request[q].pc = "opening"
  /\ status[s] = "none"
  /\ status' = [status EXCEPT ![s] = "open"]
  /\ opening' = [opening EXCEPT ![s] = amount]
  /\ expected' = [expected EXCEPT ![s] = amount]
  /\ EndRequest(q)
  /\ UNCHANGED <<actual, asked, treatment, cash, moving, book, missed, raced>>

-----------------------------------------------------------------------------
(* Cash: invoices pick an open shift, expenses and refunds one that is not *)
(* closed; the transaction commits later.  One is under way at a time.     *)
MovementPicks(s, d) ==
  /\ status[s] \in (IF d > 0 THEN {"open"} ELSE Live)
  /\ moving[s] = 0
  /\ moving' = [moving EXCEPT ![s] = d]
  /\ UNCHANGED <<row, cash, book, request, missed, raced>>

MovementCommits(s) ==
  /\ moving[s] # 0
  /\ cash[s] + moving[s] \in Amounts
  /\ cash' = [cash EXCEPT ![s] = @ + moving[s]]
  /\ moving' = [moving EXCEPT ![s] = 0]
  /\ RacedIf(Checked(s) \/ status[s] = "closed", s)
  /\ UNCHANGED <<row, book, request, missed>>

(* Mutant: the closed shift keeps the snapshot it was closed with. *)
EditInvoiceOnly(s, d) ==
  /\ status[s] # "none"
  /\ status[s] = "closed" => treatment[s] = Unset
  /\ cash[s] + d \in Amounts
  /\ cash' = [cash EXCEPT ![s] = @ + d]
  /\ RacedIf(Checked(s), s)
  /\ UNCHANGED <<row, moving, book, request, missed>>

(* An edited invoice of the shift; refreshClosedShiftSnapshot rewrites the *)
(* snapshot of a closed shift in the same transaction, and refuses the     *)
(* edit when the variance has been treated.                                *)
EditInvoice(s, d) ==
  /\ status[s] # "none"
  /\ status[s] = "closed" => treatment[s] = Unset
  /\ cash[s] + d \in Amounts
  /\ cash' = [cash EXCEPT ![s] = @ + d]
  /\ expected' = [expected EXCEPT ![s] =
       IF status[s] = "closed" THEN opening[s] + cash[s] + d ELSE @]
  /\ missed' = [missed EXCEPT ![s] = IF status[s] = "closed" THEN 0 ELSE @]
  /\ RacedIf(Checked(s), s)
  /\ UNCHANGED <<status, opening, actual, asked, treatment, moving, book, request>>

(* A voided invoice of the shift: its cash counts no more, and of a closed *)
(* shift neither the snapshot nor the treated variance is looked at.       *)
VoidInvoice(s, amount) ==
  /\ status[s] # "none"
  /\ cash[s] - amount \in Amounts
  /\ cash' = [cash EXCEPT ![s] = @ - amount]
  /\ missed' = [missed EXCEPT ![s] =
       IF status[s] = "closed" /\ s \notin raced THEN @ + amount ELSE 0]
  /\ RacedIf(Checked(s), s)
  /\ UNCHANGED <<row, moving, book, request>>

-----------------------------------------------------------------------------
(* Requests to close: what they read first. *)

(* requestClose: a count that matches goes straight to close(). *)
RequestClose(q, s, count) ==
  /\ request[q] = Idle
  /\ status[s] = "open"
  /\ \/ /\ count = Expected(s)
        /\ Hold(q, Holding("decided", s, count, Unset, 0, 0))
     \/ /\ count # Expected(s)
        /\ Hold(q, Holding("asking", s, count, Unset, opening[s], Expected(s)))
  /\ RacedIf(InFlight(s), s)
  /\ UNCHANGED <<row, cash, moving, book, missed>>

(* approveClose: an adjusted count comes before the requested one. *)
ApproveClose(q, s, treat) ==
  /\ request[q] = Idle
  /\ status[s] = "pending_close"
  /\ LET count == IF actual[s] # Unset THEN actual[s] ELSE OrZero(asked[s]) IN
     /\ count # Expected(s) => treat # Unset
     /\ Hold(q, Holding("decided", s, count, treat, 0, 0))
  /\ RacedIf(InFlight(s), s)
  /\ UNCHANGED <<row, cash, moving, book, missed>>

RejectClose(q, s) ==
  /\ request[q] = Idle
  /\ status[s] = "pending_close"
  /\ Hold(q, Holding("rejecting", s, 0, Unset, 0, 0))
  /\ RacedIf(InFlight(s), s)
  /\ UNCHANGED <<row, cash, moving, book, missed>>

(* A validation or a check throws, or the server dies: nothing is written. *)
Refuse(q) ==
  /\ request[q] # Idle
  /\ EndRequest(q)
  /\ UNCHANGED <<row, cash, moving, book, missed, raced>>

-----------------------------------------------------------------------------
(* close(): read, check, write. *)

(* The decided treatment, or else one that is stored on the row. *)
Resolved(s, treat, variance) ==
  IF variance = 0 THEN Unset ELSE IF treat # Unset THEN treat ELSE treatment[s]

(* Mutant: a variance needs no treatment. *)
ValidOrNone(treat, variance) ==
  \/ treat = Unset
  \/ treat = "post"
  \/ treat = "charge_employee" /\ variance < 0

(* Only a shortage can be charged to an employee. *)
Valid(treat, variance) ==
  \/ variance = 0
  \/ treat = "post"
  \/ treat = "charge_employee" /\ variance < 0

(* Mutant: close() does not look at the status. *)
BeginCloseAny(q, s, count, treat) ==
  LET variance == count - Expected(s)
      resolved == Resolved(s, treat, variance)
  IN /\ status[s] # "none"
     /\ Valid(resolved, variance)
     /\ Hold(q, Holding("closing", s, count, resolved, opening[s], Expected(s)))

(* What close() reads before its transaction, for the count and treatment  *)
(* it is called with.                                                      *)
BeginClose(q, s, count, treat) ==
  LET variance == count - Expected(s)
      resolved == Resolved(s, treat, variance)
  IN /\ status[s] \in Live
     /\ Valid(resolved, variance)
     /\ Hold(q, Holding("closing", s, count, resolved, opening[s], Expected(s)))

(* POST close. *)
Close(q, s, count, treat) ==
  /\ request[q] = Idle
  /\ BeginClose(q, s, count, treat)
  /\ RacedIf(InFlight(s), s)
  /\ UNCHANGED <<row, cash, moving, book, missed>>

(* requestClose and approveClose call it after their own reads. *)
CloseRead(q) ==
  /\ request[q].pc = "decided"
  /\ BeginClose(q, request[q].of, request[q].actual, request[q].treatment)
  /\ UNCHANGED <<row, cash, moving, book, missed, raced>>

(* Mutant: the snapshot is not checked. *)
CheckNothing(q) ==
  /\ request[q].pc \in {"asking", "closing"}
  /\ Hold(q, [request[q] EXCEPT
       !.pc = IF @ = "asking" THEN "ask" ELSE "close"])
  /\ UNCHANGED <<row, cash, moving, book, missed, raced>>

(* assertSnapshotIntegrity, in the transaction: the movements are added up *)
(* again, the opening balance is the one read before.                      *)
CheckSnapshot(q) ==
  /\ request[q].pc \in {"asking", "closing"}
  /\ request[q].opening + cash[request[q].of] = request[q].expected
  /\ Hold(q, [request[q] EXCEPT
       !.pc = IF @ = "asking" THEN "ask" ELSE "close"])
  /\ UNCHANGED <<row, cash, moving, book, missed, raced>>

(* A charged shortage is one deduction (ON CONFLICT (shift_id) DO NOTHING), *)
(* every other variance one journal entry, which the engine skips when     *)
(* the shift has one.                                                      *)
Book(s, treat, variance) ==
  LET charge == treat = "charge_employee" /\ deductions[s] = 0
      post   == variance # 0 /\ treat # "charge_employee" /\ entries[s] = 0
  IN /\ deductions' = [deductions EXCEPT ![s] = IF charge THEN @ + 1 ELSE @]
     /\ entries' = [entries EXCEPT ![s] = IF post THEN @ + 1 ELSE @]
     /\ booked' = [booked EXCEPT ![s] = IF charge \/ post THEN @ + variance ELSE @]

(* UPDATE ... WHERE id, with COALESCE for the treatment, and the booking.  *)
CloseWrite(q) ==
  /\ request[q].pc = "close"
  /\ LET r == request[q]
         s == r.of
     IN /\ status' = [status EXCEPT ![s] = "closed"]
        /\ actual' = [actual EXCEPT ![s] = r.actual]
        /\ expected' = [expected EXCEPT ![s] = r.expected]
        /\ treatment' = [treatment EXCEPT ![s] =
             IF r.treatment # Unset THEN r.treatment ELSE @]
        /\ Book(s, r.treatment, r.actual - r.expected)
        /\ missed' = [missed EXCEPT ![s] = 0]
  /\ EndRequest(q)
  /\ UNCHANGED <<opening, asked, cash, moving, raced>>

(* A request that did not see the shift being closed reopens it. *)
Reopens(s) == status[s] = "closed" => entries[s] + deductions[s] <= MaxBooked

(* requestClose with a variance: the UPDATE to pending_close. *)
AskWrite(q) ==
  /\ request[q].pc = "ask" /\ Reopens(request[q].of)
  /\ LET r == request[q]
         s == r.of
     IN /\ status' = [status EXCEPT ![s] = "pending_close"]
        /\ asked' = [asked EXCEPT ![s] = r.actual]
        /\ expected' = [expected EXCEPT ![s] = r.expected]
  /\ EndRequest(q)
  /\ UNCHANGED <<opening, actual, treatment, cash, moving, book, missed, raced>>

RejectWrite(q) ==
  /\ request[q].pc = "rejecting" /\ Reopens(request[q].of)
  /\ status' = [status EXCEPT ![request[q].of] = "open"]
  /\ EndRequest(q)
  /\ UNCHANGED <<opening, expected, actual, asked, treatment, cash, moving,
                 book, missed, raced>>

-----------------------------------------------------------------------------
(* The adjustments, each under the row's lock. *)

(* adjustCount: in every status, and only the counted cash. *)
AdjustCount(s, count) ==
  /\ status[s] # "none"
  /\ actual[s] # count
  /\ actual' = [actual EXCEPT ![s] = count]
  /\ RacedIf(InFlight(s), s)
  /\ UNCHANGED <<status, opening, expected, asked, treatment, cash, moving,
                 book, request, missed>>

(* adjustOpeningBalance: of an open shift; expected_closing follows as     *)
(* long as the cashbox has no movement.                                    *)
AdjustOpening(s, amount) ==
  /\ status[s] = "open"
  /\ amount # opening[s]
  /\ opening' = [opening EXCEPT ![s] = amount]
  /\ \/ cash[s] = 0 /\ expected' = [expected EXCEPT ![s] = amount]
     \/ UNCHANGED expected
  /\ RacedIf(InFlight(s), s)
  /\ UNCHANGED <<status, actual, asked, treatment, cash, moving, book, request,
                 missed>>

Next ==
  \/ \E q \in Requests :
       \/ OpenCheck(q) \/ CloseRead(q) \/ CheckSnapshot(q) \/ CloseWrite(q)
       \/ AskWrite(q) \/ RejectWrite(q) \/ Refuse(q)
       \/ \E s \in Shifts :
            \/ RejectClose(q, s)
            \/ \E n \in Amounts : OpenInsert(q, s, n) \/ RequestClose(q, s, n)
            \/ \E treat \in Treatments \cup {Unset} :
                 \/ ApproveClose(q, s, treat)
                 \/ \E n \in Amounts : Close(q, s, n, treat)
  \/ \E s \in Shifts :
       \/ \E n \in Amounts :
            AdjustCount(s, n) \/ AdjustOpening(s, n) \/ VoidInvoice(s, n)
       \/ \E d \in {-1, 1} : MovementPicks(s, d) \/ EditInvoice(s, d)
       \/ MovementCommits(s)

Spec == Init /\ [][Next]_vars

-----------------------------------------------------------------------------
(* Properties. *)

(* However closing, approving, rejecting and retrying interleave, a shift  *)
(* has at most one variance entry and charges an employee at most once.  A *)
(* shift whose requests kept out of each other's way has one of the two,   *)
(* not both, when it is closed over a variance, and otherwise none.        *)
VarianceOnce ==
  \A s \in Shifts :
    /\ entries[s] <= 1 /\ deductions[s] <= 1
    /\ s \notin raced =>
         entries[s] + deductions[s] =
           IF status[s] = "closed" /\ booked[s] # 0 THEN 1 ELSE 0

(* A closed shift shows the cash that its movements add up to, after every *)
(* adjustment, rejected request and later edit, and is off by exactly the  *)
(* invoices voided since, unless something happened between a request's    *)
(* check and its write, or a movement that had picked the shift came in    *)
(* late.                                                                   *)
SnapshotMatches ==
  \A s \in Shifts \ raced :
    status[s] = "closed" => expected[s] = opening[s] + cash[s] + missed[s]

(* Closing a shift books exactly what the count differs from the cash that *)
(* is there, under the same proviso.                                       *)
ClosingExplainsCash ==
  [][\A s \in Shifts \ raced' :
       status[s] # "closed" /\ status'[s] = "closed" =>
         actual'[s] - (opening'[s] + cash'[s]) = booked'[s]]_vars

(* No shift is closed over a variance that nobody decided on, the          *)
(* automatic close of requestClose included, which brings a manager's      *)
(* permission along and meets cash that moved after it looked.             *)
VarianceIsDecided ==
  [][\A s \in Shifts :
       status[s] # "closed" /\ status'[s] = "closed" /\ actual'[s] # expected'[s]
         => treatment'[s] # Unset]_vars
=============================================================================
