---------------------------- MODULE Reservations ----------------------------
(***************************************************************************)
(* Reservations with a deposit, and the hold they put on the stock.        *)
(*                                                                         *)
(*   backend/src/reservations/reservations.service.ts                      *)
(*   database/migrations/007_reservations.sql                              *)
(*   database/migrations/011_functions_and_triggers.sql                    *)
(*     reservation_hold_stock, reservation_release_stock,                  *)
(*     recompute_reservation_totals                                        *)
(*                                                                         *)
(* addPayment, convert and cancel read the reservation (mustBeActive)      *)
(* outside the transaction that then writes with what was read; and in     *)
(* that transaction recompute_reservation_totals first adds up the rows it *)
(* can see, its own and the committed ones, and then updates the           *)
(* reservation, for which it may have to wait.  So each is three actions:  *)
(* the read, the insert with its sums, and the update with the commit (the *)
(* row's lock is held in between).  Everything is in one warehouse; one    *)
(* piece costs one unit of money, the smallest there is.  Moving           *)
(* expires_at has no effect on anything here and is left out.              *)
(***************************************************************************)
EXTENDS Integers, FiniteSets, Folds

CONSTANTS
  Reservations, Reservable,
  Requests,       \* requests the server works on at the same time
  NoReservation,
  MaxQty,         \* bound on a reserved quantity
  MaxDiscount,    \* bound on a discount
  MaxChange,      \* bound on what is handed over beyond the remaining amount
  DepositPct,     \* deposit_required_pct (30)
  FeePct          \* cancellation_fee_pct (10)

ASSUME ReservationsAssumption ==
  /\ IsFiniteSet(Reservations) /\ IsFiniteSet(Reservable)
  /\ NoReservation \notin Reservations
  /\ MaxQty \in Nat \ {0} /\ {MaxDiscount, MaxChange} \subseteq Nat
  /\ DepositPct \in 0 .. 100 /\ FeePct \in 0 .. 100

VARIABLES
  state,    \* Reservations -> reservations.status, "none" before create
  quantity,  \* Reservations -> Variants -> reservation_items.quantity
  total,     \* Reservations -> total_amount, as the trigger recomputes it
  payments,  \* Reservations -> sum of the committed reservation_payments
  refunds,   \* Reservations -> sum of the committed reservation_refunds
  paid,      \* Reservations -> paid_amount, as the trigger wrote it last
  refunded,  \* Reservations -> refunded_amount, likewise
  invoices,  \* Reservations -> invoices it was converted to
  reserved,  \* Variants -> stock.quantity_reserved
  request,   \* Requests -> what a request read before its transaction, the
             \* payment and refund it inserted, and the sums it saw then
  raced      \* history: reservations that had two requests open together

money == <<total, payments, refunds, paid, refunded>>
reservationVars == <<state, quantity, total, payments, refunds, paid, refunded,
                     invoices, reserved, request, raced>>

Operations == {"payment", "convert", "cancel"}
Idle == [op |-> "none", of |-> NoReservation, remaining |-> 0, paid |-> 0,
         inserted |-> FALSE, pay |-> 0, back |-> 0,
         sum |-> [paid |-> 0, refunded |-> 0]]
RequestStates ==
  [op : Operations \cup {"none"}, of : Reservations \cup {NoReservation},
   remaining : Int, paid : Nat, inserted : BOOLEAN, pay : Nat, back : Nat,
   sum : [paid : Nat, refunded : Nat]]
ItemLists == [Reservable -> 0 .. MaxQty]
NoItems == [v \in Reservable |-> 0]

ReservationTypeOK ==
  /\ state \in [Reservations -> {"none", "active", "completed", "cancelled"}]
  /\ quantity \in [Reservations -> ItemLists]
  /\ total \in [Reservations -> Nat]
  /\ payments \in [Reservations -> Nat]
  /\ refunds \in [Reservations -> Nat]
  /\ paid \in [Reservations -> Nat]
  /\ refunded \in [Reservations -> Nat]
  /\ invoices \in [Reservations -> Nat]
  /\ reserved \in [Reservable -> Nat]
  /\ request \in [Requests -> RequestStates]
  /\ raced \subseteq Reservations

Sum(f, S) == MapThenFoldSet(+, 0, LAMBDA x : f[x], LAMBDA X : CHOOSE x \in X : TRUE, S)
AtLeastZero(n) == IF n < 0 THEN 0 ELSE n

ReservationInit ==
  /\ state = [r \in Reservations |-> "none"]
  /\ quantity = [r \in Reservations |-> NoItems]
  /\ total = [r \in Reservations |-> 0]
  /\ payments = [r \in Reservations |-> 0]
  /\ refunds = [r \in Reservations |-> 0]
  /\ paid = [r \in Reservations |-> 0]
  /\ refunded = [r \in Reservations |-> 0]
  /\ invoices = [r \in Reservations |-> 0]
  /\ reserved = NoItems
  /\ request = [q \in Requests |-> Idle]
  /\ raced = {}

-----------------------------------------------------------------------------
(* The triggers. *)

Held(r) == quantity[r]

(* Mutant: the release is not clamped at zero. *)
ReleaseUnclamped(held, r) == [v \in Reservable |-> held[v] - Held(r)[v]]

(* GREATEST(quantity_reserved - quantity, 0) for every item of r. *)
Release(held, r) == [v \in Reservable |-> AtLeastZero(held[v] - Held(r)[v])]

(* Mutant: only a completed reservation releases its hold. *)
ReleaseOnCompleted(held, r, new) ==
  IF state[r] = "active" /\ new = "completed" THEN Release(held, r) ELSE held

(* reservation_release_stock: fired by an UPDATE of the status, it acts    *)
(* only when the row leaves 'active'.                                      *)
ReleaseOnClose(held, r, new) ==
  IF state[r] = "active" /\ new \in {"cancelled", "completed"}
  THEN Release(held, r) ELSE held

(* The generated column remaining_amount. *)
Remaining(r) == total[r] - paid[r] + refunded[r]

-----------------------------------------------------------------------------
(* The operations. *)

(* Items, an item discount d and an overall discount h; the first payment  *)
(* is checked against the total the request adds up to.  Then the item     *)
(* trigger recomputes the row's total from the items alone: line_total     *)
(* already has d subtracted, and d is subtracted again while h is not.     *)
(* The hold does not look at quantity_on_hand.                             *)
CreateReservation(r) ==
  /\ state[r] = "none"
  /\ \E items \in ItemLists \ {NoItems}, d, h \in 0 .. MaxDiscount :
       LET lines  == Sum(items, Reservable) - d
           agreed == AtLeastZero(lines - h)
       IN \E deposit \in 1 .. agreed :
            /\ lines >= 0
            /\ 100 * deposit >= DepositPct * agreed
            /\ quantity' = [quantity EXCEPT ![r] = items]
            /\ total' = [total EXCEPT ![r] = AtLeastZero(lines - d)]
            /\ payments' = [payments EXCEPT ![r] = deposit]
            /\ paid' = [paid EXCEPT ![r] = deposit]
            /\ reserved' = [v \in Reservable |-> reserved[v] + items[v]]
  /\ state' = [state EXCEPT ![r] = "active"]
  /\ UNCHANGED <<refunds, refunded, invoices, request, raced>>

(* Mutant: mustBeActive only finds the row. *)
MustExist(q, r, op) ==
  /\ request[q] = Idle
  /\ state[r] # "none"
  /\ request' = [request EXCEPT ![q] =
       [Idle EXCEPT !.op = op, !.of = r, !.remaining = Remaining(r),
                    !.paid = paid[r]]]
  /\ raced' = IF \E p \in Requests : request[p].of = r THEN raced \cup {r} ELSE raced
  /\ UNCHANGED <<state, quantity, money, invoices, reserved>>

(* mustBeActive: the row as it is now, used until the request ends. *)
MustBeActive(q, r, op) ==
  /\ request[q] = Idle
  /\ state[r] = "active"
  /\ request' = [request EXCEPT ![q] =
       [Idle EXCEPT !.op = op, !.of = r, !.remaining = Remaining(r),
                    !.paid = paid[r]]]
  /\ raced' = IF \E p \in Requests : request[p].of = r THEN raced \cup {r} ELSE raced
  /\ UNCHANGED <<state, quantity, money, invoices, reserved>>

EndRequest(q) == request' = [request EXCEPT ![q] = Idle]

(* A validation throws, the transaction fails, or the server dies. *)
Refuse(q) ==
  /\ request[q] # Idle
  /\ EndRequest(q)
  /\ UNCHANGED <<state, quantity, money, invoices, reserved, raced>>

(* The transaction inserts a payment or a refund (0: none), and the row's  *)
(* trigger adds up what it sees.                                           *)
Insert(q, pay, back) ==
  LET r == request[q].of IN
  /\ request' = [request EXCEPT ![q] =
       [@ EXCEPT !.inserted = TRUE, !.pay = pay, !.back = back,
                 !.sum = [paid |-> payments[r] + pay,
                          refunded |-> refunds[r] + back]]]
  /\ UNCHANGED <<state, quantity, money, invoices, reserved, raced>>

(* The trigger's update, with the sums from when it added up, and the      *)
(* commit; without a row inserted there is no trigger.                     *)
Recompute(q, r) ==
  /\ payments' = [payments EXCEPT ![r] = @ + request[q].pay]
  /\ refunds' = [refunds EXCEPT ![r] = @ + request[q].back]
  /\ IF request[q].pay + request[q].back > 0
     THEN /\ paid' = [paid EXCEPT ![r] = request[q].sum.paid]
          /\ refunded' = [refunded EXCEPT ![r] = request[q].sum.refunded]
     ELSE UNCHANGED <<paid, refunded>>

Doing(q, op, inserted) == request[q].op = op /\ request[q].inserted = inserted

AddPayment(q) ==
  /\ Doing(q, "payment", FALSE)
  /\ \E amount \in 1 .. request[q].remaining : Insert(q, amount, 0)

CommitPayment(q) ==
  /\ Doing(q, "payment", TRUE)
  /\ Recompute(q, request[q].of)
  /\ EndRequest(q)
  /\ UNCHANGED <<state, quantity, total, invoices, reserved, raced>>

(* Mutant: the remaining amount need not be collected. *)
FinalPaymentsAny(remaining) == 0 .. AtLeastZero(remaining) + MaxChange

(* The final payments cover the remaining amount; more is change. *)
FinalPayments(remaining) ==
  {p \in 0 .. AtLeastZero(remaining) + MaxChange : p >= remaining}

(* One transaction: a manual release, the invoice with its lines, which    *)
(* the invoice_lines view writes to invoice_items and nothing else, the    *)
(* payments, and the status, whose trigger releases again.                 *)
Convert(q) ==
  /\ Doing(q, "convert", FALSE)
  /\ \E p \in FinalPayments(request[q].remaining) : Insert(q, p, 0)

CommitConversion(q) ==
  /\ Doing(q, "convert", TRUE)
  /\ LET r == request[q].of IN
     /\ Recompute(q, r)
     /\ invoices' = [invoices EXCEPT ![r] = @ + 1]
     /\ reserved' = ReleaseOnClose(Release(reserved, r), r, "completed")
     /\ state' = [state EXCEPT ![r] = "completed"]
  /\ EndRequest(q)
  /\ UNCHANGED <<quantity, total, raced>>

(* The refund by policy; the fee is rounded to the smallest unit. *)
NetRefund(policy, p) ==
  LET fee == (p * FeePct + 50) \div 100 IN
  CASE policy = "full" -> p
    [] policy = "partial" -> AtLeastZero(p - fee)
    [] policy = "none" -> 0

CancelReservation(q) ==
  /\ Doing(q, "cancel", FALSE)
  /\ \E policy \in {"full", "partial", "none"} :
       Insert(q, 0, NetRefund(policy, request[q].paid))

CommitCancellation(q) ==
  /\ Doing(q, "cancel", TRUE)
  /\ LET r == request[q].of IN
     /\ Recompute(q, r)
     /\ reserved' = ReleaseOnClose(reserved, r, "cancelled")
     /\ state' = [state EXCEPT ![r] = "cancelled"]
  /\ EndRequest(q)
  /\ UNCHANGED <<quantity, total, invoices, raced>>

ReservationNext ==
  \/ \E r \in Reservations : CreateReservation(r)
  \/ \E q \in Requests, r \in Reservations, op \in Operations :
       MustBeActive(q, r, op)
  \/ \E q \in Requests :
       \/ AddPayment(q) \/ Convert(q) \/ CancelReservation(q) \/ Refuse(q)
       \/ CommitPayment(q) \/ CommitConversion(q) \/ CommitCancellation(q)

ReservationSpec == ReservationInit /\ [][ReservationNext]_reservationVars

-----------------------------------------------------------------------------
(* Properties. *)

ActiveHolds(v) == Sum([r \in Reservations |->
  IF state[r] = "active" THEN quantity[r][v] ELSE 0], Reservations)

(* The held pieces follow the reservations: however payments, conversions  *)
(* and cancellations overlap, none stays held for a closed reservation; and *)
(* every active one has its pieces held, unless a reservation with the same *)
(* variant was converted (convert releases a hold twice).                  *)
HoldsFollowReservations ==
  \A v \in Reservable :
    /\ reserved[v] <= ActiveHolds(v)
    /\ (\A r \in Reservations : invoices[r] > 0 => quantity[r][v] = 0)
         => reserved[v] = ActiveHolds(v)

(* However payments, conversions and cancellations overlap, paid_amount    *)
(* never shows more than was collected (a lost update makes it show less), *)
(* so the goods are handed over only when payments for the whole total     *)
(* were collected, although the remaining amount is a stale read of it.    *)
CollectedBeforeHandedOver ==
  \A r \in Reservations :
    /\ paid[r] <= payments[r]
    /\ invoices[r] > 0 => payments[r] >= total[r]

(* As long as its requests come one after another (mustBeActive does not   *)
(* lock, and two recomputes may each miss the other's row), a reservation  *)
(* shows what was paid and refunded, and ends once, with one invoice or    *)
(* with a refund; and while it is open its customer has not paid more than *)
(* it costs, when its items have no discount (the trigger subtracts an     *)
(* item discount twice).                                                   *)
SettledOneWay ==
  \A r \in Reservations \ raced :
    /\ invoices[r] <= 1
    /\ invoices[r] = 1 => refunds[r] = 0
    /\ paid[r] = payments[r] /\ refunded[r] = refunds[r]
    /\ state[r] = "active" /\ total[r] = Sum(quantity[r], Reservable)
         => payments[r] <= total[r]
=============================================================================
