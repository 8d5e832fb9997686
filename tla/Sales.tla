-------------------------------- MODULE Sales --------------------------------
(***************************************************************************)
(* One invoice of one article: the sale, the five ways an edit is booked,  *)
(* and the void, over the stock row, the cashboxes and the ledger.         *)
(*                                                                         *)
(*   backend/src/pos/pos.service.ts                                        *)
(*   backend/src/chart-of-accounts/posting.service.ts                      *)
(*     postInvoice, postInvoiceEdit, the postInvoice...Delta methods,      *)
(*     postInvoicePaymentRedistribution, reverseByReference                *)
(*   database/migrations/011_functions_and_triggers.sql                    *)
(*     recompute_invoice_totals                                            *)
(*   database/migrations/033_void_invoice_and_edit.sql  fn_void_invoice    *)
(*                                                                         *)
(* editInvoice locks the invoice and is one transaction, so each path is   *)
(* one action; voidInvoice commits fn_void_invoice before it reverses the  *)
(* entry.  A bucket of payments (method, account) is the cashbox it is     *)
(* paid into.  Tax, discounts, cost of goods and points are left out.      *)
(***************************************************************************)
EXTENDS Integers, Sequences, Functions

CONSTANTS
  Drawer, Bank,  \* the shift's cashbox, and the one of a card account
  Stock,         \* pieces on hand at the start
  MaxQty,        \* bound on the pieces of the invoice
  MaxPrice,      \* bound on the price of a piece
  MaxEdits,      \* bound on edit_count
  NoEntry, Nothing

Boxes   == {Drawer, Bank}
Amounts == 1 .. MaxQty * MaxPrice
Entries == [lines : [Boxes -> Seq(Nat)], ar : Nat, revenue : Nat]

ASSUME SalesAssumption ==
  /\ Drawer # Bank /\ NoEntry \notin Entries
  /\ Stock \in Nat /\ MaxQty \in Nat \ {0} /\ MaxPrice \in Nat \ {0}
  /\ MaxEdits \in Nat

VARIABLES
  status,    \* invoices.status, "none" before createInvoice
  items,     \* the invoice_items: rows, pieces, and the sum of line_total
  grand,     \* grand_total
  paid,      \* paid_amount
  payments,  \* Boxes -> amounts of the invoice_payments rows of the bucket
  entry,     \* the live journal entry ('invoice', id), or NoEntry
  trail,     \* Boxes -> amounts of the cashbox_transactions ('invoice', id)
  delta,     \* sum of the entries posted under the delta references
  held,      \* Boxes -> cash the cashbox took for the invoice
  onHand,    \* quantity_on_hand
  moved,     \* sum of the stock movements of the invoice
  edits,     \* edit_count
  voiding,   \* how far voidInvoice came
  asked,     \* history: what the last plain edit asked for, or Nothing
  reposted,  \* history: the legacy path ran
  drift      \* history: a path ran on what another one left inexact

lines == <<items, grand, paid, payments>>
books == <<entry, trail, delta, held>>
shelf == <<onHand, moved>>
past  == <<asked, reposted, drift>>
salesVars == <<status, items, grand, paid, payments, entry, trail, delta, held,
               onHand, moved, edits, voiding, asked, reposted, drift>>

Sum(s)  == FoldFunction(+, 0, s)
Sums(p) == [b \in Boxes |-> Sum(p[b])]
Total(p) == Sum(p[Drawer]) + Sum(p[Bank])
Rows(p)  == Len(p[Drawer]) + Len(p[Bank])

NoRows   == [b \in Boxes |-> << >>]
NoDelta  == [cash |-> [b \in Boxes |-> 0], ar |-> 0, revenue |-> 0]

(* What a request may carry: its lines, and at most two payments. *)
Orders == {o \in [rows : 1 .. 2, qty : 1 .. MaxQty, revenue : Amounts] :
             /\ o.rows <= o.qty
             /\ o.qty <= o.revenue /\ o.revenue <= o.qty * MaxPrice}
Tenders == {p \in [Boxes -> {<< >>} \cup {<<a>> : a \in Amounts}
                             \cup {<<a, b>> : a \in Amounts, b \in Amounts}] :
              Rows(p) <= 2 /\ Total(p) <= MaxQty * MaxPrice}
Requests == [items : Orders, pay : Tenders]

(* The type invariant; quantity_on_hand has a CHECK. *)
SalesTypeOK ==
  /\ status \in {"none", "paid", "cancelled"}
  /\ items \in [rows : Nat, qty : Nat, revenue : Nat]
  /\ grand \in Nat /\ paid \in Nat
  /\ payments \in [Boxes -> Seq(Nat)]
  /\ entry \in Entries \cup {NoEntry}
  /\ trail \in [Boxes -> Seq(Int)]
  /\ delta \in [cash : [Boxes -> Int], ar : Int, revenue : Int]
  /\ held \in [Boxes -> Int]
  /\ onHand \in Nat /\ moved \in Int /\ edits \in 0 .. MaxEdits
  /\ voiding \in {"no", "reversing", "answered", "crashed"}
  /\ asked \in [revenue : Nat, pay : [Boxes -> Nat]] \cup {Nothing}
  /\ reposted \in BOOLEAN /\ drift \in BOOLEAN

SalesInit ==
  /\ status = "none" /\ items = [rows |-> 0, qty |-> 0, revenue |-> 0]
  /\ grand = 0 /\ paid = 0 /\ payments = NoRows
  /\ entry = NoEntry /\ trail = NoRows /\ delta = NoDelta
  /\ held = [b \in Boxes |-> 0]
  /\ onHand = Stock /\ moved = 0 /\ edits = 0 /\ voiding = "no"
  /\ asked = Nothing /\ reposted = FALSE /\ drift = FALSE

-----------------------------------------------------------------------------
(* Mutant: the stock row has no CHECK. *)
MovementUnchecked(n) == onHand' = onHand + n /\ moved' = moved + n

(* A movement of n pieces, which the trigger applies to the stock row. *)
Movement(n) ==
  /\ onHand + n >= 0
  /\ onHand' = onHand + n
  /\ moved' = moved + n

(* postInvoice: a debit and a cash movement per payment, the rest owed. *)
Entry(p, total, received) ==
  [lines |-> p, ar |-> IF total > received THEN total - received ELSE 0,
   revenue |-> total]

(* The engine refuses an unbalanced entry. *)
Balanced(p, total, received) ==
  LET e == Entry(p, total, received) IN Total(p) + e.ar = e.revenue

(* Mutant: the guards are not asked. *)
ReversibleBlind == TRUE

(* reverseByReference inverts every movement of the invoice; the alignment *)
(* guards want one per cash line of the live entry and none besides.       *)
Reversible == entry = NoEntry \/ trail = entry.lines

(* createInvoice, with the posting in its transaction. *)
Create(r) ==
  /\ status = "none"
  /\ Total(r.pay) >= r.items.revenue
  /\ Balanced(r.pay, r.items.revenue, Total(r.pay))
  /\ r.items.qty <= onHand
  /\ Movement(-r.items.qty)
  /\ status' = "paid" /\ items' = r.items
  /\ grand' = r.items.revenue /\ paid' = Total(r.pay) /\ payments' = r.pay
  /\ entry' = Entry(r.pay, r.items.revenue, Total(r.pay))
  /\ trail' = r.pay /\ held' = Sums(r.pay)
  /\ UNCHANGED <<delta, edits, voiding, past>>

-----------------------------------------------------------------------------
(* The classifiers, in the order editInvoice asks them.  The first compares *)
(* how many payments each bucket has, never their amounts.                  *)
SameItems(r) == r.items.rows = items.rows /\ r.items.qty = items.qty
SameShape(r) == \A b \in Boxes : Len(r.pay[b]) = Len(payments[b])

(* Mutant: the change of the total is not compared with the payments'. *)
MonetaryOnlyPaid(r) ==
  /\ SameItems(r) /\ SameShape(r)
  /\ Total(r.pay) >= paid

MonetaryOnly(r) ==
  /\ SameItems(r) /\ SameShape(r)
  /\ Total(r.pay) >= paid
  /\ r.items.revenue - grand = Total(r.pay) - paid

Change(r, b) == Sum(r.pay[b]) - Sum(payments[b])
Changed(r)   == {b \in Boxes : Change(r, b) # 0}

Redistribution(r) ==
  /\ ~MonetaryOnly(r)
  /\ SameItems(r)
  /\ Total(r.pay) = paid /\ Total(r.pay) = grand
  /\ Changed(r) # {}
  /\ Total(r.pay) = Total(payments)   \* the changes add up to nothing

(* The price of a new piece, rounded to the smallest unit; exactly between    *)
(* two, floating point may take either.                                       *)
UnitPrices(r) ==
  LET pieces  == r.items.qty - items.qty
      revenue == r.items.revenue - items.revenue
  IN {u \in 1 .. revenue : 2 * (pieces * u - revenue) \in -pieces .. pieces}

Positive(r) ==
  /\ ~MonetaryOnly(r) /\ ~Redistribution(r)
  /\ r.items.qty > items.qty /\ r.items.revenue > items.revenue
  /\ UnitPrices(r) # {}
  /\ \A b \in Boxes : Change(r, b) >= 0
  /\ r.items.revenue - items.revenue >= Total(r.pay) - Total(payments)

Reduction(r) ==
  /\ ~MonetaryOnly(r) /\ ~Redistribution(r)
  /\ r.items.qty <= items.qty /\ r.items.revenue < items.revenue

(* A reduction that would hand money back is refused. *)
Owed(r) ==
  /\ paid <= grand + r.items.revenue - items.revenue
  /\ Total(r.pay) = paid
  /\ \A b \in Boxes : Change(r, b) >= 0

Legacy(r) ==
  ~MonetaryOnly(r) /\ ~Redistribution(r) /\ ~Positive(r) /\ ~Reduction(r)

(* History.  An edit is plain when the items add up to the invoice, there   *)
(* is one payment, and it does not both reprice and move the same amount.   *)
Plain(r) ==
  /\ items.revenue = grand /\ Rows(payments) = 1
  /\ r.items.revenue = grand \/ Total(r.pay) # paid

(* editInvoice refuses a cancelled invoice. *)
Editable == status = "paid" /\ edits < MaxEdits

Edited(r) ==
  /\ edits' = edits + 1
  /\ asked' = IF Plain(r)
              THEN [revenue |-> r.items.revenue, pay |-> Sums(r.pay)]
              ELSE Nothing
  /\ UNCHANGED <<status, voiding>>

AddDelta(cash, ar, revenue) ==
  /\ delta' = [cash |-> [b \in Boxes |-> delta.cash[b] + cash[b]],
               ar |-> delta.ar + ar, revenue |-> delta.revenue + revenue]
  /\ held' = [b \in Boxes |-> held[b] + cash[b]]
  /\ UNCHANGED <<entry, trail>>

(* applyMonetaryDeltaEdit: one more payment like the first of them, which    *)
(* is any, ids being random; the items keep their old prices.                *)
EditMonetary(r, b) ==
  LET more == Total(r.pay) - paid IN
  /\ Editable /\ MonetaryOnly(r)
  /\ more > 0 => payments[b] # << >>
  /\ payments' = IF more > 0 THEN [payments EXCEPT ![b] = Append(@, more)]
                             ELSE payments
  /\ grand' = r.items.revenue /\ paid' = Total(r.pay)
  /\ AddDelta([c \in Boxes |-> IF c = b THEN more ELSE 0], 0, more)
  /\ Edited(r)
  /\ UNCHANGED <<items, shelf, reposted, drift>>

(* Mutant: the bucket gets one more row. *)
RedistributedAppended(p, r, b, i) ==
  IF Change(r, b) = 0 THEN p[b] ELSE Append(p[b], Sum(r.pay[b]))

(* applyPaymentRedistributionEdit writes one row per changed bucket, and the *)
(* trigger on the payments then computes both totals from the rows.          *)
Redistributed(p, r, b, i) ==
  IF Change(r, b) = 0 THEN p[b]
  ELSE LET want == Sum(r.pay[b]) IN
       IF p[b] = << >> THEN <<want>>
       ELSE IF want = 0 THEN [k \in 1 .. Len(p[b]) - 1 |->
                                p[b][IF k < i THEN k ELSE k + 1]]
       ELSE [p[b] EXCEPT ![i] = want]

EditRedistribute(r) ==
  /\ Editable /\ Redistribution(r)
  /\ \E first \in [Boxes -> 1 .. 3] :
       /\ \A b \in Boxes : first[b] \in DOMAIN payments[b] \/ first[b] = 1
       /\ payments' = [b \in Boxes |-> Redistributed(payments, r, b, first[b])]
  /\ grand' = items.revenue /\ paid' = Total(payments')
  /\ AddDelta([b \in Boxes |-> Change(r, b)], 0, 0)
  /\ drift' = (drift \/ items.revenue # grand
                     \/ \E b \in Changed(r) : Len(payments[b]) > 1)
  /\ Edited(r)
  /\ UNCHANGED <<items, shelf, reposted>>

(* applyPositiveStructuralDeltaEdit: only what is new.  The row and the entry *)
(* have the rounded price, the invoice what was asked for; the engine lets    *)
(* the entry be out of balance by one.                                        *)
EditPositive(r) ==
  LET pieces  == r.items.qty - items.qty
      revenue == r.items.revenue - items.revenue
      more    == Total(r.pay) - Total(payments)
  IN
  /\ Editable /\ Positive(r)
  /\ Movement(-pieces)
  /\ payments' = [b \in Boxes |-> IF Change(r, b) > 0
                                  THEN Append(payments[b], Change(r, b))
                                  ELSE payments[b]]
  /\ grand' = grand + revenue /\ paid' = paid + more
  /\ \E unit \in UnitPrices(r) :
       /\ pieces * unit - revenue \in -1 .. 1
       /\ items' = [rows |-> items.rows + 1, qty |-> r.items.qty,
                    revenue |-> items.revenue + pieces * unit]
       /\ AddDelta([b \in Boxes |-> Change(r, b)], revenue - more, pieces * unit)
       /\ drift' = (drift \/ pieces * unit # revenue)
  /\ Edited(r)
  /\ UNCHANGED reposted

(* Mutant: the pieces do not come back. *)
EditReduceUnshelved(r) ==
  LET revenue == r.items.revenue - items.revenue IN
  /\ Editable /\ Reduction(r) /\ Owed(r)
  /\ items' = [r.items EXCEPT !.rows = 1]
  /\ grand' = grand + revenue
  /\ AddDelta([b \in Boxes |-> 0], revenue, revenue)
  /\ Edited(r)
  /\ UNCHANGED <<payments, paid, shelf, reposted, drift>>

(* applySafeNegativeUnpaidDeltaEdit: the customer owes less. *)
EditReduce(r) ==
  LET revenue == r.items.revenue - items.revenue IN
  /\ Editable /\ Reduction(r) /\ Owed(r)
  /\ items' = [r.items EXCEPT !.rows = 1]
  /\ Movement(items.qty - r.items.qty)
  /\ grand' = grand + revenue
  /\ AddDelta([b \in Boxes |-> 0], revenue, revenue)
  /\ Edited(r)
  /\ UNCHANGED <<payments, paid, reposted, drift>>

(* The legacy path: everything is written anew, and postInvoiceEdit reverses *)
(* and posts again; what went under a delta reference stays.                 *)
EditLegacy(r) ==
  LET revenue == r.items.revenue
      before  == Sums(entry.lines) IN
  /\ Editable /\ Legacy(r) /\ Reversible
  /\ Balanced(r.pay, revenue, Total(r.pay))
  /\ items' = r.items /\ payments' = r.pay
  /\ grand' = revenue /\ paid' = Total(r.pay)
  /\ Movement(items.qty - r.items.qty)
  /\ entry' = Entry(r.pay, revenue, Total(r.pay))
  /\ trail' = [b \in Boxes |-> trail[b] \o r.pay[b]]
  /\ held' = [b \in Boxes |-> held[b] - before[b] + Sum(r.pay[b])]
  /\ reposted' = TRUE
  /\ drift' = (drift \/ delta # NoDelta)
  /\ Edited(r)
  /\ UNCHANGED delta

-----------------------------------------------------------------------------
(* fn_void_invoice takes the cash payments back out of the cashbox of any    *)
(* movement of the invoice: LIMIT 1 without an order.                        *)
Void(b) ==
  LET cash == payments[Drawer] IN
  /\ status = "paid"
  /\ trail[b] # << >> \/ (trail = NoRows /\ b = Drawer)
  /\ status' = "cancelled" /\ voiding' = "reversing"
  /\ Movement(items.qty)
  /\ IF trail[b] = << >> THEN UNCHANGED <<trail, held>>
     ELSE /\ trail' = [trail EXCEPT ![b] = @ \o [i \in DOMAIN cash |-> -cash[i]]]
          /\ held' = [held EXCEPT ![b] = @ - Sum(cash)]
  /\ UNCHANGED <<lines, entry, delta, edits, past>>

(* Then the entry is reversed; an error is returned, and not looked at. *)
VoidReverse ==
  /\ voiding = "reversing"
  /\ voiding' = "answered"
  /\ IF Reversible /\ entry # NoEntry
     THEN /\ entry' = NoEntry
          /\ held' = [b \in Boxes |-> held[b] - Sum(entry.lines[b])]
     ELSE UNCHANGED <<entry, held>>
  /\ UNCHANGED <<status, lines, trail, delta, shelf, edits, past>>

VoidCrash ==
  /\ voiding = "reversing"
  /\ voiding' = "crashed"
  /\ UNCHANGED <<status, lines, books, shelf, edits, past>>

(* Another sale takes a piece. *)
OtherSale ==
  /\ onHand > 0
  /\ onHand' = onHand - 1
  /\ UNCHANGED <<status, lines, books, moved, edits, voiding, past>>

SalesNext ==
  \/ \E r \in Requests :
       \/ Create(r)
       \/ \E b \in Boxes : EditMonetary(r, b)
       \/ EditRedistribute(r) \/ EditPositive(r)
       \/ EditReduce(r) \/ EditLegacy(r)
  \/ \E b \in Boxes : Void(b)
  \/ VoidReverse \/ VoidCrash \/ OtherSale

SalesSpec == SalesInit /\ [][SalesNext]_salesVars

-----------------------------------------------------------------------------
(* Whichever paths the edits took, the cashboxes hold for a live invoice what *)
(* its payment rows say, bucket by bucket, its live entry and the deltas add  *)
(* up to its total and to what is owed, and it is not paid beyond its total   *)
(* - unless one path ran on what an earlier one left inexact.                 *)
BooksMatchInvoice ==
  status = "paid" /\ ~drift =>
    /\ held = Sums(payments)
    /\ entry.revenue + delta.revenue = grand
    /\ entry.ar + delta.ar = grand - paid
    /\ paid <= grand

(* The stock movements of the invoice are its pieces, and after a void none.  *)
StockMatchesItems == moved = IF status = "paid" THEN -items.qty ELSE 0

(* After a plain edit the invoice has the total and the payments that were    *)
(* asked for, whatever the classifiers made of it.                            *)
EditedAsAsked ==
  asked # Nothing => grand = asked.revenue /\ Sums(payments) = asked.pay

(* A void that answered has given all of the money back, when the invoice was *)
(* paid by one means and its movements and payments are of that means; for a  *)
(* card only if no edit moved money.                                          *)
OneMeans(b) ==
  /\ \A c \in Boxes \ {b} : payments[c] = << >> /\ trail[c] = << >>
  /\ b = Bank => ~reposted /\ delta.cash[Bank] = 0
VoidReturnsTheMoney ==
  voiding = "answered" /\ ~drift /\ (\E b \in Boxes : OneMeans(b)) =>
    \A b \in Boxes : held[b] = 0
=============================================================================
