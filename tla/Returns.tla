------------------------------- MODULE Returns -------------------------------
(***************************************************************************)
(* Returned goods of one invoice line: request, approval, refund, cancel,  *)
(* and the edit requests that rewrite a return afterwards, over the stock  *)
(* row, the cashboxes and the ledger they all write.                       *)
(*                                                                         *)
(*   backend/src/returns/returns.service.ts                                *)
(*   backend/src/returns/return-edit-requests.service.ts                   *)
(*   backend/src/chart-of-accounts/posting.service.ts                      *)
(*     postReturn, reverseByReference                                      *)
(*   backend/src/chart-of-accounts/financial-engine.service.ts             *)
(*   database/migrations/029_final_sync.sql  fn_adjust_stock               *)
(*                                                                         *)
(* createReturn, approve, refund and reject read outside the transaction,  *)
(* or the statement, that writes, and nothing they write looks again, so   *)
(* each is two actions.  cancel and the edit requests lock their rows and  *)
(* are one.  A return is of one line of the invoice, which the request may  *)
(* list twice; its pieces cost 1 and there is no restocking fee, so a       *)
(* quantity is also the amount to refund.                                   *)
(***************************************************************************)
EXTENDS Integers, Sequences, FiniteSets, Functions

CONSTANTS
  Returns, EditRequests,
  Requests,       \* requests the server works on at the same time
  Drawers,        \* cashboxes a cash refund can be paid from
  PaidBox,        \* the cashbox of the account the invoice was paid into
  Sold,           \* pieces on the invoice line
  MaxQty,         \* bound on the pieces of a return
  NewLines,       \* the lines a return may be created with
  NewEdits,       \* the payloads an edit may be asked with
  MaxOnHand,      \* bound on the stock row
  NoReturn, NoBox, NoEntry

Boxes   == Drawers \cup {PaidBox}
Pieces  == 0 .. MaxQty
Posting == [box : Boxes, amount : Pieces]

(* back_to_stock and resellable; back_to_stock only; not back_to_stock. *)
Fates == {"shelf", "damaged", "scrap"}
(* The items of a return: its pieces, those of a second item of the same   *)
(* line among them, and whether they hang on the line of the invoice.      *)
Lines == {l \in [qty : Pieces, again : Pieces, fate : Fates, linked : BOOLEAN] :
            l.again <= l.qty}
Payload == [kind : {"update", "remove", "add"}, qty : Pieces]

ASSUME ReturnsAssumption ==
  /\ IsFiniteSet(Returns)
  /\ NoReturn \notin Returns /\ NoBox \notin Boxes /\ PaidBox \notin Drawers
  /\ NoEntry \notin Posting
  /\ NewLines \subseteq {l \in Lines : l.qty > l.again}
  /\ NewEdits \subseteq {p \in Payload : p.kind \in {"update", "add"} <=> p.qty > 0}
  /\ MaxQty \in Nat \ {0} /\ Sold \in Nat /\ MaxOnHand \in Nat

VARIABLES
  status,   \* Returns -> returns.status, "none" before createReturn
  invoiced, \* Returns -> it has an original_invoice_id
  line,     \* Returns -> its return_items, quantity 0: deleted
  method,   \* Returns -> refund_method, "none" before refund
  box,      \* Returns -> cashbox_id
  entry,    \* Returns -> its live journal entry, or NoEntry
  trail,    \* Returns -> cashbox_transactions ('return', id), in order
  paid,     \* Returns -> Boxes -> cash paid out for it and not taken back
  onHand,   \* quantity_on_hand of the stock row
  moved,    \* Returns -> sum of the stock movements made for it
  edit,     \* EditRequests -> the edit request
  request,  \* Requests -> what a request holds of its return
  raced,    \* history: returns written by a request whose check was stale
  unmoved,  \* history: returns edited while approved, or not resellable
  loose     \* history: a linked line was checked while another one was pending,
            \* listed twice, or edited upwards

doc   == <<status, invoiced, line, method, box>>
books == <<entry, trail, paid>>
shelf == <<onHand, moved>>
past  == <<raced, unmoved, loose>>
vars  == <<status, invoiced, line, method, box, entry, trail, paid, onHand,
           moved, edit, request, raced, unmoved, loose>>

NoLine   == [qty |-> 0, again |-> 0, fate |-> "scrap", linked |-> FALSE]
Statuses == {"none", "pending", "approved", "refunded", "rejected", "cancelled"}
NoEdit   == [status |-> "none", of |-> NoReturn,
             payload |-> [kind |-> "update", qty |-> 0]]
Idle     == [pc |-> "idle", of |-> NoReturn, line |-> NoLine, invoiced |-> FALSE]

(* The type invariant; quantity_on_hand has a CHECK. *)
TypeOK ==
  /\ status \in [Returns -> Statuses]
  /\ invoiced \in [Returns -> BOOLEAN]
  /\ line \in [Returns -> Lines]
  /\ method \in [Returns -> {"none", "cash", "card"}]
  /\ box \in [Returns -> Drawers \cup {NoBox}]
  /\ entry \in [Returns -> Posting \cup {NoEntry}]
  /\ trail \in [Returns -> Seq(Posting)]
  /\ paid \in [Returns -> [Boxes -> Int]]
  /\ onHand \in Nat /\ moved \in [Returns -> Int]
  /\ edit \in [EditRequests ->
       [status : {"none", "pending", "approved", "rejected", "applied"},
        of : Returns \cup {NoReturn}, payload : Payload]]
  /\ request \in [Requests ->
       [pc : {"idle", "creating", "approve", "approving", "refund", "reject"},
        of : Returns \cup {NoReturn}, line : Lines, invoiced : BOOLEAN]]
  /\ raced \subseteq Returns /\ unmoved \subseteq Returns /\ loose \in BOOLEAN

Init ==
  /\ status = [r \in Returns |-> "none"]
  /\ invoiced = [r \in Returns |-> FALSE]
  /\ line = [r \in Returns |-> NoLine]
  /\ method = [r \in Returns |-> "none"]
  /\ box = [r \in Returns |-> NoBox]
  /\ entry = [r \in Returns |-> NoEntry]
  /\ trail = [r \in Returns |-> << >>]
  /\ paid = [r \in Returns |-> [b \in Boxes |-> 0]]
  /\ onHand = 0 /\ moved = [r \in Returns |-> 0]
  /\ edit = [e \in EditRequests |-> NoEdit]
  /\ request = [q \in Requests |-> Idle]
  /\ raced = {} /\ unmoved = {} /\ loose = FALSE

EndRequest(q) == request' = [request EXCEPT ![q] = Idle]
RaceIf(c, r)  == raced' = IF c THEN raced \cup {r} ELSE raced

-----------------------------------------------------------------------------
(* Mutant: no idempotency guard. *)
PostsAgain(r, amount) == amount > 0

(* The ledger and the cash.  postReturn posts unless a live entry exists,   *)
(* and nothing for an amount below a piastre.                               *)
Posts(r, amount) == entry[r] = NoEntry /\ amount > 0

Target(how, from) == IF how = "cash" THEN from ELSE PaidBox

(* Mutant: refund also calls recordCashOnlyMovement. *)
PostTwice(r, target, amount) ==
  IF Posts(r, amount)
  THEN LET e == [box |-> target, amount |-> amount] IN
       /\ entry' = [entry EXCEPT ![r] = e]
       /\ trail' = [trail EXCEPT ![r] = @ \o <<e, e>>]
       /\ paid' = [paid EXCEPT ![r][target] = @ + 2 * amount]
  ELSE UNCHANGED books

Post(r, target, amount) ==
  IF Posts(r, amount)
  THEN LET e == [box |-> target, amount |-> amount] IN
       /\ entry' = [entry EXCEPT ![r] = e]
       /\ trail' = [trail EXCEPT ![r] = Append(@, e)]
       /\ paid' = [paid EXCEPT ![r][target] = @ + amount]
  ELSE UNCHANGED books

(* reverseByReference inverts every transaction of the return, none of which *)
(* a reversal ever voids, and the engine's alignment guards want exactly one *)
(* movement per cash line; without a live entry it does nothing.             *)
Reversible(r) == entry[r] = NoEntry \/ trail[r] = <<entry[r]>>

PaidAfterReversal(r) ==
  IF entry[r] = NoEntry THEN paid[r]
  ELSE [paid[r] EXCEPT ![entry[r].box] = @ - entry[r].amount]

Reverse(r) ==
  /\ entry' = [entry EXCEPT ![r] = NoEntry]
  /\ paid' = [paid EXCEPT ![r] = PaidAfterReversal(r)]
  /\ UNCHANGED trail

(* Mutant: an edited refund is not posted anew. *)
ReverseOnly(r, target, amount) == Reverse(r)

(* The same inside one transaction, then posted anew. *)
ReverseAndPost(r, target, amount) ==
  LET e == [box |-> target, amount |-> amount] IN
  IF amount = 0 THEN Reverse(r)
  ELSE /\ entry' = [entry EXCEPT ![r] = e]
       /\ trail' = [trail EXCEPT ![r] = Append(@, e)]
       /\ paid' = [paid EXCEPT
            ![r] = [PaidAfterReversal(r) EXCEPT ![target] = @ + amount]]

(* Mutant: a movement per line, not per piece. *)
ShelvedOnce(l) == IF l.fate # "scrap" /\ l.qty > 0 THEN 1 ELSE 0

(* Pieces of a line that cancel and the edits take off the shelf. *)
Shelved(l) == IF l.fate # "scrap" THEN l.qty ELSE 0

(* A movement, which the trigger applies to the stock row. *)
Movement(r, n) ==
  /\ onHand' = onHand + n
  /\ moved' = [moved EXCEPT ![r] = @ + n]

(* fn_adjust_stock writes the row and inserts a movement as well. *)
AdjustStock(r, n) ==
  /\ onHand' = onHand + 2 * n
  /\ moved' = [moved EXCEPT ![r] = @ + n]

-----------------------------------------------------------------------------
(* Mutant: a refunded return no longer counts. *)
CountedUntilRefund == {r \in Returns : line[r].linked /\ status[r] = "approved"}

(* createReturn: each item may not exceed what is left of its invoice line,  *)
(* counting approved and refunded returns, but not the other item of the     *)
(* request; the check is outside the INSERT.                                 *)
Counted  == {r \in Returns : line[r].linked /\ status[r] \in {"approved", "refunded"}}
Returned == SumFunctionOnSet([r \in Returns |-> line[r].qty], Counted)

Uncounted ==
  \/ \E r \in Returns : line[r].linked /\ status[r] = "pending"
  \/ \E q \in Requests : request[q].pc = "creating" /\ request[q].line.linked

CreateCheck(q, l) ==
  /\ request[q] = Idle
  /\ \E r \in Returns : status[r] = "none"
  /\ l.linked => l.qty - l.again <= Sold - Returned /\ l.again <= Sold - Returned
  /\ request' = [request EXCEPT
       ![q] = [pc |-> "creating", of |-> NoReturn, line |-> l, invoiced |-> l.linked]]
  /\ loose' = (loose \/ (l.linked /\ (Uncounted \/ l.again > 0)))
  /\ UNCHANGED <<doc, books, shelf, edit, raced, unmoved>>

CreateInsert(q, r) ==
  /\ request[q].pc = "creating" /\ status[r] = "none"
  /\ status' = [status EXCEPT ![r] = "pending"]
  /\ line' = [line EXCEPT ![r] = request[q].line]
  /\ invoiced' = [invoiced EXCEPT ![r] = request[q].invoiced]
  /\ unmoved' = IF request[q].line.fate = "shelf" THEN unmoved ELSE unmoved \cup {r}
  /\ EndRequest(q)
  /\ UNCHANGED <<method, box, books, shelf, edit, raced, loose>>

(* mustBeStatus. *)
From == [approve |-> "pending", refund |-> "approved", reject |-> "pending"]

Check(q, r, what) ==
  /\ request[q] = Idle
  /\ status[r] = From[what]
  /\ request' = [request EXCEPT ![q] = [Idle EXCEPT !.pc = what, !.of = r]]
  /\ UNCHANGED <<doc, books, shelf, edit, past>>

(* approve reads the items, and later writes stock and status. *)
ApproveRead(q) ==
  /\ request[q].pc = "approve"
  /\ request' = [request EXCEPT ![q].pc = "approving", ![q].line = line[request[q].of]]
  /\ UNCHANGED <<doc, books, shelf, edit, past>>

Approve(q) ==
  LET r == request[q].of
      l == request[q].line IN
  /\ request[q].pc = "approving"
  /\ IF l.fate = "shelf" THEN AdjustStock(r, l.qty) ELSE UNCHANGED shelf
  /\ onHand' <= MaxOnHand
  /\ status' = [status EXCEPT ![r] = "approved"]
  /\ RaceIf(status[r] # From.approve \/ l # line[r], r)
  /\ EndRequest(q)
  /\ UNCHANGED <<invoiced, line, method, box, books, edit, unmoved, loose>>

(* refund pays in cash from a drawer, or back to the account of a payment of *)
(* the invoice that was not in cash.  Without an invoice there is none; with *)
(* one there may be, and its payments can be edited: either may happen.      *)
NoTarget(r, how) == how = "card" /\ ~invoiced[r]

Refund(q, how, b) ==
  LET r == request[q].of IN
  /\ request[q].pc = "refund"
  /\ ~(NoTarget(r, how) /\ Posts(r, line[r].qty))
  /\ status' = [status EXCEPT ![r] = "refunded"]
  /\ method' = [method EXCEPT ![r] = how]
  /\ box' = [box EXCEPT ![r] = IF how = "cash" THEN b ELSE NoBox]
  /\ Post(r, Target(how, b), line[r].qty)
  /\ RaceIf(status[r] # From.refund, r)
  /\ EndRequest(q)
  /\ UNCHANGED <<invoiced, line, shelf, edit, unmoved, loose>>

(* A card refund without such a payment is rolled back. *)
RefundFails(q) ==
  /\ request[q].pc = "refund"
  /\ Posts(request[q].of, line[request[q].of].qty)
  /\ EndRequest(q)
  /\ UNCHANGED <<doc, books, shelf, edit, past>>

Reject(q) ==
  LET r == request[q].of IN
  /\ request[q].pc = "reject"
  /\ status' = [status EXCEPT ![r] = "rejected"]
  /\ RaceIf(status[r] # From.reject, r)
  /\ EndRequest(q)
  /\ UNCHANGED <<invoiced, line, method, box, books, shelf, edit, unmoved, loose>>

(* cancel: not for a refund that was not in cash. *)
Cancel(r) ==
  /\ status[r] \in {"approved", "refunded"}
  /\ ~(status[r] = "refunded" /\ method[r] = "card")
  /\ Reversible(r) /\ onHand >= Shelved(line[r])
  /\ Reverse(r)
  /\ Movement(r, -Shelved(line[r]))
  /\ status' = [status EXCEPT ![r] = "cancelled"]
  /\ UNCHANGED <<invoiced, line, method, box, edit, request, past>>

(* The shop sells a piece. *)
Sell ==
  /\ onHand > 0
  /\ onHand' = onHand - 1
  /\ UNCHANGED <<moved, doc, books, edit, request, past>>

-----------------------------------------------------------------------------
(* Edit requests: created for any return, reviewed once, applied once. *)
CreateEdit(e, r, p) ==
  /\ edit[e].status = "none" /\ status[r] # "none"
  /\ edit' = [edit EXCEPT ![e] = [status |-> "pending", of |-> r, payload |-> p]]
  /\ UNCHANGED <<doc, books, shelf, request, past>>

Review(e, verdict) ==
  /\ edit[e].status = "pending"
  /\ edit' = [edit EXCEPT ![e].status = verdict]
  /\ UNCHANGED <<doc, books, shelf, request, past>>

(* The items after the payload, which is about the first of them; an added   *)
(* one hangs on no invoice line.                                             *)
Edited(l, p) ==
  CASE p.kind = "update" -> [l EXCEPT !.qty = p.qty + l.again]
    [] p.kind = "remove" -> IF l.again = 0 THEN NoLine
                            ELSE [l EXCEPT !.qty = l.again, !.again = 0]
    [] p.kind = "add"    ->
         [qty |-> p.qty, again |-> 0, fate |-> "shelf", linked |-> FALSE]

Applicable(r, p) ==
  /\ status[r] \notin {"cancelled", "rejected"}
  /\ p.kind = "update" =>
       /\ line[r].qty > 0                     \* a missing item_id is refused
       /\ p.qty + line[r].again \in Pieces    \* the bound
  /\ p.kind = "add" => line[r].qty = 0        \* the model's one line per return

(* A refunded return is reversed, rewritten and posted anew; on any other     *)
(* one only the items change, also when approve put the old ones on the shelf. *)
ApplyEdit(e) ==
  LET r == edit[e].of
      new == Edited(line[r], edit[e].payload) IN
  /\ edit[e].status = "approved"
  /\ Applicable(r, edit[e].payload)
  /\ IF status[r] = "refunded"
     THEN /\ Reversible(r) /\ onHand >= Shelved(line[r])
          /\ ~(NoTarget(r, method[r]) /\ new.qty > 0)
          /\ ReverseAndPost(r, Target(method[r], box[r]), new.qty)
          /\ Movement(r, Shelved(new) - Shelved(line[r]))
          /\ onHand' <= MaxOnHand
     ELSE UNCHANGED <<books, shelf>>
  /\ line' = [line EXCEPT ![r] = new]
  /\ edit' = [edit EXCEPT ![e].status = "applied"]
  /\ unmoved' = IF status[r] = "approved" THEN unmoved \cup {r} ELSE unmoved
  /\ loose' = (loose \/ (new.linked /\ new.qty > line[r].qty))
  /\ UNCHANGED <<status, invoiced, method, box, request, raced>>

-----------------------------------------------------------------------------
Next ==
  \/ \E q \in Requests :
       \/ \E l \in NewLines : CreateCheck(q, l)
       \/ \E r \in Returns :
            \/ CreateInsert(q, r)
            \/ \E what \in DOMAIN From : Check(q, r, what)
       \/ ApproveRead(q) \/ Approve(q)
       \/ \E how \in {"cash", "card"}, b \in Drawers : Refund(q, how, b)
       \/ RefundFails(q)
       \/ Reject(q)
  \/ \E r \in Returns : Cancel(r)
  \/ Sell
  \/ \E e \in EditRequests :
       \/ \E r \in Returns, p \in NewEdits : CreateEdit(e, r, p)
       \/ \E verdict \in {"approved", "rejected"} : Review(e, verdict)
       \/ ApplyEdit(e)

Spec == Init /\ [][Next]_vars

-----------------------------------------------------------------------------
(* Through refunds, repeated refunds, edits and cancellations, and whatever  *)
(* requests overlap: the cash that is out for a return is what its live      *)
(* journal entry says, in the same cashbox; so a return is never paid twice. *)
CashMatchesEntry ==
  \A r \in Returns, b \in Boxes :
    paid[r][b] = IF entry[r] # NoEntry /\ entry[r].box = b THEN entry[r].amount ELSE 0

(* A return that no stale request wrote is booked as its status says: a      *)
(* refunded one with the amount of its items, any other one not at all.      *)
BookedAsItStands ==
  \A r \in Returns \ raced :
    LET amount == IF status[r] = "refunded" THEN line[r].qty ELSE 0 IN
    IF amount = 0 THEN entry[r] = NoEntry
    ELSE entry[r] = [box |-> Target(method[r], box[r]), amount |-> amount]

(* The stock movements of a resellable return add up to what the document    *)
(* says went back to the shelf, also after it was edited or cancelled.       *)
MovementsMatchReturn ==
  \A r \in Returns \ (raced \cup unmoved) :
    moved[r] = IF status[r] \in {"approved", "refunded"} THEN line[r].qty ELSE 0

(* Returns of an invoice line that are requested one after the other, list   *)
(* it once and are not edited upwards, never add up to more than was sold.   *)
TakenBack ==
  LET back == {r \in Returns : line[r].linked /\ status[r] \in {"approved", "refunded"}}
  IN  SumFunctionOnSet([r \in Returns |-> line[r].qty], back)
TakenOneByOne == loose \/ raced # {} \/ TakenBack <= Sold

(* A refunded return that was neither edited nor written by a stale request can  *)
(* always be reversed: the alignment guards find its one payout.                 *)
NotEdited(r) == \A e \in EditRequests : ~(edit[e].status = "applied" /\ edit[e].of = r)
RefundCanBeReversed == \A r \in Returns \ raced : NotEdited(r) => Reversible(r)
=============================================================================
