------------------------------ MODULE CashDesk ------------------------------
(***************************************************************************)
(* Cashboxes: their balance column against the log of cash movements.      *)
(*                                                                         *)
(*   backend/src/cash-desk/cash-desk.service.ts                            *)
(*   backend/src/chart-of-accounts/{financial-engine,posting}.service.ts   *)
(*   backend/src/accounting/accounting.service.ts (createExpense)          *)
(*   database/migrations/068 (fn_record_cashbox_txn), 120 (the triggers of *)
(*     customer_payments and supplier_payments)                            *)
(*                                                                         *)
(* Two ways lead to a balance.  fn_record_cashbox_txn reads it FOR UPDATE. *)
(* The payment triggers read it without a lock and later write the sum, so *)
(* what commits in between is overwritten.  A request's locks follow from  *)
(* how far it is: a transfer holds its source FOR UPDATE, and whoever      *)
(* inserted a row that references a box (a payment, an expense) holds the  *)
(* box FOR KEY SHARE, which goes with other KEY SHAREs and with plain      *)
(* updates but not with FOR UPDATE.  A statement that would wait for a     *)
(* lock is an action that is not enabled.                                  *)
(*                                                                         *)
(* The engine's alignment guards want a movement exactly with a line on a  *)
(* liquid account (1111, 1113, 1114, 1115), and the payments post theirs   *)
(* without a movement.  So a box in Liquid, which falls back on such an    *)
(* account, refuses cash payments, and a box with an account of its own    *)
(* refuses what posts on the box's account.  It takes the movements that   *)
(* post nothing (recordCashOnlyMovement, fn_void_invoice) or post on a     *)
(* liquid account they name themselves (a non-cash sale or refund).        *)
(***************************************************************************)
EXTENDS Integers, FiniteSets

CONSTANTS
  Boxes,
  Liquid,       \* the boxes without a GL account of their own
  Payments,     \* payment rows
  Suppliers,    \* the ones that pay a supplier: their money goes out
  Tasks,        \* requests, one operation each
  Money

ASSUME CashDeskAssumption ==
  /\ Liquid \subseteq Boxes
  /\ Suppliers \subseteq Payments
  /\ Money \subseteq Nat \ {0}

VARIABLES
  balance,    \* Boxes -> cashboxes.current_balance
  ledger,     \* Boxes -> sum of its cashbox_transactions
  payment,    \* Payments -> [status, box, amount] of the row
  moved,      \* Payments -> sum of the payment's cashbox_transactions
  posted,     \* Payments -> sum of its journal entries on the box's account
  task,       \* Tasks -> the operation and what it has read
  overtaken,  \* history: boxes that changed between a trigger's read and write
  unreversed, \* history: voided payments whose entry was left standing
  overlapped  \* history: payments that were reversed by two requests at once

boxes     == <<balance, ledger>>
rows      == <<payment, moved, posted>>
histories == <<overtaken, unreversed, overlapped>>
deskVars  == <<balance, ledger, payment, moved, posted, task, overtaken,
               unreversed, overlapped>>

Pcs(S) == {r \in Tasks : task[r].pc \in S}

(* A void's first transaction is over, its second one is not. *)
Undoing == {"reversing", "posting"}

(* The type invariant: every variable holds the values its code can give it. *)
DeskTypeOK ==
  /\ balance \in [Boxes -> Int]
  /\ ledger \in [Boxes -> Int]
  /\ \A p \in Payments :
       \/ payment[p] = [status |-> "none"]
       \/ payment[p] \in [status : {"live", "void"}, box : Boxes \ Liquid,
                           amount : Money]
  /\ moved \in [Payments -> Int]
  /\ posted \in [Payments -> Int]
  /\ \A r \in Tasks :
       \/ task[r] \in [pc : {"idle", "done"}]
       \/ task[r] \in [pc : {"transfer"}, from : Boxes, to : Boxes,
                          amount : Money, seen : Int]
       \/ task[r] \in [pc : {"paying"}, of : Payments, box : Boxes,
                          amount : Money, seen : Int]
       \/ task[r] \in [pc : {"spending"}, box : Boxes, amount : Money]
       \/ task[r] \in [pc : {"voiding", "returning"} \cup Undoing,
                          of : Payments, seen : Int]
  /\ overtaken \subseteq Boxes
  /\ unreversed \cup overlapped \subseteq Payments

DeskInit ==
  /\ balance = [b \in Boxes |-> 0]
  /\ ledger = [b \in Boxes |-> 0]
  /\ payment = [p \in Payments |-> [status |-> "none"]]
  /\ moved = [p \in Payments |-> 0]
  /\ posted = [p \in Payments |-> 0]
  /\ task = [r \in Tasks |-> [pc |-> "idle"]]
  /\ overtaken = {}
  /\ unreversed = {}
  /\ overlapped = {}

Signed(p, amount) == IF p \in Suppliers THEN -amount ELSE amount

Becomes(r, rec) == task' = [task EXCEPT ![r] = rec]
Ends(r)         == Becomes(r, [pc |-> "done"])

-----------------------------------------------------------------------------
(* Locks on a box. *)

ForUpdate(b) == {r \in Pcs({"transfer"}) : task[r].from = b}

KeyShare(b) == {r \in Pcs({"paying", "spending"}) : task[r].box = b}

MayLock(r, b)   == ForUpdate(b) \cup KeyShare(b) \subseteq {r}
MayUpdate(r, b) == ForUpdate(b) \subseteq {r}

(* The boxes a request waits to lock, and whom it waits for. *)
Wants(r) ==
  CASE task[r].pc = "transfer" -> {task[r].to}
    [] task[r].pc = "spending" -> {task[r].box}
    [] OTHER -> {}

WaitsFor(r) ==
  UNION {ForUpdate(b) \cup KeyShare(b) : b \in Wants(r)} \ {r}

(* The requests r waits for, directly or through others. *)
Blockers(r) ==
  LET within[n \in Nat] ==
        IF n = 0 THEN WaitsFor(r)
        ELSE LET near == within[n - 1]
             IN  near \cup UNION {WaitsFor(q) : q \in near}
  IN  within[Cardinality(Tasks)]

-----------------------------------------------------------------------------
(* Writes of a balance. *)

(* fn_record_cashbox_txn: the movement and the new balance, under the lock. *)
Record(deltas) ==
  /\ ledger' = [b \in Boxes |-> ledger[b] + deltas[b]]
  /\ balance' = [b \in Boxes |-> balance[b] + deltas[b]]

Readers(b) ==
  {r \in Pcs({"paying"}) : task[r].box = b}
    \cup {r \in Pcs({"returning"}) : payment[task[r].of].box = b}

(* A payment trigger's UPDATE: what it read, plus the payment. *)
WriteBack(r, b, seen, delta) ==
  /\ balance' = [balance EXCEPT ![b] = seen + delta]
  /\ ledger' = [ledger EXCEPT ![b] = @ + delta]
  /\ overtaken' = IF Readers(b) \subseteq {r} THEN overtaken
                  ELSE overtaken \cup {b}

-----------------------------------------------------------------------------
(* Requests that move cash through the engine. *)

Single(b, n) == [c \in Boxes |-> IF c = b THEN n ELSE 0]

(* deposit (a box in Liquid), a cash-only movement, a non-cash leg: all    *)
(* lock one box and move its cash.  An 'out' is not compared with the      *)
(* balance, and a void's trigger that has read it overwrites the movement. *)
Move(r, b, n) ==
  /\ task[r].pc = "idle"
  /\ MayLock(r, b)
  /\ Record(Single(b, n))
  /\ overtaken' = IF Readers(b) = {} THEN overtaken ELSE overtaken \cup {b}
  /\ Ends(r)
  /\ UNCHANGED <<rows, unreversed, overlapped>>

(* Mutant: transferBetweenCashboxes reads the source without FOR UPDATE. *)
LockSourceNot(r, from, to, n) ==
  /\ task[r].pc = "idle"
  /\ from # to
  /\ Becomes(r, [pc |-> "transfer", from |-> from, to |-> to, amount |-> n,
                 seen |-> balance[from]])
  /\ UNCHANGED <<boxes, rows, histories>>

(* transferBetweenCashboxes locks the source first. *)
LockSource(r, from, to, n) ==
  /\ task[r].pc = "idle"
  /\ from # to
  /\ MayLock(r, from)
  /\ Becomes(r, [pc |-> "transfer", from |-> from, to |-> to, amount |-> n,
                 seen |-> balance[from]])
  /\ UNCHANGED <<boxes, rows, histories>>

(* It locks the destination, finds enough in the source, and moves.        *)
Transfer(r) ==
  /\ task[r].pc = "transfer"
  /\ LET t == task[r] IN
     /\ MayLock(r, t.to)
     /\ t.seen >= t.amount
     /\ {t.from, t.to} \subseteq Liquid
     /\ Record([b \in Boxes |-> CASE b = t.from -> -t.amount
                                     [] b = t.to -> t.amount
                                     [] OTHER -> 0])
  /\ Ends(r)
  /\ UNCHANGED <<rows, histories>>

(* Mutant: a refused transfer keeps its transaction, and the lock, open. *)
RefuseTransferOpen(r) == task[r].pc = "transfer" /\ UNCHANGED deskVars

(* It locks the destination and throws: too little in the source, or a box *)
(* the alignment guards refuse.                                            *)
RefuseTransfer(r) ==
  /\ task[r].pc = "transfer"
  /\ LET t == task[r] IN
     /\ MayLock(r, t.to)
     /\ t.seen < t.amount \/ ~({t.from, t.to} \subseteq Liquid)
  /\ Ends(r)
  /\ UNCHANGED <<boxes, rows, histories>>

(* createExpense inserts the row, whose foreign key shares the box's lock. *)
InsertExpense(r, b, n) ==
  /\ task[r].pc = "idle"
  /\ MayUpdate(r, b)
  /\ Becomes(r, [pc |-> "spending", box |-> b, amount |-> n])
  /\ UNCHANGED <<boxes, rows, histories>>

(* No rule asks for an approval: it posts in the same transaction, for     *)
(* which the engine wants the box FOR UPDATE.                              *)
PostExpense(r) ==
  /\ task[r].pc = "spending"
  /\ task[r].box \in Liquid
  /\ MayLock(r, task[r].box)
  /\ Record(Single(task[r].box, -task[r].amount))
  /\ Ends(r)
  /\ UNCHANGED <<rows, histories>>

(* The engine locks the box, and its alignment guards refuse the entry. *)
RefuseExpense(r) ==
  /\ task[r].pc = "spending"
  /\ task[r].box \notin Liquid
  /\ MayLock(r, task[r].box)
  /\ Ends(r)
  /\ UNCHANGED <<boxes, rows, histories>>

(* PostgreSQL's deadlock detector aborts a transaction that waits for      *)
(* itself; nothing in the code repeats it.                                 *)
Deadlocked(r) ==
  /\ Wants(r) # {}
  /\ r \in Blockers(r)
  /\ Ends(r)
  /\ UNCHANGED <<boxes, rows, histories>>

-----------------------------------------------------------------------------
(* Cash payments of customers and to suppliers. *)

(* receiveFromCustomer, payToSupplier: the INSERT locks the box FOR KEY    *)
(* SHARE, then its trigger reads the balance.                              *)
InsertPayment(r, p, b, n) ==
  /\ task[r].pc = "idle"
  /\ payment[p].status = "none"
  /\ \A q \in Pcs({"paying"}) : task[q].of # p
  /\ MayUpdate(r, b)
  /\ Becomes(r, [pc |-> "paying", of |-> p, box |-> b, amount |-> n,
                 seen |-> balance[b]])
  /\ UNCHANGED <<boxes, rows, histories>>

(* Mutant: the alignment guards let the entry pass on every account. *)
CommitPaymentAnyBox(r) ==
  /\ task[r].pc = "paying"
  /\ LET q == task[r]
         n == Signed(q.of, q.amount) IN
     /\ MayUpdate(r, q.box)
     /\ WriteBack(r, q.box, q.seen, n)
     /\ payment' = [payment EXCEPT ![q.of] =
                      [status |-> "live", box |-> q.box, amount |-> q.amount]]
     /\ moved' = [moved EXCEPT ![q.of] = n]
     /\ posted' = [posted EXCEPT ![q.of] = n]
  /\ Ends(r)
  /\ UNCHANGED <<unreversed, overlapped>>

(* The trigger writes balance and movement, the service posts the entry,   *)
(* all of it commits.                                                      *)
CommitPayment(r) ==
  /\ task[r].pc = "paying"
  /\ LET q == task[r]
         n == Signed(q.of, q.amount) IN
     /\ q.box \notin Liquid
     /\ MayUpdate(r, q.box)
     /\ WriteBack(r, q.box, q.seen, n)
     /\ payment' = [payment EXCEPT ![q.of] =
                      [status |-> "live", box |-> q.box, amount |-> q.amount]]
     /\ moved' = [moved EXCEPT ![q.of] = n]
     /\ posted' = [posted EXCEPT ![q.of] = n]
  /\ Ends(r)
  /\ UNCHANGED <<unreversed, overlapped>>

(* An allocation or the posting fails, as it always does for a box in      *)
(* Liquid: the whole transaction rolls back.                               *)
RefusePayment(r) ==
  /\ task[r].pc = "paying"
  /\ Ends(r)
  /\ UNCHANGED <<boxes, rows, histories>>

(* voidSupplierPayment looks at is_void first, voidCustomerPayment does not. *)
AskVoid(r, p) ==
  /\ task[r].pc = "idle"
  /\ payment[p].status # "none"
  /\ p \in Suppliers => payment[p].status = "live"
  /\ Becomes(r, [pc |-> "voiding", of |-> p, seen |-> 0])
  /\ UNCHANGED <<boxes, rows, histories>>

(* Mutant: the trigger does not compare OLD.is_void with NEW.is_void. *)
BeginVoidAlways(r) ==
  /\ task[r].pc = "voiding"
  /\ LET p == task[r].of IN
     /\ \A q \in Pcs({"returning"}) : task[q].of # p
     /\ Becomes(r, [pc |-> "returning", of |-> p,
                    seen |-> balance[payment[p].box]])
  /\ UNCHANGED <<boxes, rows, histories>>

(* The UPDATE waits for the payment's row; if it turns is_void the trigger *)
(* reads the balance, else there is only the reversal left to try.         *)
BeginVoid(r) ==
  /\ task[r].pc = "voiding"
  /\ LET p == task[r].of IN
     /\ \A q \in Pcs({"returning"}) : task[q].of # p
     /\ Becomes(r, [pc |-> IF payment[p].status = "live" THEN "returning"
                           ELSE "reversing",
                    of |-> p, seen |-> balance[payment[p].box]])
  /\ UNCHANGED <<boxes, rows, histories>>

(* The trigger takes the cash back and the UPDATE commits. *)
CommitVoid(r) ==
  /\ task[r].pc = "returning"
  /\ LET p == task[r].of
         b == payment[p].box
         n == -Signed(p, payment[p].amount) IN
     /\ MayUpdate(r, b)
     /\ WriteBack(r, b, task[r].seen, n)
     /\ payment' = [payment EXCEPT ![p].status = "void"]
     /\ moved' = [moved EXCEPT ![p] = @ + n]
  /\ Becomes(r, [task[r] EXCEPT !.pc = "reversing"])
  /\ UNCHANGED <<posted, unreversed, overlapped>>

(* reverseByReference, a transaction of its own, finds the entry live and  *)
(* no reversal of it, or has nothing to do.  The payment's movements are   *)
(* of reference type 'other', so it moves no cash.                         *)
FindEntry(r) ==
  /\ task[r].pc = "reversing"
  /\ LET p == task[r].of
     IN  IF posted[p] = Signed(p, payment[p].amount)
         THEN Becomes(r, [task[r] EXCEPT !.pc = "posting"])
         ELSE Ends(r)
  /\ UNCHANGED <<boxes, rows, histories>>

(* The reversing entry commits; no index keeps a second one out. *)
PostReversal(r) ==
  /\ task[r].pc = "posting"
  /\ LET p == task[r].of IN
     /\ posted' = [posted EXCEPT ![p] = @ - Signed(p, payment[p].amount)]
     /\ unreversed' = unreversed \ {p}
     /\ overlapped' =
          IF \E q \in Pcs({"posting"}) \ {r} : task[q].of = p
          THEN overlapped \cup {p} ELSE overlapped
  /\ Ends(r)
  /\ UNCHANGED <<boxes, payment, moved, overtaken>>

(* It fails, or the server dies: the void's answer does not say so. *)
LoseReversal(r) ==
  /\ task[r].pc \in Undoing
  /\ unreversed' = unreversed \cup {task[r].of}
  /\ Ends(r)
  /\ UNCHANGED <<boxes, rows, overtaken, overlapped>>

-----------------------------------------------------------------------------
Step(r) ==
  \/ Transfer(r) \/ RefuseTransfer(r) \/ PostExpense(r) \/ RefuseExpense(r)
  \/ Deadlocked(r)
  \/ CommitPayment(r) \/ RefusePayment(r)
  \/ BeginVoid(r) \/ CommitVoid(r) \/ FindEntry(r) \/ PostReversal(r)
  \/ LoseReversal(r)

(* Every request was answered: the desk is at rest. *)
AtRest ==
  /\ Pcs({"done"}) = Tasks
  /\ UNCHANGED deskVars

DeskNext ==
  \/ \E r \in Tasks, b \in Boxes, n \in Money :
       \/ Move(r, b, n) \/ Move(r, b, -n)
       \/ InsertExpense(r, b, n)
       \/ \E c \in Boxes : LockSource(r, b, c, n)
       \/ \E p \in Payments : InsertPayment(r, p, b, n)
  \/ \E r \in Tasks, p \in Payments : AskVoid(r, p)
  \/ \E r \in Tasks : Step(r)
  \/ AtRest

(* Node runs a request to its end, PostgreSQL grants a lock nobody holds   *)
(* and looks for deadlocks.                                                *)
Fairness == \A r \in Tasks : WF_deskVars(Step(r))

DeskSpec == DeskInit /\ [][DeskNext]_deskVars /\ Fairness

-----------------------------------------------------------------------------
(* Properties. *)

(* A box shows the sum of its movements.  A box on a liquid account never  *)
(* loses an update, whatever transfers, deposits, expenses and refused     *)
(* payments overlap.  One with an account of its own loses one only when a *)
(* payment's trigger, which reads without a lock, wrote what another       *)
(* trigger or an engine movement had changed behind its back.              *)
BalanceIsLedger ==
  /\ \A b \in Boxes \ overtaken : balance[b] = ledger[b]
  /\ overtaken \cap Liquid = {}

(* Two transfers never spend the same money: one takes no more out of a    *)
(* box than its movements had left there, whoever takes cash out at the    *)
(* same time (transferBetweenCashboxes' check under the lock).             *)
NoDoubleSpend ==
  [][\A r \in Tasks :
       Transfer(r) => ledger'[task[r].from] >= 0]_deskVars

(* Voiding a payment undoes it once, in the cashbox and in the books, also *)
(* when it is voided again or by two requests: the cash always, the books  *)
(* unless the second of the two transactions was lost, is still to come,   *)
(* or ran in two requests at once.                                         *)
VoidUndoesPayment ==
  \A p \in Payments :
    LET standing == IF payment[p].status = "live"
                    THEN Signed(p, payment[p].amount) ELSE 0
        undoing  == {r \in Pcs(Undoing) : task[r].of = p} IN
    /\ moved[p] = standing
    /\ \/ posted[p] = standing
       \/ p \in unreversed \cup overlapped
       \/ undoing # {}

(* Opposite transfers and concurrent expenses wait for each other's lock,  *)
(* yet every request that holds one ends.                                  *)
LockersEnd ==
  \A r \in Tasks :
    task[r].pc \in {"transfer", "spending"} ~> task[r].pc = "done"
=============================================================================
