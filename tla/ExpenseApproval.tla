-------------------------- MODULE ExpenseApproval --------------------------
(***************************************************************************)
(* Multi-level approval of expenses and the posting it releases.           *)
(*                                                                         *)
(*   backend/src/accounting/approval.service.ts                            *)
(*   backend/src/accounting/accounting.service.ts (create, update,         *)
(*     approveExpense, delete)                                             *)
(*   backend/src/chart-of-accounts/financial-engine.service.ts (the        *)
(*     idempotency guard of recordTransaction)                             *)
(*                                                                         *)
(* decide() is one READ COMMITTED transaction: it locks and updates its    *)
(* own expense_approvals row, reads the rows of the expense as they are    *)
(* committed at that moment, and acts on what it read.  These are three    *)
(* actions here, so that two levels can decide at the same time; nothing a *)
(* transaction wrote is in approvals before it commits.  A transaction     *)
(* that holds the expense's row lock from its first to its last statement  *)
(* is one action.                                                          *)
(***************************************************************************)
EXTENDS Integers, Sequences, FiniteSets

CONSTANTS
  Expenses,       \* expense ids
  Rules,          \* the active approval rules
  Amounts,        \* amounts an expense can have
  Bracket         \* Rules -> the amounts between min_amount and max_amount

ASSUME ExpenseApprovalAssumption ==
  /\ IsFiniteSet(Rules)
  /\ Amounts # {}
  /\ Bracket \in [Rules -> SUBSET Amounts]

VARIABLES
  expense,    \* Expenses -> [exists, amount, is_approved]
  approvals,  \* Expenses -> Rules -> status of the row, "none" without a row
  decision,   \* Expenses -> Rules -> the transaction deciding the row
  posted,     \* Expenses -> the amounts of its live journal entries
  direct,     \* history: the expenses approved through approveExpense
  skewed      \* history: two levels counted before either committed

vars == <<expense, approvals, decision, posted, direct, skewed>>

Statuses == {"none", "pending", "approved", "rejected"}
Verdicts == {"approved", "rejected"}

Decisions ==
  [pc : {"idle", "decided", "counted"}, status : Verdicts,
   pending : 0 .. Cardinality(Rules) - 1, rejected : BOOLEAN]
Idle == [pc |-> "idle", status |-> "approved", pending |-> 0, rejected |-> FALSE]

(* The type invariant; a deciding transaction sees its own update, so it   *)
(* counts at most the other levels as pending.                             *)
TypeOK ==
  /\ expense \in [Expenses -> [exists : BOOLEAN, amount : Amounts,
                               is_approved : BOOLEAN]]
  /\ approvals \in [Expenses -> [Rules -> Statuses]]
  /\ decision \in [Expenses -> [Rules -> Decisions]]
  /\ posted \in [Expenses -> Seq(Amounts)]
  /\ direct \subseteq Expenses /\ skewed \subseteq Expenses

Init ==
  /\ expense \in [Expenses -> [exists : {FALSE}, amount : Amounts,
                               is_approved : {FALSE}]]
  /\ approvals = [e \in Expenses |-> [r \in Rules |-> "none"]]
  /\ decision = [e \in Expenses |-> [r \in Rules |-> Idle]]
  /\ posted = [e \in Expenses |-> << >>]
  /\ direct = {} /\ skewed = {}

Levels(e)      == {r \in Rules : approvals[e][r] # "none"}
With(e, s)     == {r \in Rules : approvals[e][r] = s}
Undisturbed(e) == \A r \in Rules : decision[e][r].pc = "idle"

-----------------------------------------------------------------------------
(* The engine and the expense endpoints. *)

(* recordExpense: an expense with a live entry is skipped. *)
Post(e, amount) ==
  posted' = IF posted[e] = << >>
            THEN [posted EXCEPT ![e] = <<amount>>]
            ELSE posted

(* spawnForExpense: one pending row for every rule whose bracket covers    *)
(* the amount.                                                             *)
Spawn(amount) ==
  [r \in Rules |-> IF amount \in Bracket[r] THEN "pending" ELSE "none"]

(* createExpense: without a rule the expense is approved and posted now. *)
Create(e, amount) ==
  /\ ~expense[e].exists
  /\ posted[e] = << >>                             \* ids are not used again
  /\ approvals' = [approvals EXCEPT ![e] = Spawn(amount)]
  /\ LET auto == \A r \in Rules : amount \notin Bracket[r] IN
     /\ expense' = [expense EXCEPT ![e] = [exists |-> TRUE, amount |-> amount,
                                           is_approved |-> auto]]
     /\ IF auto THEN Post(e, amount) ELSE UNCHANGED posted
  /\ UNCHANGED <<decision, direct, skewed>>

(* updateExpense: WHERE is_approved = FALSE; the rules are not matched     *)
(* again.                                                                  *)
Update(e, amount) ==
  /\ expense[e].exists
  /\ ~expense[e].is_approved
  /\ expense' = [expense EXCEPT ![e].amount = amount]
  /\ UNCHANGED <<approvals, decision, posted, direct, skewed>>

(* approveExpense: locks the expense and looks at is_approved only. *)
ApproveExpense(e) ==
  /\ expense[e].exists
  /\ ~expense[e].is_approved
  /\ expense' = [expense EXCEPT ![e].is_approved = TRUE]
  /\ Post(e, expense[e].amount)
  /\ direct' = direct \cup {e}
  /\ UNCHANGED <<approvals, decision, skewed>>

(* deleteExpense: WHERE is_approved = FALSE; its approval rows cascade, so *)
(* it waits for the transactions that hold one (or they are rolled back by *)
(* the deadlock detector, which is Abort).                                 *)
Delete(e) ==
  /\ expense[e].exists
  /\ ~expense[e].is_approved
  /\ Undisturbed(e)
  /\ expense' = [expense EXCEPT ![e].exists = FALSE]
  /\ approvals' = [approvals EXCEPT ![e] = [r \in Rules |-> "none"]]
  /\ UNCHANGED <<decision, posted, direct, skewed>>

-----------------------------------------------------------------------------
(* decide. *)

(* SELECT ... FOR UPDATE, the status check and UPDATE of the own row.  A   *)
(* second decision on the row waits, and then finds it decided.            *)
Decide(e, r, status) ==
  /\ approvals[e][r] = "pending"
  /\ decision[e][r].pc = "idle"
  /\ decision' = [decision EXCEPT ![e][r] = [Idle EXCEPT !.pc = "decided",
                                                         !.status = status]]
  /\ UNCHANGED <<expense, approvals, posted, direct, skewed>>

(* Mutants: the own row is read as it was; rejections are not counted. *)
CountOutside(e, r) ==
  /\ decision[e][r].pc = "decided"
  /\ decision' = [decision EXCEPT
       ![e][r].pc = "counted",
       ![e][r].pending = Cardinality(With(e, "pending")),
       ![e][r].rejected = With(e, "rejected") # {}]
  /\ UNCHANGED <<expense, approvals, posted, direct, skewed>>
CountPendingOnly(e, r) ==
  /\ decision[e][r].pc = "decided"
  /\ decision' = [decision EXCEPT
       ![e][r].pc = "counted",
       ![e][r].pending = Cardinality(With(e, "pending") \ {r})]
  /\ UNCHANGED <<expense, approvals, posted, direct, skewed>>

(* The summary: the committed rows of the expense and the own update. *)
Count(e, r) ==
  /\ decision[e][r].pc = "decided"
  /\ decision' = [decision EXCEPT
       ![e][r].pc = "counted",
       ![e][r].pending = Cardinality(With(e, "pending") \ {r}),
       ![e][r].rejected = \/ @ \/ decision[e][r].status = "rejected"
                          \/ With(e, "rejected") # {}]
  /\ skewed' = IF \E q \in Rules \ {r} : decision[e][q].pc = "counted"
               THEN skewed \cup {e} ELSE skewed
  /\ UNCHANGED <<expense, approvals, posted, direct>>

(* Mutant: the flag is set and nothing is posted. *)
CommitFlagOnly(e, r) ==
  /\ decision[e][r].pc = "counted"
  /\ expense' = [expense EXCEPT ![e].is_approved =
                   ~decision[e][r].rejected /\ (@ \/ decision[e][r].pending = 0)]
  /\ approvals' = [approvals EXCEPT ![e][r] = decision[e][r].status]
  /\ decision' = [decision EXCEPT ![e][r] = Idle]
  /\ UNCHANGED <<posted, direct, skewed>>

(* A rejection takes the approval away; the last approval gives it and     *)
(* posts the amount the row has now.                                       *)
Commit(e, r) ==
  /\ decision[e][r].pc = "counted"
  /\ LET d == decision[e][r] IN
     \/ /\ d.rejected
        /\ expense' = [expense EXCEPT ![e].is_approved = FALSE]
        /\ UNCHANGED posted
     \/ /\ ~d.rejected
        /\ d.pending = 0
        /\ expense' = [expense EXCEPT ![e].is_approved = TRUE]
        /\ Post(e, expense[e].amount)
     \/ /\ ~d.rejected
        /\ d.pending > 0
        /\ UNCHANGED <<expense, posted>>
  /\ approvals' = [approvals EXCEPT ![e][r] = decision[e][r].status]
  /\ decision' = [decision EXCEPT ![e][r] = Idle]
  /\ UNCHANGED <<direct, skewed>>

(* The engine refuses, the expense has no cashbox, the connection is lost: *)
(* everything is rolled back and the row is pending again.                 *)
Abort(e, r) ==
  /\ decision[e][r].pc # "idle"
  /\ decision' = [decision EXCEPT ![e][r] = Idle]
  /\ UNCHANGED <<expense, approvals, posted, direct, skewed>>

Next ==
  \E e \in Expenses :
    \/ \E a \in Amounts : Create(e, a) \/ Update(e, a)
    \/ ApproveExpense(e)
    \/ Delete(e)
    \/ \E r \in Rules :
         \/ \E s \in Verdicts : Decide(e, r, s)
         \/ Count(e, r) \/ Commit(e, r) \/ Abort(e, r)

Spec == Init /\ [][Next]_vars

-----------------------------------------------------------------------------
(* Properties. *)

(* No orphan on either side: an approved expense has its journal entry,    *)
(* for the amount the expense shows, unless a level rejected it after the  *)
(* fact (it reopens and its amount can be edited); and outside the direct  *)
(* approval what was posted still exists and is approved.                  *)
PostedIffApproved ==
  \A e \in Expenses :
    /\ expense[e].exists /\ expense[e].is_approved =>
         /\ posted[e] # << >>
         /\ With(e, "rejected") = {} => posted[e][1] = expense[e].amount
    /\ posted[e] # << >> /\ e \notin direct =>
         expense[e].exists /\ expense[e].is_approved

(* Outside the direct approval, money moves only with the consent of every *)
(* level that was asked: no interleaving of decisions posts an expense     *)
(* over a missing or a negative one.                                       *)
EveryLevelConsents ==
  \A e \in Expenses \ direct :
    posted[e] # << >> => Levels(e) = With(e, "approved")

(* Once every level approved, and no decision is under way, the expense is *)
(* approved (migration 054) - unless two levels counted before either had  *)
(* committed: each saw the other as pending, and none approves it.         *)
AllLevelsApprove ==
  \A e \in Expenses \ skewed :
    /\ expense[e].exists
    /\ Undisturbed(e)
    /\ Levels(e) = With(e, "approved")
    => expense[e].is_approved
=============================================================================
