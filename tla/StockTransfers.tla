--------------------------- MODULE StockTransfers ---------------------------
(***************************************************************************)
(* Stock transfers between warehouses over the stock ledger.               *)
(*                                                                         *)
(*   backend/src/stock-transfers/stock-transfers.service.ts                *)
(*   database/migrations/143b_pr_fix_inventory_hygiene.sql                 *)
(*     fn_adjust_stock_v2, apply_stock_movement                            *)
(*   database/migrations/004_inventory.sql  stock, stock_transfer_items    *)
(*   database/migrations/029_final_sync.sql  fn_adjust_stock (v1)          *)
(*                                                                         *)
(* Every operation is one transaction that locks the transfer's row first, *)
(* so it is one action; ship is two, because it checks the stock rows      *)
(* without locking them and deducts later, and other transactions run in   *)
(* between.  Items are keyed by variant, as UNIQUE (transfer_id,           *)
(* variant_id) makes them.  Stock movements are kept as the sums they add  *)
(* up to.                                                                  *)
(***************************************************************************)
EXTENDS Integers, FiniteSets

CONSTANTS
  Transfers, Variants, Warehouses,
  Active,         \* the warehouses with is_active
  NoRow,          \* there is no stock row for the variant and warehouse
  MaxQty,         \* bound on a requested quantity
  MaxStock,       \* bound on a stock row
  MaxDrift,       \* bound on how far adjustments take a row off its ledger
  MaxOff          \* bound on the number of rows that are off

ASSUME StockTransfersAssumption ==
  /\ Active \subseteq Warehouses
  /\ MaxQty \in Nat \ {0} /\ MaxStock \in Nat /\ MaxDrift \in Nat
  /\ MaxOff \in Nat
  /\ NoRow \notin Int

VARIABLES
  status,     \* Transfers -> stock_transfers.status, "none" before create
  from, to,   \* Transfers -> its warehouses
  requested,  \* Transfers -> Variants -> quantity_requested, 0: no item
  received,   \* Transfers -> Variants -> quantity_received
  stock,      \* Warehouses -> Variants -> quantity_on_hand, or NoRow
  ledger,     \* Warehouses -> Variants -> sum of the signed stock_movements
  movedOut,   \* Transfers -> Variants -> its transfer_out movements
  movedIn,    \* Transfers -> Variants -> its transfer_in movements
  shipping,   \* transfers whose ship transaction passed its stock check
  drift,      \* history: Warehouses -> Variants -> what fn_adjust_stock wrote
              \* to the stock row beside its movements
  doubled     \* history: transfers with a receipt that named an item twice

document == <<status, from, to, requested, received>>
journal  == <<stock, ledger, movedOut, movedIn>>
vars     == <<status, from, to, requested, received, stock, ledger, movedOut,
              movedIn, shipping, drift, doubled>>

EDITABLE   == {"draft", "pending"}
SHIPPABLE  == {"draft", "pending", "approved"}
RECEIVABLE == {"in_transit", "partially_received"}
Shipped    == RECEIVABLE \cup {"received"}
Statuses   == SHIPPABLE \cup Shipped \cup {"cancelled"}

Quantities == 0 .. MaxQty
NoItems    == [v \in Variants |-> 0]
ItemLists  == [Variants -> Quantities]
Items(t)   == {v \in Variants : requested[t][v] > 0}
OnHand(w, v) == IF stock[w][v] = NoRow THEN 0 ELSE stock[w][v]

(* The type invariant; it includes the CHECKs of the tables. *)
TypeOK ==
  /\ status \in [Transfers -> Statuses \cup {"none"}]
  /\ from \in [Transfers -> Warehouses]
  /\ to \in [Transfers -> Warehouses]
  /\ requested \in [Transfers -> ItemLists]
  /\ received \in [Transfers -> ItemLists]
  /\ stock \in [Warehouses -> [Variants -> Nat \cup {NoRow}]]
  /\ ledger \in [Warehouses -> [Variants -> Int]]
  /\ movedOut \in [Transfers -> [Variants -> Nat]]
  /\ movedIn \in [Transfers -> [Variants -> Nat]]
  /\ shipping \subseteq Transfers
  /\ drift \in [Warehouses -> [Variants -> Int]]
  /\ doubled \subseteq Transfers

Init ==
  /\ status = [t \in Transfers |-> "none"]
  /\ \E w \in Warehouses :
       from = [t \in Transfers |-> w] /\ to = [t \in Transfers |-> w]
  /\ requested = [t \in Transfers |-> NoItems]
  /\ received = [t \in Transfers |-> NoItems]
  /\ stock = [w \in Warehouses |-> [v \in Variants |-> NoRow]]
  /\ ledger = [w \in Warehouses |-> [v \in Variants |-> 0]]
  /\ movedOut = [t \in Transfers |-> NoItems]
  /\ movedIn = [t \in Transfers |-> NoItems]
  /\ shipping = {}
  /\ drift = [w \in Warehouses |-> [v \in Variants |-> 0]]
  /\ doubled = {}

-----------------------------------------------------------------------------
(* The ledger: inserting a movement fires apply_stock_movement. *)

(* The stock row after a movement of delta; a missing row is inserted with *)
(* GREATEST(delta, 0).                                                     *)
RowAfter(row, delta) ==
  IF row = NoRow THEN (IF delta > 0 THEN delta ELSE 0) ELSE row + delta

(* One movement of d[v] per variant with d[v] # 0 in warehouse w; CHECK    *)
(* (quantity_on_hand >= 0) lets the transaction commit.                    *)
Move(w, d) ==
  /\ \A v \in Variants : d[v] # 0 =>
       RowAfter(stock[w][v], d[v]) \in 0 .. MaxStock
  /\ stock' = [stock EXCEPT ![w] =
       [v \in Variants |-> IF d[v] # 0 THEN RowAfter(stock[w][v], d[v])
                           ELSE stock[w][v]]]
  /\ ledger' = [ledger EXCEPT ![w] =
       [v \in Variants |-> ledger[w][v] + d[v]]]

(* Purchases and sales move the same rows; the ones that take pieces out   *)
(* check quantity_on_hand first.                                           *)
OtherMovement(w, v) ==
  /\ \E delta \in {-1, 1} :
       /\ delta < 0 => OnHand(w, v) >= 1
       /\ Move(w, [NoItems EXCEPT ![v] = delta])
  /\ UNCHANGED <<document, movedOut, movedIn, shipping, drift, doubled>>

(* The other rows that are off; MaxOff bounds them. *)
OffBeside(w, v) ==
  {at \in Warehouses \X Variants : at # <<w, v>> /\ drift[at[1]][at[2]] # 0}

(* fn_adjust_stock v1, for a manual adjustment, an approved return, or an  *)
(* exchange: it writes the row itself, then inserts a movement, for which  *)
(* apply_stock_movement writes the row again.  Where CHECK refuses that,   *)
(* the movement is dropped and the first write stays.                      *)
AdjustStock(w, v, delta) ==
  LET once  == RowAfter(stock[w][v], delta)
      twice == once + delta
      apart == drift[w][v] + once - OnHand(w, v)
  IN /\ once \in 0 .. MaxStock /\ twice <= MaxStock
     /\ apart \in -MaxDrift .. MaxDrift
     /\ apart # 0 => Cardinality(OffBeside(w, v)) < MaxOff
     /\ stock' = [stock EXCEPT ![w][v] = IF twice >= 0 THEN twice ELSE once]
     /\ ledger' = [ledger EXCEPT ![w][v] = IF twice >= 0 THEN @ + delta ELSE @]
     /\ drift' = [drift EXCEPT ![w][v] = apart]
     /\ UNCHANGED <<document, movedOut, movedIn, shipping, doubled>>

-----------------------------------------------------------------------------
Free(t) == t \notin shipping    \* SELECT ... FOR UPDATE does not wait

(* assertWarehousesActive and from # to. *)
Route(f, w) == f # w /\ f \in Active /\ w \in Active

(* create: a draft with at least one item; repeated variants are added up  *)
(* by ON CONFLICT.                                                         *)
Create(t) ==
  /\ status[t] = "none"
  /\ \E f, w \in Warehouses, items \in ItemLists \ {NoItems} :
       /\ Route(f, w)
       /\ from' = [from EXCEPT ![t] = f]
       /\ to' = [to EXCEPT ![t] = w]
       /\ requested' = [requested EXCEPT ![t] = items]
  /\ status' = [status EXCEPT ![t] = "draft"]
  /\ UNCHANGED <<received, journal, shipping, drift, doubled>>

(* update: warehouses, draft <-> pending, and the whole item list. *)
Update(t) ==
  /\ Free(t) /\ status[t] \in EDITABLE
  /\ \E f, w \in Warehouses :
       /\ Route(f, w)
       /\ from' = [from EXCEPT ![t] = f]
       /\ to' = [to EXCEPT ![t] = w]
  /\ \E s \in EDITABLE : status' = [status EXCEPT ![t] = s]
  /\ \/ UNCHANGED <<requested, received>>
     \/ /\ \E items \in ItemLists \ {NoItems} :
             requested' = [requested EXCEPT ![t] = items]
        /\ received' = [received EXCEPT ![t] = NoItems]
  /\ UNCHANGED <<journal, shipping, drift, doubled>>

Approve(t) ==
  /\ Free(t) /\ status[t] \in EDITABLE
  /\ Items(t) # {}
  /\ status' = [status EXCEPT ![t] = "approved"]
  /\ UNCHANGED <<from, to, requested, received, journal, shipping, drift, doubled>>

(* Mutant: the availability check is gone. *)
ShipCheckBlind(t) ==
  /\ Free(t) /\ status[t] \in SHIPPABLE
  /\ shipping' = shipping \cup {t}
  /\ UNCHANGED <<document, journal, drift, doubled>>

(* ship, first half: lock the transfer, compare every item with            *)
(* v_stock_unified.quantity_on_hand.                                       *)
ShipCheck(t) ==
  /\ Free(t) /\ status[t] \in SHIPPABLE
  /\ Items(t) # {}
  /\ \A v \in Items(t) : OnHand(from[t], v) >= requested[t][v]
  /\ shipping' = shipping \cup {t}
  /\ UNCHANGED <<document, journal, drift, doubled>>

(* ship, second half: one transfer_out movement per item, in_transit. *)
ShipDeduct(t) ==
  /\ t \in shipping
  /\ Move(from[t], [v \in Variants |-> -requested[t][v]])
  /\ movedOut' = [movedOut EXCEPT ![t] =
       [v \in Variants |-> movedOut[t][v] + requested[t][v]]]
  /\ status' = [status EXCEPT ![t] = "in_transit"]
  /\ shipping' = shipping \ {t}
  /\ UNCHANGED <<from, to, requested, received, movedIn, drift, doubled>>

(* ship fails: another transaction took the pieces after the check and the *)
(* CHECK constraint aborts this one, or it is the victim of a deadlock.    *)
ShipAbort(t) ==
  /\ t \in shipping
  /\ shipping' = shipping \ {t}
  /\ UNCHANGED <<document, journal, drift, doubled>>

(* receive: the request names some items with their cumulative quantities; *)
(* `again` holds the second rows of a request that names an item twice.    *)
(* All rows are checked, and all deltas computed, against the quantities   *)
(* read at the start.                                                      *)
Requests(t) == UNION {[I -> Quantities] : I \in (SUBSET Items(t)) \ {{}}}
Second(new) == UNION {[I -> Quantities] : I \in SUBSET (DOMAIN new)}

Valid(t, rows) ==
  \A v \in DOMAIN rows : rows[v] \in received[t][v] .. requested[t][v]

(* Mutant: the cumulative quantity is taken for the delta. *)
DeltaAbsolute(t, rows) ==
  [v \in Variants |-> IF v \in DOMAIN rows THEN rows[v] ELSE 0]

Delta(t, rows) ==
  [v \in Variants |-> IF v \in DOMAIN rows THEN rows[v] - received[t][v] ELSE 0]
Written(t, new, again) ==
  [v \in Variants |-> IF Delta(t, again)[v] # 0 THEN again[v]
                      ELSE IF v \in DOMAIN new THEN new[v] ELSE received[t][v]]

Complete(t, got) == \A v \in Items(t) : got[v] >= requested[t][v]

Receive(t) ==
  /\ Free(t) /\ status[t] \in RECEIVABLE
  /\ \E new \in Requests(t) : \E again \in Second(new) :
       LET delta == [v \in Variants |-> Delta(t, new)[v] + Delta(t, again)[v]]
           got   == Written(t, new, again)
       IN /\ Valid(t, new) /\ Valid(t, again)
          /\ Move(to[t], delta)
          /\ movedIn' = [movedIn EXCEPT ![t] =
               [v \in Variants |-> movedIn[t][v] + delta[v]]]
          /\ received' = [received EXCEPT ![t] = got]
          /\ doubled' = IF DOMAIN again = {} THEN doubled ELSE doubled \cup {t}
          /\ status' = [status EXCEPT ![t] =
               IF Complete(t, got) THEN "received" ELSE "partially_received"]
  /\ UNCHANGED <<from, to, requested, movedOut, shipping, drift>>

Cancel(t) ==
  /\ Free(t) /\ status[t] \in SHIPPABLE
  /\ status' = [status EXCEPT ![t] = "cancelled"]
  /\ UNCHANGED <<from, to, requested, received, journal, shipping, drift, doubled>>

Next ==
  \/ \E t \in Transfers :
       \/ Create(t) \/ Update(t) \/ Approve(t) \/ Cancel(t)
       \/ ShipCheck(t) \/ ShipDeduct(t) \/ ShipAbort(t) \/ Receive(t)
  \/ \E w \in Warehouses, v \in Variants :
       \/ OtherMovement(w, v)
       \/ \E delta \in {-1, 1} : AdjustStock(w, v, delta)

Spec == Init /\ [][Next]_vars

-----------------------------------------------------------------------------
(* Properties. *)

(* Every stock row is the sum of its movements, through missing rows,      *)
(* failed ships, partial receipts and refused adjustments, but for what    *)
(* fn_adjust_stock writes beside the movement it inserts.                  *)
LedgerMatchesStock ==
  \A w \in Warehouses, v \in Variants :
    OnHand(w, v) = ledger[w][v] + drift[w][v]

(* A document's movements are exactly what the document says: nothing left *)
(* the source before shipping and everything requested left it after; what *)
(* entered the destination is what was recorded as received, never more    *)
(* than was sent and all of it once the status is 'received' - unless a    *)
(* receipt named an item twice (both rows add their delta and one is       *)
(* recorded).                                                              *)
MovementsMatchDocument ==
  \A t \in Transfers, v \in Variants :
    /\ movedOut[t][v] = IF status[t] \in Shipped THEN requested[t][v] ELSE 0
    /\ t \notin doubled =>
         /\ movedIn[t][v] = received[t][v]
         /\ movedIn[t][v] <= movedOut[t][v]
         /\ status[t] = "received" => movedIn[t][v] = movedOut[t][v]

(* The check in ship and the deduction are apart, and still no piece is    *)
(* sent that was not in the source when it left.                           *)
NothingFromNothing ==
  [][\A t \in Transfers, v \in Variants :
       movedOut'[t][v] # movedOut[t][v] =>
         OnHand(from[t], v) >= movedOut'[t][v] - movedOut[t][v]]_vars
=============================================================================
