-------------------------- MODULE InventoryCounts --------------------------
(***************************************************************************)
(* Stocktaking in one warehouse.                                           *)
(*                                                                         *)
(*   backend/src/inventory-counts/inventory-counts.service.ts              *)
(*   database/migrations/146b_inventory_counts_workflow.sql                *)
(*                                                                         *)
(* Every operation is one transaction under a lock on the count's row, so  *)
(* it is one action.  Between two of them the shop goes on: sales and      *)
(* deliveries move the books (stock) and the shelf together, and pieces    *)
(* get lost from the shelf alone.  A count freezes the books, the operator *)
(* counts the shelf, and finalize adds the variance to the books.          *)
(* finalize's second fast path (movements without the status) is left out: *)
(* NoVarianceUnrecorded shows that it has nothing to do.                   *)
(***************************************************************************)
EXTENDS Integers

CONSTANTS
  Counts, Variants,
  Unset,     \* no row yet: no item in the count, no counted_qty
  MaxStock   \* bound on a quantity

ASSUME InventoryCountsAssumption ==
  /\ MaxStock \in Nat
  /\ Unset \notin Int

VARIABLES
  status,    \* Counts -> inventory_counts.status, "none" before create
  system,    \* Counts -> Variants -> system_qty of its item, or Unset
  counted,   \* Counts -> Variants -> counted_qty of its item, or Unset
  variance,  \* Counts -> Variants -> its 'finalize' stock movements, signed
  stock,     \* Variants -> quantity_on_hand
  shelf,     \* Variants -> pieces really there
  clean      \* history: <<c, v>> counted truthfully, undisturbed so far

vars == <<status, system, counted, variance, stock, shelf, clean>>

ITEM_EDIT   == {"draft", "open", "counting"}
REVIEWABLE  == {"open", "counting"}
FINALIZABLE == {"review", "counting"}
CANCELLABLE == {"draft", "open", "counting", "review"}
Statuses    == CANCELLABLE \cup {"none", "finalized", "cancelled"}

Quantities == 0 .. MaxStock
Items(c)   == {v \in Variants : system[c][v] # Unset}
Missing(c) == {v \in Items(c) : counted[c][v] = Unset}
Open       == {c \in Counts : status[c] \in CANCELLABLE}

(* The type invariant. *)
TypeOK ==
  /\ status \in [Counts -> Statuses]
  /\ system \in [Counts -> [Variants -> Nat \cup {Unset}]]
  /\ counted \in [Counts -> [Variants -> Nat \cup {Unset}]]
  /\ variance \in [Counts -> [Variants -> Int]]
  /\ stock \in [Variants -> Nat]
  /\ shelf \in [Variants -> Nat]
  /\ clean \subseteq Counts \X Variants

Init ==
  /\ status = [c \in Counts |-> "none"]
  /\ system = [c \in Counts |-> [v \in Variants |-> Unset]]
  /\ counted = [c \in Counts |-> [v \in Variants |-> Unset]]
  /\ variance = [c \in Counts |-> [v \in Variants |-> 0]]
  /\ stock \in [Variants -> Quantities]
  /\ shelf \in [Variants -> Quantities]
  /\ clean = {}

-----------------------------------------------------------------------------
(* The shop. *)

(* A sale or a delivery moves the books and the shelf; an item that is     *)
(* frozen but not yet counted is not comparable any more.                  *)
Trade(v) ==
  /\ \E d \in {-1, 1} :
       /\ stock[v] + d \in Quantities /\ shelf[v] + d \in Quantities
       /\ stock' = [stock EXCEPT ![v] = @ + d]
       /\ shelf' = [shelf EXCEPT ![v] = @ + d]
  /\ clean' = {x \in clean : x[2] # v \/ counted[x[1]][v] # Unset}
  /\ UNCHANGED <<status, system, counted, variance>>

(* A piece is lost: what was counted is not there any more. *)
Lose(v) ==
  /\ shelf[v] > 0
  /\ shelf' = [shelf EXCEPT ![v] = @ - 1]
  /\ clean' = {x \in clean : x[2] # v \/ counted[x[1]][v] = Unset}
  /\ UNCHANGED <<status, system, counted, variance, stock>>

-----------------------------------------------------------------------------
(* The counts. *)

Create(c) ==
  /\ status[c] = "none"
  /\ status' = [status EXCEPT ![c] = "draft"]
  /\ UNCHANGED <<system, counted, variance, stock, shelf, clean>>

(* Mutant: a second freeze refreshes the quantities. *)
SnapshotAgain(c, scope) ==
  /\ system' = [system EXCEPT ![c] =
       [v \in Variants |-> IF v \in scope THEN stock[v] ELSE system[c][v]]]
  /\ clean' = clean \cup {<<c, v>> : v \in scope \ Items(c)}

(* snapshotItems: the variants of the scope, ON CONFLICT DO NOTHING. *)
Snapshot(c, scope) ==
  /\ system' = [system EXCEPT ![c] =
       [v \in Variants |-> IF v \in scope /\ system[c][v] = Unset
                           THEN stock[v] ELSE system[c][v]]]
  /\ clean' = clean \cup {<<c, v>> : v \in scope \ Items(c)}

(* A scope is a set of variants, or the default: everything in stock. *)
Scopes == (SUBSET Variants \ {{}}) \cup {{v \in Variants : stock[v] > 0}}

(* start: create and freeze in one transaction. *)
Start(c) ==
  /\ status[c] = "none"
  /\ \E scope \in Scopes : Snapshot(c, scope)
  /\ status' = [status EXCEPT ![c] = "open"]
  /\ UNCHANGED <<counted, variance, stock, shelf>>

(* freeze: a draft becomes open; in every other status, also after the     *)
(* review and after the end, the snapshot is run again and nothing else.   *)
Freeze(c) ==
  /\ status[c] # "none"
  /\ \E scope \in Scopes : Snapshot(c, scope)
  /\ status' = [status EXCEPT ![c] = IF @ = "draft" THEN "open" ELSE @]
  /\ UNCHANGED <<counted, variance, stock, shelf>>

(* updateItems: quantities for some items; the first one that lands moves  *)
(* the count to counting.  A truthful quantity is what is on the shelf.    *)
UpdateItems(c) ==
  /\ status[c] \in ITEM_EDIT
  /\ \E v \in Items(c), q \in Quantities :
       /\ counted' = [counted EXCEPT ![c][v] = q]
       /\ clean' = IF q = shelf[v] /\ counted[c][v] = Unset
                   THEN clean ELSE clean \ {<<c, v>>}
  /\ status' = [status EXCEPT ![c] = "counting"]
  /\ UNCHANGED <<system, variance, stock, shelf>>

Review(c) ==
  /\ status[c] \in REVIEWABLE
  /\ Missing(c) = {}
  /\ status' = [status EXCEPT ![c] = "review"]
  /\ UNCHANGED <<system, counted, variance, stock, shelf, clean>>

(* counted_qty - system_qty, the frozen one. *)
Difference(c, v) ==
  IF v \in Items(c) /\ counted[c][v] # Unset
  THEN counted[c][v] - system[c][v] ELSE 0

Fits(c) == \A v \in Variants : stock[v] + Difference(c, v) \in Quantities

(* Mutant: no status guard, a second finalize applies the variance again. *)
FinalizeAgain(c) ==
  /\ status[c] \in FINALIZABLE \cup {"finalized"}
  /\ Missing(c) = {}
  /\ Fits(c)
  /\ stock' = [v \in Variants |-> stock[v] + Difference(c, v)]
  /\ variance' = [variance EXCEPT ![c] =
       [v \in Variants |-> variance[c][v] + Difference(c, v)]]
  /\ status' = [status EXCEPT ![c] = "finalized"]
  /\ clean' = {x \in clean : x[1] # c /\ Difference(c, x[2]) = 0}
  /\ UNCHANGED <<system, counted, shelf>>

(* finalize: every variance as one fn_adjust_stock_v2 movement; CHECK      *)
(* (quantity_on_hand >= 0) aborts all of it.  Another count of the same    *)
(* variant is disturbed by the correction.                                 *)
Finalize(c) ==
  /\ status[c] \in FINALIZABLE
  /\ Missing(c) = {}
  /\ Fits(c)
  /\ stock' = [v \in Variants |-> stock[v] + Difference(c, v)]
  /\ variance' = [variance EXCEPT ![c] =
       [v \in Variants |-> variance[c][v] + Difference(c, v)]]
  /\ status' = [status EXCEPT ![c] = "finalized"]
  /\ clean' = {x \in clean : x[1] # c /\ Difference(c, x[2]) = 0}
  /\ UNCHANGED <<system, counted, shelf>>

Cancel(c) ==
  /\ status[c] \in CANCELLABLE
  /\ status' = [status EXCEPT ![c] = "cancelled"]
  /\ UNCHANGED <<system, counted, variance, stock, shelf, clean>>

Next ==
  \/ \E c \in Counts : Create(c) \/ Start(c) \/ Freeze(c) \/ UpdateItems(c)
                       \/ Review(c) \/ Finalize(c) \/ Cancel(c)
  \/ \E v \in Variants : Trade(v) \/ Lose(v)

Spec == Init /\ [][Next]_vars

-----------------------------------------------------------------------------
(* Properties. *)

(* A count's movements are its variance, once, and only when finalized:    *)
(* re-freezing, cancelling and finalizing again change nothing.            *)
NoVarianceUnrecorded ==
  \A c \in Counts, v \in Variants :
    variance[c][v] = IF status[c] = "finalized" THEN Difference(c, v) ELSE 0

(* An item that was counted truthfully with nothing moved between its      *)
(* freeze and its counting still predicts the shelf: the variance kept for *)
(* it stays right through every later sale and delivery.                   *)
VarianceStaysRight ==
  \A c \in Counts, v \in Variants :
    <<c, v>> \in clean /\ counted[c][v] # Unset /\ status[c] \in CANCELLABLE =>
      stock[v] + Difference(c, v) = shelf[v]

(* Finalizing such an item makes the books equal to the shelf. *)
FinalizeCorrects ==
  [][\A c \in Counts, v \in Variants :
       /\ status[c] # "finalized" /\ status'[c] = "finalized"
       /\ <<c, v>> \in clean
       => stock'[v] = shelf'[v]]_vars
=============================================================================
