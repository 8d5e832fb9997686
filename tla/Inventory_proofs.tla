-------------------------- MODULE Inventory_proofs ---------------------------
(***************************************************************************)
(* Theorems about InventoryCounts, for any counts, variants and quantities,*)
(* and about Reservations, for any finite sets of reservations and variants*)
(* and any number of requests.                                             *)
(***************************************************************************)
EXTENDS InventoryCounts, Reservations, SumTheorems, TLAPS

(***************************************************************************)
(* Inventory counts.                                                       *)
(***************************************************************************)
(* Only items are counted; movements are the variance of finalized counts; *)
(* an undisturbed item still has the frozen quantity until it is counted,  *)
(* and predicts the shelf from then on.                                    *)
OnlyItems == \A c \in Counts, v \in Variants :
               counted[c][v] # Unset => system[c][v] # Unset
Predicted == \A c \in Counts, v \in Variants :
               <<c, v>> \in clean =>
                 IF counted[c][v] = Unset THEN system[c][v] = stock[v]
                 ELSE stock[v] + Difference(c, v) = shelf[v]

IInv == TypeOK /\ OnlyItems /\ NoVarianceUnrecorded /\ Predicted

-----------------------------------------------------------------------------
LEMMA DifferenceIsInt ==
  ASSUME TypeOK, NEW c \in Counts, NEW v \in Variants
  PROVE  Difference(c, v) \in Int
<1>1. /\ system[c][v] \in Nat \cup {Unset} /\ counted[c][v] \in Nat \cup {Unset}
  BY DEF TypeOK
<1>2. CASE v \in Items(c) /\ counted[c][v] # Unset
  BY <1>1, <1>2 DEF Difference, Items
<1>3. CASE ~(v \in Items(c) /\ counted[c][v] # Unset)
  BY <1>3 DEF Difference
<1>4. QED
  BY <1>2, <1>3

LEMMA UnsetIsNoQuantity == \A n \in Int : n # Unset
BY InventoryCountsAssumption

LEMMA InitInv == Init => IInv
<1> SUFFICES ASSUME Init PROVE IInv
  OBVIOUS
<1>1. TypeOK
  BY InventoryCountsAssumption DEF Init, TypeOK, Statuses, CANCELLABLE, Quantities
<1>2. QED
  BY <1>1 DEF Init, IInv, OnlyItems, NoVarianceUnrecorded, Predicted

-----------------------------------------------------------------------------
(* The shop moves the books and the shelf; the counts stay as they are. *)
LEMMA TradeInv ==
  ASSUME IInv, NEW u \in Variants, Trade(u)
  PROVE  IInv'
<1>1. PICK d \in {-1, 1} :
        /\ stock[u] + d \in Quantities /\ shelf[u] + d \in Quantities
        /\ stock' = [stock EXCEPT ![u] = @ + d]
        /\ shelf' = [shelf EXCEPT ![u] = @ + d]
  BY DEF Trade
<1>2. UNCHANGED <<status, system, counted, variance>>
  BY DEF Trade
<1>3. TypeOK'
  BY <1>1, <1>2, InventoryCountsAssumption DEF Trade, IInv, TypeOK, Quantities
<1>4. \A c \in Counts, v \in Variants : Difference(c, v)' = Difference(c, v)
  BY <1>2 DEF Difference, Items
<1>5. OnlyItems' /\ NoVarianceUnrecorded'
  BY <1>2, <1>4 DEF IInv, OnlyItems, NoVarianceUnrecorded
<1>6. ASSUME NEW c \in Counts, NEW v \in Variants, (<<c, v>> \in clean)'
      PROVE  IF counted'[c][v] = Unset THEN system'[c][v] = stock'[v]
             ELSE stock'[v] + Difference(c, v)' = shelf'[v]
  <2>1. <<c, v>> \in clean /\ (v # u \/ counted[c][v] # Unset)
    BY <1>6 DEF Trade
  <2>2. stock[v] \in Nat /\ shelf[v] \in Nat /\ Difference(c, v) \in Int
    BY DifferenceIsInt DEF IInv, TypeOK
  <2>3. CASE v = u
    <3>1. stock'[v] = stock[v] + d /\ shelf'[v] = shelf[v] + d
      BY <1>1, <2>3 DEF IInv, TypeOK
    <3>2. stock[v] + Difference(c, v) = shelf[v]
      BY <2>1, <2>3 DEF IInv, Predicted
    <3>3. QED
      BY <1>2, <1>4, <2>1, <2>2, <2>3, <3>1, <3>2
  <2>4. CASE v # u
    BY <1>1, <1>2, <1>4, <2>1, <2>4 DEF IInv, TypeOK, Predicted
  <2>5. QED
    BY <2>3, <2>4
<1>7. QED
  BY <1>3, <1>5, <1>6 DEF IInv, Predicted

LEMMA LoseInv ==
  ASSUME IInv, NEW u \in Variants, Lose(u)
  PROVE  IInv'
<1>1. /\ shelf[u] > 0 /\ shelf' = [shelf EXCEPT ![u] = shelf[u] - 1]
      /\ UNCHANGED <<status, system, counted, variance, stock>>
  BY DEF Lose
<1>2. TypeOK'
  BY <1>1 DEF Lose, IInv, TypeOK
<1>3. \A c \in Counts, v \in Variants : Difference(c, v)' = Difference(c, v)
  BY <1>1 DEF Difference, Items
<1>4. OnlyItems' /\ NoVarianceUnrecorded'
  BY <1>1, <1>3 DEF IInv, OnlyItems, NoVarianceUnrecorded
<1>5. ASSUME NEW c \in Counts, NEW v \in Variants, (<<c, v>> \in clean)'
      PROVE  IF counted'[c][v] = Unset THEN system'[c][v] = stock'[v]
             ELSE stock'[v] + Difference(c, v)' = shelf'[v]
  <2>1. <<c, v>> \in clean /\ (v # u \/ counted[c][v] = Unset)
    BY <1>5 DEF Lose
  <2>2. QED
    BY <1>1, <1>3, <2>1 DEF IInv, TypeOK, Predicted
<1>6. QED
  BY <1>2, <1>4, <1>5 DEF IInv, Predicted

-----------------------------------------------------------------------------
(* Actions that only move the status of a count that is not finalized. *)
LEMMA StatusInv ==
  ASSUME IInv, NEW c \in Counts, NEW s \in Statuses,
         s # "finalized", status[c] # "finalized",
         status' = [status EXCEPT ![c] = s],
         UNCHANGED <<system, counted, variance, stock, shelf, clean>>
  PROVE  IInv'
<1>1. TypeOK'
  BY DEF IInv, TypeOK
<1>2. \A d \in Counts, v \in Variants : Difference(d, v)' = Difference(d, v)
  BY DEF Difference, Items
<1>3. \A d \in Counts : status'[d] = "finalized" <=> status[d] = "finalized"
  BY DEF IInv, TypeOK
<1>4. NoVarianceUnrecorded'
  BY <1>2, <1>3 DEF IInv, NoVarianceUnrecorded
<1>5. OnlyItems' /\ Predicted'
  BY <1>2 DEF IInv, OnlyItems, Predicted
<1>6. QED
  BY <1>1, <1>4, <1>5 DEF IInv

(* A freeze, the first one or a repeated one, gives no counted item another *)
(* difference, whatever the status.                                         *)
LEMMA SnapshotInv ==
  ASSUME IInv, NEW c \in Counts, NEW scope \in SUBSET Variants, Snapshot(c, scope), NEW s \in Statuses,
         s = "finalized" <=> status[c] = "finalized",
         status' = [status EXCEPT ![c] = s],
         UNCHANGED <<counted, variance, stock, shelf>>
  PROVE  IInv'
<1> DEFINE row == [v \in Variants |-> IF v \in scope /\ system[c][v] = Unset
                                      THEN stock[v] ELSE system[c][v]]
<1>1. system' = [system EXCEPT ![c] = row]
  BY DEF Snapshot
<1>2. row \in [Variants -> Nat \cup {Unset}]
  BY DEF IInv, TypeOK
<1>3. \A d \in Counts, v \in Variants :
        /\ system[d][v] # Unset => system'[d][v] = system[d][v]
        /\ d = c /\ v \in scope /\ system[d][v] = Unset => system'[d][v] = stock[v]
        /\ ~(d = c /\ v \in scope) => system'[d][v] = system[d][v]
  BY <1>1 DEF IInv, TypeOK
<1>4. system' \in [Counts -> [Variants -> Nat \cup {Unset}]]
  <2> HIDE DEF row
  <2>1. QED
    BY <1>1, <1>2 DEF IInv, TypeOK
<1> HIDE DEF row
<1>5. clean' = clean \cup {<<c, v>> : v \in scope \ Items(c)}
  BY DEF Snapshot
<1>6. TypeOK'
  <2>1. clean' \subseteq Counts \X Variants
    <3>1. {<<c, v>> : v \in scope \ Items(c)} \subseteq Counts \X Variants
      OBVIOUS
    <3>2. QED
      BY <1>5, <3>1 DEF IInv, TypeOK
  <2>2. QED
    BY <1>4, <2>1 DEF IInv, TypeOK
<1>7. \A d \in Counts, v \in Variants : Difference(d, v)' = Difference(d, v)
  <2> TAKE d \in Counts, v \in Variants
  <2>1. CASE counted[d][v] = Unset
    BY <2>1 DEF Difference
  <2>2. CASE counted[d][v] # Unset
    BY <1>3, <2>2 DEF Difference, Items, IInv, OnlyItems
  <2>3. QED
    BY <2>1, <2>2
<1>8. OnlyItems'
  BY <1>3 DEF IInv, OnlyItems, TypeOK
<1>9. NoVarianceUnrecorded'
  BY <1>7 DEF IInv, NoVarianceUnrecorded, TypeOK
<1>10. ASSUME NEW d \in Counts, NEW v \in Variants, (<<d, v>> \in clean)'
       PROVE  IF counted'[d][v] = Unset THEN system'[d][v] = stock'[v]
              ELSE stock'[v] + Difference(d, v)' = shelf'[v]
  <2>1. CASE <<d, v>> \in clean
    <3>1. CASE counted[d][v] = Unset
      <4>1. system[d][v] = stock[v] /\ stock[v] \in Nat
        BY <2>1, <3>1 DEF IInv, Predicted, TypeOK
      <4>2. QED
        BY <1>3, <3>1, <4>1, UnsetIsNoQuantity
    <3>2. CASE counted[d][v] # Unset
      BY <1>7, <2>1, <3>2 DEF IInv, Predicted
    <3>3. QED
      BY <3>1, <3>2
  <2>2. CASE <<d, v>> \notin clean
    <3>1. d = c /\ v \in scope /\ system[d][v] = Unset
      BY <1>5, <1>10, <2>2 DEF Items
    <3>2. counted[d][v] = Unset
      BY <3>1 DEF IInv, OnlyItems
    <3>3. QED
      BY <1>3, <3>1, <3>2
  <2>3. QED
    BY <2>1, <2>2
<1>11. QED
  BY <1>6, <1>8, <1>9, <1>10 DEF IInv, Predicted

LEMMA ScopesAreVariants == \A scope \in Scopes : scope \in SUBSET Variants
BY DEF Scopes

LEMMA StartInv ==
  ASSUME IInv, NEW c \in Counts, Start(c) \/ Freeze(c)
  PROVE  IInv'
<1>1. PICK scope \in SUBSET Variants : Snapshot(c, scope)
  BY ScopesAreVariants DEF Start, Freeze
<1>2. PICK s : /\ status' = [status EXCEPT ![c] = s]
               /\ s \in Statuses /\ (s = "finalized" <=> status[c] = "finalized")
  <2>1. status[c] \in Statuses
    BY DEF IInv, TypeOK
  <2>2. QED
    BY <2>1 DEF Start, Freeze, Statuses, CANCELLABLE
<1>3. UNCHANGED <<counted, variance, stock, shelf>>
  BY DEF Start, Freeze
<1>4. QED
  BY <1>1, <1>2, <1>3, SnapshotInv

(* A quantity for an item; a truthful first one is what the shelf has. *)
LEMMA UpdateInv ==
  ASSUME IInv, NEW c \in Counts, UpdateItems(c)
  PROVE  IInv'
<1>1. PICK u \in Items(c), q \in Quantities :
        /\ counted' = [counted EXCEPT ![c][u] = q]
        /\ clean' = IF q = shelf[u] /\ counted[c][u] = Unset
                    THEN clean ELSE clean \ {<<c, u>>}
  BY DEF UpdateItems
<1>2. /\ status[c] # "finalized" /\ status' = [status EXCEPT ![c] = "counting"]
      /\ UNCHANGED <<system, variance, stock, shelf>>
  BY DEF UpdateItems, ITEM_EDIT
<1>3. u \in Variants /\ system[c][u] \in Nat /\ q \in Nat /\ q # Unset
  BY InventoryCountsAssumption DEF Items, IInv, TypeOK, Quantities
<1>4. counted'[c][u] = q
  BY <1>1, <1>3 DEF IInv, TypeOK
<1>5. \A d \in Counts, v \in Variants :
        ~(d = c /\ v = u) => counted'[d][v] = counted[d][v]
  BY <1>1, <1>3 DEF IInv, TypeOK
<1>6. TypeOK'
  <2>1. counted' \in [Counts -> [Variants -> Nat \cup {Unset}]]
    BY <1>1, <1>3 DEF IInv, TypeOK
  <2>2. QED
    BY <1>1, <1>2, <2>1 DEF IInv, TypeOK, Statuses, CANCELLABLE
<1>7. \A d \in Counts, v \in Variants :
        ~(d = c /\ v = u) => Difference(d, v)' = Difference(d, v)
  BY <1>2, <1>5 DEF Difference, Items
<1>8. Difference(c, u)' = q - system[c][u]
  BY <1>2, <1>3, <1>4 DEF Difference, Items
<1>9. OnlyItems'
  BY <1>2, <1>3, <1>5, UnsetIsNoQuantity DEF IInv, OnlyItems
<1>10. NoVarianceUnrecorded'
  <2>1. \A d \in Counts : status'[d] = "finalized" <=> d # c /\ status[d] = "finalized"
    BY <1>2 DEF IInv, TypeOK
  <2>2. QED
    BY <1>2, <1>7, <2>1 DEF IInv, NoVarianceUnrecorded
<1>11. ASSUME NEW d \in Counts, NEW v \in Variants, (<<d, v>> \in clean)'
       PROVE  IF counted'[d][v] = Unset THEN system'[d][v] = stock'[v]
              ELSE stock'[v] + Difference(d, v)' = shelf'[v]
  <2>1. CASE d = c /\ v = u
    <3>1. <<c, u>> \in clean /\ q = shelf[u] /\ counted[c][u] = Unset
      BY <1>1, <1>11, <2>1
    <3>2. system[c][u] = stock[u]
      BY <1>3, <3>1 DEF IInv, Predicted
    <3>3. QED
      BY <1>2, <1>3, <1>4, <1>8, <2>1, <3>1, <3>2
  <2>2. CASE ~(d = c /\ v = u)
    BY <1>1, <1>2, <1>5, <1>7, <1>11, <2>2 DEF IInv, Predicted
  <2>3. QED
    BY <2>1, <2>2
<1>12. QED
  BY <1>6, <1>9, <1>10, <1>11 DEF IInv, Predicted

(* Finalizing books every difference once, and takes the disturbed items of *)
(* the other counts out.                                                    *)
LEMMA FinalizeInv ==
  ASSUME IInv, NEW c \in Counts, Finalize(c)
  PROVE  IInv'
<1>1. /\ status[c] # "finalized" /\ status' = [status EXCEPT ![c] = "finalized"]
      /\ stock' = [v \in Variants |-> stock[v] + Difference(c, v)]
      /\ variance' = [variance EXCEPT ![c] =
           [v \in Variants |-> variance[c][v] + Difference(c, v)]]
      /\ UNCHANGED <<system, counted, shelf>>
  BY DEF Finalize, FINALIZABLE
<1>2. \A v \in Variants : Difference(c, v) \in Int /\ stock[v] \in Nat /\ variance[c][v] = 0
  BY <1>1, DifferenceIsInt DEF IInv, TypeOK, NoVarianceUnrecorded
<1>3. \A d \in Counts, v \in Variants : Difference(d, v)' = Difference(d, v)
  BY <1>1 DEF Difference, Items
<1>4. TypeOK'
  <2>1. stock' \in [Variants -> Nat]
    BY <1>1 DEF Finalize, Fits, Quantities
  <2>2. variance' \in [Counts -> [Variants -> Int]]
    <3>1. [v \in Variants |-> variance[c][v] + Difference(c, v)] \in [Variants -> Int]
      BY <1>2
    <3>2. QED
      BY <1>1, <3>1 DEF IInv, TypeOK
  <2>3. status' \in [Counts -> Statuses] /\ clean' \subseteq Counts \X Variants
    BY <1>1 DEF Finalize, IInv, TypeOK, Statuses
  <2>4. QED
    BY <1>1, <2>1, <2>2, <2>3 DEF IInv, TypeOK
<1>5. OnlyItems'
  BY <1>1 DEF IInv, OnlyItems
<1>6. NoVarianceUnrecorded'
  <2>1. \A d \in Counts : status'[d] = "finalized" <=> d = c \/ status[d] = "finalized"
    BY <1>1 DEF IInv, TypeOK
  <2>2. \A v \in Variants : variance'[c][v] = Difference(c, v)
    BY <1>1, <1>2 DEF IInv, TypeOK
  <2>3. \A d \in Counts \ {c}, v \in Variants : variance'[d][v] = variance[d][v]
    BY <1>1 DEF IInv, TypeOK
  <2>4. QED
    BY <1>3, <2>1, <2>2, <2>3 DEF IInv, NoVarianceUnrecorded
<1>7. ASSUME NEW d \in Counts, NEW v \in Variants, (<<d, v>> \in clean)'
      PROVE  IF counted'[d][v] = Unset THEN system'[d][v] = stock'[v]
             ELSE stock'[v] + Difference(d, v)' = shelf'[v]
  <2>1. <<d, v>> \in clean /\ Difference(c, v) = 0
    BY <1>7 DEF Finalize
  <2>2. stock'[v] = stock[v]
    BY <1>1, <1>2, <2>1
  <2>3. QED
    BY <1>1, <1>3, <2>1, <2>2 DEF IInv, Predicted
<1>8. QED
  BY <1>4, <1>5, <1>6, <1>7 DEF IInv, Predicted

LEMMA StepInv == IInv /\ [Next]_vars => IInv'
<1> SUFFICES ASSUME IInv, [Next]_vars PROVE IInv'
  OBVIOUS
<1>1. CASE UNCHANGED vars
  BY <1>1 DEF IInv, TypeOK, OnlyItems, NoVarianceUnrecorded, Predicted, Difference,
              Items, vars
<1>2. ASSUME NEW c \in Counts, Create(c) PROVE IInv'
  BY <1>2, StatusInv DEF Create, Statuses, CANCELLABLE
<1>3. ASSUME NEW c \in Counts, Review(c) PROVE IInv'
  BY <1>3, StatusInv DEF Review, Statuses, CANCELLABLE, REVIEWABLE
<1>4. ASSUME NEW c \in Counts, Cancel(c) PROVE IInv'
  BY <1>4, StatusInv DEF Cancel, Statuses, CANCELLABLE
<1>5. QED
  BY <1>1, <1>2, <1>3, <1>4, StartInv, UpdateInv, FinalizeInv, TradeInv, LoseInv DEF Next

-----------------------------------------------------------------------------
LEMMA AlwaysInv == Spec => []IInv
BY InitInv, StepInv, PTL DEF Spec

(* Every row keeps its type; no stock row falls below zero. *)
THEOREM Typing == Spec => []TypeOK
<1>1. IInv => TypeOK
  BY DEF IInv
<1>2. QED
  BY AlwaysInv, <1>1, PTL

(* The 'finalize' movements of a count are its variance, once, and none    *)
(* exist before, whatever is frozen, counted or finalized again.           *)
THEOREM VarianceRecorded == Spec => []NoVarianceUnrecorded
<1>1. IInv => NoVarianceUnrecorded
  BY DEF IInv
<1>2. QED
  BY AlwaysInv, <1>1, PTL

(* The variance kept for an undisturbed, truthfully counted item stays     *)
(* right through later trading, however many counts run at once.           *)
THEOREM VarianceKept == Spec => []VarianceStaysRight
<1>1. IInv => VarianceStaysRight
  BY DEF IInv, Predicted, VarianceStaysRight
<1>2. QED
  BY AlwaysInv, <1>1, PTL

(* finalize makes the books of such an item equal to the shelf.            *)
THEOREM FinalizeIsRight == Spec => FinalizeCorrects
<1> DEFINE Corrects(c, v) == /\ status[c] # "finalized" /\ status'[c] = "finalized"
                             /\ <<c, v>> \in clean
                             => stock'[v] = shelf'[v]
<1>1. IInv /\ [Next]_vars => [\A c \in Counts, v \in Variants : Corrects(c, v)]_vars
  <2> SUFFICES ASSUME IInv, Next, NEW c \in Counts, NEW v \in Variants,
                      status[c] # "finalized", status'[c] = "finalized",
                      <<c, v>> \in clean
               PROVE  stock'[v] = shelf'[v]
    OBVIOUS
  <2>1. Finalize(c)
    <3>1. status \in [Counts -> Statuses]
      BY DEF IInv, TypeOK
    <3>2. QED
      BY <3>1 DEF Next, Create, Start, Freeze, UpdateItems, Review, Finalize, Cancel,
                  Trade, Lose
  <2>2. stock'[v] = stock[v] + Difference(c, v) /\ shelf'[v] = shelf[v]
    BY <2>1 DEF Finalize
  <2>3. counted[c][v] # Unset
    <3>1. SUFFICES ASSUME counted[c][v] = Unset PROVE FALSE
      OBVIOUS
    <3>2. system[c][v] = stock[v] /\ stock[v] \in Int
      BY <3>1 DEF IInv, Predicted, TypeOK
    <3>3. v \in Missing(c)
      BY <3>1, <3>2, UnsetIsNoQuantity DEF Missing, Items
    <3>4. QED
      BY <2>1, <3>3 DEF Finalize
  <2>4. QED
    BY <2>2, <2>3 DEF IInv, Predicted
<1>2. QED
  BY AlwaysInv, <1>1, PTL DEF Spec, FinalizeCorrects

------------------------------------------------------------------------------
(***************************************************************************)
(* Reservations.                                                           *)
(***************************************************************************)
(* A reservation that nobody created has nothing; a request is about one   *)
(* that somebody did, what it read to be collected is still enough, and    *)
(* the sum it saw is not more than what will be there when it commits.     *)
Fresh(r) == state[r] = "none" => invoices[r] = 0 /\ refunds[r] = 0 /\ refunded[r] = 0

About(q) ==
  request[q] # Idle =>
    /\ request[q].of \in Reservations
    /\ state[request[q].of] # "none"
    /\ request[q].remaining + payments[request[q].of] >= total[request[q].of]
    /\ request[q].inserted = TRUE =>
         /\ request[q].sum.paid <= payments[request[q].of] + request[q].pay
         /\ request[q].op = "convert" => request[q].pay >= request[q].remaining

(* A reservation nothing raced has one request at most, which knows it as  *)
(* it is, and is settled as its status says.                               *)
Alone(r) ==
  \A p, q \in Requests : request[p].of = r /\ request[q].of = r => p = q

Summed(q, r) ==
  /\ request[q].sum.paid = payments[r] + request[q].pay
  /\ request[q].sum.refunded = refunds[r] + request[q].back
  /\ request[q].op = "payment" => request[q].pay <= Remaining(r)
  /\ request[q].op \in {"payment", "convert"} => request[q].back = 0

Known(r) ==
  \A q \in Requests : request[q].of = r =>
    /\ state[r] = "active"
    /\ request[q].remaining = Remaining(r)
    /\ request[q].inserted = TRUE => Summed(q, r)

Settled(r) ==
  /\ state[r] = "none" => invoices[r] = 0 /\ refunds[r] = 0
  /\ state[r] = "active" =>
       /\ invoices[r] = 0 /\ refunds[r] = 0
       /\ total[r] = Sum(quantity[r], Reservable) => payments[r] <= total[r]
  /\ state[r] = "completed" => invoices[r] = 1 /\ refunds[r] = 0
  /\ state[r] = "cancelled" => invoices[r] = 0
  /\ paid[r] = payments[r] /\ refunded[r] = refunds[r]

ReservationInv ==
  /\ ReservationTypeOK
  /\ \A r \in Reservations : Fresh(r)
  /\ \A q \in Requests : About(q)
  /\ CollectedBeforeHandedOver
  /\ HoldsFollowReservations

OneByOne ==
  \A r \in Reservations \ raced : Alone(r) /\ Known(r) /\ Settled(r)

-----------------------------------------------------------------------------
(* Quantities, sums and refunds. *)
LEMMA SumIsSumOver ==
  ASSUME NEW f, NEW S
  PROVE  Sum(f, S) = SumOver(f, S)
  BY DEF Sum, SumOver

LEMMA ItemsAreNat ==
  ASSUME NEW items \in ItemLists, NEW v \in Reservable
  PROVE  items[v] \in Nat
  BY ReservationsAssumption DEF ItemLists

LEMMA ItemSum ==
  ASSUME NEW items \in ItemLists
  PROVE  Sum(items, Reservable) \in Nat
<1>1. \A v \in Reservable : items[v] \in Nat
  BY ItemsAreNat
<1>2. QED
  BY <1>1, ReservationsAssumption, SumIsSumOver, SumIsNat

LEMMA AtLeastZeroIsNat ==
  ASSUME NEW n \in Int
  PROVE  /\ AtLeastZero(n) \in Nat /\ AtLeastZero(n) >= n
         /\ n >= 0 => AtLeastZero(n) = n
  BY DEF AtLeastZero

LEMMA NetRefundIsNat ==
  ASSUME NEW p \in Nat, NEW policy \in {"full", "partial", "none"}
  PROVE  NetRefund(policy, p) \in Nat
<1> DEFINE fee == (p * FeePct + 50) \div 100
<1>1. p * FeePct \in Int
  BY ReservationsAssumption
<1>2. fee \in Int
  BY <1>1
<1>3. AtLeastZero(p - fee) \in Nat
  BY <1>2, AtLeastZeroIsNat
<1>4. QED
  BY <1>3 DEF NetRefund

(* What a reservation holds of v counts while it is active.                *)
Holding(v) ==
  [r \in Reservations |-> IF state[r] = "active" THEN quantity[r][v] ELSE 0]

LEMMA HoldsAreNat ==
  ASSUME ReservationTypeOK, NEW v \in Reservable
  PROVE  /\ \A r \in Reservations : Holding(v)[r] \in Nat
         /\ ActiveHolds(v) = SumOver(Holding(v), Reservations)
         /\ ActiveHolds(v) \in Nat
         /\ \A r \in Reservations :
              state[r] = "active" => quantity[r][v] <= ActiveHolds(v)
<1>1. \A r \in Reservations : quantity[r][v] \in Nat
  BY ItemsAreNat DEF ReservationTypeOK
<1>2. \A r \in Reservations : Holding(v)[r] \in Nat
  BY <1>1 DEF Holding
<1>3. ActiveHolds(v) = SumOver(Holding(v), Reservations)
  BY SumIsSumOver DEF ActiveHolds, Holding
<1>4. /\ SumOver(Holding(v), Reservations) \in Nat
      /\ \A r \in Reservations : Holding(v)[r] <= SumOver(Holding(v), Reservations)
  BY <1>2, SumIsNat, ReservationsAssumption
<1>5. QED
  BY <1>2, <1>3, <1>4 DEF Holding

(* One reservation changes: so do the active holds.                        *)
LEMMA HoldsChange ==
  ASSUME ReservationTypeOK, ReservationTypeOK', NEW v \in Reservable, NEW r \in Reservations,
         \A o \in Reservations \ {r} :
           state'[o] = state[o] /\ quantity'[o] = quantity[o]
  PROVE  ActiveHolds(v)' =
           ActiveHolds(v)
             + (IF state'[r] = "active" THEN quantity'[r][v] ELSE 0)
             - (IF state[r] = "active" THEN quantity[r][v] ELSE 0)
<1> DEFINE f == Holding(v)
           g == [o \in Reservations |->
                   IF state'[o] = "active" THEN quantity'[o][v] ELSE 0]
<1>1. /\ ActiveHolds(v) = SumOver(f, Reservations)
      /\ ActiveHolds(v)' = SumOver(g, Reservations)
  BY SumIsSumOver DEF ActiveHolds, Holding
<1>2. \A o \in Reservations : quantity[o][v] \in Nat /\ quantity'[o][v] \in Nat
  BY ItemsAreNat DEF ReservationTypeOK
<1>3. \A o \in Reservations : f[o] \in Int /\ g[o] \in Int
  BY <1>2 DEF Holding
<1>4. \A o \in Reservations \ {r} : g[o] = f[o]
  BY DEF Holding
<1>5. SumOver(g, Reservations) = SumOver(f, Reservations) + g[r] - f[r]
  <2> HIDE DEF f, g
  <2>1. QED
    BY <1>3, <1>4, SumChange, ReservationsAssumption
<1>6. QED
  BY <1>1, <1>5 DEF Holding

LEMMA HoldsStay ==
  ASSUME ReservationTypeOK, ReservationTypeOK', NEW v \in Reservable,
         UNCHANGED <<state, quantity>>
  PROVE  ActiveHolds(v)' = ActiveHolds(v)
  BY DEF ActiveHolds

-----------------------------------------------------------------------------
(* Types. *)
LEMMA IdleIsRequest == Idle \in RequestStates
  BY DEF Idle, RequestStates

LEMMA RequestHeld ==
  ASSUME ReservationInv, NEW q \in Requests, request[q].op # "none"
  PROVE  /\ request[q].of \in Reservations
         /\ state[request[q].of] # "none"
         /\ request[q].remaining \in Int /\ request[q].paid \in Nat
         /\ request[q].pay \in Nat /\ request[q].back \in Nat
         /\ request[q].sum.paid \in Nat /\ request[q].sum.refunded \in Nat
         /\ request[q].remaining + payments[request[q].of] >= total[request[q].of]
<1>1. request[q] \in RequestStates /\ request[q] # Idle
  BY DEF ReservationInv, ReservationTypeOK, Idle
<1>2. request[q].sum \in [paid : Nat, refunded : Nat]
  BY <1>1 DEF RequestStates
<1>3. QED
  BY <1>1, <1>2 DEF ReservationInv, About, RequestStates

LEMMA CreateTypes ==
  ASSUME ReservationInv, NEW r \in Reservations, CreateReservation(r)
  PROVE  /\ ReservationTypeOK'
         /\ \E items \in ItemLists :
              /\ quantity' = [quantity EXCEPT ![r] = items]
              /\ reserved' = [v \in Reservable |-> reserved[v] + items[v]]
              /\ total'[r] = Sum(items, Reservable) => payments'[r] <= total'[r]
         /\ paid'[r] = payments'[r]
         /\ \A o \in Reservations \ {r} :
              total'[o] = total[o] /\ paid'[o] = paid[o] /\ payments'[o] = payments[o]
<1>1. PICK items \in ItemLists \ {NoItems}, d \in 0 .. MaxDiscount,
           h \in 0 .. MaxDiscount :
        LET lines  == Sum(items, Reservable) - d
            agreed == AtLeastZero(lines - h)
        IN \E deposit \in 1 .. agreed :
             /\ lines >= 0
             /\ quantity' = [quantity EXCEPT ![r] = items]
             /\ total' = [total EXCEPT ![r] = AtLeastZero(lines - d)]
             /\ payments' = [payments EXCEPT ![r] = deposit]
             /\ paid' = [paid EXCEPT ![r] = deposit]
             /\ reserved' = [v \in Reservable |-> reserved[v] + items[v]]
  BY DEF CreateReservation
<1> DEFINE s == Sum(items, Reservable)
           agreed == AtLeastZero(s - d - h)
<1>2. s \in Nat /\ d \in Nat /\ h \in Nat
  BY ItemSum, ReservationsAssumption
<1>3. PICK deposit \in 1 .. agreed :
        /\ s - d >= 0
        /\ total' = [total EXCEPT ![r] = AtLeastZero(s - d - d)]
        /\ payments' = [payments EXCEPT ![r] = deposit]
        /\ paid' = [paid EXCEPT ![r] = deposit]
  BY <1>1
<1>4. agreed \in Nat /\ AtLeastZero(s - d - d) \in Nat /\ deposit \in Nat
  BY <1>2, AtLeastZeroIsNat
<1>5. /\ total'[r] = AtLeastZero(s - d - d)
      /\ paid'[r] = deposit /\ payments'[r] = deposit
  BY <1>3 DEF ReservationInv, ReservationTypeOK
<1>6. total'[r] = s => payments'[r] <= total'[r]
  <2>1. CASE s - d - h < 0
    BY <1>3, <2>1 DEF AtLeastZero
  <2>2. CASE s - d - h >= 0 /\ s - d - d >= 0
    BY <1>2, <1>3, <1>4, <1>5, <2>2 DEF AtLeastZero
  <2>3. CASE s - d - h >= 0 /\ s - d - d < 0
    BY <1>2, <1>3, <1>4, <1>5, <2>3 DEF AtLeastZero
  <2>4. QED
    BY <1>2, <2>1, <2>2, <2>3
<1>7. \A v \in Reservable : reserved[v] + items[v] \in Nat
  BY ItemsAreNat DEF ReservationInv, ReservationTypeOK
<1>8. ReservationTypeOK'
  <2>1. state' \in [Reservations -> {"none", "active", "completed", "cancelled"}]
    BY DEF CreateReservation, ReservationInv, ReservationTypeOK
  <2>2. quantity' \in [Reservations -> ItemLists] /\ reserved' \in [Reservable -> Nat]
    BY <1>1, <1>7 DEF ReservationInv, ReservationTypeOK
  <2>3. /\ total' \in [Reservations -> Nat] /\ paid' \in [Reservations -> Nat]
        /\ payments' \in [Reservations -> Nat]
    BY <1>3, <1>4 DEF ReservationInv, ReservationTypeOK
  <2>4. QED
    BY <2>1, <2>2, <2>3 DEF CreateReservation, ReservationInv, ReservationTypeOK
<1>9. \A o \in Reservations \ {r} :
        total'[o] = total[o] /\ paid'[o] = paid[o] /\ payments'[o] = payments[o]
  BY <1>3 DEF ReservationInv, ReservationTypeOK
<1>10. QED
  BY <1>1, <1>5, <1>6, <1>8, <1>9

LEMMA CreateKeeps ==
  ASSUME ReservationInv, NEW r \in Reservations, CreateReservation(r)
  PROVE  ReservationInv'
<1>1. PICK items \in ItemLists :
        /\ quantity' = [quantity EXCEPT ![r] = items]
        /\ reserved' = [v \in Reservable |-> reserved[v] + items[v]]
  BY CreateTypes
<1>2. /\ state[r] = "none" /\ state' = [state EXCEPT ![r] = "active"]
      /\ UNCHANGED <<invoices, request, refunds, refunded>>
  BY DEF CreateReservation
<1>3. /\ ReservationTypeOK' /\ paid'[r] = payments'[r] /\ payments'[r] \in Nat
      /\ \A o \in Reservations \ {r} :
           total'[o] = total[o] /\ paid'[o] = paid[o] /\ payments'[o] = payments[o]
  BY CreateTypes DEF ReservationTypeOK
<1>4. \A o \in Reservations : state'[o] = IF o = r THEN "active" ELSE state[o]
  BY <1>2 DEF ReservationInv, ReservationTypeOK
<1>5. \A o \in Reservations : Fresh(o)'
  BY <1>2, <1>4 DEF ReservationInv, Fresh
<1>6. \A q \in Requests : About(q)'
  BY <1>2, <1>3, <1>4 DEF ReservationInv, About, Idle
<1>7. CollectedBeforeHandedOver'
  BY <1>2, <1>3 DEF ReservationInv, Fresh, CollectedBeforeHandedOver
<1>8. HoldsFollowReservations'
  <2> SUFFICES ASSUME NEW v \in Reservable
               PROVE  /\ reserved'[v] <= ActiveHolds(v)'
                      /\ (\A o \in Reservations : invoices'[o] > 0 => quantity'[o][v] = 0)
                           => reserved'[v] = ActiveHolds(v)'
    BY DEF HoldsFollowReservations
  <2>1. /\ \A o \in Reservations : quantity'[o] = IF o = r THEN items ELSE quantity[o]
        /\ reserved'[v] = reserved[v] + items[v]
    BY <1>1 DEF ReservationInv, ReservationTypeOK
  <2>2. ActiveHolds(v)' = ActiveHolds(v) + items[v]
    <3>1. items[v] \in Nat /\ ActiveHolds(v) \in Nat
      BY ItemsAreNat, HoldsAreNat DEF ReservationInv
    <3>2. ActiveHolds(v)' =
            ActiveHolds(v)
              + (IF state'[r] = "active" THEN quantity'[r][v] ELSE 0)
              - (IF state[r] = "active" THEN quantity[r][v] ELSE 0)
      BY <1>3, <1>4, <2>1, HoldsChange DEF ReservationInv
    <3>3. QED
      BY <1>2, <1>4, <2>1, <3>1, <3>2
  <2>3. reserved[v] \in Nat /\ items[v] \in Nat /\ ActiveHolds(v) \in Nat
    BY ItemsAreNat, HoldsAreNat DEF ReservationInv, ReservationTypeOK
  <2>4. (\A o \in Reservations : invoices'[o] > 0 => quantity'[o][v] = 0)
          => reserved[v] = ActiveHolds(v)
    BY <1>2, <2>1 DEF ReservationInv, Fresh, HoldsFollowReservations
  <2>5. reserved[v] <= ActiveHolds(v)
    BY DEF ReservationInv, HoldsFollowReservations
  <2>6. QED
    BY <2>1, <2>2, <2>3, <2>4, <2>5
<1>9. QED
  BY <1>3, <1>5, <1>6, <1>7, <1>8 DEF ReservationInv

(* Reading, refusing and paying leave the holds alone.                     *)
LEMMA HoldsUntouched ==
  ASSUME ReservationInv, ReservationTypeOK', UNCHANGED <<state, quantity, invoices, reserved>>
  PROVE  HoldsFollowReservations'
  BY HoldsStay DEF ReservationInv, HoldsFollowReservations

LEMMA ReadKeeps ==
  ASSUME ReservationInv, NEW q \in Requests, NEW r \in Reservations, NEW op \in Operations,
         MustBeActive(q, r, op)
  PROVE  ReservationInv'
<1> DEFINE x == [Idle EXCEPT !.op = op, !.of = r, !.remaining = Remaining(r),
                             !.paid = paid[r]]
<1>1. /\ state[r] = "active" /\ request' = [request EXCEPT ![q] = x]
      /\ UNCHANGED <<state, quantity, money, invoices, reserved>>
      /\ raced' \subseteq raced \cup {r}
  BY DEF MustBeActive
<1>2. /\ total[r] \in Nat /\ paid[r] \in Nat /\ refunded[r] \in Nat /\ payments[r] \in Nat
      /\ paid[r] <= payments[r]
  BY DEF ReservationInv, ReservationTypeOK, CollectedBeforeHandedOver
<1>3. Remaining(r) \in Int /\ Remaining(r) + payments[r] >= total[r]
  BY <1>2 DEF Remaining
<1>4. x \in RequestStates /\ x.of = r /\ x.remaining = Remaining(r) /\ x.inserted = FALSE
  BY <1>2, <1>3 DEF Idle, RequestStates
<1> HIDE DEF x
<1>5. ReservationTypeOK'
  BY <1>1, <1>4 DEF ReservationInv, ReservationTypeOK, money
<1>6. \A p \in Requests : About(p)'
  <2>1. \A p \in Requests : request'[p] = IF p = q THEN x ELSE request[p]
    BY <1>1 DEF ReservationInv, ReservationTypeOK
  <2>2. QED
    BY <1>1, <1>3, <1>4, <2>1 DEF ReservationInv, About, money
<1>7. HoldsFollowReservations'
  BY <1>1, <1>5, HoldsUntouched
<1>8. CollectedBeforeHandedOver' /\ \A o \in Reservations : Fresh(o)'
  BY <1>1 DEF ReservationInv, CollectedBeforeHandedOver, Fresh, money
<1>9. QED
  BY <1>5, <1>6, <1>7, <1>8 DEF ReservationInv

LEMMA EndRequestAt ==
  ASSUME ReservationTypeOK, NEW q \in Requests, EndRequest(q)
  PROVE  /\ \A p \in Requests : request'[p] = IF p = q THEN Idle ELSE request[p]
         /\ request' \in [Requests -> RequestStates]
  BY IdleIsRequest DEF ReservationTypeOK, EndRequest

(* A request has ended: what is known of the others still holds.           *)
LEMMA OthersStay ==
  ASSUME ReservationInv, NEW q \in Requests, EndRequest(q), total' = total,
         \A o \in Reservations :
           /\ payments'[o] \in Nat /\ payments'[o] >= payments[o]
           /\ state'[o] = "none" => state[o] = "none"
  PROVE  \A p \in Requests : About(p)'
<1> SUFFICES ASSUME NEW p \in Requests, request[p] # Idle, p # q
             PROVE  About(p)'
  BY EndRequestAt DEF ReservationInv, About
<1> DEFINE o == request[p].of
<1>1. request'[p] = request[p]
  BY EndRequestAt DEF ReservationInv
<1>2. /\ o \in Reservations /\ state[o] # "none"
      /\ request[p].remaining + payments[o] >= total[o]
      /\ request[p].inserted = TRUE =>
           /\ request[p].sum.paid <= payments[o] + request[p].pay
           /\ request[p].op = "convert" => request[p].pay >= request[p].remaining
  BY DEF ReservationInv, About
<1>3. /\ request[p].remaining \in Int /\ request[p].pay \in Nat
      /\ request[p].sum.paid \in Nat
      /\ payments[o] \in Nat /\ payments'[o] \in Nat
      /\ total[o] \in Nat /\ payments'[o] >= payments[o]
  <2>1. request[p] \in RequestStates
    BY DEF ReservationInv, ReservationTypeOK
  <2>2. request[p].sum \in [paid : Nat, refunded : Nat]
    BY <2>1 DEF RequestStates
  <2>3. QED
    BY <1>2, <2>1, <2>2 DEF ReservationInv, ReservationTypeOK, RequestStates
<1>4. /\ request[p].remaining + payments'[o] >= total[o]
      /\ request[p].inserted = TRUE => request[p].sum.paid <= payments'[o] + request[p].pay
  BY <1>2, <1>3
<1>5. QED
  BY <1>1, <1>2, <1>4 DEF About

LEMMA RefuseKeeps ==
  ASSUME ReservationInv, NEW q \in Requests, Refuse(q)
  PROVE  ReservationInv'
<1>1. /\ request' \in [Requests -> RequestStates] /\ EndRequest(q)
      /\ UNCHANGED <<state, quantity, money, invoices, reserved, raced>>
  BY EndRequestAt DEF Refuse, ReservationInv
<1>2. ReservationTypeOK'
  BY <1>1 DEF ReservationInv, ReservationTypeOK, money
<1>3. HoldsFollowReservations'
  BY <1>1, <1>2, HoldsUntouched
<1>4. CollectedBeforeHandedOver' /\ \A o \in Reservations : Fresh(o)'
  BY <1>1 DEF ReservationInv, CollectedBeforeHandedOver, Fresh, money
<1>5. \A o \in Reservations : payments'[o] \in Nat /\ payments'[o] >= payments[o]
  BY <1>1 DEF ReservationInv, ReservationTypeOK, money
<1>6. \A p \in Requests : About(p)'
  BY <1>1, <1>5, OthersStay DEF money
<1>7. QED
  BY <1>2, <1>3, <1>4, <1>6 DEF ReservationInv

(* The three inserts: what the request holds then.                         *)
Inserts(q) == AddPayment(q) \/ Convert(q) \/ CancelReservation(q)

LEMMA InsertIs ==
  ASSUME ReservationInv, NEW q \in Requests, Inserts(q)
  PROVE  \E pay, back \in Nat :
           /\ request[q].op # "none" /\ request[q].inserted = FALSE /\ Insert(q, pay, back)
           /\ request[q].op = "payment" => pay <= request[q].remaining
           /\ request[q].op = "convert" => pay >= request[q].remaining
           /\ request[q].op \in {"payment", "convert"} => back = 0
<1>1. CASE AddPayment(q)
  <2>1. PICK amount \in 1 .. request[q].remaining : Insert(q, amount, 0)
    BY <1>1 DEF AddPayment
  <2>2. request[q].op = "payment" /\ request[q].inserted = FALSE
    BY <1>1 DEF AddPayment, Doing
  <2>3. amount \in Nat /\ amount <= request[q].remaining
    BY <2>2, RequestHeld
  <2>4. QED
    BY <2>1, <2>2, <2>3
<1>2. CASE Convert(q)
  <2>1. PICK p \in FinalPayments(request[q].remaining) : Insert(q, p, 0)
    BY <1>2 DEF Convert
  <2>2. request[q].op = "convert" /\ request[q].inserted = FALSE
    BY <1>2 DEF Convert, Doing
  <2>3. request[q].remaining \in Int
    BY <2>2, RequestHeld
  <2>4. p \in Nat /\ p >= request[q].remaining
    BY <2>3, AtLeastZeroIsNat, ReservationsAssumption DEF FinalPayments
  <2>5. QED
    BY <2>1, <2>2, <2>4
<1>3. CASE CancelReservation(q)
  <2>1. PICK policy \in {"full", "partial", "none"} :
          Insert(q, 0, NetRefund(policy, request[q].paid))
    BY <1>3 DEF CancelReservation
  <2>2. request[q].op = "cancel" /\ request[q].inserted = FALSE
    BY <1>3 DEF CancelReservation, Doing
  <2>3. NetRefund(policy, request[q].paid) \in Nat
    BY <2>2, RequestHeld, NetRefundIsNat
  <2>4. QED
    BY <2>1, <2>2, <2>3
<1>4. QED
  BY <1>1, <1>2, <1>3 DEF Inserts

Inserted(q, pay, back) ==
  /\ request' \in [Requests -> RequestStates]
  /\ \A p \in Requests \ {q} : request'[p] = request[p]
  /\ request'[q].op = request[q].op /\ request'[q].of = request[q].of
  /\ request'[q].remaining = request[q].remaining
  /\ request'[q].inserted = TRUE
  /\ request'[q].pay = pay /\ request'[q].back = back
  /\ request'[q].sum.paid = payments[request[q].of] + pay
  /\ request'[q].sum.refunded = refunds[request[q].of] + back

LEMMA InsertAt ==
  ASSUME ReservationInv, NEW q \in Requests, request[q].op # "none",
         NEW pay \in Nat, NEW back \in Nat, Insert(q, pay, back)
  PROVE  Inserted(q, pay, back)
<1> DEFINE r == request[q].of
           s == [paid |-> payments[r] + pay, refunded |-> refunds[r] + back]
           x == [request[q] EXCEPT !.inserted = TRUE, !.pay = pay, !.back = back, !.sum = s]
<1>1. request' = [request EXCEPT ![q] = x]
  BY DEF Insert
<1>2. r \in Reservations /\ request[q] \in RequestStates
  BY RequestHeld DEF ReservationInv, ReservationTypeOK
<1>3. payments[r] \in Nat /\ refunds[r] \in Nat
  BY <1>2 DEF ReservationInv, ReservationTypeOK
<1>4. /\ s \in [paid : Nat, refunded : Nat]
      /\ s.paid = payments[r] + pay /\ s.refunded = refunds[r] + back
  BY <1>3
<1> HIDE DEF s
<1>5. x \in RequestStates /\ x.op = request[q].op /\ x.of = request[q].of
      /\ x.remaining = request[q].remaining /\ x.inserted = TRUE
      /\ x.pay = pay /\ x.back = back /\ x.sum = s
  BY <1>2, <1>4 DEF RequestStates
<1> HIDE DEF x
<1>6. /\ request' \in [Requests -> RequestStates] /\ request'[q] = x
      /\ \A p \in Requests \ {q} : request'[p] = request[p]
  BY <1>1, <1>5 DEF ReservationInv, ReservationTypeOK
<1>7. QED
  BY <1>4, <1>5, <1>6 DEF Inserted

LEMMA InsertKeeps ==
  ASSUME ReservationInv, NEW q \in Requests, Inserts(q)
  PROVE  ReservationInv'
<1>1. PICK pay \in Nat, back \in Nat :
        /\ request[q].op # "none" /\ Insert(q, pay, back)
        /\ request[q].op = "convert" => pay >= request[q].remaining
  BY InsertIs
<1>2. UNCHANGED <<state, quantity, money, invoices, reserved, raced>>
  BY <1>1 DEF Insert
<1>3. /\ request' \in [Requests -> RequestStates]
      /\ \A p \in Requests \ {q} : request'[p] = request[p]
      /\ request'[q].op = request[q].op /\ request'[q].of = request[q].of
      /\ request'[q].remaining = request[q].remaining
      /\ request'[q].pay = pay
      /\ request'[q].sum.paid = payments[request[q].of] + pay
  <2>1. Inserted(q, pay, back)
    BY <1>1, InsertAt
  <2>2. QED
    BY <2>1 DEF Inserted
<1>4. ReservationTypeOK'
  BY <1>2, <1>3 DEF ReservationInv, ReservationTypeOK, money
<1>5. HoldsFollowReservations'
  BY <1>2, <1>4, HoldsUntouched
<1>6. CollectedBeforeHandedOver' /\ \A o \in Reservations : Fresh(o)'
  BY <1>2 DEF ReservationInv, CollectedBeforeHandedOver, Fresh, money
<1>7. About(q)'
  <2>1. /\ request[q].of \in Reservations /\ state[request[q].of] # "none"
        /\ request[q].remaining + payments[request[q].of] >= total[request[q].of]
    BY <1>1, RequestHeld
  <2>2. payments[request[q].of] + pay \in Nat
    BY <2>1 DEF ReservationInv, ReservationTypeOK
  <2>3. QED
    BY <1>1, <1>2, <1>3, <2>1, <2>2 DEF About, money
<1>8. \A p \in Requests \ {q} : About(p)'
  BY <1>2, <1>3 DEF ReservationInv, About, money
<1>9. QED
  BY <1>4, <1>5, <1>6, <1>7, <1>8 DEF ReservationInv

(* The trigger's update with its sums, and the commit of what was inserted. *)
LEMMA RecomputeIs ==
  ASSUME ReservationInv, NEW q \in Requests, request[q].op # "none",
         request[q].inserted = TRUE, Recompute(q, request[q].of)
  PROVE  /\ payments' \in [Reservations -> Nat] /\ refunds' \in [Reservations -> Nat]
         /\ paid' \in [Reservations -> Nat] /\ refunded' \in [Reservations -> Nat]
         /\ \A o \in Reservations \ {request[q].of} :
              /\ payments'[o] = payments[o] /\ refunds'[o] = refunds[o]
              /\ paid'[o] = paid[o] /\ refunded'[o] = refunded[o]
         /\ payments'[request[q].of] = payments[request[q].of] + request[q].pay
         /\ refunds'[request[q].of] = refunds[request[q].of] + request[q].back
         /\ paid'[request[q].of] = IF request[q].pay + request[q].back > 0
                                   THEN request[q].sum.paid ELSE paid[request[q].of]
         /\ refunded'[request[q].of] = IF request[q].pay + request[q].back > 0
                                   THEN request[q].sum.refunded ELSE refunded[request[q].of]
         /\ \A o \in Reservations : payments'[o] >= payments[o] /\ paid'[o] <= payments'[o]
<1> DEFINE r == request[q].of
           y == request[q]
<1>1. /\ r \in Reservations /\ y.pay \in Nat /\ y.back \in Nat
      /\ y.sum.paid \in Nat /\ y.sum.refunded \in Nat
  BY RequestHeld
<1>2. y.sum.paid <= payments[r] + y.pay
  BY DEF ReservationInv, About, Idle
<1>3. /\ payments \in [Reservations -> Nat] /\ refunds \in [Reservations -> Nat]
      /\ paid \in [Reservations -> Nat] /\ refunded \in [Reservations -> Nat]
      /\ \A o \in Reservations : paid[o] <= payments[o]
  BY DEF ReservationInv, ReservationTypeOK, CollectedBeforeHandedOver
<1>4. /\ payments' = [payments EXCEPT ![r] = payments[r] + y.pay]
      /\ refunds' = [refunds EXCEPT ![r] = refunds[r] + y.back]
  BY DEF Recompute
<1>5. /\ payments' \in [Reservations -> Nat] /\ refunds' \in [Reservations -> Nat]
      /\ payments'[r] = payments[r] + y.pay /\ refunds'[r] = refunds[r] + y.back
      /\ \A o \in Reservations \ {r} : payments'[o] = payments[o] /\ refunds'[o] = refunds[o]
  BY <1>1, <1>3, <1>4
<1>6. CASE y.pay + y.back > 0
  <2>1. /\ paid' = [paid EXCEPT ![r] = y.sum.paid]
        /\ refunded' = [refunded EXCEPT ![r] = y.sum.refunded]
    BY <1>6 DEF Recompute
  <2>2. /\ paid' \in [Reservations -> Nat] /\ refunded' \in [Reservations -> Nat]
        /\ paid'[r] = y.sum.paid /\ refunded'[r] = y.sum.refunded
        /\ \A o \in Reservations \ {r} : paid'[o] = paid[o] /\ refunded'[o] = refunded[o]
    BY <1>1, <1>3, <2>1
  <2>3. QED
    BY <1>1, <1>2, <1>3, <1>5, <1>6, <2>2
<1>7. CASE ~(y.pay + y.back > 0)
  <2>1. paid' = paid /\ refunded' = refunded
    BY <1>7 DEF Recompute
  <2>2. QED
    BY <1>1, <1>3, <1>5, <1>7, <2>1
<1>8. QED
  BY <1>6, <1>7

LEMMA CommitPaymentKeeps ==
  ASSUME ReservationInv, NEW q \in Requests, CommitPayment(q)
  PROVE  ReservationInv'
<1>1. /\ request[q].op = "payment" /\ request[q].inserted = TRUE
      /\ Recompute(q, request[q].of) /\ EndRequest(q)
      /\ UNCHANGED <<state, quantity, total, invoices, reserved, raced>>
  BY DEF CommitPayment, Doing
<1>2. request[q].of \in Reservations /\ state[request[q].of] # "none"
  BY <1>1, RequestHeld
<1>3. /\ payments' \in [Reservations -> Nat] /\ refunds' \in [Reservations -> Nat]
      /\ paid' \in [Reservations -> Nat] /\ refunded' \in [Reservations -> Nat]
      /\ \A o \in Reservations \ {request[q].of} :
           refunds'[o] = refunds[o] /\ refunded'[o] = refunded[o]
      /\ \A o \in Reservations : payments'[o] >= payments[o] /\ paid'[o] <= payments'[o]
  BY <1>1, RecomputeIs
<1>4. ReservationTypeOK'
  BY <1>1, <1>3, EndRequestAt DEF ReservationInv, ReservationTypeOK
<1>5. HoldsFollowReservations'
  BY <1>1, <1>4, HoldsUntouched
<1>6. CollectedBeforeHandedOver'
  <2>1. \A o \in Reservations : payments[o] \in Nat /\ payments'[o] \in Nat /\ total[o] \in Nat
    BY <1>3 DEF ReservationInv, ReservationTypeOK
  <2>2. QED
    BY <1>1, <1>3, <2>1 DEF ReservationInv, CollectedBeforeHandedOver
<1>7. \A o \in Reservations : Fresh(o)'
  BY <1>1, <1>2, <1>3 DEF ReservationInv, Fresh
<1>8. \A p \in Requests : About(p)'
  BY <1>1, <1>3, OthersStay
<1>9. QED
  BY <1>4, <1>5, <1>6, <1>7, <1>8 DEF ReservationInv

-----------------------------------------------------------------------------
(* Releases. *)
LEMMA ReleaseIsNat ==
  ASSUME ReservationTypeOK, NEW r \in Reservations, NEW held \in [Reservable -> Nat]
  PROVE  /\ Release(held, r) \in [Reservable -> Nat]
         /\ \A v \in Reservable :
              Release(held, r)[v] = IF held[v] - quantity[r][v] < 0 THEN 0
                                    ELSE held[v] - quantity[r][v]
<1>1. \A v \in Reservable : quantity[r][v] \in Nat
  BY ItemsAreNat DEF ReservationTypeOK
<1>2. QED
  BY <1>1 DEF Release, Held, AtLeastZero

(* A close releases at least what the reservation held, and only that when *)
(* it is released once.                                                    *)
LEMMA CloseHolds ==
  ASSUME ReservationInv, ReservationTypeOK', NEW r \in Reservations,
         NEW new \in {"completed", "cancelled"},
         state' = [state EXCEPT ![r] = new], quantity' = quantity,
         \A o \in Reservations : invoices'[o] >= invoices[o],
         \/ reserved' = ReleaseOnClose(reserved, r, new)
         \/ /\ reserved' = ReleaseOnClose(Release(reserved, r), r, new)
            /\ invoices'[r] > 0
  PROVE  HoldsFollowReservations'
<1> SUFFICES ASSUME NEW v \in Reservable
             PROVE  /\ reserved'[v] <= ActiveHolds(v)'
                    /\ (\A o \in Reservations : invoices'[o] > 0 => quantity'[o][v] = 0)
                         => reserved'[v] = ActiveHolds(v)'
  BY DEF HoldsFollowReservations
<1> DEFINE a == ActiveHolds(v)
           n == quantity[r][v]
           h == reserved[v]
           mine == IF state[r] = "active" THEN n ELSE 0
<1>1. /\ a \in Nat /\ n \in Nat /\ h \in Nat /\ mine <= a
      /\ h <= a
      /\ (\A o \in Reservations : invoices[o] > 0 => quantity[o][v] = 0) => h = a
  BY HoldsAreNat, ItemsAreNat DEF ReservationInv, ReservationTypeOK,
     HoldsFollowReservations
<1>2. \A o \in Reservations : state'[o] = IF o = r THEN new ELSE state[o]
  BY DEF ReservationInv, ReservationTypeOK
<1>3. ActiveHolds(v)' = a - mine
  <2>1. ActiveHolds(v)' =
          ActiveHolds(v)
            + (IF state'[r] = "active" THEN quantity'[r][v] ELSE 0)
            - (IF state[r] = "active" THEN quantity[r][v] ELSE 0)
    BY <1>2, HoldsChange DEF ReservationInv
  <2>2. QED
    BY <1>1, <1>2, <2>1
<1>4. (\A o \in Reservations : invoices'[o] > 0 => quantity'[o][v] = 0) => h = a
  <2>1. \A o \in Reservations : invoices[o] \in Nat /\ invoices'[o] \in Nat
    BY DEF ReservationInv, ReservationTypeOK
  <2>2. QED
    BY <1>1, <2>1
<1>5. reserved \in [Reservable -> Nat]
  BY DEF ReservationInv, ReservationTypeOK
<1> DEFINE once == IF h - n < 0 THEN 0 ELSE h - n
           twice == IF once - n < 0 THEN 0 ELSE once - n
<1>6. /\ Release(reserved, r) \in [Reservable -> Nat]
      /\ Release(reserved, r)[v] = once
  BY <1>5, ReleaseIsNat DEF ReservationInv
<1>7. Release(Release(reserved, r), r)[v] = twice
  BY <1>6, ReleaseIsNat DEF ReservationInv
<1>8. CASE reserved' = ReleaseOnClose(reserved, r, new)
  <2>1. reserved'[v] = IF state[r] = "active" THEN once ELSE h
    BY <1>6, <1>8 DEF ReleaseOnClose
  <2>2. QED
    BY <1>1, <1>3, <1>4, <2>1
<1>9. CASE /\ reserved' = ReleaseOnClose(Release(reserved, r), r, new)
           /\ invoices'[r] > 0
  <2>1. reserved'[v] = IF state[r] = "active" THEN twice ELSE once
    BY <1>6, <1>7, <1>9 DEF ReleaseOnClose
  <2>2. (\A o \in Reservations : invoices'[o] > 0 => quantity'[o][v] = 0) => n = 0
    BY <1>9
  <2> HIDE DEF a, n, h
  <2>3. QED
    BY <1>1, <1>3, <1>4, <2>1, <2>2
<1>10. QED
  BY <1>8, <1>9

LEMMA CloseTypes ==
  ASSUME ReservationInv, NEW r \in Reservations, NEW new
  PROVE  /\ ReleaseOnClose(reserved, r, new) \in [Reservable -> Nat]
         /\ ReleaseOnClose(Release(reserved, r), r, new) \in [Reservable -> Nat]
<1>1. reserved \in [Reservable -> Nat]
  BY DEF ReservationInv, ReservationTypeOK
<1>2. Release(reserved, r) \in [Reservable -> Nat]
  BY <1>1, ReleaseIsNat DEF ReservationInv
<1>3. Release(Release(reserved, r), r) \in [Reservable -> Nat]
  BY <1>2, ReleaseIsNat DEF ReservationInv
<1>4. QED
  BY <1>1, <1>2, <1>3 DEF ReleaseOnClose

LEMMA CommitConversionKeeps ==
  ASSUME ReservationInv, NEW q \in Requests, CommitConversion(q)
  PROVE  ReservationInv'
<1> DEFINE r == request[q].of
<1>1. /\ request[q].op = "convert" /\ request[q].inserted = TRUE
      /\ Recompute(q, r) /\ EndRequest(q)
      /\ invoices' = [invoices EXCEPT ![r] = invoices[r] + 1]
      /\ reserved' = ReleaseOnClose(Release(reserved, r), r, "completed")
      /\ state' = [state EXCEPT ![r] = "completed"]
      /\ UNCHANGED <<quantity, total, raced>>
  BY DEF CommitConversion, Doing
<1>2. /\ r \in Reservations /\ state[r] # "none"
      /\ request[q].remaining \in Int /\ request[q].pay \in Nat
      /\ request[q].remaining + payments[r] >= total[r]
      /\ request[q].pay >= request[q].remaining
  <2>1. request[q] # Idle
    BY <1>1 DEF Idle
  <2>2. About(q)
    BY DEF ReservationInv
  <2>3. request[q].pay >= request[q].remaining
    BY <1>1, <2>1, <2>2 DEF About
  <2>4. QED
    BY <1>1, <2>3, RequestHeld
<1>3. /\ payments' \in [Reservations -> Nat] /\ refunds' \in [Reservations -> Nat]
      /\ paid' \in [Reservations -> Nat] /\ refunded' \in [Reservations -> Nat]
      /\ payments'[r] = payments[r] + request[q].pay
      /\ \A o \in Reservations \ {r} :
           refunds'[o] = refunds[o] /\ refunded'[o] = refunded[o]
      /\ \A o \in Reservations : payments'[o] >= payments[o] /\ paid'[o] <= payments'[o]
  BY <1>1, RecomputeIs
<1>4. /\ \A o \in Reservations : state'[o] = IF o = r THEN "completed" ELSE state[o]
      /\ \A o \in Reservations : invoices'[o] = IF o = r THEN invoices[r] + 1
                                                ELSE invoices[o]
      /\ \A o \in Reservations : invoices[o] \in Nat
  BY <1>1 DEF ReservationInv, ReservationTypeOK
<1>5. ReservationTypeOK'
  <2>1. reserved' \in [Reservable -> Nat]
    BY <1>1, <1>2, CloseTypes
  <2>2. invoices' \in [Reservations -> Nat]
        /\ state' \in [Reservations -> {"none", "active", "completed", "cancelled"}]
    BY <1>1, <1>2 DEF ReservationInv, ReservationTypeOK
  <2>3. request' \in [Requests -> RequestStates]
    BY <1>1, EndRequestAt DEF ReservationInv
  <2>4. QED
    BY <1>1, <1>3, <2>1, <2>2, <2>3 DEF ReservationInv, ReservationTypeOK
<1>6. HoldsFollowReservations'
  <2>1. \A o \in Reservations : invoices'[o] >= invoices[o]
    BY <1>4
  <2>2. invoices'[r] > 0
    BY <1>2, <1>4
  <2>3. QED
    BY <1>1, <1>2, <1>5, <2>1, <2>2, CloseHolds
<1>7. CollectedBeforeHandedOver'
  <2> SUFFICES ASSUME NEW o \in Reservations, invoices'[o] > 0
               PROVE  payments'[o] >= total'[o]
    BY <1>3 DEF CollectedBeforeHandedOver
  <2>1. payments[o] \in Nat /\ payments'[o] \in Nat /\ total[o] \in Nat
    BY <1>3 DEF ReservationInv, ReservationTypeOK
  <2>2. CASE o = r
    BY <1>1, <1>2, <1>3, <2>1, <2>2
  <2>3. CASE o # r
    <3>1. payments[o] >= total[o]
      BY <1>4, <2>3 DEF ReservationInv, CollectedBeforeHandedOver
    <3>2. QED
      BY <1>1, <1>3, <2>1, <3>1
  <2>4. QED
    BY <2>2, <2>3
<1>8. \A o \in Reservations : Fresh(o)'
  BY <1>3, <1>4 DEF ReservationInv, Fresh
<1>9. \A p \in Requests : About(p)'
  BY <1>1, <1>3, <1>4, OthersStay
<1>10. QED
  BY <1>5, <1>6, <1>7, <1>8, <1>9 DEF ReservationInv

LEMMA CommitCancellationKeeps ==
  ASSUME ReservationInv, NEW q \in Requests, CommitCancellation(q)
  PROVE  ReservationInv'
<1> DEFINE r == request[q].of
<1>1. /\ request[q].op = "cancel" /\ request[q].inserted = TRUE
      /\ Recompute(q, r) /\ EndRequest(q)
      /\ reserved' = ReleaseOnClose(reserved, r, "cancelled")
      /\ state' = [state EXCEPT ![r] = "cancelled"]
      /\ UNCHANGED <<quantity, total, invoices, raced>>
  BY DEF CommitCancellation, Doing
<1>2. r \in Reservations
  BY <1>1, RequestHeld
<1>3. /\ payments' \in [Reservations -> Nat] /\ refunds' \in [Reservations -> Nat]
      /\ paid' \in [Reservations -> Nat] /\ refunded' \in [Reservations -> Nat]
      /\ \A o \in Reservations \ {r} :
           refunds'[o] = refunds[o] /\ refunded'[o] = refunded[o]
      /\ \A o \in Reservations : payments'[o] >= payments[o] /\ paid'[o] <= payments'[o]
  BY <1>1, RecomputeIs
<1>4. /\ \A o \in Reservations : state'[o] = IF o = r THEN "cancelled" ELSE state[o]
      /\ \A o \in Reservations : invoices[o] \in Nat
  BY <1>1 DEF ReservationInv, ReservationTypeOK
<1>5. ReservationTypeOK'
  <2>1. reserved' \in [Reservable -> Nat]
    BY <1>1, <1>2, CloseTypes
  <2>2. state' \in [Reservations -> {"none", "active", "completed", "cancelled"}]
    BY <1>1, <1>2 DEF ReservationInv, ReservationTypeOK
  <2>3. request' \in [Requests -> RequestStates]
    BY <1>1, EndRequestAt DEF ReservationInv
  <2>4. QED
    BY <1>1, <1>3, <2>1, <2>2, <2>3 DEF ReservationInv, ReservationTypeOK
<1>6. HoldsFollowReservations'
  <2>1. \A o \in Reservations : invoices'[o] >= invoices[o]
    BY <1>1, <1>4
  <2>2. QED
    BY <1>1, <1>2, <1>5, <2>1, CloseHolds
<1>7. CollectedBeforeHandedOver'
  <2>1. \A o \in Reservations : payments[o] \in Nat /\ payments'[o] \in Nat /\ total[o] \in Nat
    BY <1>3 DEF ReservationInv, ReservationTypeOK
  <2>2. QED
    BY <1>1, <1>3, <2>1 DEF ReservationInv, CollectedBeforeHandedOver
<1>8. \A o \in Reservations : Fresh(o)'
  BY <1>1, <1>3, <1>4 DEF ReservationInv, Fresh
<1>9. \A p \in Requests : About(p)'
  BY <1>1, <1>3, <1>4, OthersStay
<1>10. QED
  BY <1>5, <1>6, <1>7, <1>8, <1>9 DEF ReservationInv

-----------------------------------------------------------------------------
LEMMA ReservationInvStep ==
  ASSUME ReservationInv, [ReservationNext]_reservationVars
  PROVE  ReservationInv'
<1>1. CASE UNCHANGED reservationVars
  <2>1. ReservationTypeOK'
    BY <1>1 DEF reservationVars, money, ReservationInv, ReservationTypeOK
  <2>2. HoldsFollowReservations'
    BY <1>1, <2>1, HoldsUntouched DEF reservationVars
  <2>3. QED
    BY <1>1, <2>1, <2>2 DEF reservationVars, money, ReservationInv, Fresh,
       About, CollectedBeforeHandedOver
<1>2. QED
  BY <1>1, CreateKeeps, ReadKeeps, RefuseKeeps, InsertKeeps, CommitPaymentKeeps,
     CommitConversionKeeps, CommitCancellationKeeps DEF ReservationNext, Inserts

LEMMA ReservationInvInit == ReservationInit => ReservationInv
<1> SUFFICES ASSUME ReservationInit
             PROVE  ReservationInv
  OBVIOUS
<1>1. \A r \in Reservations :
        /\ state[r] = "none" /\ invoices[r] = 0 /\ refunds[r] = 0 /\ refunded[r] = 0
        /\ payments[r] = 0 /\ paid[r] = 0
  BY DEF ReservationInit
<1>2. NoItems \in ItemLists /\ NoItems \in [Reservable -> Nat]
  BY ReservationsAssumption DEF NoItems, ItemLists
<1>3. ReservationTypeOK
  BY <1>2, IdleIsRequest DEF ReservationInit, ReservationTypeOK
<1>4. \A q \in Requests : About(q)
  BY DEF ReservationInit, About
<1>5. HoldsFollowReservations
  <2> SUFFICES ASSUME NEW v \in Reservable
               PROVE  reserved[v] = 0 /\ ActiveHolds(v) = 0
    BY DEF HoldsFollowReservations
  <2>1. \A r \in Reservations : Holding(v)[r] = 0
    BY <1>1 DEF Holding
  <2>2. SumOver(Holding(v), Reservations) = 0
    BY <2>1, SumOfZeros, ReservationsAssumption
  <2>3. QED
    BY <1>3, <2>2, HoldsAreNat DEF ReservationInit, NoItems
<1>6. QED
  BY <1>1, <1>3, <1>4, <1>5 DEF ReservationInv, Fresh, CollectedBeforeHandedOver

-----------------------------------------------------------------------------
(* One request after another. *)
Orderly(r) == Alone(r) /\ Known(r) /\ Settled(r)

(* Nothing happened to a reservation and its requests, but that some ended. *)
LEMMA OrderlyStays ==
  ASSUME NEW o \in Reservations, Orderly(o),
         /\ state'[o] = state[o] /\ quantity'[o] = quantity[o]
         /\ total'[o] = total[o] /\ paid'[o] = paid[o] /\ payments'[o] = payments[o]
         /\ refunded'[o] = refunded[o] /\ refunds'[o] = refunds[o]
         /\ invoices'[o] = invoices[o],
         \A q \in Requests : request'[q].of = o => request'[q] = request[q]
  PROVE  Orderly(o)'
<1>1. Remaining(o)' = Remaining(o)
  BY DEF Remaining
<1>2. Alone(o)'
  BY DEF Orderly, Alone
<1>3. Known(o)'
  BY <1>1 DEF Orderly, Known, Summed
<1>4. Settled(o)'
  BY DEF Orderly, Settled
<1>5. QED
  BY <1>2, <1>3, <1>4 DEF Orderly

(* The request that a reservation had has ended, and with it the last one  *)
(* about this reservation.                                                 *)
LEMMA LastEnded ==
  ASSUME ReservationInv, NEW q \in Requests, EndRequest(q), request[q].of \in Reservations
  PROVE  /\ \A p \in Requests : request'[p].of \in Reservations =>
                                  p # q /\ request'[p] = request[p]
         /\ Alone(request[q].of) =>
              \A p \in Requests : request'[p].of # request[q].of
<1>1. \A p \in Requests : request'[p] = IF p = q THEN Idle ELSE request[p]
  BY EndRequestAt DEF ReservationInv
<1>2. Idle.of \notin Reservations
  BY ReservationsAssumption DEF Idle
<1>3. QED
  BY <1>1, <1>2 DEF Alone

(* Nobody asks about it any more: only how it was settled counts.          *)
LEMMA UnaskedIsOrderly ==
  ASSUME NEW r \in Reservations,
         \A p \in Requests : request'[p].of # r, Settled(r)'
  PROVE  Orderly(r)'
  BY DEF Orderly, Alone, Known

LEMMA CreateOrderly ==
  ASSUME ReservationInv, OneByOne, NEW r \in Reservations, CreateReservation(r)
  PROVE  OneByOne'
<1>1. PICK items \in ItemLists :
        /\ quantity' = [quantity EXCEPT ![r] = items]
        /\ total'[r] = Sum(items, Reservable) => payments'[r] <= total'[r]
  BY CreateTypes
<1>2. /\ paid'[r] = payments'[r]
      /\ \A o \in Reservations \ {r} :
           total'[o] = total[o] /\ paid'[o] = paid[o] /\ payments'[o] = payments[o]
  BY CreateTypes
<1>3. /\ state[r] = "none" /\ state' = [state EXCEPT ![r] = "active"]
      /\ UNCHANGED <<refunds, refunded, invoices, request, raced>>
  BY DEF CreateReservation
<1>4. /\ \A o \in Reservations : state'[o] = IF o = r THEN "active" ELSE state[o]
      /\ \A o \in Reservations : quantity'[o] = IF o = r THEN items ELSE quantity[o]
  BY <1>1, <1>3 DEF ReservationInv, ReservationTypeOK
<1> SUFFICES ASSUME NEW o \in Reservations \ raced
             PROVE  Orderly(o)'
  BY <1>3 DEF OneByOne, Orderly
<1>5. Orderly(o)
  BY DEF OneByOne, Orderly
<1>6. CASE o = r
  <2>1. \A p \in Requests : request'[p].of # r
    BY <1>3, <1>5, <1>6 DEF Orderly, Known
  <2>2. Settled(r)'
    BY <1>1, <1>2, <1>3, <1>4 DEF ReservationInv, Fresh, Settled
  <2>3. QED
    BY <1>6, <2>1, <2>2, UnaskedIsOrderly
<1>7. CASE o # r
  BY <1>2, <1>3, <1>4, <1>5, <1>7, OrderlyStays
<1>8. QED
  BY <1>6, <1>7

LEMMA ReadOrderly ==
  ASSUME ReservationInv, OneByOne, NEW q \in Requests, NEW r \in Reservations,
         NEW op \in Operations, MustBeActive(q, r, op)
  PROVE  OneByOne'
<1> DEFINE x == [Idle EXCEPT !.op = op, !.of = r, !.remaining = Remaining(r),
                             !.paid = paid[r]]
<1>1. /\ state[r] = "active" /\ request' = [request EXCEPT ![q] = x]
      /\ raced' = IF \E p \in Requests : request[p].of = r THEN raced \cup {r} ELSE raced
      /\ UNCHANGED <<state, quantity, total, payments, refunds, paid, refunded, invoices>>
  BY DEF MustBeActive, money
<1>2. \A p \in Requests : request'[p] = IF p = q THEN x ELSE request[p]
  BY <1>1 DEF ReservationInv, ReservationTypeOK
<1>3. x.of = r /\ x.remaining = Remaining(r) /\ x.inserted = FALSE
  BY DEF Idle
<1> HIDE DEF x
<1> SUFFICES ASSUME NEW o \in Reservations, o \notin raced'
             PROVE  Orderly(o)'
  BY DEF OneByOne, Orderly
<1>4. Orderly(o)
  BY <1>1 DEF OneByOne, Orderly
<1>5. CASE o = r
  <2>1. \A p \in Requests : request[p].of # r
    BY <1>1, <1>5
  <2>2. \A p \in Requests : request'[p].of = r => p = q /\ request'[p] = x
    BY <1>2, <2>1
  <2>3. Remaining(r)' = Remaining(r)
    BY <1>1 DEF Remaining
  <2>4. Alone(r)' /\ Known(r)'
    BY <1>1, <1>3, <2>2, <2>3 DEF Alone, Known
  <2>5. Settled(r)'
    BY <1>1, <1>4, <1>5 DEF Orderly, Settled
  <2>6. QED
    BY <1>5, <2>4, <2>5 DEF Orderly
<1>6. CASE o # r
  <2>1. \A p \in Requests : request'[p].of = o => request'[p] = request[p]
    BY <1>2, <1>3, <1>6
  <2>2. QED
    BY <1>1, <1>4, <2>1, OrderlyStays
<1>7. QED
  BY <1>5, <1>6

LEMMA RefuseOrderly ==
  ASSUME ReservationInv, OneByOne, NEW q \in Requests, Refuse(q)
  PROVE  OneByOne'
<1>1. /\ \A p \in Requests : request'[p] = IF p = q THEN Idle ELSE request[p]
      /\ UNCHANGED <<state, quantity, total, payments, refunds, paid, refunded, invoices, raced>>
  BY EndRequestAt DEF Refuse, ReservationInv, money
<1>2. Idle.of \notin Reservations
  BY ReservationsAssumption DEF Idle
<1>3. \A o \in Reservations \ raced : Orderly(o)'
  BY <1>1, <1>2, OrderlyStays DEF OneByOne, Orderly
<1>4. QED
  BY <1>1, <1>3 DEF OneByOne, Orderly

(* The insert of the only request sums up all there is.                    *)
LEMMA InsertOrderly ==
  ASSUME ReservationInv, OneByOne, NEW q \in Requests, Inserts(q)
  PROVE  OneByOne'
<1> DEFINE r == request[q].of
<1>1. PICK pay \in Nat, back \in Nat :
        /\ request[q].op # "none" /\ Insert(q, pay, back)
        /\ request[q].op = "payment" => pay <= request[q].remaining
        /\ request[q].op \in {"payment", "convert"} => back = 0
  BY InsertIs
<1>2. UNCHANGED <<state, quantity, total, payments, refunds, paid, refunded, invoices, raced>>
  BY <1>1 DEF Insert, money
<1>3. /\ \A p \in Requests \ {q} : request'[p] = request[p]
      /\ request'[q].op = request[q].op /\ request'[q].of = r
      /\ request'[q].remaining = request[q].remaining
      /\ request'[q].pay = pay /\ request'[q].back = back
      /\ request'[q].sum.paid = payments[r] + pay
      /\ request'[q].sum.refunded = refunds[r] + back
  <2>1. request[q].op # "none" /\ Insert(q, pay, back)
    BY <1>1
  <2> HIDE DEF r
  <2>2. \A n, m \in Nat : Insert(q, n, m) => Inserted(q, n, m)
    BY <2>1, InsertAt
  <2>3. QED
    BY <2>1, <2>2 DEF Inserted, r
<1> SUFFICES ASSUME NEW o \in Reservations \ raced
             PROVE  Orderly(o)'
  BY <1>2 DEF OneByOne, Orderly
<1>4. Orderly(o)
  BY DEF OneByOne, Orderly
<1>5. CASE o = r
  <2>1. Remaining(o)' = Remaining(o)
    BY <1>2 DEF Remaining
  <2>2. Alone(o)'
    BY <1>3, <1>4, <1>5 DEF Orderly, Alone
  <2>3. state[o] = "active" /\ request[q].remaining = Remaining(o)
    BY <1>4, <1>5 DEF Orderly, Known
  <2>4. Summed(q, o)'
    BY <1>1, <1>2, <1>3, <1>5, <2>1, <2>3 DEF Summed
  <2>5. \A p \in Requests : request'[p].of = o => p = q
    BY <1>3, <1>5, <2>2 DEF Alone
  <2>6. Known(o)'
    BY <1>2, <1>3, <2>1, <2>3, <2>4, <2>5 DEF Known
  <2>7. Settled(o)'
    BY <1>2, <1>4 DEF Orderly, Settled
  <2>8. QED
    BY <2>2, <2>6, <2>7 DEF Orderly
<1>6. CASE o # r
  <2>1. \A p \in Requests : request'[p].of = o => request'[p] = request[p]
    BY <1>3, <1>6
  <2>2. QED
    BY <1>2, <1>4, <2>1, OrderlyStays
<1>7. QED
  BY <1>5, <1>6

(* A payment, a conversion and a cancellation end the reservation's only   *)
(* request; what is left is how they settle it.                            *)
LEMMA EndsOrderly ==
  ASSUME ReservationInv, OneByOne, NEW q \in Requests, EndRequest(q), raced' = raced,
         NEW r \in Reservations, request[q].of = r,
         \A o \in Reservations \ {r} :
           /\ state'[o] = state[o] /\ quantity'[o] = quantity[o]
           /\ total'[o] = total[o] /\ paid'[o] = paid[o] /\ payments'[o] = payments[o]
           /\ refunded'[o] = refunded[o] /\ refunds'[o] = refunds[o]
           /\ invoices'[o] = invoices[o],
         Orderly(r) => Settled(r)'
  PROVE  OneByOne'
<1> SUFFICES ASSUME NEW o \in Reservations \ raced
             PROVE  Orderly(o)'
  BY DEF OneByOne, Orderly
<1>1. Orderly(o)
  BY DEF OneByOne, Orderly
<1>2. CASE o = r
  <2>1. \A p \in Requests : request'[p].of # o
    BY <1>1, <1>2, LastEnded DEF Orderly
  <2>2. Settled(o)'
    BY <1>1, <1>2
  <2>3. QED
    BY <2>1, <2>2, UnaskedIsOrderly
<1>3. CASE o # r
  <2>1. \A p \in Requests : request'[p].of = o => request'[p] = request[p]
    BY LastEnded
  <2>2. QED
    BY <1>1, <1>3, <2>1, OrderlyStays
<1>4. QED
  BY <1>2, <1>3

(* The commit of the only request leaves the sums in the row.              *)
LEMMA CommitShows ==
  ASSUME ReservationInv, NEW q \in Requests, request[q].op # "none",
         request[q].inserted = TRUE, Orderly(request[q].of), Recompute(q, request[q].of)
  PROVE  /\ paid'[request[q].of] = payments'[request[q].of]
         /\ refunded'[request[q].of] = refunds'[request[q].of]
         /\ state[request[q].of] = "active" /\ Summed(q, request[q].of)
         /\ payments[request[q].of] \in Nat /\ refunds[request[q].of] \in Nat
         /\ total[request[q].of] \in Nat
<1> DEFINE r == request[q].of
<1>1. /\ r \in Reservations /\ request[q].pay \in Nat /\ request[q].back \in Nat
  BY RequestHeld
<1>2. /\ state[r] = "active" /\ Summed(q, r)
      /\ paid[r] = payments[r] /\ refunded[r] = refunds[r]
  BY <1>1 DEF Orderly, Known, Settled
<1>3. payments[r] \in Nat /\ refunds[r] \in Nat /\ total[r] \in Nat
  BY <1>1 DEF ReservationInv, ReservationTypeOK
<1>4. /\ payments'[r] = payments[r] + request[q].pay
      /\ refunds'[r] = refunds[r] + request[q].back
      /\ paid'[r] = IF request[q].pay + request[q].back > 0
                    THEN request[q].sum.paid ELSE paid[r]
      /\ refunded'[r] = IF request[q].pay + request[q].back > 0
                        THEN request[q].sum.refunded ELSE refunded[r]
  BY RecomputeIs
<1>5. CASE request[q].pay + request[q].back > 0
  BY <1>2, <1>3, <1>4, <1>5 DEF Summed
<1>6. CASE ~(request[q].pay + request[q].back > 0)
  BY <1>1, <1>2, <1>3, <1>4, <1>6
<1>7. QED
  BY <1>2, <1>3, <1>5, <1>6

LEMMA CommitPaymentOrderly ==
  ASSUME ReservationInv, OneByOne, NEW q \in Requests, CommitPayment(q)
  PROVE  OneByOne'
<1>1. PICK r \in Reservations : r = request[q].of
  BY RequestHeld DEF CommitPayment, Doing
<1>2. /\ request[q].op = "payment" /\ request[q].inserted = TRUE
      /\ Recompute(q, r) /\ EndRequest(q)
      /\ UNCHANGED <<state, quantity, total, invoices, raced>>
  BY <1>1 DEF CommitPayment, Doing
<1>3. /\ \A o \in Reservations \ {r} :
           /\ payments'[o] = payments[o] /\ refunds'[o] = refunds[o]
           /\ paid'[o] = paid[o] /\ refunded'[o] = refunded[o]
      /\ payments'[r] = payments[r] + request[q].pay
      /\ refunds'[r] = refunds[r] + request[q].back
  BY <1>1, <1>2, RecomputeIs
<1>4. ASSUME Orderly(r)
      PROVE  Settled(r)'
  <2>1. /\ paid'[r] = payments'[r] /\ refunded'[r] = refunds'[r]
        /\ state[r] = "active" /\ Summed(q, r)
        /\ payments[r] \in Nat /\ refunds[r] \in Nat /\ total[r] \in Nat
    BY <1>1, <1>2, <1>4, CommitShows
  <2>2. /\ invoices[r] = 0 /\ refunds[r] = 0 /\ paid[r] = payments[r] /\ refunded[r] = refunds[r]
    BY <1>4, <2>1 DEF Orderly, Settled
  <2>3. request[q].pay <= Remaining(r) /\ request[q].back = 0 /\ request[q].pay \in Nat
    BY <1>1, <1>2, <2>1, RequestHeld DEF Summed
  <2>4. payments'[r] <= total[r] /\ refunds'[r] = 0
    BY <1>3, <2>1, <2>2, <2>3 DEF Remaining
  <2>5. QED
    BY <1>2, <2>1, <2>2, <2>4 DEF Settled
<1>5. QED
  BY <1>1, <1>2, <1>3, <1>4, EndsOrderly

LEMMA CommitConversionOrderly ==
  ASSUME ReservationInv, OneByOne, NEW q \in Requests, CommitConversion(q)
  PROVE  OneByOne'
<1>1. PICK r \in Reservations : r = request[q].of
  BY RequestHeld DEF CommitConversion, Doing
<1>2. /\ request[q].op = "convert" /\ request[q].inserted = TRUE
      /\ Recompute(q, r) /\ EndRequest(q)
      /\ invoices' = [invoices EXCEPT ![r] = invoices[r] + 1]
      /\ state' = [state EXCEPT ![r] = "completed"]
      /\ UNCHANGED <<quantity, total, raced>>
  BY <1>1 DEF CommitConversion, Doing
<1>3. /\ \A o \in Reservations \ {r} :
           /\ payments'[o] = payments[o] /\ refunds'[o] = refunds[o]
           /\ paid'[o] = paid[o] /\ refunded'[o] = refunded[o]
           /\ invoices'[o] = invoices[o] /\ state'[o] = state[o]
      /\ refunds'[r] = refunds[r] + request[q].back
      /\ invoices'[r] = invoices[r] + 1 /\ state'[r] = "completed"
  <2>1. /\ \A o \in Reservations \ {r} :
             /\ payments'[o] = payments[o] /\ refunds'[o] = refunds[o]
             /\ paid'[o] = paid[o] /\ refunded'[o] = refunded[o]
        /\ refunds'[r] = refunds[r] + request[q].back
    BY <1>1, <1>2, RecomputeIs
  <2>2. QED
    BY <1>1, <1>2, <2>1 DEF ReservationInv, ReservationTypeOK
<1>4. ASSUME Orderly(r)
      PROVE  Settled(r)'
  <2>1. /\ paid'[r] = payments'[r] /\ refunded'[r] = refunds'[r]
        /\ state[r] = "active" /\ Summed(q, r)
    BY <1>1, <1>2, <1>4, CommitShows
  <2>2. invoices[r] = 0 /\ refunds[r] = 0 /\ request[q].back = 0
    BY <1>2, <1>4, <2>1 DEF Orderly, Settled, Summed
  <2>3. invoices'[r] = 1 /\ refunds'[r] = 0
    BY <1>3, <2>2
  <2>4. QED
    BY <1>3, <2>1, <2>3 DEF Settled
<1>5. QED
  BY <1>1, <1>2, <1>3, <1>4, EndsOrderly

LEMMA CommitCancellationOrderly ==
  ASSUME ReservationInv, OneByOne, NEW q \in Requests, CommitCancellation(q)
  PROVE  OneByOne'
<1>1. PICK r \in Reservations : r = request[q].of
  BY RequestHeld DEF CommitCancellation, Doing
<1>2. /\ request[q].op = "cancel" /\ request[q].inserted = TRUE
      /\ Recompute(q, r) /\ EndRequest(q)
      /\ state' = [state EXCEPT ![r] = "cancelled"]
      /\ UNCHANGED <<quantity, total, invoices, raced>>
  BY <1>1 DEF CommitCancellation, Doing
<1>3. /\ \A o \in Reservations \ {r} :
           /\ payments'[o] = payments[o] /\ refunds'[o] = refunds[o]
           /\ paid'[o] = paid[o] /\ refunded'[o] = refunded[o] /\ state'[o] = state[o]
      /\ state'[r] = "cancelled"
  <2>1. \A o \in Reservations \ {r} :
           /\ payments'[o] = payments[o] /\ refunds'[o] = refunds[o]
           /\ paid'[o] = paid[o] /\ refunded'[o] = refunded[o]
    BY <1>1, <1>2, RecomputeIs
  <2>2. QED
    BY <1>1, <1>2, <2>1 DEF ReservationInv, ReservationTypeOK
<1>4. ASSUME Orderly(r)
      PROVE  Settled(r)'
  <2>1. /\ paid'[r] = payments'[r] /\ refunded'[r] = refunds'[r] /\ state[r] = "active"
    BY <1>1, <1>2, <1>4, CommitShows
  <2>2. invoices[r] = 0
    BY <1>4, <2>1 DEF Orderly, Settled
  <2>3. QED
    BY <1>2, <1>3, <2>1, <2>2 DEF Settled
<1>5. QED
  BY <1>1, <1>2, <1>3, <1>4, EndsOrderly

LEMMA OneByOneStep ==
  ASSUME ReservationInv, OneByOne, [ReservationNext]_reservationVars
  PROVE  OneByOne'
<1>1. CASE UNCHANGED reservationVars
  <2>1. \A r \in Reservations : Remaining(r)' = Remaining(r)
    BY <1>1 DEF reservationVars, Remaining, money
  <2>2. QED
    BY <1>1, <2>1 DEF reservationVars, money, OneByOne, Alone, Known,
       Summed, Settled
<1>2. QED
  BY <1>1, CreateOrderly, ReadOrderly, RefuseOrderly, InsertOrderly, CommitPaymentOrderly,
     CommitConversionOrderly, CommitCancellationOrderly DEF ReservationNext, Inserts

LEMMA OneByOneInit ==
  ASSUME ReservationInit
  PROVE  OneByOne
<1>1. \A q \in Requests : request[q].of \notin Reservations
  BY ReservationsAssumption DEF ReservationInit, Idle
<1>2. \A r \in Reservations :
        /\ state[r] = "none" /\ invoices[r] = 0 /\ refunds[r] = 0 /\ refunded[r] = 0
        /\ payments[r] = 0 /\ paid[r] = 0
  BY DEF ReservationInit
<1>3. QED
  BY <1>1, <1>2 DEF OneByOne, Alone, Known, Settled

LEMMA OneByOneSettles ==
  ASSUME ReservationInv, OneByOne
  PROVE  SettledOneWay
<1> SUFFICES ASSUME NEW r \in Reservations \ raced
             PROVE  /\ invoices[r] <= 1
                    /\ invoices[r] = 1 => refunds[r] = 0
                    /\ paid[r] = payments[r] /\ refunded[r] = refunds[r]
                    /\ state[r] = "active" /\ total[r] = Sum(quantity[r], Reservable)
                         => payments[r] <= total[r]
  BY DEF SettledOneWay
<1>1. state[r] \in {"none", "active", "completed", "cancelled"}
  BY DEF ReservationInv, ReservationTypeOK
<1>2. Settled(r)
  BY DEF OneByOne
<1>3. QED
  BY <1>1, <1>2 DEF Settled

-----------------------------------------------------------------------------
LEMMA ReservationInvariant == ReservationSpec => [](ReservationInv /\ OneByOne)
<1>1. ReservationInit => ReservationInv /\ OneByOne
  BY ReservationInvInit, OneByOneInit
<1>2. ReservationInv /\ OneByOne /\ [ReservationNext]_reservationVars => (ReservationInv /\ OneByOne)'
  BY ReservationInvStep, OneByOneStep
<1>3. QED
  BY <1>1, <1>2, PTL DEF ReservationSpec

(* The columns keep their types: no hold, sum paid or refund goes negative. *)
THEOREM ReservationTyping == ReservationSpec => []ReservationTypeOK
<1>1. ReservationInv => ReservationTypeOK
  BY DEF ReservationInv
<1>2. QED
  BY <1>1, ReservationInvariant, PTL

(* However payments, conversions and cancellations of any number of        *)
(* reservations overlap, quantity_reserved never exceeds what the active   *)
(* ones hold, and is exactly that as long as no reservation with the       *)
(* variant was converted (convert releases by hand and by the trigger).    *)
THEOREM HoldsFollow == ReservationSpec => []HoldsFollowReservations
<1>1. ReservationInv => HoldsFollowReservations
  BY DEF ReservationInv
<1>2. QED
  BY <1>1, ReservationInvariant, PTL

(* No recompute ever writes more than was collected, and convert collects  *)
(* at least the total although it works with a remaining amount read       *)
(* before its transaction from a row that may have lost a payment:         *)
(* payments only add, and a refund only makes the amount it read larger.   *)
THEOREM Collected == ReservationSpec => []CollectedBeforeHandedOver
<1>1. ReservationInv => CollectedBeforeHandedOver
  BY DEF ReservationInv
<1>2. QED
  BY <1>1, ReservationInvariant, PTL

(* A reservation whose requests came one after another shows what was paid *)
(* and refunded, is converted once or refunded, never both, and is not     *)
(* overpaid while it is open.                                              *)
THEOREM Settlement == ReservationSpec => []SettledOneWay
<1>1. ReservationInv /\ OneByOne => SettledOneWay
  BY OneByOneSettles
<1>2. QED
  BY <1>1, ReservationInvariant, PTL
==============================================================================
