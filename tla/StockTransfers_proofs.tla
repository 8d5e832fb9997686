------------------------- MODULE StockTransfers_proofs -------------------------
(***************************************************************************)
(* Theorems about StockTransfers, for any transfers, variants, warehouses  *)
(* and quantities and any number of ship transactions in progress.         *)
(***************************************************************************)
EXTENDS StockTransfers, TLAPS

(* A ship transaction that passed its check keeps the transfer locked and  *)
(* found a row for every item; nothing is received before the shipment and *)
(* nothing beyond the requested quantity.                                  *)
Shipping ==
  \A t \in shipping :
    /\ status[t] \in SHIPPABLE
    /\ \A v \in Items(t) : stock[from[t]][v] # NoRow

Unshipped ==
  \A t \in Transfers, v \in Variants : status[t] \notin Shipped =>
    movedIn[t][v] = 0 /\ received[t][v] = 0 /\ t \notin doubled

Bounded == \A t \in Transfers, v \in Variants : received[t][v] <= requested[t][v]

IInv == /\ TypeOK /\ Shipping /\ Unshipped /\ Bounded
        /\ LedgerMatchesStock /\ MovementsMatchDocument

-----------------------------------------------------------------------------
LEMMA QuantitiesAreNat == /\ Quantities \subseteq Nat /\ 0 \in Quantities
                          /\ NoItems \in ItemLists
BY StockTransfersAssumption DEF Quantities, NoItems, ItemLists

LEMMA RowsAreNat ==
  ASSUME TypeOK, NEW t \in Transfers, NEW v \in Variants
  PROVE  /\ requested[t][v] \in Nat /\ received[t][v] \in Nat
         /\ movedOut[t][v] \in Nat /\ movedIn[t][v] \in Nat
<1>1. requested[t] \in ItemLists /\ received[t] \in ItemLists
  BY DEF TypeOK
<1>2. requested[t][v] \in Quantities /\ received[t][v] \in Quantities
  BY <1>1 DEF ItemLists
<1>3. QED
  BY <1>2, QuantitiesAreNat DEF TypeOK

LEMMA InitInv == Init => IInv
<1> SUFFICES ASSUME Init PROVE IInv
  OBVIOUS
<1>1. PICK w \in Warehouses : /\ from = [t \in Transfers |-> w]
                              /\ to = [t \in Transfers |-> w]
  BY DEF Init
<1>2. NoItems \in [Variants -> Nat]
  BY DEF NoItems
<1>3. TypeOK
  BY <1>1, <1>2, QuantitiesAreNat DEF Init, TypeOK
<1>4. Shipping /\ Unshipped /\ Bounded /\ LedgerMatchesStock
  BY <1>2 DEF Init, Shipping, Unshipped, Bounded, LedgerMatchesStock, OnHand, NoItems
<1>5. MovementsMatchDocument
  BY DEF Init, MovementsMatchDocument, NoItems, Shipped, RECEIVABLE
<1>6. QED
  BY <1>3, <1>4, <1>5 DEF IInv

-----------------------------------------------------------------------------
(* A movement takes the ledger and the stock row the same way, provided it *)
(* takes nothing from a row that does not exist; rows never disappear.     *)
RowsStay == \A w \in Warehouses, v \in Variants :
              stock[w][v] # NoRow => stock'[w][v] # NoRow

LEMMA MoveIs ==
  ASSUME TypeOK, LedgerMatchesStock, NEW w \in Warehouses, NEW d \in [Variants -> Int],
         Move(w, d), \A v \in Variants : d[v] < 0 => stock[w][v] # NoRow,
         drift' = drift
  PROVE  /\ stock' \in [Warehouses -> [Variants -> Nat \cup {NoRow}]]
         /\ ledger' \in [Warehouses -> [Variants -> Int]]
         /\ LedgerMatchesStock' /\ RowsStay
<1> DEFINE row == [v \in Variants |-> IF d[v] # 0 THEN RowAfter(stock[w][v], d[v])
                                      ELSE stock[w][v]]
           sums == [v \in Variants |-> ledger[w][v] + d[v]]
<1>1. /\ stock' = [stock EXCEPT ![w] = row] /\ ledger' = [ledger EXCEPT ![w] = sums]
      /\ \A v \in Variants : d[v] # 0 => RowAfter(stock[w][v], d[v]) \in 0 .. MaxStock
  BY DEF Move
<1>2. 0 .. MaxStock \subseteq Nat /\ \A n \in Int : n # NoRow
  BY StockTransfersAssumption
<1>3. row \in [Variants -> Nat \cup {NoRow}] /\ sums \in [Variants -> Int]
  BY <1>1, <1>2 DEF TypeOK
<1>4. ASSUME NEW v \in Variants
      PROVE  /\ (IF row[v] = NoRow THEN 0 ELSE row[v]) = sums[v] + drift[w][v]
             /\ stock[w][v] # NoRow => row[v] # NoRow
  <2>1. (IF stock[w][v] = NoRow THEN 0 ELSE stock[w][v]) = ledger[w][v] + drift[w][v]
    BY DEF LedgerMatchesStock, OnHand
  <2>2. /\ stock[w][v] \in Nat \cup {NoRow} /\ d[v] \in Int
        /\ ledger[w][v] \in Int /\ drift[w][v] \in Int
    BY DEF TypeOK
  <2>3. CASE d[v] = 0
    BY <2>1, <2>2, <2>3
  <2>4. CASE d[v] # 0
    <3>1. row[v] = RowAfter(stock[w][v], d[v]) /\ row[v] \in Nat /\ row[v] # NoRow
      BY <1>1, <1>2, <2>4
    <3>2. CASE stock[w][v] = NoRow
      <4>1. d[v] > 0
        BY <2>2, <2>4, <3>2
      <4>2. QED
        BY <2>1, <2>2, <3>1, <3>2, <4>1 DEF RowAfter
    <3>3. CASE stock[w][v] # NoRow
      BY <2>1, <2>2, <3>1, <3>3 DEF RowAfter
    <3>4. QED
      BY <3>2, <3>3
  <2>5. QED
    BY <2>3, <2>4
<1> HIDE DEF row, sums
<1>5. stock'[w] = row /\ ledger'[w] = sums
  BY <1>1 DEF TypeOK
<1>6. \A x \in Warehouses \ {w} : stock'[x] = stock[x] /\ ledger'[x] = ledger[x]
  BY <1>1 DEF TypeOK
<1>7. LedgerMatchesStock'
  BY <1>4, <1>5, <1>6 DEF LedgerMatchesStock, OnHand
<1>8. RowsStay
  BY <1>4, <1>5, <1>6 DEF RowsStay
<1>9. QED
  BY <1>1, <1>3, <1>7, <1>8 DEF TypeOK

LEMMA OtherInv ==
  ASSUME IInv, NEW w \in Warehouses, NEW v \in Variants, OtherMovement(w, v)
  PROVE  IInv'
<1>1. PICK delta \in {-1, 1} :
        (delta < 0 => OnHand(w, v) >= 1) /\ Move(w, [NoItems EXCEPT ![v] = delta])
  BY DEF OtherMovement
<1> DEFINE d == [NoItems EXCEPT ![v] = delta]
<1>2. d \in [Variants -> Int] /\ d[v] = delta /\ \A x \in Variants \ {v} : d[x] = 0
  BY DEF NoItems
<1>3. Move(w, d)
  BY <1>1
<1> HIDE DEF d
<1>4. \A x \in Variants : d[x] < 0 => stock[w][x] # NoRow
  BY <1>1, <1>2 DEF OnHand
<1>5. /\ stock' \in [Warehouses -> [Variants -> Nat \cup {NoRow}]]
      /\ ledger' \in [Warehouses -> [Variants -> Int]]
      /\ LedgerMatchesStock' /\ RowsStay
  BY <1>2, <1>3, <1>4, MoveIs DEF IInv, OtherMovement
<1>6. UNCHANGED <<status, from, to, requested, received, movedOut, movedIn, shipping, drift, doubled>>
  BY DEF OtherMovement, document
<1>7. TypeOK'
  BY <1>5, <1>6 DEF IInv, TypeOK
<1>8. Shipping'
  BY <1>5, <1>6 DEF IInv, TypeOK, Shipping, RowsStay, Items
<1>9. Unshipped' /\ Bounded' /\ MovementsMatchDocument'
  BY <1>6 DEF IInv, Unshipped, Bounded, MovementsMatchDocument
<1>10. QED
  BY <1>5, <1>7, <1>8, <1>9 DEF IInv

(* The first write of fn_adjust_stock is the drift, the second one the     *)
(* movement's; a refused second write takes its movement along.            *)
LEMMA AdjustInv ==
  ASSUME IInv, NEW w \in Warehouses, NEW v \in Variants, NEW delta \in {-1, 1},
         AdjustStock(w, v, delta)
  PROVE  IInv'
<1> DEFINE once  == RowAfter(stock[w][v], delta)
           twice == once + delta
           row   == IF twice >= 0 THEN twice ELSE once
           sum   == IF twice >= 0 THEN ledger[w][v] + delta ELSE ledger[w][v]
           apart == drift[w][v] + once - OnHand(w, v)
<1>1. /\ once \in 0 .. MaxStock
      /\ stock' = [stock EXCEPT ![w][v] = row]
      /\ ledger' = [ledger EXCEPT ![w][v] = sum]
      /\ drift' = [drift EXCEPT ![w][v] = apart]
      /\ UNCHANGED <<status, from, to, requested, received, movedOut, movedIn,
                     shipping, doubled>>
  BY DEF AdjustStock, document
<1>2. /\ stock[w][v] \in Nat \cup {NoRow} /\ ledger[w][v] \in Int
      /\ drift[w][v] \in Int /\ OnHand(w, v) \in Nat
  BY DEF IInv, TypeOK, OnHand
<1>3. once \in Nat
  BY <1>1, StockTransfersAssumption
<1>4. row \in Nat /\ sum \in Int /\ apart \in Int
  BY <1>2, <1>3
<1>5. row # NoRow
  BY <1>4, StockTransfersAssumption
<1>6. row = sum + apart
  <2>1. OnHand(w, v) = ledger[w][v] + drift[w][v]
    BY DEF IInv, LedgerMatchesStock
  <2> HIDE DEF once
  <2>2. QED
    BY <1>2, <1>3, <2>1
<1> HIDE DEF once, twice, row, sum, apart
<1>7. /\ stock' \in [Warehouses -> [Variants -> Nat \cup {NoRow}]]
      /\ ledger' \in [Warehouses -> [Variants -> Int]]
      /\ drift' \in [Warehouses -> [Variants -> Int]]
  BY <1>1, <1>4 DEF IInv, TypeOK
<1>8. /\ stock'[w][v] = row /\ ledger'[w][v] = sum /\ drift'[w][v] = apart
      /\ \A x \in Warehouses, y \in Variants : x # w \/ y # v =>
           /\ stock'[x][y] = stock[x][y] /\ ledger'[x][y] = ledger[x][y]
           /\ drift'[x][y] = drift[x][y]
  BY <1>1 DEF IInv, TypeOK
<1>9. LedgerMatchesStock'
  <2>1. ASSUME NEW x \in Warehouses, NEW y \in Variants
        PROVE  OnHand(x, y)' = ledger'[x][y] + drift'[x][y]
    <3>1. CASE x = w /\ y = v
      BY <1>5, <1>6, <1>8, <3>1 DEF OnHand
    <3>2. CASE x # w \/ y # v
      BY <1>8, <3>2 DEF IInv, LedgerMatchesStock, OnHand
    <3>3. QED
      BY <3>1, <3>2
  <2>2. QED
    BY <2>1 DEF LedgerMatchesStock
<1>10. RowsStay
  BY <1>5, <1>8 DEF RowsStay
<1>11. TypeOK'
  BY <1>1, <1>7 DEF IInv, TypeOK
<1>12. Shipping'
  BY <1>1, <1>10 DEF IInv, TypeOK, Shipping, RowsStay, Items
<1>13. Unshipped' /\ Bounded' /\ MovementsMatchDocument'
  BY <1>1 DEF IInv, Unshipped, Bounded, MovementsMatchDocument
<1>14. QED
  BY <1>9, <1>11, <1>12, <1>13 DEF IInv

-----------------------------------------------------------------------------
(* The document before the shipment: nothing of it is in the journal yet. *)
LEMMA DraftInv ==
  ASSUME IInv, NEW t \in Transfers, t \notin shipping, status[t] \notin Shipped,
         NEW s \in Statuses, s \notin Shipped, status' = [status EXCEPT ![t] = s],
         from' \in [Transfers -> Warehouses], to' \in [Transfers -> Warehouses],
         requested' \in [Transfers -> ItemLists],
         \A u \in Transfers \ {t} : from'[u] = from[u] /\ requested'[u] = requested[u],
         received' = received \/ received' = [received EXCEPT ![t] = NoItems],
         UNCHANGED <<stock, ledger, movedOut, movedIn, shipping, drift, doubled>>
  PROVE  IInv'
<1>1. \A u \in Transfers \ {t} : status'[u] = status[u] /\ received'[u] = received[u]
  BY DEF IInv, TypeOK
<1>2. status'[t] = s
  BY DEF IInv, TypeOK
<1>3. \A v \in Variants : received[t][v] = 0 /\ received'[t][v] = 0
  BY DEF IInv, TypeOK, Unshipped, NoItems
<1>4. TypeOK'
  <2>1. received' \in [Transfers -> ItemLists]
    BY QuantitiesAreNat DEF IInv, TypeOK
  <2>2. status' \in [Transfers -> Statuses \cup {"none"}]
    BY DEF IInv, TypeOK
  <2>3. QED
    BY <2>1, <2>2 DEF IInv, TypeOK
<1>5. Shipping'
  <2>1. ASSUME NEW u \in shipping PROVE /\ status'[u] \in SHIPPABLE
                                        /\ \A v \in Items(u)' : stock[from'[u]][v] # NoRow
    <3>1. u \in Transfers \ {t}
      BY DEF IInv, TypeOK
    <3>2. Items(u)' = Items(u)
      BY <3>1 DEF Items
    <3>3. QED
      BY <1>1, <3>1, <3>2 DEF IInv, Shipping
  <2>2. QED
    BY <2>1 DEF Shipping
<1>6. Unshipped'
  BY <1>1, <1>3 DEF IInv, Unshipped
<1>7. Bounded'
  <2>1. \A v \in Variants : requested'[t][v] \in Nat
    BY QuantitiesAreNat DEF ItemLists
  <2>2. QED
    BY <1>1, <1>3, <2>1 DEF IInv, Bounded
<1>8. LedgerMatchesStock'
  BY DEF IInv, LedgerMatchesStock, OnHand
<1>9. MovementsMatchDocument'
  <2>1. ASSUME NEW u \in Transfers \ {t}, NEW v \in Variants
        PROVE  /\ movedOut'[u][v] = IF status'[u] \in Shipped THEN requested'[u][v] ELSE 0
               /\ u \notin doubled' =>
                    /\ movedIn'[u][v] = received'[u][v]
                    /\ movedIn'[u][v] <= movedOut'[u][v]
                    /\ status'[u] = "received" => movedIn'[u][v] = movedOut'[u][v]
    BY <1>1 DEF IInv, MovementsMatchDocument
  <2>2. ASSUME NEW v \in Variants
        PROVE  /\ movedOut'[t][v] = 0 /\ movedIn'[t][v] = 0 /\ status'[t] \notin Shipped
               /\ received'[t][v] = 0 /\ status'[t] # "received"
    BY <1>2, <1>3 DEF IInv, MovementsMatchDocument, Unshipped, Shipped
  <2>3. QED
    BY <2>1, <2>2 DEF MovementsMatchDocument
<1>10. QED
  BY <1>4, <1>5, <1>6, <1>7, <1>8, <1>9 DEF IInv
LEMMA DraftStatuses ==
  /\ \A s \in SHIPPABLE \cup {"none", "cancelled"} : s \notin Shipped
  /\ SHIPPABLE \cup {"cancelled"} \subseteq Statuses /\ EDITABLE \subseteq SHIPPABLE
BY DEF SHIPPABLE, Shipped, RECEIVABLE, Statuses, EDITABLE

LEMMA CreateInv ==
  ASSUME IInv, NEW t \in Transfers, Create(t)
  PROVE  IInv'
<1>1. PICK f \in Warehouses, w \in Warehouses, items \in ItemLists \ {NoItems} :
        /\ from' = [from EXCEPT ![t] = f] /\ to' = [to EXCEPT ![t] = w]
        /\ requested' = [requested EXCEPT ![t] = items]
  BY DEF Create
<1>2. /\ status[t] = "none" /\ status' = [status EXCEPT ![t] = "draft"]
      /\ UNCHANGED <<received, stock, ledger, movedOut, movedIn, shipping, drift, doubled>>
  BY DEF Create, journal
<1>3. t \notin shipping /\ status[t] \notin Shipped
  BY <1>2, DraftStatuses DEF IInv, Shipping, SHIPPABLE
<1>4. /\ from' \in [Transfers -> Warehouses] /\ to' \in [Transfers -> Warehouses]
      /\ requested' \in [Transfers -> ItemLists]
      /\ \A u \in Transfers \ {t} : from'[u] = from[u] /\ requested'[u] = requested[u]
  BY <1>1 DEF IInv, TypeOK
<1>5. "draft" \in Statuses /\ "draft" \notin Shipped
  BY DraftStatuses DEF SHIPPABLE
<1>6. QED
  BY <1>2, <1>3, <1>4, <1>5, DraftInv

LEMMA UpdateInv ==
  ASSUME IInv, NEW t \in Transfers, Update(t)
  PROVE  IInv'
<1>1. PICK f \in Warehouses, w \in Warehouses :
        from' = [from EXCEPT ![t] = f] /\ to' = [to EXCEPT ![t] = w]
  BY DEF Update
<1>2. PICK s \in EDITABLE : status' = [status EXCEPT ![t] = s]
  BY DEF Update
<1>3. /\ t \notin shipping /\ status[t] \in EDITABLE
      /\ UNCHANGED <<stock, ledger, movedOut, movedIn, shipping, drift, doubled>>
  BY DEF Update, Free, journal
<1>4. /\ requested' \in [Transfers -> ItemLists]
      /\ \A u \in Transfers \ {t} : requested'[u] = requested[u]
      /\ received' = received \/ received' = [received EXCEPT ![t] = NoItems]
  <2>1. CASE UNCHANGED <<requested, received>>
    BY <2>1 DEF IInv, TypeOK
  <2>2. CASE /\ \E items \in ItemLists \ {NoItems} :
                  requested' = [requested EXCEPT ![t] = items]
             /\ received' = [received EXCEPT ![t] = NoItems]
    BY <2>2 DEF IInv, TypeOK
  <2>3. QED
    BY <2>1, <2>2 DEF Update
<1>5. /\ from' \in [Transfers -> Warehouses] /\ to' \in [Transfers -> Warehouses]
      /\ \A u \in Transfers \ {t} : from'[u] = from[u]
  BY <1>1 DEF IInv, TypeOK
<1>6. s \in Statuses /\ s \notin Shipped /\ status[t] \notin Shipped
  BY <1>3, DraftStatuses
<1>7. QED
  BY <1>2, <1>3, <1>4, <1>5, <1>6, DraftInv

LEMMA ApproveInv ==
  ASSUME IInv, NEW t \in Transfers, Approve(t) \/ Cancel(t)
  PROVE  IInv'
<1>1. PICK s \in {"approved", "cancelled"} : status' = [status EXCEPT ![t] = s]
  BY DEF Approve, Cancel
<1>2. /\ t \notin shipping /\ status[t] \in SHIPPABLE
      /\ UNCHANGED <<from, to, requested, received, stock, ledger, movedOut, movedIn,
                     shipping, drift, doubled>>
  BY DraftStatuses DEF Approve, Cancel, Free, journal
<1>3. s \in Statuses /\ s \notin Shipped /\ status[t] \notin Shipped
  BY <1>2, DraftStatuses DEF SHIPPABLE
<1>4. /\ from' \in [Transfers -> Warehouses] /\ to' \in [Transfers -> Warehouses]
      /\ requested' \in [Transfers -> ItemLists]
  BY <1>2 DEF IInv, TypeOK
<1>5. QED
  BY <1>1, <1>2, <1>3, <1>4, DraftInv

-----------------------------------------------------------------------------
(* ship: the check, the deduction, the abort. *)
LEMMA CheckInv ==
  ASSUME IInv, NEW t \in Transfers, ShipCheck(t) \/ ShipAbort(t)
  PROVE  IInv'
<1>1. UNCHANGED <<status, from, to, requested, received, stock, ledger, movedOut, movedIn,
                  drift, doubled>>
  BY DEF ShipCheck, ShipAbort, document, journal
<1>2. TypeOK'
  BY <1>1 DEF ShipCheck, ShipAbort, IInv, TypeOK
<1>3. Shipping'
  <2>1. CASE ShipCheck(t)
    <3>1. status[t] \in SHIPPABLE /\ shipping' = shipping \cup {t}
      BY <2>1 DEF ShipCheck
    <3>2. \A v \in Items(t) : stock[from[t]][v] # NoRow
      <4>1. \A v \in Items(t) : requested[t][v] > 0 /\ OnHand(from[t], v) >= requested[t][v]
        BY <2>1 DEF ShipCheck, Items
      <4>2. \A v \in Items(t) : requested[t][v] \in Nat
        BY RowsAreNat DEF Items, IInv, TypeOK
      <4>3. QED
        BY <4>1, <4>2 DEF OnHand
    <3>3. QED
      BY <1>1, <3>1, <3>2 DEF IInv, Shipping, Items
  <2>2. CASE ShipAbort(t)
    BY <1>1, <2>2 DEF ShipAbort, IInv, Shipping, Items
  <2>3. QED
    BY <2>1, <2>2
<1>4. Unshipped' /\ Bounded' /\ LedgerMatchesStock' /\ MovementsMatchDocument'
  BY <1>1 DEF IInv, Unshipped, Bounded, LedgerMatchesStock, OnHand, MovementsMatchDocument
<1>5. QED
  BY <1>2, <1>3, <1>4 DEF IInv

LEMMA DeductInv ==
  ASSUME IInv, NEW t \in Transfers, ShipDeduct(t)
  PROVE  IInv'
<1> DEFINE d == [v \in Variants |-> -requested[t][v]]
           sent == [v \in Variants |-> movedOut[t][v] + requested[t][v]]
<1>1. /\ t \in shipping /\ Move(from[t], d) /\ movedOut' = [movedOut EXCEPT ![t] = sent]
      /\ status' = [status EXCEPT ![t] = "in_transit"] /\ shipping' = shipping \ {t}
      /\ UNCHANGED <<from, to, requested, received, movedIn, drift, doubled>>
  BY DEF ShipDeduct
<1>2. \A u \in Transfers, v \in Variants :
        requested[u][v] \in Nat /\ received[u][v] \in Nat /\ movedOut[u][v] \in Nat
  BY RowsAreNat DEF IInv
<1>3. status[t] \notin Shipped /\ \A v \in Variants : movedOut[t][v] = 0
  BY <1>1, DraftStatuses DEF IInv, Shipping, MovementsMatchDocument
<1>4. d \in [Variants -> Int] /\ sent \in [Variants -> Nat] /\ from[t] \in Warehouses
  BY <1>2 DEF IInv, TypeOK
<1>5. \A v \in Variants : sent[v] = requested[t][v]
  BY <1>2, <1>3
<1>6. \A v \in Variants : d[v] < 0 => stock[from[t]][v] # NoRow
  <2>1. \A v \in Variants : d[v] < 0 => v \in Items(t)
    BY <1>2 DEF Items
  <2>2. QED
    BY <1>1, <2>1 DEF IInv, Shipping
<1> HIDE DEF d, sent
<1>7. /\ stock' \in [Warehouses -> [Variants -> Nat \cup {NoRow}]]
      /\ ledger' \in [Warehouses -> [Variants -> Int]]
      /\ LedgerMatchesStock' /\ RowsStay
  BY <1>1, <1>4, <1>6, MoveIs DEF IInv
<1>8. /\ movedOut'[t] = sent /\ status'[t] = "in_transit"
      /\ \A u \in Transfers \ {t} : movedOut'[u] = movedOut[u] /\ status'[u] = status[u]
  BY <1>1 DEF IInv, TypeOK
<1>9. TypeOK'
  <2>1. movedOut' \in [Transfers -> [Variants -> Nat]]
    BY <1>1, <1>4 DEF IInv, TypeOK
  <2>2. status' \in [Transfers -> Statuses \cup {"none"}]
    BY <1>1 DEF IInv, TypeOK, Statuses, Shipped, RECEIVABLE
  <2>3. QED
    BY <1>1, <1>7, <2>1, <2>2 DEF IInv, TypeOK
<1>10. Shipping'
  <2>1. \A u \in shipping' : u \in Transfers \ {t} /\ u \in shipping
    BY <1>1 DEF IInv, TypeOK
  <2>2. QED
    BY <1>1, <1>7, <1>8, <2>1 DEF IInv, TypeOK, Shipping, RowsStay, Items
<1>11. "in_transit" \in Shipped /\ "in_transit" # "received"
  BY DEF Shipped, RECEIVABLE
<1>12. Unshipped' /\ Bounded'
  BY <1>1, <1>8, <1>11 DEF IInv, Unshipped, Bounded
<1>13. MovementsMatchDocument'
  <2>1. ASSUME NEW u \in Transfers \ {t}, NEW v \in Variants
        PROVE  /\ movedOut'[u][v] = IF status'[u] \in Shipped THEN requested'[u][v] ELSE 0
               /\ u \notin doubled' =>
                    /\ movedIn'[u][v] = received'[u][v]
                    /\ movedIn'[u][v] <= movedOut'[u][v]
                    /\ status'[u] = "received" => movedIn'[u][v] = movedOut'[u][v]
    BY <1>1, <1>8 DEF IInv, MovementsMatchDocument
  <2>2. ASSUME NEW v \in Variants
        PROVE  /\ movedOut'[t][v] = requested'[t][v] /\ movedIn'[t][v] = 0
               /\ received'[t][v] = 0 /\ movedIn'[t][v] <= movedOut'[t][v]
    BY <1>1, <1>2, <1>3, <1>5, <1>8 DEF IInv, Unshipped
  <2>3. QED
    BY <1>8, <1>11, <2>1, <2>2 DEF MovementsMatchDocument
<1>14. QED
  BY <1>7, <1>9, <1>10, <1>12, <1>13 DEF IInv
-----------------------------------------------------------------------------
(* receive: rows between what was recorded and what was requested. *)
LEMMA DeltaIs ==
  ASSUME IInv, NEW t \in Transfers, NEW rows, DOMAIN rows \subseteq Variants, Valid(t, rows)
  PROVE  /\ Delta(t, rows) \in [Variants -> Nat]
         /\ \A v \in Variants : v \in DOMAIN rows =>
              /\ rows[v] \in Nat /\ rows[v] <= requested[t][v]
              /\ Delta(t, rows)[v] = rows[v] - received[t][v]
         /\ \A v \in Variants : v \notin DOMAIN rows => Delta(t, rows)[v] = 0
<1>1. ASSUME NEW v \in DOMAIN rows
      PROVE  /\ v \in Variants /\ rows[v] \in Nat
             /\ received[t][v] <= rows[v] /\ rows[v] <= requested[t][v]
  <2>1. v \in Variants
    OBVIOUS
  <2>2. received[t][v] \in Nat /\ requested[t][v] \in Nat
    BY <2>1, RowsAreNat DEF IInv
  <2>3. rows[v] \in received[t][v] .. requested[t][v]
    BY DEF Valid
  <2>4. QED
    BY <2>1, <2>2, <2>3
<1>2. \A v \in DOMAIN rows : rows[v] - received[t][v] \in Nat
  <2> TAKE v \in DOMAIN rows
  <2>1. received[t][v] \in Nat
    BY RowsAreNat DEF IInv
  <2>2. QED
    BY <1>1, <2>1
<1>3. QED
  BY <1>1, <1>2 DEF Delta

LEMMA ReceiveInv ==
  ASSUME IInv, NEW t \in Transfers, Receive(t)
  PROVE  IInv'
<1>0. PICK new \in Requests(t) : \E again \in Second(new) :
        LET delta == [v \in Variants |-> Delta(t, new)[v] + Delta(t, again)[v]]
            got   == Written(t, new, again)
        IN /\ Valid(t, new) /\ Valid(t, again)
           /\ Move(to[t], delta)
           /\ movedIn' = [movedIn EXCEPT ![t] =
                [v \in Variants |-> movedIn[t][v] + delta[v]]]
           /\ received' = [received EXCEPT ![t] = got]
           /\ doubled' = IF DOMAIN again = {} THEN doubled ELSE doubled \cup {t}
           /\ status' = [status EXCEPT ![t] =
                IF Complete(t, got) THEN "received" ELSE "partially_received"]
  BY DEF Receive
<1>1. PICK again \in Second(new) :
        /\ Valid(t, new) /\ Valid(t, again)
        /\ Move(to[t], [v \in Variants |-> Delta(t, new)[v] + Delta(t, again)[v]])
        /\ movedIn' = [movedIn EXCEPT ![t] =
             [v \in Variants |-> movedIn[t][v] + [x \in Variants |->
                 Delta(t, new)[x] + Delta(t, again)[x]][v]]]
        /\ received' = [received EXCEPT ![t] = Written(t, new, again)]
        /\ doubled' = IF DOMAIN again = {} THEN doubled ELSE doubled \cup {t}
        /\ status' = [status EXCEPT ![t] =
             IF Complete(t, Written(t, new, again)) THEN "received" ELSE "partially_received"]
  BY <1>0
<1> DEFINE d == [v \in Variants |-> Delta(t, new)[v] + Delta(t, again)[v]]
           got == Written(t, new, again)
           s == IF Complete(t, got) THEN "received" ELSE "partially_received"
           arrived == [v \in Variants |-> movedIn[t][v] + d[v]]
<1>2. /\ t \notin shipping /\ status[t] \in RECEIVABLE
      /\ UNCHANGED <<from, to, requested, movedOut, shipping, drift>>
  BY DEF Receive, Free
<1>3. DOMAIN new \subseteq Variants /\ DOMAIN again \subseteq DOMAIN new
  BY DEF Requests, Second, Items
<1>4. /\ Delta(t, new) \in [Variants -> Nat] /\ Delta(t, again) \in [Variants -> Nat]
      /\ \A v \in Variants : v \in DOMAIN new =>
           /\ new[v] \in Nat /\ new[v] <= requested[t][v]
           /\ Delta(t, new)[v] = new[v] - received[t][v]
      /\ \A v \in Variants : v \in DOMAIN again =>
           /\ again[v] \in Nat /\ again[v] <= requested[t][v]
      /\ \A v \in Variants : v \notin DOMAIN new => Delta(t, new)[v] = 0
      /\ \A v \in Variants : v \notin DOMAIN again => Delta(t, again)[v] = 0
  BY <1>1, <1>3, DeltaIs
<1>5. \A v \in Variants :
        /\ requested[t][v] \in Quantities /\ requested[t][v] \in Nat
        /\ received[t][v] \in Nat /\ movedIn[t][v] \in Nat /\ received[t][v] <= requested[t][v]
  BY RowsAreNat DEF IInv, TypeOK, ItemLists, Bounded
<1>6. \A v \in Variants : got[v] \in Nat /\ got[v] <= requested[t][v]
  BY <1>4, <1>5 DEF Written
<1>7. got \in ItemLists
  <2>1. \A v \in Variants : got[v] \in Quantities
    BY <1>5, <1>6, StockTransfersAssumption DEF Quantities
  <2>2. got = [v \in Variants |-> got[v]]
    BY DEF Written
  <2> HIDE DEF got
  <2>3. QED
    BY <2>1, <2>2 DEF ItemLists
<1>8. d \in [Variants -> Int] /\ \A v \in Variants : d[v] >= 0
  BY <1>4
<1>9. arrived \in [Variants -> Nat]
  BY <1>5, <1>8
<1>10. ASSUME DOMAIN again = {}, NEW v \in Variants
       PROVE  d[v] = got[v] - received[t][v]
  <2>1. Delta(t, again)[v] = 0
    BY <1>4, <1>10
  <2>2. got[v] = IF v \in DOMAIN new THEN new[v] ELSE received[t][v]
    BY <2>1 DEF Written
  <2>3. d[v] = Delta(t, new)[v] + 0
    BY <2>1
  <2> HIDE DEF d, got
  <2>4. CASE v \in DOMAIN new
    BY <1>4, <1>5, <2>2, <2>3, <2>4
  <2>5. CASE v \notin DOMAIN new
    <3>1. Delta(t, new)[v] = 0
      BY <1>4, <2>5
    <3>2. QED
      BY <1>5, <2>2, <2>3, <2>5, <3>1
  <2>6. QED
    BY <2>4, <2>5
<1>11. s \in Shipped /\ (s = "received" <=> Complete(t, got))
  BY DEF Shipped, RECEIVABLE
<1>12. status[t] \in Shipped /\ to[t] \in Warehouses /\ Move(to[t], d)
  BY <1>1, <1>2 DEF Shipped, IInv, TypeOK
<1>13. /\ status' = [status EXCEPT ![t] = s] /\ received' = [received EXCEPT ![t] = got]
       /\ movedIn' = [movedIn EXCEPT ![t] = arrived]
  BY <1>1
<1> HIDE DEF d, got, s, arrived
<1>14. /\ stock' \in [Warehouses -> [Variants -> Nat \cup {NoRow}]]
       /\ ledger' \in [Warehouses -> [Variants -> Int]]
       /\ LedgerMatchesStock' /\ RowsStay
  <2>1. \A v \in Variants : d[v] < 0 => stock[to[t]][v] # NoRow
    BY <1>8
  <2>2. QED
    BY <1>2, <1>8, <1>12, <2>1, MoveIs DEF IInv
<1>15. /\ status'[t] = s /\ received'[t] = got /\ movedIn'[t] = arrived
       /\ \A u \in Transfers \ {t} :
            status'[u] = status[u] /\ received'[u] = received[u] /\ movedIn'[u] = movedIn[u]
  BY <1>13 DEF IInv, TypeOK
<1>16. TypeOK'
  <2>1. /\ received' \in [Transfers -> ItemLists]
        /\ movedIn' \in [Transfers -> [Variants -> Nat]]
    BY <1>7, <1>9, <1>13 DEF IInv, TypeOK
  <2>2. status' \in [Transfers -> Statuses \cup {"none"}]
    BY <1>11, <1>13 DEF IInv, TypeOK, Statuses
  <2>3. doubled' \subseteq Transfers
    BY <1>1 DEF IInv, TypeOK
  <2>4. QED
    BY <1>2, <1>14, <2>1, <2>2, <2>3 DEF IInv, TypeOK
<1>17. Shipping'
  <2>1. \A u \in shipping : u \in Transfers \ {t}
    BY <1>2 DEF IInv, TypeOK
  <2>2. QED
    BY <1>2, <1>14, <1>15, <2>1 DEF IInv, TypeOK, Shipping, RowsStay, Items
<1>18. Unshipped'
  BY <1>1, <1>11, <1>15 DEF IInv, Unshipped
<1>19. Bounded'
  BY <1>2, <1>6, <1>15 DEF IInv, Bounded
<1>20. MovementsMatchDocument'
  <2>1. ASSUME NEW u \in Transfers \ {t}, NEW v \in Variants
        PROVE  /\ movedOut'[u][v] = IF status'[u] \in Shipped THEN requested'[u][v] ELSE 0
               /\ u \notin doubled' =>
                    /\ movedIn'[u][v] = received'[u][v]
                    /\ movedIn'[u][v] <= movedOut'[u][v]
                    /\ status'[u] = "received" => movedIn'[u][v] = movedOut'[u][v]
    BY <1>1, <1>2, <1>15 DEF IInv, MovementsMatchDocument
  <2>2. ASSUME NEW v \in Variants
        PROVE  movedOut'[t][v] = requested[t][v]
    BY <1>2, <1>12 DEF IInv, MovementsMatchDocument
  <2>3. ASSUME t \notin doubled', NEW v \in Variants
        PROVE  movedIn'[t][v] = got[v]
    <3>1. DOMAIN again = {} /\ t \notin doubled
      BY <1>1, <2>3
    <3>2. movedIn[t][v] = received[t][v] /\ d[v] = got[v] - received[t][v]
      BY <1>10, <3>1 DEF IInv, MovementsMatchDocument
    <3>3. arrived[v] = movedIn[t][v] + d[v]
      BY DEF arrived
    <3>4. QED
      BY <1>5, <1>6, <1>15, <3>2, <3>3
  <2>4. ASSUME s = "received", NEW v \in Variants
        PROVE  got[v] = requested[t][v]
    <3>1. v \in Items(t) => got[v] >= requested[t][v]
      BY <1>11, <2>4 DEF Complete
    <3>2. v \notin Items(t) => requested[t][v] = 0
      BY <1>5 DEF Items
    <3>3. QED
      BY <1>5, <1>6, <3>1, <3>2
  <2>5. ASSUME NEW v \in Variants
        PROVE  /\ movedOut'[t][v] = IF status'[t] \in Shipped THEN requested'[t][v] ELSE 0
               /\ t \notin doubled' =>
                    /\ movedIn'[t][v] = received'[t][v]
                    /\ movedIn'[t][v] <= movedOut'[t][v]
                    /\ status'[t] = "received" => movedIn'[t][v] = movedOut'[t][v]
    BY <1>2, <1>6, <1>11, <1>15, <2>2, <2>3, <2>4
  <2>6. QED
    BY <2>1, <2>5 DEF MovementsMatchDocument
<1>21. QED
  BY <1>14, <1>16, <1>17, <1>18, <1>19, <1>20 DEF IInv

LEMMA StepInv == IInv /\ [Next]_vars => IInv'
<1> SUFFICES ASSUME IInv, [Next]_vars PROVE IInv'
  OBVIOUS
<1>1. CASE UNCHANGED vars
  <2>1. TypeOK' /\ Shipping' /\ Unshipped' /\ Bounded'
    BY <1>1 DEF vars, IInv, TypeOK, Shipping, Unshipped, Bounded, Items
  <2>2. LedgerMatchesStock' /\ MovementsMatchDocument'
    BY <1>1 DEF vars, IInv, LedgerMatchesStock, OnHand, MovementsMatchDocument
  <2>3. QED
    BY <2>1, <2>2 DEF IInv
<1>2. ASSUME NEW t \in Transfers,
             \/ Create(t) \/ Update(t) \/ Approve(t) \/ Cancel(t)
             \/ ShipCheck(t) \/ ShipDeduct(t) \/ ShipAbort(t) \/ Receive(t)
      PROVE  IInv'
  BY <1>2, CreateInv, UpdateInv, ApproveInv, CheckInv, DeductInv, ReceiveInv
<1>3. QED
  BY <1>1, <1>2, OtherInv, AdjustInv DEF Next

-----------------------------------------------------------------------------
LEMMA AlwaysInv == Spec => []IInv
BY InitInv, StepInv, PTL DEF Spec

(* Every row keeps its type: no stock row falls below zero.               *)
THEOREM Typing == Spec => []TypeOK
<1>1. IInv => TypeOK
  BY DEF IInv
<1>2. QED
  BY AlwaysInv, <1>1, PTL

(* Every stock row is the sum of its movements and of what fn_adjust_stock *)
(* wrote beside its own: no movement ever takes pieces from a row that     *)
(* does not exist (apply_stock_movement would insert 0 and lose the        *)
(* difference), and a refused adjustment leaves no movement behind.        *)
THEOREM LedgerIsStock == Spec => []LedgerMatchesStock
<1>1. IInv => LedgerMatchesStock
  BY DEF IInv
<1>2. QED
  BY AlwaysInv, <1>1, PTL

(* The movements of a transfer are what its document says, through edits,  *)
(* the split ship transaction and partial receipts.                        *)
THEOREM JournalIsDocument == Spec => []MovementsMatchDocument
<1>1. IInv => MovementsMatchDocument
  BY DEF IInv
<1>2. QED
  BY AlwaysInv, <1>1, PTL

(* Whatever happened between the stock check and the deduction, every      *)
(* piece that is sent was in the source.                                   *)
THEOREM SentWasThere == Spec => NothingFromNothing
<1> DEFINE There(t, v) == movedOut'[t][v] # movedOut[t][v] =>
                            OnHand(from[t], v) >= movedOut'[t][v] - movedOut[t][v]
<1>1. IInv /\ [Next]_vars => [\A t \in Transfers, v \in Variants : There(t, v)]_vars
  <2> SUFFICES ASSUME IInv, Next, NEW t \in Transfers, NEW v \in Variants,
                      movedOut'[t][v] # movedOut[t][v]
               PROVE  OnHand(from[t], v) >= movedOut'[t][v] - movedOut[t][v]
    OBVIOUS
  <2> USE DEF journal
  <2>a. ASSUME NEW u \in Transfers,
               \/ Create(u) \/ Update(u) \/ Approve(u) \/ Cancel(u)
               \/ ShipCheck(u) \/ ShipAbort(u) \/ Receive(u)
        PROVE  movedOut' = movedOut
    BY <2>a DEF Create, Update, Approve, Cancel, ShipCheck, ShipAbort, Receive
  <2>b. ASSUME NEW w \in Warehouses, NEW x \in Variants, NEW delta \in {-1, 1},
               OtherMovement(w, x) \/ AdjustStock(w, x, delta)
        PROVE  movedOut' = movedOut
    BY <2>b DEF OtherMovement, AdjustStock
  <2>c. (\E w \in Warehouses, x \in Variants :
           \/ OtherMovement(w, x)
           \/ \E delta \in {-1, 1} : AdjustStock(w, x, delta)) => movedOut' = movedOut
    BY <2>b
  <2>1. PICK u \in Transfers : ShipDeduct(u)
    BY <2>a, <2>c DEF Next
  <2>2. /\ movedOut'[u] = [x \in Variants |-> movedOut[u][x] + requested[u][x]]
        /\ \A f \in Transfers \ {u} : movedOut'[f] = movedOut[f]
    BY <2>1 DEF ShipDeduct, IInv, TypeOK
  <2>3. u = t
    BY <2>2
  <2>4. /\ movedOut'[t][v] = movedOut[t][v] + requested[t][v]
        /\ requested[t][v] \in Nat /\ movedOut[t][v] \in Nat /\ requested[t][v] # 0
    BY <2>2, <2>3, RowsAreNat DEF IInv
  <2>5. RowAfter(stock[from[t]][v], -requested[t][v]) \in 0 .. MaxStock
    <3> DEFINE d == [x \in Variants |-> -requested[t][x]]
    <3>1. d[v] # 0 /\ d[v] = -requested[t][v]
      BY <2>4
    <3>2. Move(from[t], d)
      BY <2>1, <2>3 DEF ShipDeduct
    <3> HIDE DEF d
    <3>3. QED
      BY <3>1, <3>2 DEF Move
  <2>6. stock[from[t]][v] # NoRow
    <3>1. t \in shipping /\ v \in Items(t)
      BY <2>1, <2>3, <2>4 DEF ShipDeduct, Items
    <3>2. QED
      BY <3>1 DEF IInv, Shipping
  <2>7. stock[from[t]][v] \in Nat
    BY <2>6 DEF IInv, TypeOK
  <2>8. QED
    BY <2>4, <2>5, <2>6, <2>7, StockTransfersAssumption DEF RowAfter, OnHand
<1>2. QED
  BY AlwaysInv, <1>1, PTL DEF Spec, NothingFromNothing
===============================================================================
