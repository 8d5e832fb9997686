---------------------------- MODULE Returns_proofs ----------------------------
(***************************************************************************)
(* Theorems about Returns, for any returns, requests, edit requests,       *)
(* cashboxes and quantities.                                               *)
(***************************************************************************)
EXTENDS Returns, SumTheorems, TLAPS

(* What the types need: a cash refund has its drawer, a request past its   *)
(* check and an edit request have their return.                            *)
Bound ==
  /\ \A r \in Returns : method[r] = "cash" => box[r] \in Drawers
  /\ \A q \in Requests : request[q].pc \notin {"idle", "creating"} => request[q].of \in Returns
  /\ \A e \in EditRequests : edit[e].status # "none" => edit[e].of \in Returns

IInv == TypeOK /\ Bound

Edits == [status : {"none", "pending", "approved", "rejected", "applied"},
          of : Returns \cup {NoReturn}, payload : Payload]
Held  == [pc : {"idle", "creating", "approve", "approving", "refund", "reject"},
          of : Returns \cup {NoReturn}, line : Lines, invoiced : BOOLEAN]

-----------------------------------------------------------------------------
LEMMA Zero == 0 \in Pieces /\ Pieces \subseteq Nat
BY ReturnsAssumption DEF Pieces

LEMMA IdleTyped == Idle \in Held /\ NoLine \in Lines
BY Zero DEF Idle, NoLine, Held, Lines, Fates

LEMMA TargetIsABox ==
  ASSUME NEW how \in {"none", "cash", "card"}, NEW b, how = "cash" => b \in Drawers
  PROVE  Target(how, b) \in Boxes
BY DEF Target, Boxes

LEMMA ShelvedIsNat ==
  ASSUME NEW l \in Lines
  PROVE  Shelved(l) \in Nat /\ l.qty \in Pieces /\ l.qty \in Nat
BY Zero DEF Shelved, Lines

(* The books of a return keep their types whatever is posted or reversed.  *)
LEMMA PostTyped ==
  ASSUME TypeOK, NEW r \in Returns, NEW b \in Boxes, NEW n \in Pieces, Post(r, b, n)
  PROVE  /\ entry' \in [Returns -> Posting \cup {NoEntry}]
         /\ trail' \in [Returns -> Seq(Posting)]
         /\ paid' \in [Returns -> [Boxes -> Int]]
<1> DEFINE e == [box |-> b, amount |-> n]
<1>1. e \in Posting /\ n \in Int
  BY Zero DEF Posting
<1>2. CASE Posts(r, n)
  <2>1. /\ entry' = [entry EXCEPT ![r] = e]
        /\ trail' = [trail EXCEPT ![r] = Append(trail[r], e)]
        /\ paid' = [paid EXCEPT ![r] = [paid[r] EXCEPT ![b] = paid[r][b] + n]]
    BY <1>2 DEF Post
  <2>2. Append(trail[r], e) \in Seq(Posting)
    BY <1>1 DEF TypeOK
  <2>3. [paid[r] EXCEPT ![b] = paid[r][b] + n] \in [Boxes -> Int]
    BY <1>1 DEF TypeOK
  <2> HIDE DEF e
  <2>4. QED
    BY <1>1, <2>1, <2>2, <2>3 DEF TypeOK
<1>3. CASE ~Posts(r, n)
  BY <1>3 DEF Post, TypeOK, books
<1>4. QED
  BY <1>2, <1>3

LEMMA ReversalTyped ==
  ASSUME TypeOK, NEW r \in Returns
  PROVE  PaidAfterReversal(r) \in [Boxes -> Int]
<1>1. paid[r] \in [Boxes -> Int] /\ entry[r] \in Posting \cup {NoEntry}
  BY DEF TypeOK
<1>2. CASE entry[r] = NoEntry
  BY <1>1, <1>2 DEF PaidAfterReversal
<1>3. CASE entry[r] # NoEntry
  <2>1. entry[r].box \in Boxes /\ entry[r].amount \in Pieces
    BY <1>1, <1>3 DEF Posting
  <2>2. entry[r].amount \in Nat
    BY <2>1, Zero
  <2>3. paid[r][entry[r].box] \in Int
    BY <1>1, <2>1
  <2>4. paid[r][entry[r].box] - entry[r].amount \in Int
    BY <2>2, <2>3
  <2>5. QED
    BY <1>1, <1>3, <2>4 DEF PaidAfterReversal
<1>4. QED
  BY <1>2, <1>3

LEMMA ReverseTyped ==
  ASSUME TypeOK, NEW r \in Returns, Reverse(r)
  PROVE  /\ entry' \in [Returns -> Posting \cup {NoEntry}]
         /\ trail' \in [Returns -> Seq(Posting)]
         /\ paid' \in [Returns -> [Boxes -> Int]]
BY ReversalTyped DEF TypeOK, Reverse

LEMMA ReverseAndPostTyped ==
  ASSUME TypeOK, NEW r \in Returns, NEW b \in Boxes, NEW n \in Pieces,
         ReverseAndPost(r, b, n)
  PROVE  /\ entry' \in [Returns -> Posting \cup {NoEntry}]
         /\ trail' \in [Returns -> Seq(Posting)]
         /\ paid' \in [Returns -> [Boxes -> Int]]
<1> DEFINE e == [box |-> b, amount |-> n]
           p == [PaidAfterReversal(r) EXCEPT ![b] = PaidAfterReversal(r)[b] + n]
<1>1. e \in Posting /\ n \in Int
  BY Zero DEF Posting
<1>2. CASE n = 0
  BY <1>2, ReverseTyped DEF ReverseAndPost
<1>3. CASE n # 0
  <2>1. /\ entry' = [entry EXCEPT ![r] = e]
        /\ trail' = [trail EXCEPT ![r] = Append(trail[r], e)]
        /\ paid' = [paid EXCEPT ![r] = p]
    BY <1>3 DEF ReverseAndPost
  <2>2. Append(trail[r], e) \in Seq(Posting)
    BY <1>1 DEF TypeOK
  <2>3. p \in [Boxes -> Int]
    BY <1>1, ReversalTyped
  <2> HIDE DEF e, p
  <2>4. QED
    BY <1>1, <2>1, <2>2, <2>3 DEF TypeOK
<1>4. QED
  BY <1>2, <1>3

-----------------------------------------------------------------------------
LEMMA InitTyped == Init => IInv
<1> SUFFICES ASSUME Init PROVE IInv
  OBVIOUS
<1>1. [kind |-> "update", qty |-> 0] \in Payload
  BY Zero DEF Payload
<1>2. edit \in [EditRequests -> Edits]
  BY <1>1 DEF Init, NoEdit, Edits
<1>3. request \in [Requests -> Held]
  BY IdleTyped DEF Init
<1>4. /\ line \in [Returns -> Lines] /\ status \in [Returns -> Statuses]
      /\ invoiced \in [Returns -> BOOLEAN]
      /\ method \in [Returns -> {"none", "cash", "card"}]
      /\ box \in [Returns -> Drawers \cup {NoBox}]
  BY IdleTyped DEF Init, Statuses
<1>5. /\ entry \in [Returns -> Posting \cup {NoEntry}]
      /\ paid \in [Returns -> [Boxes -> Int]]
  BY DEF Init
<1>8. << >> \in Seq(Posting)
  OBVIOUS
<1>9. trail \in [Returns -> Seq(Posting)]
  BY <1>8 DEF Init
<1>10. onHand \in Nat /\ moved \in [Returns -> Int]
  BY DEF Init
<1>11. raced \subseteq Returns /\ unmoved \subseteq Returns
  BY DEF Init
<1>12. loose \in BOOLEAN
  BY DEF Init
<1>6. Bound
  BY DEF Init, Bound, Idle, NoEdit
<1>7. QED
  BY <1>2, <1>3, <1>4, <1>5, <1>6, <1>9, <1>10, <1>11, <1>12 DEF IInv, TypeOK, Edits, Held

-----------------------------------------------------------------------------
(* A request that ends, or goes on with another record. *)
LEMMA RequestTyped ==
  ASSUME IInv, NEW q \in Requests, NEW h \in Held,
         h.pc \notin {"idle", "creating"} => h.of \in Returns,
         request' = [request EXCEPT ![q] = h]
  PROVE  /\ request' \in [Requests -> Held]
         /\ \A p \in Requests :
              request'[p].pc \notin {"idle", "creating"} => request'[p].of \in Returns
<1>1. request \in [Requests -> Held]
  BY DEF IInv, TypeOK, Held
<1>2. request'[q] = h /\ \A p \in Requests \ {q} : request'[p] = request[p]
  BY <1>1
<1>3. QED
  BY <1>1, <1>2 DEF IInv, Bound

LEMMA EndTyped ==
  ASSUME IInv, NEW q \in Requests, EndRequest(q)
  PROVE  /\ request' \in [Requests -> Held]
         /\ \A p \in Requests :
              request'[p].pc \notin {"idle", "creating"} => request'[p].of \in Returns
<1>1. Idle \in Held /\ Idle.pc = "idle"
  BY IdleTyped DEF Idle
<1>2. QED
  BY <1>1, RequestTyped DEF EndRequest

LEMMA CheckCreateTyped ==
  ASSUME IInv, NEW q \in Requests, NEW l \in NewLines, CreateCheck(q, l)
  PROVE  IInv'
<1> DEFINE h == [pc |-> "creating", of |-> NoReturn, line |-> l, invoiced |-> l.linked]
<1>1. h \in Held /\ h.pc = "creating"
  BY ReturnsAssumption DEF Held, Lines
<1>2. request' = [request EXCEPT ![q] = h]
  BY DEF CreateCheck
<1>3. UNCHANGED <<status, invoiced, line, method, box, entry, trail, paid, onHand, moved,
                  edit, raced, unmoved>>
  BY DEF CreateCheck, doc, books, shelf
<1>4. loose' \in BOOLEAN
  <2>1. loose' = (loose \/ (l.linked /\ (Uncounted \/ l.again > 0)))
    BY DEF CreateCheck
  <2>2. QED
    BY <2>1
<1> HIDE DEF h
<1>5. QED
  BY <1>1, <1>2, <1>3, <1>4, RequestTyped DEF IInv, TypeOK, Bound, Held

LEMMA CheckTyped ==
  ASSUME IInv, NEW q \in Requests, NEW r \in Returns, NEW what \in DOMAIN From,
         Check(q, r, what)
  PROVE  IInv'
<1> DEFINE h == [Idle EXCEPT !.pc = what, !.of = r]
<1>1. what \in {"approve", "refund", "reject"}
  BY DEF From
<1>2. h \in Held /\ h.of = r
  BY <1>1, IdleTyped DEF Held, Idle
<1>3. request' = [request EXCEPT ![q] = h]
  BY DEF Check
<1>4. UNCHANGED <<status, invoiced, line, method, box, entry, trail, paid, onHand, moved,
                  edit, raced, unmoved, loose>>
  BY DEF Check, doc, books, shelf, past
<1> HIDE DEF h
<1>5. QED
  BY <1>2, <1>3, <1>4, RequestTyped DEF IInv, TypeOK, Bound, Held

LEMMA ReadTyped ==
  ASSUME IInv, NEW q \in Requests, ApproveRead(q)
  PROVE  IInv'
<1> DEFINE h == [request[q] EXCEPT !.pc = "approving", !.line = line[request[q].of]]
<1>1. request[q] \in Held /\ request[q].of \in Returns
  BY DEF ApproveRead, IInv, Bound, TypeOK, Held
<1>2. line[request[q].of] \in Lines
  BY <1>1 DEF IInv, TypeOK
<1>3. h \in Held /\ h.of = request[q].of
  BY <1>1, <1>2 DEF Held
<1>4. request' = [request EXCEPT ![q] = h]
  BY DEF ApproveRead
<1>5. UNCHANGED <<status, invoiced, line, method, box, entry, trail, paid, onHand, moved,
                  edit, raced, unmoved, loose>>
  BY DEF ApproveRead, doc, books, shelf, past
<1> HIDE DEF h
<1>6. QED
  BY <1>1, <1>3, <1>4, <1>5, RequestTyped DEF IInv, TypeOK, Bound, Held

LEMMA RefundFailsTyped ==
  ASSUME IInv, NEW q \in Requests, RefundFails(q)
  PROVE  IInv'
<1>1. UNCHANGED <<status, invoiced, line, method, box, entry, trail, paid, onHand, moved,
                  edit, raced, unmoved, loose>>
  BY DEF RefundFails, doc, books, shelf, past
<1>2. QED
  BY <1>1, EndTyped DEF RefundFails, IInv, TypeOK, Bound, Held

LEMMA InsertTyped ==
  ASSUME IInv, NEW q \in Requests, NEW r \in Returns, CreateInsert(q, r)
  PROVE  IInv'
<1>1. request[q] \in Held
  BY DEF IInv, TypeOK, Held
<1>2. request[q].line \in Lines /\ request[q].invoiced \in BOOLEAN
  BY <1>1 DEF Held
<1>3. /\ status' \in [Returns -> Statuses]
      /\ line' \in [Returns -> Lines]
      /\ invoiced' \in [Returns -> BOOLEAN]
  BY <1>2 DEF CreateInsert, IInv, TypeOK, Statuses
<1>4. unmoved' \subseteq Returns
  BY DEF CreateInsert, IInv, TypeOK
<1>5. UNCHANGED <<method, box, entry, trail, paid, onHand, moved, edit, raced, loose>>
  BY DEF CreateInsert, books, shelf
<1>6. EndRequest(q)
  BY DEF CreateInsert
<1>7. QED
  BY <1>3, <1>4, <1>5, <1>6, EndTyped DEF IInv, TypeOK, Bound, Held

LEMMA ApproveTyped ==
  ASSUME IInv, NEW q \in Requests, Approve(q)
  PROVE  IInv'
<1> DEFINE r == request[q].of
           l == request[q].line
<1>1. r \in Returns /\ l \in Lines
  BY DEF Approve, IInv, Bound, TypeOK
<1>2. UNCHANGED <<invoiced, line, method, box, entry, trail, paid, edit, unmoved, loose>>
  BY DEF Approve, books
<1>3. /\ status' = [status EXCEPT ![r] = "approved"]
      /\ raced' \subseteq raced \cup {r}
      /\ EndRequest(q)
  BY DEF Approve, RaceIf
<1>4. onHand' \in Nat /\ moved' \in [Returns -> Int]
  <2>1. l.qty \in Nat /\ onHand \in Nat /\ moved[r] \in Int
    BY <1>1, Zero DEF Lines, IInv, TypeOK
  <2>2. \/ UNCHANGED <<onHand, moved>>
        \/ onHand' = onHand + 2 * l.qty /\ moved' = [moved EXCEPT ![r] = moved[r] + l.qty]
    BY DEF Approve, AdjustStock, shelf
  <2> HIDE DEF r, l
  <2>3. onHand + 2 * l.qty \in Nat /\ moved[r] + l.qty \in Int
    BY <2>1
  <2>4. r \in Returns /\ onHand \in Nat /\ moved \in [Returns -> Int]
    BY <1>1 DEF IInv, TypeOK
  <2>5. QED
    BY <2>2, <2>3, <2>4
<1> HIDE DEF r, l
<1>5. status' \in [Returns -> Statuses] /\ raced' \subseteq Returns
  BY <1>1, <1>3 DEF IInv, TypeOK, Statuses
<1>6. QED
  BY <1>2, <1>3, <1>4, <1>5, EndTyped DEF IInv, TypeOK, Bound, Held

LEMMA RefundTyped ==
  ASSUME IInv, NEW q \in Requests, NEW how \in {"cash", "card"}, NEW b \in Drawers,
         Refund(q, how, b)
  PROVE  IInv'
<1> DEFINE r == request[q].of
           at == IF how = "cash" THEN b ELSE NoBox
<1>1. r \in Returns
  BY DEF Refund, IInv, Bound
<1>2. line[r].qty \in Pieces
  BY <1>1, ShelvedIsNat DEF IInv, TypeOK
<1>3. Target(how, b) \in Boxes
  BY TargetIsABox
<1>4. /\ status' = [status EXCEPT ![r] = "refunded"]
      /\ method' = [method EXCEPT ![r] = how]
      /\ box' = [box EXCEPT ![r] = at]
      /\ raced' \subseteq raced \cup {r}
      /\ EndRequest(q)
      /\ Post(r, Target(how, b), line[r].qty)
  BY DEF Refund, RaceIf
<1>5. UNCHANGED <<invoiced, line, onHand, moved, edit, unmoved, loose>>
  BY DEF Refund, shelf
<1> HIDE DEF r
<1>6. /\ entry' \in [Returns -> Posting \cup {NoEntry}]
      /\ trail' \in [Returns -> Seq(Posting)]
      /\ paid' \in [Returns -> [Boxes -> Int]]
  BY <1>1, <1>2, <1>3, <1>4, PostTyped DEF IInv
<1>7. status' \in [Returns -> Statuses] /\ raced' \subseteq Returns
  BY <1>1, <1>4 DEF IInv, TypeOK, Statuses
<1>8. /\ method' \in [Returns -> {"none", "cash", "card"}]
      /\ box' \in [Returns -> Drawers \cup {NoBox}]
  BY <1>1, <1>4 DEF IInv, TypeOK
<1>9. \A s \in Returns : method'[s] = "cash" => box'[s] \in Drawers
  BY <1>1, <1>4 DEF IInv, TypeOK, Bound
<1>10. QED
  BY <1>4, <1>5, <1>6, <1>7, <1>8, <1>9, EndTyped DEF IInv, TypeOK, Bound, Held

LEMMA RejectTyped ==
  ASSUME IInv, NEW q \in Requests, Reject(q)
  PROVE  IInv'
<1> DEFINE r == request[q].of
<1>1. r \in Returns
  BY DEF Reject, IInv, Bound
<1>2. /\ status' = [status EXCEPT ![r] = "rejected"]
      /\ raced' \subseteq raced \cup {r}
      /\ EndRequest(q)
  BY DEF Reject, RaceIf
<1>3. UNCHANGED <<invoiced, line, method, box, entry, trail, paid, onHand, moved, edit,
                  unmoved, loose>>
  BY DEF Reject, books, shelf
<1> HIDE DEF r
<1>4. status' \in [Returns -> Statuses] /\ raced' \subseteq Returns
  BY <1>1, <1>2 DEF IInv, TypeOK, Statuses
<1>5. QED
  BY <1>2, <1>3, <1>4, EndTyped DEF IInv, TypeOK, Bound, Held

LEMMA CancelTyped ==
  ASSUME IInv, NEW r \in Returns, Cancel(r)
  PROVE  IInv'
<1>1. UNCHANGED <<invoiced, line, method, box, edit, request, raced, unmoved, loose>>
  BY DEF Cancel, past
<1>2. status' \in [Returns -> Statuses]
  BY DEF Cancel, IInv, TypeOK, Statuses
<1>3. /\ entry' \in [Returns -> Posting \cup {NoEntry}]
      /\ trail' \in [Returns -> Seq(Posting)]
      /\ paid' \in [Returns -> [Boxes -> Int]]
  BY ReverseTyped DEF Cancel, IInv
<1>4. onHand' \in Nat /\ moved' \in [Returns -> Int]
  <2> DEFINE n == Shelved(line[r])
  <2>1. n \in Nat /\ onHand \in Nat /\ moved[r] \in Int
    BY ShelvedIsNat DEF IInv, TypeOK
  <2>2. /\ onHand >= n /\ onHand' = onHand + (-n)
        /\ moved' = [moved EXCEPT ![r] = moved[r] + (-n)]
    BY DEF Cancel, Movement
  <2> HIDE DEF n
  <2>3. onHand + (-n) \in Nat /\ moved[r] + (-n) \in Int
    BY <2>1, <2>2
  <2>4. QED
    BY <2>2, <2>3 DEF IInv, TypeOK
<1>5. QED
  BY <1>1, <1>2, <1>3, <1>4 DEF IInv, TypeOK, Bound, Held

LEMMA SellTyped == IInv /\ Sell => IInv'
<1> SUFFICES ASSUME IInv, Sell PROVE IInv'
  OBVIOUS
<1>1. UNCHANGED <<status, invoiced, line, method, box, entry, trail, paid, moved, edit,
                  request, raced, unmoved, loose>>
  BY DEF Sell, doc, books, past
<1>2. onHand' \in Nat
  BY DEF Sell, IInv, TypeOK
<1>3. QED
  BY <1>1, <1>2 DEF IInv, TypeOK, Bound, Held

(* An edit request that is written, reviewed or applied. *)
LEMMA EditTyped ==
  ASSUME IInv, NEW e \in EditRequests, NEW h \in Edits, h.of \in Returns,
         edit' = [edit EXCEPT ![e] = h]
  PROVE  /\ edit' \in [EditRequests -> Edits]
         /\ \A f \in EditRequests : edit'[f].status # "none" => edit'[f].of \in Returns
<1>1. edit \in [EditRequests -> Edits]
  BY DEF IInv, TypeOK, Edits
<1>2. edit'[e] = h /\ \A f \in EditRequests \ {e} : edit'[f] = edit[f]
  BY <1>1
<1>3. QED
  BY <1>1, <1>2 DEF IInv, Bound

LEMMA NewEditsAre == NewEdits \subseteq Payload
BY ReturnsAssumption

LEMMA CreateEditTyped ==
  ASSUME IInv, NEW e \in EditRequests, NEW r \in Returns, NEW p \in Payload,
         CreateEdit(e, r, p)
  PROVE  IInv'
<1> DEFINE h == [status |-> "pending", of |-> r, payload |-> p]
<1>1. h \in Edits /\ h.of \in Returns
  BY DEF Edits
<1>2. edit' = [edit EXCEPT ![e] = h]
  BY DEF CreateEdit
<1>3. UNCHANGED <<status, invoiced, line, method, box, entry, trail, paid, onHand, moved,
                  request, raced, unmoved, loose>>
  BY DEF CreateEdit, doc, books, shelf, past
<1> HIDE DEF h
<1>4. QED
  BY <1>1, <1>2, <1>3, EditTyped DEF IInv, TypeOK, Bound, Edits, Held

LEMMA ReviewTyped ==
  ASSUME IInv, NEW e \in EditRequests, NEW verdict \in {"approved", "rejected"},
         Review(e, verdict)
  PROVE  IInv'
<1> DEFINE h == [edit[e] EXCEPT !.status = verdict]
<1>1. edit[e] \in Edits /\ edit[e].of \in Returns
  BY DEF Review, IInv, Bound, TypeOK, Edits
<1>2. h \in Edits /\ h.of \in Returns
  BY <1>1 DEF Edits
<1>3. edit' = [edit EXCEPT ![e] = h]
  BY DEF Review
<1>4. UNCHANGED <<status, invoiced, line, method, box, entry, trail, paid, onHand, moved,
                  request, raced, unmoved, loose>>
  BY DEF Review, doc, books, shelf, past
<1> HIDE DEF h
<1>5. QED
  BY <1>2, <1>3, <1>4, EditTyped DEF IInv, TypeOK, Bound, Edits, Held

LEMMA EditedIsALine ==
  ASSUME NEW l \in Lines, NEW p \in Payload,
         p.kind = "update" => p.qty + l.again \in Pieces
  PROVE  Edited(l, p) \in Lines
<1>1. /\ p.kind \in {"update", "remove", "add"} /\ p.qty \in Pieces /\ p.qty \in Nat
      /\ l.qty \in Pieces /\ l.again \in Pieces /\ l.again \in Nat
  BY Zero DEF Payload, Lines
<1>2. CASE p.kind = "update"
  <2>1. Edited(l, p) = [l EXCEPT !.qty = p.qty + l.again]
    BY <1>2 DEF Edited
  <2>2. QED
    BY <1>1, <1>2, <2>1 DEF Lines
<1>3. CASE p.kind = "remove"
  <2>1. Edited(l, p) = IF l.again = 0 THEN NoLine
                       ELSE [l EXCEPT !.qty = l.again, !.again = 0]
    BY <1>3 DEF Edited
  <2>2. QED
    <3>1. CASE l.again = 0
      BY <2>1, <3>1, IdleTyped
    <3>2. CASE l.again # 0
      <4>1. Edited(l, p) = [l EXCEPT !.qty = l.again, !.again = 0]
        BY <2>1, <3>2
      <4>2. /\ l \in [qty : Pieces, again : Pieces, fate : Fates, linked : BOOLEAN]
            /\ 0 \in Pieces
        BY Zero DEF Lines
      <4>3. Edited(l, p) \in [qty : Pieces, again : Pieces, fate : Fates, linked : BOOLEAN]
        BY <1>1, <4>1, <4>2
      <4>4. Edited(l, p).again = 0 /\ Edited(l, p).qty = l.again
        BY <4>1, <4>2
      <4>5. QED
        BY <1>1, <4>3, <4>4 DEF Lines
    <3>3. QED
      BY <3>1, <3>2
<1>4. CASE p.kind = "add"
  <2>1. Edited(l, p) = [qty |-> p.qty, again |-> 0, fate |-> "shelf", linked |-> FALSE]
    BY <1>4 DEF Edited
  <2>2. QED
    BY <1>1, <2>1, Zero DEF Lines, Fates
<1>5. QED
  BY <1>1, <1>2, <1>3, <1>4

LEMMA ApplyTyped ==
  ASSUME IInv, NEW e \in EditRequests, ApplyEdit(e)
  PROVE  IInv'
<1> DEFINE r == edit[e].of
           new == Edited(line[r], edit[e].payload)
<1>1. edit[e] \in Edits /\ r \in Returns
  BY DEF ApplyEdit, IInv, Bound, TypeOK, Edits
<1>2. line[r] \in Lines /\ new \in Lines
  <2>1. line[r] \in Lines /\ edit[e].payload \in Payload
    BY <1>1 DEF IInv, TypeOK, Edits
  <2>2. edit[e].payload.kind = "update" => edit[e].payload.qty + line[r].again \in Pieces
    BY DEF ApplyEdit, Applicable
  <2>3. QED
    BY <2>1, <2>2, EditedIsALine
<1>3. UNCHANGED <<status, invoiced, method, box, request, raced>>
  BY DEF ApplyEdit
<1>4. /\ line' = [line EXCEPT ![r] = new]
      /\ edit' = [edit EXCEPT ![e] = [edit[e] EXCEPT !.status = "applied"]]
      /\ unmoved' \subseteq unmoved \cup {r}
      /\ loose' \in BOOLEAN
  BY DEF ApplyEdit
<1>5. /\ edit' \in [EditRequests -> Edits]
      /\ \A f \in EditRequests : edit'[f].status # "none" => edit'[f].of \in Returns
  <2> DEFINE done == [edit[e] EXCEPT !.status = "applied"]
  <2>1. done \in Edits /\ done.of = r
    BY <1>1 DEF Edits
  <2>2. edit \in [EditRequests -> Edits]
    BY DEF IInv, TypeOK, Edits
  <2>3. edit' = [edit EXCEPT ![e] = done]
    BY <1>4
  <2> HIDE DEF done, r
  <2>4. QED
    BY <1>1, <2>1, <2>2, <2>3 DEF IInv, Bound
<1>6. CASE status[r] = "refunded"
  <2>1. /\ onHand >= Shelved(line[r])
        /\ ReverseAndPost(r, Target(method[r], box[r]), new.qty)
        /\ Movement(r, Shelved(new) - Shelved(line[r]))
    BY <1>6 DEF ApplyEdit
  <2>2. Target(method[r], box[r]) \in Boxes
    BY <1>1, TargetIsABox DEF IInv, TypeOK, Bound
  <2>3. new.qty \in Pieces /\ Shelved(new) \in Nat /\ Shelved(line[r]) \in Nat
    BY <1>2, ShelvedIsNat
  <2> HIDE DEF new, r
  <2>4. /\ entry' \in [Returns -> Posting \cup {NoEntry}]
        /\ trail' \in [Returns -> Seq(Posting)]
        /\ paid' \in [Returns -> [Boxes -> Int]]
    BY <1>1, <2>1, <2>2, <2>3, ReverseAndPostTyped DEF IInv
  <2>5. onHand \in Nat /\ moved[r] \in Int
    BY <1>1 DEF IInv, TypeOK
  <2>6. onHand' \in Nat
    BY <2>1, <2>3, <2>5 DEF Movement
  <2>7. moved' \in [Returns -> Int]
    <3>1. moved[r] + (Shelved(new) - Shelved(line[r])) \in Int
      BY <2>3, <2>5
    <3>2. QED
      BY <1>1, <2>1, <3>1 DEF Movement, IInv, TypeOK
  <2>8. line' \in [Returns -> Lines] /\ unmoved' \subseteq Returns
    BY <1>1, <1>2, <1>4 DEF IInv, TypeOK
  <2>9. QED
    BY <1>3, <1>4, <1>5, <2>4, <2>6, <2>7, <2>8 DEF IInv, TypeOK, Bound, Edits, Held
<1>7. CASE status[r] # "refunded"
  <2>1. UNCHANGED <<entry, trail, paid, onHand, moved>>
    BY <1>7 DEF ApplyEdit, books, shelf
  <2> HIDE DEF new, r
  <2>2. line' \in [Returns -> Lines] /\ unmoved' \subseteq Returns
    BY <1>1, <1>2, <1>4 DEF IInv, TypeOK
  <2>3. QED
    BY <1>3, <1>4, <1>5, <2>1, <2>2 DEF IInv, TypeOK, Bound, Edits, Held
<1>8. QED
  BY <1>6, <1>7

LEMMA StepTyped == IInv /\ [Next]_vars => IInv'
<1>1. ASSUME IInv, UNCHANGED vars PROVE IInv'
  BY <1>1 DEF IInv, TypeOK, Bound, vars
<1>2. ASSUME IInv, NEW q \in Requests,
             \/ \E l \in NewLines : CreateCheck(q, l)
             \/ \E r \in Returns :
                  \/ CreateInsert(q, r)
                  \/ \E what \in DOMAIN From : Check(q, r, what)
             \/ ApproveRead(q) \/ Approve(q)
             \/ \E how \in {"cash", "card"}, b \in Drawers : Refund(q, how, b)
             \/ RefundFails(q) \/ Reject(q)
      PROVE  IInv'
  BY <1>2, CheckCreateTyped, InsertTyped, CheckTyped, ReadTyped, ApproveTyped,
     RefundTyped, RefundFailsTyped, RejectTyped
<1>3. ASSUME IInv, NEW e \in EditRequests,
             \/ \E r \in Returns, p \in Payload : CreateEdit(e, r, p)
             \/ \E verdict \in {"approved", "rejected"} : Review(e, verdict)
             \/ ApplyEdit(e)
      PROVE  IInv'
  BY <1>3, CreateEditTyped, ReviewTyped, ApplyTyped
<1>4. QED
  BY <1>1, <1>2, <1>3, CancelTyped, SellTyped, NewEditsAre DEF Next

(* Every row and request keeps its type: a request past its check names a   *)
(* return, a cash refund has the drawer it was paid from, and the stock row *)
(* never falls below zero, for any number of overlapping requests.          *)
THEOREM Typing == Spec => []TypeOK
<1>1. IInv => TypeOK
  BY DEF IInv
<1>2. QED
  BY InitTyped, StepTyped, <1>1, PTL DEF Spec
-----------------------------------------------------------------------------
(* What the books, the trail and the shelf say of one return. *)
CashOf(r) ==
  \A b \in Boxes :
    paid[r][b] = IF entry[r] # NoEntry /\ entry[r].box = b THEN entry[r].amount ELSE 0

BookedOf(r) ==
  LET amount == IF status[r] = "refunded" THEN line[r].qty ELSE 0 IN
  IF amount = 0 THEN entry[r] = NoEntry
  ELSE entry[r] = [box |-> Target(method[r], box[r]), amount |-> amount]

TrailOf(r) == trail[r] = IF entry[r] = NoEntry THEN << >> ELSE <<entry[r]>>

MovedOf(r) ==
  moved[r] = IF status[r] \in {"approved", "refunded"} THEN line[r].qty ELSE 0

Right(r) ==
  /\ CashOf(r)
  /\ r \notin raced => BookedOf(r)
  /\ r \notin raced /\ NotEdited(r) /\ status[r] # "cancelled" => TrailOf(r)
  /\ r \notin unmoved /\ line[r].qty > 0 => line[r].fate = "shelf"
  /\ r \notin raced \cup unmoved => MovedOf(r)

RInv == IInv /\ \A r \in Returns : Right(r)

(* What a step leaves alone at a return. *)
SameBooks(r) == entry'[r] = entry[r] /\ trail'[r] = trail[r] /\ paid'[r] = paid[r]
SameDoc(r)   == /\ status'[r] = status[r] /\ line'[r] = line[r]
                /\ method'[r] = method[r] /\ box'[r] = box[r]
EditsKept    == \A r \in Returns : NotEdited(r)' => NotEdited(r)
Older        == raced \subseteq raced' /\ unmoved \subseteq unmoved'

LEMMA Untouched ==
  ASSUME NEW r \in Returns, Right(r), SameBooks(r), SameDoc(r), EditsKept, Older,
         moved'[r] = moved[r]
  PROVE  Right(r)'
<1>1. CashOf(r)'
  BY DEF Right, CashOf, SameBooks
<1>2. BookedOf(r) => BookedOf(r)'
  BY DEF BookedOf, SameBooks, SameDoc, Target
<1>3. TrailOf(r) => TrailOf(r)'
  BY DEF TrailOf, SameBooks
<1>4. MovedOf(r) => MovedOf(r)'
  BY DEF MovedOf, SameDoc
<1>5. QED
  BY <1>1, <1>2, <1>3, <1>4 DEF Right, SameDoc, EditsKept, Older

-----------------------------------------------------------------------------
(* The cash follows the entry through a posting and a reversal. *)
LEMMA PostKeepsCash ==
  ASSUME TypeOK, NEW r \in Returns, NEW b \in Boxes, NEW n \in Pieces,
         CashOf(r), Post(r, b, n)
  PROVE  /\ CashOf(r)'
         /\ \A s \in Returns \ {r} : SameBooks(s)
<1> DEFINE e == [box |-> b, amount |-> n]
<1>1. e \in Posting /\ e # NoEntry /\ n \in Nat
  BY Zero, ReturnsAssumption DEF Posting
<1>2. CASE Posts(r, n)
  <2>1. /\ entry' = [entry EXCEPT ![r] = e]
        /\ trail' = [trail EXCEPT ![r] = Append(trail[r], e)]
        /\ paid' = [paid EXCEPT ![r] = [paid[r] EXCEPT ![b] = paid[r][b] + n]]
    BY <1>2 DEF Post
  <2>2. \A c \in Boxes : paid[r][c] = 0
    BY <1>2 DEF Posts, CashOf
  <2>3. paid[r] \in [Boxes -> Int]
    BY DEF TypeOK
  <2>4. \A c \in Boxes : paid'[r][c] = IF c = b THEN n ELSE 0
    BY <1>1, <2>1, <2>2, <2>3 DEF TypeOK
  <2>5. entry'[r] = e /\ e.box = b /\ e.amount = n
    BY <2>1 DEF TypeOK
  <2>6. CashOf(r)'
    BY <1>1, <2>4, <2>5 DEF CashOf
  <2>7. QED
    BY <2>1, <2>6 DEF SameBooks, TypeOK
<1>3. CASE ~Posts(r, n)
  BY <1>3 DEF Post, books, CashOf, SameBooks
<1>4. QED
  BY <1>2, <1>3

LEMMA NothingLeft ==
  ASSUME TypeOK, NEW r \in Returns, CashOf(r)
  PROVE  \A b \in Boxes : PaidAfterReversal(r)[b] = 0
<1>1. CASE entry[r] = NoEntry
  BY <1>1 DEF PaidAfterReversal, CashOf
<1>2. CASE entry[r] # NoEntry
  <2>1. entry[r].box \in Boxes /\ entry[r].amount \in Nat /\ paid[r] \in [Boxes -> Int]
    BY <1>2, Zero DEF TypeOK, Posting
  <2>2. paid[r][entry[r].box] = entry[r].amount
    BY <1>2, <2>1 DEF CashOf
  <2>3. QED
    BY <1>2, <2>1, <2>2 DEF CashOf, PaidAfterReversal
<1>3. QED
  BY <1>1, <1>2

LEMMA ReverseKeepsCash ==
  ASSUME TypeOK, NEW r \in Returns, CashOf(r), Reverse(r)
  PROVE  /\ CashOf(r)' /\ entry'[r] = NoEntry
         /\ \A s \in Returns \ {r} : SameBooks(s)
<1>1. entry'[r] = NoEntry /\ paid'[r] = PaidAfterReversal(r)
  BY DEF Reverse, TypeOK
<1>2. CashOf(r)'
  BY <1>1, NothingLeft DEF CashOf
<1>3. QED
  BY <1>1, <1>2 DEF Reverse, SameBooks, TypeOK

LEMMA ReverseAndPostKeepsCash ==
  ASSUME TypeOK, NEW r \in Returns, NEW b \in Boxes, NEW n \in Pieces,
         CashOf(r), ReverseAndPost(r, b, n)
  PROVE  /\ CashOf(r)'
         /\ entry'[r] = IF n = 0 THEN NoEntry ELSE [box |-> b, amount |-> n]
         /\ \A s \in Returns \ {r} : SameBooks(s)
<1> DEFINE e == [box |-> b, amount |-> n]
           p == [PaidAfterReversal(r) EXCEPT ![b] = PaidAfterReversal(r)[b] + n]
<1>1. e \in Posting /\ e # NoEntry /\ n \in Nat
  BY Zero, ReturnsAssumption DEF Posting
<1>2. CASE n = 0
  BY <1>2, ReverseKeepsCash DEF ReverseAndPost
<1>3. CASE n # 0
  <2>1. /\ entry' = [entry EXCEPT ![r] = e]
        /\ trail' = [trail EXCEPT ![r] = Append(trail[r], e)]
        /\ paid' = [paid EXCEPT ![r] = p]
    BY <1>3 DEF ReverseAndPost
  <2>2. \A c \in Boxes : p[c] = IF c = b THEN n ELSE 0
    BY <1>1, NothingLeft, ReversalTyped
  <2>3. entry'[r] = e /\ e.box = b /\ e.amount = n /\ paid'[r] = p
    BY <2>1 DEF TypeOK
  <2>4. CashOf(r)'
    BY <1>1, <2>2, <2>3 DEF CashOf
  <2>5. \A s \in Returns \ {r} : SameBooks(s)
    BY <2>1 DEF SameBooks, TypeOK
  <2>6. QED
    BY <1>3, <2>3, <2>4, <2>5
<1>4. QED
  BY <1>2, <1>3
-----------------------------------------------------------------------------
(* Every action keeps every return right. *)
LEMMA InitRight == Init => \A r \in Returns : Right(r)
BY DEF Init, Right, CashOf, BookedOf, TrailOf, MovedOf, NoLine

(* The actions that touch neither books nor shelf nor documents. *)
LEMMA QuietRight ==
  ASSUME RInv, UNCHANGED <<status, line, method, box, entry, trail, paid, moved, raced, unmoved>>,
         EditsKept
  PROVE  \A r \in Returns : Right(r)'
BY Untouched DEF RInv, SameBooks, SameDoc, Older

LEMMA InsertRight ==
  ASSUME RInv, NEW q \in Requests, NEW r \in Returns, CreateInsert(q, r)
  PROVE  \A s \in Returns : Right(s)'
<1>1. /\ status[r] = "none" /\ status' = [status EXCEPT ![r] = "pending"]
      /\ line' = [line EXCEPT ![r] = request[q].line]
      /\ UNCHANGED <<method, box, entry, trail, paid, moved, raced, edit>>
      /\ unmoved' = IF request[q].line.fate = "shelf" THEN unmoved ELSE unmoved \cup {r}
  BY DEF CreateInsert, books, shelf
<1>2. status'[r] = "pending" /\ line'[r] = request[q].line
  BY <1>1 DEF RInv, IInv, TypeOK
<1>3. EditsKept /\ Older
  BY <1>1 DEF EditsKept, Older, NotEdited
<1>4. \A s \in Returns \ {r} : SameBooks(s) /\ SameDoc(s) /\ moved'[s] = moved[s]
  BY <1>1 DEF SameBooks, SameDoc, RInv, IInv, TypeOK
<1>5. \A s \in Returns \ {r} : Right(s)'
  BY <1>3, <1>4, Untouched DEF RInv
<1>6. Right(r)'
  <2>1. Right(r)
    BY DEF RInv
  <2>2. CashOf(r)'
    BY <1>1, <2>1 DEF Right, CashOf
  <2>3. r \notin raced => BookedOf(r)'
    BY <1>1, <1>2, <2>1 DEF Right, BookedOf
  <2>4. r \notin raced /\ NotEdited(r) => TrailOf(r)'
    BY <1>1, <2>1 DEF Right, TrailOf
  <2>5. r \notin unmoved' => line'[r].fate = "shelf"
    BY <1>1, <1>2
  <2>6. r \notin raced \cup unmoved => MovedOf(r)'
    BY <1>1, <1>2, <2>1 DEF Right, MovedOf
  <2>7. QED
    BY <1>1, <1>2, <1>3, <2>2, <2>3, <2>4, <2>5, <2>6 DEF Right, EditsKept, Older
<1>7. QED
  BY <1>5, <1>6

LEMMA ApproveRight ==
  ASSUME RInv, NEW q \in Requests, Approve(q)
  PROVE  \A s \in Returns : Right(s)'
<1>0. request[q].of \in Returns /\ request[q].line \in Lines
  BY DEF Approve, RInv, IInv, Bound, TypeOK
<1>1. PICK r \in Returns, l \in Lines : r = request[q].of /\ l = request[q].line
  BY <1>0
<1>2. /\ status' = [status EXCEPT ![r] = "approved"]
      /\ IF l.fate = "shelf" THEN AdjustStock(r, l.qty) ELSE UNCHANGED shelf
      /\ raced' = IF status[r] # "pending" \/ l # line[r] THEN raced \cup {r} ELSE raced
      /\ UNCHANGED <<line, method, box, entry, trail, paid, edit, unmoved>>
  BY <1>1 DEF Approve, RaceIf, From, books
<1>3. EditsKept /\ Older
  BY <1>2 DEF EditsKept, Older, NotEdited
<1>4. \A s \in Returns \ {r} : SameBooks(s) /\ SameDoc(s) /\ moved'[s] = moved[s]
  BY <1>1, <1>2 DEF SameBooks, SameDoc, RInv, IInv, TypeOK, AdjustStock, shelf
<1>5. \A s \in Returns \ {r} : Right(s)'
  BY <1>3, <1>4, Untouched DEF RInv
<1>6. Right(r)'
  <2>1. Right(r) /\ status'[r] = "approved" /\ moved[r] \in Int /\ line[r].qty \in Nat
    BY <1>1, <1>2, ShelvedIsNat DEF RInv, IInv, TypeOK
  <2>2. CashOf(r)'
    BY <1>2, <2>1 DEF Right, CashOf
  <2>3. r \notin raced' => status[r] = "pending" /\ l = line[r] /\ r \notin raced
    BY <1>2
  <2>4. r \notin raced' => BookedOf(r)'
    BY <1>2, <2>1, <2>3 DEF Right, BookedOf
  <2>5. r \notin raced' /\ NotEdited(r) => TrailOf(r)'
    BY <1>2, <2>1, <2>3 DEF Right, TrailOf
  <2>6. ASSUME r \notin raced' \cup unmoved' PROVE MovedOf(r)'
    <3>1. moved[r] = 0 /\ l = line[r]
      BY <1>2, <2>1, <2>3, <2>6 DEF Right, MovedOf
    <3>2. CASE l.fate = "shelf"
      BY <1>1, <1>2, <2>1, <3>1, <3>2 DEF AdjustStock, MovedOf, RInv, IInv, TypeOK
    <3>3. CASE l.fate # "shelf"
      <4>1. line[r].qty = 0
        BY <1>2, <2>1, <2>6, <3>1, <3>3 DEF Right
      <4>2. QED
        BY <1>2, <2>1, <3>1, <3>3, <4>1 DEF shelf, MovedOf
    <3>4. QED
      BY <3>2, <3>3
  <2>7. QED
    BY <1>2, <1>3, <2>1, <2>2, <2>4, <2>5, <2>6 DEF Right, EditsKept, Older
<1>7. QED
  BY <1>5, <1>6

LEMMA RefundRight ==
  ASSUME RInv, NEW q \in Requests, NEW how \in {"cash", "card"}, NEW b \in Drawers,
         Refund(q, how, b)
  PROVE  \A s \in Returns : Right(s)'
<1>1. PICK r \in Returns : r = request[q].of
  BY DEF Refund, RInv, IInv, Bound
<1> DEFINE at == IF how = "cash" THEN b ELSE NoBox
           e == [box |-> Target(how, b), amount |-> line[r].qty]
<1>2. /\ status' = [status EXCEPT ![r] = "refunded"]
      /\ method' = [method EXCEPT ![r] = how]
      /\ box' = [box EXCEPT ![r] = at]
      /\ raced' = IF status[r] # "approved" THEN raced \cup {r} ELSE raced
      /\ Post(r, Target(how, b), line[r].qty)
      /\ UNCHANGED <<line, moved, edit, unmoved>>
  BY <1>1 DEF Refund, RaceIf, From, shelf
<1>3. line[r].qty \in Pieces /\ line[r].qty \in Nat /\ Target(how, b) \in Boxes
  BY <1>1, ShelvedIsNat, TargetIsABox DEF RInv, IInv, TypeOK
<1>4. Target(how, at) = Target(how, b) /\ e # NoEntry
  BY <1>3, ReturnsAssumption DEF Target, Posting
<1> HIDE DEF at
<1>5. EditsKept /\ Older
  BY <1>2 DEF EditsKept, Older, NotEdited
<1>6. CashOf(r)' /\ \A s \in Returns \ {r} : SameBooks(s)
  BY <1>1, <1>2, <1>3, PostKeepsCash DEF RInv, IInv, Right
<1>7. \A s \in Returns \ {r} : SameDoc(s) /\ moved'[s] = moved[s]
  BY <1>1, <1>2 DEF SameDoc, RInv, IInv, TypeOK
<1>8. \A s \in Returns \ {r} : Right(s)'
  BY <1>5, <1>6, <1>7, Untouched DEF RInv
<1>9. Right(r)'
  <2>1. /\ Right(r) /\ status'[r] = "refunded" /\ method'[r] = how /\ box'[r] = at
        /\ line'[r] = line[r]
    BY <1>1, <1>2 DEF RInv, IInv, TypeOK
  <2>2. ASSUME r \notin raced'
        PROVE  /\ status[r] = "approved" /\ r \notin raced /\ entry[r] = NoEntry
               /\ entry'[r] = (IF line[r].qty = 0 THEN NoEntry ELSE e)
               /\ trail'[r] = (IF line[r].qty = 0 THEN trail[r] ELSE Append(trail[r], e))
    <3>1. status[r] = "approved" /\ r \notin raced
      BY <1>2, <2>2
    <3>2. entry[r] = NoEntry
      BY <2>1, <3>1 DEF Right, BookedOf
    <3>3. CASE line[r].qty = 0
      BY <1>2, <3>1, <3>2, <3>3 DEF Post, Posts, books
    <3>4. CASE line[r].qty # 0
      <4>1. Posts(r, line[r].qty)
        BY <1>3, <3>2, <3>4 DEF Posts
      <4>2. entry' = [entry EXCEPT ![r] = e] /\ trail' = [trail EXCEPT ![r] = Append(trail[r], e)]
        BY <1>2, <4>1 DEF Post
      <4>3. QED
        BY <1>1, <3>1, <3>2, <3>4, <4>2 DEF RInv, IInv, TypeOK
    <3>5. QED
      BY <3>3, <3>4
  <2>3. r \notin raced' => BookedOf(r)'
    BY <1>4, <2>1, <2>2 DEF BookedOf
  <2>4. ASSUME r \notin raced', NotEdited(r)
        PROVE  TrailOf(r)'
    <3>1. trail[r] = << >>
      BY <2>1, <2>2, <2>4 DEF Right, TrailOf
    <3>2. Append(<< >>, e) = <<e>>
      OBVIOUS
    <3>3. QED
      BY <1>4, <2>2, <2>4, <3>1, <3>2 DEF TrailOf
  <2>5. r \notin raced' \cup unmoved' => MovedOf(r)'
    BY <1>2, <2>1, <2>2 DEF Right, MovedOf
  <2>6. QED
    BY <1>2, <1>5, <1>6, <2>1, <2>3, <2>4, <2>5 DEF Right, EditsKept, Older
<1>10. QED
  BY <1>8, <1>9

LEMMA RejectRight ==
  ASSUME RInv, NEW q \in Requests, Reject(q)
  PROVE  \A s \in Returns : Right(s)'
<1>1. PICK r \in Returns : r = request[q].of
  BY DEF Reject, RInv, IInv, Bound
<1>2. /\ status' = [status EXCEPT ![r] = "rejected"]
      /\ raced' = IF status[r] # "pending" THEN raced \cup {r} ELSE raced
      /\ UNCHANGED <<line, method, box, entry, trail, paid, moved, edit, unmoved>>
  BY <1>1 DEF Reject, RaceIf, From, books, shelf
<1>3. EditsKept /\ Older
  BY <1>2 DEF EditsKept, Older, NotEdited
<1>4. \A s \in Returns \ {r} : SameBooks(s) /\ SameDoc(s) /\ moved'[s] = moved[s]
  BY <1>2 DEF SameBooks, SameDoc, RInv, IInv, TypeOK
<1>5. \A s \in Returns \ {r} : Right(s)'
  BY <1>3, <1>4, Untouched DEF RInv
<1>6. Right(r)'
  <2>1. Right(r) /\ status'[r] = "rejected"
    BY <1>2 DEF RInv, IInv, TypeOK
  <2>2. CashOf(r)'
    BY <1>2, <2>1 DEF Right, CashOf
  <2>3. r \notin raced' => status[r] = "pending" /\ r \notin raced
    BY <1>2
  <2>4. r \notin raced' => BookedOf(r)'
    BY <1>2, <2>1, <2>3 DEF Right, BookedOf
  <2>5. r \notin raced' /\ NotEdited(r) => TrailOf(r)'
    BY <1>2, <2>1, <2>3 DEF Right, TrailOf
  <2>6. r \notin raced' \cup unmoved' => MovedOf(r)'
    BY <1>2, <2>1, <2>3 DEF Right, MovedOf
  <2>7. QED
    BY <1>2, <1>3, <2>1, <2>2, <2>4, <2>5, <2>6 DEF Right, EditsKept, Older
<1>7. QED
  BY <1>5, <1>6

(* Pieces of a line that was resellable, or is gone, are on the shelf. *)
LEMMA ShelvedIsTheLine ==
  ASSUME NEW l \in Lines, l.qty > 0 => l.fate = "shelf"
  PROVE  Shelved(l) = l.qty
BY ShelvedIsNat DEF Shelved

LEMMA CancelRight ==
  ASSUME RInv, NEW r \in Returns, Cancel(r)
  PROVE  \A s \in Returns : Right(s)'
<1>1. /\ status[r] \in {"approved", "refunded"}
      /\ status' = [status EXCEPT ![r] = "cancelled"]
      /\ Reverse(r) /\ moved' = [moved EXCEPT ![r] = moved[r] + (-Shelved(line[r]))]
      /\ UNCHANGED <<line, method, box, edit, raced, unmoved>>
  BY DEF Cancel, Movement, past
<1>2. EditsKept /\ Older
  BY <1>1 DEF EditsKept, Older, NotEdited
<1>3. CashOf(r)' /\ entry'[r] = NoEntry /\ \A s \in Returns \ {r} : SameBooks(s)
  BY <1>1, ReverseKeepsCash DEF RInv, IInv, Right
<1>4. \A s \in Returns \ {r} : SameDoc(s) /\ moved'[s] = moved[s]
  BY <1>1 DEF SameDoc, RInv, IInv, TypeOK
<1>5. \A s \in Returns \ {r} : Right(s)'
  BY <1>2, <1>3, <1>4, Untouched DEF RInv
<1>6. Right(r)'
  <2>1. /\ Right(r) /\ status'[r] = "cancelled"
        /\ moved'[r] = moved[r] + (-Shelved(line[r])) /\ moved[r] \in Int
    BY <1>1 DEF RInv, IInv, TypeOK
  <2>2. BookedOf(r)'
    BY <1>3, <2>1 DEF BookedOf
  <2>3. ASSUME r \notin raced \cup unmoved PROVE MovedOf(r)'
    <3>1. line[r] \in Lines /\ line[r].qty \in Nat
      BY ShelvedIsNat DEF RInv, IInv, TypeOK
    <3>2. moved[r] = line[r].qty /\ Shelved(line[r]) = line[r].qty
      BY <1>1, <2>1, <2>3, <3>1, ShelvedIsTheLine DEF Right, MovedOf
    <3>3. moved'[r] = 0
      BY <2>1, <3>1, <3>2
    <3>4. QED
      BY <2>1, <3>3 DEF MovedOf
  <2>4. QED
    BY <1>1, <1>3, <2>1, <2>2, <2>3 DEF Right
<1>7. QED
  BY <1>5, <1>6

LEMMA ApplyRight ==
  ASSUME RInv, NEW e \in EditRequests, ApplyEdit(e)
  PROVE  \A s \in Returns : Right(s)'
<1>1. edit[e].of \in Returns /\ edit[e].payload \in Payload /\ edit \in [EditRequests -> Edits]
  BY DEF ApplyEdit, RInv, IInv, Bound, TypeOK, Edits
<1>2. PICK r \in Returns : r = edit[e].of
  BY <1>1
<1>3. PICK new \in Lines : new = Edited(line[r], edit[e].payload)
  <2>1. line[r] \in Lines
    BY DEF RInv, IInv, TypeOK
  <2>2. edit[e].payload.kind = "update" => edit[e].payload.qty + line[r].again \in Pieces
    BY <1>2 DEF ApplyEdit, Applicable
  <2>3. QED
    BY <1>1, <2>1, <2>2, EditedIsALine
<1>4. /\ line' = [line EXCEPT ![r] = new]
      /\ edit' = [edit EXCEPT ![e] = [edit[e] EXCEPT !.status = "applied"]]
      /\ edit[e].status = "approved" /\ Applicable(r, edit[e].payload)
      /\ unmoved' = IF status[r] = "approved" THEN unmoved \cup {r} ELSE unmoved
      /\ UNCHANGED <<status, method, box, raced>>
  BY <1>2, <1>3 DEF ApplyEdit
<1>5. EditsKept /\ Older /\ ~NotEdited(r)'
  <2>1. edit'[e].status = "applied" /\ edit'[e].of = r
    BY <1>1, <1>2, <1>4 DEF Edits
  <2>2. \A f \in EditRequests \ {e} : edit'[f] = edit[f]
    BY <1>1, <1>4
  <2>3. QED
    BY <1>4, <2>1, <2>2 DEF EditsKept, Older, NotEdited
<1>6. \A s \in Returns \ {r} : SameDoc(s)
  BY <1>4 DEF SameDoc, RInv, IInv, TypeOK
<1>7. /\ Right(r) /\ line'[r] = new /\ moved[r] \in Int
      /\ line[r] \in Lines /\ line[r].qty \in Nat /\ new.qty \in Pieces /\ new.qty \in Nat
  BY <1>4, ShelvedIsNat DEF RInv, IInv, TypeOK
<1>8. r \notin unmoved /\ new.qty > 0 => new.fate = "shelf"
  <2>1. edit[e].payload.kind = "update" => line[r].qty > 0 /\ new.fate = line[r].fate
    BY <1>3, <1>4, <1>7 DEF Applicable, Edited, Lines
  <2>2. edit[e].payload.kind = "remove" => new.qty = 0 \/ (line[r].qty > 0 /\ new.fate = line[r].fate)
    <3>1. ASSUME edit[e].payload.kind = "remove", line[r].again # 0
          PROVE  line[r].qty > 0
      BY <1>7, <3>1, Zero DEF Lines
    <3>2. QED
      BY <1>3, <1>7, <3>1 DEF Edited, NoLine, Lines
  <2>3. edit[e].payload.kind = "add" => new.fate = "shelf"
    BY <1>3 DEF Edited
  <2>4. QED
    BY <1>1, <1>7, <2>1, <2>2, <2>3 DEF Payload, Right
<1>9. CASE status[r] = "refunded"
  <2>1. /\ ReverseAndPost(r, Target(method[r], box[r]), new.qty)
        /\ moved' = [moved EXCEPT ![r] = moved[r] + (Shelved(new) - Shelved(line[r]))]
    BY <1>2, <1>3, <1>9 DEF ApplyEdit, Movement
  <2>2. PICK b \in Boxes : b = Target(method[r], box[r])
    BY TargetIsABox DEF RInv, IInv, TypeOK, Bound
  <2>3. /\ CashOf(r)' /\ \A s \in Returns \ {r} : SameBooks(s)
        /\ entry'[r] = IF new.qty = 0 THEN NoEntry ELSE [box |-> b, amount |-> new.qty]
    BY <1>7, <2>1, <2>2, ReverseAndPostKeepsCash DEF RInv, IInv, Right
  <2>4. \A s \in Returns \ {r} : Right(s)'
    BY <1>5, <1>6, <2>1, <2>3, Untouched DEF RInv, IInv, TypeOK
  <2>5. BookedOf(r)'
    BY <1>4, <1>7, <1>9, <2>2, <2>3 DEF BookedOf, Target
  <2>6. ASSUME r \notin raced \cup unmoved PROVE MovedOf(r)'
    <3>1. Shelved(new) = new.qty /\ Shelved(line[r]) = line[r].qty /\ moved[r] = line[r].qty
      BY <1>7, <1>8, <1>9, <2>6, ShelvedIsTheLine DEF Right, MovedOf
    <3>2. moved'[r] = moved[r] + (Shelved(new) - Shelved(line[r]))
      BY <2>1 DEF RInv, IInv, TypeOK
    <3>3. moved'[r] = new.qty
      BY <1>7, <3>1, <3>2
    <3>4. QED
      BY <1>4, <1>7, <1>9, <3>3 DEF MovedOf
  <2>7. Right(r)'
    BY <1>4, <1>5, <1>7, <1>8, <1>9, <2>3, <2>5, <2>6 DEF Right
  <2>8. QED
    BY <2>4, <2>7
<1>10. CASE status[r] # "refunded"
  <2>1. UNCHANGED <<entry, trail, paid, moved>>
    BY <1>2, <1>10 DEF ApplyEdit, books, shelf
  <2>2. \A s \in Returns \ {r} : Right(s)'
    BY <1>5, <1>6, <2>1, Untouched DEF RInv, SameBooks
  <2>3. CashOf(r)'
    BY <1>7, <2>1 DEF Right, CashOf
  <2>4. r \notin raced => BookedOf(r)'
    BY <1>4, <1>7, <1>10, <2>1 DEF Right, BookedOf
  <2>5. r \notin raced' \cup unmoved' => MovedOf(r)'
    BY <1>4, <1>7, <1>10, <2>1 DEF Right, MovedOf
  <2>6. Right(r)'
    BY <1>4, <1>5, <1>7, <1>8, <2>3, <2>4, <2>5 DEF Right
  <2>7. QED
    BY <2>2, <2>6
<1>11. QED
  BY <1>9, <1>10

LEMMA StepRight == RInv /\ [Next]_vars => RInv'
<1> SUFFICES ASSUME RInv, [Next]_vars PROVE \A s \in Returns : Right(s)'
  BY StepTyped DEF RInv
<1>1. CASE UNCHANGED vars
  <2>1. EditsKept
    BY <1>1 DEF vars, EditsKept, NotEdited
  <2>2. QED
    BY <1>1, <2>1, QuietRight DEF vars
<1>2. ASSUME NEW q \in Requests, NEW l \in NewLines, CreateCheck(q, l)
      PROVE  \A s \in Returns : Right(s)'
  BY <1>2, QuietRight DEF CreateCheck, doc, books, shelf, EditsKept, NotEdited
<1>3. ASSUME NEW q \in Requests, NEW r \in Returns, NEW what \in DOMAIN From,
             Check(q, r, what)
      PROVE  \A s \in Returns : Right(s)'
  BY <1>3, QuietRight DEF Check, doc, books, shelf, past, EditsKept, NotEdited
<1>4. ASSUME NEW q \in Requests, ApproveRead(q) \/ RefundFails(q)
      PROVE  \A s \in Returns : Right(s)'
  BY <1>4, QuietRight
     DEF ApproveRead, RefundFails, doc, books, shelf, past, EditsKept, NotEdited
<1>5. CASE Sell
  BY <1>5, QuietRight DEF Sell, doc, books, past, EditsKept, NotEdited
<1>6. ASSUME NEW e \in EditRequests, NEW r \in Returns, NEW p \in Payload,
             CreateEdit(e, r, p)
      PROVE  \A s \in Returns : Right(s)'
  <2>1. /\ edit[e].status = "none"
        /\ edit' = [edit EXCEPT ![e] = [status |-> "pending", of |-> r, payload |-> p]]
    BY <1>6 DEF CreateEdit
  <2>2. EditsKept
    BY <2>1 DEF EditsKept, NotEdited, RInv, IInv, TypeOK
  <2>3. QED
    BY <1>6, <2>2, QuietRight DEF CreateEdit, doc, books, shelf, past
<1>7. ASSUME NEW e \in EditRequests, NEW verdict \in {"approved", "rejected"},
             Review(e, verdict)
      PROVE  \A s \in Returns : Right(s)'
  <2>1. /\ edit[e].status = "pending"
        /\ edit' = [edit EXCEPT ![e] = [edit[e] EXCEPT !.status = verdict]]
    BY <1>7 DEF Review
  <2>2. EditsKept
    BY <2>1 DEF EditsKept, NotEdited, RInv, IInv, TypeOK
  <2>3. QED
    BY <1>7, <2>2, QuietRight DEF Review, doc, books, shelf, past
<1>8. ASSUME NEW q \in Requests,
             \/ \E l \in NewLines : CreateCheck(q, l)
             \/ \E r \in Returns :
                  \/ CreateInsert(q, r)
                  \/ \E what \in DOMAIN From : Check(q, r, what)
             \/ ApproveRead(q) \/ Approve(q)
             \/ \E how \in {"cash", "card"}, b \in Drawers : Refund(q, how, b)
             \/ RefundFails(q) \/ Reject(q)
      PROVE  \A s \in Returns : Right(s)'
  BY <1>8, <1>2, <1>3, <1>4, InsertRight, ApproveRight, RefundRight, RejectRight
<1>9. ASSUME NEW e \in EditRequests,
             \/ \E r \in Returns, p \in Payload : CreateEdit(e, r, p)
             \/ \E verdict \in {"approved", "rejected"} : Review(e, verdict)
             \/ ApplyEdit(e)
      PROVE  \A s \in Returns : Right(s)'
  BY <1>9, <1>6, <1>7, ApplyRight
<1>10. QED
  BY <1>1, <1>5, <1>8, <1>9, CancelRight, NewEditsAre DEF Next

-----------------------------------------------------------------------------
(* RInv is inductive; the four properties of the runs are parts of it. *)
LEMMA AlwaysRight == Spec => []RInv
<1>1. Init => RInv
  BY InitTyped, InitRight DEF RInv
<1>2. QED
  BY <1>1, StepRight, PTL DEF Spec

(* Whatever requests overlap, a return is never paid twice: the cash that is *)
(* out for it is its live journal entry, in the same cashbox (refund,        *)
(* cancel and the edits, through postReturn and reverseByReference).         *)
THEOREM PaidAsBooked == Spec => []CashMatchesEntry
<1>1. RInv => CashMatchesEntry
  BY DEF RInv, Right, CashOf, CashMatchesEntry
<1>2. QED
  BY AlwaysRight, <1>1, PTL

(* A return no stale request wrote is booked as its status and its items     *)
(* say, after any sequence of refunds, edits and cancellations.              *)
THEOREM BookedAsDocumented == Spec => []BookedAsItStands
<1>1. RInv => BookedAsItStands
  BY DEF RInv, Right, BookedOf, BookedAsItStands
<1>2. QED
  BY AlwaysRight, <1>1, PTL

(* The movements of a resellable return, of any number of pieces, are what   *)
(* its document says went back to the shelf.                                 *)
THEOREM MovedAsDocumented == Spec => []MovementsMatchReturn
<1>1. RInv => MovementsMatchReturn
  BY DEF RInv, Right, MovedOf, MovementsMatchReturn
<1>2. QED
  BY AlwaysRight, <1>1, PTL

(* The alignment guards never refuse the reversal of a refund that was       *)
(* neither edited nor written by a stale request.                            *)
THEOREM ReversalIsOpen == Spec => []RefundCanBeReversed
<1>1. RInv => RefundCanBeReversed
  <2> SUFFICES ASSUME RInv, NEW r \in Returns \ raced, NotEdited(r) PROVE Reversible(r)
    BY DEF RefundCanBeReversed
  <2>1. Right(r)
    BY DEF RInv
  <2>2. CASE status[r] = "cancelled"
    BY <2>1, <2>2 DEF Right, BookedOf, Reversible
  <2>3. CASE status[r] # "cancelled"
    BY <2>1, <2>3 DEF Right, TrailOf, Reversible
  <2>4. QED
    BY <2>2, <2>3
<1>2. QED
  BY AlwaysRight, <1>1, PTL

-----------------------------------------------------------------------------
(* One return of the invoice line after the other: while none was requested *)
(* over another that still waits, at most one is pending or being created,  *)
(* and it fits into what is left beside the ones that are counted.          *)
Asking   == {r \in Returns : line[r].linked /\ status[r] = "pending"}
Creating == {q \in Requests : request[q].pc = "creating" /\ request[q].line.linked}

OneAsks ==
  /\ \A r, s \in Asking : r = s
  /\ \A p, q \in Creating : p = q
  /\ Asking = {} \/ Creating = {}

Fits ==
  /\ Returned <= Sold
  /\ \A r \in Asking : Returned + line[r].qty <= Sold
  /\ \A q \in Creating : Returned + request[q].line.qty <= Sold

OneAtATime == ~loose /\ raced = {} => OneAsks /\ Fits

(* What a return has of the line, and what it asks for. *)
Share(r) == IF r \in Counted THEN line[r].qty ELSE 0
Claim(r) == IF r \in Asking THEN line[r].qty ELSE 0

Numbers ==
  /\ Returned \in Nat /\ IsFiniteSet(Counted)
  /\ Returned = SumOver([r \in Returns |-> line[r].qty], Counted)
  /\ \A r \in Returns : line[r].qty \in Nat /\ Share(r) \in Nat /\ Claim(r) \in Nat
  /\ \A q \in Requests : request[q].line.qty \in Nat

LEMMA NumbersHold == IInv => Numbers
<1> SUFFICES ASSUME IInv
             PROVE  Numbers
  OBVIOUS
<1>1. \A r \in Returns : line[r].qty \in Nat
  BY Zero DEF IInv, TypeOK, Lines
<1>2. \A q \in Requests : request[q].line.qty \in Nat
  BY Zero DEF IInv, TypeOK, Lines
<1>3. IsFiniteSet(Counted) /\ Counted \subseteq Returns
  BY ReturnsAssumption, FS_Subset DEF Counted
<1>4. Returned = SumOver([r \in Returns |-> line[r].qty], Counted)
  BY DEF Returned, SumFunctionOnSet, FoldFunctionOnSet, SumOver
<1>5. SumOver([r \in Returns |-> line[r].qty], Counted) \in Nat
  BY <1>1, <1>3, SumIsNat
<1>6. QED
  BY <1>1, <1>2, <1>3, <1>4, <1>5 DEF Numbers, Share, Claim

LEMMA NumbersStay == IInv' => Numbers'
  BY NumbersHold, PTL

(* What is counted changes by the share of the one return that changes.     *)
LEMMA ReturnedMoves ==
  ASSUME IInv, IInv', NEW r \in Returns,
         \A s \in Returns \ {r} : line'[s] = line[s] /\ status'[s] = status[s]
  PROVE  Returned' = Returned + Share(r)' - Share(r)
<1> DEFINE f == [s \in Returns |-> line[s].qty]
           g == [s \in Returns |-> line'[s].qty]
<1>1. /\ Returned = SumOver(f, Counted) /\ Returned' = SumOver(g, Counted')
      /\ IsFiniteSet(Counted) /\ IsFiniteSet(Counted')
  BY NumbersHold, NumbersStay DEF Numbers
<1>2. \A s \in Returns : f[s] \in Int /\ g[s] \in Int
  BY NumbersHold, NumbersStay DEF Numbers
<1>3. Counted \subseteq Returns /\ Counted' \subseteq Returns
  BY DEF Counted
<1>4. Counted \ {r} = Counted' \ {r}
  BY DEF Counted
<1>5. \A s \in Counted \ {r} : g[s] = f[s]
  BY <1>3
<1>6. SumOver(g, Counted') = SumOver(f, Counted)
                               + (IF r \in Counted' THEN g[r] ELSE 0)
                               - (IF r \in Counted THEN f[r] ELSE 0)
  <2> HIDE DEF f, g
  <2>1. (\A s \in Counted : f[s] \in Int) /\ (\A s \in Counted' : g[s] \in Int)
    BY <1>2, <1>3
  <2>2. QED
    BY <1>1, <1>4, <1>5, <2>1, SumMove
<1>7. QED
  BY <1>1, <1>6 DEF Share

(* Nobody asks, nothing is counted that was not. *)
LEMMA QuietFits ==
  ASSUME OneAtATime, ~loose' /\ raced' = {} => ~loose /\ raced = {},
         line' = line, status' = status,
         \A q \in Requests : request'[q].pc = "creating" => request'[q] = request[q]
  PROVE  OneAtATime'
<1>1. Counted' = Counted /\ Asking' = Asking
  BY DEF Counted, Asking
<1>2. Returned' = Returned
  BY <1>1 DEF Returned
<1>3. \A q \in Creating' : q \in Creating /\ request'[q] = request[q]
  BY DEF Creating
<1>4. QED
  BY <1>1, <1>2, <1>3 DEF OneAtATime, OneAsks, Fits

(* A return that moves on asks for no more than before, and is counted for  *)
(* no more than it was or asked for.                                        *)
LEMMA MovesFit ==
  ASSUME IInv, IInv', OneAtATime, ~loose' /\ raced' = {} => ~loose /\ raced = {},
         NEW r \in Returns,
         \A s \in Returns \ {r} : line'[s] = line[s] /\ status'[s] = status[s],
         \A q \in Requests : request'[q].pc = "creating" => request'[q] = request[q],
         ~loose' /\ raced' = {} =>
           /\ r \in Asking' => r \in Asking
           /\ Share(r)' + Claim(r)' <= Share(r) + Claim(r)
           /\ Share(r)' <= Share(r) \/ r \in Asking
  PROVE  OneAtATime'
<1> SUFFICES ASSUME ~loose', raced' = {}
             PROVE  OneAsks' /\ Fits'
  BY DEF OneAtATime
<1>1. OneAsks /\ Fits
  BY DEF OneAtATime
<1>2. Returned' = Returned + Share(r)' - Share(r)
  BY ReturnedMoves
<1>3. /\ Returned \in Nat /\ Returned' \in Nat
      /\ Share(r) \in Nat /\ Share(r)' \in Nat /\ Claim(r) \in Nat /\ Claim(r)' \in Nat
      /\ \A s \in Returns : line[s].qty \in Nat /\ line'[s].qty \in Nat
      /\ \A q \in Requests : request[q].line.qty \in Nat
  BY NumbersHold, NumbersStay DEF Numbers
<1>4. Sold \in Nat
  BY ReturnsAssumption
<1>5. /\ \A s \in Asking' : s \in Asking /\ (s = r \/ line'[s] = line[s])
      /\ \A q \in Creating' : q \in Creating /\ request'[q] = request[q]
  BY DEF Asking, Creating
<1>6. OneAsks'
  BY <1>1, <1>5 DEF OneAsks
<1>7. CASE r \in Asking
  <2>1. Share(r) = 0 /\ Claim(r) = line[r].qty /\ Creating = {}
    BY <1>1, <1>7 DEF Share, Claim, Asking, Counted, OneAsks
  <2>2. Returned + Claim(r) <= Sold
    BY <1>1, <1>7, <2>1 DEF Fits
  <2>3. Returned' + Claim(r)' <= Sold
    BY <1>2, <1>3, <1>4, <2>1, <2>2
  <2>4. \A s \in Asking' : s = r /\ line'[s].qty = Claim(r)'
    BY <1>1, <1>5, <1>7 DEF OneAsks, Claim
  <2>5. QED
    BY <1>3, <1>4, <1>5, <1>6, <2>1, <2>3, <2>4 DEF Fits
<1>8. CASE r \notin Asking
  <2>1. Returned' <= Returned
    BY <1>2, <1>3, <1>8
  <2>2. \A s \in Asking' : s \in Asking /\ s \in Returns /\ line'[s] = line[s]
    BY <1>5, <1>8 DEF Asking
  <2>3. /\ Returned' <= Sold
        /\ \A s \in Asking' : Returned' + line'[s].qty <= Sold
    BY <1>1, <1>3, <1>4, <2>1, <2>2 DEF Fits
  <2>4. \A q \in Creating' : Returned' + request'[q].line.qty <= Sold
    <3> SUFFICES ASSUME NEW q \in Creating'
                 PROVE  Returned' + request'[q].line.qty <= Sold
      OBVIOUS
    <3>1. q \in Creating /\ q \in Requests /\ request'[q] = request[q]
      BY <1>5 DEF Creating
    <3>2. Returned + request[q].line.qty <= Sold /\ request[q].line.qty \in Nat
      BY <1>1, <1>3, <3>1 DEF Fits
    <3>3. QED
      BY <1>3, <1>4, <2>1, <3>1, <3>2
  <2>5. QED
    BY <1>6, <2>3, <2>4 DEF Fits
<1>9. QED
  BY <1>7, <1>8

LEMMA EndCreates ==
  ASSUME IInv, NEW q \in Requests, EndRequest(q)
  PROVE  /\ \A p \in Requests : request'[p] = IF p = q THEN Idle ELSE request[p]
         /\ \A p \in Requests : request'[p].pc = "creating" =>
                                  p # q /\ request'[p] = request[p]
  BY DEF EndRequest, IInv, TypeOK, Idle

LEMMA CreateCheckFits ==
  ASSUME IInv, OneAtATime, NEW q \in Requests, NEW l \in NewLines, CreateCheck(q, l)
  PROVE  OneAtATime'
<1> SUFFICES ASSUME ~loose', raced' = {}
             PROVE  OneAsks' /\ Fits'
  BY DEF OneAtATime
<1> DEFINE h == [pc |-> "creating", of |-> NoReturn, line |-> l, invoiced |-> l.linked]
<1>1. /\ line' = line /\ status' = status /\ raced' = raced
      /\ l.linked => l.qty - l.again <= Sold - Returned
      /\ request' = [request EXCEPT ![q] = h]
      /\ loose' = (loose \/ (l.linked /\ (Uncounted \/ l.again > 0)))
  BY DEF CreateCheck, doc
<1>2. OneAsks /\ Fits
  BY <1>1 DEF OneAtATime
<1>3. Counted' = Counted /\ Asking' = Asking
  BY <1>1 DEF Counted, Asking
<1>4. Returned' = Returned
  BY <1>1, <1>3 DEF Returned
<1>5. \A p \in Requests : request'[p] = IF p = q THEN h ELSE request[p]
  BY <1>1 DEF IInv, TypeOK
<1>6. CASE l.linked
  <2>1. ~Uncounted
    BY <1>1, <1>6
  <2>2. Asking = {} /\ Creating = {}
    BY <2>1 DEF Uncounted, Asking, Creating
  <2>3. \A p \in Creating' : p = q /\ request'[p].line = l
    BY <1>5, <2>2 DEF Creating
  <2>4. l.qty \in Nat /\ l.again \in Nat /\ Returned \in Nat /\ Sold \in Nat
    BY ReturnsAssumption, NumbersHold, Zero DEF Numbers, Lines
  <2>5. l.again = 0
    <3>1. ~(l.again > 0)
      BY <1>1, <1>6
    <3>2. QED
      BY <2>4, <3>1
  <2>6. Returned + l.qty <= Sold
    BY <1>1, <1>6, <2>4, <2>5
  <2>7. QED
    BY <1>2, <1>3, <1>4, <2>2, <2>3, <2>6 DEF OneAsks, Fits
<1>7. CASE ~l.linked
  <2>1. \A p \in Creating' : p \in Creating /\ request'[p] = request[p]
    BY <1>5, <1>7 DEF Creating
  <2>2. QED
    BY <1>1, <1>2, <1>3, <1>4, <2>1 DEF OneAsks, Fits
<1>8. QED
  BY <1>6, <1>7

LEMMA InsertFits ==
  ASSUME IInv, IInv', OneAtATime, NEW q \in Requests, NEW r \in Returns,
         CreateInsert(q, r)
  PROVE  OneAtATime'
<1> SUFFICES ASSUME ~loose', raced' = {}
             PROVE  OneAsks' /\ Fits'
  BY DEF OneAtATime
<1>1. /\ request[q].pc = "creating" /\ status[r] = "none"
      /\ status' = [status EXCEPT ![r] = "pending"]
      /\ line' = [line EXCEPT ![r] = request[q].line]
      /\ raced' = raced /\ loose' = loose /\ EndRequest(q)
  BY DEF CreateInsert
<1>2. OneAsks /\ Fits
  BY <1>1 DEF OneAtATime
<1>3. /\ \A s \in Returns \ {r} : line'[s] = line[s] /\ status'[s] = status[s]
      /\ line'[r] = request[q].line /\ status'[r] = "pending"
  BY <1>1 DEF IInv, TypeOK
<1>4. \A p \in Creating' : p # q /\ p \in Creating /\ request'[p] = request[p]
  BY <1>1, EndCreates DEF Creating
<1>5. Returned' = Returned
  <2>1. Share(r) = 0 /\ Share(r)' = 0
    BY <1>1, <1>3 DEF Share, Counted
  <2>2. Returned' = Returned + 0 - 0
    BY <1>3, <2>1, ReturnedMoves
  <2>3. QED
    BY <2>2, NumbersHold DEF Numbers
<1>6. CASE request[q].line.linked
  <2>1. q \in Creating /\ Asking = {} /\ Creating' = {}
    BY <1>1, <1>2, <1>4, <1>6 DEF OneAsks, Creating
  <2>2. \A s \in Asking' : s = r
    BY <1>3, <2>1 DEF Asking
  <2>3. QED
    BY <1>2, <1>3, <1>5, <2>1, <2>2 DEF OneAsks, Fits
<1>7. CASE ~request[q].line.linked
  <2>1. \A s \in Asking' : s \in Asking /\ line'[s] = line[s]
    BY <1>3, <1>7 DEF Asking
  <2>2. QED
    BY <1>2, <1>4, <1>5, <2>1 DEF OneAsks, Fits
<1>8. QED
  BY <1>6, <1>7

(* A decision moves a return on; nothing is counted anew but a pending one. *)
LEMMA DecisionFits ==
  ASSUME IInv, IInv', OneAtATime, NEW q \in Requests, NEW r \in Returns,
         NEW to \in {"approved", "refunded", "rejected"},
         status' = [status EXCEPT ![r] = to], line' = line,
         UNCHANGED loose, EndRequest(q),
         raced \subseteq raced',
         raced' = {} =>
           status[r] = IF to = "refunded" THEN "approved" ELSE "pending"
  PROVE  OneAtATime'
<1>1. /\ \A s \in Returns \ {r} : line'[s] = line[s] /\ status'[s] = status[s]
      /\ status'[r] = to
  BY DEF IInv, TypeOK
<1>2. \A p \in Requests : request'[p].pc = "creating" => request'[p] = request[p]
  BY EndCreates
<1>3. ASSUME ~loose', raced' = {}
      PROVE  /\ r \notin Asking'
             /\ Share(r)' + Claim(r)' <= Share(r) + Claim(r)
             /\ Share(r)' <= Share(r) \/ r \in Asking
  <2>1. status[r] = IF to = "refunded" THEN "approved" ELSE "pending"
    BY <1>3
  <2>2. r \notin Asking' /\ Claim(r)' = 0
    BY <1>1 DEF Asking, Claim
  <2>3. line[r].qty \in Nat
    BY NumbersHold DEF Numbers
  <2>4. CASE line[r].linked /\ to = "refunded"
    BY <1>1, <2>1, <2>2, <2>3, <2>4 DEF Share, Claim, Asking, Counted
  <2>5. CASE line[r].linked /\ to = "approved"
    BY <1>1, <2>1, <2>2, <2>3, <2>5 DEF Share, Claim, Asking, Counted
  <2>6. CASE to = "rejected" \/ ~line[r].linked
    <3>1. Share(r)' = 0
      BY <1>1, <2>6 DEF Share, Counted
    <3>2. Share(r) \in Nat /\ Claim(r) \in Nat
      BY NumbersHold DEF Numbers
    <3>3. QED
      BY <2>2, <3>1, <3>2
  <2>7. QED
    BY <2>4, <2>5, <2>6
<1>4. ~loose' /\ raced' = {} => ~loose /\ raced = {}
  OBVIOUS
<1>5. QED
  BY <1>1, <1>2, <1>3, <1>4, MovesFit

LEMMA CancelFits ==
  ASSUME IInv, IInv', OneAtATime, NEW r \in Returns, Cancel(r)
  PROVE  OneAtATime'
<1>1. /\ status' = [status EXCEPT ![r] = "cancelled"] /\ status[r] # "pending"
      /\ UNCHANGED <<line, request, raced, loose>>
  BY DEF Cancel, past
<1>2. /\ \A s \in Returns \ {r} : line'[s] = line[s] /\ status'[s] = status[s]
      /\ status'[r] = "cancelled"
  BY <1>1 DEF IInv, TypeOK
<1>3. r \notin Asking' /\ Share(r)' = 0 /\ Claim(r)' = 0
  BY <1>2 DEF Asking, Counted, Share, Claim
<1>4. Share(r) \in Nat /\ Claim(r) \in Nat
  BY NumbersHold DEF Numbers
<1>5. QED
  BY <1>1, <1>2, <1>3, <1>4, MovesFit

LEMMA ApplyFits ==
  ASSUME IInv, IInv', OneAtATime, NEW e \in EditRequests, ApplyEdit(e)
  PROVE  OneAtATime'
<1>1. PICK r \in Returns : r = edit[e].of
  BY DEF ApplyEdit, IInv, Bound
<1> DEFINE new == Edited(line[r], edit[e].payload)
<1>2. /\ line' = [line EXCEPT ![r] = new]
      /\ loose' = (loose \/ (new.linked /\ new.qty > line[r].qty))
      /\ UNCHANGED <<status, request, raced>>
  BY <1>1 DEF ApplyEdit
<1>3. new \in Lines
  BY <1>2 DEF IInv, TypeOK
<1>4. new.linked => line[r].linked
  BY DEF Edited, NoLine, IInv, TypeOK, Payload
<1> HIDE DEF new
<1>5. /\ \A s \in Returns \ {r} : line'[s] = line[s] /\ status'[s] = status[s]
      /\ line'[r] = new /\ status'[r] = status[r]
  BY <1>2 DEF IInv, TypeOK
<1>6. line[r].qty \in Nat /\ new.qty \in Nat /\ Share(r) \in Nat /\ Claim(r) \in Nat
  BY <1>3, NumbersHold, ShelvedIsNat DEF Numbers
<1>7. ASSUME ~loose', raced' = {}
      PROVE  /\ r \in Asking' => r \in Asking
             /\ Share(r)' + Claim(r)' <= Share(r) + Claim(r)
             /\ Share(r)' <= Share(r)
  <2>1. CASE new.linked
    <3>1. /\ r \in Asking' <=> r \in Asking
          /\ r \in Counted' <=> r \in Counted
      BY <1>4, <1>5, <2>1 DEF Asking, Counted
    <3>2. ~(new.qty > line[r].qty)
      BY <1>2, <1>7, <2>1
    <3>3. QED
      BY <1>5, <1>6, <3>1, <3>2 DEF Share, Claim
  <2>2. CASE ~new.linked
    <3>1. r \notin Asking' /\ r \notin Counted'
      BY <1>5, <2>2 DEF Asking, Counted
    <3>2. QED
      BY <1>6, <3>1 DEF Share, Claim
  <2>3. QED
    BY <2>1, <2>2
<1>8. QED
  BY <1>2, <1>5, <1>7, MovesFit

LEMMA StepFits ==
  ASSUME IInv, IInv', OneAtATime, [Next]_vars
  PROVE  OneAtATime'
<1>1. CASE UNCHANGED vars
  BY <1>1, QuietFits DEF vars
<1>2. ASSUME NEW q \in Requests, NEW r \in Returns, NEW what \in DOMAIN From,
             Check(q, r, what)
      PROVE  OneAtATime'
  <2>1. \A p \in Requests : request'[p].pc = "creating" => request'[p] = request[p]
    BY <1>2 DEF Check, From, Idle, IInv, TypeOK
  <2>2. QED
    BY <1>2, <2>1, QuietFits DEF Check, doc, past
<1>3. ASSUME NEW q \in Requests, ApproveRead(q)
      PROVE  OneAtATime'
  <2>1. \A p \in Requests : request'[p].pc = "creating" => request'[p] = request[p]
    BY <1>3 DEF ApproveRead, IInv, TypeOK
  <2>2. QED
    BY <1>3, <2>1, QuietFits DEF ApproveRead, doc, past
<1>4. ASSUME NEW q \in Requests, RefundFails(q)
      PROVE  OneAtATime'
  BY <1>4, EndCreates, QuietFits DEF RefundFails, doc, past
<1>5. CASE Sell
  BY <1>5, QuietFits DEF Sell, doc, past
<1>6. ASSUME NEW e \in EditRequests, NEW r \in Returns, NEW p \in Payload,
             CreateEdit(e, r, p)
      PROVE  OneAtATime'
  BY <1>6, QuietFits DEF CreateEdit, doc, past
<1>7. ASSUME NEW e \in EditRequests, NEW verdict \in {"approved", "rejected"},
             Review(e, verdict)
      PROVE  OneAtATime'
  BY <1>7, QuietFits DEF Review, doc, past
<1>8. ASSUME NEW q \in Requests, Approve(q)
      PROVE  OneAtATime'
  <2>1. PICK r \in Returns : r = request[q].of
    BY <1>8 DEF Approve, IInv, Bound
  <2>2. /\ status' = [status EXCEPT ![r] = "approved"] /\ line' = line
        /\ loose' = loose /\ EndRequest(q)
        /\ RaceIf(status[r] # From.approve \/ request[q].line # line[r], r)
    BY <1>8, <2>1 DEF Approve
  <2>3. /\ raced \subseteq raced'
        /\ raced' = {} => status[r] = "pending"
    BY <2>2 DEF RaceIf, From
  <2>4. QED
    BY <2>2, <2>3, DecisionFits
<1>9. ASSUME NEW q \in Requests, NEW how \in {"cash", "card"}, NEW b \in Drawers,
             Refund(q, how, b)
      PROVE  OneAtATime'
  <2>1. PICK r \in Returns : r = request[q].of
    BY <1>9 DEF Refund, IInv, Bound
  <2>2. /\ status' = [status EXCEPT ![r] = "refunded"] /\ line' = line
        /\ loose' = loose /\ EndRequest(q)
        /\ RaceIf(status[r] # From.refund, r)
    BY <1>9, <2>1 DEF Refund
  <2>3. /\ raced \subseteq raced'
        /\ raced' = {} => status[r] = "approved"
    BY <2>2 DEF RaceIf, From
  <2>4. QED
    BY <2>2, <2>3, DecisionFits
<1>10. ASSUME NEW q \in Requests, Reject(q)
       PROVE  OneAtATime'
  <2>1. PICK r \in Returns : r = request[q].of
    BY <1>10 DEF Reject, IInv, Bound
  <2>2. /\ status' = [status EXCEPT ![r] = "rejected"] /\ line' = line
        /\ loose' = loose /\ EndRequest(q)
        /\ RaceIf(status[r] # From.reject, r)
    BY <1>10, <2>1 DEF Reject
  <2>3. /\ raced \subseteq raced'
        /\ raced' = {} => status[r] = "pending"
    BY <2>2 DEF RaceIf, From
  <2>4. QED
    BY <2>2, <2>3, DecisionFits
<1>11. QED
  BY <1>1, <1>2, <1>3, <1>4, <1>5, <1>6, <1>7, <1>8, <1>9, <1>10,
     CreateCheckFits, InsertFits, CancelFits, ApplyFits, NewEditsAre DEF Next

LEMMA InitFits == Init => OneAtATime
<1> SUFFICES ASSUME Init
             PROVE  OneAsks /\ Fits
  BY DEF OneAtATime
<1>1. Asking = {} /\ Creating = {} /\ Counted = {}
  BY DEF Init, Asking, Creating, Counted, Idle
<1>2. Returned = 0
  BY <1>1, InitTyped, NumbersHold, SumOfNone DEF Numbers
<1>3. QED
  BY <1>1, <1>2, ReturnsAssumption DEF OneAsks, Fits

(* createReturn checks outside its INSERT and counts no pending return: but  *)
(* returns of an invoice line that come one after the other, and are not     *)
(* edited upwards, never take back more than was sold, for any number of     *)
(* returns and pieces.                                                       *)
THEOREM OneByOneFits == Spec => []TakenOneByOne
<1>1. Init => IInv /\ OneAtATime
  BY InitTyped, InitFits
<1>2. IInv /\ OneAtATime /\ [Next]_vars => (IInv /\ OneAtATime)'
  BY StepTyped, StepFits
<1>3. IInv /\ OneAtATime => TakenOneByOne
  BY DEF OneAtATime, Fits, TakenOneByOne, TakenBack, Returned, Counted
<1>4. QED
  BY <1>1, <1>2, <1>3, PTL DEF Spec
=============================================================================
