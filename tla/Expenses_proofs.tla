--------------------------- MODULE Expenses_proofs ---------------------------
(***************************************************************************)
(* Theorems about ExpenseApproval, for any expenses, amounts and brackets  *)
(* and any finite set of approval rules, and about RecurringExpenses, for  *)
(* any templates, requests, calendar and schedule.                         *)
(***************************************************************************)
EXTENDS ExpenseApproval, RecurringExpenses, FiniteSetTheorems, TLAPS

(***************************************************************************)
(* Approval and posting.                                                   *)
(***************************************************************************)
(* The inductive invariant, expense by expense.  A decision under way      *)
(* holds a pending row of an existing expense, so the rows that are        *)
(* decided stay decided between its count and its commit.                  *)
OneEntry(e) == posted[e] = << >> \/ \E a \in Amounts : posted[e] = <<a>>

Deciding(e) ==
  \A r \in Rules :
    /\ approvals[e][r] # "none" => expense[e].exists
    /\ decision[e][r].pc # "idle" => approvals[e][r] = "pending"

AllAgree(e) == \A q \in Rules : approvals[e][q] \in {"none", "approved"}
Others(e, r) == \A q \in Rules \ {r} : approvals[e][q] \in {"none", "approved"}

Released(e) ==
  \A r \in Rules :
    decision[e][r].pc = "counted" /\ ~decision[e][r].rejected /\ decision[e][r].pending = 0
    => decision[e][r].status = "approved" /\ Others(e, r)

Refused(e) ==
  \A r \in Rules :
    decision[e][r].pc # "idle" /\ decision[e][r].rejected
    => decision[e][r].status = "rejected" \/ \E q \in Rules : approvals[e][q] = "rejected"

Consented(e) ==
  e \notin direct /\ posted[e] # << >> =>
    expense[e].exists /\ expense[e].is_approved /\ AllAgree(e)

Funded(e) == expense[e].exists /\ expense[e].is_approved => posted[e] # << >>

Priced(e) ==
  expense[e].exists /\ posted[e] # << >> /\ (\A q \in Rules : approvals[e][q] # "rejected")
  => expense[e].is_approved /\ posted[e] = <<expense[e].amount>>

Alone(e) ==
  e \notin skewed =>
    \A r \in Rules : decision[e][r].pc = "counted" =>
      /\ \A q \in Rules \ {r} : decision[e][q].pc # "counted"
      /\ (\A q \in Rules \ {r} : approvals[e][q] # "pending") => decision[e][r].pending = 0

Reached(e) == e \notin skewed /\ expense[e].exists /\ AllAgree(e) => expense[e].is_approved

Sound(e) ==
  /\ OneEntry(e) /\ Deciding(e) /\ Released(e) /\ Refused(e) /\ Consented(e)
  /\ Funded(e) /\ Priced(e) /\ Alone(e) /\ Reached(e)

IInv == TypeOK /\ \A e \in Expenses : Sound(e)

Row == [exists : BOOLEAN, amount : Amounts, is_approved : BOOLEAN]

-----------------------------------------------------------------------------
(* What a deciding transaction can count. *)
LEMMA PendingBounds ==
  ASSUME NEW S \in SUBSET Rules, NEW r \in Rules
  PROVE  /\ Cardinality(S \ {r}) \in 0 .. Cardinality(Rules) - 1
         /\ Cardinality(S \ {r}) = 0 <=> S \ {r} = {}
<1>1. IsFiniteSet(Rules) /\ IsFiniteSet(S \ {r}) /\ IsFiniteSet(Rules \ {r})
  BY ExpenseApprovalAssumption, FS_Subset
<1>2. Cardinality(Rules \ {r}) = Cardinality(Rules) - 1
  BY <1>1, FS_RemoveElement
<1>3. Cardinality(S \ {r}) <= Cardinality(Rules \ {r})
  <2>1. S \ {r} \subseteq Rules \ {r}
    OBVIOUS
  <2>2. QED
    BY <1>1, <2>1, FS_Subset
<1>4. Cardinality(S \ {r}) \in Nat /\ Cardinality(Rules) \in Nat
  BY <1>1, FS_CardinalityType
<1>5. Cardinality(S \ {r}) = 0 <=> S \ {r} = {}
  BY <1>1, FS_EmptySet
<1>6. QED
  BY <1>2, <1>3, <1>4, <1>5

LEMMA IdleTyped == ASSUME NEW r \in Rules PROVE Idle \in Decisions
<1>1. Cardinality({} \ {r}) \in 0 .. Cardinality(Rules) - 1 /\ Cardinality({} \ {r}) = 0
  BY PendingBounds
<1>2. QED
  BY <1>1 DEF Idle, Decisions, Verdicts

LEMMA InitInv == Init => IInv
<1> SUFFICES ASSUME Init PROVE IInv
  OBVIOUS
<1>1. decision \in [Expenses -> [Rules -> Decisions]]
  BY IdleTyped DEF Init
<1>2. << >> \in Seq(Amounts)
  OBVIOUS
<1>3. posted \in [Expenses -> Seq(Amounts)]
  BY <1>2 DEF Init
<1>4. expense \in [Expenses -> Row] /\ \A e \in Expenses : ~expense[e].exists
  BY DEF Init, Row
<1>5. TypeOK
  BY <1>1, <1>3, <1>4 DEF Init, TypeOK, Statuses, Row
<1>6. ASSUME NEW e \in Expenses PROVE Sound(e)
  <2>1. \A r \in Rules : decision[e][r].pc = "idle" /\ approvals[e][r] = "none"
    BY DEF Init, Idle
  <2>2. posted[e] = << >> /\ ~expense[e].exists
    BY <1>4 DEF Init
  <2>3. QED
    BY <2>1, <2>2 DEF Sound, OneEntry, Deciding, Released, Refused, Consented, Funded,
                      Priced, Alone, Reached
<1>7. QED
  BY <1>5, <1>6 DEF IInv

-----------------------------------------------------------------------------
(* A step is about one expense; the others stay sound. *)
Same(e) ==
  /\ expense'[e] = expense[e] /\ approvals'[e] = approvals[e]
  /\ decision'[e] = decision[e] /\ posted'[e] = posted[e]
  /\ (e \in direct') = (e \in direct) /\ (e \in skewed') = (e \in skewed)

LEMMA SameIsSound ==
  ASSUME NEW e \in Expenses, Sound(e), Same(e)
  PROVE  Sound(e)'
<1>1. OneEntry(e)' /\ Deciding(e)' /\ Refused(e)'
  BY DEF Sound, Same, OneEntry, Deciding, Refused
<1>2. Released(e)'
  BY DEF Sound, Same, Released, Others
<1>3. Consented(e)' /\ Funded(e)' /\ Priced(e)'
  BY DEF Sound, Same, Consented, Funded, Priced, AllAgree
<1>4. Alone(e)' /\ Reached(e)'
  BY DEF Sound, Same, Alone, Reached, AllAgree
<1>5. QED
  BY <1>1, <1>2, <1>3, <1>4 DEF Sound

LEMMA PostIs ==
  ASSUME IInv, NEW e \in Expenses, NEW amount \in Amounts, Post(e, amount)
  PROVE  /\ posted' \in [Expenses -> Seq(Amounts)]
         /\ posted'[e] = IF posted[e] = << >> THEN <<amount>> ELSE posted[e]
         /\ \A f \in Expenses \ {e} : posted'[f] = posted[f]
         /\ OneEntry(e)' /\ posted'[e] # << >>
<1>1. posted \in [Expenses -> Seq(Amounts)] /\ OneEntry(e)
  BY DEF IInv, TypeOK, Sound
<1>2. <<amount>> \in Seq(Amounts) /\ \A a \in Amounts : <<a>> # << >>
  OBVIOUS
<1>3. QED
  BY <1>1, <1>2 DEF Post, OneEntry
LEMMA OneSoundStep ==
  ASSUME IInv, NEW e \in Expenses, TypeOK', Sound(e)', \A f \in Expenses \ {e} : Same(f)
  PROVE  IInv'
BY SameIsSound DEF IInv

-----------------------------------------------------------------------------
(* The expense endpoints. *)
LEMMA CreateSound ==
  ASSUME IInv, NEW e \in Expenses, NEW amount \in Amounts, Create(e, amount)
  PROVE  IInv'
<1> DEFINE auto == \A r \in Rules : amount \notin Bracket[r]
           new == [exists |-> TRUE, amount |-> amount, is_approved |-> auto]
           rows == Spawn(amount)
<1>1. /\ ~expense[e].exists /\ posted[e] = << >>
      /\ expense' = [expense EXCEPT ![e] = new]
      /\ approvals' = [approvals EXCEPT ![e] = rows]
      /\ IF auto THEN Post(e, amount) ELSE UNCHANGED posted
      /\ UNCHANGED <<decision, direct, skewed>>
  BY DEF Create
<1>2. new \in Row /\ new.exists /\ new.amount = amount
  BY DEF Row
<1>3. new.is_approved = auto
  OBVIOUS
<1>4. rows \in [Rules -> Statuses]
  BY DEF Spawn, Statuses
<1>5. (\A q \in Rules : rows[q] \in {"none", "approved"}) => auto
  BY DEF Spawn
<1>6. auto => \A q \in Rules : rows[q] = "none"
  BY DEF Spawn
<1> HIDE DEF auto, new, rows
<1>7. expense'[e] = new /\ approvals'[e] = rows
  BY <1>1 DEF IInv, TypeOK
<1>8. /\ posted' \in [Expenses -> Seq(Amounts)] /\ OneEntry(e)'
      /\ posted'[e] = IF auto THEN <<amount>> ELSE << >>
      /\ \A f \in Expenses \ {e} : posted'[f] = posted[f]
  <2>1. CASE auto
    BY <1>1, <2>1, PostIs
  <2>2. CASE ~auto
    BY <1>1, <2>2 DEF IInv, TypeOK, OneEntry
  <2>3. QED
    BY <2>1, <2>2
<1>9. TypeOK'
  <2>1. expense' \in [Expenses -> Row] /\ approvals' \in [Expenses -> [Rules -> Statuses]]
    BY <1>1, <1>2, <1>4 DEF IInv, TypeOK, Row
  <2>2. QED
    BY <1>1, <1>8, <2>1 DEF IInv, TypeOK, Row
<1>10. \A f \in Expenses \ {e} : Same(f)
  BY <1>1, <1>8 DEF Same, IInv, TypeOK
<1>11. Sound(e)'
  <2>1. \A r \in Rules : decision'[e][r].pc = "idle"
    <3>1. \A r \in Rules : decision[e][r].pc = "idle"
      BY <1>1 DEF IInv, Sound, Deciding
    <3>2. QED
      BY <1>1, <3>1
  <2>2. Deciding(e)' /\ Released(e)' /\ Refused(e)' /\ Alone(e)'
    BY <1>2, <1>7, <2>1 DEF Deciding, Released, Refused, Alone
  <2>3. Consented(e)'
    BY <1>2, <1>3, <1>6, <1>7, <1>8 DEF Consented, AllAgree
  <2>4. Funded(e)' /\ Priced(e)'
    <3>1. <<amount>> # << >>
      OBVIOUS
    <3>2. QED
      BY <1>2, <1>3, <1>7, <1>8, <3>1 DEF Funded, Priced
  <2>5. Reached(e)'
    BY <1>3, <1>5, <1>7 DEF Reached, AllAgree
  <2>6. QED
    BY <1>8, <2>2, <2>3, <2>4, <2>5 DEF Sound
<1>12. QED
  BY <1>9, <1>10, <1>11, OneSoundStep

LEMMA UpdateSound ==
  ASSUME IInv, NEW e \in Expenses, NEW amount \in Amounts, Update(e, amount)
  PROVE  IInv'
<1> DEFINE new == [expense[e] EXCEPT !.amount = amount]
<1>1. /\ expense[e].exists /\ ~expense[e].is_approved
      /\ expense' = [expense EXCEPT ![e] = new]
      /\ UNCHANGED <<approvals, decision, posted, direct, skewed>>
  BY DEF Update
<1>2. expense[e] \in Row
  BY DEF IInv, TypeOK, Row
<1>3. new \in Row /\ new.exists /\ ~new.is_approved
  BY <1>1, <1>2 DEF Row
<1> HIDE DEF new
<1>4. expense'[e] = new
  BY <1>1 DEF IInv, TypeOK
<1>5. TypeOK'
  BY <1>1, <1>3 DEF IInv, TypeOK, Row
<1>6. \A f \in Expenses \ {e} : Same(f)
  BY <1>1 DEF Same, IInv, TypeOK
<1>7. Sound(e)'
  <2>1. Sound(e)
    BY DEF IInv
  <2>2. OneEntry(e)' /\ Deciding(e)' /\ Refused(e)'
    BY <1>1, <1>3, <1>4, <2>1 DEF Sound, OneEntry, Deciding, Refused
  <2>3. Released(e)' /\ Alone(e)'
    BY <1>1, <2>1 DEF Sound, Released, Others, Alone
  <2>4. Consented(e)' /\ Funded(e)' /\ Priced(e)' /\ Reached(e)'
    BY <1>1, <1>3, <1>4, <2>1 DEF Sound, Consented, Funded, Priced, Reached, AllAgree
  <2>5. QED
    BY <2>2, <2>3, <2>4 DEF Sound
<1>8. QED
  BY <1>5, <1>6, <1>7, OneSoundStep

LEMMA DirectSound ==
  ASSUME IInv, NEW e \in Expenses, ApproveExpense(e)
  PROVE  IInv'
<1> DEFINE new == [expense[e] EXCEPT !.is_approved = TRUE]
<1>1. /\ expense[e].exists /\ ~expense[e].is_approved
      /\ expense' = [expense EXCEPT ![e] = new]
      /\ Post(e, expense[e].amount) /\ direct' = direct \cup {e}
      /\ UNCHANGED <<approvals, decision, skewed>>
  BY DEF ApproveExpense
<1>2. expense[e] \in Row /\ expense[e].amount \in Amounts
  BY DEF IInv, TypeOK, Row
<1>3. new \in Row /\ new.exists /\ new.is_approved /\ new.amount = expense[e].amount
  BY <1>1, <1>2 DEF Row
<1> HIDE DEF new
<1>4. expense'[e] = new
  BY <1>1 DEF IInv, TypeOK
<1>5. /\ posted' \in [Expenses -> Seq(Amounts)] /\ OneEntry(e)' /\ posted'[e] # << >>
      /\ posted'[e] = IF posted[e] = << >> THEN <<expense[e].amount>> ELSE posted[e]
      /\ \A f \in Expenses \ {e} : posted'[f] = posted[f]
  BY <1>1, <1>2, PostIs
<1>6. TypeOK'
  BY <1>1, <1>3, <1>5 DEF IInv, TypeOK, Row
<1>7. \A f \in Expenses \ {e} : Same(f)
  BY <1>1, <1>5 DEF Same, IInv, TypeOK
<1>8. Sound(e)'
  <2>1. Sound(e)
    BY DEF IInv
  <2>2. Deciding(e)' /\ Refused(e)'
    BY <1>1, <1>3, <1>4, <2>1 DEF Sound, Deciding, Refused
  <2>3. Released(e)' /\ Alone(e)'
    BY <1>1, <2>1 DEF Sound, Released, Others, Alone
  <2>4. Consented(e)' /\ Funded(e)' /\ Reached(e)'
    BY <1>1, <1>3, <1>4, <1>5 DEF Consented, Funded, Reached
  <2>5. Priced(e)'
    BY <1>1, <1>3, <1>4, <1>5, <2>1 DEF Sound, Priced
  <2>6. QED
    BY <1>5, <2>2, <2>3, <2>4, <2>5 DEF Sound
<1>9. QED
  BY <1>6, <1>7, <1>8, OneSoundStep

LEMMA DeleteSound ==
  ASSUME IInv, NEW e \in Expenses, Delete(e)
  PROVE  IInv'
<1> DEFINE new == [expense[e] EXCEPT !.exists = FALSE]
           rows == [r \in Rules |-> "none"]
<1>1. /\ ~expense[e].is_approved /\ Undisturbed(e)
      /\ expense' = [expense EXCEPT ![e] = new]
      /\ approvals' = [approvals EXCEPT ![e] = rows]
      /\ UNCHANGED <<decision, posted, direct, skewed>>
  BY DEF Delete
<1>2. new \in Row /\ ~new.exists /\ rows \in [Rules -> Statuses]
  BY DEF IInv, TypeOK, Row, Statuses
<1> HIDE DEF new, rows
<1>3. expense'[e] = new
  BY <1>1 DEF IInv, TypeOK
<1>4. TypeOK'
  BY <1>1, <1>2 DEF IInv, TypeOK, Row
<1>5. \A f \in Expenses \ {e} : Same(f)
  BY <1>1 DEF Same, IInv, TypeOK
<1>6. Sound(e)'
  <2>1. Sound(e) /\ \A r \in Rules : decision'[e][r].pc = "idle"
    BY <1>1 DEF IInv, Undisturbed
  <2>2. OneEntry(e)'
    BY <1>1, <2>1 DEF Sound, OneEntry
  <2>3. Deciding(e)'
    <3>1. \A r \in Rules : approvals'[e][r] = "none"
      BY <1>1 DEF IInv, TypeOK, rows
    <3>2. QED
      BY <2>1, <3>1 DEF Deciding
  <2>7. Released(e)' /\ Refused(e)' /\ Alone(e)'
    BY <2>1 DEF Released, Refused, Alone
  <2>4. Consented(e)'
    BY <1>1, <2>1 DEF Sound, Consented
  <2>5. Funded(e)' /\ Priced(e)' /\ Reached(e)'
    BY <1>2, <1>3 DEF Funded, Priced, Reached
  <2>6. QED
    BY <2>2, <2>3, <2>7, <2>4, <2>5 DEF Sound
<1>7. QED
  BY <1>4, <1>5, <1>6, OneSoundStep
-----------------------------------------------------------------------------
(* decide: one transaction per row. *)
LEMMA DecisionIs ==
  ASSUME IInv, NEW e \in Expenses, NEW r \in Rules, NEW d \in Decisions,
         decision' = [decision EXCEPT ![e][r] = d]
  PROVE  /\ decision' \in [Expenses -> [Rules -> Decisions]]
         /\ decision'[e][r] = d
         /\ \A q \in Rules \ {r} : decision'[e][q] = decision[e][q]
         /\ \A f \in Expenses \ {e} : decision'[f] = decision[f]
<1> DEFINE row == [decision[e] EXCEPT ![r] = d]
<1>1. decision' = [decision EXCEPT ![e] = row]
  OBVIOUS
<1>2. /\ row \in [Rules -> Decisions] /\ row[r] = d
      /\ \A q \in Rules \ {r} : row[q] = decision[e][q]
  BY DEF IInv, TypeOK
<1> HIDE DEF row
<1>3. QED
  BY <1>1, <1>2 DEF IInv, TypeOK

(* Starting a decision, and rolling one back, leaves the rest as it is. *)
LEMMA NotCountedSound ==
  ASSUME IInv, NEW e \in Expenses, NEW r \in Rules, NEW d \in Decisions,
         decision' = [decision EXCEPT ![e][r] = d],
         ~d.rejected, d.pc # "counted", d.pc # "idle" => approvals[e][r] = "pending",
         UNCHANGED <<expense, approvals, posted, direct, skewed>>
  PROVE  IInv'
<1>1. /\ decision' \in [Expenses -> [Rules -> Decisions]]
      /\ decision'[e][r] = d
      /\ \A q \in Rules \ {r} : decision'[e][q] = decision[e][q]
      /\ \A f \in Expenses \ {e} : decision'[f] = decision[f]
  BY DecisionIs
<1>2. TypeOK'
  BY <1>1 DEF IInv, TypeOK
<1>3. \A f \in Expenses \ {e} : Same(f)
  BY <1>1 DEF Same
<1>4. Sound(e)'
  <2>1. Sound(e)
    BY DEF IInv
  <2>2. Deciding(e)' /\ Refused(e)' /\ Released(e)'
    BY <1>1, <2>1 DEF Sound, Deciding, Refused, Released, Others
  <2>3. Alone(e)'
    BY <1>1, <2>1 DEF Sound, Alone
  <2>4. OneEntry(e)' /\ Consented(e)' /\ Funded(e)' /\ Priced(e)' /\ Reached(e)'
    BY <2>1 DEF Sound, OneEntry, Consented, Funded, Priced, Reached, AllAgree
  <2>5. QED
    BY <2>2, <2>3, <2>4 DEF Sound
<1>5. QED
  BY <1>2, <1>3, <1>4, OneSoundStep

LEMMA DecideSound ==
  ASSUME IInv, NEW e \in Expenses, NEW r \in Rules, NEW s \in Verdicts, Decide(e, r, s)
  PROVE  IInv'
<1> DEFINE d == [Idle EXCEPT !.pc = "decided", !.status = s]
<1>1. d \in Decisions /\ d.pc = "decided" /\ ~d.rejected
  BY IdleTyped DEF Decisions, Idle
<1>2. decision' = [decision EXCEPT ![e][r] = d]
  BY DEF Decide
<1> HIDE DEF d
<1>3. QED
  BY <1>1, <1>2, NotCountedSound DEF Decide

LEMMA AbortSound ==
  ASSUME IInv, NEW e \in Expenses, NEW r \in Rules, Abort(e, r)
  PROVE  IInv'
<1>1. Idle \in Decisions /\ Idle.pc = "idle" /\ ~Idle.rejected
  BY IdleTyped DEF Idle
<1>2. QED
  BY <1>1, NotCountedSound DEF Abort

(* The summary is right when it is read, and stays right while no other row *)
(* can be decided.                                                          *)
LEMMA CountSound ==
  ASSUME IInv, NEW e \in Expenses, NEW r \in Rules, Count(e, r)
  PROVE  IInv'
<1> DEFINE n == Cardinality(With(e, "pending") \ {r})
           no == \/ decision[e][r].rejected \/ decision[e][r].status = "rejected"
                 \/ With(e, "rejected") # {}
           d == [decision[e][r] EXCEPT !.pc = "counted", !.pending = n, !.rejected = no]
           skew == \E q \in Rules \ {r} : decision[e][q].pc = "counted"
<1>1. /\ decision[e][r].pc = "decided"
      /\ decision' = [decision EXCEPT ![e][r] = d]
      /\ skewed' = IF skew THEN skewed \cup {e} ELSE skewed
      /\ UNCHANGED <<expense, approvals, posted, direct>>
  BY DEF Count
<1>2. /\ n \in 0 .. Cardinality(Rules) - 1
      /\ n = 0 <=> \A q \in Rules \ {r} : approvals[e][q] # "pending"
  <2>1. With(e, "pending") \in SUBSET Rules
    BY DEF With
  <2>2. n \in 0 .. Cardinality(Rules) - 1 /\ (n = 0 <=> With(e, "pending") \ {r} = {})
    BY <2>1, PendingBounds
  <2>3. QED
    BY <2>2 DEF With
<1>3. decision[e][r] \in Decisions
  BY DEF IInv, TypeOK
<1>4. no \in BOOLEAN /\ (~no => decision[e][r].status = "approved" /\ With(e, "rejected") = {})
  BY <1>3 DEF Decisions, Verdicts
<1> HIDE DEF n, no
<1>5. /\ d \in Decisions /\ d.pc = "counted" /\ d.pending = n
      /\ d.status = decision[e][r].status
  BY <1>2, <1>3, <1>4 DEF Decisions
<1>6. d.rejected = no
  BY <1>3 DEF Decisions
<1> HIDE DEF d
<1>7. /\ decision' \in [Expenses -> [Rules -> Decisions]]
      /\ decision'[e][r] = d
      /\ \A q \in Rules \ {r} : decision'[e][q] = decision[e][q]
      /\ \A f \in Expenses \ {e} : decision'[f] = decision[f]
  BY <1>1, <1>5, DecisionIs
<1>8. TypeOK'
  BY <1>1, <1>7 DEF IInv, TypeOK
<1>9. \A f \in Expenses \ {e} : Same(f)
  BY <1>1, <1>7 DEF Same
<1>10. Sound(e)'
  <2>1. Sound(e)
    BY DEF IInv
  <2>2. approvals[e][r] = "pending" /\ Deciding(e)'
    BY <1>1, <1>7, <2>1 DEF Sound, Deciding
  <2>3. Released(e)'
    <3>1. ~no /\ n = 0 => \A q \in Rules \ {r} : approvals[e][q] \in {"none", "approved"}
      BY <1>2, <1>4 DEF With, IInv, TypeOK, Statuses
    <3>2. QED
      BY <1>1, <1>4, <1>5, <1>6, <1>7, <2>1, <3>1 DEF Sound, Released, Others
  <2>4. Refused(e)'
    <3>1. no => decision[e][r].rejected \/ decision[e][r].status = "rejected"
                \/ \E q \in Rules : approvals[e][q] = "rejected"
      BY DEF no, With
    <3>2. QED
      BY <1>1, <1>5, <1>6, <1>7, <2>1, <3>1 DEF Sound, Refused
  <2>5. Alone(e)'
    <3>1. e \notin skewed' => e \notin skewed /\ ~skew
      BY <1>1
    <3>2. QED
      BY <1>1, <1>2, <1>5, <1>7, <2>1, <3>1 DEF Sound, Alone
  <2>6. OneEntry(e)' /\ Consented(e)' /\ Funded(e)' /\ Priced(e)' /\ Reached(e)'
    BY <1>1, <2>1 DEF Sound, OneEntry, Consented, Funded, Priced, Reached, AllAgree
  <2>7. QED
    BY <2>1, <2>2, <2>3, <2>4, <2>5, <2>6 DEF Sound
<1>11. QED
  BY <1>8, <1>9, <1>10, OneSoundStep
(* Rejecting takes the approval away, and an expense no other row of which is *)
(* open is approved and posted.                                               *)
LEMMA CommitSound ==
  ASSUME IInv, NEW e \in Expenses, NEW r \in Rules, Commit(e, r)
  PROVE  IInv'
<1> DEFINE up == [expense[e] EXCEPT !.is_approved = TRUE]
           down == [expense[e] EXCEPT !.is_approved = FALSE]
<1>1. PICK d \in Decisions : d = decision[e][r]
  BY DEF IInv, TypeOK
<1>2. /\ d.pc = "counted" /\ d.status \in Verdicts /\ d.pending \in Nat
      /\ UNCHANGED <<direct, skewed>>
  <2>1. d.pending \in Nat
    <3>1. IsFiniteSet(Rules)
      BY ExpenseApprovalAssumption
    <3>2. Cardinality(Rules) \in Nat
      BY <3>1, FS_CardinalityType
    <3>3. QED
      BY <1>1, <3>2 DEF Decisions
  <2>2. QED
    BY <1>1, <2>1 DEF Commit, Decisions
<1>3. \/ d.rejected /\ expense' = [expense EXCEPT ![e] = down] /\ UNCHANGED posted
      \/ /\ ~d.rejected /\ d.pending = 0 /\ expense' = [expense EXCEPT ![e] = up]
         /\ Post(e, expense[e].amount)
      \/ ~d.rejected /\ d.pending # 0 /\ UNCHANGED <<expense, posted>>
  BY <1>1, <1>2 DEF Commit
<1>4. /\ expense[e] \in Row /\ expense[e].amount \in Amounts
      /\ up \in Row /\ up.exists = expense[e].exists /\ up.amount = expense[e].amount
      /\ up.is_approved
      /\ down \in Row /\ down.exists = expense[e].exists /\ down.amount = expense[e].amount
      /\ ~down.is_approved
  BY DEF IInv, TypeOK, Row
<1> HIDE DEF up, down
<1>5. /\ decision' \in [Expenses -> [Rules -> Decisions]]
      /\ decision'[e][r].pc = "idle"
      /\ \A q \in Rules \ {r} : decision'[e][q] = decision[e][q]
      /\ \A f \in Expenses \ {e} : decision'[f] = decision[f]
  <2>1. Idle \in Decisions /\ Idle.pc = "idle"
    BY IdleTyped DEF Idle
  <2>2. decision' = [decision EXCEPT ![e][r] = Idle]
    BY DEF Commit
  <2>3. QED
    BY <2>1, <2>2, DecisionIs
<1>6. /\ approvals' \in [Expenses -> [Rules -> Statuses]]
      /\ approvals'[e][r] = d.status
      /\ \A q \in Rules \ {r} : approvals'[e][q] = approvals[e][q]
      /\ \A f \in Expenses \ {e} : approvals'[f] = approvals[f]
  <2> DEFINE row == [approvals[e] EXCEPT ![r] = d.status]
  <2>1. approvals' = [approvals EXCEPT ![e] = row]
    BY <1>1 DEF Commit
  <2>2. /\ row \in [Rules -> Statuses] /\ row[r] = d.status
        /\ \A q \in Rules \ {r} : row[q] = approvals[e][q]
    BY <1>2 DEF IInv, TypeOK, Statuses, Verdicts
  <2> HIDE DEF row
  <2>3. QED
    BY <2>1, <2>2 DEF IInv, TypeOK
<1>7. /\ posted' \in [Expenses -> Seq(Amounts)] /\ OneEntry(e)'
      /\ \A f \in Expenses \ {e} : posted'[f] = posted[f]
      /\ posted'[e] = IF ~d.rejected /\ d.pending = 0 /\ posted[e] = << >>
                      THEN <<expense[e].amount>> ELSE posted[e]
  <2>1. CASE ~d.rejected /\ d.pending = 0
    BY <1>3, <1>4, <2>1, PostIs
  <2>2. CASE ~(~d.rejected /\ d.pending = 0)
    BY <1>3, <2>2 DEF IInv, TypeOK, Sound, OneEntry
  <2>3. QED
    BY <2>1, <2>2
<1>8. /\ expense' \in [Expenses -> Row]
      /\ expense'[e] = IF d.rejected THEN down ELSE IF d.pending = 0 THEN up ELSE expense[e]
      /\ \A f \in Expenses \ {e} : expense'[f] = expense[f]
  BY <1>3, <1>4 DEF IInv, TypeOK, Row
<1>9. TypeOK'
  BY <1>2, <1>5, <1>6, <1>7, <1>8 DEF IInv, TypeOK, Row
<1>10. \A f \in Expenses \ {e} : Same(f)
  BY <1>2, <1>5, <1>6, <1>7, <1>8 DEF Same
<1>11. /\ Sound(e) /\ approvals[e][r] = "pending" /\ expense[e].exists
       /\ expense'[e].exists /\ expense'[e].amount = expense[e].amount
  BY <1>1, <1>2, <1>4, <1>8 DEF IInv, Sound, Deciding
<1>12. posted[e] # << >> => e \in direct
  BY <1>11 DEF Sound, Consented, AllAgree
<1>13. ~d.rejected /\ d.pending = 0 => d.status = "approved" /\ Others(e, r)
  BY <1>1, <1>2, <1>11 DEF Sound, Released
<1>14. <<expense[e].amount>> # << >>
  OBVIOUS
<1>15. d.rejected => \E q \in Rules : approvals'[e][q] = "rejected"
  BY <1>1, <1>2, <1>6, <1>11 DEF Sound, Refused
<1>16. Deciding(e)'
  BY <1>5, <1>6, <1>11 DEF Sound, Deciding
<1>17. Released(e)'
  <2>1. ASSUME NEW q \in Rules \ {r}, decision'[e][q].pc = "counted",
               ~decision'[e][q].rejected, decision'[e][q].pending = 0
        PROVE  FALSE
    <3>1. Others(e, q)
      BY <1>5, <1>11, <2>1 DEF Sound, Released
    <3>2. QED
      BY <1>11, <3>1 DEF Others
  <2>2. QED
    BY <1>5, <2>1 DEF Released
<1>18. Refused(e)'
  BY <1>5, <1>6, <1>11 DEF Sound, Refused
<1>19. Consented(e)'
  BY <1>2, <1>4, <1>6, <1>7, <1>8, <1>11, <1>12, <1>13 DEF Consented, AllAgree, Others, Verdicts
<1>20. Funded(e)'
  BY <1>4, <1>7, <1>8, <1>11, <1>14 DEF Sound, Funded
<1>21. Priced(e)'
  <2>1. ASSUME \A q \in Rules : approvals'[e][q] # "rejected", posted'[e] # << >>
        PROVE  expense'[e].is_approved /\ posted'[e] = <<expense[e].amount>>
    <3>1. ~d.rejected /\ \A q \in Rules : approvals[e][q] # "rejected"
      BY <1>6, <1>11, <1>15, <2>1
    <3>2. posted[e] # << >> => expense[e].is_approved /\ posted[e] = <<expense[e].amount>>
      BY <1>11, <3>1 DEF Sound, Priced
    <3>3. QED
      BY <1>4, <1>7, <1>8, <2>1, <3>1, <3>2
  <2>2. QED
    BY <1>11, <2>1 DEF Priced
<1>22. Alone(e)'
  <2>1. ASSUME e \notin skewed, NEW q \in Rules \ {r} PROVE decision'[e][q].pc # "counted"
    BY <1>1, <1>2, <1>5, <1>11, <2>1 DEF Sound, Alone
  <2>2. QED
    BY <1>2, <1>5, <2>1 DEF Alone
<1>23. Reached(e)'
  <2>1. ASSUME e \notin skewed, AllAgree(e)' PROVE expense'[e].is_approved
    <3>1. \A q \in Rules : approvals'[e][q] \in {"none", "approved"}
      BY <2>1 DEF AllAgree
    <3>2. ~d.rejected
      BY <1>15, <3>1
    <3>3. d.pending = 0
      BY <1>1, <1>2, <1>6, <1>11, <2>1, <3>1 DEF Sound, Alone
    <3>4. QED
      BY <1>4, <1>8, <3>2, <3>3
  <2>2. QED
    BY <1>2, <2>1 DEF Reached
<1>24. Sound(e)'
  BY <1>7, <1>16, <1>17, <1>18, <1>19, <1>20, <1>21, <1>22, <1>23 DEF Sound
<1>25. QED
  BY <1>9, <1>10, <1>24, OneSoundStep

LEMMA StepInv == IInv /\ [Next]_vars => IInv'
<1> SUFFICES ASSUME IInv, [Next]_vars PROVE IInv'
  OBVIOUS
<1>1. CASE UNCHANGED vars
  <2>1. TypeOK' /\ \A e \in Expenses : Same(e)
    BY <1>1 DEF IInv, TypeOK, Same, vars
  <2>2. QED
    BY <2>1, SameIsSound DEF IInv
<1>2. ASSUME NEW e \in Expenses, NEW r \in Rules,
             (\E s \in Verdicts : Decide(e, r, s)) \/ Count(e, r) \/ Commit(e, r) \/ Abort(e, r)
      PROVE  IInv'
  BY <1>2, DecideSound, CountSound, CommitSound, AbortSound
<1>3. QED
  BY <1>1, <1>2, CreateSound, UpdateSound, DirectSound, DeleteSound DEF Next

-----------------------------------------------------------------------------
LEMMA AlwaysInv == Spec => []IInv
BY InitInv, StepInv, PTL DEF Spec

(* Every row keeps its type; a decision counts at most the other levels.    *)
THEOREM Typing == Spec => []TypeOK
<1>1. IInv => TypeOK
  BY DEF IInv
<1>2. QED
  BY AlwaysInv, <1>1, PTL

(* An approved expense has its entry, and outside the direct approval an    *)
(* entry has its approved expense.                                          *)
THEOREM PostingFollowsApproval == Spec => []PostedIffApproved
<1>1. IInv => PostedIffApproved
  <2> SUFFICES ASSUME IInv, NEW e \in Expenses
               PROVE  /\ expense[e].exists /\ expense[e].is_approved =>
                           /\ posted[e] # << >>
                           /\ With(e, "rejected") = {} => posted[e][1] = expense[e].amount
                      /\ posted[e] # << >> /\ e \notin direct =>
                           expense[e].exists /\ expense[e].is_approved
    BY DEF PostedIffApproved
  <2>1. Consented(e) /\ Funded(e) /\ Priced(e)
    BY DEF IInv, Sound
  <2>2. <<expense[e].amount>>[1] = expense[e].amount
    OBVIOUS
  <2>3. QED
    BY <2>1, <2>2 DEF Consented, Funded, Priced, With
<1>2. QED
  BY AlwaysInv, <1>1, PTL

(* No interleaving of any number of levels posts an expense over a missing  *)
(* or a negative decision.                                                  *)
THEOREM ConsentIsNeeded == Spec => []EveryLevelConsents
<1>1. IInv => EveryLevelConsents
  BY DEF IInv, Sound, Consented, AllAgree, EveryLevelConsents, Levels, With
<1>2. QED
  BY AlwaysInv, <1>1, PTL

(* And none is left unapproved with every level's consent, unless two       *)
(* levels counted before either committed.                                  *)
THEOREM ConsentIsEnough == Spec => []AllLevelsApprove
<1>1. IInv => AllLevelsApprove
  <2> SUFFICES ASSUME IInv, NEW e \in Expenses \ skewed, expense[e].exists,
                      Levels(e) = With(e, "approved")
               PROVE  expense[e].is_approved
    BY DEF AllLevelsApprove
  <2>1. AllAgree(e)
    BY DEF AllAgree, Levels, With
  <2>2. QED
    BY <2>1 DEF IInv, Sound, Reached
<1>2. QED
  BY AlwaysInv, <1>1, PTL

------------------------------------------------------------------------------
(***************************************************************************)
(* Recurring expenses.                                                     *)
(***************************************************************************)
LEMMA DaysAreNat == Days \subseteq Nat /\ 0 \in Days /\ MaxDay \in Days
BY RecurringAssumption DEF Days

(* What a run reads is due, so its date is one of the calendar. *)
LEMMA DueIsADay ==
  ASSUME RecurringTypeOK, NEW t \in Templates, template[t].next <= day
  PROVE  template[t].next \in Days
BY RecurringAssumption DEF RecurringTypeOK, RecurringRow, Days

(* What a run holds is a template and a day. *)
LEMMA Held ==
  ASSUME seen \in [Runners -> Reading \cup {None}], NEW r \in Runners, seen[r] # None
  PROVE  seen[r].tpl \in Templates /\ seen[r].date \in Days
<1>1. seen[r] \in Reading
  OBVIOUS
<1>2. QED
  BY <1>1 DEF Reading

(* Every action keeps every type. *)
LEMMA TypedStep == RecurringTypeOK /\ [RecurringNext]_recurringVars => RecurringTypeOK'
<1> SUFFICES ASSUME RecurringTypeOK, [RecurringNext]_recurringVars PROVE RecurringTypeOK'
  OBVIOUS
<1> USE RecurringAssumption
<1>1. ASSUME NEW t \in Templates, NEW auto \in BOOLEAN, NEW end \in Ends,
             NEW d \in Starts, CreateRecurring(t, d, auto, end)
      PROVE  RecurringTypeOK'
  <2>1. d \in Days /\ d \in Nat
    BY DaysAreNat
  <2>2. [status |-> "active", auto |-> auto, end |-> end, next |-> d] \in RecurringRow
    BY <2>1 DEF RecurringRow
  <2>3. QED
    BY <1>1, <2>1, <2>2 DEF RecurringTypeOK, CreateRecurring, runs
<1>2. ASSUME NEW t \in Templates, NEW auto \in BOOLEAN, NEW end \in Ends,
             NEW s \in {"active", "paused", "ended"}, UpdateRecurring(t, s, auto, end)
      PROVE  RecurringTypeOK'
  <2> DEFINE row == [template[t] EXCEPT !.status = s, !.auto = auto, !.end = end]
  <2>0. template[t] \in RecurringRow
    BY DEF RecurringTypeOK
  <2>5. row \in RecurringRow
    BY <2>0 DEF RecurringRow
  <2>6. template' = [template EXCEPT ![t] = row]
    BY <1>2 DEF UpdateRecurring
  <2>1. template' \in [Templates -> RecurringRow]
    BY <2>5, <2>6 DEF RecurringTypeOK
  <2>2. edits' \in 0 .. MaxEdits
    BY <1>2 DEF RecurringTypeOK, UpdateRecurring
  <2>3. QED
    BY <1>2, <2>1, <2>2 DEF RecurringTypeOK, UpdateRecurring, runs
<1>3. ASSUME NEW t \in Templates, Misconfigure(t)
      PROVE  RecurringTypeOK'
  BY <1>3 DEF RecurringTypeOK, Misconfigure, runs
<1>4. ASSUME NEW r \in Requests, NEW t \in Templates, RunOne(r, t)
      PROVE  RecurringTypeOK'
  BY <1>4 DEF RecurringTypeOK, RunOne, Runners
<1>5. ASSUME NEW r \in Requests, ProcessDue(r)
      PROVE  RecurringTypeOK'
  <2>1. PICK B \in SUBSET Templates : todo' = [todo EXCEPT ![r] = B]
    BY <1>5 DEF ProcessDue, Lists
  <2>2. todo' \in [Runners -> SUBSET Templates]
    BY <2>1 DEF RecurringTypeOK
  <2>3. QED
    BY <1>5, <2>2 DEF RecurringTypeOK, ProcessDue
<1>6. CASE Tick
  <2>1. PICK B \in SUBSET Templates : todo' = [todo EXCEPT ![Scheduler] = B]
    BY <1>6 DEF Tick, Lists
  <2>2. todo' \in [Runners -> SUBSET Templates]
    BY <2>1 DEF RecurringTypeOK
  <2>3. QED
    BY <1>6, <2>2 DEF RecurringTypeOK, Tick
<1>7. ASSUME NEW r \in Runners, NEW t \in Templates, NotNow(r, t)
      PROVE  RecurringTypeOK'
  BY <1>7 DEF RecurringTypeOK, NotNow, Turn
<1>8. ASSUME NEW r \in Runners, PastEnd(r)
      PROVE  RecurringTypeOK'
  <2> DEFINE t == seen[r].tpl
             row == [template[t] EXCEPT !.status = "ended"]
  <2>0. t \in Templates /\ template[t] \in RecurringRow
    BY <1>8, Held DEF PastEnd, RecurringTypeOK
  <2>5. row \in RecurringRow
    BY <2>0 DEF RecurringRow
  <2>6. template' = [template EXCEPT ![t] = row]
    BY <1>8 DEF PastEnd
  <2>1. template' \in [Templates -> RecurringRow]
    BY <2>5, <2>6 DEF RecurringTypeOK
  <2>2. QED
    BY <1>8, <2>1 DEF RecurringTypeOK, PastEnd
<1>9. ASSUME NEW r \in Runners, NEW t \in Templates, Read(r, t)
      PROVE  RecurringTypeOK'
  <2>1. template[t].next \in Days
    BY <1>9, DueIsADay DEF Read
  <2>2. overlap' \subseteq Templates
    BY <1>9 DEF RecurringTypeOK, Read
  <2>3. [tpl |-> t, date |-> template[t].next, past |-> Ended(t)] \in Reading
    BY <2>1 DEF Reading, Ended
  <2>4. seen' \in [Runners -> Reading \cup {None}]
    BY <1>9, <2>3 DEF RecurringTypeOK, Read
  <2>5. todo' \in [Runners -> SUBSET Templates]
    BY <1>9 DEF RecurringTypeOK, Read, Turn
  <2>6. QED
    BY <1>9, <2>2, <2>4, <2>5 DEF RecurringTypeOK, Read
<1>10. ASSUME NEW r \in Runners, Generate(r)
       PROVE  RecurringTypeOK'
  <2> DEFINE t == seen[r].tpl
             d == seen[r].date
  <2>1. t \in Templates /\ d \in Days
    BY <1>10, Held DEF RecurringTypeOK, Generate
  <2>2. NextRun(d) \in Nat
    <3>1. d \in Nat /\ Gap[d] \in Nat
      BY <2>1, DaysAreNat
    <3> HIDE DEF d
    <3>2. QED
      BY <3>1 DEF NextRun
  <2> DEFINE row == [template[t] EXCEPT !.next = NextRun(d)]
  <2>5. row \in RecurringRow
    <3>1. template[t] \in RecurringRow
      BY <2>1 DEF RecurringTypeOK
    <3> HIDE DEF d, t
    <3>2. QED
      BY <2>2, <3>1 DEF RecurringRow
  <2>6. template' = [template EXCEPT ![t] = row]
    BY <1>10 DEF Generate
  <2>3. template' \in [Templates -> RecurringRow]
    <3> HIDE DEF row, t
    <3>1. QED
      BY <2>1, <2>5, <2>6 DEF RecurringTypeOK
  <2>4. made[t][d] + 1 \in Nat
    BY <2>1 DEF RecurringTypeOK
  <2>7. made' \in [Templates -> [Days -> Nat]]
    BY <1>10, <2>1, <2>4 DEF RecurringTypeOK, Generate
  <2>8. QED
    BY <1>10, <2>3, <2>7 DEF RecurringTypeOK, Generate
<1>11. ASSUME NEW r \in Runners, Fails(r)
       PROVE  RecurringTypeOK'
  BY <1>11 DEF RecurringTypeOK, Fails
<1>12. CASE NewDay
  <2>1. day' = IF day < MaxDay THEN day + 1 ELSE day
    BY <1>12 DEF NewDay
  <2>2. day' \in Days
    BY <2>1 DEF RecurringTypeOK, Days
  <2>3. ticked' = FALSE
    BY <1>12 DEF NewDay
  <2>4. UNCHANGED <<template, start, made, broken, todo, seen, edits, crashes, overlap>>
    BY <1>12 DEF NewDay, runs
  <2>5. QED
    BY <2>2, <2>3, <2>4 DEF RecurringTypeOK
<1>13. CASE Crash
  BY <1>13 DEF RecurringTypeOK, Crash
<1>14. CASE UNCHANGED recurringVars
  BY <1>14 DEF RecurringTypeOK, recurringVars
<1>15. QED
  BY <1>1, <1>2, <1>3, <1>4, <1>5, <1>6, <1>7, <1>8, <1>9, <1>10, <1>11,
     <1>12, <1>13, <1>14 DEF RecurringNext, Run

LEMMA TypedInit == RecurringInit => RecurringTypeOK
<1> SUFFICES ASSUME RecurringInit PROVE RecurringTypeOK
  OBVIOUS
<1>1. template \in [Templates -> RecurringRow]
  BY DEF RecurringInit, RecurringRow
<1>2. /\ start \in [Templates -> Days]
      /\ made \in [Templates -> [Days -> Nat]]
  BY DaysAreNat DEF RecurringInit
<1>3. /\ broken \subseteq Templates /\ day \in Days /\ ticked \in BOOLEAN
      /\ overlap \subseteq Templates
  BY DaysAreNat DEF RecurringInit
<1>4. edits \in 0 .. MaxEdits /\ crashes \in 0 .. MaxCrashes
  BY RecurringAssumption DEF RecurringInit
<1>5. /\ todo \in [Runners -> SUBSET Templates]
      /\ seen \in [Runners -> Reading \cup {None}]
  BY DEF RecurringInit
<1>6. QED
  BY <1>1, <1>2, <1>3, <1>4, <1>5 DEF RecurringTypeOK

(* Every row, list and run keeps its type; the date a run has read is a day *)
(* of the calendar.                                                         *)
THEOREM RecurringTyping == RecurringSpec => []RecurringTypeOK
BY TypedInit, TypedStep, PTL DEF RecurringSpec

-----------------------------------------------------------------------------
(* A template that was never created has no expense. *)
Untouched ==
  \A t \in Templates : template[t].status = "none" =>
    \A d \in Days : made[t][d] = 0

(* The date a run has read is one of the schedule. *)
SeenFollows ==
  \A r \in Runners : seen[r] # None =>
    /\ template[seen[r].tpl].status # "none"
    /\ Follows(seen[r].tpl, seen[r].date)

Schedule == NoDateSkipped /\ SeenFollows /\ Untouched

(* What followed still follows when expenses are added. *)
LEMMA FollowsStays ==
  ASSUME NEW t \in Templates, NEW d, Follows(t, d),
         start'[t] = start[t],
         \A e \in Days : made[t][e] > 0 => made'[t][e] > 0
  PROVE  Follows(t, d)'
BY DEF Follows, Dates

(* The schedule does not move when neither the rows nor the expenses do. *)
LEMMA ScheduleStays ==
  ASSUME Schedule, UNCHANGED <<start, made>>,
         \A t \in Templates :
           /\ template'[t].next = template[t].next
           /\ template'[t].status = "none" <=> template[t].status = "none",
         \A r \in Runners : seen'[r] # None => seen'[r] = seen[r],
         seen \in [Runners -> Reading \cup {None}]
  PROVE  Schedule'
<1>1. NoDateSkipped'
  BY DEF Schedule, NoDateSkipped, Follows, Dates
<1>2. SeenFollows'
  <2> SUFFICES ASSUME NEW r \in Runners, seen'[r] # None
               PROVE  /\ template'[seen'[r].tpl].status # "none"
                      /\ Follows(seen[r].tpl, seen[r].date)'
    BY DEF SeenFollows
  <2>1. seen'[r] = seen[r] /\ seen[r].tpl \in Templates
    BY Held
  <2>2. template[seen[r].tpl].status # "none" /\ Follows(seen[r].tpl, seen[r].date)
    BY <2>1 DEF Schedule, SeenFollows
  <2>3. QED
    BY <2>1, <2>2 DEF Follows, Dates
<1>3. Untouched'
  BY DEF Schedule, Untouched
<1>4. QED
  BY <1>1, <1>2, <1>3 DEF Schedule

LEMMA ScheduleStep == RecurringTypeOK /\ Schedule /\ [RecurringNext]_recurringVars => Schedule'
<1> SUFFICES ASSUME RecurringTypeOK, Schedule, [RecurringNext]_recurringVars PROVE Schedule'
  OBVIOUS
<1>0. seen \in [Runners -> Reading \cup {None}]
  BY DEF RecurringTypeOK
<1>1. ASSUME NEW t \in Templates, NEW auto \in BOOLEAN, NEW end \in Ends,
             NEW d \in Starts, CreateRecurring(t, d, auto, end)
      PROVE  Schedule'
  <2>1. /\ template[t].status = "none"
        /\ \A e \in Days : made[t][e] = 0
    BY <1>1 DEF CreateRecurring, Schedule, Untouched
  <2>2. /\ template'[t].next = d /\ template'[t].status = "active" /\ start'[t] = d
        /\ \A u \in Templates \ {t} : template'[u] = template[u] /\ start'[u] = start[u]
        /\ made' = made /\ seen' = seen
    BY <1>1 DEF CreateRecurring, RecurringTypeOK, runs
  <2>3. NoDateSkipped'
    <3> SUFFICES ASSUME NEW u \in Templates, template'[u].status # "none"
                 PROVE  /\ Follows(u, template[u].next)'
                        /\ \A e \in Dates(u)' : Follows(u, e)'
      BY DEF NoDateSkipped
    <3>1. CASE u = t
      BY <2>1, <2>2, <3>1 DEF Follows, Dates
    <3>2. CASE u # t
      BY <2>2, <3>2 DEF Schedule, NoDateSkipped, Follows, Dates
    <3>3. QED
      BY <3>1, <3>2
  <2>4. SeenFollows'
    <3> SUFFICES ASSUME NEW r \in Runners, seen'[r] # None
                 PROVE  /\ template'[seen'[r].tpl].status # "none"
                        /\ Follows(seen[r].tpl, seen[r].date)'
      BY DEF SeenFollows
    <3>1. /\ seen[r].tpl \in Templates \ {t}
          /\ template[seen[r].tpl].status # "none"
          /\ Follows(seen[r].tpl, seen[r].date)
      BY <1>0, <2>1, <2>2, Held DEF Schedule, SeenFollows
    <3>2. QED
      BY <2>2, <3>1 DEF Follows, Dates
  <2>5. Untouched'
    BY <2>2 DEF Schedule, Untouched
  <2>6. QED
    BY <2>3, <2>4, <2>5 DEF Schedule
<1>2. ASSUME NEW t \in Templates, NEW auto \in BOOLEAN, NEW end \in Ends,
             NEW s \in {"active", "paused", "ended"}, UpdateRecurring(t, s, auto, end)
      PROVE  Schedule'
  <2>1. template' = [template EXCEPT ![t] =
          [template[t] EXCEPT !.status = s, !.auto = auto, !.end = end]]
    BY <1>2 DEF UpdateRecurring
  <2>2. template[t] \in RecurringRow /\ template[t].status # "none"
    BY <1>2 DEF UpdateRecurring, RecurringTypeOK
  <2>3. template'[t].next = template[t].next /\ template'[t].status = s
    BY <2>1, <2>2 DEF RecurringTypeOK, RecurringRow
  <2>4. \A u \in Templates \ {t} : template'[u] = template[u]
    BY <2>1 DEF RecurringTypeOK
  <2>5. \A u \in Templates :
           /\ template'[u].next = template[u].next
           /\ template'[u].status = "none" <=> template[u].status = "none"
    BY <2>2, <2>3, <2>4
  <2>6. UNCHANGED <<start, made, seen>>
    BY <1>2 DEF UpdateRecurring, runs
  <2>7. QED
    BY <1>0, <2>5, <2>6, ScheduleStays
<1>3. ASSUME NEW r \in Runners, PastEnd(r)
      PROVE  Schedule'
  <2> DEFINE t == seen[r].tpl
  <2>0. t \in Templates /\ template[t].status # "none"
    BY <1>0, <1>3, Held DEF PastEnd, Schedule, SeenFollows
  <2>1. template' = [template EXCEPT ![t] = [template[t] EXCEPT !.status = "ended"]]
    BY <1>3 DEF PastEnd
  <2>2. template[t] \in RecurringRow /\ template[t].status # "none"
    BY <2>0 DEF RecurringTypeOK
  <2> HIDE DEF t
  <2>3. template'[t].next = template[t].next /\ template'[t].status = "ended"
    BY <2>0, <2>1, <2>2 DEF RecurringTypeOK, RecurringRow
  <2>4. \A u \in Templates \ {t} : template'[u] = template[u]
    BY <2>1 DEF RecurringTypeOK
  <2>5. \A u \in Templates :
           /\ template'[u].next = template[u].next
           /\ template'[u].status = "none" <=> template[u].status = "none"
    BY <2>2, <2>3, <2>4
  <2>6. UNCHANGED <<start, made>> /\ \A q \in Runners : seen'[q] # None => seen'[q] = seen[q]
    BY <1>0, <1>3 DEF PastEnd
  <2>7. QED
    BY <1>0, <2>5, <2>6, ScheduleStays
<1>4. ASSUME NEW r \in Runners, NEW t \in Templates, Read(r, t)
      PROVE  Schedule'
  <2>1. /\ UNCHANGED <<template, start, made>>
        /\ seen' = [seen EXCEPT ![r] =
             [tpl |-> t, date |-> template[t].next, past |-> Ended(t)]]
        /\ template[t].status = "active"
    BY <1>4 DEF Read
  <2>2. SeenFollows'
    <3> SUFFICES ASSUME NEW q \in Runners, seen'[q] # None
                 PROVE  /\ template'[seen'[q].tpl].status # "none"
                        /\ Follows(seen[q].tpl, seen[q].date)'
      BY DEF SeenFollows
    <3>1. CASE q = r
      <4>1. seen'[q].tpl = t /\ seen'[q].date = template[t].next
        BY <1>0, <2>1, <3>1
      <4>2. Follows(t, template[t].next)
        BY <2>1 DEF Schedule, NoDateSkipped
      <4>3. QED
        BY <2>1, <4>1, <4>2 DEF Follows, Dates
    <3>2. CASE q # r
      <4>1. seen'[q] = seen[q]
        BY <1>0, <2>1, <3>2
      <4>2. template[seen[q].tpl].status # "none" /\ Follows(seen[q].tpl, seen[q].date)
        BY <4>1 DEF Schedule, SeenFollows
      <4>3. QED
        BY <2>1, <4>1, <4>2 DEF Follows, Dates
    <3>3. QED
      BY <3>1, <3>2
  <2>3. NoDateSkipped' /\ Untouched'
    BY <2>1 DEF Schedule, NoDateSkipped, Untouched, Follows, Dates
  <2>4. QED
    BY <2>2, <2>3 DEF Schedule
<1>5. ASSUME NEW r \in Runners, Generate(r)
      PROVE  Schedule'
  <2> DEFINE t == seen[r].tpl
             d == seen[r].date
  <2>1. /\ t \in Templates /\ d \in Days
        /\ template[t].status # "none" /\ Follows(t, d)
    BY <1>0, <1>5, Held DEF Generate, Schedule, SeenFollows
  <2>2. /\ template' = [template EXCEPT ![t] = [template[t] EXCEPT !.next = NextRun(d)]]
        /\ made' = [made EXCEPT ![t] = [made[t] EXCEPT ![d] = made[t][d] + 1]]
        /\ start' = start
        /\ seen' = [seen EXCEPT ![r] = None]
    BY <1>5 DEF Generate
  <2>3. template[t] \in RecurringRow /\ made[t] \in [Days -> Nat]
    BY <2>1 DEF RecurringTypeOK
  <2> HIDE DEF t, d
  <2>4. template'[t].next = NextRun(d) /\ template'[t].status = template[t].status
    BY <2>1, <2>2, <2>3 DEF RecurringTypeOK, RecurringRow
  <2>5. \A u \in Templates \ {t} : template'[u] = template[u] /\ made'[u] = made[u]
    BY <2>2 DEF RecurringTypeOK
  <2>6. made'[t] = [made[t] EXCEPT ![d] = made[t][d] + 1]
    BY <2>1, <2>2 DEF RecurringTypeOK
  <2>7. /\ made'[t][d] > 0
        /\ \A e \in Days \ {d} : made'[t][e] = made[t][e]
    BY <2>1, <2>3, <2>6
  <2>8. \A u \in Templates : \A e \in Days : made[u][e] > 0 => made'[u][e] > 0
    BY <2>5, <2>7
  <2>9. NoDateSkipped'
    <3> SUFFICES ASSUME NEW u \in Templates, template'[u].status # "none"
                 PROVE  /\ Follows(u, template[u].next)'
                        /\ \A e \in Dates(u)' : Follows(u, e)'
      BY DEF NoDateSkipped
    <3>1. CASE u = t
      <4>1. Follows(u, template[u].next)'
        BY <2>1, <2>4, <2>7, <3>1 DEF Follows, Dates
      <4>2. ASSUME NEW e \in Dates(u)'
            PROVE  Follows(u, e)'
        <5>1. e = d \/ e \in Dates(t)
          BY <2>7, <3>1, <4>2 DEF Dates
        <5>2. Follows(t, e)
          BY <2>1, <5>1 DEF Schedule, NoDateSkipped
        <5>3. QED
          BY <2>1, <2>2, <2>8, <3>1, <5>2, FollowsStays
      <4>3. QED
        BY <4>1, <4>2
    <3>2. CASE u # t
      BY <2>2, <2>5, <3>2 DEF Schedule, NoDateSkipped, Follows, Dates
    <3>3. QED
      BY <3>1, <3>2
  <2>10. SeenFollows'
    <3> SUFFICES ASSUME NEW q \in Runners, seen'[q] # None
                 PROVE  /\ template'[seen'[q].tpl].status # "none"
                        /\ Follows(seen[q].tpl, seen[q].date)'
      BY DEF SeenFollows
    <3>1. seen'[q] = seen[q] /\ seen[q].tpl \in Templates
      BY <1>0, <2>2, Held
    <3>2. template[seen[q].tpl].status # "none" /\ Follows(seen[q].tpl, seen[q].date)
      BY <3>1 DEF Schedule, SeenFollows
    <3>3. Follows(seen[q].tpl, seen[q].date)'
      BY <2>2, <2>8, <3>1, <3>2, FollowsStays DEF Follows, Dates
    <3>4. template'[seen[q].tpl].status # "none"
      BY <2>1, <2>4, <2>5, <3>1, <3>2
    <3>5. QED
      BY <3>1, <3>3, <3>4 DEF Follows, Dates
  <2>11. Untouched'
    BY <2>1, <2>4, <2>5 DEF Schedule, Untouched
  <2>12. QED
    BY <2>9, <2>10, <2>11 DEF Schedule
<1>6. CASE UNCHANGED <<template, start, made, seen>>
  BY <1>0, <1>6, ScheduleStays
<1>7. ASSUME NEW r \in Runners, Fails(r)
      PROVE  Schedule'
  <2>1. UNCHANGED <<template, start, made>> /\ seen' = [seen EXCEPT ![r] = None]
    BY <1>7 DEF Fails
  <2>2. \A q \in Runners : seen'[q] # None => seen'[q] = seen[q]
    BY <1>0, <2>1
  <2>3. QED
    BY <1>0, <2>1, <2>2, ScheduleStays
<1>8. CASE Crash
  BY <1>0, <1>8, ScheduleStays DEF Crash
<1>9. ASSUME NEW r \in Runners, NEW t \in Templates,
             Misconfigure(t) \/ RunOne(r, t) \/ ProcessDue(r) \/ Tick
               \/ NotNow(r, t) \/ NewDay
      PROVE  UNCHANGED <<template, start, made, seen>>
  BY <1>9 DEF Misconfigure, RunOne, ProcessDue, Tick, NotNow, NewDay, runs
<1>10. CASE UNCHANGED recurringVars
  BY <1>6, <1>10 DEF recurringVars
<1>11. CASE RecurringNext
  <2>1. CASE Tick \/ NewDay
    BY <1>6, <2>1 DEF Tick, NewDay, runs
  <2>2. CASE \E r \in Requests : ProcessDue(r)
    BY <1>6, <2>2 DEF ProcessDue
  <2>3. CASE \E t \in Templates : Misconfigure(t) \/ \E r \in Requests : RunOne(r, t)
    BY <1>6, <2>3 DEF Misconfigure, RunOne, runs
  <2>4. CASE \E r \in Runners : Run(r)
    <3>1. PICK r \in Runners : Run(r)
      BY <2>4
    <3>2. CASE \E t \in Templates : NotNow(r, t) \/ Read(r, t)
      BY <1>4, <1>6, <1>9, <3>2
    <3>3. CASE PastEnd(r) \/ Generate(r) \/ Fails(r)
      BY <1>3, <1>5, <1>7, <3>3
    <3>4. QED
      BY <3>1, <3>2, <3>3 DEF Run
  <2>5. QED
    BY <1>1, <1>2, <1>8, <1>11, <2>1, <2>2, <2>3, <2>4 DEF RecurringNext
<1>12. QED
  BY <1>10, <1>11

LEMMA ScheduleInit == RecurringInit => Schedule
BY DEF RecurringInit, Schedule, NoDateSkipped, SeenFollows, Untouched

(* However runs overlap, fail and are interrupted, no date of a schedule is *)
(* skipped: the expenses a template has are dates that follow one another   *)
(* from its start, and so is the next one.                                  *)
THEOREM NothingSkipped == RecurringSpec => []NoDateSkipped
<1>1. RecurringInit => RecurringTypeOK /\ Schedule
  BY TypedInit, ScheduleInit
<1>2. RecurringTypeOK /\ Schedule /\ [RecurringNext]_recurringVars => RecurringTypeOK' /\ Schedule'
  BY TypedStep, ScheduleStep
<1>3. Schedule => NoDateSkipped
  BY DEF Schedule
<1>4. QED
  BY <1>1, <1>2, <1>3, PTL DEF RecurringSpec

-----------------------------------------------------------------------------
(* Unless two runs had it at a time: one run at most has read a template,   *)
OneAtATime ==
  \A q, r \in Runners :
    seen[q] # None /\ seen[r] # None /\ seen[q].tpl = seen[r].tpl
      /\ seen[r].tpl \notin overlap => q = r

(* what it read is still the next date,                                     *)
Current ==
  \A r \in Runners : seen[r] # None /\ seen[r].tpl \notin overlap =>
    /\ template[seen[r].tpl].status # "none"
    /\ template[seen[r].tpl].next = seen[r].date

(* and the dates from the next one on have no expense yet.                  *)
Ahead ==
  \A t \in Templates \ overlap, d \in Days :
    d >= template[t].next => made[t][d] = 0

Single == OneAtATime /\ Current /\ Ahead /\ Untouched /\ OncePerDate

(* It stays so when rows keep their next date and runs are only dropped.    *)
LEMMA SingleStays ==
  ASSUME Single, UNCHANGED <<made, overlap>>,
         \A t \in Templates :
           /\ template'[t].next = template[t].next
           /\ template'[t].status = "none" <=> template[t].status = "none",
         \A r \in Runners : seen'[r] # None => seen'[r] = seen[r],
         seen \in [Runners -> Reading \cup {None}]
  PROVE  Single'
<1>1. OneAtATime'
  BY DEF Single, OneAtATime
<1>2. Current'
  <2> SUFFICES ASSUME NEW r \in Runners, seen'[r] # None, seen'[r].tpl \notin overlap'
               PROVE  /\ template'[seen'[r].tpl].status # "none"
                      /\ template'[seen'[r].tpl].next = seen'[r].date
    BY DEF Current
  <2>1. seen'[r] = seen[r] /\ seen[r].tpl \in Templates
    BY Held
  <2>2. QED
    BY <2>1 DEF Single, Current
<1>3. Ahead' /\ Untouched' /\ OncePerDate'
  BY DEF Single, Ahead, Untouched, OncePerDate
<1>4. QED
  BY <1>1, <1>2, <1>3 DEF Single

LEMMA SingleStep == RecurringTypeOK /\ Schedule /\ Single /\ [RecurringNext]_recurringVars => Single'
<1> SUFFICES ASSUME RecurringTypeOK, Schedule, Single, [RecurringNext]_recurringVars PROVE Single'
  OBVIOUS
<1>0. seen \in [Runners -> Reading \cup {None}]
  BY DEF RecurringTypeOK
<1>1. ASSUME NEW t \in Templates, NEW auto \in BOOLEAN, NEW end \in Ends,
             NEW d \in Starts, CreateRecurring(t, d, auto, end)
      PROVE  Single'
  <2>1. template[t].status = "none" /\ \A e \in Days : made[t][e] = 0
    BY <1>1 DEF CreateRecurring, Single, Untouched
  <2>2. /\ template'[t].status = "active"
        /\ \A u \in Templates \ {t} : template'[u] = template[u]
        /\ made' = made /\ seen' = seen /\ overlap' = overlap
    BY <1>1 DEF CreateRecurring, RecurringTypeOK, runs
  <2>3. Current'
    <3> SUFFICES ASSUME NEW r \in Runners, seen[r] # None, seen[r].tpl \notin overlap
                 PROVE  /\ template'[seen[r].tpl].status # "none"
                        /\ template'[seen[r].tpl].next = seen[r].date
      BY <2>2 DEF Current
    <3>1. seen[r].tpl \in Templates \ {t}
      BY <1>0, <2>1, Held DEF Single, Current
    <3>2. QED
      BY <2>2, <3>1 DEF Single, Current
  <2>4. OneAtATime' /\ OncePerDate'
    BY <2>2 DEF Single, OneAtATime, OncePerDate
  <2>5. Ahead' /\ Untouched'
    BY <2>1, <2>2 DEF Single, Ahead, Untouched
  <2>6. QED
    BY <2>3, <2>4, <2>5 DEF Single
<1>2. ASSUME NEW t \in Templates, NEW auto \in BOOLEAN, NEW end \in Ends,
             NEW s \in {"active", "paused", "ended"}, UpdateRecurring(t, s, auto, end)
      PROVE  Single'
  <2>1. template' = [template EXCEPT ![t] =
          [template[t] EXCEPT !.status = s, !.auto = auto, !.end = end]]
    BY <1>2 DEF UpdateRecurring
  <2>2. template[t] \in RecurringRow /\ template[t].status # "none"
    BY <1>2 DEF UpdateRecurring, RecurringTypeOK
  <2>3. template'[t].next = template[t].next /\ template'[t].status = s
    BY <2>1, <2>2 DEF RecurringTypeOK, RecurringRow
  <2>4. \A u \in Templates \ {t} : template'[u] = template[u]
    BY <2>1 DEF RecurringTypeOK
  <2>5. UNCHANGED <<made, seen, overlap>>
    BY <1>2 DEF UpdateRecurring, runs
  <2>6. \A u \in Templates :
           /\ template'[u].next = template[u].next
           /\ template'[u].status = "none" <=> template[u].status = "none"
    BY <2>2, <2>3, <2>4
  <2>7. QED
    BY <1>0, <2>5, <2>6, SingleStays
<1>3. ASSUME NEW r \in Runners, PastEnd(r)
      PROVE  Single'
  <2> DEFINE t == seen[r].tpl
  <2>0. t \in Templates /\ template[t].status # "none"
    BY <1>0, <1>3, Held DEF PastEnd, Schedule, SeenFollows
  <2>1. template' = [template EXCEPT ![t] = [template[t] EXCEPT !.status = "ended"]]
    BY <1>3 DEF PastEnd
  <2>2. template[t] \in RecurringRow /\ template[t].status # "none"
    BY <2>0 DEF RecurringTypeOK
  <2> HIDE DEF t
  <2>3. template'[t].next = template[t].next /\ template'[t].status = "ended"
    BY <2>0, <2>1, <2>2 DEF RecurringTypeOK, RecurringRow
  <2>4. \A u \in Templates \ {t} : template'[u] = template[u]
    BY <2>1 DEF RecurringTypeOK
  <2>5. UNCHANGED <<made, overlap>> /\ \A q \in Runners : seen'[q] # None => seen'[q] = seen[q]
    BY <1>0, <1>3 DEF PastEnd
  <2>6. \A u \in Templates :
           /\ template'[u].next = template[u].next
           /\ template'[u].status = "none" <=> template[u].status = "none"
    BY <2>2, <2>3, <2>4
  <2>7. QED
    BY <1>0, <2>5, <2>6, SingleStays
<1>4. ASSUME NEW r \in Runners, NEW t \in Templates, Read(r, t)
      PROVE  Single'
  <2>1. /\ UNCHANGED <<template, made>>
        /\ seen' = [seen EXCEPT ![r] =
             [tpl |-> t, date |-> template[t].next, past |-> Ended(t)]]
        /\ template[t].status = "active"
        /\ overlap \subseteq overlap'
    BY <1>4 DEF Read
  <2>2. (\E q \in Runners \ {r} : seen[q] # None /\ seen[q].tpl = t) => t \in overlap'
    BY <1>4 DEF Read
  <2>3. seen'[r].tpl = t /\ seen'[r].date = template[t].next
    BY <1>0, <2>1
  <2>4. \A q \in Runners \ {r} : seen'[q] = seen[q]
    BY <1>0, <2>1
  <2>5. OneAtATime'
    <3> SUFFICES ASSUME NEW p \in Runners, NEW q \in Runners,
                        seen'[p] # None, seen'[q] # None,
                        seen'[p].tpl = seen'[q].tpl, seen'[q].tpl \notin overlap'
                 PROVE  p = q
      BY DEF OneAtATime
    <3>1. CASE p # r /\ q # r
      BY <2>1, <2>4, <3>1 DEF Single, OneAtATime
    <3>2. CASE p = r \/ q = r
      BY <2>2, <2>3, <2>4, <3>2
    <3>3. QED
      BY <3>1, <3>2
  <2>6. Current'
    <3> SUFFICES ASSUME NEW q \in Runners, seen'[q] # None, seen'[q].tpl \notin overlap'
                 PROVE  /\ template'[seen'[q].tpl].status # "none"
                        /\ template'[seen'[q].tpl].next = seen'[q].date
      BY DEF Current
    <3>1. CASE q = r
      BY <2>1, <2>3, <3>1
    <3>2. CASE q # r
      BY <2>1, <2>4, <3>2 DEF Single, Current
    <3>3. QED
      BY <3>1, <3>2
  <2>7. Ahead' /\ Untouched' /\ OncePerDate'
    BY <2>1 DEF Single, Ahead, Untouched, OncePerDate
  <2>8. QED
    BY <2>5, <2>6, <2>7 DEF Single
<1>5. ASSUME NEW r \in Runners, Generate(r)
      PROVE  Single'
  <2> DEFINE t == seen[r].tpl
             d == seen[r].date
  <2>1. t \in Templates /\ d \in Days /\ seen[r] # None
    BY <1>0, <1>5, Held DEF Generate
  <2>2. /\ template' = [template EXCEPT ![t] = [template[t] EXCEPT !.next = NextRun(d)]]
        /\ made' = [made EXCEPT ![t] = [made[t] EXCEPT ![d] = made[t][d] + 1]]
        /\ overlap' = overlap
        /\ seen' = [seen EXCEPT ![r] = None]
    BY <1>5 DEF Generate
  <2>3. template[t] \in RecurringRow /\ made[t] \in [Days -> Nat]
    BY <2>1 DEF RecurringTypeOK
  <2>4. NextRun(d) \in Nat /\ NextRun(d) > d /\ d \in Nat
    <3> HIDE DEF d
    <3>1. d \in Nat /\ Gap[d] \in Nat \ {0}
      BY <2>1, DaysAreNat, RecurringAssumption
    <3>2. QED
      BY <3>1 DEF NextRun
  <2>5. t \notin overlap => template[t].status # "none" /\ template[t].next = d
    BY <2>1 DEF Single, Current
  <2>6. \A q \in Runners \ {r} :
          seen[q] # None /\ seen[q].tpl \notin overlap => seen[q].tpl # t
    BY <2>1 DEF Single, OneAtATime
  <2>7. \A q \in Runners : seen'[q] # None => q # r /\ seen'[q] = seen[q]
    BY <1>0, <2>2
  <2> HIDE DEF t, d
  <2>8. template'[t].next = NextRun(d) /\ template'[t].status = template[t].status
    BY <2>1, <2>2, <2>3 DEF RecurringTypeOK, RecurringRow
  <2>9. \A u \in Templates \ {t} : template'[u] = template[u] /\ made'[u] = made[u]
    BY <2>2 DEF RecurringTypeOK
  <2>10. made'[t] = [made[t] EXCEPT ![d] = made[t][d] + 1]
    BY <2>1, <2>2 DEF RecurringTypeOK
  <2>11. /\ made'[t][d] = made[t][d] + 1
         /\ \A e \in Days \ {d} : made'[t][e] = made[t][e]
    BY <2>1, <2>3, <2>10
  <2>12. OneAtATime'
    BY <2>2, <2>7 DEF Single, OneAtATime
  <2>13. Current'
    <3> SUFFICES ASSUME NEW q \in Runners, seen'[q] # None, seen'[q].tpl \notin overlap'
                 PROVE  /\ template'[seen'[q].tpl].status # "none"
                        /\ template'[seen'[q].tpl].next = seen'[q].date
      BY DEF Current
    <3>1. /\ q # r /\ seen'[q] = seen[q]
          /\ seen[q].tpl \in Templates \ {t}
      BY <1>0, <2>2, <2>6, <2>7, Held
    <3>2. QED
      BY <2>2, <2>9, <3>1 DEF Single, Current
  <2>14. Ahead'
    <3> SUFFICES ASSUME NEW u \in Templates \ overlap, NEW e \in Days,
                        e >= template'[u].next
                 PROVE  made'[u][e] = 0
      BY <2>2 DEF Ahead
    <3>1. CASE u = t
      <4>1. e \in Nat /\ template[t].next = d /\ e > d
        BY <2>4, <2>5, <2>8, <3>1, DaysAreNat
      <4>2. made[t][e] = 0
        BY <2>4, <3>1, <4>1 DEF Single, Ahead
      <4>3. QED
        BY <2>4, <2>11, <3>1, <4>1, <4>2
    <3>2. CASE u # t
      BY <2>9, <3>2 DEF Single, Ahead
    <3>3. QED
      BY <3>1, <3>2
  <2>15. OncePerDate'
    <3> SUFFICES ASSUME NEW u \in Templates \ overlap, NEW e \in Days
                 PROVE  made'[u][e] <= 1
      BY <2>2 DEF OncePerDate
    <3>1. CASE u = t /\ e = d
      <4>1. made[t][d] = 0
        BY <2>1, <2>4, <2>5, <3>1 DEF Single, Ahead
      <4>2. QED
        BY <2>11, <3>1, <4>1
    <3>2. CASE u # t \/ e # d
      BY <2>9, <2>11, <3>2 DEF Single, OncePerDate
    <3>3. QED
      BY <3>1, <3>2
  <2>16. Untouched'
    <3> SUFFICES ASSUME NEW u \in Templates, template'[u].status = "none", NEW e \in Days
                 PROVE  made'[u][e] = 0
      BY DEF Untouched
    <3>1. CASE u # t
      BY <2>9, <3>1 DEF Single, Untouched
    <3>2. CASE u = t
      <4>1. template[t].status # "none"
        BY <2>1 DEF Schedule, SeenFollows, t
      <4>2. QED
        BY <2>8, <3>2, <4>1
    <3>3. QED
      BY <3>1, <3>2
  <2>17. QED
    BY <2>12, <2>13, <2>14, <2>15, <2>16 DEF Single
<1>6. CASE UNCHANGED <<template, made, seen, overlap>>
  BY <1>0, <1>6, SingleStays
<1>7. ASSUME NEW r \in Runners, Fails(r)
      PROVE  Single'
  <2>1. UNCHANGED <<template, made, overlap>> /\ seen' = [seen EXCEPT ![r] = None]
    BY <1>7 DEF Fails
  <2>2. \A q \in Runners : seen'[q] # None => seen'[q] = seen[q]
    BY <1>0, <2>1
  <2>3. QED
    BY <1>0, <2>1, <2>2, SingleStays
<1>8. CASE Crash
  BY <1>0, <1>8, SingleStays DEF Crash
<1>9. CASE UNCHANGED recurringVars
  BY <1>6, <1>9 DEF recurringVars
<1>10. CASE RecurringNext
  <2>1. CASE Tick \/ NewDay
    BY <1>6, <2>1 DEF Tick, NewDay, runs
  <2>2. CASE \E r \in Requests : ProcessDue(r)
    BY <1>6, <2>2 DEF ProcessDue
  <2>3. CASE \E t \in Templates : Misconfigure(t) \/ \E r \in Requests : RunOne(r, t)
    BY <1>6, <2>3 DEF Misconfigure, RunOne, runs
  <2>4. CASE \E r \in Runners : Run(r)
    <3>1. PICK r \in Runners : Run(r)
      BY <2>4
    <3>2. CASE \E t \in Templates : NotNow(r, t)
      BY <1>6, <3>2 DEF NotNow
    <3>3. CASE \E t \in Templates : Read(r, t)
      BY <1>4, <3>3
    <3>4. CASE PastEnd(r) \/ Generate(r) \/ Fails(r)
      BY <1>3, <1>5, <1>7, <3>4
    <3>5. QED
      BY <3>1, <3>2, <3>3, <3>4 DEF Run
  <2>5. QED
    BY <1>1, <1>2, <1>8, <1>10, <2>1, <2>2, <2>3, <2>4 DEF RecurringNext
<1>11. QED
  BY <1>9, <1>10

LEMMA SingleInit == RecurringInit => Single
BY DEF RecurringInit, Single, OneAtATime, Current, Ahead, Untouched, OncePerDate

(* Unless two runs had read the template at a time, a date of its schedule  *)
(* has one expense, whatever is edited, fails or crashes in between.        *)
THEOREM NothingTwice == RecurringSpec => []OncePerDate
<1>1. RecurringInit => RecurringTypeOK /\ Schedule /\ Single
  BY TypedInit, ScheduleInit, SingleInit
<1>2. RecurringTypeOK /\ Schedule /\ Single /\ [RecurringNext]_recurringVars => RecurringTypeOK' /\ Schedule' /\ Single'
  BY TypedStep, ScheduleStep, SingleStep
<1>3. Single => OncePerDate
  BY DEF Single
<1>4. QED
  BY <1>1, <1>2, <1>3, PTL DEF RecurringSpec
==============================================================================
