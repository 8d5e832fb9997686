----------------------------- MODULE SaleIntake -----------------------------
(***************************************************************************)
(* What the offline path promises (docs/OFFLINE_STRATEGY.md, sync.service  *)
(* header): a sale rung up on a device is booked on the server at most     *)
(* once, and the device forgets it as done only after it was booked.  A    *)
(* device may also give a sale up; nothing is promised about that one.     *)
(* Some failures leave the server unsure whether it booked a sale; only    *)
(* such a sale may be booked again.                                        *)
(***************************************************************************)
EXTENDS Naturals

CONSTANT Sales

VARIABLES
  booked,  \* Sales -> number of invoices the server holds for the sale
  acked,   \* the sales the device considers done
  givenUp, \* the sales the device stopped sending
  unsure   \* the sales a failure left in doubt

vars == <<booked, acked, givenUp, unsure>>

Init ==
  /\ booked = [s \in Sales |-> 0]
  /\ acked = {}
  /\ givenUp = {}
  /\ unsure = {}

Book(s) ==
  /\ booked[s] = 0 \/ s \in unsure
  /\ booked' = [booked EXCEPT ![s] = @ + 1]
  /\ UNCHANGED <<acked, givenUp, unsure>>

(* A failure; one crash leaves several sales in doubt. *)
Doubt(S) ==
  /\ unsure' = unsure \cup S
  /\ UNCHANGED <<booked, acked, givenUp>>

(* One answer of the server settles several sales of a batch. *)
Settle(done, lost) ==
  /\ \A s \in done : booked[s] >= 1
  /\ (done \cup lost) \cap (acked \cup givenUp) = {}
  /\ done \cap lost = {}
  /\ acked' = acked \cup done
  /\ givenUp' = givenUp \cup lost
  /\ UNCHANGED <<booked, unsure>>

Next ==
  \/ \E s \in Sales : Book(s)
  \/ \E S \in SUBSET Sales : Doubt(S)
  \/ \E done, lost \in SUBSET Sales : Settle(done, lost)

Spec == Init /\ [][Next]_vars
=============================================================================
