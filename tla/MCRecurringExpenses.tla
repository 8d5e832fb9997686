------------------------- MODULE MCRecurringExpenses -------------------------
(* RecurringExpenses for TLC: a schedule of uneven gaps. *)
EXTENDS RecurringExpenses
MCGap == [d \in Days |-> IF d = 1 THEN 2 ELSE 1]
MCEnds == {0, Never}
=============================================================================
