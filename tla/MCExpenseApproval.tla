------------------------- MODULE MCExpenseApproval -------------------------
(* Amounts 1 < 2 < 3: nothing asked for 1, one level for 2, three for 3. *)
EXTENDS ExpenseApproval
CONSTANTS r1, r2, r3
MCBracket == [r \in Rules |-> IF r = r1 THEN {2, 3} ELSE {3}]
=============================================================================
