----------------------------- MODULE MCCashDesk -----------------------------
(* CashDesk for TLC. *)
EXTENDS CashDesk
=============================================================================
