------------------------------ MODULE MCReturns ------------------------------
(* Returns for TLC: a resellable piece of the invoice, a damaged one without, *)
(* and two damaged pieces listed one by one.  An edit adds a piece to the     *)
(* listed one or takes its item away; an item can only be added after that.   *)
EXTENDS Returns, TLC

OneOfEach == {[qty |-> 1, again |-> 0, fate |-> "shelf", linked |-> TRUE],
              [qty |-> 1, again |-> 0, fate |-> "damaged", linked |-> FALSE],
              [qty |-> 2, again |-> 1, fate |-> "damaged", linked |-> TRUE]}

UpOrAway == {[kind |-> "update", qty |-> 2], [kind |-> "remove", qty |-> 0]}

Perms == Permutations(Returns) \cup Permutations(Requests)
=============================================================================
