----------------------------- MODULE MCPayments -----------------------------
(***************************************************************************)
(* Payments for TLC: values of the constants.                              *)
(***************************************************************************)
EXTENDS Payments, TLC

MCDue == [i \in 1..NInvoices |-> IF i = 1 THEN 2 ELSE 1]
Symmetric == Permutations(Submissions) \cup Permutations(Requests)
=============================================================================
