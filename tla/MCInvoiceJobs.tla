--------------------------- MODULE MCInvoiceJobs ----------------------------
(***************************************************************************)
(* InvoiceJobs for TLC: months of two days, two agreements that are due on *)
(* the first and one on the second.                                        *)
(***************************************************************************)
EXTENDS InvoiceJobs

CONSTANTS a1, a2, a3

MCAgreements    == {a1, a2, a3}
MCCollectionDay == [a \in MCAgreements |-> IF a = a3 THEN 2 ELSE 1]
=============================================================================
