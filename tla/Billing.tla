------------------------------ MODULE Billing -------------------------------
(***************************************************************************)
(* The totals of invoices and everything that writes them: createManual,   *)
(* applyDiscount and applyLateFee of InvoicesService, createUtilityBill of *)
(* UtilitiesService, the allocation of a payment, and the nightly overdue  *)
(* job.  Each reads an invoice, computes, and writes absolute values in a  *)
(* later statement.                                                        *)
(*                                                                         *)
(* Dates are abstracted: any PENDING invoice may be past its due date.  A  *)
(* payment here meets one invoice; how it is spread over several is the    *)
(* subject of Payments.                                                    *)
(***************************************************************************)
EXTENDS Integers, FiniteSets

CONSTANTS
  Requests,    \* slots for requests and job runs in flight
  Invoices,    \* rows of invoices that may come to exist
  Amounts, Discounts, Bills, Receipts,   \* what users may enter
  Fee,         \* late_fee_flat of the agreement
  MaxReceived, \* bound: no payment starts once an invoice has received this much
  None

ASSUME BillingAssumption ==
  /\ Amounts \subseteq Nat
  /\ Discounts \subseteq Nat
  /\ Bills \subseteq Int
  /\ Receipts \subseteq Nat \ {0}
  /\ Fee \in Nat
  /\ MaxReceived \in Nat
  /\ None \notin Invoices

VARIABLES
  inv,        \* the invoices
  billed,     \* those with a utility bill
  received,   \* history: what was paid on each invoice
  credit,     \* credit_amount of the tenant
  req         \* requests and job runs in flight

tables == <<inv, billed, received, credit>>
vars   == <<tables, req>>

-----------------------------------------------------------------------------
Status == {"none", "PENDING", "OVERDUE", "PAID"}
Row    == [status : Status, rent : BOOLEAN, amount : Int, discount : Nat,
           fee : {0, Fee}, due : Int]
NoRow  == [status |-> "none", rent |-> FALSE, amount |-> 0, discount |-> 0,
           fee |-> 0, due |-> 0]

Pcs == {"idle", "discountWrite", "billWrite", "payWrite", "scan", "loop", "feeWrite"}

Idle == [pc |-> "idle", inv |-> None, row |-> NoRow, arg |-> 0, todo |-> {}]

TypeOK ==
  /\ inv \in [Invoices -> Row]
  /\ billed \subseteq Invoices
  /\ received \in [Invoices -> Nat]
  /\ credit \in Nat
  /\ req \in [Requests -> [pc : Pcs, inv : Invoices \cup {None}, row : Row, arg : Int,
                           todo : SUBSET Invoices]]

Init ==
  /\ inv = [i \in Invoices |-> NoRow]
  /\ billed = {}
  /\ received = [i \in Invoices |-> 0]
  /\ credit = 0
  /\ req = [r \in Requests |-> Idle]

IsOpen(row) == row.status \in {"PENDING", "OVERDUE"}
AtLeastZero(n) == IF n > 0 THEN n ELSE 0

At(r, pc)  == req[r].pc = pc
Finish(r)  == req' = [req EXCEPT ![r] = Idle]

\* A request has read invoice i and goes on to write it.
ReadFor(r, pc, i, arg) ==
  /\ At(r, "idle")
  /\ req' = [req EXCEPT ![r] = [Idle EXCEPT !.pc = pc, !.inv = i, !.row = inv[i],
                                            !.arg = arg]]
  /\ UNCHANGED tables

-----------------------------------------------------------------------------
(* createManual, and the monthly rent invoice (no discount). *)

CreateInvoice(r, i, rent, amount, discount) ==
  /\ At(r, "idle")
  /\ inv[i].status = "none"
  /\ inv' = [inv EXCEPT ![i] = [status |-> "PENDING", rent |-> rent, amount |-> amount,
                                discount |-> discount, fee |-> 0,
                                due |-> amount - discount]]
  /\ UNCHANGED <<billed, received, credit, req>>

(* applyDiscount *)

DiscountRead(r, i, d) == inv[i].status = "PENDING" /\ ReadFor(r, "discountWrite", i, d)

Discounted(row, d) == AtLeastZero(row.amount - d + row.fee)

DiscountWrite(r) ==
  LET q == req[r] IN
  /\ At(r, "discountWrite")
  /\ inv' = [inv EXCEPT ![q.inv].discount = q.arg,
                        ![q.inv].due = Discounted(q.row, q.arg)]
  /\ Finish(r)
  /\ UNCHANGED <<billed, received, credit>>

(* createUtilityBill *)

BillRead(r, i, b) == inv[i].status # "none" /\ ReadFor(r, "billWrite", i, b)

\* Mutant: the late fee is left out of the new total.
Billed_NoFee(row, b) == b - row.discount

Billed(row, b) == b - row.discount + row.fee

\* utility_bills is unique by invoice: a second bill fails.
BillWrite(r) ==
  LET q == req[r] IN
  /\ At(r, "billWrite")
  /\ IF q.inv \in billed
       THEN UNCHANGED <<inv, billed>>
       ELSE /\ billed' = billed \cup {q.inv}
            /\ inv' = [inv EXCEPT ![q.inv].amount = q.arg,
                                  ![q.inv].due = Billed(q.row, q.arg)]
  /\ Finish(r)
  /\ UNCHANGED <<received, credit>>

(* processFifoPayment, for the one invoice that is open *)

PayRead(r, i, a) ==
  /\ IsOpen(inv[i])
  /\ received[i] < MaxReceived
  /\ ReadFor(r, "payWrite", i, a)

\* Mutant: every payment pays the invoice.
Covers_Always(paid, due) == TRUE

Covers(paid, due) == paid >= due

PayWrite(r) ==
  LET q == req[r] IN
  /\ At(r, "payWrite")
  /\ IF Covers(q.arg, q.row.due)
       THEN /\ inv' = [inv EXCEPT ![q.inv].status = "PAID", ![q.inv].due = 0]
            /\ credit' = credit + q.arg - q.row.due
       ELSE /\ inv' = [inv EXCEPT ![q.inv].due = q.row.due - q.arg]
            /\ UNCHANGED credit
  /\ received' = [received EXCEPT ![q.inv] = @ + q.arg]
  /\ Finish(r)
  /\ UNCHANGED billed

-----------------------------------------------------------------------------
(* The overdue job: markOverdueInvoices, then applyLateFees. *)

\* The PENDING invoices of S are past their due date.
NightMark(r, S) ==
  /\ At(r, "idle")
  /\ inv' = [i \in Invoices |-> IF i \in S /\ inv[i].status = "PENDING"
                                  THEN [inv[i] EXCEPT !.status = "OVERDUE"] ELSE inv[i]]
  /\ req' = [req EXCEPT ![r].pc = "scan"]
  /\ UNCHANGED <<billed, received, credit>>

NeedsFee(i) == inv[i].status = "OVERDUE" /\ inv[i].fee = 0 /\ inv[i].rent

NightScan(r) ==
  /\ At(r, "scan")
  /\ req' = [req EXCEPT ![r].pc = "loop",
                        ![r].todo = {i \in Invoices : NeedsFee(i) /\ Fee > 0}]
  /\ UNCHANGED tables

\* applyLateFee reads the invoice again and leaves a PAID one alone.  Mutant:
\* it does not look.
TakesFee_Any(row) == TRUE

TakesFee(row) == row.status # "PAID"

FeeRead(r, i) ==
  /\ At(r, "loop")
  /\ i \in req[r].todo
  /\ req' = [req EXCEPT ![r] =
               IF TakesFee(inv[i])
                 THEN [@ EXCEPT !.pc = "feeWrite", !.inv = i, !.row = inv[i]]
                 ELSE [@ EXCEPT !.todo = req[r].todo \ {i}]]
  /\ UNCHANGED tables

\* Mutant: the fee is not recorded, only added to the total.
FeeWrite_TotalOnly(r) ==
  LET q == req[r] IN
  /\ At(r, "feeWrite")
  /\ inv' = [inv EXCEPT ![q.inv].status = "OVERDUE",
                        ![q.inv].due = q.row.amount - q.row.discount + Fee]
  /\ req' = [req EXCEPT ![r] = [Idle EXCEPT !.pc = "loop", !.todo = q.todo \ {q.inv}]]
  /\ UNCHANGED <<billed, received, credit>>

FeeWrite(r) ==
  LET q == req[r] IN
  /\ At(r, "feeWrite")
  /\ inv' = [inv EXCEPT ![q.inv].status = "OVERDUE", ![q.inv].fee = Fee,
                        ![q.inv].due = q.row.amount - q.row.discount + Fee]
  /\ req' = [req EXCEPT ![r] = [Idle EXCEPT !.pc = "loop", !.todo = q.todo \ {q.inv}]]
  /\ UNCHANGED <<billed, received, credit>>

NightEnd(r) ==
  /\ At(r, "loop")
  /\ req[r].todo = {}
  /\ Finish(r)
  /\ UNCHANGED tables

\* A request or job run stops between two statements; a job is not retried,
\* the next night runs another.
Abort(r) ==
  /\ ~ At(r, "idle")
  /\ Finish(r)
  /\ UNCHANGED tables

-----------------------------------------------------------------------------
NightStart(r) == \E S \in SUBSET Invoices : NightMark(r, S)

NightStep(r) ==
  \/ NightScan(r)
  \/ \E i \in Invoices : FeeRead(r, i)
  \/ FeeWrite(r)
  \/ NightEnd(r)

Enter(r) ==
  \E i \in Invoices :
    \/ \E rent \in BOOLEAN, a \in Amounts, d \in Discounts : CreateInvoice(r, i, rent, a, d)
    \/ \E d \in Discounts : DiscountRead(r, i, d)
    \/ \E b \in Bills : BillRead(r, i, b)
    \/ \E a \in Receipts : PayRead(r, i, a)

Write(r) == DiscountWrite(r) \/ BillWrite(r) \/ PayWrite(r)

Next ==
  \E r \in Requests : Enter(r) \/ Write(r) \/ NightStart(r) \/ NightStep(r) \/ Abort(r)

Spec == Init /\ [][Next]_vars

\* Requests come to an end; a night comes again and again, and the runs of the
\* job do not fail for ever at the same statement of the same invoice.
FairSpec ==
  /\ Spec
  /\ WF_vars(\E r \in Requests : Write(r))
  /\ SF_vars(\E r \in Requests : NightStart(r))
  /\ SF_vars(\E r \in Requests : NightScan(r))
  /\ \A i \in Invoices :
       /\ SF_vars(\E r \in Requests : FeeRead(r, i))
       /\ SF_vars(\E r \in Requests : FeeWrite(r) /\ req[r].inv = i)

-----------------------------------------------------------------------------
\* What request r read is still what is in the table.
Fresh(r) == req[r].row = inv[req[r].inv]

\* The schema: "total_due = amount - discount + late_fee_applied"; a discount
\* above the amount makes it 0.
FollowsColumns(row) ==
  LET total == row.amount - row.discount + row.fee
  IN  row.due = total \/ (row.due = 0 /\ total < 0)

\* As long as nothing is paid, no discount, fee or bill that was computed from
\* the current row breaks the total of an invoice.
FreshWritesKeepTotals ==
  [][\A i \in Invoices :
       (/\ FollowsColumns(inv[i])
        /\ received'[i] = 0
        /\ \A r \in Requests : req[r].inv = i /\ req[r] # req'[r] => Fresh(r))
         => FollowsColumns(inv'[i])]_vars

\* A PAID invoice stays PAID, unless it was paid between the two statements of
\* applyLateFee.
OnlyStaleFeeReopens ==
  [][\A i \in Invoices :
       (inv[i].status = "PAID" /\ inv'[i].status # "PAID") =>
         \E r \in Requests : At(r, "feeWrite") /\ req[r].inv = i
                               /\ req[r].row.status # "PAID"]_vars

\* Whatever fails on the way, an overdue rent invoice is charged its late fee
\* in the end, unless it is paid first (overdue job).
OverdueIsCharged ==
  \A i \in Invoices :
    NeedsFee(i) ~> (inv[i].fee = Fee \/ inv[i].status = "PAID")
=============================================================================
