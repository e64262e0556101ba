------------------------------ MODULE Payments ------------------------------
(***************************************************************************)
(* Rent payments of one tenant to one landlord: PaymentsService (receipt   *)
(* upload, PayHere confirmation, approval, rejection), the FIFO allocation *)
(* of InvoicesService that an approval triggers, and the payout of credit  *)
(* of TenantsService.                                                      *)
(*                                                                         *)
(* Every `await this.prisma...` is one step of a request; the requests of  *)
(* all users interleave at those steps.  The database is PostgreSQL at     *)
(* READ COMMITTED: a read outside a transaction sees committed rows and    *)
(* locks nothing, an update waits while another transaction holds the row. *)
(* What a transaction has written and not yet committed is kept in the     *)
(* record of its request and reaches the tables in the commit step.        *)
(***************************************************************************)
EXTENDS Integers, FiniteSets

CONSTANTS
  Requests,       \* slots for HTTP requests in flight
  Submissions,    \* rows of payment_submissions that may come to exist
  NInvoices,      \* invoices of the tenant, numbered by due_date
  InitialDue,     \* total_due of each invoice when the model starts
  Amounts,        \* amounts a tenant may declare on a receipt
  PoolSize,       \* connections in Prisma's pool
  MaxLateAborts,  \* of one submission, how many allocations outlive their approval
  None

Invoices == 1..NInvoices

ASSUME PaymentsAssumption ==
  /\ NInvoices \in Nat
  /\ InitialDue \in [Invoices -> Nat]
  /\ Amounts \subseteq Nat
  /\ PoolSize \in Nat
  /\ MaxLateAborts \in Nat
  /\ None \notin Requests \cup Submissions

VARIABLES
  invStatus,   \* Invoice.status
  totalDue,    \* Invoice.total_due
  subs,        \* the rows of payment_submissions
  credit,      \* User.credit_amount of the tenant
  leaseActive, \* whether the tenant has an ACTIVE agreement
  lock,        \* the request whose open transaction holds a submission row
  req,         \* the requests in flight: program counter and locals
  applied,     \* ghost: how often a submission's amount reached the invoices
  lateAborts,  \* ghost: how often it did so and the approval rolled back
  received,    \* ghost: the sum of the amounts applied
  repaid       \* ghost: the sum of the credit handed back

tables == <<invStatus, totalDue, subs, credit, leaseActive>>
ghosts == <<applied, lateAborts, received, repaid>>
vars   == <<tables, lock, req, ghosts>>

-----------------------------------------------------------------------------
InvoiceStatus    == {"PENDING", "OVERDUE", "PAID"}
SubmissionStatus == {"PENDING_REVIEW", "APPROVED", "REJECTED"}

NoRow == [inv |-> 0, amount |-> 0, status |-> "none", locked |-> FALSE]

Row == [inv : Nat, amount : Nat,
        status : SubmissionStatus \cup {"none"}, locked : BOOLEAN]

Pcs == {"idle",
        "submitInvoice", "submitLocked", "submitExisting", "submitWrite",
        "submitWait",
        "approveLock", "fifoOpen", "fifo", "approveCommit",
        "orphanOpen", "orphan",
        "rejectWrite", "rejectWait",
        "directInvoice", "directExisting", "directCreate",
        "payoutWrite"}

Zero == [i \in Invoices |-> 0]

Idle == [pc |-> "idle", sub |-> None, inv |-> 0, amt |-> 0,
         left |-> 0, todo |-> {}, paid |-> {}, snap |-> Zero, due |-> Zero]

Request == [pc   : Pcs,
            sub  : Submissions \cup {None},  \* row chosen or read
            inv  : Nat,                      \* invoice_id of the request
            amt  : Nat,                      \* amount of the request or the row
            left : Nat,                      \* `remaining` of the FIFO loop
            todo : SUBSET Invoices,          \* invoices the loop has not reached
            paid : SUBSET Invoices,          \* invoices it has set to PAID
            snap : [Invoices -> Nat],        \* total_due as findMany read it
            due  : [Invoices -> Nat]]        \* total_due as the loop leaves it

IsOpen(i)  == invStatus[i] \in {"PENDING", "OVERDUE"}
Exists(s)  == subs[s].status # "none"
Finish(r)  == req' = [req EXCEPT ![r] = Idle]

\* An open transaction holds a connection of the pool, and the transaction of
\* processFifoPayment holds another, inside the one of approvePayment or after
\* that one has timed out.  So does an update that waits for a row lock.
AllocPcs == {"fifo", "orphan"}
Allocating(r) == req[r].pc \in AllocPcs

OuterTx == {r \in Requests :
              req[r].pc \in {"approveLock", "fifoOpen", "fifo", "approveCommit"}}
InnerTx == {r \in Requests : Allocating(r)}
Waiting == {r \in Requests : req[r].pc \in {"submitWait", "rejectWait"}}

FreeConnection ==
  Cardinality(OuterTx) + Cardinality(InnerTx) + Cardinality(Waiting) < PoolSize

\* The request is about to run a statement outside any transaction.
At(r, pc) == req[r].pc = pc /\ FreeConnection

TypeOK ==
  /\ invStatus \in [Invoices -> InvoiceStatus]
  /\ totalDue \in [Invoices -> Nat]
  /\ subs \in [Submissions -> Row]
  /\ credit \in Nat
  /\ leaseActive \in BOOLEAN
  /\ lock \in [Submissions -> Requests \cup {None}]
  /\ req \in [Requests -> Request]
  /\ applied \in [Submissions -> Nat]
  /\ lateAborts \in [Submissions -> Nat]
  /\ received \in Nat
  /\ repaid \in Nat

Init ==
  /\ invStatus \in [Invoices -> {"PENDING", "OVERDUE"}]
  /\ totalDue = InitialDue
  /\ subs = [s \in Submissions |-> NoRow]
  /\ credit = 0
  /\ leaseActive = TRUE
  /\ lock = [s \in Submissions |-> None]
  /\ req = [r \in Requests |-> Idle]
  /\ applied = [s \in Submissions |-> 0]
  /\ lateAborts = [s \in Submissions |-> 0]
  /\ received = 0
  /\ repaid = 0

-----------------------------------------------------------------------------
(* submitPayment: a tenant uploads a receipt for an invoice. *)

SubmitReadLease(r, i, a) ==
  /\ At(r, "idle")
  /\ leaseActive
  /\ req' = [req EXCEPT ![r] = [Idle EXCEPT !.pc = "submitInvoice",
                                            !.inv = i, !.amt = a]]
  /\ UNCHANGED <<tables, lock, ghosts>>

SubmitReadInvoice(r) ==
  /\ At(r, "submitInvoice")
  /\ IF IsOpen(req[r].inv)
       THEN req' = [req EXCEPT ![r].pc = "submitLocked"]
       ELSE Finish(r)
  /\ UNCHANGED <<tables, lock, ghosts>>

SubmitReadLocked(r) ==
  /\ At(r, "submitLocked")
  /\ IF \E s \in Submissions : subs[s].inv = req[r].inv /\ subs[s].locked
       THEN Finish(r)
       ELSE req' = [req EXCEPT ![r].pc = "submitExisting"]
  /\ UNCHANGED <<tables, lock, ghosts>>

Replaceable(i) == {s \in Submissions :
                     /\ subs[s].inv = i
                     /\ subs[s].status \in {"PENDING_REVIEW", "REJECTED"}
                     /\ ~ subs[s].locked}

\* findFirst without an order: any of the rows.
SubmitReadExisting(r) ==
  /\ At(r, "submitExisting")
  /\ \E s \in IF Replaceable(req[r].inv) = {} THEN {None}
                                               ELSE Replaceable(req[r].inv) :
       req' = [req EXCEPT ![r].pc = "submitWrite", ![r].sub = s]
  /\ UNCHANGED <<tables, lock, ghosts>>

\* INSERT of a row under review.  Submissions bounds the rows of a behaviour:
\* when none is left the request fails.
CreateSubmission(r) ==
  IF \E s \in Submissions : ~ Exists(s)
    THEN \E s \in Submissions :
           /\ ~ Exists(s)
           /\ subs' = [subs EXCEPT ![s] = [inv |-> req[r].inv, amount |-> req[r].amt,
                                           status |-> "PENDING_REVIEW",
                                           locked |-> FALSE]]
    ELSE UNCHANGED subs

\* Mutant: the update does not wait for the row lock.
ReplaceSubmission_NoWait(r) ==
  subs' = [subs EXCEPT ![req[r].sub].amount = req[r].amt,
                       ![req[r].sub].status = "PENDING_REVIEW"]

\* The update names the row by its id only, and does not write is_locked.
ReplaceSubmission(r) ==
  /\ lock[req[r].sub] = None
  /\ subs' = [subs EXCEPT ![req[r].sub].amount = req[r].amt,
                          ![req[r].sub].status = "PENDING_REVIEW"]

\* The update of a row that a transaction holds is sent, and waits for it.
WaitForRow(r) ==
  /\ \/ At(r, "submitWrite") /\ req' = [req EXCEPT ![r].pc = "submitWait"]
     \/ At(r, "rejectWrite") /\ req' = [req EXCEPT ![r].pc = "rejectWait"]
  /\ req[r].sub # None
  /\ lock[req[r].sub] # None
  /\ UNCHANGED <<tables, lock, ghosts>>

SubmitWrite(r) ==
  /\ At(r, "submitWrite") \/ req[r].pc = "submitWait"
  /\ IF req[r].sub = None THEN CreateSubmission(r) ELSE ReplaceSubmission(r)
  /\ Finish(r)
  /\ UNCHANGED <<invStatus, totalDue, credit, leaseActive, lock, ghosts>>

-----------------------------------------------------------------------------
\* Mutant: the status of the row is not looked at.
Reviewable_Any(s) == Exists(s)

\* What approvePayment and rejectPayment demand of the row.
Reviewable(s) == subs[s].status = "PENDING_REVIEW" /\ ~ subs[s].locked

(* approvePayment: a transaction around the row of the submission, and     *)
(* inside it processFifoPayment in a transaction of its own.               *)

ApproveBegin(r, s) ==
  /\ At(r, "idle")
  /\ Exists(s)
  /\ req' = [req EXCEPT ![r] = [Idle EXCEPT !.pc = "approveLock", !.sub = s]]
  /\ UNCHANGED <<tables, lock, ghosts>>

\* SELECT ... FOR UPDATE, the two guards, and the update of the row, which
\* stays invisible until the commit.
ApproveLock(r) ==
  LET s == req[r].sub IN
  /\ req[r].pc = "approveLock"
  /\ lock[s] = None
  /\ IF Reviewable(s)
       THEN /\ lock' = [lock EXCEPT ![s] = r]
            /\ req' = [req EXCEPT ![r].pc = "fifoOpen", ![r].amt = subs[s].amount]
       ELSE Finish(r) /\ UNCHANGED lock
  /\ UNCHANGED <<tables, ghosts>>

\* The inner transaction opens and findMany reads the invoices to pay.
FifoRead(r) ==
  /\ req[r].pc \in {"fifoOpen", "orphanOpen"}
  /\ FreeConnection
  /\ req' = [req EXCEPT ![r].pc   = IF @ = "fifoOpen" THEN "fifo" ELSE "orphan",
                        ![r].left = req[r].amt,
                        ![r].todo = {i \in Invoices : IsOpen(i)},
                        ![r].snap = totalDue,
                        ![r].due  = totalDue]
  /\ UNCHANGED <<tables, lock, ghosts>>

\* Mutant: the newest invoice first.
Oldest_Newest(S) == {i \in S : \A j \in S : i >= j}

\* orderBy due_date, ascending.
Oldest(S) == {i \in S : \A j \in S : i <= j}

\* Mutants: an exactly covered invoice stays open; every invoice is covered.
Covers_Strict(left, due) == left > due
Covers_Always(left, due) == TRUE

Covers(left, due) == left >= due

\* One turn of the loop, for the oldest invoice not yet reached.
FifoPay(r, i) ==
  LET q == req[r] IN
  req' = [req EXCEPT ![r] =
            IF Covers(q.left, q.snap[i])
              THEN [q EXCEPT !.todo = q.todo \ {i},
                             !.paid = q.paid \cup {i},
                             !.due  = [q.due EXCEPT ![i] = 0],
                             !.left = q.left - q.snap[i]]
              ELSE [q EXCEPT !.todo = q.todo \ {i},
                             !.due  = [q.due EXCEPT ![i] = q.snap[i] - q.left],
                             !.left = 0]]

FifoStep(r) ==
  /\ Allocating(r)
  /\ req[r].left > 0
  /\ \E i \in Oldest(req[r].todo) : FifoPay(r, i)
  /\ UNCHANGED <<tables, lock, ghosts>>

\* Mutants: no excess is credited; the whole payment is.
Excess_None(q) == 0
Excess_Whole(q) == q.amt

\* The rows the inner transaction writes: absolute values, not decrements.
Written(q) == q.paid \cup {i \in Invoices : q.due[i] # q.snap[i]}
Excess(q) == q.left

\* The inner transaction commits, whether or not the outer one still stands.
FifoCommit(r) ==
  LET q == req[r] IN
  /\ Allocating(r)
  /\ q.left = 0 \/ q.todo = {}
  /\ invStatus' = [i \in Invoices |-> IF i \in q.paid THEN "PAID" ELSE invStatus[i]]
  /\ totalDue'  = [i \in Invoices |-> IF i \in Written(q) THEN q.due[i] ELSE totalDue[i]]
  /\ credit' = credit + Excess(q)
  /\ applied' = [applied EXCEPT ![q.sub] = @ + 1]
  /\ received' = received + q.amt
  /\ \/ /\ q.pc = "fifo"
        /\ req' = [req EXCEPT ![r] = [Idle EXCEPT !.pc = "approveCommit",
                                                  !.sub = q.sub, !.amt = q.amt]]
        /\ UNCHANGED lateAborts
     \/ /\ q.pc = "orphan"
        /\ Finish(r)
        /\ lateAborts' = [lateAborts EXCEPT ![q.sub] = @ + 1]
  /\ UNCHANGED <<subs, leaseActive, lock, repaid>>

\* Mutant: the row stays locked.
ApproveCommit_KeepsLock(r) ==
  /\ req[r].pc = "approveCommit"
  /\ subs' = [subs EXCEPT ![req[r].sub].status = "APPROVED",
                          ![req[r].sub].locked = TRUE]
  /\ Finish(r)
  /\ UNCHANGED <<invStatus, totalDue, credit, leaseActive, lock, ghosts>>

ApproveCommit(r) ==
  LET s == req[r].sub IN
  /\ req[r].pc = "approveCommit"
  /\ subs' = [subs EXCEPT ![s].status = "APPROVED", ![s].locked = TRUE]
  /\ lock' = [lock EXCEPT ![s] = None]
  /\ Finish(r)
  /\ UNCHANGED <<invStatus, totalDue, credit, leaseActive, ghosts>>

Unlock(r) == lock' = [s \in Submissions |-> IF lock[s] = r THEN None ELSE lock[s]]

\* Allocations of s that go on although their approval has rolled back.
Orphans(s) == {r \in Requests : /\ req[r].pc \in {"orphanOpen", "orphan"}
                                /\ req[r].sub = s}

\* Bound: none goes on any more once MaxLateAborts of one submission have.
MayOutlive ==
  \A s \in Submissions : lateAborts[s] + Cardinality(Orphans(s)) < MaxLateAborts

\* The 5 s limit of approvePayment's transaction, which runs on while it waits
\* for processFifoPayment: the row is as before and nobody's, and the inner
\* transaction, which has a connection and a limit of its own, goes on.
OuterTimeout(r) ==
  LET s == req[r].sub IN
  /\ \/ /\ req[r].pc = "fifoOpen"
        /\ req' = [req EXCEPT ![r].pc = "orphanOpen"]
     \/ /\ req[r].pc = "fifo"
        /\ req' = [req EXCEPT ![r].pc = "orphan"]
  /\ MayOutlive
  /\ Unlock(r)
  /\ UNCHANGED <<tables, ghosts>>

\* A request ends before its last statement: an error, a lost connection, a
\* restart of the server, the limit of the inner transaction, which makes the
\* outer one fail.  What is open rolls back.
Abort(r) ==
  /\ req[r].pc # "idle"
  /\ req[r].pc # "approveCommit"
  /\ Finish(r)
  /\ Unlock(r)
  /\ UNCHANGED <<tables, ghosts>>

\* The outer transaction ends so after the inner one has committed, which stays.
LateAbort(r) ==
  LET s == req[r].sub IN
  /\ req[r].pc = "approveCommit"
  /\ MayOutlive
  /\ lateAborts' = [lateAborts EXCEPT ![s] = @ + 1]
  /\ Finish(r)
  /\ Unlock(r)
  /\ UNCHANGED <<tables, applied, received, repaid>>

\* maxWait: a transaction that gets no connection gives up.
PoolTimeout(r) ==
  /\ req[r].pc \in {"fifoOpen", "orphanOpen"}
  /\ ~ FreeConnection
  /\ Abort(r)

-----------------------------------------------------------------------------
(* rejectPayment: read, then update by id. *)

RejectRead(r, s) ==
  /\ At(r, "idle")
  /\ Reviewable(s)
  /\ req' = [req EXCEPT ![r] = [Idle EXCEPT !.pc = "rejectWrite", !.sub = s]]
  /\ UNCHANGED <<tables, lock, ghosts>>

RejectWrite(r) ==
  LET s == req[r].sub IN
  /\ At(r, "rejectWrite") \/ req[r].pc = "rejectWait"
  /\ lock[s] = None
  /\ subs' = [subs EXCEPT ![s].status = "REJECTED"]
  /\ Finish(r)
  /\ UNCHANGED <<invStatus, totalDue, credit, leaseActive, lock, ghosts>>

-----------------------------------------------------------------------------
(* PayHere: getPayHereParams or processLocalBypassPayment reads the amount; *)
(* confirmDirectPayment runs when the notification arrives.  A notification *)
(* that never arrives is an Abort; one that is delivered twice is a second  *)
(* request that read the same amount.                                       *)

DirectReadAmount(r, i) ==
  /\ At(r, "idle")
  /\ IsOpen(i)
  /\ req' = [req EXCEPT ![r] = [Idle EXCEPT !.pc = "directInvoice",
                                            !.inv = i, !.amt = totalDue[i]]]
  /\ UNCHANGED <<tables, lock, ghosts>>

DirectReadInvoice(r) ==
  /\ At(r, "directInvoice")
  /\ IF invStatus[req[r].inv] = "PAID"
       THEN Finish(r)
       ELSE req' = [req EXCEPT ![r].pc = "directExisting"]
  /\ UNCHANGED <<tables, lock, ghosts>>

DirectReadExisting(r) ==
  /\ At(r, "directExisting")
  /\ IF \E s \in Submissions : /\ subs[s].inv = req[r].inv
                               /\ subs[s].status \in {"PENDING_REVIEW", "APPROVED"}
       THEN Finish(r)
       ELSE req' = [req EXCEPT ![r].pc = "directCreate"]
  /\ UNCHANGED <<tables, lock, ghosts>>

DirectCreate(r) ==
  /\ At(r, "directCreate")
  /\ CreateSubmission(r)
  /\ Finish(r)
  /\ UNCHANGED <<invStatus, totalDue, credit, leaseActive, lock, ghosts>>

-----------------------------------------------------------------------------
(* payoutCredit of TenantsService: read the credit, then set it to 0. *)

PayoutRead(r) ==
  /\ At(r, "idle")
  /\ credit > 0
  /\ req' = [req EXCEPT ![r] = [Idle EXCEPT !.pc = "payoutWrite", !.amt = credit]]
  /\ UNCHANGED <<tables, lock, ghosts>>

PayoutWrite(r) ==
  /\ At(r, "payoutWrite")
  /\ credit' = 0
  /\ repaid' = repaid + req[r].amt
  /\ Finish(r)
  /\ UNCHANGED <<invStatus, totalDue, subs, leaseActive, lock, applied, lateAborts, received>>

-----------------------------------------------------------------------------
(* The steps of other components that these requests observe. *)

\* markOverdueInvoices at a date just after the due date of invoice d.
MarkOverdue(d) ==
  /\ FreeConnection
  /\ invStatus' = [i \in Invoices |-> IF invStatus[i] = "PENDING" /\ i <= d
                                        THEN "OVERDUE" ELSE invStatus[i]]
  /\ UNCHANGED <<totalDue, subs, credit, leaseActive, lock, req, ghosts>>

\* The agreement is terminated or expires.
LeaseEnds ==
  /\ FreeConnection
  /\ leaseActive' = FALSE
  /\ UNCHANGED <<invStatus, totalDue, subs, credit, lock, req, ghosts>>

-----------------------------------------------------------------------------
\* The routes of PaymentsController that write: submit, approve and reject.
PaymentRoutes(r) ==
  \/ \E i \in Invoices, a \in Amounts : SubmitReadLease(r, i, a)
  \/ \E s \in Submissions : ApproveBegin(r, s) \/ RejectRead(r, s)

\* The routes of PayhereController that pay an invoice: the two notifications,
\* which run the same function, and local-bypass.
PayhereRoutes(r) == \E i \in Invoices : DirectReadAmount(r, i)

\* A request arrives and runs its first statement.
Arrive(r) == PaymentRoutes(r) \/ PayhereRoutes(r) \/ PayoutRead(r)

\* A request in flight runs its next statement.
Advance(r) ==
  \/ SubmitReadInvoice(r)
  \/ SubmitReadLocked(r)
  \/ SubmitReadExisting(r)
  \/ WaitForRow(r)
  \/ SubmitWrite(r)
  \/ ApproveLock(r)
  \/ FifoRead(r)
  \/ FifoStep(r)
  \/ FifoCommit(r)
  \/ ApproveCommit(r)
  \/ RejectWrite(r)
  \/ DirectReadInvoice(r)
  \/ DirectReadExisting(r)
  \/ DirectCreate(r)
  \/ PayoutWrite(r)

Next ==
  \/ \E r \in Requests :
       Arrive(r) \/ Advance(r) \/ OuterTimeout(r) \/ Abort(r) \/ LateAbort(r)
  \/ \E d \in Invoices : MarkOverdue(d)
  \/ LeaseEnds

Spec == Init /\ [][Next]_vars

\* A request runs to its end.  Row locks and pooled connections are granted in
\* the order of the waiting requests, so one that is free again and again is
\* granted in the end: strong fairness.
FairSpec ==
  /\ Spec
  /\ \A r \in Requests : SF_vars(Advance(r)) /\ WF_vars(PoolTimeout(r))

-----------------------------------------------------------------------------
(* Sums over the invoices, by due date. *)

\* UpTo(f)[n] is f[1] + ... + f[n].
UpTo(f) ==
  LET sum[n \in 0..NInvoices] == IF n = 0 THEN 0 ELSE sum[n - 1] + f[n]
  IN  sum

Total(f) == UpTo(f)[NInvoices]

-----------------------------------------------------------------------------
(* What holds however many requests interleave. *)

\* The transaction around the row under review stands.
Approving(r) == req[r].pc \in {"fifoOpen", "fifo", "approveCommit"}

\* The approval of s that has applied the amount and not yet committed.
InFlight(s) == \E r \in Requests : lock[s] = r /\ req[r].pc = "approveCommit"

\* SELECT ... FOR UPDATE: as long as its transaction stands nobody else changes
\* the row under review, so an approval commits on the row and the amount it
\* read, also when the timeout of another one has left an allocation behind.
ReviewedRowIsStable ==
  \A r \in Requests : Approving(r) =>
    LET s == req[r].sub IN
    /\ s \in Submissions
    /\ lock[s] = r
    /\ subs[s].status = "PENDING_REVIEW"
    /\ ~ subs[s].locked
    /\ subs[s].amount = req[r].amt

\* "Only one approval is permitted": the amount of a submission reaches the
\* invoices once if it is locked, and besides only by an approval that rolled
\* back and whose processFifoPayment committed all the same, before or after.
AppliedAccounting ==
  \A s \in Submissions :
    applied[s] = lateAborts[s] + (IF subs[s].locked \/ InFlight(s) THEN 1 ELSE 0)

\* FIFO: an allocation that leaves an invoice open changes no newer one, even
\* when other allocations commit between its read and its commit.
LeavesNewerAlone(r) ==
  FifoCommit(r) =>
    \A i, j \in Invoices :
      (i < j /\ invStatus'[i] # "PAID") =>
         invStatus'[j] = invStatus[j] /\ totalDue'[j] = totalDue[j]

OldestFirst == [][\A r \in Requests : LeavesNewerAlone(r)]_vars

AtLeastZero(n) == IF n > 0 THEN n ELSE 0
Least(m, n)    == IF m < n THEN m ELSE n

\* The reference definition of the FIFO allocation: invoice i gets what the
\* older open invoices leave of the payment, up to what is due on it, and the
\* tenant's credit gets the rest.
OpenDue         == [i \in Invoices |-> IF IsOpen(i) THEN totalDue[i] ELSE 0]
LeftFor(i, amt) == AtLeastZero(amt - UpTo(OpenDue)[i - 1])

AllocatesByReference(amt) ==
  /\ \A i \in Invoices :
       IF IsOpen(i)
         THEN /\ totalDue'[i] = totalDue[i] - Least(totalDue[i], LeftFor(i, amt))
              /\ (invStatus'[i] = "PAID")
                   <=> (LeftFor(i, amt) > 0 /\ LeftFor(i, amt) >= totalDue[i])
         ELSE totalDue'[i] = totalDue[i] /\ invStatus'[i] = "PAID"
  /\ credit' = credit + LeftFor(NInvoices + 1, amt)

\* The invoices are due what the request read, and those it pays are open.
IsFresh(q) == q.snap = totalDue /\ \A i \in Written(q) : IsOpen(i)

FreshIsFifo(r) ==
  (FifoCommit(r) /\ IsFresh(req[r])) => AllocatesByReference(req[r].amt)

\* An allocation that is still fresh when it commits is the reference
\* allocation, to the cent and to the status of every invoice.
FreshAllocationIsFifo == [][\A r \in Requests : FreshIsFifo(r)]_vars

\* The absolute values of a stale allocation may undo a payment, never invent one:
\* what is no longer due, with the tenant's credit, is covered by what was received,
\* whichever allocations overlapped and whichever payouts.
NothingIsForgiven == Total(InitialDue) - Total(totalDue) + credit <= received

\* Every request ends, although approvals of one row wait for each other and
\* an approval needs a second connection while it holds its first.
RequestsEnd == \A r \in Requests : req[r].pc # "idle" ~> req[r].pc = "idle"

-----------------------------------------------------------------------------
(* What holds while requests do not overlap. *)

\* "Locked after approval - prevents re-upload or tampering": once locked, the
\* row keeps its amount and its status.
StaysFrozen(s) == subs[s].locked => subs'[s] = subs[s]

LockedRowIsFrozen == [][\A s \in Submissions : StaysFrozen(s)]_vars

\* No money is made or lost: what was due is still due, or was received, net
\* of the credit kept for the tenant and the credit handed back.
MoneyIsConserved ==
  Total(InitialDue) + credit + repaid = Total(totalDue) + received
=============================================================================
