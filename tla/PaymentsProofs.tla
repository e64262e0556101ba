--------------------------- MODULE PaymentsProofs ---------------------------
(***************************************************************************)
(* Theorems about Payments for every number of requests, submissions and   *)
(* invoices, every amount and every pool size.                             *)
(***************************************************************************)
EXTENDS Payments, WellFoundedInduction, TLAPS

\* The program counters at which `sub` names a row, and those at which the
\* request holds the row lock.
RowPcs     == {"approveLock", "fifoOpen", "fifo", "approveCommit", "orphanOpen",
               "orphan", "rejectWrite", "rejectWait"}
HoldingPcs == {"fifoOpen", "fifo", "approveCommit"}

\* Those from the lock to the end of the allocation.
FifoPcs == HoldingPcs \cup {"orphanOpen", "orphan"}

USE DEF AllocPcs, Allocating

RowChosen == \A r \in Requests : req[r].pc \in RowPcs => req[r].sub \in Submissions

Typed == TypeOK /\ RowChosen

LEMMA InvoicesAreNaturals == Invoices \subseteq Nat
  BY PaymentsAssumption DEF Invoices

LEMMA IdleTyped == Idle \in Request
  BY DEF Idle, Request, Pcs, Zero

LEMMA TypedInit == Init => Typed
  BY PaymentsAssumption, IdleTyped
  DEF Init, Typed, TypeOK, RowChosen, RowPcs, NoRow, Row, InvoiceStatus, Idle

-----------------------------------------------------------------------------
\* What the steps have in common that change nothing but the record of one
\* request, which neither holds nor takes a row lock.
QuietStep(r) ==
  /\ req[r].pc \notin FifoPcs
  /\ \E q \in Request :
       /\ req' = [req EXCEPT ![r] = q]
       /\ q.pc \notin FifoPcs
       /\ q.pc \in RowPcs => q.sub \in Submissions
       /\ q.paid \in {{}, req[r].paid}
  /\ UNCHANGED <<tables, lock, ghosts>>

QuietAction(r) ==
  \/ Arrive(r)
  \/ SubmitReadInvoice(r)
  \/ SubmitReadLocked(r)
  \/ SubmitReadExisting(r)
  \/ WaitForRow(r)
  \/ DirectReadInvoice(r)
  \/ DirectReadExisting(r)

\* Moving a request to another program counter keeps its record a record.
LEMMA MoveTyped ==
  ASSUME NEW q \in Request, NEW pc \in Pcs
  PROVE  /\ [q EXCEPT !.pc = pc] \in Request
         /\ [q EXCEPT !.pc = pc].pc = pc
         /\ [q EXCEPT !.pc = pc].paid = q.paid
  BY DEF Request

LEMMA QuietActionIsQuiet ==
  ASSUME Typed, NEW r \in Requests, QuietAction(r)
  PROVE  QuietStep(r)
<1> USE DEF HoldingPcs, FifoPcs, RowPcs
<1>1. req[r] \in Request
  BY DEF Typed, TypeOK
<1>2. ASSUME NEW i \in Invoices, NEW a \in Amounts, SubmitReadLease(r, i, a)
      PROVE  QuietStep(r)
  <2> DEFINE q == [Idle EXCEPT !.pc = "submitInvoice", !.inv = i, !.amt = a]
  <2>1. q \in Request /\ q.pc = "submitInvoice" /\ q.paid = {}
    BY PaymentsAssumption, InvoicesAreNaturals, IdleTyped DEF Idle, Request, Pcs
  <2> QED
    BY <1>2, <2>1 DEF SubmitReadLease, At, QuietStep
<1>3. ASSUME NEW s \in Submissions, ApproveBegin(r, s) PROVE QuietStep(r)
  <2> DEFINE q == [Idle EXCEPT !.pc = "approveLock", !.sub = s]
  <2>1. q \in Request /\ q.pc = "approveLock" /\ q.sub = s /\ q.paid = {}
    BY IdleTyped DEF Idle, Request, Pcs
  <2> QED
    BY <1>3, <2>1 DEF ApproveBegin, At, QuietStep
<1>4. ASSUME NEW s \in Submissions, RejectRead(r, s) PROVE QuietStep(r)
  <2> DEFINE q == [Idle EXCEPT !.pc = "rejectWrite", !.sub = s]
  <2>1. q \in Request /\ q.pc = "rejectWrite" /\ q.sub = s /\ q.paid = {}
    BY IdleTyped DEF Idle, Request, Pcs
  <2> QED
    BY <1>4, <2>1 DEF RejectRead, At, QuietStep
<1>5. ASSUME NEW i \in Invoices, DirectReadAmount(r, i) PROVE QuietStep(r)
  <2> DEFINE q == [Idle EXCEPT !.pc = "directInvoice", !.inv = i, !.amt = totalDue[i]]
  <2>1. totalDue[i] \in Nat
    BY DEF Typed, TypeOK
  <2>2. q \in Request /\ q.pc = "directInvoice" /\ q.paid = {}
    BY <2>1, InvoicesAreNaturals, IdleTyped DEF Idle, Request, Pcs
  <2> QED
    BY <1>5, <2>2 DEF DirectReadAmount, At, QuietStep
<1>6. CASE PayoutRead(r)
  <2> DEFINE q == [Idle EXCEPT !.pc = "payoutWrite", !.amt = credit]
  <2>1. q \in Request /\ q.pc = "payoutWrite" /\ q.paid = {}
    BY IdleTyped DEF Idle, Request, Pcs, Typed, TypeOK
  <2> QED
    BY <1>6, <2>1 DEF PayoutRead, At, QuietStep
<1>7. ASSUME req[r].pc \notin FifoPcs, UNCHANGED <<tables, lock, ghosts>>,
             NEW pc \in Pcs \ RowPcs,
             \/ req' = [req EXCEPT ![r].pc = pc]
             \/ req' = [req EXCEPT ![r] = Idle]
      PROVE  QuietStep(r)
  <2>1. CASE req' = [req EXCEPT ![r] = Idle]
    BY <1>7, <2>1, IdleTyped DEF QuietStep, Idle
  <2>2. CASE req' = [req EXCEPT ![r].pc = pc]
    <3> DEFINE q == [req[r] EXCEPT !.pc = pc]
    <3>1. q \in Request /\ q.pc = pc /\ q.paid = req[r].paid
      BY <1>1, MoveTyped
    <3>2. req' = [req EXCEPT ![r] = q]
      BY <2>2
    <3> QED
      BY <1>7, <3>1, <3>2 DEF QuietStep
  <2> QED
    BY <1>7, <2>1, <2>2
<1>8. CASE SubmitReadInvoice(r)
  BY <1>8, <1>7 DEF SubmitReadInvoice, At, Finish, Pcs, IsOpen
<1>9. CASE SubmitReadLocked(r)
  BY <1>9, <1>7 DEF SubmitReadLocked, At, Finish, Pcs
<1>10. CASE SubmitReadExisting(r)
  <2>1. PICK s \in Submissions \cup {None} :
          req' = [req EXCEPT ![r].pc = "submitWrite", ![r].sub = s]
    BY <1>10 DEF SubmitReadExisting, Replaceable
  <2> DEFINE q == [req[r] EXCEPT !.pc = "submitWrite", !.sub = s]
  <2>2. q \in Request /\ q.pc = "submitWrite" /\ q.paid = req[r].paid
    BY <1>1 DEF Request, Pcs
  <2>3. req' = [req EXCEPT ![r] = q]
    BY <2>1
  <2> QED
    BY <1>10, <2>2, <2>3 DEF SubmitReadExisting, At, QuietStep
<1>11. CASE DirectReadInvoice(r)
  BY <1>11, <1>7 DEF DirectReadInvoice, At, Finish, Pcs
<1>12. CASE DirectReadExisting(r)
  BY <1>12, <1>7 DEF DirectReadExisting, At, Finish, Pcs
<1>13. CASE WaitForRow(r)
  <2>1. CASE At(r, "submitWrite") /\ req' = [req EXCEPT ![r].pc = "submitWait"]
    BY <1>13, <2>1, <1>7 DEF WaitForRow, At, Pcs
  <2>2. CASE At(r, "rejectWrite") /\ req' = [req EXCEPT ![r].pc = "rejectWait"]
    <3> DEFINE q == [req[r] EXCEPT !.pc = "rejectWait"]
    <3>1. q \in Request /\ q.pc = "rejectWait" /\ q.sub = req[r].sub /\ q.paid = req[r].paid
      BY <1>1 DEF Request, Pcs
    <3>2. req' = [req EXCEPT ![r] = q]
      BY <2>2
    <3>3. req[r].sub \in Submissions
      BY <2>2 DEF At, Typed, RowChosen
    <3> HIDE DEF q
    <3> QED
      BY <1>13, <2>2, <3>1, <3>2, <3>3 DEF WaitForRow, At, QuietStep
  <2> QED
    BY <1>13, <2>1, <2>2 DEF WaitForRow
<1> QED
  BY <1>2, <1>3, <1>4, <1>5, <1>6, <1>8, <1>9, <1>10, <1>11, <1>12, <1>13
  DEF QuietAction, Arrive, PaymentRoutes, PayhereRoutes

-----------------------------------------------------------------------------
(* Types. *)

LEMMA QuietTyped ==
  ASSUME Typed, NEW r \in Requests, QuietStep(r)
  PROVE  Typed'
  BY DEF Typed, TypeOK, RowChosen, RowPcs, QuietStep, tables, ghosts

\* A step that ends request r keeps the requests well typed.
LEMMA FinishTyped ==
  ASSUME Typed, NEW r \in Requests, Finish(r)
  PROVE  /\ req' \in [Requests -> Request]
         /\ RowChosen'
         /\ req'[r] = Idle
  BY IdleTyped DEF Typed, TypeOK, RowChosen, RowPcs, Finish, Idle

\* A step that moves request r to a well-typed record does so too.
LEMMA MoveKeepsTypes ==
  ASSUME Typed, NEW r \in Requests, NEW q \in Request,
         req' = [req EXCEPT ![r] = q],
         q.pc \in RowPcs => q.sub \in Submissions
  PROVE  req' \in [Requests -> Request] /\ RowChosen'
  BY DEF Typed, TypeOK, RowChosen

LEMMA CreateTyped ==
  ASSUME Typed, NEW r \in Requests, CreateSubmission(r)
  PROVE  subs' \in [Submissions -> Row]
<1>1. req[r].inv \in Nat /\ req[r].amt \in Nat
  BY DEF Typed, TypeOK, Request
<1>2. [inv |-> req[r].inv, amount |-> req[r].amt, status |-> "PENDING_REVIEW",
       locked |-> FALSE] \in Row
  BY <1>1 DEF Row, SubmissionStatus
<1> QED
  BY <1>2 DEF CreateSubmission, Typed, TypeOK

LEMMA RowUpdateTyped ==
  ASSUME subs \in [Submissions -> Row], NEW s, NEW n \in Nat,
         NEW st \in SubmissionStatus, NEW l \in BOOLEAN
  PROVE  /\ [subs EXCEPT ![s].amount = n, ![s].status = st] \in [Submissions -> Row]
         /\ [subs EXCEPT ![s].status = st, ![s].locked = l] \in [Submissions -> Row]
         /\ [subs EXCEPT ![s].status = st] \in [Submissions -> Row]
  BY DEF Row

LEMMA SubmitWriteTyped ==
  ASSUME Typed, NEW r \in Requests, SubmitWrite(r)
  PROVE  Typed'
<1>1. subs' \in [Submissions -> Row]
  <2>1. req[r].amt \in Nat /\ "PENDING_REVIEW" \in SubmissionStatus
    BY DEF Typed, TypeOK, Request, SubmissionStatus
  <2>2. CASE CreateSubmission(r)
    BY <2>2, CreateTyped
  <2>3. CASE ReplaceSubmission(r)
    BY <2>1, <2>3, RowUpdateTyped DEF ReplaceSubmission, Typed, TypeOK
  <2> QED
    BY <2>2, <2>3 DEF SubmitWrite
<1> QED
  BY <1>1, FinishTyped DEF SubmitWrite, Typed, TypeOK, ghosts

LEMMA RejectWriteTyped ==
  ASSUME Typed, NEW r \in Requests, RejectWrite(r)
  PROVE  Typed'
<1>1. subs' \in [Submissions -> Row]
  BY RowUpdateTyped DEF RejectWrite, Typed, TypeOK, SubmissionStatus
<1> QED
  BY <1>1, FinishTyped DEF RejectWrite, Typed, TypeOK, ghosts

LEMMA DirectCreateTyped ==
  ASSUME Typed, NEW r \in Requests, DirectCreate(r)
  PROVE  Typed'
  BY CreateTyped, FinishTyped DEF DirectCreate, Typed, TypeOK, ghosts

LEMMA PayoutWriteTyped ==
  ASSUME Typed, NEW r \in Requests, PayoutWrite(r)
  PROVE  Typed'
<1>1. req[r].amt \in Nat
  BY DEF Typed, TypeOK, Request
<1>2. repaid' \in Nat
  BY <1>1 DEF PayoutWrite, Typed, TypeOK
<1> QED
  BY <1>2, FinishTyped DEF PayoutWrite, Typed, TypeOK

LEMMA ApproveLockTyped ==
  ASSUME Typed, NEW r \in Requests, ApproveLock(r)
  PROVE  Typed'
<1> DEFINE s == req[r].sub
<1>1. s \in Submissions
  BY DEF ApproveLock, Typed, RowChosen, RowPcs
<1>2. CASE Finish(r) /\ UNCHANGED lock
  BY <1>2, FinishTyped DEF ApproveLock, Typed, TypeOK, tables, ghosts
<1>3. CASE /\ lock' = [lock EXCEPT ![s] = r]
           /\ req' = [req EXCEPT ![r].pc = "fifoOpen", ![r].amt = subs[s].amount]
  <2> DEFINE q == [req[r] EXCEPT !.pc = "fifoOpen", !.amt = subs[s].amount]
  <2>1. req[r] \in Request /\ subs[s].amount \in Nat
    BY <1>1 DEF Typed, TypeOK, Row
  <2>2. q \in Request /\ q.sub = s
    BY <2>1 DEF Request, Pcs
  <2>3. req' = [req EXCEPT ![r] = q]
    BY <1>3
  <2> HIDE DEF q
  <2>4. req' \in [Requests -> Request] /\ RowChosen'
    BY <1>1, <2>2, <2>3 DEF Typed, TypeOK, RowChosen
  <2>5. lock' \in [Submissions -> Requests \cup {None}]
    BY <1>3 DEF Typed, TypeOK
  <2> QED
    BY <2>4, <2>5 DEF ApproveLock, Typed, TypeOK, tables, ghosts
<1> QED
  BY <1>2, <1>3 DEF ApproveLock

LEMMA FifoReadTyped ==
  ASSUME Typed, NEW r \in Requests, FifoRead(r)
  PROVE  Typed'
<1> DEFINE q == [req[r] EXCEPT !.pc = IF @ = "fifoOpen" THEN "fifo" ELSE "orphan",
                               !.left = req[r].amt,
                               !.todo = {i \in Invoices : IsOpen(i)},
                               !.snap = totalDue, !.due = totalDue]
<1>1. req[r] \in Request /\ totalDue \in [Invoices -> Nat] /\ req[r].sub \in Submissions
  BY DEF Typed, TypeOK, RowChosen, FifoRead, RowPcs
<1>2. q \in Request /\ q.sub = req[r].sub
  BY <1>1 DEF Request, Pcs
<1>3. req' = [req EXCEPT ![r] = q]
  BY DEF FifoRead
<1> HIDE DEF q
<1>4. req' \in [Requests -> Request] /\ RowChosen'
  BY <1>1, <1>2, <1>3, MoveKeepsTypes
<1> QED
  BY <1>4 DEF FifoRead, Typed, TypeOK, tables, ghosts

\* One turn of the loop on invoice i, as a function of the request's record.
\* One turn of the loop on invoice i makes a record of a record.
LEMMA FifoPayTyped ==
  ASSUME NEW r \in Requests, req[r] \in Request, NEW i \in Invoices, FifoPay(r, i)
  PROVE  \E q \in Request : /\ req' = [req EXCEPT ![r] = q]
                            /\ q.sub = req[r].sub
                            /\ q.pc = req[r].pc
                            /\ q.amt = req[r].amt
<1>1. req[r].left \in Nat /\ req[r].snap[i] \in Nat
  BY DEF Request
<1>2. CASE Covers(req[r].left, req[r].snap[i])
  <2> DEFINE q == [req[r] EXCEPT !.todo = req[r].todo \ {i},
                                 !.paid = req[r].paid \cup {i},
                                 !.due  = [req[r].due EXCEPT ![i] = 0],
                                 !.left = req[r].left - req[r].snap[i]]
  <2>1. req[r].left - req[r].snap[i] \in Nat
    BY <1>1, <1>2 DEF Covers
  <2>2. q \in Request /\ q.sub = req[r].sub /\ q.pc = req[r].pc /\ q.amt = req[r].amt
    BY <2>1 DEF Request
  <2>3. req' = [req EXCEPT ![r] = q]
    BY <1>2 DEF FifoPay
  <2> QED
    BY <2>2, <2>3
<1>3. CASE ~ Covers(req[r].left, req[r].snap[i])
  <2> DEFINE q == [req[r] EXCEPT !.todo = req[r].todo \ {i},
                                 !.due  = [req[r].due EXCEPT
                                             ![i] = req[r].snap[i] - req[r].left],
                                 !.left = 0]
  <2>1. req[r].snap[i] - req[r].left \in Nat
    BY <1>1, <1>3 DEF Covers
  <2>2. q \in Request /\ q.sub = req[r].sub /\ q.pc = req[r].pc /\ q.amt = req[r].amt
    BY <2>1 DEF Request
  <2>3. req' = [req EXCEPT ![r] = q]
    BY <1>3 DEF FifoPay
  <2> QED
    BY <2>2, <2>3
<1> QED
  BY <1>2, <1>3

LEMMA FifoStepTyped ==
  ASSUME Typed, NEW r \in Requests, FifoStep(r)
  PROVE  Typed'
<1>1. req[r] \in Request /\ req[r].sub \in Submissions
  BY DEF Typed, TypeOK, RowChosen, FifoStep, RowPcs
<1>2. PICK i \in Invoices : FifoPay(r, i)
  BY <1>1 DEF FifoStep, Oldest, Request
<1>3. req' \in [Requests -> Request] /\ RowChosen'
  BY <1>1, <1>2, FifoPayTyped, MoveKeepsTypes
<1> QED
  BY <1>3 DEF FifoStep, Typed, TypeOK, tables, ghosts

LEMMA FifoCommitTyped ==
  ASSUME Typed, NEW r \in Requests, FifoCommit(r)
  PROVE  Typed'
<1> DEFINE q == [Idle EXCEPT !.pc = "approveCommit", !.sub = req[r].sub,
                             !.amt = req[r].amt]
<1>1. req[r] \in Request /\ req[r].sub \in Submissions
  BY DEF Typed, TypeOK, RowChosen, RowPcs, FifoCommit
<1>2. q \in Request /\ q.sub \in Submissions
  BY <1>1, IdleTyped DEF Request, Pcs
<1> HIDE DEF q
<1>3. \/ req' = [req EXCEPT ![r] = q] /\ UNCHANGED lateAborts
      \/ Finish(r) /\ lateAborts' = [lateAborts EXCEPT ![req[r].sub] = @ + 1]
  BY DEF FifoCommit, q
<1>4. /\ req' \in [Requests -> Request] /\ RowChosen'
      /\ lateAborts' \in [Submissions -> Nat]
  <2>1. CASE req' = [req EXCEPT ![r] = q] /\ UNCHANGED lateAborts
    BY <1>2, <2>1 DEF Typed, TypeOK, RowChosen
  <2>2. CASE Finish(r) /\ lateAborts' = [lateAborts EXCEPT ![req[r].sub] = @ + 1]
    BY <1>1, <2>2, FinishTyped DEF Typed, TypeOK
  <2> QED
    BY <1>3, <2>1, <2>2
<1>5. invStatus' \in [Invoices -> InvoiceStatus]
  BY DEF FifoCommit, Typed, TypeOK, InvoiceStatus
<1>6. totalDue' \in [Invoices -> Nat]
  BY <1>1 DEF FifoCommit, Typed, TypeOK, Request
<1>7. credit' \in Nat /\ received' \in Nat /\ applied' \in [Submissions -> Nat]
  BY <1>1 DEF FifoCommit, Excess, Typed, TypeOK, Request
<1> QED
  BY <1>4, <1>5, <1>6, <1>7 DEF FifoCommit, Typed, TypeOK

LEMMA FifoCommitLeaves ==
  ASSUME Typed, NEW r \in Requests, FifoCommit(r)
  PROVE  /\ req'[r].pc \in {"approveCommit", "idle"}
         /\ \A p \in Requests \ {r} : req'[p] = req[p]
<1>1. CASE req' = [req EXCEPT ![r] = [Idle EXCEPT !.pc = "approveCommit",
                                                  !.sub = req[r].sub, !.amt = req[r].amt]]
  BY <1>1 DEF Typed, TypeOK, Idle
<1>2. CASE Finish(r)
  BY <1>2 DEF Finish, Typed, TypeOK, Idle
<1> QED
  BY <1>1, <1>2 DEF FifoCommit

LEMMA ApproveCommitTyped ==
  ASSUME Typed, NEW r \in Requests, ApproveCommit(r)
  PROVE  Typed'
<1>1. subs' \in [Submissions -> Row]
  BY RowUpdateTyped DEF ApproveCommit, Typed, TypeOK, SubmissionStatus
<1>2. lock' \in [Submissions -> Requests \cup {None}]
  BY DEF ApproveCommit, Typed, TypeOK
<1> QED
  BY <1>1, <1>2, FinishTyped DEF ApproveCommit, Typed, TypeOK, ghosts

LEMMA UnlockTyped ==
  ASSUME Typed, NEW r \in Requests, Unlock(r)
  PROVE  lock' \in [Submissions -> Requests \cup {None}]
  BY DEF Typed, TypeOK, Unlock

LEMMA OuterTimeoutTyped ==
  ASSUME Typed, NEW r \in Requests, OuterTimeout(r)
  PROVE  Typed'
<1>1. PICK pc \in {"orphanOpen", "orphan"} : req' = [req EXCEPT ![r].pc = pc]
  BY DEF OuterTimeout
<1>2. req[r] \in Request /\ req[r].sub \in Submissions
  BY DEF Typed, TypeOK, RowChosen, RowPcs, OuterTimeout
<1> DEFINE q == [req[r] EXCEPT !.pc = pc]
<1>3. q \in Request /\ q.sub = req[r].sub
  BY <1>2 DEF Request, Pcs
<1>4. req' = [req EXCEPT ![r] = q]
  BY <1>1
<1> HIDE DEF q
<1>5. req' \in [Requests -> Request] /\ RowChosen'
  BY <1>2, <1>3, <1>4, MoveKeepsTypes
<1> QED
  BY <1>5, UnlockTyped DEF OuterTimeout, Typed, TypeOK, tables, ghosts

\* The timeout of the outer transaction leaves the allocation where it is.
LEMMA OuterTimeoutRecord ==
  ASSUME Typed, NEW r \in Requests, OuterTimeout(r)
  PROVE  /\ req'[r].pc \in {"orphanOpen", "orphan"}
         /\ req'[r].pc \in AllocPcs <=> req[r].pc \in AllocPcs
         /\ req'[r].sub = req[r].sub /\ req'[r].amt = req[r].amt
         /\ req'[r].left = req[r].left /\ req'[r].todo = req[r].todo
         /\ req'[r].paid = req[r].paid /\ req'[r].snap = req[r].snap
         /\ req'[r].due = req[r].due
         /\ \A p \in Requests \ {r} : req'[p] = req[p]
         /\ UNCHANGED <<tables, ghosts>>
<1>1. CASE req[r].pc = "fifoOpen" /\ req' = [req EXCEPT ![r].pc = "orphanOpen"]
  BY <1>1 DEF OuterTimeout, Typed, TypeOK, Request
<1>2. CASE req[r].pc = "fifo" /\ req' = [req EXCEPT ![r].pc = "orphan"]
  BY <1>2 DEF OuterTimeout, Typed, TypeOK, Request
<1> QED
  BY <1>1, <1>2 DEF OuterTimeout

LEMMA AbortTyped ==
  ASSUME Typed, NEW r \in Requests, Abort(r)
  PROVE  Typed'
  BY FinishTyped, UnlockTyped DEF Abort, Typed, TypeOK, tables, ghosts

LEMMA LateAbortTyped ==
  ASSUME Typed, NEW r \in Requests, LateAbort(r)
  PROVE  Typed'
<1>1. lateAborts' \in [Submissions -> Nat]
  BY DEF LateAbort, Typed, TypeOK, RowChosen, RowPcs
<1> QED
  BY <1>1, FinishTyped, UnlockTyped DEF LateAbort, Typed, TypeOK, tables

LEMMA EnvironmentTyped ==
  ASSUME Typed, (\E d \in Invoices : MarkOverdue(d)) \/ LeaseEnds
  PROVE  Typed'
<1>1. CASE \E d \in Invoices : MarkOverdue(d)
  <2>1. invStatus' \in [Invoices -> InvoiceStatus]
    BY <1>1 DEF MarkOverdue, Typed, TypeOK, InvoiceStatus
  <2> QED
    BY <1>1, <2>1 DEF MarkOverdue, Typed, TypeOK, RowChosen, ghosts
<1>2. CASE LeaseEnds
  BY <1>2 DEF LeaseEnds, Typed, TypeOK, RowChosen, ghosts
<1> QED
  BY <1>1, <1>2

\* Next, with the quiet steps taken together.
LEMMA NextCases ==
  ASSUME Next
  PROVE  \/ \E r \in Requests :
              \/ QuietAction(r)
              \/ SubmitWrite(r)
              \/ ApproveLock(r)
              \/ FifoRead(r)
              \/ FifoStep(r)
              \/ FifoCommit(r)
              \/ ApproveCommit(r)
              \/ RejectWrite(r)
              \/ DirectCreate(r)
              \/ PayoutWrite(r)
              \/ OuterTimeout(r)
              \/ Abort(r)
              \/ LateAbort(r)
         \/ \E d \in Invoices : MarkOverdue(d)
         \/ LeaseEnds
  BY DEF Next, Advance, QuietAction

LEMMA TypedNext ==
  ASSUME Typed, [Next]_vars
  PROVE  Typed'
<1>1. CASE Next
  <2>1. ASSUME NEW r \in Requests, QuietAction(r) PROVE Typed'
    BY <2>1, QuietActionIsQuiet, QuietTyped
  <2> QED
    BY <1>1, <2>1, NextCases, SubmitWriteTyped, ApproveLockTyped, FifoReadTyped,
       FifoStepTyped, FifoCommitTyped, ApproveCommitTyped, RejectWriteTyped,
       DirectCreateTyped, PayoutWriteTyped, OuterTimeoutTyped, AbortTyped, LateAbortTyped,
       EnvironmentTyped
<1>2. CASE UNCHANGED vars
  BY <1>2 DEF Typed, TypeOK, RowChosen, vars, tables, ghosts
<1> QED
  BY <1>1, <1>2

\* Every table, lock and request record stays well typed; in particular no
\* total, amount or credit of processFifoPayment becomes negative.
THEOREM TypeCorrect == Spec => []TypeOK
<1>1. Init => Typed
  BY TypedInit
<1>2. Typed /\ [Next]_vars => Typed'
  BY TypedNext
<1>3. Typed => TypeOK
  BY DEF Typed
<1> QED
  BY <1>1, <1>2, <1>3, PTL DEF Spec

-----------------------------------------------------------------------------
(* Row locks: the row under review is stable. *)

\* The other direction of ReviewedRowIsStable: a lock has an approval behind it.
LockHasApproval ==
  \A s \in Submissions, r \in Requests :
    lock[s] = r => req[r].pc \in HoldingPcs /\ req[r].sub = s

\* A row that does not exist yet is not locked.
FreeRowsUnlocked == \A s \in Submissions : ~ Exists(s) => ~ subs[s].locked

LockInv == Typed /\ ReviewedRowIsStable /\ LockHasApproval /\ FreeRowsUnlocked

\* A step of a request that holds nothing: it leaves the locks, and the rows
\* that are locked, alone.
NonHolderStep(r) ==
  /\ req[r].pc \notin HoldingPcs
  /\ \E q \in Request : q.pc \notin HoldingPcs /\ req' = [req EXCEPT ![r] = q]
  /\ lock' = lock
  /\ \A s \in Submissions :
       \/ subs'[s] = subs[s]
       \/ /\ lock[s] = None
          /\ subs'[s].status # "none"
          /\ subs'[s].locked = subs[s].locked

\* A step of an approval between its lock and its commit.
HolderStep(r) ==
  /\ req[r].pc \in HoldingPcs
  /\ \E q \in Request : /\ q.pc \in HoldingPcs
                        /\ q.sub = req[r].sub
                        /\ q.amt = req[r].amt
                        /\ req' = [req EXCEPT ![r] = q]
  /\ lock' = lock
  /\ subs' = subs

\* The end of a request that may hold a lock, or of its outer transaction.
ReleaseStep(r) ==
  /\ \E q \in Request : q.pc \notin HoldingPcs /\ req' = [req EXCEPT ![r] = q]
  /\ Unlock(r)
  /\ \A s \in Submissions : lock[s] # r => subs'[s] = subs[s]
  /\ \A s \in Submissions : subs[s].status # "none" => subs'[s].status # "none"
  /\ \A s \in Submissions : subs[s].status = "none" => subs'[s] = subs[s]

LEMMA IdleHoldsNothing == Idle \in Request /\ Idle.pc \notin HoldingPcs
  BY IdleTyped DEF Idle, HoldingPcs

LEMMA NonHolderStepLocks ==
  ASSUME LockInv, NEW r \in Requests, NonHolderStep(r), Typed'
  PROVE  LockInv'
<1>1. ReviewedRowIsStable'
  <2> SUFFICES ASSUME NEW p \in Requests, Approving(p)'
               PROVE  LET s == req'[p].sub IN
                      /\ s \in Submissions
                      /\ lock'[s] = p
                      /\ subs'[s].status = "PENDING_REVIEW"
                      /\ ~ subs'[s].locked
                      /\ subs'[s].amount = req'[p].amt
    BY DEF ReviewedRowIsStable, Approving
  <2>1. p # r /\ req'[p] = req[p]
    BY DEF NonHolderStep, LockInv, Typed, TypeOK, Approving, HoldingPcs
  <2>2. Approving(p)
    BY <2>1 DEF Approving
  <2> DEFINE s == req[p].sub
  <2>3. /\ s \in Submissions
        /\ lock[s] = p
        /\ subs[s].status = "PENDING_REVIEW"
        /\ ~ subs[s].locked
        /\ subs[s].amount = req[p].amt
    BY <2>2 DEF LockInv, ReviewedRowIsStable
  <2>4. subs'[s] = subs[s] /\ lock'[s] = lock[s]
    BY <2>3, PaymentsAssumption DEF NonHolderStep
  <2> QED
    BY <2>1, <2>3, <2>4
<1>2. LockHasApproval'
  BY DEF LockInv, LockHasApproval, NonHolderStep, Typed, TypeOK
<1>3. FreeRowsUnlocked'
  BY DEF LockInv, FreeRowsUnlocked, NonHolderStep, Exists
<1> QED
  BY <1>1, <1>2, <1>3 DEF LockInv

LEMMA HolderStepLocks ==
  ASSUME LockInv, NEW r \in Requests, HolderStep(r), Typed'
  PROVE  LockInv'
<1>1. PICK q \in Request : /\ q.pc \in HoldingPcs
                           /\ q.sub = req[r].sub
                           /\ q.amt = req[r].amt
                           /\ req' = [req EXCEPT ![r] = q]
  BY DEF HolderStep
<1>2. /\ \A p \in Requests : req'[p].sub = req[p].sub /\ req'[p].amt = req[p].amt
      /\ \A p \in Requests : req'[p].pc \in HoldingPcs <=> req[p].pc \in HoldingPcs
  BY <1>1 DEF HolderStep, LockInv, Typed, TypeOK
<1>3. lock' = lock /\ subs' = subs
  BY DEF HolderStep
<1>4. ReviewedRowIsStable'
  BY <1>2, <1>3 DEF LockInv, ReviewedRowIsStable, Approving, HoldingPcs
<1>5. LockHasApproval'
  BY <1>2, <1>3 DEF LockInv, LockHasApproval
<1>6. FreeRowsUnlocked'
  BY <1>3 DEF LockInv, FreeRowsUnlocked, Exists
<1> QED
  BY <1>4, <1>5, <1>6 DEF LockInv

LEMMA ReleaseStepLocks ==
  ASSUME LockInv, NEW r \in Requests, ReleaseStep(r), Typed',
         \A s \in Submissions : lock[s] = r => subs'[s].status # "none"
  PROVE  LockInv'
<1>1. req'[r].pc \notin HoldingPcs /\ \A p \in Requests \ {r} : req'[p] = req[p]
  BY DEF ReleaseStep, LockInv, Typed, TypeOK
<1>2. ReviewedRowIsStable'
  <2> SUFFICES ASSUME NEW p \in Requests, Approving(p)'
               PROVE  LET s == req'[p].sub IN
                      /\ s \in Submissions
                      /\ lock'[s] = p
                      /\ subs'[s].status = "PENDING_REVIEW"
                      /\ ~ subs'[s].locked
                      /\ subs'[s].amount = req'[p].amt
    BY DEF ReviewedRowIsStable, Approving
  <2>1. p # r /\ req'[p] = req[p]
    BY <1>1 DEF Approving, HoldingPcs
  <2> DEFINE s == req[p].sub
  <2>2. /\ s \in Submissions
        /\ lock[s] = p
        /\ subs[s].status = "PENDING_REVIEW"
        /\ ~ subs[s].locked
        /\ subs[s].amount = req[p].amt
    BY <2>1 DEF LockInv, ReviewedRowIsStable, Approving
  <2>3. lock'[s] = p /\ subs'[s] = subs[s]
    BY <2>1, <2>2 DEF ReleaseStep, Unlock
  <2> QED
    BY <2>1, <2>2, <2>3
<1>3. LockHasApproval'
  <2> SUFFICES ASSUME NEW s \in Submissions, NEW p \in Requests, lock'[s] = p
               PROVE  req'[p].pc \in HoldingPcs /\ req'[p].sub = s
    BY DEF LockHasApproval
  <2>1. lock[s] = p /\ p # r
    BY PaymentsAssumption DEF ReleaseStep, Unlock
  <2> QED
    BY <1>1, <2>1 DEF LockInv, LockHasApproval
<1>4. FreeRowsUnlocked'
  BY DEF LockInv, FreeRowsUnlocked, ReleaseStep, Exists
<1> QED
  BY <1>2, <1>3, <1>4 DEF LockInv

LEMMA ApproveLockLocks ==
  ASSUME LockInv, NEW r \in Requests, ApproveLock(r), Typed'
  PROVE  LockInv'
<1> DEFINE s == req[r].sub
<1>1. s \in Submissions /\ req[r].pc \notin HoldingPcs
  BY DEF ApproveLock, LockInv, Typed, RowChosen, RowPcs, HoldingPcs
<1>2. CASE ~ Reviewable(s)
  <2>1. NonHolderStep(r)
    BY <1>1, <1>2, IdleHoldsNothing DEF ApproveLock, NonHolderStep, Finish, tables
  <2> QED
    BY <2>1, NonHolderStepLocks
<1>3. CASE Reviewable(s)
  <2>1. /\ lock' = [lock EXCEPT ![s] = r]
        /\ req' = [req EXCEPT ![r].pc = "fifoOpen", ![r].amt = subs[s].amount]
        /\ subs' = subs
        /\ lock[s] = None
    BY <1>3 DEF ApproveLock, tables
  <2>2. /\ req'[r].pc = "fifoOpen"
        /\ req'[r].sub = s
        /\ req'[r].amt = subs[s].amount
        /\ \A p \in Requests \ {r} : req'[p] = req[p]
    BY <2>1 DEF LockInv, Typed, TypeOK, Request
  <2>3. lock'[s] = r /\ \A t \in Submissions \ {s} : lock'[t] = lock[t]
    BY <1>1, <2>1 DEF LockInv, Typed, TypeOK
  <2>4. ReviewedRowIsStable'
    <3> SUFFICES ASSUME NEW p \in Requests, Approving(p)'
                 PROVE  LET t == req'[p].sub IN
                        /\ t \in Submissions
                        /\ lock'[t] = p
                        /\ subs'[t].status = "PENDING_REVIEW"
                        /\ ~ subs'[t].locked
                        /\ subs'[t].amount = req'[p].amt
      BY DEF ReviewedRowIsStable, Approving
    <3>1. CASE p = r
      BY <1>1, <1>3, <2>1, <2>2, <2>3, <3>1 DEF Reviewable
    <3>2. CASE p # r
      <4>1. Approving(p) /\ req'[p] = req[p]
        BY <2>2, <3>2 DEF Approving
      <4>2. req[p].sub \in Submissions \ {s}
        BY <2>1, <4>1, PaymentsAssumption DEF LockInv, ReviewedRowIsStable
      <4> QED
        BY <2>1, <2>3, <4>1, <4>2 DEF LockInv, ReviewedRowIsStable
    <3> QED
      BY <3>1, <3>2
  <2>5. LockHasApproval'
    <3> SUFFICES ASSUME NEW t \in Submissions, NEW p \in Requests, lock'[t] = p
                 PROVE  req'[p].pc \in HoldingPcs /\ req'[p].sub = t
      BY DEF LockHasApproval
    <3>1. CASE t = s
      BY <2>2, <2>3, <3>1 DEF HoldingPcs
    <3>2. CASE t # s
      <4>1. lock[t] = p
        BY <2>3, <3>2
      <4>2. p # r
        BY <1>1, <4>1 DEF LockInv, LockHasApproval
      <4> QED
        BY <2>2, <4>1, <4>2 DEF LockInv, LockHasApproval
    <3> QED
      BY <3>1, <3>2
  <2>6. FreeRowsUnlocked'
    BY <2>1 DEF LockInv, FreeRowsUnlocked, Exists
  <2> QED
    BY <2>4, <2>5, <2>6 DEF LockInv
<1> QED
  BY <1>2, <1>3

-----------------------------------------------------------------------------
(* Which kind each action is. *)

LEMMA QuietIsNonHolder ==
  ASSUME NEW r \in Requests, QuietStep(r)
  PROVE  NonHolderStep(r)
  BY DEF QuietStep, NonHolderStep, FifoPcs, tables

LEMMA CreateIsNonHolder ==
  ASSUME LockInv, NEW r \in Requests, req[r].pc \notin HoldingPcs,
         CreateSubmission(r), Finish(r), lock' = lock
  PROVE  NonHolderStep(r)
<1>1. ASSUME NEW s \in Submissions PROVE
        \/ subs'[s] = subs[s]
        \/ lock[s] = None /\ subs'[s].status # "none" /\ subs'[s].locked = subs[s].locked
  <2>1. CASE subs' = subs
    BY <2>1
  <2>2. CASE \E t \in Submissions :
               /\ ~ Exists(t)
               /\ subs' = [subs EXCEPT ![t] = [inv |-> req[r].inv, amount |-> req[r].amt,
                                               status |-> "PENDING_REVIEW",
                                               locked |-> FALSE]]
    <3>1. PICK t \in Submissions :
               /\ ~ Exists(t)
               /\ subs' = [subs EXCEPT ![t] = [inv |-> req[r].inv, amount |-> req[r].amt,
                                               status |-> "PENDING_REVIEW",
                                               locked |-> FALSE]]
      BY <2>2
    <3>2. CASE s # t
      BY <3>1, <3>2 DEF LockInv, Typed, TypeOK
    <3>3. CASE s = t
      <4>1. lock[s] \notin Requests
        BY <3>1, <3>3 DEF LockInv, LockHasApproval, ReviewedRowIsStable, Approving,
                          HoldingPcs, Exists
      <4>2. lock[s] = None
        BY <4>1 DEF LockInv, Typed, TypeOK
      <4>3. subs'[s].status = "PENDING_REVIEW" /\ ~ subs'[s].locked
        BY <3>1, <3>3 DEF LockInv, Typed, TypeOK
      <4>4. ~ subs[s].locked /\ subs[s].locked \in BOOLEAN
        BY <3>1, <3>3 DEF LockInv, FreeRowsUnlocked, Typed, TypeOK, Row
      <4>5. subs'[s].locked = FALSE /\ subs[s].locked = FALSE
        BY <3>1, <3>3, <4>4 DEF LockInv, Typed, TypeOK
      <4> QED
        BY <4>2, <4>3, <4>5
    <3> QED
      BY <3>2, <3>3
  <2> QED
    BY <2>1, <2>2 DEF CreateSubmission
<1> QED
  BY <1>1, IdleHoldsNothing DEF NonHolderStep, Finish

LEMMA SubmitWriteIsNonHolder ==
  ASSUME LockInv, NEW r \in Requests, SubmitWrite(r)
  PROVE  NonHolderStep(r)
<1>1. req[r].pc \notin HoldingPcs /\ Finish(r) /\ lock' = lock
  BY DEF SubmitWrite, At, HoldingPcs
<1>2. CASE CreateSubmission(r)
  BY <1>1, <1>2, CreateIsNonHolder
<1>3. CASE req[r].sub # None /\ ReplaceSubmission(r)
  <2>1. req[r].sub \in Submissions /\ lock[req[r].sub] = None
    BY <1>3 DEF LockInv, Typed, TypeOK, Request, ReplaceSubmission
  <2>2. \A s \in Submissions :
          \/ subs'[s] = subs[s]
          \/ lock[s] = None /\ subs'[s].status # "none" /\ subs'[s].locked = subs[s].locked
    BY <1>3, <2>1 DEF ReplaceSubmission, LockInv, Typed, TypeOK, Row
  <2> QED
    BY <1>1, <2>2, IdleHoldsNothing DEF NonHolderStep, Finish
<1> QED
  BY <1>2, <1>3 DEF SubmitWrite

LEMMA RejectWriteIsNonHolder ==
  ASSUME LockInv, NEW r \in Requests, RejectWrite(r)
  PROVE  NonHolderStep(r)
<1>1. req[r].pc \notin HoldingPcs /\ Finish(r) /\ lock' = lock
  BY DEF RejectWrite, At, HoldingPcs
<1>2. \A s \in Submissions :
        \/ subs'[s] = subs[s]
        \/ lock[s] = None /\ subs'[s].status # "none" /\ subs'[s].locked = subs[s].locked
  BY DEF RejectWrite, LockInv, Typed, TypeOK, Row
<1> QED
  BY <1>1, <1>2, IdleHoldsNothing DEF NonHolderStep, Finish

LEMMA DirectCreateIsNonHolder ==
  ASSUME LockInv, NEW r \in Requests, DirectCreate(r)
  PROVE  NonHolderStep(r)
  BY CreateIsNonHolder DEF DirectCreate, At, HoldingPcs

LEMMA PayoutWriteIsNonHolder ==
  ASSUME NEW r \in Requests, PayoutWrite(r)
  PROVE  NonHolderStep(r)
  BY IdleHoldsNothing DEF PayoutWrite, At, HoldingPcs, NonHolderStep, Finish

LEMMA FifoReadKind ==
  ASSUME Typed, NEW r \in Requests, FifoRead(r)
  PROVE  /\ HolderStep(r) \/ NonHolderStep(r)
         /\ req'[r].pc \in AllocPcs
<1> DEFINE q == [req[r] EXCEPT !.pc = IF @ = "fifoOpen" THEN "fifo" ELSE "orphan",
                               !.left = req[r].amt,
                               !.todo = {i \in Invoices : IsOpen(i)},
                               !.snap = totalDue, !.due = totalDue]
<1>1. req[r] \in Request /\ totalDue \in [Invoices -> Nat]
  BY DEF Typed, TypeOK
<1>2. /\ q \in Request /\ q.sub = req[r].sub /\ q.amt = req[r].amt
      /\ q.pc = IF req[r].pc = "fifoOpen" THEN "fifo" ELSE "orphan"
  BY <1>1 DEF Request, Pcs
<1>3. req' = [req EXCEPT ![r] = q]
  BY DEF FifoRead
<1> HIDE DEF q
<1>4. req'[r] = q /\ lock' = lock /\ subs' = subs
  BY <1>3 DEF FifoRead, tables, Typed, TypeOK
<1>5. CASE req[r].pc = "fifoOpen"
  BY <1>2, <1>3, <1>4, <1>5 DEF HolderStep, HoldingPcs
<1>6. CASE req[r].pc = "orphanOpen"
  BY <1>2, <1>3, <1>4, <1>6 DEF NonHolderStep, HoldingPcs
<1> QED
  BY <1>2, <1>4, <1>5, <1>6 DEF FifoRead

LEMMA FifoStepKind ==
  ASSUME Typed, NEW r \in Requests, FifoStep(r)
  PROVE  /\ HolderStep(r) \/ NonHolderStep(r)
         /\ req'[r].pc = req[r].pc
<1>1. req[r] \in Request
  BY DEF Typed, TypeOK
<1>2. PICK i \in Invoices : FifoPay(r, i)
  BY <1>1 DEF FifoStep, Oldest, Request
<1>3. PICK q \in Request : /\ req' = [req EXCEPT ![r] = q]
                           /\ q.sub = req[r].sub
                           /\ q.pc = req[r].pc
                           /\ q.amt = req[r].amt
  BY <1>1, <1>2, FifoPayTyped
<1>4. lock' = lock /\ subs' = subs
  BY DEF FifoStep, tables
<1>5. CASE req[r].pc = "fifo"
  BY <1>3, <1>4, <1>5 DEF HolderStep, HoldingPcs, Typed, TypeOK
<1>6. CASE req[r].pc = "orphan"
  BY <1>3, <1>4, <1>6 DEF NonHolderStep, HoldingPcs, Typed, TypeOK
<1> QED
  BY <1>3, <1>5, <1>6 DEF FifoStep, Typed, TypeOK

LEMMA FifoCommitKind ==
  ASSUME Typed, NEW r \in Requests, FifoCommit(r)
  PROVE  \/ /\ req[r].pc = "fifo" /\ req'[r].pc = "approveCommit"
            /\ HolderStep(r)
            /\ UNCHANGED lateAborts
         \/ /\ req[r].pc = "orphan"
            /\ NonHolderStep(r)
            /\ lateAborts' = [lateAborts EXCEPT ![req[r].sub] = @ + 1]
<1> DEFINE q == [Idle EXCEPT !.pc = "approveCommit", !.sub = req[r].sub,
                             !.amt = req[r].amt]
<1>1. req[r] \in Request
  BY DEF Typed, TypeOK
<1>2. q \in Request /\ q.sub = req[r].sub /\ q.amt = req[r].amt /\ q.pc = "approveCommit"
  BY <1>1, IdleTyped DEF Request, Pcs
<1>3. lock' = lock /\ subs' = subs
  BY DEF FifoCommit
<1>4. CASE /\ req[r].pc = "fifo"
           /\ req' = [req EXCEPT ![r] = q]
           /\ UNCHANGED lateAborts
  <2> HIDE DEF q
  <2> QED
    BY <1>2, <1>3, <1>4 DEF HolderStep, HoldingPcs, Typed, TypeOK
<1>5. CASE /\ req[r].pc = "orphan"
           /\ Finish(r)
           /\ lateAborts' = [lateAborts EXCEPT ![req[r].sub] = @ + 1]
  BY <1>3, <1>5, IdleHoldsNothing DEF NonHolderStep, HoldingPcs, Finish
<1> QED
  BY <1>4, <1>5 DEF FifoCommit

\* What an approval that is about to commit knows of the locks.
LEMMA HolderOwnsItsRow ==
  ASSUME LockInv, NEW r \in Requests, req[r].pc \in HoldingPcs
  PROVE  /\ req[r].sub \in Submissions
         /\ lock[req[r].sub] = r
         /\ subs[req[r].sub].status = "PENDING_REVIEW"
         /\ ~ subs[req[r].sub].locked
         /\ \A s \in Submissions \ {req[r].sub} : lock[s] # r
  BY DEF LockInv, ReviewedRowIsStable, LockHasApproval, Approving, HoldingPcs

LEMMA ApproveCommitIsRelease ==
  ASSUME LockInv, NEW r \in Requests, ApproveCommit(r)
  PROVE  ReleaseStep(r) /\ \A s \in Submissions : lock[s] = r => subs'[s].status # "none"
<1>1. req[r].pc \in HoldingPcs
  BY DEF ApproveCommit, HoldingPcs
<1> DEFINE s == req[r].sub
<1>2. /\ subs'[s].status = "APPROVED"
      /\ \A t \in Submissions \ {s} : subs'[t] = subs[t]
  BY <1>1, HolderOwnsItsRow DEF ApproveCommit, LockInv, Typed, TypeOK, Row
<1>3. Unlock(r)
  <2>1. /\ lock \in [Submissions -> Requests \cup {None}]
        /\ lock' = [lock EXCEPT ![s] = None]
    BY DEF ApproveCommit, LockInv, Typed, TypeOK
  <2>2. s \in Submissions /\ lock[s] = r /\ \A t \in Submissions \ {s} : lock[t] # r
    BY <1>1, HolderOwnsItsRow
  <2>3. PICK t \in Submissions : t = s
    BY <2>2
  <2>4. lock' = [u \in Submissions |-> IF lock[u] = r THEN None ELSE lock[u]]
    BY <2>1, <2>2, <2>3
  <2> QED
    BY <2>4 DEF Unlock
<1> QED
  BY <1>1, <1>2, <1>3, HolderOwnsItsRow, IdleHoldsNothing DEF ApproveCommit, ReleaseStep, Finish

LEMMA AbortIsRelease ==
  ASSUME LockInv, NEW r \in Requests, OuterTimeout(r) \/ Abort(r) \/ LateAbort(r)
  PROVE  ReleaseStep(r) /\ \A s \in Submissions : lock[s] = r => subs'[s].status # "none"
<1>1. /\ \E q \in Request : q.pc \notin HoldingPcs /\ req' = [req EXCEPT ![r] = q]
      /\ Unlock(r)
      /\ subs' = subs
  <2>1. CASE Abort(r) \/ LateAbort(r)
    BY <2>1, IdleHoldsNothing DEF Abort, LateAbort, Finish, tables
  <2>2. CASE OuterTimeout(r)
    <3>1. PICK pc \in {"orphanOpen", "orphan"} : req' = [req EXCEPT ![r].pc = pc]
      BY <2>2 DEF OuterTimeout
    <3> DEFINE q == [req[r] EXCEPT !.pc = pc]
    <3>2. q \in Request /\ q.pc \notin HoldingPcs
      BY DEF LockInv, Typed, TypeOK, Request, Pcs, HoldingPcs
    <3>3. req' = [req EXCEPT ![r] = q]
      BY <3>1
    <3> HIDE DEF q
    <3> QED
      BY <2>2, <3>2, <3>3 DEF OuterTimeout, tables
  <2> QED
    BY <2>1, <2>2
<1>2. \A s \in Submissions : lock[s] = r => subs[s].status = "PENDING_REVIEW"
  BY DEF LockInv, LockHasApproval, ReviewedRowIsStable, Approving, HoldingPcs
<1> QED
  BY <1>1, <1>2 DEF ReleaseStep

LEMMA LockInvInit == Init => LockInv
<1> SUFFICES ASSUME Init PROVE LockInv
  OBVIOUS
<1>1. ReviewedRowIsStable /\ LockHasApproval
  BY PaymentsAssumption DEF Init, ReviewedRowIsStable, LockHasApproval, Approving, Idle
<1>2. FreeRowsUnlocked
  BY DEF Init, FreeRowsUnlocked, NoRow
<1> QED
  BY <1>1, <1>2, TypedInit DEF LockInv

LEMMA LockInvNext ==
  ASSUME LockInv, [Next]_vars
  PROVE  LockInv'
<1>1. Typed /\ Typed'
  BY TypedNext DEF LockInv
<1>2. ASSUME NEW r \in Requests, QuietAction(r) PROVE LockInv'
  BY <1>1, <1>2, QuietActionIsQuiet, QuietIsNonHolder, NonHolderStepLocks
<1>3. ASSUME NEW r \in Requests,
             SubmitWrite(r) \/ RejectWrite(r) \/ DirectCreate(r) \/ PayoutWrite(r)
      PROVE  LockInv'
  BY <1>1, <1>3, SubmitWriteIsNonHolder, RejectWriteIsNonHolder,
     DirectCreateIsNonHolder, PayoutWriteIsNonHolder, NonHolderStepLocks
<1>4. ASSUME NEW r \in Requests, FifoRead(r) \/ FifoStep(r) \/ FifoCommit(r)
      PROVE  LockInv'
  BY <1>1, <1>4, FifoReadKind, FifoStepKind, FifoCommitKind, HolderStepLocks,
     NonHolderStepLocks
<1>5. ASSUME NEW r \in Requests,
             ApproveCommit(r) \/ OuterTimeout(r) \/ Abort(r) \/ LateAbort(r)
      PROVE  LockInv'
  BY <1>1, <1>5, ApproveCommitIsRelease, AbortIsRelease, ReleaseStepLocks
<1>6. ASSUME NEW r \in Requests, ApproveLock(r) PROVE LockInv'
  BY <1>1, <1>6, ApproveLockLocks
<1>7. CASE (\E d \in Invoices : MarkOverdue(d)) \/ LeaseEnds \/ UNCHANGED vars
  <2>1. UNCHANGED <<subs, lock, req>>
    BY <1>7 DEF MarkOverdue, LeaseEnds, vars, tables
  <2>2. ReviewedRowIsStable' /\ LockHasApproval' /\ FreeRowsUnlocked'
    BY <2>1 DEF LockInv, ReviewedRowIsStable, LockHasApproval, FreeRowsUnlocked,
                Approving, Exists
  <2> QED
    BY <1>1, <2>2 DEF LockInv
<1> QED
  BY <1>2, <1>3, <1>4, <1>5, <1>6, <1>7, NextCases

\* From SELECT ... FOR UPDATE to the end of the transaction, be it the commit or
\* the timeout, the row an approval reviews is under review, unlocked and carries
\* the amount the approval read, whatever the other requests do, among them the
\* allocations that have outlived their own approval.
THEOREM ReviewIsIsolated == Spec => []ReviewedRowIsStable
<1>1. Init => LockInv
  BY LockInvInit
<1>2. LockInv /\ [Next]_vars => LockInv'
  BY LockInvNext
<1>3. LockInv => ReviewedRowIsStable
  BY DEF LockInv
<1> QED
  BY <1>1, <1>2, <1>3, PTL DEF Spec

-----------------------------------------------------------------------------
(* Accounting: how often the amount of a submission has been applied. *)

AccountInv == LockInv /\ AppliedAccounting

LEMMA NonHolderStepAccount ==
  ASSUME AccountInv, NEW r \in Requests, NonHolderStep(r),
         UNCHANGED <<applied, lateAborts>>
  PROVE  AppliedAccounting'
<1>1. \A p \in Requests : req[p].pc \in HoldingPcs => req'[p] = req[p]
  BY DEF NonHolderStep, AccountInv, LockInv, Typed, TypeOK
<1>2. req'[r].pc \notin HoldingPcs
  BY DEF NonHolderStep, AccountInv, LockInv, Typed, TypeOK
<1>3. \A s \in Submissions : InFlight(s)' <=> InFlight(s)
  BY <1>1, <1>2 DEF InFlight, NonHolderStep, HoldingPcs, AccountInv, LockInv,
                    LockHasApproval
<1>4. \A s \in Submissions : subs'[s].locked = subs[s].locked
  BY DEF NonHolderStep
<1> QED
  BY <1>3, <1>4 DEF AccountInv, AppliedAccounting

\* A step of an approval that is not its FifoCommit.
LEMMA HolderStepAccount ==
  ASSUME AccountInv, NEW r \in Requests, HolderStep(r),
         req[r].pc # "approveCommit", req'[r].pc # "approveCommit",
         UNCHANGED <<applied, lateAborts>>
  PROVE  AppliedAccounting'
<1>1. \A p \in Requests \ {r} : req'[p] = req[p]
  BY DEF HolderStep, AccountInv, LockInv, Typed, TypeOK
<1>2. \A s \in Submissions : InFlight(s)' <=> InFlight(s)
  BY <1>1 DEF InFlight, HolderStep
<1> QED
  BY <1>2 DEF HolderStep, AccountInv, AppliedAccounting

LEMMA FifoCommitAccount ==
  ASSUME AccountInv, NEW r \in Requests, FifoCommit(r), req[r].pc = "fifo"
  PROVE  AppliedAccounting'
<1>1. /\ HolderStep(r) /\ req'[r].pc = "approveCommit" /\ req[r].pc = "fifo"
      /\ lateAborts' = lateAborts
  BY FifoCommitKind DEF AccountInv, LockInv
<1>0. PICK s \in Submissions : s = req[r].sub
  BY <1>1, HolderOwnsItsRow DEF AccountInv, HoldingPcs
<1>2. lock[s] = r /\ ~ subs[s].locked
  BY <1>0, <1>1, HolderOwnsItsRow DEF AccountInv, HoldingPcs
<1>3. /\ \A p \in Requests \ {r} : req'[p] = req[p]
      /\ lock' = lock
      /\ subs' = subs
  BY <1>1 DEF HolderStep, AccountInv, LockInv, Typed, TypeOK
<1>4. /\ \A t \in Submissions \ {s} : applied'[t] = applied[t]
      /\ applied'[s] = applied[s] + 1
      /\ lateAborts' = lateAborts
  BY <1>0, <1>1, <1>2 DEF FifoCommit, AccountInv, LockInv, Typed, TypeOK
<1>5. ~ InFlight(s) /\ InFlight(s)'
  BY <1>0, <1>1, <1>2, <1>3 DEF InFlight
<1>6. \A t \in Submissions \ {s} : InFlight(t)' <=> InFlight(t)
  BY <1>0, <1>1, <1>2, <1>3 DEF InFlight, AccountInv, LockInv, LockHasApproval
<1>7. lateAborts[s] \in Nat /\ applied[s] = lateAborts[s]
  BY <1>2, <1>5 DEF AccountInv, AppliedAccounting, LockInv, Typed, TypeOK
<1>8. ASSUME NEW t \in Submissions
      PROVE  applied'[t] = lateAborts'[t]
               + (IF subs'[t].locked \/ InFlight(t)' THEN 1 ELSE 0)
  <2>1. CASE t = s
    BY <1>4, <1>5, <1>7, <2>1
  <2>2. CASE t # s
    BY <1>3, <1>4, <1>6, <2>2 DEF AccountInv, AppliedAccounting
  <2> QED
    BY <2>1, <2>2
<1> QED
  BY <1>8 DEF AppliedAccounting

\* An orphan applies the amount of its row once more, and is counted.
LEMMA OrphanCommitAccount ==
  ASSUME AccountInv, NEW r \in Requests, FifoCommit(r), req[r].pc = "orphan"
  PROVE  AppliedAccounting'
<1>1. NonHolderStep(r) /\ lateAborts' = [lateAborts EXCEPT ![req[r].sub] = @ + 1]
  BY FifoCommitKind DEF AccountInv, LockInv
<1>2. applied' = [applied EXCEPT ![req[r].sub] = @ + 1]
  BY DEF FifoCommit
<1>3. /\ applied \in [Submissions -> Nat] /\ lateAborts \in [Submissions -> Nat]
      /\ req \in [Requests -> Request]
  BY DEF AccountInv, LockInv, Typed, TypeOK
<1>4. ASSUME NEW s \in Submissions
      PROVE  (InFlight(s)' <=> InFlight(s)) /\ subs'[s].locked = subs[s].locked
  <2>1. /\ lock' = lock /\ req'[r].pc # "approveCommit"
        /\ \A p \in Requests \ {r} : req'[p] = req[p]
        /\ subs'[s].locked = subs[s].locked
    BY <1>1, <1>3 DEF NonHolderStep, HoldingPcs
  <2> QED
    BY <2>1 DEF InFlight
<1>5. ASSUME NEW s \in Submissions
      PROVE  applied'[s] - lateAborts'[s] = applied[s] - lateAborts[s]
  BY <1>1, <1>2, <1>3
<1>6. ASSUME NEW s \in Submissions
      PROVE  applied'[s] = lateAborts'[s]
               + (IF subs'[s].locked \/ InFlight(s)' THEN 1 ELSE 0)
  <2>1. applied[s] = lateAborts[s] + (IF subs[s].locked \/ InFlight(s) THEN 1 ELSE 0)
    BY DEF AccountInv, AppliedAccounting
  <2>2. /\ applied'[s] \in Nat /\ lateAborts'[s] \in Nat
        /\ applied[s] \in Nat /\ lateAborts[s] \in Nat
    BY <1>1, <1>2, <1>3
  <2> DEFINE one  == IF subs[s].locked \/ InFlight(s) THEN 1 ELSE 0
             one1 == IF subs'[s].locked \/ InFlight(s)' THEN 1 ELSE 0
  <2>3. one = one1 /\ one \in Nat
    BY <1>4
  <2> HIDE DEF one, one1
  <2>4. applied'[s] = lateAborts'[s] + one1
    BY <1>5, <2>1, <2>2, <2>3 DEF one
  <2> QED
    BY <2>4 DEF one1
<1> QED
  BY <1>6 DEF AppliedAccounting

\* The end of a request: only its own row may change its account.
LEMMA ReleaseStepOthers ==
  ASSUME AccountInv, NEW r \in Requests, ReleaseStep(r),
         NEW t \in Submissions, lock[t] # r
  PROVE  /\ InFlight(t)' <=> InFlight(t)
         /\ subs'[t] = subs[t]
<1>1. lock'[t] = lock[t] /\ subs'[t] = subs[t]
  BY DEF ReleaseStep, Unlock
<1>2. \A p \in Requests \ {r} : req'[p] = req[p]
  BY DEF ReleaseStep, AccountInv, LockInv, Typed, TypeOK
<1> QED
  BY <1>1, <1>2 DEF InFlight

LEMMA ReleasedIsNotInFlight ==
  ASSUME AccountInv, NEW r \in Requests, ReleaseStep(r),
         NEW s \in Submissions, lock[s] = r
  PROVE  ~ InFlight(s)'
  BY PaymentsAssumption DEF InFlight, ReleaseStep, Unlock

LEMMA ApproveCommitAccount ==
  ASSUME AccountInv, NEW r \in Requests, ApproveCommit(r)
  PROVE  AppliedAccounting'
<1>1. ReleaseStep(r) /\ req[r].pc \in HoldingPcs /\ UNCHANGED <<applied, lateAborts>>
  BY ApproveCommitIsRelease DEF ApproveCommit, AccountInv, HoldingPcs, ghosts
<1>0. PICK s \in Submissions : s = req[r].sub
  BY <1>1, HolderOwnsItsRow DEF AccountInv
<1>2. /\ lock[s] = r
      /\ \A t \in Submissions \ {s} : lock[t] # r
  BY <1>0, <1>1, HolderOwnsItsRow DEF AccountInv
<1>3. InFlight(s) /\ subs'[s].locked
  BY <1>0, <1>2 DEF InFlight, ApproveCommit, AccountInv, LockInv, Typed, TypeOK, Row
<1>4. ASSUME NEW t \in Submissions
      PROVE  applied'[t] = lateAborts'[t]
               + (IF subs'[t].locked \/ InFlight(t)' THEN 1 ELSE 0)
  <2>1. CASE t = s
    BY <1>1, <1>2, <1>3, <2>1 DEF AccountInv, AppliedAccounting
  <2>2. CASE t # s
    BY <1>1, <1>2, <2>2, ReleaseStepOthers DEF AccountInv, AppliedAccounting
  <2> QED
    BY <2>1, <2>2
<1> QED
  BY <1>4 DEF AppliedAccounting

LEMMA AbortAccount ==
  ASSUME AccountInv, NEW r \in Requests, OuterTimeout(r) \/ Abort(r)
  PROVE  AppliedAccounting'
<1>1. ReleaseStep(r) /\ UNCHANGED <<subs, applied, lateAborts>>
  BY AbortIsRelease DEF OuterTimeout, Abort, AccountInv, tables, ghosts
<1>2. ASSUME NEW t \in Submissions PROVE InFlight(t)' <=> InFlight(t)
  <2>1. CASE lock[t] = r
    BY <1>1, <2>1, ReleasedIsNotInFlight DEF InFlight, OuterTimeout, Abort
  <2>2. CASE lock[t] # r
    BY <1>1, <2>2, ReleaseStepOthers
  <2> QED
    BY <2>1, <2>2
<1> QED
  BY <1>1, <1>2 DEF AccountInv, AppliedAccounting

LEMMA LateAbortAccount ==
  ASSUME AccountInv, NEW r \in Requests, LateAbort(r)
  PROVE  AppliedAccounting'
<1>1. ReleaseStep(r) /\ req[r].pc \in HoldingPcs /\ UNCHANGED <<subs, applied>>
  BY AbortIsRelease DEF LateAbort, AccountInv, HoldingPcs, tables
<1>0. PICK s \in Submissions : s = req[r].sub
  BY <1>1, HolderOwnsItsRow DEF AccountInv
<1>2. /\ lock[s] = r /\ ~ subs[s].locked
      /\ \A t \in Submissions \ {s} : lock[t] # r
  BY <1>0, <1>1, HolderOwnsItsRow DEF AccountInv
<1>3. InFlight(s) /\ ~ InFlight(s)'
  BY <1>0, <1>1, <1>2, ReleasedIsNotInFlight DEF InFlight, LateAbort
<1>4. /\ lateAborts[s] \in Nat
      /\ lateAborts'[s] = lateAborts[s] + 1
      /\ \A t \in Submissions \ {s} : lateAborts'[t] = lateAborts[t]
  BY <1>0, <1>2 DEF LateAbort, AccountInv, LockInv, Typed, TypeOK
<1>5. applied[s] = lateAborts[s] + 1
  BY <1>2, <1>3 DEF AccountInv, AppliedAccounting
<1>6. ASSUME NEW t \in Submissions
      PROVE  applied'[t] = lateAborts'[t]
               + (IF subs'[t].locked \/ InFlight(t)' THEN 1 ELSE 0)
  <2>1. CASE t = s
    BY <1>1, <1>2, <1>3, <1>4, <1>5, <2>1
  <2>2. CASE t # s
    BY <1>1, <1>2, <1>4, <2>2, ReleaseStepOthers DEF AccountInv, AppliedAccounting
  <2> QED
    BY <2>1, <2>2
<1> QED
  BY <1>6 DEF AppliedAccounting

LEMMA ApproveLockAccount ==
  ASSUME AccountInv, NEW r \in Requests, ApproveLock(r)
  PROVE  AppliedAccounting'
<1> DEFINE s == req[r].sub
<1>1. /\ s \in Submissions /\ lock[s] = None /\ req[r].pc = "approveLock"
      /\ UNCHANGED <<subs, applied, lateAborts>>
  BY DEF ApproveLock, AccountInv, LockInv, Typed, RowChosen, RowPcs, tables, ghosts
<1>2. /\ \A p \in Requests \ {r} : req'[p] = req[p]
      /\ req'[r].pc # "approveCommit"
      /\ \A t \in Submissions \ {s} : lock'[t] = lock[t]
      /\ lock'[s] \in {None, r}
  BY <1>1 DEF ApproveLock, Finish, Idle, AccountInv, LockInv, Typed, TypeOK, Request
<1>3. \A t \in Submissions : InFlight(t)' <=> InFlight(t)
  BY <1>1, <1>2, PaymentsAssumption DEF InFlight
<1> QED
  BY <1>1, <1>3 DEF AccountInv, AppliedAccounting

LEMMA AccountInvInit == Init => AccountInv
<1> SUFFICES ASSUME Init PROVE AppliedAccounting
  BY LockInvInit DEF AccountInv
<1>1. \A s \in Submissions : ~ InFlight(s)
  BY PaymentsAssumption DEF Init, InFlight
<1> QED
  BY <1>1 DEF Init, AppliedAccounting, NoRow

LEMMA AccountInvNext ==
  ASSUME AccountInv, [Next]_vars
  PROVE  AccountInv'
<1>1. LockInv /\ LockInv' /\ Typed
  BY LockInvNext DEF AccountInv, LockInv
<1>2. ASSUME NEW r \in Requests, QuietAction(r) PROVE AppliedAccounting'
  <2>1. NonHolderStep(r) /\ UNCHANGED <<applied, lateAborts>>
    BY <1>1, <1>2, QuietActionIsQuiet, QuietIsNonHolder DEF QuietStep, ghosts
  <2> QED
    BY <2>1, NonHolderStepAccount
<1>3. ASSUME NEW r \in Requests,
             SubmitWrite(r) \/ RejectWrite(r) \/ DirectCreate(r) \/ PayoutWrite(r)
      PROVE  AppliedAccounting'
  <2>1. NonHolderStep(r)
    BY <1>1, <1>3, SubmitWriteIsNonHolder, RejectWriteIsNonHolder,
       DirectCreateIsNonHolder, PayoutWriteIsNonHolder
  <2>2. UNCHANGED <<applied, lateAborts>>
    BY <1>3 DEF SubmitWrite, RejectWrite, DirectCreate, PayoutWrite, ghosts
  <2> QED
    BY <2>1, <2>2, NonHolderStepAccount
<1>4. ASSUME NEW r \in Requests, FifoRead(r) \/ FifoStep(r) PROVE AppliedAccounting'
  <2>1. HolderStep(r) \/ NonHolderStep(r)
    BY <1>1, <1>4, FifoReadKind, FifoStepKind
  <2>2. req[r].pc # "approveCommit" /\ UNCHANGED <<applied, lateAborts>>
    BY <1>4 DEF FifoRead, FifoStep, ghosts
  <2>3. req'[r].pc # "approveCommit"
    BY <1>1, <1>4, <2>2, FifoReadKind, FifoStepKind
  <2> QED
    BY <2>1, <2>2, <2>3, HolderStepAccount, NonHolderStepAccount
<1>6. ASSUME NEW r \in Requests, FifoCommit(r) PROVE AppliedAccounting'
  BY <1>6, FifoCommitAccount, OrphanCommitAccount DEF FifoCommit
<1>5. CASE (\E d \in Invoices : MarkOverdue(d)) \/ LeaseEnds \/ UNCHANGED vars
  <2>1. UNCHANGED <<subs, lock, req, applied, lateAborts>>
    BY <1>5 DEF MarkOverdue, LeaseEnds, vars, tables, ghosts
  <2>2. \A s \in Submissions : InFlight(s)' <=> InFlight(s)
    BY <2>1 DEF InFlight
  <2> QED
    BY <1>1, <2>1, <2>2 DEF AccountInv, AppliedAccounting
<1> QED
  BY <1>1, <1>2, <1>3, <1>4, <1>5, <1>6, NextCases, ApproveCommitAccount,
     AbortAccount, LateAbortAccount, ApproveLockAccount DEF AccountInv

\* A submission's amount is applied to the invoices exactly once when it is
\* approved, and once more for each approval that rolled back while its
\* allocation committed, be it before the rollback or, after the timeout of the
\* outer transaction, behind it: there is no other double application.
THEOREM AppliedOncePerApproval == Spec => []AppliedAccounting
<1>1. Init => AccountInv
  BY AccountInvInit
<1>2. AccountInv /\ [Next]_vars => AccountInv'
  BY AccountInvNext
<1>3. AccountInv => AppliedAccounting
  BY DEF AccountInv
<1> QED
  BY <1>1, <1>2, <1>3, PTL DEF Spec

-----------------------------------------------------------------------------
(* The order of the FIFO allocation. *)

\* The loop of request r: an invoice that is open and that the loop has not
\* paid stands before every invoice the loop has changed, and the loop stops
\* at the first invoice it cannot cover.
LoopInOrder(r) ==
  LET q == req[r] IN
  q.pc \in AllocPcs =>
    /\ \A i \in q.todo : i \notin q.paid /\ q.due[i] = q.snap[i]
    /\ \A i \in Invoices : (IsOpen(i) /\ i \notin q.paid) =>
         /\ \A j \in Invoices : i < j => j \notin q.paid /\ q.due[j] = q.snap[j]
         /\ i \in q.todo \/ q.left = 0

LoopInv ==
  /\ Typed
  /\ \A r \in Requests : LoopInOrder(r) /\ (req[r].pc \notin AllocPcs => req[r].paid = {})

\* A step of request r that ends outside the loop and reopens no invoice.
LEMMA OutsideTheLoop ==
  ASSUME LoopInv, Typed', NEW r \in Requests, NEW q \in Request,
         req' = [req EXCEPT ![r] = q], q.pc \notin AllocPcs, q.paid = {},
         \A i \in Invoices : IsOpen(i)' => IsOpen(i)
  PROVE  LoopInv'
<1> SUFFICES ASSUME NEW p \in Requests
             PROVE  LoopInOrder(p)' /\ (req'[p].pc \notin AllocPcs => req'[p].paid = {})
  BY DEF LoopInv
<1>1. CASE p = r
  BY <1>1 DEF LoopInv, Typed, TypeOK, LoopInOrder
<1>2. CASE p # r
  <2>1. req'[p] = req[p]
    BY <1>2 DEF LoopInv, Typed, TypeOK
  <2> QED
    BY <2>1 DEF LoopInv, LoopInOrder
<1> QED
  BY <1>1, <1>2

LEMMA FifoReadLoop ==
  ASSUME LoopInv, Typed', NEW r \in Requests, FifoRead(r)
  PROVE  LoopInv'
<1> DEFINE q == [req[r] EXCEPT !.pc = IF @ = "fifoOpen" THEN "fifo" ELSE "orphan",
                               !.left = req[r].amt,
                               !.todo = {i \in Invoices : IsOpen(i)},
                               !.snap = totalDue, !.due = totalDue]
<1>1. req[r] \in Request /\ req[r].paid = {}
  BY DEF LoopInv, Typed, TypeOK, FifoRead
<1>2. /\ q.pc \in AllocPcs
      /\ q.paid = {}
      /\ q.todo = {i \in Invoices : IsOpen(i)}
      /\ q.snap = q.due
  BY <1>1 DEF Request
<1>3. req' = [req EXCEPT ![r] = q] /\ invStatus' = invStatus
  BY DEF FifoRead, tables
<1> HIDE DEF q
<1>4. req'[r] = q /\ \A p \in Requests \ {r} : req'[p] = req[p]
  BY <1>3 DEF LoopInv, Typed, TypeOK
<1>5. \A i \in Invoices : IsOpen(i)' <=> IsOpen(i)
  BY <1>3 DEF IsOpen
<1>6. ASSUME NEW p \in Requests
      PROVE  LoopInOrder(p)' /\ (req'[p].pc \notin AllocPcs => req'[p].paid = {})
  <2>1. CASE p = r
    BY <1>2, <1>4, <1>5, <2>1 DEF LoopInOrder
  <2>2. CASE p # r
    BY <1>4, <1>5, <2>2 DEF LoopInv, LoopInOrder
  <2> QED
    BY <2>1, <2>2
<1> QED
  BY <1>6 DEF LoopInv

LEMMA FifoStepLoop ==
  ASSUME LoopInv, Typed', NEW r \in Requests, FifoStep(r)
  PROVE  LoopInv'
<1> DEFINE q == req[r]
           n == req'[r]
<1>1. q \in Request /\ q.pc \in AllocPcs /\ q.left > 0
  BY DEF LoopInv, Typed, TypeOK, FifoStep
<1>2. PICK i \in Invoices : i \in Oldest(q.todo) /\ FifoPay(r, i)
  BY <1>1 DEF FifoStep, Oldest, Request
<1>3. /\ n.todo = q.todo \ {i}
      /\ n.pc \in AllocPcs
      /\ n.snap = q.snap
      /\ \A j \in Invoices \ {i} : n.due[j] = q.due[j]
      /\ \/ n.paid = q.paid \cup {i}
         \/ n.paid = q.paid /\ n.left = 0
      /\ \A p \in Requests \ {r} : req'[p] = req[p]
  <2>1. CASE Covers(q.left, q.snap[i])
    BY <1>1, <1>2, <2>1 DEF FifoPay, LoopInv, Typed, TypeOK, Request
  <2>2. CASE ~ Covers(q.left, q.snap[i])
    BY <1>1, <1>2, <2>2 DEF FifoPay, LoopInv, Typed, TypeOK, Request
  <2> QED
    BY <2>1, <2>2
<1>4. i \in q.todo /\ \A j \in q.todo : i <= j
  BY <1>2 DEF Oldest
<1>5. \A j \in Invoices : IsOpen(j)' <=> IsOpen(j)
  BY DEF FifoStep, tables, IsOpen
<1>6. LoopInOrder(r)
  BY DEF LoopInv
<1>7. \A j \in q.todo : j \notin q.paid /\ q.due[j] = q.snap[j]
  BY <1>1, <1>6 DEF LoopInOrder
<1>8. q.todo \subseteq Invoices /\ Invoices \subseteq Nat
  BY <1>1, InvoicesAreNaturals DEF Request
<1>9. \A j \in n.todo : j \notin n.paid /\ n.due[j] = n.snap[j]
  BY <1>3, <1>7, <1>8
<1>10. ASSUME NEW j \in Invoices, IsOpen(j), j \notin n.paid
       PROVE  /\ \A k \in Invoices : j < k => k \notin n.paid /\ n.due[k] = n.snap[k]
              /\ j \in n.todo \/ n.left = 0
  <2>1. j \notin q.paid
    BY <1>3, <1>10
  <2>2. /\ \A k \in Invoices : j < k => k \notin q.paid /\ q.due[k] = q.snap[k]
        /\ j \in q.todo
    BY <1>1, <1>6, <1>10, <2>1 DEF LoopInOrder
  <2>3. i <= j
    BY <1>4, <2>2
  <2>4. \A k \in Invoices : j < k => k # i
    BY <1>8, <2>3
  <2>5. \A k \in Invoices : j < k => k \notin n.paid /\ n.due[k] = n.snap[k]
    BY <1>3, <2>2, <2>4
  <2>6. j \in n.todo \/ n.left = 0
    BY <1>3, <1>10, <2>2
  <2> QED
    BY <2>5, <2>6
<1>11. LoopInOrder(r)'
  BY <1>5, <1>9, <1>10 DEF LoopInOrder
<1>12. \A p \in Requests \ {r} : LoopInOrder(p)'
  BY <1>3, <1>5 DEF LoopInv, LoopInOrder
<1> QED
  BY <1>3, <1>11, <1>12 DEF LoopInv

LEMMA LoopInvInit == Init => LoopInv
  BY TypedInit DEF Init, LoopInv, LoopInOrder, Idle

\* The quiet steps and the moves of an approval leave `paid` empty.
LEMMA LoopInvNext ==
  ASSUME LoopInv, [Next]_vars
  PROVE  LoopInv'
<1>1. Typed /\ Typed'
  BY TypedNext DEF LoopInv
<1>2. ASSUME NEW r \in Requests, Finish(r), \A i \in Invoices : IsOpen(i)' => IsOpen(i)
      PROVE  LoopInv'
  BY <1>1, <1>2, IdleTyped, OutsideTheLoop DEF Finish, Idle
<1>3. ASSUME NEW r \in Requests, QuietAction(r) PROVE LoopInv'
  <2>1. \A i \in Invoices : IsOpen(i)' => IsOpen(i)
    BY <1>1, <1>3, QuietActionIsQuiet DEF QuietStep, tables, IsOpen
  <2>2. QuietStep(r)
    BY <1>1, <1>3, QuietActionIsQuiet
  <2>3. req[r].paid = {}
    BY <2>2 DEF LoopInv, QuietStep, HoldingPcs, FifoPcs
  <2>4. PICK q \in Request : /\ req' = [req EXCEPT ![r] = q]
                             /\ q.pc \notin AllocPcs
                             /\ q.paid = {}
    BY <2>2, <2>3 DEF QuietStep, HoldingPcs, FifoPcs
  <2> QED
    BY <1>1, <2>1, <2>4, OutsideTheLoop
<1>4. ASSUME NEW r \in Requests,
             SubmitWrite(r) \/ RejectWrite(r) \/ DirectCreate(r) \/ PayoutWrite(r)
      PROVE  LoopInv'
  BY <1>4, <1>2 DEF SubmitWrite, RejectWrite, DirectCreate, PayoutWrite, IsOpen
<1>5. ASSUME NEW r \in Requests, ApproveCommit(r) \/ Abort(r) \/ LateAbort(r)
      PROVE  LoopInv'
  BY <1>5, <1>2 DEF ApproveCommit, Abort, LateAbort, IsOpen, tables
<1>6. ASSUME NEW r \in Requests, ApproveLock(r) PROVE LoopInv'
  <2>1. \A i \in Invoices : IsOpen(i)' => IsOpen(i)
    BY <1>6 DEF ApproveLock, IsOpen, tables
  <2>2. CASE Finish(r)
    BY <1>2, <2>1, <2>2
  <2>3. CASE req' = [req EXCEPT ![r].pc = "fifoOpen", ![r].amt = subs[req[r].sub].amount]
    <3> DEFINE q == [req[r] EXCEPT !.pc = "fifoOpen", !.amt = subs[req[r].sub].amount]
    <3>1. req[r] \in Request /\ req[r].paid = {} /\ subs[req[r].sub].amount \in Nat
      BY <1>1, <1>6 DEF ApproveLock, LoopInv, Typed, TypeOK, RowChosen, RowPcs, Row
    <3>2. q \in Request /\ q.pc = "fifoOpen" /\ q.paid = {}
      BY <3>1 DEF Request, Pcs
    <3>3. req' = [req EXCEPT ![r] = q]
      BY <2>3
    <3> HIDE DEF q
    <3> QED
      BY <1>1, <2>1, <3>2, <3>3, OutsideTheLoop
  <2> QED
    BY <1>6, <2>2, <2>3 DEF ApproveLock
<1>7. ASSUME NEW r \in Requests, FifoCommit(r) PROVE LoopInv'
  <2> DEFINE q == [Idle EXCEPT !.pc = "approveCommit", !.sub = req[r].sub,
                               !.amt = req[r].amt]
  <2>1. req[r] \in Request
    BY <1>1 DEF Typed, TypeOK
  <2>2. q \in Request /\ q.pc = "approveCommit" /\ q.paid = {}
    BY <2>1, IdleTyped DEF Request, Pcs, Idle
  <2>3. req' = [req EXCEPT ![r] = q] \/ Finish(r)
    BY <1>7 DEF FifoCommit
  <2>4. \A i \in Invoices : IsOpen(i)' => IsOpen(i)
    BY <1>7 DEF FifoCommit, IsOpen
  <2> HIDE DEF q
  <2> QED
    BY <1>1, <1>2, <2>2, <2>3, <2>4, OutsideTheLoop
<1>8. CASE (\E d \in Invoices : MarkOverdue(d)) \/ LeaseEnds \/ UNCHANGED vars
  <2>1. req' = req
    BY <1>8 DEF MarkOverdue, LeaseEnds, vars
  <2>2. \A i \in Invoices : IsOpen(i)' => IsOpen(i)
    BY <1>8 DEF MarkOverdue, LeaseEnds, vars, tables, IsOpen
  <2> QED
    BY <1>1, <2>1, <2>2 DEF LoopInv, LoopInOrder
<1>9. ASSUME NEW r \in Requests, OuterTimeout(r) PROVE LoopInv'
  <2>1. \A i \in Invoices : IsOpen(i)' <=> IsOpen(i)
    BY <1>1, <1>9, OuterTimeoutRecord DEF tables, IsOpen
  <2>2. LoopInOrder(r)' /\ (req'[r].pc \notin AllocPcs => req'[r].paid = {})
    BY <1>1, <1>9, <2>1, OuterTimeoutRecord DEF LoopInv, LoopInOrder
  <2>3. ASSUME NEW p \in Requests \ {r}
        PROVE  LoopInOrder(p)' /\ (req'[p].pc \notin AllocPcs => req'[p].paid = {})
    BY <1>1, <1>9, <2>1, OuterTimeoutRecord DEF LoopInv, LoopInOrder
  <2> QED
    BY <1>1, <2>2, <2>3 DEF LoopInv
<1> QED
  BY <1>1, <1>3, <1>4, <1>5, <1>6, <1>7, <1>8, <1>9, FifoReadLoop, FifoStepLoop, NextCases

\* What an allocation that keeps the order of its loop commits.
LEMMA CommitLeavesNewerAlone ==
  ASSUME LoopInv, NEW r \in Requests
  PROVE  LeavesNewerAlone(r)
<1> SUFFICES ASSUME FifoCommit(r), NEW i \in Invoices, NEW j \in Invoices,
                    i < j, invStatus'[i] # "PAID"
             PROVE  invStatus'[j] = invStatus[j] /\ totalDue'[j] = totalDue[j]
  BY DEF LeavesNewerAlone
<1> DEFINE q == req[r]
<1>1. i \notin q.paid /\ IsOpen(i)
  BY DEF FifoCommit, LoopInv, Typed, TypeOK, InvoiceStatus, IsOpen
<1>2. j \notin q.paid /\ q.due[j] = q.snap[j]
  BY <1>1 DEF LoopInv, LoopInOrder, FifoCommit
<1>3. j \notin Written(q)
  BY <1>2 DEF Written
<1> QED
  BY <1>2, <1>3 DEF FifoCommit

\* However many allocations of one tenant overlap, none of them pays anything
\* on an invoice while an older one stays open.
THEOREM FifoOrder == Spec => OldestFirst
<1>1. Init => LoopInv
  BY LoopInvInit
<1>2. LoopInv /\ [Next]_vars => LoopInv'
  BY LoopInvNext
<1>3. LoopInv /\ [Next]_vars => [\A r \in Requests : LeavesNewerAlone(r)]_vars
  BY CommitLeavesNewerAlone
<1> QED
  BY <1>1, <1>2, <1>3, PTL DEF Spec, OldestFirst

-----------------------------------------------------------------------------
(* Sums over the invoices. *)

\* Induction, over a set instead of a predicate.
LEMMA SetInduction ==
  ASSUME NEW T, 0 \in T, \A n \in Nat : n \in T => n + 1 \in T
  PROVE  Nat \subseteq T
<1> SUFFICES ASSUME Nat \ T # {} PROVE FALSE
  OBVIOUS
<1>1. PICK m \in Nat \ T : \A k \in Nat \ T : <<k, m>> \notin OpToRel(<, Nat)
  <2>1. Nat \ T \subseteq Nat
    OBVIOUS
  <2> QED
    BY <2>1, NatLessThanWellFounded, WFMin, Zenon
<1>2. m # 0
  OBVIOUS
<1>3. m - 1 \in Nat /\ m - 1 < m /\ (m - 1) + 1 = m
  BY <1>2
<1>4. m - 1 \in T
  BY <1>1, <1>3, Zenon DEF OpToRel
<1> QED
  BY <1>3, <1>4

\* The same along the invoices.
LEMMA InvoiceInduction ==
  ASSUME NEW T, 0 \in T, \A i \in Invoices : i - 1 \in T => i \in T
  PROVE  \A n \in 0..NInvoices : n \in T
<1> DEFINE S == {n \in Nat : n <= NInvoices => n \in T}
<1>1. 0 \in S
  OBVIOUS
<1>2. ASSUME NEW n \in Nat, n \in S PROVE n + 1 \in S
  <2>1. SUFFICES ASSUME n + 1 <= NInvoices PROVE n + 1 \in T
    OBVIOUS
  <2>2. n \in T /\ n + 1 \in Invoices /\ (n + 1) - 1 = n
    BY <1>2, <2>1, PaymentsAssumption DEF Invoices
  <2> QED
    BY <2>2
<1> HIDE DEF S
<1>3. Nat \subseteq S
  BY <1>1, <1>2, SetInduction
<1> QED
  BY <1>3, PaymentsAssumption DEF S

AreSums(g, f, n) == g = [k \in 0..n |-> IF k = 0 THEN 0 ELSE g[k - 1] + f[k]]

LEMMA SumsExist == \A f : \A n \in Nat : \E g : AreSums(g, f, n)
<1> SUFFICES ASSUME NEW f PROVE \A n \in Nat : \E g : AreSums(g, f, n)
  OBVIOUS
<1> DEFINE T == {n \in Nat : \E g : AreSums(g, f, n)}
<1>1. 0 \in T
  <2>1. AreSums([k \in 0..0 |-> 0], f, 0)
    BY DEF AreSums
  <2> QED
    BY <2>1
<1>2. ASSUME NEW n \in Nat, n \in T PROVE n + 1 \in T
  <2>1. PICK g : AreSums(g, f, n)
    BY <1>2
  <2> DEFINE h == [k \in 0..(n + 1) |-> IF k = n + 1 THEN g[n] + f[n + 1] ELSE g[k]]
  <2>2. \A k \in 0..n : g[k] = IF k = 0 THEN 0 ELSE g[k - 1] + f[k]
    BY <2>1, Zenon DEF AreSums
  <2>3. ASSUME NEW k \in 0..(n + 1) PROVE h[k] = IF k = 0 THEN 0 ELSE h[k - 1] + f[k]
    <3>1. CASE k = n + 1
      BY <3>1
    <3>2. CASE k # n + 1
      <4>1. k \in 0..n /\ (k # 0 => k - 1 \in 0..n)
        BY <3>2
      <4> QED
        BY <2>2, <4>1
    <3> QED
      BY <3>1, <3>2
  <2>4. AreSums(h, f, n + 1)
    BY <2>3 DEF AreSums
  <2> QED
    BY <2>4
<1> QED
  BY <1>1, <1>2, SetInduction

\* What the recursive definition computes.
LEMMA UpToUnfolds ==
  ASSUME NEW f
  PROVE  /\ UpTo(f)[0] = 0
         /\ \A i \in Invoices : UpTo(f)[i] = UpTo(f)[i - 1] + f[i]
<1>1. PICK g : g = (CHOOSE h : AreSums(h, f, NInvoices)) /\ AreSums(g, f, NInvoices)
  <2>1. \E h : AreSums(h, f, NInvoices)
    BY PaymentsAssumption, SumsExist
  <2> QED
    BY <2>1, Zenon
<1>2. UpTo(f) = g
  BY <1>1 DEF UpTo, AreSums
<1>3. \A n \in 0..NInvoices : g[n] = IF n = 0 THEN 0 ELSE g[n - 1] + f[n]
  BY <1>1, Zenon DEF AreSums
<1> QED
  BY <1>2, <1>3, PaymentsAssumption DEF Invoices

LEMMA UpToTyped ==
  ASSUME NEW f \in [Invoices -> Nat]
  PROVE  /\ \A n \in 0..NInvoices : UpTo(f)[n] \in Nat
         /\ Total(f) \in Nat
<1> DEFINE T == {n \in 0..NInvoices : UpTo(f)[n] \in Nat}
<1>1. 0 \in T
  BY UpToUnfolds, PaymentsAssumption
<1>2. ASSUME NEW i \in Invoices, i - 1 \in T PROVE i \in T
  <2>1. UpTo(f)[i] = UpTo(f)[i - 1] + f[i]
    BY UpToUnfolds
  <2>2. UpTo(f)[i - 1] \in Nat /\ f[i] \in Nat
    BY <1>2
  <2>3. i \in 0..NInvoices
    BY PaymentsAssumption DEF Invoices
  <2> QED
    BY <2>1, <2>2, <2>3
<1> HIDE DEF T
<1>3. \A n \in 0..NInvoices : n \in T
  BY <1>1, <1>2, InvoiceInduction
<1> QED
  BY <1>3, PaymentsAssumption DEF T, Total

\* Sums grow with what is summed.
LEMMA UpToIsMonotonic ==
  ASSUME NEW f \in [Invoices -> Nat], NEW g \in [Invoices -> Nat],
         NEW m \in 0..NInvoices, \A i \in 1..m : f[i] <= g[i]
  PROVE  UpTo(f)[m] <= UpTo(g)[m]
<1> DEFINE T == {n \in 0..NInvoices : n <= m => UpTo(f)[n] <= UpTo(g)[n]}
<1>1. 0 \in T
  BY UpToUnfolds, PaymentsAssumption
<1>2. ASSUME NEW i \in Invoices, i - 1 \in T PROVE i \in T
  <2>1. SUFFICES ASSUME i <= m PROVE UpTo(f)[i] <= UpTo(g)[i]
    BY PaymentsAssumption DEF Invoices
  <2>2. i - 1 \in 0..NInvoices /\ i \in 1..m /\ i - 1 <= m
    BY <2>1, PaymentsAssumption DEF Invoices
  <2>3. UpTo(f)[i - 1] <= UpTo(g)[i - 1] /\ f[i] <= g[i]
    BY <1>2, <2>2
  <2>4. /\ UpTo(f)[i] = UpTo(f)[i - 1] + f[i] /\ UpTo(g)[i] = UpTo(g)[i - 1] + g[i]
        /\ UpTo(f)[i - 1] \in Nat /\ UpTo(g)[i - 1] \in Nat
        /\ f[i] \in Nat /\ g[i] \in Nat
    BY <2>2, UpToUnfolds, UpToTyped
  <2> QED
    BY <2>3, <2>4
<1> HIDE DEF T
<1>3. \A n \in 0..NInvoices : n \in T
  BY <1>1, <1>2, InvoiceInduction
<1> QED
  BY <1>3 DEF T

LEMMA UpToIsLocal ==
  ASSUME NEW f \in [Invoices -> Nat], NEW g \in [Invoices -> Nat],
         NEW m \in 0..NInvoices, \A i \in 1..m : f[i] = g[i]
  PROVE  UpTo(f)[m] = UpTo(g)[m]
<1>1. 1..m \subseteq Invoices
  BY PaymentsAssumption DEF Invoices
<1>2. \A i \in 1..m : f[i] <= g[i] /\ g[i] <= f[i]
  BY <1>1
<1>3. UpTo(f)[m] <= UpTo(g)[m] /\ UpTo(g)[m] <= UpTo(f)[m]
  BY <1>2, UpToIsMonotonic
<1> QED
  BY <1>3, UpToTyped

\* What changes at one invoice changes every sum that reaches it.
LEMMA UpToAfterUpdate ==
  ASSUME NEW f \in [Invoices -> Nat], NEW i \in Invoices, NEW v \in Nat,
         NEW g, g = [f EXCEPT ![i] = v]
  PROVE  \A n \in 0..NInvoices :
           UpTo(g)[n] = UpTo(f)[n] + (IF i <= n THEN v - f[i] ELSE 0)
<1>1. g \in [Invoices -> Nat] /\ f[i] \in Nat
  OBVIOUS
<1> DEFINE T == {n \in 0..NInvoices :
                   UpTo(g)[n] = UpTo(f)[n] + (IF i <= n THEN v - f[i] ELSE 0)}
<1>2. 0 \in T
  BY UpToUnfolds, PaymentsAssumption DEF Invoices
<1>3. ASSUME NEW j \in Invoices, j - 1 \in T PROVE j \in T
  <2>1. /\ UpTo(f)[j] = UpTo(f)[j - 1] + f[j] /\ UpTo(g)[j] = UpTo(g)[j - 1] + g[j]
        /\ j \in 0..NInvoices /\ j - 1 \in 0..NInvoices
    <3>1. UpTo(f)[j] = UpTo(f)[j - 1] + f[j]
      BY UpToUnfolds
    <3>2. UpTo(g)[j] = UpTo(g)[j - 1] + g[j]
      BY UpToUnfolds
    <3>3. j \in 0..NInvoices /\ j - 1 \in 0..NInvoices
      BY PaymentsAssumption DEF Invoices
    <3> QED
      BY <3>1, <3>2, <3>3
  <2>2. UpTo(f)[j - 1] \in Nat /\ UpTo(g)[j - 1] \in Nat /\ f[j] \in Nat
    BY <1>1, <2>1, UpToTyped
  <2>3. g[j] = IF j = i THEN v ELSE f[j]
    OBVIOUS
  <2>4. UpTo(g)[j - 1] = UpTo(f)[j - 1] + (IF i <= j - 1 THEN v - f[i] ELSE 0)
    BY <1>3
  <2>5. i \in Nat /\ j \in Nat
    BY InvoicesAreNaturals
  <2>6. UpTo(g)[j] = UpTo(f)[j] + (IF i <= j THEN v - f[i] ELSE 0)
    BY <1>1, <2>1, <2>2, <2>3, <2>4, <2>5
  <2> QED
    BY <2>1, <2>6
<1> HIDE DEF T
<1>4. \A n \in 0..NInvoices : n \in T
  BY <1>2, <1>3, InvoiceInduction
<1> QED
  BY <1>4 DEF T

LEMMA TotalAfterUpdate ==
  ASSUME NEW f \in [Invoices -> Nat], NEW i \in Invoices, NEW v \in Nat
  PROVE  Total([f EXCEPT ![i] = v]) = Total(f) - f[i] + v
<1>1. NInvoices \in 0..NInvoices /\ i <= NInvoices
  BY PaymentsAssumption DEF Invoices
<1>2. Total([f EXCEPT ![i] = v]) = Total(f) + (v - f[i])
  BY <1>1, UpToAfterUpdate DEF Total
<1> QED
  BY <1>2, UpToTyped

\* Nothing is added behind the last invoice that counts.
LEMMA TotalOfPrefix ==
  ASSUME NEW f \in [Invoices -> Nat], NEW m \in 0..NInvoices,
         \A i \in Invoices : i > m => f[i] = 0
  PROVE  Total(f) = UpTo(f)[m]
<1> DEFINE T == {n \in 0..NInvoices : n >= m => UpTo(f)[n] = UpTo(f)[m]}
<1>1. 0 \in T
  BY PaymentsAssumption
<1>2. ASSUME NEW i \in Invoices, i - 1 \in T PROVE i \in T
  <2>1. SUFFICES ASSUME i > m PROVE UpTo(f)[i] = UpTo(f)[m]
    BY PaymentsAssumption DEF Invoices
  <2>2. i - 1 \in 0..NInvoices /\ i - 1 >= m
    BY <2>1, PaymentsAssumption DEF Invoices
  <2>3. UpTo(f)[i] = UpTo(f)[i - 1] + f[i] /\ f[i] = 0 /\ UpTo(f)[i - 1] \in Nat
    BY <2>1, <2>2, UpToUnfolds, UpToTyped
  <2> QED
    BY <1>2, <2>2, <2>3
<1> HIDE DEF T
<1>3. \A n \in 0..NInvoices : n \in T
  BY <1>1, <1>2, InvoiceInduction
<1> QED
  BY <1>3, PaymentsAssumption DEF T, Total

-----------------------------------------------------------------------------
(* Money, while requests do not overlap. *)

\* What request r knows at its program counter: an allocation works on the
\* totals in the table and has handed out exactly what is no longer left; a
\* payout pays the credit in the table.
Balanced(q) == Total(q.due) + q.amt = Total(q.snap) + q.left

KnowsMoney(r) ==
  /\ Allocating(r) => req[r].snap = totalDue /\ Balanced(req[r])
  /\ req[r].pc = "payoutWrite" => req[r].amt = credit

MoneyInv == LoopInv /\ MoneyIsConserved /\ \A r \in Requests : KnowsMoney(r)

\* One turn of the loop takes from `remaining` what it takes off the invoice.
LEMMA FifoPayBalances ==
  ASSUME NEW q \in Request, NEW i \in Invoices, q.due[i] = q.snap[i], q.left \in Nat,
         NEW n \in Request,
         \/ /\ q.left >= q.snap[i]
            /\ n.due = [q.due EXCEPT ![i] = 0]
            /\ n.left = q.left - q.snap[i]
         \/ /\ ~ (q.left >= q.snap[i])
            /\ n.due = [q.due EXCEPT ![i] = q.snap[i] - q.left]
            /\ n.left = 0,
         n.snap = q.snap, n.amt = q.amt, Balanced(q)
  PROVE  Balanced(n)
<1>1. q.due \in [Invoices -> Nat] /\ q.snap \in [Invoices -> Nat] /\ q.amt \in Nat
  BY DEF Request
<1>2. q.snap[i] \in Nat
  BY <1>1
<1>3. Total(q.due) \in Nat /\ Total(q.snap) \in Nat
  BY <1>1, UpToTyped
<1>4. CASE q.left >= q.snap[i]
  <2>1. Total(n.due) = Total(q.due) - q.due[i] + 0
    BY <1>1, <1>4, TotalAfterUpdate
  <2> QED
    BY <1>1, <1>2, <1>3, <1>4, <2>1 DEF Balanced
<1>5. CASE ~ (q.left >= q.snap[i])
  <2>1. q.snap[i] - q.left \in Nat
    BY <1>2, <1>5
  <2>2. Total(n.due) = Total(q.due) - q.due[i] + (q.snap[i] - q.left)
    BY <1>1, <1>5, <2>1, TotalAfterUpdate
  <2> QED
    BY <1>1, <1>2, <1>3, <1>5, <2>2 DEF Balanced
<1> QED
  BY <1>4, <1>5

\* What a turn of the loop does to the record of its request.
LEMMA FifoStepRecord ==
  ASSUME LoopInv, NEW r \in Requests, FifoStep(r)
  PROVE  \E i \in Oldest(req[r].todo) :
           /\ i \in Invoices
           /\ i \in req[r].todo
           /\ req[r].due[i] = req[r].snap[i]
           /\ req'[r].todo = req[r].todo \ {i}
           /\ req'[r].snap = req[r].snap
           /\ req'[r].amt = req[r].amt
           /\ req'[r].pc = req[r].pc
           /\ \/ /\ req[r].left >= req[r].snap[i]
                 /\ req'[r].due = [req[r].due EXCEPT ![i] = 0]
                 /\ req'[r].paid = req[r].paid \cup {i}
                 /\ req'[r].left = req[r].left - req[r].snap[i]
              \/ /\ ~ (req[r].left >= req[r].snap[i])
                 /\ req'[r].due = [req[r].due EXCEPT ![i] = req[r].snap[i] - req[r].left]
                 /\ req'[r].paid = req[r].paid
                 /\ req'[r].left = 0
<1>1. req[r] \in Request /\ req \in [Requests -> Request] /\ req[r].pc \in AllocPcs
  BY DEF LoopInv, Typed, TypeOK, FifoStep
<1>2. PICK i \in Oldest(req[r].todo) : FifoPay(r, i)
  BY DEF FifoStep
<1>3. i \in Invoices /\ i \in req[r].todo
  BY <1>1 DEF Oldest, Request
<1>4. req[r].due[i] = req[r].snap[i]
  BY <1>1, <1>3 DEF LoopInv, LoopInOrder
<1>5. CASE req[r].left >= req[r].snap[i]
  BY <1>1, <1>2, <1>3, <1>4, <1>5 DEF FifoPay, Covers, Request
<1>6. CASE ~ (req[r].left >= req[r].snap[i])
  BY <1>1, <1>2, <1>3, <1>4, <1>6 DEF FifoPay, Covers, Request
<1> QED
  BY <1>5, <1>6

LEMMA FifoStepMoney ==
  ASSUME MoneyInv, Typed', NEW w, Requests = {w}, FifoStep(w)
  PROVE  KnowsMoney(w)' /\ MoneyIsConserved'
<1>1. req[w] \in Request /\ req[w].pc \in AllocPcs /\ KnowsMoney(w) /\ req'[w] \in Request
  BY DEF MoneyInv, LoopInv, Typed, TypeOK, FifoStep
<1>2. req[w].left \in Nat
  BY <1>1 DEF Request
<1>3. Balanced(req'[w]) /\ req'[w].pc \in AllocPcs /\ req'[w].snap = req[w].snap
  BY <1>1, <1>2, FifoStepRecord, FifoPayBalances DEF MoneyInv, KnowsMoney
<1>4. totalDue' = totalDue /\ credit' = credit /\ received' = received /\ repaid' = repaid
  BY DEF FifoStep, tables, ghosts
<1> QED
  BY <1>1, <1>3, <1>4 DEF KnowsMoney, MoneyInv, MoneyIsConserved

LEMMA FifoCommitMoney ==
  ASSUME MoneyInv, NEW w, Requests = {w}, FifoCommit(w)
  PROVE  KnowsMoney(w)' /\ MoneyIsConserved'
<1> DEFINE q == req[w]
<1>1. q \in Request /\ q.pc \in AllocPcs /\ q.snap = totalDue /\ Balanced(q)
  BY DEF MoneyInv, LoopInv, Typed, TypeOK, FifoCommit, KnowsMoney
<1>2. q.due \in [Invoices -> Nat] /\ q.amt \in Nat /\ q.left \in Nat
  BY <1>1 DEF Request
<1>3. totalDue' = q.due
  <2>1. \A i \in Invoices : q.due[i] = IF i \in Written(q) THEN q.due[i] ELSE totalDue[i]
    BY <1>1 DEF Written
  <2> QED
    BY <1>2, <2>1 DEF FifoCommit
<1>4. credit' = credit + q.left /\ received' = received + q.amt /\ repaid' = repaid
  BY DEF FifoCommit, Excess
<1>5. /\ credit \in Nat /\ received \in Nat /\ repaid \in Nat
      /\ Total(InitialDue) \in Nat /\ Total(totalDue) \in Nat /\ Total(q.due) \in Nat
  BY <1>2, UpToTyped, PaymentsAssumption DEF MoneyInv, LoopInv, Typed, TypeOK
<1>6. MoneyIsConserved'
  <2>1. Total(totalDue)' = Total(q.due)
    BY <1>3
  <2>2. Total(q.due) + q.amt = Total(totalDue) + q.left
    BY <1>1 DEF Balanced
  <2>3. Total(InitialDue) + credit + repaid = Total(totalDue) + received
    BY DEF MoneyInv, MoneyIsConserved
  <2>4. Total(InitialDue) + (credit + q.left) + repaid = Total(q.due) + (received + q.amt)
    <3>1. ASSUME NEW a \in Int, NEW b \in Int, NEW c \in Int, NEW d \in Int, NEW e \in Int,
                 NEW f \in Int, NEW g \in Int, NEW h \in Int,
                 f + g = d + h, a + b + c = d + e
          PROVE  a + (b + h) + c = f + (e + g)
      BY <3>1
    <3> QED
      BY <1>2, <1>5, <2>2, <2>3, <3>1
  <2> QED
    BY <1>4, <2>1, <2>4 DEF MoneyIsConserved
<1>7. req'[w].pc \in {"approveCommit", "idle"}
  BY FifoCommitLeaves DEF MoneyInv, LoopInv
<1> QED
  BY <1>6, <1>7 DEF KnowsMoney

LEMMA PayoutWriteMoney ==
  ASSUME MoneyInv, NEW w, Requests = {w}, PayoutWrite(w)
  PROVE  KnowsMoney(w)' /\ MoneyIsConserved'
<1>1. req[w].pc = "payoutWrite" /\ req[w].amt = credit
  BY DEF MoneyInv, KnowsMoney, PayoutWrite, At
<1>2. credit' = 0 /\ repaid' = repaid + credit /\ received' = received /\ totalDue' = totalDue
  BY <1>1 DEF PayoutWrite
<1>3. /\ credit \in Nat /\ received \in Nat /\ repaid \in Nat
      /\ Total(InitialDue) \in Nat /\ Total(totalDue) \in Nat
  BY UpToTyped, PaymentsAssumption DEF MoneyInv, LoopInv, Typed, TypeOK
<1>4. MoneyIsConserved'
  BY <1>2, <1>3 DEF MoneyInv, MoneyIsConserved
<1>5. req'[w].pc = "idle"
  BY DEF PayoutWrite, Finish, MoneyInv, LoopInv, Typed, TypeOK, Idle
<1> QED
  BY <1>4, <1>5 DEF KnowsMoney

\* A step that touches no amount, and takes its request neither into the loop
\* nor to the payout.
LEMMA OtherStepMoney ==
  ASSUME MoneyInv, NEW w, Requests = {w},
         UNCHANGED <<totalDue, credit, received, repaid>>,
         \/ req' = req
         \/ req'[w].pc \notin AllocPcs \cup {"payoutWrite"}
  PROVE  KnowsMoney(w)' /\ MoneyIsConserved'
<1>1. MoneyIsConserved'
  BY DEF MoneyInv, MoneyIsConserved
<1>2. CASE req' = req
  BY <1>1, <1>2 DEF MoneyInv, KnowsMoney
<1>3. CASE req'[w].pc \notin AllocPcs \cup {"payoutWrite"}
  BY <1>1, <1>3 DEF KnowsMoney
<1> QED
  BY <1>2, <1>3

LEMMA FifoReadMoney ==
  ASSUME MoneyInv, NEW w, Requests = {w}, FifoRead(w)
  PROVE  KnowsMoney(w)' /\ MoneyIsConserved'
<1>1. req[w] \in Request /\ totalDue \in [Invoices -> Nat]
  BY DEF MoneyInv, LoopInv, Typed, TypeOK
<1>2. /\ req'[w].pc \in AllocPcs /\ req'[w].snap = totalDue /\ req'[w].due = totalDue
      /\ req'[w].left = req[w].amt /\ req'[w].amt = req[w].amt
  BY <1>1 DEF FifoRead, MoneyInv, LoopInv, Typed, TypeOK, Request
<1>3. Balanced(req'[w])
  BY <1>2 DEF Balanced
<1>4. UNCHANGED <<totalDue, credit, received, repaid>>
  BY DEF FifoRead, tables, ghosts
<1> QED
  BY <1>2, <1>3, <1>4 DEF KnowsMoney, MoneyInv, MoneyIsConserved

LEMMA QuietMoney ==
  ASSUME MoneyInv, NEW w, Requests = {w}, QuietAction(w)
  PROVE  KnowsMoney(w)' /\ MoneyIsConserved'
<1>1. req \in [Requests -> Request]
  BY DEF MoneyInv, LoopInv, Typed, TypeOK
<1>2. CASE PayoutRead(w)
  <2>1. req'[w].pc = "payoutWrite" /\ req'[w].amt = credit
    BY <1>1, <1>2 DEF PayoutRead, Idle
  <2>2. UNCHANGED <<totalDue, credit, received, repaid>>
    BY <1>2 DEF PayoutRead, tables, ghosts
  <2> QED
    BY <2>1, <2>2 DEF KnowsMoney, MoneyInv, MoneyIsConserved
<1>3. CASE ~ PayoutRead(w)
  <2>1. UNCHANGED <<totalDue, credit, received, repaid>>
    BY QuietActionIsQuiet DEF MoneyInv, LoopInv, QuietStep, tables, ghosts
  <2>2. req'[w].pc \notin AllocPcs \cup {"payoutWrite"}
    <3> USE DEF Idle
    <3>1. CASE \E i \in Invoices, a \in Amounts : SubmitReadLease(w, i, a)
      BY <1>1, <3>1 DEF SubmitReadLease
    <3>2. CASE \E s \in Submissions : ApproveBegin(w, s) \/ RejectRead(w, s)
      BY <1>1, <3>2 DEF ApproveBegin, RejectRead
    <3>3. CASE \E i \in Invoices : DirectReadAmount(w, i)
      BY <1>1, <3>3 DEF DirectReadAmount
    <3>4. CASE SubmitReadInvoice(w) \/ SubmitReadLocked(w)
      BY <1>1, <3>4 DEF SubmitReadInvoice, SubmitReadLocked, Finish, Request
    <3>5. CASE SubmitReadExisting(w)
      BY <1>1, <3>5 DEF SubmitReadExisting, Request
    <3>7. CASE WaitForRow(w)
      BY <1>1, <3>7 DEF WaitForRow, Request
    <3>6. CASE DirectReadInvoice(w) \/ DirectReadExisting(w)
      BY <1>1, <3>6 DEF DirectReadInvoice, DirectReadExisting, Finish, Request
    <3> QED
      BY <1>3, <3>1, <3>2, <3>3, <3>4, <3>5, <3>6, <3>7
      DEF QuietAction, Arrive, PaymentRoutes, PayhereRoutes
  <2> QED
    BY <2>1, <2>2, OtherStepMoney
<1> QED
  BY <1>2, <1>3

LEMMA OuterTimeoutMoney ==
  ASSUME MoneyInv, NEW w, Requests = {w}, OuterTimeout(w)
  PROVE  KnowsMoney(w)' /\ MoneyIsConserved'
<1>1. /\ UNCHANGED <<totalDue, credit, received, repaid>>
      /\ req'[w].pc # "payoutWrite"
      /\ Allocating(w)' => Allocating(w)
      /\ req'[w].snap = req[w].snap /\ req'[w].due = req[w].due
      /\ req'[w].left = req[w].left /\ req'[w].amt = req[w].amt
  BY OuterTimeoutRecord DEF MoneyInv, LoopInv, tables, ghosts
<1> QED
  BY <1>1 DEF KnowsMoney, Balanced, MoneyInv, MoneyIsConserved

LEMMA MoneyInvInit == Init => MoneyInv
<1> SUFFICES ASSUME Init PROVE MoneyInv
  OBVIOUS
<1>1. LoopInv
  BY LoopInvInit
<1>2. Total(InitialDue) \in Nat
  BY UpToTyped, PaymentsAssumption
<1> QED
  BY <1>1, <1>2 DEF Init, MoneyInv, MoneyIsConserved, KnowsMoney, Idle

LEMMA MoneyInvNext ==
  ASSUME NEW w, Requests = {w}, MoneyInv, [Next]_vars
  PROVE  MoneyInv'
<1>1. LoopInv /\ LoopInv' /\ Typed /\ Typed'
  BY LoopInvNext DEF MoneyInv, LoopInv
<1>2. SUFFICES KnowsMoney(w)' /\ MoneyIsConserved'
  BY <1>1 DEF MoneyInv
<1>3. req \in [Requests -> Request]
  BY <1>1 DEF Typed, TypeOK
<1>4. CASE \/ SubmitWrite(w) \/ RejectWrite(w) \/ DirectCreate(w) \/ ApproveCommit(w)
           \/ Abort(w) \/ LateAbort(w)
  <2>1. Finish(w) /\ UNCHANGED <<totalDue, credit, received, repaid>>
    BY <1>4 DEF SubmitWrite, RejectWrite, DirectCreate, ApproveCommit, Abort, LateAbort,
                tables, ghosts
  <2>2. req'[w].pc = "idle"
    BY <1>3, <2>1 DEF Finish, Idle
  <2> QED
    BY <2>1, <2>2, OtherStepMoney
<1>5. CASE ApproveLock(w)
  <2>1. UNCHANGED <<totalDue, credit, received, repaid>>
    BY <1>5 DEF ApproveLock, tables, ghosts
  <2>2. req'[w].pc \in {"fifoOpen", "idle"}
    BY <1>3, <1>5 DEF ApproveLock, Finish, Idle, Request
  <2> QED
    BY <2>1, <2>2, OtherStepMoney
<1>6. CASE (\E d \in Invoices : MarkOverdue(d)) \/ LeaseEnds \/ UNCHANGED vars
  <2>1. req' = req /\ UNCHANGED <<totalDue, credit, received, repaid>>
    BY <1>6 DEF MarkOverdue, LeaseEnds, vars, tables, ghosts
  <2> QED
    BY <2>1, OtherStepMoney
<1> QED
  BY <1>1, <1>4, <1>5, <1>6, QuietMoney, FifoReadMoney, FifoStepMoney, FifoCommitMoney,
     PayoutWriteMoney, OuterTimeoutMoney, NextCases

\* While requests do not overlap, whatever is approved, allocated, credited,
\* paid out or rolled back, no cent is made or lost.
THEOREM NoCentIsLost ==
  ASSUME NEW CONSTANT w, Requests = {w}
  PROVE  Spec => []MoneyIsConserved
<1>1. Init => MoneyInv
  BY MoneyInvInit
<1>2. MoneyInv /\ [Next]_vars => MoneyInv'
  BY MoneyInvNext
<1>3. MoneyInv => MoneyIsConserved
  BY DEF MoneyInv
<1> QED
  BY <1>1, <1>2, <1>3, PTL DEF Spec

-----------------------------------------------------------------------------
(* Money, however many requests overlap.  A stale allocation writes back the *)
(* totals it has read, so the totals in the table do not suffice: whichever  *)
(* of the totals known of each invoice is taken, the payments received cover *)
(* what is no longer due.                                                    *)

\* For each invoice the total in the table, or one that a request in the loop read.
Known(f) ==
  \A i \in Invoices :
    \/ f[i] = totalDue[i]
    \/ \E r \in Requests : Allocating(r) /\ f[i] = req[r].snap[i]

Covered(f) == Total(InitialDue) + credit <= Total(f) + received

KnownCovered == \A f \in [Invoices -> Nat] : Known(f) => Covered(f)

\* The loop has handed out what is no longer left, and raised no total.
Accounts(r) ==
  Allocating(r) => /\ Balanced(req[r])
                   /\ \A i \in Invoices : req[r].due[i] <= req[r].snap[i]

CoverInv == LoopInv /\ KnownCovered /\ \A r \in Requests : Accounts(r)

LEMMA TotalsCompare ==
  ASSUME NEW f \in [Invoices -> Nat], NEW g \in [Invoices -> Nat],
         NEW h \in [Invoices -> Nat], NEW k \in [Invoices -> Nat],
         \A i \in Invoices : f[i] + g[i] <= h[i] + k[i]
  PROVE  Total(f) + Total(g) <= Total(h) + Total(k)
<1> DEFINE T == {n \in 0..NInvoices : UpTo(f)[n] + UpTo(g)[n] <= UpTo(h)[n] + UpTo(k)[n]}
<1>1. 0 \in T
  BY UpToUnfolds, PaymentsAssumption
<1>2. ASSUME NEW i \in Invoices, i - 1 \in T PROVE i \in T
  <2>1. /\ UpTo(f)[i] = UpTo(f)[i - 1] + f[i] /\ UpTo(g)[i] = UpTo(g)[i - 1] + g[i]
        /\ UpTo(h)[i] = UpTo(h)[i - 1] + h[i] /\ UpTo(k)[i] = UpTo(k)[i - 1] + k[i]
    BY UpToUnfolds
  <2>2. i - 1 \in 0..NInvoices /\ i \in 0..NInvoices
    BY PaymentsAssumption DEF Invoices
  <2>3. /\ UpTo(f)[i - 1] \in Nat /\ UpTo(g)[i - 1] \in Nat
        /\ UpTo(h)[i - 1] \in Nat /\ UpTo(k)[i - 1] \in Nat
    BY <2>2, UpToTyped
  <2>4. UpTo(f)[i - 1] + UpTo(g)[i - 1] <= UpTo(h)[i - 1] + UpTo(k)[i - 1]
    BY <1>2
  <2>5. f[i] \in Nat /\ g[i] \in Nat /\ h[i] \in Nat /\ k[i] \in Nat /\ f[i] + g[i] <= h[i] + k[i]
    OBVIOUS
  <2>6. UpTo(f)[i] + UpTo(g)[i] <= UpTo(h)[i] + UpTo(k)[i]
    BY <2>1, <2>3, <2>4, <2>5
  <2> QED
    BY <2>2, <2>6
<1> HIDE DEF T
<1>3. \A n \in 0..NInvoices : n \in T
  BY <1>1, <1>2, InvoiceInduction
<1> QED
  BY <1>3, PaymentsAssumption DEF T, Total

\* A step after which no other totals are known and there is no more credit.
LEMMA KeepsCovered ==
  ASSUME CoverInv, Typed', received' = received, credit' <= credit,
         totalDue' = totalDue,
         \A r \in Requests : Allocating(r)' => \/ req'[r].snap = totalDue
                                               \/ Allocating(r) /\ req'[r].snap = req[r].snap
  PROVE  KnownCovered'
<1> SUFFICES ASSUME NEW f \in [Invoices -> Nat], Known(f)' PROVE Covered(f)'
  BY DEF KnownCovered
<1>1. Known(f)
  BY DEF Known
<1>2. Covered(f)
  BY <1>1 DEF CoverInv, KnownCovered
<1>3. /\ Total(InitialDue) \in Nat /\ Total(f) \in Nat /\ received \in Nat
      /\ credit \in Nat /\ credit' \in Nat
  BY UpToTyped, PaymentsAssumption DEF CoverInv, LoopInv, Typed, TypeOK
<1> QED
  BY <1>2, <1>3 DEF Covered

LEMMA FifoReadCovers ==
  ASSUME CoverInv, Typed', NEW r \in Requests, FifoRead(r)
  PROVE  KnownCovered' /\ \A p \in Requests : Accounts(p)'
<1>1. req[r] \in Request /\ totalDue \in [Invoices -> Nat] /\ credit \in Nat
  BY DEF CoverInv, LoopInv, Typed, TypeOK
<1>2. /\ req'[r].snap = totalDue /\ req'[r].due = totalDue
      /\ req'[r].left = req[r].amt /\ req'[r].amt = req[r].amt
      /\ \A p \in Requests \ {r} : req'[p] = req[p]
  BY <1>1 DEF FifoRead, CoverInv, LoopInv, Typed, TypeOK, Request
<1>3. Balanced(req'[r])
  BY <1>2 DEF Balanced
<1>4. UNCHANGED <<totalDue, credit, received>>
  BY DEF FifoRead, tables, ghosts
<1>5. \A p \in Requests \ {r} : Allocating(p)' <=> Allocating(p)
  BY <1>2 DEF Allocating
<1>6. KnownCovered'
  BY <1>1, <1>2, <1>4, <1>5, KeepsCovered
<1>7. \A p \in Requests \ {r} : Accounts(p)'
  BY <1>2, <1>5 DEF CoverInv, Accounts, Balanced
<1>8. Accounts(r)'
  BY <1>1, <1>2, <1>3 DEF Accounts
<1> QED
  BY <1>6, <1>7, <1>8

LEMMA FifoStepCovers ==
  ASSUME CoverInv, Typed', NEW r \in Requests, FifoStep(r)
  PROVE  KnownCovered' /\ \A p \in Requests : Accounts(p)'
<1>1. /\ req[r] \in Request /\ req'[r] \in Request /\ Allocating(r) /\ Accounts(r)
      /\ credit \in Nat
  BY DEF CoverInv, LoopInv, Typed, TypeOK, FifoStep
<1>2. PICK i \in Oldest(req[r].todo) :
        /\ i \in Invoices
        /\ req[r].due[i] = req[r].snap[i]
        /\ req'[r].snap = req[r].snap /\ req'[r].amt = req[r].amt /\ req'[r].pc = req[r].pc
        /\ \/ /\ req[r].left >= req[r].snap[i]
              /\ req'[r].due = [req[r].due EXCEPT ![i] = 0]
              /\ req'[r].left = req[r].left - req[r].snap[i]
           \/ /\ ~ (req[r].left >= req[r].snap[i])
              /\ req'[r].due = [req[r].due EXCEPT ![i] = req[r].snap[i] - req[r].left]
              /\ req'[r].left = 0
  BY FifoStepRecord DEF CoverInv
<1>3. req[r].left \in Nat /\ req[r].snap \in [Invoices -> Nat] /\ req[r].due \in [Invoices -> Nat]
  BY <1>1 DEF Request
<1>4. Balanced(req'[r])
  BY <1>1, <1>2, <1>3, FifoPayBalances DEF Accounts
<1>5. \A j \in Invoices : req'[r].due[j] <= req'[r].snap[j]
  BY <1>1, <1>2, <1>3 DEF Accounts
<1>6. \A p \in Requests \ {r} : req'[p] = req[p]
  BY DEF FifoStep, FifoPay, CoverInv, LoopInv, Typed, TypeOK
<1>7. UNCHANGED <<totalDue, credit, received>>
  BY DEF FifoStep, tables, ghosts
<1>8. \A p \in Requests : Allocating(p)' => Allocating(p) /\ req'[p].snap = req[p].snap
  BY <1>1, <1>2, <1>6 DEF Allocating
<1>9. KnownCovered'
  BY <1>1, <1>7, <1>8, KeepsCovered
<1>10. \A p \in Requests \ {r} : Accounts(p)'
  BY <1>6, <1>8 DEF CoverInv, Accounts, Balanced
<1> QED
  BY <1>4, <1>5, <1>9, <1>10 DEF Accounts

\* What was known of the invoices that the allocation writes, before it did.
LEMMA FifoCommitCovers ==
  ASSUME CoverInv, Typed', NEW r \in Requests, FifoCommit(r)
  PROVE  KnownCovered' /\ \A p \in Requests : Accounts(p)'
<1> DEFINE q == req[r]
<1>1. q \in Request /\ Allocating(r) /\ Accounts(r)
  BY DEF CoverInv, LoopInv, Typed, TypeOK, FifoCommit
<1>2. /\ q.snap \in [Invoices -> Nat] /\ q.due \in [Invoices -> Nat]
      /\ q.amt \in Nat /\ q.left \in Nat
  BY <1>1 DEF Request
<1>3. /\ credit' = credit + q.left /\ received' = received + q.amt
      /\ totalDue' = [i \in Invoices |-> IF i \in Written(q) THEN q.due[i] ELSE totalDue[i]]
  BY DEF FifoCommit, Excess
<1>4. ~ Allocating(r)' /\ \A p \in Requests \ {r} : req'[p] = req[p]
  BY FifoCommitLeaves DEF CoverInv, LoopInv, Allocating, AllocPcs
<1>5. \A p \in Requests \ {r} : Allocating(p)' <=> Allocating(p)
  BY <1>4 DEF Allocating
<1>6. \A p \in Requests : Accounts(p)'
  BY <1>4, <1>5 DEF CoverInv, Accounts, Balanced
<1>7. ASSUME NEW f \in [Invoices -> Nat], Known(f)' PROVE Covered(f)'
  <2> DEFINE FromMe(i) == i \in Written(q) /\ f[i] = q.due[i]
             g == [i \in Invoices |-> IF FromMe(i) THEN q.snap[i] ELSE f[i]]
  <2>1. g \in [Invoices -> Nat]
    BY <1>2
  <2>2. Known(g)
    <3> SUFFICES ASSUME NEW i \in Invoices
                 PROVE  \/ g[i] = totalDue[i]
                        \/ \E p \in Requests : Allocating(p) /\ g[i] = req[p].snap[i]
      BY DEF Known
    <3>1. CASE FromMe(i)
      BY <1>1, <3>1
    <3>2. CASE ~ FromMe(i)
      <4>1. \/ f[i] = totalDue'[i]
            \/ \E p \in Requests : Allocating(p)' /\ f[i] = req'[p].snap[i]
        BY <1>7 DEF Known
      <4>2. f[i] = totalDue'[i] => f[i] = totalDue[i]
        BY <1>3, <3>2
      <4> QED
        BY <1>4, <1>5, <3>2, <4>1, <4>2
    <3> QED
      BY <3>1, <3>2
  <2>3. Covered(g)
    BY <2>1, <2>2 DEF CoverInv, KnownCovered
  <2>4. \A i \in Invoices : g[i] + q.due[i] <= f[i] + q.snap[i]
    <3> TAKE i \in Invoices
    <3>1. q.due[i] <= q.snap[i] /\ q.due[i] \in Nat /\ q.snap[i] \in Nat /\ f[i] \in Nat
      BY <1>1, <1>2 DEF Accounts
    <3>2. CASE FromMe(i)
      BY <3>1, <3>2
    <3>3. CASE ~ FromMe(i)
      BY <3>1, <3>3
    <3> QED
      BY <3>2, <3>3
  <2> HIDE DEF g, FromMe
  <2>5. Total(g) + Total(q.due) <= Total(f) + Total(q.snap)
    BY <1>2, <2>1, <2>4, TotalsCompare
  <2>6. Total(q.due) + q.amt = Total(q.snap) + q.left
    BY <1>1 DEF Accounts, Balanced
  <2>7. /\ Total(g) \in Nat /\ Total(f) \in Nat /\ Total(q.due) \in Nat /\ Total(q.snap) \in Nat
        /\ Total(InitialDue) \in Nat /\ credit \in Nat /\ received \in Nat
    BY <1>2, <2>1, UpToTyped, PaymentsAssumption DEF CoverInv, LoopInv, Typed, TypeOK
  <2> HIDE DEF q
  <2> QED
    BY <1>2, <1>3, <2>3, <2>5, <2>6, <2>7 DEF Covered
<1> QED
  BY <1>6, <1>7 DEF KnownCovered

\* The other steps: no total is read or written, no allocation begins, and
\* the credit grows no more.
LEMMA OtherStepCovers ==
  ASSUME CoverInv, Typed', UNCHANGED <<totalDue, received>>, credit' <= credit,
         \A p \in Requests : Allocating(p)' =>
           /\ Allocating(p)
           /\ req'[p].snap = req[p].snap /\ req'[p].due = req[p].due
           /\ req'[p].left = req[p].left /\ req'[p].amt = req[p].amt
  PROVE  KnownCovered' /\ \A p \in Requests : Accounts(p)'
  BY KeepsCovered DEF CoverInv, Accounts, Balanced

LEMMA CoverInvInit == Init => CoverInv
<1> SUFFICES ASSUME Init PROVE CoverInv
  OBVIOUS
<1>1. LoopInv
  BY LoopInvInit
<1>2. \A r \in Requests : ~ Allocating(r)
  BY DEF Init, Idle, Allocating, AllocPcs
<1>3. ASSUME NEW f \in [Invoices -> Nat], Known(f) PROVE Covered(f)
  <2>1. f = InitialDue
    BY <1>2, <1>3, PaymentsAssumption DEF Init, Known
  <2>2. Total(f) \in Nat
    BY UpToTyped
  <2> QED
    BY <2>1, <2>2 DEF Covered, Init
<1> QED
  BY <1>1, <1>2, <1>3 DEF CoverInv, KnownCovered, Accounts

LEMMA CoverInvNext == CoverInv /\ [Next]_vars => CoverInv'
<1> SUFFICES ASSUME CoverInv, [Next]_vars PROVE CoverInv'
  OBVIOUS
<1>1. LoopInv /\ LoopInv' /\ Typed /\ Typed'
  BY LoopInvNext DEF CoverInv, LoopInv
<1>2. SUFFICES KnownCovered' /\ \A p \in Requests : Accounts(p)'
  BY <1>1 DEF CoverInv
<1>3. req \in [Requests -> Request] /\ credit \in Nat /\ credit <= credit
  BY <1>1 DEF Typed, TypeOK
<1>4. ASSUME NEW r \in Requests, NEW q,
             req' = [req EXCEPT ![r] = q], q.pc \notin AllocPcs,
             UNCHANGED <<totalDue, received>>, credit' <= credit
      PROVE  KnownCovered' /\ \A p \in Requests : Accounts(p)'
  BY <1>1, <1>3, <1>4, OtherStepCovers DEF Allocating
<1>5. Idle.pc \notin AllocPcs
  BY DEF Idle, AllocPcs
<1>6. ASSUME NEW r \in Requests, QuietAction(r)
      PROVE  KnownCovered' /\ \A p \in Requests : Accounts(p)'
  <2>1. QuietStep(r)
    BY <1>1, <1>6, QuietActionIsQuiet
  <2> QED
    BY <1>3, <1>4, <2>1 DEF QuietStep, HoldingPcs, FifoPcs, AllocPcs, tables, ghosts
<1>7. ASSUME NEW r \in Requests,
             \/ SubmitWrite(r) \/ RejectWrite(r) \/ DirectCreate(r) \/ ApproveCommit(r)
             \/ Abort(r) \/ LateAbort(r)
      PROVE  KnownCovered' /\ \A p \in Requests : Accounts(p)'
  <2>1. Finish(r) /\ UNCHANGED <<totalDue, credit, received>>
    BY <1>7 DEF SubmitWrite, RejectWrite, DirectCreate, ApproveCommit, Abort, LateAbort,
                tables, ghosts
  <2> QED
    BY <1>3, <1>4, <1>5, <2>1 DEF Finish
<1>8. ASSUME NEW r \in Requests, PayoutWrite(r)
      PROVE  KnownCovered' /\ \A p \in Requests : Accounts(p)'
  <2>1. Finish(r) /\ UNCHANGED <<totalDue, received>> /\ credit' <= credit
    BY <1>3, <1>8 DEF PayoutWrite
  <2> QED
    BY <1>4, <1>5, <2>1 DEF Finish
<1>9. ASSUME NEW r \in Requests, ApproveLock(r)
      PROVE  KnownCovered' /\ \A p \in Requests : Accounts(p)'
  <2>1. UNCHANGED <<totalDue, credit, received>>
    BY <1>9 DEF ApproveLock, tables, ghosts
  <2>2. req'[r].pc \in {"fifoOpen", "idle"} /\ \A p \in Requests \ {r} : req'[p] = req[p]
    BY <1>3, <1>9 DEF ApproveLock, Finish, Idle, Request
  <2>3. ~ Allocating(r)'
    BY <2>2 DEF Allocating, AllocPcs
  <2> QED
    BY <1>1, <1>3, <2>1, <2>2, <2>3, OtherStepCovers DEF Allocating
<1>10. ASSUME NEW r \in Requests, OuterTimeout(r)
       PROVE  KnownCovered' /\ \A p \in Requests : Accounts(p)'
  BY <1>1, <1>3, <1>10, OuterTimeoutRecord, OtherStepCovers DEF Allocating, tables, ghosts
<1>11. CASE (\E d \in Invoices : MarkOverdue(d)) \/ LeaseEnds \/ UNCHANGED vars
  <2>1. UNCHANGED <<req, totalDue, credit, received>>
    BY <1>11 DEF MarkOverdue, LeaseEnds, vars, tables, ghosts
  <2> QED
    BY <1>1, <1>3, <2>1, OtherStepCovers DEF Allocating
<1> QED
  BY <1>1, <1>6, <1>7, <1>8, <1>9, <1>10, <1>11, FifoReadCovers, FifoStepCovers,
     FifoCommitCovers, NextCases

\* However many allocations, payouts and rollbacks overlap, and however stale
\* what they have read, no payment is invented: what is no longer due and the
\* tenant's credit never exceed what was received.
THEOREM NoPaymentIsInvented == Spec => []NothingIsForgiven
<1>1. CoverInv => NothingIsForgiven
  <2> SUFFICES ASSUME CoverInv PROVE NothingIsForgiven
    OBVIOUS
  <2>1. totalDue \in [Invoices -> Nat] /\ credit \in Nat /\ received \in Nat
    BY DEF CoverInv, LoopInv, Typed, TypeOK
  <2>2. Covered(totalDue)
    BY <2>1 DEF CoverInv, KnownCovered, Known
  <2>3. Total(totalDue) \in Nat /\ Total(InitialDue) \in Nat
    BY <2>1, UpToTyped, PaymentsAssumption
  <2> QED
    BY <2>1, <2>2, <2>3 DEF Covered, NothingIsForgiven
<1> QED
  BY <1>1, CoverInvInit, CoverInvNext, PTL DEF Spec

-----------------------------------------------------------------------------
(* Locked rows, while requests do not overlap. *)

WritePcs == {"submitWrite", "submitWait", "rejectWrite", "rejectWait"}

\* The row a request is about to overwrite by its id is not locked.
OverwritesUnlocked(r) ==
  (req[r].pc \in WritePcs /\ req[r].sub # None) =>
    req[r].sub \in Submissions /\ ~ subs[req[r].sub].locked

FrozenInv == LockInv /\ \A r \in Requests : OverwritesUnlocked(r)

RowsStayFrozen == \A s \in Submissions : StaysFrozen(s)

LEMMA CreateKeepsFrozen ==
  ASSUME LockInv, NEW r \in Requests, CreateSubmission(r)
  PROVE  RowsStayFrozen
<1>1. subs \in [Submissions -> Row] /\ FreeRowsUnlocked
  BY DEF LockInv, Typed, TypeOK
<1> QED
  BY <1>1 DEF CreateSubmission, RowsStayFrozen, StaysFrozen, FreeRowsUnlocked, Exists

LEMMA SubmitWriteFrozen ==
  ASSUME FrozenInv, NEW r \in Requests, SubmitWrite(r)
  PROVE  RowsStayFrozen
<1>1. CASE req[r].sub = None
  BY <1>1, CreateKeepsFrozen DEF SubmitWrite, FrozenInv
<1>2. CASE req[r].sub # None
  <2>1. req[r].sub \in Submissions /\ ~ subs[req[r].sub].locked
    BY <1>2 DEF FrozenInv, OverwritesUnlocked, WritePcs, SubmitWrite, At
  <2>2. \A s \in Submissions : s # req[r].sub => subs'[s] = subs[s]
    BY <1>2, <2>1 DEF SubmitWrite, ReplaceSubmission, FrozenInv, LockInv, Typed, TypeOK
  <2> QED
    BY <2>1, <2>2 DEF RowsStayFrozen, StaysFrozen
<1> QED
  BY <1>1, <1>2

LEMMA RejectWriteFrozen ==
  ASSUME FrozenInv, NEW r \in Requests, RejectWrite(r)
  PROVE  RowsStayFrozen
<1>1. req[r].sub \in Submissions
  BY DEF FrozenInv, LockInv, Typed, RowChosen, RowPcs, RejectWrite, At
<1>2. ~ subs[req[r].sub].locked
  BY <1>1, PaymentsAssumption DEF FrozenInv, OverwritesUnlocked, WritePcs, RejectWrite, At
<1>3. \A s \in Submissions : s # req[r].sub => subs'[s] = subs[s]
  BY DEF RejectWrite, FrozenInv, LockInv, Typed, TypeOK
<1> QED
  BY <1>2, <1>3 DEF RowsStayFrozen, StaysFrozen

LEMMA ApproveCommitFrozen ==
  ASSUME FrozenInv, NEW r \in Requests, ApproveCommit(r)
  PROVE  RowsStayFrozen
<1>1. req[r].sub \in Submissions /\ ~ subs[req[r].sub].locked
  BY DEF FrozenInv, LockInv, ReviewedRowIsStable, Approving, ApproveCommit
<1>2. \A s \in Submissions : s # req[r].sub => subs'[s] = subs[s]
  BY DEF ApproveCommit, FrozenInv, LockInv, Typed, TypeOK
<1> QED
  BY <1>1, <1>2 DEF RowsStayFrozen, StaysFrozen

\* No other step writes a row.
LEMMA StepKeepsFrozen ==
  ASSUME FrozenInv, [Next]_vars
  PROVE  RowsStayFrozen
<1>1. CASE subs' = subs
  BY <1>1 DEF RowsStayFrozen, StaysFrozen
<1>2. ASSUME NEW r \in Requests, QuietAction(r) PROVE subs' = subs
  BY <1>2, QuietActionIsQuiet DEF FrozenInv, LockInv, QuietStep, tables
<1>3. ASSUME NEW r \in Requests,
             \/ ApproveLock(r) \/ FifoRead(r) \/ FifoStep(r) \/ FifoCommit(r)
             \/ PayoutWrite(r) \/ OuterTimeout(r) \/ Abort(r) \/ LateAbort(r)
      PROVE  subs' = subs
  BY <1>3 DEF ApproveLock, FifoRead, FifoStep, FifoCommit, PayoutWrite, OuterTimeout,
              Abort, LateAbort,
              tables
<1>4. CASE (\E d \in Invoices : MarkOverdue(d)) \/ LeaseEnds \/ UNCHANGED vars
  BY <1>1, <1>4 DEF MarkOverdue, LeaseEnds, vars, tables
<1>5. ASSUME NEW r \in Requests, DirectCreate(r) PROVE RowsStayFrozen
  BY <1>5, CreateKeepsFrozen DEF DirectCreate, FrozenInv
<1> QED
  BY <1>1, <1>2, <1>3, <1>4, <1>5, SubmitWriteFrozen, RejectWriteFrozen,
     ApproveCommitFrozen, NextCases

\* A step of the only request that does not read a row to overwrite, and after
\* which it does not stand before such a write.
LEMMA ChoosesUnlocked ==
  ASSUME FrozenInv, NEW w, Requests = {w}, QuietAction(w)
  PROVE  OverwritesUnlocked(w)'
<1>1. req \in [Requests -> Request] /\ subs' = subs
  BY QuietActionIsQuiet DEF FrozenInv, LockInv, Typed, TypeOK, QuietStep, tables
<1>2. CASE SubmitReadExisting(w)
  <2>1. PICK s \in Submissions \cup {None} :
          /\ s # None => s \in Replaceable(req[w].inv)
          /\ req' = [req EXCEPT ![w].pc = "submitWrite", ![w].sub = s]
    BY <1>2 DEF SubmitReadExisting, Replaceable
  <2>2. req'[w].sub = s
    BY <1>1, <2>1 DEF Request
  <2>3. s # None => s \in Submissions /\ ~ subs[s].locked
    BY <2>1 DEF Replaceable
  <2> QED
    BY <1>1, <2>2, <2>3 DEF OverwritesUnlocked
<1>3. ASSUME NEW s \in Submissions, RejectRead(w, s) PROVE OverwritesUnlocked(w)'
  <2>1. req'[w].sub = s
    BY <1>1, <1>3 DEF RejectRead, Idle
  <2>2. ~ subs[s].locked
    BY <1>3 DEF RejectRead, Reviewable
  <2> QED
    BY <1>1, <2>1, <2>2 DEF OverwritesUnlocked
<1>5. CASE WaitForRow(w)
  BY <1>1, <1>5 DEF WaitForRow, At, FrozenInv, OverwritesUnlocked, WritePcs, Request
<1>4. CASE /\ ~ SubmitReadExisting(w) /\ ~ WaitForRow(w)
           /\ ~ \E s \in Submissions : RejectRead(w, s)
  <2>1. req'[w].pc \notin WritePcs
    <3> USE DEF Idle, WritePcs
    <3>1. CASE \E i \in Invoices, a \in Amounts : SubmitReadLease(w, i, a)
      BY <1>1, <3>1 DEF SubmitReadLease
    <3>2. CASE \E s \in Submissions : ApproveBegin(w, s)
      BY <1>1, <3>2 DEF ApproveBegin
    <3>3. CASE (\E i \in Invoices : DirectReadAmount(w, i)) \/ PayoutRead(w)
      BY <1>1, <3>3 DEF DirectReadAmount, PayoutRead
    <3>4. CASE SubmitReadInvoice(w) \/ SubmitReadLocked(w)
      BY <1>1, <3>4 DEF SubmitReadInvoice, SubmitReadLocked, Finish, Request
    <3>5. CASE DirectReadInvoice(w) \/ DirectReadExisting(w)
      BY <1>1, <3>5 DEF DirectReadInvoice, DirectReadExisting, Finish, Request
    <3> QED
      BY <1>4, <3>1, <3>2, <3>3, <3>4, <3>5 DEF QuietAction, Arrive, PaymentRoutes, PayhereRoutes
  <2> QED
    BY <2>1 DEF OverwritesUnlocked
<1> QED
  BY <1>2, <1>3, <1>4, <1>5

LEMMA FrozenInvNext ==
  ASSUME NEW w, Requests = {w}, FrozenInv, [Next]_vars
  PROVE  FrozenInv'
<1>1. LockInv /\ LockInv' /\ Typed
  BY LockInvNext DEF FrozenInv, LockInv
<1>2. SUFFICES OverwritesUnlocked(w)'
  BY <1>1 DEF FrozenInv
<1>3. req \in [Requests -> Request]
  BY <1>1 DEF Typed, TypeOK
<1>4. CASE req'[w].pc \notin WritePcs
  BY <1>4 DEF OverwritesUnlocked
<1>5. CASE \/ SubmitWrite(w) \/ RejectWrite(w) \/ DirectCreate(w) \/ ApproveCommit(w)
           \/ Abort(w) \/ LateAbort(w) \/ PayoutWrite(w)
  <2>1. Finish(w)
    BY <1>5 DEF SubmitWrite, RejectWrite, DirectCreate, ApproveCommit, Abort, LateAbort,
                PayoutWrite
  <2> QED
    BY <1>3, <1>4, <2>1 DEF Finish, Idle, WritePcs
<1>6. CASE ApproveLock(w) \/ FifoRead(w) \/ FifoCommit(w) \/ OuterTimeout(w)
  <2>1. req'[w].pc \in FifoPcs \cup {"idle"}
    <3> USE DEF FifoPcs, HoldingPcs
    <3>4. CASE OuterTimeout(w)
      BY <1>1, <3>4, OuterTimeoutRecord
    <3>1. CASE ApproveLock(w)
      BY <1>3, <3>1 DEF ApproveLock, Finish, Idle, Request
    <3>2. CASE FifoRead(w)
      BY <1>3, <3>2 DEF FifoRead, Request
    <3>3. CASE FifoCommit(w)
      BY <1>1, <3>3, FifoCommitLeaves
    <3> QED
      BY <1>6, <3>1, <3>2, <3>3, <3>4
  <2> QED
    BY <1>4, <2>1 DEF WritePcs, FifoPcs, HoldingPcs
<1>7. CASE FifoStep(w)
  <2>1. req'[w].pc \in AllocPcs
    BY <1>1, <1>7, FifoStepKind DEF FifoStep
  <2> QED
    BY <1>4, <2>1 DEF WritePcs
<1>8. CASE (\E d \in Invoices : MarkOverdue(d)) \/ LeaseEnds \/ UNCHANGED vars
  <2>1. req' = req /\ subs' = subs
    BY <1>8 DEF MarkOverdue, LeaseEnds, vars, tables
  <2> QED
    BY <2>1 DEF FrozenInv, OverwritesUnlocked
<1> QED
  BY <1>5, <1>6, <1>7, <1>8, ChoosesUnlocked, NextCases

\* While requests do not overlap, no later step changes the amount or the
\* status of a row that an approval has locked.
THEOREM LockedForGood ==
  ASSUME NEW CONSTANT w, Requests = {w}
  PROVE  Spec => LockedRowIsFrozen
<1>1. Init => FrozenInv
  BY LockInvInit DEF FrozenInv, Init, OverwritesUnlocked, Idle
<1>2. FrozenInv /\ [Next]_vars => FrozenInv'
  BY FrozenInvNext
<1>3. FrozenInv /\ [Next]_vars => [\A s \in Submissions : StaysFrozen(s)]_vars
  BY StepKeepsFrozen DEF RowsStayFrozen
<1> QED
  BY <1>1, <1>2, <1>3, PTL DEF Spec, LockedRowIsFrozen

-----------------------------------------------------------------------------
(* The FIFO allocation is the reference allocation, however many overlap. *)

\* What was due on the invoices the loop has reached, and what the payment
\* leaves for invoice i after those before it.
Reached(q) == [i \in Invoices |-> IF i \in Written(q) THEN q.snap[i] ELSE 0]
Room(q, i) == AtLeastZero(q.amt - UpTo(Reached(q))[i - 1])

\* The loop goes by due date, `remaining` is what the reached invoices leave,
\* and each of them got what the older ones left, up to what was due on it.
Allocates(q) ==
  /\ \A i \in Written(q), j \in q.todo : i < j
  /\ q.left = AtLeastZero(q.amt - Total(Reached(q)))
  /\ \A i \in Written(q) :
       /\ Room(q, i) > 0
       /\ q.due[i] = q.snap[i] - Least(q.snap[i], Room(q, i))
       /\ i \in q.paid <=> Room(q, i) >= q.snap[i]

\* No open invoice escapes the loop: invoices are paid meanwhile, never reopened.
SeesOpen(q) == \A i \in Invoices : IsOpen(i) => i \in Written(q) \cup q.todo

AllocInv ==
  /\ LoopInv
  /\ \A r \in Requests : Allocating(r) => Allocates(req[r]) /\ SeesOpen(req[r])

LEMMA ReachedTyped ==
  ASSUME NEW q \in Request
  PROVE  /\ Written(q) \subseteq Invoices
         /\ Reached(q) \in [Invoices -> Nat]
         /\ q.amt \in Nat /\ q.left \in Nat
         /\ Total(Reached(q)) \in Nat
<1>1. /\ Written(q) \subseteq Invoices
      /\ q.snap \in [Invoices -> Nat]
      /\ q.amt \in Nat /\ q.left \in Nat
  BY DEF Written, Request
<1>2. Reached(q) \in [Invoices -> Nat]
  BY <1>1 DEF Reached
<1> QED
  BY <1>1, <1>2, UpToTyped

\* The sums before an invoice only see the invoices before it.
LEMMA NothingBehind ==
  ASSUME NEW q \in Request, NEW i \in Invoices, \A j \in Written(q) : j < i
  PROVE  UpTo(Reached(q))[i - 1] = Total(Reached(q))
<1>1. i - 1 \in 0..NInvoices /\ i \in Nat /\ Invoices \subseteq Nat
  BY PaymentsAssumption DEF Invoices
<1>2. ASSUME NEW j \in Invoices, j > i - 1 PROVE Reached(q)[j] = 0
  <2>1. j \notin Written(q)
    BY <1>1, <1>2
  <2> QED
    BY <2>1 DEF Reached
<1> QED
  BY <1>1, <1>2, ReachedTyped, TotalOfPrefix

\* One turn of the loop reaches one more invoice.
LEMMA FifoPayReaches ==
  ASSUME NEW q \in Request, NEW n \in Request, NEW i \in Invoices,
         q.left > 0, i \in q.todo, q.due[i] = q.snap[i], i \notin q.paid,
         n.snap = q.snap,
         \/ /\ n.due = [q.due EXCEPT ![i] = 0]
            /\ n.paid = q.paid \cup {i}
         \/ /\ ~ (q.left >= q.snap[i])
            /\ n.due = [q.due EXCEPT ![i] = q.snap[i] - q.left]
            /\ n.paid = q.paid
  PROVE  /\ Written(n) = Written(q) \cup {i}
         /\ i \notin Written(q)
         /\ Reached(n) = [Reached(q) EXCEPT ![i] = q.snap[i]]
         /\ Reached(q)[i] = 0
<1>1. q.due \in [Invoices -> Nat] /\ q.snap[i] \in Nat /\ q.left \in Nat
  BY DEF Request
<1>2. \A j \in Invoices \ {i} : n.due[j] = q.due[j] /\ (j \in n.paid <=> j \in q.paid)
  BY <1>1
<1>3. i \in n.paid \/ n.due[i] # n.snap[i]
  BY <1>1
<1>4. q.paid \subseteq Invoices /\ n.paid \subseteq Invoices
  BY DEF Request
<1>5. \A j \in Invoices : j \in Written(n) <=> (j \in Written(q) \/ j = i)
  BY <1>2, <1>3 DEF Written
<1>6. Written(n) = Written(q) \cup {i} /\ i \notin Written(q)
  BY <1>4, <1>5 DEF Written
<1>7. Reached(n) = [Reached(q) EXCEPT ![i] = q.snap[i]] /\ Reached(q)[i] = 0
  BY <1>6 DEF Reached
<1> QED
  BY <1>6, <1>7

LEMMA FifoStepAllocates ==
  ASSUME AllocInv, Typed', NEW r \in Requests, FifoStep(r)
  PROVE  Allocates(req'[r]) /\ SeesOpen(req[r])' /\ req'[r].pc \in AllocPcs
<1>1. /\ req[r] \in Request /\ req'[r] \in Request /\ req[r].left > 0
      /\ Allocates(req[r]) /\ SeesOpen(req[r])
  BY DEF AllocInv, LoopInv, Typed, TypeOK, FifoStep
<1>2. PICK i \in Oldest(req[r].todo) :
           /\ i \in Invoices
           /\ i \in req[r].todo
           /\ req[r].due[i] = req[r].snap[i]
           /\ req'[r].todo = req[r].todo \ {i}
           /\ req'[r].snap = req[r].snap
           /\ req'[r].amt = req[r].amt
           /\ req'[r].pc = req[r].pc
           /\ \/ /\ req[r].left >= req[r].snap[i]
                 /\ req'[r].due = [req[r].due EXCEPT ![i] = 0]
                 /\ req'[r].paid = req[r].paid \cup {i}
                 /\ req'[r].left = req[r].left - req[r].snap[i]
              \/ /\ ~ (req[r].left >= req[r].snap[i])
                 /\ req'[r].due = [req[r].due EXCEPT ![i] = req[r].snap[i] - req[r].left]
                 /\ req'[r].paid = req[r].paid
                 /\ req'[r].left = 0
  BY FifoStepRecord DEF AllocInv
<1>3. i \notin req[r].paid
  BY <1>2 DEF AllocInv, LoopInv, LoopInOrder, FifoStep
<1> DEFINE q == req[r]
           n == req'[r]
<1>4. /\ Written(n) = Written(q) \cup {i}
      /\ i \notin Written(q)
      /\ Reached(n) = [Reached(q) EXCEPT ![i] = q.snap[i]]
      /\ Reached(q)[i] = 0
  <2>1. /\ q \in Request /\ n \in Request /\ q.left > 0
        /\ i \in q.todo /\ q.due[i] = q.snap[i] /\ i \notin q.paid
        /\ n.snap = q.snap
    BY <1>1, <1>2, <1>3
  <2>2. \/ /\ n.due = [q.due EXCEPT ![i] = 0]
           /\ n.paid = q.paid \cup {i}
        \/ /\ ~ (q.left >= q.snap[i])
           /\ n.due = [q.due EXCEPT ![i] = q.snap[i] - q.left]
           /\ n.paid = q.paid
    BY <1>2
  <2> HIDE DEF q, n
  <2> QED
    BY <1>2, <2>1, <2>2, FifoPayReaches
<1>5. /\ Written(q) \subseteq Invoices /\ Invoices \subseteq Nat /\ q.todo \subseteq Invoices
      /\ q.snap \in [Invoices -> Nat] /\ q.due \in [Invoices -> Nat]
      /\ q.snap[i] \in Nat /\ q.left \in Nat /\ q.amt \in Nat /\ i \in Nat
      /\ Reached(q) \in [Invoices -> Nat] /\ Total(Reached(q)) \in Nat
  BY <1>1, <1>2, ReachedTyped, InvoicesAreNaturals DEF Request
<1>6. \A j \in q.todo : i <= j
  BY <1>2 DEF Oldest
<1>7. \A j \in Written(q) : j < i
  BY <1>1, <1>2 DEF Allocates
<1>8. Total(Reached(n)) = Total(Reached(q)) + q.snap[i]
  <2>1. Total(Reached(n)) = Total(Reached(q)) - Reached(q)[i] + q.snap[i]
    BY <1>2, <1>4, <1>5, TotalAfterUpdate
  <2> QED
    BY <1>4, <1>5, <2>1
<1>9. q.left = q.amt - Total(Reached(q))
  BY <1>1, <1>5 DEF Allocates, AtLeastZero
<1>10. n.left = AtLeastZero(n.amt - Total(Reached(n)))
  BY <1>2, <1>5, <1>8, <1>9 DEF AtLeastZero
<1>11. ASSUME NEW j \in Written(n), NEW k \in n.todo PROVE j < k
  <2>1. k \in q.todo /\ k # i /\ k \in Nat
    BY <1>2, <1>5
  <2>2. j \in Written(q) \/ j = i
    BY <1>4
  <2>3. j = i => j < k
    BY <1>5, <1>6, <2>1
  <2> QED
    BY <1>1, <2>1, <2>2, <2>3 DEF Allocates
<1>12. ASSUME NEW j \in Invoices, j <= i PROVE Room(n, j) = Room(q, j)
  <2>1. j - 1 \in 0..NInvoices /\ ~ (i <= j - 1)
    BY <1>5, <1>12, PaymentsAssumption DEF Invoices
  <2>2. Reached(n) \in [Invoices -> Nat] /\ \A k \in 1..(j - 1) : Reached(n)[k] = Reached(q)[k]
    <3>1. \A k \in 1..(j - 1) : k \in Invoices /\ k # i
      BY <1>5, <2>1, PaymentsAssumption DEF Invoices
    <3> QED
      BY <1>4, <1>5, <3>1
  <2>3. UpTo(Reached(n))[j - 1] = UpTo(Reached(q))[j - 1]
    BY <1>5, <2>1, <2>2, UpToIsLocal
  <2> QED
    BY <1>2, <2>3 DEF Room
<1>13. Room(n, i) = q.left
  <2>1. Room(n, i) = AtLeastZero(q.amt - Total(Reached(q)))
    BY <1>1, <1>2, <1>5, <1>7, <1>12, NothingBehind DEF Room
  <2> QED
    BY <1>1, <2>1 DEF Allocates
<1>14. ASSUME NEW j \in Written(n)
       PROVE  /\ Room(n, j) > 0
              /\ n.due[j] = n.snap[j] - Least(n.snap[j], Room(n, j))
              /\ j \in n.paid <=> Room(n, j) >= n.snap[j]
  <2>1. CASE j = i
    BY <1>1, <1>2, <1>3, <1>5, <1>13, <2>1 DEF Least
  <2>2. CASE j # i
    <3>1. j \in Written(q)
      BY <1>4, <2>2
    <3>2. j \in Invoices /\ j <= i
      <4>1. j < i
        BY <1>7, <3>1
      <4>2. j \in Invoices /\ j \in Nat /\ i \in Nat
        BY <1>5, <3>1
      <4> QED
        BY <4>1, <4>2
    <3>3. n.due[j] = q.due[j]
      BY <1>2, <1>5, <2>2, <3>2
    <3>4. (j \in n.paid <=> j \in q.paid) /\ n.snap[j] = q.snap[j]
      BY <1>2, <2>2
    <3> QED
      BY <1>1, <1>12, <3>1, <3>2, <3>3, <3>4 DEF Allocates
  <2> QED
    BY <2>1, <2>2
<1>15. Allocates(n)
  BY <1>10, <1>11, <1>14 DEF Allocates
<1>16. SeesOpen(req[r])'
  BY <1>1, <1>2, <1>4 DEF SeesOpen, FifoStep, tables, IsOpen
<1> QED
  BY <1>2, <1>15, <1>16 DEF FifoStep

LEMMA FifoReadAllocates ==
  ASSUME Typed, Typed', NEW r \in Requests, req[r].paid = {}, FifoRead(r)
  PROVE  Allocates(req'[r]) /\ SeesOpen(req[r])'
<1> DEFINE n == req'[r]
<1>1. req[r] \in Request /\ n \in Request /\ totalDue \in [Invoices -> Nat]
  BY DEF Typed, TypeOK
<1>2. /\ n.snap = totalDue /\ n.due = totalDue /\ n.paid = {}
      /\ n.left = n.amt /\ n.todo = {i \in Invoices : IsOpen(i)}
  BY <1>1 DEF FifoRead, Typed, TypeOK, Request
<1>3. Written(n) = {}
  BY <1>2 DEF Written
<1>4. Reached(n) \in [Invoices -> Nat] /\ \A i \in Invoices : Reached(n)[i] = 0
  BY <1>3 DEF Reached
<1>5. Total(Reached(n)) = 0
  <2>1. 0 \in 0..NInvoices
    BY PaymentsAssumption
  <2>2. Total(Reached(n)) = UpTo(Reached(n))[0]
    BY <1>4, <2>1, TotalOfPrefix
  <2> QED
    BY <2>2, UpToUnfolds
<1>6. n.left = AtLeastZero(n.amt - Total(Reached(n)))
  BY <1>1, <1>2, <1>5 DEF AtLeastZero, Request
<1>7. Allocates(n)
  BY <1>3, <1>6 DEF Allocates
<1>8. SeesOpen(req[r])'
  BY <1>2 DEF SeesOpen, FifoRead, tables, IsOpen
<1> QED
  BY <1>7, <1>8

\* A step after which its request, if there is one, is not in the loop.
LEMMA OutsideKeepsAllocs ==
  ASSUME AllocInv, LoopInv',
         \/ req' = req
         \/ \E r \in Requests : /\ req'[r].pc \notin AllocPcs
                                /\ \A p \in Requests \ {r} : req'[p] = req[p],
         \A i \in Invoices : IsOpen(i)' => IsOpen(i)
  PROVE  AllocInv'
<1> SUFFICES ASSUME NEW p \in Requests, req'[p].pc \in AllocPcs
             PROVE  Allocates(req'[p]) /\ SeesOpen(req[p])'
  BY DEF AllocInv
<1>1. req'[p] = req[p]
  OBVIOUS
<1>2. Allocates(req[p]) /\ SeesOpen(req[p])
  BY <1>1 DEF AllocInv
<1> QED
  BY <1>1, <1>2 DEF SeesOpen

\* A step of the loop touches no other request and no invoice.
LEMMA LoopKeepsAllocs ==
  ASSUME AllocInv, LoopInv', NEW r \in Requests,
         Allocates(req'[r]) /\ SeesOpen(req[r])',
         \A p \in Requests \ {r} : req'[p] = req[p],
         invStatus' = invStatus
  PROVE  AllocInv'
<1> SUFFICES ASSUME NEW p \in Requests, req'[p].pc \in AllocPcs, p # r
             PROVE  Allocates(req'[p]) /\ SeesOpen(req[p])'
  BY DEF AllocInv
<1>1. req'[p] = req[p]
  OBVIOUS
<1>2. Allocates(req[p]) /\ SeesOpen(req[p])
  BY <1>1 DEF AllocInv
<1> QED
  BY <1>1, <1>2 DEF SeesOpen, IsOpen

LEMMA AllocInvInit == Init => AllocInv
  BY LoopInvInit DEF AllocInv, Init, Idle

LEMMA AllocInvNext ==
  ASSUME AllocInv, [Next]_vars
  PROVE  AllocInv'
<1>1. LoopInv /\ LoopInv' /\ Typed /\ Typed'
  BY LoopInvNext DEF AllocInv, LoopInv
<1>2. req \in [Requests -> Request]
  BY <1>1 DEF Typed, TypeOK
<1>3. ASSUME NEW r \in Requests, Finish(r), \A i \in Invoices : IsOpen(i)' => IsOpen(i)
      PROVE  AllocInv'
  BY <1>1, <1>2, <1>3, OutsideKeepsAllocs DEF Finish, Idle
<1>4. ASSUME NEW r \in Requests, QuietAction(r) PROVE AllocInv'
  <2>1. QuietStep(r)
    BY <1>1, <1>4, QuietActionIsQuiet
  <2>2. /\ req'[r].pc \notin AllocPcs
        /\ \A p \in Requests \ {r} : req'[p] = req[p]
        /\ \A i \in Invoices : IsOpen(i)' => IsOpen(i)
    BY <1>2, <2>1 DEF QuietStep, HoldingPcs, FifoPcs, tables, IsOpen
  <2> QED
    BY <1>1, <2>2, OutsideKeepsAllocs
<1>5. ASSUME NEW r \in Requests,
             \/ SubmitWrite(r) \/ RejectWrite(r) \/ DirectCreate(r) \/ PayoutWrite(r)
             \/ ApproveCommit(r) \/ Abort(r) \/ LateAbort(r)
      PROVE  AllocInv'
  <2>1. Finish(r) /\ invStatus' = invStatus
    BY <1>5 DEF SubmitWrite, RejectWrite, DirectCreate, PayoutWrite, ApproveCommit, Abort,
                LateAbort, tables
  <2> QED
    BY <1>3, <2>1 DEF IsOpen
<1>6. ASSUME NEW r \in Requests, ApproveLock(r) PROVE AllocInv'
  <2>1. /\ req'[r].pc \notin AllocPcs
        /\ \A p \in Requests \ {r} : req'[p] = req[p]
    BY <1>2, <1>6 DEF ApproveLock, Finish, Idle, Request
  <2>2. \A i \in Invoices : IsOpen(i)' => IsOpen(i)
    BY <1>6 DEF ApproveLock, tables, IsOpen
  <2> QED
    BY <1>1, <2>1, <2>2, OutsideKeepsAllocs
<1>7. ASSUME NEW r \in Requests, FifoRead(r) PROVE AllocInv'
  <2>1. req[r].paid = {}
    BY <1>1, <1>7 DEF LoopInv, FifoRead
  <2>2. Allocates(req'[r]) /\ SeesOpen(req[r])'
    BY <1>1, <1>7, <2>1, FifoReadAllocates
  <2>3. invStatus' = invStatus /\ \A p \in Requests \ {r} : req'[p] = req[p]
    BY <1>2, <1>7 DEF FifoRead, tables
  <2> QED
    BY <1>1, <2>2, <2>3, LoopKeepsAllocs
<1>8. ASSUME NEW r \in Requests, FifoStep(r) PROVE AllocInv'
  <2>1. Allocates(req'[r]) /\ SeesOpen(req[r])'
    BY <1>1, <1>8, FifoStepAllocates
  <2>2. invStatus' = invStatus /\ \A p \in Requests \ {r} : req'[p] = req[p]
    BY <1>2, <1>8 DEF FifoStep, FifoPay, tables
  <2> QED
    BY <1>1, <2>1, <2>2, LoopKeepsAllocs
<1>9. ASSUME NEW r \in Requests, FifoCommit(r) PROVE AllocInv'
  <2>1. /\ req'[r].pc \notin AllocPcs
        /\ \A p \in Requests \ {r} : req'[p] = req[p]
    BY <1>1, <1>9, FifoCommitLeaves
  <2>3. \A i \in Invoices : IsOpen(i)' => IsOpen(i)
    BY <1>9 DEF FifoCommit, IsOpen
  <2> QED
    BY <1>1, <2>1, <2>3, OutsideKeepsAllocs
<1>10. CASE (\E d \in Invoices : MarkOverdue(d)) \/ LeaseEnds \/ UNCHANGED vars
  <2>1. req' = req
    BY <1>10 DEF MarkOverdue, LeaseEnds, vars
  <2>2. \A i \in Invoices : IsOpen(i)' => IsOpen(i)
    BY <1>10 DEF MarkOverdue, LeaseEnds, vars, tables, IsOpen
  <2> QED
    BY <1>1, <2>1, <2>2, OutsideKeepsAllocs
<1>11. ASSUME NEW r \in Requests, OuterTimeout(r) PROVE AllocInv'
  <2>1. ASSUME NEW p \in Requests, Allocating(p)'
        PROVE  Allocates(req'[p]) /\ SeesOpen(req[p])'
    <3>1. /\ Allocating(p)
          /\ req'[p].todo = req[p].todo /\ req'[p].paid = req[p].paid
          /\ req'[p].snap = req[p].snap /\ req'[p].due = req[p].due
          /\ req'[p].left = req[p].left /\ req'[p].amt = req[p].amt
          /\ invStatus' = invStatus
      BY <1>1, <1>11, <2>1, OuterTimeoutRecord DEF tables
    <3>2. Written(req'[p]) = Written(req[p])
      BY <3>1 DEF Written
    <3>3. /\ Reached(req'[p]) = Reached(req[p])
          /\ \A i \in Invoices : Room(req'[p], i) = Room(req[p], i)
      BY <3>1, <3>2 DEF Reached, Room
    <3>4. Allocates(req[p]) /\ SeesOpen(req[p])
      BY <3>1 DEF AllocInv
    <3>5. Written(req[p]) \subseteq Invoices
      BY DEF Written, AllocInv, LoopInv, Typed, TypeOK, Request
    <3> QED
      BY <3>1, <3>2, <3>3, <3>4, <3>5 DEF Allocates, SeesOpen, IsOpen
  <2> QED
    BY <1>1, <2>1 DEF AllocInv
<1> QED
  BY <1>4, <1>5, <1>6, <1>7, <1>8, <1>9, <1>10, <1>11, NextCases

\* A fresh allocation reached every open invoice before one it has reached, and
\* no other.
LEMMA FreshSums ==
  ASSUME AllocInv, NEW r \in Requests, FifoCommit(r), IsFresh(req[r])
  PROVE  /\ \A i \in Written(req[r]) :
              UpTo(OpenDue)[i - 1] = UpTo(Reached(req[r]))[i - 1]
         /\ req[r].todo = {} => Total(OpenDue) = Total(Reached(req[r]))
         /\ \A n \in 0..NInvoices : UpTo(Reached(req[r]))[n] <= UpTo(OpenDue)[n]
         /\ OpenDue \in [Invoices -> Nat]
<1> DEFINE q == req[r]
<1>1. /\ q \in Request /\ Allocates(q) /\ SeesOpen(q)
      /\ totalDue \in [Invoices -> Nat]
  BY DEF AllocInv, LoopInv, Typed, TypeOK, FifoCommit
<1>2. /\ OpenDue \in [Invoices -> Nat] /\ Reached(q) \in [Invoices -> Nat]
      /\ Written(q) \subseteq Invoices /\ Invoices \subseteq Nat
      /\ q.todo \subseteq Invoices
  BY <1>1, ReachedTyped, InvoicesAreNaturals DEF OpenDue, Request
<1>3. \A j \in Invoices : Reached(q)[j] = IF j \in Written(q) THEN OpenDue[j] ELSE 0
  BY DEF Reached, OpenDue, IsFresh
<1>4. ASSUME NEW i \in Written(q)
      PROVE  UpTo(OpenDue)[i - 1] = UpTo(Reached(q))[i - 1]
  <2>1. i - 1 \in 0..NInvoices /\ i \in Nat
    BY <1>2, PaymentsAssumption DEF Invoices
  <2>2. ASSUME NEW j \in 1..(i - 1) PROVE OpenDue[j] = Reached(q)[j]
    <3>1. j \in Invoices /\ ~ (i < j)
      BY <2>1, PaymentsAssumption DEF Invoices
    <3>2. CASE IsOpen(j)
      BY <1>1, <1>3, <3>1, <3>2 DEF SeesOpen, Allocates
    <3>3. CASE ~ IsOpen(j)
      BY <1>3, <3>1, <3>3 DEF OpenDue
    <3> QED
      BY <3>2, <3>3
  <2> QED
    BY <1>2, <2>1, <2>2, UpToIsLocal
<1>5. ASSUME q.todo = {} PROVE Total(OpenDue) = Total(Reached(q))
  <2>1. \A j \in Invoices : OpenDue[j] = Reached(q)[j]
    BY <1>1, <1>3, <1>5 DEF SeesOpen, OpenDue
  <2>2. \A f, g \in [Invoices -> Nat] : (\A j \in Invoices : f[j] = g[j]) => f = g
    OBVIOUS
  <2>3. OpenDue = Reached(q)
    BY <1>2, <2>1, <2>2
  <2> QED
    BY <2>3
<1>6. ASSUME NEW n \in 0..NInvoices PROVE UpTo(Reached(q))[n] <= UpTo(OpenDue)[n]
  <2>1. \A j \in 1..n : j \in Invoices
    BY <1>6, PaymentsAssumption DEF Invoices
  <2>2. \A j \in 1..n : Reached(q)[j] <= OpenDue[j]
    BY <1>2, <1>3, <2>1
  <2> QED
    BY <1>2, <2>2, UpToIsMonotonic
<1> QED
  BY <1>2, <1>4, <1>5, <1>6

\* What a fresh allocation commits.
LEMMA CommitAllocates ==
  ASSUME AllocInv, NEW r \in Requests
  PROVE  FreshIsFifo(r)
<1> SUFFICES ASSUME FifoCommit(r), IsFresh(req[r])
             PROVE  AllocatesByReference(req[r].amt)
  BY DEF FreshIsFifo
<1> DEFINE q == req[r]
<1>1. /\ q \in Request /\ Allocates(q) /\ SeesOpen(q)
      /\ totalDue \in [Invoices -> Nat] /\ invStatus \in [Invoices -> InvoiceStatus]
      /\ credit \in Nat
      /\ q.left = 0 \/ q.todo = {}
  BY DEF AllocInv, LoopInv, Typed, TypeOK, FifoCommit
<1>2. /\ Written(q) \subseteq Invoices /\ Invoices \subseteq Nat
      /\ q.amt \in Nat /\ q.left \in Nat /\ Total(Reached(q)) \in Nat
      /\ q.paid \subseteq Written(q)
  BY <1>1, ReachedTyped, InvoicesAreNaturals DEF Written
<1>3. /\ \A i \in Written(q) : UpTo(OpenDue)[i - 1] = UpTo(Reached(q))[i - 1]
      /\ q.todo = {} => Total(OpenDue) = Total(Reached(q))
      /\ \A n \in 0..NInvoices : UpTo(Reached(q))[n] <= UpTo(OpenDue)[n]
      /\ OpenDue \in [Invoices -> Nat]
  BY FreshSums
<1>4. /\ q.snap = totalDue
      /\ \A i \in Written(q) : IsOpen(i)
  BY DEF IsFresh
<1>5. \A i \in Invoices :
        /\ invStatus'[i] = IF i \in q.paid THEN "PAID" ELSE invStatus[i]
        /\ totalDue'[i] = IF i \in Written(q) THEN q.due[i] ELSE totalDue[i]
  BY DEF FifoCommit
<1>6. q.left = 0 => q.amt <= Total(Reached(q))
  BY <1>1, <1>2 DEF Allocates, AtLeastZero
<1>7. ASSUME NEW i \in Written(q)
      PROVE  /\ totalDue'[i] = totalDue[i] - Least(totalDue[i], LeftFor(i, q.amt))
             /\ (invStatus'[i] = "PAID")
                  <=> (LeftFor(i, q.amt) > 0 /\ LeftFor(i, q.amt) >= totalDue[i])
  <2>1. LeftFor(i, q.amt) = Room(q, i)
    BY <1>3 DEF LeftFor, Room
  <2>2. invStatus'[i] = "PAID" <=> i \in q.paid
    BY <1>2, <1>4, <1>5 DEF IsOpen
  <2>3. totalDue'[i] = q.due[i]
    BY <1>2, <1>5
  <2> QED
    BY <1>1, <1>4, <2>1, <2>2, <2>3 DEF Allocates
<1>8. ASSUME NEW i \in Invoices, IsOpen(i), i \notin Written(q)
      PROVE  /\ totalDue'[i] = totalDue[i] - Least(totalDue[i], LeftFor(i, q.amt))
             /\ invStatus'[i] # "PAID"
             /\ LeftFor(i, q.amt) = 0
  <2>1. i \in q.todo /\ q.left = 0
    BY <1>1, <1>8 DEF SeesOpen
  <2>2. UpTo(Reached(q))[i - 1] = Total(Reached(q))
    BY <1>1, <2>1, NothingBehind DEF Allocates
  <2>3. i - 1 \in 0..NInvoices
    BY PaymentsAssumption DEF Invoices
  <2>4. UpTo(OpenDue)[i - 1] \in Nat
    BY <1>3, <2>3, UpToTyped
  <2>5. q.amt <= UpTo(OpenDue)[i - 1]
    BY <1>2, <1>3, <1>6, <2>1, <2>2, <2>3, <2>4
  <2>6. LeftFor(i, q.amt) = 0
    BY <1>2, <2>4, <2>5 DEF LeftFor, AtLeastZero
  <2>7. totalDue[i] \in Nat /\ totalDue'[i] = totalDue[i]
    BY <1>1, <1>5, <1>8
  <2>8. invStatus'[i] # "PAID"
    BY <1>2, <1>5, <1>8 DEF IsOpen
  <2> QED
    BY <2>6, <2>7, <2>8 DEF Least
<1>9. ASSUME NEW i \in Invoices, ~ IsOpen(i)
      PROVE  totalDue'[i] = totalDue[i] /\ invStatus'[i] = "PAID"
  <2>1. i \notin Written(q) /\ i \notin q.paid
    BY <1>2, <1>4, <1>9
  <2>2. invStatus[i] = "PAID"
    BY <1>1, <1>9 DEF IsOpen, InvoiceStatus
  <2> QED
    BY <1>5, <2>1, <2>2
<1>10. credit' = credit + LeftFor(NInvoices + 1, q.amt)
  <2>1. LeftFor(NInvoices + 1, q.amt) = AtLeastZero(q.amt - Total(OpenDue))
    BY PaymentsAssumption DEF LeftFor, Total
  <2>2. Total(OpenDue) \in Nat /\ Total(Reached(q)) <= Total(OpenDue)
    BY <1>3, UpToTyped, PaymentsAssumption DEF Total
  <2>3. q.left = AtLeastZero(q.amt - Total(OpenDue))
    <3>1. CASE q.todo = {}
      BY <1>1, <1>3, <3>1 DEF Allocates
    <3>2. CASE q.left = 0
      BY <1>2, <1>6, <2>2, <3>2 DEF AtLeastZero
    <3> QED
      BY <1>1, <3>1, <3>2
  <2> QED
    BY <2>1, <2>3 DEF FifoCommit, Excess
<1>11. ASSUME NEW i \in Invoices
       PROVE  IF IsOpen(i)
                THEN /\ totalDue'[i] = totalDue[i] - Least(totalDue[i], LeftFor(i, q.amt))
                     /\ (invStatus'[i] = "PAID")
                          <=> (LeftFor(i, q.amt) > 0 /\ LeftFor(i, q.amt) >= totalDue[i])
                ELSE totalDue'[i] = totalDue[i] /\ invStatus'[i] = "PAID"
  BY <1>4, <1>7, <1>8, <1>9
<1> QED
  BY <1>10, <1>11 DEF AllocatesByReference

\* However many allocations of one tenant overlap, one that finds the invoices
\* as it read them pays the oldest first, each up to what is due on it, marks
\* as paid exactly the covered ones and credits exactly the rest.
THEOREM AllocatesFifo == Spec => FreshAllocationIsFifo
<1>1. Init => AllocInv
  BY AllocInvInit
<1>2. AllocInv /\ [Next]_vars => AllocInv'
  BY AllocInvNext
<1>3. AllocInv /\ [Next]_vars => [\A r \in Requests : FreshIsFifo(r)]_vars
  BY CommitAllocates
<1> QED
  BY <1>1, <1>2, <1>3, PTL DEF Spec, FreshAllocationIsFifo

=============================================================================
