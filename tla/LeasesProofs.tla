---------------------------- MODULE LeasesProofs ----------------------------
(***************************************************************************)
(* Theorems about Leases for every number of requests, agreements, rooms   *)
(* and tenants, every deposit and every rent.                              *)
(***************************************************************************)
EXTENDS Leases, TLAPS

\* The program counters at which `id` names an agreement; while it is being
\* created, its row does not exist yet and belongs to that request alone.
CreatePcs == {"createTenant", "createRoom", "createCapacity", "createInsert"}
LeasePcs  == CreatePcs \cup {"activateWrite", "leaveInvoices", "leaveWrite",
                             "endInvoices", "endWrite", "refundWrite", "deleteWrite"}

Creates(r, l) == req[r].pc \in CreatePcs /\ req[r].id = l

RequestInv ==
  \A r \in Requests :
    /\ req[r].pc \in LeasePcs => req[r].id \in Leases
    /\ req[r].pc \in CreatePcs => status[req[r].id] = "none"
    /\ \A q \in Requests \ {r} : ~ (req[r].pc \in CreatePcs /\ Creates(q, req[r].id))

\* What is archived exists, what does not exist has no refund, what is
\* terminated has one; and a refund splits the deposit.
LeaseInv ==
  \A l \in Leases :
    /\ archived[l] => Exists(l)
    /\ refund[l].exists => Exists(l)
    /\ status[l] = "TERMINATED" => refund[l].exists

RefundInv ==
  \A l \in Leases :
    IF refund[l].exists THEN refund[l].amount + refund[l].deductions = Deposit
                        ELSE refund[l] = NoRefund

IInv == TypeOK /\ RequestInv /\ LeaseInv /\ RefundInv

LEMMA IdleTyped == Idle \in Request /\ Idle.pc = "idle"
  BY DEF Idle, Request, Pcs

LEMMA InitInv == Init => IInv
  BY LeasesAssumption, IdleTyped
  DEF Init, IInv, TypeOK, RequestInv, LeaseInv, RefundInv, NoRefund, Refund,
      LeasePcs, CreatePcs, Creates, Exists, AgreementStatus, Idle

-----------------------------------------------------------------------------
(* The rent of the last month. *)

LEMMA DivisionIsMonotonic ==
  ASSUME NEW d \in Nat \ {0}, NEW m \in Nat, NEW n \in Nat, m <= n
  PROVE  m \div d \in Nat /\ n \div d \in Nat /\ m \div d <= n \div d
<1> DEFINE p == m \div d
           q == n \div d
<1>1. /\ p \in Int /\ m = d * p + (m % d) /\ m % d \in 0..(d - 1)
      /\ q \in Int /\ n = d * q + (n % d) /\ n % d \in 0..(d - 1)
  OBVIOUS
<1>2. p >= 0 /\ q >= 0
  OBVIOUS
<1> HIDE DEF p, q
<1>3. ASSUME q + 1 <= p PROVE FALSE
  <2>1. PICK k \in Nat : p = q + 1 + k
    <3>1. p - (q + 1) \in Nat
      BY <1>1, <1>3
    <3> QED
      BY <1>1, <3>1
  <2>2. d * p = d * q + d + d * k /\ d * k \in Nat
    BY <1>1, <2>1
  <2> QED
    BY <1>1, <2>2
<1> QED
  BY <1>1, <1>2, <1>3 DEF p, q

LEMMA ProductIsMonotonic ==
  ASSUME NEW a \in Nat, NEW m \in Nat, NEW n \in Nat, m <= n
  PROVE  a * m \in Nat /\ a * n \in Nat /\ a * m <= a * n
<1>1. PICK k \in Nat : n = m + k
  <2>1. n - m \in Nat
    OBVIOUS
  <2> QED
    BY <2>1
<1>2. a * n = a * m + a * k /\ a * k \in Nat /\ a * m \in Nat
  BY <1>1
<1> QED
  BY <1>2

\* More days never cost less.
LEMMA RentForIsMonotonic ==
  ASSUME NEW m \in Nat, NEW n \in Nat, m <= n, NEW rule,
         NEW rent \in Nat, NEW month \in Nat \ {0}
  PROVE  /\ RentFor(m, rent, month, rule) \in Nat
         /\ RentFor(n, rent, month, rule) \in Nat
         /\ RentFor(m, rent, month, rule) <= RentFor(n, rent, month, rule)
<1> DEFINE a == 2 * (rent * m) + month
           b == 2 * (rent * n) + month
<1>1. rent * m \in Nat /\ rent * n \in Nat /\ rent * m <= rent * n
  BY ProductIsMonotonic
<1>2. a \in Nat /\ b \in Nat /\ a <= b /\ 2 * month \in Nat \ {0}
  BY <1>1
<1> HIDE DEF a, b
<1>3. a \div (2 * month) \in Nat /\ b \div (2 * month) \in Nat
      /\ a \div (2 * month) <= b \div (2 * month)
  BY <1>2, DivisionIsMonotonic
<1> QED
  BY <1>3 DEF a, b, RentFor, Rounded

LEMMA DaysAreFewer ==
  ASSUME NEW day \in Nat \ {0}, NEW start \in Int
  PROVE  /\ DaysToPayFor(day, start) \in Nat
         /\ DaysToPayFor(day, start) <= DaysCharged(day)
         /\ start < 1 => DaysToPayFor(day, start) = DaysCharged(day)
  BY DEF DaysToPayFor, DaysCharged

\* The preview of the exit day never shows more for the last month than
\* terminate takes, and shows the same to a tenant who came before this month.
THEOREM PreviewShowsNoMore ==
  ASSUME NEW l \in Leases, NEW day \in 1..DaysInMonth
  PROVE  /\ Preview(l, day).final \in Nat
         /\ Preview(l, day).final <= FinalInvoiceAmount(l, day)
         /\ StartDay[l] < 1 => Preview(l, day).final = FinalInvoiceAmount(l, day)
<1>1. /\ DaysToPayFor(day, StartDay[l]) \in Nat /\ DaysCharged(day) \in Nat
      /\ DaysToPayFor(day, StartDay[l]) <= DaysCharged(day)
      /\ StartDay[l] < 1 => DaysToPayFor(day, StartDay[l]) = DaysCharged(day)
  BY DaysAreFewer, LeasesAssumption DEF DaysCharged
<1>2. Rent \in Nat /\ DaysInMonth \in Nat \ {0}
  BY LeasesAssumption
<1> QED
  BY <1>1, <1>2, RentForIsMonotonic DEF Preview, FinalInvoiceAmount, RentOf

LEMMA FinalIsTyped ==
  ASSUME NEW l \in Leases, NEW day \in 1..DaysInMonth
  PROVE  FinalInvoiceAmount(l, day) \in Nat
<1>1. DaysCharged(day) \in Nat /\ Rent \in Nat /\ DaysInMonth \in Nat \ {0}
  BY LeasesAssumption DEF DaysCharged
<1> QED
  BY <1>1, RentForIsMonotonic DEF FinalInvoiceAmount, RentOf

-----------------------------------------------------------------------------
(* The record of a request. *)

\* A step that gives request r the record q, and leaves the rows that other
\* requests are creating alone.
RequestStep(r, q) ==
  /\ req' = [req EXCEPT ![r] = q]
  /\ q.pc \in LeasePcs => q.id \in Leases
  /\ q.pc \in CreatePcs =>
       /\ status'[q.id] = "none"
       /\ \A x \in Requests \ {r} : ~ Creates(x, q.id)
  /\ \A x \in Requests \ {r} :
       req[x].pc \in CreatePcs => status'[req[x].id] = "none"

LEMMA RequestStepKeepsInv ==
  ASSUME IInv, NEW r \in Requests, NEW q \in Request, RequestStep(r, q)
  PROVE  req' \in [Requests -> Request] /\ RequestInv'
<1>1. req \in [Requests -> Request] /\ req' = [req EXCEPT ![r] = q]
  BY DEF IInv, TypeOK, RequestStep
<1>2. req'[r] = q /\ \A x \in Requests \ {r} : req'[x] = req[x]
  BY <1>1
<1>3. ASSUME NEW x \in Requests
      PROVE  /\ req'[x].pc \in LeasePcs => req'[x].id \in Leases
             /\ req'[x].pc \in CreatePcs => status'[req'[x].id] = "none"
  BY <1>2 DEF IInv, RequestInv, RequestStep
<1>4. ASSUME NEW x \in Requests, NEW y \in Requests \ {x}
      PROVE  ~ (req'[x].pc \in CreatePcs /\ req'[y].pc \in CreatePcs
                  /\ req'[y].id = req'[x].id)
  <2>1. CASE x = r
    BY <1>2, <2>1 DEF RequestStep, Creates
  <2>2. CASE y = r
    BY <1>2, <2>2 DEF RequestStep, Creates
  <2>3. CASE x # r /\ y # r
    BY <1>2, <2>3 DEF IInv, RequestInv, Creates
  <2> QED
    BY <2>1, <2>2, <2>3
<1> QED
  BY <1>1, <1>3, <1>4 DEF RequestInv, Creates

\* No row that is being created is touched.
KeepsNone ==
  \A l \in Leases : status[l] = "none" => status'[l] = "none"

LEMMA FinishKeepsInv ==
  ASSUME IInv, NEW r \in Requests, Finish(r), KeepsNone
  PROVE  req' \in [Requests -> Request] /\ RequestInv'
<1>1. RequestStep(r, Idle)
  BY IdleTyped DEF RequestStep, Finish, KeepsNone, LeasePcs, CreatePcs, IInv, RequestInv
<1> QED
  BY <1>1, IdleTyped, RequestStepKeepsInv

\* What a step changes of no agreement, it keeps.
LEMMA StutterKeepsInv ==
  ASSUME IInv, UNCHANGED vars
  PROVE  IInv'
  BY DEF IInv, TypeOK, RequestInv, LeaseInv, RefundInv, vars, tables, Creates, Exists

\* A step that changes the record of one request and no table.
LEMMA QuietKeepsInv ==
  ASSUME IInv, NEW r \in Requests, NEW q \in Request, RequestStep(r, q),
         UNCHANGED tables
  PROVE  IInv'
<1>1. req' \in [Requests -> Request] /\ RequestInv'
  BY RequestStepKeepsInv
<1> QED
  BY <1>1 DEF IInv, TypeOK, LeaseInv, RefundInv, tables, Exists

\* The three ways a step without effect on the tables goes on.
LEMMA StartIsQuiet ==
  ASSUME IInv, NEW r \in Requests, NEW l \in Leases, NEW pc \in Pcs,
         Start(r, pc, l), UNCHANGED tables,
         pc \in CreatePcs => status[l] = "none" /\ \A q \in Requests : req[q].id # l
  PROVE  IInv'
<1> DEFINE q == [Idle EXCEPT !.pc = pc, !.id = l]
<1>1. q \in Request /\ q.pc = pc /\ q.id = l
  BY IdleTyped DEF Idle, Request, Pcs
<1>2. RequestStep(r, q)
  BY <1>1 DEF RequestStep, Start, tables, IInv, RequestInv, Creates
<1> QED
  BY <1>1, <1>2, QuietKeepsInv

LEMMA OtherStartIsQuiet ==
  ASSUME IInv, NEW r \in Requests, NEW id \in Rooms \cup Tenants,
         NEW pc \in Pcs \ LeasePcs, Start(r, pc, id), UNCHANGED tables
  PROVE  IInv'
<1> DEFINE q == [Idle EXCEPT !.pc = pc, !.id = id]
<1>1. q \in Request /\ q.pc = pc
  BY IdleTyped DEF Idle, Request, Pcs
<1>2. RequestStep(r, q)
  BY <1>1 DEF RequestStep, Start, tables, IInv, RequestInv, LeasePcs
<1> QED
  BY <1>1, <1>2, QuietKeepsInv

LEMMA FinishIsQuiet ==
  ASSUME IInv, NEW r \in Requests, Finish(r), UNCHANGED tables
  PROVE  IInv'
<1>1. KeepsNone
  BY DEF KeepsNone, tables
<1>2. req' \in [Requests -> Request] /\ RequestInv'
  BY <1>1, FinishKeepsInv
<1> QED
  BY <1>2 DEF IInv, TypeOK, LeaseInv, RefundInv, tables, Exists

\* A request that creates an agreement goes on creating it.
LEMMA GotoIsQuiet ==
  ASSUME IInv, NEW r \in Requests, NEW pc \in LeasePcs, Goto(r, pc),
         req[r].pc \in LeasePcs, pc \in CreatePcs => req[r].pc \in CreatePcs,
         UNCHANGED tables
  PROVE  IInv'
<1> DEFINE q == [req[r] EXCEPT !.pc = pc]
<1>1. req[r] \in Request
  BY DEF IInv, TypeOK
<1>2. q \in Request /\ q.pc = pc /\ q.id = req[r].id
  BY <1>1 DEF Request, LeasePcs, CreatePcs, Pcs
<1>3. RequestStep(r, q)
  BY <1>2 DEF RequestStep, Goto, tables, IInv, RequestInv, Creates
<1> QED
  BY <1>2, <1>3, QuietKeepsInv

LEMMA CheckIsQuiet ==
  ASSUME IInv, NEW r \in Requests, NEW pc \in LeasePcs,
         Goto(r, pc) \/ Finish(r), req[r].pc \in LeasePcs,
         pc \in CreatePcs => req[r].pc \in CreatePcs, UNCHANGED tables
  PROVE  IInv'
  BY GotoIsQuiet, FinishIsQuiet

-----------------------------------------------------------------------------
(* Steps that write tables. *)

\* A step that changes the agreements only in status and archive flag, and
\* neither terminates one nor makes one appear or vanish.
LEMMA StatusWriteKeepsLeases ==
  ASSUME IInv,
         status' \in [Leases -> AgreementStatus \cup {"none", "deleted"}],
         UNCHANGED <<archived, refund>>,
         \A l \in Leases : Exists(l) <=> Exists(l)',
         \A l \in Leases : status'[l] = "TERMINATED" => status[l] = "TERMINATED"
  PROVE  LeaseInv' /\ RefundInv'
  BY DEF IInv, LeaseInv, RefundInv, Exists

LEMMA SetStatusKeepsInv ==
  ASSUME IInv, NEW r \in Requests, req[r].id \in Leases,
         NEW s \in AgreementStatus \ {"TERMINATED"}, SetStatus(r, s)
  PROVE  IInv'
<1> DEFINE l == req[r].id
<1>1. /\ status' \in [Leases -> AgreementStatus \cup {"none", "deleted"}]
      /\ \A k \in Leases : Exists(k) <=> Exists(k)'
      /\ \A k \in Leases : status'[k] = "TERMINATED" => status[k] = "TERMINATED"
  BY DEF SetStatus, IInv, TypeOK, Exists, AgreementStatus
<1>2. KeepsNone
  BY DEF SetStatus, KeepsNone, IInv, TypeOK, Exists, AgreementStatus
<1>3. req' \in [Requests -> Request] /\ RequestInv'
  BY <1>2, FinishKeepsInv DEF SetStatus
<1>4. LeaseInv' /\ RefundInv'
  BY <1>1, StatusWriteKeepsLeases DEF SetStatus
<1> QED
  BY <1>1, <1>3, <1>4 DEF IInv, TypeOK, SetStatus

LEMMA CreateInsertKeepsInv ==
  ASSUME IInv, NEW r \in Requests, CreateInsert(r)
  PROVE  IInv'
<1> DEFINE l == req[r].id
<1>1. l \in Leases /\ status[l] = "none"
  BY DEF IInv, RequestInv, CreateInsert, At, LeasePcs, CreatePcs
<1>2. status' = [status EXCEPT ![l] = "DRAFT"] /\ req' = [req EXCEPT ![r] = Idle]
  BY DEF CreateInsert, Finish
<1>3. status' \in [Leases -> AgreementStatus \cup {"none", "deleted"}]
  BY <1>2 DEF IInv, TypeOK, AgreementStatus
<1>4. \A x \in Requests \ {r} : req[x].pc \in CreatePcs => status'[req[x].id] = "none"
  <2> SUFFICES ASSUME NEW x \in Requests \ {r}, req[x].pc \in CreatePcs
               PROVE  status'[req[x].id] = "none"
    OBVIOUS
  <2>1. req[x].id \in Leases /\ status[req[x].id] = "none"
    BY DEF IInv, RequestInv, LeasePcs
  <2>2. req[x].id # l
    BY DEF IInv, RequestInv, Creates, CreateInsert, At, CreatePcs
  <2> QED
    BY <1>2, <2>1, <2>2 DEF IInv, TypeOK
<1>5. RequestStep(r, Idle)
  BY <1>2, <1>4, IdleTyped DEF RequestStep, LeasePcs, CreatePcs
<1>6. req' \in [Requests -> Request] /\ RequestInv'
  BY <1>5, IdleTyped, RequestStepKeepsInv
<1>7. LeaseInv' /\ RefundInv'
  BY <1>1, <1>2 DEF CreateInsert, IInv, TypeOK, LeaseInv, RefundInv, Exists, AgreementStatus
<1> QED
  BY <1>3, <1>6, <1>7 DEF IInv, TypeOK, CreateInsert

\* The refund that terminate computes splits the deposit.
LEMMA RefundRowSplits ==
  ASSUME NEW q \in Request
  PROVE  LET row == RefundRow(q) IN
         /\ row \in Refund
         /\ row.exists /\ ~ row.isPaid
         /\ row.amount \in Nat /\ row.deductions \in Int
         /\ row.amount + row.deductions = Deposit
<1>1. q.owed \in Int /\ q.final \in Nat /\ Deposit \in Nat /\ q.deduct \in BOOLEAN
  BY LeasesAssumption DEF Request
<1> DEFINE kept == IF ~ q.deduct THEN 0
                   ELSE IF TotalDeductions(q) < Deposit THEN TotalDeductions(q) ELSE Deposit
<1>2. kept \in Int /\ kept <= Deposit
  BY <1>1 DEF TotalDeductions
<1>3. RefundRow(q) = [exists |-> TRUE, amount |-> Deposit - kept, deductions |-> kept,
                      isPaid |-> FALSE]
  BY DEF RefundRow
<1> HIDE DEF kept
<1>4. Deposit - kept \in Nat /\ Deposit - kept + kept = Deposit
  BY <1>1, <1>2
<1> QED
  BY <1>2, <1>3, <1>4 DEF Refund

LEMMA EndWriteKeepsInv ==
  ASSUME IInv, NEW r \in Requests, EndWrite(r)
  PROVE  IInv'
<1> DEFINE q == req[r]
           l == req[r].id
<1>1. q \in Request /\ l \in Leases
  BY DEF IInv, TypeOK, RequestInv, EndWrite, At, LeasePcs
<1>2. CASE ~ CanSettle(l)
  <2>1. UNCHANGED tables /\ Finish(r)
    BY <1>2 DEF EndWrite, tables
  <2> QED
    BY <2>1, FinishIsQuiet
<1>3. CASE CanSettle(l)
  <2>1. /\ status' = [status EXCEPT ![l] = "TERMINATED"]
        /\ open' \in [Leases -> SUBSET Totals] /\ unpaid' \in [Leases -> Int]
        /\ refund' = [refund EXCEPT ![l] = RefundRow(q)]
        /\ UNCHANGED <<archived, roomArchived, tenantActive>>
    BY <1>3 DEF EndWrite, CloseInvoices, IInv, TypeOK
  <2>2. /\ RefundRow(q) \in Refund
        /\ RefundRow(q).exists
        /\ RefundRow(q).amount + RefundRow(q).deductions = Deposit
    BY <1>1, RefundRowSplits
  <2>3. KeepsNone
    BY <1>3, <2>1 DEF KeepsNone, CanSettle, Exists, AgreementStatus, IInv, TypeOK
  <2>4. req' \in [Requests -> Request] /\ RequestInv'
    BY <2>3, FinishKeepsInv DEF EndWrite
  <2>5. TypeOK'
    BY <2>1, <2>2, <2>4 DEF IInv, TypeOK, AgreementStatus
  <2>6. LeaseInv'
    BY <1>1, <1>3, <2>1, <2>2
    DEF IInv, TypeOK, LeaseInv, CanSettle, Exists, AgreementStatus
  <2>7. RefundInv'
    BY <1>1, <2>1, <2>2 DEF IInv, TypeOK, RefundInv
  <2> QED
    BY <2>4, <2>5, <2>6, <2>7 DEF IInv
<1> QED
  BY <1>2, <1>3

LEMMA RefundWriteKeepsInv ==
  ASSUME IInv, NEW r \in Requests, RefundWrite(r)
  PROVE  IInv'
<1> DEFINE l == req[r].id
<1>1. l \in Leases
  BY DEF IInv, RequestInv, RefundWrite, At, LeasePcs
<1>2. CASE ~ refund[l].exists
  <2>1. UNCHANGED tables /\ Finish(r)
    BY <1>2 DEF RefundWrite, tables
  <2> QED
    BY <2>1, FinishIsQuiet
<1>3. CASE refund[l].exists
  <2>1. refund' = [refund EXCEPT ![l].isPaid = TRUE]
    BY <1>3 DEF RefundWrite
  <2>2. /\ refund' \in [Leases -> Refund]
        /\ \A k \in Leases : /\ refund'[k].exists = refund[k].exists
                             /\ refund'[k].amount = refund[k].amount
                             /\ refund'[k].deductions = refund[k].deductions
                             /\ ~ refund[k].exists => refund'[k] = refund[k]
    BY <1>3, <2>1 DEF IInv, TypeOK, Refund
  <2>3. KeepsNone
    BY DEF KeepsNone, RefundWrite
  <2>4. req' \in [Requests -> Request] /\ RequestInv'
    BY <2>3, FinishKeepsInv DEF RefundWrite
  <2>5. LeaseInv' /\ RefundInv'
    BY <2>2 DEF IInv, LeaseInv, RefundInv, RefundWrite, Exists
  <2> QED
    BY <2>2, <2>4, <2>5 DEF IInv, TypeOK, RefundWrite
<1> QED
  BY <1>2, <1>3

LEMMA DeleteWriteKeepsInv ==
  ASSUME IInv, NEW r \in Requests, DeleteWrite(r)
  PROVE  IInv'
<1>1. KeepsNone
  BY DEF KeepsNone, DeleteWrite
<1>2. req' \in [Requests -> Request] /\ RequestInv'
  BY <1>1, FinishKeepsInv DEF DeleteWrite
<1>3. LeaseInv' /\ RefundInv'
  BY DEF IInv, TypeOK, LeaseInv, RefundInv, DeleteWrite, Exists
<1> QED
  BY <1>2, <1>3 DEF IInv, TypeOK, DeleteWrite

\* The steps of one statement leave every request as it is.
LEMMA PermanentDeleteKeepsInv ==
  ASSUME IInv, NEW r \in Requests, NEW l \in Leases, PermanentDelete(r, l)
  PROVE  IInv'
<1>1. Exists(l)
  BY DEF PermanentDelete
<1>2. /\ status' = [status EXCEPT ![l] = "deleted"]
      /\ archived' = [archived EXCEPT ![l] = FALSE]
      /\ open' \in [Leases -> SUBSET Totals] /\ unpaid' \in [Leases -> Int]
      /\ refund' = [refund EXCEPT ![l] = NoRefund]
      /\ UNCHANGED <<roomArchived, tenantActive, req>>
  BY DEF PermanentDelete, CloseInvoices, IInv, TypeOK
<1>3. TypeOK'
  BY <1>2 DEF IInv, TypeOK, NoRefund, Refund
<1>4. RequestInv'
  BY <1>1, <1>2
  DEF IInv, TypeOK, RequestInv, Creates, LeasePcs, Exists, AgreementStatus
<1>5. LeaseInv'
  BY <1>2 DEF IInv, TypeOK, LeaseInv, Exists, AgreementStatus, NoRefund
<1>6. RefundInv'
  BY <1>2 DEF IInv, TypeOK, RefundInv, NoRefund
<1> QED
  BY <1>3, <1>4, <1>5, <1>6 DEF IInv

LEMMA MarkExpiredKeepsInv ==
  ASSUME IInv, NEW r \in Requests, NEW S \in SUBSET Leases, MarkExpired(r, S)
  PROVE  IInv'
<1>1. /\ status' \in [Leases -> AgreementStatus \cup {"none", "deleted"}]
      /\ \A l \in Leases : Exists(l) <=> Exists(l)'
      /\ \A l \in Leases : status'[l] = "TERMINATED" => status[l] = "TERMINATED"
      /\ \A l \in Leases : status[l] = "none" => status'[l] = "none"
  BY DEF MarkExpired, IInv, TypeOK, Exists, AgreementStatus
<1>2. LeaseInv' /\ RefundInv'
  BY <1>1, StatusWriteKeepsLeases DEF MarkExpired
<1>3. RequestInv'
  BY <1>1 DEF MarkExpired, IInv, RequestInv, Creates, LeasePcs
<1> QED
  BY <1>1, <1>2, <1>3 DEF IInv, TypeOK, MarkExpired

\* The invoices of an agreement come, grow and go.
InvoiceStep(r) ==
  \/ \E l \in Leases, total \in Totals : Bill(r, l, total) \/ Pay(r, l, total)
  \/ \E l \in Leases, old, new \in Totals : AddLateFee(r, l, old, new)

LEMMA InvoiceStepIsTyped ==
  ASSUME IInv, NEW r \in Requests, InvoiceStep(r)
  PROVE  /\ open' \in [Leases -> SUBSET Totals] /\ unpaid' \in [Leases -> Int]
         /\ UNCHANGED <<status, archived, refund, roomArchived, tenantActive, req>>
<1>1. Totals \subseteq Int
  BY LeasesAssumption
<1> QED
  BY <1>1 DEF InvoiceStep, Bill, Pay, AddLateFee, IInv, TypeOK

LEMMA FlagStepKeepsInv ==
  ASSUME IInv, NEW r \in Requests,
         \/ \E l \in Leases : RestoreLease(r, l)
         \/ InvoiceStep(r)
         \/ \E o \in Rooms : RestoreRoom(r, o)
         \/ \E t \in Tenants : RestoreTenant(r, t)
  PROVE  IInv'
<1>1. CASE InvoiceStep(r)
  BY <1>1, InvoiceStepIsTyped
  DEF IInv, TypeOK, RequestInv, LeaseInv, RefundInv, Creates, Exists
<1>2. CASE ~ InvoiceStep(r)
  <2>1. UNCHANGED <<status, open, unpaid, refund, req>>
    BY <1>2 DEF RestoreLease, RestoreRoom, RestoreTenant
  <2>2. /\ archived' \in [Leases -> BOOLEAN]
        /\ \A l \in Leases : archived'[l] => archived[l]
        /\ roomArchived' \in [Rooms -> BOOLEAN]
        /\ tenantActive' \in [Tenants -> BOOLEAN]
    BY <1>2 DEF IInv, TypeOK, RestoreLease, RestoreRoom, RestoreTenant
  <2> QED
    BY <2>1, <2>2
    DEF IInv, TypeOK, RequestInv, LeaseInv, RefundInv, Creates, Exists
<1> QED
  BY <1>1, <1>2

LEMMA ArchiveWriteKeepsInv ==
  ASSUME IInv, NEW r \in Requests, RoomWrite(r) \/ TenantWrite(r)
  PROVE  IInv'
<1>1. KeepsNone
  BY DEF KeepsNone, RoomWrite, TenantWrite
<1>2. req' \in [Requests -> Request] /\ RequestInv'
  BY <1>1, FinishKeepsInv DEF RoomWrite, TenantWrite
<1> QED
  BY <1>2 DEF IInv, TypeOK, LeaseInv, RefundInv, Exists, RoomWrite, TenantWrite

-----------------------------------------------------------------------------
LEMMA ArriveKeepsInv ==
  ASSUME IInv, NEW r \in Requests, Arrive(r)
  PROVE  IInv'
<1> USE DEF Pcs, LeasePcs, CreatePcs
<1>1. ASSUME NEW l \in Leases, CreateCheckLimit(r, l) PROVE IInv'
  BY <1>1, StartIsQuiet DEF CreateCheckLimit
<1>2. ASSUME NEW l \in Leases, ReadDraft(r, l) PROVE IInv'
  BY <1>2, StartIsQuiet DEF ReadDraft
<1>3. ASSUME NEW l \in Leases, LeaveReadLease(r, l) PROVE IInv'
  BY <1>3, StartIsQuiet DEF LeaveReadLease
<1>4. ASSUME NEW l \in Leases, NEW exitDay \in 1..DaysInMonth, NEW deduct \in BOOLEAN,
             EndReadLease(r, l, exitDay, deduct)
      PROVE  IInv'
  <2> DEFINE q == [Idle EXCEPT !.pc = "endInvoices", !.id = l,
                               !.final = FinalInvoiceAmount(l, exitDay), !.deduct = deduct]
  <2>1. q \in Request /\ q.pc = "endInvoices" /\ q.id = l
    BY IdleTyped, FinalIsTyped DEF Idle, Request
  <2>2. UNCHANGED tables /\ req' = [req EXCEPT ![r] = q]
    BY <1>4 DEF EndReadLease
  <2>3. RequestStep(r, q)
    BY <2>1, <2>2 DEF RequestStep, tables, IInv, RequestInv
  <2> QED
    BY <2>1, <2>2, <2>3, QuietKeepsInv
<1>5. ASSUME NEW l \in Leases, RefundRead(r, l) PROVE IInv'
  BY <1>5, StartIsQuiet DEF RefundRead
<1>6. ASSUME NEW l \in Leases, DeleteRead(r, l) PROVE IInv'
  BY <1>6, StartIsQuiet DEF DeleteRead
<1>7. ASSUME NEW o \in Rooms, RoomRead(r, o) PROVE IInv'
  BY <1>7, OtherStartIsQuiet DEF RoomRead
<1>8. ASSUME NEW t \in Tenants, TenantRead(r, t) PROVE IInv'
  BY <1>8, OtherStartIsQuiet DEF TenantRead
<1> QED
  BY <1>1, <1>2, <1>3, <1>4, <1>5, <1>6, <1>7, <1>8,
     PermanentDeleteKeepsInv, MarkExpiredKeepsInv, FlagStepKeepsInv
  DEF InvoiceStep, Arrive, AgreementRoutes, Activate, AcceptInvitation

LEMMA AdvanceKeepsInv ==
  ASSUME IInv, NEW r \in Requests, Advance(r)
  PROVE  IInv'
<1> USE DEF At, LeasePcs, CreatePcs
<1>1. CASE CreateCheckTenant(r)
  BY <1>1, CheckIsQuiet DEF CreateCheckTenant, Check
<1>2. CASE CreateCheckRoom(r)
  BY <1>2, CheckIsQuiet DEF CreateCheckRoom, Check
<1>3. CASE CreateCheckCapacity(r)
  BY <1>3, CheckIsQuiet DEF CreateCheckCapacity, Check
<1>4. CASE CreateInsert(r)
  BY <1>4, CreateInsertKeepsInv
<1>5. CASE ActivateWrite(r)
  BY <1>5, SetStatusKeepsInv DEF ActivateWrite, IInv, RequestInv, AgreementStatus
<1>6. CASE LeaveReadInvoices(r)
  BY <1>6, CheckIsQuiet DEF LeaveReadInvoices, Check
<1>7. CASE LeaveWrite(r)
  BY <1>7, SetStatusKeepsInv DEF LeaveWrite, IInv, RequestInv, AgreementStatus
<1>8. CASE EndReadInvoices(r)
  <2> DEFINE q == [req[r] EXCEPT !.pc = "endWrite", !.owed = unpaid[req[r].id]]
  <2>1. req[r].id \in Leases /\ req[r] \in Request /\ unpaid[req[r].id] \in Int
    BY <1>8 DEF EndReadInvoices, IInv, TypeOK, RequestInv
  <2>2. q \in Request /\ q.pc = "endWrite" /\ q.id = req[r].id
    BY <2>1 DEF Request, Pcs
  <2>3. UNCHANGED tables /\ req' = [req EXCEPT ![r] = q]
    BY <1>8 DEF EndReadInvoices
  <2>4. RequestStep(r, q)
    BY <2>1, <2>2, <2>3 DEF RequestStep, tables, IInv, RequestInv
  <2> QED
    BY <2>2, <2>3, <2>4, QuietKeepsInv
<1>9. CASE EndWrite(r)
  BY <1>9, EndWriteKeepsInv
<1>10. CASE RefundWrite(r)
  BY <1>10, RefundWriteKeepsInv
<1>11. CASE DeleteWrite(r)
  BY <1>11, DeleteWriteKeepsInv
<1>12. CASE RoomWrite(r) \/ TenantWrite(r)
  BY <1>12, ArchiveWriteKeepsInv
<1> QED
  BY <1>1, <1>2, <1>3, <1>4, <1>5, <1>6, <1>7, <1>8, <1>9, <1>10, <1>11, <1>12
  DEF Advance

LEMMA NextKeepsInv == IInv /\ [Next]_vars => IInv'
<1> SUFFICES ASSUME IInv, [Next]_vars PROVE IInv'
  OBVIOUS
<1>1. CASE UNCHANGED vars
  BY <1>1, StutterKeepsInv
<1>2. ASSUME NEW r \in Requests, Abort(r) PROVE IInv'
  BY <1>2, FinishIsQuiet DEF Abort
<1> QED
  BY <1>1, <1>2, ArriveKeepsInv, AdvanceKeepsInv DEF Next

LEMMA InvAlways == Spec => []IInv
  BY InitInv, NextKeepsInv, PTL DEF Spec

\* However many requests and agreements there are, every table and every
\* request record of AgreementsService stays well typed, whatever the totals of
\* the invoices; in particular no refund of terminate is ever negative.
THEOREM TypeCorrect == Spec => []TypeOK
<1>1. IInv => TypeOK
  BY DEF IInv
<1> QED
  BY <1>1, InvAlways, PTL

\* However requests interleave, no agreement is TERMINATED without the record
\* of its deposit refund: terminate writes both or neither.
THEOREM TerminationIsRecorded == Spec => []TerminatedHasRefund
<1>1. IInv => TerminatedHasRefund
  BY DEF IInv, LeaseInv, TerminatedHasRefund
<1> QED
  BY <1>1, InvAlways, PTL

-----------------------------------------------------------------------------
(* Leases implements Deposits. *)

Accounts == [l \in Leases |-> Account(l)]

LEMMA InitAccounts == Init => D!Init
  BY DEF Init, D!Init, D!Held, Account, NoRefund

\* Deposits see nothing of a step that neither touches a refund nor deletes.
LEMMA HiddenStep ==
  ASSUME UNCHANGED refund,
         \A l \in Leases : (status[l] = "deleted") <=> (status'[l] = "deleted")
  PROVE  UNCHANGED Accounts
  BY DEF Accounts, Account

LEMMA EndWriteSplits ==
  ASSUME IInv, NEW r \in Requests, EndWrite(r)
  PROVE  [D!Next]_Accounts
<1>1. PICK q \in Request, l \in Leases : q = req[r] /\ l = req[r].id
  BY DEF IInv, TypeOK, RequestInv, EndWrite, At, LeasePcs
<1> DEFINE share == [phase |-> "split", amount |-> RefundRow(q).amount,
                    deductions |-> RefundRow(q).deductions]
<1>2. CASE ~ CanSettle(l)
  BY <1>1, <1>2, HiddenStep DEF EndWrite
<1>3. CASE CanSettle(l)
  <2>1. /\ status' = [status EXCEPT ![l] = "TERMINATED"]
        /\ refund' = [refund EXCEPT ![l] = RefundRow(q)]
    BY <1>1, <1>3 DEF EndWrite
  <2>2. /\ RefundRow(q).exists /\ ~ RefundRow(q).isPaid
        /\ share \in D!Share /\ share.amount + share.deductions = Deposit
    BY <1>1, RefundRowSplits DEF D!Share
  <2>3. status[l] # "deleted" /\ ~ refund[l].exists
    BY <1>3 DEF CanSettle, Exists, AgreementStatus
  <2>4. Accounts[l].phase = "held"
    BY <1>1, <2>3 DEF Accounts, Account
  <2>5. Accounts' = [Accounts EXCEPT ![l] = share] /\ Accounts'[l] = share
    <3>1. Account(l)' = share
      BY <1>1, <2>1, <2>2 DEF Account, IInv, TypeOK
    <3>2. \A k \in Leases \ {l} : Account(k)' = Account(k)
      BY <2>1 DEF Account, IInv, TypeOK
    <3> QED
      BY <1>1, <3>1, <3>2 DEF Accounts
  <2> HIDE DEF share
  <2> QED
    BY <1>1, <2>2, <2>4, <2>5 DEF D!Next, D!Split, Accounts
<1> QED
  BY <1>2, <1>3

LEMMA RefundWriteRepays ==
  ASSUME IInv, NEW r \in Requests, RefundWrite(r)
  PROVE  [D!Next]_Accounts
<1>1. PICK l \in Leases : l = req[r].id
  BY DEF IInv, RequestInv, RefundWrite, At, LeasePcs
<1>2. CASE ~ refund[l].exists \/ refund[l].isPaid
  <2>1. refund' = refund
    <3>1. refund[l] \in Refund
      BY DEF IInv, TypeOK
    <3>2. refund[l].isPaid => [refund[l] EXCEPT !.isPaid = TRUE] = refund[l]
      BY <3>1 DEF Refund
    <3> QED
      BY <1>1, <1>2, <3>2 DEF RefundWrite, IInv, TypeOK
  <2> QED
    BY <2>1, HiddenStep DEF RefundWrite
<1>3. CASE refund[l].exists /\ ~ refund[l].isPaid
  <2>1. refund' = [refund EXCEPT ![l].isPaid = TRUE] /\ status' = status
    BY <1>1, <1>3 DEF RefundWrite
  <2>2. status[l] # "deleted"
    BY <1>1, <1>3 DEF IInv, LeaseInv, Exists, AgreementStatus
  <2>3. Accounts[l].phase = "split"
    BY <1>1, <1>3, <2>2 DEF Accounts, Account
  <2>4. Accounts' = [Accounts EXCEPT ![l].phase = "repaid"]
    <3>1. Account(l)' = [Account(l) EXCEPT !.phase = "repaid"]
      BY <1>1, <1>3, <2>1, <2>2 DEF Account, IInv, TypeOK, Refund
    <3>2. \A k \in Leases \ {l} : Account(k)' = Account(k)
      BY <2>1 DEF Account, IInv, TypeOK
    <3> QED
      BY <1>1, <3>1, <3>2 DEF Accounts
  <2> QED
    BY <1>1, <2>3, <2>4 DEF D!Next, D!Repay, Accounts
<1> QED
  BY <1>2, <1>3

LEMMA PermanentDeleteCloses ==
  ASSUME IInv, NEW r \in Requests, NEW l \in Leases, PermanentDelete(r, l)
  PROVE  [D!Next]_Accounts
<1>1. status[l] # "deleted"
  BY DEF PermanentDelete, Exists, AgreementStatus
<1>2. Accounts[l].phase # "closed"
  BY <1>1 DEF Accounts, Account
<1>3. Accounts' = [Accounts EXCEPT ![l] = D!Closed]
  <2>1. Account(l)' = D!Closed
    BY DEF PermanentDelete, IInv, TypeOK, Account, D!Closed, D!Held, NoRefund
  <2>2. \A k \in Leases \ {l} : Account(k)' = Account(k)
    BY DEF PermanentDelete, IInv, TypeOK, Account
  <2> QED
    BY <2>1, <2>2 DEF Accounts
<1> QED
  BY <1>2, <1>3 DEF D!Next, D!Close, Accounts

LEMMA SetStatusIsHidden ==
  ASSUME IInv, NEW r \in Requests, NEW s \in AgreementStatus, SetStatus(r, s)
  PROVE  UNCHANGED Accounts
<1>1. \A l \in Leases : (status[l] = "deleted") <=> (status'[l] = "deleted")
  BY DEF SetStatus, IInv, TypeOK, Exists, AgreementStatus
<1> QED
  BY <1>1, HiddenStep DEF SetStatus

LEMMA NextImplementsDeposits == IInv /\ [Next]_vars => [D!Next]_Accounts
<1> SUFFICES ASSUME IInv, [Next]_vars PROVE [D!Next]_Accounts
  OBVIOUS
<1>1. CASE UNCHANGED <<status, refund>>
  BY <1>1, HiddenStep
<1>2. ASSUME NEW r \in Requests, Arrive(r) PROVE [D!Next]_Accounts
  <2>1. ASSUME NEW S \in SUBSET Leases, MarkExpired(r, S) PROVE UNCHANGED Accounts
    BY <2>1, HiddenStep DEF MarkExpired
  <2>2. CASE ~ UNCHANGED <<status, refund>>
    <3>1. \/ \E l \in Leases : PermanentDelete(r, l)
          \/ \E S \in SUBSET Leases : MarkExpired(r, S)
      BY <1>2, <2>2
      DEF Arrive, AgreementRoutes, tables, CreateCheckLimit, Activate, AcceptInvitation, ReadDraft,
          LeaveReadLease, EndReadLease, RefundRead, DeleteRead, RestoreLease, Bill, Pay,
          AddLateFee, RoomRead, RestoreRoom, TenantRead, RestoreTenant
    <3> QED
      BY <2>1, <3>1, PermanentDeleteCloses
  <2> QED
    BY <1>1, <2>2
<1>3. ASSUME NEW r \in Requests, Advance(r) PROVE [D!Next]_Accounts
  <2>1. CASE CreateInsert(r)
    <3>1. req[r].id \in Leases /\ status[req[r].id] = "none"
      BY <2>1 DEF IInv, RequestInv, CreateInsert, At, LeasePcs, CreatePcs
    <3>2. \A l \in Leases : (status[l] = "deleted") <=> (status'[l] = "deleted")
      BY <2>1, <3>1 DEF CreateInsert, IInv, TypeOK
    <3> QED
      BY <2>1, <3>2, HiddenStep DEF CreateInsert
  <2>2. CASE ActivateWrite(r) \/ LeaveWrite(r)
    BY <2>2, SetStatusIsHidden DEF ActivateWrite, LeaveWrite, AgreementStatus
  <2>3. CASE ~ (CreateInsert(r) \/ ActivateWrite(r) \/ LeaveWrite(r)
                  \/ EndWrite(r) \/ RefundWrite(r))
    BY <1>1, <1>3, <2>3
    DEF Advance, tables, CreateCheckTenant, CreateCheckRoom, CreateCheckCapacity,
        LeaveReadInvoices, EndReadInvoices, DeleteWrite, RoomWrite, TenantWrite
  <2> QED
    BY <2>1, <2>2, <2>3, EndWriteSplits, RefundWriteRepays
<1>4. ASSUME NEW r \in Requests, Abort(r) PROVE [D!Next]_Accounts
  BY <1>1, <1>4 DEF Abort, tables
<1>5. CASE UNCHANGED vars
  BY <1>1, <1>5 DEF vars, tables
<1> QED
  BY <1>2, <1>3, <1>4, <1>5 DEF Next

\* Leases implements Deposits: however terminations, payments of refunds and
\* deletions overlap, each deposit is split once into deductions and a refund
\* that add up to it, and the split never changes (terminate, markRefundPaid, permanentDelete).
THEOREM DepositsImplemented == Spec => DepositIsSplitOnce
<1>1. Init => D!Init
  BY InitAccounts
<1>2. IInv /\ [Next]_vars => [D!Next]_Accounts
  BY NextImplementsDeposits
<1> QED
  BY <1>1, <1>2, InvAlways, PTL DEF Spec, DepositIsSplitOnce, D!Spec, Accounts

-----------------------------------------------------------------------------
(* A termination that nothing can overwrite. *)

\* Who starts to write a status of an agreement found it not terminated.
LEMMA ArriveLeavesEnded ==
  ASSUME IInv, NEW r \in Requests, Arrive(r), NEW l \in Leases, Ended(l)
  PROVE  Ended(l)' \/ status'[l] = "deleted"
<1> USE DEF Ended, MayRevive
<1>1. ASSUME NEW id, NEW pc, Start(r, pc, id), UNCHANGED tables,
             pc \in MayRevive => id # l
      PROVE  Ended(l)'
  BY <1>1 DEF Start, tables, IInv, TypeOK, Idle, Request
<1>2. ASSUME NEW k \in Leases, ReadDraft(r, k) PROVE Ended(l)'
  BY <1>1, <1>2 DEF ReadDraft
<1>3. ASSUME NEW k \in Leases, LeaveReadLease(r, k) PROVE Ended(l)'
  BY <1>1, <1>3 DEF LeaveReadLease
<1>4. ASSUME NEW k \in Leases, NEW exitDay, NEW deduct, EndReadLease(r, k, exitDay, deduct)
      PROVE  Ended(l)'
  BY <1>4 DEF EndReadLease, tables, IInv, TypeOK, Idle, Request
<1>5. ASSUME NEW k \in Leases, CreateCheckLimit(r, k) \/ RefundRead(r, k) \/ DeleteRead(r, k)
      PROVE  Ended(l)'
  BY <1>1, <1>5 DEF CreateCheckLimit, RefundRead, DeleteRead
<1>6. ASSUME \/ \E o \in Rooms : RoomRead(r, o)
             \/ \E t \in Tenants : TenantRead(r, t)
      PROVE  Ended(l)'
  BY <1>1, <1>6 DEF RoomRead, TenantRead
<1>7. ASSUME NEW k \in Leases, PermanentDelete(r, k) PROVE Ended(l)' \/ status'[l] = "deleted"
  BY <1>7 DEF PermanentDelete, IInv, TypeOK
<1>8. ASSUME NEW S \in SUBSET Leases, MarkExpired(r, S) PROVE Ended(l)'
  BY <1>8 DEF MarkExpired
<1>9. ASSUME UNCHANGED <<status, req>> PROVE Ended(l)'
  BY <1>9
<1> QED
  BY <1>2, <1>3, <1>4, <1>5, <1>6, <1>7, <1>8, <1>9
  DEF Arrive, AgreementRoutes, Activate, AcceptInvitation, RestoreLease, RestoreRoom,
      RestoreTenant, Bill, Pay, AddLateFee

\* Who writes a status is either not at l or not at all a threat to it.
LEMMA AdvanceLeavesEnded ==
  ASSUME IInv, NEW r \in Requests, Advance(r), NEW l \in Leases, Ended(l)
  PROVE  Ended(l)'
<1> USE DEF Ended, MayRevive, At
<1>1. ASSUME status'[l] = "TERMINATED", Finish(r) PROVE Ended(l)'
  BY <1>1 DEF Finish, Idle, IInv, TypeOK, Request
<1>2. ASSUME status'[l] = "TERMINATED", NEW pc, Goto(r, pc),
             pc = "leaveWrite" => req[r].pc = "leaveInvoices",
             pc \notin {"activateWrite", "leaveInvoices"}
      PROVE  Ended(l)'
  BY <1>2 DEF Goto, IInv, TypeOK, Request
<1>3. CASE UNCHANGED tables
  <2>1. status'[l] = "TERMINATED"
    BY <1>3 DEF tables
  <2>2. CASE EndReadInvoices(r)
    BY <2>1, <2>2 DEF EndReadInvoices, IInv, TypeOK, Request
  <2> QED
    BY <1>1, <1>2, <2>1, <2>2
    DEF Advance, CreateCheckTenant, CreateCheckRoom, CreateCheckCapacity, Check, CreateInsert,
        ActivateWrite, LeaveReadInvoices, LeaveWrite, SetStatus, EndWrite, RefundWrite,
        DeleteWrite, RoomWrite, TenantWrite
<1>4. CASE CreateInsert(r)
  <2>1. req[r].id \in Leases /\ status[req[r].id] = "none"
    BY <1>4 DEF IInv, RequestInv, CreateInsert, LeasePcs, CreatePcs
  <2> QED
    BY <1>1, <1>4, <2>1 DEF CreateInsert, IInv, TypeOK
<1>5. CASE ActivateWrite(r) \/ LeaveWrite(r)
  <2>1. req[r].id # l
    BY <1>5 DEF ActivateWrite, LeaveWrite
  <2> QED
    BY <1>1, <1>5, <2>1 DEF ActivateWrite, LeaveWrite, SetStatus, IInv, TypeOK
<1>6. CASE EndWrite(r)
  BY <1>1, <1>6 DEF EndWrite, IInv, TypeOK
<1>7. CASE RefundWrite(r) \/ DeleteWrite(r) \/ RoomWrite(r) \/ TenantWrite(r)
  BY <1>1, <1>7 DEF RefundWrite, DeleteWrite, RoomWrite, TenantWrite
<1> QED
  BY <1>3, <1>4, <1>5, <1>6, <1>7
  DEF Advance, CreateCheckTenant, CreateCheckRoom, CreateCheckCapacity, LeaveReadInvoices,
      EndReadInvoices

\* A termination is overwritten only by requests that had read the agreement
\* before it (activate, acceptInvitation, requestTermination write by id); once
\* they are over the agreement stays TERMINATED until it is deleted for good.
THEOREM TerminationLasts == Spec => TerminationIsFinal
<1>1. IInv /\ [Next]_vars =>
        [\A l \in Leases : Ended(l) => Ended(l)' \/ status'[l] = "deleted"]_vars
  <2> SUFFICES ASSUME IInv, Next, NEW l \in Leases, Ended(l)
               PROVE  Ended(l)' \/ status'[l] = "deleted"
    OBVIOUS
  <2>1. ASSUME NEW r \in Requests, Abort(r) PROVE Ended(l)'
    BY <2>1 DEF Abort, Finish, Idle, tables, Ended, MayRevive, IInv, TypeOK, Request
  <2> QED
    BY <2>1, ArriveLeavesEnded, AdvanceLeavesEnded DEF Next
<1> QED
  BY <1>1, InvAlways, PTL DEF Spec, TerminationIsFinal

-----------------------------------------------------------------------------
(* One request at a time: what it has read still holds when it writes. *)

\* What request r knows, at each point, of the agreement it works on.
Known(r) ==
  LET l == req[r].id
  IN  /\ At(r, "activateWrite") => status[l] = "DRAFT"
      /\ At(r, "leaveInvoices") => status[l] = "ACTIVE"
      /\ At(r, "leaveWrite") => status[l] = "ACTIVE"
      /\ At(r, "endInvoices") => status[l] \in LiveStatus
      /\ At(r, "endWrite") => status[l] \in LiveStatus /\ req[r].owed = unpaid[l]

\* Nothing takes an agreement out of TERMINATED but its deletion.
OnlyTerminatedIsSettled ==
  \A l \in Leases : refund[l].exists => status[l] = "TERMINATED"

Lone == (\A r \in Requests : Known(r)) /\ OnlyTerminatedIsSettled

LEMMA LoneInit == Init => Lone
  BY IdleTyped DEF Init, Lone, Known, At, OnlyTerminatedIsSettled, NoRefund

LEMMA NothingKnownWhenIdle ==
  ASSUME NEW r, req'[r].pc = "idle"
  PROVE  Known(r)'
  BY DEF Known, At

LEMMA FinishKnowsNothing ==
  ASSUME IInv, NEW r \in Requests, Finish(r)
  PROVE  Known(r)'
<1>1. req'[r].pc = "idle"
  BY IdleTyped DEF Finish, IInv, TypeOK
<1> QED
  BY <1>1, NothingKnownWhenIdle

LEMMA UnsettledStays ==
  ASSUME OnlyTerminatedIsSettled, UNCHANGED <<status, refund>>
  PROVE  OnlyTerminatedIsSettled'
  BY DEF OnlyTerminatedIsSettled

LEMMA LoneArrives ==
  ASSUME IInv, Lone, NEW w \in Requests, Arrive(w)
  PROVE  Known(w)' /\ OnlyTerminatedIsSettled'
<1> USE DEF At
<1>1. ASSUME NEW l \in Leases, NEW pc \in {"createTenant", "activateWrite", "leaveInvoices",
                                          "refundWrite", "deleteWrite"},
             Start(w, pc, l), UNCHANGED tables,
             pc = "activateWrite" => status[l] = "DRAFT",
             pc = "leaveInvoices" => status[l] = "ACTIVE"
      PROVE  Known(w)' /\ OnlyTerminatedIsSettled'
  <2>1. req'[w].pc = pc /\ req'[w].id = l
    BY <1>1 DEF Start, IInv, TypeOK, Idle
  <2> QED
    BY <1>1, <2>1, UnsettledStays DEF Known, Lone, tables
<1>2. ASSUME NEW id, NEW pc \in {"roomWrite", "tenantWrite"}, Start(w, pc, id), UNCHANGED tables
      PROVE  Known(w)' /\ OnlyTerminatedIsSettled'
  <2>1. req'[w].pc = pc
    BY <1>2 DEF Start, IInv, TypeOK, Idle
  <2> QED
    BY <1>2, <2>1, UnsettledStays DEF Known, Lone, tables
<1>3. ASSUME NEW l \in Leases, NEW exitDay, NEW deduct, EndReadLease(w, l, exitDay, deduct)
      PROVE  Known(w)' /\ OnlyTerminatedIsSettled'
  <2>1. req'[w].pc = "endInvoices" /\ req'[w].id = l
    BY <1>3 DEF EndReadLease, IInv, TypeOK, Idle
  <2> QED
    BY <1>3, <2>1, UnsettledStays DEF EndReadLease, Known, Lone, tables
<1>4. ASSUME req' = req, req[w].pc = "idle", OnlyTerminatedIsSettled'
      PROVE  Known(w)' /\ OnlyTerminatedIsSettled'
  BY <1>4, NothingKnownWhenIdle
<1>5. ASSUME (\E l \in Leases : RestoreLease(w, l)) \/ InvoiceStep(w)
      PROVE  Known(w)' /\ OnlyTerminatedIsSettled'
  BY <1>4, <1>5, UnsettledStays DEF Lone, RestoreLease, InvoiceStep, Bill, Pay, AddLateFee
<1>6. ASSUME NEW l \in Leases, PermanentDelete(w, l)
      PROVE  Known(w)' /\ OnlyTerminatedIsSettled'
  <2>1. OnlyTerminatedIsSettled'
    BY <1>6 DEF PermanentDelete, Lone, OnlyTerminatedIsSettled, IInv, TypeOK, NoRefund
  <2> QED
    BY <1>4, <1>6, <2>1 DEF PermanentDelete
<1>7. ASSUME \/ \E o \in Rooms : RestoreRoom(w, o)
             \/ \E t \in Tenants : RestoreTenant(w, t)
      PROVE  Known(w)' /\ OnlyTerminatedIsSettled'
  BY <1>4, <1>7, UnsettledStays DEF Lone, RestoreRoom, RestoreTenant
<1>8. ASSUME NEW S \in SUBSET Leases, MarkExpired(w, S)
      PROVE  Known(w)' /\ OnlyTerminatedIsSettled'
  <2>1. OnlyTerminatedIsSettled'
    BY <1>8 DEF MarkExpired, Lone, OnlyTerminatedIsSettled
  <2> QED
    BY <1>4, <1>8, <2>1 DEF MarkExpired
<1> QED
  BY <1>1, <1>2, <1>3, <1>5, <1>6, <1>7, <1>8
  DEF InvoiceStep, Arrive, AgreementRoutes, CreateCheckLimit, Activate, AcceptInvitation, ReadDraft,
      LeaveReadLease, RefundRead, DeleteRead, RoomRead, TenantRead

LEMMA LoneAdvances ==
  ASSUME IInv, Lone, NEW w \in Requests, Advance(w)
  PROVE  Known(w)' /\ OnlyTerminatedIsSettled'
<1> USE DEF At
<1>1. Known(w) /\ OnlyTerminatedIsSettled
  BY DEF Lone
<1>2. CASE UNCHANGED tables
  <2>1. OnlyTerminatedIsSettled'
    BY <1>1, <1>2, UnsettledStays DEF tables
  <2>2. ASSUME NEW pc \in {"createRoom", "createCapacity", "createInsert"}, Goto(w, pc)
        PROVE  Known(w)'
    <3>1. req'[w].pc = pc
      BY <2>2 DEF Goto, IInv, TypeOK, Request
    <3> QED
      BY <3>1 DEF Known
  <2>3. CASE LeaveReadInvoices(w)
    <3>1. CASE Goto(w, "leaveWrite")
      <4>1. req'[w].pc = "leaveWrite" /\ req'[w].id = req[w].id
        BY <3>1 DEF Goto, IInv, TypeOK, Request
      <4> QED
        BY <1>1, <1>2, <2>1, <2>3, <4>1 DEF Known, LeaveReadInvoices, tables
    <3>2. CASE Finish(w)
      BY <2>1, <3>2, FinishKnowsNothing
    <3> QED
      BY <2>3, <3>1, <3>2 DEF LeaveReadInvoices, Check
  <2>4. CASE EndReadInvoices(w)
    <3>1. /\ req'[w].pc = "endWrite" /\ req'[w].id = req[w].id
          /\ req'[w].owed = unpaid[req[w].id]
      BY <2>4 DEF EndReadInvoices, IInv, TypeOK, Request
    <3> QED
      BY <1>1, <1>2, <2>1, <2>4, <3>1 DEF Known, EndReadInvoices, tables
  <2> QED
    BY <2>1, <2>2, <2>3, <2>4, FinishKnowsNothing
    DEF Advance, CreateCheckTenant, CreateCheckRoom, CreateCheckCapacity, Check, CreateInsert,
        ActivateWrite, LeaveWrite, SetStatus, EndWrite, RefundWrite, DeleteWrite, RoomWrite,
        TenantWrite
<1>3. ASSUME Finish(w), OnlyTerminatedIsSettled' PROVE Known(w)' /\ OnlyTerminatedIsSettled'
  BY <1>3, FinishKnowsNothing
<1>4. PICK l : l = req[w].id
  OBVIOUS
<1>5. CASE CreateInsert(w)
  <2>1. l \in Leases /\ status[l] = "none"
    BY <1>4, <1>5 DEF IInv, RequestInv, CreateInsert, LeasePcs, CreatePcs
  <2>2. OnlyTerminatedIsSettled'
    BY <1>1, <1>4, <1>5, <2>1 DEF CreateInsert, OnlyTerminatedIsSettled, IInv, TypeOK
  <2> QED
    BY <1>3, <1>5, <2>2 DEF CreateInsert
<1>6. CASE ActivateWrite(w) \/ LeaveWrite(w)
  <2>1. l \in Leases /\ status[l] # "TERMINATED"
    BY <1>1, <1>4, <1>6 DEF IInv, RequestInv, ActivateWrite, LeaveWrite, LeasePcs, Known
  <2>2. OnlyTerminatedIsSettled'
    BY <1>1, <1>4, <1>6, <2>1
    DEF ActivateWrite, LeaveWrite, SetStatus, OnlyTerminatedIsSettled, IInv, TypeOK
  <2> QED
    BY <1>3, <1>6, <2>2 DEF ActivateWrite, LeaveWrite, SetStatus
<1>7. CASE EndWrite(w)
  <2>1. l \in Leases
    BY <1>4, <1>7 DEF IInv, RequestInv, EndWrite, LeasePcs
  <2>2. OnlyTerminatedIsSettled'
    BY <1>1, <1>4, <1>7, <2>1 DEF EndWrite, OnlyTerminatedIsSettled, IInv, TypeOK
  <2> QED
    BY <1>3, <1>7, <2>2 DEF EndWrite
<1>8. CASE RefundWrite(w)
  <2>1. /\ status' = status
        /\ \A k \in Leases : refund'[k].exists = refund[k].exists
    BY <1>8 DEF RefundWrite, IInv, TypeOK, Refund
  <2> QED
    BY <1>1, <1>3, <1>8, <2>1 DEF RefundWrite, OnlyTerminatedIsSettled
<1>9. CASE DeleteWrite(w) \/ RoomWrite(w) \/ TenantWrite(w)
  BY <1>1, <1>3, <1>9, UnsettledStays DEF DeleteWrite, RoomWrite, TenantWrite
<1> QED
  BY <1>2, <1>5, <1>6, <1>7, <1>8, <1>9
  DEF Advance, CreateCheckTenant, CreateCheckRoom, CreateCheckCapacity, LeaveReadInvoices,
      EndReadInvoices

LEMMA LoneNext ==
  ASSUME NEW CONSTANT w, Requests = {w}
  PROVE  IInv /\ Lone /\ [Next]_vars => Lone'
<1> SUFFICES ASSUME IInv, Lone, [Next]_vars PROVE Known(w)' /\ OnlyTerminatedIsSettled'
  BY DEF Lone
<1>1. CASE UNCHANGED vars
  BY <1>1, UnsettledStays DEF vars, tables, Lone, Known, At
<1>2. CASE Abort(w)
  BY <1>2, FinishKnowsNothing, UnsettledStays DEF Abort, tables, Lone
<1> QED
  BY <1>1, <1>2, LoneArrives, LoneAdvances DEF Next

LEMMA KnownIsOffset ==
  ASSUME IInv, Lone, NEW r \in Requests, NEW exitDay \in 1..DaysInMonth
  PROVE  OffsetsAsShown(r, exitDay)
<1>1. PICK q, l : q = req[r] /\ l = q.id
  OBVIOUS
<1> DEFINE shown == Preview(l, exitDay).final
           cost  == Preview(l, exitDay).outstanding + shown
<1> SUFFICES ASSUME EndWrite(r), CanSettle(l), q.deduct, q.final = FinalInvoiceAmount(l, exitDay)
             PROVE  /\ AnswersLandlord(l)
                    /\ open'[l] = {}
                    /\ refund'[l].deductions >= Covered(cost)
                    /\ StartDay[l] < 1 => refund'[l].deductions = Covered(cost)
  BY <1>1 DEF OffsetsAsShown
<1>2. q \in Request /\ l \in Leases /\ q.owed = unpaid[l] /\ unpaid[l] \in Int
  BY <1>1 DEF IInv, TypeOK, RequestInv, EndWrite, At, LeasePcs, Lone, Known
<1>3. open'[l] = {} /\ refund'[l] = RefundRow(q)
  BY <1>1, <1>2 DEF EndWrite, CloseInvoices, IInv, TypeOK
<1>4. refund'[l].deductions = Covered(unpaid[l] + q.final)
  BY <1>2, <1>3 DEF RefundRow, Covered, TotalDeductions
<1>5. /\ shown \in Nat /\ q.final \in Nat /\ shown <= q.final
      /\ StartDay[l] < 1 => shown = q.final
  BY <1>2, PreviewShowsNoMore, FinalIsTyped
<1>6. cost = unpaid[l] + shown
  BY DEF Preview
<1> HIDE DEF shown, cost
<1>7. Covered(cost) <= Covered(unpaid[l] + q.final)
  BY <1>2, <1>5, <1>6, LeasesAssumption DEF Covered
<1>8. Covered(unpaid[l] + q.final) \in Int /\ Covered(cost) \in Int
  BY <1>2, <1>5, <1>6, LeasesAssumption DEF Covered
<1> QED
  BY <1>3, <1>4, <1>5, <1>6, <1>7, <1>8 DEF AnswersLandlord, CanSettle

\* Without overlap, a termination that offsets closes the invoices the preview
\* showed and takes no less than it showed, and no more from a tenant who came
\* before this month (terminate against calculateTerminationCost).
THEOREM OffsetsWhatWasShown ==
  ASSUME NEW CONSTANT w, Requests = {w}
  PROVE  Spec => OffsetMatchesPreview
<1>1. IInv /\ Lone /\ [Next]_vars =>
        [\A r \in Requests, exitDay \in 1..DaysInMonth : OffsetsAsShown(r, exitDay)]_vars
  BY KnownIsOffset
<1>2. IInv /\ Lone /\ [Next]_vars => Lone'
  BY LoneNext
<1> QED
  BY <1>1, <1>2, LoneInit, InvAlways, PTL DEF Spec, OffsetMatchesPreview

-----------------------------------------------------------------------------
(* One request at a time: Leases implements LeaseLifecycle. *)

Settled == {l \in Leases : refund[l].exists}

LEMMA SameLife ==
  ASSUME UNCHANGED <<status, refund>>
  PROVE  [L!Next]_L!vars
  BY DEF L!vars

LEMMA SettledKept ==
  ASSUME \A l \in Leases : refund'[l].exists = refund[l].exists
  PROVE  Settled' = Settled
  BY DEF Settled

LEMMA MoveIsLife ==
  ASSUME NEW l \in Leases, NEW s, status' = [status EXCEPT ![l] = s], UNCHANGED refund,
         \/ status[l] = "none" /\ s = "DRAFT"
         \/ status[l] = "DRAFT" /\ s = "ACTIVE"
         \/ status[l] = "ACTIVE" /\ s = "TERMINATION_REQUESTED"
  PROVE  L!Next
  BY DEF L!Next, L!Move, L!Invite, L!Accept, L!GiveNotice

LEMMA ArriveIsLife ==
  ASSUME IInv, NEW w \in Requests, Arrive(w)
  PROVE  [L!Next]_L!vars
<1>1. ASSUME NEW l \in Leases, PermanentDelete(w, l) PROVE L!Next
  <2>1. status[l] \in AgreementStatus
    BY <1>1 DEF PermanentDelete, Exists
  <2>2. Settled' = Settled \ {l}
    BY <1>1 DEF PermanentDelete, Settled, IInv, TypeOK, NoRefund
  <2> QED
    BY <1>1, <2>1, <2>2
    DEF PermanentDelete, L!Next, L!Forget, L!Move, AgreementStatus, Settled
<1>2. ASSUME NEW S \in SUBSET Leases, MarkExpired(w, S) PROVE L!Next
  <2> DEFINE T == {l \in S : status[l] = "ACTIVE"}
  <2>1. T \in SUBSET {l \in Leases : status[l] = "ACTIVE"}
    OBVIOUS
  <2>2. status' = [l \in Leases |-> IF l \in T THEN "EXPIRED" ELSE status[l]]
    BY <1>2 DEF MarkExpired
  <2>3. UNCHANGED refund
    BY <1>2 DEF MarkExpired
  <2> HIDE DEF T
  <2> QED
    BY <2>1, <2>2, <2>3 DEF L!Next, L!Expire
<1>3. CASE ~ UNCHANGED <<status, refund>>
  <2>1. \/ \E l \in Leases : PermanentDelete(w, l)
        \/ \E S \in SUBSET Leases : MarkExpired(w, S)
    BY <1>3
    DEF Arrive, AgreementRoutes, tables, CreateCheckLimit, Activate, AcceptInvitation, ReadDraft,
        LeaveReadLease, EndReadLease, RefundRead, DeleteRead, RestoreLease, Bill, Pay,
        AddLateFee, RoomRead, RestoreRoom, TenantRead, RestoreTenant
  <2> QED
    BY <1>1, <1>2, <2>1
<1> QED
  BY <1>3, SameLife

LEMMA AdvanceIsLife ==
  ASSUME IInv, Lone, NEW w \in Requests, Advance(w)
  PROVE  [L!Next]_L!vars
<1>1. CASE UNCHANGED <<status, refund>>
  BY <1>1, SameLife
<1>2. PICK l : l = req[w].id
  OBVIOUS
<1>3. CASE CreateInsert(w)
  <2>1. l \in Leases /\ status[l] = "none"
    BY <1>2, <1>3 DEF IInv, RequestInv, CreateInsert, At, LeasePcs, CreatePcs
  <2> QED
    BY <1>2, <1>3, <2>1, MoveIsLife DEF CreateInsert
<1>4. CASE ActivateWrite(w)
  <2>1. l \in Leases /\ status[l] = "DRAFT"
    BY <1>2, <1>4 DEF IInv, RequestInv, ActivateWrite, At, LeasePcs, Lone, Known
  <2>2. status' = [status EXCEPT ![l] = "ACTIVE"] /\ UNCHANGED refund
    BY <1>2, <1>4, <2>1 DEF ActivateWrite, SetStatus, Exists, AgreementStatus
  <2> QED
    BY <2>1, <2>2, MoveIsLife
<1>5. CASE LeaveWrite(w)
  <2>1. l \in Leases /\ status[l] = "ACTIVE"
    BY <1>2, <1>5 DEF IInv, RequestInv, LeaveWrite, At, LeasePcs, Lone, Known
  <2>2. status' = [status EXCEPT ![l] = "TERMINATION_REQUESTED"] /\ UNCHANGED refund
    BY <1>2, <1>5, <2>1 DEF LeaveWrite, SetStatus, Exists, AgreementStatus
  <2> QED
    BY <2>1, <2>2, MoveIsLife
<1>6. CASE EndWrite(w)
  <2>1. l \in Leases /\ status[l] \in LiveStatus /\ req[w] \in Request
    BY <1>2, <1>6 DEF IInv, TypeOK, RequestInv, EndWrite, At, LeasePcs, Lone, Known
  <2>2. CASE CanSettle(l)
    <3>1. /\ status' = [status EXCEPT ![l] = "TERMINATED"]
          /\ refund' = [refund EXCEPT ![l] = RefundRow(req[w])]
      BY <1>2, <1>6, <2>2 DEF EndWrite
    <3>2. RefundRow(req[w]).exists
      BY <2>1, RefundRowSplits
    <3>3. Settled' = Settled \cup {l}
      BY <2>1, <3>1, <3>2 DEF Settled, IInv, TypeOK
    <3> QED
      BY <2>1, <3>1, <3>3 DEF L!Next, L!Terminate, L!Move, LiveStatus, Settled
  <2> QED
    BY <1>1, <1>2, <1>6, <2>2 DEF EndWrite
<1>7. CASE RefundWrite(w)
  <2>1. Settled' = Settled
    BY <1>7, SettledKept DEF RefundWrite, IInv, TypeOK, Refund
  <2> QED
    BY <1>7, <2>1 DEF RefundWrite, L!vars, Settled
<1> QED
  BY <1>1, <1>3, <1>4, <1>5, <1>6, <1>7
  DEF Advance, tables, CreateCheckTenant, CreateCheckRoom, CreateCheckCapacity,
      LeaveReadInvoices, EndReadInvoices, DeleteWrite, RoomWrite, TenantWrite

\* Without overlap, an agreement goes through its life without ever going back,
\* and its deposit is settled when it is terminated and at no other time.
THEOREM OneLifeImplemented ==
  ASSUME NEW CONSTANT w, Requests = {w}
  PROVE  Spec => LivesOneLife
<1>1. Init => L!Init
  BY DEF Init, L!Init, NoRefund
<1>2. IInv /\ Lone /\ [Next]_vars => [L!Next]_L!vars
  <2> SUFFICES ASSUME IInv, Lone, [Next]_vars PROVE [L!Next]_L!vars
    OBVIOUS
  <2>1. CASE Abort(w) \/ UNCHANGED vars
    BY <2>1, SameLife DEF Abort, tables, vars
  <2> QED
    BY <2>1, ArriveIsLife, AdvanceIsLife DEF Next
<1>3. IInv /\ Lone /\ [Next]_vars => Lone'
  BY LoneNext
<1> QED
  BY <1>1, <1>2, <1>3, LoneInit, InvAlways, PTL DEF Spec, LivesOneLife, L!Spec
=============================================================================
