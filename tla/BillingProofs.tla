---------------------------- MODULE BillingProofs ----------------------------
(***************************************************************************)
(* Theorems about Billing for every number of requests and invoices, and   *)
(* every amount, discount, bill, payment and late fee.                     *)
(***************************************************************************)
EXTENDS Billing, TLAPS

Record == [pc : Pcs, inv : Invoices \cup {None}, row : Row, arg : Int,
           todo : SUBSET Invoices]

\* What a request in flight has checked of its input and of the row it read.
Sound(q) ==
  /\ q \in Record
  /\ q.pc \in {"discountWrite", "billWrite", "payWrite", "feeWrite"} => q.inv \in Invoices
  /\ q.pc = "discountWrite" => q.arg \in Nat
  /\ q.pc = "payWrite" => q.arg \in Nat \ {0}
  /\ q.pc = "feeWrite" => q.row.status # "PAID"

IInv == TypeOK /\ \A r \in Requests : Sound(req[r])

LEMMA NoRowTyped == NoRow \in Row
  BY BillingAssumption DEF NoRow, Row, Status

LEMMA IdleIsSound == Sound(Idle) /\ Idle.pc = "idle"
  BY NoRowTyped DEF Sound, Idle, Record, Pcs

LEMMA InitInv == Init => IInv
<1> SUFFICES ASSUME Init PROVE IInv
  OBVIOUS
<1>1. req \in [Requests -> Record] /\ \A r \in Requests : Sound(req[r])
  BY IdleIsSound DEF Init, Sound
<1>2. inv \in [Invoices -> Row]
  BY NoRowTyped DEF Init
<1>3. received \in [Invoices -> Nat] /\ credit \in Nat
  BY DEF Init
<1>4. billed \subseteq Invoices
  BY DEF Init
<1> QED
  BY <1>1, <1>2, <1>3, <1>4 DEF IInv, TypeOK, Record

-----------------------------------------------------------------------------
(* The two things a step does: request r goes on, invoice i is written.    *)

GoesOn(r, q) == Sound(q) /\ req' = [req EXCEPT ![r] = q]

LEMMA GoesOnSound ==
  ASSUME IInv, NEW r \in Requests, NEW q, GoesOn(r, q)
  PROVE  req' \in [Requests -> Record] /\ \A x \in Requests : Sound(req'[x])
<1>1. req \in [Requests -> Record] /\ q \in Record
  BY DEF IInv, TypeOK, Record, GoesOn, Sound
<1>2. req'[r] = q /\ \A x \in Requests \ {r} : req'[x] = req[x]
  BY <1>1 DEF GoesOn
<1>3. req' \in [Requests -> Record]
  BY <1>1 DEF GoesOn
<1>4. ASSUME NEW x \in Requests PROVE Sound(req'[x])
  BY <1>2 DEF GoesOn, IInv
<1> QED
  BY <1>3, <1>4

LEMMA QuietKeepsInv ==
  ASSUME IInv, NEW r \in Requests, NEW q, GoesOn(r, q), UNCHANGED tables
  PROVE  IInv'
<1>1. req' \in [Requests -> Record] /\ \A x \in Requests : Sound(req'[x])
  BY GoesOnSound
<1> QED
  BY <1>1 DEF IInv, TypeOK, tables, Record

Writes(i, row) == row \in Row /\ inv' = [inv EXCEPT ![i] = row]

LEMMA WriteKeepsInv ==
  ASSUME IInv, NEW r \in Requests, NEW q, GoesOn(r, q),
         NEW i \in Invoices, NEW row, Writes(i, row),
         billed' \subseteq Invoices, received' \in [Invoices -> Nat], credit' \in Nat
  PROVE  IInv'
<1>1. req' \in [Requests -> Record] /\ \A x \in Requests : Sound(req'[x])
  BY GoesOnSound
<1>2. inv' \in [Invoices -> Row]
  BY DEF Writes, IInv, TypeOK
<1> QED
  BY <1>1, <1>2 DEF IInv, TypeOK, Record

-----------------------------------------------------------------------------
(* The steps that write nothing. *)

LEMMA ReadForGoesOn ==
  ASSUME IInv, NEW r \in Requests, NEW i \in Invoices, NEW arg \in Int,
         NEW pc \in {"discountWrite", "billWrite", "payWrite"},
         pc = "discountWrite" => arg \in Nat, pc = "payWrite" => arg \in Nat \ {0},
         ReadFor(r, pc, i, arg)
  PROVE  IInv' /\ UNCHANGED tables
<1> DEFINE q == [Idle EXCEPT !.pc = pc, !.inv = i, !.row = inv[i], !.arg = arg]
<1>1. inv[i] \in Row
  BY DEF IInv, TypeOK
<1>2. /\ q.pc = pc /\ q.inv = i /\ q.row = inv[i] /\ q.arg = arg
      /\ q \in Record
  BY <1>1, IdleIsSound DEF Sound, Idle, Record, Pcs
<1> HIDE DEF q
<1>3. Sound(q)
  BY <1>2 DEF Sound
<1>4. GoesOn(r, q)
  BY <1>3 DEF ReadFor, GoesOn, q
<1> QED
  BY <1>4, QuietKeepsInv DEF ReadFor

LEMMA NightScanQuiet ==
  ASSUME IInv, NEW r \in Requests, NightScan(r)
  PROVE  IInv' /\ UNCHANGED tables
<1> DEFINE S == {i \in Invoices : NeedsFee(i) /\ Fee > 0}
           q == [req[r] EXCEPT !.pc = "loop", !.todo = S]
<1>1. req[r] \in Record /\ S \subseteq Invoices
  BY DEF IInv, Sound
<1> HIDE DEF S
<1>2. Sound(q)
  BY <1>1 DEF Sound, Record, Pcs
<1>3. GoesOn(r, q)
  BY <1>2 DEF NightScan, GoesOn, S
<1> QED
  BY <1>3, QuietKeepsInv DEF NightScan

LEMMA FeeReadQuiet ==
  ASSUME IInv, NEW r \in Requests, NEW i \in Invoices, FeeRead(r, i)
  PROVE  IInv' /\ UNCHANGED tables
<1>1. req[r] \in Record /\ inv[i] \in Row /\ req[r].pc = "loop"
  BY DEF IInv, Sound, TypeOK, FeeRead, At
<1>2. CASE TakesFee(inv[i])
  <2> DEFINE q == [req[r] EXCEPT !.pc = "feeWrite", !.inv = i, !.row = inv[i]]
  <2>1. Sound(q)
    BY <1>1, <1>2 DEF Sound, Record, Pcs, TakesFee
  <2>2. GoesOn(r, q)
    BY <1>2, <2>1 DEF FeeRead, GoesOn
  <2> QED
    BY <2>2, QuietKeepsInv DEF FeeRead
<1>3. CASE ~ TakesFee(inv[i])
  <2> DEFINE q == [req[r] EXCEPT !.todo = req[r].todo \ {i}]
  <2>1. Sound(q)
    BY <1>1 DEF Sound, Record
  <2>2. GoesOn(r, q)
    BY <1>3, <2>1 DEF FeeRead, GoesOn
  <2> QED
    BY <2>2, QuietKeepsInv DEF FeeRead
<1> QED
  BY <1>2, <1>3

LEMMA FinishQuiet ==
  ASSUME IInv, NEW r \in Requests, NightEnd(r) \/ Abort(r)
  PROVE  IInv' /\ UNCHANGED tables
<1>1. GoesOn(r, Idle)
  BY IdleIsSound DEF NightEnd, Abort, Finish, GoesOn
<1> QED
  BY <1>1, QuietKeepsInv DEF NightEnd, Abort

-----------------------------------------------------------------------------
(* The steps that write an invoice: what they leave in its row. *)

\* Request r, with invoice i in hand, ends or goes on to its next invoice.
Acts(r, pc, i) ==
  /\ req[r].pc = pc
  /\ i = req[r].inv
  /\ i \in Invoices
  /\ \E q : GoesOn(r, q) /\ q.pc \in {"idle", "loop"}

LEMMA CreateInvoiceWrites ==
  ASSUME IInv, NEW r \in Requests, NEW i \in Invoices, NEW rent \in BOOLEAN,
         NEW a \in Amounts, NEW d \in Discounts, CreateInvoice(r, i, rent, a, d)
  PROVE  IInv' /\ inv[i].status = "none" /\ FollowsColumns(inv'[i])
                /\ \A j \in Invoices \ {i} : inv'[j] = inv[j]
<1> DEFINE row == [status |-> "PENDING", rent |-> rent, amount |-> a, discount |-> d,
                   fee |-> 0, due |-> a - d]
<1>1. a \in Nat /\ d \in Nat
  BY BillingAssumption
<1>2. row \in Row /\ FollowsColumns(row)
  BY <1>1 DEF Row, Status, FollowsColumns
<1>3. inv' = [inv EXCEPT ![i] = row] /\ inv \in [Invoices -> Row]
  BY DEF CreateInvoice, IInv, TypeOK
<1> HIDE DEF row
<1>4. inv' \in [Invoices -> Row] /\ inv'[i] = row
      /\ \A j \in Invoices \ {i} : inv'[j] = inv[j]
  BY <1>2, <1>3
<1>5. IInv'
  BY <1>4 DEF CreateInvoice, IInv, TypeOK
<1> QED
  BY <1>2, <1>4, <1>5 DEF CreateInvoice

\* What the other steps have in common.
WriteStep(r, pc, i) ==
  /\ IInv'
  /\ Acts(r, pc, i)
  /\ \A j \in Invoices \ {i} : inv'[j] = inv[j]

LEMMA DiscountWrites ==
  ASSUME IInv, NEW r \in Requests, DiscountWrite(r)
  PROVE  LET i == req[r].inv IN
         /\ WriteStep(r, "discountWrite", i)
         /\ inv'[i].status = inv[i].status
         /\ (req[r].row = inv[i]) => FollowsColumns(inv'[i])
<1> DEFINE i == req[r].inv
           due == Discounted(req[r].row, req[r].arg)
           row == [inv[i] EXCEPT !.discount = req[r].arg, !.due = due]
<1>1. i \in Invoices /\ req[r].arg \in Nat /\ req[r].row \in Row
  BY DEF IInv, Sound, Record, DiscountWrite, At
<1>2. inv \in [Invoices -> Row] /\ inv[i] \in Row
  BY <1>1 DEF IInv, TypeOK
<1>3. due \in Int
  BY <1>1, BillingAssumption DEF Discounted, AtLeastZero, Row
<1>4. Writes(i, row)
  BY <1>1, <1>2, <1>3 DEF DiscountWrite, Writes, Row
<1>5. GoesOn(r, Idle)
  BY IdleIsSound DEF DiscountWrite, Finish, GoesOn
<1>6. billed' \subseteq Invoices /\ received' \in [Invoices -> Nat] /\ credit' \in Nat
  BY DEF IInv, TypeOK, DiscountWrite
<1>7. IInv'
  BY <1>1, <1>4, <1>5, <1>6, WriteKeepsInv
<1>8. Acts(r, "discountWrite", i)
  BY <1>1, <1>5, IdleIsSound DEF Acts, DiscountWrite, At
<1>9. inv'[i] = row /\ \A j \in Invoices \ {i} : inv'[j] = inv[j]
  BY <1>1, <1>2, <1>4 DEF Writes
<1>10. ASSUME req[r].row = inv[i] PROVE FollowsColumns(row)
  BY <1>1, <1>2, <1>10, BillingAssumption
  DEF FollowsColumns, Discounted, AtLeastZero, Row
<1>11. row.status = inv[i].status
  BY <1>2 DEF Row
<1> QED
  BY <1>7, <1>8, <1>9, <1>10, <1>11 DEF WriteStep

LEMMA BillWrites ==
  ASSUME IInv, NEW r \in Requests, BillWrite(r)
  PROVE  LET i == req[r].inv IN
         /\ WriteStep(r, "billWrite", i)
         /\ inv'[i].status = inv[i].status
         /\ (req[r].row = inv[i] /\ FollowsColumns(inv[i])) => FollowsColumns(inv'[i])
<1> DEFINE i == req[r].inv
           due == Billed(req[r].row, req[r].arg)
           row == [inv[i] EXCEPT !.amount = req[r].arg, !.due = due]
<1>1. i \in Invoices /\ req[r].arg \in Int /\ req[r].row \in Row
  BY DEF IInv, Sound, Record, BillWrite, At
<1>2. inv \in [Invoices -> Row] /\ inv[i] \in Row
  BY <1>1 DEF IInv, TypeOK
<1>3. GoesOn(r, Idle)
  BY IdleIsSound DEF BillWrite, Finish, GoesOn
<1>4. Acts(r, "billWrite", i)
  BY <1>1, <1>3, IdleIsSound DEF Acts, BillWrite, At
<1>5. billed' \subseteq Invoices /\ received' \in [Invoices -> Nat] /\ credit' \in Nat
  BY <1>1 DEF IInv, TypeOK, BillWrite
<1>6. CASE i \in billed
  <2>1. inv' = inv /\ billed' = billed
    BY <1>6 DEF BillWrite
  <2>2. IInv'
    BY <1>3, <2>1, <1>5, GoesOnSound DEF IInv, TypeOK, Record
  <2> QED
    BY <1>4, <2>1, <2>2 DEF WriteStep
<1>7. CASE i \notin billed
  <2>1. due \in Int
    BY <1>1, BillingAssumption DEF Billed, Row
  <2>2. Writes(i, row)
    BY <1>1, <1>2, <1>7, <2>1 DEF BillWrite, Writes, Row
  <2>3. IInv'
    BY <1>1, <1>3, <1>5, <2>2, WriteKeepsInv
  <2>4. inv'[i] = row /\ \A j \in Invoices \ {i} : inv'[j] = inv[j]
    BY <1>1, <1>2, <2>2 DEF Writes
  <2>5. ASSUME req[r].row = inv[i] PROVE FollowsColumns(row)
    BY <1>1, <1>2, <2>5, BillingAssumption DEF FollowsColumns, Billed, Row
  <2>6. row.status = inv[i].status
    BY <1>2 DEF Row
  <2> QED
    BY <1>4, <2>3, <2>4, <2>5, <2>6 DEF WriteStep
<1> QED
  BY <1>6, <1>7

LEMMA SettledTyped ==
  ASSUME NEW row \in Row
  PROVE  [row EXCEPT !.status = "PAID", !.due = 0] \in Row
<1> DEFINE paid == [row EXCEPT !.status = "PAID"]
<1>1. paid \in Row
  BY DEF Row, Status
<1> HIDE DEF paid
<1>2. [paid EXCEPT !.due = 0] \in Row
  BY <1>1 DEF Row
<1> QED
  BY <1>2 DEF paid

LEMMA PayWrites ==
  ASSUME IInv, NEW r \in Requests, PayWrite(r)
  PROVE  LET i == req[r].inv IN
         /\ WriteStep(r, "payWrite", i)
         /\ inv'[i].status \in {"PAID", inv[i].status}
         /\ received'[i] # 0
<1> DEFINE i == req[r].inv
           due == req[r].row.due
           arg == req[r].arg
<1>1. i \in Invoices /\ arg \in Nat \ {0} /\ req[r].row \in Row
  BY DEF IInv, Sound, Record, PayWrite, At
<1>2. inv \in [Invoices -> Row] /\ inv[i] \in Row /\ due \in Int
  BY <1>1 DEF IInv, TypeOK, Row
<1>3. GoesOn(r, Idle)
  BY IdleIsSound DEF PayWrite, Finish, GoesOn
<1>4. Acts(r, "payWrite", i)
  BY <1>1, <1>3, IdleIsSound DEF Acts, PayWrite, At
<1>5. received' \in [Invoices -> Nat] /\ received'[i] # 0
  <2>1. received \in [Invoices -> Nat] /\ received' = [received EXCEPT ![i] = received[i] + arg]
    BY DEF IInv, TypeOK, PayWrite
  <2> QED
    BY <1>1, <2>1
<1>6. billed' \subseteq Invoices
  BY DEF IInv, TypeOK, PayWrite
<1>7. CASE Covers(arg, due)
  <2> DEFINE row == [inv[i] EXCEPT !.status = "PAID", !.due = 0]
  <2>1. credit' \in Nat
    BY <1>1, <1>2, <1>7 DEF PayWrite, Covers, IInv, TypeOK
  <2>2. Writes(i, row)
    <3>1. row \in Row
      BY <1>2, SettledTyped
    <3>2. inv' = [inv EXCEPT ![i] = row]
      BY <1>7 DEF PayWrite
    <3> QED
      BY <3>1, <3>2 DEF Writes
  <2>3. IInv'
    BY <1>1, <1>3, <1>5, <1>6, <2>1, <2>2, WriteKeepsInv
  <2>4. inv'[i] = row /\ \A j \in Invoices \ {i} : inv'[j] = inv[j]
    BY <1>1, <1>2, <2>2 DEF Writes
  <2>5. row.status = "PAID"
    BY <1>2 DEF Row
  <2> QED
    BY <1>4, <1>5, <2>3, <2>4, <2>5 DEF WriteStep
<1>8. CASE ~ Covers(arg, due)
  <2> DEFINE row == [inv[i] EXCEPT !.due = due - arg]
  <2>1. credit' \in Nat
    BY <1>8 DEF PayWrite, IInv, TypeOK
  <2>2. Writes(i, row)
    BY <1>1, <1>2, <1>8 DEF PayWrite, Writes, Row, Status
  <2>3. IInv'
    BY <1>1, <1>3, <1>5, <1>6, <2>1, <2>2, WriteKeepsInv
  <2>4. inv'[i] = row /\ \A j \in Invoices \ {i} : inv'[j] = inv[j]
    BY <1>1, <1>2, <2>2 DEF Writes
  <2>5. row.status = inv[i].status
    BY <1>2 DEF Row
  <2> QED
    BY <1>4, <1>5, <2>3, <2>4, <2>5 DEF WriteStep
<1> QED
  BY <1>7, <1>8

LEMMA FeeWrites ==
  ASSUME IInv, NEW r \in Requests, FeeWrite(r)
  PROVE  LET i == req[r].inv IN
         /\ WriteStep(r, "feeWrite", i)
         /\ req[r].row.status # "PAID"
         /\ (req[r].row = inv[i]) => FollowsColumns(inv'[i])
<1> DEFINE i == req[r].inv
           due == req[r].row.amount - req[r].row.discount + Fee
           row == [inv[i] EXCEPT !.status = "OVERDUE", !.fee = Fee, !.due = due]
           q == [Idle EXCEPT !.pc = "loop", !.todo = req[r].todo \ {i}]
<1>1. i \in Invoices /\ req[r].row \in Row /\ req[r].todo \subseteq Invoices
      /\ req[r].row.status # "PAID"
  BY DEF IInv, Sound, Record, FeeWrite, At
<1>2. inv \in [Invoices -> Row] /\ inv[i] \in Row /\ due \in Int
  BY <1>1, BillingAssumption DEF IInv, TypeOK, Row
<1>3. Sound(q) /\ q.pc = "loop"
  BY <1>1, IdleIsSound DEF Sound, Idle, Record, Pcs
<1>4. GoesOn(r, q)
  BY <1>3 DEF FeeWrite, GoesOn
<1>5. Acts(r, "feeWrite", i)
  BY <1>1, <1>3, <1>4 DEF Acts, FeeWrite, At
<1>6. Writes(i, row)
  BY <1>1, <1>2 DEF FeeWrite, Writes, Row, Status
<1>7. billed' \subseteq Invoices /\ received' \in [Invoices -> Nat] /\ credit' \in Nat
  BY DEF IInv, TypeOK, FeeWrite
<1>8. IInv'
  BY <1>1, <1>4, <1>6, <1>7, WriteKeepsInv
<1>9. inv'[i] = row /\ \A j \in Invoices \ {i} : inv'[j] = inv[j]
  BY <1>1, <1>2, <1>6 DEF Writes
<1>10. ASSUME req[r].row = inv[i] PROVE FollowsColumns(row)
  BY <1>2, <1>10, BillingAssumption DEF FollowsColumns, Row
<1> QED
  BY <1>1, <1>5, <1>8, <1>9, <1>10 DEF WriteStep

LEMMA NightMarks ==
  ASSUME IInv, NEW r \in Requests, NEW S \in SUBSET Invoices, NightMark(r, S)
  PROVE  /\ IInv'
         /\ \A i \in Invoices :
              /\ inv[i].status = "PAID" => inv'[i].status = "PAID"
              /\ FollowsColumns(inv[i]) => FollowsColumns(inv'[i])
<1> DEFINE marked(i) == [inv[i] EXCEPT !.status = "OVERDUE"]
           q == [req[r] EXCEPT !.pc = "scan"]
<1>1. Sound(q)
  BY DEF IInv, Sound, Record, Pcs
<1>2. GoesOn(r, q)
  BY <1>1 DEF NightMark, GoesOn
<1>3. ASSUME NEW i \in Invoices
      PROVE  /\ inv[i] \in Row /\ marked(i) \in Row
             /\ inv'[i] \in {inv[i], marked(i)}
             /\ inv[i].status = "PAID" => inv'[i] = inv[i]
             /\ FollowsColumns(inv[i]) => FollowsColumns(marked(i))
  <2>1. inv[i] \in Row
    BY DEF IInv, TypeOK
  <2>2. marked(i) \in Row /\ (FollowsColumns(inv[i]) => FollowsColumns(marked(i)))
    BY <2>1 DEF Row, Status, FollowsColumns
  <2>3. inv'[i] \in {inv[i], marked(i)} /\ (inv[i].status = "PAID" => inv'[i] = inv[i])
    BY DEF NightMark
  <2> QED
    BY <2>1, <2>2, <2>3
<1>4. inv' \in [Invoices -> Row]
  <2>1. inv' = [i \in Invoices |-> inv'[i]]
    BY DEF NightMark
  <2>2. \A i \in Invoices : inv'[i] \in Row
    BY <1>3
  <2> QED
    BY <2>1, <2>2
<1>5. IInv'
  BY <1>2, <1>4, GoesOnSound DEF NightMark, IInv, TypeOK, Record
<1> QED
  BY <1>3, <1>5

-----------------------------------------------------------------------------
(* All steps. *)

Written(r) == DiscountWrite(r) \/ BillWrite(r) \/ PayWrite(r) \/ FeeWrite(r)

LEMMA NextCases ==
  ASSUME IInv, [Next]_vars
  PROVE  \/ IInv' /\ UNCHANGED tables
         \/ \E r \in Requests, i \in Invoices, rent \in BOOLEAN, a \in Amounts,
               d \in Discounts : CreateInvoice(r, i, rent, a, d)
         \/ \E r \in Requests, S \in SUBSET Invoices : NightMark(r, S)
         \/ \E r \in Requests : Written(r)
<1>1. CASE UNCHANGED vars
  <2>1. IInv'
    BY <1>1 DEF vars, tables, IInv, TypeOK
  <2> QED
    BY <1>1, <2>1 DEF vars
<1>2. ASSUME NEW r \in Requests, NEW i \in Invoices, NEW d \in Discounts, DiscountRead(r, i, d)
      PROVE  IInv' /\ UNCHANGED tables
  BY <1>2, BillingAssumption, ReadForGoesOn DEF DiscountRead
<1>3. ASSUME NEW r \in Requests, NEW i \in Invoices, NEW b \in Bills, BillRead(r, i, b)
      PROVE  IInv' /\ UNCHANGED tables
  BY <1>3, BillingAssumption, ReadForGoesOn DEF BillRead
<1>4. ASSUME NEW r \in Requests, NEW i \in Invoices, NEW a \in Receipts, PayRead(r, i, a)
      PROVE  IInv' /\ UNCHANGED tables
  BY <1>4, BillingAssumption, ReadForGoesOn DEF PayRead
<1>5. ASSUME NEW r \in Requests, NightStep(r), ~ FeeWrite(r)
      PROVE  IInv' /\ UNCHANGED tables
  BY <1>5, NightScanQuiet, FeeReadQuiet, FinishQuiet DEF NightStep
<1>6. ASSUME NEW r \in Requests, Abort(r)
      PROVE  IInv' /\ UNCHANGED tables
  BY <1>6, FinishQuiet
<1> QED
  BY <1>1, <1>2, <1>3, <1>4, <1>5, <1>6 DEF Next, Enter, Write, NightStart, NightStep, Written

LEMMA NextKeepsInv == IInv /\ [Next]_vars => IInv'
<1> SUFFICES ASSUME IInv, [Next]_vars PROVE IInv'
  OBVIOUS
<1>1. ASSUME NEW r \in Requests, Written(r) PROVE IInv'
  BY <1>1, DiscountWrites, BillWrites, PayWrites, FeeWrites DEF Written, WriteStep
<1> QED
  BY <1>1, NextCases, CreateInvoiceWrites, NightMarks

LEMMA InvAlways == Spec => []IInv
  BY InitInv, NextKeepsInv, PTL DEF Spec

\* Invoices, credit and requests keep their types; in particular a payment
\* never makes the tenant's credit negative, even of an invoice whose total
\* fell below 0.
THEOREM TypeCorrect == Spec => []TypeOK
<1>1. IInv => TypeOK
  BY DEF IInv
<1> QED
  BY <1>1, InvAlways, PTL

-----------------------------------------------------------------------------
(* PAID invoices. *)

ReopensStale ==
  \A i \in Invoices :
    (inv[i].status = "PAID" /\ inv'[i].status # "PAID") =>
      \E r \in Requests : At(r, "feeWrite") /\ req[r].inv = i
                            /\ req[r].row.status # "PAID"

LEMMA NextReopensStale == IInv /\ [Next]_vars => ReopensStale
<1> SUFFICES ASSUME IInv, [Next]_vars PROVE ReopensStale
  OBVIOUS
<1>1. CASE UNCHANGED tables
  BY <1>1 DEF ReopensStale, tables
<1>2. ASSUME NEW r \in Requests, NEW i \in Invoices, NEW rent \in BOOLEAN, NEW a \in Amounts,
             NEW d \in Discounts, CreateInvoice(r, i, rent, a, d)
      PROVE  ReopensStale
  BY <1>2, CreateInvoiceWrites DEF ReopensStale
<1>3. ASSUME NEW r \in Requests, NEW S \in SUBSET Invoices, NightMark(r, S)
      PROVE  ReopensStale
  BY <1>3, NightMarks DEF ReopensStale
<1>4. ASSUME NEW r \in Requests, Written(r) PROVE ReopensStale
  <2> DEFINE i == req[r].inv
  <2>1. /\ \A j \in Invoices \ {i} : inv'[j] = inv[j]
        /\ \/ inv'[i].status \in {"PAID", inv[i].status}
           \/ req[r].pc = "feeWrite" /\ req[r].row.status # "PAID"
    BY <1>4, DiscountWrites, BillWrites, PayWrites, FeeWrites DEF Written, WriteStep, Acts
  <2> QED
    BY <2>1 DEF ReopensStale, At
<1> QED
  BY <1>1, <1>2, <1>3, <1>4, NextCases

\* A PAID invoice stays PAID, whatever overlaps, but for a late fee whose job
\* read the invoice before the payment.
THEOREM PaidIsFinalButForFees == Spec => OnlyStaleFeeReopens
<1>1. IInv /\ [Next]_vars => [ReopensStale]_vars
  BY NextReopensStale
<1> QED
  BY <1>1, InvAlways, PTL DEF Spec, OnlyStaleFeeReopens, ReopensStale

-----------------------------------------------------------------------------
(* Totals. *)

KeepsTotals ==
  \A i \in Invoices :
    (/\ FollowsColumns(inv[i])
     /\ received'[i] = 0
     /\ \A r \in Requests : req[r].inv = i /\ req[r] # req'[r] => Fresh(r))
      => FollowsColumns(inv'[i])

LEMMA NextKeepsTotals == IInv /\ [Next]_vars => KeepsTotals
<1> SUFFICES ASSUME IInv, [Next]_vars PROVE KeepsTotals
  OBVIOUS
<1>1. CASE UNCHANGED tables
  BY <1>1 DEF KeepsTotals, tables
<1>2. ASSUME NEW r \in Requests, NEW i \in Invoices, NEW rent \in BOOLEAN, NEW a \in Amounts,
             NEW d \in Discounts, CreateInvoice(r, i, rent, a, d)
      PROVE  KeepsTotals
  BY <1>2, CreateInvoiceWrites DEF KeepsTotals
<1>3. ASSUME NEW r \in Requests, NEW S \in SUBSET Invoices, NightMark(r, S)
      PROVE  KeepsTotals
  BY <1>3, NightMarks DEF KeepsTotals
<1>4. ASSUME NEW r \in Requests, Written(r) PROVE KeepsTotals
  <2> DEFINE i == req[r].inv
  <2>1. /\ \A j \in Invoices \ {i} : inv'[j] = inv[j]
        /\ \/ received'[i] # 0
           \/ (req[r].row = inv[i] /\ FollowsColumns(inv[i])) => FollowsColumns(inv'[i])
        /\ req[r].pc \in {"discountWrite", "billWrite", "payWrite", "feeWrite"}
        /\ \E q : GoesOn(r, q) /\ q.pc \in {"idle", "loop"}
    BY <1>4, DiscountWrites, BillWrites, PayWrites, FeeWrites DEF Written, WriteStep, Acts
  <2>2. req[r] # req'[r]
    <3>1. PICK q : GoesOn(r, q) /\ q.pc \in {"idle", "loop"}
      BY <2>1
    <3>2. req'[r] = q
      BY <3>1 DEF GoesOn, IInv, TypeOK
    <3> QED
      BY <2>1, <3>1, <3>2
  <2> QED
    BY <2>1, <2>2 DEF KeepsTotals, Fresh
<1> QED
  BY <1>1, <1>2, <1>3, <1>4, NextCases

\* A discount, fee or bill computed from the current row keeps the total what
\* the schema says it is, as long as nothing is paid.
THEOREM TotalsFollowColumns == Spec => FreshWritesKeepTotals
<1>1. IInv /\ [Next]_vars => [KeepsTotals]_vars
  BY NextKeepsTotals
<1> QED
  BY <1>1, InvAlways, PTL DEF Spec, FreshWritesKeepTotals, KeepsTotals
=============================================================================
