------------------------------- MODULE Leases -------------------------------
(***************************************************************************)
(* The life of rental agreements: AgreementsService, the archiving of      *)
(* rooms and tenants that looks at agreements, the nightly expiry, and the *)
(* trash.  One step per database statement; terminate's transaction is one *)
(* step, because its first statement takes the row of the agreement, on    *)
(* which every other writer waits.                                         *)
(*                                                                         *)
(* Dates are abstracted: which agreements are past their end is arbitrary, *)
(* and an exit date is a day of a month of DaysInMonth days.              *)
(* An invoice is its total, and no two open invoices of an agreement have  *)
(* the same. A total may be 0 or negative: createManual asks nothing of    *)
(* the amount and the discount it is given.                                *)
(***************************************************************************)
EXTENDS LeavingRules, FiniteSets

CONSTANTS
  Requests,      \* slots for requests in flight
  Leases,        \* rows of rental_agreements that may come to exist
  Rooms, Tenants,
  RoomOf,        \* the room and the tenant each agreement is drafted for
  TenantOf,
  Capacity,      \* how many ACTIVE agreements a room takes: 1 unless SHARED
  MaxTenants,    \* max_tenants of the landlord's package
  Deposit,       \* security_deposit
  Rent,          \* rent_amount
  LeavingOption, \* leaving_option, leaving_rule and start_date of the
  LeavingRule,   \* drafts landlords ask for
  StartDay,
  DaysInMonth,
  Totals,        \* the totals (total_due) invoices may have
  None

ASSUME LeasesAssumption ==
  /\ RoomOf \in [Leases -> Rooms]
  /\ TenantOf \in [Leases -> Tenants]
  /\ Capacity \in [Rooms -> Nat \ {0}]
  /\ MaxTenants \in Nat
  /\ Deposit \in Nat
  /\ Rent \in Nat
  /\ LeavingOption \in [Leases -> LeavingOptions]
  /\ LeavingRule \in [Leases -> LeavingOptions \cup {NoRule}]
  /\ StartDay \in [Leases -> Int]
  /\ DaysInMonth \in Nat \ {0}
  /\ Totals \subseteq Int
  /\ None \notin Leases \cup Rooms \cup Tenants

VARIABLES
  status,        \* RentalAgreement.status; "none" before, "deleted" after
  archived,      \* RentalAgreement.is_archived
  open,          \* the agreement's PENDING and OVERDUE invoices
  unpaid,        \* the sum of their totals
  refund,        \* the agreement's row of deposit_refunds
  roomArchived,  \* Room.is_archived
  tenantActive,  \* User.is_active
  req            \* requests in flight

tables == <<status, archived, open, unpaid, refund, roomArchived, tenantActive>>
vars   == <<tables, req>>

-----------------------------------------------------------------------------
AgreementStatus == {"DRAFT", "ACTIVE", "EXPIRED", "TERMINATED", "TERMINATION_REQUESTED"}
LiveStatus      == {"ACTIVE", "TERMINATION_REQUESTED"}

NoRefund == [exists |-> FALSE, amount |-> 0, deductions |-> 0, isPaid |-> FALSE]
Refund   == [exists : BOOLEAN, amount : Nat, deductions : Int, isPaid : BOOLEAN]

Pcs == {"idle",
        "createTenant", "createRoom", "createCapacity", "createInsert",
        "activateWrite",
        "leaveInvoices", "leaveWrite",
        "endInvoices", "endWrite",
        "refundWrite", "deleteWrite", "roomWrite", "tenantWrite"}

Idle == [pc |-> "idle", id |-> None, final |-> 0, owed |-> 0, deduct |-> FALSE]

Request == [pc : Pcs, id : Leases \cup Rooms \cup Tenants \cup {None},
            final : Nat, owed : Int, deduct : BOOLEAN]

TypeOK ==
  /\ status \in [Leases -> AgreementStatus \cup {"none", "deleted"}]
  /\ archived \in [Leases -> BOOLEAN]
  /\ open \in [Leases -> SUBSET Totals]
  /\ unpaid \in [Leases -> Int]
  /\ refund \in [Leases -> Refund]
  /\ roomArchived \in [Rooms -> BOOLEAN]
  /\ tenantActive \in [Tenants -> BOOLEAN]
  /\ req \in [Requests -> Request]

Init ==
  /\ status = [l \in Leases |-> "none"]
  /\ archived = [l \in Leases |-> FALSE]
  /\ open = [l \in Leases |-> {}]
  /\ unpaid = [l \in Leases |-> 0]
  /\ refund = [l \in Leases |-> NoRefund]
  /\ roomArchived = [o \in Rooms |-> FALSE]
  /\ tenantActive = [t \in Tenants |-> TRUE]
  /\ req = [r \in Requests |-> Idle]

Exists(l)       == status[l] \in AgreementStatus
ActiveLeases    == {l \in Leases : status[l] = "ACTIVE"}
ActiveInRoom(o) == {l \in ActiveLeases : RoomOf[l] = o}
ActiveOf(t)     == {l \in ActiveLeases : TenantOf[l] = t}

At(r, pc)        == req[r].pc = pc
Finish(r)        == req' = [req EXCEPT ![r] = Idle]
Start(r, pc, id) == req' = [req EXCEPT ![r] = [Idle EXCEPT !.pc = pc, !.id = id]]
Goto(r, pc)      == req' = [req EXCEPT ![r].pc = pc]

\* A check that throws: the request goes on only if the test holds.
Check(r, test, pc) == IF test THEN Goto(r, pc) ELSE Finish(r)

-----------------------------------------------------------------------------
(* create *)

\* l names the row that this request, and no other, will insert.
CreateCheckLimit(r, l) ==
  /\ At(r, "idle")
  /\ status[l] = "none"
  /\ \A q \in Requests : req[q].id # l
  /\ RuleDecides(LeavingOption[l], LeavingRule[l])
  /\ Cardinality(ActiveLeases) < MaxTenants
  /\ Start(r, "createTenant", l)
  /\ UNCHANGED tables

CreateCheckTenant(r) ==
  /\ At(r, "createTenant")
  /\ Check(r, tenantActive[TenantOf[req[r].id]], "createRoom")
  /\ UNCHANGED tables

CreateCheckRoom(r) ==
  /\ At(r, "createRoom")
  /\ Check(r, ~ roomArchived[RoomOf[req[r].id]], "createCapacity")
  /\ UNCHANGED tables

CreateCheckCapacity(r) ==
  LET o == RoomOf[req[r].id] IN
  /\ At(r, "createCapacity")
  /\ Check(r, Cardinality(ActiveInRoom(o)) < Capacity[o], "createInsert")
  /\ UNCHANGED tables

CreateInsert(r) ==
  /\ At(r, "createInsert")
  /\ status' = [status EXCEPT ![req[r].id] = "DRAFT"]
  /\ Finish(r)
  /\ UNCHANGED <<archived, open, unpaid, refund, roomArchived, tenantActive>>

-----------------------------------------------------------------------------
(* activate (landlord) and acceptInvitation (tenant) run the same statements. *)

\* Mutant: the status of the agreement is not looked at.
ReadDraft_Any(r, l) ==
  /\ At(r, "idle")
  /\ Exists(l)
  /\ Start(r, "activateWrite", l)
  /\ UNCHANGED tables

ReadDraft(r, l) ==
  /\ At(r, "idle")
  /\ status[l] = "DRAFT"
  /\ Start(r, "activateWrite", l)
  /\ UNCHANGED tables

Activate(r, l) == ReadDraft(r, l)

AcceptInvitation(r, l) == ReadDraft(r, l)

\* An update by id: of whatever is in the row now, or an error if it is gone.
SetStatus(r, s) ==
  /\ status' = IF Exists(req[r].id) THEN [status EXCEPT ![req[r].id] = s] ELSE status
  /\ Finish(r)
  /\ UNCHANGED <<archived, open, unpaid, refund, roomArchived, tenantActive>>

ActivateWrite(r) == At(r, "activateWrite") /\ SetStatus(r, "ACTIVE")

-----------------------------------------------------------------------------
(* requestTermination *)

\* Mutant: the status of the agreement is not looked at.
LeaveReadLease_Any(r, l) ==
  /\ At(r, "idle")
  /\ Exists(l)
  /\ Start(r, "leaveInvoices", l)
  /\ UNCHANGED tables

LeaveReadLease(r, l) ==
  /\ At(r, "idle")
  /\ status[l] = "ACTIVE"
  /\ Start(r, "leaveInvoices", l)
  /\ UNCHANGED tables

LeaveReadInvoices(r) ==
  /\ At(r, "leaveInvoices")
  /\ Check(r, open[req[r].id] = {}, "leaveWrite")
  /\ UNCHANGED tables

LeaveWrite(r) == At(r, "leaveWrite") /\ SetStatus(r, "TERMINATION_REQUESTED")

-----------------------------------------------------------------------------
(* calculateTerminationCost: what its parties see before they end it. *)

RentOf(l, days) ==
  RentFor(days, Rent, DaysInMonth, ActiveRule(LeavingOption[l], LeavingRule[l]))

\* The landlord gets an answer whatever the status, the tenant while ACTIVE.
AnswersLandlord(l) == Exists(l)

Preview(l, today) ==
  [final           |-> RentOf(l, DaysToPayFor(today, StartDay[l])),
   outstanding     |-> unpaid[l],
   canRequestLeave |-> open[l] = {}]

-----------------------------------------------------------------------------
(* terminate *)

FinalInvoiceAmount(l, exitDay) == RentOf(l, DaysCharged(exitDay))

EndReadLease(r, l, exitDay, deduct) ==
  /\ At(r, "idle")
  /\ status[l] \in LiveStatus
  /\ req' = [req EXCEPT ![r] = [Idle EXCEPT !.pc = "endInvoices", !.id = l,
                                            !.final = FinalInvoiceAmount(l, exitDay),
                                            !.deduct = deduct]]
  /\ UNCHANGED tables

\* Mutant: what is outstanding is forgotten.
EndReadInvoices_None(r) ==
  /\ At(r, "endInvoices")
  /\ Goto(r, "endWrite")
  /\ UNCHANGED tables

EndReadInvoices(r) ==
  /\ At(r, "endInvoices")
  /\ req' = [req EXCEPT ![r].pc = "endWrite", ![r].owed = unpaid[req[r].id]]
  /\ UNCHANGED tables

TotalDeductions(q) == q.owed + q.final

\* Deductions below 0, where the open invoices are a credit, are added to the
\* deposit. Mutant: neither part is bounded by the deposit.
RefundRow_Negative(q) ==
  LET kept == IF q.deduct THEN TotalDeductions(q) ELSE 0
  IN  [exists |-> TRUE, amount |-> Deposit - kept, deductions |-> kept, isPaid |-> FALSE]

RefundRow(q) ==
  LET kept == IF ~ q.deduct THEN 0
              ELSE IF TotalDeductions(q) < Deposit THEN TotalDeductions(q) ELSE Deposit
  IN  [exists |-> TRUE, amount |-> Deposit - kept, deductions |-> kept, isPaid |-> FALSE]

\* The transaction: agreement, invoices, refund.  deposit_refunds is unique by
\* agreement, so a second refund rolls everything back.
CanSettle_Again(l) == Exists(l)   \* mutant: an upsert

CanSettle(l) == Exists(l) /\ ~ refund[l].exists

CloseInvoices(l) ==
  /\ open' = [open EXCEPT ![l] = {}]
  /\ unpaid' = [unpaid EXCEPT ![l] = 0]

\* Mutant: the refund is recorded only when something is deducted.
EndWrite_NoRefund(r) ==
  LET q == req[r] IN
  /\ At(r, "endWrite")
  /\ IF CanSettle(q.id)
       THEN /\ status' = [status EXCEPT ![q.id] = "TERMINATED"]
            /\ IF q.deduct THEN CloseInvoices(q.id) ELSE UNCHANGED <<open, unpaid>>
            /\ refund' = IF q.deduct THEN [refund EXCEPT ![q.id] = RefundRow(q)] ELSE refund
       ELSE UNCHANGED <<status, open, unpaid, refund>>
  /\ Finish(r)
  /\ UNCHANGED <<archived, roomArchived, tenantActive>>

EndWrite(r) ==
  LET q == req[r] IN
  /\ At(r, "endWrite")
  /\ IF CanSettle(q.id)
       THEN /\ status' = [status EXCEPT ![q.id] = "TERMINATED"]
            /\ IF q.deduct THEN CloseInvoices(q.id) ELSE UNCHANGED <<open, unpaid>>
            /\ refund' = [refund EXCEPT ![q.id] = RefundRow(q)]
       ELSE UNCHANGED <<status, open, unpaid, refund>>
  /\ Finish(r)
  /\ UNCHANGED <<archived, roomArchived, tenantActive>>

-----------------------------------------------------------------------------
(* markRefundPaid *)

RefundRead(r, l) ==
  /\ At(r, "idle")
  /\ refund[l].exists
  /\ ~ refund[l].isPaid
  /\ Start(r, "refundWrite", l)
  /\ UNCHANGED tables

RefundWrite(r) ==
  LET l == req[r].id IN
  /\ At(r, "refundWrite")
  /\ refund' = IF refund[l].exists THEN [refund EXCEPT ![l].isPaid = TRUE] ELSE refund
  /\ Finish(r)
  /\ UNCHANGED <<status, archived, open, unpaid, roomArchived, tenantActive>>

-----------------------------------------------------------------------------
(* delete, and the agreements of the trash: restoreItem, permanentDelete. *)

DeleteRead(r, l) ==
  /\ At(r, "idle")
  /\ Exists(l)
  /\ status[l] \notin LiveStatus
  /\ Start(r, "deleteWrite", l)
  /\ UNCHANGED tables

DeleteWrite(r) ==
  LET l == req[r].id IN
  /\ At(r, "deleteWrite")
  /\ archived' = IF Exists(l) THEN [archived EXCEPT ![l] = TRUE] ELSE archived
  /\ Finish(r)
  /\ UNCHANGED <<status, open, unpaid, refund, roomArchived, tenantActive>>

RestoreLease(r, l) ==
  /\ At(r, "idle")
  /\ archived[l]
  /\ archived' = [archived EXCEPT ![l] = FALSE]
  /\ UNCHANGED <<status, open, unpaid, refund, roomArchived, tenantActive, req>>

\* Of any agreement, archived or not, with its invoices and its refund.
PermanentDelete(r, l) ==
  /\ At(r, "idle")
  /\ Exists(l)
  /\ status' = [status EXCEPT ![l] = "deleted"]
  /\ archived' = [archived EXCEPT ![l] = FALSE]
  /\ CloseInvoices(l)
  /\ refund' = [refund EXCEPT ![l] = NoRefund]
  /\ UNCHANGED <<roomArchived, tenantActive, req>>

-----------------------------------------------------------------------------
(* RoomsService.archive and TenantsService.delete, and their restoration. *)

RoomRead(r, o) ==
  /\ At(r, "idle")
  /\ ActiveInRoom(o) = {}
  /\ Start(r, "roomWrite", o)
  /\ UNCHANGED tables

RoomWrite(r) ==
  /\ At(r, "roomWrite")
  /\ roomArchived' = [roomArchived EXCEPT ![req[r].id] = TRUE]
  /\ Finish(r)
  /\ UNCHANGED <<status, archived, open, unpaid, refund, tenantActive>>

TenantRead(r, t) ==
  /\ At(r, "idle")
  /\ ActiveOf(t) = {}
  /\ Start(r, "tenantWrite", t)
  /\ UNCHANGED tables

TenantWrite(r) ==
  /\ At(r, "tenantWrite")
  /\ tenantActive' = [tenantActive EXCEPT ![req[r].id] = FALSE]
  /\ Finish(r)
  /\ UNCHANGED <<status, archived, open, unpaid, refund, roomArchived>>

RestoreRoom(r, o) ==
  /\ At(r, "idle")
  /\ roomArchived[o]
  /\ roomArchived' = [roomArchived EXCEPT ![o] = FALSE]
  /\ UNCHANGED <<status, archived, open, unpaid, refund, tenantActive, req>>

RestoreTenant(r, t) ==
  /\ At(r, "idle")
  /\ ~ tenantActive[t]
  /\ tenantActive' = [tenantActive EXCEPT ![t] = TRUE]
  /\ UNCHANGED <<status, archived, open, unpaid, refund, roomArchived, req>>

-----------------------------------------------------------------------------
(* Steps of other components, each in a request of its own. *)

\* The nightly job: the ACTIVE agreements of S are past their end date.
MarkExpired(r, S) ==
  /\ At(r, "idle")
  /\ status' = [l \in Leases |-> IF l \in S /\ status[l] = "ACTIVE"
                                   THEN "EXPIRED" ELSE status[l]]
  /\ UNCHANGED <<archived, open, unpaid, refund, roomArchived, tenantActive, req>>

\* An invoice is made, by the monthly job or by hand, whatever the status of
\* the agreement; a late fee is added to one; one is paid.
Bill(r, l, total) ==
  /\ At(r, "idle")
  /\ Exists(l)
  /\ total \notin open[l]
  /\ open' = [open EXCEPT ![l] = @ \cup {total}]
  /\ unpaid' = [unpaid EXCEPT ![l] = @ + total]
  /\ UNCHANGED <<status, archived, refund, roomArchived, tenantActive, req>>

AddLateFee(r, l, old, new) ==
  /\ At(r, "idle")
  /\ old \in open[l]
  /\ new \notin open[l]
  /\ new > old
  /\ open' = [open EXCEPT ![l] = (@ \ {old}) \cup {new}]
  /\ unpaid' = [unpaid EXCEPT ![l] = @ - old + new]
  /\ UNCHANGED <<status, archived, refund, roomArchived, tenantActive, req>>

Pay(r, l, total) ==
  /\ At(r, "idle")
  /\ total \in open[l]
  /\ open' = [open EXCEPT ![l] = @ \ {total}]
  /\ unpaid' = [unpaid EXCEPT ![l] = @ - total]
  /\ UNCHANGED <<status, archived, refund, roomArchived, tenantActive, req>>

\* A request stops before its last statement.
Abort(r) ==
  /\ ~ At(r, "idle")
  /\ Finish(r)
  /\ UNCHANGED tables

-----------------------------------------------------------------------------
\* The routes of AgreementsController that write; the others only read. Which
\* role may call a route is not part of the model.
AgreementRoutes(r) ==
  \E l \in Leases :
    \/ CreateCheckLimit(r, l)
    \/ Activate(r, l)
    \/ AcceptInvitation(r, l)
    \/ LeaveReadLease(r, l)
    \/ \E exitDay \in 1..DaysInMonth, deduct \in BOOLEAN :
         EndReadLease(r, l, exitDay, deduct)
    \/ RefundRead(r, l)
    \/ DeleteRead(r, l)

\* A request of AgreementsController arrives, or one of another part that
\* touches leases: the trash, rooms, tenants, billing, payments, the nightly job.
Arrive(r) ==
  \/ AgreementRoutes(r)
  \/ \E l \in Leases : RestoreLease(r, l) \/ PermanentDelete(r, l)
  \/ \E l \in Leases, total \in Totals : Bill(r, l, total) \/ Pay(r, l, total)
  \/ \E l \in Leases, old, new \in Totals : AddLateFee(r, l, old, new)
  \/ \E o \in Rooms : RoomRead(r, o) \/ RestoreRoom(r, o)
  \/ \E t \in Tenants : TenantRead(r, t) \/ RestoreTenant(r, t)
  \/ \E S \in SUBSET Leases : MarkExpired(r, S)

Advance(r) ==
  \/ CreateCheckTenant(r)
  \/ CreateCheckRoom(r)
  \/ CreateCheckCapacity(r)
  \/ CreateInsert(r)
  \/ ActivateWrite(r)
  \/ LeaveReadInvoices(r)
  \/ LeaveWrite(r)
  \/ EndReadInvoices(r)
  \/ EndWrite(r)
  \/ RefundWrite(r)
  \/ DeleteWrite(r)
  \/ RoomWrite(r)
  \/ TenantWrite(r)

Next == \E r \in Requests : Arrive(r) \/ Advance(r) \/ Abort(r)

Spec == Init /\ [][Next]_vars
-----------------------------------------------------------------------------
(* What holds however many requests interleave. *)

\* terminate records the refund with the status: no TERMINATED agreement is
\* without its deposit refund.
TerminatedHasRefund ==
  \A l \in Leases : status[l] = "TERMINATED" => refund[l].exists

\* The deposit of each agreement as its parties see it.
Account(l) ==
  [phase |-> IF status[l] = "deleted" THEN "closed"
             ELSE IF ~ refund[l].exists THEN "held"
             ELSE IF refund[l].isPaid THEN "repaid" ELSE "split",
   amount     |-> refund[l].amount,
   deductions |-> refund[l].deductions]

D == INSTANCE Deposits WITH account <- [l \in Leases |-> Account(l)]

\* However terminations, payments of refunds and deletions overlap, a deposit
\* is split once, into deductions and a refund that add up to it, and the split
\* never changes. (Deductions below 0 are a credit that is paid out with it.)
DepositIsSplitOnce == D!Spec

\* The requests that may still write a status they read long ago: activate,
\* acceptInvitation and requestTermination update by id.
MayRevive == {"activateWrite", "leaveInvoices", "leaveWrite"}

Ended(l) ==
  /\ status[l] = "TERMINATED"
  /\ \A r \in Requests : req[r].id = l => req[r].pc \notin MayRevive

\* A termination can be overwritten, but only by requests that had looked at
\* the agreement before it: once these are over, whatever comes, the agreement
\* stays TERMINATED until it is deleted for good.
TerminationIsFinal ==
  [][\A l \in Leases : Ended(l) => Ended(l)' \/ status'[l] = "deleted"]_vars

-----------------------------------------------------------------------------
(* What holds while requests do not overlap. *)

L == INSTANCE LeaseLifecycle WITH
       phase <- status, settled <- {l \in Leases : refund[l].exists}

\* An agreement goes through its life without ever going back, and its deposit
\* is settled when it is terminated.
LivesOneLife == L!Spec

\* What the deposit covers of a cost.
Covered(cost) == IF cost < Deposit THEN cost ELSE Deposit

\* A termination that offsets closes every invoice the landlord was shown and
\* takes for them, and the last month, no less than the preview of the exit
\* day; and no more, if the tenant did not move in this month.
OffsetsAsShown(r, exitDay) ==
  LET q    == req[r]
      l    == q.id
      cost == Preview(l, exitDay).outstanding + Preview(l, exitDay).final
  IN  (/\ EndWrite(r) /\ CanSettle(l) /\ q.deduct
       /\ q.final = FinalInvoiceAmount(l, exitDay)) =>
        /\ AnswersLandlord(l)
        /\ open'[l] = {}
        /\ refund'[l].deductions >= Covered(cost)
        /\ StartDay[l] < 1 => refund'[l].deductions = Covered(cost)

OffsetMatchesPreview ==
  [][\A r \in Requests, exitDay \in 1..DaysInMonth : OffsetsAsShown(r, exitDay)]_vars

-----------------------------------------------------------------------------
(* What the code, its comments and messages say and requests can break. *)

\* "ENTIRE rooms allow only one active tenant", a shared room its capacity.
RoomIsNotOverLet == \A o \in Rooms : Cardinality(ActiveInRoom(o)) <= Capacity[o]
=============================================================================
