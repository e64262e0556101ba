---------------------------- MODULE Subscriptions ----------------------------
(***************************************************************************)
(* The plans landlords subscribe to: SubscriptionsService, the step of the *)
(* overdue job that marks subscriptions PAST_DUE, and the plans of the     *)
(* trash.  One step per database statement; a lookup that only checks that *)
(* a row exists is part of the update by id that follows it, which fails   *)
(* by itself on a missing row.                                             *)
(*                                                                         *)
(* Time passes in days and all requests of a day come at the same hour.    *)
(* The limits of a plan and the fields that only the listings filter on    *)
(* are left out; of the unique name of a plan there remains that two       *)
(* custom plans of landlords with one name cannot be.  Notices to the      *)
(* administrators change nothing and their failures are swallowed.         *)
(***************************************************************************)
EXTENDS Integers, FiniteSets, FiniteSetsExt

CONSTANTS
  Requests,   \* slots for requests in flight
  Landlords,
  Plans,      \* rows of subscription_packages that may come to exist
  Slips,      \* rows of subscription_bank_payments
  Asks,       \* rows of custom_package_requests
  NameOf,     \* the name on a landlord's custom plan
  Prices,     \* prices of plans
  Amounts,    \* amounts of bank payments
  Cycle,      \* days of a billing cycle
  Window,     \* days an approved bank payment counts as recent
  MaxDay,     \* bound on the days that pass
  MaxPapers,  \* bound on the bank payments and custom requests together
  None

ASSUME SubscriptionsAssumption ==
  /\ Prices \subseteq Nat /\ Amounts \subseteq Nat
  /\ Cycle \in Nat \ {0}
  /\ Window \in Nat
  /\ MaxDay \in Nat
  /\ MaxPapers \in Nat
  /\ None \notin Landlords \cup Plans \cup Slips \cup Asks

VARIABLES
  plan,       \* subscription_packages
  sub,        \* landlord_subscriptions, unique by landlord
  slip,       \* subscription_bank_payments
  ask,        \* custom_package_requests
  today,
  req,        \* requests in flight
  credited,   \* history: the slips whose plan was assigned by an approval
  offered     \* history: the custom requests a plan was created for

tables == <<plan, sub, slip, ask>>
vars   == <<tables, today, req, credited, offered>>

-----------------------------------------------------------------------------
\* A row is created once: what is purged never comes back under its id.
NoPlan == [phase |-> "none", price |-> 0, target |-> None]
Plan   == [phase : {"none", "listed", "archived", "purged"}, price : Prices \cup {0},
           target : Landlords \cup {None}]

NoSub == [exists |-> FALSE, plan |-> None, status |-> "none", until |-> 0]
Sub   == [exists : BOOLEAN, plan : Plans \cup {None},
          status : {"none", "ACTIVE", "PAST_DUE"}, until : Nat]

NoSlip == [by |-> None, plan |-> None, amount |-> 0, day |-> 0, status |-> "none"]
Slip   == [by : Landlords \cup {None}, plan : Plans \cup {None},
           amount : Amounts \cup {0}, day : Nat,
           status : {"none", "PENDING_REVIEW", "APPROVED", "REJECTED", "purged"}]

NoAsk == [by |-> None, status |-> "none"]
Ask   == [by : Landlords \cup {None}, status : {"none", "PENDING", "APPROVED", "REJECTED"}]

\* alone: no other request has been in flight since this one came, and it is
\* still the same day.
Idle == [pc |-> "idle", by |-> None, plan |-> None, doc |-> None,
         price |-> 0, paid |-> 0, alone |-> TRUE]

Pcs == {"idle", "assignSub", "assignPaid", "assignSwitch", "assignUpsert",
        "slipMark", "askPlan", "askMark", "archive"}

Request == [pc : Pcs, by : Landlords \cup {None}, plan : Plans \cup {None},
            doc : Slips \cup Asks \cup {None}, price : Prices \cup {0},
            paid : Prices \cup {0}, alone : BOOLEAN]

TypeOK ==
  /\ plan \in [Plans -> Plan]
  /\ sub \in [Landlords -> Sub]
  /\ slip \in [Slips -> Slip]
  /\ ask \in [Asks -> Ask]
  /\ today \in 0..MaxDay
  /\ req \in [Requests -> Request]
  /\ credited \subseteq Slips
  /\ offered \subseteq Asks

Init ==
  /\ plan = [p \in Plans |-> NoPlan]
  /\ sub = [l \in Landlords |-> NoSub]
  /\ slip = [s \in Slips |-> NoSlip]
  /\ ask = [a \in Asks |-> NoAsk]
  /\ today = 0
  /\ req = [r \in Requests |-> Idle]
  /\ credited = {}
  /\ offered = {}

At(r, pc)  == req[r].pc = pc
Finish(r)  == req' = [req EXCEPT ![r] = Idle]
Goto(r, q) == req' = [req EXCEPT ![r] = q]

\* A request comes in: it and those in flight are no longer alone.
Busy(r) == \E o \in Requests \ {r} : ~ At(o, "idle")
Begin(r, q) ==
  /\ At(r, "idle")
  /\ req' = [o \in Requests |->
               IF o = r THEN [q EXCEPT !.alone = ~ Busy(r)]
               ELSE IF At(o, "idle") THEN req[o] ELSE [req[o] EXCEPT !.alone = FALSE]]

Disturb ==
  req' = [o \in Requests |->
            IF At(o, "idle") THEN req[o] ELSE [req[o] EXCEPT !.alone = FALSE]]

\* A request of one statement.
Single(r) == At(r, "idle") /\ Disturb

Unused(p)    == plan[p].phase = "none"
Exists(p)    == plan[p].phase \in {"listed", "archived"}
Papers == Cardinality({s \in Slips : slip[s].status # "none"})
            + Cardinality({a \in Asks : ask[a].status # "none"})
Submitted(s) == slip[s].status \in {"PENDING_REVIEW", "APPROVED", "REJECTED"}
Active(l) == sub[l].exists /\ sub[l].status = "ACTIVE" /\ sub[l].until > today

-----------------------------------------------------------------------------
(* Plans: createPackage, updatePackage, deletePackage and the trash. *)

CreatePackage(r, p, price) ==
  /\ Single(r)
  /\ Unused(p)
  /\ plan' = [plan EXCEPT ![p] = [NoPlan EXCEPT !.phase = "listed", !.price = price]]
  /\ UNCHANGED <<sub, slip, ask, today, credited, offered>>

UpdatePackage(r, p, price) ==
  /\ Single(r)
  /\ Exists(p)
  /\ plan' = [plan EXCEPT ![p].price = price]
  /\ UNCHANGED <<sub, slip, ask, today, credited, offered>>

Subscribers(p) == {l \in Landlords : sub[l].exists /\ sub[l].plan = p}

Ongoing(p) == {l \in Subscribers(p) : sub[l].status = "ACTIVE"}

DeleteCount(r, p) ==
  /\ Exists(p)
  /\ Ongoing(p) = {}
  /\ Begin(r, [Idle EXCEPT !.pc = "archive", !.plan = p])
  /\ UNCHANGED <<tables, today, credited, offered>>

DeleteWrite(r) ==
  LET p == req[r].plan IN
  /\ At(r, "archive")
  /\ plan' = IF Exists(p) THEN [plan EXCEPT ![p].phase = "archived"] ELSE plan
  /\ Finish(r)
  /\ UNCHANGED <<sub, slip, ask, today, credited, offered>>

RestorePlan(r, p) ==
  /\ Single(r)
  /\ Exists(p)
  /\ plan' = [plan EXCEPT ![p].phase = "listed"]
  /\ UNCHANGED <<sub, slip, ask, today, credited, offered>>

\* Of any plan, archived or not.  Subscriptions refer to their plan and forbid its
\* deletion; bank payments are deleted with it.
PurgePlan(r, p) ==
  /\ Single(r)
  /\ Exists(p)
  /\ Subscribers(p) = {}
  /\ plan' = [plan EXCEPT ![p] = [NoPlan EXCEPT !.phase = "purged"]]
  /\ slip' = [s \in Slips |-> IF slip[s].plan = p THEN [NoSlip EXCEPT !.status = "purged"]
                             ELSE slip[s]]
  /\ UNCHANGED <<sub, ask, today, credited, offered>>

-----------------------------------------------------------------------------
(* assignSubscription, called by upgrade and by the approval of a slip. *)

\* Its first statement: the plan, archived or not.
ReadPlan(q, l, p) ==
  [q EXCEPT !.pc = "assignSub", !.by = l, !.plan = p, !.price = plan[p].price]

Upgrade(r, l, p) ==
  /\ Exists(p)
  /\ Begin(r, ReadPlan(Idle, l, p))
  /\ UNCHANGED <<tables, today, credited, offered>>

AssignReadSub(r) ==
  LET q == req[r] IN
  /\ At(r, "assignSub")
  /\ Goto(r, IF Active(q.by)
               THEN [q EXCEPT !.pc = "assignPaid", !.paid = plan[sub[q.by].plan].price]
               ELSE [q EXCEPT !.pc = "assignUpsert"])
  /\ UNCHANGED <<tables, today, credited, offered>>

RecentlyPaid(l) ==
  {slip[s].amount : s \in {s \in Slips : /\ slip[s].by = l
                                         /\ slip[s].status = "APPROVED"
                                         /\ slip[s].day >= today - Window}}

\* getLandlordSubscription: the price up to which a switch is announced as free.
MaxPaidPrice(l) ==
  IF Active(l) THEN Max(RecentlyPaid(l) \cup {plan[sub[l].plan].price}) ELSE 0

\* Mutant: the plan a landlord has does not count as paid for.
IsCovered_PaidOnly(q) == q.price <= Max(RecentlyPaid(q.by) \cup {0})

IsCovered(q) == q.price <= Max(RecentlyPaid(q.by) \cup {q.paid})

AssignReadPaid(r) ==
  LET q == req[r] IN
  /\ At(r, "assignPaid")
  /\ Goto(r, [q EXCEPT !.pc = IF IsCovered(q) THEN "assignSwitch" ELSE "assignUpsert",
                       !.paid = 0])
  /\ UNCHANGED <<tables, today, credited, offered>>

\* What is left of the caller once the plan is assigned.
Assigned(r) ==
  /\ IF req[r].doc = None
       THEN Finish(r)
       ELSE Goto(r, [req[r] EXCEPT !.pc = "slipMark", !.plan = None, !.price = 0])
  /\ credited' = credited \cup ({req[r].doc} \cap Slips)

\* An update by landlord: an error if the subscription was cancelled, or the
\* plan purged, since it was read.
AssignSwitch(r) ==
  LET q == req[r] IN
  /\ At(r, "assignSwitch")
  /\ IF sub[q.by].exists /\ Exists(q.plan)
       THEN /\ sub' = [sub EXCEPT ![q.by].plan = q.plan, ![q.by].status = "ACTIVE"]
            /\ Assigned(r)
       ELSE Finish(r) /\ UNCHANGED <<sub, credited>>
  /\ UNCHANGED <<plan, slip, ask, today, offered>>

\* Mutants: the column's default; the update branch leaves the status.
Fresh_Default(l, p) ==
  [exists |-> TRUE, plan |-> p, until |-> today + Cycle, status |-> "TRIAL"]
Fresh_OldStatus(l, p) ==
  [exists |-> TRUE, plan |-> p, until |-> today + Cycle,
   status |-> IF sub[l].exists THEN sub[l].status ELSE "ACTIVE"]

Fresh(l, p) ==
  [exists |-> TRUE, plan |-> p, until |-> today + Cycle, status |-> "ACTIVE"]

AssignUpsert(r) ==
  LET q == req[r] IN
  /\ At(r, "assignUpsert")
  /\ IF Exists(q.plan)
       THEN /\ sub' = [sub EXCEPT ![q.by] = Fresh(q.by, q.plan)]
            /\ Assigned(r)
       ELSE Finish(r) /\ UNCHANGED <<sub, credited>>
  /\ UNCHANGED <<plan, slip, ask, today, offered>>

Cancel(r, l) ==
  /\ Single(r)
  /\ sub[l].exists
  /\ sub' = [sub EXCEPT ![l] = NoSub]
  /\ UNCHANGED <<plan, slip, ask, today, credited, offered>>

-----------------------------------------------------------------------------
(* Bank payments: submitBankPayment, approveBankPayment, rejectBankPayment. *)

SubmitSlip(r, s, l, p, amount) ==
  /\ Single(r)
  /\ slip[s].status = "none" /\ Papers < MaxPapers
  /\ Exists(p)
  /\ slip' = [slip EXCEPT ![s] = [by |-> l, plan |-> p, amount |-> amount,
                                  day |-> today, status |-> "PENDING_REVIEW"]]
  /\ UNCHANGED <<plan, sub, ask, today, credited, offered>>

\* Mutant: the slip is marked before its plan is assigned.
ApproveSlip_MarkFirst(r, s) ==
  /\ Submitted(s)
  /\ Exists(slip[s].plan)
  /\ slip' = [slip EXCEPT ![s].status = "APPROVED"]
  /\ Begin(r, ReadPlan([Idle EXCEPT !.doc = s], slip[s].by, slip[s].plan))
  /\ UNCHANGED <<plan, sub, ask, today, credited, offered>>

\* Whatever the status of the slip.
ApproveSlip(r, s) ==
  /\ Submitted(s)
  /\ Exists(slip[s].plan)
  /\ Begin(r, ReadPlan([Idle EXCEPT !.doc = s], slip[s].by, slip[s].plan))
  /\ UNCHANGED <<tables, today, credited, offered>>

SetSlip(s, status) ==
  slip' = IF Submitted(s) THEN [slip EXCEPT ![s].status = status] ELSE slip

ApproveMark(r) ==
  /\ At(r, "slipMark")
  /\ SetSlip(req[r].doc, "APPROVED")
  /\ Finish(r)
  /\ UNCHANGED <<plan, sub, ask, today, credited, offered>>

RejectSlip(r, s) ==
  /\ Single(r)
  /\ Submitted(s)
  /\ SetSlip(s, "REJECTED")
  /\ UNCHANGED <<plan, sub, ask, today, credited, offered>>

-----------------------------------------------------------------------------
(* Custom plans: createCustomRequest, approveCustomRequest, rejectCustomRequest. *)

CreateAsk(r, a, l) ==
  /\ Single(r)
  /\ ask[a].status = "none" /\ Papers < MaxPapers
  /\ ask' = [ask EXCEPT ![a] = [by |-> l, status |-> "PENDING"]]
  /\ UNCHANGED <<plan, sub, slip, today, credited, offered>>

\* Whatever the status of the request.
ApproveAsk(r, a, price) ==
  /\ ask[a].status # "none"
  /\ Begin(r, [Idle EXCEPT !.pc = "askPlan", !.by = ask[a].by, !.doc = a, !.price = price])
  /\ UNCHANGED <<tables, today, credited, offered>>

NameIsFree(l) ==
  \A p \in Plans : plan[p].target # None => NameOf[plan[p].target] # NameOf[l]

AskPlan(r, p) ==
  LET q == req[r] IN
  /\ At(r, "askPlan")
  /\ Unused(p)
  /\ IF NameIsFree(q.by)
       THEN /\ plan' = [plan EXCEPT ![p] = [phase |-> "listed", price |-> q.price,
                                            target |-> q.by]]
            /\ offered' = offered \cup {q.doc}
            /\ Goto(r, [q EXCEPT !.pc = "askMark", !.price = 0])
       ELSE Finish(r) /\ UNCHANGED <<plan, offered>>
  /\ UNCHANGED <<sub, slip, ask, today, credited>>

AskMark(r) ==
  /\ At(r, "askMark")
  /\ ask' = [ask EXCEPT ![req[r].doc].status = "APPROVED"]
  /\ Finish(r)
  /\ UNCHANGED <<plan, sub, slip, today, credited, offered>>

RejectAsk(r, a) ==
  /\ Single(r)
  /\ ask[a].status # "none"
  /\ ask' = [ask EXCEPT ![a].status = "REJECTED"]
  /\ UNCHANGED <<plan, sub, slip, today, credited, offered>>

-----------------------------------------------------------------------------
(* The overdue job, the calendar, and requests that stop half-way. *)

Lapsed(l) == sub[l].exists /\ sub[l].status = "ACTIVE" /\ sub[l].until < today

MarkExpiredSubscriptions ==
  /\ \E l \in Landlords : Lapsed(l)
  /\ sub' = [l \in Landlords |->
               IF Lapsed(l) THEN [sub[l] EXCEPT !.status = "PAST_DUE"] ELSE sub[l]]
  /\ UNCHANGED <<plan, slip, ask, today, req, credited, offered>>

DayPasses ==
  /\ today < MaxDay
  /\ today' = today + 1
  /\ Disturb
  /\ UNCHANGED <<tables, credited, offered>>

Abort(r) ==
  /\ ~ At(r, "idle")
  /\ Finish(r)
  /\ UNCHANGED <<tables, today, credited, offered>>

-----------------------------------------------------------------------------
\* The routes of SubscriptionsController that write: packages, the landlord's
\* own subscription, custom requests and bank transfers.
SubscriptionRoutes(r) ==
  \/ \E p \in Plans :
       \/ \E price \in Prices : CreatePackage(r, p, price) \/ UpdatePackage(r, p, price)
       \/ DeleteCount(r, p)
       \/ \E l \in Landlords :
            \/ Upgrade(r, l, p)
            \/ \E s \in Slips, amount \in Amounts : SubmitSlip(r, s, l, p, amount)
  \/ \E l \in Landlords : Cancel(r, l)
  \/ \E s \in Slips : ApproveSlip(r, s) \/ RejectSlip(r, s)
  \/ \E a \in Asks :
       \/ \E l \in Landlords : CreateAsk(r, a, l)
       \/ \E price \in Prices : ApproveAsk(r, a, price)
       \/ RejectAsk(r, a)

Arrive(r) == SubscriptionRoutes(r) \/ \E p \in Plans : RestorePlan(r, p) \/ PurgePlan(r, p)

Advance(r) ==
  \/ DeleteWrite(r)
  \/ AssignReadSub(r)
  \/ AssignReadPaid(r)
  \/ AssignSwitch(r)
  \/ AssignUpsert(r)
  \/ ApproveMark(r)
  \/ \E p \in Plans : AskPlan(r, p)
  \/ AskMark(r)

Next ==
  \/ \E r \in Requests : Arrive(r) \/ Advance(r) \/ Abort(r)
  \/ MarkExpiredSubscriptions
  \/ DayPasses

Spec == Init /\ [][Next]_vars
-----------------------------------------------------------------------------
(* Properties. *)

\* Whatever stops an approval half-way or overlaps it: a bank payment that is
\* APPROVED has had its plan assigned (approveBankPayment), and a custom
\* request that is APPROVED has had its plan created (approveCustomRequest).
ApprovalsAreBacked ==
  /\ \A s \in Slips : slip[s].status = "APPROVED" => s \in credited
  /\ \A a \in Asks : ask[a].status = "APPROVED" => a \in offered

\* A landlord who is PAST_DUE is past the end of the cycle: an assignment that
\* races the overdue job never leaves a fresh cycle PAST_DUE
\* (assignSubscription, markExpiredSubscriptions).
PastDueIsPast ==
  \A l \in Landlords : sub[l].status = "PAST_DUE" => sub[l].until < today

\* The landlord is shown a price (getLandlordSubscription) and an assignment
\* computes one for itself (assignSubscription).  When nothing else runs the two
\* agree: in a cycle that runs, a plan up to the price shown keeps the cycle
\* ("Allow instant switch preserving the billing cycle"), whoever pays or
\* approves what a second time, and a dearer one starts a cycle.
SwitchesAsShown(r) ==
  LET q == req[r] IN
  (AssignSwitch(r) \/ AssignUpsert(r)) /\ q.alone /\ Active(q.by) =>
    sub'[q.by].until = IF plan[q.plan].price <= MaxPaidPrice(q.by)
                         THEN sub[q.by].until ELSE today + Cycle

SwitchAsShown == [][\A r \in Requests : SwitchesAsShown(r)]_vars
=============================================================================
