# Verification of the RentFlaw backend

TLA+ models, TLC runs and TLAPS proofs for the rental-management backend in
`src/` (NestJS, Prisma on PostgreSQL, BullMQ jobs).

## 1. The system

One Node process serves HTTP requests and runs the daily jobs; a deployment may
run several. All lasting state is in PostgreSQL, reached through Prisma. There
are no locks in the code except one `SELECT ... FOR UPDATE`, few transactions,
and few unique columns, so what makes the system hard is the same everywhere:

* every `await this.prisma...` is a point where other requests run;
* a transaction is READ COMMITTED: its reads lock nothing, its writes lock the
  rows until it ends, and an update by id does not look at what was read before;
* a request may stop between two statements (error, lost connection, the 5 s
  limit of an interactive transaction, a restart), and nothing resumes it;
* the outside calls again: PayHere repeats notifications, users press twice, the
  jobs may run in two processes.

| component | state | operations | talks to | hard because | correct when |
|---|---|---|---|---|---|
| payments (`payments.service.ts`) | `payment_submissions`: invoice, amount, status, `is_locked` | submit, approve, reject, PayHere parameters / notification / bypass | invoices (FIFO allocation), notifications | check-then-act on unlocked reads; a transaction inside a transaction; repeated notifications | an amount is applied once per approval; approved rows are final; rejection and approval exclude each other |
| invoices (`invoices.service.ts`) | `invoices`: status, amount, discount, late fee, total due | FIFO allocation, manual invoice, discount, overdue, late fee, monthly generation | payments, jobs, agreements, utilities | absolute writes computed from old reads; several writers of one total | totals, payments and credit add up; oldest first; PAID is final; one rent invoice per period |
| tenants (`tenants.service.ts`) | users with role TENANT, `credit_amount`, `tenant_code` | create, update, deactivate (one or many), pay out credit | payments (credit), agreements, subscriptions (limit) | read then reset of the credit; limit counted before the insert | no credit is lost or paid twice; the limit holds |
| agreements (`agreements.service.ts`) | `rental_agreements` status and archive flag, `deposit_refunds` | create, activate, accept, request termination, terminate, refund paid, archive | rooms, invoices, subscriptions | capacity and status are read long before they are used | a room is not over-let; TERMINATED is final; the deposit is settled once |
| jobs (`jobs/`) | BullMQ queues | 01:00 invoices, 02:00 overdue and expiry, 09:00 reminders | invoices, agreements, subscriptions | one attempt per day, partial progress, two workers | each period is billed; each step done despite a failure of another |
| subscriptions (`subscriptions.service.ts`, `subscription.middleware.ts`) | packages, landlord subscription, custom requests, bank payments | assign, cancel, approve / reject requests and payments, enforce limits | landlords, properties, staff, tenants, agreements | two-step approvals without status checks | a payment is approved once, for a package that exists; plan limits hold |
| properties, floors, rooms (`properties/`, `floors/`, `rooms/`) | the property tree with archive flags | create, update, archive, bulk archive | agreements, trash | archive decided on an earlier read of leases | nothing with a live lease is archived |
| trash (`trash.service.ts`) | archive flags | list, restore, delete for good | every archived table | deletion cascades by hand | a delete removes all or nothing; no restored child of an archived parent |
| staff, roles (`staff/`, `roles/`) | staff profile, custom roles, permissions | add / remove staff, fix access, edit and delete roles | users, subscriptions (limit) | role and profile are two writes | role and profile agree |
| utilities (`utilities.service.ts`) | `utility_bills` (one per invoice) | create bill | invoices (rewrites amount and total) | the invoice is rewritten whatever its status | a bill never disturbs a paid invoice |
| users, auth, landlords | users, sessions, landlord profiles | register, log in, activate, delete | everything | user and profile are two writes | a LANDLORD has a profile |
| notifications, messages, support, system, files, reports | rows nobody else reads, in-memory logs, object storage, none | send, list | (called after the state changes) | - | - |
| guards | none | check the token | - | - | - |

The enforcement middleware of subscriptions is never attached to a route; only
its `enforce*Limit` helpers are called.

## 2. The modules and the code

The same reading of the code is used in every module. A request (or a run of a
job) is a slot of `Requests` (or `Workers`) with a program counter `pc` and the
locals that live across an `await`; each database statement is one action, named
after what the code does there. A guard that throws is a branch that ends the
request. `Abort` ends a request before any later statement and rolls back what
its transaction has not committed; a transaction it called that is not nested in
its own goes on (`OuterTimeout`). What arrives is sorted by the controller it
comes through (`PaymentRoutes`, `AgreementRoutes`, ...): these operators list the
routes that write, and leave out which role may call them. A transaction is one
action when its first
write takes the row on which every other writer of what it touches waits, and
several when something can be observed in between.

| module | models | variables and their columns |
|---|---|---|
| `Payments` | `payments.service.ts` (submit, approve, reject, PayHere), `processFifoPayment`, `markOverdueInvoices`, `payoutCredit` for one tenant of one landlord | `invStatus`, `totalDue` (invoices), `subs` (payment_submissions), `credit` (users.credit_amount), `leaseActive`, `lock` (the row lock of SELECT ... FOR UPDATE), `req`; `applied`, `lateAborts`, `received`, `repaid` are history |
| `LeavingRules` | what the last month costs: the leaving rule, the days and the pro-rating, once as the preview computes them and once as `terminate` does | none: operators |
| `Leases` | `agreements.service.ts` with the preview of a termination, room `archive`, tenant `delete`, the agreement, room and tenant cases of the trash, `markExpiredAgreements` | `status`, `archived` (rental_agreements), `unpaid` (sum of its open invoices, below 0 if they are a credit), `refund` (deposit_refunds), `roomArchived`, `tenantActive`, `req` |
| `Billing` | every writer of an invoice's totals: `createManual`, `applyDiscount`, `applyLateFee`, `createUtilityBill`, the payment of one invoice, the overdue job | `inv` (invoices), `billed` (utility_bills), `credit`, `req`; `received` is history |
| `InvoiceJobs` | the 01:00 timer, the BullMQ queue, its workers, `generateMonthlyInvoices` | `day`, `rung`, `queue`, `active` (agreements), `made` (RENT invoices per month), `worker` |
| `Subscriptions` | `subscriptions.service.ts`, `markExpiredSubscriptions`, the plans of the trash | `plan` (subscription_packages), `sub` (landlord_subscriptions), `slip` (subscription_bank_payments), `ask` (custom_package_requests), `today`, `req`; `credited`, `offered` are history |
| `Premises` | `properties`, `floors`, `rooms`: create, archive, bulkArchive, the listings; their cases of the trash and those of agreements, tenants and landlords; the property limit | `item` (existence and `is_archived` of the three tables), `lease` (rental_agreements with invoice, what refers to the invoice, and deposit refund), `owner` (the landlord exists), `req` |
| `Staff` | `staff.service.ts`, roles' create and delete, `fixStaffGlobalRoles`, the staff limit, registration and deletion of users as staff sees them | `role` (custom_roles), `user` (users.global_role), `profile` (staff_profiles), `req` |
| `Accounts` | registration, `landlords.service.ts`, tenants' create / update / delete, `toggleActive`, `deleteUser`, the user and agreement cases of the trash | `account` (users with landlord profile), `lease` (rental_agreements with invoice and deposit refund), `req` |
| `LeaseLifecycle`, `Deposits` | what users may rely on: the life of an agreement, the fate of its deposit | abstract; `Leases` maps to them by INSTANCE |
| `SoftDelete` | what the trash promises: an item is listed or archived; deletion for good takes items once, with all below them and exactly the records anchored there, or nothing; records alone may be deleted too | abstract; `Premises` and `Accounts` map to it by INSTANCE |
| `MCPayments`, `MCLeases`, `MCInvoiceJobs`, `MCSubscriptions`, `MCPremises`, `MCStaff`, `MCAccounts` | constants and symmetry for TLC | - |
| `PaymentsProofs`, `LeasesProofs`, `BillingProofs`, `InvoiceJobsProofs`, `SubscriptionsProofs`, `PremisesProofs`, `StaffProofs`, `AccountsProofs` | theorems | - |

How they meet: `Payments.MarkOverdue` and `LeaseEnds` are the overdue job and
`Leases`' endings as a payment sees them; `Leases.Bill` and `Pay` are
`InvoiceJobs.Create` and `Payments.FifoCommit` as an agreement sees them;
`Billing.PayWrite` is `Payments.FifoCommit` for one invoice;
`InvoiceJobs.LeaseChanges` is any change of `Leases.status` to or from ACTIVE.
The agreements of `Premises` and `Accounts` are those of `Leases` with the detail
that archiving, deactivation and deletion look at: whether they run, what they
refer to, and whether an invoice or a deposit refund refers to them; each step of
theirs is a write of `Leases`, `InvoiceJobs`, `Payments` or `Billing`, or the trash's
deletion of agreements: of one agreement (all three modules), and of several with
their tenant, landlord, property, floor or room (`Premises` and `Accounts`). `Staff.Register` and `DeleteUser`
are `Accounts`' creation and deletion of users as staff sees them. The trash is
one service; its cases are actions of the module that owns the table.

Abstractions. Identities, names, texts, files and notifications are left out.
Money is whole cents (the columns are DECIMAL(10,2), and the one step that
divides is the pro-rating of a last month, `LeavingRules.Rounded`, which takes the
nearest cent; that floating-point division may fall on either side where the
exact quotient is half a cent is left out). Dates are left out: any PENDING
invoice may be past due and any ACTIVE agreement past its end, which includes
what real dates allow; an exit date is a day of a month of `DaysInMonth` days,
the same month for the preview and for `terminate`. The
calendar of `InvoiceJobs` has short months. `Payments` numbers the invoices by
due date, as the query sorts them. The amount of an approval is the amount of
the row that SELECT ... FOR UPDATE returned. What `findFirst` returns of several
rows is any of them. `Subscriptions` counts days, so that a cycle, a recent
payment and a lapse can be told apart; the limits of a plan are no part of it.
In `Premises` the tree (which floor, which room) is constant, what exists of it
is not; an agreement may name another property than its room's, as the code lets
it. In `Staff` and `Accounts` a user is an e-mail address; `Staff` lets an
address come back after its deletion, `Accounts` does not. The foreign keys of
`schema.prisma` are part of the step that deletes or inserts: without `onDelete`
the database refuses, with `Cascade` the rows go along. `permanentDelete` of the
tree is two readings and the deletions, as one step, since nobody sees them before
the commit; in that step they run one after another in the order written
(`Script`), and the first that leaves a row referring to nothing (`Left`) rolls all
back. The deletion of a tenant or the landlord takes agreements by one statement,
which any invoice or refund refuses; that of an agreement takes all of its own along.
In `Accounts` the role of an administrator is one of several that are neither
landlord's nor tenant's (`STAFF`).

Faults. Requests may stop between statements anywhere (`Abort`), an approval
after its allocation has committed (`LateAbort`), a transaction that finds no
connection (`PoolTimeout`). The allocation of an approval is a transaction of its
own on a connection of its own (`payments.service.ts:183`, `invoices.service.ts:294`):
when the approval's reaches its 5 s limit, its row lock and its connection are
released while the allocation goes on without them, and may commit or roll back
(`OuterTimeout`, the counters `orphanOpen` and `orphan`). An update that waits for
a locked row holds a connection meanwhile (`WaitForRow`); PayHere may notify never, late or twice; a job may
fail, stall and be given out again, or never be enqueued (`Fail`, `Crash`,
`MissRing`).

## 3. The runs

"concurrent" runs let the requests interleave and check what the code
guarantees all the same; "serial" runs have one request at a time and check what
it guarantees only then. A property of a serial run that is not in a concurrent
one is broken by an interleaving, and section 6 says by which.

| run | instance | what it shows |
|---|---|---|
| `payments_concurrent` | 2 requests, 2 invoices, 2 submissions, no lack of connections, allocations that outlive their approval | an approval commits on the row it locked (`ReviewedRowIsStable`); however stale what allocations write back, no more is forgiven than was received (`NothingIsForgiven`); no allocation touches a newer invoice while an older one stays open (`OldestFirst`); an allocation whose snapshot is current is the reference allocation (`FreshAllocationIsFifo`, a closed formula against the loop) |
| `payments_serial` | 1 request, 2 invoices, 2 submissions, 3 amounts | `MoneyIsConserved`, `LockedRowIsFrozen` |
| `payments_pool` | 2 requests, 2 connections, 1 submission, one rollback that its allocation survives | `AppliedAccounting` with rollbacks before and after the allocation's commit; `RequestsEnd`: two approvals that hold both connections and wait for a third, or an update that holds one and waits for the row, do not wait for ever |
| `leases_concurrent` | 3 requests, 1 agreement | `TerminatedHasRefund`; `Leases` implements `Deposits` (`DepositIsSplitOnce`), also where the open invoices are a credit; a termination is overwritten only by requests that had read the agreement before it (`TerminationIsFinal`) |
| `leases_serial` | 1 request, 2 agreements for one room with different leaving rules and start days, a month of 2 days | `Leases` implements `LeaseLifecycle` (`LivesOneLife`); a termination closes what the preview listed and keeps from the deposit no less than it showed (`OffsetMatchesPreview`) |
| `leases_overlet` | 1 request, 2 agreements for one room | finding: `RoomIsNotOverLet` fails |
| `billing_concurrent` | 2 requests or job runs, 1 invoice | `FreshWritesKeepTotals`, `OnlyStaleFeeReopens`; `OverdueIsCharged` under fairness |
| `invoicejobs_runs` | 1 worker, 3 agreements, 3 days in months of 2 | `OneRentPerPeriod`, `RunLeavesNoGap`; `JobsEnd` under fairness |
| `subscriptions_concurrent` | 2 requests, 1 landlord, 2 plans, a bank payment or a custom request, 4 days, cycles of 2 | `ApprovalsAreBacked`: whatever stops or overlaps, what is APPROVED was carried out; `PastDueIsPast`: no race with the overdue job leaves a fresh cycle PAST_DUE; of requests that run alone, `SwitchAsShown` (the price shown is the price that decides) |
| `premises_concurrent` | 2 requests, 2 properties, a floor and a room in one of them, 1 agreement with an invoice, its payments, its utility bill and a refund, a plan for 1 property | `NothingIsHidden` and the refinement of `SoftDelete` under any overlap of creation, archive, restore and signature with the deletion of items, agreements, tenants and the landlord; of requests that run alone, `ArchivedIsVacant` and `OnlyDepositsKeep` |
| `staff_concurrent` | 2 requests, a landlord and the platform, 2 roles, 3 users, a plan for 1 member | `RolesAreTheBosses`, `StaffLimitBound` under any overlap; of requests that run alone, `AloneLocksNobodyOut` (also if they stop half-way) |
| `accounts_concurrent` | 2 requests, 3 users, 1 agreement | `HalfMadeOnlyByStop`, `PapersOutliveAccounts` (no deletion of a user takes what an invoice or a deposit refers to) and the refinement of `SoftDelete`, under any overlap of these with the life and deletion of agreements |

Each module's `TypeOK` is checked in its first run. A property "of requests that
run alone" is about a request during which no other request, job or change of an
agreement took a step (`alone` in the request's record): so one run checks at
once what holds always and what holds of one request at a time, and the
overlapping steps are part of how the state came about.

Deadlock is checked in the runs of `Payments`, `Leases`, `Billing` and
`InvoiceJobs`, where a request may always arrive, except where a bound is
reached. It is not checked in `Subscriptions`, `Premises`, `Staff` and
`Accounts`: nothing in them waits for anything, and there is nothing left to do
once all rows that may exist have been used and deleted.

### Bounds, and why they are enough

* Two requests: every disagreement in section 6 is between two, and a third can
  only repeat one of them, except with a lock held by one and awaited by two,
  hence three in `leases_concurrent`. The theorems of section 5 have no bound.
* `NInvoices` = 2 with dues 2 and 1. Amounts 1, 2 and 4 in the serial run: below,
  at and above each due, and above their sum. In the concurrent
  run receipts are of 3, the sum, and leave credit once something else is paid, and
  PayHere brings the amounts of the dues themselves: 1, for the newer invoice, pays
  the older in part.
* `Submissions`: one row per way in (upload, PayHere), so that an approved or
  rejected row and a pending one exist together.
* `MaxLateAborts` = 1 (`MayOutlive`): one rollback that the allocation survives,
  before or after its commit, and with or after it further approvals, of the same
  submission or the other. `PoolSize` = 2 is one connection less than
  two approvals need to go on together; 4 is enough for all.
* `Deposit`, `Rent`, `DaysInMonth`, `Totals`: an invoice of 3, above the deposit,
  and one of -1, a credit, so that deductions are below 0, at 0, below, at and
  above the deposit. The two agreements of `leases_serial`: days stayed
  with a tenant of long standing, and days stayed with one who comes on the
  second; the one of `leases_concurrent`: the full month.
* `MaxReceived` in `Billing`: no payment starts on an invoice that has received
  as much; those in flight still commit. Discounts of 0 and above the amount,
  payments below and above the total; the fee is one amount.
* `MaxQueue` = 2: a job waits while another, or its stalled retry, is there.
  `MaxDay` = 3: a job may run on the day after its own and in the next month.
  `MaxPerPeriod` = 2 is one more than the property allows.
* `Subscriptions`: prices 1 and 2, a bank payment of 2, so that a payment covers
  both, one or none of the plans; a cycle of 2 days within 4 reaches a lapse and
  a renewal, a window of 1 day a payment that is no longer recent. `MaxPapers` = 1:
  a bank payment or a custom request, which meet only in the plans.
* `Premises`: the second property is there to be named by an agreement whose room
  is in the first, and to be archived with it. One agreement at a time, over one
  room, carries each property's violation. Its one invoice may have any of the
  rows that refer to invoices, which is what the order of the deletions is about.
* `Staff`: two roles of different bosses, three users so that two overlapping
  additions exceed a limit of 1 with the third already staff. `Accounts`: a
  landlord, a tenant and one more.

### Fairness

* `Payments`: strong fairness of each request's next statement, because
  PostgreSQL queues waiters for a row lock and Prisma queues waiters for a
  connection, so that one which becomes free over and over is granted in the
  end; weak fairness of `PoolTimeout`, which is Prisma's `maxWait` timer.
* `Billing`: weak fairness of a pending write of a request. Strong fairness of
  the job's steps: the timer rings every night, and a run that is broken off is
  followed by another; what is assumed is that runs do not fail for ever at the
  same statement of the same invoice. Without it the claim is false, as the loop
  stops at the first error.
* `InvoiceJobs`: weak fairness of each worker's next step. Crashes are not
  bounded by fairness: a job that stalls twice has failed, so each job is run at
  most twice, and the calendar of the instance is finite.

No fairness is assumed of users, of `Abort`, `OuterTimeout`, `Fail`, `Crash` or the environment. The four modules without a
liveness property state no fairness: their requests are straight lines of
statements that wait for nothing.

## 4. What would break the properties

Every checked property has a mutant in PROJECT.json: an operator beside the
original, marked "Mutant", that changes it as a plausible bug would (a check
dropped, an excess forgotten, a lock kept, a strict comparison), under which TLC
finds the property violated in the same run.

## 5. What is proved

tlapm checks these for all values of the constants that satisfy the module's
named assumption (`PaymentsAssumption`, `LeasesAssumption`, `BillingAssumption`,
`InvoiceJobsAssumption`, `SubscriptionsAssumption`, `PremisesAssumption`,
`StaffAssumption`, `AccountsAssumption`): types of the constants, that `None` is
none of them, and in `Premises` that the tree is one. The number of requests is
arbitrary, but where a theorem says `Requests = {w}` (or `Workers = {w}`): the
properties of the serial runs are false when requests overlap. Finiteness is
assumed only where a theorem counts: the requests and users of
`StaffAssumption`. Every safety property of a run that passes is a theorem.

`PaymentsProofs`:

* `TypeCorrect`, by `Typed` = `TypeOK` and `RowChosen` (a request that acts on a
  submission has chosen one). The content is in the loop: what remains of a
  payment never becomes negative, as a step subtracts only what is covered.
* `ReviewIsIsolated` (`ReviewedRowIsStable`), by `LockInv`: whoever is in the
  locked section holds the lock, whoever holds a lock is in the locked section,
  and rows that do not exist are not locked. Each action is sorted into "does
  not hold", "holds" and "releases", and a lemma per kind does the rest. An
  approval that times out releases the lock and leaves the section at once; the
  allocation it leaves behind holds nothing, and its commit touches no submission.
* `AppliedOncePerApproval` (`AppliedAccounting`), by `AccountInv` = `LockInv`
  and the property: the counting needs that the row which a commit locks was
  unlocked and in nobody else's hands, and that an allocation whose approval is
  gone is counted with the rollbacks from the moment it commits.
* `FifoOrder` (`OldestFirst`), by `LoopInv`: an invoice that is open and that
  the loop has not paid stands before every invoice the loop has changed, and it
  is still to come or the money is gone. It holds for any interleaving: the loop
  works on its own snapshot, and no other step of this module opens an invoice
  again.
* `AllocatesFifo` (`FreshAllocationIsFifo`), for any number of requests, by
  `AllocInv`. The loop is compared with a closed formula, in which each invoice
  gets what the sum of the older ones leaves; the invariant says so of the
  invoices the loop has behind it: what is left of the payment is the payment less
  the sum of what they took, the invoices to come are newer than all of them
  (`Allocates`), and no open invoice escapes the loop (`SeesOpen`).
* `NoPaymentIsInvented` (`NothingIsForgiven`), for any number of requests, by
  `CoverInv` = `LoopInv` and two parts. What the tables owe is not enough: a stale
  allocation writes back totals that were read long ago. So `KnownCovered` says of
  all totals anyone knows, those of the table or a snapshot that a loop has in
  hand, invoice by invoice in any mixture, that what they no longer demand,
  and the tenant's credit, was received; and `Accounts` says what a loop has
  handed out of its payment against its own snapshot.
* `NoCentIsLost` (`MoneyIsConserved`), with `Requests = {w}`, by `MoneyInv`: beside
  the property, that the request knows every total it is about to overwrite and
  the credit it is about to pay out (`KnowsMoney`), and has handed out exactly
  what is no longer left of the payment (`Balanced`). With two requests what
  one of them knows may be old, and the property is false (section 6).
* `LockedForGood` (`LockedRowIsFrozen`), with `Requests = {w}`, by `FrozenInv`: a
  request about to overwrite a submission has found it unlocked, and it still is.

Sums over invoices are recursive functions, and what holds of them for every
number of invoices needs induction. The library's induction theorems take an
operator, which the provers cannot instantiate; the lemmas `SetInduction` and
`InvoiceInduction` state it of a set of numbers instead (a set that contains 0 and
with j - 1 also j contains all of them, from the minimum of its complement:
`WFMin` and `NatLessThanWellFounded`). `SumsExist` shows by it that a function as
the recursion describes exists, which is what CHOOSE needs before `UpToUnfolds` can
say what a sum is; the others (`UpToTyped`, `UpToIsMonotonic`, `UpToIsLocal`,
`UpToAfterUpdate`, `TotalAfterUpdate`, `TotalOfPrefix`) follow by the same means.

`LeasesProofs`:

* `TypeCorrect` and `TerminationIsRecorded` (`TerminatedHasRefund`), by `IInv` =
  `TypeOK`, `RequestInv` (a row being created belongs to one request),
  `LeaseInv` (what is archived or has a refund exists, what is TERMINATED has a
  refund) and `RefundInv` (both parts of a refund add up to the deposit).
  `TypeOK` alone is not inductive: a termination could be recorded without
  its refund, and two requests could insert the same row. A refund is never
  negative; deductions are, and the refund exceeds the deposit, where the open
  invoices are a credit, and the types say so.
* `DepositsImplemented` (`DepositIsSplitOnce`): initial states map to initial
  states, and under `IInv` a termination maps to `Split` or a stutter, a
  confirmation to `Repay` or a stutter, a deletion for good to `Close`, and
  everything else to a stutter. What is shown is that both parts add up to the
  deposit, that the refund is natural, and that neither ever changes.
* `TerminationLasts` (`TerminationIsFinal`), for any number of requests, by `IInv`:
  an agreement is activated or put under notice only by a request that has it in
  hand, and no request takes it in hand any more once it is TERMINATED.
* `PreviewShowsNoMore`, of the operators alone: for any rent, month, rule and start
  day the preview of a day shows at most what `terminate` takes for it, and exactly
  that if the tenant came before this month. It rests on `Rounded` being monotonic.
* `OneLifeImplemented` (`LivesOneLife`) and
  `OffsetsWhatWasShown` (`OffsetMatchesPreview`), with `Requests = {w}`, by
  `IInv` and `Lone`: what the one request has read of its agreement (its status,
  its dues, that it has no refund) is still so, and only what is TERMINATED has a
  refund. The hypothesis is needed:
  section 6 says how a second request breaks both.

`BillingProofs`, by `IInv` = `TypeOK` and `Sound` of every request (what it has
checked of its input and of the row it read: the amount of a payment is
positive, a fee is about to be written only to a row that was not PAID when it
was read):

* `TypeCorrect`;
* `PaidIsFinalButForFees` (`OnlyStaleFeeReopens`): of all writes only `FeeWrite`
  sets a status other than PAID on an invoice that has one, and `Sound` says
  what it had read;
* `TotalsFollowColumns` (`FreshWritesKeepTotals`): one lemma per write says what
  it leaves in the row.

`InvoiceJobsProofs`, by `Typed` = `TypeOK` and that a worker about to create an
invoice has one of its agreements in hand:

* `TypeCorrect`, with a lemma on division for the month of a job that runs late;
* `NoRunLeavesAGap` (`RunLeavesNoGap`) for any number of workers, by `GapInv`:
  what a run has behind it has an invoice, and invoices are never taken away;
* `OneWorkerBillsOnce` (`OneRentPerPeriod`) under the hypothesis `Workers = {w}`,
  by `OnceInv`: what the idempotency check has found still holds when the
  invoice is created. With two workers it does not, and the property is false.

`SubscriptionsProofs`, by `IInv` = `TypeOK`, `RequestInv` (a request that is
about to mark a bank payment or a custom request APPROVED has assigned or
created its plan), `RowInv` (the plan of a subscription is there, whatever is
deleted meanwhile; a bank payment names a payer and a plan) and the two
properties:

* `TypeCorrect`: every assignment under way has a landlord and a plan;
* `ApprovedIsDone` (`ApprovalsAreBacked`): the mark is the last statement, and
  nothing undoes what came before it;
* `PastDueMeansPast` (`PastDueIsPast`): the overdue job is one statement with its
  condition in it, and days do not go back;
* `SwitchedAsShown` (`SwitchAsShown`), of requests that run alone.

The theorems about requests that run alone, here and in the next two modules,
hold for any number of requests. Each has an invariant `Lone` of its own: while the
record of a request says that it is alone, the others are idle and what it has
read is still in the tables. Another request that starts, a job and any change of
an agreement mark it as no longer alone, so only its own steps are left to look at.

`PremisesProofs`, by `IInv` = `TypeOK`, `Tasks` (what a request has in hand: the
rows which a deletion has read are under its item), `OneInsert` (no two requests
create one row), `Tree` and `Refs` (the foreign keys: what exists hangs on what
exists, and an agreement names what exists):

* `TypeCorrect`;
* `EverythingIsFound` (`NothingIsHidden`): of an item that exists all that is
  above it exists, each is listed or archived, and the uppermost archived one is
  in the trash;
* `TrashImplemented` (`ImplementsSoftDelete`): a commit of `permanentDelete` maps
  to a purge of all that is below the item and of the agreements anchored there,
  because the foreign keys let it pass only if the rows it had read were all there
  were; the deletion of the landlord to a purge of everything; that of agreements
  or of a tenant to their being discarded; a commit that is refused, and every other
  step, to creation, archiving, restoring or a stutter;
* `VacantOnes` (`ArchivedIsVacant`) and `DepositsAloneKeep` (`OnlyDepositsKeep`),
  of requests that run alone. By `Lone` a deletion has read all agreements, rooms
  and invoices below its item. The proof then goes through `Script` statement by
  statement and says of each table what the statements so far have taken: those
  that refer to an invoice before the invoices, these before the agreements, and
  so on up the tree, so that each foreign key but that of the deposit refunds,
  which no statement deletes, is served by an earlier one.

`StaffProofs`, by `IInv` = `TypeOK`, `RequestInv` (what an addition has checked of
its user and role), `RolesAreTheBosses` and `LimitInv` (a boss's members together
with the requests that have passed the limit are at most `MaxStaff` and the
requests less one):

* `TypeCorrect`;
* `RoleOfTheBoss` (`RolesAreTheBosses`): inductive by itself, thanks to the
  foreign keys from profile to role and user;
* `LimitExceededAtMostBy` (`StaffLimitBound`): a bound on the members alone is
  not inductive. `LimitInv` is: a request that passes the limit has found fewer
  than `MaxStaff` members, and the requests that have passed are at most the
  others and itself; inserting the profile moves a request from one count to the
  other;
* `NobodyLockedOut` (`AloneLocksNobodyOut`), of requests that run alone, also of
  those that stop half-way.

`AccountsProofs`, by `IInv` = `TypeOK`, `RequestInv`, `LeaseInv` (an agreement that
is not there is the empty record) and `HalfMadeOnlyByStop`. Every step is first
sorted by what it can do to one account and to one agreement:

* `TypeCorrect`;
* `WholeUnlessStopped` (`HalfMadeOnlyByStop`);
* `PapersStay` (`PapersOutliveAccounts`), an action property of the steps with
  which a user leaves: whether the agreements go by cascade or by a statement before
  the user, as in the trash's deletion of a landlord or tenant, none of the five
  ways deletes invoices or deposit refunds, and what refers to one stops it;
* `TrashImplemented` (`ImplementsSoftDelete`), where an agreement is a record
  anchored at two items, its landlord and its tenant, and may be discarded alone.

Only model-checked:

* liveness (`RequestsEnd`, `OverdueIsCharged`, `JobsEnd`): it rests on fairness and
  ENABLED, which the provers do not reach;
* `RoomIsNotOverLet`, which is false.

## 6. Where code and text disagree

With a run that shows it: two drafts for one free room are both activated
(`leases_overlet`).

In the models, seen while writing them, without a run of their own:

* an approval that rolls back late (`LateAbort`: the allocation is a transaction
  of its own) applies its amount, and the next approval applies it again; an
  approval that times out during its allocation (`OuterTimeout`) leaves it running
  without the row lock: the row may be approved again, rejected or overwritten
  before the allocation commits;
* two allocations for one tenant work on two snapshots, and the second erases
  what the first has paid;
* an activation or a request to leave that was read before it overwrites
  TERMINATED; the agreement runs with its deposit settled and can never be
  terminated again (so `LivesOneLife` holds only of one request at a time);
* where open invoices come to less than 0, as `createManual` allows, `terminate`
  records negative deductions and a refund above the deposit
  (`agreements.service.ts:394-400`);
* a partial payment is forgotten by the next discount, late fee or bill, which
  write a total computed from the columns alone;
* `submitPayment` updates a row by id that may have been approved since it was
  read (breaks `LockedRowIsFrozen` when requests interleave), and
  `rejectPayment` likewise;
* a PayHere notification delivered twice makes two submissions, and so does
  reject, pay by PayHere, upload again; both can be approved;
* a locked submission of a partial payment refuses every further receipt for
  its invoice (`payments.service.ts:71`);
* the approval e-mail says PAID whatever the allocation did;
* `payoutCredit` erases credit that was added after its read;
* the tenant limit counts ACTIVE agreements when a draft is made, not when it is
  activated; an archived draft can be activated; rooms and tenants are archived
  although drafts or agreements under notice name them;
* an invoice made or paid between the reads and the transaction of `terminate`
  breaks `OffsetMatchesPreview`; one made during a request to leave puts an
  agreement with dues under notice, which the preview refuses;
* the preview of a termination counts the days of a first month from the day the
  agreement starts (0 if it has not started), `terminate` counts from the first
  of the month whenever the tenant came: who leaves in the month of arrival is
  shown less than what is taken (`agreements.service.ts:300` against `:376`; hence
  only "no less" in `OffsetMatchesPreview`);
* `terminate` is open to staff (`agreements.controller.ts:69`), but the controller
  reads `user.landlord_profile.id`, which staff do not have: their call fails;
* two confirmations of one refund both succeed; a termination without deduction
  announces a final invoice that nobody makes;
* an EXPIRED agreement can neither be terminated nor have its deposit settled;
* a late fee that raced a payment reopens a PAID invoice at its full amount;
* `createManual` does not bound the discount, and any payment "covers" a
  negative total and leaves credit;
* a utility bill rewrites the amount of a PAID invoice, which stays PAID;
* invoices become OVERDUE the day after the due date, although comments speak of
  the grace period (`invoices.service.ts:170`, `schema.prisma:346`);
* two server processes, hence two workers, make duplicate invoices for a month;
  a day without a successful job, or whose job runs after midnight, leaves the
  agreements due on it without an invoice for that month.
* a PayHere notification for a subscription (order `SUB-...`) is looked up as an
  invoice, is answered "not found", and activates nothing;
* `createCustomRequest`'s approval creates its plan before it marks the request:
  stopped in between, the request can never be approved, as the name of the plan
  is taken; rejected bank payments and requests can be approved;
* a plan is archived although somebody subscribed since the count, and
  `assignSubscription` hands out archived plans;
* "No destructive deletes on operational data" (`schema.prisma:4`) against
  `permanentDelete`, which takes running agreements with their invoices and
  payments, whether or not the item is in the trash; the trash's "30-day
  countdown" counts to 0 and nothing happens there;
* deletion of a property, floor or room fails for ever once an agreement there
  has a deposit refund, which the deletions forget (`OnlyDepositsKeep`);
* an agreement's property is not compared with that of its room, and the
  archive of a property looks at the agreements that name it;
* the limit on properties is not looked at when one is restored;
* `removeStaff` makes every user a TENANT, also one who was a landlord or
  administrator before, and without a tenant code; its late revert locks out a
  user who was added again meanwhile; deletion of the profile from the trash
  leaves the role;
* `deleteRole`'s count can be overtaken by `addStaff`: the foreign key answers;
* suspending a user by `toggleActive` or by the update of a tenant looks at no
  agreement, `delete` does, but may be overtaken by an activation between its count
  and its write: the suspended party has an ACTIVE agreement;
* deletion of an agreement, tenant or landlord from the trash takes running
  agreements too, and that of a tenant or landlord fails for ever once an agreement
  of theirs has an invoice or a deposit refund, which only the deletion of the
  single agreement takes along;
* a registration that stops leaves a landlord without profile, whose address is
  taken and whom only deletion for good removes.

## 7. What is not modelled

* The subscription branch of PayHere: it ends before it changes anything (above).
* The permissions of a role (`addPermission`, `removePermission`,
  `updateRolePermissions`): with them the staff's state is beyond what TLC
  finishes in the time of a run, and nothing modelled here depends on them.
* Passwords, tokens, login and the guards: library calls, one overwritten hash,
  and stateless checks of a request. No route uses `PermissionsGuard`, so the
  permissions above decide nothing.
* Tenant codes: random, with a retry; their uniqueness is a column's.
* `SubscriptionEnforcementMiddleware`, which no route uses. A landlord without a
  subscription has no limits: in the models that is a limit nobody reaches.
* Updates of names, addresses, rents and bank details: no operation modelled
  here depends on them.
* Utility bills and staff profiles as items of the trash's listing: nothing
  archives either. Both are deleted with what they belong to (`Premises`, `Staff`).
* Notifications, messages, support, reports: rows that no other component reads,
  or reading only. Reminders: they send notifications. Files: object storage.
* The log ring and the maintenance flag of `SystemService`: in memory, of one
  process; the bank accounts of the platform: independent rows.

## 8. Plan

Built, in this order: `Payments` with its proofs, `Leases` with its abstract
specifications and proofs, `Billing` and `InvoiceJobs` with theirs,
`Subscriptions`, `Premises`, `Staff` and `Accounts` with the abstract trash
`SoftDelete`, and their proofs; then the properties of requests that run alone, the
serial properties of `Payments` and `Leases`, and the sums. Left:

* an abstract tenant's account (what was due, received and credited) which
  `Payments` implements with one request at a time: `NoCentIsLost` is its
  invariant;
* the refinement of `Payments.FifoCommit` by `Billing.PayWrite`, now only described;
* permissions, as a module of its own, if a run is given up for it and a route
  ever asks for them.
