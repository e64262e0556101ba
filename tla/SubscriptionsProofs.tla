------------------------- MODULE SubscriptionsProofs -------------------------
(***************************************************************************)
(* Theorems about Subscriptions for any requests, landlords, plans, papers,*)
(* prices and calendar.                                                    *)
(***************************************************************************)
EXTENDS Subscriptions, TLAPS

\* The program counters of assignSubscription.
AssignPcs == {"assignSub", "assignPaid", "assignSwitch", "assignUpsert"}

\* What a request has in hand: whoever is about to mark a bank payment or a
\* custom request has assigned or created its plan.
Sound(q) ==
  /\ q.pc \in AssignPcs => q.by \in Landlords /\ q.plan \in Plans /\ q.doc \in Slips \cup {None}
  /\ q.pc = "slipMark" => q.doc \in credited
  /\ q.pc = "askPlan" => q.doc \in Asks
  /\ q.pc = "askMark" => q.doc \in offered

RequestInv == \A r \in Requests : Sound(req[r])

\* A subscription has a plan, which is there (the foreign key), a bank payment a
\* plan and a payer.
RowInv ==
  /\ \A l \in Landlords : sub[l].exists => sub[l].plan \in Plans /\ Exists(sub[l].plan)
  /\ \A s \in Slips : Submitted(s) => slip[s].by \in Landlords /\ slip[s].plan \in Plans

IInv == TypeOK /\ RequestInv /\ RowInv /\ ApprovalsAreBacked /\ PastDueIsPast

-----------------------------------------------------------------------------
(* Records of requests. *)

\* The same request, up to what it knows of others.
SameTask(p, q) ==
  /\ p \in Request
  /\ p.pc = q.pc /\ p.by = q.by /\ p.plan = q.plan /\ p.doc = q.doc

OthersKeep(r) == \A o \in Requests \ {r} : SameTask(req'[o], req[o])
AllKeep       == \A o \in Requests : SameTask(req'[o], req[o])

\* The histories only grow.
Remembers == credited \subseteq credited' /\ offered \subseteq offered'

LEMMA IdleTyped == Idle \in Request /\ Idle.pc = "idle" /\ Sound(Idle)
  BY DEF Idle, Request, Pcs, Sound, AssignPcs

LEMMA RecordTyped ==
  ASSUME NEW q \in Request
  PROVE  SameTask(q, q) /\ \A v \in BOOLEAN : SameTask([q EXCEPT !.alone = v], q)
  BY DEF SameTask, Request

LEMMA DisturbStep ==
  ASSUME TypeOK, Disturb
  PROVE  req' \in [Requests -> Request] /\ AllKeep
  BY RecordTyped DEF TypeOK, Disturb, AllKeep, SameTask

LEMMA BeginStep ==
  ASSUME TypeOK, NEW r \in Requests, NEW q \in Request, Begin(r, q)
  PROVE  req' \in [Requests -> Request] /\ OthersKeep(r) /\ SameTask(req'[r], q)
<1>1. SameTask([q EXCEPT !.alone = ~ Busy(r)], q)
  BY RecordTyped DEF Busy
<1> QED
  BY <1>1, RecordTyped DEF TypeOK, Begin, OthersKeep, SameTask

LEMMA GotoStep ==
  ASSUME TypeOK, NEW r \in Requests, NEW q \in Request, Goto(r, q)
  PROVE  req' \in [Requests -> Request] /\ OthersKeep(r) /\ req'[r] = q
  BY RecordTyped DEF TypeOK, Goto, OthersKeep

LEMMA FinishStep ==
  ASSUME TypeOK, NEW r \in Requests, Finish(r)
  PROVE  req' \in [Requests -> Request] /\ OthersKeep(r) /\ req'[r] = Idle
  BY IdleTyped, RecordTyped DEF TypeOK, Finish, OthersKeep

\* The requests after a step of r, and after a step of nobody in particular.
LEMMA RequestsAfter ==
  ASSUME IInv, Remembers, NEW r \in Requests, req' \in [Requests -> Request], OthersKeep(r),
         NEW q, SameTask(req'[r], q), Sound(q) \/ q.pc = "slipMark" \/ q.pc = "askMark",
         q.pc = "slipMark" => q.doc \in credited', q.pc = "askMark" => q.doc \in offered'
  PROVE  RequestInv'
<1>1. ASSUME NEW o \in Requests \ {r} PROVE Sound(req[o])'
  BY DEF IInv, RequestInv, OthersKeep, SameTask, Sound, Remembers
<1>2. Sound(req[r])'
  BY DEF SameTask, Sound, AssignPcs, Remembers
<1> QED
  BY <1>1, <1>2 DEF RequestInv

LEMMA RequestsKept ==
  ASSUME IInv, Remembers, AllKeep
  PROVE  RequestInv'
<1>1. ASSUME NEW o \in Requests PROVE Sound(req[o])'
  BY DEF IInv, RequestInv, AllKeep, SameTask, Sound, Remembers
<1> QED
  BY <1>1 DEF RequestInv

\* Request r, which has nothing sound to lose, comes to its next statement.
LEMMA MoveOn ==
  ASSUME IInv, NEW r \in Requests, NEW q \in Request, Sound(q), Begin(r, q) \/ Goto(r, q),
         UNCHANGED <<credited, offered>>
  PROVE  req' \in [Requests -> Request] /\ RequestInv'
<1>1. req' \in [Requests -> Request] /\ OthersKeep(r) /\ SameTask(req'[r], q)
  BY BeginStep, GotoStep, RecordTyped DEF IInv
<1>2. q.pc = "slipMark" => q.doc \in credited'
  BY DEF Sound
<1>3. q.pc = "askMark" => q.doc \in offered'
  BY DEF Sound
<1> QED
  BY <1>1, <1>2, <1>3, RequestsAfter DEF Remembers

LEMMA Leave ==
  ASSUME IInv, NEW r \in Requests, Finish(r), UNCHANGED <<credited, offered>>
  PROVE  req' \in [Requests -> Request] /\ RequestInv'
<1>1. req' \in [Requests -> Request] /\ OthersKeep(r) /\ req'[r] = Idle
  BY FinishStep DEF IInv
<1>2. SameTask(req'[r], Idle) /\ Sound(Idle) /\ Idle.pc = "idle"
  BY <1>1, IdleTyped, RecordTyped
<1> QED
  BY <1>1, <1>2, RequestsAfter DEF Remembers

LEMMA Stays ==
  ASSUME IInv, Disturb, UNCHANGED <<credited, offered>>
  PROVE  req' \in [Requests -> Request] /\ RequestInv'
  BY DisturbStep, RequestsKept DEF IInv, Remembers

-----------------------------------------------------------------------------
(* The tables. *)

Typed ==
  /\ plan \in [Plans -> Plan]
  /\ sub \in [Landlords -> Sub]
  /\ slip \in [Slips -> Slip]
  /\ ask \in [Asks -> Ask]
  /\ today \in 0..MaxDay
  /\ credited \subseteq Slips
  /\ offered \subseteq Asks

Data == Typed /\ RowInv /\ ApprovalsAreBacked /\ PastDueIsPast

LEMMA InvParts ==
  IInv <=> Data /\ req \in [Requests -> Request] /\ RequestInv
  BY DEF IInv, Data, Typed, TypeOK

LEMMA NothingWritten ==
  ASSUME Data, UNCHANGED <<tables, today, credited, offered>>
  PROVE  Data'
  BY DEF Data, Typed, RowInv, Submitted, Exists, ApprovalsAreBacked, PastDueIsPast, tables

\* A step that takes no plan away.
PlansStay == \A p \in Plans : Exists(p) => Exists(p)'

LEMMA PlansWritten ==
  ASSUME Data, plan' \in [Plans -> Plan], PlansStay, UNCHANGED <<sub, slip, ask, today, credited>>,
         offered \subseteq offered', offered' \subseteq Asks
  PROVE  Data'
<1>1. \A l \in Landlords : (sub[l].exists => sub[l].plan \in Plans /\ Exists(sub[l].plan))'
  BY DEF Data, RowInv, PlansStay
<1> QED
  BY <1>1 DEF Data, Typed, RowInv, Submitted, ApprovalsAreBacked, PastDueIsPast

\* What the actions leave in the phase of a plan that they write.
LEMMA PlanStays ==
  ASSUME Data, NEW p \in Plans,
         \/ \E c \in Plan : c.phase = "listed" /\ plan' = [plan EXCEPT ![p] = c]
         \/ \E ph \in {"listed", "archived"} : plan' = [plan EXCEPT ![p].phase = ph]
         \/ \E price \in Prices : plan' = [plan EXCEPT ![p].price = price]
  PROVE  PlansStay
<1>1. plan \in [Plans -> Plan] /\ plan[p] \in Plan
  BY DEF Data, Typed
<1>2. plan'[p].phase \in {plan[p].phase, "listed", "archived"}
  BY <1>1 DEF Plan
<1>3. \A o \in Plans \ {p} : plan'[o] = plan[o]
  BY <1>1
<1> QED
  BY <1>2, <1>3 DEF PlansStay, Exists

\* One plan gets another phase, price or landlord.
LEMMA PlanTyped ==
  ASSUME Data, NEW p \in Plans
  PROVE  /\ plan[p] \in Plan
         /\ \A c \in Plan : [plan EXCEPT ![p] = c] \in [Plans -> Plan]
         /\ \A ph \in {"listed", "archived"} : [plan EXCEPT ![p].phase = ph] \in [Plans -> Plan]
         /\ \A c \in Prices : [plan EXCEPT ![p].price = c] \in [Plans -> Plan]
<1>1. plan \in [Plans -> Plan] /\ plan[p] \in Plan
  BY DEF Data, Typed
<1>2. \A ph \in {"listed", "archived"} : [plan[p] EXCEPT !.phase = ph] \in Plan
  BY <1>1 DEF Plan
<1>3. \A c \in Prices : [plan[p] EXCEPT !.price = c] \in Plan
  BY <1>1 DEF Plan
<1>4. \A ph : [plan EXCEPT ![p].phase = ph] = [plan EXCEPT ![p] = [plan[p] EXCEPT !.phase = ph]]
  OBVIOUS
<1>5. \A c : [plan EXCEPT ![p].price = c] = [plan EXCEPT ![p] = [plan[p] EXCEPT !.price = c]]
  OBVIOUS
<1>6. \A c \in Plan : [plan EXCEPT ![p] = c] \in [Plans -> Plan]
  BY <1>1
<1> QED
  BY <1>1, <1>2, <1>3, <1>4, <1>5, <1>6

LEMMA SubWritten ==
  ASSUME Data, NEW l \in Landlords, NEW s \in Sub, s.exists => s.plan \in Plans /\ Exists(s.plan),
         s.status # "PAST_DUE", sub' = [sub EXCEPT ![l] = s],
         UNCHANGED <<plan, slip, ask, today, offered>>,
         credited \subseteq credited', credited' \subseteq Slips
  PROVE  Data'
<1>1. \A p : Exists(p)' <=> Exists(p)
  BY DEF Exists
<1> QED
  BY <1>1 DEF Data, Typed, RowInv, Submitted, ApprovalsAreBacked, PastDueIsPast

LEMMA SlipWritten ==
  ASSUME Data, NEW s \in Slips, NEW c \in Slip, c.by \in Landlords, c.plan \in Plans,
         c.status = "APPROVED" => s \in credited, slip' = [slip EXCEPT ![s] = c],
         UNCHANGED <<plan, sub, ask, today, credited, offered>>
  PROVE  Data'
  BY DEF Data, Typed, RowInv, Submitted, Exists, ApprovalsAreBacked, PastDueIsPast

LEMMA AskWritten ==
  ASSUME Data, NEW a \in Asks, NEW c \in Ask, c.status = "APPROVED" => a \in offered,
         ask' = [ask EXCEPT ![a] = c], UNCHANGED <<plan, sub, slip, today, credited, offered>>
  PROVE  Data'
  BY DEF Data, Typed, RowInv, Submitted, Exists, ApprovalsAreBacked, PastDueIsPast

LEMMA PurgeData ==
  ASSUME Data, NEW r \in Requests, NEW p \in Plans, PurgePlan(r, p)
  PROVE  Data'
<1>1. [NoPlan EXCEPT !.phase = "purged"] \in Plan
  BY DEF NoPlan, Plan
<1>2. plan' \in [Plans -> Plan]
  BY <1>1, PlanTyped DEF PurgePlan
<1> DEFINE lost == [NoSlip EXCEPT !.status = "purged"]
<1>3. lost \in Slip /\ lost.status = "purged"
  BY DEF NoSlip, Slip
<1>4. /\ slip' = [s \in Slips |-> IF slip[s].plan = p THEN lost ELSE slip[s]]
      /\ UNCHANGED <<sub, ask, today, credited, offered>>
  BY DEF PurgePlan
<1> HIDE DEF lost
<1>5. \A l \in Landlords : sub[l].exists => sub[l].plan \in Plans \ {p} /\ Exists(sub[l].plan)
  BY DEF Data, RowInv, PurgePlan, Subscribers
<1>6. \A o \in Plans \ {p} : plan'[o] = plan[o]
  BY DEF PurgePlan, Data, Typed
<1>7. \A l \in Landlords : (sub[l].exists => sub[l].plan \in Plans /\ Exists(sub[l].plan))'
  BY <1>4, <1>5, <1>6 DEF Exists
<1> QED
  BY <1>2, <1>3, <1>4, <1>7 DEF Data, Typed, RowInv, Submitted, ApprovalsAreBacked, PastDueIsPast

LEMMA SetSlipData ==
  ASSUME Data, NEW s \in Slips, NEW status \in {"APPROVED", "REJECTED"}, SetSlip(s, status),
         status = "APPROVED" => s \in credited, UNCHANGED <<plan, sub, ask, today, credited, offered>>
  PROVE  Data'
<1>1. CASE Submitted(s)
  <2> DEFINE c == [slip[s] EXCEPT !.status = status]
  <2>1. slip[s] \in Slip /\ slip[s].by \in Landlords /\ slip[s].plan \in Plans
    BY <1>1 DEF Data, Typed, RowInv
  <2>2. c \in Slip /\ c.by = slip[s].by /\ c.plan = slip[s].plan /\ c.status = status
    BY <2>1 DEF Slip
  <2>3. slip' = [slip EXCEPT ![s] = c]
    BY <1>1 DEF SetSlip
  <2> HIDE DEF c
  <2> QED
    BY <2>1, <2>2, <2>3, SlipWritten
<1>2. CASE ~ Submitted(s)
  BY <1>2, NothingWritten DEF SetSlip, tables
<1> QED
  BY <1>1, <1>2

LEMMA SetAskData ==
  ASSUME Data, NEW a \in Asks, NEW status \in {"APPROVED", "REJECTED"},
         ask' = [ask EXCEPT ![a].status = status],
         status = "APPROVED" => a \in offered, UNCHANGED <<plan, sub, slip, today, credited, offered>>
  PROVE  Data'
<1> DEFINE c == [ask[a] EXCEPT !.status = status]
<1>1. ask[a] \in Ask
  BY DEF Data, Typed
<1>2. c \in Ask /\ c.status = status
  BY <1>1 DEF Ask
<1>3. ask' = [ask EXCEPT ![a] = c]
  OBVIOUS
<1> HIDE DEF c
<1> QED
  BY <1>2, <1>3, AskWritten

LEMMA JobData ==
  ASSUME Data, MarkExpiredSubscriptions
  PROVE  Data'
<1>1. \A l \in Landlords : sub[l] \in Sub /\ [sub[l] EXCEPT !.status = "PAST_DUE"] \in Sub
  BY DEF Data, Typed, Sub
<1>2. \A l \in Landlords :
        /\ sub'[l] \in Sub /\ sub'[l].exists = sub[l].exists /\ sub'[l].plan = sub[l].plan
        /\ sub'[l].until = sub[l].until
        /\ sub'[l].status = "PAST_DUE" => sub[l].status = "PAST_DUE" \/ sub[l].until < today
  BY <1>1 DEF MarkExpiredSubscriptions, Lapsed, Sub
<1>3. sub' = [l \in Landlords |-> sub'[l]]
  BY DEF MarkExpiredSubscriptions
<1>4. UNCHANGED <<plan, slip, ask, today, credited, offered>>
  BY DEF MarkExpiredSubscriptions
<1> QED
  BY <1>2, <1>3, <1>4 DEF Data, Typed, RowInv, Submitted, Exists, ApprovalsAreBacked, PastDueIsPast

LEMMA DayData ==
  ASSUME Data, DayPasses
  PROVE  Data'
<1>1. \A l \in Landlords : sub[l] \in Sub
  BY DEF Data, Typed
<1>2. \A l \in Landlords : sub[l].until < today => sub[l].until < today + 1
  BY <1>1, SubscriptionsAssumption DEF Sub, Data, Typed
<1>3. today' \in 0..MaxDay
  BY SubscriptionsAssumption DEF DayPasses, Data, Typed
<1> QED
  BY <1>2, <1>3 DEF DayPasses, tables, Data, Typed, RowInv, Submitted, Exists, ApprovalsAreBacked, PastDueIsPast

-----------------------------------------------------------------------------
(* The statements of assignSubscription. *)

LEMMA ReadPlanSound ==
  ASSUME Data, NEW l \in Landlords, NEW p \in Plans, NEW q \in Request, q.doc \in Slips \cup {None}
  PROVE  ReadPlan(q, l, p) \in Request /\ Sound(ReadPlan(q, l, p))
<1> DEFINE n == ReadPlan(q, l, p)
<1>1. plan[p].price \in Prices \cup {0}
  BY DEF Data, Typed, Plan
<1>2. n \in Request /\ n.pc = "assignSub" /\ n.by = l /\ n.plan = p /\ n.doc = q.doc
  BY <1>1 DEF ReadPlan, Request, Pcs
<1> HIDE DEF n
<1>3. n \in Request /\ Sound(n)
  BY <1>2 DEF Sound, AssignPcs
<1> QED
  BY <1>3 DEF n

LEMMA AssignReadSubInv ==
  ASSUME IInv, NEW r \in Requests, AssignReadSub(r)
  PROVE  req' \in [Requests -> Request] /\ RequestInv'
<1> DEFINE q    == req[r]
           paid == plan[sub[q.by].plan].price
           n1   == [q EXCEPT !.pc = "assignPaid", !.paid = paid]
           n2   == [q EXCEPT !.pc = "assignUpsert"]
<1>1. q \in Request /\ q.by \in Landlords /\ q.plan \in Plans /\ q.doc \in Slips \cup {None}
  BY DEF AssignReadSub, At, IInv, TypeOK, RequestInv, Sound, AssignPcs
<1>2. Active(q.by) => paid \in Prices \cup {0}
  BY <1>1 DEF Active, IInv, TypeOK, RowInv, Plan
<1>3. n2 \in Request /\ n2.pc = "assignUpsert" /\ n2.by = q.by /\ n2.plan = q.plan /\ n2.doc = q.doc
  <2> HIDE DEF q
  <2> QED
    BY <1>1 DEF Request, Pcs
<1>4. Active(q.by) => /\ n1 \in Request /\ n1.pc = "assignPaid" /\ n1.by = q.by
                      /\ n1.plan = q.plan /\ n1.doc = q.doc
  <2> HIDE DEF q, paid
  <2> QED
    BY <1>1, <1>2 DEF Request, Pcs
<1>5. Goto(r, IF Active(q.by) THEN n1 ELSE n2) /\ UNCHANGED <<credited, offered>>
  BY DEF AssignReadSub
<1> HIDE DEF q, n1, n2
<1>6. Sound(n2) /\ (Active(q.by) => Sound(n1))
  BY <1>1, <1>3, <1>4 DEF Sound, AssignPcs
<1>7. CASE Active(q.by)
  BY <1>4, <1>5, <1>6, <1>7, MoveOn
<1>8. CASE ~ Active(q.by)
  BY <1>3, <1>5, <1>6, <1>8, MoveOn
<1> QED
  BY <1>7, <1>8

LEMMA AssignReadPaidInv ==
  ASSUME IInv, NEW r \in Requests, AssignReadPaid(r)
  PROVE  req' \in [Requests -> Request] /\ RequestInv'
<1> PICK pc \in {"assignSwitch", "assignUpsert"} : Goto(r, [req[r] EXCEPT !.pc = pc, !.paid = 0])
  BY DEF AssignReadPaid
<1> DEFINE q == req[r]
           n == [q EXCEPT !.pc = pc, !.paid = 0]
<1>1. q \in Request /\ q.by \in Landlords /\ q.plan \in Plans /\ q.doc \in Slips \cup {None}
  BY DEF AssignReadPaid, At, IInv, TypeOK, RequestInv, Sound, AssignPcs
<1>2. n \in Request /\ n.pc = pc /\ n.by = q.by /\ n.plan = q.plan /\ n.doc = q.doc
  <2> HIDE DEF q
  <2> QED
    BY <1>1 DEF Request, Pcs
<1>3. Goto(r, n) /\ UNCHANGED <<credited, offered>>
  BY DEF AssignReadPaid
<1> HIDE DEF q, n
<1>4. Sound(n)
  BY <1>1, <1>2 DEF Sound, AssignPcs
<1> QED
  BY <1>2, <1>3, <1>4, MoveOn

\* The plan is assigned: what is left is to mark the bank payment, if there is one.
LEMMA AssignedInv ==
  ASSUME IInv, NEW r \in Requests, req[r].pc \in {"assignSwitch", "assignUpsert"}, Assigned(r),
         UNCHANGED offered
  PROVE  /\ req' \in [Requests -> Request] /\ RequestInv'
         /\ credited \subseteq credited' /\ credited' \subseteq Slips
<1> DEFINE q == req[r]
           n == [q EXCEPT !.pc = "slipMark", !.plan = None, !.price = 0]
<1>1. q \in Request /\ q.doc \in Slips \cup {None}
  BY DEF IInv, TypeOK, RequestInv, Sound, AssignPcs
<1>2. Remembers /\ credited' = credited \cup ({q.doc} \cap Slips) /\ credited' \subseteq Slips
  BY DEF Assigned, Remembers, IInv, TypeOK
<1>3. CASE q.doc = None
  <2>1. Finish(r)
    BY <1>3 DEF Assigned
  <2>2. req' \in [Requests -> Request] /\ OthersKeep(r) /\ req'[r] = Idle
    BY <2>1, FinishStep DEF IInv
  <2>3. SameTask(req'[r], Idle) /\ Sound(Idle) /\ Idle.pc = "idle"
    BY <2>2, IdleTyped, RecordTyped
  <2> QED
    BY <1>2, <2>2, <2>3, RequestsAfter DEF Remembers
<1>4. CASE q.doc # None
  <2>1. Goto(r, n)
    BY <1>4 DEF Assigned
  <2>2. n \in Request /\ n.pc = "slipMark" /\ n.doc = q.doc
    <3> HIDE DEF q
    <3> QED
      BY <1>1 DEF Request, Pcs
  <2>3. n.doc \in credited'
    BY <1>1, <1>2, <1>4, <2>2
  <2> HIDE DEF n, q
  <2>4. req' \in [Requests -> Request] /\ OthersKeep(r) /\ SameTask(req'[r], n)
    BY <2>1, <2>2, GotoStep, RecordTyped DEF IInv
  <2> QED
    BY <1>2, <2>2, <2>3, <2>4, RequestsAfter DEF Remembers
<1> QED
  BY <1>3, <1>4

LEMMA AssignSwitchInv ==
  ASSUME IInv, NEW r \in Requests, AssignSwitch(r)
  PROVE  IInv'
<1> DEFINE q == req[r]
<1>1. q.by \in Landlords /\ q.plan \in Plans /\ Data /\ q.pc = "assignSwitch"
  BY InvParts DEF AssignSwitch, At, IInv, RequestInv, Sound, AssignPcs
<1>2. CASE sub[q.by].exists /\ Exists(q.plan)
  <2> DEFINE s == [sub[q.by] EXCEPT !.plan = q.plan, !.status = "ACTIVE"]
  <2>1. /\ sub' = [sub EXCEPT ![q.by].plan = q.plan, ![q.by].status = "ACTIVE"]
        /\ Assigned(r) /\ UNCHANGED <<plan, slip, ask, today, offered>>
    BY <1>2 DEF AssignSwitch
  <2>2. s \in Sub /\ s.plan = q.plan /\ s.status = "ACTIVE"
    <3>1. sub[q.by] \in Sub
      BY <1>1 DEF Data, Typed
    <3> HIDE DEF q
    <3> QED
      BY <1>1, <3>1 DEF Sub
  <2>3. sub' = [sub EXCEPT ![q.by] = s]
    BY <1>1, <2>1 DEF Data, Typed
  <2>4. /\ req' \in [Requests -> Request] /\ RequestInv'
        /\ credited \subseteq credited' /\ credited' \subseteq Slips
    BY <1>1, <2>1, AssignedInv
  <2> HIDE DEF s, q
  <2>5. Data'
    BY <1>1, <1>2, <2>1, <2>2, <2>3, <2>4, SubWritten DEF q
  <2> QED
    BY <2>4, <2>5 DEF IInv, Data, Typed, TypeOK
<1>3. CASE ~ (sub[q.by].exists /\ Exists(q.plan))
  <2>1. Finish(r) /\ UNCHANGED <<tables, today, credited, offered>>
    BY <1>3 DEF AssignSwitch, tables
  <2>2. Data' /\ req' \in [Requests -> Request] /\ RequestInv'
    BY <1>1, <2>1, NothingWritten, Leave
  <2> QED
    BY <2>2 DEF IInv, Data, Typed, TypeOK
<1> QED
  BY <1>2, <1>3

LEMMA AssignUpsertInv ==
  ASSUME IInv, NEW r \in Requests, AssignUpsert(r)
  PROVE  IInv'
<1> DEFINE q == req[r]
<1>1. q.by \in Landlords /\ q.plan \in Plans /\ Data /\ q.pc = "assignUpsert"
  BY InvParts DEF AssignUpsert, At, IInv, RequestInv, Sound, AssignPcs
<1>2. CASE Exists(q.plan)
  <2>1. /\ sub' = [sub EXCEPT ![q.by] = Fresh(q.by, q.plan)]
        /\ Assigned(r) /\ UNCHANGED <<plan, slip, ask, today, offered>>
    BY <1>2 DEF AssignUpsert
  <2>2. today + Cycle \in Nat
    BY <1>1, SubscriptionsAssumption DEF Data, Typed
  <2>3. /\ Fresh(q.by, q.plan) \in Sub /\ Fresh(q.by, q.plan).plan = q.plan
        /\ Fresh(q.by, q.plan).status = "ACTIVE"
    BY <1>1, <2>2 DEF Fresh, Sub
  <2>4. /\ req' \in [Requests -> Request] /\ RequestInv'
        /\ credited \subseteq credited' /\ credited' \subseteq Slips
    BY <1>1, <2>1, AssignedInv
  <2> HIDE DEF q
  <2>5. Data'
    BY <1>1, <1>2, <2>1, <2>3, <2>4, SubWritten DEF q
  <2> QED
    BY <2>4, <2>5 DEF IInv, Data, Typed, TypeOK
<1>3. CASE ~ Exists(q.plan)
  <2>1. Finish(r) /\ UNCHANGED <<tables, today, credited, offered>>
    BY <1>3 DEF AssignUpsert, tables
  <2>2. Data' /\ req' \in [Requests -> Request] /\ RequestInv'
    BY <1>1, <2>1, NothingWritten, Leave
  <2> QED
    BY <2>2 DEF IInv, Data, Typed, TypeOK
<1> QED
  BY <1>2, <1>3

-----------------------------------------------------------------------------
(* The other requests. *)

LEMMA SingleInv ==
  ASSUME IInv, NEW r \in Requests, Single(r), UNCHANGED <<credited, offered>>, Data'
  PROVE  IInv'
<1>1. req' \in [Requests -> Request] /\ RequestInv'
  BY Stays DEF Single
<1> QED
  BY <1>1 DEF IInv, Data, Typed, TypeOK

LEMMA PackageInv ==
  ASSUME IInv, NEW r \in Requests, NEW p \in Plans,
         \/ \E price \in Prices : CreatePackage(r, p, price) \/ UpdatePackage(r, p, price)
         \/ RestorePlan(r, p)
         \/ PurgePlan(r, p)
  PROVE  IInv'
<1>1. Data
  BY InvParts
<1>2. CASE PurgePlan(r, p)
  BY <1>1, <1>2, PurgeData, SingleInv DEF PurgePlan
<1>3. ASSUME Single(r), plan' \in [Plans -> Plan], PlansStay, UNCHANGED <<sub, slip, ask, today, credited, offered>>
      PROVE  IInv'
  <2>1. Data'
    BY <1>1, <1>3, PlansWritten DEF Data, Typed
  <2> QED
    BY <1>3, <2>1, SingleInv
<1>4. ASSUME NEW price \in Prices, CreatePackage(r, p, price) PROVE IInv'
  <2>1. [NoPlan EXCEPT !.phase = "listed", !.price = price] \in Plan
    BY DEF NoPlan, Plan
  <2>2. plan' \in [Plans -> Plan] /\ PlansStay
    BY <1>1, <1>4, <2>1, PlanTyped, PlanStays DEF CreatePackage, NoPlan
  <2> QED
    BY <1>3, <1>4, <2>2 DEF CreatePackage
<1>5. ASSUME NEW price \in Prices, UpdatePackage(r, p, price) PROVE IInv'
  <2>1. plan' \in [Plans -> Plan] /\ PlansStay
    BY <1>1, <1>5, PlanTyped, PlanStays DEF UpdatePackage
  <2> QED
    BY <1>3, <1>5, <2>1 DEF UpdatePackage
<1>6. CASE RestorePlan(r, p)
  <2>1. plan' \in [Plans -> Plan] /\ PlansStay
    BY <1>1, <1>6, PlanTyped, PlanStays DEF RestorePlan
  <2> QED
    BY <1>3, <1>6, <2>1 DEF RestorePlan
<1> QED
  BY <1>2, <1>4, <1>5, <1>6

LEMMA PaperInv ==
  ASSUME IInv, NEW r \in Requests,
         \/ \E l \in Landlords : Cancel(r, l)
         \/ \E l \in Landlords, p \in Plans, s \in Slips, amount \in Amounts : SubmitSlip(r, s, l, p, amount)
         \/ \E s \in Slips : RejectSlip(r, s)
         \/ \E a \in Asks, l \in Landlords : CreateAsk(r, a, l)
         \/ \E a \in Asks : RejectAsk(r, a)
  PROVE  IInv'
<1>1. Data
  BY InvParts
<1>2. ASSUME NEW l \in Landlords, Cancel(r, l) PROVE IInv'
  <2>1. NoSub \in Sub /\ ~ NoSub.exists /\ NoSub.status # "PAST_DUE"
    BY DEF NoSub, Sub
  <2>2. Data'
    BY <1>1, <1>2, <2>1, SubWritten DEF Cancel, Data, Typed
  <2> QED
    BY <1>2, <2>2, SingleInv DEF Cancel
<1>3. ASSUME NEW l \in Landlords, NEW p \in Plans, NEW s \in Slips, NEW amount \in Amounts,
             SubmitSlip(r, s, l, p, amount)
      PROVE  IInv'
  <2> DEFINE c == [by |-> l, plan |-> p, amount |-> amount, day |-> today, status |-> "PENDING_REVIEW"]
  <2>1. c \in Slip /\ c.by = l /\ c.plan = p /\ c.status = "PENDING_REVIEW"
    BY <1>1, SubscriptionsAssumption DEF Slip, Data, Typed
  <2>2. slip' = [slip EXCEPT ![s] = c] /\ UNCHANGED <<plan, sub, ask, today, credited, offered>>
    BY <1>3 DEF SubmitSlip
  <2> HIDE DEF c
  <2>3. Data'
    BY <1>1, <2>1, <2>2, SlipWritten
  <2> QED
    BY <1>3, <2>3, SingleInv DEF SubmitSlip
<1>4. ASSUME NEW s \in Slips, RejectSlip(r, s) PROVE IInv'
  <2>1. Data'
    BY <1>1, <1>4, SetSlipData DEF RejectSlip
  <2> QED
    BY <1>4, <2>1, SingleInv DEF RejectSlip
<1>5. ASSUME NEW a \in Asks, NEW l \in Landlords, CreateAsk(r, a, l) PROVE IInv'
  <2> DEFINE c == [by |-> l, status |-> "PENDING"]
  <2>1. c \in Ask /\ c.status = "PENDING"
    BY DEF Ask
  <2>2. Data'
    BY <1>1, <1>5, <2>1, AskWritten DEF CreateAsk
  <2> QED
    BY <1>5, <2>2, SingleInv DEF CreateAsk
<1>6. ASSUME NEW a \in Asks, RejectAsk(r, a) PROVE IInv'
  <2>1. Data'
    BY <1>1, <1>6, SetAskData DEF RejectAsk
  <2> QED
    BY <1>6, <2>1, SingleInv DEF RejectAsk
<1> QED
  BY <1>2, <1>3, <1>4, <1>5, <1>6

\* A request that begins with a look at the tables.
LEMMA BeginInv ==
  ASSUME IInv, NEW r \in Requests,
         \/ \E p \in Plans : DeleteCount(r, p) \/ \E l \in Landlords : Upgrade(r, l, p)
         \/ \E s \in Slips : ApproveSlip(r, s)
         \/ \E a \in Asks, price \in Prices : ApproveAsk(r, a, price)
  PROVE  IInv'
<1>1. Data
  BY InvParts
<1>2. ASSUME NEW q \in Request, Sound(q), Begin(r, q), UNCHANGED <<tables, today, credited, offered>>
      PROVE  IInv'
  <2>1. Data' /\ req' \in [Requests -> Request] /\ RequestInv'
    BY <1>1, <1>2, NothingWritten, MoveOn
  <2> QED
    BY <2>1 DEF IInv, Data, Typed, TypeOK
<1>3. ASSUME NEW p \in Plans, DeleteCount(r, p) PROVE IInv'
  <2> DEFINE q == [Idle EXCEPT !.pc = "archive", !.plan = p]
  <2>1. q \in Request /\ q.pc = "archive"
    BY DEF Idle, Request, Pcs
  <2>2. Begin(r, q) /\ UNCHANGED <<tables, today, credited, offered>>
    BY <1>3 DEF DeleteCount
  <2> HIDE DEF q
  <2>3. Sound(q)
    BY <2>1 DEF Sound, AssignPcs
  <2> QED
    BY <1>2, <2>1, <2>2, <2>3
<1>4. ASSUME NEW p \in Plans, NEW l \in Landlords, Upgrade(r, l, p) PROVE IInv'
  <2>1. Idle \in Request /\ Idle.doc \in Slips \cup {None}
    BY IdleTyped DEF Idle
  <2>2. ReadPlan(Idle, l, p) \in Request /\ Sound(ReadPlan(Idle, l, p))
    BY <1>1, <2>1, ReadPlanSound
  <2> QED
    BY <1>2, <1>4, <2>2 DEF Upgrade
<1>5. ASSUME NEW s \in Slips, ApproveSlip(r, s) PROVE IInv'
  <2> DEFINE q == [Idle EXCEPT !.doc = s]
  <2>1. q \in Request /\ q.doc \in Slips \cup {None}
    BY DEF Idle, Request, Pcs
  <2>2. slip[s].by \in Landlords /\ slip[s].plan \in Plans
    BY <1>1, <1>5 DEF ApproveSlip, Data, RowInv
  <2>3. Begin(r, ReadPlan(q, slip[s].by, slip[s].plan)) /\ UNCHANGED <<tables, today, credited, offered>>
    BY <1>5 DEF ApproveSlip
  <2> HIDE DEF q
  <2>4. /\ ReadPlan(q, slip[s].by, slip[s].plan) \in Request
        /\ Sound(ReadPlan(q, slip[s].by, slip[s].plan))
    BY <1>1, <2>1, <2>2, ReadPlanSound
  <2> QED
    BY <1>2, <2>3, <2>4
<1>6. ASSUME NEW a \in Asks, NEW price \in Prices, ApproveAsk(r, a, price) PROVE IInv'
  <2> DEFINE q == [Idle EXCEPT !.pc = "askPlan", !.by = ask[a].by, !.doc = a, !.price = price]
  <2>1. ask[a].by \in Landlords \cup {None}
    BY <1>1 DEF Data, Typed, Ask
  <2>2. q \in Request /\ q.pc = "askPlan" /\ q.doc = a
    BY <2>1 DEF Idle, Request, Pcs
  <2>3. Begin(r, q) /\ UNCHANGED <<tables, today, credited, offered>>
    BY <1>6 DEF ApproveAsk
  <2> HIDE DEF q
  <2>4. Sound(q)
    BY <2>2 DEF Sound, AssignPcs
  <2> QED
    BY <1>2, <2>2, <2>3, <2>4
<1> QED
  BY <1>3, <1>4, <1>5, <1>6

\* The last statements of an archive and of the two approvals.
LEMMA FinishInv ==
  ASSUME IInv, NEW r \in Requests, Finish(r), UNCHANGED <<credited, offered>>, Data'
  PROVE  IInv'
<1>1. req' \in [Requests -> Request] /\ RequestInv'
  BY Leave
<1> QED
  BY <1>1 DEF IInv, Data, Typed, TypeOK

LEMMA DeleteWriteInv ==
  ASSUME IInv, NEW r \in Requests, DeleteWrite(r)
  PROVE  IInv'
<1> DEFINE p == req[r].plan
<1>1. Data
  BY InvParts
<1>2. CASE p \in Plans /\ Exists(p)
  <2>1. plan' \in [Plans -> Plan] /\ PlansStay
    BY <1>1, <1>2, PlanTyped, PlanStays DEF DeleteWrite
  <2>2. Data'
    BY <1>1, <2>1, PlansWritten DEF DeleteWrite, Data, Typed
  <2> QED
    BY <2>2, FinishInv DEF DeleteWrite
<1>3. CASE ~ (p \in Plans /\ Exists(p))
  <2>1. plan' = plan
    BY <1>1, <1>3 DEF DeleteWrite, Data, Typed
  <2>2. Data'
    BY <1>1, <2>1, NothingWritten DEF DeleteWrite, tables
  <2> QED
    BY <2>2, FinishInv DEF DeleteWrite
<1> QED
  BY <1>2, <1>3

LEMMA MarksInv ==
  ASSUME IInv, NEW r \in Requests, ApproveMark(r) \/ AskMark(r)
  PROVE  IInv'
<1>1. Data
  BY InvParts
<1>2. CASE ApproveMark(r)
  <2>1. req[r].doc \in credited /\ req[r].doc \in Slips
    BY <1>2 DEF ApproveMark, At, IInv, RequestInv, Sound, TypeOK
  <2>2. Data'
    BY <1>1, <1>2, <2>1, SetSlipData DEF ApproveMark
  <2> QED
    BY <1>2, <2>2, FinishInv DEF ApproveMark
<1>3. CASE AskMark(r)
  <2>1. req[r].doc \in offered /\ req[r].doc \in Asks
    BY <1>3 DEF AskMark, At, IInv, RequestInv, Sound, TypeOK
  <2>2. Data'
    BY <1>1, <1>3, <2>1, SetAskData DEF AskMark
  <2> QED
    BY <1>3, <2>2, FinishInv DEF AskMark
<1> QED
  BY <1>2, <1>3

LEMMA AskPlanInv ==
  ASSUME IInv, NEW r \in Requests, NEW p \in Plans, AskPlan(r, p)
  PROVE  IInv'
<1> DEFINE q == req[r]
           c == [phase |-> "listed", price |-> q.price, target |-> q.by]
           n == [q EXCEPT !.pc = "askMark", !.price = 0]
<1>1. Data /\ q \in Request /\ q.doc \in Asks
  BY InvParts DEF AskPlan, At, IInv, TypeOK, RequestInv, Sound
<1>2. CASE NameIsFree(q.by)
  <2>1. /\ plan' = [plan EXCEPT ![p] = c] /\ offered' = offered \cup {q.doc} /\ Goto(r, n)
        /\ UNCHANGED <<sub, slip, ask, today, credited>>
    BY <1>2 DEF AskPlan
  <2>2. c \in Plan /\ c.phase = "listed"
    BY <1>1 DEF Plan, Request
  <2>3. n \in Request /\ n.pc = "askMark" /\ n.doc = q.doc
    <3> HIDE DEF q
    <3> QED
      BY <1>1 DEF Request, Pcs
  <2> HIDE DEF c, n, q
  <2>4. Data' /\ Remembers
    BY <1>1, <2>1, <2>2, PlanTyped, PlanStays, PlansWritten DEF Remembers, Data, Typed
  <2>5. req' \in [Requests -> Request] /\ OthersKeep(r) /\ SameTask(req'[r], n) /\ n.doc \in offered'
    BY <2>1, <2>3, GotoStep, RecordTyped DEF IInv
  <2>6. RequestInv'
    BY <2>3, <2>4, <2>5, RequestsAfter
  <2> QED
    BY <2>4, <2>5, <2>6 DEF IInv, Data, Typed, TypeOK
<1>3. CASE ~ NameIsFree(q.by)
  <2>1. Finish(r) /\ UNCHANGED <<tables, today, credited, offered>>
    BY <1>3 DEF AskPlan, tables
  <2> QED
    BY <1>1, <2>1, NothingWritten, FinishInv
<1> QED
  BY <1>2, <1>3

-----------------------------------------------------------------------------
(* The theorems. *)

LEMMA InitInv == Init => IInv
<1> SUFFICES ASSUME Init PROVE IInv
  OBVIOUS
<1>1. NoPlan \in Plan /\ NoSub \in Sub /\ NoSlip \in Slip /\ NoAsk \in Ask
  BY DEF NoPlan, Plan, NoSub, Sub, NoSlip, Slip, NoAsk, Ask
<1>2. TypeOK
  BY <1>1, IdleTyped, SubscriptionsAssumption DEF Init, TypeOK
<1>3. RequestInv
  BY IdleTyped DEF Init, RequestInv
<1>4. RowInv /\ ApprovalsAreBacked /\ PastDueIsPast
  BY DEF Init, RowInv, ApprovalsAreBacked, PastDueIsPast, Submitted, NoSub, NoSlip, NoAsk
<1> QED
  BY <1>2, <1>3, <1>4 DEF IInv

LEMMA AdvanceInv ==
  ASSUME IInv, NEW r \in Requests, Advance(r)
  PROVE  IInv'
<1>1. Data
  BY InvParts
<1>2. CASE AssignReadSub(r)
  <2>1. Data' /\ req' \in [Requests -> Request] /\ RequestInv'
    BY <1>1, <1>2, NothingWritten, AssignReadSubInv DEF AssignReadSub
  <2> QED
    BY <2>1 DEF IInv, Data, Typed, TypeOK
<1>3. CASE AssignReadPaid(r)
  <2>1. Data' /\ req' \in [Requests -> Request] /\ RequestInv'
    BY <1>1, <1>3, NothingWritten, AssignReadPaidInv DEF AssignReadPaid
  <2> QED
    BY <2>1 DEF IInv, Data, Typed, TypeOK
<1>4. CASE DeleteWrite(r)
  BY <1>4, DeleteWriteInv
<1>5. CASE AssignSwitch(r) \/ AssignUpsert(r)
  BY <1>5, AssignSwitchInv, AssignUpsertInv
<1>6. CASE ApproveMark(r) \/ AskMark(r)
  BY <1>6, MarksInv
<1>7. CASE \E p \in Plans : AskPlan(r, p)
  BY <1>7, AskPlanInv
<1> QED
  BY <1>2, <1>3, <1>4, <1>5, <1>6, <1>7 DEF Advance

LEMMA NextInv == IInv /\ [Next]_vars => IInv'
<1> SUFFICES ASSUME IInv, [Next]_vars PROVE IInv'
  OBVIOUS
<1>1. Data
  BY InvParts
<1>2. CASE UNCHANGED vars
  <2>1. Data'
    BY <1>1, <1>2, NothingWritten DEF vars
  <2>2. RequestInv' /\ req' \in [Requests -> Request]
    BY <1>2 DEF vars, IInv, TypeOK, RequestInv, Sound
  <2> QED
    BY <2>1, <2>2 DEF IInv, Data, Typed, TypeOK
<1>3. ASSUME NEW r \in Requests, Arrive(r) PROVE IInv'
  BY <1>3, PackageInv, PaperInv, BeginInv DEF Arrive, SubscriptionRoutes
<1>4. ASSUME NEW r \in Requests, Abort(r) PROVE IInv'
  BY <1>1, <1>4, NothingWritten, FinishInv DEF Abort
<1>5. CASE MarkExpiredSubscriptions
  <2>1. Data' /\ RequestInv' /\ req' \in [Requests -> Request]
    BY <1>1, <1>5, JobData DEF MarkExpiredSubscriptions, IInv, TypeOK, RequestInv, Sound
  <2> QED
    BY <2>1 DEF IInv, Data, Typed, TypeOK
<1>6. CASE DayPasses
  <2>1. Data' /\ RequestInv' /\ req' \in [Requests -> Request]
    BY <1>1, <1>6, DayData, Stays DEF DayPasses
  <2> QED
    BY <2>1 DEF IInv, Data, Typed, TypeOK
<1> QED
  BY <1>2, <1>3, <1>4, <1>5, <1>6, AdvanceInv DEF Next

LEMMA InvAlways == Spec => []IInv
  BY InitInv, NextInv, PTL DEF Spec

\* Plans, subscriptions, papers and requests keep their types: every assignment
\* under way has a landlord and a plan (assignSubscription and its callers).
THEOREM TypeCorrect == Spec => []TypeOK
<1>1. IInv => TypeOK
  BY DEF IInv
<1> QED
  BY <1>1, InvAlways, PTL

\* What is APPROVED was carried out (approveBankPayment, approveCustomRequest).
THEOREM ApprovedIsDone == Spec => []ApprovalsAreBacked
<1>1. IInv => ApprovalsAreBacked
  BY DEF IInv
<1> QED
  BY <1>1, InvAlways, PTL

\* No race with the overdue job leaves a fresh cycle PAST_DUE
\* (assignSubscription, markExpiredSubscriptions).
THEOREM PastDueMeansPast == Spec => []PastDueIsPast
<1>1. IInv => PastDueIsPast
  BY DEF IInv
<1> QED
  BY <1>1, InvAlways, PTL

-----------------------------------------------------------------------------
(* Requests that run alone.  What such a request has read still holds, since *)
(* every step of another request and every new day ends its being alone; the *)
(* overdue job, which does not, leaves subscriptions that run as they are.   *)

\* The price the landlord is shown covers the plan.
ShownFree(l, p) == plan[p].price <= MaxPaidPrice(l)

\* What an assignment with the record q has read, and decided on.
Known(q) ==
  q.pc \in AssignPcs =>
    /\ Exists(q.plan) /\ q.price = plan[q.plan].price
    /\ q.pc = "assignPaid" => Active(q.by) /\ q.paid = plan[sub[q.by].plan].price
    /\ q.pc = "assignSwitch" /\ Active(q.by) => ShownFree(q.by, q.plan)
    /\ q.pc = "assignUpsert" /\ Active(q.by) => ~ ShownFree(q.by, q.plan)

\* A request that runs alone is the only one, and what it knows is so.
Lone == \A r \in Requests : req[r].alone /\ ~ At(r, "idle") =>
          /\ \A o \in Requests \ {r} : At(o, "idle")
          /\ Known(req[r])

LEMMA LoneDisturb ==
  ASSUME TypeOK, Disturb
  PROVE  Lone'
<1>1. \A o \in Requests : req'[o].alone => req'[o].pc = "idle"
  BY DEF Disturb, At, TypeOK, Request
<1> QED
  BY <1>1 DEF Lone, At

\* What is known before a step that changes no table is so after it.
LEMMA KnownKept ==
  ASSUME UNCHANGED <<plan, sub, slip, today>>, NEW r, NEW q, req'[r] = q, Known(q)
  PROVE  Known(req[r])'
  BY DEF Known, Exists, Active, ShownFree, MaxPaidPrice, RecentlyPaid

LEMMA LoneBegins ==
  ASSUME TypeOK, NEW r \in Requests, UNCHANGED <<tables, today>>, NEW new \in Request,
         Begin(r, new), Known(new)
  PROVE  Lone'
<1> DEFINE mine == [new EXCEPT !.alone = ~ Busy(r)]
           other(o) == IF At(o, "idle") THEN req[o] ELSE [req[o] EXCEPT !.alone = FALSE]
<1>1. /\ mine.pc = new.pc /\ mine.by = new.by /\ mine.plan = new.plan /\ mine.price = new.price
      /\ mine.paid = new.paid /\ mine.alone = ~ Busy(r)
  BY DEF Request
<1>2. At(r, "idle") /\ req' = [o \in Requests |-> IF o = r THEN mine ELSE other(o)]
  BY DEF Begin
<1>3. \A o \in Requests : /\ At(o, "idle") => other(o) = req[o]
                          /\ other(o).alone => At(o, "idle")
  BY DEF At, TypeOK, Request
<1> HIDE DEF mine, other
<1>4. Known(mine)
  BY <1>1 DEF Known
<1>5. req'[r] = mine /\ \A o \in Requests \ {r} : req'[o] = other(o)
  BY <1>2
<1>6. \A o \in Requests \ {r} : /\ req'[o].alone => req'[o].pc = "idle"
                                /\ At(o, "idle") => req'[o].pc = "idle"
  BY <1>3, <1>5 DEF At
<1>7. req'[r].alone => \A o \in Requests \ {r} : req'[o].pc = "idle"
  BY <1>1, <1>5, <1>6 DEF Busy
<1>8. Known(req[r])'
  BY <1>4, <1>5, KnownKept DEF tables
<1> QED
  BY <1>6, <1>7, <1>8 DEF Lone, At

\* One request makes a step: it ends, or knows what it has to.
LEMMA LoneGoes ==
  ASSUME TypeOK, Lone, NEW r \in Requests, ~ At(r, "idle"), NEW new, Goto(r, new),
         \/ new.pc = "idle"
         \/ /\ new.alone = req[r].alone
            /\ \/ new.pc \notin AssignPcs
               \/ UNCHANGED <<plan, sub, slip, today>> /\ (new.alone => Known(new))
  PROVE  Lone'
<1>1. req'[r] = new /\ \A o \in Requests \ {r} : req'[o] = req[o]
  BY DEF Goto, TypeOK
<1>2. \A o \in Requests \ {r} : req[o].alone => At(o, "idle")
  BY DEF Lone
<1>3. CASE new.pc = "idle"
  BY <1>1, <1>2, <1>3 DEF Lone, At
<1>4. CASE new.alone = req[r].alone /\ new.pc \notin AssignPcs
  <2>1. Known(req[r])'
    BY <1>1, <1>4 DEF Known
  <2> QED
    BY <1>1, <1>2, <1>4, <2>1 DEF Lone, At
<1>5. CASE /\ new.alone = req[r].alone
           /\ UNCHANGED <<plan, sub, slip, today>> /\ (new.alone => Known(new))
  <2>1. new.alone => Known(req[r])'
    BY <1>1, <1>5, KnownKept
  <2> QED
    BY <1>1, <1>2, <1>5, <2>1 DEF Lone, At
<1> QED
  BY <1>3, <1>4, <1>5

LEMMA LoneEnds ==
  ASSUME TypeOK, Lone, NEW r \in Requests, ~ At(r, "idle"), Finish(r)
  PROVE  Lone'
  BY LoneGoes, IdleTyped DEF Finish, Goto

LEMMA LoneReadsSub ==
  ASSUME TypeOK, Lone, NEW r \in Requests, AssignReadSub(r)
  PROVE  Lone'
<1> DEFINE q == req[r]
           paid  == [q EXCEPT !.pc = "assignPaid", !.paid = plan[sub[q.by].plan].price]
           other == [q EXCEPT !.pc = "assignUpsert"]
<1>1. q \in Request /\ q.pc = "assignSub" /\ UNCHANGED <<plan, sub, slip, today>>
  BY DEF TypeOK, AssignReadSub, At, tables
<1>2. /\ paid.pc = "assignPaid" /\ paid.by = q.by /\ paid.plan = q.plan /\ paid.price = q.price
      /\ paid.paid = plan[sub[q.by].plan].price /\ paid.alone = q.alone
  BY <1>1 DEF Request
<1>3. /\ other.pc = "assignUpsert" /\ other.by = q.by /\ other.plan = q.plan
      /\ other.price = q.price /\ other.alone = q.alone
  BY <1>1 DEF Request
<1>4. Goto(r, IF Active(q.by) THEN paid ELSE other)
  BY DEF AssignReadSub
<1> HIDE DEF paid, other
<1>5. q.alone => Known(q)
  BY <1>1 DEF Lone, At
<1>6. CASE Active(q.by)
  <2>1. Known(q) => Known(paid)
    BY <1>1, <1>2, <1>6 DEF Known, AssignPcs
  <2> QED
    BY <1>1, <1>2, <1>4, <1>5, <1>6, <2>1, LoneGoes DEF At
<1>7. CASE ~ Active(q.by)
  <2>1. Known(q) => Known(other)
    BY <1>1, <1>3, <1>7 DEF Known, AssignPcs
  <2> QED
    BY <1>1, <1>3, <1>4, <1>5, <1>7, <2>1, LoneGoes DEF At
<1> QED
  BY <1>6, <1>7

\* An assignment that runs alone covers what the landlord is shown as free.
LEMMA CoveredAsShown ==
  ASSUME NEW q, q.pc = "assignPaid", Known(q)
  PROVE  IsCovered(q) <=> ShownFree(q.by, q.plan)
<1>1. Active(q.by) /\ q.price = plan[q.plan].price /\ q.paid = plan[sub[q.by].plan].price
  BY DEF Known, AssignPcs
<1>2. MaxPaidPrice(q.by) = Max(RecentlyPaid(q.by) \cup {q.paid})
  BY <1>1 DEF MaxPaidPrice
<1> QED
  BY <1>1, <1>2 DEF IsCovered, ShownFree

LEMMA LoneReadsPaid ==
  ASSUME TypeOK, Lone, NEW r \in Requests, AssignReadPaid(r)
  PROVE  Lone'
<1> DEFINE q == req[r]
           next == IF IsCovered(q) THEN "assignSwitch" ELSE "assignUpsert"
           new == [q EXCEPT !.pc = next, !.paid = 0]
<1>1. q \in Request /\ q.pc = "assignPaid" /\ UNCHANGED <<plan, sub, slip, today>>
  BY DEF TypeOK, AssignReadPaid, At, tables
<1>2. /\ new.pc = next /\ new.by = q.by /\ new.plan = q.plan /\ new.price = q.price
      /\ new.alone = q.alone
  BY <1>1 DEF Request
<1>3. Goto(r, new)
  BY DEF AssignReadPaid
<1>4. \/ next = "assignSwitch" /\ IsCovered(q)
      \/ next = "assignUpsert" /\ ~ IsCovered(q)
  <2>1. CASE IsCovered(q)
    BY <2>1
  <2>2. CASE ~ IsCovered(q)
    BY <2>2
  <2> QED
    BY <2>1, <2>2
<1> HIDE DEF new, next
<1>5. q.alone => Known(q)
  BY <1>1 DEF Lone, At
<1>6. Known(q) => Known(new)
  BY <1>1, <1>2, <1>4, CoveredAsShown DEF Known, AssignPcs
<1> QED
  BY <1>1, <1>2, <1>3, <1>5, <1>6, LoneGoes DEF At

LEMMA LoneAssigned ==
  ASSUME TypeOK, Lone, NEW r \in Requests, ~ At(r, "idle"), Assigned(r)
  PROVE  Lone'
<1> DEFINE new == [req[r] EXCEPT !.pc = "slipMark", !.plan = None, !.price = 0]
<1>1. new.pc = "slipMark" /\ new.alone = req[r].alone
  BY DEF TypeOK, Request
<1>2. Finish(r) \/ Goto(r, new)
  BY DEF Assigned
<1> HIDE DEF new
<1>3. new.pc \notin AssignPcs
  BY <1>1 DEF AssignPcs
<1> QED
  BY <1>1, <1>2, <1>3, LoneEnds, LoneGoes

LEMMA LoneAsks ==
  ASSUME TypeOK, Lone, NEW r \in Requests, NEW p \in Plans, AskPlan(r, p)
  PROVE  Lone'
<1> DEFINE new == [req[r] EXCEPT !.pc = "askMark", !.price = 0]
<1>1. new.pc = "askMark" /\ new.alone = req[r].alone
  BY DEF TypeOK, Request
<1>2. ~ At(r, "idle") /\ (Finish(r) \/ Goto(r, new))
  BY DEF AskPlan, At
<1> HIDE DEF new
<1>3. new.pc \notin AssignPcs
  BY <1>1 DEF AssignPcs
<1> QED
  BY <1>1, <1>2, <1>3, LoneEnds, LoneGoes

LEMMA LoneAdvances ==
  ASSUME TypeOK, Lone, NEW r \in Requests, Advance(r)
  PROVE  Lone'
<1>1. CASE ~ At(r, "idle") /\ (Finish(r) \/ Assigned(r))
  BY <1>1, LoneEnds, LoneAssigned
<1> QED
  BY <1>1, LoneReadsSub, LoneReadsPaid, LoneAsks
     DEF Advance, DeleteWrite, AssignSwitch, AssignUpsert, ApproveMark, AskMark, At

LEMMA LoneArrives ==
  ASSUME TypeOK, RowInv, NEW r \in Requests, Arrive(r)
  PROVE  Lone'
<1>1. ASSUME NEW base \in Request, NEW l \in Landlords, NEW p \in Plans, Exists(p),
             Begin(r, ReadPlan(base, l, p)), UNCHANGED <<tables, today>>
      PROVE  Lone'
  <2> DEFINE new == ReadPlan(base, l, p)
  <2>1. plan[p].price \in Prices \cup {0}
    BY DEF TypeOK, Plan
  <2>2. /\ new \in Request /\ new.pc = "assignSub" /\ new.plan = p
        /\ new.price = plan[p].price
    BY <2>1 DEF ReadPlan, Request, Pcs
  <2>3. Begin(r, new)
    BY <1>1
  <2> HIDE DEF new
  <2>4. Known(new)
    BY <1>1, <2>2 DEF Known
  <2> QED
    BY <1>1, <2>2, <2>3, <2>4, LoneBegins
<1>2. ASSUME NEW l \in Landlords, NEW p \in Plans, Upgrade(r, l, p) PROVE Lone'
  BY <1>1, <1>2, IdleTyped DEF Upgrade
<1>3. ASSUME NEW s \in Slips, ApproveSlip(r, s) PROVE Lone'
  <2>1. [Idle EXCEPT !.doc = s] \in Request
    BY DEF Idle, Request, Pcs
  <2> QED
    BY <1>1, <1>3, <2>1 DEF ApproveSlip, RowInv
<1>4. ASSUME NEW p \in Plans, DeleteCount(r, p) PROVE Lone'
  <2> DEFINE new == [Idle EXCEPT !.pc = "archive", !.plan = p]
  <2>1. new \in Request /\ new.pc = "archive"
    BY DEF Idle, Request, Pcs
  <2>2. Known(new)
    BY <2>1 DEF Known, AssignPcs
  <2> QED
    BY <1>4, <2>1, <2>2, LoneBegins DEF DeleteCount
<1>5. ASSUME NEW a \in Asks, NEW price \in Prices, ApproveAsk(r, a, price) PROVE Lone'
  <2> DEFINE new == [Idle EXCEPT !.pc = "askPlan", !.by = ask[a].by, !.doc = a, !.price = price]
  <2>1. new \in Request /\ new.pc = "askPlan"
    BY DEF Idle, Request, Pcs, TypeOK, Ask
  <2>2. Known(new)
    BY <2>1 DEF Known, AssignPcs
  <2> QED
    BY <1>5, <2>1, <2>2, LoneBegins DEF ApproveAsk
<1>6. CASE Single(r)
  BY <1>6, LoneDisturb DEF Single
<1> QED
  BY <1>2, <1>3, <1>4, <1>5, <1>6
  DEF Arrive, SubscriptionRoutes, CreatePackage, UpdatePackage, RestorePlan, PurgePlan,
      SubmitSlip, Cancel, RejectSlip, CreateAsk, RejectAsk

\* The job touches no subscription that runs.
LEMMA JobKeepsActive ==
  ASSUME TypeOK, MarkExpiredSubscriptions, NEW l \in Landlords
  PROVE  /\ Active(l)' <=> Active(l)
         /\ Active(l) => sub'[l] = sub[l]
         /\ RecentlyPaid(l)' = RecentlyPaid(l)
<1>1. sub[l].until \in Nat /\ today \in Nat
  BY DEF TypeOK, Sub
<1>2. /\ sub'[l] = IF Lapsed(l) THEN [sub[l] EXCEPT !.status = "PAST_DUE"] ELSE sub[l]
      /\ UNCHANGED <<slip, today>>
  BY DEF MarkExpiredSubscriptions
<1>3. sub[l] \in Sub
  BY DEF TypeOK
<1>4. RecentlyPaid(l)' = RecentlyPaid(l)
  BY <1>2 DEF RecentlyPaid
<1> QED
  BY <1>1, <1>2, <1>3, <1>4 DEF Active, Lapsed, Sub

LEMMA LoneJob ==
  ASSUME TypeOK, RequestInv, Lone, MarkExpiredSubscriptions
  PROVE  Lone'
<1>1. UNCHANGED <<plan, req>>
  BY DEF MarkExpiredSubscriptions
<1> SUFFICES ASSUME NEW r \in Requests, Known(req[r]) PROVE Known(req[r])'
  BY <1>1 DEF Lone, At
<1> PICK q : q = req[r]
  OBVIOUS
<1>2. CASE q.pc \notin AssignPcs
  BY <1>1, <1>2, SMTT(30) DEF Known
<1>3. CASE q.pc \in AssignPcs
  <2> PICK l \in Landlords : l = q.by
    BY <1>3 DEF RequestInv, Sound
  <2>1. /\ Active(l)' <=> Active(l)
        /\ Active(l) => sub'[l] = sub[l]
        /\ MaxPaidPrice(l)' = MaxPaidPrice(l)
    BY <1>1, JobKeepsActive DEF MaxPaidPrice
  <2>2. \A p : ShownFree(l, p)' <=> ShownFree(l, p)
    BY <1>1, <2>1 DEF ShownFree
  <2>3. Known(q)'
    BY <1>1, <1>3, <2>1, <2>2 DEF Known, Exists
  <2>4. req'[r] = q
    BY <1>1
  <2> QED
    BY <2>3, <2>4 DEF Known, Exists, Active, ShownFree, MaxPaidPrice, RecentlyPaid
<1> QED
  BY <1>2, <1>3

LEMMA LoneInv == IInv /\ Lone /\ [Next]_vars => Lone'
<1> SUFFICES ASSUME IInv, Lone, [Next]_vars PROVE Lone'
  OBVIOUS
<1>1. TypeOK /\ RowInv /\ RequestInv
  BY DEF IInv
<1>2. CASE UNCHANGED vars
  <2>1. ASSUME NEW r \in Requests, Known(req[r]) PROVE Known(req[r])'
    <3> PICK q : q = req[r]
      OBVIOUS
    <3>1. req'[r] = q /\ Known(q) /\ UNCHANGED <<plan, sub, slip, today>>
      BY <1>2, <2>1 DEF vars, tables
    <3> QED
      BY <3>1, KnownKept
  <2> QED
    BY <1>2, <2>1 DEF vars, Lone, At
<1>3. CASE DayPasses
  BY <1>1, <1>3, LoneDisturb DEF DayPasses
<1>4. ASSUME NEW r \in Requests, Abort(r) PROVE Lone'
  BY <1>1, <1>4, LoneEnds DEF Abort
<1> QED
  BY <1>1, <1>2, <1>3, <1>4, LoneArrives, LoneAdvances, LoneJob DEF Next

LEMMA LoneSwitchesAsShown ==
  ASSUME IInv, Lone, NEW r \in Requests
  PROVE  SwitchesAsShown(r)
<1> DEFINE q == req[r]
<1> SUFFICES ASSUME AssignSwitch(r) \/ AssignUpsert(r), q.alone, Active(q.by)
             PROVE  sub'[q.by].until = IF ShownFree(q.by, q.plan)
                                         THEN sub[q.by].until ELSE today + Cycle
  BY DEF SwitchesAsShown, ShownFree
<1>1. q.pc \in AssignPcs /\ ~ At(r, "idle")
  BY DEF AssignSwitch, AssignUpsert, At, AssignPcs
<1>2. Known(q) /\ Exists(q.plan) /\ q.by \in Landlords /\ sub \in [Landlords -> Sub]
  BY <1>1 DEF Lone, Known, IInv, TypeOK, RequestInv, Sound
<1>3. CASE AssignSwitch(r)
  <2>1. ShownFree(q.by, q.plan)
    BY <1>1, <1>2, <1>3 DEF AssignSwitch, At, Known
  <2>2. sub' = [sub EXCEPT ![q.by].plan = q.plan, ![q.by].status = "ACTIVE"]
    BY <1>2, <1>3 DEF AssignSwitch, Active
  <2>3. sub'[q.by].until = sub[q.by].until
    BY <1>2, <2>2 DEF Sub
  <2> QED
    BY <2>1, <2>3
<1>4. CASE AssignUpsert(r)
  <2>1. ~ ShownFree(q.by, q.plan)
    BY <1>1, <1>2, <1>4 DEF AssignUpsert, At, Known
  <2>2. sub' = [sub EXCEPT ![q.by] = Fresh(q.by, q.plan)]
    BY <1>2, <1>4 DEF AssignUpsert
  <2>3. sub'[q.by].until = today + Cycle
    BY <1>2, <2>2 DEF Fresh
  <2> QED
    BY <2>1, <2>3
<1> QED
  BY <1>3, <1>4

\* An assignment that runs alone does with the cycle what the landlord was shown:
\* getLandlordSubscription and assignSubscription compute one price twice.
THEOREM SwitchedAsShown == Spec => SwitchAsShown
<1>1. Init => Lone
  BY IdleTyped DEF Init, Lone, At
<1>2. IInv /\ Lone /\ [Next]_vars => [\A r \in Requests : SwitchesAsShown(r)]_vars
  BY LoneSwitchesAsShown
<1> QED
  BY <1>1, <1>2, LoneInv, InvAlways, PTL DEF Spec, SwitchAsShown
=============================================================================
