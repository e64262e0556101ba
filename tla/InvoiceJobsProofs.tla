------------------------- MODULE InvoiceJobsProofs --------------------------
(***************************************************************************)
(* Theorems about InvoiceJobs for every number of workers, agreements and  *)
(* days, and every length of a month.                                      *)
(***************************************************************************)
EXTENDS InvoiceJobs, SequenceTheorems, TLAPS

-----------------------------------------------------------------------------
(* The calendar. *)

LEMMA DivisionIsMonotonic ==
  ASSUME NEW m \in Nat \ {0}, NEW x \in Nat, NEW y \in Nat, x <= y
  PROVE  x \div m \in Nat /\ x \div m <= y \div m
<1> DEFINE p == x \div m
           q == y \div m
<1>1. /\ p \in Int /\ x = m * p + (x % m) /\ x % m \in 0..(m - 1)
      /\ q \in Int /\ y = m * q + (y % m) /\ y % m \in 0..(m - 1)
  OBVIOUS
<1>2. p >= 0
  OBVIOUS
<1> HIDE DEF p, q
<1>3. ASSUME q + 1 <= p PROVE FALSE
  <2>1. PICK d \in Nat : p = q + 1 + d
    <3>1. p - (q + 1) \in Nat
      BY <1>1, <1>3
    <3> QED
      BY <3>1, <1>1
  <2>2. m * p = m * q + m + m * d /\ m * d \in Nat
    BY <2>1, <1>1
  <2> QED
    BY <2>2, <1>1
<1> QED
  BY <1>1, <1>2, <1>3 DEF p, q

LEMMA MonthIsInCalendar ==
  ASSUME NEW d \in 1..MaxDay
  PROVE  MonthOf(d) \in Months
<1>1. /\ (d - 1) \div MonthLength \in Nat
      /\ (MaxDay - 1) \div MonthLength \in Nat
      /\ (d - 1) \div MonthLength <= (MaxDay - 1) \div MonthLength
  BY DivisionIsMonotonic, InvoiceJobsAssumption
<1> QED
  BY <1>1 DEF MonthOf, Months

-----------------------------------------------------------------------------
(* Types. *)

Job    == {"new", "stalled"}
Record == [pc : {"idle", "fetch", "loop", "create"}, job : Job, today : 1..MaxDay,
           batch : SUBSET Agreements, todo : SUBSET Agreements,
           at : Agreements \cup {None}]

\* A worker that is about to create an invoice has an agreement in hand.
Typed == TypeOK /\ \A w \in Workers : At(w, "create") => worker[w].at \in worker[w].todo

LEMMA IdleTyped == Idle \in Record
  BY InvoiceJobsAssumption DEF Idle, Record, Job

LEMMA TypedInit == Init => Typed
<1> SUFFICES ASSUME Init PROVE Typed
  OBVIOUS
<1>1. worker \in [Workers -> Record] /\ \A w \in Workers : ~ At(w, "create")
  BY IdleTyped DEF Init, At, Idle
<1>2. queue \in Seq(Job) /\ Len(queue) <= MaxQueue
  BY InvoiceJobsAssumption DEF Init
<1>3. made \in [Agreements -> [Months -> 0..MaxPerPeriod]]
  <2>1. [m \in Months |-> 0] \in [Months -> 0..MaxPerPeriod]
    BY InvoiceJobsAssumption
  <2> QED
    BY <2>1 DEF Init
<1>4. day \in 1..MaxDay
  BY InvoiceJobsAssumption DEF Init
<1>5. rung \in BOOLEAN /\ active \subseteq Agreements
  BY DEF Init
<1> QED
  BY <1>1, <1>2, <1>3, <1>4, <1>5 DEF Typed, TypeOK, Record, Job

\* A step that gives worker w the record q.
WorkerStep(w, q) ==
  /\ worker' = [worker EXCEPT ![w] = q]
  /\ q \in Record
  /\ q.pc = "create" => q.at \in q.todo

LEMMA WorkerStepTyped ==
  ASSUME Typed, NEW w \in Workers, NEW q, WorkerStep(w, q)
  PROVE  /\ worker' \in [Workers -> Record]
         /\ \A v \in Workers : worker'[v].pc = "create" => worker'[v].at \in worker'[v].todo
<1>1. worker \in [Workers -> Record]
  BY DEF Typed, TypeOK, Record, Job
<1> QED
  BY <1>1 DEF Typed, At, WorkerStep

\* The step of a worker changes its own record and nothing else, unless it
\* takes a job, creates an invoice or crashes.
QuietStep(w) == \E q : WorkerStep(w, q) /\ UNCHANGED <<day, rung, queue, active, made>>

LEMMA QuietTyped ==
  ASSUME Typed, NEW w \in Workers, QuietStep(w)
  PROVE  Typed'
<1>1. PICK q : WorkerStep(w, q)
  BY DEF QuietStep
<1> QED
  BY <1>1, WorkerStepTyped DEF QuietStep, Typed, TypeOK, At, Record, Job

LEMMA FetchIsQuiet ==
  ASSUME Typed, NEW w \in Workers, Fetch(w)
  PROVE  QuietStep(w)
<1> DEFINE q == [worker[w] EXCEPT !.pc = "loop", !.today = day,
                                  !.batch = DueOn(day), !.todo = DueOn(day)]
<1>1. worker[w] \in Record /\ DueOn(day) \subseteq Agreements /\ day \in 1..MaxDay
  BY DEF Typed, TypeOK, DueOn, Record, Job
<1>2. q \in Record /\ q.pc = "loop"
  BY <1>1 DEF Record
<1>3. worker' = [worker EXCEPT ![w] = q]
  BY DEF Fetch
<1> QED
  BY <1>2, <1>3 DEF Fetch, QuietStep, WorkerStep

LEMMA CheckIsQuiet ==
  ASSUME Typed, NEW w \in Workers, NEW a \in Agreements, Check(w, a)
  PROVE  QuietStep(w)
<1>1. worker[w] \in Record /\ worker[w].pc = "loop" /\ a \in worker[w].todo
  BY DEF Typed, TypeOK, Check, At, Record, Job
<1>2. CASE Missing(a, Month(w))
  <2> DEFINE q == [worker[w] EXCEPT !.pc = "create", !.at = a]
  <2>1. q \in Record /\ q.at \in q.todo
    BY <1>1 DEF Record
  <2>2. worker' = [worker EXCEPT ![w] = q]
    BY <1>2 DEF Check
  <2> QED
    BY <2>1, <2>2 DEF Check, QuietStep, WorkerStep
<1>3. CASE ~ Missing(a, Month(w))
  <2> DEFINE q == [worker[w] EXCEPT !.todo = worker[w].todo \ {a}]
  <2>1. q \in Record /\ q.pc = "loop"
    BY <1>1 DEF Record
  <2>2. worker' = [worker EXCEPT ![w] = q]
    BY <1>3 DEF Check, Remaining
  <2> QED
    BY <2>1, <2>2 DEF Check, QuietStep, WorkerStep
<1> QED
  BY <1>2, <1>3

LEMMA IdleIsQuiet ==
  ASSUME Typed, NEW w \in Workers, End(w) \/ Fail(w)
  PROVE  QuietStep(w)
  BY IdleTyped DEF End, Fail, QuietStep, WorkerStep, Idle

LEMMA TakeTyped ==
  ASSUME Typed, NEW w \in Workers, Take(w)
  PROVE  Typed'
<1> DEFINE q == [Idle EXCEPT !.pc = "fetch", !.job = Head(queue)]
<1>1. queue \in Seq(Job) /\ queue # <<>> /\ Len(queue) <= MaxQueue
  BY DEF Typed, TypeOK, Take, Job
<1>2. Head(queue) \in Job /\ Tail(queue) \in Seq(Job) /\ Len(Tail(queue)) = Len(queue) - 1
  BY <1>1, HeadTailProperties
<1>3. WorkerStep(w, q)
  BY <1>2, IdleTyped DEF Take, WorkerStep, Record
<1>4. Len(queue') <= MaxQueue
  BY <1>1, <1>2, InvoiceJobsAssumption, LenProperties DEF Take
<1> QED
  BY <1>2, <1>3, <1>4, WorkerStepTyped DEF Take, Typed, TypeOK, At, Record, Job

\* What Create leaves: one more invoice, the agreement done.
LEMMA CreateStep ==
  ASSUME Typed, NEW w \in Workers, Create(w)
  PROVE  /\ worker[w].at \in worker[w].todo
         /\ worker[w].at \in Agreements
         /\ Month(w) \in Months
         /\ made' \in [Agreements -> [Months -> 0..MaxPerPeriod]]
         /\ made'[worker[w].at][Month(w)] = made[worker[w].at][Month(w)] + 1
         /\ \A b \in Agreements, m \in Months :
              (b # worker[w].at \/ m # Month(w)) => made'[b][m] = made[b][m]
         /\ \E q : WorkerStep(w, q)
<1> DEFINE a == worker[w].at
           q == [worker[w] EXCEPT !.pc = "loop", !.at = None, !.todo = worker[w].todo \ {a}]
<1>1. worker[w] \in Record /\ a \in worker[w].todo
  BY DEF Typed, TypeOK, Create, Record, Job
<1>2. a \in Agreements /\ worker[w].today \in 1..MaxDay
  BY <1>1 DEF Record
<1>3. Month(w) \in Months
  BY <1>2, MonthIsInCalendar DEF Month
<1>4. made \in [Agreements -> [Months -> 0..MaxPerPeriod]] /\ made[a][Month(w)] < MaxPerPeriod
      /\ made' = [made EXCEPT ![a][Month(w)] = @ + 1]
  BY DEF Typed, TypeOK, Create
<1>5. made[a][Month(w)] + 1 \in 0..MaxPerPeriod
  BY <1>2, <1>3, <1>4, InvoiceJobsAssumption
<1>6. q \in Record /\ q.pc = "loop"
  BY <1>1 DEF Record
<1>7. worker' = [worker EXCEPT ![w] = q]
  BY DEF Create
<1> HIDE DEF a, q
<1>8. made' \in [Agreements -> [Months -> 0..MaxPerPeriod]]
  BY <1>2, <1>3, <1>4, <1>5
<1>9. /\ made'[a][Month(w)] = made[a][Month(w)] + 1
      /\ \A b \in Agreements, m \in Months :
           (b # a \/ m # Month(w)) => made'[b][m] = made[b][m]
  BY <1>2, <1>3, <1>4
<1> QED
  BY <1>1, <1>2, <1>3, <1>6, <1>7, <1>8, <1>9 DEF WorkerStep, a, q

LEMMA CreateTyped ==
  ASSUME Typed, NEW w \in Workers, Create(w)
  PROVE  Typed'
<1>1. /\ made' \in [Agreements -> [Months -> 0..MaxPerPeriod]]
      /\ \E q : WorkerStep(w, q)
  BY CreateStep
<1> QED
  BY <1>1, WorkerStepTyped DEF Create, Typed, TypeOK, At, Record, Job

LEMMA CrashTyped ==
  ASSUME Typed, NEW w \in Workers, Crash(w)
  PROVE  Typed'
<1> DEFINE back == GivenOutAgain(worker[w].job)
<1>1. back \in Seq(Job) /\ Len(back) <= 1
  <2>1. <<"stalled">> \in Seq(Job) /\ Len(<<"stalled">>) = 1
    BY DEF Job
  <2>2. << >> \in Seq(Job) /\ Len(<< >>) = 0
    OBVIOUS
  <2> QED
    BY <2>1, <2>2 DEF GivenOutAgain
<1>2. queue \in Seq(Job) /\ Len(queue) < MaxQueue
  BY DEF Typed, TypeOK, Crash, Job
<1> HIDE DEF back
<1>3. back \o queue \in Seq(Job) /\ Len(back \o queue) = Len(back) + Len(queue)
  BY <1>1, <1>2, ConcatProperties
<1>4. queue' = back \o queue
  BY DEF Crash, back
<1>5. Len(queue') <= MaxQueue
  BY <1>1, <1>2, <1>3, <1>4, InvoiceJobsAssumption, LenProperties
<1>6. WorkerStep(w, Idle)
  BY IdleTyped DEF Crash, WorkerStep, Idle
<1> QED
  BY <1>3, <1>4, <1>5, <1>6, WorkerStepTyped DEF Crash, Typed, TypeOK, At, Record, Job

\* The calendar and the queue move, the workers stand still.
LEMMA EnvironmentTyped ==
  ASSUME Typed, Ring \/ MissRing \/ Midnight \/ \E a \in Agreements : LeaseChanges(a)
  PROVE  Typed' /\ UNCHANGED <<worker, made>>
<1>1. CASE Ring
  <2>1. queue \in Seq(Job) /\ Len(queue) < MaxQueue
    BY <1>1 DEF Ring, Typed, TypeOK, Job
  <2>2. queue' \in Seq(Job) /\ Len(queue') = Len(queue) + 1
    BY <1>1, <2>1, AppendProperties DEF Ring, Job
  <2>3. Len(queue') <= MaxQueue
    BY <2>1, <2>2, LenProperties, InvoiceJobsAssumption
  <2> QED
    BY <1>1, <2>2, <2>3 DEF Ring, Typed, TypeOK, At, Job
<1>2. CASE MissRing
  BY <1>2 DEF MissRing, Typed, TypeOK, At
<1>3. CASE Midnight
  <2>1. day' \in 1..MaxDay
    BY <1>3, InvoiceJobsAssumption DEF Midnight, Typed, TypeOK
  <2> QED
    BY <1>3, <2>1 DEF Midnight, Typed, TypeOK, At
<1>4. ASSUME NEW a \in Agreements, LeaseChanges(a) PROVE Typed' /\ UNCHANGED <<worker, made>>
  <2>1. active' \subseteq Agreements
    BY <1>4 DEF LeaseChanges, Typed, TypeOK
  <2> QED
    BY <1>4, <2>1 DEF LeaseChanges, Typed, TypeOK, At
<1> QED
  BY <1>1, <1>2, <1>3, <1>4

LEMMA TypedNext == Typed /\ [Next]_vars => Typed'
<1> SUFFICES ASSUME Typed, [Next]_vars PROVE Typed'
  OBVIOUS
<1>1. ASSUME NEW w \in Workers, Work(w) \/ Fail(w) \/ Crash(w) PROVE Typed'
  BY <1>1, TakeTyped, FetchIsQuiet, CheckIsQuiet, CreateTyped, IdleIsQuiet, CrashTyped,
     QuietTyped DEF Work
<1>2. CASE UNCHANGED vars
  BY <1>2 DEF vars, Typed, TypeOK, At
<1> QED
  BY <1>1, <1>2, EnvironmentTyped DEF Next

\* The calendar, the queue, the invoices and the workers keep their types; in
\* particular no job bills a month outside the calendar, however late it runs.
THEOREM TypeCorrect == Spec => []TypeOK
<1>1. Typed => TypeOK
  BY DEF Typed
<1> QED
  BY <1>1, TypedInit, TypedNext, PTL DEF Spec

-----------------------------------------------------------------------------
(* A run leaves no gap. *)

\* Every agreement that a run has behind it has an invoice for the month.
NoGap(w) ==
  worker[w].pc \in {"loop", "create"} =>
    \A a \in worker[w].batch \ worker[w].todo : made[a][Month(w)] > 0

GapInv == Typed /\ \A w \in Workers : NoGap(w)

\* A worker whose record a step leaves alone: the step takes no invoice away.
LEMMA OthersLeaveNoGap ==
  ASSUME GapInv, NEW w \in Workers, worker'[w] = worker[w], Typed',
         \A a \in Agreements, m \in Months : made'[a][m] >= made[a][m]
  PROVE  NoGap(w)'
<1>1. worker[w].batch \subseteq Agreements /\ worker[w].today \in 1..MaxDay
  BY DEF GapInv, Typed, TypeOK
<1>2. Month(w) \in Months /\ Month(w)' = Month(w)
  BY <1>1, MonthIsInCalendar DEF Month
<1>3. ASSUME NEW a \in Agreements, made[a][Month(w)] > 0
      PROVE  made'[a][Month(w)] > 0
  <2>1. made[a][Month(w)] \in Int /\ made'[a][Month(w)] \in Int
    BY <1>2, InvoiceJobsAssumption DEF GapInv, Typed, TypeOK
  <2> QED
    BY <1>2, <1>3, <2>1
<1> QED
  BY <1>1, <1>2, <1>3 DEF GapInv, NoGap

\* Only Create writes invoices.
LEMMA InvoicesOnlyGrow ==
  ASSUME Typed, [Next]_vars
  PROVE  \A a \in Agreements, m \in Months : made'[a][m] >= made[a][m]
<1>1. ASSUME NEW a \in Agreements, NEW m \in Months PROVE made[a][m] \in Int
  BY InvoiceJobsAssumption DEF Typed, TypeOK
<1>2. CASE UNCHANGED made
  BY <1>1, <1>2
<1>3. ASSUME NEW w \in Workers, Create(w), NEW a \in Agreements, NEW m \in Months
      PROVE  made'[a][m] >= made[a][m]
  <2> DEFINE here == a = worker[w].at /\ m = Month(w)
  <2>1. IF here THEN made'[a][m] = made[a][m] + 1 ELSE made'[a][m] = made[a][m]
    BY <1>3, CreateStep
  <2> QED
    BY <1>1, <2>1
<1>4. ASSUME NEW w \in Workers, Work(w) \/ Fail(w) \/ Crash(w)
      PROVE  UNCHANGED made \/ Create(w)
  BY <1>4 DEF Work, Take, Fetch, Check, End, Fail, Crash
<1>5. UNCHANGED vars => UNCHANGED made
  BY DEF vars
<1> QED
  BY <1>2, <1>3, <1>4, <1>5, EnvironmentTyped DEF Next

\* Steps after which a worker has no list of agreements in hand.
LEMMA AwayFromTheLoop ==
  ASSUME worker \in [Workers -> Record], NEW w \in Workers,
         Take(w) \/ End(w) \/ Fail(w) \/ Crash(w)
  PROVE  /\ worker'[w].pc \in {"fetch", "idle"}
         /\ \A v \in Workers \ {w} : worker'[v] = worker[v]
<1>1. CASE Take(w)
  BY <1>1 DEF Take, Idle
<1>2. CASE End(w)
  BY <1>2 DEF End, Idle
<1>3. CASE Fail(w)
  BY <1>3 DEF Fail, Idle
<1>4. CASE Crash(w)
  BY <1>4 DEF Crash, Idle
<1> QED
  BY <1>1, <1>2, <1>3, <1>4

\* A worker at its own step.
LEMMA OwnStepLeavesNoGap ==
  ASSUME GapInv, Typed', NEW w \in Workers, Work(w) \/ Fail(w) \/ Crash(w)
  PROVE  NoGap(w)' /\ \A v \in Workers \ {w} : worker'[v] = worker[v]
<1>1. worker \in [Workers -> Record] /\ worker[w] \in Record
  BY DEF GapInv, Typed, TypeOK, Record, Job
<1>2. CASE Take(w) \/ End(w) \/ Fail(w) \/ Crash(w)
  <2>1. /\ worker'[w].pc \in {"fetch", "idle"}
        /\ \A v \in Workers \ {w} : worker'[v] = worker[v]
    BY <1>1, <1>2, AwayFromTheLoop
  <2> QED
    BY <2>1 DEF NoGap
<1>3. CASE Fetch(w)
  BY <1>1, <1>3 DEF Fetch, NoGap, Record
<1>4. ASSUME NEW a \in Agreements, Check(w, a)
      PROVE  NoGap(w)' /\ \A v \in Workers \ {w} : worker'[v] = worker[v]
  <2>1. worker[w].pc = "loop" /\ Month(w)' = Month(w) /\ made' = made
    BY <1>1, <1>4 DEF Check, At, Month, Record
  <2>2. worker'[w].batch = worker[w].batch
    BY <1>1, <1>4 DEF Check, Record
  <2>3. worker[w].batch \subseteq Agreements /\ Month(w) \in Months
    BY <1>1, MonthIsInCalendar DEF Record, Month
  <2>4. CASE Missing(a, Month(w))
    <3>1. worker'[w].todo = worker[w].todo
      BY <1>1, <1>4, <2>4 DEF Check, Record
    <3> QED
      BY <1>1, <1>4, <2>1, <2>2, <3>1 DEF GapInv, NoGap, Check
  <2>5. CASE ~ Missing(a, Month(w))
    <3>1. worker'[w].todo = worker[w].todo \ {a}
      BY <1>1, <1>4, <2>5 DEF Check, Remaining, Record
    <3>2. made[a][Month(w)] > 0
      BY <2>3, <2>5, InvoiceJobsAssumption DEF Missing, GapInv, Typed, TypeOK
    <3> QED
      BY <1>1, <1>4, <2>1, <2>2, <3>1, <3>2 DEF GapInv, NoGap, Check
  <2> QED
    BY <2>4, <2>5
<1>5. CASE Create(w)
  <2> DEFINE a == worker[w].at
  <2>1. /\ worker'[w].batch = worker[w].batch
        /\ worker'[w].todo = worker[w].todo \ {a}
        /\ Month(w)' = Month(w)
        /\ worker[w].pc = "create"
    BY <1>1, <1>5 DEF Create, At, Month, Record
  <2>2. /\ a \in Agreements /\ Month(w) \in Months
        /\ made'[a][Month(w)] = made[a][Month(w)] + 1
        /\ \A b \in Agreements : b # a => made'[b][Month(w)] = made[b][Month(w)]
    BY <1>5, CreateStep DEF GapInv
  <2>3. made'[a][Month(w)] > 0
    BY <2>2, InvoiceJobsAssumption DEF GapInv, Typed, TypeOK
  <2>4. worker[w].batch \subseteq Agreements
    BY <1>1 DEF Record
  <2>5. \A v \in Workers \ {w} : worker'[v] = worker[v]
    BY <1>1, <1>5 DEF Create
  <2> HIDE DEF a
  <2> QED
    BY <2>1, <2>2, <2>3, <2>4, <2>5 DEF GapInv, NoGap
<1> QED
  BY <1>2, <1>3, <1>4, <1>5 DEF Work

LEMMA GapInvInit == Init => GapInv
  BY TypedInit DEF Init, GapInv, NoGap, Idle

LEMMA GapInvNext == GapInv /\ [Next]_vars => GapInv'
<1> SUFFICES ASSUME GapInv, [Next]_vars PROVE GapInv'
  OBVIOUS
<1>1. Typed' /\ \A a \in Agreements, m \in Months : made'[a][m] >= made[a][m]
  BY TypedNext, InvoicesOnlyGrow DEF GapInv
<1>2. ASSUME NEW v \in Workers, worker'[v] = worker[v] PROVE NoGap(v)'
  BY <1>1, <1>2, OthersLeaveNoGap
<1>3. ASSUME NEW w \in Workers, Work(w) \/ Fail(w) \/ Crash(w)
      PROVE  \A v \in Workers : NoGap(v)'
  BY <1>1, <1>2, <1>3, OwnStepLeavesNoGap
<1>4. CASE UNCHANGED vars
  BY <1>1, <1>2, <1>4 DEF vars, GapInv
<1>5. CASE Ring \/ MissRing \/ Midnight \/ \E a \in Agreements : LeaseChanges(a)
  BY <1>1, <1>2, <1>5, EnvironmentTyped DEF GapInv
<1> QED
  BY <1>1, <1>3, <1>4, <1>5 DEF Next, GapInv

\* However many workers run, fail and stall, and wherever earlier runs of the
\* day broke off: a run of generateMonthlyInvoices that ends has left none of
\* the agreements it found without its invoice.
THEOREM NoRunLeavesAGap == Spec => RunLeavesNoGap
<1>1. GapInv => (\A w \in Workers :
                   End(w) => \A a \in worker[w].batch : made[a][Month(w)] > 0)
  BY DEF GapInv, NoGap, End, At
<1>2. GapInv /\ [Next]_vars =>
        [\A w \in Workers :
           End(w) => \A a \in worker[w].batch : made[a][Month(w)] > 0]_vars
  BY <1>1
<1> QED
  BY <1>2, GapInvInit, GapInvNext, PTL DEF Spec, RunLeavesNoGap

-----------------------------------------------------------------------------
(* One invoice for a month. *)

\* What the idempotency check has found still holds when the invoice is made.
OnceInv ==
  /\ Typed
  /\ OneRentPerPeriod
  /\ \A w \in Workers : At(w, "create") => made[worker[w].at][Month(w)] = 0

LEMMA OnceInvInit == Init => OnceInv
<1> SUFFICES ASSUME Init PROVE OnceInv
  OBVIOUS
<1>1. \A a \in Agreements, m \in Months : made[a][m] = 0
  BY DEF Init
<1> QED
  BY <1>1, TypedInit DEF Init, OnceInv, OneRentPerPeriod, At, Idle

LEMMA OnceInvNext ==
  ASSUME NEW CONSTANT w, Workers = {w}, OnceInv, [Next]_vars
  PROVE  OnceInv'
<1>1. Typed' /\ worker \in [Workers -> Record]
  BY TypedNext DEF OnceInv, Typed, TypeOK, Record, Job
<1>2. CASE UNCHANGED <<made, worker>>
  BY <1>1, <1>2 DEF OnceInv, OneRentPerPeriod, At, Month
<1>3. CASE Take(w) \/ Fetch(w) \/ End(w) \/ Fail(w) \/ Crash(w)
  <2>1. made' = made
    BY <1>3 DEF Take, Fetch, End, Fail, Crash
  <2>2. worker \in [Workers -> Record]
    BY DEF OnceInv, Typed, TypeOK, Record, Job
  <2>3. CASE Fetch(w)
    BY <1>1, <2>1, <2>2, <2>3 DEF Fetch, OnceInv, OneRentPerPeriod, At, Record
  <2>4. CASE ~ Fetch(w)
    <3>1. worker'[w].pc \in {"fetch", "idle"}
      BY <1>3, <2>2, <2>4, AwayFromTheLoop
    <3> QED
      BY <1>1, <2>1, <3>1 DEF OnceInv, OneRentPerPeriod, At
  <2> QED
    BY <2>3, <2>4
<1>4. ASSUME NEW a \in Agreements, Check(w, a) PROVE OnceInv'
  <2>1. made' = made /\ Month(w)' = Month(w)
    BY <1>1, <1>4 DEF Check, Month, Record
  <2>2. worker'[w].pc = "create" => Missing(a, Month(w)) /\ worker'[w].at = a
    BY <1>1, <1>4 DEF Check, At, Record
  <2> QED
    BY <1>1, <2>1, <2>2 DEF OnceInv, OneRentPerPeriod, Missing, At
<1>5. CASE Create(w)
  <2>1. worker'[w].pc # "create"
    BY <1>1, <1>5 DEF Create, Record
  <2>2. made[worker[w].at][Month(w)] = 0
    BY <1>5 DEF Create, OnceInv
  <2>3. OneRentPerPeriod'
    <3>1. /\ worker[w].at \in Agreements
          /\ made'[worker[w].at][Month(w)] = made[worker[w].at][Month(w)] + 1
          /\ \A b \in Agreements, m \in Months :
               (b # worker[w].at \/ m # Month(w)) => made'[b][m] = made[b][m]
      BY <1>5, CreateStep DEF OnceInv
    <3>2. Months' = Months
      BY DEF Months, MonthOf
    <3> QED
      BY <2>2, <3>1, <3>2 DEF OnceInv, OneRentPerPeriod
  <2> QED
    BY <1>1, <2>1, <2>3 DEF OnceInv, At
<1>6. UNCHANGED vars => UNCHANGED <<made, worker>>
  BY DEF vars
<1> QED
  BY <1>2, <1>3, <1>4, <1>5, <1>6, EnvironmentTyped DEF Next, Work, OnceInv

\* One server process, hence one worker: no crash, retry or late job makes a
\* second rent invoice for a month (the idempotency check).
THEOREM OneWorkerBillsOnce ==
  ASSUME NEW CONSTANT w, Workers = {w}
  PROVE  Spec => []OneRentPerPeriod
<1>1. OnceInv /\ [Next]_vars => OnceInv'
  BY OnceInvNext
<1>2. OnceInv => OneRentPerPeriod
  BY DEF OnceInv
<1> QED
  BY <1>1, <1>2, OnceInvInit, PTL DEF Spec
=============================================================================
