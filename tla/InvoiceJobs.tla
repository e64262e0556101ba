---------------------------- MODULE InvoiceJobs -----------------------------
(***************************************************************************)
(* The monthly rent invoices: the 01:00 timer, the BullMQ queue            *)
(* 'invoice-generator', its workers, and generateMonthlyInvoices, which    *)
(* looks for agreements whose collection_day is the day on which the job   *)
(* runs.                                                                   *)
(*                                                                         *)
(* A worker may throw (the job has failed, there is one attempt) or stop   *)
(* in the middle (restart, crash); BullMQ gives such a stalled job out     *)
(* once more.  Nobody enqueues a job for a day on which the timer did not  *)
(* ring or Redis was away.                                                 *)
(***************************************************************************)
EXTENDS Integers, Sequences, FiniteSets

CONSTANTS
  Workers,         \* processes that take jobs from the queue
  Agreements,
  CollectionDay,   \* collection_day of each agreement
  MonthLength,
  MaxDay,          \* bound: the last day of the calendar
  MaxQueue,        \* bound: jobs waiting
  MaxPerPeriod,    \* bound: invoices counted for one period
  None

ASSUME InvoiceJobsAssumption ==
  /\ MonthLength \in Nat \ {0}
  /\ CollectionDay \in [Agreements -> 1..MonthLength]
  /\ MaxDay \in Nat \ {0}
  /\ MaxQueue \in Nat \ {0}
  /\ MaxPerPeriod \in Nat \ {0}
  /\ None \notin Agreements

VARIABLES
  day,        \* today
  rung,       \* the timer has rung today
  queue,      \* jobs waiting: "new", or "stalled" when given out again
  active,     \* the ACTIVE agreements
  made,       \* number of RENT invoices for each agreement and month
  worker      \* what each worker is at

vars == <<day, rung, queue, active, made, worker>>

DayOf(d)   == ((d - 1) % MonthLength) + 1
MonthOf(d) == ((d - 1) \div MonthLength) + 1
Months     == 1..MonthOf(MaxDay)

Idle == [pc |-> "idle", job |-> "new", today |-> 1, batch |-> {}, todo |-> {}, at |-> None]

TypeOK ==
  /\ day \in 1..MaxDay
  /\ rung \in BOOLEAN
  /\ queue \in Seq({"new", "stalled"})
  /\ Len(queue) <= MaxQueue
  /\ active \subseteq Agreements
  /\ made \in [Agreements -> [Months -> 0..MaxPerPeriod]]
  /\ worker \in [Workers -> [pc : {"idle", "fetch", "loop", "create"},
                             job : {"new", "stalled"}, today : 1..MaxDay,
                             batch : SUBSET Agreements, todo : SUBSET Agreements,
                             at : Agreements \cup {None}]]

Init ==
  /\ day = 1
  /\ rung = FALSE
  /\ queue = <<>>
  /\ active \in SUBSET Agreements
  /\ made = [a \in Agreements |-> [m \in Months |-> 0]]
  /\ worker = [w \in Workers |-> Idle]

At(w, pc) == worker[w].pc = pc
Month(w)  == MonthOf(worker[w].today)

-----------------------------------------------------------------------------
(* The timer and the calendar. *)

Ring ==
  /\ ~ rung
  /\ Len(queue) < MaxQueue
  /\ rung' = TRUE
  /\ queue' = Append(queue, "new")
  /\ UNCHANGED <<day, active, made, worker>>

\* The server is down at 01:00, or Redis does not take the job.
MissRing ==
  /\ ~ rung
  /\ rung' = TRUE
  /\ UNCHANGED <<day, queue, active, made, worker>>

Midnight ==
  /\ rung
  /\ day < MaxDay
  /\ day' = day + 1
  /\ rung' = FALSE
  /\ UNCHANGED <<queue, active, made, worker>>

\* An agreement is activated, terminated, or expires.
LeaseChanges(a) ==
  /\ active' = IF a \in active THEN active \ {a} ELSE active \cup {a}
  /\ UNCHANGED <<day, rung, queue, made, worker>>

-----------------------------------------------------------------------------
(* A worker. *)

Take(w) ==
  /\ At(w, "idle")
  /\ queue # <<>>
  /\ queue' = Tail(queue)
  /\ worker' = [worker EXCEPT ![w] = [Idle EXCEPT !.pc = "fetch", !.job = Head(queue)]]
  /\ UNCHANGED <<day, rung, active, made>>

DueOn(d) == {a \in active : CollectionDay[a] = DayOf(d)}

\* Mutant: the date is a day off.
Fetch_Tomorrow(w) ==
  /\ At(w, "fetch")
  /\ worker' = [worker EXCEPT ![w].pc = "loop", ![w].today = day + 1,
                              ![w].batch = DueOn(day), ![w].todo = DueOn(day)]
  /\ UNCHANGED <<day, rung, queue, active, made>>

Fetch(w) ==
  /\ At(w, "fetch")
  /\ worker' = [worker EXCEPT ![w].pc = "loop", ![w].today = day,
                              ![w].batch = DueOn(day), ![w].todo = DueOn(day)]
  /\ UNCHANGED <<day, rung, queue, active, made>>

\* The idempotency check.  Mutant: there is none.
Missing_Always(a, m) == TRUE

Missing(a, m) == made[a][m] = 0

\* Mutants: an existing invoice ends the run; it is looked at again and again.
Remaining_Break(todo, a) == {}
Remaining_Stuck(todo, a) == todo

Remaining(todo, a) == todo \ {a}

Check(w, a) ==
  /\ At(w, "loop")
  /\ a \in worker[w].todo
  /\ worker' = [worker EXCEPT ![w] =
                  IF Missing(a, Month(w))
                    THEN [@ EXCEPT !.pc = "create", !.at = a]
                    ELSE [@ EXCEPT !.todo = Remaining(worker[w].todo, a)]]
  /\ UNCHANGED <<day, rung, queue, active, made>>

Create(w) ==
  LET a == worker[w].at IN
  /\ At(w, "create")
  /\ made[a][Month(w)] < MaxPerPeriod
  /\ made' = [made EXCEPT ![a][Month(w)] = @ + 1]
  /\ worker' = [worker EXCEPT ![w].pc = "loop", ![w].at = None, ![w].todo = @ \ {a}]
  /\ UNCHANGED <<day, rung, queue, active>>

End(w) ==
  /\ At(w, "loop")
  /\ worker[w].todo = {}
  /\ worker' = [worker EXCEPT ![w] = Idle]
  /\ UNCHANGED <<day, rung, queue, active, made>>

\* A statement throws: the job has failed.
Fail(w) ==
  /\ ~ At(w, "idle")
  /\ worker' = [worker EXCEPT ![w] = Idle]
  /\ UNCHANGED <<day, rung, queue, active, made>>

\* maxStalledCount is 1: a job that stalls a second time has failed.
GivenOutAgain(job) == IF job = "new" THEN <<"stalled">> ELSE <<>>

Crash(w) ==
  /\ ~ At(w, "idle")
  /\ Len(queue) < MaxQueue
  /\ queue' = GivenOutAgain(worker[w].job) \o queue
  /\ worker' = [worker EXCEPT ![w] = Idle]
  /\ UNCHANGED <<day, rung, active, made>>

-----------------------------------------------------------------------------
Work(w) ==
  \/ Take(w)
  \/ Fetch(w)
  \/ \E a \in Agreements : Check(w, a)
  \/ Create(w)
  \/ End(w)

Next ==
  \/ Ring
  \/ MissRing
  \/ Midnight
  \/ \E a \in Agreements : LeaseChanges(a)
  \/ \E w \in Workers : Work(w) \/ Fail(w) \/ Crash(w)

Spec == Init /\ [][Next]_vars

\* A worker goes on with its job, and takes the next.
FairSpec == Spec /\ \A w \in Workers : WF_vars(Work(w))

-----------------------------------------------------------------------------
\* "Idempotency check: don't create duplicate invoice for same period": with
\* one worker, jobs that run again after a crash, and jobs that pile up, make
\* no second invoice for a month.
OneRentPerPeriod ==
  \A a \in Agreements, m \in Months : made[a][m] <= 1

\* A run that ends has left no gap: every agreement it found ACTIVE and due has
\* its invoice, whichever of them earlier, broken runs had reached.
RunLeavesNoGap ==
  [][\A w \in Workers :
       End(w) => \A a \in worker[w].batch : made[a][Month(w)] > 0]_vars

\* Every job comes to an end, also one that stalls.
JobsEnd ==
  (queue # <<>>) ~> (queue = <<>> /\ \A w \in Workers : At(w, "idle"))
=============================================================================
