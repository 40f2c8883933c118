--------------------------------- MODULE Hub ---------------------------------
(***************************************************************************)
(* The scheduler of AgroBotHub (apps/server/src/realtime/hub.ts) with what *)
(* it schedules: the rows in Postgres that a deadline job must handle, the *)
(* Workers that commit them and then wake the hub, the schedule table and  *)
(* the single alarm.                                                       *)
(*                                                                         *)
(* The hub is one Durable Object.  Its storage operations are atomic with  *)
(* the code around them, but while a job waits for Postgres or Telegram    *)
(* other events are delivered: a wake, the heartbeat, a manual sync.  A    *)
(* job is therefore three steps: its work, the query for its next due time *)
(* and, after closing its database client, the write to the schedule.      *)
(***************************************************************************)
EXTENDS Integers, Sequences, FiniteSetsExt, Functions

CONSTANTS Jobs,        \* names of jobs
          JobOrder,    \* the jobs in the order of the schedule query
          Deadline,    \* DEADLINE_JOBS: their next due time comes from Postgres
          Dispatch,    \* notifications.dispatch
          Sync,        \* catalog.sync, the job that may also be run by hand
          Releases,    \* the sets of jobs that a deployed version may know
          Items,       \* ids of rows in Postgres that a deadline job handles
          MaxTime,     \* bound on the clock
          Period,      \* between two runs of a job that is not a deadline job
          Delays,      \* retry delays after a failure (JOB_RETRY_DELAYS_MS)
          Batch,       \* DISPATCH_BATCH_SIZE
          MaxFaults    \* bound on failed runs and crashes, together

ASSUME HubAssumption ==
    /\ Deadline \subseteq Jobs /\ Dispatch \in Deadline /\ Sync \in Jobs \ Deadline
    /\ JobOrder \in Seq(Jobs)
    /\ \A j \in Jobs : \E k \in DOMAIN JobOrder : JobOrder[k] = j
    /\ \A K \in Releases : K \subseteq Jobs /\ Deadline \cup {Sync} \subseteq K
    /\ Releases # {}
    /\ MaxTime \in Nat /\ Period \in Nat \ {0} /\ Batch \in Nat \ {0}
    /\ Delays \in Seq(Nat \ {0}) /\ Delays # <<>>
    /\ MaxFaults \in Nat

VARIABLES now,      \* the clock
          known,    \* JOB_NAMES of the deployed version
          schedule, \* job -> its row, for the jobs that have one
          alarm,    \* when the alarm is set to fire, or Never
          run,      \* handler -> the run of alarm() or runJob() under way
          items,    \* the rows in Postgres: whose work, and due when
          unwoken,  \* items whose transaction committed and whose wake() is in flight
          missed,   \* history: items of which no job run can know, see below
          failures, \* failed runs so far
          crashes   \* crashes of Workers and of the hub so far

vars == <<now, known, schedule, alarm, run, items, unwoken, missed, failures, crashes>>

-----------------------------------------------------------------------------
Time == 0..MaxTime
Never == MaxTime + 1    \* SQL null, and every time beyond the bound
Due == Time \cup {Never}
Later(d) == IF now + d > MaxTime THEN Never ELSE now + d
Earliest(S) == IF S = {} THEN Never ELSE Min(S)

Handlers == {"alarm", "manual"}

\* The rows of a table keyed by job: a function on the jobs that have one.
IsRows(f, S) == DOMAIN f \subseteq Jobs /\ f \in [DOMAIN f -> S]
NoRows == [j \in {} |-> 0]

ScheduleRow == [due: Due, failures: Nat]
Faulty == failures + crashes < MaxFaults

Idle == [pc |-> "idle", todo |-> NoRows, next |-> Never]
Absent == [state |-> "absent", job |-> Dispatch, due |-> Never]
Gone == [Absent EXCEPT !.state = "gone"]

TypeOK ==
    /\ now \in Time
    /\ known \in Releases
    /\ IsRows(schedule, ScheduleRow)
    /\ alarm \in Due
    /\ DOMAIN run = Handlers
    /\ \A h \in Handlers :
          /\ run[h] = [pc |-> run[h].pc, todo |-> run[h].todo, next |-> run[h].next]
          /\ run[h].pc \in {"idle", "work", "read", "store"}
          /\ IsRows(run[h].todo, Nat)
          /\ run[h].next \in Due
    /\ items \in [Items -> [state: {"absent", "waiting", "gone"},
                            job: Deadline, due: Due]]
    /\ unwoken \subseteq Items /\ missed \subseteq Items
    /\ failures \in Nat /\ crashes \in Nat /\ failures + crashes <= MaxFaults

Init ==
    /\ now = 0
    /\ known \in Releases
    /\ schedule = NoRows
    /\ alarm = Never
    /\ run = [h \in Handlers |-> Idle]
    /\ items = [i \in Items |-> Absent]
    /\ unwoken = {} /\ missed = {}
    /\ failures = 0 /\ crashes = 0

-----------------------------------------------------------------------------
(* The schedule table and the alarm.                                       *)

\* arm(): the alarm is set to the earliest due time, or cleared.
ArmedFor(s) == Earliest({s[j].due : j \in DOMAIN s})

\* setDue: write a job's row, whatever it held.
SetDue(s, j, due, n) ==
    [k \in DOMAIN s \cup {j} |-> IF k = j THEN [due |-> due, failures |-> n] ELSE s[k]]

\* seedIfEmpty: every job is due now when the table has no row at all.
SeedIfEmpty(s) ==
    IF DOMAIN s = {} THEN [j \in known |-> [due |-> now, failures |-> 0]] ELSE s

\* Fault: a row that exists is left alone.
MarkDeadlinesDueIfUnset(s) ==
    [j \in DOMAIN s \cup (Deadline \cap known) |->
        IF j \in DOMAIN s THEN s[j] ELSE [due |-> now, failures |-> 0]]

\* markDeadlinesDue: bring the deadline jobs forward, never push one back.
MarkDeadlinesDue(s) ==
    [j \in DOMAIN s \cup (Deadline \cap known) |->
        IF j \notin DOMAIN s THEN [due |-> now, failures |-> 0]
        ELSE IF j \in Deadline \cap known /\ s[j].due > now
             THEN [s[j] EXCEPT !.due = now] ELSE s[j]]

-----------------------------------------------------------------------------
(* The Workers.  A request's transaction commits rows; then afterCommit    *)
(* calls hub.wake(), which runs in the background and may be lost with its *)
(* Worker.                                                                 *)

Waiting(j) == {i \in Items : items[i].state = "waiting" /\ items[i].job = j}
DueItems(j) == {i \in Waiting(j) : items[i].due <= now}

\* The rows of a run are handled in the order of the schedule query.
Position(j) == CHOOSE k \in DOMAIN JobOrder : JobOrder[k] = j
First(todo) == CHOOSE j \in DOMAIN todo : \A k \in DOMAIN todo : Position(j) <= Position(k)
JobOf(h) == First(run[h].todo)

\* Handler h has read the next due time of job j and has not stored it yet.
ReadFor(h, j) == run[h].pc = "store" /\ JobOf(h) = j

\* An item that is reported while its job is between the two, and that the
\* query had not seen, is missed until the job reads again.
Unseen(i, item) ==
    \E h \in Handlers : ReadFor(h, item.job) /\ run[h].next > item.due

\* A transaction enqueues a notification, due at once, or creates a
\* reservation's deadline.
Commit(i, j, due) ==
    /\ items[i].state = "absent"
    /\ IF j = Dispatch THEN due = now ELSE due >= now
    /\ items' = [items EXCEPT ![i] = [state |-> "waiting", job |-> j, due |-> due]]
    /\ unwoken' = unwoken \cup {i}
    /\ UNCHANGED <<now, known, schedule, alarm, run, missed, failures, crashes>>

\* A transaction answers a reservation, so its deadline is gone.
Answer(i) ==
    /\ items[i].state = "waiting" /\ items[i].job # Dispatch
    /\ items' = [items EXCEPT ![i] = Gone]
    /\ unwoken' = unwoken \cup {i}
    /\ missed' = missed \ {i}
    /\ UNCHANGED <<now, known, schedule, alarm, run, failures, crashes>>

\* wake(): the RPC arrives at the hub.
Wake(i) ==
    /\ i \in unwoken
    /\ unwoken' = unwoken \ {i}
    /\ schedule' = MarkDeadlinesDue(SeedIfEmpty(schedule))
    /\ alarm' = ArmedFor(schedule')
    /\ missed' = IF items[i].state = "waiting" /\ Unseen(i, items[i])
                 THEN missed \cup {i} ELSE missed
    /\ UNCHANGED <<now, known, run, items, failures, crashes>>

\* The Worker dies, or its call fails, between the commit and the wake.
WakeLost(i) ==
    /\ i \in unwoken /\ Faulty
    /\ unwoken' = unwoken \ {i}
    /\ missed' = IF items[i].state = "waiting" THEN missed \cup {i} ELSE missed
    /\ crashes' = crashes + 1
    /\ UNCHANGED <<now, known, schedule, alarm, run, items, failures>>

-----------------------------------------------------------------------------
(* alarm() and runJob().                                                   *)

DueRows(s) == {j \in DOMAIN s : s[j].due <= now}

\* What a run keeps of them: each job with its failures so far.
Snapshot(s) == [j \in DueRows(s) |-> s[j].failures]

\* What is left to do once the first row is handled.
After(todo) ==
    IF DOMAIN todo = {First(todo)} THEN Idle
    ELSE [pc |-> "work", todo |-> Restrict(todo, DOMAIN todo \ {First(todo)}), next |-> Never]

\* Fault: the run that ends does not arm the alarm.
FinishUnarmed(h, s) ==
    /\ schedule' = s
    /\ run' = [run EXCEPT ![h] = After(@.todo)]
    /\ alarm' = alarm

\* The run goes on to its next row, or ends by arming the alarm.
Finish(h, s) ==
    /\ schedule' = s
    /\ run' = [run EXCEPT ![h] = After(@.todo)]
    /\ alarm' = IF run'[h] = Idle THEN ArmedFor(s) ELSE alarm

\* The alarm fires: the rows that are due are read once, in job order.
Fire ==
    /\ run["alarm"].pc = "idle" /\ alarm <= now
    /\ IF DueRows(schedule) = {}
       THEN alarm' = ArmedFor(schedule) /\ run' = run
       ELSE /\ alarm' = Never
            /\ run' = [run EXCEPT !["alarm"] =
                          [pc |-> "work", todo |-> Snapshot(schedule), next |-> Never]]
    /\ UNCHANGED <<now, known, schedule, items, unwoken, missed, failures, crashes>>

\* /sync and Sync now: runJob(catalog.sync).
RunJob ==
    /\ run["manual"].pc = "idle"
    /\ schedule' = SeedIfEmpty(schedule)
    /\ run' = [run EXCEPT !["manual"] =
                  [pc |-> "work", todo |-> [j \in {Sync} |-> 0], next |-> Never]]
    /\ UNCHANGED <<now, known, alarm, items, unwoken, missed, failures, crashes>>

\* A row left by a version that knew the job is deleted.
Forget ==
    /\ run["alarm"].pc = "work" /\ JobOf("alarm") \notin known
    /\ Finish("alarm", Restrict(schedule, DOMAIN schedule \ {JobOf("alarm")}))
    /\ UNCHANGED <<now, known, items, unwoken, missed, failures, crashes>>

\* What a run of job j may leave of the items: done, or due again later.
\* A reservation whose deadline is handled leaves a notification instead.
Worked(j, new) ==
    /\ \A i \in Items \ DueItems(j) :
          \/ new[i] = items[i]
          \/ /\ j = Sync /\ items[i].state = "absent"
             /\ new[i] = [state |-> "waiting", job |-> Dispatch, due |-> now]
    /\ \A i \in DueItems(j) :
          IF j = Dispatch
          THEN new[i] \in {items[i], Gone}
                   \cup {[items[i] EXCEPT !.due = Later(Delays[k])] : k \in DOMAIN Delays}
          ELSE new[i] = [state |-> "waiting", job |-> Dispatch, due |-> now]

Outcomes(j) ==
    {new \in [Items -> {items[i] : i \in Items} \cup {Gone}
                          \cup [state: {"waiting"}, job: {Dispatch}, due: Due]] :
        Worked(j, new)}

Handled(new) == {i \in Items : new[i] # items[i]}

\* The work commits.  Inside the hub a wake only marks the schedule, and the
\* alarm is armed when the run ends.  A full batch skips the query: the job
\* is due again at the time it started.
Work(h, new) ==
    LET j == JobOf(h)
        full == j = Dispatch /\ Cardinality(Handled(new)) >= Batch IN
    /\ run[h].pc = "work" /\ j \in known
    /\ new \in Outcomes(j)
    /\ j = Dispatch => Cardinality(Handled(new)) = Min({Batch, Cardinality(DueItems(j))})
    /\ items' = new
    /\ run' = [run EXCEPT ![h].pc = IF full THEN "store" ELSE "read",
                          ![h].next = IF full THEN now ELSE Never]
    /\ IF j # Dispatch /\ Handled(new) # {}
       THEN /\ schedule' = MarkDeadlinesDue(schedule)
            /\ missed' = (missed \ Handled(new)) \cup
                             {i \in Handled(new) : Unseen(i, new[i])}
       ELSE schedule' = schedule /\ missed' = missed \ Handled(new)
    /\ UNCHANGED <<now, known, alarm, unwoken, failures, crashes>>

\* nextDispatchDueAt, nextReminderDueAt, nextExpiryDueAt read Postgres; the
\* other jobs compute their next occurrence from the clock.
NextDue(j) ==
    IF j \in Deadline THEN Earliest({items[i].due : i \in Waiting(j)})
    ELSE Later(Period)

\* The run learns when its job is due next.
ReadNext(h) ==
    LET j == JobOf(h) IN
    /\ run[h].pc = "read"
    /\ run' = [run EXCEPT ![h].pc = "store", ![h].next = NextDue(j)]
    /\ missed' = missed \ Waiting(j)
    /\ UNCHANGED <<now, known, schedule, alarm, items, unwoken, failures, crashes>>

\* setDue with what the run answered, failures back to zero.
Store(h) ==
    /\ run[h].pc = "store"
    /\ Finish(h, SetDue(schedule, JobOf(h), run[h].next, 0))
    /\ UNCHANGED <<now, known, items, unwoken, missed, failures, crashes>>

\* The retry delay after a run that failed n times in a row before.
RetryDelay(n) == Delays[Min({n + 1, Len(Delays)})]

\* The job throws: its one transaction rolled back, or it committed and the
\* query after it failed.  The alarm's run backs the job off; a manual run
\* leaves its slot alone.
Fail(h) ==
    LET j == JobOf(h)
        n == run[h].todo[j] IN
    /\ run[h].pc \in {"work", "read"} /\ j \in known /\ Faulty
    /\ failures' = failures + 1
    /\ Finish(h, IF h = "alarm"
                 THEN SetDue(schedule, j, Later(RetryDelay(n)), n + 1)
                 ELSE schedule)
    /\ UNCHANGED <<now, known, items, unwoken, missed, crashes>>

-----------------------------------------------------------------------------
\* Fault: the heartbeat seeds the schedule and leaves the alarm.
EnsureSeeded ==
    /\ schedule' = SeedIfEmpty(schedule)
    /\ UNCHANGED <<now, known, alarm, run, items, unwoken, missed, failures, crashes>>

\* The 15-minute heartbeat: it looks at the hub's own storage only.
EnsureArmed ==
    /\ schedule' = SeedIfEmpty(schedule)
    /\ alarm' = ArmedFor(schedule')
    /\ UNCHANGED <<now, known, run, items, unwoken, missed, failures, crashes>>

\* The object is evicted or replaced by version K.  Its storage survives, its
\* runs do not, and an alarm whose handler did not end is delivered again.
Restart(K) ==
    /\ Faulty
    /\ crashes' = crashes + 1
    /\ known' = K
    /\ run' = [h \in Handlers |-> Idle]
    /\ alarm' = IF run["alarm"].pc = "idle" THEN alarm ELSE now
    /\ UNCHANGED <<now, schedule, items, unwoken, missed, failures>>

Tick ==
    /\ now < MaxTime
    /\ now' = now + 1
    /\ UNCHANGED <<known, schedule, alarm, run, items, unwoken, missed, failures, crashes>>

Handle(h) ==
    /\ run[h].pc # "idle"
    /\ \/ \E new \in Outcomes(JobOf(h)) : Work(h, new)
       \/ ReadNext(h)
       \/ Store(h)
       \/ Fail(h)

Next ==
    \/ \E i \in Items, j \in Deadline, due \in Time : Commit(i, j, due)
    \/ \E i \in Items : Answer(i) \/ Wake(i) \/ WakeLost(i)
    \/ Fire \/ RunJob \/ Forget
    \/ \E h \in Handlers : Handle(h)
    \/ EnsureArmed
    \/ \E K \in Releases : Restart(K)
    \/ Tick

Spec == Init /\ [][Next]_vars

\* The platform delivers a due alarm, a call that was sent and the cron
\* trigger, and a run of a job ends.  Nobody has to commit anything, to run
\* a sync by hand or to let time pass.
Fairness ==
    /\ WF_vars(Fire) /\ WF_vars(Forget) /\ WF_vars(EnsureArmed)
    /\ \A h \in Handlers : WF_vars(Handle(h))
    /\ \A i \in Items : WF_vars(Wake(i) \/ WakeLost(i))

FairSpec == Spec /\ Fairness

-----------------------------------------------------------------------------
(* Properties.                                                             *)

\* The schedule's promise for an item: its job's row is due no later than the
\* item is, or it backs off after a failure.
Covered(i) ==
    LET j == items[i].job IN
    /\ j \in DOMAIN schedule
    /\ \/ schedule[j].failures > 0
       \/ schedule[j].due <= now
       \/ schedule[j].due <= items[i].due

\* Whatever commits, wakes, failures and restarts do to each other, work that
\* was reported outside the window of its job is never later on the schedule
\* than in Postgres (wake, setDue and the jobs' next due times).
ScheduleCoversWork ==
    \A j \in Deadline : \A i \in Waiting(j) \ (unwoken \cup missed) : Covered(i)

\* With no crash so far, a hub at rest has its one alarm on the earliest row
\* of the schedule: every way out of a handler arms it.
AlarmIsEarliest ==
    crashes = 0 /\ (\A h \in Handlers : run[h].pc = "idle") => alarm = ArmedFor(schedule)

\* No row of the schedule stays due for ever: its job runs, or it is forgotten
\* with the version that knew it, crashes and failures included.
DueRowIsHandled ==
    \A j \in Jobs : []<>~(j \in DOMAIN schedule /\ schedule[j].due <= now)

\* Work that is due and reported is done in the end, batch by batch, unless
\* its job backs off.
Overdue(i) ==
    /\ items[i].state = "waiting" /\ items[i].due <= now
    /\ i \notin missed
    /\ items[i].job \in DOMAIN schedule => schedule[items[i].job].failures = 0

DueWorkIsDone == \A i \in Items : []<>~Overdue(i)

\* The claim of domain/ports.ts and jobs/deadlines.ts: at rest, with no wake
\* in flight, nothing lost and nothing failed, the alarm is never later than
\* the work.
AlarmNeverLate ==
    (\A h \in Handlers : run[h].pc = "idle") /\ unwoken = {} /\ crashes = 0 /\ failures = 0
        => \A i \in Items :
              items[i].state = "waiting" => alarm <= now \/ alarm <= items[i].due

-----------------------------------------------------------------------------
(* The inductive invariant of the two.                                     *)

\* A run that is under way has rows to handle, a manual run only the sync.
RunsHaveRows ==
    /\ \A h \in Handlers :
          IF run[h].pc = "idle" THEN run[h] = Idle ELSE DOMAIN run[h].todo # {}
    /\ DOMAIN run["manual"].todo \subseteq {Sync}

\* Until a run has handled a deadline job's row, the row stays due.
RowsStayDue ==
    \A j \in DOMAIN run["alarm"].todo \cap Deadline :
        j \in DOMAIN schedule /\ schedule[j].due <= now

\* What a run has read of its job's next due time still covers the job's
\* work, but for what is missed.
ReadsCoverWork ==
    \A h \in Handlers : run[h].pc = "store" =>
        \A i \in Waiting(JobOf(h)) \ (unwoken \cup missed) :
            run[h].next <= now \/ run[h].next <= items[i].due

IInv ==
    /\ TypeOK
    /\ RunsHaveRows
    /\ RowsStayDue
    /\ ReadsCoverWork
    /\ ScheduleCoversWork
    /\ AlarmIsEarliest
=============================================================================
