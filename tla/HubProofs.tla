----------------------------- MODULE HubProofs -----------------------------
(***************************************************************************)
(* The scheduler, for any jobs, items, releases, delays and faults: the    *)
(* schedule never puts work later than Postgres has it, and a hub at rest  *)
(* has its alarm on the earliest row.  First what the schedule's own       *)
(* operations do to it, then one lemma per step of the hub.                *)
(***************************************************************************)
EXTENDS Hub, FiniteSetTheorems, WellFoundedInduction, TLAPS

-----------------------------------------------------------------------------
(* The least of a set of times.                                            *)

(* A set of numbers that is not empty has a least one, whatever its size:  *)
(* the intervals up to its members are well ordered by inclusion.          *)
LEMMA SmallestIsLeast ==
    ASSUME NEW S, S \in SUBSET Nat, S # {}
    PROVE  Min(S) \in S /\ \A y \in S : Min(S) <= y
<1> DEFINE Below == {0..n : n \in S}
<1>1. Below \subseteq FiniteSubsetsOf(Nat) /\ Below # {}
  <2>1. \A n \in S : 0..n \in SUBSET Nat /\ IsFiniteSet(0..n)
    BY FS_Interval
  <2> QED
    BY <2>1 DEF FiniteSubsetsOf
<1>2. PICK B \in Below : \A C \in Below : ~(<<C, B>> \in StrictSubsetOrdering(Nat))
  <2> HIDE DEF Below
  <2> QED
    BY <1>1, FS_StrictSubsetOrderingWellFounded, WFMin
<1>3. PICK n \in S : B = 0..n
  OBVIOUS
<1>4. ASSUME NEW m \in S, m < n PROVE FALSE
  <2>1. <<0..m, 0..n>> \in StrictSubsetOrdering(Nat)
    BY <1>4 DEF StrictSubsetOrdering
  <2> QED
    BY <1>2, <1>3, <2>1
<1>5. \A m \in S : n <= m
  BY <1>4
<1> QED
  BY <1>5 DEF Min

(* Earliest is a lower bound, and one of the times or Never.               *)
LEMMA EarliestBounds ==
    ASSUME NEW S, S \in SUBSET Due
    PROVE  Earliest(S) \in Due /\ \A d \in S : Earliest(S) <= d
<1>1. Due \subseteq Nat /\ Never \in Due
  BY HubAssumption DEF Due, Time, Never
<1> QED
  BY <1>1, SmallestIsLeast DEF Earliest

(* Hub.First is one of the rows.                                           *)
LEMMA FirstIsRow ==
    ASSUME NEW todo, DOMAIN todo \subseteq Jobs, DOMAIN todo # {}
    PROVE  First(todo) \in DOMAIN todo
<1> DEFINE Positions == {Position(j) : j \in DOMAIN todo}
<1>1. \A j \in Jobs : Position(j) \in Nat
  BY HubAssumption DEF Position
<1>2. Min(Positions) \in Positions /\ \A p \in Positions : Min(Positions) <= p
  <2>1. Positions \in SUBSET Nat /\ Positions # {}
    BY <1>1
  <2> HIDE DEF Positions
  <2> QED
    BY <2>1, SmallestIsLeast
<1>3. PICK j \in DOMAIN todo : Min(Positions) = Position(j)
  BY <1>2
<1>4. \A k \in DOMAIN todo : Position(j) <= Position(k)
  BY <1>2, <1>3
<1> QED
  BY <1>4 DEF First

-----------------------------------------------------------------------------
(* Schedules.                                                              *)

IsSchedule(s) == IsRows(s, ScheduleRow)

\* Every row of s is in d, due no later, with the same failures.
NotLater(d, s) ==
    /\ DOMAIN s \subseteq DOMAIN d
    /\ \A j \in DOMAIN s : d[j].due <= s[j].due /\ d[j].failures = s[j].failures

LEMMA ArmedForType ==
    ASSUME NEW s, IsSchedule(s)
    PROVE  ArmedFor(s) \in Due
BY EarliestBounds DEF IsSchedule, IsRows, ScheduleRow, ArmedFor

LEMMA SeedIfEmptyIs ==
    ASSUME NEW s, IsSchedule(s), now \in Time, known \subseteq Jobs
    PROVE  IsSchedule(SeedIfEmpty(s)) /\ NotLater(SeedIfEmpty(s), s)
<1>1. \A j \in DOMAIN s : s[j].due <= s[j].due
  BY HubAssumption DEF IsSchedule, IsRows, ScheduleRow, Due, Time, Never
<1>2. CASE DOMAIN s = {}
  BY <1>2 DEF SeedIfEmpty, IsSchedule, IsRows, ScheduleRow, Due, NotLater
<1>3. CASE DOMAIN s # {}
  BY <1>1, <1>3 DEF SeedIfEmpty, NotLater
<1> QED
  BY <1>2, <1>3

LEMMA MarkDeadlinesDueIs ==
    ASSUME NEW s, IsSchedule(s), now \in Time, known \subseteq Jobs, Deadline \subseteq known
    PROVE  LET d == MarkDeadlinesDue(s) IN
           /\ IsSchedule(d) /\ NotLater(d, s)
           /\ \A j \in Deadline : j \in DOMAIN d /\ d[j].due <= now
<1> DEFINE d == MarkDeadlinesDue(s)
<1>1. DOMAIN d = DOMAIN s \cup Deadline /\ DOMAIN s \subseteq Jobs
  BY DEF MarkDeadlinesDue, IsSchedule, IsRows
<1>2. ASSUME NEW j \in DOMAIN d
      PROVE  /\ d[j] \in ScheduleRow
             /\ j \in DOMAIN s => d[j].due <= s[j].due /\ d[j].failures = s[j].failures
             /\ j \in Deadline => d[j].due <= now
  <2>1. now \in Nat /\ now \in Due /\ \A x \in Due : x \in Nat
    BY HubAssumption DEF Due, Time, Never
  <2>2. d[j] = IF j \notin DOMAIN s THEN [due |-> now, failures |-> 0]
               ELSE IF j \in Deadline \cap known /\ s[j].due > now
                    THEN [s[j] EXCEPT !.due = now] ELSE s[j]
    BY <1>1, <1>2 DEF MarkDeadlinesDue
  <2>3. CASE j \notin DOMAIN s
    BY <2>1, <2>2, <2>3 DEF ScheduleRow
  <2>4. CASE j \in DOMAIN s /\ j \in Deadline /\ s[j].due > now
    <3>1. s[j] \in ScheduleRow /\ d[j] = [s[j] EXCEPT !.due = now]
      BY <2>2, <2>4 DEF IsSchedule, IsRows
    <3> QED
      BY <2>1, <2>4, <3>1 DEF ScheduleRow
  <2>5. CASE j \in DOMAIN s /\ ~(j \in Deadline /\ s[j].due > now)
    <3>1. s[j] \in ScheduleRow /\ d[j] = s[j]
      BY <2>2, <2>5 DEF IsSchedule, IsRows
    <3> HIDE DEF d
    <3>2. s[j].due \in Nat
      <4>1. s[j].due \in Due
        BY <3>1 DEF ScheduleRow
      <4> QED
        BY <2>1, <4>1
    <3>3. j \in Deadline => s[j].due <= now
      BY <2>1, <2>5, <3>2
    <3> QED
      BY <2>5, <3>1, <3>2, <3>3
  <2> QED
    BY <2>3, <2>4, <2>5
<1>3. d \in [DOMAIN d -> ScheduleRow]
  <2>1. d = [j \in DOMAIN d |-> d[j]]
    BY DEF MarkDeadlinesDue
  <2> HIDE DEF d
  <2> QED
    BY <1>2, <2>1
<1> HIDE DEF d
<1>4. IsSchedule(d) /\ NotLater(d, s)
  BY <1>1, <1>2, <1>3, HubAssumption DEF IsSchedule, IsRows, NotLater
<1>5. \A j \in Deadline : j \in DOMAIN d /\ d[j].due <= now
  BY <1>1, <1>2
<1> QED
  BY <1>4, <1>5 DEF d

\* Schedule d is s with another row for job j.
RowSet(d, s, j, row) ==
    /\ IsSchedule(d)
    /\ DOMAIN d = DOMAIN s \cup {j}
    /\ \A k \in DOMAIN s \ {j} : d[k] = s[k]
    /\ d[j] = row

LEMMA SetDueIs ==
    ASSUME NEW s, IsSchedule(s), NEW j \in Jobs, NEW due \in Due, NEW n \in Nat
    PROVE  RowSet(SetDue(s, j, due, n), s, j, [due |-> due, failures |-> n])
BY DEF RowSet, SetDue, IsSchedule, IsRows, ScheduleRow

(* What is left of a run's rows once the first is handled.                 *)
LEMMA AfterIs ==
    ASSUME NEW todo, IsRows(todo, Nat), DOMAIN todo # {}
    PROVE  LET a == After(todo) IN
           /\ a = [pc |-> a.pc, todo |-> a.todo, next |-> a.next]
           /\ a.pc \in {"idle", "work"} /\ a.next \in Due /\ IsRows(a.todo, Nat)
           /\ DOMAIN a.todo = DOMAIN todo \ {First(todo)}
           /\ IF a.pc = "idle" THEN a = Idle ELSE DOMAIN a.todo # {}
<1>1. First(todo) \in DOMAIN todo
  BY FirstIsRow DEF IsRows
<1>2. CASE DOMAIN todo = {First(todo)}
  BY <1>2 DEF After, Idle, NoRows, IsRows, Due
<1>3. CASE DOMAIN todo # {First(todo)}
  BY <1>1, <1>3 DEF After, Idle, Restrict, IsRows, Due
<1> QED
  BY <1>2, <1>3

-----------------------------------------------------------------------------
(* What the steps share.                                                   *)

\* The states a run may be in.
IsRun(q) ==
    /\ q = [pc |-> q.pc, todo |-> q.todo, next |-> q.next]
    /\ q.pc \in {"idle", "work", "read", "store"}
    /\ IsRows(q.todo, Nat)
    /\ q.next \in Due

\* The run's job is one of its rows; a manual run's job has no deadline.
LEMMA JobIsRow ==
    ASSUME TypeOK, RunsHaveRows, NEW h \in Handlers, run[h].pc # "idle"
    PROVE  /\ DOMAIN run[h].todo # {} /\ JobOf(h) \in DOMAIN run[h].todo /\ JobOf(h) \in Jobs
           /\ h = "manual" => JobOf(h) = Sync
<1>1. DOMAIN run[h].todo \subseteq Jobs /\ DOMAIN run[h].todo # {}
  BY DEF TypeOK, IsRows, RunsHaveRows
<1>2. JobOf(h) \in DOMAIN run[h].todo
  BY <1>1, FirstIsRow DEF JobOf
<1> QED
  BY <1>1, <1>2 DEF RunsHaveRows

\* Only deadline jobs have items.
LEMMA WaitingHasDeadline ==
    ASSUME TypeOK, NEW j, NEW i \in Waiting(j)
    PROVE  i \in Items /\ j \in Deadline /\ items[i].job = j /\ items[i].due \in Due
BY DEF TypeOK, Waiting

\* A schedule that only brings rows forward covers what it covered, and keeps
\* due what was due.
LEMMA ForwardKeeps ==
    ASSUME TypeOK, IsSchedule(schedule'), NotLater(schedule', schedule),
           now' \in Time, now <= now'
    PROVE  /\ \A i \in Items : items'[i] = items[i] /\ Covered(i) => Covered(i)'
           /\ \A j \in Jobs : j \in DOMAIN schedule /\ schedule[j].due <= now
                                => j \in DOMAIN schedule' /\ schedule'[j].due <= now'
<1>1. now \in Nat /\ now' \in Nat /\ \A x \in Due : x \in Nat
  BY HubAssumption DEF TypeOK, Due, Time, Never
<1>2. ASSUME NEW j \in DOMAIN schedule
      PROVE  /\ j \in DOMAIN schedule' /\ schedule[j].due \in Nat /\ schedule'[j].due \in Nat
             /\ schedule'[j].due <= schedule[j].due
             /\ schedule'[j].failures = schedule[j].failures
  BY <1>1, <1>2 DEF TypeOK, IsSchedule, IsRows, ScheduleRow, NotLater
<1>3. ASSUME NEW i \in Items, items'[i] = items[i], Covered(i) PROVE Covered(i)'
  <2>1. items[i].job \in DOMAIN schedule /\ items[i].due \in Nat
    BY <1>1, <1>3 DEF Covered, TypeOK
  <2> QED
    BY <1>1, <1>2, <1>3, <2>1 DEF Covered
<1> QED
  BY <1>1, <1>2, <1>3

LEMMA SameSchedule ==
    ASSUME TypeOK, schedule' = schedule
    PROVE  IsSchedule(schedule') /\ NotLater(schedule', schedule)
<1>1. ASSUME NEW j \in DOMAIN schedule PROVE schedule[j].due \in Nat
  <2>1. schedule[j].due \in Due
    BY DEF TypeOK, IsRows, ScheduleRow
  <2> QED
    BY <2>1, HubAssumption DEF Due, Time, Never
<1> QED
  BY <1>1 DEF TypeOK, IsSchedule, NotLater

\* The steps that leave the runs alone and bring the schedule forward, if they
\* change it at all.
LEMMA BetweenRuns ==
    ASSUME IInv, TypeOK', run' = run, IsSchedule(schedule'), NotLater(schedule', schedule),
           now <= now',
           \A i \in Items : items'[i].state = "waiting" /\ i \notin unwoken' \cup missed' =>
               \/ items'[i] = items[i] /\ i \notin unwoken \cup missed
               \/ /\ Covered(i)'
                  /\ \A h \in Handlers : run[h].pc = "store" /\ JobOf(h) = items'[i].job =>
                        run[h].next <= now' \/ run[h].next <= items'[i].due
    PROVE  RunsHaveRows' /\ RowsStayDue' /\ ReadsCoverWork' /\ ScheduleCoversWork'
<1> USE DEF IInv
<1>1. now \in Nat /\ now' \in Nat /\ now' \in Time
  BY HubAssumption DEF TypeOK, Time
<1>2. RunsHaveRows'
  BY DEF RunsHaveRows
<1>3. RowsStayDue'
  <2> SUFFICES ASSUME NEW j \in DOMAIN run'["alarm"].todo \cap Deadline
               PROVE  j \in DOMAIN schedule' /\ schedule'[j].due <= now'
    BY DEF RowsStayDue
  <2> QED
    BY <1>1, ForwardKeeps, HubAssumption DEF RowsStayDue
<1>4. ReadsCoverWork'
  <2> SUFFICES ASSUME NEW h \in Handlers, run'[h].pc = "store",
                      NEW i \in (Waiting(JobOf(h)) \ (unwoken \cup missed))'
               PROVE  run'[h].next <= now' \/ run'[h].next <= items'[i].due
    BY DEF ReadsCoverWork
  <2>1. /\ i \in Items /\ items'[i].state = "waiting" /\ items'[i].job = JobOf(h)
        /\ i \notin unwoken' \cup missed' /\ run'[h].next \in Nat
    BY HubAssumption DEF Waiting, JobOf, TypeOK, Due, Time, Never
  <2>2. CASE items'[i] = items[i] /\ i \notin unwoken \cup missed
    <3>1. i \in Waiting(JobOf(h)) \ (unwoken \cup missed)
      BY <2>1, <2>2 DEF Waiting
    <3> QED
      BY <1>1, <2>1, <2>2, <3>1 DEF ReadsCoverWork
  <2> QED
    BY <2>1, <2>2
<1>5. ScheduleCoversWork'
  <2> SUFFICES ASSUME NEW j \in Deadline,
                      NEW i \in (Waiting(j) \ (unwoken \cup missed))'
               PROVE  Covered(i)'
    BY DEF ScheduleCoversWork
  <2>1. /\ i \in Items /\ items'[i].state = "waiting" /\ items'[i].job = j
        /\ i \notin unwoken' \cup missed'
    BY DEF Waiting
  <2>2. CASE items'[i] = items[i] /\ i \notin unwoken \cup missed
    <3>1. i \in Waiting(j) \ (unwoken \cup missed)
      BY <2>1, <2>2 DEF Waiting
    <3>2. Covered(i)
      BY <3>1 DEF ScheduleCoversWork
    <3> QED
      BY <1>1, <2>1, <2>2, <3>2, ForwardKeeps
  <2> QED
    BY <2>1, <2>2
<1> QED
  BY <1>2, <1>3, <1>4, <1>5

\* A run that has handled its first row: the row now covers its job's work.
LEMMA FinishKeeps ==
    ASSUME IInv, NEW h \in Handlers, run[h].pc # "idle", NEW s, Finish(h, s), IsSchedule(s),
           UNCHANGED <<now, known, items, unwoken, missed, crashes>>,
           failures' \in Nat, failures' + crashes <= MaxFaults,
           \A k \in DOMAIN schedule \ {JobOf(h)} : k \in DOMAIN s /\ s[k] = schedule[k],
           \A i \in Waiting(JobOf(h)) \ (unwoken \cup missed) : Covered(i)'
    PROVE  IInv'
<1> USE DEF IInv
<1> DEFINE j == JobOf(h)
           a == After(run[h].todo)
<1>1. /\ DOMAIN run[h].todo # {} /\ j \in DOMAIN run[h].todo
      /\ h = "manual" => j = Sync
      /\ IsRows(run[h].todo, Nat) /\ DOMAIN run = Handlers
  BY JobIsRow DEF TypeOK
<1>2. /\ run' = [run EXCEPT ![h] = a] /\ schedule' = s
      /\ IsRun(a) /\ a.pc \in {"idle", "work"}
      /\ DOMAIN a.todo = DOMAIN run[h].todo \ {j}
      /\ IF a.pc = "idle" THEN a = Idle ELSE DOMAIN a.todo # {}
  BY <1>1, AfterIs DEF Finish, IsRun, JobOf
<1> HIDE DEF a, j
<1>3. DOMAIN run' = Handlers /\ run'[h] = a /\ \A g \in Handlers \ {h} : run'[g] = run[g]
  BY <1>1, <1>2
<1>4. \A g \in Handlers : IsRun(run[g])
  BY DEF TypeOK, IsRun
<1>5. \A g \in Handlers : IsRun(run'[g])
  BY <1>2, <1>3, <1>4
<1>6. TypeOK'
  <2>1. alarm' \in Due
    BY <1>2, ArmedForType DEF Finish, TypeOK
  <2> QED
    BY <1>2, <1>3, <1>5, <2>1 DEF TypeOK, IsRun, IsSchedule
<1>7. RunsHaveRows'
  <2>1. \A g \in Handlers : IF run'[g].pc = "idle" THEN run'[g] = Idle ELSE DOMAIN run'[g].todo # {}
    BY <1>2, <1>3 DEF RunsHaveRows
  <2>2. DOMAIN run'["manual"].todo \subseteq {Sync}
    BY <1>2, <1>3 DEF RunsHaveRows, Handlers
  <2> QED
    BY <2>1, <2>2 DEF RunsHaveRows
<1>8. RowsStayDue'
  <2> SUFFICES ASSUME NEW k \in DOMAIN run'["alarm"].todo \cap Deadline
               PROVE  k \in DOMAIN schedule' /\ schedule'[k].due <= now'
    BY DEF RowsStayDue
  <2>1. k \in DOMAIN run["alarm"].todo /\ k # j
    <3>1. CASE h = "alarm"
      BY <1>2, <1>3, <3>1
    <3>2. CASE h = "manual"
      BY <1>1, <1>3, <3>2, HubAssumption DEF Handlers
    <3> QED
      BY <3>1, <3>2 DEF Handlers
  <2> QED
    BY <1>2, <2>1 DEF RowsStayDue, j
<1>9. ReadsCoverWork'
  <2> SUFFICES ASSUME NEW g \in Handlers, run'[g].pc = "store",
                      NEW i \in (Waiting(JobOf(g)) \ (unwoken \cup missed))'
               PROVE  run'[g].next <= now' \/ run'[g].next <= items'[i].due
    BY DEF ReadsCoverWork
  <2>1. g # h /\ run'[g] = run[g]
    BY <1>2, <1>3
  <2>2. i \in Waiting(JobOf(g)) \ (unwoken \cup missed)
    BY <2>1 DEF Waiting, JobOf
  <2> QED
    BY <2>1, <2>2 DEF ReadsCoverWork
<1>10. ScheduleCoversWork'
  <2> SUFFICES ASSUME NEW k \in Deadline, NEW i \in (Waiting(k) \ (unwoken \cup missed))'
               PROVE  Covered(i)'
    BY DEF ScheduleCoversWork
  <2>1. i \in Waiting(k) \ (unwoken \cup missed)
    BY DEF Waiting
  <2>2. CASE k = j
    BY <2>1, <2>2 DEF j
  <2>3. CASE k # j
    <3>1. Covered(i) /\ items[i].job = k
      BY <2>1, WaitingHasDeadline DEF ScheduleCoversWork
    <3>2. k \in DOMAIN schedule /\ k \in DOMAIN s /\ s[k] = schedule[k]
      BY <2>3, <3>1 DEF Covered, j
    <3> QED
      BY <1>2, <3>1, <3>2 DEF Covered
  <2> QED
    BY <2>2, <2>3
<1>11. AlarmIsEarliest'
  <2> SUFFICES ASSUME \A g \in Handlers : run'[g].pc = "idle"
               PROVE  alarm' = ArmedFor(schedule')
    BY DEF AlarmIsEarliest, ArmedFor
  <2>1. run'[h] = Idle
    BY <1>2, <1>3
  <2> QED
    BY <1>2, <2>1 DEF Finish
<1> QED
  BY <1>6, <1>7, <1>8, <1>9, <1>10, <1>11

-----------------------------------------------------------------------------
(* The steps.                                                              *)

LEMMA InitIInv == Init => IInv
<1> SUFFICES ASSUME Init PROVE IInv
  OBVIOUS
<1>1. schedule = NoRows /\ DOMAIN schedule = {} /\ IsSchedule(schedule)
  BY DEF Init, NoRows, IsSchedule, IsRows
<1>2. \A h \in Handlers : run[h] = Idle
  BY DEF Init
<1>3. Idle.pc = "idle" /\ DOMAIN Idle.todo = {} /\ IsRun(Idle)
  BY DEF Idle, NoRows, IsRun, IsRows, Due
<1>4. now \in Time /\ alarm \in Due /\ alarm = Never
  BY HubAssumption DEF Init, Time, Due
<1>5. \A i \in Items : items[i] = Absent
  BY DEF Init
<1>6. TypeOK
  <2>1. items \in [Items -> [state: {"absent", "waiting", "gone"}, job: Deadline, due: Due]]
    BY HubAssumption DEF Init, Absent, Due
  <2> QED
    BY <1>1, <1>2, <1>3, <1>4, <2>1, HubAssumption DEF Init, TypeOK, IsRun, IsSchedule
<1>7. RunsHaveRows /\ RowsStayDue /\ ReadsCoverWork
  BY <1>2, <1>3 DEF RunsHaveRows, RowsStayDue, ReadsCoverWork, Handlers
<1>8. ScheduleCoversWork
  BY <1>5 DEF ScheduleCoversWork, Waiting, Absent
<1>9. AlarmIsEarliest
  BY <1>1, <1>4 DEF AlarmIsEarliest, ArmedFor, Earliest
<1> QED
  BY <1>6, <1>7, <1>8, <1>9 DEF IInv

\* What a transaction commits is in flight until its wake arrives.
LEMMA CommitKeeps ==
    ASSUME IInv, NEW i \in Items, NEW j \in Deadline, NEW due \in Time, Commit(i, j, due)
    PROVE  IInv'
<1> USE DEF IInv
<1>1. TypeOK'
  BY DEF Commit, TypeOK, Due
<1>2. IsSchedule(schedule') /\ NotLater(schedule', schedule) /\ now <= now'
  <2>1. schedule' = schedule
    BY DEF Commit
  <2>2. now <= now'
    BY HubAssumption DEF Commit, TypeOK, Time
  <2> QED
    BY <2>1, <2>2, SameSchedule
<1>3. \A k \in Items : k \notin unwoken' => items'[k] = items[k] /\ k \notin unwoken
  BY DEF Commit, TypeOK
<1>4. RunsHaveRows' /\ RowsStayDue' /\ ReadsCoverWork' /\ ScheduleCoversWork'
  BY <1>1, <1>2, <1>3, BetweenRuns DEF Commit
<1>5. AlarmIsEarliest'
  BY DEF Commit, AlarmIsEarliest, ArmedFor
<1> QED
  BY <1>1, <1>4, <1>5

LEMMA AnswerKeeps ==
    ASSUME IInv, NEW i \in Items, Answer(i)
    PROVE  IInv'
<1> USE DEF IInv
<1>1. TypeOK'
  BY HubAssumption DEF Answer, TypeOK, Gone, Absent, Due
<1>2. IsSchedule(schedule') /\ NotLater(schedule', schedule) /\ now <= now'
  <2>1. schedule' = schedule
    BY DEF Answer
  <2>2. now <= now'
    BY HubAssumption DEF Answer, TypeOK, Time
  <2> QED
    BY <2>1, <2>2, SameSchedule
<1>3. \A k \in Items : k \notin unwoken' \cup missed' => items'[k] = items[k] /\ k \notin unwoken \cup missed
  BY DEF Answer, TypeOK
<1>4. RunsHaveRows' /\ RowsStayDue' /\ ReadsCoverWork' /\ ScheduleCoversWork'
  BY <1>1, <1>2, <1>3, BetweenRuns DEF Answer
<1>5. AlarmIsEarliest'
  BY DEF Answer, AlarmIsEarliest, ArmedFor
<1> QED
  BY <1>1, <1>4, <1>5

\* A wake brings the row forward; what a run had read before is missed.
LEMMA WakeKeeps ==
    ASSUME IInv, NEW i \in Items, Wake(i)
    PROVE  IInv'
<1> USE DEF IInv
<1> DEFINE seeded == SeedIfEmpty(schedule)
<1>1. /\ IsSchedule(schedule) /\ now \in Time /\ known \subseteq Jobs /\ Deadline \subseteq known
  BY HubAssumption DEF TypeOK, IsSchedule
<1>2. IsSchedule(seeded) /\ NotLater(seeded, schedule)
  BY <1>1, SeedIfEmptyIs
<1> HIDE DEF seeded
<1>3. /\ IsSchedule(schedule') /\ NotLater(schedule', seeded)
      /\ \A j \in Deadline : j \in DOMAIN schedule' /\ schedule'[j].due <= now
  BY <1>1, <1>2, MarkDeadlinesDueIs DEF Wake, seeded
<1>4. NotLater(schedule', schedule)
  <2>1. \A s : IsSchedule(s) => \A j \in DOMAIN s : s[j].due \in Nat
    BY HubAssumption DEF IsSchedule, IsRows, ScheduleRow, Due, Time, Never
  <2> QED
    BY <1>1, <1>2, <1>3, <2>1 DEF NotLater
<1>5. TypeOK'
  <2>1. alarm' \in Due
    BY <1>3, ArmedForType DEF Wake
  <2> QED
    BY <1>3, <2>1 DEF Wake, TypeOK, IsSchedule
<1>6. now' = now /\ run' = run /\ items' = items /\ now <= now'
  BY HubAssumption DEF Wake, TypeOK, Time
<1>7. ASSUME NEW k \in Items, items'[k].state = "waiting", k \notin unwoken' \cup missed'
      PROVE  \/ items'[k] = items[k] /\ k \notin unwoken \cup missed
             \/ /\ Covered(k)'
                /\ \A h \in Handlers : run[h].pc = "store" /\ JobOf(h) = items'[k].job =>
                      run[h].next <= now' \/ run[h].next <= items'[k].due
  <2>1. CASE k # i
    BY <1>6, <1>7, <2>1 DEF Wake
  <2>2. CASE k = i
    <3>1. items[k].state = "waiting" /\ ~Unseen(k, items[k]) /\ items[k].job \in Deadline
      BY <1>6, <1>7, <2>2 DEF Wake, TypeOK
    <3>2. Covered(k)'
      BY <1>3, <1>6, <3>1 DEF Covered
    <3>3. ASSUME NEW h \in Handlers, run[h].pc = "store", JobOf(h) = items[k].job
          PROVE  run[h].next <= items[k].due
      <4>1. run[h].next \in Nat /\ items[k].due \in Nat
        BY HubAssumption DEF TypeOK, Due, Time, Never
      <4>2. ~(run[h].next > items[k].due)
        BY <3>1, <3>3 DEF Unseen, ReadFor
      <4> QED
        BY <4>1, <4>2
    <3> QED
      BY <1>6, <3>2, <3>3
  <2> QED
    BY <2>1, <2>2
<1>8. RunsHaveRows' /\ RowsStayDue' /\ ReadsCoverWork' /\ ScheduleCoversWork'
  BY <1>3, <1>4, <1>5, <1>6, <1>7, BetweenRuns
<1>9. AlarmIsEarliest'
  BY DEF Wake, AlarmIsEarliest, ArmedFor
<1> QED
  BY <1>5, <1>8, <1>9

LEMMA WakeLostKeeps ==
    ASSUME IInv, NEW i \in Items, WakeLost(i)
    PROVE  IInv'
<1> USE DEF IInv
<1>1. TypeOK'
  BY HubAssumption DEF WakeLost, TypeOK, Faulty
<1>2. IsSchedule(schedule') /\ NotLater(schedule', schedule) /\ now <= now'
  <2>1. schedule' = schedule
    BY DEF WakeLost
  <2>2. now <= now'
    BY HubAssumption DEF WakeLost, TypeOK, Time
  <2> QED
    BY <2>1, <2>2, SameSchedule
<1>3. \A k \in Items : items'[k].state = "waiting" /\ k \notin unwoken' \cup missed' =>
          items'[k] = items[k] /\ k \notin unwoken \cup missed
  BY DEF WakeLost
<1>4. RunsHaveRows' /\ RowsStayDue' /\ ReadsCoverWork' /\ ScheduleCoversWork'
  BY <1>1, <1>2, <1>3, BetweenRuns DEF WakeLost
<1>5. AlarmIsEarliest'
  BY DEF WakeLost, AlarmIsEarliest, TypeOK
<1> QED
  BY <1>1, <1>4, <1>5

LEMMA EnsureArmedKeeps ==
    ASSUME IInv, EnsureArmed
    PROVE  IInv'
<1> USE DEF IInv
<1>1. /\ IsSchedule(schedule) /\ now \in Time /\ known \subseteq Jobs
  BY HubAssumption DEF TypeOK, IsSchedule
<1>2. IsSchedule(schedule') /\ NotLater(schedule', schedule)
  BY <1>1, SeedIfEmptyIs DEF EnsureArmed
<1>3. now <= now'
  BY HubAssumption DEF EnsureArmed, TypeOK, Time
<1>4. TypeOK'
  <2>1. alarm' \in Due
    BY <1>2, ArmedForType DEF EnsureArmed
  <2> QED
    BY <1>2, <2>1 DEF EnsureArmed, TypeOK, IsSchedule
<1>5. RunsHaveRows' /\ RowsStayDue' /\ ReadsCoverWork' /\ ScheduleCoversWork'
  BY <1>2, <1>3, <1>4, BetweenRuns DEF EnsureArmed
<1>6. AlarmIsEarliest'
  BY DEF EnsureArmed, AlarmIsEarliest, ArmedFor
<1> QED
  BY <1>4, <1>5, <1>6

LEMMA TickKeeps ==
    ASSUME IInv, Tick
    PROVE  IInv'
<1> USE DEF IInv
<1>1. TypeOK'
  BY HubAssumption DEF Tick, TypeOK, Time
<1>2. IsSchedule(schedule') /\ NotLater(schedule', schedule) /\ now <= now'
  <2>1. schedule' = schedule
    BY DEF Tick
  <2>2. now <= now'
    BY HubAssumption DEF Tick, TypeOK, Time
  <2> QED
    BY <2>1, <2>2, SameSchedule
<1>3. RunsHaveRows' /\ RowsStayDue' /\ ReadsCoverWork' /\ ScheduleCoversWork'
  BY <1>1, <1>2, BetweenRuns DEF Tick
<1>4. AlarmIsEarliest'
  BY DEF Tick, AlarmIsEarliest, ArmedFor
<1> QED
  BY <1>1, <1>3, <1>4

\* The alarm's run takes the rows that are due.
LEMMA FireKeeps ==
    ASSUME IInv, Fire
    PROVE  IInv'
<1> USE DEF IInv
<1> DEFINE q == [pc |-> "work", todo |-> Snapshot(schedule), next |-> Never]
<1>1. /\ UNCHANGED <<now, known, schedule, items, unwoken, missed, failures, crashes>>
      /\ run["alarm"].pc = "idle" /\ DOMAIN run = Handlers
      /\ "alarm" \in Handlers /\ "manual" \in Handlers
  BY DEF Fire, TypeOK, Handlers
<1>2. IsSchedule(schedule)
  BY DEF TypeOK, IsSchedule
<1>3. CASE DueRows(schedule) = {}
  <2>1. run' = run /\ alarm' = ArmedFor(schedule)
    BY <1>3 DEF Fire
  <2>2. TypeOK'
    BY <1>1, <1>2, <2>1, ArmedForType DEF TypeOK
  <2>3. RunsHaveRows' /\ RowsStayDue' /\ ReadsCoverWork' /\ ScheduleCoversWork'
    <3>1. now <= now' /\ now' = now
      BY <1>1, HubAssumption DEF TypeOK, Time
    <3> QED
      BY <1>1, <2>1, <2>2, <3>1, SameSchedule, BetweenRuns
  <2>4. AlarmIsEarliest'
    BY <1>1, <2>1 DEF AlarmIsEarliest, ArmedFor
  <2> QED
    BY <2>2, <2>3, <2>4
<1>4. CASE DueRows(schedule) # {}
  <2>1. /\ alarm' = Never /\ run' = [run EXCEPT !["alarm"] = q]
    BY <1>4 DEF Fire
  <2>2. DOMAIN q.todo = DueRows(schedule) /\ q.pc = "work" /\ IsRun(q)
    BY <1>2 DEF Snapshot, DueRows, IsRun, IsRows, IsSchedule, ScheduleRow, Due
  <2> HIDE DEF q
  <2>3. DOMAIN run' = Handlers /\ run'["alarm"] = q /\ \A g \in Handlers \ {"alarm"} : run'[g] = run[g]
    BY <1>1, <2>1
  <2>4. TypeOK'
    <3>1. \A g \in Handlers : IsRun(run'[g])
      BY <2>2, <2>3 DEF TypeOK, IsRun
    <3> QED
      BY <1>1, <2>1, <2>3, <3>1 DEF TypeOK, IsRun, Due
  <2>5. RunsHaveRows'
    <3>1. \A g \in Handlers : IF run'[g].pc = "idle" THEN run'[g] = Idle ELSE DOMAIN run'[g].todo # {}
      BY <1>4, <2>2, <2>3 DEF RunsHaveRows
    <3>2. DOMAIN run'["manual"].todo \subseteq {Sync}
      BY <1>1, <2>3 DEF RunsHaveRows
    <3> QED
      BY <3>1, <3>2 DEF RunsHaveRows
  <2>6. RowsStayDue'
    BY <1>1, <2>2, <2>3 DEF RowsStayDue, DueRows
  <2>7. ReadsCoverWork'
    <3> SUFFICES ASSUME NEW g \in Handlers, run'[g].pc = "store",
                        NEW i \in (Waiting(JobOf(g)) \ (unwoken \cup missed))'
                 PROVE  run'[g].next <= now' \/ run'[g].next <= items'[i].due
      BY DEF ReadsCoverWork
    <3>1. run'[g] = run[g]
      BY <2>2, <2>3
    <3>2. i \in Waiting(JobOf(g)) \ (unwoken \cup missed)
      BY <1>1, <3>1 DEF Waiting, JobOf
    <3> QED
      BY <1>1, <3>1, <3>2 DEF ReadsCoverWork
  <2>8. ScheduleCoversWork'
    BY <1>1 DEF ScheduleCoversWork, Waiting, Covered
  <2>9. AlarmIsEarliest'
    BY <1>1, <2>2, <2>3 DEF AlarmIsEarliest
  <2> QED
    BY <2>4, <2>5, <2>6, <2>7, <2>8, <2>9
<1> QED
  BY <1>3, <1>4

\* A manual run has one row, which no deadline job has.
LEMMA RunJobKeeps ==
    ASSUME IInv, RunJob
    PROVE  IInv'
<1> USE DEF IInv
<1> DEFINE q == [pc |-> "work", todo |-> [j \in {Sync} |-> 0], next |-> Never]
<1>1. /\ UNCHANGED <<now, known, alarm, items, unwoken, missed, failures, crashes>>
      /\ run["manual"].pc = "idle" /\ DOMAIN run = Handlers
      /\ "alarm" \in Handlers /\ "manual" \in Handlers
      /\ schedule' = SeedIfEmpty(schedule) /\ run' = [run EXCEPT !["manual"] = q]
  BY DEF RunJob, TypeOK, Handlers
<1>2. DOMAIN q.todo = {Sync} /\ q.pc = "work" /\ IsRun(q)
  BY HubAssumption DEF IsRun, IsRows, Due
<1> HIDE DEF q
<1>3. DOMAIN run' = Handlers /\ run'["manual"] = q /\ \A g \in Handlers \ {"manual"} : run'[g] = run[g]
  BY <1>1
<1>4. IsSchedule(schedule') /\ NotLater(schedule', schedule)
  <2>1. IsSchedule(schedule) /\ now \in Time /\ known \subseteq Jobs
    BY HubAssumption DEF TypeOK, IsSchedule
  <2> QED
    BY <1>1, <2>1, SeedIfEmptyIs
<1>5. TypeOK'
  <2>1. \A g \in Handlers : IsRun(run'[g])
    BY <1>2, <1>3 DEF TypeOK, IsRun
  <2> QED
    BY <1>1, <1>3, <1>4, <2>1 DEF TypeOK, IsRun, IsSchedule
<1>6. RunsHaveRows'
  <2>1. \A g \in Handlers : IF run'[g].pc = "idle" THEN run'[g] = Idle ELSE DOMAIN run'[g].todo # {}
    BY <1>2, <1>3 DEF RunsHaveRows
  <2> QED
    BY <1>2, <1>3, <2>1 DEF RunsHaveRows
<1>7. /\ \A i \in Items : items'[i] = items[i] /\ Covered(i) => Covered(i)'
      /\ \A j \in Jobs : j \in DOMAIN schedule /\ schedule[j].due <= now
                           => j \in DOMAIN schedule' /\ schedule'[j].due <= now'
  <2>1. now' \in Time /\ now <= now'
    BY <1>1, HubAssumption DEF TypeOK, Time
  <2> QED
    BY <1>4, <2>1, ForwardKeeps
<1>8. RowsStayDue'
  <2>1. run'["alarm"] = run["alarm"]
    BY <1>1, <1>3
  <2> QED
    BY <1>7, <2>1, HubAssumption DEF RowsStayDue
<1>9. ReadsCoverWork'
  <2> SUFFICES ASSUME NEW g \in Handlers, run'[g].pc = "store",
                      NEW i \in (Waiting(JobOf(g)) \ (unwoken \cup missed))'
               PROVE  run'[g].next <= now' \/ run'[g].next <= items'[i].due
    BY DEF ReadsCoverWork
  <2>1. run'[g] = run[g]
    BY <1>2, <1>3
  <2>2. i \in Waiting(JobOf(g)) \ (unwoken \cup missed)
    BY <1>1, <2>1 DEF Waiting, JobOf
  <2> QED
    BY <1>1, <2>1, <2>2 DEF ReadsCoverWork
<1>10. ScheduleCoversWork'
  <2> SUFFICES ASSUME NEW k \in Deadline, NEW i \in (Waiting(k) \ (unwoken \cup missed))'
               PROVE  Covered(i)'
    BY DEF ScheduleCoversWork
  <2>1. i \in Waiting(k) \ (unwoken \cup missed)
    BY <1>1 DEF Waiting
  <2> QED
    BY <1>1, <1>7, <2>1, WaitingHasDeadline DEF ScheduleCoversWork
<1>11. AlarmIsEarliest'
  BY <1>1, <1>2, <1>3 DEF AlarmIsEarliest
<1> QED
  BY <1>5, <1>6, <1>8, <1>9, <1>10, <1>11

\* The forgotten row is no deadline job's: every release knows those.
LEMMA ForgetKeeps ==
    ASSUME IInv, Forget
    PROVE  IInv'
<1> USE DEF IInv
<1> DEFINE j == JobOf("alarm")
           s == Restrict(schedule, DOMAIN schedule \ {j})
<1>1. /\ Finish("alarm", s) /\ j \notin Deadline /\ run["alarm"].pc # "idle" /\ "alarm" \in Handlers
      /\ UNCHANGED <<now, known, items, unwoken, missed, failures, crashes>>
  BY HubAssumption DEF Forget, TypeOK, Handlers
<1>2. /\ IsSchedule(s)
      /\ \A k \in DOMAIN schedule \ {j} : k \in DOMAIN s /\ s[k] = schedule[k]
  BY DEF TypeOK, IsSchedule, IsRows, Restrict
<1>3. Waiting(j) = {}
  BY <1>1, WaitingHasDeadline
<1>4. failures' \in Nat /\ failures' + crashes <= MaxFaults
  BY <1>1 DEF TypeOK
<1> HIDE DEF s
<1> QED
  BY <1>1, <1>2, <1>3, <1>4, FinishKeeps

\* What a run stores covers its job's work, or is due at once.
LEMMA StoreKeeps ==
    ASSUME IInv, NEW h \in Handlers, Store(h)
    PROVE  IInv'
<1> USE DEF IInv
<1> DEFINE j == JobOf(h)
           s == SetDue(schedule, j, run[h].next, 0)
<1>1. /\ Finish(h, s) /\ run[h].pc = "store"
      /\ UNCHANGED <<now, known, items, unwoken, missed, failures, crashes>>
  BY DEF Store
<1>2. j \in Jobs /\ run[h].next \in Due /\ IsSchedule(schedule)
  BY <1>1, JobIsRow DEF TypeOK, IsSchedule
<1> HIDE DEF j
<1>3. RowSet(s, schedule, j, [due |-> run[h].next, failures |-> 0])
  BY <1>2, SetDueIs
<1>4. failures' \in Nat /\ failures' + crashes <= MaxFaults
  BY <1>1 DEF TypeOK
<1>5. schedule' = s
  BY <1>1 DEF Finish
<1> HIDE DEF s
<1> USE DEF j
<1>6. ASSUME NEW i \in Waiting(j) \ (unwoken \cup missed) PROVE Covered(i)'
  <2>1. items'[i].job = j /\ items'[i].due = items[i].due /\ now' = now
    BY <1>1, WaitingHasDeadline
  <2>2. run[h].next <= now \/ run[h].next <= items[i].due
    BY <1>1, <1>6 DEF ReadsCoverWork
  <2> QED
    BY <1>3, <1>5, <2>1, <2>2 DEF Covered, RowSet
<1>7. /\ IsSchedule(s)
      /\ \A k \in DOMAIN schedule \ {j} : k \in DOMAIN s /\ s[k] = schedule[k]
  BY <1>3 DEF RowSet
<1> QED
  BY <1>1, <1>4, <1>6, <1>7, FinishKeeps

\* A job that failed backs off, and its row says so.
LEMMA FailKeeps ==
    ASSUME IInv, NEW h \in Handlers, Fail(h)
    PROVE  IInv'
<1> USE DEF IInv
<1> DEFINE j == JobOf(h)
           n == run[h].todo[j]
           s == IF h = "alarm" THEN SetDue(schedule, j, Later(RetryDelay(n)), n + 1) ELSE schedule
<1>1. /\ Finish(h, s) /\ run[h].pc # "idle" /\ Faulty /\ failures' = failures + 1
      /\ UNCHANGED <<now, known, items, unwoken, missed, crashes>>
  BY DEF Fail
<1>2. j \in Jobs /\ j \in DOMAIN run[h].todo /\ (h = "manual" => j = Sync) /\ IsSchedule(schedule)
  BY <1>1, JobIsRow DEF TypeOK, IsSchedule
<1>3. n \in Nat /\ n + 1 \in Nat
  BY <1>2 DEF TypeOK, IsRows
<1>4. Later(RetryDelay(n)) \in Due
  <2>1. {n + 1, Len(Delays)} \in SUBSET Nat /\ Len(Delays) \in Nat /\ Len(Delays) >= 1
    BY <1>3, HubAssumption
  <2>2. Min({n + 1, Len(Delays)}) \in 1..Len(Delays)
    <3> DEFINE both == {n + 1, Len(Delays)}
    <3>1. both # {} /\ \A x \in both : x >= 1
      BY <1>3, <2>1
    <3>2. Len(Delays) \in both /\ both \in SUBSET Nat
      BY <2>1
    <3> HIDE DEF both
    <3>3. Min(both) \in both /\ Min(both) <= Len(Delays)
      BY <3>1, <3>2, SmallestIsLeast
    <3>4. Min(both) \in Nat /\ Min(both) >= 1
      BY <3>1, <3>2, <3>3
    <3>5. Min(both) \in 1..Len(Delays)
      BY <2>1, <3>3, <3>4
    <3> QED
      BY <3>5 DEF both
  <2>3. RetryDelay(n) \in Nat
    BY <2>2, HubAssumption DEF RetryDelay
  <2> QED
    BY <2>3, HubAssumption DEF Later, TypeOK, Due, Time, Never
<1> DEFINE due == Later(RetryDelay(n))
<1> HIDE DEF n, due, j
<1>5. /\ IsSchedule(s)
      /\ \A k \in DOMAIN schedule \ {j} : k \in DOMAIN s /\ s[k] = schedule[k]
      /\ h = "alarm" => j \in DOMAIN s /\ s[j].failures = n + 1
  <2> DEFINE d == SetDue(schedule, j, due, n + 1)
  <2>1. due \in Due /\ d = SetDue(schedule, j, due, n + 1)
    BY <1>4 DEF due
  <2>1a. s = IF h = "alarm" THEN d ELSE schedule
    BY DEF due
  <2> HIDE DEF d, s
  <2>2. RowSet(d, schedule, j, [due |-> due, failures |-> n + 1])
    BY <1>2, <1>3, <2>1, SetDueIs
  <2> QED
    BY <1>2, <2>1a, <2>2 DEF RowSet
<1> USE DEF j
<1>6. failures' \in Nat /\ failures' + crashes <= MaxFaults
  <2>1. crashes \in Nat /\ failures \in Nat /\ MaxFaults \in Nat
    BY HubAssumption DEF TypeOK
  <2> QED
    BY <1>1, <2>1 DEF Faulty
<1>7. schedule' = s
  BY <1>1 DEF Finish
<1> HIDE DEF s
<1>8. ASSUME NEW i \in Waiting(j) \ (unwoken \cup missed) PROVE Covered(i)'
  <2>1. h = "alarm"
    BY <1>2, WaitingHasDeadline, HubAssumption DEF Handlers
  <2>2. items'[i].job = j
    BY <1>1, WaitingHasDeadline
  <2> QED
    BY <1>3, <1>5, <1>7, <2>1, <2>2 DEF Covered
<1> QED
  BY <1>1, <1>5, <1>6, <1>8, FinishKeeps

\* A run that handles a deadline job is the alarm's, and the job's row is due.
LEMMA AlarmRunsDeadlines ==
    ASSUME IInv, NEW h \in Handlers, run[h].pc # "idle", JobOf(h) \in Deadline
    PROVE  /\ h = "alarm"
           /\ JobOf(h) \in DOMAIN schedule /\ schedule[JobOf(h)].due <= now
<1>1. h = "alarm"
  BY JobIsRow, HubAssumption DEF IInv, Handlers
<1>2. JobOf(h) \in DOMAIN run["alarm"].todo \cap Deadline
  BY <1>1, JobIsRow DEF IInv
<1> QED
  BY <1>1, <1>2 DEF IInv, RowsStayDue

LEMMA RunExcept ==
    ASSUME NEW q, IsRun(q), NEW p, NEW n
    PROVE  [q EXCEPT !.pc = p, !.next = n] = [pc |-> p, todo |-> q.todo, next |-> n]
<1> DEFINE r == [q EXCEPT !.pc = p]
<1>1. q \in [pc: {q.pc}, todo: {q.todo}, next: {q.next}]
  BY DEF IsRun
<1>2. r \in [pc: {p}, todo: {q.todo}, next: {q.next}]
  BY <1>1
<1> HIDE DEF r
<1>3. [r EXCEPT !.next = n] \in [pc: {p}, todo: {q.todo}, next: {n}]
  BY <1>2
<1>4. \A e \in [pc: {p}, todo: {q.todo}, next: {n}] : e = [pc |-> p, todo |-> q.todo, next |-> n]
  OBVIOUS
<1> QED
  BY <1>3, <1>4 DEF r

\* What the query answers covers the job's work as it is then.
LEMMA ReadNextKeeps ==
    ASSUME IInv, NEW h \in Handlers, ReadNext(h)
    PROVE  IInv'
<1> DEFINE j == JobOf(h)
           q == [run[h] EXCEPT !.pc = "store", !.next = NextDue(j)]
<1>1. /\ run[h].pc = "read" /\ run' = [run EXCEPT ![h] = q]
      /\ missed' = missed \ Waiting(j)
      /\ UNCHANGED <<now, known, schedule, alarm, items, unwoken, failures, crashes>>
  BY DEF ReadNext
<1>2. TypeOK /\ RunsHaveRows /\ RowsStayDue /\ ReadsCoverWork /\ ScheduleCoversWork
  BY DEF IInv
<1>3. NextDue(j) \in Due /\ \A i \in Waiting(j) : NextDue(j) <= items[i].due
  <2> DEFINE dues == {items[i].due : i \in Waiting(j)}
  <2>1. dues \in SUBSET Due
    BY <1>2, WaitingHasDeadline
  <2>2. Waiting(j) # {} => j \in Deadline
    BY <1>2, WaitingHasDeadline
  <2>3. Later(Period) \in Due
    BY <1>2, HubAssumption DEF Later, TypeOK, Due, Time, Never
  <2>4. Earliest(dues) \in Due /\ \A d \in dues : Earliest(dues) <= d
    <3> HIDE DEF dues
    <3> QED
      BY <2>1, EarliestBounds
  <2>5. CASE j \in Deadline
    BY <2>4, <2>5 DEF NextDue
  <2>6. CASE j \notin Deadline
    BY <2>2, <2>3, <2>6 DEF NextDue
  <2> QED
    BY <2>5, <2>6
<1>4. IsRun(run[h]) /\ DOMAIN run = Handlers /\ DOMAIN run[h].todo # {}
  BY <1>1, <1>2, JobIsRow DEF TypeOK, IsRun
<1>5. IsRun(q) /\ q.pc = "store" /\ q.todo = run[h].todo /\ q.next = NextDue(j)
  <2>1. q = [pc |-> "store", todo |-> run[h].todo, next |-> NextDue(j)]
    BY <1>4, RunExcept
  <2> QED
    BY <1>3, <1>4, <2>1 DEF IsRun
<1> HIDE DEF q
<1>6. DOMAIN run' = Handlers /\ run'[h] = q /\ \A g \in Handlers \ {h} : run'[g] = run[g]
  BY <1>1, <1>4
<1>7. \A g \in Handlers : JobOf(g)' = JobOf(g)
  BY <1>5, <1>6 DEF JobOf
<1>8. TypeOK'
  <2>1. \A g \in Handlers : IsRun(run'[g])
    BY <1>2, <1>5, <1>6 DEF TypeOK, IsRun
  <2> QED
    BY <1>1, <1>2, <1>6, <2>1 DEF TypeOK, IsRun
<1>9. RunsHaveRows'
  <2>1. \A g \in Handlers : IF run'[g].pc = "idle" THEN run'[g] = Idle ELSE DOMAIN run'[g].todo # {}
    BY <1>2, <1>4, <1>5, <1>6 DEF RunsHaveRows
  <2>2. DOMAIN run'["manual"].todo \subseteq {Sync}
    BY <1>2, <1>5, <1>6 DEF RunsHaveRows, Handlers
  <2> QED
    BY <2>1, <2>2 DEF RunsHaveRows
<1>10. RowsStayDue'
  <2>1. run'["alarm"].todo = run["alarm"].todo
    BY <1>5, <1>6 DEF Handlers
  <2> QED
    BY <1>1, <1>2, <2>1 DEF RowsStayDue
<1>11. ReadsCoverWork'
  <2> SUFFICES ASSUME NEW g \in Handlers, run'[g].pc = "store",
                      NEW i \in (Waiting(JobOf(g)) \ (unwoken \cup missed))'
               PROVE  run'[g].next <= now' \/ run'[g].next <= items'[i].due
    BY DEF ReadsCoverWork
  <2>1. i \in Waiting(JobOf(g)) /\ i \notin unwoken /\ i \notin missed'
    BY <1>1, <1>7 DEF Waiting
  <2>2. CASE g = h
    BY <1>1, <1>3, <1>5, <1>6, <2>1, <2>2
  <2>3. CASE g # h
    <3>1. run[g].pc = "store" /\ run'[g] = run[g]
      BY <1>6, <2>3
    <3>2. g = "alarm"
      BY <1>2, <2>1, <3>1, WaitingHasDeadline, AlarmRunsDeadlines
    <3>3. JobOf(g) # j
      <4>1. JobOf(g) \in Deadline
        BY <1>2, <2>1, WaitingHasDeadline
      <4> QED
        BY <1>1, <2>3, <3>2, <4>1, AlarmRunsDeadlines
    <3>4. i \notin missed
      BY <1>1, <2>1, <3>3 DEF Waiting
    <3> QED
      BY <1>1, <1>2, <2>1, <3>1, <3>4 DEF ReadsCoverWork
  <2> QED
    BY <2>2, <2>3
<1>12. ScheduleCoversWork'
  <2> SUFFICES ASSUME NEW k \in Deadline, NEW i \in (Waiting(k) \ (unwoken \cup missed))'
               PROVE  Covered(i)'
    BY DEF ScheduleCoversWork
  <2>1. i \in Waiting(k) /\ i \notin unwoken /\ i \notin missed'
    BY <1>1 DEF Waiting
  <2>2. Covered(i)
    <3>1. CASE i \in missed
      <4>1. i \in Waiting(j) /\ items[i].job = j /\ j \in Deadline
        BY <1>1, <1>2, <2>1, <3>1, WaitingHasDeadline
      <4> QED
        BY <1>1, <4>1, AlarmRunsDeadlines DEF Covered
    <3>2. CASE i \notin missed
      BY <1>2, <2>1, <3>2 DEF ScheduleCoversWork
    <3> QED
      BY <3>1, <3>2
  <2> QED
    BY <1>1, <2>2 DEF Covered
<1>13. AlarmIsEarliest'
  BY <1>5, <1>6 DEF AlarmIsEarliest
<1> QED
  BY <1>8, <1>9, <1>10, <1>11, <1>12, <1>13 DEF IInv

LEMMA RestartKeeps ==
    ASSUME IInv, NEW K \in Releases, Restart(K)
    PROVE  IInv'
<1> USE DEF IInv
<1>1. /\ \A h \in Handlers : run'[h] = Idle
      /\ DOMAIN run' = Handlers
  BY DEF Restart
<1>2. Idle.pc = "idle" /\ DOMAIN Idle.todo = {} /\ IsRun(Idle)
  BY DEF Idle, NoRows, IsRun, IsRows, Due
<1>3. TypeOK'
  <2>1. alarm' \in Due
    BY DEF Restart, TypeOK, Due
  <2>2. crashes' \in Nat /\ failures' \in Nat /\ failures' + crashes' <= MaxFaults
    <3>1. crashes \in Nat /\ failures \in Nat /\ MaxFaults \in Nat
      BY HubAssumption DEF TypeOK
    <3> QED
      BY <3>1 DEF Restart, Faulty
  <2>3. \A h \in Handlers : IsRun(run'[h])
    BY <1>1, <1>2
  <2> QED
    BY <1>1, <2>1, <2>2, <2>3 DEF Restart, TypeOK, IsRun
<1>4. RunsHaveRows' /\ RowsStayDue' /\ ReadsCoverWork'
  BY <1>1, <1>2 DEF RunsHaveRows, RowsStayDue, ReadsCoverWork, Handlers
<1>5. ScheduleCoversWork'
  BY DEF Restart, ScheduleCoversWork, Waiting, Covered
<1>6. AlarmIsEarliest'
  BY DEF Restart, AlarmIsEarliest, TypeOK
<1> QED
  BY <1>3, <1>4, <1>5, <1>6

\* The work of a job commits: what it leaves is on the schedule, or missed.
LEMMA WorkKeeps ==
    ASSUME IInv, NEW h \in Handlers, NEW new \in Outcomes(JobOf(h)), Work(h, new)
    PROVE  IInv'
<1> DEFINE j == JobOf(h)
           full == j = Dispatch /\ Cardinality(Handled(new)) >= Batch
           q == [run[h] EXCEPT !.pc = IF full THEN "store" ELSE "read",
                               !.next = IF full THEN now ELSE Never]
           marks == j # Dispatch /\ Handled(new) # {}
<1>1. /\ run[h].pc = "work" /\ j \in known /\ items' = new
      /\ run' = [run EXCEPT ![h] = q]
      /\ UNCHANGED <<now, known, alarm, unwoken, failures, crashes>>
  BY DEF Work
<1>2. IF marks
      THEN /\ schedule' = MarkDeadlinesDue(schedule)
           /\ missed' = (missed \ Handled(new)) \cup {i \in Handled(new) : Unseen(i, new[i])}
      ELSE schedule' = schedule /\ missed' = missed \ Handled(new)
  BY DEF Work
<1>3. TypeOK /\ RunsHaveRows /\ RowsStayDue /\ ReadsCoverWork /\ ScheduleCoversWork
  BY DEF IInv
<1>4. /\ IsRun(run[h]) /\ DOMAIN run = Handlers /\ DOMAIN run[h].todo # {}
      /\ now \in Nat /\ now \in Due /\ Never \in Due /\ now \in Time
      /\ known \subseteq Jobs /\ Deadline \subseteq known /\ IsSchedule(schedule)
      /\ \A x \in Due : x \in Nat
  <2>1. IsRun(run[h]) /\ DOMAIN run = Handlers /\ DOMAIN run[h].todo # {}
    BY <1>1, <1>3, JobIsRow DEF TypeOK, IsRun
  <2>2. known \subseteq Jobs /\ Deadline \subseteq known /\ IsSchedule(schedule)
    BY <1>3, HubAssumption DEF TypeOK, IsSchedule
  <2>3. now \in Time /\ now \in Nat /\ now \in Due /\ Never \in Due /\ \A x \in Due : x \in Nat
    BY <1>3, HubAssumption DEF TypeOK, Due, Time, Never
  <2> QED
    BY <2>1, <2>2, <2>3
<1>5. IsRun(q) /\ q.pc # "idle" /\ q.todo = run[h].todo /\ (q.pc = "store" => j = Dispatch /\ q.next = now)
  <2>1. q = [pc |-> IF full THEN "store" ELSE "read", todo |-> run[h].todo,
             next |-> IF full THEN now ELSE Never]
    <3> HIDE DEF full
    <3> QED
      BY <1>4, RunExcept
  <2> HIDE DEF q
  <2>2. CASE full
    BY <1>4, <2>1, <2>2 DEF IsRun
  <2>3. CASE ~full
    BY <1>4, <2>1, <2>3 DEF IsRun
  <2> QED
    BY <2>2, <2>3
<1> HIDE DEF q
<1>6. DOMAIN run' = Handlers /\ run'[h] = q /\ \A g \in Handlers \ {h} : run'[g] = run[g]
  BY <1>1, <1>4
<1>7. \A g \in Handlers : JobOf(g)' = JobOf(g)
  BY <1>5, <1>6 DEF JobOf
<1>8. /\ IsSchedule(schedule') /\ NotLater(schedule', schedule)
      /\ marks => \A k \in Deadline : k \in DOMAIN schedule' /\ schedule'[k].due <= now
  BY <1>2, <1>3, <1>4, SameSchedule, MarkDeadlinesDueIs
<1>9. /\ \A i \in Items : items'[i] = items[i] /\ Covered(i) => Covered(i)'
      /\ \A k \in Jobs : k \in DOMAIN schedule /\ schedule[k].due <= now
                           => k \in DOMAIN schedule' /\ schedule'[k].due <= now'
  BY <1>1, <1>3, <1>4, <1>8, ForwardKeeps
<1>10. new \in [Items -> [state: {"absent", "waiting", "gone"}, job: Deadline, due: Due]]
  <2>1. \A i \in Items : new[i] \in {items[k] : k \in Items} \cup {Gone}
                                     \cup [state: {"waiting"}, job: {Dispatch}, due: Due]
    BY DEF Outcomes
  <2>2. Gone \in [state: {"absent", "waiting", "gone"}, job: Deadline, due: Due]
    BY <1>4, HubAssumption DEF Gone, Absent
  <2>3. new = [i \in Items |-> new[i]]
    BY DEF Outcomes
  <2>4. \A i \in Items : new[i] \in [state: {"absent", "waiting", "gone"}, job: Deadline, due: Due]
    <3> SUFFICES ASSUME NEW i \in Items
                 PROVE  new[i] \in [state: {"absent", "waiting", "gone"}, job: Deadline, due: Due]
      OBVIOUS
    <3>1. CASE new[i] \in {items[k] : k \in Items}
      BY <1>3, <3>1 DEF TypeOK
    <3>2. CASE new[i] = Gone
      BY <2>2, <3>2
    <3>3. CASE new[i] \in [state: {"waiting"}, job: {Dispatch}, due: Due]
      BY <3>3, HubAssumption
    <3> QED
      BY <2>1, <3>1, <3>2, <3>3
  <2> QED
    BY <2>3, <2>4
<1>11. TypeOK'
  <2>1. \A g \in Handlers : IsRun(run'[g])
    BY <1>3, <1>5, <1>6 DEF TypeOK, IsRun
  <2>2. missed' \subseteq Items
    BY <1>2, <1>3 DEF TypeOK, Handled
  <2> QED
    BY <1>1, <1>3, <1>6, <1>8, <1>10, <2>1, <2>2 DEF TypeOK, IsRun, IsSchedule
<1>12. RunsHaveRows'
  <2>1. \A g \in Handlers : IF run'[g].pc = "idle" THEN run'[g] = Idle ELSE DOMAIN run'[g].todo # {}
    BY <1>3, <1>4, <1>5, <1>6 DEF RunsHaveRows
  <2>2. DOMAIN run'["manual"].todo \subseteq {Sync}
    BY <1>3, <1>5, <1>6 DEF RunsHaveRows, Handlers
  <2> QED
    BY <2>1, <2>2 DEF RunsHaveRows
<1>13. RowsStayDue'
  <2>1. run'["alarm"].todo = run["alarm"].todo
    BY <1>5, <1>6 DEF Handlers
  <2> QED
    BY <1>3, <1>9, <2>1, HubAssumption DEF RowsStayDue
\* What a run of j leaves of an item, and why it is covered.
<1>14. ASSUME NEW i \in Items, new[i].state = "waiting", new[i] # items[i], i \notin missed'
       PROVE  /\ Covered(i)'
              /\ \A g \in Handlers \ {h} : run[g].pc = "store" /\ JobOf(g) = new[i].job =>
                    run[g].next <= new[i].due
  <2>1. i \in Handled(new) /\ Worked(j, new)
    BY <1>14 DEF Handled, Outcomes
  <2>2. CASE j # Dispatch
    <3>1. marks /\ ~Unseen(i, new[i])
      BY <1>2, <1>14, <2>1, <2>2
    <3>2. Covered(i)'
      BY <1>1, <1>8, <1>10, <3>1 DEF Covered
    <3>3. ASSUME NEW g \in Handlers \ {h}, run[g].pc = "store", JobOf(g) = new[i].job
          PROVE  run[g].next <= new[i].due
      <4>1. run[g].next \in Nat /\ new[i].due \in Nat
        BY <1>3, <1>4, <1>10 DEF TypeOK
      <4>2. ~(run[g].next > new[i].due)
        BY <3>1, <3>3 DEF Unseen, ReadFor
      <4> QED
        BY <4>1, <4>2
    <3> QED
      BY <3>2, <3>3
  <2>3. CASE j = Dispatch
    <3>1. h = "alarm" /\ Dispatch \in DOMAIN schedule /\ schedule[Dispatch].due <= now
      BY <1>1, <2>3, AlarmRunsDeadlines, HubAssumption
    <3>2. i \in DueItems(j)
      BY <1>14, <2>1, <2>3, HubAssumption DEF Worked
    <3>3. new[i].job = Dispatch
      <4>1. items[i].job = Dispatch /\ Gone.state # "waiting"
        BY <2>3, <3>2 DEF DueItems, Waiting, Gone, Absent
      <4>2. items[i] \in [state: {"absent", "waiting", "gone"}, job: Deadline, due: Due]
        BY <1>3 DEF TypeOK
      <4>3. \A d : [items[i] EXCEPT !.due = d].job = items[i].job
        BY <4>2
      <4>4. new[i] \in {items[i], Gone} \cup {[items[i] EXCEPT !.due = Later(Delays[k])] : k \in DOMAIN Delays}
        BY <2>1, <2>3, <3>2 DEF Worked
      <4> QED
        BY <1>14, <4>1, <4>3, <4>4
    <3>4. Covered(i)'
      BY <1>1, <1>9, <3>1, <3>3, HubAssumption DEF Covered
    <3>5. \A g \in Handlers \ {h} : run[g].pc = "store" => JobOf(g) # new[i].job
      BY <1>3, <3>1, <3>3, JobIsRow, HubAssumption DEF Handlers
    <3> QED
      BY <3>4, <3>5
  <2> QED
    BY <2>2, <2>3
<1>15. \A i \in Items : new[i] = items[i] => (i \in missed' <=> i \in missed)
  BY <1>2 DEF Handled
<1>16. ReadsCoverWork'
  <2> SUFFICES ASSUME NEW g \in Handlers, run'[g].pc = "store",
                      NEW i \in (Waiting(JobOf(g)) \ (unwoken \cup missed))'
               PROVE  run'[g].next <= now' \/ run'[g].next <= items'[i].due
    BY DEF ReadsCoverWork
  <2>1. /\ i \in Items /\ new[i].state = "waiting" /\ new[i].job = JobOf(g)
        /\ i \notin unwoken /\ i \notin missed'
    BY <1>1, <1>7 DEF Waiting
  <2>2. CASE g = h
    BY <1>1, <1>4, <1>5, <1>6, <2>2
  <2>3. CASE g # h
    <3>1. run[g].pc = "store" /\ run'[g] = run[g]
      BY <1>6, <2>3
    <3>2. CASE new[i] = items[i]
      <4>1. i \in Waiting(JobOf(g)) \ (unwoken \cup missed)
        BY <1>15, <2>1, <3>2 DEF Waiting
      <4> QED
        BY <1>1, <1>3, <3>1, <3>2, <4>1 DEF ReadsCoverWork
    <3>3. CASE new[i] # items[i]
      BY <1>1, <1>14, <2>1, <2>3, <3>1, <3>3
    <3> QED
      BY <3>2, <3>3
  <2> QED
    BY <2>2, <2>3
<1>17. ScheduleCoversWork'
  <2> SUFFICES ASSUME NEW k \in Deadline, NEW i \in (Waiting(k) \ (unwoken \cup missed))'
               PROVE  Covered(i)'
    BY DEF ScheduleCoversWork
  <2>1. /\ i \in Items /\ new[i].state = "waiting" /\ new[i].job = k
        /\ i \notin unwoken /\ i \notin missed'
    BY <1>1 DEF Waiting
  <2>2. CASE new[i] = items[i]
    <3>1. i \in Waiting(k) \ (unwoken \cup missed)
      BY <1>15, <2>1, <2>2 DEF Waiting
    <3> QED
      BY <1>1, <1>3, <1>9, <2>1, <2>2, <3>1 DEF ScheduleCoversWork
  <2>3. CASE new[i] # items[i]
    BY <1>14, <2>1, <2>3
  <2> QED
    BY <2>2, <2>3
<1>18. AlarmIsEarliest'
  BY <1>5, <1>6 DEF AlarmIsEarliest
<1> QED
  BY <1>11, <1>12, <1>13, <1>16, <1>17, <1>18 DEF IInv

LEMMA NextIInv == IInv /\ [Next]_vars => IInv'
<1> SUFFICES ASSUME IInv, [Next]_vars PROVE IInv'
  OBVIOUS
<1>1. CASE \E i \in Items, j \in Deadline, due \in Time : Commit(i, j, due)
  BY <1>1, CommitKeeps
<1>2. CASE \E i \in Items : Answer(i) \/ Wake(i) \/ WakeLost(i)
  BY <1>2, AnswerKeeps, WakeKeeps, WakeLostKeeps
<1>3. CASE Fire \/ RunJob \/ Forget
  BY <1>3, FireKeeps, RunJobKeeps, ForgetKeeps
<1>4. CASE \E h \in Handlers : Handle(h)
  BY <1>4, WorkKeeps, ReadNextKeeps, StoreKeeps, FailKeeps DEF Handle
<1>5. CASE EnsureArmed
  BY <1>5, EnsureArmedKeeps
<1>6. CASE \E K \in Releases : Restart(K)
  BY <1>6, RestartKeeps
<1>7. CASE Tick
  BY <1>7, TickKeeps
<1>8. CASE UNCHANGED vars
  BY <1>8 DEF vars, IInv, TypeOK, RunsHaveRows, RowsStayDue, ReadsCoverWork, Waiting, JobOf,
              ScheduleCoversWork, Covered, AlarmIsEarliest, ArmedFor
<1> QED
  BY <1>1, <1>2, <1>3, <1>4, <1>5, <1>6, <1>7, <1>8 DEF Next

(* Every reachable state of the hub satisfies the inductive invariant: a   *)
(* run's rows stay due until it has handled them, and what it has read of  *)
(* Postgres covers the work it does not miss (hub.ts, alarm and runJob).   *)
THEOREM HubInvariance == Spec => []IInv
<1> QED
  BY InitIInv, NextIInv, PTL DEF Spec

(* However wakes, runs, retries, restarts and deployments interleave, work *)
(* that was reported outside the window of its job is on the schedule when *)
(* it is due, or its job backs off (hub.ts, wake and setDue).              *)
THEOREM WorkIsCovered == Spec => []ScheduleCoversWork
<1> QED
  BY HubInvariance, PTL DEF IInv

(* Before any crash, a hub with no run under way has its alarm on the      *)
(* earliest row of the schedule (hub.ts, arm).                             *)
THEOREM AlarmArmed == Spec => []AlarmIsEarliest
<1> QED
  BY HubInvariance, PTL DEF IInv

=============================================================================
