-------------------------------- MODULE Nudge -------------------------------
(***************************************************************************)
(* Offers that go stale silently, and do not: the nightly job that expires *)
(* the dated ones, the daily one that asks their producers about the rest, *)
(* and the answers that start the cycle again (domain/offers/service.ts,   *)
(* jobs/offers.ts).                                                        *)
(*                                                                         *)
(* The jobs run on the farm's clock, up to Late hours after they are due   *)
(* (a busy hub, a retry).  A job and an answer take the lock of the offer  *)
(* one after the other; but whether something is left of it comes from the *)
(* snapshot of the job's statement, which may be older than the lock.      *)
(***************************************************************************)
EXTENDS Calendar

CONSTANTS
    Offers,      \* offers
    None,
    NudgeAfter,  \* hours: offer_nudge_days
    StaleAfter,  \* hours: offer_stale_days_after_nudge
    AgainAfter,  \* hours: a week
    Late,        \* hours a job may run late
    Dates,       \* days an offer may be available until
    Horizon,     \* bound: hours of the run
    Awake,       \* bound: hours of the day at which members act
    MaxActs      \* bound: what members do

ASSUME NudgeAssumption ==
    /\ None \notin Int
    /\ Dates \subseteq Nat
    /\ {NudgeAfter, StaleAfter, AgainAfter, Late, Horizon, MaxActs} \subseteq Nat
    /\ NudgeAfter > 0 /\ StaleAfter > 0 /\ AgainAfter > 0

VARIABLES
    now,       \* the hour
    due,       \* when each job is due
    offers,    \* the offers table
    snapshot,  \* of the job's statement: of which offers something is left
    asked,     \* the N10s sent: <<offer, when>>
    acts       \* what members have done (bound only)

nudgeVars == <<now, due, offers, snapshot, asked, acts>>

Statuses == {"active", "expired", "withdrawn"}
Jobs == {"offers.expire", "offers.nudge"}

\* DAILY_JOB_TIMES, on the farm's clock.
At == [j \in Jobs |-> IF j = "offers.expire" THEN 0 ELSE 9]

\* "left": something can be reserved, and the producer is approved.  "open",
\* which only properties read, is since when the nudge job may see the offer.
Offer == [status: Statuses, until: Dates \cup {None}, left: BOOLEAN,
          stale: BOOLEAN, nudgedAt: Int \cup {None}, lastActivityAt: Int,
          open: Int]

NudgeTypeOK ==
    /\ now \in Int
    /\ due \in [Jobs -> Int]
    /\ offers \in [Offers -> Offer]
    /\ snapshot \in [Offers -> BOOLEAN] \cup {None}
    /\ asked \subseteq Offers \X Int
    /\ acts \in Nat

\* A midnight on the farm, in winter.
Start == -1

Published(until) ==
    [status |-> "active", until |-> until, left |-> TRUE, stale |-> FALSE,
     nudgedAt |-> None, lastActivityAt |-> Start, open |-> Start]

NudgeInit ==
    /\ now = Start
    /\ due = [j \in Jobs |-> NextDaily(Start, At[j])]
    /\ offers \in [Offers -> {Published(until) : until \in Dates \cup {None}}]
    /\ snapshot = None
    /\ asked = {}
    /\ acts = 0

Tick ==
    /\ now < Horizon /\ snapshot = None
    /\ \A j \in Jobs : now < due[j] + Late
    /\ now' = now + 1
    /\ UNCHANGED <<due, offers, snapshot, asked, acts>>

Acts == LocalHour(now) \in Awake /\ acts < MaxActs /\ acts' = acts + 1

\* An answer that counts as activity and leaves the question open.
FreshButAsked(offer) == [offer EXCEPT !.lastActivityAt = now, !.open = now]

\* The offer a producer's edit or answer leaves: the cycle starts again.
Fresh(offer) == [offer EXCEPT !.stale = FALSE, !.nudgedAt = None,
                              !.lastActivityAt = now, !.open = now]

Past(until) == until # None /\ until < LocalDay(now)

\* edit(): afterwards the calendar decides the status.  A date given now is not
\* past; the one the offer had may be.
Edit(o, until) ==
    /\ until = offers[o].until \/ ~Past(until)
    /\ offers' = [offers EXCEPT ![o] =
           [Fresh(@) EXCEPT !.until = until,
                            !.status = IF Past(until) THEN "expired" ELSE "active"]]
    /\ UNCHANGED <<now, due, snapshot, asked>>

\* stillAvailable(), of an active offer.
StillAvailable(o) ==
    /\ offers[o].status = "active"
    /\ offers' = [offers EXCEPT ![o] = Fresh(@)]
    /\ UNCHANGED <<now, due, snapshot, asked>>

\* withdraw(), of an active or expired offer.
Withdraw(o) ==
    /\ offers[o].status # "withdrawn"
    /\ offers' = [offers EXCEPT ![o].status = "withdrawn"]
    /\ UNCHANGED <<now, due, snapshot, asked>>

\* Reservations, suspensions: what was left is not, or is again.
Left(o) ==
    /\ offers' = [offers EXCEPT ![o].left = ~@, ![o].open = now]
    /\ UNCHANGED <<now, due, snapshot, asked>>

\* A day is 24 hours.
RescheduledInUtc(j) == [due EXCEPT ![j] = now + Day]

Rescheduled(j) == [due EXCEPT ![j] = NextDaily(now, At[j])]

\* expire(): the offers whose date is past.
Expire ==
    /\ due["offers.expire"] <= now /\ snapshot = None
    /\ offers' = [o \in Offers |->
           IF offers[o].status = "active" /\ Past(offers[o].until)
             THEN [offers[o] EXCEPT !.status = "expired"] ELSE offers[o]]
    /\ due' = Rescheduled("offers.expire")
    /\ UNCHANGED <<now, snapshot, asked, acts>>

\* nudge() begins: its statement sees what is left, and waits for the locks.
NudgeStarts ==
    /\ due["offers.nudge"] <= now /\ snapshot = None
    /\ snapshot' = [o \in Offers |-> offers[o].left]
    /\ UNCHANGED <<now, due, offers, asked, acts>>

Candidate(o) == offers[o].status = "active" /\ offers[o].until = None /\ snapshot[o]
Since(o, hours) == offers[o].nudgedAt # None /\ offers[o].nudgedAt <= now - hours

\* Stale offers are badged, and that is all.
ToRenudgeUnbadged(o) == Candidate(o) /\ ~offers[o].stale /\ Since(o, AgainAfter)

ToNudge(o) ==
    Candidate(o) /\ offers[o].nudgedAt = None /\ offers[o].lastActivityAt <= now - NudgeAfter
ToMarkStale(o) == Candidate(o) /\ ~offers[o].stale /\ Since(o, StaleAfter)
ToRenudge(o) == Candidate(o) /\ offers[o].stale /\ Since(o, AgainAfter)

\* nudge() has every lock: the rest of its transaction.
Nudge ==
    /\ snapshot # None
    /\ LET ask == {o \in Offers : ToNudge(o) \/ ToRenudge(o)} IN
         /\ offers' = [o \in Offers |->
                [offers[o] EXCEPT !.nudgedAt = IF o \in ask THEN now ELSE @,
                                  !.stale = @ \/ ToMarkStale(o)]]
         /\ asked' = asked \cup (ask \X {now})
    /\ snapshot' = None
    /\ due' = Rescheduled("offers.nudge")
    /\ UNCHANGED <<now, acts>>

Answers ==
    \E o \in Offers :
        Acts /\ (\/ \E until \in Dates \cup {None} : Edit(o, until)
                 \/ StillAvailable(o) \/ Withdraw(o) \/ Left(o))

NudgeNext == Tick \/ Expire \/ NudgeStarts \/ Nudge \/ Answers

NudgeSpec == NudgeInit /\ [][NudgeNext]_nudgeVars

-----------------------------------------------------------------------------
\* A question is asked of an offer that was left alone for NudgeAfter, and the
\* badge means one that went unanswered for StaleAfter: whatever is edited,
\* answered or reserved in between, no badge and no question outlives an answer
\* (service.ts 332-340, 413-424, 509-516).
StaleIsUnanswered ==
    \A o \in Offers :
        /\ offers[o].nudgedAt # None =>
             /\ offers[o].lastActivityAt + NudgeAfter <= offers[o].nudgedAt
             /\ offers[o].nudgedAt <= now
             /\ <<o, offers[o].nudgedAt>> \in asked
        /\ offers[o].stale =>
             /\ offers[o].nudgedAt # None
             /\ offers[o].lastActivityAt + NudgeAfter + StaleAfter <= now

\* An offer past its date is off the board when the farm's next day starts, Late
\* hours after its midnight at most, whenever the clocks change (PRD US-3.4).
PastDateLeavesBoard ==
    \A o \in Offers :
        offers[o].status = "active" /\ Past(offers[o].until) =>
            now <= ZonedToUtc((offers[o].until + 1) * Day) + Late

Visible(offer) == offer.status = "active" /\ offer.until = None /\ offer.left
Run == Day + Hour + Late   \* from one run to the end of the next

\* An offer that the job may see all the while is asked about, badged and asked
\* about again, each at most a day later than its period says: the job compares
\* instants, so a run that comes earlier in its day than the last one, as after
\* the clocks went forward, finds one hour missing and leaves it to the next.
\* Asking again takes a run more after the badge is due, or the offer is back on
\* the board, since the run that sets the badge does not ask (service.ts 537-545).
AskedInTime ==
    \A o \in Offers :
        LET offer == offers[o]
            waits(times) == \E t \in times : now <= t + Run
        IN Visible(offer) =>
             IF offer.nudgedAt = None THEN waits({offer.lastActivityAt + NudgeAfter, offer.open})
             ELSE IF ~offer.stale THEN waits({offer.nudgedAt + StaleAfter, offer.open})
             ELSE waits({offer.nudgedAt + AgainAfter, offer.nudgedAt + StaleAfter + Run,
                         offer.open + Run})

\* Inductive, for the last two.  The nightly job is due at a midnight that no
\* dated offer on the board has left behind; and of its last run the daily job
\* can say of every offer it may ask about that there was nothing to do yet, or
\* that the offer came after it.
DatedFrom(day, offer) ==
    offer.status = "active" /\ offer.until # None => day <= offer.until + 1

NothingToDo(offer, last) ==
    Visible(offer) =>
        IF offer.nudgedAt = None
          THEN last <= offer.lastActivityAt + NudgeAfter \/ last <= offer.open
        ELSE IF ~offer.stale
          THEN last <= offer.nudgedAt + StaleAfter \/ last <= offer.open
        ELSE \/ last <= offer.nudgedAt + AgainAfter
             \/ last <= offer.nudgedAt + StaleAfter + Run
             \/ last <= offer.open + Run

JobsInTime ==
    /\ Start <= now
    /\ due \in [Jobs -> Int]
    /\ \A j \in Jobs : now <= due[j] + Late

NightInv ==
    \E day \in 0 .. LocalDay(now) + 1 :
        /\ due["offers.expire"] = ZonedToUtc(day * Day)
        /\ \A o \in Offers : DatedFrom(day, offers[o])

MorningInv ==
    \E last \in Start .. now :
        /\ due["offers.nudge"] <= last + Day + Hour
        /\ \A o \in Offers : NothingToDo(offers[o], last)

SnapshotFits ==
    snapshot # None =>
        \A o \in Offers : snapshot[o] = offers[o].left \/ offers[o].open = now

ClockInv == JobsInTime /\ NightInv /\ MorningInv /\ SnapshotFits
=============================================================================
