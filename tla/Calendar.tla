------------------------------ MODULE Calendar ------------------------------
(***************************************************************************)
(* The farm's clock (jobs/schedule.ts, shared/dates.ts).  An instant is a  *)
(* number of hours in UTC.  The farm is one hour ahead of it, two between  *)
(* Spring and Autumn; minutes are left out, since 00:05 and 09:00 are not  *)
(* in the hours that a change of the clocks skips or repeats.              *)
(***************************************************************************)
EXTENDS Integers, FiniteSets, FiniteSetsExt

CONSTANTS Spring, Autumn   \* the instants at which the clocks change

\* Summer time lasts longer than the half day that ZonedToUtc looks around.
ASSUME CalendarAssumption ==
    Spring \in Int /\ Autumn \in Int /\ Spring + 24 <= Autumn

Hour == 1
Day == 24

\* offsetMinutes(): hours east of UTC.
Offset(at) == IF Spring <= at /\ at < Autumn THEN 2 ELSE 1

\* localParts(): what the wall clock reads, as an hour counted from a midnight.
Local(at) == at + Offset(at)
LocalDay(at) == Local(at) \div Day
LocalHour(at) == Local(at) % Day

\* zonedTimeToUtc(): the instant at which the wall clock reads naive.  The first
\* of two; for an hour that was skipped, the one that lies after the gap.
ZonedToUtc(naive) ==
    LET candidates == {naive - Offset(naive + shift) : shift \in {-12, 0, 12}}
        exact == {at \in candidates : Local(at) = naive}
    IN IF exact # {} THEN Min(exact) ELSE Max(candidates)

\* nextDailyOccurrence(): strictly after from, within two days.
NextDaily(from, hour) ==
    LET onDay(n) == ZonedToUtc((LocalDay(from) + n) * Day + hour)
        later == {n \in 0 .. 2 : onDay(n) > from}
    IN onDay(Min(later))

\* Reference: the wall clock reads hour (or the hour it jumps to), not for the
\* second time, and there is no such instant between from and it.
Reads(at, hour) ==
    /\ \/ LocalHour(at) = hour
       \/ LocalHour(at - Hour) = hour - 1 /\ LocalHour(at) = hour + 1
    /\ Local(at) # Local(at - Hour)
=============================================================================
