---------------------------- MODULE NudgeProofs -----------------------------
(***************************************************************************)
(* For any number of offers, any periods, any delay of the jobs and any    *)
(* clock: a question was asked of an offer left alone, a badge means that  *)
(* it went unanswered, both come in time, and an offer past its date       *)
(* leaves the board (IInv and ClockInv, with the jobs, the Mini App and    *)
(* the bot's buttons all writing the same rows).  What the reckoning with  *)
(* the farm's clock needs is one fact, FirstInstant: the instant of a      *)
(* reading has come exactly when the clock reads that much.  And a card of *)
(* the bot's tells the truth (CardInv).                                    *)
(***************************************************************************)
EXTENDS Bot, TLAPS

\* What StaleIsUnanswered says of one offer at instant t, with the questions q
\* asked, and what it rests on: the row is typed, and its activity is not in the
\* future.
Typed(f, t) == f \in Offer /\ f.lastActivityAt <= t

Unanswered(o, f, t, q) ==
    /\ f.nudgedAt # None =>
         /\ f.lastActivityAt + NudgeAfter <= f.nudgedAt
         /\ f.nudgedAt <= t
         /\ <<o, f.nudgedAt>> \in q
    /\ f.stale =>
         /\ f.nudgedAt # None
         /\ f.lastActivityAt + NudgeAfter + StaleAfter <= t

RowOK(o, f, t, q) == Typed(f, t) /\ Unanswered(o, f, t, q)

IInv ==
    /\ now \in Int
    /\ offers \in [Offers -> Offer]
    /\ \A o \in Offers : RowOK(o, offers[o], now, asked)

LEMMA Periods ==
    NudgeAfter \in Nat /\ StaleAfter \in Nat /\ AgainAfter \in Nat /\ None \notin Int
BY NudgeAssumption

LEMMA NudgeInitIInv == NudgeInit => IInv
<1> SUFFICES ASSUME NudgeInit PROVE IInv
  OBVIOUS
<1>1. now = -1 /\ offers \in [Offers -> {Published(until) : until \in Dates \cup {None}}]
  BY DEF NudgeInit, Start
<1>2. ASSUME NEW o \in Offers
      PROVE  offers[o] \in Offer /\ RowOK(o, offers[o], now, asked)
  <2>1. PICK until \in Dates \cup {None} : offers[o] = Published(until)
    BY <1>1
  <2> QED
    BY <1>1, <2>1 DEF RowOK, Typed, Unanswered, Published, Start, Offer, Statuses
<1> QED
  BY <1>1, <1>2 DEF IInv

\* Nothing of it changes, or only time goes on.
LEMMA Later ==
    ASSUME IInv, now' \in Int, now <= now', offers' = offers, asked' = asked
    PROVE  IInv'
<1>1. ASSUME NEW o \in Offers
      PROVE  RowOK(o, offers[o], now', asked)
  <2>1. RowOK(o, offers[o], now, asked) /\ now \in Int
    BY DEF IInv
  <2> QED
    BY <2>1, Periods DEF RowOK, Typed, Unanswered, Offer
<1> QED
  BY <1>1 DEF IInv

\* One row is written.
LEMMA Written ==
    ASSUME IInv, NEW o \in Offers, NEW g, RowOK(o, g, now, asked),
           now' = now, asked' = asked, offers' = [offers EXCEPT ![o] = g]
    PROVE  IInv'
<1>1. g \in Offer
  BY DEF RowOK, Typed
<1>2. ASSUME NEW p \in Offers
      PROVE  RowOK(p, offers'[p], now, asked)
  <2>1. offers'[p] = IF p = o THEN g ELSE offers[p]
    BY DEF IInv
  <2> QED
    BY <2>1 DEF IInv
<1> QED
  BY <1>1, <1>2 DEF IInv

\* An answer leaves nothing to be asked or badged.
LEMMA FreshIsOK ==
    ASSUME IInv, NEW o \in Offers, NEW g, g \in Offer,
           g.nudgedAt = None, g.stale = FALSE, g.lastActivityAt = now
    PROVE  RowOK(o, g, now, asked)
BY DEF IInv, RowOK, Typed, Unanswered

\* What an answer, or something reserved, does to a row.
LEMMA StillAvailableIInv ==
    ASSUME IInv, NEW o \in Offers, StillAvailable(o) PROVE IInv'
<1> DEFINE g == Fresh(offers[o])
<1>1. g \in Offer /\ g.nudgedAt = None /\ g.stale = FALSE /\ g.lastActivityAt = now
  BY DEF IInv, Offer, Fresh
<1>2. offers' = [offers EXCEPT ![o] = g] /\ now' = now /\ asked' = asked
  BY DEF StillAvailable
<1> HIDE DEF g
<1> QED
  BY <1>1, <1>2, FreshIsOK, Written

LEMMA EditIInv ==
    ASSUME IInv, NEW o \in Offers, NEW until \in Dates \cup {None}, Edit(o, until)
    PROVE  IInv'
<1> DEFINE g == [Fresh(offers[o]) EXCEPT !.until = until,
                     !.status = IF Past(until) THEN "expired" ELSE "active"]
<1>1. g \in Offer /\ g.nudgedAt = None /\ g.stale = FALSE /\ g.lastActivityAt = now
  BY DEF IInv, Offer, Fresh, Statuses
<1>2. offers' = [offers EXCEPT ![o] = g] /\ now' = now /\ asked' = asked
  BY DEF Edit
<1> HIDE DEF g
<1> QED
  BY <1>1, <1>2, FreshIsOK, Written

LEMMA SameQuestions ==
    ASSUME IInv, NEW o \in Offers, NEW g, g \in Offer,
           g.nudgedAt = offers[o].nudgedAt, g.stale = offers[o].stale,
           g.lastActivityAt = offers[o].lastActivityAt
    PROVE  RowOK(o, g, now, asked)
BY DEF IInv, RowOK, Typed, Unanswered

LEMMA WithdrawIInv ==
    ASSUME IInv, NEW o \in Offers, Withdraw(o) PROVE IInv'
<1> DEFINE g == [offers[o] EXCEPT !.status = "withdrawn"]
<1>1. g \in Offer /\ g.nudgedAt = offers[o].nudgedAt /\ g.stale = offers[o].stale
      /\ g.lastActivityAt = offers[o].lastActivityAt
  BY DEF IInv, Offer, Statuses
<1>2. offers' = [offers EXCEPT ![o] = g] /\ now' = now /\ asked' = asked
  BY DEF Withdraw
<1> HIDE DEF g
<1> QED
  BY <1>1, <1>2, SameQuestions, Written

LEMMA LeftIInv ==
    ASSUME IInv, NEW o \in Offers, Left(o) PROVE IInv'
<1> DEFINE g == [offers[o] EXCEPT !.left = ~@, !.open = now]
<1>1. g \in Offer /\ g.nudgedAt = offers[o].nudgedAt /\ g.stale = offers[o].stale
      /\ g.lastActivityAt = offers[o].lastActivityAt
  BY DEF IInv, Offer
<1>2. offers' = [offers EXCEPT ![o] = g] /\ now' = now /\ asked' = asked
  BY DEF Left
<1> HIDE DEF g
<1> QED
  BY <1>1, <1>2, SameQuestions, Written

LEMMA ExpireIInv ==
    ASSUME IInv, Expire PROVE IInv'
<1> DEFINE G(o) == IF offers[o].status = "active" /\ Past(offers[o].until)
                     THEN [offers[o] EXCEPT !.status = "expired"] ELSE offers[o]
<1>1. now' = now /\ asked' = asked /\ offers' = [o \in Offers |-> G(o)]
  BY DEF Expire
<1>2. ASSUME NEW o \in Offers
      PROVE  G(o) \in Offer /\ RowOK(o, G(o), now, asked)
  <2>1. G(o) \in Offer /\ G(o).nudgedAt = offers[o].nudgedAt /\ G(o).stale = offers[o].stale
        /\ G(o).lastActivityAt = offers[o].lastActivityAt
    BY DEF IInv, Offer, Statuses
  <2> HIDE DEF G
  <2> QED
    BY <2>1, SameQuestions
<1> HIDE DEF G
<1> QED
  BY <1>1, <1>2 DEF IInv

\* A question is asked after NudgeAfter of silence, a badge put on after
\* StaleAfter of it more.
LEMMA NudgeIInv ==
    ASSUME IInv, Nudge PROVE IInv'
<1> DEFINE ask == {o \in Offers : ToNudge(o) \/ ToRenudge(o)}
           G(o) == [offers[o] EXCEPT !.nudgedAt = IF o \in ask THEN now ELSE @,
                                     !.stale = @ \/ ToMarkStale(o)]
<1>1. /\ now' = now /\ asked' = asked \cup (ask \X {now})
      /\ offers' = [o \in Offers |-> G(o)]
  BY DEF Nudge
<1>2. ASSUME NEW o \in Offers
      PROVE  G(o) \in Offer /\ RowOK(o, G(o), now, asked')
  <2>1. RowOK(o, offers[o], now, asked) /\ offers[o] \in Offer /\ now \in Int
    BY DEF IInv
  <2>2. /\ G(o) \in Offer
        /\ G(o).nudgedAt = IF o \in ask THEN now ELSE offers[o].nudgedAt
        /\ G(o).stale = (offers[o].stale \/ ToMarkStale(o))
        /\ G(o).lastActivityAt = offers[o].lastActivityAt
    BY <2>1 DEF Offer
  <2>3. CASE ToNudge(o)
    <3>1. offers[o].nudgedAt = None /\ offers[o].lastActivityAt <= now - NudgeAfter
      BY <2>3 DEF ToNudge
    <3>2. ~ToMarkStale(o) /\ ~offers[o].stale /\ o \in ask
      BY <2>1, <2>3, <3>1 DEF ToMarkStale, Since, RowOK, Unanswered
    <3>3. <<o, now>> \in asked'
      BY <1>1, <3>2
    <3> HIDE DEF G, ask
    <3> QED
      BY <2>1, <2>2, <3>1, <3>2, <3>3, Periods DEF RowOK, Typed, Unanswered, Offer
  <2>4. CASE ~ToNudge(o) /\ ToRenudge(o)
    <3>1. /\ offers[o].nudgedAt # None /\ offers[o].nudgedAt <= now - AgainAfter
          /\ o \in ask /\ offers[o].stale
      BY <2>4 DEF ToRenudge, Since
    <3>3. <<o, now>> \in asked'
      BY <1>1, <3>1
    <3> HIDE DEF G, ask
    <3> QED
      BY <2>1, <2>2, <3>1, <3>3, Periods DEF RowOK, Typed, Unanswered, Offer
  <2>5. CASE ~ToNudge(o) /\ ~ToRenudge(o)
    <3>1. o \notin ask
      BY <2>5
    <3>2. ToMarkStale(o) =>
            offers[o].nudgedAt # None /\ offers[o].nudgedAt <= now - StaleAfter
      BY DEF ToMarkStale, Since
    <3>3. asked \subseteq asked'
      BY <1>1
    <3> HIDE DEF G, ask
    <3> QED
      BY <2>1, <2>2, <3>1, <3>2, <3>3, Periods DEF RowOK, Typed, Unanswered, Offer
  <2> QED
    BY <2>3, <2>4, <2>5
<1> HIDE DEF G, ask
<1> QED
  BY <1>1, <1>2 DEF IInv

LEMMA NudgeStep ==
    ASSUME IInv, NudgeNext PROVE IInv'
<1>1. CASE Tick
  BY <1>1, Later DEF Tick, IInv
<1>2. CASE Expire
  BY <1>2, ExpireIInv
<1>3. CASE NudgeStarts
  BY <1>3, Later DEF NudgeStarts, IInv
<1>4. CASE Nudge
  BY <1>4, NudgeIInv
<1>5. CASE Answers
  BY <1>5, EditIInv, StillAvailableIInv, WithdrawIInv, LeftIInv DEF Answers
<1> QED
  BY <1>1, <1>2, <1>3, <1>4, <1>5 DEF NudgeNext

\* The bot writes an offer through the same two calls, and nothing else of it.
LEMMA BotMoves ==
    ASSUME [Next]_vars
    PROVE  \/ NudgeNext
           \/ \E o \in Offers : StillAvailable(o) \/ Withdraw(o)
           \/ UNCHANGED <<now, due, offers, snapshot, asked>>
<1>1. CASE OffersMove
  BY <1>1 DEF OffersMove
<1>2. ASSUME NEW e \in Applicants \cup Rsvs, OthersAct(e)
      PROVE  UNCHANGED <<now, due, offers, snapshot, asked>>
  BY <1>2 DEF OthersAct
<1>3. ASSUME NEW h \in Handlers, NEW c \in Cards, NEW a, Begins(h, c, a)
      PROVE  UNCHANGED <<now, due, offers, snapshot, asked>>
  BY <1>3 DEF Begins
<1>4. ASSUME NEW h \in Handlers, NEW g \in Handlers, Redeliver(h, g)
      PROVE  UNCHANGED <<now, due, offers, snapshot, asked>>
  BY <1>4 DEF Redeliver, Begins
<1>5. ASSUME NEW h \in Handlers, ActOnOffer(h)
      PROVE  \/ \E o \in Offers : StillAvailable(o) \/ Withdraw(o)
             \/ UNCHANGED <<now, due, offers, snapshot, asked>>
  BY <1>5 DEF ActOnOffer, Untouched, nudgeVars
<1>6. ASSUME NEW h \in Handlers, Act(h) \/ Look(h) \/ LookFails(h) \/ Say(h) \/ GiveUp(h)
      PROVE  UNCHANGED <<now, due, offers, snapshot, asked>>
  BY <1>6 DEF Act, Look, LookFails, Explains, Say, GiveUp, Untouched, nudgeVars
<1>7. CASE UNCHANGED vars
  BY <1>7 DEF vars
<1> QED
  BY <1>1, <1>2, <1>3, <1>4, <1>5, <1>6, <1>7 DEF Next, Tap

LEMMA BotStep ==
    ASSUME IInv, [Next]_vars PROVE IInv'
<1>1. CASE UNCHANGED <<now, due, offers, snapshot, asked>>
  BY <1>1, Later DEF IInv
<1> QED
  BY <1>1, BotMoves, NudgeStep, StillAvailableIInv, WithdrawIInv

\* Whatever is edited, answered, tapped or reserved between the runs of the job,
\* no question and no badge outlives an answer (domain/offers/service.ts 332-340,
\* 413-424, 509-575).
THEOREM StaleIsUnansweredHolds == Spec => []StaleIsUnanswered
<1>1. Init => IInv
  BY NudgeInitIInv DEF Init
<1>2. IInv /\ [Next]_vars => IInv'
  BY BotStep
<1>3. IInv => StaleIsUnanswered
  BY DEF IInv, RowOK, Unanswered, StaleIsUnanswered
<1> QED
  BY <1>1, <1>2, <1>3, PTL DEF Spec

-----------------------------------------------------------------------------
\* The farm's clock.

\* The least and the greatest of a set of integers, when one is known to be.
LEMMA MinIs ==
    ASSUME NEW S \in SUBSET Int, NEW x \in S, \A y \in S : x <= y
    PROVE  Min(S) = x
<1>1. ASSUME NEW z \in S, \A y \in S : z <= y PROVE z = x
  BY <1>1
<1>2. \E z \in S : \A y \in S : z <= y
  OBVIOUS
<1>3. Min(S) \in S /\ \A y \in S : Min(S) <= y
  BY <1>2, Zenon DEF Min
<1> QED
  BY <1>1, <1>3

LEMMA MaxIs ==
    ASSUME NEW S \in SUBSET Int, NEW x \in S, \A y \in S : x >= y
    PROVE  Max(S) = x
<1>1. ASSUME NEW z \in S, \A y \in S : z >= y PROVE z = x
  BY <1>1
<1>2. \E z \in S : \A y \in S : z >= y
  OBVIOUS
<1>3. Max(S) \in S /\ \A y \in S : Max(S) >= y
  BY <1>2, Zenon DEF Max
<1> QED
  BY <1>1, <1>3

\* The wall clock is one or two hours ahead, and never goes back to an hour it
\* has passed.
LEMMA LocalBounds ==
    ASSUME NEW at \in Int
    PROVE  Local(at) \in Int /\ at + 1 <= Local(at) /\ Local(at) <= at + 2
BY CalendarAssumption DEF Local, Offset

LEMMA LocalMonotone ==
    ASSUME NEW a \in Int, NEW b \in Int, a <= b
    PROVE  Local(a) <= Local(b)
<1>1. CASE a = b
  BY <1>1, LocalBounds
<1>2. CASE a < b
  BY <1>2, LocalBounds
<1> QED
  BY <1>1, <1>2

\* The first instant of a reading: it has come when the clock reads that much.
\* In summer the reading is two hours ahead, otherwise one; between the two lies
\* the hour that is skipped.
LEMMA FirstInstant ==
    ASSUME NEW naive \in Int
    PROVE  /\ ZonedToUtc(naive) \in Int
           /\ \A at \in Int : ZonedToUtc(naive) <= at <=> naive <= Local(at)
<1> DEFINE candidates == {naive - Offset(naive + shift) : shift \in {-12, 0, 12}}
           exact == {at \in candidates : Local(at) = naive}
           p == naive - 2
           q == naive - 1
           Summer(at) == Spring <= at /\ at < Autumn
<1>0. /\ Spring \in Int /\ Autumn \in Int /\ Spring + 24 <= Autumn
      /\ p \in Int /\ q \in Int
      /\ \A at \in Int : Local(at) = IF Summer(at) THEN at + 2 ELSE at + 1
  BY CalendarAssumption DEF Local, Offset
<1>1. /\ candidates = {naive - Offset(naive - 12), naive - Offset(naive), naive - Offset(naive + 12)}
      /\ candidates \subseteq {p, q}
      /\ p \in candidates <=>
           Summer(naive - 12) \/ Summer(naive) \/ Summer(naive + 12)
      /\ q \in candidates <=>
           ~Summer(naive - 12) \/ ~Summer(naive) \/ ~Summer(naive + 12)
  <2>1. candidates = {naive - Offset(naive - 12), naive - Offset(naive), naive - Offset(naive + 12)}
    <3>1. naive + (-12) = naive - 12 /\ naive + 0 = naive
      OBVIOUS
    <3> QED
      BY <3>1
  <2> QED
    BY <2>1, <1>0 DEF Offset
<1>2. ZonedToUtc(naive) = IF exact # {} THEN Min(exact) ELSE Max(candidates)
  BY DEF ZonedToUtc
<1>3. CASE Summer(p)
  <2>1. p \in candidates /\ p \in exact
    BY <1>0, <1>1, <1>3
  <2>2. \A y \in exact : p <= y
    BY <1>0, <1>1
  <2>3. exact \in SUBSET Int
    BY <1>0, <1>1
  <2> HIDE DEF candidates, exact, p, q
  <2>4. ZonedToUtc(naive) = p
    BY <1>2, <2>1, <2>2, <2>3, MinIs
  <2>5. Local(p) = naive
    BY <2>1 DEF exact
  <2>6. ASSUME NEW at \in Int PROVE p <= at <=> naive <= Local(at)
    <3>1. p <= at => naive <= Local(at)
      BY <1>0, <2>5, LocalMonotone
    <3>2. ~(p <= at) => Local(at) < naive
      BY <1>0, LocalBounds DEF p
    <3> QED
      BY <1>0, <3>1, <3>2, LocalBounds
  <2> QED
    BY <1>0, <2>4, <2>6
<1>4. CASE ~Summer(p) /\ ~Summer(q)
  <2>1. q \in candidates /\ q \in exact /\ p \notin exact
    BY <1>0, <1>1, <1>4
  <2>2. exact = {q}
    BY <1>0, <1>1, <2>1
  <2>3. Local(q) = naive /\ Local(p) = naive - 1
    BY <1>0, <1>4
  <2> HIDE DEF candidates, exact
  <2>4. ZonedToUtc(naive) = q
    BY <1>0, <1>2, <2>2, MinIs
  <2>6. ASSUME NEW at \in Int PROVE q <= at <=> naive <= Local(at)
    <3>1. q <= at => naive <= Local(at)
      BY <1>0, <2>3, LocalMonotone
    <3>2. ~(q <= at) => Local(at) <= Local(p)
      <4>1. ~(q <= at) => at <= p
        BY <1>0
      <4> QED
        BY <1>0, <4>1, LocalMonotone
    <3> QED
      BY <1>0, <2>3, <3>1, <3>2, LocalBounds
  <2> QED
    BY <1>0, <2>4, <2>6
<1>5. CASE ~Summer(p) /\ Summer(q)
  <2>1. Local(p) = naive - 1 /\ Local(q) = naive + 1
    BY <1>0, <1>5
  <2>2. exact = {}
    BY <1>0, <1>1, <2>1
  <2>3. q \in candidates
    BY <1>0, <1>1, <1>5
  <2>4. candidates \in SUBSET Int /\ \A y \in candidates : q >= y
    BY <1>0, <1>1
  <2> HIDE DEF candidates, exact
  <2>5. ZonedToUtc(naive) = q
    BY <1>2, <2>2, <2>3, <2>4, MaxIs
  <2>6. ASSUME NEW at \in Int PROVE q <= at <=> naive <= Local(at)
    <3>1. q <= at => Local(q) <= Local(at)
      BY <1>0, LocalMonotone
    <3>2. ~(q <= at) => Local(at) <= Local(p)
      <4>1. ~(q <= at) => at <= p
        BY <1>0
      <4> QED
        BY <1>0, <4>1, LocalMonotone
    <3> QED
      BY <1>0, <2>1, <3>1, <3>2, LocalBounds
  <2> QED
    BY <1>0, <2>5, <2>6
<1> QED
  BY <1>3, <1>4, <1>5

\* A reading is a day and an hour of it.
LEMMA DayAndHour ==
    ASSUME NEW at \in Int
    PROVE  /\ Local(at) \in Int /\ LocalDay(at) \in Int /\ LocalHour(at) \in 0 .. 23
           /\ Local(at) = LocalDay(at) * 24 + LocalHour(at)
<1>1. ASSUME NEW l \in Int
      PROVE  l \div 24 \in Int /\ l % 24 \in 0 .. 23 /\ l = (l \div 24) * 24 + (l % 24)
  OBVIOUS
<1>2. Local(at) \in Int
  BY LocalBounds
<1> QED
  BY <1>1, <1>2 DEF LocalDay, LocalHour, Day

\* A day starts when the calendar reads it, and later days start later.
LEMMA DayStarts ==
    ASSUME NEW d \in Int
    PROVE  /\ ZonedToUtc(d * Day) \in Int
           /\ \A at \in Int : ZonedToUtc(d * Day) <= at <=> d <= LocalDay(at)
<1>1. d * Day \in Int
  BY DEF Day
<1>2. ASSUME NEW at \in Int PROVE d * Day <= Local(at) <=> d <= LocalDay(at)
  <2>1. Local(at) \in Int
    BY LocalBounds
  <2>2. ASSUME NEW l \in Int PROVE d * 24 <= l <=> d <= l \div 24
    OBVIOUS
  <2> QED
    BY <2>1, <2>2 DEF LocalDay, Day
<1> QED
  BY <1>1, <1>2, FirstInstant

LEMMA DaysInOrder ==
    ASSUME NEW d \in Int, NEW e \in Int, d <= e
    PROVE  ZonedToUtc(d * Day) <= ZonedToUtc(e * Day)
<1>1. LocalDay(ZonedToUtc(e * Day)) \in Int
  BY DayStarts, DayAndHour
<1>2. e <= LocalDay(ZonedToUtc(e * Day))
  BY DayStarts
<1>3. d <= LocalDay(ZonedToUtc(e * Day))
  BY <1>1, <1>2
<1> QED
  BY <1>3, DayStarts

LEMMA CalendarGoesOn ==
    ASSUME NEW a \in Int, NEW b \in Int, a <= b
    PROVE  LocalDay(a) \in Int /\ LocalDay(b) \in Int /\ LocalDay(a) <= LocalDay(b)
<1>1. Local(a) \in Int /\ Local(b) \in Int /\ Local(a) <= Local(b)
  BY LocalBounds, LocalMonotone
<1> QED
  BY <1>1 DEF LocalDay, Day

\* The next time of a job: today when its hour is still to come, or tomorrow.
LEMMA NextTime ==
    ASSUME NEW from \in Int, NEW hour \in 0 .. 23
    PROVE  LET day == IF hour > LocalHour(from) THEN LocalDay(from) ELSE LocalDay(from) + 1
           IN NextDaily(from, hour) = ZonedToUtc(day * Day + hour)
<1> DEFINE d == LocalDay(from)
           r == LocalHour(from)
           onDay(n) == ZonedToUtc((d + n) * Day + hour)
           later == {n \in 0 .. 2 : onDay(n) > from}
<1>1. /\ d \in Int /\ r \in 0 .. 23 /\ Local(from) \in Int
      /\ Local(from) = d * 24 + r
  BY DayAndHour
<1>2. ASSUME NEW n \in 0 .. 2
      PROVE  onDay(n) > from <=> (d + n) * 24 + hour > Local(from)
  <2>1. (d + n) * Day + hour \in Int
    BY <1>1 DEF Day
  <2>2. onDay(n) \in Int
    BY <2>1, FirstInstant
  <2>3. onDay(n) <= from <=> (d + n) * Day + hour <= Local(from)
    BY <2>1, FirstInstant
  <2> QED
    BY <1>1, <2>1, <2>2, <2>3 DEF Day
<1>3. NextDaily(from, hour) = onDay(Min(later))
  BY DEF NextDaily
<1>4. later \in SUBSET Int
  OBVIOUS
<1>5. CASE hour > r
  <2>1. 0 \in later
    BY <1>1, <1>2, <1>5
  <2>2. \A y \in later : 0 <= y
    OBVIOUS
  <2> HIDE DEF later
  <2>3. Min(later) = 0
    BY <1>4, <2>1, <2>2, MinIs
  <2>4. d + 0 = d
    BY <1>1
  <2> QED
    BY <1>3, <1>5, <2>3, <2>4
<1>6. CASE ~(hour > r)
  <2>1. 1 \in later /\ 0 \notin later
    BY <1>1, <1>2, <1>6
  <2>2. \A y \in later : 1 <= y
    BY <2>1
  <2> HIDE DEF later
  <2>3. Min(later) = 1
    BY <1>4, <2>1, <2>2, MinIs
  <2> QED
    BY <1>3, <1>6, <2>3
<1> QED
  BY <1>5, <1>6

\* The nightly job comes at the start of the next day, and the daily one before
\* a day of 25 hours is over.
LEMMA NextNight ==
    ASSUME NEW from \in Int
    PROVE  /\ NextDaily(from, 0) = ZonedToUtc((LocalDay(from) + 1) * Day)
           /\ NextDaily(from, 0) \in Int /\ from < NextDaily(from, 0)
<1>1. LocalHour(from) \in 0 .. 23 /\ LocalDay(from) \in Int
  BY DayAndHour
<1>2. NextDaily(from, 0) = ZonedToUtc((LocalDay(from) + 1) * Day + 0)
  BY <1>1, NextTime
<1>3. (LocalDay(from) + 1) * Day + 0 = (LocalDay(from) + 1) * Day
  BY <1>1 DEF Day
<1>4. ~(ZonedToUtc((LocalDay(from) + 1) * Day) <= from)
  BY <1>1, DayStarts
<1> QED
  BY <1>1, <1>2, <1>3, <1>4, DayStarts

LEMMA NextMorning ==
    ASSUME NEW from \in Int, NEW hour \in 0 .. 23
    PROVE  /\ NextDaily(from, hour) \in Int
           /\ from < NextDaily(from, hour)
           /\ NextDaily(from, hour) <= from + 25
<1> DEFINE d == LocalDay(from)
           r == LocalHour(from)
           naive == (IF hour > r THEN d ELSE d + 1) * 24 + hour
<1>1. /\ d \in Int /\ r \in 0 .. 23 /\ Local(from) \in Int /\ Local(from + 25) \in Int
      /\ Local(from) = d * 24 + r
  BY DayAndHour
<1>2. NextDaily(from, hour) = ZonedToUtc(naive)
  BY <1>1, NextTime DEF Day
<1>3. naive \in Int /\ Local(from) < naive /\ naive <= Local(from) + 24
  BY <1>1
<1>4. Local(from) + 24 <= Local(from + 25)
  BY LocalBounds
<1> HIDE DEF naive, d, r
<1>5. ~(ZonedToUtc(naive) <= from) /\ ZonedToUtc(naive) <= from + 25
  BY <1>1, <1>3, <1>4, FirstInstant
<1> QED
  BY <1>2, <1>3, <1>5, FirstInstant

-----------------------------------------------------------------------------
\* The two jobs and their clock.
LEMMA JobTimes ==
    /\ Jobs = {"offers.expire", "offers.nudge"}
    /\ At \in [Jobs -> 0 .. 23] /\ At["offers.expire"] = 0
    /\ Late \in Nat /\ \A d \in Dates : d \in Nat
BY NudgeAssumption DEF Jobs, At

LEMMA StartDay == Start \in Int /\ LocalDay(Start) = 0
<1>1. Start \in Int /\ Start + 1 = 0 /\ Start + 2 = 1
  BY DEF Start
<1>2. Local(Start) \in Int /\ (Local(Start) = 0 \/ Local(Start) = 1)
  <2> HIDE DEF Start
  <2>1. 0 <= Local(Start) /\ Local(Start) <= 1 /\ Local(Start) \in Int
    BY <1>1, LocalBounds
  <2> QED
    BY <2>1
<1>3. 0 \div 24 = 0 /\ 1 \div 24 = 0
  OBVIOUS
<1> HIDE DEF Start
<1> QED
  BY <1>1, <1>2, <1>3 DEF LocalDay, Day

LEMMA InitClock == NudgeInit => ClockInv
<1> SUFFICES ASSUME NudgeInit PROVE ClockInv
  OBVIOUS
<1>1. /\ now = Start
      /\ offers \in [Offers -> {Published(until) : until \in Dates \cup {None}}]
      /\ due = [j \in Jobs |-> NextDaily(Start, At[j])]
      /\ snapshot = None
  BY DEF NudgeInit
<1>2. \A j \in Jobs : due[j] \in Int /\ Start < due[j] /\ due[j] <= Start + 25
  <2> TAKE j \in Jobs
  <2>1. due[j] = NextDaily(Start, At[j]) /\ At[j] \in 0 .. 23
    BY <1>1, JobTimes
  <2> QED
    BY <2>1, NextMorning, StartDay
<1>3. JobsInTime
  BY <1>1, <1>2, JobTimes, StartDay DEF JobsInTime
<1>4. NightInv
  <2>2. due["offers.expire"] = ZonedToUtc(1 * Day)
    <3>1. due["offers.expire"] = NextDaily(Start, 0)
      BY <1>1, JobTimes
    <3>2. NextDaily(Start, 0) = ZonedToUtc((LocalDay(Start) + 1) * Day)
      BY NextNight, StartDay
    <3>3. (LocalDay(Start) + 1) * Day = 1 * Day
      BY StartDay
    <3> QED
      BY <3>1, <3>2, <3>3
  <2>3. ASSUME NEW o \in Offers PROVE DatedFrom(1, offers[o])
    <3>1. PICK until \in Dates \cup {None} : offers[o] = Published(until)
      BY <1>1
    <3>2. offers[o].until = until
      BY <3>1 DEF Published
    <3>3. until # None => until \in Nat
      BY JobTimes
    <3> QED
      BY <3>2, <3>3 DEF DatedFrom
  <2> QED
    BY <1>1, <2>2, <2>3, StartDay DEF NightInv
<1>5. MorningInv
  <2>1. ASSUME NEW o \in Offers PROVE NothingToDo(offers[o], Start)
    <3>1. PICK until \in Dates \cup {None} : offers[o] = Published(until)
      BY <1>1
    <3>2. offers[o].nudgedAt = None /\ offers[o].open = Start
      BY <3>1 DEF Published
    <3> QED
      BY <3>2, StartDay DEF NothingToDo
  <2>2. due["offers.nudge"] <= Start + Day + Hour
    BY <1>2, JobTimes, StartDay DEF Day, Hour
  <2> QED
    BY <1>1, <2>1, <2>2, StartDay DEF MorningInv
<1>6. SnapshotFits
  BY <1>1 DEF SnapshotFits
<1> QED
  BY <1>3, <1>4, <1>5, <1>6 DEF ClockInv

\* Nothing of it changes, or an hour passes between two runs.
LEMMA HourPasses ==
    ASSUME IInv, ClockInv, now' \in Int, now <= now', UNCHANGED <<due, offers, snapshot>>,
           now' = now \/ snapshot = None,
           \A j \in Jobs : now' <= due[j] + Late
    PROVE  ClockInv'
<1>1. now \in Int /\ Start <= now /\ Start \in Int
  BY DEF IInv, ClockInv, JobsInTime, Start
<1>2. JobsInTime'
  BY <1>1 DEF ClockInv, JobsInTime
<1>3. NightInv'
  <2>1. PICK day \in 0 .. LocalDay(now) + 1 :
          /\ due["offers.expire"] = ZonedToUtc(day * Day)
          /\ \A o \in Offers : DatedFrom(day, offers[o])
    BY DEF ClockInv, NightInv
  <2>2. LocalDay(now) <= LocalDay(now') /\ LocalDay(now) \in Int /\ LocalDay(now') \in Int
    BY <1>1, CalendarGoesOn
  <2>3. day \in 0 .. LocalDay(now') + 1
    BY <2>2
  <2>4. LocalDay(now)' = LocalDay(now')
    BY DEF LocalDay, Local, Offset
  <2> QED
    BY <2>1, <2>3, <2>4 DEF NightInv
<1>4. MorningInv'
  BY <1>1 DEF ClockInv, MorningInv
<1>5. SnapshotFits'
  BY DEF ClockInv, SnapshotFits
<1> QED
  BY <1>2, <1>3, <1>4, <1>5 DEF ClockInv

\* One row is written: what it shows of the board from now on, it shows since now.
LEMMA RowWritten ==
    ASSUME IInv, ClockInv, NEW o \in Offers, NEW g,
           UNCHANGED <<now, due, snapshot>>, offers' = [offers EXCEPT ![o] = g],
           g.open = now \/ (g.status # "active" /\ g.left = offers[o].left /\ g.open = offers[o].open),
           g.status = "active" /\ g.until # None =>
               \/ g.until \in Int /\ LocalDay(now) <= g.until
               \/ offers[o].status = "active" /\ g.until = offers[o].until
    PROVE  ClockInv'
<1>1. now \in Int /\ LocalDay(now) \in Int /\ Start \in Int
  BY DayAndHour DEF IInv, Start
<1>2. ASSUME NEW p \in Offers PROVE offers'[p] = IF p = o THEN g ELSE offers[p]
  BY DEF IInv
<1>3. JobsInTime'
  BY DEF ClockInv, JobsInTime
<1>4. NightInv'
  <2>1. PICK day \in 0 .. LocalDay(now) + 1 :
          /\ due["offers.expire"] = ZonedToUtc(day * Day)
          /\ \A p \in Offers : DatedFrom(day, offers[p])
    BY DEF ClockInv, NightInv
  <2>2. LocalDay(now)' = LocalDay(now)
    BY DEF LocalDay, Local, Offset
  <2>3. ASSUME NEW p \in Offers PROVE DatedFrom(day, offers'[p])
    BY <1>1, <1>2, <2>1 DEF DatedFrom
  <2> QED
    BY <2>1, <2>2, <2>3 DEF NightInv
<1>5. MorningInv'
  <2>1. PICK last \in Start .. now :
          /\ due["offers.nudge"] <= last + Day + Hour
          /\ \A p \in Offers : NothingToDo(offers[p], last)
    BY DEF ClockInv, MorningInv
  <2>2. NothingToDo(g, last)
    <3>1. CASE g.open = now
      BY <1>1, <3>1, JobTimes DEF NothingToDo, Run, Day, Hour
    <3>2. CASE g.status # "active"
      BY <3>2 DEF NothingToDo, Visible
    <3> QED
      BY <3>1, <3>2
  <2>3. ASSUME NEW p \in Offers PROVE NothingToDo(offers'[p], last)
    BY <1>2, <2>1, <2>2
  <2> QED
    BY <2>1, <2>3 DEF MorningInv
<1>6. SnapshotFits'
  BY <1>2 DEF ClockInv, SnapshotFits
<1> QED
  BY <1>3, <1>4, <1>5, <1>6 DEF ClockInv

LEMMA StillAvailableClock ==
    ASSUME IInv, ClockInv, NEW o \in Offers, StillAvailable(o) PROVE ClockInv'
<1> DEFINE g == Fresh(offers[o])
<1>1. g.open = now /\ g.status = offers[o].status /\ g.until = offers[o].until
  BY DEF IInv, Offer, Fresh
<1>2. offers' = [offers EXCEPT ![o] = g] /\ UNCHANGED <<now, due, snapshot>>
  BY DEF StillAvailable
<1> HIDE DEF g
<1> QED
  BY <1>1, <1>2, RowWritten

\* A date given now is not past, and the one it had decides the status.
LEMMA EditClock ==
    ASSUME IInv, ClockInv, NEW o \in Offers, NEW until \in Dates \cup {None}, Edit(o, until)
    PROVE  ClockInv'
<1> DEFINE g == [Fresh(offers[o]) EXCEPT !.until = until,
                     !.status = IF Past(until) THEN "expired" ELSE "active"]
<1>1. /\ g.open = now /\ g.until = until
      /\ g.status = IF Past(until) THEN "expired" ELSE "active"
  BY DEF IInv, Offer, Fresh
<1>2. offers' = [offers EXCEPT ![o] = g] /\ UNCHANGED <<now, due, snapshot>>
  BY DEF Edit
<1>3. g.status = "active" /\ until # None => until \in Int /\ LocalDay(now) <= until
  <2>1. LocalDay(now) \in Int
    BY DayAndHour DEF IInv
  <2> HIDE DEF g
  <2> QED
    BY <1>1, <2>1, JobTimes DEF Past
<1> HIDE DEF g
<1> QED
  BY <1>1, <1>2, <1>3, RowWritten

LEMMA WithdrawClock ==
    ASSUME IInv, ClockInv, NEW o \in Offers, Withdraw(o) PROVE ClockInv'
<1> DEFINE g == [offers[o] EXCEPT !.status = "withdrawn"]
<1>1. g.status = "withdrawn" /\ g.left = offers[o].left /\ g.open = offers[o].open
  BY DEF IInv, Offer
<1>2. offers' = [offers EXCEPT ![o] = g] /\ UNCHANGED <<now, due, snapshot>>
  BY DEF Withdraw
<1> HIDE DEF g
<1> QED
  BY <1>1, <1>2, RowWritten

LEMMA LeftClock ==
    ASSUME IInv, ClockInv, NEW o \in Offers, Left(o) PROVE ClockInv'
<1> DEFINE g == [offers[o] EXCEPT !.left = ~@, !.open = now]
<1>1. g.open = now /\ g.status = offers[o].status /\ g.until = offers[o].until
  BY DEF IInv, Offer
<1>2. offers' = [offers EXCEPT ![o] = g] /\ UNCHANGED <<now, due, snapshot>>
  BY DEF Left
<1> HIDE DEF g
<1> QED
  BY <1>1, <1>2, RowWritten

\* The nightly job is due again at the next midnight, and what it leaves on the
\* board is not past today.
LEMMA ExpireClock ==
    ASSUME IInv, ClockInv, Expire PROVE ClockInv'
<1> DEFINE G(o) == IF offers[o].status = "active" /\ Past(offers[o].until)
                     THEN [offers[o] EXCEPT !.status = "expired"] ELSE offers[o]
<1>1. /\ now' = now /\ snapshot' = snapshot /\ snapshot = None
      /\ offers' = [o \in Offers |-> G(o)]
      /\ due' = [due EXCEPT !["offers.expire"] = NextDaily(now, 0)]
  BY JobTimes DEF Expire, Rescheduled
<1>2. /\ now \in Int /\ LocalDay(now) \in Int /\ Start \in Int /\ Start <= now
      /\ due \in [Jobs -> Int] /\ \A j \in Jobs : now <= due[j] + Late
  BY DayAndHour DEF IInv, Start, ClockInv, JobsInTime
<1>3. /\ NextDaily(now, 0) = ZonedToUtc((LocalDay(now) + 1) * Day)
      /\ NextDaily(now, 0) \in Int /\ now < NextDaily(now, 0)
  BY <1>2, NextNight
<1>4. /\ due'["offers.expire"] = NextDaily(now, 0)
      /\ due'["offers.nudge"] = due["offers.nudge"]
      /\ due' \in [Jobs -> Int]
  BY <1>1, <1>2, <1>3, JobTimes
<1>5. JobsInTime'
  BY <1>1, <1>2, <1>3, <1>4, JobTimes DEF JobsInTime
<1>6. ASSUME NEW o \in Offers
      PROVE  /\ offers[o] \in Offer
             /\ G(o).status \in {offers[o].status, "expired"}
             /\ G(o).until = offers[o].until /\ G(o).left = offers[o].left
             /\ G(o).stale = offers[o].stale /\ G(o).nudgedAt = offers[o].nudgedAt
             /\ G(o).lastActivityAt = offers[o].lastActivityAt /\ G(o).open = offers[o].open
             /\ G(o).status = "active" => ~Past(offers[o].until)
  BY DEF IInv, Offer
<1> HIDE DEF G
<1>7. NightInv'
  <2>1. 0 <= LocalDay(now)
    BY <1>2, StartDay, CalendarGoesOn
  <2>2. LocalDay(now)' = LocalDay(now)
    BY <1>1 DEF LocalDay, Local, Offset
  <2>3. ASSUME NEW o \in Offers PROVE DatedFrom(LocalDay(now) + 1, offers'[o])
    <3>1. offers'[o] = G(o) /\ offers[o].until \in Dates \cup {None}
      BY <1>1, <1>6 DEF Offer
    <3>2. offers[o].until # None => offers[o].until \in Int
      BY <3>1, JobTimes
    <3> QED
      BY <1>2, <1>6, <3>1, <3>2 DEF DatedFrom, Past
  <2>4. LocalDay(now) + 1 \in 0 .. LocalDay(now) + 1
    BY <1>2, <2>1
  <2> QED
    BY <1>3, <1>4, <2>2, <2>3, <2>4 DEF NightInv
<1>8. MorningInv'
  <2>1. PICK last \in Start .. now :
          /\ due["offers.nudge"] <= last + Day + Hour
          /\ \A p \in Offers : NothingToDo(offers[p], last)
    BY DEF ClockInv, MorningInv
  <2>2. ASSUME NEW o \in Offers PROVE NothingToDo(offers'[o], last)
    <3>1. NothingToDo(offers[o], last)
      BY <2>1
    <3> QED
      BY <1>1, <1>6, <3>1 DEF NothingToDo, Visible
  <2> QED
    BY <1>1, <1>4, <2>1, <2>2 DEF MorningInv
<1>9. SnapshotFits'
  BY <1>1 DEF SnapshotFits
<1> QED
  BY <1>5, <1>7, <1>8, <1>9 DEF ClockInv

LEMMA NudgeStartsClock ==
    ASSUME IInv, ClockInv, NudgeStarts PROVE ClockInv'
<1>1. UNCHANGED <<now, due, offers>> /\ snapshot' = [o \in Offers |-> offers[o].left]
  BY DEF NudgeStarts
<1>2. JobsInTime' /\ MorningInv'
  BY <1>1 DEF ClockInv, JobsInTime, MorningInv
<1>3. NightInv'
  <2>1. LocalDay(now)' = LocalDay(now)
    BY <1>1 DEF LocalDay, Local, Offset
  <2> QED
    BY <1>1, <2>1 DEF ClockInv, NightInv
<1>4. SnapshotFits'
  BY <1>1 DEF SnapshotFits
<1> QED
  BY <1>2, <1>3, <1>4 DEF ClockInv

\* What the job saw, it has asked about, badged or found too young; what it did
\* not see came up within the hour.
LEMMA NothingLeftToDo ==
    ASSUME IInv, ClockInv, Nudge, NEW o \in Offers
    PROVE  NothingToDo(offers'[o], now)
<1> DEFINE ask == {p \in Offers : ToNudge(p) \/ ToRenudge(p)}
           G(p) == [offers[p] EXCEPT !.nudgedAt = IF p \in ask THEN now ELSE @,
                                     !.stale = @ \/ ToMarkStale(p)]
<1>1. /\ snapshot # None
      /\ offers' = [p \in Offers |-> G(p)]
  BY DEF Nudge
<1>2. offers'[o] = G(o)
  BY <1>1
<1>3. /\ now \in Int /\ offers[o] \in Offer
      /\ RowOK(o, offers[o], now, asked)
      /\ snapshot[o] = offers[o].left \/ offers[o].open = now
  BY <1>1 DEF IInv, ClockInv, SnapshotFits
<1>4. /\ offers'[o].status = offers[o].status /\ offers'[o].until = offers[o].until
      /\ offers'[o].left = offers[o].left /\ offers'[o].open = offers[o].open
      /\ offers'[o].lastActivityAt = offers[o].lastActivityAt
      /\ offers'[o].nudgedAt = (IF o \in ask THEN now ELSE offers[o].nudgedAt)
      /\ offers'[o].stale = (offers[o].stale \/ ToMarkStale(o))
  BY <1>2, <1>3 DEF Offer
<1>5. o \in ask <=> ToNudge(o) \/ ToRenudge(o)
  OBVIOUS
<1>6. /\ StaleAfter \in Nat /\ NudgeAfter \in Nat /\ AgainAfter \in Nat /\ Run \in Nat
      /\ now # None
  BY <1>3, Periods, JobTimes DEF Run, Day, Hour
<1> HIDE DEF G, ask
<1>7. CASE offers[o].open = now
  BY <1>3, <1>4, <1>6, <1>7 DEF NothingToDo
<1>8. CASE ~Visible(offers[o])
  BY <1>4, <1>8 DEF NothingToDo, Visible
<1>9. CASE offers[o].open # now /\ Visible(offers[o])
  <2>1. Candidate(o)
    BY <1>3, <1>9 DEF Candidate, Visible
  <2>2. CASE o \in ask
    BY <1>3, <1>4, <1>6, <2>2 DEF NothingToDo
  <2>3. CASE o \notin ask /\ offers[o].nudgedAt = None
    <3>1. ~ToMarkStale(o) /\ ~offers[o].stale
      BY <1>3, <2>3 DEF ToMarkStale, Since, RowOK, Unanswered
    <3>2. ~(offers[o].lastActivityAt <= now - NudgeAfter)
      BY <1>5, <2>1, <2>3 DEF ToNudge
    <3> QED
      BY <1>3, <1>4, <1>6, <2>3, <3>1, <3>2 DEF NothingToDo, Offer
  <2>4. CASE o \notin ask /\ offers[o].nudgedAt # None /\ offers[o].stale
    <3>1. ~(offers[o].nudgedAt <= now - AgainAfter)
      BY <1>5, <2>1, <2>4 DEF ToRenudge, Since
    <3>2. offers[o].nudgedAt \in Int
      BY <1>3, <2>4 DEF Offer
    <3>3. now <= offers[o].nudgedAt + AgainAfter
      BY <1>3, <1>6, <3>1, <3>2
    <3>4. offers'[o].stale /\ offers'[o].nudgedAt = offers[o].nudgedAt
      BY <1>4, <2>4
    <3> QED
      BY <2>4, <3>3, <3>4 DEF NothingToDo
  <2>5. CASE o \notin ask /\ offers[o].nudgedAt # None /\ ~offers[o].stale
    <3>1. offers[o].nudgedAt \in Int /\ offers[o].open \in Int /\ offers[o].stale \in BOOLEAN
      BY <1>3, <2>5 DEF Offer
    <3>2. CASE ~ToMarkStale(o)
      <4>1. ~(offers[o].nudgedAt <= now - StaleAfter)
        BY <2>1, <2>5, <3>2 DEF ToMarkStale, Since
      <4> QED
        BY <1>3, <1>4, <1>6, <2>5, <3>1, <3>2, <4>1 DEF NothingToDo
    <3>3. CASE ToMarkStale(o)
      <4>1. PICK last \in Start .. now :
              /\ due["offers.nudge"] <= last + Day + Hour
              /\ \A p \in Offers : NothingToDo(offers[p], last)
        BY DEF ClockInv, MorningInv
      <4>2. last \in Int /\ now <= last + Run
        BY <1>3, <4>1, JobTimes DEF ClockInv, JobsInTime, Run, Day, Hour, Start
      <4>3. last <= offers[o].nudgedAt + StaleAfter \/ last <= offers[o].open
        BY <1>9, <2>5, <4>1 DEF NothingToDo
      <4>4. now <= offers[o].nudgedAt + StaleAfter + Run \/ now <= offers[o].open + Run
        BY <1>3, <1>6, <3>1, <4>2, <4>3
      <4> QED
        BY <1>4, <2>5, <3>3, <4>4 DEF NothingToDo
    <3> QED
      BY <3>2, <3>3
  <2> QED
    BY <2>2, <2>3, <2>4, <2>5
<1> QED
  BY <1>7, <1>8, <1>9

LEMMA NudgeClock ==
    ASSUME IInv, ClockInv, Nudge PROVE ClockInv'
<1>1. /\ now' = now /\ snapshot' = None /\ offers' \in [Offers -> Offer]
      /\ due' = [due EXCEPT !["offers.nudge"] = NextDaily(now, At["offers.nudge"])]
  BY NudgeIInv DEF Nudge, Rescheduled, IInv
<1>2. /\ now \in Int /\ LocalDay(now) \in Int /\ Start \in Int /\ Start <= now
      /\ due \in [Jobs -> Int] /\ \A j \in Jobs : now <= due[j] + Late
  BY DayAndHour DEF IInv, Start, ClockInv, JobsInTime
<1>3. At["offers.nudge"] \in 0 .. 23
  BY JobTimes
<1> DEFINE next == NextDaily(now, At["offers.nudge"])
<1>4. next \in Int /\ now < next /\ next <= now + 25
  BY <1>2, <1>3, NextMorning
<1> HIDE DEF next
<1>5. /\ due'["offers.nudge"] = next
      /\ due'["offers.expire"] = due["offers.expire"]
      /\ due' \in [Jobs -> Int]
  BY <1>1, <1>2, <1>4, JobTimes DEF next
<1>6. JobsInTime'
  BY <1>1, <1>2, <1>4, <1>5, JobTimes DEF JobsInTime
<1>7. NightInv'
  <2>1. PICK day \in 0 .. LocalDay(now) + 1 :
          /\ due["offers.expire"] = ZonedToUtc(day * Day)
          /\ \A p \in Offers : DatedFrom(day, offers[p])
    BY DEF ClockInv, NightInv
  <2>2. LocalDay(now)' = LocalDay(now)
    BY <1>1 DEF LocalDay, Local, Offset
  <2>3. ASSUME NEW o \in Offers PROVE DatedFrom(day, offers'[o])
    <3>1. offers'[o].status = offers[o].status /\ offers'[o].until = offers[o].until
      BY DEF Nudge, IInv, Offer
    <3>2. DatedFrom(day, offers[o])
      BY <2>1
    <3> QED
      BY <3>1, <3>2 DEF DatedFrom
  <2> QED
    BY <1>5, <2>1, <2>2, <2>3 DEF NightInv
<1>8. MorningInv'
  <2>1. now \in Start .. now' /\ due'["offers.nudge"] <= now + Day + Hour
    BY <1>1, <1>2, <1>4, <1>5 DEF Day, Hour
  <2> QED
    BY <2>1, NothingLeftToDo DEF MorningInv
<1>9. SnapshotFits'
  BY <1>1 DEF SnapshotFits
<1> QED
  BY <1>6, <1>7, <1>8, <1>9 DEF ClockInv

LEMMA ClockStep ==
    ASSUME IInv, ClockInv, [Next]_vars PROVE ClockInv'
<1>1. CASE Tick
  <2>1. /\ now' = now + 1 /\ UNCHANGED <<due, offers, snapshot>> /\ snapshot = None
        /\ \A j \in Jobs : now < due[j] + Late
    BY <1>1 DEF Tick
  <2>2. now \in Int /\ \A j \in Jobs : due[j] + Late \in Int
    BY JobTimes DEF IInv, ClockInv, JobsInTime
  <2>3. now' \in Int /\ now <= now' /\ \A j \in Jobs : now' <= due[j] + Late
    BY <2>1, <2>2
  <2> QED
    BY <2>1, <2>3, HourPasses
<1>2. CASE UNCHANGED <<now, due, offers, snapshot, asked>>
  BY <1>2, HourPasses DEF IInv, ClockInv, JobsInTime
<1>3. CASE NudgeNext
  BY <1>1, <1>3, ExpireClock, NudgeStartsClock, NudgeClock, EditClock, StillAvailableClock,
     WithdrawClock, LeftClock DEF NudgeNext, Answers
<1> QED
  BY <1>2, <1>3, BotMoves, StillAvailableClock, WithdrawClock

\* However late the jobs run and whenever the clocks change: the nightly job is
\* due at a midnight that no dated offer on the board has left behind, and the
\* daily one has left nothing undone that it saw (jobs/schedule.ts 96-133,
\* domain/offers/service.ts 472-575).
THEOREM ClockInvariance == Spec => [](IInv /\ ClockInv)
<1>1. Init => IInv /\ ClockInv
  BY NudgeInitIInv, InitClock DEF Init
<1>2. IInv /\ ClockInv /\ [Next]_vars => (IInv /\ ClockInv)'
  BY BotStep, ClockStep
<1> QED
  BY <1>1, <1>2, PTL DEF Spec

\* An offer past its date leaves the board within Late hours of the farm's next
\* midnight (jobs/schedule.ts 96-133, domain/offers/service.ts 472-507).
THEOREM PastDatesLeave == Spec => []PastDateLeavesBoard
<1>1. IInv /\ ClockInv => PastDateLeavesBoard
  <2> SUFFICES ASSUME IInv, ClockInv, NEW o \in Offers, offers[o].status = "active",
                      offers[o].until # None
               PROVE  now <= ZonedToUtc((offers[o].until + 1) * Day) + Late
    BY DEF PastDateLeavesBoard, Past
  <2>1. PICK day \in 0 .. LocalDay(now) + 1 :
          /\ due["offers.expire"] = ZonedToUtc(day * Day)
          /\ \A p \in Offers : DatedFrom(day, offers[p])
    BY DEF ClockInv, NightInv
  <2> DEFINE next == offers[o].until + 1
  <2>2. offers[o].until \in Int
    BY JobTimes DEF IInv, Offer
  <2>3. next \in Int /\ day \in Int /\ day <= next
    BY <2>1, <2>2 DEF DatedFrom
  <2> HIDE DEF next
  <2>4. /\ ZonedToUtc(day * Day) <= ZonedToUtc(next * Day)
        /\ ZonedToUtc(day * Day) \in Int /\ ZonedToUtc(next * Day) \in Int
    BY <2>3, DaysInOrder, DayStarts
  <2>5. now \in Int /\ now <= ZonedToUtc(day * Day) + Late
    BY <2>1, JobTimes DEF IInv, ClockInv, JobsInTime
  <2>6. now <= ZonedToUtc(next * Day) + Late
    BY <2>4, <2>5, JobTimes
  <2> QED
    BY <2>6 DEF next
<1> QED
  BY <1>1, ClockInvariance, PTL

\* Every offer that the job may see is asked about, badged and asked about again
\* a day and the delay of a run after its period at most (domain/offers/service.ts
\* 509-575, jobs/schedule.ts 96-133).
THEOREM QuestionsInTime == Spec => []AskedInTime
<1>1. IInv /\ ClockInv => AskedInTime
  <2> SUFFICES ASSUME IInv, ClockInv, NEW o \in Offers, Visible(offers[o])
               PROVE  LET offer == offers[o]
                          waits(times) == \E t \in times : now <= t + Run
                      IN IF offer.nudgedAt = None
                           THEN waits({offer.lastActivityAt + NudgeAfter, offer.open})
                         ELSE IF ~offer.stale
                           THEN waits({offer.nudgedAt + StaleAfter, offer.open})
                         ELSE waits({offer.nudgedAt + AgainAfter,
                                     offer.nudgedAt + StaleAfter + Run, offer.open + Run})
    BY DEF AskedInTime
  <2>1. PICK last \in Start .. now :
          /\ due["offers.nudge"] <= last + Day + Hour
          /\ NothingToDo(offers[o], last)
    BY DEF ClockInv, MorningInv
  <2>2. now \in Int /\ last \in Int /\ now <= last + Run /\ Run \in Int
    BY <2>1, JobTimes DEF IInv, ClockInv, JobsInTime, Run, Day, Hour, Start
  <2>3. /\ offers[o].lastActivityAt \in Int /\ offers[o].open \in Int
        /\ offers[o].nudgedAt # None => offers[o].nudgedAt \in Int
    BY DEF IInv, Offer
  <2>4. ASSUME NEW t \in Int, last <= t PROVE now <= t + Run
    BY <2>2, <2>4
  <2>5. CASE offers[o].nudgedAt = None
    BY <2>1, <2>3, <2>4, <2>5, Periods DEF NothingToDo
  <2>6. CASE offers[o].nudgedAt # None /\ ~offers[o].stale
    BY <2>1, <2>3, <2>4, <2>6, Periods DEF NothingToDo
  <2>7. CASE offers[o].nudgedAt # None /\ offers[o].stale
    BY <2>1, <2>2, <2>3, <2>4, <2>7, Periods DEF NothingToDo
  <2> QED
    BY <2>5, <2>6, <2>7
<1> QED
  BY <1>1, ClockInvariance, PTL

-----------------------------------------------------------------------------
\* The bot's cards.

\* The moves of either kind as a relation, and where they lead.
MovesTo(k, x, y) ==
    IF k = "applicant"
      THEN \/ x = "pending" /\ y \in {"approved", "rejected"}
           \/ x = "rejected" /\ y = "approved"
           \/ x = "approved" /\ y = "suspended"
           \/ x = "suspended" /\ y = "approved"
      ELSE \/ x = "pending" /\ y \in {"confirmed", "rejected", "cancelled", "expired"}
           \/ x = "confirmed" /\ y \in {"delivered", "cancelled"}

ComesTo(k, x, y) ==
    \/ x = y
    \/ IF k = "applicant"
         THEN \/ x = "pending" /\ y \in {"approved", "rejected", "suspended"}
              \/ x \in {"rejected", "approved", "suspended"} /\ y \in {"approved", "suspended"}
         ELSE \/ x = "pending"
                   /\ y \in {"confirmed", "rejected", "cancelled", "expired", "delivered"}
              \/ x = "confirmed" /\ y \in {"delivered", "cancelled"}

LEMMA MovesAre ==
    ASSUME NEW k \in {"applicant", "reservation"}
    PROVE  /\ \A x, y : <<x, y>> \in Moves[k] <=> MovesTo(k, x, y)
           /\ \A m \in Moves[k] : m = <<m[1], m[2]>>
<1>1. CASE k = "applicant"
  <2>1. Moves[k] = {<<"pending", "approved">>, <<"pending", "rejected">>,
                    <<"rejected", "approved">>, <<"approved", "suspended">>,
                    <<"suspended", "approved">>}
    BY <1>1 DEF Moves
  <2> QED
    BY <1>1, <2>1 DEF MovesTo
<1>2. CASE k = "reservation"
  <2>1. Moves[k] = {<<"pending", "confirmed">>, <<"pending", "rejected">>,
                    <<"pending", "cancelled">>, <<"pending", "expired">>,
                    <<"confirmed", "delivered">>, <<"confirmed", "cancelled">>}
    BY <1>2 DEF Moves
  <2> QED
    BY <1>2, <2>1 DEF MovesTo
<1> QED
  BY <1>1, <1>2

LEMMA LeadsIs ==
    ASSUME NEW k \in {"applicant", "reservation"}, NEW a, NEW b
    PROVE  Leads(k, a, b) <=> ComesTo(k, a, b)
<1> DEFINE step(S) == S \cup {m[2] : m \in {n \in Moves[k] : n[1] \in S}}
<1>1. ASSUME NEW x, NEW S
      PROVE  x \in step(S) <=> x \in S \/ \E y \in S : MovesTo(k, y, x)
  <2>1. ASSUME x \in step(S), x \notin S PROVE \E y \in S : MovesTo(k, y, x)
    <3>1. PICK m \in Moves[k] : m[1] \in S /\ x = m[2]
      BY <2>1
    <3>2. m = <<m[1], m[2]>>
      BY MovesAre
    <3> QED
      BY <3>1, <3>2, MovesAre
  <2>2. ASSUME NEW y \in S, MovesTo(k, y, x) PROVE x \in step(S)
    <3>1. <<y, x>> \in Moves[k] /\ <<y, x>>[1] = y /\ <<y, x>>[2] = x
      BY <2>2, MovesAre
    <3> QED
      BY <3>1
  <2> QED
    BY <2>1, <2>2
<1>2. Leads(k, a, b) <=> b \in step(step(step({a})))
  BY DEF Leads
<1> HIDE DEF step
<1>3. \A x : x \in step({a}) <=> x = a \/ MovesTo(k, a, x)
  BY <1>1
<1>4. \A x : x \in step(step({a})) <=>
             x \in step({a}) \/ \E y : y \in step({a}) /\ MovesTo(k, y, x)
  BY <1>1
<1>5. b \in step(step(step({a}))) <=>
        b \in step(step({a})) \/ \E y : y \in step(step({a})) /\ MovesTo(k, y, b)
  BY <1>1
<1>6. \A x : x \in step(step({a})) <=>
             \/ x = a \/ MovesTo(k, a, x)
             \/ \E y : MovesTo(k, a, y) /\ MovesTo(k, y, x)
  BY <1>3, <1>4
<1>7. Leads(k, a, b) <=>
        \/ a = b \/ MovesTo(k, a, b)
        \/ \E y : MovesTo(k, a, y) /\ MovesTo(k, y, b)
        \/ \E y, z : MovesTo(k, a, z) /\ MovesTo(k, z, y) /\ MovesTo(k, y, b)
  BY <1>2, <1>5, <1>6
<1>8. CASE k = "applicant"
  <2>1. ASSUME a = "pending", b = "suspended"
        PROVE  MovesTo(k, a, "approved") /\ MovesTo(k, "approved", b)
    BY <1>8, <2>1 DEF MovesTo
  <2>2. ASSUME a = "rejected", b = "suspended"
        PROVE  MovesTo(k, a, "approved") /\ MovesTo(k, "approved", b)
    BY <1>8, <2>2 DEF MovesTo
  <2>3. ASSUME a \in {"approved", "suspended"}, b \in {"approved", "suspended"}
        PROVE  a = b \/ MovesTo(k, a, b)
    BY <1>8, <2>3 DEF MovesTo
  <2>4. ComesTo(k, a, b) => Leads(k, a, b)
    BY <1>7, <1>8, <2>1, <2>2, <2>3 DEF ComesTo, MovesTo
  <2>5. Leads(k, a, b) => ComesTo(k, a, b)
    BY <1>7, <1>8 DEF ComesTo, MovesTo
  <2> QED
    BY <2>4, <2>5
<1>9. CASE k = "reservation"
  <2>1. ASSUME a = "pending", b = "delivered"
        PROVE  MovesTo(k, a, "confirmed") /\ MovesTo(k, "confirmed", b)
    BY <1>9, <2>1 DEF MovesTo
  <2>4. ComesTo(k, a, b) => Leads(k, a, b)
    BY <1>7, <1>9, <2>1 DEF ComesTo, MovesTo
  <2>5. Leads(k, a, b) => ComesTo(k, a, b)
    BY <1>7, <1>9 DEF ComesTo, MovesTo
  <2> QED
    BY <2>4, <2>5
<1> QED
  BY <1>8, <1>9

\* What has led to a status leads on to the next: no way through the statuses is
\* longer than the three steps that Leads looks.
LEMMA LeadsOn ==
    ASSUME NEW k \in {"applicant", "reservation"}, NEW a, NEW b, NEW c,
           Leads(k, a, b), <<b, c>> \in Moves[k]
    PROVE  Leads(k, a, c) /\ c # "pending"
<1>1. ComesTo(k, a, b) /\ MovesTo(k, b, c)
  BY LeadsIs, MovesAre
<1>2. ComesTo(k, a, c) /\ c # "pending"
  BY <1>1 DEF ComesTo, MovesTo
<1> QED
  BY <1>2, LeadsIs

LEMMA Kinds ==
    /\ \A e \in Applicants : KindOf(e) = "applicant" /\ e \notin Rsvs /\ e \notin Offers
    /\ \A e \in Rsvs : KindOf(e) = "reservation" /\ e \notin Applicants /\ e \notin Offers
    /\ \A e \in Offers : KindOf(e) = "offer" /\ e \notin Subjects
    /\ Subjects = Applicants \cup Rsvs
BY BotAssumption DEF KindOf, Subjects

\* A subject that moves takes what is known of it along.
LEMMA TruthMoves ==
    ASSUME CardInv, NEW e \in Subjects, NEW to, KindOf(e) = kind,
           <<status[e], to>> \in Moves[kind],
           status' = [status EXCEPT ![e] = to], kind' = kind
    PROVE  /\ \A f \in Subjects \cup Offers : \A is : Truthful(f, is) => Truthful(f, is)'
           /\ \A t : Knows(t) => Knows(t)'
<1>1. kind \in {"applicant", "reservation"}
  BY Kinds
<1>2. \A f \in Subjects : status'[f] = IF f = e THEN to ELSE status[f]
  BY DEF CardInv, BotTypeOK
<1>3. ASSUME NEW f \in Subjects, NEW is, Leads(kind, is, status[f])
      PROVE  Leads(kind', is, status'[f])
  BY <1>1, <1>2, <1>3, LeadsOn
<1>4. to # "pending"
  BY <1>1, MovesAre DEF MovesTo
<1>5. ASSUME NEW f \in Subjects \cup Offers, NEW is, Truthful(f, is)
      PROVE  Truthful(f, is)'
  BY <1>3, <1>5 DEF Truthful
<1>6. ASSUME NEW t, Knows(t) PROVE Knows(t)'
  <2> DEFINE f == t.card[1]
  <2>1. /\ t.stage \in Stages
        /\ t.stage \in Running \/ t.card # None =>
             f \in Subjects \cup Offers /\ KindOf(f) = kind /\ t.action \in ActionsOf[kind]
        /\ t.stage = "acting" /\ f \in Applicants => Leads(kind, t.found, status[f])
        /\ t.stage = "looking" => f \notin Applicants /\ (f \in Rsvs => status[f] # "pending")
        /\ t.stage = "saying" => Truthful(f, t.text.is)
    BY <1>6 DEF Knows
  <2> HIDE DEF f
  <2>2. t.stage = "acting" /\ f \in Applicants => Leads(kind', t.found, status'[f])
    BY <1>3, <2>1, Kinds
  <2>3. t.stage = "looking" => f \notin Applicants /\ (f \in Rsvs => status'[f] # "pending")
    BY <1>2, <1>4, <2>1, Kinds
  <2>4. t.stage = "saying" => Truthful(f, t.text.is)'
    BY <1>5, <2>1 DEF Running
  <2> QED
    BY <2>1, <2>2, <2>3, <2>4 DEF Knows, f
<1> QED
  BY <1>5, <1>6

\* One handler goes on, and no subject moves.
LEMMA HandlerGoesOn ==
    ASSUME CardInv, NEW h \in Handlers, NEW t, Knows(t),
           t = [stage |-> t.stage, card |-> t.card, action |-> t.action,
                found |-> t.found, text |-> t.text],
           handlers' = [handlers EXCEPT ![h] = t],
           UNCHANGED <<asked, kind, status, says>>
    PROVE  CardInv'
<1>1. \A g \in Handlers : handlers'[g] = IF g = h THEN t ELSE handlers[g]
  BY DEF CardInv, BotTypeOK
<1>2. BotTypeOK'
  BY <1>1 DEF CardInv, BotTypeOK
<1>3. \A u : Knows(u) => Knows(u)'
  BY DEF Knows, Truthful
<1>4. \A g \in Handlers : Knows(handlers[g])'
  <2> TAKE g \in Handlers
  <2>1. Knows(handlers'[g])
    BY <1>1 DEF CardInv
  <2>2. Knows(handlers[g])' <=> Knows(handlers'[g])
    BY DEF Knows, Truthful
  <2> QED
    BY <2>1, <2>2
<1>5. \A s \in says' : s[1][1] \in Subjects \cup Offers /\ Truthful(s[1][1], s[2].is)'
  BY DEF CardInv, Truthful
<1> QED
  BY <1>2, <1>4, <1>5 DEF CardInv

LEMMA InitCards == Init => CardInv
<1> SUFFICES ASSUME Init PROVE CardInv
  OBVIOUS
<1>1. /\ asked = {} /\ kind \in {"applicant", "reservation", "offer"} /\ says = {}
      /\ status = [e \in Applicants \cup Rsvs |-> "pending"]
      /\ handlers = [h \in Handlers |-> Nobody]
  BY DEF Init, NudgeInit
<1>2. BotTypeOK
  BY <1>1, Kinds DEF BotTypeOK, Nobody
<1>3. Nobody.stage = "none" /\ Nobody.card = None
  BY DEF Nobody
<1>4. Knows(Nobody)
  BY <1>3 DEF Knows, Stages, Running
<1> QED
  BY <1>1, <1>2, <1>4 DEF CardInv

LEMMA BeginsCards ==
    ASSUME CardInv, NEW h \in Handlers, NEW c, NEW a,
           c[1] \in Subjects \cup Offers, KindOf(c[1]) = kind, a \in ActionsOf[kind],
           Begins(h, c, a)
    PROVE  CardInv'
<1> DEFINE t == [stage |-> "acting", card |-> c, action |-> a,
                 found |-> IF c[1] \in Applicants THEN status[c[1]] ELSE None, text |-> None]
<1>1. handlers' = [handlers EXCEPT ![h] = t] /\ UNCHANGED <<asked, kind, status, says>>
  BY DEF Begins
<1>2. /\ t.stage = "acting" /\ t.card = c /\ t.action = a
      /\ c[1] \in Applicants => t.found = status[c[1]]
      /\ t = [stage |-> t.stage, card |-> t.card, action |-> t.action,
              found |-> t.found, text |-> t.text]
  OBVIOUS
<1> HIDE DEF t
<1>3. c[1] \in Applicants => Leads(kind, status[c[1]], status[c[1]])
  BY Kinds, LeadsIs DEF ComesTo
<1>4. Knows(t)
  BY <1>2, <1>3 DEF Knows, Stages, Running
<1> QED
  BY <1>1, <1>2, <1>4, HandlerGoesOn

\* What a handler is after it has gone on.
LEMMA GoesTo ==
    ASSUME CardInv, NEW h \in Handlers, NEW stage, NEW text, Goes(h, stage, text)
    PROVE  \E t : /\ handlers' = [handlers EXCEPT ![h] = t]
                  /\ t.stage = stage /\ t.card = handlers[h].card
                  /\ t.action = handlers[h].action /\ t.text = text
                  /\ t = [stage |-> t.stage, card |-> t.card, action |-> t.action,
                          found |-> t.found, text |-> t.text]
<1>1. PICK s, c, a, f, x :
        handlers[h] = [stage |-> s, card |-> c, action |-> a, found |-> f, text |-> x]
  BY DEF CardInv, BotTypeOK
<1> DEFINE t == [stage |-> stage, card |-> c, action |-> a, found |-> f, text |-> text]
<1>2. [[handlers[h] EXCEPT !.stage = stage] EXCEPT !.text = text] = t
  <2>1. [[stage |-> s, card |-> c, action |-> a, found |-> f, text |-> x]
           EXCEPT !.stage = stage]
          = [stage |-> stage, card |-> c, action |-> a, found |-> f, text |-> x]
    OBVIOUS
  <2>2. [[stage |-> stage, card |-> c, action |-> a, found |-> f, text |-> x]
           EXCEPT !.text = text] = t
    OBVIOUS
  <2> HIDE DEF t
  <2> QED
    BY <1>1, <2>1, <2>2
<1>3. handlers' = [handlers EXCEPT ![h] = t]
  BY <1>2 DEF Goes, CardInv, BotTypeOK
<1>4. /\ t.stage = stage /\ t.card = handlers[h].card
      /\ t.action = handlers[h].action /\ t.text = text
      /\ t = [stage |-> t.stage, card |-> t.card, action |-> t.action,
              found |-> t.found, text |-> t.text]
  BY <1>1
<1> HIDE DEF t
<1> QED
  BY <1>3, <1>4

\* A handler says what its transaction did.
LEMMA SaysWhatItDid ==
    ASSUME CardInv, NEW h \in Handlers, NEW e \in Subjects, NEW to, NEW t,
           KindOf(e) = kind, <<status[e], to>> \in Moves[kind],
           status' = [status EXCEPT ![e] = to], UNCHANGED <<asked, kind, says>>,
           handlers' = [handlers EXCEPT ![h] = t],
           t.stage = "saying", t.card[1] = e, t.action \in ActionsOf[kind], t.text.is = to,
           t = [stage |-> t.stage, card |-> t.card, action |-> t.action,
                found |-> t.found, text |-> t.text]
    PROVE  CardInv'
<1>1. /\ \A f \in Subjects \cup Offers : \A is : Truthful(f, is) => Truthful(f, is)'
      /\ \A u : Knows(u) => Knows(u)'
  BY TruthMoves
<1>2. Knows(t)'
  <2>1. status'[e] = to
    BY DEF CardInv, BotTypeOK
  <2>2. Leads(kind, to, to) /\ to # "pending"
    BY Kinds, LeadsIs, MovesAre DEF ComesTo, MovesTo
  <2>3. Truthful(e, to)'
    BY <2>1, <2>2 DEF Truthful
  <2> QED
    BY <2>3 DEF Knows, Stages, Running
<1>3. \A g \in Handlers : handlers'[g] = IF g = h THEN t ELSE handlers[g]
  BY DEF CardInv, BotTypeOK
<1>4. BotTypeOK'
  <2>1. status' = [f \in Subjects |-> status'[f]]
    BY DEF CardInv, BotTypeOK
  <2>2. handlers' = [g \in Handlers |-> handlers'[g]]
    BY DEF CardInv, BotTypeOK
  <2>3. asked' \subseteq Offers \X Int /\ kind' \in {"applicant", "reservation", "offer"}
    BY DEF CardInv, BotTypeOK
  <2>4. \A g \in Handlers :
          handlers'[g] = [stage |-> handlers'[g].stage, card |-> handlers'[g].card,
                          action |-> handlers'[g].action, found |-> handlers'[g].found,
                          text |-> handlers'[g].text]
    BY <1>3 DEF CardInv, BotTypeOK
  <2> QED
    BY <2>1, <2>2, <2>3, <2>4 DEF BotTypeOK
<1>5. \A g \in Handlers : Knows(handlers[g])'
  <2>1. ASSUME NEW g \in Handlers, NEW u, handlers'[g] = u, Knows(u)'
        PROVE  Knows(handlers[g])'
    BY <2>1 DEF Knows, Truthful
  <2> TAKE g \in Handlers
  <2>2. CASE g = h
    BY <1>2, <1>3, <2>1, <2>2
  <2>3. CASE g # h
    <3>1. PICK u : u = handlers[g]
      OBVIOUS
    <3>2. handlers'[g] = u /\ Knows(u)
      BY <1>3, <2>3, <3>1 DEF CardInv
    <3> QED
      BY <1>1, <2>1, <3>2
  <2> QED
    BY <2>2, <2>3
<1>6. \A s \in says' : s[1][1] \in Subjects \cup Offers /\ Truthful(s[1][1], s[2].is)'
  BY <1>1 DEF CardInv
<1> QED
  BY <1>4, <1>5, <1>6 DEF CardInv

\* What the transaction of a tap did is what it says, and what a refusal finds
\* is no longer pending.
LEMMA ActCards ==
    ASSUME CardInv, NEW h \in Handlers, Act(h) PROVE CardInv'
<1> DEFINE e == handlers[h].card[1]
           to == Becomes[handlers[h].action]
<1>1. /\ handlers[h].stage = "acting" /\ e \notin Offers
      /\ UNCHANGED <<kind, says, asked>>
  BY DEF Act, Untouched, nudgeVars
<1>2. /\ e \in Subjects /\ KindOf(e) = kind /\ handlers[h].action \in ActionsOf[kind]
      /\ e \in Applicants => Leads(kind, handlers[h].found, status[e])
      /\ kind \in {"applicant", "reservation"}
  BY <1>1, Kinds DEF CardInv, Knows, Running
<1>3. CASE <<status[e], to>> \in Moves[kind] /\ status' = [status EXCEPT ![e] = to]
           /\ Goes(h, "saying", [did |-> TRUE, is |-> to])
  <2> DEFINE text == [did |-> TRUE, is |-> to]
  <2>1. text.is = to /\ Goes(h, "saying", text)
    BY <1>3
  <2> HIDE DEF text, to
  <2>2. PICK t : /\ handlers' = [handlers EXCEPT ![h] = t]
                 /\ t.stage = "saying" /\ t.card = handlers[h].card
                 /\ t.action = handlers[h].action /\ t.text = text
                 /\ t = [stage |-> t.stage, card |-> t.card, action |-> t.action,
                         found |-> t.found, text |-> t.text]
    BY <2>1, GoesTo
  <2>3. t.card[1] = e /\ t.text.is = to /\ t.action \in ActionsOf[kind]
    BY <1>2, <2>1, <2>2
  <2> HIDE DEF e
  <2> QED
    BY <1>1, <1>2, <1>3, <2>2, <2>3, SaysWhatItDid
<1>4. CASE status' = status /\ e \in Applicants
           /\ Goes(h, "saying", [did |-> FALSE, is |-> handlers[h].found])
  <2> DEFINE text == [did |-> FALSE, is |-> handlers[h].found]
  <2>1. text.is = handlers[h].found /\ Goes(h, "saying", text)
    BY <1>4
  <2> HIDE DEF text
  <2>2. PICK t : /\ handlers' = [handlers EXCEPT ![h] = t]
                 /\ t.stage = "saying" /\ t.card = handlers[h].card
                 /\ t.action = handlers[h].action /\ t.text = text
                 /\ t = [stage |-> t.stage, card |-> t.card, action |-> t.action,
                         found |-> t.found, text |-> t.text]
    BY <2>1, GoesTo
  <2>3. Knows(t)
    BY <1>1, <1>2, <1>4, <2>1, <2>2, Kinds DEF Knows, Stages, Running, Truthful
  <2> QED
    BY <1>1, <1>4, <2>2, <2>3, HandlerGoesOn
<1>5. CASE /\ status' = status /\ e \notin Applicants /\ Goes(h, "looking", None)
           /\ ~(<<status[e], to>> \in Moves[kind]
                   /\ (handlers[h].action = "approve" => status[e] \in {"pending", "rejected"}))
  <2>2. PICK t : /\ handlers' = [handlers EXCEPT ![h] = t]
                 /\ t.stage = "looking" /\ t.card = handlers[h].card
                 /\ t.action = handlers[h].action
                 /\ t = [stage |-> t.stage, card |-> t.card, action |-> t.action,
                         found |-> t.found, text |-> t.text]
    BY <1>5, GoesTo
  <2>3. e \in Rsvs /\ kind = "reservation"
    BY <1>2, <1>5, Kinds
  <2>4. handlers[h].action \in {"confirm", "refuse"} /\ to \in {"confirmed", "rejected"}
    BY <1>2, <2>3 DEF ActionsOf, Becomes
  <2>5. status[e] # "pending"
    BY <1>2, <1>5, <2>3, <2>4, MovesAre DEF MovesTo
  <2>6. Knows(t)
    BY <1>2, <1>5, <2>2, <2>5 DEF Knows, Stages, Running
  <2> QED
    BY <1>1, <1>5, <2>2, <2>6, HandlerGoesOn
<1> QED
  BY <1>3, <1>4, <1>5 DEF Act

\* A handler goes on to a stage that asks nothing more of what it knows.
LEMMA StageCards ==
    ASSUME CardInv, NEW h \in Handlers, NEW stage \in Stages, NEW text, Goes(h, stage, text),
           UNCHANGED <<asked, kind, status, says>>,
           handlers[h].stage \in Running, stage # "acting",
           LET e == handlers[h].card[1] IN
             /\ stage = "looking" => e \notin Applicants /\ (e \in Rsvs => status[e] # "pending")
             /\ stage = "saying" => Truthful(e, text.is)
    PROVE  CardInv'
<1>1. PICK t : /\ handlers' = [handlers EXCEPT ![h] = t]
               /\ t.stage = stage /\ t.card = handlers[h].card
               /\ t.action = handlers[h].action /\ t.text = text
               /\ t = [stage |-> t.stage, card |-> t.card, action |-> t.action,
                       found |-> t.found, text |-> t.text]
  BY GoesTo
<1>2. Knows(handlers[h])
  BY DEF CardInv
<1>3. Knows(t)
  BY <1>1, <1>2 DEF Knows
<1> QED
  BY <1>1, <1>3, HandlerGoesOn

LEMMA ActOnOfferCards ==
    ASSUME CardInv, NEW h \in Handlers, ActOnOffer(h) PROVE CardInv'
<1> DEFINE o == handlers[h].card[1]
           to == Becomes[handlers[h].action]
<1>1. /\ handlers[h].stage = "acting" /\ o \in Offers /\ UNCHANGED <<kind, status, says>>
      /\ o \notin Rsvs /\ o \notin Applicants
  BY Kinds DEF ActOnOffer
<1>2. asked' = asked
  BY DEF ActOnOffer, StillAvailable, Withdraw, Untouched, nudgeVars
<1>3. Goes(h, "looking", None) \/ \E text : Goes(h, "saying", text)
  BY DEF ActOnOffer
<1>4. \A is : Truthful(o, is)
  BY <1>1 DEF Truthful
<1> HIDE DEF o
<1>5. CASE Goes(h, "looking", None)
  BY <1>1, <1>2, <1>5, StageCards DEF Stages, Running, o
<1>6. ASSUME NEW text, Goes(h, "saying", text) PROVE CardInv'
  BY <1>1, <1>2, <1>4, <1>6, StageCards DEF Stages, Running, o
<1> QED
  BY <1>3, <1>5, <1>6

LEMMA LookCards ==
    ASSUME CardInv, NEW h \in Handlers, Look(h) PROVE CardInv'
<1> DEFINE e == handlers[h].card[1]
           text == [did |-> FALSE, is |-> StatusOf(e)]
<1>1. /\ handlers[h].stage = "looking" /\ Goes(h, "saying", text)
      /\ UNCHANGED <<asked, kind, status, says>>
  BY DEF Look, Explains, Untouched, nudgeVars
<1>2. text.is = StatusOf(e)
  OBVIOUS
<1>3. /\ e \in Subjects \cup Offers /\ KindOf(e) = kind /\ e \notin Applicants
      /\ e \in Rsvs => status[e] # "pending"
  BY <1>1 DEF CardInv, Knows, Running
<1>4. Truthful(e, StatusOf(e))
  <2>1. CASE e \in Offers
    BY <2>1 DEF Truthful
  <2>2. CASE e \notin Offers
    <3>1. e \in Rsvs /\ kind = "reservation" /\ StatusOf(e) = status[e]
      BY <1>3, <2>2, Kinds DEF StatusOf
    <3>2. Leads(kind, status[e], status[e])
      BY <3>1, LeadsIs DEF ComesTo
    <3> QED
      BY <1>3, <3>1, <3>2 DEF Truthful
  <2> QED
    BY <2>1, <2>2
<1> HIDE DEF text
<1> QED
  BY <1>1, <1>2, <1>4, StageCards DEF Stages, Running

LEMMA LookFailsCards ==
    ASSUME CardInv, NEW h \in Handlers, LookFails(h) PROVE CardInv'
<1> DEFINE text == [did |-> FALSE, is |-> NotFound]
<1>1. /\ handlers[h].stage = "looking" /\ Goes(h, "saying", text)
      /\ UNCHANGED <<asked, kind, status, says>>
  BY DEF LookFails, Explains, Untouched, nudgeVars
<1>2. Truthful(handlers[h].card[1], text.is)
  BY DEF Truthful
<1> HIDE DEF text
<1> QED
  BY <1>1, <1>2, StageCards DEF Stages, Running

\* Whichever of two handlers writes a card last, what it writes is true.
LEMMA SayCards ==
    ASSUME CardInv, NEW h \in Handlers, Say(h) PROVE CardInv'
<1> DEFINE c == handlers[h].card
           said == {s \in says : s[1] # c} \cup {<<c, handlers[h].text>>}
<1>1. /\ handlers[h].stage = "saying" /\ Goes(h, "done", None) /\ says' = said
      /\ UNCHANGED <<asked, kind, status>>
  BY DEF Say, Untouched, nudgeVars
<1>2. PICK t : /\ handlers' = [handlers EXCEPT ![h] = t]
               /\ t.stage = "done" /\ t.card = handlers[h].card
               /\ t.action = handlers[h].action
               /\ t = [stage |-> t.stage, card |-> t.card, action |-> t.action,
                       found |-> t.found, text |-> t.text]
  BY <1>1, GoesTo
<1>3. Knows(handlers[h]) /\ c[1] \in Subjects \cup Offers /\ Truthful(c[1], handlers[h].text.is)
  BY <1>1 DEF CardInv, Knows, Running
<1>4. Knows(t)
  BY <1>2, <1>3 DEF Knows, Stages, Running
<1>5. \A g \in Handlers : handlers'[g] = IF g = h THEN t ELSE handlers[g]
  BY <1>2 DEF CardInv, BotTypeOK
<1>6. BotTypeOK'
  BY <1>1, <1>2, <1>5 DEF CardInv, BotTypeOK
<1>7. ASSUME NEW u, Knows(u), NEW g \in Handlers, handlers'[g] = u PROVE Knows(handlers[g])'
  BY <1>1, <1>7 DEF Knows, Truthful
<1>8. \A g \in Handlers : Knows(handlers[g])'
  BY <1>4, <1>5, <1>7 DEF CardInv
<1>9. \A s \in said : s[1][1] \in Subjects \cup Offers /\ Truthful(s[1][1], s[2].is)
  <2> TAKE s \in said
  <2>1. CASE s \in says
    BY <2>1 DEF CardInv
  <2>2. CASE s = <<c, handlers[h].text>>
    <3>1. s[1] = c /\ s[2] = handlers[h].text
      BY <2>2
    <3> QED
      BY <1>3, <3>1
  <2> QED
    BY <2>1, <2>2
<1> HIDE DEF said
<1>10. \A s \in says' : s[1][1] \in Subjects \cup Offers /\ Truthful(s[1][1], s[2].is)'
  BY <1>1, <1>9 DEF Truthful
<1> QED
  BY <1>6, <1>8, <1>10 DEF CardInv

LEMMA GiveUpCards ==
    ASSUME CardInv, NEW h \in Handlers, GiveUp(h) PROVE CardInv'
<1>1. /\ handlers[h].stage \in Running /\ Goes(h, "done", None)
      /\ UNCHANGED <<asked, kind, status, says>>
  BY DEF GiveUp, Untouched, nudgeVars
<1> QED
  BY <1>1, StageCards DEF Stages, Running

LEMMA OthersActCards ==
    ASSUME CardInv, NEW e \in Applicants \cup Rsvs, OthersAct(e) PROVE CardInv'
<1>1. PICK to : /\ <<status[e], to>> \in Moves[kind]
                /\ status' = [status EXCEPT ![e] = to]
  BY DEF OthersAct
<1>2. KindOf(e) = kind /\ UNCHANGED <<asked, kind, says, handlers>> /\ e \in Subjects
  BY Kinds DEF OthersAct
<1>3. /\ \A f \in Subjects \cup Offers : \A is : Truthful(f, is) => Truthful(f, is)'
      /\ \A u : Knows(u) => Knows(u)'
  BY <1>1, <1>2, TruthMoves
<1>4. BotTypeOK'
  BY <1>1, <1>2 DEF CardInv, BotTypeOK
<1>5. \A h \in Handlers : Knows(handlers[h])'
  <2> TAKE h \in Handlers
  <2>1. PICK u : u = handlers[h]
    OBVIOUS
  <2>2. handlers'[h] = u /\ Knows(u)
    BY <1>2, <2>1 DEF CardInv
  <2>3. Knows(u)'
    BY <1>3, <2>2
  <2> QED
    BY <2>2, <2>3 DEF Knows, Truthful
<1>6. \A s \in says' : s[1][1] \in Subjects \cup Offers /\ Truthful(s[1][1], s[2].is)'
  BY <1>2, <1>3 DEF CardInv
<1> QED
  BY <1>4, <1>5, <1>6 DEF CardInv

\* Time and the offers go on: the questions are of offers, and an hour later no
\* handler is at work.
LEMMA OffersMoveCards ==
    ASSUME IInv, CardInv, OffersMove PROVE CardInv'
<1>1. UNCHANGED <<kind, status, says>> /\ NudgeNext
  BY DEF OffersMove
<1>2. asked' \subseteq Offers \X Int
  <2>1. now \in Int /\ asked \subseteq Offers \X Int
    BY DEF IInv, CardInv, BotTypeOK
  <2>2. CASE Nudge
    BY <2>1, <2>2 DEF Nudge
  <2>3. CASE asked' = asked
    BY <2>1, <2>3
  <2> QED
    BY <1>1, <2>2, <2>3 DEF NudgeNext, Tick, Expire, NudgeStarts, Answers, Edit,
       StillAvailable, Withdraw, Left
<1>3. ASSUME NEW u, Knows(u), NEW h \in Handlers, handlers'[h] = u PROVE Knows(handlers[h])'
  BY <1>1, <1>3 DEF Knows, Truthful
<1>4. \A s \in says' : s[1][1] \in Subjects \cup Offers /\ Truthful(s[1][1], s[2].is)'
  BY <1>1 DEF CardInv, Truthful
<1>5. CASE handlers' = handlers
  BY <1>1, <1>2, <1>3, <1>4, <1>5 DEF CardInv, BotTypeOK
<1>6. CASE /\ \A h \in Handlers : handlers[h].stage \notin Running
           /\ handlers' = [h \in Handlers |-> [Nobody EXCEPT !.stage = handlers[h].stage]]
  <2>1. ASSUME NEW h \in Handlers
        PROVE  \E u : /\ handlers'[h] = u /\ Knows(u)
                      /\ u = [stage |-> u.stage, card |-> u.card, action |-> u.action,
                              found |-> u.found, text |-> u.text]
    <3>1. PICK stage \in {"none", "done"} : stage = handlers[h].stage
      BY <1>6 DEF CardInv, Knows, Stages, Running
    <3> DEFINE u == [stage |-> stage, card |-> None, action |-> None, found |-> None,
                     text |-> None]
    <3>2. handlers'[h] = u
      BY <1>6, <3>1 DEF Nobody
    <3>3. u.stage = stage /\ u.card = None
          /\ u = [stage |-> u.stage, card |-> u.card, action |-> u.action,
                  found |-> u.found, text |-> u.text]
      OBVIOUS
    <3> HIDE DEF u
    <3>4. Knows(u)
      BY <3>1, <3>3 DEF Knows, Stages, Running
    <3> QED
      BY <3>2, <3>3, <3>4
  <2>2. \A h \in Handlers : Knows(handlers[h])'
    BY <1>3, <2>1
  <2>3. handlers' = [h \in Handlers |-> handlers'[h]]
    BY <1>6
  <2>4. \A h \in Handlers :
          handlers'[h] = [stage |-> handlers'[h].stage, card |-> handlers'[h].card,
                          action |-> handlers'[h].action, found |-> handlers'[h].found,
                          text |-> handlers'[h].text]
    BY <2>1
  <2>5. BotTypeOK'
    BY <1>1, <1>2, <2>3, <2>4 DEF CardInv, BotTypeOK
  <2> QED
    BY <1>4, <2>2, <2>5 DEF CardInv
<1> QED
  BY <1>5, <1>6 DEF OffersMove

LEMMA CardStep ==
    ASSUME IInv, CardInv, [Next]_vars PROVE CardInv'
<1>1. ASSUME NEW h \in Handlers, NEW c \in Cards, NEW a, Tap(h, c, a) PROVE CardInv'
  <2>1. c[1] \in Subjects \cup Offers
    BY DEF CardInv, BotTypeOK, Cards, Subjects
  <2> QED
    BY <1>1, <2>1, BeginsCards DEF Tap
<1>2. ASSUME NEW h \in Handlers, NEW g \in Handlers, Redeliver(h, g) PROVE CardInv'
  BY <1>2, BeginsCards DEF Redeliver, CardInv, Knows
<1>3. CASE UNCHANGED vars
  BY <1>3 DEF vars, CardInv, BotTypeOK, Knows, Truthful
<1> QED
  BY <1>1, <1>2, <1>3, OffersMoveCards, OthersActCards, ActCards, ActOnOfferCards, LookCards,
     LookFailsCards, SayCards, GiveUpCards DEF Next

-----------------------------------------------------------------------------
\* What a handler has seen.

\* A handler goes on with what it has seen, or with what its subject now is.
LEMMA KeepsSeen ==
    ASSUME SeenInv, Watch, NEW h \in Handlers, NEW e, e = handlers[h].card[1],
           handlers[h].stage \in Running, handlers'[h].card = handlers[h].card,
           handlers'[h].found = handlers[h].found,
           handlers'[h].stage = "acting" => handlers[h].stage = "acting",
           handlers'[h].stage = "saying" =>
             handlers'[h].text.is \in since[h] \cup {NotFound, StatusOf(e)'}
    PROVE  HasSeen(h)'
<1>1. CASE handlers'[h].stage \in Running
  <2>1. since'[h] = since[h] \cup {StatusOf(handlers[h].card[1])'}
    BY <1>1 DEF Watch
  <2>2. StatusOf(handlers[h].card[1])' = StatusOf(e)'
    BY DEF StatusOf
  <2>3. handlers[h].stage = "acting" /\ e \in Applicants => handlers[h].found \in since[h]
    BY DEF SeenInv, HasSeen
  <2> QED
    BY <2>1, <2>2, <2>3 DEF HasSeen
<1>2. CASE handlers'[h].stage \notin Running
  BY <1>2 DEF HasSeen
<1> QED
  BY <1>1, <1>2

LEMMA StaysSeen ==
    ASSUME SeenInv, Watch, NEW h \in Handlers, handlers'[h] = handlers[h]
    PROVE  HasSeen(h)'
<1>1. CASE handlers[h].stage \in Running
  <2>1. PICK e : e = handlers[h].card[1]
    OBVIOUS
  <2>2. handlers[h].stage = "saying" => handlers[h].text.is \in since[h] \cup {NotFound}
    BY <1>1 DEF SeenInv, HasSeen
  <2> QED
    BY <1>1, <2>1, <2>2, KeepsSeen
<1>2. CASE handlers[h].stage \notin Running
  BY <1>2 DEF HasSeen
<1> QED
  BY <1>1, <1>2

\* The others' handlers stay where they are.
LEMMA GoesSeen ==
    ASSUME CardInv, SeenInv, Watch, NEW h \in Handlers, NEW e, e = handlers[h].card[1],
           NEW stage, NEW text, Goes(h, stage, text),
           handlers[h].stage \in Running, stage # "acting",
           stage = "saying" => text.is \in since[h] \cup {NotFound, StatusOf(e)'}
    PROVE  SeenInv'
<1> SUFFICES ASSUME NEW g \in Handlers PROVE HasSeen(g)'
  BY DEF SeenInv
<1>1. CASE g = h
  <2>1. PICK t : /\ handlers' = [handlers EXCEPT ![h] = t]
                 /\ t.stage = stage /\ t.card = handlers[h].card /\ t.text = text
    BY GoesTo
  <2>2. handlers'[h] = t
    BY <2>1 DEF CardInv, BotTypeOK
  <2>3. handlers'[h].found = handlers[h].found
    BY DEF Goes, CardInv, BotTypeOK
  <2> QED
    BY <1>1, <2>1, <2>2, <2>3, KeepsSeen
<1>2. CASE g # h
  <2>1. handlers'[g] = handlers[g]
    BY <1>2 DEF Goes, CardInv, BotTypeOK
  <2> QED
    BY <2>1, StaysSeen
<1> QED
  BY <1>1, <1>2

LEMMA BeginsSeen ==
    ASSUME CardInv, SeenInv, NEW h \in Handlers, NEW c, NEW a, Begins(h, c, a)
    PROVE  SeenInv'
<1> SUFFICES ASSUME NEW g \in Handlers PROVE HasSeen(g)'
  BY DEF SeenInv
<1> DEFINE t == [stage |-> "acting", card |-> c, action |-> a,
                 found |-> IF c[1] \in Applicants THEN status[c[1]] ELSE None, text |-> None]
<1>1. handlers' = [handlers EXCEPT ![h] = t] /\ status' = status /\ Watch
      /\ handlers[h].stage = "none"
  BY DEF Begins
<1>2. /\ t.stage = "acting" /\ t.card = c
      /\ c[1] \in Applicants => t.found = status[c[1]]
  OBVIOUS
<1> HIDE DEF t
<1>3. CASE g = h
  <2>1. handlers'[h] = t
    BY <1>1 DEF CardInv, BotTypeOK
  <2>2. handlers[h].stage \notin Running /\ handlers'[h].stage \in Running
    BY <1>1, <1>2, <2>1 DEF Running
  <2>3. since'[h] = {StatusOf(handlers[h].card[1])'}
    BY <1>1, <2>2 DEF Watch
  <2>4. c[1] \in Applicants => StatusOf(handlers[h].card[1])' = t.found
    BY <1>1, <1>2, <2>1, Kinds DEF StatusOf
  <2> QED
    BY <1>2, <1>3, <2>1, <2>3, <2>4 DEF HasSeen
<1>4. CASE g # h
  <2>1. handlers'[g] = handlers[g]
    BY <1>1, <1>4 DEF CardInv, BotTypeOK
  <2> QED
    BY <1>1, <2>1, StaysSeen
<1> QED
  BY <1>3, <1>4

\* What the transaction did its subject now is; what is refused is explained by
\* what was read.
LEMMA ActSeen ==
    ASSUME CardInv, SeenInv, NEW h \in Handlers, Act(h) PROVE SeenInv'
<1> DEFINE e == handlers[h].card[1]
           to == Becomes[handlers[h].action]
<1>1. /\ handlers[h].stage = "acting" /\ e \notin Offers /\ Watch
      /\ handlers[h].stage \in Running /\ e \in Subjects
  <2>1. handlers[h].stage = "acting" /\ e \notin Offers /\ Watch
    BY DEF Act
  <2>2. handlers[h].stage \in Running
    BY <2>1 DEF Running
  <2> QED
    BY <2>1, <2>2 DEF CardInv, Knows
<1>2. PICK f : f = e
  OBVIOUS
<1>3. CASE status' = [status EXCEPT ![e] = to] /\ Goes(h, "saying", [did |-> TRUE, is |-> to])
  <2>1. status'[f] = to
    BY <1>1, <1>2, <1>3 DEF CardInv, BotTypeOK
  <2>2. StatusOf(f)' = to
    BY <1>1, <1>2, <2>1 DEF StatusOf
  <2> DEFINE text == [did |-> TRUE, is |-> to]
  <2>3. text.is = to /\ Goes(h, "saying", text)
    BY <1>3
  <2> HIDE DEF text, to
  <2> QED
    BY <1>1, <1>2, <2>2, <2>3, GoesSeen
<1>4. CASE e \in Applicants /\ Goes(h, "saying", [did |-> FALSE, is |-> handlers[h].found])
  <2>1. handlers[h].found \in since[h]
    BY <1>1, <1>4 DEF SeenInv, HasSeen
  <2> DEFINE text == [did |-> FALSE, is |-> handlers[h].found]
  <2>2. text.is \in since[h] /\ Goes(h, "saying", text)
    BY <1>4, <2>1
  <2> HIDE DEF text
  <2> QED
    BY <1>1, <1>2, <2>2, GoesSeen
<1>5. CASE Goes(h, "looking", None)
  BY <1>1, <1>2, <1>5, GoesSeen
<1> QED
  BY <1>3, <1>4, <1>5 DEF Act

LEMMA ActOnOfferSeen ==
    ASSUME IInv, CardInv, SeenInv, NEW h \in Handlers, ActOnOffer(h) PROVE SeenInv'
<1> DEFINE to == Becomes[handlers[h].action]
<1>1. PICK o : o = handlers[h].card[1]
  OBVIOUS
<1>2. /\ handlers[h].stage = "acting" /\ o \in Offers /\ Watch
      /\ handlers[h].stage \in Running
  BY <1>1 DEF ActOnOffer, Running
<1>3. handlers[h].action \in {"still", "withdraw"}
  BY <1>1, <1>2, Kinds DEF CardInv, Knows, ActionsOf
<1>4. CASE /\ Goes(h, "saying", [did |-> TRUE, is |-> to])
           /\ IF to = "active" THEN StillAvailable(o) ELSE Withdraw(o)
  <2>1. StatusOf(o)' = to
    <3>1. offers \in [Offers -> Offer]
      BY DEF IInv
    <3>2. CASE handlers[h].action = "still"
      <4>1. to = "active" /\ StillAvailable(o)
        BY <1>4, <3>2 DEF Becomes
      <4>2. offers'[o].status = "active"
        BY <1>2, <3>1, <4>1 DEF StillAvailable, Fresh, Offer
      <4> QED
        BY <1>2, <4>1, <4>2 DEF StatusOf
    <3>3. CASE handlers[h].action = "withdraw"
      <4>1. to = "withdrawn" /\ Withdraw(o)
        BY <1>4, <3>3 DEF Becomes
      <4>2. offers'[o].status = "withdrawn"
        BY <1>2, <3>1, <4>1 DEF Withdraw, Offer
      <4> QED
        BY <1>2, <4>1, <4>2 DEF StatusOf
    <3> QED
      BY <1>3, <3>2, <3>3
  <2> DEFINE text == [did |-> TRUE, is |-> to]
  <2>2. text.is = to /\ Goes(h, "saying", text)
    BY <1>4
  <2> HIDE DEF text, to
  <2> QED
    BY <1>1, <1>2, <2>1, <2>2, GoesSeen
<1>5. CASE Goes(h, "looking", None)
  BY <1>1, <1>2, <1>5, GoesSeen
<1> QED
  BY <1>1, <1>4, <1>5 DEF ActOnOffer

LEMMA ExplainsSeen ==
    ASSUME CardInv, SeenInv, NEW h \in Handlers, Look(h) \/ LookFails(h) PROVE SeenInv'
<1>1. PICK e : e = handlers[h].card[1]
  OBVIOUS
<1>2. PICK is \in {StatusOf(e), NotFound} : Explains(h, is)
  BY <1>1 DEF Look, LookFails
<1> DEFINE text == [did |-> FALSE, is |-> is]
<1>3. /\ handlers[h].stage = "looking" /\ Goes(h, "saying", text) /\ text.is = is
      /\ UNCHANGED <<offers, status>> /\ Watch
  BY <1>2 DEF Explains, Untouched, nudgeVars
<1>4. handlers[h].stage \in Running
  BY <1>3 DEF Running
<1>5. StatusOf(e)' = StatusOf(e)
  BY <1>3 DEF StatusOf
<1> HIDE DEF text
<1> QED
  BY <1>1, <1>2, <1>3, <1>4, <1>5, GoesSeen

LEMMA OffersMoveSeen ==
    ASSUME CardInv, SeenInv, OffersMove PROVE SeenInv'
<1> SUFFICES ASSUME NEW h \in Handlers PROVE HasSeen(h)'
  BY DEF SeenInv
<1>1. CASE handlers' = handlers
  BY <1>1, StaysSeen DEF OffersMove
<1>2. CASE /\ \A g \in Handlers : handlers[g].stage \notin Running
           /\ handlers' = [g \in Handlers |-> [Nobody EXCEPT !.stage = handlers[g].stage]]
  <2>1. handlers'[h].stage \notin Running
    BY <1>2 DEF Nobody
  <2> QED
    BY <2>1 DEF HasSeen
<1> QED
  BY <1>1, <1>2 DEF OffersMove

LEMMA SeenStep ==
    ASSUME IInv, CardInv, SeenInv, [Next]_vars PROVE SeenInv'
<1>1. ASSUME NEW h \in Handlers, NEW c \in Cards, NEW a, Tap(h, c, a) PROVE SeenInv'
  BY <1>1, BeginsSeen DEF Tap
<1>2. ASSUME NEW h \in Handlers, NEW g \in Handlers, Redeliver(h, g) PROVE SeenInv'
  BY <1>2, BeginsSeen DEF Redeliver
<1>3. ASSUME NEW h \in Handlers, Say(h) \/ GiveUp(h) PROVE SeenInv'
  <2>1. handlers[h].stage \in Running /\ Goes(h, "done", None) /\ Watch
    BY <1>3 DEF Say, GiveUp, Running
  <2> QED
    BY <2>1, GoesSeen
<1>4. ASSUME NEW e \in Applicants \cup Rsvs, OthersAct(e) PROVE SeenInv'
  BY <1>4, StaysSeen DEF OthersAct, SeenInv
<1>5. CASE UNCHANGED vars
  BY <1>5 DEF vars, SeenInv, HasSeen, StatusOf
<1> QED
  BY <1>1, <1>2, <1>3, <1>4, <1>5, ActSeen, ActOnOfferSeen, ExplainsSeen, OffersMoveSeen
  DEF Next

\* However taps are repeated, however late a handler edits its card and whatever
\* members do meanwhile, what a handler says of an applicant, a reservation or an
\* offer has been so since it began, or it could not be read; and a card of an
\* applicant or a reservation goes on saying what was done and what the subject
\* went on from (bot/index.ts 197-354).
THEOREM CardsTellTruth == Spec => []CardTellsTruth
<1>1. Init => IInv /\ CardInv /\ SeenInv
  <2>1. ASSUME Init PROVE SeenInv
    BY <2>1 DEF Init, SeenInv, HasSeen, Nobody, Running
  <2> QED
    BY <2>1, NudgeInitIInv, InitCards DEF Init
<1>2. IInv /\ CardInv /\ SeenInv /\ [Next]_vars => (IInv /\ CardInv /\ SeenInv)'
  BY BotStep, CardStep, SeenStep
<1>3. CardInv /\ SeenInv => CardTellsTruth
  <2>1. ASSUME SeenInv, NEW h \in Handlers, handlers[h].stage = "saying"
        PROVE  handlers[h].text.is \in since[h] \cup {NotFound}
    BY <2>1 DEF SeenInv, HasSeen, Running
  <2> QED
    BY <2>1 DEF CardInv, CardTellsTruth
<1> QED
  BY <1>1, <1>2, <1>3, PTL DEF Spec
=============================================================================
