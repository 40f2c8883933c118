------------------------------ MODULE Screens -------------------------------
(***************************************************************************)
(* What one member's Mini App shows, against what the server has committed. *)
(* A screen never patches what another member did: it asks again when a    *)
(* frame or a reconnect says so, several requests may be in flight, and    *)
(* answers arrive in any order.  The server is the log of its commits; a   *)
(* read is a prefix of it, and what a view shows is a set of its places.   *)
(*                                                                         *)
(* One screen is mounted at a time.  The stores of the board and of the    *)
(* member outlive it; so do the requests of a screen that was left, and    *)
(* what they do to the server and to the stores.                           *)
(***************************************************************************)
EXTENDS Integers, Sequences, FiniteSets, SequencesExt

CONSTANTS
    Routes,       \* the screens the member may open
    Starts,       \* those the app may be opened on: its link says which
    Others,       \* kinds of commits other members make
    MaxCommits,   \* bound: commits
    MaxOpens,     \* bound: screens the member opens
    MaxTaps,      \* bound: what else the member does
    MaxInFlight,  \* bound: requests of one view
    MaxRequests,  \* bound: requests of all
    MaxFaults     \* bound: requests without an answer, frames never sent

ASSUME ScreensAssumption ==
    /\ Routes \subseteq {"board", "offers", "offer", "reservations",
                         "reservation", "settings", "members", "catalog"}
    /\ Starts \subseteq Routes
    /\ {MaxCommits, MaxOpens, MaxTaps, MaxInFlight, MaxRequests, MaxFaults} \subseteq Nat

VARIABLES
    log,       \* the server's commits: their kind, and whether another member made
               \* them, this app's mounted screen, or one that was left
    telling,   \* of each commit, the events that have not reached the hub
    route,     \* the screen mounted: a route, "starting" or "gate"
    view,      \* what each view shows
    requests,  \* requests sent, with their answers
    opens,     \* screens the member has opened so far (bound only)
    taps,      \* what else the member has done so far (bound only)
    faults,    \* faults so far (bound only)
    untold     \* how much of the log no frame may have told this app of

screensVars == <<log, telling, route, view, requests, opens, taps, faults, untold>>

Views == {"me", "board", "offers", "offer", "reservations", "reservation",
          "thread", "members", "catalog"}

ViewsOf(r) == CASE r = "reservation" -> {"reservation", "thread"}
                [] r \in {"starting", "gate", "settings"} -> {}
                [] OTHER -> {r}

\* A commit of each kind, and the frames its service sends to this member.  A
\* "reservation" is one the member is a party of; "standing" is their own
\* suspension or reinstatement, "roster" another member's.
Publishes == [offer       |-> <<"board.changed">>,
              reservation |-> <<"reservation.changed", "board.changed">>,
              message     |-> <<"message.new">>,
              standing    |-> <<"me.changed">>,
              profile     |-> <<"me.changed">>,
              read |-> <<>>, roster |-> <<>>, catalog |-> <<>>]
Kinds == DOMAIN Publishes
Topics == {"board.changed", "reservation.changed", "message.new", "me.changed"}

\* A view: the commits it shows something of, the frames on which it asks again,
\* whether it asks again when a lost socket is back, whether it counts its requests
\* and drops the answer to an older one, and whether a filter or tabs go into them.
MeView == [of |-> {"standing", "profile", "message", "read"},
           hears |-> {"me.changed", "message.new"},
           reconnects |-> TRUE, counts |-> TRUE, filters |-> FALSE]
BoardView == [of |-> {"offer", "reservation", "roster"},
              hears |-> {"board.changed"},
              reconnects |-> TRUE, counts |-> TRUE, filters |-> TRUE]
OffersView == [of |-> {"offer", "reservation"},
               hears |-> {"board.changed"},
               reconnects |-> TRUE, counts |-> FALSE, filters |-> FALSE]
OfferView == [of |-> {"offer", "reservation"},
              hears |-> {"board.changed"},
              reconnects |-> FALSE, counts |-> FALSE, filters |-> FALSE]
ReservationsView == [of |-> {"reservation", "message"},
                     hears |-> {"reservation.changed", "message.new"},
                     reconnects |-> TRUE, counts |-> TRUE, filters |-> TRUE]
ReservationView == [of |-> {"reservation"},
                    hears |-> {"reservation.changed"},
                    reconnects |-> TRUE, counts |-> FALSE, filters |-> FALSE]
ThreadView == [of |-> {"reservation", "message"},
               hears |-> {"reservation.changed", "message.new"},
               reconnects |-> TRUE, counts |-> TRUE, filters |-> FALSE]
MembersView == [of |-> {"roster"}, hears |-> {},
                reconnects |-> FALSE, counts |-> FALSE, filters |-> FALSE]
CatalogView == [of |-> {"catalog"}, hears |-> {},
                reconnects |-> FALSE, counts |-> FALSE, filters |-> FALSE]

Behaviour(v) ==
    CASE v = "me" -> MeView
      [] v = "board" -> BoardView
      [] v = "offers" -> OffersView
      [] v = "offer" -> OfferView
      [] v = "reservations" -> ReservationsView
      [] v = "reservation" -> ReservationView
      [] v = "thread" -> ThreadView
      [] v = "members" -> MembersView
      [] OTHER -> CatalogView

\* The screens leave it to the stores.
ReconnectsStores(v) == v \in {"me", "board"}

Reconnects(v) == Behaviour(v).reconnects
Guarded(v) == Behaviour(v).counts
Filters == {1, 2}

OnScreen == ViewsOf(route) \cup {"me"}

\* "failed": the last answer was an error.  "seen", which only properties read,
\* is what answers brought, or would have, had they not failed or been dropped.
Empty == [loaded |-> FALSE, failed |-> FALSE, shown |-> {}, seen |-> {},
          wants |-> 1, holds |-> 1]

\* A request.  at is, of a load, the length of the log when it was sent (it is
\* served somewhere between then and its answer); of a write, Unserved, its own
\* place in the log, or how it failed.  gone says that its screen was left; n
\* only tells equal requests apart; before is what an update falls back to.
Unserved == -1
Refused == -2
Failed == -3

Room(reqs, V) ==
    /\ \A v \in V : Cardinality({r \in reqs : r.view = v}) < MaxInFlight
    /\ Cardinality(reqs) + Cardinality(V) <= MaxRequests
Request(reqs, v, what, gone) ==
    LET R(n) == [view |-> v, what |-> what, n |-> n,
                 at |-> IF what = "load" THEN Len(log) ELSE Unserved,
                 gone |-> gone, filter |-> view[v].wants,
                 before |-> IF what = "update" THEN view["me"].shown ELSE {}]
    IN R(CHOOSE n \in 1 .. MaxInFlight : R(n) \notin reqs /\ \A m \in 1 .. n - 1 : R(m) \in reqs)

\* Answers are taken as they come.
CountedNot(reqs, V, gone) == reqs

\* A view that counts its requests drops every answer but that of the last, so
\* the requests before it are forgotten as soon as it is sent.
Counted(reqs, V, gone) ==
    {r \in reqs : ~(r.view \in V /\ Guarded(r.view) /\ r.what = "load" /\ r.gone = gone)}

CanLoad(reqs, V) == Room(Counted(reqs, V, FALSE), V)

\* load() or refetch() of each view in V.
Loads(reqs, V) ==
    LET others == Counted(reqs, V, FALSE) IN
    others \cup {Request(others, v, "load", FALSE) : v \in V}

ScreensInit ==
    /\ log = <<>> /\ telling = {} /\ route = "starting"
    /\ view = [v \in Views |-> Empty]
    /\ requests = {[view |-> "me", what |-> "load", n |-> 1, at |-> 0,
                    gone |-> FALSE, filter |-> 1, before |-> {}]}
    /\ opens = 0 /\ taps = 0 /\ faults = 0
    /\ untold = [first |-> 0, any |-> 0]

Faulty == faults < MaxFaults /\ faults' = faults + 1
Taps == taps < MaxTaps /\ taps' = taps + 1

-----------------------------------------------------------------------------
\* The server.

Commit(kind, by) ==
    /\ Len(log) < MaxCommits
    /\ log' = Append(log, [kind |-> kind, by |-> by])
    /\ telling' = IF Publishes[kind] = <<>> THEN telling
                  ELSE telling \cup {[place |-> Len(log) + 1, events |-> Publishes[kind]]}

\* The member is approved as long as their standing changed an even number of times.
ApprovedAfter(places) ==
    Cardinality({i \in places : log[i].kind = "standing"}) % 2 = 0
Approved == ApprovedAfter(1 .. Len(log))

OtherCommits(kind) ==
    /\ kind \in Others
    /\ Commit(kind, "other")
    /\ UNCHANGED <<route, view, requests, opens, taps, faults, untold>>

Answered(r, at) == requests' = (requests \ {r}) \cup {[r EXCEPT !.at = at]}
Write(r) == r.what # "load" /\ r.at = Unserved

\* What a write of each view commits.
Writes(r) ==
    CASE r.what = "send" -> "message"
      [] r.what = "read" -> "read"
      [] r.what = "update" -> "profile"
      [] r.what = "reserve" -> "reservation"
      [] OTHER -> CASE r.view = "reservation" -> "reservation"
                    [] r.view \in {"offers", "offer"} -> "offer"
                    [] r.view = "members" -> "roster"
                    [] OTHER -> "catalog"

\* A marker that is where it should be is not written again.
NothingUnread ==
    \E i \in 0 .. Len(log) :
        /\ i > 0 => log[i].kind = "read"
        /\ \A j \in i + 1 .. Len(log) : log[j].kind = "message" => log[j].by # "other"

ServeWrite(r) ==
    /\ Write(r) /\ Approved
    /\ IF r.what = "read" /\ NothingUnread
         THEN /\ Answered(r, Len(log))
              /\ UNCHANGED <<log, telling>>
         ELSE /\ Commit(Writes(r), IF r.gone THEN "left" ELSE "mounted")
              /\ Answered(r, Len(log) + 1)
    /\ UNCHANGED <<route, view, opens, taps, faults, untold>>

\* The rules or the member's standing forbid it: the screen was stale.
Refuse(r) ==
    /\ Write(r)
    /\ r.what \in {"read", "update"} => ~Approved
    /\ Answered(r, Refused)
    /\ UNCHANGED <<log, telling, route, view, opens, taps, faults, untold>>

\* The call of a write, or its answer, is lost.
LoseWrite(r) ==
    /\ r.what # "load" /\ r.at \notin {Refused, Failed}
    /\ Faulty
    /\ Answered(r, Failed)
    /\ UNCHANGED <<log, telling, route, view, opens, taps, untold>>

-----------------------------------------------------------------------------
\* Screens are opened and left.

\* What goes on of a screen that is left: writes, and the loads of the thread,
\* whose answers mark it read wherever the member is by then.
Outlives(r) == r.what # "load" \/ r.view = "thread"
Leave(reqs, V) ==
    {r \in reqs : r.view \notin V \/ (r.view = "board" /\ r.what = "load")}
        \cup {[r EXCEPT !.gone = TRUE] :
                 r \in {q \in reqs : q.view \in V /\ Outlives(q)}}

\* The Router replaces the screen: the old one is destroyed, the new one asks
\* for its data.  The board is a store and keeps what it has.
Mount(r, vw, reqs) ==
    LET left == ViewsOf(route)
        kept == Leave(reqs, left)
    IN /\ CanLoad(kept, ViewsOf(r))
       /\ route' = r
       /\ view' = [v \in Views |-> IF v \in left \ {"board"} THEN Empty ELSE vw[v]]
       /\ requests' = Loads(kept, ViewsOf(r))

\* The tabs below every screen, and the links some have besides.
Tabs == {"board", "offers", "reservations", "settings", "members"}
LinksOf(r) == Tabs \cup CASE r = "reservations" -> {"reservation"}
                          [] r = "members" -> {"catalog"}
                          [] OTHER -> {}
Open(r) ==
    /\ route \in Routes /\ r \in (Routes \cap LinksOf(route)) \ {route}
    /\ opens < MaxOpens /\ opens' = opens + 1
    /\ Mount(r, view, requests)
    /\ UNCHANGED <<log, telling, taps, faults, untold>>

\* The profile on screen decides between the gate and the Router.
MeShows(vw, reqs) ==
    IF ~ApprovedAfter(vw["me"].shown) THEN
        IF route = "gate" THEN view' = vw /\ requests' = reqs /\ UNCHANGED route
        ELSE Mount("gate", vw, reqs)
    ELSE IF route \in {"starting", "gate"} THEN \E r \in Starts : Mount(r, vw, reqs)
    ELSE view' = vw /\ requests' = reqs /\ UNCHANGED route

-----------------------------------------------------------------------------
\* Answers.

Shown(v, places) ==
    [view EXCEPT ![v].shown = places, ![v].seen = @ \cup places,
                 ![v].loaded = TRUE, ![v].failed = FALSE]
Updated(v, places) ==
    [view EXCEPT ![v].shown = places, ![v].seen = @ \cup places]
ShownError(v) ==
    [view EXCEPT ![v].failed = TRUE, ![v].seen = @ \cup (1 .. Len(log))]
Arrives(r) == r \in requests /\ r.what # "load" /\ r.at # Unserved
Rest(r) == requests \ {r}

\* What a view holds once the answer to a load is there: what was committed
\* when it was served.
AfterLoad(r, at) == [Shown(r.view, 1 .. at) EXCEPT ![r.view].holds = r.filter]

\* The thread was loaded: all of it counts as read, whoever still looks at it.
AfterThread(r) ==
    IF r.view = "thread" THEN Rest(r) \cup {[r EXCEPT !.what = "read", !.at = Unserved]}
    ELSE Rest(r)

\* A read is answered with what is committed; only /me is for everybody.
ReceiveLoad(r) ==
    /\ r \in requests /\ r.what = "load"
    /\ \E at \in r.at .. Len(log) :
         /\ ApprovedAfter(1 .. at) \/ r.view = "me"
         /\ IF r.view = "me" THEN MeShows(AfterLoad(r, at), Rest(r))
            ELSE /\ view' = IF r.gone THEN view ELSE AfterLoad(r, at)
                 /\ requests' = AfterThread(r)
                 /\ UNCHANGED route
    /\ UNCHANGED <<log, telling, opens, taps, faults, untold>>

\* It is refused to a member who is not approved, or lost.
ReceiveLoadError(r) ==
    /\ r \in requests /\ r.what = "load"
    /\ \/ Faulty
       \/ /\ r.view # "me" /\ \E at \in r.at .. Len(log) : ~ApprovedAfter(1 .. at)
          /\ UNCHANGED faults
    /\ view' = IF r.gone THEN view ELSE ShownError(r.view)
    /\ requests' = Rest(r)
    /\ UNCHANGED <<log, telling, route, opens, taps, untold>>

\* A call that fails is only told in a toast: what it may have done is not shown.
Toasted(v) ==
    [view EXCEPT ![v].seen = @ \cup {i \in 1 .. Len(log) : log[i].by = "mounted"}]

\* An action's answer is the whole of what a detail shows, or one row of a list.
\* What the last load came to stays as it is.
AfterAct(r) ==
    IF r.gone THEN view
    ELSE IF r.at < 0 THEN Toasted(r.view)
    ELSE IF r.view \in {"reservation", "offer"} THEN Updated(r.view, 1 .. r.at)
    ELSE IF r.view \in {"offers", "members"} THEN Updated(r.view, view[r.view].shown \cup {r.at})
    ELSE view

\* What an action asks for once it is answered: the lines it wrote, where the
\* reservation stands if it was refused for that, the admins' lists (an invite may
\* have admitted somebody).
Follows(r) ==
    CASE r.view = "reservation" /\ r.at >= 0 -> {{"thread"}}
      [] r.view = "reservation" /\ r.at = Refused -> {{}, {"reservation"}}
      [] r.view = "members" /\ r.at >= 0 -> {{}, {"members"}}
      [] r.view = "catalog" /\ r.at >= 0 -> {{"catalog"}}
      [] OTHER -> {{}}

ReceiveAct(r) ==
    /\ Arrives(r) /\ r.what = "act"
    /\ view' = AfterAct(r)
    /\ \E V \in Follows(r) :
         /\ CanLoad(Rest(r), V)
         /\ requests' =
              IF ~r.gone THEN Loads(Rest(r), V)
              ELSE IF "thread" \in V
                THEN Counted(Rest(r), V, TRUE)
                        \cup {Request(Rest(r), "thread", "load", TRUE)}
              ELSE Rest(r)
    /\ UNCHANGED <<log, telling, route, opens, taps, faults, untold>>

\* A reservation made from the board or an offer's page opens its own screen; the
\* form keeps a refusal to itself.
ReceiveReserved(r) ==
    /\ Arrives(r) /\ r.what = "reserve"
    /\ IF r.at >= 0 /\ route \in Routes \ {"reservation"} /\ "reservation" \in Routes
         THEN Mount("reservation", view, Rest(r))
         ELSE /\ requests' = Rest(r)
              /\ UNCHANGED <<route, view>>
    /\ UNCHANGED <<log, telling, opens, taps, faults, untold>>

\* send(): the server's copy takes the place of the optimistic one.  A thread that
\* was closed meanwhile is a refusal that asks where the reservation stands.
ReceiveSend(r) ==
    /\ Arrives(r) /\ r.what = "send"
    /\ view' = IF r.gone \/ r.at < 0 THEN view
               ELSE [view EXCEPT !["thread"].shown = @ \cup {r.at},
                                 !["thread"].seen = @ \cup {r.at}]
    /\ \/ requests' = Rest(r)
       \/ /\ r.at = Refused /\ ~r.gone
          /\ CanLoad(Rest(r), {"reservation"})
          /\ requests' = Loads(Rest(r), {"reservation"})
    /\ UNCHANGED <<log, telling, route, opens, taps, faults, untold>>

\* applyUnread: the badges as the read left them; a refetch in flight is dropped
\* with all it would have brought.
Unread(places) == {i \in places : log[i].kind \in {"message", "read"}}
ReceiveRead(r) ==
    /\ Arrives(r) /\ r.what = "read"
    /\ IF r.at < 0 THEN requests' = Rest(r) /\ UNCHANGED view
       ELSE /\ requests' = Counted(Rest(r), {"me"}, FALSE)
            /\ view' = [view EXCEPT
                  !["me"].shown = (@ \ Unread(@)) \cup Unread(1 .. r.at),
                  !["me"].seen = @ \cup (1 .. r.at)
                      \cup IF requests' = Rest(r) THEN {} ELSE 1 .. Len(log)]
    /\ UNCHANGED <<log, telling, route, opens, taps, faults, untold>>

\* update(): the answer, or what was there when it was asked.
ReceiveUpdate(r) ==
    /\ Arrives(r) /\ r.what = "update"
    /\ MeShows(Updated("me", IF r.at >= 0 THEN 1 .. r.at ELSE r.before), Rest(r))
    /\ UNCHANGED <<log, telling, opens, taps, faults, untold>>

-----------------------------------------------------------------------------
\* What the member does.

Asks(r) ==
    /\ Taps
    /\ requests' = requests \cup {r}
    /\ UNCHANGED <<log, telling, route, view, opens, faults, untold>>

\* The buttons of a screen wait for the action under way.  The admins' list holds
\* back only the row in question, and the catalogue waits for its reload too; a
\* form to publish opens besides a button that waits, and the board's sheet can be
\* closed while its form waits.
Pending(v) == {r \in requests : r.view = v /\ r.what \in {"act", "reserve"} /\ ~r.gone}
Busy(v) ==
    CASE v \in {"members", "board"} -> FALSE
      [] v = "offers" -> Cardinality(Pending(v)) > 1
      [] v = "catalog" -> \E r \in requests : r.view = v /\ ~r.gone
      [] OTHER -> Pending(v) # {}

\* There is something to tap: of a detail that could be loaded, of the admins'
\* screens once the list came or did not, of the others what was loaded.
Ready(v) ==
    CASE v = "offers" -> TRUE
      [] v \in {"members", "catalog"} -> view[v].loaded \/ view[v].failed
      [] v \in {"reservation", "offer"} -> view[v].loaded /\ ~view[v].failed
      [] OTHER -> view[v].loaded

Act(v) ==
    /\ v \notin {"me", "board", "thread", "reservations"}
    /\ Ready(v) /\ ~Busy(v) /\ Room(requests, {v})
    /\ Asks(Request(requests, v, "act", FALSE))

\* The form on an offer of another member.
Reserve(v) ==
    /\ v \in {"board", "offer"}
    /\ Ready(v) /\ ~Busy(v) /\ Room(requests, {v})
    /\ Asks(Request(requests, v, "reserve", FALSE))

Send ==
    /\ route = "reservation" /\ Ready("reservation")
    /\ Room(requests, {"thread"})
    /\ Asks(Request(requests, "thread", "send", FALSE))

\* Settings: the language and the name, each with its own request.
Update ==
    /\ route = "settings" /\ Room(requests, {"me"})
    /\ Asks(Request(requests, "me", "update", FALSE))

\* Another filter of the board, another side or tab of the reservations.
Show(v, f) ==
    /\ Taps
    /\ Behaviour(v).filters /\ f # view[v].wants
    /\ view' = [view EXCEPT ![v].wants = f]
    /\ LET others == Counted(requests, {v}, FALSE) IN
         requests' = others \cup {[Request(others, v, "load", FALSE) EXCEPT !.filter = f]}
    /\ UNCHANGED <<log, telling, route, opens, faults, untold>>

\* The buttons that ask again.
Refresh(v) ==
    /\ \/ v = "board" /\ route = "board"
       \/ v = "offers" /\ route = "offers" /\ view[v].failed
       \/ v = "catalog" /\ route = "catalog" /\ view[v].failed /\ ~view[v].loaded
       \/ v = "me" /\ route = "starting" /\ view[v].failed
    /\ CanLoad(requests, {v})
    /\ Taps
    /\ requests' = Loads(requests, {v})
    /\ UNCHANGED <<log, telling, route, view, opens, faults, untold>>

-----------------------------------------------------------------------------
\* What the socket brings: composed with Realtime in MiniApp.

Hear(e) ==
    LET V == {v \in OnScreen : e \in Behaviour(v).hears} IN
    /\ CanLoad(requests, V)
    /\ requests' = Loads(requests, V)
    /\ UNCHANGED <<log, telling, route, view, opens, taps, faults, untold>>

Reconnected ==
    LET V == {v \in OnScreen : Reconnects(v)} IN
    /\ CanLoad(requests, V)
    /\ requests' = Loads(requests, V)
    /\ UNCHANGED <<log, telling, route, view, opens, taps, faults, untold>>

\* Without the first of its events.
Shorter(t) ==
    (telling \ {t}) \cup
        {u \in {[t EXCEPT !.events = Tail(@)]} : u.events # <<>>}

\* The calls of a commit reach the hub in order, or fail, which the hub client
\* only logs.
Told(t) ==
    /\ t \in telling
    /\ telling' = Shorter(t)
    /\ UNCHANGED <<log, route, view, requests, opens, taps, faults, untold>>

NeverTold(t) ==
    /\ t \in telling /\ Faulty
    /\ telling' = Shorter(t)
    /\ untold' = [first |-> Max({untold.first, t.place}), any |-> Max({untold.any, t.place})]
    /\ UNCHANGED <<log, route, view, requests, opens, taps>>

\* A socket hears nothing of what was told before it was accepted.  A reconnect
\* makes up for it, the first connection does not.
Accepted(again) ==
    /\ untold' = [first |-> IF again THEN untold.first ELSE Len(log),
                  any   |-> IF route = "offer" THEN Len(log) ELSE untold.any]
    /\ UNCHANGED <<log, telling, route, view, requests, opens, taps, faults>>

Arrive(r) ==
    ReceiveLoad(r) \/ ReceiveLoadError(r) \/ ReceiveAct(r) \/ ReceiveReserved(r) \/ ReceiveSend(r)
        \/ ReceiveRead(r) \/ ReceiveUpdate(r)
Serve(r) == ServeWrite(r) \/ Refuse(r) \/ LoseWrite(r)

\* What happens whether or not there is a socket.
Step ==
    \/ \E kind \in Kinds : OtherCommits(kind)
    \/ \E r \in requests : Serve(r) \/ Arrive(r)
    \/ \E r \in Routes : Open(r)
    \/ \E v \in OnScreen : Act(v) \/ Reserve(v) \/ Refresh(v) \/ \E f \in Filters : Show(v, f)
    \/ Send \/ Update

ScreensNext ==
    \/ Step
    \/ \E e \in Topics : Hear(e)
    \/ \E t \in telling : Told(t) \/ NeverTold(t)
    \/ Reconnected
    \/ \E again \in BOOLEAN : Accepted(again)

ScreensSpec == ScreensInit /\ [][ScreensNext]_screensVars

-----------------------------------------------------------------------------
\* A board or a list of reservations never shows less than it did for the same
\* filter, and a thread never takes back what another wrote, in whatever order
\* the answers come: the one asked last was served last of those still counted
\* (board.svelte.ts 26-40, Reservations.svelte 31-47, ReservationDetail.svelte
\* 72-83).  The details and the other lists do not count their requests.
Solid(v) ==
    IF v = "thread" THEN {i \in view[v].shown : log[i].by = "other"} ELSE view[v].shown
Onward ==
    \A v \in {"board", "reservations", "thread"} :
        v = "board" \/ route' = route => Solid(v) \subseteq Solid(v)'
NeverBackInTime == [][Onward]_screensVars
=============================================================================
