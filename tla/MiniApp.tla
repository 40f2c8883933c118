------------------------------- MODULE MiniApp ------------------------------
(***************************************************************************)
(* A member's whole Mini App: its screens (Screens) over its socket        *)
(* (Realtime).  A commit is told to the hub, the hub sends a frame over the *)
(* sockets it has, the frame or a reconnect makes the screen ask again, and *)
(* the screen tells the hub which thread is on it.                         *)
(***************************************************************************)
EXTENDS Realtime, Screens

CONSTANTS
    th,          \* the thread a reservation's screen shows
    MaxTogether  \* bound: screens opened, taps, losses and faults together

ASSUME MiniAppAssumption == th \in Threads /\ Events = Topics

appVars == <<store, conns, losses, log, telling, route, view, requests, opens, taps, faults, untold>>

AppInit == Init /\ ScreensInit

\* ReservationDetail tells the hub when it is mounted and when it is left.
Tells ==
    IF route' = route \/ "reservation" \notin {route, route'} THEN UNCHANGED vars
    ELSE SetViewing(IF route' = "reservation" THEN th ELSE None)

Screen == Step /\ Tells

\* App.svelte: the socket is opened once /me has answered, whatever it said.
Begin == \E c \in Conns : view["me"].loaded /\ Start(c) /\ UNCHANGED screensVars

Connecting(c) ==
    \/ /\ \/ Reconnect(c) \/ OpenSocket(c) \/ HubHears(c) \/ HubNotices(c)
          \/ TicketFails(c) \/ UpgradeFails(c) \/ OnClose(c) \/ HubDrops(c)
       /\ UNCHANGED screensVars
    \/ /\ Upgrade(c)
       /\ IF conns[c].app = "opening" THEN Accepted(store.lost) ELSE UNCHANGED screensVars

Opened(c) ==
    /\ OnOpen(c)
    /\ IF store.lost THEN Reconnected ELSE UNCHANGED screensVars

Frame(c) == Deliver(c) /\ Hear(Head(conns[c].down))

Telling(t) ==
    \/ Publish(Head(t.events)) /\ Told(t)
    \/ NeverTold(t) /\ UNCHANGED vars

\* MaxTogether bounds what the member does and what fails, together.
AppNext ==
    /\ \/ Screen \/ Begin
       \/ \E c \in Conns : Connecting(c) \/ Opened(c) \/ Frame(c)
       \/ \E t \in telling : Telling(t)
    /\ opens' + taps' + losses' + faults' <= MaxTogether

AppSpec == AppInit /\ [][AppNext]_appVars

-----------------------------------------------------------------------------
\* The app is connected, nothing is on its way and nothing is asked.
AtRest ==
    /\ \E c \in Conns : conns[c].app = "open" /\ conns[c].hub = "open" /\ conns[c].down = <<>>
    /\ telling = {} /\ requests = {}

\* At rest, what is on screen reflects every commit it shows something of: those
\* of others that a frame tells it of, and its member's own.  It is not so, and
\* the property says where: of what was committed before the first socket was
\* accepted, and before any socket of an offer's page, which no reconnect makes
\* ask again; of what the hub was never told; of another member's suspension,
\* which no frame tells (Publishes); and where an older answer overtook a newer
\* one on a screen that does not count its requests, or a badge dropped the
\* profile, or a call of the member's own ended in a toast ("seen").  The admins'
\* screens hear nothing and answer for their own.
Lists == {"board", "reservations", "thread"}
OwnLists == {"members", "catalog"}

\* v has been told of place i, or will be.
Expects(v, i) ==
    /\ log[i].kind \in Behaviour(v).of
    /\ i > IF v = "offer" THEN untold.any ELSE untold.first
    /\ \/ log[i].by = "mounted" /\ v \in OwnLists
       \/ ToSet(Publishes[log[i].kind]) \cap Behaviour(v).hears # {}

ShowsWhatIsCommitted ==
    AtRest =>
        \A v \in OnScreen : view[v].loaded /\ ~view[v].failed =>
            /\ view[v].holds = view[v].wants
            /\ \A i \in 1 .. Len(log) :
                 Expects(v, i) => i \in IF v \in Lists THEN view[v].shown ELSE view[v].seen

-----------------------------------------------------------------------------
(* Where the news of a commit is, when it is not on screen yet; inductive  *)
(* with what the two parts promise.                                        *)

\* The loads of v whose answers it takes, and the actions it has not heard the
\* end of.
Awaited(reqs, v) == {r \in reqs : r.view = v /\ r.what = "load" /\ ~r.gone}
Acting(reqs, v) == {r \in reqs : r.view = v /\ r.what = "act" /\ ~r.gone}

\* The answer to a load, or what was brought, has place i.
Brings(reqs, v, i) == \E r \in Awaited(reqs, v) : i <= r.at
Shows(vw, reqs, v, i) ==
    IF v \in Lists
      THEN Awaited(reqs, v) = {} /\ (vw[v].failed \/ ~vw[v].loaded \/ i \in vw[v].shown)
      ELSE \/ i \in vw[v].seen
           \/ v \in OwnLists /\ \E r \in Acting(reqs, v) : r.at \in {i, Failed}
Settled(vw, reqs, v, i) == Brings(reqs, v, i) \/ Shows(vw, reqs, v, i)

\* The hub or the socket c still has a frame of it that v hears.
Coming(v, i, c) ==
    \/ \E t \in telling : t.place = i /\ ToSet(t.events) \cap Behaviour(v).hears # {}
    \/ ToSet(conns[c].down) \cap Behaviour(v).hears # {}

\* v counts on the frames of c: a reconnect makes the others ask again, once open.
Relies(v, c) ==
    /\ conns[c].hub = "open" /\ conns[c].app \in {"opening", "open"}
    /\ v = "offer" \/ ~store.lost

NewsIsSomewhere ==
    \A v \in OnScreen : \A i \in 1 .. Len(log) :
        Expects(v, i) =>
            IF v \in OwnLists THEN Settled(view, requests, v, i)
            ELSE \A c \in Conns : Relies(v, c) => Coming(v, i, c) \/ Settled(view, requests, v, i)

\* What is asked for has the filter that is set, and so has what is shown.
Fits(vw, reqs) ==
    /\ \A v \in Views : /\ ~Behaviour(v).filters => vw[v].wants = 1 /\ vw[v].holds = 1
                        /\ \/ Awaited(reqs, v) # {} \/ ~vw[v].loaded \/ vw[v].failed
                           \/ vw[v].holds = vw[v].wants
    /\ \A r \in reqs : /\ r.view = "me" => ~r.gone
                       /\ r.what = "load" /\ ~r.gone => r.filter = vw[r.view].wants

OpenIsFound == \A c \in Conns : conns[c].app = "open" => ~store.lost
PlacesOK ==
    /\ untold \in [first : Nat, any : Nat]
    /\ telling \subseteq [place : Nat, events : Seq(Topics)]

NewsInv == NewsIsSomewhere /\ Fits(view, requests) /\ OpenIsFound /\ PlacesOK
=============================================================================
