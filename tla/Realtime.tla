------------------------------ MODULE Realtime ------------------------------
(***************************************************************************)
(* The realtime socket of one member's Mini App, from both of its ends:    *)
(* the store that opens it with a ticket, reconnects and says what is on   *)
(* screen (realtime.svelte.ts), and the hub that redeems the ticket, keeps *)
(* the presence on the socket and sends frames (hub.ts, events.ts).  The   *)
(* two ends learn of a lost connection separately, if at all: a socket the *)
(* app has given up may stay open at the hub.                              *)
(*                                                                         *)
(* The words for one connection, in order: at the app it is "asking" for a *)
(* ticket, "opening" its socket, "open", "closed"; at the hub there is a   *)
(* "ticket", an "open" socket, and it is "gone".                           *)
(***************************************************************************)
EXTENDS Integers, Sequences, FiniteSets, SequencesExt

CONSTANTS
    Conns,       \* connections; one that both ends have forgotten is reused
    Threads,     \* reservations whose thread may be on screen
    Events,      \* what a frame says happened
    None,
    MaxLosses,   \* bound: calls and sockets that fail
    MaxFrames    \* bound: frames on their way over one socket

ASSUME RealtimeAssumption ==
    /\ None \notin Conns \cup Threads
    /\ MaxLosses \in Nat /\ MaxFrames \in Nat

VARIABLES
    store,    \* the app's end: fields of RealtimeStore
    conns,    \* every connection, at both ends, with what is in flight over it
    losses    \* how much has failed so far (bound only)

vars == <<store, conns, losses>>

Viewable == Threads \cup {None}
AppStages == {"idle", "asking", "opening", "open", "closed"}
HubStages == {"none", "ticket", "open", "gone"}

\* A connection; "viewing" is the attachment the hub keeps on the socket, "up"
\* the presence messages and "down" the frames that have not arrived.
Conn == [app: AppStages, hub: HubStages, viewing: Viewable,
         up: Seq(Viewable), down: Seq(Events)]
Idle == [app |-> "idle", hub |-> "none", viewing |-> None, up |-> <<>>, down |-> <<>>]

\* "lost" is attempt > 0: a reconnect is counted and no socket has opened since.
Store == [stage: {"new", "started", "left"}, lost: BOOLEAN, timer: BOOLEAN,
          socket: Conns \cup {None}, viewing: Viewable]

Stopped(s) == s.stage # "started"

TypeOK ==
    /\ store \in Store
    /\ conns \in [Conns -> Conn]
    /\ losses \in Nat

Init ==
    /\ store = [stage |-> "new", lost |-> FALSE, timer |-> FALSE,
                socket |-> None, viewing |-> None]
    /\ conns = [c \in Conns |-> Idle]
    /\ losses = 0

Fails == losses < MaxLosses /\ losses' = losses + 1

\* The app forgets a connection, and what was on its way over it is lost; it is
\* reusable once the hub has forgotten it too.
Forgotten(conn) ==
    IF conn.hub \in {"none", "gone"} THEN Idle
    ELSE [conn EXCEPT !.app = "closed", !.up = <<>>, !.down = <<>>]

\* The store after a connection failed: one timer, unless the app is done.
Rescheduled(s) ==
    IF Stopped(s) \/ s.timer THEN s ELSE [s EXCEPT !.lost = TRUE, !.timer = TRUE]

\* connect() up to its first await: the request for a ticket is sent.
Connect(c) ==
    /\ conns[c] = Idle
    /\ conns' = [conns EXCEPT ![c].app = "asking"]

\* start() that does not know it ran already.
StartAgain(c) ==
    /\ store.stage # "left"
    /\ store' = [store EXCEPT !.stage = "started", !.lost = FALSE]
    /\ Connect(c)
    /\ UNCHANGED losses

\* start(): once GET /me has answered; it may be called again and does nothing.
Start(c) ==
    /\ store.stage = "new"
    /\ store' = [store EXCEPT !.stage = "started", !.lost = FALSE]
    /\ Connect(c)
    /\ UNCHANGED losses

\* The timer of scheduleReconnect fires.
Reconnect(c) ==
    /\ store.timer
    /\ store' = [store EXCEPT !.timer = FALSE]
    /\ Connect(c)
    /\ UNCHANGED losses

\* The request fails, or its answer is lost; a ticket made meanwhile lapses.
TicketFails(c) ==
    /\ conns[c].app = "asking"
    /\ Fails
    /\ conns' = [conns EXCEPT ![c] = Idle]
    /\ store' = Rescheduled(store)

\* issueTicket(), and connect() goes on with its answer.
OpenSocket(c) ==
    /\ conns[c].app = "asking"
    /\ IF Stopped(store)
         THEN /\ conns' = [conns EXCEPT ![c] = Idle]
              /\ UNCHANGED store
         ELSE /\ conns' = [conns EXCEPT ![c].app = "opening", ![c].hub = "ticket"]
              /\ store' = [store EXCEPT !.socket = c]
    /\ UNCHANGED losses

\* The upgrade: the ticket is redeemed, once, and the socket accepted with
\* nothing on screen.
Upgrade(c) ==
    /\ conns[c].hub = "ticket" /\ conns[c].app \in {"opening", "closed"}
    /\ conns' = [conns EXCEPT ![c].hub = "open", ![c].viewing = None]
    /\ UNCHANGED <<store, losses>>

\* The ticket is thirty seconds old, or the upgrade never reaches the hub.
UpgradeFails(c) ==
    /\ conns[c].hub = "ticket" /\ conns[c].app \in {"opening", "closed"}
    /\ Fails
    /\ conns' = [conns EXCEPT ![c] = IF @.app = "closed" THEN Idle ELSE [@ EXCEPT !.hub = "gone"]]
    /\ UNCHANGED store

\* send(): only over a socket that is open.
Sent(v) ==
    IF store.socket # None /\ conns[store.socket].app = "open"
      THEN [conns EXCEPT ![store.socket].up = Append(@, v)]
      ELSE conns

\* setViewing(): the thread on screen, or None when it is left.
SetViewing(v) ==
    /\ \A c \in Conns : Len(conns[c].up) < MaxFrames
    /\ store' = [store EXCEPT !.viewing = v]
    /\ conns' = Sent(v)
    /\ UNCHANGED losses

\* onopen that trusts the presence of the socket before.
OnOpenSilent(c) ==
    /\ conns[c].app = "opening" /\ conns[c].hub = "open" /\ store.socket = c
    /\ store' = [store EXCEPT !.lost = FALSE]
    /\ conns' = [conns EXCEPT ![c].app = "open"]
    /\ UNCHANGED losses

\* onopen: the screen is told again, and after a reconnect the handlers run.
OnOpen(c) ==
    /\ conns[c].app = "opening" /\ conns[c].hub = "open" /\ store.socket = c
    /\ store' = [store EXCEPT !.lost = FALSE]
    /\ conns' = [conns EXCEPT ![c].app = "open",
                              ![c].up = IF store.viewing = None THEN <<>> ELSE <<store.viewing>>]
    /\ UNCHANGED losses

\* onclose, by itself or after onerror.  The hub may have closed the socket, or
\* it does not know.
OnClose(c) ==
    /\ conns[c].app \in {"opening", "open"}
    /\ IF conns[c].hub = "gone" THEN UNCHANGED losses ELSE Fails
    /\ conns' = [conns EXCEPT ![c] = Forgotten(@)]
    /\ store' = IF store.socket = c THEN Rescheduled([store EXCEPT !.socket = None]) ELSE store

\* stop(): the app is left for good.
Stop ==
    /\ store.stage = "started"
    /\ store' = [store EXCEPT !.stage = "left", !.timer = FALSE, !.socket = None]
    /\ conns' = IF store.socket = None THEN conns
                ELSE [conns EXCEPT ![store.socket] = Forgotten(@)]
    /\ UNCHANGED losses

\* webSocketMessage: the presence is kept on the socket it came over.
HubHears(c) ==
    /\ conns[c].hub = "open" /\ conns[c].up # <<>>
    /\ conns' = [conns EXCEPT ![c].viewing = Head(conns[c].up), ![c].up = Tail(@)]
    /\ UNCHANGED <<store, losses>>

\* webSocketClose: the hub learns that the app closed its end.
HubNotices(c) ==
    /\ conns[c].hub = "open" /\ conns[c].app = "closed"
    /\ conns' = [conns EXCEPT ![c] = Idle]
    /\ UNCHANGED <<store, losses>>

\* webSocketError, or a deployment: the hub's end is closed first.
HubDrops(c) ==
    /\ conns[c].hub = "open"
    /\ Fails
    /\ conns' = [conns EXCEPT ![c] = IF @.app = "closed" THEN Idle
                                     ELSE [@ EXCEPT !.hub = "gone", !.up = <<>>]]
    /\ UNCHANGED store

\* publish(): one frame to every socket the hub has; a dead one keeps nothing.
Frames(e) ==
    [c \in Conns |-> IF conns[c].hub = "open" /\ conns[c].app \in {"opening", "open"}
                       THEN [conns[c] EXCEPT !.down = Append(@, e)] ELSE conns[c]]

Publish(e) ==
    /\ \A c \in Conns : Len(conns[c].down) < MaxFrames
    /\ conns' = Frames(e)
    /\ UNCHANGED <<store, losses>>

\* onmessage: the handlers of Head(down) run.
Deliver(c) ==
    /\ conns[c].app = "open" /\ conns[c].down # <<>>
    /\ conns' = [conns EXCEPT ![c].down = Tail(@)]
    /\ UNCHANGED <<store, losses>>

Next ==
    \/ \E c \in Conns :
         \/ Start(c) \/ Reconnect(c) \/ OpenSocket(c) \/ Upgrade(c) \/ OnOpen(c)
         \/ HubHears(c) \/ HubNotices(c) \/ Deliver(c)
         \/ TicketFails(c) \/ UpgradeFails(c) \/ OnClose(c) \/ HubDrops(c)
    \/ \E v \in Viewable : SetViewing(v)
    \/ \E e \in Events : Publish(e)
    \/ Stop

Spec == Init /\ [][Next]_vars

-----------------------------------------------------------------------------
\* Connections the app is making or has.
Alive == {c \in Conns : conns[c].app \in {"asking", "opening", "open"}}

\* However tickets and sockets fail, the store waits on one timer, or makes or
\* has one connection, never two: connect() is not entered again by start(), by
\* a late close or by a second timer (realtime.svelte.ts 81-86, 129-176).
OneSocket ==
    /\ \A c, d \in Alive : c = d
    /\ store.timer => Alive = {}
    /\ \A c \in Conns : conns[c].app \in {"opening", "open"} => store.socket = c

\* What the hub is told of the screen over the open socket is what is on it,
\* once the messages on their way have arrived: also after a reconnect, and for
\* a thread opened while the socket was still opening (PRD presence,
\* realtime.svelte.ts 120-127 and 142-148, hub.ts 386-401).
PresenceFollowsScreen ==
    \A c \in Conns :
        conns[c].app = "open" /\ conns[c].hub = "open" =>
            store.viewing = IF conns[c].up = <<>> THEN conns[c].viewing ELSE Last(conns[c].up)
=============================================================================
