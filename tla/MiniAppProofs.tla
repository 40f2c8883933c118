--------------------------- MODULE MiniAppProofs ---------------------------
(***************************************************************************)
(* The Mini App, for any number of connections, screens, requests, commits *)
(* and failures.  First the socket alone (Realtime): the store never has   *)
(* two, and what the hub believes of the screen is what the store last     *)
(* said.  One socket is what makes the second true: a message sent over    *)
(* another would never reach the attachment that counts.  Then the screens *)
(* alone (Screens): counting requests is enough for the board, a list of   *)
(* reservations and a thread never to go back in time.  At most one        *)
(* request of such a view counts, it was sent after everything the view    *)
(* shows was committed, and an answer is no older than its request.  Last  *)
(* the two together: an app of MiniApp is one of Realtime and one of       *)
(* Screens, and at rest its screens show what is committed.  The last is   *)
(* followed commit by commit: until a screen shows it, the news of a       *)
(* commit is a load under way, a frame in the socket, or a call the hub    *)
(* still gets; a lost socket loses frames, but its reconnect asks again.   *)
(***************************************************************************)
EXTENDS MiniApp, SequenceTheorems, TLAPS

-----------------------------------------------------------------------------
(* The socket.                                                             *)

\* What the store's stages leave behind; with it OneSocket is inductive.
Stages ==
    /\ store.stage = "new" => Alive = {}
    /\ store.stage # "started" => ~store.timer

\* A socket that is not open yet has nothing in flight, and a fresh attachment.
FreshBeforeOpen ==
    \A c \in Conns :
        /\ conns[c].app \in {"asking", "opening"} => conns[c].up = <<>>
        /\ conns[c].app = "opening" /\ conns[c].hub = "open" => conns[c].viewing = None

SocketInv == TypeOK /\ OneSocket /\ Stages /\ FreshBeforeOpen /\ PresenceFollowsScreen

LEMMA IdleType == Idle \in Conn
BY DEF Idle, Conn, AppStages, HubStages, Viewable

LEMMA InitSocketInv == Init => SocketInv
<1> SUFFICES ASSUME Init PROVE SocketInv
  OBVIOUS
<1>1. \A c \in Conns : conns[c] = Idle
  BY DEF Init
<1>2. TypeOK
  BY IdleType, RealtimeAssumption DEF Init, TypeOK, Store, Viewable
<1>3. Alive = {}
  BY <1>1 DEF Alive, Idle
<1>4. OneSocket /\ Stages
  BY <1>1, <1>3 DEF OneSocket, Stages, Idle, Init
<1>5. FreshBeforeOpen /\ PresenceFollowsScreen
  BY <1>1 DEF FreshBeforeOpen, PresenceFollowsScreen, Idle
<1> QED
  BY <1>2, <1>4, <1>5 DEF SocketInv

\* A connection with some of its fields changed is a connection.
LEMMA ConnFields ==
    ASSUME NEW conn \in Conn
    PROVE  /\ \A a \in AppStages : [conn EXCEPT !.app = a] \in Conn
           /\ \A h \in HubStages : [conn EXCEPT !.hub = h] \in Conn
           /\ \A v \in Viewable : [conn EXCEPT !.viewing = v] \in Conn
           /\ \A u \in Seq(Viewable) : [conn EXCEPT !.up = u] \in Conn
           /\ \A d \in Seq(Events) : [conn EXCEPT !.down = d] \in Conn
<1>1. /\ conn.app \in AppStages /\ conn.hub \in HubStages /\ conn.viewing \in Viewable
      /\ conn.up \in Seq(Viewable) /\ conn.down \in Seq(Events)
  BY DEF Conn
<1>2. \A a \in AppStages : [conn EXCEPT !.app = a] \in Conn
  BY DEF Conn
<1>3. \A h \in HubStages : [conn EXCEPT !.hub = h] \in Conn
  BY DEF Conn
<1>4. \A v \in Viewable : [conn EXCEPT !.viewing = v] \in Conn
  BY DEF Conn
<1>5. \A u \in Seq(Viewable) : [conn EXCEPT !.up = u] \in Conn
  BY DEF Conn
<1>6. \A d \in Seq(Events) : [conn EXCEPT !.down = d] \in Conn
  BY DEF Conn
<1> QED
  BY <1>2, <1>3, <1>4, <1>5, <1>6

\* Types, action by action.
LEMMA TypeStep == ASSUME TypeOK, [Next]_vars PROVE TypeOK'
<1>1. conns \in [Conns -> Conn] /\ store \in Store /\ losses \in Nat
  BY DEF TypeOK
<1>2. "asking" \in AppStages /\ "opening" \in AppStages /\ "open" \in AppStages
        /\ "closed" \in AppStages /\ "idle" \in AppStages
  BY DEF AppStages
<1>3. "ticket" \in HubStages /\ "open" \in HubStages /\ "gone" \in HubStages
  BY DEF HubStages
<1>4. None \in Viewable /\ <<>> \in Seq(Viewable) /\ <<>> \in Seq(Events)
  BY DEF Viewable
<1>5. \A c \in Conns : \A x \in Conn : [conns EXCEPT ![c] = x] \in [Conns -> Conn]
  BY <1>1
<1>6. \A c \in Conns : conns[c].up \in Seq(Viewable) /\ conns[c].down \in Seq(Events)
  BY <1>1 DEF Conn
<1>7. \A s \in Store : Rescheduled(s) \in Store
  BY DEF Rescheduled, Store
<1>8. \A x \in Conn : Forgotten(x) \in Conn
  <2> SUFFICES ASSUME NEW x \in Conn PROVE Forgotten(x) \in Conn
    OBVIOUS
  <2>1. DEFINE y == [x EXCEPT !.app = "closed"]
  <2>2. y \in Conn
    BY <1>2, ConnFields
  <2>3. DEFINE z == [y EXCEPT !.up = <<>>]
  <2>4. z \in Conn
    BY <1>4, <2>2, ConnFields
  <2>5. [z EXCEPT !.down = <<>>] \in Conn
    BY <1>4, <2>4, ConnFields
  <2>6. [z EXCEPT !.down = <<>>] = [x EXCEPT !.app = "closed", !.up = <<>>, !.down = <<>>]
    OBVIOUS
  <2> QED
    BY <2>5, <2>6, IdleType DEF Forgotten
<1>9. losses' \in Nat
  <2>1. losses' = losses \/ losses' = losses + 1
    <3>1. CASE UNCHANGED vars
      BY <3>1 DEF vars
    <3>2. CASE Stop \/ (\E v \in Viewable : SetViewing(v)) \/ (\E e \in Events : Publish(e))
      BY <3>2 DEF Stop, SetViewing, Publish
    <3>3. ASSUME NEW c \in Conns,
                 \/ Start(c) \/ Reconnect(c) \/ OpenSocket(c) \/ Upgrade(c) \/ OnOpen(c)
                 \/ HubHears(c) \/ HubNotices(c) \/ Deliver(c)
          PROVE  losses' = losses
      BY <3>3 DEF Start, Reconnect, OpenSocket, Upgrade, OnOpen, HubHears, HubNotices, Deliver
    <3>4. ASSUME NEW c \in Conns,
                 TicketFails(c) \/ UpgradeFails(c) \/ OnClose(c) \/ HubDrops(c)
          PROVE  losses' = losses \/ losses' = losses + 1
      BY <3>4 DEF TicketFails, UpgradeFails, OnClose, HubDrops, Fails
    <3> QED
      BY <3>1, <3>2, <3>3, <3>4 DEF Next
  <2> QED
    BY <1>1, <2>1
<1>10. ASSUME NEW c \in Conns, Start(c) \/ Reconnect(c)
       PROVE  store' \in Store /\ conns' \in [Conns -> Conn]
  <2>1. [conns[c] EXCEPT !.app = "asking"] \in Conn
    BY <1>1, <1>2, ConnFields
  <2>2. conns' = [conns EXCEPT ![c] = [conns[c] EXCEPT !.app = "asking"]]
    BY <1>10 DEF Start, Reconnect, Connect
  <2>3. store' \in Store
    BY <1>1, <1>10 DEF Start, Reconnect, Store
  <2> QED
    BY <1>5, <2>1, <2>2, <2>3
<1>11. ASSUME NEW c \in Conns, OpenSocket(c)
       PROVE  store' \in Store /\ conns' \in [Conns -> Conn]
  <2>1. CASE Stopped(store)
    BY <1>1, <1>5, <1>11, <2>1, IdleType DEF OpenSocket
  <2>2. CASE ~Stopped(store)
    <3>1. DEFINE x == [conns[c] EXCEPT !.app = "opening"]
    <3>2. x \in Conn
      BY <1>1, <1>2, ConnFields
    <3>3. [x EXCEPT !.hub = "ticket"] \in Conn
      BY <1>3, <3>2, ConnFields
    <3>4. conns' = [conns EXCEPT ![c] = [x EXCEPT !.hub = "ticket"]]
      BY <1>1, <1>11, <2>2 DEF OpenSocket
    <3>5. store' \in Store
      BY <1>1, <1>11, <2>2 DEF OpenSocket, Store
    <3> QED
      BY <1>5, <3>3, <3>4, <3>5
  <2> QED
    BY <2>1, <2>2
<1>12. ASSUME NEW c \in Conns, Upgrade(c) PROVE conns' \in [Conns -> Conn]
  <2>1. DEFINE x == [conns[c] EXCEPT !.hub = "open"]
  <2>2. x \in Conn
    BY <1>1, <1>3, ConnFields
  <2>3. [x EXCEPT !.viewing = None] \in Conn
    BY <1>4, <2>2, ConnFields
  <2>4. conns' = [conns EXCEPT ![c] = [x EXCEPT !.viewing = None]]
    BY <1>1, <1>12 DEF Upgrade
  <2> QED
    BY <1>5, <2>3, <2>4
<1>13. ASSUME NEW c \in Conns, OnOpen(c)
       PROVE  store' \in Store /\ conns' \in [Conns -> Conn]
  <2>1. DEFINE x == [conns[c] EXCEPT !.app = "open"]
             u == IF store.viewing = None THEN <<>> ELSE <<store.viewing>>
  <2>2. x \in Conn
    BY <1>1, <1>2, ConnFields
  <2>3. u \in Seq(Viewable)
    BY <1>1 DEF Store
  <2>4. [x EXCEPT !.up = u] \in Conn
    BY <2>2, <2>3, ConnFields
  <2>5. conns' = [conns EXCEPT ![c] = [x EXCEPT !.up = u]]
    BY <1>1, <1>13 DEF OnOpen
  <2>6. store' \in Store
    BY <1>1, <1>13 DEF OnOpen, Store
  <2> QED
    BY <1>5, <2>4, <2>5, <2>6
<1>14. ASSUME NEW c \in Conns, HubHears(c) PROVE conns' \in [Conns -> Conn]
  <2>1. DEFINE x == [conns[c] EXCEPT !.viewing = Head(conns[c].up)]
  <2>2. Head(conns[c].up) \in Viewable /\ Tail(conns[c].up) \in Seq(Viewable)
    BY <1>6, <1>14 DEF HubHears
  <2>3. x \in Conn
    BY <1>1, <2>2, ConnFields
  <2>4. [x EXCEPT !.up = Tail(conns[c].up)] \in Conn
    BY <2>2, <2>3, ConnFields
  <2>5. conns' = [conns EXCEPT ![c] = [x EXCEPT !.up = Tail(conns[c].up)]]
    BY <1>1, <1>14 DEF HubHears
  <2> QED
    BY <1>5, <2>4, <2>5
<1>15. ASSUME NEW c \in Conns, Deliver(c) PROVE conns' \in [Conns -> Conn]
  <2>1. Tail(conns[c].down) \in Seq(Events)
    BY <1>6, <1>15 DEF Deliver
  <2>2. [conns[c] EXCEPT !.down = Tail(conns[c].down)] \in Conn
    BY <1>1, <2>1, ConnFields
  <2>3. conns' = [conns EXCEPT ![c] = [conns[c] EXCEPT !.down = Tail(conns[c].down)]]
    BY <1>15 DEF Deliver
  <2> QED
    BY <1>5, <2>2, <2>3
<1>16. ASSUME NEW c \in Conns, UpgradeFails(c) \/ HubNotices(c) \/ HubDrops(c)
       PROVE  conns' \in [Conns -> Conn]
  <2>1. DEFINE x == [conns[c] EXCEPT !.hub = "gone"]
  <2>2. x \in Conn
    BY <1>1, <1>3, ConnFields
  <2>3. [x EXCEPT !.up = <<>>] \in Conn
    BY <1>4, <2>2, ConnFields
  <2>4. [x EXCEPT !.up = <<>>] = [conns[c] EXCEPT !.hub = "gone", !.up = <<>>]
    OBVIOUS
  <2>5. \/ conns' = [conns EXCEPT ![c] = Idle]
        \/ conns' = [conns EXCEPT ![c] = x]
        \/ conns' = [conns EXCEPT ![c] = [x EXCEPT !.up = <<>>]]
    BY <1>1, <1>16, <2>4 DEF UpgradeFails, HubNotices, HubDrops
  <2> QED
    BY <1>5, <2>2, <2>3, <2>5, IdleType
<1>17. ASSUME NEW c \in Conns, TicketFails(c) \/ OnClose(c)
       PROVE  store' \in Store /\ conns' \in [Conns -> Conn]
  <2>1. [store EXCEPT !.socket = None] \in Store
    BY <1>1 DEF Store
  <2>2. CASE TicketFails(c)
    BY <1>1, <1>5, <1>7, <2>2, IdleType DEF TicketFails
  <2>3. CASE OnClose(c)
    <3>1. conns' = [conns EXCEPT ![c] = Forgotten(conns[c])]
      BY <2>3 DEF OnClose
    <3> QED
      BY <1>1, <1>5, <1>7, <1>8, <2>1, <2>3, <3>1 DEF OnClose
  <2> QED
    BY <1>17, <2>2, <2>3
<1>18. ASSUME NEW v \in Viewable, SetViewing(v)
       PROVE  store' \in Store /\ conns' \in [Conns -> Conn]
  <2>1. store' \in Store
    BY <1>1, <1>18 DEF SetViewing, Store
  <2>2. ASSUME store.socket # None
        PROVE  [conns EXCEPT ![store.socket].up = Append(@, v)] \in [Conns -> Conn]
    <3>1. PICK c \in Conns : c = store.socket
      BY <1>1, <2>2 DEF Store
    <3>2. Append(conns[c].up, v) \in Seq(Viewable)
      BY <1>6
    <3>3. [conns[c] EXCEPT !.up = Append(conns[c].up, v)] \in Conn
      BY <1>1, <3>2, ConnFields
    <3>4. [conns EXCEPT ![c].up = Append(@, v)]
            = [conns EXCEPT ![c] = [conns[c] EXCEPT !.up = Append(conns[c].up, v)]]
      OBVIOUS
    <3> QED
      BY <1>5, <3>1, <3>3, <3>4
  <2> QED
    BY <1>1, <1>18, <2>1, <2>2 DEF SetViewing, Sent
<1>19. ASSUME NEW e \in Events, Publish(e) PROVE conns' \in [Conns -> Conn]
  <2>1. ASSUME NEW c \in Conns
        PROVE  [conns[c] EXCEPT !.down = Append(@, e)] \in Conn
    <3>1. Append(conns[c].down, e) \in Seq(Events)
      BY <1>6
    <3> QED
      BY <1>1, <3>1, ConnFields
  <2> QED
    BY <1>1, <1>19, <2>1 DEF Publish, Frames
<1>20. ASSUME Stop PROVE store' \in Store /\ conns' \in [Conns -> Conn]
  <2>1. store' \in Store
    BY <1>1, <1>20 DEF Stop, Store
  <2>2. CASE store.socket = None
    BY <1>1, <1>20, <2>1, <2>2 DEF Stop
  <2>3. CASE store.socket # None
    <3>1. PICK c \in Conns : c = store.socket
      BY <1>1, <2>3 DEF Store
    <3>2. conns' = [conns EXCEPT ![c] = Forgotten(conns[c])]
      BY <1>20, <2>3, <3>1 DEF Stop
    <3> QED
      BY <1>1, <1>5, <1>8, <2>1, <3>2
  <2> QED
    BY <2>2, <2>3
<1>21. store' \in Store /\ conns' \in [Conns -> Conn]
  <2>1. ASSUME UNCHANGED store PROVE store' \in Store
    BY <1>1, <2>1
  <2>2. CASE UNCHANGED vars
    BY <1>1, <2>2 DEF vars
  <2>3. CASE Next
    BY <1>10, <1>11, <1>12, <1>13, <1>14, <1>15, <1>16, <1>17, <1>18, <1>19, <1>20, <2>1, <2>3
       DEF Next, Upgrade, HubHears, Deliver, UpgradeFails, HubNotices, HubDrops, Publish
  <2> QED
    BY <2>2, <2>3
<1> QED
  BY <1>9, <1>21 DEF TypeOK
-----------------------------------------------------------------------------
\* A connection the app forgets is closed or as good as never made.
LEMMA ForgottenIsClosed ==
    ASSUME NEW conn \in Conn
    PROVE  Forgotten(conn).app \in {"idle", "closed"}
<1>1. CASE conn.hub \in {"none", "gone"}
  BY <1>1 DEF Forgotten, Idle
<1>2. CASE conn.hub \notin {"none", "gone"}
  <2>1. Forgotten(conn) = [conn EXCEPT !.app = "closed", !.up = <<>>, !.down = <<>>]
    BY <1>2 DEF Forgotten
  <2> QED
    BY <2>1 DEF Conn
<1> QED
  BY <1>1, <1>2

\* The hub's own steps on a connection: the app's stage stays, or the connection
\* is given back; where the socket ends, nothing said over it is left or all is.
LEMMA HubEnds ==
    ASSUME conns \in [Conns -> Conn], NEW c \in Conns,
           UpgradeFails(c) \/ HubNotices(c) \/ HubDrops(c)
    PROVE  \/ conns[c].app = "closed" /\ conns'[c].app = "idle"
           \/ /\ conns'[c].app = conns[c].app /\ conns'[c].hub = "gone"
              /\ conns'[c].up \in {conns[c].up, <<>>}
<1>1. CASE UpgradeFails(c)
  <2>1. CASE conns[c].app = "closed"
    <3>1. conns'[c] = Idle
      BY <1>1, <2>1 DEF UpgradeFails
    <3> QED
      BY <2>1, <3>1 DEF Idle
  <2>2. CASE conns[c].app # "closed"
    <3>1. conns'[c] = [conns[c] EXCEPT !.hub = "gone"]
      BY <1>1, <2>2 DEF UpgradeFails
    <3> QED
      BY <3>1 DEF Conn
  <2> QED
    BY <2>1, <2>2
<1>2. CASE HubNotices(c)
  <2>1. conns'[c] = Idle /\ conns[c].app = "closed"
    BY <1>2 DEF HubNotices
  <2> QED
    BY <2>1 DEF Idle
<1>3. CASE HubDrops(c)
  <2>1. CASE conns[c].app = "closed"
    <3>1. conns'[c] = Idle
      BY <1>3, <2>1 DEF HubDrops
    <3> QED
      BY <2>1, <3>1 DEF Idle
  <2>2. CASE conns[c].app # "closed"
    <3>1. conns'[c] = [conns[c] EXCEPT !.hub = "gone", !.up = <<>>]
      BY <1>3, <2>2 DEF HubDrops
    <3> QED
      BY <3>1 DEF Conn
  <2> QED
    BY <2>1, <2>2
<1> QED
  BY <1>1, <1>2, <1>3

\* Where no connection changes at the app, one socket stays one socket.
LEMMA AppSame ==
    ASSUME OneSocket, \A c \in Conns : conns'[c].app = conns[c].app,
           store'.timer = store.timer, store'.socket = store.socket
    PROVE  OneSocket' /\ Alive' = Alive
BY DEF OneSocket, Alive

LEMMA OneSocketStep ==
    ASSUME TypeOK, TypeOK', OneSocket, Stages, [Next]_vars
    PROVE  OneSocket' /\ Stages'
<1>1. conns \in [Conns -> Conn] /\ store \in Store
  BY DEF TypeOK
<1>2. ASSUME NEW c \in Conns, Start(c) \/ Reconnect(c) PROVE OneSocket' /\ Stages'
  <2>1. Alive = {} /\ ~store'.timer /\ store'.stage = "started"
    BY <1>1, <1>2 DEF Start, Reconnect, OneSocket, Stages, Store
  <2>2. conns'[c].app = "asking" /\ \A d \in Conns \ {c} : conns'[d] = conns[d]
    BY <1>1, <1>2 DEF Start, Reconnect, Connect, Conn
  <2>3. Alive' = {c}
    BY <2>1, <2>2 DEF Alive
  <2> QED
    BY <2>1, <2>2, <2>3 DEF OneSocket, Stages, Alive
<1>3. ASSUME NEW c \in Conns, OpenSocket(c) PROVE OneSocket' /\ Stages'
  <2>1. c \in Alive /\ Alive = {c} /\ ~store.timer
    BY <1>3 DEF OpenSocket, Alive, OneSocket
  <2>2. CASE Stopped(store)
    <3>1. conns'[c].app = "idle" /\ (\A d \in Conns \ {c} : conns'[d] = conns[d])
            /\ store' = store
      BY <1>1, <1>3, <2>2 DEF OpenSocket, Idle
    <3>2. Alive' = {}
      BY <2>1, <3>1 DEF Alive
    <3> QED
      BY <2>1, <3>1, <3>2 DEF OneSocket, Stages, Alive
  <2>3. CASE ~Stopped(store)
    <3>1. conns'[c].app = "opening" /\ \A d \in Conns \ {c} : conns'[d] = conns[d]
      BY <1>1, <1>3, <2>3 DEF OpenSocket, Conn
    <3>2. store'.socket = c /\ store'.timer = store.timer /\ store'.stage = "started"
      BY <1>1, <1>3, <2>3 DEF OpenSocket, Store, Stopped
    <3>3. Alive' = {c}
      BY <2>1, <3>1 DEF Alive
    <3> QED
      BY <2>1, <3>1, <3>2, <3>3 DEF OneSocket, Stages, Alive
  <2> QED
    BY <2>2, <2>3
<1>4. ASSUME NEW c \in Conns, OnOpen(c) PROVE OneSocket' /\ Stages'
  <2>1. conns'[c].app = "open" /\ \A d \in Conns \ {c} : conns'[d] = conns[d]
    BY <1>1, <1>4 DEF OnOpen, Conn
  <2>2. store'.socket = store.socket /\ store'.timer = store.timer /\ store'.stage = store.stage
    BY <1>1, <1>4 DEF OnOpen, Store
  <2>3. Alive' = Alive /\ store.socket = c
    BY <1>4, <2>1 DEF Alive, OnOpen
  <2>4. OneSocket'
    BY <2>1, <2>2, <2>3 DEF OneSocket
  <2>5. Stages'
    BY <2>2, <2>3 DEF Stages
  <2> QED
    BY <2>4, <2>5
<1>5. ASSUME NEW c \in Conns,
             \/ Upgrade(c) \/ UpgradeFails(c) \/ HubHears(c)
             \/ HubNotices(c) \/ HubDrops(c) \/ Deliver(c)
      PROVE  OneSocket' /\ Stages'
  <2>1. store' = store /\ \A d \in Conns \ {c} : conns'[d] = conns[d]
    BY <1>1, <1>5 DEF Upgrade, UpgradeFails, HubHears, HubNotices, HubDrops, Deliver
  <2>2. \/ conns'[c].app = conns[c].app
        \/ conns[c].app = "closed" /\ conns'[c].app = "idle"
    <3>1. CASE Upgrade(c) \/ HubHears(c) \/ Deliver(c)
      BY <1>1, <3>1 DEF Upgrade, HubHears, Deliver, Conn
    <3>2. CASE UpgradeFails(c) \/ HubNotices(c) \/ HubDrops(c)
      BY <1>1, <3>2, HubEnds
    <3> QED
      BY <1>5, <3>1, <3>2
  <2>3. Alive' = Alive
    BY <2>1, <2>2 DEF Alive
  <2> QED
    BY <2>1, <2>2, <2>3 DEF OneSocket, Stages
<1>6. ASSUME NEW c \in Conns, TicketFails(c) \/ OnClose(c) PROVE OneSocket' /\ Stages'
  <2>1. Alive = {c} /\ ~store.timer
    BY <1>6 DEF TicketFails, OnClose, Alive, OneSocket
  <2>2. conns'[c].app \in {"idle", "closed"} /\ \A d \in Conns \ {c} : conns'[d] = conns[d]
    <3>1. conns'[c] = Idle \/ conns'[c] = Forgotten(conns[c])
      BY <1>1, <1>6 DEF TicketFails, OnClose
    <3>2. \A d \in Conns \ {c} : conns'[d] = conns[d]
      BY <1>1, <1>6 DEF TicketFails, OnClose
    <3> QED
      BY <1>1, <3>1, <3>2, ForgottenIsClosed DEF Idle
  <2>3. Alive' = {}
    BY <2>1, <2>2 DEF Alive
  <2>4. store'.stage = store.stage /\ (store.stage # "started" => ~store'.timer)
    BY <1>1, <1>6, <2>1 DEF TicketFails, OnClose, Rescheduled, Stopped, Store
  <2> QED
    BY <2>3, <2>4 DEF OneSocket, Stages, Alive
<1>7. ASSUME NEW v \in Viewable, SetViewing(v) PROVE OneSocket' /\ Stages'
  <2>1. store'.stage = store.stage /\ store'.timer = store.timer /\ store'.socket = store.socket
    BY <1>1, <1>7 DEF SetViewing, Store
  <2>2. \A c \in Conns : conns'[c].app = conns[c].app
    BY <1>1, <1>7 DEF SetViewing, Sent, Conn
  <2> QED
    BY <2>1, <2>2, AppSame DEF Stages
<1>8. ASSUME NEW e \in Events, Publish(e) PROVE OneSocket' /\ Stages'
  <2>1. store' = store /\ \A c \in Conns : conns'[c].app = conns[c].app
    BY <1>1, <1>8 DEF Publish, Frames, Conn
  <2> QED
    BY <2>1, AppSame DEF Stages
<1>9. ASSUME Stop PROVE OneSocket' /\ Stages'
  <2>1. store'.stage = "left" /\ ~store'.timer
    BY <1>1, <1>9 DEF Stop, Store
  <2>2. \A c \in Conns : \/ conns'[c] = conns[c] /\ c # store.socket
                        \/ conns'[c].app \in {"idle", "closed"}
    BY <1>1, <1>9, RealtimeAssumption DEF Stop, Forgotten, Idle, Conn
  <2>3. Alive' \subseteq Alive
    BY <2>2 DEF Alive
  <2>4. \A c \in Conns : conns'[c].app \notin {"opening", "open"}
    BY <2>2 DEF OneSocket
  <2> QED
    BY <2>1, <2>3, <2>4 DEF OneSocket, Stages
<1>10. CASE UNCHANGED vars
  BY <1>10 DEF vars, OneSocket, Stages, Alive
<1> QED
  BY <1>2, <1>3, <1>4, <1>5, <1>6, <1>7, <1>8, <1>9, <1>10 DEF Next
-----------------------------------------------------------------------------
\* Presence, of one connection.
AsLastSaid(v, conn) ==
    conn.app = "open" /\ conn.hub = "open" =>
        v = IF conn.up = <<>> THEN conn.viewing ELSE Last(conn.up)
Fresh(conn) ==
    /\ conn.app \in {"asking", "opening"} => conn.up = <<>>
    /\ conn.app = "opening" /\ conn.hub = "open" => conn.viewing = None

LEMMA PerConn ==
    /\ PresenceFollowsScreen <=> \A c \in Conns : AsLastSaid(store.viewing, conns[c])
    /\ FreshBeforeOpen <=> \A c \in Conns : Fresh(conns[c])
BY DEF PresenceFollowsScreen, FreshBeforeOpen, AsLastSaid, Fresh

\* What is appended is what is last.
LEMMA LastAppended ==
    ASSUME NEW S, NEW s \in Seq(S), NEW x \in S
    PROVE  Append(s, x) # <<>> /\ Last(Append(s, x)) = x
BY DEF Last

\* What is taken from the front leaves the last as it is.
LEMMA LastOfTail ==
    ASSUME NEW S, NEW s \in Seq(S), s # <<>>
    PROVE  Last(s) = IF Tail(s) = <<>> THEN Head(s) ELSE Last(Tail(s))
<1> DEFINE t == Tail(s)
           n == Len(s)
<1>1. /\ t \in Seq(S) /\ Len(t) = n - 1
      /\ Head(s) = s[1] /\ \A i \in 1 .. Len(t) : t[i] = s[i + 1]
  BY HeadTailProperties
<1>2. n \in Nat \ {0}
  BY EmptySeq
<1>3. t = <<>> <=> n = 1
  BY <1>1, <1>2, EmptySeq
<1>4. Last(s) = s[n] /\ Last(t) = t[Len(t)]
  BY DEF Last
<1> HIDE DEF t, n
<1>5. n # 1 => t[n - 1] = s[(n - 1) + 1]
  BY <1>1, <1>2
<1>6. (n - 1) + 1 = n
  BY <1>2
<1>7. Last(s) = IF t = <<>> THEN Head(s) ELSE Last(t)
  BY <1>1, <1>3, <1>4, <1>5, <1>6
<1> QED
  BY <1>7 DEF t

LEMMA PresenceStep ==
    ASSUME SocketInv, TypeOK', [Next]_vars
    PROVE  PresenceFollowsScreen' /\ FreshBeforeOpen'
<1> DEFINE Kept(conn) == AsLastSaid(store.viewing, conn) /\ Fresh(conn)
           KeptNow(conn) == AsLastSaid(store'.viewing, conn) /\ Fresh(conn)
<1>1. conns \in [Conns -> Conn] /\ store \in Store
  BY DEF SocketInv, TypeOK
<1>2. \A c \in Conns : Kept(conns[c])
  BY PerConn DEF SocketInv
<1>3. (\A c \in Conns : KeptNow(conns'[c])) => PresenceFollowsScreen' /\ FreshBeforeOpen'
  BY DEF PresenceFollowsScreen, FreshBeforeOpen, AsLastSaid, Fresh
<1>4. ASSUME NEW c \in Conns, KeptNow(conns'[c]), store'.viewing = store.viewing,
             \A d \in Conns \ {c} : conns'[d] = conns[d]
      PROVE  PresenceFollowsScreen' /\ FreshBeforeOpen'
  BY <1>2, <1>3, <1>4
<1>5. ASSUME NEW c \in Conns, Start(c) \/ Reconnect(c)
      PROVE  PresenceFollowsScreen' /\ FreshBeforeOpen'
  <2>1. store'.viewing = store.viewing /\ \A d \in Conns \ {c} : conns'[d] = conns[d]
    BY <1>1, <1>5 DEF Start, Reconnect, Connect, Store
  <2>2. conns'[c].app = "asking" /\ conns'[c].up = <<>>
    BY <1>1, <1>5 DEF Start, Reconnect, Connect, Idle, Conn
  <2> QED
    BY <1>4, <2>1, <2>2 DEF AsLastSaid, Fresh
<1>6. ASSUME NEW c \in Conns, OpenSocket(c)
      PROVE  PresenceFollowsScreen' /\ FreshBeforeOpen'
  <2>1. store'.viewing = store.viewing /\ \A d \in Conns \ {c} : conns'[d] = conns[d]
    BY <1>1, <1>6 DEF OpenSocket, Store
  <2>2. conns'[c].app = "idle"
          \/ (conns'[c].app = "opening" /\ conns'[c].hub = "ticket" /\ conns'[c].up = conns[c].up)
    BY <1>1, <1>6 DEF OpenSocket, Idle, Conn
  <2>3. conns[c].up = <<>>
    BY <1>2, <1>6 DEF OpenSocket, Fresh
  <2> QED
    BY <1>4, <2>1, <2>2, <2>3 DEF AsLastSaid, Fresh
<1>7. ASSUME NEW c \in Conns, Upgrade(c)
      PROVE  PresenceFollowsScreen' /\ FreshBeforeOpen'
  <2>1. store'.viewing = store.viewing /\ \A d \in Conns \ {c} : conns'[d] = conns[d]
    BY <1>1, <1>7 DEF Upgrade
  <2>2. /\ conns'[c].app = conns[c].app /\ conns[c].app \in {"opening", "closed"}
        /\ conns'[c].viewing = None /\ conns'[c].up = conns[c].up
    BY <1>1, <1>7 DEF Upgrade, Conn
  <2> QED
    BY <1>2, <1>4, <2>1, <2>2 DEF AsLastSaid, Fresh
<1>8. ASSUME NEW c \in Conns, OnOpen(c)
      PROVE  PresenceFollowsScreen' /\ FreshBeforeOpen'
  <2>1. store'.viewing = store.viewing /\ \A d \in Conns \ {c} : conns'[d] = conns[d]
    BY <1>1, <1>8 DEF OnOpen, Store
  <2>2. /\ conns'[c].app = "open" /\ conns'[c].viewing = conns[c].viewing
        /\ conns'[c].up = IF store.viewing = None THEN <<>> ELSE <<store.viewing>>
    BY <1>1, <1>8 DEF OnOpen, Conn
  <2>3. conns[c].viewing = None
    BY <1>2, <1>8 DEF OnOpen, Fresh
  <2>4. AsLastSaid(store.viewing, conns'[c])
    BY <2>2, <2>3 DEF AsLastSaid, Last
  <2> QED
    BY <1>4, <2>1, <2>2, <2>4 DEF Fresh
<1>9. ASSUME NEW c \in Conns, HubHears(c)
      PROVE  PresenceFollowsScreen' /\ FreshBeforeOpen'
  <2>1. store'.viewing = store.viewing /\ \A d \in Conns \ {c} : conns'[d] = conns[d]
    BY <1>1, <1>9 DEF HubHears
  <2> DEFINE up == conns[c].up
  <2>2. /\ conns'[c].app = conns[c].app /\ conns'[c].hub = conns[c].hub
        /\ conns'[c].viewing = Head(up) /\ conns'[c].up = Tail(up)
        /\ conns[c].hub = "open" /\ up # <<>> /\ up \in Seq(Viewable)
    BY <1>1, <1>9 DEF HubHears, Conn
  <2>3. Last(up) = IF Tail(up) = <<>> THEN Head(up) ELSE Last(Tail(up))
    BY <2>2, LastOfTail
  <2>4. conns[c].app \notin {"asking", "opening"}
    BY <1>2, <2>2 DEF Fresh
  <2>5. Fresh(conns'[c])
    BY <2>2, <2>4 DEF Fresh
  <2>6. AsLastSaid(store.viewing, conns'[c])
    <3>1. conns[c].app = "open" => store.viewing = Last(up)
      BY <1>2, <2>2 DEF AsLastSaid
    <3> HIDE DEF up
    <3> QED
      BY <2>2, <2>3, <3>1 DEF AsLastSaid
  <2> QED
    BY <1>4, <2>1, <2>5, <2>6
<1>10. ASSUME NEW c \in Conns, Deliver(c)
       PROVE  PresenceFollowsScreen' /\ FreshBeforeOpen'
  <2>1. store'.viewing = store.viewing /\ \A d \in Conns \ {c} : conns'[d] = conns[d]
    BY <1>1, <1>10 DEF Deliver
  <2>2. /\ conns'[c].app = conns[c].app /\ conns'[c].hub = conns[c].hub
        /\ conns'[c].viewing = conns[c].viewing /\ conns'[c].up = conns[c].up
    BY <1>1, <1>10 DEF Deliver, Conn
  <2> QED
    BY <1>2, <1>4, <2>1, <2>2 DEF AsLastSaid, Fresh
<1>11. ASSUME NEW c \in Conns, UpgradeFails(c) \/ HubNotices(c) \/ HubDrops(c)
       PROVE  PresenceFollowsScreen' /\ FreshBeforeOpen'
  <2>1. store'.viewing = store.viewing /\ \A d \in Conns \ {c} : conns'[d] = conns[d]
    BY <1>1, <1>11 DEF UpgradeFails, HubNotices, HubDrops
  <2>2. \/ conns'[c].app = "idle"
        \/ /\ conns'[c].app = conns[c].app /\ conns'[c].hub = "gone"
           /\ conns'[c].up \in {conns[c].up, <<>>}
    BY <1>1, <1>11, HubEnds
  <2> QED
    BY <1>2, <1>4, <2>1, <2>2 DEF AsLastSaid, Fresh
<1>12. ASSUME NEW c \in Conns, TicketFails(c) \/ OnClose(c)
       PROVE  PresenceFollowsScreen' /\ FreshBeforeOpen'
  <2>1. store'.viewing = store.viewing /\ \A d \in Conns \ {c} : conns'[d] = conns[d]
    BY <1>1, <1>12 DEF TicketFails, OnClose, Rescheduled, Store
  <2>2. conns'[c].app \in {"idle", "closed"}
    <3>1. conns'[c] = Idle \/ conns'[c] = Forgotten(conns[c])
      BY <1>1, <1>12 DEF TicketFails, OnClose
    <3> QED
      BY <1>1, <3>1, ForgottenIsClosed DEF Idle
  <2> QED
    BY <1>4, <2>1, <2>2 DEF AsLastSaid, Fresh
<1>13. ASSUME NEW v \in Viewable, SetViewing(v)
       PROVE  PresenceFollowsScreen' /\ FreshBeforeOpen'
  <2>1. store'.viewing = v
    BY <1>1, <1>13 DEF SetViewing, Store
  <2>2. SUFFICES ASSUME NEW c \in Conns PROVE KeptNow(conns'[c])
    BY <1>3
  <2>3. CASE conns[c].app = "open"
    <3>1. store.socket = c /\ c # None
      BY <2>3, RealtimeAssumption DEF SocketInv, OneSocket
    <3>2. conns'[c].up = Append(conns[c].up, v) /\ conns'[c].app = "open"
      BY <1>1, <1>13, <2>3, <3>1 DEF SetViewing, Sent, Conn
    <3>3. conns[c].up \in Seq(Viewable)
      BY <1>1 DEF Conn
    <3> QED
      BY <2>1, <3>2, <3>3, LastAppended DEF AsLastSaid, Fresh
  <2>4. CASE conns[c].app # "open"
    <3>1. conns'[c] = conns[c]
      BY <1>1, <1>13, <2>4 DEF SetViewing, Sent
    <3> QED
      BY <1>2, <2>4, <3>1 DEF AsLastSaid, Fresh
  <2> QED
    BY <2>3, <2>4
<1>14. ASSUME NEW e \in Events, Publish(e)
       PROVE  PresenceFollowsScreen' /\ FreshBeforeOpen'
  <2>1. SUFFICES ASSUME NEW c \in Conns PROVE KeptNow(conns'[c])
    BY <1>3
  <2>2. /\ conns'[c].app = conns[c].app /\ conns'[c].hub = conns[c].hub
        /\ conns'[c].viewing = conns[c].viewing /\ conns'[c].up = conns[c].up
        /\ store' = store
    BY <1>1, <1>14 DEF Publish, Frames, Conn
  <2> QED
    BY <1>2, <2>2 DEF AsLastSaid, Fresh
<1>15. ASSUME Stop PROVE PresenceFollowsScreen' /\ FreshBeforeOpen'
  <2>1. SUFFICES ASSUME NEW c \in Conns PROVE KeptNow(conns'[c])
    BY <1>3
  <2>2. store'.viewing = store.viewing
    BY <1>1, <1>15 DEF Stop, Store
  <2>3. conns'[c] = conns[c] \/ conns'[c].app \in {"idle", "closed"}
    BY <1>1, <1>15 DEF Stop, Forgotten, Idle, Conn
  <2> QED
    BY <1>2, <2>2, <2>3 DEF AsLastSaid, Fresh
<1>16. CASE UNCHANGED vars
  BY <1>2, <1>3, <1>16 DEF vars
<1> QED
  BY <1>5, <1>6, <1>7, <1>8, <1>9, <1>10, <1>11, <1>12, <1>13, <1>14, <1>15, <1>16 DEF Next

LEMMA SocketInvariant == Spec => []SocketInv
<1>1. SocketInv /\ [Next]_vars => SocketInv'
  BY TypeStep, OneSocketStep, PresenceStep DEF SocketInv
<1> QED
  BY InitSocketInv, <1>1, PTL DEF Spec

\* However sockets are lost, the store has one at most (realtime.svelte.ts 81-98,
\* 129-176), for any number of connections and failures.
THEOREM OneSocketHolds == Spec => []OneSocket
<1>1. SocketInv => OneSocket
  BY DEF SocketInv
<1> QED
  BY SocketInvariant, <1>1, PTL

\* What the hub believes of the screen is what the store last said of it
\* (realtime.svelte.ts 120-148, hub.ts 386-401), for any number of threads,
\* connections and failures.
THEOREM PresenceHolds == Spec => []PresenceFollowsScreen
<1>1. SocketInv => PresenceFollowsScreen
  BY DEF SocketInv
<1> QED
  BY SocketInvariant, <1>1, PTL

-----------------------------------------------------------------------------
(* The screens.                                                            *)

Entry == [kind : Kinds, by : {"other", "mounted", "left"}]
ViewRec == [loaded : BOOLEAN, failed : BOOLEAN, shown : SUBSET Nat, seen : SUBSET Nat,
            wants : Filters, holds : Filters]

\* A request of the right shape.
IsRequest(r) ==
    /\ r \in [view : Views, what : {"load", "act", "reserve", "send", "read", "update"}, n : {r.n},
              at : Int, gone : BOOLEAN, filter : Filters, before : SUBSET Nat]
    /\ r.what = "load" => r.at >= 0
    /\ r.what = "act" => r.view \notin {"me", "board", "thread", "reservations"}

\* The requests whose answers a counting view still takes.
Counts(r) == r.what = "load" /\ r.gone = FALSE /\ r.view \in Lists

SolidIn(lg, vw, v) ==
    IF v = "thread" THEN {i \in vw[v].shown : lg[i].by = "other"} ELSE vw[v].shown

TypesOf(lg, vw, reqs) ==
    /\ lg \in Seq(Entry)
    /\ vw \in [Views -> ViewRec]
    /\ \A r \in reqs : IsRequest(r)

\* What is shown was committed.
Committed(lg, vw) == \A v \in Lists : vw[v].shown \subseteq 1 .. Len(lg)

\* A request that counts was sent after all that its view shows was committed.
Ahead(lg, vw, reqs) ==
    \A r \in reqs : Counts(r) => r.at <= Len(lg) /\ SolidIn(lg, vw, r.view) \subseteq 1 .. r.at

Single(reqs) ==
    \A r, q \in reqs : Counts(r) /\ Counts(q) /\ r.view = q.view => r = q

\* A message that was sent is not another member's.
OwnSends(lg, reqs) ==
    \A r \in reqs : r.what = "send" /\ r.at >= 0 => r.at \in 1 .. Len(lg) /\ lg[r.at].by # "other"

Safe(lg, vw, reqs) ==
    /\ TypesOf(lg, vw, reqs)
    /\ Committed(lg, vw)
    /\ Ahead(lg, vw, reqs)
    /\ Single(reqs)
    /\ OwnSends(lg, reqs)

RouteOK == route \in Routes \cup {"starting", "gate"}

IInv == Safe(log, view, requests) /\ RouteOK

LEMMA InitIInv == ScreensInit => IInv
<1> SUFFICES ASSUME ScreensInit PROVE IInv
  OBVIOUS
<1>1. log = <<>> /\ view = [v \in Views |-> Empty]
        /\ requests = {[view |-> "me", what |-> "load", n |-> 1, at |-> 0,
                        gone |-> FALSE, filter |-> 1, before |-> {}]}
  BY DEF ScreensInit
<1>2. Empty \in ViewRec
  BY DEF Empty, ViewRec, Filters
<1>3. TypesOf(log, view, requests)
  BY <1>1, <1>2 DEF TypesOf, IsRequest, Views, Filters
<1>4. Committed(log, view)
  BY <1>1 DEF Committed, Lists, Views, Empty
<1>5. \A r \in requests : ~Counts(r) /\ r.what # "send"
  BY <1>1 DEF Counts, Lists
<1> QED
  BY <1>3, <1>4, <1>5 DEF IInv, Safe, Ahead, Single, OwnSends, RouteOK, ScreensInit

\* Forgetting requests is safe.
LEMMA Fewer ==
    ASSUME NEW lg, NEW vw, NEW reqs, Safe(lg, vw, reqs), NEW fewer \in SUBSET reqs
    PROVE  Safe(lg, vw, fewer)
BY DEF Safe, TypesOf, Ahead, Single, OwnSends

\* So is adding one that does not count and is not an answered message.
LEMMA OneMore ==
    ASSUME NEW lg, NEW vw, NEW reqs, Safe(lg, vw, reqs),
           NEW r, IsRequest(r), ~Counts(r), r.what = "send" => r.at < 0
    PROVE  Safe(lg, vw, reqs \cup {r})
BY DEF Safe, TypesOf, Ahead, Single, OwnSends, IsRequest

\* And one that counts, sent now, once the others of its view are forgotten.
LEMMA OneMoreCounted ==
    ASSUME NEW vw, NEW reqs, Safe(log, vw, reqs),
           NEW r, IsRequest(r), r.what = "load", r.at = Len(log),
           \A q \in reqs : Counts(q) => q.view # r.view
    PROVE  Safe(log, vw, reqs \cup {r})
<1>1. TypesOf(log, vw, reqs \cup {r})
  BY DEF Safe, TypesOf
<1>2. Single(reqs \cup {r})
  BY DEF Safe, Single
<1>3. Counts(r) => SolidIn(log, vw, r.view) \subseteq 1 .. r.at
  BY DEF Safe, Committed, Counts, SolidIn
<1>4. Len(log) \in Nat
  BY DEF Safe, TypesOf
<1>5. Ahead(log, vw, reqs \cup {r})
  BY <1>3, <1>4 DEF Safe, Ahead
<1> QED
  BY <1>1, <1>2, <1>5 DEF Safe, OwnSends

\* So is showing less.
LEMMA ShowingLess ==
    ASSUME NEW lg, NEW vw, NEW reqs, Safe(lg, vw, reqs),
           NEW less \in [Views -> ViewRec],
           \A v \in Lists : less[v].shown \subseteq vw[v].shown
    PROVE  Safe(lg, less, reqs)
<1>1. \A v \in Lists : SolidIn(lg, less, v) \subseteq SolidIn(lg, vw, v)
  BY DEF SolidIn
<1>2. Ahead(lg, less, reqs)
  BY <1>1 DEF Safe, Ahead, Counts
<1> QED
  BY <1>2 DEF Safe, TypesOf, Committed

\* A write of a message or of anything else, sent or answered.
LEMMA OneChanged ==
    ASSUME NEW lg, NEW vw, NEW reqs, Safe(lg, vw, reqs), NEW r \in reqs,
           NEW q, IsRequest(q), ~Counts(q),
           q.what = "send" /\ q.at >= 0 => q.at \in 1 .. Len(lg) /\ lg[q.at].by # "other"
    PROVE  Safe(lg, vw, (reqs \ {r}) \cup {q})
BY DEF Safe, TypesOf, Ahead, Single, OwnSends

\* The log grows.
LEMMA Grows ==
    ASSUME NEW lg, NEW vw, NEW reqs, Safe(lg, vw, reqs), NEW e \in Entry
    PROVE  /\ Safe(Append(lg, e), vw, reqs)
           /\ \A v \in Lists : SolidIn(Append(lg, e), vw, v) = SolidIn(lg, vw, v)
<1> DEFINE more == Append(lg, e)
<1>1. /\ lg \in Seq(Entry) /\ more \in Seq(Entry) /\ Len(more) = Len(lg) + 1
      /\ Len(lg) \in Nat
      /\ \A i \in 1 .. Len(lg) : more[i] = lg[i]
  BY DEF Safe, TypesOf
<1>2. \A v \in Lists : vw[v].shown \subseteq 1 .. Len(lg)
  BY DEF Safe, Committed
<1>3. \A v \in Lists : SolidIn(more, vw, v) = SolidIn(lg, vw, v)
  BY <1>1, <1>2 DEF SolidIn
<1>4. TypesOf(more, vw, reqs)
  BY <1>1 DEF Safe, TypesOf
<1>5. Committed(more, vw)
  BY <1>1, <1>2 DEF Committed
<1>6. Ahead(more, vw, reqs)
  <2>1. SUFFICES ASSUME NEW r \in reqs, Counts(r)
                 PROVE  r.at <= Len(more) /\ SolidIn(more, vw, r.view) \subseteq 1 .. r.at
    BY DEF Ahead
  <2>2. r.view \in Lists /\ r.at \in Int
    BY <2>1 DEF Safe, TypesOf, IsRequest, Counts
  <2> QED
    BY <1>1, <1>3, <2>1, <2>2 DEF Safe, Ahead
<1>7. OwnSends(more, reqs)
  BY <1>1 DEF Safe, OwnSends
<1> HIDE DEF more
<1> QED
  BY <1>3, <1>4, <1>5, <1>6, <1>7 DEF Safe, more
-----------------------------------------------------------------------------
\* What asking and leaving do to the requests.

LEMMA RequestIs ==
    ASSUME view \in [Views -> ViewRec], log \in Seq(Entry),
           NEW reqs, NEW v \in Views, NEW what \in {"load", "act", "reserve", "send", "update"},
           NEW gone \in BOOLEAN,
           what = "act" => v \notin {"me", "board", "thread", "reservations"}
    PROVE  /\ IsRequest(Request(reqs, v, what, gone))
           /\ Request(reqs, v, what, gone).view = v
           /\ Request(reqs, v, what, gone).what = what
           /\ Request(reqs, v, what, gone).gone = gone
           /\ what = "load" => Request(reqs, v, what, gone).at = Len(log)
           /\ what # "load" => Request(reqs, v, what, gone).at = Unserved
<1> DEFINE at == IF what = "load" THEN Len(log) ELSE Unserved
           before == IF what = "update" THEN view["me"].shown ELSE {}
           R(n) == [view |-> v, what |-> what, n |-> n, at |-> at, gone |-> gone,
                    filter |-> view[v].wants, before |-> before]
<1>1. PICK n : Request(reqs, v, what, gone) = R(n)
  BY Zenon DEF Request
<1>2. /\ at \in Int /\ (what = "load" => at >= 0)
      /\ view[v].wants \in Filters /\ before \in SUBSET Nat
  BY DEF Unserved, ViewRec, Views
<1> HIDE DEF at, before
<1>3. IsRequest(R(n))
  BY <1>2 DEF IsRequest
<1> QED
  BY <1>1, <1>3 DEF at

\* What a view asks for is what it wants.
LEMMA RequestFilter ==
    ASSUME NEW reqs, NEW v, NEW what, NEW gone
    PROVE  Request(reqs, v, what, gone).filter = view[v].wants
<1> DEFINE R(n) == [view |-> v, what |-> what, n |-> n,
                    at |-> IF what = "load" THEN Len(log) ELSE Unserved,
                    gone |-> gone, filter |-> view[v].wants,
                    before |-> IF what = "update" THEN view["me"].shown ELSE {}]
<1>1. PICK n : Request(reqs, v, what, gone) = R(n)
  BY Zenon DEF Request
<1>2. R(n).filter = view[v].wants
  OBVIOUS
<1> QED
  BY <1>1, <1>2, Zenon

LEMMA LoadIs ==
    ASSUME view \in [Views -> ViewRec], log \in Seq(Entry),
           NEW reqs, NEW v \in Views, NEW gone \in BOOLEAN
    PROVE  /\ IsRequest(Request(reqs, v, "load", gone))
           /\ Request(reqs, v, "load", gone).view = v
           /\ Request(reqs, v, "load", gone).what = "load"
           /\ Request(reqs, v, "load", gone).gone = gone
           /\ Request(reqs, v, "load", gone).at = Len(log)
<1>1. "load" \in {"load", "act", "reserve", "send", "update"} /\ "load" # "act"
  OBVIOUS
<1>2. \A what \in {"load", "act", "reserve", "send", "update"} :
        (what = "act" => v \notin {"me", "board", "thread", "reservations"})
          => /\ IsRequest(Request(reqs, v, what, gone))
             /\ Request(reqs, v, what, gone).view = v
             /\ Request(reqs, v, what, gone).what = what
             /\ Request(reqs, v, what, gone).gone = gone
             /\ what = "load" => Request(reqs, v, what, gone).at = Len(log)
  <2> TAKE what \in {"load", "act", "reserve", "send", "update"}
  <2> HAVE what = "act" => v \notin {"me", "board", "thread", "reservations"}
  <2> QED
    BY RequestIs, SMTT(60)
<1> QED
  BY ONLY <1>1, <1>2

LEMMA WriteIs ==
    ASSUME view \in [Views -> ViewRec], log \in Seq(Entry),
           NEW reqs, NEW v \in Views, NEW what \in {"act", "reserve", "send", "update"},
           what = "act" => v \notin {"me", "board", "thread", "reservations"}
    PROVE  /\ IsRequest(Request(reqs, v, what, FALSE))
           /\ Request(reqs, v, what, FALSE).what = what
           /\ Request(reqs, v, what, FALSE).at = Unserved
           /\ Request(reqs, v, what, FALSE).gone = FALSE
<1>1. what \in {"load", "act", "reserve", "send", "update"} /\ what # "load"
  OBVIOUS
<1>2. \A gone \in BOOLEAN : /\ IsRequest(Request(reqs, v, what, gone))
                            /\ Request(reqs, v, what, gone).what = what
                            /\ Request(reqs, v, what, gone).at = Unserved
                            /\ Request(reqs, v, what, gone).gone = gone
  <2> TAKE gone \in BOOLEAN
  <2> QED
    BY <1>1, RequestIs, SMTT(60)
<1> QED
  BY ONLY <1>2

\* The views that count their requests.
LEMMA GuardedIs == \A v \in Lists : Guarded(v)
BY DEF Lists, Guarded, Behaviour, MeView, BoardView, OffersView, OfferView,
       ReservationsView, ReservationView, ThreadView, MembersView, CatalogView

LEMMA CountedFewer ==
    ASSUME NEW reqs, NEW V, NEW gone
    PROVE  /\ Counted(reqs, V, gone) \subseteq reqs
           /\ gone = FALSE => \A q \in Counted(reqs, V, gone) : Counts(q) => q.view \notin V
<1>1. Counted(reqs, V, gone) \subseteq reqs
  BY DEF Counted
<1>2. ASSUME gone = FALSE, NEW q \in Counted(reqs, V, gone), Counts(q), q.view \in V
      PROVE  FALSE
  <2>1. q.view \in V /\ Guarded(q.view) /\ q.what = "load" /\ q.gone = FALSE
    BY <1>2, GuardedIs DEF Counts, Lists
  <2> QED
    BY <1>2, <2>1 DEF Counted
<1> QED
  BY <1>1, <1>2

LEMMA LoadsSafe ==
    ASSUME view \in [Views -> ViewRec], NEW vw, NEW reqs, Safe(log, vw, reqs),
           NEW V \in SUBSET Views
    PROVE  Safe(log, vw, Loads(reqs, V))
<1> DEFINE others == Counted(reqs, V, FALSE)
           R(v) == Request(others, v, "load", FALSE)
           all == others \cup {R(v) : v \in V}
<1>1. Loads(reqs, V) = all
  BY DEF Loads
<1>2. others \subseteq reqs /\ \A q \in others : Counts(q) => q.view \notin V
  BY CountedFewer
<1>3. Safe(log, vw, others)
  BY <1>2, Fewer
<1>4. log \in Seq(Entry) /\ Len(log) \in Nat
  BY DEF Safe, TypesOf
<1>5. \A v \in V : /\ IsRequest(R(v)) /\ R(v).view = v /\ R(v).what = "load"
                   /\ R(v).at = Len(log)
  <2> TAKE v \in V
  <2> HIDE DEF others
  <2> v \in Views /\ FALSE \in BOOLEAN
    OBVIOUS
  <2> QED
    BY <1>4, LoadIs
<1> HIDE DEF others, R
<1>6. TypesOf(log, vw, all)
  BY <1>3, <1>5 DEF Safe, TypesOf
<1>7. Single(all)
  <2>1. SUFFICES ASSUME NEW r \in all, NEW q \in all, Counts(r), Counts(q), r.view = q.view
                 PROVE  r = q
    BY DEF Single
  <2>2. CASE r \in others /\ q \in others
    BY <1>3, <2>1, <2>2 DEF Safe, Single
  <2>3. CASE r \notin others
    BY <1>2, <1>5, <2>1, <2>3
  <2>4. CASE q \notin others
    BY <1>2, <1>5, <2>1, <2>4
  <2> QED
    BY <2>2, <2>3, <2>4
<1>8. \A v \in V : Counts(R(v)) => SolidIn(log, vw, v) \subseteq 1 .. Len(log)
  BY <1>3, <1>5 DEF Safe, Committed, Counts, SolidIn
<1>9. Ahead(log, vw, all)
  <2>1. SUFFICES ASSUME NEW r \in all, Counts(r)
                 PROVE  r.at <= Len(log) /\ SolidIn(log, vw, r.view) \subseteq 1 .. r.at
    BY DEF Ahead
  <2>2. CASE r \in others
    BY <1>3, <2>1, <2>2 DEF Safe, Ahead
  <2>3. CASE r \notin others
    BY <1>4, <1>5, <1>8, <2>1, <2>3
  <2> QED
    BY <2>2, <2>3
<1>10. OwnSends(log, all)
  BY <1>3, <1>5 DEF Safe, OwnSends
<1> QED
  BY <1>1, <1>3, <1>6, <1>7, <1>9, <1>10 DEF Safe

LEMMA LeaveSafe ==
    ASSUME NEW lg, NEW vw, NEW reqs, Safe(lg, vw, reqs), NEW V
    PROVE  Safe(lg, vw, Leave(reqs, V))
<1>1. \A r \in Leave(reqs, V) :
         r \in reqs \/ \E q \in reqs : r = [q EXCEPT !.gone = TRUE]
  BY DEF Leave
<1>2. \A q \in reqs :
         /\ IsRequest([q EXCEPT !.gone = TRUE])
         /\ ~Counts([q EXCEPT !.gone = TRUE])
         /\ [q EXCEPT !.gone = TRUE].what = q.what
         /\ [q EXCEPT !.gone = TRUE].at = q.at
  <2> TAKE q \in reqs
  <2>1. IsRequest(q)
    BY DEF Safe, TypesOf
  <2> QED
    BY <2>1 DEF IsRequest, Counts
<1>3. TypesOf(lg, vw, Leave(reqs, V))
  BY <1>1, <1>2 DEF Safe, TypesOf
<1>4. Single(Leave(reqs, V))
  BY <1>1, <1>2 DEF Safe, Single
<1>5. Ahead(lg, vw, Leave(reqs, V))
  BY <1>1, <1>2 DEF Safe, Ahead
<1>6. OwnSends(lg, Leave(reqs, V))
  <2>1. OwnSends(lg, reqs)
    BY DEF Safe
  <2>2. SUFFICES ASSUME NEW r \in Leave(reqs, V), r.what = "send" /\ r.at >= 0
                 PROVE  r.at \in 1 .. Len(lg) /\ lg[r.at].by # "other"
    BY DEF OwnSends
  <2>3. PICK q \in reqs : q.what = r.what /\ q.at = r.at
    BY <1>1, <1>2
  <2> QED
    BY <2>1, <2>2, <2>3 DEF OwnSends
<1> QED
  BY <1>3, <1>4, <1>5, <1>6 DEF Safe
-----------------------------------------------------------------------------
\* What a step does to what is shown.

Good == Safe(log', view', requests') /\ Onward

LEMMA Typed ==
    ASSUME Safe(log, view, requests)
    PROVE  /\ view \in [Views -> ViewRec] /\ log \in Seq(Entry) /\ Len(log) \in Nat
           /\ \A v \in Lists : v \in Views
           /\ \A r \in requests : IsRequest(r)
BY DEF Safe, TypesOf, Lists, Views

LEMMA OnwardIf ==
    ASSUME \A v \in Lists : SolidIn(log, view, v) \subseteq SolidIn(log', view', v)
    PROVE  Onward
BY DEF Onward, Solid, SolidIn, Lists

LEMMA Still ==
    ASSUME log' = log, \A v \in Lists : view'[v].shown = view[v].shown
    PROVE  Onward
<1>1. \A v \in Lists : SolidIn(log, view, v) \subseteq SolidIn(log', view', v)
  BY DEF SolidIn
<1> QED
  BY <1>1, OnwardIf

\* Other views than the lists change, and requests are forgotten.
LEMMA Aside ==
    ASSUME NEW lg, NEW vw, NEW reqs, Safe(lg, vw, reqs),
           NEW other \in [Views -> ViewRec],
           \A v \in Lists : other[v].shown = vw[v].shown
    PROVE  Safe(lg, other, reqs)
BY ShowingLess

LEMMA ShownIs ==
    ASSUME view \in [Views -> ViewRec], NEW v \in Views, NEW places \in SUBSET Nat
    PROVE  /\ Shown(v, places) \in [Views -> ViewRec]
           /\ Shown(v, places)[v].shown = places
           /\ Shown(v, places)[v].seen = view[v].seen \cup places
           /\ Shown(v, places)[v].wants = view[v].wants
           /\ Shown(v, places)[v].holds = view[v].holds
           /\ \A u \in Views : u # v => Shown(v, places)[u] = view[u]
<1> DEFINE rec == [view[v] EXCEPT !.shown = places, !.seen = @ \cup places,
                                  !.loaded = TRUE, !.failed = FALSE]
<1>1. Shown(v, places) = [view EXCEPT ![v] = rec]
  BY Zenon DEF Shown
<1>2. /\ rec \in ViewRec /\ rec.shown = places /\ rec.seen = view[v].seen \cup places
      /\ rec.wants = view[v].wants /\ rec.holds = view[v].holds
  <2>1. view[v] \in ViewRec
    OBVIOUS
  <2> QED
    BY <2>1 DEF ViewRec
<1> HIDE DEF rec
<1> QED
  BY <1>1, <1>2

LEMMA UpdatedIs ==
    ASSUME view \in [Views -> ViewRec], NEW v \in Views, NEW places \in SUBSET Nat
    PROVE  /\ Updated(v, places) \in [Views -> ViewRec]
           /\ Updated(v, places)[v].shown = places
           /\ Updated(v, places)[v].seen = view[v].seen \cup places
           /\ Updated(v, places)[v].wants = view[v].wants
           /\ Updated(v, places)[v].holds = view[v].holds
           /\ \A u \in Views : u # v => Updated(v, places)[u] = view[u]
<1> DEFINE rec == [view[v] EXCEPT !.shown = places, !.seen = @ \cup places]
<1>1. Updated(v, places) = [view EXCEPT ![v] = rec]
  BY Zenon DEF Updated
<1>2. /\ rec \in ViewRec /\ rec.shown = places /\ rec.seen = view[v].seen \cup places
      /\ rec.wants = view[v].wants /\ rec.holds = view[v].holds
  <2>1. view[v] \in ViewRec
    OBVIOUS
  <2> QED
    BY <2>1 DEF ViewRec
<1> HIDE DEF rec
<1> QED
  BY <1>1, <1>2

LEMMA ShownErrorIs ==
    ASSUME view \in [Views -> ViewRec], Len(log) \in Nat, NEW v \in Views
    PROVE  /\ ShownError(v) \in [Views -> ViewRec]
           /\ \A u \in Views : ShownError(v)[u].shown = view[u].shown
           /\ ShownError(v)[v].failed = TRUE
           /\ 1 .. Len(log) \subseteq ShownError(v)[v].seen
           /\ ShownError(v)[v].wants = view[v].wants
           /\ ShownError(v)[v].holds = view[v].holds
           /\ \A u \in Views : u # v => ShownError(v)[u] = view[u]
<1> DEFINE rec == [view[v] EXCEPT !.failed = TRUE, !.seen = @ \cup (1 .. Len(log))]
<1>1. ShownError(v) = [view EXCEPT ![v] = rec]
  BY Zenon DEF ShownError
<1>2. /\ rec \in ViewRec /\ rec.shown = view[v].shown
      /\ rec.failed = TRUE /\ 1 .. Len(log) \subseteq rec.seen
      /\ rec.wants = view[v].wants /\ rec.holds = view[v].holds
  <2>1. \A s \in SUBSET Nat : LET q == [view[v] EXCEPT !.failed = TRUE, !.seen = @ \cup s] IN
          /\ q \in ViewRec /\ q.shown = view[v].shown
          /\ q.failed = TRUE /\ s \subseteq q.seen
          /\ q.wants = view[v].wants /\ q.holds = view[v].holds
    <3>1. view[v] \in ViewRec
      OBVIOUS
    <3> QED
      BY <3>1 DEF ViewRec
  <2>2. 1 .. Len(log) \in SUBSET Nat
    OBVIOUS
  <2> QED
    BY <2>1, <2>2
<1> HIDE DEF rec
<1> QED
  BY <1>1, <1>2

LEMMA MountSafe ==
    ASSUME view \in [Views -> ViewRec], NEW vw, NEW reqs, Safe(log, vw, reqs),
           NEW r \in Routes \cup {"gate"}, Mount(r, vw, reqs)
    PROVE  /\ Safe(log, view', requests') /\ route' = r
           /\ view'["board"] = vw["board"]
<1> DEFINE kept == Leave(reqs, ViewsOf(route))
<1>1. /\ route' = r /\ requests' = Loads(kept, ViewsOf(r))
      /\ view' = [v \in Views |->
                    IF v \in ViewsOf(route) \ {"board"} THEN Empty ELSE vw[v]]
  BY DEF Mount
<1>2. ViewsOf(r) \in SUBSET Views
  BY ScreensAssumption DEF ViewsOf, Views
<1>3. vw \in [Views -> ViewRec]
  BY DEF Safe, TypesOf
<1>4. view' \in [Views -> ViewRec]
  BY <1>1, <1>3 DEF Empty, ViewRec, Filters
<1>5. \A v \in Lists : view'[v].shown \subseteq vw[v].shown
  BY <1>1 DEF Empty, Lists, Views
<1>6. Safe(log, vw, kept)
  BY LeaveSafe
<1>7. Safe(log, vw, requests')
  BY <1>1, <1>2, <1>6, LoadsSafe
<1>8. Safe(log, view', requests')
  BY <1>4, <1>5, <1>7, ShowingLess
<1> QED
  BY <1>1, <1>8 DEF Views

LEMMA Moves ==
    ASSUME route' # route, log' = log, view'["board"].shown = view["board"].shown
    PROVE  Onward
BY DEF Onward, Solid

LEMMA MeShowsGood ==
    ASSUME view \in [Views -> ViewRec], NEW vw, NEW reqs, Safe(log, vw, reqs),
           \A v \in Lists : vw[v].shown = view[v].shown, log' = log,
           MeShows(vw, reqs)
    PROVE  Good
<1>1. CASE view' = vw /\ requests' = reqs
  BY <1>1, Still DEF Good
<1>2. CASE \E r \in Routes \cup {"gate"} : r # route /\ Mount(r, vw, reqs)
  <2>1. PICK r \in Routes \cup {"gate"} : r # route /\ Mount(r, vw, reqs)
    BY <1>2
  <2>2. /\ Safe(log, view', requests') /\ route' = r
        /\ view'["board"] = vw["board"]
    BY <2>1, MountSafe
  <2>3. vw["board"].shown = view["board"].shown
    BY DEF Lists
  <2> QED
    BY <2>1, <2>2, <2>3, Moves DEF Good
<1>3. \A r \in Starts : r \in Routes /\ r \notin {"starting", "gate"}
  BY ScreensAssumption
<1> QED
  BY <1>1, <1>2, <1>3 DEF MeShows
-----------------------------------------------------------------------------
\* The server's steps.

LEMMA CommitGood ==
    ASSUME IInv, NEW kind \in Kinds, NEW by \in {"other", "mounted", "left"},
           Commit(kind, by), view' = view
    PROVE  /\ Safe(log', view', requests) /\ Onward
           /\ Len(log') = Len(log) + 1 /\ log'[Len(log) + 1].by = by
<1> DEFINE e == [kind |-> kind, by |-> by]
<1>1. log' = Append(log, e) /\ e \in Entry
  BY DEF Commit, Entry
<1>2. Safe(log', view, requests)
  BY <1>1, Grows DEF IInv
<1>3. \A v \in Lists : SolidIn(log', view, v) = SolidIn(log, view, v)
  BY <1>1, Grows DEF IInv
<1>4. Onward
  BY <1>3, OnwardIf
<1>5. log \in Seq(Entry)
  BY Typed DEF IInv
<1> QED
  BY <1>1, <1>2, <1>4, <1>5

\* The answer of a write.
LEMMA AnswerIs ==
    ASSUME NEW r, IsRequest(r), r.what # "load", NEW at \in Int
    PROVE  /\ IsRequest([r EXCEPT !.at = at]) /\ ~Counts([r EXCEPT !.at = at])
           /\ [r EXCEPT !.at = at].what = r.what /\ [r EXCEPT !.at = at].at = at
BY DEF IsRequest, Counts

LEMMA OthersGood ==
    ASSUME IInv, NEW kind \in Kinds, OtherCommits(kind)
    PROVE  Good
BY CommitGood DEF OtherCommits, Good

LEMMA ServeWriteGood ==
    ASSUME IInv, NEW r \in requests, ServeWrite(r)
    PROVE  Good
<1>1. /\ IsRequest(r) /\ r.what # "load" /\ view' = view
      /\ view \in [Views -> ViewRec] /\ Len(log) \in Nat
  BY Typed DEF IInv, ServeWrite, Write
<1>2. CASE r.what = "read" /\ NothingUnread
  <2> DEFINE new == [r EXCEPT !.at = Len(log)]
  <2>1. log' = log /\ requests' = (requests \ {r}) \cup {new}
    BY <1>2 DEF ServeWrite, Answered
  <2>2. IsRequest(new) /\ ~Counts(new) /\ new.what = "read"
    <3>1. Len(log) \in Int
      BY <1>1
    <3> QED
      BY <1>1, <1>2, <3>1, AnswerIs
  <2> HIDE DEF new
  <2>3. Safe(log, view, requests')
    BY <2>1, <2>2, OneChanged DEF IInv
  <2> QED
    BY <1>1, <2>1, <2>3, Still DEF Good
<1>3. CASE ~(r.what = "read" /\ NothingUnread)
  <2> DEFINE by == IF r.gone THEN "left" ELSE "mounted"
             new == [r EXCEPT !.at = Len(log) + 1]
  <2>1. Commit(Writes(r), by) /\ requests' = (requests \ {r}) \cup {new}
    BY <1>3 DEF ServeWrite, Answered
  <2>2. Writes(r) \in Kinds
    BY <1>1 DEF IsRequest, Writes, Kinds, Publishes, Views
  <2>3. by \in {"other", "mounted", "left"} /\ by # "other"
    OBVIOUS
  <2>4. /\ Safe(log', view, requests) /\ Onward
        /\ Len(log') = Len(log) + 1 /\ log'[Len(log) + 1].by = by
    BY <1>1, <2>1, <2>2, <2>3, CommitGood
  <2>5. IsRequest(new) /\ ~Counts(new) /\ new.at = Len(log) + 1
    <3>1. Len(log) + 1 \in Int
      BY <1>1
    <3> QED
      BY <1>1, <3>1, AnswerIs
  <2> HIDE DEF new, by
  <2>6. new.at \in 1 .. Len(log') /\ log'[new.at].by # "other"
    BY <1>1, <2>3, <2>4, <2>5
  <2>7. Safe(log', view, requests')
    BY <2>1, <2>4, <2>5, <2>6, OneChanged
  <2> QED
    BY <1>1, <2>4, <2>7 DEF Good
<1> QED
  BY <1>2, <1>3

LEMMA FailGood ==
    ASSUME IInv, NEW r \in requests, Refuse(r) \/ LoseWrite(r)
    PROVE  Good
<1>1. PICK at \in {Refused, Failed} :
        /\ requests' = (requests \ {r}) \cup {[r EXCEPT !.at = at]}
        /\ r.what # "load" /\ log' = log /\ view' = view
  BY DEF Refuse, LoseWrite, Answered, Write
<1>2. at \in Int /\ at < 0 /\ IsRequest(r)
  BY Typed DEF Refused, Failed, IInv
<1> DEFINE q == [r EXCEPT !.at = at]
<1>3. IsRequest(q) /\ ~Counts(q) /\ ~(q.at >= 0)
  BY <1>1, <1>2, AnswerIs
<1>5. requests' = (requests \ {r}) \cup {q}
  BY <1>1
<1> HIDE DEF q
<1>4. Safe(log, view, requests')
  BY <1>3, <1>5, OneChanged DEF IInv
<1> QED
  BY <1>1, <1>4, Still DEF Good
-----------------------------------------------------------------------------
\* The app's steps that leave the log and the lists as they are.

\* Nothing the lists show changes, and views ask again.
LEMMA AsksAgain ==
    ASSUME IInv, log' = log, view' \in [Views -> ViewRec],
           \A v \in Lists : view'[v].shown = view[v].shown,
           NEW reqs \in SUBSET requests, NEW V \in SUBSET Views,
           requests' = Loads(reqs, V)
    PROVE  Good
<1>1. view \in [Views -> ViewRec]
  BY Typed DEF IInv
<1>2. Safe(log, view, reqs)
  BY Fewer DEF IInv
<1>3. Safe(log, view, requests')
  BY <1>1, <1>2, LoadsSafe
<1>4. Safe(log, view', requests')
  BY <1>3, Aside
<1> QED
  BY <1>4, Still DEF Good

LEMMA OnScreenViews ==
    ASSUME IInv
    PROVE  OnScreen \subseteq Views
BY ScreensAssumption DEF IInv, RouteOK, OnScreen, ViewsOf, Views

LEMMA HearGood ==
    ASSUME IInv, NEW e, Hear(e) \/ Reconnected
    PROVE  Good
<1>1. PICK V \in SUBSET Views : requests' = Loads(requests, V)
  BY OnScreenViews DEF Hear, Reconnected
<1>2. log' = log /\ view' = view
  BY DEF Hear, Reconnected
<1> QED
  BY <1>1, <1>2, Typed, AsksAgain DEF IInv

LEMMA RefreshGood ==
    ASSUME IInv, NEW v \in Views, Refresh(v)
    PROVE  Good
<1>1. requests' = Loads(requests, {v}) /\ log' = log /\ view' = view
  BY DEF Refresh
<1>2. view \in [Views -> ViewRec] /\ {v} \in SUBSET Views /\ requests \in SUBSET requests
  BY Typed DEF IInv
<1>3. PICK V \in SUBSET Views : requests' = Loads(requests, V)
  BY <1>1, <1>2
<1> QED
  BY <1>1, <1>2, <1>3, AsksAgain

\* What only concerns the hub, and what it is told.
LEMMA HubGood ==
    ASSUME IInv, log' = log, view' = view, requests' = requests
    PROVE  Good
BY Still DEF IInv, Good

LEMMA OpenGood ==
    ASSUME IInv, NEW r \in Routes, Open(r)
    PROVE  Good
<1>1. Mount(r, view, requests) /\ r # route /\ log' = log
  BY DEF Open
<1>2. /\ Safe(log, view', requests') /\ route' = r
      /\ view'["board"] = view["board"]
  BY <1>1, Typed, MountSafe DEF IInv
<1> QED
  BY <1>1, <1>2, Moves DEF Good

\* One more request that is no load.
LEMMA AsksGood ==
    ASSUME IInv, NEW v \in Views, NEW what \in {"act", "reserve", "send", "update"},
           what = "act" => v \notin {"me", "board", "thread", "reservations"},
           Asks(Request(requests, v, what, FALSE))
    PROVE  Good
<1> DEFINE r == Request(requests, v, what, FALSE)
<1>1. view \in [Views -> ViewRec] /\ log \in Seq(Entry)
  BY Typed DEF IInv
<1>2. IsRequest(r) /\ r.what = what /\ r.at = Unserved
  BY <1>1, WriteIs
<1>3. requests' = requests \cup {r} /\ log' = log /\ view' = view
  BY DEF Asks
<1> HIDE DEF r
<1>4. ~Counts(r) /\ r.at < 0
  BY <1>2 DEF Counts, Unserved
<1>5. Safe(log, view, requests')
  BY <1>2, <1>3, <1>4, OneMore DEF IInv
<1> QED
  BY <1>3, <1>5, Still DEF Good

LEMMA ActGood ==
    ASSUME IInv, NEW v \in Views, Act(v)
    PROVE  Good
<1>1. v \notin {"me", "board", "thread", "reservations"} /\ Asks(Request(requests, v, "act", FALSE))
  BY DEF Act
<1>2. "act" \in {"act", "reserve", "send", "update"}
  OBVIOUS
<1> QED
  BY <1>1, <1>2, AsksGood

LEMMA ReserveGood ==
    ASSUME IInv, NEW v \in Views, Reserve(v)
    PROVE  Good
<1>1. "reserve" \in {"act", "reserve", "send", "update"} /\ "reserve" # "act"
      /\ Asks(Request(requests, v, "reserve", FALSE))
  BY DEF Reserve
<1> QED
  BY <1>1, AsksGood

LEMMA SendGood ==
    ASSUME IInv, Send
    PROVE  Good
<1>1. "thread" \in Views /\ "send" \in {"act", "reserve", "send", "update"} /\ "send" # "act"
  BY DEF Views
<1> QED
  BY <1>1, AsksGood DEF Send

LEMMA UpdateGood ==
    ASSUME IInv, Update
    PROVE  Good
<1>1. "me" \in Views /\ "update" \in {"act", "reserve", "send", "update"} /\ "update" # "act"
  BY DEF Views
<1> QED
  BY <1>1, AsksGood DEF Update

\* Another filter: what was shown stays until the answer, what was asked for the
\* old one is forgotten.
LEMMA ShowGood ==
    ASSUME IInv, NEW v \in Views, NEW f \in Filters, Show(v, f)
    PROVE  Good
<1> DEFINE others == Counted(requests, {v}, FALSE)
           base == Request(others, v, "load", FALSE)
           r == [base EXCEPT !.filter = f]
<1>1. /\ view \in [Views -> ViewRec] /\ log \in Seq(Entry) /\ Len(log) \in Nat
  BY Typed DEF IInv
<1>2. /\ log' = log /\ requests' = others \cup {r}
      /\ view' = [view EXCEPT ![v].wants = f]
  BY DEF Show
<1>3. view' \in [Views -> ViewRec] /\ \A u \in Views : view'[u].shown = view[u].shown
  <2> DEFINE rec == [view[v] EXCEPT !.wants = f]
  <2>1. view' = [view EXCEPT ![v] = rec]
    BY <1>2, Zenon
  <2>2. rec \in ViewRec /\ rec.shown = view[v].shown
    <3>1. view[v] \in ViewRec
      BY <1>1
    <3> QED
      BY <3>1 DEF ViewRec
  <2> HIDE DEF rec
  <2> QED
    BY <1>1, <2>1, <2>2
<1>4. others \subseteq requests /\ \A q \in others : Counts(q) => q.view # v
  BY CountedFewer
<1>5. Safe(log, view, others)
  BY <1>4, Fewer DEF IInv
<1>6. IsRequest(base) /\ base.view = v /\ base.what = "load" /\ base.at = Len(log)
  <2> HIDE DEF others
  <2>1. FALSE \in BOOLEAN
    OBVIOUS
  <2> QED
    BY <1>1, <2>1, LoadIs
<1> HIDE DEF base, others
<1>7. IsRequest(r) /\ r.view = v /\ r.what = "load" /\ r.at = Len(log)
  BY <1>6 DEF IsRequest
<1> HIDE DEF r
<1>8. Safe(log, view, requests')
  BY <1>2, <1>4, <1>5, <1>7, OneMoreCounted
<1>9. \A u \in Lists : u \in Views
  BY DEF Lists, Views
<1>10. Safe(log, view', requests')
  BY <1>3, <1>8, <1>9, Aside
<1> QED
  BY <1>2, <1>3, <1>9, <1>10, Still DEF Good
-----------------------------------------------------------------------------
\* The answers.

\* The only step that replaces what a counted view shows: the request that
\* counts was sent after all of it was committed, and no other one counts.
LEMMA LoadedGood ==
    ASSUME IInv, NEW r \in requests, r.what = "load", r.view # "me",
           NEW at \in r.at .. Len(log), log' = log,
           view' = IF r.gone THEN view ELSE AfterLoad(r, at),
           requests' = AfterThread(r)
    PROVE  Good
<1>1. /\ view \in [Views -> ViewRec] /\ Len(log) \in Nat /\ IsRequest(r)
      /\ r.view \in Views /\ r.at \in Nat /\ at \in Nat /\ r.at <= at /\ at <= Len(log)
  BY Typed DEF IInv, IsRequest
<1>2. view' \in [Views -> ViewRec]
      /\ \A v \in Views : view'[v].shown = IF ~r.gone /\ v = r.view THEN 1 .. at
                                           ELSE view[v].shown
  <2>1. CASE r.gone = TRUE
    BY <1>1, <2>1
  <2>2. CASE r.gone = FALSE
    <3> DEFINE sh == Shown(r.view, 1 .. at)
               rec == [sh[r.view] EXCEPT !.holds = r.filter]
    <3>1. 1 .. at \in SUBSET Nat
      BY <1>1
    <3>2. /\ sh \in [Views -> ViewRec] /\ sh[r.view].shown = 1 .. at
          /\ \A u \in Views : u # r.view => sh[u] = view[u]
      BY <1>1, <3>1, ShownIs
    <3>3. view' = [sh EXCEPT ![r.view] = rec]
      BY <2>2, Zenon DEF AfterLoad
    <3> HIDE DEF sh
    <3>4. rec \in ViewRec /\ rec.shown = 1 .. at
      <4>1. sh[r.view] \in ViewRec /\ r.filter \in Filters
        BY <1>1, <3>2 DEF IsRequest
      <4> QED
        BY <3>2, <4>1 DEF ViewRec
    <3> HIDE DEF rec
    <3>5. view' \in [Views -> ViewRec]
      BY <1>1, <3>2, <3>3, <3>4
    <3>6. view'[r.view].shown = 1 .. at
          /\ \A u \in Views : u # r.view => view'[u] = view[u]
      BY <1>1, <3>2, <3>3, <3>4
    <3> QED
      BY <1>1, <2>2, <3>5, <3>6
  <2> QED
    BY <1>1, <2>1, <2>2 DEF IsRequest
<1>3. \A v \in Lists : v \in Views
  BY DEF Lists, Views
<1>4. Safe(log, view, requests')
  <2>1. CASE r.view = "thread"
    <3> DEFINE q == [r EXCEPT !.what = "read", !.at = Unserved]
    <3>1. requests' = (requests \ {r}) \cup {q}
      BY <2>1 DEF AfterThread, Rest
    <3>2. IsRequest(q) /\ ~Counts(q) /\ q.what = "read"
      <4> DEFINE p == [r EXCEPT !.what = "read"]
      <4>1. /\ p \in [view : Views, what : {"load", "act", "reserve", "send", "read", "update"},
                      n : {p.n}, at : Int, gone : BOOLEAN, filter : Filters,
                      before : SUBSET Nat]
            /\ p.what = "read"
        BY <1>1 DEF IsRequest
      <4>2. q = [p EXCEPT !.at = Unserved]
        OBVIOUS
      <4> HIDE DEF p
      <4>3. Unserved \in Int
        BY DEF Unserved
      <4> HIDE DEF q
      <4> QED
        BY <4>1, <4>2, <4>3 DEF IsRequest, Counts
    <3> HIDE DEF q
    <3> QED
      BY <3>1, <3>2, OneChanged DEF IInv
  <2>2. CASE r.view # "thread"
    BY <2>2, Fewer DEF AfterThread, Rest, IInv
  <2> QED
    BY <2>1, <2>2
<1>5. CASE ~(r.gone = FALSE /\ r.view \in Lists)
  <2>1. \A v \in Lists : view'[v].shown = view[v].shown
    BY <1>1, <1>2, <1>3, <1>5 DEF IsRequest
  <2> QED
    BY <1>2, <1>4, <2>1, Aside, Still DEF Good
<1>6. CASE r.gone = FALSE /\ r.view \in Lists
  <2>1. Counts(r)
    BY <1>6 DEF Counts
  <2>2. SolidIn(log, view, r.view) \subseteq 1 .. r.at
    BY <2>1 DEF IInv, Safe, Ahead
  <2>3. \A q \in requests' : Counts(q) => q.view # r.view
    <3>1. \A q \in requests' : Counts(q) => q \in requests /\ q # r
      BY <1>1 DEF AfterThread, Rest, Counts, IsRequest
    <3> QED
      BY <2>1, <3>1 DEF IInv, Safe, Single
  <2>4. view'[r.view].shown = 1 .. at
        /\ \A v \in Lists : v # r.view => view'[v].shown = view[v].shown
    BY <1>1, <1>2, <1>3, <1>6
  <2>5. Committed(log, view')
    BY <1>1, <2>4 DEF IInv, Safe, Committed
  <2>6. Ahead(log, view', requests')
    <3>1. SUFFICES ASSUME NEW q \in requests', Counts(q)
                   PROVE  q.at <= Len(log) /\ SolidIn(log, view', q.view) \subseteq 1 .. q.at
      BY DEF Ahead
    <3>2. q.view \in Lists /\ q.view # r.view
      BY <2>3, <3>1 DEF Counts
    <3>3. SolidIn(log, view', q.view) = SolidIn(log, view, q.view)
      BY <2>4, <3>2 DEF SolidIn
    <3> QED
      BY <1>4, <3>1, <3>3 DEF Safe, Ahead
  <2>7. Safe(log, view', requests')
    BY <1>2, <1>4, <2>5, <2>6 DEF Safe, TypesOf
  <2>8. \A v \in Lists : SolidIn(log, view, v) \subseteq SolidIn(log', view', v)
    <3>1. TAKE v \in Lists
    <3>2. CASE v = r.view
      <4>1. SolidIn(log, view, v) \subseteq 1 .. at
        BY <1>1, <2>2, <3>2
      <4> QED
        BY <2>4, <3>2, <4>1 DEF SolidIn
    <3>3. CASE v # r.view
      BY <2>4, <3>3 DEF SolidIn
    <3> QED
      BY <3>2, <3>3
  <2> QED
    BY <2>7, <2>8, OnwardIf DEF Good
<1> QED
  BY <1>5, <1>6

LEMMA ReceiveLoadGood ==
    ASSUME IInv, NEW r \in requests, ReceiveLoad(r)
    PROVE  Good
<1>1. /\ view \in [Views -> ViewRec] /\ Len(log) \in Nat
      /\ IsRequest(r) /\ r.what = "load" /\ log' = log
  BY Typed DEF IInv, ReceiveLoad
<1>2. PICK at \in r.at .. Len(log) :
         IF r.view = "me" THEN MeShows(AfterLoad(r, at), Rest(r))
         ELSE /\ view' = IF r.gone THEN view ELSE AfterLoad(r, at)
              /\ requests' = AfterThread(r)
  BY DEF ReceiveLoad
<1>3. CASE r.view # "me"
  BY <1>1, <1>2, <1>3, LoadedGood
<1>4. CASE r.view = "me"
  <2> DEFINE sh == Shown("me", 1 .. at)
             rec == [sh["me"] EXCEPT !.holds = r.filter]
             vw == AfterLoad(r, at)
  <2>1. 1 .. at \in SUBSET Nat /\ "me" \in Views
    BY <1>1 DEF IsRequest, Views
  <2>2. sh \in [Views -> ViewRec] /\ \A u \in Views : u # "me" => sh[u] = view[u]
    BY <1>1, <2>1, ShownIs
  <2>3. vw = [sh EXCEPT !["me"] = rec]
    BY <1>4, Zenon DEF AfterLoad
  <2> HIDE DEF sh
  <2>4. rec \in ViewRec
    <3>1. sh["me"] \in ViewRec /\ r.filter \in Filters
      BY <1>1, <2>1, <2>2 DEF IsRequest
    <3> QED
      BY <3>1 DEF ViewRec
  <2> HIDE DEF rec
  <2>5. vw \in [Views -> ViewRec] /\ \A v \in Lists : vw[v].shown = view[v].shown
    BY <2>1, <2>2, <2>3, <2>4 DEF Lists, Views
  <2>6. MeShows(vw, Rest(r))
    BY <1>2, <1>4
  <2> HIDE DEF vw
  <2>7. Safe(log, vw, Rest(r))
    <3>1. Rest(r) \in SUBSET requests
      BY DEF Rest
    <3>2. Safe(log, view, Rest(r))
      BY <3>1, Fewer DEF IInv
    <3> QED
      BY <2>5, <3>2, Aside
  <2> QED
    BY <1>1, <2>5, <2>6, <2>7, MeShowsGood
<1> QED
  BY <1>3, <1>4

LEMMA ReceiveLoadErrorGood ==
    ASSUME IInv, NEW r \in requests, ReceiveLoadError(r)
    PROVE  Good
<1>1. /\ view \in [Views -> ViewRec] /\ Len(log) \in Nat /\ r.view \in Views /\ log' = log
      /\ view' = IF r.gone THEN view ELSE ShownError(r.view)
      /\ requests' \in SUBSET requests
  BY Typed DEF IInv, ReceiveLoadError, Rest, IsRequest
<1>2. view' \in [Views -> ViewRec] /\ \A v \in Views : view'[v].shown = view[v].shown
  BY <1>1, ShownErrorIs
<1>3. \A v \in Lists : v \in Views
  BY DEF Lists, Views
<1>4. Safe(log, view, requests')
  BY <1>1, Fewer DEF IInv
<1>5. Safe(log, view', requests')
  BY <1>2, <1>3, <1>4, Aside
<1> QED
  BY <1>1, <1>2, <1>3, <1>5, Still DEF Good

LEMMA AfterActIs ==
    ASSUME IInv, NEW r \in requests, r.what = "act"
    PROVE  /\ AfterAct(r) \in [Views -> ViewRec]
           /\ \A v \in Lists : AfterAct(r)[v].shown = view[v].shown
<1>1. /\ view \in [Views -> ViewRec] /\ Len(log) \in Nat
      /\ r.view \in Views /\ r.at \in Int
      /\ \A v \in Lists : v \in Views
  BY Typed DEF IInv, IsRequest
<1>2. CASE AfterAct(r) = view
  BY <1>1, <1>2
<1>3. CASE AfterAct(r) = Toasted(r.view)
  <2> DEFINE own == {i \in 1 .. Len(log) : log[i].by = "mounted"}
             rec == [view[r.view] EXCEPT !.seen = @ \cup own]
  <2>1. own \in SUBSET Nat
    BY <1>1
  <2>2. AfterAct(r) = [view EXCEPT ![r.view] = rec]
    BY <1>3, Zenon DEF Toasted
  <2> HIDE DEF own
  <2>3. rec \in ViewRec /\ rec.shown = view[r.view].shown
    BY <1>1, <2>1 DEF ViewRec
  <2> HIDE DEF rec
  <2> QED
    BY <1>1, <2>2, <2>3
<1>4. ASSUME r.at >= 0, r.view \notin Lists, NEW places \in SUBSET Nat,
             AfterAct(r) = Updated(r.view, places)
      PROVE  /\ AfterAct(r) \in [Views -> ViewRec]
             /\ \A v \in Lists : AfterAct(r)[v].shown = view[v].shown
  BY <1>1, <1>4, UpdatedIs
<1>5. CASE r.at >= 0 /\ r.view \in {"reservation", "offer"} /\ AfterAct(r) = Updated(r.view, 1 .. r.at)
  <2>1. 1 .. r.at \in SUBSET Nat /\ r.view \notin Lists
    BY <1>1, <1>5 DEF Lists
  <2> QED
    BY <1>4, <1>5, <2>1
<1>6. CASE /\ r.at >= 0 /\ r.view \in {"offers", "members"}
           /\ AfterAct(r) = Updated(r.view, view[r.view].shown \cup {r.at})
  <2>1. view[r.view].shown \cup {r.at} \in SUBSET Nat /\ r.view \notin Lists
    BY <1>1, <1>6 DEF Lists, ViewRec
  <2> QED
    BY <1>4, <1>6, <2>1
<1>7. \/ AfterAct(r) = view \/ AfterAct(r) = Toasted(r.view)
      \/ r.at >= 0 /\ r.view \in {"reservation", "offer"} /\ AfterAct(r) = Updated(r.view, 1 .. r.at)
      \/ /\ r.at >= 0 /\ r.view \in {"offers", "members"}
         /\ AfterAct(r) = Updated(r.view, view[r.view].shown \cup {r.at})
  BY <1>1 DEF AfterAct
<1> QED
  BY <1>2, <1>3, <1>5, <1>6, <1>7

LEMMA ReceiveActGood ==
    ASSUME IInv, NEW r \in requests, ReceiveAct(r)
    PROVE  Good
<1>1. /\ view \in [Views -> ViewRec] /\ log \in Seq(Entry) /\ r.what = "act" /\ log' = log
      /\ view' \in [Views -> ViewRec]
      /\ \A v \in Lists : view'[v].shown = view[v].shown
  BY Typed, AfterActIs DEF IInv, ReceiveAct
<1>2. Rest(r) \in SUBSET requests
  BY DEF Rest
<1>3. PICK V \in Follows(r) :
        requests' = IF ~r.gone THEN Loads(Rest(r), V)
                    ELSE IF "thread" \in V
                      THEN Counted(Rest(r), V, TRUE)
                              \cup {Request(Rest(r), "thread", "load", TRUE)}
                    ELSE Rest(r)
  BY DEF ReceiveAct
<1>4. V \in SUBSET Views
  BY <1>3 DEF Follows, Views
<1>5. CASE requests' = Loads(Rest(r), V)
  BY <1>1, <1>2, <1>4, <1>5, AsksAgain
<1>6. CASE requests' = Rest(r)
  <2>1. Safe(log, view, requests')
    BY <1>2, <1>6, Fewer DEF IInv
  <2> QED
    BY <1>1, <2>1, Aside, Still DEF Good
<1>7. CASE requests' = Counted(Rest(r), V, TRUE)
                          \cup {Request(Rest(r), "thread", "load", TRUE)}
  <2> DEFINE others == Counted(Rest(r), V, TRUE)
             q == Request(Rest(r), "thread", "load", TRUE)
  <2>1. others \in SUBSET requests
    BY <1>2 DEF Counted
  <2>2. Safe(log, view, others)
    BY <2>1, Fewer DEF IInv
  <2>3. IsRequest(q) /\ q.what = "load" /\ q.gone = TRUE
    <3>1. "thread" \in Views /\ TRUE \in BOOLEAN
      BY DEF Views
    <3> QED
      BY <1>1, <3>1, LoadIs
  <2> HIDE DEF others, q
  <2>4. ~Counts(q) /\ q.what # "send"
    BY <2>3 DEF Counts
  <2>5. Safe(log, view, others \cup {q})
    BY <2>2, <2>3, <2>4, OneMore
  <2>6. requests' = others \cup {q}
    BY <1>7 DEF others, q
  <2>7. Safe(log, view', requests')
    BY <1>1, <2>5, <2>6, Aside
  <2> QED
    BY <1>1, <2>7, Still DEF Good
<1> QED
  BY <1>3, <1>5, <1>6, <1>7

LEMMA ReceiveReservedGood ==
    ASSUME IInv, NEW r \in requests, ReceiveReserved(r)
    PROVE  Good
<1>1. view \in [Views -> ViewRec] /\ log' = log
  BY Typed DEF IInv, ReceiveReserved
<1>2. Safe(log, view, Rest(r))
  BY Fewer DEF IInv, Rest
<1>3. CASE view' = view /\ requests' = Rest(r)
  BY <1>1, <1>2, <1>3, Still DEF Good
<1>4. ASSUME route # "reservation", "reservation" \in Routes,
             Mount("reservation", view, Rest(r))
      PROVE  Good
  <2>1. "reservation" \in Routes \cup {"gate"}
    BY <1>4
  <2>2. PICK s \in Routes \cup {"gate"} : s = "reservation" /\ Mount(s, view, Rest(r))
    BY <1>4, <2>1
  <2>3. /\ Safe(log, view', requests') /\ route' = s
        /\ view'["board"] = view["board"]
    BY <1>1, <1>2, <2>2, MountSafe
  <2> QED
    BY <1>1, <1>4, <2>2, <2>3, Moves DEF Good
<1> QED
  BY <1>3, <1>4 DEF ReceiveReserved

LEMMA ReceiveSendGood ==
    ASSUME IInv, NEW r \in requests, ReceiveSend(r)
    PROVE  Good
<1>1. /\ view \in [Views -> ViewRec] /\ Len(log) \in Nat
      /\ IsRequest(r) /\ r.what = "send" /\ log' = log
      /\ r.at \in Int
  BY Typed DEF IInv, ReceiveSend, IsRequest
<1>2. Rest(r) \in SUBSET requests /\ {"reservation"} \in SUBSET Views
      /\ \A v \in Lists : v \in Views
  BY DEF Rest, Views, Lists
<1>3. Safe(log, view, requests')
  <2>1. Safe(log, view, Rest(r))
    BY <1>2, Fewer DEF IInv
  <2>2. CASE requests' = Rest(r)
    BY <2>1, <2>2
  <2>3. CASE requests' = Loads(Rest(r), {"reservation"})
    <3>1. PICK V \in SUBSET Views : requests' = Loads(Rest(r), V)
      BY <1>2, <2>3
    <3> QED
      BY <1>1, <2>1, <3>1, LoadsSafe
  <2> QED
    BY <2>2, <2>3 DEF ReceiveSend
<1>4. CASE view' = view
  BY <1>1, <1>3, <1>4, Still DEF Good
<1> DEFINE there == [view EXCEPT !["thread"].shown = @ \cup {r.at},
                                 !["thread"].seen = @ \cup {r.at}]
<1>5. CASE r.at >= 0 /\ view' = there
  <2>1. r.at \in 1 .. Len(log) /\ log[r.at].by # "other"
    BY <1>1, <1>5 DEF IInv, Safe, OwnSends
  <2> DEFINE rec == [view["thread"] EXCEPT !.shown = @ \cup {r.at}, !.seen = @ \cup {r.at}]
  <2>2. view' = [view EXCEPT !["thread"] = rec]
    BY <1>5, Zenon
  <2>3. rec \in ViewRec /\ rec.shown = view["thread"].shown \cup {r.at}
    <3>1. view["thread"] \in ViewRec /\ r.at \in Nat
      BY <1>1, <2>1 DEF Views
    <3> QED
      BY <3>1 DEF ViewRec
  <2> HIDE DEF rec
  <2>4. /\ view' \in [Views -> ViewRec]
        /\ view'["thread"].shown = view["thread"].shown \cup {r.at}
        /\ \A v \in Lists : v # "thread" => view'[v] = view[v]
    BY <1>1, <1>2, <2>2, <2>3 DEF Views
  <2>5. \A v \in Lists : SolidIn(log, view', v) = SolidIn(log, view, v)
    <3>1. SolidIn(log, view', "thread") = SolidIn(log, view, "thread")
      BY <2>1, <2>4 DEF SolidIn
    <3>2. \A v \in Lists : v # "thread" => SolidIn(log, view', v) = SolidIn(log, view, v)
      BY <2>4 DEF SolidIn
    <3> QED
      BY <3>1, <3>2
  <2>6. Committed(log, view')
    BY <2>1, <2>4 DEF IInv, Safe, Committed
  <2>7. Ahead(log, view', requests')
    BY <1>3, <2>5 DEF Safe, Ahead, Counts
  <2>8. Safe(log, view', requests')
    BY <1>3, <2>4, <2>6, <2>7 DEF Safe, TypesOf
  <2> QED
    BY <1>1, <2>5, <2>8, OnwardIf DEF Good
<1>6. view' = view \/ (r.at >= 0 /\ view' = there)
  <2>1. view' = view \/ (~(r.at < 0) /\ view' = there)
    BY Zenon DEF ReceiveSend
  <2>2. r.at < 0 \/ r.at >= 0
    BY <1>1
  <2> QED
    BY <2>1, <2>2, Zenon
<1> QED
  BY <1>4, <1>5, <1>6

LEMMA ReceiveReadGood ==
    ASSUME IInv, NEW r \in requests, ReceiveRead(r)
    PROVE  Good
<1>1. /\ view \in [Views -> ViewRec] /\ Len(log) \in Nat /\ r.at \in Int /\ log' = log
      /\ \A v \in Lists : v \in Views
  BY Typed DEF IInv, ReceiveRead, IsRequest
<1>2. Safe(log, view, requests')
  <2>1. requests' \in SUBSET requests
    BY DEF ReceiveRead, Rest, Counted
  <2> QED
    BY <2>1, Fewer DEF IInv
<1>3. CASE view' = view
  BY <1>1, <1>2, <1>3, Still DEF Good
<1>4. CASE r.at >= 0
  <2>1. PICK shown \in SUBSET Nat, seen \in SUBSET Nat :
          view' = [view EXCEPT !["me"].shown = shown, !["me"].seen = seen]
    <3> DEFINE shown == (view["me"].shown \ Unread(view["me"].shown)) \cup Unread(1 .. r.at)
               seen == view["me"].seen \cup (1 .. r.at)
                      \cup IF requests' = Rest(r) THEN {} ELSE 1 .. Len(log)
    <3>1. view["me"] \in ViewRec
      BY <1>1 DEF Views
    <3>2. shown \in SUBSET Nat
      BY <1>1, <3>1 DEF ViewRec, Unread
    <3>3. seen \in SUBSET Nat
      BY <1>1, <3>1 DEF ViewRec
    <3>4. view' = [view EXCEPT !["me"].shown = shown, !["me"].seen = seen]
      <4>1. ~(r.at < 0)
        BY <1>1, <1>4
      <4> QED
        BY <4>1, Zenon DEF ReceiveRead
    <3> HIDE DEF shown, seen
    <3> QED
      BY <3>2, <3>3, <3>4
  <2> DEFINE rec == [view["me"] EXCEPT !.shown = shown, !.seen = seen]
  <2>2. view' = [view EXCEPT !["me"] = rec]
    BY <2>1, Zenon
  <2>3. rec \in ViewRec
    <3>1. view["me"] \in ViewRec
      BY <1>1 DEF Views
    <3> QED
      BY <2>1, <3>1 DEF ViewRec
  <2> HIDE DEF rec
  <2>4. view' \in [Views -> ViewRec] /\ \A v \in Lists : view'[v].shown = view[v].shown
    BY <1>1, <2>2, <2>3 DEF Views, Lists
  <2>5. Safe(log, view', requests')
    BY <1>2, <2>4, Aside
  <2> QED
    BY <1>1, <2>4, <2>5, Still DEF Good
<1>5. view' = view \/ r.at >= 0
  <2>1. CASE r.at < 0
    BY <2>1, Zenon DEF ReceiveRead
  <2> QED
    BY <1>1, <2>1
<1> QED
  BY <1>3, <1>4, <1>5

LEMMA ReceiveUpdateGood ==
    ASSUME IInv, NEW r \in requests, ReceiveUpdate(r)
    PROVE  Good
<1> DEFINE places == IF r.at >= 0 THEN 1 .. r.at ELSE r.before
           vw == Updated("me", places)
<1>1. /\ view \in [Views -> ViewRec] /\ IsRequest(r) /\ log' = log
      /\ MeShows(vw, Rest(r)) /\ "me" \in Views
  BY Typed DEF IInv, ReceiveUpdate, Views
<1>2. places \in SUBSET Nat
  BY <1>1 DEF IsRequest
<1> HIDE DEF places
<1>3. /\ vw \in [Views -> ViewRec] /\ \A u \in Views : u # "me" => vw[u] = view[u]
  BY <1>1, <1>2, UpdatedIs
<1>4. \A v \in Lists : vw[v].shown = view[v].shown
  BY <1>3 DEF Lists, Views
<1> HIDE DEF vw
<1>5. Safe(log, vw, Rest(r))
  <2>1. Safe(log, view, Rest(r))
    BY Fewer DEF IInv, Rest
  <2> QED
    BY <1>3, <1>4, <2>1, Aside
<1> QED
  BY <1>1, <1>4, <1>5, MeShowsGood
-----------------------------------------------------------------------------
LEMMA MountRoute ==
    ASSUME RouteOK, NEW vw, NEW reqs, MeShows(vw, reqs)
    PROVE  RouteOK'
BY ScreensAssumption DEF MeShows, Mount, RouteOK

LEMMA RouteStep ==
    ASSUME IInv, ScreensNext
    PROVE  RouteOK'
<1>1. CASE route' = route
  BY <1>1 DEF IInv, RouteOK
<1>2. ASSUME NEW r \in Routes, Open(r)
      PROVE  RouteOK'
  BY <1>2 DEF Open, Mount, RouteOK
<1>3. ASSUME NEW r \in requests, ReceiveLoad(r) \/ ReceiveUpdate(r)
      PROVE  RouteOK'
  <2>1. route' = route \/ \E vw, reqs : MeShows(vw, reqs)
    BY <1>3 DEF ReceiveLoad, ReceiveUpdate
  <2> QED
    BY <1>1, <2>1, MountRoute DEF IInv
<1>4. ASSUME NEW r \in requests, ReceiveReserved(r)
      PROVE  RouteOK'
  BY <1>1, <1>4 DEF ReceiveReserved, Mount, RouteOK
<1>5. \/ route' = route
      \/ \E r \in Routes : Open(r)
      \/ \E r \in requests : ReceiveLoad(r) \/ ReceiveUpdate(r) \/ ReceiveReserved(r)
  <2>1. ASSUME NEW r \in requests, Serve(r) \/ Arrive(r)
        PROVE  \/ route' = route
               \/ ReceiveLoad(r) \/ ReceiveUpdate(r) \/ ReceiveReserved(r)
    BY <2>1 DEF Serve, Arrive, ServeWrite, Refuse, LoseWrite, ReceiveLoadError,
                ReceiveAct, ReceiveSend, ReceiveRead
  <2>2. CASE Step
    BY <2>1, <2>2 DEF Step, OtherCommits, Act, Reserve, Refresh, Show, Send, Update, Asks
  <2> QED
    BY <2>2 DEF ScreensNext, Hear, Told, NeverTold, Reconnected, Accepted
<1> QED
  BY <1>1, <1>2, <1>3, <1>4, <1>5

LEMMA NextGood ==
    ASSUME IInv, ScreensNext
    PROVE  Good
<1>1. ASSUME NEW kind \in Kinds, OtherCommits(kind)
      PROVE  Good
  BY <1>1, OthersGood
<1>2. ASSUME NEW r \in requests, Serve(r)
      PROVE  Good
  BY <1>2, ServeWriteGood, FailGood DEF Serve
<1>3. ASSUME NEW r \in requests, Arrive(r)
      PROVE  Good
  BY <1>3, ReceiveLoadGood, ReceiveLoadErrorGood, ReceiveActGood, ReceiveReservedGood,
     ReceiveSendGood, ReceiveReadGood, ReceiveUpdateGood DEF Arrive
<1>4. ASSUME NEW v \in OnScreen, Act(v) \/ Reserve(v) \/ Refresh(v) \/ \E f \in Filters : Show(v, f)
      PROVE  Good
  BY <1>4, OnScreenViews, ActGood, ReserveGood, RefreshGood, ShowGood
<1>5. ASSUME NEW t, Told(t) \/ NeverTold(t)
      PROVE  Good
  BY <1>5, HubGood DEF Told, NeverTold
<1>6. ASSUME NEW again, Accepted(again)
      PROVE  Good
  BY <1>6, HubGood DEF Accepted
<1>7. ASSUME NEW r \in Routes, Open(r)
      PROVE  Good
  BY <1>7, OpenGood
<1> QED
  BY <1>1, <1>2, <1>3, <1>4, <1>5, <1>6, <1>7, SendGood, UpdateGood, HearGood
     DEF ScreensNext, Step

LEMMA IInvStep ==
    ASSUME IInv, [ScreensNext]_screensVars
    PROVE  IInv' /\ [Onward]_screensVars
<1>1. CASE ScreensNext
  <2>1. Good
    BY <1>1, NextGood
  <2>2. RouteOK'
    BY <1>1, RouteStep
  <2>3. Safe(log, view, requests)'
    BY <2>1 DEF Good, Safe, TypesOf, Committed, Ahead, Single, OwnSends, SolidIn, Counts
  <2> QED
    BY <2>1, <2>2, <2>3 DEF Good, IInv
<1>2. CASE UNCHANGED screensVars
  BY <1>2 DEF screensVars, IInv, RouteOK, Safe, TypesOf, Committed, Ahead, Single,
                    OwnSends, SolidIn, Counts
<1> QED
  BY <1>1, <1>2

LEMMA ScreensInvariant == ScreensSpec => []IInv
<1>1. IInv /\ [ScreensNext]_screensVars => IInv'
  BY IInvStep
<1> QED
  BY InitIInv, <1>1, PTL DEF ScreensSpec

\* A board and a list of reservations never show less than they did, and a
\* thread never takes back what another member wrote, however many requests are
\* in flight and in whatever order they are answered: the counters of
\* board.svelte.ts, Reservations.svelte and ReservationDetail.svelte suffice.
THEOREM NeverBackInTimeHolds == ScreensSpec => NeverBackInTime
<1>1. IInv /\ [ScreensNext]_screensVars => [Onward]_screensVars
  BY IInvStep
<1> QED
  BY ScreensInvariant, <1>1, PTL DEF ScreensSpec, NeverBackInTime
-----------------------------------------------------------------------------
\* The composition: what the hub is told of a commit are frames it knows.

TellingOK == \A t \in telling : t.events \in Seq(Topics) \ {<<>>}

LEMMA PublishesTopics ==
    \A kind \in Kinds : Publishes[kind] \in Seq(Topics)
<1>1. /\ <<"board.changed">> \in Seq(Topics)
      /\ <<"reservation.changed", "board.changed">> \in Seq(Topics)
      /\ <<"message.new">> \in Seq(Topics)
      /\ <<"me.changed">> \in Seq(Topics)
      /\ <<>> \in Seq(Topics)
  BY DEF Topics
<1>2. /\ Publishes["offer"] = <<"board.changed">>
      /\ Publishes["reservation"] = <<"reservation.changed", "board.changed">>
      /\ Publishes["message"] = <<"message.new">>
      /\ Publishes["standing"] = <<"me.changed">>
      /\ Publishes["profile"] = <<"me.changed">>
      /\ Publishes["read"] = <<>> /\ Publishes["roster"] = <<>>
      /\ Publishes["catalog"] = <<>>
  BY DEF Publishes
<1>3. Kinds = {"offer", "reservation", "message", "standing", "profile",
               "read", "roster", "catalog"}
  BY DEF Kinds, Publishes
<1> QED
  BY <1>1, <1>2, <1>3

LEMMA CommitTells ==
    ASSUME TellingOK, NEW kind \in Kinds, NEW by, Commit(kind, by)
    PROVE  TellingOK'
BY PublishesTopics DEF TellingOK, Commit

LEMMA ShorterTells ==
    ASSUME TellingOK, NEW t \in telling, telling' = Shorter(t)
    PROVE  TellingOK'
<1>1. t.events \in Seq(Topics) /\ t.events # <<>>
  BY DEF TellingOK
<1>2. Tail(t.events) \in Seq(Topics)
  BY <1>1
<1>3. \A u \in telling' :
        \/ u \in telling
        \/ u = [t EXCEPT !.events = Tail(@)] /\ u.events # <<>>
  BY DEF Shorter
<1>4. ASSUME NEW u \in telling' PROVE u.events \in Seq(Topics) \ {<<>>}
  <2>1. CASE u \in telling
    BY <2>1 DEF TellingOK
  <2>2. CASE u = [t EXCEPT !.events = Tail(@)] /\ u.events # <<>>
    BY <2>2, <1>2
  <2> QED
    BY <1>3, <2>1, <2>2
<1> QED
  BY <1>4 DEF TellingOK

LEMMA StepTells ==
    ASSUME TellingOK, Step
    PROVE  TellingOK'
<1>1. ASSUME NEW kind \in Kinds, OtherCommits(kind) PROVE TellingOK'
  BY <1>1, CommitTells DEF OtherCommits
<1>2. ASSUME NEW r \in requests, ServeWrite(r) PROVE TellingOK'
  <2>1. Writes(r) \in Kinds
    BY DEF Writes, Kinds, Publishes
  <2> QED
    BY <1>2, <2>1, CommitTells DEF ServeWrite, TellingOK
<1>3. \/ \E kind \in Kinds : OtherCommits(kind)
      \/ \E r \in requests : ServeWrite(r)
      \/ UNCHANGED telling
  BY DEF Step, Serve, Arrive, Refuse, LoseWrite, ReceiveLoad, ReceiveLoadError,
         ReceiveAct, ReceiveReserved, ReceiveSend, ReceiveRead, ReceiveUpdate,
         Open, Act, Reserve, Refresh, Show, Send, Update, Asks
<1> QED
  BY <1>1, <1>2, <1>3 DEF TellingOK

\* A step of the app is one of its socket and one of its screens, or of either.
LEMMA AppSteps ==
    ASSUME TellingOK, AppNext
    PROVE  [Next]_vars /\ [ScreensNext]_screensVars /\ TellingOK'
<1>1. CASE Screen
  <2>1. [Next]_vars
    BY <1>1, MiniAppAssumption DEF Screen, Tells, Next, Viewable
  <2> QED
    BY <1>1, <2>1, StepTells DEF Screen, ScreensNext
<1>2. CASE Begin
  BY <1>2 DEF Begin, Next, screensVars, TellingOK
<1>3. ASSUME NEW c \in Conns, Connecting(c)
      PROVE  [Next]_vars /\ [ScreensNext]_screensVars /\ TellingOK'
  <2>1. Next
    BY <1>3 DEF Connecting, Next
  <2>2. CASE UNCHANGED screensVars
    BY <2>1, <2>2 DEF screensVars, TellingOK
  <2>3. CASE Accepted(store.lost)
    <3>1. Accepted(TRUE) \/ Accepted(FALSE)
      BY <2>3 DEF Accepted
    <3> QED
      BY <2>1, <3>1 DEF ScreensNext, Accepted, TellingOK
  <2> QED
    BY <1>3, <2>2, <2>3 DEF Connecting
<1>4. ASSUME NEW c \in Conns, Opened(c)
      PROVE  [Next]_vars /\ [ScreensNext]_screensVars /\ TellingOK'
  BY <1>4 DEF Opened, Next, ScreensNext, Reconnected, screensVars, TellingOK
<1>5. ASSUME NEW c \in Conns, Frame(c)
      PROVE  [Next]_vars /\ [ScreensNext]_screensVars /\ TellingOK'
  <2> DEFINE e == Head(conns[c].down)
  <2>1. Next
    BY <1>5 DEF Frame, Next
  <2>2. Hear(e) /\ UNCHANGED telling
    BY <1>5 DEF Frame, Hear
  <2>3. CASE e \in Topics
    BY <2>1, <2>2, <2>3 DEF ScreensNext, TellingOK
  <2>4. CASE e \notin Topics
    <3>1. \A v : Behaviour(v).hears \subseteq Topics
      BY DEF Behaviour, MeView, BoardView, OffersView, OfferView, ReservationsView,
             ReservationView, ThreadView, MembersView, CatalogView, Topics
    <3>2. {v \in OnScreen : e \in Behaviour(v).hears} = {}
      BY <2>4, <3>1
    <3>3. Loads(requests, {}) = requests
      BY DEF Loads, Counted
    <3>4. UNCHANGED screensVars
      BY <2>2, <3>2, <3>3 DEF Hear, screensVars
    <3> QED
      BY <2>1, <3>4 DEF TellingOK, screensVars
  <2> QED
    BY <2>3, <2>4
<1>6. ASSUME NEW t \in telling, Telling(t)
      PROVE  [Next]_vars /\ [ScreensNext]_screensVars /\ TellingOK'
  <2>1. t.events \in Seq(Topics) /\ t.events # <<>>
    BY DEF TellingOK
  <2>2. Head(t.events) \in Events
    BY <2>1, MiniAppAssumption
  <2>3. [Next]_vars
    BY <1>6, <2>2 DEF Telling, Next
  <2>4. ScreensNext /\ telling' = Shorter(t)
    BY <1>6 DEF Telling, ScreensNext, Told, NeverTold
  <2> QED
    BY <2>3, <2>4, ShorterTells
<1> QED
  BY <1>1, <1>2, <1>3, <1>4, <1>5, <1>6 DEF AppNext

LEMMA AppStepsBox ==
    TellingOK /\ [AppNext]_appVars
        => [Next]_vars /\ [ScreensNext]_screensVars /\ TellingOK'
<1>1. TellingOK /\ UNCHANGED appVars
        => UNCHANGED vars /\ UNCHANGED screensVars /\ TellingOK'
  BY DEF appVars, vars, screensVars, TellingOK
<1> QED
  BY <1>1, AppSteps

LEMMA AppInits == AppInit => Init /\ ScreensInit /\ TellingOK
BY DEF AppInit, ScreensInit, TellingOK

LEMMA TellingInvariant == AppSpec => []TellingOK
BY AppInits, AppStepsBox, PTL DEF AppSpec

\* The composed app is an app of Realtime and one of Screens: what is proved of
\* the socket and of the screens alone holds of them together.
THEOREM MiniAppImplements == AppSpec => Spec /\ ScreensSpec
BY AppInits, AppStepsBox, PTL DEF AppSpec, Spec, ScreensSpec

\* So no counted list or thread of the whole app goes back in time, whatever
\* becomes of its socket.
THEOREM MiniAppNeverBackInTime == AppSpec => NeverBackInTime
BY MiniAppImplements, NeverBackInTimeHolds

\* And the app has one socket, over which the hub learns what is on screen,
\* whatever its screens ask for and are told.
THEOREM MiniAppSocketHolds == AppSpec => [](OneSocket /\ PresenceFollowsScreen)
BY MiniAppImplements, OneSocketHolds, PresenceHolds, PTL
-----------------------------------------------------------------------------
(* What is committed comes to be shown.                                    *)

LEMMA ViewFacts ==
    /\ \A v \in Views : v \in Lists => v \notin OwnLists
    /\ \A v \in Views : Behaviour(v).filters <=> v \in {"board", "reservations"}
    /\ Lists \subseteq Views /\ OwnLists \subseteq Views /\ "me" \in Views
    /\ "me" \notin Lists /\ "me" \notin OwnLists
BY DEF Lists, OwnLists, Views, Behaviour, MeView, BoardView, OffersView, OfferView,
       ReservationsView, ReservationView, ThreadView, MembersView, CatalogView

\* As much is on its way to v and as much is heard of what its member did.
Same(reqs, more, v) ==
    /\ Awaited(more, v) = Awaited(reqs, v)
    /\ v \in OwnLists =>
         \A r \in Acting(reqs, v) : r.at \in Nat \cup {Failed} =>
             \E q \in Acting(more, v) : q.at \in {r.at, Failed}

\* a's view v shows no less in b.
Better(a, b, v) ==
    IF v \in Lists
      THEN /\ a[v].shown \subseteq b[v].shown /\ (a[v].failed => b[v].failed)
           /\ (b[v].loaded => a[v].loaded)
      ELSE a[v].seen \subseteq b[v].seen

Asked(reqs, v) == \E r \in Awaited(reqs, v) : r.at = Len(log)

LEMMA SameSame == \A reqs, v : Same(reqs, reqs, v)
BY DEF Same

LEMMA SameTwice ==
    ASSUME NEW reqs, NEW more, NEW most, NEW v, Same(reqs, more, v), Same(more, most, v)
    PROVE  Same(reqs, most, v)
<1>1. Awaited(most, v) = Awaited(reqs, v)
  BY DEF Same
<1>2. ASSUME v \in OwnLists, NEW r \in Acting(reqs, v), r.at \in Nat \cup {Failed}
      PROVE  \E p \in Acting(most, v) : p.at \in {r.at, Failed}
  <2>1. PICK q \in Acting(more, v) : q.at \in {r.at, Failed}
    BY <1>2 DEF Same
  <2>2. PICK p \in Acting(most, v) : p.at \in {q.at, Failed}
    BY <1>2, <2>1 DEF Same
  <2> QED
    BY <2>1, <2>2
<1> QED
  BY <1>1, <1>2 DEF Same

LEMMA BetterSame == \A vw, v : Better(vw, vw, v)
BY DEF Better

\* A view stays settled as long as both hold.
LEMMA SettledOn ==
    ASSUME NEW vw, NEW reqs, NEW nw, NEW more, NEW v, NEW i \in Nat,
           Same(reqs, more, v), Better(vw, nw, v), Settled(vw, reqs, v, i)
    PROVE  Settled(nw, more, v, i)
<1>1. CASE Brings(reqs, v, i)
  BY <1>1 DEF Settled, Brings, Same
<1>2. CASE v \in Lists /\ Shows(vw, reqs, v, i)
  BY <1>2 DEF Settled, Shows, Same, Better
<1>3. CASE v \notin Lists /\ Shows(vw, reqs, v, i)
  <2>1. CASE i \in vw[v].seen
    BY <1>3, <2>1 DEF Settled, Shows, Better
  <2>2. CASE v \in OwnLists /\ \E r \in Acting(reqs, v) : r.at \in {i, Failed}
    <3>1. PICK r \in Acting(reqs, v) : r.at \in {i, Failed}
      BY <2>2
    <3>2. PICK q \in Acting(more, v) : q.at \in {r.at, Failed}
      BY <2>2, <3>1 DEF Same
    <3>3. q.at \in {i, Failed}
      BY <3>1, <3>2
    <3> QED
      BY <1>3, <2>2, <3>3 DEF Settled, Shows
  <2> QED
    BY <1>3, <2>1, <2>2 DEF Shows
<1> QED
  BY <1>1, <1>2, <1>3 DEF Settled

\* And is settled once it has asked.
LEMMA AskedSettles ==
    ASSUME NEW vw, NEW reqs, NEW v, NEW i \in 1 .. Len(log), Asked(reqs, v)
    PROVE  Settled(vw, reqs, v, i)
BY DEF Asked, Settled, Brings

\* What is asked: each view of V, and no other one more.
LEMMA LoadsAsk ==
    ASSUME view \in [Views -> ViewRec], log \in Seq(Entry), NEW reqs, NEW V \in SUBSET Views
    PROVE  /\ \A v \in V : Asked(Loads(reqs, V), v)
           /\ \A v \in Views \ V : Same(reqs, Loads(reqs, V), v)
           /\ \A v \in Views : \A r \in Acting(reqs, v) : r \in Acting(Loads(reqs, V), v)
           /\ \A r \in Loads(reqs, V) :
                r \in reqs \/ (r.view \in V /\ r.gone = FALSE /\ r.filter = view[r.view].wants)
<1> DEFINE others == Counted(reqs, V, FALSE)
           R(v) == Request(others, v, "load", FALSE)
           all == others \cup {R(v) : v \in V}
<1>1. Loads(reqs, V) = all
  BY DEF Loads
<1>2. \A v \in V : /\ R(v).view = v /\ R(v).what = "load" /\ R(v).gone = FALSE
                   /\ R(v).at = Len(log) /\ R(v).filter = view[v].wants
  <2> TAKE v \in V
  <2> HIDE DEF others
  <2>1. v \in Views /\ FALSE \in BOOLEAN
    OBVIOUS
  <2>2. R(v).filter = view[v].wants
    BY RequestFilter
  <2> QED
    BY <2>1, <2>2, LoadIs
<1>3. others \subseteq reqs
  BY DEF Counted
<1>4. \A r \in reqs : (r.what # "load" \/ r.view \notin V) => r \in others
  BY DEF Counted
<1> HIDE DEF others, R
<1>5. \A v \in V : R(v) \in Awaited(all, v)
  BY <1>2 DEF Awaited
<1>6. \A v \in Views \ V : Awaited(all, v) = Awaited(reqs, v)
  BY <1>2, <1>3, <1>4 DEF Awaited
<1>7. \A v \in Views : \A r \in Acting(reqs, v) : r \in Acting(all, v)
  BY <1>4 DEF Acting
<1>8. \A r \in all : r \in reqs \/ (r.view \in V /\ r.gone = FALSE /\ r.filter = view[r.view].wants)
  BY <1>2, <1>3
<1>9. \A v \in V : Asked(all, v)
  BY <1>2, <1>5 DEF Asked
<1>10. \A v \in Views \ V : Same(reqs, all, v)
  BY <1>6, <1>7 DEF Same
<1> HIDE DEF all
<1> QED
  BY <1>1, <1>7, <1>8, <1>9, <1>10

\* The filters still fit, when nothing is shown that was not and what is asked
\* is still asked.
LEMMA FitsOn ==
    ASSUME NEW vw, NEW reqs, Fits(vw, reqs), NEW nw, NEW more,
           \A v \in Views :
              /\ nw[v].wants = vw[v].wants /\ nw[v].holds = vw[v].holds
              /\ v \in Lists => /\ Awaited(reqs, v) # {} => Awaited(more, v) # {}
                                /\ nw[v].loaded /\ ~nw[v].failed => vw[v].loaded /\ ~vw[v].failed,
           \A r \in more : \/ r \in reqs
                           \/ /\ r.view = "me" => ~r.gone
                              /\ r.what = "load" /\ ~r.gone =>
                                    r.view \in Views /\ r.filter = nw[r.view].wants,
           \A r \in reqs : r.view \in Views
    PROVE  Fits(nw, more)
<1>1. ASSUME NEW v \in Views
      PROVE  /\ ~Behaviour(v).filters => nw[v].wants = 1 /\ nw[v].holds = 1
             /\ \/ Awaited(more, v) # {} \/ ~nw[v].loaded \/ nw[v].failed
                \/ nw[v].holds = nw[v].wants
  <2>1. CASE v \in {"board", "reservations"}
    <3>1. v \in Lists
      BY <2>1 DEF Lists
    <3> QED
      BY <2>1, <3>1, ViewFacts DEF Fits
  <2>2. CASE v \notin {"board", "reservations"}
    BY <2>2, ViewFacts DEF Fits
  <2> QED
    BY <2>1, <2>2
<1>2. ASSUME NEW r \in more
      PROVE  /\ r.view = "me" => ~r.gone
             /\ r.what = "load" /\ ~r.gone => r.filter = nw[r.view].wants
  BY DEF Fits
<1> QED
  BY <1>1, <1>2 DEF Fits
-----------------------------------------------------------------------------
\* What was settled of a screen that stays is still settled, and a new screen
\* settles all of the log.
Kept ==
    \A v \in OnScreen' : \A i \in 1 .. Len(log) :
        (/\ v \in OwnLists => log[i].by = "mounted"
         /\ v \in OnScreen => Settled(view, requests, v, i))
            => Settled(view', requests', v, i)

KeptAndFits == Kept /\ Fits(view', requests')

LEMMA SameScreen == ASSUME route' = route PROVE OnScreen' = OnScreen
BY DEF OnScreen

LEMMA Carried ==
    ASSUME IInv, route' = route,
           \A v \in Views : \/ Asked(requests', v)
                            \/ Same(requests, requests', v) /\ Better(view, view', v)
    PROVE  Kept
<1>1. SUFFICES ASSUME NEW v \in OnScreen, NEW i \in 1 .. Len(log), Settled(view, requests, v, i)
               PROVE  Settled(view', requests', v, i)
  BY SameScreen DEF Kept
<1>2. v \in Views /\ i \in Nat
  BY OnScreenViews
<1>3. CASE Asked(requests', v)
  BY <1>3, AskedSettles
<1>4. CASE Same(requests, requests', v) /\ Better(view, view', v)
  BY <1>1, <1>2, <1>4, SettledOn
<1> QED
  BY <1>2, <1>3, <1>4

\* Views ask again, of what was there or of a part of it.
LEMMA LoadsKeep ==
    ASSUME IInv, route' = route, NEW reqs, NEW V \in SUBSET Views, requests' = Loads(reqs, V),
           \A v \in Views \ V : Same(requests, reqs, v) /\ Better(view, view', v)
    PROVE  Kept
<1>1. view \in [Views -> ViewRec] /\ log \in Seq(Entry)
  BY Typed DEF IInv
<1>2. ASSUME NEW v \in Views
      PROVE  Asked(requests', v) \/ (Same(requests, requests', v) /\ Better(view, view', v))
  <2>1. CASE v \in V
    BY <1>1, <2>1, LoadsAsk
  <2>2. CASE v \notin V
    <3>1. Same(reqs, Loads(reqs, V), v)
      BY <1>1, <2>2, LoadsAsk
    <3>2. Same(requests, reqs, v) /\ Better(view, view', v)
      BY <2>2
    <3>3. Same(requests, Loads(reqs, V), v)
      BY <3>1, <3>2, SameTwice
    <3> QED
      BY <3>2, <3>3
  <2> QED
    BY <2>1, <2>2
<1> QED
  BY <1>2, Carried

LEMMA LoadsFit ==
    ASSUME view \in [Views -> ViewRec], log \in Seq(Entry),
           NEW vw, NEW reqs, Fits(vw, reqs), \A r \in reqs : r.view \in Views,
           NEW V \in SUBSET Views, \A v \in V : vw[v].wants = view[v].wants
    PROVE  Fits(vw, Loads(reqs, V))
<1> DEFINE more == Loads(reqs, V)
<1>1. /\ \A v \in V : Asked(more, v)
      /\ \A v \in Views \ V : Same(reqs, more, v)
      /\ \A r \in more :
           r \in reqs \/ (r.view \in V /\ r.gone = FALSE /\ r.filter = view[r.view].wants)
  BY LoadsAsk
<1> HIDE DEF more
<1>2. \A v \in Views : Awaited(reqs, v) # {} => Awaited(more, v) # {}
  BY <1>1 DEF Asked, Same
<1>3. \A r \in more : \/ r \in reqs
                      \/ /\ r.view = "me" => ~r.gone
                         /\ r.what = "load" /\ ~r.gone =>
                               r.view \in Views /\ r.filter = vw[r.view].wants
  BY <1>1
<1>4. Fits(vw, more)
  BY <1>2, <1>3, FitsOn
<1> QED
  BY <1>4 DEF more

\* A request without its answer, once it is gone or no load or act.
LEMMA RestSame ==
    ASSUME NEW reqs, NEW r \in reqs, r.what \notin {"load", "act"} \/ r.gone
    PROVE  \A v \in Views : Same(reqs, reqs \ {r}, v)
BY DEF Same, Awaited, Acting

\* A write is answered.
LEMMA AnsweredSame ==
    ASSUME NEW reqs, NEW r \in reqs, IsRequest(r), r.what # "load", NEW at \in Int,
           r.at = Unserved \/ at = Failed
    PROVE  /\ \A v \in Views : Same(reqs, (reqs \ {r}) \cup {[r EXCEPT !.at = at]}, v)
           /\ [r EXCEPT !.at = at].gone = r.gone /\ [r EXCEPT !.at = at].view = r.view
<1> DEFINE q == [r EXCEPT !.at = at]
           more == (reqs \ {r}) \cup {q}
<1>1. q.what = r.what /\ q.view = r.view /\ q.gone = r.gone /\ q.at = at
  BY DEF IsRequest
<1> HIDE DEF q
<1>2. \A v \in Views : Awaited(more, v) = Awaited(reqs, v)
  BY <1>1 DEF Awaited
<1>3. ASSUME NEW v \in Views, NEW p \in Acting(reqs, v), p.at \in Nat \cup {Failed}
      PROVE  \E s \in Acting(more, v) : s.at \in {p.at, Failed}
  <2>1. CASE p = r
    <3>1. at = Failed
      BY <1>3, <2>1 DEF Unserved, Failed
    <3>2. q \in Acting(more, v)
      BY <1>1, <1>3, <2>1 DEF Acting
    <3> QED
      BY <1>1, <3>1, <3>2
  <2>2. CASE p # r
    <3>1. p \in Acting(more, v)
      BY <1>3, <2>2 DEF Acting
    <3> QED
      BY <3>1
  <2> QED
    BY <2>1, <2>2
<1> QED
  BY <1>1, <1>2, <1>3 DEF Same, q
-----------------------------------------------------------------------------
LEMMA RequestsViews ==
    ASSUME IInv
    PROVE  \A r \in requests : r.view \in Views
BY Typed DEF IInv, IsRequest

\* Nothing on screen, and no request that matters, is disturbed.
LEMMA Undisturbed ==
    ASSUME IInv, Fits(view, requests), route' = route, view' = view,
           \A v \in Views : Same(requests, requests', v),
           \A r \in requests' : r \in requests \/ (r.what # "load" /\ (r.view = "me" => ~r.gone))
    PROVE  KeptAndFits
<1>1. Kept
  BY BetterSame, Carried
<1>2. Fits(view, requests')
  <2>1. \A v \in Views : Awaited(requests, v) # {} => Awaited(requests', v) # {}
    BY DEF Same
  <2>2. \A r \in requests : r.view \in Views
    BY RequestsViews
  <2> QED
    BY <2>1, <2>2, FitsOn
<1> QED
  BY <1>1, <1>2 DEF KeptAndFits

LEMMA OtherCommitsKeeps ==
    ASSUME IInv, Fits(view, requests), NEW kind \in Kinds, OtherCommits(kind)
    PROVE  KeptAndFits
BY SameSame, Undisturbed DEF OtherCommits

LEMMA ServeKeeps ==
    ASSUME IInv, Fits(view, requests), NEW r \in requests, Serve(r)
    PROVE  KeptAndFits
<1>1. IsRequest(r) /\ Len(log) \in Nat
  BY Typed DEF IInv
<1>2. PICK at \in Int : /\ requests' = (requests \ {r}) \cup {[r EXCEPT !.at = at]}
                        /\ r.what # "load" /\ route' = route /\ view' = view
                        /\ r.at = Unserved \/ at = Failed
  <2>1. CASE ServeWrite(r)
    <3>1. r.what # "load" /\ route' = route /\ view' = view /\ r.at = Unserved
      BY <2>1 DEF ServeWrite, Write
    <3>2. \E at \in {Len(log), Len(log) + 1} : Answered(r, at)
      BY <2>1 DEF ServeWrite
    <3>3. Len(log) \in Int /\ Len(log) + 1 \in Int
      BY <1>1
    <3> QED
      BY <3>1, <3>2, <3>3 DEF Answered
  <2>2. CASE Refuse(r)
    BY <2>2 DEF Refuse, Answered, Write, Refused
  <2>3. CASE LoseWrite(r)
    BY <2>3 DEF LoseWrite, Answered, Failed
  <2> QED
    BY <2>1, <2>2, <2>3 DEF Serve
<1> DEFINE q == [r EXCEPT !.at = at]
<1>3. /\ \A v \in Views : Same(requests, (requests \ {r}) \cup {q}, v)
      /\ q.gone = r.gone /\ q.view = r.view /\ q.what = r.what
  BY <1>1, <1>2, AnsweredSame, AnswerIs
<1>4. requests' = (requests \ {r}) \cup {q}
  BY <1>2
<1> HIDE DEF q
<1>5. r.view = "me" => ~r.gone
  BY DEF Fits
<1> QED
  BY <1>2, <1>3, <1>4, <1>5, Undisturbed

LEMMA AsksKeeps ==
    ASSUME IInv, Fits(view, requests), NEW v \in Views,
           NEW what \in {"act", "reserve", "send", "update"},
           what = "act" => v \notin {"me", "board", "thread", "reservations"},
           Asks(Request(requests, v, what, FALSE))
    PROVE  KeptAndFits
<1> DEFINE r == Request(requests, v, what, FALSE)
<1>1. view \in [Views -> ViewRec] /\ log \in Seq(Entry)
  BY Typed DEF IInv
<1>2. r.what = what /\ r.gone = FALSE
  BY <1>1, WriteIs
<1>3. requests' = requests \cup {r} /\ view' = view /\ route' = route
  BY DEF Asks
<1> HIDE DEF r
<1>4. \A u \in Views : Same(requests, requests', u)
  BY <1>2, <1>3 DEF Same, Awaited, Acting
<1> QED
  BY <1>2, <1>3, <1>4, Undisturbed

\* Views that ask again, and nothing else.
LEMMA AskAgainKeeps ==
    ASSUME IInv, Fits(view, requests), NEW V \in SUBSET Views, requests' = Loads(requests, V),
           route' = route, view' = view
    PROVE  KeptAndFits
<1>1. view \in [Views -> ViewRec] /\ log \in Seq(Entry)
  BY Typed DEF IInv
<1>2. Kept
  BY SameSame, BetterSame, LoadsKeep
<1>3. Fits(view, Loads(requests, V))
  BY <1>1, RequestsViews, LoadsFit
<1> QED
  BY <1>2, <1>3 DEF KeptAndFits
-----------------------------------------------------------------------------
\* Leaving a screen disturbs no other, and keeps the loads of the board.
LEMMA LeaveIs ==
    ASSUME NEW reqs, \A r \in reqs : IsRequest(r), NEW V
    PROVE  /\ \A v \in Views \ V : Same(reqs, Leave(reqs, V), v)
           /\ Awaited(Leave(reqs, V), "board") = Awaited(reqs, "board")
           /\ \A r \in Leave(reqs, V) :
                \/ r \in reqs /\ (r.view \in V => r.view = "board")
                \/ r.gone = TRUE /\ r.view \in V /\ r.view \in Views
<1> DEFINE kept == Leave(reqs, V)
<1>1. \A q \in reqs : /\ [q EXCEPT !.gone = TRUE].gone = TRUE
                      /\ [q EXCEPT !.gone = TRUE].view = q.view /\ q.view \in Views
  BY DEF IsRequest
<1>2. \A r \in kept :
         \/ r \in reqs /\ (r.view \in V => r.view = "board")
         \/ r.gone = TRUE /\ r.view \in V /\ r.view \in Views
  BY <1>1 DEF Leave
<1>3. \A r \in reqs : r.view \notin V \/ (r.view = "board" /\ r.what = "load") => r \in kept
  BY DEF Leave
<1> HIDE DEF kept
<1>4. \A v \in Views \ V : Awaited(kept, v) = Awaited(reqs, v)
  BY <1>2, <1>3 DEF Awaited
<1>5. \A v \in Views \ V : \A r \in Acting(reqs, v) : r \in Acting(kept, v)
  BY <1>3 DEF Acting
<1>6. Awaited(kept, "board") = Awaited(reqs, "board")
  BY <1>2, <1>3 DEF Awaited
<1>7. \A v \in Views \ V : Same(reqs, kept, v)
  BY <1>4, <1>5 DEF Same
<1> QED
  BY <1>2, <1>6, <1>7 DEF kept

LEMMA OtherScreens ==
    ASSUME IInv, NEW r \in Routes \cup {"gate"}
    PROVE  /\ ViewsOf(r) \subseteq Views /\ ViewsOf(route) \subseteq Views
           /\ "me" \notin ViewsOf(r) /\ "me" \notin ViewsOf(route)
           /\ r # route => ViewsOf(r) \cap ViewsOf(route) = {}
BY ScreensAssumption DEF IInv, RouteOK, ViewsOf, Views

\* A new screen asks for all of its data; the profile is as settled as it was.
LEMMA MountKeeps ==
    ASSUME IInv, NEW vw \in [Views -> ViewRec], NEW reqs, \A q \in reqs : IsRequest(q),
           Fits(vw, reqs), \A v \in Views : vw[v].wants = view[v].wants,
           \A i \in 1 .. Len(log) :
              Settled(view, requests, "me", i) => Settled(vw, reqs, "me", i),
           NEW r \in Routes \cup {"gate"}, r # route, Mount(r, vw, reqs)
    PROVE  KeptAndFits
<1> DEFINE left == ViewsOf(route)
           kept == Leave(reqs, left)
           V == ViewsOf(r)
<1>1. /\ route' = r /\ requests' = Loads(kept, V)
      /\ view' = [v \in Views |-> IF v \in left \ {"board"} THEN Empty ELSE vw[v]]
  BY DEF Mount
<1>2. V \in SUBSET Views /\ "me" \notin V /\ "me" \notin left /\ V \cap left = {}
  BY OtherScreens
<1>3. view \in [Views -> ViewRec] /\ log \in Seq(Entry) /\ Len(log) \in Nat /\ "me" \in Views
  BY Typed, ViewFacts DEF IInv
<1>4. /\ \A v \in Views \ left : Same(reqs, kept, v)
      /\ Awaited(kept, "board") = Awaited(reqs, "board")
      /\ \A q \in kept : \/ q \in reqs /\ (q.view \in left => q.view = "board")
                         \/ q.gone = TRUE /\ q.view \in left /\ q.view \in Views
  BY LeaveIs
<1>5. /\ \A v \in V : Asked(requests', v)
      /\ \A v \in Views \ V : Same(kept, requests', v)
  <2> HIDE DEF kept, V
  <2> QED
    BY <1>1, <1>2, <1>3, LoadsAsk
<1>6. view'["me"] = vw["me"] /\ \A v \in V : view'[v] = vw[v]
  BY <1>1, <1>2, <1>3
<1>7. OnScreen' = V \cup {"me"}
  BY <1>1 DEF OnScreen
<1>8. "me" \in OnScreen
  BY DEF OnScreen
<1>9. \A q \in kept : q.view \in Views
  BY <1>4 DEF IsRequest
<1>14. \A q \in reqs : q.view \in Views
  BY DEF IsRequest
<1> HIDE DEF kept, V, left
<1>10. Kept
  <2>1. SUFFICES ASSUME NEW v \in OnScreen', NEW i \in 1 .. Len(log),
                        v \in OnScreen => Settled(view, requests, v, i)
                 PROVE  Settled(view', requests', v, i)
    BY DEF Kept
  <2>2. CASE v \in V
    BY <1>5, <2>2, AskedSettles
  <2>3. CASE v = "me"
    <3>1. Settled(vw, reqs, "me", i)
      BY <1>8, <2>1, <2>3
    <3>2. Same(reqs, requests', "me")
      BY <1>2, <1>3, <1>4, <1>5, SameTwice
    <3>3. Better(vw, view', "me")
      BY <1>6 DEF Better
    <3>4. Settled(view', requests', "me", i)
      BY <1>3, <3>1, <3>2, <3>3, SettledOn
    <3> QED
      BY <2>3, <3>4
  <2> QED
    BY <1>7, <2>2, <2>3
<1>11. Fits(view', kept)
  <2>1. ASSUME NEW v \in Views
        PROVE  /\ ~Behaviour(v).filters => view'[v].wants = 1 /\ view'[v].holds = 1
               /\ \/ Awaited(kept, v) # {} \/ ~view'[v].loaded \/ view'[v].failed
                  \/ view'[v].holds = view'[v].wants
    <3>1. CASE v \in left \ {"board"}
      BY <1>1, <3>1 DEF Empty
    <3>2. CASE v \notin left \ {"board"}
      <4>1. view'[v] = vw[v] /\ Awaited(kept, v) = Awaited(reqs, v)
        BY <1>1, <1>4, <3>2 DEF Same
      <4> QED
        BY <4>1 DEF Fits
    <3> QED
      BY <3>1, <3>2
  <2>2. ASSUME NEW q \in kept
        PROVE  /\ q.view = "me" => ~q.gone
               /\ q.what = "load" /\ ~q.gone => q.filter = view'[q.view].wants
    <3>1. CASE q \in reqs /\ (q.view \in left => q.view = "board")
      <4>1. view'[q.view] = vw[q.view]
        BY <1>1, <1>14, <3>1
      <4> QED
        BY <3>1, <4>1 DEF Fits
    <3>2. CASE q.gone = TRUE /\ q.view \in left
      BY <1>2, <3>2
    <3> QED
      BY <1>4, <3>1, <3>2
  <2> QED
    BY <2>1, <2>2 DEF Fits
<1>12. \A v \in V : view'[v].wants = view[v].wants
  BY <1>2, <1>6
<1>13. Fits(view', requests')
  BY <1>1, <1>2, <1>3, <1>9, <1>11, <1>12, LoadsFit
<1> QED
  BY <1>10, <1>13 DEF KeptAndFits

LEMMA MeShowsKeeps ==
    ASSUME IInv, NEW vw \in [Views -> ViewRec], NEW reqs, \A q \in reqs : IsRequest(q),
           Fits(vw, reqs), \A v \in Views : vw[v].wants = view[v].wants,
           \A v \in OnScreen : \A i \in 1 .. Len(log) :
              Settled(view, requests, v, i) => Settled(vw, reqs, v, i),
           MeShows(vw, reqs)
    PROVE  KeptAndFits
<1>1. CASE view' = vw /\ requests' = reqs /\ route' = route
  BY <1>1, SameScreen DEF Kept, KeptAndFits
<1>2. CASE \E r \in Routes \cup {"gate"} : r # route /\ Mount(r, vw, reqs)
  <2>1. "me" \in OnScreen
    BY DEF OnScreen
  <2> QED
    BY <1>2, <2>1, MountKeeps
<1>3. \A r \in Starts : r \in Routes /\ r \notin {"starting", "gate"}
  BY ScreensAssumption
<1> QED
  BY <1>1, <1>2, <1>3 DEF MeShows

LEMMA OpenKeeps ==
    ASSUME IInv, Fits(view, requests), NEW r \in Routes, Open(r)
    PROVE  KeptAndFits
<1>1. Mount(r, view, requests) /\ r # route /\ r \in Routes \cup {"gate"}
  BY DEF Open
<1>2. view \in [Views -> ViewRec] /\ \A q \in requests : IsRequest(q)
  BY Typed DEF IInv
<1> QED
  BY <1>1, <1>2, MountKeeps

\* A request that changes nothing but where the member is.
LEMMA ReceiveReservedKeeps ==
    ASSUME IInv, Fits(view, requests), NEW r \in requests, ReceiveReserved(r)
    PROVE  KeptAndFits
<1>1. r.what = "reserve"
  BY DEF ReceiveReserved
<1>2. /\ view \in [Views -> ViewRec] /\ \A q \in requests : IsRequest(q)
      /\ \A v \in Views : Same(requests, Rest(r), v)
  BY <1>1, Typed, RestSame DEF IInv, Rest
<1>3. Fits(view, Rest(r))
  <2>1. \A v \in Views : Awaited(requests, v) # {} => Awaited(Rest(r), v) # {}
    BY <1>2 DEF Same
  <2>2. \A q \in Rest(r) : q \in requests
    BY DEF Rest
  <2> QED
    BY <2>1, <2>2, RequestsViews, FitsOn
<1>4. CASE view' = view /\ requests' = Rest(r) /\ route' = route
  BY <1>2, <1>4, Undisturbed DEF Rest
<1>5. ASSUME NEW s \in Routes \cup {"gate"}, s # route, Mount(s, view, Rest(r))
      PROVE  KeptAndFits
  <2>1. \A q \in Rest(r) : IsRequest(q)
    BY <1>2 DEF Rest
  <2>2. \A i \in 1 .. Len(log) :
           Settled(view, requests, "me", i) => Settled(view, Rest(r), "me", i)
    BY <1>2, BetterSame, SettledOn, ViewFacts
  <2> QED
    BY <1>2, <1>3, <1>5, <2>1, <2>2, MountKeeps
<1>6. \/ view' = view /\ requests' = Rest(r) /\ route' = route
      \/ \E s \in Routes \cup {"gate"} : s # route /\ Mount(s, view, Rest(r))
  BY DEF ReceiveReserved
<1> QED
  BY <1>4, <1>5, <1>6

\* Another filter: what was asked for the old one is not awaited any more.
LEMMA ShowKeeps ==
    ASSUME IInv, Fits(view, requests), NEW v \in Views, NEW f \in Filters, Show(v, f)
    PROVE  KeptAndFits
<1> DEFINE others == Counted(requests, {v}, FALSE)
           base == Request(others, v, "load", FALSE)
           r == [base EXCEPT !.filter = f]
<1>1. /\ view \in [Views -> ViewRec] /\ log \in Seq(Entry) /\ v \in {"board", "reservations"}
      /\ v \in Lists /\ route' = route
  BY Typed, ViewFacts DEF IInv, Show, Lists
<1>2. /\ requests' = others \cup {r}
      /\ view' = [view EXCEPT ![v].wants = f]
  BY DEF Show
<1>3. /\ \A u \in Views : u # v => view'[u] = view[u]
      /\ view'[v].wants = f
  <2>1. view[v] \in ViewRec
    BY <1>1
  <2>2. [view[v] EXCEPT !.wants = f].wants = f
    BY <2>1 DEF ViewRec
  <2> QED
    BY <1>1, <1>2, <2>2
<1>4. IsRequest(base) /\ base.view = v /\ base.what = "load" /\ base.gone = FALSE /\ base.at = Len(log)
  <2> HIDE DEF others
  <2>1. FALSE \in BOOLEAN
    OBVIOUS
  <2> QED
    BY <1>1, <2>1, LoadIs
<1>5. /\ r.view = v /\ r.what = "load" /\ r.gone = FALSE /\ r.at = Len(log) /\ r.filter = f
  <2> HIDE DEF base
  <2> QED
    BY <1>4 DEF IsRequest
<1>6. /\ others \subseteq requests
      /\ \A q \in others : ~(q.view = v /\ q.what = "load" /\ ~q.gone)
      /\ \A q \in requests : q.view # v \/ q.what # "load" => q \in others
  <2>1. Guarded(v)
    BY <1>1, GuardedIs
  <2>2. \A q \in requests : q.gone \in BOOLEAN
    BY Typed DEF IInv, IsRequest
  <2> QED
    BY <2>1, <2>2 DEF Counted
<1> HIDE DEF others, base, r
<1>7. ASSUME NEW u \in Views
      PROVE  Asked(requests', u) \/ (Same(requests, requests', u) /\ Better(view, view', u))
  <2>1. CASE u = v
    BY <1>2, <1>5, <2>1 DEF Asked, Awaited
  <2>2. CASE u # v
    <3>1. Awaited(requests', u) = Awaited(requests, u)
      BY <1>2, <1>5, <1>6, <2>2 DEF Awaited
    <3>2. \A q \in Acting(requests, u) : q \in Acting(requests', u)
      BY <1>2, <1>6 DEF Acting
    <3> QED
      BY <1>3, <2>2, <3>1, <3>2 DEF Same, Better
  <2> QED
    BY <2>1, <2>2
<1>8. Kept
  BY <1>1, <1>7, Carried
<1>9. Fits(view', requests')
  <2>1. ASSUME NEW u \in Views
        PROVE  /\ ~Behaviour(u).filters => view'[u].wants = 1 /\ view'[u].holds = 1
               /\ \/ Awaited(requests', u) # {} \/ ~view'[u].loaded \/ view'[u].failed
                  \/ view'[u].holds = view'[u].wants
    <3>1. CASE u = v
      BY <1>1, <1>2, <1>5, <3>1, ViewFacts DEF Awaited
    <3>2. CASE u # v
      <4>1. Awaited(requests', u) = Awaited(requests, u)
        BY <1>2, <1>5, <1>6, <3>2 DEF Awaited
      <4> QED
        BY <1>3, <3>2, <4>1 DEF Fits
    <3> QED
      BY <3>1, <3>2
  <2>2. ASSUME NEW q \in requests'
        PROVE  /\ q.view = "me" => ~q.gone
               /\ q.what = "load" /\ ~q.gone => q.filter = view'[q.view].wants
    <3>1. CASE q = r
      BY <1>3, <1>5, <3>1
    <3>2. CASE q \in others
      <4>1. q \in requests /\ q.view \in Views
        BY <1>6, <3>2, RequestsViews
      <4> QED
        BY <1>3, <1>6, <3>2, <4>1 DEF Fits
    <3> QED
      BY <1>2, <3>1, <3>2
  <2> QED
    BY <2>1, <2>2 DEF Fits
<1> QED
  BY <1>8, <1>9 DEF KeptAndFits
-----------------------------------------------------------------------------
\* The answers.

\* One load of v is answered: what it brought is shown.
LEMMA Answers ==
    ASSUME IInv, Fits(view, requests), NEW r \in requests, r.what = "load", r.gone = FALSE,
           NEW nw, \A u \in Views : u # r.view => nw[u] = view[u],
           r.view \in Lists => \/ nw[r.view].failed
                               \/ \A i \in 1 .. r.at : i \in nw[r.view].shown,
           r.view \notin Lists => /\ view[r.view].seen \subseteq nw[r.view].seen
                                  /\ \A i \in 1 .. r.at : i \in nw[r.view].seen,
           NEW more, \A v \in Views : /\ Awaited(more, v) = Awaited(requests, v) \ {r}
                                      /\ Acting(more, v) = Acting(requests, v),
           NEW v \in Views, NEW i \in 1 .. Len(log), Settled(view, requests, v, i)
    PROVE  Settled(nw, more, v, i)
<1>1. IsRequest(r) /\ r.view \in Views /\ r.at \in Nat /\ i \in Nat /\ i >= 1
  BY Typed DEF IInv, IsRequest
<1>2. CASE v # r.view
  <2>1. Awaited(more, v) = Awaited(requests, v)
    BY <1>2 DEF Awaited
  <2> QED
    BY <1>1, <1>2, <2>1, SettledOn DEF Same, Better
<1>3. CASE v = r.view /\ v \in Lists
  <2>1. Counts(r)
    BY <1>3 DEF Counts
  <2>2. \A q \in Awaited(requests, v) : q = r
    <3>1. \A q \in requests : IsRequest(q)
      BY Typed DEF IInv
    <3>2. \A q \in Awaited(requests, v) : q \in requests /\ Counts(q) /\ q.view = r.view
      BY <1>3, <3>1 DEF Awaited, Counts, IsRequest
    <3> QED
      BY <2>1, <3>2 DEF IInv, Safe, Single
  <2>3. r \in Awaited(requests, v) /\ Awaited(more, v) = {}
    BY <1>3, <2>2 DEF Awaited
  <2>4. i <= r.at
    BY <1>3, <2>2, <2>3 DEF Settled, Brings, Shows
  <2>5. nw[v].failed \/ i \in nw[v].shown
    BY <1>1, <1>3, <2>4
  <2> QED
    BY <1>3, <2>3, <2>5 DEF Settled, Shows
<1>4. CASE v = r.view /\ v \notin Lists
  <2>1. CASE i <= r.at
    BY <1>1, <1>4, <2>1 DEF Settled, Shows
  <2>2. ASSUME NEW q \in Awaited(requests, v), q # r, i <= q.at
        PROVE  Settled(nw, more, v, i)
    BY <2>2 DEF Settled, Brings
  <2>3. CASE Shows(view, requests, v, i)
    BY <1>4, <2>3 DEF Settled, Shows
  <2> QED
    BY <2>1, <2>2, <2>3 DEF Settled, Brings
<1> QED
  BY <1>2, <1>3, <1>4

\* What goes with the answer of a load: nothing, or a thread's mark.
LEMMA AfterThreadIs ==
    ASSUME IInv, NEW r \in requests, r.what = "load"
    PROVE  /\ \A v \in Views : /\ Awaited(AfterThread(r), v) = Awaited(requests, v) \ {r}
                               /\ Acting(AfterThread(r), v) = Acting(requests, v)
           /\ \A q \in AfterThread(r) : q \in requests \/ (q.what = "read" /\ q.view = "thread")
<1> DEFINE q == [r EXCEPT !.what = "read", !.at = Unserved]
<1>1. q.what = "read" /\ q.view = r.view
  BY Typed DEF IInv, IsRequest
<1> HIDE DEF q
<1>2. AfterThread(r) = requests \ {r} \/ (r.view = "thread" /\ AfterThread(r) = (requests \ {r}) \cup {q})
  BY DEF AfterThread, Rest, q
<1>3. ASSUME NEW v \in Views
      PROVE  /\ Awaited(AfterThread(r), v) = Awaited(requests, v) \ {r}
             /\ Acting(AfterThread(r), v) = Acting(requests, v)
  BY <1>1, <1>2 DEF Awaited, Acting
<1> QED
  BY <1>1, <1>2, <1>3

LEMMA AfterLoadIs ==
    ASSUME IInv, NEW r \in requests, r.what = "load", NEW at \in r.at .. Len(log)
    PROVE  /\ AfterLoad(r, at) \in [Views -> ViewRec]
           /\ \A u \in Views : u # r.view => AfterLoad(r, at)[u] = view[u]
           /\ AfterLoad(r, at)[r.view].shown = 1 .. at
           /\ AfterLoad(r, at)[r.view].seen = view[r.view].seen \cup (1 .. at)
           /\ AfterLoad(r, at)[r.view].wants = view[r.view].wants
           /\ AfterLoad(r, at)[r.view].holds = r.filter
<1>1. /\ view \in [Views -> ViewRec] /\ Len(log) \in Nat /\ IsRequest(r)
      /\ r.view \in Views /\ r.at \in Nat /\ at \in Nat /\ r.filter \in Filters
  BY Typed DEF IInv, IsRequest
<1> DEFINE sh == Shown(r.view, 1 .. at)
           rec == [sh[r.view] EXCEPT !.holds = r.filter]
<1>2. 1 .. at \in SUBSET Nat
  BY <1>1
<1>3. /\ sh \in [Views -> ViewRec] /\ sh[r.view].shown = 1 .. at
      /\ sh[r.view].seen = view[r.view].seen \cup (1 .. at)
      /\ sh[r.view].wants = view[r.view].wants
      /\ \A u \in Views : u # r.view => sh[u] = view[u]
  BY <1>1, <1>2, ShownIs
<1>4. AfterLoad(r, at) = [sh EXCEPT ![r.view] = rec]
  BY Zenon DEF AfterLoad
<1> HIDE DEF sh
<1>5. /\ rec \in ViewRec /\ rec.shown = sh[r.view].shown /\ rec.seen = sh[r.view].seen
      /\ rec.wants = sh[r.view].wants /\ rec.holds = r.filter
  <2>1. sh[r.view] \in ViewRec
    BY <1>1, <1>3
  <2> QED
    BY <1>1, <2>1 DEF ViewRec
<1> HIDE DEF rec
<1> QED
  BY <1>1, <1>3, <1>4, <1>5

\* Both of them together.
LEMMA LoadedKeeps ==
    ASSUME IInv, Fits(view, requests), NEW r \in requests, r.what = "load", r.gone = FALSE,
           NEW at \in r.at .. Len(log),
           NEW more, \A v \in Views : /\ Awaited(more, v) = Awaited(requests, v) \ {r}
                                      /\ Acting(more, v) = Acting(requests, v),
           \A q \in more : q \in requests \/ (q.what = "read" /\ q.view = "thread")
    PROVE  /\ \A v \in Views : \A i \in 1 .. Len(log) :
                Settled(view, requests, v, i) => Settled(AfterLoad(r, at), more, v, i)
           /\ Fits(AfterLoad(r, at), more)
<1>1. /\ AfterLoad(r, at) \in [Views -> ViewRec]
      /\ \A u \in Views : u # r.view => AfterLoad(r, at)[u] = view[u]
      /\ AfterLoad(r, at)[r.view].shown = 1 .. at
      /\ AfterLoad(r, at)[r.view].seen = view[r.view].seen \cup (1 .. at)
      /\ AfterLoad(r, at)[r.view].wants = view[r.view].wants
      /\ AfterLoad(r, at)[r.view].holds = r.filter
  BY AfterLoadIs
<1>2. r.view \in Views /\ r.at \in Nat /\ at \in Nat /\ r.at <= at
  BY Typed DEF IInv, IsRequest
<1> DEFINE nw == AfterLoad(r, at)
<1>7. /\ \A u \in Views : u # r.view => nw[u] = view[u]
      /\ nw[r.view].shown = 1 .. at
      /\ nw[r.view].seen = view[r.view].seen \cup (1 .. at)
      /\ nw[r.view].wants = view[r.view].wants
      /\ nw[r.view].holds = r.filter
  BY <1>1
<1> HIDE DEF nw
<1>3. \A i \in 1 .. r.at : i \in 1 .. at
  BY <1>2
<1>4. \A v \in Views : \A i \in 1 .. Len(log) :
        Settled(view, requests, v, i) => Settled(nw, more, v, i)
  <2> TAKE v \in Views
  <2> TAKE i \in 1 .. Len(log)
  <2> HAVE Settled(view, requests, v, i)
  <2>1. /\ view[r.view].seen \subseteq nw[r.view].seen
        /\ \A j \in 1 .. r.at : j \in nw[r.view].seen /\ j \in nw[r.view].shown
    BY <1>3, <1>7
  <2> QED
    BY <1>7, <2>1, Answers
<1>5. r.filter = view[r.view].wants
  BY DEF Fits
<1>6. Fits(nw, more)
  <2>1. ASSUME NEW u \in Views
        PROVE  /\ ~Behaviour(u).filters => nw[u].wants = 1 /\ nw[u].holds = 1
               /\ \/ Awaited(more, u) # {} \/ ~nw[u].loaded \/ nw[u].failed
                  \/ nw[u].holds = nw[u].wants
    <3>1. CASE u = r.view
      BY <1>5, <1>7, <3>1 DEF Fits
    <3>2. CASE u # r.view
      <4>1. Awaited(more, u) = Awaited(requests, u)
        BY <3>2 DEF Awaited
      <4> QED
        BY <1>7, <3>2, <4>1 DEF Fits
    <3> QED
      BY <3>1, <3>2
  <2>2. ASSUME NEW q \in more
        PROVE  /\ q.view = "me" => ~q.gone
               /\ q.what = "load" /\ ~q.gone => q.filter = nw[q.view].wants
    <3>1. CASE q \in requests
      <4>1. nw[q.view].wants = view[q.view].wants
        BY <1>7, <3>1, RequestsViews
      <4> QED
        BY <3>1, <4>1 DEF Fits
    <3>2. CASE q.what = "read" /\ q.view = "thread"
      BY <3>2
    <3> QED
      BY <3>1, <3>2
  <2> QED
    BY <2>1, <2>2 DEF Fits
<1> QED
  BY <1>4, <1>6 DEF nw

LEMMA ReceiveLoadKeeps ==
    ASSUME IInv, Fits(view, requests), NEW r \in requests, ReceiveLoad(r)
    PROVE  KeptAndFits
<1>1. r.what = "load" /\ r.gone \in BOOLEAN /\ \A q \in requests : IsRequest(q)
  BY Typed DEF IInv, ReceiveLoad, IsRequest
<1>2. PICK at \in r.at .. Len(log) :
         IF r.view = "me" THEN MeShows(AfterLoad(r, at), Rest(r))
         ELSE /\ view' = IF r.gone THEN view ELSE AfterLoad(r, at)
              /\ requests' = AfterThread(r)
              /\ UNCHANGED route
  BY DEF ReceiveLoad
<1>3. /\ \A v \in Views : /\ Awaited(AfterThread(r), v) = Awaited(requests, v) \ {r}
                          /\ Acting(AfterThread(r), v) = Acting(requests, v)
      /\ \A q \in AfterThread(r) : q \in requests \/ (q.what = "read" /\ q.view = "thread")
  BY <1>1, AfterThreadIs
<1>4. CASE r.view = "me"
  <2>1. r.gone = FALSE
    BY <1>1, <1>4 DEF Fits
  <2>2. AfterThread(r) = Rest(r)
    BY <1>4 DEF AfterThread
  <2>3. /\ \A v \in Views : \A i \in 1 .. Len(log) :
             Settled(view, requests, v, i) => Settled(AfterLoad(r, at), Rest(r), v, i)
        /\ Fits(AfterLoad(r, at), Rest(r))
    BY <1>1, <1>3, <2>1, <2>2, LoadedKeeps
  <2>4. /\ AfterLoad(r, at) \in [Views -> ViewRec]
        /\ \A v \in Views : AfterLoad(r, at)[v].wants = view[v].wants
    BY <1>1, AfterLoadIs
  <2>5. \A q \in Rest(r) : IsRequest(q)
    BY <1>1 DEF Rest
  <2>6. \A v \in OnScreen : \A i \in 1 .. Len(log) :
           Settled(view, requests, v, i) => Settled(AfterLoad(r, at), Rest(r), v, i)
    BY <2>3, OnScreenViews
  <2>7. MeShows(AfterLoad(r, at), Rest(r))
    BY <1>2, <1>4
  <2> QED
    BY <2>3, <2>4, <2>5, <2>6, <2>7, MeShowsKeeps
<1>5. CASE r.view # "me" /\ r.gone = FALSE
  <2>1. /\ \A v \in Views : \A i \in 1 .. Len(log) :
             Settled(view, requests, v, i) => Settled(AfterLoad(r, at), AfterThread(r), v, i)
        /\ Fits(AfterLoad(r, at), AfterThread(r))
    BY <1>1, <1>3, <1>5, LoadedKeeps
  <2>2. view' = AfterLoad(r, at) /\ requests' = AfterThread(r) /\ route' = route
    BY <1>2, <1>5
  <2> QED
    BY <2>1, <2>2, SameScreen, OnScreenViews DEF Kept, KeptAndFits
<1>6. CASE r.view # "me" /\ r.gone = TRUE
  <2>1. \A v \in Views : Same(requests, AfterThread(r), v)
    BY <1>3, <1>6 DEF Same, Awaited
  <2>2. view' = view /\ requests' = AfterThread(r) /\ route' = route
    BY <1>2, <1>6
  <2> QED
    BY <1>3, <2>1, <2>2, Undisturbed
<1> QED
  BY <1>1, <1>4, <1>5, <1>6

LEMMA ReceiveLoadErrorKeeps ==
    ASSUME IInv, Fits(view, requests), NEW r \in requests, ReceiveLoadError(r)
    PROVE  KeptAndFits
<1>1. /\ r.what = "load" /\ r.gone \in BOOLEAN /\ \A q \in requests : IsRequest(q)
      /\ view \in [Views -> ViewRec] /\ Len(log) \in Nat /\ r.view \in Views
      /\ r.at \in Nat /\ requests' = requests \ {r} /\ route' = route
      /\ view' = IF r.gone THEN view ELSE ShownError(r.view)
  BY Typed DEF IInv, ReceiveLoadError, IsRequest, Rest
<1>2. CASE r.gone = TRUE
  <2>1. \A v \in Views : Same(requests, requests', v)
    BY <1>1, <1>2, RestSame
  <2> QED
    BY <1>1, <1>2, <2>1, Undisturbed
<1>3. CASE r.gone = FALSE
  <2>1. /\ \A u \in Views : u # r.view => view'[u] = view[u]
        /\ view'[r.view].failed = TRUE /\ 1 .. Len(log) \subseteq view'[r.view].seen
        /\ view'[r.view].wants = view[r.view].wants
        /\ view'[r.view].holds = view[r.view].holds
    BY <1>1, <1>3, ShownErrorIs
  <2>2. \A v \in Views : /\ Awaited(requests', v) = Awaited(requests, v) \ {r}
                         /\ Acting(requests', v) = Acting(requests, v)
    BY <1>1 DEF Awaited, Acting
  <2>3. \A v \in OnScreen : \A i \in 1 .. Len(log) :
          Settled(view, requests, v, i) => Settled(view', requests', v, i)
    <3> TAKE v \in OnScreen
    <3> TAKE i \in 1 .. Len(log)
    <3> HAVE Settled(view, requests, v, i)
    <3>1. v \in Views
      BY OnScreenViews
    <3>2. CASE v = r.view /\ v \notin Lists
      <4>1. i \in view'[v].seen
        BY <2>1, <3>2
      <4> QED
        BY <3>2, <4>1 DEF Settled, Shows
    <3>3. CASE v # r.view
      <4>1. Awaited(requests', v) = Awaited(requests, v)
        BY <2>2, <3>1, <3>3 DEF Awaited
      <4>2. view'[v] = view[v] /\ Acting(requests', v) = Acting(requests, v)
        BY <2>1, <2>2, <3>1, <3>3
      <4> QED
        BY <4>1, <4>2 DEF Settled, Shows, Brings
    <3>4. CASE v = r.view /\ v \in Lists
      <4>1. /\ \A u \in Views : u # r.view => view'[u] = view[u]
            /\ view'[r.view].failed
        BY <2>1
      <4> QED
        BY <1>1, <1>3, <2>2, <3>1, <3>4, <4>1, Answers
    <3> QED
      BY <3>2, <3>3, <3>4
  <2>4. Fits(view', requests')
    <3>1. ASSUME NEW u \in Views
          PROVE  /\ ~Behaviour(u).filters => view'[u].wants = 1 /\ view'[u].holds = 1
                 /\ \/ Awaited(requests', u) # {} \/ ~view'[u].loaded \/ view'[u].failed
                    \/ view'[u].holds = view'[u].wants
      <4>1. CASE u = r.view
        BY <2>1, <4>1 DEF Fits
      <4>2. CASE u # r.view
        <5>1. Awaited(requests', u) = Awaited(requests, u)
          BY <2>2, <4>2 DEF Awaited
        <5> QED
          BY <2>1, <4>2, <5>1 DEF Fits
      <4> QED
        BY <4>1, <4>2
    <3>2. ASSUME NEW q \in requests'
          PROVE  /\ q.view = "me" => ~q.gone
                 /\ q.what = "load" /\ ~q.gone => q.filter = view'[q.view].wants
      <4>1. q \in requests /\ view'[q.view].wants = view[q.view].wants
        BY <1>1, <2>1, RequestsViews
      <4> QED
        BY <4>1 DEF Fits
    <3> QED
      BY <3>1, <3>2 DEF Fits
  <2> QED
    BY <1>1, <2>3, <2>4, SameScreen DEF Kept, KeptAndFits
<1> QED
  BY <1>1, <1>2, <1>3

LEMMA ReceiveSendKeeps ==
    ASSUME IInv, Fits(view, requests), NEW r \in requests, ReceiveSend(r)
    PROVE  KeptAndFits
<1>1. /\ view \in [Views -> ViewRec] /\ log \in Seq(Entry)
      /\ r.what = "send" /\ route' = route /\ {"reservation"} \in SUBSET Views /\ "thread" \in Views
  BY Typed DEF IInv, ReceiveSend, Views
<1>2. \A v \in Views : Same(requests, Rest(r), v)
  BY <1>1, RestSame DEF Rest
<1>3. /\ \A v \in Views : v # "thread" => view'[v] = view[v]
      /\ view["thread"].shown \subseteq view'["thread"].shown
      /\ \A v \in Views : /\ view'[v].wants = view[v].wants /\ view'[v].holds = view[v].holds
                          /\ view'[v].failed = view[v].failed /\ view'[v].loaded = view[v].loaded
  <2>1. CASE view' = view
    BY <2>1
  <2> DEFINE there == [view EXCEPT !["thread"].shown = @ \cup {r.at},
                                   !["thread"].seen = @ \cup {r.at}]
             rec == [view["thread"] EXCEPT !.shown = @ \cup {r.at}, !.seen = @ \cup {r.at}]
  <2>2. CASE view' = there
    <3>1. view' = [view EXCEPT !["thread"] = rec]
      BY <2>2, Zenon
    <3>2. /\ view["thread"].shown \subseteq rec.shown
          /\ rec.wants = view["thread"].wants /\ rec.holds = view["thread"].holds
          /\ rec.failed = view["thread"].failed /\ rec.loaded = view["thread"].loaded
      <4>1. view["thread"] \in ViewRec
        BY <1>1
      <4> QED
        BY <4>1 DEF ViewRec
    <3> HIDE DEF rec
    <3> QED
      BY <1>1, <3>1, <3>2
  <2>3. view' = view \/ view' = there
    BY Zenon DEF ReceiveSend
  <2> QED
    BY <2>1, <2>2, <2>3
<1>4. \A v \in Views : Better(view, view', v)
  <2>1. "thread" \in Lists
    BY DEF Lists
  <2> QED
    BY <1>3, <2>1 DEF Better
<1>5. Fits(view', Rest(r))
  <2>1. \A v \in Views : Awaited(requests, v) # {} => Awaited(Rest(r), v) # {}
    BY <1>2 DEF Same
  <2>2. \A q \in Rest(r) : q \in requests
    BY DEF Rest
  <2> QED
    BY <1>3, <2>1, <2>2, RequestsViews, FitsOn
<1>6. CASE requests' = Rest(r)
  <2>1. Kept
    BY <1>1, <1>2, <1>4, <1>6, Carried
  <2> QED
    BY <1>5, <1>6, <2>1 DEF KeptAndFits
<1>7. ASSUME NEW V \in SUBSET Views, requests' = Loads(Rest(r), V)
      PROVE  KeptAndFits
  <2>1. Kept
    BY <1>1, <1>2, <1>4, <1>7, LoadsKeep
  <2>2. \A q \in Rest(r) : q.view \in Views
    BY RequestsViews DEF Rest
  <2>3. Fits(view', requests')
    BY <1>1, <1>3, <1>5, <1>7, <2>2, LoadsFit
  <2> QED
    BY <2>1, <2>3 DEF KeptAndFits
<1> QED
  BY <1>1, <1>6, <1>7 DEF ReceiveSend

LEMMA ReceiveReadKeeps ==
    ASSUME IInv, Fits(view, requests), NEW r \in requests, ReceiveRead(r)
    PROVE  KeptAndFits
<1>1. /\ view \in [Views -> ViewRec] /\ Len(log) \in Nat /\ r.at \in Int
      /\ r.what = "read" /\ route' = route /\ "me" \in Views
      /\ \A q \in requests : IsRequest(q)
  BY Typed DEF IInv, ReceiveRead, IsRequest, Views
<1>2. \A v \in Views : Same(requests, Rest(r), v)
  BY <1>1, RestSame DEF Rest
<1>3. CASE r.at < 0
  <2>1. requests' = Rest(r) /\ view' = view
    BY <1>3, Zenon DEF ReceiveRead
  <2> QED
    BY <1>1, <1>2, <2>1, Undisturbed DEF Rest
<1>4. CASE ~(r.at < 0)
  <2> DEFINE shown == (view["me"].shown \ Unread(view["me"].shown)) \cup Unread(1 .. r.at)
             brought == (1 .. r.at) \cup IF requests' = Rest(r) THEN {} ELSE 1 .. Len(log)
             rec == [view["me"] EXCEPT !.shown = shown, !.seen = @ \cup brought]
  <2>1. /\ requests' = Counted(Rest(r), {"me"}, FALSE)
        /\ view' = [view EXCEPT !["me"] = rec]
    <3>1. /\ requests' = Counted(Rest(r), {"me"}, FALSE)
          /\ view' = [view EXCEPT
                !["me"].shown = (@ \ Unread(@)) \cup Unread(1 .. r.at),
                !["me"].seen = @ \cup (1 .. r.at)
                    \cup IF requests' = Rest(r) THEN {} ELSE 1 .. Len(log)]
      BY <1>4, Zenon DEF ReceiveRead
    <3>2. view["me"].seen \cup (1 .. r.at) \cup (IF requests' = Rest(r) THEN {} ELSE 1 .. Len(log))
            = view["me"].seen \cup brought
      OBVIOUS
    <3>3. view' = [view EXCEPT !["me"] = [view["me"] EXCEPT !.shown = shown,
                      !.seen = view["me"].seen \cup (1 .. r.at)
                                 \cup IF requests' = Rest(r) THEN {} ELSE 1 .. Len(log)]]
      BY <3>1, Zenon
    <3> QED
      BY <3>1, <3>2, <3>3, Zenon
  <2>2. requests' # Rest(r) => \A i \in 1 .. Len(log) : i \in brought
    OBVIOUS
  <2> HIDE DEF shown, brought
  <2>3. /\ rec.seen = view["me"].seen \cup brought
        /\ rec.wants = view["me"].wants /\ rec.holds = view["me"].holds
    <3>1. view["me"] \in ViewRec
      BY <1>1
    <3> QED
      BY <3>1 DEF ViewRec
  <2> HIDE DEF rec
  <2>4. /\ \A v \in Views : v # "me" => view'[v] = view[v]
        /\ view'["me"].seen = view["me"].seen \cup brought
        /\ \A v \in Views : view'[v].wants = view[v].wants /\ view'[v].holds = view[v].holds
    BY <1>1, <2>1, <2>3
  <2>5. \A v \in Views : Better(view, view', v)
    BY <2>4, ViewFacts DEF Better
  <2>6. \A v \in Views \ {"me"} : Same(Rest(r), requests', v)
    BY <2>1 DEF Counted, Same, Awaited, Acting
  <2>7. \A v \in Views \ {"me"} : Same(requests, requests', v)
    BY <1>2, <2>6, SameTwice
  <2>8. Kept
    <3>1. SUFFICES ASSUME NEW v \in OnScreen, NEW i \in 1 .. Len(log), Settled(view, requests, v, i)
                   PROVE  Settled(view', requests', v, i)
      BY <1>1, SameScreen DEF Kept
    <3>2. v \in Views /\ i \in Nat
      BY OnScreenViews
    <3>3. CASE v # "me" \/ requests' = Rest(r)
      BY <1>2, <2>5, <2>7, <3>1, <3>2, <3>3, SettledOn
    <3>4. CASE v = "me" /\ requests' # Rest(r)
      BY <2>2, <2>4, <3>4, ViewFacts DEF Settled, Shows
    <3> QED
      BY <3>3, <3>4
  <2>9. Fits(view', requests')
    <3>1. \A q \in requests' : q \in requests
      BY <2>1 DEF Counted, Rest
    <3>2. \A v \in Views : v \in Lists => (Awaited(requests, v) # {} => Awaited(requests', v) # {})
      BY <2>7, ViewFacts DEF Same
    <3>3. \A v \in Views : v \in Lists => view'[v] = view[v]
      BY <2>4, ViewFacts
    <3> QED
      BY <2>4, <3>1, <3>2, <3>3, RequestsViews, FitsOn
  <2> QED
    BY <2>8, <2>9 DEF KeptAndFits
<1> QED
  BY <1>3, <1>4

LEMMA ReceiveUpdateKeeps ==
    ASSUME IInv, Fits(view, requests), NEW r \in requests, ReceiveUpdate(r)
    PROVE  KeptAndFits
<1> DEFINE places == IF r.at >= 0 THEN 1 .. r.at ELSE r.before
           vw == Updated("me", places)
<1>1. /\ view \in [Views -> ViewRec] /\ IsRequest(r) /\ r.what = "update"
      /\ MeShows(vw, Rest(r)) /\ "me" \in Views /\ \A q \in requests : IsRequest(q)
  BY Typed DEF IInv, ReceiveUpdate, Views
<1>2. places \in SUBSET Nat
  BY <1>1 DEF IsRequest
<1> HIDE DEF places
<1>3. /\ vw \in [Views -> ViewRec] /\ \A u \in Views : u # "me" => vw[u] = view[u]
      /\ vw["me"].seen = view["me"].seen \cup places
      /\ vw["me"].wants = view["me"].wants /\ vw["me"].holds = view["me"].holds
  BY <1>1, <1>2, UpdatedIs
<1> HIDE DEF vw
<1>4. \A v \in Views : Same(requests, Rest(r), v)
  BY <1>1, RestSame DEF Rest
<1>5. \A v \in Views : Better(view, vw, v)
  BY <1>3, ViewFacts DEF Better
<1>6. \A v \in Views : vw[v].wants = view[v].wants /\ vw[v].holds = view[v].holds
  BY <1>3
<1>7. Fits(vw, Rest(r))
  <2>1. \A v \in Views : Awaited(requests, v) # {} => Awaited(Rest(r), v) # {}
    BY <1>4 DEF Same
  <2>2. \A q \in Rest(r) : q \in requests
    BY DEF Rest
  <2>3. \A v \in Views : v \in Lists => vw[v] = view[v]
    BY <1>3, ViewFacts
  <2> QED
    BY <1>6, <2>1, <2>2, <2>3, RequestsViews, FitsOn
<1>8. \A v \in OnScreen : \A i \in 1 .. Len(log) :
         Settled(view, requests, v, i) => Settled(vw, Rest(r), v, i)
  BY <1>4, <1>5, OnScreenViews, SettledOn
<1>9. \A q \in Rest(r) : IsRequest(q)
  BY <1>1 DEF Rest
<1> QED
  BY <1>1, <1>3, <1>6, <1>7, <1>8, <1>9, MeShowsKeeps

\* What the answer of an action shows, and what it leaves.
LEMMA AfterActShows ==
    ASSUME IInv, NEW r \in requests, r.what = "act"
    PROVE  /\ AfterAct(r) \in [Views -> ViewRec]
           /\ \A u \in Views : u # r.view \/ r.gone = TRUE => AfterAct(r)[u] = view[u]
           /\ view[r.view].seen \subseteq AfterAct(r)[r.view].seen
           /\ AfterAct(r)[r.view].wants = view[r.view].wants
           /\ AfterAct(r)[r.view].holds = view[r.view].holds
           /\ r.gone = FALSE /\ r.at < 0 =>
                \A i \in 1 .. Len(log) : log[i].by = "mounted" => i \in AfterAct(r)[r.view].seen
           /\ r.gone = FALSE /\ r.at >= 0 /\ r.view = "members" => r.at \in AfterAct(r)[r.view].seen
<1>1. /\ view \in [Views -> ViewRec] /\ Len(log) \in Nat /\ r.gone \in BOOLEAN
      /\ r.view \in Views /\ r.at \in Int
  BY Typed DEF IInv, IsRequest
<1>2. AfterAct(r) \in [Views -> ViewRec]
  BY AfterActIs
<1>4. CASE r.gone = FALSE /\ r.at < 0 /\ AfterAct(r) = Toasted(r.view)
  <2> DEFINE own == {i \in 1 .. Len(log) : log[i].by = "mounted"}
             rec == [view[r.view] EXCEPT !.seen = @ \cup own]
  <2>1. AfterAct(r) = [view EXCEPT ![r.view] = rec]
    BY <1>4, Zenon DEF Toasted
  <2>2. \A i \in 1 .. Len(log) : log[i].by = "mounted" => i \in own
    OBVIOUS
  <2> HIDE DEF own
  <2>3. /\ rec.seen = view[r.view].seen \cup own
        /\ rec.wants = view[r.view].wants /\ rec.holds = view[r.view].holds
    <3>1. view[r.view] \in ViewRec
      BY <1>1
    <3> QED
      BY <3>1 DEF ViewRec
  <2> HIDE DEF rec
  <2>4. AfterAct(r)[r.view] = rec /\ \A u \in Views : u # r.view => AfterAct(r)[u] = view[u]
    BY <1>1, <2>1
  <2>5. ~(r.at >= 0)
    BY <1>1, <1>4
  <2>9. r.gone # TRUE
    BY <1>4
  <2>6. \A u \in Views : u # r.view \/ r.gone = TRUE => AfterAct(r)[u] = view[u]
    BY <2>4, <2>9
  <2>7. \A i \in 1 .. Len(log) : log[i].by = "mounted" => i \in AfterAct(r)[r.view].seen
    BY <2>2, <2>3, <2>4
  <2>8. /\ view[r.view].seen \subseteq AfterAct(r)[r.view].seen
        /\ AfterAct(r)[r.view].wants = view[r.view].wants
        /\ AfterAct(r)[r.view].holds = view[r.view].holds
    BY <2>3, <2>4
  <2> QED
    BY <1>2, <2>5, <2>6, <2>7, <2>8
<1>5. ASSUME r.gone = FALSE, r.at >= 0, NEW places \in SUBSET Nat,
             r.view = "members" => r.at \in places, AfterAct(r) = Updated(r.view, places)
      PROVE  /\ \A u \in Views : u # r.view \/ r.gone = TRUE => AfterAct(r)[u] = view[u]
             /\ view[r.view].seen \subseteq AfterAct(r)[r.view].seen
             /\ AfterAct(r)[r.view].wants = view[r.view].wants
             /\ AfterAct(r)[r.view].holds = view[r.view].holds
             /\ ~(r.at < 0)
             /\ r.view = "members" => r.at \in AfterAct(r)[r.view].seen
  <2>1. /\ \A u \in Views : u # r.view => AfterAct(r)[u] = view[u]
        /\ AfterAct(r)[r.view].seen = view[r.view].seen \cup places
        /\ AfterAct(r)[r.view].wants = view[r.view].wants
        /\ AfterAct(r)[r.view].holds = view[r.view].holds
    BY <1>1, <1>5, UpdatedIs
  <2>2. r.gone # TRUE
    BY <1>5
  <2>3. ~(r.at < 0)
    BY <1>1, <1>5
  <2>4. \A u \in Views : u # r.view \/ r.gone = TRUE => AfterAct(r)[u] = view[u]
    BY <2>1, <2>2
  <2>5. /\ view[r.view].seen \subseteq AfterAct(r)[r.view].seen
        /\ r.view = "members" => r.at \in AfterAct(r)[r.view].seen
    BY <1>5, <2>1
  <2> QED
    BY <2>1, <2>3, <2>4, <2>5
<1>6. CASE /\ r.gone = FALSE /\ r.at >= 0
           /\ \E places \in SUBSET Nat : /\ r.view = "members" => r.at \in places
                                         /\ AfterAct(r) = Updated(r.view, places)
  <2>1. PICK places \in SUBSET Nat : /\ r.view = "members" => r.at \in places
                                     /\ AfterAct(r) = Updated(r.view, places)
    BY <1>6
  <2> QED
    BY <1>2, <1>5, <1>6, <2>1
<1>7. CASE r.gone = FALSE /\ r.at >= 0 /\ r.view \in {"reservation", "offer", "offers", "members"}
  <2>1. CASE r.view \in {"reservation", "offer"}
    <3>1. AfterAct(r) = Updated(r.view, 1 .. r.at)
      BY <1>1, <1>7, <2>1 DEF AfterAct
    <3>2. 1 .. r.at \in SUBSET Nat /\ r.view # "members"
      BY <1>1, <2>1
    <3> QED
      BY <1>6, <1>7, <3>1, <3>2
  <2>2. CASE r.view \in {"offers", "members"}
    <3>1. AfterAct(r) = Updated(r.view, view[r.view].shown \cup {r.at})
      BY <1>1, <1>7, <2>2 DEF AfterAct
    <3>2. view[r.view].shown \cup {r.at} \in SUBSET Nat
      BY <1>1, <1>7 DEF ViewRec
    <3>3. r.at \in view[r.view].shown \cup {r.at}
      OBVIOUS
    <3> QED
      BY <1>6, <1>7, <3>1, <3>2, <3>3
  <2> QED
    BY <1>7, <2>1, <2>2
<1>8. CASE r.gone = TRUE \/ (r.at >= 0 /\ r.view \notin {"reservation", "offer", "offers", "members"})
  <2>1. AfterAct(r) = view
    BY <1>1, <1>8 DEF AfterAct
  <2>2. r.gone = FALSE => ~(r.at < 0) /\ r.view # "members"
    BY <1>1, <1>8
  <2> QED
    BY <1>1, <2>1, <2>2
<1>9. CASE r.gone = FALSE /\ r.at < 0
  BY <1>4, <1>9 DEF AfterAct
<1>10. \/ r.gone = TRUE
       \/ r.gone = FALSE /\ r.at < 0
       \/ r.gone = FALSE /\ r.at >= 0
  BY <1>1
<1> QED
  BY <1>7, <1>8, <1>9, <1>10

\* What is asked for after an action.
LEMMA AfterActAsks ==
    ASSUME IInv, NEW r \in requests, ReceiveAct(r)
    PROVE  /\ \A v \in Views : Asked(requests', v) \/ Same(Rest(r), requests', v)
           /\ \A v \in Views : \A q \in Acting(Rest(r), v) : q \in Acting(requests', v)
           /\ r.gone = FALSE /\ r.at >= 0 /\ r.view = "catalog" => Asked(requests', "catalog")
           /\ \A q \in requests' :
                \/ q \in Rest(r)
                \/ q.view = "thread" /\ q.gone = TRUE
                \/ q.view \in Views /\ q.gone = FALSE /\ q.filter = view[q.view].wants
<1>1. /\ view \in [Views -> ViewRec] /\ log \in Seq(Entry) /\ r.gone \in BOOLEAN
  BY Typed DEF IInv, IsRequest
<1>2. PICK V \in Follows(r) :
        requests' = IF ~r.gone THEN Loads(Rest(r), V)
                    ELSE IF "thread" \in V
                      THEN Counted(Rest(r), V, TRUE)
                              \cup {Request(Rest(r), "thread", "load", TRUE)}
                    ELSE Rest(r)
  BY DEF ReceiveAct
<1>3. V \in SUBSET Views /\ (r.at >= 0 /\ r.view = "catalog" => "catalog" \in V)
  BY <1>2 DEF Follows, Views
<1>4. CASE r.gone = FALSE
  <2>1. requests' = Loads(Rest(r), V)
    BY <1>2, <1>4
  <2>2. /\ \A v \in V : Asked(requests', v)
        /\ \A v \in Views \ V : Same(Rest(r), requests', v)
        /\ \A v \in Views : \A q \in Acting(Rest(r), v) : q \in Acting(requests', v)
        /\ \A q \in requests' :
              q \in Rest(r) \/ (q.view \in V /\ q.gone = FALSE /\ q.filter = view[q.view].wants)
    BY <1>1, <1>3, <2>1, LoadsAsk
  <2> QED
    BY <1>3, <2>2
<1>5. CASE r.gone = TRUE /\ requests' = Rest(r)
  BY <1>5, SameSame
<1>6. CASE r.gone = TRUE /\ requests' = Counted(Rest(r), V, TRUE)
                                          \cup {Request(Rest(r), "thread", "load", TRUE)}
  <2> DEFINE others == Counted(Rest(r), V, TRUE)
             q == Request(Rest(r), "thread", "load", TRUE)
  <2>1. q.gone = TRUE /\ q.view = "thread" /\ q.what = "load"
    <3>1. "thread" \in Views /\ TRUE \in BOOLEAN
      BY DEF Views
    <3> QED
      BY <1>1, <3>1, LoadIs
  <2>2. /\ \A p \in others : p \in Rest(r)
        /\ \A p \in Rest(r) : p.what # "load" \/ ~p.gone => p \in others
    BY DEF Counted
  <2>3. requests' = others \cup {q}
    BY <1>6
  <2> HIDE DEF others, q
  <2>4. \A v \in Views : Awaited(requests', v) = Awaited(Rest(r), v)
    BY <2>1, <2>2, <2>3 DEF Awaited
  <2>5. \A v \in Views : \A p \in Acting(Rest(r), v) : p \in Acting(requests', v)
    BY <2>2, <2>3 DEF Acting
  <2>6. \A v \in Views : Same(Rest(r), requests', v)
    BY <2>4, <2>5 DEF Same
  <2> QED
    BY <1>6, <2>1, <2>2, <2>3, <2>5, <2>6
<1> QED
  BY <1>1, <1>2, <1>4, <1>5, <1>6

LEMMA ReceiveActKeeps ==
    ASSUME IInv, Fits(view, requests), NEW r \in requests, ReceiveAct(r)
    PROVE  KeptAndFits
<1>1. /\ r.what = "act" /\ r.view \in Views /\ r.view \notin Lists /\ r.view # "me"
      /\ r.gone \in BOOLEAN /\ r.at \in Int /\ view' = AfterAct(r) /\ route' = route
      /\ Len(log) \in Nat
  BY Typed DEF IInv, ReceiveAct, IsRequest, Lists
<1>2. /\ \A u \in Views : u # r.view \/ r.gone = TRUE => view'[u] = view[u]
      /\ view[r.view].seen \subseteq view'[r.view].seen
      /\ view'[r.view].wants = view[r.view].wants
      /\ view'[r.view].holds = view[r.view].holds
      /\ r.gone = FALSE /\ r.at < 0 =>
           \A i \in 1 .. Len(log) : log[i].by = "mounted" => i \in view'[r.view].seen
      /\ r.gone = FALSE /\ r.at >= 0 /\ r.view = "members" => r.at \in view'[r.view].seen
  BY <1>1, AfterActShows
<1>3. /\ \A v \in Views : Asked(requests', v) \/ Same(Rest(r), requests', v)
      /\ \A v \in Views : \A q \in Acting(Rest(r), v) : q \in Acting(requests', v)
      /\ r.gone = FALSE /\ r.at >= 0 /\ r.view = "catalog" => Asked(requests', "catalog")
      /\ \A q \in requests' :
           \/ q \in Rest(r)
           \/ q.view = "thread" /\ q.gone = TRUE
           \/ q.view \in Views /\ q.gone = FALSE /\ q.filter = view[q.view].wants
  BY AfterActAsks
<1>4. \A v \in Views : Better(view, view', v)
  BY <1>1, <1>2 DEF Better
<1>5. \A v \in Views : Awaited(Rest(r), v) = Awaited(requests, v)
  BY <1>1 DEF Awaited, Rest
<1>6. ASSUME NEW v \in OnScreen, NEW i \in 1 .. Len(log), v \in OwnLists => log[i].by = "mounted",
             Settled(view, requests, v, i)
      PROVE  Settled(view', requests', v, i)
  <2>1. v \in Views /\ i \in Nat
    BY OnScreenViews
  <2>2. CASE Asked(requests', v)
    BY <2>2, AskedSettles
  <2>3. CASE Same(Rest(r), requests', v) /\ (v \notin OwnLists \/ r \notin Acting(requests, v))
    <3>1. Same(requests, Rest(r), v)
      <4>1. v \in OwnLists => \A q \in Acting(requests, v) : q \in Acting(Rest(r), v)
        BY <2>3 DEF Acting, Rest
      <4> QED
        BY <1>5, <2>1, <4>1 DEF Same
    <3>2. Same(requests, requests', v)
      BY <2>3, <3>1, SameTwice
    <3> QED
      BY <1>4, <1>6, <2>1, <3>2, SettledOn
  <2>4. CASE v \in OwnLists /\ r \in Acting(requests, v) /\ Same(Rest(r), requests', v)
    <3>1. v = r.view /\ r.gone = FALSE /\ v \notin Lists
      BY <1>1, <2>4 DEF Acting
    <3>2. CASE r.at < 0
      <4>1. i \in view'[v].seen
        BY <1>2, <1>6, <2>4, <3>1, <3>2
      <4> QED
        BY <3>1, <4>1 DEF Settled, Shows
    <3>3. CASE r.at >= 0 /\ v = "members"
      <4>1. CASE Brings(requests, v, i)
        <5>1. Awaited(requests', v) = Awaited(requests, v)
          BY <1>5, <2>1, <2>4 DEF Same
        <5> QED
          BY <4>1, <5>1 DEF Settled, Brings
      <4>2. CASE i \in view[v].seen
        BY <1>2, <3>1, <4>2 DEF Settled, Shows
      <4>3. ASSUME NEW q \in Acting(requests, v), q.at \in {i, Failed}
            PROVE  Settled(view', requests', v, i)
        <5>1. CASE q = r
          <6>1. r.at = i
            BY <3>3, <4>3, <5>1 DEF Failed
          <6>2. i \in view'[v].seen
            BY <1>2, <3>1, <3>3, <6>1
          <6> QED
            BY <3>1, <6>2 DEF Settled, Shows
        <5>2. CASE q # r
          <6>1. q \in Acting(Rest(r), v)
            BY <5>2 DEF Acting, Rest
          <6>2. q \in Acting(requests', v)
            BY <1>3, <2>1, <6>1
          <6> QED
            BY <2>4, <3>1, <4>3, <6>2 DEF Settled, Shows
        <5> QED
          BY <5>1, <5>2
      <4> QED
        BY <1>6, <3>1, <4>1, <4>2, <4>3 DEF Settled, Shows
    <3>4. CASE r.at >= 0 /\ v = "catalog"
      BY <1>3, <3>1, <3>4, AskedSettles
    <3> QED
      BY <1>1, <2>4, <3>2, <3>3, <3>4 DEF OwnLists
  <2> QED
    BY <1>3, <2>1, <2>2, <2>3, <2>4
<1>7. Kept
  BY <1>1, <1>6, SameScreen DEF Kept
<1>8. Fits(view', requests')
  <2>1. \A v \in Views : Awaited(requests, v) # {} => Awaited(requests', v) # {}
    BY <1>3, <1>5 DEF Asked, Same
  <2>2. \A v \in Views : v \in Lists => view'[v] = view[v]
    BY <1>1, <1>2
  <2>3. \A v \in Views : view'[v].wants = view[v].wants /\ view'[v].holds = view[v].holds
    BY <1>2
  <2>4. \A q \in requests' : \/ q \in requests
                             \/ /\ q.view = "me" => ~q.gone
                                /\ q.what = "load" /\ ~q.gone =>
                                      q.view \in Views /\ q.filter = view'[q.view].wants
    BY <1>3, <2>3 DEF Rest
  <2> QED
    BY <2>1, <2>2, <2>3, <2>4, RequestsViews, FitsOn
<1> QED
  BY <1>7, <1>8 DEF KeptAndFits
-----------------------------------------------------------------------------
LEMMA StepKeeps ==
    ASSUME IInv, Fits(view, requests), Step
    PROVE  KeptAndFits
<1>1. ASSUME NEW r \in requests, Arrive(r)
      PROVE  KeptAndFits
  BY <1>1, ReceiveLoadKeeps, ReceiveLoadErrorKeeps, ReceiveActKeeps, ReceiveReservedKeeps,
     ReceiveSendKeeps, ReceiveReadKeeps, ReceiveUpdateKeeps DEF Arrive
<1>2. ASSUME NEW v \in Views, Act(v) \/ Reserve(v)
      PROVE  KeptAndFits
  <2>1. /\ "act" \in {"act", "reserve", "send", "update"}
        /\ "reserve" \in {"act", "reserve", "send", "update"} /\ "reserve" # "act"
    OBVIOUS
  <2>2. CASE Act(v)
    <3>1. v \notin {"me", "board", "thread", "reservations"}
          /\ Asks(Request(requests, v, "act", FALSE))
      BY <2>2 DEF Act
    <3> QED
      BY <2>1, <3>1, AsksKeeps
  <2>3. CASE Reserve(v)
    <3>1. Asks(Request(requests, v, "reserve", FALSE))
      BY <2>3 DEF Reserve
    <3> QED
      BY <2>1, <3>1, AsksKeeps
  <2> QED
    BY <1>2, <2>2, <2>3
<1>3. CASE Send \/ Update
  <2>1. /\ "thread" \in Views /\ "me" \in Views
        /\ "send" \in {"act", "reserve", "send", "update"} /\ "send" # "act"
        /\ "update" \in {"act", "reserve", "send", "update"} /\ "update" # "act"
    BY DEF Views
  <2>2. CASE Send
    <3>1. Asks(Request(requests, "thread", "send", FALSE))
      BY <2>2 DEF Send
    <3> QED
      BY <2>1, <3>1, AsksKeeps
  <2>3. CASE Update
    <3>1. Asks(Request(requests, "me", "update", FALSE))
      BY <2>3 DEF Update
    <3> QED
      BY <2>1, <3>1, AsksKeeps
  <2> QED
    BY <1>3, <2>2, <2>3
<1>4. ASSUME NEW v \in Views, Refresh(v)
      PROVE  KeptAndFits
  <2>1. requests' = Loads(requests, {v}) /\ view' = view /\ route' = route
    BY <1>4 DEF Refresh
  <2>2. PICK V \in SUBSET Views : requests' = Loads(requests, V)
    BY <2>1
  <2> QED
    BY <2>1, <2>2, AskAgainKeeps
<1> QED
  BY <1>1, <1>2, <1>3, <1>4, OtherCommitsKeeps, ServeKeeps, OpenKeeps, ShowKeeps,
     OnScreenViews DEF Step
-----------------------------------------------------------------------------
\* Over the socket.

\* What a screen's step adds to the log is told, or its action has its place.
LEMMA StepCommits ==
    ASSUME IInv, Step
    PROVE  /\ untold' = untold /\ telling \subseteq telling'
           /\ \/ log' = log /\ telling' = telling
              \/ \E kind \in Kinds, by \in {"other", "mounted", "left"} :
                   /\ Commit(kind, by)
                   /\ \A v \in OwnLists : kind \in Behaviour(v).of /\ by = "mounted" =>
                        \E q \in Acting(requests', v) : q.at = Len(log) + 1
<1>1. ASSUME NEW kind \in Kinds, OtherCommits(kind)
      PROVE  /\ untold' = untold /\ Commit(kind, "other")
             /\ \A v \in OwnLists : kind \in Behaviour(v).of /\ "other" = "mounted" =>
                   \E q \in Acting(requests', v) : q.at = Len(log) + 1
  BY <1>1 DEF OtherCommits
<1>2. ASSUME NEW r \in requests, ServeWrite(r)
      PROVE  /\ untold' = untold
             /\ \/ log' = log /\ telling' = telling
                \/ \E kind \in Kinds, by \in {"other", "mounted", "left"} :
                     /\ Commit(kind, by)
                     /\ \A v \in OwnLists : kind \in Behaviour(v).of /\ by = "mounted" =>
                          \E q \in Acting(requests', v) : q.at = Len(log) + 1
  <2>1. IsRequest(r) /\ r.what # "load" /\ Len(log) + 1 \in Int
    BY <1>2, Typed DEF IInv, ServeWrite, Write
  <2>2. CASE log' = log /\ telling' = telling
    BY <1>2, <2>2 DEF ServeWrite
  <2>3. CASE Commit(Writes(r), IF r.gone THEN "left" ELSE "mounted")
             /\ Answered(r, Len(log) + 1)
    <3> DEFINE kind == Writes(r)
               by == IF r.gone THEN "left" ELSE "mounted"
               new == [r EXCEPT !.at = Len(log) + 1]
    <3>1. kind \in Kinds
      BY <2>1 DEF IsRequest, Writes, Kinds, Publishes, Views
    <3>2. by \in {"other", "mounted", "left"}
      OBVIOUS
    <3>3. new \in requests' /\ new.what = r.what /\ new.view = r.view /\ new.gone = r.gone
            /\ new.at = Len(log) + 1
      BY <2>1, <2>3 DEF Answered, IsRequest
    <3> HIDE DEF new
    <3>4. ASSUME NEW v \in OwnLists, kind \in Behaviour(v).of, by = "mounted"
          PROVE  \E q \in Acting(requests', v) : q.at = Len(log) + 1
      <4>1. v = "members" \/ v = "catalog"
        BY DEF OwnLists
      <4>2. /\ Behaviour("members").of = {"roster"} /\ Behaviour("catalog").of = {"catalog"}
        BY DEF Behaviour, MembersView, CatalogView
      <4>3. r.what = "act" /\ r.view = v
        <5>1. r.what \in {"act", "reserve", "send", "read", "update"}
                /\ (r.what = "act" => r.view \notin {"me", "board", "thread", "reservations"})
                /\ r.view \in Views
          BY <2>1 DEF IsRequest
        <5>2. CASE v = "members"
          <6>1. Writes(r) = "roster"
            BY <3>4, <4>2, <5>2
          <6> QED
            BY <5>1, <5>2, <6>1 DEF Writes
        <5>3. CASE v = "catalog"
          <6>1. Writes(r) = "catalog"
            BY <3>4, <4>2, <5>3
          <6> QED
            BY <5>1, <5>3, <6>1 DEF Writes, Views
        <5> QED
          BY <4>1, <5>2, <5>3
      <4>4. ~r.gone
        BY <2>1, <3>4 DEF IsRequest
      <4> QED
        BY <3>3, <4>3, <4>4 DEF Acting
    <3> HIDE DEF kind, by
    <3>5. Commit(kind, by)
      BY <2>3 DEF kind, by
    <3> QED
      BY <1>2, <3>1, <3>2, <3>4, <3>5 DEF ServeWrite
  <2> QED
    BY <1>2, <2>2, <2>3 DEF ServeWrite
<1>3. ASSUME NEW kind, NEW by, Commit(kind, by) PROVE telling \subseteq telling'
  BY <1>3 DEF Commit
<1>4. \/ \E kind \in Kinds : OtherCommits(kind)
      \/ \E r \in requests : ServeWrite(r)
      \/ log' = log /\ telling' = telling /\ untold' = untold
  BY DEF Step, Serve, Arrive, Refuse, LoseWrite, ReceiveLoad, ReceiveLoadError,
         ReceiveAct, ReceiveReserved, ReceiveSend, ReceiveRead, ReceiveUpdate,
         Open, Act, Reserve, Refresh, Show, Send, Update, Asks
<1>5. CASE \E kind \in Kinds : OtherCommits(kind)
  <2>1. PICK kind \in Kinds : OtherCommits(kind)
    BY <1>5
  <2>2. /\ untold' = untold /\ Commit(kind, "other") /\ "other" \in {"other", "mounted", "left"}
        /\ \A v \in OwnLists : kind \in Behaviour(v).of /\ "other" = "mounted" =>
              \E q \in Acting(requests', v) : q.at = Len(log) + 1
    BY <1>1, <2>1
  <2> QED
    BY <1>3, <2>2
<1>6. CASE \E r \in requests : ServeWrite(r)
  BY <1>2, <1>3, <1>6
<1> QED
  BY <1>4, <1>5, <1>6

\* The news of old commits and of a new one.
LEMMA NewsCarried ==
    ASSUME IInv, NewsIsSomewhere, Kept,
           \A v \in OnScreen' : \A i \in 1 .. Len(log) :
              Expects(v, i)' => Expects(v, i) /\ (v \in OwnLists => log[i].by = "mounted"),
           \A v \in OnScreen : \A i \in 1 .. Len(log) : \A c \in Conns :
              v \in OnScreen' /\ v \notin OwnLists /\ Expects(v, i)' /\ Relies(v, c)' =>
                 \/ Relies(v, c) /\ (Coming(v, i, c) => Coming(v, i, c)')
                 \/ Settled(view', requests', v, i),
           \A v \in OnScreen' : \A i \in (1 .. Len(log')) \ (1 .. Len(log)) :
              Expects(v, i)' => IF v \in OwnLists THEN Settled(view', requests', v, i)
                                ELSE \A c \in Conns : Coming(v, i, c)'
    PROVE  NewsIsSomewhere'
<1>1. SUFFICES ASSUME NEW v \in OnScreen', NEW i \in 1 .. Len(log'), Expects(v, i)'
               PROVE  IF v \in OwnLists THEN Settled(view', requests', v, i)
                      ELSE \A c \in Conns : Relies(v, c)' =>
                              Coming(v, i, c)' \/ Settled(view', requests', v, i)
  BY DEF NewsIsSomewhere, Settled, Brings, Shows, Awaited, Acting
<1>2. CASE i \notin 1 .. Len(log)
  BY <1>1, <1>2
<1>3. CASE i \in 1 .. Len(log)
  <2>1. Expects(v, i) /\ (v \in OwnLists => log[i].by = "mounted")
    BY <1>1, <1>3
  <2>2. CASE v \notin OnScreen
    BY <1>3, <2>1, <2>2 DEF Kept
  <2>3. CASE v \in OnScreen /\ v \in OwnLists
    <3>1. Settled(view, requests, v, i)
      BY <1>3, <2>1, <2>3 DEF NewsIsSomewhere
    <3> QED
      BY <1>3, <2>1, <2>3, <3>1 DEF Kept
  <2>4. CASE v \in OnScreen /\ v \notin OwnLists
    <3>1. Settled(view, requests, v, i) => Settled(view', requests', v, i)
      BY <1>3, <2>1, <2>4 DEF Kept
    <3>2. \A c \in Conns : Relies(v, c) => Coming(v, i, c) \/ Settled(view, requests, v, i)
      BY <1>3, <2>1, <2>4 DEF NewsIsSomewhere
    <3> QED
      BY <1>1, <1>3, <2>4, <3>1, <3>2
  <2> QED
    BY <2>2, <2>3, <2>4
<1> QED
  BY <1>2, <1>3

\* The admins' lists hear of nothing, so what they expect is their own.
LEMMA OwnExpects ==
    ASSUME NEW v \in OwnLists, NEW i, Expects(v, i)
    PROVE  log[i].by = "mounted"
<1>1. Behaviour(v).hears = {}
  BY DEF OwnLists, Behaviour, MembersView, CatalogView
<1> QED
  BY <1>1 DEF Expects

LEMMA UnchangedKeeps ==
    ASSUME Fits(view, requests), route' = route, view' = view, requests' = requests
    PROVE  KeptAndFits
BY SameScreen DEF Kept, KeptAndFits
-----------------------------------------------------------------------------
\* What a frame leaves of those on their way, and what a new one adds.
LEMMA SetOfAppend ==
    ASSUME NEW S, NEW s \in Seq(S), NEW e
    PROVE  ToSet(s) \cup {e} \subseteq ToSet(Append(s, e))
<1> DEFINE m == Append(s, e)
<1>1. DOMAIN m = 1 .. Len(s) + 1 /\ DOMAIN s = 1 .. Len(s) /\ Len(s) \in Nat
  OBVIOUS
<1>2. m[Len(s) + 1] = e /\ \A i \in 1 .. Len(s) : m[i] = s[i]
  OBVIOUS
<1> HIDE DEF m
<1>3. e \in ToSet(m)
  BY <1>1, <1>2 DEF ToSet
<1>4. \A x \in ToSet(s) : x \in ToSet(m)
  BY <1>1, <1>2 DEF ToSet
<1> QED
  BY <1>3, <1>4 DEF m

LEMMA SetOfTail ==
    ASSUME NEW S, NEW s \in Seq(S), s # <<>>
    PROVE  ToSet(s) \subseteq {Head(s)} \cup ToSet(Tail(s))
<1> DEFINE m == Tail(s)
<1>1. /\ Len(s) \in Nat /\ Len(s) > 0 /\ DOMAIN s = 1 .. Len(s) /\ Head(s) = s[1]
      /\ DOMAIN m = 1 .. Len(s) - 1
      /\ \A i \in 1 .. Len(s) - 1 : m[i] = s[i + 1]
  OBVIOUS
<1> HIDE DEF m
<1>2. ASSUME NEW i \in 1 .. Len(s), i # 1 PROVE s[i] \in ToSet(m)
  <2>1. i - 1 \in 1 .. Len(s) - 1 /\ (i - 1) + 1 = i
    BY <1>1, <1>2
  <2>2. m[i - 1] = s[i]
    BY <1>1, <2>1
  <2> QED
    BY <1>1, <2>1, <2>2 DEF ToSet
<1> QED
  BY <1>1, <1>2 DEF ToSet, m

\* Connections with both ends.
Linked(d) == conns[d].hub = "open" /\ conns[d].app \in {"opening", "open"}

\* No connection that matters is new, or has lost a frame.
Quieter ==
    \A d \in Conns : Linked(d)' =>
        Linked(d) /\ conns'[d].down = conns[d].down /\ (store.lost => store'.lost)

LEMMA ConnEnds ==
    ASSUME conns \in [Conns -> Conn], NEW c \in Conns, NEW x,
           conns' = [conns EXCEPT ![c] = x],
           x.hub # "open" \/ x.app \notin {"opening", "open"}, store.lost => store'.lost
    PROVE  Quieter
BY DEF Quieter, Linked

LEMMA LostStays ==
    ASSUME NEW s \in Store
    PROVE  /\ s.lost => Rescheduled(s).lost
           /\ s.lost => Rescheduled([s EXCEPT !.socket = None]).lost
BY DEF Rescheduled, Store

\* Ends of the app's or the hub's.
LEMMA EndsAreQuiet ==
    ASSUME SocketInv, NEW c \in Conns,
           \/ TicketFails(c) \/ UpgradeFails(c) \/ OnClose(c) \/ HubDrops(c) \/ HubNotices(c)
    PROVE  Quieter
<1>1. store \in Store /\ conns \in [Conns -> Conn] /\ conns[c] \in Conn
  BY DEF SocketInv, TypeOK
<1>2. Idle.hub # "open"
  BY DEF Idle
<1>3. /\ [conns[c] EXCEPT !.hub = "gone"].hub = "gone"
      /\ [conns[c] EXCEPT !.hub = "gone", !.up = <<>>].hub = "gone"
  BY <1>1 DEF Conn
<1>4. CASE TicketFails(c)
  <2>1. conns' = [conns EXCEPT ![c] = Idle] /\ store' = Rescheduled(store)
    BY <1>4 DEF TicketFails
  <2> QED
    BY <1>1, <1>2, <2>1, LostStays, ConnEnds
<1>5. CASE UpgradeFails(c) \/ HubDrops(c) \/ HubNotices(c)
  <2>1. PICK x \in {Idle, [conns[c] EXCEPT !.hub = "gone"],
                          [conns[c] EXCEPT !.hub = "gone", !.up = <<>>]} :
           conns' = [conns EXCEPT ![c] = x]
    BY <1>5 DEF UpgradeFails, HubDrops, HubNotices
  <2>2. store' = store /\ x.hub # "open"
    BY <1>2, <1>3, <1>5 DEF UpgradeFails, HubDrops, HubNotices
  <2> QED
    BY <1>1, <2>1, <2>2, ConnEnds
<1>6. CASE OnClose(c)
  <2>1. conns' = [conns EXCEPT ![c] = Forgotten(conns[c])]
    BY <1>6 DEF OnClose
  <2>2. Forgotten(conns[c]).app \in {"idle", "closed"}
    BY <1>1, ForgottenIsClosed
  <2>3. store.lost => store'.lost
    BY <1>1, <1>6, LostStays DEF OnClose
  <2> QED
    BY <1>1, <2>1, <2>2, <2>3, ConnEnds
<1> QED
  BY <1>4, <1>5, <1>6

\* A connection in the making, and what is said over one.
LEMMA MakingIsQuiet ==
    ASSUME SocketInv, NEW c \in Conns,
           \/ Start(c) \/ Reconnect(c) \/ OpenSocket(c) \/ HubHears(c)
           \/ Upgrade(c) /\ conns[c].app # "opening"
           \/ OnOpen(c) /\ ~store.lost
    PROVE  Quieter
<1>1. store \in Store /\ conns \in [Conns -> Conn] /\ conns[c] \in Conn
  BY DEF SocketInv, TypeOK
<1>2. CASE Start(c) \/ Reconnect(c)
  <2>1. Alive = {}
    BY <1>2 DEF Start, Reconnect, SocketInv, Stages, OneSocket
  <2>2. conns' = [conns EXCEPT ![c] = [conns[c] EXCEPT !.app = "asking"]]
    BY <1>2 DEF Start, Reconnect, Connect
  <2>3. conns'[c].app = "asking" /\ \A d \in Conns : d # c => conns'[d] = conns[d]
    BY <1>1, <2>2 DEF Conn
  <2> QED
    BY <2>1, <2>3 DEF Quieter, Linked, Alive
<1>3. CASE OpenSocket(c)
  <2>1. store.lost => store'.lost
    BY <1>1, <1>3 DEF OpenSocket, Store
  <2>2. conns'[c].hub # "open" /\ \A d \in Conns : d # c => conns'[d] = conns[d]
    <3>1. CASE Stopped(store)
      BY <1>1, <1>3, <3>1 DEF OpenSocket, Idle
    <3>2. CASE ~Stopped(store)
      BY <1>1, <1>3, <3>2 DEF OpenSocket, Conn
    <3> QED
      BY <3>1, <3>2
  <2> QED
    BY <2>1, <2>2 DEF Quieter, Linked
<1>4. CASE HubHears(c)
  <2>1. store' = store /\ conns[c].hub = "open"
    BY <1>4 DEF HubHears
  <2>2. conns' = [conns EXCEPT ![c].viewing = Head(conns[c].up), ![c].up = Tail(@)]
    BY <1>4 DEF HubHears
  <2>3. conns'[c].app = conns[c].app /\ conns'[c].hub = conns[c].hub
           /\ conns'[c].down = conns[c].down
    BY <1>1, <2>2 DEF Conn
  <2>4. \A d \in Conns : d # c => conns'[d] = conns[d]
    BY <1>1, <2>2
  <2> QED
    BY <2>1, <2>3, <2>4 DEF Quieter, Linked
<1>5. CASE Upgrade(c) /\ conns[c].app # "opening"
  <2>1. conns[c].app = "closed" /\ store' = store
    BY <1>5 DEF Upgrade
  <2>2. conns' = [conns EXCEPT ![c].hub = "open", ![c].viewing = None]
    BY <1>5 DEF Upgrade
  <2>3. conns'[c].app = conns[c].app /\ \A d \in Conns : d # c => conns'[d] = conns[d]
    BY <1>1, <2>2 DEF Conn
  <2> QED
    BY <2>1, <2>3 DEF Quieter, Linked
<1>6. CASE OnOpen(c) /\ ~store.lost
  <2>1. conns' = [conns EXCEPT ![c].app = "open",
                               ![c].up = IF store.viewing = None THEN <<>> ELSE <<store.viewing>>]
    BY <1>6 DEF OnOpen
  <2>2. conns'[c].hub = conns[c].hub /\ conns'[c].down = conns[c].down
           /\ conns[c].hub = "open" /\ conns[c].app = "opening"
    BY <1>1, <1>6, <2>1 DEF Conn, OnOpen
  <2>3. \A d \in Conns : d # c => conns'[d] = conns[d]
    BY <1>1, <2>1
  <2> QED
    BY <1>6, <2>2, <2>3 DEF Quieter, Linked
<1> QED
  BY <1>2, <1>3, <1>4, <1>5, <1>6

\* The presence is only said.
LEMMA TellsIsQuiet ==
    ASSUME SocketInv, Tells
    PROVE  Quieter
<1>1. store \in Store /\ conns \in [Conns -> Conn]
  BY DEF SocketInv, TypeOK
<1>2. CASE UNCHANGED vars
  BY <1>2 DEF vars, Quieter, Linked
<1>3. ASSUME NEW v, SetViewing(v) PROVE Quieter
  <2>1. store'.lost = store.lost
    BY <1>1, <1>3 DEF SetViewing, Store
  <2>2. ASSUME NEW d \in Conns
        PROVE  conns'[d].app = conns[d].app /\ conns'[d].hub = conns[d].hub
                 /\ conns'[d].down = conns[d].down
    <3>1. CASE conns' = conns
      BY <3>1
    <3>2. CASE store.socket # None /\ conns' = [conns EXCEPT ![store.socket].up = Append(@, v)]
      BY <1>1, <3>2 DEF Conn, Store
    <3> QED
      BY <1>3, <3>1, <3>2 DEF SetViewing, Sent
  <2> QED
    BY <2>1, <2>2 DEF Quieter, Linked
<1> QED
  BY <1>2, <1>3 DEF Tells
-----------------------------------------------------------------------------
\* Where no connection that matters is new and no news is dropped, the news of
\* old commits is still somewhere.
LEMMA QuietCarries ==
    ASSUME IInv, NewsIsSomewhere, Kept, Quieter, telling \subseteq telling', untold' = untold,
           \A i \in 1 .. Len(log) : log'[i] = log[i],
           \A v \in OnScreen' : \A i \in (1 .. Len(log')) \ (1 .. Len(log)) :
              Expects(v, i)' => IF v \in OwnLists THEN Settled(view', requests', v, i)
                                ELSE \A c \in Conns : Coming(v, i, c)'
    PROVE  NewsIsSomewhere'
<1>1. \A v \in OnScreen' : \A i \in 1 .. Len(log) :
         Expects(v, i)' => Expects(v, i) /\ (v \in OwnLists => log[i].by = "mounted")
  <2>1. ASSUME NEW v, NEW i \in 1 .. Len(log), Expects(v, i)' PROVE Expects(v, i)
    BY <2>1 DEF Expects
  <2> QED
    BY <2>1, OwnExpects
<1>2. ASSUME NEW v, NEW i, NEW c \in Conns, Relies(v, c)'
      PROVE  Relies(v, c) /\ (Coming(v, i, c) => Coming(v, i, c)')
  <2>1. Linked(c)'
    BY <1>2 DEF Relies, Linked
  <2>2. Linked(c) /\ conns'[c].down = conns[c].down /\ (store.lost => store'.lost)
    BY <2>1 DEF Quieter
  <2> QED
    BY <1>2, <2>2 DEF Relies, Linked, Coming
<1> QED
  BY <1>1, <1>2, NewsCarried

LEMMA QuietNews ==
    ASSUME IInv, NewsIsSomewhere, Fits(view, requests), Quieter, UNCHANGED screensVars
    PROVE  NewsIsSomewhere' /\ Fits(view, requests)'
<1>1. /\ route' = route /\ view' = view /\ requests' = requests /\ log' = log
      /\ telling' = telling /\ untold' = untold
  BY DEF screensVars
<1>2. KeptAndFits
  BY <1>1, UnchangedKeeps
<1>3. Kept /\ Fits(view, requests)'
  BY <1>2 DEF KeptAndFits, Fits, Awaited
<1> QED
  BY <1>1, <1>3, QuietCarries

\* A commit tells what every view that expects it hears.
LEMMA ScreenNews ==
    ASSUME IInv, SocketInv, NewsIsSomewhere, Fits(view, requests), Screen
    PROVE  NewsIsSomewhere' /\ Fits(view, requests)'
<1>1. Step /\ Quieter
  BY TellsIsQuiet DEF Screen
<1>2. KeptAndFits
  BY <1>1, StepKeeps
<1>3. Kept /\ Fits(view, requests)'
  BY <1>2 DEF KeptAndFits, Fits, Awaited
<1>4. log \in Seq(Entry) /\ Len(log) \in Nat
  BY Typed DEF IInv
<1>5. /\ untold' = untold /\ telling \subseteq telling'
      /\ \/ log' = log /\ telling' = telling
         \/ \E kind \in Kinds, by \in {"other", "mounted", "left"} :
              /\ Commit(kind, by)
              /\ \A v \in OwnLists : kind \in Behaviour(v).of /\ by = "mounted" =>
                   \E q \in Acting(requests', v) : q.at = Len(log) + 1
  BY <1>1, StepCommits
<1>6. CASE log' = log
  BY <1>1, <1>3, <1>5, <1>6, QuietCarries
<1>7. CASE \E kind \in Kinds, by \in {"other", "mounted", "left"} :
              /\ Commit(kind, by)
              /\ \A v \in OwnLists : kind \in Behaviour(v).of /\ by = "mounted" =>
                   \E q \in Acting(requests', v) : q.at = Len(log) + 1
  <2>1. PICK kind \in Kinds, by \in {"other", "mounted", "left"} :
              /\ Commit(kind, by)
              /\ \A v \in OwnLists : kind \in Behaviour(v).of /\ by = "mounted" =>
                   \E q \in Acting(requests', v) : q.at = Len(log) + 1
    BY <1>7
  <2> DEFINE e == [kind |-> kind, by |-> by]
  <2>2. log' = Append(log, e) /\ e.kind = kind /\ e.by = by
    BY <2>1 DEF Commit
  <2> HIDE DEF e
  <2>3. /\ \A i \in 1 .. Len(log) : log'[i] = log[i]
        /\ Len(log') = Len(log) + 1 /\ log'[Len(log) + 1] = e
    BY <1>4, <2>2
  <2>4. ASSUME NEW v \in OnScreen', NEW i \in (1 .. Len(log')) \ (1 .. Len(log)), Expects(v, i)'
        PROVE  IF v \in OwnLists THEN Settled(view', requests', v, i)
               ELSE \A c \in Conns : Coming(v, i, c)'
    <3>1. i = Len(log) + 1
      BY <1>4, <2>3
    <3>2. /\ kind \in Behaviour(v).of
          /\ \/ by = "mounted" /\ v \in OwnLists
             \/ ToSet(Publishes[kind]) \cap Behaviour(v).hears # {}
      BY <2>2, <2>3, <2>4, <3>1 DEF Expects
    <3>3. CASE v \in OwnLists
      <4>1. by = "mounted"
        BY <3>2, <3>3 DEF OwnLists, Behaviour, MembersView, CatalogView
      <4>2. \E q \in Acting(requests', v) : q.at \in {i, Failed}
        BY <2>1, <3>1, <3>2, <3>3, <4>1
      <4>3. v \notin Lists
        BY <3>3, ViewFacts
      <4> QED
        BY <3>3, <4>2, <4>3 DEF Settled, Shows
    <3>4. CASE v \notin OwnLists
      <4>1. ToSet(Publishes[kind]) \cap Behaviour(v).hears # {}
        BY <3>2, <3>4
      <4>2. Publishes[kind] # <<>>
        BY <4>1 DEF ToSet
      <4> DEFINE t == [place |-> Len(log) + 1, events |-> Publishes[kind]]
      <4>3. t \in telling' /\ t.place = Len(log) + 1 /\ t.events = Publishes[kind]
        BY <2>1, <4>2 DEF Commit
      <4> HIDE DEF t
      <4>4. \A c \in Conns : Coming(v, i, c)'
        BY <3>1, <4>1, <4>3 DEF Coming
      <4> QED
        BY <3>4, <4>4
    <3> QED
      BY <3>3, <3>4
  <2> QED
    BY <1>1, <1>3, <1>5, <2>3, <2>4, QuietCarries
<1> QED
  BY <1>3, <1>5, <1>6, <1>7

\* Nothing new is counted on of what was committed before the socket was accepted.
LEMMA AcceptedNews ==
    ASSUME IInv, SocketInv, NewsIsSomewhere, Fits(view, requests), NEW c \in Conns,
           Upgrade(c), conns[c].app = "opening", Accepted(store.lost)
    PROVE  NewsIsSomewhere' /\ Fits(view, requests)'
<1>1. /\ route' = route /\ view' = view /\ requests' = requests /\ log' = log
      /\ telling' = telling /\ store' = store
      /\ untold' = [first |-> IF store.lost THEN untold.first ELSE Len(log),
                    any   |-> IF route = "offer" THEN Len(log) ELSE untold.any]
  BY DEF Accepted, Upgrade
<1>2. Len(log) \in Nat
  BY Typed DEF IInv
<1>3. KeptAndFits
  BY <1>1, UnchangedKeeps
<1>4. Kept /\ Fits(view, requests)'
  BY <1>3 DEF KeptAndFits, Fits, Awaited
<1>5. ASSUME NEW v \in OnScreen', NEW i \in 1 .. Len(log), Expects(v, i)'
      PROVE  /\ Expects(v, i) /\ (v \in OwnLists => log[i].by = "mounted")
             /\ v # "offer" /\ store.lost
  <2>1. v = "offer" => route = "offer"
    BY <1>1 DEF OnScreen, ViewsOf
  <2>2. v # "offer" /\ store.lost
    BY <1>1, <1>2, <1>5, <2>1 DEF Expects
  <2>3. Expects(v, i)
    BY <1>1, <1>5, <2>2 DEF Expects
  <2> QED
    BY <2>2, <2>3, OwnExpects
<1>6. \A v \in OnScreen : \A i \in 1 .. Len(log) : \A d \in Conns :
         ~(v \in OnScreen' /\ Expects(v, i)' /\ Relies(v, d)')
  BY <1>1, <1>5 DEF Relies
<1>7. (1 .. Len(log')) \ (1 .. Len(log)) = {}
  BY <1>1
<1>8. NewsIsSomewhere'
  BY <1>4, <1>5, <1>6, <1>7, NewsCarried
<1> QED
  BY <1>4, <1>8

\* A socket that opens after one was lost: what does not ask again has the frames
\* sent since it was accepted.
LEMMA OpenedNews ==
    ASSUME IInv, SocketInv, NewsIsSomewhere, Fits(view, requests), NEW c \in Conns, Opened(c)
    PROVE  NewsIsSomewhere' /\ Fits(view, requests)'
<1>1. CASE ~store.lost
  BY <1>1, MakingIsQuiet, QuietNews DEF Opened
<1>2. CASE store.lost
  <2> DEFINE V == {v \in OnScreen : Reconnects(v)}
  <2>1. /\ route' = route /\ view' = view /\ log' = log /\ telling' = telling
        /\ untold' = untold /\ requests' = Loads(requests, V) /\ OnOpen(c)
    BY <1>2 DEF Opened, Reconnected
  <2>2. view \in [Views -> ViewRec] /\ log \in Seq(Entry) /\ V \in SUBSET Views
    BY Typed, OnScreenViews DEF IInv
  <2>3. \A v \in V : Asked(requests', v)
    BY <2>1, <2>2, LoadsAsk
  <2>4. KeptAndFits
    BY <2>1, <2>2, AskAgainKeeps
  <2>5. Kept /\ Fits(view, requests)'
    BY <2>4 DEF KeptAndFits, Fits, Awaited
  <2>6. conns \in [Conns -> Conn]
    BY DEF SocketInv, TypeOK
  <2>7. /\ \A d \in Conns : conns'[d].down = conns[d].down /\ conns'[d].hub = conns[d].hub
        /\ \A d \in Conns : conns'[d].app = conns[d].app \/ conns[d].app = "opening"
    <3>1. conns' = [conns EXCEPT ![c].app = "open",
                                 ![c].up = IF store.viewing = None THEN <<>> ELSE <<store.viewing>>]
      BY <2>1 DEF OnOpen
    <3>2. conns[c].app = "opening"
      BY <2>1 DEF OnOpen
    <3>3. ASSUME NEW d \in Conns
          PROVE  /\ conns'[d].down = conns[d].down /\ conns'[d].hub = conns[d].hub
                 /\ conns'[d].app = conns[d].app \/ d = c
      BY <2>6, <3>1 DEF Conn
    <3> QED
      BY <3>2, <3>3
  <2>8. ASSUME NEW v \in OnScreen, NEW i \in 1 .. Len(log), NEW d \in Conns,
               v \notin OwnLists, Relies(v, d)'
        PROVE  \/ Relies(v, d) /\ (Coming(v, i, d) => Coming(v, i, d)')
               \/ Settled(view', requests', v, i)
    <3>1. CASE v \in V
      <4>1. i <= Len(log)
        OBVIOUS
      <4>2. Brings(requests', v, i)
        BY <2>3, <3>1, <4>1 DEF Asked, Brings
      <4> QED
        BY <4>2 DEF Settled
    <3>2. CASE v \notin V
      <4>1. v = "offer"
        <5>1. v \in Views
          BY OnScreenViews
        <5>2. Behaviour(v).reconnects => v \in V
          BY DEF Reconnects
        <5> QED
          BY <2>8, <3>2, <5>1, <5>2
             DEF Views, OwnLists, Behaviour, MeView, BoardView, OffersView, ReservationsView,
                 ReservationView, ThreadView
      <4>2. Relies(v, d)
        BY <2>7, <2>8, <4>1 DEF Relies
      <4>3. Coming(v, i, d) => Coming(v, i, d)'
        BY <2>1, <2>7 DEF Coming
      <4> QED
        BY <4>2, <4>3
    <3> QED
      BY <3>1, <3>2
  <2>9. \A v \in OnScreen' : \A i \in 1 .. Len(log) :
           Expects(v, i)' => Expects(v, i) /\ (v \in OwnLists => log[i].by = "mounted")
    <3>1. ASSUME NEW v, NEW i, Expects(v, i)' PROVE Expects(v, i)
      BY <2>1, <3>1 DEF Expects
    <3> QED
      BY <3>1, OwnExpects
  <2>10. (1 .. Len(log')) \ (1 .. Len(log)) = {}
    BY <2>1
  <2> HIDE DEF V
  <2>11. NewsIsSomewhere'
    BY <2>5, <2>8, <2>9, <2>10, NewsCarried
  <2> QED
    BY <2>5, <2>11
<1> QED
  BY <1>1, <1>2
-----------------------------------------------------------------------------
\* A frame makes what hears it ask again, and leaves the others to what it had.
LEMMA FrameNews ==
    ASSUME IInv, SocketInv, NewsIsSomewhere, Fits(view, requests), NEW c \in Conns, Frame(c)
    PROVE  NewsIsSomewhere' /\ Fits(view, requests)'
<1> DEFINE e == Head(conns[c].down)
           V == {v \in OnScreen : e \in Behaviour(v).hears}
<1>1. /\ route' = route /\ view' = view /\ log' = log /\ telling' = telling
      /\ untold' = untold /\ requests' = Loads(requests, V) /\ Deliver(c) /\ store' = store
  BY DEF Frame, Hear, Deliver
<1>2. view \in [Views -> ViewRec] /\ log \in Seq(Entry) /\ V \in SUBSET Views
  BY Typed, OnScreenViews DEF IInv
<1>3. \A v \in V : Asked(requests', v)
  BY <1>1, <1>2, LoadsAsk
<1>4. KeptAndFits
  BY <1>1, <1>2, AskAgainKeeps
<1>5. Kept /\ Fits(view, requests)'
  BY <1>4 DEF KeptAndFits, Fits, Awaited
<1>6. conns \in [Conns -> Conn] /\ conns[c].down \in Seq(Events) /\ conns[c].down # <<>>
  BY <1>1 DEF SocketInv, TypeOK, Conn, Deliver
<1>7. \A d \in Conns : /\ conns'[d].app = conns[d].app /\ conns'[d].hub = conns[d].hub
                       /\ conns'[d].down = IF d = c THEN Tail(conns[d].down) ELSE conns[d].down
  BY <1>1, <1>6 DEF Deliver, Conn
<1>8. ToSet(conns[c].down) \subseteq {e} \cup ToSet(Tail(conns[c].down))
  BY <1>6, SetOfTail
<1> HIDE DEF e
<1>9. ASSUME NEW v \in OnScreen, NEW i \in 1 .. Len(log), NEW d \in Conns, Relies(v, d)'
      PROVE  \/ Relies(v, d) /\ (Coming(v, i, d) => Coming(v, i, d)')
             \/ Settled(view', requests', v, i)
  <2>1. CASE v \in V
    <3>1. i <= Len(log)
      OBVIOUS
    <3>2. Brings(requests', v, i)
      BY <1>3, <2>1, <3>1 DEF Asked, Brings
    <3> QED
      BY <3>2 DEF Settled
  <2>2. CASE v \notin V
    <3>1. Relies(v, d)
      BY <1>1, <1>7, <1>9 DEF Relies
    <3>2. ToSet(conns[d].down) \cap Behaviour(v).hears
             \subseteq ToSet(conns'[d].down) \cap Behaviour(v).hears
      BY <1>7, <1>8, <2>2
    <3>3. Coming(v, i, d) => Coming(v, i, d)'
      BY <1>1, <3>2 DEF Coming
    <3> QED
      BY <3>1, <3>3
  <2> QED
    BY <2>1, <2>2
<1>10. \A v \in OnScreen' : \A i \in 1 .. Len(log) :
          Expects(v, i)' => Expects(v, i) /\ (v \in OwnLists => log[i].by = "mounted")
  <2>1. ASSUME NEW v, NEW i, Expects(v, i)' PROVE Expects(v, i)
    BY <1>1, <2>1 DEF Expects
  <2> QED
    BY <2>1, OwnExpects
<1>11. (1 .. Len(log')) \ (1 .. Len(log)) = {}
  BY <1>1
<1> HIDE DEF V
<1>12. NewsIsSomewhere'
  BY <1>5, <1>9, <1>10, <1>11, NewsCarried
<1> QED
  BY <1>5, <1>12

\* What is left to tell of a commit once its first event is told.
LEMMA ShorterKeeps ==
    ASSUME NEW t \in telling, PlacesOK, TellingOK
    PROVE  /\ \A s \in telling : s # t => s \in Shorter(t)
           /\ Tail(t.events) # <<>> =>
                \E s \in Shorter(t) : s.place = t.place /\ s.events = Tail(t.events)
           /\ ToSet(t.events) \subseteq {Head(t.events)} \cup ToSet(Tail(t.events))
           /\ Shorter(t) \subseteq [place : Nat, events : Seq(Topics)]
<1>1. t \in [place : Nat, events : Seq(Topics)] /\ t.events # <<>>
  BY DEF PlacesOK, TellingOK
<1> DEFINE s == [t EXCEPT !.events = Tail(@)]
<1>2. s.place = t.place /\ s.events = Tail(t.events)
  BY <1>1
<1>3. Tail(t.events) \in Seq(Topics)
  BY <1>1
<1>4. s \in [place : Nat, events : Seq(Topics)]
  BY <1>1, <1>3
<1>5. Shorter(t) = (telling \ {t}) \cup {u \in {s} : u.events # <<>>}
  BY DEF Shorter
<1> HIDE DEF s
<1>6. ToSet(t.events) \subseteq {Head(t.events)} \cup ToSet(Tail(t.events))
  BY <1>1, SetOfTail
<1>7. Shorter(t) \subseteq [place : Nat, events : Seq(Topics)]
  BY <1>4, <1>5 DEF PlacesOK
<1> QED
  BY <1>2, <1>5, <1>6, <1>7

\* What is told is in every socket that counts, or is still to be told.
LEMMA ToldNews ==
    ASSUME IInv, SocketInv, NewsIsSomewhere, Fits(view, requests), PlacesOK, TellingOK,
           NEW t \in telling, Publish(Head(t.events)), Told(t)
    PROVE  NewsIsSomewhere' /\ Fits(view, requests)'
<1> DEFINE e == Head(t.events)
<1>1. /\ route' = route /\ view' = view /\ requests' = requests /\ log' = log
      /\ untold' = untold /\ telling' = Shorter(t) /\ store' = store /\ conns' = Frames(e)
  BY DEF Told, Publish
<1>2. KeptAndFits
  BY <1>1, UnchangedKeeps
<1>3. Kept /\ Fits(view, requests)'
  BY <1>2 DEF KeptAndFits, Fits, Awaited
<1>4. conns \in [Conns -> Conn] /\ \A d \in Conns : conns[d].down \in Seq(Events)
  BY DEF SocketInv, TypeOK, Conn
<1>5. /\ \A s \in telling : s # t => s \in telling'
      /\ Tail(t.events) # <<>> =>
           \E s \in telling' : s.place = t.place /\ s.events = Tail(t.events)
      /\ ToSet(t.events) \subseteq {e} \cup ToSet(Tail(t.events))
  BY <1>1, ShorterKeeps
<1> HIDE DEF e
<1>6. ASSUME NEW d \in Conns
      PROVE  /\ conns'[d].app = conns[d].app /\ conns'[d].hub = conns[d].hub
             /\ Linked(d) => ToSet(conns[d].down) \cup {e} \subseteq ToSet(conns'[d].down)
  <2>1. CASE Linked(d)
    <3>1. conns'[d] = [conns[d] EXCEPT !.down = Append(conns[d].down, e)]
      BY <1>1, <2>1 DEF Frames, Linked
    <3>2. conns'[d].app = conns[d].app /\ conns'[d].hub = conns[d].hub
            /\ conns'[d].down = Append(conns[d].down, e)
      BY <1>4, <3>1 DEF Conn
    <3>3. ToSet(conns[d].down) \cup {e} \subseteq ToSet(Append(conns[d].down, e))
      BY <1>4, SetOfAppend
    <3> QED
      BY <3>2, <3>3
  <2>2. CASE ~Linked(d)
    BY <1>1, <2>2 DEF Frames, Linked
  <2> QED
    BY <2>1, <2>2
<1>7. ASSUME NEW v, NEW i, NEW d \in Conns, Relies(v, d)'
      PROVE  Relies(v, d) /\ (Coming(v, i, d) => Coming(v, i, d)')
  <2>1. Relies(v, d) /\ Linked(d)
    BY <1>1, <1>6, <1>7 DEF Relies, Linked
  <2>2. ASSUME NEW x \in ToSet(t.events) \cap Behaviour(v).hears, i = t.place
        PROVE  Coming(v, i, d)'
    <3>1. CASE x = e
      BY <1>6, <2>1, <2>2, <3>1 DEF Coming
    <3>2. CASE x # e
      <4>1. x \in ToSet(Tail(t.events))
        BY <1>5, <2>2, <3>2
      <4>2. Tail(t.events) # <<>>
        BY <4>1 DEF ToSet
      <4> QED
        BY <1>5, <2>2, <4>1, <4>2 DEF Coming
    <3> QED
      BY <3>1, <3>2
  <2>3. ASSUME NEW s \in telling, s # t, s.place = i, ToSet(s.events) \cap Behaviour(v).hears # {}
        PROVE  Coming(v, i, d)'
    BY <1>5, <2>3 DEF Coming
  <2>4. ASSUME ToSet(conns[d].down) \cap Behaviour(v).hears # {}
        PROVE  Coming(v, i, d)'
    BY <1>6, <2>1, <2>4 DEF Coming
  <2> QED
    BY <2>1, <2>2, <2>3, <2>4 DEF Coming
<1>8. \A v \in OnScreen' : \A i \in 1 .. Len(log) :
         Expects(v, i)' => Expects(v, i) /\ (v \in OwnLists => log[i].by = "mounted")
  <2>1. ASSUME NEW v, NEW i, Expects(v, i)' PROVE Expects(v, i)
    BY <1>1, <2>1 DEF Expects
  <2> QED
    BY <2>1, OwnExpects
<1>9. (1 .. Len(log')) \ (1 .. Len(log)) = {}
  BY <1>1
<1>10. NewsIsSomewhere'
  BY <1>3, <1>7, <1>8, <1>9, NewsCarried
<1> QED
  BY <1>3, <1>10

LEMMA MaxOfTwo ==
    ASSUME NEW a \in Nat, NEW b \in Nat
    PROVE  Max({a, b}) \in Nat /\ Max({a, b}) >= a /\ Max({a, b}) >= b
<1>1. \E x \in {a, b} : \A y \in {a, b} : x >= y
  OBVIOUS
<1>2. Max({a, b}) \in {a, b} /\ \A y \in {a, b} : Max({a, b}) >= y
  BY <1>1, Zenon DEF Max
<1> QED
  BY <1>2

\* What is never told is not counted on.
LEMMA NeverToldNews ==
    ASSUME IInv, NewsIsSomewhere, Fits(view, requests), PlacesOK, TellingOK,
           NEW t \in telling, NeverTold(t), UNCHANGED vars
    PROVE  NewsIsSomewhere' /\ Fits(view, requests)' /\ untold' \in [first : Nat, any : Nat]
<1> DEFINE f == Max({untold.first, t.place})
           a == Max({untold.any, t.place})
<1>1. /\ route' = route /\ view' = view /\ requests' = requests /\ log' = log
      /\ telling' = Shorter(t) /\ store' = store /\ conns' = conns
      /\ untold' = [first |-> f, any |-> a]
  BY DEF NeverTold, vars
<1>2. KeptAndFits
  BY <1>1, UnchangedKeeps
<1>3. Kept /\ Fits(view, requests)'
  BY <1>2 DEF KeptAndFits, Fits, Awaited
<1>4. untold.first \in Nat /\ untold.any \in Nat /\ t.place \in Nat
  BY DEF PlacesOK
<1>5. /\ f \in Nat /\ f >= untold.first /\ f >= t.place
      /\ a \in Nat /\ a >= untold.any /\ a >= t.place
  BY <1>4, MaxOfTwo
<1> HIDE DEF f, a
<1>6. \A s \in telling : s # t => s \in telling'
  BY <1>1, ShorterKeeps
<1>7. ASSUME NEW v, NEW i \in 1 .. Len(log), Expects(v, i)'
      PROVE  Expects(v, i) /\ i # t.place
  <2>1. /\ i > IF v = "offer" THEN a ELSE f
        /\ i \in Int
    BY <1>1, <1>7 DEF Expects
  <2>2. /\ i > IF v = "offer" THEN untold.any ELSE untold.first
        /\ i # t.place
    BY <1>4, <1>5, <2>1
  <2> QED
    BY <1>1, <1>7, <2>2 DEF Expects
<1>8. ASSUME NEW v, NEW i \in 1 .. Len(log), NEW d \in Conns, Expects(v, i)', Relies(v, d)'
      PROVE  Relies(v, d) /\ (Coming(v, i, d) => Coming(v, i, d)')
  <2>1. Relies(v, d) /\ i # t.place
    BY <1>1, <1>7, <1>8 DEF Relies
  <2>2. Coming(v, i, d) => Coming(v, i, d)'
    BY <1>1, <1>6, <2>1 DEF Coming
  <2> QED
    BY <2>1, <2>2
<1>9. \A v \in OnScreen' : \A i \in 1 .. Len(log) :
         Expects(v, i)' => Expects(v, i) /\ (v \in OwnLists => log[i].by = "mounted")
  BY <1>7, OwnExpects
<1>10. (1 .. Len(log')) \ (1 .. Len(log)) = {}
  BY <1>1
<1>11. NewsIsSomewhere'
  BY <1>3, <1>8, <1>9, <1>10, NewsCarried
<1>12. untold' \in [first : Nat, any : Nat]
  BY <1>1, <1>5
<1> QED
  BY <1>3, <1>11, <1>12
-----------------------------------------------------------------------------
\* A socket that is open ended the count of reconnects, and none starts before
\* it is closed.
LEMMA FoundStep ==
    ASSUME SocketInv, OpenIsFound, [Next]_vars
    PROVE  OpenIsFound'
<1>1. store \in Store /\ conns \in [Conns -> Conn]
  BY DEF SocketInv, TypeOK
<1>2. \A c, d \in Conns : c \in Alive /\ d \in Alive => c = d
  BY DEF SocketInv, OneSocket
<1>3. ASSUME NEW c \in Conns, store' = store \/ ~store'.lost,
             \A d \in Conns : d # c => conns'[d].app = conns[d].app,
             conns'[c].app = "open" => conns[c].app = "open" \/ ~store'.lost
      PROVE  OpenIsFound'
  BY <1>3 DEF OpenIsFound
<1>4. ASSUME NEW c \in Conns, conns[c].app \in {"asking", "opening", "open"},
             \A d \in Conns : d # c => conns'[d] = conns[d], conns'[c].app \in {"idle", "closed"}
      PROVE  OpenIsFound'
  <2>1. \A d \in Conns : conns[d].app = "open" => d = c
    BY <1>2, <1>4 DEF Alive
  <2>2. \A d \in Conns : conns'[d].app # "open"
    BY <1>4, <2>1
  <2> QED
    BY <2>2 DEF OpenIsFound
<1>5. ASSUME \A d \in Conns : conns'[d].app = conns[d].app, store'.lost => store.lost
      PROVE  OpenIsFound'
  BY <1>5 DEF OpenIsFound
<1>6. ASSUME NEW c \in Conns, Start(c) \/ Reconnect(c)
      PROVE  OpenIsFound'
  <2>1. store'.lost => store.lost
    BY <1>1, <1>6 DEF Start, Reconnect, Store
  <2>2. conns' = [conns EXCEPT ![c] = [conns[c] EXCEPT !.app = "asking"]]
    BY <1>6 DEF Start, Reconnect, Connect
  <2>3. conns'[c].app = "asking" /\ \A d \in Conns : d # c => conns'[d] = conns[d]
    BY <1>1, <2>2 DEF Conn
  <2> QED
    BY <2>1, <2>3 DEF OpenIsFound
<1>7. ASSUME NEW c \in Conns, OpenSocket(c)
      PROVE  OpenIsFound'
  <2>1. store'.lost = store.lost
    BY <1>1, <1>7 DEF OpenSocket, Store
  <2>2. conns'[c].app # "open" /\ \A d \in Conns : d # c => conns'[d] = conns[d]
    <3>1. CASE Stopped(store)
      BY <1>1, <1>7, <3>1 DEF OpenSocket, Idle
    <3>2. CASE ~Stopped(store)
      BY <1>1, <1>7, <3>2 DEF OpenSocket, Conn
    <3> QED
      BY <3>1, <3>2
  <2> QED
    BY <2>1, <2>2 DEF OpenIsFound
<1>8. ASSUME NEW c \in Conns, Upgrade(c) \/ HubHears(c) \/ Deliver(c)
      PROVE  OpenIsFound'
  <2>1. store' = store
    BY <1>8 DEF Upgrade, HubHears, Deliver
  <2>2. \A d \in Conns : conns'[d].app = conns[d].app
    <3>1. CASE Upgrade(c)
      BY <1>1, <3>1 DEF Upgrade, Conn
    <3>2. CASE HubHears(c)
      BY <1>1, <3>2 DEF HubHears, Conn
    <3>3. CASE Deliver(c)
      BY <1>1, <3>3 DEF Deliver, Conn
    <3> QED
      BY <1>8, <3>1, <3>2, <3>3
  <2> QED
    BY <1>5, <2>1, <2>2
<1>9. ASSUME NEW c \in Conns, OnOpen(c)
      PROVE  OpenIsFound'
  BY <1>1, <1>9 DEF OnOpen, Store, OpenIsFound
<1>10. ASSUME NEW c \in Conns, HubNotices(c) \/ UpgradeFails(c) \/ HubDrops(c)
       PROVE  OpenIsFound'
  <2>1. \/ conns'[c].app = "idle"
        \/ conns'[c].app = conns[c].app
    BY <1>1, <1>10, HubEnds
  <2>2. store' = store /\ \A d \in Conns : d # c => conns'[d] = conns[d]
    BY <1>1, <1>10 DEF HubNotices, UpgradeFails, HubDrops
  <2> QED
    BY <2>1, <2>2 DEF OpenIsFound
<1>11. ASSUME NEW c \in Conns, TicketFails(c)
       PROVE  OpenIsFound'
  <2>1. conns' = [conns EXCEPT ![c] = Idle] /\ conns[c].app = "asking"
    BY <1>11 DEF TicketFails
  <2>2. conns'[c].app \in {"idle", "closed"} /\ \A d \in Conns : d # c => conns'[d] = conns[d]
    BY <1>1, <2>1 DEF Idle
  <2> QED
    BY <1>4, <2>1, <2>2
<1>12. ASSUME NEW c \in Conns, OnClose(c)
       PROVE  OpenIsFound'
  <2>1. conns' = [conns EXCEPT ![c] = Forgotten(conns[c])] /\ conns[c].app \in {"opening", "open"}
    BY <1>12 DEF OnClose
  <2>2. Forgotten(conns[c]).app \in {"idle", "closed"}
    BY <1>1, ForgottenIsClosed
  <2>3. conns'[c].app \in {"idle", "closed"} /\ \A d \in Conns : d # c => conns'[d] = conns[d]
    BY <1>1, <2>1, <2>2
  <2> QED
    BY <1>4, <2>1, <2>3
<1>13. ASSUME NEW v, SetViewing(v)
       PROVE  OpenIsFound'
  <2>1. store'.lost = store.lost
    BY <1>1, <1>13 DEF SetViewing, Store
  <2>2. \A d \in Conns : conns'[d].app = conns[d].app
    <3>1. CASE conns' = conns
      BY <3>1
    <3>2. CASE store.socket # None /\ conns' = [conns EXCEPT ![store.socket].up = Append(@, v)]
      BY <1>1, <3>2 DEF Conn, Store
    <3> QED
      BY <1>13, <3>1, <3>2 DEF SetViewing, Sent
  <2> QED
    BY <1>5, <2>1, <2>2
<1>14. ASSUME NEW e, Publish(e)
       PROVE  OpenIsFound'
  <2>1. \A d \in Conns : conns'[d].app = conns[d].app
    BY <1>1, <1>14 DEF Publish, Frames, Conn
  <2> QED
    BY <1>5, <1>14, <2>1 DEF Publish
<1>15. ASSUME Stop
       PROVE  OpenIsFound'
  <2>1. store'.lost = store.lost
    BY <1>1, <1>15 DEF Stop, Store
  <2>2. \A d \in Conns : conns'[d].app = "open" => conns[d].app = "open"
    <3>1. CASE store.socket = None
      BY <1>15, <3>1 DEF Stop
    <3>2. CASE store.socket # None
      <4>1. PICK c \in Conns : c = store.socket
        BY <1>1, <3>2 DEF Store
      <4>2. conns' = [conns EXCEPT ![c] = Forgotten(conns[c])]
        BY <1>15, <3>2, <4>1 DEF Stop
      <4>3. Forgotten(conns[c]).app \in {"idle", "closed"}
        BY <1>1, ForgottenIsClosed
      <4> QED
        BY <1>1, <4>2, <4>3
    <3> QED
      BY <3>1, <3>2
  <2> QED
    BY <2>1, <2>2 DEF OpenIsFound
<1>16. CASE UNCHANGED vars
  BY <1>16 DEF vars, OpenIsFound
<1> QED
  BY <1>6, <1>7, <1>8, <1>9, <1>10, <1>11, <1>12, <1>13, <1>14, <1>15, <1>16 DEF Next

\* A place is told with what its commit publishes.
LEMMA PlacesStep ==
    ASSUME IInv, PlacesOK, Step
    PROVE  PlacesOK'
<1>1. Len(log) \in Nat
  BY Typed DEF IInv
<1>2. /\ untold' = untold
      /\ \/ telling' = telling
         \/ \E kind \in Kinds, by \in {"other", "mounted", "left"} : Commit(kind, by)
  BY StepCommits
<1>3. ASSUME NEW kind \in Kinds, NEW by, Commit(kind, by)
      PROVE  telling' \subseteq [place : Nat, events : Seq(Topics)]
  <2> DEFINE t == [place |-> Len(log) + 1, events |-> Publishes[kind]]
  <2>1. Publishes[kind] \in Seq(Topics) /\ Len(log) + 1 \in Nat
    BY <1>1, PublishesTopics
  <2>2. t \in [place : Nat, events : Seq(Topics)]
    BY <2>1
  <2>3. telling' \subseteq telling \cup {t}
    BY <1>3 DEF Commit
  <2> HIDE DEF t
  <2> QED
    BY <2>2, <2>3 DEF PlacesOK
<1> QED
  BY <1>2, <1>3 DEF PlacesOK

LEMMA InitNews == AppInit => NewsInv
<1> SUFFICES ASSUME AppInit PROVE NewsInv
  OBVIOUS
<1>1. /\ log = <<>> /\ telling = {} /\ view = [v \in Views |-> Empty]
      /\ requests = {[view |-> "me", what |-> "load", n |-> 1, at |-> 0,
                      gone |-> FALSE, filter |-> 1, before |-> {}]}
      /\ untold = [first |-> 0, any |-> 0] /\ \A c \in Conns : conns[c].app = "idle"
  BY DEF AppInit, Init, ScreensInit, Idle
<1>2. NewsIsSomewhere
  BY <1>1 DEF NewsIsSomewhere
<1>3. \A v \in Views : ~view[v].loaded /\ view[v].wants = 1 /\ view[v].holds = 1
  BY <1>1 DEF Empty
<1>4. \A r \in requests : ~r.gone /\ r.view = "me" /\ r.filter = 1
  BY <1>1
<1>5. Fits(view, requests)
  BY <1>3, <1>4, ViewFacts DEF Fits
<1>6. OpenIsFound /\ PlacesOK
  BY <1>1 DEF OpenIsFound, PlacesOK
<1> QED
  BY <1>2, <1>5, <1>6 DEF NewsInv

LEMMA NewsStep ==
    ASSUME IInv, SocketInv, TellingOK, NewsInv, [AppNext]_appVars
    PROVE  NewsInv'
<1> USE DEF NewsInv
<1>1. OpenIsFound'
  BY AppStepsBox, FoundStep
<1>2. CASE UNCHANGED appVars
  <2>1. Quieter /\ UNCHANGED screensVars
    BY <1>2 DEF appVars, Quieter, Linked, screensVars
  <2>2. PlacesOK'
    BY <1>2 DEF appVars, PlacesOK
  <2> QED
    BY <1>1, <2>1, <2>2, QuietNews
<1>3. CASE Screen
  BY <1>1, <1>3, ScreenNews, PlacesStep DEF Screen
<1>4. ASSUME UNCHANGED screensVars
      PROVE  PlacesOK'
  BY <1>4 DEF screensVars, PlacesOK
<1>5. CASE Begin
  <2>1. Quieter /\ UNCHANGED screensVars
    BY <1>5, MakingIsQuiet DEF Begin
  <2> QED
    BY <1>1, <1>4, <2>1, QuietNews
<1>6. ASSUME NEW c \in Conns, Connecting(c)
      PROVE  NewsInv'
  <2>1. CASE Upgrade(c) /\ conns[c].app = "opening" /\ Accepted(store.lost)
    <3>1. Len(log) \in Nat
      BY Typed DEF IInv
    <3>2. PlacesOK'
      BY <2>1, <3>1 DEF Accepted, PlacesOK
    <3> QED
      BY <1>1, <2>1, <3>2, AcceptedNews
  <2>2. CASE ~(Upgrade(c) /\ conns[c].app = "opening" /\ Accepted(store.lost))
    <3>1. Quieter /\ UNCHANGED screensVars
      BY <1>6, <2>2, MakingIsQuiet, EndsAreQuiet DEF Connecting
    <3> QED
      BY <1>1, <1>4, <3>1, QuietNews
  <2> QED
    BY <2>1, <2>2
<1>7. ASSUME NEW c \in Conns, Opened(c) \/ Frame(c)
      PROVE  NewsInv'
  <2>1. telling' = telling /\ untold' = untold
    BY <1>7 DEF Opened, Reconnected, Frame, Hear, screensVars
  <2>2. PlacesOK'
    BY <2>1 DEF PlacesOK
  <2> QED
    BY <1>1, <1>7, <2>2, OpenedNews, FrameNews
<1>8. ASSUME NEW t \in telling, Telling(t)
      PROVE  NewsInv'
  <2>1. telling' = Shorter(t)
    BY <1>8 DEF Telling, Told, NeverTold
  <2>2. CASE Publish(Head(t.events)) /\ Told(t)
    <3>1. untold' = untold
      BY <2>2 DEF Told
    <3>2. PlacesOK'
      BY <2>1, <3>1, ShorterKeeps DEF PlacesOK
    <3> QED
      BY <1>1, <2>2, <3>2, ToldNews
  <2>3. CASE NeverTold(t) /\ UNCHANGED vars
    <3>1. PlacesOK'
      BY <2>1, <2>3, NeverToldNews, ShorterKeeps DEF PlacesOK
    <3> QED
      BY <1>1, <2>3, <3>1, NeverToldNews
  <2> QED
    BY <1>8, <2>2, <2>3 DEF Telling
<1> QED
  BY <1>2, <1>3, <1>5, <1>6, <1>7, <1>8 DEF AppNext

\* Whatever frames, answers, reconnects and lost calls interleave, the news of a
\* commit that is not on screen yet is somewhere on its way to it.
THEOREM NewsInvariance == AppSpec => []NewsInv
<1>1. AppSpec => [](IInv /\ SocketInv /\ TellingOK)
  BY MiniAppImplements, ScreensInvariant, SocketInvariant, TellingInvariant, PTL
<1>2. IInv /\ SocketInv /\ TellingOK /\ NewsInv /\ [AppNext]_appVars => NewsInv'
  BY NewsStep
<1> QED
  BY <1>1, <1>2, InitNews, PTL DEF AppSpec

\* At rest nothing is on its way, so what is settled is shown.
LEMMA NewsIsShown == IInv /\ NewsInv => ShowsWhatIsCommitted
<1> SUFFICES ASSUME IInv, NewsInv, AtRest,
                    NEW v \in OnScreen, view[v].loaded, ~view[v].failed
             PROVE  /\ view[v].holds = view[v].wants
                    /\ \A i \in 1 .. Len(log) :
                         Expects(v, i) => i \in IF v \in Lists THEN view[v].shown ELSE view[v].seen
  BY DEF ShowsWhatIsCommitted
<1>1. /\ requests = {} /\ telling = {}
  BY DEF AtRest
<1>2. PICK c \in Conns : conns[c].app = "open" /\ conns[c].hub = "open" /\ conns[c].down = <<>>
  BY DEF AtRest
<1>3. v \in Views
  BY OnScreenViews
<1>4. view[v].holds = view[v].wants
  BY <1>1, <1>3 DEF NewsInv, Fits, Awaited
<1>5. Relies(v, c)
  BY <1>2 DEF Relies, NewsInv, OpenIsFound
<1>6. ASSUME NEW i \in 1 .. Len(log), Expects(v, i)
      PROVE  i \in IF v \in Lists THEN view[v].shown ELSE view[v].seen
  <2>1. ~Coming(v, i, c)
    BY <1>1, <1>2 DEF Coming, ToSet
  <2>2. Settled(view, requests, v, i)
    BY <1>5, <1>6, <2>1 DEF NewsInv, NewsIsSomewhere
  <2> QED
    BY <1>1, <2>2 DEF Settled, Brings, Shows, Awaited, Acting
<1> QED
  BY <1>4, <1>6

\* A screen at rest shows what is committed.  However frames, answers, reconnects
\* and lost calls interleave, and whatever the member opens, leaves and does: on
\* an open socket, with nothing on its way and nothing asked, a view that is
\* loaded has the filter that is set and reflects each commit it shows something
\* of, the member's own and those of others that a frame tells it of, but for
\* the commits ShowsWhatIsCommitted sets apart (the onEvent and onReconnect of
\* realtime.svelte.ts, App.svelte, board.svelte.ts and every screen that loads).
THEOREM ScreensShowCommits == AppSpec => []ShowsWhatIsCommitted
<1>1. AppSpec => []IInv
  BY MiniAppImplements, ScreensInvariant, PTL
<1> QED
  BY <1>1, NewsInvariance, NewsIsShown, PTL

=============================================================================
