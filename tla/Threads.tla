------------------------------- MODULE Threads -------------------------------
(***************************************************************************)
(* The chat of one reservation between its two parties: posting a message, *)
(* reading the thread, and the one notification (N9) of an unread burst.   *)
(*                                                                         *)
(* post and read are transactions at READ COMMITTED.  Each statement that  *)
(* can wait or that reads what others write is a step here; what it writes *)
(* is visible to others when it commits.  A notification holds its         *)
(* recipient's key (dedupe_key, a unique index) until the recipient reads. *)
(* Besides the key, the reader's thread_reads row is locked by the upsert, *)
(* and the reservation's row is shared by post, so that it cannot close    *)
(* meanwhile.                                                              *)
(***************************************************************************)
EXTENDS Integers, FiniteSetsExt

CONSTANTS Requester, Producer, \* the two parties
          Messages,            \* text messages that may be posted
          Txs,                 \* transactions that may be open at a time
          Window,              \* thread_readonly_days_after_close, in ticks
          MaxTime,             \* bound on the clock
          None

\* Nobody reserves their own offer, and a row is not the lack of one.
ASSUME ThreadAssumption ==
    /\ Window \in Nat /\ MaxTime \in Nat
    /\ Requester # Producer
    /\ None \notin Messages
    /\ None \notin [from : {Requester, Producer}, at : 0..MaxTime, ping : BOOLEAN]

VARIABLES now,      \* the Workers' clock
          closedAt, \* when the reservation closed, or Open
          msgs,     \* message -> its row once committed, or None
          mark,     \* party -> the time their read marker points at, or -1
          key,      \* party -> a notification holds their dedupe key
          n9,       \* party -> the messages that opened a burst with an N9
          tx,       \* transaction -> where it is and what it holds
          raced     \* history: messages that crossed a read of the recipient

data == <<closedAt, msgs, mark, key, n9>>
vars == <<now, closedAt, msgs, mark, key, n9, tx, raced>>

Parties == {Requester, Producer}
Other(p) == IF p = Requester THEN Producer ELSE Requester

-----------------------------------------------------------------------------
Open == -1
Times == 0..MaxTime

\* threadWindowOf: open while active and for a while after it closed.
Writable(closed, at) == closed = Open \/ at < closed + Window

NoTx == [step |-> "idle", op |-> "read", who |-> Requester, closed |-> Open, ping |-> FALSE,
         at |-> 0, msg |-> None, marked |-> FALSE, cleared |-> FALSE, wrote |-> FALSE]

Steps == {"idle", "rsv", "insert", "latest", "mark", "clear", "enqueue", "commit"}

TxState ==
    [step : Steps, op : {"post", "read"}, who : Parties, closed : Times \cup {Open},
     ping : BOOLEAN, at : Times, msg : Messages \cup {None},
     marked : BOOLEAN, cleared : BOOLEAN, wrote : BOOLEAN]

Free(t) == tx[t].step = "idle"
At(t, op, step) == tx[t].op = op /\ tx[t].step = step
Set(t, s) == tx' = [tx EXCEPT ![t] = s]

\* Other open transactions of party p.
Others(t, p) == {u \in Txs \ {t} : ~Free(u) /\ tx[u].who = p}

Posted == {m \in Messages : msgs[m] # None}
Inserted == {tx[t].msg : t \in Txs}

\* The text messages of the other party after p's marker: unreadRows.
Unread(p) == {m \in Posted : msgs[m].from = Other(p) /\ msgs[m].at > mark[p]}

\* The thread opens with a system line, and closing writes another.
LatestAt == Max({0, closedAt} \cup {msgs[m].at : m \in Posted})

-----------------------------------------------------------------------------
Init ==
    /\ now = 0
    /\ closedAt = Open
    /\ msgs = [m \in Messages |-> None]
    /\ mark = [p \in Parties |-> -1]
    /\ key = [p \in Parties |-> FALSE]
    /\ n9 = [p \in Parties |-> {}]
    /\ tx = [t \in Txs |-> NoTx]
    /\ raced = {}

\* actorFrom: the actor's row FOR SHARE, so they stay an approved member.
Begin(t, p, op, step) ==
    /\ Free(t)
    /\ Set(t, [NoTx EXCEPT !.op = op, !.who = p, !.step = step])
    /\ UNCHANGED <<now, data, raced>>

BeginPost(t, p) == Begin(t, p, "post", "rsv")
BeginRead(t, p) == Begin(t, p, "read", "latest")

(* The reservation FOR SHARE, the record with both members, hub.isViewing. *)
(* An admin may suspend or reinstate the recipient at any moment, and the  *)
(* recipient may open or leave the thread, so whether they are to be told  *)
(* is free.                                                                *)
LoadThread(t) ==
    /\ At(t, "post", "rsv")
    /\ \E approvedAndAway \in BOOLEAN :
          Set(t, [tx[t] EXCEPT !.step = "insert", !.closed = closedAt,
                               !.ping = approvedAndAway])
    /\ UNCHANGED <<now, data, raced>>

\* The clock, the window, the message.
Insert(t) ==
    /\ At(t, "post", "insert")
    /\ IF Writable(tx[t].closed, now)
       THEN \E m \in Messages \ (Posted \cup Inserted) :
                Set(t, [tx[t] EXCEPT !.step = "mark", !.at = now, !.msg = m])
       ELSE Set(t, NoTx)
    /\ UNCHANGED <<now, data, raced>>

\* read: the newest message, text or system line.
SelectLatest(t) ==
    /\ At(t, "read", "latest")
    /\ Set(t, [tx[t] EXCEPT !.step = "mark", !.at = LatestAt])
    /\ UNCHANGED <<now, data, raced>>

-----------------------------------------------------------------------------
(* markRead: the upsert, then the key.                                     *)

MarkRead(t) ==
    /\ tx[t].step = "mark"
    /\ \A u \in Others(t, tx[t].who) : ~tx[u].marked
    /\ Set(t, [tx[t] EXCEPT !.step = "clear", !.marked = TRUE])
    /\ UNCHANGED <<now, data, raced>>

\* Messages not yet committed whose N9 was skipped because p's key was held.
Skipped(p) ==
    {tx[u].msg : u \in {v \in Txs : At(v, "post", "commit") /\ tx[v].who = Other(p)
                                      /\ tx[v].ping /\ ~tx[v].wrote}}

\* UPDATE notifications SET dedupe_key = NULL WHERE dedupe_key = own key: a
\* row another open transaction inserted is not seen.
ClearKey(t) ==
    LET p == tx[t].who IN
    /\ tx[t].step = "clear"
    /\ key[p] => \A u \in Others(t, p) : ~tx[u].cleared
    /\ Set(t, [tx[t] EXCEPT !.step = IF tx[t].op = "post" THEN "enqueue" ELSE "commit",
                            !.cleared = key[p]])
    /\ raced' = IF key[p] THEN raced \cup Skipped(p) ELSE raced
    /\ UNCHANGED <<now, data>>

\* Fault: a check of the key in a query of its own, which sees what is
\* committed and waits for nobody.
KeyAssumedSettled(t, p) == TRUE

(* The N9 of post: ON CONFLICT DO NOTHING waits for an open transaction    *)
(* that inserted or cleared the same key, and skips a key that is held.    *)
KeySettled(t, p) ==
    /\ \A u \in Others(t, p) : ~tx[u].cleared
    /\ \A u \in Others(t, Other(p)) : ~tx[u].wrote

\* Fault: the insert has no conflict clause to skip on.
EnqueueAlways(t) ==
    LET to == Other(tx[t].who) IN
    /\ At(t, "post", "enqueue")
    /\ tx[t].ping => KeySettled(t, to)
    /\ Set(t, [tx[t] EXCEPT !.step = "commit", !.wrote = tx[t].ping])
    /\ UNCHANGED <<now, data, raced>>

Enqueue(t) ==
    LET to == Other(tx[t].who) IN
    /\ At(t, "post", "enqueue")
    /\ tx[t].ping => KeySettled(t, to)
    /\ Set(t, [tx[t] EXCEPT !.step = "commit", !.wrote = tx[t].ping /\ ~key[to]])
    /\ UNCHANGED <<now, data, raced>>

\* Transactions of party p that have chosen the marker they will set.
Choosing(p) ==
    {t \in Txs : tx[t].who = p /\ tx[t].step \in {"mark", "clear", "enqueue", "commit"}}

CommitPost(t) ==
    LET p == tx[t].who
        to == Other(p)
        m == tx[t].msg IN
    /\ At(t, "post", "commit")
    /\ msgs' = [msgs EXCEPT ![m] = [from |-> p, at |-> tx[t].at, ping |-> tx[t].ping]]
    /\ mark' = [mark EXCEPT ![p] = tx[t].at]
    /\ key' = [q \in Parties |-> IF q = p THEN key[q] /\ ~tx[t].cleared
                                 ELSE key[q] \/ tx[t].wrote]
    /\ n9' = [n9 EXCEPT ![to] = IF tx[t].wrote THEN @ \cup {m} ELSE @]
    /\ raced' = IF Choosing(to) # {} THEN raced \cup {m} ELSE raced
    /\ Set(t, NoTx)
    /\ UNCHANGED <<now, closedAt>>

CommitRead(t) ==
    LET p == tx[t].who IN
    /\ At(t, "read", "commit")
    /\ mark' = [mark EXCEPT ![p] = tx[t].at]
    /\ key' = [key EXCEPT ![p] = @ /\ ~tx[t].cleared]
    /\ Set(t, NoTx)
    /\ UNCHANGED <<now, closedAt, msgs, n9, raced>>

\* A failed statement, a lost connection, a deadlock that Postgres breaks.
Rollback(t) ==
    /\ ~Free(t)
    /\ Set(t, NoTx)
    /\ UNCHANGED <<now, data, raced>>

-----------------------------------------------------------------------------
(* What happens around the thread.                                         *)

\* Fault: post reads the reservation without the lock.
CloseUnderPost ==
    /\ closedAt = Open
    /\ closedAt' = now
    /\ UNCHANGED <<now, msgs, mark, key, n9, tx, raced>>

\* A final decision on the reservation, with its system line: the row FOR
\* UPDATE, which waits for the share lock of post.
Close ==
    /\ closedAt = Open
    /\ \A t \in Txs : tx[t].op = "read" \/ tx[t].step \in {"idle", "rsv"}
    /\ closedAt' = now
    /\ UNCHANGED <<now, msgs, mark, key, n9, tx, raced>>

Tick ==
    /\ now < MaxTime
    /\ now' = now + 1
    /\ UNCHANGED <<data, tx, raced>>

Next ==
    \/ \E t \in Txs :
          \/ \E p \in Parties : BeginPost(t, p) \/ BeginRead(t, p)
          \/ LoadThread(t) \/ Insert(t) \/ SelectLatest(t)
          \/ MarkRead(t) \/ ClearKey(t) \/ Enqueue(t)
          \/ CommitPost(t) \/ CommitRead(t) \/ Rollback(t)
    \/ Close \/ Tick

Spec == Init /\ [][Next]_vars

-----------------------------------------------------------------------------
(* Properties.                                                             *)
TypeOK ==
    /\ now \in Times
    /\ closedAt \in Times \cup {Open}
    /\ msgs \in [Messages -> [from : Parties, at : Times, ping : BOOLEAN] \cup {None}]
    /\ mark \in [Parties -> Times \cup {-1}]
    /\ key \in [Parties -> BOOLEAN]
    /\ n9 \in [Parties -> SUBSET Messages]
    /\ tx \in [Txs -> TxState]
    /\ raced \subseteq Messages
    /\ \A p \in Parties : key[p] => n9[p] # {}
    /\ \A t, u \in Txs : t # u /\ tx[t].marked /\ tx[u].marked => tx[t].who # tx[u].who

(* PRD US-5.1: one notification per unread burst.  Of the messages that    *)
(* opened a burst, a party has at most one unread, unless it crossed one   *)
(* of their reads: the N9 they got is the N9 of all they have not read.    *)
OnePerBurst ==
    \A p \in Parties : Cardinality((n9[p] \cap Unread(p)) \ raced) <= 1

\* What p waits to be told of.
Owed(p) == {m \in Unread(p) : msgs[m].ping}

(* A message that waits for an approved party who was not looking is one   *)
(* they were told of: an N9 that is not read yet holds their key.  The one *)
(* exception is a message that crossed a read of that party: it was        *)
(* skipped for a key that was cleared before it was committed, or          *)
(* committed after the reader had chosen its marker.                       *)
UnreadIsTold ==
    \A p \in Parties : Owed(p) \ raced # {} => key[p]

(* PRD US-5.1: nothing is written once the thread is read-only, a while    *)
(* after the reservation closed.                                           *)
WrittenInWindow ==
    \A m \in Posted : msgs[m].at <= closedAt \/ Writable(closedAt, msgs[m].at)

(* Inductive, for all three.  Of what is committed: whoever has a message  *)
(* to be told of has their key held, and one such message had an N9.       *)
DataFits ==
    /\ closedAt <= now
    /\ \A m \in Posted : msgs[m].at <= now
    /\ \A p \in Parties :
         /\ n9[p] \subseteq Posted
         /\ \A m \in Unread(p) \ raced : m \in n9[p] \/ msgs[m].ping => key[p]
         /\ \A m, n \in (n9[p] \cap Unread(p)) \ raced : m = n
    /\ WrittenInWindow

Marked == {"clear", "enqueue", "commit"}
Chosen == Marked \cup {"mark"}
Skips(s) == s.op = "post" /\ s.step = "commit" /\ s.ping /\ ~s.wrote

(* Of a transaction s, with the messages r that crossed a read: the marker *)
(* it has chosen is after every message of the other party's, the N9 it    *)
(* writes is not held, and the one it skips is.                            *)
TxFits(s, r) ==
    /\ s.marked <=> s.step \in Marked
    /\ s.cleared => s.marked
    /\ s.op = "post" /\ s.step \in Chosen =>
         s.msg \in Messages \ Posted /\ Writable(closedAt, s.at)
    /\ s.op = "post" /\ s.step \in Chosen \cup {"insert"} => s.closed = closedAt
    /\ s.step \in Chosen =>
         /\ s.at <= now
         /\ \A m \in Posted \ r : msgs[m].from = Other(s.who) => msgs[m].at <= s.at
    /\ s.wrote => s.op = "post" /\ s.step = "commit" /\ ~key[Other(s.who)]
    /\ Skips(s) /\ s.msg \notin r => key[Other(s.who)]

(* Of two of them: one holds a party's marker, a message is one's, and the *)
(* key that one skips for is not being cleared by the other.               *)
Apart(s, u, r) ==
    /\ s.marked /\ u.marked => s.who # u.who
    /\ s.msg = u.msg => s.msg = None
    /\ Skips(s) /\ s.msg \notin r /\ u.who = Other(s.who) => ~u.cleared

ThreadInv ==
    /\ TypeOK /\ DataFits
    /\ \A t \in Txs : TxFits(tx[t], raced)
    /\ \A t, u \in Txs : t # u => Apart(tx[t], tx[u], raced)
=============================================================================
