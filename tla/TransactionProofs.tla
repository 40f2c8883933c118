-------------------------- MODULE TransactionProofs --------------------------
(***************************************************************************)
(* Proofs about transactions that wait for each other: the theorems of     *)
(* Threads, the chat of one reservation, whose waiting is what keeps its   *)
(* keys and markers apart, and of LockOrder, where the order of the locks  *)
(* and the catalogue's lock keep transactions from holding each other up   *)
(* in a circle.  For Threads, ThreadInv says what a transaction may rely   *)
(* on while it is open: a step that stays inside a transaction is a case   *)
(* of InsideKeeps, and a commit one of EndKeeps.                           *)
(***************************************************************************)
EXTENDS Threads, LockOrder, Sequences, WellFoundedInduction, FiniteSetTheorems, TLAPS

-----------------------------------------------------------------------------
(* The greatest of a set of times is one of them, and after all others.    *)
LEMMA LatestTime ==
    ASSUME NEW S \in SUBSET Times, S # {}
    PROVE  Max(S) \in S /\ \A x \in S : x <= Max(S)
<1>1. MaxTime \in Nat
  BY ThreadAssumption
<1> DEFINE T == {n \in Nat : MaxTime - n \in S}
<1>2. PICK x \in S : TRUE
  OBVIOUS
<1>3. x \in 0..MaxTime
  BY <1>2 DEF Times
<1>4. MaxTime - x \in T
  BY <1>1, <1>3
<1>5. PICK n \in T : \A m \in T : n <= m
  <2>1. T \in SUBSET Nat /\ T # {}
    BY <1>4
  <2> HIDE DEF T
  <2> QED
    <3>1. PICK n \in T : \A m \in T : ~(<<m, n>> \in OpToRel(<, Nat))
      BY <2>1, NatLessThanWellFounded, WFMin
    <3>2. \A m \in T : m < n => <<m, n>> \in OpToRel(<, Nat)
      BY <2>1 DEF OpToRel
    <3>3. \A m \in T : ~(m < n)
      BY <3>1, <3>2, Zenon
    <3> QED
      BY <2>1, <3>3
<1>6. ASSUME NEW y \in S PROVE y <= MaxTime - n
  <2>1. y \in 0..MaxTime
    BY DEF Times
  <2>2. MaxTime - y \in T
    BY <1>1, <2>1
  <2>3. n <= MaxTime - y /\ n \in Nat
    BY <1>5, <2>2
  <2> QED
    BY <1>1, <2>1, <2>3
<1>7. \E z \in S : \A y \in S : z >= y
  <2>1. MaxTime - n \in S /\ n \in Nat
    BY <1>5
  <2>2. \A y \in S : MaxTime - n >= y
    BY <1>1, <1>6, <2>1 DEF Times
  <2> QED
    BY <2>1, <2>2
<1>8. Max(S) \in S /\ \A y \in S : Max(S) >= y
  BY <1>7, Zenon DEF Max
<1>9. \A y \in S : y \in Int
  BY DEF Times
<1> QED
  BY <1>8, <1>9

LEMMA PartiesAre ==
    /\ \A p \in Parties : Other(p) \in Parties /\ Other(p) # p /\ Other(Other(p)) = p
    /\ \A p, q \in Parties : q = p \/ q = Other(p)
BY ThreadAssumption DEF Parties, Other

LEMMA IdleFits ==
    /\ NoTx \in TxState
    /\ NoTx.step = "idle" /\ NoTx.op = "read" /\ NoTx.msg = None
    /\ ~NoTx.marked /\ ~NoTx.cleared /\ ~NoTx.wrote
BY ThreadAssumption DEF NoTx, TxState, Steps, Parties, Times, Open

(* A step inside a transaction: nothing is committed, and at most more     *)
(* messages are known to have crossed a read.                              *)
LEMMA InsideKeeps ==
    ASSUME ThreadInv, NEW t \in Txs, NEW s \in TxState, Set(t, s),
           UNCHANGED <<now, data>>, raced \subseteq raced', raced' \subseteq Messages,
           TxFits(s, raced'),
           \A u \in Txs \ {t} : Apart(s, tx[u], raced') /\ Apart(tx[u], s, raced')
    PROVE  ThreadInv'
<1>1. /\ UNCHANGED <<now, closedAt, msgs, mark, key, n9>>
      /\ tx' = [tx EXCEPT ![t] = s] /\ tx \in [Txs -> TxState]
  BY DEF data, Set, ThreadInv, TypeOK
<1>2. \A u \in Txs : tx'[u] = IF u = t THEN s ELSE tx[u]
  BY <1>1
<1>3. TypeOK'
  <2>1. \A u, v \in Txs : u # v /\ tx'[u].marked /\ tx'[v].marked => tx'[u].who # tx'[v].who
    BY <1>2 DEF ThreadInv, TypeOK, Apart
  <2>2. tx' \in [Txs -> TxState]
    BY <1>1
  <2> QED
    BY <1>1, <2>1, <2>2 DEF ThreadInv, TypeOK
<1>4. DataFits'
  <2>1. \A p \in Parties : Unread(p)' = Unread(p)
    BY <1>1 DEF Unread, Posted
  <2>2. DataFits
    BY DEF ThreadInv
  <2> QED
    BY <1>1, <2>1, <2>2 DEF DataFits, WrittenInWindow, Posted
<1>5. ASSUME NEW u \in Txs PROVE TxFits(tx[u], raced)'
  <2>1. TxFits(tx'[u], raced')
    <3>1. CASE u = t
      BY <1>2, <3>1
    <3>2. CASE u # t
      <4>1. TxFits(tx[u], raced) /\ tx'[u] = tx[u]
        BY <1>2, <3>2 DEF ThreadInv
      <4>2. TxFits(tx[u], raced')
        BY <4>1 DEF TxFits
      <4> QED
        BY <4>1, <4>2
    <3> QED
      BY <3>1, <3>2
  <2> QED
    BY <1>1, <2>1 DEF TxFits, Posted
<1>6. ASSUME NEW u \in Txs, NEW v \in Txs, u # v PROVE Apart(tx[u], tx[v], raced)'
  <2>1. Apart(tx'[u], tx'[v], raced')
    <3>1. CASE u = t \/ v = t
      BY <1>2, <1>6, <3>1
    <3>2. CASE u # t /\ v # t
      <4>1. Apart(tx[u], tx[v], raced) /\ tx'[u] = tx[u] /\ tx'[v] = tx[v]
        BY <1>2, <1>6, <3>2 DEF ThreadInv
      <4>2. Apart(tx[u], tx[v], raced')
        BY <4>1 DEF Apart
      <4> QED
        BY <4>1, <4>2
    <3> QED
      BY <3>1, <3>2
  <2> QED
    BY <2>1 DEF Apart
<1> QED
  BY <1>3, <1>4, <1>5, <1>6 DEF ThreadInv

(* The steps up to the marker.                                             *)
LEMMA IdleKeeps ==
    ASSUME ThreadInv, NEW t \in Txs, Set(t, NoTx), UNCHANGED <<now, data, raced>>
    PROVE  ThreadInv'
<1>1. TxFits(NoTx, raced)
  BY IdleFits DEF TxFits, Chosen, Marked, Skips
<1>2. ASSUME NEW u \in Txs \ {t} PROVE Apart(NoTx, tx[u], raced) /\ Apart(tx[u], NoTx, raced)
  BY IdleFits DEF Apart, Skips
<1> QED
  BY <1>1, <1>2, IdleFits, InsideKeeps DEF ThreadInv, TypeOK

LEMMA BeginKeeps ==
    ASSUME ThreadInv, NEW t \in Txs, NEW p \in Parties, BeginPost(t, p) \/ BeginRead(t, p)
    PROVE  ThreadInv'
<1>1. PICK op \in {"post", "read"}, step \in {"rsv", "latest"} :
        /\ Set(t, [NoTx EXCEPT !.op = op, !.who = p, !.step = step])
        /\ UNCHANGED <<now, data, raced>>
  BY DEF BeginPost, BeginRead, Begin
<1>2. PICK n \in TxState : n = NoTx
  BY IdleFits
<1> DEFINE s == [n EXCEPT !.op = op, !.who = p, !.step = step]
<1>3. /\ s \in TxState /\ s.step = step /\ s.msg = None
      /\ ~s.marked /\ ~s.cleared /\ ~s.wrote
  BY <1>2, IdleFits DEF TxState, Steps
<1>4. Set(t, s)
  BY <1>1, <1>2
<1> HIDE DEF s
<1>5. TxFits(s, raced)
  BY <1>3 DEF TxFits, Chosen, Marked, Skips
<1>6. ASSUME NEW u \in Txs \ {t} PROVE Apart(s, tx[u], raced) /\ Apart(tx[u], s, raced)
  BY <1>3 DEF Apart, Skips
<1> QED
  BY <1>1, <1>3, <1>4, <1>5, <1>6, InsideKeeps DEF ThreadInv, TypeOK

LEMMA LoadThreadKeeps ==
    ASSUME ThreadInv, NEW t \in Txs, LoadThread(t) PROVE ThreadInv'
<1>1. PICK ping \in BOOLEAN :
        Set(t, [tx[t] EXCEPT !.step = "insert", !.closed = closedAt, !.ping = ping])
  BY DEF LoadThread
<1>2. tx[t].step = "rsv" /\ tx[t].op = "post" /\ UNCHANGED <<now, data, raced>>
  BY DEF LoadThread, At
<1> DEFINE s == [tx[t] EXCEPT !.step = "insert", !.closed = closedAt, !.ping = ping]
<1>3. /\ s \in TxState /\ s.step = "insert" /\ s.op = "post" /\ s.msg = tx[t].msg
      /\ s.closed = closedAt /\ s.who = tx[t].who
      /\ s.marked = tx[t].marked /\ s.cleared = tx[t].cleared /\ s.wrote = tx[t].wrote
  BY <1>2 DEF ThreadInv, TypeOK, TxState, Steps
<1> HIDE DEF s
<1>4. TxFits(tx[t], raced)
  BY DEF ThreadInv
<1>5. TxFits(s, raced)
  BY <1>2, <1>3, <1>4 DEF TxFits, Chosen, Marked, Skips
<1>6. ASSUME NEW u \in Txs \ {t} PROVE Apart(s, tx[u], raced) /\ Apart(tx[u], s, raced)
  <2>1. Apart(tx[t], tx[u], raced) /\ Apart(tx[u], tx[t], raced)
    BY DEF ThreadInv
  <2> QED
    BY <1>2, <1>3, <2>1 DEF Apart, Skips
<1> QED
  BY <1>1, <1>2, <1>3, <1>5, <1>6, InsideKeeps DEF s, ThreadInv, TypeOK

(* A message is written while the thread is open: the reservation cannot   *)
(* close under it, and the clock is after every message.                   *)
LEMMA InsertKeeps ==
    ASSUME ThreadInv, NEW t \in Txs, Insert(t) PROVE ThreadInv'
<1>1. tx[t].step = "insert" /\ tx[t].op = "post" /\ UNCHANGED <<now, data, raced>>
  BY DEF Insert, At
<1>2. CASE Set(t, NoTx)
  BY <1>1, <1>2, IdleKeeps
<1>3. CASE /\ Writable(tx[t].closed, now)
           /\ \E m \in Messages \ (Posted \cup Inserted) :
                Set(t, [tx[t] EXCEPT !.step = "mark", !.at = now, !.msg = m])
  <2>1. PICK m \in Messages \ (Posted \cup Inserted) :
          Set(t, [tx[t] EXCEPT !.step = "mark", !.at = now, !.msg = m])
    BY <1>3
  <2> DEFINE s == [tx[t] EXCEPT !.step = "mark", !.at = now, !.msg = m]
  <2>2. /\ s \in TxState /\ s.step = "mark" /\ s.op = "post" /\ s.msg = m /\ s.at = now
        /\ s.closed = tx[t].closed /\ s.who = tx[t].who
        /\ s.marked = tx[t].marked /\ s.cleared = tx[t].cleared /\ s.wrote = tx[t].wrote
    BY <1>1 DEF ThreadInv, TypeOK, TxState, Steps
  <2> HIDE DEF s
  <2>3. TxFits(tx[t], raced)
    BY DEF ThreadInv
  <2>4. TxFits(s, raced)
    BY <1>1, <1>3, <2>2, <2>3 DEF TxFits, Chosen, Marked, Skips, ThreadInv, DataFits, TypeOK, Times
  <2>5. ASSUME NEW u \in Txs \ {t} PROVE Apart(s, tx[u], raced) /\ Apart(tx[u], s, raced)
    <3>1. Apart(tx[t], tx[u], raced) /\ Apart(tx[u], tx[t], raced)
      BY DEF ThreadInv
    <3>2. tx[u].msg # m
      BY DEF Inserted
    <3> QED
      BY <1>1, <2>2, <2>3, <3>1, <3>2 DEF Apart, Skips, TxFits, Marked
  <2> QED
    BY <1>1, <2>1, <2>2, <2>4, <2>5, InsideKeeps DEF s, ThreadInv, TypeOK
<1> QED
  BY <1>2, <1>3 DEF Insert

(* The marker of a read is after every message it sees.                    *)
LEMMA LatestIs ==
    ASSUME ThreadInv
    PROVE  LatestAt \in Times /\ LatestAt <= now /\ \A m \in Posted : msgs[m].at <= LatestAt
<1> DEFINE S == {0, closedAt} \cup {msgs[m].at : m \in Posted}
           T == S \ {Open}
<1>1. MaxTime \in Nat /\ Open \notin Times /\ \A x \in Times : Open < x /\ x \in Int
  BY ThreadAssumption DEF Times, Open
<1>2. \A m \in Posted : msgs[m].at \in Times /\ msgs[m].at <= now
  BY DEF ThreadInv, TypeOK, DataFits, Posted
<1>3. closedAt \in Times \cup {Open} /\ closedAt <= now /\ now \in Times
  BY DEF ThreadInv, TypeOK, DataFits
<1>4. 0 \in Times /\ 0 <= now
  BY <1>1, <1>3 DEF Times
<1>5. T \in SUBSET Times /\ 0 \in T
  BY <1>1, <1>2, <1>3, <1>4
<1>6. \A x \in S : x \in T \/ x = Open
  OBVIOUS
<1>7. \A x \in T : x <= now
  BY <1>2, <1>3, <1>4
<1> HIDE DEF T
<1>8. Max(T) \in T /\ \A x \in T : x <= Max(T)
  BY <1>5, LatestTime
<1>9. \A x \in S : x <= Max(T)
  BY <1>1, <1>5, <1>6, <1>8
<1>10. T \subseteq S
  BY DEF T
<1> HIDE DEF S
<1>11. Max(S) \in S /\ \A x \in S : x <= Max(S)
  <2>1. \E x \in S : \A y \in S : x >= y
    <3>1. Max(T) \in S /\ \A y \in S : Max(T) >= y
      BY <1>1, <1>5, <1>6, <1>8, <1>9, <1>10
    <3> QED
      BY <3>1
  <2>2. Max(S) \in S /\ \A y \in S : Max(S) >= y
    BY <2>1, Zenon DEF Max
  <2>3. \A y \in S : y \in Int
    BY <1>1, <1>5, <1>6 DEF Open
  <2> QED
    BY <2>2, <2>3
<1>12. Max(S) \in T
  <2>1. 0 \in S
    BY <1>5, <1>10
  <2>2. 0 <= Max(S) /\ Open < 0
    BY <1>1, <1>4, <1>11, <2>1
  <2>3. Max(S) # Open
    BY <2>2 DEF Open
  <2> QED
    BY <1>6, <1>11, <2>3
<1>13. LatestAt = Max(S)
  BY DEF LatestAt, S
<1> QED
  BY <1>5, <1>7, <1>11, <1>12, <1>13 DEF S

LEMMA SelectLatestKeeps ==
    ASSUME ThreadInv, NEW t \in Txs, SelectLatest(t) PROVE ThreadInv'
<1>1. /\ tx[t].step = "latest" /\ tx[t].op = "read" /\ UNCHANGED <<now, data, raced>>
      /\ Set(t, [tx[t] EXCEPT !.step = "mark", !.at = LatestAt])
  BY DEF SelectLatest, At
<1>2. LatestAt \in Times /\ LatestAt <= now /\ \A m \in Posted : msgs[m].at <= LatestAt
  BY LatestIs
<1> DEFINE s == [tx[t] EXCEPT !.step = "mark", !.at = LatestAt]
<1>3. /\ s \in TxState /\ s.step = "mark" /\ s.op = "read" /\ s.msg = tx[t].msg
      /\ s.at = LatestAt /\ s.who = tx[t].who
      /\ s.marked = tx[t].marked /\ s.cleared = tx[t].cleared /\ s.wrote = tx[t].wrote
  BY <1>1, <1>2 DEF ThreadInv, TypeOK, TxState, Steps
<1> HIDE DEF s
<1>4. TxFits(tx[t], raced)
  BY DEF ThreadInv
<1>5. TxFits(s, raced)
  BY <1>1, <1>2, <1>3, <1>4 DEF TxFits, Chosen, Marked, Skips
<1>6. ASSUME NEW u \in Txs \ {t} PROVE Apart(s, tx[u], raced) /\ Apart(tx[u], s, raced)
  <2>1. Apart(tx[t], tx[u], raced) /\ Apart(tx[u], tx[t], raced)
    BY DEF ThreadInv
  <2> QED
    BY <1>1, <1>3, <2>1 DEF Apart, Skips
<1> QED
  BY <1>1, <1>3, <1>5, <1>6, InsideKeeps DEF s, ThreadInv, TypeOK

(* The marker's row is locked: one transaction of a party has it.          *)
LEMMA MarkReadKeeps ==
    ASSUME ThreadInv, NEW t \in Txs, MarkRead(t) PROVE ThreadInv'
<1>1. /\ tx[t].step = "mark" /\ UNCHANGED <<now, data, raced>>
      /\ Set(t, [tx[t] EXCEPT !.step = "clear", !.marked = TRUE])
      /\ \A u \in Others(t, tx[t].who) : ~tx[u].marked
  BY DEF MarkRead
<1> DEFINE s == [tx[t] EXCEPT !.step = "clear", !.marked = TRUE]
<1>3. /\ s \in TxState /\ s.step = "clear" /\ s.op = tx[t].op /\ s.msg = tx[t].msg
      /\ s.at = tx[t].at /\ s.who = tx[t].who /\ s.closed = tx[t].closed
      /\ s.marked /\ s.cleared = tx[t].cleared /\ s.wrote = tx[t].wrote
  BY <1>1 DEF ThreadInv, TypeOK, TxState, Steps
<1> HIDE DEF s
<1>4. TxFits(tx[t], raced)
  BY DEF ThreadInv
<1>5. TxFits(s, raced)
  BY <1>1, <1>3, <1>4 DEF TxFits, Chosen, Marked, Skips
<1>6. ASSUME NEW u \in Txs \ {t} PROVE Apart(s, tx[u], raced) /\ Apart(tx[u], s, raced)
  <2>1. Apart(tx[t], tx[u], raced) /\ Apart(tx[u], tx[t], raced) /\ TxFits(tx[u], raced)
    BY DEF ThreadInv
  <2>2. tx[u].marked => tx[u].who # tx[t].who
    <3>1. tx[u].marked => tx[u].step # "idle"
      BY <2>1 DEF TxFits, Marked
    <3> QED
      BY <1>1, <3>1 DEF Others, Free
  <2> QED
    BY <1>1, <1>3, <2>1, <2>2 DEF Apart, Skips
<1> QED
  BY <1>1, <1>3, <1>5, <1>6, InsideKeeps DEF s, ThreadInv, TypeOK

(* The key is cleared: what had skipped for it crossed this read.          *)
LEMMA ClearKeyKeeps ==
    ASSUME ThreadInv, NEW t \in Txs, ClearKey(t) PROVE ThreadInv'
<1> DEFINE p == tx[t].who
           next == IF tx[t].op = "post" THEN "enqueue" ELSE "commit"
           s == [tx[t] EXCEPT !.step = next, !.cleared = key[p]]
<1>1. /\ tx[t].step = "clear" /\ UNCHANGED <<now, data>> /\ Set(t, s)
      /\ raced' = IF key[p] THEN raced \cup Skipped(p) ELSE raced
  BY DEF ClearKey
<1>2. p \in Parties /\ tx[t].op \in {"post", "read"} /\ key[p] \in BOOLEAN /\ tx[t] \in TxState
  BY DEF ThreadInv, TypeOK, TxState
<1>3. /\ s \in TxState /\ s.step = next /\ s.op = tx[t].op /\ s.msg = tx[t].msg
      /\ s.at = tx[t].at /\ s.who = p /\ s.closed = tx[t].closed
      /\ s.marked = tx[t].marked /\ s.cleared = key[p] /\ s.wrote = tx[t].wrote
  BY <1>2 DEF TxState, Steps
<1>4. next \in {"enqueue", "commit"} /\ (next = "commit" => tx[t].op = "read")
  BY <1>2
<1>5. TxFits(tx[t], raced)
  BY DEF ThreadInv
<1>6. raced \subseteq raced' /\ raced' \subseteq Messages
  <2>1. ASSUME NEW v \in Txs, At(v, "post", "commit") PROVE tx[v].msg \in Messages
    BY <2>1 DEF ThreadInv, TxFits, Chosen, Marked, At
  <2>2. Skipped(p) \subseteq Messages
    BY <2>1 DEF Skipped
  <2> QED
    BY <1>1, <2>2 DEF ThreadInv, TypeOK
<1> HIDE DEF s, next
<1>7. TxFits(s, raced')
  BY <1>1, <1>3, <1>4, <1>5, <1>6 DEF TxFits, Chosen, Marked, Skips
<1>8. ASSUME NEW u \in Txs \ {t} PROVE Apart(s, tx[u], raced') /\ Apart(tx[u], s, raced')
  <2>1. Apart(tx[t], tx[u], raced) /\ Apart(tx[u], tx[t], raced) /\ TxFits(tx[u], raced)
    BY DEF ThreadInv
  <2>2. Apart(s, tx[u], raced')
    BY <1>1, <1>3, <1>4, <1>6, <2>1 DEF Apart, Skips
  <2>3. ASSUME Skips(tx[u]), tx[u].msg \notin raced', p = Other(tx[u].who)
        PROVE  ~key[p]
    <3>1. tx[u].msg \notin raced
      BY <1>6, <2>3
    <3>2. tx[u].who \in Parties /\ tx[u].who = Other(p)
      BY <2>3, PartiesAre DEF ThreadInv, TypeOK, TxState
    <3>3. u \in {v \in Txs : At(v, "post", "commit") /\ tx[v].who = Other(p)
                                /\ tx[v].ping /\ ~tx[v].wrote}
      BY <2>3, <3>2 DEF Skips, At
    <3>4. tx[u].msg \in Skipped(p)
      BY <3>3 DEF Skipped
    <3> QED
      BY <1>1, <2>3, <3>4
  <2>4. Apart(tx[u], s, raced')
    BY <1>3, <1>6, <2>1, <2>3 DEF Apart
  <2> QED
    BY <2>2, <2>4
<1> QED
  BY <1>1, <1>3, <1>6, <1>7, <1>8, InsideKeeps

(* The N9 is written for a free key, or skipped for one that stays held.   *)
LEMMA EnqueueKeeps ==
    ASSUME ThreadInv, NEW t \in Txs, Enqueue(t) PROVE ThreadInv'
<1> DEFINE to == Other(tx[t].who)
           w == tx[t].ping /\ ~key[to]
           s == [tx[t] EXCEPT !.step = "commit", !.wrote = w]
<1>1. /\ tx[t].step = "enqueue" /\ tx[t].op = "post" /\ UNCHANGED <<now, data, raced>>
      /\ Set(t, s)
      /\ tx[t].ping => \A u \in Others(t, to) : ~tx[u].cleared
  BY DEF Enqueue, At, KeySettled
<1>2. tx[t] \in TxState /\ w \in BOOLEAN
  BY DEF ThreadInv, TypeOK, TxState
<1>3. /\ s \in TxState /\ s.step = "commit" /\ s.op = "post" /\ s.msg = tx[t].msg
      /\ s.at = tx[t].at /\ s.who = tx[t].who /\ s.closed = tx[t].closed
      /\ s.marked = tx[t].marked /\ s.cleared = tx[t].cleared /\ s.wrote = w
      /\ s.ping = tx[t].ping
  BY <1>1, <1>2 DEF TxState, Steps
<1> HIDE DEF s
<1>4. TxFits(tx[t], raced)
  BY DEF ThreadInv
<1>5. TxFits(s, raced)
  BY <1>1, <1>3, <1>4 DEF TxFits, Chosen, Marked, Skips
<1>6. ASSUME NEW u \in Txs \ {t} PROVE Apart(s, tx[u], raced) /\ Apart(tx[u], s, raced)
  <2>1. Apart(tx[t], tx[u], raced) /\ Apart(tx[u], tx[t], raced) /\ TxFits(tx[u], raced)
    BY DEF ThreadInv
  <2>2. tx[t].ping /\ tx[u].who = to => ~tx[u].cleared
    <3>1. tx[u].cleared => tx[u].step # "idle"
      BY <2>1 DEF TxFits, Marked
    <3> QED
      BY <1>1, <3>1 DEF Others, Free
  <2>3. Apart(s, tx[u], raced)
    BY <1>3, <2>1, <2>2 DEF Apart, Skips
  <2>4. Apart(tx[u], s, raced)
    BY <1>3, <2>1 DEF Apart
  <2> QED
    BY <2>3, <2>4
<1> QED
  BY <1>1, <1>3, <1>5, <1>6, InsideKeeps DEF ThreadInv, TypeOK

-----------------------------------------------------------------------------
(* The commits.  Who commits holds a marker that is after every message of *)
(* the other party's, but for those that crossed the read: nothing is left *)
(* for them to be told of.                                                 *)

(* What a commit leaves of the others, when it has not lost their keys.    *)
LEMMA EndKeeps ==
    ASSUME ThreadInv, NEW t \in Txs, Set(t, NoTx), TypeOK', DataFits', raced \subseteq raced',
           \A u \in Txs \ {t} : TxFits(tx[u], raced)'
    PROVE  ThreadInv'
<1>1. tx' = [tx EXCEPT ![t] = NoTx] /\ tx \in [Txs -> TxState]
  BY DEF Set, ThreadInv, TypeOK
<1>2. \A u \in Txs : tx'[u] = IF u = t THEN NoTx ELSE tx[u]
  BY <1>1
<1>3. TxFits(tx[t], raced)'
  BY <1>2, IdleFits DEF TxFits, Chosen, Marked, Skips
<1>4. ASSUME NEW u \in Txs, NEW v \in Txs, u # v PROVE Apart(tx[u], tx[v], raced)'
  <2>1. Apart(tx'[u], tx'[v], raced')
    <3>1. CASE u = t \/ v = t
      BY <1>2, <3>1, <1>4, IdleFits DEF Apart, Skips
    <3>2. CASE u # t /\ v # t
      <4>1. Apart(tx[u], tx[v], raced) /\ tx'[u] = tx[u] /\ tx'[v] = tx[v]
        BY <1>2, <1>4, <3>2 DEF ThreadInv
      <4>2. Apart(tx[u], tx[v], raced')
        BY <4>1 DEF Apart
      <4> QED
        BY <4>1, <4>2
    <3> QED
      BY <3>1, <3>2
  <2> QED
    BY <2>1 DEF Apart
<1> QED
  BY <1>3, <1>4 DEF ThreadInv

LEMMA CommitReadKeeps ==
    ASSUME ThreadInv, NEW t \in Txs, CommitRead(t) PROVE ThreadInv'
<1> DEFINE p == tx[t].who
<1>1. /\ tx[t].op = "read" /\ tx[t].step = "commit" /\ Set(t, NoTx)
      /\ mark' = [mark EXCEPT ![p] = tx[t].at]
      /\ key' = [key EXCEPT ![p] = key[p] /\ ~tx[t].cleared]
      /\ UNCHANGED <<now, closedAt, msgs, n9, raced>>
  BY DEF CommitRead, At
<1>2. p \in Parties /\ tx[t].at \in Times /\ tx[t].cleared \in BOOLEAN
  BY DEF ThreadInv, TypeOK, TxState
<1>3. TxFits(tx[t], raced)
  BY DEF ThreadInv
<1>4. \A u \in Txs : tx'[u] = IF u = t THEN NoTx ELSE tx[u]
  BY <1>1 DEF Set, ThreadInv, TypeOK
<1>5. \A q \in Parties : /\ mark'[q] = IF q = p THEN tx[t].at ELSE mark[q]
                         /\ key'[q] <=> key[q] /\ (q = p => ~tx[t].cleared)
  BY <1>1, <1>2 DEF ThreadInv, TypeOK
<1>6. TypeOK'
  <2>1. tx' \in [Txs -> TxState]
    BY <1>1, IdleFits DEF Set, ThreadInv, TypeOK
  <2>2. \A u, v \in Txs : u # v /\ tx'[u].marked /\ tx'[v].marked => tx'[u].who # tx'[v].who
    BY <1>4, IdleFits DEF ThreadInv, TypeOK
  <2>3. mark' \in [Parties -> Times \cup {-1}] /\ key' \in [Parties -> BOOLEAN]
    BY <1>1, <1>2 DEF ThreadInv, TypeOK
  <2>4. \A q \in Parties : key'[q] => n9'[q] # {}
    BY <1>1, <1>5 DEF ThreadInv, TypeOK
  <2> QED
    BY <1>1, <2>1, <2>2, <2>3, <2>4 DEF ThreadInv, TypeOK
<1>7. DataFits'
  <2>1. Posted' = Posted
    BY <1>1 DEF Posted
  <2>2. ASSUME NEW q \in Parties, q = p PROVE Unread(q)' \ raced = {}
    <3>1. ASSUME NEW m \in Posted \ raced, msgs[m].from = Other(q) PROVE ~(msgs[m].at > tx[t].at)
      <4>1. tx[t].step \in Chosen
        BY <1>1 DEF Chosen, Marked
      <4>2. msgs[m].at <= tx[t].at
        BY <1>3, <2>2, <3>1, <4>1 DEF TxFits
      <4>3. msgs[m].at \in Times
        BY DEF ThreadInv, TypeOK, Posted
      <4> QED
        BY <1>2, <4>2, <4>3 DEF Times
    <3>2. Unread(q)' = {m \in Posted : msgs[m].from = Other(q) /\ msgs[m].at > tx[t].at}
      BY <1>1, <1>5, <2>1, <2>2 DEF Unread, Other
    <3> QED
      BY <3>1, <3>2
  <2>3. ASSUME NEW q \in Parties, q # p PROVE Unread(q)' = Unread(q)
    BY <1>1, <1>5, <2>1, <2>3 DEF Unread, Other
  <2>4. ASSUME NEW q \in Parties
        PROVE  /\ n9'[q] \subseteq Posted'
               /\ \A m \in Unread(q)' \ raced' : m \in n9'[q] \/ msgs'[m].ping => key'[q]
               /\ \A m, n \in (n9'[q] \cap Unread(q)') \ raced' : m = n
    <3>1. CASE q = p
      BY <1>1, <2>1, <2>2, <3>1 DEF ThreadInv, DataFits
    <3>2. CASE q # p
      BY <1>1, <1>5, <2>1, <2>3, <3>2 DEF ThreadInv, DataFits
    <3> QED
      BY <3>1, <3>2
  <2> QED
    BY <1>1, <2>1, <2>4 DEF ThreadInv, DataFits, WrittenInWindow, Writable
<1>8. ASSUME NEW u \in Txs \ {t} PROVE TxFits(tx[u], raced)'
  <2>1. TxFits(tx[u], raced) /\ Apart(tx[u], tx[t], raced) /\ tx[u] \in TxState
    BY DEF ThreadInv, TypeOK
  <2>2. Other(tx[u].who) \in Parties
    BY <2>1, PartiesAre DEF TxState
  <2>3. Skips(tx[u]) /\ tx[u].msg \notin raced => key'[Other(tx[u].who)]
    BY <1>5, <2>1, <2>2 DEF TxFits, Apart
  <2>4. tx[u].wrote => ~key'[Other(tx[u].who)]
    BY <1>5, <2>1, <2>2 DEF TxFits
  <2>5. tx'[u] = tx[u]
    BY <1>4
  <2> QED
    BY <1>1, <2>1, <2>3, <2>4, <2>5 DEF TxFits, Posted, Writable, Skips, Chosen, Marked, Other
<1> QED
  BY <1>1, <1>6, <1>7, <1>8, EndKeeps

(* The message becomes unread for the other party: with an N9 if one was   *)
(* written, and then no other is open; without one if their key is held.   *)
LEMMA CommitPostKeeps ==
    ASSUME ThreadInv, NEW t \in Txs, CommitPost(t) PROVE ThreadInv'
<1> DEFINE p == tx[t].who
           to == Other(p)
<1>0. PICK m : m = tx[t].msg
  OBVIOUS
<1>1. /\ tx[t].op = "post" /\ tx[t].step = "commit" /\ Set(t, NoTx)
      /\ msgs' = [msgs EXCEPT ![m] = [from |-> p, at |-> tx[t].at, ping |-> tx[t].ping]]
      /\ mark' = [mark EXCEPT ![p] = tx[t].at]
      /\ key' = [q \in Parties |-> IF q = p THEN key[q] /\ ~tx[t].cleared
                                   ELSE key[q] \/ tx[t].wrote]
      /\ n9' = [n9 EXCEPT ![to] = IF tx[t].wrote THEN n9[to] \cup {m} ELSE n9[to]]
      /\ raced' = IF Choosing(to) # {} THEN raced \cup {m} ELSE raced
      /\ UNCHANGED <<now, closedAt>>
  BY <1>0 DEF CommitPost, At
<1>2. /\ p \in Parties /\ tx[t].at \in Times /\ tx[t].cleared \in BOOLEAN
      /\ tx[t].wrote \in BOOLEAN /\ tx[t].ping \in BOOLEAN
  BY DEF ThreadInv, TypeOK, TxState
<1>3. to \in Parties /\ to # p /\ Other(to) = p /\ \A q \in Parties : q = p \/ q = to
  BY <1>2, PartiesAre
<1>4. TxFits(tx[t], raced) /\ tx[t].step \in Chosen /\ tx[t].marked
  BY <1>1 DEF ThreadInv, TxFits, Chosen, Marked
<1>5. m \in Messages \ Posted /\ Writable(closedAt, tx[t].at) /\ tx[t].at <= now
  BY <1>0, <1>1, <1>4 DEF TxFits
<1>6. \A u \in Txs : tx'[u] = IF u = t THEN NoTx ELSE tx[u]
  BY <1>1 DEF Set, ThreadInv, TypeOK
<1>7. \A q \in Parties :
        /\ mark'[q] = IF q = p THEN tx[t].at ELSE mark[q]
        /\ key'[q] <=> IF q = p THEN key[q] /\ ~tx[t].cleared ELSE key[q] \/ tx[t].wrote
        /\ n9'[q] = IF q = to /\ tx[t].wrote THEN n9[q] \cup {m} ELSE n9[q]
  BY <1>1, <1>2, <1>3 DEF ThreadInv, TypeOK
<1>7a. \A q \in Parties :
         /\ n9[q] \subseteq n9'[q] /\ n9'[q] \subseteq n9[q] \cup {m}
         /\ q = to /\ tx[t].wrote => m \in n9'[q]
  BY <1>7
<1>8. /\ Posted' = Posted \cup {m}
      /\ msgs'[m].from = p /\ msgs'[m].at = tx[t].at /\ msgs'[m].ping = tx[t].ping
      /\ \A n \in Posted : n # m /\ msgs'[n] = msgs[n]
  <2> DEFINE row == [from |-> p, at |-> tx[t].at, ping |-> tx[t].ping]
  <2>1. row # None
    BY <1>2, ThreadAssumption DEF Parties, Times
  <2>2. msgs'[m] = row /\ \A n \in Messages \ {m} : msgs'[n] = msgs[n]
    BY <1>1, <1>5 DEF ThreadInv, TypeOK
  <2>3. row.from = p /\ row.at = tx[t].at /\ row.ping = tx[t].ping
    OBVIOUS
  <2> HIDE DEF row
  <2> QED
    BY <1>5, <2>1, <2>2, <2>3 DEF Posted
<1>9. raced \subseteq raced' /\ raced' \subseteq raced \cup {m}
  BY <1>1
<1>10. TypeOK'
  <2>1. tx' \in [Txs -> TxState]
    BY <1>1, IdleFits DEF Set, ThreadInv, TypeOK
  <2>2. \A u, v \in Txs : u # v /\ tx'[u].marked /\ tx'[v].marked => tx'[u].who # tx'[v].who
    BY <1>6, IdleFits DEF ThreadInv, TypeOK
  <2>3. mark' \in [Parties -> Times \cup {-1}] /\ key' \in [Parties -> BOOLEAN]
    BY <1>1, <1>2 DEF ThreadInv, TypeOK
  <2>4. n9' \in [Parties -> SUBSET Messages]
    BY <1>1, <1>3, <1>5 DEF ThreadInv, TypeOK
  <2>5. msgs' \in [Messages -> [from : Parties, at : Times, ping : BOOLEAN] \cup {None}]
    BY <1>1, <1>2, <1>5 DEF ThreadInv, TypeOK
  <2>6. ASSUME NEW q \in Parties, key'[q] PROVE n9'[q] # {}
    <3>1. key[q] \/ (q = to /\ tx[t].wrote)
      BY <1>3, <1>7, <2>6
    <3>2. key[q] => n9[q] # {}
      BY Zenon DEF ThreadInv, TypeOK
    <3> QED
      BY <1>7a, <3>1, <3>2
  <2>7. raced' \subseteq Messages
    BY <1>5, <1>9 DEF ThreadInv, TypeOK
  <2> QED
    BY <1>1, <2>1, <2>2, <2>3, <2>4, <2>5, <2>6, <2>7 DEF ThreadInv, TypeOK
<1>11. ASSUME NEW q \in Parties
       PROVE  /\ n9'[q] \subseteq Posted'
              /\ \A n \in Unread(q)' \ raced' : n \in n9'[q] \/ msgs'[n].ping => key'[q]
              /\ \A n, o \in (n9'[q] \cap Unread(q)') \ raced' : n = o
  <2>1. n9'[q] \subseteq Posted'
    <3>1. n9[q] \subseteq Posted
      BY DEF ThreadInv, DataFits
    <3> QED
      BY <1>8, <1>7a, <3>1
  <2>2. Unread(q)' = {n \in Posted' : msgs'[n].from = Other(q) /\ msgs'[n].at > mark'[q]}
    BY DEF Unread, Other
  <2>3. CASE q = p
    <3>1. ASSUME NEW n \in Unread(q)', n \notin raced' PROVE FALSE
      <4>1. n \in Posted' /\ msgs'[n].from = to /\ msgs'[n].at > tx[t].at
        BY <1>7, <2>2, <2>3, <3>1
      <4>2. n \in Posted /\ msgs[n].from = to /\ msgs[n].at > tx[t].at
        BY <1>3, <1>8, <4>1
      <4>3. msgs[n].at <= tx[t].at
        BY <1>4, <1>9, <3>1, <4>2 DEF TxFits
      <4>4. msgs[n].at \in Times
        BY <4>2 DEF ThreadInv, TypeOK, Posted
      <4> QED
        BY <1>2, <4>2, <4>3, <4>4 DEF Times
    <3> QED
      BY <2>1, <3>1
  <2>4. CASE q = to
    <3>1. ASSUME NEW n \in Unread(q)', n # m
          PROVE  n \in Unread(q) /\ msgs'[n] = msgs[n] /\ (n \in n9'[q] <=> n \in n9[q])
      <4>1. n \in Posted /\ msgs'[n] = msgs[n]
        BY <1>8, <2>2, <3>1
      <4>2. n \in Unread(q)
        BY <1>3, <1>7, <2>2, <2>4, <4>1 DEF Unread
      <4>3. n \in n9'[q] <=> n \in n9[q]
        BY <1>7a, <3>1
      <4> QED
        BY <4>1, <4>2, <4>3
    <3>2. m \in n9'[q] <=> tx[t].wrote
      BY <1>5, <1>7, <2>4 DEF ThreadInv, DataFits
    <3>3. tx[t].wrote => ~key[q]
      BY <1>4, <2>4 DEF TxFits
    <3>4. ASSUME NEW n \in Unread(q)' \ raced', n \in n9'[q] \/ msgs'[n].ping PROVE key'[q]
      <4>1. CASE n = m
        <5>1. tx[t].ping \/ tx[t].wrote
          BY <1>8, <3>2, <3>4, <4>1
        <5>2. ~tx[t].wrote => key[q]
          <6>1. ~tx[t].wrote => Skips(tx[t]) /\ tx[t].msg \notin raced
            BY <1>0, <1>1, <1>9, <3>4, <4>1, <5>1 DEF Skips
          <6> QED
            BY <1>4, <2>4, <6>1 DEF TxFits
        <5> QED
          BY <1>3, <1>7, <2>4, <5>2
      <4>2. CASE n # m
        <5>1. n \in Unread(q) \ raced /\ (n \in n9[q] \/ msgs[n].ping)
          BY <1>9, <3>1, <3>4, <4>2
        <5>2. key[q]
          BY <5>1 DEF ThreadInv, DataFits
        <5> QED
          BY <1>3, <1>7, <2>4, <5>2
      <4> QED
        BY <4>1, <4>2
    <3>5. ASSUME NEW n \in (n9'[q] \cap Unread(q)') \ raced', n # m PROVE key[q] /\ ~tx[t].wrote
      <4>1. n \in n9[q] /\ n \in Unread(q) \ raced
        BY <1>9, <3>1, <3>5
      <4> QED
        BY <3>3, <4>1 DEF ThreadInv, DataFits
    <3>6. ASSUME NEW n \in (n9'[q] \cap Unread(q)') \ raced',
                 NEW o \in (n9'[q] \cap Unread(q)') \ raced'
          PROVE  n = o
      <4>1. CASE n = m \/ o = m
        BY <3>2, <3>5, <3>6, <4>1
      <4>2. CASE n # m /\ o # m
        <5>1. n \in (n9[q] \cap Unread(q)) \ raced /\ o \in (n9[q] \cap Unread(q)) \ raced
          BY <1>9, <3>1, <3>6, <4>2
        <5> QED
          BY <5>1 DEF ThreadInv, DataFits
      <4> QED
        BY <4>1, <4>2
    <3> QED
      BY <2>1, <3>4, <3>6
  <2> QED
    BY <1>3, <2>3, <2>4
<1>12. DataFits'
  <2>1. \A n \in Posted' : msgs'[n].at <= now
    BY <1>5, <1>8 DEF ThreadInv, DataFits
  <2>2. \A n \in Posted' : msgs'[n].at <= closedAt \/ Writable(closedAt, msgs'[n].at)
    BY <1>5, <1>8 DEF ThreadInv, DataFits, WrittenInWindow
  <2>3. WrittenInWindow'
    BY <1>1, <2>2 DEF WrittenInWindow, Writable
  <2>4. closedAt' <= now' /\ \A n \in Posted' : msgs'[n].at <= now'
    BY <1>1, <2>1 DEF ThreadInv, DataFits
  <2> QED
    BY <1>11, <2>3, <2>4 DEF DataFits
<1>13. ASSUME NEW u \in Txs \ {t} PROVE TxFits(tx[u], raced)'
  <2>1. /\ TxFits(tx[u], raced) /\ tx[u] \in TxState
        /\ Apart(tx[u], tx[t], raced) /\ Apart(tx[t], tx[u], raced)
    BY DEF ThreadInv, TypeOK
  <2>2. tx[u].who \in Parties /\ Other(tx[u].who) \in Parties /\ Other(tx[u].who) # tx[u].who
    BY <2>1, PartiesAre DEF TxState
  <2>3. tx'[u] = tx[u]
    BY <1>6
  <2>4. tx[u].msg # m
    BY <1>0, <1>5, <2>1, ThreadAssumption DEF Apart
  <2>5. tx[u].step \in Chosen =>
          \A n \in Posted' \ raced' : msgs'[n].from = Other(tx[u].who) => msgs'[n].at <= tx[u].at
    <3> SUFFICES ASSUME tx[u].step \in Chosen, NEW n \in Posted' \ raced',
                        msgs'[n].from = Other(tx[u].who)
                 PROVE  msgs'[n].at <= tx[u].at
      OBVIOUS
    <3>1. n # m
      <4>1. SUFFICES ASSUME n = m PROVE FALSE
        OBVIOUS
      <4>2. tx[u].who = to
        BY <1>3, <1>8, <2>2, <4>1
      <4>3. u \in Choosing(to)
        BY <4>2 DEF Choosing, Chosen, Marked
      <4> QED
        BY <1>1, <4>1, <4>3
    <3>2. n \in Posted \ raced /\ msgs'[n] = msgs[n]
      BY <1>8, <1>9, <3>1
    <3> QED
      BY <2>1, <3>2 DEF TxFits
  <2>6. Skips(tx[u]) /\ tx[u].msg \notin raced' => key'[Other(tx[u].who)]
    <3>1. Skips(tx[u]) /\ tx[u].msg \notin raced' =>
            key[Other(tx[u].who)] /\ (p = Other(tx[u].who) => ~tx[t].cleared)
      BY <1>9, <2>1 DEF TxFits, Apart
    <3> QED
      BY <1>7, <2>2, <3>1
  <2>7. tx[u].wrote => ~key'[Other(tx[u].who)]
    <3> SUFFICES ASSUME tx[u].wrote PROVE ~key'[Other(tx[u].who)]
      OBVIOUS
    <3>1. ~key[Other(tx[u].who)] /\ tx[u].marked
      BY <2>1 DEF TxFits, Marked
    <3>2. tx[u].who # p
      BY <1>4, <2>1, <3>1 DEF Apart
    <3>3. Other(tx[u].who) = p
      BY <1>3, <2>2, <3>2
    <3> QED
      BY <1>2, <1>7, <3>1, <3>3
  <2> QED
    BY <1>1, <1>8, <2>1, <2>3, <2>4, <2>5, <2>6, <2>7
    DEF TxFits, Writable, Skips, Chosen, Marked, Other
<1> QED
  BY <1>1, <1>9, <1>10, <1>12, <1>13, EndKeeps

-----------------------------------------------------------------------------
(* Around the thread: it closes under no message that is being written,    *)
(* and after all that were.                                                *)
LEMMA AroundKeeps ==
    ASSUME ThreadInv, UNCHANGED <<msgs, mark, key, n9, tx, raced>>, TypeOK',
           closedAt' <= now', now <= now', WrittenInWindow',
           \A t \in Txs : TxFits(tx[t], raced)'
    PROVE  ThreadInv'
<1>1. \A p \in Parties : Unread(p)' = Unread(p)
  BY DEF Unread, Posted
<1>2. now \in Int /\ now' \in Int /\ \A m \in Posted : msgs[m].at \in Int
  BY DEF ThreadInv, TypeOK, Posted, Times
<1>3. \A m \in Posted' : msgs'[m].at <= now'
  BY <1>2 DEF ThreadInv, DataFits, Posted
<1>4. DataFits'
  BY <1>1, <1>3 DEF ThreadInv, DataFits, Posted
<1>5. \A t, u \in Txs : t # u => Apart(tx[t], tx[u], raced)'
  BY DEF ThreadInv, Apart, Skips
<1> QED
  BY <1>4, <1>5 DEF ThreadInv

LEMMA CloseKeeps ==
    ASSUME ThreadInv, Close PROVE ThreadInv'
<1>1. /\ closedAt = Open /\ closedAt' = now /\ UNCHANGED <<now, msgs, mark, key, n9, tx, raced>>
      /\ \A t \in Txs : tx[t].op = "read" \/ tx[t].step \in {"idle", "rsv"}
  BY DEF Close
<1>2. TypeOK'
  BY <1>1 DEF ThreadInv, TypeOK
<1>3. now \in Int
  BY DEF ThreadInv, TypeOK, Times
<1>4. WrittenInWindow'
  BY <1>1 DEF ThreadInv, DataFits, WrittenInWindow, Posted
<1>5. ASSUME NEW t \in Txs PROVE TxFits(tx[t], raced)'
  <2>1. TxFits(tx[t], raced) /\ (tx[t].op = "read" \/ tx[t].step \in {"idle", "rsv"})
    BY <1>1 DEF ThreadInv
  <2> QED
    BY <1>1, <2>1 DEF TxFits, Chosen, Marked, Posted, Skips, Other
<1> QED
  BY <1>1, <1>2, <1>3, <1>4, <1>5, AroundKeeps

LEMMA TickKeeps ==
    ASSUME ThreadInv, Tick PROVE ThreadInv'
<1>1. now < MaxTime /\ now' = now + 1 /\ UNCHANGED <<closedAt, msgs, mark, key, n9, tx, raced>>
  BY DEF Tick, data
<1>2. now' \in Times /\ now \in Int /\ now <= now'
  BY <1>1, ThreadAssumption DEF ThreadInv, TypeOK, Times
<1>3. TypeOK'
  BY <1>1, <1>2 DEF ThreadInv, TypeOK
<1>4. closedAt \in Int /\ closedAt <= now
  BY DEF ThreadInv, TypeOK, DataFits, Times, Open
<1>5. WrittenInWindow'
  BY <1>1 DEF ThreadInv, DataFits, WrittenInWindow, Posted, Writable
<1>6. ASSUME NEW t \in Txs PROVE TxFits(tx[t], raced)'
  <2>1. TxFits(tx[t], raced) /\ tx[t].at \in Int
    BY DEF ThreadInv, TypeOK, TxState, Times
  <2> QED
    BY <1>1, <1>2, <2>1 DEF TxFits, Posted, Writable, Skips, Other
<1> QED
  BY <1>1, <1>2, <1>3, <1>4, <1>5, <1>6, AroundKeeps

LEMMA InitThreads == Init => ThreadInv
<1> SUFFICES ASSUME Init PROVE ThreadInv
  OBVIOUS
<1>1. Posted = {} /\ 0 \in Times /\ Open <= 0 /\ \A p \in Parties : Unread(p) = {}
  BY ThreadAssumption DEF Init, Posted, Unread, Times, Open
<1>2. TypeOK
  BY <1>1, IdleFits DEF Init, TypeOK
<1>3. DataFits
  BY <1>1 DEF Init, DataFits, WrittenInWindow
<1>4. \A t \in Txs : TxFits(tx[t], raced)
  BY IdleFits DEF Init, TxFits, Chosen, Marked, Skips
<1>5. \A t, u \in Txs : Apart(tx[t], tx[u], raced)
  BY IdleFits DEF Init, Apart, Skips
<1> QED
  BY <1>2, <1>3, <1>4, <1>5 DEF ThreadInv

LEMMA NextThreads == ThreadInv /\ [Next]_vars => ThreadInv'
<1> SUFFICES ASSUME ThreadInv, [Next]_vars PROVE ThreadInv'
  OBVIOUS
<1>1. ASSUME NEW t \in Txs, NEW p \in Parties, BeginPost(t, p) \/ BeginRead(t, p) PROVE ThreadInv'
  BY <1>1, BeginKeeps
<1>2. ASSUME NEW t \in Txs, LoadThread(t) \/ Insert(t) \/ SelectLatest(t) PROVE ThreadInv'
  BY <1>2, LoadThreadKeeps, InsertKeeps, SelectLatestKeeps
<1>3. ASSUME NEW t \in Txs, MarkRead(t) \/ ClearKey(t) \/ Enqueue(t) PROVE ThreadInv'
  BY <1>3, MarkReadKeeps, ClearKeyKeeps, EnqueueKeeps
<1>4. ASSUME NEW t \in Txs, CommitPost(t) \/ CommitRead(t) PROVE ThreadInv'
  BY <1>4, CommitPostKeeps, CommitReadKeeps
<1>5. ASSUME NEW t \in Txs, Rollback(t) PROVE ThreadInv'
  BY <1>5, IdleKeeps DEF Rollback
<1>6. CASE Close
  BY <1>6, CloseKeeps
<1>7. CASE Tick
  BY <1>7, TickKeeps
<1>8. CASE UNCHANGED vars
  BY <1>8 DEF vars, data, ThreadInv, TypeOK, DataFits, WrittenInWindow, Posted, Unread, Writable,
              TxFits, Apart, Skips, Other
<1> QED
  BY <1>1, <1>2, <1>3, <1>4, <1>5, <1>6, <1>7, <1>8 DEF Next

(* The inductive invariant of the thread, for any window, clock bound,     *)
(* messages and transactions.                                              *)
THEOREM ThreadInvariance == Spec => []ThreadInv
BY InitThreads, NextThreads, PTL DEF Spec

(* OnePerBurst for every instance: clearing and writing a key exclude each *)
(* other, so two N9 cannot both be for what a party has not read.          *)
THEOREM OneNoticePerBurst == Spec => []OnePerBurst
<1>1. ThreadInv => OnePerBurst
  <2> SUFFICES ASSUME ThreadInv, NEW p \in Parties
               PROVE  Cardinality((n9[p] \cap Unread(p)) \ raced) <= 1
    BY DEF OnePerBurst
  <2> DEFINE S == (n9[p] \cap Unread(p)) \ raced
  <2>1. \A m, n \in S : m = n
    BY DEF ThreadInv, DataFits
  <2> HIDE DEF S
  <2>2. Cardinality(S) <= 1
    <3>1. CASE S = {}
      BY <3>1, FS_EmptySet
    <3>2. CASE S # {}
      <4>1. PICK m \in S : TRUE
        BY <3>2
      <4>2. S = {m}
        BY <2>1, <4>1
      <4> QED
        BY <4>2, FS_Singleton
    <3> QED
      BY <3>1, <3>2
  <2> QED
    BY <2>2 DEF S
<1> QED
  BY <1>1, ThreadInvariance, PTL

(* UnreadIsTold for every instance: whoever has an unread message they     *)
(* asked to be told of has an N9 that holds their key.                     *)
THEOREM UnreadAreTold == Spec => []UnreadIsTold
<1>1. ThreadInv => UnreadIsTold
  BY DEF ThreadInv, DataFits, UnreadIsTold, Owed
<1> QED
  BY <1>1, ThreadInvariance, PTL

(* WrittenInWindow for every instance: the lock of post on the reservation *)
(* keeps the window it has checked.                                        *)
THEOREM AllWrittenInWindow == Spec => []WrittenInWindow
<1>1. ThreadInv => WrittenInWindow
  BY DEF ThreadInv, DataFits
<1> QED
  BY <1>1, ThreadInvariance, PTL

-----------------------------------------------------------------------------
(* Why the documented order prevents deadlock, for any number of           *)
(* transactions, rows and foreign keys' targets.  A path that locks at     *)
(* most one row of a table is plain; those of the catalogue lock several   *)
(* reservations and offers in any order, but hold the catalogue's lock.    *)

Seqs == Seq(Lock)

LEMMA RowsAreLocks ==
    ASSUME NEW x \in Rows
    PROVE  Update(x) \in Lock /\ Share(x) \in Lock
BY DEF Update, Share, Lock, Modes

LEMMA ThenSeqs ==
    ASSUME NEW P \in SUBSET Seqs, NEW Q \in SUBSET Seqs
    PROVE  P ** Q \in SUBSET Seqs
<1>1. ASSUME NEW p \in Seq(Lock), NEW q \in Seq(Lock) PROVE p \o q \in Seq(Lock)
  OBVIOUS
<1>2. ASSUME NEW r \in P ** Q PROVE r \in Seqs
  <2>1. PICK p \in P, q \in Q : r = p \o q
    BY DEF **
  <2> QED
    BY <1>1, <2>1 DEF Seqs
<1> QED
  BY <1>2

(* The locks of one statement are those of the rows it is about.           *)
LEMMA AnyOrderIs ==
    ASSUME NEW S \in SUBSET Rows, IsFiniteSet(S), NEW mode \in Modes, NEW p \in AnyOrder(S, mode)
    PROVE  p \in Seqs /\ \A i \in DOMAIN p : p[i].row \in S /\ p[i].mode = mode
<1>1. PICK s \in SetToSeqs(S) : p = [i \in DOMAIN s |-> [row |-> s[i], mode |-> mode]]
  BY DEF AnyOrder
<1>2. s \in [1 .. Cardinality(S) -> S] /\ Cardinality(S) \in Nat
  BY <1>1, FS_CardinalityType DEF SetToSeqs
<1> DEFINE n == Cardinality(S)
<1> HIDE DEF n
<1>3. /\ n \in Nat /\ DOMAIN p = 1 .. n
      /\ \A i \in 1 .. n : p[i] = [row |-> s[i], mode |-> mode] /\ s[i] \in S
  BY <1>1, <1>2 DEF n
<1>4. \A i \in 1 .. n : p[i] \in Lock /\ p[i].row \in S /\ p[i].mode = mode
  BY <1>3 DEF Lock
<1>5. p = [i \in 1 .. n |-> p[i]]
  BY <1>1, <1>2 DEF n
<1>6. p \in [1 .. n -> Lock]
  BY <1>4, <1>5
<1> QED
  BY <1>3, <1>4, <1>6 DEF Seqs

LEMMA ReferSeqs ==
    ASSUME NEW S \in SUBSET Rows, IsFiniteSet(S)
    PROVE  Refer(S) \in SUBSET Seqs
<1>1. AnyOrder(S, "keyshare") \in SUBSET Seqs
  BY AnyOrderIs DEF Modes
<1>2. {<< >>} \in SUBSET Seqs
  BY DEF Seqs
<1> QED
  BY <1>1, <1>2 DEF Refer

(* The sync's, likewise.                                                   *)
LEMMA ResolutionsAre ==
    ASSUME NEW Q \in SUBSET Products, NEW R \in SUBSET Rsvs, NEW M \in SUBSET Members,
           NEW p \in Resolutions(Q, R, M)
    PROVE  p \in Seqs /\ \A i \in DOMAIN p : Strong(p[i]) => p[i].row \in Q \cup R
<1> DEFINE S == Q \cup R \cup M
           n == Cardinality(S)
<1>1. S \in SUBSET Rows /\ IsFiniteSet(S)
  BY LockAssumption, FS_Subset, FS_Union DEF Rows
<1>2. PICK s \in SetToSeqs(S) :
        p = [i \in DOMAIN s |-> [row |-> s[i], mode |-> IF s[i] \in M THEN "keyshare" ELSE "nokey"]]
  BY DEF Resolutions
<1>3. s \in [1 .. n -> S] /\ n \in Nat
  BY <1>1, FS_CardinalityType DEF SetToSeqs
<1> HIDE DEF n
<1>4. /\ DOMAIN p = 1 .. n
      /\ \A i \in 1 .. n : /\ p[i] = [row |-> s[i], mode |-> IF s[i] \in M THEN "keyshare" ELSE "nokey"]
                           /\ s[i] \in S
  BY <1>2, <1>3
<1>5. \A i \in 1 .. n : p[i] \in Lock /\ (Strong(p[i]) => p[i].row \in Q \cup R)
  BY <1>1, <1>4 DEF Lock, Modes, Strong
<1>6. p = [i \in 1 .. n |-> p[i]]
  BY <1>2, <1>3
<1>7. p \in [1 .. n -> Lock]
  BY <1>5, <1>6
<1> QED
  BY <1>3, <1>4, <1>5, <1>7 DEF Seqs

LEMMA PathsAreSeqs ==
    ASSUME NEW path \in AllPaths
    PROVE  ProgramsOf(path) \in SUBSET Seqs
<1>1. /\ Members \subseteq Rows /\ Offers \subseteq Rows /\ Rsvs \subseteq Rows
      /\ Products \subseteq Rows /\ Admins \subseteq Members
      /\ \A o \in Offers : ProducerOf[o] \in Members
      /\ \A r \in Rsvs : OfferOf[r] \in Offers /\ RequesterOf[r] \in Members
  BY LockAssumption DEF Rows
<1>2. /\ IsFiniteSet(Members) /\ IsFiniteSet(Offers) /\ IsFiniteSet(Rsvs)
  BY LockAssumption
<1>3. \A M \in SUBSET Members : M \in SUBSET Rows /\ IsFiniteSet(M) /\ Refer(M) \in SUBSET Seqs
  BY <1>1, <1>2, FS_Subset, ReferSeqs
<1>4. \A R \in SUBSET Rsvs : AnyOrder(R, "update") \in SUBSET Seqs
  BY <1>1, <1>2, FS_Subset, AnyOrderIs DEF Modes
<1>5. \A O \in SUBSET Offers : AnyOrder(O, "nokey") \in SUBSET Seqs
  BY <1>1, <1>2, FS_Subset, AnyOrderIs DEF Modes
<1>6. \A p \in Products : Refer({p}) \in SUBSET Seqs
  BY <1>1, FS_Singleton, ReferSeqs
<1>7. /\ \A x \in Rows : {<<Update(x)>>} \in SUBSET Seqs
      /\ \A x, y \in Rows : /\ {<<Update(x), Update(y)>>} \in SUBSET Seqs
                            /\ {<<Share(x), Share(y)>>} \in SUBSET Seqs
      /\ \A x, y, z \in Rows : {<<Update(x), Update(y), Update(z)>>} \in SUBSET Seqs
  BY RowsAreLocks DEF Seqs
<1>8. \A r \in Rsvs : \A a \in Members : PartiesOf(r) \ {a} \in SUBSET Members
  BY <1>1 DEF PartiesOf
<1>9. ASSUME NEW a \in Members, NEW o \in Offers
      PROVE  Create(a, o) \in SUBSET Seqs
  <2>1. {ProducerOf[o]} \in SUBSET Members
    BY <1>1
  <2> QED
    BY <1>1, <1>3, <1>7, <2>1, ThenSeqs DEF Create
<1>10. ASSUME NEW a \in Members, NEW r \in Rsvs
       PROVE  /\ Act(a, r) \in SUBSET Seqs /\ Deliver(a, r) \in SUBSET Seqs
              /\ Post(a, r) \in SUBSET Seqs
  <2>1. Refer(PartiesOf(r) \ {a}) \in SUBSET Seqs
    BY <1>3, <1>8
  <2>2. /\ {<<Update(a), Update(r)>>} \in SUBSET Seqs /\ {<<Share(a), Share(r)>>} \in SUBSET Seqs
        /\ {<<Update(a), Update(r), Update(OfferOf[r])>>} \in SUBSET Seqs
    BY <1>1, <1>7
  <2> QED
    BY <2>1, <2>2, ThenSeqs DEF Act, Deliver, Post
<1>11. ASSUME NEW R \in SUBSET Rsvs
       PROVE  Expire(R) \in SUBSET Seqs /\ Remind(R) \in SUBSET Seqs
  <2>1. /\ UNION {PartiesOf(r) : r \in R} \in SUBSET Members
        /\ {ProducerOf[OfferOf[r]] : r \in R} \in SUBSET Members
    BY <1>1 DEF PartiesOf
  <2>2. /\ Refer(UNION {PartiesOf(r) : r \in R}) \in SUBSET Seqs
        /\ Refer({ProducerOf[OfferOf[r]] : r \in R}) \in SUBSET Seqs
    BY <1>3, <2>1
  <2> QED
    BY <1>4, <2>2, ThenSeqs DEF Expire, Remind
<1>12. ASSUME NEW a \in Members, NEW p \in Products
       PROVE  Publish(a, p) \in SUBSET Seqs
  <2>1. /\ Refer(Members \ {a}) \in SUBSET Seqs /\ Refer({p}) \in SUBSET Seqs
        /\ {<<Update(a)>>} \in SUBSET Seqs
    BY <1>1, <1>3, <1>6, <1>7
  <2> QED
    BY <2>1, ThenSeqs DEF Publish
<1>13. ASSUME NEW o \in Offers
       PROVE  Edit(o) \in SUBSET Seqs /\ Withdraw(o) \in SUBSET Seqs
  <2> DEFINE a == ProducerOf[o]
  <2>1. /\ Refer({}) \cup Refer(Members \ {a}) \in SUBSET Seqs
        /\ {<<Update(a), Update(o)>>} \in SUBSET Seqs
    BY <1>1, <1>3, <1>7
  <2> QED
    BY <2>1, ThenSeqs DEF Edit, Withdraw
<1>14. ASSUME NEW m \in Members
       PROVE  MemberAct(m) \in SUBSET Seqs
  <2>1. {IF m \in Admins THEN << >> ELSE <<Update(m)>>} \in SUBSET Seqs
    BY <1>1, RowsAreLocks DEF Seqs
  <2>2. AnyOrder(Admins, "update") \in SUBSET Seqs
    BY <1>1, <1>3, AnyOrderIs DEF Modes
  <2> QED
    BY <2>1, <2>2, ThenSeqs DEF MemberAct
<1>15. ASSUME NEW a \in Members
       PROVE  /\ {Enter(a)} \in SUBSET Seqs
              /\ {<<Update(Catalogue)>>, Enter(a)} \in SUBSET Seqs
              /\ \A p \in Products : {Enter(a) \o <<Update(p)>>} \in SUBSET Seqs
  <2>1. Enter(a) \in Seq(Lock) /\ <<Update(Catalogue)>> \in Seq(Lock)
    BY <1>1, RowsAreLocks DEF Enter, Rows
  <2>2. \A p \in Products : <<Update(p)>> \in Seq(Lock)
    BY RowsAreLocks DEF Rows
  <2>3. \A p \in Products : Enter(a) \o <<Update(p)>> \in Seq(Lock)
    BY <2>1, <2>2
  <2> QED
    BY <2>1, <2>3 DEF Seqs
<1>16. ASSUME NEW a \in Members
       PROVE  Propose(a) \in SUBSET Seqs
  <2>1. {a} \cup Admins \in SUBSET Members
    BY <1>1
  <2> QED
    BY <1>3, <1>15, <2>1, ThenSeqs DEF Propose
<1>17. ASSUME NEW a \in Admins, NEW p \in Products
       PROVE  MergeInto(a, p) \in SUBSET Seqs
  <2>1. ASSUME NEW q \in Products, NEW R \in SUBSET (RsvsOf(p) \cup RsvsOf(q)),
               NEW M \in {{}} \cup {{m} : m \in Members}
        PROVE  Merge(a, p, q, R, M) \in SUBSET Seqs
    <3>1. /\ OffersOf(p) \in SUBSET Offers /\ OffersOf(p) \in SUBSET Rows
          /\ R \in SUBSET Rsvs /\ R \in SUBSET Rows
          /\ IsFiniteSet(OffersOf(p)) /\ IsFiniteSet(R)
      <4>1. OffersOf(p) \in SUBSET Offers /\ R \in SUBSET Rsvs
        BY DEF RsvsOf, OffersOf
      <4> QED
        BY <1>1, <1>2, <4>1, FS_Subset
    <3>2. AnyOrder(OffersOf(p), "nokey") \in SUBSET Seqs /\ AnyOrder(R, "nokey") \in SUBSET Seqs
      BY <3>1, AnyOrderIs DEF Modes
    <3>3. {RequesterOf[r] : r \in R} \cup M \in SUBSET Members
      BY <1>1, <3>1
    <3> QED
      BY <1>1, <1>3, <1>6, <1>15, <3>2, <3>3, ThenSeqs DEF Merge
  <2> QED
    BY <2>1 DEF MergeInto, MergeProduct
<1>18. ASSUME NEW a \in Admins
       PROVE  SyncProducts(a) \in SUBSET Seqs
  <2>1. ASSUME NEW Q \in SUBSET Products, NEW R \in SUBSET Rsvs, NEW M \in SUBSET Members
        PROVE  Sync(a, Q, R, M) \in SUBSET Seqs
    <3> DEFINE told == IF ForeignKeys THEN {RequesterOf[r] : r \in R} \cup M ELSE {}
    <3>1. told \in SUBSET Members
      BY <1>1
    <3>2. Resolutions(Q, R, told) \in SUBSET Seqs
      BY <3>1, ResolutionsAre
    <3> QED
      BY <1>1, <1>15, <3>2, ThenSeqs DEF Sync
  <2> QED
    BY <2>1 DEF SyncProducts
<1>19. ASSUME NEW a \in Admins, NEW p \in Products
       PROVE  RejectProduct(a, p) \in SUBSET Seqs /\ Rename(a, p) \in SUBSET Seqs
  <2>1. ASSUME NEW R \in SUBSET RsvsOf(p), NEW O \in SUBSET OffersOf(p)
        PROVE  Cascade(a, p, R, O) \in SUBSET Seqs
    <3>1. R \in SUBSET Rsvs /\ O \in SUBSET Offers
      BY DEF RsvsOf, OffersOf
    <3>2. /\ UNION {PartiesOf(r) : r \in R} \in SUBSET Members
          /\ {ProducerOf[o] : o \in O} \in SUBSET Members
      BY <1>1, <3>1 DEF PartiesOf
    <3>3. /\ Refer(UNION {PartiesOf(r) : r \in R}) \in SUBSET Seqs
          /\ Refer({ProducerOf[o] : o \in O}) \in SUBSET Seqs
      BY <1>3, <3>2
    <3>4. {Enter(a) \o <<Update(p)>>} \in SUBSET Seqs
      BY <1>1, <1>15
    <3> QED
      BY <1>4, <1>5, <3>1, <3>3, <3>4, ThenSeqs DEF Cascade
  <2> QED
    BY <1>1, <1>15, <2>1 DEF RejectProduct, Rename
<1> QED
  BY <1>9, <1>10, <1>11, <1>12, <1>13, <1>14, <1>19, <1>16, <1>17, <1>18, LockAssumption
  DEF ProgramsOf, AllPaths

(* Every program is a sequence of locks.                                   *)
LEMMA ProgramsAreSeqs == \A p \in Programs : p \in Seq(Lock)
BY PathsAreSeqs, LockAssumption DEF Programs, Seqs


-----------------------------------------------------------------------------
(* What a path of OrderedPaths is like.  Foreign keys' locks may be         *)
(* anywhere in it.                                                         *)

\* At most one row of each table, and no product.
Plain(p) ==
    /\ \A i, j \in DOMAIN p :
          i < j /\ Strong(p[i]) /\ Strong(p[j]) => Rank(p[i].row) < Rank(p[j].row)
    /\ \A i \in DOMAIN p : Strong(p[i]) => p[i].row \notin Products

\* What may follow the lock of x: the holder of the catalogue waits for no product.
Fits(x, y) == y \in Products \/ Rank(x) <= Rank(y)

Hanging == Products \cup Rsvs \cup Offers

\* The catalogue, an actor or none, and rows in the order but for the products.
Settles(p) ==
    /\ Len(p) >= 1 /\ p[1] = Update(Catalogue)
    /\ \A i \in 2 .. Len(p) : Strong(p[i]) => p[i].row # Catalogue
    /\ \A i \in 3 .. Len(p) : Strong(p[i]) => p[i].row \in Hanging
    /\ \A i, j \in 2 .. Len(p) :
          i < j /\ Strong(p[i]) /\ Strong(p[j]) => Fits(p[i].row, p[j].row)

KeepsOrder(p) == Plain(p) \/ Settles(p)

\* Settled so far, with nothing beyond rank k.
Settled(p, k) ==
    Settles(p) /\ \A i \in DOMAIN p : Strong(p[i]) => Rank(p[i].row) <= k

\* What may come after that, and brings it to rank l.
Follows(q, k, l) ==
    /\ \A i \in DOMAIN q : Strong(q[i]) =>
          q[i].row \in Hanging /\ k <= Rank(q[i].row) /\ Rank(q[i].row) <= l
    /\ \A i, j \in DOMAIN q :
          i < j /\ Strong(q[i]) /\ Strong(q[j]) => Fits(q[i].row, q[j].row)

LEMMA RanksAre ==
    /\ Rank(Catalogue) = 0
    /\ \A x \in Members : Rank(x) = 1
    /\ \A x \in Products : Rank(x) = 2
    /\ \A x \in Rsvs : Rank(x) = 3
    /\ \A x \in Offers : Rank(x) = 4
BY TablesAssumption DEF Rank

LEMMA RankBound == ASSUME NEW x PROVE Rank(x) \in 0..4
BY DEF Rank

(* Where the locks of one program after another are.                       *)
LEMMA Joined ==
    ASSUME NEW p \in Seqs, NEW q \in Seqs
    PROVE  /\ p \o q \in Seqs /\ Len(p) \in Nat /\ Len(q) \in Nat
           /\ DOMAIN p = 1 .. Len(p) /\ DOMAIN q = 1 .. Len(q)
           /\ Len(p \o q) = Len(p) + Len(q) /\ DOMAIN (p \o q) = 1 .. Len(p) + Len(q)
           /\ \A i \in 1 .. Len(p) : (p \o q)[i] = p[i]
           /\ \A i \in Len(p) + 1 .. Len(p) + Len(q) :
                 i - Len(p) \in 1 .. Len(q) /\ (p \o q)[i] = q[i - Len(p)]
BY DEF Seqs

LEMMA SettledOn ==
    ASSUME NEW p \in Seqs, NEW q \in Seqs, NEW k \in 0..4, NEW l \in 0..4, k <= l,
           Settled(p, k), Follows(q, k, l)
    PROVE  Settled(p \o q, l)
<1> DEFINE r == p \o q
           n == Len(p)
           m == Len(q)
<1>1. /\ n \in Nat /\ m \in Nat /\ n >= 1 /\ DOMAIN p = 1 .. n /\ DOMAIN q = 1 .. m
      /\ Len(r) = n + m /\ DOMAIN r = 1 .. n + m
      /\ \A i \in 1 .. n : r[i] = p[i]
      /\ \A i \in n + 1 .. n + m : i - n \in 1 .. m /\ r[i] = q[i - n]
  BY Joined DEF Settled, Settles
<1>2. \A x : Rank(x) \in 0..4
  BY RankBound
<1> HIDE DEF r, n, m
<1>3. /\ p[1] = Update(Catalogue)
      /\ \A i \in 2 .. n : Strong(p[i]) => p[i].row # Catalogue
      /\ \A i \in 3 .. n : Strong(p[i]) => p[i].row \in Hanging
      /\ \A i, j \in 2 .. n : i < j /\ Strong(p[i]) /\ Strong(p[j]) => Fits(p[i].row, p[j].row)
      /\ \A i \in 1 .. n : Strong(p[i]) => Rank(p[i].row) <= k
  BY <1>1 DEF Settled, Settles, n
<1>4. /\ \A i \in 1 .. m : Strong(q[i]) =>
            q[i].row \in Hanging /\ k <= Rank(q[i].row) /\ Rank(q[i].row) <= l
      /\ \A i, j \in 1 .. m : i < j /\ Strong(q[i]) /\ Strong(q[j]) => Fits(q[i].row, q[j].row)
  BY <1>1 DEF Follows
<1>5. \A i \in n + 1 .. n + m : Strong(r[i]) =>
          r[i].row \in Hanging /\ k <= Rank(r[i].row) /\ Rank(r[i].row) <= l
  BY <1>1, <1>4
<1>6. \A x \in Hanging : x # Catalogue
  BY TablesAssumption DEF Hanging
<1>7. \A i \in 1 .. n + m : i \in 1 .. n \/ i \in n + 1 .. n + m
  BY <1>1
<1>8. \A i \in 2 .. n + m : Strong(r[i]) => r[i].row # Catalogue
  <2>1. \A i \in 2 .. n + m : i \in 2 .. n \/ i \in n + 1 .. n + m
    BY <1>1
  <2>2. \A i \in 2 .. n : r[i] = p[i]
    BY <1>1
  <2> QED
    BY <1>3, <1>5, <1>6, <2>1, <2>2
<1>9. \A i \in 3 .. n + m : Strong(r[i]) => r[i].row \in Hanging
  <2>1. \A i \in 3 .. n + m : i \in 3 .. n \/ i \in n + 1 .. n + m
    BY <1>1
  <2>2. \A i \in 3 .. n : r[i] = p[i]
    BY <1>1
  <2> QED
    BY <1>3, <1>5, <2>1, <2>2
<1>10. ASSUME NEW i \in 2 .. n + m, NEW j \in 2 .. n + m, i < j, Strong(r[i]), Strong(r[j])
       PROVE  Fits(r[i].row, r[j].row)
  <2>1. CASE j <= n
    <3>1. i \in 2 .. n /\ j \in 2 .. n /\ r[i] = p[i] /\ r[j] = p[j]
      BY <1>1, <1>10, <2>1
    <3> QED
      BY <1>3, <1>10, <3>1
  <2>2. CASE i > n
    <3>1. i \in n + 1 .. n + m /\ j \in n + 1 .. n + m /\ i - n < j - n
      BY <1>1, <1>10, <2>2
    <3>2. /\ i - n \in 1 .. m /\ j - n \in 1 .. m
          /\ r[i] = q[i - n] /\ r[j] = q[j - n]
      BY <1>1, <3>1
    <3> QED
      BY <1>4, <1>10, <3>1, <3>2
  <2>3. CASE i <= n /\ j > n
    <3>1. i \in 1 .. n /\ r[i] = p[i] /\ j \in n + 1 .. n + m
      BY <1>1, <1>10, <2>3
    <3>2. Rank(r[i].row) <= k /\ k <= Rank(r[j].row)
      BY <1>3, <1>5, <1>10, <3>1
    <3> QED
      BY <1>2, <3>2 DEF Fits
  <2> QED
    BY <1>1, <1>10, <2>1, <2>2, <2>3
<1>11. \A i \in 1 .. n + m : Strong(r[i]) => Rank(r[i].row) <= l
  <2>1. ASSUME NEW i \in 1 .. n, Strong(r[i]) PROVE Rank(r[i].row) <= l
    <3>1. Rank(r[i].row) <= k
      BY <1>1, <1>3, <2>1
    <3> QED
      BY <1>2, <3>1
  <2> QED
    BY <1>5, <1>7, <2>1
<1>12. r[1] = Update(Catalogue) /\ Len(r) >= 1
  BY <1>1, <1>3
<1>13. Settles(r)
  BY <1>1, <1>8, <1>9, <1>10, <1>12 DEF Settles
<1>14. Settled(r, l)
  BY <1>1, <1>11, <1>13 DEF Settled
<1> QED
  BY <1>14 DEF r

LEMMA AllSettledOn ==
    ASSUME NEW P \in SUBSET Seqs, NEW Q \in SUBSET Seqs, NEW k \in 0..4, NEW l \in 0..4, k <= l,
           \A p \in P : Settled(p, k), \A q \in Q : Follows(q, k, l)
    PROVE  P ** Q \in SUBSET Seqs /\ \A r \in P ** Q : Settled(r, l)
<1>1. P ** Q \in SUBSET Seqs
  BY ThenSeqs
<1>2. ASSUME NEW r \in P ** Q PROVE Settled(r, l)
  <2>1. PICK p \in P, q \in Q : r = p \o q
    BY DEF **
  <2> QED
    BY <2>1, SettledOn
<1> QED
  BY <1>1, <1>2

(* What foreign keys lock changes nothing of that.                         *)
LEMMA Weak ==
    ASSUME NEW S \in SUBSET Rows, IsFiniteSet(S)
    PROVE  Refer(S) \in SUBSET Seqs /\ \A q \in Refer(S) : \A i \in DOMAIN q : ~Strong(q[i])
<1>1. \A q \in AnyOrder(S, "keyshare") : \A i \in DOMAIN q : ~Strong(q[i])
  BY AnyOrderIs DEF Strong, Modes
<1>2. \A i \in DOMAIN << >> : FALSE
  OBVIOUS
<1> QED
  BY <1>1, <1>2, ReferSeqs DEF Refer

LEMMA WeakFollows ==
    ASSUME NEW S \in SUBSET Rows, IsFiniteSet(S), NEW k
    PROVE  Refer(S) \in SUBSET Seqs /\ \A q \in Refer(S) : Follows(q, k, k)
BY Weak DEF Follows

LEMMA PlainOn ==
    ASSUME NEW P \in SUBSET Seqs, \A p \in P : Plain(p), NEW S \in SUBSET Rows, IsFiniteSet(S)
    PROVE  P ** Refer(S) \in SUBSET Seqs /\ \A r \in P ** Refer(S) : Plain(r)
<1>1. Refer(S) \in SUBSET Seqs /\ \A q \in Refer(S) : \A i \in DOMAIN q : ~Strong(q[i])
  BY Weak
<1>2. P ** Refer(S) \in SUBSET Seqs
  BY <1>1, ThenSeqs
<1>3. ASSUME NEW r \in P ** Refer(S) PROVE Plain(r)
  <2>1. PICK p \in P, q \in Refer(S) : r = p \o q
    BY DEF **
  <2> DEFINE n == Len(p)
  <2>2. /\ n \in Nat /\ DOMAIN p = 1 .. n
        /\ \A i \in 1 .. n : r[i] = p[i]
        /\ \A i \in DOMAIN r : Strong(r[i]) => i \in 1 .. n
    <3> DEFINE m == Len(q)
    <3>1. p \in Seqs /\ q \in Seqs
      BY <1>1
    <3>2. /\ n \in Nat /\ m \in Nat /\ DOMAIN p = 1 .. n /\ DOMAIN q = 1 .. m
          /\ DOMAIN r = 1 .. n + m
          /\ \A i \in 1 .. n : r[i] = p[i]
          /\ \A i \in n + 1 .. n + m : i - n \in 1 .. m /\ r[i] = q[i - n]
      BY <2>1, <3>1, Joined
    <3> HIDE DEF n, m
    <3>3. \A i \in 1 .. n + m : i \in 1 .. n \/ i \in n + 1 .. n + m
      BY <3>2
    <3>4. \A i \in n + 1 .. n + m : ~Strong(r[i])
      BY <1>1, <3>2
    <3> QED
      BY <3>2, <3>3, <3>4
  <2> HIDE DEF n
  <2>3. Plain(p)
    OBVIOUS
  <2> QED
    BY <2>2, <2>3 DEF Plain
<1> QED
  BY <1>2, <1>3

(* The rows of one table, in any order, follow those before it.            *)
LEMMA TableFollows ==
    ASSUME NEW S, S \in SUBSET Rsvs \/ S \in SUBSET Offers, NEW mode \in Modes,
           NEW k \in 0..4, NEW l \in {3, 4}, k <= l, \A x \in S : Rank(x) = l
    PROVE  AnyOrder(S, mode) \in SUBSET Seqs /\ \A q \in AnyOrder(S, mode) : Follows(q, k, l)
<1>1. S \in SUBSET Rows /\ IsFiniteSet(S) /\ S \subseteq Hanging
  BY LockAssumption, FS_Subset DEF Rows, Hanging
<1>2. ASSUME NEW q \in AnyOrder(S, mode)
      PROVE  q \in Seqs /\ \A i \in DOMAIN q : q[i].row \in S
  BY <1>1, AnyOrderIs
<1>3. ASSUME NEW q \in AnyOrder(S, mode) PROVE Follows(q, k, l)
  <2>1. \A i \in DOMAIN q : q[i].row \in Hanging /\ Rank(q[i].row) = l
    BY <1>1, <1>2
  <2> QED
    BY <2>1 DEF Follows, Fits
<1> QED
  BY <1>2, <1>3

(* How the paths of the catalogue begin.                                   *)
LEMMA EntersSettled ==
    ASSUME NEW a \in Members
    PROVE  /\ {Enter(a)} \in SUBSET Seqs /\ {<<Update(Catalogue)>>, Enter(a)} \in SUBSET Seqs
           /\ Settled(Enter(a), 1) /\ Settled(<<Update(Catalogue)>>, 1)
           /\ \A p \in Products : /\ {Enter(a) \o <<Update(p)>>} \in SUBSET Seqs
                                  /\ Settled(Enter(a) \o <<Update(p)>>, 2)
<1>1. Enter(a) \in Seqs /\ <<Update(Catalogue)>> \in Seqs
  BY RowsAreLocks DEF Enter, Rows, Seqs
<1>2. Rank(a) = 1 /\ Rank(Catalogue) = 0 /\ a # Catalogue
  BY RanksAre
<1>3. Settled(Enter(a), 1)
  <2>1. /\ DOMAIN Enter(a) = 1 .. 2 /\ Len(Enter(a)) = 2
        /\ Enter(a)[1] = Update(Catalogue) /\ Enter(a)[2] = Share(a)
    BY DEF Enter
  <2>2. Update(Catalogue).row = Catalogue /\ Share(a).row = a
    BY DEF Update, Share
  <2> QED
    BY <1>2, <2>1, <2>2 DEF Settled, Settles
<1>4. Settled(<<Update(Catalogue)>>, 1)
  BY <1>2 DEF Settled, Settles, Update
<1>5. ASSUME NEW p \in Products
      PROVE  Enter(a) \o <<Update(p)>> \in Seqs /\ Settled(Enter(a) \o <<Update(p)>>, 2)
  <2> DEFINE q == <<Update(p)>>
  <2>1. q \in Seqs
    BY RowsAreLocks DEF Rows, Seqs
  <2>2. Follows(q, 1, 2)
    <3>1. DOMAIN q = 1 .. 1 /\ q[1].row = p /\ Rank(p) = 2 /\ p \in Hanging
      BY RanksAre DEF Update, Hanging
    <3> QED
      BY <3>1 DEF Follows
  <2> HIDE DEF q
  <2> QED
    BY <1>1, <1>3, <2>1, <2>2, SettledOn, Joined DEF q
<1> QED
  BY <1>1, <1>3, <1>4, <1>5

LEMMA OneRow ==
    ASSUME NEW x, x \notin Products
    PROVE  Plain(<<Update(x)>>)
BY DEF Plain, Update

LEMMA TwoRows ==
    ASSUME NEW x, NEW y, Rank(x) < Rank(y), x \notin Products, y \notin Products
    PROVE  Plain(<<Update(x), Update(y)>>) /\ Plain(<<Share(x), Share(y)>>)
BY DEF Plain, Update, Share

LEMMA ThreeRows ==
    ASSUME NEW x, NEW y, NEW z, Rank(x) < Rank(y), Rank(y) < Rank(z),
           x \notin Products, y \notin Products, z \notin Products
    PROVE  Plain(<<Update(x), Update(y), Update(z)>>)
<1> DEFINE p == <<Update(x), Update(y), Update(z)>>
<1>1. /\ DOMAIN p = 1 .. 3 /\ p[1].row = x /\ p[2].row = y /\ p[3].row = z
  BY DEF Update
<1>2. Rank(x) \in Int /\ Rank(y) \in Int /\ Rank(z) \in Int
  BY RankBound
<1>3. Rank(x) < Rank(z)
  BY <1>2
<1> HIDE DEF p
<1>4. Plain(p)
  BY <1>1, <1>3 DEF Plain
<1> QED
  BY <1>4 DEF p

(* The requests of members: an actor, a reservation, an offer.             *)
LEMMA RequestsPlain ==
    /\ \A a \in Members, o \in Offers : \A x \in Create(a, o) : Plain(x)
    /\ \A a \in Members, r \in Rsvs :
          \A x \in Act(a, r) \cup Deliver(a, r) \cup Post(a, r) : Plain(x)
    /\ \A a \in Members, p \in Products : \A x \in Publish(a, p) : Plain(x)
    /\ \A o \in Offers : \A x \in Edit(o) \cup Withdraw(o) : Plain(x)
<1>1. /\ \A o \in Offers : ProducerOf[o] \in Members
      /\ \A r \in Rsvs : OfferOf[r] \in Offers /\ RequesterOf[r] \in Members
  BY LockAssumption
<1>2. Members \subseteq Rows /\ Offers \subseteq Rows /\ Rsvs \subseteq Rows /\ Products \subseteq Rows
  BY DEF Rows
<1>3. /\ \A M \in SUBSET Members : M \in SUBSET Rows /\ IsFiniteSet(M)
      /\ \A p \in Products : {p} \in SUBSET Rows /\ IsFiniteSet({p})
  BY <1>2, LockAssumption, FS_Subset, FS_Singleton
<1>4. /\ \A x \in Rows : {<<Update(x)>>} \in SUBSET Seqs
      /\ \A x, y \in Rows : /\ {<<Update(x), Update(y)>>} \in SUBSET Seqs
                            /\ {<<Share(x), Share(y)>>} \in SUBSET Seqs
      /\ \A x, y, z \in Rows : {<<Update(x), Update(y), Update(z)>>} \in SUBSET Seqs
  BY RowsAreLocks DEF Seqs
<1>5. /\ \A x \in Members : Rank(x) = 1 /\ x \notin Products
      /\ \A x \in Rsvs : Rank(x) = 3 /\ x \notin Products
      /\ \A x \in Offers : Rank(x) = 4 /\ x \notin Products
  BY RanksAre, TablesAssumption
<1>6. /\ \A m \in Members : Plain(<<Update(m)>>)
      /\ \A m \in Members : \A x \in Rsvs \cup Offers :
            Plain(<<Update(m), Update(x)>>) /\ Plain(<<Share(m), Share(x)>>)
      /\ \A m \in Members, r \in Rsvs : Plain(<<Update(m), Update(r), Update(OfferOf[r])>>)
  BY <1>1, <1>5, OneRow, TwoRows, ThreeRows
<1>7. ASSUME NEW a \in Members, NEW o \in Offers, NEW x \in Create(a, o) PROVE Plain(x)
  <2>1. {ProducerOf[o]} \in SUBSET Members /\ {<<Update(a), Update(o)>>} \in SUBSET Seqs
    BY <1>1, <1>2, <1>4
  <2> QED
    BY <1>3, <1>6, <1>7, <2>1, PlainOn DEF Create
<1>8. \A a \in Members, r \in Rsvs :
          PartiesOf(r) \ {a} \in SUBSET Members /\ Members \ {a} \in SUBSET Members
  BY <1>1 DEF PartiesOf
<1>9. ASSUME NEW a \in Members, NEW r \in Rsvs,
             NEW x \in Act(a, r) \cup Deliver(a, r) \cup Post(a, r)
      PROVE  Plain(x)
  <2>1. /\ {<<Update(a), Update(r)>>} \in SUBSET Seqs
        /\ {<<Share(a), Share(r)>>} \in SUBSET Seqs
        /\ {<<Update(a), Update(r), Update(OfferOf[r])>>} \in SUBSET Seqs
    BY <1>1, <1>2, <1>4
  <2> QED
    BY <1>3, <1>6, <1>8, <1>9, <2>1, PlainOn DEF Act, Deliver, Post
<1>10. ASSUME NEW a \in Members, NEW p \in Products, NEW x \in Publish(a, p) PROVE Plain(x)
  <2> DEFINE P == {<<Update(a)>>}
             Q == P ** Refer({p})
  <2>1. P \in SUBSET Seqs /\ \A y \in P : Plain(y)
    BY <1>2, <1>4, <1>6
  <2>2. x \in Q ** Refer(Members \ {a}) /\ Members \ {a} \in SUBSET Members
    BY <1>10 DEF Publish
  <2> HIDE DEF P
  <2>3. Q \in SUBSET Seqs /\ \A y \in Q : Plain(y)
    BY <1>3, <2>1, PlainOn
  <2> HIDE DEF Q
  <2> QED
    BY <1>3, <2>2, <2>3, PlainOn
<1>11. ASSUME NEW o \in Offers, NEW x \in Edit(o) \cup Withdraw(o) PROVE Plain(x)
  <2> DEFINE b == ProducerOf[o]
             P == {<<Update(b), Update(o)>>}
             A == Refer({})
             B == Refer(Members \ {b})
  <2>1. P \in SUBSET Seqs /\ \A y \in P : Plain(y)
    BY <1>1, <1>2, <1>4, <1>6
  <2>2. x \in P ** (A \cup B) \/ x \in P
    BY <1>11 DEF Edit, Withdraw
  <2>3. {} \in SUBSET Members /\ Members \ {b} \in SUBSET Members
    OBVIOUS
  <2> HIDE DEF P, b
  <2>4. \A y \in P ** A : Plain(y)
    BY <1>3, <2>1, <2>3, PlainOn
  <2>5. \A y \in P ** B : Plain(y)
    BY <1>3, <2>1, <2>3, PlainOn
  <2> HIDE DEF A, B
  <2>6. CASE x \in P ** (A \cup B)
    <3>1. PICK y \in P, q \in A \cup B : x = y \o q
      BY <2>6 DEF **
    <3>2. q \in A => x \in P ** A
      BY <3>1 DEF **
    <3>3. q \in B => x \in P ** B
      BY <3>1 DEF **
    <3> QED
      BY <2>4, <2>5, <3>2, <3>3
  <2> QED
    BY <2>1, <2>2, <2>6
<1> QED
  BY <1>7, <1>9, <1>10, <1>11

(* An admin who rejects a product, or renames it to a free name.           *)
LEMMA CascadeSettles ==
    ASSUME NEW a \in Members, NEW q \in Products,
           NEW R \in SUBSET RsvsOf(q), NEW O \in SUBSET OffersOf(q),
           NEW p \in Cascade(a, q, R, O)
    PROVE  Settles(p)
<1>1. R \in SUBSET Rsvs /\ O \in SUBSET Offers
  BY DEF RsvsOf, OffersOf
<1>2. \A M \in SUBSET Members : M \in SUBSET Rows /\ IsFiniteSet(M)
  BY LockAssumption, FS_Subset DEF Rows
<1>3. /\ UNION {PartiesOf(r) : r \in R} \in SUBSET Members
      /\ {ProducerOf[o] : o \in O} \in SUBSET Members
  BY <1>1, LockAssumption DEF PartiesOf
<1> DEFINE A == {Enter(a) \o <<Update(q)>>}
           B == A ** AnyOrder(R, "update")
           C == B ** Refer(UNION {PartiesOf(r) : r \in R})
           D == C ** AnyOrder(O, "nokey")
<1>4. p \in D ** Refer({ProducerOf[o] : o \in O})
  BY DEF Cascade
<1>5. A \in SUBSET Seqs /\ \A x \in A : Settled(x, 2)
  BY EntersSettled
<1> HIDE DEF A
<1>6. B \in SUBSET Seqs /\ \A x \in B : Settled(x, 3)
  <2>1. /\ AnyOrder(R, "update") \in SUBSET Seqs
        /\ \A x \in AnyOrder(R, "update") : Follows(x, 2, 3)
    BY <1>1, RanksAre, TableFollows DEF Modes
  <2> QED
    BY <1>5, <2>1, AllSettledOn
<1> HIDE DEF B
<1>7. C \in SUBSET Seqs /\ \A x \in C : Settled(x, 3)
  <2> DEFINE W == Refer(UNION {PartiesOf(r) : r \in R})
  <2>1. W \in SUBSET Seqs /\ \A x \in W : Follows(x, 3, 3)
    BY <1>2, <1>3, WeakFollows
  <2> HIDE DEF W
  <2>2. B ** W \in SUBSET Seqs /\ \A x \in B ** W : Settled(x, 3)
    BY <1>6, <2>1, AllSettledOn
  <2> QED
    BY <2>2 DEF W
<1> HIDE DEF C
<1>8. D \in SUBSET Seqs /\ \A x \in D : Settled(x, 4)
  <2>1. /\ AnyOrder(O, "nokey") \in SUBSET Seqs
        /\ \A x \in AnyOrder(O, "nokey") : Follows(x, 3, 4)
    BY <1>1, RanksAre, TableFollows DEF Modes
  <2> QED
    BY <1>7, <2>1, AllSettledOn
<1> HIDE DEF D
<1>9. \A x \in D ** Refer({ProducerOf[o] : o \in O}) : Settled(x, 4)
  <2> DEFINE W == Refer({ProducerOf[o] : o \in O})
  <2>1. W \in SUBSET Seqs /\ \A x \in W : Follows(x, 4, 4)
    BY <1>2, <1>3, WeakFollows
  <2> HIDE DEF W
  <2>2. \A x \in D ** W : Settled(x, 4)
    BY <1>8, <2>1, AllSettledOn
  <2> QED
    BY <2>2 DEF W
<1> QED
  BY <1>4, <1>9 DEF Settled

LEMMA SyncSettles ==
    ASSUME NEW a \in Members, NEW Q \in SUBSET Products, NEW R \in SUBSET Rsvs,
           NEW M \in SUBSET Members, NEW p \in Sync(a, Q, R, M)
    PROVE  Settles(p)
<1> DEFINE told == IF ForeignKeys THEN {RequesterOf[r] : r \in R} \cup M ELSE {}
           H == {<<Update(Catalogue)>>, Enter(a)}
           T == Resolutions(Q, R, told)
<1>1. told \in SUBSET Members
  BY LockAssumption
<1>2. H \in SUBSET Seqs /\ \A x \in H : Settled(x, 1)
  BY EntersSettled
<1>3. ASSUME NEW q \in T
      PROVE  q \in Seqs /\ Follows(q, 1, 3)
  <2>1. q \in Seqs /\ \A i \in DOMAIN q : Strong(q[i]) => q[i].row \in Q \cup R
    BY <1>1, <1>3, ResolutionsAre
  <2>2. /\ \A x \in Q : x \in Products /\ Rank(x) = 2
        /\ \A x \in R : x \in Rsvs /\ Rank(x) = 3
    BY RanksAre
  <2> QED
    BY <2>1, <2>2 DEF Follows, Fits, Hanging
<1>4. T \in SUBSET Seqs
  BY <1>3
<1>5. p \in H ** T
  BY DEF Sync
<1> HIDE DEF H, T
<1>6. Settled(p, 3)
  BY <1>2, <1>3, <1>4, <1>5, AllSettledOn
<1> QED
  BY <1>6 DEF Settled

LEMMA OrderedPathsKeep ==
    ASSUME NEW path \in OrderedPaths, NEW p \in ProgramsOf(path)
    PROVE  KeepsOrder(p)
<1>1. Admins \subseteq Members
  BY LockAssumption
<1>2. CASE path \in {"create", "act", "deliver", "publish", "edit", "withdraw", "post"}
  <2>1. \/ \E a \in Members, o \in Offers : p \in Create(a, o)
        \/ \E a \in Members, r \in Rsvs : p \in Act(a, r) \cup Deliver(a, r) \cup Post(a, r)
        \/ \E a \in Members, q \in Products : p \in Publish(a, q)
        \/ \E o \in Offers : p \in Edit(o) \cup Withdraw(o)
    BY <1>2 DEF ProgramsOf
  <2> QED
    BY <2>1, RequestsPlain DEF KeepsOrder
<1>3. CASE path = "propose"
  <2>1. PICK a \in Members : p \in Propose(a)
    BY <1>3 DEF ProgramsOf
  <2>2. {a} \cup Admins \in SUBSET Rows /\ IsFiniteSet({a} \cup Admins)
    BY <1>1, LockAssumption, FS_Subset DEF Rows
  <2>3. Settled(p, 1)
    <3> DEFINE P == {Enter(a)}
               W == Refer({a} \cup Admins)
    <3>1. W \in SUBSET Seqs /\ \A q \in W : Follows(q, 1, 1)
      BY <2>2, WeakFollows
    <3>2. P \in SUBSET Seqs /\ \A x \in P : Settled(x, 1)
      BY EntersSettled
    <3>3. p \in P ** W
      BY <2>1 DEF Propose
    <3> HIDE DEF P, W
    <3> QED
      BY <3>1, <3>2, <3>3, AllSettledOn
  <2> QED
    BY <2>3 DEF KeepsOrder, Settled
<1>4. CASE path = "rename"
  <2>1. PICK a \in Admins, q \in Products : p \in Rename(a, q)
    BY <1>4 DEF ProgramsOf
  <2> QED
    BY <1>1, <2>1, EntersSettled DEF Rename, KeepsOrder, Settled
<1>5. CASE path = "sync"
  <2>1. PICK a \in Admins : p \in SyncProducts(a)
    BY <1>5 DEF ProgramsOf
  <2>2. PICK Q \in SUBSET Products, R \in SUBSET Rsvs, M \in SUBSET Members : p \in Sync(a, Q, R, M)
    BY <2>1 DEF SyncProducts
  <2> QED
    BY <1>1, <2>2, SyncSettles DEF KeepsOrder
<1>6. CASE path = "rejectProduct"
  <2>1. PICK a \in Admins, q \in Products : p \in RejectProduct(a, q)
    BY <1>6 DEF ProgramsOf
  <2>2. PICK R \in SUBSET RsvsOf(q), O \in SUBSET OffersOf(q) : p \in Cascade(a, q, R, O)
    BY <2>1 DEF RejectProduct
  <2> QED
    BY <1>1, <2>2, CascadeSettles DEF KeepsOrder
<1> QED
  BY <1>2, <1>3, <1>4, <1>5, <1>6 DEF OrderedPaths

-----------------------------------------------------------------------------
(* A transaction has taken no more locks than its program has.             *)
LEMMA TypeStep ==
    ASSUME LocksOK, [OrderNext]_lockVars
    PROVE  LocksOK'
<1>1. ASSUME NEW t \in Sessions, NEW p \in Programs, StartProgram(t, p) PROVE LocksOK'
  <2>1. p \in Seq(Lock)
    BY ProgramsAreSeqs
  <2>2. Len(p) \in Nat
    BY <2>1
  <2>3. program' \in [Sessions -> Programs \cup {Idle}] /\ taken' \in [Sessions -> Nat]
    BY <1>1 DEF StartProgram, LocksOK
  <2>4. ASSUME NEW u \in Sessions
        PROVE  taken'[u] <= (IF program'[u] # Idle THEN Len(program'[u]) ELSE 0)
    BY <1>1, <2>2 DEF StartProgram, LocksOK, Active
  <2> QED
    BY <2>3, <2>4 DEF LocksOK, Active
<1>2. ASSUME NEW t \in Sessions, Take(t) PROVE LocksOK'
  <2>1. program[t] \in Programs
    BY <1>2 DEF Take, Waiting, Active, LocksOK
  <2>2. Len(program[t]) \in Nat
    BY <2>1, ProgramsAreSeqs
  <2>3. program' \in [Sessions -> Programs \cup {Idle}] /\ taken' \in [Sessions -> Nat]
    BY <1>2 DEF Take, LocksOK
  <2>4. ASSUME NEW u \in Sessions
        PROVE  taken'[u] <= (IF program'[u] # Idle THEN Len(program'[u]) ELSE 0)
    BY <1>2, <2>2 DEF Take, Waiting, LocksOK, Active
  <2> QED
    BY <2>3, <2>4 DEF LocksOK, Active
<1>3. ASSUME NEW t \in Sessions, End(t) PROVE LocksOK'
  BY <1>3 DEF End, LocksOK, Active
<1>4. CASE UNCHANGED lockVars
  BY <1>4 DEF lockVars, LocksOK, Active
<1> QED
  BY <1>1, <1>2, <1>3, <1>4 DEF OrderNext

(* Whatever the paths and the rows, and with foreign keys or without, an    *)
(* open transaction runs one of the programs and has taken a prefix of it. *)
THEOREM LockTypeCorrect == OrderSpec => []LocksOK
<1>1. OrderInit => LocksOK
  BY DEF OrderInit, LocksOK, Active
<1>2. LocksOK /\ [OrderNext]_lockVars => LocksOK'
  BY TypeStep
<1> QED
  BY <1>1, <1>2, PTL DEF OrderSpec

(* Two transactions have no locks that exclude each other.                 *)
LocksApart ==
    \A t, u \in Sessions : t # u =>
        \A i \in 1 .. taken[t] : \A j \in 1 .. taken[u] :
            program[t][i].row = program[u][j].row =>
                ~Conflicts(program[t][i].mode, program[u][j].mode)

LEMMA ApartStep ==
    ASSUME LocksOK, LocksApart, [OrderNext]_lockVars
    PROVE  LocksApart'
<1>1. /\ program \in [Sessions -> Programs \cup {Idle}] /\ taken \in [Sessions -> Nat]
      /\ \A t \in Sessions : ~Active(t) => taken[t] = 0
  BY DEF LocksOK
<1>2. ASSUME NEW s \in Sessions, taken'[s] = 0,
             \A t \in Sessions : t # s => program'[t] = program[t] /\ taken'[t] = taken[t]
      PROVE  LocksApart'
  <2>1. 1 .. taken'[s] = {}
    BY <1>2
  <2>2. ASSUME NEW t \in Sessions, NEW u \in Sessions, t # u,
               NEW i \in 1 .. taken'[t], NEW j \in 1 .. taken'[u],
               program'[t][i].row = program'[u][j].row
        PROVE  ~Conflicts(program'[t][i].mode, program'[u][j].mode)
    <3>1. t # s /\ u # s
      BY <2>1, <2>2
    <3>2. /\ program'[t] = program[t] /\ taken'[t] = taken[t]
          /\ program'[u] = program[u] /\ taken'[u] = taken[u]
      BY <1>2, <3>1
    <3> QED
      BY <2>2, <3>2 DEF LocksApart
  <2> QED
    BY <2>2 DEF LocksApart
<1>3. ASSUME NEW s \in Sessions, NEW p \in Programs, StartProgram(s, p)
      PROVE  LocksApart'
  <2>1. /\ taken'[s] = 0
        /\ \A t \in Sessions : t # s => program'[t] = program[t] /\ taken'[t] = taken[t]
    BY <1>1, <1>3 DEF StartProgram
  <2> QED
    BY <1>2, <2>1
<1>4. ASSUME NEW s \in Sessions, End(s)
      PROVE  LocksApart'
  <2>1. /\ taken'[s] = 0
        /\ \A t \in Sessions : t # s => program'[t] = program[t] /\ taken'[t] = taken[t]
    BY <1>1, <1>4 DEF End
  <2> QED
    BY <1>2, <2>1
<1>5. ASSUME NEW s \in Sessions, Take(s)
      PROVE  LocksApart'
  <2>1. /\ program' = program /\ taken'[s] = taken[s] + 1 /\ taken[s] \in Nat
        /\ \A t \in Sessions : t # s => taken'[t] = taken[t]
    BY <1>1, <1>5 DEF Take
  <2>2. ASSUME NEW u \in Sessions, u # s, NEW j \in 1 .. taken[u],
               program[u][j].row = program[s][taken[s] + 1].row
        PROVE  /\ ~Conflicts(program[u][j].mode, program[s][taken[s] + 1].mode)
               /\ ~Conflicts(program[s][taken[s] + 1].mode, program[u][j].mode)
    <3>1. Active(u)
      BY <1>1, <2>2
    <3>2. ~Blocks(u, s) /\ Waiting(s)
      BY <1>5 DEF Take
    <3>3. ~Conflicts(program[u][j].mode, program[s][taken[s] + 1].mode)
      BY <2>2, <3>1, <3>2 DEF Blocks, Asks
    <3> QED
      BY <3>3 DEF Conflicts
  <2>3. ASSUME NEW t \in Sessions, NEW u \in Sessions, t # u,
               NEW i \in 1 .. taken'[t], NEW j \in 1 .. taken'[u],
               program[t][i].row = program[u][j].row
        PROVE  ~Conflicts(program[t][i].mode, program[u][j].mode)
    <3>1. CASE i \in 1 .. taken[t] /\ j \in 1 .. taken[u]
      BY <2>3, <3>1 DEF LocksApart
    <3>2. CASE i \notin 1 .. taken[t]
      <4>1. t = s /\ i = taken[s] + 1
        BY <2>1, <2>3, <3>2
      <4>2. j \in 1 .. taken[u]
        BY <2>1, <2>3, <4>1
      <4> QED
        BY <2>2, <2>3, <4>1, <4>2
    <3>3. CASE j \notin 1 .. taken[u]
      <4>1. u = s /\ j = taken[s] + 1
        BY <2>1, <2>3, <3>3
      <4>2. i \in 1 .. taken[t]
        BY <2>1, <2>3, <4>1
      <4> QED
        BY <2>2, <2>3, <4>1, <4>2
    <3> QED
      BY <3>1, <3>2, <3>3
  <2> QED
    BY <2>1, <2>3 DEF LocksApart
<1>6. CASE UNCHANGED lockVars
  BY <1>6 DEF lockVars, LocksApart
<1> QED
  BY <1>3, <1>4, <1>5, <1>6 DEF OrderNext

(* What t asks for next, in the order; of a row that a plain program asks  *)
(* for, and one of the catalogue holds, the latter goes on.                *)
Place(t) == 2 * Rank(Asks(t).row) + IF Plain(program[t]) THEN 0 ELSE 1

LEMMA PlaceBound == ASSUME NEW t PROVE Place(t) \in 0 .. 9
BY RankBound DEF Place

(* Two paths of the catalogue do not both have its lock.                   *)
LEMMA OneInside ==
    ASSUME LocksApart, NEW t \in Sessions, NEW u \in Sessions, t # u,
           taken[t] \in Nat, taken[u] \in Nat, taken[t] >= 1, taken[u] >= 1,
           Settles(program[t]), Settles(program[u])
    PROVE  FALSE
<1>1. 1 \in 1 .. taken[t] /\ 1 \in 1 .. taken[u]
  OBVIOUS
<1>2. program[t][1] = Update(Catalogue) /\ program[u][1] = Update(Catalogue)
  BY DEF Settles
<1>3. Conflicts(Update(Catalogue).mode, Update(Catalogue).mode)
  BY DEF Conflicts, Update
<1> QED
  BY <1>1, <1>2, <1>3 DEF LocksApart

(* One who holds another up, and where: u has its i-th lock, t asks its    *)
(* m-th.                                                                   *)
LEMMA WhoHolds ==
    ASSUME LocksOK, NEW t \in Sessions, NEW u \in Sessions, HoldsUp(u, t)
    PROVE  /\ program[u] \in Seqs /\ program[t] \in Seqs /\ t # u
           /\ program[u] \in Programs /\ program[t] \in Programs
           /\ taken[u] \in Nat /\ taken[t] \in Nat /\ taken[u] <= Len(program[u])
           /\ taken[t] + 1 \in 1 .. Len(program[t]) /\ Strong(program[t][taken[t] + 1])
           /\ \E i \in 1 .. taken[u] :
                 Strong(program[u][i]) /\ program[u][i].row = program[t][taken[t] + 1].row
<1>1. /\ program[u] \in Programs /\ program[t] \in Programs /\ t # u
      /\ taken[u] \in Nat /\ taken[t] \in Nat /\ taken[u] <= Len(program[u])
      /\ taken[t] < Len(program[t])
  BY DEF HoldsUp, Waiting, Active, LocksOK
<1>2. program[u] \in Seqs /\ program[t] \in Seqs
  BY <1>1, ProgramsAreSeqs DEF Seqs
<1>3. Len(program[t]) \in Nat
  BY <1>2 DEF Seqs
<1>4. taken[t] + 1 \in 1 .. Len(program[t])
  BY <1>1, <1>3
<1> QED
  BY <1>1, <1>2, <1>4 DEF HoldsUp, Asks

(* Nobody waits for a product: who wants one has the catalogue, and so has *)
(* who holds one.                                                          *)
LEMMA NoneForProducts ==
    ASSUME \A p \in Programs : KeepsOrder(p), LocksOK, LocksApart,
           NEW t \in Sessions, NEW u \in Sessions, HoldsUp(u, t)
    PROVE  Asks(t).row \notin Products
<1> SUFFICES ASSUME Asks(t).row \in Products PROVE FALSE
  OBVIOUS
<1> DEFINE m == taken[t] + 1
<1>1. /\ program[u] \in Seqs /\ program[t] \in Seqs /\ t # u
      /\ KeepsOrder(program[u]) /\ KeepsOrder(program[t])
      /\ taken[u] \in Nat /\ taken[t] \in Nat /\ taken[u] <= Len(program[u])
      /\ m \in 1 .. Len(program[t]) /\ Strong(program[t][m])
  BY WhoHolds
<1>2. PICK i \in 1 .. taken[u] : Strong(program[u][i]) /\ program[u][i].row = program[t][m].row
  BY WhoHolds
<1>3. /\ Len(program[u]) \in Nat /\ DOMAIN program[u] = 1 .. Len(program[u])
      /\ Len(program[t]) \in Nat /\ DOMAIN program[t] = 1 .. Len(program[t])
  BY <1>1 DEF Seqs
<1>4. program[t][m].row \in Products /\ program[u][i].row \in Products
  BY <1>2 DEF Asks
<1> HIDE DEF m
<1>5. i \in 1 .. Len(program[u])
  BY <1>1, <1>3
<1>6. Settles(program[t]) /\ Settles(program[u])
  BY <1>1, <1>2, <1>3, <1>4, <1>5 DEF KeepsOrder, Plain
<1>7. m # 1
  <2>1. program[t][1].row \notin Products
    BY <1>6, TablesAssumption DEF Settles, Update
  <2> QED
    BY <1>4, <2>1
<1>8. taken[t] >= 1 /\ taken[u] >= 1
  BY <1>1, <1>7 DEF m
<1> QED
  BY <1>1, <1>6, <1>8, OneInside

(* The one who holds a transaction up waits for a row of a later place.    *)
LEMMA BlockerIsLater ==
    ASSUME \A p \in Programs : KeepsOrder(p), LocksOK, LocksApart,
           NEW t \in Sessions, NEW u \in Sessions, NEW v \in Sessions,
           HoldsUp(u, t), HoldsUp(v, u)
    PROVE  Place(t) < Place(u)
<1> DEFINE n == taken[u] + 1
           m == taken[t] + 1
<1>1. /\ program[u] \in Seqs /\ program[t] \in Seqs /\ t # u
      /\ KeepsOrder(program[u]) /\ KeepsOrder(program[t])
      /\ taken[u] \in Nat /\ taken[t] \in Nat
      /\ m \in 1 .. Len(program[t]) /\ Strong(program[t][m])
      /\ n \in 1 .. Len(program[u]) /\ Strong(program[u][n])
  BY WhoHolds
<1>2. PICK i \in 1 .. taken[u] : Strong(program[u][i]) /\ program[u][i].row = program[t][m].row
  BY WhoHolds
<1>3. /\ Len(program[u]) \in Nat /\ DOMAIN program[u] = 1 .. Len(program[u])
      /\ Len(program[t]) \in Nat /\ DOMAIN program[t] = 1 .. Len(program[t])
      /\ i \in 1 .. Len(program[u]) /\ i < n
  <2>1. /\ Len(program[u]) \in Nat /\ DOMAIN program[u] = 1 .. Len(program[u])
        /\ Len(program[t]) \in Nat /\ DOMAIN program[t] = 1 .. Len(program[t])
    BY <1>1 DEF Seqs
  <2> QED
    BY <1>1, <1>2, <2>1
<1> DEFINE x == program[u][i].row
           y == program[u][n].row
<1>4. x = program[t][m].row /\ x = Asks(t).row /\ y = Asks(u).row
  BY <1>2 DEF Asks
<1>5. Rank(x) \in 0 .. 4 /\ Rank(y) \in 0 .. 4
  BY RankBound
<1>6. y \notin Products
  BY <1>4, NoneForProducts
<1>7. /\ Place(t) = 2 * Rank(x) \/ Place(t) = 2 * Rank(x) + 1
      /\ Place(u) = 2 * Rank(y) \/ Place(u) = 2 * Rank(y) + 1
  BY <1>4, <1>5 DEF Place
<1>8. CASE Rank(x) < Rank(y)
  <2> HIDE DEF x, y
  <2> QED
    BY <1>5, <1>7, <1>8
<1>9. CASE ~(Rank(x) < Rank(y))
  <2>1. ~Plain(program[u]) /\ Settles(program[u])
    BY <1>1, <1>2, <1>3, <1>9 DEF Plain, KeepsOrder
  <2>2. i >= 2
    <3>1. SUFFICES ASSUME i = 1 PROVE FALSE
      BY <1>3
    <3>2. Rank(x) = 0
      BY <2>1, <3>1, RanksAre DEF Settles, Update
    <3>3. n \in 2 .. Len(program[u])
      BY <1>1, <1>3, <3>1
    <3>4. y # Catalogue
      BY <1>1, <2>1, <3>3 DEF Settles
    <3>5. Rank(y) # 0
      BY <3>4 DEF Rank
    <3> QED
      BY <1>5, <1>9, <3>2, <3>5
  <2>3. i \in 2 .. Len(program[u]) /\ n \in 3 .. Len(program[u]) /\ n \in 2 .. Len(program[u])
    BY <1>1, <1>3, <2>2
  <2>4. Fits(x, y) /\ y \in Hanging
    BY <1>1, <1>2, <1>3, <2>1, <2>3 DEF Settles
  <2>5. Rank(x) = Rank(y)
    <3> HIDE DEF x, y
    <3> QED
      BY <1>5, <1>6, <1>9, <2>4 DEF Fits
  <2>6. Rank(y) \in {3, 4}
    BY <1>6, <2>4, RanksAre DEF Hanging
  <2>7. Plain(program[t])
    <3>1. SUFFICES ASSUME Settles(program[t]) PROVE FALSE
      BY <1>1 DEF KeepsOrder
    <3>2. m # 1
      <4>1. Rank(program[t][1].row) = 0
        BY <3>1, RanksAre DEF Settles, Update
      <4>2. Rank(program[t][m].row) # 0
        BY <1>4, <2>5, <2>6
      <4> HIDE DEF m
      <4> QED
        BY <4>1, <4>2
    <3>3. taken[t] >= 1 /\ taken[u] >= 1
      BY <1>1, <1>2, <3>2
    <3> QED
      BY <1>1, <2>1, <3>1, <3>3, OneInside
  <2>8. Place(t) = 2 * Rank(x) /\ Place(u) = 2 * Rank(y) + 1
    BY <1>4, <1>5, <2>1, <2>7 DEF Place
  <2> QED
    BY <2>5, <2>6, <2>8
<1> QED
  BY <1>8, <1>9

(* No transactions that create, act upon or deliver reservations, publish, *)
(* edit or withdraw offers, post messages, propose, rename or reject       *)
(* products or sync the catalogue ever hold each other up in a circle of   *)
(* the locks that their statements take, however many they are, and        *)
(* however many reservations and offers a product has: the order of ARCH   *)
(* section 6, and "reservations are always locked before offers [...] so   *)
(* the two can never deadlock" of cascade.ts (52-55).  The merge of a      *)
(* renamed product is not among them: it locks offers first.               *)
THEOREM OrderPreventsDeadlock ==
    ASSUME Paths \subseteq OrderedPaths
    PROVE  OrderSpec => []NoDeadlock
<1>1. \A p \in Programs : KeepsOrder(p)
  BY OrderedPathsKeep DEF Programs
<1>2. LocksOK /\ LocksApart => NoDeadlock
  <2> SUFFICES ASSUME LocksOK, LocksApart, NEW D \in SUBSET Sessions, D # {},
                      \A t \in D : \E u \in D : HoldsUp(u, t)
               PROVE  FALSE
    BY DEF NoDeadlock
  <2>1. ASSUME NEW t \in D
        PROVE  \E u \in D : Place(t) < Place(u)
    <3>1. PICK u \in D : HoldsUp(u, t)
      OBVIOUS
    <3>2. PICK v \in D : HoldsUp(v, u)
      OBVIOUS
    <3> QED
      BY <1>1, <3>1, <3>2, BlockerIsLater
  <2> DEFINE S == {n \in 0 .. 9 : \E t \in D : 9 - Place(t) = n}
  <2>2. \A t \in D : Place(t) \in 0 .. 9
    BY PlaceBound
  <2>3. ASSUME NEW n \in S PROVE \E k \in S : k < n
    <3>1. PICK t \in D : 9 - Place(t) = n
      OBVIOUS
    <3>2. PICK u \in D : Place(t) < Place(u)
      BY <2>1
    <3>3. Place(t) \in 0 .. 9 /\ Place(u) \in 0 .. 9
      BY <2>2
    <3>4. 9 - Place(u) \in 0 .. 9 /\ 9 - Place(u) < n
      BY <3>1, <3>2, <3>3
    <3> QED
      BY <3>4
  <2>4. S \subseteq Nat /\ S # {}
    BY <2>2
  <2> HIDE DEF S
  <2>5. PICK n \in S : \A m \in S : ~(<<m, n>> \in OpToRel(<, Nat))
    BY <2>4, NatLessThanWellFounded, WFMin
  <2>6. PICK k \in S : k < n
    BY <2>3
  <2>7. <<k, n>> \in OpToRel(<, Nat)
    BY <2>4, <2>6 DEF OpToRel
  <2> QED
    BY <2>5, <2>7
<1>3. OrderInit => LocksApart
  BY DEF OrderInit, LocksApart
<1>4. OrderSpec => []LocksOK
  BY LockTypeCorrect
<1>5. LocksOK /\ LocksApart /\ [OrderNext]_lockVars => LocksApart'
  BY ApartStep
<1> QED
  BY <1>2, <1>3, <1>4, <1>5, PTL DEF OrderSpec
=============================================================================
