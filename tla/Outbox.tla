------------------------------- MODULE Outbox -------------------------------
(***************************************************************************)
(* The transactional outbox: notification rows that are committed with the *)
(* change they tell of, and the dispatcher that turns them into Telegram   *)
(* messages.                                                               *)
(*                                                                         *)
(* A run of the dispatcher is one transaction: it locks a batch of due     *)
(* rows, skipping those another run has locked, calls Telegram for one     *)
(* after the other, and drafts what became of each.  The drafts are        *)
(* visible when it commits; a run that dies has sent what it sent and      *)
(* remembers nothing of it.  Telegram may deliver a message whose answer   *)
(* is lost.                                                                *)
(*                                                                         *)
(* Times are relative: wait is how long until next_attempt_at, in ticks.   *)
(* A batch is any of the due rows: their order of creation is left out.    *)
(***************************************************************************)
EXTENDS Sequences, FiniteSetsExt

CONSTANTS Notes,       \* notifications that may be enqueued
          Dispatchers, \* runs that may overlap
          Batch,       \* DISPATCH_BATCH_SIZE
          Delays,      \* NOTIFICATION_RETRY_DELAYS_MINUTES, in ticks
          Asks,        \* the waits Telegram may ask for with a 429
          MaxTook,     \* bound on the time a call is seen to take
          MaxFaults,   \* bound on lost answers, 429s and crashed runs
          None

ASSUME OutboxAssumption ==
    /\ Batch \in Nat \ {0}
    /\ Delays \in Seq(Nat)
    /\ Asks \subseteq Nat
    /\ MaxTook \in Nat /\ MaxFaults \in Nat

VARIABLES row,    \* note -> its committed row, or None
          draft,  \* dispatcher -> note -> its row when this run commits, or None
          batch,  \* dispatcher -> the rows it has locked
          call,   \* dispatcher -> the note it is sending, and for how long
          inbox,  \* note -> how many times the member got it
          faults, \* how many faults there were
          \* History:
          lost,   \* note -> deliveries the outbox does not know of
          tries,  \* note -> calls for it that failed
          refused,\* notes that cannot be rendered or that Telegram refused for good
          asked,  \* note -> what is left of the wait Telegram asked for
          cut     \* notes whose wait the dispatcher cannot keep

outbox == <<row, draft, batch, call>>
history == <<lost, tries, refused, asked, cut>>
vars == <<outbox, inbox, faults, history>>

-----------------------------------------------------------------------------
\* What the type of a row cannot be mistaken for.
AnyRow == [status : {"queued", "sent", "failed"}, attempts : Nat, wait : Nat]
ASSUME NoneAssumption == None \notin Notes /\ None \notin AnyRow

Waits == 0..Max({0} \cup Range(Delays) \cup Asks)
Row == [status : {"queued", "sent", "failed"}, attempts : 0..Len(Delays) + 1, wait : Waits]

New == [status |-> "queued", attempts |-> 0, wait |-> 0]
NoCall == [note |-> None, took |-> 0]

Minus(a, b) == IF a > b THEN a - b ELSE 0

Queued(n) == row[n] # None /\ row[n].status = "queued"
Locked == UNION {batch[d] : d \in Dispatchers}

\* What a run has still to handle.
Left(d) == {n \in batch[d] : draft[d][n] = None}
Calling(d) == call[d].note # None

Init ==
    /\ row = [n \in Notes |-> None]
    /\ draft = [d \in Dispatchers |-> [n \in Notes |-> None]]
    /\ batch = [d \in Dispatchers |-> {}]
    /\ call = [d \in Dispatchers |-> NoCall]
    /\ inbox = [n \in Notes |-> 0]
    /\ faults = 0
    /\ lost = [n \in Notes |-> 0]
    /\ tries = [n \in Notes |-> 0]
    /\ refused = {}
    /\ asked = [n \in Notes |-> 0]
    /\ cut = {}

\* enqueueNotification, once the caller's transaction commits.
Enqueue(n) ==
    /\ row[n] = None
    /\ row' = [row EXCEPT ![n] = New]
    /\ UNCHANGED <<draft, batch, call, inbox, faults, history>>

-----------------------------------------------------------------------------
(* A run of the dispatcher.                                                *)

\* Fault: the rows are selected without FOR UPDATE.
SelectableUnlocked == {n \in Notes : Queued(n) /\ row[n].wait = 0}

\* Queued, due and not locked by another run (SKIP LOCKED).
Selectable == {n \in Notes \ Locked : Queued(n) /\ row[n].wait = 0}

\* Fault: each row is marked in a transaction of its own before it is sent.
BeginMarking(d) ==
    /\ batch[d] = {}
    /\ \E S \in SUBSET Selectable :
          /\ S # {} /\ Cardinality(S) = Min({Batch, Cardinality(Selectable)})
          /\ batch' = [batch EXCEPT ![d] = S]
          /\ row' = [n \in Notes |-> IF n \in S THEN [row[n] EXCEPT !.status = "sent"]
                                     ELSE row[n]]
    /\ UNCHANGED <<draft, call, inbox, faults, history>>

Begin(d) ==
    /\ batch[d] = {}
    /\ \E S \in SUBSET Selectable :
          /\ S # {} /\ Cardinality(S) = Min({Batch, Cardinality(Selectable)})
          /\ batch' = [batch EXCEPT ![d] = S]
    /\ UNCHANGED <<row, draft, call, inbox, faults, history>>

\* The run goes on with the next row; n ends this run as r.
Draft(d, n, r) ==
    /\ draft' = [draft EXCEPT ![d][n] = r]
    /\ call' = [call EXCEPT ![d] = NoCall]
    /\ UNCHANGED <<row, batch>>

\* No renderer for the kind, or it throws: depends on the payload.
Reject(d) ==
    /\ ~Calling(d)
    /\ \E n \in Left(d) :
          /\ Draft(d, n, [row[n] EXCEPT !.status = "failed"])
          /\ refused' = refused \cup {n}
    /\ UNCHANGED <<inbox, faults, lost, tries, asked, cut>>

Send(d) ==
    /\ ~Calling(d)
    /\ \E n \in Left(d) :
          call' = [call EXCEPT ![d] = [note |-> n, took |-> 0]]
    /\ UNCHANGED <<row, draft, batch, inbox, faults, history>>

-----------------------------------------------------------------------------
(* What comes of a call.                                                   *)
\* History: another call that failed, counted as far as it matters.
Count(n) == tries' = [tries EXCEPT ![n] = IF @ <= Len(Delays) THEN @ + 1 ELSE @]

Deliver(d) ==
    LET n == call[d].note IN
    /\ Calling(d)
    /\ Draft(d, n, [status |-> "sent", attempts |-> row[n].attempts + 1, wait |-> 0])
    /\ inbox' = [inbox EXCEPT ![n] = @ + 1]
    /\ UNCHANGED <<faults, history>>

\* Fault: the list of delays is read one entry too far on.
RetriesFewer(attempts) == attempts < Len(Delays)

\* retryDelayMs: a delay for each failed attempt but the last.
Retries(attempts) == attempts <= Len(Delays)

\* Fault: the attempt is not counted.
AfterFailureUncounted(r, took) ==
    IF Retries(r.attempts + 1)
    THEN [r EXCEPT !.wait = Minus(Delays[r.attempts + 1], took)]
    ELSE [status |-> "failed", attempts |-> r.attempts + 1, wait |-> 0]

\* The row after another failed attempt: the delay counts from the moment
\* before the call.
AfterFailure(r, took) ==
    LET attempts == r.attempts + 1 IN
    IF Retries(attempts)
    THEN [status |-> "queued", attempts |-> attempts,
          wait |-> Minus(Delays[attempts], took)]
    ELSE [status |-> "failed", attempts |-> attempts, wait |-> 0]

\* A server or network error, once the client's own retries are used up.
Error(d) ==
    LET n == call[d].note IN
    /\ Calling(d)
    /\ Draft(d, n, AfterFailure(row[n], call[d].took))
    /\ Count(n)
    /\ UNCHANGED <<inbox, faults, lost, refused, asked, cut>>

\* Telegram took the message and the answer is lost.  The call goes on: the
\* client (auto-retry) asks again, or fails, or the run dies.
LoseAnswer(d) ==
    /\ Calling(d)
    /\ faults < MaxFaults /\ faults' = faults + 1
    /\ inbox' = [inbox EXCEPT ![call[d].note] = @ + 1]
    /\ lost' = [lost EXCEPT ![call[d].note] = @ + 1]
    /\ UNCHANGED <<outbox, tries, refused, asked, cut>>

\* isPermanent: 403 and 400.
Refuse(d) ==
    LET n == call[d].note IN
    /\ Calling(d)
    /\ Draft(d, n, [status |-> "failed", attempts |-> row[n].attempts + 1, wait |-> 0])
    /\ Count(n)
    /\ refused' = refused \cup {n}
    /\ UNCHANGED <<inbox, faults, lost, asked, cut>>

\* Fault: a 429 is retried like any other row of the next batch.
WaitAskedNot(wait, took) == 0

\* A 429: the wait counts from the moment before the call, too.
WaitAsked(wait, took) == Minus(wait, took)

TooMany(d) ==
    LET n == call[d].note IN
    /\ Calling(d)
    /\ faults < MaxFaults /\ faults' = faults + 1
    /\ \E wait \in Asks :
          /\ Draft(d, n, [row[n] EXCEPT !.wait = WaitAsked(wait, call[d].took)])
          /\ asked' = [asked EXCEPT ![n] = wait]
    /\ cut' = IF call[d].took > 0 THEN cut \cup {n} ELSE cut \ {n}
    /\ UNCHANGED <<inbox, lost, tries, refused>>

-----------------------------------------------------------------------------
(* How a run ends.                                                         *)
Close(d) ==
    /\ draft' = [draft EXCEPT ![d] = [n \in Notes |-> None]]
    /\ batch' = [batch EXCEPT ![d] = {}]
    /\ call' = [call EXCEPT ![d] = NoCall]

Commit(d) ==
    /\ batch[d] # {} /\ Left(d) = {}
    /\ row' = [n \in Notes |-> IF draft[d][n] # None THEN draft[d][n] ELSE row[n]]
    /\ Close(d)
    /\ UNCHANGED <<inbox, faults, history>>

\* The hub is evicted, an update fails, the connection drops: all is rolled
\* back.
Crash(d) ==
    LET sent == {n \in batch[d] : draft[d][n] # None /\ draft[d][n].status = "sent"} IN
    /\ batch[d] # {}
    /\ faults < MaxFaults /\ faults' = faults + 1
    /\ lost' = [n \in Notes |-> IF n \in sent THEN lost[n] + 1 ELSE lost[n]]
    /\ cut' = cut \cup batch[d]
    /\ Close(d)
    /\ UNCHANGED <<row, inbox, tries, refused, asked>>

Tick ==
    /\ row' = [n \in Notes |-> IF row[n] = None THEN None
                               ELSE [row[n] EXCEPT !.wait = Minus(@, 1)]]
    /\ draft' = [d \in Dispatchers |-> [n \in Notes |->
                    IF draft[d][n] = None THEN None
                    ELSE [draft[d][n] EXCEPT !.wait = Minus(@, 1)]]]
    /\ call' = [d \in Dispatchers |->
                    IF Calling(d) /\ call[d].took < MaxTook
                    THEN [call[d] EXCEPT !.took = @ + 1] ELSE call[d]]
    /\ asked' = [n \in Notes |-> Minus(asked[n], 1)]
    /\ UNCHANGED <<batch, inbox, faults, lost, tries, refused, cut>>

Answer(d) == Deliver(d) \/ Error(d) \/ Refuse(d) \/ TooMany(d)

Next ==
    \/ \E n \in Notes : Enqueue(n)
    \/ \E d \in Dispatchers :
          \/ Begin(d) \/ Reject(d) \/ Send(d) \/ Answer(d) \/ LoseAnswer(d)
          \/ Commit(d) \/ Crash(d)
    \/ Tick

Spec == Init /\ [][Next]_vars

\* The hub runs the job while rows are due (module Hub), a call ends, and time
\* passes.
Fairness ==
    /\ \A d \in Dispatchers :
          /\ WF_vars(Begin(d)) /\ WF_vars(Reject(d) \/ Send(d))
          /\ WF_vars(Answer(d)) /\ WF_vars(Commit(d))
    /\ WF_vars(Tick)

FairSpec == Spec /\ Fairness

-----------------------------------------------------------------------------
(* Properties.                                                             *)
TypeOK ==
    /\ row \in [Notes -> Row \cup {None}]
    /\ draft \in [Dispatchers -> [Notes -> Row \cup {None}]]
    /\ batch \in [Dispatchers -> SUBSET Notes]
    /\ call \in [Dispatchers -> [note : Notes \cup {None}, took : 0..MaxTook]]
    /\ inbox \in [Notes -> Nat] /\ lost \in [Notes -> Nat] /\ tries \in [Notes -> Nat]
    /\ faults \in 0..MaxFaults
    /\ refused \subseteq Notes /\ cut \subseteq Notes
    /\ asked \in [Notes -> Waits]
    /\ \A d \in Dispatchers : call[d].note # None => call[d].note \in Left(d)
    /\ \A d, e \in Dispatchers : d # e => batch[d] \cap batch[e] = {}

(* ADR-0009: "No notification is lost on a crash between state changed and *)
(* message sent": a row that says sent was delivered, however often runs   *)
(* died, overlapped or lost an answer on the way.                          *)
SentWasDelivered ==
    \A n \in Notes : row[n] # None /\ row[n].status = "sent" => inbox[n] > 0

(* The member gets a second copy only of a message whose delivery the      *)
(* outbox never heard of: overlapping runs and retries add none.           *)
CopiesAreAccountedFor ==
    \A n \in Notes : inbox[n] <= lost[n] + 1

(* A row is given up only for a reason: it cannot be rendered, Telegram    *)
(* refused it for good, or every delay was used and the call after the     *)
(* last one failed as well.  Rows that were rolled back lose no attempt.   *)
GivenUpForAReason ==
    \A n \in Notes : row[n] # None /\ row[n].status = "failed" =>
        \/ n \in refused
        \/ tries[n] > Len(Delays)

(* notifications-dispatch.ts: "a 429 waits exactly what Telegram asked".   *)
(* It does when the call took no time and the run that heard of it         *)
(* committed: next_attempt_at counts from the moment before the call.      *)
AsksNoEarlier ==
    [][\A d \in Dispatchers, n \in Notes \ cut :
          call[d].note = None /\ call'[d].note = n => asked[n] = 0]_vars

(* Every notification is sent or given up, whatever is lost on the way, as *)
(* long as faults end and the dispatcher is run.                           *)
EverySettles ==
    \A n \in Notes : Queued(n) ~> ~Queued(n)
=============================================================================
