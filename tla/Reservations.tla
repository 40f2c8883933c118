---------------------------- MODULE Reservations ----------------------------
(***************************************************************************)
(* Offers and the reservations on them (apps/server/src/domain/offers and  *)
(* domain/reservations) as concurrent Postgres transactions.               *)
(*                                                                         *)
(* Every request and every job is a transaction under READ COMMITTED that  *)
(* goes through the statements of its function: lock the actor's row, lock *)
(* the rows it will write, read and check in a statement of its own, and   *)
(* commit all its writes at once.  Between two statements any other        *)
(* transaction may take a step.  A row lock is held from the statement     *)
(* that takes it to the end of its transaction; a locking statement whose  *)
(* row is taken waits, that is, it is not enabled.  A transaction may roll *)
(* back at any point: a guard refused it, Postgres chose it as the victim  *)
(* of a deadlock, or its isolate died.  The key locks that foreign keys    *)
(* take are left out: they only make transactions wait longer.             *)
(***************************************************************************)
EXTENDS Integers, Sequences, FiniteSets

CONSTANTS Members,  \* member ids
          Products, \* product ids, all of them offerable
          Offers,   \* offer ids
          Rsvs,     \* reservation ids
          Txs,      \* transactions that may be open at the same time
          None,     \* SQL null
          Keep,     \* a field the edit's patch leaves out
          MaxQty,   \* bound on quantities (QUANTITY_MAX in the code)
          MaxTime,  \* bound on the clock, in days of the farm's calendar
          Expiry,   \* reservation_expiry_hours, in days
          Reminder, \* reservation_reminder_hours_before_expiry, in days
          Ops,      \* the operations this instance runs
          Dates,    \* the available-until dates its producers choose from
          Suspendable \* the members its admin suspends and reinstates

Decisions == {"confirm", "reject", "cancel"}
Deliveries == {"deliver", "confirm-and-deliver"}
Actions == Decisions \cup Deliveries
OfferOps == {"edit", "withdraw"}
RsvJobs == {"expire", "remind"}
AllOps == {"create", "publish", "offers.expire"} \cup Actions \cup OfferOps \cup RsvJobs

ASSUME ConstantsAssumption ==
    /\ MaxQty \in Nat /\ MaxTime \in Nat /\ Expiry \in Nat /\ Reminder \in Nat
    /\ IsFiniteSet(Rsvs)
    /\ Ops \subseteq AllOps
    /\ Dates \subseteq 0..MaxTime
    /\ Suspendable \subseteq Members

ASSUME IdsAssumption ==
    /\ None \notin Int \cup Members \cup Products \cup Offers \cup Rsvs
    /\ Keep \notin Int \cup {None}
    /\ Members \cap Rsvs = {} /\ Members \cap Offers = {} /\ Rsvs \cap Offers = {}

VARIABLES now,       \* the clock, read once per transaction
          approved,  \* members whose status is approved
          offers,    \* the offers table
          rsv,       \* the reservations table
          lines,     \* reservation -> its thread's system lines, oldest first
          notes,     \* reservation -> outbox rows about it, oldest first
          tx,        \* transaction -> where it is and what it has read
          locks      \* transaction -> rows it has locked FOR UPDATE

tables == <<offers, rsv, lines, notes>>
vars == <<now, approved, offers, rsv, lines, notes, tx, locks>>

-----------------------------------------------------------------------------
Time == 0..MaxTime
Qty == 0..MaxQty
Rows == Members \cup Rsvs \cup Offers

Holding == {"pending", "confirmed"}
Closed == {"delivered", "rejected", "cancelled", "expired"}

NoOffer == [status |-> "absent", producer |-> None, product |-> None,
            quantity |-> 0, until |-> None]
NoRsv == [status |-> "absent", offer |-> None, requester |-> None, producer |-> None,
          quantity |-> 0, expiresAt |-> None, reminded |-> FALSE]
Idle == [op |-> "none", pc |-> "idle", at |-> 0, actor |-> None, rsv |-> None,
         offer |-> None, product |-> None, quantity |-> 0, until |-> None,
         todo |-> {}, rows |-> {}]

OfferRow == [status: {"absent", "active", "expired", "withdrawn"},
             producer: Members \cup {None}, product: Products \cup {None},
             quantity: Qty, until: Time \cup {None}]
RsvRow == [status: {"absent"} \cup Holding \cup Closed,
           offer: Offers \cup {None}, requester: Members \cup {None},
           producer: Members \cup {None}, quantity: Qty,
           expiresAt: Nat \cup {None}, reminded: BOOLEAN]
Line == [event: {"created", "confirmed"} \cup Closed, actor: Members \cup {None}]
Note == [kind: {"N6", "N7", "N8"}, to: Members \cup {None},
         decision: {None, "confirmed"} \cup Closed]
TxState == [op: {"none"} \cup Ops,
            pc: {"idle", "member", "rsv", "offer", "check", "scan", "rows", "commit"},
            at: Time, actor: Members \cup {None}, rsv: Rsvs \cup {None},
            offer: Offers \cup {None}, product: Products \cup {None},
            quantity: Qty \cup {Keep}, until: Time \cup {None, Keep},
            todo: SUBSET (Rsvs \cup Offers), rows: SUBSET (Rsvs \cup Offers)]

TypeOK ==
    /\ now \in Time
    /\ approved \subseteq Members
    /\ offers \in [Offers -> OfferRow]
    /\ rsv \in [Rsvs -> RsvRow]
    /\ lines \in [Rsvs -> Seq(Line)]
    /\ notes \in [Rsvs -> Seq(Note)]
    /\ tx \in [Txs -> TxState]
    /\ locks \in [Txs -> SUBSET Rows]

-----------------------------------------------------------------------------
(* The derived quantities of ARCH section 5, summed as the number of units *)
(* that the holding reservations of table f keep on offer o.               *)
HeldUnits(f, o) ==
    {ru \in Rsvs \X (1..MaxQty) :
        /\ f[ru[1]].status \in Holding
        /\ f[ru[1]].offer = o
        /\ ru[2] <= f[ru[1]].quantity}

Held(o) == Cardinality(HeldUnits(rsv, o))

(* whyNotReservable: what can be reserved, by whom, if enough is left.      *)
MayReserve(offer, m, today) ==
    /\ offer.producer # m
    /\ offer.status = "active"
    /\ offer.until # None => offer.until >= today
    /\ offer.producer \in approved

StatusAfterEdit(until, today) ==
    IF until # None /\ until < today THEN "expired" ELSE "active"

(* allowedActions: what a party may ask for in a status.                   *)
AllowedActions(status, isProducer) ==
    CASE status = "pending" /\ isProducer -> {"confirm", "reject", "confirm-and-deliver"}
      [] status = "pending" /\ ~isProducer -> {"cancel"}
      [] status = "confirmed" -> {"deliver", "cancel"}
      [] OTHER -> {}

StatusAfter(op) ==
    CASE op = "confirm" -> "confirmed"
      [] op = "reject" -> "rejected"
      [] op = "cancel" -> "cancelled"
      [] op \in Deliveries -> "delivered"

(* The rows a job's WHERE clause selects; a job that had to wait for a row *)
(* lock evaluates it again on the row as it then is.                       *)
IsDue(op, at, x) ==
    CASE op = "expire" ->
            /\ rsv[x].status = "pending"
            /\ rsv[x].expiresAt # None /\ rsv[x].expiresAt <= at
      [] op = "remind" ->
            /\ rsv[x].status = "pending" /\ ~rsv[x].reminded
            /\ rsv[x].expiresAt # None /\ rsv[x].expiresAt <= at + Reminder
      [] op = "offers.expire" ->
            /\ offers[x].status = "active"
            /\ offers[x].until # None /\ offers[x].until < at

(* assertNoOtherActive: one active offer per producer and product.         *)
NoOtherActive(m, p, except) ==
    \A o \in Offers \ {except} :
        ~(offers[o].status = "active" /\ offers[o].producer = m /\ offers[o].product = p)

-----------------------------------------------------------------------------
(* The steps every transaction shares.                                     *)
Init ==
    /\ now = 0
    /\ approved = Members
    /\ offers = [o \in Offers |-> NoOffer]
    /\ rsv = [r \in Rsvs |-> NoRsv]
    /\ lines = [r \in Rsvs |-> << >>]
    /\ notes = [r \in Rsvs |-> << >>]
    /\ tx = [t \in Txs |-> Idle]
    /\ locks = [t \in Txs |-> {}]

At(t, pc, ops) == tx[t].pc = pc /\ tx[t].op \in ops

Begin(t, state) ==
    /\ tx[t] = Idle
    /\ state.op \in Ops
    /\ tx' = [tx EXCEPT ![t] = state]
    /\ UNCHANGED <<now, approved, tables, locks>>

Goto(t, pc) == tx' = [tx EXCEPT ![t].pc = pc]

Free(row) == \A u \in Txs : row \notin locks[u]

Lock(t, row) ==
    /\ Free(row)
    /\ locks' = [locks EXCEPT ![t] = @ \cup {row}]

End(t) ==
    /\ tx' = [tx EXCEPT ![t] = Idle]
    /\ locks' = [locks EXCEPT ![t] = {}]
    /\ UNCHANGED <<now, approved>>

Rollback(t) ==
    /\ tx[t] # Idle
    /\ End(t)
    /\ UNCHANGED tables

(* Fault: the actor is read without FOR UPDATE.                            *)
LockMemberNot(t) ==
    /\ tx[t].pc = "member"
    /\ tx[t].actor \in approved
    /\ Goto(t, CASE tx[t].op \in Actions -> "rsv"
                 [] tx[t].op = "publish" -> "check"
                 [] OTHER -> "offer")
    /\ UNCHANGED <<now, approved, tables, locks>>

(* actorFrom: the actor's row is locked and their status read afresh.      *)
LockMember(t) ==
    /\ tx[t].pc = "member"
    /\ Lock(t, tx[t].actor)
    /\ tx[t].actor \in approved
    /\ Goto(t, CASE tx[t].op \in Actions -> "rsv"
                 [] tx[t].op = "publish" -> "check"
                 [] OTHER -> "offer")
    /\ UNCHANGED <<now, approved, tables>>

(* Fault: the reservation is read without FOR UPDATE.                      *)
LockRsvNot(t) ==
    /\ tx[t].pc = "rsv"
    /\ Goto(t, "check")
    /\ UNCHANGED <<now, approved, tables, locks>>

(* lockReservation.                                                        *)
LockRsv(t) ==
    /\ tx[t].pc = "rsv"
    /\ Lock(t, tx[t].rsv)
    /\ Goto(t, "check")
    /\ UNCHANGED <<now, approved, tables>>

(* Fault: create and edit read the offer without FOR UPDATE.               *)
LockOfferToDeductOnly(t) ==
    /\ tx[t].pc = "offer"
    /\ IF tx[t].op \in Deliveries
         THEN Lock(t, rsv[tx[t].rsv].offer) /\ Goto(t, "commit")
         ELSE Goto(t, "check") /\ UNCHANGED locks
    /\ UNCHANGED <<now, approved, tables>>

(* lockOfferRow and lockOffer: create, edit and withdraw lock the offer    *)
(* and read it next; a delivery locks it last, to deduct.                  *)
LockOffer(t) ==
    /\ tx[t].pc = "offer"
    /\ IF tx[t].op \in Deliveries
         THEN Lock(t, rsv[tx[t].rsv].offer) /\ Goto(t, "commit")
         ELSE Lock(t, tx[t].offer) /\ Goto(t, "check")
    /\ UNCHANGED <<now, approved, tables>>

-----------------------------------------------------------------------------
(* create: reserve part of an offer.                                       *)
BeginCreate(t, m, o, q) ==
    /\ offers[o].status # "absent"
    /\ Begin(t, [Idle EXCEPT !.op = "create", !.pc = "member", !.at = now,
                             !.actor = m, !.offer = o, !.quantity = q])

CheckCreate(t) ==
    LET o == tx[t].offer IN
    /\ At(t, "check", {"create"})
    /\ MayReserve(offers[o], tx[t].actor, tx[t].at)
    /\ tx[t].quantity <= offers[o].quantity - Held(o)
    /\ Goto(t, "commit")
    /\ UNCHANGED <<now, approved, tables, locks>>

(* writeSystemLine: one line of the thread, and who caused it.             *)
LineBy(t, event) == [event |-> event, actor |-> tx[t].actor]

CommitCreate(t, r) ==
    LET o == tx[t].offer
        producer == offers[o].producer IN
    /\ At(t, "commit", {"create"})
    /\ rsv[r].status = "absent"
    /\ rsv' = [rsv EXCEPT ![r] =
                 [status |-> "pending", offer |-> o, requester |-> tx[t].actor,
                  producer |-> producer, quantity |-> tx[t].quantity,
                  expiresAt |-> tx[t].at + Expiry, reminded |-> FALSE]]
    /\ lines' = [lines EXCEPT ![r] =
                   Append(@, LineBy(t, "created"))]
    /\ notes' = [notes EXCEPT ![r] =
                   Append(@, [kind |-> "N6", to |-> producer, decision |-> None])]
    /\ End(t)
    /\ UNCHANGED offers

-----------------------------------------------------------------------------
(* act: confirm, reject, cancel, deliver and confirm-and-deliver.          *)
BeginAct(t, m, r, action) ==
    /\ rsv[r].status # "absent"
    /\ Begin(t, [Idle EXCEPT !.op = action, !.pc = "member", !.at = now,
                             !.actor = m, !.rsv = r])

CheckAct(t) ==
    LET row == rsv[tx[t].rsv]
        m == tx[t].actor IN
    /\ At(t, "check", Actions)
    /\ m \in {row.requester, row.producer}
    /\ tx[t].op \in AllowedActions(row.status, m # row.requester)
    /\ Goto(t, IF tx[t].op \in Deliveries THEN "offer" ELSE "commit")
    /\ UNCHANGED <<now, approved, tables, locks>>

OtherParty(row, m) == IF m = row.requester THEN row.producer ELSE row.requester

(* The row change, the system lines and the N8 of one action.              *)
Apply(t, written) ==
    LET r == tx[t].rsv
        status == StatusAfter(tx[t].op) IN
    /\ rsv' = [rsv EXCEPT ![r].status = status, ![r].expiresAt = None]
    /\ lines' = [lines EXCEPT ![r] = @ \o written]
    /\ notes' = [notes EXCEPT ![r] =
                   Append(@, [kind |-> "N8", to |-> OtherParty(rsv[r], tx[t].actor),
                              decision |-> status])]
    /\ End(t)

CommitDecision(t) ==
    /\ At(t, "commit", Decisions)
    /\ Apply(t, <<LineBy(t, StatusAfter(tx[t].op))>>)
    /\ UNCHANGED offers

(* Fault: a delivery only stops holding, as every other ending does.       *)
DeductNothing(o, q) == UNCHANGED offers

Deduct(o, q) == offers' = [offers EXCEPT ![o].quantity = @ - q]

CommitDelivery(t) ==
    LET row == rsv[tx[t].rsv] IN
    /\ At(t, "commit", Deliveries)
    /\ Deduct(row.offer, row.quantity)
    /\ Apply(t, IF tx[t].op = "deliver"
                  THEN <<LineBy(t, "delivered")>>
                  ELSE <<LineBy(t, "confirmed"), LineBy(t, "delivered")>>)

-----------------------------------------------------------------------------
(* publish, edit and withdraw: the producer's own offers.                  *)
BeginPublish(t, m, p, q, u) ==
    /\ u # None => u >= now
    /\ Begin(t, [Idle EXCEPT !.op = "publish", !.pc = "member", !.at = now,
                             !.actor = m, !.product = p, !.quantity = q, !.until = u])

CheckPublish(t) ==
    /\ At(t, "check", {"publish"})
    /\ NoOtherActive(tx[t].actor, tx[t].product, None)
    /\ Goto(t, "commit")
    /\ UNCHANGED <<now, approved, tables, locks>>

CommitPublish(t, o) ==
    /\ At(t, "commit", {"publish"})
    /\ offers[o].status = "absent"
    /\ offers' = [offers EXCEPT ![o] =
                    [status |-> "active", producer |-> tx[t].actor,
                     product |-> tx[t].product, quantity |-> tx[t].quantity,
                     until |-> tx[t].until]]
    /\ End(t)
    /\ UNCHANGED <<rsv, lines, notes>>

BeginEdit(t, m, o, q, u) ==
    /\ offers[o].status # "absent"
    /\ Begin(t, [Idle EXCEPT !.op = "edit", !.pc = "member", !.at = now,
                             !.actor = m, !.offer = o, !.quantity = q, !.until = u])

(* The offer as the patch leaves it.                                       *)
Patched(t) ==
    LET before == offers[tx[t].offer]
        until == IF tx[t].until = Keep THEN before.until ELSE tx[t].until IN
    [before EXCEPT !.quantity = IF tx[t].quantity = Keep THEN @ ELSE tx[t].quantity,
                   !.until = until,
                   !.status = StatusAfterEdit(until, tx[t].at)]

CheckEdit(t) ==
    LET o == tx[t].offer
        before == offers[o] IN
    /\ At(t, "check", {"edit"})
    /\ before.producer = tx[t].actor
    /\ tx[t].quantity # Keep => tx[t].quantity >= Held(o)
    /\ tx[t].until \notin {Keep, None} => tx[t].until >= tx[t].at
    /\ (Patched(t).status = "active" /\ before.status # "active")
         => NoOtherActive(tx[t].actor, before.product, o)
    /\ Goto(t, "commit")
    /\ UNCHANGED <<now, approved, tables, locks>>

CommitEdit(t) ==
    /\ At(t, "commit", {"edit"})
    /\ offers' = [offers EXCEPT ![tx[t].offer] = Patched(t)]
    /\ End(t)
    /\ UNCHANGED <<rsv, lines, notes>>

BeginWithdraw(t, m, o) ==
    /\ offers[o].status # "absent"
    /\ Begin(t, [Idle EXCEPT !.op = "withdraw", !.pc = "member", !.at = now,
                             !.actor = m, !.offer = o])

CheckWithdraw(t) ==
    /\ At(t, "check", {"withdraw"})
    /\ offers[tx[t].offer].producer = tx[t].actor
    /\ offers[tx[t].offer].status # "withdrawn"
    /\ Goto(t, "commit")
    /\ UNCHANGED <<now, approved, tables, locks>>

CommitWithdraw(t) ==
    /\ At(t, "commit", {"withdraw"})
    /\ offers' = [offers EXCEPT ![tx[t].offer].status = "withdrawn"]
    /\ End(t)
    /\ UNCHANGED <<rsv, lines, notes>>

-----------------------------------------------------------------------------
(* The deadline jobs: one statement finds the due rows in its snapshot and *)
(* locks them one after the other, and the commit changes them all.        *)
BeginJob(t, job) ==
    Begin(t, [Idle EXCEPT !.op = job, !.pc = "scan", !.at = now])

Scan(t) ==
    /\ tx[t].pc = "scan"
    /\ tx' = [tx EXCEPT ![t].pc = "rows",
                        ![t].todo = {x \in IF tx[t].op \in RsvJobs THEN Rsvs ELSE Offers :
                                        IsDue(tx[t].op, tx[t].at, x)}]
    /\ UNCHANGED <<now, approved, tables, locks>>

(* Fault: the row is taken as the snapshot had it.                         *)
StillDueAlways(t, x) == TRUE

StillDue(t, x) == IsDue(tx[t].op, tx[t].at, x)

LockRow(t, x) ==
    /\ tx[t].pc = "rows"
    /\ x \in tx[t].todo
    /\ Lock(t, x)
    /\ tx' = [tx EXCEPT ![t].todo = @ \ {x},
                        ![t].rows = IF StillDue(t, x) THEN @ \cup {x} ELSE @]
    /\ UNCHANGED <<now, approved, tables>>

JobReady(t, job) == At(t, "rows", {job}) /\ tx[t].todo = {}

CommitExpire(t) ==
    LET due == tx[t].rows IN
    /\ JobReady(t, "expire")
    /\ rsv' = [r \in Rsvs |->
                 IF r \in due THEN [rsv[r] EXCEPT !.status = "expired"] ELSE rsv[r]]
    /\ lines' = [r \in Rsvs |->
                   IF r \in due THEN Append(lines[r], [event |-> "expired", actor |-> None])
                                ELSE lines[r]]
    /\ notes' = [r \in Rsvs |->
                   IF r \in due
                   THEN notes[r] \o <<[kind |-> "N8", to |-> rsv[r].requester,
                                       decision |-> "expired"],
                                      [kind |-> "N8", to |-> rsv[r].producer,
                                       decision |-> "expired"]>>
                   ELSE notes[r]]
    /\ End(t)
    /\ UNCHANGED offers

(* Fault: the reminder leaves no trace on the reservation.                 *)
CommitRemindUnmarked(t) ==
    LET due == tx[t].rows IN
    /\ JobReady(t, "remind")
    /\ notes' = [r \in Rsvs |->
                   IF r \in due
                   THEN Append(notes[r], [kind |-> "N7", to |-> rsv[r].producer,
                                          decision |-> None])
                   ELSE notes[r]]
    /\ End(t)
    /\ UNCHANGED <<offers, rsv, lines>>

CommitRemind(t) ==
    LET due == tx[t].rows IN
    /\ JobReady(t, "remind")
    /\ rsv' = [r \in Rsvs |->
                 IF r \in due THEN [rsv[r] EXCEPT !.reminded = TRUE] ELSE rsv[r]]
    /\ notes' = [r \in Rsvs |->
                   IF r \in due
                   THEN Append(notes[r], [kind |-> "N7", to |-> rsv[r].producer,
                                          decision |-> None])
                   ELSE notes[r]]
    /\ End(t)
    /\ UNCHANGED <<offers, lines>>

CommitOffersExpire(t) ==
    /\ JobReady(t, "offers.expire")
    /\ offers' = [o \in Offers |->
                    IF o \in tx[t].rows THEN [offers[o] EXCEPT !.status = "expired"]
                                        ELSE offers[o]]
    /\ End(t)
    /\ UNCHANGED <<rsv, lines, notes>>

-----------------------------------------------------------------------------
(* The surroundings: the clock, and an admin who suspends or reinstates a  *)
(* member (members.act, which locks the member's row too).                 *)
Tick ==
    /\ now < MaxTime
    /\ now' = now + 1
    /\ UNCHANGED <<approved, tables, tx, locks>>

SetApproved(m) ==
    /\ Free(m)
    /\ approved' = IF m \in approved THEN approved \ {m} ELSE approved \cup {m}
    /\ UNCHANGED <<now, tables, tx, locks>>

(* What an edit does to the date; where none has one there is nothing to do. *)
Patches == IF Dates = {} THEN {Keep} ELSE Dates \cup {None, Keep}

BeginRequest(t) ==
    \E m \in Members :
        \/ \E o \in Offers, q \in 1..MaxQty : BeginCreate(t, m, o, q)
        \/ \E r \in Rsvs, action \in Actions : BeginAct(t, m, r, action)
        \/ \E p \in Products, q \in 1..MaxQty, u \in Dates \cup {None} :
              BeginPublish(t, m, p, q, u)
        \/ \E o \in Offers, q \in Qty \cup {Keep}, u \in Patches :
              BeginEdit(t, m, o, q, u)
        \/ \E o \in Offers : BeginWithdraw(t, m, o)

Request(t) ==
    \/ BeginRequest(t)
    \/ LockMember(t) \/ LockRsv(t) \/ LockOffer(t)
    \/ CheckCreate(t) \/ CheckAct(t) \/ CheckPublish(t) \/ CheckEdit(t) \/ CheckWithdraw(t)
    \/ \E r \in Rsvs : CommitCreate(t, r)
    \/ \E o \in Offers : CommitPublish(t, o)
    \/ CommitDecision(t) \/ CommitDelivery(t) \/ CommitEdit(t) \/ CommitWithdraw(t)

Job(t) ==
    \/ \E job \in RsvJobs \cup {"offers.expire"} : BeginJob(t, job)
    \/ Scan(t)
    \/ \E x \in Rsvs \cup Offers : LockRow(t, x)
    \/ CommitExpire(t) \/ CommitRemind(t) \/ CommitOffersExpire(t)

Next ==
    \/ \E t \in Txs : Request(t) \/ Job(t) \/ Rollback(t)
    \/ Tick
    \/ \E m \in Suspendable : SetApproved(m)

Spec == Init /\ [][Next]_vars

-----------------------------------------------------------------------------
(* What is promised.                                                       *)

(* Never more is held on an offer than it still has, whatever its status:  *)
(* create, edit and deliver are the three that could break it, each after  *)
(* reading the offer in an earlier statement (ARCH section 6, create).     *)
NoOversell == \A o \in Offers : Held(o) <= offers[o].quantity

Events(r) == [i \in DOMAIN lines[r] |-> lines[r][i].event]

Stories(status) ==
    CASE status = "absent" -> {<< >>}
      [] status = "pending" -> {<<"created">>}
      [] status = "confirmed" -> {<<"created", "confirmed">>}
      [] status = "delivered" -> {<<"created", "confirmed", "delivered">>}
      [] status = "cancelled" -> {<<"created", "cancelled">>,
                                  <<"created", "confirmed", "cancelled">>}
      [] status \in {"rejected", "expired"} -> {<<"created", status>>}

(* The thread tells how the reservation came to its status: one path of    *)
(* the state machine, in order, each step once, whichever parties and jobs *)
(* acted on it at the same time.                                           *)
ThreadTellsStatus == \A r \in Rsvs : Events(r) \in Stories(rsv[r].status)

(* Where in its outbox rows a party of r is told how r ended.              *)
Endings(r, m) ==
    {i \in DOMAIN notes[r] : /\ notes[r][i].kind = "N8" /\ notes[r][i].to = m
                             /\ notes[r][i].decision # "confirmed"}

(* Once a reservation is closed each party has been told exactly once how  *)
(* it ended, the one who ended it excepted, and nobody was told of another *)
(* ending: a decision and an expiry that race leave one of them standing.  *)
ToldOnce(r) ==
    LET closing == lines[r][Len(lines[r])] IN
    \A m \in {rsv[r].requester, rsv[r].producer} :
        IF m = closing.actor THEN Endings(r, m) = {}
        ELSE \E i \in DOMAIN notes[r] : /\ Endings(r, m) = {i}
                                       /\ notes[r][i].decision = rsv[r].status

ClosingToldOnce == \A r \in Rsvs : rsv[r].status \in Closed => ToldOnce(r)

(* The producer is reminded at most once, and never of a reservation that  *)
(* was already answered or had expired when the job got its lock.          *)
RemindedOnce(r) ==
    \A i, j \in DOMAIN notes[r] :
        (notes[r][i].kind = "N7" /\ i # j /\ notes[r][j].kind \in {"N7", "N8"}) => i < j

RemindedOnceWhilePending == \A r \in Rsvs : RemindedOnce(r)

(* An offer is expired only when its date has passed, even when the        *)
(* producer moves the date while the nightly job waits for the row.        *)
ExpiredOfferIsPast ==
    \A o \in Offers : offers[o].status = "expired" =>
        offers[o].until # None /\ offers[o].until < now

Moves == {<<"absent", "pending">>, <<"pending", "confirmed">>, <<"pending", "delivered">>,
          <<"pending", "rejected">>, <<"pending", "cancelled">>, <<"pending", "expired">>,
          <<"confirmed", "delivered">>, <<"confirmed", "cancelled">>}

(* A status only moves along the reservation machine of ARCH section 6,    *)
(* and a closed reservation never changes again, its thread and its        *)
(* notifications included.                                                 *)
FollowsTheMachine ==
    [][\A r \in Rsvs :
         /\ rsv'[r].status # rsv[r].status => <<rsv[r].status, rsv'[r].status>> \in Moves
         /\ rsv[r].status \in Closed => UNCHANGED <<rsv[r], lines[r], notes[r]>>]_vars

Requests == {"create", "publish"} \cup OfferOps \cup Actions
Jobs == RsvJobs \cup {"offers.expire"}

(* Whatever a member's request writes, be it an offer, a reservation, its  *)
(* thread or a notification, is written while that member is approved, and *)
(* no thread gets a line of a member who is not: the status read under the *)
(* row lock, statements before the commit, cannot change until it.         *)
OnlyApprovedAct ==
    [][/\ \A t \in Txs :
            (tables' # tables /\ tx'[t] # tx[t] /\ tx[t].op \in Requests)
              => tx[t].actor \in approved
       /\ \A r \in Rsvs : lines'[r] # lines[r] =>
            lines'[r][Len(lines'[r])].actor \in approved \cup {None}]_vars

(* A producer has at most one active offer of a product.  publish and edit *)
(* count the others in one statement and write in a later one; the lock on *)
(* the producer's row is what keeps two of them apart.  The partial unique *)
(* index behind it is left out here, so that nothing but the code keeps    *)
(* this: its violation is caught nowhere and would be an internal error.   *)
OneActiveOffer ==
    \A o \in Offers : offers[o].status = "active" =>
        NoOtherActive(offers[o].producer, offers[o].product, o)

(* Every commit is a step of the abstract stock, or leaves it alone.       *)
HoldState(status) ==
    CASE status = "absent" -> "none"
      [] status \in Holding -> "held"
      [] status = "delivered" -> "delivered"
      [] OTHER -> "released"

Ledger == INSTANCE Stock WITH
    stock <- [o \in Offers |-> offers[o].quantity],
    hold <- [r \in Rsvs |-> [state |-> HoldState(rsv[r].status), offer |-> rsv[r].offer,
                             quantity |-> rsv[r].quantity]]

(* Delivered deducts, everything else releases, and nothing else moves a   *)
(* quantity (ARCH section 5): offers and reservations, with all their      *)
(* transactions, implement the atomic stock.                               *)
ImplementsStock == Ledger!StockSpec

-----------------------------------------------------------------------------
(* Why NoOversell is preserved: the inductive invariant, in named parts.   *)
OnOneOffer == {"create"} \cup OfferOps

(* No row is locked by two transactions.                                   *)
LocksDisjoint == \A t, u \in Txs : t # u => locks[t] \cap locks[u] = {}

(* Each transaction is at a statement of its own function.                 *)
TxShape(t) ==
    LET s == tx[t] IN
    /\ s.pc = "member" => s.op \in Requests
    /\ s.pc = "rsv" => s.op \in Actions
    /\ s.pc = "offer" => s.op \in OnOneOffer \cup Deliveries
    /\ s.pc \in {"scan", "rows"} => s.op \in Jobs
    /\ s.op \in Requests => s.actor \in Members
    /\ s.op \in Actions => s.rsv \in Rsvs /\ rsv[s.rsv].status # "absent"
    /\ s.op \in OnOneOffer => s.offer \in Offers /\ offers[s.offer].status # "absent"
    /\ s.op \in {"create", "publish"} => s.quantity \in 1..MaxQty /\ s.until # Keep
    /\ s.op \in RsvJobs => s.todo \cup s.rows \subseteq Rsvs
    /\ s.op = "offers.expire" => s.todo \cup s.rows \subseteq Offers
    /\ s.op \notin Jobs => s.rows = {}

(* What it has read, or is about to write, it has locked.                  *)
TxLocks(t) ==
    LET s == tx[t] IN
    /\ (s.op \in OnOneOffer /\ s.pc \in {"check", "commit"}) => s.offer \in locks[t]
    /\ (s.op \in Actions /\ s.pc \in {"check", "offer", "commit"}) => s.rsv \in locks[t]
    /\ (s.op \in Deliveries /\ s.pc = "commit") => rsv[s.rsv].offer \in locks[t]
    /\ s.rows \subseteq locks[t]

(* What it has checked still holds when it commits.                        *)
TxChecks(t) ==
    LET s == tx[t] IN
    /\ (s.op \in Actions /\ s.pc \in {"offer", "commit"}) => rsv[s.rsv].status \in Holding
    /\ (s.op = "create" /\ s.pc = "commit") =>
         Held(s.offer) + s.quantity <= offers[s.offer].quantity
    /\ (s.op = "edit" /\ s.pc = "commit" /\ s.quantity # Keep) =>
         Held(s.offer) <= s.quantity
    /\ \A x \in s.rows : IsDue(s.op, s.at, x)

(* A reservation names its offer and its parties; an absent offer is empty.*)
RowsShape ==
    /\ \A r \in Rsvs : rsv[r].status # "absent" =>
         /\ rsv[r].offer \in Offers
         /\ {rsv[r].requester, rsv[r].producer} \subseteq Members
    /\ \A o \in Offers :
         IF offers[o].status = "absent" THEN offers[o].quantity = 0
                                        ELSE offers[o].producer \in Members

(* The invariant the proof of NoOversell rests on: between the statement   *)
(* that read what is left and the commit that uses it, the offer's row is  *)
(* locked, so what was read can only have grown.                           *)
IInv ==
    /\ TypeOK
    /\ LocksDisjoint
    /\ \A t \in Txs : TxShape(t) /\ TxLocks(t) /\ TxChecks(t)
    /\ RowsShape
    /\ NoOversell

(* Why the history is right: what a transaction has read of the parties,   *)
(* the status and the clock still holds, and each status has its notes.    *)
TxStory(t) ==
    LET s == tx[t] IN
    /\ s.at <= now
    /\ (s.op \in Requests /\ s.pc # "member") =>
         s.actor \in locks[t] /\ s.actor \in approved
    /\ (s.op \in Actions /\ s.pc \in {"offer", "commit"}) =>
         LET row == rsv[s.rsv] IN
         /\ s.actor \in {row.requester, row.producer}
         /\ s.op \in AllowedActions(row.status, s.actor # row.requester)
    /\ (s.op = "create" /\ s.pc = "commit") => offers[s.offer].producer # s.actor

NotesStory(r) ==
    LET row == rsv[r] IN
    /\ row.status = "absent" => notes[r] = << >>
    /\ row.status # "absent" => row.requester # row.producer
    /\ \A i \in DOMAIN notes[r] :
         /\ notes[r][i].kind = "N8" => row.status # "pending"
         /\ notes[r][i].kind = "N7" => row.reminded
         /\ (notes[r][i].kind = "N8" /\ notes[r][i].decision # "confirmed")
              => row.status \notin Holding
    /\ RemindedOnce(r)
    /\ row.status \in Closed => ToldOnce(r)

RsvStory(r) == Events(r) \in Stories(rsv[r].status) /\ NotesStory(r)

(* The inductive invariant of everything but NoOversell.                   *)
HInv ==
    /\ IInv
    /\ \A t \in Txs : TxStory(t)
    /\ \A r \in Rsvs : RsvStory(r)
    /\ ExpiredOfferIsPast

(* What publish and edit counted still holds when they write: the lock on  *)
(* their producer's row keeps every other offer of theirs from being       *)
(* published or relisted in between.                                       *)
TxCounts(t) ==
    LET s == tx[t] IN
    /\ At(t, "commit", {"publish"}) => NoOtherActive(s.actor, s.product, None)
    /\ At(t, "commit", {"edit"}) =>
         /\ offers[s.offer].producer = s.actor
         /\ Patched(t).status = "active" =>
              NoOtherActive(s.actor, offers[s.offer].product, s.offer)

(* The invariant the proof of OneActiveOffer rests on.                     *)
OInv ==
    /\ HInv
    /\ OneActiveOffer
    /\ \A t \in Txs : TxCounts(t)

=============================================================================
