------------------------------ MODULE LockOrder ------------------------------
(***************************************************************************)
(* Who waits for whom.  Every request and job of AgroBot takes row locks   *)
(* as its statements run and keeps them until its transaction ends.  This  *)
(* module keeps nothing else of them: a transaction is the sequence of the *)
(* locks it asks for, one after the other.  ARCH section 6: "Row locks are *)
(* taken in one order everywhere".                                         *)
(*                                                                         *)
(* Besides the explicit SELECT ... FOR UPDATE and FOR SHARE, an UPDATE     *)
(* locks its row, and an INSERT or UPDATE of a foreign key locks the row   *)
(* it refers to FOR KEY SHARE (ForeignKeys says whether to count those).   *)
(* A statement that locks several rows takes them in the order of its      *)
(* plan, so in any order.  The advisory lock of the catalogue is a row     *)
(* more, which the paths that change products lock first.                  *)
(***************************************************************************)
EXTENDS Integers, FiniteSets, SequencesExt

CONSTANTS Members, Offers, Rsvs, Products,
          Catalogue,   \* the advisory lock
          Sessions,    \* database sessions: each has at most one open transaction
          Idle,        \* not in a transaction
          ForeignKeys, \* whether foreign keys' locks are counted
          ProducerOf,  \* offer -> member
          ProductOf,   \* offer -> product
          OfferOf,     \* reservation -> offer
          RequesterOf, \* reservation -> member
          Admins,      \* the approved admins
          Paths        \* the paths this instance runs

AllPaths == {"create", "act", "deliver", "expire", "remind", "publish", "edit",
             "withdraw", "post", "memberAct", "propose", "rename", "merge", "sync",
             "rejectProduct"}

\* Those that lock one row of a table, or lock the catalogue and keep the order.
OrderedPaths == {"create", "act", "deliver", "publish", "edit", "withdraw", "post",
                 "propose", "rename", "sync", "rejectProduct"}

ASSUME LockAssumption ==
    /\ ForeignKeys \in BOOLEAN
    /\ ProducerOf \in [Offers -> Members] /\ ProductOf \in [Offers -> Products]
    /\ OfferOf \in [Rsvs -> Offers] /\ RequesterOf \in [Rsvs -> Members]
    /\ Admins \subseteq Members
    /\ Paths \subseteq AllPaths
    /\ IsFiniteSet(Members) /\ IsFiniteSet(Offers) /\ IsFiniteSet(Rsvs)
    /\ IsFiniteSet(Products)

\* The rows of one table are none of another.
ASSUME TablesAssumption ==
    /\ Members \cap (Products \cup Rsvs \cup Offers) = {}
    /\ Products \cap (Rsvs \cup Offers) = {} /\ Rsvs \cap Offers = {}
    /\ Catalogue \notin Members \cup Products \cup Rsvs \cup Offers

VARIABLES program, \* session -> the locks its path takes, or Idle
          taken    \* session -> how many of them it has

lockVars == <<program, taken>>

-----------------------------------------------------------------------------
(* Row locks of Postgres, weakest first, and which of them exclude which.  *)
Modes == {"keyshare", "share", "nokey", "update"}

Conflicts(a, b) ==
    \/ "update" \in {a, b}
    \/ "nokey" \in {a, b} /\ "keyshare" \notin {a, b}

Rows == Members \cup Offers \cup Rsvs \cup Products \cup {Catalogue}
Lock == [row: Rows, mode: Modes]

\* All but what a foreign key takes.
Strong(l) == l.mode # "keyshare"

Update(x) == [row |-> x, mode |-> "update"]
Share(x) == [row |-> x, mode |-> "share"]

\* The orders in which one statement may take the locks in mode of rows S.
AnyOrder(S, mode) ==
    {[i \in DOMAIN s |-> [row |-> s[i], mode |-> mode]] : s \in SetToSeqs(S)}

\* What the foreign keys that refer to the rows of S lock.
Refer(S) == IF ForeignKeys THEN AnyOrder(S, "keyshare") ELSE {<< >>}

\* The programs that go through one of P and then one of Q.
P ** Q == {p \o q : p \in P, q \in Q}

PartiesOf(r) == {RequesterOf[r], ProducerOf[OfferOf[r]]}

-----------------------------------------------------------------------------
(* The paths.                                                              *)

\* Actor, offer; then the row, its system line and N6 refer to the producer.
Create(a, o) == {<<Update(a), Update(o)>>} ** Refer({ProducerOf[o]})

\* confirm, reject, cancel: actor, reservation; N8 refers to the other party.
Act(a, r) == {<<Update(a), Update(r)>>} ** Refer(PartiesOf(r) \ {a})

\* deliver, confirm-and-deliver: the offer after the reservation.
Deliver(a, r) ==
    {<<Update(a), Update(r), Update(OfferOf[r])>>} ** Refer(PartiesOf(r) \ {a})

\* The jobs: the rows that are due, then N8 or N7 for each.
Expire(R) == AnyOrder(R, "update") ** Refer(UNION {PartiesOf(r) : r \in R})
Remind(R) == AnyOrder(R, "update") ** Refer({ProducerOf[OfferOf[r]] : r \in R})

\* The new offer refers to its product, N3 to every other member.
Publish(a, p) == {<<Update(a)>>} ** Refer({p}) ** Refer(Members \ {a})

\* An edit that puts the offer back on the board announces it again.
Edit(o) ==
    LET a == ProducerOf[o] IN
    {<<Update(a), Update(o)>>} ** (Refer({}) \cup Refer(Members \ {a}))

Withdraw(o) == {<<Update(ProducerOf[o]), Update(o)>>}

\* A message refers to the reservation and its sender, N9 to the other party.
Post(a, r) == {<<Share(a), Share(r)>>} ** Refer(PartiesOf(r) \ {a})

\* An admin's action: every approved admin, then the target.
MemberAct(target) ==
    AnyOrder(Admins, "update") ** {IF target \in Admins THEN << >> ELSE <<Update(target)>>}

OffersOf(p) == {o \in Offers : ProductOf[o] = p}
RsvsOf(p) == {r \in Rsvs : OfferOf[r] \in OffersOf(p)}

\* What every path of the catalogue begins with: its lock, then the actor's row.
Enter(a) == <<Update(Catalogue), Share(a)>>

\* The row refers to the proposer, N4 to the admins.
Propose(a) == {Enter(a)} ** Refer({a} \cup Admins)

\* A new name that is no product's.
Rename(a, p) == {Enter(a) \o <<Update(p)>>}

\* A name of the sheet: the offers move, they refer to the target, then every open
\* reservation of the target without a price gets one; N5 to those who made them, and
\* to the proposers M (one, or none who is still known).
Merge(a, p, target, R, M) ==
    {Enter(a) \o <<Update(p)>>}
        ** AnyOrder(OffersOf(p), "nokey") ** Refer({target})
        ** AnyOrder(R, "nokey") ** Refer({RequesterOf[r] : r \in R} \cup M)

MergeProduct(a, p, target) ==
    UNION {Merge(a, p, target, R, M) : R \in SUBSET (RsvsOf(p) \cup RsvsOf(target)),
                                       M \in {{}} \cup {{m} : m \in Members}}

MergeInto(a, p) == UNION {MergeProduct(a, p, target) : target \in Products \ {p}}

\* The reservations of a product get their prices as soon as the sheet's row for it
\* is written, and N5 follows: nothing comes between a product and what it resolves.
InTurn(s) ==
    \A j \in DOMAIN s : s[j] \in Rsvs =>
        \E i \in 1 .. (j - 1) : /\ s[i] = ProductOf[OfferOf[s[j]]]
                               /\ \A k \in (i + 1) .. j : s[k] \in Rsvs

\* The rows of the sheet that differ, in the sheet's order; those told are referred to.
Resolutions(Q, R, told) ==
    {[i \in DOMAIN s |-> [row |-> s[i], mode |-> IF s[i] \in told THEN "keyshare" ELSE "nokey"]] :
        s \in {x \in SetToSeqs(Q \cup R \cup told) : InTurn(x) /\ (Q # {} => x[1] \in Q)}}

\* By an admin, or by the schedule.
Sync(a, Q, R, M) ==
    {<<Update(Catalogue)>>, Enter(a)} **
    Resolutions(Q, R, IF ForeignKeys THEN {RequesterOf[r] : r \in R} \cup M ELSE {})

SyncProducts(a) ==
    UNION {Sync(a, Q, R, M) : Q \in SUBSET Products, R \in SUBSET Rsvs, M \in SUBSET Members}

\* The cascade of a rejected product: product, those of its reservations that are
\* open, those of its offers that are active.
Cascade(a, p, R, O) ==
    {Enter(a) \o <<Update(p)>>}
        ** AnyOrder(R, "update") ** Refer(UNION {PartiesOf(r) : r \in R})
        ** AnyOrder(O, "nokey") ** Refer({ProducerOf[o] : o \in O})

RejectProduct(a, p) ==
    UNION {Cascade(a, p, R, O) : R \in SUBSET RsvsOf(p), O \in SUBSET OffersOf(p)}

ProgramsOf(path) ==
    UNION CASE path = "create" -> {Create(a, o) : a \in Members, o \in Offers}
            [] path = "act" -> {Act(a, r) : a \in Members, r \in Rsvs}
            [] path = "deliver" -> {Deliver(a, r) : a \in Members, r \in Rsvs}
            [] path = "expire" -> {Expire(R) : R \in SUBSET Rsvs}
            [] path = "remind" -> {Remind(R) : R \in SUBSET Rsvs}
            [] path = "publish" -> {Publish(a, p) : a \in Members, p \in Products}
            [] path = "edit" -> {Edit(o) : o \in Offers}
            [] path = "withdraw" -> {Withdraw(o) : o \in Offers}
            [] path = "post" -> {Post(a, r) : a \in Members, r \in Rsvs}
            [] path = "memberAct" -> {MemberAct(m) : m \in Members}
            [] path = "propose" -> {Propose(a) : a \in Members}
            [] path = "rename" -> {Rename(a, p) : a \in Admins, p \in Products}
            [] path = "merge" -> {MergeInto(a, p) : a \in Admins, p \in Products}
            [] path = "sync" -> {SyncProducts(a) : a \in Admins}
            [] path = "rejectProduct" -> {RejectProduct(a, p) : a \in Admins, p \in Products}

Programs == UNION {ProgramsOf(path) : path \in Paths}

-----------------------------------------------------------------------------
OrderInit ==
    /\ program = [t \in Sessions |-> Idle]
    /\ taken = [t \in Sessions |-> 0]

Active(t) == program[t] # Idle
Waiting(t) == Active(t) /\ taken[t] < Len(program[t])
Asks(t) == program[t][taken[t] + 1]

\* u holds a lock that keeps t from the next one it asks for.
Blocks(u, t) ==
    /\ u # t /\ Active(u) /\ Waiting(t)
    /\ \E i \in 1..taken[u] :
          /\ program[u][i].row = Asks(t).row
          /\ Conflicts(program[u][i].mode, Asks(t).mode)

\* Fault: a service is given its caller's transaction, with the caller's locks.
BeginInside(t, p) ==
    /\ ~Waiting(t)
    /\ program' = [program EXCEPT ![t] = IF Active(t) THEN @ \o p ELSE p]
    /\ taken' = [taken EXCEPT ![t] = IF Active(t) THEN @ ELSE 0]

\* A service opens its own transaction on the pool.
StartProgram(t, p) ==
    /\ ~Active(t)
    /\ program' = [program EXCEPT ![t] = p]
    /\ taken' = [taken EXCEPT ![t] = 0]

Take(t) ==
    /\ Waiting(t)
    /\ \A u \in Sessions : ~Blocks(u, t)
    /\ taken' = [taken EXCEPT ![t] = @ + 1]
    /\ UNCHANGED program

\* Commit or rollback, after the last lock or before.
End(t) ==
    /\ Active(t)
    /\ program' = [program EXCEPT ![t] = Idle]
    /\ taken' = [taken EXCEPT ![t] = 0]

OrderNext == \E t \in Sessions : Take(t) \/ End(t) \/ \E p \in Programs : StartProgram(t, p)

OrderSpec == OrderInit /\ [][OrderNext]_lockVars

-----------------------------------------------------------------------------
(* Properties.                                                             *)
LocksOK ==
    /\ program \in [Sessions -> Programs \cup {Idle}]
    /\ taken \in [Sessions -> Nat]
    /\ \A t \in Sessions : taken[t] <= (IF Active(t) THEN Len(program[t]) ELSE 0)

(* u keeps t waiting with a lock that is not a foreign key's, nor asked    *)
(* for by one.                                                             *)
HoldsUp(u, t) ==
    /\ u # t /\ Active(u) /\ Waiting(t) /\ Strong(Asks(t))
    /\ \E i \in 1..taken[u] :
          /\ Strong(program[u][i]) /\ program[u][i].row = Asks(t).row
          /\ Conflicts(program[u][i].mode, Asks(t).mode)

(* No transactions hold each other up in a circle: of any of them, there   *)
(* is one whom no other keeps waiting with a row it locked, so Postgres    *)
(* never has to abort one for that (ARCH section 6: "Row locks are taken   *)
(* in one order everywhere [...] so the paths cannot deadlock").  The      *)
(* locks that foreign keys take are the exception: see README.             *)
NoDeadlock ==
    \A D \in SUBSET Sessions :
        D # {} => \E t \in D : \A u \in D : ~HoldsUp(u, t)

(* The order of ARCH section 6, with what is locked before it: the         *)
(* catalogue, the actor's row, and the products.                           *)
Rank(x) == IF x = Catalogue THEN 0 ELSE IF x \in Members THEN 1 ELSE IF x \in Products THEN 2
           ELSE IF x \in Rsvs THEN 3 ELSE 4
=============================================================================
