------------------------------- MODULE Members -------------------------------
(***************************************************************************)
(* Who is in: people knock (identify), admins act on them and pre-approve  *)
(* them with invites.  Each operation is a transaction at READ COMMITTED   *)
(* whose locking statements are steps of their own; its writes appear when *)
(* it commits.                                                             *)
(***************************************************************************)
EXTENDS Integers, FiniteSets

CONSTANTS Persons,
          InitialAdmins, \* approved admins at the start
          ConfigAdmins,  \* ADMIN_TELEGRAM_IDS
          Invites,       \* identifiers a pre-approval may name
          Covers,        \* invite -> the persons its identifier matches
          Txs, None,
          Ops            \* the operations this instance runs, and the actions
                         \* of an admin on a member

Operations == {"identify", "createInvite", "deleteInvite"}
Actions == {"approve", "reject", "suspend", "reinstate", "promote", "demote"}

ASSUME MembersAssumption ==
    /\ IsFiniteSet(Persons)
    /\ InitialAdmins \subseteq Persons /\ InitialAdmins # {}
    /\ ConfigAdmins \subseteq Persons
    /\ Covers \in [Invites -> SUBSET Persons]
    /\ Ops \subseteq Operations \cup Actions

VARIABLES status,   \* person -> status of their row, or "none"
          role,     \* person -> "member" or "admin"
          invite,   \* invite -> "none", "open", "used"
          n1,       \* person -> times the admins were told they applied
          tx,       \* transaction -> where it is
          held,     \* transaction -> rows it has locked
          admitted  \* history: invite -> persons it approved since created

vars == <<status, role, invite, n1, tx, held, admitted>>
data == <<status, role, invite, n1, admitted>>

-----------------------------------------------------------------------------
Statuses == {"none", "pending", "approved", "rejected", "suspended"}

NoTx == [step |-> "idle", op |-> "act", who |-> None, target |-> None, action |-> "approve",
         invite |-> None, rows |-> {}, count |-> 0]

TxState ==
    [step : {"idle", "invite", "member", "insert", "created", "waiting", "known",
             "admins", "rows", "target", "match", "commit"},
     op : {"identify", "act", "createInvite", "deleteInvite"},
     who : Persons \cup {None}, target : Persons \cup {None}, action : Actions,
     invite : Invites \cup {None}, rows : SUBSET Persons, count : Nat]

Free(t) == tx[t].step = "idle"
Set(t, s) == tx' = [tx EXCEPT ![t] = s]
At(t, op, step) == tx[t].op = op /\ tx[t].step = step

Exists(p) == status[p] # "none"
IsActiveAdmin(p) == status[p] = "approved" /\ role[p] = "admin"
ActiveAdmins == {p \in Persons : IsActiveAdmin(p)}

\* Rows that other transactions have locked.
Taken(t) == UNION {held[u] : u \in Txs \ {t}}

\* The next step of t, and the rows it locks for it.
Step(t, s, rows) ==
    /\ rows \cap Taken(t) = {}
    /\ Set(t, s)
    /\ held' = [held EXCEPT ![t] = @ \cup rows]
    /\ UNCHANGED data

End(t) ==
    /\ Set(t, NoTx)
    /\ held' = [held EXCEPT ![t] = {}]

Refuse(t) == End(t) /\ UNCHANGED data

Rollback(t) == ~Free(t) /\ Refuse(t)

Init ==
    /\ status = [p \in Persons |-> IF p \in InitialAdmins THEN "approved" ELSE "none"]
    /\ role = [p \in Persons |-> IF p \in InitialAdmins THEN "admin" ELSE "member"]
    /\ invite = [i \in Invites |-> "none"]
    /\ n1 = [p \in Persons |-> 0]
    /\ tx = [t \in Txs |-> NoTx]
    /\ held = [t \in Txs |-> {}]
    /\ admitted = [i \in Invites |-> {}]

-----------------------------------------------------------------------------
(* identify: who is knocking.                                              *)
BeginIdentify(t, p) ==
    /\ Free(t) /\ "identify" \in Ops
    /\ Step(t, [NoTx EXCEPT !.op = "identify", !.step = "invite", !.who = p], {})

OpenFor(p) == {i \in Invites : invite[i] = "open" /\ p \in Covers[i]}

\* Fault: the invite is read without FOR UPDATE.
FindOpenInviteUnlocked(t) ==
    LET s == [tx[t] EXCEPT !.step = "member"] IN
    /\ At(t, "identify", "invite")
    /\ \/ OpenFor(s.who) = {} /\ Step(t, s, {})
       \/ \E i \in OpenFor(s.who) : Step(t, [s EXCEPT !.invite = i], {})

\* One open invite for this identity, if there is one, FOR UPDATE.
FindOpenInvite(t) ==
    LET s == [tx[t] EXCEPT !.step = "member"] IN
    /\ At(t, "identify", "invite")
    /\ \/ OpenFor(s.who) = {} /\ Step(t, s, {})
       \/ \E i \in OpenFor(s.who) : Step(t, [s EXCEPT !.invite = i], {i})

\* Fault: the member's row is read without FOR UPDATE.
FindMemberUnlocked(t) ==
    LET s == tx[t] IN
    /\ At(t, "identify", "member")
    /\ Step(t, [s EXCEPT !.step = IF ~Exists(s.who) THEN "insert"
                                  ELSE IF status[s.who] = "pending" THEN "waiting"
                                  ELSE "known"], {})

\* The member's row FOR UPDATE, if there is one.
FindMember(t) ==
    LET s == tx[t] IN
    /\ At(t, "identify", "member")
    /\ IF Exists(s.who)
       THEN Step(t, [s EXCEPT !.step = IF status[s.who] = "pending" THEN "waiting"
                                       ELSE "known"], {s.who})
       ELSE Step(t, [s EXCEPT !.step = "insert"], {})

\* Fault: the insert does not notice that the row is there.
InsertMemberBlindly(t) ==
    LET s == tx[t] IN
    /\ At(t, "identify", "insert")
    /\ Step(t, [s EXCEPT !.step = "created"], {s.who})

\* INSERT ... ON CONFLICT DO NOTHING: the new row is the transaction's own; a
\* parallel insert is waited for, and its row taken instead.
InsertMember(t) ==
    LET s == tx[t] IN
    /\ At(t, "identify", "insert")
    /\ Step(t, [s EXCEPT !.step = IF ~Exists(s.who) THEN "created"
                                  ELSE IF status[s.who] = "pending" THEN "waiting"
                                  ELSE "known"], {s.who})

\* resolveAutoApproval: configuration wins over invites.
AutoApproval(s) ==
    IF s.who \in ConfigAdmins THEN "admin"
    ELSE IF s.invite # None THEN "invite"
    ELSE "no"

\* What identify writes: a new row, an applicant who is approved now, or
\* nothing but the Telegram fields.
CommitIdentify(t) ==
    LET s == tx[t]
        p == s.who
        auto == AutoApproval(s)
        approves == s.step \in {"created", "waiting"} /\ auto # "no"
        applies == s.step = "created" /\ auto = "no" IN
    /\ s.op = "identify" /\ s.step \in {"created", "waiting", "known"}
    /\ status' = [status EXCEPT ![p] = IF approves THEN "approved"
                                       ELSE IF applies THEN "pending" ELSE @]
    /\ role' = [role EXCEPT ![p] = IF approves /\ auto = "admin" THEN "admin" ELSE @]
    /\ IF approves /\ auto = "invite"
       THEN /\ invite' = [invite EXCEPT ![s.invite] = IF @ = "open" THEN "used" ELSE @]
            /\ admitted' = [admitted EXCEPT ![s.invite] = @ \cup {p}]
       ELSE UNCHANGED <<invite, admitted>>
    /\ n1' = [n1 EXCEPT ![p] = IF applies /\ @ < 2 THEN @ + 1 ELSE @]
    /\ End(t)

-----------------------------------------------------------------------------
(* act: one of the six actions of an admin on a member.                    *)

\* The caller's copy of the actor, which an earlier transaction read.
BeginAct(t, actor, p, action) ==
    /\ Free(t) /\ action \in Ops
    /\ IsActiveAdmin(actor)
    /\ Exists(p)
    /\ Step(t, [NoTx EXCEPT !.op = "act", !.step = "admins", !.who = actor,
                            !.target = p, !.action = action], {})

\* Every approved admin FOR UPDATE: those of the snapshot, in any order ...
ScanAdmins(t) ==
    /\ At(t, "act", "admins")
    /\ Step(t, [tx[t] EXCEPT !.step = "rows", !.rows = ActiveAdmins], {})

\* Fault: the admins are counted without FOR UPDATE.
LockAdminNot(t) ==
    LET s == tx[t] IN
    /\ At(t, "act", "rows")
    /\ \E p \in s.rows :
          Step(t, [s EXCEPT !.rows = @ \ {p},
                            !.count = IF IsActiveAdmin(p) THEN @ + 1 ELSE @], {})

\* ... each looked at again when its lock is granted.
LockAdmin(t) ==
    LET s == tx[t] IN
    /\ At(t, "act", "rows")
    /\ \E p \in s.rows :
          Step(t, [s EXCEPT !.rows = @ \ {p},
                            !.count = IF IsActiveAdmin(p) THEN @ + 1 ELSE @], {p})

\* Fault: the caller's copy of the actor is trusted.
TrustActor(t) ==
    /\ At(t, "act", "rows") /\ tx[t].rows = {}
    /\ Step(t, [tx[t] EXCEPT !.step = "target"], {})

\* The actor's own row is the truth.
LockActor(t) ==
    LET s == tx[t] IN
    /\ At(t, "act", "rows") /\ s.rows = {}
    /\ IF IsActiveAdmin(s.who)
       THEN Step(t, [s EXCEPT !.step = "target"], {s.who})
       ELSE s.who \notin Taken(t) /\ Refuse(t)

LockTarget(t) ==
    /\ At(t, "act", "target")
    /\ Step(t, [tx[t] EXCEPT !.step = "commit"], {tx[t].target})

\* applyMemberAction: the states an action applies to, and what it makes.
Applies(p, action) ==
    CASE action = "approve" -> status[p] \in {"pending", "rejected"}
      [] action = "reject" -> status[p] = "pending"
      [] action = "suspend" -> status[p] = "approved"
      [] action = "reinstate" -> status[p] = "suspended"
      [] action = "promote" -> status[p] = "approved" /\ role[p] = "member"
      [] action = "demote" -> role[p] = "admin"

StatusAfter(p, action) ==
    CASE action \in {"approve", "reinstate"} -> "approved"
      [] action = "reject" -> "rejected"
      [] action = "suspend" -> "suspended"
      [] OTHER -> status[p]

RoleAfter(p, action) ==
    CASE action = "promote" -> "admin" [] action = "demote" -> "member" [] OTHER -> role[p]

WouldRemoveLastAdmin(p, action, count) ==
    IsActiveAdmin(p) /\ action \in {"suspend", "demote"} /\ count <= 1

CommitAct(t) ==
    LET s == tx[t] IN
    /\ At(t, "act", "commit")
    /\ IF Applies(s.target, s.action) /\ ~WouldRemoveLastAdmin(s.target, s.action, s.count)
       THEN /\ status' = [status EXCEPT ![s.target] = StatusAfter(s.target, s.action)]
            /\ role' = [role EXCEPT ![s.target] = RoleAfter(s.target, s.action)]
            /\ UNCHANGED <<invite, n1, admitted>>
            /\ End(t)
       ELSE Refuse(t)

-----------------------------------------------------------------------------
(* Invites.  Both operations check the caller's copy of the actor only.    *)
BeginInvite(t, op, actor, i) ==
    /\ Free(t) /\ op \in Ops
    /\ IsActiveAdmin(actor)
    /\ Step(t, [NoTx EXCEPT !.op = op, !.who = actor, !.invite = i,
                            !.step = IF op = "createInvite" THEN "match" ELSE "commit"], {})

\* The members this identifier matches, FOR UPDATE; the first one counts.
MatchMember(t) ==
    LET s == tx[t]
        matched == {p \in Covers[s.invite] : Exists(p)} IN
    /\ At(t, "createInvite", "match")
    /\ \/ matched = {} /\ Step(t, [s EXCEPT !.step = "insert"], {})
       \/ \E p \in matched :
             IF status[p] \in {"pending", "rejected"}
             THEN Step(t, [s EXCEPT !.step = "insert", !.target = p], matched)
             ELSE matched \cap Taken(t) = {} /\ Refuse(t)

\* INSERT ... ON CONFLICT DO NOTHING: one row per identifier.
InsertInvite(t) ==
    LET s == tx[t] IN
    /\ At(t, "createInvite", "insert")
    /\ IF invite[s.invite] = "none"
       THEN Step(t, [s EXCEPT !.step = "commit"], {s.invite})
       ELSE Refuse(t)

\* Someone already waiting is approved right away.
CommitCreateInvite(t) ==
    LET s == tx[t] IN
    /\ At(t, "createInvite", "commit")
    /\ IF s.target = None
       THEN /\ invite' = [invite EXCEPT ![s.invite] = "open"]
            /\ admitted' = [admitted EXCEPT ![s.invite] = {}]
            /\ UNCHANGED status
       ELSE /\ invite' = [invite EXCEPT ![s.invite] = "used"]
            /\ admitted' = [admitted EXCEPT ![s.invite] = {s.target}]
            /\ status' = [status EXCEPT ![s.target] = "approved"]
    /\ UNCHANGED <<role, n1>>
    /\ End(t)

CommitDeleteInvite(t) ==
    LET i == tx[t].invite IN
    /\ At(t, "deleteInvite", "commit")
    /\ i \notin Taken(t)
    /\ invite' = [invite EXCEPT ![i] = "none"]
    /\ admitted' = [admitted EXCEPT ![i] = {}]
    /\ UNCHANGED <<status, role, n1>>
    /\ End(t)

-----------------------------------------------------------------------------
Next ==
    \E t \in Txs :
        \/ \E p \in Persons : BeginIdentify(t, p)
        \/ FindOpenInvite(t) \/ FindMember(t) \/ InsertMember(t) \/ CommitIdentify(t)
        \/ \E a, p \in Persons, action \in Actions : BeginAct(t, a, p, action)
        \/ ScanAdmins(t) \/ LockAdmin(t) \/ LockActor(t) \/ LockTarget(t) \/ CommitAct(t)
        \/ \E a \in Persons, i \in Invites, op \in {"createInvite", "deleteInvite"} :
              BeginInvite(t, op, a, i)
        \/ MatchMember(t) \/ InsertInvite(t) \/ CommitCreateInvite(t)
        \/ CommitDeleteInvite(t)
        \/ Rollback(t)

Spec == Init /\ [][Next]_vars

-----------------------------------------------------------------------------
(* Properties.                                                             *)
TypeOK ==
    /\ status \in [Persons -> Statuses]
    /\ role \in [Persons -> {"member", "admin"}]
    /\ invite \in [Invites -> {"none", "open", "used"}]
    /\ n1 \in [Persons -> 0..2]
    /\ admitted \in [Invites -> SUBSET Persons]
    /\ tx \in [Txs -> TxState]
    /\ held \in [Txs -> SUBSET (Persons \cup Invites)]
    /\ \A i \in Invites : admitted[i] # {} => invite[i] = "used"

(* PRD US-1.4: "the group is never left without an admin", whichever       *)
(* admins suspend or demote each other, or themselves, at the same time.   *)
AdminRemains == ActiveAdmins # {}

(* Why: what a transaction has counted it still holds, nobody holds what   *)
(* another holds, and each writes only the member it holds.                *)
LocksDisjoint == \A t, u \in Txs : t # u => held[t] \cap held[u] = {}

HoldsWhatItCounted(s, h) ==
    /\ s.step = "idle" => h = {}
    /\ s.op = "act" /\ s.step = "admins" => h = {} /\ s.count = 0
    /\ s.op = "act" /\ s.step = "rows" => s.rows \cap h = {}
    /\ s.op = "act" /\ s.step \in {"rows", "target", "commit"}
          => s.count <= Cardinality(h \cap ActiveAdmins)

NamesItsRows(s) ==
    s.step # "idle" =>
        /\ s.who \in Persons
        /\ s.op = "act" => s.target \in Persons
        /\ s.op \in {"createInvite", "deleteInvite"} => s.invite \in Invites

HoldsWhatItWrites(s, h) ==
    /\ NamesItsRows(s)
    /\ s.op = "identify" /\ s.step \in {"created", "waiting"} => s.who \in h
    /\ s.op = "identify" /\ s.step = "created" => ~Exists(s.who)
    /\ s.op = "act" /\ s.step = "commit" => s.target \in h
    /\ s.op = "createInvite" /\ s.step = "match" => s.target = None
    /\ s.op = "createInvite" /\ s.step \in {"insert", "commit"} /\ s.target # None
          => s.target \in h

IInv ==
    /\ status \in [Persons -> Statuses]
    /\ role \in [Persons -> {"member", "admin"}]
    /\ tx \in [Txs -> TxState]
    /\ held \in [Txs -> SUBSET (Persons \cup Invites)]
    /\ LocksDisjoint
    /\ \A t \in Txs : HoldsWhatItCounted(tx[t], held[t]) /\ HoldsWhatItWrites(tx[t], held[t])
    /\ AdminRemains

(* PRD US-1.2: the admins hear of an applicant once, through whichever     *)
(* doors the person knocks, in parallel or again.                          *)
AnnouncedOnce == \A p \in Persons : n1[p] <= 1

(* PRD US-1.3: a pre-approval is consumed by the first person it matches.  *)
InviteAdmitsOne == \A i \in Invites : Cardinality(admitted[i]) <= 1

(* Why: what a transaction has read of a row it has locked still holds     *)
(* when it commits, and a row that was never written was never announced.  *)
KnowsWhatItRead(s, h) ==
    /\ s.op = "identify" /\ s.step = "invite" => s.invite = None
    /\ s.op = "identify" /\ s.step = "waiting" => status[s.who] = "pending"
    /\ s.op = "identify" /\ s.step \notin {"idle", "invite"} /\ s.invite # None
          => s.invite \in h /\ invite[s.invite] = "open"
    /\ s.op = "createInvite" /\ s.step = "commit" => s.invite \in h
    /\ s.op = "act" /\ s.step \in {"target", "commit"} => s.who \in h /\ IsActiveAdmin(s.who)

Announcements ==
    /\ n1 \in [Persons -> 0..2]
    /\ AnnouncedOnce
    /\ \A p \in Persons : ~Exists(p) => n1[p] = 0

Admissions ==
    /\ invite \in [Invites -> {"none", "open", "used"}]
    /\ admitted \in [Invites -> SUBSET Persons]
    /\ InviteAdmitsOne
    /\ \A i \in Invites : admitted[i] # {} => invite[i] = "used"

DoorInv ==
    /\ IInv
    /\ \A t \in Txs : KnowsWhatItRead(tx[t], held[t])
    /\ Announcements
    /\ Admissions

(* A door an admin closed is opened by an admin only: knocking does not    *)
(* approve someone who was rejected or suspended, however late the knock   *)
(* read its member.                                                        *)
OnlyAdminsReopen ==
    [][\A p \in Persons :
          status[p] \in {"rejected", "suspended"} /\ status'[p] = "approved" =>
              \E t \in Txs : tx[t].op # "identify" /\ ~Free(t) /\ tx'[t] = NoTx]_vars

(* Whoever commits one of the six actions is an approved admin at that     *)
(* moment, and not only in the caller's copy.                              *)
Changes(t) == ~Free(t) /\ tx'[t] = NoTx /\ (status' # status \/ role' # role \/ invite' # invite)

ActorsAreAdmins ==
    [][\A t \in Txs : tx[t].op = "act" /\ Changes(t) => IsActiveAdmin(tx[t].who)]_vars
=============================================================================
