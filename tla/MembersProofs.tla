---------------------------- MODULE MembersProofs ----------------------------
(***************************************************************************)
(* For every finite group and any number of transactions: IInv of Members, *)
(* and with it that the group is never left without an admin; DoorInv, and *)
(* with it that an applicant is announced once and an invite admits one;   *)
(* and from DoorInv what a commit may do.  A step that only locks keeps    *)
(* IInv if its own record does (StepKeeps), and DoorInv if what it now     *)
(* knows is so (DoorStepKeeps); a commit keeps them if it writes only rows *)
(* nobody else holds (EndKeeps, DoorEndKeeps).                             *)
(***************************************************************************)
EXTENDS Members, FiniteSetTheorems, TLAPS

(* Any set of approved admins can be counted.                              *)
LEMMA AdminsFinite ==
    ASSUME NEW h
    PROVE  IsFiniteSet(h \cap ActiveAdmins) /\ Cardinality(h \cap ActiveAdmins) \in Nat
<1>1. h \cap ActiveAdmins \in SUBSET Persons
  BY DEF ActiveAdmins
<1>2. IsFiniteSet(h \cap ActiveAdmins)
  BY <1>1, FS_Subset, MembersAssumption
<1> QED
  BY <1>2, FS_CardinalityType

(* Holding more rows, one holds no fewer admins.                           *)
LEMMA AdminsGrow ==
    ASSUME NEW h, NEW rows
    PROVE  Cardinality(h \cap ActiveAdmins) <= Cardinality((h \cup rows) \cap ActiveAdmins)
<1>1. IsFiniteSet((h \cup rows) \cap ActiveAdmins)
  BY AdminsFinite
<1>2. h \cap ActiveAdmins \in SUBSET ((h \cup rows) \cap ActiveAdmins)
  OBVIOUS
<1> QED
  BY <1>1, <1>2, FS_Subset

(* A step that locks and writes nothing keeps the invariant if what its    *)
(* transaction becomes is in order.                                        *)
LEMMA StepKeeps ==
    ASSUME IInv, NEW t \in Txs, NEW s \in TxState, NEW rows \in SUBSET (Persons \cup Invites),
           Step(t, s, rows),
           HoldsWhatItCounted(s, held[t] \cup rows),
           HoldsWhatItWrites(s, held[t] \cup rows)
    PROVE  IInv'
<1> USE DEF IInv
<1>1. status' = status /\ role' = role
  BY DEF Step, data
<1>2. ActiveAdmins' = ActiveAdmins
  BY <1>1 DEF ActiveAdmins, IsActiveAdmin
<1>3. tx' \in [Txs -> TxState] /\ tx'[t] = s
  BY DEF Step, Set
<1>4. held' \in [Txs -> SUBSET (Persons \cup Invites)] /\ held'[t] = held[t] \cup rows
  BY DEF Step
<1>5. \A u \in Txs : u # t => tx'[u] = tx[u] /\ held'[u] = held[u]
  BY DEF Step, Set
<1>6. \A u \in Txs : u # t => rows \cap held[u] = {}
  BY DEF Step, Taken
<1>7. LocksDisjoint'
  BY <1>4, <1>5, <1>6 DEF LocksDisjoint
<1>8. ASSUME NEW u \in Txs
      PROVE  HoldsWhatItCounted(tx[u], held[u])' /\ HoldsWhatItWrites(tx[u], held[u])'
  <2>1. CASE u = t
    BY <1>1, <1>2, <1>3, <1>4, <2>1 DEF HoldsWhatItCounted, HoldsWhatItWrites, Exists
  <2>2. CASE u # t
    BY <1>1, <1>2, <1>5, <2>2 DEF HoldsWhatItCounted, HoldsWhatItWrites, Exists
  <2> QED
    BY <2>1, <2>2
<1>9. AdminRemains'
  BY <1>2 DEF AdminRemains
<1> QED
  BY <1>1, <1>3, <1>4, <1>7, <1>8, <1>9

(* The end of a transaction that wrote only rows it held keeps the         *)
(* invariant if an admin remains.                                          *)
LEMMA EndKeeps ==
    ASSUME IInv, NEW t \in Txs, End(t),
           status' \in [Persons -> Statuses], role' \in [Persons -> {"member", "admin"}],
           \A p \in Persons : p \notin held[t] => status'[p] = status[p] /\ role'[p] = role[p],
           AdminRemains'
    PROVE  IInv'
<1> USE DEF IInv
<1>0. NoTx \in TxState
  BY DEF NoTx, TxState, Actions
<1>1. tx' \in [Txs -> TxState] /\ tx'[t] = NoTx
  BY <1>0 DEF End, Set
<1>2. held' \in [Txs -> SUBSET (Persons \cup Invites)] /\ held'[t] = {}
  BY DEF End
<1>3. \A u \in Txs : u # t => tx'[u] = tx[u] /\ held'[u] = held[u]
  BY DEF End, Set
<1>4. LocksDisjoint'
  BY <1>2, <1>3 DEF LocksDisjoint
<1>5. ASSUME NEW u \in Txs
      PROVE  HoldsWhatItCounted(tx[u], held[u])' /\ HoldsWhatItWrites(tx[u], held[u])'
  <2>1. CASE u = t
    BY <1>1, <1>2, <2>1 DEF HoldsWhatItCounted, HoldsWhatItWrites, NamesItsRows, NoTx
  <2>2. CASE u # t
    <3>1. \A p \in held[u] : p \notin held[t]
      BY <2>2 DEF LocksDisjoint
    <3>2. (held[u] \cap ActiveAdmins)' = held[u] \cap ActiveAdmins
      BY <1>3, <2>2, <3>1 DEF ActiveAdmins, IsActiveAdmin
    <3>3. HoldsWhatItCounted(tx[u], held[u])'
      BY <1>3, <2>2, <3>2 DEF HoldsWhatItCounted
    <3>4. HoldsWhatItWrites(tx[u], held[u])'
      <4>1. HoldsWhatItWrites(tx[u], held[u])
        OBVIOUS
      <4>2. tx[u].op = "identify" /\ tx[u].step = "created" => ~Exists(tx[u].who)'
        BY <1>3, <2>2, <3>1, <4>1 DEF HoldsWhatItWrites, NamesItsRows, Exists
      <4> QED
        BY <1>3, <2>2, <4>1, <4>2 DEF HoldsWhatItWrites, NamesItsRows
    <3> QED
      BY <3>3, <3>4
  <2> QED
    BY <2>1, <2>2
<1> QED
  BY <1>1, <1>2, <1>4, <1>5

LEMMA RefuseKeeps ==
    ASSUME IInv, NEW t \in Txs, Refuse(t)
    PROVE  IInv'
<1>1. status' = status /\ role' = role
  BY DEF Refuse, data
<1>2. AdminRemains'
  BY <1>1 DEF IInv, AdminRemains, ActiveAdmins, IsActiveAdmin
<1> QED
  BY <1>1, <1>2, EndKeeps DEF IInv, Refuse

-----------------------------------------------------------------------------
(* identify                                                                *)
LEMMA IdentifySteps ==
    ASSUME IInv, NEW t \in Txs,
           \/ \E p \in Persons : BeginIdentify(t, p)
           \/ FindOpenInvite(t) \/ FindMember(t) \/ InsertMember(t)
    PROVE  IInv'
<1> USE DEF IInv
<1>0. tx[t] \in TxState /\ NamesItsRows(tx[t])
  BY DEF HoldsWhatItWrites
<1>1. CASE \E p \in Persons : BeginIdentify(t, p)
  <2> PICK p \in Persons : BeginIdentify(t, p)
    BY <1>1
  <2> DEFINE s == [NoTx EXCEPT !.op = "identify", !.step = "invite", !.who = p]
  <2>1. s \in TxState
    BY DEF NoTx, TxState, Actions
  <2>2. Step(t, s, {})
    BY DEF BeginIdentify
  <2>3. HoldsWhatItCounted(s, held[t] \cup {}) /\ HoldsWhatItWrites(s, held[t] \cup {})
    BY DEF HoldsWhatItCounted, HoldsWhatItWrites, NamesItsRows, NoTx
  <2> HIDE DEF s
  <2> QED
    BY <2>1, <2>2, <2>3, StepKeeps
<1>2. CASE FindOpenInvite(t)
  <2>1. PICK i \in Invites \cup {None}, rows \in SUBSET Invites :
          Step(t, [tx[t] EXCEPT !.step = "member", !.invite = i], rows)
    <3>1. [tx[t] EXCEPT !.step = "member"]
             = [tx[t] EXCEPT !.step = "member", !.invite = tx[t].invite]
      BY <1>0 DEF TxState
    <3>2. tx[t].invite \in Invites \cup {None}
      BY <1>0 DEF TxState
    <3> QED
      BY <1>2, <3>1, <3>2 DEF FindOpenInvite, OpenFor
  <2> DEFINE s == [tx[t] EXCEPT !.step = "member", !.invite = i]
  <2>2. s \in TxState /\ s.step = "member" /\ s.op = "identify"
    BY <1>0, <1>2 DEF TxState, FindOpenInvite, At
  <2>3. HoldsWhatItCounted(s, held[t] \cup rows) /\ HoldsWhatItWrites(s, held[t] \cup rows)
    <3>1. s.who \in Persons
      BY <1>0, <1>2 DEF FindOpenInvite, At, NamesItsRows, TxState
    <3> QED
      BY <2>2, <3>1 DEF HoldsWhatItCounted, HoldsWhatItWrites, NamesItsRows
  <2> HIDE DEF s
  <2> QED
    BY <2>1, <2>2, <2>3, StepKeeps DEF s
<1>3. CASE FindMember(t) \/ InsertMember(t)
  <2>1. PICK step \in {"insert", "created", "waiting", "known"}, rows \in {{}, {tx[t].who}} :
          /\ Step(t, [tx[t] EXCEPT !.step = step], rows)
          /\ step \in {"created", "waiting"} => rows = {tx[t].who}
          /\ step = "created" => ~Exists(tx[t].who)
          /\ tx[t].op = "identify"
          /\ tx[t].who \in Persons
    <3>1. CASE FindMember(t) /\ Exists(tx[t].who)
      BY <1>0, <3>1 DEF FindMember, At, NamesItsRows
    <3>2. CASE FindMember(t) /\ ~Exists(tx[t].who)
      BY <1>0, <3>2 DEF FindMember, At, NamesItsRows
    <3>3. CASE InsertMember(t)
      BY <1>0, <3>3 DEF InsertMember, At, NamesItsRows
    <3> QED
      BY <1>3, <3>1, <3>2, <3>3
  <2> DEFINE s == [tx[t] EXCEPT !.step = step]
  <2>2. s \in TxState /\ s.step = step /\ s.op = "identify" /\ s.who = tx[t].who
    BY <1>0, <2>1 DEF TxState
  <2>3. HoldsWhatItCounted(s, held[t] \cup rows) /\ HoldsWhatItWrites(s, held[t] \cup rows)
    BY <2>1, <2>2 DEF HoldsWhatItCounted, HoldsWhatItWrites, NamesItsRows
  <2>4. rows \in SUBSET (Persons \cup Invites)
    BY <2>1
  <2> HIDE DEF s
  <2> QED
    BY <2>1, <2>2, <2>3, <2>4, StepKeeps DEF s
<1> QED
  BY <1>1, <1>2, <1>3

(* identify only ever adds to the approved admins.                         *)
LEMMA CommitIdentifyKeeps ==
    ASSUME IInv, NEW t \in Txs, CommitIdentify(t)
    PROVE  IInv'
<1> DEFINE p == tx[t].who
<1>1. status' \in [Persons -> Statuses] /\ role' \in [Persons -> {"member", "admin"}]
  BY DEF CommitIdentify, IInv, Statuses
<1>2. \A q \in Persons : status'[q] # status[q] \/ role'[q] # role[q] =>
          q = p /\ tx[t].step \in {"created", "waiting"}
  BY DEF CommitIdentify, IInv
<1>3. tx[t].op = "identify" /\ tx[t].step \in {"created", "waiting"} => p \in held[t]
  BY DEF IInv, HoldsWhatItWrites
<1>4. \A q \in Persons : q \notin held[t] => status'[q] = status[q] /\ role'[q] = role[q]
  BY <1>2, <1>3 DEF CommitIdentify
<1>5. ActiveAdmins \subseteq ActiveAdmins'
  <2>1. tx[t].op = "identify" /\ tx[t].step = "created" => status[p] = "none"
    BY DEF IInv, HoldsWhatItWrites, Exists
  <2> QED
    BY <2>1 DEF CommitIdentify, IInv, ActiveAdmins, IsActiveAdmin
<1>6. AdminRemains'
  BY <1>5 DEF IInv, AdminRemains
<1>7. End(t)
  BY DEF CommitIdentify
<1> QED
  BY <1>1, <1>4, <1>6, <1>7, EndKeeps

-----------------------------------------------------------------------------
(* act                                                                     *)

(* An admin that is locked and counted is one more than those held.        *)
LEMMA LockAdminCounts ==
    ASSUME IInv, NEW t \in Txs, At(t, "act", "rows"), NEW p \in tx[t].rows
    PROVE  /\ IsActiveAdmin(p)
                  => tx[t].count + 1 <= Cardinality((held[t] \cup {p}) \cap ActiveAdmins)
           /\ ~IsActiveAdmin(p)
                  => tx[t].count <= Cardinality((held[t] \cup {p}) \cap ActiveAdmins)
<1>1. /\ tx[t].rows \cap held[t] = {}
      /\ tx[t].count <= Cardinality(held[t] \cap ActiveAdmins)
  BY DEF IInv, HoldsWhatItCounted, At
<1>2. p \in Persons /\ tx[t].count \in Nat
  BY DEF IInv, TxState
<1>3. CASE IsActiveAdmin(p)
  <2>1. (held[t] \cup {p}) \cap ActiveAdmins = (held[t] \cap ActiveAdmins) \cup {p}
    BY <1>2, <1>3 DEF ActiveAdmins
  <2>2. p \notin held[t] \cap ActiveAdmins
    BY <1>1
  <2>3. IsFiniteSet(held[t] \cap ActiveAdmins) /\ Cardinality(held[t] \cap ActiveAdmins) \in Nat
    BY AdminsFinite
  <2>4. Cardinality((held[t] \cap ActiveAdmins) \cup {p})
           = Cardinality(held[t] \cap ActiveAdmins) + 1
    BY <2>2, <2>3, FS_AddElement
  <2> DEFINE c == Cardinality(held[t] \cap ActiveAdmins)
  <2>5. tx[t].count <= c /\ c \in Nat
    BY <1>1, <2>3
  <2>6. Cardinality((held[t] \cup {p}) \cap ActiveAdmins) = c + 1
    BY <2>1, <2>4
  <2> HIDE DEF c
  <2>7. tx[t].count + 1 <= c + 1
    BY <1>2, <2>5
  <2> QED
    BY <1>3, <2>6, <2>7
<1>4. CASE ~IsActiveAdmin(p)
  <2>1. (held[t] \cup {p}) \cap ActiveAdmins = held[t] \cap ActiveAdmins
    BY <1>4 DEF ActiveAdmins
  <2> QED
    BY <1>1, <1>4, <2>1
<1> QED
  BY <1>3, <1>4

LEMMA ActSteps ==
    ASSUME IInv, NEW t \in Txs,
           \/ \E a, p \in Persons, action \in Actions : BeginAct(t, a, p, action)
           \/ ScanAdmins(t) \/ LockAdmin(t) \/ LockActor(t) \/ LockTarget(t)
    PROVE  IInv'
<1>0. /\ tx[t] \in TxState /\ NamesItsRows(tx[t])
      /\ HoldsWhatItCounted(tx[t], held[t])
      /\ held[t] \in SUBSET (Persons \cup Invites)
  BY DEF IInv, HoldsWhatItWrites
<1>1. CASE \E a, p \in Persons, action \in Actions : BeginAct(t, a, p, action)
  <2> PICK a \in Persons, p \in Persons, action \in Actions : BeginAct(t, a, p, action)
    BY <1>1
  <2> DEFINE s == [NoTx EXCEPT !.op = "act", !.step = "admins", !.who = a,
                               !.target = p, !.action = action]
  <2>1. s \in TxState
    BY DEF NoTx, TxState
  <2>2. Step(t, s, {}) /\ held[t] = {}
    BY <1>0 DEF BeginAct, HoldsWhatItCounted, Free
  <2>3. HoldsWhatItCounted(s, held[t] \cup {}) /\ HoldsWhatItWrites(s, held[t] \cup {})
    BY <2>2 DEF HoldsWhatItCounted, HoldsWhatItWrites, NamesItsRows, NoTx
  <2> HIDE DEF s
  <2> QED
    BY <2>1, <2>2, <2>3, StepKeeps
<1>2. CASE ScanAdmins(t)
  <2> DEFINE s == [tx[t] EXCEPT !.step = "rows", !.rows = ActiveAdmins]
  <2>1. s \in TxState /\ s.op = "act" /\ s.step = "rows" /\ s.count = tx[t].count
    BY <1>0, <1>2 DEF ScanAdmins, At, TxState, ActiveAdmins
  <2>2. Step(t, s, {}) /\ held[t] = {} /\ s.count = 0
    BY <1>0, <1>2, <2>1 DEF ScanAdmins, At, HoldsWhatItCounted
  <2>3. {} \cap ActiveAdmins = {} /\ Cardinality({}) = 0
    BY FS_EmptySet
  <2>4. HoldsWhatItCounted(s, held[t] \cup {})
    BY <2>1, <2>2, <2>3 DEF HoldsWhatItCounted
  <2>5. HoldsWhatItWrites(s, held[t] \cup {})
    BY <1>0, <1>2, <2>1 DEF HoldsWhatItWrites, NamesItsRows, ScanAdmins, At, TxState
  <2> HIDE DEF s
  <2> QED
    BY <2>1, <2>2, <2>4, <2>5, StepKeeps
<1>3. CASE LockAdmin(t)
  <2>1. PICK p \in tx[t].rows :
          Step(t, [tx[t] EXCEPT !.rows = @ \ {p},
                                !.count = IF IsActiveAdmin(p) THEN @ + 1 ELSE @], {p})
    BY <1>3 DEF LockAdmin
  <2> DEFINE n == IF IsActiveAdmin(p) THEN tx[t].count + 1 ELSE tx[t].count
             s == [tx[t] EXCEPT !.rows = @ \ {p}, !.count = n]
  <2>2. At(t, "act", "rows") /\ p \in Persons /\ n \in Nat
    <3>1. At(t, "act", "rows")
      BY <1>3 DEF LockAdmin
    <3>2. tx[t].rows \in SUBSET Persons /\ tx[t].count \in Nat
      BY <1>0 DEF TxState
    <3> QED
      BY <3>1, <3>2
  <2>3. n <= Cardinality((held[t] \cup {p}) \cap ActiveAdmins)
    BY <2>2, LockAdminCounts
  <2>4. Step(t, s, {p})
    BY <2>1
  <2> HIDE DEF n
  <2>5. s \in TxState
    BY <1>0, <2>2 DEF TxState
  <2>6. s.op = "act" /\ s.step = "rows" /\ s.count = n /\ s.rows = tx[t].rows \ {p}
        /\ s.who = tx[t].who /\ s.target = tx[t].target
    BY <1>0, <2>2 DEF At, TxState
  <2> HIDE DEF s
  <2>7. HoldsWhatItCounted(s, held[t] \cup {p})
    BY <1>0, <2>2, <2>3, <2>6 DEF HoldsWhatItCounted, At
  <2>8. HoldsWhatItWrites(s, held[t] \cup {p})
    BY <1>0, <2>2, <2>6 DEF HoldsWhatItWrites, NamesItsRows, At
  <2> QED
    BY <2>2, <2>4, <2>5, <2>7, <2>8, StepKeeps
<1>4. CASE (LockActor(t) /\ IsActiveAdmin(tx[t].who)) \/ LockTarget(t)
  <2>1. PICK step \in {"target", "commit"}, row \in {tx[t].who, tx[t].target} :
          /\ Step(t, [tx[t] EXCEPT !.step = step], {row})
          /\ step = "commit" => row = tx[t].target
          /\ tx[t].op = "act" /\ tx[t].step \in {"rows", "target"}
    BY <1>4 DEF LockActor, LockTarget, At
  <2> DEFINE s == [tx[t] EXCEPT !.step = step]
  <2>2. s \in TxState /\ s.op = "act" /\ s.step = step /\ s.count = tx[t].count
        /\ s.who = tx[t].who /\ s.target = tx[t].target
    BY <1>0, <2>1 DEF TxState
  <2>3. tx[t].count <= Cardinality(held[t] \cap ActiveAdmins) /\ tx[t].count \in Nat
    BY <1>0, <2>1 DEF HoldsWhatItCounted, TxState
  <2>4. tx[t].count <= Cardinality((held[t] \cup {row}) \cap ActiveAdmins)
    <3> DEFINE before == Cardinality(held[t] \cap ActiveAdmins)
               after == Cardinality((held[t] \cup {row}) \cap ActiveAdmins)
    <3>1. before \in Nat /\ after \in Nat
      BY AdminsFinite
    <3>2. before <= after
      BY AdminsGrow
    <3>3. tx[t].count <= before
      BY <2>3
    <3> HIDE DEF before, after
    <3>4. tx[t].count <= after
      BY <2>3, <3>1, <3>2, <3>3
    <3> QED
      BY <3>4 DEF after
  <2>5. HoldsWhatItCounted(s, held[t] \cup {row})
    BY <2>1, <2>2, <2>4 DEF HoldsWhatItCounted
  <2>6. HoldsWhatItWrites(s, held[t] \cup {row})
    BY <1>0, <2>1, <2>2 DEF HoldsWhatItWrites, NamesItsRows
  <2>7. {row} \in SUBSET (Persons \cup Invites)
    BY <1>0, <2>1 DEF NamesItsRows
  <2> HIDE DEF s
  <2> QED
    BY <2>1, <2>2, <2>5, <2>6, <2>7, StepKeeps DEF s
<1>5. CASE LockActor(t) /\ ~IsActiveAdmin(tx[t].who)
  BY <1>5, RefuseKeeps DEF LockActor
<1> QED
  BY <1>1, <1>2, <1>3, <1>4, <1>5

(* The one transition that takes an approved admin away has counted two of *)
(* them, and holds both.                                                   *)
LEMMA CommitActKeeps ==
    ASSUME IInv, NEW t \in Txs, CommitAct(t)
    PROVE  IInv'
<1> DEFINE p == tx[t].target
           action == tx[t].action
<1>0. /\ tx[t] \in TxState /\ NamesItsRows(tx[t])
      /\ HoldsWhatItCounted(tx[t], held[t]) /\ HoldsWhatItWrites(tx[t], held[t])
      /\ status \in [Persons -> Statuses] /\ role \in [Persons -> {"member", "admin"}]
      /\ AdminRemains
  BY DEF IInv, HoldsWhatItWrites
<1>1. CASE Refuse(t)
  BY <1>1, RefuseKeeps
<1>2. CASE ~Refuse(t)
  <2>1. /\ tx[t].op = "act" /\ tx[t].step = "commit"
        /\ Applies(p, action) /\ ~WouldRemoveLastAdmin(p, action, tx[t].count)
        /\ status' = [status EXCEPT ![p] = StatusAfter(p, action)]
        /\ role' = [role EXCEPT ![p] = RoleAfter(p, action)]
        /\ End(t)
    BY <1>2 DEF CommitAct, At
  <2>2. p \in Persons /\ p \in held[t] /\ action \in Actions
    BY <1>0, <2>1 DEF NamesItsRows, HoldsWhatItWrites, TxState
  <2>3. status' \in [Persons -> Statuses]
    <3>1. StatusAfter(p, action) \in Statuses
      BY <1>0, <2>2 DEF StatusAfter, Statuses
    <3> QED
      BY <1>0, <2>1, <3>1
  <2>4. role' \in [Persons -> {"member", "admin"}]
    <3>1. RoleAfter(p, action) \in {"member", "admin"}
      BY <1>0, <2>2 DEF RoleAfter
    <3> QED
      BY <1>0, <2>1, <3>1
  <2>5. \A q \in Persons : q # p => status'[q] = status[q] /\ role'[q] = role[q]
    BY <1>0, <2>1
  <2>6. \A q \in Persons : q \notin held[t] => status'[q] = status[q] /\ role'[q] = role[q]
    BY <2>2, <2>5
  <2>7. AdminRemains'
    <3>1. \A q \in ActiveAdmins : q # p => q \in ActiveAdmins'
      BY <2>5 DEF ActiveAdmins, IsActiveAdmin
    <3>2. CASE \E q \in ActiveAdmins : q # p
      BY <3>1, <3>2 DEF AdminRemains
    <3>3. CASE ActiveAdmins = {p} /\ action \notin {"suspend", "demote"}
      <4>1. status[p] = "approved" /\ role[p] = "admin"
        BY <3>3 DEF ActiveAdmins, IsActiveAdmin
      <4>2. StatusAfter(p, action) = "approved" /\ RoleAfter(p, action) = "admin"
        BY <2>1, <2>2, <3>3, <4>1 DEF Applies, StatusAfter, RoleAfter, Actions
      <4>3. status'[p] = "approved" /\ role'[p] = "admin"
        BY <1>0, <2>1, <2>2, <4>2
      <4> QED
        BY <2>2, <4>3 DEF AdminRemains, ActiveAdmins, IsActiveAdmin
    <3>4. CASE ActiveAdmins = {p} /\ action \in {"suspend", "demote"}
      <4>1. ~(tx[t].count <= 1)
        BY <2>1, <3>4 DEF WouldRemoveLastAdmin, ActiveAdmins
      <4>2. tx[t].count <= Cardinality(held[t] \cap ActiveAdmins)
        BY <1>0, <2>1 DEF HoldsWhatItCounted
      <4>3. held[t] \cap ActiveAdmins = {p} \/ held[t] \cap ActiveAdmins = {}
        BY <3>4
      <4>4. Cardinality({p}) = 1 /\ Cardinality({}) = 0
        BY FS_Singleton, FS_EmptySet
      <4>5. tx[t].count \in Nat
        BY <1>0 DEF TxState
      <4>6. tx[t].count <= 1 \/ tx[t].count <= 0
        BY <4>2, <4>3, <4>4
      <4> QED
        BY <4>1, <4>5, <4>6
    <3> QED
      BY <1>0, <3>2, <3>3, <3>4 DEF AdminRemains
  <2> QED
    BY <2>1, <2>3, <2>4, <2>6, <2>7, EndKeeps
<1> QED
  BY <1>1, <1>2

-----------------------------------------------------------------------------
(* Invites                                                                 *)
LEMMA InviteSteps ==
    ASSUME IInv, NEW t \in Txs,
           \/ \E a \in Persons, i \in Invites, op \in {"createInvite", "deleteInvite"} :
                 BeginInvite(t, op, a, i)
           \/ MatchMember(t) \/ InsertInvite(t)
    PROVE  IInv'
<1>0. /\ tx[t] \in TxState /\ NamesItsRows(tx[t])
      /\ HoldsWhatItWrites(tx[t], held[t]) /\ HoldsWhatItCounted(tx[t], held[t])
      /\ held[t] \in SUBSET (Persons \cup Invites)
  BY DEF IInv, HoldsWhatItWrites
<1>1. CASE \E a \in Persons, i \in Invites, op \in {"createInvite", "deleteInvite"} :
              BeginInvite(t, op, a, i)
  <2>1. PICK a \in Persons, i \in Invites, op \in {"createInvite", "deleteInvite"},
             step \in {"match", "commit"} :
          Step(t, [NoTx EXCEPT !.op = op, !.who = a, !.invite = i, !.step = step], {})
    BY <1>1 DEF BeginInvite
  <2> DEFINE s == [NoTx EXCEPT !.op = op, !.who = a, !.invite = i, !.step = step]
  <2>2. s \in TxState
    BY DEF NoTx, TxState, Actions
  <2>3. HoldsWhatItCounted(s, held[t] \cup {}) /\ HoldsWhatItWrites(s, held[t] \cup {})
    BY DEF HoldsWhatItCounted, HoldsWhatItWrites, NamesItsRows, NoTx
  <2> HIDE DEF s
  <2> QED
    BY <2>1, <2>2, <2>3, StepKeeps DEF s
<1>2. CASE MatchMember(t)
  <2> DEFINE matched == {p \in Covers[tx[t].invite] : Exists(p)}
  <2>0. tx[t].op = "createInvite" /\ tx[t].step = "match" /\ tx[t].invite \in Invites
    BY <1>0, <1>2 DEF MatchMember, At, NamesItsRows
  <2>1. matched \in SUBSET Persons
    BY <2>0, MembersAssumption
  <2>2. CASE Refuse(t)
    BY <2>2, RefuseKeeps
  <2>3. CASE \E q \in {tx[t].target} \cup matched, rows \in {{}, matched} :
                /\ Step(t, [tx[t] EXCEPT !.step = "insert", !.target = q], rows)
                /\ q \in rows \/ q = None
    <3> PICK q \in {tx[t].target} \cup matched, rows \in {{}, matched} :
                /\ Step(t, [tx[t] EXCEPT !.step = "insert", !.target = q], rows)
                /\ q \in rows \/ q = None
      BY <2>3
    <3> DEFINE s == [tx[t] EXCEPT !.step = "insert", !.target = q]
    <3>1. q \in Persons \cup {None}
      BY <1>0, <2>1 DEF TxState
    <3>2. s \in TxState /\ s.op = "createInvite" /\ s.step = "insert" /\ s.target = q
          /\ s.who = tx[t].who /\ s.invite = tx[t].invite
      BY <1>0, <2>0, <3>1 DEF TxState
    <3>3. rows \in SUBSET (Persons \cup Invites)
      BY <2>1
    <3>4. HoldsWhatItCounted(s, held[t] \cup rows) /\ HoldsWhatItWrites(s, held[t] \cup rows)
      BY <1>0, <2>0, <3>2 DEF HoldsWhatItCounted, HoldsWhatItWrites, NamesItsRows
    <3> HIDE DEF s
    <3> QED
      BY <3>2, <3>3, <3>4, StepKeeps DEF s
  <2>4. CASE Step(t, [tx[t] EXCEPT !.step = "insert"], {})
    <3>1. tx[t].target = None
      BY <1>0, <2>0 DEF HoldsWhatItWrites
    <3>2. [tx[t] EXCEPT !.step = "insert"]
             = [tx[t] EXCEPT !.step = "insert", !.target = tx[t].target]
      BY <1>0 DEF TxState
    <3> QED
      BY <2>3, <2>4, <3>1, <3>2
  <2> HIDE DEF matched
  <2>5. CASE \E p \in matched :
                Step(t, [tx[t] EXCEPT !.step = "insert", !.target = p], matched)
    BY <2>3, <2>5
  <2> QED
    BY <1>2, <2>2, <2>4, <2>5 DEF MatchMember, matched
<1>3. CASE InsertInvite(t)
  <2>1. CASE Refuse(t)
    BY <2>1, RefuseKeeps
  <2>2. CASE ~Refuse(t)
    <3> DEFINE s == [tx[t] EXCEPT !.step = "commit"]
    <3>1. Step(t, s, {tx[t].invite}) /\ tx[t].op = "createInvite" /\ tx[t].step = "insert"
      BY <1>3, <2>2 DEF InsertInvite, At
    <3>2. s \in TxState /\ s.op = "createInvite" /\ s.step = "commit"
          /\ s.target = tx[t].target /\ s.who = tx[t].who /\ s.invite = tx[t].invite
      BY <1>0, <3>1 DEF TxState
    <3>3. {tx[t].invite} \in SUBSET (Persons \cup Invites)
      BY <1>0, <3>1 DEF NamesItsRows
    <3>4. /\ HoldsWhatItCounted(s, held[t] \cup {tx[t].invite})
          /\ HoldsWhatItWrites(s, held[t] \cup {tx[t].invite})
      BY <1>0, <3>1, <3>2 DEF HoldsWhatItCounted, HoldsWhatItWrites, NamesItsRows
    <3> HIDE DEF s
    <3> QED
      BY <3>1, <3>2, <3>3, <3>4, StepKeeps
  <2> QED
    BY <2>1, <2>2
<1> QED
  BY <1>1, <1>2, <1>3

(* Approving who waits takes no admin away; deleting writes no member.     *)
LEMMA InviteCommitsKeep ==
    ASSUME IInv, NEW t \in Txs, CommitCreateInvite(t) \/ CommitDeleteInvite(t)
    PROVE  IInv'
<1> DEFINE p == tx[t].target
<1>0. /\ status \in [Persons -> Statuses] /\ role \in [Persons -> {"member", "admin"}]
      /\ AdminRemains /\ HoldsWhatItWrites(tx[t], held[t])
  BY DEF IInv
<1>1. End(t) /\ role' = role
  BY DEF CommitCreateInvite, CommitDeleteInvite
<1>2. \/ status' = status
      \/ status' = [status EXCEPT ![p] = "approved"] /\ p \in held[t]
  BY <1>0 DEF CommitCreateInvite, CommitDeleteInvite, HoldsWhatItWrites, At
<1>3. status' \in [Persons -> Statuses] /\ role' \in [Persons -> {"member", "admin"}]
  BY <1>0, <1>1, <1>2 DEF Statuses
<1>4. \A q \in Persons : q \notin held[t] => status'[q] = status[q] /\ role'[q] = role[q]
  BY <1>0, <1>1, <1>2
<1>5. AdminRemains'
  BY <1>0, <1>1, <1>2 DEF AdminRemains, ActiveAdmins, IsActiveAdmin
<1> QED
  BY <1>1, <1>3, <1>4, <1>5, EndKeeps

-----------------------------------------------------------------------------
LEMMA InitIInv == Init => IInv
<1> SUFFICES ASSUME Init PROVE IInv
  OBVIOUS
<1>1. status \in [Persons -> Statuses] /\ role \in [Persons -> {"member", "admin"}]
  BY DEF Init, Statuses
<1>2. NoTx \in TxState
  BY DEF NoTx, TxState, Actions
<1>3. tx \in [Txs -> TxState] /\ held \in [Txs -> SUBSET (Persons \cup Invites)]
  BY <1>2 DEF Init
<1>4. LocksDisjoint
  BY DEF Init, LocksDisjoint
<1>5. ASSUME NEW t \in Txs
      PROVE  HoldsWhatItCounted(tx[t], held[t]) /\ HoldsWhatItWrites(tx[t], held[t])
  BY DEF Init, HoldsWhatItCounted, HoldsWhatItWrites, NamesItsRows, NoTx
<1>6. AdminRemains
  BY MembersAssumption DEF Init, AdminRemains, ActiveAdmins, IsActiveAdmin
<1> QED
  BY <1>1, <1>3, <1>4, <1>5, <1>6 DEF IInv

LEMMA NextIInv == IInv /\ [Next]_vars => IInv'
<1> SUFFICES ASSUME IInv, [Next]_vars PROVE IInv'
  OBVIOUS
<1>1. ASSUME NEW t \in Txs, \E p \in Persons : BeginIdentify(t, p)
      PROVE  IInv'
  BY <1>1, IdentifySteps
<1>2. ASSUME NEW t \in Txs, FindOpenInvite(t) \/ FindMember(t) \/ InsertMember(t)
      PROVE  IInv'
  BY <1>2, IdentifySteps
<1>3. ASSUME NEW t \in Txs, CommitIdentify(t) PROVE IInv'
  BY <1>3, CommitIdentifyKeeps
<1>4. ASSUME NEW t \in Txs,
             \E a, p \in Persons, action \in Actions : BeginAct(t, a, p, action)
      PROVE  IInv'
  BY <1>4, ActSteps
<1>5. ASSUME NEW t \in Txs, ScanAdmins(t) \/ LockAdmin(t) \/ LockActor(t) \/ LockTarget(t)
      PROVE  IInv'
  BY <1>5, ActSteps
<1>6. ASSUME NEW t \in Txs, CommitAct(t) PROVE IInv'
  BY <1>6, CommitActKeeps
<1>7. ASSUME NEW t \in Txs,
             \E a \in Persons, i \in Invites, op \in {"createInvite", "deleteInvite"} :
                BeginInvite(t, op, a, i)
      PROVE  IInv'
  BY <1>7, InviteSteps
<1>8. ASSUME NEW t \in Txs, MatchMember(t) \/ InsertInvite(t) PROVE IInv'
  BY <1>8, InviteSteps
<1>9. ASSUME NEW t \in Txs, CommitCreateInvite(t) \/ CommitDeleteInvite(t) PROVE IInv'
  BY <1>9, InviteCommitsKeep
<1>10. ASSUME NEW t \in Txs, Rollback(t) PROVE IInv'
  BY <1>10, RefuseKeeps DEF Rollback
<1>11. CASE UNCHANGED vars
  BY <1>11 DEF vars, IInv, LocksDisjoint, HoldsWhatItCounted, HoldsWhatItWrites,
               NamesItsRows, AdminRemains, ActiveAdmins, IsActiveAdmin, Exists
<1> QED
  BY <1>1, <1>2, <1>3, <1>4, <1>5, <1>6, <1>7, <1>8, <1>9, <1>10, <1>11 DEF Next

(* The locks of every interleaving of identify, act and the invites        *)
(* (members/service.ts): what a transaction counted or will write, it      *)
(* holds.                                                                  *)
THEOREM MembersInvariance == Spec => []IInv
<1> QED
  BY InitIInv, NextIInv, PTL DEF Spec

(* PRD US-1.4: the group is never left without an admin, for any number of *)
(* admins suspending and demoting each other at the same time.             *)
THEOREM AlwaysAnAdmin == Spec => []AdminRemains
<1>1. IInv => AdminRemains
  BY DEF IInv
<1> QED
  BY <1>1, MembersInvariance, PTL

-----------------------------------------------------------------------------
(* DoorInv: what a transaction has read of the rows it locked still holds  *)
(* when it commits.                                                        *)

(* A step that only locks keeps DoorInv if what its transaction now knows  *)
(* is so.                                                                  *)
LEMMA DoorStepKeeps ==
    ASSUME DoorInv, IInv', NEW t \in Txs, NEW s, NEW rows, Step(t, s, rows),
           KnowsWhatItRead(s, held[t] \cup rows)
    PROVE  DoorInv'
<1>1. /\ status' = status /\ role' = role /\ invite' = invite
      /\ n1' = n1 /\ admitted' = admitted
  BY DEF Step, data
<1>2. tx'[t] = s /\ held'[t] = held[t] \cup rows
  BY DEF DoorInv, IInv, Step, Set
<1>3. \A u \in Txs : u # t => tx'[u] = tx[u] /\ held'[u] = held[u]
  BY DEF DoorInv, IInv, Step, Set
<1>4. ASSUME NEW u \in Txs
      PROVE  KnowsWhatItRead(tx[u], held[u])'
  <2>1. CASE u = t
    BY <1>1, <1>2, <2>1 DEF KnowsWhatItRead, IsActiveAdmin
  <2>2. CASE u # t
    BY <1>1, <1>3, <2>2 DEF DoorInv, KnowsWhatItRead, IsActiveAdmin
  <2> QED
    BY <2>1, <2>2
<1>5. Announcements' /\ Admissions'
  BY <1>1 DEF DoorInv, Announcements, AnnouncedOnce, Exists, Admissions, InviteAdmitsOne
<1> QED
  BY <1>4, <1>5 DEF DoorInv

(* The end of a transaction that wrote only rows nobody else holds keeps   *)
(* it if the announcements and the admissions are still in order.          *)
LEMMA DoorEndKeeps ==
    ASSUME DoorInv, IInv', NEW t \in Txs, End(t),
           \A p \in Persons : p \notin held[t] => status'[p] = status[p] /\ role'[p] = role[p],
           \A i \in Invites : i \notin Taken(t) \/ invite'[i] = invite[i],
           Announcements', Admissions'
    PROVE  DoorInv'
<1>1. tx'[t] = NoTx /\ \A u \in Txs : u # t => tx'[u] = tx[u] /\ held'[u] = held[u]
  BY DEF DoorInv, IInv, End, Set
<1>2. ASSUME NEW u \in Txs
      PROVE  KnowsWhatItRead(tx[u], held[u])'
  <2>1. CASE u = t
    BY <1>1, <2>1 DEF KnowsWhatItRead, NoTx
  <2>2. CASE u # t
    <3>1. \A p \in held[u] \cap Persons : status'[p] = status[p] /\ role'[p] = role[p]
      BY <2>2 DEF DoorInv, IInv, LocksDisjoint
    <3>2. \A i \in held[u] \cap Invites : invite'[i] = invite[i]
      BY <2>2 DEF Taken
    <3>3. /\ tx[u] \in TxState /\ NamesItsRows(tx[u])
          /\ tx[u].op = "identify" /\ tx[u].step = "waiting" => tx[u].who \in held[u]
          /\ KnowsWhatItRead(tx[u], held[u])
      BY DEF DoorInv, IInv, HoldsWhatItWrites
    <3>4. tx[u].invite # None => tx[u].invite \in Invites
      BY <3>3 DEF TxState
    <3>5. tx'[u] = tx[u] /\ held'[u] = held[u]
      BY <1>1, <2>2
    <3>6. tx[u].op = "identify" /\ tx[u].step = "waiting" => status'[tx[u].who] = "pending"
      BY <3>1, <3>3 DEF KnowsWhatItRead, NamesItsRows
    <3>7. tx[u].op = "identify" /\ tx[u].step \notin {"idle", "invite"} /\ tx[u].invite # None
             => tx[u].invite \in held[u] /\ invite'[tx[u].invite] = "open"
      BY <3>2, <3>3, <3>4 DEF KnowsWhatItRead
    <3>8. tx[u].op = "act" /\ tx[u].step \in {"target", "commit"}
             => tx[u].who \in held[u] /\ IsActiveAdmin(tx[u].who)'
      BY <3>1, <3>3, <3>5 DEF KnowsWhatItRead, NamesItsRows, IsActiveAdmin
    <3>9. tx[u].op = "createInvite" /\ tx[u].step = "commit" => tx[u].invite \in held[u]
      BY <3>3 DEF KnowsWhatItRead
    <3>10. tx[u].op = "identify" /\ tx[u].step = "invite" => tx[u].invite = None
      BY <3>3 DEF KnowsWhatItRead
    <3> QED
      BY <3>5, <3>6, <3>7, <3>8, <3>9, <3>10 DEF KnowsWhatItRead
  <2> QED
    BY <2>1, <2>2
<1> QED
  BY <1>2 DEF DoorInv

LEMMA DoorRefuseKeeps ==
    ASSUME DoorInv, IInv', NEW t \in Txs, Refuse(t)
    PROVE  DoorInv'
<1>1. /\ status' = status /\ role' = role /\ invite' = invite
      /\ n1' = n1 /\ admitted' = admitted
  BY DEF Refuse, data
<1>2. Announcements' /\ Admissions'
  BY <1>1 DEF DoorInv, Announcements, AnnouncedOnce, Exists, Admissions, InviteAdmitsOne
<1>3. End(t)
  BY DEF Refuse
<1> QED
  BY <1>1, <1>2, <1>3, DoorEndKeeps

(* identify knows its invite from the moment it locks it, and that a       *)
(* member waits from the moment it locks the member.                       *)
LEMMA IdentifyDoorSteps ==
    ASSUME DoorInv, IInv', NEW t \in Txs,
           \/ \E p \in Persons : BeginIdentify(t, p)
           \/ FindOpenInvite(t) \/ FindMember(t) \/ InsertMember(t)
    PROVE  DoorInv'
<1>0. /\ tx[t] \in TxState /\ NamesItsRows(tx[t]) /\ KnowsWhatItRead(tx[t], held[t])
  BY DEF DoorInv, IInv, HoldsWhatItWrites
<1>1. CASE \E p \in Persons : BeginIdentify(t, p)
  <2> PICK p \in Persons : BeginIdentify(t, p)
    BY <1>1
  <2> DEFINE s == [NoTx EXCEPT !.op = "identify", !.step = "invite", !.who = p]
  <2>1. Step(t, s, {})
    BY DEF BeginIdentify
  <2>2. KnowsWhatItRead(s, held[t] \cup {})
    BY DEF KnowsWhatItRead, NoTx
  <2> HIDE DEF s
  <2> QED
    BY <2>1, <2>2, DoorStepKeeps
<1>2. CASE FindOpenInvite(t)
  <2> DEFINE none == [tx[t] EXCEPT !.step = "member"]
             found(i) == [none EXCEPT !.invite = i]
  <2>1. tx[t].op = "identify" /\ tx[t].step = "invite"
    BY <1>2 DEF FindOpenInvite, At
  <2>2. CASE Step(t, none, {})
    <3>1. tx[t].invite = None
      BY <1>0, <2>1 DEF KnowsWhatItRead
    <3>2. KnowsWhatItRead(none, held[t] \cup {})
      BY <1>0, <2>1, <3>1 DEF KnowsWhatItRead, TxState
    <3> HIDE DEF none
    <3> QED
      BY <2>2, <3>2, DoorStepKeeps
  <2>3. CASE \E i \in OpenFor(tx[t].who) : Step(t, found(i), {i})
    <3> PICK i \in OpenFor(tx[t].who) : Step(t, found(i), {i})
      BY <2>3
    <3>1. invite[i] = "open"
      BY DEF OpenFor
    <3>2. KnowsWhatItRead(found(i), held[t] \cup {i})
      BY <1>0, <2>1, <3>1 DEF KnowsWhatItRead, TxState
    <3> DEFINE s == found(i)
    <3> HIDE DEF s
    <3> QED
      BY <3>2, DoorStepKeeps DEF s
  <2>4. none.who = tx[t].who
    BY <1>0 DEF TxState
  <2> QED
    BY <1>2, <2>2, <2>3, <2>4 DEF FindOpenInvite
<1>3. CASE FindMember(t) \/ InsertMember(t)
  <2>1. PICK step \in {"insert", "created", "waiting", "known"}, rows \in {{}, {tx[t].who}} :
          /\ Step(t, [tx[t] EXCEPT !.step = step], rows)
          /\ step = "waiting" => status[tx[t].who] = "pending"
          /\ tx[t].op = "identify" /\ tx[t].step \in {"member", "insert"}
    <3>1. CASE FindMember(t) /\ Exists(tx[t].who)
      BY <3>1 DEF FindMember, At
    <3>2. CASE FindMember(t) /\ ~Exists(tx[t].who)
      BY <3>2 DEF FindMember, At
    <3>3. CASE InsertMember(t)
      BY <3>3 DEF InsertMember, At
    <3> QED
      BY <1>3, <3>1, <3>2, <3>3
  <2> DEFINE s == [tx[t] EXCEPT !.step = step]
  <2>2. KnowsWhatItRead(s, held[t] \cup rows)
    BY <1>0, <2>1 DEF KnowsWhatItRead, TxState
  <2>3. Step(t, s, rows)
    BY <2>1
  <2> HIDE DEF s
  <2> QED
    BY <2>2, <2>3, DoorStepKeeps
<1> QED
  BY <1>1, <1>2, <1>3

(* What identify writes: one announcement, of a row that was not there; an *)
(* admission by an invite it found open.                                   *)
LEMMA CommitIdentifyDoor ==
    ASSUME DoorInv, IInv', NEW t \in Txs, CommitIdentify(t)
    PROVE  DoorInv'
<1> DEFINE s == tx[t]
           p == s.who
           byInvite == /\ s.step \in {"created", "waiting"} /\ AutoApproval(s) = "invite"
<1>0. /\ s \in TxState /\ NamesItsRows(s) /\ KnowsWhatItRead(s, held[t])
      /\ s.op = "identify" /\ s.step \in {"created", "waiting", "known"}
      /\ p \in Persons
      /\ s.step \in {"created", "waiting"} => p \in held[t]
      /\ s.step = "created" => ~Exists(p)
      /\ s.step = "known" \/ s.step = "created" \/ status[p] = "pending"
      /\ status \in [Persons -> Statuses] /\ role \in [Persons -> {"member", "admin"}]
  BY DEF DoorInv, IInv, HoldsWhatItWrites, CommitIdentify, NamesItsRows, KnowsWhatItRead
<1>1. \A q \in Persons : q \notin held[t] => status'[q] = status[q] /\ role'[q] = role[q]
  BY <1>0 DEF CommitIdentify
<1>2. byInvite => s.invite \in Invites /\ s.invite \in held[t] /\ invite[s.invite] = "open"
  BY <1>0 DEF AutoApproval, KnowsWhatItRead, TxState
<1>3. \A i \in Invites : i \notin Taken(t) \/ invite'[i] = invite[i]
  <2>1. CASE byInvite
    <3>1. s.invite \notin Taken(t)
      BY <1>2, <2>1 DEF DoorInv, IInv, LocksDisjoint, Taken
    <3>2. invite' = [invite EXCEPT ![s.invite] = IF @ = "open" THEN "used" ELSE @]
      BY <2>1 DEF CommitIdentify
    <3> QED
      BY <3>1, <3>2 DEF DoorInv, Admissions
  <2>2. CASE ~byInvite
    BY <2>2 DEF CommitIdentify
  <2> QED
    BY <2>1, <2>2
<1>4. Announcements'
  <2> DEFINE applies == s.step = "created" /\ AutoApproval(s) = "no"
  <2>1. /\ n1 \in [Persons -> 0..2] /\ \A q \in Persons : n1[q] <= 1
        /\ \A q \in Persons : status[q] = "none" => n1[q] = 0
    BY DEF DoorInv, Announcements, AnnouncedOnce, Exists
  <2>2. n1' = [n1 EXCEPT ![p] = IF applies /\ n1[p] < 2 THEN n1[p] + 1 ELSE n1[p]]
    BY DEF CommitIdentify
  <2>3. applies => status'[p] = "pending" /\ n1[p] = 0
    BY <1>0, <2>1 DEF CommitIdentify, Exists
  <2>4. \A q \in Persons : status'[q] = "none" => status[q] = "none" /\ (q = p => ~applies)
    BY <1>0, <2>3 DEF CommitIdentify
  <2> HIDE DEF applies
  <2>5. \A q \in Persons : n1'[q] = IF q = p /\ applies THEN 1 ELSE n1[q]
    BY <1>0, <2>1, <2>2, <2>3
  <2>6. n1' \in [Persons -> 0..2]
    <3>1. n1' = [q \in Persons |-> n1'[q]]
      BY <2>1, <2>2
    <3> QED
      BY <2>1, <2>5, <3>1
  <2> QED
    BY <2>1, <2>4, <2>5, <2>6 DEF Announcements, AnnouncedOnce, Exists
<1>5. Admissions'
  <2>1. /\ invite \in [Invites -> {"none", "open", "used"}]
        /\ admitted \in [Invites -> SUBSET Persons]
        /\ \A i \in Invites : Cardinality(admitted[i]) <= 1
        /\ \A i \in Invites : admitted[i] # {} => invite[i] = "used"
    BY DEF DoorInv, Admissions, InviteAdmitsOne
  <2>2. CASE byInvite
    <3>1. /\ invite' = [invite EXCEPT ![s.invite] = IF @ = "open" THEN "used" ELSE @]
          /\ admitted' = [admitted EXCEPT ![s.invite] = @ \cup {p}]
      BY <2>2 DEF CommitIdentify
    <3>2. admitted[s.invite] = {}
      BY <1>2, <2>1, <2>2
    <3>3. invite'[s.invite] = "used" /\ admitted'[s.invite] = {p}
      BY <1>2, <2>1, <2>2, <3>1, <3>2
    <3>4. \A i \in Invites : i # s.invite => invite'[i] = invite[i] /\ admitted'[i] = admitted[i]
      BY <2>1, <3>1
    <3>5. /\ invite' \in [Invites -> {"none", "open", "used"}]
          /\ admitted' \in [Invites -> SUBSET Persons]
      BY <1>0, <2>1, <3>1
    <3>6. Cardinality({p}) = 1
      BY FS_Singleton
    <3>7. \A i \in Invites : Cardinality(admitted'[i]) <= 1
      <4> TAKE i \in Invites
      <4>1. CASE i = s.invite
        BY <3>3, <3>6, <4>1
      <4>2. CASE i # s.invite
        BY <2>1, <3>4, <4>2
      <4> QED
        BY <4>1, <4>2
    <3> QED
      BY <2>1, <3>3, <3>4, <3>5, <3>7 DEF Admissions, InviteAdmitsOne
  <2>3. CASE ~byInvite
    <3>1. invite' = invite /\ admitted' = admitted
      BY <2>3 DEF CommitIdentify
    <3> QED
      BY <2>1, <3>1 DEF Admissions, InviteAdmitsOne
  <2> QED
    BY <2>2, <2>3
<1>6. End(t)
  BY DEF CommitIdentify
<1> QED
  BY <1>1, <1>3, <1>4, <1>5, <1>6, DoorEndKeeps

(* act knows its actor from the moment it locks the actor's row.           *)
LEMMA ActDoorSteps ==
    ASSUME DoorInv, IInv', NEW t \in Txs,
           \/ \E a, p \in Persons, action \in Actions : BeginAct(t, a, p, action)
           \/ ScanAdmins(t) \/ LockAdmin(t) \/ LockActor(t) \/ LockTarget(t)
    PROVE  DoorInv'
<1>0. /\ tx[t] \in TxState /\ KnowsWhatItRead(tx[t], held[t])
  BY DEF DoorInv, IInv
<1>1. CASE \E a, p \in Persons, action \in Actions : BeginAct(t, a, p, action)
  <2> PICK a \in Persons, p \in Persons, action \in Actions : BeginAct(t, a, p, action)
    BY <1>1
  <2> DEFINE s == [NoTx EXCEPT !.op = "act", !.step = "admins", !.who = a,
                               !.target = p, !.action = action]
  <2>1. Step(t, s, {})
    BY DEF BeginAct
  <2>2. KnowsWhatItRead(s, held[t] \cup {})
    BY DEF KnowsWhatItRead, NoTx
  <2> HIDE DEF s
  <2> QED
    BY <2>1, <2>2, DoorStepKeeps
<1>2. CASE ScanAdmins(t)
  <2> DEFINE s == [tx[t] EXCEPT !.step = "rows", !.rows = ActiveAdmins]
  <2>1. Step(t, s, {}) /\ s.op = "act" /\ s.step = "rows"
    BY <1>0, <1>2 DEF ScanAdmins, At, TxState
  <2> HIDE DEF s
  <2>2. KnowsWhatItRead(s, held[t] \cup {})
    BY <2>1 DEF KnowsWhatItRead
  <2> QED
    BY <2>1, <2>2, DoorStepKeeps
<1>3. CASE LockAdmin(t)
  <2>1. PICK p \in tx[t].rows :
          Step(t, [tx[t] EXCEPT !.rows = @ \ {p},
                                !.count = IF IsActiveAdmin(p) THEN @ + 1 ELSE @], {p})
    BY <1>3 DEF LockAdmin
  <2> DEFINE s == [tx[t] EXCEPT !.rows = @ \ {p},
                                !.count = IF IsActiveAdmin(p) THEN @ + 1 ELSE @]
  <2>2. Step(t, s, {p}) /\ s.op = "act" /\ s.step = "rows"
    BY <1>0, <1>3, <2>1 DEF LockAdmin, At, TxState
  <2> HIDE DEF s
  <2>3. KnowsWhatItRead(s, held[t] \cup {p})
    BY <2>2 DEF KnowsWhatItRead
  <2> QED
    BY <2>2, <2>3, DoorStepKeeps
<1>4. CASE LockActor(t) /\ IsActiveAdmin(tx[t].who)
  <2> DEFINE s == [tx[t] EXCEPT !.step = "target"]
  <2>1. Step(t, s, {tx[t].who}) /\ s.op = "act" /\ s.step = "target" /\ s.who = tx[t].who
    BY <1>0, <1>4 DEF LockActor, At, TxState
  <2> HIDE DEF s
  <2>2. KnowsWhatItRead(s, held[t] \cup {tx[t].who})
    BY <1>4, <2>1 DEF KnowsWhatItRead
  <2> QED
    BY <2>1, <2>2, DoorStepKeeps
<1>5. CASE LockActor(t) /\ ~IsActiveAdmin(tx[t].who)
  BY <1>5, DoorRefuseKeeps DEF LockActor
<1>6. CASE LockTarget(t)
  <2> DEFINE s == [tx[t] EXCEPT !.step = "commit"]
  <2>1. Step(t, s, {tx[t].target}) /\ s.op = "act" /\ s.step = "commit" /\ s.who = tx[t].who
        /\ tx[t].op = "act" /\ tx[t].step = "target"
    BY <1>0, <1>6 DEF LockTarget, At, TxState
  <2> HIDE DEF s
  <2>2. KnowsWhatItRead(s, held[t] \cup {tx[t].target})
    BY <1>0, <2>1 DEF KnowsWhatItRead
  <2> QED
    BY <2>1, <2>2, DoorStepKeeps
<1> QED
  BY <1>1, <1>2, <1>3, <1>4, <1>5, <1>6

(* An action announces nobody and opens no invite.                         *)
LEMMA CommitActDoor ==
    ASSUME DoorInv, IInv', NEW t \in Txs, CommitAct(t)
    PROVE  DoorInv'
<1> DEFINE p == tx[t].target
<1>0. /\ p \in Persons /\ p \in held[t]
      /\ status \in [Persons -> Statuses] /\ role \in [Persons -> {"member", "admin"}]
  BY DEF DoorInv, IInv, HoldsWhatItWrites, NamesItsRows, CommitAct, At
<1>1. CASE Refuse(t)
  BY <1>1, DoorRefuseKeeps
<1>2. CASE ~Refuse(t)
  <2>1. /\ Applies(p, tx[t].action)
        /\ status' = [status EXCEPT ![p] = StatusAfter(p, tx[t].action)]
        /\ role' = [role EXCEPT ![p] = RoleAfter(p, tx[t].action)]
        /\ invite' = invite /\ n1' = n1 /\ admitted' = admitted /\ End(t)
    BY <1>2 DEF CommitAct
  <2>2. \A q \in Persons : q \notin held[t] => status'[q] = status[q] /\ role'[q] = role[q]
    BY <1>0, <2>1
  <2>3. \A q \in Persons : status'[q] = "none" => status[q] = "none"
    BY <1>0, <2>1 DEF StatusAfter
  <2>4. Announcements'
    BY <2>1, <2>3 DEF DoorInv, Announcements, AnnouncedOnce, Exists
  <2>5. Admissions'
    BY <2>1 DEF DoorInv, Admissions, InviteAdmitsOne
  <2> QED
    BY <2>1, <2>2, <2>4, <2>5, DoorEndKeeps
<1> QED
  BY <1>1, <1>2

LEMMA InviteDoorSteps ==
    ASSUME DoorInv, IInv', NEW t \in Txs,
           \/ \E a \in Persons, i \in Invites, op \in {"createInvite", "deleteInvite"} :
                 BeginInvite(t, op, a, i)
           \/ MatchMember(t) \/ InsertInvite(t)
    PROVE  DoorInv'
<1>0. tx[t] \in TxState
  BY DEF DoorInv, IInv
<1>1. CASE \E a \in Persons, i \in Invites, op \in {"createInvite", "deleteInvite"} :
              BeginInvite(t, op, a, i)
  <2>1. PICK a \in Persons, i \in Invites, op \in {"createInvite", "deleteInvite"} :
               BeginInvite(t, op, a, i)
    BY <1>1
  <2> DEFINE s == [NoTx EXCEPT !.op = op, !.who = a, !.invite = i,
                               !.step = IF op = "createInvite" THEN "match" ELSE "commit"]
  <2>2. Step(t, s, {})
    BY <2>1 DEF BeginInvite
  <2>3. /\ s.op = op
        /\ s.op = "createInvite" => s.step = "match"
    BY DEF NoTx
  <2> HIDE DEF s
  <2>4. KnowsWhatItRead(s, held[t] \cup {})
    BY <2>3 DEF KnowsWhatItRead
  <2> QED
    BY <2>2, <2>4, DoorStepKeeps
<1>2. CASE MatchMember(t)
  <2>1. CASE Refuse(t)
    BY <2>1, DoorRefuseKeeps
  <2>2. CASE ~Refuse(t)
    <3>1. PICK q \in Persons \cup {None}, rows \in SUBSET Persons :
            Step(t, [tx[t] EXCEPT !.step = "insert", !.target = q], rows)
      <4> DEFINE matched == {p \in Covers[tx[t].invite] : Exists(p)}
      <4>1. tx[t].invite \in Invites
        BY <1>2 DEF DoorInv, IInv, HoldsWhatItWrites, NamesItsRows, MatchMember, At
      <4>2. matched \in SUBSET Persons
        BY <4>1, MembersAssumption
      <4>3. [tx[t] EXCEPT !.step = "insert"]
               = [tx[t] EXCEPT !.step = "insert", !.target = tx[t].target]
        BY <1>0 DEF TxState
      <4>4. tx[t].target \in Persons \cup {None}
        BY <1>0 DEF TxState
      <4> HIDE DEF matched
      <4>5. \/ Step(t, [tx[t] EXCEPT !.step = "insert", !.target = tx[t].target], {})
            \/ \E p \in matched :
                  Step(t, [tx[t] EXCEPT !.step = "insert", !.target = p], matched)
        BY <1>2, <2>2, <4>3 DEF MatchMember, matched
      <4> QED
        BY <4>2, <4>4, <4>5
    <3> DEFINE s == [tx[t] EXCEPT !.step = "insert", !.target = q]
    <3>2. Step(t, s, rows) /\ s.op = "createInvite" /\ s.step = "insert"
      BY <1>0, <1>2, <3>1 DEF MatchMember, At, TxState
    <3> HIDE DEF s
    <3>3. KnowsWhatItRead(s, held[t] \cup rows)
      BY <3>2 DEF KnowsWhatItRead
    <3> QED
      BY <3>2, <3>3, DoorStepKeeps
  <2> QED
    BY <2>1, <2>2
<1>3. CASE InsertInvite(t)
  <2>1. CASE Refuse(t)
    BY <2>1, DoorRefuseKeeps
  <2>2. CASE ~Refuse(t)
    <3> DEFINE s == [tx[t] EXCEPT !.step = "commit"]
    <3>1. Step(t, s, {tx[t].invite}) /\ s.op = "createInvite" /\ s.invite = tx[t].invite
      BY <1>0, <1>3, <2>2 DEF InsertInvite, At, TxState
    <3> HIDE DEF s
    <3>2. KnowsWhatItRead(s, held[t] \cup {tx[t].invite})
      BY <3>1 DEF KnowsWhatItRead
    <3> QED
      BY <3>1, <3>2, DoorStepKeeps
  <2> QED
    BY <2>1, <2>2
<1> QED
  BY <1>1, <1>2, <1>3

(* A created invite admits the member it matched, or nobody yet.           *)
LEMMA CommitCreateInviteDoor ==
    ASSUME DoorInv, IInv', NEW t \in Txs, CommitCreateInvite(t)
    PROVE  DoorInv'
<1> DEFINE s == tx[t]
<1>0. /\ s.invite \in Invites /\ s.invite \in held[t]
      /\ s.target # None => s.target \in Persons /\ s.target \in held[t]
      /\ status \in [Persons -> Statuses] /\ End(t)
  BY DEF DoorInv, IInv, HoldsWhatItWrites, NamesItsRows, KnowsWhatItRead, TxState,
         CommitCreateInvite, At
<1>1. /\ invite \in [Invites -> {"none", "open", "used"}]
      /\ admitted \in [Invites -> SUBSET Persons]
      /\ \A i \in Invites : Cardinality(admitted[i]) <= 1
      /\ \A i \in Invites : admitted[i] # {} => invite[i] = "used"
  BY DEF DoorInv, Admissions, InviteAdmitsOne
<1>2. PICK who \in SUBSET Persons, becomes \in {"open", "used"} :
        /\ Cardinality(who) <= 1
        /\ who # {} => becomes = "used"
        /\ invite' = [invite EXCEPT ![s.invite] = becomes]
        /\ admitted' = [admitted EXCEPT ![s.invite] = who]
  <2>1. Cardinality({}) = 0 /\ Cardinality({s.target}) = 1
    BY FS_EmptySet, FS_Singleton
  <2>2. CASE s.target = None
    BY <2>1, <2>2 DEF CommitCreateInvite
  <2>3. CASE s.target # None
    <3>1. {s.target} \in SUBSET Persons
      BY <1>0, <2>3
    <3>2. invite' = [invite EXCEPT ![s.invite] = "used"]
          /\ admitted' = [admitted EXCEPT ![s.invite] = {s.target}]
      BY <2>3 DEF CommitCreateInvite
    <3> WITNESS {s.target} \in SUBSET Persons, "used" \in {"open", "used"}
    <3> QED
      BY <2>1, <3>2
  <2> QED
    BY <2>2, <2>3
<1>3. /\ status' = status \/ (s.target # None /\ status' = [status EXCEPT ![s.target] = "approved"])
      /\ role' = role /\ n1' = n1
  BY DEF CommitCreateInvite
<1>4. \A q \in Persons : q \notin held[t] => status'[q] = status[q] /\ role'[q] = role[q]
  BY <1>0, <1>3
<1>5. \A i \in Invites : i \notin Taken(t) \/ invite'[i] = invite[i]
  <2>1. s.invite \notin Taken(t)
    BY <1>0 DEF DoorInv, IInv, LocksDisjoint, Taken
  <2> QED
    BY <1>1, <1>2, <2>1
<1>6. Announcements'
  <2>1. \A q \in Persons : status'[q] = "none" => status[q] = "none"
    BY <1>0, <1>3
  <2> QED
    BY <1>3, <2>1 DEF DoorInv, Announcements, AnnouncedOnce, Exists
<1>7. Admissions'
  <2>1. /\ invite' \in [Invites -> {"none", "open", "used"}]
        /\ admitted' \in [Invites -> SUBSET Persons]
    BY <1>1, <1>2
  <2>2. \A i \in Invites : /\ Cardinality(admitted'[i]) <= 1
                           /\ admitted'[i] # {} => invite'[i] = "used"
    <3> TAKE i \in Invites
    <3>1. CASE i = s.invite
      BY <1>0, <1>1, <1>2, <3>1
    <3>2. CASE i # s.invite
      BY <1>1, <1>2, <3>2
    <3> QED
      BY <3>1, <3>2
  <2> QED
    BY <2>1, <2>2 DEF Admissions, InviteAdmitsOne
<1> QED
  BY <1>0, <1>4, <1>5, <1>6, <1>7, DoorEndKeeps

(* An invite is deleted when nobody holds its row.                         *)
LEMMA CommitDeleteInviteDoor ==
    ASSUME DoorInv, IInv', NEW t \in Txs, CommitDeleteInvite(t)
    PROVE  DoorInv'
<1> DEFINE i == tx[t].invite
<1>1. /\ invite' = [invite EXCEPT ![i] = "none"] /\ admitted' = [admitted EXCEPT ![i] = {}]
      /\ status' = status /\ role' = role /\ n1' = n1 /\ i \notin Taken(t) /\ End(t)
  BY DEF CommitDeleteInvite
<1>2. /\ invite \in [Invites -> {"none", "open", "used"}]
      /\ admitted \in [Invites -> SUBSET Persons]
      /\ \A j \in Invites : Cardinality(admitted[j]) <= 1
      /\ \A j \in Invites : admitted[j] # {} => invite[j] = "used"
  BY DEF DoorInv, Admissions, InviteAdmitsOne
<1>3. \A j \in Invites : j \notin Taken(t) \/ invite'[j] = invite[j]
  BY <1>1, <1>2
<1>4. Announcements'
  BY <1>1 DEF DoorInv, Announcements, AnnouncedOnce, Exists
<1>5. Admissions'
  <2>1. Cardinality({}) = 0
    BY FS_EmptySet
  <2>2. /\ invite' \in [Invites -> {"none", "open", "used"}]
        /\ admitted' \in [Invites -> SUBSET Persons]
    BY <1>1, <1>2
  <2>3. \A j \in Invites : /\ Cardinality(admitted'[j]) <= 1
                           /\ admitted'[j] # {} => invite'[j] = "used"
    <3> TAKE j \in Invites
    <3>1. CASE j = i
      BY <1>1, <1>2, <2>1, <3>1
    <3>2. CASE j # i
      BY <1>1, <1>2, <3>2
    <3> QED
      BY <3>1, <3>2
  <2> QED
    BY <2>2, <2>3 DEF Admissions, InviteAdmitsOne
<1> QED
  BY <1>1, <1>3, <1>4, <1>5, DoorEndKeeps

LEMMA InitDoorInv == Init => DoorInv
<1> SUFFICES ASSUME Init PROVE DoorInv
  OBVIOUS
<1>1. \A t \in Txs : KnowsWhatItRead(tx[t], held[t])
  BY DEF Init, KnowsWhatItRead, NoTx
<1>2. Announcements
  BY DEF Init, Announcements, AnnouncedOnce
<1>3. Admissions
  <2>1. Cardinality({}) = 0
    BY FS_EmptySet
  <2> QED
    BY <2>1 DEF Init, Admissions, InviteAdmitsOne
<1> QED
  BY <1>1, <1>2, <1>3, InitIInv DEF DoorInv

LEMMA NextDoorInv == DoorInv /\ [Next]_vars => DoorInv'
<1> SUFFICES ASSUME DoorInv, [Next]_vars PROVE DoorInv'
  OBVIOUS
<1>0. IInv'
  BY NextIInv DEF DoorInv
<1>1. ASSUME NEW t \in Txs,
             \/ \E p \in Persons : BeginIdentify(t, p)
             \/ FindOpenInvite(t) \/ FindMember(t) \/ InsertMember(t)
      PROVE  DoorInv'
  BY <1>0, <1>1, IdentifyDoorSteps
<1>2. ASSUME NEW t \in Txs, CommitIdentify(t) PROVE DoorInv'
  BY <1>0, <1>2, CommitIdentifyDoor
<1>3. ASSUME NEW t \in Txs,
             \/ \E a, p \in Persons, action \in Actions : BeginAct(t, a, p, action)
             \/ ScanAdmins(t) \/ LockAdmin(t) \/ LockActor(t) \/ LockTarget(t)
      PROVE  DoorInv'
  BY <1>0, <1>3, ActDoorSteps
<1>4. ASSUME NEW t \in Txs, CommitAct(t) PROVE DoorInv'
  BY <1>0, <1>4, CommitActDoor
<1>5. ASSUME NEW t \in Txs,
             \/ \E a \in Persons, i \in Invites, op \in {"createInvite", "deleteInvite"} :
                   BeginInvite(t, op, a, i)
             \/ MatchMember(t) \/ InsertInvite(t)
      PROVE  DoorInv'
  BY <1>0, <1>5, InviteDoorSteps
<1>6. ASSUME NEW t \in Txs, CommitCreateInvite(t) PROVE DoorInv'
  BY <1>0, <1>6, CommitCreateInviteDoor
<1>7. ASSUME NEW t \in Txs, CommitDeleteInvite(t) PROVE DoorInv'
  BY <1>0, <1>7, CommitDeleteInviteDoor
<1>8. ASSUME NEW t \in Txs, Rollback(t) PROVE DoorInv'
  BY <1>0, <1>8, DoorRefuseKeeps DEF Rollback
<1>9. CASE UNCHANGED vars
  BY <1>0, <1>9 DEF vars, DoorInv, KnowsWhatItRead, Announcements, AnnouncedOnce, Admissions,
               InviteAdmitsOne, Exists, IsActiveAdmin
<1> QED
  BY <1>1, <1>2, <1>3, <1>4, <1>5, <1>6, <1>7, <1>8, <1>9 DEF Next

(* What identify, act and the invites (members/service.ts) know when they  *)
(* commit: their reads of locked rows are not stale, an applicant's row    *)
(* was never announced before, an open invite never admitted anyone.       *)
THEOREM DoorInvariance == Spec => []DoorInv
<1> QED
  BY InitDoorInv, NextDoorInv, PTL DEF Spec

(* PRD US-1.2: the admins hear of an applicant at most once (N1 in         *)
(* identify), whichever doors the person knocks at, in parallel or again.  *)
THEOREM ApplicantsAnnouncedOnce == Spec => []AnnouncedOnce
<1>1. DoorInv => AnnouncedOnce
  BY DEF DoorInv, Announcements
<1> QED
  BY <1>1, DoorInvariance, PTL

(* PRD US-1.3: a pre-approval approves at most one person while its row    *)
(* lives, however many of those it covers knock, or wait, at once.         *)
THEOREM InvitesAdmitOne == Spec => []InviteAdmitsOne
<1>1. DoorInv => InviteAdmitsOne
  BY DEF DoorInv, Admissions
<1> QED
  BY <1>1, DoorInvariance, PTL

-----------------------------------------------------------------------------
(* What a step may do: besides the four commits, none writes; and the      *)
(* other transactions stay where they are.                                 *)
LEMMA MoveOf ==
    ASSUME IInv, Next
    PROVE  \E t \in Txs :
              /\ \A u \in Txs : u # t => tx'[u] = tx[u]
              /\ \/ UNCHANGED data
                 \/ CommitIdentify(t) \/ CommitAct(t)
                 \/ CommitCreateInvite(t) \/ CommitDeleteInvite(t)
<1>1. ASSUME NEW t \in Txs, NEW s, NEW rows, Step(t, s, rows)
      PROVE  UNCHANGED data /\ \A u \in Txs : u # t => tx'[u] = tx[u]
  BY <1>1 DEF Step, Set, IInv
<1>2. ASSUME NEW t \in Txs, End(t)
      PROVE  \A u \in Txs : u # t => tx'[u] = tx[u]
  BY <1>2 DEF End, Set, IInv
<1>3. ASSUME NEW t \in Txs, Refuse(t)
      PROVE  UNCHANGED data /\ \A u \in Txs : u # t => tx'[u] = tx[u]
  BY <1>2, <1>3 DEF Refuse
<1>4. PICK t \in Txs :
        \/ \E p \in Persons : BeginIdentify(t, p)
        \/ FindOpenInvite(t) \/ FindMember(t) \/ InsertMember(t) \/ CommitIdentify(t)
        \/ \E a, p \in Persons, action \in Actions : BeginAct(t, a, p, action)
        \/ ScanAdmins(t) \/ LockAdmin(t) \/ LockActor(t) \/ LockTarget(t) \/ CommitAct(t)
        \/ \E a \in Persons, i \in Invites, op \in {"createInvite", "deleteInvite"} :
              BeginInvite(t, op, a, i)
        \/ MatchMember(t) \/ InsertInvite(t) \/ CommitCreateInvite(t)
        \/ CommitDeleteInvite(t)
        \/ Rollback(t)
  BY DEF Next
<1>5. CASE \/ \E p \in Persons : BeginIdentify(t, p)
           \/ FindOpenInvite(t) \/ FindMember(t) \/ InsertMember(t)
  BY <1>1, <1>5 DEF BeginIdentify, FindOpenInvite, FindMember, InsertMember
<1>6. CASE \/ \E a, p \in Persons, action \in Actions : BeginAct(t, a, p, action)
           \/ ScanAdmins(t) \/ LockAdmin(t) \/ LockActor(t) \/ LockTarget(t)
  BY <1>1, <1>3, <1>6 DEF BeginAct, ScanAdmins, LockAdmin, LockActor, LockTarget
<1>7. CASE \/ \E a \in Persons, i \in Invites, op \in {"createInvite", "deleteInvite"} :
                 BeginInvite(t, op, a, i)
           \/ MatchMember(t) \/ InsertInvite(t)
  BY <1>1, <1>3, <1>7 DEF BeginInvite, MatchMember, InsertInvite
<1>8. CASE Rollback(t)
  BY <1>3, <1>8 DEF Rollback
<1>9. CASE \/ CommitIdentify(t) \/ CommitAct(t)
           \/ CommitCreateInvite(t) \/ CommitDeleteInvite(t)
  <2>1. End(t) \/ Refuse(t)
    BY <1>9 DEF CommitIdentify, CommitAct, CommitCreateInvite, CommitDeleteInvite
  <2> QED
    BY <1>2, <1>3, <1>9, <2>1
<1> QED
  BY <1>4, <1>5, <1>6, <1>7, <1>8, <1>9

(* A closed door: identify approves a row it created or found waiting, and *)
(* neither was rejected or suspended.                                      *)
LEMMA ReopenStep ==
    ASSUME DoorInv, Next, NEW p \in Persons,
           status[p] \in {"rejected", "suspended"}, status'[p] = "approved"
    PROVE  \E t \in Txs : tx[t].op # "identify" /\ ~Free(t) /\ tx'[t] = NoTx
<1>1. PICK t \in Txs :
         \/ UNCHANGED data
         \/ CommitIdentify(t) \/ CommitAct(t)
         \/ CommitCreateInvite(t) \/ CommitDeleteInvite(t)
  BY MoveOf DEF DoorInv
<1>2. ~UNCHANGED data
  BY DEF data
<1>3. ~CommitIdentify(t)
  <2>1. SUFFICES ASSUME CommitIdentify(t) PROVE FALSE
    OBVIOUS
  <2>2. status \in [Persons -> Statuses] /\ tx[t].op = "identify"
        /\ tx[t].step \in {"created", "waiting", "known"}
    BY <2>1 DEF DoorInv, IInv, CommitIdentify
  <2>3. tx[t].step = "created" => status[tx[t].who] = "none"
    BY <2>2 DEF DoorInv, IInv, HoldsWhatItWrites, Exists
  <2>4. tx[t].step = "waiting" => status[tx[t].who] = "pending"
    BY <2>2 DEF DoorInv, KnowsWhatItRead
  <2> QED
    BY <2>1, <2>2, <2>3, <2>4 DEF CommitIdentify
<1>4. CASE CommitAct(t)
  <2>1. tx[t].op = "act" /\ tx[t].step = "commit" /\ End(t)
    BY <1>2, <1>4 DEF CommitAct, At, Refuse
  <2> QED
    BY <2>1 DEF End, Set, Free, DoorInv, IInv
<1>5. CASE CommitCreateInvite(t) \/ CommitDeleteInvite(t)
  <2>1. tx[t].op \in {"createInvite", "deleteInvite"} /\ tx[t].step = "commit" /\ End(t)
    BY <1>5 DEF CommitCreateInvite, CommitDeleteInvite, At
  <2> QED
    BY <2>1 DEF End, Set, Free, DoorInv, IInv
<1> QED
  BY <1>1, <1>2, <1>3, <1>4, <1>5

(* A door an admin closed is opened by an admin only (identify,            *)
(* members/service.ts): a knock never approves who was rejected or         *)
(* suspended, however long ago it read its member.                         *)
THEOREM ReopenedByAdmins == Spec => OnlyAdminsReopen
<1>1. DoorInv /\ [Next]_vars =>
         [\A p \in Persons :
             status[p] \in {"rejected", "suspended"} /\ status'[p] = "approved" =>
                 \E t \in Txs : tx[t].op # "identify" /\ ~Free(t) /\ tx'[t] = NoTx]_vars
  <2> SUFFICES ASSUME DoorInv, Next, NEW p \in Persons,
                      status[p] \in {"rejected", "suspended"}, status'[p] = "approved"
               PROVE  \E t \in Txs : tx[t].op # "identify" /\ ~Free(t) /\ tx'[t] = NoTx
    OBVIOUS
  <2> QED
    BY ReopenStep
<1> QED
  BY <1>1, DoorInvariance, PTL DEF Spec, OnlyAdminsReopen

(* Who acts: a transaction that ends with a write is the one that moved.   *)
LEMMA ActorStep ==
    ASSUME DoorInv, Next, NEW t \in Txs, tx[t].op = "act", Changes(t)
    PROVE  IsActiveAdmin(tx[t].who)
<1>1. PICK u \in Txs :
         /\ \A v \in Txs : v # u => tx'[v] = tx[v]
         /\ \/ UNCHANGED data
            \/ CommitIdentify(u) \/ CommitAct(u)
            \/ CommitCreateInvite(u) \/ CommitDeleteInvite(u)
  BY MoveOf DEF DoorInv
<1>2. ~UNCHANGED data
  BY DEF data, Changes
<1>3. u = t
  BY <1>1 DEF Changes, Free, NoTx
<1>4. ~CommitIdentify(t) /\ ~CommitCreateInvite(t) /\ ~CommitDeleteInvite(t)
  BY DEF CommitIdentify, CommitCreateInvite, CommitDeleteInvite, At
<1>5. CommitAct(t)
  BY <1>1, <1>2, <1>3, <1>4
<1> QED
  BY <1>5 DEF CommitAct, At, DoorInv, KnowsWhatItRead

(* Whoever commits one of the six actions (act, members/service.ts) is an  *)
(* approved admin at that moment: an admin suspended or demoted since the  *)
(* caller's copy was read changes nothing any more.                        *)
THEOREM ActorsWereAdmins == Spec => ActorsAreAdmins
<1>1. DoorInv /\ [Next]_vars =>
         [\A t \in Txs : tx[t].op = "act" /\ Changes(t) => IsActiveAdmin(tx[t].who)]_vars
  <2> SUFFICES ASSUME DoorInv, Next, NEW t \in Txs, tx[t].op = "act", Changes(t)
               PROVE  IsActiveAdmin(tx[t].who)
    OBVIOUS
  <2> QED
    BY ActorStep
<1> QED
  BY <1>1, DoorInvariance, PTL DEF Spec, ActorsAreAdmins

=============================================================================
