------------------------- MODULE ReservationsProofs -------------------------
(***************************************************************************)
(* For every number of members, offers, reservations and transactions:     *)
(* the inductive invariant IInv of Reservations, and what follows from it. *)
(* It goes in four parts. IInv: counting held units (the lemmas on         *)
(* HeldUnits), the frame (what a transaction may do to the rows another    *)
(* one has locked: FrameKept), and one lemma per action. HInv: the history *)
(* a reservation leaves in its thread and its notices, by the five moves   *)
(* it can make (RsvMove), and the action properties. OInv: what publish    *)
(* and edit have counted of the active offers (TxCounts). Last, the        *)
(* refinement of Stock, commit by commit.                                  *)
(***************************************************************************)
EXTENDS Reservations, FiniteSetTheorems, SequenceTheorems, TLAPS

(* Reservations.Held is a number: the units form a finite set.             *)
LEMMA HeldUnitsFinite ==
    ASSUME NEW f, NEW o
    PROVE  IsFiniteSet(HeldUnits(f, o)) /\ Cardinality(HeldUnits(f, o)) \in Nat
<1>1. IsFiniteSet(1..MaxQty)
  BY FS_Interval, ConstantsAssumption
<1>2. IsFiniteSet(Rsvs \X (1..MaxQty))
  BY <1>1, FS_Product, ConstantsAssumption
<1>3. HeldUnits(f, o) \in SUBSET (Rsvs \X (1..MaxQty))
  BY DEF HeldUnits
<1>4. IsFiniteSet(HeldUnits(f, o))
  BY <1>2, <1>3, FS_Subset
<1> QED
  BY <1>4, FS_CardinalityType

(* The units of one reservation of quantity q are q in number.             *)
LEMMA UnitsOfOne ==
    ASSUME NEW r, NEW q \in Nat
    PROVE  IsFiniteSet({r} \X (1..q)) /\ Cardinality({r} \X (1..q)) = q
<1>1. IsFiniteSet(1..q) /\ Cardinality(1..q) = q
  BY FS_Interval
<1>2. IsFiniteSet({r}) /\ Cardinality({r}) = 1
  BY FS_Singleton
<1>3. /\ IsFiniteSet({r} \X (1..q))
      /\ Cardinality({r} \X (1..q)) = Cardinality({r}) * Cardinality(1..q)
  BY <1>1, <1>2, FS_Product
<1> QED
  BY <1>1, <1>2, <1>3

(* Fewer holding reservations hold no more.                                *)
LEMMA HeldShrinks ==
    ASSUME NEW f, NEW g, NEW o, HeldUnits(g, o) \subseteq HeldUnits(f, o)
    PROVE  Cardinality(HeldUnits(g, o)) <= Cardinality(HeldUnits(f, o))
BY HeldUnitsFinite, FS_Subset

(* One more reservation of quantity q holds at most q more.                *)
LEMMA HeldGrows ==
    ASSUME NEW f, NEW g, NEW o, NEW r, NEW q \in Nat,
           HeldUnits(g, o) \subseteq HeldUnits(f, o) \cup ({r} \X (1..q))
    PROVE  Cardinality(HeldUnits(g, o)) <= Cardinality(HeldUnits(f, o)) + q
<1> DEFINE A == HeldUnits(f, o)
           B == {r} \X (1..q)
<1>1. IsFiniteSet(A) /\ Cardinality(A) \in Nat
  BY HeldUnitsFinite
<1>2. IsFiniteSet(B) /\ Cardinality(B) = q
  BY UnitsOfOne
<1>3. /\ IsFiniteSet(A \cup B)
      /\ Cardinality(A \cup B) = Cardinality(A) + Cardinality(B) - Cardinality(A \cap B)
  BY <1>1, <1>2, FS_Union
<1>4. Cardinality(A \cap B) \in Nat
  <2>1. A \cap B \in SUBSET A
    OBVIOUS
  <2>2. IsFiniteSet(A \cap B)
    BY <1>1, <2>1, FS_Subset
  <2> QED
    BY <2>2, FS_CardinalityType
<1>5. Cardinality(HeldUnits(g, o)) <= Cardinality(A \cup B)
  <2>1. HeldUnits(g, o) \in SUBSET (A \cup B)
    OBVIOUS
  <2> QED
    BY <1>3, <2>1, FS_Subset
<1>6. Cardinality(HeldUnits(g, o)) \in Nat
  BY HeldUnitsFinite
<1> HIDE DEF A, B
<1>7. Cardinality(HeldUnits(g, o)) <= Cardinality(A) + q
  BY <1>1, <1>2, <1>3, <1>4, <1>5, <1>6
<1> QED
  BY <1>7 DEF A

(* When a holding reservation of quantity q stops holding, q less is held. *)
LEMMA HeldLoses ==
    ASSUME NEW f, NEW g, NEW o, NEW r, NEW q \in Nat,
           {r} \X (1..q) \subseteq HeldUnits(f, o),
           HeldUnits(g, o) \subseteq HeldUnits(f, o) \ ({r} \X (1..q))
    PROVE  Cardinality(HeldUnits(g, o)) + q <= Cardinality(HeldUnits(f, o))
<1> DEFINE A == HeldUnits(f, o)
           B == {r} \X (1..q)
<1>1. IsFiniteSet(A) /\ Cardinality(A) \in Nat
  BY HeldUnitsFinite
<1>2. Cardinality(A \cap B) = q
  <2>1. A \cap B = B
    OBVIOUS
  <2> QED
    BY <2>1, UnitsOfOne
<1>3. IsFiniteSet(A \ B) /\ Cardinality(A \ B) = Cardinality(A) - Cardinality(A \cap B)
  BY <1>1, FS_Difference
<1>4. Cardinality(HeldUnits(g, o)) <= Cardinality(A \ B)
  <2>1. HeldUnits(g, o) \in SUBSET (A \ B)
    OBVIOUS
  <2> QED
    BY <1>3, <2>1, FS_Subset
<1>5. Cardinality(HeldUnits(g, o)) \in Nat
  BY HeldUnitsFinite
<1> HIDE DEF A, B
<1>6. Cardinality(HeldUnits(g, o)) + q <= Cardinality(A)
  BY <1>1, <1>2, <1>3, <1>4, <1>5
<1> QED
  BY <1>6 DEF A

-----------------------------------------------------------------------------
(* The frame: what a step of transaction t may do.  Rows locked by another *)
(* transaction keep their values, and only offers t has locked can be held *)
(* more.                                                                   *)
TxFrame(t) ==
    \A u \in Txs \ {t} : /\ tx'[u] = tx[u]
                         /\ locks'[u] = locks[u]
                         /\ locks'[t] \cap locks[u] = {}

RowsFrame(t) ==
    /\ \A r \in Rsvs :
         /\ rsv'[r] = rsv[r] \/ r \in locks[t] \/ rsv[r].status = "absent"
         /\ rsv[r].status # "absent" => rsv'[r].status # "absent"
    /\ \A o \in Offers :
         /\ offers'[o] = offers[o] \/ o \in locks[t] \/ offers[o].status = "absent"
         /\ offers[o].status # "absent" => offers'[o].status # "absent"
         /\ o \in locks[t] \/ HeldUnits(rsv', o) \subseteq HeldUnits(rsv, o)

Frame(t) == TxFrame(t) /\ RowsFrame(t)

TablesTypeOK ==
    /\ now \in Time
    /\ approved \subseteq Members
    /\ offers \in [Offers -> OfferRow]
    /\ rsv \in [Rsvs -> RsvRow]
    /\ lines \in [Rsvs -> Seq(Line)]
    /\ notes \in [Rsvs -> Seq(Note)]

(* What the other transactions have locked and checked survives the step.  *)
LEMMA FrameKept ==
    ASSUME IInv, NEW t \in Txs, Frame(t)
    PROVE  \A u \in Txs \ {t} : TxShape(u)' /\ TxLocks(u)' /\ TxChecks(u)'
<1> SUFFICES ASSUME NEW u \in Txs \ {t}
             PROVE  TxShape(u)' /\ TxLocks(u)' /\ TxChecks(u)'
  OBVIOUS
<1>1. /\ tx'[u] = tx[u] /\ locks'[u] = locks[u]
      /\ locks[u] \cap locks[t] = {}
      /\ TxShape(u) /\ TxLocks(u) /\ TxChecks(u)
      /\ tx[u] \in TxState
  BY DEF Frame, TxFrame, IInv, LocksDisjoint, TypeOK
<1>2. \A r \in Rsvs : (r \in locks[u] /\ rsv[r].status # "absent") => rsv'[r] = rsv[r]
  BY <1>1 DEF Frame, RowsFrame
<1>3. \A o \in Offers : (o \in locks[u] /\ offers[o].status # "absent") => offers'[o] = offers[o]
  BY <1>1 DEF Frame, RowsFrame
<1>4. TxShape(u)'
  BY <1>1 DEF TxShape, Frame, RowsFrame
<1>5. TxLocks(u)'
  BY <1>1, <1>2 DEF TxLocks, TxShape, Deliveries, Actions
<1>6. TxChecks(u)'
  <2>1. (tx[u].op \in Actions /\ tx[u].pc \in {"offer", "commit"})
          => rsv'[tx[u].rsv].status \in Holding
    BY <1>1, <1>2 DEF TxChecks, TxLocks, TxShape
  <2>2. ASSUME tx[u].op \in {"create", "edit"}, tx[u].pc = "commit"
        PROVE  /\ Held(tx[u].offer)' <= Held(tx[u].offer)
               /\ offers'[tx[u].offer] = offers[tx[u].offer]
               /\ Held(tx[u].offer)' \in Nat /\ Held(tx[u].offer) \in Nat
    <3>1. tx[u].offer \in Offers /\ tx[u].offer \in locks[u] /\ tx[u].offer \notin locks[t]
      BY <1>1, <2>2 DEF TxLocks, TxShape, OnOneOffer, OfferOps
    <3>2. offers'[tx[u].offer] = offers[tx[u].offer]
      BY <1>1, <1>3, <2>2, <3>1 DEF TxShape, OnOneOffer, OfferOps
    <3>3. HeldUnits(rsv', tx[u].offer) \subseteq HeldUnits(rsv, tx[u].offer)
      BY <3>1 DEF Frame, RowsFrame
    <3> QED
      BY <1>1, <3>2, <3>3, HeldShrinks, HeldUnitsFinite DEF Held
  <2>3. \A x \in tx[u].rows : IsDue(tx[u].op, tx[u].at, x)'
    <3> SUFFICES ASSUME NEW x \in tx[u].rows
                 PROVE  IsDue(tx[u].op, tx[u].at, x)'
      OBVIOUS
    <3>1. IsDue(tx[u].op, tx[u].at, x) /\ x \in locks[u]
      BY <1>1 DEF TxChecks, TxLocks
    <3>2. CASE tx[u].op \in RsvJobs
      <4>1. x \in Rsvs
        BY <1>1, <3>2 DEF TxShape
      <4>2. rsv[x].status = "pending"
        BY <3>1, <3>2 DEF IsDue, RsvJobs
      <4>3. rsv'[x] = rsv[x]
        BY <1>2, <3>1, <4>1, <4>2
      <4> QED
        BY <1>1, <3>1, <3>2, <4>3 DEF IsDue, RsvJobs
    <3>3. CASE tx[u].op = "offers.expire"
      <4>1. x \in Offers
        BY <1>1, <3>3 DEF TxShape
      <4>2. offers[x].status = "active"
        BY <3>1, <3>3 DEF IsDue
      <4>3. offers'[x] = offers[x]
        BY <1>3, <3>1, <4>1, <4>2
      <4> QED
        BY <1>1, <3>1, <3>3, <4>3 DEF IsDue
    <3>4. tx[u].op \in RsvJobs \cup {"offers.expire"}
      BY <1>1 DEF TxShape, Jobs
    <3> QED
      BY <3>2, <3>3, <3>4
  <2>4. (tx[u].op = "create" /\ tx[u].pc = "commit") =>
          Held(tx[u].offer)' + tx[u].quantity <= offers'[tx[u].offer].quantity
    <3> SUFFICES ASSUME tx[u].op = "create", tx[u].pc = "commit"
                 PROVE  Held(tx[u].offer)' + tx[u].quantity <= offers'[tx[u].offer].quantity
      OBVIOUS
    <3>1. /\ tx[u].offer \in Offers /\ tx[u].quantity \in Nat
          /\ offers[tx[u].offer].quantity \in Nat
          /\ Held(tx[u].offer) + tx[u].quantity <= offers[tx[u].offer].quantity
      BY <1>1 DEF TxShape, TxChecks, OnOneOffer, IInv, TypeOK, OfferRow, Qty
    <3> QED
      BY <2>2, <3>1
  <2>5. (tx[u].op = "edit" /\ tx[u].pc = "commit" /\ tx[u].quantity # Keep) =>
          Held(tx[u].offer)' <= tx[u].quantity
    <3> SUFFICES ASSUME tx[u].op = "edit", tx[u].pc = "commit", tx[u].quantity # Keep
                 PROVE  Held(tx[u].offer)' <= tx[u].quantity
      OBVIOUS
    <3>1. tx[u].quantity \in Nat /\ Held(tx[u].offer) <= tx[u].quantity
      BY <1>1 DEF TxState, TxChecks, Qty
    <3> QED
      BY <2>2, <3>1
  <2> QED
    BY <1>1, <2>1, <2>3, <2>4, <2>5 DEF TxChecks
<1> QED
  BY <1>4, <1>5, <1>6

(* A step that leaves the tables alone: only t's own state is at stake.    *)
LEMMA QuietStep ==
    ASSUME IInv, NEW t \in Txs, TxFrame(t), UNCHANGED <<now, approved, tables>>,
           tx' \in [Txs -> TxState], locks' \in [Txs -> SUBSET Rows],
           TxShape(t)', TxLocks(t)', TxChecks(t)'
    PROVE  IInv'
<1>1. RowsFrame(t)
  BY DEF RowsFrame, tables
<1>2. \A u \in Txs : TxShape(u)' /\ TxLocks(u)' /\ TxChecks(u)'
  BY <1>1, FrameKept DEF Frame
<1>3. LocksDisjoint'
  BY DEF IInv, LocksDisjoint, TxFrame
<1>4. TypeOK'
  BY DEF IInv, TypeOK, tables
<1>5. RowsShape' /\ NoOversell'
  BY DEF IInv, RowsShape, NoOversell, Held, tables
<1> QED
  BY <1>2, <1>3, <1>4, <1>5 DEF IInv

(* A step that ends t, by a commit or a rollback.                          *)
LEMMA EndStep ==
    ASSUME IInv, NEW t \in Txs, End(t), RowsFrame(t),
           TablesTypeOK', RowsShape', NoOversell'
    PROVE  IInv'
<1>1. /\ tx' \in [Txs -> TxState] /\ locks' \in [Txs -> SUBSET Rows]
      /\ tx'[t] = Idle /\ locks'[t] = {}
  <2>1. Idle \in TxState
    BY ConstantsAssumption DEF Idle, TxState, Time, Qty
  <2> QED
    BY <2>1 DEF End, IInv, TypeOK
<1>2. TxFrame(t)
  BY <1>1 DEF End, TxFrame, IInv, TypeOK
<1>3. TxShape(t)' /\ TxLocks(t)' /\ TxChecks(t)'
  BY <1>1 DEF TxShape, TxLocks, TxChecks, Idle, Requests, Actions, Decisions, Deliveries,
              OfferOps, OnOneOffer, Jobs, RsvJobs
<1>4. \A u \in Txs : TxShape(u)' /\ TxLocks(u)' /\ TxChecks(u)'
  BY <1>2, <1>3, FrameKept DEF Frame
<1>5. LocksDisjoint'
  BY <1>1, <1>2 DEF IInv, LocksDisjoint, TxFrame
<1>6. TypeOK'
  BY <1>1 DEF TablesTypeOK, TypeOK
<1> QED
  BY <1>4, <1>5, <1>6 DEF IInv

(* Where a transaction stands after moving to another statement.           *)
LEMMA GotoStep ==
    ASSUME IInv, NEW t \in Txs, NEW pc, Goto(t, pc),
           pc \in {"rsv", "offer", "check", "commit"}
    PROVE  /\ tx' \in [Txs -> TxState]
           /\ tx'[t] = [tx[t] EXCEPT !.pc = pc]
           /\ \A u \in Txs \ {t} : tx'[u] = tx[u]
<1>1. tx \in [Txs -> TxState] /\ tx[t] \in TxState
  BY DEF IInv, TypeOK
<1>2. [tx[t] EXCEPT !.pc = pc] \in TxState
  BY <1>1 DEF TxState
<1>3. tx' = [tx EXCEPT ![t] = [tx[t] EXCEPT !.pc = pc]]
  BY DEF Goto
<1> QED
  BY <1>1, <1>2, <1>3

(* Taking a free row keeps the rows of different transactions apart.       *)
LEMMA LockStep ==
    ASSUME IInv, NEW t \in Txs, NEW row \in Rows, Lock(t, row)
    PROVE  /\ locks' \in [Txs -> SUBSET Rows]
           /\ locks'[t] = locks[t] \cup {row}
           /\ \A u \in Txs \ {t} : locks'[u] = locks[u] /\ locks'[t] \cap locks[u] = {}
<1>1. locks' \in [Txs -> SUBSET Rows] /\ locks'[t] = locks[t] \cup {row}
  BY DEF Lock, IInv, TypeOK
<1>2. \A u \in Txs \ {t} : locks'[u] = locks[u]
  BY DEF Lock, IInv, TypeOK
<1>3. \A u \in Txs \ {t} : locks[t] \cap locks[u] = {} /\ row \notin locks[u]
  BY DEF Lock, Free, IInv, LocksDisjoint
<1> QED
  BY <1>1, <1>2, <1>3

-----------------------------------------------------------------------------
(* The steps that begin a transaction, lock or check.                      *)
LEMMA BeginStep ==
    ASSUME IInv, NEW t \in Txs, NEW s \in TxState, Begin(t, s),
           s.pc \in {"member", "scan"}, s.rows = {}, s.todo = {}, TxShape(t)'
    PROVE  IInv'
<1>1. tx' \in [Txs -> TxState] /\ tx'[t] = s /\ locks' \in [Txs -> SUBSET Rows]
  BY DEF Begin, IInv, TypeOK
<1>2. TxFrame(t)
  BY DEF Begin, TxFrame, IInv, TypeOK, LocksDisjoint
<1>3. TxLocks(t)' /\ TxChecks(t)'
  BY <1>1 DEF TxLocks, TxChecks
<1> QED
  BY <1>1, <1>2, <1>3, QuietStep DEF Begin

LEMMA BeginCreateStep ==
    ASSUME IInv, NEW t \in Txs, NEW m \in Members, NEW o \in Offers, NEW q \in 1..MaxQty,
           BeginCreate(t, m, o, q)
    PROVE  IInv'
<1> DEFINE s == [Idle EXCEPT !.op = "create", !.pc = "member", !.at = now,
                             !.actor = m, !.offer = o, !.quantity = q]
<1>1. Begin(t, s) /\ offers[o].status # "absent"
  BY DEF BeginCreate
<1>2. s \in TxState
  <2>1. "create" \in Ops /\ now \in Time
    BY <1>1 DEF Begin, Idle, IInv, TypeOK
  <2>2. 0 \in Qty /\ q \in Qty
    BY ConstantsAssumption DEF Qty, Time
  <2> QED
    BY <2>1, <2>2 DEF Idle, TxState
<1>3. tx'[t] = s /\ offers' = offers
  BY <1>1 DEF Begin, IInv, TypeOK, tables
<1>4. TxShape(t)'
  BY <1>1, <1>3, IdsAssumption DEF TxShape, Idle, Requests, OnOneOffer, OfferOps, Actions,
      Decisions, Deliveries, Jobs, RsvJobs
<1>5. s.pc = "member" /\ s.rows = {} /\ s.todo = {}
  BY DEF Idle
<1> HIDE DEF s
<1> QED
  BY <1>1, <1>2, <1>4, <1>5, BeginStep

LEMMA BeginActStep ==
    ASSUME IInv, NEW t \in Txs, NEW m \in Members, NEW r \in Rsvs, NEW action \in Actions,
           BeginAct(t, m, r, action)
    PROVE  IInv'
<1> DEFINE s == [Idle EXCEPT !.op = action, !.pc = "member", !.at = now,
                             !.actor = m, !.rsv = r]
<1>1. Begin(t, s) /\ rsv[r].status # "absent"
  BY DEF BeginAct
<1>2. s \in TxState
  <2>1. action \in Ops /\ now \in Time
    BY <1>1 DEF Begin, Idle, IInv, TypeOK
  <2>2. 0 \in Qty
    BY ConstantsAssumption DEF Qty
  <2> QED
    BY <2>1, <2>2 DEF Idle, TxState
<1>3. tx'[t] = s /\ rsv' = rsv
  BY <1>1 DEF Begin, IInv, TypeOK, tables
<1>4. TxShape(t)'
  BY <1>1, <1>3 DEF TxShape, Idle, Requests, OnOneOffer, OfferOps, Actions,
      Decisions, Deliveries, Jobs, RsvJobs
<1>5. s.pc = "member" /\ s.rows = {} /\ s.todo = {}
  BY DEF Idle
<1> HIDE DEF s
<1> QED
  BY <1>1, <1>2, <1>4, <1>5, BeginStep

LEMMA BeginPublishStep ==
    ASSUME IInv, NEW t \in Txs, NEW m \in Members, NEW p \in Products,
           NEW q \in 1..MaxQty, NEW u \in Dates \cup {None}, BeginPublish(t, m, p, q, u)
    PROVE  IInv'
<1> DEFINE s == [Idle EXCEPT !.op = "publish", !.pc = "member", !.at = now,
                             !.actor = m, !.product = p, !.quantity = q, !.until = u]
<1>1. Begin(t, s)
  BY DEF BeginPublish
<1>2. s \in TxState
  <2>1. "publish" \in Ops /\ now \in Time
    BY <1>1 DEF Begin, Idle, IInv, TypeOK
  <2>2. 0 \in Qty /\ q \in Qty /\ u \in Time \cup {None}
    BY ConstantsAssumption DEF Qty, Time
  <2> QED
    BY <2>1, <2>2 DEF Idle, TxState
<1>3. tx'[t] = s
  BY <1>1 DEF Begin, IInv, TypeOK
<1>4. u # Keep
  BY ConstantsAssumption, IdsAssumption
<1>5. TxShape(t)'
  BY <1>3, <1>4 DEF TxShape, Idle, Requests, OnOneOffer, OfferOps, Actions,
      Decisions, Deliveries, Jobs, RsvJobs
<1>6. s.pc = "member" /\ s.rows = {} /\ s.todo = {}
  BY DEF Idle
<1> HIDE DEF s
<1> QED
  BY <1>1, <1>2, <1>5, <1>6, BeginStep

LEMMA BeginEditStep ==
    ASSUME IInv, NEW t \in Txs, NEW m \in Members, NEW o \in Offers,
           NEW q \in Qty \cup {Keep}, NEW u \in Dates \cup {None, Keep},
           BeginEdit(t, m, o, q, u)
    PROVE  IInv'
<1> DEFINE s == [Idle EXCEPT !.op = "edit", !.pc = "member", !.at = now,
                             !.actor = m, !.offer = o, !.quantity = q, !.until = u]
<1>1. Begin(t, s) /\ offers[o].status # "absent"
  BY DEF BeginEdit
<1>2. s \in TxState
  <2>1. "edit" \in Ops /\ now \in Time
    BY <1>1 DEF Begin, Idle, IInv, TypeOK
  <2>2. u \in Time \cup {None, Keep}
    BY ConstantsAssumption DEF Time
  <2> QED
    BY <2>1, <2>2 DEF Idle, TxState
<1>3. tx'[t] = s /\ offers' = offers
  BY <1>1 DEF Begin, IInv, TypeOK, tables
<1>4. TxShape(t)'
  BY <1>1, <1>3 DEF TxShape, Idle, Requests, OnOneOffer, OfferOps, Actions,
      Decisions, Deliveries, Jobs, RsvJobs
<1>5. s.pc = "member" /\ s.rows = {} /\ s.todo = {}
  BY DEF Idle
<1> HIDE DEF s
<1> QED
  BY <1>1, <1>2, <1>4, <1>5, BeginStep

LEMMA BeginWithdrawStep ==
    ASSUME IInv, NEW t \in Txs, NEW m \in Members, NEW o \in Offers, BeginWithdraw(t, m, o)
    PROVE  IInv'
<1> DEFINE s == [Idle EXCEPT !.op = "withdraw", !.pc = "member", !.at = now,
                             !.actor = m, !.offer = o]
<1>1. Begin(t, s) /\ offers[o].status # "absent"
  BY DEF BeginWithdraw
<1>2. s \in TxState
  <2>1. "withdraw" \in Ops /\ now \in Time
    BY <1>1 DEF Begin, Idle, IInv, TypeOK
  <2>2. 0 \in Qty
    BY ConstantsAssumption DEF Qty, Time
  <2> QED
    BY <2>1, <2>2 DEF Idle, TxState
<1>3. tx'[t] = s /\ offers' = offers
  BY <1>1 DEF Begin, IInv, TypeOK, tables
<1>4. TxShape(t)'
  BY <1>1, <1>3 DEF TxShape, Idle, Requests, OnOneOffer, OfferOps, Actions,
      Decisions, Deliveries, Jobs, RsvJobs
<1>5. s.pc = "member" /\ s.rows = {} /\ s.todo = {}
  BY DEF Idle
<1> HIDE DEF s
<1> QED
  BY <1>1, <1>2, <1>4, <1>5, BeginStep

LEMMA BeginJobStep ==
    ASSUME IInv, NEW t \in Txs, NEW job \in Jobs, BeginJob(t, job)
    PROVE  IInv'
<1> DEFINE s == [Idle EXCEPT !.op = job, !.pc = "scan", !.at = now]
<1>1. Begin(t, s)
  BY DEF BeginJob
<1>2. s \in TxState
  <2>1. job \in Ops /\ now \in Time
    BY <1>1 DEF Begin, Idle, IInv, TypeOK
  <2>2. 0 \in Qty
    BY ConstantsAssumption DEF Qty, Time
  <2> QED
    BY <2>1, <2>2 DEF Idle, TxState
<1>3. tx'[t] = s
  BY <1>1 DEF Begin, IInv, TypeOK
<1>4. TxShape(t)'
  BY <1>3 DEF TxShape, Idle, Requests, OnOneOffer, OfferOps, Actions,
      Decisions, Deliveries, Jobs, RsvJobs
<1>5. s.pc = "scan" /\ s.rows = {} /\ s.todo = {}
  BY DEF Idle
<1> HIDE DEF s
<1> QED
  BY <1>1, <1>2, <1>4, <1>5, BeginStep

(* A step that only moves t to another statement, perhaps with a new lock. *)
LEMMA MoveStep ==
    ASSUME IInv, NEW t \in Txs, NEW pc \in {"rsv", "offer", "check", "commit"}, Goto(t, pc),
           \/ UNCHANGED locks
           \/ \E row \in Rows : Lock(t, row),
           UNCHANGED <<now, approved, tables>>,
           TxShape(t)', TxLocks(t)', TxChecks(t)'
    PROVE  IInv'
<1>1. /\ tx' \in [Txs -> TxState]
      /\ \A u \in Txs \ {t} : tx'[u] = tx[u]
  BY GotoStep
<1>2. /\ locks' \in [Txs -> SUBSET Rows]
      /\ \A u \in Txs \ {t} : locks'[u] = locks[u] /\ locks'[t] \cap locks[u] = {}
  <2>1. CASE UNCHANGED locks
    BY <2>1 DEF IInv, TypeOK, LocksDisjoint
  <2>2. CASE \E row \in Rows : Lock(t, row)
    BY <2>2, LockStep
  <2> QED
    BY <2>1, <2>2
<1>3. TxFrame(t)
  BY <1>1, <1>2 DEF TxFrame
<1> QED
  BY <1>1, <1>2, <1>3, QuietStep

LEMMA LockMemberStep ==
    ASSUME IInv, NEW t \in Txs, LockMember(t)
    PROVE  IInv'
<1> DEFINE pc == CASE tx[t].op \in Actions -> "rsv"
                   [] tx[t].op = "publish" -> "check"
                   [] OTHER -> "offer"
<1>1. /\ TxShape(t) /\ TxLocks(t) /\ TxChecks(t) /\ tx[t].pc = "member"
      /\ Lock(t, tx[t].actor) /\ Goto(t, pc) /\ UNCHANGED <<now, approved, tables>>
  BY DEF LockMember, IInv
<1>2. tx[t].op \in Requests /\ tx[t].actor \in Rows
  BY <1>1 DEF TxShape, Rows
<1>3. pc \in {"rsv", "offer", "check"}
  OBVIOUS
<1>4. tx'[t] = [tx[t] EXCEPT !.pc = pc] /\ tx[t] \in TxState
  BY <1>1, <1>3, GotoStep DEF IInv, TypeOK
<1>5. locks'[t] = locks[t] \cup {tx[t].actor}
  BY <1>1, <1>2, LockStep
<1>6. /\ pc = "rsv" => tx[t].op \in Actions
      /\ pc = "check" => tx[t].op = "publish"
      /\ pc = "offer" => tx[t].op \in OnOneOffer
  BY <1>2 DEF Requests, OnOneOffer, OfferOps, Actions, Decisions, Deliveries, Jobs, RsvJobs
<1> HIDE DEF pc
<1>7. TxShape(t)'
  BY <1>1, <1>2, <1>3, <1>4, <1>6 DEF TxShape, TxState, Requests, OnOneOffer, OfferOps, Actions, Decisions, Deliveries, Jobs, RsvJobs, tables
<1>8. TxLocks(t)'
  BY <1>1, <1>3, <1>4, <1>5, <1>6 DEF TxLocks, TxState, OnOneOffer, OfferOps, Actions, Decisions, Deliveries
<1>9. TxChecks(t)'
  <2>1. tx'[t].rows = {}
    BY <1>2, <1>4, <1>1 DEF TxShape, TxState, Requests, OnOneOffer, OfferOps, Actions, Decisions, Deliveries, Jobs, RsvJobs
  <2>2. tx'[t].op = tx[t].op /\ tx'[t].pc = pc
    BY <1>4 DEF TxState
  <2> QED
    BY <1>3, <1>6, <2>1, <2>2 DEF TxChecks, Actions, Decisions, Deliveries, OnOneOffer, OfferOps
<1> QED
  BY <1>1, <1>2, <1>3, <1>7, <1>8, <1>9, MoveStep

LEMMA LockRsvStep ==
    ASSUME IInv, NEW t \in Txs, LockRsv(t)
    PROVE  IInv'
<1>1. /\ TxShape(t) /\ TxLocks(t) /\ TxChecks(t) /\ tx[t].pc = "rsv"
      /\ Lock(t, tx[t].rsv) /\ Goto(t, "check") /\ UNCHANGED <<now, approved, tables>>
  BY DEF LockRsv, IInv
<1>2. tx[t].op \in Actions /\ tx[t].rsv \in Rows
  BY <1>1 DEF TxShape, Rows
<1>3. tx'[t] = [tx[t] EXCEPT !.pc = "check"] /\ tx[t] \in TxState
  BY <1>1, GotoStep DEF IInv, TypeOK
<1>4. locks'[t] = locks[t] \cup {tx[t].rsv}
  BY <1>1, <1>2, LockStep
<1>5. TxShape(t)'
  BY <1>1, <1>2, <1>3 DEF TxShape, TxState, Requests, OnOneOffer, OfferOps, Actions, Decisions, Deliveries, Jobs, RsvJobs, tables
<1>6. TxLocks(t)'
  BY <1>1, <1>2, <1>3, <1>4 DEF TxLocks, TxState, OnOneOffer, OfferOps, Actions, Decisions, Deliveries
<1>7. TxChecks(t)'
  <2>1. tx'[t].rows = {}
    BY <1>1, <1>2, <1>3 DEF TxShape, TxState, Requests, OnOneOffer, OfferOps, Actions, Decisions, Deliveries, Jobs, RsvJobs
  <2> QED
    BY <1>2, <1>3, <2>1 DEF TxChecks, TxState
<1> QED
  BY <1>1, <1>2, <1>5, <1>6, <1>7, MoveStep

LEMMA LockOfferStep ==
    ASSUME IInv, NEW t \in Txs, LockOffer(t)
    PROVE  IInv'
<1>1. /\ TxShape(t) /\ TxLocks(t) /\ TxChecks(t) /\ tx[t].pc = "offer"
      /\ UNCHANGED <<now, approved, tables>> /\ tx[t] \in TxState
  BY DEF LockOffer, IInv, TypeOK
<1>2. CASE tx[t].op \in Deliveries
  <2>1. Lock(t, rsv[tx[t].rsv].offer) /\ Goto(t, "commit")
    BY <1>2 DEF LockOffer
  <2>2. rsv[tx[t].rsv].offer \in Rows /\ tx[t].op \in Actions /\ tx[t].rsv \in Rsvs
    BY <1>1, <1>2 DEF TxShape, Rows, IInv, RowsShape, Actions
  <2>3. tx'[t] = [tx[t] EXCEPT !.pc = "commit"]
    BY <2>1, GotoStep
  <2>4. locks'[t] = locks[t] \cup {rsv[tx[t].rsv].offer}
    BY <2>1, <2>2, LockStep
  <2>5. TxShape(t)'
    BY <1>1, <2>2, <2>3 DEF TxShape, TxState, Requests, OnOneOffer, OfferOps, Actions, Decisions, Deliveries, Jobs, RsvJobs, tables
  <2>6. TxLocks(t)'
    BY <1>1, <1>2, <2>2, <2>3, <2>4 DEF TxLocks, TxState, tables, OnOneOffer, OfferOps, Actions, Decisions, Deliveries
  <2>7. TxChecks(t)'
    <3>1. tx'[t].rows = {}
      BY <1>1, <2>2, <2>3 DEF TxShape, TxState, Requests, OnOneOffer, OfferOps, Actions, Decisions, Deliveries, Jobs, RsvJobs
    <3>2. rsv[tx[t].rsv].status \in Holding
      BY <1>1, <2>2 DEF TxChecks
    <3> QED
      BY <1>1, <1>2, <2>3, <3>1, <3>2 DEF TxChecks, TxState, tables, Deliveries
  <2> QED
    BY <1>1, <2>1, <2>2, <2>5, <2>6, <2>7, MoveStep
<1>3. CASE tx[t].op \notin Deliveries
  <2>1. Lock(t, tx[t].offer) /\ Goto(t, "check")
    BY <1>3 DEF LockOffer
  <2>2. tx[t].op \in OnOneOffer /\ tx[t].offer \in Rows
    BY <1>1, <1>3 DEF TxShape, Rows
  <2>3. tx'[t] = [tx[t] EXCEPT !.pc = "check"]
    BY <2>1, GotoStep
  <2>4. locks'[t] = locks[t] \cup {tx[t].offer}
    BY <2>1, <2>2, LockStep
  <2>5. TxShape(t)'
    BY <1>1, <2>2, <2>3 DEF TxShape, TxState, Requests, OnOneOffer, OfferOps, Actions, Decisions, Deliveries, Jobs, RsvJobs, tables
  <2>6. TxLocks(t)'
    BY <1>1, <2>2, <2>3, <2>4 DEF TxLocks, TxState, OnOneOffer, OfferOps, Actions, Decisions, Deliveries
  <2>7. TxChecks(t)'
    <3>1. tx'[t].rows = {}
      BY <1>1, <2>2, <2>3 DEF TxShape, TxState, Requests, OnOneOffer, OfferOps, Actions, Decisions, Deliveries, Jobs, RsvJobs
    <3> QED
      BY <2>2, <2>3, <3>1 DEF TxChecks, TxState
  <2> QED
    BY <1>1, <2>1, <2>2, <2>5, <2>6, <2>7, MoveStep
<1> QED
  BY <1>2, <1>3

(* A check that goes on to its commit, with what it checked.               *)
LEMMA CheckedStep ==
    ASSUME IInv, NEW t \in Txs, Goto(t, "commit"),
           tx[t].op \in OnOneOffer, tx[t].pc = "check",
           UNCHANGED <<now, approved, tables, locks>>,
           TxChecks(t)'
    PROVE  IInv'
<1>1. TxShape(t) /\ TxLocks(t) /\ tx[t] \in TxState
  BY DEF IInv, TypeOK
<1>2. tx'[t] = [tx[t] EXCEPT !.pc = "commit"]
  BY GotoStep
<1>3. TxShape(t)'
  BY <1>1, <1>2 DEF TxShape, TxState, Requests, OnOneOffer, OfferOps, Actions, Decisions, Deliveries, Jobs, RsvJobs, tables
<1>4. TxLocks(t)'
  BY <1>1, <1>2 DEF TxLocks, TxState, OnOneOffer, OfferOps, Actions, Decisions, Deliveries
<1> QED
  BY <1>1, <1>2, <1>3, <1>4, MoveStep

LEMMA CheckCreateStep ==
    ASSUME IInv, NEW t \in Txs, CheckCreate(t)
    PROVE  IInv'
<1> DEFINE o == tx[t].offer
<1>1. /\ TxShape(t) /\ TxLocks(t) /\ tx[t] \in TxState /\ tx \in [Txs -> TxState]
      /\ tx[t].op = "create" /\ tx[t].pc = "check"
      /\ UNCHANGED <<now, approved, tables, locks>>
      /\ Goto(t, "commit")
      /\ tx[t].quantity <= offers[o].quantity - Held(o)
  BY DEF CheckCreate, At, IInv, TypeOK
<1>2. Held(o) \in Nat
  BY HeldUnitsFinite DEF Held
<1>3. o \in Offers /\ tx[t].quantity \in Nat /\ offers[o].quantity \in Nat
  BY <1>1 DEF TxShape, OnOneOffer, IInv, TypeOK, OfferRow, Qty
<1>4. Held(o) + tx[t].quantity <= offers[o].quantity
  BY <1>1, <1>2, <1>3
<1>5. tx'[t] = [tx[t] EXCEPT !.pc = "commit"]
  BY <1>1, GotoStep
<1>6. tx'[t].rows = {}
  BY <1>1, <1>5 DEF TxShape, TxState, Requests, OnOneOffer, OfferOps, Actions, Decisions, Deliveries, Jobs, RsvJobs
<1>7. Held(o)' = Held(o) /\ offers' = offers
  <2>1. o' = o
    BY <1>1, <1>5 DEF TxState
  <2> QED
    BY <1>1, <2>1 DEF Held, tables
<1>8. TxChecks(t)'
  BY <1>1, <1>4, <1>5, <1>6, <1>7 DEF TxChecks, TxState, Actions, Decisions, Deliveries
<1> QED
  BY <1>1, <1>8, CheckedStep DEF OnOneOffer

LEMMA CheckEditStep ==
    ASSUME IInv, NEW t \in Txs, CheckEdit(t)
    PROVE  IInv'
<1> DEFINE o == tx[t].offer
<1>1. /\ TxShape(t) /\ TxLocks(t) /\ tx[t] \in TxState /\ tx \in [Txs -> TxState]
      /\ tx[t].op = "edit" /\ tx[t].pc = "check"
      /\ UNCHANGED <<now, approved, tables, locks>>
      /\ Goto(t, "commit")
      /\ tx[t].quantity # Keep => tx[t].quantity >= Held(o)
  BY DEF CheckEdit, At, IInv, TypeOK
<1>2. Held(o) \in Nat
  BY HeldUnitsFinite DEF Held
<1>3. tx[t].quantity # Keep => Held(o) <= tx[t].quantity
  <2>1. tx[t].quantity # Keep => tx[t].quantity \in Nat
    BY <1>1 DEF TxState, Qty
  <2> QED
    BY <1>1, <1>2, <2>1
<1>4. tx'[t] = [tx[t] EXCEPT !.pc = "commit"]
  BY <1>1, GotoStep
<1>5. tx'[t].rows = {}
  BY <1>1, <1>4 DEF TxShape, TxState, Requests, OnOneOffer, OfferOps, Actions, Decisions, Deliveries, Jobs, RsvJobs
<1>6. Held(o)' = Held(o)
  <2>1. o' = o
    BY <1>1, <1>4 DEF TxState
  <2> QED
    BY <1>1, <2>1 DEF Held, tables
<1>7. TxChecks(t)'
  BY <1>1, <1>3, <1>4, <1>5, <1>6 DEF TxChecks, TxState, Actions, Decisions, Deliveries
<1> QED
  BY <1>1, <1>7, CheckedStep DEF OnOneOffer, OfferOps

LEMMA CheckActStep ==
    ASSUME IInv, NEW t \in Txs, CheckAct(t)
    PROVE  IInv'
<1> DEFINE pc == IF tx[t].op \in Deliveries THEN "offer" ELSE "commit"
<1>1. /\ TxShape(t) /\ TxLocks(t) /\ tx[t] \in TxState
      /\ tx[t].op \in Actions /\ tx[t].pc = "check" /\ Goto(t, pc)
      /\ UNCHANGED <<now, approved, tables, locks>>
  BY DEF CheckAct, At, IInv, TypeOK
<1>2. rsv[tx[t].rsv].status \in Holding
  BY DEF CheckAct, AllowedActions, Holding
<1>3. tx'[t] = [tx[t] EXCEPT !.pc = pc]
  BY <1>1, GotoStep
<1>4. pc \in {"offer", "commit"} /\ (pc = "commit" => tx[t].op \notin Deliveries)
      /\ (pc = "offer" => tx[t].op \in Deliveries)
  OBVIOUS
<1> HIDE DEF pc
<1>5. TxShape(t)'
  BY <1>1, <1>3, <1>4 DEF TxShape, TxState, Requests, OnOneOffer, OfferOps, Actions, Decisions, Deliveries, Jobs, RsvJobs, tables
<1>6. TxLocks(t)'
  BY <1>1, <1>3, <1>4 DEF TxLocks, TxState, OnOneOffer, OfferOps, Actions, Decisions, Deliveries
<1>7. TxChecks(t)'
  <2>1. tx'[t].rows = {}
    BY <1>1, <1>3 DEF TxShape, TxState, Requests, OnOneOffer, OfferOps, Actions, Decisions, Deliveries, Jobs, RsvJobs
  <2> QED
    BY <1>1, <1>2, <1>3, <2>1 DEF TxChecks, TxState, tables, Actions, Decisions, Deliveries
<1> QED
  BY <1>1, <1>4, <1>5, <1>6, <1>7, MoveStep

LEMMA CheckOwnStep ==
    ASSUME IInv, NEW t \in Txs, CheckPublish(t) \/ CheckWithdraw(t)
    PROVE  IInv'
<1>1. /\ TxShape(t) /\ TxLocks(t) /\ tx[t] \in TxState
      /\ tx[t].op \in {"publish", "withdraw"} /\ tx[t].pc = "check" /\ Goto(t, "commit")
      /\ UNCHANGED <<now, approved, tables, locks>>
  BY DEF CheckPublish, CheckWithdraw, At, IInv, TypeOK
<1>2. tx'[t] = [tx[t] EXCEPT !.pc = "commit"]
  BY <1>1, GotoStep
<1>3. TxShape(t)'
  BY <1>1, <1>2 DEF TxShape, TxState, Requests, OnOneOffer, OfferOps, Actions, Decisions, Deliveries, Jobs, RsvJobs, tables
<1>4. TxLocks(t)'
  BY <1>1, <1>2 DEF TxLocks, TxState, OnOneOffer, OfferOps, Actions, Decisions, Deliveries
<1>5. TxChecks(t)'
  <2>1. tx'[t].rows = {}
    BY <1>1, <1>2 DEF TxShape, TxState, Requests, OnOneOffer, OfferOps, Actions, Decisions, Deliveries, Jobs, RsvJobs
  <2> QED
    BY <1>1, <1>2, <2>1 DEF TxChecks, TxState, Actions, Decisions, Deliveries
<1> QED
  BY <1>1, <1>3, <1>4, <1>5, MoveStep

(* A job's statement: the snapshot, and the rows it then locks.            *)
LEMMA ScanStep ==
    ASSUME IInv, NEW t \in Txs, Scan(t)
    PROVE  IInv'
<1> DEFINE due == {x \in IF tx[t].op \in RsvJobs THEN Rsvs ELSE Offers :
                       IsDue(tx[t].op, tx[t].at, x)}
           s == [tx[t] EXCEPT !.pc = "rows", !.todo = due]
<1>1. /\ TxShape(t) /\ TxLocks(t) /\ TxChecks(t)
      /\ tx[t] \in TxState /\ tx \in [Txs -> TxState]
      /\ tx[t].pc = "scan" /\ UNCHANGED <<now, approved, tables, locks>>
      /\ tx' = [tx EXCEPT ![t] = s]
  BY DEF Scan, IInv, TypeOK
<1>2. due \subseteq Rsvs \cup Offers /\ (tx[t].op \in RsvJobs => due \subseteq Rsvs)
      /\ (tx[t].op \notin RsvJobs => due \subseteq Offers)
  OBVIOUS
<1> HIDE DEF due
<1>3. s \in TxState
  BY <1>1, <1>2 DEF TxState
<1>4. tx' \in [Txs -> TxState] /\ tx'[t] = s /\ \A u \in Txs \ {t} : tx'[u] = tx[u]
  BY <1>1, <1>3
<1>5. TxFrame(t) /\ locks' \in [Txs -> SUBSET Rows]
  BY <1>1, <1>4 DEF TxFrame, IInv, TypeOK, LocksDisjoint
<1>6. TxShape(t)'
  BY <1>1, <1>2, <1>4 DEF TxShape, TxState, Requests, OnOneOffer, OfferOps, Actions, Decisions, Deliveries, Jobs, RsvJobs, tables
<1>7. TxLocks(t)'
  BY <1>1, <1>4 DEF TxLocks, TxState
<1>8. TxChecks(t)'
  <2>1. tx'[t].op = tx[t].op /\ tx'[t].at = tx[t].at /\ tx'[t].rows = tx[t].rows
        /\ tx'[t].pc = "rows"
    BY <1>1, <1>4 DEF TxState
  <2>2. rsv' = rsv /\ offers' = offers
    BY <1>1 DEF tables
  <2>3. \A y \in tx'[t].rows : IsDue(tx[t].op, tx[t].at, y)'
    BY <1>1, <2>1, <2>2 DEF TxChecks, IsDue
  <2> QED
    BY <2>1, <2>3 DEF TxChecks
<1> QED
  BY <1>1, <1>4, <1>5, <1>6, <1>7, <1>8, QuietStep

LEMMA LockRowStep ==
    ASSUME IInv, NEW t \in Txs, NEW x \in Rsvs \cup Offers, LockRow(t, x)
    PROVE  IInv'
<1> DEFINE rows == IF StillDue(t, x) THEN tx[t].rows \cup {x} ELSE tx[t].rows
           s == [tx[t] EXCEPT !.todo = @ \ {x}, !.rows = rows]
<1>1. /\ TxShape(t) /\ TxLocks(t) /\ TxChecks(t)
      /\ tx[t] \in TxState /\ tx \in [Txs -> TxState]
      /\ tx[t].pc = "rows" /\ x \in tx[t].todo /\ UNCHANGED <<now, approved, tables>>
      /\ Lock(t, x) /\ tx' = [tx EXCEPT ![t] = s]
  BY DEF LockRow, IInv, TypeOK
<1>2. /\ rows \subseteq tx[t].rows \cup {x}
      /\ \A y \in rows : IsDue(tx[t].op, tx[t].at, y)
  BY <1>1 DEF StillDue, TxChecks
<1> HIDE DEF rows
<1>3. s \in TxState
  BY <1>1, <1>2 DEF TxState
<1>4. tx' \in [Txs -> TxState] /\ tx'[t] = s /\ \A u \in Txs \ {t} : tx'[u] = tx[u]
  BY <1>1, <1>3
<1>5. /\ locks' \in [Txs -> SUBSET Rows] /\ locks'[t] = locks[t] \cup {x}
      /\ TxFrame(t)
  BY <1>1, <1>4, LockStep DEF TxFrame, Rows
<1>6. TxShape(t)'
  BY <1>1, <1>2, <1>4 DEF TxShape, TxState, Requests, OnOneOffer, OfferOps, Actions, Decisions, Deliveries, Jobs, RsvJobs, tables
<1>7. TxLocks(t)'
  BY <1>1, <1>2, <1>4, <1>5 DEF TxLocks, TxShape, TxState, Requests, OnOneOffer, OfferOps, Actions, Decisions, Deliveries, Jobs, RsvJobs
<1>8. TxChecks(t)'
  <2>1. tx'[t].op = tx[t].op /\ tx'[t].at = tx[t].at /\ tx'[t].rows = rows
        /\ tx'[t].pc = "rows"
    BY <1>1, <1>4 DEF TxState
  <2>2. rsv' = rsv /\ offers' = offers
    BY <1>1 DEF tables
  <2>3. \A y \in tx'[t].rows : IsDue(tx[t].op, tx[t].at, y)'
    BY <1>2, <2>1, <2>2 DEF IsDue
  <2> QED
    BY <2>1, <2>3 DEF TxChecks
<1> QED
  BY <1>1, <1>4, <1>5, <1>6, <1>7, <1>8, QuietStep

-----------------------------------------------------------------------------
(* The commits.                                                            *)
LEMMA RollbackStep ==
    ASSUME IInv, NEW t \in Txs, Rollback(t)
    PROVE  IInv'
<1>1. End(t) /\ UNCHANGED <<tables, now, approved>>
  BY DEF Rollback, End
<1>2. RowsFrame(t)
  BY <1>1 DEF RowsFrame, tables
<1>3. TablesTypeOK'
  BY <1>1 DEF TablesTypeOK, IInv, TypeOK, tables
<1>4. RowsShape' /\ NoOversell'
  BY <1>1 DEF IInv, RowsShape, NoOversell, Held, tables
<1> QED
  BY <1>1, <1>2, <1>3, <1>4, EndStep

LEMMA CommitCreateStep ==
    ASSUME IInv, NEW t \in Txs, NEW r \in Rsvs, CommitCreate(t, r)
    PROVE  IInv'
<1> DEFINE o == tx[t].offer
           q == tx[t].quantity
           new == [status |-> "pending", offer |-> o, requester |-> tx[t].actor,
                   producer |-> offers[o].producer, quantity |-> q,
                   expiresAt |-> tx[t].at + Expiry, reminded |-> FALSE]
<1>1. /\ TxShape(t) /\ TxLocks(t) /\ TxChecks(t) /\ tx[t] \in TxState
      /\ tx[t].op = "create" /\ tx[t].pc = "commit"
      /\ rsv[r].status = "absent" /\ rsv' = [rsv EXCEPT ![r] = new]
      /\ End(t) /\ UNCHANGED <<now, approved, offers>>
  BY DEF CommitCreate, At, End, IInv, TypeOK
<1>2. /\ o \in Offers /\ o \in locks[t] /\ offers[o].status # "absent"
      /\ q \in 1..MaxQty /\ tx[t].actor \in Members
      /\ offers[o].producer \in Members
      /\ Held(o) + q <= offers[o].quantity
  BY <1>1 DEF TxShape, TxLocks, TxChecks, OnOneOffer, Requests, IInv, RowsShape
<1>3. tx[t].at + Expiry \in Nat /\ q \in Qty /\ q \in Nat
  BY <1>1, <1>2, ConstantsAssumption DEF TxState, Time, Qty
<1>4. new \in RsvRow
  BY <1>2, <1>3 DEF RsvRow, Holding
<1> HIDE DEF new
<1>5. /\ rsv \in [Rsvs -> RsvRow] /\ rsv' \in [Rsvs -> RsvRow]
      /\ rsv'[r] = new /\ \A x \in Rsvs \ {r} : rsv'[x] = rsv[x]
  BY <1>1, <1>4 DEF IInv, TypeOK
<1>6. \A p \in Offers \ {o} : HeldUnits(rsv', p) \subseteq HeldUnits(rsv, p)
  BY <1>5 DEF HeldUnits, new
<1>7. HeldUnits(rsv', o) \subseteq HeldUnits(rsv, o) \cup ({r} \X (1..q))
  BY <1>3, <1>5 DEF HeldUnits, new
<1>8. RowsFrame(t)
  BY <1>1, <1>2, <1>5, <1>6 DEF RowsFrame, new
<1>9. TablesTypeOK'
  <2>1. lines' \in [Rsvs -> Seq(Line)]
    <3>1. LineBy(t, "created") \in Line
      BY <1>2 DEF LineBy, Line
    <3>2. Append(lines[r], LineBy(t, "created")) \in Seq(Line)
      BY <3>1 DEF IInv, TypeOK
    <3> QED
      BY <3>2 DEF CommitCreate, IInv, TypeOK
  <2>2. notes' \in [Rsvs -> Seq(Note)]
    <3>1. [kind |-> "N6", to |-> offers[o].producer, decision |-> None] \in Note
      BY <1>2 DEF Note
    <3>2. Append(notes[r], [kind |-> "N6", to |-> offers[o].producer, decision |-> None])
            \in Seq(Note)
      BY <3>1 DEF IInv, TypeOK
    <3> QED
      BY <3>2 DEF CommitCreate, IInv, TypeOK
  <2> QED
    BY <1>1, <1>5, <2>1, <2>2 DEF TablesTypeOK, IInv, TypeOK
<1>10. RowsShape'
  BY <1>1, <1>2, <1>5 DEF RowsShape, IInv, new
<1>11. NoOversell'
  <2> SUFFICES ASSUME NEW p \in Offers
               PROVE  Cardinality(HeldUnits(rsv', p)) <= offers[p].quantity
    BY <1>1 DEF NoOversell, Held
  <2>1. /\ Cardinality(HeldUnits(rsv', p)) \in Nat /\ Cardinality(HeldUnits(rsv, p)) \in Nat
        /\ offers[p].quantity \in Nat
    BY HeldUnitsFinite DEF IInv, TypeOK, OfferRow, Qty
  <2>2. CASE p = o
    <3>1. Cardinality(HeldUnits(rsv', o)) <= Cardinality(HeldUnits(rsv, o)) + q
      BY <1>3, <1>7, HeldGrows
    <3> QED
      BY <1>2, <1>3, <2>1, <2>2, <3>1 DEF Held
  <2>3. CASE p # o
    <3>1. Cardinality(HeldUnits(rsv', p)) <= Cardinality(HeldUnits(rsv, p))
      BY <1>6, <2>3, HeldShrinks
    <3>2. Cardinality(HeldUnits(rsv, p)) <= offers[p].quantity
      BY DEF IInv, NoOversell, Held
    <3> QED
      BY <2>1, <3>1, <3>2
  <2> QED
    BY <2>2, <2>3
<1> QED
  BY <1>1, <1>8, <1>9, <1>10, <1>11, EndStep

(* act writes one reservation: its row, its thread and its outbox rows.    *)
LEMMA ApplyTypes ==
    ASSUME IInv, NEW t \in Txs, NEW written \in Seq(Line), Apply(t, written),
           tx[t].op \in Actions, tx[t].pc = "commit"
    PROVE  /\ rsv' \in [Rsvs -> RsvRow] /\ lines' \in [Rsvs -> Seq(Line)]
           /\ notes' \in [Rsvs -> Seq(Note)]
           /\ tx[t].rsv \in Rsvs /\ tx[t].rsv \in locks[t]
           /\ rsv[tx[t].rsv].status \in Holding
           /\ rsv'[tx[t].rsv] = [rsv[tx[t].rsv] EXCEPT !.status = StatusAfter(tx[t].op),
                                                       !.expiresAt = None]
           /\ \A x \in Rsvs \ {tx[t].rsv} : rsv'[x] = rsv[x]
           /\ RowsShape => \A x \in Rsvs : rsv'[x].status # "absent" =>
                /\ rsv'[x].offer \in Offers
                /\ {rsv'[x].requester, rsv'[x].producer} \subseteq Members
<1> DEFINE r == tx[t].rsv
           status == StatusAfter(tx[t].op)
           row == [rsv[r] EXCEPT !.status = status, !.expiresAt = None]
<1>1. /\ r \in Rsvs /\ r \in locks[t] /\ rsv[r].status \in Holding
      /\ rsv[r].status # "absent" /\ rsv[r] \in RsvRow /\ rsv \in [Rsvs -> RsvRow]
      /\ tx[t].actor \in Members
  BY DEF IInv, TypeOK, TxShape, TxLocks, TxChecks, Requests
<1>2. status \in {"confirmed"} \cup Closed
  BY DEF StatusAfter, Actions, Decisions, Deliveries, Closed
<1> HIDE DEF status
<1>3. row \in RsvRow
  BY <1>1, <1>2 DEF RsvRow, Holding
<1>4. rsv' = [rsv EXCEPT ![r] = row]
  BY DEF Apply, status
<1>5. /\ rsv' \in [Rsvs -> RsvRow] /\ rsv'[r] = row
      /\ \A x \in Rsvs \ {r} : rsv'[x] = rsv[x]
  BY <1>1, <1>3, <1>4
<1>6. lines' \in [Rsvs -> Seq(Line)]
  <2>1. lines[r] \o written \in Seq(Line)
    BY <1>1 DEF IInv, TypeOK
  <2> QED
    BY <2>1 DEF Apply, IInv, TypeOK
<1>7. notes' \in [Rsvs -> Seq(Note)]
  <2>1. OtherParty(rsv[r], tx[t].actor) \in Members
    BY <1>1 DEF OtherParty, IInv, RowsShape
  <2>2. [kind |-> "N8", to |-> OtherParty(rsv[r], tx[t].actor), decision |-> status] \in Note
    BY <1>2, <2>1 DEF Note
  <2>3. Append(notes[r], [kind |-> "N8", to |-> OtherParty(rsv[r], tx[t].actor),
                          decision |-> status]) \in Seq(Note)
    BY <1>1, <2>2 DEF IInv, TypeOK
  <2> QED
    BY <2>3 DEF Apply, IInv, TypeOK, status
<1>8. row.offer = rsv[r].offer /\ row.requester = rsv[r].requester
      /\ row.producer = rsv[r].producer
  BY <1>1 DEF RsvRow
<1>9. RowsShape => \A x \in Rsvs : rsv'[x].status # "absent" =>
        /\ rsv'[x].offer \in Offers
        /\ {rsv'[x].requester, rsv'[x].producer} \subseteq Members
  <2> HIDE DEF row
  <2> SUFFICES ASSUME RowsShape, NEW x \in Rsvs, rsv'[x].status # "absent"
               PROVE  /\ rsv'[x].offer \in Offers
                      /\ {rsv'[x].requester, rsv'[x].producer} \subseteq Members
    OBVIOUS
  <2>1. CASE x = r
    BY <1>1, <1>5, <1>8, <2>1 DEF RowsShape
  <2>2. CASE x # r
    BY <1>5, <2>2 DEF RowsShape
  <2> QED
    BY <2>1, <2>2
<1> QED
  BY <1>1, <1>5, <1>6, <1>7, <1>9 DEF status

LEMMA CommitDecisionStep ==
    ASSUME IInv, NEW t \in Txs, CommitDecision(t)
    PROVE  IInv'
<1> DEFINE r == tx[t].rsv
           status == StatusAfter(tx[t].op)
<1>1. /\ tx[t].op \in Decisions /\ tx[t].pc = "commit" /\ tx[t].op \in Actions
      /\ Apply(t, <<LineBy(t, status)>>) /\ End(t)
      /\ UNCHANGED <<now, approved, offers>>
  BY DEF CommitDecision, Apply, At, End, Actions
<1>2. tx[t].actor \in Members
  BY <1>1 DEF IInv, TxShape, Requests
<1>3. status \in {"confirmed", "rejected", "cancelled"}
  BY <1>1 DEF StatusAfter, Decisions, Deliveries
<1> HIDE DEF status
<1>4. <<LineBy(t, status)>> \in Seq(Line)
  <2>1. LineBy(t, status) \in Line
    BY <1>2, <1>3 DEF LineBy, Line, Closed
  <2> QED
    BY <2>1
<1>5. /\ rsv' \in [Rsvs -> RsvRow] /\ lines' \in [Rsvs -> Seq(Line)]
      /\ notes' \in [Rsvs -> Seq(Note)]
      /\ r \in Rsvs /\ r \in locks[t] /\ rsv[r].status \in Holding
      /\ rsv'[r] = [rsv[r] EXCEPT !.status = status, !.expiresAt = None]
      /\ \A x \in Rsvs \ {r} : rsv'[x] = rsv[x]
      /\ RowsShape => \A x \in Rsvs : rsv'[x].status # "absent" =>
           /\ rsv'[x].offer \in Offers
           /\ {rsv'[x].requester, rsv'[x].producer} \subseteq Members
  BY <1>1, <1>4, ApplyTypes DEF status
<1>6. /\ rsv[r] \in RsvRow
      /\ rsv'[r].offer = rsv[r].offer /\ rsv'[r].quantity = rsv[r].quantity
      /\ rsv'[r].status = status
  BY <1>5 DEF IInv, TypeOK, RsvRow
<1>7. \A o \in Offers : HeldUnits(rsv', o) \subseteq HeldUnits(rsv, o)
  BY <1>5, <1>6 DEF HeldUnits
<1>8. RowsFrame(t)
  BY <1>1, <1>3, <1>5, <1>6, <1>7 DEF RowsFrame
<1>9. TablesTypeOK'
  BY <1>1, <1>5 DEF TablesTypeOK, IInv, TypeOK
<1>10. RowsShape'
  BY <1>1, <1>5 DEF RowsShape, IInv
<1>11. NoOversell'
  <2> SUFFICES ASSUME NEW o \in Offers
               PROVE  Cardinality(HeldUnits(rsv', o)) <= offers[o].quantity
    BY <1>1 DEF NoOversell, Held
  <2>1. Cardinality(HeldUnits(rsv', o)) <= Cardinality(HeldUnits(rsv, o))
    BY <1>7, HeldShrinks
  <2>2. Cardinality(HeldUnits(rsv, o)) <= offers[o].quantity /\ offers[o].quantity \in Nat
    BY DEF IInv, NoOversell, Held, TypeOK, OfferRow, Qty
  <2> QED
    BY <2>1, <2>2, HeldUnitsFinite
<1> QED
  BY <1>1, <1>8, <1>9, <1>10, <1>11, EndStep

LEMMA CommitDeliveryStep ==
    ASSUME IInv, NEW t \in Txs, CommitDelivery(t)
    PROVE  IInv'
<1> DEFINE r == tx[t].rsv
           o == rsv[r].offer
           q == rsv[r].quantity
           written == IF tx[t].op = "deliver"
                        THEN <<LineBy(t, "delivered")>>
                        ELSE <<LineBy(t, "confirmed"), LineBy(t, "delivered")>>
<1>1. /\ tx[t].op \in Deliveries /\ tx[t].pc = "commit" /\ tx[t].op \in Actions
      /\ Apply(t, written) /\ End(t) /\ UNCHANGED <<now, approved>>
      /\ offers' = [offers EXCEPT ![o].quantity = @ - q]
  BY DEF CommitDelivery, Apply, Deduct, At, End, Actions
<1>2. tx[t].actor \in Members
  BY <1>1 DEF IInv, TxShape, Requests
<1>3. written \in Seq(Line)
  <2>1. LineBy(t, "confirmed") \in Line /\ LineBy(t, "delivered") \in Line
    BY <1>2 DEF LineBy, Line, Closed
  <2> QED
    BY <2>1
<1> HIDE DEF written
<1>4. StatusAfter(tx[t].op) = "delivered"
  BY <1>1 DEF StatusAfter, Deliveries
<1>5. /\ rsv' \in [Rsvs -> RsvRow] /\ lines' \in [Rsvs -> Seq(Line)]
      /\ notes' \in [Rsvs -> Seq(Note)]
      /\ r \in Rsvs /\ r \in locks[t] /\ rsv[r].status \in Holding
      /\ rsv'[r] = [rsv[r] EXCEPT !.status = "delivered", !.expiresAt = None]
      /\ \A x \in Rsvs \ {r} : rsv'[x] = rsv[x]
      /\ RowsShape => \A x \in Rsvs : rsv'[x].status # "absent" =>
           /\ rsv'[x].offer \in Offers
           /\ {rsv'[x].requester, rsv'[x].producer} \subseteq Members
  BY <1>1, <1>3, <1>4, ApplyTypes
<1>6. /\ rsv[r] \in RsvRow /\ rsv \in [Rsvs -> RsvRow]
      /\ rsv'[r].status = "delivered" /\ q \in Nat /\ q <= MaxQty
      /\ o \in Offers /\ o \in locks[t]
  BY <1>1, <1>5 DEF IInv, TypeOK, RsvRow, RowsShape, TxLocks, Qty, Holding
<1>7. \A p \in Offers : HeldUnits(rsv', p) \subseteq HeldUnits(rsv, p)
  BY <1>5, <1>6 DEF HeldUnits, Holding
<1>8. Cardinality(HeldUnits(rsv', o)) + q <= Cardinality(HeldUnits(rsv, o))
  <2>1. {r} \X (1..q) \subseteq HeldUnits(rsv, o)
    BY <1>5, <1>6, ConstantsAssumption DEF HeldUnits
  <2>2. HeldUnits(rsv', o) \subseteq HeldUnits(rsv, o) \ ({r} \X (1..q))
    BY <1>5, <1>6, <1>7 DEF HeldUnits, Holding
  <2> QED
    BY <1>6, <2>1, <2>2, HeldLoses
<1>9. /\ Cardinality(HeldUnits(rsv, o)) <= offers[o].quantity
      /\ offers[o] \in OfferRow /\ offers \in [Offers -> OfferRow]
      /\ offers[o].quantity \in Nat /\ offers[o].quantity <= MaxQty /\ MaxQty \in Nat
  BY <1>6, ConstantsAssumption DEF IInv, NoOversell, Held, TypeOK, OfferRow, Qty
<1> DEFINE row == [offers[o] EXCEPT !.quantity = @ - q]
<1>10. offers[o].quantity - q \in Qty
  BY <1>6, <1>8, <1>9, HeldUnitsFinite DEF Qty
<1>11. row \in OfferRow /\ row.quantity = offers[o].quantity - q
       /\ row.status = offers[o].status /\ row.producer = offers[o].producer
  BY <1>9, <1>10 DEF OfferRow
<1>12. offers' = [offers EXCEPT ![o] = row]
  BY <1>1
<1> HIDE DEF row
<1>13. /\ offers' \in [Offers -> OfferRow] /\ offers'[o] = row
       /\ \A p \in Offers \ {o} : offers'[p] = offers[p]
  BY <1>6, <1>9, <1>11, <1>12
<1>14. RowsFrame(t)
  BY <1>5, <1>6, <1>7, <1>11, <1>13 DEF RowsFrame
<1>15. TablesTypeOK'
  BY <1>1, <1>5, <1>13 DEF TablesTypeOK, IInv, TypeOK
<1>16. offers[o].status = "absent" => row.quantity = 0
  BY <1>6, <1>8, <1>9, <1>11, HeldUnitsFinite DEF IInv, RowsShape
<1>17. RowsShape'
  <2>1. \A x \in Rsvs : rsv'[x].status # "absent" =>
          /\ rsv'[x].offer \in Offers
          /\ {rsv'[x].requester, rsv'[x].producer} \subseteq Members
    BY <1>5 DEF IInv
  <2>2. ASSUME NEW p \in Offers
        PROVE  IF offers'[p].status = "absent" THEN offers'[p].quantity = 0
                                               ELSE offers'[p].producer \in Members
    <3>1. IF offers[p].status = "absent" THEN offers[p].quantity = 0
                                         ELSE offers[p].producer \in Members
      BY DEF IInv, RowsShape
    <3>2. CASE p = o
      BY <1>11, <1>13, <1>16, <3>1, <3>2
    <3>3. CASE p # o
      BY <1>13, <3>1, <3>3
    <3> QED
      BY <3>2, <3>3
  <2> QED
    BY <2>1, <2>2 DEF RowsShape
<1>18. NoOversell'
  <2> SUFFICES ASSUME NEW p \in Offers
               PROVE  Cardinality(HeldUnits(rsv', p)) <= offers'[p].quantity
    BY DEF NoOversell, Held
  <2>1. /\ Cardinality(HeldUnits(rsv', p)) \in Nat /\ Cardinality(HeldUnits(rsv, p)) \in Nat
        /\ Cardinality(HeldUnits(rsv, p)) <= offers[p].quantity
        /\ offers[p].quantity \in Nat
    BY HeldUnitsFinite DEF IInv, NoOversell, Held, TypeOK, OfferRow, Qty
  <2>2. CASE p = o
    BY <1>6, <1>8, <1>9, <1>11, <1>13, <2>1, <2>2
  <2>3. CASE p # o
    <3>1. Cardinality(HeldUnits(rsv', p)) <= Cardinality(HeldUnits(rsv, p))
      BY <1>7, HeldShrinks
    <3> QED
      BY <1>13, <2>1, <2>3, <3>1
  <2> QED
    BY <2>2, <2>3
<1> QED
  BY <1>1, <1>14, <1>15, <1>17, <1>18, EndStep

(* A commit that writes offers only: what it owes NoOversell.              *)
LEMMA OffersStep ==
    ASSUME IInv, NEW t \in Txs, End(t), UNCHANGED <<rsv, lines, notes>>,
           offers' \in [Offers -> OfferRow],
           \A o \in Offers :
             /\ offers'[o] = offers[o] \/ o \in locks[t] \/ offers[o].status = "absent"
             /\ IF offers'[o].status = "absent" THEN offers'[o] = offers[o]
                                                ELSE offers'[o].producer \in Members
             /\ Held(o) <= offers'[o].quantity
    PROVE  IInv'
<1>1. RowsFrame(t)
  BY DEF RowsFrame
<1>2. TablesTypeOK'
  BY DEF TablesTypeOK, IInv, TypeOK, End
<1>3. RowsShape'
  BY DEF RowsShape, IInv
<1>4. NoOversell'
  BY DEF NoOversell, Held
<1> QED
  BY <1>1, <1>2, <1>3, <1>4, EndStep

LEMMA CommitPublishStep ==
    ASSUME IInv, NEW t \in Txs, NEW o \in Offers, CommitPublish(t, o)
    PROVE  IInv'
<1> DEFINE new == [status |-> "active", producer |-> tx[t].actor,
                   product |-> tx[t].product, quantity |-> tx[t].quantity,
                   until |-> tx[t].until]
<1>1. /\ TxShape(t) /\ tx[t] \in TxState /\ tx[t].op = "publish"
      /\ offers[o].status = "absent" /\ offers \in [Offers -> OfferRow]
      /\ offers' = [offers EXCEPT ![o] = new]
      /\ End(t) /\ UNCHANGED <<rsv, lines, notes>>
  BY DEF CommitPublish, At, IInv, TypeOK
<1>2. /\ tx[t].actor \in Members /\ tx[t].quantity \in Qty
      /\ tx[t].until \in Time \cup {None} /\ tx[t].product \in Products \cup {None}
  BY <1>1 DEF TxShape, TxState, Requests, Qty
<1>3. new \in OfferRow /\ new.status = "active" /\ new.producer \in Members
      /\ new.quantity = tx[t].quantity
  BY <1>2 DEF OfferRow
<1> HIDE DEF new
<1>4. /\ offers' \in [Offers -> OfferRow] /\ offers'[o] = new
      /\ \A p \in Offers \ {o} : offers'[p] = offers[p]
  BY <1>1, <1>3
<1>5. \A p \in Offers : Held(p) <= offers[p].quantity
  BY DEF IInv, NoOversell
<1>6. offers[o].quantity = 0 /\ Held(o) <= offers'[o].quantity
  <2>1. offers[o].quantity = 0
    BY <1>1 DEF IInv, RowsShape
  <2>2. Held(o) \in Nat /\ new.quantity \in Nat
    BY <1>2, <1>3, HeldUnitsFinite DEF Held, Qty
  <2> QED
    BY <1>4, <1>5, <2>1, <2>2
<1>7. \A p \in Offers :
        IF offers'[p].status = "absent" THEN offers'[p] = offers[p]
                                        ELSE offers'[p].producer \in Members
  BY <1>3, <1>4 DEF IInv, RowsShape
<1>8. \A p \in Offers : Held(p) <= offers'[p].quantity
  BY <1>4, <1>5, <1>6
<1>9. \A p \in Offers :
        offers'[p] = offers[p] \/ p \in locks[t] \/ offers[p].status = "absent"
  BY <1>1, <1>4
<1> QED
  BY <1>1, <1>4, <1>7, <1>8, <1>9, OffersStep

LEMMA CommitEditStep ==
    ASSUME IInv, NEW t \in Txs, CommitEdit(t)
    PROVE  IInv'
<1> DEFINE o == tx[t].offer
           row == Patched(t)
<1>1. /\ TxShape(t) /\ TxLocks(t) /\ TxChecks(t) /\ tx[t] \in TxState
      /\ tx[t].op = "edit" /\ tx[t].pc = "commit"
      /\ offers \in [Offers -> OfferRow] /\ offers' = [offers EXCEPT ![o] = row]
      /\ End(t) /\ UNCHANGED <<rsv, lines, notes>>
  BY DEF CommitEdit, At, IInv, TypeOK
<1>2. /\ o \in Offers /\ o \in locks[t] /\ offers[o].status # "absent"
      /\ offers[o] \in OfferRow /\ offers[o].producer \in Members
      /\ tx[t].quantity # Keep => Held(o) <= tx[t].quantity
  BY <1>1 DEF TxShape, TxLocks, TxChecks, OnOneOffer, OfferOps, IInv, RowsShape
<1>3. row \in OfferRow /\ row.status # "absent" /\ row.producer = offers[o].producer
      /\ row.quantity = IF tx[t].quantity = Keep THEN offers[o].quantity
                                                 ELSE tx[t].quantity
  <2> DEFINE until == IF tx[t].until = Keep THEN offers[o].until ELSE tx[t].until
             quantity == IF tx[t].quantity = Keep THEN offers[o].quantity ELSE tx[t].quantity
             status == StatusAfterEdit(until, tx[t].at)
  <2>1. tx[t].quantity \in Qty \cup {Keep} /\ tx[t].until \in Time \cup {None, Keep}
    BY <1>1 DEF TxState
  <2>2. offers[o].quantity \in Qty /\ offers[o].until \in Time \cup {None}
    BY <1>2 DEF OfferRow
  <2>3. until \in Time \cup {None} /\ quantity \in Qty
    BY <2>1, <2>2
  <2>4. status \in {"active", "expired"}
    BY DEF StatusAfterEdit
  <2>5. row = [offers[o] EXCEPT !.quantity = quantity, !.until = until, !.status = status]
    BY <1>2 DEF Patched, OfferRow
  <2> HIDE DEF until, status, row
  <2>6. row \in OfferRow /\ row.status = status /\ row.producer = offers[o].producer
        /\ row.quantity = quantity
    <3> HIDE DEF quantity
    <3> QED
      BY <1>2, <2>3, <2>4, <2>5 DEF OfferRow
  <2> QED
    BY <2>4, <2>6
<1> HIDE DEF row
<1>4. /\ offers' \in [Offers -> OfferRow] /\ offers'[o] = row
      /\ \A p \in Offers \ {o} : offers'[p] = offers[p]
  BY <1>1, <1>2, <1>3
<1>5. \A p \in Offers : Held(p) <= offers[p].quantity
  BY DEF IInv, NoOversell
<1>6. \A p \in Offers : Held(p) <= offers'[p].quantity
  BY <1>2, <1>3, <1>4, <1>5
<1>7. \A p \in Offers :
        IF offers'[p].status = "absent" THEN offers'[p] = offers[p]
                                        ELSE offers'[p].producer \in Members
  BY <1>2, <1>3, <1>4 DEF IInv, RowsShape
<1>8. \A p \in Offers : offers'[p] = offers[p] \/ p \in locks[t]
  BY <1>2, <1>4
<1> QED
  BY <1>1, <1>4, <1>6, <1>7, <1>8, OffersStep

LEMMA CommitWithdrawStep ==
    ASSUME IInv, NEW t \in Txs, CommitWithdraw(t)
    PROVE  IInv'
<1> DEFINE o == tx[t].offer
           row == [offers[o] EXCEPT !.status = "withdrawn"]
<1>1. /\ TxShape(t) /\ TxLocks(t) /\ tx[t].op = "withdraw" /\ tx[t].pc = "commit"
      /\ offers \in [Offers -> OfferRow] /\ offers' = [offers EXCEPT ![o] = row]
      /\ End(t) /\ UNCHANGED <<rsv, lines, notes>>
  BY DEF CommitWithdraw, At, IInv, TypeOK
<1>2. /\ o \in Offers /\ o \in locks[t] /\ offers[o] \in OfferRow
      /\ offers[o].producer \in Members
  BY <1>1 DEF TxShape, TxLocks, OnOneOffer, OfferOps, IInv, RowsShape
<1>3. row \in OfferRow /\ row.status = "withdrawn"
      /\ row.producer = offers[o].producer /\ row.quantity = offers[o].quantity
  BY <1>2 DEF OfferRow
<1> HIDE DEF row
<1>4. /\ offers' \in [Offers -> OfferRow] /\ offers'[o] = row
      /\ \A p \in Offers \ {o} : offers'[p] = offers[p]
  BY <1>1, <1>2, <1>3
<1>5. \A p \in Offers :
        IF offers'[p].status = "absent" THEN offers'[p] = offers[p]
                                        ELSE offers'[p].producer \in Members
  BY <1>2, <1>3, <1>4 DEF IInv, RowsShape
<1>6. \A p \in Offers : Held(p) <= offers'[p].quantity
  BY <1>3, <1>4 DEF IInv, NoOversell
<1>7. \A p \in Offers : offers'[p] = offers[p] \/ p \in locks[t]
  BY <1>2, <1>4
<1> QED
  BY <1>1, <1>4, <1>5, <1>6, <1>7, OffersStep

LEMMA CommitOffersExpireStep ==
    ASSUME IInv, NEW t \in Txs, CommitOffersExpire(t)
    PROVE  IInv'
<1>1. /\ TxShape(t) /\ TxLocks(t) /\ TxChecks(t) /\ tx[t].op = "offers.expire"
      /\ offers \in [Offers -> OfferRow]
      /\ offers' = [o \in Offers |->
                      IF o \in tx[t].rows THEN [offers[o] EXCEPT !.status = "expired"]
                                          ELSE offers[o]]
      /\ End(t) /\ UNCHANGED <<rsv, lines, notes>>
  BY DEF CommitOffersExpire, JobReady, At, IInv, TypeOK
<1>2. \A o \in Offers : o \in tx[t].rows => o \in locks[t] /\ offers[o].status = "active"
  BY <1>1 DEF TxLocks, TxChecks, IsDue
<1>3. ASSUME NEW o \in Offers
      PROVE  /\ offers'[o] \in OfferRow /\ offers'[o].producer = offers[o].producer
             /\ offers'[o].quantity = offers[o].quantity
             /\ offers'[o] = offers[o] \/ (o \in locks[t] /\ offers[o].status = "active"
                                            /\ offers'[o].status = "expired")
  <2>1. offers[o] \in OfferRow
    BY <1>1
  <2>2. CASE o \in tx[t].rows
    BY <1>1, <1>2, <2>1, <2>2 DEF OfferRow
  <2>3. CASE o \notin tx[t].rows
    BY <1>1, <2>1, <2>3
  <2> QED
    BY <2>2, <2>3
<1>4. offers' \in [Offers -> OfferRow]
  BY <1>1, <1>3
<1>5. \A o \in Offers :
        IF offers'[o].status = "absent" THEN offers'[o] = offers[o]
                                        ELSE offers'[o].producer \in Members
  BY <1>3 DEF IInv, RowsShape
<1>6. \A o \in Offers : Held(o) <= offers'[o].quantity
  BY <1>3 DEF IInv, NoOversell
<1> QED
  BY <1>1, <1>3, <1>4, <1>5, <1>6, OffersStep

(* A job's commit on reservations: the rows it locked, none of which holds *)
(* more or for another offer than before.                                  *)
LEMMA RsvJobStep ==
    ASSUME IInv, NEW t \in Txs, End(t), UNCHANGED offers,
           lines' \in [Rsvs -> Seq(Line)], notes' \in [Rsvs -> Seq(Note)],
           rsv' \in [Rsvs -> RsvRow],
           \A r \in Rsvs :
             /\ rsv'[r] = rsv[r] \/ r \in locks[t]
             /\ rsv'[r].status = rsv[r].status
                  \/ (rsv[r].status = "pending" /\ rsv'[r].status = "expired")
             /\ rsv'[r].offer = rsv[r].offer /\ rsv'[r].quantity = rsv[r].quantity
             /\ rsv'[r].requester = rsv[r].requester /\ rsv'[r].producer = rsv[r].producer
    PROVE  IInv'
<1>1. \A o \in Offers : HeldUnits(rsv', o) \subseteq HeldUnits(rsv, o)
  BY DEF HeldUnits, Holding
<1>2. RowsFrame(t)
  BY <1>1 DEF RowsFrame
<1>3. TablesTypeOK'
  BY DEF TablesTypeOK, IInv, TypeOK, End
<1>4. RowsShape'
  BY SMTT(60) DEF RowsShape, IInv
<1>5. NoOversell'
  <2> SUFFICES ASSUME NEW o \in Offers
               PROVE  Cardinality(HeldUnits(rsv', o)) <= offers[o].quantity
    BY DEF NoOversell, Held
  <2>1. Cardinality(HeldUnits(rsv', o)) <= Cardinality(HeldUnits(rsv, o))
    BY <1>1, HeldShrinks
  <2>2. Cardinality(HeldUnits(rsv, o)) <= offers[o].quantity /\ offers[o].quantity \in Nat
    BY DEF IInv, NoOversell, Held, TypeOK, OfferRow, Qty
  <2> QED
    BY <2>1, <2>2, HeldUnitsFinite
<1> QED
  BY <1>2, <1>3, <1>4, <1>5, EndStep

LEMMA CommitExpireStep ==
    ASSUME IInv, NEW t \in Txs, CommitExpire(t)
    PROVE  IInv'
<1> DEFINE due == tx[t].rows
<1>1. /\ TxShape(t) /\ TxLocks(t) /\ TxChecks(t) /\ tx[t].op = "expire"
      /\ rsv \in [Rsvs -> RsvRow] /\ lines \in [Rsvs -> Seq(Line)]
      /\ notes \in [Rsvs -> Seq(Note)]
      /\ End(t) /\ UNCHANGED offers
      /\ rsv' = [r \in Rsvs |->
                   IF r \in due THEN [rsv[r] EXCEPT !.status = "expired"] ELSE rsv[r]]
  BY DEF CommitExpire, JobReady, At, IInv, TypeOK
<1>2. \A r \in Rsvs : r \in due => r \in locks[t] /\ rsv[r].status = "pending"
  BY <1>1 DEF TxLocks, TxChecks, IsDue
<1>3. ASSUME NEW r \in Rsvs
      PROVE  /\ rsv'[r] \in RsvRow
             /\ rsv'[r] = rsv[r] \/ r \in locks[t]
             /\ rsv'[r].status = rsv[r].status
                  \/ (rsv[r].status = "pending" /\ rsv'[r].status = "expired")
             /\ rsv'[r].offer = rsv[r].offer /\ rsv'[r].quantity = rsv[r].quantity
             /\ rsv'[r].requester = rsv[r].requester /\ rsv'[r].producer = rsv[r].producer
  <2>1. rsv[r] \in RsvRow
    BY <1>1
  <2>2. CASE r \in due
    BY <1>1, <1>2, <2>1, <2>2 DEF RsvRow, Closed
  <2>3. CASE r \notin due
    BY <1>1, <2>1, <2>3
  <2> QED
    BY <2>2, <2>3
<1>4. rsv' \in [Rsvs -> RsvRow]
  BY <1>1, <1>3
<1>5. lines' \in [Rsvs -> Seq(Line)]
  <2>1. [event |-> "expired", actor |-> None] \in Line
    BY DEF Line, Closed
  <2>2. \A r \in Rsvs : Append(lines[r], [event |-> "expired", actor |-> None]) \in Seq(Line)
    BY <1>1, <2>1
  <2> QED
    BY <1>1, <2>2 DEF CommitExpire
<1>6. notes' \in [Rsvs -> Seq(Note)]
  <2> DEFINE Told(r) == <<[kind |-> "N8", to |-> rsv[r].requester, decision |-> "expired"],
                          [kind |-> "N8", to |-> rsv[r].producer, decision |-> "expired"]>>
  <2>1. \A r \in Rsvs : Told(r) \in Seq(Note)
    <3> SUFFICES ASSUME NEW r \in Rsvs PROVE Told(r) \in Seq(Note)
      OBVIOUS
    <3>1. rsv[r].requester \in Members \cup {None} /\ rsv[r].producer \in Members \cup {None}
      BY <1>1 DEF RsvRow
    <3>2. /\ [kind |-> "N8", to |-> rsv[r].requester, decision |-> "expired"] \in Note
          /\ [kind |-> "N8", to |-> rsv[r].producer, decision |-> "expired"] \in Note
      BY <3>1 DEF Note, Closed
    <3> QED
      BY <3>2
  <2>2. notes' = [r \in Rsvs |-> IF r \in due THEN notes[r] \o Told(r) ELSE notes[r]]
    BY DEF CommitExpire
  <2> HIDE DEF Told
  <2>3. \A r \in Rsvs : notes[r] \o Told(r) \in Seq(Note)
    BY <1>1, <2>1
  <2> QED
    BY <1>1, <2>2, <2>3
<1> QED
  BY <1>1, <1>3, <1>4, <1>5, <1>6, RsvJobStep

LEMMA CommitRemindStep ==
    ASSUME IInv, NEW t \in Txs, CommitRemind(t)
    PROVE  IInv'
<1> DEFINE due == tx[t].rows
<1>1. /\ TxShape(t) /\ TxLocks(t) /\ tx[t].op = "remind"
      /\ rsv \in [Rsvs -> RsvRow] /\ lines \in [Rsvs -> Seq(Line)]
      /\ notes \in [Rsvs -> Seq(Note)]
      /\ End(t) /\ UNCHANGED <<offers, lines>>
      /\ rsv' = [r \in Rsvs |->
                   IF r \in due THEN [rsv[r] EXCEPT !.reminded = TRUE] ELSE rsv[r]]
  BY DEF CommitRemind, JobReady, At, IInv, TypeOK
<1>2. \A r \in Rsvs : r \in due => r \in locks[t]
  BY <1>1 DEF TxLocks
<1>3. ASSUME NEW r \in Rsvs
      PROVE  /\ rsv'[r] \in RsvRow
             /\ rsv'[r] = rsv[r] \/ r \in locks[t]
             /\ rsv'[r].status = rsv[r].status
             /\ rsv'[r].offer = rsv[r].offer /\ rsv'[r].quantity = rsv[r].quantity
             /\ rsv'[r].requester = rsv[r].requester /\ rsv'[r].producer = rsv[r].producer
  <2>1. rsv[r] \in RsvRow
    BY <1>1
  <2>2. CASE r \in due
    BY <1>1, <1>2, <2>1, <2>2 DEF RsvRow
  <2>3. CASE r \notin due
    BY <1>1, <2>1, <2>3
  <2> QED
    BY <2>2, <2>3
<1>4. rsv' \in [Rsvs -> RsvRow]
  BY <1>1, <1>3
<1>5. notes' \in [Rsvs -> Seq(Note)]
  <2> DEFINE told(r) == [kind |-> "N7", to |-> rsv[r].producer, decision |-> None]
  <2>1. \A r \in Rsvs : Append(notes[r], told(r)) \in Seq(Note)
    <3> SUFFICES ASSUME NEW r \in Rsvs PROVE Append(notes[r], told(r)) \in Seq(Note)
      OBVIOUS
    <3>1. rsv[r].producer \in Members \cup {None}
      BY <1>1 DEF RsvRow
    <3>2. told(r) \in Note
      BY <3>1 DEF Note
    <3> QED
      BY <1>1, <3>2
  <2>2. notes' = [r \in Rsvs |-> IF r \in due THEN Append(notes[r], told(r)) ELSE notes[r]]
    BY DEF CommitRemind
  <2> QED
    BY <1>1, <2>1, <2>2
<1>6. lines' \in [Rsvs -> Seq(Line)]
  BY <1>1
<1> QED
  BY <1>1, <1>3, <1>4, <1>5, <1>6, RsvJobStep

-----------------------------------------------------------------------------
(* The surroundings.                                                       *)
LEMMA TickStep ==
    ASSUME IInv, Tick
    PROVE  IInv'
<1>1. UNCHANGED <<approved, offers, rsv, lines, notes, tx, locks>> /\ now' \in Time
  BY ConstantsAssumption DEF Tick, tables, IInv, TypeOK, Time
<1>2. TypeOK' /\ LocksDisjoint' /\ RowsShape' /\ NoOversell'
  BY <1>1 DEF IInv, TypeOK, LocksDisjoint, RowsShape, NoOversell, Held
<1>3. ASSUME NEW t \in Txs
      PROVE  TxShape(t)' /\ TxLocks(t)' /\ TxChecks(t)'
  <2>1. TxShape(t) /\ TxLocks(t) /\ TxChecks(t)
    BY DEF IInv
  <2>2. TxShape(t)' /\ TxLocks(t)'
    BY <1>1, <2>1 DEF TxShape, TxLocks
  <2>3. \A x \in tx[t].rows : IsDue(tx[t].op, tx[t].at, x)'
    BY <1>1, <2>1 DEF TxChecks, IsDue
  <2>4. TxChecks(t)'
    BY <1>1, <2>1, <2>3 DEF TxChecks, Held
  <2> QED
    BY <2>2, <2>4
<1> QED
  BY <1>2, <1>3 DEF IInv

LEMMA SetApprovedStep ==
    ASSUME IInv, NEW m \in Members, SetApproved(m)
    PROVE  IInv'
<1>1. /\ UNCHANGED <<now, offers, rsv, lines, notes, tx, locks>>
      /\ approved' \subseteq Members
  BY DEF SetApproved, tables, IInv, TypeOK
<1>2. TypeOK' /\ LocksDisjoint' /\ RowsShape' /\ NoOversell'
  BY <1>1 DEF IInv, TypeOK, LocksDisjoint, RowsShape, NoOversell, Held
<1>3. ASSUME NEW t \in Txs
      PROVE  TxShape(t)' /\ TxLocks(t)' /\ TxChecks(t)'
  <2>1. TxShape(t) /\ TxLocks(t) /\ TxChecks(t)
    BY DEF IInv
  <2>2. TxShape(t)' /\ TxLocks(t)'
    BY <1>1, <2>1 DEF TxShape, TxLocks
  <2>3. \A x \in tx[t].rows : IsDue(tx[t].op, tx[t].at, x)'
    BY <1>1, <2>1 DEF TxChecks, IsDue
  <2>4. TxChecks(t)'
    BY <1>1, <2>1, <2>3 DEF TxChecks, Held
  <2> QED
    BY <2>2, <2>4
<1> QED
  BY <1>2, <1>3 DEF IInv

-----------------------------------------------------------------------------
LEMMA InitIInv == Init => IInv
<1> SUFFICES ASSUME Init PROVE IInv
  OBVIOUS
<1>1. TypeOK
  <2>1. 0 \in Time /\ 0 \in Qty
    BY ConstantsAssumption DEF Time, Qty
  <2>2. NoOffer \in OfferRow /\ NoRsv \in RsvRow
    BY <2>1 DEF NoOffer, NoRsv, OfferRow, RsvRow
  <2>3. Idle \in TxState
    BY <2>1 DEF Idle, TxState
  <2> QED
    BY <2>1, <2>2, <2>3 DEF Init, TypeOK
<1>2. LocksDisjoint
  BY DEF Init, LocksDisjoint
<1>3. \A t \in Txs : TxShape(t) /\ TxLocks(t) /\ TxChecks(t)
  BY DEF Init, Idle, TxShape, TxLocks, TxChecks, Requests, OnOneOffer, OfferOps, Actions,
         Decisions, Deliveries, Jobs, RsvJobs
<1>4. RowsShape
  BY DEF Init, RowsShape, NoOffer, NoRsv
<1>5. NoOversell
  <2>1. \A o \in Offers : HeldUnits(rsv, o) = {}
    BY DEF Init, HeldUnits, NoRsv, Holding
  <2>2. \A o \in Offers : Cardinality(HeldUnits(rsv, o)) = 0
    BY <2>1, FS_EmptySet
  <2>3. \A o \in Offers : offers[o].quantity = 0
    BY DEF Init, NoOffer
  <2> QED
    BY <2>2, <2>3 DEF NoOversell, Held
<1> QED
  BY <1>1, <1>2, <1>3, <1>4, <1>5 DEF IInv

LEMMA NextIInv == IInv /\ [Next]_vars => IInv'
<1> SUFFICES ASSUME IInv, [Next]_vars PROVE IInv'
  OBVIOUS
<1>1. ASSUME NEW t \in Txs, BeginRequest(t) PROVE IInv'
  BY <1>1, BeginCreateStep, BeginActStep, BeginPublishStep, BeginEditStep, BeginWithdrawStep
     DEF BeginRequest, Patches
<1>2. ASSUME NEW t \in Txs, Request(t) PROVE IInv'
  BY <1>1, <1>2, LockMemberStep, LockRsvStep, LockOfferStep, CheckCreateStep, CheckActStep,
     CheckOwnStep, CheckEditStep, CommitCreateStep, CommitPublishStep,
     CommitDecisionStep, CommitDeliveryStep, CommitEditStep, CommitWithdrawStep
     DEF Request
<1>3. ASSUME NEW t \in Txs, Job(t) PROVE IInv'
  BY <1>3, BeginJobStep, ScanStep, LockRowStep, CommitExpireStep, CommitRemindStep,
     CommitOffersExpireStep
     DEF Job, Jobs
<1>4. ASSUME NEW t \in Txs, Rollback(t) PROVE IInv'
  BY <1>4, RollbackStep
<1>5. ASSUME NEW m \in Suspendable, SetApproved(m) PROVE IInv'
  BY <1>5, SetApprovedStep, ConstantsAssumption
<1>6. CASE UNCHANGED vars
  <2>1. UNCHANGED <<now, approved, offers, rsv, lines, notes, tx, locks>>
    BY <1>6 DEF vars, tables
  <2>2. TypeOK' /\ LocksDisjoint' /\ RowsShape' /\ NoOversell'
    BY <2>1 DEF IInv, TypeOK, LocksDisjoint, RowsShape, NoOversell, Held
  <2>3. ASSUME NEW t \in Txs
        PROVE  TxShape(t)' /\ TxLocks(t)' /\ TxChecks(t)'
    <3>1. TxShape(t) /\ TxLocks(t) /\ TxChecks(t)
      BY DEF IInv
    <3>2. \A x \in tx[t].rows : IsDue(tx[t].op, tx[t].at, x)'
      BY <2>1, <3>1 DEF TxChecks, IsDue
    <3> QED
      BY <2>1, <3>1, <3>2 DEF TxShape, TxLocks, TxChecks, Held
  <2> QED
    BY <2>2, <2>3 DEF IInv
<1> QED
  BY <1>2, <1>3, <1>4, <1>5, <1>6, TickStep DEF Next

(* The invariant holds for every number of members, offers, reservations,  *)
(* transactions and every bound on quantities and time.                    *)
THEOREM Invariance == Spec => []IInv
BY InitIInv, NextIInv, PTL DEF Spec

(* Every table, transaction and lock set keeps its type.                   *)
THEOREM TypeCorrect == Spec => []TypeOK
<1>1. IInv => TypeOK
  BY DEF IInv
<1> QED
  BY <1>1, Invariance, PTL

(* No interleaving of create, edit, deliver, withdraw, the jobs and any    *)
(* number of rollbacks ever lets more be held on an offer than it has.     *)
THEOREM NeverOversold == Spec => []NoOversell
<1>1. IInv => NoOversell
  BY DEF IInv
<1> QED
  BY <1>1, Invariance, PTL

-----------------------------------------------------------------------------
(* The history.  Whatever a step does, it does one of five things to each  *)
(* reservation, its thread and its outbox rows.                            *)
Same(r) == rsv'[r] = rsv[r] /\ lines'[r] = lines[r] /\ notes'[r] = notes[r]

KeepsParties(r) == rsv'[r].requester = rsv[r].requester /\ rsv'[r].producer = rsv[r].producer

Created(r) ==
    /\ rsv[r].status = "absent" /\ rsv'[r].status = "pending" /\ ~rsv'[r].reminded
    /\ rsv'[r].requester # rsv'[r].producer
    /\ rsv'[r].requester \in Members \cap approved
    /\ rsv'[r].producer \in Members
    /\ lines'[r] = Append(lines[r], [event |-> "created", actor |-> rsv'[r].requester])
    /\ notes'[r] = Append(notes[r], [kind |-> "N6", to |-> rsv'[r].producer,
                                     decision |-> None])

ActedFrom(status) ==
    CASE status = "pending" -> {"confirmed", "rejected", "cancelled", "delivered"}
      [] status = "confirmed" -> {"delivered", "cancelled"}
      [] OTHER -> {}

ActedBy(r, m) ==
    LET to == rsv'[r].status
        straight == rsv[r].status = "pending" /\ to = "delivered" IN
    /\ to \in ActedFrom(rsv[r].status)
    /\ m \in {rsv[r].requester, rsv[r].producer} /\ m \in Members /\ m \in approved
    /\ KeepsParties(r) /\ rsv'[r].reminded = rsv[r].reminded
    /\ lines'[r] = Append(IF straight THEN Append(lines[r], [event |-> "confirmed", actor |-> m])
                                      ELSE lines[r],
                          [event |-> to, actor |-> m])
    /\ notes'[r] = Append(notes[r], [kind |-> "N8", to |-> OtherParty(rsv[r], m),
                                     decision |-> to])

Acted(r) == \E m \in Members : ActedBy(r, m)

Lapsed(r) ==
    /\ rsv[r].status = "pending" /\ rsv'[r].status = "expired"
    /\ KeepsParties(r) /\ rsv'[r].reminded = rsv[r].reminded
    /\ lines'[r] = Append(lines[r], [event |-> "expired", actor |-> None])
    /\ notes'[r] = Append(Append(notes[r], [kind |-> "N8", to |-> rsv[r].requester,
                                            decision |-> "expired"]),
                          [kind |-> "N8", to |-> rsv[r].producer, decision |-> "expired"])

Reminded(r) ==
    /\ rsv[r].status = "pending" /\ ~rsv[r].reminded
    /\ rsv'[r].status = "pending" /\ rsv'[r].reminded
    /\ KeepsParties(r) /\ lines'[r] = lines[r]
    /\ notes'[r] = Append(notes[r], [kind |-> "N7", to |-> rsv[r].producer,
                                     decision |-> None])

RsvMove(r) == Same(r) \/ Created(r) \/ Acted(r) \/ Lapsed(r) \/ Reminded(r)

(* The events of a thread with one more line.                              *)
LEMMA OneMoreEvent ==
    ASSUME NEW s \in Seq(Line), NEW l \in Line
    PROVE  /\ Append(s, l) \in Seq(Line)
           /\ Append(s, l)[Len(Append(s, l))] = l
           /\ \A es : [i \in DOMAIN s |-> s[i].event] = es =>
                [i \in DOMAIN Append(s, l) |-> Append(s, l)[i].event] = Append(es, l.event)
<1> DEFINE events == [i \in DOMAIN s |-> s[i].event]
           more == [i \in DOMAIN Append(s, l) |-> Append(s, l)[i].event]
           All == {"created", "confirmed"} \cup Closed
<1>1. \A x \in Line : x.event \in All
  BY DEF Line
<1>2. /\ Append(s, l) \in Seq(Line) /\ Len(Append(s, l)) = Len(s) + 1 /\ Len(s) \in Nat
      /\ \A i \in 1..Len(s) : Append(s, l)[i] = s[i]
      /\ Append(s, l)[Len(s) + 1] = l
  BY AppendProperties, LenProperties
<1>3. events \in Seq(All) /\ Len(events) = Len(s) /\ \A i \in 1..Len(s) : events[i] = s[i].event
  BY <1>1
<1>4. more \in Seq(All) /\ Len(more) = Len(s) + 1
      /\ \A i \in 1..Len(s) + 1 : more[i] = Append(s, l)[i].event
  BY <1>1, <1>2
<1> HIDE DEF events, more
<1>5. more = Append(events, l.event)
  <2>1. /\ Append(events, l.event) \in Seq(All) /\ Len(Append(events, l.event)) = Len(s) + 1
        /\ \A i \in 1..Len(s) : Append(events, l.event)[i] = events[i]
        /\ Append(events, l.event)[Len(s) + 1] = l.event
    BY <1>1, <1>3, AppendProperties
  <2>2. \A i \in 1..Len(s) + 1 : more[i] = Append(events, l.event)[i]
    BY <1>2, <1>3, <1>4, <2>1
  <2> QED
    BY <1>4, <2>1, <2>2, SeqEqual
<1> QED
  BY <1>2, <1>5 DEF events, more

Event == {"created", "confirmed"} \cup Closed

LEMMA NextEvent ==
    ASSUME NEW e \in Event
    PROVE  /\ Append(<< >>, e) = <<e>>
           /\ Append(<<"created">>, e) = <<"created", e>>
           /\ Append(<<"created", "confirmed">>, e) = <<"created", "confirmed", e>>
<1>1. Append(<< >>, e) = <<e>>
  OBVIOUS
<1>2. ASSUME NEW s \in Seq(Event), NEW t \in Seq(Event), Len(t) = Len(s) + 1,
             \A i \in 1..Len(s) : t[i] = s[i], t[Len(s) + 1] = e
      PROVE  Append(s, e) = t
  <2>1. /\ Append(s, e) \in Seq(Event) /\ Len(Append(s, e)) = Len(s) + 1
        /\ \A i \in 1..Len(s) : Append(s, e)[i] = s[i]
        /\ Append(s, e)[Len(s) + 1] = e /\ Len(s) \in Nat
    BY AppendProperties, LenProperties
  <2>2. \A i \in 1..Len(t) : Append(s, e)[i] = t[i]
    BY <1>2, <2>1
  <2> QED
    BY <1>2, <2>1, <2>2, SeqEqual
<1>3. Append(<<"created">>, e) = <<"created", e>>
  <2> DEFINE s == <<"created">>
             t == <<"created", e>>
  <2>1. s \in Seq(Event) /\ t \in Seq(Event)
    BY DEF Event
  <2>2. Len(t) = Len(s) + 1 /\ (\A i \in 1..Len(s) : t[i] = s[i]) /\ t[Len(s) + 1] = e
    OBVIOUS
  <2> HIDE DEF s, t
  <2>3. Append(s, e) = t
    BY <1>2, <2>1, <2>2
  <2> QED
    BY <2>3 DEF s, t
<1>4. Append(<<"created", "confirmed">>, e) = <<"created", "confirmed", e>>
  <2> DEFINE s == <<"created", "confirmed">>
             t == <<"created", "confirmed", e>>
  <2>1. s \in Seq(Event) /\ t \in Seq(Event)
    BY DEF Event
  <2>2. Len(t) = Len(s) + 1 /\ (\A i \in 1..Len(s) : t[i] = s[i]) /\ t[Len(s) + 1] = e
    OBVIOUS
  <2> HIDE DEF s, t
  <2>3. Append(s, e) = t
    BY <1>2, <2>1, <2>2
  <2> QED
    BY <2>3 DEF s, t
<1> QED
  BY <1>1, <1>3, <1>4

LEMMA StoriesOf ==
    /\ Stories("absent") = {<< >>} /\ Stories("pending") = {<<"created">>}
    /\ Stories("confirmed") = {<<"created", "confirmed">>}
    /\ Stories("delivered") = {<<"created", "confirmed", "delivered">>}
    /\ Stories("cancelled") = {<<"created", "cancelled">>, <<"created", "confirmed", "cancelled">>}
    /\ Stories("rejected") = {<<"created", "rejected">>}
    /\ Stories("expired") = {<<"created", "expired">>}
BY DEF Stories

(* The thread goes on telling the status.                                  *)
LEMMA LinesKept ==
    ASSUME TypeOK, NEW r \in Rsvs, RsvMove(r), Events(r) \in Stories(rsv[r].status)
    PROVE  Events(r)' \in Stories(rsv'[r].status)
<1>1. /\ lines[r] \in Seq(Line) /\ rsv[r].status \in {"absent"} \cup Holding \cup Closed
      /\ Events(r) = [i \in DOMAIN lines[r] |-> lines[r][i].event]
      /\ Events(r)' = [i \in DOMAIN lines'[r] |-> lines'[r][i].event]
  BY DEF TypeOK, RsvRow, Events
<1>2. ASSUME NEW l \in Line, lines'[r] = Append(lines[r], l)
      PROVE  Events(r)' = Append(Events(r), l.event)
  BY <1>1, <1>2, OneMoreEvent
<1>3. CASE Same(r)
  BY <1>1, <1>3 DEF Same
<1>4. CASE Created(r)
  <2>1. [event |-> "created", actor |-> rsv'[r].requester] \in Line
    BY <1>4 DEF Created, Line
  <2>2. Events(r)' = Append(Events(r), "created")
    BY <1>2, <1>4, <2>1 DEF Created
  <2>3. Events(r) = << >>
    BY <1>4, StoriesOf DEF Created
  <2> QED
    BY <1>4, <2>2, <2>3, NextEvent, StoriesOf DEF Created, Event
<1>5. CASE Acted(r)
  <2> PICK m \in Members : ActedBy(r, m)
    BY <1>5 DEF Acted
  <2> DEFINE to == rsv'[r].status
             Said(e) == [event |-> e, actor |-> m]
  <2>1. to \in ActedFrom(rsv[r].status)
    BY DEF ActedBy
  <2>2. to \in {"confirmed", "rejected", "cancelled", "delivered"}
    BY <2>1 DEF ActedFrom
  <2>3. Said("confirmed") \in Line /\ Said(to) \in Line /\ Said(to).event = to
    BY <2>2 DEF Line, Closed
  <2>4. CASE rsv[r].status = "pending" /\ to = "delivered"
    <3>1. lines'[r] = Append(Append(lines[r], Said("confirmed")), Said("delivered"))
      BY <2>4 DEF ActedBy
    <3>2. Append(lines[r], Said("confirmed")) \in Seq(Line)
      BY <1>1, <2>3, OneMoreEvent
    <3>3. Events(r)' = Append(Append(Events(r), "confirmed"), "delivered")
      BY <1>1, <2>3, <2>4, <3>1, <3>2, OneMoreEvent
    <3>4. Events(r) = <<"created">>
      BY <2>4, StoriesOf
    <3>5. Append(<<"created">>, "confirmed") = <<"created", "confirmed">>
          /\ Append(<<"created", "confirmed">>, "delivered") = <<"created", "confirmed", "delivered">>
      BY NextEvent DEF Event, Closed
    <3>6. Events(r)' = <<"created", "confirmed", "delivered">>
      BY ONLY <3>3, <3>4, <3>5
    <3> QED
      BY <2>4, <3>6, StoriesOf
  <2>5. CASE ~(rsv[r].status = "pending" /\ to = "delivered")
    <3>1. lines'[r] = Append(lines[r], Said(to))
      BY <2>5 DEF ActedBy
    <3>2. Events(r)' = Append(Events(r), to)
      BY <1>2, <2>3, <3>1
    <3>3. CASE rsv[r].status = "pending"
      <4>1. Events(r) = <<"created">>
        BY <3>3, StoriesOf
      <4>2. Append(<<"created">>, to) = <<"created", to>>
        BY <2>2, NextEvent DEF Event, Closed
      <4>3. Events(r)' = <<"created", to>>
        BY ONLY <3>2, <4>1, <4>2
      <4>4. to \in {"confirmed", "rejected", "cancelled"}
        BY <2>2, <2>5, <3>3
      <4> QED
        BY <4>3, <4>4, StoriesOf
    <3>4. CASE rsv[r].status = "confirmed"
      <4>1. Events(r) = <<"created", "confirmed">>
        BY <3>4, StoriesOf
      <4>2. Append(<<"created", "confirmed">>, to) = <<"created", "confirmed", to>>
        BY <2>2, NextEvent DEF Event, Closed
      <4>3. Events(r)' = <<"created", "confirmed", to>>
        BY ONLY <3>2, <4>1, <4>2
      <4>4. to \in {"delivered", "cancelled"}
        BY <2>1, <3>4 DEF ActedFrom
      <4> QED
        BY <4>3, <4>4, StoriesOf
    <3> QED
      BY <2>1, <3>3, <3>4 DEF ActedFrom
  <2> QED
    BY <2>4, <2>5
<1>6. CASE Lapsed(r)
  <2>1. [event |-> "expired", actor |-> None] \in Line
    BY DEF Line, Closed
  <2>2. Events(r)' = Append(Events(r), "expired")
    BY <1>2, <1>6, <2>1 DEF Lapsed
  <2>3. Events(r) = <<"created">>
    BY <1>6, StoriesOf DEF Lapsed
  <2>4. Append(<<"created">>, "expired") = <<"created", "expired">>
    BY NextEvent DEF Event, Closed
  <2> QED
    BY <1>6, <2>2, <2>3, <2>4, StoriesOf DEF Lapsed
<1>7. CASE Reminded(r)
  BY <1>1, <1>7 DEF Reminded
<1> QED
  BY <1>3, <1>4, <1>5, <1>6, <1>7 DEF RsvMove

(* The endings among notes s that party m is told, and what one more note  *)
(* adds to them.                                                           *)
IsEnding(n, m) == n.kind = "N8" /\ n.to = m /\ n.decision # "confirmed"
EndingsIn(s, m) == {i \in DOMAIN s : IsEnding(s[i], m)}

LEMMA OneMoreNote ==
    ASSUME NEW s \in Seq(Note), NEW n \in Note
    PROVE  /\ Append(s, n) \in Seq(Note) /\ DOMAIN s = 1..Len(s) /\ Len(s) \in Nat
           /\ Len(Append(s, n)) = Len(s) + 1
           /\ DOMAIN Append(s, n) = 1..(Len(s) + 1)
           /\ \A i \in 1..Len(s) : Append(s, n)[i] = s[i]
           /\ Append(s, n)[Len(s) + 1] = n
           /\ \A m : EndingsIn(Append(s, n), m) =
                       IF IsEnding(n, m) THEN EndingsIn(s, m) \cup {Len(s) + 1}
                                         ELSE EndingsIn(s, m)
<1>1. /\ Append(s, n) \in Seq(Note) /\ DOMAIN s = 1..Len(s) /\ Len(s) \in Nat
      /\ DOMAIN Append(s, n) = 1..(Len(s) + 1) /\ Len(Append(s, n)) = Len(s) + 1
      /\ \A i \in 1..Len(s) : Append(s, n)[i] = s[i]
      /\ Append(s, n)[Len(s) + 1] = n
  BY AppendProperties, LenProperties
<1>2. ASSUME NEW m
      PROVE  EndingsIn(Append(s, n), m) = IF IsEnding(n, m) THEN EndingsIn(s, m) \cup {Len(s) + 1}
                                                            ELSE EndingsIn(s, m)
  <2> DEFINE more == Append(s, n)
  <2> HIDE DEF more
  <2>1. \A i : i \in 1..(Len(s) + 1) <=> i \in 1..Len(s) \/ i = Len(s) + 1
    BY <1>1
  <2>2. Len(s) + 1 \notin 1..Len(s)
    BY <1>1
  <2>3. \A i : i \in EndingsIn(more, m) <=> \/ i \in EndingsIn(s, m)
                                            \/ i = Len(s) + 1 /\ IsEnding(n, m)
    BY <1>1, <2>1, <2>2 DEF EndingsIn, more
  <2> QED
    BY <2>3 DEF more
<1> QED
  BY <1>1, <1>2

(* The notes go on matching the status.                                    *)
LEMMA NotesKept ==
    ASSUME TypeOK, RowsShape, NEW r \in Rsvs, RsvMove(r), NotesStory(r)
    PROVE  NotesStory(r)'
<1> DEFINE s == notes[r]
           row == rsv[r]
           row2 == rsv'[r]
<1>1. /\ s \in Seq(Note) /\ lines[r] \in Seq(Line)
      /\ row.status \in {"absent"} \cup Holding \cup Closed
      /\ DOMAIN s = 1..Len(s) /\ Len(s) \in Nat
      /\ row.status # "absent" => row.requester \in Members /\ row.producer \in Members
  BY LenProperties DEF TypeOK, RsvRow, RowsShape
<1>2. \A m : Endings(r, m) = EndingsIn(s, m) /\ Endings(r, m)' = EndingsIn(notes'[r], m)
  BY DEF Endings, EndingsIn, IsEnding
<1>3. row.status \in Holding => \A m : EndingsIn(s, m) = {}
  BY DEF NotesStory, EndingsIn, IsEnding
<1>4. CASE Same(r)
  BY <1>2, <1>4 DEF Same, NotesStory, RemindedOnce, ToldOnce
<1>5. CASE Created(r)
  <2> DEFINE n == [kind |-> "N6", to |-> row2.producer, decision |-> None]
  <2>1. n \in Note /\ s = << >> /\ notes'[r] = Append(s, n)
    BY <1>5 DEF Created, NotesStory, Note
  <2>2. DOMAIN notes'[r] = 1..1 /\ notes'[r][1] = n
    BY <2>1
  <2>3. \A i \in DOMAIN notes'[r] : notes'[r][i].kind = "N6"
    BY <2>2
  <2> QED
    BY <1>5, <2>3 DEF Created, NotesStory, RemindedOnce, Holding, Closed
<1>6. CASE Acted(r)
  <2> PICK m \in Members : ActedBy(r, m)
    BY <1>6 DEF Acted
  <2> DEFINE to == row2.status
             n == [kind |-> "N8", to |-> OtherParty(row, m), decision |-> to]
             t == Append(s, n)
  <2>1. /\ to \in {"confirmed", "rejected", "cancelled", "delivered"}
        /\ row.status \in {"pending", "confirmed"}
    BY DEF ActedBy, ActedFrom
  <2>2. /\ m \in {row.requester, row.producer} /\ notes'[r] = t
        /\ row2.requester = row.requester /\ row2.producer = row.producer
        /\ row2.reminded = row.reminded
    BY DEF ActedBy, KeepsParties
  <2>3. OtherParty(row, m) \in {row.requester, row.producer} \ {m} /\ row.requester # row.producer
    BY <2>1, <2>2 DEF OtherParty, NotesStory
  <2>4. n \in Note
    BY <1>1, <2>1, <2>3 DEF Note, Closed
  <2> HIDE DEF n
  <2>4a. /\ DOMAIN t = 1..(Len(s) + 1) /\ t[Len(s) + 1] = n
         /\ \A i \in 1..Len(s) : t[i] = s[i]
         /\ \A p : EndingsIn(t, p) = IF IsEnding(n, p) THEN EndingsIn(s, p) \cup {Len(s) + 1}
                                                       ELSE EndingsIn(s, p)
    BY <1>1, <2>4, OneMoreNote
  <2> HIDE DEF t
  <2>5. /\ DOMAIN notes'[r] = 1..(Len(s) + 1) /\ notes'[r][Len(s) + 1] = n
        /\ \A i \in 1..Len(s) : notes'[r][i] = s[i]
        /\ \A p : EndingsIn(notes'[r], p) = IF IsEnding(n, p) THEN EndingsIn(s, p) \cup {Len(s) + 1}
                                                             ELSE EndingsIn(s, p)
    BY <2>2, <2>4a
  <2>6. n.kind = "N8" /\ n.decision = to /\ n.to = OtherParty(row, m)
    BY DEF n
  <2>7. ASSUME NEW i \in DOMAIN notes'[r]
        PROVE  /\ notes'[r][i].kind = "N8" => to # "pending"
               /\ notes'[r][i].kind = "N7" => row2.reminded
               /\ (notes'[r][i].kind = "N8" /\ notes'[r][i].decision # "confirmed")
                    => to \notin Holding
    <3>1. CASE i \in 1..Len(s)
      BY <1>1, <2>1, <2>2, <2>5, <3>1 DEF NotesStory, Holding
    <3>2. CASE i = Len(s) + 1
      BY <2>1, <2>5, <2>6, <3>2 DEF Holding
    <3> QED
      BY <1>1, <2>5, <3>1, <3>2
  <2>8. RemindedOnce(r)'
    <3>1. RemindedOnce(r)
      BY DEF NotesStory
    <3> SUFFICES ASSUME NEW i \in DOMAIN notes'[r], NEW j \in DOMAIN notes'[r],
                        notes'[r][i].kind = "N7", i # j,
                        notes'[r][j].kind \in {"N7", "N8"}
                 PROVE  i < j
      BY DEF RemindedOnce
    <3>2. i \in 1..(Len(s) + 1) /\ j \in 1..(Len(s) + 1) /\ i # Len(s) + 1
      BY <2>5, <2>6
    <3>3. i \in 1..Len(s) /\ s[i].kind = "N7"
      BY <1>1, <2>5, <3>2
    <3>4. CASE j = Len(s) + 1
      BY <1>1, <3>3, <3>4
    <3>5. CASE j \in 1..Len(s)
      BY <1>1, <2>5, <3>1, <3>3, <3>5 DEF RemindedOnce
    <3> QED
      BY <1>1, <3>2, <3>4, <3>5
  <2>9. ASSUME to \in Closed PROVE ToldOnce(r)'
    <3>1. lines'[r][Len(lines'[r])].actor = m
      <4> DEFINE first == IF row.status = "pending" /\ to = "delivered"
                            THEN Append(lines[r], [event |-> "confirmed", actor |-> m])
                            ELSE lines[r]
      <4>1. [event |-> "confirmed", actor |-> m] \in Line /\ [event |-> to, actor |-> m] \in Line
        BY <2>1 DEF Line, Closed
      <4>2. first \in Seq(Line)
        BY <1>1, <4>1, OneMoreEvent
      <4>3. lines'[r] = Append(first, [event |-> to, actor |-> m])
        BY DEF ActedBy
      <4> HIDE DEF first
      <4> QED
        BY <4>1, <4>2, <4>3, OneMoreEvent
    <3>2. to # "confirmed"
      BY <2>9 DEF Closed
    <3>3. Endings(r, m)' = {}
      BY <1>2, <1>3, <2>1, <2>3, <2>5, <2>6 DEF IsEnding, Holding
    <3>4. ASSUME NEW p \in {row.requester, row.producer}, p # m
          PROVE  /\ Endings(r, p)' = {Len(s) + 1} /\ notes'[r][Len(s) + 1].decision = to
                 /\ Len(s) + 1 \in DOMAIN notes'[r]
      <4>1. p = OtherParty(row, m)
        BY <2>2, <2>3, <3>4
      <4>2. IsEnding(n, p)
        BY <2>6, <3>2, <4>1 DEF IsEnding
      <4>3. EndingsIn(s, p) = {}
        BY <1>3, <2>1 DEF Holding
      <4>4. Endings(r, p)' = {Len(s) + 1}
        BY <1>2, <2>5, <4>2, <4>3
      <4>5. Len(s) + 1 \in 1..(Len(s) + 1)
        BY <1>1
      <4> QED
        BY <2>5, <2>6, <4>4, <4>5
    <3> QED
      BY <2>2, <3>1, <3>3, <3>4 DEF ToldOnce
  <2> QED
    BY <2>1, <2>2, <2>3, <2>7, <2>8, <2>9 DEF NotesStory
<1>7. CASE Lapsed(r)
  <2> DEFINE n == [kind |-> "N8", to |-> row.requester, decision |-> "expired"]
             k == [kind |-> "N8", to |-> row.producer, decision |-> "expired"]
             t == Append(s, n)
  <2>1. /\ row.status = "pending" /\ row2.status = "expired" /\ row2.reminded = row.reminded
        /\ row2.requester = row.requester /\ row2.producer = row.producer
        /\ notes'[r] = Append(t, k)
        /\ lines'[r] = Append(lines[r], [event |-> "expired", actor |-> None])
    BY <1>7 DEF Lapsed, KeepsParties
  <2>2. n \in Note /\ k \in Note /\ row.requester # row.producer
    BY <1>1, <2>1 DEF Note, Closed, NotesStory
  <2>3. /\ n.kind = "N8" /\ n.to = row.requester /\ n.decision = "expired"
        /\ k.kind = "N8" /\ k.to = row.producer /\ k.decision = "expired"
    OBVIOUS
  <2> HIDE DEF n, k
  <2>4. /\ t \in Seq(Note) /\ Len(t) = Len(s) + 1 /\ t[Len(s) + 1] = n
        /\ \A i \in 1..Len(s) : t[i] = s[i]
        /\ \A p : EndingsIn(t, p) = IF IsEnding(n, p) THEN EndingsIn(s, p) \cup {Len(s) + 1}
                                                     ELSE EndingsIn(s, p)
    BY <1>1, <2>2, OneMoreNote
  <2> HIDE DEF t
  <2>5. /\ DOMAIN notes'[r] = 1..(Len(s) + 2) /\ notes'[r][Len(s) + 2] = k
        /\ \A i \in 1..(Len(s) + 1) : notes'[r][i] = t[i]
        /\ \A p : EndingsIn(notes'[r], p) = IF IsEnding(k, p) THEN EndingsIn(t, p) \cup {Len(s) + 2}
                                                             ELSE EndingsIn(t, p)
    BY <1>1, <2>1, <2>2, <2>4, OneMoreNote
  <2>6. \A i \in DOMAIN notes'[r] :
          \/ notes'[r][i] = s[i] /\ i \in 1..Len(s)
          \/ notes'[r][i].kind = "N8" /\ i \in (Len(s) + 1)..(Len(s) + 2)
    BY <1>1, <2>3, <2>4, <2>5
  <2>7. \A i \in DOMAIN notes'[r] : notes'[r][i].kind = "N7" => row2.reminded
    BY <1>1, <2>1, <2>6 DEF NotesStory
  <2>8. RemindedOnce(r)'
    <3>1. RemindedOnce(r)
      BY DEF NotesStory
    <3> QED
      BY <1>1, <2>6, <3>1 DEF RemindedOnce
  <2>9. ToldOnce(r)'
    <3>1. lines'[r][Len(lines'[r])].actor = None
      <4>1. [event |-> "expired", actor |-> None] \in Line
        BY DEF Line, Closed
      <4> QED
        BY <1>1, <2>1, <4>1, OneMoreEvent
    <3>2. row.requester # None /\ row.producer # None
      BY <1>1, <2>1, IdsAssumption
    <3>3. /\ Endings(r, row.requester)' = {Len(s) + 1}
          /\ Endings(r, row.producer)' = {Len(s) + 2}
      BY <1>2, <1>3, <2>1, <2>2, <2>3, <2>4, <2>5 DEF IsEnding, Holding
    <3>4. /\ Len(s) + 1 \in DOMAIN notes'[r] /\ notes'[r][Len(s) + 1].decision = "expired"
          /\ Len(s) + 2 \in DOMAIN notes'[r] /\ notes'[r][Len(s) + 2].decision = "expired"
      BY <1>1, <2>3, <2>4, <2>5
    <3> QED
      BY <2>1, <3>1, <3>2, <3>3, <3>4 DEF ToldOnce
  <2> QED
    BY <2>1, <2>2, <2>7, <2>8, <2>9 DEF NotesStory, Holding
<1>8. CASE Reminded(r)
  <2> DEFINE n == [kind |-> "N7", to |-> row.producer, decision |-> None]
  <2>1. /\ row.status = "pending" /\ row2.status = "pending" /\ row2.reminded /\ ~row.reminded
        /\ row2.requester = row.requester /\ row2.producer = row.producer
        /\ notes'[r] = Append(s, n)
    BY <1>8 DEF Reminded, KeepsParties
  <2>2. n \in Note /\ n.kind = "N7"
    BY <1>1, <2>1 DEF Note
  <2> HIDE DEF n
  <2>3. /\ DOMAIN notes'[r] = 1..(Len(s) + 1) /\ notes'[r][Len(s) + 1] = n
        /\ \A i \in 1..Len(s) : notes'[r][i] = s[i]
    BY <1>1, <2>1, <2>2, OneMoreNote
  <2>4. \A i \in 1..Len(s) : s[i].kind \notin {"N7", "N8"}
    BY <1>1, <2>1 DEF NotesStory
  <2>5. \A i \in DOMAIN notes'[r] : /\ notes'[r][i].kind # "N8"
                                    /\ notes'[r][i].kind = "N7" => i = Len(s) + 1
    BY <1>1, <2>2, <2>3, <2>4
  <2> QED
    BY <2>1, <2>5 DEF NotesStory, RemindedOnce, Holding, Closed
<1> QED
  BY <1>4, <1>5, <1>6, <1>7, <1>8 DEF RsvMove

-----------------------------------------------------------------------------
(* What a step of transaction t does to the history: it moves only         *)
(* reservations it has locked (or creates one), leaves the other           *)
(* transactions what they have read, and owes its own story.               *)
StepOf(t) ==
    /\ UNCHANGED <<now, approved>>
    /\ \A u \in Txs \ {t} : tx'[u] = tx[u] /\ locks'[u] = locks[u]
    /\ \A r \in Rsvs : /\ RsvMove(r)
                       /\ Same(r) \/ rsv[r].status = "absent" \/ r \in locks[t]
    /\ \A o \in Offers : offers[o].status # "absent" => offers'[o].producer = offers[o].producer
    /\ TxStory(t)'
    /\ ExpiredOfferIsPast'

LEMMA StoryKept ==
    ASSUME HInv, IInv', NEW t \in Txs, StepOf(t)
    PROVE  HInv'
<1>1. ASSUME NEW u \in Txs \ {t} PROVE TxStory(u)'
  <2>1. /\ TxStory(u) /\ TxShape(u) /\ TxLocks(u) /\ TxChecks(u)
        /\ locks[u] \cap locks[t] = {}
        /\ tx'[u] = tx[u] /\ locks'[u] = locks[u] /\ now' = now /\ approved' = approved
    BY DEF HInv, IInv, LocksDisjoint, StepOf
  <2>2. ASSUME tx[u].op \in Actions, tx[u].pc \in {"offer", "commit"}
        PROVE  rsv'[tx[u].rsv] = rsv[tx[u].rsv]
    BY <2>1, <2>2 DEF TxShape, TxLocks, StepOf, Same
  <2>3. ASSUME tx[u].op = "create"
        PROVE  offers'[tx[u].offer].producer = offers[tx[u].offer].producer
    BY <2>1, <2>3 DEF TxShape, OnOneOffer, StepOf
  <2> QED
    BY <2>1, <2>2, <2>3 DEF TxStory
<1>2. ASSUME NEW r \in Rsvs PROVE RsvStory(r)'
  <2>1. RsvMove(r) /\ TypeOK /\ RowsShape /\ RsvStory(r)
    BY DEF StepOf, HInv, IInv
  <2> QED
    BY <2>1, LinesKept, NotesKept DEF RsvStory
<1> QED
  BY <1>1, <1>2 DEF HInv, StepOf

(* A step that leaves the tables alone.                                    *)
LEMMA QuietStory ==
    ASSUME HInv, NEW t \in Txs, UNCHANGED <<now, approved, tables>>,
           \A u \in Txs \ {t} : tx'[u] = tx[u] /\ locks'[u] = locks[u],
           TxStory(t)'
    PROVE  StepOf(t)
<1>1. UNCHANGED <<offers, rsv, lines, notes>>
  BY DEF tables
<1>2. ExpiredOfferIsPast'
  BY <1>1 DEF HInv, ExpiredOfferIsPast
<1> QED
  BY <1>1, <1>2 DEF StepOf, RsvMove, Same

(* A step that ends t.                                                     *)
LEMMA EndStory ==
    ASSUME HInv, NEW t \in Txs, End(t),
           \A r \in Rsvs : /\ RsvMove(r)
                           /\ Same(r) \/ rsv[r].status = "absent" \/ r \in locks[t],
           \A o \in Offers : offers[o].status # "absent" =>
                               offers'[o].producer = offers[o].producer,
           ExpiredOfferIsPast'
    PROVE  StepOf(t)
<1>1. /\ tx'[t] = Idle /\ now' = now /\ approved' = approved /\ now >= 0
      /\ \A u \in Txs \ {t} : tx'[u] = tx[u] /\ locks'[u] = locks[u]
  BY ConstantsAssumption DEF HInv, IInv, TypeOK, End, Time
<1>2. TxStory(t)'
  BY <1>1 DEF TxStory, Idle, Requests, Actions, Decisions, Deliveries, OfferOps
<1> QED
  BY <1>1, <1>2 DEF StepOf

LEMMA RollbackStory ==
    ASSUME HInv, NEW t \in Txs, Rollback(t)
    PROVE  StepOf(t)
<1>1. End(t) /\ UNCHANGED <<offers, rsv, lines, notes>> /\ now' = now
  BY DEF Rollback, End, tables
<1>2. ExpiredOfferIsPast'
  BY <1>1 DEF HInv, ExpiredOfferIsPast
<1> QED
  BY <1>1, <1>2, EndStory DEF RsvMove, Same

LEMMA BeginStory ==
    ASSUME HInv, NEW t \in Txs, NEW s, Begin(t, s), s.at = now,
           s.pc \in {"member", "scan"}, s.op \in Requests => s.pc = "member"
    PROVE  StepOf(t)
<1>1. /\ tx'[t] = s /\ UNCHANGED <<now, approved, tables, locks>>
      /\ \A u \in Txs \ {t} : tx'[u] = tx[u] /\ locks'[u] = locks[u]
  BY DEF Begin, HInv, IInv, TypeOK
<1>2. tx'[t].at <= now'
  BY <1>1, ConstantsAssumption DEF HInv, IInv, TypeOK, Time
<1>3. /\ tx'[t].op \in Requests => tx'[t].pc = "member"
      /\ tx'[t].pc \in {"member", "scan"}
  BY <1>1
<1>4. TxStory(t)'
  BY <1>2, <1>3 DEF TxStory
<1> QED
  BY <1>1, <1>4, QuietStory

LEMMA BeginRequestStory ==
    ASSUME HInv, NEW t \in Txs, BeginRequest(t)
    PROVE  StepOf(t)
<1>1. ASSUME NEW s, Begin(t, s), s.pc = "member", s.at = now
      PROVE  StepOf(t)
  BY <1>1, BeginStory
<1>2. PICK m \in Members :
        \/ \E o \in Offers, q \in 1..MaxQty : BeginCreate(t, m, o, q)
        \/ \E r \in Rsvs, action \in Actions : BeginAct(t, m, r, action)
        \/ \E p \in Products, q \in 1..MaxQty, u \in Dates \cup {None} :
              BeginPublish(t, m, p, q, u)
        \/ \E o \in Offers, q \in Qty \cup {Keep}, u \in Patches :
              BeginEdit(t, m, o, q, u)
        \/ \E o \in Offers : BeginWithdraw(t, m, o)
  BY DEF BeginRequest
<1>3. ASSUME NEW o \in Offers, NEW q \in 1..MaxQty, BeginCreate(t, m, o, q)
      PROVE  StepOf(t)
  <2> DEFINE s == [Idle EXCEPT !.op = "create", !.pc = "member", !.at = now,
                               !.actor = m, !.offer = o, !.quantity = q]
  <2>1. Begin(t, s)
    BY <1>3 DEF BeginCreate
  <2>2. s.pc = "member" /\ s.at = now
    BY DEF Idle
  <2> HIDE DEF s
  <2> QED
    BY <1>1, <2>1, <2>2
<1>4. ASSUME NEW r \in Rsvs, NEW action \in Actions, BeginAct(t, m, r, action)
      PROVE  StepOf(t)
  <2> DEFINE s == [Idle EXCEPT !.op = action, !.pc = "member", !.at = now,
                               !.actor = m, !.rsv = r]
  <2>1. Begin(t, s)
    BY <1>4 DEF BeginAct
  <2>2. s.pc = "member" /\ s.at = now
    BY DEF Idle
  <2> HIDE DEF s
  <2> QED
    BY <1>1, <2>1, <2>2
<1>5. ASSUME NEW p \in Products, NEW q \in 1..MaxQty, NEW u \in Dates \cup {None},
             BeginPublish(t, m, p, q, u)
      PROVE  StepOf(t)
  <2> DEFINE s == [Idle EXCEPT !.op = "publish", !.pc = "member", !.at = now,
                               !.actor = m, !.product = p, !.quantity = q, !.until = u]
  <2>1. Begin(t, s)
    BY <1>5 DEF BeginPublish
  <2>2. s.pc = "member" /\ s.at = now
    BY DEF Idle
  <2> HIDE DEF s
  <2> QED
    BY <1>1, <2>1, <2>2
<1>6. ASSUME NEW o \in Offers, NEW q \in Qty \cup {Keep}, NEW u \in Patches,
             BeginEdit(t, m, o, q, u)
      PROVE  StepOf(t)
  <2> DEFINE s == [Idle EXCEPT !.op = "edit", !.pc = "member", !.at = now,
                               !.actor = m, !.offer = o, !.quantity = q, !.until = u]
  <2>1. Begin(t, s)
    BY <1>6 DEF BeginEdit
  <2>2. s.pc = "member" /\ s.at = now
    BY DEF Idle
  <2> HIDE DEF s
  <2> QED
    BY <1>1, <2>1, <2>2
<1>7. ASSUME NEW o \in Offers, BeginWithdraw(t, m, o)
      PROVE  StepOf(t)
  <2> DEFINE s == [Idle EXCEPT !.op = "withdraw", !.pc = "member", !.at = now,
                               !.actor = m, !.offer = o]
  <2>1. Begin(t, s)
    BY <1>7 DEF BeginWithdraw
  <2>2. s.pc = "member" /\ s.at = now
    BY DEF Idle
  <2> HIDE DEF s
  <2> QED
    BY <1>1, <2>1, <2>2
<1> QED
  BY <1>2, <1>3, <1>4, <1>5, <1>6, <1>7

LEMMA BeginJobStory ==
    ASSUME HInv, NEW t \in Txs, NEW job \in Jobs, BeginJob(t, job)
    PROVE  StepOf(t)
<1> DEFINE s == [Idle EXCEPT !.op = job, !.pc = "scan", !.at = now]
<1>1. Begin(t, s)
  BY DEF BeginJob
<1>2. s.pc = "scan" /\ s.at = now /\ s.op \notin Requests
  BY DEF Idle, Jobs, RsvJobs, Requests, OfferOps, Actions, Decisions, Deliveries
<1> HIDE DEF s
<1> QED
  BY <1>1, <1>2, BeginStory

(* The actor of t is a party of its reservation who may do what t does.    *)
MayAct(t) ==
    LET row == rsv[tx[t].rsv] IN
    /\ tx[t].actor \in {row.requester, row.producer}
    /\ tx[t].op \in AllowedActions(row.status, tx[t].actor # row.requester)

(* A step that moves t to another statement, perhaps with a new lock.      *)
LEMMA MoveStory ==
    ASSUME HInv, NEW t \in Txs, NEW pc \in {"rsv", "offer", "check", "commit"}, Goto(t, pc),
           UNCHANGED <<now, approved, tables>>,
           \A u \in Txs \ {t} : locks'[u] = locks[u],
           tx[t].op \in Requests => tx[t].actor \in locks'[t] /\ tx[t].actor \in approved,
           (tx[t].op \in Actions /\ pc \in {"offer", "commit"}) => MayAct(t),
           (tx[t].op = "create" /\ pc = "commit") =>
             offers[tx[t].offer].producer # tx[t].actor
    PROVE  StepOf(t)
<1>1. /\ tx'[t] = [tx[t] EXCEPT !.pc = pc] /\ tx[t] \in TxState
      /\ \A u \in Txs \ {t} : tx'[u] = tx[u]
  BY GotoStep DEF HInv, IInv, TypeOK
<1>2. /\ tx'[t].pc = pc /\ tx'[t].op = tx[t].op /\ tx'[t].at = tx[t].at
      /\ tx'[t].actor = tx[t].actor /\ tx'[t].rsv = tx[t].rsv /\ tx'[t].offer = tx[t].offer
  BY <1>1 DEF TxState
<1>3. rsv' = rsv /\ offers' = offers /\ now' = now /\ approved' = approved /\ tx[t].at <= now
  BY DEF tables, HInv, TxStory
<1>4. TxStory(t)'
  BY <1>2, <1>3 DEF TxStory, MayAct
<1> QED
  BY <1>1, <1>4, QuietStory

LEMMA LockMemberStory ==
    ASSUME HInv, NEW t \in Txs, LockMember(t)
    PROVE  StepOf(t)
<1> DEFINE pc == CASE tx[t].op \in Actions -> "rsv"
                   [] tx[t].op = "publish" -> "check"
                   [] OTHER -> "offer"
<1>1. /\ IInv /\ tx[t].pc = "member" /\ Lock(t, tx[t].actor) /\ Goto(t, pc)
      /\ UNCHANGED <<now, approved, tables>> /\ tx[t].actor \in approved
      /\ TxShape(t)
  BY DEF LockMember, HInv, IInv
<1>2. tx[t].op \in Requests /\ tx[t].actor \in Rows
  BY <1>1 DEF TxShape, Rows
<1>3. pc \in {"rsv", "offer", "check"} /\ (tx[t].op \in Actions => pc = "rsv")
  BY DEF Actions, Decisions, Deliveries
<1> HIDE DEF pc
<1>4. tx[t].actor \in locks'[t] /\ \A u \in Txs \ {t} : locks'[u] = locks[u]
  BY <1>1, <1>2, LockStep
<1> QED
  BY <1>1, <1>3, <1>4, MoveStory

LEMMA LockRsvStory ==
    ASSUME HInv, NEW t \in Txs, LockRsv(t)
    PROVE  StepOf(t)
<1>1. /\ IInv /\ tx[t].pc = "rsv" /\ Lock(t, tx[t].rsv) /\ Goto(t, "check")
      /\ UNCHANGED <<now, approved, tables>> /\ TxShape(t) /\ TxStory(t)
  BY DEF LockRsv, HInv, IInv
<1>2. tx[t].rsv \in Rows
  BY <1>1 DEF TxShape, Rows
<1>3. /\ locks'[t] = locks[t] \cup {tx[t].rsv}
      /\ \A u \in Txs \ {t} : locks'[u] = locks[u]
  BY <1>1, <1>2, LockStep
<1>4. tx[t].op \in Requests => tx[t].actor \in locks'[t] /\ tx[t].actor \in approved
  BY <1>1, <1>3 DEF TxStory
<1> QED
  BY <1>1, <1>3, <1>4, MoveStory

LEMMA LockOfferStory ==
    ASSUME HInv, NEW t \in Txs, LockOffer(t)
    PROVE  StepOf(t)
<1>1. /\ IInv /\ tx[t].pc = "offer" /\ UNCHANGED <<now, approved, tables>>
      /\ TxShape(t) /\ TxStory(t) /\ RowsShape
  BY DEF LockOffer, HInv, IInv
<1> DEFINE pc == IF tx[t].op \in Deliveries THEN "commit" ELSE "check"
           row == IF tx[t].op \in Deliveries THEN rsv[tx[t].rsv].offer ELSE tx[t].offer
<1>2. Lock(t, row) /\ Goto(t, pc)
  BY DEF LockOffer
<1>3. row \in Rows
  BY <1>1 DEF TxShape, RowsShape, Rows, Actions
<1>4. /\ pc \in {"commit", "check"}
      /\ pc = "commit" => tx[t].op \in Deliveries /\ tx[t].op # "create"
  BY DEF Deliveries
<1> HIDE DEF row, pc
<1>5. /\ locks'[t] = locks[t] \cup {row}
      /\ \A u \in Txs \ {t} : locks'[u] = locks[u]
  BY <1>1, <1>2, <1>3, LockStep
<1>6. tx[t].op \in Requests => tx[t].actor \in locks'[t] /\ tx[t].actor \in approved
  BY <1>1, <1>5 DEF TxStory
<1>7. (tx[t].op \in Actions /\ pc \in {"offer", "commit"}) => MayAct(t)
  BY <1>1 DEF TxStory, MayAct
<1> QED
  BY <1>1, <1>2, <1>4, <1>5, <1>6, <1>7, MoveStory

LEMMA CheckStory ==
    ASSUME HInv, NEW t \in Txs,
           \/ CheckCreate(t) \/ CheckAct(t) \/ CheckPublish(t) \/ CheckEdit(t)
           \/ CheckWithdraw(t)
    PROVE  StepOf(t)
<1>1. /\ IInv /\ tx[t].pc = "check" /\ UNCHANGED <<now, approved, tables>> /\ locks' = locks
      /\ TxStory(t)
  BY DEF CheckCreate, CheckAct, CheckPublish, CheckEdit, CheckWithdraw, At, HInv
<1>2. tx[t].op \in Requests => tx[t].actor \in locks'[t] /\ tx[t].actor \in approved
  BY <1>1 DEF TxStory
<1>3. CASE CheckCreate(t)
  <2>1. tx[t].op \notin Actions /\ Goto(t, "commit")
        /\ offers[tx[t].offer].producer # tx[t].actor
    BY <1>3 DEF CheckCreate, At, MayReserve, Actions, Decisions, Deliveries
  <2> QED
    BY <1>1, <1>2, <2>1, MoveStory
<1>4. CASE CheckAct(t)
  <2> DEFINE pc == IF tx[t].op \in Deliveries THEN "offer" ELSE "commit"
  <2>1. /\ Goto(t, pc) /\ pc \in {"offer", "commit"} /\ tx[t].op # "create"
        /\ MayAct(t)
    BY <1>4 DEF CheckAct, MayAct, At, Actions, Decisions, Deliveries
  <2> HIDE DEF pc
  <2> QED
    BY <1>1, <1>2, <2>1, MoveStory
<1>5. CASE CheckPublish(t) \/ CheckEdit(t) \/ CheckWithdraw(t)
  <2>1. tx[t].op \notin Actions /\ tx[t].op # "create" /\ Goto(t, "commit")
    BY <1>5 DEF CheckPublish, CheckEdit, CheckWithdraw, At, Actions, Decisions, Deliveries
  <2> QED
    BY <1>1, <1>2, <2>1, MoveStory
<1> QED
  BY <1>3, <1>4, <1>5

LEMMA LockRowKeeps ==
    ASSUME TypeOK, NEW t \in Txs, NEW x \in Rsvs \cup Offers, LockRow(t, x)
    PROVE  /\ tx'[t].op = tx[t].op /\ tx'[t].at = tx[t].at
           /\ \A u \in Txs \ {t} : tx'[u] = tx[u]
<1> DEFINE rows == IF StillDue(t, x) THEN tx[t].rows \cup {x} ELSE tx[t].rows
           s == [tx[t] EXCEPT !.todo = @ \ {x}, !.rows = rows]
<1>1. tx' = [tx EXCEPT ![t] = s] /\ tx \in [Txs -> TxState] /\ tx[t] \in TxState
  BY DEF LockRow, TypeOK
<1> HIDE DEF rows
<1>2. s.op = tx[t].op /\ s.at = tx[t].at
  BY <1>1 DEF TxState
<1> HIDE DEF s
<1> QED
  BY <1>1, <1>2

(* A job reads and locks; nothing of it is a member's.                     *)
LEMMA JobStory ==
    ASSUME HInv, NEW t \in Txs, Scan(t) \/ \E x \in Rsvs \cup Offers : LockRow(t, x)
    PROVE  StepOf(t)
<1>1. /\ IInv /\ TypeOK /\ tx[t] \in TxState /\ tx \in [Txs -> TxState] /\ TxShape(t) /\ TxStory(t)
  BY DEF HInv, IInv, TypeOK
<1>2. /\ UNCHANGED <<now, approved, tables>>
      /\ \A u \in Txs \ {t} : tx'[u] = tx[u] /\ locks'[u] = locks[u]
      /\ tx'[t].op = tx[t].op /\ tx'[t].at = tx[t].at /\ tx[t].pc \in {"scan", "rows"}
  <2>1. CASE Scan(t)
    BY <1>1, <2>1 DEF Scan, TxState
  <2>2. ASSUME NEW x \in Rsvs \cup Offers, LockRow(t, x)
        PROVE  /\ UNCHANGED <<now, approved, tables>>
               /\ \A u \in Txs \ {t} : tx'[u] = tx[u] /\ locks'[u] = locks[u]
               /\ tx'[t].op = tx[t].op /\ tx'[t].at = tx[t].at /\ tx[t].pc = "rows"
    <3>1. /\ Lock(t, x) /\ UNCHANGED <<now, approved, tables>> /\ tx[t].pc = "rows"
          /\ x \in Rows
      BY <2>2 DEF LockRow, Rows
    <3>2. \A u \in Txs \ {t} : locks'[u] = locks[u]
      BY <1>1, <3>1, LockStep
    <3>3. tx'[t].op = tx[t].op /\ tx'[t].at = tx[t].at /\ \A u \in Txs \ {t} : tx'[u] = tx[u]
      BY <1>1, <2>2, LockRowKeeps
    <3> QED
      BY <3>1, <3>2, <3>3
  <2> QED
    BY <2>1, <2>2
<1>3. tx[t].op \notin Requests /\ tx[t].op \notin Actions /\ tx[t].op # "create"
  BY <1>1, <1>2 DEF TxShape, Jobs, RsvJobs, Requests, OfferOps, Actions, Decisions, Deliveries
<1>4. TxStory(t)'
  BY <1>1, <1>2, <1>3 DEF TxStory
<1> QED
  BY <1>2, <1>4, QuietStory

(* Writing one or two more entries, as act and the jobs do.                *)
LEMMA WriteMore ==
    ASSUME NEW S, NEW s \in Seq(S), NEW a \in S, NEW b \in S
    PROVE  s \o <<a>> = Append(s, a) /\ s \o <<a, b>> = Append(Append(s, a), b)
<1>1. s \o <<a>> = Append(s, a)
  BY AppendIsConcat
<1>2. Append(Append(s, a), b) = (s \o <<a>>) \o <<b>>
  <2>1. Append(s, a) \in Seq(S)
    OBVIOUS
  <2> QED
    BY <1>1, <2>1, AppendIsConcat
<1>3. (s \o <<a>>) \o <<b>> = s \o (<<a>> \o <<b>>)
  <2>1. <<a>> \in Seq(S) /\ <<b>> \in Seq(S)
    OBVIOUS
  <2> QED
    BY <2>1, ConcatAssociative
<1>4. <<a>> \o <<b>> = <<a, b>>
  <2> DEFINE u == <<a>>
             v == <<b>>
             w == <<a, b>>
  <2>1. u \in Seq(S) /\ v \in Seq(S) /\ w \in Seq(S) /\ Len(u) = 1 /\ Len(v) = 1 /\ Len(w) = 2
    OBVIOUS
  <2>2. u[1] = a /\ v[1] = b /\ w[1] = a /\ w[2] = b
    OBVIOUS
  <2> HIDE DEF u, v, w
  <2>3. u \o v \in Seq(S) /\ Len(u \o v) = 2 /\ (u \o v)[1] = a /\ (u \o v)[2] = b
    <3>1. /\ u \o v \in Seq(S) /\ Len(u \o v) = Len(u) + Len(v)
          /\ \A i \in 1..Len(u) + Len(v) :
               (u \o v)[i] = IF i <= Len(u) THEN u[i] ELSE v[i - Len(u)]
      BY <2>1, ConcatProperties
    <3> HIDE DEF u, v
    <3>2. Len(u) + Len(v) = 2 /\ 1 \in 1..2 /\ 2 \in 1..2 /\ 2 - 1 = 1 /\ ~(2 <= 1)
      BY <2>1
    <3> QED
      BY <2>1, <2>2, <3>1, <3>2
  <2>4. u \o v = w
    BY <2>1, <2>2, <2>3, SeqEqual
  <2> QED
    BY <2>4 DEF u, v, w
<1> QED
  BY <1>1, <1>2, <1>3, <1>4

LEMMA CommitCreateStory ==
    ASSUME HInv, NEW t \in Txs, NEW r \in Rsvs, CommitCreate(t, r)
    PROVE  StepOf(t)
<1> DEFINE new == [status |-> "pending", offer |-> tx[t].offer, requester |-> tx[t].actor,
                   producer |-> offers[tx[t].offer].producer, quantity |-> tx[t].quantity,
                   expiresAt |-> tx[t].at + Expiry, reminded |-> FALSE]
           line == LineBy(t, "created")
           note == [kind |-> "N6", to |-> offers[tx[t].offer].producer, decision |-> None]
<1>1. /\ TypeOK /\ RowsShape /\ TxShape(t) /\ TxStory(t) /\ ExpiredOfferIsPast
      /\ rsv[r].status = "absent" /\ tx[t].op = "create" /\ tx[t].pc = "commit"
      /\ End(t) /\ offers' = offers /\ now' = now
  BY DEF CommitCreate, At, End, HInv, IInv
<1>2. /\ rsv' = [rsv EXCEPT ![r] = new]
      /\ lines' = [lines EXCEPT ![r] = Append(@, line)]
      /\ notes' = [notes EXCEPT ![r] = Append(@, note)]
  BY DEF CommitCreate
<1>3. /\ tx[t].actor \in Members \cap approved
      /\ offers[tx[t].offer].producer \in Members
      /\ offers[tx[t].offer].producer # tx[t].actor
  BY <1>1 DEF TxShape, TxStory, RowsShape, Requests, OnOneOffer
<1>4. /\ new.status = "pending" /\ ~new.reminded /\ new.requester = tx[t].actor
      /\ new.producer = offers[tx[t].offer].producer
      /\ line = [event |-> "created", actor |-> tx[t].actor]
  BY DEF LineBy
<1> HIDE DEF new, line
<1>5. /\ rsv'[r] = new /\ lines'[r] = Append(lines[r], line) /\ notes'[r] = Append(notes[r], note)
      /\ \A x \in Rsvs \ {r} : Same(x)
  <2> HIDE DEF note
  <2> QED
    BY <1>1, <1>2 DEF TypeOK, Same
<1>6. Created(r)
  <2>1. rsv'[r].status = "pending" /\ ~rsv'[r].reminded /\ rsv'[r].requester = tx[t].actor
        /\ rsv'[r].producer = offers[tx[t].offer].producer
    BY <1>4, <1>5
  <2>2. lines'[r] = Append(lines[r], [event |-> "created", actor |-> rsv'[r].requester])
    BY <1>4, <1>5, <2>1
  <2>3. notes'[r] = Append(notes[r], [kind |-> "N6", to |-> rsv'[r].producer, decision |-> None])
    BY <1>5, <2>1
  <2> QED
    BY <1>1, <1>3, <2>1, <2>2, <2>3 DEF Created
<1>7. ExpiredOfferIsPast'
  BY <1>1 DEF ExpiredOfferIsPast
<1> QED
  BY <1>1, <1>5, <1>6, <1>7, EndStory DEF RsvMove

(* What an allowed action makes of a status.                               *)
LEMMA ActsForward ==
    ASSUME NEW status, NEW isProducer, NEW op \in AllowedActions(status, isProducer)
    PROVE  /\ status \in Holding /\ StatusAfter(op) \in ActedFrom(status)
           /\ StatusAfter(op) = "delivered" <=> op \in Deliveries
           /\ op = "deliver" => status = "confirmed"
           /\ op = "confirm-and-deliver" => status = "pending"
BY DEF AllowedActions, StatusAfter, ActedFrom, Holding, Deliveries

(* act: the row, the lines it wrote and the N8 make one move.              *)
LEMMA ApplyStory ==
    ASSUME HInv, NEW t \in Txs, NEW written, Apply(t, written),
           tx[t].op \in Actions, tx[t].pc = "commit",
           lines[tx[t].rsv] \o written =
             Append(IF tx[t].op = "confirm-and-deliver"
                      THEN Append(lines[tx[t].rsv], LineBy(t, "confirmed"))
                      ELSE lines[tx[t].rsv],
                    LineBy(t, StatusAfter(tx[t].op)))
    PROVE  \A r \in Rsvs : RsvMove(r) /\ (Same(r) \/ r \in locks[t])
<1> DEFINE r == tx[t].rsv
           m == tx[t].actor
           status == StatusAfter(tx[t].op)
           row == [rsv[r] EXCEPT !.status = status, !.expiresAt = None]
           note == [kind |-> "N8", to |-> OtherParty(rsv[r], m), decision |-> status]
<1>1. /\ TypeOK /\ TxShape(t) /\ TxLocks(t) /\ TxStory(t) /\ rsv \in [Rsvs -> RsvRow]
  BY DEF HInv, IInv, TypeOK
<1>2. /\ r \in Rsvs /\ r \in locks[t] /\ m \in Members /\ m \in approved
      /\ m \in {rsv[r].requester, rsv[r].producer} /\ rsv[r] \in RsvRow
      /\ tx[t].op \in AllowedActions(rsv[r].status, m # rsv[r].requester)
  BY <1>1 DEF TxShape, TxLocks, TxStory, Requests
<1>3. /\ status \in ActedFrom(rsv[r].status)
      /\ tx[t].op = "confirm-and-deliver" <=>
           rsv[r].status = "pending" /\ status = "delivered"
  <2>1. (tx[t].op \in Deliveries) <=> status = "delivered"
    BY <1>2, ActsForward
  <2>2. /\ tx[t].op = "deliver" => rsv[r].status = "confirmed"
        /\ tx[t].op = "confirm-and-deliver" => rsv[r].status = "pending"
    BY <1>2, ActsForward
  <2> QED
    BY <1>2, <2>1, <2>2, ActsForward DEF Deliveries
<1> HIDE DEF status
<1>4. /\ row.status = status /\ row.requester = rsv[r].requester
      /\ row.producer = rsv[r].producer /\ row.reminded = rsv[r].reminded
  BY <1>2 DEF RsvRow
<1>5. /\ rsv' = [rsv EXCEPT ![r] = row]
      /\ lines' = [lines EXCEPT ![r] = lines[r] \o written]
      /\ notes' = [notes EXCEPT ![r] = Append(notes[r], note)]
  BY DEF Apply, status
<1> HIDE DEF row
<1>6. /\ rsv'[r] = row /\ lines'[r] = lines[r] \o written /\ notes'[r] = Append(notes[r], note)
      /\ \A x \in Rsvs \ {r} : Same(x)
  <2> HIDE DEF note
  <2> QED
    BY <1>1, <1>2, <1>5 DEF TypeOK, Same
<1>7. ActedBy(r, m)
  <2>1. rsv'[r].status = status /\ KeepsParties(r) /\ rsv'[r].reminded = rsv[r].reminded
    BY <1>4, <1>6 DEF KeepsParties
  <2>2. notes'[r] = Append(notes[r], [kind |-> "N8", to |-> OtherParty(rsv[r], m),
                                      decision |-> rsv'[r].status])
    BY <1>6, <2>1
  <2>3. lines'[r] = Append(IF tx[t].op = "confirm-and-deliver"
                             THEN Append(lines[r], [event |-> "confirmed", actor |-> m])
                             ELSE lines[r],
                           [event |-> rsv'[r].status, actor |-> m])
    BY <1>6, <2>1 DEF LineBy, status
  <2>4. (tx[t].op = "confirm-and-deliver") <=>
           (rsv[r].status = "pending" /\ rsv'[r].status = "delivered")
    BY <1>3, <2>1
  <2>5. lines'[r] = Append(IF rsv[r].status = "pending" /\ rsv'[r].status = "delivered"
                             THEN Append(lines[r], [event |-> "confirmed", actor |-> m])
                             ELSE lines[r],
                           [event |-> rsv'[r].status, actor |-> m])
    <3> HIDE DEF r, m, note
    <3>1. CASE tx[t].op = "confirm-and-deliver"
      BY ONLY <2>3, <2>4, <3>1
    <3>2. CASE tx[t].op # "confirm-and-deliver"
      BY ONLY <2>3, <2>4, <3>2
    <3> QED
      BY ONLY <3>1, <3>2
  <2>6. rsv'[r].status \in ActedFrom(rsv[r].status)
    BY <1>3, <2>1
  <2> HIDE DEF r, m
  <2> QED
    BY <1>2, <2>1, <2>2, <2>5, <2>6 DEF ActedBy
<1>8. RsvMove(r)
  BY <1>2, <1>7 DEF RsvMove, Acted
<1> QED
  BY <1>2, <1>6, <1>8 DEF RsvMove

LEMMA CommitDecisionStory ==
    ASSUME HInv, NEW t \in Txs, CommitDecision(t)
    PROVE  StepOf(t)
<1>1. /\ TypeOK /\ TxShape(t) /\ tx[t].op \in Decisions /\ tx[t].op \in Actions
      /\ tx[t].pc = "commit"
      /\ tx[t].op # "confirm-and-deliver" /\ tx[t].rsv \in Rsvs /\ tx[t].actor \in Members
      /\ End(t) /\ offers' = offers /\ now' = now
  BY DEF CommitDecision, Apply, At, End, HInv, IInv, TxShape, Actions, Decisions, Requests
<1> DEFINE line == LineBy(t, StatusAfter(tx[t].op))
<1>2. Apply(t, <<line>>)
  BY DEF CommitDecision
<1>3. lines[tx[t].rsv] \in Seq(Line) /\ line \in Line
  BY <1>1 DEF TypeOK, LineBy, Line, StatusAfter, Decisions, Deliveries, Closed
<1>4. lines[tx[t].rsv] \o <<line>> = Append(lines[tx[t].rsv], line)
  BY <1>3, WriteMore
<1> HIDE DEF line
<1>5. \A r \in Rsvs : RsvMove(r) /\ (Same(r) \/ r \in locks[t])
  BY <1>1, <1>2, <1>4, ApplyStory DEF line
<1>6. ExpiredOfferIsPast'
  BY <1>1 DEF HInv, ExpiredOfferIsPast
<1> QED
  BY <1>1, <1>5, <1>6, EndStory

LEMMA CommitDeliveryStory ==
    ASSUME HInv, NEW t \in Txs, CommitDelivery(t)
    PROVE  StepOf(t)
<1>1. /\ TypeOK /\ TxShape(t) /\ tx[t].op \in Deliveries /\ tx[t].op \in Actions
      /\ tx[t].pc = "commit" /\ tx[t].rsv \in Rsvs /\ tx[t].actor \in Members
      /\ End(t) /\ now' = now /\ StatusAfter(tx[t].op) = "delivered"
  BY DEF CommitDelivery, Apply, At, End, HInv, IInv, TxShape, Actions, Deliveries, Requests,
         StatusAfter
<1> DEFINE a == LineBy(t, "confirmed")
           b == LineBy(t, "delivered")
           written == IF tx[t].op = "deliver" THEN <<b>> ELSE <<a, b>>
           so == lines[tx[t].rsv]
<1>2. Apply(t, written)
  BY DEF CommitDelivery
<1>3. so \in Seq(Line) /\ a \in Line /\ b \in Line
  BY <1>1 DEF TypeOK, LineBy, Line, Closed
<1> HIDE DEF a, b, so
<1>4. so \o written = Append(IF tx[t].op = "confirm-and-deliver" THEN Append(so, a) ELSE so, b)
  BY <1>1, <1>3, WriteMore DEF Deliveries
<1> HIDE DEF written
<1>5. \A r \in Rsvs : RsvMove(r) /\ (Same(r) \/ r \in locks[t])
  BY <1>1, <1>2, <1>4, ApplyStory DEF a, b, so
<1>6. \A o \in Offers : /\ offers'[o].producer = offers[o].producer
                        /\ offers'[o].status = offers[o].status
                        /\ offers'[o].until = offers[o].until
  BY <1>1 DEF CommitDelivery, Deduct, TypeOK, OfferRow
<1>7. ExpiredOfferIsPast'
  BY <1>1, <1>6 DEF HInv, ExpiredOfferIsPast
<1> QED
  BY <1>1, <1>5, <1>6, <1>7, EndStory

(* publish, edit, withdraw and offers.expire write offers only, and an     *)
(* offer they leave expired is past its date.                              *)
LEMMA OffersStory ==
    ASSUME HInv, NEW t \in Txs, End(t), UNCHANGED <<rsv, lines, notes>>,
           \A o \in Offers :
             /\ offers[o].status # "absent" => offers'[o].producer = offers[o].producer
             /\ offers'[o].status = "expired" =>
                  \/ offers'[o] = offers[o]
                  \/ offers'[o].until \in Int /\ offers'[o].until < tx[t].at
    PROVE  StepOf(t)
<1>1. /\ tx[t].at <= now /\ now' = now /\ now \in Int /\ tx[t].at \in Int
      /\ ExpiredOfferIsPast
  BY ConstantsAssumption DEF HInv, IInv, TypeOK, TxStory, End, Time, TxState
<1>2. ASSUME NEW o \in Offers, offers'[o].status = "expired"
      PROVE  offers'[o].until # None /\ offers'[o].until < now'
  <2>1. CASE offers'[o] = offers[o]
    BY <1>1, <1>2, <2>1 DEF ExpiredOfferIsPast
  <2>2. CASE offers'[o].until \in Int /\ offers'[o].until < tx[t].at
    BY <1>1, <2>2, IdsAssumption
  <2> QED
    BY <1>2, <2>1, <2>2
<1>3. ExpiredOfferIsPast'
  BY <1>2 DEF ExpiredOfferIsPast
<1> QED
  BY <1>3, EndStory DEF RsvMove, Same

LEMMA OwnOffersStory ==
    ASSUME HInv, NEW t \in Txs,
           (\E o \in Offers : CommitPublish(t, o)) \/ CommitEdit(t) \/ CommitWithdraw(t)
    PROVE  StepOf(t)
<1>1. /\ tx[t] \in TxState /\ offers \in [Offers -> OfferRow]
      /\ TxShape(t)
  BY DEF HInv, IInv, TypeOK
<1>2. ASSUME NEW o \in Offers, CommitPublish(t, o) PROVE StepOf(t)
  <2> DEFINE new == [status |-> "active", producer |-> tx[t].actor,
                     product |-> tx[t].product, quantity |-> tx[t].quantity,
                     until |-> tx[t].until]
  <2>1. /\ offers' = [offers EXCEPT ![o] = new] /\ offers[o].status = "absent"
        /\ End(t) /\ UNCHANGED <<rsv, lines, notes>>
    BY <1>2 DEF CommitPublish
  <2>2. new.status = "active"
    OBVIOUS
  <2> HIDE DEF new
  <2>3. offers'[o] = new /\ \A p \in Offers \ {o} : offers'[p] = offers[p]
    BY <1>1, <2>1
  <2> QED
    BY <2>1, <2>2, <2>3, OffersStory
<1>3. CASE CommitEdit(t)
  <2> DEFINE o == tx[t].offer
             until == IF tx[t].until = Keep THEN offers[o].until ELSE tx[t].until
             quantity == IF tx[t].quantity = Keep THEN offers[o].quantity ELSE tx[t].quantity
             status == StatusAfterEdit(until, tx[t].at)
             row == [offers[o] EXCEPT !.quantity = quantity, !.until = until,
                                      !.status = status]
  <2>1. /\ End(t) /\ UNCHANGED <<rsv, lines, notes>> /\ tx[t].op = "edit"
        /\ offers' = [offers EXCEPT ![o] = Patched(t)]
    BY <1>3 DEF CommitEdit, At
  <2>2. o \in Offers /\ offers[o] \in OfferRow
    BY <1>1, <2>1 DEF TxShape, OnOneOffer, OfferOps
  <2>3. Patched(t) = row
    BY <2>2 DEF Patched, OfferRow
  <2>4. until \in Int \cup {None}
    <3>1. offers[o].until \in Time \cup {None} /\ tx[t].until \in Time \cup {None, Keep}
      BY <1>1, <2>2 DEF OfferRow, TxState
    <3> QED
      BY <3>1 DEF Time
  <2>5. status = "expired" => until \in Int /\ until < tx[t].at
    BY <2>4 DEF StatusAfterEdit
  <2> HIDE DEF until, quantity, status
  <2>6. row.until = until /\ row.status = status /\ row.producer = offers[o].producer
    BY <2>2 DEF OfferRow
  <2> HIDE DEF row
  <2>7. offers'[o] = row /\ \A p \in Offers \ {o} : offers'[p] = offers[p]
    BY <1>1, <2>1, <2>2, <2>3
  <2> QED
    BY <2>1, <2>5, <2>6, <2>7, OffersStory
<1>4. CASE CommitWithdraw(t)
  <2> DEFINE o == tx[t].offer
             row == [offers[o] EXCEPT !.status = "withdrawn"]
  <2>1. /\ End(t) /\ UNCHANGED <<rsv, lines, notes>> /\ tx[t].op = "withdraw"
        /\ offers' = [offers EXCEPT ![o] = row]
    BY <1>4 DEF CommitWithdraw, At
  <2>2. o \in Offers /\ offers[o] \in OfferRow
    BY <1>1, <2>1 DEF TxShape, OnOneOffer, OfferOps
  <2>3. row.status = "withdrawn" /\ row.producer = offers[o].producer
    BY <2>2 DEF OfferRow
  <2> HIDE DEF row
  <2>4. offers'[o] = row /\ \A p \in Offers \ {o} : offers'[p] = offers[p]
    BY <1>1, <2>1, <2>2
  <2> QED
    BY <2>1, <2>3, <2>4, OffersStory
<1> QED
  BY <1>2, <1>3, <1>4

LEMMA CommitOffersExpireStory ==
    ASSUME HInv, NEW t \in Txs, CommitOffersExpire(t)
    PROVE  StepOf(t)
<1>1. /\ tx[t] \in TxState /\ offers \in [Offers -> OfferRow] /\ TxChecks(t)
      /\ End(t) /\ UNCHANGED <<rsv, lines, notes>> /\ tx[t].op = "offers.expire"
      /\ offers' = [o \in Offers |->
                      IF o \in tx[t].rows THEN [offers[o] EXCEPT !.status = "expired"]
                                          ELSE offers[o]]
  BY DEF HInv, IInv, TypeOK, CommitOffersExpire, JobReady, At
<1>2. ASSUME NEW o \in Offers
      PROVE  /\ offers'[o].producer = offers[o].producer
             /\ offers'[o] = offers[o]
                  \/ (offers'[o].until \in Int /\ offers'[o].until < tx[t].at)
  <2>1. offers[o] \in OfferRow
    BY <1>1
  <2>2. CASE o \in tx[t].rows
    <3>1. offers[o].until # None /\ offers[o].until < tx[t].at
      BY <1>1, <2>2 DEF TxChecks, IsDue
    <3>2. offers[o].until \in Int
      BY <2>1, <3>1 DEF OfferRow, Time
    <3>3. offers'[o] = [offers[o] EXCEPT !.status = "expired"]
      BY <1>1, <2>2
    <3>4. offers'[o].producer = offers[o].producer /\ offers'[o].until = offers[o].until
      BY <2>1, <3>3 DEF OfferRow
    <3> QED
      BY <3>1, <3>2, <3>4
  <2>3. CASE o \notin tx[t].rows
    BY <1>1, <2>3
  <2> QED
    BY <2>2, <2>3
<1> QED
  BY <1>1, <1>2, OffersStory

LEMMA CommitExpireStory ==
    ASSUME HInv, NEW t \in Txs, CommitExpire(t)
    PROVE  StepOf(t)
<1>1. /\ TypeOK /\ TxLocks(t) /\ TxChecks(t) /\ tx[t].op = "expire"
      /\ End(t) /\ offers' = offers /\ now' = now /\ ExpiredOfferIsPast
  BY DEF CommitExpire, JobReady, At, End, HInv, IInv
<1>2. ASSUME NEW r \in Rsvs, r \notin tx[t].rows PROVE Same(r)
  BY <1>2 DEF CommitExpire, Same
<1>3. ASSUME NEW r \in Rsvs, r \in tx[t].rows PROVE Lapsed(r) /\ r \in locks[t]
  <2> DEFINE a == [kind |-> "N8", to |-> rsv[r].requester, decision |-> "expired"]
             b == [kind |-> "N8", to |-> rsv[r].producer, decision |-> "expired"]
  <2>1. /\ rsv[r] \in RsvRow /\ notes[r] \in Seq(Note)
        /\ rsv[r].status = "pending" /\ r \in locks[t]
    BY <1>1, <1>3 DEF TypeOK, TxLocks, TxChecks, IsDue
  <2>2. /\ rsv'[r] = [rsv[r] EXCEPT !.status = "expired"]
        /\ lines'[r] = Append(lines[r], [event |-> "expired", actor |-> None])
        /\ notes'[r] = notes[r] \o <<a, b>>
    BY <1>3 DEF CommitExpire
  <2>3. a \in Note /\ b \in Note
    BY <2>1 DEF Note, RsvRow, Closed
  <2>4. notes'[r] = Append(Append(notes[r], a), b)
    <3> HIDE DEF a, b
    <3> QED
      BY <2>1, <2>2, <2>3, WriteMore
  <2>5. rsv'[r].status = "expired" /\ KeepsParties(r) /\ rsv'[r].reminded = rsv[r].reminded
    BY <2>1, <2>2 DEF RsvRow, KeepsParties
  <2> QED
    BY <2>1, <2>2, <2>4, <2>5 DEF Lapsed
<1>4. ExpiredOfferIsPast'
  BY <1>1 DEF ExpiredOfferIsPast
<1>5. \A r \in Rsvs : RsvMove(r) /\ (Same(r) \/ r \in locks[t])
  BY <1>2, <1>3 DEF RsvMove
<1> QED
  BY <1>1, <1>4, <1>5, EndStory

LEMMA CommitRemindStory ==
    ASSUME HInv, NEW t \in Txs, CommitRemind(t)
    PROVE  StepOf(t)
<1>1. /\ TypeOK /\ TxLocks(t) /\ TxChecks(t) /\ tx[t].op = "remind"
      /\ End(t) /\ offers' = offers /\ lines' = lines /\ now' = now /\ ExpiredOfferIsPast
  BY DEF CommitRemind, JobReady, At, End, HInv, IInv
<1>2. ASSUME NEW r \in Rsvs, r \notin tx[t].rows PROVE Same(r)
  BY <1>1, <1>2 DEF CommitRemind, Same
<1>3. ASSUME NEW r \in Rsvs, r \in tx[t].rows PROVE Reminded(r) /\ r \in locks[t]
  <2>1. /\ rsv[r] \in RsvRow /\ rsv[r].status = "pending" /\ ~rsv[r].reminded
        /\ r \in locks[t]
    BY <1>1, <1>3 DEF TypeOK, TxLocks, TxChecks, IsDue
  <2>2. /\ rsv'[r] = [rsv[r] EXCEPT !.reminded = TRUE]
        /\ notes'[r] = Append(notes[r], [kind |-> "N7", to |-> rsv[r].producer,
                                         decision |-> None])
    BY <1>3 DEF CommitRemind
  <2>3. rsv'[r].status = "pending" /\ KeepsParties(r) /\ rsv'[r].reminded
    BY <2>1, <2>2 DEF RsvRow, KeepsParties
  <2> QED
    BY <1>1, <2>1, <2>2, <2>3 DEF Reminded
<1>4. ExpiredOfferIsPast'
  BY <1>1 DEF ExpiredOfferIsPast
<1>5. \A r \in Rsvs : RsvMove(r) /\ (Same(r) \/ r \in locks[t])
  BY <1>2, <1>3 DEF RsvMove
<1> QED
  BY <1>1, <1>4, <1>5, EndStory

-----------------------------------------------------------------------------
(* Every step of a transaction is one of these.                            *)
LEMMA StepOfTx ==
    ASSUME HInv, NEW t \in Txs, Request(t) \/ Job(t) \/ Rollback(t)
    PROVE  StepOf(t)
<1>1. CASE Request(t)
  BY <1>1, BeginRequestStory, LockMemberStory, LockRsvStory, LockOfferStory, CheckStory,
     CommitCreateStory, OwnOffersStory, CommitDecisionStory, CommitDeliveryStory DEF Request
<1>2. CASE Job(t)
  BY <1>2, BeginJobStory, JobStory, CommitExpireStory, CommitRemindStory,
     CommitOffersExpireStory DEF Job, Jobs
<1> QED
  BY <1>1, <1>2, RollbackStory

(* The surroundings move no reservation; a member whose row a transaction  *)
(* has locked is not suspended under it.                                   *)
LEMMA OutsideStory ==
    ASSUME HInv, Tick \/ (\E m \in Suspendable : SetApproved(m)) \/ UNCHANGED vars
    PROVE  /\ UNCHANGED <<offers, rsv, lines, notes, tx, locks>>
           /\ (\A t \in Txs : TxStory(t)') /\ (\A r \in Rsvs : RsvStory(r)')
           /\ ExpiredOfferIsPast'
<1>1. UNCHANGED <<offers, rsv, lines, notes, tx, locks>> /\ now' >= now
      /\ now \in Int /\ now' \in Int
  <2>1. now \in Int
    BY ConstantsAssumption DEF HInv, IInv, TypeOK, Time
  <2> QED
    BY <2>1 DEF Tick, SetApproved, vars, tables
<1>2. ASSUME NEW t \in Txs PROVE TxStory(t)'
  <2>1. TxStory(t) /\ tx[t].at \in Int
    BY ConstantsAssumption DEF HInv, IInv, TypeOK, TxState, Time
  <2>2. tx[t].at <= now'
    BY <1>1, <2>1 DEF TxStory
  <2>3. (tx[t].op \in Requests /\ tx[t].pc # "member") =>
          tx[t].actor \in locks[t] /\ tx[t].actor \in approved'
    BY <2>1 DEF TxStory, Tick, SetApproved, Free, vars
  <2> QED
    BY <1>1, <2>1, <2>2, <2>3 DEF TxStory
<1>3. ASSUME NEW r \in Rsvs PROVE RsvStory(r)'
  <2>1. RsvMove(r) /\ TypeOK /\ RowsShape /\ RsvStory(r)
    BY <1>1 DEF HInv, IInv, RsvMove, Same
  <2> QED
    BY <2>1, LinesKept, NotesKept DEF RsvStory
<1>4. ExpiredOfferIsPast'
  <2> SUFFICES ASSUME NEW o \in Offers, offers[o].status = "expired"
               PROVE  offers[o].until # None /\ offers[o].until < now'
    BY <1>1 DEF ExpiredOfferIsPast
  <2>1. offers[o].until # None /\ offers[o].until < now /\ offers[o] \in OfferRow
    BY DEF HInv, ExpiredOfferIsPast, IInv, TypeOK
  <2>2. offers[o].until \in Int
    BY <2>1, ConstantsAssumption DEF OfferRow, Time
  <2> QED
    BY <1>1, <2>1, <2>2
<1> QED
  BY <1>1, <1>2, <1>3, <1>4

LEMMA InitHInv == Init => HInv
<1> SUFFICES ASSUME Init PROVE HInv
  OBVIOUS
<1>1. \A t \in Txs : TxStory(t)
  BY DEF Init, Idle, TxStory, Requests, OfferOps, Actions, Decisions, Deliveries
<1>2. ASSUME NEW r \in Rsvs PROVE RsvStory(r)
  <2>1. rsv[r].status = "absent" /\ lines[r] = << >> /\ notes[r] = << >>
    BY DEF Init, NoRsv
  <2>2. Events(r) = << >>
    BY <2>1 DEF Events
  <2>3. NotesStory(r)
    BY <2>1 DEF NotesStory, RemindedOnce, Closed
  <2> QED
    BY <2>1, <2>2, <2>3, StoriesOf DEF RsvStory
<1>3. ExpiredOfferIsPast
  BY DEF Init, NoOffer, ExpiredOfferIsPast
<1> QED
  BY <1>1, <1>2, <1>3, InitIInv DEF HInv

LEMMA NextHInv == HInv /\ [Next]_vars => HInv'
<1> SUFFICES ASSUME HInv, [Next]_vars PROVE HInv'
  OBVIOUS
<1>1. IInv'
  BY NextIInv DEF HInv
<1>2. ASSUME NEW t \in Txs, Request(t) \/ Job(t) \/ Rollback(t) PROVE HInv'
  BY <1>1, <1>2, StepOfTx, StoryKept
<1>3. CASE Tick \/ (\E m \in Suspendable : SetApproved(m)) \/ UNCHANGED vars
  BY <1>1, <1>3, OutsideStory DEF HInv
<1> QED
  BY <1>2, <1>3 DEF Next

(* The invariant of the history: threads, notifications, expired offers.   *)
THEOREM HistoryInvariance == Spec => []HInv
BY InitHInv, NextHInv, PTL DEF Spec

(* Whatever runs at the same time, each thread tells one path of the       *)
(* machine and ends where the reservation's row stands.                    *)
THEOREM ThreadsTellStatus == Spec => []ThreadTellsStatus
<1>1. HInv => ThreadTellsStatus
  BY DEF HInv, RsvStory, ThreadTellsStatus
<1> QED
  BY <1>1, HistoryInvariance, PTL

(* Each party of a closed reservation, the one who closed it excepted, is  *)
(* told once how it ended, and of no other ending.                         *)
THEOREM EachEndingToldOnce == Spec => []ClosingToldOnce
<1>1. HInv => ClosingToldOnce
  BY DEF HInv, RsvStory, NotesStory, ClosingToldOnce
<1> QED
  BY <1>1, HistoryInvariance, PTL

(* No producer is reminded twice, or after the reservation was answered.   *)
THEOREM RemindersOnce == Spec => []RemindedOnceWhilePending
<1>1. HInv => RemindedOnceWhilePending
  BY DEF HInv, RsvStory, NotesStory, RemindedOnceWhilePending
<1> QED
  BY <1>1, HistoryInvariance, PTL

(* No offer stands expired before its date has passed.                     *)
THEOREM ExpiredIsPast == Spec => []ExpiredOfferIsPast
<1>1. HInv => ExpiredOfferIsPast
  BY DEF HInv
<1> QED
  BY <1>1, HistoryInvariance, PTL

(* Every reservation takes one of the five moves, whoever takes the step.  *)
LEMMA EveryMove ==
    ASSUME HInv, [Next]_vars, NEW r \in Rsvs
    PROVE  RsvMove(r)
<1>1. ASSUME NEW t \in Txs, Request(t) \/ Job(t) \/ Rollback(t) PROVE RsvMove(r)
  BY <1>1, StepOfTx DEF StepOf
<1>2. CASE Tick \/ (\E m \in Suspendable : SetApproved(m)) \/ UNCHANGED vars
  BY <1>2, OutsideStory DEF RsvMove, Same
<1> QED
  BY <1>1, <1>2 DEF Next

(* A status moves along the reservation machine only, and what is closed,  *)
(* its thread and its notifications included, never changes again.         *)
THEOREM MachineFollowed == Spec => FollowsTheMachine
<1>1. ASSUME HInv, [Next]_vars, NEW r \in Rsvs
      PROVE  /\ rsv'[r].status # rsv[r].status => <<rsv[r].status, rsv'[r].status>> \in Moves
             /\ rsv[r].status \in Closed => UNCHANGED <<rsv[r], lines[r], notes[r]>>
  <2>1. CASE Same(r)
    BY <2>1 DEF Same
  <2>2. CASE Created(r)
    BY <2>2 DEF Created, Moves, Closed
  <2>3. CASE Acted(r)
    <3>1. rsv'[r].status \in ActedFrom(rsv[r].status)
      BY <2>3 DEF Acted, ActedBy
    <3> QED
      BY <3>1 DEF ActedFrom, Moves, Closed
  <2>4. CASE Lapsed(r)
    BY <2>4 DEF Lapsed, Moves, Closed
  <2>5. CASE Reminded(r)
    BY <2>5 DEF Reminded, Closed
  <2> QED
    BY <1>1, EveryMove, <2>1, <2>2, <2>3, <2>4, <2>5 DEF RsvMove
<1>2. HInv /\ [Next]_vars =>
        [\A r \in Rsvs :
           /\ rsv'[r].status # rsv[r].status => <<rsv[r].status, rsv'[r].status>> \in Moves
           /\ rsv[r].status \in Closed => UNCHANGED <<rsv[r], lines[r], notes[r]>>]_vars
  BY <1>1
<1> QED
  BY <1>2, HistoryInvariance, PTL DEF Spec, FollowsTheMachine

(* Beginning a request writes nothing.                                     *)
LEMMA BeginsQuietly ==
    ASSUME NEW t, NEW m
    PROVE  /\ \A o, q : BeginCreate(t, m, o, q) => UNCHANGED tables
           /\ \A r, action : BeginAct(t, m, r, action) => UNCHANGED tables
           /\ \A p, q, u : BeginPublish(t, m, p, q, u) => UNCHANGED tables
           /\ \A o, q, u : BeginEdit(t, m, o, q, u) => UNCHANGED tables
           /\ \A o : BeginWithdraw(t, m, o) => UNCHANGED tables
<1>1. \A s : Begin(t, s) => UNCHANGED tables
  BY DEF Begin
<1>2. \A o, q : BeginCreate(t, m, o, q) => UNCHANGED tables
  BY <1>1 DEF BeginCreate
<1>3. \A r, action : BeginAct(t, m, r, action) => UNCHANGED tables
  BY <1>1 DEF BeginAct
<1>4. \A p, q, u : BeginPublish(t, m, p, q, u) => UNCHANGED tables
  BY <1>1 DEF BeginPublish
<1>5. \A o, q, u : BeginEdit(t, m, o, q, u) => UNCHANGED tables
  BY <1>1 DEF BeginEdit
<1>6. \A o : BeginWithdraw(t, m, o) => UNCHANGED tables
  BY <1>1 DEF BeginWithdraw
<1> QED
  BY <1>2, <1>3, <1>4, <1>5, <1>6

(* The steps of a transaction before its commit.                           *)
Reads(t) ==
    \/ BeginRequest(t) \/ LockMember(t) \/ LockRsv(t) \/ LockOffer(t)
    \/ CheckCreate(t) \/ CheckAct(t) \/ CheckPublish(t) \/ CheckEdit(t) \/ CheckWithdraw(t)

JobReads(t) ==
    \/ \E job \in RsvJobs \cup {"offers.expire"} : BeginJob(t, job)
    \/ Scan(t)
    \/ \E x \in Rsvs \cup Offers : LockRow(t, x)

LEMMA ReadsOnly ==
    ASSUME NEW t, Reads(t) \/ JobReads(t)
    PROVE  UNCHANGED tables
<1>1. ASSUME BeginRequest(t) PROVE UNCHANGED tables
  BY <1>1, BeginsQuietly DEF BeginRequest
<1>2. ASSUME LockMember(t) \/ LockRsv(t) \/ LockOffer(t) PROVE UNCHANGED tables
  BY <1>2 DEF LockMember, LockRsv, LockOffer
<1>3. ASSUME CheckCreate(t) \/ CheckAct(t) \/ CheckPublish(t) PROVE UNCHANGED tables
  BY <1>3 DEF CheckCreate, CheckAct, CheckPublish
<1>4. ASSUME CheckEdit(t) \/ CheckWithdraw(t) PROVE UNCHANGED tables
  BY <1>4 DEF CheckEdit, CheckWithdraw
<1>5. ASSUME NEW job, BeginJob(t, job) PROVE UNCHANGED tables
  BY <1>5 DEF BeginJob, Begin
<1>6. ASSUME Scan(t) PROVE UNCHANGED tables
  BY <1>6 DEF Scan
<1>7. ASSUME NEW x, LockRow(t, x) PROVE UNCHANGED tables
  BY <1>7 DEF LockRow
<1> QED
  BY <1>1, <1>2, <1>3, <1>4, <1>5, <1>6, <1>7 DEF Reads, JobReads

(* Only a commit writes, so the transaction is past its lock on the actor. *)
LEMMA WritesAtCommit ==
    ASSUME HInv, [Next]_vars, NEW t \in Txs, tables' # tables, tx'[t] # tx[t]
    PROVE  (Request(t) \/ Job(t)) /\ tx[t].pc # "member"
<1>1. PICK u \in Txs : Request(u) \/ Job(u)
  BY DEF Next, vars, Rollback, Tick, SetApproved
<1>2. StepOf(u)
  BY <1>1, StepOfTx
<1>3. u = t
  BY <1>2 DEF StepOf, HInv, IInv, TypeOK
<1>4. ~Reads(t) /\ ~JobReads(t)
  BY ReadsOnly
<1>5. CASE Request(t)
  <2>1. \/ \E r \in Rsvs : CommitCreate(t, r)
        \/ \E o \in Offers : CommitPublish(t, o)
        \/ CommitDecision(t) \/ CommitDelivery(t) \/ CommitEdit(t) \/ CommitWithdraw(t)
    BY <1>4, <1>5 DEF Request, Reads
  <2>2. tx[t].pc = "commit"
    BY <2>1 DEF CommitCreate, CommitPublish, CommitDecision, CommitDelivery, CommitEdit,
                CommitWithdraw, At
  <2> QED
    BY <1>5, <2>2
<1>6. CASE Job(t)
  <2>1. CommitExpire(t) \/ CommitRemind(t) \/ CommitOffersExpire(t)
    BY <1>4, <1>6 DEF Job, JobReads
  <2>2. tx[t].pc = "rows"
    BY <2>1 DEF CommitExpire, CommitRemind, CommitOffersExpire, JobReady, At
  <2> QED
    BY <1>6, <2>2
<1> QED
  BY <1>1, <1>3, <1>5, <1>6

(* Whatever a member's request writes, offers, reservations, lines and     *)
(* notifications, it writes while that member is approved: the request has *)
(* locked the member's row, and a suspension waits for it.                 *)
THEOREM ApprovedWrite == Spec => OnlyApprovedAct
<1>1. ASSUME HInv, [Next]_vars, NEW r \in Rsvs, lines'[r] # lines[r]
      PROVE  lines'[r][Len(lines'[r])].actor \in approved \cup {None}
  <2>1. lines[r] \in Seq(Line) /\ RsvMove(r)
    BY <1>1, EveryMove DEF HInv, IInv, TypeOK
  <2>2. ASSUME NEW so \in Seq(Line), NEW l \in Line, lines'[r] = Append(so, l)
        PROVE  lines'[r][Len(lines'[r])].actor = l.actor
    BY <2>2, OneMoreEvent
  <2>3. CASE Created(r)
    <3>1. rsv'[r].requester \in Members \cap approved
      BY <2>3 DEF Created
    <3>2. [event |-> "created", actor |-> rsv'[r].requester] \in Line
      BY <3>1 DEF Line
    <3> QED
      BY <2>1, <2>2, <2>3, <3>1, <3>2 DEF Created
  <2>4. CASE Acted(r)
    <3> PICK m \in Members : ActedBy(r, m)
      BY <2>4 DEF Acted
    <3> DEFINE to == rsv'[r].status
               so == IF rsv[r].status = "pending" /\ to = "delivered"
                       THEN Append(lines[r], [event |-> "confirmed", actor |-> m])
                       ELSE lines[r]
    <3>1. to \in {"confirmed", "rejected", "cancelled", "delivered"} /\ m \in approved
      BY DEF ActedBy, ActedFrom
    <3>2. [event |-> "confirmed", actor |-> m] \in Line /\ [event |-> to, actor |-> m] \in Line
      BY <3>1 DEF Line, Closed
    <3>3. so \in Seq(Line)
      BY <2>1, <3>2, OneMoreEvent
    <3>4. lines'[r] = Append(so, [event |-> to, actor |-> m])
      BY DEF ActedBy
    <3> HIDE DEF so
    <3> QED
      BY <2>2, <3>1, <3>2, <3>3, <3>4
  <2>5. CASE Lapsed(r)
    <3>1. [event |-> "expired", actor |-> None] \in Line
      BY DEF Line, Closed
    <3> QED
      BY <2>1, <2>2, <2>5, <3>1 DEF Lapsed
  <2> QED
    BY <1>1, <2>1, <2>3, <2>4, <2>5 DEF RsvMove, Same, Reminded
<1>2. ASSUME HInv, [Next]_vars, NEW t \in Txs, tables' # tables, tx'[t] # tx[t],
             tx[t].op \in Requests
      PROVE  tx[t].actor \in approved
  BY <1>2, WritesAtCommit DEF HInv, TxStory
<1>3. HInv /\ [Next]_vars =>
        [/\ \A t \in Txs :
              (tables' # tables /\ tx'[t] # tx[t] /\ tx[t].op \in Requests)
                => tx[t].actor \in approved
         /\ \A r \in Rsvs : lines'[r] # lines[r] =>
              lines'[r][Len(lines'[r])].actor \in approved \cup {None}]_vars
  BY <1>1, <1>2
<1> QED
  BY <1>3, HistoryInvariance, PTL DEF Spec, OnlyApprovedAct

-----------------------------------------------------------------------------
(* One active offer.  A step makes none active but its own producer's, and *)
(* whoever else has counted has locked another producer's row.             *)
StaysActive(o) ==
    /\ offers[o].status = "active"
    /\ offers'[o].producer = offers[o].producer /\ offers'[o].product = offers[o].product

OnlyOf(m) ==
    \A o \in Offers : offers'[o].status = "active" =>
        StaysActive(o) \/ offers'[o].producer = m

Counting(t) == tx[t].pc = "commit" /\ tx[t].op \in {"publish", "edit"}

LEMMA OthersCount ==
    ASSUME NEW m, OnlyOf(m), NEW u \in Txs, tx'[u] = tx[u], TxCounts(u),
           Counting(u) => tx[u].actor # m,
           At(u, "commit", {"edit"}) => offers'[tx[u].offer] = offers[tx[u].offer]
    PROVE  TxCounts(u)'
<1>1. ASSUME NEW a, NEW p, NEW x, a # m, NoOtherActive(a, p, x)
      PROVE  NoOtherActive(a, p, x)'
  BY <1>1 DEF NoOtherActive, OnlyOf, StaysActive
<1>2. ASSUME At(u, "commit", {"publish"})'
      PROVE  NoOtherActive(tx[u].actor, tx[u].product, None)'
  <2>1. At(u, "commit", {"publish"}) /\ tx[u].actor # m
    BY <1>2 DEF At, Counting
  <2>2. NoOtherActive(tx[u].actor, tx[u].product, None)
    BY <2>1 DEF TxCounts
  <2> DEFINE a == tx[u].actor
             p == tx[u].product
  <2>3. a' = a /\ p' = p
    OBVIOUS
  <2>4. \A o \in Offers \ {None} :
          ~(offers'[o].status = "active" /\ offers'[o].producer = a /\ offers'[o].product = p)
    BY <2>1, <2>2 DEF NoOtherActive, OnlyOf, StaysActive
  <2> QED
    BY <2>3, <2>4 DEF NoOtherActive
<1>3. ASSUME At(u, "commit", {"edit"})'
      PROVE  /\ offers'[tx[u].offer].producer = tx[u].actor
             /\ Patched(u)'.status = "active" =>
                  NoOtherActive(tx[u].actor, offers[tx[u].offer].product, tx[u].offer)'
  <2> DEFINE a == tx[u].actor
             x == tx[u].offer
             p == offers[x].product
  <2>1. At(u, "commit", {"edit"}) /\ a # m /\ offers'[x] = offers[x]
    BY <1>3 DEF At, Counting
  <2>2. offers[x].producer = a /\ (Patched(u).status = "active" => NoOtherActive(a, p, x))
    BY <2>1 DEF TxCounts
  <2>3. a' = a /\ x' = x /\ p' = p /\ Patched(u)' = Patched(u)
    BY <2>1 DEF Patched
  <2>4. NoOtherActive(a, p, x) =>
          \A o \in Offers \ {x} :
            ~(offers'[o].status = "active" /\ offers'[o].producer = a /\ offers'[o].product = p)
    BY <2>1 DEF NoOtherActive, OnlyOf, StaysActive
  <2> QED
    BY <2>1, <2>2, <2>3, <2>4 DEF NoOtherActive
<1> QED
  BY <1>2, <1>3 DEF TxCounts

(* At most one offer becomes active, and where it does no other of its     *)
(* producer and product was.                                               *)
LEMMA StillOne ==
    ASSUME OneActiveOffer, NEW o \in Offers,
           \A p \in Offers \ {o} : offers'[p].status = "active" => StaysActive(p),
           offers'[o].status = "active" =>
             NoOtherActive(offers'[o].producer, offers'[o].product, o)
    PROVE  OneActiveOffer'
<1> SUFFICES ASSUME NEW x \in Offers, NEW y \in Offers \ {x},
                    offers'[x].status = "active", offers'[y].status = "active",
                    offers'[y].producer = offers'[x].producer,
                    offers'[y].product = offers'[x].product
             PROVE  FALSE
  BY DEF OneActiveOffer, NoOtherActive
<1>1. CASE x = o
  BY <1>1 DEF NoOtherActive, StaysActive
<1>2. CASE y = o
  BY <1>2 DEF NoOtherActive, StaysActive
<1>3. CASE x # o /\ y # o
  BY <1>3 DEF OneActiveOffer, NoOtherActive, StaysActive
<1> QED
  BY <1>1, <1>2, <1>3

LEMMA NoneNew ==
    ASSUME OneActiveOffer, \A o \in Offers : offers'[o].status = "active" => StaysActive(o)
    PROVE  OneActiveOffer' /\ \A m : OnlyOf(m)
<1>1. OneActiveOffer'
  BY DEF OneActiveOffer, NoOtherActive, StaysActive
<1> QED
  BY <1>1 DEF OnlyOf

(* What every other transaction has counted stays counted.                 *)
LEMMA AllCount ==
    ASSUME OInv, NEW t \in Txs, NEW m, OnlyOf(m), TxCounts(t)',
           \A u \in Txs \ {t} : tx'[u] = tx[u],
           \A u \in Txs \ {t} : Counting(u) => tx[u].actor # m,
           \A o \in Offers :
             offers'[o] = offers[o] \/ offers[o].status = "absent" \/ o \in locks[t]
    PROVE  \A u \in Txs : TxCounts(u)'
<1>1. ASSUME NEW u \in Txs \ {t} PROVE TxCounts(u)'
  <2>1. TxCounts(u) /\ TxShape(u) /\ TxLocks(u) /\ locks[t] \cap locks[u] = {}
    BY DEF OInv, HInv, IInv, LocksDisjoint
  <2>2. ASSUME At(u, "commit", {"edit"}) PROVE offers'[tx[u].offer] = offers[tx[u].offer]
    <3>1. tx[u].op \in OnOneOffer /\ tx[u].pc = "commit"
      BY <2>2 DEF At, OnOneOffer, OfferOps
    <3>2. /\ tx[u].offer \in Offers /\ offers[tx[u].offer].status # "absent"
          /\ tx[u].offer \in locks[u]
      BY <2>1, <3>1 DEF TxShape, TxLocks
    <3> QED
      BY <2>1, <3>2
  <2> QED
    BY <2>1, <2>2, OthersCount
<1> QED
  BY <1>1

(* A step that makes no offer active.                                      *)
LEMMA NoneCounts ==
    ASSUME OInv, NEW t \in Txs, TxCounts(t)',
           \A u \in Txs \ {t} : tx'[u] = tx[u],
           \A o \in Offers : offers'[o].status = "active" => StaysActive(o),
           \A o \in Offers :
             offers'[o] = offers[o] \/ offers[o].status = "absent" \/ o \in locks[t]
    PROVE  OneActiveOffer' /\ \A u \in Txs : TxCounts(u)'
<1>1. OneActiveOffer' /\ OnlyOf(None)
  BY NoneNew DEF OInv
<1>2. ASSUME NEW u \in Txs, Counting(u) PROVE tx[u].actor # None
  <2>1. tx[u].op \in Requests
    BY <1>2 DEF Counting, Requests, OfferOps
  <2>2. tx[u].actor \in Members
    BY <2>1 DEF OInv, HInv, IInv, TxShape
  <2> QED
    BY <2>2, IdsAssumption
<1> QED
  BY <1>1, <1>2, AllCount

(* A commit leaves its transaction idle.                                   *)
LEMMA EndCounts ==
    ASSUME TypeOK, NEW t \in Txs, End(t)
    PROVE  TxCounts(t)' /\ \A u \in Txs \ {t} : tx'[u] = tx[u]
<1>1. tx'[t] = Idle /\ \A u \in Txs \ {t} : tx'[u] = tx[u]
  BY DEF End, TypeOK
<1>2. ~At(t, "commit", {"publish"})' /\ ~At(t, "commit", {"edit"})'
  BY <1>1 DEF At, Idle
<1> QED
  BY <1>1, <1>2 DEF TxCounts

(* The steps before a commit: only publish and edit go on to one that      *)
(* counts, with what they have just read.                                  *)
LEMMA ReadsCount ==
    ASSUME OInv, NEW t \in Txs, Reads(t) \/ JobReads(t), StepOf(t)
    PROVE  OneActiveOffer' /\ \A u \in Txs : TxCounts(u)'
<1>1. /\ offers' = offers /\ tx[t] \in TxState /\ tx \in [Txs -> TxState] /\ TypeOK
      /\ TxShape(t) /\ TxCounts(t) /\ OneActiveOffer
  BY ReadsOnly DEF tables, OInv, HInv, IInv, TypeOK
<1>2. ASSUME tx'[t].pc # "commit" \/ tx'[t].op \notin {"publish", "edit"}
      PROVE  TxCounts(t)'
  BY <1>2 DEF TxCounts, At
<1>3. ASSUME NEW state, Begin(t, state), state.pc # "commit" PROVE TxCounts(t)'
  BY <1>1, <1>2, <1>3 DEF Begin
<1>4. ASSUME BeginRequest(t) PROVE TxCounts(t)'
  <2>1. ASSUME NEW m, NEW o, NEW q, BeginCreate(t, m, o, q) PROVE TxCounts(t)'
    BY <1>3, <2>1 DEF BeginCreate, Idle
  <2>2. ASSUME NEW m, NEW r, NEW action, BeginAct(t, m, r, action) PROVE TxCounts(t)'
    BY <1>3, <2>2 DEF BeginAct, Idle
  <2>3. ASSUME NEW m, NEW p, NEW q, NEW v, BeginPublish(t, m, p, q, v) PROVE TxCounts(t)'
    BY <1>3, <2>3 DEF BeginPublish, Idle
  <2>4. ASSUME NEW m, NEW o, NEW q, NEW v, BeginEdit(t, m, o, q, v) PROVE TxCounts(t)'
    BY <1>3, <2>4 DEF BeginEdit, Idle
  <2>5. ASSUME NEW m, NEW o, BeginWithdraw(t, m, o) PROVE TxCounts(t)'
    BY <1>3, <2>5 DEF BeginWithdraw, Idle
  <2> QED
    BY <1>4, <2>1, <2>2, <2>3, <2>4, <2>5 DEF BeginRequest
<1>5. ASSUME NEW job, BeginJob(t, job) PROVE TxCounts(t)'
  BY <1>3, <1>5 DEF BeginJob, Idle
<1>6. ASSUME NEW pc, Goto(t, pc), pc # "commit" \/ tx[t].op \notin {"publish", "edit"}
      PROVE  TxCounts(t)'
  <2>1. tx'[t] = [tx[t] EXCEPT !.pc = pc]
    BY <1>1, <1>6 DEF Goto
  <2>2. tx'[t].pc = pc /\ tx'[t].op = tx[t].op
    BY <1>1, <2>1 DEF TxState
  <2> QED
    BY <1>2, <1>6, <2>2
<1>7. ASSUME LockMember(t) \/ LockRsv(t) PROVE TxCounts(t)'
  <2>1. \E pc \in {"rsv", "check", "offer"} : Goto(t, pc)
    BY <1>7 DEF LockMember, LockRsv
  <2> QED
    BY <1>6, <2>1
<1>8. ASSUME LockOffer(t) PROVE TxCounts(t)'
  <2>1. Goto(t, "check") \/ (Goto(t, "commit") /\ tx[t].op \in Deliveries)
    BY <1>8 DEF LockOffer
  <2> QED
    BY <1>6, <2>1 DEF Deliveries
<1>9. ASSUME CheckCreate(t) \/ CheckAct(t) \/ CheckWithdraw(t) PROVE TxCounts(t)'
  <2>1. /\ Goto(t, "commit") \/ Goto(t, "offer")
        /\ tx[t].op \in {"create", "withdraw"} \cup Actions
    BY <1>9 DEF CheckCreate, CheckAct, CheckWithdraw, At
  <2> QED
    BY <1>6, <2>1 DEF Actions, Decisions, Deliveries
<1>10. ASSUME Goto(t, "commit")
       PROVE  /\ tx'[t].op = tx[t].op /\ tx'[t].actor = tx[t].actor
              /\ tx'[t].product = tx[t].product /\ tx'[t].offer = tx[t].offer
              /\ tx'[t].quantity = tx[t].quantity /\ tx'[t].until = tx[t].until
              /\ tx'[t].at = tx[t].at
  <2>1. tx'[t] = [tx[t] EXCEPT !.pc = "commit"]
    BY <1>1, <1>10 DEF Goto
  <2> QED
    BY <1>1, <2>1 DEF TxState
<1>11. ASSUME CheckPublish(t) PROVE TxCounts(t)'
  <2>1. /\ tx[t].op = "publish" /\ Goto(t, "commit")
        /\ NoOtherActive(tx[t].actor, tx[t].product, None)
    BY <1>11 DEF CheckPublish, At
  <2>2. NoOtherActive(tx[t].actor, tx[t].product, None)'
    BY <1>1, <1>10, <2>1 DEF NoOtherActive
  <2>3. ~At(t, "commit", {"edit"})'
    BY <1>10, <2>1 DEF At
  <2> QED
    BY <2>2, <2>3 DEF TxCounts
<1>12. ASSUME CheckEdit(t) PROVE TxCounts(t)'
  <2> DEFINE o == tx[t].offer
  <2>1. /\ tx[t].op = "edit" /\ Goto(t, "commit") /\ offers[o].producer = tx[t].actor
        /\ (Patched(t).status = "active" /\ offers[o].status # "active")
             => NoOtherActive(tx[t].actor, offers[o].product, o)
    BY <1>12 DEF CheckEdit, At
  <2>2. o \in Offers
    BY <1>1, <2>1 DEF TxShape, OnOneOffer, OfferOps
  <2>3. Patched(t).status = "active" => NoOtherActive(tx[t].actor, offers[o].product, o)
    BY <1>1, <2>1, <2>2 DEF OneActiveOffer
  <2>4. Patched(t)' = Patched(t)
    BY <1>1, <1>10, <2>1 DEF Patched
  <2>5. NoOtherActive(tx[t].actor, offers[o].product, o) =>
          NoOtherActive(tx[t].actor, offers[o].product, o)'
    BY <1>1, <1>10, <2>1 DEF NoOtherActive
  <2>6. offers'[tx'[t].offer].producer = tx'[t].actor
    BY <1>1, <1>10, <2>1
  <2>7. ~At(t, "commit", {"publish"})'
    BY <1>10, <2>1 DEF At
  <2> QED
    BY <2>3, <2>4, <2>5, <2>6, <2>7 DEF TxCounts
<1>13. ASSUME Scan(t) \/ \E x \in Rsvs \cup Offers : LockRow(t, x) PROVE TxCounts(t)'
  <2>1. CASE Scan(t)
    BY <1>1, <1>2, <2>1 DEF Scan, TxState
  <2>2. ASSUME NEW x, LockRow(t, x) PROVE TxCounts(t)'
    <3>1. tx[t].pc = "rows" /\ tx' = [tx EXCEPT
                ![t].todo = @ \ {x}, ![t].rows = IF StillDue(t, x) THEN @ \cup {x} ELSE @]
      BY <2>2 DEF LockRow
    <3>2. tx'[t] = [tx[t] EXCEPT !.todo = @ \ {x},
                                 !.rows = IF StillDue(t, x) THEN @ \cup {x} ELSE @]
      BY <1>1, <3>1
    <3>3. tx'[t].pc = "rows"
      BY <1>1, <3>1, <3>2 DEF TxState
    <3> QED
      BY <1>2, <3>3
  <2> QED
    BY <1>13, <2>1, <2>2
<1>14. TxCounts(t)'
  BY <1>4, <1>5, <1>7, <1>8, <1>9, <1>11, <1>12, <1>13 DEF Reads, JobReads
<1> QED
  BY <1>1, <1>14, NoneCounts DEF StepOf, StaysActive

(* Two requests past their lock on the actor are of two members.           *)
LEMMA ActorsDiffer ==
    ASSUME HInv, NEW t \in Txs, NEW u \in Txs \ {t}, Counting(t), Counting(u)
    PROVE  tx[u].actor # tx[t].actor
<1>1. /\ tx[t].op \in Requests /\ tx[u].op \in Requests
      /\ tx[t].pc # "member" /\ tx[u].pc # "member"
  BY DEF Counting, Requests, OfferOps
<1>2. tx[t].actor \in locks[t] /\ tx[u].actor \in locks[u] /\ locks[t] \cap locks[u] = {}
  BY <1>1 DEF HInv, IInv, TxStory, LocksDisjoint
<1> QED
  BY <1>2

LEMMA PublishCounts ==
    ASSUME OInv, NEW t \in Txs, NEW o \in Offers, CommitPublish(t, o)
    PROVE  OneActiveOffer' /\ \A u \in Txs : TxCounts(u)'
<1> DEFINE new == [status |-> "active", producer |-> tx[t].actor,
                   product |-> tx[t].product, quantity |-> tx[t].quantity,
                   until |-> tx[t].until]
<1>1. /\ tx[t].pc = "commit" /\ tx[t].op = "publish" /\ offers[o].status = "absent" /\ End(t)
      /\ offers \in [Offers -> OfferRow] /\ offers' = [offers EXCEPT ![o] = new]
      /\ HInv /\ TypeOK /\ OneActiveOffer /\ TxCounts(t)
  BY DEF CommitPublish, At, OInv, HInv, IInv, TypeOK
<1>2. new.producer = tx[t].actor /\ new.product = tx[t].product
  OBVIOUS
<1> HIDE DEF new
<1>3. offers'[o] = new /\ \A p \in Offers \ {o} : offers'[p] = offers[p]
  BY <1>1
<1>4. NoOtherActive(tx[t].actor, tx[t].product, o)
  BY <1>1, IdsAssumption DEF TxCounts, At, NoOtherActive
<1>5. OneActiveOffer'
  BY <1>1, <1>2, <1>3, <1>4, StillOne DEF StaysActive
<1>6. OnlyOf(tx[t].actor)
  BY <1>2, <1>3 DEF OnlyOf, StaysActive
<1>7. TxCounts(t)' /\ \A u \in Txs \ {t} : tx'[u] = tx[u]
  BY <1>1, EndCounts
<1>8. \A u \in Txs \ {t} : Counting(u) => tx[u].actor # tx[t].actor
  BY <1>1, ActorsDiffer DEF Counting
<1> QED
  BY <1>1, <1>3, <1>5, <1>6, <1>7, <1>8, AllCount

LEMMA EditCounts ==
    ASSUME OInv, NEW t \in Txs, CommitEdit(t)
    PROVE  OneActiveOffer' /\ \A u \in Txs : TxCounts(u)'
<1> DEFINE o == tx[t].offer
<1>1. /\ tx[t].pc = "commit" /\ tx[t].op = "edit" /\ End(t)
      /\ offers \in [Offers -> OfferRow] /\ offers' = [offers EXCEPT ![o] = Patched(t)]
      /\ HInv /\ TypeOK /\ OneActiveOffer /\ TxCounts(t) /\ TxShape(t) /\ TxLocks(t)
  BY DEF CommitEdit, At, OInv, HInv, IInv, TypeOK
<1>2. o \in Offers /\ o \in locks[t] /\ offers[o] \in OfferRow
  BY <1>1 DEF TxShape, TxLocks, OnOneOffer, OfferOps
<1>3. Patched(t).producer = offers[o].producer /\ Patched(t).product = offers[o].product
  BY <1>2 DEF Patched, OfferRow
<1>4. offers'[o] = Patched(t) /\ \A p \in Offers \ {o} : offers'[p] = offers[p]
  BY <1>1, <1>2
<1>5. /\ offers[o].producer = tx[t].actor
      /\ Patched(t).status = "active" => NoOtherActive(tx[t].actor, offers[o].product, o)
  BY <1>1 DEF TxCounts, At
<1>6. OneActiveOffer'
  BY <1>1, <1>2, <1>3, <1>4, <1>5, StillOne DEF StaysActive
<1>7. OnlyOf(tx[t].actor)
  BY <1>3, <1>4, <1>5 DEF OnlyOf, StaysActive
<1>8. TxCounts(t)' /\ \A u \in Txs \ {t} : tx'[u] = tx[u]
  BY <1>1, EndCounts
<1>9. \A u \in Txs \ {t} : Counting(u) => tx[u].actor # tx[t].actor
  BY <1>1, ActorsDiffer DEF Counting
<1> QED
  BY <1>1, <1>2, <1>4, <1>6, <1>7, <1>8, <1>9, AllCount

(* Every other commit, and a rollback, makes no offer active.              *)
LEMMA OtherCommitsCount ==
    ASSUME OInv, NEW t \in Txs,
           \/ \E r \in Rsvs : CommitCreate(t, r)
           \/ CommitDecision(t) \/ CommitDelivery(t) \/ CommitWithdraw(t)
           \/ CommitExpire(t) \/ CommitRemind(t) \/ CommitOffersExpire(t) \/ Rollback(t)
    PROVE  OneActiveOffer' /\ \A u \in Txs : TxCounts(u)'
<1>1. /\ TypeOK /\ offers \in [Offers -> OfferRow] /\ TxShape(t) /\ TxLocks(t) /\ RowsShape
  BY DEF OInv, HInv, IInv, TypeOK
<1>2. End(t)
  BY DEF CommitCreate, CommitDecision, CommitDelivery, Apply, CommitWithdraw, CommitExpire,
         CommitRemind, CommitOffersExpire, Rollback
<1>3. ASSUME NEW o \in Offers
      PROVE  /\ offers'[o].status = "active" => StaysActive(o)
             /\ offers'[o] = offers[o] \/ o \in locks[t]
  <2>1. offers[o] \in OfferRow
    BY <1>1
  <2>2. CASE offers' = offers
    BY <2>2 DEF StaysActive
  <2>3. CASE CommitDelivery(t)
    <3> DEFINE x == rsv[tx[t].rsv].offer
    <3>1. /\ tx[t].op \in Deliveries /\ tx[t].pc = "commit"
          /\ offers' = [offers EXCEPT ![x].quantity = @ - rsv[tx[t].rsv].quantity]
      BY <2>3 DEF CommitDelivery, Deduct, At
    <3>2. x \in locks[t]
      BY <1>1, <3>1 DEF TxLocks
    <3>3. /\ offers'[o].status = offers[o].status /\ offers'[o].producer = offers[o].producer
          /\ offers'[o].product = offers[o].product
      BY <1>1, <2>1, <3>1 DEF OfferRow
    <3>4. o # x => offers'[o] = offers[o]
      BY <1>1, <3>1
    <3> QED
      BY <3>2, <3>3, <3>4 DEF StaysActive
  <2>4. CASE CommitWithdraw(t)
    <3> DEFINE x == tx[t].offer
    <3>1. /\ tx[t].op = "withdraw" /\ tx[t].pc = "commit"
          /\ offers' = [offers EXCEPT ![x].status = "withdrawn"]
      BY <2>4 DEF CommitWithdraw, At
    <3>2. x \in locks[t]
      BY <1>1, <3>1 DEF TxLocks, OnOneOffer, OfferOps
    <3>3. CASE o = x
      <4>1. offers'[o] = [offers[o] EXCEPT !.status = "withdrawn"]
        BY <1>1, <3>1, <3>3
      <4>2. offers'[o].status = "withdrawn"
        BY <2>1, <4>1 DEF OfferRow
      <4> QED
        BY <3>2, <3>3, <4>2
    <3>4. CASE o # x
      <4>1. offers'[o] = offers[o]
        BY <1>1, <3>1, <3>4
      <4> QED
        BY <4>1 DEF StaysActive
    <3> QED
      BY <3>3, <3>4
  <2>5. CASE CommitOffersExpire(t)
    <3>1. offers'[o] = IF o \in tx[t].rows THEN [offers[o] EXCEPT !.status = "expired"]
                                           ELSE offers[o]
      BY <2>5 DEF CommitOffersExpire
    <3>2. tx[t].rows \subseteq locks[t]
      BY <1>1 DEF TxLocks
    <3>3. CASE o \in tx[t].rows
      <4>1. offers'[o].status = "expired"
        BY <2>1, <3>1, <3>3 DEF OfferRow
      <4> QED
        BY <3>2, <3>3, <4>1
    <3>4. CASE o \notin tx[t].rows
      BY <3>1, <3>4 DEF StaysActive
    <3> QED
      BY <3>3, <3>4
  <2> QED
    BY <2>2, <2>3, <2>4, <2>5
    DEF CommitCreate, CommitDecision, CommitExpire, CommitRemind, Rollback, tables
<1>4. TxCounts(t)' /\ \A u \in Txs \ {t} : tx'[u] = tx[u]
  BY <1>1, <1>2, EndCounts
<1> QED
  BY <1>3, <1>4, NoneCounts

LEMMA NextOInv == OInv /\ [Next]_vars => OInv'
<1> SUFFICES ASSUME OInv, [Next]_vars PROVE OInv'
  OBVIOUS
<1>1. HInv /\ HInv'
  BY NextHInv DEF OInv
<1>2. ASSUME NEW t \in Txs, Request(t) \/ Job(t) \/ Rollback(t)
      PROVE  OneActiveOffer' /\ \A u \in Txs : TxCounts(u)'
  <2>1. StepOf(t)
    BY <1>1, <1>2, StepOfTx
  <2>2. CASE Reads(t) \/ JobReads(t)
    BY <2>1, <2>2, ReadsCount
  <2>3. CASE Request(t)
    BY <2>2, <2>3, PublishCounts, EditCounts, OtherCommitsCount DEF Request, Reads
  <2>4. CASE Job(t)
    BY <2>2, <2>4, OtherCommitsCount DEF Job, JobReads
  <2>5. CASE Rollback(t)
    BY <2>5, OtherCommitsCount
  <2> QED
    BY <1>2, <2>3, <2>4, <2>5
<1>3. CASE Tick \/ (\E m \in Suspendable : SetApproved(m)) \/ UNCHANGED vars
  <2>1. UNCHANGED <<offers, tx>>
    BY <1>3 DEF Tick, SetApproved, vars, tables
  <2>2. OneActiveOffer'
    BY <2>1 DEF OInv, OneActiveOffer, NoOtherActive
  <2>3. ASSUME NEW u \in Txs PROVE TxCounts(u)'
    <3>1. TxCounts(u)
      BY DEF OInv
    <3> QED
      BY <2>1, <3>1 DEF TxCounts, At, NoOtherActive, Patched
  <2> QED
    BY <1>1, <2>2, <2>3 DEF OInv
<1> QED
  BY <1>1, <1>2, <1>3 DEF Next, OInv

(* No producer ever has two active offers of a product, however many       *)
(* requests of theirs run at the same time, and without the index.         *)
THEOREM OneOfferEach == Spec => []OneActiveOffer
<1>1. Init => OInv
  <2> SUFFICES ASSUME Init PROVE OInv
    OBVIOUS
  <2>1. \A t \in Txs : TxCounts(t)
    BY DEF Init, Idle, TxCounts, At
  <2>2. OneActiveOffer
    BY DEF Init, NoOffer, OneActiveOffer
  <2> QED
    BY <2>1, <2>2, InitHInv DEF OInv
<1>2. OInv => OneActiveOffer
  BY DEF OInv
<1> QED
  BY <1>1, <1>2, NextOInv, PTL DEF Spec

-----------------------------------------------------------------------------
(* The refinement: under the mapping of Ledger, every step of Spec is a    *)
(* step of the abstract stock or leaves it alone.                          *)
HoldOf(row) == [state |-> HoldState(row.status), offer |-> row.offer,
                quantity |-> row.quantity]

StockOf == [o \in Offers |-> offers[o].quantity]
HoldsOf == [r \in Rsvs |-> HoldOf(rsv[r])]

LEMMA HoldStates ==
    /\ HoldState("absent") = "none" /\ HoldState("pending") = "held"
    /\ HoldState("confirmed") = "held" /\ HoldState("delivered") = "delivered"
    /\ HoldState("rejected") = "released" /\ HoldState("cancelled") = "released"
    /\ HoldState("expired") = "released"
BY DEF HoldState, Holding

LEMMA SameCardinality ==
    ASSUME NEW S
    PROVE  Ledger!Cardinality(S) = Cardinality(S)
BY DEF Ledger!Cardinality, Cardinality

(* The abstract stock holds the same units.                                *)
LEMMA LedgerHolds ==
    ASSUME TypeOK, NEW o
    PROVE  Ledger!Held(o) = Held(o)
<1>1. \A r \in Rsvs : HoldState(rsv[r].status) = "held" <=> rsv[r].status \in Holding
  <2> SUFFICES ASSUME NEW r \in Rsvs
               PROVE  HoldState(rsv[r].status) = "held" <=> rsv[r].status \in Holding
    OBVIOUS
  <2>1. rsv[r].status \in {"absent"} \cup Holding \cup Closed
    BY DEF TypeOK, RsvRow
  <2> QED
    BY <2>1, HoldStates DEF Holding, Closed
<1>2. Ledger!HeldUnits(o) = HeldUnits(rsv, o)
  BY <1>1 DEF Ledger!HeldUnits, HeldUnits
<1> QED
  BY <1>2, SameCardinality DEF Ledger!Held, Held

(* The maps of the refinement, unfolded.                                   *)
LEMMA LedgerIs ==
    /\ Ledger!stockVars = <<StockOf, HoldsOf>>
    /\ \A o \in Offers, q \in Qty :
         (Ledger!Held(o) <= q /\ StockOf' = [StockOf EXCEPT ![o] = q] /\ HoldsOf' = HoldsOf)
           => Ledger!StockNext
    /\ \A r \in Rsvs, o \in Offers, q \in Qty :
         (/\ HoldsOf[r].state = "none" /\ q > 0 /\ Ledger!Held(o) + q <= StockOf[o]
          /\ HoldsOf' = [HoldsOf EXCEPT ![r] =
                           [state |-> "held", offer |-> o, quantity |-> q]]
          /\ StockOf' = StockOf)
           => Ledger!StockNext
    /\ \A R \in SUBSET Rsvs :
         (/\ \A r \in R : HoldsOf[r].state = "held"
          /\ HoldsOf' = [r \in Rsvs |-> IF r \in R THEN [HoldsOf[r] EXCEPT !.state = "released"]
                                                   ELSE HoldsOf[r]]
          /\ StockOf' = StockOf)
           => Ledger!StockNext
    /\ \A r \in Rsvs :
         (/\ HoldsOf[r].state = "held"
          /\ HoldsOf' = [HoldsOf EXCEPT ![r].state = "delivered"]
          /\ StockOf' = [StockOf EXCEPT ![HoldsOf[r].offer] = @ - HoldsOf[r].quantity])
           => Ledger!StockNext
<1>1. Ledger!stockVars = <<StockOf, HoldsOf>>
  BY DEF Ledger!stockVars, StockOf, HoldsOf, HoldOf
<1>2. ASSUME NEW o \in Offers, NEW q \in Qty,
             Ledger!Held(o) <= q, StockOf' = [StockOf EXCEPT ![o] = q], HoldsOf' = HoldsOf
      PROVE  Ledger!StockNext
  <2>1. Ledger!Restock(o, q)
    BY <1>2 DEF Ledger!Restock, StockOf, HoldsOf, HoldOf
  <2>2. q \in Ledger!Qty
    BY DEF Qty, Ledger!Qty
  <2> QED
    BY <2>1, <2>2 DEF Ledger!StockNext
<1>3. ASSUME NEW r \in Rsvs, NEW o \in Offers, NEW q \in Qty,
             HoldsOf[r].state = "none", q > 0, Ledger!Held(o) + q <= StockOf[o],
             HoldsOf' = [HoldsOf EXCEPT ![r] = [state |-> "held", offer |-> o, quantity |-> q]],
             StockOf' = StockOf
      PROVE  Ledger!StockNext
  <2>1. Ledger!Reserve(r, o, q)
    BY <1>3 DEF Ledger!Reserve, StockOf, HoldsOf, HoldOf
  <2>2. q \in Ledger!Qty
    BY DEF Qty, Ledger!Qty
  <2> QED
    BY <2>1, <2>2 DEF Ledger!StockNext
<1>4. ASSUME NEW R \in SUBSET Rsvs,
             \A r \in R : HoldsOf[r].state = "held",
             HoldsOf' = [r \in Rsvs |-> IF r \in R
                                          THEN [HoldsOf[r] EXCEPT !.state = "released"]
                                          ELSE HoldsOf[r]],
             StockOf' = StockOf
      PROVE  Ledger!StockNext
  <2>1. Ledger!Release(R)
    BY <1>4 DEF Ledger!Release, StockOf, HoldsOf, HoldOf
  <2> QED
    BY <2>1 DEF Ledger!StockNext
<1>5. ASSUME NEW r \in Rsvs, HoldsOf[r].state = "held",
             HoldsOf' = [HoldsOf EXCEPT ![r].state = "delivered"],
             StockOf' = [StockOf EXCEPT ![HoldsOf[r].offer] = @ - HoldsOf[r].quantity]
      PROVE  Ledger!StockNext
  <2>1. Ledger!Deliver(r)
    BY <1>5 DEF Ledger!Deliver, StockOf, HoldsOf, HoldOf
  <2> QED
    BY <2>1 DEF Ledger!StockNext
<1> QED
  BY <1>1, <1>2, <1>3, <1>4, <1>5

StockStep == Ledger!StockNext \/ UNCHANGED Ledger!stockVars

(* The steps that leave every quantity alone.                              *)
LEMMA LedgerStill ==
    ASSUME StockOf' = StockOf, HoldsOf' = HoldsOf
    PROVE  StockStep
BY DEF StockStep, StockOf, HoldsOf, HoldOf, Ledger!stockVars

LEMMA LedgerQuiet ==
    ASSUME UNCHANGED <<offers, rsv>>
    PROVE  StockStep
<1>1. StockOf' = StockOf /\ HoldsOf' = HoldsOf
  BY DEF StockOf, HoldsOf, HoldOf
<1> QED
  BY <1>1, LedgerStill

LEMMA LedgerStutters ==
    ASSUME \A o \in Offers : offers'[o].quantity = offers[o].quantity,
           \A r \in Rsvs : HoldOf(rsv'[r]) = HoldOf(rsv[r])
    PROVE  StockStep
<1>1. StockOf' = StockOf /\ HoldsOf' = HoldsOf
  BY DEF StockOf, HoldsOf
<1> QED
  BY <1>1, LedgerStill

LEMMA LedgerRestocks ==
    ASSUME IInv, NEW o \in Offers, NEW q \in Qty, Held(o) <= q, rsv' = rsv,
           \A p \in Offers : offers'[p].quantity = IF p = o THEN q ELSE offers[p].quantity
    PROVE  StockStep
<1>1. StockOf' = [StockOf EXCEPT ![o] = q]
  BY DEF StockOf
<1>2. HoldsOf' = HoldsOf
  BY DEF HoldsOf, HoldOf
<1>3. Ledger!Held(o) <= q
  BY LedgerHolds DEF IInv
<1> QED
  BY <1>1, <1>2, <1>3, LedgerIs DEF StockStep

LEMMA LedgerCreate ==
    ASSUME IInv, NEW t \in Txs, NEW r \in Rsvs, CommitCreate(t, r)
    PROVE  StockStep
<1> DEFINE o == tx[t].offer
           q == tx[t].quantity
           new == [status |-> "pending", offer |-> o, requester |-> tx[t].actor,
                   producer |-> offers[o].producer, quantity |-> q,
                   expiresAt |-> tx[t].at + Expiry, reminded |-> FALSE]
           hold == [state |-> "held", offer |-> o, quantity |-> q]
<1>1. /\ TypeOK /\ TxShape(t) /\ TxChecks(t) /\ tx[t].op = "create" /\ tx[t].pc = "commit"
      /\ rsv[r].status = "absent" /\ rsv' = [rsv EXCEPT ![r] = new] /\ offers' = offers
  BY DEF CommitCreate, At, IInv
<1>2. /\ o \in Offers /\ q \in 1..MaxQty /\ Held(o) + q <= offers[o].quantity
  BY <1>1 DEF TxShape, TxChecks, OnOneOffer
<1>3. q \in Qty /\ q > 0
  BY <1>2 DEF Qty
<1>4. HoldOf(new) = hold
  <2>1. new.status = "pending" /\ new.offer = o /\ new.quantity = q
    OBVIOUS
  <2> HIDE DEF new
  <2> QED
    BY <2>1, HoldStates DEF HoldOf
<1> HIDE DEF new, hold
<1>5. rsv'[r] = new /\ \A x \in Rsvs \ {r} : rsv'[x] = rsv[x]
  BY <1>1 DEF TypeOK
<1>6. HoldsOf' = [HoldsOf EXCEPT ![r] = hold]
  BY <1>4, <1>5 DEF HoldsOf
<1>7. StockOf' = StockOf /\ StockOf[o] = offers[o].quantity
  BY <1>1, <1>2 DEF StockOf
<1>8. HoldsOf[r].state = "none"
  BY <1>1, HoldStates DEF HoldsOf, HoldOf
<1>9. Ledger!Held(o) + q <= StockOf[o]
  BY <1>1, <1>2, <1>7, LedgerHolds
<1> QED
  BY <1>2, <1>3, <1>6, <1>7, <1>8, <1>9, LedgerIs DEF hold, StockStep

(* What act does to the holds.                                             *)
LEMMA ApplyHolds ==
    ASSUME IInv, NEW t \in Txs, NEW written, Apply(t, written),
           tx[t].op \in Actions, tx[t].pc = "commit"
    PROVE  /\ tx[t].rsv \in Rsvs /\ rsv[tx[t].rsv] \in RsvRow
           /\ rsv[tx[t].rsv].offer \in Offers
           /\ HoldsOf[tx[t].rsv].state = "held"
           /\ HoldsOf[tx[t].rsv].offer = rsv[tx[t].rsv].offer
           /\ HoldsOf[tx[t].rsv].quantity = rsv[tx[t].rsv].quantity
           /\ HoldsOf' = [HoldsOf EXCEPT ![tx[t].rsv].state = HoldState(StatusAfter(tx[t].op))]
<1> DEFINE r == tx[t].rsv
           status == StatusAfter(tx[t].op)
           row == [rsv[r] EXCEPT !.status = status, !.expiresAt = None]
<1>1. /\ r \in Rsvs /\ rsv[r].status \in Holding /\ rsv \in [Rsvs -> RsvRow]
      /\ rsv[r] \in RsvRow /\ rsv[r].offer \in Offers
  BY DEF IInv, TypeOK, TxShape, TxChecks, RowsShape
<1>2. rsv' = [rsv EXCEPT ![r] = row]
  BY DEF Apply
<1> HIDE DEF status
<1>3. row.status = status /\ row.offer = rsv[r].offer /\ row.quantity = rsv[r].quantity
  BY <1>1 DEF RsvRow
<1> HIDE DEF row
<1>4. rsv'[r] = row /\ \A x \in Rsvs \ {r} : rsv'[x] = rsv[x]
  BY <1>1, <1>2
<1>5. /\ HoldsOf[r] = [state |-> "held", offer |-> rsv[r].offer, quantity |-> rsv[r].quantity]
      /\ HoldOf(rsv'[r]) = [state |-> HoldState(status), offer |-> rsv[r].offer,
                            quantity |-> rsv[r].quantity]
  BY <1>1, <1>3, <1>4, HoldStates DEF HoldsOf, HoldOf, Holding
<1>6. HoldOf(rsv'[r]) = [HoldsOf[r] EXCEPT !.state = HoldState(status)]
  BY <1>5
<1>7. HoldsOf' = [HoldsOf EXCEPT ![r].state = HoldState(status)]
  BY <1>4, <1>6 DEF HoldsOf
<1> QED
  BY <1>1, <1>5, <1>7 DEF status

LEMMA LedgerDecision ==
    ASSUME IInv, NEW t \in Txs, CommitDecision(t)
    PROVE  StockStep
<1> DEFINE r == tx[t].rsv
           state == HoldState(StatusAfter(tx[t].op))
<1>1. /\ tx[t].op \in Decisions /\ tx[t].op \in Actions /\ tx[t].pc = "commit"
      /\ Apply(t, <<LineBy(t, StatusAfter(tx[t].op))>>) /\ offers' = offers
  BY DEF CommitDecision, At, Actions
<1>2. state = IF tx[t].op = "confirm" THEN "held" ELSE "released"
  BY <1>1, HoldStates DEF StatusAfter, Decisions, Deliveries
<1> HIDE DEF state
<1>3. /\ r \in Rsvs /\ HoldsOf[r].state = "held"
      /\ HoldsOf' = [HoldsOf EXCEPT ![r].state = state]
  BY <1>1, ApplyHolds DEF state
<1>4. StockOf' = StockOf
  BY <1>1 DEF StockOf
<1>5. CASE tx[t].op = "confirm"
  <2>1. HoldsOf' = HoldsOf
    BY <1>2, <1>3, <1>5 DEF HoldsOf, HoldOf
  <2> QED
    BY <1>4, <2>1, LedgerStill
<1>6. CASE tx[t].op # "confirm"
  <2>1. HoldsOf' = [x \in Rsvs |-> IF x \in {r} THEN [HoldsOf[x] EXCEPT !.state = "released"]
                                               ELSE HoldsOf[x]]
    BY <1>2, <1>3, <1>6 DEF HoldsOf
  <2>2. {r} \in SUBSET Rsvs /\ \A x \in {r} : HoldsOf[x].state = "held"
    BY <1>3
  <2> HIDE DEF r
  <2> QED
    BY <1>4, <2>1, <2>2, LedgerIs DEF StockStep
<1> QED
  BY <1>5, <1>6

LEMMA LedgerDelivery ==
    ASSUME IInv, NEW t \in Txs, CommitDelivery(t)
    PROVE  StockStep
<1> DEFINE r == tx[t].rsv
           o == rsv[r].offer
           q == rsv[r].quantity
           row == [offers[o] EXCEPT !.quantity = @ - q]
<1>1. /\ tx[t].op \in Deliveries /\ tx[t].op \in Actions /\ tx[t].pc = "commit"
      /\ \E written : Apply(t, written)
      /\ offers' = [offers EXCEPT ![o] = row] /\ offers \in [Offers -> OfferRow]
  BY DEF CommitDelivery, Deduct, At, Actions, IInv, TypeOK
<1>2. HoldState(StatusAfter(tx[t].op)) = "delivered"
  BY <1>1, HoldStates DEF StatusAfter, Deliveries
<1>3. /\ r \in Rsvs /\ o \in Offers /\ HoldsOf[r].state = "held" /\ HoldsOf[r].offer = o
      /\ HoldsOf[r].quantity = q
      /\ HoldsOf' = [HoldsOf EXCEPT ![r].state = "delivered"]
  BY <1>1, <1>2, ApplyHolds
<1>4. row.quantity = offers[o].quantity - q
  BY <1>1, <1>3 DEF OfferRow
<1> HIDE DEF row
<1>5. offers'[o] = row /\ \A p \in Offers \ {o} : offers'[p] = offers[p]
  BY <1>1, <1>3
<1>6. StockOf' = [StockOf EXCEPT ![HoldsOf[r].offer] = @ - HoldsOf[r].quantity]
  BY <1>3, <1>4, <1>5 DEF StockOf
<1> HIDE DEF r
<1> QED
  BY <1>3, <1>6, LedgerIs DEF StockStep

LEMMA LedgerPublish ==
    ASSUME IInv, NEW t \in Txs, NEW o \in Offers, CommitPublish(t, o)
    PROVE  StockStep
<1> DEFINE new == [status |-> "active", producer |-> tx[t].actor,
                   product |-> tx[t].product, quantity |-> tx[t].quantity,
                   until |-> tx[t].until]
           q == tx[t].quantity
<1>1. /\ TxShape(t) /\ tx[t].op = "publish" /\ offers[o].status = "absent"
      /\ offers \in [Offers -> OfferRow] /\ offers' = [offers EXCEPT ![o] = new] /\ rsv' = rsv
  BY DEF CommitPublish, At, IInv, TypeOK
<1>2. q \in Qty /\ q >= 0 /\ q \in Int
  BY <1>1 DEF TxShape, Qty
<1>3. Held(o) <= 0
  BY <1>1 DEF IInv, RowsShape, NoOversell
<1>4. Held(o) <= q
  <2>1. Held(o) \in Nat
    BY HeldUnitsFinite DEF Held
  <2> QED
    BY <1>2, <1>3, <2>1
<1>5. new.quantity = q
  OBVIOUS
<1> HIDE DEF new
<1>6. \A p \in Offers : offers'[p].quantity = IF p = o THEN q ELSE offers[p].quantity
  BY <1>1, <1>5
<1> QED
  BY <1>1, <1>2, <1>4, <1>6, LedgerRestocks

LEMMA LedgerEdit ==
    ASSUME IInv, NEW t \in Txs, CommitEdit(t)
    PROVE  StockStep
<1> DEFINE o == tx[t].offer
           q == IF tx[t].quantity = Keep THEN offers[o].quantity ELSE tx[t].quantity
<1>1. /\ TxShape(t) /\ TxChecks(t) /\ tx[t] \in TxState /\ tx[t].op = "edit"
      /\ tx[t].pc = "commit" /\ offers \in [Offers -> OfferRow]
      /\ offers' = [offers EXCEPT ![o] = Patched(t)] /\ rsv' = rsv
  BY DEF CommitEdit, At, IInv, TypeOK
<1>2. o \in Offers /\ offers[o] \in OfferRow
  BY <1>1 DEF TxShape, OnOneOffer, OfferOps
<1>3. q \in Qty /\ Held(o) <= q
  <2>1. tx[t].quantity \in Qty \cup {Keep} /\ offers[o].quantity \in Qty
    BY <1>1, <1>2 DEF TxState, OfferRow
  <2>2. Held(o) <= offers[o].quantity /\ (tx[t].quantity # Keep => Held(o) <= tx[t].quantity)
    BY <1>1, <1>2 DEF TxChecks, IInv, NoOversell
  <2> QED
    BY <2>1, <2>2
<1>4. Patched(t).quantity = q
  BY <1>2 DEF Patched, OfferRow
<1> HIDE DEF q
<1>5. \A p \in Offers : offers'[p].quantity = IF p = o THEN q ELSE offers[p].quantity
  BY <1>1, <1>2, <1>4
<1> QED
  BY <1>1, <1>2, <1>3, <1>5, LedgerRestocks

(* withdraw, offers.expire and remind change no quantity and end no hold.  *)
LEMMA LedgerKeeps ==
    ASSUME IInv, NEW t \in Txs, CommitWithdraw(t) \/ CommitOffersExpire(t) \/ CommitRemind(t)
    PROVE  StockStep
<1>1. offers \in [Offers -> OfferRow] /\ rsv \in [Rsvs -> RsvRow]
  BY DEF IInv, TypeOK
<1>2. ASSUME NEW o \in Offers PROVE offers'[o].quantity = offers[o].quantity
  <2>1. offers[o] \in OfferRow
    BY <1>1
  <2> QED
    BY <1>1, <2>1 DEF CommitWithdraw, CommitOffersExpire, CommitRemind, OfferRow
<1>3. ASSUME NEW r \in Rsvs PROVE HoldOf(rsv'[r]) = HoldOf(rsv[r])
  <2>1. rsv[r] \in RsvRow
    BY <1>1
  <2>2. /\ rsv'[r].status = rsv[r].status /\ rsv'[r].offer = rsv[r].offer
        /\ rsv'[r].quantity = rsv[r].quantity
    BY <1>1, <2>1 DEF CommitWithdraw, CommitOffersExpire, CommitRemind, RsvRow
  <2> QED
    BY <2>2 DEF HoldOf
<1> QED
  BY <1>2, <1>3, LedgerStutters

LEMMA LedgerExpire ==
    ASSUME IInv, NEW t \in Txs, CommitExpire(t)
    PROVE  StockStep
<1> DEFINE R == tx[t].rows
<1>1. /\ tx[t].op = "expire" /\ TxShape(t) /\ TxChecks(t) /\ rsv \in [Rsvs -> RsvRow]
      /\ offers' = offers
      /\ rsv' = [r \in Rsvs |->
                   IF r \in R THEN [rsv[r] EXCEPT !.status = "expired"] ELSE rsv[r]]
  BY DEF CommitExpire, JobReady, At, IInv, TypeOK
<1>2. R \in SUBSET Rsvs /\ \A r \in R : rsv[r].status = "pending"
  BY <1>1 DEF TxShape, TxChecks, IsDue, RsvJobs
<1>3. ASSUME NEW r \in Rsvs
      PROVE  HoldOf(rsv'[r]) = IF r \in R THEN [HoldOf(rsv[r]) EXCEPT !.state = "released"]
                                          ELSE HoldOf(rsv[r])
  <2>1. CASE r \in R
    <3>1. rsv'[r] = [rsv[r] EXCEPT !.status = "expired"] /\ rsv[r] \in RsvRow
      BY <1>1, <2>1
    <3>2. /\ rsv'[r].status = "expired" /\ rsv'[r].offer = rsv[r].offer
          /\ rsv'[r].quantity = rsv[r].quantity
      BY <3>1 DEF RsvRow
    <3> QED
      BY <2>1, <3>2, HoldStates DEF HoldOf
  <2>2. CASE r \notin R
    BY <1>1, <2>2
  <2> QED
    BY <2>1, <2>2
<1>4. HoldsOf' = [r \in Rsvs |-> IF r \in R THEN [HoldsOf[r] EXCEPT !.state = "released"]
                                           ELSE HoldsOf[r]]
  BY <1>3 DEF HoldsOf
<1>5. \A r \in R : HoldsOf[r].state = "held"
  BY <1>2, HoldStates DEF HoldsOf, HoldOf
<1>6. StockOf' = StockOf
  BY <1>1 DEF StockOf
<1> HIDE DEF R
<1> QED
  BY <1>2, <1>4, <1>5, <1>6, LedgerIs DEF StockStep

(* Offers and reservations, with all their transactions, implement the     *)
(* abstract stock: delivered deducts, everything else releases, nothing    *)
(* else moves a quantity.                                                  *)
THEOREM StockImplemented == Spec => ImplementsStock
<1>1. Init => Ledger!StockInit
  <2> SUFFICES ASSUME Init PROVE Ledger!StockInit
    OBVIOUS
  <2>1. \A o \in Offers : offers[o].quantity = 0
    BY DEF Init, NoOffer
  <2>2. \A r \in Rsvs : rsv[r].status = "absent" /\ rsv[r].offer = None /\ rsv[r].quantity = 0
    BY DEF Init, NoRsv
  <2> QED
    BY <2>1, <2>2, HoldStates DEF Ledger!StockInit, Ledger!NoHold
<1>2. ASSUME IInv, [Next]_vars PROVE StockStep
  <2>1. ASSUME NEW t \in Txs, Request(t) PROVE StockStep
    <3>1. CASE Reads(t)
      BY <3>1, ReadsOnly, LedgerQuiet DEF tables
    <3> QED
      BY <1>2, <2>1, <3>1, LedgerCreate, LedgerDecision, LedgerDelivery, LedgerPublish,
         LedgerEdit, LedgerKeeps DEF Request, Reads
  <2>2. ASSUME NEW t \in Txs, Job(t) PROVE StockStep
    <3>1. CASE JobReads(t)
      BY <3>1, ReadsOnly, LedgerQuiet DEF tables
    <3> QED
      BY <1>2, <2>2, <3>1, LedgerExpire, LedgerKeeps DEF Job, JobReads
  <2>3. CASE (\E t \in Txs : Rollback(t)) \/ Tick \/ (\E m \in Suspendable : SetApproved(m))
             \/ UNCHANGED vars
    <3>1. UNCHANGED <<offers, rsv>>
      BY <2>3 DEF Rollback, Tick, SetApproved, vars, tables
    <3> QED
      BY <3>1, LedgerQuiet
  <2> QED
    BY <1>2, <2>1, <2>2, <2>3 DEF Next
<1>3. IInv /\ [Next]_vars => [Ledger!StockNext]_(Ledger!stockVars)
  BY <1>2 DEF StockStep
<1> QED
  BY <1>1, <1>3, Invariance, PTL DEF Spec, ImplementsStock, Ledger!StockSpec

=============================================================================
