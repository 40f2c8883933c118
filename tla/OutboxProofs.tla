---------------------------- MODULE OutboxProofs ----------------------------
(***************************************************************************)
(* What the outbox promises, for any notifications, overlapping runs,      *)
(* delays and number of faults.                                            *)
(*                                                                         *)
(* None of the three properties is inductive: they speak of committed rows *)
(* and say nothing of what a run has drafted, and that a draft is sound    *)
(* rests on SKIP LOCKED keeping the row for its run alone.  IInv adds both.*)
(***************************************************************************)
EXTENDS Outbox, TLAPS

(* Types that matter: rows and drafts are records, counts are numbers.     *)
Types ==
    /\ row \in [Notes -> AnyRow \cup {None}]
    /\ draft \in [Dispatchers -> [Notes -> AnyRow \cup {None}]]
    /\ batch \in [Dispatchers -> SUBSET Notes]
    /\ call \in [Dispatchers -> [note : Notes \cup {None}, took : Nat]]
    /\ inbox \in [Notes -> Nat]
    /\ lost \in [Notes -> Nat]
    /\ tries \in [Notes -> Nat]

(* A queued row has one run at most, which alone drafts and sends it.      *)
Runs ==
    /\ \A d \in Dispatchers : \A n \in batch[d] : row[n] # None /\ row[n].status = "queued"
    /\ \A d, e \in Dispatchers : d # e => batch[d] \cap batch[e] = {}
    /\ \A d \in Dispatchers : \A n \in Notes : draft[d][n] # None => n \in batch[d]
    /\ \A d \in Dispatchers : call[d].note # None =>
          call[d].note \in batch[d] /\ draft[d][call[d].note] = None

IsSent(r) == r # None /\ r.status = "sent"

(* A delivery is known when the row says so, or will when its run commits. *)
Known(n) == IsSent(row[n]) \/ \E d \in Dispatchers : IsSent(draft[d][n])

Counts ==
    \A n \in Notes :
        /\ Known(n) => inbox[n] > 0 /\ inbox[n] <= lost[n] + 1
        /\ ~Known(n) => inbox[n] <= lost[n]

(* Why a row is as it is, or will be.                                      *)
Justified(r, failed, hopeless) ==
    r # None =>
        /\ r.status = "queued" => r.attempts <= failed /\ r.attempts <= Len(Delays)
        /\ r.status = "failed" => hopeless \/ failed > Len(Delays)

Reasons ==
    \A n \in Notes :
        /\ Justified(row[n], tries[n], n \in refused)
        /\ \A d \in Dispatchers : Justified(draft[d][n], tries[n], n \in refused)

IInv == Types /\ Runs /\ Counts /\ Reasons

-----------------------------------------------------------------------------
LEMMA MinusType == ASSUME NEW a \in Nat, NEW b \in Nat PROVE Minus(a, b) \in Nat
BY DEF Minus

LEMMA InitIInv == Init => IInv
<1> SUFFICES ASSUME Init PROVE IInv
  OBVIOUS
<1>1. Types
  BY DEF Init, Types, NoCall
<1>2. Runs
  BY DEF Init, Runs, NoCall
<1>3. Counts
  BY DEF Init, Counts, Known, IsSent
<1>4. Reasons
  BY DEF Init, Reasons, Justified
<1> QED
  BY <1>1, <1>2, <1>3, <1>4 DEF IInv

-----------------------------------------------------------------------------
(* A run that drafts n as r leaves everything else alone.                  *)
LEMMA DraftStep ==
    ASSUME IInv, NEW d \in Dispatchers, NEW n \in Left(d), NEW r \in AnyRow, Draft(d, n, r),
           call[d].note \in {None, n}
    PROVE  /\ row' = row /\ row' \in [Notes -> AnyRow \cup {None}]
           /\ draft' \in [Dispatchers -> [Notes -> AnyRow \cup {None}]]
           /\ batch' \in [Dispatchers -> SUBSET Notes]
           /\ call' \in [Dispatchers -> [note : Notes \cup {None}, took : Nat]]
           /\ Runs'
           /\ n \in Notes /\ draft'[d][n] = r /\ r # None
           /\ row[n] # None /\ row[n] \in AnyRow /\ row[n].status = "queued"
           /\ ~Known(n)
           /\ \A e \in Dispatchers, m \in Notes : <<e, m>> # <<d, n>> => draft'[e][m] = draft[e][m]
<1>1. /\ row' = row /\ batch' = batch
      /\ draft' = [draft EXCEPT ![d] = [draft[d] EXCEPT ![n] = r]]
      /\ call' = [call EXCEPT ![d] = NoCall]
  BY DEF Draft
<1>2. Types /\ Runs /\ n \in batch[d] /\ draft[d][n] = None
  BY DEF IInv, Left
<1>3. n \in Notes /\ r # None
  BY <1>2, NoneAssumption DEF Types
<1>4. draft' \in [Dispatchers -> [Notes -> AnyRow \cup {None}]]
  BY <1>1, <1>2, <1>3 DEF Types
<1>5. call' \in [Dispatchers -> [note : Notes \cup {None}, took : Nat]]
  BY <1>1, <1>2 DEF Types, NoCall
<1>6. draft'[d][n] = r
      /\ \A e \in Dispatchers, m \in Notes : <<e, m>> # <<d, n>> => draft'[e][m] = draft[e][m]
  BY <1>1, <1>2, <1>3 DEF Types
<1>7. row[n] # None /\ row[n] \in AnyRow /\ row[n].status = "queued"
  BY <1>2, <1>3 DEF Types, Runs
<1>8. ~Known(n)
  <2>1. ASSUME NEW e \in Dispatchers PROVE ~IsSent(draft[e][n])
    BY <1>2, <1>3 DEF Runs, IsSent
  <2> QED
    BY <2>1, <1>7 DEF Known, IsSent
<1>9. Runs'
  <2>1. \A e \in Dispatchers : \A m \in batch'[e] : row'[m] # None /\ row'[m].status = "queued"
    BY <1>1, <1>2 DEF Runs
  <2>2. \A e, f \in Dispatchers : e # f => batch'[e] \cap batch'[f] = {}
    BY <1>1, <1>2 DEF Runs
  <2>3. \A e \in Dispatchers : \A m \in Notes : draft'[e][m] # None => m \in batch'[e]
    BY <1>1, <1>2, <1>6 DEF Runs
  <2>4. ASSUME NEW e \in Dispatchers, call'[e].note # None
        PROVE  call'[e].note \in batch'[e] /\ draft'[e][call'[e].note] = None
    <3>1. e # d /\ call'[e] = call[e]
      BY <1>1, <1>2, <2>4 DEF Types, NoCall
    <3>2. call[e].note \in batch[e] /\ draft[e][call[e].note] = None /\ call[e].note \in Notes
      BY <1>2, <2>4, <3>1 DEF Runs, Types
    <3> QED
      BY <1>1, <1>6, <3>1, <3>2
  <2> QED
    BY <2>1, <2>2, <2>3, <2>4 DEF Runs
<1> QED
  BY <1>1, <1>2, <1>3, <1>4, <1>5, <1>6, <1>7, <1>8, <1>9 DEF Types

(* What a draft must say for the counts and the reasons to hold with it.   *)
LEMMA DraftKeeps ==
    ASSUME IInv, NEW d \in Dispatchers, NEW n \in Left(d), NEW r \in AnyRow, Draft(d, n, r),
           call[d].note \in {None, n},
           lost' = lost,
           inbox' = IF r.status = "sent" THEN [inbox EXCEPT ![n] = @ + 1] ELSE inbox,
           tries' \in [Notes -> Nat], \A m \in Notes : tries'[m] >= tries[m],
           refused \subseteq refused',
           r.status = "queued" => r.attempts <= tries'[n] /\ r.attempts <= Len(Delays),
           r.status = "failed" => n \in refused' \/ tries'[n] > Len(Delays)
    PROVE  IInv'
<1>1. /\ row' = row
      /\ draft' \in [Dispatchers -> [Notes -> AnyRow \cup {None}]]
      /\ batch' \in [Dispatchers -> SUBSET Notes]
      /\ call' \in [Dispatchers -> [note : Notes \cup {None}, took : Nat]]
      /\ Runs'
      /\ n \in Notes /\ draft'[d][n] = r /\ r # None /\ row[n].status = "queued" /\ ~Known(n)
      /\ \A e \in Dispatchers, m \in Notes : <<e, m>> # <<d, n>> => draft'[e][m] = draft[e][m]
  BY DraftStep
<1>2. Types /\ Counts /\ Reasons
  BY DEF IInv
<1>3. Types'
  BY <1>1, <1>2 DEF Types
<1>4. Counts'
  <2> SUFFICES ASSUME NEW m \in Notes
               PROVE  /\ Known(m)' => inbox'[m] > 0 /\ inbox'[m] <= lost'[m] + 1
                      /\ ~Known(m)' => inbox'[m] <= lost'[m]
    BY DEF Counts
  <2>1. inbox[m] \in Nat /\ lost[m] \in Nat
    BY <1>2 DEF Types
  <2>2. CASE m # n
    <3>1. \A e \in Dispatchers : draft'[e][m] = draft[e][m]
      BY <1>1, <2>2
    <3>2. Known(m)' <=> Known(m)
      BY <1>1, <3>1 DEF Known, IsSent
    <3>3. inbox'[m] = inbox[m]
      BY <1>2, <2>2 DEF Types
    <3> QED
      BY <1>2, <3>2, <3>3 DEF Counts
  <2>3. CASE m = n
    <3>1. inbox[n] <= lost[n]
      BY <1>1, <1>2 DEF Counts
    <3>2. CASE r.status = "sent"
      <4>1. Known(n)'
        BY <1>1, <3>2 DEF Known, IsSent
      <4>2. inbox'[n] = inbox[n] + 1
        BY <1>1, <1>2, <3>2 DEF Types
      <4> QED
        BY <2>1, <2>3, <3>1, <4>1, <4>2
    <3>3. CASE r.status # "sent"
      <4>1. ASSUME NEW e \in Dispatchers PROVE ~IsSent(draft'[e][n])
        BY <1>1, <3>3 DEF Known, IsSent
      <4>2. ~Known(n)'
        BY <1>1, <4>1 DEF Known, IsSent
      <4> QED
        BY <2>3, <3>1, <3>3, <4>2
    <3> QED
      BY <3>2, <3>3
  <2> QED
    BY <2>2, <2>3
<1>5. ASSUME NEW m \in Notes, NEW x \in AnyRow \cup {None},
             Justified(x, tries[m], m \in refused)
      PROVE  Justified(x, tries'[m], m \in refused')
  <2>1. tries[m] \in Nat /\ tries'[m] \in Nat /\ tries'[m] >= tries[m]
    BY <1>2 DEF Types
  <2>2. x # None => x.attempts \in Nat
    BY DEF AnyRow
  <2>3. x # None /\ x.status = "queued" => x.attempts <= tries'[m] /\ x.attempts <= Len(Delays)
    BY <1>5, <2>1, <2>2 DEF Justified
  <2>4. Len(Delays) \in Nat
    BY OutboxAssumption
  <2>5. x # None /\ x.status = "failed" => m \in refused' \/ tries'[m] > Len(Delays)
    BY <1>5, <2>1, <2>4 DEF Justified
  <2> QED
    BY <2>3, <2>5 DEF Justified
<1>6. Reasons'
  <2> SUFFICES ASSUME NEW m \in Notes
               PROVE  /\ Justified(row'[m], tries'[m], m \in refused')
                      /\ \A e \in Dispatchers :
                            Justified(draft'[e][m], tries'[m], m \in refused')
    BY DEF Reasons
  <2>1. row[m] \in AnyRow \cup {None} /\ Justified(row[m], tries[m], m \in refused)
    BY <1>2 DEF Reasons, Types
  <2>2. Justified(row'[m], tries'[m], m \in refused')
    BY <1>1, <1>5, <2>1
  <2>3. ASSUME NEW e \in Dispatchers PROVE Justified(draft'[e][m], tries'[m], m \in refused')
    <3>1. CASE <<e, m>> = <<d, n>>
      BY <1>1, <3>1 DEF Justified
    <3>2. CASE <<e, m>> # <<d, n>>
      <4>1. draft'[e][m] = draft[e][m] /\ draft[e][m] \in AnyRow \cup {None}
        BY <1>1, <1>2, <3>2 DEF Types
      <4>2. Justified(draft[e][m], tries[m], m \in refused)
        BY <1>2 DEF Reasons
      <4> QED
        BY <1>5, <4>1, <4>2
    <3> QED
      BY <3>1, <3>2
  <2> QED
    BY <2>2, <2>3
<1> QED
  BY <1>1, <1>3, <1>4, <1>6 DEF IInv

-----------------------------------------------------------------------------
(* The row a call is for.                                                  *)
LEMMA Called ==
    ASSUME IInv, NEW d \in Dispatchers, Calling(d)
    PROVE  /\ call[d].note \in Left(d) /\ call[d].note \in Notes
           /\ row[call[d].note] \in AnyRow /\ row[call[d].note].status = "queued"
           /\ row[call[d].note].attempts \in Nat
           /\ row[call[d].note].attempts <= tries[call[d].note]
           /\ row[call[d].note].attempts <= Len(Delays)
           /\ call[d].took \in Nat /\ tries[call[d].note] \in Nat
<1> DEFINE n == call[d].note
<1>1. Types /\ Runs /\ Reasons
  BY DEF IInv
<1>2. n \in batch[d] /\ draft[d][n] = None /\ n \in Notes
  BY <1>1 DEF Runs, Calling, Types
<1>3. row[n] \in AnyRow /\ row[n].status = "queued" /\ row[n] # None
  BY <1>1, <1>2 DEF Runs, Types
<1>4. row[n].attempts \in Nat /\ call[d].took \in Nat /\ tries[n] \in Nat
  BY <1>1, <1>2, <1>3 DEF Types, AnyRow
<1>5. row[n].attempts <= tries[n] /\ row[n].attempts <= Len(Delays)
  BY <1>1, <1>2, <1>3 DEF Reasons, Justified
<1> QED
  BY <1>2, <1>3, <1>4, <1>5 DEF Left

LEMMA CountKeeps ==
    ASSUME Types, NEW n \in Notes, Count(n)
    PROVE  /\ tries' \in [Notes -> Nat]
           /\ \A m \in Notes : tries'[m] >= tries[m]
           /\ tries[n] <= Len(Delays) => tries'[n] = tries[n] + 1
           /\ tries[n] > Len(Delays) => tries'[n] = tries[n]
<1>1. tries \in [Notes -> Nat] /\ Len(Delays) \in Nat
  BY OutboxAssumption DEF Types
<1> QED
  BY <1>1 DEF Count

LEMMA AnswersKeep ==
    ASSUME IInv, NEW d \in Dispatchers, Answer(d)
    PROVE  IInv'
<1> DEFINE n == call[d].note
<1>1. Calling(d)
  BY DEF Answer, Deliver, Error, Refuse, TooMany
<1>2. /\ n \in Left(d) /\ n \in Notes /\ row[n] \in AnyRow /\ row[n].status = "queued"
      /\ row[n].attempts \in Nat /\ row[n].attempts <= tries[n]
      /\ row[n].attempts <= Len(Delays) /\ call[d].took \in Nat /\ tries[n] \in Nat
  BY <1>1, Called
<1>3. Types /\ Len(Delays) \in Nat
  BY OutboxAssumption DEF IInv
<1> HIDE DEF n
<1>4. CASE Deliver(d)
  <2> DEFINE r == [status |-> "sent", attempts |-> row[n].attempts + 1, wait |-> 0]
  <2>1. r \in AnyRow /\ r.status = "sent"
    BY <1>2 DEF AnyRow
  <2>2. /\ Draft(d, n, r) /\ inbox' = [inbox EXCEPT ![n] = @ + 1]
        /\ lost' = lost /\ tries' = tries /\ refused' = refused
    BY <1>4 DEF Deliver, history, n
  <2>3. tries' \in [Notes -> Nat] /\ \A m \in Notes : tries'[m] >= tries[m]
    BY <1>3, <2>2 DEF Types
  <2> QED
    BY <1>2, <2>1, <2>2, <2>3, DraftKeeps DEF n
<1>5. CASE Error(d)
  <2> DEFINE r == AfterFailure(row[n], call[d].took)
  <2>1. /\ Draft(d, n, r) /\ Count(n)
        /\ inbox' = inbox /\ lost' = lost /\ refused' = refused
    BY <1>5 DEF Error, n
  <2>2. /\ tries' \in [Notes -> Nat] /\ \A m \in Notes : tries'[m] >= tries[m]
        /\ tries[n] <= Len(Delays) => tries'[n] = tries[n] + 1
        /\ tries[n] > Len(Delays) => tries'[n] = tries[n]
    BY <1>2, <1>3, <2>1, CountKeeps
  <2>3. /\ r \in AnyRow /\ r.status # "sent"
        /\ r.status = "queued" => r.attempts <= tries'[n] /\ r.attempts <= Len(Delays)
        /\ r.status = "failed" => tries'[n] > Len(Delays)
    <3>1. CASE Retries(row[n].attempts + 1)
      <4>1. Delays[row[n].attempts + 1] \in Nat
        BY <1>2, <1>3, <3>1, OutboxAssumption DEF Retries
      <4>2. Minus(Delays[row[n].attempts + 1], call[d].took) \in Nat
        BY <1>2, <4>1, MinusType
      <4>3. r = [status |-> "queued", attempts |-> row[n].attempts + 1,
                 wait |-> Minus(Delays[row[n].attempts + 1], call[d].took)]
        BY <3>1 DEF AfterFailure
      <4>4. r \in AnyRow
        BY <1>2, <4>2, <4>3 DEF AnyRow
      <4>5. row[n].attempts + 1 <= Len(Delays) /\ row[n].attempts + 1 <= tries'[n]
        BY <1>2, <1>3, <2>2, <3>1 DEF Retries
      <4> QED
        BY <4>3, <4>4, <4>5
    <3>2. CASE ~Retries(row[n].attempts + 1)
      <4>1. r = [status |-> "failed", attempts |-> row[n].attempts + 1, wait |-> 0]
        BY <3>2 DEF AfterFailure
      <4>2. r \in AnyRow
        BY <1>2, <4>1 DEF AnyRow
      <4>3. tries'[n] > Len(Delays)
        BY <1>2, <1>3, <2>2, <3>2 DEF Retries
      <4> QED
        BY <4>1, <4>2, <4>3
    <3> QED
      BY <3>1, <3>2
  <2> HIDE DEF r
  <2> QED
    BY <1>2, <2>1, <2>2, <2>3, DraftKeeps DEF n
<1>6. CASE Refuse(d)
  <2> DEFINE r == [status |-> "failed", attempts |-> row[n].attempts + 1, wait |-> 0]
  <2>1. r \in AnyRow /\ r.status = "failed"
    BY <1>2 DEF AnyRow
  <2>2. /\ Draft(d, n, r) /\ Count(n) /\ refused' = refused \cup {n}
        /\ inbox' = inbox /\ lost' = lost
    BY <1>6 DEF Refuse, n
  <2>3. tries' \in [Notes -> Nat] /\ \A m \in Notes : tries'[m] >= tries[m]
    BY <1>2, <1>3, <2>2, CountKeeps
  <2> QED
    BY <1>2, <2>1, <2>2, <2>3, DraftKeeps DEF n
<1>7. CASE TooMany(d)
  <2>1. PICK wait \in Asks : Draft(d, n, [row[n] EXCEPT !.wait = WaitAsked(wait, call[d].took)])
    BY <1>7 DEF TooMany, n
  <2> DEFINE r == [row[n] EXCEPT !.wait = WaitAsked(wait, call[d].took)]
  <2>2. inbox' = inbox /\ lost' = lost /\ tries' = tries /\ refused' = refused
    BY <1>7 DEF TooMany
  <2>3. WaitAsked(wait, call[d].took) \in Nat
    BY <1>2, MinusType, OutboxAssumption DEF WaitAsked
  <2>4. r \in AnyRow /\ r.status = "queued" /\ r.attempts = row[n].attempts
    BY <1>2, <2>3 DEF AnyRow
  <2>5. tries' \in [Notes -> Nat] /\ \A m \in Notes : tries'[m] >= tries[m]
    BY <1>3, <2>2 DEF Types
  <2> HIDE DEF r
  <2>6. Draft(d, n, r)
    BY <2>1 DEF r
  <2> QED
    BY <1>2, <2>2, <2>4, <2>5, <2>6, DraftKeeps DEF n
<1> QED
  BY <1>4, <1>5, <1>6, <1>7 DEF Answer

(* A row that cannot be rendered.                                          *)
LEMMA RejectKeeps ==
    ASSUME IInv, NEW d \in Dispatchers, Reject(d)
    PROVE  IInv'
<1>1. PICK n \in Left(d) : /\ Draft(d, n, [row[n] EXCEPT !.status = "failed"])
                           /\ refused' = refused \cup {n}
  BY DEF Reject
<1> DEFINE r == [row[n] EXCEPT !.status = "failed"]
<1>2. /\ call[d].note = None
      /\ inbox' = inbox /\ lost' = lost /\ tries' = tries
  BY DEF Reject, Calling
<1>3. n \in Notes /\ n \in batch[d] /\ Types /\ Runs
  BY DEF IInv, Left, Types
<1>4. row[n] \in AnyRow
  BY <1>3 DEF Types, Runs
<1>5. r \in AnyRow /\ r.status = "failed"
  BY <1>4 DEF AnyRow
<1>6. tries' \in [Notes -> Nat] /\ \A m \in Notes : tries'[m] >= tries[m]
  BY <1>2, <1>3 DEF Types
<1> QED
  BY <1>1, <1>2, <1>5, <1>6, DraftKeeps

-----------------------------------------------------------------------------
(* How rows come, and how runs begin, send and end.                        *)
LEMMA EnqueueKeeps == ASSUME IInv, NEW n \in Notes, Enqueue(n) PROVE IInv'
<1>1. Types /\ Runs /\ Counts /\ Reasons
  BY DEF IInv
<1>2. /\ row[n] = None /\ row' = [row EXCEPT ![n] = New]
      /\ draft' = draft /\ batch' = batch /\ call' = call /\ inbox' = inbox /\ lost' = lost
      /\ tries' = tries /\ refused' = refused
  BY DEF Enqueue, history
<1>3. New \in AnyRow /\ New # None /\ New.status = "queued" /\ New.attempts = 0
  BY NoneAssumption DEF New, AnyRow
<1>4. Types'
  BY <1>1, <1>2, <1>3 DEF Types
<1>5. \A m \in Notes : m # n => row'[m] = row[m]
  BY <1>1, <1>2 DEF Types
<1>6. row'[n] = New
  BY <1>1, <1>2 DEF Types
<1>7. Runs'
  BY <1>1, <1>2, <1>5 DEF Runs, Types
<1>8. Counts'
  <2>1. ASSUME NEW m \in Notes PROVE Known(m)' <=> Known(m)
    BY <1>2, <1>3, <1>5, <1>6 DEF Known, IsSent
  <2> QED
    BY <1>1, <1>2, <2>1 DEF Counts
<1>9. Reasons'
  <2>1. Justified(New, tries[n], n \in refused)
    BY <1>1, <1>3, OutboxAssumption DEF Justified, Types
  <2> QED
    BY <1>1, <1>2, <1>5, <1>6, <2>1 DEF Reasons
<1> QED
  BY <1>4, <1>7, <1>8, <1>9 DEF IInv

LEMMA BeginKeeps == ASSUME IInv, NEW d \in Dispatchers, Begin(d) PROVE IInv'
<1>1. Types /\ Runs /\ Counts /\ Reasons
  BY DEF IInv
<1>2. PICK S \in SUBSET Selectable : batch' = [batch EXCEPT ![d] = S]
  BY DEF Begin
<1>3. /\ batch[d] = {}
      /\ row' = row /\ draft' = draft /\ call' = call /\ inbox' = inbox /\ lost' = lost
      /\ tries' = tries /\ refused' = refused
  BY DEF Begin, history
<1>4. /\ S \subseteq Notes
      /\ \A n \in S : row[n] # None /\ row[n].status = "queued"
      /\ \A n \in S, e \in Dispatchers : n \notin batch[e]
  BY DEF Selectable, Queued, Locked
<1>5. Types'
  BY <1>1, <1>2, <1>3, <1>4 DEF Types
<1>6. batch'[d] = S /\ \A e \in Dispatchers : e # d => batch'[e] = batch[e]
  BY <1>1, <1>2 DEF Types
<1>7. Runs'
  <2>1. \A e \in Dispatchers : \A n \in batch'[e] : row'[n] # None /\ row'[n].status = "queued"
    BY <1>1, <1>3, <1>4, <1>6 DEF Runs
  <2>2. \A e, f \in Dispatchers : e # f => batch'[e] \cap batch'[f] = {}
    BY <1>1, <1>4, <1>6 DEF Runs
  <2>3. \A e \in Dispatchers : \A n \in Notes : draft'[e][n] # None => n \in batch'[e]
    BY <1>1, <1>3, <1>6 DEF Runs
  <2>4. \A e \in Dispatchers : call'[e].note # None =>
            call'[e].note \in batch'[e] /\ draft'[e][call'[e].note] = None
    BY <1>1, <1>3, <1>6 DEF Runs
  <2> QED
    BY <2>1, <2>2, <2>3, <2>4 DEF Runs
<1>8. Counts' /\ Reasons'
  BY <1>1, <1>3 DEF Counts, Known, Reasons
<1> QED
  BY <1>5, <1>7, <1>8 DEF IInv

LEMMA SendKeeps == ASSUME IInv, NEW d \in Dispatchers, Send(d) PROVE IInv'
<1>1. Types /\ Runs /\ Counts /\ Reasons
  BY DEF IInv
<1>2. PICK n \in Left(d) : call' = [call EXCEPT ![d] = [note |-> n, took |-> 0]]
  BY DEF Send
<1>3. /\ row' = row /\ draft' = draft /\ batch' = batch /\ inbox' = inbox /\ lost' = lost
      /\ tries' = tries /\ refused' = refused
  BY DEF Send, history
<1>4. n \in batch[d] /\ draft[d][n] = None /\ n \in Notes
  BY <1>1 DEF Left, Types
<1>5. Types'
  BY <1>1, <1>2, <1>3, <1>4 DEF Types
<1>6. call'[d].note = n /\ \A e \in Dispatchers : e # d => call'[e] = call[e]
  BY <1>1, <1>2 DEF Types
<1>7. Runs'
  BY <1>1, <1>3, <1>4, <1>6 DEF Runs
<1>8. Counts' /\ Reasons'
  BY <1>1, <1>3 DEF Counts, Known, Reasons
<1> QED
  BY <1>5, <1>7, <1>8 DEF IInv

LEMMA LoseAnswerKeeps == ASSUME IInv, NEW d \in Dispatchers, LoseAnswer(d) PROVE IInv'
<1> DEFINE n == call[d].note
<1>1. Types /\ Runs /\ Counts /\ Reasons
  BY DEF IInv
<1>2. n \in Notes
  BY Called DEF LoseAnswer
<1> HIDE DEF n
<1>3. /\ row' = row /\ draft' = draft /\ batch' = batch /\ call' = call
      /\ tries' = tries /\ refused' = refused
      /\ inbox' = [inbox EXCEPT ![n] = @ + 1] /\ lost' = [lost EXCEPT ![n] = @ + 1]
  BY DEF LoseAnswer, outbox, n
<1>4. Types'
  BY <1>1, <1>2, <1>3 DEF Types
<1>5. Runs' /\ Reasons'
  BY <1>1, <1>3 DEF Runs, Reasons
<1>6. Counts'
  <2> SUFFICES ASSUME NEW m \in Notes
               PROVE  /\ Known(m)' => inbox'[m] > 0 /\ inbox'[m] <= lost'[m] + 1
                      /\ ~Known(m)' => inbox'[m] <= lost'[m]
    BY DEF Counts
  <2>1. Known(m)' <=> Known(m)
    BY <1>3 DEF Known
  <2>2. \/ inbox'[m] = inbox[m] /\ lost'[m] = lost[m]
        \/ inbox'[m] = inbox[m] + 1 /\ lost'[m] = lost[m] + 1
    BY <1>1, <1>3 DEF Types
  <2>3. inbox[m] \in Nat /\ lost[m] \in Nat
    BY <1>1 DEF Types
  <2>4. /\ Known(m) => inbox[m] > 0 /\ inbox[m] <= lost[m] + 1
        /\ ~Known(m) => inbox[m] <= lost[m]
    BY <1>1 DEF Counts
  <2> QED
    BY <2>1, <2>2, <2>3, <2>4
<1> QED
  BY <1>4, <1>5, <1>6 DEF IInv

-----------------------------------------------------------------------------
(* The end of a run, whatever becomes of its rows.                         *)
LEMMA CloseStep ==
    ASSUME Types, Runs, NEW d \in Dispatchers, Close(d)
    PROVE  /\ draft' \in [Dispatchers -> [Notes -> AnyRow \cup {None}]]
           /\ batch' \in [Dispatchers -> SUBSET Notes]
           /\ call' \in [Dispatchers -> [note : Notes \cup {None}, took : Nat]]
           /\ batch'[d] = {} /\ call'[d].note = None
           /\ \A n \in Notes : draft'[d][n] = None
           /\ \A e \in Dispatchers : e # d =>
                 batch'[e] = batch[e] /\ call'[e] = call[e] /\ draft'[e] = draft[e]
<1>1. /\ draft' = [draft EXCEPT ![d] = [n \in Notes |-> None]]
      /\ batch' = [batch EXCEPT ![d] = {}]
      /\ call' = [call EXCEPT ![d] = NoCall]
  BY DEF Close
<1>2. NoCall \in [note : Notes \cup {None}, took : Nat] /\ NoCall.note = None
  BY DEF NoCall
<1>3. [n \in Notes |-> None] \in [Notes -> AnyRow \cup {None}]
  OBVIOUS
<1> QED
  BY <1>1, <1>2, <1>3 DEF Types

LEMMA ClosedRuns ==
    ASSUME Types, Runs, NEW d \in Dispatchers, Close(d),
           \A e \in Dispatchers : \A n \in batch[e] : e # d => row'[n] = row[n]
    PROVE  Runs'
<1>1. /\ batch'[d] = {} /\ call'[d].note = None
      /\ \A n \in Notes : draft'[d][n] = None
      /\ \A e \in Dispatchers : e # d =>
            batch'[e] = batch[e] /\ call'[e] = call[e] /\ draft'[e] = draft[e]
  BY CloseStep
<1>2. \A e \in Dispatchers : \A n \in batch'[e] : row'[n] # None /\ row'[n].status = "queued"
  BY <1>1 DEF Runs
<1>3. \A e, f \in Dispatchers : e # f => batch'[e] \cap batch'[f] = {}
  BY <1>1 DEF Runs
<1>4. \A e \in Dispatchers : \A n \in Notes : draft'[e][n] # None => n \in batch'[e]
  BY <1>1 DEF Runs
<1>5. \A e \in Dispatchers : call'[e].note # None =>
          call'[e].note \in batch'[e] /\ draft'[e][call'[e].note] = None
  BY <1>1 DEF Runs
<1> QED
  BY <1>2, <1>3, <1>4, <1>5 DEF Runs

LEMMA CommitKeeps == ASSUME IInv, NEW d \in Dispatchers, Commit(d) PROVE IInv'
<1>1. Types /\ Runs /\ Counts /\ Reasons
  BY DEF IInv
<1>2. /\ row' = [n \in Notes |-> IF draft[d][n] # None THEN draft[d][n] ELSE row[n]]
      /\ Close(d)
      /\ inbox' = inbox /\ lost' = lost /\ tries' = tries /\ refused' = refused
  BY DEF Commit, history
<1>3. /\ draft' \in [Dispatchers -> [Notes -> AnyRow \cup {None}]]
      /\ batch' \in [Dispatchers -> SUBSET Notes]
      /\ call' \in [Dispatchers -> [note : Notes \cup {None}, took : Nat]]
      /\ \A n \in Notes : draft'[d][n] = None
      /\ \A e \in Dispatchers : e # d => draft'[e] = draft[e]
  BY <1>1, <1>2, CloseStep
<1>4. \A n \in Notes : row'[n] = IF draft[d][n] # None THEN draft[d][n] ELSE row[n]
  BY <1>2
<1>5. Types'
  BY <1>1, <1>2, <1>3 DEF Types
<1>6. Runs'
  <2>1. \A e \in Dispatchers : \A n \in batch[e] : e # d => row'[n] = row[n]
    BY <1>1, <1>4 DEF Runs, Types
  <2> QED
    BY <1>1, <1>2, <2>1, ClosedRuns
<1>7. Counts'
  <2>1. ASSUME NEW n \in Notes PROVE Known(n)' <=> Known(n)
    <3>1. CASE draft[d][n] = None
      <4>1. row'[n] = row[n] /\ \A e \in Dispatchers : draft'[e][n] = draft[e][n]
        BY <1>3, <1>4, <3>1
      <4> QED
        BY <4>1 DEF Known
    <3>2. CASE draft[d][n] # None
      <4>1. n \in batch[d] /\ row'[n] = draft[d][n] /\ ~IsSent(row[n])
        BY <1>1, <1>4, <3>2 DEF Runs, IsSent
      <4>2. \A e \in Dispatchers : e # d => draft[e][n] = None
        BY <1>1, <4>1 DEF Runs
      <4>3. \A e \in Dispatchers : draft'[e][n] = None
        BY <1>3, <4>2
      <4> QED
        BY <4>1, <4>2, <4>3 DEF Known, IsSent
    <3> QED
      BY <3>1, <3>2
  <2> QED
    BY <1>1, <1>2, <2>1 DEF Counts
<1>8. Reasons'
  <2> SUFFICES ASSUME NEW n \in Notes
               PROVE  /\ Justified(row'[n], tries[n], n \in refused)
                      /\ \A e \in Dispatchers : Justified(draft'[e][n], tries[n], n \in refused)
    BY <1>2 DEF Reasons
  <2>1. Justified(row'[n], tries[n], n \in refused)
    BY <1>1, <1>4 DEF Reasons
  <2>2. ASSUME NEW e \in Dispatchers PROVE Justified(draft'[e][n], tries[n], n \in refused)
    <3>1. CASE e = d
      BY <1>3, <3>1 DEF Justified
    <3>2. CASE e # d
      BY <1>1, <1>3, <3>2 DEF Reasons
    <3> QED
      BY <3>1, <3>2
  <2> QED
    BY <2>1, <2>2
<1> QED
  BY <1>5, <1>6, <1>7, <1>8 DEF IInv

LEMMA CrashKeeps == ASSUME IInv, NEW d \in Dispatchers, Crash(d) PROVE IInv'
<1> DEFINE sent == {n \in batch[d] : draft[d][n] # None /\ draft[d][n].status = "sent"}
<1>1. Types /\ Runs /\ Counts /\ Reasons
  BY DEF IInv
<1>2. /\ lost' = [n \in Notes |-> IF n \in sent THEN lost[n] + 1 ELSE lost[n]]
      /\ Close(d)
      /\ row' = row /\ inbox' = inbox /\ tries' = tries /\ refused' = refused
  BY DEF Crash
<1>3. /\ draft' \in [Dispatchers -> [Notes -> AnyRow \cup {None}]]
      /\ batch' \in [Dispatchers -> SUBSET Notes]
      /\ call' \in [Dispatchers -> [note : Notes \cup {None}, took : Nat]]
      /\ \A n \in Notes : draft'[d][n] = None
      /\ \A e \in Dispatchers : e # d => draft'[e] = draft[e]
  BY <1>1, <1>2, CloseStep
<1>4. \A n \in Notes : n \in sent <=> IsSent(draft[d][n])
  BY <1>1 DEF Runs, IsSent
<1>5. \A n \in Notes : lost'[n] = IF IsSent(draft[d][n]) THEN lost[n] + 1 ELSE lost[n]
  BY <1>2, <1>4
<1> HIDE DEF sent
<1>6. Types'
  BY <1>1, <1>2, <1>3 DEF Types
<1>7. Runs'
  BY <1>1, <1>2, ClosedRuns
<1>8. Counts'
  <2> SUFFICES ASSUME NEW n \in Notes
               PROVE  /\ Known(n)' => inbox[n] > 0 /\ inbox[n] <= lost'[n] + 1
                      /\ ~Known(n)' => inbox[n] <= lost'[n]
    BY <1>2 DEF Counts
  <2>1. inbox[n] \in Nat /\ lost[n] \in Nat
    BY <1>1 DEF Types
  <2>2. /\ Known(n) => inbox[n] > 0 /\ inbox[n] <= lost[n] + 1
        /\ ~Known(n) => inbox[n] <= lost[n]
    BY <1>1 DEF Counts
  <2>3. CASE IsSent(draft[d][n])
    <3>1. Known(n)
      BY <2>3 DEF Known
    <3> QED
      BY <1>5, <2>1, <2>2, <2>3, <3>1
  <2>4. CASE ~IsSent(draft[d][n])
    <3>1. Known(n)' <=> Known(n)
      BY <1>2, <1>3, <2>4 DEF Known, IsSent
    <3> QED
      BY <1>5, <2>1, <2>2, <2>4, <3>1
  <2> QED
    BY <2>3, <2>4
<1>9. Reasons'
  BY <1>1, <1>2, <1>3 DEF Reasons, Justified
<1> QED
  BY <1>6, <1>7, <1>8, <1>9 DEF IInv

(* Time shortens waits and changes nothing else of a row.                  *)
LEMMA TickKeeps == ASSUME IInv, Tick PROVE IInv'
<1> DEFINE Shorter(r, q) ==
      /\ q \in AnyRow \cup {None}
      /\ r = None <=> q = None
      /\ r # None => q.status = r.status /\ q.attempts = r.attempts
<1>1. Types /\ Runs /\ Counts /\ Reasons
  BY DEF IInv
<1>2. /\ batch' = batch /\ inbox' = inbox /\ lost' = lost /\ tries' = tries
      /\ refused' = refused
  BY DEF Tick
<1>3. ASSUME NEW r \in AnyRow PROVE Shorter(r, [r EXCEPT !.wait = Minus(@, 1)])
  <2>1. Minus(r.wait, 1) \in Nat
    BY MinusType DEF AnyRow
  <2> QED
    BY <2>1, NoneAssumption DEF AnyRow
<1>4. Shorter(None, None)
  OBVIOUS
<1> HIDE DEF Shorter
<1>5. \A n \in Notes : Shorter(row[n], row'[n])
  BY <1>1, <1>3, <1>4 DEF Tick, Types
<1>6. \A d \in Dispatchers, n \in Notes : Shorter(draft[d][n], draft'[d][n])
  BY <1>1, <1>3, <1>4 DEF Tick, Types
<1> USE DEF Shorter
<1>7. call' \in [Dispatchers -> [note : Notes \cup {None}, took : Nat]]
      /\ \A d \in Dispatchers : call'[d].note = call[d].note
  <2>1. call \in [Dispatchers -> [note : Notes \cup {None}, took : Nat]]
    BY <1>1 DEF Types
  <2>2. ASSUME NEW c \in [note : Notes \cup {None}, took : Nat]
        PROVE  /\ [c EXCEPT !.took = @ + 1] \in [note : Notes \cup {None}, took : Nat]
               /\ [c EXCEPT !.took = @ + 1].note = c.note
    OBVIOUS
  <2>3. call' = [d \in Dispatchers |->
                    IF Calling(d) /\ call[d].took < MaxTook
                    THEN [call[d] EXCEPT !.took = @ + 1] ELSE call[d]]
    BY DEF Tick
  <2> QED
    BY <2>1, <2>2, <2>3
<1>8. row' \in [Notes -> AnyRow \cup {None}]
  BY <1>5 DEF Tick
<1>9. draft' \in [Dispatchers -> [Notes -> AnyRow \cup {None}]]
  BY <1>6 DEF Tick
<1>10. Types'
  BY <1>1, <1>2, <1>7, <1>8, <1>9 DEF Types
<1>11. Runs'
  <2>1. \A d \in Dispatchers : \A n \in batch'[d] : row'[n] # None /\ row'[n].status = "queued"
    BY <1>1, <1>2, <1>5 DEF Runs, Types
  <2>2. \A d, e \in Dispatchers : d # e => batch'[d] \cap batch'[e] = {}
    BY <1>1, <1>2 DEF Runs
  <2>3. \A d \in Dispatchers : \A n \in Notes : draft'[d][n] # None => n \in batch'[d]
    BY <1>1, <1>2, <1>6 DEF Runs
  <2>4. ASSUME NEW d \in Dispatchers, call'[d].note # None
        PROVE  call'[d].note \in batch'[d] /\ draft'[d][call'[d].note] = None
    <3>1. call[d].note \in batch[d] /\ draft[d][call[d].note] = None /\ call[d].note \in Notes
      BY <1>1, <1>7, <2>4 DEF Runs, Types
    <3> QED
      BY <1>2, <1>6, <1>7, <3>1
  <2> QED
    BY <2>1, <2>2, <2>3, <2>4 DEF Runs
<1>12. Counts'
  <2>1. ASSUME NEW n \in Notes PROVE Known(n)' <=> Known(n)
    BY <1>5, <1>6 DEF Known, IsSent
  <2> QED
    BY <1>1, <1>2, <2>1 DEF Counts
<1>13. Reasons'
  BY <1>1, <1>2, <1>5, <1>6 DEF Reasons, Justified
<1> QED
  BY <1>10, <1>11, <1>12, <1>13 DEF IInv

LEMMA NextIInv == IInv /\ [Next]_vars => IInv'
<1> SUFFICES ASSUME IInv, [Next]_vars PROVE IInv'
  OBVIOUS
<1>1. CASE Tick
  BY <1>1, TickKeeps
<1>2. CASE \E n \in Notes : Enqueue(n)
  BY <1>2, EnqueueKeeps
<1>3. ASSUME NEW d \in Dispatchers,
             \/ Begin(d) \/ Reject(d) \/ Send(d) \/ Answer(d) \/ LoseAnswer(d)
             \/ Commit(d) \/ Crash(d)
      PROVE  IInv'
  BY <1>3, BeginKeeps, RejectKeeps, SendKeeps, AnswersKeep, LoseAnswerKeeps, CommitKeeps,
     CrashKeeps
<1>4. CASE UNCHANGED vars
  BY <1>4 DEF vars, outbox, history, IInv, Types, Runs, Counts, Known, Reasons
<1> QED
  BY <1>1, <1>2, <1>3, <1>4 DEF Next

(* Every reachable state satisfies the inductive invariant.                *)
THEOREM OutboxInvariance == Spec => []IInv
<1> QED
  BY InitIInv, NextIInv, PTL DEF Spec

(* A row that says sent was delivered: nothing is lost by a crash between  *)
(* the change and the message (ADR-0009).                                  *)
THEOREM NothingIsLost == Spec => []SentWasDelivered
<1>1. IInv => SentWasDelivered
  BY DEF IInv, Counts, Known, IsSent, SentWasDelivered
<1> QED
  BY <1>1, OutboxInvariance, PTL

(* A second copy is always the copy of a delivery whose answer was lost or *)
(* whose run died.                                                         *)
THEOREM CopiesOnlyAfterLoss == Spec => []CopiesAreAccountedFor
<1>1. IInv => CopiesAreAccountedFor
  <2> SUFFICES ASSUME IInv, NEW n \in Notes PROVE inbox[n] <= lost[n] + 1
    BY DEF CopiesAreAccountedFor
  <2>1. inbox[n] \in Nat /\ lost[n] \in Nat
    BY DEF IInv, Types
  <2> QED
    BY <2>1 DEF IInv, Counts
<1> QED
  BY <1>1, OutboxInvariance, PTL

(* A row is failed only for one of the reasons the dispatcher knows.       *)
THEOREM FailedForAReason == Spec => []GivenUpForAReason
<1>1. IInv => GivenUpForAReason
  BY DEF IInv, Reasons, Justified, GivenUpForAReason
<1> QED
  BY <1>1, OutboxInvariance, PTL

-----------------------------------------------------------------------------
(* What Telegram asked for.  A row that is locked is due; one that nobody  *)
(* has drafted, and every draft that goes back to the queue, waits at      *)
(* least as long as Telegram still wants: so whoever sends next asks late  *)
(* enough.  The notes of cut are those whose wait the dispatcher loses.    *)
WaitsKept ==
    /\ asked \in [Notes -> Nat]
    /\ \A d \in Dispatchers : \A n \in batch[d] : row[n].wait = 0
    /\ \A n \in Notes \ cut :
         /\ row[n] = None => asked[n] = 0
         /\ Queued(n) /\ (\A d \in Dispatchers : draft[d][n] = None) => asked[n] <= row[n].wait
         /\ \A d \in Dispatchers :
              draft[d][n] # None /\ draft[d][n].status = "queued" => asked[n] <= draft[d][n].wait

(* A run that drafts n knows of no other wait of n's.                      *)
LEMMA DraftWaits ==
    ASSUME IInv, WaitsKept, NEW d \in Dispatchers, NEW n \in Left(d), NEW r \in AnyRow,
           Draft(d, n, r), call[d].note \in {None, n},
           asked' \in [Notes -> Nat],
           \A m \in Notes \ {n} : asked'[m] = asked[m] /\ (m \in cut <=> m \in cut'),
           n \notin cut' /\ r.status = "queued" => asked'[n] <= r.wait
    PROVE  WaitsKept'
<1>1. /\ row' = row /\ n \in Notes /\ draft'[d][n] = r /\ row[n] # None
      /\ \A e \in Dispatchers, m \in Notes : <<e, m>> # <<d, n>> => draft'[e][m] = draft[e][m]
  BY DraftStep
<1>2. batch' = batch /\ r # None
  BY NoneAssumption DEF Draft
<1>3. \A e \in Dispatchers : e # d => draft'[e][n] = None
  BY <1>1 DEF IInv, Runs, Left
<1>4. \A e \in Dispatchers : \A m \in batch'[e] : row'[m].wait = 0
  BY <1>1, <1>2 DEF WaitsKept
<1>5. ASSUME NEW m \in Notes, m \notin cut'
      PROVE  /\ row'[m] = None => asked'[m] = 0
             /\ Queued(m)' /\ (\A e \in Dispatchers : draft'[e][m] = None)
                  => asked'[m] <= row'[m].wait
             /\ \A e \in Dispatchers :
                  draft'[e][m] # None /\ draft'[e][m].status = "queued"
                    => asked'[m] <= draft'[e][m].wait
  <2>1. CASE m = n
    BY <1>1, <1>2, <1>3, <1>5, <2>1
  <2>2. CASE m # n
    <3>1. /\ asked'[m] = asked[m] /\ m \notin cut /\ (Queued(m)' <=> Queued(m))
          /\ \A e \in Dispatchers : draft'[e][m] = draft[e][m]
      BY <1>1, <1>5, <2>2 DEF Queued
    <3> QED
      BY <1>1, <3>1 DEF WaitsKept
  <2> QED
    BY <2>1, <2>2
<1> QED
  BY <1>4, <1>5 DEF WaitsKept

(* What is in a batch and not drafted is due: nothing is asked of it.      *)
LEMMA LeftIsDue ==
    ASSUME IInv, WaitsKept, NEW d \in Dispatchers, NEW n \in Left(d), n \notin cut
    PROVE  asked[n] = 0
<1>1. n \in batch[d] /\ draft[d][n] = None /\ n \in Notes /\ Queued(n) /\ row[n].wait = 0
  BY DEF IInv, Types, Runs, Left, Queued, WaitsKept
<1>2. \A e \in Dispatchers : draft[e][n] = None
  BY <1>1 DEF IInv, Runs
<1>3. asked[n] \in Nat /\ asked[n] <= 0
  BY <1>1, <1>2 DEF WaitsKept
<1> QED
  BY <1>3

LEMMA RejectWaits ==
    ASSUME IInv, WaitsKept, NEW d \in Dispatchers, Reject(d) PROVE WaitsKept'
<1>1. PICK n \in Left(d) : Draft(d, n, [row[n] EXCEPT !.status = "failed"])
  BY DEF Reject
<1>2. asked' = asked /\ cut' = cut /\ call[d].note = None
  BY DEF Reject, Calling
<1>3. n \in Notes /\ row[n] \in AnyRow
  BY DEF IInv, Types, Runs, Left
<1> DEFINE r == [row[n] EXCEPT !.status = "failed"]
<1>4. r \in AnyRow /\ r.status = "failed"
  BY <1>3 DEF AnyRow
<1> HIDE DEF r
<1> QED
  BY <1>1, <1>2, <1>4, DraftWaits DEF r, WaitsKept

LEMMA AnswersWait ==
    ASSUME IInv, WaitsKept, NEW d \in Dispatchers, Answer(d) PROVE WaitsKept'
<1> DEFINE n == call[d].note
<1>1. Calling(d)
  BY DEF Answer, Deliver, Error, Refuse, TooMany
<1>2. /\ n \in Left(d) /\ n \in Notes /\ row[n] \in AnyRow /\ row[n].status = "queued"
      /\ row[n].attempts \in Nat /\ call[d].took \in Nat
  BY <1>1, Called
<1>3. asked \in [Notes -> Nat] /\ (n \notin cut => asked[n] = 0)
  BY <1>2, LeftIsDue DEF WaitsKept
<1> HIDE DEF n
<1>4. CASE Deliver(d)
  <2> DEFINE r == [status |-> "sent", attempts |-> row[n].attempts + 1, wait |-> 0]
  <2>1. r \in AnyRow /\ r.status = "sent"
    BY <1>2 DEF AnyRow
  <2>2. Draft(d, n, r) /\ asked' = asked /\ cut' = cut
    BY <1>4 DEF Deliver, history, n
  <2> HIDE DEF r
  <2> QED
    BY <1>2, <1>3, <2>1, <2>2, DraftWaits DEF n
<1>5. CASE Error(d)
  <2> DEFINE r == AfterFailure(row[n], call[d].took)
  <2>1. Draft(d, n, r) /\ asked' = asked /\ cut' = cut
    BY <1>5 DEF Error, n
  <2>2. r \in AnyRow
    <3>1. CASE Retries(row[n].attempts + 1)
      <4>1. Delays[row[n].attempts + 1] \in Nat
        BY <1>2, <3>1, OutboxAssumption DEF Retries
      <4>2. Minus(Delays[row[n].attempts + 1], call[d].took) \in Nat
        BY <1>2, <4>1, MinusType
      <4> QED
        BY <1>2, <3>1, <4>2 DEF AfterFailure, AnyRow
    <3>2. CASE ~Retries(row[n].attempts + 1)
      BY <1>2, <3>2 DEF AfterFailure, AnyRow
    <3> QED
      BY <3>1, <3>2
  <2> HIDE DEF r
  <2>3. r.wait \in Nat
    BY <2>2 DEF AnyRow
  <2> QED
    BY <1>2, <1>3, <2>1, <2>2, <2>3, DraftWaits DEF n
<1>6. CASE Refuse(d)
  <2> DEFINE r == [status |-> "failed", attempts |-> row[n].attempts + 1, wait |-> 0]
  <2>1. r \in AnyRow /\ r.status = "failed"
    BY <1>2 DEF AnyRow
  <2>2. Draft(d, n, r) /\ asked' = asked /\ cut' = cut
    BY <1>6 DEF Refuse, n
  <2> HIDE DEF r
  <2> QED
    BY <1>2, <1>3, <2>1, <2>2, DraftWaits DEF n
<1>7. CASE TooMany(d)
  <2>1. PICK wait \in Asks :
          /\ Draft(d, n, [row[n] EXCEPT !.wait = WaitAsked(wait, call[d].took)])
          /\ asked' = [asked EXCEPT ![n] = wait]
    BY <1>7 DEF TooMany, n
  <2> DEFINE r == [row[n] EXCEPT !.wait = WaitAsked(wait, call[d].took)]
  <2>2. cut' = IF call[d].took > 0 THEN cut \cup {n} ELSE cut \ {n}
    BY <1>7 DEF TooMany, n
  <2>3. wait \in Nat /\ WaitAsked(wait, call[d].took) \in Nat
    BY <1>2, MinusType, OutboxAssumption DEF WaitAsked
  <2>4. r \in AnyRow /\ r.wait = WaitAsked(wait, call[d].took)
    BY <1>2, <2>3 DEF AnyRow
  <2>5. n \notin cut' => r.wait = wait
    BY <1>2, <2>2, <2>3, <2>4 DEF WaitAsked, Minus
  <2>6. asked' \in [Notes -> Nat] /\ asked'[n] = wait
    BY <1>2, <1>3, <2>1, <2>3
  <2>7. \A m \in Notes \ {n} : asked'[m] = asked[m] /\ (m \in cut <=> m \in cut')
    BY <1>3, <2>1, <2>2
  <2>8. Draft(d, n, r)
    BY <2>1
  <2>9. n \notin cut' /\ r.status = "queued" => asked'[n] <= r.wait
    BY <2>3, <2>5, <2>6
  <2> HIDE DEF r
  <2> QED
    BY <1>2, <2>4, <2>6, <2>7, <2>8, <2>9, DraftWaits DEF n
<1> QED
  BY <1>4, <1>5, <1>6, <1>7 DEF Answer

(* The steps that draft nothing.                                           *)
LEMMA EnqueueWaits == ASSUME IInv, WaitsKept, NEW n \in Notes, Enqueue(n) PROVE WaitsKept'
<1>1. /\ row[n] = None /\ row' = [row EXCEPT ![n] = New]
      /\ draft' = draft /\ batch' = batch /\ asked' = asked /\ cut' = cut
  BY DEF Enqueue, history
<1>2. row'[n] = New /\ New.wait = 0 /\ New # None
  BY <1>1, NoneAssumption DEF New, AnyRow, IInv, Types
<1>3. \A m \in Notes : m # n => row'[m] = row[m] /\ (Queued(m)' <=> Queued(m))
  BY <1>1 DEF Queued, IInv, Types
<1>4. \A d \in Dispatchers : n \notin batch[d] /\ draft[d][n] = None
  BY <1>1 DEF IInv, Runs
<1>5. \A d \in Dispatchers : \A m \in batch'[d] : row'[m].wait = 0
  BY <1>1, <1>3, <1>4 DEF WaitsKept, IInv, Types
<1>6. ASSUME NEW m \in Notes, m \notin cut'
      PROVE  /\ row'[m] = None => asked'[m] = 0
             /\ Queued(m)' /\ (\A e \in Dispatchers : draft'[e][m] = None)
                  => asked'[m] <= row'[m].wait
             /\ \A e \in Dispatchers :
                  draft'[e][m] # None /\ draft'[e][m].status = "queued"
                    => asked'[m] <= draft'[e][m].wait
  <2>1. CASE m = n
    BY <1>1, <1>2, <1>4, <1>6, <2>1 DEF WaitsKept
  <2>2. CASE m # n
    BY <1>1, <1>3, <1>6, <2>2 DEF WaitsKept
  <2> QED
    BY <2>1, <2>2
<1> QED
  BY <1>1, <1>5, <1>6 DEF WaitsKept

LEMMA BeginWaits == ASSUME IInv, WaitsKept, NEW d \in Dispatchers, Begin(d) PROVE WaitsKept'
<1>1. PICK S \in SUBSET Selectable : batch' = [batch EXCEPT ![d] = S]
  BY DEF Begin
<1>2. row' = row /\ draft' = draft /\ asked' = asked /\ cut' = cut
  BY DEF Begin, history
<1>3. \A n \in S : row[n].wait = 0
  BY DEF Selectable
<1>4. \A e \in Dispatchers : batch'[e] = IF e = d THEN S ELSE batch[e]
  BY <1>1 DEF IInv, Types
<1> QED
  BY <1>2, <1>3, <1>4 DEF WaitsKept, Queued

LEMMA CallWaits ==
    ASSUME WaitsKept, row' = row, draft' = draft, batch' = batch, asked' = asked, cut' = cut
    PROVE  WaitsKept'
BY DEF WaitsKept, Queued

LEMMA CommitWaits == ASSUME IInv, WaitsKept, NEW d \in Dispatchers, Commit(d) PROVE WaitsKept'
<1>1. /\ \A n \in Notes : row'[n] = IF draft[d][n] # None THEN draft[d][n] ELSE row[n]
      /\ Close(d) /\ asked' = asked /\ cut' = cut
  BY DEF Commit, history
<1>2. /\ \A n \in Notes : draft'[d][n] = None
      /\ batch'[d] = {}
      /\ \A e \in Dispatchers : e # d => batch'[e] = batch[e] /\ draft'[e] = draft[e]
  BY <1>1, CloseStep DEF IInv
<1>3. \A n \in Notes : draft[d][n] # None => n \in batch[d] /\ row[n] # None
  BY DEF IInv, Runs
<1>4. \A e \in Dispatchers : \A n \in batch'[e] : row'[n].wait = 0
  <2>1. ASSUME NEW e \in Dispatchers, NEW n \in batch'[e] PROVE e # d /\ n \in batch[e] /\ n \in Notes
    BY <1>2, <2>1 DEF IInv, Types
  <2>2. ASSUME NEW e \in Dispatchers, NEW n \in batch'[e] PROVE draft[d][n] = None
    BY <1>3, <2>1 DEF IInv, Runs
  <2> QED
    BY <1>1, <2>1, <2>2 DEF WaitsKept
<1>5. ASSUME NEW n \in Notes, n \notin cut'
      PROVE  /\ row'[n] = None => asked'[n] = 0
             /\ Queued(n)' /\ (\A e \in Dispatchers : draft'[e][n] = None)
                  => asked'[n] <= row'[n].wait
             /\ \A e \in Dispatchers :
                  draft'[e][n] # None /\ draft'[e][n].status = "queued"
                    => asked'[n] <= draft'[e][n].wait
  <2>1. CASE draft[d][n] = None
    <3>1. row'[n] = row[n] /\ (Queued(n)' <=> Queued(n))
          /\ \A e \in Dispatchers : draft'[e][n] = draft[e][n]
      BY <1>1, <1>2, <2>1 DEF Queued
    <3> QED
      BY <1>1, <1>5, <3>1 DEF WaitsKept
  <2>2. CASE draft[d][n] # None
    <3>1. row'[n] = draft[d][n]
      BY <1>1, <2>2
    <3>2. \A e \in Dispatchers : draft'[e][n] = None
      BY <1>2, <1>3, <2>2 DEF IInv, Runs
    <3>3. Queued(n)' => draft[d][n].status = "queued"
      BY <3>1 DEF Queued
    <3> QED
      BY <1>1, <1>5, <2>2, <3>1, <3>2, <3>3 DEF WaitsKept
  <2> QED
    BY <2>1, <2>2
<1> QED
  BY <1>1, <1>4, <1>5 DEF WaitsKept

LEMMA CrashWaits == ASSUME IInv, WaitsKept, NEW d \in Dispatchers, Crash(d) PROVE WaitsKept'
<1>1. Close(d) /\ row' = row /\ asked' = asked /\ cut' = cut \cup batch[d]
  BY DEF Crash
<1>2. /\ \A n \in Notes : draft'[d][n] = None
      /\ batch'[d] = {}
      /\ \A e \in Dispatchers : e # d => batch'[e] = batch[e] /\ draft'[e] = draft[e]
  BY <1>1, CloseStep DEF IInv
<1>3. \A n \in Notes \ cut' : draft[d][n] = None
  BY <1>1 DEF IInv, Runs
<1>4. \A n \in Notes \ cut', e \in Dispatchers : draft'[e][n] = draft[e][n]
  BY <1>2, <1>3
<1>5. \A e \in Dispatchers : \A n \in batch'[e] : row'[n].wait = 0
  BY <1>1, <1>2 DEF WaitsKept
<1> QED
  BY <1>1, <1>4, <1>5 DEF WaitsKept, Queued

LEMMA MinusOne ==
    ASSUME NEW a \in Nat, NEW b \in Nat
    PROVE  /\ Minus(a, 1) \in Nat /\ Minus(0, 1) = 0
           /\ a <= b => Minus(a, 1) <= Minus(b, 1)
BY DEF Minus

LEMMA TickWaits == ASSUME IInv, WaitsKept, Tick PROVE WaitsKept'
<1> DEFINE Shorter(r, q) ==
      /\ r = None <=> q = None
      /\ r # None => q.status = r.status /\ q.wait = Minus(r.wait, 1) /\ r.wait \in Nat
<1>1. batch' = batch /\ cut' = cut
  BY DEF Tick
<1>2. ASSUME NEW r \in AnyRow PROVE Shorter(r, [r EXCEPT !.wait = Minus(@, 1)])
  <2>1. Minus(r.wait, 1) \in Nat
    BY MinusType DEF AnyRow
  <2>2. [r EXCEPT !.wait = Minus(@, 1)] \in AnyRow
    BY <2>1 DEF AnyRow
  <2> QED
    BY <2>2, NoneAssumption DEF AnyRow
<1>3. Shorter(None, None)
  OBVIOUS
<1> HIDE DEF Shorter
<1>4. \A n \in Notes : Shorter(row[n], row'[n])
  BY <1>2, <1>3 DEF Tick, IInv, Types
<1>5. \A d \in Dispatchers, n \in Notes : Shorter(draft[d][n], draft'[d][n])
  BY <1>2, <1>3 DEF Tick, IInv, Types
<1> USE DEF Shorter
<1>6. asked' \in [Notes -> Nat] /\ \A n \in Notes : asked'[n] = Minus(asked[n], 1)
  BY MinusOne DEF Tick, WaitsKept
<1>7. \A d \in Dispatchers : \A n \in batch'[d] : row'[n].wait = 0
  <2>1. ASSUME NEW d \in Dispatchers, NEW n \in batch[d]
        PROVE  n \in Notes /\ row[n] # None /\ row[n].wait = 0
    BY DEF IInv, Runs, Types, WaitsKept
  <2> QED
    BY <1>1, <1>4, <2>1, MinusOne
<1>8. ASSUME NEW n \in Notes, n \notin cut'
      PROVE  /\ row'[n] = None => asked'[n] = 0
             /\ Queued(n)' /\ (\A e \in Dispatchers : draft'[e][n] = None)
                  => asked'[n] <= row'[n].wait
             /\ \A e \in Dispatchers :
                  draft'[e][n] # None /\ draft'[e][n].status = "queued"
                    => asked'[n] <= draft'[e][n].wait
  <2>1. asked[n] \in Nat /\ n \notin cut
    BY <1>1, <1>8 DEF WaitsKept
  <2>2. row'[n] = None => asked'[n] = 0
    BY <1>4, <1>6, <2>1, MinusOne DEF WaitsKept
  <2>3. ASSUME Queued(n)', \A e \in Dispatchers : draft'[e][n] = None
        PROVE  asked'[n] <= row'[n].wait
    <3>1. Queued(n) /\ row[n].wait \in Nat /\ row'[n].wait = Minus(row[n].wait, 1)
      BY <1>4, <2>3 DEF Queued
    <3>2. asked[n] <= row[n].wait
      BY <1>5, <2>1, <2>3, <3>1 DEF WaitsKept
    <3> QED
      BY <1>6, <2>1, <3>1, <3>2, MinusOne
  <2>4. ASSUME NEW e \in Dispatchers, draft'[e][n] # None, draft'[e][n].status = "queued"
        PROVE  asked'[n] <= draft'[e][n].wait
    <3>1. /\ draft[e][n] # None /\ draft[e][n].status = "queued"
          /\ draft[e][n].wait \in Nat /\ draft'[e][n].wait = Minus(draft[e][n].wait, 1)
      BY <1>5, <2>4
    <3>2. asked[n] <= draft[e][n].wait
      BY <2>1, <3>1 DEF WaitsKept
    <3> QED
      BY <1>6, <2>1, <3>1, <3>2, MinusOne
  <2> QED
    BY <2>2, <2>3, <2>4
<1> QED
  BY <1>6, <1>7, <1>8 DEF WaitsKept

LEMMA NextWaits == IInv /\ WaitsKept /\ [Next]_vars => WaitsKept'
<1> SUFFICES ASSUME IInv, WaitsKept, [Next]_vars PROVE WaitsKept'
  OBVIOUS
<1>1. CASE Tick
  BY <1>1, TickWaits
<1>2. CASE \E n \in Notes : Enqueue(n)
  BY <1>2, EnqueueWaits
<1>3. ASSUME NEW d \in Dispatchers, Send(d) \/ LoseAnswer(d) PROVE WaitsKept'
  BY <1>3, CallWaits DEF Send, LoseAnswer, outbox, history
<1>4. ASSUME NEW d \in Dispatchers, Begin(d) \/ Reject(d) \/ Answer(d) \/ Commit(d) \/ Crash(d)
      PROVE  WaitsKept'
  BY <1>4, BeginWaits, RejectWaits, AnswersWait, CommitWaits, CrashWaits
<1>5. CASE UNCHANGED vars
  BY <1>5, CallWaits DEF vars, outbox, history
<1> QED
  BY <1>1, <1>2, <1>3, <1>4, <1>5 DEF Next

LEMMA WaitsAreKept == Spec => [](IInv /\ WaitsKept)
<1>1. Init => WaitsKept
  BY DEF Init, WaitsKept, Queued
<1> QED
  BY <1>1, InitIInv, NextIInv, NextWaits, PTL DEF Spec

(* A note whose wait the dispatcher has not lost is sent only once that    *)
(* wait is over, for any waits asked for, delays and overlapping runs.     *)
THEOREM WaitsAsAsked == Spec => AsksNoEarlier
<1>1. ASSUME IInv, WaitsKept, [Next]_vars, NEW d \in Dispatchers, NEW n \in Notes \ cut,
             call[d].note = None, call'[d].note = n
      PROVE  asked[n] = 0
  <2>1. n # None
    BY NoneAssumption
  <2>2. call \in [Dispatchers -> [note : Notes \cup {None}, took : Nat]]
    BY <1>1 DEF IInv, Types
  <2>3. CASE Send(d)
    <3>1. PICK m \in Left(d) : call' = [call EXCEPT ![d] = [note |-> m, took |-> 0]]
      BY <2>3 DEF Send
    <3>2. m = n
      BY <1>1, <2>2, <3>1
    <3> QED
      BY <1>1, <3>2, LeftIsDue
  <2>4. CASE \E e \in Dispatchers \ {d} : Send(e)
    BY <1>1, <2>1, <2>2, <2>4 DEF Send
  <2>5. CASE \E e \in Dispatchers : Reject(e) \/ Answer(e) \/ Commit(e) \/ Crash(e)
    <3>1. PICK e \in Dispatchers : call' = [call EXCEPT ![e] = NoCall]
      BY <2>5 DEF Reject, Answer, Deliver, Error, Refuse, TooMany, Draft, Commit, Crash, Close
    <3> QED
      BY <1>1, <2>1, <2>2, <3>1 DEF NoCall
  <2>6. CASE Tick
    <3>1. call'[d] = IF Calling(d) /\ call[d].took < MaxTook
                     THEN [call[d] EXCEPT !.took = @ + 1] ELSE call[d]
      BY <2>6 DEF Tick
    <3> QED
      BY <1>1, <2>1, <3>1 DEF Calling
  <2>7. CASE call' = call
    BY <1>1, <2>1, <2>7
  <2>8. \/ Tick \/ call' = call
        \/ \E e \in Dispatchers : Send(e) \/ Reject(e) \/ Answer(e) \/ Commit(e) \/ Crash(e)
    BY <1>1 DEF Next, vars, outbox, Enqueue, Begin, LoseAnswer
  <2> QED
    BY <2>3, <2>4, <2>5, <2>6, <2>7, <2>8
<1>2. IInv /\ WaitsKept /\ [Next]_vars =>
        [\A d \in Dispatchers, n \in Notes \ cut :
            call[d].note = None /\ call'[d].note = n => asked[n] = 0]_vars
  BY <1>1
<1> QED
  BY <1>2, WaitsAreKept, PTL DEF Spec, AsksNoEarlier
=============================================================================
