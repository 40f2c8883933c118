---------------------------- MODULE CatalogProofs ----------------------------
(***************************************************************************)
(* For any number of members, products, names and transactions: a name is  *)
(* one product's and a proposal is settled once.  Only the holder of the   *)
(* advisory lock writes products, so what it has read still holds when it  *)
(* commits, and nobody else acts on what it has read (IInv of Catalog).    *)
(* Then the cascade into offers and reservations, which are written        *)
(* without that lock (CascadeInv): a step that reads, selects or locks     *)
(* keeps it by StepSelects, one that writes by WriteSelects.               *)
(***************************************************************************)
EXTENDS Catalog, FiniteSetTheorems, TLAPS

LEMMA IdleIsTyped == NoTx \in TxState
BY DEF NoTx, TxState

\* Offers change, and those that refer to a product still do.
StillRefer ==
    /\ OffersRefer'
    /\ \A o \in Offers : offer[o].product \in Products => offer'[o].product \in Products

(* A step of one transaction that writes no product keeps the invariant if *)
(* it enters the catalogue only when that is free, and what it has read    *)
(* then holds.                                                             *)
LEMMA StepKeeps ==
    ASSUME IInv, NEW t \in Txs, NEW s \in TxState, Set(t, s),
           product' = product, told' = told,
           s.step # "idle" /\ s.op \in {"sync", "merge", "reject"} =>
              InCatalogue(t) \/ CatalogueFree,
           SyncHasRead(s), AdminHasRead(s), PublishHasRead(s),
           offer' = offer \/ StillRefer
    PROVE  IInv'
<1>1. tx' \in [Txs -> TxState] /\ tx'[t] = s
  BY DEF IInv, Set
<1>2. \A u \in Txs : u # t => tx'[u] = tx[u]
  BY DEF IInv, Set
<1>3. \A u \in Txs : u # t => (InCatalogue(u)' <=> InCatalogue(u))
  BY <1>2 DEF InCatalogue, Free
<1>4. InCatalogue(t)' => InCatalogue(t) \/ CatalogueFree
  BY <1>1 DEF InCatalogue, Free
<1>5. OneInCatalogue'
  BY <1>3, <1>4 DEF IInv, OneInCatalogue, CatalogueFree
<1>6. NamesAreUnique' /\ \A p \in Products : Tells(p)'
  BY DEF IInv, NamesAreUnique, Tells, Exists
<1>7. ASSUME NEW u \in Txs
      PROVE  SyncHasRead(tx[u])' /\ AdminHasRead(tx[u])' /\ PublishHasRead(tx[u])'
  <2>1. /\ SyncHasRead(tx'[u]) /\ AdminHasRead(tx'[u]) /\ PublishHasRead(tx'[u])
        /\ tx'[u].offers \subseteq Offers
    BY <1>1, <1>2 DEF IInv, TxState
  <2> QED
    BY <2>1 DEF SyncHasRead, AdminHasRead, PublishHasRead, Named, Exists, StillRefer
<1>8. OffersRefer'
  BY DEF IInv, OffersRefer, StillRefer
<1> QED
  BY <1>1, <1>5, <1>6, <1>7, <1>8 DEF IInv

(* A write to products that leaves nobody in the catalogue.                *)
LEMMA WriteKeeps ==
    ASSUME product' \in [Products -> ProductRow], tx' \in [Txs -> TxState],
           told' \in [Products -> {<< >>, <<"resolved">>, <<"rejected">>}],
           \A u \in Txs : ~InCatalogue(u)' /\ PublishHasRead(tx[u])', OffersRefer',
           NamesAreUnique', \A p \in Products : Tells(p)'
    PROVE  IInv'
BY DEF IInv, OneInCatalogue, InCatalogue, Free, SyncHasRead, AdminHasRead

(* The holder of the lock ends: nobody is in the catalogue.                *)
LEMMA EndFrees ==
    ASSUME IInv, NEW t \in Txs, InCatalogue(t), End(t)
    PROVE  tx' \in [Txs -> TxState] /\ \A u \in Txs : ~InCatalogue(u)' /\ PublishHasRead(tx[u])'
<1>1. tx' \in [Txs -> TxState] /\ tx'[t] = NoTx /\ \A u \in Txs : u # t => tx'[u] = tx[u]
  BY IdleIsTyped DEF IInv, End, Set
<1>2. \A u \in Txs : u # t => ~InCatalogue(u)
  BY DEF IInv, OneInCatalogue
<1>3. \A u \in Txs : ~InCatalogue(u)'
  BY <1>1, <1>2 DEF InCatalogue, Free, NoTx
<1>4. \A u \in Txs : PublishHasRead(tx[u])'
  BY <1>1 DEF IInv, PublishHasRead, NoTx
<1> QED
  BY <1>1, <1>3, <1>4

(* A step whose transaction gives up or ends outside the catalogue.        *)
LEMMA EndKeeps ==
    ASSUME IInv, NEW t \in Txs, End(t), product' = product, told' = told,
           offer' = offer \/ StillRefer
    PROVE  IInv'
<1>1. SyncHasRead(NoTx) /\ AdminHasRead(NoTx) /\ PublishHasRead(NoTx) /\ NoTx.step = "idle"
  BY DEF SyncHasRead, AdminHasRead, PublishHasRead, NoTx
<1> QED
  BY <1>1, IdleIsTyped, StepKeeps DEF End

-----------------------------------------------------------------------------
(* One row under the lock.                                                 *)
LEMMA ProposeKeeps ==
    ASSUME IInv, NEW m \in Members, NEW n \in Names, NEW p \in Products, Propose(m, n, p)
    PROVE  IInv'
<1> DEFINE row == [status |-> "pending", slug |-> n, source |-> "member", by |-> m,
                   priced |-> FALSE]
<1>1. /\ CatalogueFree /\ Named(n) = {} /\ product[p].status = "none"
      /\ product' = [product EXCEPT ![p] = row] /\ tx' = tx /\ told' = told /\ offer' = offer
  BY DEF Propose, Proposes, Unused
<1>2. row \in ProductRow
  BY DEF ProductRow
<1>3. product' \in [Products -> ProductRow]
  BY <1>1, <1>2 DEF IInv
<1>4. product'[p] = row /\ \A q \in Products : q # p => product'[q] = product[q]
  BY <1>1 DEF IInv
<1>5. \A u \in Txs : ~InCatalogue(u)'
  BY <1>1 DEF CatalogueFree, InCatalogue, Free
<1>6. NamesAreUnique'
  BY <1>1, <1>4 DEF IInv, NamesAreUnique, Named, Exists
<1>7. ASSUME NEW q \in Products PROVE Tells(q)'
  <2>1. CASE q = p
    BY <1>1, <1>4, <2>1, CatalogAssumption DEF IInv, Tells
  <2>2. CASE q # p
    BY <1>1, <1>4, <2>2 DEF IInv, Tells
  <2> QED
    BY <2>1, <2>2
<1>8. OffersRefer' /\ \A u \in Txs : PublishHasRead(tx[u])'
  BY <1>1 DEF IInv, OffersRefer, PublishHasRead
<1>9. /\ tx' \in [Txs -> TxState]
      /\ told' \in [Products -> {<< >>, <<"resolved">>, <<"rejected">>}]
  BY <1>1 DEF IInv
<1> QED
  BY <1>3, <1>5, <1>6, <1>7, <1>8, <1>9, WriteKeeps

LEMMA RenameKeeps ==
    ASSUME IInv, NEW p \in Products, NEW n \in Names, Rename(p, n)
    PROVE  IInv'
<1>1. /\ CatalogueFree /\ Named(n) = {} /\ product[p].status = "pending"
      /\ product' = [product EXCEPT ![p].slug = n] /\ tx' = tx /\ told' = told /\ offer' = offer
  BY DEF Rename
<1>2. [product[p] EXCEPT !.slug = n] \in ProductRow
  BY DEF IInv, ProductRow
<1>3. product' \in [Products -> ProductRow]
  BY <1>1, <1>2 DEF IInv
<1>4. /\ product'[p].slug = n /\ product'[p].status = "pending" /\ product'[p].by = product[p].by
      /\ \A q \in Products : q # p => product'[q] = product[q]
  BY <1>1 DEF IInv, ProductRow
<1>5. \A u \in Txs : ~InCatalogue(u)'
  BY <1>1 DEF CatalogueFree, InCatalogue, Free
<1>6. NamesAreUnique'
  BY <1>1, <1>4 DEF IInv, NamesAreUnique, Named, Exists
<1>7. ASSUME NEW q \in Products PROVE Tells(q)'
  <2>1. CASE q = p
    BY <1>1, <1>4, <2>1 DEF IInv, Tells
  <2>2. CASE q # p
    BY <1>1, <1>4, <2>2 DEF IInv, Tells
  <2> QED
    BY <2>1, <2>2
<1>8. OffersRefer' /\ \A u \in Txs : PublishHasRead(tx[u])'
  BY <1>1 DEF IInv, OffersRefer, PublishHasRead
<1>9. /\ tx' \in [Txs -> TxState]
      /\ told' \in [Products -> {<< >>, <<"resolved">>, <<"rejected">>}]
  BY <1>1 DEF IInv
<1> QED
  BY <1>3, <1>5, <1>6, <1>7, <1>8, <1>9, WriteKeeps

-----------------------------------------------------------------------------
(* sync                                                                    *)
LEMMA BeginSyncKeeps ==
    ASSUME IInv, NEW t \in Txs, BeginSync(t)
    PROVE  IInv'
<1> PICK sheet \in Sheets :
      /\ sheet.valid # {}
      /\ Set(t, [NoTx EXCEPT
              !.op = "sync", !.step = "scan", !.valid = sheet.valid,
              !.bySlug = [n \in Names |-> IF Named(n) = {} THEN None
                                          ELSE CHOOSE p \in Named(n) : TRUE],
              !.missing = {p \in Products : /\ product[p].status = "active"
                                            /\ product[p].source = "sheet"
                                            /\ product[p].slug \notin sheet.present},
              !.todo = {p \in Products : product[p].status = "pending"
                                             /\ product[p].slug \in sheet.valid}])
  BY DEF BeginSync
<1> DEFINE known == [n \in Names |-> IF Named(n) = {} THEN None ELSE CHOOSE p \in Named(n) : TRUE]
           gone == {p \in Products : /\ product[p].status = "active"
                                     /\ product[p].source = "sheet"
                                     /\ product[p].slug \notin sheet.present}
           resolved == {p \in Products : product[p].status = "pending"
                                              /\ product[p].slug \in sheet.valid}
           s == [NoTx EXCEPT !.op = "sync", !.step = "scan", !.valid = sheet.valid,
                             !.bySlug = known, !.missing = gone, !.todo = resolved]
<1>1. Set(t, s) /\ CatalogueFree /\ product' = product /\ offer' = offer /\ told' = told
  BY DEF BeginSync, data
<1>2. \A n \in Names : /\ Named(n) = {} => known[n] = None
                       /\ Named(n) # {} => known[n] \in Named(n)
  OBVIOUS
<1>3. known \in [Names -> Products \cup {None}]
  BY DEF Named
<1>4. sheet.valid \in SUBSET Names /\ gone \in SUBSET Products /\ resolved \in SUBSET Products
  BY DEF Sheets
<1>5. /\ s.op = "sync" /\ s.step = "scan" /\ s.valid = sheet.valid /\ s.bySlug = known
      /\ s.missing = gone /\ s.todo = resolved /\ s.seen = {}
  BY DEF NoTx
<1>6. s \in TxState
  <2> HIDE DEF known, gone, resolved
  <2> QED
    BY <1>3, <1>4 DEF NoTx, TxState
<1>7. SyncHasRead(s)
  <2>1. \A p \in s.missing : product[p].status = "active"
    BY <1>5
  <2>2. \A p \in Products : p \in s.todo \cup s.seen <=>
                            product[p].status = "pending" /\ product[p].slug \in s.valid
    BY <1>5
  <2>3. \A n \in Names : IF s.bySlug[n] = None THEN Named(n) = {} ELSE s.bySlug[n] \in Named(n)
    <3> HIDE DEF known, s
    <3> QED
      BY <1>2, <1>5, CatalogAssumption DEF Named
  <2> QED
    BY <2>1, <2>2, <2>3 DEF SyncHasRead
<1>8. AdminHasRead(s) /\ PublishHasRead(s)
  BY <1>5 DEF AdminHasRead, PublishHasRead
<1> HIDE DEF s
<1> QED
  BY <1>1, <1>6, <1>7, <1>8, StepKeeps

LEMMA SelectKeeps ==
    ASSUME IInv, NEW t \in Txs, Scan(t) \/ LockRow(t)
    PROVE  IInv'
<1>0. tx[t] \in TxState /\ SyncHasRead(tx[t]) /\ AdminHasRead(tx[t]) /\ PublishHasRead(tx[t])
  BY DEF IInv
<1>1. CASE Scan(t)
  <2> PICK p \in tx[t].todo :
        Set(t, [tx[t] EXCEPT !.todo = @ \ {p}, !.seen = @ \cup {p},
                             !.scan = {r \in Rsvs : /\ Open(r) /\ ~rsv[r].priced
                                                    /\ \/ ProductOf(r) = p
                                                       \/ rsv[r].offer \in tx[t].offers}])
    BY <1>1 DEF Scan
  <2> DEFINE selected == {r \in Rsvs : /\ Open(r) /\ ~rsv[r].priced
                                       /\ \/ ProductOf(r) = p \/ rsv[r].offer \in tx[t].offers}
             s == [tx[t] EXCEPT !.todo = @ \ {p}, !.seen = @ \cup {p}, !.scan = selected]
  <2>1. Set(t, s) /\ product' = product /\ offer' = offer /\ told' = told /\ InCatalogue(t)
    BY <1>1 DEF Scan, data, InCatalogue, Free
  <2>2. selected \in SUBSET Rsvs
    OBVIOUS
  <2> HIDE DEF selected
  <2>3. /\ s.op = tx[t].op /\ s.step = tx[t].step /\ s.valid = tx[t].valid
        /\ s.bySlug = tx[t].bySlug /\ s.missing = tx[t].missing /\ s.product = tx[t].product
        /\ s.target = tx[t].target /\ s.who = tx[t].who /\ s.offers = tx[t].offers
        /\ s.todo \cup s.seen = tx[t].todo \cup tx[t].seen
    BY <1>0 DEF TxState
  <2>4. s \in TxState
    BY <1>0, <2>2 DEF TxState
  <2> HIDE DEF s
  <2>5. SyncHasRead(s) /\ AdminHasRead(s) /\ PublishHasRead(s)
    BY <1>0, <2>3 DEF SyncHasRead, AdminHasRead, PublishHasRead
  <2> QED
    BY <2>1, <2>4, <2>5, StepKeeps
<1>2. CASE LockRow(t)
  <2> PICK r \in tx[t].scan :
        Set(t, [tx[t] EXCEPT !.scan = @ \ {r},
                             !.rows = IF Open(r) THEN @ \cup {r} ELSE @])
    BY <1>2 DEF LockRow
  <2> DEFINE s == [tx[t] EXCEPT !.scan = @ \ {r}, !.rows = IF Open(r) THEN @ \cup {r} ELSE @]
  <2>1. Set(t, s) /\ product' = product /\ offer' = offer /\ told' = told
    BY <1>2 DEF LockRow, data
  <2>2. /\ s.op = tx[t].op /\ s.step = tx[t].step /\ s.valid = tx[t].valid
        /\ s.bySlug = tx[t].bySlug /\ s.missing = tx[t].missing /\ s.product = tx[t].product
        /\ s.target = tx[t].target /\ s.who = tx[t].who /\ s.offers = tx[t].offers
        /\ s.todo = tx[t].todo /\ s.seen = tx[t].seen
    BY <1>0 DEF TxState
  <2>3. s \in TxState
    BY <1>0 DEF TxState
  <2> HIDE DEF s
  <2>4. SyncHasRead(s) /\ AdminHasRead(s) /\ PublishHasRead(s)
    BY <1>0, <2>2 DEF SyncHasRead, AdminHasRead, PublishHasRead
  <2>5. s.step # "idle" /\ s.op \in {"sync", "merge", "reject"} => InCatalogue(t)
    BY <2>2 DEF InCatalogue, Free
  <2> QED
    BY <2>1, <2>3, <2>4, <2>5, StepKeeps
<1> QED
  BY <1>1, <1>2

LEMMA CommitSyncKeeps ==
    ASSUME IInv, NEW t \in Txs, CommitSync(t)
    PROVE  IInv'
<1> DEFINE s == tx[t]
           new == {n \in s.valid : s.bySlug[n] = None}
           listed == {s.bySlug[n] : n \in s.valid \ new}
<1>1. /\ s.op = "sync" /\ s.step = "scan" /\ s.todo = {} /\ End(t) /\ InCatalogue(t)
      /\ told' = [p \in Products |-> IF p \in s.seen /\ Len(told[p]) < 2
                                     THEN Append(told[p], "resolved") ELSE told[p]]
  BY DEF CommitSync, At, InCatalogue, Free
<1>2. PICK id \in [new -> {p \in Products : Unused(p)}] :
        /\ \A n, v \in new : id[n] = id[v] => n = v
        /\ product' =
              [p \in Products |->
                  IF p \in listed
                  THEN [product[p] EXCEPT !.status = "active", !.source = "sheet", !.priced = TRUE]
                  ELSE IF p \in s.missing THEN [product[p] EXCEPT !.status = "archived"]
                  ELSE IF \E n \in new : id[n] = p
                  THEN [NoProduct EXCEPT !.status = "active", !.priced = TRUE,
                                         !.slug = CHOOSE n \in new : id[n] = p]
                  ELSE product[p]]
  BY DEF CommitSync
<1>3. s \in TxState /\ SyncHasRead(s)
  BY DEF IInv
<1>4. \A n \in s.valid : /\ n \in Names
                         /\ s.bySlug[n] = None => Named(n) = {}
                         /\ s.bySlug[n] # None => s.bySlug[n] \in Named(n)
  BY <1>1, <1>3 DEF SyncHasRead, TxState
<1>5. \A p \in listed : p \in Products /\ Exists(p) /\ product[p].slug \in s.valid
  BY <1>4 DEF Named
<1>6. \A p \in Products : p \in s.seen <=>
                           product[p].status = "pending" /\ product[p].slug \in s.valid
  BY <1>1, <1>3 DEF SyncHasRead
<1>7. \A p \in s.seen : p \in listed
  <2> SUFFICES ASSUME NEW p \in s.seen PROVE p \in listed
    OBVIOUS
  <2> DEFINE n == product[p].slug
  <2>1. p \in Products /\ n \in s.valid /\ n \in Names /\ Exists(p)
    BY <1>3, <1>4, <1>6 DEF TxState, Exists
  <2>2. p \in Named(n)
    BY <2>1 DEF Named
  <2>3. s.bySlug[n] # None /\ s.bySlug[n] \in Named(n)
    BY <1>4, <2>1, <2>2
  <2>4. s.bySlug[n] = p
    BY <2>1, <2>2, <2>3 DEF IInv, NamesAreUnique, Named
  <2> QED
    BY <2>1, <2>3, <2>4
<1>8. \A p \in s.missing : product[p].status = "active" /\ p \notin s.seen
  BY <1>1, <1>3, <1>6 DEF SyncHasRead, TxState
<1>9. \A p \in Products : p \in s.seen => told[p] = << >>
  BY <1>6 DEF IInv, Tells
<1>10. \A p \in Products : told'[p] = IF p \in s.seen THEN <<"resolved">> ELSE told[p]
  <2>1. ASSUME NEW p \in Products, p \in s.seen PROVE told'[p] = <<"resolved">>
    <3>1. Len(<< >>) = 0 /\ Append(<< >>, "resolved") = <<"resolved">>
      OBVIOUS
    <3>2. told[p] = << >>
      BY <1>9, <2>1
    <3>3. told'[p] = IF Len(told[p]) < 2 THEN Append(told[p], "resolved") ELSE told[p]
      BY <1>1, <2>1
    <3> QED
      BY <3>1, <3>2, <3>3
  <2>2. ASSUME NEW p \in Products, p \notin s.seen PROVE told'[p] = told[p]
    BY <1>1, <2>2
  <2> QED
    BY <2>1, <2>2
<1>11. \A n \in new : /\ id[n] \in Products /\ product[id[n]].status = "none"
                      /\ n \in Names /\ Named(n) = {}
  BY <1>2, <1>4 DEF Unused
\* What becomes of each product.
<1> DEFINE Activated(p) == product'[p] = [product[p] EXCEPT !.status = "active", !.source = "sheet",
                                                         !.priced = TRUE]
           Archived(p) == product'[p] = [product[p] EXCEPT !.status = "archived"]
           Inserted(p, n) == product'[p] = [NoProduct EXCEPT !.status = "active",
                                                             !.priced = TRUE, !.slug = n]
<1>12. ASSUME NEW p \in Products
       PROVE  \/ p \in listed /\ Activated(p)
              \/ p \notin listed /\ p \in s.missing /\ Archived(p)
              \/ p \notin listed /\ \E n \in new : id[n] = p /\ Inserted(p, n)
              \/ p \notin listed /\ product'[p] = product[p]
  <2> HIDE DEF listed
  <2>1. CASE p \notin listed /\ p \notin s.missing /\ \E n \in new : id[n] = p
    <3> DEFINE n == CHOOSE v \in new : id[v] = p
    <3>1. n \in new /\ id[n] = p
      BY <2>1
    <3>2. product'[p] = [NoProduct EXCEPT !.status = "active", !.priced = TRUE, !.slug = n]
      BY <1>2, <2>1
    <3> HIDE DEF n, new
    <3> QED
      BY <2>1, <3>1, <3>2
  <2>2. CASE p \in listed
    BY <1>2, <2>2
  <2>3. CASE p \notin listed /\ p \in s.missing
    BY <1>2, <2>3
  <2>4. CASE p \notin listed /\ p \notin s.missing /\ ~\E n \in new : id[n] = p
    BY <1>2, <2>4
  <2> QED
    BY <2>1, <2>2, <2>3, <2>4
<1> HIDE DEF listed
<1>13. product' \in [Products -> ProductRow]
  <2>1. ASSUME NEW p \in Products PROVE product'[p] \in ProductRow
    <3>1. product[p] \in ProductRow
      BY DEF IInv
    <3>2. CASE p \in listed
      BY <1>12, <3>1, <3>2 DEF ProductRow
    <3>3. CASE product'[p] = [product[p] EXCEPT !.status = "archived"]
      BY <3>1, <3>3 DEF ProductRow
    <3>4. CASE product'[p] = product[p]
      BY <3>1, <3>4
    <3>5. ASSUME NEW n \in new,
                 product'[p] = [NoProduct EXCEPT !.status = "active", !.priced = TRUE, !.slug = n]
          PROVE  product'[p] \in ProductRow
      BY <1>11, <3>5 DEF ProductRow, NoProduct
    <3> QED
      BY <1>12, <3>2, <3>3, <3>4, <3>5
  <2> QED
    BY <1>2, <2>1
<1>14. NamesAreUnique'
  <2> SUFFICES ASSUME NEW p \in Products, NEW q \in Products,
                      Exists(p)', Exists(q)', product'[p].slug = product'[q].slug,
                      product'[p].slug \in Names
               PROVE  p = q
    BY DEF NamesAreUnique
  <2>1. \A u \in Products : product[u] \in ProductRow
    BY DEF IInv
  \* A product that now exists had its name, or has got one that was free.
  <2>2. ASSUME NEW u \in Products, Exists(u)'
        PROVE  \/ Exists(u) /\ product'[u].slug = product[u].slug
               \/ \E n \in new : id[n] = u /\ product'[u].slug = n
    <3>1. CASE u \in listed
      BY <1>5, <1>12, <2>1, <3>1 DEF ProductRow
    <3>2. CASE u \notin listed /\ u \in s.missing
      <4>1. Archived(u) \/ (\E n \in new : id[n] = u /\ Inserted(u, n))
                        \/ product'[u] = product[u]
        <5> HIDE DEF Archived, Inserted, new
        <5> QED
          BY <1>12, <3>2
      <4>2. CASE Archived(u)
        BY <1>8, <2>1, <3>2, <4>2 DEF Exists, ProductRow
      <4>3. CASE \E n \in new : id[n] = u /\ Inserted(u, n)
        BY <4>3 DEF NoProduct
      <4>4. CASE product'[u] = product[u]
        BY <2>2, <4>4 DEF Exists
      <4> QED
        BY <4>1, <4>2, <4>3, <4>4
    <3>3. CASE u \notin listed /\ u \notin s.missing
      BY <1>12, <2>2, <3>3 DEF Exists, NoProduct
    <3> QED
      BY <3>1, <3>2, <3>3
  <2>3. CASE /\ Exists(p) /\ product'[p].slug = product[p].slug
             /\ Exists(q) /\ product'[q].slug = product[q].slug
    BY <2>3 DEF IInv, NamesAreUnique
  <2>4. ASSUME NEW u \in Products, NEW v \in Products, Exists(u), NEW n \in new, id[n] = v,
               product'[u].slug = product[u].slug, product'[v].slug = n,
               product'[u].slug = product'[v].slug
        PROVE  FALSE
    BY <1>11, <2>4 DEF Named
  <2>5. CASE \E n, v \in new : /\ id[n] = p /\ product'[p].slug = n
                                /\ id[v] = q /\ product'[q].slug = v
    BY <2>5
  <2> QED
    BY <2>2, <2>3, <2>4, <2>5
<1>15. ASSUME NEW p \in Products PROVE Tells(p)'
  <2>0. Tells(p) /\ product[p] \in ProductRow
    BY DEF IInv
  <2>1. CASE p \in listed
    <3>1. /\ product'[p].status = "active" /\ product'[p].by = product[p].by
          /\ product[p].slug \in s.valid /\ product[p].status \notin {"none", "deleted"}
      BY <1>5, <1>12, <2>0, <2>1 DEF ProductRow, Exists
    <3>2. product[p].slug # Rejected
      BY <1>4, <3>1, CatalogAssumption
    <3>3. CASE product[p].status = "pending"
      BY <1>6, <1>10, <2>0, <3>1, <3>3 DEF Tells
    <3>4. CASE product[p].status # "pending"
      BY <1>6, <1>10, <2>0, <3>1, <3>2, <3>4 DEF Tells
    <3> QED
      BY <3>3, <3>4
  <2>2. CASE p \notin listed /\ p \in s.missing
    <3>1. /\ product[p].status = "active" /\ told'[p] = told[p]
      BY <1>8, <1>10, <2>2
    <3>2. /\ product'[p].status \in {"active", "archived"} /\ product'[p].by = product[p].by
      BY <1>11, <1>12, <2>0, <2>2, <3>1 DEF ProductRow
    <3> QED
      BY <2>0, <3>1, <3>2 DEF Tells
  <2>3. CASE p \notin listed /\ p \notin s.missing
    <3>1. told'[p] = told[p]
      BY <1>7, <1>10, <2>3
    <3>2. CASE product'[p] = product[p]
      BY <2>0, <3>1, <3>2 DEF Tells
    <3>3. CASE \E n \in new : /\ id[n] = p
                              /\ product'[p] = [NoProduct EXCEPT !.status = "active",
                                                                 !.priced = TRUE, !.slug = n]
      <4>1. product[p].status = "none" /\ product'[p].status = "active" /\ product'[p].by = None
        BY <1>11, <3>3 DEF NoProduct
      <4> QED
        BY <2>0, <3>1, <4>1 DEF Tells
    <3> QED
      BY <1>12, <2>3, <3>2, <3>3
  <2> QED
    BY <2>1, <2>2, <2>3
<1>16. told' \in [Products -> {<< >>, <<"resolved">>, <<"rejected">>}]
  <2>1. \A p \in Products : told[p] \in {<< >>, <<"resolved">>, <<"rejected">>}
    BY DEF IInv
  <2>2. told' = [p \in Products |-> told'[p]]
    BY <1>1
  <2> QED
    BY <1>10, <2>1, <2>2
<1>17. OffersRefer'
  BY DEF CommitSync, IInv, OffersRefer
<1> QED
  BY <1>1, <1>13, <1>14, <1>15, <1>16, <1>17, EndFrees, WriteKeeps

-----------------------------------------------------------------------------
(* merge and reject                                                        *)
LEMMA BeginAdminKeeps ==
    ASSUME IInv, NEW t \in Txs, NEW p \in Products,
           BeginReject(t, p) \/ \E q \in Products : BeginMerge(t, p, q)
    PROVE  IInv'
<1>1. CASE BeginReject(t, p)
  <2> DEFINE s == [NoTx EXCEPT !.op = "reject", !.step = "scan", !.product = p,
                               !.offers = OffersOf(p)]
  <2>1. /\ Set(t, s) /\ CatalogueFree /\ product' = product /\ offer' = offer /\ told' = told
        /\ product[p].status = "pending"
    BY <1>1 DEF BeginReject, data
  <2>2. /\ s.op = "reject" /\ s.product = p /\ s \in TxState
        /\ \A o \in s.offers : offer[o].product \in Products
    BY DEF NoTx, TxState, OffersOf
  <2> HIDE DEF s
  <2>3. SyncHasRead(s) /\ AdminHasRead(s) /\ PublishHasRead(s)
    BY <2>1, <2>2 DEF SyncHasRead, AdminHasRead, PublishHasRead
  <2> QED
    BY <2>1, <2>2, <2>3, StepKeeps
<1>2. ASSUME NEW q \in Products, BeginMerge(t, p, q) PROVE IInv'
  <2> DEFINE s == [NoTx EXCEPT !.op = "merge", !.step = "move", !.product = p, !.target = q,
                               !.todo = {q}]
  <2>1. /\ Set(t, s) /\ CatalogueFree /\ product' = product /\ offer' = offer /\ told' = told
        /\ product[p].status = "pending"
    BY <1>2 DEF BeginMerge, data
  <2>2. s.op = "merge" /\ s.product = p /\ s.target = q /\ s \in TxState
    BY DEF NoTx, TxState
  <2> HIDE DEF s
  <2>3. SyncHasRead(s) /\ AdminHasRead(s) /\ PublishHasRead(s)
    BY <2>1, <2>2 DEF SyncHasRead, AdminHasRead, PublishHasRead
  <2> QED
    BY <2>1, <2>2, <2>3, StepKeeps
<1> QED
  BY <1>1, <1>2

(* A step inside a merge or a rejection: it keeps its products.            *)
LEMMA AdminStepKeeps ==
    ASSUME IInv, NEW t \in Txs, NEW s \in TxState, Set(t, s),
           product' = product, offer' = offer, told' = told,
           tx[t].op \in {"merge", "reject"}, tx[t].step # "idle",
           s.op = tx[t].op, s.product = tx[t].product, s.target = tx[t].target,
           s.op = "reject" => \A o \in s.offers : offer[o].product \in Products
    PROVE  IInv'
<1>1. SyncHasRead(s) /\ AdminHasRead(s) /\ PublishHasRead(s)
  BY DEF IInv, SyncHasRead, AdminHasRead, PublishHasRead
<1>2. InCatalogue(t)
  BY DEF InCatalogue, Free
<1> QED
  BY <1>1, <1>2, StepKeeps

LEMMA AdminStepsKeep ==
    ASSUME IInv, NEW t \in Txs,
           MoveOffers(t) \/ ScanOpen(t) \/ ReadActive(t) \/ LockOffers(t)
    PROVE  IInv'
<1>0. tx[t] \in TxState /\ AdminHasRead(tx[t])
  BY DEF IInv
<1>1. CASE MoveOffers(t)
  <2> DEFINE s == [tx[t] EXCEPT !.step = "scan", !.offers = OffersOf(tx[t].product)]
  <2>1. /\ Set(t, s) /\ product' = product /\ offer' = offer /\ told' = told
        /\ tx[t].op = "merge" /\ tx[t].step = "move"
    BY <1>1 DEF MoveOffers, data, At
  <2>2. /\ s.op = tx[t].op /\ s.product = tx[t].product /\ s.target = tx[t].target
        /\ s \in TxState /\ (s.op = "reject" => \A o \in s.offers : offer[o].product \in Products)
    BY <1>0, <2>1 DEF TxState, OffersOf
  <2> HIDE DEF s
  <2> QED
    BY <2>1, <2>2, AdminStepKeeps
<1>2. CASE ScanOpen(t)
  <2> DEFINE open == {r \in Rsvs : Open(r) /\ rsv[r].offer \in tx[t].offers}
             s == [tx[t] EXCEPT !.step = "rows", !.seen = {tx[t].product}, !.scan = open]
  <2>1. /\ Set(t, s) /\ product' = product /\ offer' = offer /\ told' = told
        /\ tx[t].op = "reject" /\ tx[t].step = "scan"
    BY <1>2 DEF ScanOpen, data, At
  <2>2. tx[t].product \in Products
    BY <2>1 DEF IInv, AdminHasRead
  <2>3. open \in SUBSET Rsvs
    OBVIOUS
  <2> HIDE DEF open
  <2>4. /\ s.op = tx[t].op /\ s.product = tx[t].product /\ s.target = tx[t].target
        /\ s \in TxState /\ (s.op = "reject" => \A o \in s.offers : offer[o].product \in Products)
    BY <1>0, <2>1, <2>2, <2>3 DEF TxState, AdminHasRead
  <2> HIDE DEF s
  <2> QED
    BY <2>1, <2>4, AdminStepKeeps
<1>3. CASE ReadActive(t)
  <2> DEFINE active == {o \in OffersOf(tx[t].product) : Active(o)}
             s == [tx[t] EXCEPT !.step = "withdraw", !.offers = active]
  <2>1. /\ Set(t, s) /\ product' = product /\ offer' = offer /\ told' = told
        /\ tx[t].op = "reject" /\ tx[t].step = "rows"
    BY <1>3 DEF ReadActive, data, At
  <2>2. active \in SUBSET Offers /\ \A o \in active : offer[o].product \in Products
    BY <2>1 DEF OffersOf, IInv, AdminHasRead
  <2> HIDE DEF active
  <2>3. /\ s.op = tx[t].op /\ s.product = tx[t].product /\ s.target = tx[t].target
        /\ s \in TxState /\ (s.op = "reject" => \A o \in s.offers : offer[o].product \in Products)
    BY <1>0, <2>1, <2>2 DEF TxState
  <2> HIDE DEF s
  <2> QED
    BY <2>1, <2>3, AdminStepKeeps
<1>4. CASE LockOffers(t)
  <2> DEFINE s == [tx[t] EXCEPT !.step = "commit"]
  <2>1. /\ Set(t, s) /\ product' = product /\ offer' = offer /\ told' = told
        /\ tx[t].op = "reject" /\ tx[t].step = "withdraw"
    BY <1>4 DEF LockOffers, data, At
  <2>2. /\ s.op = tx[t].op /\ s.product = tx[t].product /\ s.target = tx[t].target
        /\ s \in TxState /\ (s.op = "reject" => \A o \in s.offers : offer[o].product \in Products)
    BY <1>0, <2>1 DEF TxState, AdminHasRead
  <2> HIDE DEF s
  <2> QED
    BY <2>1, <2>2, AdminStepKeeps
<1> QED
  BY <1>1, <1>2, <1>3, <1>4

(* The proposal is archived, or gone, and its N5 says how.                 *)
LEMMA CommitAdminKeeps ==
    ASSUME IInv, NEW t \in Txs, CommitMerge(t) \/ CommitReject(t)
    PROVE  IInv'
<1> DEFINE p == tx[t].product
           decision == IF tx[t].op = "merge" THEN "resolved" ELSE "rejected"
<1>1. InCatalogue(t) /\ End(t) /\ tx[t].op \in {"merge", "reject"} /\ tx[t].step # "idle"
  BY DEF CommitMerge, CommitReject, At, InCatalogue, Free
<1>2. /\ p \in Products /\ product[p].status = "pending" /\ product[p] \in ProductRow
      /\ told[p] = << >>
  BY <1>1 DEF IInv, AdminHasRead, Tells
<1>3. Tell(p, decision)
  BY DEF CommitMerge, CommitReject, At
<1>4. told' = [told EXCEPT ![p] = <<decision>>]
  <2>1. Len(<< >>) = 0 /\ Append(<< >>, decision) = <<decision>>
    OBVIOUS
  <2> HIDE DEF decision
  <2> QED
    BY <1>2, <1>3, <2>1 DEF Tell
<1>5. PICK row \in ProductRow :
        /\ product' = [product EXCEPT ![p] = row]
        /\ row.by = product[p].by
        /\ \/ row.status = "archived" /\ row.slug = product[p].slug /\ decision = "resolved"
           \/ row.status = "archived" /\ row.slug = Rejected
           \/ row.status = "deleted"
  <2>1. CASE CommitMerge(t)
    <3> DEFINE row == [product[p] EXCEPT !.status = "archived"]
    <3>1. product' = [product EXCEPT ![p] = row] /\ decision = "resolved"
      BY <2>1 DEF CommitMerge, At, IInv
    <3>2. /\ row \in ProductRow /\ row.status = "archived"
          /\ row.slug = product[p].slug /\ row.by = product[p].by
      BY <1>2 DEF ProductRow
    <3> HIDE DEF row
    <3> QED
      BY <3>1, <3>2
  <2>2. CASE CommitReject(t)
    <3>1. product' = [product EXCEPT ![p] = RejectedRow(p)]
      BY <2>2 DEF CommitReject
    <3>2. /\ RejectedRow(p) \in ProductRow /\ RejectedRow(p).by = product[p].by
          /\ \/ RejectedRow(p).status = "archived" /\ RejectedRow(p).slug = Rejected
             \/ RejectedRow(p).status = "deleted"
      BY <1>2 DEF ProductRow, RejectedRow
    <3> QED
      BY <3>1, <3>2
  <2> QED
    BY <2>1, <2>2
<1>6. /\ product' \in [Products -> ProductRow] /\ product'[p] = row
      /\ \A q \in Products : q # p => product'[q] = product[q]
  BY <1>2, <1>5 DEF IInv
<1>7. Exists(p)
  BY <1>2 DEF Exists
<1>8. NamesAreUnique'
  BY <1>5, <1>6, <1>7, CatalogAssumption DEF IInv, NamesAreUnique, Exists
<1>9. /\ told' \in [Products -> {<< >>, <<"resolved">>, <<"rejected">>}]
      /\ told'[p] = <<decision>> /\ \A q \in Products : q # p => told'[q] = told[q]
  BY <1>2, <1>4 DEF IInv
<1>10. ASSUME NEW q \in Products PROVE Tells(q)'
  <2>1. Tells(q)
    BY DEF IInv
  <2>2. CASE q # p
    BY <1>6, <1>9, <2>1, <2>2 DEF Tells
  <2>3. CASE q = p
    <3>1. product[p].by # None
      BY <1>2, <2>1, <2>3 DEF Tells
    <3>2. <<decision>> # << >> /\ (decision = "resolved" => <<decision>> # <<"rejected">>)
      OBVIOUS
    <3> HIDE DEF decision
    <3> QED
      BY <1>5, <1>6, <1>9, <2>3, <3>1, <3>2 DEF Tells
  <2> QED
    BY <2>2, <2>3
<1>11. OffersRefer'
  <2>0. OffersRefer
    BY DEF IInv
  <2>1. CASE CommitMerge(t)
    <3>1. tx[t].target \in Products
      BY <1>1, <2>1 DEF IInv, AdminHasRead, CommitMerge, At
    <3>2. offer' = [o \in Offers |-> IF o \in tx[t].offers
                                     THEN [offer[o] EXCEPT !.product = tx[t].target] ELSE offer[o]]
      BY <2>1 DEF CommitMerge
    <3> QED
      BY <2>0, <3>1, <3>2 DEF OffersRefer, OfferRow
  <2>2. CASE CommitReject(t)
    <3>1. offer' = [o \in Offers |-> IF o \in tx[t].offers
                                     THEN [offer[o] EXCEPT !.status = "closed"] ELSE offer[o]]
      BY <2>2 DEF CommitReject
    <3>2. \A o \in tx[t].offers : offer[o].product \in Products
      BY <1>1, <2>2 DEF IInv, AdminHasRead, CommitReject, At
    <3> QED
      BY <2>0, <3>1, <3>2 DEF OffersRefer, OfferRow
  <2> QED
    BY <2>1, <2>2
<1> QED
  BY <1>1, <1>6, <1>8, <1>9, <1>10, <1>11, EndFrees, WriteKeeps

-----------------------------------------------------------------------------
(* What does not take the lock                                             *)

(* A request that neither writes products nor enters the catalogue.        *)
LEMMA OutsideKeeps ==
    ASSUME IInv, NEW t \in Txs, NEW s \in TxState, Set(t, s),
           product' = product, offer' = offer, told' = told,
           s.op \in {"create", "publish"}, PublishHasRead(s)
    PROVE  IInv'
<1>1. SyncHasRead(s) /\ AdminHasRead(s) /\ PublishHasRead(s)
  BY DEF SyncHasRead, AdminHasRead
<1> QED
  BY <1>1, StepKeeps

LEMMA RequestKeeps ==
    ASSUME IInv, NEW t \in Txs, Request(t)
    PROVE  IInv'
<1>0. tx[t] \in TxState
  BY DEF IInv
<1>1. ASSUME NEW o \in Offers, BeginCreate(t, o) PROVE IInv'
  <2> DEFINE price == product[offer[o].product].priced
             s == [NoTx EXCEPT !.op = "create", !.step = "insert", !.offers = {o}, !.priced = price]
  <2>1. Set(t, s) /\ product' = product /\ offer' = offer /\ told' = told
    BY <1>1 DEF BeginCreate, data
  <2>2. price \in BOOLEAN
    <3>1. offer[o].product \in Products
      BY <1>1 DEF BeginCreate, Active, IInv, OffersRefer
    <3> QED
      BY <3>1 DEF IInv, ProductRow
  <2> HIDE DEF price
  <2>3. s \in TxState /\ s.op = "create" /\ PublishHasRead(s)
    BY <2>2 DEF NoTx, TxState, PublishHasRead
  <2> HIDE DEF s
  <2> QED
    BY <2>1, <2>3, OutsideKeeps
<1>2. ASSUME NEW m \in Members, NEW p \in Products, ReadProduct(t, m, p) PROVE IInv'
  <2> DEFINE s == [NoTx EXCEPT !.op = "publish", !.step = "insert", !.who = m, !.product = p]
  <2>1. Set(t, s) /\ product' = product /\ offer' = offer /\ told' = told
    BY <1>2 DEF ReadProduct, data
  <2>2. s \in TxState /\ s.op = "publish" /\ PublishHasRead(s)
    BY DEF NoTx, TxState, PublishHasRead
  <2> HIDE DEF s
  <2> QED
    BY <2>1, <2>2, OutsideKeeps
<1>3. CASE InsertOffer(t)
  <2> DEFINE s == [tx[t] EXCEPT !.step = "commit"]
  <2>1. /\ Set(t, s) /\ product' = product /\ offer' = offer /\ told' = told
        /\ tx[t].op = "publish" /\ tx[t].step = "insert"
    BY <1>3 DEF InsertOffer, data, At
  <2>2. PublishHasRead(tx[t])
    BY DEF IInv
  <2>3. s \in TxState /\ s.op = "publish" /\ PublishHasRead(s)
    BY <1>0, <2>1, <2>2 DEF TxState, PublishHasRead
  <2> HIDE DEF s
  <2> QED
    BY <2>1, <2>3, OutsideKeeps
<1>4. CASE CommitCreate(t)
  BY <1>4, EndKeeps DEF CommitCreate
<1>5. CASE CommitPublish(t)
  <2>1. tx[t].who \in Members /\ tx[t].product \in Products
    BY <1>5 DEF CommitPublish, At, IInv, PublishHasRead
  <2> PICK o \in Offers :
        offer' = [offer EXCEPT ![o] = [status |-> "active", producer |-> tx[t].who,
                                       product |-> tx[t].product]]
    BY <1>5 DEF CommitPublish
  <2>2. [status |-> "active", producer |-> tx[t].who, product |-> tx[t].product] \in OfferRow
    BY <2>1 DEF OfferRow
  <2>3. StillRefer
    BY <2>1, <2>2 DEF IInv, OffersRefer, StillRefer
  <2> QED
    BY <1>5, <2>3, EndKeeps DEF CommitPublish
<1> QED
  BY <1>1, <1>2, <1>3, <1>4, <1>5 DEF Request

-----------------------------------------------------------------------------
LEMMA InitHasRead == Init => IInv
<1> SUFFICES ASSUME Init PROVE IInv
  OBVIOUS
<1>1. NoProduct \in ProductRow
  BY DEF NoProduct, ProductRow
<1>2. product \in [Products -> ProductRow] /\ tx \in [Txs -> TxState]
  BY <1>1, IdleIsTyped DEF Init
<1>3. \A t \in Txs : tx[t].step = "idle"
  BY DEF Init, NoTx
<1>4. \A p \in Products : /\ product[p].status = "none" /\ product[p].by = None
                          /\ told[p] = << >>
  BY DEF Init, NoProduct
<1>5. told \in [Products -> {<< >>, <<"resolved">>, <<"rejected">>}]
  BY DEF Init
<1>6. << >> # <<"rejected">>
  OBVIOUS
<1>7. OffersRefer
  <2>1. NoOffer \in OfferRow /\ NoOffer.status = "none"
    BY DEF NoOffer, OfferRow
  <2> QED
    BY <2>1 DEF Init, OffersRefer
<1> QED
  BY <1>2, <1>3, <1>4, <1>5, <1>6, <1>7
  DEF IInv, OneInCatalogue, InCatalogue, Free, NamesAreUnique, Exists, Tells, SyncHasRead,
      AdminHasRead, PublishHasRead

LEMMA NextKeeps == IInv /\ [Next]_vars => IInv'
<1> SUFFICES ASSUME IInv, [Next]_vars PROVE IInv'
  OBVIOUS
<1>1. ASSUME NEW t \in Txs, Settle(t) PROVE IInv'
  BY <1>1, BeginSyncKeeps, SelectKeeps, CommitSyncKeeps, BeginAdminKeeps, AdminStepsKeep,
     CommitAdminKeeps
  DEF Settle
<1>2. ASSUME NEW t \in Txs, Request(t) PROVE IInv'
  BY <1>2, RequestKeeps
<1>3. ASSUME NEW t \in Txs, Rollback(t) PROVE IInv'
  BY <1>3, EndKeeps DEF Rollback, data
<1>4. ASSUME NEW m \in Members, NEW n \in Names, NEW p \in Products, Propose(m, n, p)
      PROVE IInv'
  BY <1>4, ProposeKeeps
<1>5. ASSUME NEW p \in Products, NEW n \in Names, Rename(p, n) PROVE IInv'
  BY <1>5, RenameKeeps
\* Nothing changes but the status of an offer.
<1>6. ASSUME product' = product, tx' = tx, told' = told, StillRefer PROVE IInv'
  <2>1. /\ product' \in [Products -> ProductRow] /\ tx' \in [Txs -> TxState]
        /\ told' \in [Products -> {<< >>, <<"resolved">>, <<"rejected">>}]
    BY <1>6 DEF IInv
  <2>2. OneInCatalogue' /\ NamesAreUnique' /\ \A p \in Products : Tells(p)'
    BY <1>6 DEF IInv, OneInCatalogue, InCatalogue, Free, NamesAreUnique, Tells, Exists
  <2>3. \A t \in Txs : SyncHasRead(tx[t])' /\ AdminHasRead(tx[t])' /\ PublishHasRead(tx[t])'
    <3> TAKE t \in Txs
    <3>1. /\ SyncHasRead(tx[t]) /\ AdminHasRead(tx[t]) /\ PublishHasRead(tx[t])
          /\ tx[t].offers \subseteq Offers
      BY DEF IInv, TxState
    <3> QED
      BY <1>6, <3>1 DEF SyncHasRead, AdminHasRead, PublishHasRead, Named, Exists, StillRefer
  <2> QED
    BY <1>6, <2>1, <2>2, <2>3 DEF IInv, StillRefer
<1>7. ASSUME NEW o \in Offers, Relist(o) \/ Unlist(o) PROVE IInv'
  <2>1. PICK status \in {"active", "closed"} : offer' = [offer EXCEPT ![o].status = status]
    BY <1>7 DEF Relist, Unlist
  <2>2. offer[o].status # "none" /\ OffersRefer
    BY <1>7 DEF Relist, Unlist, Active, IInv
  <2>3. StillRefer
    BY <2>1, <2>2 DEF OffersRefer, OfferRow, StillRefer
  <2> QED
    BY <1>6, <1>7, <2>3 DEF Relist, Unlist
<1>8. CASE (\E r \in Rsvs : Close(r)) \/ UNCHANGED vars
  <2>1. product' = product /\ tx' = tx /\ told' = told /\ StillRefer
    BY <1>8 DEF Close, vars, IInv, OffersRefer, StillRefer
  <2> QED
    BY <1>6, <2>1
<1> QED
  BY <1>1, <1>2, <1>3, <1>4, <1>5, <1>7, <1>8 DEF Next

(* What a transaction in the catalogue has read holds until it commits.    *)
THEOREM CatalogInvariance == Spec => []IInv
BY InitHasRead, NextKeeps, PTL DEF Spec

(* OneProductPerName for any number of names: the unique index on the slug *)
(* is never met.                                                           *)
THEOREM NamesStayUnique == Spec => []OneProductPerName
<1>1. IInv => OneProductPerName
  <2> SUFFICES ASSUME IInv, NEW n \in Names PROVE Cardinality(Named(n)) <= 1
    BY DEF OneProductPerName
  <2>1. CASE Named(n) = {}
    BY <2>1, FS_EmptySet
  <2>2. CASE Named(n) # {}
    <3>1. PICK p \in Named(n) : TRUE
      BY <2>2
    <3>2. Named(n) = {p}
      BY <3>1 DEF IInv, NamesAreUnique, Named
    <3>3. Cardinality({p}) = 1
      BY FS_Singleton
    <3> QED
      BY <3>2, <3>3
  <2> QED
    BY <2>1, <2>2
<1> QED
  BY <1>1, CatalogInvariance, PTL

(* SettledOnce for any number of proposals and admins: each proposal gets  *)
(* one decision, and a rejected one is never revived.                      *)
THEOREM ProposalsSettleOnce == Spec => []SettledOnce
<1>1. IInv => SettledOnce
  <2> SUFFICES ASSUME IInv, NEW p \in Products
               PROVE  /\ Len(told[p]) <= 1
                      /\ product[p].by # None => (told[p] = << >> <=> product[p].status = "pending")
                      /\ told[p] = <<"rejected">> => product[p].status \in {"archived", "deleted"}
    BY DEF SettledOnce
  <2>1. told[p] \in {<< >>, <<"resolved">>, <<"rejected">>} /\ Tells(p)
    BY DEF IInv
  <2>2. Len(told[p]) <= 1
    <3>1. Len(<< >>) <= 1 /\ Len(<<"resolved">>) <= 1 /\ Len(<<"rejected">>) <= 1
      OBVIOUS
    <3>2. told[p] = << >> \/ told[p] = <<"resolved">> \/ told[p] = <<"rejected">>
      BY <2>1, Zenon
    <3> QED
      BY <3>1, <3>2, Zenon
  <2> QED
    BY <2>1, <2>2 DEF Tells
<1> QED
  BY <1>1, CatalogInvariance, PTL

-----------------------------------------------------------------------------
(* CascadeInv: what the cascade into offers and reservations rests on.     *)

(* A transaction that moves without writing keeps it if it holds only what *)
(* was free, enters the catalogue for a product no insert refers to, and   *)
(* what it has read or selected then is so.                                *)
LEMMA StepSelects ==
    ASSUME CascadeInv, IInv', NEW t \in Txs, NEW s, Set(t, s), UNCHANGED data,
           \A o \in OffersHeld(t)' : o \in OffersHeld(t) \/ OfferFree(o),
           s.step # "idle" /\ s.op \in {"sync", "merge", "reject"} =>
              (InCatalogue(t) /\ s.product = tx[t].product) \/ KeyFree(s.product),
           RequestHasRead(s), HasSelected(s)
    PROVE  CascadeInv'
<1>1. /\ product' = product /\ offer' = offer /\ rsv' = rsv /\ told' = told
      /\ crossed' = crossed
  BY DEF data
<1>2. tx'[t] = s /\ \A u \in Txs : u # t => tx'[u] = tx[u]
  BY DEF CascadeInv, IInv, Set
<1>3. \A u \in Txs : u # t => OffersHeld(u)' = OffersHeld(u)
  BY <1>2 DEF OffersHeld, At
<1>4. OffersDisjoint'
  BY <1>3 DEF CascadeInv, OffersDisjoint, OfferFree
<1>5. RowsRefer' /\ AwaitsSettling'
  BY <1>1 DEF CascadeInv, RowsRefer, Exists, AwaitsSettling, Awaits, Open, ProductOf
<1>6. ASSUME NEW u \in Txs PROVE HasSelected(tx[u])'
  <2>1. HasSelected(tx'[u])
    BY <1>2 DEF CascadeInv
  <2> QED
    BY <1>1, <2>1 DEF HasSelected, RowsStayOpen, SyncSelected, MergeSelected, RejectSelected,
                      Open, Awaits, ProductOf, OffersOf
<1>7. ASSUME NEW u \in Txs PROVE RequestHasRead(tx[u])'
  <2>1. RequestHasRead(tx'[u])
    BY <1>2 DEF CascadeInv
  <2>2. At(u, "publish", "commit")' => UpdateFree(tx[u].product)'
    <3> SUFFICES ASSUME At(u, "publish", "commit")', NEW v \in Txs,
                        InCatalogue(v)', tx'[v].product = tx'[u].product
                 PROVE  FALSE
      BY DEF UpdateFree
    <3>1. UpdateFree(tx'[u].product)
      BY <2>1 DEF RequestHasRead, At
    <3>2. v # u
      BY DEF At, InCatalogue, Free
    <3>3. v = t
      BY <1>2, <3>1 DEF UpdateFree, InCatalogue, Free
    <3>4. (InCatalogue(t) /\ s.product = tx[t].product) \/ KeyFree(s.product)
      BY <1>2, <3>3 DEF InCatalogue, Free
    <3>5. tx'[u] = tx[u] /\ s.product = tx[u].product
      BY <1>2, <3>2, <3>3
    <3>6. ~KeyFree(s.product)
      BY <3>5 DEF KeyFree, At
    <3> QED
      BY <3>1, <3>4, <3>5, <3>6 DEF UpdateFree
  <2> QED
    BY <1>1, <2>1, <2>2 DEF RequestHasRead, Exists, At
<1> QED
  BY <1>4, <1>5, <1>6, <1>7 DEF CascadeInv

(* A write that leaves every transaction where it is, or ends it, keeps it *)
(* if those that stay have still selected all there is.                    *)
LEMMA WriteSelects ==
    ASSUME CascadeInv, IInv', \A u \in Txs : tx'[u] = tx[u] \/ tx'[u] = NoTx,
           RowsRefer', AwaitsSettling',
           \A u \in Txs : InCatalogue(u) /\ tx'[u] = tx[u] => HasSelected(tx[u])',
           \A u \in Txs : At(u, "publish", "commit") =>
              product'[tx[u].product].status \notin {"none", "deleted"},
           \A u \in Txs : At(u, "create", "insert") =>
              \A o \in tx[u].offers :
                 /\ offer'[o].status # "none"
                 /\ product[offer[o].product].priced => product'[offer'[o].product].priced
    PROVE  CascadeInv'
<1>1. \A u \in Txs : OffersHeld(u)' \subseteq OffersHeld(u)
  BY DEF OffersHeld, At, NoTx
<1>2. OffersDisjoint'
  BY <1>1 DEF CascadeInv, OffersDisjoint
<1>3. \A u \in Txs : InCatalogue(u)' => InCatalogue(u) /\ tx'[u] = tx[u]
  BY DEF InCatalogue, Free, NoTx
<1>4. ASSUME NEW u \in Txs PROVE HasSelected(tx[u])'
  <2>1. CASE InCatalogue(u)'
    BY <1>3, <2>1
  <2>2. CASE ~InCatalogue(u)'
    <3>1. tx'[u].step = "idle" \/ tx'[u].op \in {"create", "publish"}
      BY <2>2 DEF InCatalogue, Free, IInv, TxState
    <3>2. tx'[u].scan = {} /\ tx'[u].rows = {}
      BY <3>1 DEF NoTx, CascadeInv, HasSelected, RowsStayOpen
    <3> QED
      BY <3>1, <3>2 DEF HasSelected, RowsStayOpen, SyncSelected, MergeSelected, RejectSelected
  <2> QED
    BY <2>1, <2>2
<1>5. ASSUME NEW u \in Txs PROVE RequestHasRead(tx[u])'
  <2>1. CASE tx'[u] = NoTx
    BY <2>1 DEF RequestHasRead, NoTx
  <2>2. CASE tx'[u] = tx[u]
    <3>1. RequestHasRead(tx[u])
      BY DEF CascadeInv
    <3>2. UpdateFree(tx[u].product) => UpdateFree(tx[u].product)'
      BY <1>3, <2>2 DEF UpdateFree
    <3> QED
      BY <2>2, <3>1, <3>2 DEF RequestHasRead, At, Exists
  <2> QED
    BY <2>1, <2>2
<1> QED
  BY <1>2, <1>4, <1>5 DEF CascadeInv

(* Of a transaction that stays: new reservations are too late for it, not  *)
(* its own, or have their price.                                           *)
OldRow(r) ==
    /\ Open(r) /\ r \notin crossed
    /\ rsv'[r].offer = rsv[r].offer /\ rsv'[r].priced = rsv[r].priced
    /\ offer'[rsv[r].offer].product = offer[rsv[r].offer].product

NewRow(r, s) ==
    LET p == offer'[rsv'[r].offer].product IN
    \/ rsv'[r].priced /\ product[p].priced /\ p \in Products
    \/ ~rsv'[r].priced /\ p \notin s.seen /\ (s.op = "merge" => rsv'[r].offer \notin s.offers)

LEMMA SettlerStays ==
    ASSUME CascadeInv, NEW u \in Txs, tx'[u] = tx[u], InCatalogue(u), product' = product,
           \A r \in tx[u].rows : Open(r)',
           tx[u].op = "sync" \/ OffersOf(tx[u].product)' = OffersOf(tx[u].product),
           \A r \in Rsvs : Open(r)' /\ r \notin crossed' =>
              OldRow(r) \/ (tx[u].op = "merge" /\ tx[u].step = "move") \/ NewRow(r, tx[u])
    PROVE  HasSelected(tx[u])'
<1> DEFINE s == tx[u]
<1>1. HasSelected(s) /\ s.step # "idle" /\ s.op \in {"sync", "merge", "reject"}
  BY DEF CascadeInv, InCatalogue, Free
<1>2. RowsStayOpen(tx[u])'
  BY <1>1 DEF RowsStayOpen
<1>3. \A r \in Rsvs : OldRow(r) /\ Awaits(r)' => Awaits(r) /\ ProductOf(r)' = ProductOf(r)
  BY DEF OldRow, Awaits, ProductOf
<1>4. SyncSelected(tx[u])'
  BY <1>1, <1>3 DEF HasSelected, SyncSelected, NewRow, OldRow, Awaits, ProductOf
<1>5. MergeSelected(tx[u])'
  <2>1. CASE s.op = "merge"
    <3>1. MergeSelected(s)
      BY <1>1 DEF HasSelected
    <3>2. s.target \in s.seen => s.step # "move"
      BY <1>1, <2>1, <3>1 DEF MergeSelected
    <3>3. ASSUME s.target \in s.seen, NEW r \in Rsvs, Awaits(r)', rsv'[r].offer \in s.offers
          PROVE  r \in s.scan \cup s.rows
      <4>1. OldRow(r)
        BY <2>1, <3>2, <3>3 DEF NewRow, Awaits
      <4>2. Awaits(r) /\ rsv[r].offer \in s.offers
        BY <1>3, <3>3, <4>1 DEF OldRow
      <4> QED
        BY <1>1, <2>1, <3>1, <3>3, <4>2 DEF MergeSelected
    <3> QED
      BY <1>1, <2>1, <3>1, <3>3 DEF MergeSelected
  <2>2. CASE s.op # "merge"
    BY <2>2 DEF MergeSelected
  <2> QED
    BY <2>1, <2>2
<1>6. RejectSelected(tx[u])'
  <2>1. CASE s.op = "reject"
    <3>1. RejectSelected(s) /\ AdminHasRead(s)
      BY <1>1 DEF HasSelected, CascadeInv, IInv
    <3>2. s.product \in Products /\ ~product[s.product].priced
      BY <1>1, <2>1, <3>1 DEF AdminHasRead, CascadeInv, RowsRefer
    <3>3. ASSUME s.step \in {"rows", "withdraw", "commit"}, NEW r \in Rsvs, Open(r)',
                 r \notin crossed', ProductOf(r)' = s.product
          PROVE  r \in s.scan \cup s.rows
      <4>1. OldRow(r)
        BY <1>1, <2>1, <3>1, <3>2, <3>3 DEF NewRow, ProductOf, RejectSelected
      <4> QED
        BY <1>1, <2>1, <3>1, <3>3, <4>1 DEF RejectSelected, OldRow, ProductOf
    <3> QED
      BY <1>1, <2>1, <3>1, <3>3 DEF RejectSelected
  <2>2. CASE s.op # "reject"
    BY <2>2 DEF RejectSelected
  <2> QED
    BY <2>1, <2>2
<1> QED
  BY <1>2, <1>4, <1>5, <1>6 DEF HasSelected

(* What a settling transaction selects is what there is to settle, and     *)
(* each row it passes over is not there to be settled any more.            *)
LEMMA BeginsSelect ==
    ASSUME CascadeInv, IInv', NEW t \in Txs,
           \/ BeginSync(t) \/ (\E p, q \in Products : BeginMerge(t, p, q))
           \/ \E p \in Products : BeginReject(t, p)
    PROVE  CascadeInv'
<1>1. CASE BeginSync(t)
  <2>1. PICK valid, known, gone, resolved :
          Set(t, [NoTx EXCEPT !.op = "sync", !.step = "scan", !.valid = valid,
                              !.bySlug = known, !.missing = gone, !.todo = resolved])
    BY <1>1 DEF BeginSync
  <2> DEFINE s == [NoTx EXCEPT !.op = "sync", !.step = "scan", !.valid = valid,
                               !.bySlug = known, !.missing = gone, !.todo = resolved]
  <2>2. Set(t, s) /\ UNCHANGED data
    BY <1>1, <2>1 DEF BeginSync
  <2>3. s.op = "sync" /\ s.step = "scan" /\ s.seen = {} /\ s.scan = {} /\ s.rows = {}
        /\ s.product = None
    BY DEF NoTx
  <2> HIDE DEF s
  <2>4. tx'[t] = s
    BY <2>2 DEF Set, CascadeInv, IInv
  <2>5. OffersHeld(t)' = {}
    BY <2>3, <2>4 DEF OffersHeld, At
  <2>6. KeyFree(s.product)
    BY <2>3, CatalogAssumption DEF KeyFree, At, CascadeInv, IInv, PublishHasRead
  <2>7. RequestHasRead(s) /\ HasSelected(s)
    BY <2>3 DEF RequestHasRead, HasSelected, RowsStayOpen, SyncSelected, MergeSelected,
                RejectSelected
  <2> QED
    BY <2>2, <2>5, <2>6, <2>7, StepSelects
<1>2. CASE \E p, q \in Products : BeginMerge(t, p, q)
  <2> PICK p \in Products, q \in Products : BeginMerge(t, p, q)
    BY <1>2
  <2> DEFINE s == [NoTx EXCEPT !.op = "merge", !.step = "move", !.product = p, !.target = q,
                               !.todo = {q}]
  <2>1. Set(t, s) /\ UNCHANGED data /\ KeyFree(p) /\ product[q].status = "active"
    BY DEF BeginMerge
  <2>2. s.op = "merge" /\ s.step = "move" /\ s.seen = {} /\ s.scan = {} /\ s.rows = {}
        /\ s.product = p /\ s.target = q /\ s.todo = {q}
    BY DEF NoTx
  <2> HIDE DEF s
  <2>3. tx'[t] = s
    BY <2>1 DEF Set, CascadeInv, IInv
  <2>4. OffersHeld(t)' = {}
    BY <2>2, <2>3 DEF OffersHeld, At
  <2>5. RequestHasRead(s) /\ HasSelected(s)
    BY <2>1, <2>2 DEF RequestHasRead, HasSelected, RowsStayOpen, SyncSelected, MergeSelected,
                      RejectSelected
  <2> QED
    BY <2>1, <2>2, <2>4, <2>5, StepSelects
<1>3. CASE \E p \in Products : BeginReject(t, p)
  <2> PICK p \in Products : BeginReject(t, p)
    BY <1>3
  <2> DEFINE s == [NoTx EXCEPT !.op = "reject", !.step = "scan", !.product = p,
                               !.offers = OffersOf(p)]
  <2>1. Set(t, s) /\ UNCHANGED data /\ KeyFree(p)
    BY DEF BeginReject
  <2>2. s.op = "reject" /\ s.step = "scan" /\ s.seen = {} /\ s.scan = {} /\ s.rows = {}
        /\ s.product = p /\ s.offers = OffersOf(p)
    BY DEF NoTx
  <2> HIDE DEF s
  <2>3. tx'[t] = s
    BY <2>1 DEF Set, CascadeInv, IInv
  <2>4. OffersHeld(t)' = {}
    BY <2>2, <2>3 DEF OffersHeld, At
  <2>5. RequestHasRead(s) /\ HasSelected(s)
    BY <2>1, <2>2 DEF RequestHasRead, HasSelected, RowsStayOpen, SyncSelected, MergeSelected,
                      RejectSelected
  <2> QED
    BY <2>1, <2>2, <2>4, <2>5, StepSelects
<1> QED
  BY <1>1, <1>2, <1>3

LEMMA ScanSelects ==
    ASSUME CascadeInv, IInv', NEW t \in Txs, Scan(t)
    PROVE  CascadeInv'
<1> PICK p \in tx[t].todo :
      Set(t, [tx[t] EXCEPT !.todo = @ \ {p}, !.seen = @ \cup {p},
                           !.scan = {r \in Rsvs : /\ Open(r) /\ ~rsv[r].priced
                                                  /\ \/ ProductOf(r) = p
                                                     \/ rsv[r].offer \in tx[t].offers}])
  BY DEF Scan
<1> DEFINE selected == {r \in Rsvs : /\ Open(r) /\ ~rsv[r].priced
                                     /\ \/ ProductOf(r) = p \/ rsv[r].offer \in tx[t].offers}
           s == [tx[t] EXCEPT !.todo = @ \ {p}, !.seen = @ \cup {p}, !.scan = selected]
<1>0. tx[t] \in TxState /\ HasSelected(tx[t])
  BY DEF CascadeInv, IInv
<1>1. /\ Set(t, s) /\ UNCHANGED data /\ tx[t].scan = {}
      /\ tx[t].op \in {"sync", "merge"} /\ tx[t].step = "scan"
  BY DEF Scan
<1>2. \A r \in Rsvs : r \in selected <=> /\ Open(r) /\ ~rsv[r].priced
                                         /\ \/ ProductOf(r) = p \/ rsv[r].offer \in tx[t].offers
  OBVIOUS
<1> HIDE DEF selected
<1>3. /\ s.op = tx[t].op /\ s.step = tx[t].step /\ s.product = tx[t].product
      /\ s.target = tx[t].target /\ s.offers = tx[t].offers /\ s.rows = tx[t].rows
      /\ s.todo = tx[t].todo \ {p} /\ s.seen = tx[t].seen \cup {p} /\ s.scan = selected
  BY <1>0 DEF TxState
<1> HIDE DEF s
<1>4. tx'[t] = s
  BY <1>1 DEF Set, CascadeInv, IInv
<1>5. OffersHeld(t)' = OffersHeld(t)
  BY <1>3, <1>4 DEF OffersHeld, At
<1>6. RequestHasRead(s) /\ RowsStayOpen(s) /\ RejectSelected(s)
  BY <1>0, <1>1, <1>3 DEF RequestHasRead, HasSelected, RowsStayOpen, RejectSelected
<1>7. SyncSelected(s)
  BY <1>0, <1>1, <1>2, <1>3 DEF HasSelected, SyncSelected, Awaits
<1>8. MergeSelected(s)
  <2>1. CASE tx[t].op = "merge"
    <3>1. MergeSelected(tx[t])
      BY <1>0 DEF HasSelected
    <3>2. tx[t].todo \cup tx[t].seen = {tx[t].target}
      BY <1>1, <2>1, <3>1 DEF MergeSelected
    <3>3. s.todo \cup s.seen = {s.target}
      BY <1>3, <3>2
    <3>4. \A r \in Rsvs : Awaits(r) /\ rsv[r].offer \in s.offers => r \in s.scan
      BY <1>2, <1>3 DEF Awaits
    <3> QED
      BY <1>1, <1>3, <2>1, <3>1, <3>3, <3>4 DEF MergeSelected
  <2>2. CASE tx[t].op # "merge"
    BY <1>3, <2>2 DEF MergeSelected
  <2> QED
    BY <2>1, <2>2
<1>9. InCatalogue(t)
  BY <1>1 DEF InCatalogue, Free
<1> QED
  BY <1>1, <1>3, <1>5, <1>6, <1>7, <1>8, <1>9, StepSelects DEF HasSelected

LEMMA LockRowSelects ==
    ASSUME CascadeInv, IInv', NEW t \in Txs, LockRow(t)
    PROVE  CascadeInv'
<1> PICK r \in tx[t].scan :
      Set(t, [tx[t] EXCEPT !.scan = @ \ {r}, !.rows = IF Open(r) THEN @ \cup {r} ELSE @])
  BY DEF LockRow
<1> DEFINE s == [tx[t] EXCEPT !.scan = @ \ {r}, !.rows = IF Open(r) THEN @ \cup {r} ELSE @]
<1>0. tx[t] \in TxState /\ HasSelected(tx[t])
  BY DEF CascadeInv, IInv
<1>1. Set(t, s) /\ UNCHANGED data
  BY DEF LockRow
<1>2. /\ s.op = tx[t].op /\ s.step = tx[t].step /\ s.product = tx[t].product
      /\ s.target = tx[t].target /\ s.offers = tx[t].offers /\ s.todo = tx[t].todo
      /\ s.seen = tx[t].seen /\ s.scan = tx[t].scan \ {r} /\ s.priced = tx[t].priced
      /\ s.rows = IF Open(r) THEN tx[t].rows \cup {r} ELSE tx[t].rows
  BY <1>0 DEF TxState
<1> HIDE DEF s
<1>3. tx'[t] = s
  BY <1>1 DEF Set, CascadeInv, IInv
<1>4. OffersHeld(t)' = OffersHeld(t)
  BY <1>2, <1>3 DEF OffersHeld, At
<1>5. InCatalogue(t)
  BY <1>0 DEF HasSelected, RowsStayOpen, InCatalogue, Free, TxState
<1>6. \A v \in Rsvs : Open(v) /\ v \in tx[t].scan \cup tx[t].rows => v \in s.scan \cup s.rows
  BY <1>2
<1>7. RequestHasRead(s) /\ RowsStayOpen(s)
  BY <1>0, <1>2, <1>5 DEF RequestHasRead, HasSelected, RowsStayOpen, InCatalogue, Free
<1>8. SyncSelected(s)
  BY <1>0, <1>2, <1>6 DEF HasSelected, SyncSelected, Awaits
<1>9. MergeSelected(s)
  BY <1>0, <1>2, <1>6 DEF HasSelected, MergeSelected, Awaits
<1>10. RejectSelected(s)
  BY <1>0, <1>2, <1>6 DEF HasSelected, RejectSelected
<1> QED
  BY <1>1, <1>2, <1>4, <1>5, <1>7, <1>8, <1>9, <1>10, StepSelects DEF HasSelected

LEMMA AdminStepsSelect ==
    ASSUME CascadeInv, IInv', NEW t \in Txs,
           MoveOffers(t) \/ ScanOpen(t) \/ ReadActive(t) \/ LockOffers(t)
    PROVE  CascadeInv'
<1>0. tx[t] \in TxState /\ HasSelected(tx[t])
  BY DEF CascadeInv, IInv
<1>1. CASE MoveOffers(t)
  <2> DEFINE moving == OffersOf(tx[t].product)
             s == [tx[t] EXCEPT !.step = "scan", !.offers = moving]
  <2>1. /\ Set(t, s) /\ UNCHANGED data /\ \A o \in moving : OfferFree(o)
        /\ tx[t].op = "merge" /\ tx[t].step = "move"
    BY <1>1 DEF MoveOffers, At
  <2> HIDE DEF moving
  <2>2. /\ s.op = "merge" /\ s.step = "scan" /\ s.product = tx[t].product /\ s.offers = moving
        /\ s.target = tx[t].target /\ s.todo = tx[t].todo /\ s.seen = tx[t].seen
        /\ s.scan = tx[t].scan /\ s.rows = tx[t].rows
    BY <1>0, <2>1 DEF TxState
  <2> HIDE DEF s
  <2>3. tx'[t] = s
    BY <2>1 DEF Set, CascadeInv, IInv
  <2>4. OffersHeld(t)' = moving
    BY <2>2, <2>3 DEF OffersHeld, At
  <2>5. MergeSelected(s)
    BY <1>0, <2>1, <2>2 DEF HasSelected, MergeSelected, moving
  <2>6. RequestHasRead(s) /\ RowsStayOpen(s) /\ SyncSelected(s) /\ RejectSelected(s)
    BY <1>0, <2>1, <2>2 DEF RequestHasRead, HasSelected, RowsStayOpen, SyncSelected,
                            RejectSelected
  <2> QED
    BY <2>1, <2>2, <2>4, <2>5, <2>6, StepSelects DEF HasSelected, InCatalogue, Free
<1>2. CASE ScanOpen(t)
  <2> DEFINE open == {r \in Rsvs : Open(r) /\ rsv[r].offer \in tx[t].offers}
             s == [tx[t] EXCEPT !.step = "rows", !.seen = {tx[t].product}, !.scan = open]
  <2>1. /\ Set(t, s) /\ UNCHANGED data /\ tx[t].op = "reject" /\ tx[t].step = "scan"
    BY <1>2 DEF ScanOpen, At
  <2>2. \A r \in Rsvs : Open(r) /\ ProductOf(r) = tx[t].product => r \in open
    <3>1. tx[t].offers = OffersOf(tx[t].product)
      BY <1>0, <2>1 DEF HasSelected, RejectSelected
    <3>2. \A r \in Rsvs : Open(r) => rsv[r].offer \in Offers
      BY DEF CascadeInv, RowsRefer, Open
    <3> QED
      BY <3>1, <3>2 DEF OffersOf, ProductOf
  <2> HIDE DEF open
  <2>3. /\ s.op = "reject" /\ s.step = "rows" /\ s.product = tx[t].product /\ s.scan = open
        /\ s.seen = {tx[t].product} /\ s.rows = tx[t].rows
    BY <1>0, <2>1 DEF TxState
  <2> HIDE DEF s
  <2>4. tx'[t] = s
    BY <2>1 DEF Set, CascadeInv, IInv
  <2>5. OffersHeld(t)' = {}
    BY <2>3, <2>4 DEF OffersHeld, At
  <2>6. RejectSelected(s)
    BY <2>2, <2>3 DEF RejectSelected
  <2>7. RequestHasRead(s) /\ RowsStayOpen(s) /\ SyncSelected(s) /\ MergeSelected(s)
    BY <1>0, <2>1, <2>3 DEF RequestHasRead, HasSelected, RowsStayOpen, SyncSelected,
                            MergeSelected
  <2> QED
    BY <2>1, <2>3, <2>5, <2>6, <2>7, StepSelects DEF HasSelected, InCatalogue, Free
<1>3. CASE ReadActive(t)
  <2> DEFINE active == {o \in OffersOf(tx[t].product) : Active(o)}
             s == [tx[t] EXCEPT !.step = "withdraw", !.offers = active]
  <2>1. /\ Set(t, s) /\ UNCHANGED data /\ tx[t].op = "reject" /\ tx[t].step = "rows"
        /\ tx[t].scan = {}
    BY <1>3 DEF ReadActive, At
  <2> HIDE DEF active
  <2>2. /\ s.op = "reject" /\ s.step = "withdraw" /\ s.product = tx[t].product
        /\ s.scan = tx[t].scan /\ s.seen = tx[t].seen /\ s.rows = tx[t].rows
    BY <1>0, <2>1 DEF TxState
  <2> HIDE DEF s
  <2>3. tx'[t] = s
    BY <2>1 DEF Set, CascadeInv, IInv
  <2>4. OffersHeld(t)' = {}
    BY <2>2, <2>3 DEF OffersHeld, At
  <2>5. RejectSelected(s)
    BY <1>0, <2>1, <2>2 DEF HasSelected, RejectSelected
  <2>6. RequestHasRead(s) /\ RowsStayOpen(s) /\ SyncSelected(s) /\ MergeSelected(s)
    BY <1>0, <2>1, <2>2 DEF RequestHasRead, HasSelected, RowsStayOpen, SyncSelected,
                            MergeSelected
  <2> QED
    BY <2>1, <2>2, <2>4, <2>5, <2>6, StepSelects DEF HasSelected, InCatalogue, Free
<1>4. CASE LockOffers(t)
  <2> DEFINE s == [tx[t] EXCEPT !.step = "commit"]
  <2>1. /\ Set(t, s) /\ UNCHANGED data /\ tx[t].op = "reject" /\ tx[t].step = "withdraw"
        /\ \A o \in tx[t].offers : OfferFree(o)
    BY <1>4 DEF LockOffers, At
  <2>2. /\ s.op = "reject" /\ s.step = "commit" /\ s.product = tx[t].product
        /\ s.scan = tx[t].scan /\ s.seen = tx[t].seen /\ s.rows = tx[t].rows
        /\ s.offers = tx[t].offers
    BY <1>0, <2>1 DEF TxState
  <2> HIDE DEF s
  <2>3. tx'[t] = s
    BY <2>1 DEF Set, CascadeInv, IInv
  <2>4. OffersHeld(t)' = tx[t].offers
    BY <2>2, <2>3 DEF OffersHeld, At
  <2>5. RejectSelected(s)
    BY <1>0, <2>1, <2>2 DEF HasSelected, RejectSelected
  <2>6. RequestHasRead(s) /\ RowsStayOpen(s) /\ SyncSelected(s) /\ MergeSelected(s)
    BY <1>0, <2>1, <2>2 DEF RequestHasRead, HasSelected, RowsStayOpen, SyncSelected,
                            MergeSelected
  <2> QED
    BY <2>1, <2>2, <2>4, <2>5, <2>6, StepSelects DEF HasSelected, InCatalogue, Free
<1> QED
  BY <1>1, <1>2, <1>3, <1>4

(* A request locks an offer nobody holds; its insert finds its product     *)
(* there and nobody settling it.                                           *)
LEMMA RequestsSelect ==
    ASSUME CascadeInv, IInv', NEW t \in Txs,
           \/ \E o \in Offers : BeginCreate(t, o)
           \/ \E m \in Members, p \in Products : ReadProduct(t, m, p)
           \/ InsertOffer(t) \/ Rollback(t)
    PROVE  CascadeInv'
<1>0. tx[t] \in TxState /\ HasSelected(tx[t])
  BY DEF CascadeInv, IInv
<1>1. CASE \E o \in Offers : BeginCreate(t, o)
  <2> PICK o \in Offers : BeginCreate(t, o)
    BY <1>1
  <2> DEFINE price == product[offer[o].product].priced
             s == [NoTx EXCEPT !.op = "create", !.step = "insert", !.offers = {o}, !.priced = price]
  <2>1. Set(t, s) /\ UNCHANGED data /\ OfferFree(o) /\ offer[o].status = "active"
    BY DEF BeginCreate, Active
  <2>2. s.op = "create" /\ s.step = "insert" /\ s.offers = {o} /\ s.priced = price
        /\ s.scan = {} /\ s.rows = {}
    BY DEF NoTx
  <2> HIDE DEF s
  <2>3. tx'[t] = s
    BY <2>1 DEF Set, CascadeInv, IInv
  <2>4. OffersHeld(t)' = {o}
    BY <2>2, <2>3 DEF OffersHeld, At
  <2>5. RequestHasRead(s) /\ HasSelected(s)
    BY <2>1, <2>2 DEF RequestHasRead, HasSelected, RowsStayOpen, SyncSelected, MergeSelected,
                      RejectSelected
  <2> QED
    BY <2>1, <2>2, <2>4, <2>5, StepSelects
<1>2. CASE \E m \in Members, p \in Products : ReadProduct(t, m, p)
  <2> PICK m \in Members, p \in Products : ReadProduct(t, m, p)
    BY <1>2
  <2> DEFINE s == [NoTx EXCEPT !.op = "publish", !.step = "insert", !.who = m, !.product = p]
  <2>1. Set(t, s) /\ UNCHANGED data
    BY DEF ReadProduct
  <2>2. s.op = "publish" /\ s.step = "insert" /\ s.scan = {} /\ s.rows = {}
    BY DEF NoTx
  <2> HIDE DEF s
  <2>3. tx'[t] = s
    BY <2>1 DEF Set, CascadeInv, IInv
  <2>4. OffersHeld(t)' = {}
    BY <2>2, <2>3 DEF OffersHeld, At
  <2>5. RequestHasRead(s) /\ HasSelected(s)
    BY <2>1, <2>2 DEF RequestHasRead, HasSelected, RowsStayOpen, SyncSelected, MergeSelected,
                      RejectSelected
  <2> QED
    BY <2>1, <2>2, <2>4, <2>5, StepSelects
<1>3. CASE InsertOffer(t)
  <2> DEFINE s == [tx[t] EXCEPT !.step = "commit"]
  <2>1. /\ Set(t, s) /\ UNCHANGED data /\ tx[t].op = "publish" /\ tx[t].step = "insert"
        /\ UpdateFree(tx[t].product) /\ Exists(tx[t].product)
    BY <1>3 DEF InsertOffer, At
  <2>2. s.op = "publish" /\ s.step = "commit" /\ s.product = tx[t].product
        /\ s.scan = tx[t].scan /\ s.rows = tx[t].rows
    BY <1>0, <2>1 DEF TxState
  <2> HIDE DEF s
  <2>3. tx'[t] = s
    BY <2>1 DEF Set, CascadeInv, IInv
  <2>4. OffersHeld(t)' = {}
    BY <2>2, <2>3 DEF OffersHeld, At
  <2>5. RequestHasRead(s) /\ HasSelected(s)
    BY <1>0, <2>1, <2>2 DEF RequestHasRead, HasSelected, RowsStayOpen, SyncSelected,
                            MergeSelected, RejectSelected
  <2> QED
    BY <2>1, <2>2, <2>4, <2>5, StepSelects
<1>4. CASE Rollback(t)
  <2>1. Set(t, NoTx) /\ UNCHANGED data
    BY <1>4 DEF Rollback, End
  <2>2. NoTx.step = "idle" /\ NoTx.scan = {} /\ NoTx.rows = {}
    BY DEF NoTx
  <2>3. tx'[t] = NoTx
    BY <2>1 DEF Set, CascadeInv, IInv
  <2>4. OffersHeld(t)' = {}
    BY <2>2, <2>3 DEF OffersHeld, At
  <2>5. RequestHasRead(NoTx) /\ HasSelected(NoTx)
    BY <2>2 DEF RequestHasRead, HasSelected, RowsStayOpen, SyncSelected, MergeSelected,
                RejectSelected
  <2> QED
    BY <2>1, <2>2, <2>4, <2>5, StepSelects
<1> QED
  BY <1>1, <1>2, <1>3, <1>4

(* Under the lock nobody else is in the catalogue: no selection is at      *)
(* stake when its holder writes.                                           *)
LEMMA HolderWrites ==
    ASSUME CascadeInv, NEW t \in Txs, InCatalogue(t), End(t)
    PROVE  /\ \A u \in Txs : tx'[u] = tx[u] \/ tx'[u] = NoTx
           /\ \A u \in Txs : InCatalogue(u) /\ tx'[u] = tx[u] => HasSelected(tx[u])'
<1>1. tx'[t] = NoTx /\ \A u \in Txs : u # t => tx'[u] = tx[u]
  BY DEF End, Set, CascadeInv, IInv
<1>2. tx'[t] # tx[t]
  BY <1>1 DEF InCatalogue, Free, NoTx
<1>3. \A u \in Txs : u # t => ~InCatalogue(u)
  BY DEF CascadeInv, IInv, OneInCatalogue
<1> QED
  BY <1>1, <1>2, <1>3

(* A new name, or another one, for a product that stays what it is.        *)
LEMMA NamingSelects ==
    ASSUME CascadeInv, IInv',
           \/ \E m \in Members, n \in Names, p \in Products : Propose(m, n, p)
           \/ \E p \in Products, n \in Names : Rename(p, n)
    PROVE  CascadeInv'
<1>1. CatalogueFree /\ tx' = tx /\ offer' = offer /\ rsv' = rsv /\ crossed' = crossed
  BY DEF Propose, Proposes, Rename
<1>2. PICK p \in Products :
        /\ \A q \in Products : q # p => product'[q] = product[q]
        /\ product'[p].status = "pending" /\ ~product'[p].priced
        /\ product[p].status = "none" \/ product[p].status = "pending"
  <2>1. ASSUME NEW m \in Members, NEW n \in Names, NEW p \in Products, Propose(m, n, p)
        PROVE  /\ \A q \in Products : q # p => product'[q] = product[q]
               /\ product'[p].status = "pending" /\ ~product'[p].priced
               /\ product[p].status = "none"
    BY <2>1 DEF Propose, Proposes, Unused, CascadeInv, IInv
  <2>2. ASSUME NEW n \in Names, NEW p \in Products, Rename(p, n)
        PROVE  /\ \A q \in Products : q # p => product'[q] = product[q]
               /\ product'[p].status = "pending" /\ ~product'[p].priced
               /\ product[p].status = "pending"
    <3>1. product[p] \in ProductRow /\ ~product[p].priced /\ product[p].status = "pending"
      BY <2>2 DEF Rename, CascadeInv, IInv, RowsRefer
    <3>2. product' = [product EXCEPT ![p].slug = n]
      BY <2>2 DEF Rename
    <3> QED
      BY <3>1, <3>2 DEF CascadeInv, IInv, ProductRow
  <2> QED
    BY <2>1, <2>2
<1>3. \A q \in Products : product[q].status \notin {"none", "deleted"} =>
                              product'[q].status \notin {"none", "deleted"}
  BY <1>2
<1>4. \A o \in Offers : offer[o].status # "none" => offer[o].product \in Products
  BY DEF CascadeInv, IInv, OffersRefer
<1>5. \A o \in Offers : offer[o].status # "none" /\ offer[o].product = p =>
                            product[p].status = "pending"
  BY <1>2 DEF CascadeInv, RowsRefer, Exists
<1>6. RowsRefer'
  BY <1>1, <1>2, <1>3, <1>4 DEF CascadeInv, RowsRefer, Exists
<1>7. AwaitsSettling'
  <2> SUFFICES ASSUME NEW r \in Rsvs, Awaits(r)'
               PROVE  product'[ProductOf(r)'].status = "pending"
    BY DEF AwaitsSettling
  <2>1. Awaits(r) /\ ProductOf(r)' = ProductOf(r)
    BY <1>1 DEF Awaits, Open, ProductOf
  <2>2. product[ProductOf(r)].status = "pending" /\ ProductOf(r) \in Products
    BY <1>4, <2>1 DEF CascadeInv, AwaitsSettling, RowsRefer, Awaits, Open, ProductOf
  <2> QED
    BY <1>2, <2>1, <2>2
<1>8. \A u \in Txs : At(u, "publish", "commit") =>
                       product'[tx[u].product].status \notin {"none", "deleted"}
  BY <1>3 DEF CascadeInv, IInv, PublishHasRead, RequestHasRead, At, Exists
<1>9. ASSUME NEW u \in Txs, At(u, "create", "insert"), NEW o \in tx[u].offers
       PROVE  /\ offer'[o].status # "none"
              /\ product[offer[o].product].priced => product'[offer'[o].product].priced
  <2>1. o \in Offers /\ offer[o].status # "none"
    BY <1>9 DEF CascadeInv, IInv, TxState, RequestHasRead, At
  <2>2. offer[o].product = p => ~product[p].priced
    BY <1>5, <2>1 DEF CascadeInv, RowsRefer
  <2> QED
    BY <1>1, <1>2, <1>4, <2>1, <2>2
<1>10. \A u \in Txs : ~InCatalogue(u)
  BY <1>1 DEF CatalogueFree
<1> QED
  BY <1>1, <1>6, <1>7, <1>8, <1>9, <1>10, WriteSelects

(* Who waited for a price has been selected, whatever the sheet lists.     *)
LEMMA CommitSyncSelects ==
    ASSUME CascadeInv, IInv', NEW t \in Txs, CommitSync(t)
    PROVE  CascadeInv'
<1> DEFINE s == tx[t]
           new == {n \in s.valid : s.bySlug[n] = None}
           listed == {s.bySlug[n] : n \in s.valid \ new}
<1>1. /\ s.op = "sync" /\ s.step = "scan" /\ s.todo = {} /\ s.scan = {} /\ End(t)
      /\ rsv' = Priced(s.rows) /\ offer' = offer /\ crossed' = crossed /\ InCatalogue(t)
  BY DEF CommitSync, At, InCatalogue, Free
<1>2. PICK id \in [new -> {p \in Products : Unused(p)}] :
        product' =
              [p \in Products |->
                  IF p \in listed
                  THEN [product[p] EXCEPT !.status = "active", !.source = "sheet", !.priced = TRUE]
                  ELSE IF p \in s.missing THEN [product[p] EXCEPT !.status = "archived"]
                  ELSE IF \E n \in new : id[n] = p
                  THEN [NoProduct EXCEPT !.status = "active", !.priced = TRUE,
                                         !.slug = CHOOSE n \in new : id[n] = p]
                  ELSE product[p]]
  BY DEF CommitSync
<1>3. s \in TxState /\ SyncHasRead(s) /\ SyncSelected(s) /\ product \in [Products -> ProductRow]
  BY DEF CascadeInv, IInv, HasSelected
<1>4. \A p \in listed : product[p].slug \in s.valid
  BY <1>1, <1>3 DEF SyncHasRead, TxState, Named
<1>5. \A p \in listed : product[p].status = "pending" => p \in s.seen
  <2>1. \A p \in listed : p \in Products
    BY <1>1, <1>3 DEF SyncHasRead, TxState, Named
  <2> QED
    BY <1>1, <1>3, <1>4, <2>1 DEF SyncHasRead
<1>6. \A p \in s.missing : product[p].status = "active"
  BY <1>1, <1>3 DEF SyncHasRead
<1>7. \A p \in Products : (\E n \in new : id[n] = p) => product[p].status = "none"
  BY <1>2 DEF Unused
<1> HIDE DEF listed, new
<1>8. ASSUME NEW p \in Products
      PROVE  /\ product[p].status \notin {"none", "deleted"} =>
                   product'[p].status \notin {"none", "deleted"}
             /\ product[p].status # "none" /\ product[p].priced => product'[p].priced
             /\ product'[p].status = "pending" => product'[p] = product[p]
             /\ product[p].status = "pending" => p \in s.seen \/ product'[p] = product[p]
  <2>1. product[p] \in ProductRow
    BY <1>3
  <2>2. CASE p \in listed
    <3>1. product'[p] = [product[p] EXCEPT !.status = "active", !.source = "sheet",
                                           !.priced = TRUE]
      BY <1>2, <2>2
    <3>2. product'[p].status = "active" /\ product'[p].priced
      BY <2>1, <3>1 DEF ProductRow
    <3> QED
      BY <1>5, <2>2, <3>2
  <2>3. CASE p \notin listed /\ p \in s.missing
    <3>1. product'[p] = [product[p] EXCEPT !.status = "archived"]
      BY <1>2, <2>3
    <3>2. product'[p].status = "archived" /\ product'[p].priced = product[p].priced
      BY <2>1, <3>1 DEF ProductRow
    <3> QED
      BY <1>6, <2>3, <3>2
  <2>4. CASE p \notin listed /\ p \notin s.missing /\ \E n \in new : id[n] = p
    <3>1. product'[p] = [NoProduct EXCEPT !.status = "active", !.priced = TRUE,
                                          !.slug = CHOOSE n \in new : id[n] = p]
      BY <1>2, <2>4
    <3>2. product'[p].status = "active" /\ product'[p].priced
      BY <3>1 DEF NoProduct
    <3> QED
      BY <1>7, <2>4, <3>2
  <2>5. CASE p \notin listed /\ p \notin s.missing /\ ~\E n \in new : id[n] = p
    <3>1. product'[p] = product[p]
      BY <1>2, <2>5
    <3> QED
      BY <3>1
  <2> QED
    BY <2>2, <2>3, <2>4, <2>5
<1>9. \A r \in Rsvs : /\ rsv'[r].status = rsv[r].status /\ rsv'[r].offer = rsv[r].offer
                      /\ rsv'[r].priced <=> rsv[r].priced \/ r \in s.rows
                      /\ rsv'[r] \in RsvRow
  BY <1>1 DEF Priced, CascadeInv, RowsRefer, RsvRow
<1>10. \A o \in Offers : offer[o].status # "none" => offer[o].product \in Products
  BY DEF CascadeInv, IInv, OffersRefer
<1>11. RowsRefer'
  <2>1. rsv' \in [Rsvs -> RsvRow]
    BY <1>1, <1>9 DEF Priced
  <2>2. \A o \in Offers : IF offer'[o].status = "none" THEN offer'[o].product = None
                          ELSE product'[offer'[o].product].status \notin {"none", "deleted"}
    BY <1>1, <1>8, <1>10 DEF CascadeInv, RowsRefer, Exists
  <2>3. \A p \in Products : product'[p].status = "pending" => ~product'[p].priced
    BY <1>8 DEF CascadeInv, RowsRefer
  <2> QED
    BY <1>1, <1>9, <2>1, <2>2, <2>3 DEF CascadeInv, RowsRefer, Exists
<1>12. AwaitsSettling'
  <2> SUFFICES ASSUME NEW r \in Rsvs, Awaits(r)'
               PROVE  product'[ProductOf(r)'].status = "pending"
    BY DEF AwaitsSettling
  <2>1. Awaits(r) /\ r \notin s.rows /\ ProductOf(r)' = ProductOf(r)
    BY <1>1, <1>9 DEF Awaits, Open, ProductOf
  <2>2. product[ProductOf(r)].status = "pending" /\ ProductOf(r) \in Products
    BY <1>10, <2>1 DEF CascadeInv, AwaitsSettling, RowsRefer, Awaits, Open, ProductOf
  <2>3. ProductOf(r) \notin s.seen
    BY <1>1, <1>3, <2>1 DEF SyncSelected
  <2> QED
    BY <1>8, <2>1, <2>2, <2>3
<1>13. \A u \in Txs : At(u, "publish", "commit") =>
                        product'[tx[u].product].status \notin {"none", "deleted"}
  BY <1>8 DEF CascadeInv, IInv, PublishHasRead, RequestHasRead, At, Exists
<1>14. ASSUME NEW u \in Txs, At(u, "create", "insert"), NEW o \in tx[u].offers
       PROVE  /\ offer'[o].status # "none"
              /\ product[offer[o].product].priced => product'[offer'[o].product].priced
  <2>1. o \in Offers /\ offer[o].status # "none"
    BY <1>14 DEF CascadeInv, IInv, TxState, RequestHasRead, At
  <2>2. offer[o].product \in Products /\ product[offer[o].product].status # "none"
    BY <1>10, <2>1 DEF CascadeInv, RowsRefer, Exists
  <2> QED
    BY <1>1, <1>8, <2>1, <2>2
<1> QED
  BY <1>1, <1>11, <1>12, <1>13, <1>14, HolderWrites, WriteSelects

(* The offers of a merged proposal move, all of them, to a product none of *)
(* whose producers has another; their waiting reservations get its price.  *)
LEMMA CommitMergeSelects ==
    ASSUME CascadeInv, IInv', NEW t \in Txs, CommitMerge(t)
    PROVE  CascadeInv'
<1> DEFINE s == tx[t]
           p == s.product
           q == s.target
<1>1. /\ s.op = "merge" /\ s.step = "scan" /\ s.todo = {} /\ s.scan = {} /\ End(t)
      /\ rsv' = Priced(s.rows) /\ crossed' = crossed /\ InCatalogue(t)
      /\ product' = [product EXCEPT ![p].status = "archived"]
      /\ offer' = [o \in Offers |-> IF o \in s.offers THEN [offer[o] EXCEPT !.product = q]
                                    ELSE offer[o]]
  BY DEF CommitMerge, At, InCatalogue, Free
<1>2. /\ s \in TxState /\ product \in [Products -> ProductRow] /\ offer \in [Offers -> OfferRow]
      /\ p \in Products /\ q \in Products
      /\ product[p].status = "pending" /\ product[q].status = "active"
      /\ s.offers = OffersOf(p) /\ q \in s.seen
      /\ \A r \in Rsvs : Awaits(r) /\ rsv[r].offer \in s.offers => r \in s.rows
  BY <1>1 DEF CascadeInv, IInv, OffersRefer, AdminHasRead, HasSelected, MergeSelected
<1>3. /\ \A u \in Products : product'[u].priced = product[u].priced
      /\ \A u \in Products : u # p => product'[u] = product[u]
      /\ product'[p].status = "archived"
  BY <1>1, <1>2 DEF ProductRow
<1>4. \A o \in Offers : /\ offer'[o].status = offer[o].status
                        /\ offer'[o].producer = offer[o].producer
                        /\ offer'[o].product = IF o \in s.offers THEN q ELSE offer[o].product
  BY <1>1, <1>2 DEF OfferRow
<1>5. \A o \in Offers : o \in s.offers <=> offer[o].product = p
  BY <1>2 DEF OffersOf
<1>6. \A o \in Offers : offer[o].status # "none" => offer[o].product \in Products
  BY DEF CascadeInv, IInv, OffersRefer
<1>7. \A r \in Rsvs : /\ rsv'[r].status = rsv[r].status /\ rsv'[r].offer = rsv[r].offer
                      /\ rsv'[r].priced <=> rsv[r].priced \/ r \in s.rows
                      /\ rsv'[r] \in RsvRow
  BY <1>1 DEF Priced, CascadeInv, RowsRefer, RsvRow
<1>8. RowsRefer'
  <2>1. rsv' \in [Rsvs -> RsvRow]
    BY <1>1, <1>7 DEF Priced
  <2>2. \A o \in Offers : IF offer'[o].status = "none" THEN offer'[o].product = None
                          ELSE product'[offer'[o].product].status \notin {"none", "deleted"}
    <3> TAKE o \in Offers
    <3>1. CASE offer[o].status = "none"
      <4>1. offer[o].product = None
        BY <3>1 DEF CascadeInv, RowsRefer
      <4>2. o \notin s.offers
        BY <1>2, <1>5, <4>1, CatalogAssumption
      <4> QED
        BY <1>4, <3>1, <4>1, <4>2
    <3>2. CASE offer[o].status # "none"
      <4>1. product[offer[o].product].status \notin {"none", "deleted"}
        BY <3>2 DEF CascadeInv, RowsRefer, Exists
      <4>2. offer'[o].product \in Products /\ offer'[o].product # p
        BY <1>2, <1>4, <1>5, <1>6, <3>2
      <4>3. product'[offer'[o].product] = product[offer'[o].product]
        BY <1>3, <4>2
      <4> QED
        BY <1>2, <1>4, <3>2, <4>1, <4>3
    <3> QED
      BY <3>1, <3>2
  <2>3. \A u \in Products : product'[u].status = "pending" => ~product'[u].priced
    BY <1>3 DEF CascadeInv, RowsRefer
  <2>4. \A r \in Rsvs : rsv'[r].status # "none" =>
           rsv'[r].offer \in Offers /\ offer'[rsv'[r].offer].status # "none"
    BY <1>4, <1>7 DEF CascadeInv, RowsRefer
  <2> QED
    BY <2>1, <2>2, <2>3, <2>4 DEF RowsRefer, Exists
<1>9. AwaitsSettling'
  <2> SUFFICES ASSUME NEW r \in Rsvs, Awaits(r)'
               PROVE  product'[ProductOf(r)'].status = "pending"
    BY DEF AwaitsSettling
  <2>1. Awaits(r) /\ r \notin s.rows /\ rsv[r].offer \in Offers /\ rsv'[r].offer = rsv[r].offer
    BY <1>1, <1>7 DEF Awaits, Open, CascadeInv, RowsRefer
  <2>2. offer[rsv[r].offer].product \in Products
        /\ product[offer[rsv[r].offer].product].status = "pending"
    BY <1>6, <2>1 DEF CascadeInv, AwaitsSettling, RowsRefer, Awaits, Open, ProductOf
  <2>3. rsv[r].offer \notin s.offers
    BY <1>2, <2>1
  <2>4. offer'[rsv[r].offer].product = offer[rsv[r].offer].product
        /\ offer[rsv[r].offer].product # p
    BY <1>4, <1>5, <2>1, <2>3
  <2> QED
    BY <1>3, <2>1, <2>2, <2>4 DEF ProductOf
<1>10. \A u \in Txs : At(u, "publish", "commit") =>
                        product'[tx[u].product].status \notin {"none", "deleted"}
  <2>1. \A u \in Products : product[u].status \notin {"none", "deleted"} =>
                            product'[u].status \notin {"none", "deleted"}
    BY <1>3
  <2> QED
    BY <2>1 DEF CascadeInv, IInv, PublishHasRead, RequestHasRead, At, Exists
<1>11. ASSUME NEW u \in Txs, At(u, "create", "insert"), NEW o \in tx[u].offers
       PROVE  /\ offer'[o].status # "none"
              /\ product[offer[o].product].priced => product'[offer'[o].product].priced
  <2>1. o \in Offers /\ offer[o].status # "none"
    BY <1>11 DEF CascadeInv, IInv, TxState, RequestHasRead, At
  <2>2. o \notin s.offers
    <3>1. u # t
      BY <1>1, <1>11 DEF At
    <3>2. OffersHeld(t) = s.offers /\ o \in OffersHeld(u)
      BY <1>1, <1>11 DEF OffersHeld, At
    <3> QED
      BY <3>1, <3>2 DEF CascadeInv, OffersDisjoint
  <2> QED
    BY <1>3, <1>4, <1>6, <2>1, <2>2
<1> QED
  BY <1>1, <1>8, <1>9, <1>10, <1>11, HolderWrites, WriteSelects

(* No reservation that was in time is left open on a rejected proposal.    *)
LEMMA CommitRejectSelects ==
    ASSUME CascadeInv, IInv', NEW t \in Txs, CommitReject(t)
    PROVE  CascadeInv'
<1> DEFINE s == tx[t]
           p == s.product
<1>1. /\ s.op = "reject" /\ s.step = "commit" /\ End(t) /\ crossed' = crossed /\ InCatalogue(t)
      /\ rsv' = [r \in Rsvs |-> IF r \in s.rows THEN [rsv[r] EXCEPT !.status = "closed"]
                                ELSE rsv[r]]
      /\ product' = [product EXCEPT ![p] = RejectedRow(p)]
      /\ offer' = [o \in Offers |-> IF o \in s.offers THEN [offer[o] EXCEPT !.status = "closed"]
                                    ELSE offer[o]]
  BY DEF CommitReject, At, InCatalogue, Free
<1>2. /\ s \in TxState /\ product \in [Products -> ProductRow] /\ offer \in [Offers -> OfferRow]
      /\ p \in Products /\ product[p].status = "pending"
      /\ \A o \in s.offers : offer[o].product \in Products
      /\ \A r \in Rsvs : Open(r) /\ r \notin crossed /\ ProductOf(r) = p => r \in s.rows
  BY <1>1 DEF CascadeInv, IInv, OffersRefer, AdminHasRead, HasSelected, RejectSelected
<1>3. /\ RejectedRow(p).priced = product[p].priced
      /\ RejectedRow(p).status = IF OffersOf(p) = {} THEN "deleted" ELSE "archived"
  BY <1>2 DEF RejectedRow, ProductRow
<1>4. /\ product'[p] = RejectedRow(p)
      /\ \A u \in Products : u # p => product'[u] = product[u]
  BY <1>1, <1>2
<1>5. \A o \in Offers : /\ offer'[o].status = IF o \in s.offers THEN "closed" ELSE offer[o].status
                        /\ offer'[o].producer = offer[o].producer
                        /\ offer'[o].product = offer[o].product
  BY <1>1, <1>2 DEF OfferRow
<1>6. \A o \in Offers : offer[o].status # "none" => offer[o].product \in Products
  BY DEF CascadeInv, IInv, OffersRefer
<1>7. \A o \in s.offers : offer[o].status # "none"
  BY <1>2, CatalogAssumption DEF CascadeInv, RowsRefer, TxState
<1>8. \A r \in Rsvs : /\ rsv'[r].status = IF r \in s.rows THEN "closed" ELSE rsv[r].status
                      /\ rsv'[r].offer = rsv[r].offer /\ rsv'[r].priced = rsv[r].priced
                      /\ rsv'[r] \in RsvRow
  BY <1>1 DEF CascadeInv, RowsRefer, RsvRow
<1>9. \A r \in s.rows : Open(r)
  BY DEF CascadeInv, HasSelected, RowsStayOpen
<1>10. \A o \in Offers : offer[o].status # "none" =>
                          product'[offer[o].product].status \notin {"none", "deleted"}
  <2> SUFFICES ASSUME NEW o \in Offers, offer[o].status # "none"
               PROVE  product'[offer[o].product].status \notin {"none", "deleted"}
    OBVIOUS
  <2>1. CASE offer[o].product = p
    <3>1. OffersOf(p) # {}
      BY <2>1 DEF OffersOf
    <3> QED
      BY <1>3, <1>4, <2>1, <3>1
  <2>2. CASE offer[o].product # p
    BY <1>4, <1>6, <2>2 DEF CascadeInv, RowsRefer, Exists
  <2> QED
    BY <2>1, <2>2
<1>11. RowsRefer'
  <2>1. rsv' \in [Rsvs -> RsvRow]
    BY <1>1, <1>8
  <2>2. \A o \in Offers : IF offer'[o].status = "none" THEN offer'[o].product = None
                          ELSE product'[offer'[o].product].status \notin {"none", "deleted"}
    BY <1>5, <1>7, <1>10 DEF CascadeInv, RowsRefer
  <2>3. \A u \in Products : product'[u].status = "pending" => ~product'[u].priced
    BY <1>3, <1>4 DEF CascadeInv, RowsRefer
  <2>4. \A r \in Rsvs : rsv'[r].status # "none" =>
           rsv'[r].offer \in Offers /\ offer'[rsv'[r].offer].status # "none"
    BY <1>5, <1>8, <1>9 DEF CascadeInv, RowsRefer, Open
  <2> QED
    BY <2>1, <2>2, <2>3, <2>4 DEF RowsRefer, Exists
<1>12. AwaitsSettling'
  <2> SUFFICES ASSUME NEW r \in Rsvs, Awaits(r)'
               PROVE  product'[ProductOf(r)'].status = "pending"
    BY DEF AwaitsSettling
  <2>1. Awaits(r) /\ r \notin s.rows /\ rsv[r].offer \in Offers /\ rsv'[r].offer = rsv[r].offer
    BY <1>1, <1>8 DEF Awaits, Open, CascadeInv, RowsRefer
  <2>2. ProductOf(r) \in Products /\ product[ProductOf(r)].status = "pending"
    BY <1>6, <2>1 DEF CascadeInv, AwaitsSettling, RowsRefer, Awaits, Open, ProductOf
  <2>3. ProductOf(r) # p
    BY <1>2, <2>1 DEF Awaits
  <2>4. ProductOf(r)' = ProductOf(r)
    BY <1>5, <2>1 DEF ProductOf
  <2> QED
    BY <1>4, <2>2, <2>3, <2>4
<1>13. \A u \in Txs : At(u, "publish", "commit") =>
                        product'[tx[u].product].status \notin {"none", "deleted"}
  <2> SUFFICES ASSUME NEW u \in Txs, At(u, "publish", "commit")
               PROVE  product'[tx[u].product].status \notin {"none", "deleted"}
    OBVIOUS
  <2>1. tx[u].product \in Products /\ Exists(tx[u].product) /\ UpdateFree(tx[u].product)
    BY DEF CascadeInv, IInv, PublishHasRead, RequestHasRead, At
  <2>2. tx[u].product # p
    BY <1>1, <2>1 DEF UpdateFree
  <2> QED
    BY <1>4, <2>1, <2>2 DEF Exists
<1>14. ASSUME NEW u \in Txs, At(u, "create", "insert"), NEW o \in tx[u].offers
       PROVE  /\ offer'[o].status # "none"
              /\ product[offer[o].product].priced => product'[offer'[o].product].priced
  <2>1. o \in Offers /\ offer[o].status # "none"
    BY <1>14 DEF CascadeInv, IInv, TxState, RequestHasRead, At
  <2> QED
    BY <1>3, <1>4, <1>5, <1>6, <2>1
<1> QED
  BY <1>1, <1>11, <1>12, <1>13, <1>14, HolderWrites, WriteSelects

(* A new reservation has the price of its product, waits for it in time,   *)
(* or has crossed the settling.                                            *)
LEMMA CommitCreateSelects ==
    ASSUME CascadeInv, IInv', NEW t \in Txs, CommitCreate(t)
    PROVE  CascadeInv'
<1> DEFINE s == tx[t]
<1>1. PICK o \in s.offers, n \in Rsvs :
        /\ rsv[n].status = "none"
        /\ rsv' = [rsv EXCEPT ![n] = [status |-> "open", offer |-> o, priced |-> s.priced]]
        /\ crossed' = IF ~s.priced /\ Settling(offer[o].product) THEN crossed \cup {n}
                      ELSE crossed
  BY DEF CommitCreate
<1>2. /\ s.op = "create" /\ s.step = "insert" /\ product' = product /\ offer' = offer
      /\ tx'[t] = NoTx /\ \A u \in Txs : u # t => tx'[u] = tx[u]
  BY DEF CommitCreate, At, End, Set, CascadeInv, IInv
<1>3. /\ s \in TxState /\ o \in Offers /\ offer[o].status # "none"
      /\ offer[o].product \in Products
      /\ s.priced => product[offer[o].product].priced
  BY <1>2 DEF CascadeInv, IInv, TxState, OffersRefer, RequestHasRead
<1>4. [status |-> "open", offer |-> o, priced |-> s.priced] \in RsvRow
  BY <1>3 DEF RsvRow, TxState
<1>5. /\ rsv' \in [Rsvs -> RsvRow]
      /\ rsv'[n] = [status |-> "open", offer |-> o, priced |-> s.priced]
      /\ \A r \in Rsvs : r # n => rsv'[r] = rsv[r]
  BY <1>1, <1>4 DEF CascadeInv, RowsRefer
<1>6. rsv'[n].status = "open" /\ rsv'[n].offer = o /\ rsv'[n].priced = s.priced
  BY <1>5
<1>7. RowsRefer'
  BY <1>2, <1>3, <1>5, <1>6 DEF CascadeInv, RowsRefer, Exists
<1>8. \A r \in Rsvs : r # n /\ Open(r)' /\ r \notin crossed' => OldRow(r)
  BY <1>1, <1>2, <1>5 DEF OldRow, Open
<1>9. ~s.priced /\ n \notin crossed' => ~Settling(offer[o].product)
  BY <1>1
<1>10. AwaitsSettling'
  <2> SUFFICES ASSUME NEW r \in Rsvs, Awaits(r)'
               PROVE  product'[ProductOf(r)'].status = "pending"
    BY DEF AwaitsSettling
  <2>1. CASE r = n
    BY <1>2, <1>6, <1>9, <2>1 DEF Awaits, ProductOf, Settling
  <2>2. CASE r # n
    <3>1. OldRow(r) /\ Awaits(r)
      BY <1>8, <2>2 DEF Awaits, OldRow
    <3> QED
      BY <1>2, <3>1 DEF CascadeInv, AwaitsSettling, OldRow, ProductOf
  <2> QED
    BY <2>1, <2>2
<1>11. ASSUME NEW u \in Txs, InCatalogue(u), tx'[u] = tx[u] PROVE HasSelected(tx[u])'
  <2>1. \A r \in tx[u].rows : Open(r)'
    <3>1. \A r \in tx[u].rows : r \in Rsvs /\ Open(r)
      BY DEF CascadeInv, IInv, TxState, HasSelected, RowsStayOpen
    <3> QED
      BY <1>1, <1>5, <3>1 DEF Open
  <2>2. OffersOf(tx[u].product)' = OffersOf(tx[u].product)
    BY <1>2, <1>11 DEF OffersOf
  <2>3. tx[u].op = "merge" => tx[u].step \in {"move", "scan"}
    BY <1>11 DEF CascadeInv, HasSelected, MergeSelected, InCatalogue, Free
  <2>4. tx[u].op = "merge" /\ tx[u].step = "scan" => o \notin tx[u].offers
    <3>1. u # t
      BY <1>2, <1>11 DEF InCatalogue
    <3>2. OffersHeld(t) = s.offers
      BY <1>2 DEF OffersHeld, At
    <3> QED
      BY <3>1, <3>2 DEF OffersHeld, At, CascadeInv, OffersDisjoint
  <2>5. n \notin crossed' => (tx[u].op = "merge" /\ tx[u].step = "move") \/ NewRow(n, tx[u])
    BY <1>2, <1>3, <1>6, <1>9, <1>11, <2>3, <2>4 DEF NewRow, Settling
  <2>6. \A r \in Rsvs : Open(r)' /\ r \notin crossed' =>
           OldRow(r) \/ (tx[u].op = "merge" /\ tx[u].step = "move") \/ NewRow(r, tx[u])
    BY <1>8, <2>5
  <2> QED
    BY <1>2, <1>11, <2>1, <2>2, <2>6, SettlerStays
<1>12. \A u \in Txs : At(u, "publish", "commit") =>
                        product'[tx[u].product].status \notin {"none", "deleted"}
  BY <1>2 DEF CascadeInv, RequestHasRead, At, Exists
<1>13. \A u \in Txs : At(u, "create", "insert") =>
          \A v \in tx[u].offers :
             /\ offer'[v].status # "none"
             /\ product[offer[v].product].priced => product'[offer'[v].product].priced
  BY <1>2 DEF CascadeInv, RequestHasRead, At
<1>14. \A u \in Txs : tx'[u] = tx[u] \/ tx'[u] = NoTx
  BY <1>2
<1> QED
  BY <1>7, <1>10, <1>11, <1>12, <1>13, <1>14, WriteSelects

(* An offer is put up, taken down or put back: the products that are being *)
(* settled keep the offers they had.                                       *)
LEMMA OffersSelect ==
    ASSUME CascadeInv, IInv',
           \/ \E t \in Txs : CommitPublish(t)
           \/ \E o \in Offers : Relist(o) \/ Unlist(o)
    PROVE  CascadeInv'
<1>1. PICK o \in Offers :
        /\ \A v \in Offers : v # o => offer'[v] = offer[v]
        /\ offer'[o].status \in {"active", "closed"} /\ offer'[o].product \in Products
        /\ \/ /\ offer[o].status # "none" /\ offer'[o].product = offer[o].product
              /\ offer'[o].producer = offer[o].producer
           \/ /\ offer[o].status = "none" /\ Exists(offer'[o].product)
              /\ UpdateFree(offer'[o].product)
        /\ product' = product /\ rsv' = rsv /\ crossed' = crossed
        /\ \A u \in Txs : tx'[u] = tx[u] \/ tx'[u] = NoTx
  <2>0. offer \in [Offers -> OfferRow] /\
        \A v \in Offers : offer[v].status # "none" => offer[v].product \in Products
    BY DEF CascadeInv, IInv, OffersRefer
  <2>1. ASSUME NEW t \in Txs, CommitPublish(t)
        PROVE  \E o \in Offers :
                 /\ \A v \in Offers : v # o => offer'[v] = offer[v]
                 /\ offer'[o].status = "active" /\ offer'[o].product \in Products
                 /\ offer[o].status = "none" /\ Exists(offer'[o].product)
                 /\ UpdateFree(offer'[o].product)
                 /\ product' = product /\ rsv' = rsv /\ crossed' = crossed
                 /\ \A u \in Txs : tx'[u] = tx[u] \/ tx'[u] = NoTx
    <3> DEFINE row == [status |-> "active", producer |-> tx[t].who, product |-> tx[t].product]
    <3>1. /\ tx[t].product \in Products /\ Exists(tx[t].product) /\ UpdateFree(tx[t].product)
      BY <2>1 DEF CommitPublish, At, CascadeInv, IInv, PublishHasRead, RequestHasRead
    <3>2. PICK o \in Offers : offer[o].status = "none" /\ offer' = [offer EXCEPT ![o] = row]
      BY <2>1 DEF CommitPublish
    <3>3. offer'[o] = row /\ \A v \in Offers : v # o => offer'[v] = offer[v]
      BY <2>0, <3>2
    <3>4. row.status = "active" /\ row.producer = tx[t].who /\ row.product = tx[t].product
      OBVIOUS
    <3> HIDE DEF row
    <3>5. product' = product /\ rsv' = rsv /\ crossed' = crossed
          /\ \A u \in Txs : tx'[u] = tx[u] \/ tx'[u] = NoTx
      BY <2>1 DEF CommitPublish, End, Set, CascadeInv, IInv
    <3> QED
      BY <3>1, <3>2, <3>3, <3>4, <3>5
  <2>2. ASSUME NEW o \in Offers, Relist(o) \/ Unlist(o)
        PROVE  /\ \A v \in Offers : v # o => offer'[v] = offer[v]
               /\ offer'[o].status \in {"active", "closed"} /\ offer'[o].product \in Products
               /\ offer[o].status # "none" /\ offer'[o].product = offer[o].product
               /\ offer'[o].producer = offer[o].producer
               /\ product' = product /\ rsv' = rsv /\ crossed' = crossed
               /\ \A u \in Txs : tx'[u] = tx[u] \/ tx'[u] = NoTx
    BY <2>0, <2>2 DEF Relist, Unlist, Active, OfferRow
  <2> QED
    BY <2>1, <2>2
<1>2. offer[o].status = "none" => offer[o].product = None
      /\ \A r \in Rsvs : rsv[r].status # "none" => rsv[r].offer # o
  BY DEF CascadeInv, RowsRefer
<1>3. \A r \in Rsvs : rsv[r].status # "none" =>
         /\ rsv[r].offer \in Offers /\ offer'[rsv[r].offer].status # "none"
         /\ offer'[rsv[r].offer].product = offer[rsv[r].offer].product
  BY <1>1, <1>2 DEF CascadeInv, RowsRefer
<1>4. RowsRefer'
  <2>1. Exists(offer'[o].product)
    BY <1>1 DEF CascadeInv, RowsRefer
  <2> QED
    BY <1>1, <1>3, <2>1 DEF CascadeInv, RowsRefer, Exists
<1>5. \A r \in Rsvs : Open(r)' /\ r \notin crossed' => OldRow(r)
  BY <1>1, <1>3 DEF OldRow, Open
<1>6. AwaitsSettling'
  BY <1>1, <1>3 DEF CascadeInv, AwaitsSettling, Awaits, Open, ProductOf
<1>7. ASSUME NEW u \in Txs, InCatalogue(u), tx'[u] = tx[u] PROVE HasSelected(tx[u])'
  <2>1. \A r \in tx[u].rows : Open(r)'
    BY <1>1, <1>7 DEF CascadeInv, HasSelected, RowsStayOpen, Open
  <2>2. tx[u].op = "sync" \/ tx[u].product \in Products
    BY <1>7 DEF CascadeInv, IInv, AdminHasRead, InCatalogue, Free
  <2>3. tx[u].op = "sync" \/ OffersOf(tx[u].product)' = OffersOf(tx[u].product)
    <3> SUFFICES ASSUME tx[u].product \in Products
                 PROVE  OffersOf(tx[u].product)' = OffersOf(tx[u].product)
      BY <2>2
    <3>1. offer'[o].product = tx[u].product <=> offer[o].product = tx[u].product
      BY <1>1, <1>2, <1>7, CatalogAssumption DEF UpdateFree
    <3> QED
      BY <1>1, <1>7, <3>1 DEF OffersOf
  <2> QED
    BY <1>1, <1>5, <1>7, <2>1, <2>3, SettlerStays
<1>8. \A u \in Txs : At(u, "publish", "commit") =>
                       product'[tx[u].product].status \notin {"none", "deleted"}
  BY <1>1 DEF CascadeInv, RequestHasRead, At, Exists
<1>9. ASSUME NEW u \in Txs, At(u, "create", "insert"), NEW v \in tx[u].offers
       PROVE  /\ offer'[v].status # "none"
              /\ product[offer[v].product].priced => product'[offer'[v].product].priced
  <2>1. v \in Offers /\ offer[v].status # "none"
    BY <1>9 DEF CascadeInv, IInv, TxState, RequestHasRead, At
  <2> QED
    BY <1>1, <2>1
<1> QED
  BY <1>1, <1>4, <1>6, <1>7, <1>8, <1>9, WriteSelects

(* A decision waits for the row; it closes nothing somebody has locked.    *)
LEMMA CloseSelects ==
    ASSUME CascadeInv, IInv', (\E r \in Rsvs : Close(r)) \/ UNCHANGED vars
    PROVE  CascadeInv'
<1>1. /\ product' = product /\ offer' = offer /\ crossed' = crossed /\ tx' = tx
      /\ rsv' \in [Rsvs -> RsvRow]
      /\ \A r \in Rsvs : /\ rsv'[r].offer = rsv[r].offer /\ rsv'[r].priced = rsv[r].priced
                         /\ rsv'[r].status = "none" <=> rsv[r].status = "none"
                         /\ rsv'[r].status = "open" => rsv[r].status = "open"
      /\ \A r \in Rsvs : rsv'[r].status = rsv[r].status \/ RsvFree(r)
  <2>1. rsv \in [Rsvs -> RsvRow]
    BY DEF CascadeInv, RowsRefer
  <2>2. CASE \E r \in Rsvs : Close(r)
    BY <2>1, <2>2 DEF Close, Open, RsvRow
  <2>3. CASE UNCHANGED vars
    BY <2>1, <2>3 DEF vars
  <2> QED
    BY <2>2, <2>3
<1>2. RowsRefer'
  BY <1>1 DEF CascadeInv, RowsRefer, Exists
<1>3. AwaitsSettling'
  BY <1>1 DEF CascadeInv, AwaitsSettling, Awaits, Open, ProductOf
<1>4. \A r \in Rsvs : Open(r)' /\ r \notin crossed' => OldRow(r)
  BY <1>1 DEF OldRow, Open
<1>5. ASSUME NEW u \in Txs, InCatalogue(u) PROVE HasSelected(tx[u])'
  <2>1. \A r \in tx[u].rows : r \in Rsvs /\ Open(r)
    BY DEF CascadeInv, IInv, TxState, HasSelected, RowsStayOpen
  <2>2. \A r \in tx[u].rows : Open(r)'
    BY <1>1, <2>1 DEF Open, RsvFree
  <2>3. OffersOf(tx[u].product)' = OffersOf(tx[u].product)
    BY <1>1 DEF OffersOf
  <2> QED
    BY <1>1, <1>4, <1>5, <2>2, <2>3, SettlerStays
<1>6. \A u \in Txs : At(u, "publish", "commit") =>
                       product'[tx[u].product].status \notin {"none", "deleted"}
  BY <1>1 DEF CascadeInv, RequestHasRead, At, Exists
<1>7. \A u \in Txs : At(u, "create", "insert") =>
         \A v \in tx[u].offers :
            /\ offer'[v].status # "none"
            /\ product[offer[v].product].priced => product'[offer'[v].product].priced
  BY <1>1 DEF CascadeInv, RequestHasRead, At
<1> QED
  BY <1>1, <1>2, <1>3, <1>5, <1>6, <1>7, WriteSelects

-----------------------------------------------------------------------------
LEMMA InitCascade == Init => CascadeInv
<1> SUFFICES ASSUME Init PROVE CascadeInv
  OBVIOUS
<1>1. \A o \in Offers : offer[o].status = "none" /\ offer[o].product = None
  BY DEF Init, NoOffer
<1>2. rsv \in [Rsvs -> RsvRow] /\ \A r \in Rsvs : rsv[r].status = "none"
  <2>1. NoRsv \in RsvRow /\ NoRsv.status = "none"
    BY DEF NoRsv, RsvRow
  <2> QED
    BY <2>1 DEF Init
<1>3. \A t \in Txs : tx[t].step = "idle" /\ tx[t].scan = {} /\ tx[t].rows = {}
  BY DEF Init, NoTx
<1>4. RowsRefer
  BY <1>1, <1>2 DEF RowsRefer, Init, NoProduct
<1>5. OffersDisjoint
  BY <1>3 DEF OffersDisjoint, OffersHeld, At
<1>6. AwaitsSettling
  BY <1>2 DEF AwaitsSettling, Awaits, Open
<1>7. \A t \in Txs : RequestHasRead(tx[t]) /\ HasSelected(tx[t])
  BY <1>3 DEF RequestHasRead, HasSelected, RowsStayOpen, SyncSelected, MergeSelected,
              RejectSelected
<1> QED
  BY <1>4, <1>5, <1>6, <1>7, InitHasRead DEF CascadeInv

LEMMA NextCascade == CascadeInv /\ [Next]_vars => CascadeInv'
<1> SUFFICES ASSUME CascadeInv, [Next]_vars PROVE CascadeInv'
  OBVIOUS
<1>0. IInv'
  BY NextKeeps DEF CascadeInv
<1>1. ASSUME NEW t \in Txs, Settle(t) PROVE CascadeInv'
  BY <1>0, <1>1, BeginsSelect, ScanSelects, LockRowSelects, AdminStepsSelect,
     CommitSyncSelects, CommitMergeSelects, CommitRejectSelects
  DEF Settle
<1>2. ASSUME NEW t \in Txs, Request(t) \/ Rollback(t) PROVE CascadeInv'
  BY <1>0, <1>2, RequestsSelect, CommitCreateSelects, OffersSelect DEF Request
<1>3. CASE \/ \E m \in Members, n \in Names, p \in Products : Propose(m, n, p)
           \/ \E p \in Products, n \in Names : Rename(p, n)
  BY <1>0, <1>3, NamingSelects
<1>4. CASE \E o \in Offers : Relist(o) \/ Unlist(o)
  BY <1>0, <1>4, OffersSelect
<1>5. CASE (\E r \in Rsvs : Close(r)) \/ UNCHANGED vars
  BY <1>0, <1>5, CloseSelects
<1> QED
  BY <1>1, <1>2, <1>3, <1>4, <1>5 DEF Next

(* What syncs, merges, rejections, publishes and creates have read,        *)
(* selected and locked when they commit.                                   *)
THEOREM CascadeInvariance == Spec => []CascadeInv
BY InitCascade, NextCascade, PTL DEF Spec

(* PRD US-2.2: the price a sync or a merge brings reaches every open       *)
(* reservation of the product, but for those inserted without one after    *)
(* the settling had selected.                                              *)
THEOREM PricesReachOpen == Spec => []PriceReachesOpen
<1>1. CascadeInv => PriceReachesOpen
  <2> SUFFICES ASSUME CascadeInv, NEW r \in Rsvs, Open(r), product[ProductOf(r)].priced,
                      ~rsv[r].priced, r \notin crossed
               PROVE  FALSE
    BY DEF PriceReachesOpen
  <2>1. product[ProductOf(r)].status = "pending"
    BY DEF CascadeInv, AwaitsSettling, Awaits
  <2>2. ProductOf(r) \in Products
    BY DEF CascadeInv, IInv, RowsRefer, OffersRefer, Open, ProductOf
  <2> QED
    BY <2>1, <2>2 DEF CascadeInv, RowsRefer
<1> QED
  BY <1>1, CascadeInvariance, PTL

(* A price snapshot changes when a settling fills it, on a row that is     *)
(* open because the settling holds it.                                     *)
LEMMA SnapshotStep ==
    ASSUME CascadeInv, Next, NEW r \in Rsvs, rsv[r].status # "none",
           rsv'[r].priced # rsv[r].priced
    PROVE  Open(r) /\ rsv'[r].priced
<1>0. rsv[r] \in RsvRow
  BY DEF CascadeInv, RowsRefer
<1>1. \/ \E t \in Txs : rsv' = Priced(tx[t].rows) \/ CommitReject(t) \/ CommitCreate(t)
      \/ \E v \in Rsvs : Close(v)
      \/ rsv' = rsv
  <2>1. ASSUME NEW t \in Txs, Settle(t) \/ Request(t) \/ Rollback(t)
        PROVE  \/ rsv' = Priced(tx[t].rows) \/ CommitReject(t) \/ CommitCreate(t)
               \/ rsv' = rsv
    BY <2>1 DEF Settle, Request, Rollback, BeginSync, Scan, LockRow, CommitSync, BeginMerge,
                MoveOffers, CommitMerge, BeginReject, ScanOpen, ReadActive, LockOffers,
                BeginCreate, ReadProduct, InsertOffer, CommitPublish, data
  <2>2. ASSUME ~\E t \in Txs : Settle(t) \/ Request(t) \/ Rollback(t)
        PROVE  (\E v \in Rsvs : Close(v)) \/ rsv' = rsv
    BY <2>2 DEF Next, Propose, Proposes, Rename, Relist, Unlist
  <2> QED
    BY <2>1, <2>2
<1>2. ASSUME NEW t \in Txs, rsv' = Priced(tx[t].rows) PROVE Open(r) /\ rsv'[r].priced
  <2>1. \A v \in tx[t].rows : Open(v)
    BY DEF CascadeInv, HasSelected, RowsStayOpen
  <2>2. r \in tx[t].rows
    BY <1>2 DEF Priced
  <2>3. rsv'[r] = [rsv[r] EXCEPT !.priced = TRUE]
    BY <1>2, <2>2 DEF Priced
  <2> QED
    BY <1>0, <2>1, <2>2, <2>3 DEF RsvRow
<1>3. \A t \in Txs : ~CommitReject(t)
  BY <1>0 DEF CommitReject, RsvRow
<1>4. \A t \in Txs : ~CommitCreate(t)
  BY DEF CommitCreate, CascadeInv, RowsRefer
<1>5. ~\E v \in Rsvs : Close(v)
  BY <1>0 DEF Close, CascadeInv, RowsRefer, RsvRow
<1> QED
  BY <1>1, <1>2, <1>3, <1>4, <1>5

(* PRD principle 5: a price snapshot is filled once, while the reservation *)
(* is open, and never changes again.                                       *)
THEOREM SnapshotsStay == Spec => SnapshotsAreFacts
<1>1. CascadeInv /\ [Next]_vars =>
         [\A r \in Rsvs : rsv[r].status # "none" /\ rsv'[r].priced # rsv[r].priced
                             => Open(r) /\ rsv'[r].priced]_vars
  <2> SUFFICES ASSUME CascadeInv, Next, NEW r \in Rsvs, rsv[r].status # "none",
                      rsv'[r].priced # rsv[r].priced
               PROVE  Open(r) /\ rsv'[r].priced
    OBVIOUS
  <2> QED
    BY SnapshotStep
<1> QED
  BY <1>1, CascadeInvariance, PTL DEF Spec, SnapshotsAreFacts

(* Who settles is who commits, and only that transaction moves.            *)
LEMMA SettlesCommits ==
    ASSUME CascadeInv, Next, NEW t \in Txs, Settles(t, "merge") \/ Settles(t, "reject")
    PROVE  /\ Settles(t, "merge") => CommitMerge(t)
           /\ Settles(t, "reject") => CommitReject(t)
<1>1. product' # product /\ tx'[t] # tx[t] /\ tx[t].op \in {"merge", "reject"}
  BY DEF Settles, Free, NoTx
<1>2. PICK u \in Txs : CommitSync(u) \/ CommitMerge(u) \/ CommitReject(u)
  <2>1. PICK u \in Txs : Settle(u) \/ Request(u) \/ Rollback(u)
    BY <1>1 DEF Next, Propose, Proposes, Rename, Relist, Unlist, Close
  <2> QED
    BY <1>1, <2>1 DEF Settle, Request, Rollback, BeginSync, Scan, LockRow, BeginMerge,
                MoveOffers, BeginReject, ScanOpen, ReadActive, LockOffers, BeginCreate,
                CommitCreate, ReadProduct, InsertOffer, CommitPublish, data
<1>3. u = t
  <2>1. End(u)
    BY <1>2 DEF CommitSync, CommitMerge, CommitReject
  <2> QED
    BY <1>1, <2>1 DEF End, Set, CascadeInv, IInv
<1> QED
  BY <1>2, <1>3 DEF Settles, CommitSync, CommitMerge, CommitReject, At

LEMMA LeftBehindStep ==
    ASSUME CascadeInv, Next, NEW t \in Txs
    PROVE  /\ Settles(t, "merge") => \A o \in Offers : offer'[o].product # tx[t].product
           /\ Settles(t, "reject") =>
                \A r \in Rsvs \ crossed :
                    rsv'[r].status = "open" => ProductOf(r) # tx[t].product
<1>1. ASSUME Settles(t, "merge"), NEW o \in Offers
      PROVE  offer'[o].product # tx[t].product
  <2>1. CommitMerge(t)
    BY <1>1, SettlesCommits
  <2>2. tx[t].op = "merge" /\ tx[t].step = "scan"
    BY <2>1 DEF CommitMerge, At
  <2>3. /\ tx[t].offers = OffersOf(tx[t].product)
        /\ product[tx[t].product].status = "pending" /\ product[tx[t].target].status = "active"
    BY <2>2 DEF CascadeInv, IInv, AdminHasRead, HasSelected, MergeSelected
  <2>4. offer'[o] = IF o \in tx[t].offers THEN [offer[o] EXCEPT !.product = tx[t].target]
                    ELSE offer[o]
    BY <2>1 DEF CommitMerge
  <2>5. offer[o] \in OfferRow
    BY DEF CascadeInv, IInv, OffersRefer
  <2>6. CASE o \in tx[t].offers
    <3>1. offer'[o].product = tx[t].target
      BY <2>4, <2>5, <2>6 DEF OfferRow
    <3> QED
      BY <2>3, <3>1
  <2>7. CASE o \notin tx[t].offers
    BY <2>3, <2>4, <2>7 DEF OffersOf
  <2> QED
    BY <2>6, <2>7
<1>2. ASSUME Settles(t, "reject"), NEW r \in Rsvs \ crossed, rsv'[r].status = "open"
      PROVE  ProductOf(r) # tx[t].product
  <2>1. CommitReject(t)
    BY <1>2, SettlesCommits
  <2>2. tx[t].op = "reject" /\ tx[t].step = "commit"
    BY <2>1 DEF CommitReject, At
  <2>3. rsv'[r] = IF r \in tx[t].rows THEN [rsv[r] EXCEPT !.status = "closed"] ELSE rsv[r]
    BY <2>1 DEF CommitReject
  <2>4. r \notin tx[t].rows /\ Open(r)
    BY <1>2, <2>3 DEF CascadeInv, RowsRefer, RsvRow, Open
  <2> QED
    BY <2>2, <2>4 DEF CascadeInv, HasSelected, RejectSelected
<1> QED
  BY <1>1, <1>2

(* What settling a proposal leaves behind, however its offers and their    *)
(* reservations are published, edited, made and decided meanwhile: a merge *)
(* leaves no offer on it, a rejection no open reservation that was in time.*)
THEOREM NothingStaysBehind == Spec => NothingLeftBehind
<1>1. CascadeInv /\ [Next]_vars =>
         [\A t \in Txs :
            /\ Settles(t, "merge") => \A o \in Offers : offer'[o].product # tx[t].product
            /\ Settles(t, "reject") =>
                  \A r \in Rsvs \ crossed :
                      rsv'[r].status = "open" => ProductOf(r) # tx[t].product]_vars
  <2> SUFFICES ASSUME CascadeInv, Next, NEW t \in Txs
               PROVE  /\ Settles(t, "merge") => \A o \in Offers : offer'[o].product # tx[t].product
                      /\ Settles(t, "reject") =>
                            \A r \in Rsvs \ crossed :
                                rsv'[r].status = "open" => ProductOf(r) # tx[t].product
    OBVIOUS
  <2> QED
    BY LeftBehindStep
<1> QED
  BY <1>1, CascadeInvariance, PTL DEF Spec, NothingLeftBehind

=============================================================================
