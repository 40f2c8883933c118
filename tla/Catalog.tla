------------------------------- MODULE Catalog -------------------------------
(***************************************************************************)
(* The catalogue: products that come from the sheet, products that members *)
(* propose, and how a proposal is settled: a sheet row resolves it, an     *)
(* admin renames it into a sheet product (merge) or rejects it.  Settling  *)
(* reaches into offers and reservations, whose own transactions do not     *)
(* take the catalogue's advisory lock.                                     *)
(*                                                                         *)
(* Every transaction runs at READ COMMITTED: each statement that selects   *)
(* or locks is a step, what it writes is visible when it commits.  A       *)
(* request that changes one row under its lock, and reads nothing before   *)
(* it that another may change, is one step.  A violated unique index ends  *)
(* a transaction at its commit instead of at the statement: others cannot  *)
(* tell.  Quantities, dates and the rows of members are left out.          *)
(***************************************************************************)
EXTENDS Sequences, FiniteSetsExt

CONSTANTS Members, Products, Offers, Rsvs,
          Names,    \* normalized names: what a sheet row can match
          Rejected, \* a slug no sheet row can match (ADR-0018)
          Txs, None

ASSUME CatalogAssumption ==
    /\ Rejected \notin Names
    /\ None \notin Members \cup Products \cup Names \cup Offers

VARIABLES product, \* product -> its row
          offer,   \* offer -> its row
          rsv,     \* reservation -> its row
          tx,      \* transaction -> where it is, what it has read and locked
          told,    \* history: product -> the N5 decisions on it
          crossed  \* history: reservations inserted without a price after the
                   \* settling of their product had selected reservations

data == <<product, offer, rsv, told, crossed>>
vars == <<product, offer, rsv, tx, told, crossed>>

-----------------------------------------------------------------------------
(* Rows.                                                                   *)
NoProduct == [status |-> "none", slug |-> None, source |-> "sheet", by |-> None, priced |-> FALSE]
NoOffer == [status |-> "none", producer |-> None, product |-> None]
NoRsv == [status |-> "none", offer |-> None, priced |-> FALSE]

ProductRow == [status : {"none", "pending", "active", "archived", "deleted"},
               slug : Names \cup {Rejected, None}, source : {"sheet", "member"},
               by : Members \cup {None}, priced : BOOLEAN]
\* A withdrawn offer and an expired one are both closed here.
OfferRow == [status : {"none", "active", "closed"}, producer : Members \cup {None},
             product : Products \cup {None}]
\* Pending and confirmed reservations are open, the others closed.
RsvRow == [status : {"none", "open", "closed"}, offer : Offers \cup {None}, priced : BOOLEAN]

NoTx == [op |-> "create", step |-> "idle", who |-> None, product |-> None, target |-> None,
         valid |-> {}, bySlug |-> [n \in Names |-> None], missing |-> {},
         todo |-> {}, seen |-> {}, offers |-> {}, scan |-> {}, rows |-> {}, priced |-> FALSE]

TxState ==
    [op : {"sync", "merge", "reject", "create", "publish"},
     step : {"idle", "scan", "rows", "move", "withdraw", "insert", "commit"},
     who : Members \cup {None}, product : Products \cup {None}, target : Products \cup {None},
     valid : SUBSET Names, bySlug : [Names -> Products \cup {None}], missing : SUBSET Products,
     todo : SUBSET Products, seen : SUBSET Products, offers : SUBSET Offers,
     scan : SUBSET Rsvs, rows : SUBSET Rsvs, priced : BOOLEAN]

Free(t) == tx[t].step = "idle"
At(t, op, step) == tx[t].op = op /\ tx[t].step = step
Set(t, s) == tx' = [tx EXCEPT ![t] = s]
End(t) == Set(t, NoTx)

Exists(p) == product[p].status \notin {"none", "deleted"}
Unused(p) == product[p].status = "none"
Named(n) == {p \in Products : Exists(p) /\ product[p].slug = n}
OffersOf(p) == {o \in Offers : offer[o].product = p}
Active(o) == offer[o].status = "active"
Open(r) == rsv[r].status = "open"
ProductOf(r) == offer[rsv[r].offer].product

\* offers_one_active_per_producer_product, were the offers of S on p too.
TwoActive(S, p) ==
    \E o, v \in {u \in S \cup OffersOf(p) : Active(u)} :
        o # v /\ offer[o].producer = offer[v].producer

NoneActive(m, p, except) ==
    \A o \in OffersOf(p) \ {except} : ~(Active(o) /\ offer[o].producer = m)

-----------------------------------------------------------------------------
(* Locks.                                                                  *)

\* The advisory lock that sync, rename and reject hold to their end.
InCatalogue(t) == ~Free(t) /\ tx[t].op \in {"sync", "merge", "reject"}
CatalogueFree == \A t \in Txs : ~InCatalogue(t)

\* Offers a transaction has locked.
OffersHeld(t) ==
    IF \/ At(t, "create", "insert")
       \/ tx[t].op = "merge" /\ tx[t].step \in {"scan", "rows"}
       \/ At(t, "reject", "commit")
    THEN tx[t].offers ELSE {}

OfferFree(o) == \A t \in Txs : o \notin OffersHeld(t)
RsvFree(r) == \A t \in Txs : r \notin tx[t].rows

\* The proposal an admin settles is locked FOR UPDATE; an offer's foreign
\* key locks its product FOR KEY SHARE.
KeyFree(p) == \A t \in Txs : ~(At(t, "publish", "commit") /\ tx[t].product = p)
UpdateFree(p) == \A t \in Txs : ~(InCatalogue(t) /\ tx[t].product = p)

Init ==
    /\ product = [p \in Products |-> NoProduct]
    /\ offer = [o \in Offers |-> NoOffer]
    /\ rsv = [r \in Rsvs |-> NoRsv]
    /\ tx = [t \in Txs |-> NoTx]
    /\ told = [p \in Products |-> << >>]
    /\ crossed = {}

\* A statement failed, a guard of the request refused, the connection went.
Rollback(t) == ~Free(t) /\ End(t) /\ UNCHANGED data

\* History: another N5 on p, counted as far as it matters.
Tell(p, decision) ==
    told' = [told EXCEPT ![p] = IF Len(@) < 2 THEN Append(@, decision) ELSE @]
-----------------------------------------------------------------------------
(* Proposing and renaming under the lock.                                  *)

Proposes(m, n, p) ==
    /\ Named(n) = {} /\ Unused(p)
    /\ product' = [product EXCEPT ![p] = [status |-> "pending", slug |-> n, source |-> "member",
                                          by |-> m, priced |-> FALSE]]
    /\ UNCHANGED <<offer, rsv, tx, told, crossed>>

\* Fault: propose does not take the lock.
ProposeUnlocked(m, n, p) == Proposes(m, n, p)

Propose(m, n, p) == CatalogueFree /\ Proposes(m, n, p)

\* rename to a name nobody has: it stays pending.
Rename(p, n) ==
    /\ CatalogueFree /\ KeyFree(p)
    /\ product[p].status = "pending" /\ Named(n) = {}
    /\ product' = [product EXCEPT ![p].slug = n]
    /\ UNCHANGED <<offer, rsv, tx, told, crossed>>

-----------------------------------------------------------------------------
(* sync.                                                                   *)

\* parseCatalog: names on any row (present), names on one row without an
\* error (valid).
Sheets == {s \in [present : SUBSET Names, valid : SUBSET Names] : s.valid \subseteq s.present}

\* An unreachable sheet, or one without valid rows, changes nothing.
BeginSync(t) ==
    /\ Free(t) /\ CatalogueFree
    /\ \E sheet \in Sheets :
          LET valid == sheet.valid IN
          /\ valid # {}
          /\ Set(t, [NoTx EXCEPT
              !.op = "sync", !.step = "scan", !.valid = valid,
              !.bySlug = [n \in Names |-> IF Named(n) = {} THEN None
                                          ELSE CHOOSE p \in Named(n) : TRUE],
              !.missing = {p \in Products : /\ product[p].status = "active"
                                            /\ product[p].source = "sheet"
                                            /\ product[p].slug \notin sheet.present},
              !.todo = {p \in Products : product[p].status = "pending"
                                             /\ product[p].slug \in valid}])
    /\ UNCHANGED data

\* Fault: the reservations of withdrawn offers are forgotten.
ScanActiveOffers(t) ==
    LET s == tx[t] IN
    /\ s.op \in {"sync", "merge"} /\ s.step = "scan" /\ s.scan = {}
    /\ \E p \in s.todo :
          Set(t, [s EXCEPT !.todo = @ \ {p}, !.seen = @ \cup {p},
                           !.scan = {r \in Rsvs : /\ Open(r) /\ ~rsv[r].priced
                                                  /\ Active(rsv[r].offer)
                                                  /\ \/ ProductOf(r) = p
                                                     \/ rsv[r].offer \in s.offers}])
    /\ UNCHANGED data

\* resolveReservationPrices: the reservations its UPDATE selects ...
Scan(t) ==
    LET s == tx[t] IN
    /\ s.op \in {"sync", "merge"} /\ s.step = "scan" /\ s.scan = {}
    /\ \E p \in s.todo :
          Set(t, [s EXCEPT !.todo = @ \ {p}, !.seen = @ \cup {p},
                           !.scan = {r \in Rsvs : /\ Open(r) /\ ~rsv[r].priced
                                                  /\ \/ ProductOf(r) = p
                                                     \/ rsv[r].offer \in s.offers}])
    /\ UNCHANGED data

\* Fault: a selected row is taken as it was selected.
LockRowAsSelected(t) ==
    LET s == tx[t] IN
    /\ s.scan # {}
    /\ \E r \in s.scan :
          Set(t, [s EXCEPT !.scan = @ \ {r}, !.rows = @ \cup {r}])
    /\ UNCHANGED data

\* ... each taken if it is still open when its lock is granted.
LockRow(t) ==
    LET s == tx[t] IN
    /\ s.scan # {}
    /\ \E r \in s.scan :
          /\ RsvFree(r)
          /\ Set(t, [s EXCEPT !.scan = @ \ {r}, !.rows = IF Open(r) THEN @ \cup {r} ELSE @])
    /\ UNCHANGED data

Priced(rows) == [r \in Rsvs |-> IF r \in rows THEN [rsv[r] EXCEPT !.priced = TRUE] ELSE rsv[r]]

\* applyDiff: rows of the sheet are active, new or not; what is missing is
\* archived; resolved proposals get their N5.
CommitSync(t) ==
    LET s == tx[t]
        new == {n \in s.valid : s.bySlug[n] = None}
        listed == {s.bySlug[n] : n \in s.valid \ new} IN
    /\ At(t, "sync", "scan") /\ s.todo = {} /\ s.scan = {}
    /\ \E id \in [new -> {p \in Products : Unused(p)}] :
          /\ \A n, v \in new : id[n] = id[v] => n = v
          /\ product' =
                [p \in Products |->
                    IF p \in listed
                    THEN [product[p] EXCEPT !.status = "active", !.source = "sheet", !.priced = TRUE]
                    ELSE IF p \in s.missing THEN [product[p] EXCEPT !.status = "archived"]
                    ELSE IF \E n \in new : id[n] = p
                    THEN [NoProduct EXCEPT !.status = "active", !.priced = TRUE,
                                           !.slug = CHOOSE n \in new : id[n] = p]
                    ELSE product[p]]
    /\ rsv' = Priced(s.rows)
    /\ told' = [p \in Products |-> IF p \in s.seen /\ Len(told[p]) < 2
                                   THEN Append(told[p], "resolved") ELSE told[p]]
    /\ End(t)
    /\ UNCHANGED <<offer, crossed>>

-----------------------------------------------------------------------------
(* rename into a sheet product: merge.                                     *)

\* Fault: the proposal is read without FOR UPDATE.
BeginMergeUnlocked(t, p, q) ==
    /\ Free(t) /\ CatalogueFree
    /\ product[p].status = "pending"
    /\ product[q].status = "active" /\ product[q].source = "sheet"
    /\ ~TwoActive(OffersOf(p), q)
    /\ Set(t, [NoTx EXCEPT !.op = "merge", !.step = "move", !.product = p, !.target = q,
                           !.todo = {q}])
    /\ UNCHANGED data

\* The pending row FOR UPDATE, the target by its slug, no producer who would
\* end up with two active offers.
BeginMerge(t, p, q) ==
    /\ Free(t) /\ CatalogueFree /\ KeyFree(p)
    /\ product[p].status = "pending"
    /\ product[q].status = "active" /\ product[q].source = "sheet"
    /\ ~TwoActive(OffersOf(p), q)
    /\ Set(t, [NoTx EXCEPT !.op = "merge", !.step = "move", !.product = p, !.target = q,
                           !.todo = {q}])
    /\ UNCHANGED data

\* UPDATE offers SET product_id: the rows of the proposal, once it has them.
MoveOffers(t) ==
    LET moving == OffersOf(tx[t].product) IN
    /\ At(t, "merge", "move")
    /\ \A o \in moving : OfferFree(o)
    /\ Set(t, [tx[t] EXCEPT !.step = "scan", !.offers = moving])
    /\ UNCHANGED data

\* The offers and their reservations follow; the proposal is archived.
CommitMerge(t) ==
    LET s == tx[t] IN
    /\ At(t, "merge", "scan") /\ s.todo = {} /\ s.scan = {}
    /\ ~TwoActive(s.offers, s.target)
    /\ offer' = [o \in Offers |-> IF o \in s.offers THEN [offer[o] EXCEPT !.product = s.target]
                                  ELSE offer[o]]
    /\ product' = [product EXCEPT ![s.product].status = "archived"]
    /\ rsv' = Priced(s.rows)
    /\ Tell(s.product, "resolved")
    /\ End(t)
    /\ UNCHANGED crossed

-----------------------------------------------------------------------------
(* reject.                                                                 *)

\* The pending row FOR UPDATE, then the offers of the product.
BeginReject(t, p) ==
    /\ Free(t) /\ CatalogueFree /\ KeyFree(p)
    /\ product[p].status = "pending"
    /\ Set(t, [NoTx EXCEPT !.op = "reject", !.step = "scan", !.product = p,
                           !.offers = OffersOf(p)])
    /\ UNCHANGED data

\* cancelReservationsOfProduct: their open reservations FOR UPDATE (LockRow).
ScanOpen(t) ==
    LET s == tx[t] IN
    /\ At(t, "reject", "scan")
    /\ Set(t, [s EXCEPT !.step = "rows", !.seen = {s.product},
                        !.scan = {r \in Rsvs : Open(r) /\ rsv[r].offer \in s.offers}])
    /\ UNCHANGED data

\* The offers again, those that are active now ...
ReadActive(t) ==
    LET s == tx[t] IN
    /\ At(t, "reject", "rows") /\ s.scan = {}
    /\ Set(t, [s EXCEPT !.step = "withdraw", !.offers = {o \in OffersOf(s.product) : Active(o)}])
    /\ UNCHANGED data

\* ... which the UPDATE withdraws as soon as nobody holds them.
LockOffers(t) ==
    /\ At(t, "reject", "withdraw")
    /\ \A o \in tx[t].offers : OfferFree(o)
    /\ Set(t, [tx[t] EXCEPT !.step = "commit"])
    /\ UNCHANGED data

\* Fault: the archived row keeps its slug.
RejectedRowKeepsSlug(p) == [product[p] EXCEPT !.status = "archived"]

\* A tombstone while offers refer to it, nothing otherwise (ADR-0018).
RejectedRow(p) ==
    IF OffersOf(p) = {} THEN [product[p] EXCEPT !.status = "deleted"]
    ELSE [product[p] EXCEPT !.status = "archived", !.slug = Rejected]

CommitReject(t) ==
    LET s == tx[t] IN
    /\ At(t, "reject", "commit")
    /\ rsv' = [r \in Rsvs |-> IF r \in s.rows THEN [rsv[r] EXCEPT !.status = "closed"] ELSE rsv[r]]
    /\ offer' = [o \in Offers |-> IF o \in s.offers THEN [offer[o] EXCEPT !.status = "closed"]
                                  ELSE offer[o]]
    /\ product' = [product EXCEPT ![s.product] = RejectedRow(s.product)]
    /\ Tell(s.product, "rejected")
    /\ End(t)
    /\ UNCHANGED crossed

-----------------------------------------------------------------------------
(* What does not take the lock.                                            *)

\* create: the offer FOR UPDATE, the price its product has then ...
BeginCreate(t, o) ==
    /\ Free(t) /\ OfferFree(o) /\ Active(o)
    /\ Set(t, [NoTx EXCEPT !.op = "create", !.step = "insert", !.offers = {o},
                           !.priced = product[offer[o].product].priced])
    /\ UNCHANGED data

\* The settling of p is over, or has selected its reservations.
Settling(p) ==
    product[p].status # "pending" \/ \E t \in Txs : InCatalogue(t) /\ p \in tx[t].seen

\* ... and the reservation with that snapshot.
CommitCreate(t) ==
    LET s == tx[t] IN
    /\ At(t, "create", "insert")
    /\ \E o \in s.offers, r \in Rsvs :
          /\ rsv[r].status = "none"
          /\ rsv' = [rsv EXCEPT ![r] = [status |-> "open", offer |-> o, priced |-> s.priced]]
          /\ crossed' = IF ~s.priced /\ Settling(offer[o].product) THEN crossed \cup {r} ELSE crossed
    /\ End(t)
    /\ UNCHANGED <<product, offer, told>>

\* publish: an active product, or one's own proposal, read without a lock.
ReadProduct(t, m, p) ==
    /\ Free(t)
    /\ \/ product[p].status = "active"
       \/ product[p].status = "pending" /\ product[p].by = m
    /\ NoneActive(m, p, None)
    /\ Set(t, [NoTx EXCEPT !.op = "publish", !.step = "insert", !.who = m, !.product = p])
    /\ UNCHANGED data

\* The insert refers to the product: it waits for who settles it, and fails
\* if the product is gone.
InsertOffer(t) ==
    LET p == tx[t].product IN
    /\ At(t, "publish", "insert")
    /\ UpdateFree(p) /\ Exists(p)
    /\ Set(t, [tx[t] EXCEPT !.step = "commit"])
    /\ UNCHANGED data

CommitPublish(t) ==
    LET s == tx[t] IN
    /\ At(t, "publish", "commit")
    /\ NoneActive(s.who, s.product, None)
    /\ \E o \in Offers :
          /\ offer[o].status = "none"
          /\ offer' = [offer EXCEPT ![o] = [status |-> "active", producer |-> s.who,
                                            product |-> s.product]]
    /\ End(t)
    /\ UNCHANGED <<product, rsv, told, crossed>>

\* edit that puts a withdrawn or expired offer back, whatever its product is.
Relist(o) ==
    /\ offer[o].status = "closed" /\ OfferFree(o)
    /\ NoneActive(offer[o].producer, offer[o].product, o)
    /\ offer' = [offer EXCEPT ![o].status = "active"]
    /\ UNCHANGED <<product, rsv, tx, told, crossed>>

\* withdraw, or the nightly expiry.
Unlist(o) ==
    /\ Active(o) /\ OfferFree(o)
    /\ offer' = [offer EXCEPT ![o].status = "closed"]
    /\ UNCHANGED <<product, rsv, tx, told, crossed>>

\* Any final decision on a reservation.
Close(r) ==
    /\ Open(r) /\ RsvFree(r)
    /\ rsv' = [rsv EXCEPT ![r].status = "closed"]
    /\ UNCHANGED <<product, offer, tx, told, crossed>>

-----------------------------------------------------------------------------
Settle(t) ==
    \/ BeginSync(t) \/ Scan(t) \/ LockRow(t) \/ CommitSync(t)
    \/ \E p, q \in Products : BeginMerge(t, p, q)
    \/ MoveOffers(t) \/ CommitMerge(t)
    \/ \E p \in Products : BeginReject(t, p)
    \/ ScanOpen(t) \/ ReadActive(t) \/ LockOffers(t) \/ CommitReject(t)

Request(t) ==
    \/ \E o \in Offers : BeginCreate(t, o)
    \/ CommitCreate(t)
    \/ \E m \in Members, p \in Products : ReadProduct(t, m, p)
    \/ InsertOffer(t) \/ CommitPublish(t)

Next ==
    \/ \E t \in Txs : Settle(t) \/ Request(t) \/ Rollback(t)
    \/ \E m \in Members, n \in Names, p \in Products : Propose(m, n, p)
    \/ \E p \in Products, n \in Names : Rename(p, n)
    \/ \E o \in Offers : Relist(o) \/ Unlist(o)
    \/ \E r \in Rsvs : Close(r)

Spec == Init /\ [][Next]_vars

-----------------------------------------------------------------------------
(* Properties.                                                             *)
TypeOK ==
    /\ product \in [Products -> ProductRow]
    /\ offer \in [Offers -> OfferRow]
    /\ rsv \in [Rsvs -> RsvRow]
    /\ tx \in [Txs -> TxState]
    /\ \A p \in Products : told[p] \in Seq({"resolved", "rejected"}) /\ Len(told[p]) <= 2
    /\ crossed \subseteq Rsvs
    /\ \A r \in Rsvs : rsv[r].status # "none" => offer[rsv[r].offer].status # "none"
    /\ \A o \in Offers : offer[o].status # "none" => Exists(offer[o].product)

(* A name is one product's: no sequence of syncs, proposals, renames and   *)
(* rejections ever meets the unique index on the slug, which the model     *)
(* leaves out.                                                             *)
OneProductPerName == \A n \in Names : Cardinality(Named(n)) <= 1

(* PRD US-2.2: when a product gets its price, so does every open           *)
(* reservation on it.  The exception is one that was inserted without a    *)
(* price after the settling had selected those without.                    *)
PriceReachesOpen ==
    \A r \in Rsvs : Open(r) /\ product[ProductOf(r)].priced => rsv[r].priced \/ r \in crossed

(* PRD principle 5: a snapshot is filled once, while the reservation is    *)
(* open, and never changes.                                                *)
SnapshotsAreFacts ==
    [][\A r \in Rsvs : rsv[r].status # "none" /\ rsv'[r].priced # rsv[r].priced
                          => Open(r) /\ rsv'[r].priced]_vars

(* Each proposal is settled once and its N5 says how, whoever settles it;  *)
(* what was rejected stays so (ADR-0018: the sync cannot revive it).       *)
SettledOnce ==
    \A p \in Products :
        /\ Len(told[p]) <= 1
        /\ product[p].by # None => (told[p] = << >> <=> product[p].status = "pending")
        /\ told[p] = <<"rejected">> => product[p].status \in {"archived", "deleted"}

\* Transaction t commits, and settles its proposal.
Settles(t, op) == tx[t].op = op /\ ~Free(t) /\ tx'[t] = NoTx /\ product' # product

(* What a settled proposal leaves behind: after a merge no offer refers to *)
(* it; after a rejection no open reservation is on it, except one whose    *)
(* insert crossed the rejection's select.                                  *)
NothingLeftBehind ==
    [][\A t \in Txs :
          /\ Settles(t, "merge") => \A o \in Offers : offer'[o].product # tx[t].product
          /\ Settles(t, "reject") =>
                \A r \in Rsvs \ crossed :
                    rsv'[r].status = "open" => ProductOf(r) # tx[t].product]_vars

-----------------------------------------------------------------------------
(* The inductive invariant of CatalogProofs.                               *)

\* One transaction at a time holds the advisory lock.
OneInCatalogue == \A t, u \in Txs : InCatalogue(t) /\ InCatalogue(u) => t = u

NamesAreUnique ==
    \A p, q \in Products :
        Exists(p) /\ Exists(q) /\ product[p].slug = product[q].slug
            /\ product[p].slug \in Names => p = q

\* Where product p stands with the N5 sent about it.
Tells(p) ==
    /\ product[p].status = "none" => told[p] = << >>
    /\ product[p].status = "pending" => product[p].by # None
    /\ product[p].by # None => (told[p] = << >> <=> product[p].status = "pending")
    /\ told[p] = <<"rejected">> =>
          \/ product[p].status = "deleted"
          \/ product[p].status = "archived" /\ product[p].slug = Rejected

\* What a sync has read still holds.
SyncHasRead(s) ==
    s.op = "sync" /\ s.step # "idle" =>
        /\ \A n \in Names : IF s.bySlug[n] = None THEN Named(n) = {} ELSE s.bySlug[n] \in Named(n)
        /\ \A p \in s.missing : product[p].status = "active"
        /\ \A p \in Products : p \in s.todo \cup s.seen <=>
                                  product[p].status = "pending" /\ product[p].slug \in s.valid

\* So does what a merge or a rejection has.
AdminHasRead(s) ==
    s.op \in {"merge", "reject"} /\ s.step # "idle" =>
        /\ s.product \in Products /\ product[s.product].status = "pending"
        /\ s.op = "merge" => s.target \in Products
        /\ s.op = "reject" => \A o \in s.offers : offer[o].product \in Products

PublishHasRead(s) ==
    s.op = "publish" /\ s.step # "idle" => s.who \in Members /\ s.product \in Products

OffersRefer ==
    /\ offer \in [Offers -> OfferRow]
    /\ \A o \in Offers : offer[o].status # "none" => offer[o].product \in Products

IInv ==
    /\ product \in [Products -> ProductRow]
    /\ tx \in [Txs -> TxState]
    /\ told \in [Products -> {<< >>, <<"resolved">>, <<"rejected">>}]
    /\ OffersRefer
    /\ OneInCatalogue
    /\ NamesAreUnique
    /\ \A p \in Products : Tells(p)
    /\ \A t \in Txs : SyncHasRead(tx[t]) /\ AdminHasRead(tx[t]) /\ PublishHasRead(tx[t])

-----------------------------------------------------------------------------
(* And what the cascade into offers and reservations rests on (CascadeInv).*)

\* What is written down refers to what is there.
RowsRefer ==
    /\ rsv \in [Rsvs -> RsvRow]
    /\ \A r \in Rsvs : rsv[r].status # "none" =>
          rsv[r].offer \in Offers /\ offer[rsv[r].offer].status # "none"
    /\ \A o \in Offers : IF offer[o].status = "none" THEN offer[o].product = None
                         ELSE Exists(offer[o].product)
    /\ \A p \in Products : product[p].status = "pending" => ~product[p].priced

OffersDisjoint == \A t, u \in Txs : t # u => OffersHeld(t) \cap OffersHeld(u) = {}

\* Open, without a price, and in time for whoever settles its product.
Awaits(r) == Open(r) /\ ~rsv[r].priced /\ r \notin crossed

AwaitsSettling == \A r \in Rsvs : Awaits(r) => product[ProductOf(r)].status = "pending"

\* Only who settles locks reservations, and those it has locked stay open.
RowsStayOpen(s) ==
    /\ s.step = "idle" \/ s.op \in {"create", "publish"} => s.scan = {} /\ s.rows = {}
    /\ \A r \in s.rows : Open(r)

\* An insert that refers to a product keeps it from being settled; one that
\* has a price read it from the product.
RequestHasRead(s) ==
    /\ s.op = "publish" /\ s.step = "commit" =>
          Exists(s.product) /\ UpdateFree(s.product)
    /\ s.op = "create" /\ s.step = "insert" =>
          \A o \in s.offers : /\ offer[o].status # "none"
                              /\ s.priced => product[offer[o].product].priced

\* What a settling transaction has selected is all there is to settle.
SyncSelected(s) ==
    s.op = "sync" /\ s.step # "idle" =>
        \A r \in Rsvs : Awaits(r) /\ ProductOf(r) \in s.seen => r \in s.scan \cup s.rows

MergeSelected(s) ==
    s.op = "merge" /\ s.step # "idle" =>
        /\ s.step \in {"move", "scan"} /\ product[s.target].status = "active"
        /\ s.todo \cup s.seen = {s.target}
        /\ s.step = "move" => s.seen = {} /\ s.scan = {}
        /\ s.step = "scan" => s.offers = OffersOf(s.product)
        /\ s.target \in s.seen =>
              \A r \in Rsvs : Awaits(r) /\ rsv[r].offer \in s.offers => r \in s.scan \cup s.rows

RejectSelected(s) ==
    s.op = "reject" /\ s.step # "idle" =>
        /\ s.step = "scan" => s.offers = OffersOf(s.product)
        /\ s.step \in {"withdraw", "commit"} => s.scan = {}
        /\ s.step \in {"rows", "withdraw", "commit"} =>
              /\ s.product \in s.seen
              /\ \A r \in Rsvs : Open(r) /\ r \notin crossed /\ ProductOf(r) = s.product
                                    => r \in s.scan \cup s.rows

HasSelected(s) == RowsStayOpen(s) /\ SyncSelected(s) /\ MergeSelected(s) /\ RejectSelected(s)

CascadeInv ==
    /\ IInv
    /\ RowsRefer
    /\ OffersDisjoint
    /\ AwaitsSettling
    /\ \A t \in Txs : RequestHasRead(tx[t]) /\ HasSelected(tx[t])
=============================================================================
