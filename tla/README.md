# Formal models of AgroBot

AgroBot lets the members of a farmers' group publish what they have, reserve from each other
and talk about it, through a Telegram bot and a Mini App. This directory holds TLA+ modules
that model its server, the TLC runs that check them on small instances, and TLAPS proofs of
what matters most for every instance. Paths below are relative to `src/apps/server/src` unless
they say otherwise; `PROJECT.json` maps each definition to the lines it translates.

## 1. The system

| Component | State | Operations | Talks to |
|---|---|---|---|
| Offers (`domain/offers`) | `offers` rows: status, quantity, available-until | publish, edit, withdraw, still-available, nightly expire, nudge | reservations (what is held), outbox (N3, N10, N11), hub (publish, wake) |
| Reservations (`domain/reservations`) | `reservations` rows, system lines | create, confirm, reject, cancel, deliver, confirm-and-deliver, remind, expire | offers (lock, deduct), outbox (N6-N8), threads, hub |
| Catalogue cascade (`cascade.ts`, `catalog/lifecycle.ts`) | none of its own | resolve prices, merge, reject | reservations, offers, products |
| Catalogue (`domain/catalog`) | products, sync log | sync, propose, rename, reject, under one advisory lock | sheet, outbox (N4, N5, N12) |
| Members (`domain/members`) | members, invites | identify, approve/reject/suspend/reinstate/promote/demote, invites | outbox (N1, N2) |
| Threads (`domain/threads`) | messages, read marks | post, read, list | hub (is viewing), outbox (N9, one per thread until read) |
| Outbox (`domain/notifications`, `jobs/notifications-dispatch.ts`) | notification rows | enqueue in the caller's transaction; dispatch in batches of 20 with retries | Telegram |
| Hub scheduler (`realtime/hub.ts`, `jobs/`) | schedule table, one alarm | wake, heartbeat, alarm, manual run | jobs, Postgres |
| Hub realtime (`realtime/hub.ts`) | tickets, sockets, presence, rate counters | issue and redeem tickets, publish, is viewing, hit | Mini App |
| Mini App stores (`src/apps/miniapp/src/lib/stores`) | the member, the board, one socket | fetch, count requests, connect, reconnect, say what is on screen | API, hub |
| Mini App screens (`src/apps/miniapp/src/routes`, `lib/components`) | what a screen shows, its calls in flight | load, act, send, filter, refetch on a frame or a reconnect | stores, API |
| Bot (`bot/`) | the cards it has sent (at Telegram) | six quick actions, commands | the domain services |
| Schedule arithmetic (`jobs/schedule.ts`, `packages/shared/src/dates.ts`) | none | the farm's clock, next daily occurrence | hub, offers |
| HTTP API (`http/`) | none | authenticate, call the domain, render | all of the above |

Requests and jobs are Postgres transactions at READ COMMITTED. They meet in three ways: row
locks, rows another transaction commits between two of their statements, and the hub, which a
commit wakes afterwards and which runs the jobs.

### What is hard

- *Interleaving.* A check and the write it justifies are different statements. What keeps them
  together is a row lock taken before the check, in every path that could disturb it.
- *Staleness.* A job selects rows by a condition and waits for their locks; the condition may
  have ended by the time it gets them. The hub stores a due time it read before an await.
- *Partial failure.* A transaction may roll back after any statement, a Worker may die between
  its commit and the wake that follows, the hub may be evicted while a job runs.
- *Deadlines.* An answer races the reminder and the expiry of the same reservation.
- *Liveness.* Work must be done with nobody polling: the alarm must be set whenever there is some.
- *Answers out of order.* A screen has several requests in flight and may have been left by the
  time one is answered; the frames that make it ask again travel by another way, over a socket
  of which each end learns by itself that it is lost.
- *Redelivery.* Telegram delivers a tap again that was not answered in time, also while it is
  still handled.
- *Clocks.* Daily jobs run on the farm's clock, which skips an hour and repeats one.

The full list, each at its line with the properties that cover it, is `hazards` in `PROJECT.json`.

### What makes each part correct

- Offers and reservations: no more is held than there is; quantity changes only by the
  producer's edit and by delivery, once each; a closed reservation stays as it is, its thread
  tells one path of the state machine, each party hears of the ending once; one active offer per
  producer and product; an expired offer's date has passed; only approved members act.
- Hub scheduler: the alarm is set to the earliest due row; no due row waits for ever; work that
  was reported is never later on the schedule than it is in Postgres.
- Outbox: every committed row is sent or given up on, at least once; retries back off.
- Threads: an unread message has an N9 queued or sent; read marks do not go back.
- Members: there is always an approved admin; an invite admits whom it names.
- Catalogue: a resolved price reaches open reservations, a rejection cancels them and a merge
  leaves no offer behind; a proposal is settled once; one product per slug.
- Realtime: the app has one connection however it fails; the hub knows the thread on screen.
- Screens: once connected and at rest, a screen shows what is committed; a list that counts its
  requests never goes back in time.
- Nudges and dates: no badge and no question outlives an answer; an offer past its date leaves
  the board the next day; a question that is due is asked.
- Bot: what takes the place of a button is true.

## 2. Modules

| Module | Models | Status |
|---|---|---|
| `Stock` | the abstract promise of offers and reservations: quantities that are held, delivered or released | done |
| `Reservations`, `MCReservations` | offers and reservations as concurrent transactions with row locks | done |
| `ReservationsProofs` | no oversell, one active offer, writes only while approved, one story per reservation, the machine, the refinement of `Stock` | done |
| `Hub`, `MCHub` | the scheduler, the Workers that wake it, crashes and deployments | done |
| `HubProofs` | the schedule covers reported work, the alarm is armed | done |
| `LockOrder`, `MCLockOrder` | every lock the paths take, the catalogue's and foreign keys' included, and who waits for whom | done |
| `Threads`, `MCThreads` | posting and reading against the N9 throttle and the read-only window | done |
| `TransactionProofs` | one N9 per burst, unread is told, nothing late (`Threads`); the ordered paths never hold each other up in a circle (`LockOrder`) | done |
| `Members`, `MCMembers` | knocking, invites, the six actions and the last-admin rule | done |
| `MembersProofs` | an admin always remains, one announcement, one admission, who may act | done |
| `Outbox`, `MCOutbox` | overlapping dispatchers, retries, 429, lost answers, dying runs | done |
| `OutboxProofs` | no notification is lost, copies are accounted for, waits are kept | done |
| `Catalog`, `MCCatalog` | sync, propose, rename, merge and reject with the cascade, against create, publish and edit | done |
| `CatalogProofs` | a name is one product's, a proposal is settled once, and what settling reaches | done |
| `Realtime` | one app's socket from both ends: ticket, upgrade, presence, frames, losses | done |
| `Screens` | the Mini App's screens and the stores of the member and the board, against a log of commits | done |
| `MiniApp`, `MCMiniApp` | `Screens` over `Realtime`: what a screen shows at rest | done |
| `MiniAppProofs` | one socket, the hub's idea of the screen, counted lists do not go back; the composition implements its parts; a screen at rest shows what is committed | done |
| `Calendar` | the farm's clock across both changes | done |
| `Nudge` | the nightly expiry and the daily nudge against the answers of producers | done |
| `Bot`, `MCBot` | the quick actions, redelivered and overtaken, on the offers of `Nudge` and on applicants and reservations | done |
| `NudgeProofs` | badges and questions, in time; past dates leave; cards tell the truth | done |

`Reservations` implements `Stock` (`ImplementsStock`, through the mapping at its end). The other
modules compose by what they promise each other rather than by INSTANCE: a product state of
transactions and scheduler would be out of reach, and each interface is narrow. `Hub` promises
that a due row's job runs, which is the fairness `Outbox` assumes of `Begin`; `Reservations`,
`Threads` and `Members` say which notifications a commit writes, which are the `Enqueue` of
`Outbox`; `LockOrder` says that transactions which wait for locks, as those modules do, do not
wait for ever. `MiniApp` and `Bot` do compose: `MiniApp` extends `Realtime` and `Screens`, and
each of its steps is a step of both or of one while the other stutters, which `MiniAppImplements`
proves; `Bot` extends `Nudge`, whose offers its buttons answer.

### Reservations

A transaction is a record in `tx` that walks through its function's statements: `member` (lock
the actor's row, `actorFrom`), `rsv` or `offer` (lock the row it will write), `check` (read in a
statement of its own and decide), `commit`. Jobs go `scan`, `rows`, `commit`: the rows a
condition selects, then each row's lock with the condition evaluated again, which is what
Postgres does for `SELECT ... FOR UPDATE`. All writes of a transaction become visible at its
commit; `Rollback` may happen at any statement. A locking statement is enabled only when no
other transaction holds the row. The tables are `offers`, `rsv`, `lines` (system lines of the
thread) and `notes` (outbox rows of a reservation). Quantities are small integers; prices, texts
and names are left out. The code's clock is read once per transaction (`at`), before its locks,
and so it is here.

Left out: the unique index on active offers, so that `OneActiveOffer` rests on the code's own
lock and check; the key locks of foreign keys (they only add waiting, and are the subject of
`LockOrder`), the retry of a transaction by its caller, an admin changing the settings, and
the notices of the offers themselves (N3 at a publish, N11 at a withdrawal), which no property
reads.

### Hub

`schedule`, `alarm` and `now` are the object's own state; `items` are the rows in Postgres that
deadline jobs handle (queued notifications, pending deadlines), each with the time it is due. A
Worker's `Commit` or `Answer` changes `items` and puts the item in `unwoken`; the wake arrives
later (`Wake`) or never (`WakeLost`). A job run is three steps, since other events are delivered
to the object while it waits for its database: `Work`, `ReadNext` (the query for the next due
time) and `Store` (`setDue`). The run of the alarm and a manual sync may overlap. A run keeps
the set of the rows it has still to handle (`todo`) and takes them in the order its query gave.
`Restart` evicts the object at any point, possibly into another release; an alarm whose handler
did not finish is delivered again. `missed` is a history variable: the items no run can know of,
because their wake was lost or arrived between `ReadNext` and `Store`.

Null and every time beyond the bound are one value, `Never`: neither ever comes due.

### LockOrder

Nothing is kept of a transaction but the sequence of locks its statements ask for (`program`)
and how many it has (`taken`). Each path's operator (`Create`, `Act`, `Deliver`, ...) lists them
in the order of the function's statements; a statement that locks several rows gives every
order. The paths of the catalogue begin with its advisory lock, which is one row more, and the
actor's row (`Enter`). A proposal locks nothing else (`Propose`), a rename to a free name the
product (`Rename`). A merge locks the proposal, its offers in any order, and then any of the
reservations without a price in any order (`Merge`). The sync locks products and, right after
each, any of its reservations (`Sync`, `InTurn`). The rejection of a product locks any of its
reservations (those that are open) and then any of its offers (those that are active), each in
any order (`Cascade`).

`OrderedPaths` are the paths that lock one row of a table at most, or several under the
catalogue's lock and reservations before offers. Not of them: the two jobs, which lock whatever
is due, an admin's action, which locks every admin, and the merge, which locks offers before
reservations. `ForeignKeys` says whether the `FOR KEY SHARE` locks are counted that an insert
takes on the rows it refers to. `Conflicts` is the table of Postgres row lock modes. `Rank` is
the documented order, with what is locked before it: catalogue, members, products, reservations,
offers. `NoDeadlock` is about the locks of the statements themselves (`HoldsUp`, `Strong`): where
foreign keys' locks are counted they may make others wait, and a circle that needs one of them is
not one of `NoDeadlock`'s. Its specification is `OrderSpec`, of sessions of the database.

### Threads

One reservation's thread, its two parties, and any number of requests of either. `post` locks
the actor and shares the reservation, loads the record and asks the hub whether the recipient is
viewing (`LoadThread`), inserts if the window is open (`Insert`), moves the sender's own marker
and clears the sender's own key (`MarkRead`, `ClearKey`), and inserts the N9 with the
recipient's key or skips it (`Enqueue`). `read` chooses the newest message it sees, then does
the same two updates. `key` is the partial unique index on `dedupe_key`: an insert waits for an
open transaction that wrote or cleared the same key. `n9` and `raced` are history: which
messages came with an N9, and which crossed a read of their recipient (see section 4).

### Members

`held` is what each transaction has locked, persons' rows and invites. `identify` looks for an
open invite `FOR UPDATE`, then the member, inserts with `ON CONFLICT DO NOTHING`, and approves
or announces at its commit. `act` selects the approved admins `FOR UPDATE` (`ScanAdmins`, then
`LockAdmin` one row at a time, each looked at again when its lock is granted: the rows of the
snapshot, as READ COMMITTED gives them), checks the actor's own row, locks the target, decides.
The invite operations check the caller's copy of the actor and nothing newer, as the code does.
`admitted` and `n1` are history. `updateProfile` is left out.

### Outbox

A run of the dispatcher is one transaction. `Begin` locks a batch of due rows, skipping those
another run holds; `Send` and its outcomes (`Deliver`, `LoseAnswer`, `Refuse`, `TooMany`,
`Error`) draft what becomes of each; `Commit` makes the drafts visible; `Crash` forgets them but
not what Telegram delivered. Waits are relative (`wait`), so the clock needs no bound. Left out:
the order of creation within a batch (a batch is any of the due rows, so the properties hold for
that order too) and the retries the client makes inside one call, which only make a call longer
(`MaxTook`).

### Catalog

`sync`, `renameProduct` and `rejectProduct` are transactions under the advisory lock
(`InCatalogue`); `create` and `publish` are transactions that never ask for it. Each statement
that selects or locks rows is a step: a sync or a merge selects the reservations without a price
(`Scan`), then takes each row when its lock is granted if it is still open (`LockRow`); a merge
takes the proposal's offers (`MoveOffers`) and a rejection its open reservations (`ScanOpen`),
then the offers that are active (`ReadActive`, `LockOffers`). `propose`, a rename to a free
name, `edit`, `withdraw` and the ending of a reservation write one row under its lock and read
nothing that others may change before it, so each is one step. The unique index on active offers
is the guard of the commits that may violate it (`TwoActive`, `NoneActive`), so no property here
checks it: that the code itself keeps it is `OneActiveOffer` of `Reservations`, which has no
index. The index on slugs is left out, since `OneProductPerName` says that it is never met. Left
out too: who is an admin (`Members`), quantities and dates (`Reservations`), N4 and N12, and the
sync log. `told` and `crossed` are history: the N5 each proposal got, and the reservations
inserted without a price after the settling of their product had selected reservations (section
4).

### Realtime

`store` is the state of `RealtimeStore`: whether it was started or left, its one timer, its
socket, what is on screen. `conns` has each connection at both ends, the app's stage and the
hub's, with the presence messages on their way up and the frames on their way down; the two
stages change separately, so a socket that the app has given up may stay open at the hub
(`HubNotices` comes later, or `HubDrops` before the app's `OnClose`). `start` may be called
again and does nothing (`App.svelte`'s effect may run it again). Left out: the rate counters,
the order among several sockets of one member (each has its own queue), and the age of a ticket,
which may lapse at any time (`UpgradeFails`). `start()` after `stop()` is left out as well: the
app calls `stop` when it is taken down and is not mounted again. A `start` that came while the
ticket of before the `stop` is still asked for would open two sockets.

### Screens and MiniApp

The server is `log`, the sequence of its commits, each of a kind and with who made it; a read is
a prefix of it, and what a view shows (`shown`) is a set of places of the log. `Behaviour` says
of each view, read off its component or store: which commits it shows something of, on which
frames it asks again, whether it does after a reconnect, whether it counts its requests and
drops older answers, whether filters go into them. A request carries its number; `Counted` is
what a newer request of a counted view makes of older ones. Screens are mounted and left
(`Mount`, `Leave`): what is asked of a screen that was left goes on, as far as its component
lets it. Each writing call has its answer, its refusal and its loss; a screen whose buttons wait
for it (`Busy`) starts no other meanwhile. `MiniApp` ties the two ends together: a commit's
frames go out by `Publish` and arrive by `Deliver` as `Hear`, a reconnect runs `Reconnected`,
mounting a reservation's screen tells the hub (`Tells`). Answers of Postgres are as of the time
they are served; optimistic rows, pagination of a thread, toasts and forms are left out.
History: `seen` of a view and `untold`, which the exceptions of `ShowsWhatIsCommitted` name.

### Calendar, Nudge and Bot

An instant is an hour of UTC. `Calendar` translates the functions of `jobs/schedule.ts` and
`shared/dates.ts` as pure operators: local time, the instant of a local time with its two or
three candidates, the next daily occurrence. `Nudge` has the two daily jobs, each up to `Late`
hours late, as the hub may be busy or retry, and the producer's `Edit`, `StillAvailable` and
`Withdraw`. The nudge job reads what is left of each offer in the snapshot of its statement
(`NudgeStarts`) and then has the locks (`Nudge`). `Bot` has handlers of updates: a tap begins
one, Telegram may begin another for the same tap (`Redeliver`), each runs the domain's
transaction (`Act`, `ActOnOffer`), reads the status again if it was refused (`Look`), or says
"not found" if that reading fails (`LookFails`), and writes the card (`Say`) or fails
(`GiveUp`). `since` is history: what a handler's subject has been since the handler began. Two
cards of one subject are the messages of two admins or devices. Others move the same subjects
(`OthersAct`, and for offers the whole of `Nudge`).

## 3. Runs

| Run | Instance | Shows |
|---|---|---|
| `stock` | 2 members, 2 offers of one product with 1 unit each, 2 reservations, 2 open transactions, suspension at any step | no oversell, one active offer, whatever is written is written for an approved member, every commit is a step of `Stock` |
| `lifecycle` | 2 members, 1 offer and 1 reservation, 1 unit, reminder and expiry jobs, 2 days, an offer's date | one ending stands; thread, notices and deadline agree with it; expired means past |
| `hub` | 4 jobs of which a second release adds one, 1 item, 1 failure or crash, fairness | schedule covers reported work, alarm armed, due rows are handled, due work is done |
| `hub_lost_wake` | no crash, no failure | *violation*, see findings |
| `lock_order` | 3 transactions: create, the actions, sync, rename and rejection; a proposal that 2 members sell and a product of the sheet, a reservation on each offer | nobody is held up in a circle |
| `lock_merge` | 2 transactions: a delivery and a merge, the same rows | *violation*, see findings |
| `threads` | 2 parties, 2 messages, 2 open transactions, a window of one day, 3 days | one N9 per burst, what is unread has a N9 that holds its reader's key, nothing written after the window |
| `members` | an admin, another whom the configuration names, 2 strangers at the door, 1 invite for both | announced once, an invite admits one, a knock undoes no rejection, an admin remains, whoever acts is one |
| `outbox` | 2 notifications, 2 runs, batch of 2, 1 delay, 2 faults, fairness | nothing lost, copies accounted for, waits kept, everything settles |
| `catalog` | 2 members, 2 products, 2 offers, 1 reservation, 2 names, 2 open transactions | prices and rejections reach what is open, one settlement, one product per name |
| `miniapp` | every screen, 2 connections, 1 commit, and 2 in all of: a screen opened, something done, a loss, a fault | one socket, presence follows the screen, what is committed is shown, nothing goes back in time |
| `nights` | 10 days with both changes of the clocks, 1 offer, 1 applicant, 1 reservation, 2 handlers, 2 acts | badges and questions are right and in time, a past date leaves the board within the delay of its job, cards tell the truth |

### Bounds

Every race of the code is between two transactions on one or two rows, and each takes its locks
in one pass, so a third open transaction adds waiting but no new order of two conflicting
statements. (`LockOrder` has three, since a circle may need them.) A transaction slot is used
again for any number of requests, so sequences are not bounded except by the rows there are. In
`stock` each offer has one unit, so every reservation is for the last one and two of them are
one too many; with one offer of two units, which tell "all" from "some" of what is left, and a
cancellation besides, `NoOversell`, `ImplementsStock` and the approval of actors were checked
once and hold, and the proofs have any quantity and every action. Two days tell before, at and
after a deadline; two notifications in one batch tell a row from its neighbour. `lifecycle` has
one reservation, whose every ending it tries against both jobs. In the hub, a batch of one is
full with one item, so that the dispatcher comes back for more. In the outbox, one delay makes
the second failure the last, and `Asks` is longer than the delay. Of the six actions of an
admin, `members` has `reject`, for the door, and `suspend`, with which its two admins can remove
each other (with all six and a third admin it does not finish in five minutes); the proof of
`AdminRemains` has every action and any number of admins. In the catalogue, two products are a
proposal and the sheet product it merges into, with two producers who may have an offer of each;
with one member and three open transactions the same properties were checked once, and hold.
Faults are bounded only where liveness needs them to end.

In `miniapp` every hazard is one request, commit, frame or loss against another, so what a run
contains is two of the member's doings and the failures together (`MaxTogether`), in any order,
with one commit beside them, which may be another member's or the member's own, and what these
lead to (a reconnect, three requests at once of which two of one view). The app may be opened by
any of the links there are. Frames on their way over one socket are two, since a reservation's
commit tells two. Two connections are what it takes for an old one to be still open at the hub
when the next is made. The horizon of `nights` has the spring change after two days and the
autumn change after six, the periods of the settings scaled to two, one and three days, so that
each of them is begun before a change and ends after it; members act at midnight and at nine,
when the jobs run. One run has subjects of one kind only (`kind`), as the kinds share nothing.

`Calendar` is also checked by an assumption that TLC evaluates: `NextDailyIsNext` in `MCBot`
compares `nextDailyOccurrence` with a definition by search, for every hour of the horizon and
every hour of the day. In `lock_order`, two reservations and two offers of one product are what a
rejection can lock in another order than a delivery or a sync, and what two rejections could lock
in another order than each other, but for the catalogue's lock.

SYMMETRY is used in runs without liveness properties and on constants that occur nowhere else.

### Fairness

`Hub!Fairness` is weak fairness of the alarm, of a run under way, of a call that was sent (it
arrives or is lost) and of the heartbeat: the platform promises each. Commits, manual syncs and
the clock are not fair. `Outbox!Fairness` is weak fairness, for each dispatcher, of beginning a
run when rows are due (what `hub` shows of the scheduler), of going on with a row, of
an answer or a timeout of the call, and of the commit; and of the clock. Enqueueing and faults
are not fair, and faults are finitely many (`MaxFaults`): a Telegram that never answers again
delivers nothing. The other runs check safety and assume none. What a screen must show is stated
of the states at rest (`AtRest`) rather than as a liveness property, since a network that is
down for ever is a behaviour of the app; `AskedInTime` and `PastDateLeavesBoard` are bounded
forms of "eventually", whose only assumption is that a job is at most `Late` hours late.

Every property has a mutant in `PROJECT.json`: a plausible fault in one definition (the
operators marked "Fault" in the modules) that makes TLC find it violated.

## 4. Findings and disagreements

Two have a run whose counterexample shows them.

- *A wake can be lost* (`hub_lost_wake`). `alarm()` stores a next due time that was read before
  an await; a `wake()` delivered in between is overwritten, and the row it reported waits for
  the next commit that wakes the hub. `jobs/deadlines.ts:7-9` says the alarm is never later than
  the work. `ScheduleCoversWork` shows that this window and a lost call are the only ways.
- *A merge and a delivery deadlock* (`lock_merge`). A proposal that is renamed to a product of the
  sheet moves its offers first (`domain/catalog/lifecycle.ts:67`) and then writes the price into
  their reservations (`domain/reservations/cascade.ts:26`); a delivery locks the reservation and
  then the offer. Postgres aborts one. `src/docs/architecture.md:259-261` says "Row locks are
  taken in one order everywhere [...] so the paths cannot deadlock". Of the paths it names,
  and of every other path but the jobs and an admin's action, which the order does not cover,
  this is proved, foreign keys' locks aside (`OrderPreventsDeadlock`).

The others were met while modelling and are part of the models, without a run of their own.

- *Foreign keys lock too.* `create` locks its requester's row `FOR UPDATE`, and its inserts refer
  to the producer's (`domain/reservations/service.ts`), which takes a key-share lock on it. A
  producer who tries to reserve their own offer while another member reserves it, each holding
  what the other wants, or two members who reserve from each other, are a circle that Postgres
  breaks by aborting one. `NoDeadlock` does not count these locks.
- *A burst may stay silent.* `post` skips its N9 while the recipient's key is held; a read of
  the recipient that clears the key after that and before `post` commits does not see the
  message. Nobody is told of it until the next message. `db/schema/notifications.ts:27-28` calls
  the throttle "a database constraint rather than a race". `UnreadIsTold` (whoever
  has an unread message to be told of has an N9 that holds their key) holds with exactly this
  exception (`raced`).
- *A marker may pass a message.* Markers are times, and a message stamped before a marker may be
  committed after it: the badge never counts it (`domain/threads/service.ts:161`).
- *Waits start before the call.* The next attempt after a 429 or an error is counted from the
  clock read before the call (`jobs/notifications-dispatch.ts:60,117`), and a call may take as
  long as its own retries do (`deps.ts:68`); line 19 says that a 429 waits exactly what Telegram
  asked. `AsksNoEarlier` has that exception (`cut`).
- *A new job is not scheduled.* `seedIfEmpty` (`realtime/hub.ts:293`) fills an empty schedule
  only, so a job that a later release adds gets no row unless it is a deadline job;
  `jobs/index.ts:10-11` says that adding an entry is all that is needed. `hub` deploys
  such a release, with a job its liveness properties do not count on.
- *Invites trust a stale admin.* `createInvite` and `deleteInvite` check the caller's copy of
  the actor (`domain/members/service.ts:350`), where every other admin operation reads the row
  again under its lock (`src/docs/architecture.md:130-131`). `ActorsAreAdmins` is therefore
  about the six actions.
- *A knock that crosses its invite waits.* A first knock that looks for an invite before it is
  committed and inserts its row after the invite looked for members leaves an applicant pending
  beside an open invite; the next knock, or an admin, resolves it.
- *A reservation may slip past the settling of its product.* The cascade selects reservations
  without their offers' locks (`domain/reservations/cascade.ts:26,69`), and a `create` that read
  its offer before and commits after is not among them. After a rejection it is open on an
  archived product, where PRD US-2.2 (`src/docs/prd.md:180`) says that open reservations are
  cancelled. After a sync its price snapshot stays empty, though the product has a price:
  nothing fills it later, as only a pending product is resolved. A merge cannot be crossed so,
  since it locks the offers first. `NothingLeftBehind` and `PriceReachesOpen` hold with exactly
  these exceptions (`crossed`).
- *An offer may be active on an archived product.* `publish` checks the product it read without
  a lock, and `edit` puts a withdrawn offer back without looking at its product
  (`domain/offers/service.ts:258,323`). `publish` alone says that its product must be offerable.

- *A commit before the first socket is not heard of.* A screen that loaded before the first
  socket was accepted shows what it loaded until another frame comes: only a reconnect makes the
  handlers run (`realtime.svelte.ts:142-148`), the first connection does not.
- *An offer's page does not reconnect.* It subscribes to frames and not to `onReconnect`, as the
  other screens do.
- *Screens that do not count.* The details of an offer and a reservation, the producer's own
  offers and the admins' lists let an older answer overtake a newer one; `board.svelte.ts`,
  `Reservations.svelte` and the thread count for this reason. `NeverBackInTime` is about the
  latter.
- *A badge drops a profile.* `applyUnread` cancels a refetch in flight, whose answer may have
  brought more than the unread count, such as a suspension.
- *A suspension is told to the suspended only*, though their offers leave the board of others.
- *An applicant's card may say "pending".* The refusal of a stale approve or reject is explained
  by the status read before the call (`bot/index.ts:252-303`), the others by the one read after.
- *A card may say "not found".* A tap that is refused is explained by a second read, whose failure
  is taken for an absence (`.catch(() => null)`, `bot/index.ts:278,336`): the card loses its
  buttons and says "not found" of a reservation or offer that exists. The comments say that a
  stale button "explains itself" (177) and "answers with its current status" (247).
- *A nudge may be a run late.* The job compares instants, and a run after the clocks went forward
  comes an hour earlier in its day; and the run that sets a badge does not ask, so an offer that
  was out of the job's sight is asked about one run later. `AskedInTime` has both.

`ShowsWhatIsCommitted` holds with exactly the exceptions of the five about screens, from *A commit
before the first socket* to *A suspension is told*; `src/docs/architecture.md:316-319` says of a
missed frame that it costs "one extra request, never a stale screen". `CardTellsTruth` holds with
exactly the two exceptions about cards.

## 5. Proofs

All are checked by TLAPS for every value of the constants that satisfies the named assumptions.
Each safety property follows from an inductive invariant, with one lemma per action; action
properties and the refinements (`ImplementsStock`, `MiniAppImplements`) follow from that
invariant, step by step. Before its proof each invariant was checked by TLC on the
instances of section 3; the larger ones are defined in the modules they are about.

### ReservationsProofs

Under `ConstantsAssumption` and `IdsAssumption`, for every finite number of reservations and any
number of members, offers and transactions.

`Invariance` (`Spec => []IInv`), `TypeCorrect`, `NeverOversold` (`NoOversell`). `NoOversell` is
not inductive: nothing in it says that what a transaction has read is still true when it commits.
`IInv` adds that locks are disjoint (`LocksDisjoint`), that a transaction holds the lock of
whatever it has checked (`TxLocks`), and that what it checked still holds (`TxChecks`): the room
for a new reservation, the quantity an edit may not go below, a status that still holds, a job's
condition. The argument that `TxChecks` survives the others is the frame lemma: a transaction
writes only rows it has locked, a reservation becomes holding only under its offer's lock, and
the sum held on an offer can otherwise only fall. The sums are counted as sets of units, so that
the library's facts on finite cardinality apply.

`HistoryInvariance` (`Spec => []HInv`), and from it `ThreadsTellStatus`, `EachEndingToldOnce`
(`ClosingToldOnce`), `RemindersOnce` (`RemindedOnceWhilePending`) and `ExpiredIsPast`
(`ExpiredOfferIsPast`). `HInv` adds to `IInv` what a transaction is about to write agrees with
(`TxStory`), and how the status, the lines of the thread and the notices of a reservation go
together (`RsvStory`, `NotesStory`). A reservation makes one of five moves in a step: it stays
as it is, is created, is acted upon, lapses, or is reminded of. What each move does to the lines
and the notices is proved once (`LinesKept`, `NotesKept`); each action is then shown to make
such moves, and `StoryKept` concludes.

`MachineFollowed` (`FollowsTheMachine`) and `ApprovedWrite` (`OnlyApprovedAct`): no step leaves
the edges of the state machine, whatever it interleaves with; whatever a request writes, be it
an offer, a reservation, a line or a notice, is written while its member is approved, since the
request holds the lock of the member's row from the check to the commit.

`OneOfferEach` (`OneActiveOffer`), by `OInv`: what a publish or an edit has counted of its
producer's active offers still holds at its commit, since only the producer's own requests make
one of their offers active, and these wait for the producer's row.

`StockImplemented` (`ImplementsStock`): `Spec` implements `Stock`. The units of `Stock` are held
by the reservations that hold (`HoldOf`), and its ledger is a function of the two tables. Every
commit is a step of `Stock` by a lemma of its own (a create holds, a delivery delivers, an
ending releases, several of them for the expiry job), and every other step leaves both tables,
so the ledger, alone.

### HubProofs

Under the assumptions of `Hub`, for any jobs, items, releases, delays and faults:
`HubInvariance` (`Spec => []IInv`), `WorkIsCovered` (`ScheduleCoversWork`) and `AlarmArmed`
(`AlarmIsEarliest`). Neither is inductive. A handler stores a due time it has read before, so
what it read must cover the work that can be known of (`ReadsCoverWork`), with the one exception
of what was `missed` between the reading and the storing. A run that ends sets the alarm by the
rows that are left, and those it has not handled are still due (`RowsStayDue`), so a run that is
cut short by an error leaves the alarm early enough; a run under way has rows (`RunsHaveRows`).
That a schedule has an earliest row, for any set of jobs, is by well-founded induction
(`SmallestIsLeast`).

### TransactionProofs

Two specifications whose transactions wait for each other. For `Threads`, under
`ThreadAssumption`, for any messages, window, clock and open transactions: `ThreadInvariance`
(`Spec => []ThreadInv`), `OneNoticePerBurst` (`OnePerBurst`), `UnreadAreTold` (`UnreadIsTold`)
and `AllWrittenInWindow` (`WrittenInWindow`). `ThreadInv` has what fits of the tables
(`DataFits`), what an open transaction may rely on (`TxFits`), and what two of them cannot both
have (`Apart`). The marker a transaction has chosen is after every message of the other party's
that has not crossed it, so a commit that moves a marker leaves nothing unread which did not
cross; an N9 that is written means that its key was free, so nobody was told of anything unread;
an N9 that was skipped means that the key is held, and that nobody is clearing it, since whoever
cleared it makes the others wait. Steps inside a transaction are cases of `InsideKeeps`, commits
of `EndKeeps`.

For `LockOrder`, under `LockAssumption` and `TablesAssumption` (each reservation has its offer
and each offer its producer and product, the tables are finite, and no row is of two tables),
for any number of members, products, offers, reservations and sessions: `LockTypeCorrect`, of
every path, and `OrderPreventsDeadlock`. The latter says that no set of transactions of
`OrderedPaths` holds each other up in a circle of the locks that their statements take. It has
no premise about what the programs look like: that each is a sequence of locks
(`ProgramsAreSeqs`) and which order it keeps (`OrderedPathsKeep`) is proved of the paths' own
definitions. Most take their rows in strictly rising `Rank` (`Plain`). The sync and the
rejection of a product do not: one locks the reservations of several products in between these,
the other several reservations and then several offers (`Settles`). But they begin with the
catalogue's lock, and no two transactions have locks that exclude each other (`LocksApart`,
which is inductive), so there is one of them at a time (`OneInside`), and since only they lock
products, nobody is held up at one (`NoneForProducts`). What they lock after a reservation or an
offer, products aside, is of its rank or a later one (`Fits`). So whoever holds up a
transaction, and is held up itself, is so at a later `Place` (`BlockerIsLater`): at a row of a
later rank, or as the one in the catalogue that goes on within a rank in which the other, being
plain, does not. There are ten places, so a circle would have no last one. The merge is of
neither kind, which is the finding.

### MembersProofs

Under `MembersAssumption`, for every finite group and any number of transactions:
`MembersInvariance` and `AlwaysAnAdmin` (`AdminRemains`). `AdminRemains` is not inductive: two
admins could each have counted the other. `IInv` adds that a transaction still holds the rows of
the admins it has counted, that they are still admins, and that it holds the row it is going to
write; since locks are disjoint, the transaction that removes an admin has counted another, whom
nobody else can write meanwhile.

`DoorInvariance` (`Spec => []DoorInv`), `ApplicantsAnnouncedOnce` (`AnnouncedOnce`) and
`InvitesAdmitOne` (`InviteAdmitsOne`). `DoorInv` adds that what a transaction has read of a row it
has locked still holds (`KnowsWhatItRead`), that a person who has no row was never announced
(`Announcements`), and that an invite which admitted somebody is used (`Admissions`). From it
also two action properties: `ReopenedByAdmins` (`OnlyAdminsReopen`) and `ActorsWereAdmins`
(`ActorsAreAdmins`), by what a commit may do to a member's row (`MoveOf`).

### OutboxProofs

`OutboxInvariance`, `NothingIsLost` (`SentWasDelivered`), `CopiesOnlyAfterLoss`
(`CopiesAreAccountedFor`), `FailedForAReason` (`GivenUpForAReason`). None is inductive, as a run
that has yet to commit knows more than the table. The invariant (`Types`, `Runs`, `Counts`,
`Reasons`) says that a locked row belongs to one run, which alone drafts what becomes of it, and
that every delivery is known to a row, known to a draft, or counted as lost.

`WaitsAsAsked` (`AsksNoEarlier`, an action property): no call for a note is made before what
Telegram last asked for has passed, unless the note is in `cut`. `WaitsKept` carries it: a row
nobody drafts waits at least as long as Telegram still wants, and so does each draft that goes
back to the queue; a row that a run has locked is due.

### CatalogProofs

Under `CatalogAssumption`, for any number of members, products, offers, names and transactions.

`CatalogInvariance` (`Spec => []IInv`), `NamesStayUnique` (`OneProductPerName`) and
`ProposalsSettleOnce` (`SettledOnce`). Neither property is inductive, since a sync or an admin
writes products by what it read when it began. `IInv` adds that one transaction at a time is in
the catalogue (`OneInCatalogue`), that what it has read of products still holds (`SyncHasRead`,
`AdminHasRead`), and how a product's status goes with the N5 sent about it (`Tells`). Products
are written only by the holder of the advisory lock, at its commit, or by a request that finds
the lock free; so what one holder has read nobody has changed, and after a write nobody is left
who has read anything (`WriteKeeps`). Every other step leaves products as they are
(`StepKeeps`).

`CascadeInvariance` (`Spec => []CascadeInv`), `PricesReachOpen`
(`PriceReachesOpen`), `SnapshotsStay` (`SnapshotsAreFacts`) and `NothingStaysBehind`
(`NothingLeftBehind`). Offers and reservations are written without the advisory lock, so
`CascadeInv` follows the rows: they refer to what there is (`RowsRefer`), their locks are
disjoint (`OffersDisjoint`), a reservation waits for a price only while its product is a
proposal (`AwaitsSettling`), what `create` read of its offer still holds (`RequestHasRead`), and
what a settling transaction has selected and locked is all there is to settle, but for what has
crossed it (`HasSelected`).

### MiniAppProofs

The socket, under `RealtimeAssumption`, for any number of connections, threads and failures:
`OneSocketHolds` (`OneSocket`) and `PresenceHolds` (`PresenceFollowsScreen`). The inductive
invariant adds `Stages`, that a store which is not started has no timer and before it ever
started no connection, and `FreshBeforeOpen`, that nothing has been said over a socket which is
not open yet and the hub's attachment of it is empty. That makes what `onopen` sends all there
is. One socket is needed for presence: what the store says goes over `store.socket`, which must
be the open one.

The screens, under `ScreensAssumption`: `NeverBackInTimeHolds` (`ScreensSpec =>
NeverBackInTime`). The invariant (`Safe`) says that of the requests of a list or thread one at
most still counts (`Single`), that it was sent after everything its view shows was committed
(`Ahead`), that what is shown was committed (`Committed`), and that a message the member sent is
not another's (`OwnSends`): an answer is no older than its request, so it has all that is shown.

Under `MiniAppAssumption` besides, `MiniAppImplements` (`AppSpec => Spec /\ ScreensSpec`): every
step of the composition is a step, or a stutter, of the socket and of the screens, so what is
proved of each alone holds of the app, as `MiniAppNeverBackInTime` and `MiniAppSocketHolds` say.

`NewsInvariance` (`AppSpec => []NewsInv`) and `ScreensShowCommits` (`ShowsWhatIsCommitted`), for
any number of commits, requests, connections, failures and things the member does.
`ShowsWhatIsCommitted` speaks only of an app at rest, so it is far from inductive. `NewsInv`
says, of every screen and every commit that the screen is to show, where the news of it is
(`NewsIsSomewhere`): it is shown; or the answer to a load that is awaited has it; or the
screen's own action has not come to its end; or, for each connection the screen relies on, there
is a frame in the socket or a call the hub still gets. A connection that the store made after it
lost another is not relied on before it opens, since `Reconnected` then asks again
(`OpenIsFound`: an open connection has always done so); an offer's page does not, which is why
it has an exception of its own. `untold` moves with every call that is lost and every first
socket (`PlacesOK` has its type). `Fits` has the filters: what is shown or asked for is what is
set. That the news is carried on is proved once for all steps that leave the screens alone
(`QuietNews`), for the screens' steps by what each answer brings (`ScreenNews`, over `StepKeeps`
and `StepCommits`), and for the steps where the two meet: a connection that is accepted or
opens, a frame heard, an event told or lost. It uses what was proved of each part (`IInv`,
`SocketInv`) and of what the hub is told (`TellingOK`).

### NudgeProofs

Under `NudgeAssumption`, `CalendarAssumption` and `BotAssumption`, for any offers, periods and
changes of the clocks, and with the buttons of the bot among those who write.

`StaleIsUnansweredHolds` (`StaleIsUnanswered`). With typing, and that an offer's activity is not
in the future, it is inductive row by row: whatever counts as an answer clears the badge and the
question in the same step, and the job that sets either compares with the answer's time under
the row's lock.

`ClockInvariance` (`Spec => []ClockInv`), `PastDatesLeave` (`PastDateLeavesBoard`) and
`QuestionsInTime` (`AskedInTime`). `ClockInv` says where each job stands: there is a day, today
or tomorrow at the latest, at whose midnight the nightly job is due and before which no active
offer is dated (`NightInv`); there is a last morning, not in the future, after which whatever has
come to be asked came, and the nudge job is due a day and an hour later at most (`MorningInv`);
and what the nudge job read without locks is stale only for offers that were written at that very
instant (`SnapshotFits`). All the reckoning with the clocks comes down to `FirstInstant`: the
instant `ZonedToUtc` gives for a reading of the farm's clock has come exactly when the clock
reads that much, over the hour that is skipped and the one that is repeated. The assumptions are
that the spring change is a day or more before the autumn change and that dates are not before day 0.

`CardsTellTruth` (`CardTellsTruth`), by two invariants. `CardInv`: what a handler has found out of
an applicant or a reservation is where it was, and it can only have gone on from there (`Leads`,
`LeadsOn`). `SeenInv`: what a handler has read of its subject, offers included, or is about to say
of it, the subject has been since the handler began (`KeepsSeen`).

### Only model-checked

Liveness (`DueRowIsHandled`, `DueWorkIsDone`, `EverySettles`) and whatever has `ENABLED`, which
are out of the prover's reach. Also what recursive functions and folds compute for every input,
which needs induction over data: that `nextDailyOccurrence` is the next occurrence is checked by
`NextDailyIsNext`. Every safety invariant and action property that a run checks is stated by a
theorem.

## 6. Not modelled, and what is planned

- Formatting and translation of messages, rendering, routing and validation, clients of external
  services, scripts and the legacy code: pure input and output around the operations above.
  Authentication by `initData` is cryptography.
- Of the Mini App: what a form holds while it is open, the product picker, toasts, layout, and
  the paging of a thread (its pages count as one request).
- Of the hub: the rate counters of `hit`, which are one comparison in one object, and the age of
  a ticket.
- Of the bot: `/start`, `/help`, `/status` and `/sync`, which reply with what operations of
  `Members` and `Hub` do.
- Of the schedule: `nextHourly`, and minutes. The daily jobs run at 00:05 and 09:00, outside of
  the hours that a change of the clocks touches.
- `updateProfile`, an admin who changes the settings between two steps, N4, N12, N3 and N11, the
  sync log, and the rounding of quantities, which are integers here.

Next, in this order:

1. The form that edits an offer, with the quantity it was opened with (a delivery meanwhile is
   undone by the save).
2. The settings, changed between two steps of a reservation's life.
