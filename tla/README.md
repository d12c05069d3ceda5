# A verification project for the realtime auction

The repository is an auction platform: a Go API (`cmd/api`, `internal/`) with a
realtime store in Redis or in memory, a file repository, WebSocket rooms, and a
React front end (`web/`). This directory holds TLA+ models of its core, the TLC
runs that check them on small instances, and TLAPS proofs that hold for every
instance. Source paths below are relative to the repository's root.

## 1. Inventory

| component | code | state | operations |
|---|---|---|---|
| auction aggregate | `internal/domain/auction/model.go` | status, price, leader, deadline, rules | `Start`, `Cancel`, `NextMinimumBid`, `Rules.Validate` (`Finish` is used by tests only) |
| realtime store | `internal/redis/scripts.go`, `redis_store.go`, `store.go` | snapshot hash, amount hash, ranking, bid counter, one remembered answer per request | `InitAuction`, `PlaceBid`, `Cancel`, `FinishExpired`, `Snapshot` |
| auction service | `internal/service/auction.go`, `settlement.go` | timer registry `s.timers` | `StartAuctionBy`, `CancelAuctionBy`, `PlaceBid`, `FinishExpired`, `syncAuctionFromSnapshot`, `Settle`, `scheduleFinish`, `stopFinishTimer`, `clearFinishTimer` |
| file repository | `internal/repository/file.go` | users, sessions, auctions, bids, orders: in memory, and a JSON file each | `UpsertUser`, `SaveSession`, `CreateAuction`, `UpdateAuction`, `SaveBid`, `UpsertOrder`, all through `save`; `load` at boot |
| process startup | `cmd/api/main.go` | choice of the store, the bus's source id | boot, the loop that forwards the other instances' events |
| room hub | `internal/ws/hub.go` | per auction the subscribers' channels of 16 events | `Subscribe` and its cancel function, `Broadcast` |
| event bus | `internal/ws/redis_bus.go` | source id, the subscription's channel | `Publish`, `Subscribe` |
| HTTP/WS server | `internal/http/server.go` | per connection its subscription | `events`, `websocketEvents`, `personalizeEvent`; routes |
| bidder room | `web/src/MobileApp.tsx`, `api.ts` | selected auction, snapshot, socket and timer refs | select, connect, reconnect, receive, bid |
| admin console | `web/src/AdminApp.tsx` | selected auction, snapshot, socket ref | select, receive, start, cancel |
| authentication | `internal/service/auth.go` | users (in the repository) | `SeedDemoUsers`, `Login`, `Require` |

**How they interact.** An HTTP request becomes a call of `AuctionService`. The
service calls the store (a Redis round trip, or a method under MemoryStore's
mutex), then the repository (a method under its mutex), then the timer registry
(under `timerMu`), then the hub. Nothing holds two of these together, and no
lock is held from the read of a record to its write. `FinishExpired` is called by
a `time.Timer` on a goroutine of its own. So between any two such calls any other
handler may run. The hub passes an event to the channels of the room's subscribers
under its read lock; each connection's goroutine is woken by its channel, reads the
snapshot from the store again and sends it. The bus carries the event to the other
instances, whose loop in `main.go` passes it to their hubs. The page puts whatever
comes from its socket, its first read or the answer to a call on the screen.

**What is hard.** The store is atomic, everything around it is not:

- a snapshot is carried from the store to the repository by whichever handler
  comes when it comes; repeated requests and slow handlers carry old ones;
- the start writes the repository, then the store; so does the cancellation, which
  ignores the store's answer;
- timers are armed before they are registered, and a registration stops whatever
  was registered; a timer that fires at once may read the variable that is to hold it
  before it is assigned;
- any call may fail after an earlier one took effect; a restart loses every timer;
- a bid is sent again after its answer was lost, and Redis forgets answers and,
  after a day, the auction;
- amount and arrival share one number in the ranking; bid and finish both allow the
  very last instant;
- channels drop events when they are full, `Publish` may fail, events overtake each
  other, and a connection's channel is closed while others broadcast;
- a file is replaced while the process may stop at any step, and where renaming is
  refused it is emptied first;
- the page's effects outlive the room they were started for: their awaits return
  after the cleanup, and they share the refs of socket and timer.

**What makes each component correct.** Store: price, leader, ranking and remembered
answers agree, closing has a reason, closed is closed. Service: the order is the
sale's, the repository never runs ahead of the store, an accepted bid is audited
once, the event that ends a sold auction follows its order, every sale is settled and
announced, every running auction closes. Repository: success means stored, an error
means not stored, and a restart undoes nothing that was answered with success. Hub, bus
and server: nothing is sent on a closed channel, a waiting page misses no announced
change, what it is sent was in the store after it was last sent something. Pages: the
selected room is never cut off and the page comes to hold what its server was told of,
what one effect shows never goes back, a room that was left does not connect again.

The hazards, each at its line, are in `PROJECT.json`.

## 2. Modules

| module | models |
|---|---|
| `AuctionDomain` | the aggregate: rules and their validation, the record, the guards and results of `Start` and `Cancel`, the next minimum bid |
| `AuctionContract` | abstract: what one auction promises (opens once, price only rises, closed for a reason, closed for good) |
| `BidStore` | the store, both implementations, one action per script or locked method, plus key expiry and the clock; `StoreSpec` is the store under an environment that calls anything |
| `AuctionService` | the handlers and finish timers as threads over `BidStore` and the repository's record, one action per lock or round trip |
| `Feed` | abstract: what pages are sent, a snapshot the store had since the page was last sent one or, after a failed read, any |
| `EventStream` | hub, bus and the connections of several instances, one action per lock, channel operation or round trip |
| `RepositoryTables` | the repository's tables and what each call makes of them |
| `DurableTables` | abstract: a call changes one table, success means stored, a restart changes nothing |
| `FileRepository` | the repository with its files, step by step through `save`, and the boot with `SeedDemoUsers` |
| `RoomPage` | the bidder's or the admin's page, each effect with its awaits, socket and timer |
| `MCBidStore`, `MCService`, `MCEventStream`, `MCFileRepository`, `MCRoomPage` | the instances TLC checks |
| `ServiceCoreProofs` | theorems about `AuctionService` that hold however often the auction is started |
| `BidStoreProofs`, `AuctionServiceProofs`, `EventStreamProofs`, `FileRepositoryProofs`, `RoomPageProofs` | theorems about the module in the name; `AuctionServiceProofs` builds on `ServiceCoreProofs` and that on `BidStoreProofs` |

`AuctionService` composes `BidStore` with the handlers. The others meet at what they
promise each other: `EventStream` knows the service as calls that change a version,
may give up, and broadcast; `RoomPage` knows the server as one that is told of some
versions (`Announce`) and as sockets on which nothing older follows something newer,
which is what `Feed` promises when reads succeed; `AuctionService`
knows the repository as one step per call, which is what `DurableTables` says of
`FileRepository`.

State and code correspond as follows.

- `snapshot` is the hash at `SnapshotKey`; `Absent` is a missing key. `amounts` and
  `rankSeq` are the amount hash and the sequence that goes into the ranking score
  (`Score`); `seq` is the bid counter; `requests` the request keys. `backend`
  says which store `main.go` picked.
- `auction` is the repository's record, `order` its order for the auction, `audit`
  the bid calls that `SaveBid` stored.
- `pc[t]` is the next lock or round trip of thread `t`; `held[t]` its local snapshot
  (with `Extended`), `due[t]` a timer's deadline, `registered` is `s.timers[id]`.
- `Timer(s)` is the timer that the call `s` schedules. Each call schedules at most
  one.
- `events` is the set of what was broadcast, as type and status.

In `EventStream`:

- a snapshot is its version, the number of changes the store has seen; `carried[t]` is
  the version in the event that thread `t`, a call or an instance's forwarder, holds,
  `todo[t]` the channels its `Broadcast` has still to offer to. While `todo[t]` is not
  empty the hub's read lock is held, which `WriteLock` waits for.
- `inbox[i]` is the subscription of instance `i` together with the channel behind it;
  `queue[c]` a connection's channel. `phase[c]` is where `events` or `websocketEvents`
  (`kind[c]`) stands: between its read of the store (`Hello`, `Personalize`) and the
  `Write` to the page the store may change. `taken[c]` is the snapshot in its hands, the
  event's or the one it read, and `read[c]` says that it was read.
- `shown`, `fresh` say what the page was sent last and whether the read before it
  succeeded; `since[c]`, a history variable, is the store's version at that moment;
  `silent[i]` collects the versions that instance `i` was never told of,
  because the handler returned early or `Publish` did not reach it.

In `FileRepository`:

- `memory` are the maps callers see, `disk` the files: missing, empty, half written
  or whole. `job` is the call that holds the mutex and its stage in `save`.
- `renames` says that renaming over a file is never refused. Where it may be, each
  call's rename succeeds or `save` falls back to `WriteFile`, which is `Truncate`,
  `Fill`, `Complete`.
- `unconfirmed[t]`, a history variable, holds what the calls since the table's last
  success, or the last boot, would have made of it.
- `process` and `toSeed` are the boot: load, seed each demo user, then serve.

In `RoomPage`, effect `n` is the `n`th run of the effect that depends on the selected
auction; `stage[n]` is where its `connect()` stands, `got[n]` what its
`getSnapshot` returned, `wire[n]` what its socket has still to bring, `again[n]`
that the socket is one of a reconnection, which the cleanup does not know. `timer` is
the ref `reconnectTimer` that all effects share: the effect whose timer it holds.
`seen[n]` is the last version an effect put on the page, `page` the state `snapshot`,
`call` a bid, start or cancellation that is out. `announced[a]` is the newest version the
page's server was told of. The bidder's page displays `snapshot` whatever auction it is
of (`MobileApp.tsx:38`), the admin's only that of the selected auction
(`AdminApp.tsx:53`).

**Abstractions.** One auction: nothing in the code relates two. Time is in ticks and
`clock` is the one clock of the server; a handler's `now` is any earlier tick,
since it is read before the call. A bid call does nothing but validate before the
store's script, so call and script are one step. `CancelAuctionBy` reads the record
a second time only to answer its caller. `RedisStore.Cancel` reads the snapshot again
after its script (`redis_store.go:160`); the model takes both as one step, since only
a second `InitAuction` or the key's expiry changes a cancelled snapshot. `syncAuctionFromSnapshot` reads the record
and overwrites every field modelled, so its read is no step. The Redis ranking is
read back by `fillRanking` in several reads after the script; it changes no state and
is left out. Money is unbounded here: `int64` overflow, and the 2^53 to which a Lua
number is exact, are not modelled. A restart finds the same store: the case that Redis is down at the
restart and `main.go` falls back to an empty MemoryStore is left out. Wording, ids, products and users' names are
abstracted to model values.

In `EventStream` there is one room, and a connection joins once: another one is a client of
its own. Events carry no type, and neither the source's id nor the auction's is ever
empty, which `shouldForwardRedisEvent` asks too. When `CancelAuctionBy`'s store call
fails it announces the repository's record: a `Repeat`, of version 0 when the store
never held that record. In `FileRepository`, ids that
`CreateAuction` and `SaveBid` are called with are new, a bid's key is its auction,
users are written by the boot only, and reads are left out as they change nothing. A crash is the process's: power loss
between write and disk (the code calls no `Sync`) and a leftover temporary file,
which nothing reads, are not modelled. In `RoomPage` a snapshot is its auction and
version; the list of auctions, the bid amount, wording and the creation form are
left out, and logging out ends the page. The bidder's `getResult` after a sale only
fills a message. What a socket brings is read and put on the wire in one step; the
older snapshot that `Feed` allows when the server could not read the store is left out,
so `EffectOnlyForward` and `RoomDelivers` are claimed for a server whose reads succeed.

A *slip* is an operator next to the one it varies, a plausible error in that piece of
code (`AcceptableClosed` forgets the status, `NeedsOrderIfLed` settles whoever
leads, ...). No specification uses one; `PROJECT.json` lists, for every property, the
slip that TLC shows to break it.

## 3. Runs

The runs of the store and the service use one auction with start price 1 and increment 2. `MaxClock` bounds time,
`LastStart` the tick of the latest start, `MaxFailures` the failing calls and restarts
together, and `Failures` says which of the two happen in the run. `RankScale` is 2 in place of 10^9: the smaller the factor
the easier a score is put out of order (at 1, with increment 1, users tie), and the proof
covers every factor from 2. Deadlock is not checked because the system rests when
all calls are answered and time has reached its bound; so does a page that is up to
date, and a process whose file is half written does not boot again. Symmetry is used
in safety runs only.

| run | instance | shows |
|---|---|---|
| `store` | 2 users, 4 requests, amounts 1, 3, 4, 5, 7, 9, ceiling 9, 6 ticks, both stores, keys expire after 4 ticks | the six store properties; bids below, off the grid, plain, extending and ceiling, before and after closing, with every stale `now` |
| `service_bids` | 1 start, 2 bid calls over 2 requests, 3 timers, both stores | `OrderMatchesSale`, `RepoNeverAhead`, `AuditedOnce`, `BidInHand`, `EndedNewsHasOrder` through every interleaving, two bids being what it takes for stale syncs, a repeat, an extension and a ceiling bid |
| `service_cancel` | 1 start, 1 cancellation, 1 bid, one failed call or one restart, the snapshot may expire at tick 2, both stores | order, repository and ended event with cancellation, failure, restart and expiry under running handlers, and `MeetsContract`; `SaleInHand`, `ClosingInHand`, `DeadlineInHand`: what liveness rests on, until the first failure |
| `service_liveness` | 1 start, 1 cancellation, 1 bid, Redis | `SaleSettled`, `ClosingAnnounced`, `ClosesUnlessTimerStopped` |
| `event_stream` | 2 instances with a call each, one page, a channel of 1, every failure | `NoSendOnClosed`, `NoMissedNews`, `FollowsFeed`, `RoomConverges`, `StreamsEnd` |
| `files` | 1 key, 2 values, every operation the server calls, failing steps, crashes at any step, renaming allowed or refused | `FilesCurrent`, `DemoUsersReady`, `NothingLost`, `TradesKept`, `KeepsContract` |
| `room_page` | 2 auctions selected one after the other, 2 versions each, 1 message in flight, 2 faults, 1 call, a bidder's or an admin's page | `NeverCutOff`, `LeftRoomsWindDown`, `EffectOnlyForward`, `RoomDelivers` |
| `stale_sync`, `lost_timer`, `cancel_race`, `double_start`, `api_local` | the least instance for each | what a document says and the code does not do, see Findings |

Two ticks suffice in the service runs: the duration and the extension are one tick each,
so tick 1 is the first deadline and tick 2 the extended one. The snapshot expires in
`store` and `service_cancel`; in the other runs it is out of reach (`StateTTL` 9),
since a liveness property is not to be met by the auction's disappearance.

In `event_stream` the page's own instance has a call and the other one has one, so the page hears
of a change by both ways and in either order, and a channel of one event is full at
once. The page is a socket or a stream, and the store may change between the read for it
and the write to it. In `files` one key is enough, since
operations on different keys of a table meet only in being saved together; a boot
that ends among several demo users is what the proof adds. In `room_page` the second
selection makes the first effect an old one in any of its stages; two faults let a
reconnection fail as well.

**Fairness** (`AuctionService`). A goroutine that can run does run, a timer that is due
fires, and time passes: `WF` of all `Continue` steps together, and of `Time`. One
weak fairness over all threads is enough because each thread takes a bounded number
of steps (`ThreadsAlwaysAdvance` proves it) and never waits for another one. Nobody is obliged to call a handler, no
call is obliged to succeed (`FairSpec`); `CalmSpec` leaves failures and restarts out,
and the liveness properties are claimed under it, since with a failure they are
false (see the limits under Findings).

In `EventStream`, goroutines that can go on do, one weak fairness for all of them: each
call broadcasts once, each event is offered to each channel at most once, and a cancel
function waits for the hub's lock only while such offers last. Nobody must call, join
or leave. In `RoomPage`, each effect's request is answered or fails, its timer fires
and its socket, unless it is lost, brings what its server was told of and it has not
brought (`News`), which is `NoMissedNews` and `RoomConverges` of `EventStream`. No
version need ever be announced: a failed handler or `Publish`, and `api-local`, leave
versions that no page is told of, and `RoomDelivers` says nothing of these. Faults are
bounded. A call that was sent is answered. Nobody must select or bid.

## 4. Proofs

`BidStoreProofs` proves every store property of run `store` for all rules, users,
requests, amounts, lifetimes and both stores. It assumes what the module's `ASSUME`s
say: the rules pass `Rules.Validate`, `NoUser` is no user, amounts are naturals, and
the ranking's factor is at least 2. The argument:

- `StoreInv` is the inductive invariant. The checked properties are not enough by
  themselves: `RankingFollowsAmounts` needs `RankingSpaced`, that amounts lie at least
  as far apart as their sequence numbers (every bid raises the price by at least one
  and the counter by exactly one), and the opening needs `Lifecycle`, that
  nothing is ranked or remembered before the first `InitAuction`.
- One lemma per operation (`AcceptBidKeeps`, `FinishExpiredKeeps`, ...) says that it
  keeps `StoreInv`; `StoreInvariant` puts them together.
- `StoreMeetsContract` is the refinement: under `StoreInv` each operation is a step
  of `AuctionContract` or leaves its variables alone (`...Simulates`).

The service is proved in two modules, for any number of bids, cancellations, failed
calls and restarts, on either store. Both assume that the kinds of threads are distinct
and that "no order" is not an order.

`ServiceCoreProofs` holds for any number of starts. Its argument:

- `CoreInv` is the inductive invariant: the types, which steps a thread of each kind
  can be at (`RouteInv`), that a record saying SOLD names a winner, in the store and
  in every copy (`WinnersInv`, without which an order need not have a buyer), that who
  settles carries a sale and who carries one past settling has left an order
  (`ThreadsInv`), and `EndedNewsHasOrder`.
- `StepCases` and `OwnStep` split a step by whose it is; every part of the invariant
  has its lemma, and the store's own steps are discharged by the lemmas of
  `BidStoreProofs`.
- `SaleInHand`, `ClosingInHand` and `DeadlineInHand` are inductive over `CoreInv`
  (`InHandInvariant`). They say of every moment before the first failure who is going to
  settle the sale, announce the closing and close the running auction. A step that
  opens, extends or closes makes the acting thread the one; later steps of that thread
  either carry it on or do what was promised; steps of others leave its `held` alone.
- `ThreadsAdvance` gives every label a rank that falls with each step of its thread.
- Together they give `NothingEverForgotten`: when all threads have finished and nothing
  failed, the sale has its order, the closing was announced, and a running auction has
  an armed timer or lost it to another registration. This is what
  `SaleSettled`, `ClosingAnnounced` and `ClosesUnlessTimerStopped` say, but for
  the step from "every thread goes on" to "every thread finishes", which is fairness.

`AuctionServiceProofs` adds what needs a single start: `OrderMatchesSale`,
`RepoNeverAhead`, `AuditedOnce`, `BidInHand` and the refinement of `AuctionContract`. Every theorem
there has the premise `StartedOnce` (at most one call of `StartAuctionBy` per auction),
because with two starts the order, the repository and the contract go wrong
(`double_start`). The argument:

- `ServiceInv` is `CoreInv`, the store's invariant and four parts more. Its core is
  `CopiesInv`: every copy of the
  auction outside the store, in the repository, in a thread's hands, or in an answer
  kept for a repeat, is `Good`: the store has reached its price and deadline, and
  if it says SOLD or ENDED it is the store's snapshot. `RepoNeverAhead` is not
  inductive without it, since a sync makes any thread's copy the repository's.
  Before `InitAuction` there is no store to compare with; `BeforeOpening` and
  `StarterInv` say what the starting thread is about to bring.
- `OrderMatchesSale` follows with `OrderInv`: who settles carries a sale, and a good
  copy that says SOLD is the store's snapshot.
- `AuditInv`: a call that won its bid did so at or below the present price, so the
  same request cannot win again even after Redis forgot it. `BidInHand` is inductive
  on top: an answer is remembered only by the step that makes its call a winner
  (`RemembersAccepted`), and a winner stays one until it is audited (`WonStays`).

`EventStreamProofs` proves the safety properties of `event_stream` for any number of
instances, calls and connections, any capacity of at least one and all failures.
`NoMissedNews` has the premise `OwnIds`, that instances have ids of their own, since it is
false without it (`api_local`). The argument:

- `NoSendOnClosed` is inductive with the types: a subscriber enters a broadcast's
  `todo` only while it is in the room, and leaves the room only while no `todo` of its
  hub has anybody left.
- `NoMissedNews` is inductive too. Each version is followed from the call that made
  it through `todo`, `inbox` and the forwarder's `todo` to the channel (`Carries`,
  `Holds`, `Forwards`); it leaves this path only into `silent`, or by an offer, after
  which the channel is not empty, whether it had room or not (`OfferKeepsNews`); a
  successful read leaves nothing to be told.
- `StreamFollowsFeed` needs `ReadSince`: what a handler has read and not yet written is
  no older than what the store had when the page was last sent something, since one
  handler reads and writes in turns; and `NoneAhead`: no copy of a version is ahead of
  the store.
- `AlwaysRestsUpToDate` and `AlwaysRestsAtNewest` are what is left of `RoomConverges`
  without fairness: when no call is under way and no event is on its way, a waiting
  page lacks only versions nobody was told of, and none when nothing can fail.

`FileRepositoryProofs` proves all of run `files` for any keys, values, demo users and
failures. `IInv` adds to the checked properties that a running call would still change
memory, and belongs to the boot while that runs (`JobIsLive`), how far its file is
(`JobAndFile`), that where renaming works files differ from memory only between rename
and answer (`FilesExact`), that what a running call would write is among the unconfirmed
changes (`Unconfirmed`), and which demo users a boot has written (`SeededSoFar`).
`ContractIsKept` maps `Begin` to `Ask`, `Rename` to `Store`, `Succeed` to `Confirm`,
`Fail` to `Refuse`, `Crash` to `Restart`, and the rest to stuttering.

`RoomPageProofs` proves the safety properties of `room_page` for any number of
auctions, selections, changes, messages and faults. `EffectOnlyForward` needs
`Ordered`: what an effect has read or its socket still brings lies between what it has
put on the page and the store, in order. `NeverCutOff` and `LeftRoomsWindDown` need
`OneTimer`: a timer that is set is the current effect's and the one the shared ref
holds, so that a cleanup clears that one and no other. `SelectedRoomKeepsUp` is what is
left of `RoomDelivers` without fairness, on what the effect has put on the page; it needs
`KeepsUp`, that the last message of a socket is either still to come or what its effect
has put on the page. That no answer to a call and no older effect has since put something
else there is not part of it.

The liveness properties (`SaleSettled`, `ClosingAnnounced`, `ClosesUnlessTimerStopped`,
`RoomConverges`, `StreamsEnd`, `RoomDelivers`) are only model-checked, as the provers
do not reason about fairness and `ENABLED`. For all but `StreamsEnd` the proofs cover the
safety half: in a state where nobody has anything left to do, what was promised has
been done. That such a state is reached, or that the promise is kept although new
work keeps coming, stays with TLC.

## 5. Findings

Five places where a document and the code differ; each is a run whose counterexample
is a trace of the code's own steps.

1. `stale_sync`: final states are left. A bid that read a RUNNING snapshot and is slow
   to sync overwrites the repository's SOLD (`internal/service/auction.go:224`).
2. `lost_timer`: a running auction may never end. `scheduleFinish` arms its timer
   before it takes `timerMu`; when the start and an extending bid take it in the
   opposite order of their deadlines, the later timer is stopped, and the earlier one
   finds the auction not yet expired (`auction.go:280-290`).
3. `cancel_race`: a record CANCELLED and an order side by side. `CancelAuctionBy` reads
   the record and writes it back (`auction.go:103` and `110`): a ceiling bid that sells and
   syncs SOLD between the two is overwritten, and the store's refusal to cancel is
   ignored (113). A sale between 110 and 113 writes SOLD over CANCELLED and does no harm.
4. `double_start`: two starts both pass the DRAFT check, and the second takes an open
   auction's price and leader away (`auction.go:76-89`).
5. `api_local`: pages on another instance are not told. `main.go:51` gives every
   instance the source id `api-local`, so each takes the others' events for its own
   and drops them (`redis_bus.go:89-91`).

For this reason `OrderMatchesSale`, `RepoNeverAhead` and `MeetsContract` of the service
are stated for an auction that is started by one call, and `NoMissedNews` is proved
for instances with ids of their own.

Further limits met while modelling. They have no run of their own; each is visible as
an exception that a property has to make:

- A restart leaves a sale without its order and a running auction without its timer;
  the compensation task of `openspec/changes/realtime-auction-core/design.md:72` does
  not exist (`cmd/api/main.go:49`). `SaleSettled` is claimed under `CalmSpec`.
- Where renaming over a file is refused, a crash after `WriteFile` emptied the file
  loses the table without a message, because `load` takes an empty file for an empty
  table (`file.go:321`); a crash a little later leaves a half written file, with which
  the server does not start. `NothingLost` is claimed where renaming works.
- When `SaveBid` fails after the store accepted the bid (`auction.go:146`), the repeated
  request is answered from the remembered reply and the audit entry is missing for
  good, although `realtime-bidding/spec.md:19` wants one for every accepted bid.
  `BidInHand` speaks of the time before the first failure.
- A cancellation between `UpdateAuction` and `InitAuction` of a start leaves an auction
  that runs with a record CANCELLED, and an `InitAuction` that fails a record RUNNING
  without an auction (`auction.go:87`). The model has both; no property forbids them.
- Pages that read the store, by the socket's first message, an event or a GET, see SOLD
  before the order is stored, and for good when settling fails (`server.go:164-175`,
  `286`, `303-317`). `EndedNewsHasOrder` is about the event that ends the auction.
- `README.md:21` says that pages reconnect after a lost WebSocket; the admin's does not
  (`AdminApp.tsx:75`). `RoomDelivers` excepts it.
- A WebSocket whose page has left keeps its subscription until a write fails
  (`server.go:293`). `StreamsEnd` is claimed for streams.
- The page compares neither auction nor version. The answer to a bid that arrives after
  newer socket events takes the page back (`MobileApp.tsx:121`), and an effect of the
  room before, still awaiting its read when the user switched, puts that room's
  snapshot on the page and follows it with a socket nobody closes and that keeps writing
  (`MobileApp.tsx:60-66`), while `realtime-bidding/spec.md:41` wants rooms not to
  disturb each other. `EffectOnlyForward` speaks of one effect at a time.
- A handler that fails between the store and its broadcast, or a failed `Publish`,
  leaves the room untold until the next change (`auction.go:150` and `213`).
  `NoMissedNews` excepts these versions (`silent`).

## 6. Not modelled, and what could follow

- `Auction.Finish` and `MemoryRepository`: used by tests only.
- `Login`, `Require` and the tokens (`auth.go:94-190`): sequential code that reads a
  user and computes; a token is never revoked and no state changes, so there is
  nothing for two steps to disagree about.
- Decoding, routing, error texts and token checks per route (`server.go`), configuration,
  `docker-compose.yml`: plain I/O.
- Queries of the service and `RoomSize`: they change nothing. The order of the
  leaderboard is the ranking in `BidStore`; its reading in several round trips
  (`fillRanking`) is not modelled.
- The admin's list and creation form, the bidder's message texts and countdown.

What could follow: the handlers of `AuctionService` as the calls of `EventStream` in
one module, so that announced types and statuses reach the page; the page over
`EventStream` in place of `Feed`'s promise; and several auctions in one repository
file, which share their save.
