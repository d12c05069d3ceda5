--------------------------- MODULE AuctionService ---------------------------
(***************************************************************************)
(* internal/service: the handlers of one auction over the store (BidStore) *)
(* and the file repository.  A handler is a thread; between two calls that *)
(* lock something (the repository's mutex, a Redis round trip, timerMu)    *)
(* every other thread may run, so each such call is a step of its own.     *)
(* FinishExpired runs on the goroutine of a time.Timer, so a timer is a    *)
(* thread too: Timer(s) is the one that thread s schedules.                *)
(***************************************************************************)
EXTENDS BidStore

CONSTANTS
  Starters,     \* calls of StartAuctionBy
  Cancellers,   \* calls of CancelAuctionBy
  Bids,         \* calls of PlaceBid
  NoTimer,      \* nothing in s.timers
  NoOrder,      \* no order stored
  NoCommand,    \* a bid call that got nothing accepted
  LastStart,    \* bound of a run: no auction is started later
  Failures,     \* the failures of a run: a subset of {"call", "restart"}
  MaxFailures   \* bound of a run: failed calls and restarts together

Schedulers == Starters \cup Bids
Timer(s) == <<"timer", s>>
Timers == {Timer(s) : s \in Schedulers}
Threads == Starters \cup Cancellers \cup Bids \cup Timers

ASSUME ThreadsAssumption ==
  /\ Starters \cap Cancellers = {}
  /\ Starters \cap Bids = {}
  /\ Cancellers \cap Bids = {}
  /\ Timers \cap (Starters \cup Cancellers \cup Bids) = {}
  /\ NoTimer \notin Timers
  /\ MaxFailures \in Nat
  /\ LastStart \in Nat

VARIABLES
  auction,     \* the repository's record
  audit,       \* the bid calls whose bid SaveBid stored
  order,       \* the repository's order of this auction
  events,      \* what has been broadcast: type and status of the snapshot
  pc,          \* per thread its next step
  held,        \* per thread the snapshot (and Extended) it carries
  command,     \* per bid call the bid it got accepted, or repeated
  due,         \* per timer the deadline it was armed for
  registered,  \* s.timers[id]
  failures     \* failed calls and restarts so far

repoVars == <<auction, audit, order>>
timerVars == <<due, registered>>
vars == <<storeVars, repoVars, events, pc, held, command, timerVars, failures>>

Command == [user : Users, request : Requests, amount : Amounts]

Order == [buyer : Users, price : Nat]

Event == [type : {"snapshot", "accepted", "extended", "ended", "cancelled"},
          status : Status]

Label == {"idle", "update", "init", "schedule", "register", "read", "reread",
          "save", "sync", "settle", "cancel", "stop", "broadcast",
          "armed", "stopped", "finish", "clear", "done"}

ASSUME AbsencesAssumption == NoOrder \notin Order /\ NoCommand \notin Command

NothingHeld == [extended |-> FALSE, snapshot |-> NewAuction]

ServiceTypeOK ==
  /\ StoreTypeOK
  /\ auction \in Auction
  /\ audit \subseteq Bids
  /\ order \in Order \cup {NoOrder}
  /\ events \subseteq Event
  /\ pc \in [Threads -> Label]
  /\ held \in [Threads -> Reply]
  /\ command \in [Bids -> Command \cup {NoCommand}]
  /\ due \in [Timers -> Nat]
  /\ registered \in Timers \cup {NoTimer}
  /\ failures \in 0..MaxFailures

Init ==
  /\ StoreInit
  /\ auction = NewAuction
  /\ audit = {}
  /\ order = NoOrder
  /\ events = {}
  /\ pc = [t \in Threads |-> "idle"]
  /\ held = [t \in Threads |-> NothingHeld]
  /\ command = [b \in Bids |-> NoCommand]
  /\ due = [t \in Timers |-> 0]
  /\ registered = NoTimer
  /\ failures = 0

(* Thread t goes from one step to the next.                                *)
Goto(t, from, to) ==
  /\ pc[t] = from
  /\ pc' = [pc EXCEPT ![t] = to]

Hold(t, s) == held' = [held EXCEPT ![t].snapshot = s]

-----------------------------------------------------------------------------
(* StartAuctionBy *)

StartRead(t) ==
  /\ pc[t] = "idle"
  /\ clock <= LastStart
  /\ IF CanStart(auction)
       THEN /\ Goto(t, "idle", "update")
            /\ \E now \in 0..clock : Hold(t, Started(auction, now))
       ELSE /\ Goto(t, "idle", "done")
            /\ UNCHANGED held
  /\ UNCHANGED <<storeVars, repoVars, events, command, timerVars, failures>>

StartUpdate(t) ==
  /\ Goto(t, "update", "init")
  /\ auction' = held[t].snapshot
  /\ UNCHANGED <<storeVars, audit, order, events, held, command, timerVars, failures>>

StartInit(t) ==
  /\ Goto(t, "init", "schedule")
  /\ InitAuction(held[t].snapshot)
  /\ UNCHANGED <<repoVars, events, held, command, timerVars, failures>>

-----------------------------------------------------------------------------
(* CancelAuctionBy *)

CancelRead(t) ==
  /\ IF CanCancel(auction.status)
       THEN /\ Goto(t, "idle", "update")
            /\ Hold(t, Cancelled(auction))
       ELSE /\ Goto(t, "idle", "done")
            /\ UNCHANGED held
  /\ UNCHANGED <<storeVars, repoVars, events, command, timerVars, failures>>

(* Writes back the whole record it read, over whatever was synced since.   *)
CancelUpdate(t) ==
  /\ Goto(t, "update", "cancel")
  /\ auction' = held[t].snapshot
  /\ UNCHANGED <<storeVars, audit, order, events, held, command, timerVars, failures>>

(* An error of the store is ignored.  Either way what is announced next is *)
(* a CANCELLED snapshot.  RedisStore reads it again after the script       *)
(* (redis_store.go:160); that read is part of this step, as in between     *)
(* the auction can only expire, and then the record read before is         *)
(* announced as CANCELLED too.  (A second start that runs late could put   *)
(* RUNNING in between; what it would then announce is not modelled.)       *)
CancelStore(t) ==
  /\ Goto(t, "cancel", "stop")
  /\ IF CanCancel(snapshot.status)
       THEN Cancel
       ELSE UNCHANGED storeVars
  /\ UNCHANGED <<repoVars, events, held, command, timerVars, failures>>

-----------------------------------------------------------------------------
(* PlaceBid *)

(* A client that uses a request id again sends the same bid again: the web *)
(* client draws a fresh id for every submission.                           *)
SameBid(c) ==
  \A b \in Bids :
    command[b] # NoCommand /\ command[b].request = c.request => command[b] = c

(* A call has no effect before the store's script, so both are one step,   *)
(* for a `now' the handler read at any time before it.                     *)
(* MemoryStore answers with the snapshot it made under its lock; RedisStore *)
(* reads the snapshot again after the script.                              *)
BidAccepted(b, c) ==
  /\ \E now \in 0..clock : AcceptBid(c.user, c.request, c.amount, now)
  /\ held' = [held EXCEPT ![b] = requests'[c.request]]
  /\ command' = [command EXCEPT ![b] = c]
  /\ Goto(b, "idle", IF backend = "redis" THEN "read" ELSE "save")
  /\ UNCHANGED <<repoVars, events, timerVars, failures>>

(* Slip: the audit does not ask whether the request is a repeated one.     *)
BidRepeatedAudited(b, c) ==
  /\ requests[c.request] # NoReply
  /\ held' = [held EXCEPT ![b] = requests[c.request]]
  /\ command' = [command EXCEPT ![b] = c]
  /\ Goto(b, "idle", IF backend = "redis" THEN "read" ELSE "save")
  /\ UNCHANGED <<storeVars, repoVars, events, timerVars, failures>>

BidRepeated(b, c) ==
  /\ requests[c.request] # NoReply
  /\ held' = [held EXCEPT ![b] = requests[c.request]]
  /\ command' = [command EXCEPT ![b] = c]
  /\ Goto(b, "idle", IF backend = "redis" THEN "reread" ELSE "sync")
  /\ UNCHANGED <<storeVars, repoVars, events, timerVars, failures>>

BidRejected(b, c) ==
  /\ requests[c.request] = NoReply
  /\ \E now \in 0..clock : ~Acceptable(c.amount, now)
  /\ Goto(b, "idle", "done")
  /\ UNCHANGED <<storeVars, repoVars, events, held, command, timerVars, failures>>

BidCall(b) ==
  \E c \in Command :
    /\ SameBid(c)
    /\ BidAccepted(b, c) \/ BidRepeated(b, c) \/ BidRejected(b, c)

(* Slip: only a bid that finds the auction open still is audited.          *)
BidSaveOpen(b) ==
  /\ Goto(b, "save", "sync")
  /\ audit' = IF held[b].snapshot.status = "RUNNING" THEN audit \cup {b} ELSE audit
  /\ UNCHANGED <<storeVars, auction, order, events, held, command, timerVars, failures>>

BidSave(b) ==
  /\ Goto(b, "save", "sync")
  /\ audit' = audit \cup {b}
  /\ UNCHANGED <<storeVars, auction, order, events, held, command, timerVars, failures>>

-----------------------------------------------------------------------------
(* The timer's FinishExpired *)

TimerFires(t) ==
  /\ clock >= due[t]
  /\ Goto(t, "armed", "finish")
  /\ UNCHANGED <<storeVars, repoVars, events, held, command, timerVars, failures>>

(* `now' was read when the timer fired.                                    *)
TimerFinish(t) ==
  \E now \in due[t]..clock :
    /\ IF CanFinish(now)
         THEN /\ FinishExpired(now)
              /\ Hold(t, snapshot')
              /\ Goto(t, "finish", IF backend = "redis" THEN "read" ELSE "sync")
         ELSE /\ Goto(t, "finish", "clear")
              /\ UNCHANGED <<storeVars, held>>
    /\ UNCHANGED <<repoVars, events, command, timerVars, failures>>

(* The closure reads the variable `timer', which scheduleFinish assigns    *)
(* after arming it and without a lock: it may read nil, and then deletes   *)
(* nothing.                                                                *)
TimerClear(t) ==
  /\ Goto(t, "clear", "done")
  /\ \/ registered' = IF registered = t THEN NoTimer ELSE registered
     \/ registered' = registered
  /\ due' = [due EXCEPT ![t] = 0]
  /\ UNCHANGED <<storeVars, repoVars, events, held, command, failures>>

-----------------------------------------------------------------------------
(* Steps of several handlers *)

(* Where a handler ends: a timer still takes itself out of the registry.   *)
(* What the handler held is gone then.                                     *)
Exit(t) == IF t \in Timers THEN "clear" ELSE "done"

Drop(t) == held' = [held EXCEPT ![t] = NothingHeld]

(* RedisStore's read after a script.  The key may have expired.            *)
ReadBack(t) ==
  /\ IF Present
       THEN /\ \/ Goto(t, "read", IF t \in Bids THEN "save" ELSE "sync")
               \/ Goto(t, "reread", "sync")
            /\ Hold(t, snapshot)
       ELSE /\ \/ Goto(t, "read", Exit(t))
               \/ Goto(t, "reread", Exit(t))
            /\ Drop(t)
  /\ UNCHANGED <<storeVars, repoVars, events, command, timerVars, failures>>

(* Slips: an order for whoever leads, for every closed auction, for none.  *)
NeedsOrderIfLed(t) == held[t].snapshot.leader # NoUser
NeedsOrderClosed(t) == held[t].snapshot.status \in {"SOLD", "ENDED"}
NeedsOrderNever(t) == held[t].snapshot.status = "SETTLED"

NeedsOrder(t) == held[t].snapshot.status = "SOLD"

AfterSync(t) ==
  IF NeedsOrder(t)         THEN "settle"
  ELSE IF t \in Timers     THEN "stop"
  ELSE IF held[t].extended THEN "schedule"
  ELSE "broadcast"

(* syncAuctionFromSnapshot reads the record and overwrites every field     *)
(* modelled here, so its read is not a step.                               *)
SyncAuction(t) ==
  /\ Goto(t, "sync", AfterSync(t))
  /\ auction' = held[t].snapshot
  /\ UNCHANGED <<storeVars, audit, order, events, held, command, timerVars, failures>>

(* UpsertOrder keeps the first order.                                      *)
Settle(t) ==
  /\ Goto(t, "settle", "stop")
  /\ order' = IF order = NoOrder
                THEN [buyer |-> held[t].snapshot.leader,
                      price |-> held[t].snapshot.price]
                ELSE order
  /\ UNCHANGED <<storeVars, auction, audit, events, held, command, timerVars, failures>>

(* scheduleFinish: time.AfterFunc arms the timer before timerMu is taken.  *)
Schedule(s) ==
  /\ pc[s] = "schedule"
  /\ pc' = [pc EXCEPT ![s] = "register", ![Timer(s)] = "armed"]
  /\ due' = [due EXCEPT ![Timer(s)] = held[s].snapshot.endsAt]
  /\ UNCHANGED <<storeVars, repoVars, events, held, command, registered, failures>>

(* Timer.Stop keeps an armed timer from firing, and does nothing to one    *)
(* that fired.                                                             *)
StoppedPC(t) == IF t # NoTimer /\ pc[t] = "armed" THEN "stopped" ELSE pc[t]

Register(s) ==
  /\ pc[s] = "register"
  /\ pc' = [t \in Threads |-> IF t = s THEN "broadcast"
                              ELSE IF t = registered THEN StoppedPC(t) ELSE pc[t]]
  /\ registered' = Timer(s)
  /\ UNCHANGED <<storeVars, repoVars, events, held, command, due, failures>>

StopFinishTimer(t) ==
  /\ pc[t] = "stop"
  /\ pc' = [u \in Threads |-> IF u = t THEN "broadcast"
                              ELSE IF u = registered THEN StoppedPC(u) ELSE pc[u]]
  /\ registered' = NoTimer
  /\ UNCHANGED <<storeVars, repoVars, events, held, command, due, failures>>

(* Slip: a ceiling bid is announced like any other.                        *)
EventTypePlain(t) ==
  CASE t \in Starters   -> "snapshot"
    [] t \in Cancellers -> "cancelled"
    [] t \in Timers     -> "ended"
    [] t \in Bids       -> IF held[t].extended THEN "extended" ELSE "accepted"

EventType(t) ==
  CASE t \in Starters   -> "snapshot"
    [] t \in Cancellers -> "cancelled"
    [] t \in Timers     -> "ended"
    [] t \in Bids       -> IF held[t].snapshot.status = "SOLD" THEN "ended"
                           ELSE IF held[t].extended THEN "extended" ELSE "accepted"

Broadcast(t) ==
  /\ Goto(t, "broadcast", Exit(t))
  /\ events' = events \cup {[type |-> EventType(t), status |-> held[t].snapshot.status]}
  /\ Drop(t)
  /\ UNCHANGED <<storeVars, repoVars, command, timerVars, failures>>

-----------------------------------------------------------------------------
(* Failures *)

RepoStep == {"update", "save", "sync", "settle"}
RedisStep == {"init", "read", "reread", "finish", "cancel"}

(* A store or repository call returns an error and the handler returns it, *)
(* except that CancelAuctionBy ignores the store's.  A bid whose script     *)
(* never ran left no trace, and is no step here.  A Redis call may have *)
(* been applied and only its answer lost: for a bid and a finish that is a *)
(* failing "read", for the start it is a failure at "schedule".            *)
CallFails(t) ==
  /\ "call" \in Failures
  /\ failures < MaxFailures
  /\ failures' = failures + 1
  /\ \/ pc[t] \in RepoStep
     \/ backend = "redis" /\ pc[t] \in RedisStep
     \/ backend = "redis" /\ t \in Starters /\ pc[t] = "schedule"
  /\ IF pc[t] = "cancel"
       THEN /\ Goto(t, "cancel", "stop")
            /\ UNCHANGED held
       ELSE /\ Goto(t, pc[t], Exit(t))
            /\ Drop(t)
  /\ UNCHANGED <<storeVars, repoVars, events, command, timerVars>>

(* The server stops and starts again: running handlers and timers are      *)
(* gone, and main.go schedules nothing for auctions that are RUNNING.      *)
(* Redis and the repository's files survive, a MemoryStore does not.       *)
Crash ==
  /\ "restart" \in Failures
  /\ failures < MaxFailures
  /\ failures' = failures + 1
  /\ pc' = [t \in Threads |-> IF pc[t] = "idle" THEN "idle" ELSE "done"]
  /\ held' = [t \in Threads |-> NothingHeld]
  /\ due' = [t \in Timers |-> 0]
  /\ registered' = NoTimer
  /\ IF backend = "redis"
       THEN UNCHANGED storeVars
       ELSE /\ snapshot' = Absent
            /\ amounts' = [u \in Users |-> -1]
            /\ rankSeq' = [u \in Users |-> 0]
            /\ seq' = 0
            /\ requests' = [r \in Requests |-> NoReply]
            /\ UNCHANGED <<backend, expireAt, clock>>
  /\ UNCHANGED <<repoVars, events, command>>

(* Redis and the clock on their own.                                       *)
Environment ==
  /\ (\E request \in Requests : ExpireRequest(request)) \/ ExpireSnapshot \/ Tick
  /\ UNCHANGED <<repoVars, events, pc, held, command, timerVars, failures>>

Time ==
  /\ Tick
  /\ UNCHANGED <<repoVars, events, pc, held, command, timerVars, failures>>

-----------------------------------------------------------------------------

(* The steps a handler takes once it was called.                           *)
Continue(t) ==
  \/ t \in Starters /\ (StartUpdate(t) \/ StartInit(t))
  \/ t \in Cancellers /\ (CancelUpdate(t) \/ CancelStore(t))
  \/ t \in Bids /\ BidSave(t)
  \/ t \in Timers /\ (TimerFires(t) \/ TimerFinish(t) \/ TimerClear(t))
  \/ ReadBack(t)
  \/ SyncAuction(t)
  \/ Settle(t)
  \/ t \in Schedulers /\ (Schedule(t) \/ Register(t))
  \/ StopFinishTimer(t)
  \/ Broadcast(t)

Call(t) ==
  \/ t \in Starters /\ StartRead(t)
  \/ t \in Cancellers /\ CancelRead(t)
  \/ t \in Bids /\ BidCall(t)

Handlers == \E t \in Threads : Call(t) \/ Continue(t)

Next ==
  \/ Handlers
  \/ \E t \in Threads : CallFails(t)
  \/ Crash
  \/ Environment

Spec == Init /\ [][Next]_vars

(* The goroutines that can go on do so, a pending timer fires once its     *)
(* time has come, and time passes.  Nobody is obliged to call a handler.   *)
(* A thread takes a bounded number of steps and is never disabled by       *)
(* another one, except a stopped timer, so fairness to all of them         *)
(* together lets each one finish.                                          *)
Fairness ==
  /\ WF_vars(\E t \in Threads : Continue(t))
  /\ WF_vars(Time)

FairSpec == Spec /\ Fairness

(* No call fails, the server is not restarted and no Redis key expires.    *)
CalmSpec == Init /\ [][Handlers \/ Time]_vars /\ Fairness

-----------------------------------------------------------------------------
(* Safety, for an auction that is started once *)

(* An order names the winner of the sale the store decided, at the price   *)
(* the store sold for, and there is none unless the store sold: whatever   *)
(* stale snapshot a handler settles from, whichever of the finish timer    *)
(* and a ceiling bid settles first, and through failed calls and restarts  *)
(* (auction.go:219-241, settlement.go:22-39, file.go:222-235).             *)
OrderMatchesSale ==
  order # NoOrder /\ Present =>
    /\ snapshot.status = "SOLD"
    /\ order = [buyer |-> snapshot.leader, price |-> snapshot.price]

(* The repository converges to the store from behind: it never holds a     *)
(* price or a deadline the store has not reached, and when it says SOLD or *)
(* ENDED it has the store's final record (auction.go:219-235).             *)
RepoNeverAhead ==
  Present =>
    /\ auction.price <= snapshot.price
    /\ auction.endsAt <= snapshot.endsAt
    /\ auction.status \in {"SOLD", "ENDED"} => auction = snapshot

(* A request's bid is in the audit trail once, however often it is sent    *)
(* again, also when Redis has already forgotten the first answer           *)
(* (auction.go:138-149, scripts.go:17-22 and 48-50).                       *)
AuditedOnce ==
  \A b, c \in audit :
    command[b].request = command[c].request => b = c

(* A bid the store accepted is in the audit trail, or the call that won it *)
(* is about to save it, although the store answers a repeated request like *)
(* the first and the handler must tell the two apart (auction.go:138-149). *)
(* After a failed call or a restart it may be missing: the client's retry  *)
(* is answered as a repeated request and saves nothing.                    *)
BidInHand ==
  failures = 0 /\ Present =>
    \A r \in Requests :
      requests[r] # NoReply =>
        \E b \in Bids :
          /\ command[b] # NoCommand /\ command[b].request = r
          /\ b \in audit \/ pc[b] \in {"read", "save"}

(* The event that ends a sold auction goes out only when the order exists  *)
(* (auction.go:150-167 and 177-182: it is broadcast after settling), so    *)
(* that whoever hears it finds the order.  It is about that event alone:   *)
(* pages that read the store (server.go:164-175, 286, 303-317) can see     *)
(* SOLD as soon as the script has run.                                     *)
EndedNewsHasOrder ==
  [type |-> "ended", status |-> "SOLD"] \in events => order # NoOrder

-----------------------------------------------------------------------------
(* Liveness, without failed calls and restarts *)

(* Every sale gets its order (auction.go:150, 177, 235-239).               *)
SaleSettled == snapshot.status = "SOLD" ~> order # NoOrder

(* The room hears that the auction closed, from the thread that closed it  *)
(* or a later one (auction.go:155-167, 182).                               *)
ClosingAnnounced ==
  snapshot.status \in {"SOLD", "ENDED"} ~>
    \E e \in events : e.type = "ended" /\ e.status = snapshot.status

(* The timer of the deadline now in force was stopped before it fired.     *)
FinalTimerStopped ==
  \E t \in Timers : pc[t] = "stopped" /\ due[t] = snapshot.endsAt

(* A running auction closes, unless another thread stopped the timer of    *)
(* its deadline: rescheduling the timer (auction.go:273-291) loses no      *)
(* deadline in any other way.                                              *)
ClosesUnlessTimerStopped ==
  snapshot.status = "RUNNING" ~> snapshot.status # "RUNNING" \/ FinalTimerStopped

-----------------------------------------------------------------------------
(* Safety that liveness rests on: while nothing failed, whatever the store *)
(* has made due is in the hands of a thread that will do it.               *)

(* Thread t has yet to settle the sale the store holds.                    *)
WillSettle(t) ==
  \/ pc[t] = "read"
  \/ pc[t] \in {"save", "sync", "settle"} /\ held[t].snapshot.status = "SOLD"

(* A sale without an order is on its way to one: no interleaving of the    *)
(* finish timer, a ceiling bid, a cancellation and repeated requests makes *)
(* the thread that closed the auction forget to settle, or settle another  *)
(* status than it closed with (auction.go:138-150, 171-177, 219-241).      *)
SaleInHand ==
  failures = 0 /\ snapshot.status = "SOLD" =>
    order # NoOrder \/ \E t \in Threads : WillSettle(t)

ClosingType == IF snapshot.status = "CANCELLED" THEN "cancelled" ELSE "ended"

(* Thread t has yet to announce the status the store closed with.          *)
WillAnnounce(t) ==
  \/ /\ pc[t] = "read"
     /\ \/ t \in Timers /\ snapshot.status # "CANCELLED"
        \/ t \in Bids /\ snapshot.status = "SOLD"
  \/ /\ pc[t] \in {"save", "sync", "settle", "stop", "broadcast"}
     /\ held[t].snapshot.status = snapshot.status
     /\ EventType(t) = ClosingType

(* The room has heard how the auction closed, with the type and the status *)
(* of the closing, or the thread that closed it has still to say so, also  *)
(* when others sync, settle and stop timers meanwhile (auction.go:116-120, *)
(* 150-167, 177-182).                                                      *)
ClosingInHand ==
  failures = 0 /\ snapshot.status \in Terminal =>
    \/ [type |-> ClosingType, status |-> snapshot.status] \in events
    \/ \E t \in Threads : WillAnnounce(t)

(* Thread s has set the timer of the deadline in force, which has not yet  *)
(* tried to close the auction, or will set it.                             *)
WillClose(s) ==
  \/ pc[Timer(s)] \in {"armed", "finish"} /\ due[Timer(s)] = snapshot.endsAt
  \/ pc[s] = "schedule" /\ held[s].snapshot.endsAt = snapshot.endsAt
  \/ /\ held[s].extended
     /\ \/ pc[s] = "read"
        \/ /\ pc[s] \in {"save", "sync"}
           /\ held[s].snapshot.status = "RUNNING"
           /\ held[s].snapshot.endsAt = snapshot.endsAt

(* The deadline in force always has a timer of its own, made or in the     *)
(* making, whichever snapshots the handlers read back, unless that timer   *)
(* was stopped: an extension never relies on the timer of an earlier       *)
(* deadline (auction.go:86, 156-163, 273-291).                             *)
DeadlineInHand ==
  failures = 0 /\ snapshot.status = "RUNNING" =>
    FinalTimerStopped \/ \E s \in Schedulers : WillClose(s)

-----------------------------------------------------------------------------
(* What the documents say, and the code does not do *)

(* SOLD, ENDED and CANCELLED are final: a closed auction's record keeps    *)
(* its status (syncAuctionFromSnapshot, auction.go:224, writes any).       *)
ClosedForGood ==
  [][auction.status \in Terminal => auction'.status = auction.status]_vars

(* Every running auction ends (the timers of auction.go:273-291).          *)
EventuallyCloses == snapshot.status = "RUNNING" ~> snapshot.status # "RUNNING"

(* A cancelled auction has no order.  CancelAuctionBy writes the record it *)
(* read before (auction.go:103, 110): a sale between the two is undone in  *)
(* the record, and keeps its order.                                        *)
CancelledHasNoOrder == ~(auction.status = "CANCELLED" /\ order # NoOrder)

(* The price of an open auction changes by a bid, that is upwards (two     *)
(* StartAuctionBy at once, auction.go:76-87).                              *)
OpenPriceOnlyRises ==
  [][snapshot.status = "RUNNING" /\ snapshot'.status = "RUNNING" =>
       snapshot'.price >= snapshot.price]_vars

=============================================================================
