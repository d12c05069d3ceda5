------------------------- MODULE ServiceCoreProofs -------------------------
(***************************************************************************)
(* What holds of the handlers, the finish timers and the settlement        *)
(* whoever starts the auction, also when two calls start it at once: each  *)
(* handler keeps to its steps and comes to an end, nobody hears of a sale  *)
(* before its order, and what the store has decided is in the hands of a   *)
(* thread that carries it out.  AuctionServiceProofs adds what needs a     *)
(* single start.                                                           *)
(***************************************************************************)
EXTENDS AuctionService, BidStoreProofs

-----------------------------------------------------------------------------
(* The inductive invariant *)

(* Each kind of handler has its own steps.                                 *)
StarterSteps == {"idle", "update", "init", "schedule", "register", "broadcast", "done"}
CancellerSteps == {"idle", "update", "cancel", "stop", "broadcast", "done"}
BidSteps == {"idle", "read", "reread", "save", "sync", "settle", "stop",
             "schedule", "register", "broadcast", "done"}
TimerSteps == {"idle", "armed", "stopped", "finish", "read", "sync", "settle",
               "stop", "broadcast", "clear", "done"}

(* A timer is armed once, by the thread it belongs to.                     *)
RouteInv ==
  /\ \A s \in Starters : pc[s] \in StarterSteps
  /\ \A c \in Cancellers : pc[c] \in CancellerSteps
  /\ \A b \in Bids : pc[b] \in BidSteps
  /\ \A t \in Timers : pc[t] \in TimerSteps
  /\ \A s \in Schedulers :
       pc[Timer(s)] # "idle" => pc[s] \in {"register", "broadcast", "done"}

(* A record that says SOLD names a winner, in the store and in every copy. *)
HasWinner(a) == a.status = "SOLD" => a.leader # NoUser

WinnersInv ==
  /\ snapshot.status # "DRAFT" /\ HasWinner(snapshot)
  /\ HasWinner(auction)
  /\ \A t \in Threads : HasWinner(held[t].snapshot)
  /\ \A r \in Requests : requests[r] # NoReply => HasWinner(requests[r].snapshot)

(* Where a thread that carries a sale has already settled it.              *)
PastSettling == {"update", "init", "cancel", "schedule", "register", "stop", "broadcast"}

(* What the handlers carry: a start a running auction, a cancellation a    *)
(* cancelled one, and whoever settles a sale.                              *)
ThreadsInv ==
  /\ \A s \in Starters : pc[s] \notin {"idle", "done"} =>
       held[s].snapshot.status = "RUNNING"
  /\ \A c \in Cancellers : pc[c] \notin {"idle", "done"} =>
       held[c].snapshot.status = "CANCELLED"
  /\ \A t \in Threads :
       /\ pc[t] = "settle" => held[t].snapshot.status = "SOLD"
       /\ pc[t] \in PastSettling /\ held[t].snapshot.status = "SOLD" => order # NoOrder

CoreInv ==
  /\ ServiceTypeOK
  /\ RouteInv
  /\ WinnersInv
  /\ ThreadsInv
  /\ EndedNewsHasOrder

-----------------------------------------------------------------------------
(* The steps *)

LEMMA StepCases ==
  ASSUME [Next]_vars
  PROVE  \/ \E t \in Starters : StartRead(t) \/ StartUpdate(t) \/ StartInit(t)
         \/ \E t \in Cancellers : CancelRead(t) \/ CancelUpdate(t) \/ CancelStore(t)
         \/ \E b \in Bids, c \in Command :
              SameBid(c) /\ (BidAccepted(b, c) \/ BidRepeated(b, c) \/ BidRejected(b, c))
         \/ \E b \in Bids : BidSave(b)
         \/ \E t \in Timers : TimerFires(t) \/ TimerFinish(t) \/ TimerClear(t)
         \/ \E t \in Threads : ReadBack(t) \/ SyncAuction(t) \/ Settle(t)
         \/ \E s \in Schedulers : Schedule(s) \/ Register(s)
         \/ \E t \in Threads : StopFinishTimer(t) \/ Broadcast(t) \/ CallFails(t)
         \/ Crash
         \/ Environment
         \/ UNCHANGED vars
  <1>1. CASE Next
    BY <1>1 DEF Next, Handlers, Call, Continue, BidCall
  <1> QED BY <1>1

LEMMA ThreadKinds ==
  /\ Starters \subseteq Threads /\ Cancellers \subseteq Threads
  /\ Bids \subseteq Threads /\ Timers \subseteq Threads
  /\ Schedulers = Starters \cup Bids
  /\ \A s \in Schedulers : Timer(s) \in Timers /\ Timer(s) # s
  /\ Starters \cap Timers = {} /\ Bids \cap Timers = {}
  /\ Starters \cap Bids = {} /\ Starters \cap Cancellers = {}
  /\ Cancellers \cap Bids = {} /\ Cancellers \cap Timers = {}
  BY ThreadsAssumption DEF Threads, Timers, Schedulers

-----------------------------------------------------------------------------
(* Types *)

(* What a bid that is accepted does to the store.                          *)
LEMMA AcceptedFields ==
  ASSUME StoreTypeOK, NEW b \in Bids, NEW c \in Command, BidAccepted(b, c)
  PROVE  \E now \in Nat :
           /\ AcceptBid(c.user, c.request, c.amount, now)
           /\ snapshot \in Auction /\ snapshot.status = "RUNNING"
           /\ snapshot' = AfterBid(c.user, c.amount, now)
           /\ snapshot' \in Auction
           /\ snapshot'.leader = c.user /\ c.user \in Users
           /\ snapshot'.status \in {"RUNNING", "SOLD"}
           /\ requests' = [requests EXCEPT ![c.request] =
                             [extended |-> Extends(c.amount, now), snapshot |-> snapshot']]
           /\ requests'[c.request] =
                [extended |-> Extends(c.amount, now), snapshot |-> snapshot']
           /\ requests'[c.request] \in Reply
  <1>1. PICK now \in 0..clock : AcceptBid(c.user, c.request, c.amount, now)
    BY DEF BidAccepted
  <1>2. now \in Nat /\ c.user \in Users /\ c.request \in Requests /\ c.amount \in Amounts
    BY DEF Command, StoreTypeOK
  <1>3. Acceptable(c.amount, now) /\ snapshot' = AfterBid(c.user, c.amount, now)
    BY <1>1 DEF AcceptBid
  <1>4. /\ AfterBid(c.user, c.amount, now) \in Auction
        /\ AfterBid(c.user, c.amount, now).leader = c.user
        /\ AfterBid(c.user, c.amount, now).status \in {"RUNNING", "SOLD"}
    BY <1>2, <1>3, AfterBidFields
  <1>5. snapshot \in Auction /\ snapshot.status = "RUNNING"
    BY <1>2, <1>3, AcceptableRaises
  <1>6. requests' = [requests EXCEPT ![c.request] =
                       [extended |-> Extends(c.amount, now), snapshot |-> snapshot']]
    BY <1>1, <1>3 DEF AcceptBid
  <1>7. requests'[c.request] =
          [extended |-> Extends(c.amount, now), snapshot |-> snapshot']
    BY <1>2, <1>6 DEF StoreTypeOK
  <1>8. requests'[c.request] \in Reply
    BY <1>3, <1>4, <1>7 DEF Reply, Extends
  <1> QED BY <1>1, <1>2, <1>3, <1>4, <1>5, <1>6, <1>7, <1>8

LEMMA StoreTypeKeeps ==
  ASSUME CoreInv, [Next]_vars
  PROVE  StoreTypeOK'
  <1>0. /\ StoreTypeOK /\ clock \in Nat
        /\ \A t \in Threads : held[t].snapshot \in Auction
    BY DEF CoreInv, ServiceTypeOK, StoreTypeOK, Reply
  <1>1. CASE UNCHANGED storeVars
    BY <1>0, <1>1 DEF storeVars, StoreTypeOK
  <1>2. CASE \E t \in Starters : StartInit(t)
    <2>1. PICK s \in Auction : InitAuction(s)
      BY <1>0, <1>2, ThreadKinds DEF StartInit
    <2> QED BY <1>0, <2>1, StoreAssumption DEF InitAuction, StoreTypeOK
  <1>3. CASE \E b \in Bids, c \in Command : BidAccepted(b, c)
    <2>1. PICK b \in Bids, c \in Command : BidAccepted(b, c)
      BY <1>3
    <2>2. PICK now \in Nat :
            /\ AcceptBid(c.user, c.request, c.amount, now)
            /\ snapshot' \in Auction
            /\ requests' = [requests EXCEPT ![c.request] =
                              [extended |-> Extends(c.amount, now), snapshot |-> snapshot']]
            /\ requests'[c.request] \in Reply
      BY <1>0, <2>1, AcceptedFields
    <2>3. c.user \in Users /\ c.request \in Requests /\ c.amount \in Nat
      BY StoreAssumption DEF Command
    <2>4. requests' \in [Requests -> Reply \cup {NoReply}]
      BY <1>0, <2>2, <2>3 DEF StoreTypeOK
    <2>5. amounts' \in [Users -> Nat \cup {-1}] /\ rankSeq' \in [Users -> Nat] /\ seq' \in Nat
      BY <1>0, <2>2, <2>3 DEF AcceptBid, StoreTypeOK
    <2>6. UNCHANGED <<backend, expireAt, clock>>
      BY <2>2 DEF AcceptBid
    <2> QED BY <1>0, <2>2, <2>4, <2>5, <2>6 DEF StoreTypeOK
  <1>4. CASE Cancel
    <2>1. snapshot \in Auction
      BY <1>0, <1>4 DEF StoreTypeOK, Cancel, CanCancel, Absent
    <2>2. snapshot' \in Auction
      BY <1>4, <2>1 DEF Cancel, Cancelled, Auction, Status
    <2> QED BY <1>0, <1>4, <2>2 DEF Cancel, StoreTypeOK
  <1>5. CASE \E now : FinishExpired(now)
    <2>1. PICK now : FinishExpired(now)
      BY <1>5
    <2>2. snapshot \in Auction
      BY <1>0, <2>1 DEF StoreTypeOK, FinishExpired, CanFinish, Absent
    <2>3. snapshot' \in Auction
      BY <2>1, <2>2 DEF FinishExpired, Auction, Status
    <2> QED BY <1>0, <2>1, <2>3 DEF FinishExpired, StoreTypeOK
  <1>6. CASE Environment
    BY <1>0, <1>6 DEF Environment, ExpireRequest, ExpireSnapshot, Tick, StoreTypeOK
  <1>7. CASE Crash
    <2>1. CASE backend = "redis"
      BY <1>1, <1>7, <2>1 DEF Crash
    <2>2. CASE backend # "redis"
      BY <1>0, <1>7, <2>2 DEF Crash, StoreTypeOK
    <2> QED BY <2>1, <2>2
  <1>8. ASSUME NEW t \in Timers, TimerFinish(t)
        PROVE  UNCHANGED storeVars \/ \E now : FinishExpired(now)
    BY <1>8 DEF TimerFinish
  <1> QED
    BY <1>1, <1>2, <1>3, <1>4, <1>5, <1>6, <1>7, <1>8, StepCases
    DEF StartRead, StartUpdate, CancelRead, CancelUpdate, CancelStore, BidRepeated,
        BidRejected, BidSave, TimerFires, TimerClear, ReadBack, SyncAuction, Settle,
        Schedule, Register, StopFinishTimer, Broadcast, CallFails, vars

LEMMA TypeKeeps ==
  ASSUME CoreInv, StoreTypeOK', [Next]_vars
  PROVE  ServiceTypeOK'
  <1>0. /\ StoreTypeOK' /\ StoreTypeOK
        /\ auction \in Auction /\ audit \subseteq Bids
        /\ order \in Order \cup {NoOrder} /\ events \subseteq Event
        /\ pc \in [Threads -> Label] /\ held \in [Threads -> Reply]
        /\ command \in [Bids -> Command \cup {NoCommand}]
        /\ due \in [Timers -> Nat] /\ registered \in Timers \cup {NoTimer}
        /\ failures \in 0..MaxFailures
    BY DEF CoreInv, ServiceTypeOK
  <1>1. \A t \in Threads : /\ held[t].snapshot \in Auction
                           /\ held[t].snapshot.status \in Status
                           /\ held[t].snapshot.endsAt \in Nat
    BY <1>0, AuctionIsPresent DEF Reply
  <1>2. ASSUME NEW t \in Threads, NEW s \in Auction, Hold(t, s)
        PROVE  held' \in [Threads -> Reply]
    BY <1>0, <1>2 DEF Hold, Reply
  <1>3. NewAuction \in Auction /\ NothingHeld \in Reply
    BY RulesAssumption DEF NewAuction, NothingHeld, Auction, Reply, Status, RulesValid
  <1>4. ASSUME NEW t \in Threads, Drop(t)
        PROVE  held' \in [Threads -> Reply]
    BY <1>0, <1>3, <1>4 DEF Drop
  <1>5. ASSUME NEW t \in Threads, NEW from, NEW to \in Label, Goto(t, from, to)
        PROVE  pc' \in [Threads -> Label]
    BY <1>0, <1>5 DEF Goto
  <1>6. \A t \in Threads : Exit(t) \in Label /\ AfterSync(t) \in Label
    BY DEF Exit, AfterSync, Label
  <1>7. \A t \in Threads : StoppedPC(t) \in Label
    BY <1>0 DEF StoppedPC, Label
  <1>8. clock \in Nat /\ backend \in Backends
    BY <1>0 DEF StoreTypeOK
  <1> DEFINE Rest == /\ auction' \in Auction /\ audit' \subseteq Bids
                     /\ order' \in Order \cup {NoOrder} /\ events' \subseteq Event
                     /\ pc' \in [Threads -> Label] /\ held' \in [Threads -> Reply]
                     /\ command' \in [Bids -> Command \cup {NoCommand}]
                     /\ due' \in [Timers -> Nat] /\ registered' \in Timers \cup {NoTimer}
                     /\ failures' \in 0..MaxFailures
  <1> SUFFICES Rest
    BY <1>0 DEF ServiceTypeOK
  <1>10. ASSUME NEW t \in Starters, StartRead(t)
         PROVE  Rest
    <2>1. CASE CanStart(auction)
      <3>1. ASSUME NEW now \in 0..clock
            PROVE  Started(auction, now) \in Auction
        <4>1. auction.leader \in Users \cup {NoUser} /\ StartPrice \in Nat /\ now + Duration \in Nat
          BY <1>0, <1>8, AuctionIsPresent, RulesAssumption DEF RulesValid
        <4> QED BY <4>1 DEF Started, Auction, Status
      <3>2. held' \in [Threads -> Reply]
        <4>1. PICK now \in 0..clock : Hold(t, Started(auction, now))
          BY <1>10, <2>1 DEF StartRead
        <4> QED BY <1>2, <3>1, <4>1, ThreadKinds
      <3>3. pc' \in [Threads -> Label]
        BY <1>0, <1>10, <2>1, ThreadKinds DEF StartRead, Goto, Label
      <3> QED BY <1>0, <1>10, <3>2, <3>3 DEF StartRead, repoVars, timerVars
    <2>2. CASE ~CanStart(auction)
      <3>1. pc' \in [Threads -> Label]
        BY <1>0, <1>10, <2>2, ThreadKinds DEF StartRead, Goto, Label
      <3> QED BY <1>0, <1>10, <2>2, <3>1 DEF StartRead, repoVars, timerVars
    <2> QED BY <2>1, <2>2
  <1>11. ASSUME NEW t \in Starters, StartUpdate(t) \/ StartInit(t)
         PROVE  Rest
    <2>1. pc' \in [Threads -> Label]
      BY <1>0, <1>11, ThreadKinds DEF StartUpdate, StartInit, Goto, Label
    <2>2. auction' \in Auction
      BY <1>0, <1>1, <1>11, ThreadKinds DEF StartUpdate, StartInit, repoVars
    <2> QED BY <1>0, <1>11, <2>1, <2>2
            DEF StartUpdate, StartInit, repoVars, timerVars
  <1>12. ASSUME NEW t \in Cancellers, CancelRead(t) \/ CancelUpdate(t) \/ CancelStore(t)
         PROVE  Rest
    <2>1. pc' \in [Threads -> Label]
      BY <1>0, <1>12, ThreadKinds DEF CancelRead, CancelUpdate, CancelStore, Goto, Label
    <2>2. auction' \in Auction
      BY <1>0, <1>1, <1>12, ThreadKinds
      DEF CancelRead, CancelUpdate, CancelStore, repoVars
    <2>3. Cancelled(auction) \in Auction
      BY <1>0 DEF Cancelled, Auction, Status
    <2>4. held' \in [Threads -> Reply]
      BY <1>0, <1>2, <1>12, <2>3, ThreadKinds DEF CancelRead, CancelUpdate, CancelStore
    <2> QED BY <1>0, <1>12, <2>1, <2>2, <2>4
            DEF CancelRead, CancelUpdate, CancelStore, repoVars, timerVars
  <1>13. ASSUME NEW b \in Bids, NEW c \in Command,
                BidAccepted(b, c) \/ BidRepeated(b, c) \/ BidRejected(b, c)
         PROVE  Rest
    <2>1. pc' \in [Threads -> Label]
      BY <1>0, <1>13, ThreadKinds DEF BidAccepted, BidRepeated, BidRejected, Goto, Label
    <2>2. c.request \in Requests
      BY DEF Command
    <2>3. BidAccepted(b, c) => requests'[c.request] \in Reply
      <3>1. ASSUME BidAccepted(b, c)
            PROVE  requests'[c.request] \in Reply
        <4>1. PICK now \in 0..clock : AcceptBid(c.user, c.request, c.amount, now)
          BY <3>1 DEF BidAccepted
        <4>2. now \in Nat /\ c.user \in Users /\ c.amount \in Amounts
          BY <1>8 DEF Command
        <4>3. AfterBid(c.user, c.amount, now) \in Auction
          BY <1>0, <4>1, <4>2, AfterBidFields DEF AcceptBid
        <4>4. requests'[c.request] = [extended |-> Extends(c.amount, now),
                                      snapshot |-> AfterBid(c.user, c.amount, now)]
          BY <1>0, <2>2, <4>1 DEF AcceptBid, StoreTypeOK
        <4> QED BY <4>3, <4>4 DEF Reply, Extends
      <3> QED BY <3>1
    <2>4. BidRepeated(b, c) => requests[c.request] \in Reply
      BY <1>0, <2>2 DEF BidRepeated, StoreTypeOK
    <2>5. held' \in [Threads -> Reply]
      BY <1>0, <1>13, <2>3, <2>4, ThreadKinds DEF BidAccepted, BidRepeated, BidRejected
    <2>6. command' \in [Bids -> Command \cup {NoCommand}]
      BY <1>0, <1>13 DEF BidAccepted, BidRepeated, BidRejected
    <2> QED BY <1>0, <1>13, <2>1, <2>5, <2>6
            DEF BidAccepted, BidRepeated, BidRejected, repoVars, timerVars
  <1>14. ASSUME NEW b \in Bids, BidSave(b)
         PROVE  Rest
    <2>1. pc' \in [Threads -> Label]
      BY <1>0, <1>14, ThreadKinds DEF BidSave, Goto, Label
    <2> QED BY <1>0, <1>14, <2>1 DEF BidSave, timerVars
  <1>15. ASSUME NEW t \in Timers, TimerFires(t) \/ TimerClear(t)
         PROVE  Rest
    <2>1. pc' \in [Threads -> Label]
      BY <1>0, <1>15, ThreadKinds DEF TimerFires, TimerClear, Goto, Label
    <2> QED BY <1>0, <1>15, <2>1
            DEF TimerFires, TimerClear, repoVars, timerVars
  <1>16. ASSUME NEW t \in Timers, TimerFinish(t)
         PROVE  Rest
    <2>1. PICK now \in due[t]..clock :
            /\ IF CanFinish(now)
                 THEN /\ FinishExpired(now)
                      /\ Hold(t, snapshot')
                      /\ Goto(t, "finish", IF backend = "redis" THEN "read" ELSE "sync")
                 ELSE Goto(t, "finish", "clear") /\ UNCHANGED held
            /\ UNCHANGED <<repoVars, events, command, timerVars, failures>>
      BY <1>16 DEF TimerFinish
    <2>2. pc' \in [Threads -> Label]
      BY <1>0, <2>1, ThreadKinds DEF Goto, Label
    <2>3. CanFinish(now) => snapshot' \in Auction
      <3>1. CanFinish(now) => snapshot \in Auction /\ FinishExpired(now)
        BY <1>0, <2>1 DEF StoreTypeOK, CanFinish, Absent
      <3> QED BY <3>1 DEF FinishExpired, Auction, Status
    <2>4. held' \in [Threads -> Reply]
      BY <1>0, <1>2, <2>1, <2>3, ThreadKinds
    <2> QED BY <1>0, <2>1, <2>2, <2>4 DEF repoVars, timerVars
  <1>17. ASSUME NEW t \in Threads, ReadBack(t)
         PROVE  Rest
    <2>1. pc' \in [Threads -> Label]
      BY <1>0, <1>6, <1>17 DEF ReadBack, Goto, Label
    <2>2. held' \in [Threads -> Reply]
      BY <1>0, <1>2, <1>4, <1>17 DEF ReadBack, Present, StoreTypeOK
    <2> QED BY <1>0, <1>17, <2>1, <2>2 DEF ReadBack, repoVars, timerVars
  <1>18. ASSUME NEW t \in Threads, SyncAuction(t)
         PROVE  Rest
    BY <1>0, <1>1, <1>5, <1>6, <1>18 DEF SyncAuction, timerVars
  <1>19. ASSUME NEW t \in Threads, Settle(t)
         PROVE  Rest
    <2>1. pc' \in [Threads -> Label]
      BY <1>0, <1>19 DEF Settle, Goto, Label
    <2>2. held[t].snapshot.status = "SOLD" /\ held[t].snapshot.leader # NoUser
      BY <1>19 DEF Settle, Goto, CoreInv, ThreadsInv, WinnersInv, HasWinner
    <2>3. held[t].snapshot.leader \in Users /\ held[t].snapshot.price \in Nat
      BY <1>1, <2>2, AuctionIsPresent
    <2>4. order' \in Order \cup {NoOrder}
      BY <1>0, <1>19, <2>3 DEF Settle, Order
    <2> QED BY <1>0, <1>19, <2>1, <2>4 DEF Settle, timerVars
  <1>20. ASSUME NEW s \in Schedulers, Schedule(s) \/ Register(s)
         PROVE  Rest
    <2>1. s \in Threads /\ Timer(s) \in Timers /\ Timer(s) \in Threads
      BY ThreadKinds
    <2>2. pc' \in [Threads -> Label]
      BY <1>0, <1>7, <1>20, <2>1 DEF Schedule, Register, Label
    <2>3. due' \in [Timers -> Nat]
      BY <1>0, <1>1, <1>20, <2>1 DEF Schedule, Register
    <2> QED BY <1>0, <1>20, <2>1, <2>2, <2>3
            DEF Schedule, Register, repoVars, timerVars
  <1>21. ASSUME NEW t \in Threads, StopFinishTimer(t)
         PROVE  Rest
    <2>1. pc' \in [Threads -> Label]
      BY <1>0, <1>7, <1>21 DEF StopFinishTimer, Label
    <2> QED BY <1>0, <1>21, <2>1 DEF StopFinishTimer, repoVars, timerVars
  <1>22. ASSUME NEW t \in Threads, Broadcast(t)
         PROVE  Rest
    <2>1. EventType(t) \in {"snapshot", "accepted", "extended", "ended", "cancelled"}
      BY DEF EventType, Threads
    <2>2. events' \subseteq Event
      BY <1>0, <1>1, <1>22, <2>1 DEF Broadcast, Event
    <2>3. held' \in [Threads -> Reply] /\ pc' \in [Threads -> Label]
      BY <1>4, <1>5, <1>6, <1>22 DEF Broadcast
    <2> QED BY <1>0, <1>22, <2>2, <2>3 DEF Broadcast, repoVars, timerVars
  <1>23. ASSUME NEW t \in Threads, CallFails(t)
         PROVE  Rest
    <2>1. pc' \in [Threads -> Label]
      BY <1>0, <1>6, <1>23 DEF CallFails, Goto, Label
    <2>2. held' \in [Threads -> Reply]
      BY <1>0, <1>4, <1>23 DEF CallFails
    <2>3. failures' \in 0..MaxFailures
      BY <1>0, <1>23, ThreadsAssumption DEF CallFails
    <2> QED BY <1>0, <1>23, <2>1, <2>2, <2>3 DEF CallFails, repoVars, timerVars
  <1>24. CASE Crash
    <2>1. failures' \in 0..MaxFailures
      BY <1>0, <1>24, ThreadsAssumption DEF Crash
    <2>2. pc' \in [Threads -> Label]
      BY <1>24 DEF Crash, Label
    <2> QED BY <1>0, <1>3, <1>24, <2>1, <2>2 DEF Crash, repoVars
  <1>25. CASE Environment
    BY <1>0, <1>25 DEF Environment, repoVars, timerVars
  <1>26. CASE UNCHANGED vars
    BY <1>0, <1>26 DEF vars, repoVars, timerVars
  <1> HIDE DEF Rest
  <1> QED BY <1>10, <1>11, <1>12, <1>13, <1>14, <1>15, <1>16, <1>17, <1>18, <1>19,
             <1>20, <1>21, <1>22, <1>23, <1>24, <1>25, <1>26, StepCases

-----------------------------------------------------------------------------
(* Whose step it is *)

(* A step of thread t itself.                                              *)
Own(t) ==
  \/ t \in Starters /\ (StartRead(t) \/ StartUpdate(t) \/ StartInit(t))
  \/ t \in Cancellers /\ (CancelRead(t) \/ CancelUpdate(t) \/ CancelStore(t))
  \/ /\ t \in Bids
     /\ \/ \E c \in Command : /\ SameBid(c)
                              /\ BidAccepted(t, c) \/ BidRepeated(t, c) \/ BidRejected(t, c)
        \/ BidSave(t)
  \/ t \in Timers /\ (TimerFires(t) \/ TimerFinish(t) \/ TimerClear(t))
  \/ ReadBack(t) \/ SyncAuction(t) \/ Settle(t)
  \/ t \in Schedulers /\ (Schedule(t) \/ Register(t))
  \/ StopFinishTimer(t) \/ Broadcast(t) \/ CallFails(t)

(* What others may do to it: arm or stop it, if it is a timer, and the     *)
(* restart ends it.                                                        *)
Undisturbed(t) ==
  /\ held'[t] = held[t]
  /\ \/ pc'[t] = pc[t]
     \/ \E s \in Schedulers : t = Timer(s) /\ Schedule(s) /\ pc[t] = "idle" /\ pc'[t] = "armed"
     \/ t \in Timers /\ pc[t] = "armed" /\ pc'[t] = "stopped"

Ended(t) ==
  /\ Crash
  /\ held'[t] = NothingHeld
  /\ pc'[t] = IF pc[t] = "idle" THEN "idle" ELSE "done"

LEMMA OwnStep ==
  ASSUME CoreInv, [Next]_vars, NEW t \in Threads
  PROVE  Own(t) \/ Undisturbed(t) \/ Ended(t)
  <1>0. pc \in [Threads -> Label] /\ held \in [Threads -> Reply]
    BY DEF CoreInv, ServiceTypeOK
  <1>1. ASSUME NEW u \in Threads \ {t}, NEW from, NEW to, Goto(u, from, to)
        PROVE  pc'[t] = pc[t]
    BY <1>0, <1>1 DEF Goto
  <1>2. ASSUME NEW u \in Threads \ {t}, NEW x, Hold(u, x) \/ Drop(u)
        PROVE  held'[t] = held[t]
    BY <1>0, <1>2 DEF Hold, Drop
  <1>3. ASSUME NEW u \in Starters, StartRead(u) \/ StartUpdate(u) \/ StartInit(u)
        PROVE  Own(t) \/ Undisturbed(t)
    <2>1. CASE u = t
      BY <1>3, <2>1 DEF Own
    <2>2. CASE u # t
      <3>1. u \in Threads \ {t}
        BY <2>2, ThreadKinds
      <3> QED BY <1>1, <1>2, <1>3, <3>1 DEF StartRead, StartUpdate, StartInit, Undisturbed
    <2> QED BY <2>1, <2>2
  <1>4. ASSUME NEW u \in Cancellers, CancelRead(u) \/ CancelUpdate(u) \/ CancelStore(u)
        PROVE  Own(t) \/ Undisturbed(t)
    <2>1. CASE u = t
      BY <1>4, <2>1 DEF Own
    <2>2. CASE u # t
      <3>1. u \in Threads \ {t}
        BY <2>2, ThreadKinds
      <3> QED BY <1>1, <1>2, <1>4, <3>1
              DEF CancelRead, CancelUpdate, CancelStore, Undisturbed
    <2> QED BY <2>1, <2>2
  <1>5. ASSUME NEW u \in Bids, NEW c \in Command, SameBid(c),
               BidAccepted(u, c) \/ BidRepeated(u, c) \/ BidRejected(u, c)
        PROVE  Own(t) \/ Undisturbed(t)
    <2>1. CASE u = t
      BY <1>5, <2>1 DEF Own
    <2>2. CASE u # t
      <3>1. u \in Threads \ {t}
        BY <2>2, ThreadKinds
      <3>2. held'[t] = held[t]
        BY <1>0, <1>5, <2>2 DEF BidAccepted, BidRepeated, BidRejected
      <3> QED BY <1>1, <1>5, <3>1, <3>2 DEF BidAccepted, BidRepeated, BidRejected, Undisturbed
    <2> QED BY <2>1, <2>2
  <1>6. ASSUME NEW u \in Bids, BidSave(u)
        PROVE  Own(t) \/ Undisturbed(t)
    <2>1. CASE u = t
      BY <1>6, <2>1 DEF Own
    <2>2. CASE u # t
      <3>1. u \in Threads \ {t}
        BY <2>2, ThreadKinds
      <3> QED BY <1>1, <1>6, <3>1 DEF BidSave, Undisturbed
    <2> QED BY <2>1, <2>2
  <1>7. ASSUME NEW u \in Timers, TimerFires(u) \/ TimerFinish(u) \/ TimerClear(u)
        PROVE  Own(t) \/ Undisturbed(t)
    <2>1. CASE u = t
      BY <1>7, <2>1 DEF Own
    <2>2. CASE u # t
      <3>1. u \in Threads \ {t}
        BY <2>2, ThreadKinds
      <3> QED BY <1>1, <1>2, <1>7, <3>1 DEF TimerFires, TimerFinish, TimerClear, Undisturbed
    <2> QED BY <2>1, <2>2
  <1>8. ASSUME NEW u \in Threads,
               ReadBack(u) \/ SyncAuction(u) \/ Settle(u) \/ Broadcast(u) \/ CallFails(u)
        PROVE  Own(t) \/ Undisturbed(t)
    <2>1. CASE u = t
      BY <1>8, <2>1 DEF Own
    <2>2. CASE u # t
      BY <1>1, <1>2, <1>8, <2>2
      DEF ReadBack, SyncAuction, Settle, Broadcast, CallFails, Undisturbed
    <2> QED BY <2>1, <2>2
  <1>9. ASSUME NEW u \in Schedulers, Schedule(u) \/ Register(u)
        PROVE  Own(t) \/ Undisturbed(t)
    <2>1. CASE u = t
      BY <1>9, <2>1 DEF Own
    <2>2. CASE u # t
      <3>1. StoppedPC(t) = pc[t] \/ (pc[t] = "armed" /\ StoppedPC(t) = "stopped")
        BY DEF StoppedPC
      <3>2. registered \in Timers \cup {NoTimer}
        BY DEF CoreInv, ServiceTypeOK
      <3>3. t = registered /\ StoppedPC(t) # pc[t] => t \in Timers
        BY <3>2 DEF StoppedPC
      <3>4. Schedule(u) => pc[Timer(u)] = "idle"
        BY <1>9 DEF Schedule, CoreInv, RouteInv
      <3>5. Timer(u) \in Threads
        BY ThreadKinds
      <3>6. CASE Schedule(u) /\ t = Timer(u)
        BY <1>0, <1>9, <2>2, <3>4, <3>6 DEF Schedule, Undisturbed
      <3>7. CASE Schedule(u) /\ t # Timer(u)
        BY <1>0, <1>9, <2>2, <3>7 DEF Schedule, Undisturbed
      <3>8. CASE Register(u)
        BY <1>0, <2>2, <3>1, <3>3, <3>8 DEF Register, Undisturbed
      <3> QED BY <1>9, <3>6, <3>7, <3>8
    <2> QED BY <2>1, <2>2
  <1>10. ASSUME NEW u \in Threads, StopFinishTimer(u)
         PROVE  Own(t) \/ Undisturbed(t)
    <2>1. CASE u = t
      BY <1>10, <2>1 DEF Own
    <2>2. CASE u # t
      <3>1. StoppedPC(t) = pc[t] \/ (pc[t] = "armed" /\ StoppedPC(t) = "stopped")
        BY DEF StoppedPC
      <3>2. registered \in Timers \cup {NoTimer}
        BY DEF CoreInv, ServiceTypeOK
      <3>3. t = registered /\ StoppedPC(t) # pc[t] => t \in Timers
        BY <3>2 DEF StoppedPC
      <3> QED BY <1>0, <1>10, <2>2, <3>1, <3>3 DEF StopFinishTimer, Undisturbed
    <2> QED BY <2>1, <2>2
  <1>11. CASE Crash
    BY <1>11 DEF Crash, Ended
  <1>12. CASE Environment \/ UNCHANGED vars
    BY <1>12 DEF Environment, vars, Undisturbed
  <1> QED BY <1>3, <1>4, <1>5, <1>6, <1>7, <1>8, <1>9, <1>10, <1>11, <1>12, StepCases

-----------------------------------------------------------------------------
(* How far a handler is *)

(* At most so many steps are left to a thread at this step.                *)
Rank(label) ==
  CASE label = "idle"     -> 14
    [] label = "update"   -> 13
    [] label = "init"     -> 12
    [] label = "armed"    -> 12
    [] label = "finish"   -> 11
    [] label = "read"     -> 10
    [] label = "reread"   -> 10
    [] label = "save"     -> 9
    [] label = "cancel"   -> 9
    [] label = "sync"     -> 8
    [] label = "settle"   -> 7
    [] label = "schedule" -> 7
    [] label = "register" -> 6
    [] label = "stop"     -> 5
    [] label = "broadcast" -> 4
    [] label = "clear"    -> 3
    [] label = "stopped"  -> 2
    [] label = "done"     -> 0

LEMMA StarterMoves ==
  ASSUME CoreInv, NEW t \in Starters, Own(t)
  PROVE  /\ pc'[t] \in StarterSteps \ {"idle"}
         /\ Rank(pc'[t]) < Rank(pc[t])
         /\ pc[t] \in {"register", "broadcast", "done"} => pc'[t] \in {"broadcast", "done"}
         /\ StartRead(t) /\ pc'[t] = "update" => held'[t].snapshot.status = "RUNNING"
         /\ ~StartRead(t) => pc'[t] = "done" \/ held'[t] = held[t]
  <1>0. /\ pc \in [Threads -> Label] /\ held \in [Threads -> Reply] /\ t \in Threads
        /\ t \notin Cancellers /\ t \notin Bids /\ t \notin Timers
        /\ pc[t] \in StarterSteps
    BY ThreadKinds DEF CoreInv, ServiceTypeOK, RouteInv
  <1>1. CASE StartRead(t)
    <2>1. pc[t] = "idle" /\ pc'[t] \in {"update", "done"}
      BY <1>0, <1>1 DEF StartRead, Goto
    <2>2. pc'[t] = "update" => held'[t].snapshot.status = "RUNNING"
      BY <1>0, <1>1, <2>1 DEF StartRead, Goto, Hold, Started, Reply
    <2> QED BY <1>1, <2>1, <2>2 DEF StarterSteps, Rank
  <1>2. CASE StartUpdate(t) \/ StartInit(t)
    <2>1. /\ \/ pc[t] = "update" /\ pc'[t] = "init"
             \/ pc[t] = "init" /\ pc'[t] = "schedule"
          /\ held' = held
      BY <1>0, <1>2 DEF StartUpdate, StartInit, Goto
    <2>2. ~StartRead(t)
      BY <2>1 DEF StartRead
    <2> QED BY <2>1, <2>2 DEF StarterSteps, Rank
  <1>3. CASE t \in Schedulers /\ (Schedule(t) \/ Register(t))
    <2>1. Timer(t) # t
      BY ThreadKinds
    <2>2. /\ \/ pc[t] = "schedule" /\ pc'[t] = "register"
             \/ pc[t] = "register" /\ pc'[t] = "broadcast"
          /\ held' = held
      BY <1>0, <1>3, <2>1 DEF Schedule, Register
    <2>3. ~StartRead(t)
      BY <2>2 DEF StartRead
    <2> QED BY <2>2, <2>3 DEF StarterSteps, Rank
  <1>4. CASE Broadcast(t) \/ CallFails(t)
    <2>1. /\ pc[t] \in StarterSteps \ {"idle", "done"}
          /\ pc'[t] = "done"
      BY <1>0, <1>4 DEF Broadcast, CallFails, Goto, Exit, RepoStep, RedisStep, StarterSteps
    <2>2. ~StartRead(t)
      BY <2>1 DEF StartRead
    <2> QED BY <2>1, <2>2 DEF StarterSteps, Rank
  <1>5. ~(ReadBack(t) \/ SyncAuction(t) \/ Settle(t) \/ StopFinishTimer(t))
    BY <1>0 DEF ReadBack, SyncAuction, Settle, StopFinishTimer, Goto, StarterSteps
  <1> QED BY <1>0, <1>1, <1>2, <1>3, <1>4, <1>5 DEF Own

LEMMA CancellerMoves ==
  ASSUME CoreInv, NEW t \in Cancellers, Own(t)
  PROVE  /\ pc'[t] \in CancellerSteps \ {"idle"}
         /\ Rank(pc'[t]) < Rank(pc[t])
         /\ CancelRead(t) /\ pc'[t] = "update" => held'[t].snapshot.status = "CANCELLED"
         /\ ~CancelRead(t) => pc'[t] = "done" \/ held'[t] = held[t]
         /\ ~CancelRead(t) => pc[t] \in {"update", "cancel", "stop", "broadcast"}
         /\ pc[t] = "stop" => pc'[t] = "broadcast"
         /\ pc[t] = "broadcast" => Broadcast(t)
  <1>0. /\ pc \in [Threads -> Label] /\ held \in [Threads -> Reply] /\ t \in Threads
        /\ t \notin Starters /\ t \notin Bids /\ t \notin Timers /\ t \notin Schedulers
        /\ auction \in Auction
        /\ pc[t] \in CancellerSteps
    BY ThreadKinds DEF CoreInv, ServiceTypeOK, RouteInv
  <1>1. CASE CancelRead(t)
    <2>1. pc[t] = "idle" /\ pc'[t] \in {"update", "done"}
      BY <1>0, <1>1 DEF CancelRead, Goto
    <2>2. pc'[t] = "update" => held'[t].snapshot.status = "CANCELLED"
      BY <1>0, <1>1, <2>1 DEF CancelRead, Goto, Hold, Cancelled, Reply, Auction
    <2> QED BY <1>1, <2>1, <2>2 DEF CancellerSteps, Rank
  <1>2. CASE CancelUpdate(t) \/ CancelStore(t) \/ StopFinishTimer(t)
    <2>1. /\ \/ pc[t] = "update" /\ pc'[t] = "cancel"
             \/ pc[t] = "cancel" /\ pc'[t] = "stop"
             \/ pc[t] = "stop" /\ pc'[t] = "broadcast"
          /\ held' = held
      BY <1>0, <1>2 DEF CancelUpdate, CancelStore, StopFinishTimer, Goto
    <2>2. ~CancelRead(t)
      BY <2>1 DEF CancelRead, Goto
    <2> QED BY <2>1, <2>2 DEF CancellerSteps, Rank
  <1>3. CASE CallFails(t) \/ Broadcast(t)
    <2>1. \/ pc[t] = "cancel" /\ pc'[t] = "stop" /\ held' = held
          \/ pc[t] \in {"update", "broadcast"} /\ pc'[t] = "done"
      BY <1>0, <1>3 DEF Broadcast, CallFails, Goto, Exit, RepoStep, RedisStep, CancellerSteps
    <2>2. ~CancelRead(t)
      BY <2>1 DEF CancelRead, Goto
    <2>3. pc[t] = "broadcast" => Broadcast(t)
      BY <1>0, <1>3 DEF CallFails, RepoStep, RedisStep
    <2> QED BY <2>1, <2>2, <2>3 DEF CancellerSteps, Rank
  <1>5. ~(ReadBack(t) \/ SyncAuction(t) \/ Settle(t))
    BY <1>0 DEF ReadBack, SyncAuction, Settle, Goto, CancellerSteps
  <1> QED BY <1>0, <1>1, <1>2, <1>3, <1>5 DEF Own

LEMMA BidMoves ==
  ASSUME CoreInv, NEW t \in Bids, Own(t)
  PROVE  /\ pc'[t] \in BidSteps \ {"idle"}
         /\ Rank(pc'[t]) < Rank(pc[t])
         /\ pc[t] \in {"register", "broadcast", "done"} => pc'[t] \in {"broadcast", "done"}
  <1>0. /\ pc \in [Threads -> Label] /\ t \in Threads
        /\ t \notin Starters /\ t \notin Cancellers /\ t \notin Timers
        /\ pc[t] \in BidSteps
    BY ThreadKinds DEF CoreInv, ServiceTypeOK, RouteInv
  <1>1. CASE \E c \in Command : BidAccepted(t, c) \/ BidRepeated(t, c) \/ BidRejected(t, c)
    <2>1. pc[t] = "idle" /\ pc'[t] \in {"read", "save", "reread", "sync", "done"}
      BY <1>0, <1>1 DEF BidAccepted, BidRepeated, BidRejected, Goto
    <2> QED BY <2>1 DEF BidSteps, Rank
  <1>2. CASE BidSave(t)
    <2>1. pc[t] = "save" /\ pc'[t] = "sync"
      BY <1>0, <1>2 DEF BidSave, Goto
    <2> QED BY <2>1 DEF BidSteps, Rank
  <1>3. CASE ReadBack(t)
    <2>1. \/ pc[t] = "read" /\ pc'[t] \in {"save", "done"}
          \/ pc[t] = "reread" /\ pc'[t] \in {"sync", "done"}
      BY <1>0, <1>3 DEF ReadBack, Goto, Exit
    <2> QED BY <2>1 DEF BidSteps, Rank
  <1>4. CASE SyncAuction(t)
    <2>1. pc[t] = "sync" /\ pc'[t] \in {"settle", "schedule", "broadcast"}
      BY <1>0, <1>4 DEF SyncAuction, Goto, AfterSync
    <2> QED BY <2>1 DEF BidSteps, Rank
  <1>5. CASE Settle(t) \/ StopFinishTimer(t)
    <2>1. \/ pc[t] = "settle" /\ pc'[t] = "stop"
          \/ pc[t] = "stop" /\ pc'[t] = "broadcast"
      BY <1>0, <1>5 DEF Settle, StopFinishTimer, Goto
    <2> QED BY <2>1 DEF BidSteps, Rank
  <1>6. CASE t \in Schedulers /\ (Schedule(t) \/ Register(t))
    <2>1. Timer(t) # t
      BY ThreadKinds
    <2>2. \/ pc[t] = "schedule" /\ pc'[t] = "register"
          \/ pc[t] = "register" /\ pc'[t] = "broadcast"
      BY <1>0, <1>6, <2>1 DEF Schedule, Register
    <2> QED BY <2>2 DEF BidSteps, Rank
  <1>7. CASE Broadcast(t) \/ CallFails(t)
    <2>1. /\ pc[t] \in BidSteps \ {"idle", "done"}
          /\ pc'[t] = "done"
      BY <1>0, <1>7 DEF Broadcast, CallFails, Goto, Exit, RepoStep, RedisStep, BidSteps
    <2> QED BY <2>1 DEF BidSteps, Rank
  <1> QED BY <1>0, <1>1, <1>2, <1>3, <1>4, <1>5, <1>6, <1>7 DEF Own

LEMMA TimerMoves ==
  ASSUME CoreInv, NEW t \in Timers, Own(t)
  PROVE  /\ pc'[t] \in TimerSteps \ {"idle"}
         /\ Rank(pc'[t]) < Rank(pc[t])
         /\ pc[t] # "idle"
  <1>0. /\ pc \in [Threads -> Label] /\ t \in Threads
        /\ t \notin Starters /\ t \notin Cancellers /\ t \notin Bids /\ t \notin Schedulers
        /\ pc[t] \in TimerSteps
    BY ThreadKinds DEF CoreInv, ServiceTypeOK, RouteInv
  <1>1. CASE TimerFires(t) \/ TimerFinish(t) \/ TimerClear(t)
    <2>1. \/ pc[t] = "armed" /\ pc'[t] = "finish"
          \/ pc[t] = "finish" /\ pc'[t] \in {"read", "sync", "clear"}
          \/ pc[t] = "clear" /\ pc'[t] = "done"
      BY <1>0, <1>1 DEF TimerFires, TimerFinish, TimerClear, Goto
    <2> QED BY <2>1 DEF TimerSteps, Rank
  <1>2. CASE ReadBack(t) \/ SyncAuction(t)
    <2>1. \/ pc[t] = "read" /\ pc'[t] \in {"sync", "clear"}
          \/ pc[t] = "sync" /\ pc'[t] \in {"settle", "stop"}
      BY <1>0, <1>2 DEF ReadBack, SyncAuction, AfterSync, Goto, Exit, TimerSteps
    <2> QED BY <2>1 DEF TimerSteps, Rank
  <1>3. CASE Settle(t) \/ StopFinishTimer(t)
    <2>1. \/ pc[t] = "settle" /\ pc'[t] = "stop"
          \/ pc[t] = "stop" /\ pc'[t] = "broadcast"
      BY <1>0, <1>3 DEF Settle, StopFinishTimer, Goto
    <2> QED BY <2>1 DEF TimerSteps, Rank
  <1>4. CASE Broadcast(t) \/ CallFails(t)
    <2>1. /\ pc[t] \in {"finish", "read", "sync", "settle", "broadcast"}
          /\ pc'[t] = "clear"
      BY <1>0, <1>4 DEF Broadcast, CallFails, Goto, Exit, RepoStep, RedisStep, TimerSteps
    <2> QED BY <2>1 DEF TimerSteps, Rank
  <1> QED BY <1>0, <1>1, <1>2, <1>3, <1>4 DEF Own

(* A restart ends every thread that was called.                            *)
LEMMA EndedMoves ==
  ASSUME CoreInv, NEW t \in Threads, Ended(t)
  PROVE  /\ pc'[t] = pc[t] \/ Rank(pc'[t]) < Rank(pc[t])
         /\ pc'[t] \in {"idle", "done"} /\ held'[t] = NothingHeld
         /\ pc'[t] = "idle" => pc[t] = "idle"
  <1>1. pc[t] \in Label
    BY DEF CoreInv, ServiceTypeOK
  <1> QED BY <1>1 DEF Ended, Label, Rank

(* A thread never takes a step twice: each step of its own brings it       *)
(* nearer to its end, and the others arm or stop a timer at most once.     *)
LEMMA StepAdvances ==
  ASSUME CoreInv, [Next]_vars, NEW t \in Threads
  PROVE  pc'[t] = pc[t] \/ Rank(pc'[t]) < Rank(pc[t])
  <1>1. CASE Own(t)
    BY <1>1, StarterMoves, CancellerMoves, BidMoves, TimerMoves DEF Threads
  <1>2. CASE Undisturbed(t)
    BY <1>2 DEF Undisturbed, Rank
  <1>3. CASE Ended(t)
    BY <1>3, EndedMoves
  <1> QED BY <1>1, <1>2, <1>3, OwnStep

LEMMA RouteKeeps ==
  ASSUME CoreInv, [Next]_vars
  PROVE  RouteInv'
  <1>0. RouteInv
    BY DEF CoreInv
  <1>1. ASSUME NEW t \in Threads, t \notin Timers
        PROVE  Own(t) \/ pc'[t] = pc[t] \/ Ended(t)
    BY <1>1, OwnStep, ThreadKinds DEF Undisturbed
  <1>2. \A s \in Starters : pc'[s] \in StarterSteps
    BY <1>0, <1>1, StarterMoves, EndedMoves, ThreadKinds DEF RouteInv, StarterSteps
  <1>3. \A c \in Cancellers : pc'[c] \in CancellerSteps
    BY <1>0, <1>1, CancellerMoves, EndedMoves, ThreadKinds DEF RouteInv, CancellerSteps
  <1>4. \A b \in Bids : pc'[b] \in BidSteps
    BY <1>0, <1>1, BidMoves, EndedMoves, ThreadKinds DEF RouteInv, BidSteps
  <1>5. \A t \in Timers : pc'[t] \in TimerSteps
    BY <1>0, OwnStep, TimerMoves, EndedMoves, ThreadKinds
    DEF RouteInv, TimerSteps, Undisturbed
  <1>6. ASSUME NEW s \in Schedulers, pc'[Timer(s)] # "idle"
        PROVE  pc'[s] \in {"register", "broadcast", "done"}
    <2>0. /\ s \in Threads /\ s \notin Timers /\ Timer(s) \in Timers /\ Timer(s) \in Threads
          /\ s \in Starters \/ s \in Bids
          /\ pc \in [Threads -> Label]
      BY ThreadKinds DEF CoreInv, ServiceTypeOK
    <2>1. CASE pc[Timer(s)] # "idle"
      <3>1. pc[s] \in {"register", "broadcast", "done"}
        BY <1>0, <2>1 DEF RouteInv
      <3>2. Own(s) => pc'[s] \in {"broadcast", "done"}
        BY <2>0, <3>1, StarterMoves, BidMoves
      <3>3. Ended(s) => pc'[s] = "done"
        BY <3>1 DEF Ended
      <3> QED BY <1>1, <2>0, <3>1, <3>2, <3>3
    <2>2. CASE pc[Timer(s)] = "idle"
      <3>1. ~Own(Timer(s)) /\ ~Ended(Timer(s))
        BY <1>6, <2>0, <2>2, TimerMoves DEF Ended
      <3>2. Undisturbed(Timer(s))
        BY <2>0, <3>1, OwnStep
      <3>3. PICK u \in Schedulers : Timer(s) = Timer(u) /\ Schedule(u)
        BY <1>6, <2>2, <3>2 DEF Undisturbed
      <3>4. u = s
        BY <3>3 DEF Timer
      <3> QED BY <2>0, <3>3, <3>4 DEF Schedule
    <2> QED BY <2>1, <2>2
  <1> QED BY <1>2, <1>3, <1>4, <1>5, <1>6 DEF RouteInv

-----------------------------------------------------------------------------
(* What each variable comes from *)

(* The snapshot is opened by a start, raised or sold by a bid, cancelled,  *)
(* finished by a timer, or lost to its expiry or a restart.                *)
LEMMA SnapshotMoves ==
  ASSUME CoreInv, [Next]_vars
  PROVE  \/ snapshot' = snapshot
         \/ snapshot' = Absent
         \/ \E t \in Starters : StartInit(t) /\ snapshot' = held[t].snapshot
         \/ \E b \in Bids, c \in Command : SameBid(c) /\ BidAccepted(b, c)
         \/ \E t \in Cancellers : CancelStore(t) /\ Cancel
         \/ \E t \in Timers : TimerFinish(t) /\ \E now : FinishExpired(now)
  <1>1. CASE Environment
    BY <1>1 DEF Environment, ExpireRequest, ExpireSnapshot, Tick
  <1>2. CASE Crash
    BY <1>2 DEF Crash, storeVars
  <1>3. CASE \E t \in Timers : TimerFinish(t)
    BY <1>3 DEF TimerFinish, storeVars
  <1>4. CASE \E t \in Cancellers : CancelStore(t)
    BY <1>4 DEF CancelStore, storeVars
  <1>5. CASE \E t \in Starters : StartInit(t)
    BY <1>5 DEF StartInit, InitAuction
  <1> QED BY <1>1, <1>2, <1>3, <1>4, <1>5, StepCases
          DEF StartRead, StartUpdate, CancelRead, CancelUpdate, BidRepeated, BidRejected,
              BidSave, TimerFires, TimerClear, ReadBack, SyncAuction, Settle, Schedule,
              Register, StopFinishTimer, Broadcast, CallFails, vars, storeVars

(* What a closing does to the snapshot.                                    *)
LEMMA ClosedFields ==
  ASSUME CoreInv
  PROVE  /\ Cancel => /\ snapshot \in Auction /\ snapshot' \in Auction
                      /\ snapshot.status = "RUNNING" /\ snapshot'.status = "CANCELLED"
         /\ (\E now : FinishExpired(now)) =>
              /\ snapshot \in Auction /\ snapshot' \in Auction
              /\ snapshot.status = "RUNNING" /\ snapshot'.status \in {"SOLD", "ENDED"}
              /\ HasWinner(snapshot')
  <1>1. snapshot \in Auction \cup {Absent} /\ snapshot.status # "DRAFT"
    BY DEF CoreInv, ServiceTypeOK, StoreTypeOK, WinnersInv
  <1>2. ASSUME Cancel
        PROVE  /\ snapshot \in Auction /\ snapshot' \in Auction
               /\ snapshot.status = "RUNNING" /\ snapshot'.status = "CANCELLED"
    <2>1. snapshot \in Auction /\ snapshot.status = "RUNNING"
      BY <1>1, <1>2 DEF Cancel, CanCancel, Absent
    <2> QED BY <1>2, <2>1 DEF Cancel, Cancelled, Auction, Status
  <1>3. ASSUME NEW now, FinishExpired(now)
        PROVE  /\ snapshot \in Auction /\ snapshot' \in Auction
               /\ snapshot.status = "RUNNING" /\ snapshot'.status \in {"SOLD", "ENDED"}
               /\ HasWinner(snapshot')
    <2>1. snapshot \in Auction /\ snapshot.status = "RUNNING"
      BY <1>1, <1>3 DEF FinishExpired, CanFinish, Absent
    <2> QED BY <1>3, <2>1 DEF FinishExpired, HasWinner, Auction, Status
  <1> QED BY <1>2, <1>3

(* Where what a thread carries comes from.                                 *)
LEMMA HeldMoves ==
  ASSUME CoreInv, [Next]_vars, NEW t \in Threads
  PROVE  \/ held'[t].snapshot = held[t].snapshot
         \/ held'[t].snapshot = NewAuction
         \/ held'[t].snapshot = Cancelled(auction)
         \/ held'[t].snapshot = snapshot' /\ Present'
         \/ \E r \in Requests : requests[r] # NoReply
                                /\ held'[t].snapshot = requests[r].snapshot
         \/ t \in Starters /\ StartRead(t) /\ pc'[t] = "update"
  <1>0. /\ pc \in [Threads -> Label] /\ held \in [Threads -> Reply]
        /\ StoreTypeOK /\ clock \in Nat
    BY DEF CoreInv, ServiceTypeOK, StoreTypeOK
  <1>1. ASSUME NEW x, Hold(t, x)
        PROVE  held'[t].snapshot = x
    BY <1>0, <1>1 DEF Hold, Reply
  <1>2. Drop(t) => held'[t].snapshot = NewAuction
    BY <1>0 DEF Drop, NothingHeld
  <1>3. CASE t \in Starters /\ (StartRead(t) \/ StartUpdate(t) \/ StartInit(t))
    BY <1>0, <1>3 DEF StartRead, StartUpdate, StartInit, Goto
  <1>4. CASE t \in Cancellers /\ (CancelRead(t) \/ CancelUpdate(t) \/ CancelStore(t))
    BY <1>1, <1>4 DEF CancelRead, CancelUpdate, CancelStore
  <1>5. ASSUME NEW c \in Command, BidAccepted(t, c)
        PROVE  held'[t].snapshot = snapshot' /\ Present'
    <2>1. PICK now \in 0..clock : AcceptBid(c.user, c.request, c.amount, now)
      BY <1>5 DEF BidAccepted
    <2>2. now \in Nat /\ c.user \in Users /\ c.amount \in Amounts /\ c.request \in Requests
      BY <1>0 DEF Command
    <2>3. AfterBid(c.user, c.amount, now) \in Auction
      BY <1>0, <2>1, <2>2, AfterBidFields DEF AcceptBid
    <2>4. /\ requests'[c.request].snapshot = AfterBid(c.user, c.amount, now)
          /\ snapshot' = AfterBid(c.user, c.amount, now)
      BY <1>0, <2>1, <2>2 DEF AcceptBid, StoreTypeOK
    <2>5. held'[t] = requests'[c.request]
      BY <1>0, <1>5 DEF BidAccepted
    <2> QED BY <2>3, <2>4, <2>5, AuctionIsPresent DEF Present
  <1>6. ASSUME NEW c \in Command, BidRepeated(t, c)
        PROVE  /\ requests[c.request] # NoReply /\ c.request \in Requests
               /\ held'[t].snapshot = requests[c.request].snapshot
    BY <1>0, <1>6 DEF BidRepeated, Command
  <1>7. CASE BidSave(t) \/ \E c \in Command : BidRejected(t, c)
    BY <1>7 DEF BidSave, BidRejected
  <1>8. CASE t \in Timers /\ TimerFinish(t)
    <2>1. PICK now \in due[t]..clock :
            IF CanFinish(now) THEN FinishExpired(now) /\ Hold(t, snapshot')
                              ELSE UNCHANGED held
      BY <1>8 DEF TimerFinish
    <2>2. CASE CanFinish(now)
      <3>1. snapshot \in Auction /\ FinishExpired(now)
        BY <1>0, <2>1, <2>2 DEF StoreTypeOK, CanFinish, Absent
      <3>2. snapshot' \in Auction
        BY <3>1 DEF FinishExpired, Auction, Status
      <3> QED BY <1>1, <2>1, <2>2, <3>2, AuctionIsPresent DEF Present
    <2>3. CASE ~CanFinish(now)
      BY <2>1, <2>3
    <2> QED BY <2>2, <2>3
  <1>9. CASE TimerFires(t) \/ TimerClear(t)
    BY <1>9 DEF TimerFires, TimerClear
  <1>10. CASE ReadBack(t)
    BY <1>1, <1>2, <1>10 DEF ReadBack, Present, storeVars
  <1>11. CASE SyncAuction(t) \/ Settle(t) \/ Schedule(t) \/ Register(t) \/ StopFinishTimer(t)
    BY <1>11 DEF SyncAuction, Settle, Schedule, Register, StopFinishTimer
  <1>12. CASE Broadcast(t) \/ CallFails(t)
    BY <1>2, <1>12 DEF Broadcast, CallFails
  <1>13. CASE Undisturbed(t) \/ Ended(t)
    BY <1>13 DEF Undisturbed, Ended, NothingHeld
  <1> QED BY <1>3, <1>4, <1>5, <1>6, <1>7, <1>8, <1>9, <1>10, <1>11, <1>12, <1>13, OwnStep
          DEF Own

(* The repository's record is only ever overwritten with a thread's copy.  *)
LEMMA RecordMoves ==
  ASSUME CoreInv, [Next]_vars
  PROVE  auction' = auction \/ \E t \in Threads : auction' = held[t].snapshot
  BY StepCases, ThreadKinds
  DEF StartRead, StartUpdate, StartInit, CancelRead, CancelUpdate, CancelStore, BidAccepted,
      BidRepeated, BidRejected, BidSave, TimerFires, TimerFinish, TimerClear, ReadBack,
      SyncAuction, Settle, Schedule, Register, StopFinishTimer, Broadcast, CallFails,
      Crash, Environment, vars, repoVars

(* Remembered answers are those of accepted bids.                          *)
LEMMA ReplyMoves ==
  ASSUME CoreInv, [Next]_vars, NEW r \in Requests, requests'[r] # NoReply
  PROVE  \/ requests[r] # NoReply /\ requests'[r] = requests[r]
         \/ /\ requests'[r].snapshot.status \in {"RUNNING", "SOLD"}
            /\ requests'[r].snapshot.leader \in Users
  <1>0. StoreTypeOK /\ clock \in Nat
    BY DEF CoreInv, ServiceTypeOK, StoreTypeOK
  <1>1. CASE requests' = requests
    BY <1>1
  <1>2. CASE \E b \in Bids, c \in Command : BidAccepted(b, c)
    <2>1. PICK b \in Bids, c \in Command, now \in 0..clock :
            AcceptBid(c.user, c.request, c.amount, now)
      BY <1>2 DEF BidAccepted
    <2>2. now \in Nat /\ c.user \in Users /\ c.amount \in Amounts /\ c.request \in Requests
      BY <1>0 DEF Command
    <2>3. /\ AfterBid(c.user, c.amount, now).leader = c.user
          /\ AfterBid(c.user, c.amount, now).status \in {"RUNNING", "SOLD"}
      BY <1>0, <2>1, <2>2, AfterBidFields DEF AcceptBid
    <2>4. /\ requests'[c.request].snapshot = AfterBid(c.user, c.amount, now)
          /\ r # c.request => requests'[r] = requests[r]
      BY <1>0, <2>1, <2>2 DEF AcceptBid, StoreTypeOK
    <2> QED BY <2>2, <2>3, <2>4
  <1>3. CASE Environment
    <2>1. CASE \E request \in Requests : ExpireRequest(request)
      BY <1>0, <2>1 DEF ExpireRequest, StoreTypeOK
    <2>2. CASE ExpireSnapshot \/ Tick
      BY <1>1, <2>2 DEF ExpireSnapshot, Tick
    <2> QED BY <1>3, <2>1, <2>2 DEF Environment
  <1>4. CASE Crash
    <2>1. requests' = requests \/ requests' = [q \in Requests |-> NoReply]
      BY <1>4 DEF Crash, storeVars
    <2> QED BY <1>1, <2>1
  <1>5. CASE \E t \in Timers : TimerFinish(t)
    BY <1>1, <1>5 DEF TimerFinish, FinishExpired, storeVars
  <1>6. CASE \E t \in Starters : StartInit(t)
    BY <1>1, <1>6 DEF StartInit, InitAuction
  <1>7. CASE \E t \in Cancellers : CancelStore(t)
    BY <1>1, <1>7 DEF CancelStore, Cancel, storeVars
  <1> QED BY <1>1, <1>2, <1>3, <1>4, <1>5, <1>6, <1>7, StepCases
          DEF StartRead, StartUpdate, CancelRead, CancelUpdate, BidRepeated, BidRejected,
              BidSave, TimerFires, TimerClear, ReadBack, SyncAuction, Settle, Schedule,
              Register, StopFinishTimer, Broadcast, CallFails, vars, storeVars

(* An order once stored stays as it is.                                    *)
LEMMA OrderMoves ==
  ASSUME CoreInv, [Next]_vars
  PROVE  \/ order' = order
         \/ \E t \in Threads :
              /\ Settle(t)
              /\ order = NoOrder
              /\ order' = [buyer |-> held[t].snapshot.leader,
                           price |-> held[t].snapshot.price]
  BY StepCases
  DEF StartRead, StartUpdate, StartInit, CancelRead, CancelUpdate, CancelStore, BidAccepted,
      BidRepeated, BidRejected, BidSave, TimerFires, TimerFinish, TimerClear, ReadBack,
      SyncAuction, Settle, Schedule, Register, StopFinishTimer, Broadcast, CallFails,
      Crash, Environment, vars, repoVars

(* A settling thread carries the sale, and there is an order then.         *)
LEMMA SettleStores ==
  ASSUME CoreInv, NEW t \in Threads, Settle(t)
  PROVE  held[t].snapshot.status = "SOLD" /\ order' # NoOrder
  <1>1. held[t].snapshot.status = "SOLD" /\ held[t].snapshot.leader # NoUser
    BY DEF Settle, Goto, CoreInv, ThreadsInv, WinnersInv, HasWinner
  <1>2. held[t].snapshot.leader \in Users /\ held[t].snapshot.price \in Nat
    <2>1. held[t].snapshot \in Auction
      BY DEF CoreInv, ServiceTypeOK, Reply
    <2> QED BY <1>1, <2>1, AuctionIsPresent
  <1>3. order = NoOrder => order' \in Order
    BY <1>2 DEF Settle, Order
  <1>4. order # NoOrder => order' = order
    BY DEF Settle
  <1> QED BY <1>1, <1>3, <1>4, AbsencesAssumption

LEMMA OrderStays ==
  ASSUME CoreInv, [Next]_vars, order # NoOrder
  PROVE  order' # NoOrder
  BY OrderMoves

-----------------------------------------------------------------------------
(* Winners *)

LEMMA WinnersKeep ==
  ASSUME CoreInv, [Next]_vars
  PROVE  WinnersInv'
  <1>0. /\ WinnersInv /\ StoreTypeOK /\ auction \in Auction
        /\ \A t \in Threads : held[t].snapshot \in Auction
    BY DEF CoreInv, ServiceTypeOK, Reply
  <1>1. ASSUME NEW b \in Bids, NEW c \in Command, BidAccepted(b, c)
        PROVE  snapshot'.status # "DRAFT" /\ HasWinner(snapshot')
    <2>1. /\ snapshot'.leader = c.user /\ c.user \in Users
          /\ snapshot'.status \in {"RUNNING", "SOLD"}
      BY <1>0, <1>1, AcceptedFields
    <2> QED BY <2>1, UsersAssumption DEF HasWinner
  <1>2. ASSUME NEW t \in Starters, StartInit(t)
        PROVE  held[t].snapshot.status = "RUNNING"
    BY <1>2 DEF StartInit, Goto, CoreInv, ThreadsInv
  <1>3. snapshot'.status # "DRAFT" /\ HasWinner(snapshot')
    <2>1. CASE snapshot' = snapshot
      BY <1>0, <2>1 DEF WinnersInv
    <2>2. CASE snapshot' = Absent
      BY <2>2 DEF Absent, HasWinner
    <2>3. CASE \E t \in Starters : StartInit(t) /\ snapshot' = held[t].snapshot
      BY <1>2, <2>3 DEF HasWinner
    <2>4. CASE Cancel \/ \E now : FinishExpired(now)
      BY <2>4, ClosedFields DEF HasWinner
    <2> QED BY <1>1, <2>1, <2>2, <2>3, <2>4, SnapshotMoves
  <1>4. HasWinner(auction')
    BY <1>0, RecordMoves DEF WinnersInv
  <1>5. ASSUME NEW t \in Threads
        PROVE  HasWinner(held'[t].snapshot)
    <2>1. CASE t \in Starters /\ StartRead(t) /\ pc'[t] = "update"
      <3>1. Own(t)
        BY <2>1 DEF Own
      <3> QED BY <2>1, <3>1, StarterMoves DEF HasWinner
    <2>2. HasWinner(NewAuction)
      BY DEF HasWinner, NewAuction
    <2>3. Cancelled(auction).status = "CANCELLED"
      BY <1>0 DEF Cancelled, Auction
    <2> QED BY <1>0, <1>3, <2>1, <2>2, <2>3, HeldMoves DEF HasWinner, WinnersInv
  <1>6. ASSUME NEW r \in Requests, requests'[r] # NoReply
        PROVE  HasWinner(requests'[r].snapshot)
    BY <1>0, <1>6, ReplyMoves, UsersAssumption DEF HasWinner, WinnersInv
  <1>7. /\ (snapshot.status # "DRAFT")'
        /\ HasWinner(snapshot)'
        /\ HasWinner(auction)'
        /\ \A t \in Threads : HasWinner(held[t].snapshot)'
        /\ \A r \in Requests : (requests[r] # NoReply => HasWinner(requests[r].snapshot))'
    BY <1>3, <1>4, <1>5, <1>6 DEF HasWinner
  <1> QED BY <1>7 DEF WinnersInv

-----------------------------------------------------------------------------
(* What the handlers carry *)

LEMMA StarterCarries ==
  ASSUME CoreInv, [Next]_vars, NEW s \in Starters, pc'[s] \notin {"idle", "done"}
  PROVE  held'[s].snapshot.status = "RUNNING"
  <1>0. /\ s \in Threads /\ s \notin Timers /\ s \notin Cancellers /\ s \notin Bids
        /\ pc \in [Threads -> Label]
        /\ pc[s] \notin {"idle", "done"} => held[s].snapshot.status = "RUNNING"
        /\ pc[s] \in StarterSteps
    BY ThreadKinds DEF CoreInv, ServiceTypeOK, RouteInv, ThreadsInv
  <1>1. CASE StartRead(s)
    <2>1. pc'[s] = "update" /\ Own(s)
      BY <1>0, <1>1 DEF StartRead, Goto, Own
    <2> QED BY <1>1, <2>1, StarterMoves
  <1>2. CASE Own(s) /\ ~StartRead(s)
    <2>1. held'[s] = held[s]
      BY <1>2, StarterMoves
    <2>2. pc[s] \notin {"idle", "done"}
      BY <1>0, <1>2 DEF Own, StartUpdate, StartInit, ReadBack, SyncAuction, Settle, Schedule,
                        Register, StopFinishTimer, Broadcast, CallFails, Goto, RepoStep,
                        RedisStep, StarterSteps
    <2> QED BY <1>0, <2>1, <2>2
  <1>3. CASE Undisturbed(s)
    BY <1>0, <1>3, ThreadKinds DEF Undisturbed
  <1>4. CASE Ended(s)
    BY <1>4 DEF Ended
  <1> QED BY <1>0, <1>1, <1>2, <1>3, <1>4, OwnStep

LEMMA CancellerCarries ==
  ASSUME CoreInv, [Next]_vars, NEW c \in Cancellers, pc'[c] \notin {"idle", "done"}
  PROVE  held'[c].snapshot.status = "CANCELLED"
  <1>0. /\ c \in Threads /\ c \notin Timers /\ pc \in [Threads -> Label]
        /\ pc[c] \notin {"idle", "done"} => held[c].snapshot.status = "CANCELLED"
        /\ pc[c] \in CancellerSteps
    BY ThreadKinds DEF CoreInv, ServiceTypeOK, RouteInv, ThreadsInv
  <1>1. CASE CancelRead(c)
    <2>1. pc'[c] = "update" /\ Own(c)
      BY <1>0, <1>1 DEF CancelRead, Goto, Own
    <2> QED BY <1>1, <2>1, CancellerMoves
  <1>2. CASE Own(c) /\ ~CancelRead(c)
    BY <1>0, <1>2, CancellerMoves
  <1>3. CASE Undisturbed(c)
    BY <1>0, <1>3, ThreadKinds DEF Undisturbed
  <1>4. CASE Ended(c)
    BY <1>4 DEF Ended
  <1> QED BY <1>0, <1>1, <1>2, <1>3, <1>4, OwnStep

(* Who carries a sale past the settling step has settled it.               *)
LEMMA SaleCarries ==
  ASSUME CoreInv, [Next]_vars, NEW t \in Threads
  PROVE  /\ pc'[t] = "settle" => held'[t].snapshot.status = "SOLD"
         /\ pc'[t] \in PastSettling /\ held'[t].snapshot.status = "SOLD" => order' # NoOrder
  <1>0. /\ pc \in [Threads -> Label] /\ held \in [Threads -> Reply]
        /\ pc[t] = "settle" => held[t].snapshot.status = "SOLD"
        /\ pc[t] \in PastSettling /\ held[t].snapshot.status = "SOLD" => order # NoOrder
    BY DEF CoreInv, ServiceTypeOK, ThreadsInv
  <1>1. CASE t \in Starters
    BY <1>1, StarterCarries, RouteKeeps DEF PastSettling, RouteInv, StarterSteps
  <1>2. CASE t \in Cancellers
    BY <1>2, CancellerCarries, RouteKeeps DEF PastSettling, RouteInv, CancellerSteps
  <1>3. CASE t \in Bids /\ ((\E c \in Command : BidAccepted(t, c) \/ BidRepeated(t, c)
                                                \/ BidRejected(t, c))
                            \/ BidSave(t))
    <2>1. pc'[t] \in {"read", "save", "reread", "sync", "done"}
      BY <1>0, <1>3 DEF BidAccepted, BidRepeated, BidRejected, BidSave, Goto
    <2> QED BY <2>1 DEF PastSettling
  <1>4. CASE t \in Timers /\ (TimerFires(t) \/ TimerFinish(t) \/ TimerClear(t))
    <2>1. pc'[t] \in {"finish", "read", "sync", "clear", "done"}
      BY <1>0, <1>4 DEF TimerFires, TimerFinish, TimerClear, Goto
    <2> QED BY <2>1 DEF PastSettling
  <1>5. CASE ReadBack(t) \/ Broadcast(t)
    <2>1. pc'[t] \in {"save", "sync", "clear", "done"}
      BY <1>0, <1>5 DEF ReadBack, Broadcast, Goto, Exit
    <2> QED BY <2>1 DEF PastSettling
  <1>6. CASE SyncAuction(t)
    BY <1>0, <1>6 DEF SyncAuction, Goto, AfterSync, NeedsOrder, PastSettling
  <1>7. CASE Settle(t)
    BY <1>0, <1>7, SettleStores DEF Settle, Goto
  <1>8. CASE t \in Schedulers /\ (Schedule(t) \/ Register(t))
    <2>1. Timer(t) # t
      BY <1>8, ThreadKinds
    <2> QED BY <1>0, <1>8, <2>1, OrderStays DEF Schedule, Register, PastSettling
  <1>9. CASE StopFinishTimer(t)
    BY <1>0, <1>9, OrderStays DEF StopFinishTimer, PastSettling
  <1>10. CASE CallFails(t)
    BY <1>0, <1>10, OrderStays DEF CallFails, Goto, Exit, PastSettling
  <1>11. CASE Undisturbed(t)
    BY <1>0, <1>11, OrderStays DEF Undisturbed, PastSettling
  <1>12. CASE Ended(t)
    BY <1>0, <1>12 DEF Ended, PastSettling
  <1> QED BY <1>1, <1>2, <1>3, <1>4, <1>5, <1>6, <1>7, <1>8, <1>9, <1>10, <1>11, <1>12,
             OwnStep DEF Own

LEMMA ThreadsKeep ==
  ASSUME CoreInv, [Next]_vars
  PROVE  ThreadsInv'
  BY StarterCarries, CancellerCarries, SaleCarries DEF ThreadsInv

(* Where what has been broadcast comes from.                               *)
LEMMA EventMoves ==
  ASSUME CoreInv, [Next]_vars
  PROVE  \/ events' = events
         \/ \E t \in Threads :
              /\ Broadcast(t)
              /\ events' = events \cup {[type |-> EventType(t),
                                         status |-> held[t].snapshot.status]}
  BY StepCases
  DEF StartRead, StartUpdate, StartInit, CancelRead, CancelUpdate, CancelStore, BidAccepted,
      BidRepeated, BidRejected, BidSave, TimerFires, TimerFinish, TimerClear, ReadBack,
      SyncAuction, Settle, Schedule, Register, StopFinishTimer, Broadcast, CallFails,
      Crash, Environment, vars

LEMMA NewsKeeps ==
  ASSUME CoreInv, [Next]_vars
  PROVE  EndedNewsHasOrder'
  <1> SUFFICES ASSUME [type |-> "ended", status |-> "SOLD"] \in events'
               PROVE  order' # NoOrder
    BY DEF EndedNewsHasOrder
  <1>1. CASE [type |-> "ended", status |-> "SOLD"] \in events
    BY <1>1, OrderStays DEF CoreInv, EndedNewsHasOrder
  <1>2. CASE [type |-> "ended", status |-> "SOLD"] \notin events
    <2>1. PICK t \in Threads :
            /\ Broadcast(t)
            /\ events' = events \cup {[type |-> EventType(t),
                                       status |-> held[t].snapshot.status]}
      BY <1>2, EventMoves
    <2>2. held[t].snapshot.status = "SOLD" /\ pc[t] = "broadcast"
      BY <1>2, <2>1 DEF Broadcast, Goto
    <2> QED BY <2>2, OrderStays DEF CoreInv, ThreadsInv, PastSettling
  <1> QED BY <1>1, <1>2

-----------------------------------------------------------------------------
(* Theorems *)

LEMMA CoreInitInv ==
  ASSUME Init
  PROVE  CoreInv
  <1>1. /\ StoreTypeOK /\ snapshot = Absent /\ \A r \in Requests : requests[r] = NoReply
    BY StoreInitInv DEF Init, StoreInit, StoreInv
  <1>2. NewAuction \in Auction /\ NothingHeld \in Reply
    BY RulesAssumption DEF NewAuction, NothingHeld, Auction, Reply, Status, RulesValid
  <1>3. ServiceTypeOK
    BY <1>1, <1>2, ThreadsAssumption DEF Init, ServiceTypeOK, Label
  <1>4. RouteInv
    BY ThreadKinds DEF Init, RouteInv, StarterSteps, CancellerSteps, BidSteps, TimerSteps
  <1>5. WinnersInv
    BY <1>1 DEF Init, WinnersInv, HasWinner, NothingHeld, NewAuction, Absent
  <1>6. ThreadsInv
    BY ThreadKinds DEF Init, ThreadsInv, PastSettling
  <1> QED BY <1>3, <1>4, <1>5, <1>6 DEF Init, CoreInv, EndedNewsHasOrder

LEMMA CoreKeeps ==
  ASSUME CoreInv, [Next]_vars
  PROVE  CoreInv'
  <1>1. StoreTypeOK'
    BY StoreTypeKeeps
  <1>2. ServiceTypeOK'
    BY <1>1, TypeKeeps
  <1> QED BY <1>2, RouteKeeps, WinnersKeep, ThreadsKeep, NewsKeeps DEF CoreInv

(* The inductive invariant of the handlers, for any number of starts.      *)
THEOREM CoreInvariant == Spec => []CoreInv
  <1>1. Init => CoreInv
    BY CoreInitInv
  <1>2. CoreInv /\ [Next]_vars => CoreInv'
    BY CoreKeeps
  <1> QED BY <1>1, <1>2, PTL DEF Spec

(* Every variable keeps its type; among other things whoever settles from  *)
(* a snapshot that says SOLD finds a buyer in it.                          *)
THEOREM ServiceTypeCorrect == Spec => []ServiceTypeOK
  <1>1. CoreInv => ServiceTypeOK
    BY DEF CoreInv
  <1> QED BY <1>1, CoreInvariant, PTL

(* The event that ends a sold auction goes out only after its order is     *)
(* stored, for any number of users, bids and starts, failures and restarts *)
(* (auction.go:150-167 and 177-182).                                       *)
THEOREM EndedNewsAlwaysHasOrder == Spec => []EndedNewsHasOrder
  <1>1. CoreInv => EndedNewsHasOrder
    BY DEF CoreInv
  <1> QED BY <1>1, CoreInvariant, PTL

(* A handler, a timer and a settlement come to an end after at most        *)
(* fourteen steps of their own: none of them ever goes back to a step.     *)
ThreadsAdvance ==
  [][\A t \in Threads : pc'[t] = pc[t] \/ Rank(pc'[t]) < Rank(pc[t])]_vars

(* Every step of a thread lowers its rank, for any number of starts.       *)
THEOREM ThreadsAlwaysAdvance == Spec => ThreadsAdvance
  <1>1. CoreInv /\ [Next]_vars
          => [\A t \in Threads : pc'[t] = pc[t] \/ Rank(pc'[t]) < Rank(pc[t])]_vars
    BY StepAdvances
  <1> QED BY <1>1, CoreInvariant, PTL DEF Spec, ThreadsAdvance

-----------------------------------------------------------------------------
(* What the store decided is in hand *)

(* Until something fails every thread only takes its own steps.            *)
LEMMA NothingFailed ==
  ASSUME CoreInv, [Next]_vars, failures' = 0
  PROVE  failures = 0 /\ ~Crash /\ \A t \in Threads : ~CallFails(t)
  <1>1. failures \in Nat
    BY ThreadsAssumption DEF CoreInv, ServiceTypeOK
  <1>2. ~Crash /\ \A t \in Threads : ~CallFails(t)
    BY <1>1 DEF Crash, CallFails
  <1> QED BY <1>2, StepCases
          DEF StartRead, StartUpdate, StartInit, CancelRead, CancelUpdate, CancelStore,
              BidAccepted, BidRepeated, BidRejected, BidSave, TimerFires, TimerFinish,
              TimerClear, ReadBack, SyncAuction, Settle, Schedule, Register,
              StopFinishTimer, Broadcast, Environment, vars

(* The bid that sells the auction, and the timer that closes it, carry the *)
(* snapshot they made, or read it back next.                               *)
LEMMA BidCarries ==
  ASSUME CoreInv, NEW b \in Bids, NEW c \in Command, BidAccepted(b, c)
  PROVE  \E now \in Nat :
           /\ AcceptBid(c.user, c.request, c.amount, now)
           /\ snapshot' = AfterBid(c.user, c.amount, now)
           /\ snapshot.status = "RUNNING" /\ snapshot \in Auction /\ snapshot' \in Auction
           /\ held'[b] = [extended |-> Extends(c.amount, now), snapshot |-> snapshot']
           /\ pc[b] = "idle" /\ pc'[b] \in {"read", "save"}
           /\ \A t \in Threads \ {b} : pc'[t] = pc[t] /\ held'[t] = held[t]
  <1>1. /\ StoreTypeOK /\ b \in Threads
        /\ pc \in [Threads -> Label] /\ held \in [Threads -> Reply]
    BY ThreadKinds DEF CoreInv, ServiceTypeOK
  <1>2. PICK now \in Nat :
          /\ AcceptBid(c.user, c.request, c.amount, now)
          /\ snapshot \in Auction /\ snapshot.status = "RUNNING"
          /\ snapshot' = AfterBid(c.user, c.amount, now) /\ snapshot' \in Auction
          /\ requests'[c.request] =
               [extended |-> Extends(c.amount, now), snapshot |-> snapshot']
    BY <1>1, AcceptedFields
  <1>3. /\ held' = [held EXCEPT ![b] = requests'[c.request]]
        /\ pc[b] = "idle" /\ pc' = [pc EXCEPT ![b] = IF backend = "redis" THEN "read" ELSE "save"]
    BY DEF BidAccepted, Goto
  <1> QED BY <1>1, <1>2, <1>3

LEMMA FinishCarries ==
  ASSUME CoreInv, NEW t \in Timers, TimerFinish(t), snapshot' # snapshot
  PROVE  /\ held'[t].snapshot = snapshot'
         /\ pc'[t] \in {"read", "sync"}
         /\ snapshot'.status \in {"SOLD", "ENDED"}
  <1>1. /\ t \in Threads /\ pc \in [Threads -> Label] /\ held \in [Threads -> Reply]
    BY ThreadKinds DEF CoreInv, ServiceTypeOK
  <1>2. PICK now \in due[t]..clock :
          IF CanFinish(now)
            THEN /\ FinishExpired(now)
                 /\ Hold(t, snapshot')
                 /\ Goto(t, "finish", IF backend = "redis" THEN "read" ELSE "sync")
            ELSE UNCHANGED storeVars
    BY DEF TimerFinish
  <1>3. CanFinish(now)
    BY <1>2 DEF storeVars
  <1>4. /\ FinishExpired(now) /\ Hold(t, snapshot')
        /\ Goto(t, "finish", IF backend = "redis" THEN "read" ELSE "sync")
    BY <1>2, <1>3
  <1> QED BY <1>1, <1>4, ClosedFields DEF Hold, Goto, Reply

(* A closed auction stays as it is while the store keeps it, unless it is  *)
(* started once more.                                                      *)
LEMMA ClosedStays ==
  ASSUME CoreInv, [Next]_vars, snapshot.status \in Terminal, snapshot'.status \in Terminal
  PROVE  snapshot' = snapshot
  <1>1. StoreTypeOK
    BY DEF CoreInv, ServiceTypeOK
  <1>2. \A t \in Starters : StartInit(t) => held[t].snapshot.status = "RUNNING"
    BY DEF StartInit, Goto, CoreInv, ThreadsInv
  <1>3. \A b \in Bids, c \in Command : ~BidAccepted(b, c)
    BY <1>1, AcceptedFields DEF Terminal
  <1> QED BY <1>2, <1>3, SnapshotMoves, ClosedFields DEF Terminal, Absent

LEMMA SaleKeeps ==
  ASSUME CoreInv, SaleInHand, [Next]_vars
  PROVE  SaleInHand'
  <1> SUFFICES ASSUME failures' = 0, snapshot'.status = "SOLD", order' = NoOrder
               PROVE  \E t \in Threads : WillSettle(t)'
    BY DEF SaleInHand
  <1>0. /\ pc \in [Threads -> Label] /\ held \in [Threads -> Reply]
        /\ failures = 0 /\ ~Crash /\ \A t \in Threads : ~CallFails(t)
        /\ order = NoOrder
    BY NothingFailed, OrderStays DEF CoreInv, ServiceTypeOK
  <1>1. CASE snapshot.status = "SOLD"
    <2>1. PICK t \in Threads : WillSettle(t)
      BY <1>0, <1>1 DEF SaleInHand
    <2>2. Present /\ snapshot' = snapshot
      BY <1>1, ClosedStays DEF Terminal, Present, Absent
    <2>3. CASE Undisturbed(t)
      BY <2>1, <2>3 DEF Undisturbed, WillSettle
    <2>4. CASE ReadBack(t)
      <3>1. pc[t] \notin {"save", "sync", "settle"}
        BY <2>4 DEF ReadBack, Goto
      <3>2. /\ pc' = [pc EXCEPT ![t] = IF t \in Bids THEN "save" ELSE "sync"]
            /\ Hold(t, snapshot)
        BY <2>1, <2>2, <2>4, <3>1 DEF WillSettle, ReadBack, Goto
      <3> QED BY <1>0, <1>1, <3>2 DEF WillSettle, Hold, Reply
    <2>5. CASE t \in Bids /\ BidSave(t)
      BY <1>0, <2>1, <2>5 DEF BidSave, Goto, WillSettle
    <2>6. CASE SyncAuction(t)
      BY <1>0, <2>1, <2>6 DEF SyncAuction, Goto, WillSettle, AfterSync, NeedsOrder
    <2>7. ~Settle(t)
      BY SettleStores
    <2>8. CASE Own(t) /\ ~ReadBack(t) /\ ~(t \in Bids /\ BidSave(t)) /\ ~SyncAuction(t)
      BY <1>0, <2>1, <2>7, <2>8
      DEF Own, WillSettle, StartRead, StartUpdate, StartInit, CancelRead, CancelUpdate,
          CancelStore, BidAccepted, BidRepeated, BidRejected, TimerFires, TimerFinish,
          TimerClear, Schedule, Register, StopFinishTimer, Broadcast, Goto
    <2> QED BY <1>0, <2>3, <2>4, <2>5, <2>6, <2>8, OwnStep DEF Ended
  <1>2. CASE snapshot.status # "SOLD"
    <2>1. CASE \E b \in Bids, c \in Command : BidAccepted(b, c)
      <3>1. PICK b \in Bids, c \in Command : BidAccepted(b, c)
        BY <2>1
      <3>2. PICK now \in Nat :
              /\ held'[b] = [extended |-> Extends(c.amount, now), snapshot |-> snapshot']
              /\ pc'[b] \in {"read", "save"}
        BY <3>1, BidCarries
      <3> QED BY <3>2, ThreadKinds DEF WillSettle
    <2>2. CASE \E t \in Timers : TimerFinish(t)
      <3>1. PICK t \in Timers : TimerFinish(t)
        BY <2>2
      <3>2. /\ t \in Threads /\ pc'[t] \in {"read", "sync"}
            /\ held'[t].snapshot = snapshot'
        BY <1>2, <3>1, FinishCarries, ThreadKinds
      <3> QED BY <3>2 DEF WillSettle
    <2>3. \A t \in Starters : StartInit(t) => held[t].snapshot.status = "RUNNING"
      BY DEF StartInit, Goto, CoreInv, ThreadsInv
    <2> QED BY <1>2, <2>1, <2>2, <2>3, SnapshotMoves, ClosedFields DEF Absent
  <1> QED BY <1>1, <1>2

LEMMA ClosingKeeps ==
  ASSUME CoreInv, ClosingInHand, [Next]_vars
  PROVE  ClosingInHand'
  <1> DEFINE Heard == [type |-> ClosingType, status |-> snapshot.status] \in events
  <1> SUFFICES ASSUME failures' = 0, snapshot'.status \in Terminal
               PROVE  Heard' \/ \E t \in Threads : WillAnnounce(t)'
    BY DEF ClosingInHand
  <1>0. /\ pc \in [Threads -> Label] /\ held \in [Threads -> Reply]
        /\ failures = 0 /\ ~Crash /\ \A t \in Threads : ~CallFails(t)
    BY NothingFailed DEF CoreInv, ServiceTypeOK
  <1>1. CASE snapshot.status \in Terminal
    <2>1. Present /\ snapshot' = snapshot /\ ClosingType' = ClosingType
      BY <1>1, ClosedStays DEF Terminal, Present, Absent, ClosingType
    <2>2. CASE Heard
      BY <2>1, <2>2, EventMoves
    <2>3. CASE ~Heard
      <3>1. PICK t \in Threads : WillAnnounce(t)
        BY <1>0, <1>1, <2>3 DEF ClosingInHand
      <3>2. CASE pc[t] = "read"
        <4>1. \/ t \in Timers /\ snapshot.status # "CANCELLED"
              \/ t \in Bids /\ snapshot.status = "SOLD"
          BY <3>1, <3>2 DEF WillAnnounce
        <4>2. CASE Undisturbed(t)
          BY <2>1, <3>2, <4>1, <4>2 DEF Undisturbed, WillAnnounce
        <4>3. CASE ReadBack(t)
          <5>1. /\ pc' = [pc EXCEPT ![t] = IF t \in Bids THEN "save" ELSE "sync"]
                /\ Hold(t, snapshot)
            BY <2>1, <3>2, <4>3 DEF ReadBack, Goto
          <5>2. held'[t].snapshot = snapshot /\ pc'[t] \in {"save", "sync"}
            BY <1>0, <5>1 DEF Hold, Reply
          <5>3. EventType(t)' = ClosingType
            BY <4>1, <5>2, <1>1, ThreadKinds DEF EventType, ClosingType
          <5> QED BY <2>1, <5>2, <5>3 DEF WillAnnounce
        <4>4. ~Own(t) \/ ReadBack(t)
          BY <1>0, <3>2, <4>1, ThreadKinds
          DEF Own, BidAccepted, BidRepeated, BidRejected, BidSave, TimerFires, TimerFinish,
              TimerClear, SyncAuction, Settle, Schedule, Register, StopFinishTimer,
              Broadcast, Goto
        <4> QED BY <1>0, <4>2, <4>3, <4>4, OwnStep DEF Ended
      <3>3. CASE pc[t] \in {"save", "sync", "settle", "stop", "broadcast"}
        <4>1. held[t].snapshot.status = snapshot.status /\ EventType(t) = ClosingType
          BY <3>1, <3>3 DEF WillAnnounce
        <4>2. held'[t] = held[t] => EventType(t)' = EventType(t)
          BY DEF EventType
        <4>3. ASSUME pc'[t] \in {"save", "sync", "settle", "stop", "broadcast"},
                     held'[t] = held[t]
              PROVE  WillAnnounce(t)'
          BY <2>1, <4>1, <4>2, <4>3 DEF WillAnnounce
        <4>4. CASE Undisturbed(t)
          BY <3>3, <4>3, <4>4 DEF Undisturbed
        <4>5. CASE BidSave(t) \/ Settle(t) \/ StopFinishTimer(t)
          <5>1. pc'[t] \in {"sync", "stop", "broadcast"} /\ held' = held
            BY <1>0, <4>5 DEF BidSave, Settle, StopFinishTimer, Goto
          <5> QED BY <4>3, <5>1
        <4>6. CASE SyncAuction(t)
          <5>1. t \notin Starters /\ t \notin Cancellers
            BY <4>6 DEF SyncAuction, Goto, CoreInv, RouteInv, StarterSteps, CancellerSteps
          <5>2. t \in Timers \/ (t \in Bids /\ held[t].snapshot.status = "SOLD")
            <6>1. CASE t \in Bids /\ held[t].snapshot.status # "SOLD"
              <7>1. EventType(t) \in {"extended", "accepted"}
                BY <6>1, ThreadKinds DEF EventType
              <7> QED BY <4>1, <7>1 DEF ClosingType
            <6> QED BY <5>1, <6>1 DEF Threads
          <5>3. pc'[t] \in {"settle", "stop"} /\ held' = held
            BY <1>0, <4>6, <5>2 DEF SyncAuction, Goto, AfterSync, NeedsOrder
          <5> QED BY <4>3, <5>3
        <4>7. CASE Broadcast(t)
          BY <2>1, <4>1, <4>7 DEF Broadcast
        <4>8. ~Own(t) \/ BidSave(t) \/ Settle(t) \/ StopFinishTimer(t) \/ SyncAuction(t)
              \/ Broadcast(t)
          BY <1>0, <3>3
          DEF Own, StartRead, StartUpdate, StartInit, CancelRead, CancelUpdate, CancelStore,
              BidAccepted, BidRepeated, BidRejected, TimerFires, TimerFinish, TimerClear,
              ReadBack, Schedule, Register, Goto
        <4> QED BY <1>0, <4>4, <4>5, <4>6, <4>7, <4>8, OwnStep DEF Ended
      <3> QED BY <3>1, <3>2, <3>3 DEF WillAnnounce
    <2> QED BY <2>2, <2>3
  <1>2. CASE snapshot.status \notin Terminal
    <2>1. CASE \E b \in Bids, c \in Command : BidAccepted(b, c)
      <3>1. PICK b \in Bids, c \in Command : BidAccepted(b, c)
        BY <2>1
      <3>2. PICK now \in Nat :
              /\ held'[b] = [extended |-> Extends(c.amount, now), snapshot |-> snapshot']
              /\ pc'[b] \in {"read", "save"}
        BY <3>1, BidCarries
      <3>3. snapshot'.status = "SOLD"
        BY <3>1, AcceptedFields DEF CoreInv, ServiceTypeOK, Terminal
      <3>4. EventType(b)' = ClosingType'
        BY <3>2, <3>3, ThreadKinds DEF EventType, ClosingType
      <3> QED BY <3>2, <3>3, <3>4, ThreadKinds DEF WillAnnounce
    <2>2. CASE \E t \in Timers : TimerFinish(t)
      <3>1. PICK t \in Timers : TimerFinish(t)
        BY <2>2
      <3>2. /\ t \in Threads /\ pc'[t] \in {"read", "sync"}
            /\ held'[t].snapshot = snapshot' /\ snapshot'.status \in {"SOLD", "ENDED"}
        BY <1>2, <3>1, FinishCarries, ThreadKinds
      <3>3. EventType(t)' = ClosingType'
        BY <3>1, <3>2, ThreadKinds DEF EventType, ClosingType
      <3> QED BY <3>1, <3>2, <3>3 DEF WillAnnounce
    <2>3. CASE \E t \in Cancellers : CancelStore(t) /\ Cancel
      <3>1. PICK t \in Cancellers : CancelStore(t) /\ Cancel
        BY <2>3
      <3>2. t \in Threads /\ held[t].snapshot.status = "CANCELLED"
        BY <3>1, ThreadKinds DEF CancelStore, Goto, CoreInv, ThreadsInv
      <3>3. pc'[t] = "stop" /\ held' = held
        BY <1>0, <3>1, <3>2 DEF CancelStore, Goto
      <3>4. snapshot'.status = "CANCELLED"
        BY <3>1, ClosedFields
      <3>5. EventType(t)' = ClosingType'
        BY <3>1, <3>4, ThreadKinds DEF EventType, ClosingType
      <3> QED BY <3>2, <3>3, <3>4, <3>5 DEF WillAnnounce
    <2>4. \A t \in Starters : StartInit(t) => held[t].snapshot.status = "RUNNING"
      BY DEF StartInit, Goto, CoreInv, ThreadsInv
    <2> QED BY <1>2, <2>1, <2>2, <2>3, <2>4, SnapshotMoves DEF Terminal, Absent
  <1> QED BY <1>1, <1>2

(* A timer keeps its deadline from being armed until it is cleared.        *)
LEMMA DueMoves ==
  ASSUME CoreInv, [Next]_vars, ~Crash, NEW t \in Timers, pc[t] \notin {"idle", "clear"}
  PROVE  due'[t] = due[t]
  <1>0. due \in [Timers -> Nat]
    BY DEF CoreInv, ServiceTypeOK
  <1>1. CASE \E s \in Schedulers : Schedule(s)
    <2>1. PICK s \in Schedulers : Schedule(s)
      BY <1>1
    <2>2. pc[Timer(s)] = "idle"
      BY <2>1 DEF Schedule, CoreInv, RouteInv
    <2> QED BY <1>0, <2>1, <2>2 DEF Schedule
  <1>2. CASE \E u \in Timers : TimerClear(u)
    BY <1>0, <1>2 DEF TimerClear, Goto
  <1>3. CASE due' = due
    BY <1>3
  <1> QED BY <1>1, <1>2, <1>3, StepCases
          DEF StartRead, StartUpdate, StartInit, CancelRead, CancelUpdate, CancelStore,
              BidAccepted, BidRepeated, BidRejected, BidSave, TimerFires, TimerFinish,
              ReadBack, SyncAuction, Settle, Register, StopFinishTimer, Broadcast,
              CallFails, Environment, vars, timerVars

(* A timer that was stopped stays stopped.                                 *)
LEMMA StoppedStays ==
  ASSUME CoreInv, [Next]_vars, ~Crash, NEW t \in Timers, pc[t] = "stopped"
  PROVE  pc'[t] = "stopped" /\ due'[t] = due[t]
  <1>0. t \in Threads /\ t \notin Starters /\ t \notin Cancellers /\ t \notin Bids
    BY ThreadKinds
  <1>1. ~Own(t)
    BY <1>0, ThreadKinds
    DEF Own, TimerFires, TimerFinish, TimerClear, ReadBack, SyncAuction, Settle, Schedule,
        Register, StopFinishTimer, Broadcast, CallFails, Goto, RepoStep, RedisStep
  <1>2. Undisturbed(t)
    BY <1>0, <1>1, OwnStep DEF Ended
  <1> QED BY <1>2, DueMoves DEF Undisturbed

(* While the deadline stays, whoever has to see to it goes on to do so.    *)
LEMMA WillCloseStays ==
  ASSUME CoreInv, [Next]_vars, failures' = 0, snapshot' = snapshot,
         snapshot.status = "RUNNING", NEW s \in Schedulers, WillClose(s)
  PROVE  FinalTimerStopped' \/ WillClose(s)'
  <1>0. /\ pc \in [Threads -> Label] /\ held \in [Threads -> Reply] /\ due \in [Timers -> Nat]
        /\ ~Crash /\ \A t \in Threads : ~CallFails(t)
        /\ s \in Threads /\ s \notin Timers /\ s \notin Cancellers
        /\ Timer(s) \in Timers /\ Timer(s) \in Threads /\ Timer(s) \notin Bids
        /\ Timer(s) \notin Starters /\ Timer(s) \notin Cancellers /\ Timer(s) \notin Schedulers
        /\ StoreTypeOK /\ clock \in Nat
    BY NothingFailed, ThreadKinds DEF CoreInv, ServiceTypeOK, StoreTypeOK
  <1>1. CASE pc[Timer(s)] \in {"armed", "finish"} /\ due[Timer(s)] = snapshot.endsAt
    <2>1. due'[Timer(s)] = snapshot'.endsAt
      BY <1>0, <1>1, DueMoves
    <2>2. CASE Undisturbed(Timer(s))
      <3>1. pc'[Timer(s)] \in {"armed", "finish", "stopped"}
        BY <1>1, <2>2 DEF Undisturbed
      <3> QED BY <1>0, <2>1, <3>1 DEF WillClose, FinalTimerStopped
    <2>3. CASE TimerFires(Timer(s))
      BY <1>0, <2>1, <2>3 DEF TimerFires, Goto, WillClose
    <2>4. ~TimerFinish(Timer(s))
      <3> SUFFICES ASSUME TimerFinish(Timer(s))
                   PROVE  FALSE
        OBVIOUS
      <3>1. PICK now \in due[Timer(s)]..clock :
              IF CanFinish(now) THEN FinishExpired(now) ELSE UNCHANGED storeVars
        BY DEF TimerFinish
      <3>2. CanFinish(now)
        BY <1>1, <3>1 DEF CanFinish
      <3> QED BY <3>1, <3>2, ClosedFields
    <2>5. ~Own(Timer(s)) \/ TimerFires(Timer(s)) \/ TimerFinish(Timer(s))
      BY <1>0, <1>1 DEF Own, TimerClear, ReadBack, SyncAuction, Settle, StopFinishTimer,
                        Broadcast, Goto
    <2> QED BY <1>0, <2>2, <2>3, <2>4, <2>5, OwnStep DEF Ended
  <1>2. CASE pc[s] = "schedule" /\ held[s].snapshot.endsAt = snapshot.endsAt
    <2>1. CASE Undisturbed(s)
      BY <1>0, <1>2, <2>1, ThreadKinds DEF Undisturbed, WillClose
    <2>2. CASE Schedule(s)
      BY <1>0, <1>2, <2>2 DEF Schedule, WillClose
    <2>3. ~Own(s) \/ Schedule(s)
      BY <1>0, <1>2
      DEF Own, StartRead, StartUpdate, StartInit, BidAccepted, BidRepeated, BidRejected,
          BidSave, ReadBack, SyncAuction, Settle, Register, StopFinishTimer, Broadcast, Goto
    <2> QED BY <1>0, <2>1, <2>2, <2>3, OwnStep DEF Ended
  <1>3. CASE /\ held[s].extended
             /\ \/ pc[s] = "read"
                \/ /\ pc[s] \in {"save", "sync"}
                   /\ held[s].snapshot.status = "RUNNING"
                   /\ held[s].snapshot.endsAt = snapshot.endsAt
    <2>1. CASE Undisturbed(s)
      BY <1>0, <1>3, <2>1 DEF Undisturbed, WillClose
    <2>2. CASE ReadBack(s)
      <3>1. pc[s] = "read" /\ Present /\ s \in Bids
        BY <1>3, <2>2, ThreadKinds
        DEF ReadBack, Goto, Present, Absent, CoreInv, RouteInv, StarterSteps
      <3>2. pc' = [pc EXCEPT ![s] = "save"] /\ Hold(s, snapshot)
        BY <2>2, <3>1 DEF ReadBack, Goto
      <3>3. pc'[s] = "save" /\ held'[s].snapshot = snapshot /\ held'[s].extended = held[s].extended
        BY <1>0, <3>2 DEF Hold, Reply
      <3> QED BY <1>3, <3>3 DEF WillClose
    <2>3. CASE s \in Bids /\ BidSave(s)
      BY <1>0, <1>3, <2>3 DEF BidSave, Goto, WillClose
    <2>4. CASE SyncAuction(s)
      BY <1>0, <1>3, <2>4 DEF SyncAuction, Goto, AfterSync, NeedsOrder, WillClose
    <2>5. ~Own(s) \/ ReadBack(s) \/ (s \in Bids /\ BidSave(s)) \/ SyncAuction(s)
      BY <1>0, <1>3
      DEF Own, StartRead, StartUpdate, StartInit, BidAccepted, BidRepeated, BidRejected,
          Settle, Schedule, Register, StopFinishTimer, Broadcast, Goto
    <2> QED BY <1>0, <2>1, <2>2, <2>3, <2>4, <2>5, OwnStep DEF Ended
  <1> QED BY <1>1, <1>2, <1>3 DEF WillClose

(* An accepted bid takes over the deadline it extends, and leaves any      *)
(* other as it is.                                                         *)
LEMMA BidDeadline ==
  ASSUME CoreInv, DeadlineInHand, [Next]_vars, failures' = 0, snapshot'.status = "RUNNING",
         NEW b \in Bids, NEW c \in Command, BidAccepted(b, c)
  PROVE  FinalTimerStopped' \/ \E s \in Schedulers : WillClose(s)'
  <1>0. /\ failures = 0 /\ b \in Schedulers /\ b \notin Timers
        /\ \A t \in Timers : t \in Threads \ {b}
        /\ \A s \in Schedulers : s \in Threads /\ Timer(s) \in Timers
    BY NothingFailed, ThreadKinds
  <1>1. PICK now \in Nat :
          /\ AcceptBid(c.user, c.request, c.amount, now)
          /\ snapshot' = AfterBid(c.user, c.amount, now)
          /\ snapshot.status = "RUNNING" /\ snapshot \in Auction /\ snapshot' \in Auction
          /\ held'[b] = [extended |-> Extends(c.amount, now), snapshot |-> snapshot']
          /\ pc[b] = "idle" /\ pc'[b] \in {"read", "save"}
          /\ \A t \in Threads \ {b} : pc'[t] = pc[t] /\ held'[t] = held[t]
    BY BidCarries
  <1>2. CASE Extends(c.amount, now)
    BY <1>0, <1>1, <1>2 DEF WillClose
  <1>3. CASE ~Extends(c.amount, now)
    <2>1. snapshot'.endsAt = snapshot.endsAt
      BY <1>1, <1>3, AuctionIsPresent DEF AfterBid
    <2>2. due' = due
      BY DEF BidAccepted, timerVars
    <2>3. CASE FinalTimerStopped
      BY <1>0, <1>1, <2>1, <2>2, <2>3 DEF FinalTimerStopped
    <2>4. CASE \E s \in Schedulers : WillClose(s)
      <3>1. PICK s \in Schedulers : WillClose(s)
        BY <2>4
      <3>2. pc'[Timer(s)] = pc[Timer(s)] /\ due'[Timer(s)] = due[Timer(s)]
        BY <1>0, <1>1, <2>2
      <3>3. s # b => pc'[s] = pc[s] /\ held'[s] = held[s]
        BY <1>0, <1>1
      <3> QED BY <1>1, <2>1, <3>1, <3>2, <3>3 DEF WillClose
    <2> QED BY <1>0, <1>1, <2>3, <2>4 DEF DeadlineInHand
  <1> QED BY <1>2, <1>3

LEMMA DeadlineKeeps ==
  ASSUME CoreInv, DeadlineInHand, [Next]_vars
  PROVE  DeadlineInHand'
  <1> SUFFICES ASSUME failures' = 0, snapshot'.status = "RUNNING"
               PROVE  FinalTimerStopped' \/ \E s \in Schedulers : WillClose(s)'
    BY DEF DeadlineInHand
  <1>0. failures = 0 /\ ~Crash
    BY NothingFailed
  <1>1. CASE snapshot' = snapshot
    <2>1. CASE FinalTimerStopped
      BY <1>0, <1>1, <2>1, StoppedStays DEF FinalTimerStopped
    <2>2. CASE \E s \in Schedulers : WillClose(s)
      BY <1>1, <2>2, WillCloseStays
    <2> QED BY <1>0, <1>1, <2>1, <2>2 DEF DeadlineInHand
  <1>2. CASE \E t \in Starters : StartInit(t) /\ snapshot' = held[t].snapshot
    <2>1. PICK t \in Starters : StartInit(t) /\ snapshot' = held[t].snapshot
      BY <1>2
    <2>2. t \in Threads /\ t \in Schedulers /\ pc \in [Threads -> Label]
      BY ThreadKinds DEF CoreInv, ServiceTypeOK
    <2>3. pc'[t] = "schedule" /\ held' = held
      BY <2>1, <2>2 DEF StartInit, Goto
    <2> QED BY <2>1, <2>2, <2>3 DEF WillClose
  <1>3. CASE \E b \in Bids, c \in Command : BidAccepted(b, c)
    BY <1>3, BidDeadline
  <1> QED BY <1>1, <1>2, <1>3, SnapshotMoves, ClosedFields DEF Absent

InHand == SaleInHand /\ ClosingInHand /\ DeadlineInHand

(* The three are inductive over what the threads carry.                    *)
THEOREM InHandInvariant == Spec => [](CoreInv /\ InHand)
  <1>1. Init => CoreInv /\ InHand
    BY CoreInitInv
    DEF Init, StoreInit, Absent, InHand, SaleInHand, ClosingInHand, DeadlineInHand, Terminal
  <1>2. CoreInv /\ InHand /\ [Next]_vars => (CoreInv /\ InHand)'
    BY CoreKeeps, SaleKeeps, ClosingKeeps, DeadlineKeeps DEF InHand
  <1> QED BY <1>1, <1>2, PTL DEF Spec

(* A sale without an order is always in the hands of a thread that is      *)
(* about to settle it, until something fails.                              *)
THEOREM SaleAlwaysInHand == Spec => []SaleInHand
  <1>1. CoreInv /\ InHand => SaleInHand
    BY DEF InHand
  <1> QED BY <1>1, InHandInvariant, PTL

(* The closing has been announced, or is about to be by a thread that      *)
(* carries the right type and status, until something fails.               *)
THEOREM ClosingAlwaysInHand == Spec => []ClosingInHand
  <1>1. CoreInv /\ InHand => ClosingInHand
    BY DEF InHand
  <1> QED BY <1>1, InHandInvariant, PTL

(* The deadline in force has a timer of its own, or is about to get one,   *)
(* unless that timer was stopped, until something fails.                   *)
THEOREM DeadlineAlwaysInHand == Spec => []DeadlineInHand
  <1>1. CoreInv /\ InHand => DeadlineInHand
    BY DEF InHand
  <1> QED BY <1>1, InHandInvariant, PTL

(* No handler is running, and no timer has fired that is not done.         *)
AtRest == \A t \in Threads : pc[t] \in {"idle", "armed", "stopped", "clear", "done"}

(* Whenever the handlers have come to rest, a sale has its order, the room *)
(* has heard of a closing, and the deadline of a running auction has a     *)
(* timer waiting for it unless that one was stopped.                       *)
NothingForgotten ==
  failures = 0 /\ AtRest =>
    /\ snapshot.status = "SOLD" => order # NoOrder
    /\ snapshot.status \in Terminal =>
         [type |-> ClosingType, status |-> snapshot.status] \in events
    /\ snapshot.status = "RUNNING" =>
         \E t \in Timers : pc[t] \in {"armed", "stopped"} /\ due[t] = snapshot.endsAt

(* What is in hand is done once nobody has anything left to do.            *)
THEOREM NothingEverForgotten == Spec => []NothingForgotten
  <1>1. CoreInv /\ InHand => NothingForgotten
    <2> SUFFICES ASSUME CoreInv, InHand, failures = 0, AtRest
                 PROVE  NothingForgotten
      BY DEF NothingForgotten
    <2>1. \A t \in Threads : ~WillSettle(t) /\ ~WillAnnounce(t)
      BY DEF AtRest, WillSettle, WillAnnounce
    <2>2. ASSUME NEW s \in Schedulers, WillClose(s)
          PROVE  \E t \in Timers : pc[t] \in {"armed", "stopped"} /\ due[t] = snapshot.endsAt
      <3>1. s \in Threads /\ Timer(s) \in Timers /\ Timer(s) \in Threads
        BY ThreadKinds
      <3> QED BY <2>2, <3>1 DEF WillClose, AtRest
    <2> QED BY <2>1, <2>2 DEF InHand, SaleInHand, ClosingInHand, DeadlineInHand,
                              FinalTimerStopped, NothingForgotten
  <1> QED BY <1>1, InHandInvariant, PTL

=============================================================================
