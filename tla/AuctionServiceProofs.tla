------------------------ MODULE AuctionServiceProofs ------------------------
(***************************************************************************)
(* What an auction that one call starts keeps besides, for all rules,      *)
(* users, requests, numbers of bids and cancellations, failed calls and    *)
(* restarts, on either store.  Two starts at once break it: the second     *)
(* opens the auction anew over bids and orders of the first (run           *)
(* double_start), so it stays apart from ServiceCoreProofs.                *)
(***************************************************************************)
EXTENDS ServiceCoreProofs

StartedOnce == \A s, t \in Starters : s = t

-----------------------------------------------------------------------------
(* The inductive invariant *)

(* A copy that says DRAFT has not been touched.                            *)
Sane(a) == a.status = "DRAFT" => a = NewAuction

(* A copy the store has passed or equals.                                  *)
Behind(a) ==
  /\ a.price <= snapshot.price
  /\ a.endsAt <= snapshot.endsAt
  /\ a.status \in {"SOLD", "ENDED"} => a = snapshot

(* A copy the store will pass once the start reaches it.                   *)
BeforeOpening(a) ==
  /\ a.status \notin {"SOLD", "ENDED"}
  /\ a.price = StartPrice
  /\ \A s \in Starters :
       /\ pc[s] = "idle" => a.endsAt = 0
       /\ pc[s] \in {"update", "init"} => a.endsAt <= held[s].snapshot.endsAt

Good(a) ==
  /\ Sane(a)
  /\ Present => Behind(a)
  /\ expireAt = 0 => BeforeOpening(a)

(* Every copy outside the store is good: the repository's, the threads',   *)
(* and the remembered answers a repeated request will be given.            *)
CopiesInv ==
  /\ Good(auction)
  /\ Good(NewAuction)
  /\ \A t \in Threads : Good(held[t].snapshot)
  /\ \A r \in Requests : requests[r] # NoReply =>
       /\ Sane(requests[r].snapshot)
       /\ requests[r].snapshot.status # "ENDED"

(* Until the starting thread has called InitAuction there is no store      *)
(* state, and it carries a fresh running auction there.                    *)
StarterInv ==
  \A s \in Starters :
    /\ pc[s] \in {"idle", "update", "init"} => expireAt = 0
    /\ pc[s] \in {"update", "init"} =>
         /\ held[s].snapshot.status = "RUNNING"
         /\ held[s].snapshot.price = StartPrice
         /\ held[s].snapshot.leader = NoUser

OrderInv ==
  /\ expireAt = 0 => order = NoOrder
  /\ OrderMatchesSale

(* Bid calls whose bid the store took, as far as the audit is concerned.   *)
Won(b) == b \in audit \/ pc[b] \in {"read", "save"}

AuditInv ==
  /\ \A b \in Bids :
       /\ pc[b] = "idle" => b \notin audit
       /\ Won(b) =>
            /\ command[b] # NoCommand
            /\ expireAt # 0
            /\ Present => command[b].amount <= snapshot.price
  /\ \A b, c \in Bids :
       Won(b) /\ Won(c) /\ command[b].request = command[c].request => b = c

ServiceInv ==
  /\ CoreInv
  /\ StoreInv
  /\ CopiesInv
  /\ StarterInv
  /\ OrderInv
  /\ AuditInv

-----------------------------------------------------------------------------
(* The steps *)

(* A restart: Redis keeps everything, MemoryStore nothing.                 *)
LEMMA CrashKeeps ==
  ASSUME StoreInv, Crash
  PROVE  StoreInv'
  <1>1. CASE backend = "redis"
    BY <1>1, StutterKeeps DEF Crash
  <1>2. CASE backend # "redis"
    <2>1. /\ snapshot' = Absent
          /\ amounts' = [u \in Users |-> -1]
          /\ rankSeq' = [u \in Users |-> 0]
          /\ seq' = 0
          /\ requests' = [r \in Requests |-> NoReply]
          /\ UNCHANGED <<backend, expireAt, clock>>
      BY <1>2 DEF Crash
    <2>2. StoreTypeOK'
      BY <2>1 DEF StoreInv, StoreTypeOK
    <2>3. Lifecycle'
      BY <2>1 DEF Lifecycle, Unopened, Absent
    <2>4. LeaderHoldsPrice' /\ RepliesTruthful'
      BY <2>1 DEF LeaderHoldsPrice, RepliesTruthful, Present
    <2>5. RankingSpaced'
      BY <2>1 DEF RankingSpaced, Ranked
    <2>6. ClosureJustified'
      BY <2>1 DEF ClosureJustified, Absent
    <2> QED BY <2>2, <2>3, <2>4, <2>5, <2>6 DEF StoreInv
  <1> QED BY <1>1, <1>2

(* The start opens the store's auction, once.                              *)
LEMMA StartInitOpens ==
  ASSUME ServiceInv, NEW t \in Starters, StartInit(t)
  PROVE  /\ expireAt = 0
         /\ held[t].snapshot \in Auction
         /\ held[t].snapshot.status = "RUNNING"
         /\ held[t].snapshot.price = StartPrice
         /\ held[t].snapshot.leader = NoUser
         /\ InitAuction(held[t].snapshot)
  <1>1. pc[t] = "init" /\ InitAuction(held[t].snapshot)
    BY DEF StartInit, Goto
  <1>2. held[t] \in Reply
    BY ThreadKinds DEF ServiceInv, CoreInv, ServiceTypeOK
  <1> QED BY <1>1, <1>2 DEF ServiceInv, StarterInv, Reply

(* What a step may do to the store, seen from the copies outside.          *)
SnapshotAdvances ==
  /\ expireAt' = expireAt
  /\ \/ snapshot' = snapshot
     \/ snapshot' = Absent
     \/ /\ snapshot.status = "RUNNING"
        /\ snapshot' \in Auction
        /\ snapshot'.price >= snapshot.price
        /\ snapshot'.endsAt >= snapshot.endsAt

LEMMA StoreKeeps ==
  ASSUME ServiceInv, [Next]_vars
  PROVE  /\ StoreInv'
         /\ SnapshotAdvances \/ \E t \in Starters : StartInit(t)
  <1>1. StoreInv /\ clock \in Nat
    BY DEF ServiceInv, StoreInv, StoreTypeOK
  <1>2. CASE UNCHANGED storeVars
    BY <1>1, <1>2, StutterKeeps DEF SnapshotAdvances, storeVars
  <1>3. CASE \E t \in Starters : StartInit(t)
    BY <1>1, <1>3, StartInitOpens, InitAuctionKeeps
  <1>4. CASE \E b \in Bids, c \in Command : BidAccepted(b, c)
    <2>1. PICK b \in Bids, c \in Command, now \in 0..clock :
            AcceptBid(c.user, c.request, c.amount, now)
      BY <1>4 DEF BidAccepted
    <2>2. now \in Nat /\ c.user \in Users /\ c.request \in Requests /\ c.amount \in Amounts
      BY <1>1, <2>1 DEF Command
    <2>3. StoreTypeOK /\ Acceptable(c.amount, now)
      BY <1>1, <2>1 DEF StoreInv, AcceptBid
    <2>4. snapshot.price \in Nat /\ snapshot.status = "RUNNING" /\ c.amount >= snapshot.price
      BY <2>2, <2>3, AcceptableRaises, AuctionIsPresent
    <2>5. snapshot' = AfterBid(c.user, c.amount, now) /\ expireAt' = expireAt
      BY <2>1 DEF AcceptBid
    <2> QED BY <1>1, <2>1, <2>2, <2>3, <2>4, <2>5, AfterBidFields, AcceptBidKeeps
            DEF SnapshotAdvances
  <1>5. CASE Cancel
    <2>1. snapshot.status = "RUNNING" /\ snapshot \in Auction
      BY <1>1, <1>5 DEF StoreInv, StoreTypeOK, Lifecycle, Cancel, CanCancel, Absent
    <2>2. /\ snapshot' \in Auction /\ expireAt' = expireAt
          /\ snapshot'.price = snapshot.price /\ snapshot'.endsAt = snapshot.endsAt
      BY <1>5, <2>1 DEF Cancel, Cancelled, Auction, Status
    <2> QED BY <1>1, <1>5, <2>1, <2>2, CancelKeeps, AuctionIsPresent DEF SnapshotAdvances
  <1>6. CASE \E t \in Timers : TimerFinish(t)
    <2>0. PICK t \in Timers : TimerFinish(t)
      BY <1>6
    <2>1. PICK now \in due[t]..clock :
            IF CanFinish(now) THEN FinishExpired(now) ELSE UNCHANGED storeVars
      BY <2>0 DEF TimerFinish
    <2>2. now \in Nat /\ now <= clock
      BY <1>1, <2>1 DEF ServiceInv, CoreInv, ServiceTypeOK
    <2>3. CASE CanFinish(now)
      <3>1. snapshot.status = "RUNNING" /\ snapshot \in Auction /\ FinishExpired(now)
        BY <1>1, <2>1, <2>3 DEF StoreInv, StoreTypeOK, CanFinish, Absent
      <3>2. /\ snapshot' \in Auction /\ expireAt' = expireAt
            /\ snapshot'.price = snapshot.price /\ snapshot'.endsAt = snapshot.endsAt
        BY <3>1 DEF FinishExpired, Auction, Status
      <3> QED BY <1>1, <2>2, <3>1, <3>2, FinishExpiredKeeps, AuctionIsPresent
              DEF SnapshotAdvances
    <2>4. CASE ~CanFinish(now)
      BY <1>2, <2>1, <2>4
    <2> QED BY <2>3, <2>4
  <1>7. CASE Environment
    <2>1. CASE \E request \in Requests : ExpireRequest(request)
      BY <1>1, <2>1, ExpireRequestKeeps DEF ExpireRequest, SnapshotAdvances
    <2>2. CASE ExpireSnapshot
      BY <1>1, <2>2, ExpireSnapshotKeeps DEF ExpireSnapshot, SnapshotAdvances
    <2>3. CASE Tick
      BY <1>1, <2>3, TickKeeps DEF Tick, SnapshotAdvances
    <2> QED BY <1>7, <2>1, <2>2, <2>3 DEF Environment
  <1>8. CASE Crash
    BY <1>1, <1>8, CrashKeeps DEF Crash, SnapshotAdvances, storeVars
  <1> QED
    BY <1>2, <1>3, <1>4, <1>5, <1>6, <1>7, <1>8, StepCases
    DEF StartRead, StartUpdate, CancelRead, CancelUpdate, CancelStore, BidRepeated,
        BidRejected, BidSave, TimerFires, TimerClear, ReadBack, SyncAuction, Settle,
        Schedule, Register, StopFinishTimer, Broadcast, CallFails, vars

-----------------------------------------------------------------------------
(* The starting thread *)

(* Where a starter is at its first three steps it has just come there by   *)
(* its own step, or it has not moved.                                      *)
LEMMA StarterStays ==
  ASSUME ServiceInv, [Next]_vars, NEW s \in Starters
  PROVE  \/ pc'[s] \notin {"idle", "update", "init"}
         \/ pc'[s] = pc[s] /\ (pc[s] = "idle" \/ held'[s] = held[s])
         \/ StartRead(s) /\ pc[s] = "idle" /\ pc'[s] = "update"
         \/ StartUpdate(s) /\ pc[s] = "update" /\ pc'[s] = "init" /\ held'[s] = held[s]
  <1>0. /\ pc \in [Threads -> Label] /\ held \in [Threads -> Reply]
        /\ s \in Threads /\ s \notin Cancellers /\ s \notin Bids /\ s \notin Timers
    BY ThreadKinds DEF ServiceInv, CoreInv, ServiceTypeOK
  <1>1. CASE StartRead(s) \/ StartUpdate(s) \/ StartInit(s)
    BY <1>0, <1>1 DEF StartRead, StartUpdate, StartInit, Goto, Hold
  <1>2. CASE ReadBack(s) \/ SyncAuction(s) \/ Settle(s) \/ Broadcast(s) \/ CallFails(s)
    BY <1>0, <1>2
    DEF ReadBack, SyncAuction, Settle, Broadcast, CallFails, Goto, Exit, AfterSync
  <1>3. CASE s \in Schedulers /\ (Schedule(s) \/ Register(s))
    BY <1>0, <1>3, ThreadKinds DEF Schedule, Register
  <1>4. CASE StopFinishTimer(s)
    BY <1>0, <1>4 DEF StopFinishTimer
  <1>5. CASE Undisturbed(s) \/ Ended(s)
    BY <1>0, <1>5 DEF Undisturbed, Ended
  <1> QED BY <1>0, <1>1, <1>2, <1>3, <1>4, <1>5, OwnStep DEF Own, ServiceInv

(* What the starting thread reads is a new auction.                        *)
LEMMA StartReadsNew ==
  ASSUME ServiceInv, NEW s \in Starters, StartRead(s), pc'[s] = "update"
  PROVE  \E now \in Nat : held'[s].snapshot = Started(NewAuction, now)
  <1>1. s \in Threads /\ pc \in [Threads -> Label] /\ held \in [Threads -> Reply]
    BY ThreadKinds DEF ServiceInv, CoreInv, ServiceTypeOK
  <1>2. CanStart(auction) /\ \E now \in 0..clock : Hold(s, Started(auction, now))
    BY <1>1 DEF StartRead, Goto
  <1>3. auction = NewAuction
    BY <1>2 DEF CanStart, ServiceInv, CopiesInv, Good, Sane
  <1>4. PICK now \in 0..clock : Hold(s, Started(auction, now))
    BY <1>2
  <1>5. now \in Nat
    BY DEF ServiceInv, StoreInv, StoreTypeOK
  <1> QED BY <1>1, <1>3, <1>4, <1>5 DEF Hold, Reply

LEMMA StarterKeeps ==
  ASSUME StartedOnce, ServiceInv, [Next]_vars
  PROVE  StarterInv'
  <1> SUFFICES ASSUME NEW s \in Starters, pc'[s] \in {"idle", "update", "init"}
               PROVE  /\ expireAt' = 0
                      /\ pc'[s] \in {"update", "init"} =>
                           /\ held'[s].snapshot.status = "RUNNING"
                           /\ held'[s].snapshot.price = StartPrice
                           /\ held'[s].snapshot.leader = NoUser
    BY DEF StarterInv
  <1>1. pc[s] \in {"idle", "update", "init"}
    BY StarterStays
  <1>2. expireAt = 0
    BY <1>1 DEF ServiceInv, StarterInv
  <1>3. expireAt' = expireAt
    <2>1. CASE \E t \in Starters : StartInit(t)
      <3>1. StartInit(s)
        BY <2>1 DEF StartedOnce
      <3>2. pc'[s] = "schedule"
        BY <3>1, ThreadKinds DEF StartInit, Goto, ServiceInv, CoreInv, ServiceTypeOK
      <3> QED BY <3>2
    <2>2. CASE ~ \E t \in Starters : StartInit(t)
      BY <2>2, StoreKeeps DEF SnapshotAdvances
    <2> QED BY <2>1, <2>2
  <1>4. CASE StartRead(s) /\ pc'[s] = "update"
    <2>1. PICK now \in Nat : held'[s].snapshot = Started(NewAuction, now)
      BY <1>4, StartReadsNew
    <2> QED BY <1>2, <1>3, <1>4, <2>1, StartedFields
  <1>5. CASE ~(StartRead(s) /\ pc'[s] = "update")
    BY <1>2, <1>3, <1>5, StarterStays DEF ServiceInv, StarterInv
  <1> QED BY <1>4, <1>5

-----------------------------------------------------------------------------
(* Copies of the record *)

(* Nothing was sold, ended or even opened while there is no store state.   *)
LEMMA NothingWhileUnopened ==
  ASSUME StoreInv, expireAt = 0
  PROVE  ~Present /\ snapshot = Absent /\ \A r \in Requests : requests[r] = NoReply
  BY DEF StoreInv, Lifecycle, Unopened, Present

(* A good copy stays good, whatever step is taken.                         *)
LEMMA GoodStays ==
  ASSUME StartedOnce, ServiceInv, [Next]_vars, NEW a \in Auction, Good(a)
  PROVE  Good(a)'
  <1>1. StoreInv /\ StoreInv'
    BY StoreKeeps DEF ServiceInv
  <1>2. a.price \in Nat /\ a.endsAt \in Nat /\ a # Absent
    BY AuctionIsPresent
  <1>3. CASE \E t \in Starters : StartInit(t)
    <2>1. PICK t \in Starters : StartInit(t)
      BY <1>3
    <2>2. /\ expireAt = 0 /\ held[t].snapshot.price = StartPrice
          /\ InitAuction(held[t].snapshot) /\ pc[t] = "init"
      BY <2>1, StartInitOpens DEF StartInit, Goto
    <2>3. snapshot' = held[t].snapshot /\ expireAt' # 0
      BY <1>1, <2>2, StoreAssumption DEF InitAuction, StoreInv, StoreTypeOK
    <2>4. BeforeOpening(a)
      BY <2>2 DEF Good
    <2>5. StartPrice \in Nat
      BY RulesAssumption DEF RulesValid
    <2>6. Behind(a)'
      BY <2>2, <2>3, <2>4, <2>5 DEF BeforeOpening, Behind
    <2> QED BY <2>3, <2>6 DEF Good, Sane
  <1>4. CASE ~ \E t \in Starters : StartInit(t)
    <2>1. SnapshotAdvances
      BY <1>4, StoreKeeps
    <2>2. Present' => Behind(a)'
      <3>1. CASE snapshot' = snapshot
        BY <3>1 DEF Good, Behind, Present
      <3>2. CASE snapshot' = Absent
        BY <3>2 DEF Present
      <3>3. CASE /\ snapshot.status = "RUNNING"
                 /\ snapshot' \in Auction
                 /\ snapshot'.price >= snapshot.price
                 /\ snapshot'.endsAt >= snapshot.endsAt
        <4>1. Present /\ snapshot \in Auction
          BY <1>1, <3>3 DEF Present, Absent, StoreInv, StoreTypeOK
        <4>2. Behind(a)
          BY <4>1 DEF Good
        <4>3. a.status \notin {"SOLD", "ENDED"}
          BY <3>3, <4>2 DEF Behind
        <4>4. /\ snapshot.price \in Nat /\ snapshot'.price \in Nat
              /\ snapshot.endsAt \in Nat /\ snapshot'.endsAt \in Nat
          BY <3>3, <4>1, AuctionIsPresent
        <4> QED BY <1>2, <3>3, <4>2, <4>3, <4>4 DEF Behind
      <3> QED BY <2>1, <3>1, <3>2, <3>3 DEF SnapshotAdvances
    <2>3. expireAt' = 0 => BeforeOpening(a)'
      <3> SUFFICES ASSUME expireAt' = 0
                   PROVE  BeforeOpening(a)'
        OBVIOUS
      <3>1. BeforeOpening(a)
        BY <2>1 DEF SnapshotAdvances, Good
      <3>2. ASSUME NEW s \in Starters
            PROVE  /\ pc'[s] = "idle" => a.endsAt = 0
                   /\ pc'[s] \in {"update", "init"} => a.endsAt <= held'[s].snapshot.endsAt
        <4>1. CASE StartRead(s) /\ pc[s] = "idle" /\ pc'[s] = "update"
          <5>1. PICK now \in Nat : held'[s].snapshot = Started(NewAuction, now)
            BY <1>1, <4>1, StartReadsNew
          <5>2. held'[s].snapshot.endsAt \in Nat
            BY <5>1, StartedFields, AuctionIsPresent
          <5>3. a.endsAt = 0
            BY <3>1, <4>1 DEF BeforeOpening
          <5> QED BY <4>1, <5>2, <5>3
        <4>2. CASE ~(StartRead(s) /\ pc[s] = "idle" /\ pc'[s] = "update")
          BY <3>1, <4>2, StarterStays DEF BeforeOpening
        <4> QED BY <4>1, <4>2
      <3> QED BY <3>1, <3>2 DEF BeforeOpening
    <2> QED BY <2>2, <2>3 DEF Good, Sane
  <1> QED BY <1>3, <1>4

(* The store's own snapshot, as a handler brings it back after a step.     *)
LEMMA StoreCopyGood ==
  ASSUME StoreInv', Present'
  PROVE  Good(snapshot)'
  <1>1. Sane(snapshot)'
    BY UsersAssumption DEF StoreInv, Lifecycle, ClosureJustified, Sane
  <1>2. snapshot' \in Auction
    BY DEF StoreInv, StoreTypeOK, Present
  <1>3. Behind(snapshot)'
    BY <1>2, AuctionIsPresent DEF Behind
  <1>4. expireAt' # 0
    BY DEF StoreInv, Lifecycle, Unopened, Present
  <1> QED BY <1>1, <1>3, <1>4 DEF Good

(* A remembered answer.                                                    *)
LEMMA ReplyGood ==
  ASSUME ServiceInv, NEW r \in Requests, requests[r] # NoReply
  PROVE  Good(requests[r].snapshot)
  <1>1. Sane(requests[r].snapshot)
    BY DEF ServiceInv, CopiesInv
  <1>2. Present => Behind(requests[r].snapshot)
    <2>1. Present => /\ requests[r].snapshot.price <= snapshot.price
                     /\ requests[r].snapshot.endsAt <= snapshot.endsAt
                     /\ requests[r].snapshot.status = "SOLD" =>
                          requests[r].snapshot = snapshot
      BY DEF ServiceInv, StoreInv, RepliesTruthful
    <2>2. requests[r].snapshot.status # "ENDED"
      BY DEF ServiceInv, CopiesInv
    <2> QED BY <2>1, <2>2 DEF Behind
  <1>3. expireAt # 0
    BY NothingWhileUnopened DEF ServiceInv
  <1> QED BY <1>1, <1>2, <1>3 DEF Good

LEMMA CopiesKeep ==
  ASSUME StartedOnce, ServiceInv, [Next]_vars
  PROVE  CopiesInv'
  <1>0. /\ auction \in Auction /\ NewAuction \in Auction
        /\ held \in [Threads -> Reply] /\ StoreInv /\ StoreInv'
        /\ \A t \in Threads : held[t].snapshot \in Auction /\ Good(held[t].snapshot)
        /\ Good(auction) /\ Good(NewAuction)
    <2>1. NewAuction \in Auction
      BY RulesAssumption DEF NewAuction, Auction, Status, RulesValid
    <2> QED BY <2>1, StoreKeeps DEF ServiceInv, CoreInv, ServiceTypeOK, CopiesInv, Reply
  <1>1. \A a \in Auction : Good(a) => Good(a)'
    BY GoodStays
  <1>2. Good(NewAuction)'
    BY <1>0, <1>1 DEF NewAuction
  <1>3. Good(auction)'
    <2>1. PICK a \in Auction : Good(a) /\ auction' = a
      BY <1>0, RecordMoves DEF ServiceInv
    <2>2. Good(a)'
      BY <1>1, <2>1
    <2> QED BY <2>1, <2>2 DEF Good, Sane, Behind, BeforeOpening
  <1>4. ASSUME NEW t \in Threads
        PROVE  Good(held[t].snapshot)'
    <2>1. ASSUME NEW a \in Auction, Good(a), held'[t].snapshot = a
          PROVE  Good(held[t].snapshot)'
      <3>1. Good(a)'
        BY <1>1, <2>1
      <3> QED BY <2>1, <3>1 DEF Good, Sane, Behind, BeforeOpening
    <2>2. CASE held'[t].snapshot = held[t].snapshot \/ held'[t].snapshot = NewAuction
      BY <1>0, <2>1, <2>2
    <2>3. CASE held'[t].snapshot = Cancelled(auction)
      <3>1. /\ Cancelled(auction) \in Auction
            /\ Cancelled(auction).status = "CANCELLED"
            /\ Cancelled(auction).price = auction.price
            /\ Cancelled(auction).endsAt = auction.endsAt
        BY <1>0 DEF Cancelled, Auction, Status
      <3>2. Good(Cancelled(auction))
        BY <1>0, <3>1 DEF Good, Sane, Behind, BeforeOpening
      <3> QED BY <2>1, <2>3, <3>1, <3>2
    <2>4. CASE held'[t].snapshot = snapshot' /\ Present'
      <3>1. Good(snapshot)'
        BY <1>0, <2>4, StoreCopyGood
      <3> QED BY <2>4, <3>1 DEF Good, Sane, Behind, BeforeOpening
    <2>5. CASE \E r \in Requests : requests[r] # NoReply
                                   /\ held'[t].snapshot = requests[r].snapshot
      <3>1. PICK r \in Requests : requests[r] # NoReply
                                  /\ held'[t].snapshot = requests[r].snapshot
        BY <2>5
      <3>2. requests[r].snapshot \in Auction
        BY <3>1 DEF ServiceInv, StoreInv, StoreTypeOK, Reply
      <3> QED BY <2>1, <3>1, <3>2, ReplyGood
    <2>6. CASE t \in Starters /\ StartRead(t) /\ pc'[t] = "update"
      <3>0. PICK now \in Nat : held'[t].snapshot = Started(NewAuction, now)
        BY <2>6, StartReadsNew
      <3>1. pc[t] = "idle"
        BY <2>6 DEF StartRead
      <3>2. /\ held'[t].snapshot \in Auction
            /\ held'[t].snapshot.status = "RUNNING"
            /\ held'[t].snapshot.price = StartPrice
        BY <3>0, StartedFields
      <3>3. expireAt = 0 /\ expireAt' = 0 /\ ~Present'
        <4>1. expireAt = 0
          BY <2>6, <3>1 DEF ServiceInv, StarterInv
        <4>2. UNCHANGED storeVars
          BY <2>6 DEF StartRead
        <4> QED BY <1>0, <4>1, <4>2, NothingWhileUnopened DEF Present, storeVars
      <3>4. \A u \in Starters : u = t
        BY <2>6 DEF StartedOnce
      <3>5. held'[t].snapshot.endsAt \in Nat
        BY <3>2, AuctionIsPresent
      <3> QED BY <2>6, <3>2, <3>3, <3>4, <3>5 DEF Good, Sane, BeforeOpening
    <2> QED BY <2>2, <2>3, <2>4, <2>5, <2>6, HeldMoves DEF ServiceInv
  <1>5. ASSUME NEW r \in Requests, requests'[r] # NoReply
        PROVE  Sane(requests[r].snapshot)' /\ requests'[r].snapshot.status # "ENDED"
    BY <1>5, ReplyMoves, UsersAssumption DEF ServiceInv, CopiesInv, Sane
  <1> QED BY <1>2, <1>3, <1>4, <1>5 DEF CopiesInv

-----------------------------------------------------------------------------
(* Settling *)

(* A settling thread carries the sale the store holds.                     *)
LEMMA SettleMatches ==
  ASSUME ServiceInv, NEW t \in Threads, Settle(t)
  PROVE  /\ held[t].snapshot.status = "SOLD"
         /\ expireAt # 0
         /\ Present => held[t].snapshot = snapshot
         /\ order' # NoOrder
  <1>1. held[t].snapshot.status = "SOLD" /\ order' # NoOrder
    BY SettleStores DEF ServiceInv
  <1>2. Good(held[t].snapshot)
    BY DEF ServiceInv, CopiesInv
  <1> QED BY <1>1, <1>2 DEF Good, Behind, BeforeOpening

(* While the auction is sold, no step but its expiry changes the snapshot. *)
LEMMA SoldStays ==
  ASSUME ServiceInv, [Next]_vars, snapshot.status = "SOLD"
  PROVE  snapshot' = snapshot \/ ~Present'
  <1>1. expireAt # 0
    BY DEF ServiceInv, StoreInv, Lifecycle, Unopened, Absent
  <1>2. SnapshotAdvances
    BY <1>1, StoreKeeps, StartInitOpens
  <1> QED BY <1>2 DEF SnapshotAdvances, Present

LEMMA OrderKeeps ==
  ASSUME ServiceInv, [Next]_vars
  PROVE  OrderInv'
  <1>0. StoreInv /\ OrderInv /\ expireAt \in Nat
    BY DEF ServiceInv, StoreInv, StoreTypeOK
  <1>1. expireAt' = 0 => expireAt = 0
    <2>1. CASE \E t \in Starters : StartInit(t)
      BY <1>0, <2>1, StartInitOpens
    <2>2. CASE ~ \E t \in Starters : StartInit(t)
      BY <2>2, StoreKeeps DEF SnapshotAdvances
    <2> QED BY <2>1, <2>2
  <1>2. CASE \E t \in Threads : /\ Settle(t)
                                /\ order' = [buyer |-> held[t].snapshot.leader,
                                             price |-> held[t].snapshot.price]
    <2>1. PICK t \in Threads : /\ Settle(t)
                               /\ order' = [buyer |-> held[t].snapshot.leader,
                                            price |-> held[t].snapshot.price]
      BY <1>2
    <2>2. /\ held[t].snapshot.status = "SOLD" /\ expireAt # 0 /\ order' # NoOrder
          /\ Present => held[t].snapshot = snapshot
      BY <2>1, SettleMatches
    <2>3. snapshot' = snapshot
      BY <2>1 DEF Settle, storeVars
    <2>4. OrderMatchesSale'
      BY <2>1, <2>2, <2>3 DEF OrderMatchesSale, Present
    <2> QED BY <1>1, <2>2, <2>4 DEF OrderInv
  <1>3. CASE order' = order
    <2>1. OrderMatchesSale'
      <3> SUFFICES ASSUME order # NoOrder, Present'
                   PROVE  /\ snapshot'.status = "SOLD"
                          /\ order = [buyer |-> snapshot'.leader, price |-> snapshot'.price]
        BY <1>3 DEF OrderMatchesSale
      <3>1. expireAt # 0
        BY <1>0 DEF OrderInv
      <3>2. Present
        BY <3>1, StoreKeeps, StartInitOpens DEF SnapshotAdvances, Present, Absent
      <3>3. /\ snapshot.status = "SOLD"
            /\ order = [buyer |-> snapshot.leader, price |-> snapshot.price]
        BY <1>0, <3>2 DEF OrderInv, OrderMatchesSale
      <3> QED BY <3>3, SoldStays
    <2> QED BY <1>0, <1>1, <1>3, <2>1 DEF OrderInv
  <1> QED BY <1>2, <1>3, OrderMoves DEF ServiceInv

-----------------------------------------------------------------------------
(* The audit *)

(* An accepted bid raises the price to its own amount.                     *)
LEMMA AcceptedRaises ==
  ASSUME ServiceInv, NEW b \in Bids, NEW c \in Command, BidAccepted(b, c)
  PROVE  /\ snapshot.price \in Nat /\ c.amount \in Nat /\ c.amount > snapshot.price
         /\ Present
         /\ snapshot'.price = c.amount
         /\ expireAt # 0 /\ expireAt' = expireAt
         /\ pc[b] = "idle"
         /\ pc' = [pc EXCEPT ![b] = IF backend = "redis" THEN "read" ELSE "save"]
         /\ command' = [command EXCEPT ![b] = c]
         /\ audit' = audit
  <1>0. StoreInv /\ StoreTypeOK /\ clock \in Nat
    BY DEF ServiceInv, StoreInv, StoreTypeOK
  <1>1. PICK now \in 0..clock : AcceptBid(c.user, c.request, c.amount, now)
    BY DEF BidAccepted
  <1>2. now \in Nat /\ c.user \in Users /\ c.amount \in Amounts
    BY <1>0 DEF Command
  <1>3. Acceptable(c.amount, now)
    BY <1>1 DEF AcceptBid
  <1>4. /\ snapshot \in Auction /\ c.amount \in Nat /\ c.amount >= snapshot.price + 1
    BY <1>0, <1>2, <1>3, AcceptableRaises
  <1>5. snapshot.price \in Nat /\ snapshot # Absent
    BY <1>4, AuctionIsPresent
  <1>6. AfterBid(c.user, c.amount, now).price = c.amount
    BY <1>0, <1>2, <1>3, AfterBidFields
  <1>7. expireAt # 0
    BY <1>0, <1>5 DEF StoreInv, Lifecycle, Unopened
  <1> QED BY <1>1, <1>4, <1>5, <1>6, <1>7
          DEF AcceptBid, BidAccepted, Goto, Present, repoVars

(* A bid call wins by having its bid accepted, and keeps its command.      *)
LEMMA WonMoves ==
  ASSUME ServiceInv, [Next]_vars, NEW b \in Bids
  PROVE  /\ pc'[b] = "idle" => pc[b] = "idle" /\ b \notin audit'
         /\ Won(b)' => \/ Won(b) /\ command'[b] = command[b]
                       \/ \E c \in Command : SameBid(c) /\ BidAccepted(b, c)
  <1>0. /\ pc \in [Threads -> Label] /\ b \in Threads
        /\ b \notin Starters /\ b \notin Cancellers /\ b \notin Timers
        /\ pc[b] = "idle" => b \notin audit
    BY ThreadKinds DEF ServiceInv, CoreInv, ServiceTypeOK, AuditInv
  <1>1. /\ audit' = audit \/ \E u \in Bids : BidSave(u)
        /\ \/ command' = command
           \/ \E u \in Bids, c \in Command : BidAccepted(u, c) \/ BidRepeated(u, c)
    BY StepCases
    DEF StartRead, StartUpdate, StartInit, CancelRead, CancelUpdate, CancelStore,
        BidRejected, BidSave, TimerFires, TimerFinish, TimerClear, ReadBack,
        SyncAuction, Settle, Schedule, Register, StopFinishTimer, Broadcast, CallFails,
        Crash, Environment, vars, repoVars, BidAccepted, BidRepeated
  <1>2. b \in audit' => b \in audit \/ BidSave(b)
    BY <1>1 DEF BidSave
  <1>3. \/ command'[b] = command[b]
        \/ \E c \in Command : BidAccepted(b, c) \/ BidRepeated(b, c)
    BY <1>1 DEF BidAccepted, BidRepeated, ServiceInv, CoreInv, ServiceTypeOK
  <1>4. BidSave(b) => pc[b] = "save" /\ pc'[b] = "sync"
    BY <1>0 DEF BidSave, Goto
  <1>5. ASSUME NEW c \in Command, BidAccepted(b, c) \/ BidRepeated(b, c) \/ BidRejected(b, c)
        PROVE  /\ pc[b] = "idle" /\ pc'[b] # "idle" /\ audit' = audit
               /\ pc'[b] \in {"read", "save"} => BidAccepted(b, c)
    BY <1>0, <1>5 DEF BidAccepted, BidRepeated, BidRejected, Goto, repoVars
  <1>6. CASE \E c \in Command : SameBid(c) /\ (BidAccepted(b, c) \/ BidRepeated(b, c)
                                               \/ BidRejected(b, c))
    BY <1>0, <1>5, <1>6 DEF Won
  <1>7. ASSUME \A c \in Command : ~(BidAccepted(b, c) \/ BidRepeated(b, c)),
               pc'[b] = "idle" => pc[b] = "idle",
               pc'[b] \in {"read", "save"} => pc[b] \in {"read", "save"}
        PROVE  /\ pc'[b] = "idle" => pc[b] = "idle" /\ b \notin audit'
               /\ Won(b)' => Won(b) /\ command'[b] = command[b]
    BY <1>0, <1>2, <1>3, <1>4, <1>7 DEF Won
  <1>8. CASE /\ pc'[b] = "idle" => pc[b] = "idle"
             /\ pc'[b] \in {"read", "save"} => pc[b] \in {"read", "save"}
    <2>1. CASE \E c \in Command : BidAccepted(b, c) \/ BidRepeated(b, c)
      BY <1>0, <1>5, <1>8, <2>1 DEF Won
    <2>2. CASE \A c \in Command : ~(BidAccepted(b, c) \/ BidRepeated(b, c))
      BY <1>7, <1>8, <2>2
    <2> QED BY <2>1, <2>2
  <1>9. CASE BidSave(b)
    BY <1>4, <1>8, <1>9
  <1>10. CASE ReadBack(b) \/ SyncAuction(b) \/ Settle(b) \/ Broadcast(b) \/ CallFails(b)
    <2>1. /\ pc'[b] # "idle"
          /\ pc'[b] \in {"read", "save"} => pc[b] = "read"
      BY <1>0, <1>10
      DEF ReadBack, SyncAuction, Settle, Broadcast, CallFails, Goto, Exit, AfterSync
    <2> QED BY <1>8, <2>1
  <1>11. CASE b \in Schedulers /\ (Schedule(b) \/ Register(b))
    <2>1. pc'[b] \in {"register", "broadcast"}
      BY <1>0, <1>11, ThreadKinds DEF Schedule, Register
    <2> QED BY <1>8, <2>1
  <1>12. CASE StopFinishTimer(b)
    <2>1. pc'[b] = "broadcast"
      BY <1>0, <1>12 DEF StopFinishTimer
    <2> QED BY <1>8, <2>1
  <1>13. CASE Undisturbed(b) \/ Ended(b)
    <2>1. pc'[b] = pc[b] \/ pc'[b] = "done" \/ (pc'[b] = "idle" /\ pc[b] = "idle")
      BY <1>0, <1>13, ThreadKinds DEF Undisturbed, Ended
    <2> QED BY <1>8, <2>1
  <1> QED BY <1>0, <1>6, <1>9, <1>10, <1>11, <1>12, <1>13, OwnStep DEF Own, ServiceInv

LEMMA AuditKeeps ==
  ASSUME ServiceInv, [Next]_vars
  PROVE  AuditInv'
  <1>0. /\ command \in [Bids -> Command \cup {NoCommand}] /\ pc \in [Threads -> Label]
        /\ StoreInv /\ Bids \subseteq Threads
    BY ThreadKinds DEF ServiceInv, CoreInv, ServiceTypeOK
  <1>1. ASSUME NEW b \in Bids
        PROVE  pc'[b] = "idle" => b \notin audit'
    BY WonMoves
  <1>2. ASSUME NEW b \in Bids, Won(b), command'[b] = command[b]
        PROVE  /\ command'[b] # NoCommand
               /\ expireAt' # 0
               /\ Present' => command'[b].amount <= snapshot'.price
    <2>1. /\ command[b] # NoCommand /\ expireAt # 0
          /\ Present => command[b].amount <= snapshot.price
      BY <1>2 DEF ServiceInv, AuditInv
    <2>2. command[b].amount \in Nat
      BY <1>0, <2>1, StoreAssumption DEF Command
    <2>3. SnapshotAdvances
      BY <2>1, StoreKeeps, StartInitOpens
    <2>4. ASSUME snapshot.status = "RUNNING", snapshot' \in Auction,
                 snapshot'.price >= snapshot.price
          PROVE  command[b].amount <= snapshot'.price
      <3>1. snapshot \in Auction
        BY <1>0, <2>4 DEF StoreInv, StoreTypeOK, Absent
      <3>2. snapshot.price \in Nat /\ snapshot'.price \in Nat /\ Present
        BY <2>4, <3>1, AuctionIsPresent DEF Present
      <3> QED BY <2>1, <2>2, <2>4, <3>2
    <2> QED BY <1>2, <2>1, <2>3, <2>4 DEF SnapshotAdvances, Present
  <1>3. ASSUME NEW b \in Bids, NEW c \in Command, BidAccepted(b, c)
        PROVE  /\ command'[b] = c /\ c # NoCommand
               /\ expireAt' # 0
               /\ Present' => command'[b].amount <= snapshot'.price
    BY <1>0, <1>3, AcceptedRaises, AbsencesAssumption
  <1>4. ASSUME NEW b \in Bids, NEW c \in Bids, NEW d \in Command,
               SameBid(d), BidAccepted(b, d), Won(c), command'[c] = command[c],
               command[c].request = d.request
        PROVE  FALSE
    <2>1. command[c] # NoCommand /\ (Present => command[c].amount <= snapshot.price)
      BY <1>4 DEF ServiceInv, AuditInv
    <2>2. command[c] = d
      BY <1>4, <2>1 DEF SameBid
    <2> QED BY <1>4, <2>1, <2>2, AcceptedRaises
  <1>5. ASSUME NEW b \in Bids, NEW c \in Bids, NEW d \in Command, NEW e \in Command,
               BidAccepted(b, d), BidAccepted(c, e)
        PROVE  b = c
    BY <1>0, <1>5, AcceptedRaises
  <1>6. ASSUME NEW b \in Bids, NEW c \in Bids, Won(b)', Won(c)',
               command'[b].request = command'[c].request
        PROVE  b = c
    <2>1. \/ Won(b) /\ command'[b] = command[b]
          \/ \E d \in Command : SameBid(d) /\ BidAccepted(b, d)
      BY <1>6, WonMoves
    <2>2. \/ Won(c) /\ command'[c] = command[c]
          \/ \E d \in Command : SameBid(d) /\ BidAccepted(c, d)
      BY <1>6, WonMoves
    <2>3. CASE Won(b) /\ command'[b] = command[b] /\ Won(c) /\ command'[c] = command[c]
      BY <1>6, <2>3 DEF ServiceInv, AuditInv
    <2> QED BY <1>3, <1>4, <1>5, <1>6, <2>1, <2>2, <2>3
  <1> QED BY <1>1, <1>2, <1>3, <1>6, WonMoves DEF AuditInv

(* A call that won stays so, until a call fails or the server restarts.    *)
LEMMA WonStays ==
  ASSUME ServiceInv, [Next]_vars, NEW b \in Bids, Won(b), Present, failures' = 0
  PROVE  Won(b)' /\ command'[b] = command[b]
  <1>0. /\ pc \in [Threads -> Label] /\ b \in Threads
        /\ b \notin Starters /\ b \notin Cancellers /\ b \notin Timers
        /\ pc[b] # "idle"
        /\ command \in [Bids -> Command \cup {NoCommand}]
        /\ ~Crash /\ \A t \in Threads : ~CallFails(t)
    BY ThreadKinds, NothingFailed DEF ServiceInv, CoreInv, ServiceTypeOK, AuditInv, Won
  <1>1. /\ audit \subseteq audit'
        /\ \/ command' = command
           \/ \E u \in Bids, c \in Command : BidAccepted(u, c) \/ BidRepeated(u, c)
    BY StepCases
    DEF StartRead, StartUpdate, StartInit, CancelRead, CancelUpdate, CancelStore,
        BidRejected, BidSave, TimerFires, TimerFinish, TimerClear, ReadBack,
        SyncAuction, Settle, Schedule, Register, StopFinishTimer, Broadcast, CallFails,
        Crash, Environment, vars, repoVars, BidAccepted, BidRepeated
  <1>2. ASSUME NEW c \in Command, BidAccepted(b, c) \/ BidRepeated(b, c) \/ BidRejected(b, c)
        PROVE  FALSE
    BY <1>0, <1>2 DEF BidAccepted, BidRepeated, BidRejected, Goto
  <1>3. command'[b] = command[b]
    <2>1. ASSUME NEW u \in Bids, NEW c \in Command, BidAccepted(u, c) \/ BidRepeated(u, c)
          PROVE  command'[b] = command[b]
      <3>1. u # b
        BY <1>2, <2>1
      <3> QED BY <1>0, <2>1, <3>1 DEF BidAccepted, BidRepeated
    <2> QED BY <1>1, <2>1
  <1>4. CASE b \in audit
    BY <1>1, <1>3, <1>4 DEF Won
  <1>5. CASE pc[b] \in {"read", "save"}
    <2>1. CASE BidSave(b)
      BY <1>3, <2>1 DEF BidSave, Won
    <2>2. CASE ReadBack(b)
      <3>1. pc'[b] = "save"
        BY <1>0, <1>5, <2>2 DEF ReadBack, Goto
      <3> QED BY <1>3, <3>1 DEF Won
    <2>3. CASE SyncAuction(b) \/ Settle(b) \/ Broadcast(b)
      BY <1>5, <2>3 DEF SyncAuction, Settle, Broadcast, Goto
    <2>4. CASE b \in Schedulers /\ (Schedule(b) \/ Register(b))
      BY <1>5, <2>4 DEF Schedule, Register
    <2>5. CASE StopFinishTimer(b)
      BY <1>5, <2>5 DEF StopFinishTimer
    <2>6. CASE Undisturbed(b)
      <3>1. pc'[b] = pc[b]
        BY <1>0, <2>6, ThreadKinds DEF Undisturbed
      <3> QED BY <1>3, <1>5, <3>1 DEF Won
    <2>7. ~Ended(b) /\ ~CallFails(b)
      BY <1>0 DEF Ended
    <2> QED BY <1>0, <1>2, <2>1, <2>2, <2>3, <2>4, <2>5, <2>6, <2>7, OwnStep
            DEF Own, ServiceInv
  <1> QED BY <1>4, <1>5 DEF Won

(* An answer is remembered when its bid is accepted.                       *)
LEMMA RemembersAccepted ==
  ASSUME ServiceInv, [Next]_vars, NEW r \in Requests,
         requests[r] = NoReply, requests'[r] # NoReply
  PROVE  \E b \in Bids, c \in Command : c.request = r /\ BidAccepted(b, c)
  <1>1. requests \in [Requests -> Reply \cup {NoReply}]
    BY DEF ServiceInv, StoreInv, StoreTypeOK
  <1>2. CASE \E b \in Bids, c \in Command : BidAccepted(b, c)
    <2>1. PICK b \in Bids, c \in Command : BidAccepted(b, c)
      BY <1>2
    <2>2. PICK now \in 0..clock : AcceptBid(c.user, c.request, c.amount, now)
      BY <2>1 DEF BidAccepted
    <2>3. c.request = r
      BY <1>1, <2>2 DEF AcceptBid
    <2> QED BY <2>1, <2>3
  <1>3. CASE ~ \E b \in Bids, c \in Command : BidAccepted(b, c)
    <2>1. requests' = requests \/ Crash \/ Environment
      BY <1>3, StepCases
      DEF StartRead, StartUpdate, StartInit, InitAuction, CancelRead, CancelUpdate,
          CancelStore, Cancel, BidRepeated, BidRejected, BidSave, TimerFires, TimerFinish,
          FinishExpired, TimerClear, ReadBack, SyncAuction, Settle, Schedule, Register,
          StopFinishTimer, Broadcast, CallFails, vars, storeVars
    <2>2. Environment => requests'[r] \in {requests[r], NoReply}
      BY <1>1 DEF Environment, ExpireRequest, ExpireSnapshot, Tick
    <2>3. Crash => requests'[r] \in {requests[r], NoReply}
      BY DEF Crash, storeVars
    <2> QED BY <2>1, <2>2, <2>3
  <1> QED BY <1>2, <1>3

LEMMA BidInHandKeeps ==
  ASSUME ServiceInv, BidInHand, [Next]_vars
  PROVE  BidInHand'
  <1> SUFFICES ASSUME failures' = 0, Present', NEW r \in Requests, requests'[r] # NoReply
               PROVE  \E b \in Bids :
                        /\ command'[b] # NoCommand /\ command'[b].request = r
                        /\ Won(b)'
    BY DEF BidInHand, Won
  <1>1. failures = 0 /\ StoreInv
    BY NothingFailed DEF ServiceInv
  <1>2. CASE requests[r] = NoReply
    <2>1. PICK b \in Bids, c \in Command : c.request = r /\ BidAccepted(b, c)
      BY <1>2, RemembersAccepted
    <2>2. command'[b] = c /\ pc'[b] \in {"read", "save"}
      BY <2>1, AcceptedRaises, ThreadKinds DEF ServiceInv, CoreInv, ServiceTypeOK
    <2>3. c # NoCommand
      BY AbsencesAssumption
    <2> QED BY <2>1, <2>2, <2>3 DEF Won
  <1>3. CASE requests[r] # NoReply
    <2>1. expireAt # 0
      BY <1>1, <1>3 DEF StoreInv, Lifecycle, Unopened
    <2>2. SnapshotAdvances
      BY <2>1, StoreKeeps, StartInitOpens
    <2>3. Present
      BY <2>2 DEF SnapshotAdvances, Present, Absent
    <2>4. PICK b \in Bids : command[b] # NoCommand /\ command[b].request = r /\ Won(b)
      BY <1>1, <1>3, <2>3 DEF BidInHand, Won
    <2>5. Won(b)' /\ command'[b] = command[b]
      BY <2>3, <2>4, WonStays
    <2> QED BY <2>4, <2>5
  <1> QED BY <1>2, <1>3

-----------------------------------------------------------------------------
(* Theorems *)

LEMMA ServiceInitInv ==
  ASSUME Init
  PROVE  ServiceInv
  <1>1. StoreInv /\ StoreTypeOK /\ ~Present /\ expireAt = 0
        /\ \A r \in Requests : requests[r] = NoReply
    BY StoreInitInv DEF Init, StoreInit, StoreInv, Present
  <1>4. Good(NewAuction)
    <2>1. BeforeOpening(NewAuction)
      BY ThreadKinds DEF Init, BeforeOpening, NewAuction
    <2> QED BY <1>1, <2>1 DEF Good, Sane, NewAuction
  <1>5. CopiesInv
    BY <1>1, <1>4 DEF Init, CopiesInv, NothingHeld
  <1>6. StarterInv
    BY <1>1, ThreadKinds DEF Init, StarterInv
  <1>8. OrderInv
    BY DEF Init, OrderInv, OrderMatchesSale
  <1>9. AuditInv
    BY ThreadKinds DEF Init, AuditInv, Won
  <1> QED BY <1>1, <1>5, <1>6, <1>8, <1>9, CoreInitInv DEF ServiceInv

(* The inductive invariant holds in every reachable state of the service.  *)
THEOREM ServiceInvariant ==
  ASSUME StartedOnce
  PROVE  Spec => []ServiceInv
  <1>1. Init => ServiceInv
    BY ServiceInitInv
  <1>2. ServiceInv /\ [Next]_vars => ServiceInv'
    BY CoreKeeps, StoreKeeps, CopiesKeep, StarterKeeps, OrderKeeps, AuditKeeps
    DEF ServiceInv
  <1> QED BY <1>1, <1>2, PTL DEF Spec

(* However many bids, cancellations, failures and restarts: the order is   *)
(* the sale's.                                                             *)
THEOREM OrderAlwaysMatchesSale ==
  ASSUME StartedOnce
  PROVE  Spec => []OrderMatchesSale
  <1>1. ServiceInv => OrderMatchesSale
    BY DEF ServiceInv, OrderInv
  <1> QED BY <1>1, ServiceInvariant, PTL

(* The repository never holds what the store has not reached.              *)
THEOREM RepoStaysBehind ==
  ASSUME StartedOnce
  PROVE  Spec => []RepoNeverAhead
  <1>1. ServiceInv => RepoNeverAhead
    BY DEF ServiceInv, CopiesInv, Good, Behind, RepoNeverAhead
  <1> QED BY <1>1, ServiceInvariant, PTL

(* No request enters the audit twice, however often it is repeated.        *)
THEOREM AlwaysAuditedOnce ==
  ASSUME StartedOnce
  PROVE  Spec => []AuditedOnce
  <1>1. ServiceInv => AuditedOnce
    BY DEF ServiceInv, CoreInv, ServiceTypeOK, AuditInv, Won, AuditedOnce
  <1> QED BY <1>1, ServiceInvariant, PTL

(* Until a call fails or the server restarts, no accepted bid is missing   *)
(* from the audit trail, but for those about to be saved, however requests *)
(* are repeated and forgotten (auction.go:138-149).                        *)
THEOREM BidAlwaysInHand ==
  ASSUME StartedOnce
  PROVE  Spec => []BidInHand
  <1>1. Init => BidInHand
    BY ServiceInitInv DEF ServiceInv, Init, StoreInit, BidInHand, Present, Absent
  <1>2. ServiceInv /\ BidInHand /\ [Next]_vars => BidInHand'
    BY BidInHandKeeps
  <1> QED BY <1>1, <1>2, ServiceInvariant, PTL DEF Spec

(* A restart of a MemoryStore forgets the auction, if it had been opened.  *)
LEMMA CrashSimulates ==
  ASSUME StoreInv, Crash
  PROVE  Contract!Forget \/ UNCHANGED Contract!contractVars
  <1>1. CASE backend = "redis"
    BY <1>1, SameSnapshotSimulates DEF Crash, storeVars
  <1>2. CASE backend # "redis" /\ expireAt = 0
    <2>1. UNCHANGED <<snapshot, expireAt, clock>>
      BY <1>2 DEF Crash, StoreInv, Lifecycle, Unopened
    <2> QED BY <2>1, SameSnapshotSimulates
  <1>3. CASE backend # "redis" /\ expireAt # 0
    <2>1. snapshot' = Absent /\ expireAt' = expireAt /\ clock' = clock
      BY <1>3 DEF Crash
    <2>2. Phase # "unopened" /\ Phase' = "forgotten"
      BY <1>3, <2>1, PhaseOf DEF Phase, Absent
    <2> QED BY <2>1, <2>2 DEF Contract!Forget, Absent
  <1> QED BY <1>1, <1>2, <1>3

LEMMA ServiceStepSimulates ==
  ASSUME ServiceInv, [Next]_vars
  PROVE  [Contract!ContractNext]_(Contract!contractVars)
  <1>1. StoreInv /\ clock \in Nat
    BY DEF ServiceInv, StoreInv, StoreTypeOK
  <1>2. CASE UNCHANGED storeVars
    BY <1>2, SameSnapshotSimulates DEF storeVars
  <1>3. CASE \E t \in Starters : StartInit(t)
    BY <1>1, <1>3, StartInitOpens, OpenSimulates DEF Contract!ContractNext
  <1>4. CASE \E b \in Bids, c \in Command : BidAccepted(b, c)
    <2>1. PICK b \in Bids, c \in Command, now \in 0..clock :
            AcceptBid(c.user, c.request, c.amount, now)
      BY <1>4 DEF BidAccepted
    <2>2. now \in Nat /\ c.user \in Users /\ c.request \in Requests /\ c.amount \in Amounts
      BY <1>1 DEF Command
    <2> QED BY <1>1, <2>1, <2>2, AcceptBidSimulates DEF Contract!ContractNext
  <1>5. CASE Cancel
    BY <1>1, <1>5, CancelSimulates DEF Contract!ContractNext
  <1>6. CASE \E t \in Timers : TimerFinish(t)
    <2>1. PICK t \in Timers : TimerFinish(t)
      BY <1>6
    <2>2. PICK now \in due[t]..clock :
            IF CanFinish(now) THEN FinishExpired(now) ELSE UNCHANGED storeVars
      BY <2>1 DEF TimerFinish
    <2>3. now \in Nat /\ now <= clock
      BY <1>1, <2>2 DEF ServiceInv, CoreInv, ServiceTypeOK
    <2>4. CASE CanFinish(now)
      BY <1>1, <2>2, <2>3, <2>4, FinishExpiredSimulates DEF Contract!ContractNext
    <2>5. CASE ~CanFinish(now)
      BY <1>2, <2>2, <2>5
    <2> QED BY <2>4, <2>5
  <1>7. CASE Environment
    <2>1. CASE \E request \in Requests : ExpireRequest(request)
      BY <2>1, SameSnapshotSimulates DEF ExpireRequest
    <2>2. CASE ExpireSnapshot
      BY <1>1, <2>2, ExpireSnapshotSimulates DEF Contract!ContractNext
    <2>3. CASE Tick
      BY <1>1, <2>3, TickSimulates DEF Contract!ContractNext
    <2> QED BY <1>7, <2>1, <2>2, <2>3 DEF Environment
  <1>8. CASE Crash
    BY <1>1, <1>8, CrashSimulates DEF Contract!ContractNext
  <1> QED
    BY <1>2, <1>3, <1>4, <1>5, <1>6, <1>7, <1>8, StepCases
    DEF StartRead, StartUpdate, CancelRead, CancelUpdate, CancelStore, BidRepeated,
        BidRejected, BidSave, TimerFires, TimerClear, ReadBack, SyncAuction, Settle,
        Schedule, Register, StopFinishTimer, Broadcast, CallFails, vars

(* What the store promises on its own it still keeps under the handlers,   *)
(* the timers, failed calls and restarts.                                  *)
THEOREM ServiceMeetsContract ==
  ASSUME StartedOnce
  PROVE  Spec => MeetsContract
  <1>1. Init => Contract!ContractInit
    BY DEF Init, StoreInit, Contract!ContractInit, Phase, Absent
  <1>2. ServiceInv /\ [Next]_vars => [Contract!ContractNext]_(Contract!contractVars)
    BY ServiceStepSimulates
  <1> QED BY <1>1, <1>2, ServiceInvariant, PTL
          DEF Spec, MeetsContract, Contract!ContractSpec

=============================================================================
