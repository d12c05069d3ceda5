--------------------------- MODULE BidStoreProofs ---------------------------
(***************************************************************************)
(* What BidStore's runs check on small instances, proved for all rules,    *)
(* users, requests, amounts, lifetimes and either store.                   *)
(***************************************************************************)
EXTENDS BidStore, TLAPS

-----------------------------------------------------------------------------
(* The inductive invariant *)

(* What is true before the auction is opened.                              *)
Unopened ==
  /\ snapshot = Absent
  /\ seq = 0
  /\ \A u \in Users : amounts[u] = -1
  /\ \A r \in Requests : requests[r] = NoReply

Lifecycle ==
  /\ snapshot.status # "DRAFT"
  /\ expireAt = 0 => Unopened

(* Every bid raises the price by at least one unit and the counter by      *)
(* exactly one, so amounts are at least as far apart as their numbers.     *)
RankingSpaced ==
  /\ \A u \in Users : Ranked(u) /\ Present =>
        snapshot.price - amounts[u] >= seq - rankSeq[u]
  /\ \A u, v \in Users : Ranked(u) /\ Ranked(v) /\ u # v =>
        /\ amounts[u] # amounts[v]
        /\ amounts[u] > amounts[v] =>
             amounts[u] - amounts[v] >= rankSeq[u] - rankSeq[v]

StoreInv ==
  /\ StoreTypeOK
  /\ Lifecycle
  /\ LeaderHoldsPrice
  /\ RankingSpaced
  /\ RepliesTruthful
  /\ ClosureJustified

-----------------------------------------------------------------------------
(* Facts about the operators *)

(* A record of Auction is never the Absent one: their statuses differ.     *)
LEMMA AuctionIsPresent ==
  ASSUME NEW a \in Auction
  PROVE  /\ a # Absent
         /\ a.status \in Status
         /\ a.price \in Nat
         /\ a.leader \in Users \cup {NoUser}
         /\ a.endsAt \in Nat
  BY DEF Auction, Absent, Status

(* An acceptable amount is above the price by at least one unit.           *)
LEMMA AcceptableRaises ==
  ASSUME StoreTypeOK, NEW amount \in Amounts, NEW now \in Nat,
         Acceptable(amount, now)
  PROVE  /\ snapshot \in Auction
         /\ snapshot.status = "RUNNING"
         /\ amount \in Nat
         /\ amount >= snapshot.price + 1
  <1>1. snapshot \in Auction /\ snapshot.status = "RUNNING"
    BY DEF StoreTypeOK, Acceptable, Absent
  <1>2. snapshot.price \in Nat
    BY <1>1, AuctionIsPresent
  <1>3. amount >= NextMinimumBid(snapshot.price)
    BY DEF Acceptable
  <1>4. NextMinimumBid(snapshot.price) >= snapshot.price + 1
    BY <1>2, RulesAssumption DEF NextMinimumBid, RulesValid
  <1>5. amount \in Nat
    BY StoreAssumption
  <1>6. NextMinimumBid(snapshot.price) \in Nat
    BY <1>2, RulesAssumption DEF NextMinimumBid, RulesValid
  <1> QED BY <1>1, <1>2, <1>3, <1>4, <1>5, <1>6

(* What a bid leaves in the snapshot, field by field.                      *)
LEMMA AfterBidFields ==
  ASSUME StoreTypeOK, NEW user \in Users, NEW amount \in Amounts,
         NEW now \in Nat, Acceptable(amount, now)
  PROVE  /\ AfterBid(user, amount, now) \in Auction
         /\ AfterBid(user, amount, now).price = amount
         /\ AfterBid(user, amount, now).leader = user
         /\ AfterBid(user, amount, now).status =
              IF amount >= CeilingPrice THEN "SOLD" ELSE "RUNNING"
         /\ AfterBid(user, amount, now).endsAt >= snapshot.endsAt
  <1>1. snapshot \in Auction /\ snapshot.status = "RUNNING" /\ amount \in Nat
    BY AcceptableRaises
  <1>2. snapshot.endsAt \in Nat
    BY <1>1, AuctionIsPresent
  <1>3. ExtendBy \in Nat
    BY RulesAssumption DEF RulesValid
  <1> QED BY <1>1, <1>2, <1>3 DEF AfterBid, Auction, Status

(* Amounts that are spaced like their numbers keep their order in the      *)
(* scores: the factor outweighs the difference of the numbers.             *)
LEMMA ScoreOrder ==
  ASSUME NEW a \in Int, NEW b \in Int, NEW s \in Int, NEW t \in Int,
         a > b, a - b >= s - t
  PROVE  a * RankScale - s > b * RankScale - t
  <1>1. RankScale \in Nat /\ RankScale >= 2
    BY StoreAssumption
  <1>2. (a - b) * RankScale >= (a - b) * 2
    BY <1>1
  <1>3. (a - b) * RankScale = a * RankScale - b * RankScale
    BY <1>1
  <1> QED BY <1>1, <1>2, <1>3

-----------------------------------------------------------------------------
(* Each operation keeps the invariant *)

(* Opening, for any snapshot of a running auction without bids.            *)
LEMMA InitAuctionKeeps ==
  ASSUME StoreInv, expireAt = 0,
         NEW s \in Auction, s.status = "RUNNING", s.price = StartPrice,
         s.leader = NoUser, InitAuction(s)
  PROVE  StoreInv'
  <1>1. Unopened
    BY DEF StoreInv, Lifecycle
  <1>2. \A u \in Users : amounts'[u] = -1
    BY <1>1 DEF InitAuction, Unopened
  <1>3. snapshot' = s /\ s # Absent
    BY AuctionIsPresent DEF InitAuction
  <1>4. StoreTypeOK'
    <2>1. expireAt' \in Nat /\ expireAt' # 0
      BY StoreAssumption DEF StoreInv, StoreTypeOK, InitAuction
    <2> QED BY <2>1 DEF StoreInv, StoreTypeOK, InitAuction
  <1>5. Lifecycle'
    <2>1. expireAt' # 0
      BY StoreAssumption DEF StoreInv, StoreTypeOK, InitAuction
    <2> QED BY <1>3, <2>1 DEF Lifecycle
  <1>6. LeaderHoldsPrice'
    BY <1>2, <1>3 DEF LeaderHoldsPrice, Ranked
  <1>7. RankingSpaced'
    BY <1>2 DEF RankingSpaced, Ranked
  <1>8. RepliesTruthful'
    BY <1>1 DEF RepliesTruthful, InitAuction, Unopened
  <1>9. ClosureJustified'
    BY <1>3 DEF ClosureJustified
  <1> QED BY <1>4, <1>5, <1>6, <1>7, <1>8, <1>9 DEF StoreInv

LEMMA AcceptBidKeeps ==
  ASSUME StoreInv, NEW user \in Users, NEW request \in Requests,
         NEW amount \in Amounts, NEW now \in Nat,
         AcceptBid(user, request, amount, now)
  PROVE  StoreInv'
  <1> DEFINE new == AfterBid(user, amount, now)
  <1>1. StoreTypeOK /\ Acceptable(amount, now)
    BY DEF StoreInv, AcceptBid
  <1>2. /\ snapshot \in Auction /\ snapshot.status = "RUNNING"
        /\ amount \in Nat /\ amount >= snapshot.price + 1
        /\ snapshot # Absent
        /\ snapshot.price \in Nat /\ snapshot.endsAt \in Nat
    BY <1>1, AcceptableRaises, AuctionIsPresent
  <1>3. /\ new \in Auction /\ new # Absent
        /\ new.price = amount /\ new.leader = user
        /\ new.status = IF amount >= CeilingPrice THEN "SOLD" ELSE "RUNNING"
        /\ new.endsAt >= snapshot.endsAt
        /\ new.endsAt \in Nat
    BY <1>1, AfterBidFields, AuctionIsPresent
  <1> HIDE DEF new
  <1>4. snapshot' = new
    BY DEF AcceptBid, new
  <1>5. \A u \in Users : amounts[u] \in Int /\ amounts[u] <= snapshot.price
    BY <1>1, <1>2 DEF StoreInv, StoreTypeOK, LeaderHoldsPrice, Present, Ranked
  <1>6. /\ amounts' = [amounts EXCEPT ![user] = amount]
        /\ rankSeq' = [rankSeq EXCEPT ![user] = seq + 1]
        /\ seq' = seq + 1
    BY <1>2, <1>5 DEF AcceptBid
  <1>7. StoreTypeOK'
    <2>1. [extended |-> Extends(amount, now), snapshot |-> new] \in Reply
      BY <1>3 DEF Reply, Extends
    <2>2. requests' \in [Requests -> Reply \cup {NoReply}]
      BY <1>1, <2>1 DEF AcceptBid, StoreTypeOK, new
    <2>3. UNCHANGED <<backend, expireAt, clock>>
      BY DEF AcceptBid
    <2> QED BY <1>1, <1>2, <1>3, <1>4, <1>6, <2>2, <2>3 DEF StoreTypeOK
  <1>8. Lifecycle'
    <2>1. expireAt # 0
      BY <1>2 DEF StoreInv, Lifecycle, Unopened
    <2> QED BY <1>3, <1>4, <2>1 DEF Lifecycle, AcceptBid
  <1>9. LeaderHoldsPrice'
    <2>1. \A u \in Users \ {user} : amounts'[u] = amounts[u]
      BY <1>1, <1>6 DEF StoreTypeOK
    <2>2. amounts'[user] = amount
      BY <1>1, <1>6 DEF StoreTypeOK
    <2> QED BY <1>2, <1>3, <1>4, <1>5, <2>1, <2>2, UsersAssumption
            DEF LeaderHoldsPrice
  <1>10. RankingSpaced'
    <2>1. /\ amounts'[user] = amount /\ rankSeq'[user] = seq + 1
          /\ \A u \in Users \ {user} :
                amounts'[u] = amounts[u] /\ rankSeq'[u] = rankSeq[u]
      BY <1>1, <1>6 DEF StoreTypeOK
    <2>2. \A u \in Users : Ranked(u) =>
             snapshot.price - amounts[u] >= seq - rankSeq[u]
      BY <1>2 DEF StoreInv, RankingSpaced, Present
    <2>3. \A u \in Users : rankSeq[u] \in Nat
      BY <1>1 DEF StoreTypeOK
    <2>4. seq \in Nat
      BY <1>1 DEF StoreTypeOK
    <2>5. ASSUME NEW u \in Users, Ranked(u)'
          PROVE  amount - amounts'[u] >= seq' - rankSeq'[u]
      BY <1>2, <1>5, <1>6, <2>1, <2>2, <2>3, <2>4, <2>5 DEF Ranked
    <2>6. ASSUME NEW u \in Users, NEW v \in Users,
                 Ranked(u)', Ranked(v)', u # v
          PROVE  /\ amounts'[u] # amounts'[v]
                 /\ amounts'[u] > amounts'[v] =>
                      amounts'[u] - amounts'[v] >= rankSeq'[u] - rankSeq'[v]
      <3>1. CASE u = user
        <4>1. Ranked(v) /\ amounts'[v] = amounts[v] /\ rankSeq'[v] = rankSeq[v]
          BY <2>1, <2>6, <3>1 DEF Ranked
        <4> QED BY <1>2, <1>5, <2>1, <2>2, <2>3, <2>4, <3>1, <4>1
      <3>2. CASE v = user
        <4>1. Ranked(u) /\ amounts'[u] = amounts[u]
          BY <2>1, <2>6, <3>2 DEF Ranked
        <4> QED BY <1>2, <1>5, <2>1, <3>2, <4>1
      <3>3. CASE u # user /\ v # user
        BY <2>1, <2>6, <3>3 DEF StoreInv, RankingSpaced, Ranked
      <3> QED BY <3>1, <3>2, <3>3
    <2> QED BY <1>3, <1>4, <2>5, <2>6 DEF RankingSpaced
  <1>11. RepliesTruthful'
    <2>1. /\ requests'[request].snapshot = new
          /\ \A r \in Requests \ {request} : requests'[r] = requests[r]
      BY <1>1 DEF AcceptBid, StoreTypeOK, new
    <2>2. \A r \in Requests : requests[r] # NoReply =>
            /\ requests[r].snapshot \in Auction
            /\ requests[r].snapshot.price \in Nat
            /\ requests[r].snapshot.endsAt \in Nat
            /\ requests[r].snapshot.price <= snapshot.price
            /\ requests[r].snapshot.endsAt <= snapshot.endsAt
            /\ requests[r].snapshot.status # "SOLD"
      <3>1. \A r \in Requests : requests[r] # NoReply =>
              requests[r].snapshot \in Auction
        BY <1>1 DEF StoreTypeOK, Reply
      <3> QED BY <1>2, <3>1, AuctionIsPresent DEF StoreInv, RepliesTruthful, Present
    <2>3. ASSUME NEW r \in Requests, requests'[r] # NoReply
          PROVE  /\ requests'[r].snapshot.price <= new.price
                 /\ requests'[r].snapshot.endsAt <= new.endsAt
                 /\ requests'[r].snapshot.status = "SOLD" =>
                      requests'[r].snapshot = new
      <3>1. CASE r = request
        BY <1>2, <1>3, <2>1, <3>1
      <3>2. CASE r # request
        BY <1>2, <1>3, <2>1, <2>2, <2>3, <3>2
      <3> QED BY <3>1, <3>2
    <2>4. ASSUME NEW r \in Requests, NEW q \in Requests \ {r},
                 requests'[r] # NoReply, requests'[q] # NoReply
          PROVE  requests'[q].snapshot.price # requests'[r].snapshot.price
      <3>1. CASE r = request
        BY <1>2, <1>3, <2>1, <2>2, <2>4, <3>1
      <3>2. CASE q = request
        BY <1>2, <1>3, <2>1, <2>2, <2>4, <3>2
      <3>3. CASE r # request /\ q # request
        BY <1>2, <2>1, <2>4, <3>3 DEF StoreInv, RepliesTruthful, Present
      <3> QED BY <3>1, <3>2, <3>3
    <2> QED BY <1>4, <2>3, <2>4 DEF RepliesTruthful
  <1>12. ClosureJustified'
    <2>1. CeilingPrice \in Nat
      BY RulesAssumption DEF RulesValid
    <2> QED BY <1>2, <1>3, <1>4, <2>1 DEF ClosureJustified
  <1> QED BY <1>7, <1>8, <1>9, <1>10, <1>11, <1>12 DEF StoreInv

(* A cancelled or finished auction keeps everything but its status.        *)
LEMMA CloseKeeps ==
  ASSUME StoreInv, snapshot.status = "RUNNING", NEW st,
         \/ st = "CANCELLED"
         \/ st = "SOLD" /\ snapshot.leader # NoUser /\ clock >= snapshot.endsAt
         \/ st = "ENDED" /\ snapshot.leader = NoUser /\ clock >= snapshot.endsAt,
         snapshot' = [snapshot EXCEPT !.status = st],
         UNCHANGED <<backend, expireAt, amounts, rankSeq, seq, requests, clock>>
  PROVE  StoreInv'
  <1>1. StoreTypeOK /\ snapshot \in Auction /\ snapshot # Absent
    BY DEF StoreInv, StoreTypeOK, Absent
  <1>2. /\ snapshot' \in Auction
        /\ snapshot'.status = st
        /\ snapshot'.price = snapshot.price
        /\ snapshot'.leader = snapshot.leader
        /\ snapshot'.endsAt = snapshot.endsAt
    BY <1>1 DEF Auction, Status
  <1>3. snapshot' # Absent
    BY <1>2, AuctionIsPresent
  <1>4. StoreTypeOK'
    BY <1>1, <1>2 DEF StoreTypeOK
  <1>5. Lifecycle'
    BY <1>1, <1>2 DEF StoreInv, Lifecycle, Unopened
  <1>6. LeaderHoldsPrice'
    BY <1>1, <1>2 DEF StoreInv, LeaderHoldsPrice, Present, Ranked
  <1>7. RankingSpaced'
    BY <1>1, <1>2 DEF StoreInv, RankingSpaced, Present, Ranked
  <1>8. RepliesTruthful'
    BY <1>1, <1>2 DEF StoreInv, RepliesTruthful, Present
  <1>9. ClosureJustified'
    BY <1>1, <1>2, AuctionIsPresent DEF ClosureJustified
  <1> QED BY <1>4, <1>5, <1>6, <1>7, <1>8, <1>9 DEF StoreInv

LEMMA CancelKeeps ==
  ASSUME StoreInv, Cancel
  PROVE  StoreInv'
  <1>1. snapshot.status = "RUNNING"
    BY DEF StoreInv, Lifecycle, Cancel, CanCancel
  <1> QED BY <1>1, CloseKeeps DEF Cancel, Cancelled

LEMMA FinishExpiredKeeps ==
  ASSUME StoreInv, NEW now \in Nat, now <= clock, FinishExpired(now)
  PROVE  StoreInv'
  <1>1. /\ snapshot.status = "RUNNING"
        /\ clock >= snapshot.endsAt
    <2>1. snapshot.status = "RUNNING" /\ now >= snapshot.endsAt
      BY DEF FinishExpired, CanFinish
    <2>2. snapshot.endsAt \in Nat /\ clock \in Nat
      BY AuctionIsPresent DEF StoreInv, StoreTypeOK, Absent
    <2> QED BY <2>1, <2>2
  <1>2. CASE snapshot.leader = NoUser
    BY <1>1, <1>2, CloseKeeps DEF FinishExpired
  <1>3. CASE snapshot.leader # NoUser
    BY <1>1, <1>3, CloseKeeps DEF FinishExpired
  <1> QED BY <1>2, <1>3

LEMMA ExpireRequestKeeps ==
  ASSUME StoreInv, NEW request \in Requests, ExpireRequest(request)
  PROVE  StoreInv'
  <1>1. /\ requests'[request] = NoReply
        /\ \A r \in Requests \ {request} : requests'[r] = requests[r]
    BY DEF ExpireRequest, StoreInv, StoreTypeOK
  <1>2. StoreTypeOK'
    BY DEF ExpireRequest, StoreInv, StoreTypeOK
  <1>3. Lifecycle'
    BY <1>1 DEF ExpireRequest, StoreInv, Lifecycle, Unopened
  <1>4. LeaderHoldsPrice'
    BY DEF ExpireRequest, StoreInv, LeaderHoldsPrice, Present, Ranked
  <1>5. RankingSpaced'
    BY DEF ExpireRequest, StoreInv, RankingSpaced, Present, Ranked
  <1>6. RepliesTruthful'
    BY <1>1 DEF ExpireRequest, StoreInv, RepliesTruthful, Present
  <1>7. ClosureJustified'
    BY DEF ExpireRequest, StoreInv, ClosureJustified
  <1> QED BY <1>2, <1>3, <1>4, <1>5, <1>6, <1>7 DEF StoreInv

(* An expired snapshot leaves the ranking behind, still well ordered.      *)
LEMMA ExpireSnapshotKeeps ==
  ASSUME StoreInv, ExpireSnapshot
  PROVE  StoreInv'
  <1>1. StoreTypeOK'
    BY DEF ExpireSnapshot, StoreInv, StoreTypeOK
  <1>2. Lifecycle'
    BY DEF ExpireSnapshot, StoreInv, Lifecycle, Unopened, Absent
  <1>3. LeaderHoldsPrice' /\ RepliesTruthful'
    BY DEF ExpireSnapshot, LeaderHoldsPrice, RepliesTruthful, Present
  <1>4. RankingSpaced'
    BY DEF ExpireSnapshot, StoreInv, RankingSpaced, Present, Ranked
  <1>5. ClosureJustified'
    BY DEF ExpireSnapshot, ClosureJustified, Absent
  <1> QED BY <1>1, <1>2, <1>3, <1>4, <1>5 DEF StoreInv

LEMMA TickKeeps ==
  ASSUME StoreInv, Tick
  PROVE  StoreInv'
  <1>1. clock \in Nat /\ clock' = clock + 1
    BY DEF Tick, StoreInv, StoreTypeOK
  <1>2. StoreTypeOK'
    BY <1>1 DEF Tick, StoreInv, StoreTypeOK
  <1>3. Lifecycle'
    BY DEF Tick, StoreInv, Lifecycle, Unopened
  <1>4. LeaderHoldsPrice'
    BY DEF Tick, StoreInv, LeaderHoldsPrice, Present, Ranked
  <1>5. RankingSpaced'
    BY DEF Tick, StoreInv, RankingSpaced, Present, Ranked
  <1>6. RepliesTruthful'
    BY DEF Tick, StoreInv, RepliesTruthful, Present
  <1>7. ClosureJustified'
    <2>1. snapshot.endsAt \in Nat
      BY AuctionIsPresent DEF StoreInv, StoreTypeOK, Absent
    <2> QED BY <1>1, <2>1 DEF Tick, StoreInv, ClosureJustified
  <1> QED BY <1>2, <1>3, <1>4, <1>5, <1>6, <1>7 DEF StoreInv

LEMMA StutterKeeps ==
  ASSUME StoreInv, UNCHANGED storeVars
  PROVE  StoreInv'
  BY DEF StoreInv, storeVars, StoreTypeOK, Lifecycle, Unopened, LeaderHoldsPrice,
         RankingSpaced, RepliesTruthful, ClosureJustified, Present, Ranked

LEMMA StoreInitInv ==
  ASSUME StoreInit
  PROVE  StoreInv
  <1>1. StoreTypeOK /\ Lifecycle
    BY DEF StoreInit, StoreTypeOK, Lifecycle, Unopened, Absent
  <1>2. LeaderHoldsPrice /\ RepliesTruthful
    BY DEF StoreInit, LeaderHoldsPrice, RepliesTruthful, Present
  <1>3. RankingSpaced
    BY DEF StoreInit, RankingSpaced, Ranked
  <1>4. ClosureJustified
    BY DEF StoreInit, ClosureJustified, Absent
  <1> QED BY <1>1, <1>2, <1>3, <1>4 DEF StoreInv

(* A started auction, as the handler of StartAuctionBy builds it.          *)
LEMMA StartedFields ==
  ASSUME NEW now \in Nat
  PROVE  /\ Started(NewAuction, now) \in Auction
         /\ Started(NewAuction, now).status = "RUNNING"
         /\ Started(NewAuction, now).price = StartPrice
         /\ Started(NewAuction, now).leader = NoUser
  <1>1. StartPrice \in Nat /\ now + Duration \in Nat
    BY RulesAssumption DEF RulesValid
  <1>2. Started(NewAuction, now) =
          [status |-> "RUNNING", price |-> StartPrice, leader |-> NoUser,
           endsAt |-> now + Duration]
    BY DEF Started, NewAuction
  <1> QED BY <1>1, <1>2 DEF Auction, Status

LEMMA StoreStepKeeps ==
  ASSUME StoreInv, StoreNext
  PROVE  StoreInv'
  <1>1. clock \in Nat
    BY DEF StoreInv, StoreTypeOK
  <1>2. CASE Open
    BY <1>1, <1>2, StartedFields, InitAuctionKeeps DEF Open
  <1>3. CASE \E user \in Users, request \in Requests, amount \in Amounts,
                now \in 0..clock : AcceptBid(user, request, amount, now)
    <2>1. PICK user \in Users, request \in Requests, amount \in Amounts,
               now \in 0..clock : AcceptBid(user, request, amount, now)
      BY <1>3
    <2>2. now \in Nat
      BY <1>1
    <2> QED BY <2>1, <2>2, AcceptBidKeeps
  <1>4. CASE Cancel
    BY <1>4, CancelKeeps
  <1>5. CASE \E now \in 0..clock : FinishExpired(now)
    BY <1>1, <1>5, FinishExpiredKeeps
  <1>6. CASE \E request \in Requests : ExpireRequest(request)
    BY <1>6, ExpireRequestKeeps
  <1>7. CASE ExpireSnapshot
    BY <1>7, ExpireSnapshotKeeps
  <1>8. CASE Tick
    BY <1>8, TickKeeps
  <1> QED BY <1>2, <1>3, <1>4, <1>5, <1>6, <1>7, <1>8 DEF StoreNext

-----------------------------------------------------------------------------
(* Theorems *)

(* The inductive invariant holds in every reachable state of the store.    *)
THEOREM StoreInvariant == StoreSpec => []StoreInv
  <1>1. StoreInit => StoreInv
    BY StoreInitInv
  <1>2. StoreInv /\ [StoreNext]_storeVars => StoreInv'
    BY StoreStepKeeps, StutterKeeps
  <1> QED BY <1>1, <1>2, PTL DEF StoreSpec

(* Every variable of the store keeps its type.                             *)
THEOREM StoreTypeCorrect == StoreSpec => []StoreTypeOK
  <1>1. StoreInv => StoreTypeOK
    BY DEF StoreInv
  <1> QED BY <1>1, StoreInvariant, PTL

(* The snapshot and the amounts always agree on the leader and the price.  *)
THEOREM LeaderAlwaysHoldsPrice == StoreSpec => []LeaderHoldsPrice
  <1>1. StoreInv => LeaderHoldsPrice
    BY DEF StoreInv
  <1> QED BY <1>1, StoreInvariant, PTL

(* Remembered answers are never ahead of, nor contradict, the snapshot.    *)
THEOREM RepliesAlwaysTruthful == StoreSpec => []RepliesTruthful
  <1>1. StoreInv => RepliesTruthful
    BY DEF StoreInv
  <1> QED BY <1>1, StoreInvariant, PTL

(* No auction is closed without a reason.                                  *)
THEOREM ClosureAlwaysJustified == StoreSpec => []ClosureJustified
  <1>1. StoreInv => ClosureJustified
    BY DEF StoreInv
  <1> QED BY <1>1, StoreInvariant, PTL

(* The one number Redis sorts by orders users as their amounts do, for any *)
(* factor of at least 2 and any number of bids.                            *)
THEOREM RankingAlwaysFollowsAmounts == StoreSpec => []RankingFollowsAmounts
  <1>1. StoreInv => RankingFollowsAmounts
    <2> SUFFICES ASSUME StoreInv, NEW u \in Users, NEW v \in Users,
                        Ranked(u), Ranked(v), u # v
                 PROVE  /\ amounts[u] # amounts[v]
                        /\ amounts[u] > amounts[v] => Score(u) > Score(v)
      BY DEF RankingFollowsAmounts
    <2>1. /\ amounts[u] \in Int /\ amounts[v] \in Int
          /\ rankSeq[u] \in Int /\ rankSeq[v] \in Int
      BY DEF StoreInv, StoreTypeOK
    <2>2. /\ amounts[u] # amounts[v]
          /\ amounts[u] > amounts[v] =>
               amounts[u] - amounts[v] >= rankSeq[u] - rankSeq[v]
      BY DEF StoreInv, RankingSpaced
    <2> QED BY <2>1, <2>2, ScoreOrder DEF Score
  <1> QED BY <1>1, StoreInvariant, PTL

-----------------------------------------------------------------------------
(* The store implements the contract *)

LEMMA PhaseOf ==
  ASSUME StoreInv
  PROVE  /\ snapshot.status = "RUNNING" => Phase = "open"
         /\ snapshot.status = "SOLD" => Phase = "sold"
         /\ snapshot.status = "ENDED" => Phase = "unsold"
         /\ snapshot.status = "CANCELLED" => Phase = "void"
         /\ snapshot = Absent /\ expireAt = 0 => Phase = "unopened"
         /\ snapshot = Absent /\ expireAt # 0 => Phase = "forgotten"
         /\ expireAt # 0 => Phase # "unopened"
  BY DEF Phase, Absent

LEMMA OpenSimulates ==
  ASSUME StoreInv, expireAt = 0,
         NEW s \in Auction, s.status = "RUNNING", s.price = StartPrice,
         s.leader = NoUser, InitAuction(s)
  PROVE  Contract!Open
  <1>1. Phase = "unopened"
    BY PhaseOf DEF StoreInv, Lifecycle, Unopened
  <1>2. StoreInv'
    BY InitAuctionKeeps
  <1>3. snapshot' = s /\ clock' = clock
    BY DEF InitAuction
  <1>4. Phase' = "open"
    BY <1>3 DEF Phase
  <1>5. s.endsAt \in Nat
    BY AuctionIsPresent
  <1> QED BY <1>1, <1>3, <1>4, <1>5 DEF Contract!Open

LEMMA AcceptBidSimulates ==
  ASSUME StoreInv, NEW user \in Users, NEW request \in Requests,
         NEW amount \in Amounts, NEW now \in Nat,
         AcceptBid(user, request, amount, now)
  PROVE  Contract!Raise
  <1> DEFINE new == AfterBid(user, amount, now)
  <1>1. StoreTypeOK /\ Acceptable(amount, now)
    BY DEF StoreInv, AcceptBid
  <1>2. /\ snapshot.status = "RUNNING" /\ amount \in Nat
        /\ amount >= snapshot.price + 1 /\ snapshot.price \in Nat
        /\ snapshot.endsAt \in Nat
    BY <1>1, AcceptableRaises, AuctionIsPresent
  <1>3. /\ new.price = amount /\ new.leader = user
        /\ new.status = IF amount >= CeilingPrice THEN "SOLD" ELSE "RUNNING"
        /\ new.endsAt >= snapshot.endsAt
    BY <1>1, AfterBidFields
  <1>4. amount >= CeilingPrice => new.endsAt = snapshot.endsAt
    <2>1. CeilingPrice \in Nat
      BY RulesAssumption DEF RulesValid
    <2> QED BY <1>2, <2>1 DEF AfterBid, Extends
  <1>5. snapshot' = new /\ clock' = clock
    BY DEF AcceptBid
  <1> HIDE DEF new
  <1>6. Phase = "open"
    BY <1>2, PhaseOf
  <1>7. Phase' = IF amount >= CeilingPrice THEN "sold" ELSE "open"
    BY <1>3, <1>5 DEF Phase
  <1>8. CeilingPrice \in Nat
    BY RulesAssumption DEF RulesValid
  <1> QED BY <1>2, <1>3, <1>4, <1>5, <1>6, <1>7, <1>8 DEF Contract!Raise

LEMMA CancelSimulates ==
  ASSUME StoreInv, Cancel
  PROVE  Contract!Void
  <1>1. snapshot.status = "RUNNING" /\ snapshot \in Auction
    BY DEF StoreInv, StoreTypeOK, Lifecycle, Cancel, CanCancel, Absent
  <1>2. /\ snapshot'.status = "CANCELLED"
        /\ UNCHANGED <<snapshot.price, snapshot.leader, snapshot.endsAt, clock>>
    BY <1>1 DEF Cancel, Cancelled, Auction
  <1>3. Phase = "open" /\ Phase' = "void"
    BY <1>1, <1>2, PhaseOf DEF Phase
  <1> QED BY <1>2, <1>3 DEF Contract!Void

LEMMA FinishExpiredSimulates ==
  ASSUME StoreInv, NEW now \in Nat, now <= clock, FinishExpired(now)
  PROVE  Contract!Close
  <1>1. snapshot.status = "RUNNING" /\ snapshot \in Auction /\ now >= snapshot.endsAt
    BY DEF StoreInv, StoreTypeOK, FinishExpired, CanFinish, Absent
  <1>2. clock >= snapshot.endsAt
    BY <1>1, AuctionIsPresent DEF StoreInv, StoreTypeOK
  <1>3. /\ snapshot'.status = IF snapshot.leader = NoUser THEN "ENDED" ELSE "SOLD"
        /\ UNCHANGED <<snapshot.price, snapshot.leader, snapshot.endsAt, clock>>
    BY <1>1 DEF FinishExpired, Auction
  <1>4. /\ Phase = "open"
        /\ Phase' = IF snapshot.leader = NoUser THEN "unsold" ELSE "sold"
    BY <1>1, <1>3, PhaseOf DEF Phase
  <1> QED BY <1>2, <1>3, <1>4 DEF Contract!Close

LEMMA ExpireSnapshotSimulates ==
  ASSUME StoreInv, ExpireSnapshot
  PROVE  Contract!Forget
  <1>1. expireAt # 0
    BY DEF StoreInv, Lifecycle, Unopened, ExpireSnapshot
  <1>2. snapshot' = Absent /\ expireAt' = expireAt /\ clock' = clock
    BY DEF ExpireSnapshot
  <1>3. Phase # "unopened" /\ Phase' = "forgotten"
    BY <1>1, <1>2, PhaseOf DEF Phase, Absent
  <1> QED BY <1>2, <1>3 DEF Contract!Forget, Absent

LEMMA TickSimulates ==
  ASSUME StoreInv, Tick
  PROVE  Contract!Pass
  <1>1. clock \in Nat
    BY DEF StoreInv, StoreTypeOK
  <1> QED BY <1>1 DEF Tick, Contract!Pass, Phase

LEMMA SameSnapshotSimulates ==
  ASSUME UNCHANGED <<snapshot, expireAt, clock>>
  PROVE  UNCHANGED Contract!contractVars
  BY DEF Contract!contractVars, Phase

LEMMA StoreStepSimulates ==
  ASSUME StoreInv, [StoreNext]_storeVars
  PROVE  [Contract!ContractNext]_(Contract!contractVars)
  <1>1. clock \in Nat
    BY DEF StoreInv, StoreTypeOK
  <1>2. CASE Open
    BY <1>1, <1>2, StartedFields, OpenSimulates DEF Open, Contract!ContractNext
  <1>3. CASE \E user \in Users, request \in Requests, amount \in Amounts,
                now \in 0..clock : AcceptBid(user, request, amount, now)
    <2>1. PICK user \in Users, request \in Requests, amount \in Amounts,
               now \in 0..clock : AcceptBid(user, request, amount, now)
      BY <1>3
    <2>2. now \in Nat
      BY <1>1
    <2> QED BY <2>1, <2>2, AcceptBidSimulates DEF Contract!ContractNext
  <1>4. CASE Cancel
    BY <1>4, CancelSimulates DEF Contract!ContractNext
  <1>5. CASE \E now \in 0..clock : FinishExpired(now)
    BY <1>1, <1>5, FinishExpiredSimulates DEF Contract!ContractNext
  <1>6. CASE \E request \in Requests : ExpireRequest(request)
    BY <1>6, SameSnapshotSimulates DEF ExpireRequest
  <1>7. CASE ExpireSnapshot
    BY <1>7, ExpireSnapshotSimulates DEF Contract!ContractNext
  <1>8. CASE Tick
    BY <1>8, TickSimulates DEF Contract!ContractNext
  <1>9. CASE UNCHANGED storeVars
    BY <1>9, SameSnapshotSimulates DEF storeVars
  <1> QED BY <1>2, <1>3, <1>4, <1>5, <1>6, <1>7, <1>8, <1>9 DEF StoreNext

(* Every behaviour of the store, on either backend, is one of the          *)
(* contract's auction.                                                     *)
THEOREM StoreMeetsContract == StoreSpec => MeetsContract
  <1>1. StoreInit => Contract!ContractInit
    BY DEF StoreInit, Contract!ContractInit, Phase, Absent
  <1>2. StoreInv /\ [StoreNext]_storeVars
          => [Contract!ContractNext]_(Contract!contractVars)
    BY StoreStepSimulates
  <1> QED BY <1>1, <1>2, StoreInvariant, PTL
          DEF StoreSpec, MeetsContract, Contract!ContractSpec

=============================================================================
