------------------------------ MODULE BidStore ------------------------------
(***************************************************************************)
(* The realtime store of one auction: internal/redis.  It has two          *)
(* implementations behind the Store interface, the Lua scripts of          *)
(* RedisStore and the mutex of MemoryStore; main.go picks one at boot.     *)
(* Each script and each locked method is one action.  The two differ in    *)
(* three ways, all kept here: Redis keys expire, MemoryStore keeps its     *)
(* ranking when an auction is initialised again, and a repeated request is *)
(* answered by MemoryStore with the snapshot of the first answer (see      *)
(* AuctionService, where the answer is used).                              *)
(***************************************************************************)
EXTENDS AuctionDomain

CONSTANTS
  Backends,   \* the stores main.go may pick: a subset of {"redis", "memory"}
  Requests,   \* request ids
  Amounts,    \* the amounts that are bid
  NoReply,    \* no answer is remembered for a request
  StateTTL,   \* lifetime of the Redis snapshot key
  RankScale,  \* factor of the amount in a ranking score (10^9 in the source)
  MaxClock    \* bound of a run: time stops here

ASSUME StoreAssumption ==
  /\ Backends \subseteq {"redis", "memory"}
  /\ Amounts \subseteq Nat
  /\ StateTTL \in Nat \ {0}
  /\ RankScale \in Nat
  /\ RankScale >= 2
  /\ MaxClock \in Nat

VARIABLES
  backend,    \* which store runs
  snapshot,   \* the snapshot hash, Absent when there is none
  expireAt,   \* when Redis may drop the snapshot, 0 before InitAuction
  amounts,    \* per user the best amount, -1 for none
  rankSeq,    \* per user the sequence number of that amount
  seq,        \* the bid counter
  requests,   \* per request the remembered answer
  clock       \* the time

storeVars == <<backend, snapshot, expireAt, amounts, rankSeq, seq, requests, clock>>

Absent == [status |-> "ABSENT", price |-> 0, leader |-> NoUser, endsAt |-> 0]

Reply == [extended : BOOLEAN, snapshot : Auction]

StoreTypeOK ==
  /\ backend \in Backends
  /\ snapshot \in Auction \cup {Absent}
  /\ expireAt \in Nat
  /\ amounts \in [Users -> Nat \cup {-1}]
  /\ rankSeq \in [Users -> Nat]
  /\ seq \in Nat
  /\ requests \in [Requests -> Reply \cup {NoReply}]
  /\ clock \in Nat

StoreInit ==
  /\ backend \in Backends
  /\ snapshot = Absent
  /\ expireAt = 0
  /\ amounts = [u \in Users |-> -1]
  /\ rankSeq = [u \in Users |-> 0]
  /\ seq = 0
  /\ requests = [r \in Requests |-> NoReply]
  /\ clock = 0

-----------------------------------------------------------------------------
(* Store operations *)

(* Slip: the factor is on the sequence number.                             *)
ScoreSwapped(u) == amounts[u] - rankSeq[u] * RankScale

(* The score a user's row of the Redis ranking has.                        *)
Score(u) == amounts[u] * RankScale - rankSeq[u]

(* Redis deletes the ranking and the counter and keeps remembered answers; *)
(* MemoryStore keeps all three.                                            *)
InitAuction(s) ==
  /\ snapshot' = s
  /\ expireAt' = clock + StateTTL
  /\ IF backend = "redis"
       THEN /\ amounts' = [u \in Users |-> -1]
            /\ rankSeq' = [u \in Users |-> 0]
            /\ seq' = 0
       ELSE UNCHANGED <<amounts, rankSeq, seq>>
  /\ UNCHANGED <<backend, requests, clock>>

OnGrid(amount) == (amount - StartPrice) % Increment = 0

(* Slip: the status of the auction is not asked for.                       *)
AcceptableClosed(amount, now) ==
  /\ snapshot.status # "ABSENT"
  /\ now <= snapshot.endsAt
  /\ amount >= NextMinimumBid(snapshot.price)
  /\ OnGrid(amount)

Acceptable(amount, now) ==
  /\ snapshot.status = "RUNNING"
  /\ now <= snapshot.endsAt
  /\ amount >= NextMinimumBid(snapshot.price)
  /\ OnGrid(amount)

(* Reaching the ceiling takes precedence over the extension.               *)
Extends(amount, now) ==
  /\ amount < CeilingPrice
  /\ snapshot.endsAt - now <= ExtendThreshold
  /\ ExtendBy > 0

AfterBid(user, amount, now) ==
  [status |-> IF amount >= CeilingPrice THEN "SOLD" ELSE snapshot.status,
   price  |-> amount,
   leader |-> user,
   endsAt |-> snapshot.endsAt + (IF Extends(amount, now) THEN ExtendBy ELSE 0)]

(* A bid that is not a repeated request and passes every check.  `now' was *)
(* read by the HTTP handler, some time before the store is reached.        *)
AcceptBid(user, request, amount, now) ==
  /\ requests[request] = NoReply
  /\ Acceptable(amount, now)
  /\ snapshot' = AfterBid(user, amount, now)
  /\ seq' = seq + 1
  /\ IF amount > amounts[user]
       THEN /\ amounts' = [amounts EXCEPT ![user] = amount]
            /\ rankSeq' = [rankSeq EXCEPT ![user] = seq + 1]
       ELSE UNCHANGED <<amounts, rankSeq>>
  /\ requests' = [requests EXCEPT ![request] =
                    [extended |-> Extends(amount, now),
                     snapshot |-> AfterBid(user, amount, now)]]
  /\ UNCHANGED <<backend, expireAt, clock>>

Cancel ==
  /\ CanCancel(snapshot.status)
  /\ snapshot' = Cancelled(snapshot)
  /\ UNCHANGED <<backend, expireAt, amounts, rankSeq, seq, requests, clock>>

(* Slip: the deadline is not asked for.                                    *)
CanFinishEarly(now) == snapshot.status = "RUNNING"

(* Slip: a timer that fires on time is too early.                          *)
CanFinishLate(now) ==
  /\ snapshot.status = "RUNNING"
  /\ now > snapshot.endsAt

CanFinish(now) ==
  /\ snapshot.status = "RUNNING"
  /\ now >= snapshot.endsAt

FinishExpired(now) ==
  /\ CanFinish(now)
  /\ snapshot' = [snapshot EXCEPT !.status =
                    IF snapshot.leader = NoUser THEN "ENDED" ELSE "SOLD"]
  /\ UNCHANGED <<backend, expireAt, amounts, rankSeq, seq, requests, clock>>

(* Redis drops a remembered answer requestTTL after it was stored: any     *)
(* time, as seen from the auction's clock.                                 *)
ExpireRequest(request) ==
  /\ backend = "redis"
  /\ requests[request] # NoReply
  /\ requests' = [requests EXCEPT ![request] = NoReply]
  /\ UNCHANGED <<backend, snapshot, expireAt, amounts, rankSeq, seq, clock>>

(* stateTTL is set by InitAuction and never renewed.  The ranking keys     *)
(* carry no TTL and stay.                                                  *)
ExpireSnapshot ==
  /\ backend = "redis"
  /\ snapshot # Absent
  /\ clock >= expireAt
  /\ snapshot' = Absent
  /\ UNCHANGED <<backend, expireAt, amounts, rankSeq, seq, requests, clock>>

Tick ==
  /\ clock < MaxClock
  /\ clock' = clock + 1
  /\ UNCHANGED <<backend, snapshot, expireAt, amounts, rankSeq, seq, requests>>

-----------------------------------------------------------------------------
(* The store alone, under an environment that opens the auction once and   *)
(* then calls anything.                                                    *)

Open ==
  /\ expireAt = 0
  /\ InitAuction(Started(NewAuction, clock))

StoreNext ==
  \/ Open
  \/ \E user \in Users, request \in Requests, amount \in Amounts, now \in 0..clock :
        AcceptBid(user, request, amount, now)
  \/ Cancel
  \/ \E now \in 0..clock : FinishExpired(now)
  \/ \E request \in Requests : ExpireRequest(request)
  \/ ExpireSnapshot
  \/ Tick

StoreSpec == StoreInit /\ [][StoreNext]_storeVars

-----------------------------------------------------------------------------
(* Properties of the store *)

Present == snapshot # Absent

Ranked(u) == amounts[u] # -1

(* The snapshot hash and the amount hash are separate keys that agree on   *)
(* who leads: the leader's own best amount is the price, everybody else    *)
(* ranks strictly below it, and without a leader nobody is ranked          *)
(* (scripts.go:55-78).                                                     *)
LeaderHoldsPrice ==
  Present =>
    IF snapshot.leader = NoUser
      THEN /\ snapshot.price = StartPrice
           /\ \A u \in Users : ~Ranked(u)
      ELSE /\ amounts[snapshot.leader] = snapshot.price
           /\ \A u \in Users \ {snapshot.leader} : amounts[u] < snapshot.price

(* The ranking is ordered by one number that mixes the amount with the     *)
(* arrival (scripts.go:60): however many bids arrive, the order of the     *)
(* scores is the order of the amounts, and no two users tie.               *)
RankingFollowsAmounts ==
  \A u, v \in Users :
    Ranked(u) /\ Ranked(v) /\ u # v =>
      /\ amounts[u] # amounts[v]
      /\ amounts[u] > amounts[v] => Score(u) > Score(v)

(* An answer kept for a repeated request never promises more than the      *)
(* store holds: it is at or below the price, no two requests won the same  *)
(* price, and one that says SOLD is the final snapshot itself              *)
(* (scripts.go:17-22 and 80-92, store.go:94-97 and 149-155).               *)
RepliesTruthful ==
  Present =>
    \A r \in Requests :
      requests[r] # NoReply =>
        /\ requests[r].snapshot.price <= snapshot.price
        /\ requests[r].snapshot.endsAt <= snapshot.endsAt
        /\ requests[r].snapshot.status = "SOLD" => requests[r].snapshot = snapshot
        /\ \A q \in Requests \ {r} :
              requests[q] # NoReply =>
                requests[q].snapshot.price # requests[r].snapshot.price

(* An auction is closed only for a reason: sold for reaching the ceiling   *)
(* or, once its last deadline came, to a leader; ended only at the         *)
(* deadline and without one; and it is not open once the ceiling is bid    *)
(* (scripts.go:65-70 and 119-129).                                         *)
ClosureJustified ==
  /\ snapshot.status = "SOLD" =>
        /\ snapshot.leader \in Users
        /\ snapshot.price >= CeilingPrice \/ clock >= snapshot.endsAt
  /\ snapshot.status = "ENDED" =>
        /\ snapshot.leader = NoUser
        /\ clock >= snapshot.endsAt
  /\ snapshot.status = "RUNNING" /\ snapshot.leader # NoUser =>
        snapshot.price < CeilingPrice

-----------------------------------------------------------------------------
(* Refinement of the contract *)

Phase ==
  CASE snapshot.status = "RUNNING"   -> "open"
    [] snapshot.status = "SOLD"      -> "sold"
    [] snapshot.status = "ENDED"     -> "unsold"
    [] snapshot.status = "CANCELLED" -> "void"
    [] OTHER -> IF expireAt = 0 THEN "unopened" ELSE "forgotten"

Contract == INSTANCE AuctionContract
              WITH phase <- Phase, price <- snapshot.price,
                   leader <- snapshot.leader, deadline <- snapshot.endsAt

(* Under every interleaving of bids, cancellation, the finish script, the  *)
(* two expiries and the clock, the store's snapshot behaves as the         *)
(* contract's auction: closed is closed, the price only rises, and a       *)
(* deadline that has come is only ever put off by a bid.                   *)
MeetsContract == Contract!ContractSpec

=============================================================================
