---------------------------- MODULE AuctionDomain ----------------------------
(***************************************************************************)
(* The auction aggregate of internal/domain/auction/model.go: its rules,   *)
(* its record, and the transitions a merchant may ask for.  Money is in    *)
(* whole units and time in ticks, both integers as in the source (int64    *)
(* amounts, millisecond deadlines).                                        *)
(*                                                                         *)
(* Auction.Finish is called by no code outside the tests: an auction is    *)
(* closed by the store (module BidStore).                                  *)
(***************************************************************************)
EXTENDS Integers

CONSTANTS
  StartPrice, Increment, CeilingPrice,   \* money rules
  Duration, ExtendThreshold, ExtendBy,   \* time rules
  Users,                                 \* the bidders
  NoUser                                 \* the empty HighestBidder

RulesValid ==
  /\ StartPrice \in Nat
  /\ Increment \in Nat \ {0}
  /\ Duration \in Nat \ {0}
  /\ CeilingPrice \in Nat
  /\ CeilingPrice >= StartPrice
  /\ ExtendThreshold \in Nat
  /\ ExtendBy \in Nat

(* Both CreateAuction and StartAuctionBy validate before anything runs.    *)
ASSUME RulesAssumption == RulesValid
ASSUME UsersAssumption == NoUser \notin Users

Status == {"DRAFT", "RUNNING", "SOLD", "ENDED", "CANCELLED"}

(* The design documents call these final; nothing in the code names them.  *)
Terminal == {"SOLD", "ENDED", "CANCELLED"}

(* The fields a handler changes; the product and the rules never change.   *)
Auction == [status : Status,
            price  : Nat,
            leader : Users \cup {NoUser},
            endsAt : Nat]

NewAuction ==
  [status |-> "DRAFT", price |-> StartPrice, leader |-> NoUser, endsAt |-> 0]

CanStart(a) == a.status = "DRAFT"

Started(a, now) ==
  [status |-> "RUNNING", price |-> StartPrice, leader |-> a.leader,
   endsAt |-> now + Duration]

(* Slip: the finished states are forgotten, a sold auction is cancelled.   *)
CanCancelSold(status) == status \in {"DRAFT", "RUNNING", "SOLD"}

CanCancel(status) == status \in {"DRAFT", "RUNNING"}

(* Slip: a script and the service spell the status differently.            *)
CancelledMisspelt(a) == [a EXCEPT !.status = "CANCELED"]

Cancelled(a) == [a EXCEPT !.status = "CANCELLED"]

(* Slip: the increment is not required, the price may be bid again.        *)
NextMinimumBidEqual(current) ==
  IF current < StartPrice THEN StartPrice ELSE current

NextMinimumBid(current) ==
  IF current + Increment < StartPrice THEN StartPrice ELSE current + Increment

=============================================================================
