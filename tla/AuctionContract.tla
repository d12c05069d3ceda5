--------------------------- MODULE AuctionContract ---------------------------
(***************************************************************************)
(* What one auction promises its bidders, whatever store keeps it and      *)
(* whatever order the handlers run in: it opens once, the price only goes  *)
(* up, an open auction closes by a bid that reaches the ceiling, by its    *)
(* deadline or by the merchant, and a closed auction never changes again.  *)
(* BidStore is shown to implement it.                                      *)
(***************************************************************************)
EXTENDS Integers

CONSTANTS Users, NoUser, StartPrice, CeilingPrice

VARIABLES
  phase,      \* "unopened", "open", "sold", "unsold", "void" or "forgotten"
  price,      \* the amount of the best bid
  leader,     \* who made it
  deadline,   \* when the auction may be closed for want of a better bid
  clock       \* the time

contractVars == <<phase, price, leader, deadline, clock>>

ContractInit ==
  /\ phase = "unopened"
  /\ price = 0
  /\ leader = NoUser
  /\ deadline = 0
  /\ clock = 0

(* A slow start may open it with its deadline already past.                *)
Open ==
  /\ phase = "unopened"
  /\ phase' = "open"
  /\ price' = StartPrice
  /\ leader' = NoUser
  /\ deadline' \in Nat
  /\ clock' = clock

Raise ==
  /\ phase = "open"
  /\ price' > price
  /\ leader' \in Users
  /\ \/ /\ price' >= CeilingPrice
        /\ phase' = "sold"
        /\ deadline' = deadline
     \/ /\ price' < CeilingPrice
        /\ phase' = "open"
        /\ deadline' >= deadline
  /\ clock' = clock

(* Only at the deadline, and only a led auction is sold.                   *)
Close ==
  /\ phase = "open"
  /\ clock >= deadline
  /\ phase' = IF leader = NoUser THEN "unsold" ELSE "sold"
  /\ UNCHANGED <<price, leader, deadline, clock>>

Void ==
  /\ phase = "open"
  /\ phase' = "void"
  /\ UNCHANGED <<price, leader, deadline, clock>>

Forget ==
  /\ phase # "unopened"
  /\ phase' = "forgotten"
  /\ price' = 0
  /\ leader' = NoUser
  /\ deadline' = 0
  /\ clock' = clock

Pass ==
  /\ clock' > clock
  /\ UNCHANGED <<phase, price, leader, deadline>>

ContractNext == Open \/ Raise \/ Close \/ Void \/ Forget \/ Pass

ContractSpec == ContractInit /\ [][ContractNext]_contractVars

=============================================================================
