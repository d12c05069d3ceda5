------------------------------ MODULE MCService ------------------------------
(* The service on both stores: start 1, step 2, ceiling 5, so an auction   *)
(* takes one plain or extending bid and a ceiling bid, in either order.    *)
EXTENDS AuctionService, TLC

MCAmounts == {3, 5}
MCSymmetry == Permutations(Users) \cup Permutations(Requests) \cup Permutations(Bids)

=============================================================================
