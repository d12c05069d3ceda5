----------------------------- MODULE MCBidStore -----------------------------
(* The store alone: four requests of two users over a price ladder of     *)
(* start 1, step 2 and ceiling 9, so that a bid can be low, off the grid,  *)
(* plain, extending, or a ceiling bid.                                     *)
EXTENDS BidStore, TLC

MCAmounts == {1, 3, 4, 5, 7, 9}
MCSymmetry == Permutations(Users) \cup Permutations(Requests)

=============================================================================
