----------------------------- MODULE MCRoomPage -----------------------------
(* Two auctions, one selected after the other, on the page of a bidder or  *)
(* of an admin.                                                            *)
EXTENDS RoomPage

=============================================================================
