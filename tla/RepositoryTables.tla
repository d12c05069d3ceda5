-------------------------- MODULE RepositoryTables --------------------------
(***************************************************************************)
(* The records of internal/repository: five tables of rows, and what each  *)
(* call of the AuctionRepository interface makes of its table.             *)
(***************************************************************************)
CONSTANTS
  Keys,   \* ids of users, sessions and auctions
  Values  \* what a record says

Operations == {"UpsertUser", "SaveSession", "CreateAuction", "UpdateAuction",
               "SaveBid", "UpsertOrder"}

Tables == {"users", "sessions", "auctions", "bids", "orders"}

TableOf(op) ==
  CASE op = "UpsertUser" -> "users"
    [] op = "SaveSession" -> "sessions"
    [] op \in {"CreateAuction", "UpdateAuction"} -> "auctions"
    [] op = "SaveBid" -> "bids"
    [] op = "UpsertOrder" -> "orders"

(* A record under its key; a bid's key is its auction.                     *)
Rows == Keys \X Values

HasKey(rows, key) == \E r \in rows : r[1] = key

(* Slip: an order is written whether or not the auction has one.           *)
ChangesAnyOrder(op, rows, row) ==
  CASE op = "CreateAuction" -> ~HasKey(rows, row[1])
    [] op = "UpdateAuction" -> HasKey(rows, row[1])
    [] op = "SaveBid" -> row \notin rows
    [] OTHER -> TRUE

(* Whether the call writes anything: an update needs its auction, an order *)
(* is kept if there is one, and ids of auctions and bids are new.          *)
Changes(op, rows, row) ==
  CASE op \in {"CreateAuction", "UpsertOrder"} -> ~HasKey(rows, row[1])
    [] op = "UpdateAuction" -> HasKey(rows, row[1])
    [] op = "SaveBid" -> row \notin rows
    [] OTHER -> TRUE

(* Slip: the record is added without its key.                              *)
AfterBare(op, rows, row) == rows \cup {row[2]}

(* The table's records after the call.                                     *)
After(op, rows, row) ==
  IF op = "SaveBid" THEN rows \cup {row}
  ELSE {r \in rows : r[1] # row[1]} \cup {row}

=============================================================================
