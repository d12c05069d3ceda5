---------------------------- MODULE DurableTables ----------------------------
(***************************************************************************)
(* What a repository promises its callers: one call at a time changes one  *)
(* table, a call that was answered with success is stored, one that was    *)
(* answered with an error is not, and a restart changes nothing.  Users,   *)
(* sessions and auctions are replaced by key, bids are only added, and an  *)
(* auction keeps its first order.                                          *)
(***************************************************************************)
EXTENDS RepositoryTables

VARIABLES
  stored,  \* per table its records
  call,    \* the running call, NoCall, or Stored once it is in the table
  answer   \* what the last call was told

tableVars == <<stored, call, answer>>

NoCall == [op |-> "none"]
Stored == [op |-> "stored"]

TablesInit ==
  /\ stored = [t \in Tables |-> {}]
  /\ call = NoCall
  /\ answer = "none"

Ask(op, row) ==
  /\ call = NoCall
  /\ Changes(op, stored[TableOf(op)], row)
  /\ call' = [op |-> op, row |-> row]
  /\ answer' = "none"
  /\ stored' = stored

Store ==
  /\ call.op \in Operations
  /\ stored' = [stored EXCEPT ![TableOf(call.op)] = After(call.op, @, call.row)]
  /\ call' = Stored
  /\ answer' = answer

Confirm ==
  /\ call = Stored
  /\ answer' = "success"
  /\ call' = NoCall
  /\ stored' = stored

Refuse ==
  /\ call.op \in Operations
  /\ answer' = "error"
  /\ call' = NoCall
  /\ stored' = stored

Restart ==
  /\ call' = NoCall
  /\ answer' = "none"
  /\ stored' = stored

TablesNext ==
  \/ \E op \in Operations, row \in Rows : Ask(op, row)
  \/ Store \/ Confirm \/ Refuse \/ Restart

TablesSpec == TablesInit /\ [][TablesNext]_tableVars

=============================================================================
