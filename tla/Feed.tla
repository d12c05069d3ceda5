-------------------------------- MODULE Feed --------------------------------
(***************************************************************************)
(* What a room promises the pages that follow it, however many server      *)
(* instances, channels and lost events lie between: what a page is sent is *)
(* a snapshot the store had at some moment since the page was last sent    *)
(* one, so its view never goes back.  Not the newest: the store may change *)
(* between the read and the write.  After a read that failed the page gets *)
(* nothing, or one from any time, or one the store never had (version 0).  *)
(***************************************************************************)
EXTENDS Integers

CONSTANT Clients

VARIABLES
  version,  \* how often the store's snapshot has changed
  shown,    \* per client the version it was sent last
  fresh,    \* per client whether the last read succeeded
  since     \* per client the store's version when it was last sent one

feedVars == <<version, shown, fresh, since>>

FeedInit ==
  /\ version = 0
  /\ shown = [c \in Clients |-> 0]
  /\ fresh = [c \in Clients |-> TRUE]
  /\ since = [c \in Clients |-> 0]

Advance ==
  /\ version' = version + 1
  /\ UNCHANGED <<shown, fresh, since>>

(* The page is sent something, read (or not) from the store.               *)
Sent(c, versions, fromStore) ==
  /\ \E v \in versions : shown' = [shown EXCEPT ![c] = v]
  /\ fresh' = [fresh EXCEPT ![c] = fromStore]
  /\ since' = [since EXCEPT ![c] = version]
  /\ UNCHANGED version

Show(c) == Sent(c, since[c]..version, TRUE)

ShowStale(c) == Sent(c, 0..version, FALSE)

ShowNothing(c) ==
  /\ fresh' = [fresh EXCEPT ![c] = FALSE]
  /\ UNCHANGED <<version, shown, since>>

FeedNext == Advance \/ \E c \in Clients : Show(c) \/ ShowStale(c) \/ ShowNothing(c)

FeedSpec == FeedInit /\ [][FeedNext]_feedVars

=============================================================================
