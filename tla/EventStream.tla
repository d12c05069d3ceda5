----------------------------- MODULE EventStream -----------------------------
(***************************************************************************)
(* How the pages of one room learn what the store holds: the handlers of   *)
(* auction.go announce a change to the hub of their own instance (ws/hub)  *)
(* and to the Redis channel (ws/redis_bus), every instance forwards the    *)
(* announcements of the others to its hub, and each connection's loop in   *)
(* http/server.go is woken by its hub channel, reads the snapshot again    *)
(* and then writes it to the page.  A snapshot is its version: how often   *)
(* the store has changed.  Version 0 is a record the store never held.     *)
(***************************************************************************)
EXTENDS Integers, Sequences

CONSTANTS
  Instances,   \* server processes that share the Redis store
  Calls,       \* handler calls that broadcast
  Clients,     \* connections
  InstanceOf,  \* the instance that serves a call or a client
  SourceId,    \* per instance the id NewRedisBus is given
  Capacity,    \* room of a subscriber's channel, 16 in the code
  Failures     \* what may go wrong: "call", "bus", "read"

ASSUME StreamAssumption ==
  /\ Instances \cap Calls = {}
  /\ InstanceOf \in [Calls \cup Clients -> Instances]
  /\ Capacity \in Nat \ {0}
  /\ Failures \subseteq {"call", "bus", "read"}

(* The goroutines that broadcast: the calls, and each instance's forwarder.*)
Threads == Calls \cup Instances

HubOf(t) == IF t \in Instances THEN t ELSE InstanceOf[t]

VARIABLES
  version,  \* how often the store's snapshot has changed, 0: there is none
  pc,       \* where a call is
  carried,  \* the version a thread's event holds
  todo,     \* the channels a thread's Broadcast has still to offer to
  inbox,    \* per instance what the subscription has received
  kind,     \* what a connection is: "socket" or "stream"
  phase,    \* where a connection's handler is
  queue,    \* the channel of a connection
  taken,    \* the version its handler is working on: an event's, then a read's
  read,     \* that was read from the store, not the event's own
  gone,     \* the page has left, the handler may not know
  shown,    \* the version last sent to the page
  fresh,    \* it was read from the store, not the event's own
  since,    \* history: the store's version when the page was last sent one
  silent    \* per instance the versions no event will tell it of

callVars == <<pc, carried>>
pageVars == <<shown, fresh, since>>
workVars == <<taken, read>>
clientVars == <<kind, phase, gone, pageVars>>
vars == <<version, callVars, todo, inbox, clientVars, queue, workVars, silent>>

Phases == {"out", "joined", "waiting", "woken", "writing", "leaving", "left"}

StreamTypeOK ==
  /\ version \in Nat
  /\ pc \in [Calls -> {"idle", "changed", "repeated", "sending", "done"}]
  /\ carried \in [Threads -> Nat]
  /\ todo \in [Threads -> SUBSET Clients]
  /\ inbox \in [Instances -> Seq([source : {SourceId[i] : i \in Instances}, version : Nat])]
  /\ kind \in [Clients -> {"socket", "stream"}]
  /\ phase \in [Clients -> Phases]
  /\ queue \in [Clients -> Seq(Nat)]
  /\ taken \in [Clients -> Nat]
  /\ read \in [Clients -> BOOLEAN]
  /\ \A c \in Clients : Len(queue[c]) <= Capacity
  /\ gone \in [Clients -> BOOLEAN]
  /\ shown \in [Clients -> Nat]
  /\ fresh \in [Clients -> BOOLEAN]
  /\ since \in [Clients -> Nat]
  /\ silent \in [Instances -> SUBSET Nat]

Init ==
  /\ version = 0
  /\ pc = [t \in Calls |-> "idle"]
  /\ carried = [t \in Threads |-> 0]
  /\ todo = [t \in Threads |-> {}]
  /\ inbox = [i \in Instances |-> <<>>]
  /\ kind \in [Clients -> {"socket", "stream"}]
  /\ phase = [c \in Clients |-> "out"]
  /\ queue = [c \in Clients |-> <<>>]
  /\ taken = [c \in Clients |-> 0]
  /\ read = [c \in Clients |-> FALSE]
  /\ gone = [c \in Clients |-> FALSE]
  /\ shown = [c \in Clients |-> 0]
  /\ fresh = [c \in Clients |-> TRUE]
  /\ since = [c \in Clients |-> 0]
  /\ silent = [i \in Instances |-> {}]

Goto(t, from, to) ==
  /\ pc[t] = from
  /\ pc' = [pc EXCEPT ![t] = to]

-----------------------------------------------------------------------------
(* The hub *)

Room(i) == {c \in Clients : InstanceOf[c] = i /\ phase[c] \notin {"out", "left"}}

(* Broadcast holds the read lock from its first channel to its last;       *)
(* Subscribe and its cancel function take the write lock.                  *)
WriteLock(i) == \A t \in Threads : HubOf(t) = i => todo[t] = {}

(* Slip: a full channel takes one more.                                    *)
OfferUnbounded(t, c) ==
  /\ c \in todo[t]
  /\ todo' = [todo EXCEPT ![t] = @ \ {c}]
  /\ queue' = [queue EXCEPT ![c] = Append(@, carried[t])]
  /\ UNCHANGED <<version, callVars, inbox, clientVars, workVars, silent>>

(* The select of Broadcast: a full channel skips the event.                *)
Offer(t, c) ==
  /\ c \in todo[t]
  /\ todo' = [todo EXCEPT ![t] = @ \ {c}]
  /\ queue' = IF Len(queue[c]) < Capacity
                THEN [queue EXCEPT ![c] = Append(@, carried[t])]
                ELSE queue
  /\ UNCHANGED <<version, callVars, inbox, clientVars, workVars, silent>>

-----------------------------------------------------------------------------
(* The handlers that broadcast *)

(* A start, bid, cancellation or finish changes the snapshot.              *)
Change(t) ==
  /\ Goto(t, "idle", "changed")
  /\ version' = version + 1
  /\ carried' = [carried EXCEPT ![t] = version + 1]
  /\ UNCHANGED <<todo, inbox, clientVars, queue, workVars, silent>>

(* A repeated request or finish is announced with a snapshot of before,    *)
(* the cancellation of a draft with one that is not of the store.          *)
Repeat(t) ==
  /\ Goto(t, "idle", "repeated")
  /\ \E v \in 0..version : carried' = [carried EXCEPT ![t] = v]
  /\ UNCHANGED <<version, todo, inbox, clientVars, queue, workVars, silent>>

(* The handler returns between the store and broadcast: SaveBid, Update-   *)
(* Auction or Settle failed, or the answer of the script was lost.         *)
GiveUp(t) ==
  /\ "call" \in Failures
  /\ Goto(t, "changed", "done")
  /\ silent' = [i \in Instances |-> silent[i] \cup {carried[t]}]
  /\ carried' = [carried EXCEPT ![t] = 0]
  /\ UNCHANGED <<version, todo, inbox, clientVars, queue, workVars>>

Broadcast(t) ==
  /\ Goto(t, pc[t], "sending")
  /\ pc[t] \in {"changed", "repeated"}
  /\ todo' = [todo EXCEPT ![t] = Room(InstanceOf[t])]
  /\ UNCHANGED <<version, carried, inbox, clientVars, queue, workVars, silent>>

(* Redis hands the message to the subscriptions that stand right now and   *)
(* keeps nothing for the others; a failing Publish is only logged.         *)
Publish(t) ==
  /\ Goto(t, "sending", "done")
  /\ todo[t] = {}
  /\ \E reached \in SUBSET Instances :
       /\ "bus" \in Failures \/ reached = Instances
       /\ inbox' = [i \in Instances |->
                      IF i \in reached
                        THEN Append(inbox[i], [source |-> SourceId[InstanceOf[t]],
                                               version |-> carried[t]])
                        ELSE inbox[i]]
       /\ silent' = [i \in Instances |->
                       IF i \in reached \/ i = InstanceOf[t] THEN silent[i]
                       ELSE silent[i] \cup {carried[t]}]
  /\ carried' = [carried EXCEPT ![t] = 0]
  /\ UNCHANGED <<version, todo, clientVars, queue, workVars>>

(* Slip: the comparison is the wrong way round.                            *)
ShouldForwardOwn(i, envelope) == envelope.source = SourceId[i]

(* Neither the source's id nor the auction's is ever empty.                *)
ShouldForward(i, envelope) == envelope.source # SourceId[i]

(* An instance's subscription goroutine and the loop of main.go behind it. *)
Forward(i) ==
  /\ inbox[i] # <<>>
  /\ todo[i] = {}
  /\ inbox' = [inbox EXCEPT ![i] = Tail(@)]
  /\ IF ShouldForward(i, Head(inbox[i]))
       THEN /\ todo' = [todo EXCEPT ![i] = Room(i)]
            /\ carried' = [carried EXCEPT ![i] = Head(inbox[i]).version]
       ELSE UNCHANGED <<todo, carried>>
  /\ UNCHANGED <<version, pc, clientVars, queue, workVars, silent>>

-----------------------------------------------------------------------------
(* The connections: events and websocketEvents *)

Moves(c, from, to) ==
  /\ phase[c] = from
  /\ phase' = [phase EXCEPT ![c] = to]

(* What the page gets: v, read from the store or taken from the event.     *)
Send(c, v, fromStore) ==
  /\ shown' = [shown EXCEPT ![c] = v]
  /\ fresh' = [fresh EXCEPT ![c] = fromStore]
  /\ since' = [since EXCEPT ![c] = version]

(* What its handler is going to write.                                     *)
WorkOn(c, v, fromStore) ==
  /\ taken' = [taken EXCEPT ![c] = v]
  /\ read' = [read EXCEPT ![c] = fromStore]

Subscribe(c) ==
  /\ WriteLock(InstanceOf[c])
  /\ Moves(c, "out", "joined")
  /\ UNCHANGED <<version, callVars, todo, inbox, kind, gone, pageVars, queue, workVars, silent>>

(* The first snapshot is read; when there is none nothing is written.      *)
Hello(c) ==
  /\ \/ Moves(c, "joined", "writing") /\ WorkOn(c, version, TRUE) /\ UNCHANGED fresh
     \/ /\ "read" \in Failures
        /\ Moves(c, "joined", "waiting")
        /\ fresh' = [fresh EXCEPT ![c] = FALSE]
        /\ UNCHANGED workVars
  /\ UNCHANGED <<version, callVars, todo, inbox, kind, gone, shown, since, queue, silent>>

Take(c) ==
  /\ queue[c] # <<>>
  /\ Moves(c, "waiting", "woken")
  /\ WorkOn(c, Head(queue[c]), FALSE)
  /\ queue' = [queue EXCEPT ![c] = Tail(@)]
  /\ UNCHANGED <<version, callVars, todo, inbox, kind, gone, pageVars, silent>>

(* Slip: the event is passed on with the snapshot it came with.            *)
SnapshotOwn(c) == WorkOn(c, taken[c], TRUE)

(* The snapshot is read again; when it cannot be the event's own stays.    *)
Snapshot(c) ==
  \/ WorkOn(c, version, TRUE)
  \/ "read" \in Failures /\ WorkOn(c, taken[c], FALSE)

Personalize(c) ==
  /\ Moves(c, "woken", "writing")
  /\ Snapshot(c)
  /\ UNCHANGED <<version, callVars, todo, inbox, kind, gone, pageVars, queue, silent>>

Write(c) ==
  /\ Moves(c, "writing", "waiting")
  /\ Send(c, taken[c], read[c])
  /\ WorkOn(c, 0, FALSE)
  /\ UNCHANGED <<version, callVars, todo, inbox, kind, gone, queue, silent>>

(* The page goes away.                                                     *)
Leave(c) ==
  /\ phase[c] \in {"joined", "waiting", "woken", "writing"}
  /\ gone' = [gone EXCEPT ![c] = TRUE]
  /\ UNCHANGED <<version, callVars, todo, inbox, kind, phase, pageVars, queue, workVars, silent>>

(* Slip: a stream handler waits for the next event only.                   *)
NoticeNothing(c) ==
  /\ kind[c] = "socket"
  /\ gone[c]
  /\ Moves(c, "writing", "leaving")
  /\ WorkOn(c, 0, FALSE)
  /\ UNCHANGED <<version, callVars, todo, inbox, kind, gone, pageVars, queue, silent>>

(* A stream handler's context is done, which it sees in its select.  The   *)
(* context of a hijacked connection is not: a WebSocket handler learns it  *)
(* from a write that fails, and the kernel may still take one (Write).     *)
Notice(c) ==
  /\ gone[c]
  /\ Moves(c, IF kind[c] = "socket" THEN "writing" ELSE "waiting", "leaving")
  /\ WorkOn(c, 0, FALSE)
  /\ UNCHANGED <<version, callVars, todo, inbox, kind, gone, pageVars, queue, silent>>

(* Slip: cancel does not take the hub's lock.                              *)
UnsubscribeUnlocked(c) ==
  /\ Moves(c, "leaving", "left")
  /\ queue' = [queue EXCEPT ![c] = <<>>]
  /\ UNCHANGED <<version, callVars, todo, inbox, kind, gone, pageVars, workVars, silent>>

(* The deferred cancel; another connection may take the place later.       *)
Unsubscribe(c) ==
  /\ WriteLock(InstanceOf[c])
  /\ Moves(c, "leaving", "left")
  /\ queue' = [queue EXCEPT ![c] = <<>>]
  /\ UNCHANGED <<version, callVars, todo, inbox, kind, gone, pageVars, workVars, silent>>

-----------------------------------------------------------------------------

Call(t) == Change(t) \/ Repeat(t)

Continue(t) ==
  \/ t \in Calls /\ (GiveUp(t) \/ Broadcast(t) \/ Publish(t))
  \/ t \in Instances /\ Forward(t)
  \/ \E c \in Clients : Offer(t, c)

Handle(c) ==
  Hello(c) \/ Take(c) \/ Personalize(c) \/ Write(c) \/ Notice(c) \/ Unsubscribe(c)

Next ==
  \/ \E t \in Calls : Call(t)
  \/ \E t \in Threads : Continue(t)
  \/ \E c \in Clients : Subscribe(c) \/ Leave(c) \/ Handle(c)

Spec == Init /\ [][Next]_vars

(* Goroutines that can go on do so.  Weak fairness of all of them together *)
(* is enough: each takes a bounded number of steps, and cancel, which      *)
(* waits for the write lock, waits for a bounded number of offers.  Nobody *)
(* must call, join or leave.                                               *)
FairSpec ==
  /\ Spec
  /\ WF_vars((\E t \in Threads : Continue(t)) \/ (\E c \in Clients : Handle(c)))

-----------------------------------------------------------------------------
(* Properties *)

(* A channel a broadcast is still to offer to is not closed: cancel closes *)
(* it under the write lock, and a send on a closed channel would panic     *)
(* (hub.go:57-82).                                                         *)
NoSendOnClosed ==
  \A t \in Threads : todo[t] \subseteq Room(HubOf(t))

(* Version v is still on its way to instance i, or to client c on it.      *)
OnItsWay(v, c) ==
  LET i == InstanceOf[c]
  IN \/ \E t \in Calls :
          /\ carried[t] = v
          /\ \/ pc[t] = "changed"
             \/ pc[t] = "sending" /\ (InstanceOf[t] = i => c \in todo[t])
     \/ \E n \in 1..Len(inbox[i]) :
          inbox[i][n].version = v /\ ShouldForward(i, inbox[i][n])
     \/ carried[i] = v /\ c \in todo[i]

(* The page was, or is just being, sent what its handler read.             *)
Informed(c) == (phase[c] = "waiting" /\ fresh[c]) \/ (phase[c] = "writing" /\ read[c])

Newest(c) == IF phase[c] = "writing" THEN taken[c] ELSE shown[c]

(* A page that waits for events, or is being written to, misses no         *)
(* version, although full channels drop events and events overtake each    *)
(* other: each version later than what its handler read last has an event  *)
(* queued, whose handling reads again, or on its way, unless the version   *)
(* was announced to nobody or the last read failed (hub.go:72-82,          *)
(* server.go:238-317, auction.go:206-216, redis_bus.go:36-91).             *)
NoMissedNews ==
  \A c \in Clients : Informed(c) /\ queue[c] = <<>> =>
    \A v \in (Newest(c) + 1)..version :
      v \in silent[InstanceOf[c]] \/ OnItsWay(v, c)

(* What a page is sent was read after it was last sent something, so that  *)
(* it never goes back however many events are late, and only a failed read *)
(* lets an event's own snapshot through (server.go:238-317).               *)
PageFeed == INSTANCE Feed
FollowsFeed == PageFeed!FeedSpec

(* A page that stays comes to be sent every version that was announced, on  *)
(* whichever instance the change was made, unless its last read failed     *)
(* (README.md:21, server.go:255).                                          *)
RoomConverges ==
  \A c \in Clients :
    phase[c] \in {"joined", "waiting", "woken", "writing"} ~>
      \/ gone[c] \/ ~fresh[c]
      \/ (shown[c] + 1)..version \subseteq silent[InstanceOf[c]]

(* A stream's subscription ends after its page has left; a WebSocket's may *)
(* wait for the next event (server.go:244-253, hub.go:57-67).              *)
StreamsEnd ==
  \A c \in Clients : gone[c] /\ kind[c] = "stream" ~> phase[c] = "left"

=============================================================================
