------------------------------ MODULE RoomPage ------------------------------
(***************************************************************************)
(* The page that follows a room: the bidder's (web/src/MobileApp.tsx) or   *)
(* the admin's (web/src/AdminApp.tsx).  Each time another auction is       *)
(* selected React runs the old effect's cleanup and starts a new effect;   *)
(* what an old effect still awaits goes on.  A snapshot is its auction and *)
(* its version; a socket brings them as Feed says: what is sent was read   *)
(* after what was sent before it.                                          *)
(***************************************************************************)
EXTENDS Integers, Sequences

CONSTANTS
  Auctions,
  NoAuction,
  MaxEffects, \* bound of a run: auctions selected one after the other
  MaxVersion, \* bound of a run: changes of an auction's snapshot
  MaxWire,    \* bound of a run: messages in flight on a socket
  MaxFaults,  \* bound of a run: sockets lost and snapshots not read
  MaxCalls    \* bound of a run: bids, or starts and cancellations

ASSUME RoomAssumption ==
  /\ NoAuction \notin Auctions
  /\ {MaxEffects, MaxVersion, MaxWire, MaxFaults, MaxCalls} \subseteq Nat

Effects == 1..MaxEffects

VARIABLES
  kind,     \* whose page it is: "bidder" or "admin"
  version,  \* per auction how often its snapshot changed, 0: there is none
  announced, \* per auction the newest version the page's server was told of
  current,  \* the effect that runs, 0 before the list has arrived
  room,     \* per effect its auction
  stage,    \* per effect where its connect() is
  got,      \* per effect the snapshot loadSnapshot read, 0 for none
  again,    \* per effect whether its socket is one of a reconnection
  timer,    \* the effect whose timer reconnectTimer holds, 0 before any
  wire,     \* per effect what its socket has still to bring
  sent,     \* per effect the last version sent on its socket, 0 for none
  seen,     \* per effect the last version it put on the page
  page,     \* the snapshot the page has
  call,     \* the bid, start or cancellation that was sent
  faults,
  calls

storeVars == <<version, announced>>
effectVars == <<current, room, stage, got, again, timer>>
socketVars == <<wire, sent>>
pageVars == <<seen, page>>
callVars == <<call, calls>>
vars == <<kind, storeVars, effectVars, socketVars, pageVars, callVars, faults>>

Snapshot == [auction : Auctions \cup {NoAuction}, version : Nat]
Nothing == [auction |-> NoAuction, version |-> 0]

RoomTypeOK ==
  /\ kind \in {"bidder", "admin"}
  /\ version \in [Auctions -> Nat]
  /\ announced \in [Auctions -> Nat]
  /\ current \in 0..MaxEffects
  /\ room \in [Effects -> Auctions \cup {NoAuction}]
  /\ stage \in [Effects -> {"none", "loading", "answered", "open", "waiting", "over"}]
  /\ got \in [Effects -> Nat]
  /\ again \in [Effects -> BOOLEAN]
  /\ timer \in 0..MaxEffects
  /\ wire \in [Effects -> Seq(Nat)]
  /\ sent \in [Effects -> Nat]
  /\ seen \in [Effects -> Nat]
  /\ page \in Snapshot
  /\ call \in Snapshot
  /\ faults \in Nat
  /\ calls \in Nat

Init ==
  /\ kind \in {"bidder", "admin"}
  /\ version = [a \in Auctions |-> 0]
  /\ announced = [a \in Auctions |-> 0]
  /\ current = 0
  /\ room = [n \in Effects |-> NoAuction]
  /\ stage = [n \in Effects |-> "none"]
  /\ got = [n \in Effects |-> 0]
  /\ again = [n \in Effects |-> FALSE]
  /\ timer = 0
  /\ wire = [n \in Effects |-> <<>>]
  /\ sent = [n \in Effects |-> 0]
  /\ seen = [n \in Effects |-> 0]
  /\ page = Nothing
  /\ call = Nothing
  /\ faults = 0
  /\ calls = 0

Closed(n) == n # current

(* Handlers of other people change an auction.                             *)
Change(a) ==
  /\ version[a] < MaxVersion
  /\ version' = [version EXCEPT ![a] = @ + 1]
  /\ UNCHANGED <<kind, announced, effectVars, socketVars, pageVars, callVars, faults>>

(* The page's server is told that the auction changed.  It may never be: a *)
(* handler returns before it broadcasts (auction.go:150), publishing fails *)
(* (213), or the news is another api-local's (redis_bus.go:90).            *)
Announce(a) ==
  /\ announced[a] < version[a]
  /\ announced' = [announced EXCEPT ![a] = version[a]]
  /\ UNCHANGED <<kind, version, effectVars, socketVars, pageVars, callVars, faults>>

-----------------------------------------------------------------------------
(* Effects *)

(* The cleanup clears the timer reconnectTimer holds, whichever effect set *)
(* it.  The admin's closes the socket; the bidder's has only the first     *)
(* connect()'s, and none while that awaits.                                *)
CleanedUp(n) ==
  \/ stage[n] = "waiting" /\ timer = n
  \/ stage[n] = "open" /\ n = current /\ (kind = "admin" \/ ~again[n])

(* The bidder's page reads the snapshot, the admin's opens its socket.     *)
FirstStage == IF kind = "bidder" THEN "loading" ELSE "open"

Select(a) ==
  /\ current < MaxEffects
  /\ current > 0 => room[current] # a
  /\ current' = current + 1
  /\ room' = [room EXCEPT ![current + 1] = a]
  /\ stage' = [n \in Effects |-> IF n = current + 1 THEN FirstStage
                                 ELSE IF CleanedUp(n) THEN "over" ELSE stage[n]]
  /\ wire' = [n \in Effects |-> IF CleanedUp(n) THEN <<>> ELSE wire[n]]
  /\ sent' = [n \in Effects |-> IF CleanedUp(n) THEN 0 ELSE sent[n]]
  /\ UNCHANGED <<kind, storeVars, got, again, timer, pageVars, callVars, faults>>

Goes(n, from, to) ==
  /\ stage[n] = from
  /\ stage' = [stage EXCEPT ![n] = to]

(* The server reads the snapshot for loadSnapshot, or the request fails.   *)
Answer(n) ==
  /\ Goes(n, "loading", "answered")
  /\ \/ got' = [got EXCEPT ![n] = version[room[n]]] /\ faults' = faults
     \/ /\ faults < MaxFaults
        /\ got' = [got EXCEPT ![n] = 0]
        /\ faults' = faults + 1
  /\ UNCHANGED <<kind, storeVars, current, room, again, timer, socketVars, pageVars, callVars>>

(* Slip: the page takes the snapshot without its auction.                  *)
PutBare(n, v) ==
  /\ page' = [version |-> v]
  /\ seen' = [seen EXCEPT ![n] = v]

Put(n, v) ==
  /\ page' = [auction |-> room[n], version |-> v]
  /\ seen' = [seen EXCEPT ![n] = v]

(* Slip: an error of loadSnapshot ends connect().                          *)
AfterLoadFatal(n) == IF got[n] = 0 THEN "over" ELSE "open"

(* An error of loadSnapshot is only a message.                             *)
AfterLoad(n) == "open"

(* connect() goes on after its await, in a closed effect too, and opens a  *)
(* socket.                                                                 *)
Connect(n) ==
  /\ Goes(n, "answered", AfterLoad(n))
  /\ IF got[n] > 0 THEN Put(n, got[n]) ELSE UNCHANGED pageVars
  /\ got' = [got EXCEPT ![n] = 0]
  /\ UNCHANGED <<kind, storeVars, current, room, again, timer, socketVars, callVars, faults>>

Send(n) ==
  /\ stage[n] = "open"
  /\ version[room[n]] > 0
  /\ Len(wire[n]) < MaxWire
  /\ wire' = [wire EXCEPT ![n] = Append(@, version[room[n]])]
  /\ sent' = [sent EXCEPT ![n] = version[room[n]]]
  /\ UNCHANGED <<kind, storeVars, effectVars, pageVars, callVars, faults>>

(* handleRealtimeEvent, in a closed effect too.                            *)
Receive(n) ==
  /\ stage[n] = "open"
  /\ wire[n] # <<>>
  /\ wire' = [wire EXCEPT ![n] = Tail(@)]
  /\ Put(n, Head(wire[n]))
  /\ UNCHANGED <<kind, storeVars, effectVars, sent, callVars, faults>>

(* Slip: onclose does not ask whether the effect is closed.                *)
AfterLossAlways(n) == "waiting"

(* onclose: the bidder's page sets the timer unless the effect is closed,  *)
(* the admin's only says so.                                               *)
AfterLoss(n) == IF kind = "bidder" /\ ~Closed(n) THEN "waiting" ELSE "over"

Ends(n) ==
  /\ faults < MaxFaults
  /\ faults' = faults + 1
  /\ Goes(n, "open", AfterLoss(n))
  /\ timer' = IF AfterLoss(n) = "waiting" THEN n ELSE timer
  /\ UNCHANGED <<kind, storeVars, current, room, got, again, pageVars, callVars>>

(* Slip: what the lost socket had still to bring is handled later.         *)
LoseLate(n) ==
  /\ Ends(n)
  /\ UNCHANGED socketVars

(* The network or the server ends a socket; what it had not brought is     *)
(* lost.  A timer that is set takes the place of the one reconnectTimer    *)
(* held.                                                                   *)
Lose(n) ==
  /\ Ends(n)
  /\ wire' = [wire EXCEPT ![n] = <<>>]
  /\ sent' = [sent EXCEPT ![n] = 0]

(* The timer fires; reconnectTimer keeps its number.                       *)
Reconnect(n) ==
  /\ Goes(n, "waiting", "loading")
  /\ again' = [again EXCEPT ![n] = TRUE]
  /\ UNCHANGED <<kind, storeVars, current, room, got, timer, socketVars,
                 pageVars, callVars, faults>>

-----------------------------------------------------------------------------
(* submitBid, startAuction, cancelAuction: the answer is the snapshot of   *)
(* the moment the server changed it.                                       *)

SendCall ==
  /\ call = Nothing
  /\ calls < MaxCalls
  /\ current > 0
  /\ kind = "bidder" => page # Nothing
  /\ call' = [auction |-> room[current], version |-> 0]
  /\ calls' = calls + 1
  /\ UNCHANGED <<kind, storeVars, effectVars, socketVars, pageVars, faults>>

Serve ==
  /\ call # Nothing
  /\ call.version = 0
  /\ version[call.auction] < MaxVersion
  /\ version' = [version EXCEPT ![call.auction] = @ + 1]
  /\ call' = [call EXCEPT !.version = version[call.auction] + 1]
  /\ UNCHANGED <<kind, announced, effectVars, socketVars, pageVars, calls, faults>>

(* An error brings no snapshot.                                            *)
Reject ==
  /\ call # Nothing
  /\ call.version = 0
  /\ call' = Nothing
  /\ UNCHANGED <<kind, storeVars, effectVars, socketVars, pageVars, calls, faults>>

Answered ==
  /\ call.version > 0
  /\ page' = call
  /\ call' = Nothing
  /\ UNCHANGED <<kind, storeVars, effectVars, socketVars, seen, calls, faults>>

-----------------------------------------------------------------------------

Next ==
  \/ \E a \in Auctions : Change(a) \/ Announce(a) \/ Select(a)
  \/ \E n \in Effects :
       \/ Answer(n) \/ Connect(n) \/ Reconnect(n)
       \/ Send(n) \/ Receive(n) \/ Lose(n)
  \/ SendCall \/ Serve \/ Reject \/ Answered

Spec == Init /\ [][Next]_vars

(* Requests are answered and timers fire.  A socket that stays comes to    *)
(* bring what its server was told of and it has not brought: EventStream's *)
(* NoMissedNews and RoomConverges, for a server whose reads succeed.  No   *)
(* version need ever be announced, and nobody must select, call or lose.   *)
News(n) == Send(n) /\ sent[n] < announced[room[n]]

FairSpec ==
  /\ Spec
  /\ \A n \in Effects :
       WF_vars(Answer(n) \/ Connect(n) \/ Reconnect(n) \/ Receive(n) \/ News(n))
  /\ WF_vars(Serve \/ Reject)
  /\ WF_vars(Answered)

-----------------------------------------------------------------------------
(* Properties *)

(* The bidder's selected room always has a request, a socket or a timer    *)
(* under way: however often sockets are lost, reads fail and rooms are     *)
(* switched, the effects of before, which share reconnectTimer with it and *)
(* clear whatever it holds, do not cut it off (MobileApp.tsx:36, 49-78).   *)
NeverCutOff ==
  kind = "bidder" /\ current > 0 =>
    stage[current] \in {"loading", "answered", "open", "waiting"}

(* An effect that was left opens at most the socket it was about to open:  *)
(* it never connects again, although the cleanup clears only the one timer *)
(* reconnectTimer holds (MobileApp.tsx:60-64 and 73-77, AdminApp.tsx:      *)
(* 75-79).  A socket that is open by then may stay and go on writing.      *)
LeftRoomsWindDown ==
  [][\A n \in Effects :
       n < current =>
         /\ stage'[n] # "waiting"
         /\ stage[n] \in {"open", "over"} => stage'[n] \in {stage[n], "over"}]_vars

(* What one effect puts on the page never goes back, over all its sockets  *)
(* and reads, although no version is compared: it reads before it opens,   *)
(* and reads again only after its socket is gone (MobileApp.tsx:53-66).    *)
(* The answer to a call, or an effect of before, may put an older snapshot *)
(* or another auction's in its place.                                      *)
EffectOnlyForward ==
  [][\A n \in Effects : seen'[n] >= seen[n]]_vars

(* When the page's server was told of a version that the selected room has *)
(* not had, the page comes to hold that room's snapshot, of that version   *)
(* or a newer one, however often the bidder's page loses its socket or     *)
(* cannot read; the admin's does unless its socket was lost, as it opens   *)
(* no other (MobileApp.tsx:53-66, AdminApp.tsx:67-80).                     *)
UpToDate(n) == page.auction = room[n] /\ page.version >= announced[room[n]]

RoomDelivers ==
  \A n \in Effects :
    current = n /\ seen[n] < announced[room[n]]
      ~> \/ current # n
         \/ UpToDate(n)
         \/ kind = "admin" /\ stage[n] = "over"

=============================================================================
