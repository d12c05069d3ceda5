--------------------------- MODULE RoomPageProofs ---------------------------
(***************************************************************************)
(* What RoomPage's run checks on two auctions selected once each, proved   *)
(* for any number of auctions, selections, changes, messages and faults.   *)
(***************************************************************************)
EXTENDS RoomPage, SequenceTheorems, TLAPS

-----------------------------------------------------------------------------
(* The inductive invariant *)

(* The effects that have run are 1..current, each with its auction, and    *)
(* nothing is on its way but on an open socket.                            *)
Placed ==
  \A n \in Effects :
    /\ n <= current => room[n] \in Auctions
    /\ stage[n] # "none" => n <= current
    /\ n > current => seen[n] = 0
    /\ stage[n] # "open" => wire[n] = <<>>

(* The only timer that is pending is the selected room's, and it is the    *)
(* one reconnectTimer holds: so the cleanup clears no other and leaves     *)
(* none.                                                                   *)
OneTimer == \A n \in Effects : stage[n] = "waiting" => n = current /\ timer = n

(* What is still to come for effect n is no older than what it has put on  *)
(* the page, comes in order, and is not ahead of the store.                *)
InOrder(n) ==
  /\ seen[n] <= version[room[n]]
  /\ stage[n] = "answered" /\ got[n] > 0 => seen[n] <= got[n] /\ got[n] <= version[room[n]]
  /\ \A k \in 1..Len(wire[n]) : seen[n] <= wire[n][k] /\ wire[n][k] <= version[room[n]]
  /\ \A j, k \in 1..Len(wire[n]) : j <= k => wire[n][j] <= wire[n][k]

Ordered == \A n \in Effects : n <= current => InOrder(n)

IInv == RoomTypeOK /\ Placed /\ OneTimer /\ NeverCutOff /\ Ordered

-----------------------------------------------------------------------------
(* Types *)

LEMMA EffectsNat == Effects \subseteq Nat /\ MaxEffects \in Nat
  BY RoomAssumption DEF Effects

LEMMA EmptyWire == <<>> \in Seq(Nat) /\ Len(<<>>) = 0
  OBVIOUS

LEMMA StepCases ==
  ASSUME [Next]_vars
  PROVE  \/ UNCHANGED vars
         \/ \E a \in Auctions : Change(a) \/ Announce(a)
         \/ \E a \in Auctions : Select(a)
         \/ \E n \in Effects : Answer(n) \/ Connect(n) \/ Reconnect(n)
         \/ \E n \in Effects : Send(n) \/ Receive(n) \/ Lose(n)
         \/ SendCall \/ Serve \/ Reject \/ Answered
  BY DEF Next

LEMMA TypeInit == ASSUME Init PROVE RoomTypeOK
  BY EffectsNat, EmptyWire DEF Init, RoomTypeOK, Nothing, Snapshot

(* An effect that is somewhere has an auction.                             *)
LEMMA RoomOf ==
  ASSUME RoomTypeOK, Placed, NEW n \in Effects, stage[n] # "none"
  PROVE  /\ n <= current /\ room[n] \in Auctions /\ version[room[n]] \in Nat
BY DEF Placed, RoomTypeOK

LEMMA SelectKeepsType ==
  ASSUME RoomTypeOK, NEW a \in Auctions, Select(a)
  PROVE  RoomTypeOK'
<1>1. current' \in 0..MaxEffects /\ current + 1 \in Effects
  BY RoomAssumption DEF RoomTypeOK, Select, Effects
<1>2. room' \in [Effects -> Auctions \cup {NoAuction}]
  BY DEF RoomTypeOK, Select
<1>3. stage' \in [Effects -> {"none", "loading", "answered", "open", "waiting", "over"}]
  BY DEF RoomTypeOK, Select, FirstStage
<1>4. wire' \in [Effects -> Seq(Nat)] /\ sent' \in [Effects -> Nat]
  BY EmptyWire DEF RoomTypeOK, Select
<1> QED BY <1>1, <1>2, <1>3, <1>4 DEF RoomTypeOK, Select, storeVars, pageVars, callVars

LEMMA PutKeepsType ==
  ASSUME RoomTypeOK, NEW n \in Effects, NEW v \in Nat, Put(n, v)
  PROVE  page' \in Snapshot /\ seen' \in [Effects -> Nat]
BY DEF RoomTypeOK, Put, Snapshot

LEMMA ConnectionKeepsType ==
  ASSUME RoomTypeOK, Placed, NEW n \in Effects, Answer(n) \/ Connect(n) \/ Reconnect(n)
  PROVE  RoomTypeOK'
<1>1. stage' \in [Effects -> {"none", "loading", "answered", "open", "waiting", "over"}]
  BY DEF RoomTypeOK, Answer, Connect, Reconnect, Goes, AfterLoad
<1>2. CASE Answer(n)
  <2>1. version[room[n]] \in Nat
    BY <1>2, RoomOf DEF Answer, Goes
  <2>2. got' \in [Effects -> Nat] /\ faults' \in Nat
    BY <1>2, <2>1 DEF RoomTypeOK, Answer
  <2> QED BY <1>1, <1>2, <2>2 DEF RoomTypeOK, Answer, storeVars, socketVars, pageVars,
             callVars
<1>3. CASE Connect(n)
  <2>1. page' \in Snapshot /\ seen' \in [Effects -> Nat]
    <3>1. got[n] \in Nat
      BY DEF RoomTypeOK
    <3> QED BY <1>3, <3>1, PutKeepsType DEF Connect, pageVars, RoomTypeOK
  <2>2. got' \in [Effects -> Nat]
    BY <1>3 DEF RoomTypeOK, Connect
  <2> QED BY <1>1, <1>3, <2>1, <2>2 DEF RoomTypeOK, Connect, storeVars, socketVars, callVars
<1>4. CASE Reconnect(n)
  <2>1. again' \in [Effects -> BOOLEAN]
    BY <1>4 DEF RoomTypeOK, Reconnect
  <2> QED BY <1>1, <1>4, <2>1 DEF RoomTypeOK, Reconnect, storeVars, socketVars, pageVars,
             callVars
<1> QED BY <1>2, <1>3, <1>4

LEMMA SocketKeepsType ==
  ASSUME RoomTypeOK, Placed, NEW n \in Effects, Send(n) \/ Receive(n) \/ Lose(n)
  PROVE  RoomTypeOK'
<1>1. wire[n] \in Seq(Nat)
  BY DEF RoomTypeOK
<1>2. CASE Send(n)
  <2>1. version[room[n]] \in Nat
    BY <1>2, RoomOf DEF Send
  <2>2. Append(wire[n], version[room[n]]) \in Seq(Nat)
    BY <1>1, <2>1, AppendProperties
  <2>3. wire' \in [Effects -> Seq(Nat)] /\ sent' \in [Effects -> Nat]
    BY <1>2, <2>1, <2>2 DEF RoomTypeOK, Send
  <2> QED BY <1>2, <2>3 DEF RoomTypeOK, Send, storeVars, effectVars, pageVars, callVars
<1>3. CASE Receive(n)
  <2>1. Head(wire[n]) \in Nat /\ Tail(wire[n]) \in Seq(Nat)
    BY <1>1, <1>3, HeadTailProperties DEF Receive
  <2>2. page' \in Snapshot /\ seen' \in [Effects -> Nat]
    BY <1>3, <2>1, PutKeepsType DEF Receive
  <2>3. wire' \in [Effects -> Seq(Nat)]
    BY <1>3, <2>1 DEF RoomTypeOK, Receive
  <2> QED BY <1>3, <2>2, <2>3 DEF RoomTypeOK, Receive, storeVars, effectVars, callVars
<1>4. CASE Lose(n)
  <2>1. wire' \in [Effects -> Seq(Nat)] /\ sent' \in [Effects -> Nat]
    BY <1>4, EmptyWire DEF RoomTypeOK, Lose
  <2>2. stage' \in [Effects -> {"none", "loading", "answered", "open", "waiting", "over"}]
    BY <1>4 DEF RoomTypeOK, Lose, Ends, Goes, AfterLoss
  <2>3. timer' \in 0..MaxEffects /\ faults' \in Nat
    BY <1>4, RoomAssumption DEF RoomTypeOK, Lose, Ends, Effects
  <2> QED BY <1>4, <2>1, <2>2, <2>3 DEF RoomTypeOK, Lose, Ends, storeVars, pageVars, callVars
<1> QED BY <1>2, <1>3, <1>4

LEMMA CallKeepsType ==
  ASSUME RoomTypeOK, Placed, SendCall \/ Serve \/ Reject \/ Answered
  PROVE  RoomTypeOK'
<1>1. CASE SendCall
  <2>1. room[current] \in Auctions
    BY <1>1, RoomAssumption DEF SendCall, Placed, RoomTypeOK, Effects
  <2>2. call' \in Snapshot /\ calls' \in Nat
    BY <1>1, <2>1 DEF SendCall, RoomTypeOK, Snapshot
  <2> QED BY <1>1, <2>2 DEF SendCall, RoomTypeOK, storeVars, effectVars, socketVars, pageVars
<1>2. CASE Serve
  <2>1. version' \in [Auctions -> Nat] /\ call.auction \in Auctions
    BY <1>2 DEF Serve, RoomTypeOK, Snapshot, Nothing
  <2>2. call' \in Snapshot
    BY <1>2, <2>1 DEF Serve, RoomTypeOK, Snapshot
  <2> QED BY <1>2, <2>1, <2>2 DEF Serve, RoomTypeOK, effectVars, socketVars, pageVars
<1>3. CASE Reject
  BY <1>3 DEF Reject, RoomTypeOK, Nothing, Snapshot, storeVars, effectVars, socketVars,
        pageVars
<1>4. CASE Answered
  BY <1>4 DEF Answered, RoomTypeOK, Nothing, Snapshot, storeVars, effectVars, socketVars
<1> QED BY <1>1, <1>2, <1>3, <1>4

LEMMA TypeKeeps ==
  ASSUME RoomTypeOK, Placed, [Next]_vars
  PROVE  RoomTypeOK'
<1>1. CASE UNCHANGED vars
  BY <1>1 DEF RoomTypeOK, vars, storeVars, effectVars, socketVars, pageVars, callVars
<1>2. ASSUME NEW a \in Auctions, Change(a) \/ Announce(a)
      PROVE  RoomTypeOK'
  BY <1>2 DEF RoomTypeOK, Change, Announce, effectVars, socketVars, pageVars, callVars
<1> QED BY StepCases, <1>1, <1>2, SelectKeepsType, ConnectionKeepsType, SocketKeepsType,
           CallKeepsType

-----------------------------------------------------------------------------
(* The other parts of the invariant *)

LEMMA PlacedKeeps ==
  ASSUME RoomTypeOK, Placed, [Next]_vars
  PROVE  Placed'
<1> SUFFICES ASSUME NEW n \in Effects
             PROVE  /\ n <= current' => room'[n] \in Auctions
                    /\ stage'[n] # "none" => n <= current'
                    /\ n > current' => seen'[n] = 0
                    /\ stage'[n] # "open" => wire'[n] = <<>>
  BY DEF Placed
<1>1. n \in Nat /\ current \in Nat
  BY EffectsNat, RoomAssumption DEF RoomTypeOK
<1>2. /\ n <= current => room[n] \in Auctions
      /\ stage[n] # "none" => n <= current
      /\ n > current => seen[n] = 0 /\ stage[n] = "none"
      /\ stage[n] # "open" => wire[n] = <<>>
  BY <1>1 DEF Placed
<1>3. CASE UNCHANGED vars
  BY <1>2, <1>3 DEF vars, effectVars, socketVars, pageVars
<1>4. ASSUME NEW a \in Auctions, Change(a) \/ Announce(a)
      PROVE  Placed'
  BY <1>4 DEF Change, Announce, effectVars, socketVars, pageVars, Placed
<1>5. ASSUME NEW a \in Auctions, Select(a)
      PROVE  /\ n <= current' => room'[n] \in Auctions
             /\ stage'[n] # "none" => n <= current'
             /\ n > current' => seen'[n] = 0
             /\ stage'[n] # "open" => wire'[n] = <<>>
  <2>1. current' = current + 1 /\ current + 1 \in Effects /\ seen' = seen
    BY <1>1, <1>5, EffectsNat DEF Select, Effects, pageVars
  <2>2. n <= current' => room'[n] \in Auctions
    BY <1>1, <1>2, <1>5, <2>1 DEF Select, RoomTypeOK
  <2>3. n # current + 1 => stage'[n] = stage[n] \/ stage[n] # "none"
    BY <1>5 DEF Select, CleanedUp
  <2>4. stage'[n] # "open" => wire'[n] = <<>>
    <3>1. wire'[n] = IF CleanedUp(n) THEN <<>> ELSE wire[n]
      BY <1>5 DEF Select
    <3>2. stage'[n] = stage[n] \/ CleanedUp(n) \/ n = current + 1
      BY <1>5 DEF Select
    <3>3. n = current + 1 => stage[n] = "none"
      BY <1>1, <1>2
    <3> QED BY <1>2, <3>1, <3>2, <3>3
  <2> QED BY <1>1, <1>2, <2>1, <2>2, <2>3, <2>4
<1>6. ASSUME NEW m \in Effects, stage[m] # "none",
             Answer(m) \/ Connect(m) \/ Reconnect(m) \/ Send(m) \/ Receive(m) \/ Lose(m)
      PROVE  /\ n <= current' => room'[n] \in Auctions
             /\ stage'[n] # "none" => n <= current'
             /\ n > current' => seen'[n] = 0
             /\ stage'[n] # "open" => wire'[n] = <<>>
  <2>1. current' = current /\ room' = room
    BY <1>6 DEF Answer, Connect, Reconnect, Send, Receive, Lose, Ends, effectVars
  <2>2. CASE n = m
    <3>1. n <= current
      BY <1>1, <1>2, <1>6, <2>2
    <3>2. stage'[n] # "open" => wire'[n] = <<>>
      BY <1>2, <1>6, <2>2 DEF Answer, Connect, Reconnect, Send, Receive, Lose, Ends, Goes,
            AfterLoad, RoomTypeOK, effectVars, socketVars
    <3> QED BY <1>1, <1>2, <2>1, <3>1, <3>2
  <2>3. CASE n # m
    <3>1. stage'[n] = stage[n] /\ wire'[n] = wire[n]
      BY <1>6, <2>3 DEF Answer, Connect, Reconnect, Send, Receive, Lose, Ends, Goes, RoomTypeOK,
            effectVars, socketVars
    <3>2. seen'[n] = seen[n]
      BY <1>6, <2>3 DEF Answer, Connect, Reconnect, Send, Receive, Lose, Ends, Put, RoomTypeOK,
            pageVars
    <3> QED BY <1>2, <2>1, <3>1, <3>2
  <2> QED BY <2>2, <2>3
<1>7. CASE SendCall \/ Serve \/ Reject \/ Answered
  BY <1>2, <1>7 DEF SendCall, Serve, Reject, Answered, effectVars, socketVars, pageVars
<1>8. ASSUME NEW m \in Effects, Answer(m) \/ Connect(m) \/ Reconnect(m) \/ Send(m)
                                 \/ Receive(m) \/ Lose(m)
      PROVE  stage[m] # "none"
  BY <1>8 DEF Answer, Connect, Reconnect, Send, Receive, Lose, Ends, Goes
<1> QED BY StepCases, <1>3, <1>4, <1>5, <1>6, <1>7, <1>8 DEF Placed

(* Where the stages of the effects can go.                                 *)
LEMMA StageSteps ==
  ASSUME RoomTypeOK, OneTimer, NeverCutOff, [Next]_vars, NEW n \in Effects
  PROVE  /\ n < current =>
              /\ stage'[n] # "waiting"
              /\ stage[n] \in {"open", "over"} => stage'[n] \in {stage[n], "over"}
         /\ OneTimer' /\ NeverCutOff'
<1>1. current \in Nat /\ Effects \subseteq Nat /\ (current > 0 => current \in Effects)
  BY EffectsNat, RoomAssumption DEF RoomTypeOK, Effects
<1>2. CASE UNCHANGED vars
  BY <1>1, <1>2 DEF vars, effectVars, OneTimer, NeverCutOff
<1>3. ASSUME NEW a \in Auctions, Select(a)
      PROVE  /\ n < current =>
                  /\ stage'[n] # "waiting"
                  /\ stage[n] \in {"open", "over"} => stage'[n] \in {stage[n], "over"}
             /\ OneTimer' /\ NeverCutOff'
  <2>1. /\ current' = current + 1 /\ current + 1 \in Effects /\ kind' = kind
        /\ stage'[current + 1] = FirstStage
        /\ \A m \in Effects : m <= current =>
             stage'[m] = IF CleanedUp(m) THEN "over" ELSE stage[m]
    <3>1. current' = current + 1 /\ current + 1 \in Effects /\ kind' = kind
      BY <1>1, <1>3, EffectsNat DEF Select, Effects
    <3>2. \A m \in Effects : stage'[m] = IF m = current + 1 THEN FirstStage
                                        ELSE IF CleanedUp(m) THEN "over" ELSE stage[m]
      BY <1>3 DEF Select
    <3>3. \A m \in Effects : m <= current => m # current + 1
      BY <1>1
    <3> QED BY <1>1, <3>1, <3>2, <3>3
  <2>2. \A m \in Effects : stage[m] = "waiting" => CleanedUp(m)
    BY DEF OneTimer, CleanedUp
  <2>3. \A m \in Effects : stage'[m] # "waiting"
    <3> SUFFICES ASSUME NEW m \in Effects
                 PROVE  stage'[m] # "waiting"
      OBVIOUS
    <3>1. stage'[m] = IF m = current + 1 THEN FirstStage
                      ELSE IF CleanedUp(m) THEN "over" ELSE stage[m]
      BY <1>3 DEF Select
    <3> QED BY <2>2, <3>1 DEF FirstStage
  <2>4. NeverCutOff'
    BY <2>1 DEF NeverCutOff, FirstStage
  <2>5. n < current /\ stage[n] \in {"open", "over"} => stage'[n] \in {stage[n], "over"}
    BY <1>1, <2>1
  <2> QED BY <2>3, <2>4, <2>5 DEF OneTimer
<1>4. ASSUME NEW m \in Effects, Answer(m) \/ Connect(m) \/ Reconnect(m) \/ Lose(m)
      PROVE  /\ n < current =>
                  /\ stage'[n] # "waiting"
                  /\ stage[n] \in {"open", "over"} => stage'[n] \in {stage[n], "over"}
             /\ OneTimer' /\ NeverCutOff'
  <2>1. current' = current /\ kind' = kind
    BY <1>4 DEF Answer, Connect, Reconnect, Lose, Ends
  <2>2. /\ stage' = [stage EXCEPT ![m] = stage'[m]]
        /\ \A i \in Effects \ {m} : stage'[i] = stage[i]
    BY <1>4 DEF Answer, Connect, Reconnect, Lose, Ends, Goes, RoomTypeOK
  <2>3. \/ stage[m] \in {"loading", "answered", "waiting"}
           /\ stage'[m] \in {"answered", "open", "loading"}
        \/ stage[m] = "open" /\ stage'[m] = AfterLoss(m)
    BY <1>4 DEF Answer, Connect, Reconnect, Lose, Ends, Goes, AfterLoad, RoomTypeOK
  <2>4. m < current => AfterLoss(m) = "over"
    BY <1>1 DEF AfterLoss, Closed
  <2>5. kind = "bidder" => AfterLoss(current) = "waiting"
    BY DEF AfterLoss, Closed
  <2>6. \A i \in Effects : i < current =>
          /\ stage'[i] # "waiting"
          /\ stage[i] \in {"open", "over"} => stage'[i] \in {stage[i], "over"}
    BY <1>1, <2>2, <2>3, <2>4 DEF OneTimer
  <2>7. OneTimer'
    <3> SUFFICES ASSUME NEW i \in Effects, stage'[i] = "waiting"
                 PROVE  i = current /\ timer' = i
      BY <2>1 DEF OneTimer
    <3>1. CASE stage[m] = "open" /\ stage'[m] = AfterLoss(m)
      <4>1. Lose(m)
        BY <1>4, <3>1 DEF Answer, Connect, Reconnect, Goes
      <4>2. timer' = IF stage'[m] = "waiting" THEN m ELSE timer
        BY <3>1, <4>1 DEF Lose, Ends
      <4>3. stage'[m] = "waiting" => m = current
        BY <3>1 DEF AfterLoss, Closed
      <4>4. i # m => stage[i] = "waiting" /\ i = current /\ timer = i
        BY <2>2 DEF OneTimer
      <4> QED BY <4>2, <4>3, <4>4
    <3>2. CASE stage[m] \in {"loading", "answered", "waiting"}
      <4>1. timer' = timer
        BY <1>4, <3>2 DEF Answer, Connect, Reconnect, Lose, Ends, Goes
      <4>2. i # m /\ stage[i] = "waiting"
        BY <2>2, <2>3, <3>2
      <4> QED BY <4>1, <4>2 DEF OneTimer
    <3> QED BY <2>3, <3>1, <3>2
  <2>8. NeverCutOff'
    BY <1>1, <2>1, <2>2, <2>3, <2>5 DEF NeverCutOff
  <2> QED BY <2>6, <2>7, <2>8
<1>5. ASSUME UNCHANGED <<kind, current, stage, timer>>
      PROVE  /\ n < current =>
                  /\ stage'[n] # "waiting"
                  /\ stage[n] \in {"open", "over"} => stage'[n] \in {stage[n], "over"}
             /\ OneTimer' /\ NeverCutOff'
  BY <1>1, <1>5 DEF OneTimer, NeverCutOff
<1>6. ASSUME NEW a \in Auctions, Change(a) \/ Announce(a)
      PROVE  UNCHANGED <<kind, current, stage, timer>>
  BY <1>6 DEF Change, Announce, effectVars
<1>7. ASSUME NEW m \in Effects, Send(m) \/ Receive(m)
      PROVE  UNCHANGED <<kind, current, stage, timer>>
  BY <1>7 DEF Send, Receive, effectVars
<1>8. CASE SendCall \/ Serve \/ Reject \/ Answered
  <2>1. UNCHANGED <<kind, current, stage, timer>>
    BY <1>8 DEF SendCall, Serve, Reject, Answered, effectVars
  <2> QED BY <1>5, <2>1
<1> QED BY StepCases, <1>2, <1>3, <1>4, <1>5, <1>6, <1>7, <1>8

-----------------------------------------------------------------------------
(* Order *)

(* An effect that a step does not touch stays in order while the store     *)
(* goes on.                                                                *)
LEMMA UntouchedInOrder ==
  ASSUME RoomTypeOK, Placed, NEW n \in Effects, n <= current, InOrder(n),
         version' \in [Auctions -> Nat],
         \A a \in Auctions : version[a] <= version'[a],
         room'[n] = room[n], seen'[n] = seen[n], got'[n] = got[n],
         wire'[n] = wire[n] \/ wire'[n] = <<>>,
         stage'[n] = "answered" => stage[n] = "answered"
  PROVE  InOrder(n)'
<1>1. room[n] \in Auctions /\ version[room[n]] \in Nat /\ version'[room[n]] \in Nat
  BY DEF Placed, RoomTypeOK
<1>2. seen[n] \in Nat /\ got[n] \in Nat /\ version[room[n]] <= version'[room[n]]
  BY <1>1 DEF RoomTypeOK
<1>3. \A k \in 1..Len(wire[n]) : wire[n][k] \in Nat
  BY ElementOfSeq, LenProperties DEF RoomTypeOK
<1>4. CASE wire'[n] = wire[n]
  <2>1. seen'[n] <= version'[room'[n]]
    BY <1>1, <1>2 DEF InOrder
  <2>2. stage'[n] = "answered" /\ got'[n] > 0 =>
          seen'[n] <= got'[n] /\ got'[n] <= version'[room'[n]]
    BY <1>1, <1>2 DEF InOrder
  <2>3. ASSUME NEW k \in 1..Len(wire[n])
        PROVE  seen'[n] <= wire'[n][k] /\ wire'[n][k] <= version'[room'[n]]
    <3>1. seen[n] <= wire[n][k] /\ wire[n][k] <= version[room[n]] /\ wire[n][k] \in Nat
      BY <1>3 DEF InOrder
    <3> QED BY <1>1, <1>2, <1>4, <3>1
  <2> QED BY <1>4, <2>1, <2>2, <2>3 DEF InOrder
<1>5. CASE wire'[n] = <<>>
  BY <1>1, <1>2, <1>5, EmptyWire DEF InOrder
<1> QED BY <1>4, <1>5

LEMMA SelectKeepsOrder ==
  ASSUME RoomTypeOK, Placed, Ordered, NEW a \in Auctions, Select(a)
  PROVE  Ordered' /\ seen' = seen
<1>1. current \in Nat /\ current' = current + 1 /\ Effects \subseteq Nat
  BY EffectsNat, RoomAssumption DEF RoomTypeOK, Select
<1>2. /\ UNCHANGED <<version, got, seen>>
      /\ \A n \in Effects : n # current + 1 => room'[n] = room[n]
      /\ \A n \in Effects : wire'[n] = wire[n] \/ wire'[n] = <<>>
  BY DEF Select, RoomTypeOK, storeVars, pageVars
<1>3. \A n \in Effects : stage'[n] = "answered" => stage[n] = "answered"
  BY DEF Select, FirstStage
<1>4. ASSUME NEW n \in Effects, n <= current'
      PROVE  InOrder(n)'
  <2>1. CASE n <= current
    <3>1. n # current + 1
      BY <1>1, <2>1
    <3>2. /\ version' \in [Auctions -> Nat]
          /\ \A b \in Auctions : version[b] <= version'[b]
      BY <1>2 DEF RoomTypeOK
    <3>3. InOrder(n)
      BY <2>1 DEF Ordered
    <3> QED BY <1>2, <1>3, <2>1, <3>1, <3>2, <3>3, UntouchedInOrder
  <2>2. CASE n > current
    <3>1. n = current + 1
      BY <1>1, <1>4, <2>2
    <3>2. seen[n] = 0 /\ wire[n] = <<>> /\ wire'[n] = <<>>
      <4>1. ~(n <= current) /\ n > current
        BY <1>1, <2>2
      <4>2. stage[n] = "none"
        BY <4>1 DEF Placed
      <4> QED BY <1>2, <4>1, <4>2 DEF Placed
    <3>3. room'[n] = a /\ version'[a] \in Nat
      BY <1>2, <3>1 DEF Select, RoomTypeOK
    <3>4. stage'[n] # "answered"
      BY <3>1 DEF Select, FirstStage
    <3> QED BY <1>2, <3>2, <3>3, <3>4, EmptyWire DEF InOrder
  <2> QED BY <1>1, <2>1, <2>2
<1> QED BY <1>2, <1>4 DEF Ordered

(* The effect that takes the step, and nothing of the others.              *)
LEMMA OthersInOrder ==
  ASSUME RoomTypeOK, Placed, Ordered, NEW m \in Effects,
         Answer(m) \/ Connect(m) \/ Reconnect(m) \/ Send(m) \/ Receive(m) \/ Lose(m),
         NEW n \in Effects, n # m
  PROVE  (n <= current' => InOrder(n)') /\ seen'[n] = seen[n]
<1>1. /\ UNCHANGED <<current, room, version>>
      /\ stage'[n] = stage[n] /\ wire'[n] = wire[n] /\ got'[n] = got[n]
  BY DEF Answer, Connect, Reconnect, Send, Receive, Lose, Ends, Goes,
         RoomTypeOK, storeVars, effectVars, socketVars
<1>2. seen'[n] = seen[n]
  BY DEF Answer, Connect, Reconnect, Send, Receive, Lose, Ends, Put, RoomTypeOK,
         pageVars
<1>3. version' \in [Auctions -> Nat] /\ \A b \in Auctions : version[b] <= version'[b]
  BY <1>1 DEF RoomTypeOK
<1> QED BY <1>1, <1>2, <1>3, UntouchedInOrder DEF Ordered

LEMMA OwnInOrder ==
  ASSUME RoomTypeOK, Placed, Ordered, NEW n \in Effects,
         Answer(n) \/ Connect(n) \/ Reconnect(n) \/ Send(n) \/ Receive(n) \/ Lose(n)
  PROVE  InOrder(n)' /\ seen'[n] >= seen[n]
<1>1. stage[n] # "none"
  BY DEF Answer, Connect, Reconnect, Send, Receive, Lose, Ends, Goes
<1>2. /\ n <= current /\ room[n] \in Auctions /\ version[room[n]] \in Nat /\ InOrder(n)
      /\ seen[n] \in Nat /\ got[n] \in Nat /\ wire[n] \in Seq(Nat) /\ Len(wire[n]) \in Nat
  BY <1>1, RoomOf, LenProperties DEF Ordered, RoomTypeOK
<1>3. UNCHANGED <<current, room, version>>
  BY DEF Answer, Connect, Reconnect, Send, Receive, Lose, Ends, storeVars,
         effectVars
<1>4. version' \in [Auctions -> Nat] /\ \A b \in Auctions : version[b] <= version'[b]
  BY <1>3 DEF RoomTypeOK
<1>5. CASE Answer(n)
  <2>1. got'[n] \in {0, version[room[n]]}
    BY <1>5 DEF Answer, RoomTypeOK
  <2>2. UNCHANGED <<seen, wire>>
    BY <1>5 DEF Answer, socketVars, pageVars
  <2>3. seen[n] <= version[room[n]] /\ got'[n] <= version[room[n]]
        /\ (got'[n] > 0 => seen[n] <= got'[n])
    BY <1>2, <2>1 DEF InOrder
  <2>4. \A k \in 1..Len(wire[n]) : seen[n] <= wire[n][k] /\ wire[n][k] <= version[room[n]]
    BY <1>2 DEF InOrder
  <2>5. \A j, k \in 1..Len(wire[n]) : j <= k => wire[n][j] <= wire[n][k]
    BY <1>2 DEF InOrder
  <2>6. InOrder(n)'
    BY <1>3, <2>2, <2>3, <2>4, <2>5 DEF InOrder
  <2> QED BY <1>2, <2>2, <2>6
<1>6. CASE Connect(n)
  <2>1. stage[n] = "answered" /\ stage'[n] = "open" /\ wire'[n] = <<>>
    BY <1>2, <1>6 DEF Connect, Goes, AfterLoad, RoomTypeOK, Placed, socketVars
  <2>2. seen'[n] = IF got[n] > 0 THEN got[n] ELSE seen[n]
    BY <1>6 DEF Connect, Put, RoomTypeOK, pageVars
  <2>3. seen'[n] \in Nat /\ seen'[n] >= seen[n] /\ seen'[n] <= version[room[n]]
    BY <1>2, <2>1, <2>2 DEF InOrder
  <2> QED BY <1>2, <1>3, <2>1, <2>3, EmptyWire DEF InOrder
<1>7. CASE Reconnect(n) \/ Lose(n)
  <2>1. UNCHANGED <<seen, got>> /\ (wire'[n] = wire[n] \/ wire'[n] = <<>>)
    BY <1>7 DEF Reconnect, Lose, Ends, RoomTypeOK, pageVars, socketVars
  <2>2. stage'[n] # "answered"
    BY <1>7 DEF Reconnect, Lose, Ends, Goes, AfterLoss, RoomTypeOK
  <2>3. InOrder(n)'
    BY <1>2, <1>3, <1>4, <2>1, <2>2, UntouchedInOrder
  <2> QED BY <1>2, <2>1, <2>3
<1>8. CASE Send(n)
  <2> DEFINE v == version[room[n]]
  <2>1. wire'[n] = Append(wire[n], v)
    BY <1>8 DEF Send, RoomTypeOK
  <2>2. /\ Len(wire'[n]) = Len(wire[n]) + 1
        /\ wire'[n][Len(wire[n]) + 1] = v
        /\ \A k \in 1..Len(wire[n]) : wire'[n][k] = wire[n][k]
    BY <1>2, <2>1, AppendProperties
  <2>3. UNCHANGED <<seen, got, stage>>
    BY <1>8 DEF Send, effectVars, pageVars
  <2>4. \A k \in 1..Len(wire'[n]) : k \in 1..Len(wire[n]) \/ k = Len(wire[n]) + 1
    BY <1>2, <2>2
  <2>5. \A k \in 1..Len(wire'[n]) : seen[n] <= wire'[n][k] /\ wire'[n][k] <= v
    BY <1>2, <2>2, <2>4 DEF InOrder
  <2>6. ASSUME NEW j \in 1..Len(wire'[n]), NEW k \in 1..Len(wire'[n]), j <= k
        PROVE  wire'[n][j] <= wire'[n][k]
    <3>1. CASE k = Len(wire[n]) + 1
      BY <2>2, <2>5, <3>1
    <3>2. CASE k \in 1..Len(wire[n])
      <4>1. j \in 1..Len(wire[n])
        BY <1>2, <2>2, <2>6, <3>2
      <4> QED BY <1>2, <2>2, <2>6, <3>2, <4>1 DEF InOrder
    <3> QED BY <2>4, <3>1, <3>2
  <2>7. seen[n] <= v /\ (stage[n] = "answered" /\ got[n] > 0 => seen[n] <= got[n] /\ got[n] <= v)
    BY <1>2 DEF InOrder
  <2> QED BY <1>2, <1>3, <2>3, <2>5, <2>6, <2>7 DEF InOrder
<1>9. CASE Receive(n)
  <2>1. wire[n] # <<>> /\ wire'[n] = Tail(wire[n]) /\ seen'[n] = Head(wire[n])
    BY <1>9 DEF Receive, Put, RoomTypeOK
  <2>2. /\ Len(wire[n]) >= 1 /\ Head(wire[n]) = wire[n][1]
        /\ Len(wire'[n]) = Len(wire[n]) - 1
        /\ \A k \in 1..Len(wire'[n]) : wire'[n][k] = wire[n][k + 1]
    BY <1>2, <2>1, HeadTailProperties, EmptySeq, LenProperties
  <2>3. seen'[n] >= seen[n] /\ seen'[n] <= version[room[n]] /\ seen'[n] \in Nat
    <3>1. Head(wire[n]) \in Nat
      BY <1>2, <2>1, HeadTailProperties
    <3> QED BY <1>2, <2>1, <2>2, <3>1 DEF InOrder
  <2>4. \A k \in 1..Len(wire'[n]) : k + 1 \in 1..Len(wire[n]) /\ 1 \in 1..Len(wire[n]) /\ 1 <= k + 1
    BY <1>2, <2>2
  <2>5. \A k \in 1..Len(wire'[n]) : seen'[n] <= wire'[n][k] /\ wire'[n][k] <= version[room[n]]
    BY <1>2, <2>1, <2>2, <2>4 DEF InOrder
  <2>6. ASSUME NEW j \in 1..Len(wire'[n]), NEW k \in 1..Len(wire'[n]), j <= k
        PROVE  wire'[n][j] <= wire'[n][k]
    <3>1. j + 1 <= k + 1
      BY <1>2, <2>2, <2>6
    <3> QED BY <1>2, <2>2, <2>4, <3>1 DEF InOrder
  <2>7. stage'[n] = "open"
    BY <1>9 DEF Receive, effectVars
  <2> QED BY <1>3, <2>3, <2>5, <2>6, <2>7 DEF InOrder
<1> QED BY <1>5, <1>6, <1>7, <1>8, <1>9

(* The store goes on, or nothing of the effects changes.                   *)
LEMMA StoreKeepsOrder ==
  ASSUME RoomTypeOK, Placed, Ordered, UNCHANGED <<effectVars, wire, seen>>,
         version' \in [Auctions -> Nat],
         \A a \in Auctions : version[a] <= version'[a]
  PROVE  Ordered'
BY UntouchedInOrder DEF Ordered, effectVars

LEMMA OrderKeeps ==
  ASSUME RoomTypeOK, Placed, Ordered, [Next]_vars
  PROVE  Ordered' /\ \A n \in Effects : seen'[n] >= seen[n]
<1>1. RoomTypeOK'
  BY TypeKeeps
<1>2. seen \in [Effects -> Nat] /\ version' \in [Auctions -> Nat]
  BY <1>1 DEF RoomTypeOK
<1>3. CASE UNCHANGED vars
  <2>1. UNCHANGED <<effectVars, wire, seen, version>>
    BY <1>3 DEF vars, storeVars, socketVars, pageVars
  <2>2. \A a \in Auctions : version[a] <= version'[a]
    BY <2>1 DEF RoomTypeOK
  <2> QED BY <1>2, <2>1, <2>2, StoreKeepsOrder
<1>4. ASSUME NEW a \in Auctions, Change(a) \/ Announce(a)
      PROVE  Ordered' /\ \A n \in Effects : seen'[n] >= seen[n]
  <2>1. UNCHANGED <<effectVars, wire, seen>>
    BY <1>4 DEF Change, Announce, socketVars, pageVars
  <2>2. \A b \in Auctions : version[b] <= version'[b]
    <3>1. \A b \in Auctions : version[b] \in Nat
      BY DEF RoomTypeOK
    <3>2. \A b \in Auctions : version'[b] \in {version[b], version[b] + 1}
      BY <1>4 DEF Change, Announce, RoomTypeOK
    <3> QED BY <3>1, <3>2
  <2> QED BY <1>2, <2>1, <2>2, StoreKeepsOrder
<1>5. ASSUME NEW a \in Auctions, Select(a)
      PROVE  Ordered' /\ \A n \in Effects : seen'[n] >= seen[n]
  BY <1>2, <1>5, SelectKeepsOrder
<1>6. ASSUME NEW m \in Effects,
             Answer(m) \/ Connect(m) \/ Reconnect(m) \/ Send(m) \/ Receive(m) \/ Lose(m)
      PROVE  Ordered' /\ \A n \in Effects : seen'[n] >= seen[n]
  <2>1. ASSUME NEW n \in Effects
        PROVE  (n <= current' => InOrder(n)') /\ seen'[n] >= seen[n]
    <3>1. CASE n = m
      BY <1>6, <3>1, OwnInOrder
    <3>2. CASE n # m
      BY <1>2, <1>6, <3>2, OthersInOrder
    <3> QED BY <3>1, <3>2
  <2> QED BY <2>1 DEF Ordered
<1>7. CASE SendCall \/ Serve \/ Reject \/ Answered
  <2>1. UNCHANGED <<effectVars, wire, seen>>
    BY <1>7 DEF SendCall, Serve, Reject, Answered, socketVars, pageVars
  <2>2. \A b \in Auctions : version[b] <= version'[b]
    <3>1. \A b \in Auctions : version[b] \in Nat
      BY DEF RoomTypeOK
    <3>2. \A b \in Auctions : version'[b] \in {version[b], version[b] + 1}
      BY <1>7 DEF SendCall, Serve, Reject, Answered, RoomTypeOK, storeVars
    <3> QED BY <3>1, <3>2
  <2> QED BY <1>2, <2>1, <2>2, StoreKeepsOrder
<1> QED BY StepCases, <1>3, <1>4, <1>5, <1>6, <1>7

-----------------------------------------------------------------------------
(* The theorems *)

LEMMA InvInit == ASSUME Init PROVE IInv
<1>1. RoomTypeOK
  BY TypeInit
<1>2. current = 0 /\ \A n \in Effects : n > 0 /\ ~(n <= 0) /\ ~(n < 0)
  BY EffectsNat DEF Init, Effects
<1>3. Placed /\ OneTimer /\ NeverCutOff /\ Ordered
  BY <1>2 DEF Init, Placed, OneTimer, NeverCutOff, Ordered
<1> QED BY <1>1, <1>3 DEF IInv

LEMMA NoEffects ==
  ASSUME RoomTypeOK, OneTimer, NeverCutOff, [Next]_vars, Effects = {}
  PROVE  OneTimer' /\ NeverCutOff'
<1>1. current = 0 /\ MaxEffects = 0
  <2>1. MaxEffects > 0 => 1 \in Effects
    BY EffectsNat DEF Effects
  <2> QED BY <2>1, EffectsNat DEF RoomTypeOK
<1>2. current' = current
  BY <1>1 DEF Next, Change, Announce, Select, SendCall, Serve, Reject, Answered, vars, effectVars,
        Effects
<1> QED BY <1>1, <1>2 DEF OneTimer, NeverCutOff

LEMMA InvKeeps ==
  ASSUME IInv, [Next]_vars
  PROVE  IInv'
<1>1. RoomTypeOK' /\ Placed' /\ Ordered'
  BY TypeKeeps, PlacedKeeps, OrderKeeps DEF IInv
<1>2. OneTimer' /\ NeverCutOff'
  <2>1. CASE Effects = {}
    BY <2>1, NoEffects DEF IInv
  <2>2. CASE Effects # {}
    <3>1. PICK n \in Effects : TRUE
      BY <2>2
    <3> QED BY <3>1, StageSteps DEF IInv
  <2> QED BY <2>1, <2>2
<1> QED BY <1>1, <1>2 DEF IInv

LEMMA Invariant == Spec => []IInv
<1>1. Init => IInv
  BY InvInit
<1>2. IInv /\ [Next]_vars => IInv'
  BY InvKeeps
<1> QED BY <1>1, <1>2, PTL DEF Spec

(* All variables keep their types (MobileApp.tsx:30-148, AdminApp.tsx:     *)
(* 30-175).                                                                *)
THEOREM RoomTypeCorrect == Spec => []RoomTypeOK
<1>1. IInv => RoomTypeOK
  BY DEF IInv
<1> QED BY <1>1, Invariant, PTL

(* The bidder's selected room is never left without a request, a socket or *)
(* a timer, after any number of losses, failed reads and switches of       *)
(* effects that share one reconnectTimer (MobileApp.tsx:36, 49-78).        *)
THEOREM BidderNeverCutOff == Spec => []NeverCutOff
<1>1. IInv => NeverCutOff
  BY DEF IInv
<1> QED BY <1>1, Invariant, PTL

(* A room that was left opens at most one more socket, and has no timer    *)
(* that the cleanup missed (MobileApp.tsx:60-64 and 73-77, AdminApp.tsx:   *)
(* 75-79).                                                                 *)
THEOREM LeftRoomsAreLeft == Spec => LeftRoomsWindDown
<1>1. IInv /\ [Next]_vars =>
        [\A n \in Effects :
           n < current =>
             /\ stage'[n] # "waiting"
             /\ stage[n] \in {"open", "over"} => stage'[n] \in {stage[n], "over"}]_vars
  BY StageSteps DEF IInv
<1> QED BY <1>1, Invariant, PTL DEF Spec, LeftRoomsWindDown

(* One effect never puts an older snapshot on the page than before, over   *)
(* any number of sockets (MobileApp.tsx:53-66).                            *)
THEOREM EffectsOnlyForward == Spec => EffectOnlyForward
<1>1. IInv /\ [Next]_vars => [\A n \in Effects : seen'[n] >= seen[n]]_vars
  BY OrderKeeps DEF IInv
<1> QED BY <1>1, Invariant, PTL DEF Spec, EffectOnlyForward

-----------------------------------------------------------------------------
(* When nothing is under way *)

(* What a socket was sent last is the last it has still to bring, or, when *)
(* it has brought all, what its effect has put on the page.                *)
BroughtOrComing(n) ==
  \/ sent[n] = 0
  \/ wire[n] = <<>> /\ seen[n] = sent[n]
  \/ wire[n] # <<>> /\ wire[n][Len(wire[n])] = sent[n]

KeepsUp ==
  \A n \in Effects :
    /\ stage[n] # "open" => sent[n] = 0
    /\ n <= current => stage[n] # "none"
    /\ stage[n] = "open" => BroughtOrComing(n)

(* The effect has no request, no timer and no message to come, and its     *)
(* server was told of nothing newer than it sent.                          *)
NothingUnderWay(n) ==
  /\ stage[n] \notin {"loading", "answered", "waiting"}
  /\ wire[n] = <<>>
  /\ announced[room[n]] <= sent[n]

(* The safety that RoomDelivers rests on: when nothing is under way, the   *)
(* selected room's effect has put every announced version on the page, or  *)
(* a newer one, but for an admin's page whose socket was lost              *)
(* (MobileApp.tsx:53-66, AdminApp.tsx:67-80).                              *)
RestsAtAnnounced ==
  current > 0 /\ NothingUnderWay(current) =>
    \/ seen[current] >= announced[room[current]]
    \/ kind = "admin" /\ stage[current] = "over"

LEMMA SelectKeepsUp ==
  ASSUME RoomTypeOK, Placed, KeepsUp, NEW a \in Auctions, Select(a)
  PROVE  KeepsUp'
<1>1. current' = current + 1 /\ current \in Nat /\ Effects \subseteq Nat /\ seen' = seen
  BY EffectsNat, RoomAssumption DEF Select, pageVars, RoomTypeOK, Effects
<1>2. \A n \in Effects :
        /\ stage'[n] = IF n = current + 1 THEN FirstStage
                       ELSE IF CleanedUp(n) THEN "over" ELSE stage[n]
        /\ wire'[n] = IF CleanedUp(n) THEN <<>> ELSE wire[n]
        /\ sent'[n] = IF CleanedUp(n) THEN 0 ELSE sent[n]
  BY DEF Select
<1> SUFFICES ASSUME NEW n \in Effects
             PROVE  /\ stage'[n] # "open" => sent'[n] = 0
                    /\ n <= current + 1 => stage'[n] # "none"
                    /\ stage'[n] = "open" => BroughtOrComing(n)'
  BY <1>1 DEF KeepsUp
<1>3. CASE n = current + 1
  <2>1. ~(n <= current) /\ stage[n] = "none"
    BY <1>1, <1>3 DEF Placed
  <2>2. sent[n] = 0 /\ sent'[n] = 0 /\ stage'[n] # "none"
    BY <1>2, <1>3, <2>1 DEF KeepsUp, FirstStage
  <2> QED BY <2>2 DEF BroughtOrComing
<1>4. CASE n # current + 1
  <2>1. n <= current + 1 => stage'[n] # "none"
    BY <1>1, <1>2, <1>4 DEF KeepsUp
  <2>2. CASE CleanedUp(n)
    BY <1>2, <1>4, <2>1, <2>2
  <2>3. CASE ~CleanedUp(n)
    <3>1. stage'[n] = stage[n] /\ wire'[n] = wire[n] /\ sent'[n] = sent[n]
      BY <1>2, <1>4, <2>3
    <3> QED BY <1>1, <2>1, <3>1 DEF KeepsUp, BroughtOrComing
  <2> QED BY <2>2, <2>3
<1> QED BY <1>3, <1>4

LEMMA EffectKeepsUp ==
  ASSUME RoomTypeOK, Placed, KeepsUp, NEW n \in Effects,
         Answer(n) \/ Connect(n) \/ Reconnect(n) \/ Send(n) \/ Receive(n) \/ Lose(n)
  PROVE  KeepsUp'
<1>1. stage[n] # "none"
  BY DEF Answer, Connect, Reconnect, Send, Receive, Lose, Ends, Goes
<1>2. n <= current /\ current \in Nat /\ n \in Nat /\ current' = current
  <2>1. current' = current
    BY DEF Answer, Connect, Reconnect, Send, Receive, Lose, Ends, effectVars
  <2>2. n <= current
    BY <1>1, RoomOf
  <2>3. current \in Nat /\ n \in Nat
    BY EffectsNat DEF RoomTypeOK
  <2> QED BY <2>1, <2>2, <2>3
<1>3. \A m \in Effects \ {n} : /\ stage'[m] = stage[m] /\ wire'[m] = wire[m]
                               /\ sent'[m] = sent[m] /\ seen'[m] = seen[m]
  BY DEF RoomTypeOK, Answer, Connect, Reconnect, Send, Receive, Lose, Ends, Goes,
         Put, effectVars, socketVars, pageVars
<1>4. stage'[n] # "none"
  BY <1>1 DEF RoomTypeOK, Answer, Connect, Reconnect, Send, Receive, Lose, Ends, Goes,
         AfterLoad, AfterLoss, effectVars
<1>5. wire[n] \in Seq(Nat) /\ Len(wire[n]) \in Nat
  BY LenProperties DEF RoomTypeOK
<1>6. stage'[n] = "open" => BroughtOrComing(n)'
  <2>1. CASE Answer(n) \/ Reconnect(n) \/ Lose(n)
    BY <2>1 DEF RoomTypeOK, Answer, Reconnect, Lose, Ends, Goes, AfterLoss
  <2>2. CASE Connect(n)
    BY <2>2 DEF RoomTypeOK, Connect, Goes, KeepsUp, BroughtOrComing, socketVars
  <2>3. CASE Send(n)
    <3> DEFINE v == version[room[n]]
    <3>1. wire'[n] = Append(wire[n], v) /\ sent'[n] = v
      BY <2>3 DEF Send, RoomTypeOK
    <3>2. v \in Nat
      BY <1>1, RoomOf
    <3> HIDE DEF v
    <3>3. /\ Len(wire'[n]) = Len(wire[n]) + 1
          /\ wire'[n][Len(wire[n]) + 1] = v
      BY <1>5, <3>1, <3>2, AppendProperties
    <3>4. wire'[n] # <<>>
      BY <1>5, <3>3, EmptyWire
    <3> QED BY <3>1, <3>3, <3>4 DEF BroughtOrComing
  <2>4. CASE Receive(n)
    <3>1. /\ wire[n] # <<>> /\ wire'[n] = Tail(wire[n]) /\ seen'[n] = Head(wire[n])
          /\ stage[n] = "open" /\ sent'[n] = sent[n]
      BY <2>4 DEF Receive, Put, RoomTypeOK
    <3>2. /\ Len(wire[n]) >= 1 /\ Head(wire[n]) = wire[n][1]
          /\ wire'[n] \in Seq(Nat)
          /\ Len(wire'[n]) = Len(wire[n]) - 1
          /\ \A k \in 1..Len(wire'[n]) : wire'[n][k] = wire[n][k + 1]
      BY <1>5, <3>1, HeadTailProperties, EmptySeq, LenProperties
    <3>3. CASE sent[n] = 0
      BY <3>1, <3>3 DEF BroughtOrComing
    <3>4. CASE sent[n] # 0
      <4>1. wire[n][Len(wire[n])] = sent[n]
        BY <3>1, <3>4 DEF KeepsUp, BroughtOrComing
      <4>2. CASE wire'[n] = <<>>
        <5>1. Len(wire[n]) = 1
          BY <1>5, <3>2, <4>2, EmptyWire
        <5>2. seen'[n] = sent'[n]
          BY <3>1, <3>2, <4>1, <5>1
        <5> QED BY <4>2, <5>2 DEF BroughtOrComing
      <4>3. CASE wire'[n] # <<>>
        <5>1. Len(wire'[n]) \in 1..Len(wire'[n])
          BY <1>5, <3>2, <4>3, EmptySeq
        <5>2. wire'[n][Len(wire'[n])] = wire[n][Len(wire[n])]
          <6>1. wire'[n][Len(wire'[n])] = wire[n][Len(wire'[n]) + 1]
            BY <3>2, <5>1
          <6>2. Len(wire'[n]) + 1 = Len(wire[n])
            BY <1>5, <3>2
          <6> QED BY <6>1, <6>2
        <5> QED BY <3>1, <4>1, <4>3, <5>2 DEF BroughtOrComing
      <4> QED BY <4>2, <4>3
    <3> QED BY <3>3, <3>4
  <2> QED BY <2>1, <2>2, <2>3, <2>4
<1>7. stage'[n] # "open" => sent'[n] = 0
  BY DEF RoomTypeOK, KeepsUp, Answer, Connect, Reconnect, Send, Receive, Lose, Ends, Goes,
         AfterLoad, effectVars, socketVars
<1>8. ASSUME NEW m \in Effects
      PROVE  /\ stage'[m] # "open" => sent'[m] = 0
             /\ m <= current => stage'[m] # "none"
             /\ stage'[m] = "open" => BroughtOrComing(m)'
  <2>1. CASE m = n
    BY <1>2, <1>4, <1>6, <1>7, <2>1
  <2>2. CASE m # n
    BY <1>3, <2>2 DEF KeepsUp, BroughtOrComing
  <2> QED BY <2>1, <2>2
<1> QED BY <1>2, <1>8 DEF KeepsUp

LEMMA KeepsUpKeeps ==
  ASSUME RoomTypeOK, Placed, KeepsUp, [Next]_vars
  PROVE  KeepsUp'
<1>1. ASSUME UNCHANGED <<current, stage, socketVars, seen>>
      PROVE  KeepsUp'
  BY <1>1 DEF KeepsUp, BroughtOrComing, socketVars
<1>2. CASE UNCHANGED vars
  BY <1>1, <1>2 DEF vars, effectVars, pageVars
<1>3. ASSUME NEW a \in Auctions, Change(a) \/ Announce(a)
      PROVE  KeepsUp'
  BY <1>1, <1>3 DEF Change, Announce, effectVars, pageVars
<1>4. CASE SendCall \/ Serve \/ Reject \/ Answered
  BY <1>1, <1>4 DEF SendCall, Serve, Reject, Answered, effectVars, pageVars
<1> QED BY StepCases, SelectKeepsUp, EffectKeepsUp, <1>2, <1>3, <1>4

LEMMA KeptUpRests ==
  ASSUME IInv, KeepsUp
  PROVE  RestsAtAnnounced
<1> SUFFICES ASSUME current > 0, NothingUnderWay(current),
                    ~(kind = "admin" /\ stage[current] = "over")
             PROVE  seen[current] >= announced[room[current]]
  BY DEF RestsAtAnnounced
<1>1. current \in Effects /\ current <= current
  BY RoomAssumption DEF IInv, RoomTypeOK, Effects
<1>2. stage[current] = "open"
  BY <1>1 DEF IInv, NeverCutOff, KeepsUp, NothingUnderWay, RoomTypeOK
<1>3. room[current] \in Auctions /\ announced[room[current]] \in Nat /\ seen[current] \in Nat
  BY <1>1 DEF IInv, Placed, RoomTypeOK
<1>4. wire[current] = <<>> /\ announced[room[current]] <= sent[current]
  BY DEF NothingUnderWay
<1>5. sent[current] = 0 \/ seen[current] = sent[current]
  BY <1>1, <1>2, <1>4 DEF KeepsUp, BroughtOrComing
<1> QED BY <1>3, <1>4, <1>5

(* When nothing is under way for the selected room, every version its      *)
(* server was told of, or a newer one, has been put on the page, after any *)
(* number of switches, lost sockets and failed reads (MobileApp.tsx:53-66, *)
(* AdminApp.tsx:67-80).                                                    *)
THEOREM SelectedRoomKeepsUp == Spec => []RestsAtAnnounced
<1>1. Init => KeepsUp
  BY EffectsNat DEF Init, KeepsUp, Effects
<1>2. IInv /\ KeepsUp /\ [Next]_vars => KeepsUp'
  BY KeepsUpKeeps DEF IInv
<1>3. IInv /\ KeepsUp => RestsAtAnnounced
  BY KeptUpRests
<1> QED BY <1>1, <1>2, <1>3, Invariant, PTL DEF Spec

=============================================================================
