-------------------------- MODULE EventStreamProofs --------------------------
(***************************************************************************)
(* What EventStream's run checks on two instances with a page each, proved *)
(* for any number of instances, calls and connections, any capacity and    *)
(* any of the failures.                                                    *)
(***************************************************************************)
EXTENDS EventStream, SequenceTheorems, TLAPS

(* Instances know their own events from the others' (redis_bus.go:89-91).  *)
OwnIds == \A i, j \in Instances : SourceId[i] = SourceId[j] => i = j

-----------------------------------------------------------------------------
(* The inductive invariant *)

(* Every copy of a version is one the store has had.                       *)
NoneAhead ==
  /\ \A t \in Threads : carried[t] <= version
  /\ \A i \in Instances : \A n \in 1..Len(inbox[i]) : inbox[i][n].version <= version
  /\ \A c \in Clients : \A n \in 1..Len(queue[c]) : queue[c][n] <= version
  /\ \A c \in Clients : taken[c] <= version /\ shown[c] <= version
  /\ \A c \in Clients : since[c] <= version

(* What was read from the store was read after the page was sent the last. *)
ReadSince == \A c \in Clients : phase[c] = "writing" /\ read[c] => since[c] <= taken[c]

-----------------------------------------------------------------------------
(* Steps *)

(* A thread of a call is no instance's forwarder.                          *)
LEMMA CallsHub ==
  ASSUME NEW t \in Calls
  PROVE  t \notin Instances /\ t \in Threads /\ HubOf(t) = InstanceOf[t]
                /\ InstanceOf[t] \in Instances
  BY StreamAssumption DEF Threads, HubOf

LEMMA StepCases ==
  ASSUME [Next]_vars
  PROVE  \/ UNCHANGED vars
         \/ \E t \in Calls : Change(t) \/ Repeat(t) \/ GiveUp(t) \/ Broadcast(t) \/ Publish(t)
         \/ \E i \in Instances : Forward(i)
         \/ \E t \in Threads, c \in Clients : Offer(t, c)
         \/ \E c \in Clients : \/ Subscribe(c) \/ Hello(c) \/ Take(c) \/ Personalize(c) \/ Write(c)
                               \/ Leave(c) \/ Notice(c) \/ Unsubscribe(c)
  BY DEF Next, Call, Continue, Handle, Threads

LEMMA TypeInit == ASSUME Init PROVE StreamTypeOK
  BY StreamAssumption DEF Init, StreamTypeOK, Phases

Messages == [source : {SourceId[i] : i \in Instances}, version : Nat]

(* The parts of the type that a thread's step can disturb.                 *)
LEMMA CallKeepsType ==
  ASSUME StreamTypeOK, NEW t \in Calls,
         Change(t) \/ Repeat(t) \/ GiveUp(t) \/ Broadcast(t) \/ Publish(t)
  PROVE  StreamTypeOK'
<1>1. t \in Threads /\ InstanceOf[t] \in Instances
  BY CallsHub
<1>2. pc' \in [Calls -> {"idle", "changed", "repeated", "sending", "done"}]
  BY DEF StreamTypeOK, Change, Repeat, GiveUp, Broadcast, Publish, Goto
<1>3. carried[t] \in Nat
  BY <1>1 DEF StreamTypeOK
<1>4. /\ version' \in Nat
      /\ carried' \in [Threads -> Nat]
  <2>1. CASE Change(t)
    BY <1>1, <2>1 DEF StreamTypeOK, Change
  <2>2. CASE Repeat(t)
    <3>1. PICK v \in 0..version : carried' = [carried EXCEPT ![t] = v]
      BY <2>2 DEF Repeat
    <3> QED BY <1>1, <2>2, <3>1 DEF StreamTypeOK, Repeat
  <2>3. CASE GiveUp(t)
    BY <1>1, <2>3 DEF StreamTypeOK, GiveUp
  <2>4. CASE Broadcast(t)
    BY <2>4 DEF StreamTypeOK, Broadcast
  <2>5. CASE Publish(t)
    BY <1>1, <2>5 DEF StreamTypeOK, Publish
  <2> QED BY <2>1, <2>2, <2>3, <2>4, <2>5
<1>5. todo' \in [Threads -> SUBSET Clients]
  <2>1. Room(InstanceOf[t]) \subseteq Clients
    BY DEF Room
  <2> QED BY <1>1, <2>1 DEF StreamTypeOK, Change, Repeat, GiveUp, Broadcast, Publish
<1>6. silent' \in [Instances -> SUBSET Nat]
  <2>1. CASE GiveUp(t)
    BY <1>3, <2>1 DEF StreamTypeOK, GiveUp
  <2>2. CASE Publish(t)
    <3>1. PICK reached \in SUBSET Instances :
            silent' = [i \in Instances |->
                         IF i \in reached \/ i = InstanceOf[t] THEN silent[i]
                         ELSE silent[i] \cup {carried[t]}]
      BY <2>2 DEF Publish
    <3> QED BY <1>3, <3>1 DEF StreamTypeOK
  <2>3. CASE ~GiveUp(t) /\ ~Publish(t)
    BY <2>3 DEF StreamTypeOK, Change, Repeat, Broadcast
  <2> QED BY <2>1, <2>2, <2>3
<1>7. inbox' \in [Instances -> Seq(Messages)]
  <2>1. inbox \in [Instances -> Seq(Messages)]
    BY DEF StreamTypeOK, Messages
  <2>2. CASE Publish(t)
    <3> DEFINE message == [source |-> SourceId[InstanceOf[t]], version |-> carried[t]]
    <3>1. message \in Messages
      BY <1>1, <1>3 DEF Messages
    <3>2. \A i \in Instances : Append(inbox[i], message) \in Seq(Messages)
      BY <2>1, <3>1, AppendProperties
    <3> HIDE DEF message
    <3>3. PICK reached \in SUBSET Instances :
            inbox' = [i \in Instances |-> IF i \in reached THEN Append(inbox[i], message)
                                          ELSE inbox[i]]
      BY <2>2 DEF Publish, message
    <3> QED BY <2>1, <3>2, <3>3
  <2>3. CASE ~ Publish(t)
    BY <2>1, <2>3 DEF Change, Repeat, GiveUp, Broadcast
  <2> QED BY <2>2, <2>3
<1>8. UNCHANGED <<clientVars, queue, workVars>>
  BY DEF Change, Repeat, GiveUp, Broadcast, Publish
<1> QED BY <1>2, <1>4, <1>5, <1>6, <1>7, <1>8
        DEF StreamTypeOK, Messages, clientVars, pageVars, workVars

LEMMA ForwardKeepsType ==
  ASSUME StreamTypeOK, NEW i \in Instances, Forward(i)
  PROVE  StreamTypeOK'
<1>1. /\ inbox \in [Instances -> Seq(Messages)]
      /\ i \in Threads
      /\ inbox[i] # <<>>
  BY DEF StreamTypeOK, Messages, Threads, Forward
<1>2. Head(inbox[i]) \in Messages /\ Tail(inbox[i]) \in Seq(Messages)
  BY <1>1, HeadTailProperties
<1>3. Head(inbox[i]).version \in Nat
  BY <1>2 DEF Messages
<1>4. inbox' \in [Instances -> Seq(Messages)]
  BY <1>1, <1>2 DEF Forward
<1>5. Room(i) \subseteq Clients
  BY DEF Room
<1>6. carried' \in [Threads -> Nat] /\ todo' \in [Threads -> SUBSET Clients]
  BY <1>1, <1>3, <1>5 DEF StreamTypeOK, Forward
<1> QED BY <1>4, <1>6 DEF StreamTypeOK, Forward, Messages, clientVars, pageVars,
        workVars

LEMMA OfferKeepsType ==
  ASSUME StreamTypeOK, NEW t \in Threads, NEW c \in Clients, Offer(t, c)
  PROVE  StreamTypeOK'
<1>1. todo' \in [Threads -> SUBSET Clients]
  BY DEF StreamTypeOK, Offer
<1>2. /\ queue' \in [Clients -> Seq(Nat)]
      /\ \A d \in Clients : Len(queue'[d]) <= Capacity
  <2>1. /\ queue[c] \in Seq(Nat) /\ carried[t] \in Nat
        /\ Capacity \in Nat
    BY StreamAssumption DEF StreamTypeOK
  <2>2. /\ Append(queue[c], carried[t]) \in Seq(Nat)
        /\ Len(Append(queue[c], carried[t])) = Len(queue[c]) + 1
        /\ Len(queue[c]) \in Nat
    BY <2>1, AppendProperties, LenProperties
  <2> QED BY <2>1, <2>2 DEF StreamTypeOK, Offer
<1> QED BY <1>1, <1>2 DEF StreamTypeOK, Offer, callVars, clientVars, pageVars, workVars

LEMMA SendKeepsType ==
  ASSUME StreamTypeOK, NEW c \in Clients, NEW v \in Nat, NEW fromStore \in BOOLEAN,
         Send(c, v, fromStore)
  PROVE  /\ shown' \in [Clients -> Nat]
         /\ fresh' \in [Clients -> BOOLEAN]
         /\ since' \in [Clients -> Nat]
BY DEF StreamTypeOK, Send

LEMMA WorkKeepsType ==
  ASSUME StreamTypeOK, NEW c \in Clients, NEW v \in Nat, NEW fromStore \in BOOLEAN,
         WorkOn(c, v, fromStore)
  PROVE  taken' \in [Clients -> Nat] /\ read' \in [Clients -> BOOLEAN]
BY DEF StreamTypeOK, WorkOn

(* What a handler is working on after its step.                            *)
LEMMA WorkCases ==
  ASSUME StreamTypeOK, NEW c \in Clients,
         \/ Subscribe(c) \/ Hello(c) \/ Take(c) \/ Personalize(c) \/ Write(c)
         \/ Leave(c) \/ Notice(c) \/ Unsubscribe(c)
  PROVE  \/ UNCHANGED <<taken, read>>
         \/ WorkOn(c, version, TRUE) \/ WorkOn(c, 0, FALSE) \/ WorkOn(c, taken[c], FALSE)
         \/ Take(c) /\ WorkOn(c, Head(queue[c]), FALSE)
BY DEF Subscribe, Hello, Take, Personalize, Snapshot, Write, Leave, Notice, Unsubscribe,
       workVars

(* A handler's step leaves the other handlers' work alone.                 *)
LEMMA OthersKeepWork ==
  ASSUME StreamTypeOK, NEW d \in Clients,
         \/ Subscribe(d) \/ Hello(d) \/ Take(d) \/ Personalize(d) \/ Write(d)
         \/ Leave(d) \/ Notice(d) \/ Unsubscribe(d),
         NEW c \in Clients, c # d \/ Leave(d)
  PROVE  taken'[c] = taken[c] /\ read'[c] = read[c]
<1>1. CASE Leave(d)
  BY <1>1 DEF Leave, workVars
<1>2. CASE c # d
  <2>1. ASSUME NEW w, NEW b, WorkOn(d, w, b)
        PROVE  taken'[c] = taken[c] /\ read'[c] = read[c]
    BY <1>2, <2>1 DEF WorkOn, StreamTypeOK
  <2>2. CASE UNCHANGED <<taken, read>>
    BY <2>2
  <2> QED BY <2>1, <2>2, WorkCases
<1> QED BY <1>1, <1>2

LEMMA HandlerKeepsType ==
  ASSUME StreamTypeOK, NEW c \in Clients,
         \/ Subscribe(c) \/ Hello(c) \/ Take(c) \/ Personalize(c) \/ Write(c)
         \/ Leave(c) \/ Notice(c) \/ Unsubscribe(c)
  PROVE  StreamTypeOK'
<1>1. /\ phase' \in [Clients -> Phases]
      /\ gone' \in [Clients -> BOOLEAN]
      /\ kind' \in [Clients -> {"socket", "stream"}]
  BY DEF StreamTypeOK, Phases, Moves, Subscribe, Hello, Take, Personalize, Write, Leave,
         Notice, Unsubscribe
<1>2. /\ shown' \in [Clients -> Nat]
      /\ fresh' \in [Clients -> BOOLEAN]
      /\ since' \in [Clients -> Nat]
  <2>1. CASE Hello(c)
    BY <2>1 DEF StreamTypeOK, Hello
  <2>2. CASE Write(c)
    <3>1. taken[c] \in Nat /\ read[c] \in BOOLEAN
      BY DEF StreamTypeOK
    <3> QED BY <2>2, <3>1, SendKeepsType DEF Write
  <2>3. CASE ~Hello(c) /\ ~Write(c)
    BY <2>3 DEF StreamTypeOK, Subscribe, Take, Personalize, Leave, Notice, Unsubscribe,
       pageVars
  <2> QED BY <2>1, <2>2, <2>3
<1>3. /\ queue' \in [Clients -> Seq(Nat)]
      /\ \A d \in Clients : Len(queue'[d]) <= Capacity
      /\ Take(c) => Head(queue[c]) \in Nat
  <2>1. CASE Take(c)
    <3>1. queue[c] \in Seq(Nat) /\ queue[c] # <<>>
      BY <2>1 DEF StreamTypeOK, Take
    <3>2. /\ Head(queue[c]) \in Nat
          /\ Tail(queue[c]) \in Seq(Nat)
          /\ Len(Tail(queue[c])) = Len(queue[c]) - 1
          /\ Len(queue[c]) \in Nat
      BY <3>1, HeadTailProperties, LenProperties
    <3> QED BY <2>1, <3>2, StreamAssumption DEF StreamTypeOK, Take
  <2>2. CASE Unsubscribe(c) /\ ~Take(c)
    <3>1. <<>> \in Seq(Nat) /\ Len(<<>>) = 0
      OBVIOUS
    <3> QED BY <2>2, <3>1, StreamAssumption DEF StreamTypeOK, Unsubscribe
  <2>3. CASE ~Take(c) /\ ~Unsubscribe(c)
    <3>1. queue' = queue
      BY <2>3 DEF Subscribe, Hello, Personalize, Write, Leave, Notice
    <3> QED BY <2>3, <3>1 DEF StreamTypeOK
  <2> QED BY <2>1, <2>2, <2>3
<1>4. taken' \in [Clients -> Nat] /\ read' \in [Clients -> BOOLEAN]
  <2>1. version \in Nat /\ taken[c] \in Nat
    BY DEF StreamTypeOK
  <2>2. CASE UNCHANGED <<taken, read>>
    BY <2>2 DEF StreamTypeOK
  <2> QED BY <1>3, <2>1, <2>2, WorkCases, WorkKeepsType
<1>5. UNCHANGED <<version, callVars, todo, inbox, silent>>
  BY DEF Subscribe, Hello, Take, Personalize, Write, Leave, Notice, Unsubscribe
<1> QED BY <1>1, <1>2, <1>3, <1>4, <1>5 DEF StreamTypeOK, callVars

LEMMA TypeKeeps ==
  ASSUME StreamTypeOK, [Next]_vars
  PROVE  StreamTypeOK'
<1>1. CASE UNCHANGED vars
  BY <1>1 DEF StreamTypeOK, vars, callVars, clientVars, pageVars, workVars
<1> QED BY StepCases, CallKeepsType, ForwardKeepsType, OfferKeepsType,
           HandlerKeepsType, <1>1

(* All variables keep their types and no channel holds more than its       *)
(* capacity, however many broadcasts offer to it (hub.go:76-81).           *)
THEOREM StreamTypeCorrect == Spec => []StreamTypeOK
<1>1. Init => StreamTypeOK
  BY TypeInit
<1>2. StreamTypeOK /\ [Next]_vars => StreamTypeOK'
  BY TypeKeeps
<1> QED BY <1>1, <1>2, PTL DEF Spec

-----------------------------------------------------------------------------
(* Sends and closings *)

LEMMA ClosedKeeps ==
  ASSUME StreamTypeOK, NoSendOnClosed, [Next]_vars
  PROVE  NoSendOnClosed'
<1> SUFFICES ASSUME NEW t \in Threads, NEW c \in Clients, c \in todo'[t]
             PROVE  InstanceOf[c] = HubOf(t) /\ phase'[c] \notin {"out", "left"}
  <2>1. todo' \in [Threads -> SUBSET Clients]
    BY TypeKeeps DEF StreamTypeOK
  <2> QED BY <2>1 DEF NoSendOnClosed, Room
<1>1. c \in todo[t] =>
        InstanceOf[c] = HubOf(t) /\ phase[c] \notin {"out", "left"} /\ ~WriteLock(InstanceOf[c])
  BY DEF NoSendOnClosed, Room, WriteLock
<1>2. CASE UNCHANGED vars
  BY <1>1, <1>2 DEF vars, clientVars
<1>3. ASSUME NEW u \in Calls,
             Change(u) \/ Repeat(u) \/ GiveUp(u) \/ Broadcast(u) \/ Publish(u)
      PROVE  InstanceOf[c] = HubOf(t) /\ phase'[c] \notin {"out", "left"}
  <2>1. phase' = phase
    BY <1>3 DEF Change, Repeat, GiveUp, Broadcast, Publish, clientVars
  <2>2. CASE Broadcast(u)
    <3>1. c \in todo[t] \/ (t = u /\ c \in Room(InstanceOf[u]))
      BY <2>2 DEF Broadcast, StreamTypeOK
    <3> QED BY <1>1, <2>1, <3>1, CallsHub DEF Room
  <2>3. CASE ~Broadcast(u)
    <3>1. todo' = todo
      BY <1>3, <2>3 DEF Change, Repeat, GiveUp, Publish
    <3> QED BY <1>1, <2>1, <3>1
  <2> QED BY <2>2, <2>3
<1>4. ASSUME NEW i \in Instances, Forward(i)
      PROVE  InstanceOf[c] = HubOf(t) /\ phase'[c] \notin {"out", "left"}
  <2>1. phase' = phase
    BY <1>4 DEF Forward, clientVars
  <2>2. c \in todo[t] \/ (t = i /\ c \in Room(i))
    BY <1>4 DEF Forward, StreamTypeOK
  <2> QED BY <1>1, <2>1, <2>2 DEF Room, HubOf
<1>5. ASSUME NEW u \in Threads, NEW d \in Clients, Offer(u, d)
      PROVE  InstanceOf[c] = HubOf(t) /\ phase'[c] \notin {"out", "left"}
  <2>1. phase' = phase /\ c \in todo[t]
    BY <1>5 DEF Offer, StreamTypeOK, clientVars
  <2> QED BY <1>1, <2>1
<1>6. ASSUME NEW d \in Clients,
             \/ Subscribe(d) \/ Hello(d) \/ Take(d) \/ Personalize(d) \/ Write(d)
             \/ Leave(d) \/ Notice(d) \/ Unsubscribe(d)
      PROVE  InstanceOf[c] = HubOf(t) /\ phase'[c] \notin {"out", "left"}
  <2>1. todo' = todo
    BY <1>6 DEF Subscribe, Hello, Take, Personalize, Write, Leave, Notice, Unsubscribe
  <2>2. CASE Unsubscribe(d)
    <3>1. d # c
      BY <1>1, <2>1, <2>2 DEF Unsubscribe
    <3> QED BY <1>1, <2>1, <2>2, <3>1 DEF Unsubscribe, Moves, StreamTypeOK
  <2>3. CASE ~Unsubscribe(d)
    <3>1. phase'[c] \in {phase[c], "joined", "waiting", "woken", "writing", "leaving"}
      BY <1>6, <2>3 DEF Subscribe, Hello, Take, Personalize, Write, Leave, Notice, Moves,
         StreamTypeOK
    <3> QED BY <1>1, <2>1, <3>1
  <2> QED BY <2>2, <2>3
<1> QED BY StepCases, <1>2, <1>3, <1>4, <1>5, <1>6

(* No broadcast can send on a closed channel, with any number of threads   *)
(* in the room's hub at once (hub.go:57-82).                               *)
THEOREM NeverSendsOnClosed == Spec => []NoSendOnClosed
<1>1. Init => StreamTypeOK /\ NoSendOnClosed
  BY TypeInit DEF Init, NoSendOnClosed
<1>2. StreamTypeOK /\ NoSendOnClosed /\ [Next]_vars => (StreamTypeOK /\ NoSendOnClosed)'
  BY TypeKeeps, ClosedKeeps
<1> QED BY <1>1, <1>2, PTL DEF Spec

-----------------------------------------------------------------------------
(* What a waiting page has still to be told *)

(* The ways a version can be on, one operator each.                        *)
Carries(t, v, c) ==
  /\ carried[t] = v
  /\ \/ pc[t] = "changed"
     \/ pc[t] = "sending" /\ (InstanceOf[t] = InstanceOf[c] => c \in todo[t])

Holds(n, v, c) ==
  /\ inbox[InstanceOf[c]][n].version = v
  /\ ShouldForward(InstanceOf[c], inbox[InstanceOf[c]][n])

Forwards(v, c) == carried[InstanceOf[c]] = v /\ c \in todo[InstanceOf[c]]

Told(v, c) ==
  \/ v \in silent[InstanceOf[c]]
  \/ \E t \in Calls : Carries(t, v, c)
  \/ \E n \in 1..Len(inbox[InstanceOf[c]]) : Holds(n, v, c)
  \/ Forwards(v, c)

LEMMA AppendNotEmpty ==
  ASSUME NEW s \in Seq(Nat), NEW v \in Nat
  PROVE  Append(s, v) # <<>>
<1>1. Len(Append(s, v)) = Len(s) + 1
  BY AppendProperties
<1>2. Len(s) \in Nat /\ Len(<<>>) = 0
  BY LenProperties
<1> QED BY <1>1, <1>2

Waits(c) == Informed(c) /\ queue[c] = <<>>

LEMMA NewsParts ==
  NoMissedNews <=> \A c \in Clients : Waits(c) => \A v \in (Newest(c) + 1)..version : Told(v, c)
BY DEF NoMissedNews, OnItsWay, Waits, Told, Carries, Holds, Forwards

(* What holds of a page that was waiting already.                          *)
LEMMA CallKeepsNews ==
  ASSUME StreamTypeOK, OwnIds, NEW u \in Calls,
         Change(u) \/ Repeat(u) \/ GiveUp(u) \/ Broadcast(u) \/ Publish(u),
         NEW c \in Clients, Waits(c), NEW v \in Nat, Told(v, c)
  PROVE  Told(v, c)'
<1> DEFINE i == InstanceOf[c]
<1>1. i \in Instances /\ i \notin Calls /\ u \in Threads /\ i \in Threads /\ i # u
  BY StreamAssumption DEF Threads
<1>2. \A j \in Instances : silent[j] \subseteq silent'[j]
  <2>1. CASE Publish(u)
    <3>1. PICK reached \in SUBSET Instances :
            silent' = [j \in Instances |->
                         IF j \in reached \/ j = InstanceOf[u] THEN silent[j]
                         ELSE silent[j] \cup {carried[u]}]
      BY <2>1 DEF Publish
    <3> QED BY <3>1
  <2>2. CASE ~Publish(u)
    BY <2>2 DEF Change, Repeat, GiveUp, Broadcast
  <2> QED BY <2>1, <2>2
<1>3. CASE v \in silent[i]
  BY <1>1, <1>2, <1>3 DEF Told
<1>4. ASSUME NEW t \in Calls, Carries(t, v, c), t # u
      PROVE  Told(v, c)'
  <2>1. t \in Threads
    BY DEF Threads
  <2>2. carried'[t] = carried[t]
    <3>1. CASE Repeat(u)
      <4>1. PICK w \in 0..version : carried' = [carried EXCEPT ![u] = w]
        BY <3>1 DEF Repeat
      <4> QED BY <2>1, <4>1, <1>4 DEF StreamTypeOK
    <3>2. CASE ~Repeat(u)
      BY <2>1, <3>2, <1>4 DEF StreamTypeOK, Change, GiveUp, Broadcast, Publish
    <3> QED BY <3>1, <3>2
  <2>3. todo'[t] = todo[t] /\ pc'[t] = pc[t]
    BY <2>1, <1>4 DEF StreamTypeOK, Change, Repeat, GiveUp, Broadcast, Publish, Goto
  <2>4. Carries(t, v, c)'
    BY <1>4, <2>2, <2>3 DEF Carries
  <2> QED BY <2>4 DEF Told
<1>5. ASSUME Carries(u, v, c)
      PROVE  Told(v, c)'
  <2>1. CASE Broadcast(u)
    <3>1. InstanceOf[u] = i => c \in todo'[u]
      BY <1>1, <2>1 DEF Broadcast, StreamTypeOK, Room, Waits, Informed
    <3>2. Carries(u, v, c)'
      BY <1>5, <2>1, <3>1 DEF Broadcast, Goto, Carries, StreamTypeOK
    <3> QED BY <3>2 DEF Told
  <2>2. CASE GiveUp(u)
    <3>1. v \in silent'[i]
      BY <1>1, <1>5, <2>2 DEF GiveUp, Carries, StreamTypeOK
    <3> QED BY <3>1 DEF Told
  <2>3. CASE Publish(u)
    <3> DEFINE message == [source |-> SourceId[InstanceOf[u]], version |-> carried[u]]
    <3>1. carried[u] = v /\ InstanceOf[u] # i /\ InstanceOf[u] \in Instances
      BY <1>5, <2>3, CallsHub DEF Publish, Goto, Carries
    <3>2. PICK reached \in SUBSET Instances :
            /\ inbox' = [j \in Instances |-> IF j \in reached THEN Append(inbox[j], message)
                                             ELSE inbox[j]]
            /\ silent' = [j \in Instances |->
                            IF j \in reached \/ j = InstanceOf[u] THEN silent[j]
                            ELSE silent[j] \cup {carried[u]}]
      BY <2>3 DEF Publish
    <3>3. CASE i \in reached
      <4>1. inbox[i] \in Seq(Messages)
        BY <1>1 DEF StreamTypeOK, Messages
      <4>2. message \in Messages
        BY <1>1, <3>1 DEF StreamTypeOK, Messages
      <4>3. /\ Append(inbox[i], message)[Len(inbox[i]) + 1] = message
            /\ Len(Append(inbox[i], message)) = Len(inbox[i]) + 1
            /\ Len(inbox[i]) \in Nat
        BY <4>1, <4>2, AppendProperties, LenProperties
      <4>4. message.version = v /\ ShouldForward(i, message)
        BY <1>1, <3>1 DEF ShouldForward, OwnIds
      <4> HIDE DEF message
      <4>5. inbox'[i] = Append(inbox[i], message)
        BY <1>1, <3>2, <3>3
      <4>6. PICK n \in 1..Len(inbox'[i]) : n = Len(inbox[i]) + 1
        BY <4>3, <4>5
      <4>7. Holds(n, v, c)'
        BY <4>3, <4>4, <4>5, <4>6 DEF Holds, ShouldForward
      <4> QED BY <4>7 DEF Told
    <3>4. CASE i \notin reached
      <4>1. v \in silent'[i]
        BY <1>1, <3>1, <3>2, <3>4
      <4> QED BY <4>1 DEF Told
    <3> QED BY <3>3, <3>4
  <2>4. ~Change(u) /\ ~Repeat(u)
    BY <1>5 DEF Change, Repeat, Goto, Carries
  <2> QED BY <2>1, <2>2, <2>3, <2>4
<1>6. ASSUME NEW n \in 1..Len(inbox[i]), Holds(n, v, c)
      PROVE  Told(v, c)'
  <2>1. inbox[i] \in Seq(Messages)
    BY <1>1 DEF StreamTypeOK, Messages
  <2>2. \/ inbox'[i] = inbox[i]
        \/ \E m \in Messages : inbox'[i] = Append(inbox[i], m)
    <3>1. CASE Publish(u)
      <4> DEFINE message == [source |-> SourceId[InstanceOf[u]], version |-> carried[u]]
      <4>1. message \in Messages
        BY CallsHub, <1>1 DEF StreamTypeOK, Messages
      <4> HIDE DEF message
      <4>2. PICK reached \in SUBSET Instances :
              inbox' = [j \in Instances |-> IF j \in reached THEN Append(inbox[j], message)
                                            ELSE inbox[j]]
        BY <3>1 DEF Publish, message
      <4> QED BY <1>1, <4>1, <4>2
    <3>2. CASE ~Publish(u)
      BY <3>2 DEF Change, Repeat, GiveUp, Broadcast
    <3> QED BY <3>1, <3>2
  <2>3. inbox'[i][n] = inbox[i][n] /\ n \in 1..Len(inbox'[i])
    <3>1. CASE inbox'[i] = inbox[i]
      BY <3>1
    <3>2. ASSUME NEW m \in Messages, inbox'[i] = Append(inbox[i], m)
          PROVE  inbox'[i][n] = inbox[i][n] /\ n \in 1..Len(inbox'[i])
      BY <2>1, <3>2, AppendProperties, LenProperties
    <3> QED BY <2>2, <3>1, <3>2
  <2>4. Holds(n, v, c)'
    BY <1>6, <2>3 DEF Holds, ShouldForward
  <2> QED BY <2>3, <2>4 DEF Told
<1>7. ASSUME Forwards(v, c)
      PROVE  Told(v, c)'
  <2>1. carried'[i] = carried[i]
    <3>1. CASE Repeat(u)
      <4>1. PICK w \in 0..version : carried' = [carried EXCEPT ![u] = w]
        BY <3>1 DEF Repeat
      <4> QED BY <1>1, <4>1 DEF StreamTypeOK
    <3>2. CASE ~Repeat(u)
      BY <1>1, <3>2 DEF StreamTypeOK, Change, GiveUp, Broadcast, Publish
    <3> QED BY <3>1, <3>2
  <2>2. todo'[i] = todo[i]
    BY <1>1 DEF StreamTypeOK, Change, Repeat, GiveUp, Broadcast, Publish
  <2>3. Forwards(v, c)'
    BY <1>7, <2>1, <2>2 DEF Forwards
  <2> QED BY <2>3 DEF Told
<1> QED BY <1>3, <1>4, <1>5, <1>6, <1>7 DEF Told

LEMMA ForwardKeepsNews ==
  ASSUME StreamTypeOK, NEW j \in Instances, Forward(j),
         NEW c \in Clients, Waits(c), NEW v \in Nat, Told(v, c)
  PROVE  Told(v, c)'
<1> DEFINE i == InstanceOf[c]
<1>1. /\ i \in Instances /\ i \in Threads /\ j \in Threads /\ j \notin Calls
      /\ UNCHANGED <<pc, silent>>
  BY StreamAssumption DEF Threads, Forward
<1>2. CASE v \in silent[i]
  BY <1>1, <1>2 DEF Told
<1>3. ASSUME NEW t \in Calls, Carries(t, v, c)
      PROVE  Told(v, c)'
  <2>1. t \in Threads /\ t # j
    BY <1>1 DEF Threads
  <2>2. carried'[t] = carried[t] /\ todo'[t] = todo[t]
    BY <1>1, <2>1 DEF Forward, StreamTypeOK
  <2>3. Carries(t, v, c)'
    BY <1>1, <1>3, <2>2 DEF Carries
  <2> QED BY <2>3 DEF Told
<1>4. ASSUME NEW n \in 1..Len(inbox[i]), Holds(n, v, c)
      PROVE  Told(v, c)'
  <2>1. inbox[i] \in Seq(Messages) /\ inbox[i] # <<>>
    <3>1. inbox[i] \in Seq(Messages)
      BY <1>1 DEF StreamTypeOK, Messages
    <3>2. inbox[i] = <<>> => Len(inbox[i]) = 0
      OBVIOUS
    <3> QED BY <3>1, <3>2
  <2>2. CASE j # i
    <3>1. inbox'[i] = inbox[i]
      BY <1>1, <2>2 DEF Forward, StreamTypeOK
    <3>2. Holds(n, v, c)'
      BY <1>4, <3>1 DEF Holds, ShouldForward
    <3> QED BY <3>1, <3>2 DEF Told
  <2>3. CASE j = i /\ n = 1
    <3>1. Head(inbox[i]) = inbox[i][1]
      BY <2>1, HeadTailProperties
    <3>2. ShouldForward(i, Head(inbox[i])) /\ Head(inbox[i]).version = v
      BY <1>4, <2>3, <3>1 DEF Holds
    <3>3. todo' = [todo EXCEPT ![i] = Room(i)] /\ carried' = [carried EXCEPT ![i] = v]
      BY <2>3, <3>2 DEF Forward
    <3>4. c \in Room(i)
      BY DEF Room, Waits, Informed
    <3>5. Forwards(v, c)'
      BY <1>1, <3>3, <3>4 DEF Forwards, StreamTypeOK
    <3> QED BY <3>5 DEF Told
  <2>4. CASE j = i /\ n # 1
    <3>1. inbox'[i] = Tail(inbox[i])
      BY <1>1, <2>4 DEF Forward, StreamTypeOK
    <3>2. /\ Len(inbox[i]) \in Nat
          /\ Len(Tail(inbox[i])) = Len(inbox[i]) - 1
          /\ \A m \in 1..Len(Tail(inbox[i])) : Tail(inbox[i])[m] = inbox[i][m + 1]
      BY <2>1, HeadTailProperties, LenProperties
    <3>3. n - 1 \in 1..Len(inbox'[i]) /\ inbox'[i][n - 1] = inbox[i][n]
      BY <2>4, <3>1, <3>2
    <3>4. Holds(n - 1, v, c)'
      BY <1>4, <3>3 DEF Holds, ShouldForward
    <3> QED BY <3>3, <3>4 DEF Told
  <2> QED BY <2>2, <2>3, <2>4
<1>5. ASSUME Forwards(v, c)
      PROVE  Told(v, c)'
  <2>1. j # i
    BY <1>5 DEF Forwards, Forward
  <2>2. carried'[i] = carried[i] /\ todo'[i] = todo[i]
    BY <1>1, <2>1 DEF Forward, StreamTypeOK
  <2>3. Forwards(v, c)'
    BY <1>5, <2>2 DEF Forwards
  <2> QED BY <2>3 DEF Told
<1> QED BY <1>2, <1>3, <1>4, <1>5 DEF Told

(* An offer to a waiting page leaves an event in its channel.              *)
LEMMA OfferKeepsNews ==
  ASSUME StreamTypeOK, NEW u \in Threads, NEW d \in Clients, Offer(u, d),
         NEW c \in Clients, Waits(c)', NEW v \in Nat, Told(v, c)
  PROVE  Told(v, c)'
<1> DEFINE i == InstanceOf[c]
<1>1. d # c
  <2>1. queue[d] \in Seq(Nat) /\ carried[u] \in Nat
    BY DEF StreamTypeOK
  <2>2. Append(queue[d], carried[u]) # <<>> /\ (queue[d] = <<>> => Len(queue[d]) = 0)
    BY <2>1, AppendNotEmpty
  <2>3. queue'[d] # <<>>
    BY <2>1, <2>2, StreamAssumption DEF Offer, StreamTypeOK
  <2> QED BY <2>3 DEF Waits
<1>2. /\ i \in Threads
      /\ UNCHANGED <<pc, carried, silent, inbox>>
      /\ \A t \in Threads : c \in todo[t] => c \in todo'[t]
  BY <1>1, StreamAssumption DEF Threads, Offer, StreamTypeOK, callVars
<1> QED BY <1>2 DEF Told, Carries, Holds, Forwards, ShouldForward, Threads

LEMMA NewsKeeps ==
  ASSUME StreamTypeOK, OwnIds, NoMissedNews, [Next]_vars
  PROVE  NoMissedNews'
<1> SUFFICES ASSUME NEW c \in Clients, Waits(c)',
                    NEW v \in (Newest(c)' + 1)..version'
             PROVE  Told(v, c)'
  BY NewsParts DEF NoMissedNews, OnItsWay, Waits, Told, Carries, Holds, Forwards
<1>1. /\ version \in Nat /\ version' \in Nat
      /\ Newest(c) \in Nat /\ Newest(c)' \in Nat
      /\ v \in Nat
  <2>1. StreamTypeOK'
    BY TypeKeeps
  <2>2. version \in Nat /\ version' \in Nat /\ Newest(c) \in Nat /\ Newest(c)' \in Nat
    BY <2>1 DEF StreamTypeOK, Newest
  <2> QED BY <2>2
<1>2. Waits(c) /\ v \in (Newest(c) + 1)..version => Told(v, c)
  BY NewsParts
<1>3. CASE UNCHANGED vars
  BY <1>2, <1>3 DEF vars, callVars, clientVars, pageVars, workVars, Waits, Informed, Newest,
        Told, Carries, Holds, Forwards, ShouldForward
<1>4. ASSUME NEW u \in Calls,
             Change(u) \/ Repeat(u) \/ GiveUp(u) \/ Broadcast(u) \/ Publish(u)
      PROVE  Told(v, c)'
  <2>1. Waits(c) /\ Newest(c)' = Newest(c)
    BY <1>4 DEF Change, Repeat, GiveUp, Broadcast, Publish, clientVars, pageVars, workVars,
       Waits, Informed, Newest
  <2>2. CASE v <= version
    BY <1>1, <1>2, <1>4, <2>1, <2>2, CallKeepsNews
  <2>3. CASE ~(v <= version)
    <3>1. Change(u)
      BY <1>1, <1>4, <2>3 DEF Repeat, GiveUp, Broadcast, Publish
    <3>2. v = version + 1 /\ u \in Threads
      BY <1>1, <2>3, <3>1 DEF Change, Threads
    <3>3. Carries(u, v, c)'
      BY <3>1, <3>2 DEF Change, Goto, Carries, StreamTypeOK
    <3> QED BY <3>3 DEF Told
  <2> QED BY <2>2, <2>3
<1>5. ASSUME NEW j \in Instances, Forward(j)
      PROVE  Told(v, c)'
  <2>1. Waits(c) /\ Newest(c)' = Newest(c) /\ version' = version
    BY <1>5 DEF Forward, clientVars, pageVars, workVars, Waits, Informed, Newest
  <2> QED BY <1>1, <1>2, <1>5, <2>1, ForwardKeepsNews
<1>6. ASSUME NEW u \in Threads, NEW d \in Clients, Offer(u, d)
      PROVE  Told(v, c)'
  <2>1. Informed(c)' = Informed(c) /\ Newest(c)' = Newest(c) /\ version' = version
    BY <1>6 DEF Offer, clientVars, pageVars, workVars, Informed, Newest
  <2>2. queue[c] = <<>>
    <3>1. queue[d] \in Seq(Nat) /\ carried[u] \in Nat
      BY DEF StreamTypeOK
    <3>2. Append(queue[d], carried[u]) # <<>>
      BY <3>1, AppendNotEmpty
    <3>3. queue'[c] = queue[c] \/ (c = d /\ queue'[c] = Append(queue[d], carried[u]))
      BY <1>6 DEF Offer, StreamTypeOK
    <3> QED BY <3>2, <3>3 DEF Waits
  <2>3. Told(v, c)
    BY <1>1, <1>2, <2>1, <2>2 DEF Waits
  <2> QED BY <1>1, <1>6, <2>3, OfferKeepsNews
<1>7. ASSUME NEW d \in Clients,
             \/ Subscribe(d) \/ Hello(d) \/ Take(d) \/ Personalize(d) \/ Write(d)
             \/ Leave(d) \/ Notice(d) \/ Unsubscribe(d)
      PROVE  Told(v, c)'
  <2>1. UNCHANGED <<version, pc, carried, todo, inbox, silent>>
    BY <1>7 DEF Subscribe, Hello, Take, Personalize, Write, Leave, Notice, Unsubscribe,
       callVars
  <2>2. Told(v, c) => Told(v, c)'
    BY <2>1 DEF Told, Carries, Holds, Forwards, ShouldForward
  <2>3. CASE c = d /\ (Hello(c) \/ Personalize(c))
    <3>1. \/ phase'[c] = "writing" /\ read'[c] = TRUE /\ taken'[c] = version
          \/ phase'[c] = "writing" /\ read'[c] = FALSE
          \/ phase'[c] = "waiting" /\ fresh'[c] = FALSE
      BY <2>3 DEF Hello, Personalize, Snapshot, WorkOn, Moves, StreamTypeOK
    <3>2. Newest(c)' = version
      BY <3>1 DEF Waits, Informed, Newest
    <3> QED BY <1>1, <2>1, <3>2
  <2>4. CASE c = d /\ Write(c)
    <3>1. /\ phase[c] = "writing" /\ phase'[c] = "waiting" /\ queue' = queue
          /\ shown'[c] = taken[c] /\ fresh'[c] = read[c]
      BY <2>4 DEF Write, Send, Moves, StreamTypeOK
    <3>2. Waits(c) /\ Newest(c)' = Newest(c)
      BY <3>1 DEF Waits, Informed, Newest
    <3> QED BY <1>1, <1>2, <2>1, <2>2, <3>2
  <2>5. CASE c = d /\ (Subscribe(c) \/ Take(c) \/ Notice(c) \/ Unsubscribe(c))
    <3>1. phase'[c] \in {"joined", "woken", "leaving", "left"}
      BY <2>5 DEF Subscribe, Take, Notice, Unsubscribe, Moves, StreamTypeOK
    <3> QED BY <3>1 DEF Waits, Informed
  <2>6. CASE c # d \/ Leave(d)
    <3>1. phase'[c] = phase[c] /\ queue'[c] = queue[c]
      BY <1>7, <2>6 DEF Subscribe, Hello, Take, Personalize, Write, Leave, Notice, Unsubscribe,
            Moves, StreamTypeOK
    <3>2. shown'[c] = shown[c] /\ fresh'[c] = fresh[c]
      BY <1>7, <2>6 DEF Subscribe, Hello, Take, Personalize, Write, Leave, Notice, Unsubscribe,
            Send, StreamTypeOK, pageVars
    <3>3. taken'[c] = taken[c] /\ read'[c] = read[c]
      BY <1>7, <2>6, OthersKeepWork
    <3> QED BY <1>1, <1>2, <2>1, <2>2, <3>1, <3>2, <3>3 DEF Waits, Informed, Newest
  <2> QED BY <1>7, <2>3, <2>4, <2>5, <2>6
<1> QED BY StepCases, <1>3, <1>4, <1>5, <1>6, <1>7

(* A waiting page misses no version, when every instance has an id of its  *)
(* own (hub.go:72-82, server.go:238-317, redis_bus.go:36-91).              *)
THEOREM NoNewsIsMissed == OwnIds /\ Spec => []NoMissedNews
<1> SUFFICES ASSUME OwnIds
             PROVE  Spec => []NoMissedNews
  OBVIOUS
<1>1. Init => StreamTypeOK /\ NoMissedNews
  BY TypeInit DEF Init, NoMissedNews, Informed
<1>2. StreamTypeOK /\ NoMissedNews /\ [Next]_vars => (StreamTypeOK /\ NoMissedNews)'
  BY TypeKeeps, NewsKeeps
<1> QED BY <1>1, <1>2, PTL DEF Spec

-----------------------------------------------------------------------------
(* The feed every page follows *)

LEMMA CallKeepsNoneAhead ==
  ASSUME StreamTypeOK, NoneAhead, NEW u \in Calls,
         Change(u) \/ Repeat(u) \/ GiveUp(u) \/ Broadcast(u) \/ Publish(u)
  PROVE  NoneAhead'
<1>1. u \in Threads /\ InstanceOf[u] \in Instances /\ version \in Nat
      /\ carried \in [Threads -> Nat] /\ carried[u] <= version
  BY CallsHub DEF StreamTypeOK, NoneAhead
<1>2. version' \in Nat /\ version <= version'
  BY <1>1 DEF Change, Repeat, GiveUp, Broadcast, Publish
<1>3. \A t \in Threads : carried'[t] <= version'
  <2>1. CASE Repeat(u)
    <3>1. PICK w \in 0..version : carried' = [carried EXCEPT ![u] = w]
      BY <2>1 DEF Repeat
    <3> QED BY <1>1, <1>2, <2>1, <3>1 DEF Repeat, NoneAhead
  <2>2. CASE ~Repeat(u)
    BY <1>1, <1>2, <2>2 DEF Change, GiveUp, Broadcast, Publish, NoneAhead
  <2> QED BY <2>1, <2>2
<1>4. \A i \in Instances : \A n \in 1..Len(inbox'[i]) : inbox'[i][n].version <= version'
  <2>1. ASSUME NEW i \in Instances, NEW n \in 1..Len(inbox[i])
        PROVE  inbox[i][n].version \in Nat /\ inbox[i][n].version <= version
    <3>1. inbox[i] \in Seq(Messages)
      BY DEF StreamTypeOK, Messages
    <3>2. inbox[i][n] \in Messages
      BY <3>1, ElementOfSeq, LenProperties
    <3> QED BY <3>2 DEF Messages, NoneAhead
  <2>2. CASE Publish(u)
    <3> SUFFICES ASSUME NEW i \in Instances, NEW n \in 1..Len(inbox'[i])
                 PROVE  inbox'[i][n].version <= version
      BY <2>2 DEF Publish
    <3> DEFINE message == [source |-> SourceId[InstanceOf[u]], version |-> carried[u]]
    <3>1. message \in Messages /\ message.version <= version
      BY <1>1 DEF Messages
    <3> HIDE DEF message
    <3>2. PICK reached \in SUBSET Instances :
            inbox' = [j \in Instances |-> IF j \in reached THEN Append(inbox[j], message)
                                          ELSE inbox[j]]
      BY <2>2 DEF Publish, message
    <3>3. inbox[i] \in Seq(Messages)
      BY DEF StreamTypeOK, Messages
    <3>4. /\ Len(inbox[i]) \in Nat
          /\ Len(Append(inbox[i], message)) = Len(inbox[i]) + 1
          /\ Append(inbox[i], message)[Len(inbox[i]) + 1] = message
          /\ \A m \in 1..Len(inbox[i]) : Append(inbox[i], message)[m] = inbox[i][m]
      BY <3>1, <3>3, AppendProperties, LenProperties
    <3>5. CASE i \in reached
      <4>1. inbox'[i] = Append(inbox[i], message)
        BY <3>2, <3>5
      <4>2. n \in 1..Len(inbox[i]) \/ n = Len(inbox[i]) + 1
        BY <3>4, <4>1
      <4> QED BY <2>1, <3>1, <3>4, <4>1, <4>2
    <3>6. CASE i \notin reached
      BY <2>1, <3>2, <3>6
    <3> QED BY <3>5, <3>6
  <2>3. CASE ~Publish(u)
    <3>1. inbox' = inbox
      BY <2>3 DEF Change, Repeat, GiveUp, Broadcast
    <3> QED BY <1>1, <1>2, <2>1, <3>1
  <2> QED BY <2>2, <2>3
<1>5. UNCHANGED <<queue, taken, shown, since>>
  BY DEF Change, Repeat, GiveUp, Broadcast, Publish, clientVars, pageVars, workVars
<1>6. \A c \in Clients : \A n \in 1..Len(queue'[c]) : queue'[c][n] <= version'
  <2>1. ASSUME NEW c \in Clients, NEW n \in 1..Len(queue[c])
        PROVE  queue[c][n] \in Nat
    BY LenProperties, ElementOfSeq DEF StreamTypeOK
  <2> QED BY <1>1, <1>2, <1>5, <2>1 DEF NoneAhead
<1>7. \A c \in Clients : taken'[c] <= version' /\ shown'[c] <= version' /\ since'[c] <= version'
  BY <1>1, <1>2, <1>5 DEF NoneAhead, StreamTypeOK
<1> QED BY <1>3, <1>4, <1>6, <1>7 DEF NoneAhead

LEMMA ForwardKeepsNoneAhead ==
  ASSUME StreamTypeOK, NoneAhead, NEW i \in Instances, Forward(i)
  PROVE  NoneAhead'
<1>1. i \in Threads /\ UNCHANGED <<version, queue, taken, shown, since>>
  BY DEF Threads, Forward, clientVars, pageVars, workVars
<1>2. inbox[i] \in Seq(Messages) /\ inbox[i] # <<>>
  BY DEF StreamTypeOK, Messages, Forward
<1>3. /\ Len(inbox[i]) \in Nat /\ Len(inbox[i]) >= 1
      /\ Head(inbox[i]) = inbox[i][1]
      /\ Len(Tail(inbox[i])) = Len(inbox[i]) - 1
      /\ \A m \in 1..Len(Tail(inbox[i])) : Tail(inbox[i])[m] = inbox[i][m + 1]
  BY <1>2, HeadTailProperties, LenProperties, EmptySeq
<1>4. Head(inbox[i]).version <= version
  BY <1>3 DEF NoneAhead
<1>5. \A t \in Threads : carried'[t] <= version'
  BY <1>1, <1>4 DEF Forward, StreamTypeOK, NoneAhead
<1>6. \A j \in Instances : \A n \in 1..Len(inbox'[j]) : inbox'[j][n].version <= version'
  <2> SUFFICES ASSUME NEW j \in Instances, NEW n \in 1..Len(inbox'[j])
               PROVE  inbox'[j][n].version <= version
    BY <1>1
  <2>1. CASE j = i
    <3>1. inbox'[i] = Tail(inbox[i])
      BY DEF Forward, StreamTypeOK
    <3>2. n + 1 \in 1..Len(inbox[i]) /\ inbox'[i][n] = inbox[i][n + 1]
      BY <1>3, <2>1, <3>1
    <3> QED BY <2>1, <3>2 DEF NoneAhead
  <2>2. CASE j # i
    BY <2>2 DEF Forward, StreamTypeOK, NoneAhead
  <2> QED BY <2>1, <2>2
<1> QED BY <1>1, <1>5, <1>6 DEF NoneAhead

LEMMA OfferKeepsNoneAhead ==
  ASSUME StreamTypeOK, NoneAhead, NEW t \in Threads, NEW c \in Clients, Offer(t, c)
  PROVE  NoneAhead'
<1>1. UNCHANGED <<version, carried, inbox, taken, shown, since>>
  BY DEF Offer, callVars, clientVars, pageVars, workVars
<1>2. queue[c] \in Seq(Nat) /\ carried[t] \in Nat /\ carried[t] <= version
  BY DEF StreamTypeOK, NoneAhead
<1>3. /\ Len(queue[c]) \in Nat
      /\ Len(Append(queue[c], carried[t])) = Len(queue[c]) + 1
      /\ Append(queue[c], carried[t])[Len(queue[c]) + 1] = carried[t]
      /\ \A m \in 1..Len(queue[c]) : Append(queue[c], carried[t])[m] = queue[c][m]
  BY <1>2, AppendProperties, LenProperties
<1>4. ASSUME NEW d \in Clients, NEW n \in 1..Len(queue'[d])
      PROVE  queue'[d][n] <= version
  <2>1. CASE queue'[d] = queue[d]
    BY <1>4, <2>1 DEF NoneAhead
  <2>2. CASE d = c /\ queue'[d] = Append(queue[c], carried[t])
    <3>1. n \in 1..Len(queue[c]) \/ n = Len(queue[c]) + 1
      BY <1>3, <2>2
    <3> QED BY <1>2, <1>3, <2>2, <3>1 DEF NoneAhead
  <2> QED BY <2>1, <2>2 DEF Offer, StreamTypeOK
<1> QED BY <1>1, <1>4 DEF NoneAhead

LEMMA HandlerKeepsNoneAhead ==
  ASSUME StreamTypeOK, NoneAhead, NEW c \in Clients,
         \/ Subscribe(c) \/ Hello(c) \/ Take(c) \/ Personalize(c) \/ Write(c)
         \/ Leave(c) \/ Notice(c) \/ Unsubscribe(c)
  PROVE  NoneAhead'
<1>1. UNCHANGED <<version, carried, inbox>> /\ version \in Nat
  BY DEF StreamTypeOK, Subscribe, Hello, Take, Personalize, Write, Leave, Notice, Unsubscribe,
     callVars
<1>2. \A d \in Clients : shown'[d] <= version /\ since'[d] <= version
  <2>1. CASE Write(c)
    BY <1>1, <2>1 DEF Write, Send, StreamTypeOK, NoneAhead
  <2>2. CASE ~Write(c)
    BY <2>2 DEF Subscribe, Hello, Take, Personalize, Leave, Notice, Unsubscribe, pageVars,
       NoneAhead
  <2> QED BY <2>1, <2>2
<1>3. /\ \A d \in Clients : \A n \in 1..Len(queue'[d]) : queue'[d][n] <= version
      /\ Take(c) => Head(queue[c]) <= version
  <2>1. CASE Take(c)
    <3>1. queue[c] \in Seq(Nat) /\ queue[c] # <<>>
      BY <2>1 DEF StreamTypeOK, Take
    <3>2. /\ Len(queue[c]) \in Nat /\ Len(queue[c]) >= 1
          /\ Head(queue[c]) = queue[c][1]
          /\ Len(Tail(queue[c])) = Len(queue[c]) - 1
          /\ \A m \in 1..Len(Tail(queue[c])) : Tail(queue[c])[m] = queue[c][m + 1]
      BY <3>1, HeadTailProperties, LenProperties, EmptySeq
    <3>3. Head(queue[c]) <= version
      BY <3>2 DEF NoneAhead
    <3>4. ASSUME NEW d \in Clients, NEW n \in 1..Len(queue'[d])
          PROVE  queue'[d][n] <= version
      <4>1. CASE d = c
        <5>1. queue'[c] = Tail(queue[c])
          BY <2>1 DEF Take, StreamTypeOK
        <5>2. n + 1 \in 1..Len(queue[c]) /\ queue'[c][n] = queue[c][n + 1]
          BY <3>2, <4>1, <5>1
        <5> QED BY <4>1, <5>2 DEF NoneAhead
      <4>2. CASE d # c
        BY <2>1, <4>2 DEF Take, StreamTypeOK, NoneAhead
      <4> QED BY <4>1, <4>2
    <3> QED BY <3>3, <3>4
  <2>2. CASE Unsubscribe(c) /\ ~Take(c)
    <3>1. Len(<<>>) = 0
      OBVIOUS
    <3> QED BY <2>2, <3>1 DEF Unsubscribe, StreamTypeOK, NoneAhead
  <2>3. CASE ~Take(c) /\ ~Unsubscribe(c)
    <3>1. queue' = queue
      BY <2>3 DEF Subscribe, Hello, Personalize, Write, Leave, Notice
    <3> QED BY <2>3, <3>1 DEF NoneAhead
  <2> QED BY <2>1, <2>2, <2>3
<1>4. \A d \in Clients : taken'[d] <= version
  <2>1. taken' = taken \/ \E w \in {version, 0, taken[c], Head(queue[c])} :
          taken' = [taken EXCEPT ![c] = w] /\ (w = Head(queue[c]) => w <= version)
    BY <1>1, <1>3, WorkCases DEF WorkOn, NoneAhead
  <2>2. CASE taken' = taken
    BY <2>2 DEF NoneAhead
  <2>3. ASSUME NEW w \in {version, 0, taken[c], Head(queue[c])},
               taken' = [taken EXCEPT ![c] = w], w = Head(queue[c]) => w <= version
        PROVE  \A d \in Clients : taken'[d] <= version
    <3>1. w <= version
      BY <1>1, <2>3 DEF NoneAhead
    <3> QED BY <2>3, <3>1 DEF NoneAhead, StreamTypeOK
  <2> QED BY <2>1, <2>2, <2>3
<1> QED BY <1>1, <1>2, <1>3, <1>4 DEF NoneAhead

LEMMA NoneAheadKeeps ==
  ASSUME StreamTypeOK, NoneAhead, [Next]_vars
  PROVE  NoneAhead'
<1>1. CASE UNCHANGED vars
  BY <1>1 DEF NoneAhead, vars, callVars, clientVars, pageVars, workVars
<1> QED BY StepCases, CallKeepsNoneAhead, ForwardKeepsNoneAhead, OfferKeepsNoneAhead,
           HandlerKeepsNoneAhead, <1>1

LEMMA ReadSinceKeeps ==
  ASSUME StreamTypeOK, NoneAhead, ReadSince, [Next]_vars
  PROVE  ReadSince'
<1> SUFFICES ASSUME NEW c \in Clients, phase'[c] = "writing", read'[c]
             PROVE  since'[c] <= taken'[c]
  BY DEF ReadSince
<1>1. phase[c] = "writing" /\ read[c] => since[c] <= taken[c]
  BY DEF ReadSince
<1>2. CASE UNCHANGED <<phase, read, since, taken>>
  BY <1>1, <1>2
<1>3. ASSUME NEW d \in Clients,
             \/ Subscribe(d) \/ Hello(d) \/ Take(d) \/ Personalize(d) \/ Write(d)
             \/ Leave(d) \/ Notice(d) \/ Unsubscribe(d)
      PROVE  since'[c] <= taken'[c]
  <2>1. CASE c = d /\ (Hello(d) \/ Personalize(d))
    <3>1. taken'[c] = version /\ since' = since
      BY <2>1 DEF Hello, Personalize, Snapshot, WorkOn, Moves, StreamTypeOK, pageVars, workVars
    <3> QED BY <3>1 DEF NoneAhead
  <2>2. CASE c = d /\ ~Leave(d) /\ ~Hello(d) /\ ~Personalize(d)
    <3>1. phase'[c] # "writing"
      BY <1>3, <2>2 DEF Subscribe, Take, Write, Notice, Unsubscribe, Moves, StreamTypeOK
    <3> QED BY <3>1
  <2>3. CASE c # d \/ Leave(d)
    <3>1. phase'[c] = phase[c]
      BY <1>3, <2>3 DEF Subscribe, Hello, Take, Personalize, Write, Leave, Notice, Unsubscribe,
            Moves, StreamTypeOK
    <3>2. since'[c] = since[c]
      BY <1>3, <2>3 DEF Subscribe, Hello, Take, Personalize, Write, Leave, Notice, Unsubscribe,
            Send, StreamTypeOK, pageVars
    <3>3. taken'[c] = taken[c] /\ read'[c] = read[c]
      BY <1>3, <2>3, OthersKeepWork
    <3> QED BY <1>1, <3>1, <3>2, <3>3
  <2> QED BY <2>1, <2>2, <2>3
<1>4. ASSUME NEW t \in Calls,
             Change(t) \/ Repeat(t) \/ GiveUp(t) \/ Broadcast(t) \/ Publish(t)
      PROVE  UNCHANGED <<phase, read, since, taken>>
  BY <1>4 DEF Change, Repeat, GiveUp, Broadcast, Publish, clientVars, pageVars, workVars
<1>5. ASSUME NEW i \in Instances, Forward(i)
      PROVE  UNCHANGED <<phase, read, since, taken>>
  BY <1>5 DEF Forward, clientVars, pageVars, workVars
<1>6. ASSUME NEW t \in Threads, NEW d \in Clients, Offer(t, d)
      PROVE  UNCHANGED <<phase, read, since, taken>>
  BY <1>6 DEF Offer, clientVars, pageVars, workVars
<1>7. CASE UNCHANGED vars
  BY <1>2, <1>7 DEF vars, clientVars, pageVars, workVars
<1> QED BY StepCases, <1>2, <1>3, <1>4, <1>5, <1>6, <1>7

LEMMA StepFollowsFeed ==
  ASSUME StreamTypeOK, NoneAhead, ReadSince, [Next]_vars
  PROVE  [PageFeed!FeedNext]_(PageFeed!feedVars)
<1>1. CASE UNCHANGED vars
  BY <1>1 DEF vars, clientVars, pageVars, PageFeed!feedVars
<1>2. ASSUME NEW t \in Calls,
             Change(t) \/ Repeat(t) \/ GiveUp(t) \/ Broadcast(t) \/ Publish(t)
      PROVE  [PageFeed!FeedNext]_(PageFeed!feedVars)
  BY <1>2 DEF Change, Repeat, GiveUp, Broadcast, Publish, clientVars, pageVars,
              PageFeed!feedVars, PageFeed!FeedNext, PageFeed!Advance
<1>3. ASSUME NEW i \in Instances, Forward(i)
      PROVE  UNCHANGED PageFeed!feedVars
  BY <1>3 DEF Forward, clientVars, pageVars, PageFeed!feedVars
<1>4. ASSUME NEW t \in Threads, NEW c \in Clients, Offer(t, c)
      PROVE  UNCHANGED PageFeed!feedVars
  BY <1>4 DEF Offer, clientVars, pageVars, PageFeed!feedVars
<1>5. ASSUME NEW c \in Clients,
             \/ Subscribe(c) \/ Hello(c) \/ Take(c) \/ Personalize(c) \/ Write(c)
             \/ Leave(c) \/ Notice(c) \/ Unsubscribe(c)
      PROVE  [PageFeed!FeedNext]_(PageFeed!feedVars)
  <2>1. CASE Write(c)
    <3>1. version' = version /\ phase[c] = "writing" /\ Send(c, taken[c], read[c])
      BY <2>1 DEF Write, Moves
    <3>2. /\ version \in Nat /\ since[c] \in Nat /\ taken[c] \in Nat /\ read[c] \in BOOLEAN
          /\ taken[c] <= version
      BY DEF StreamTypeOK, NoneAhead
    <3>3. CASE read[c] = TRUE
      <4>1. taken[c] \in since[c]..version
        BY <3>1, <3>2, <3>3 DEF ReadSince
      <4>2. PageFeed!Show(c)
        BY <3>1, <3>3, <4>1 DEF Send, PageFeed!Show, PageFeed!Sent
      <4> QED BY <4>2 DEF PageFeed!FeedNext
    <3>4. CASE read[c] = FALSE
      <4>1. taken[c] \in 0..version
        BY <3>2
      <4>2. PageFeed!ShowStale(c)
        BY <3>1, <3>4, <4>1 DEF Send, PageFeed!ShowStale, PageFeed!Sent
      <4> QED BY <4>2 DEF PageFeed!FeedNext
    <3> QED BY <3>2, <3>3, <3>4
  <2>2. CASE Hello(c)
    <3>1. CASE UNCHANGED fresh
      BY <2>2, <3>1 DEF Hello, PageFeed!feedVars
    <3>2. CASE fresh' = [fresh EXCEPT ![c] = FALSE]
      BY <2>2, <3>2 DEF Hello, PageFeed!FeedNext, PageFeed!ShowNothing
    <3> QED BY <2>2, <3>1, <3>2 DEF Hello
  <2>3. CASE ~Write(c) /\ ~Hello(c)
    BY <1>5, <2>3 DEF Subscribe, Take, Personalize, Leave, Notice, Unsubscribe, pageVars,
       PageFeed!feedVars
  <2> QED BY <2>1, <2>2, <2>3
<1> QED BY StepCases, <1>1, <1>2, <1>3, <1>4, <1>5

(* What a page is sent was read after it was last sent something, or a     *)
(* read failed, with any number of instances and any mixture of lost,      *)
(* reordered and made-up events (server.go:238-317).                       *)
THEOREM StreamFollowsFeed == Spec => FollowsFeed
<1>1. Init => StreamTypeOK /\ NoneAhead /\ ReadSince /\ PageFeed!FeedInit
  <2> SUFFICES ASSUME Init
               PROVE  NoneAhead /\ ReadSince /\ PageFeed!FeedInit
    BY TypeInit
  <2>1. Len(<<>>) = 0
    OBVIOUS
  <2> QED BY <2>1 DEF Init, NoneAhead, ReadSince, PageFeed!FeedInit
<1>2. StreamTypeOK /\ NoneAhead /\ ReadSince /\ [Next]_vars
        => (StreamTypeOK /\ NoneAhead /\ ReadSince)'
  BY TypeKeeps, NoneAheadKeeps, ReadSinceKeeps
<1>3. StreamTypeOK /\ NoneAhead /\ ReadSince /\ [Next]_vars
        => [PageFeed!FeedNext]_(PageFeed!feedVars)
  BY StepFollowsFeed
<1> QED BY <1>1, <1>2, <1>3, PTL DEF Spec, FollowsFeed, PageFeed!FeedSpec

-----------------------------------------------------------------------------
(* When nothing is on its way *)

(* Every call has returned or was never made, every event was offered and  *)
(* forwarded.                                                              *)
NothingOnItsWay ==
  /\ \A t \in Calls : pc[t] \in {"idle", "done"}
  /\ \A t \in Threads : todo[t] = {}
  /\ \A i \in Instances : inbox[i] = <<>>

(* The safety that RoomConverges rests on: once nothing is on its way, a   *)
(* waiting page lacks only versions nobody was told of (server.go:255).    *)
RestsUpToDate ==
  NothingOnItsWay =>
    \A c \in Clients : phase[c] = "waiting" /\ fresh[c] /\ queue[c] = <<>> =>
      (shown[c] + 1)..version \subseteq silent[InstanceOf[c]]

(* While nothing fails no version is kept silent and every read succeeds.  *)
NothingSilent ==
  /\ \A i \in Instances : silent[i] = {}
  /\ \A c \in Clients : fresh[c] /\ (phase[c] = "writing" => read[c])

(* ... and then a waiting page shows the newest snapshot of the store.     *)
RestsAtNewest ==
  NothingOnItsWay =>
    \A c \in Clients : phase[c] = "waiting" /\ queue[c] = <<>> => shown[c] = version

LEMMA AtRestNothingIsMissed ==
  ASSUME NoMissedNews
  PROVE  RestsUpToDate
<1> SUFFICES ASSUME NothingOnItsWay, NEW c \in Clients,
                    phase[c] = "waiting", fresh[c], queue[c] = <<>>,
                    NEW v \in (shown[c] + 1)..version
             PROVE  v \in silent[InstanceOf[c]]
  BY DEF RestsUpToDate
<1>1. InstanceOf[c] \in Instances /\ InstanceOf[c] \in Threads
  BY StreamAssumption DEF Threads
<1>2. inbox[InstanceOf[c]] = <<>> /\ Len(<<>>) = 0
  BY <1>1 DEF NothingOnItsWay
<1>3. ~ \E n \in 1..Len(inbox[InstanceOf[c]]) :
          inbox[InstanceOf[c]][n].version = v
            /\ ShouldForward(InstanceOf[c], inbox[InstanceOf[c]][n])
  BY <1>2
<1>4. ~ \E t \in Calls :
          /\ carried[t] = v
          /\ \/ pc[t] = "changed"
             \/ pc[t] = "sending" /\ (InstanceOf[t] = InstanceOf[c] => c \in todo[t])
  BY DEF NothingOnItsWay
<1>5. ~(carried[InstanceOf[c]] = v /\ c \in todo[InstanceOf[c]])
  BY <1>1 DEF NothingOnItsWay
<1>6. ~OnItsWay(v, c)
  BY <1>3, <1>4, <1>5 DEF OnItsWay
<1> QED BY <1>6 DEF NoMissedNews, Informed, Newest

LEMMA NothingSilentKeeps ==
  ASSUME StreamTypeOK, Failures = {}, NothingSilent, [Next]_vars
  PROVE  NothingSilent'
<1>1. CASE UNCHANGED vars
  BY <1>1 DEF NothingSilent, vars, clientVars, pageVars, workVars
<1>2. ASSUME NEW t \in Calls,
             Change(t) \/ Repeat(t) \/ GiveUp(t) \/ Broadcast(t) \/ Publish(t)
      PROVE  NothingSilent'
  <2>1. UNCHANGED <<fresh, phase, read>>
    BY <1>2 DEF Change, Repeat, GiveUp, Broadcast, Publish, clientVars, pageVars, workVars
  <2>2. CASE Publish(t)
    <3>1. PICK reached \in SUBSET Instances :
            /\ reached = Instances
            /\ silent' = [i \in Instances |->
                            IF i \in reached \/ i = InstanceOf[t] THEN silent[i]
                            ELSE silent[i] \cup {carried[t]}]
      BY <2>2 DEF Publish
    <3> QED BY <2>1, <3>1 DEF NothingSilent
  <2>3. CASE ~Publish(t)
    BY <1>2, <2>1, <2>3 DEF NothingSilent, Change, Repeat, GiveUp, Broadcast
  <2> QED BY <2>2, <2>3
<1>3. ASSUME NEW i \in Instances, Forward(i)
      PROVE  NothingSilent'
  BY <1>3 DEF NothingSilent, Forward, clientVars, pageVars, workVars
<1>4. ASSUME NEW t \in Threads, NEW c \in Clients, Offer(t, c)
      PROVE  NothingSilent'
  BY <1>4 DEF NothingSilent, Offer, clientVars, pageVars, workVars
<1>5. ASSUME NEW c \in Clients,
             \/ Subscribe(c) \/ Hello(c) \/ Take(c) \/ Personalize(c) \/ Write(c)
             \/ Leave(c) \/ Notice(c) \/ Unsubscribe(c)
      PROVE  NothingSilent'
  <2>1. silent' = silent
    BY <1>5 DEF Subscribe, Hello, Take, Personalize, Write, Leave, Notice, Unsubscribe
  <2>2. CASE Write(c)
    <3>1. read[c] = TRUE
      BY <2>2 DEF Write, Moves, NothingSilent, StreamTypeOK
    <3>2. \A d \in Clients : fresh'[d] = TRUE
      BY <2>2, <3>1 DEF Write, Send, NothingSilent, StreamTypeOK
    <3>3. \A d \in Clients : phase'[d] = "writing" => phase[d] = "writing" /\ read'[d] = read[d]
      BY <2>2 DEF Write, Moves, WorkOn, StreamTypeOK
    <3> QED BY <2>1, <3>2, <3>3 DEF NothingSilent
  <2>3. CASE Hello(c) \/ Personalize(c)
    <3>1. fresh' = fresh /\ read'[c] = TRUE
      BY <2>3 DEF Hello, Personalize, Snapshot, WorkOn, StreamTypeOK, pageVars
    <3>2. \A d \in Clients : d # c => phase'[d] = phase[d] /\ read'[d] = read[d]
      BY <2>3 DEF Hello, Personalize, Snapshot, WorkOn, Moves, StreamTypeOK
    <3> QED BY <2>1, <3>1, <3>2 DEF NothingSilent
  <2>4. CASE ~Write(c) /\ ~Hello(c) /\ ~Personalize(c)
    <3>1. fresh' = fresh
      BY <1>5, <2>4 DEF Subscribe, Take, Leave, Notice, Unsubscribe, pageVars
    <3>2. \A d \in Clients : phase'[d] = "writing" => phase[d] = "writing" /\ read'[d] = read[d]
      BY <1>5, <2>4 DEF Subscribe, Take, Leave, Notice, Unsubscribe, Moves, WorkOn,
         StreamTypeOK, workVars
    <3> QED BY <2>1, <3>1, <3>2 DEF NothingSilent
  <2> QED BY <2>2, <2>3, <2>4
<1> QED BY StepCases, <1>1, <1>2, <1>3, <1>4, <1>5

(* At rest a page lacks only versions nobody was told of, for any number   *)
(* of instances with ids of their own, any capacity and all failures       *)
(* (hub.go:72-82, server.go:238-317, redis_bus.go:36-91).                  *)
THEOREM AlwaysRestsUpToDate == OwnIds /\ Spec => []RestsUpToDate
<1>1. NoMissedNews => RestsUpToDate
  BY AtRestNothingIsMissed
<1> QED BY <1>1, NoNewsIsMissed, PTL

(* At rest, if nothing failed, every page that waits shows the newest      *)
(* snapshot, however many events were dropped, overtook each other or came *)
(* twice (hub.go:72-82, server.go:238-317, redis_bus.go:36-91).            *)
THEOREM AlwaysRestsAtNewest == OwnIds /\ Failures = {} /\ Spec => []RestsAtNewest
<1> SUFFICES ASSUME OwnIds, Failures = {}
             PROVE  Spec => []RestsAtNewest
  OBVIOUS
<1>1. Init => StreamTypeOK /\ NothingSilent /\ NoneAhead
  <2> SUFFICES ASSUME Init
               PROVE  NothingSilent /\ NoneAhead
    BY TypeInit
  <2>1. Len(<<>>) = 0
    OBVIOUS
  <2> QED BY <2>1 DEF Init, NothingSilent, NoneAhead
<1>2. StreamTypeOK /\ NothingSilent /\ NoneAhead /\ [Next]_vars
        => (StreamTypeOK /\ NothingSilent /\ NoneAhead)'
  BY TypeKeeps, NothingSilentKeeps, NoneAheadKeeps
<1>3. StreamTypeOK /\ NothingSilent /\ NoneAhead /\ RestsUpToDate => RestsAtNewest
  <2> SUFFICES ASSUME StreamTypeOK, NothingSilent, NoneAhead, RestsUpToDate,
                      NothingOnItsWay, NEW c \in Clients,
                      phase[c] = "waiting", queue[c] = <<>>
               PROVE  shown[c] = version
    BY DEF RestsAtNewest
  <2>1. InstanceOf[c] \in Instances
    BY StreamAssumption
  <2>2. (shown[c] + 1)..version = {}
    BY <2>1 DEF RestsUpToDate, NothingSilent
  <2>3. shown[c] \in Nat /\ version \in Nat /\ shown[c] <= version
    BY DEF StreamTypeOK, NoneAhead
  <2> QED BY <2>2, <2>3
<1>4. Spec => []RestsUpToDate
  BY AlwaysRestsUpToDate
<1> QED BY <1>1, <1>2, <1>3, <1>4, PTL DEF Spec

=============================================================================
