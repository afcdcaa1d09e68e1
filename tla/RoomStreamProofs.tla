--------------------------- MODULE RoomStreamProofs ---------------------------
(***************************************************************************)
(* Proofs about RoomStream for any set of users and any bounds: its types, *)
(* that the counter never falls behind a client, that each connection      *)
(* hydrates its client, and that whoever dropped nothing agrees with the   *)
(* RoomState when everything has come to rest.                             *)
(***************************************************************************)
EXTENDS RoomStream, SequenceTheorems, TLAPS

-----------------------------------------------------------------------------
(* What a write does to the stream.                                        *)

StreamOK ==
    /\ seq \in 0..MaxSeq
    /\ sending \in [Sender -> [message : Message, rest : SUBSET User]]
    /\ link \in [User -> Seq(Message)]

\* What every broadcast and every write of one leaves of the stream: no socket loses
\* a message, and a new one is numbered by the counter or earlier.
Grows ==
    /\ seq <= seq'
    /\ \A u \in User :
          \/ link'[u] = link[u]
          \/ u \in open /\ \E m \in Message : m.seq <= seq' /\ link'[u] = Append(link[u], m)
    /\ \A s \in Sender :
          \/ sending'[s] = sending[s]
          \/ sending'[s].rest = {}
          \/ sending'[s].rest \subseteq open /\ sending'[s].message.seq <= seq'

LEMMA IdleType == Idle \in [message : Message, rest : SUBSET User]
BY BoundsAssumption DEF Idle, Nothing, Message, Body

LEMMA DeliverGrows ==
    ASSUME StreamOK, NEW s \in Sender, NEW message \in Message, NEW to \in SUBSET open,
           open \subseteq User, seq' \in 0..MaxSeq, seq <= seq', message.seq <= seq',
           Deliver(s, message, to)
    PROVE  StreamOK' /\ Grows
<1>1. PICK v \in to :
        /\ link' = [link EXCEPT ![v] = Append(@, message)]
        /\ sending' = [sending EXCEPT ![s] =
              IF to = {v} THEN Idle ELSE [message |-> message, rest |-> to \ {v}]]
  BY DEF Deliver
<1>2. v \in User /\ v \in open
  OBVIOUS
<1>3. Append(link[v], message) \in Seq(Message)
  BY <1>2 DEF StreamOK
<1>4. link' \in [User -> Seq(Message)]
  BY <1>1, <1>2, <1>3 DEF StreamOK
<1>5. [message |-> message, rest |-> to \ {v}] \in [message : Message, rest : SUBSET User]
  OBVIOUS
<1>6. sending' \in [Sender -> [message : Message, rest : SUBSET User]]
  BY <1>1, <1>5, IdleType DEF StreamOK
<1>7. \A u \in User :
          \/ link'[u] = link[u]
          \/ u \in open /\ \E m \in Message : m.seq <= seq' /\ link'[u] = Append(link[u], m)
  BY <1>1, <1>2 DEF StreamOK
<1>8. \A r \in Sender :
          \/ sending'[r] = sending[r]
          \/ sending'[r].rest = {}
          \/ sending'[r].rest \subseteq open /\ sending'[r].message.seq <= seq'
  <2> TAKE r \in Sender
  <2>1. CASE r # s
    BY <1>1, <2>1 DEF StreamOK
  <2>2. CASE r = s /\ to = {v}
    BY <1>1, <2>2 DEF StreamOK, Idle
  <2>3. CASE r = s /\ to # {v}
    BY <1>1, <2>3 DEF StreamOK
  <2> QED
    BY <2>1, <2>2, <2>3
<1> QED
  BY <1>4, <1>6, <1>7, <1>8 DEF StreamOK, Grows

LEMMA BroadcastGrows ==
    ASSUME StreamOK, NEW s \in Sender, NEW body \in Body, NEW connections, NEW to,
           open \subseteq User, Broadcast(s, body, connections, to)
    PROVE  StreamOK' /\ Grows
<1>1. CASE connections = {}
  BY <1>1 DEF Broadcast, stream, StreamOK, Grows
<1>2. CASE connections # {}
  <2>1. seq < MaxSeq /\ seq' = seq + 1 /\ seq' \in 0..MaxSeq
    BY <1>2, BoundsAssumption DEF Broadcast, StreamOK
  <2>2. CASE to \cap open = {}
    BY <1>2, <2>1, <2>2 DEF Broadcast, StreamOK, Grows
  <2>3. CASE to \cap open # {}
    <3>1. PICK m \in Message : m = [seq |-> seq + 1, body |-> body]
      BY <2>1 DEF Message
    <3>2. PICK t \in SUBSET open : t = to \cap open
      OBVIOUS
    <3>3. m.seq <= seq' /\ seq <= seq'
      BY <2>1, <3>1 DEF StreamOK
    <3>4. Deliver(s, m, t)
      BY <1>2, <2>3, <3>1, <3>2 DEF Broadcast
    <3> QED
      BY <2>1, <3>3, <3>4, DeliverGrows
  <2> QED
    BY <2>2, <2>3
<1> QED
  BY <1>1, <1>2

-----------------------------------------------------------------------------
(* Types.                                                                  *)

\* TypeOK but for the stream.
RestOK ==
    /\ dbVersion \in 0..MaxVersion
    /\ version \in 0..MaxVersion
    /\ playing \in BOOLEAN
    /\ closing \in BOOLEAN
    /\ rooms \in SUBSET User
    /\ joinedBefore \in SUBSET (User \X User)
    /\ pc \in [User -> HandlerState]
    /\ seen \in [User -> 0..MaxVersion]
    /\ open \in SUBSET User
    /\ lastSeq \in [User -> 0..MaxSeq]
    /\ fileVersion \in [User -> 0..MaxVersion]
    /\ snapshot \in [User -> [version : 0..MaxVersion, playing : BOOLEAN]]
    /\ hydrated \in SUBSET User
    /\ missed \in SUBSET User
    /\ late \in SUBSET User
    /\ torn \in BOOLEAN
    /\ events \in 0..MaxEvents

LEMMA TypeParts == TypeOK <=> RestOK /\ StreamOK
BY DEF TypeOK, RestOK, StreamOK

\* One more event is within the bound.
LEMMA OneMore ==
    ASSUME NEW n \in 0..MaxEvents, n < MaxEvents PROVE n + 1 \in 0..MaxEvents
  BY BoundsAssumption

\* Every step preserves the types of all but the stream.
LEMMA NextRestOK == ASSUME TypeOK, [Next]_vars PROVE RestOK'
<1> USE HostAssumption, BoundsAssumption
    DEF TypeOK, RestOK, HandlerState, roomState, registry, client, history, Goto
<1>1. ASSUME NEW u \in User, Connect(u) PROVE RestOK'
  <2>1. rooms' \in SUBSET User /\ joinedBefore' \in SUBSET (User \X User)
    BY <1>1 DEF Connect
  <2>2. pc' \in [User -> HandlerState] /\ open' \in SUBSET User
    BY <1>1 DEF Connect
  <2>3. lastSeq' \in [User -> 0..MaxSeq]
    BY <1>1 DEF Connect, OnOpen
  <2>4. UNCHANGED << dbVersion, roomState, seen, fileVersion, snapshot, events, history >>
    BY <1>1 DEF Connect
  <2> QED
    BY <2>1, <2>2, <2>3, <2>4
<1>2. ASSUME NEW u \in User, LoadRoomInfo(u) PROVE RestOK'
  BY <1>2 DEF LoadRoomInfo
<1>3. ASSUME NEW u \in User, Resume(u) PROVE RestOK'
  BY <1>3 DEF Resume
<1>4. ASSUME NEW u \in User, Greet(u) PROVE RestOK'
  BY <1>4 DEF Greet
<1>5. ASSUME NEW u \in User, Announce(u) PROVE RestOK'
  BY <1>5 DEF Announce
<1>6. ASSUME NEW u \in User, Resync(u) PROVE RestOK'
  BY <1>6 DEF Resync
<1>7. ASSUME NEW u \in User, CheckControl(u) \/ RejectControl(u) PROVE RestOK'
  BY <1>7 DEF CheckControl, RejectControl
<1>8. ASSUME NEW u \in User, NEW play \in BOOLEAN, Control(u, play) PROVE RestOK'
  BY <1>8 DEF Control
<1>9. ASSUME NEW u \in User, Finally(u) PROVE RestOK'
  <2>1. version' \in 0..MaxVersion /\ playing' \in BOOLEAN /\ closing' \in BOOLEAN
    <3>1. CASE Forget
      <4>1. version' = 0 /\ playing' = FALSE /\ closing' = FALSE
        BY <3>1 DEF Forget
      <4>2. 0 \in 0..MaxVersion
        OBVIOUS
      <4> QED
        BY <4>1, <4>2
    <3>2. CASE Remaining(u) /\ u = Host
      <4>1. version' = version /\ playing' = (closing /\ playing) /\ closing' = TRUE
        BY <3>2 DEF Remaining
      <4> QED
        BY <4>1
    <3>3. CASE Remaining(u) /\ u # Host
      BY <3>3 DEF Remaining
    <3> QED
      BY <1>9, <3>1, <3>2, <3>3 DEF Finally
  <2>2. /\ rooms' \in SUBSET User
        /\ joinedBefore' \in SUBSET (User \X User)
        /\ pc' \in [User -> HandlerState]
    BY <1>9 DEF Finally, Others
  <2> QED
    BY <1>9, <2>1, <2>2 DEF Finally
<1>10. ASSUME NEW u \in User, Part(u) PROVE RestOK'
  BY <1>10 DEF Part
<1>11. ASSUME NEW u \in User, Lose(u) PROVE RestOK'
  <2>1. events' \in 0..MaxEvents
    <3>1. events < MaxEvents /\ events' = events + 1
      BY <1>11 DEF Lose
    <3> QED
      BY <3>1, OneMore
  <2>2. /\ open' \in SUBSET User /\ hydrated' \in SUBSET User /\ missed' \in SUBSET User
        /\ UNCHANGED << dbVersion, roomState, registry, pc, seen, client, late, torn >>
    BY <1>11 DEF Lose
  <2> QED
    BY <2>1, <2>2
<1>12. ASSUME NEW u \in User, Receive(u) PROVE RestOK'
  <2>1. Head(link[u]) \in Message
    BY <1>12 DEF Receive
  <2>2. PICK m \in Message : m = Head(link[u])
    BY <2>1
  <2>3. /\ m.seq \in 0..MaxSeq /\ m.body.version \in 0..MaxVersion
        /\ m.body.playing \in BOOLEAN
    BY DEF Message, Body
  <2>4. CASE Accepts(u, m)
    <3>1. lastSeq' = [lastSeq EXCEPT ![u] = m.seq] /\ Apply(u, m.body)
      BY <1>12, <2>2, <2>4 DEF Receive
    <3>2. lastSeq' \in [User -> 0..MaxSeq]
      BY <2>3, <3>1
    <3>3. fileVersion' \in [User -> 0..MaxVersion]
      BY <2>3, <3>1 DEF Apply
    <3>4. snapshot' \in [User -> [version : 0..MaxVersion, playing : BOOLEAN]]
      <4>1. [version |-> m.body.version, playing |-> m.body.playing]
               \in [version : 0..MaxVersion, playing : BOOLEAN]
        BY <2>3
      <4> QED
        BY <3>1, <4>1 DEF Apply
    <3>5. hydrated' \in SUBSET User
      BY <3>1 DEF Apply
    <3>6. UNCHANGED << dbVersion, roomState, registry, pc, seen, open, events, late, torn,
                      missed >>
      BY <1>12, <2>2, <2>4 DEF Receive
    <3> QED
      BY <3>2, <3>3, <3>4, <3>5, <3>6
  <2>5. CASE ~Accepts(u, m)
    BY <1>12, <2>2, <2>5 DEF Receive
  <2> QED
    BY <2>4, <2>5
<1>13. ASSUME ChangeCommit PROVE RestOK'
  <2>1. dbVersion + 1 \in 0..MaxVersion
    <3>1. dbVersion \in 0..MaxVersion /\ dbVersion < MaxVersion
      BY <1>13 DEF ChangeCommit
    <3> QED
      BY <3>1, BoundsAssumption
  <2>2. dbVersion' = dbVersion + 1 /\ seen' = [seen EXCEPT ![Host] = dbVersion + 1]
    BY <1>13 DEF ChangeCommit
  <2>3. seen' \in [User -> 0..MaxVersion]
    BY <2>1, <2>2
  <2>4. /\ pc' \in [User -> HandlerState]
        /\ UNCHANGED << roomState, registry, open, client, events, history >>
    BY <1>13 DEF ChangeCommit
  <2> QED
    BY <2>1, <2>2, <2>3, <2>4
<1>14. ASSUME ChangePublish PROVE RestOK'
  BY <1>14 DEF ChangePublish
<1>15. ASSUME ChangeTell PROVE RestOK'
  BY <1>15 DEF ChangeTell
<1>16. ASSUME Beat PROVE RestOK'
  BY <1>16 DEF Beat
<1>17. ASSUME NEW s \in Sender, SendNext(s) PROVE RestOK'
  BY <1>17 DEF SendNext
<1>18. ASSUME NEW u \in User, VerifyRead(u) PROVE RestOK'
  <2>1. events' \in 0..MaxEvents
    <3>1. events < MaxEvents /\ events' = events + 1
      BY <1>18 DEF VerifyRead
    <3> QED
      BY <3>1, OneMore
  <2>2. /\ seen' \in [User -> 0..MaxVersion] /\ pc' \in [User -> HandlerState]
        /\ UNCHANGED << dbVersion, roomState, registry, open, client, history >>
    BY <1>18 DEF VerifyRead
  <2> QED
    BY <2>1, <2>2
<1>19. ASSUME NEW u \in User, VerifyMatch(u) PROVE RestOK'
  BY <1>19 DEF VerifyMatch
<1>20. ASSUME NEW u \in User, VerifyMismatch(u) PROVE RestOK'
  BY <1>20 DEF VerifyMismatch
<1>21. CASE UNCHANGED vars
  BY <1>21 DEF vars
<1> QED
  BY <1>1, <1>2, <1>3, <1>4, <1>5, <1>6, <1>7, <1>8, <1>9, <1>10, <1>11, <1>12,
     <1>13, <1>14, <1>15, <1>16, <1>17, <1>18, <1>19, <1>20, <1>21 DEF Next, HandlerStep

\* The contents of the messages that are sent.
LEMMA BodyTypes ==
    ASSUME TypeOK
    PROVE  /\ Nothing \in Body
           /\ \A v \in 0..MaxVersion : /\ FileChanged(v) \in Body /\ Verified(v) \in Body
                                       /\ Snapshot(v) \in Body
           /\ version' \in 0..MaxVersion /\ playing' \in BOOLEAN => SyncState \in Body
           /\ version' \in 0..MaxVersion => Autopause \in Body
<1>1. Nothing \in Body
  BY BoundsAssumption DEF Nothing, Body
<1>2. ASSUME NEW v \in 0..MaxVersion
      PROVE  FileChanged(v) \in Body /\ Verified(v) \in Body
  BY DEF FileChanged, Verified, Body
<1>3. ASSUME NEW v \in 0..MaxVersion PROVE Snapshot(v) \in Body
  BY DEF TypeOK, Snapshot, Body
<1>4. ASSUME version' \in 0..MaxVersion, playing' \in BOOLEAN PROVE SyncState \in Body
  BY <1>4 DEF SyncState, Body
<1>5. ASSUME version' \in 0..MaxVersion PROVE Autopause \in Body
  BY <1>5 DEF Autopause, Body
<1> QED
  BY <1>1, <1>2, <1>3, <1>4, <1>5

\* The steps that send, and those that leave the stream alone.
Sends ==
    \/ UNCHANGED stream
    \/ \E s \in Sender : Busy(s) /\ Deliver(s, sending[s].message, sending[s].rest) /\ seq' = seq
    \/ \E s \in Sender, body \in Body : \E connections, to \in SUBSET User :
          Broadcast(s, body, connections, to)

LEMMA SenderType == User \subseteq Sender /\ Heartbeat \in Sender /\ Host \in Sender
BY HostAssumption DEF Sender

SendStep ==
    \/ \E u \in User : \/ Connect(u) \/ LoadRoomInfo(u) \/ Resume(u) \/ Greet(u)
                       \/ Announce(u) \/ Resync(u) \/ Part(u)
                       \/ CheckControl(u) \/ RejectControl(u)
                       \/ VerifyRead(u) \/ VerifyMatch(u) \/ VerifyMismatch(u)
                       \/ \E play \in BOOLEAN : Control(u, play)
    \/ ChangeCommit \/ ChangePublish \/ ChangeTell
    \/ Beat
    \/ \E s \in Sender : SendNext(s)

\* Each step but the loss of a connection, the last disconnect and the reading of a
\* message sends or leaves the stream alone.
LEMMA StepSends ==
    ASSUME TypeOK, RestOK', SendStep
    PROVE  Sends
<1> USE SenderType, HostAssumption, BodyTypes
<1> rooms \in SUBSET User /\ \A u \in User : Others(u) \in SUBSET User /\ {u} \in SUBSET User
                                             /\ rooms \cap {u} \in SUBSET User
  BY DEF TypeOK, Others
<1> \A u \in User : seen[u] \in 0..MaxVersion
  BY DEF TypeOK
<1> SyncState \in Body
  BY DEF RestOK
<1>1. ASSUME NEW u \in User,
             \/ Connect(u) \/ LoadRoomInfo(u) \/ CheckControl(u) \/ RejectControl(u)
             \/ VerifyRead(u)
      PROVE  Sends
  BY <1>1 DEF Connect, LoadRoomInfo, CheckControl, RejectControl, VerifyRead, Sends
<1>2. ASSUME NEW u \in User, Resume(u) PROVE Sends
  <2>1. UNCHANGED stream \/ Broadcast(u, Nothing, rooms, rooms)
    BY <1>2 DEF Resume
  <2> QED
    BY <2>1 DEF Sends
<1>3. ASSUME NEW u \in User, Greet(u) PROVE Sends
  <2>1. Broadcast(u, Snapshot(seen[u]), rooms \cap {u}, {u})
    BY <1>3 DEF Greet, SendToUser
  <2> QED
    BY <2>1 DEF Sends
<1>4. ASSUME NEW u \in User, Announce(u) \/ Part(u) PROVE Sends
  <2>1. \/ Broadcast(u, Nothing, rooms, Others(u))
        \/ Broadcast(u, Nothing, rooms, rooms)
    BY <1>4 DEF Announce, Part
  <2> QED
    BY <2>1 DEF Sends
<1>5. ASSUME NEW u \in User, Resync(u) PROVE Sends
  <2>1. Broadcast(u, SyncState, rooms \cap {u}, {u})
    BY <1>5 DEF Resync, SendToUser
  <2> QED
    BY <2>1 DEF Sends
<1>6. ASSUME NEW u \in User, NEW play \in BOOLEAN, Control(u, play) PROVE Sends
  <2>1. Broadcast(u, SyncState, rooms, rooms)
    BY <1>6 DEF Control
  <2> QED
    BY <2>1 DEF Sends
<1>7. ASSUME ChangeCommit PROVE Sends
  BY <1>7 DEF ChangeCommit, Sends
<1>8. ASSUME ChangePublish PROVE Sends
  <2>1. Broadcast(Host, Verified(seen[Host]), rooms \cap {Host}, {Host})
    BY <1>8 DEF ChangePublish, SendToUser
  <2> QED
    BY <2>1 DEF Sends
<1>9. ASSUME ChangeTell PROVE Sends
  <2>1. Broadcast(Host, FileChanged(seen[Host]), rooms, Others(Host))
    BY <1>9 DEF ChangeTell
  <2> QED
    BY <2>1 DEF Sends
<1>10. ASSUME Beat PROVE Sends
  <2>1. Broadcast(Heartbeat, Nothing, rooms, rooms)
    BY <1>10 DEF Beat
  <2> QED
    BY <2>1 DEF Sends
<1>11. ASSUME NEW s \in Sender, SendNext(s) PROVE Sends
  BY <1>11 DEF SendNext, Sends
<1>12. ASSUME NEW u \in User, VerifyMatch(u) PROVE Sends
  <2>1. Broadcast(u, Verified(seen[u]), rooms \cap {u}, {u})
    BY <1>12 DEF VerifyMatch, SendToUser
  <2> QED
    BY <2>1 DEF Sends
<1>13. ASSUME NEW u \in User, VerifyMismatch(u) PROVE Sends
  <2>1. Broadcast(u, Nothing, rooms \cap {u}, {u})
    BY <1>13 DEF VerifyMismatch, SendToUser
  <2> QED
    BY <2>1 DEF Sends
<1> QED
  BY <1>1, <1>2, <1>3, <1>4, <1>5, <1>6, <1>7, <1>8, <1>9, <1>10, <1>11, <1>12, <1>13
  DEF SendStep

\* What Sends does to the stream.
LEMMA SendsGrows ==
    ASSUME StreamOK, open \subseteq User, \A s \in Sender : sending[s].rest \subseteq open,
           \A s \in Sender : Busy(s) => sending[s].message.seq <= seq,
           Sends
    PROVE  StreamOK' /\ Grows
<1>1. CASE UNCHANGED stream
  BY <1>1 DEF stream, StreamOK, Grows
<1>2. ASSUME NEW s \in Sender, Busy(s), Deliver(s, sending[s].message, sending[s].rest),
             seq' = seq
      PROVE  StreamOK' /\ Grows
  <2>1. PICK m \in Message, t \in SUBSET open : m = sending[s].message /\ t = sending[s].rest
    BY DEF StreamOK
  <2>2. Deliver(s, m, t) /\ m.seq <= seq'
    BY <1>2, <2>1
  <2>3. seq' \in 0..MaxSeq /\ seq <= seq'
    BY <1>2 DEF StreamOK
  <2> QED
    BY <2>2, <2>3, DeliverGrows
<1>3. ASSUME NEW s \in Sender, NEW body \in Body, NEW connections \in SUBSET User,
             NEW to \in SUBSET User, Broadcast(s, body, connections, to)
      PROVE  StreamOK' /\ Grows
  BY <1>3, BroadcastGrows
<1> QED
  BY <1>1, <1>2, <1>3 DEF Sends

-----------------------------------------------------------------------------
(* The invariant.                                                          *)

\* Only an open socket carries messages or is about to; it has an entry in rooms.
Attached ==
    /\ open \subseteq rooms
    /\ \A u \in User : u \notin open => link[u] = <<>>
    /\ \A s \in Sender : sending[s].rest \subseteq open

\* Every number around is one the counter has given out since it started.
Numbered ==
    /\ CounterIsAhead
    /\ \A u \in User : \A i \in 1..Len(link[u]) : link[u][i].seq <= seq
    /\ \A s \in Sender : Busy(s) => sending[s].message.seq <= seq

\* A room_state is on its way to the client, and neither what the client has seen nor
\* what is in front of it has a higher number.
Greeting(u, i) ==
    /\ link[u][i].body.type = "room_state"
    /\ lastSeq[u] < link[u][i].seq
    /\ \A j \in 1..(i - 1) : link[u][j].seq < link[u][i].seq

GreetingUnderway(u) == \E i \in 1..Len(link[u]) : Greeting(u, i)

\* The states of a handler that has sent room_state and serves the socket.
Greeted == {"announcing", "loop", "checked", "verifying", "publishing", "telling"}

Hydration ==
    \A u \in open : pc[u] \in Greeted => u \in hydrated \/ GreetingUnderway(u)

LEMMA GrowsPreserves ==
    ASSUME TypeOK, Attached, Numbered, StreamOK', Grows,
           open' = open, lastSeq' = lastSeq, open \subseteq rooms'
    PROVE  Attached' /\ Numbered'
<1> USE DEF TypeOK
<1>1. \A u \in User : u \notin open' => link'[u] = <<>>
  BY DEF Attached, Grows
<1>2. \A s \in Sender : sending'[s].rest \subseteq open'
  BY DEF Attached, Grows
<1>3. ASSUME NEW u \in open PROVE lastSeq'[u] <= seq'
  BY DEF Numbered, CounterIsAhead, Grows, StreamOK
<1>4. ASSUME NEW u \in User, NEW i \in 1..Len(link'[u]) PROVE link'[u][i].seq <= seq'
  <2>1. CASE link'[u] = link[u]
    <3>1. link[u][i] \in Message /\ link[u][i].seq <= seq
      BY <2>1 DEF Numbered
    <3> QED
      BY <2>1, <3>1 DEF Grows, StreamOK, Message
  <2>2. ASSUME NEW m \in Message, m.seq <= seq', link'[u] = Append(link[u], m)
        PROVE  link'[u][i].seq <= seq'
    <3>1. CASE i = Len(link[u]) + 1
      BY <2>2, <3>1
    <3>2. CASE i \in 1..Len(link[u])
      <4>1. link'[u][i] = link[u][i] /\ link[u][i] \in Message /\ link[u][i].seq <= seq
        BY <2>2, <3>2 DEF Numbered
      <4>2. seq <= seq' /\ seq \in Nat /\ seq' \in Nat /\ link[u][i].seq \in Nat
        BY <4>1 DEF Grows, StreamOK, Message
      <4> QED
        BY <4>1, <4>2
    <3> QED
      BY <2>2, <3>1, <3>2
  <2> QED
    BY <2>1, <2>2 DEF Grows
<1>5. ASSUME NEW s \in Sender, sending'[s].rest # {} PROVE sending'[s].message.seq <= seq'
  <2>1. CASE sending'[s] = sending[s]
    <3>1. sending[s].message \in Message /\ sending[s].message.seq <= seq
      BY <1>5, <2>1 DEF Numbered, Busy
    <3> QED
      BY <2>1, <3>1 DEF Grows, StreamOK, Message
  <2>2. CASE sending'[s] # sending[s]
    BY <1>5, <2>2 DEF Grows
  <2> QED
    BY <2>1, <2>2
<1> QED
  BY <1>1, <1>2, <1>3, <1>4, <1>5 DEF Attached, Numbered, CounterIsAhead, Busy

\* A room_state on its way stays in front of what is written later.
LEMMA GrowsKeepsGreeting ==
    ASSUME TypeOK, Grows, lastSeq' = lastSeq, NEW u \in User, GreetingUnderway(u)
    PROVE  GreetingUnderway(u)'
<1> USE DEF TypeOK
<1>1. PICK i \in 1..Len(link[u]) : Greeting(u, i)
  BY DEF GreetingUnderway
<1>2. CASE link'[u] = link[u]
  BY <1>1, <1>2 DEF Greeting, GreetingUnderway
<1>3. ASSUME NEW m \in Message, link'[u] = Append(link[u], m)
      PROVE  GreetingUnderway(u)'
  <2>1. /\ i \in 1..Len(link'[u])
        /\ \A j \in 1..i : link'[u][j] = link[u][j]
    BY <1>3
  <2>2. link'[u][i] = link[u][i] /\ \A j \in 1..(i - 1) : link'[u][j] = link[u][j]
    BY <2>1
  <2>3. Greeting(u, i)'
    BY <1>1, <2>2 DEF Greeting
  <2> QED
    BY <2>1, <2>3 DEF GreetingUnderway
<1> QED
  BY <1>2, <1>3 DEF Grows

-----------------------------------------------------------------------------
(* The invariant is preserved.                                             *)

Inv == TypeOK /\ Attached /\ Numbered

LEMMA InitInv == Init => Inv /\ Hydration
<1> SUFFICES ASSUME Init PROVE Inv /\ Hydration
  OBVIOUS
<1> USE BoundsAssumption DEF Init
<1>1. TypeOK
  <2>1. 0 \in 0..MaxSeq /\ 0 \in 0..MaxVersion /\ 0 \in 0..MaxEvents
    OBVIOUS
  <2>2. sending \in [Sender -> [message : Message, rest : SUBSET User]]
    BY IdleType
  <2>3. snapshot \in [User -> [version : 0..MaxVersion, playing : BOOLEAN]]
    BY <2>1
  <2>4. link \in [User -> Seq(Message)]
    OBVIOUS
  <2>5. dbVersion \in 0..MaxVersion
    OBVIOUS
  <2>6. pc \in [User -> HandlerState]
    BY DEF HandlerState
  <2>7. /\ seen \in [User -> 0..MaxVersion] /\ fileVersion \in [User -> 0..MaxVersion]
        /\ lastSeq \in [User -> 0..MaxSeq]
    BY <2>1
  <2>8. /\ version \in 0..MaxVersion /\ seq \in 0..MaxSeq /\ events \in 0..MaxEvents
    BY <2>1
  <2> QED
    BY <2>2, <2>3, <2>4, <2>5, <2>6, <2>7, <2>8 DEF TypeOK
<1>2. Attached
  BY DEF Attached, Idle
<1>3. Numbered
  BY DEF Numbered, CounterIsAhead, Busy, Idle
<1>4. Hydration
  BY DEF Hydration
<1> QED
  BY <1>1, <1>2, <1>3, <1>4 DEF Inv

\* What a sending step leaves alone, and what its handler may become.
LEMMA SendStepFrame ==
    ASSUME TypeOK, SendStep, \A u \in User : ~Connect(u)
    PROVE  UNCHANGED << open, lastSeq, rooms, hydrated >>
BY DEF SendStep, LoadRoomInfo, Resume, Greet, Announce, Resync, Part, CheckControl,
       RejectControl, Control, VerifyRead, VerifyMatch, VerifyMismatch, ChangeCommit,
       ChangePublish, ChangeTell, Beat, SendNext, registry, client, history

LEMMA SendStepInv ==
    ASSUME Inv, [Next]_vars, SendStep, \A u \in User : ~Connect(u)
    PROVE  Inv' /\ Grows
<1>1. TypeOK /\ StreamOK /\ Attached /\ Numbered
  BY TypeParts DEF Inv
<1>2. RestOK'
  BY <1>1, NextRestOK
<1>3. Sends
  BY <1>1, <1>2, StepSends
<1>4. open \subseteq User
  BY <1>1 DEF TypeOK
<1>5. StreamOK' /\ Grows
  BY <1>1, <1>3, <1>4, SendsGrows DEF Attached, Numbered
<1>6. UNCHANGED << open, lastSeq, rooms, hydrated >>
  BY <1>1, SendStepFrame
<1>7. Attached' /\ Numbered'
  BY <1>1, <1>5, <1>6, GrowsPreserves DEF Attached
<1>8. TypeOK'
  BY <1>2, <1>5 DEF TypeOK, RestOK, StreamOK
<1> QED
  BY <1>5, <1>7, <1>8 DEF Inv

LEMMA ConnectInv ==
    ASSUME Inv, [Next]_vars, NEW u \in User, Connect(u)
    PROVE  Inv'
<1> USE DEF Inv
<1>1. RestOK' /\ TypeOK
  BY NextRestOK
<1>2. UNCHANGED stream /\ open' = open \cup {u} /\ rooms' = rooms \cup {u}
  BY DEF Connect
<1>3. lastSeq' = [lastSeq EXCEPT ![u] = 0]
  BY DEF Connect, OnOpen
<1>4. TypeOK'
  BY <1>1, <1>2 DEF TypeOK, RestOK, stream
<1>5. Attached'
  BY <1>2 DEF Attached, stream
<1>6. CounterIsAhead'
  BY <1>1, <1>2, <1>3 DEF Numbered, CounterIsAhead, TypeOK, stream
<1>7. Numbered'
  BY <1>2, <1>6 DEF Numbered, Busy, stream
<1> QED
  BY <1>4, <1>5, <1>7

LEMMA FinallyInv ==
    ASSUME Inv, [Next]_vars, NEW u \in User, Finally(u)
    PROVE  Inv' /\ (open # {} => Grows) /\ UNCHANGED << open, lastSeq, hydrated >>
<1>1. TypeOK /\ StreamOK /\ Attached /\ Numbered
  BY TypeParts DEF Inv
<1>2. RestOK' /\ open \subseteq User
  BY <1>1, NextRestOK DEF TypeOK
<1>3. UNCHANGED << open, lastSeq, hydrated >> /\ rooms' = Others(u) /\ u \notin open
  BY DEF Finally, client, history
<1>4. open \subseteq rooms'
  BY <1>1, <1>3 DEF Attached, Others
<1>5. CASE Remaining(u)
  <2>1. Sends
    <3>1. \/ Broadcast(u, Autopause, Others(u), Others(u))
          \/ Broadcast(u, Nothing, Others(u), Others(u))
      BY <1>5 DEF Remaining
    <3>2. Autopause \in Body /\ Nothing \in Body
      BY <1>1, <1>2, BodyTypes DEF RestOK
    <3>3. u \in Sender /\ Others(u) \in SUBSET User
      BY <1>1, SenderType DEF Others, TypeOK
    <3> QED
      BY <3>1, <3>2, <3>3 DEF Sends
  <2>2. StreamOK' /\ Grows
    BY <1>1, <1>2, <2>1, SendsGrows DEF Attached, Numbered
  <2>3. Attached' /\ Numbered'
    BY <1>1, <1>3, <1>4, <2>2, GrowsPreserves
  <2>4. TypeOK'
    BY <1>2, <2>2 DEF TypeOK, RestOK, StreamOK
  <2> QED
    BY <1>3, <2>2, <2>3, <2>4 DEF Inv
<1>6. CASE Others(u) = {} /\ Forget
  <2>1. open = {} /\ open' = {}
    BY <1>3, <1>4, <1>6
  <2>2. seq' = 0 /\ sending' = sending /\ link' = link
    BY <1>6 DEF Forget
  <2>3. StreamOK'
    BY <1>1, <2>2, BoundsAssumption DEF StreamOK
  <2>4. TypeOK'
    BY <1>2, <2>3 DEF TypeOK, RestOK, StreamOK
  <2>5. Attached'
    BY <1>1, <2>1, <2>2 DEF Attached
  <2>6. \A v \in User : link'[v] = <<>>
    BY <1>1, <2>1, <2>2 DEF Attached
  <2>7. \A s \in Sender : ~Busy(s)'
    BY <1>1, <2>1, <2>2 DEF Attached, Busy
  <2>8. Numbered'
    BY <2>1, <2>6, <2>7 DEF Numbered, CounterIsAhead
  <2> QED
    BY <1>3, <2>1, <2>4, <2>5, <2>8 DEF Inv
<1> QED
  BY <1>5, <1>6 DEF Finally

LEMMA LoseInv ==
    ASSUME Inv, [Next]_vars, NEW u \in User, Lose(u)
    PROVE  Inv'
<1>1. TypeOK /\ Attached /\ Numbered /\ RestOK'
  BY NextRestOK DEF Inv
<1>2. /\ open' = open \ {u} /\ link' = [link EXCEPT ![u] = <<>>]
      /\ UNCHANGED << rooms, seq, lastSeq >>
  BY DEF Lose, registry, client
<1>3. \A s \in Sender :
         \/ sending'[s] = Idle
         \/ sending'[s] = [message |-> sending[s].message, rest |-> sending[s].rest \ {u}]
  <2>1. \A s \in Sender : sending'[s] =
          IF sending[s].rest \subseteq {u} THEN Idle
          ELSE [sending[s] EXCEPT !.rest = @ \ {u}]
    BY DEF Lose
  <2>2. \A s \in Sender : sending[s] \in [message : Message, rest : SUBSET User]
    BY <1>1 DEF TypeOK
  <2>3. \A e \in [message : Message, rest : SUBSET User] :
          [e EXCEPT !.rest = @ \ {u}] = [message |-> e.message, rest |-> e.rest \ {u}]
    OBVIOUS
  <2> QED
    BY <2>1, <2>2, <2>3
<1>4. \A s \in Sender :
          \/ sending'[s].rest = {}
          \/ /\ sending'[s].rest = sending[s].rest \ {u}
             /\ sending'[s].message = sending[s].message
  <2> TAKE s \in Sender
  <2>1. CASE sending'[s] = Idle
    BY <2>1 DEF Idle
  <2>2. CASE sending'[s] = [message |-> sending[s].message, rest |-> sending[s].rest \ {u}]
    BY <2>2
  <2> QED
    BY <1>3, <2>1, <2>2
<1>5. sending' \in [Sender -> [message : Message, rest : SUBSET User]]
  <2>1. ASSUME NEW s \in Sender
        PROVE  sending'[s] \in [message : Message, rest : SUBSET User]
    <3>1. sending[s].message \in Message /\ sending[s].rest \in SUBSET User
      BY <1>1 DEF TypeOK
    <3>2. [message |-> sending[s].message, rest |-> sending[s].rest \ {u}]
             \in [message : Message, rest : SUBSET User]
      BY <3>1
    <3> QED
      BY <1>3, <3>2, IdleType
  <2>2. sending' = [s \in Sender |-> sending'[s]]
    BY DEF Lose
  <2> QED
    BY <2>1, <2>2
<1>6. link' \in [User -> Seq(Message)]
  BY <1>1, <1>2 DEF TypeOK
<1>7. TypeOK'
  BY <1>1, <1>2, <1>5, <1>6 DEF TypeOK, RestOK
<1>8. Attached'
  <2>1. \A s \in Sender : sending'[s].rest \subseteq open'
    <3> TAKE s \in Sender
    <3>1. sending'[s].rest \subseteq sending[s].rest \ {u}
      BY <1>4
    <3> QED
      BY <1>1, <1>2, <3>1 DEF Attached
  <2>2. open' \subseteq rooms' /\ \A v \in User : v \notin open' => link'[v] = <<>>
    BY <1>1, <1>2 DEF Attached, TypeOK
  <2> QED
    BY <2>1, <2>2 DEF Attached
<1>9. Numbered'
  <2>1. CounterIsAhead'
    BY <1>1, <1>2 DEF Numbered, CounterIsAhead
  <2>2. \A v \in User : \A i \in 1..Len(link'[v]) : link'[v][i].seq <= seq'
    BY <1>1, <1>2 DEF Numbered, TypeOK
  <2>3. \A s \in Sender : Busy(s)' => sending'[s].message.seq <= seq'
    <3> TAKE s \in Sender
    <3> HAVE Busy(s)'
    <3>2. /\ sending'[s].message = sending[s].message
          /\ sending[s].rest # {}
      BY <1>4 DEF Busy
    <3> QED
      BY <1>1, <1>2, <3>2 DEF Numbered, Busy
  <2> QED
    BY <2>1, <2>2, <2>3 DEF Numbered
<1> QED
  BY <1>7, <1>8, <1>9 DEF Inv

LEMMA ReceiveInv ==
    ASSUME Inv, [Next]_vars, NEW u \in User, Receive(u)
    PROVE  Inv'
<1>1. TypeOK /\ Attached /\ Numbered /\ RestOK'
  BY NextRestOK DEF Inv
<1>2. /\ link[u] # <<>> /\ link' = [link EXCEPT ![u] = Tail(@)]
      /\ UNCHANGED << rooms, seq, sending, open >>
  BY DEF Receive, registry
<1>3. link[u] \in Seq(Message) /\ Tail(link[u]) \in Seq(Message) /\ 1 \in 1..Len(link[u])
  BY <1>1, <1>2 DEF TypeOK
<1>4. /\ Len(Tail(link[u])) = Len(link[u]) - 1
      /\ \A i \in 1..Len(Tail(link[u])) : Tail(link[u])[i] = link[u][i + 1]
  BY <1>2, <1>3, HeadTailProperties
<1>5. TypeOK'
  <2>1. link' \in [User -> Seq(Message)]
    BY <1>1, <1>2, <1>3 DEF TypeOK
  <2> QED
    BY <1>1, <1>2, <2>1 DEF TypeOK, RestOK
<1>6. Attached'
  BY <1>1, <1>2 DEF Attached, TypeOK
<1>7. CounterIsAhead'
  <2>1. Head(link[u]).seq <= seq
    BY <1>1, <1>3 DEF Numbered
  <2>2. lastSeq' = [lastSeq EXCEPT ![u] = Head(link[u]).seq] \/ lastSeq' = lastSeq
    BY DEF Receive, client
  <2> QED
    BY <1>1, <1>2, <2>1, <2>2 DEF Numbered, CounterIsAhead, TypeOK
<1>8. \A v \in User : \A i \in 1..Len(link'[v]) : link'[v][i].seq <= seq'
  <2> TAKE v \in User
  <2> TAKE i \in 1..Len(link'[v])
  <2>1. CASE v # u
    BY <1>1, <1>2, <2>1 DEF Numbered, TypeOK
  <2>2. CASE v = u
    <3>1. link'[u] = Tail(link[u])
      BY <1>1, <1>2 DEF TypeOK
    <3>2. link'[u][i] = link[u][i + 1] /\ i + 1 \in 1..Len(link[u])
      BY <1>3, <1>4, <2>2, <3>1
    <3> QED
      BY <1>1, <1>2, <2>2, <3>2 DEF Numbered
  <2> QED
    BY <2>1, <2>2
<1>9. Numbered'
  BY <1>1, <1>2, <1>7, <1>8 DEF Numbered, Busy
<1> QED
  BY <1>5, <1>6, <1>9 DEF Inv

\* The steps of the system, sorted for the proofs.
LEMMA NextCases ==
    ASSUME Next
    PROVE  \/ SendStep /\ \A u \in User : ~Connect(u)
           \/ \E u \in User : Connect(u) \/ Finally(u) \/ Lose(u) \/ Receive(u)
BY DEF Next, HandlerStep, SendStep

LEMMA NextInv == Inv /\ [Next]_vars => Inv'
<1> SUFFICES ASSUME Inv, [Next]_vars PROVE Inv'
  OBVIOUS
<1>1. CASE SendStep /\ \A u \in User : ~Connect(u)
  BY <1>1, SendStepInv
<1>2. ASSUME NEW u \in User, Connect(u) \/ Finally(u) \/ Lose(u) \/ Receive(u)
      PROVE  Inv'
  BY <1>2, ConnectInv, FinallyInv, LoseInv, ReceiveInv
<1>3. CASE UNCHANGED vars
  BY <1>3 DEF vars, roomState, registry, stream, client, history, Inv, TypeOK, Attached,
              Numbered, CounterIsAhead, Busy
<1> QED
  BY <1>1, <1>2, <1>3, NextCases

-----------------------------------------------------------------------------
(* Hydration.                                                              *)

\* Only Greet brings a handler among those that have greeted.
LEMMA GreetedFrom ==
    ASSUME TypeOK, SendStep, NEW u \in User, pc'[u] \in Greeted, pc[u] \notin Greeted
    PROVE  Greet(u)
<1> USE HostAssumption DEF TypeOK, Greeted, Goto
<1>1. ASSUME NEW v \in User,
             Connect(v) \/ LoadRoomInfo(v) \/ Resume(v) \/ Announce(v) \/ Part(v)
      PROVE  FALSE
  BY <1>1 DEF Connect, LoadRoomInfo, Resume, Announce, Part
<1>2. ASSUME NEW v \in User, \/ Resync(v) \/ CheckControl(v) \/ RejectControl(v)
                             \/ VerifyRead(v) \/ VerifyMatch(v) \/ VerifyMismatch(v)
      PROVE  FALSE
  BY <1>2 DEF Resync, CheckControl, RejectControl, VerifyRead, VerifyMatch, VerifyMismatch,
              Serving
<1>3. ASSUME NEW v \in User, NEW play \in BOOLEAN, Control(v, play) PROVE FALSE
  BY <1>3 DEF Control
<1>4. ASSUME ChangeCommit \/ ChangePublish \/ ChangeTell \/ Beat PROVE FALSE
  BY <1>4 DEF ChangeCommit, ChangePublish, ChangeTell, Beat, Serving
<1>5. ASSUME NEW s \in Sender, SendNext(s) PROVE FALSE
  BY <1>5 DEF SendNext
<1>6. ASSUME NEW v \in User, Greet(v) PROVE Greet(u)
  <2>1. v = u
    BY <1>6 DEF Greet
  <2> QED
    BY <1>6, <2>1
<1> QED
  BY <1>1, <1>2, <1>3, <1>4, <1>5, <1>6 DEF SendStep

\* room_state takes a number above all that is on the socket, and is written at once.
LEMMA GreetGreets ==
    ASSUME Inv, NEW u \in open, Greet(u)
    PROVE  GreetingUnderway(u)'
<1>1. TypeOK /\ Attached /\ Numbered /\ u \in User /\ u \in rooms
  BY DEF Inv, TypeOK, Attached
<1> DEFINE n == Len(link[u])
<1>2. PICK m : m = [seq |-> seq + 1, body |-> Snapshot(seen[u])]
  OBVIOUS
<1>3. Deliver(u, m, {u})
  <2>1. Broadcast(u, Snapshot(seen[u]), rooms \cap {u}, {u})
    BY DEF Greet, SendToUser
  <2>2. rooms \cap {u} # {} /\ {u} \cap open = {u}
    BY <1>1
  <2> QED
    BY <1>2, <2>1, <2>2 DEF Broadcast
<1>4. link'[u] = Append(link[u], m) /\ link[u] \in Seq(Message)
  BY <1>1, <1>3 DEF Deliver, TypeOK
<1>5. m \in Message /\ m.body.type = "room_state" /\ m.seq = seq + 1
  <2>1. seq < MaxSeq
    BY <1>1 DEF Greet, SendToUser, Broadcast
  <2>2. Snapshot(seen[u]) \in Body
    BY <1>1, BodyTypes DEF TypeOK
  <2>3. seq + 1 \in 0..MaxSeq
    BY <1>1, <2>1, BoundsAssumption DEF TypeOK
  <2> QED
    BY <1>2, <2>2, <2>3 DEF Message, Snapshot
<1>6. /\ n \in Nat /\ Len(link'[u]) = n + 1 /\ link'[u][n + 1] = m
      /\ \A j \in 1..n : link'[u][j] = link[u][j]
  BY <1>4, <1>5, AppendProperties, LenProperties
<1>7. \A j \in 1..n : link'[u][j].seq < m.seq
  <2> TAKE j \in 1..n
  <2>1. link[u][j] \in Message /\ link[u][j].seq <= seq
    BY <1>1, <1>4 DEF Numbered
  <2>2. link[u][j].seq \in Nat /\ seq \in Nat /\ m.seq = seq + 1
    BY <1>1, <1>5, <2>1, BoundsAssumption DEF Message, TypeOK
  <2>3. link'[u][j] = link[u][j]
    BY <1>6
  <2> QED
    BY <2>1, <2>2, <2>3
<1>8. lastSeq'[u] < m.seq
  <2>1. lastSeq'[u] = lastSeq[u] /\ lastSeq[u] <= seq /\ lastSeq[u] \in Nat
    BY <1>1, BoundsAssumption DEF Greet, client, Numbered, CounterIsAhead, TypeOK
  <2> QED
    BY <1>1, <1>5, <2>1 DEF TypeOK
<1>9. PICK i : i = n + 1
  OBVIOUS
<1>10. i \in 1..Len(link'[u])
  BY <1>6, <1>9
<1>11. Greeting(u, i)'
  <2>1. \A j \in 1..(i - 1) : j \in 1..n
    BY <1>6, <1>9
  <2> QED
    BY <1>5, <1>6, <1>7, <1>8, <1>9, <2>1 DEF Greeting
<1> QED
  BY <1>10, <1>11 DEF GreetingUnderway

\* Reading leaves the room_state closer to the front, or takes it.
LEMMA ReceiveHydrates ==
    ASSUME Inv, NEW u \in open, Receive(u), GreetingUnderway(u)
    PROVE  u \in hydrated' \/ GreetingUnderway(u)'
<1>1. TypeOK /\ u \in User
  BY DEF Inv, TypeOK
<1>2. PICK i \in 1..Len(link[u]) : Greeting(u, i)
  BY DEF GreetingUnderway
<1>3. link[u] \in Seq(Message) /\ link[u] # <<>> /\ link'[u] = Tail(link[u])
  BY <1>1 DEF Receive, TypeOK
<1>4. /\ Len(link'[u]) = Len(link[u]) - 1
      /\ \A j \in 1..Len(link'[u]) : link'[u][j] = link[u][j + 1]
      /\ Head(link[u]) = link[u][1]
  BY <1>3, HeadTailProperties
<1>5. CASE i = 1
  <2>1. Accepts(u, Head(link[u])) /\ Head(link[u]).body.type = "room_state"
    <3>1. lastSeq[u] < Head(link[u]).seq /\ Head(link[u]).body.type = "room_state"
      BY <1>2, <1>4, <1>5 DEF Greeting
    <3>2. Head(link[u]) \in Message /\ lastSeq[u] \in Int
      BY <1>1, <1>3 DEF TypeOK
    <3> QED
      BY <3>1, <3>2 DEF Accepts, Message
  <2>2. Apply(u, Head(link[u]).body)
    BY <2>1 DEF Receive
  <2> QED
    BY <2>1, <2>2 DEF Apply
<1>6. CASE i # 1
  <2>1. PICK k : k = i - 1
    OBVIOUS
  <2>2. /\ k \in 1..Len(link'[u]) /\ i = k + 1
        /\ \A j \in 1..(k - 1) : j \in 1..Len(link'[u]) /\ j + 1 \in 1..(i - 1)
        /\ 1 \in 1..(i - 1)
    BY <1>3, <1>4, <1>6, <2>1, LenProperties
  <2>3. link'[u][k] = link[u][i] /\ link'[u][k].body.type = "room_state"
    BY <1>2, <1>4, <2>2 DEF Greeting
  <2>4. \A j \in 1..(k - 1) : link'[u][j].seq < link'[u][k].seq
    BY <1>2, <1>4, <2>2, <2>3 DEF Greeting
  <2>5. lastSeq'[u] < link'[u][k].seq
    <3>1. Head(link[u]).seq < link[u][i].seq /\ lastSeq[u] < link[u][i].seq
      BY <1>2, <1>4, <2>2 DEF Greeting
    <3>2. lastSeq' = [lastSeq EXCEPT ![u] = Head(link[u]).seq] \/ lastSeq' = lastSeq
      BY DEF Receive, client
    <3> QED
      BY <1>1, <2>3, <3>1, <3>2 DEF TypeOK
  <2>6. Greeting(u, k)'
    BY <2>3, <2>4, <2>5 DEF Greeting
  <2> QED
    BY <2>2, <2>6 DEF GreetingUnderway
<1> QED
  BY <1>5, <1>6

LEMMA NextHydration == Inv /\ Hydration /\ [Next]_vars => Hydration'
<1> SUFFICES ASSUME Inv, Hydration, [Next]_vars,
                    NEW u \in open', pc'[u] \in Greeted
             PROVE  u \in hydrated' \/ GreetingUnderway(u)'
  BY DEF Hydration
<1>0. TypeOK /\ TypeOK' /\ u \in User
  BY NextInv DEF Inv, TypeOK
<1>1. CASE SendStep /\ \A v \in User : ~Connect(v)
  <2>1. Inv' /\ Grows /\ UNCHANGED << open, lastSeq, hydrated >>
    BY <1>0, <1>1, SendStepInv, SendStepFrame
  <2>2. CASE pc[u] \in Greeted
    <3>1. u \in hydrated \/ GreetingUnderway(u)
      BY <2>1, <2>2 DEF Hydration
    <3> QED
      BY <1>0, <2>1, <3>1, GrowsKeepsGreeting
  <2>3. CASE pc[u] \notin Greeted
    BY <1>0, <1>1, <2>1, <2>3, GreetedFrom, GreetGreets
  <2> QED
    BY <2>2, <2>3
<1>2. ASSUME NEW v \in User, Connect(v) PROVE u \in hydrated' \/ GreetingUnderway(u)'
  <2>1. v # u
    BY <1>0, <1>2 DEF Connect, Goto, Greeted, TypeOK
  <2>2. /\ u \in open /\ pc[u] \in Greeted
        /\ lastSeq'[u] = lastSeq[u] /\ link'[u] = link[u] /\ hydrated' = hydrated
    BY <1>0, <1>2, <2>1 DEF Connect, OnOpen, Goto, TypeOK, stream, history
  <2> QED
    BY <2>2 DEF Hydration, GreetingUnderway, Greeting
<1>3. ASSUME NEW v \in User, Finally(v) PROVE u \in hydrated' \/ GreetingUnderway(u)'
  <2>1. UNCHANGED << open, lastSeq, hydrated >> /\ Grows
    BY <1>3, FinallyInv
  <2>2. v # u /\ pc'[u] = pc[u]
    BY <1>0, <1>3, <2>1 DEF Finally, Goto, TypeOK
  <2>3. u \in hydrated \/ GreetingUnderway(u)
    BY <2>1, <2>2 DEF Hydration
  <2> QED
    BY <1>0, <2>1, <2>3, GrowsKeepsGreeting
<1>4. ASSUME NEW v \in User, Lose(v) PROVE u \in hydrated' \/ GreetingUnderway(u)'
  <2>1. /\ u \in open /\ u # v /\ pc' = pc /\ lastSeq' = lastSeq
        /\ link'[u] = link[u] /\ hydrated' = hydrated \ {v}
    BY <1>0, <1>4 DEF Lose, client, TypeOK
  <2> QED
    BY <2>1 DEF Hydration, GreetingUnderway, Greeting
<1>5. ASSUME NEW v \in User, Receive(v) PROVE u \in hydrated' \/ GreetingUnderway(u)'
  <2>1. pc' = pc /\ open' = open /\ hydrated \subseteq hydrated'
    BY <1>5 DEF Receive, Apply
  <2>2. u \in hydrated \/ GreetingUnderway(u)
    BY <2>1 DEF Hydration
  <2>3. CASE v = u
    BY <1>5, <2>1, <2>2, <2>3, ReceiveHydrates
  <2>4. CASE v # u
    <3>1. link'[u] = link[u] /\ lastSeq'[u] = lastSeq[u]
      BY <1>0, <1>5, <2>4 DEF Receive, client, TypeOK
    <3> QED
      BY <2>1, <2>2, <3>1 DEF GreetingUnderway, Greeting
  <2> QED
    BY <2>3, <2>4
<1>6. CASE UNCHANGED vars
  BY <1>6 DEF vars, stream, client, history, Hydration, GreetingUnderway, Greeting
<1> QED
  BY <1>1, <1>2, <1>3, <1>4, <1>5, <1>6, NextCases

-----------------------------------------------------------------------------
(* What is on its way to a client.                                         *)

\* The messages that the client has yet to read or that are yet to be written to its
\* socket.
Elements(q) == {q[i] : i \in 1..Len(q)}

Pending(u) ==
    Elements(link[u])
       \cup {sending[s].message : s \in {r \in Sender : u \in sending[r].rest}}

LEMMA PendingType ==
    ASSUME Inv, NEW u \in User
    PROVE  Pending(u) \subseteq Message /\ \A m \in Pending(u) : m.seq <= seq
<1>1. ASSUME NEW i \in 1..Len(link[u])
      PROVE  link[u][i] \in Message /\ link[u][i].seq <= seq
  BY <1>1 DEF Inv, TypeOK, Numbered
<1>2. ASSUME NEW s \in Sender, u \in sending[s].rest
      PROVE  sending[s].message \in Message /\ sending[s].message.seq <= seq
  BY <1>2 DEF Inv, TypeOK, Numbered, Busy
<1> QED
  BY <1>1, <1>2 DEF Pending, Elements

LEMMA NothingPending ==
    ASSUME Inv, NEW u \in User, u \notin open
    PROVE  Pending(u) = {}
BY DEF Inv, Attached, Pending, Elements

\* A message written to a socket waits at its end.
LEMMA AppendPends ==
    ASSUME NEW q \in Seq(Message), NEW m \in Message
    PROVE  Elements(Append(q, m)) = Elements(q) \cup {m}
<1>1. PICK r : r = Append(q, m)
  OBVIOUS
<1> DEFINE n == Len(q)
<1>2. /\ n \in Nat /\ Len(r) = n + 1 /\ r[n + 1] = m
      /\ \A i \in 1..n : r[i] = q[i]
  BY <1>1, AppendProperties, LenProperties
<1> HIDE DEF n
<1>3. 1..(n + 1) = 1..n \cup {n + 1}
  BY <1>2
<1>4. {r[i] : i \in 1..(n + 1)} = {q[i] : i \in 1..n} \cup {m}
  BY <1>2, <1>3
<1> QED
  BY <1>1, <1>2, <1>4 DEF n, Elements

\* What a send does: the users in `to` that are connected get a message with the next
\* number, and what was on its way stays so.
Writes(body, to) ==
    \A u \in User :
       Pending(u)' = IF u \in to \cap open
                     THEN Pending(u) \cup {[seq |-> seq + 1, body |-> body]} ELSE Pending(u)

LEMMA DeliverPends ==
    ASSUME Inv, NEW s \in Sender, NEW message \in Message, NEW to \in SUBSET open,
           Deliver(s, message, to),
           Busy(s) => message = sending[s].message /\ to = sending[s].rest,
           NEW u \in User
    PROVE  Pending(u)' = IF u \in to THEN Pending(u) \cup {message} ELSE Pending(u)
<1> USE DEF Inv, TypeOK
<1>1. PICK v \in to :
        /\ link' = [link EXCEPT ![v] = Append(@, message)]
        /\ sending' = [sending EXCEPT ![s] =
              IF to = {v} THEN Idle ELSE [message |-> message, rest |-> to \ {v}]]
  BY DEF Deliver
<1> DEFINE Sent == {sending[r].message : r \in {q \in Sender : u \in sending[q].rest}}
           Kept == {sending[r].message : r \in {q \in Sender : u \in sending[q].rest} \ {s}}
           Left == {sending'[r].message : r \in {q \in Sender : u \in sending'[q].rest}}
<1>2. Pending(u) = Elements(link[u]) \cup Sent /\ Pending(u)' = Elements(link'[u]) \cup Left
  BY DEF Pending
<1>3. Sent = Kept \cup (IF Busy(s) /\ u \in to THEN {message} ELSE {})
  BY DEF Busy
<1>4. Left = Kept \cup (IF u \in to \ {v} THEN {message} ELSE {})
  <2>1. \A r \in Sender \ {s} : sending'[r] = sending[r]
    BY <1>1
  <2>2. sending'[s] = IF to = {v} THEN Idle ELSE [message |-> message, rest |-> to \ {v}]
    BY <1>1
  <2>3. sending'[s].rest = to \ {v}
    BY <2>2 DEF Idle
  <2>4. to \ {v} # {} => sending'[s].message = message
    BY <2>2
  <2>5. ASSUME NEW x
        PROVE  x \in Left <=> x \in Kept \/ (u \in to \ {v} /\ x = message)
    <3>1. x \in Left <=> \E r \in Sender : u \in sending'[r].rest /\ x = sending'[r].message
      OBVIOUS
    <3>2. x \in Kept <=>
             \E r \in Sender \ {s} : u \in sending[r].rest /\ x = sending[r].message
      OBVIOUS
    <3> QED
      BY <2>1, <2>3, <2>4, <3>1, <3>2
  <2> HIDE DEF Left, Kept
  <2> QED
    BY <2>5
<1>5. Elements(link'[u]) = Elements(link[u]) \cup (IF u = v THEN {message} ELSE {})
  <2>1. CASE u = v
    <3>1. link'[u] = Append(link[u], message) /\ link[u] \in Seq(Message)
      BY <1>1, <2>1
    <3> QED
      BY <2>1, <3>1, AppendPends
  <2>2. CASE u # v
    BY <1>1, <2>2
  <2> QED
    BY <2>1, <2>2
<1> HIDE DEF Sent, Kept, Left
<1> QED
  BY <1>2, <1>3, <1>4, <1>5

LEMMA BroadcastWrites ==
    ASSUME Inv, NEW s \in Sender, ~Busy(s), NEW body \in Body, NEW connections, NEW to,
           connections = {} => to \cap open = {},
           Broadcast(s, body, connections, to)
    PROVE  Writes(body, to)
<1>1. CASE connections = {} \/ to \cap open = {}
  <2>1. UNCHANGED << sending, link >> /\ to \cap open = {}
    BY <1>1 DEF Broadcast, stream
  <2> QED
    BY <2>1 DEF Writes, Pending
<1>2. CASE connections # {} /\ to \cap open # {}
  <2>1. seq < MaxSeq /\ seq + 1 \in 0..MaxSeq
    BY <1>2, BoundsAssumption DEF Broadcast, Inv, TypeOK
  <2>2. PICK m \in Message : m = [seq |-> seq + 1, body |-> body]
    BY <2>1 DEF Message
  <2>3. PICK t \in SUBSET open : t = to \cap open
    OBVIOUS
  <2>4. Deliver(s, m, t)
    BY <1>2, <2>2, <2>3 DEF Broadcast
  <2>5. \A u \in User : Pending(u)' = IF u \in t THEN Pending(u) \cup {m} ELSE Pending(u)
    BY <2>4, DeliverPends
  <2> QED
    BY <2>2, <2>3, <2>5 DEF Writes
<1> QED
  BY <1>1, <1>2

\* A broadcast under way goes on.
LEMMA SendNextWrites ==
    ASSUME Inv, NEW s \in Sender, SendNext(s)
    PROVE  Writes(Nothing, {})
<1>1. PICK m \in Message, t \in SUBSET open : m = sending[s].message /\ t = sending[s].rest
  BY DEF Inv, TypeOK, Attached
<1>2. Deliver(s, m, t)
  BY <1>1 DEF SendNext
<1>3. \A u \in User : Pending(u)' = IF u \in t THEN Pending(u) \cup {m} ELSE Pending(u)
  BY <1>1, <1>2, DeliverPends
<1>4. \A u \in t : m \in Pending(u)
  BY <1>1 DEF Pending
<1> QED
  BY <1>3, <1>4 DEF Writes

-----------------------------------------------------------------------------
(* The handlers: who is registered, and who is in the middle of a broadcast. *)

\* The states in which a handler has no broadcast under way; it begins one from them.
Silent == {"loading", "loaded", "announcing", "checked", "verifying", "publishing", "telling"}

Handlers ==
    /\ \A u \in User : u \in rooms <=> pc[u] \notin {"off", "parting"}
    /\ \A u \in User : pc[u] \in Silent => ~Busy(u)
    /\ \A u \in User : pc[u] \in {"publishing", "telling"} => u = Host

LEMMA BroadcastBusy ==
    ASSUME Inv, NEW s \in Sender, NEW body, NEW connections, NEW to,
           Broadcast(s, body, connections, to)
    PROVE  /\ \A r \in Sender \ {s} : sending'[r] = sending[r]
           /\ ~Busy(s) /\ (\E v : to = {v}) => ~Busy(s)'
<1>1. CASE UNCHANGED << sending, link >>
  BY <1>1 DEF Busy
<1>2. CASE ~UNCHANGED << sending, link >>
  <2>1. PICK m : Deliver(s, m, to \cap open)
    BY <1>2 DEF Broadcast, stream
  <2>2. PICK v \in to \cap open :
          sending' = [sending EXCEPT ![s] =
             IF to \cap open = {v} THEN Idle ELSE [message |-> m, rest |-> (to \cap open) \ {v}]]
    BY <2>1 DEF Deliver
  <2>3. \A r \in Sender \ {s} : sending'[r] = sending[r]
    BY <2>2 DEF Inv, TypeOK
  <2>4. ASSUME \E w : to = {w} PROVE ~Busy(s)'
    <3>1. to \cap open = {v}
      BY <2>4
    <3>2. sending'[s] = Idle
      BY <2>2, <3>1 DEF Inv, TypeOK
    <3> QED
      BY <3>2 DEF Busy, Idle
  <2> QED
    BY <2>3, <2>4
<1> QED
  BY <1>1, <1>2

LEMMA SendToUserBusy ==
    ASSUME Inv, NEW u \in User, NEW body, SendToUser(u, body), ~Busy(u)
    PROVE  (\A r \in Sender \ {u} : sending'[r] = sending[r]) /\ ~Busy(u)'
<1>1. u \in Sender /\ \E v : {u} = {v}
  BY SenderType
<1>2. Broadcast(u, body, rooms \cap {u}, {u})
  BY DEF SendToUser
<1>3. /\ \A r \in Sender \ {u} : sending'[r] = sending[r]
      /\ ~Busy(u) /\ (\E v : {u} = {v}) => ~Busy(u)'
  BY <1>1, <1>2, BroadcastBusy, Zenon
<1> QED
  BY <1>1, <1>3

LEMMA InitHandlers == Init => Handlers
BY DEF Init, Handlers, Silent

LEMMA NextHandlers == Inv /\ Handlers /\ [Next]_vars => Handlers'
<1> SUFFICES ASSUME Inv, Handlers, [Next]_vars PROVE Handlers'
  OBVIOUS
<1> USE SenderType DEF Handlers, Goto
<1>0. /\ pc \in [User -> HandlerState] /\ rooms \in SUBSET User
      /\ \A u \in User : u \in Sender
      /\ \A u \in User : Busy(u) <=> sending[u].rest # {}
      /\ \A u \in User : Busy(u)' <=> sending'[u].rest # {}
  BY DEF Inv, TypeOK, Busy
<1>1. ASSUME NEW u \in User, Connect(u) PROVE Handlers'
  BY <1>0, <1>1 DEF Connect, stream, Silent
<1>2. ASSUME NEW u \in User, \/ LoadRoomInfo(u) \/ CheckControl(u) \/ RejectControl(u)
                             \/ VerifyRead(u)
      PROVE  Handlers'
  BY <1>0, <1>2 DEF LoadRoomInfo, CheckControl, RejectControl, VerifyRead, Serving, stream,
                    registry, Silent
<1>3. ASSUME NEW u \in User, Resume(u) PROVE Handlers'
  <2>1. \A r \in User \ {u} : sending'[r] = sending[r]
    BY <1>0, <1>3, BroadcastBusy DEF Resume, stream
  <2>2. pc[u] = "loaded" /\ pc' = [pc EXCEPT ![u] = "greeting"] /\ rooms' = rooms
    BY <1>3 DEF Resume, registry
  <2> QED
    BY <1>0, <2>1, <2>2 DEF Silent
<1>4. ASSUME NEW u \in User, Greet(u) PROVE Handlers'
  <2>1. (\A r \in User \ {u} : sending'[r] = sending[r]) /\ ~Busy(u)'
    <3>1. SendToUser(u, Snapshot(seen[u])) /\ ~Busy(u)
      BY <1>4 DEF Greet
    <3> QED
      BY <1>0, <3>1, SendToUserBusy
  <2>2. pc[u] = "greeting" /\ pc' = [pc EXCEPT ![u] = "announcing"] /\ rooms' = rooms
    BY <1>4 DEF Greet, registry
  <2> QED
    BY <1>0, <2>1, <2>2 DEF Silent
<1>5. ASSUME NEW u \in User, Announce(u) \/ \E play \in BOOLEAN : Control(u, play)
      PROVE  Handlers'
  <2>1. \A r \in User \ {u} : sending'[r] = sending[r]
    BY <1>0, <1>5, BroadcastBusy DEF Announce, Control
  <2>2. /\ pc[u] \in {"announcing", "checked"}
        /\ pc' = [pc EXCEPT ![u] = "loop"] /\ rooms' = rooms
    BY <1>5 DEF Announce, Control, registry
  <2> QED
    BY <1>0, <2>1, <2>2 DEF Silent
<1>6. ASSUME NEW u \in User, Resync(u) PROVE Handlers'
  <2>1. \A r \in User \ {u} : sending'[r] = sending[r]
    <3>1. SendToUser(u, SyncState) /\ ~Busy(u)
      BY <1>6 DEF Resync, Serving
    <3> QED
      BY <1>0, <3>1, SendToUserBusy
  <2>2. pc[u] = "loop" /\ pc' = pc /\ rooms' = rooms
    BY <1>6 DEF Resync, Serving, registry
  <2> QED
    BY <1>0, <2>1, <2>2 DEF Silent
<1>7. ASSUME NEW u \in User, Finally(u) PROVE Handlers'
  <2>1. \A r \in User \ {u} : sending'[r] = sending[r]
    BY <1>0, <1>7, BroadcastBusy DEF Finally, Remaining, Forget
  <2>2. /\ pc[u] = "loop" /\ rooms' = rooms \ {u}
        /\ \E l \in {"off", "parting"} : pc' = [pc EXCEPT ![u] = l]
    BY <1>7 DEF Finally, Others
  <2> QED
    BY <1>0, <2>1, <2>2 DEF Silent
<1>8. ASSUME NEW u \in User, Part(u) PROVE Handlers'
  <2>1. \A r \in User \ {u} : sending'[r] = sending[r]
    BY <1>0, <1>8, BroadcastBusy DEF Part
  <2>2. pc[u] = "parting" /\ pc' = [pc EXCEPT ![u] = "off"] /\ rooms' = rooms
    BY <1>8 DEF Part, registry
  <2> QED
    BY <1>0, <2>1, <2>2 DEF Silent
<1>9. ASSUME ChangeCommit PROVE Handlers'
  BY <1>0, <1>9, HostAssumption DEF ChangeCommit, Serving, stream, registry, Silent
<1>10. ASSUME ChangePublish PROVE Handlers'
  <2>1. (\A r \in User \ {Host} : sending'[r] = sending[r]) /\ ~Busy(Host)'
    <3>1. SendToUser(Host, Verified(seen[Host])) /\ ~Busy(Host)
      BY <1>10, HostAssumption DEF ChangePublish, Silent
    <3> QED
      BY <1>0, <3>1, SendToUserBusy, HostAssumption
  <2>2. pc[Host] = "publishing" /\ pc' = [pc EXCEPT ![Host] = "telling"] /\ rooms' = rooms
    BY <1>10 DEF ChangePublish, registry
  <2> QED
    BY <1>0, <2>1, <2>2, HostAssumption DEF Silent
<1>11. ASSUME ChangeTell PROVE Handlers'
  <2>1. \A r \in User \ {Host} : sending'[r] = sending[r]
    BY <1>0, <1>11, BroadcastBusy, HostAssumption DEF ChangeTell
  <2>2. pc[Host] = "telling" /\ pc' = [pc EXCEPT ![Host] = "loop"] /\ rooms' = rooms
    BY <1>11 DEF ChangeTell, registry
  <2> QED
    BY <1>0, <2>1, <2>2, HostAssumption DEF Silent
<1>12. ASSUME Beat PROVE Handlers'
  <2>1. \A r \in User : sending'[r] = sending[r]
    BY <1>0, <1>12, BroadcastBusy, HeartbeatAssumption DEF Beat
  <2> QED
    BY <1>0, <1>12, <2>1 DEF Beat, registry
<1>13. ASSUME NEW s \in Sender, SendNext(s) PROVE Handlers'
  <2>1. \A r \in Sender \ {s} : sending'[r] = sending[r]
    BY <1>13 DEF SendNext, Deliver, Inv, TypeOK
  <2>2. Busy(s) /\ pc' = pc /\ rooms' = rooms
    BY <1>13 DEF SendNext, registry
  <2> QED
    BY <1>0, <2>1, <2>2
<1>14. ASSUME NEW u \in User, Lose(u) PROVE Handlers'
  <2>1. \A r \in Sender : sending'[r] =
           IF sending[r].rest \subseteq {u} THEN Idle
           ELSE [sending[r] EXCEPT !.rest = @ \ {u}]
    BY <1>14 DEF Lose
  <2>2. ASSUME NEW r \in Sender, sending[r].rest = {} PROVE sending'[r].rest = {}
    <3>1. sending'[r] = Idle
      BY <2>1, <2>2
    <3> QED
      BY <3>1 DEF Idle
  <2> QED
    BY <1>0, <1>14, <2>2 DEF Lose, registry
<1>15. ASSUME NEW u \in User, Receive(u) PROVE Handlers'
  BY <1>0, <1>15 DEF Receive, registry
<1>16. ASSUME NEW u \in User, VerifyMatch(u) \/ VerifyMismatch(u) PROVE Handlers'
  <2>1. \A r \in User \ {u} : sending'[r] = sending[r]
    <3>1. (\E body : SendToUser(u, body)) /\ ~Busy(u)
      BY <1>16 DEF VerifyMatch, VerifyMismatch, Silent
    <3> QED
      BY <1>0, <3>1, SendToUserBusy
  <2>2. pc[u] = "verifying" /\ pc' = [pc EXCEPT ![u] = "loop"] /\ rooms' = rooms
    BY <1>16 DEF VerifyMatch, VerifyMismatch, registry
  <2> QED
    BY <1>0, <2>1, <2>2 DEF Silent
<1>17. CASE UNCHANGED vars
  BY <1>0, <1>17 DEF vars, registry, stream
<1> QED
  BY <1>1, <1>2, <1>3, <1>4, <1>5, <1>6, <1>7, <1>8, <1>9, <1>10, <1>11, <1>12,
     <1>13, <1>14, <1>15, <1>16, <1>17 DEF Next, HandlerStep

-----------------------------------------------------------------------------
(* The versions: the database's, the RoomState's and what the handlers have seen. *)

Publishing == pc[Host] = "publishing"

\* A handler that has resumed the room, or will do so with version 0.
Resumed(u) == pc[u] \in Greeted \cup {"greeting"} \/ (pc[u] = "loaded" /\ seen[u] = 0)

Versions ==
    /\ version <= dbVersion
    /\ \A u \in User : seen[u] <= dbVersion
    /\ pc[Host] \in {"publishing", "telling"} => seen[Host] = dbVersion /\ dbVersion > 0
    /\ pc[Host] = "telling" => version = dbVersion
    /\ version = 0 =>
          /\ playing = FALSE
          /\ \A u \in User :
                /\ pc[u] # "checked"
                /\ Resumed(u) => dbVersion = IF Publishing THEN 1 ELSE 0

LEMMA InitVersions == Init => Versions
BY HostAssumption DEF Init, Versions, Resumed, Greeted

LEMMA NextVersions == Inv /\ Handlers /\ Versions /\ [Next]_vars => Versions'
<1> SUFFICES ASSUME Inv, Handlers, Versions, [Next]_vars PROVE Versions'
  OBVIOUS
<1> USE HostAssumption, BoundsAssumption DEF Versions, Goto
<1>0. /\ pc \in [User -> HandlerState] /\ seen \in [User -> 0..MaxVersion]
      /\ dbVersion \in 0..MaxVersion /\ version \in 0..MaxVersion /\ playing \in BOOLEAN
      /\ rooms \in SUBSET User
  BY DEF Inv, TypeOK
<1>1. ASSUME NEW u \in User, Connect(u) PROVE Versions'
  BY <1>0, <1>1 DEF Connect, roomState, Resumed, Publishing, Greeted
<1>2. ASSUME NEW u \in User, LoadRoomInfo(u) PROVE Versions'
  <2>1. /\ pc[u] = "loading" /\ seen' = [seen EXCEPT ![u] = dbVersion]
        /\ pc' = [pc EXCEPT ![u] = "loaded"]
        /\ UNCHANGED << dbVersion, version, playing >>
    BY <1>2 DEF LoadRoomInfo, roomState
  <2>2. pc[Host] \in {"publishing", "telling"} => u # Host
    BY <2>1
  <2>3. Publishing' = Publishing
    BY <1>0, <2>1 DEF Publishing
  <2>4. \A v \in User : Resumed(v)' => Resumed(v) \/ (v = u /\ dbVersion = 0)
    BY <1>0, <2>1 DEF Resumed, Greeted
  <2>5. dbVersion = 0 => ~Publishing
    BY DEF Publishing
  <2> QED
    BY <1>0, <2>1, <2>2, <2>3, <2>4, <2>5
<1>3. ASSUME NEW u \in User, Resume(u) PROVE Versions'
  <2>1. /\ pc[u] = "loaded" /\ version' = IF version = 0 THEN seen[u] ELSE version
        /\ pc' = [pc EXCEPT ![u] = "greeting"]
        /\ UNCHANGED << dbVersion, seen, playing >>
    BY <1>3 DEF Resume
  <2>2. pc[Host] \in {"publishing", "telling"} => u # Host
    BY <2>1
  <2>3. Publishing' = Publishing
    BY <1>0, <2>1 DEF Publishing
  <2>4. version' = 0 => \A v \in User : Resumed(v)' => Resumed(v)
    BY <1>0, <2>1 DEF Resumed, Greeted
  <2> QED
    BY <1>0, <2>1, <2>2, <2>3, <2>4
<1>4. ASSUME NEW u \in User,
             \/ Greet(u) \/ Announce(u) \/ Resync(u) \/ RejectControl(u)
             \/ VerifyMatch(u) \/ VerifyMismatch(u)
      PROVE  Versions'
  <2>1. UNCHANGED << dbVersion, version, playing, seen >>
    BY <1>4 DEF Greet, Announce, Resync, RejectControl, VerifyMatch, VerifyMismatch, roomState
  <2>2. /\ pc[u] \in {"greeting", "announcing", "loop", "checked", "verifying"}
        /\ \E l \in {"announcing", "loop"} : pc' = [pc EXCEPT ![u] = l]
    BY <1>0, <1>4 DEF Greet, Announce, Resync, RejectControl, VerifyMatch, VerifyMismatch,
                      Serving, Greeted
  <2>3. \A v \in User : Resumed(v)' = Resumed(v)
    BY <1>0, <2>1, <2>2 DEF Resumed, Greeted
  <2>4. Publishing' = Publishing
    BY <1>0, <2>2 DEF Publishing
  <2> QED
    BY <1>0, <2>1, <2>2, <2>3, <2>4
<1>5. ASSUME NEW u \in User, CheckControl(u) PROVE Versions'
  <2>1. UNCHANGED << dbVersion, version, playing, seen >> /\ version # 0
    BY <1>0, <1>5 DEF CheckControl, roomState
  <2>2. pc[u] = "loop" /\ pc' = [pc EXCEPT ![u] = "checked"]
    BY <1>5 DEF CheckControl, Serving
  <2> QED
    BY <1>0, <2>1, <2>2
<1>6. ASSUME NEW u \in User, NEW play \in BOOLEAN, Control(u, play) PROVE Versions'
  <2>1. /\ UNCHANGED << dbVersion, version, seen >>
        /\ pc[u] = "checked" /\ pc' = [pc EXCEPT ![u] = "loop"]
    BY <1>6 DEF Control
  <2> QED
    BY <1>0, <2>1
<1>7. ASSUME NEW u \in User, Finally(u) PROVE Versions'
  <2>1. /\ UNCHANGED << dbVersion, seen >> /\ pc[u] = "loop"
        /\ \E l \in {"off", "parting"} : pc' = [pc EXCEPT ![u] = l]
    BY <1>7 DEF Finally
  <2>2. CASE Forget /\ Others(u) = {}
    <3>1. version' = 0 /\ playing' = FALSE
      BY <2>2 DEF Forget
    <3>2. \A v \in User : v # u => pc[v] \in {"off", "parting"}
      BY <1>0, <2>2 DEF Others, Handlers
    <3>3. \A v \in User : pc'[v] \in {"off", "parting"}
      BY <1>0, <2>1, <3>2
    <3> QED
      BY <1>0, <2>1, <3>1, <3>3 DEF Resumed, Greeted
  <2>3. CASE Remaining(u)
    <3>1. version' = version /\ playing' \in {playing, closing /\ playing}
      BY <2>3 DEF Remaining, roomState
    <3>2. \A v \in User : Resumed(v)' => Resumed(v)
      BY <1>0, <2>1 DEF Resumed, Greeted
    <3>3. Publishing' = Publishing
      BY <1>0, <2>1 DEF Publishing
    <3> QED
      BY <1>0, <2>1, <3>1, <3>2, <3>3
  <2> QED
    BY <1>7, <2>2, <2>3 DEF Finally
<1>8. ASSUME NEW u \in User, Part(u) PROVE Versions'
  <2>1. /\ UNCHANGED << dbVersion, version, playing, seen >>
        /\ pc[u] = "parting" /\ pc' = [pc EXCEPT ![u] = "off"]
    BY <1>8 DEF Part, roomState
  <2> QED
    BY <1>0, <2>1 DEF Resumed, Greeted, Publishing
<1>9. ASSUME ChangeCommit PROVE Versions'
  <2>1. /\ UNCHANGED << version, playing >> /\ pc[Host] = "loop"
        /\ pc' = [pc EXCEPT ![Host] = "publishing"]
        /\ dbVersion' = dbVersion + 1
        /\ seen' = [seen EXCEPT ![Host] = dbVersion + 1]
    BY <1>9 DEF ChangeCommit, Serving, roomState
  <2>2. version = 0 => dbVersion = 0
    BY <2>1 DEF Resumed, Greeted, Publishing
  <2>3. Publishing'
    BY <1>0, <2>1 DEF Publishing
  <2> QED
    BY <1>0, <2>1, <2>2, <2>3
<1>10. ASSUME ChangePublish PROVE Versions'
  <2>1. /\ pc[Host] = "publishing" /\ pc' = [pc EXCEPT ![Host] = "telling"]
        /\ version' = seen[Host] /\ playing' = FALSE
        /\ UNCHANGED << dbVersion, seen >>
    BY <1>10 DEF ChangePublish
  <2>2. version' = dbVersion /\ dbVersion > 0
    BY <2>1
  <2> QED
    BY <1>0, <2>1, <2>2
<1>11. ASSUME ChangeTell PROVE Versions'
  <2>1. /\ pc[Host] = "telling" /\ pc' = [pc EXCEPT ![Host] = "loop"]
        /\ UNCHANGED << dbVersion, seen, version, playing >>
    BY <1>11 DEF ChangeTell, roomState
  <2> QED
    BY <1>0, <2>1
<1>12. ASSUME \/ Beat \/ \E s \in Sender : SendNext(s)
              \/ \E u \in User : Lose(u) \/ Receive(u)
              \/ UNCHANGED vars
      PROVE  Versions'
  <2>1. UNCHANGED << dbVersion, seen, version, playing, pc >>
    BY <1>12 DEF Beat, SendNext, Lose, Receive, vars, roomState
  <2> QED
    BY <2>1 DEF Resumed, Publishing
<1>13. ASSUME NEW u \in User, VerifyRead(u) PROVE Versions'
  <2>1. /\ pc[u] = "loop" /\ pc' = [pc EXCEPT ![u] = "verifying"]
        /\ seen' = [seen EXCEPT ![u] = dbVersion]
        /\ UNCHANGED << dbVersion, version, playing >>
    BY <1>13 DEF VerifyRead, Serving, roomState
  <2>2. pc[Host] \in {"publishing", "telling"} => u # Host
    BY <2>1
  <2>3. Publishing' = Publishing
    BY <1>0, <2>1 DEF Publishing
  <2>4. \A v \in User : Resumed(v)' => Resumed(v)
    BY <1>0, <2>1 DEF Resumed, Greeted
  <2> QED
    BY <1>0, <2>1, <2>2, <2>3, <2>4
<1> QED
  BY <1>1, <1>2, <1>3, <1>4, <1>5, <1>6, <1>7, <1>8, <1>9, <1>10, <1>11, <1>12, <1>13
     DEF Next, HandlerStep

\* Unless something was torn: no play was applied in a closing room, and while a new
\* file is being published nothing plays that could be taken for it.
Whole ==
    ~torn =>
       /\ ~(closing /\ playing)
       /\ Publishing => /\ playing => version < dbVersion
                        /\ \A u \in User : pc[u] = "checked" => version < dbVersion

LEMMA InitWhole == Init => Whole
BY HostAssumption DEF Init, Whole, Publishing

LEMMA NextWhole ==
    ASSUME Inv, Handlers, Versions, Whole, [Next]_vars,
           ~torn /\ Publishing => \A u \in User : fileVersion[u] < dbVersion
    PROVE  Whole'
<1> USE HostAssumption, BoundsAssumption DEF Goto
<1>0. /\ pc \in [User -> HandlerState] /\ seen \in [User -> 0..MaxVersion]
      /\ dbVersion \in 0..MaxVersion /\ version \in 0..MaxVersion
      /\ playing \in BOOLEAN /\ closing \in BOOLEAN /\ torn \in BOOLEAN
      /\ fileVersion \in [User -> 0..MaxVersion]
  BY DEF Inv, TypeOK
\* Most steps neither start a publication nor a play.
<1>1. ASSUME torn => torn', dbVersion' = dbVersion,
             version' = version \/ (version = 0 /\ playing = FALSE),
             playing' = playing \/ playing' = FALSE,
             closing' = FALSE \/ closing' = closing \/ playing' = FALSE,
             Publishing' => Publishing,
             \A u \in User : pc'[u] = "checked" => pc[u] = "checked"
      PROVE  Whole'
  <2> SUFFICES ASSUME ~torn PROVE Whole'
    BY <1>1 DEF Whole
  <2>1. ~(closing' /\ playing')
    BY <1>0, <1>1 DEF Whole
  <2>2. ASSUME Publishing', version = 0
        PROVE  playing' = FALSE /\ \A u \in User : pc'[u] # "checked"
    BY <1>0, <1>1, <2>2 DEF Versions
  <2>3. ASSUME Publishing', version # 0
        PROVE  /\ playing' => version' < dbVersion'
               /\ \A u \in User : pc'[u] = "checked" => version' < dbVersion'
    BY <1>0, <1>1, <2>3 DEF Whole
  <2> QED
    BY <2>1, <2>2, <2>3 DEF Whole
<1>2. ASSUME NEW u \in User, Connect(u) \/ LoadRoomInfo(u) \/ Resume(u) \/ Announce(u)
                             \/ Resync(u) \/ RejectControl(u) \/ Part(u)
                             \/ VerifyRead(u) \/ VerifyMatch(u) \/ VerifyMismatch(u)
      PROVE  Whole'
  <2>1. /\ (torn => torn') /\ dbVersion' = dbVersion
        /\ version' = version \/ (version = 0 /\ playing = FALSE)
        /\ playing' = playing
        /\ closing' = FALSE \/ closing' = closing
    <3>1. CASE VerifyMatch(u)
      <4>1. torn => torn'
        BY <3>1 DEF VerifyMatch
      <4> QED
        BY <3>1, <4>1 DEF VerifyMatch, roomState
    <3>2. CASE ~VerifyMatch(u)
      BY <1>2, <3>2 DEF Connect, LoadRoomInfo, Resume, Announce, Resync, RejectControl, Part,
                        VerifyRead, VerifyMismatch, roomState, history, Versions
    <3> QED
      BY <3>1, <3>2
  <2>2. \/ pc' = pc
        \/ \E l \in {"loading", "loaded", "greeting", "loop", "verifying", "off"} :
              pc' = [pc EXCEPT ![u] = l]
    BY <1>2 DEF Connect, LoadRoomInfo, Resume, Announce, Resync, RejectControl, Part,
                VerifyRead, VerifyMatch, VerifyMismatch
  <2>3. /\ Publishing' => Publishing
        /\ \A v \in User : pc'[v] = "checked" => pc[v] = "checked"
    BY <1>0, <2>2 DEF Publishing
  <2> QED
    BY <1>1, <2>1, <2>3
<1>3. ASSUME NEW u \in User, Greet(u) PROVE Whole'
  <2>1. /\ UNCHANGED << dbVersion, version, playing, closing >>
        /\ torn' = (torn \/ seen[u] # version \/ pc[Host] = "publishing")
        /\ pc[u] = "greeting" /\ pc' = [pc EXCEPT ![u] = "announcing"]
    BY <1>3 DEF Greet, roomState
  <2>2. Publishing' => torn'
    BY <1>0, <2>1 DEF Publishing
  <2>3. ~torn' => ~torn
    BY <2>1
  <2> QED
    BY <2>1, <2>2, <2>3 DEF Whole
<1>4. ASSUME NEW u \in User, CheckControl(u) PROVE Whole'
  <2>1. /\ UNCHANGED << dbVersion, version, playing, closing, torn >>
        /\ fileVersion[u] = version
        /\ pc[u] = "loop" /\ pc' = [pc EXCEPT ![u] = "checked"]
    BY <1>4 DEF CheckControl, Serving, roomState, history
  <2>2. Publishing' = Publishing
    BY <1>0, <2>1 DEF Publishing
  <2>3. ~torn /\ Publishing => version < dbVersion
    BY <2>1
  <2> QED
    BY <2>1, <2>2, <2>3 DEF Whole
<1>5. ASSUME NEW u \in User, NEW play \in BOOLEAN, Control(u, play) PROVE Whole'
  <2>1. /\ UNCHANGED << dbVersion, version, closing >> /\ playing' = play
        /\ torn' = (torn \/ (closing /\ play))
        /\ pc[u] = "checked" /\ pc' = [pc EXCEPT ![u] = "loop"]
    BY <1>5 DEF Control
  <2>2. Publishing' = Publishing /\ \A v \in User : pc'[v] = "checked" => pc[v] = "checked"
    BY <1>0, <2>1 DEF Publishing
  <2>3. ~torn' => ~torn /\ ~(closing' /\ playing')
    BY <2>1
  <2> QED
    BY <2>1, <2>2, <2>3 DEF Whole
<1>6. ASSUME NEW u \in User, Finally(u) PROVE Whole'
  <2>1. /\ UNCHANGED << dbVersion, torn >> /\ pc[u] = "loop"
        /\ \E l \in {"off", "parting"} : pc' = [pc EXCEPT ![u] = l]
    BY <1>6 DEF Finally, history
  <2>2. /\ Publishing' => Publishing
        /\ \A v \in User : pc'[v] = "checked" => pc[v] = "checked"
    BY <1>0, <2>1 DEF Publishing
  <2>3. CASE Forget /\ Others(u) = {}
    <3>1. playing' = FALSE /\ closing' = FALSE
      BY <2>3 DEF Forget
    <3>2. \A v \in User : v # u => pc[v] \in {"off", "parting"}
      BY <2>3 DEF Others, Handlers
    <3>3. ~Publishing
      BY <2>1, <3>2 DEF Publishing
    <3> QED
      BY <2>2, <3>1, <3>3 DEF Whole
  <2>4. CASE Remaining(u) /\ u # Host
    BY <1>1, <2>1, <2>2, <2>4 DEF Remaining, roomState
  <2>5. CASE Remaining(u) /\ u = Host
    <3>1. playing' = (closing /\ playing) /\ closing' = TRUE
      BY <2>5 DEF Remaining
    <3>2. ~Publishing
      BY <2>1, <2>5 DEF Publishing
    <3>3. ~torn => playing' = FALSE
      BY <1>0, <3>1 DEF Whole
    <3> QED
      BY <2>1, <2>2, <3>2, <3>3 DEF Whole
  <2> QED
    BY <1>6, <2>3, <2>4, <2>5 DEF Finally
<1>7. ASSUME ChangeCommit PROVE Whole'
  <2>1. /\ UNCHANGED << version, playing, closing, torn >>
        /\ dbVersion' = dbVersion + 1
    BY <1>7 DEF ChangeCommit, roomState, history
  <2>2. version' < dbVersion'
    BY <1>0, <2>1 DEF Versions
  <2> QED
    BY <2>1, <2>2 DEF Whole
<1>8. ASSUME ChangePublish PROVE Whole'
  <2>1. playing' = FALSE /\ pc' = [pc EXCEPT ![Host] = "telling"]
    BY <1>8 DEF ChangePublish
  <2>2. ~Publishing'
    BY <1>0, <2>1 DEF Publishing
  <2> QED
    BY <2>1, <2>2 DEF Whole
<1>9. ASSUME ChangeTell PROVE Whole'
  <2>1. /\ pc' = [pc EXCEPT ![Host] = "loop"]
        /\ UNCHANGED << version, playing, closing, torn >>
    BY <1>9 DEF ChangeTell, roomState, history
  <2>2. ~Publishing'
    BY <1>0, <2>1 DEF Publishing
  <2> QED
    BY <2>1, <2>2 DEF Whole
<1>10. ASSUME \/ Beat \/ \E s \in Sender : SendNext(s)
              \/ \E u \in User : Lose(u) \/ Receive(u)
              \/ UNCHANGED vars
       PROVE  Whole'
  <2>1. UNCHANGED << dbVersion, version, playing, closing, torn, pc >>
    BY <1>10 DEF Beat, SendNext, Lose, Receive, vars, roomState, history
  <2> QED
    BY <2>1 DEF Whole, Publishing
<1> QED
  BY <1>2, <1>3, <1>4, <1>5, <1>6, <1>7, <1>8, <1>9, <1>10 DEF Next, HandlerStep

-----------------------------------------------------------------------------
(* What each step sends.                                                   *)

\* The steps that send at most messages that say nothing.
SilentStep ==
    \/ \E u \in User : \/ Connect(u) \/ LoadRoomInfo(u) \/ Resume(u) \/ Announce(u)
                       \/ CheckControl(u) \/ RejectControl(u) \/ Part(u)
                       \/ VerifyRead(u) \/ VerifyMismatch(u)
                       \/ Finally(u) /\ (u # Host \/ ~Remaining(u))
    \/ ChangeCommit
    \/ Beat
    \/ \E s \in Sender : SendNext(s)
    \/ UNCHANGED vars

\* A message for one user.
LEMMA SendToUserWrites ==
    ASSUME Inv, NEW u \in User, ~Busy(u), NEW body \in Body, SendToUser(u, body)
    PROVE  Writes(body, {u})
<1>1. Broadcast(u, body, rooms \cap {u}, {u}) /\ u \in Sender
  BY SenderType DEF SendToUser
<1>2. rooms \cap {u} = {} => {u} \cap open = {}
  BY DEF Inv, Attached
<1> QED
  BY <1>1, <1>2, BroadcastWrites

LEMMA SilentWrites ==
    ASSUME Inv, Handlers, SilentStep
    PROVE  \E to \in SUBSET User : Writes(Nothing, to)
<1> USE SenderType
<1>0. /\ Nothing \in Body /\ open \subseteq rooms /\ rooms \in SUBSET User
      /\ \A u \in User : Others(u) \in SUBSET User
  BY BodyTypes DEF Inv, Attached, TypeOK, Others
<1>1. ASSUME UNCHANGED << sending, link >> PROVE Writes(Nothing, {})
  BY <1>1 DEF Writes, Pending
<1>2. ASSUME NEW s \in Sender, ~Busy(s), Broadcast(s, Nothing, rooms, rooms)
      PROVE  Writes(Nothing, rooms)
  BY <1>0, <1>2, BroadcastWrites
<1>3. ASSUME NEW u \in User, \/ Connect(u) \/ LoadRoomInfo(u) \/ CheckControl(u)
                             \/ RejectControl(u) \/ VerifyRead(u)
      PROVE  UNCHANGED << sending, link >>
  BY <1>3 DEF Connect, LoadRoomInfo, CheckControl, RejectControl, VerifyRead, stream
<1>4. ASSUME NEW u \in User, Resume(u)
      PROVE  UNCHANGED << sending, link >> \/ Writes(Nothing, rooms)
  <2>1. ~Busy(u)
    BY <1>4 DEF Resume, Handlers, Silent
  <2> QED
    BY <1>2, <1>4, <2>1 DEF Resume, stream
<1>5. ASSUME NEW u \in User, Announce(u) PROVE Writes(Nothing, Others(u))
  <2>1. ~Busy(u) /\ Broadcast(u, Nothing, rooms, Others(u))
    BY <1>5 DEF Announce, Handlers, Silent
  <2>2. rooms = {} => Others(u) \cap open = {}
    BY <1>0
  <2> QED
    BY <1>0, <2>1, <2>2, BroadcastWrites
<1>6. ASSUME NEW u \in User, Part(u) PROVE Writes(Nothing, rooms)
  BY <1>2, <1>6 DEF Part
<1>7. ASSUME NEW u \in User, Finally(u), u # Host, Remaining(u)
      PROVE  Writes(Nothing, Others(u))
  <2>1. ~Busy(u) /\ Broadcast(u, Nothing, Others(u), Others(u))
    BY <1>7 DEF Finally, Remaining
  <2> QED
    BY <1>0, <2>1, BroadcastWrites
<1>8. ASSUME NEW u \in User, Finally(u), ~Remaining(u) PROVE UNCHANGED << sending, link >>
  BY <1>8 DEF Finally, Forget
<1>9. ASSUME ChangeCommit \/ UNCHANGED vars PROVE UNCHANGED << sending, link >>
  BY <1>9 DEF ChangeCommit, vars, stream
<1>10. ASSUME Beat PROVE Writes(Nothing, rooms)
  BY <1>2, <1>10 DEF Beat
<1>11. ASSUME NEW s \in Sender, SendNext(s) PROVE Writes(Nothing, {})
  BY <1>11, SendNextWrites
<1>12. ASSUME NEW u \in User, VerifyMismatch(u) PROVE Writes(Nothing, {u})
  <2>1. ~Busy(u) /\ SendToUser(u, Nothing)
    BY <1>12 DEF VerifyMismatch, Handlers, Silent
  <2> QED
    BY <1>0, <2>1, SendToUserWrites
<1> QED
  BY <1>0, <1>1, <1>3, <1>4, <1>5, <1>6, <1>7, <1>8, <1>9, <1>10, <1>11, <1>12
  DEF SilentStep

\* The others, and what they say.
LEMMA GreetWrites ==
    ASSUME Inv, NEW u \in User, Greet(u)
    PROVE  Snapshot(seen[u]) \in Body /\ Writes(Snapshot(seen[u]), {u})
<1>1. Snapshot(seen[u]) \in Body
  BY BodyTypes DEF Inv, TypeOK
<1> QED
  BY <1>1, SendToUserWrites DEF Greet

LEMMA ResyncWrites ==
    ASSUME Inv, NEW u \in User, Resync(u)
    PROVE  SyncState \in Body /\ Writes(SyncState, {u})
<1>1. SyncState \in Body
  BY BodyTypes DEF Inv, TypeOK, Resync, roomState
<1>2. PICK body \in Body : body = SyncState
  BY <1>1
<1>3. SendToUser(u, body) /\ ~Busy(u)
  BY <1>2 DEF Resync, Serving
<1>4. Writes(body, {u})
  BY <1>3, SendToUserWrites
<1> QED
  BY <1>1, <1>2, <1>4

LEMMA MatchWrites ==
    ASSUME Inv, Handlers, NEW u \in User, VerifyMatch(u)
    PROVE  Verified(seen[u]) \in Body /\ Writes(Verified(seen[u]), {u})
<1>1. Verified(seen[u]) \in Body
  BY BodyTypes DEF Inv, TypeOK
<1> QED
  BY <1>1, SendToUserWrites DEF VerifyMatch, Handlers, Silent

LEMMA ControlWrites ==
    ASSUME Inv, Handlers, NEW u \in User, NEW play \in BOOLEAN, Control(u, play)
    PROVE  SyncState \in Body /\ Writes(SyncState, rooms)
<1>1. SyncState \in Body
  BY BodyTypes DEF Inv, TypeOK, Control
<1>2. PICK body \in Body : body = SyncState
  BY <1>1
<1>3. Broadcast(u, body, rooms, rooms) /\ ~Busy(u) /\ u \in Sender
  BY <1>2, SenderType DEF Control, Handlers, Silent
<1>4. rooms = {} => rooms \cap open = {}
  OBVIOUS
<1>5. Writes(body, rooms)
  BY <1>3, <1>4, BroadcastWrites
<1> QED
  BY <1>1, <1>2, <1>5

LEMMA AutopauseWrites ==
    ASSUME Inv, Finally(Host), Remaining(Host)
    PROVE  Autopause \in Body /\ Writes(Autopause, Others(Host))
<1>1. Autopause \in Body
  BY BodyTypes DEF Inv, TypeOK, Remaining
<1>2. PICK body \in Body : body = Autopause
  BY <1>1
<1>3. Broadcast(Host, body, Others(Host), Others(Host)) /\ ~Busy(Host) /\ Host \in Sender
  BY <1>2, SenderType DEF Finally, Remaining
<1>4. Writes(body, Others(Host))
  BY <1>3, BroadcastWrites
<1> QED
  BY <1>1, <1>2, <1>4

LEMMA PublishWrites ==
    ASSUME Inv, Handlers, ChangePublish
    PROVE  Verified(seen[Host]) \in Body /\ Writes(Verified(seen[Host]), {Host})
<1>1. Verified(seen[Host]) \in Body
  BY BodyTypes, HostAssumption DEF Inv, TypeOK
<1> QED
  BY <1>1, HostAssumption, SendToUserWrites DEF ChangePublish, Handlers, Silent

LEMMA TellWrites ==
    ASSUME Inv, Handlers, ChangeTell
    PROVE  FileChanged(seen[Host]) \in Body /\ Writes(FileChanged(seen[Host]), Others(Host))
<1>1. FileChanged(seen[Host]) \in Body
  BY BodyTypes, HostAssumption DEF Inv, TypeOK
<1>2. /\ Broadcast(Host, FileChanged(seen[Host]), rooms, Others(Host))
      /\ ~Busy(Host) /\ Host \in Sender
  BY HostAssumption, SenderType DEF ChangeTell, Handlers, Silent
<1>3. rooms = {} => Others(Host) \cap open = {}
  BY DEF Others
<1> QED
  BY <1>1, <1>2, <1>3, BroadcastWrites

\* The steps of the system, sorted by what they send.
LEMMA NextSays ==
    ASSUME [Next]_vars
    PROVE  \/ SilentStep
           \/ \E u \in User : Greet(u) \/ Resync(u) \/ \E play \in BOOLEAN : Control(u, play)
           \/ \E u \in User : VerifyMatch(u)
           \/ Finally(Host) /\ Remaining(Host)
           \/ ChangePublish
           \/ ChangeTell
           \/ \E u \in User : Lose(u) \/ Receive(u)
BY DEF Next, HandlerStep, SilentStep

-----------------------------------------------------------------------------
(* What a client will believe.                                             *)

FileKinds == {"room_state", "file_changed", "file_verify_response"}
SnapshotKinds == {"room_state", "sync_state"}

\* The message of some kinds among P that a client reads last if it drops none.
Last(m, kinds, P) ==
    m \in P /\ m.body.type \in kinds /\ \A n \in P : n.body.type \in kinds => n.seq <= m.seq

\* With the messages P to come, a client that believes in a file comes to believe in v,
FileSettles(P, file, v) ==
    /\ \A m \in P : Last(m, FileKinds, P) => m.body.version = v
    /\ (\A m \in P : m.body.type \notin FileKinds) => file = v

\* and one with snapshot s comes to believe that version v plays just when p.
PlaySettles(P, s, v, p) ==
    /\ \A m \in P : Last(m, SnapshotKinds, P) =>
          (m.body.version = v /\ m.body.playing = TRUE <=> p = TRUE)
    /\ (\A m \in P : m.body.type \notin SnapshotKinds) =>
          (s.version = v /\ s.playing = TRUE <=> p = TRUE)

\* A message that says nothing of the file, or nothing of the playback, changes nothing.
LEMMA OtherSettles ==
    ASSUME NEW P, NEW m
    PROVE  /\ \A file, v : m.body.type \notin FileKinds /\ FileSettles(P, file, v)
                              => FileSettles(P \cup {m}, file, v)
           /\ \A s, v, p : m.body.type \notin SnapshotKinds /\ PlaySettles(P, s, v, p)
                              => PlaySettles(P \cup {m}, s, v, p)
BY DEF FileSettles, PlaySettles, Last

\* A message with a new number has the last word.
LEMMA NewSettles ==
    ASSUME NEW P \in SUBSET Message, NEW m \in Message, \A n \in P : n.seq < m.seq
    PROVE  /\ \A file, v : m.body.type \in FileKinds /\ m.body.version = v
                              => FileSettles(P \cup {m}, file, v)
           /\ \A s, v, p :
                 m.body.type \in SnapshotKinds
                 /\ (m.body.version = v /\ m.body.playing = TRUE <=> p = TRUE)
                    => PlaySettles(P \cup {m}, s, v, p)
<1>1. \A n \in P \cup {m} : n.seq \in Nat /\ (n # m => n.seq < m.seq)
  BY BoundsAssumption DEF Message
<1>2. \A kinds, n : m.body.type \in kinds /\ Last(n, kinds, P \cup {m}) => n = m
  BY <1>1 DEF Last
<1>3. \A file, v : m.body.type \in FileKinds /\ m.body.version = v
                      => FileSettles(P \cup {m}, file, v)
  BY <1>2 DEF FileSettles
<1>4. \A s, v, p : m.body.type \in SnapshotKinds
                   /\ (m.body.version = v /\ m.body.playing = TRUE <=> p = TRUE)
                      => PlaySettles(P \cup {m}, s, v, p)
  BY <1>2 DEF PlaySettles
<1> QED
  BY <1>3, <1>4

\* When the first message is read and what it says is taken, the rest has the last word.
LEMMA ReadSettles ==
    ASSUME NEW P \in SUBSET Message, NEW m \in P, NEW Q \in SUBSET P,
           P \subseteq Q \cup {m}, \A n \in Q : n.seq > m.seq
    PROVE  /\ \A file, v : FileSettles(P, file, v) =>
                 FileSettles(Q, IF m.body.type \in FileKinds THEN m.body.version ELSE file, v)
           /\ \A s, v, p : PlaySettles(P, s, v, p) =>
                 PlaySettles(Q, IF m.body.type \in SnapshotKinds
                                THEN [version |-> m.body.version, playing |-> m.body.playing]
                                ELSE s, v, p)
<1>1. \A n \in P : n.seq \in Nat /\ (n # m => n \in Q /\ m.seq < n.seq)
  BY BoundsAssumption DEF Message
<1>2. \A kinds : \A n \in Q : Last(n, kinds, Q) => Last(n, kinds, P)
  BY <1>1 DEF Last
<1>3. \A kinds : m.body.type \in kinds /\ (\A n \in Q : n.body.type \notin kinds)
                    => Last(m, kinds, P)
  BY <1>1 DEF Last
<1>4. ASSUME NEW file, NEW v, FileSettles(P, file, v)
      PROVE  FileSettles(Q, IF m.body.type \in FileKinds THEN m.body.version ELSE file, v)
  <2>1. \A n \in Q : Last(n, FileKinds, Q) => n.body.version = v
    BY <1>2, <1>4 DEF FileSettles
  <2>2. ASSUME \A n \in Q : n.body.type \notin FileKinds
        PROVE  (IF m.body.type \in FileKinds THEN m.body.version ELSE file) = v
    <3>1. CASE m.body.type \in FileKinds
      BY <1>3, <1>4, <2>2, <3>1 DEF FileSettles
    <3>2. CASE m.body.type \notin FileKinds
      BY <1>1, <1>4, <2>2, <3>2 DEF FileSettles
    <3> QED
      BY <3>1, <3>2
  <2> QED
    BY <2>1, <2>2 DEF FileSettles
<1>5. ASSUME NEW s, NEW v, NEW p, PlaySettles(P, s, v, p)
      PROVE  PlaySettles(Q, IF m.body.type \in SnapshotKinds
                            THEN [version |-> m.body.version, playing |-> m.body.playing]
                            ELSE s, v, p)
  <2>1. \A n \in Q : Last(n, SnapshotKinds, Q) =>
           (n.body.version = v /\ n.body.playing = TRUE <=> p = TRUE)
    BY <1>2, <1>5 DEF PlaySettles
  <2>2. CASE m.body.type \in SnapshotKinds
    <3>1. (\A n \in Q : n.body.type \notin SnapshotKinds) =>
             (m.body.version = v /\ m.body.playing = TRUE <=> p = TRUE)
      BY <1>3, <1>5, <2>2 DEF PlaySettles
    <3> QED
      BY <2>1, <2>2, <3>1 DEF PlaySettles
  <2>3. CASE m.body.type \notin SnapshotKinds
    <3>1. (\A n \in Q : n.body.type \notin SnapshotKinds) =>
             (s.version = v /\ s.playing = TRUE <=> p = TRUE)
      BY <1>1, <1>5, <2>3 DEF PlaySettles
    <3> QED
      BY <2>1, <2>3, <3>1 DEF PlaySettles
  <2> QED
    BY <2>2, <2>3
<1> QED
  BY <1>4, <1>5

-----------------------------------------------------------------------------
(* What clients have heard.                                                *)

LEMMA VersionTypes ==
    ASSUME Inv
    PROVE  TypeOK /\ dbVersion \in Nat /\ version \in Nat /\ seen \in [User -> Nat]
BY BoundsAssumption DEF Inv, TypeOK

\* Nobody has heard of a version that was never committed.
Heard ==
    \A u \in User :
       /\ fileVersion[u] <= dbVersion /\ snapshot[u].version <= dbVersion
       /\ \A m \in Pending(u) : m.body.version <= dbVersion

\* Unless something was torn, nobody has heard of the file that is being published, but
\* for its number in the snapshot of a playback that is paused.
Unheard ==
    ~torn /\ Publishing => \A u \in User :
       /\ fileVersion[u] < dbVersion
       /\ ~(snapshot[u].version = dbVersion /\ snapshot[u].playing)
       /\ \A m \in Pending(u) :
             /\ m.body.type \in FileKinds => m.body.version < dbVersion
             /\ m.body.type \in SnapshotKinds => ~(m.body.version = dbVersion /\ m.body.playing)

LEMMA InitHeard == Init => Heard /\ Unheard
<1> SUFFICES ASSUME Init PROVE Heard /\ Unheard
  OBVIOUS
<1>1. \A u \in User : Pending(u) = {}
  <2>1. \A u \in User : Elements(link[u]) = {}
    <3>1. Elements(<<>>) = {}
      BY DEF Elements
    <3> QED
      BY <3>1 DEF Init
  <2>2. \A s \in Sender : sending[s].rest = {}
    BY DEF Init, Idle
  <2> QED
    BY <2>1, <2>2 DEF Pending
<1>2. ~Publishing
  BY HostAssumption DEF Init, Publishing
<1> QED
  BY <1>1, <1>2 DEF Init, Heard, Unheard

\* What a client takes from a message it reads.
LEMMA ReceiveTakes ==
    ASSUME Inv, NEW u \in User, Receive(u)
    PROVE  \E m \in Pending(u) :
              /\ Pending(u)' \subseteq Pending(u) /\ Pending(u) \subseteq Pending(u)' \cup {m}
              /\ \A w \in User \ {u} : Pending(w)' = Pending(w)
              /\ \/ /\ m.seq > lastSeq[u] /\ lastSeq' = [lastSeq EXCEPT ![u] = m.seq]
                    /\ fileVersion' = [fileVersion EXCEPT ![u] =
                          IF m.body.type \in FileKinds THEN m.body.version ELSE @]
                    /\ snapshot' = [snapshot EXCEPT ![u] =
                          IF m.body.type \in SnapshotKinds
                          THEN [version |-> m.body.version, playing |-> m.body.playing] ELSE @]
                    /\ missed' = missed
                 \/ missed' = missed \cup {u} /\ UNCHANGED client
<1>1. link[u] \in Seq(Message) /\ link[u] # <<>> /\ TypeOK
  BY DEF Receive, Inv, TypeOK
<1>2. PICK m : m = Head(link[u])
  OBVIOUS
<1>3. Elements(Tail(link[u])) \subseteq Elements(link[u])
      /\ Elements(link[u]) \subseteq Elements(Tail(link[u])) \cup {m}
      /\ m \in Elements(link[u])
  <2>1. PICK q, t : q = link[u] /\ t = Tail(link[u])
    OBVIOUS
  <2> DEFINE n == Len(q)
  <2>2. /\ n \in Nat /\ n >= 1 /\ Len(t) = n - 1 /\ m = q[1]
        /\ \A i \in 1..(n - 1) : t[i] = q[i + 1]
    BY <1>1, <1>2, <2>1, HeadTailProperties, LenProperties
  <2> HIDE DEF n
  <2>3. \A i \in 1..(n - 1) : i + 1 \in 1..n
    BY <2>2
  <2>4. \A i \in 1..n : i = 1 \/ (i - 1 \in 1..(n - 1) /\ q[i] = t[i - 1])
    BY <2>2
  <2>5. 1 \in 1..n
    BY <2>2
  <2>6. {t[i] : i \in 1..(n - 1)} \subseteq {q[i] : i \in 1..n}
    BY <2>2, <2>3
  <2>7. {q[i] : i \in 1..n} \subseteq {t[i] : i \in 1..(n - 1)} \cup {m}
    BY <2>2, <2>4
  <2>8. m \in {q[i] : i \in 1..n}
    BY <2>2, <2>5
  <2>9. Elements(q) = {q[i] : i \in 1..n} /\ Elements(t) = {t[i] : i \in 1..(n - 1)}
    BY <2>2 DEF Elements, n
  <2> QED
    BY <2>1, <2>6, <2>7, <2>8, <2>9
<1>4. link' = [link EXCEPT ![u] = Tail(@)] /\ sending' = sending
  BY DEF Receive
<1>5. link'[u] = Tail(link[u]) /\ \A w \in User \ {u} : link'[w] = link[w]
  BY <1>1, <1>4 DEF TypeOK
<1>6. /\ m \in Pending(u)
      /\ Pending(u)' \subseteq Pending(u) /\ Pending(u) \subseteq Pending(u)' \cup {m}
      /\ \A w \in User \ {u} : Pending(w)' = Pending(w)
  BY <1>3, <1>4, <1>5 DEF Pending
<1>7. CASE Accepts(u, m)
  <2>1. lastSeq' = [lastSeq EXCEPT ![u] = m.seq] /\ Apply(u, m.body) /\ missed' = missed
    BY <1>2, <1>7 DEF Receive
  <2>2. fileVersion' = [fileVersion EXCEPT ![u] =
           IF m.body.type \in FileKinds THEN m.body.version ELSE @]
    BY <1>1, <2>1 DEF Apply, FileKinds, TypeOK
  <2>3. snapshot' = [snapshot EXCEPT ![u] =
           IF m.body.type \in SnapshotKinds
           THEN [version |-> m.body.version, playing |-> m.body.playing] ELSE @]
    BY <1>1, <2>1 DEF Apply, SnapshotKinds, TypeOK
  <2> QED
    BY <1>6, <1>7, <2>1, <2>2, <2>3 DEF Accepts
<1>8. CASE ~Accepts(u, m)
  BY <1>2, <1>6, <1>8 DEF Receive
<1> QED
  BY <1>7, <1>8

\* A lost connection takes what was on its way with it.
LEMMA LosePends ==
    ASSUME Inv, NEW u \in User, Lose(u)
    PROVE  Pending(u)' = {} /\ \A w \in User \ {u} : Pending(w)' = Pending(w)
<1>1. link' = [link EXCEPT ![u] = <<>>] /\ link \in [User -> Seq(Message)]
  BY DEF Lose, Inv, TypeOK
<1>2. \A s \in Sender : sending'[s] =
          IF sending[s].rest \subseteq {u} THEN Idle ELSE [sending[s] EXCEPT !.rest = @ \ {u}]
  BY DEF Lose
<1>3. \A s \in Sender : sending[s] \in [message : Message, rest : SUBSET User]
  BY DEF Inv, TypeOK
<1>4. ASSUME NEW s \in Sender
      PROVE  /\ sending'[s].rest = sending[s].rest \ {u}
             /\ sending'[s].rest # {} => sending'[s].message = sending[s].message
  <2>1. CASE sending[s].rest \subseteq {u}
    <3>1. sending'[s] = Idle
      BY <1>2, <2>1
    <3> QED
      BY <2>1, <3>1 DEF Idle
  <2>2. CASE ~(sending[s].rest \subseteq {u})
    <3>1. sending'[s] = [sending[s] EXCEPT !.rest = @ \ {u}]
      BY <1>2, <2>2
    <3> QED
      BY <1>3, <3>1
  <2> QED
    BY <2>1, <2>2
<1>5. Elements(link'[u]) = {} /\ \A w \in User \ {u} : link'[w] = link[w]
  BY <1>1 DEF Elements
<1>6. ASSUME NEW w \in User \ {u}
      PROVE  {sending'[s].message : s \in {r \in Sender : w \in sending'[r].rest}}
                = {sending[s].message : s \in {r \in Sender : w \in sending[r].rest}}
  <2>1. \A s \in Sender : w \in sending'[s].rest <=> w \in sending[s].rest
    BY <1>4
  <2>2. \A s \in Sender : w \in sending'[s].rest => sending'[s].message = sending[s].message
    BY <1>4
  <2> QED
    BY <2>1, <2>2
<1>7. {sending'[s].message : s \in {r \in Sender : u \in sending'[r].rest}} = {}
  BY <1>4
<1> QED
  BY <1>5, <1>6, <1>7 DEF Pending

LEMMA WritesHeard ==
    ASSUME Inv, Inv', Heard, NEW body \in Body, NEW to, Writes(body, to),
           body.version <= dbVersion, dbVersion <= dbVersion',
           UNCHANGED << fileVersion, snapshot >>
    PROVE  Heard'
<1>0. /\ dbVersion \in Nat /\ dbVersion' \in Nat
      /\ fileVersion \in [User -> Nat] /\ \A u \in User : snapshot[u].version \in Nat
      /\ body.version \in Nat
  BY BoundsAssumption DEF Inv, TypeOK, Body
<1>1. ASSUME NEW u \in User, NEW m \in Pending(u)' PROVE m.body.version <= dbVersion'
  <2>1. CASE m \in Pending(u)
    <3>1. m.body.version <= dbVersion /\ m.body.version \in Nat
      BY <2>1, PendingType, BoundsAssumption DEF Heard, Message, Body
    <3> QED
      BY <1>0, <3>1
  <2>2. CASE m \notin Pending(u)
    <3>1. m.body = body
      BY <1>1, <2>2 DEF Writes
    <3> QED
      BY <1>0, <3>1
  <2> QED
    BY <2>1, <2>2
<1> QED
  BY <1>0, <1>1 DEF Heard

LEMMA NextHeard == Inv /\ Handlers /\ Versions /\ Heard /\ [Next]_vars => Heard'
<1> SUFFICES ASSUME Inv, Handlers, Versions, Heard, [Next]_vars PROVE Heard'
  OBVIOUS
<1>0. /\ Inv' /\ TypeOK
      /\ dbVersion \in Nat /\ version \in Nat /\ seen \in [User -> Nat]
  BY NextInv, VersionTypes
<1>1. CASE SilentStep
  <2>1. UNCHANGED << fileVersion, snapshot >> /\ dbVersion' \in {dbVersion, dbVersion + 1}
    BY <1>1 DEF SilentStep, Connect, LoadRoomInfo, Resume, Announce, CheckControl,
                RejectControl, VerifyRead, VerifyMismatch, Part, Finally, ChangeCommit, Beat,
                SendNext, vars, client
  <2>2. Nothing \in Body /\ Nothing.version <= dbVersion
    BY <1>0, BodyTypes DEF Nothing
  <2> QED
    BY <1>0, <1>1, <2>1, <2>2, SilentWrites, WritesHeard
<1>2. ASSUME NEW u \in User, Greet(u) PROVE Heard'
  <2>1. UNCHANGED << dbVersion, fileVersion, snapshot >>
    BY <1>2 DEF Greet, client
  <2>2. PICK body, to : body = Snapshot(seen[u]) /\ body \in Body /\ Writes(body, to)
    BY <1>2, GreetWrites
  <2>3. body.version <= dbVersion
    BY <2>2 DEF Snapshot, Versions
  <2> QED
    BY <1>0, <2>1, <2>2, <2>3, WritesHeard
<1>3. ASSUME NEW u \in User, Resync(u) \/ \E play \in BOOLEAN : Control(u, play) PROVE Heard'
  <2>1. version' = version /\ UNCHANGED << dbVersion, fileVersion, snapshot >>
    BY <1>3 DEF Resync, Control, roomState, client
  <2>2. PICK body, to : body = SyncState /\ body \in Body /\ Writes(body, to)
    BY <1>3, ResyncWrites, ControlWrites
  <2>3. body.version <= dbVersion
    BY <2>1, <2>2 DEF SyncState, Versions
  <2> QED
    BY <1>0, <2>1, <2>2, <2>3, WritesHeard
<1>4. CASE Finally(Host) /\ Remaining(Host)
  <2>1. version' = version /\ UNCHANGED << dbVersion, fileVersion, snapshot >>
    BY <1>4 DEF Finally, Remaining, client
  <2>2. PICK body, to : body = Autopause /\ body \in Body /\ Writes(body, to)
    BY <1>4, AutopauseWrites
  <2>3. body.version <= dbVersion
    BY <2>1, <2>2 DEF Autopause, Versions
  <2> QED
    BY <1>0, <2>1, <2>2, <2>3, WritesHeard
<1>5. CASE ChangePublish
  <2>1. UNCHANGED << dbVersion, fileVersion, snapshot >>
    BY <1>5 DEF ChangePublish, client
  <2>2. PICK body, to : body = Verified(seen[Host]) /\ body \in Body /\ Writes(body, to)
    BY <1>5, PublishWrites
  <2>3. body.version <= dbVersion
    BY <2>2, HostAssumption DEF Verified, Versions
  <2> QED
    BY <1>0, <2>1, <2>2, <2>3, WritesHeard
<1>6. CASE ChangeTell
  <2>1. UNCHANGED << dbVersion, fileVersion, snapshot >>
    BY <1>6 DEF ChangeTell, client
  <2>2. PICK body, to : body = FileChanged(seen[Host]) /\ body \in Body /\ Writes(body, to)
    BY <1>6, TellWrites
  <2>3. body.version <= dbVersion
    BY <2>2, HostAssumption DEF FileChanged, Versions
  <2> QED
    BY <1>0, <2>1, <2>2, <2>3, WritesHeard
<1>7. ASSUME NEW u \in User, Lose(u) PROVE Heard'
  BY <1>7, LosePends DEF Lose, client, Heard
<1>8. ASSUME NEW u \in User, Receive(u) PROVE Heard'
  <2>1. dbVersion' = dbVersion
    BY <1>8 DEF Receive
  <2>2. PICK m \in Pending(u) :
          /\ Pending(u)' \subseteq Pending(u)
          /\ \A w \in User \ {u} : Pending(w)' = Pending(w)
          /\ \/ /\ fileVersion' = [fileVersion EXCEPT ![u] =
                      IF m.body.type \in FileKinds THEN m.body.version ELSE @]
                /\ snapshot' = [snapshot EXCEPT ![u] =
                      IF m.body.type \in SnapshotKinds
                      THEN [version |-> m.body.version, playing |-> m.body.playing] ELSE @]
             \/ UNCHANGED client
    BY <1>8, ReceiveTakes
  <2>3. m.body.version <= dbVersion
    BY DEF Heard
  <2>4. \A w \in User : fileVersion'[w] <= dbVersion /\ snapshot'[w].version <= dbVersion
    <3>1. CASE UNCHANGED client
      BY <3>1 DEF Heard, client
    <3>2. CASE ~UNCHANGED client
      <4>1. \A w \in User \ {u} : fileVersion'[w] = fileVersion[w] /\ snapshot'[w] = snapshot[w]
        BY <1>0, <2>2, <3>2 DEF TypeOK
      <4>2. fileVersion'[u] \in {fileVersion[u], m.body.version}
        BY <1>0, <2>2, <3>2 DEF TypeOK
      <4>3. snapshot'[u] = snapshot[u] \/ snapshot'[u].version = m.body.version
        BY <1>0, <2>2, <3>2 DEF TypeOK
      <4> QED
        BY <2>3, <4>1, <4>2, <4>3 DEF Heard
    <3> QED
      BY <3>1, <3>2
  <2> QED
    BY <2>1, <2>2, <2>4 DEF Heard
<1>9. ASSUME NEW u \in User, VerifyMatch(u) PROVE Heard'
  <2>1. UNCHANGED << dbVersion, fileVersion, snapshot >>
    BY <1>9 DEF VerifyMatch, client
  <2>2. PICK body, to : body = Verified(seen[u]) /\ body \in Body /\ Writes(body, to)
    BY <1>9, MatchWrites
  <2>3. body.version <= dbVersion
    BY <2>2 DEF Verified, Versions
  <2> QED
    BY <1>0, <2>1, <2>2, <2>3, WritesHeard
<1> QED
  BY <1>1, <1>2, <1>3, <1>4, <1>5, <1>6, <1>7, <1>8, <1>9, NextSays

LEMMA WritesUnheard ==
    ASSUME Inv, Unheard, NEW body \in Body, NEW to, Writes(body, to),
           body.type \in FileKinds => body.version < dbVersion,
           body.type \in SnapshotKinds => ~(body.version = dbVersion /\ body.playing),
           ~torn' /\ Publishing' => ~torn /\ Publishing,
           UNCHANGED << dbVersion, fileVersion, snapshot >>
    PROVE  Unheard'
<1> SUFFICES ASSUME ~torn, Publishing PROVE Unheard'
  BY DEF Unheard
<1>1. ASSUME NEW u \in User, NEW m \in Pending(u)'
      PROVE  m \in Pending(u) \/ m.body = body
  BY <1>1 DEF Writes
<1>2. ASSUME NEW u \in User, NEW m \in Pending(u)'
      PROVE  /\ m.body.type \in FileKinds => m.body.version < dbVersion
             /\ m.body.type \in SnapshotKinds => ~(m.body.version = dbVersion /\ m.body.playing)
  <2>1. CASE m \in Pending(u)
    BY <2>1 DEF Unheard
  <2>2. CASE m.body = body
    BY <2>2
  <2> QED
    BY <1>1, <1>2, <2>1, <2>2
<1> QED
  BY <1>2 DEF Unheard

LEMMA NextUnheard ==
    Inv /\ Handlers /\ Versions /\ Whole /\ Heard /\ Unheard /\ [Next]_vars => Unheard'
<1> SUFFICES ASSUME Inv, Handlers, Versions, Whole, Heard, Unheard, [Next]_vars
             PROVE  Unheard'
  OBVIOUS
<1> USE HostAssumption
<1>0. /\ Inv' /\ TypeOK
      /\ dbVersion \in Nat /\ version \in Nat
  BY NextInv, VersionTypes
\* Where no file is being published there is nothing to show.
<1>1. ASSUME ~Publishing' \/ torn' PROVE Unheard'
  BY <1>1 DEF Unheard
<1>2. CASE SilentStep /\ ~ChangeCommit
  <2>1. UNCHANGED << dbVersion, fileVersion, snapshot >> /\ torn' = torn
    BY <1>2 DEF SilentStep, Connect, LoadRoomInfo, Resume, Announce, CheckControl,
                RejectControl, VerifyRead, VerifyMismatch, Part, Finally, Beat, SendNext, vars,
                client, history
  <2>2. Publishing' => Publishing
    BY <1>0, <1>2 DEF SilentStep, Connect, LoadRoomInfo, Resume, Announce, CheckControl,
                RejectControl, VerifyRead, VerifyMismatch, Part, Finally, Beat, SendNext, vars,
                Goto, Publishing, TypeOK
  <2>3. Nothing \in Body /\ Nothing.type \notin FileKinds \cup SnapshotKinds
    BY <1>0, BodyTypes DEF Nothing, FileKinds, SnapshotKinds
  <2>4. PICK to : Writes(Nothing, to)
    BY <1>2, SilentWrites
  <2> QED
    BY <2>1, <2>2, <2>3, <2>4, WritesUnheard
<1>3. CASE ChangeCommit
  <2>1. /\ dbVersion' = dbVersion + 1 /\ UNCHANGED << fileVersion, snapshot, link, sending >>
    BY <1>3 DEF ChangeCommit, client, stream
  <2>2. \A u \in User : Pending(u)' = Pending(u)
    BY <2>1 DEF Pending
  <2>3. \A u \in User : \A m \in Pending(u) : m.body.version \in Nat
    BY PendingType, BoundsAssumption DEF Message, Body
  <2>4. \A u \in User : fileVersion[u] \in Nat /\ snapshot[u].version \in Nat
    BY <1>0, BoundsAssumption DEF TypeOK
  <2>5. \A u \in User :
           /\ fileVersion[u] < dbVersion + 1 /\ snapshot[u].version # dbVersion + 1
           /\ \A m \in Pending(u) : m.body.version < dbVersion + 1
                                    /\ m.body.version # dbVersion + 1
    BY <1>0, <2>3, <2>4 DEF Heard
  <2> QED
    BY <2>1, <2>2, <2>5 DEF Unheard
<1>4. ASSUME NEW u \in User, Greet(u) PROVE Unheard'
  <2>1. /\ torn' = (torn \/ seen[u] # version \/ pc[Host] = "publishing")
        /\ pc[u] = "greeting" /\ pc' = [pc EXCEPT ![u] = "announcing"]
    BY <1>4 DEF Greet, Goto
  <2>2. ~Publishing' \/ torn'
    BY <1>0, <2>1 DEF Publishing, TypeOK
  <2> QED
    BY <1>1, <2>2
<1>5. ASSUME NEW u \in User, Resync(u) \/ \E play \in BOOLEAN : Control(u, play)
      PROVE  Unheard'
  <2>1. version' = version /\ UNCHANGED << dbVersion, fileVersion, snapshot >>
    BY <1>5 DEF Resync, Control, roomState, client
  <2>2. PICK body, to : body = SyncState /\ body \in Body /\ Writes(body, to)
    BY <1>5, ResyncWrites, ControlWrites
  <2>3. ~torn' => ~torn
    BY <1>5 DEF Resync, Control, history
  <2>4. Publishing' => Publishing
    BY <1>0, <1>5 DEF Resync, Control, Goto, Publishing, TypeOK
  <2>5. ASSUME ~torn, Publishing PROVE ~(version' = dbVersion /\ playing')
    <3>1. playing' => playing \/ pc[u] = "checked"
      BY <1>5 DEF Resync, Control, roomState
    <3> QED
      BY <1>0, <2>1, <2>5, <3>1 DEF Whole
  <2>6. body.version = version' /\ body.playing = playing' /\ body.type = "sync_state"
    BY <2>2 DEF SyncState
  <2>7. CASE ~torn /\ Publishing
    BY <2>1, <2>2, <2>3, <2>4, <2>5, <2>6, <2>7, WritesUnheard DEF FileKinds
  <2>8. CASE torn \/ ~Publishing
    BY <1>1, <2>3, <2>4, <2>8, <1>0 DEF Unheard
  <2> QED
    BY <2>7, <2>8
<1>6. CASE Finally(Host) /\ Remaining(Host)
  <2>1. ~Publishing'
    BY <1>0, <1>6 DEF Finally, Goto, Publishing, TypeOK
  <2> QED
    BY <1>1, <2>1
<1>7. CASE ChangePublish \/ ChangeTell
  <2>1. ~Publishing'
    BY <1>0, <1>7 DEF ChangePublish, ChangeTell, Goto, Publishing, TypeOK
  <2> QED
    BY <1>1, <2>1
<1>8. ASSUME NEW u \in User, Lose(u) PROVE Unheard'
  BY <1>8, LosePends DEF Lose, client, Unheard, Publishing
<1>9. ASSUME NEW u \in User, Receive(u) PROVE Unheard'
  <2> SUFFICES ASSUME ~torn, Publishing PROVE Unheard'
    BY <1>9 DEF Receive, Unheard, Publishing
  <2>1. dbVersion' = dbVersion
    BY <1>9 DEF Receive
  <2>2. PICK m \in Pending(u) :
          /\ Pending(u)' \subseteq Pending(u)
          /\ \A w \in User \ {u} : Pending(w)' = Pending(w)
          /\ \/ /\ fileVersion' = [fileVersion EXCEPT ![u] =
                      IF m.body.type \in FileKinds THEN m.body.version ELSE @]
                /\ snapshot' = [snapshot EXCEPT ![u] =
                      IF m.body.type \in SnapshotKinds
                      THEN [version |-> m.body.version, playing |-> m.body.playing] ELSE @]
             \/ UNCHANGED client
    BY <1>9, ReceiveTakes
  <2>3. \A w \in User : fileVersion'[w] < dbVersion
    BY <1>0, <2>2 DEF Unheard, TypeOK, client
  <2>4. \A w \in User : ~(snapshot'[w].version = dbVersion /\ snapshot'[w].playing)
    <3>1. CASE UNCHANGED client
      BY <3>1 DEF Unheard, client
    <3>2. CASE ~UNCHANGED client
      <4>1. \A w \in User \ {u} : snapshot'[w] = snapshot[w]
        BY <1>0, <2>2, <3>2 DEF TypeOK
      <4>2. snapshot'[u] = IF m.body.type \in SnapshotKinds
               THEN [version |-> m.body.version, playing |-> m.body.playing] ELSE snapshot[u]
        BY <1>0, <2>2, <3>2 DEF TypeOK
      <4>3. m.body.type \in SnapshotKinds => ~(m.body.version = dbVersion /\ m.body.playing)
        BY DEF Unheard
      <4>4. ~(snapshot'[u].version = dbVersion /\ snapshot'[u].playing)
        BY <4>2, <4>3 DEF Unheard
      <4> QED
        BY <4>1, <4>4 DEF Unheard
    <3> QED
      BY <3>1, <3>2
  <2> QED
    BY <2>1, <2>2, <2>3, <2>4 DEF Unheard
<1>10. ASSUME NEW u \in User, VerifyMatch(u) PROVE Unheard'
  <2>1. /\ UNCHANGED << dbVersion, fileVersion, snapshot >>
        /\ torn' = (torn \/ (pc[Host] = "publishing" /\ seen[u] = dbVersion))
        /\ pc[u] = "verifying" /\ pc' = [pc EXCEPT ![u] = "loop"]
    BY <1>10 DEF VerifyMatch, Goto, client
  <2>2. Publishing' => Publishing
    BY <1>0, <2>1 DEF Publishing, TypeOK
  <2>3. PICK body, to : body = Verified(seen[u]) /\ body \in Body /\ Writes(body, to)
    BY <1>10, MatchWrites
  <2>4. body.type \notin SnapshotKinds /\ body.version = seen[u]
    BY <2>3 DEF Verified, SnapshotKinds
  <2>5. CASE ~torn' /\ Publishing'
    <3>1. ~torn /\ seen[u] # dbVersion
      BY <2>1, <2>2, <2>5 DEF Publishing
    <3>2. seen[u] <= dbVersion /\ seen[u] \in Nat
      BY VersionTypes DEF Versions
    <3>3. body.version < dbVersion
      BY <1>0, <2>4, <3>1, <3>2
    <3> QED
      BY <2>1, <2>2, <2>3, <2>4, <3>1, <3>3, WritesUnheard
  <2>6. CASE ~Publishing' \/ torn'
    BY <1>1, <2>6
  <2> QED
    BY <2>5, <2>6
<1> QED
  BY <1>2, <1>3, <1>4, <1>5, <1>6, <1>7, <1>8, <1>9, <1>10, NextSays

-----------------------------------------------------------------------------
(* What clients settle on.                                                 *)

\* A client that has dropped nothing, nor will drop anything that is on its way now.
Follows(u) ==
    /\ u \in open /\ u \notin missed
    /\ \A m \in Pending(u) : m.seq > lastSeq[u]

\* The file of the RoomState has been told to the user, and no other one since.
Told(u) == ~Publishing /\ (pc[Host] = "telling" => u = Host) /\ u \notin late

\* Unless something was torn, whoever has been greeted and follows comes to believe what
\* the RoomState says: of the playback always, of the file once that has been told.
SettlesOn(u) ==
    /\ Told(u) => FileSettles(Pending(u), fileVersion[u], version)
    /\ PlaySettles(Pending(u), snapshot[u], version, playing)

Settled == ~torn => \A u \in User : Follows(u) /\ pc[u] \in Greeted => SettlesOn(u)

LEMMA InitSettled == Init => Settled
BY DEF Init, Settled, Follows

\* A message that is sent does not make a client follow.
LEMMA WritesFollows ==
    ASSUME NEW u \in User, NEW body, NEW to, Writes(body, to), Follows(u)',
           u \in open, missed' = missed, lastSeq'[u] = lastSeq[u]
    PROVE  Follows(u)
BY DEF Follows, Writes

\* A client hears a message that says nothing of the file, or of the playback.
LEMMA WritesOther ==
    ASSUME NEW u \in User, NEW body, NEW to, Writes(body, to)
    PROVE  /\ \A file, v : body.type \notin FileKinds /\ FileSettles(Pending(u), file, v)
                              => FileSettles(Pending(u)', file, v)
           /\ \A s, v, p : body.type \notin SnapshotKinds /\ PlaySettles(Pending(u), s, v, p)
                              => PlaySettles(Pending(u)', s, v, p)
<1>1. CASE Pending(u)' = Pending(u)
  BY <1>1
<1>2. CASE Pending(u)' # Pending(u)
  <2>1. PICK m : m = [seq |-> seq + 1, body |-> body]
    OBVIOUS
  <2>2. Pending(u)' = Pending(u) \cup {m} /\ m.body = body
    BY <1>2, <2>1 DEF Writes
  <2> QED
    BY <2>2, OtherSettles
<1> QED
  BY <1>1, <1>2

\* A client hears a message that does.
LEMMA WritesNew ==
    ASSUME Inv, Inv', NEW u \in open, NEW body \in Body, NEW to, Writes(body, to), u \in to,
           seq' = seq + 1
    PROVE  /\ \A file, v : body.type \in FileKinds /\ body.version = v
                              => FileSettles(Pending(u)', file, v)
           /\ \A s, v, p : body.type \in SnapshotKinds
                           /\ (body.version = v /\ body.playing = TRUE <=> p = TRUE)
                              => PlaySettles(Pending(u)', s, v, p)
<1>1. u \in User /\ seq \in Nat /\ seq + 1 \in 0..MaxSeq
  BY BoundsAssumption DEF Inv, TypeOK
<1>2. PICK m \in Message : m = [seq |-> seq + 1, body |-> body]
  BY <1>1 DEF Message
<1>3. Pending(u)' = Pending(u) \cup {m} /\ m.body = body
  BY <1>1, <1>2 DEF Writes
<1>4. Pending(u) \in SUBSET Message /\ \A n \in Pending(u) : n.seq \in Nat /\ n.seq <= seq
  BY <1>1, PendingType, BoundsAssumption DEF Message
<1>5. \A n \in Pending(u) : n.seq < m.seq
  BY <1>1, <1>2, <1>4
<1> DEFINE P == Pending(u)
<1>6. /\ \A file, v : m.body.type \in FileKinds /\ m.body.version = v
                         => FileSettles(P \cup {m}, file, v)
      /\ \A s, v, p : m.body.type \in SnapshotKinds
                      /\ (m.body.version = v /\ m.body.playing = TRUE <=> p = TRUE)
                         => PlaySettles(P \cup {m}, s, v, p)
  <2> HIDE DEF P
  <2>1. P \in SUBSET Message /\ \A n \in P : n.seq < m.seq
    BY <1>4, <1>5 DEF P
  <2> QED
    BY <2>1, NewSettles
<1> QED
  BY <1>3, <1>6

\* A broadcast that reaches somebody takes a number.
LEMMA BroadcastCounts ==
    ASSUME NEW s, NEW body, NEW connections, NEW to, Broadcast(s, body, connections, to),
           connections # {}
    PROVE  seq' = seq + 1
BY DEF Broadcast

\* Neither does it matter to those it is not for.
LEMMA WritesNotFor ==
    ASSUME NEW u \in User, NEW body, NEW to, Writes(body, to), u \notin to \cap open
    PROVE  Pending(u)' = Pending(u)
BY DEF Writes

\* Where no snapshot says that v plays, nobody comes to believe it.
LEMMA PausedSettles ==
    ASSUME NEW P, NEW s, NEW v, ~(s.version = v /\ s.playing),
           \A m \in P : m.body.type \in SnapshotKinds => ~(m.body.version = v /\ m.body.playing)
    PROVE  PlaySettles(P, s, v, FALSE)
BY DEF PlaySettles, Last

LEMMA TornStays == ASSUME [Next]_vars, ~torn' PROVE ~torn
BY DEF Next, HandlerStep, Connect, LoadRoomInfo, Resume, Greet, Announce, Resync,
       CheckControl, RejectControl, Control, VerifyRead, VerifyMatch, VerifyMismatch,
       Finally, Part, Lose, Receive, ChangeCommit, ChangePublish, ChangeTell, Beat, SendNext, history, vars

\* What the silent steps do to a client that is served before and after, and to what it
\* is to believe.
LEMMA SilentKeeps ==
    ASSUME Inv, Handlers, Versions, SilentStep, NEW u \in User, u \in open', pc'[u] \in Greeted
    PROVE  /\ u \in open /\ pc[u] \in Greeted /\ missed' = missed
           /\ UNCHANGED << fileVersion, snapshot, playing >> /\ lastSeq'[u] = lastSeq[u]
           /\ Told(u)' => Told(u)
           /\ \/ version' = version
              \/ version = 0 /\ Publishing' /\ version' = dbVersion' /\ playing' = FALSE
<1> USE HostAssumption DEF Goto
<1>0. /\ TypeOK /\ pc \in [User -> HandlerState] /\ dbVersion \in Nat /\ seen \in [User -> Nat]
      /\ open \subseteq rooms
  BY VersionTypes DEF TypeOK, Inv, Attached
<1>1. ASSUME NEW w \in User, Connect(w)
      PROVE  /\ u \in open /\ pc[u] \in Greeted /\ lastSeq'[u] = lastSeq[u]
             /\ Told(u)' => Told(u)
             /\ UNCHANGED << fileVersion, snapshot, missed, playing, version >>
  <2>1. u # w
    BY <1>0, <1>1 DEF Connect, Greeted
  <2> QED
    BY <1>0, <1>1, <2>1
       DEF Connect, OnOpen, TypeOK, roomState, history, Told, Publishing
<1>2. ASSUME NEW w \in User,
             \/ LoadRoomInfo(w) \/ Announce(w) \/ CheckControl(w) \/ RejectControl(w)
             \/ VerifyRead(w) \/ VerifyMismatch(w) \/ Part(w)
      PROVE  /\ UNCHANGED << open, client, history, roomState >>
             /\ pc[u] \in Greeted /\ (Told(u)' => Told(u))
  <2>1. UNCHANGED << open, client, history, roomState >>
    BY <1>2 DEF LoadRoomInfo, Announce, CheckControl, RejectControl, VerifyRead,
                VerifyMismatch, Part
  <2>2. \/ pc[w] = "loading" /\ pc' = [pc EXCEPT ![w] = "loaded"]
        \/ pc[w] = "announcing" /\ pc' = [pc EXCEPT ![w] = "loop"]
        \/ pc[w] = "loop" /\ pc' = [pc EXCEPT ![w] = "checked"]
        \/ pc[w] = "checked" /\ pc' = [pc EXCEPT ![w] = "loop"]
        \/ pc[w] = "loop" /\ pc' = [pc EXCEPT ![w] = "verifying"]
        \/ pc[w] = "verifying" /\ pc' = [pc EXCEPT ![w] = "loop"]
        \/ pc[w] = "parting" /\ pc' = [pc EXCEPT ![w] = "off"]
    BY <1>2 DEF LoadRoomInfo, Announce, CheckControl, Serving, RejectControl, VerifyRead,
                VerifyMismatch, Part
  <2>3. pc[u] \in Greeted
    BY <1>0, <2>2 DEF Greeted
  <2>4. Told(u)' => Told(u)
    BY <1>0, <2>1, <2>2 DEF Told, Publishing, history
  <2> QED
    BY <2>1, <2>3, <2>4
<1>3. ASSUME NEW w \in User, Resume(w)
      PROVE  /\ UNCHANGED << open, client, history, playing >>
             /\ pc[u] \in Greeted /\ (Told(u)' => Told(u))
             /\ \/ version' = version
                \/ version = 0 /\ Publishing' /\ version' = dbVersion' /\ playing' = FALSE
  <2>1. /\ UNCHANGED << open, client, history, playing, dbVersion >>
        /\ pc[w] = "loaded" /\ pc' = [pc EXCEPT ![w] = "greeting"]
        /\ version' = IF version = 0 THEN seen[w] ELSE version
    BY <1>3 DEF Resume
  <2>2. pc[u] \in Greeted
    BY <1>0, <2>1 DEF Greeted
  <2>3. Publishing' <=> Publishing
    BY <1>0, <2>1 DEF Publishing
  <2>4. Told(u)' => Told(u)
    BY <1>0, <2>1 DEF Told, Publishing, history
  <2>5. CASE version = 0 /\ seen[w] # 0
    <3>1. dbVersion = IF Publishing THEN 1 ELSE 0
      BY <2>2, <2>5 DEF Versions, Resumed
    <3>2. seen[w] <= dbVersion /\ seen[w] \in Nat /\ playing = FALSE
      BY <1>0, <2>5 DEF Versions
    <3>3. Publishing /\ seen[w] = dbVersion
      BY <2>5, <3>1, <3>2
    <3> QED
      BY <2>1, <2>2, <2>3, <2>4, <2>5, <3>2, <3>3
  <2>6. CASE ~(version = 0 /\ seen[w] # 0)
    BY <2>1, <2>2, <2>4, <2>6
  <2> QED
    BY <2>5, <2>6
<1>4. ASSUME NEW w \in User, Finally(w), w # Host \/ ~Remaining(w)
      PROVE  /\ UNCHANGED << open, client, history, roomState >>
             /\ pc[u] \in Greeted /\ (Told(u)' => Told(u))
  <2>1. /\ UNCHANGED << open, client, history >> /\ pc[w] = "loop" /\ w \notin open
        /\ \E l \in {"off", "parting"} : pc' = [pc EXCEPT ![w] = l]
    BY <1>4 DEF Finally
  <2>2. u \in Others(w)
    BY <1>0, <2>1 DEF Others
  <2>3. Remaining(w) /\ w # Host
    BY <1>4, <2>2 DEF Finally
  <2>4. UNCHANGED roomState
    BY <2>3 DEF Remaining
  <2>5. pc[u] \in Greeted /\ (Told(u)' => Told(u))
    BY <1>0, <2>1 DEF Greeted, Told, Publishing, history
  <2> QED
    BY <2>1, <2>4, <2>5
<1>5. ASSUME ChangeCommit
      PROVE  UNCHANGED << open, client, history, roomState >> /\ pc[u] \in Greeted /\ ~Told(u)'
  <2>1. /\ UNCHANGED << open, client, history, roomState >>
        /\ pc[Host] = "loop" /\ pc' = [pc EXCEPT ![Host] = "publishing"]
    BY <1>5 DEF ChangeCommit, Serving
  <2> QED
    BY <1>0, <2>1 DEF Greeted, Told, Publishing
<1>6. ASSUME Beat \/ (\E s \in Sender : SendNext(s)) \/ UNCHANGED vars
      PROVE  UNCHANGED << open, client, history, roomState, pc >>
  BY <1>6 DEF Beat, SendNext, vars
<1>7. UNCHANGED << pc, late >> => (Told(u)' => Told(u))
  BY DEF Told, Publishing
<1> QED
  BY <1>1, <1>2, <1>3, <1>4, <1>5, <1>6, <1>7 DEF SilentStep, client, history, roomState

\* A client that follows a sending step has followed before, and had settled.
LEMMA SettledBefore ==
    ASSUME Settled, ~torn, NEW u \in User, u \in open, pc[u] \in Greeted,
           NEW body, NEW to, Writes(body, to), Follows(u)',
           missed' = missed, lastSeq'[u] = lastSeq[u]
    PROVE  SettlesOn(u)
BY WritesFollows DEF Settled

LEMMA NextSettled ==
    Inv /\ Handlers /\ Versions /\ Whole /\ Heard /\ Unheard /\ Settled /\ [Next]_vars
       => Settled'
<1> SUFFICES ASSUME Inv, Handlers, Versions, Whole, Heard, Unheard, Settled, [Next]_vars,
                    ~torn', NEW u \in User, Follows(u)', pc'[u] \in Greeted
             PROVE  SettlesOn(u)'
  BY DEF Settled
<1> USE HostAssumption DEF Goto
<1>0. /\ Inv' /\ TypeOK /\ ~torn /\ u \in open'
      /\ dbVersion \in Nat /\ version \in Nat
      /\ open \subseteq rooms /\ pc \in [User -> HandlerState]
  <2>1. Inv' /\ ~torn
    BY NextInv, TornStays
  <2> QED
    BY <2>1, VersionTypes DEF Follows, Inv, Attached, TypeOK
<1>1. CASE SilentStep
  <2>1. PICK to : Writes(Nothing, to)
    BY <1>1, SilentWrites
  <2>2. /\ u \in open /\ pc[u] \in Greeted /\ missed' = missed
        /\ UNCHANGED << fileVersion, snapshot, playing >> /\ lastSeq'[u] = lastSeq[u]
        /\ Told(u)' => Told(u)
        /\ \/ version' = version
           \/ version = 0 /\ Publishing' /\ version' = dbVersion' /\ playing' = FALSE
    BY <1>0, <1>1, SilentKeeps
  <2>3. Nothing.type \notin FileKinds /\ Nothing.type \notin SnapshotKinds
    BY DEF Nothing, FileKinds, SnapshotKinds
  <2>4. SettlesOn(u)
    BY <1>0, <2>1, <2>2, SettledBefore
  <2>5. CASE version' = version
    BY <2>1, <2>2, <2>3, <2>4, <2>5, WritesOther DEF SettlesOn
  <2>6. CASE Publishing' /\ version' = dbVersion' /\ playing' = FALSE
    <3>1. ~Told(u)'
      BY <2>6 DEF Told
    <3>2. Unheard'
      BY NextUnheard
    <3>3. /\ ~(snapshot'[u].version = version' /\ snapshot'[u].playing)
          /\ \A m \in Pending(u)' : m.body.type \in SnapshotKinds =>
                                       ~(m.body.version = version' /\ m.body.playing)
      BY <1>0, <2>6, <3>2 DEF Unheard
    <3>4. PlaySettles(Pending(u)', snapshot'[u], version', FALSE)
      BY <3>3, PausedSettles
    <3> QED
      BY <2>6, <3>1, <3>4 DEF SettlesOn
  <2> QED
    BY <2>2, <2>5, <2>6
\* Steps of one handler that leave the clients to themselves.
<1>2. ASSUME UNCHANGED << open, client, missed >>, NEW body \in Body, NEW to, Writes(body, to),
             pc[u] \in Greeted
      PROVE  /\ u \in open /\ SettlesOn(u)
             /\ u \notin to => Pending(u)' = Pending(u)
             /\ body.type \notin FileKinds /\ version' = version /\ (Told(u)' => Told(u))
                   => (Told(u)' => FileSettles(Pending(u)', fileVersion'[u], version'))
             /\ body.type \notin SnapshotKinds /\ version' = version /\ playing' = playing
                   => PlaySettles(Pending(u)', snapshot'[u], version', playing')
             /\ u \in to /\ seq' = seq + 1 =>
                   /\ body.type \in FileKinds /\ body.version = version'
                         => FileSettles(Pending(u)', fileVersion'[u], version')
                   /\ body.type \in SnapshotKinds
                      /\ (body.version = version' /\ body.playing = TRUE <=> playing' = TRUE)
                         => PlaySettles(Pending(u)', snapshot'[u], version', playing')
  <2>1. u \in open /\ UNCHANGED << fileVersion, snapshot, missed >> /\ lastSeq'[u] = lastSeq[u]
    BY <1>0, <1>2 DEF client
  <2>2. SettlesOn(u)
    BY <1>0, <1>2, <2>1, SettledBefore
  <2>3. u \notin to => Pending(u)' = Pending(u)
    BY <1>2, WritesNotFor
  <2>4. body.type \notin FileKinds /\ version' = version /\ (Told(u)' => Told(u))
           => (Told(u)' => FileSettles(Pending(u)', fileVersion'[u], version'))
    BY <1>2, <2>1, <2>2, WritesOther DEF SettlesOn
  <2>5. body.type \notin SnapshotKinds /\ version' = version /\ playing' = playing
           => PlaySettles(Pending(u)', snapshot'[u], version', playing')
    BY <1>2, <2>1, <2>2, WritesOther DEF SettlesOn
  <2>6. ASSUME u \in to, seq' = seq + 1
        PROVE  /\ body.type \in FileKinds /\ body.version = version'
                     => FileSettles(Pending(u)', fileVersion'[u], version')
               /\ body.type \in SnapshotKinds
                  /\ (body.version = version' /\ body.playing = TRUE <=> playing' = TRUE)
                     => PlaySettles(Pending(u)', snapshot'[u], version', playing')
    BY <1>0, <1>2, <2>1, <2>6, WritesNew
  <2> QED
    BY <2>1, <2>2, <2>3, <2>4, <2>5, <2>6
<1>3. ASSUME NEW w \in User, Greet(w) PROVE SettlesOn(u)'
  <2>1. PICK body, to : body \in Body /\ body = Snapshot(seen[w]) /\ to = {w} /\ Writes(body, to)
    BY <1>3, GreetWrites
  <2>2. /\ UNCHANGED << open, client, missed, version, playing >>
        /\ pc[w] = "greeting" /\ pc' = [pc EXCEPT ![w] = "announcing"]
        /\ torn' = (torn \/ seen[w] # version \/ pc[Host] = "publishing")
        /\ late' = late \ {w}
    BY <1>3 DEF Greet, roomState
  <2>3. u # w => (Told(u)' <=> Told(u))
    BY <1>0, <2>2 DEF Told, Publishing
  <2>4. CASE u # w
    <3>1. pc[u] \in Greeted
      BY <1>0, <2>2, <2>4
    <3>2. u \notin to /\ UNCHANGED << open, client, missed >>
      BY <2>1, <2>2, <2>4
    <3>3. Pending(u)' = Pending(u) /\ SettlesOn(u)
      BY <1>2, <2>1, <3>1, <3>2
    <3> QED
      BY <2>2, <2>3, <2>4, <3>3 DEF SettlesOn, client
  <2>5. CASE u = w
    <3>1. u \in open /\ u \in to
      BY <1>0, <2>1, <2>2, <2>5
    <3>2. seq' = seq + 1
      <4>1. Broadcast(w, Snapshot(seen[w]), rooms \cap {w}, {w}) /\ rooms \cap {w} # {}
        BY <1>0, <1>3, <2>5, <3>1 DEF Greet, SendToUser
      <4> QED
        BY <4>1, BroadcastCounts
    <3>3. body.type = "room_state" /\ body.version = version' /\ body.playing = playing'
      BY <1>0, <2>1, <2>2 DEF Snapshot
    <3>4. body.type \in FileKinds /\ body.type \in SnapshotKinds
      BY <3>3 DEF FileKinds, SnapshotKinds
    <3>5. FileSettles(Pending(u)', fileVersion'[u], version')
      BY <1>0, <2>1, <3>1, <3>2, <3>3, <3>4, WritesNew
    <3>6. PlaySettles(Pending(u)', snapshot'[u], version', playing')
      BY <1>0, <2>1, <3>1, <3>2, <3>3, <3>4, WritesNew
    <3> QED
      BY <3>5, <3>6 DEF SettlesOn
  <2> QED
    BY <2>4, <2>5
<1>4. ASSUME NEW w \in User, Resync(w) PROVE SettlesOn(u)'
  <2>1. /\ UNCHANGED << open, client, missed, late, version, playing, pc >>
    BY <1>4 DEF Resync, roomState, history
  <2>2. PICK body, to : body \in Body /\ body = SyncState /\ to = {w} /\ Writes(body, to)
    BY <1>4, ResyncWrites
  <2>3. body.type = "sync_state" /\ body.version = version' /\ body.playing = playing'
    BY <2>2 DEF SyncState
  <2>4. body.type \notin FileKinds /\ body.type \in SnapshotKinds
    BY <2>3 DEF FileKinds, SnapshotKinds
  <2>5. pc[u] \in Greeted /\ (Told(u)' <=> Told(u))
    BY <2>1 DEF Told, Publishing
  <2>6. CASE u # w
    <3>1. u \notin to /\ UNCHANGED << open, client, missed >>
      BY <2>1, <2>2, <2>6
    <3>2. Pending(u)' = Pending(u) /\ SettlesOn(u)
      BY <1>2, <2>2, <2>5, <3>1
    <3> QED
      BY <2>1, <2>5, <3>2 DEF SettlesOn, client
  <2>7. CASE u = w
    <3>1. u \in open
      BY <1>0, <2>1
    <3>2. seq' = seq + 1
      <4>1. Broadcast(w, SyncState, rooms \cap {w}, {w}) /\ rooms \cap {w} # {}
        BY <1>0, <1>4, <2>7, <3>1 DEF Resync, SendToUser
      <4> QED
        BY <4>1 DEF Broadcast
    <3> QED
      BY <1>2, <2>1, <2>2, <2>3, <2>4, <2>5, <2>7, <3>2 DEF SettlesOn
  <2> QED
    BY <2>6, <2>7
<1>5. ASSUME NEW w \in User, NEW play \in BOOLEAN, Control(w, play) PROVE SettlesOn(u)'
  <2>1. /\ UNCHANGED << open, client, missed, late, version >>
        /\ pc[w] = "checked" /\ pc' = [pc EXCEPT ![w] = "loop"]
    BY <1>5 DEF Control
  <2>2. PICK body, to : body \in Body /\ body = SyncState /\ to = rooms /\ Writes(body, to)
    BY <1>5, ControlWrites
  <2>3. body.type = "sync_state" /\ body.version = version' /\ body.playing = playing'
    BY <2>2 DEF SyncState
  <2>4. body.type \notin FileKinds /\ body.type \in SnapshotKinds
    BY <2>3 DEF FileKinds, SnapshotKinds
  <2>5. pc[u] \in Greeted /\ (Told(u)' <=> Told(u))
    BY <1>0, <2>1 DEF Told, Publishing, Greeted
  <2>6. u \in to /\ seq' = seq + 1
    <3>1. u \in rooms
      BY <1>0, <2>1
    <3> QED
      BY <1>5, <2>2, <3>1 DEF Control, Broadcast
  <2> QED
    BY <1>2, <2>1, <2>2, <2>3, <2>4, <2>5, <2>6 DEF SettlesOn
<1>6. CASE Finally(Host) /\ Remaining(Host)
  <2>1. /\ UNCHANGED << open, client, missed, late, version >> /\ Host \notin open
        /\ pc[Host] = "loop" /\ \E l \in {"off", "parting"} : pc' = [pc EXCEPT ![Host] = l]
        /\ playing' = (closing /\ playing)
    BY <1>6 DEF Finally, Remaining, history
  <2>2. playing' = FALSE
    BY <1>0, <2>1 DEF Whole, TypeOK
  <2>3. PICK body, to : body \in Body /\ body = Autopause /\ to = Others(Host) /\ Writes(body, to)
    BY <1>6, AutopauseWrites
  <2>4. body.type = "sync_state" /\ body.version = version' /\ body.playing = FALSE
    BY <2>3 DEF Autopause
  <2>5. body.type \notin FileKinds /\ body.type \in SnapshotKinds
    BY <2>4 DEF FileKinds, SnapshotKinds
  <2>6. pc[u] \in Greeted /\ (Told(u)' <=> Told(u))
    BY <1>0, <2>1 DEF Told, Publishing, Greeted
  <2>7. u \in to /\ seq' = seq + 1
    <3>1. u \in Others(Host)
      BY <1>0, <2>1 DEF Others
    <3> QED
      BY <1>6, <2>3, <3>1 DEF Remaining, Broadcast
  <2> QED
    BY <1>2, <2>1, <2>2, <2>3, <2>4, <2>5, <2>6, <2>7 DEF SettlesOn
<1>7. CASE ChangePublish
  <2>1. /\ UNCHANGED << open, client, missed, dbVersion >>
        /\ pc[Host] = "publishing" /\ pc' = [pc EXCEPT ![Host] = "telling"]
        /\ version' = seen[Host] /\ playing' = FALSE
    BY <1>7 DEF ChangePublish, history
  <2>2. PICK body, to : body \in Body /\ body = Verified(seen[Host]) /\ to = {Host} /\ Writes(body, to)
    BY <1>7, PublishWrites
  <2>3. body.type = "file_verify_response" /\ body.version = version'
    BY <2>1, <2>2 DEF Verified
  <2>4. body.type \in FileKinds /\ body.type \notin SnapshotKinds
    BY <2>3 DEF FileKinds, SnapshotKinds
  <2>5. pc[u] \in Greeted /\ u \in open
    BY <1>0, <2>1 DEF Greeted
  <2>6. version' = dbVersion
    BY <2>1 DEF Versions
  <2>7. PlaySettles(Pending(u)', snapshot'[u], version', playing')
    <3>1. /\ ~(snapshot[u].version = dbVersion /\ snapshot[u].playing)
          /\ \A m \in Pending(u) : m.body.type \in SnapshotKinds =>
                                      ~(m.body.version = dbVersion /\ m.body.playing)
      BY <1>0, <2>1 DEF Unheard, Publishing
    <3>2. PlaySettles(Pending(u), snapshot[u], dbVersion, FALSE)
      BY <3>1, PausedSettles
    <3>3. PlaySettles(Pending(u)', snapshot[u], dbVersion, FALSE)
      BY <2>2, <2>4, <3>2, WritesOther
    <3> QED
      BY <2>1, <2>6, <3>3 DEF client
  <2>8. ASSUME Told(u)' PROVE FileSettles(Pending(u)', fileVersion'[u], version')
    <3>1. u = Host
      BY <1>0, <2>1, <2>8 DEF Told
    <3>2. u \in to /\ rooms \cap {Host} # {}
      BY <1>0, <2>2, <2>5, <3>1
    <3>3. seq' = seq + 1
      BY <1>7, <3>2 DEF ChangePublish, SendToUser, Broadcast
    <3> QED
      BY <1>0, <2>2, <2>3, <2>4, <2>5, <3>2, <3>3, WritesNew
  <2> QED
    BY <2>7, <2>8 DEF SettlesOn
<1>8. CASE ChangeTell
  <2>1. /\ UNCHANGED << open, client, missed, version, playing >>
        /\ pc[Host] = "telling" /\ pc' = [pc EXCEPT ![Host] = "loop"]
        /\ late' = late \ Others(Host)
    BY <1>8 DEF ChangeTell, roomState, history
  <2>2. PICK body, to :
           /\ body \in Body /\ body = FileChanged(seen[Host]) /\ to = Others(Host)
           /\ Writes(body, to)
    BY <1>8, TellWrites
  <2>3. body.type = "file_changed" /\ body.version = version'
    BY <2>1, <2>2 DEF FileChanged, Versions
  <2>4. body.type \in FileKinds /\ body.type \notin SnapshotKinds
    BY <2>3 DEF FileKinds, SnapshotKinds
  <2>5. pc[u] \in Greeted /\ u \in open
    BY <1>0, <2>1 DEF Greeted
  <2>6. PlaySettles(Pending(u)', snapshot'[u], version', playing')
    BY <1>2, <2>1, <2>2, <2>4, <2>5
  <2>7. ASSUME Told(u)' PROVE FileSettles(Pending(u)', fileVersion'[u], version')
    <3>1. CASE u = Host
      <4>1. Told(u)
        BY <2>1, <2>7, <3>1 DEF Told, Publishing, Others
      <4>2. u \notin to
        BY <2>2, <3>1 DEF Others
      <4>3. Pending(u)' = Pending(u) /\ SettlesOn(u)
        BY <1>2, <2>1, <2>2, <2>5, <4>2
      <4> QED
        BY <2>1, <4>1, <4>3 DEF SettlesOn, client
    <3>2. CASE u # Host
      <4>1. u \in to /\ rooms # {}
        BY <1>0, <2>2, <2>5, <3>2 DEF Others
      <4>2. seq' = seq + 1
        BY <1>8, <4>1 DEF ChangeTell, Broadcast
      <4> QED
        BY <1>0, <2>2, <2>3, <2>4, <2>5, <4>1, <4>2, WritesNew
    <3> QED
      BY <3>1, <3>2
  <2> QED
    BY <2>6, <2>7 DEF SettlesOn
<1>9. ASSUME NEW w \in User, Lose(w) PROVE SettlesOn(u)'
  <2>1. u # w /\ UNCHANGED << version, playing, pc, client, late >>
    BY <1>0, <1>9 DEF Lose, roomState
  <2>2. Pending(u)' = Pending(u)
    BY <1>9, <2>1, LosePends
  <2>3. Follows(u)
    BY <1>0, <1>9, <2>1, <2>2 DEF Follows, Lose, client
  <2>4. SettlesOn(u)
    BY <1>0, <2>1, <2>3 DEF Settled
  <2> QED
    BY <2>1, <2>2, <2>4 DEF SettlesOn, Told, Publishing, client
<1>10. ASSUME NEW w \in User, Receive(w) PROVE SettlesOn(u)'
  <2>1. UNCHANGED << version, playing, pc, open, late >>
    BY <1>10 DEF Receive, roomState
  <2>2. PICK m \in Pending(w) :
              /\ Pending(w)' \subseteq Pending(w) /\ Pending(w) \subseteq Pending(w)' \cup {m}
              /\ \A v \in User \ {w} : Pending(v)' = Pending(v)
              /\ \/ /\ m.seq > lastSeq[w] /\ lastSeq' = [lastSeq EXCEPT ![w] = m.seq]
                    /\ fileVersion' = [fileVersion EXCEPT ![w] =
                          IF m.body.type \in FileKinds THEN m.body.version ELSE @]
                    /\ snapshot' = [snapshot EXCEPT ![w] =
                          IF m.body.type \in SnapshotKinds
                          THEN [version |-> m.body.version, playing |-> m.body.playing] ELSE @]
                    /\ missed' = missed
                 \/ missed' = missed \cup {w} /\ UNCHANGED client
    BY <1>10, ReceiveTakes
  <2>3. CASE u # w
    <3>1. /\ Pending(u)' = Pending(u) /\ fileVersion'[u] = fileVersion[u]
          /\ snapshot'[u] = snapshot[u] /\ lastSeq'[u] = lastSeq[u]
          /\ u \notin missed' => u \notin missed
      BY <1>0, <2>2, <2>3 DEF client, TypeOK
    <3>2. Follows(u)
      BY <2>1, <3>1 DEF Follows
    <3>3. SettlesOn(u)
      BY <1>0, <2>1, <3>2 DEF Settled
    <3> QED
      BY <2>1, <3>1, <3>3 DEF SettlesOn, Told, Publishing
  <2>4. CASE u = w
    <3>1. /\ m.seq > lastSeq[u] /\ lastSeq'[u] = m.seq /\ missed' = missed
          /\ fileVersion'[u] = IF m.body.type \in FileKinds THEN m.body.version
                               ELSE fileVersion[u]
          /\ snapshot'[u] = IF m.body.type \in SnapshotKinds
                            THEN [version |-> m.body.version, playing |-> m.body.playing]
                            ELSE snapshot[u]
      <4>1. u \notin missed'
        BY DEF Follows
      <4> QED
        BY <1>0, <2>2, <2>4, <4>1 DEF TypeOK
    <3>2. \A n \in Pending(u)' : n.seq > m.seq
      BY <3>1 DEF Follows
    <3>3. Pending(u) \in SUBSET Message /\ lastSeq[u] \in Nat
      BY <1>0, PendingType, BoundsAssumption DEF TypeOK
    <3>4. \A n \in Pending(u) : n.seq > lastSeq[u]
      <4> TAKE n \in Pending(u)
      <4>1. n = m \/ n.seq > m.seq
        BY <2>2, <2>4, <3>2
      <4>2. n.seq \in Nat /\ m.seq \in Nat
        BY <2>2, <2>4, <3>3, BoundsAssumption DEF Message
      <4> QED
        BY <3>1, <3>3, <4>1, <4>2
    <3>5. SettlesOn(u)
      BY <1>0, <2>1, <3>1, <3>4 DEF Settled, Follows
    <3>6. PICK P, Q : P = Pending(u) /\ Q = Pending(u)'
      OBVIOUS
    <3>7. /\ P \in SUBSET Message /\ Q \in SUBSET P /\ m \in P
          /\ P \subseteq Q \cup {m} /\ \A n \in Q : n.seq > m.seq
      BY <2>2, <2>4, <3>2, <3>3, <3>6
    <3>8. /\ FileSettles(P, fileVersion[u], version) =>
                FileSettles(Q, IF m.body.type \in FileKinds THEN m.body.version
                               ELSE fileVersion[u], version)
          /\ PlaySettles(P, snapshot[u], version, playing) =>
                PlaySettles(Q, IF m.body.type \in SnapshotKinds
                               THEN [version |-> m.body.version, playing |-> m.body.playing]
                               ELSE snapshot[u], version, playing)
      BY <3>7, ReadSettles
    <3>9. Told(u)' <=> Told(u)
      BY <2>1 DEF Told, Publishing
    <3>10. /\ FileSettles(P, fileVersion[u], version) =>
                 FileSettles(Q, fileVersion'[u], version)
           /\ PlaySettles(P, snapshot[u], version, playing) =>
                 PlaySettles(Q, snapshot'[u], version, playing)
      BY <3>1, <3>8
    <3> QED
      BY <2>1, <3>5, <3>6, <3>9, <3>10 DEF SettlesOn
  <2> QED
    BY <2>3, <2>4
<1>11. ASSUME NEW w \in User, VerifyMatch(w) PROVE SettlesOn(u)'
  <2>1. PICK body, to : body \in Body /\ body = Verified(seen[w]) /\ to = {w} /\ Writes(body, to)
    BY <1>11, MatchWrites
  <2>2. /\ UNCHANGED << open, client, missed, version, playing >>
        /\ pc[w] = "verifying" /\ pc' = [pc EXCEPT ![w] = "loop"]
        /\ late' = IF seen[w] = version THEN late \ {w} ELSE late \cup {w}
    BY <1>11 DEF VerifyMatch, roomState
  <2>3. pc[u] \in Greeted /\ (u # w => (Told(u)' <=> Told(u)))
    BY <1>0, <2>2 DEF Told, Publishing, Greeted
  <2>4. CASE u # w
    <3>1. u \notin to /\ UNCHANGED << open, client, missed >>
      BY <2>1, <2>2, <2>4
    <3>2. Pending(u)' = Pending(u) /\ SettlesOn(u)
      BY <1>2, <2>1, <2>3, <3>1
    <3> QED
      BY <2>2, <2>3, <2>4, <3>2 DEF SettlesOn, client
  <2>5. CASE u = w
    <3>1. body.type = "file_verify_response" /\ body.version = seen[w]
      BY <2>1 DEF Verified
    <3>2. body.type \in FileKinds /\ body.type \notin SnapshotKinds
      BY <3>1 DEF FileKinds, SnapshotKinds
    <3>3. PlaySettles(Pending(u)', snapshot'[u], version', playing')
      BY <1>2, <2>1, <2>2, <2>3, <3>2
    <3>4. ASSUME Told(u)' PROVE FileSettles(Pending(u)', fileVersion'[u], version')
      <4>1. seen[w] = version
        BY <2>2, <2>5, <3>4 DEF Told
      <4>2. u \in open /\ u \in to
        BY <1>0, <2>1, <2>2, <2>5
      <4>3. seq' = seq + 1
        <5>1. Broadcast(w, Verified(seen[w]), rooms \cap {w}, {w}) /\ rooms \cap {w} # {}
          BY <1>0, <1>11, <2>5, <4>2 DEF VerifyMatch, SendToUser
        <5> QED
          BY <5>1, BroadcastCounts
      <4> QED
        BY <1>0, <2>1, <2>2, <3>1, <3>2, <4>1, <4>2, <4>3, WritesNew
    <3> QED
      BY <3>3, <3>4 DEF SettlesOn
  <2> QED
    BY <2>4, <2>5
<1> QED
  BY <1>1, <1>3, <1>4, <1>5, <1>6, <1>7, <1>8, <1>9, <1>10, <1>11, NextSays

Agreement == Handlers /\ Versions /\ Whole /\ Heard /\ Unheard /\ Settled

LEMMA NextAgreement == Inv /\ Agreement /\ [Next]_vars => Agreement'
<1> SUFFICES ASSUME Inv, Agreement, [Next]_vars PROVE Agreement'
  OBVIOUS
<1>1. Whole'
  BY NextWhole DEF Agreement, Unheard
<1> QED
  BY <1>1, NextHandlers, NextVersions, NextHeard, NextUnheard, NextSettled DEF Agreement

LEMMA InitAgreement == Init => Agreement
BY InitHandlers, InitVersions, InitWhole, InitHeard, InitSettled DEF Agreement

-----------------------------------------------------------------------------
(* Theorems.                                                               *)

LEMMA Invariance == Spec => [](Inv /\ Hydration)
BY InitInv, NextInv, NextHydration, PTL DEF Spec

\* RoomStream is well typed, for any set of users and any bounds.
THEOREM TypeCorrect == Spec => []TypeOK
<1>1. Inv => TypeOK
  BY DEF Inv
<1> QED
  BY <1>1, Invariance, PTL

\* The server's counter is never behind what a connected client has seen, whoever
\* joins, drops or drains the room in between.
THEOREM CounterStaysAhead == Spec => []CounterIsAhead
<1>1. Inv => CounterIsAhead
  BY DEF Inv, Numbered
<1> QED
  BY <1>1, Invariance, PTL

\* A client that has read everything on a served socket has taken its room_state,
\* whatever was broadcast around the handshake.
THEOREM SocketsHydrate == Spec => []FreshSocketHydrates
<1>1. Inv /\ Hydration => FreshSocketHydrates
  <2> SUFFICES ASSUME Inv, Hydration, NEW u \in open, pc[u] = "loop", link[u] = <<>>
               PROVE  u \in hydrated
    BY DEF FreshSocketHydrates
  <2>1. u \in hydrated \/ GreetingUnderway(u)
    BY DEF Hydration, Greeted
  <2>2. ~GreetingUnderway(u)
    BY DEF GreetingUnderway
  <2> QED
    BY <2>1, <2>2
<1> QED
  BY <1>1, Invariance, PTL

\* When everything has come to rest, whoever dropped nothing agrees with the RoomState
\* on the file and on whether it plays, however the broadcasts were interleaved - unless
\* the answer to its verification has named an older file since the news of this one, or
\* a file change or a play was torn.
THEOREM EverybodyAgrees == Spec => []ClientsAgree
<1>1. Inv /\ Agreement => ClientsAgree
  <2> SUFFICES ASSUME Inv, Agreement, Quiet, ~torn, NEW u \in open \ (missed \cup late)
               PROVE  fileVersion[u] = version /\ BelievesPlaying(u) = playing
    BY DEF ClientsAgree
  <2>1. u \in User /\ u \in rooms /\ TypeOK /\ playing \in BOOLEAN
    BY DEF Inv, TypeOK, Attached
  <2>2. pc[u] = "loop" /\ pc[u] \in Greeted
    BY <2>1 DEF Agreement, Handlers, Quiet, Greeted
  <2>3. Pending(u) = {}
    <3>1. Elements(<<>>) = {}
      BY DEF Elements
    <3> QED
      BY <2>1, <3>1 DEF Quiet, Busy, Pending
  <2>4. SettlesOn(u)
    BY <2>1, <2>2, <2>3 DEF Agreement, Settled, Follows
  <2>5. Told(u)
    BY HostAssumption DEF Quiet, Told, Publishing
  <2>6. fileVersion[u] = version
    BY <2>3, <2>4, <2>5 DEF SettlesOn, FileSettles
  <2>7. snapshot[u].version = version /\ snapshot[u].playing = TRUE <=> playing = TRUE
    BY <2>3, <2>4 DEF SettlesOn, PlaySettles
  <2>8. snapshot[u].playing \in BOOLEAN
    BY <2>1 DEF TypeOK
  <2>9. BelievesPlaying(u) <=> playing
    BY <2>1, <2>6, <2>7, <2>8 DEF BelievesPlaying
  <2> QED
    BY <2>1, <2>6, <2>9 DEF BelievesPlaying
<1>2. Spec => [](Inv /\ Agreement)
  BY InitInv, NextInv, InitAgreement, NextAgreement, PTL DEF Spec
<1> QED
  BY <1>1, <1>2, PTL
=============================================================================
