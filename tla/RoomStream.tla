------------------------------ MODULE RoomStream ------------------------------
(***************************************************************************)
(* What the clients of a room believe: the numbered messages of broadcast  *)
(* and send_to_user (backend/app/ws/manager.py), their way over each       *)
(* client's socket, the filter of frontend/src/hooks/useWebSocket.ts that  *)
(* drops a message with an older number than one already seen, and the     *)
(* file version and playback snapshot the client keeps of the rest.        *)
(*                                                                         *)
(* broadcast numbers a message and writes it to the first socket in one    *)
(* step; it may suspend after each write, and others may number and write  *)
(* messages of their own before it goes on.                                *)
(*                                                                         *)
(* Of the messages' contents, the file version and "is playing" are kept;  *)
(* every other message (chat, presence, readiness, keep-alive) is one that *)
(* takes a number and says nothing.  One connection per user; the checks   *)
(* in front of play and of a file change are in PlaybackControl and        *)
(* FileGate, here a handler acts when it has passed them.                  *)
(***************************************************************************)
EXTENDS Integers, Sequences

CONSTANTS
    User,        \* the members of the room
    Host,        \* the user who may change the file
    Heartbeat,   \* the task that sends sync_check and ping
    MaxVersion,  \* bound: file versions
    MaxSeq,      \* bound: messages numbered since the counter started
    MaxQueue,    \* bound: unread messages on a socket
    MaxEvents    \* bound: lost connections and compared files, together

ASSUME HostAssumption == Host \in User
ASSUME HeartbeatAssumption == Heartbeat \notin User
ASSUME BoundsAssumption ==
    /\ MaxVersion \in Nat /\ MaxSeq \in Nat /\ MaxQueue \in Nat /\ MaxEvents \in Nat

Sender == User \cup {Heartbeat}

VARIABLES
    dbVersion,           \* rooms.file_version
    version, playing, closing,  \* of the RoomState: file_version, is_playing, and
                                \* whether room_status is "closing"
    seq,                 \* seq_counters[room_id]
    rooms,               \* the users with an entry in rooms[room_id], and the order
    joinedBefore,        \* of the dict: pairs of users, the earlier entry first
    pc,                  \* where each user's handler is
    seen,                \* the version a handler has read or written
    sending,             \* per coroutine, the broadcast it is in the middle of
    open,                \* users whose socket is open
    link,                \* the messages on each user's socket
    lastSeq,             \* the client's lastSeqRef, 0 for null
    fileVersion,         \* the client's file version
    snapshot,            \* the client's lastSyncSnapshotRef
    events,              \* the losses and verifications so far
    hydrated, missed, late, torn   \* history, see Init

roomState == << version, playing, closing >>
registry == << rooms, joinedBefore >>
stream == << seq, sending, link >>
client == << lastSeq, fileVersion, snapshot >>
history == << hydrated, missed, late, torn >>
vars == << dbVersion, roomState, registry, pc, seen, stream, open, client, events, history >>

\* The contents of a message.
Nothing == [type |-> "other", version |-> 0, playing |-> FALSE]
SyncState == [type |-> "sync_state", version |-> version', playing |-> playing']
Autopause == [type |-> "sync_state", version |-> version', playing |-> FALSE]
FileChanged(v) == [type |-> "file_changed", version |-> v, playing |-> FALSE]
Verified(v) == [type |-> "file_verify_response", version |-> v, playing |-> FALSE]
Snapshot(v) == [type |-> "room_state", version |-> v, playing |-> playing]

Body == [type : {"other", "sync_state", "file_changed", "file_verify_response", "room_state"},
         version : 0..MaxVersion, playing : BOOLEAN]
Message == [seq : 0..MaxSeq, body : Body]

Idle == [message |-> [seq |-> 0, body |-> Nothing], rest |-> {}]

HandlerState == {"off", "loading", "loaded", "greeting", "announcing", "loop",
                 "checked", "verifying", "publishing", "telling", "parting"}

TypeOK ==
    /\ dbVersion \in 0..MaxVersion
    /\ version \in 0..MaxVersion
    /\ playing \in BOOLEAN
    /\ closing \in BOOLEAN
    /\ seq \in 0..MaxSeq
    /\ rooms \in SUBSET User
    /\ joinedBefore \in SUBSET (User \X User)
    /\ pc \in [User -> HandlerState]
    /\ seen \in [User -> 0..MaxVersion]
    /\ sending \in [Sender -> [message : Message, rest : SUBSET User]]
    /\ open \in SUBSET User
    /\ link \in [User -> Seq(Message)]
    /\ lastSeq \in [User -> 0..MaxSeq]
    /\ fileVersion \in [User -> 0..MaxVersion]
    /\ snapshot \in [User -> [version : 0..MaxVersion, playing : BOOLEAN]]
    /\ hydrated \in SUBSET User
    /\ missed \in SUBSET User
    /\ late \in SUBSET User
    /\ torn \in BOOLEAN
    /\ events \in 0..MaxEvents

Init ==
    /\ dbVersion \in 0..1   \* 1: the server was restarted since a file was set
    /\ dbVersion <= MaxVersion
    /\ version = 0 /\ playing = FALSE /\ closing = FALSE
    /\ seq = 0
    /\ rooms = {} /\ joinedBefore = {}
    /\ pc = [u \in User |-> "off"]
    /\ seen = [u \in User |-> 0]
    /\ sending = [s \in Sender |-> Idle]
    /\ open = {}
    /\ link = [u \in User |-> <<>>]
    /\ lastSeq = [u \in User |-> 0]
    /\ fileVersion = [u \in User |-> 0]
    /\ snapshot = [u \in User |-> [version |-> 0, playing |-> FALSE]]
    /\ events = 0
    /\ hydrated = {}  \* clients that have applied a room_state on their socket
    /\ missed = {}    \* clients whose filter has dropped a message on their socket
    /\ late = {}      \* users whom the last message about the file, an answer to a
                      \* verification, told of another than the RoomState's
    /\ torn = FALSE   \* a room_state was sent with another file version than the
                      \* RoomState's; it or an answer to a verification with one
                      \* that was yet to be published; or a play was applied in a
                      \* closing room

Goto(u, label) == pc' = [pc EXCEPT ![u] = label]

Busy(s) == sending[s].rest # {}

\* A handler serves the next frame when it has finished with the last.
Serving(u) == pc[u] = "loop" /\ ~Busy(u) /\ u \in open

-----------------------------------------------------------------------------
(* broadcast and send_to_user.                                             *)

\* Coroutine s writes a message to the first of `to`, in the order of the dict.
Deliver(s, message, to) ==
    \E v \in to :
        /\ \A w \in to \ {v} : << v, w >> \in joinedBefore
        /\ Len(link[v]) < MaxQueue
        /\ link' = [link EXCEPT ![v] = Append(@, message)]
        /\ sending' = [sending EXCEPT ![s] =
              IF to = {v} THEN Idle ELSE [message |-> message, rest |-> to \ {v}]]

\* Coroutine s numbers a message for the users in `to` and writes it to the first.
\* Without connections in the room broadcast returns at once; a write to a socket
\* that is gone raises, and the error is swallowed.
Broadcast(s, body, connections, to) ==
    IF connections = {} THEN UNCHANGED stream
    ELSE /\ seq < MaxSeq
         /\ seq' = seq + 1
         /\ IF to \cap open = {} THEN UNCHANGED << sending, link >>
            ELSE Deliver(s, [seq |-> seq + 1, body |-> body], to \cap open)

Others(u) == rooms \ {u}

SendToUser(u, body) == Broadcast(u, body, rooms \cap {u}, {u})

\* A broadcast goes on to its next recipient.
SendNext(s) ==
    /\ Busy(s)
    /\ Deliver(s, sending[s].message, sending[s].rest)
    /\ UNCHANGED << dbVersion, roomState, registry, pc, seen, seq, open, client, events, history >>

\* The heartbeat: sync_check while playing, else a ping now and then.  Chat messages
\* and error reports are broadcast like it, by the handler of their sender.
Beat ==
    /\ ~Busy(Heartbeat)
    /\ rooms # {}
    /\ Broadcast(Heartbeat, Nothing, rooms, rooms)
    /\ UNCHANGED << dbVersion, roomState, registry, pc, seen, open, client, events, history >>

-----------------------------------------------------------------------------
(* The handshake and the end of a connection.                              *)

\* A client that keeps the numbers of its previous socket.
OnOpenKeepsSeq(u) == lastSeq' = lastSeq

\* onopen forgets the numbers of the previous socket.
OnOpen(u) == lastSeq' = [lastSeq EXCEPT ![u] = 0]

\* The socket is accepted and registered.
Connect(u) ==
    /\ pc[u] = "off" /\ ~Busy(u)
    /\ rooms' = rooms \cup {u}
    /\ joinedBefore' = joinedBefore \cup (rooms \X {u})
    /\ open' = open \cup {u}
    /\ OnOpen(u)
    /\ Goto(u, "loading")
    /\ UNCHANGED << dbVersion, roomState, seen, stream, fileVersion, snapshot, events, history >>

\* The snapshot of the database.
LoadRoomInfo(u) ==
    /\ pc[u] = "loading"
    /\ seen' = [seen EXCEPT ![u] = dbVersion]
    /\ Goto(u, "loaded")
    /\ UNCHANGED << dbVersion, roomState, registry, stream, open, client, events, history >>

\* A fresh RoomState takes its version from the snapshot.  A host whose record is
\* still there reopens the room and tells everybody.
Resume(u) ==
    /\ pc[u] = "loaded"
    /\ version' = IF version = 0 THEN seen[u] ELSE version
    /\ Goto(u, "greeting")
    /\ \/ UNCHANGED << closing, stream >>
       \/ u = Host /\ closing' = FALSE /\ Broadcast(u, Nothing, rooms, rooms)
    /\ UNCHANGED << dbVersion, playing, registry, seen, open, client, events, history >>

\* room_state: the file of the snapshot, the playback of the RoomState.
Greet(u) ==
    /\ pc[u] = "greeting" /\ ~Busy(u)
    /\ SendToUser(u, Snapshot(seen[u]))
    /\ torn' = (torn \/ seen[u] # version \/ pc[Host] = "publishing")
    /\ late' = late \ {u}
    /\ Goto(u, "announcing")
    /\ UNCHANGED << dbVersion, roomState, registry, seen, open, client, events, hydrated, missed >>

\* user_joined to the others.
Announce(u) ==
    /\ pc[u] = "announcing"
    /\ Broadcast(u, Nothing, rooms, Others(u))
    /\ Goto(u, "loop")
    /\ UNCHANGED << dbVersion, roomState, registry, seen, open, client, events, history >>

\* The connection is lost, with what was on its way and what broadcasts that have
\* captured its socket were still to write: those writes fail.
Lose(u) ==
    /\ u \in open
    /\ events < MaxEvents
    /\ events' = events + 1
    /\ open' = open \ {u}
    /\ link' = [link EXCEPT ![u] = <<>>]
    /\ sending' = [s \in Sender |->
          IF sending[s].rest \subseteq {u} THEN Idle
          ELSE [sending[s] EXCEPT !.rest = @ \ {u}]]
    /\ hydrated' = hydrated \ {u}
    /\ missed' = missed \ {u}
    /\ UNCHANGED << dbVersion, roomState, registry, pc, seen, seq, client, late, torn >>

\* The RoomState and the counter of the room go.
Forget ==
    /\ seq' = 0 /\ version' = 0 /\ playing' = FALSE /\ closing' = FALSE
    /\ UNCHANGED << sending, link >>

\* A disconnect that drops the counter whoever is left.
ForgetStream(u) == Forget

\* The RoomState stays: a dropped host pauses the room, marks it closing and says so
\* to those who are left.
Remaining(u) ==
    /\ IF u = Host
       THEN /\ playing' = (closing /\ playing) /\ closing' = TRUE
            /\ UNCHANGED version
            /\ Broadcast(u, Autopause, Others(u), Others(u))
       ELSE UNCHANGED roomState /\ Broadcast(u, Nothing, Others(u), Others(u))

\* The finally block.  With the last connection the RoomState and the counter go,
\* unless a grace timer is pending (RoomSession says when).
Finally(u) ==
    /\ pc[u] = "loop" /\ ~Busy(u) /\ u \notin open
    /\ rooms' = Others(u)
    /\ joinedBefore' = joinedBefore \cap (Others(u) \X Others(u))
    /\ Remaining(u) \/ (Others(u) = {} /\ Forget)
    /\ Goto(u, IF u = Host THEN "parting" ELSE "off")
    /\ UNCHANGED << dbVersion, seen, open, client, events, history >>

\* host_disconnected
Part(u) ==
    /\ pc[u] = "parting" /\ ~Busy(u)
    /\ Broadcast(u, Nothing, rooms, rooms)
    /\ Goto(u, "off")
    /\ UNCHANGED << dbVersion, roomState, registry, seen, open, client, events, history >>

-----------------------------------------------------------------------------
(* Playback and the file.                                                  *)

\* A command passes the checks in front of the membership query,
CheckControl(u) ==
    /\ Serving(u)
    /\ ~closing
    /\ version > 0 /\ fileVersion[u] = version
    /\ Goto(u, "checked")
    /\ UNCHANGED << dbVersion, roomState, registry, seen, stream, open, client, events, history >>

\* and is applied after it, or turned down.
Control(u, play) ==
    /\ pc[u] = "checked"
    /\ playing' = play
    /\ UNCHANGED << version, closing >>
    /\ Broadcast(u, SyncState, rooms, rooms)
    /\ torn' = (torn \/ (closing /\ play))
    /\ Goto(u, "loop")
    /\ UNCHANGED << dbVersion, registry, seen, open, client, events, hydrated, missed, late >>

RejectControl(u) ==
    /\ pc[u] = "checked"
    /\ Goto(u, "loop")
    /\ UNCHANGED << dbVersion, roomState, registry, seen, stream, open, client, events, history >>

\* The answer to `ready`, and to `reconnect` with an old version.
Resync(u) ==
    /\ Serving(u)
    /\ UNCHANGED roomState
    /\ SendToUser(u, SyncState)
    /\ UNCHANGED << dbVersion, registry, pc, seen, open, client, events, history >>

\* A participant's file is compared with the one in the database, as it was before an
\* await,
VerifyRead(u) ==
    /\ Serving(u)
    /\ events < MaxEvents
    /\ events' = events + 1
    /\ seen' = [seen EXCEPT ![u] = dbVersion]
    /\ Goto(u, "verifying")
    /\ UNCHANGED << dbVersion, roomState, registry, stream, open, client, history >>

\* and the answer names the version that was read: to a viewer with the same file, or to
\* a host who has selected the file of the room again.  By now it may be an old one.
VerifyMatch(u) ==
    /\ pc[u] = "verifying"
    /\ seen[u] > 0
    /\ SendToUser(u, Verified(seen[u]))
    /\ late' = IF seen[u] = version THEN late \ {u} ELSE late \cup {u}
    /\ torn' = (torn \/ (pc[Host] = "publishing" /\ seen[u] = dbVersion))
    /\ Goto(u, "loop")
    /\ UNCHANGED << dbVersion, roomState, registry, seen, open, client, events, hydrated, missed >>

\* Another file, none to compare with, or no room: the client keeps its version.
VerifyMismatch(u) ==
    /\ pc[u] = "verifying"
    /\ SendToUser(u, Nothing)
    /\ Goto(u, "loop")
    /\ UNCHANGED << dbVersion, roomState, registry, seen, open, client, events, history >>

\* A commit that counts the version down.
ChangeCountsDown ==
    /\ Serving(Host)
    /\ dbVersion < MaxVersion
    /\ dbVersion' = dbVersion - 1
    /\ seen' = [seen EXCEPT ![Host] = dbVersion - 1]
    /\ Goto(Host, "publishing")
    /\ UNCHANGED << roomState, registry, stream, open, client, events, history >>

\* The host has selected another file than the one in the database, which no other
\* handler changes: it is committed,
ChangeCommit ==
    /\ Serving(Host)
    /\ dbVersion < MaxVersion
    /\ dbVersion' = dbVersion + 1
    /\ seen' = [seen EXCEPT ![Host] = dbVersion + 1]
    /\ Goto(Host, "publishing")
    /\ UNCHANGED << roomState, registry, stream, open, client, events, history >>

\* put into the RoomState and confirmed,
ChangePublish ==
    /\ pc[Host] = "publishing"
    /\ version' = seen[Host] /\ playing' = FALSE /\ closing' = FALSE
    /\ SendToUser(Host, Verified(seen[Host]))
    /\ late' = late \ {Host}
    /\ Goto(Host, "telling")
    /\ UNCHANGED << dbVersion, registry, seen, open, client, events, hydrated, missed, torn >>

\* and told to the others.
ChangeTell ==
    /\ pc[Host] = "telling"
    /\ Broadcast(Host, FileChanged(seen[Host]), rooms, Others(Host))
    /\ late' = late \ Others(Host)
    /\ Goto(Host, "loop")
    /\ UNCHANGED << dbVersion, roomState, registry, seen, open, client, events, hydrated, missed,
                    torn >>

-----------------------------------------------------------------------------
(* The client.                                                             *)

\* A client that takes every message.
AcceptsAll(u, message) == TRUE

\* The filter of onmessage.
Accepts(u, message) == message.seq > lastSeq[u]

\* The file version and the playback snapshot after a message.
Apply(u, body) ==
    /\ fileVersion' =
          IF body.type \in {"room_state", "file_changed", "file_verify_response"}
          THEN [fileVersion EXCEPT ![u] = body.version] ELSE fileVersion
    /\ snapshot' =
          IF body.type \in {"room_state", "sync_state"}
          THEN [snapshot EXCEPT ![u] = [version |-> body.version, playing |-> body.playing]]
          ELSE snapshot
    /\ hydrated' = IF body.type = "room_state" THEN hydrated \cup {u} ELSE hydrated

Receive(u) ==
    /\ link[u] # <<>>
    /\ link' = [link EXCEPT ![u] = Tail(@)]
    /\ LET message == Head(link[u]) IN
       IF Accepts(u, message)
       THEN /\ lastSeq' = [lastSeq EXCEPT ![u] = message.seq]
            /\ Apply(u, message.body)
            /\ UNCHANGED missed
       ELSE /\ missed' = missed \cup {u}
            /\ UNCHANGED << client, hydrated >>
    /\ UNCHANGED << dbVersion, roomState, registry, pc, seen, seq, sending, open, events, late,
                    torn >>

-----------------------------------------------------------------------------

HandlerStep(u) ==
    \/ Connect(u) \/ LoadRoomInfo(u) \/ Resume(u) \/ Greet(u) \/ Announce(u)
    \/ Resync(u) \/ CheckControl(u) \/ RejectControl(u) \/ \E play \in BOOLEAN : Control(u, play)
    \/ VerifyRead(u) \/ VerifyMatch(u) \/ VerifyMismatch(u)
    \/ Finally(u) \/ Part(u)

Next ==
    \/ \E u \in User : HandlerStep(u) \/ Lose(u) \/ Receive(u)
    \/ ChangeCommit \/ ChangePublish \/ ChangeTell
    \/ Beat
    \/ \E s \in Sender : SendNext(s)

Spec == Init /\ [][Next]_vars

-----------------------------------------------------------------------------
(* Properties.                                                             *)

\* Nothing is on its way: no broadcast, no unread message, no handler in the middle
\* of a handshake or of a file change.
Quiet ==
    /\ \A s \in Sender : ~Busy(s)
    /\ \A u \in User : link[u] = <<>> /\ pc[u] \in {"off", "loop"}

\* What the client's video does once it has the room's file.
BelievesPlaying(u) == snapshot[u].version = fileVersion[u] /\ snapshot[u].playing

\* The counter never falls behind what a connected client has seen: were it
\* restarted under a client, the filter would drop everything that follows ("the
\* backend's per-room counter resets when the room drains").
CounterIsAhead == \A u \in open : lastSeq[u] <= seq

\* Whoever is connected gets the room: when the client has read everything, it has
\* taken the room_state of this socket, whatever it had seen on the one before
\* ("without this, the initial room_state on the new socket would be silently
\* dropped and the client would never rehydrate").
FreshSocketHydrates ==
    \A u \in open : pc[u] = "loop" /\ link[u] = <<>> => u \in hydrated

\* When everything has come to rest, a client that dropped nothing agrees with the
\* server on the file and on whether it plays, however the broadcasts were
\* interleaved: unless the file was changed during its own verification, so that the
\* answer set it to the old version after the news of the new one; or a file change
\* fell into somebody's handshake, was told by an answer before it was published, or a
\* play was applied in a closing room (then the next autopause is announced and not
\* done).
ClientsAgree ==
    Quiet /\ ~torn => \A u \in open \ (missed \cup late) :
        fileVersion[u] = version /\ BelievesPlaying(u) = playing

-----------------------------------------------------------------------------
(* What the repository says of the program, and the code does not do.      *)

\* "clients must dedup / gap-check on seq and must NOT assume receive-order ==
\* seq-order": what a client drops is a message it has had already, so that on one
\* socket, where nothing is sent twice, it drops nothing.
OnlyDuplicatesAreDropped == missed = {}
=============================================================================
