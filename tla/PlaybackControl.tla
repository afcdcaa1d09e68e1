--------------------------- MODULE PlaybackControl ---------------------------
(***************************************************************************)
(* The playback half of a room's RoomState: play, pause and seek of        *)
(* backend/app/ws/handler.py with backend/app/ws/sync.py, the autopause    *)
(* when the host drops, the restore when the host comes back, and the      *)
(* reset when the reference file changes.                                  *)
(*                                                                         *)
(* A control command is checked against the RoomState, awaits a database   *)
(* query, and is then applied to the RoomState object it captured before:  *)
(* the object may have changed, or have been dropped, in between.          *)
(*                                                                         *)
(* Positions are left out; the rate limiters and the membership query are  *)
(* abstracted to "the command is rejected".                                *)
(* One connection per user (replaced tabs are in RoomSession and FileGate);*)
(* the awaits inside close_user and close_room are in RoomSession.         *)
(***************************************************************************)
EXTENDS Integers, FiniteSets

CONSTANTS
    User,       \* the accounts of the room
    Host,       \* the user who created it
    MaxVersion  \* bound: file versions

ASSUME HostAssumption == Host \in User
ASSUME BoundsAssumption == MaxVersion \in Nat

VARIABLES
    dbVersion,  \* rooms.file_version
    active,     \* rooms.is_active
    present,    \* whether room_states has a RoomState for the room
    status, saved, playing, version,  \* its room_status, _pre_closing_status,
                                      \* is_playing and file_version
    online,     \* users with an entry in `rooms`
    keys,       \* users with a key in _grace_timers
    hostRecord, \* whether disconnected_users has a record of the host
    pc,         \* where each user's handler is
    seen,       \* the file_version each handler has read or written
    command,    \* the control command each handler is serving
    holder      \* users whose handler captured the RoomState that exists now

roomState == << present, status, saved, playing, version >>
presence == << online, keys, hostRecord >>
handler == << pc, seen, command, holder >>
vars == << dbVersion, active, roomState, presence, handler >>

Status == {"waiting_file", "waiting_ready", "playing", "paused", "closing"}
Command == {"play", "pause", "seek"}
HandlerState == {"off", "connecting", "loaded", "refused", "loop", "checking",
                 "changing", "changed", "finally", "notifying"}

TypeOK ==
    /\ dbVersion \in 0..MaxVersion
    /\ active \in BOOLEAN
    /\ present \in BOOLEAN
    /\ status \in Status
    /\ saved \in Status \cup {"none"}
    /\ playing \in BOOLEAN
    /\ version \in 0..MaxVersion
    /\ online \in SUBSET User
    /\ keys \in SUBSET User
    /\ hostRecord \in BOOLEAN
    /\ pc \in [User -> HandlerState]
    /\ seen \in [User -> 0..MaxVersion]
    /\ command \in [User -> Command]
    /\ holder \in SUBSET User

\* A dropped RoomState reads as a fresh one: the next connect creates it.
Init ==
    /\ dbVersion = 0 /\ active = TRUE
    /\ present = FALSE /\ status = "waiting_file" /\ saved = "none"
    /\ playing = FALSE /\ version = 0
    /\ online = {} /\ keys = {} /\ hostRecord = FALSE
    /\ pc = [u \in User |-> "off"]
    /\ seen = [u \in User |-> 0]
    /\ command = [u \in User |-> "play"]
    /\ holder = {}

Goto(u, label) == pc' = [pc EXCEPT ![u] = label]

\* room_states.pop
DropState ==
    /\ present' = FALSE /\ status' = "waiting_file" /\ saved' = "none"
    /\ playing' = FALSE /\ version' = 0
    /\ holder' = {}

-----------------------------------------------------------------------------
(* Connecting.                                                             *)

\* POST /ws-ticket cancels the caller's timer and pops the record.
IssueTicket(u) ==
    /\ active
    /\ keys' = keys \ {u}
    /\ hostRecord' = (hostRecord /\ u # Host)
    /\ UNCHANGED << dbVersion, active, roomState, online, handler >>

Connect(u) ==
    /\ pc[u] = "off"
    /\ online' = online \cup {u}
    /\ keys' = keys \ {u}
    /\ present' = TRUE
    /\ Goto(u, "connecting")
    /\ UNCHANGED << dbVersion, active, status, saved, playing, version,
                    hostRecord, seen, command, holder >>

\* The snapshot of the handshake.
LoadRoomInfo(u) ==
    /\ pc[u] = "connecting"
    /\ seen' = [seen EXCEPT ![u] = dbVersion]
    /\ Goto(u, IF active THEN "loaded" ELSE "refused")
    /\ UNCHANGED << dbVersion, active, roomState, presence, command, holder >>

\* room_states goes with the last connection unless a grace timer has a key.
Forgotten(u, pending) == online \ {u} = {} /\ pending = {}

\* An inactive room ends the handshake: disconnect, and no grace period.
Refuse(u) ==
    /\ pc[u] = "refused"
    /\ online' = online \ {u}
    /\ IF u \in online /\ Forgotten(u, keys)
       THEN DropState
       ELSE UNCHANGED << roomState, holder >>
    /\ Goto(u, "off")
    /\ UNCHANGED << dbVersion, active, keys, hostRecord, seen, command >>

\* A fresh RoomState takes over the version of the snapshot, and a host with a
\* grace record reopens the room.
Resume(u) ==
    LET fresh == version = 0 /\ seen[u] > 0
        base == IF fresh THEN "waiting_ready" ELSE status
        back == u = Host /\ hostRecord /\ base = "closing"
    IN
    /\ pc[u] = "loaded"
    /\ IF present
       THEN /\ version' = IF fresh THEN seen[u] ELSE version
            /\ status' = IF ~back THEN base
                         ELSE IF saved \in {"none", "playing"} THEN "paused" ELSE saved
       ELSE UNCHANGED << version, status >>
    /\ hostRecord' = (hostRecord /\ u # Host)
    /\ Goto(u, "loop")
    /\ UNCHANGED << dbVersion, active, present, saved, playing, online, keys,
                    seen, command, holder >>

-----------------------------------------------------------------------------
(* play, pause, seek.                                                      *)

\* A guard that does not insist on a reference file.
CheckWithoutFile(u, c) ==
    /\ pc[u] = "loop" /\ u \in online
    /\ present
    /\ status # "closing"
    /\ command' = [command EXCEPT ![u] = c]
    /\ holder' = holder \cup {u}
    /\ Goto(u, "checking")
    /\ UNCHANGED << dbVersion, active, roomState, presence, seen >>

\* The room is not closing, a file is selected, and the command carries its version.
CheckControl(u, c) ==
    /\ pc[u] = "loop" /\ u \in online
    /\ present
    /\ status # "closing"
    /\ version > 0
    /\ command' = [command EXCEPT ![u] = c]
    /\ holder' = holder \cup {u}
    /\ Goto(u, "checking")
    /\ UNCHANGED << dbVersion, active, roomState, presence, seen >>

\* The sender is no longer a member, the query failed, the position is not a
\* number, or the room-wide limit is hit.
RejectControl(u) ==
    /\ pc[u] = "checking"
    /\ holder' = holder \ {u}
    /\ Goto(u, "loop")
    /\ UNCHANGED << dbVersion, active, roomState, presence, seen, command >>

\* apply_play, apply_pause, apply_seek
Played(s) == IF s \in {"waiting_ready", "paused"} THEN "playing" ELSE s
Paused(s) == IF s = "playing" THEN "paused" ELSE s

\* The command is applied to the captured RoomState; one that was dropped since
\* has no reader left.
ApplyControl(u) ==
    /\ pc[u] = "checking"
    /\ IF u \in holder
       THEN \/ command[u] = "play" /\ playing' = TRUE /\ status' = Played(status)
            \/ command[u] = "pause" /\ playing' = FALSE /\ status' = Paused(status)
            \/ command[u] = "seek" /\ UNCHANGED << playing, status >>
       ELSE UNCHANGED << playing, status >>
    /\ holder' = holder \ {u}
    /\ Goto(u, "loop")
    /\ UNCHANGED << dbVersion, active, present, saved, version, presence, seen, command >>

-----------------------------------------------------------------------------
(* The host changes the reference file.                                    *)

RequestChange ==
    /\ pc[Host] = "loop" /\ Host \in online
    /\ dbVersion < MaxVersion
    /\ Goto(Host, "changing")
    /\ UNCHANGED << dbVersion, active, roomState, presence, seen, command, holder >>

\* A commit that counts the version down.
CommitCountsDown ==
    /\ pc[Host] = "changing"
    /\ dbVersion < MaxVersion
    /\ dbVersion' = dbVersion - 1
    /\ seen' = [seen EXCEPT ![Host] = dbVersion - 1]
    /\ Goto(Host, "changed")
    /\ UNCHANGED << active, roomState, presence, command, holder >>

CommitChange ==
    /\ pc[Host] = "changing"
    /\ dbVersion < MaxVersion
    /\ dbVersion' = dbVersion + 1
    /\ seen' = [seen EXCEPT ![Host] = dbVersion + 1]
    /\ Goto(Host, "changed")
    /\ UNCHANGED << active, roomState, presence, command, holder >>

\* A publication that stops the playback but leaves the status alone.
PublishKeepsStatus ==
    /\ pc[Host] = "changed"
    /\ IF present
       THEN version' = seen[Host] /\ playing' = FALSE
       ELSE UNCHANGED << version, playing >>
    /\ Goto(Host, "loop")
    /\ UNCHANGED << dbVersion, active, present, saved, status, presence, seen, command, holder >>

PublishChange ==
    /\ pc[Host] = "changed"
    /\ IF present
       THEN /\ version' = seen[Host]
            /\ status' = "waiting_ready" /\ playing' = FALSE
       ELSE UNCHANGED << version, status, playing >>
    /\ Goto(Host, "loop")
    /\ UNCHANGED << dbVersion, active, present, saved, presence, seen, command, holder >>

-----------------------------------------------------------------------------
(* Disconnecting.                                                          *)

Drop(u) ==
    /\ pc[u] = "loop"
    /\ Goto(u, "finally")
    /\ UNCHANGED << dbVersion, active, roomState, presence, seen, command, holder >>

StartGrace(u) ==
    /\ keys' = keys \cup {u}
    /\ hostRecord' = (hostRecord \/ u = Host)

\* An autopause that leaves the saved status at what it was before.
SaveBeforePause ==
    IF status = "closing" THEN UNCHANGED << status, saved, playing >>
    ELSE saved' = status /\ status' = "closing" /\ playing' = FALSE

\* A dropped host pauses the room, then marks it closing.
AutoPause ==
    IF status = "closing" THEN UNCHANGED << status, saved, playing >>
    ELSE /\ saved' = IF playing THEN Paused(status) ELSE status
         /\ status' = "closing"
         /\ playing' = FALSE

\* The finally block: disconnect, autopause, tell the others.
Disconnect(u) ==
    /\ pc[u] = "finally"
    /\ IF u \notin online
       THEN Goto(u, "off") /\ UNCHANGED << roomState, presence, holder >>
       ELSE /\ online' = online \ {u}
            /\ IF Forgotten(u, keys)
               THEN DropState
               ELSE /\ IF u = Host /\ present THEN AutoPause
                       ELSE UNCHANGED << status, saved, playing >>
                    /\ UNCHANGED << present, version, holder >>
            /\ IF online \ {u} = {}
               THEN Goto(u, "off") /\ StartGrace(u)
               ELSE Goto(u, "notifying") /\ UNCHANGED << keys, hostRecord >>
    /\ UNCHANGED << dbVersion, active, seen, command >>

\* After the broadcasts the grace period starts.
EndNotify(u) ==
    /\ pc[u] = "notifying"
    /\ StartGrace(u)
    /\ Goto(u, "off")
    /\ UNCHANGED << dbVersion, active, roomState, online, seen, command, holder >>

\* close_user: a viewer leaves over REST.
CloseUser(u) ==
    /\ u # Host
    /\ keys' = keys \ {u}
    /\ IF u \in online /\ Forgotten(u, keys \ {u})
       THEN DropState
       ELSE UNCHANGED << roomState, holder >>
    /\ online' = online \ {u}
    /\ UNCHANGED << dbVersion, active, hostRecord, pc, seen, command >>

\* close_room: the host's grace period ends, or the host closes the room.
CloseRoom ==
    /\ active' = FALSE
    /\ DropState
    /\ online' = {} /\ keys' = {} /\ hostRecord' = FALSE
    /\ UNCHANGED << dbVersion, pc, seen, command >>

-----------------------------------------------------------------------------

HandlerStep(u) ==
    \/ Connect(u) \/ LoadRoomInfo(u) \/ Refuse(u) \/ Resume(u)
    \/ \E c \in Command : CheckControl(u, c)
    \/ RejectControl(u) \/ ApplyControl(u)
    \/ Drop(u) \/ Disconnect(u) \/ EndNotify(u)

Next ==
    \/ \E u \in User : HandlerStep(u) \/ IssueTicket(u) \/ CloseUser(u)
    \/ RequestChange \/ CommitChange \/ PublishChange
    \/ CloseRoom

Spec == Init /\ [][Next]_vars

-----------------------------------------------------------------------------
(* Properties.                                                             *)

\* A room that says it is playing plays, and is given back in a status other than
\* playing after its host was away: the autopause, the reset of a file change and
\* commands applied late never tear room_status and is_playing apart this way.
PlayingStatusIsTrue ==
    /\ status = "playing" => playing
    /\ status = "closing" => saved \in {"waiting_file", "waiting_ready", "paused"}

\* Nothing plays in a room without a reference file ("reject so a client can't flip
\* a waiting_file room to playing").
PlaybackNeedsFile == playing \/ status \in {"playing", "paused"} => version > 0

\* room_status goes through the life cycle of RoomStatus and no other.
Cycle == INSTANCE RoomStatus WITH status <- status, saved <- saved
ImplementsRoomStatus == Cycle!Spec

-----------------------------------------------------------------------------
(* What the repository says of the program, and the code does not do.      *)

\* "While the host is gone (grace window) the room is autopaused": a closing room
\* does not play.
ClosingRoomIsPaused == status = "closing" => ~playing
=============================================================================
