------------------------------ MODULE RoomStatus ------------------------------
(***************************************************************************)
(* What room_status promises to a client: the life cycle of a room as      *)
(* docs/ARCHITECTURE.md and docs/WS_PROTOCOL.md describe it, without       *)
(* connections, handlers or versions.  PlaybackControl implements it.      *)
(***************************************************************************)

VARIABLES
    status,  \* the room_status that clients are sent
    saved    \* the status a closing room returns to

\* The playable part of the cycle: what a room can be while its host is there.
Open == {"waiting_file", "waiting_ready", "playing", "paused"}

Init == status = "waiting_file" /\ saved = "none"

\* A reference file is set or changed: everybody has to become ready again.
NewFile == status' = "waiting_ready" /\ UNCHANGED saved

Play == status \in {"waiting_ready", "paused"} /\ status' = "playing" /\ UNCHANGED saved

Pause == status = "playing" /\ status' = "paused" /\ UNCHANGED saved

\* room_status -> "closing", saving the previous status, autopause applied.
HostLeaves ==
    /\ status \in Open
    /\ saved' = IF status = "playing" THEN "paused" ELSE status
    /\ status' = "closing"

HostReturns == status = "closing" /\ status' = saved /\ UNCHANGED saved

\* Everybody is gone and the server forgets the room's playback.
Forget == status' = "waiting_file" /\ saved' = "none"

Next == NewFile \/ Play \/ Pause \/ HostLeaves \/ HostReturns \/ Forget

Spec == Init /\ [][Next]_<< status, saved >>

=============================================================================
