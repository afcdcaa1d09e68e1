----------------------------- MODULE RoomSession -----------------------------
(***************************************************************************)
(* The life of one watch room: the WebSocket handler of                    *)
(* backend/app/ws/handler.py run once per connection, the REST endpoints   *)
(* that change membership (join, leave, delete) and issue WebSocket        *)
(* tickets, and the grace-period timers, all on one asyncio event loop     *)
(* over the ConnectionManager.                                             *)
(*                                                                         *)
(* Granularity: a step is what runs between two awaits.  Where the last    *)
(* thing a coroutine awaits before it acts is a database query, reading    *)
(* and acting are one step; where more awaits follow the query, what was   *)
(* read is kept in the handler's pc and used in a later step.              *)
(*                                                                         *)
(* Not covered here: the messages of the loop (files, readiness, playback, *)
(* chat), the contents of broadcasts, and the restore of a participant's   *)
(* readiness on reconnect.                                                 *)
(***************************************************************************)
EXTENDS ConnectionManager

CONSTANTS
    Host,         \* the user who created the room
    MaxTickets,   \* bound: unconsumed tickets per user
    MaxLeaves,    \* bound: POST /leave by participants
    MaxFaults,    \* bound: database or send errors outside the message loop
    MaxRestarts   \* bound: restarts of the server process

ASSUME HostAssumption == Host \in User
ASSUME BoundsAssumption ==
    /\ MaxTickets \in Nat
    /\ MaxLeaves \in Nat
    /\ MaxFaults \in Nat
    /\ MaxRestarts \in Nat

VARIABLES
    member,      \* database: users with an active participant row (left_at NULL)
    roomActive,  \* database: rooms.is_active
    tickets,     \* unconsumed WebSocket tickets of each user
    owner,       \* the user of each connection
    pc,          \* where the handler coroutine of each connection is
    socketOpen,  \* whether the connection's socket is open
    restClosed,  \* history: is_active was cleared by a REST endpoint
    leaves, faults, restarts   \* counters of the bounded events

handlerVars == << owner, pc, socketOpen >>
databaseVars == << member, roomActive, restClosed >>
counters == << leaves, faults, restarts >>
vars == << managerVars, handlerVars, databaseVars, tickets, counters >>

\* Handler states, in the order of the code.  "refused" has read an inactive room.
\* "finally" awaits the was_ready query; "notifying" has been unregistered and is
\* broadcasting that, its grace period not yet started.
Handler == {"unused", "accepting", "loading", "refused", "joining", "announcing",
            "loop", "finally", "notifying", "ended"}

\* The handler has registered its connection and has yet to call disconnect.
Serving == {"loading", "refused", "joining", "announcing", "loop", "finally"}

TypeOK ==
    /\ ManagerTypeOK
    /\ member \in SUBSET User
    /\ roomActive \in BOOLEAN
    /\ restClosed \in BOOLEAN
    /\ tickets \in [User -> 0..MaxTickets]
    /\ owner \in [Conn -> User]
    /\ pc \in [Conn -> Handler]
    /\ socketOpen \in [Conn -> BOOLEAN]
    /\ leaves \in 0..MaxLeaves
    /\ faults \in 0..MaxFaults
    /\ restarts \in 0..MaxRestarts

\* The room has just been created: its host is a participant, nobody is connected.
Init ==
    /\ ManagerInit
    /\ member = {Host}
    /\ roomActive = TRUE
    /\ restClosed = FALSE
    /\ tickets = [u \in User |-> 0]
    /\ owner = [c \in Conn |-> Host]
    /\ pc = [c \in Conn |-> "unused"]
    /\ socketOpen = [c \in Conn |-> FALSE]
    /\ leaves = 0 /\ faults = 0 /\ restarts = 0

Goto(c, label) == pc' = [pc EXCEPT ![c] = label]

-----------------------------------------------------------------------------
(* REST endpoints.                                                         *)

JoinRoom(u) ==
    /\ roomActive
    /\ u \notin member
    /\ member' = member \cup {u}
    /\ UNCHANGED << managerVars, handlerVars, roomActive, restClosed, tickets, counters >>

\* POST /ws-ticket cancels the caller's grace timer and forgets that they were
\* disconnected before any connection exists.
IssueTicket(u) ==
    /\ roomActive
    /\ u \in member
    /\ tickets[u] < MaxTickets
    /\ ForgetGrace(u)
    /\ tickets' = [tickets EXCEPT ![u] = @ + 1]
    /\ UNCHANGED << rooms, roomPresent, roomState, heartbeat, closeUser, closeRoom >>
    /\ UNCHANGED << handlerVars, databaseVars, counters >>

ExpireTicket(u) ==
    /\ tickets[u] > 0
    /\ tickets' = [tickets EXCEPT ![u] = @ - 1]
    /\ UNCHANGED << managerVars, handlerVars, databaseVars, counters >>

\* POST /leave by a participant: leave_room commits, then close_user runs.
Leave(u) ==
    /\ u # Host
    /\ u \in member
    /\ leaves < MaxLeaves
    /\ closeUser[u] = "idle"
    /\ member' = member \ {u}
    /\ closeUser' = [closeUser EXCEPT ![u] = "called"]
    /\ leaves' = leaves + 1
    /\ UNCHANGED << rooms, roomPresent, roomState, heartbeat, graceTimer, disconnected, closeRoom >>
    /\ UNCHANGED << handlerVars, roomActive, restClosed, tickets, faults, restarts >>

LeaveNotify(u) ==
    /\ CloseUserBegin(u)
    /\ socketOpen' = [c \in Conn |-> socketOpen[c] /\ c # rooms[u]]
    /\ UNCHANGED << owner, pc, databaseVars, tickets, counters >>

LeaveFinish(u) ==
    /\ CloseUserEnd(u)
    /\ UNCHANGED << handlerVars, databaseVars, tickets, counters >>

\* POST /leave by the host deactivates the room, and so does DELETE, which may be
\* repeated; then close_room runs.
CloseByHost(k) ==
    /\ k \in {"leave", "delete"}
    /\ closeRoom[k] = "idle"
    /\ k = "leave" => Host \in member
    /\ member' = IF k = "leave" THEN member \ {Host} ELSE member
    /\ roomActive' = FALSE
    /\ restClosed' = TRUE
    /\ closeRoom' = [closeRoom EXCEPT ![k] = "called"]
    /\ UNCHANGED << rooms, roomPresent, roomState, heartbeat, graceTimer, disconnected, closeUser >>
    /\ UNCHANGED << handlerVars, tickets, counters >>

CloseStart(k) ==
    /\ closeRoom[k] = "called"
    /\ CloseRoomBegin(k, {})
    /\ UNCHANGED << handlerVars, databaseVars, tickets, counters >>

\* A close_room that pops the dict and leaves the sockets open.
DropWithoutClosing(k) ==
    /\ CloseRoomDrop(k)
    /\ UNCHANGED << handlerVars, databaseVars, tickets, counters >>

\* close_room awaits each close in turn; a connection it has not reached yet is
\* unregistered already, so the sockets are closed in one step.
CloseDrop(k) ==
    /\ CloseRoomDrop(k)
    /\ socketOpen' = [c \in Conn |-> socketOpen[c] /\ \A u \in User : rooms[u] # c]
    /\ UNCHANGED << owner, pc, databaseVars, tickets, counters >>

CloseFinish(k) ==
    /\ CloseRoomEnd(k)
    /\ UNCHANGED << handlerVars, databaseVars, tickets, counters >>

-----------------------------------------------------------------------------
(* The handler of one connection.                                          *)

\* A handshake that does not require its ticket to be in the store.
HandshakeWithoutTicket(u, c) ==
    /\ pc[c] = "unused"
    /\ u \in member
    /\ tickets' = [tickets EXCEPT ![u] = @ - 1]
    /\ owner' = [owner EXCEPT ![c] = u]
    /\ socketOpen' = [socketOpen EXCEPT ![c] = TRUE]
    /\ Goto(c, "accepting")
    /\ UNCHANGED << managerVars, databaseVars, counters >>

\* validate_ws_ticket consumes the ticket before the membership check.
Handshake(u, c) ==
    /\ tickets[u] > 0
    /\ pc[c] = "unused"
    /\ u \in member
    /\ tickets' = [tickets EXCEPT ![u] = @ - 1]
    /\ owner' = [owner EXCEPT ![c] = u]
    /\ socketOpen' = [socketOpen EXCEPT ![c] = TRUE]
    /\ Goto(c, "accepting")
    /\ UNCHANGED << managerVars, databaseVars, counters >>

RejectHandshake(u) ==
    /\ tickets[u] > 0
    /\ u \notin member
    /\ tickets' = [tickets EXCEPT ![u] = @ - 1]
    /\ UNCHANGED << managerVars, handlerVars, databaseVars, counters >>

\* accept, connect, and the tab dedup: the socket of a replaced connection closes.
Accept(c) ==
    /\ pc[c] = "accepting"
    /\ Connect(owner[c], c)
    /\ socketOpen' = [d \in Conn |-> socketOpen[d] /\ d # rooms[owner[c]]]
    /\ Goto(c, "loading")
    /\ UNCHANGED << owner, databaseVars, tickets, counters >>

\* A handler that does not look at is_active.
LoadAnyRoom(c) ==
    /\ pc[c] = "loading"
    /\ Goto(c, "joining")
    /\ UNCHANGED << managerVars, owner, socketOpen, databaseVars, tickets, counters >>

\* The snapshot of the database: only is_active matters here.
LoadRoom(c) ==
    /\ pc[c] = "loading"
    /\ Goto(c, IF roomActive THEN "joining" ELSE "refused")
    /\ UNCHANGED << managerVars, owner, socketOpen, databaseVars, tickets, counters >>

\* A handler that refuses an inactive room without calling disconnect.
RefuseOnly(c) ==
    /\ pc[c] = "refused"
    /\ Goto(c, "ended")
    /\ socketOpen' = [socketOpen EXCEPT ![c] = FALSE]
    /\ UNCHANGED << managerVars, owner, databaseVars, tickets, counters >>

\* The handler of an inactive room: disconnect, without a grace period.
Refuse(c) ==
    /\ pc[c] = "refused"
    /\ Goto(c, "ended")
    /\ socketOpen' = [socketOpen EXCEPT ![c] = FALSE]
    /\ IF Registered(owner[c], c)
       THEN /\ Disconnect(owner[c])
            /\ roomState' = StateWithout(owner[c])
       ELSE UNCHANGED << rooms, roomPresent, heartbeat, closeUser, roomState >>
    /\ UNCHANGED << graceTimer, disconnected, closeRoom >>
    /\ UNCHANGED << owner, databaseVars, tickets, counters >>

\* is_reconnecting pops the record; a host found in it reopens a closing room.
Join(c) ==
    /\ pc[c] = "joining"
    /\ roomState' = IF owner[c] = Host /\ Host \in disconnected /\ roomState = "closing"
                    THEN "open" ELSE roomState
    /\ disconnected' = disconnected \ {owner[c]}
    /\ Goto(c, "announcing")
    /\ UNCHANGED << rooms, roomPresent, heartbeat, graceTimer, closeUser, closeRoom >>
    /\ UNCHANGED << owner, socketOpen, databaseVars, tickets, counters >>

\* room_state to the newcomer, user_joined to the others.
Announce(c) ==
    /\ pc[c] = "announcing"
    /\ Goto(c, "loop")
    /\ UNCHANGED << managerVars, owner, socketOpen, databaseVars, tickets, counters >>

\* receive_json raises when the socket is gone ...
SocketGone(c) ==
    /\ pc[c] = "loop"
    /\ ~socketOpen[c]
    /\ Goto(c, "finally")
    /\ UNCHANGED << managerVars, owner, socketOpen, databaseVars, tickets, counters >>

\* ... and a frame of a connection that is no longer the live one ends the loop: one
\* that arrived before the socket was closed, or of a socket that nobody closed.
StaleFrame(c) ==
    /\ pc[c] = "loop"
    /\ rooms[owner[c]] # c
    /\ Goto(c, "finally")
    /\ UNCHANGED << managerVars, owner, socketOpen, databaseVars, tickets, counters >>

\* The finally block after its query.  A dropped host pauses the room and marks it
\* closing.  With nobody to tell, the grace period starts in the same step.
Finally(c) ==
    LET u == owner[c] IN
    /\ pc[c] = "finally"
    /\ socketOpen' = [socketOpen EXCEPT ![c] = FALSE]
    /\ IF Registered(u, c)
       THEN /\ Disconnect(u)
            /\ roomState' = IF u = Host /\ StateWithout(u) # "none"
                            THEN "closing" ELSE StateWithout(u)
            /\ IF Without(u) = NoConnection
               THEN StartGracePeriod(u) /\ Goto(c, "ended")
               ELSE UNCHANGED << graceTimer, disconnected >> /\ Goto(c, "notifying")
       ELSE /\ Goto(c, "ended")
            /\ UNCHANGED << rooms, roomPresent, heartbeat, closeUser, roomState,
                            graceTimer, disconnected >>
    /\ UNCHANGED << closeRoom, owner, databaseVars, tickets, counters >>

\* The end of the finally block: the grace period starts after the broadcasts.
StartGrace(c) ==
    /\ pc[c] = "notifying"
    /\ StartGracePeriod(owner[c])
    /\ Goto(c, "ended")
    /\ UNCHANGED << rooms, roomPresent, roomState, heartbeat, closeUser, closeRoom >>
    /\ UNCHANGED << owner, socketOpen, databaseVars, tickets, counters >>

\* A query or a send outside the try of the message loop raises: the handler ends
\* without disconnect, and so does its finally block when its query raises.
HandlerFault(c) ==
    /\ pc[c] \in {"loading", "refused", "announcing", "finally"}
    /\ faults < MaxFaults
    /\ faults' = faults + 1
    /\ socketOpen' = [socketOpen EXCEPT ![c] = FALSE]
    /\ Goto(c, "ended")
    /\ UNCHANGED << managerVars, owner, databaseVars, tickets, leaves, restarts >>

\* An error inside the loop is caught: the finally block runs.
LoopError(c) ==
    /\ pc[c] = "loop"
    /\ Goto(c, "finally")
    /\ UNCHANGED << managerVars, owner, socketOpen, databaseVars, tickets, counters >>

-----------------------------------------------------------------------------
(* Timers and the environment.                                             *)

\* _host_timeout: close_room runs inside the timer's task, which is not cancelled.
HostTimeout ==
    /\ graceTimer[Host] = "sleeping"
    /\ closeRoom["timeout"] = "idle"
    /\ CloseRoomBegin("timeout", {Host})
    /\ UNCHANGED << handlerVars, databaseVars, tickets, counters >>

\* ... and only then clears is_active.
HostTimeoutPersist ==
    /\ closeRoom["timeout"] = "persisting"
    /\ roomActive' = FALSE
    /\ closeRoom' = [closeRoom EXCEPT !["timeout"] = "idle"]
    /\ UNCHANGED << rooms, roomPresent, roomState, heartbeat, graceTimer, disconnected, closeUser >>
    /\ UNCHANGED << handlerVars, member, restClosed, tickets, counters >>

\* A timer that runs its callback but keeps the record.
TimeoutKeepsRecord(u) ==
    /\ u # Host
    /\ graceTimer[u] = "sleeping"
    /\ graceTimer' = [graceTimer EXCEPT ![u] = "fired"]
    /\ UNCHANGED << rooms, roomPresent, roomState, heartbeat, disconnected, closeUser, closeRoom >>
    /\ UNCHANGED << handlerVars, databaseVars, tickets, counters >>

\* The timer of a participant wakes up and pops the record,
ParticipantTimeout(u) ==
    /\ u # Host
    /\ graceTimer[u] = "sleeping"
    /\ graceTimer' = [graceTimer EXCEPT ![u] = "fired"]
    /\ disconnected' = disconnected \ {u}
    /\ UNCHANGED << rooms, roomPresent, roomState, heartbeat, closeUser, closeRoom >>
    /\ UNCHANGED << handlerVars, databaseVars, tickets, counters >>

\* commits left_at,
ParticipantTimeoutPersist(u) ==
    /\ graceTimer[u] = "fired"
    /\ graceTimer' = [graceTimer EXCEPT ![u] = "marked"]
    /\ member' = member \ {u}
    /\ UNCHANGED << rooms, roomPresent, roomState, heartbeat, disconnected, closeUser, closeRoom >>
    /\ UNCHANGED << handlerVars, roomActive, restClosed, tickets, counters >>

\* and cleans up the room state if no grace timers are left.
ParticipantTimeoutEnd(u) ==
    /\ graceTimer[u] = "marked"
    /\ graceTimer' = [graceTimer EXCEPT ![u] = "done"]
    /\ roomState' = IF ~HasGraceTimers /\ ~roomPresent THEN "none" ELSE roomState
    /\ UNCHANGED << rooms, roomPresent, heartbeat, disconnected, closeUser, closeRoom >>
    /\ UNCHANGED << handlerVars, databaseVars, tickets, counters >>

\* The client closes the tab, navigates away or loses the network.
DropSocket(c) ==
    /\ pc[c] \in Serving
    /\ socketOpen[c]
    /\ socketOpen' = [socketOpen EXCEPT ![c] = FALSE]
    /\ UNCHANGED << managerVars, owner, pc, databaseVars, tickets, counters >>

\* The process dies and comes back: everything in memory is gone.
Restart ==
    /\ restarts < MaxRestarts
    /\ restarts' = restarts + 1
    /\ rooms' = NoConnection
    /\ roomPresent' = FALSE
    /\ roomState' = "none"
    /\ heartbeat' = FALSE
    /\ graceTimer' = [u \in User |-> "none"]
    /\ disconnected' = {}
    /\ closeUser' = [u \in User |-> "idle"]
    /\ closeRoom' = [k \in Closer |-> "idle"]
    /\ tickets' = [u \in User |-> 0]
    /\ pc' = [c \in Conn |-> IF pc[c] = "unused" THEN "unused" ELSE "ended"]
    /\ socketOpen' = [c \in Conn |-> FALSE]
    /\ UNCHANGED << owner, databaseVars, leaves, faults >>

-----------------------------------------------------------------------------

HandlerStep(c) ==
    \/ Accept(c) \/ LoadRoom(c) \/ Refuse(c) \/ Join(c) \/ Announce(c)
    \/ SocketGone(c) \/ Finally(c) \/ StartGrace(c)

TimerStep ==
    \/ HostTimeout \/ HostTimeoutPersist
    \/ \E u \in User : \/ ParticipantTimeout(u)
                       \/ ParticipantTimeoutPersist(u)
                       \/ ParticipantTimeoutEnd(u)

RestStep ==
    \/ \E u \in User : LeaveNotify(u) \/ LeaveFinish(u)
    \/ \E k \in Closer : CloseStart(k) \/ CloseDrop(k) \/ CloseFinish(k)

ClientStep ==
    \/ \E u \in User : \/ JoinRoom(u) \/ IssueTicket(u) \/ ExpireTicket(u)
                       \/ Leave(u) \/ RejectHandshake(u)
                       \/ \E c \in Conn : Handshake(u, c)
    \/ \E k \in Closer : CloseByHost(k)
    \/ \E c \in Conn : DropSocket(c) \/ StaleFrame(c)

Next ==
    \/ \E c \in Conn : HandlerStep(c)
    \/ TimerStep
    \/ RestStep
    \/ ClientStep
    \/ \E c \in Conn : HandlerFault(c) \/ LoopError(c)
    \/ Restart

Spec == Init /\ [][Next]_vars

\* The event loop runs every coroutine that can run and every timer that is due;
\* nothing is assumed of clients and their network.
Fairness ==
    /\ \A c \in Conn : WF_vars(HandlerStep(c))
    /\ WF_vars(HostTimeout) /\ WF_vars(HostTimeoutPersist)
    /\ \A u \in User : /\ WF_vars(ParticipantTimeout(u))
                      /\ WF_vars(ParticipantTimeoutPersist(u))
                      /\ WF_vars(ParticipantTimeoutEnd(u))
                      /\ WF_vars(LeaveNotify(u) \/ LeaveFinish(u))
    /\ \A k \in Closer : WF_vars(CloseStart(k) \/ CloseDrop(k) \/ CloseFinish(k))

FairSpec == Spec /\ Fairness

-----------------------------------------------------------------------------
(* Properties.                                                             *)

\* No phantom entry: as long as no error hit a handler outside its loop, every
\* registered connection belongs to the user it is registered for and has a
\* handler that has yet to run disconnect, so it will be removed again whatever
\* tabs, leaves and closes interleave (ConnectionManager.connect / disconnect).
RegisteredIsServed ==
    faults = 0 =>
        \A u \in User : rooms[u] # None =>
            owner[rooms[u]] = u /\ pc[rooms[u]] \in Serving

\* A record in disconnected_users of an active room is always backed by a running
\* timer, or is about to be consumed by the handshake that cancelled that timer:
\* nobody can be remembered as disconnected with nothing left to forget them.
GraceRecordBacked ==
    faults = 0 /\ roomActive =>
        \A u \in disconnected :
            \/ graceTimer[u] = "sleeping"
            \/ \E c \in Conn : owner[c] = u /\ pc[c] \in {"loading", "joining"}

\* An active room with connections has its RoomState and its heartbeat, except
\* while close_room is tearing it down.
OccupiedRoomIsEquipped ==
    roomActive /\ rooms # NoConnection /\ (\A k \in Closer : closeRoom[k] = "idle") =>
        heartbeat /\ roomState # "none"

\* Once a leave by the host or a delete has run close_room to its end, no handler
\* sits registered in the message loop: is_active is committed before close_room,
\* so whoever connects too late to be closed reads the room as inactive.
RestClosedRoomIsSealed ==
    restClosed /\ (\A k \in Closer : closeRoom[k] = "idle") =>
        \A u \in User : rooms[u] # None => pc[rooms[u]] \notin {"joining", "announcing", "loop"}

\* No record outlives its disconnection: every user in disconnected_users of a room
\* that stays active eventually is not (reconnect, ticket, leave or timeout).
GraceRecordResolves ==
    \A u \in User : u \in disconnected ~> (u \notin disconnected \/ ~roomActive)

\* A room closed over REST drains: eventually no handler of it is running, if no
\* POST /leave tears down a dict of its own meanwhile (the run has none).
RestCloseDrains ==
    restClosed ~> \A c \in Conn : pc[c] \in {"unused", "ended"}

-----------------------------------------------------------------------------
(* What the repository says of the program, and the code does not do.      *)

\* "If the host reconnects within 30 s -> host_reconnected is broadcast, playback
\* resumes (as paused)": once the host is back in the loop, with no handler about to
\* start a grace period and no grace timer running, the room is not closing.
HostReturnReopensRoom ==
    /\ rooms[Host] # None /\ pc[rooms[Host]] = "loop"
    /\ \A c \in Conn : owner[c] = Host => pc[c] # "notifying"
    /\ graceTimer[Host] = "none"
    => roomState # "closing"

\* "Cancel grace timer if reconnecting": a grace timer that expires never ends the
\* membership of a user who is connected.
NeverEvictConnected ==
    [][\A u \in User : graceTimer[u] = "fired" /\ graceTimer'[u] = "marked" =>
                          rooms[u] = None]_vars

\* "Only clean up state if no grace timers pending (someone may reconnect)": while
\* the grace timer of somebody who may reconnect runs, the room has its RoomState.
GraceKeepsState ==
    roomActive /\ restarts = 0 /\ (\A k \in Closer : closeRoom[k] = "idle") =>
        ((\E u \in User : graceTimer[u] = "sleeping") => roomState # "none")
=============================================================================
