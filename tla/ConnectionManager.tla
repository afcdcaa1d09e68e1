-------------------------- MODULE ConnectionManager --------------------------
(***************************************************************************)
(* The in-memory ConnectionManager of backend/app/ws/manager.py, for one   *)
(* room: which user is registered with which connection, whether the room  *)
(* has a RoomState and a heartbeat task, and the grace-period timers of    *)
(* users who dropped.                                                      *)
(*                                                                         *)
(* Every method is an operator that fixes the manager's variables in the   *)
(* next state; RoomSession composes them into the actions of the WebSocket *)
(* handler, the REST endpoints and the timer tasks.  asyncio runs one      *)
(* coroutine at a time, so the code between two awaits is one operator and *)
(* a method that awaits in the middle (close_user, close_room) is one      *)
(* operator per await-free stretch.                                        *)
(*                                                                         *)
(* Not covered: the fields of RoomState other than "is the room closing"   *)
(* (file, verification and playback fields), the sequence numbers and the  *)
(* per-recipient sends of broadcast.                                       *)
(***************************************************************************)
EXTENDS Naturals, FiniteSets

CONSTANTS
    User,   \* the accounts that may take part in the room
    Conn,   \* the WebSocket connections of a behaviour (connection_id)
    None    \* no connection

ASSUME NoneAssumption == None \notin Conn

VARIABLES
    rooms,        \* rooms[room_id]: the connection registered for each user
    roomPresent,  \* whether `rooms` has a key for the room at all
    roomState,    \* room_states[room_id]: "none", "open" or "closing"
    heartbeat,    \* whether _heartbeat_tasks has a task for the room
    graceTimer,   \* _grace_timers: what the task under each user's key does
    disconnected, \* the users with a record in disconnected_users
    closeUser,    \* close_user calls in progress, with their captured dict
    closeRoom     \* close_room calls in progress

managerVars == << rooms, roomPresent, roomState, heartbeat, graceTimer,
                  disconnected, closeUser, closeRoom >>

\* The callers of close_room: the host's grace timer, POST /leave by the host,
\* and DELETE /rooms/{id}.
Closer == {"timeout", "leave", "delete"}

\* A key stays in _grace_timers when its task ends: only a cancellation pops it.
TimerState == {"none", "sleeping", "fired", "marked", "done"}

\* close_user captures rooms[room_id] before its awaits.  "live" says that the
\* captured dict still is the registered one; "emptied" and "taken" that it was
\* dropped from `rooms` meanwhile, when empty and when not.
CloseUserState == {"idle", "called", "live", "emptied", "taken"}

CloseRoomState == {"idle", "called", "announcing", "dropping", "persisting"}

ManagerTypeOK ==
    /\ rooms \in [User -> Conn \cup {None}]
    /\ roomPresent \in BOOLEAN
    /\ roomState \in {"none", "open", "closing"}
    /\ heartbeat \in BOOLEAN
    /\ graceTimer \in [User -> TimerState]
    /\ disconnected \in SUBSET User
    /\ closeUser \in [User -> CloseUserState]
    /\ closeRoom \in [Closer -> CloseRoomState]

ManagerInit ==
    /\ rooms = [u \in User |-> None]
    /\ roomPresent = FALSE
    /\ roomState = "none"
    /\ heartbeat = FALSE
    /\ graceTimer = [u \in User |-> "none"]
    /\ disconnected = {}
    /\ closeUser = [u \in User |-> "idle"]
    /\ closeRoom = [k \in Closer |-> "idle"]

-----------------------------------------------------------------------------

NoConnection == [u \in User |-> None]

HasGraceTimers == \E u \in User : graceTimer[u] # "none"

\* The dict of the room leaves `rooms`: the close_user calls that captured it
\* keep looking at it, and see what it held.
DetachDict(content) ==
    closeUser' = [u \in User |->
                    IF closeUser[u] # "live" THEN closeUser[u]
                    ELSE IF content = NoConnection THEN "emptied" ELSE "taken"]

\* What is left of the room, and of its RoomState, when u's entry goes: without
\* connections there is no state either, unless a grace timer is pending.
Without(u) == [rooms EXCEPT ![u] = None]

StateWithout(u) ==
    IF Without(u) = NoConnection /\ ~HasGraceTimers THEN "none" ELSE roomState

Connect(u, c) ==
    /\ rooms' = [rooms EXCEPT ![u] = c]
    /\ roomPresent' = TRUE
    /\ roomState' = IF roomState = "none" THEN "open" ELSE roomState
    /\ heartbeat' = TRUE
    /\ graceTimer' = [graceTimer EXCEPT ![u] = "none"]
    /\ UNCHANGED << disconnected, closeUser, closeRoom >>

\* Whether disconnect(u, c) removes an entry and returns True.
Registered(u, c) == rooms[u] = c

\* A disconnect that stops the heartbeat whether or not somebody is left.
DisconnectStopsHeartbeat(u) ==
    /\ rooms' = Without(u)
    /\ heartbeat' = FALSE
    /\ IF Without(u) = NoConnection
       THEN roomPresent' = FALSE /\ DetachDict(NoConnection)
       ELSE UNCHANGED << roomPresent, closeUser >>

\* disconnect(u, c) when it removes the entry; the room_states part of it is
\* StateWithout(u), which the handler changes further in the same step.
Disconnect(u) ==
    /\ rooms' = Without(u)
    /\ IF Without(u) = NoConnection
       THEN roomPresent' = FALSE /\ heartbeat' = FALSE /\ DetachDict(NoConnection)
       ELSE UNCHANGED << roomPresent, heartbeat, closeUser >>

StartGracePeriod(u) ==
    /\ disconnected' = disconnected \cup {u}
    /\ graceTimer' = [graceTimer EXCEPT ![u] = "sleeping"]

\* A cancellation that leaves the disconnected_users record behind.
CancelGraceTimerOnly(u) ==
    /\ graceTimer' = [graceTimer EXCEPT ![u] = "none"]
    /\ disconnected' = disconnected

\* _cancel_grace_timer followed by disconnected_users.pop, as close_user and the
\* ws-ticket endpoint do.
ForgetGrace(u) ==
    /\ graceTimer' = [graceTimer EXCEPT ![u] = "none"]
    /\ disconnected' = disconnected \ {u}

\* close_user up to its first await.  The socket it closes afterwards is already
\* unregistered, so closing it here or later changes nothing the handler can do.
CloseUserBegin(u) ==
    /\ closeUser[u] = "called"
    /\ ForgetGrace(u)
    /\ rooms' = [rooms EXCEPT ![u] = None]
    /\ closeUser' = [closeUser EXCEPT ![u] = IF rooms[u] = None THEN "idle" ELSE "live"]
    /\ UNCHANGED << roomPresent, roomState, heartbeat, closeRoom >>

\* close_user after its awaits: it looks at the dict it captured and pops the one
\* that is registered now.
CapturedEmpty(u) ==
    \/ closeUser[u] = "live" /\ rooms = NoConnection
    \/ closeUser[u] = "emptied"

CloseUserEnd(u) ==
    /\ closeUser[u] \in {"live", "emptied", "taken"}
    /\ IF CapturedEmpty(u)
       THEN /\ rooms' = NoConnection
            /\ roomPresent' = FALSE
            /\ heartbeat' = FALSE
            /\ roomState' = IF HasGraceTimers THEN roomState ELSE "none"
            /\ closeUser' = [v \in User |->
                  IF v = u THEN "idle"
                  ELSE IF closeUser[v] # "live" THEN closeUser[v]
                  ELSE IF rooms = NoConnection THEN "emptied" ELSE "taken"]
       ELSE /\ closeUser' = [closeUser EXCEPT ![u] = "idle"]
            /\ UNCHANGED << rooms, roomPresent, heartbeat, roomState >>
    /\ UNCHANGED << graceTimer, disconnected, closeRoom >>

\* close_room up to its broadcast: stop the heartbeat, cancel every grace timer of
\* the room and drop the record of each user who had one.  `gone` are the users
\* whose records were dropped just before (by the timer that calls close_room).
\* A broadcast to nobody does not suspend: an empty room is closed in one step.
AfterClose(k) == IF k = "timeout" THEN "persisting" ELSE "idle"

CloseRoomBegin(k, gone) ==
    /\ heartbeat' = FALSE
    /\ graceTimer' = [u \in User |-> "none"]
    /\ disconnected' = {u \in disconnected \ gone : graceTimer[u] = "none"}
    /\ IF rooms = NoConnection
       THEN /\ closeRoom' = [closeRoom EXCEPT ![k] = AfterClose(k)]
            /\ roomPresent' = FALSE
            /\ roomState' = "none"
            /\ DetachDict(NoConnection)
       ELSE /\ closeRoom' = [closeRoom EXCEPT ![k] = "announcing"]
            /\ UNCHANGED << roomPresent, roomState, closeUser >>
    /\ UNCHANGED rooms

\* close_room after its broadcast: pop the dict; the caller closes its sockets.
CloseRoomDrop(k) ==
    /\ closeRoom[k] = "announcing"
    /\ rooms' = NoConnection
    /\ roomPresent' = FALSE
    /\ DetachDict(rooms)
    /\ closeRoom' = [closeRoom EXCEPT ![k] = "dropping"]
    /\ UNCHANGED << roomState, heartbeat, graceTimer, disconnected >>

\* close_room after the last socket is closed.  Only the host's timer has
\* something left to do.
CloseRoomEnd(k) ==
    /\ closeRoom[k] = "dropping"
    /\ roomState' = "none"
    /\ closeRoom' = [closeRoom EXCEPT ![k] = AfterClose(k)]
    /\ UNCHANGED << rooms, roomPresent, heartbeat, graceTimer, disconnected, closeUser >>
=============================================================================
