-------------------------- MODULE RoomSessionProofs --------------------------
(***************************************************************************)
(* Proofs about RoomSession for any set of users and connections and any   *)
(* bounds.  Every invariant is proved inductive relative to TypeOK; the    *)
(* step lemmas have one step per action of Next.                           *)
(***************************************************************************)
EXTENDS RoomSession, TLAPS

\* The initial state is well typed.
LEMMA InitTypeOK == Init => TypeOK
<1> SUFFICES ASSUME Init PROVE TypeOK
  OBVIOUS
<1>1. ManagerTypeOK
  BY DEF Init, ManagerInit, ManagerTypeOK, TimerState, CloseUserState, CloseRoomState
<1>2. /\ tickets \in [User -> 0..MaxTickets]
      /\ leaves \in 0..MaxLeaves /\ faults \in 0..MaxFaults /\ restarts \in 0..MaxRestarts
  BY BoundsAssumption DEF Init
<1>3. /\ member \in SUBSET User /\ roomActive \in BOOLEAN /\ restClosed \in BOOLEAN
      /\ owner \in [Conn -> User] /\ pc \in [Conn -> Handler]
      /\ socketOpen \in [Conn -> BOOLEAN]
  BY HostAssumption DEF Init, Handler
<1> QED
  BY <1>1, <1>2, <1>3 DEF TypeOK

\* Every step preserves the types.
LEMMA NextTypeOK == TypeOK /\ [Next]_vars => TypeOK'
<1> SUFFICES ASSUME TypeOK, [Next]_vars PROVE TypeOK'
  OBVIOUS
<1> USE HostAssumption, BoundsAssumption
    DEF TypeOK, ManagerTypeOK, TimerState, CloseUserState, CloseRoomState, Handler,
        Closer, managerVars, handlerVars, databaseVars, counters, Goto
<1>1. ASSUME NEW u \in User, JoinRoom(u) PROVE TypeOK'
  BY <1>1 DEF JoinRoom
<1>2. ASSUME NEW u \in User, IssueTicket(u) PROVE TypeOK'
  BY <1>2 DEF IssueTicket, ForgetGrace
<1>3. ASSUME NEW u \in User, ExpireTicket(u) PROVE TypeOK'
  BY <1>3 DEF ExpireTicket
<1>4. ASSUME NEW u \in User, Leave(u) PROVE TypeOK'
  BY <1>4 DEF Leave
<1>5. ASSUME NEW u \in User, LeaveNotify(u) PROVE TypeOK'
  BY <1>5 DEF LeaveNotify, CloseUserBegin, ForgetGrace
<1>6. ASSUME NEW u \in User, LeaveFinish(u) PROVE TypeOK'
  <2>1. closeUser' \in [User -> CloseUserState]
    BY <1>6 DEF LeaveFinish, CloseUserEnd
  <2>2. /\ rooms' \in [User -> Conn \cup {None}]
        /\ roomPresent' \in BOOLEAN /\ heartbeat' \in BOOLEAN
        /\ roomState' \in {"none", "open", "closing"}
    <3>1. CASE CapturedEmpty(u)
      <4>1. rooms' = NoConnection /\ roomPresent' = FALSE /\ heartbeat' = FALSE
        BY <1>6, <3>1 DEF LeaveFinish, CloseUserEnd
      <4>2. roomState' = roomState \/ roomState' = "none"
        BY <1>6, <3>1 DEF LeaveFinish, CloseUserEnd
      <4> QED
        BY <4>1, <4>2 DEF NoConnection
    <3>2. CASE ~CapturedEmpty(u)
      BY <1>6, <3>2 DEF LeaveFinish, CloseUserEnd
    <3> QED
      BY <3>1, <3>2
  <2> QED
    BY <1>6, <2>1, <2>2 DEF LeaveFinish, CloseUserEnd
<1>7. ASSUME NEW k \in Closer, CloseByHost(k) PROVE TypeOK'
  BY <1>7 DEF CloseByHost
<1>8. ASSUME NEW k \in Closer, CloseStart(k) PROVE TypeOK'
  <2>1. /\ closeUser' \in [User -> CloseUserState]
        /\ closeRoom' \in [Closer -> CloseRoomState]
    BY <1>8 DEF CloseStart, CloseRoomBegin, DetachDict, AfterClose
  <2>2. /\ graceTimer' \in [User -> TimerState]
        /\ disconnected' \in SUBSET User
    BY <1>8 DEF CloseStart, CloseRoomBegin
  <2>3. /\ rooms' \in [User -> Conn \cup {None}]
        /\ roomPresent' \in BOOLEAN /\ heartbeat' \in BOOLEAN
        /\ roomState' \in {"none", "open", "closing"}
    BY <1>8 DEF CloseStart, CloseRoomBegin
  <2> QED
    BY <1>8, <2>1, <2>2, <2>3 DEF CloseStart
<1>9. ASSUME NEW k \in Closer, CloseDrop(k) PROVE TypeOK'
  BY <1>9 DEF CloseDrop, CloseRoomDrop, DetachDict, NoConnection
<1>10. ASSUME NEW k \in Closer, CloseFinish(k) PROVE TypeOK'
  BY <1>10 DEF CloseFinish, CloseRoomEnd, AfterClose
<1>11. ASSUME NEW u \in User, NEW c \in Conn, Handshake(u, c) PROVE TypeOK'
  BY <1>11 DEF Handshake
<1>12. ASSUME NEW u \in User, RejectHandshake(u) PROVE TypeOK'
  BY <1>12 DEF RejectHandshake
<1>13. ASSUME NEW c \in Conn, Accept(c) PROVE TypeOK'
  BY <1>13 DEF Accept, Connect
<1>14. ASSUME NEW c \in Conn, LoadRoom(c) PROVE TypeOK'
  BY <1>14 DEF LoadRoom
<1>15. ASSUME NEW c \in Conn, Refuse(c) PROVE TypeOK'
  BY <1>15 DEF Refuse, Registered, Disconnect, Without, StateWithout, DetachDict,
               NoConnection, HasGraceTimers
<1>16. ASSUME NEW c \in Conn, Join(c) PROVE TypeOK'
  BY <1>16 DEF Join
<1>17. ASSUME NEW c \in Conn, Announce(c) PROVE TypeOK'
  BY <1>17 DEF Announce
<1>18. ASSUME NEW c \in Conn, SocketGone(c) PROVE TypeOK'
  BY <1>18 DEF SocketGone
<1>19. ASSUME NEW c \in Conn, StaleFrame(c) PROVE TypeOK'
  BY <1>19 DEF StaleFrame
<1>20. ASSUME NEW c \in Conn, Finally(c) PROVE TypeOK'
  <2>1. CASE ~Registered(owner[c], c)
    BY <1>20, <2>1 DEF Finally
  <2>2. CASE Registered(owner[c], c)
    <3>1. /\ closeUser' \in [User -> CloseUserState]
          /\ roomPresent' \in BOOLEAN /\ heartbeat' \in BOOLEAN
          /\ rooms' \in [User -> Conn \cup {None}]
      BY <1>20, <2>2 DEF Finally, Disconnect, DetachDict, Without
    <3>2. roomState' \in {"none", "open", "closing"}
      BY <1>20, <2>2 DEF Finally, StateWithout
    <3>3. /\ graceTimer' \in [User -> TimerState]
          /\ disconnected' \in SUBSET User
          /\ pc' \in [Conn -> Handler]
      BY <1>20, <2>2 DEF Finally, StartGracePeriod
    <3> QED
      BY <1>20, <3>1, <3>2, <3>3 DEF Finally
  <2> QED
    BY <2>1, <2>2
<1>21. ASSUME NEW c \in Conn, StartGrace(c) PROVE TypeOK'
  BY <1>21 DEF StartGrace, StartGracePeriod
<1>22. ASSUME NEW c \in Conn, HandlerFault(c) PROVE TypeOK'
  BY <1>22 DEF HandlerFault
<1>23. ASSUME NEW c \in Conn, LoopError(c) PROVE TypeOK'
  BY <1>23 DEF LoopError
<1>24. ASSUME HostTimeout PROVE TypeOK'
  <2>1. /\ closeUser' \in [User -> CloseUserState]
        /\ closeRoom' \in [Closer -> CloseRoomState]
    BY <1>24 DEF HostTimeout, CloseRoomBegin, DetachDict, AfterClose
  <2>2. /\ graceTimer' \in [User -> TimerState]
        /\ disconnected' \in SUBSET User
    BY <1>24 DEF HostTimeout, CloseRoomBegin
  <2>3. /\ rooms' \in [User -> Conn \cup {None}]
        /\ roomPresent' \in BOOLEAN /\ heartbeat' \in BOOLEAN
        /\ roomState' \in {"none", "open", "closing"}
    BY <1>24 DEF HostTimeout, CloseRoomBegin
  <2> QED
    BY <1>24, <2>1, <2>2, <2>3 DEF HostTimeout
<1>25. ASSUME HostTimeoutPersist PROVE TypeOK'
  BY <1>25 DEF HostTimeoutPersist
<1>26. ASSUME NEW u \in User, ParticipantTimeout(u) PROVE TypeOK'
  BY <1>26 DEF ParticipantTimeout
<1>27. ASSUME NEW u \in User, ParticipantTimeoutPersist(u) PROVE TypeOK'
  BY <1>27 DEF ParticipantTimeoutPersist
<1>28. ASSUME NEW u \in User, ParticipantTimeoutEnd(u) PROVE TypeOK'
  BY <1>28 DEF ParticipantTimeoutEnd
<1>29. ASSUME NEW c \in Conn, DropSocket(c) PROVE TypeOK'
  BY <1>29 DEF DropSocket
<1>30. ASSUME Restart PROVE TypeOK'
  <2>1. ManagerTypeOK'
    BY <1>30 DEF Restart, NoConnection
  <2>2. /\ tickets' \in [User -> 0..MaxTickets]
        /\ restarts' \in 0..MaxRestarts
    BY <1>30 DEF Restart
  <2>3. /\ pc' \in [Conn -> Handler]
        /\ socketOpen' \in [Conn -> BOOLEAN]
    BY <1>30 DEF Restart
  <2> QED
    BY <1>30, <2>1, <2>2, <2>3 DEF Restart
<1>31. CASE UNCHANGED vars
  BY <1>31 DEF vars
<1> QED
  BY <1>1, <1>2, <1>3, <1>4, <1>5, <1>6, <1>7, <1>8, <1>9, <1>10, <1>11, <1>12, <1>13,
     <1>14, <1>15, <1>16, <1>17, <1>18, <1>19, <1>20, <1>21, <1>22, <1>23, <1>24, <1>25,
     <1>26, <1>27, <1>28, <1>29, <1>30, <1>31
  DEF Next, HandlerStep, TimerStep, RestStep, ClientStep

\* Type correctness of the room's lifecycle.
THEOREM TypeCorrect == Spec => []TypeOK
<1>1. Init => TypeOK
  BY InitTypeOK
<1>2. TypeOK /\ [Next]_vars => TypeOK'
  BY NextTypeOK
<1> QED
  BY <1>1, <1>2, PTL DEF Spec

-----------------------------------------------------------------------------
(* Every registered connection has a handler that will unregister it.      *)

\* Steps that only unregister connections preserve the invariant.
LEMMA UnregisteringIsServed ==
    ASSUME TypeOK, RegisteredIsServed,
           UNCHANGED << owner, pc, faults >>,
           \A u \in User : rooms'[u] = rooms[u] \/ rooms'[u] = None
    PROVE  RegisteredIsServed'
BY DEF RegisteredIsServed

LEMMA NextRegisteredIsServed ==
    TypeOK /\ RegisteredIsServed /\ [Next]_vars => RegisteredIsServed'
<1> SUFFICES ASSUME TypeOK, RegisteredIsServed, [Next]_vars PROVE RegisteredIsServed'
  OBVIOUS
<1> USE NoneAssumption
    DEF handlerVars, databaseVars, counters, managerVars
<1>1. ASSUME UNCHANGED << rooms, owner, pc, faults >> PROVE RegisteredIsServed'
  BY <1>1, UnregisteringIsServed
<1>2. ASSUME NEW u \in User, LeaveNotify(u) PROVE RegisteredIsServed'
  <2>1. UNCHANGED << owner, pc, faults >> /\ rooms' = [rooms EXCEPT ![u] = None]
    BY <1>2 DEF LeaveNotify, CloseUserBegin
  <2> QED
    BY <2>1, UnregisteringIsServed DEF TypeOK, ManagerTypeOK
<1>3. ASSUME NEW u \in User, LeaveFinish(u) PROVE RegisteredIsServed'
  <2>1. UNCHANGED << owner, pc, faults >> /\ (rooms' = rooms \/ rooms' = NoConnection)
    BY <1>3 DEF LeaveFinish, CloseUserEnd
  <2> QED
    BY <2>1, UnregisteringIsServed DEF NoConnection
<1>4. ASSUME NEW k \in Closer, CloseDrop(k) PROVE RegisteredIsServed'
  <2>1. UNCHANGED << owner, pc, faults >> /\ rooms' = NoConnection
    BY <1>4 DEF CloseDrop, CloseRoomDrop
  <2> QED
    BY <2>1, UnregisteringIsServed DEF NoConnection
<1>5. ASSUME NEW u \in User, NEW c \in Conn, Handshake(u, c) PROVE RegisteredIsServed'
  BY <1>5 DEF Handshake, Goto, RegisteredIsServed, Serving, TypeOK, ManagerTypeOK
<1>6. ASSUME NEW c \in Conn, Accept(c) PROVE RegisteredIsServed'
  BY <1>6 DEF Accept, Connect, Goto, RegisteredIsServed, Serving, TypeOK, ManagerTypeOK
<1>7. ASSUME NEW c \in Conn,
             \/ LoadRoom(c) \/ Join(c) \/ Announce(c)
             \/ SocketGone(c) \/ StaleFrame(c) \/ LoopError(c)
      PROVE  RegisteredIsServed'
  <2>1. /\ UNCHANGED << rooms, owner, faults >>
        /\ pc[c] \in Serving
        /\ \E label \in Serving : Goto(c, label)
    BY <1>7 DEF LoadRoom, Join, Announce, SocketGone, StaleFrame, LoopError, Serving
  <2> QED
    BY <2>1 DEF Goto, RegisteredIsServed, TypeOK, ManagerTypeOK
<1>8. ASSUME NEW c \in Conn, Refuse(c) PROVE RegisteredIsServed'
  BY <1>8 DEF Refuse, Registered, Disconnect, Without, Goto, RegisteredIsServed,
              TypeOK, ManagerTypeOK
<1>9. ASSUME NEW c \in Conn, Finally(c) PROVE RegisteredIsServed'
  BY <1>9 DEF Finally, Registered, Disconnect, Without, Goto, RegisteredIsServed,
              TypeOK, ManagerTypeOK
<1>10. ASSUME NEW c \in Conn, StartGrace(c) PROVE RegisteredIsServed'
  BY <1>10 DEF StartGrace, Goto, RegisteredIsServed, Serving, TypeOK, ManagerTypeOK
<1>11. ASSUME NEW c \in Conn, HandlerFault(c) PROVE RegisteredIsServed'
  BY <1>11 DEF HandlerFault, RegisteredIsServed, TypeOK
<1>12. ASSUME Restart PROVE RegisteredIsServed'
  BY <1>12 DEF Restart, NoConnection, RegisteredIsServed
<1>13. ASSUME NEW u \in User,
              \/ JoinRoom(u) \/ IssueTicket(u) \/ ExpireTicket(u) \/ Leave(u)
              \/ RejectHandshake(u) \/ ParticipantTimeout(u)
              \/ ParticipantTimeoutPersist(u) \/ ParticipantTimeoutEnd(u)
       PROVE  UNCHANGED << rooms, owner, pc, faults >>
  BY <1>13 DEF JoinRoom, IssueTicket, ExpireTicket, Leave, RejectHandshake,
     ParticipantTimeout, ParticipantTimeoutPersist, ParticipantTimeoutEnd
<1>14. ASSUME NEW k \in Closer, CloseByHost(k) \/ CloseStart(k) \/ CloseFinish(k)
       PROVE  UNCHANGED << rooms, owner, pc, faults >>
  BY <1>14 DEF CloseByHost, CloseStart, CloseRoomBegin, CloseFinish, CloseRoomEnd
<1>15. ASSUME NEW c \in Conn, DropSocket(c) PROVE UNCHANGED << rooms, owner, pc, faults >>
  BY <1>15 DEF DropSocket
<1>16. ASSUME HostTimeout \/ HostTimeoutPersist PROVE UNCHANGED << rooms, owner, pc, faults >>
  BY <1>16 DEF HostTimeout, CloseRoomBegin, HostTimeoutPersist
<1>17. CASE UNCHANGED vars
  BY <1>17, <1>1 DEF vars
<1> QED
  BY <1>1, <1>2, <1>3, <1>4, <1>5, <1>6, <1>7, <1>8, <1>9, <1>10, <1>11, <1>12, <1>13,
     <1>14, <1>15, <1>16, <1>17
  DEF Next, HandlerStep, TimerStep, RestStep, ClientStep

\* Without errors outside the message loop no entry of `rooms` is orphaned: its
\* handler is still on the way to ConnectionManager.disconnect.
THEOREM RegisteredConnectionsAreServed == Spec => []RegisteredIsServed
<1>1. Init => RegisteredIsServed
  BY DEF Init, ManagerInit, RegisteredIsServed
<1> QED
  BY <1>1, TypeCorrect, NextRegisteredIsServed, PTL DEF Spec

-----------------------------------------------------------------------------
(* Every remembered disconnection is going to be forgotten.                *)

\* A connection that is going to consume the record of its user.
Consumes(c, u) == owner[c] = u /\ pc[c] \in {"loading", "joining"}

\* Steps that keep every running timer and every consuming connection, and add no
\* record, preserve the invariant.
LEMMA KeepingIsBacked ==
    ASSUME GraceRecordBacked,
           faults' = 0 => faults = 0,
           roomActive' => roomActive,
           disconnected' \subseteq disconnected,
           \A u \in User : u \in disconnected' /\ graceTimer[u] = "sleeping" =>
                            graceTimer'[u] = "sleeping",
           \A u \in User, c \in Conn : u \in disconnected' /\ roomActive' /\ Consumes(c, u) =>
                                        Consumes(c, u)',
           disconnected \subseteq User
    PROVE  GraceRecordBacked'
BY DEF GraceRecordBacked, Consumes

LEMMA NextGraceRecordBacked ==
    TypeOK /\ GraceRecordBacked /\ [Next]_vars => GraceRecordBacked'
<1> SUFFICES ASSUME TypeOK, GraceRecordBacked, [Next]_vars PROVE GraceRecordBacked'
  OBVIOUS
<1> USE DEF handlerVars, databaseVars, counters, managerVars
<1>0. disconnected \subseteq User
  BY DEF TypeOK, ManagerTypeOK
<1>1. ASSUME UNCHANGED << faults, roomActive, disconnected, graceTimer, owner, pc >>
      PROVE  GraceRecordBacked'
  BY <1>1 DEF GraceRecordBacked
<1>2. ASSUME ~roomActive' PROVE GraceRecordBacked'
  BY <1>2 DEF GraceRecordBacked
<1>3. ASSUME NEW u \in User, IssueTicket(u) \/ LeaveNotify(u) PROVE GraceRecordBacked'
  <2>1. /\ ForgetGrace(u)
        /\ UNCHANGED << faults, roomActive, owner, pc >>
    BY <1>3 DEF IssueTicket, LeaveNotify, CloseUserBegin
  <2> QED
    BY <2>1, <1>0, KeepingIsBacked DEF ForgetGrace, Consumes, TypeOK, ManagerTypeOK
<1>4. ASSUME NEW k \in Closer, CloseStart(k) PROVE GraceRecordBacked'
  <2>1. /\ disconnected' = {u \in disconnected : graceTimer[u] = "none"}
        /\ UNCHANGED << faults, roomActive, owner, pc >>
    BY <1>4 DEF CloseStart, CloseRoomBegin
  <2> QED
    BY <2>1, <1>0, KeepingIsBacked DEF Consumes
<1>5. CASE HostTimeout
  <2>1. /\ disconnected' \subseteq {u \in disconnected : graceTimer[u] = "none"}
        /\ UNCHANGED << faults, roomActive, owner, pc >>
    BY <1>5 DEF HostTimeout, CloseRoomBegin
  <2> QED
    BY <2>1, <1>0, KeepingIsBacked DEF Consumes
<1>6. ASSUME NEW u \in User, NEW c \in Conn, Handshake(u, c) PROVE GraceRecordBacked'
  <2>1. /\ pc[c] = "unused"
        /\ UNCHANGED << faults, roomActive, disconnected, graceTimer >>
        /\ \A d \in Conn \ {c} : owner'[d] = owner[d] /\ pc'[d] = pc[d]
    BY <1>6 DEF Handshake, Goto, TypeOK
  <2> QED
    BY <2>1, <1>0, KeepingIsBacked DEF Consumes
<1>7. ASSUME NEW c \in Conn, Accept(c) PROVE GraceRecordBacked'
  <2>1. /\ pc[c] = "accepting" /\ pc'[c] = "loading"
        /\ UNCHANGED << faults, roomActive, disconnected, owner >>
        /\ \A u \in User : u # owner[c] => graceTimer'[u] = graceTimer[u]
        /\ \A d \in Conn \ {c} : pc'[d] = pc[d]
    BY <1>7 DEF Accept, Connect, Goto, TypeOK, ManagerTypeOK
  <2> QED
    BY <2>1, <1>0 DEF GraceRecordBacked
<1>8. ASSUME NEW c \in Conn, LoadRoom(c) PROVE GraceRecordBacked'
  <2>1. CASE ~roomActive
    BY <1>8, <2>1, <1>2 DEF LoadRoom
  <2>2. CASE roomActive
    BY <1>8, <2>2, <1>0, KeepingIsBacked DEF LoadRoom, Goto, Consumes, TypeOK
  <2> QED
    BY <2>1, <2>2
<1>9. ASSUME NEW c \in Conn,
             \/ Refuse(c) \/ Announce(c) \/ SocketGone(c) \/ StaleFrame(c) \/ LoopError(c)
      PROVE  GraceRecordBacked'
  <2>1. /\ pc[c] \notin {"loading", "joining"}
        /\ UNCHANGED << faults, roomActive, disconnected, graceTimer, owner >>
        /\ \E label \in Handler : Goto(c, label)
    BY <1>9 DEF Refuse, Announce, SocketGone, StaleFrame, LoopError, Handler
  <2> QED
    BY <2>1, <1>0, KeepingIsBacked DEF Goto, Consumes, TypeOK
<1>10. ASSUME NEW c \in Conn, Join(c) PROVE GraceRecordBacked'
  <2>1. /\ disconnected' = disconnected \ {owner[c]}
        /\ UNCHANGED << faults, roomActive, graceTimer, owner >>
        /\ \A d \in Conn \ {c} : pc'[d] = pc[d]
    BY <1>10 DEF Join, Goto, TypeOK
  <2> QED
    BY <2>1, <1>0, KeepingIsBacked DEF Consumes
<1>11. ASSUME NEW c \in Conn, Finally(c) \/ StartGrace(c) PROVE GraceRecordBacked'
  <2>1. /\ pc[c] \in {"finally", "notifying"}
        /\ UNCHANGED << faults, roomActive, owner >>
        /\ \A d \in Conn \ {c} : pc'[d] = pc[d]
        /\ StartGracePeriod(owner[c]) \/ UNCHANGED << disconnected, graceTimer >>
    BY <1>11 DEF Finally, StartGrace, Goto, TypeOK
  <2>2. owner[c] \in User
    BY DEF TypeOK
  <2>3. CASE UNCHANGED << disconnected, graceTimer >>
    BY <2>1, <2>3, <1>0, KeepingIsBacked DEF Consumes
  <2>4. CASE StartGracePeriod(owner[c])
    <3>1. /\ graceTimer'[owner[c]] = "sleeping"
          /\ \A u \in User \ {owner[c]} : graceTimer'[u] = graceTimer[u]
          /\ disconnected' = disconnected \cup {owner[c]}
      BY <2>4, <2>2 DEF StartGracePeriod, TypeOK, ManagerTypeOK
    <3> QED
      BY <3>1, <2>1, <1>0 DEF GraceRecordBacked
  <2> QED
    BY <2>1, <2>3, <2>4
<1>12. ASSUME NEW c \in Conn, HandlerFault(c) PROVE GraceRecordBacked'
  <2>1. faults' = faults + 1 /\ faults \in Nat
    BY <1>12, BoundsAssumption DEF HandlerFault, TypeOK
  <2> QED
    BY <2>1 DEF GraceRecordBacked
<1>13. ASSUME NEW u \in User,
              ParticipantTimeout(u) \/ ParticipantTimeoutPersist(u) \/ ParticipantTimeoutEnd(u)
       PROVE  GraceRecordBacked'
  <2>1. /\ UNCHANGED << faults, roomActive, owner, pc >>
        /\ disconnected' \subseteq disconnected
        /\ u \in disconnected' => graceTimer[u] # "sleeping"
        /\ \A v \in User \ {u} : graceTimer'[v] = graceTimer[v]
    BY <1>13 DEF ParticipantTimeout, ParticipantTimeoutPersist, ParticipantTimeoutEnd,
                 TypeOK, ManagerTypeOK
  <2> QED
    BY <2>1, <1>0, KeepingIsBacked DEF Consumes
<1>14. CASE Restart
  BY <1>14 DEF Restart, GraceRecordBacked
<1>15. ASSUME NEW u \in User,
              \/ JoinRoom(u) \/ ExpireTicket(u) \/ Leave(u)
              \/ RejectHandshake(u) \/ LeaveFinish(u)
       PROVE  GraceRecordBacked'
  BY <1>15, <1>1 DEF JoinRoom, ExpireTicket, Leave, RejectHandshake, LeaveFinish, CloseUserEnd
<1>16. ASSUME NEW k \in Closer, CloseDrop(k) \/ CloseFinish(k) PROVE GraceRecordBacked'
  BY <1>16, <1>1 DEF CloseDrop, CloseRoomDrop, CloseFinish, CloseRoomEnd
<1>17. ASSUME NEW k \in Closer, CloseByHost(k) PROVE GraceRecordBacked'
  BY <1>17, <1>2 DEF CloseByHost
<1>18. CASE HostTimeoutPersist
  BY <1>18, <1>2 DEF HostTimeoutPersist
<1>19. ASSUME NEW c \in Conn, DropSocket(c) PROVE GraceRecordBacked'
  BY <1>19, <1>1 DEF DropSocket
<1>20. CASE UNCHANGED vars
  BY <1>20, <1>1 DEF vars
<1> QED
  BY <1>3, <1>4, <1>5, <1>6, <1>7, <1>8, <1>9, <1>10, <1>11, <1>12, <1>13, <1>14, <1>15,
     <1>16, <1>17, <1>18, <1>19, <1>20
  DEF Next, HandlerStep, TimerStep, RestStep, ClientStep

\* In an active room a disconnected_users record always has a running timer or a
\* handshake of its user about to consume it (errors outside the loop excepted).
THEOREM GraceRecordsAreBacked == Spec => []GraceRecordBacked
<1>1. Init => GraceRecordBacked
  BY DEF Init, ManagerInit, GraceRecordBacked
<1> QED
  BY <1>1, TypeCorrect, NextGraceRecordBacked, PTL DEF Spec

-----------------------------------------------------------------------------
(* A room closed over REST is sealed.                                      *)

Joined == {"joining", "announcing", "loop"}

\* The inductive form: while a joined handler is still registered in a room closed
\* over REST, some close_room has yet to pop the dict.
SealInv ==
    restClosed =>
        /\ ~roomActive
        /\ (\E u \in User : rooms[u] # None /\ pc[rooms[u]] \in Joined) =>
              \E k \in Closer : closeRoom[k] \in {"called", "announcing"}

\* Steps that let nobody join and end no close_room before its pop preserve it.
LEMMA NobodyJoinsIsSealed ==
    ASSUME SealInv,
           restClosed' = restClosed,
           roomActive' => roomActive,
           restClosed => \A u \in User : rooms'[u] # None /\ pc'[rooms'[u]] \in Joined =>
                            rooms[u] # None /\ pc[rooms[u]] \in Joined,
           \A k \in Closer : closeRoom[k] \in {"called", "announcing"} =>
                            closeRoom'[k] \in {"called", "announcing"}
    PROVE  SealInv'
BY DEF SealInv

LEMMA NextSealInv == TypeOK /\ SealInv /\ [Next]_vars => SealInv'
<1> SUFFICES ASSUME TypeOK, SealInv, [Next]_vars PROVE SealInv'
  OBVIOUS
<1> USE NoneAssumption DEF handlerVars, databaseVars, counters, managerVars
<1>1. ASSUME UNCHANGED << rooms, pc, restClosed, roomActive, closeRoom >> PROVE SealInv'
  BY <1>1, NobodyJoinsIsSealed
<1>2. ASSUME rooms' = NoConnection, UNCHANGED << restClosed, roomActive >> PROVE SealInv'
  BY <1>2 DEF SealInv, NoConnection
<1>3. ASSUME NEW u \in User, LeaveNotify(u) PROVE SealInv'
  <2>1. /\ rooms' = [rooms EXCEPT ![u] = None]
        /\ UNCHANGED << pc, restClosed, roomActive, closeRoom >>
    BY <1>3 DEF LeaveNotify, CloseUserBegin
  <2> QED
    BY <2>1, NobodyJoinsIsSealed DEF TypeOK, ManagerTypeOK
<1>4. ASSUME NEW u \in User, LeaveFinish(u) PROVE SealInv'
  <2>1. /\ rooms' = rooms \/ rooms' = NoConnection
        /\ UNCHANGED << pc, restClosed, roomActive, closeRoom >>
    BY <1>4 DEF LeaveFinish, CloseUserEnd
  <2> QED
    BY <2>1, <1>1, <1>2
<1>5. ASSUME NEW k \in Closer, CloseByHost(k) PROVE SealInv'
  BY <1>5 DEF CloseByHost, SealInv, TypeOK, ManagerTypeOK
<1>6. ASSUME NEW k \in Closer, CloseStart(k) PROVE SealInv'
  <2>1. UNCHANGED << rooms, pc, restClosed, roomActive >>
    BY <1>6 DEF CloseStart, CloseRoomBegin
  <2>2. CASE rooms = NoConnection
    BY <2>1, <2>2, <1>2
  <2>3. CASE rooms # NoConnection
    <3>1. closeRoom' = [closeRoom EXCEPT ![k] = "announcing"]
      BY <1>6, <2>3 DEF CloseStart, CloseRoomBegin
    <3> QED
      BY <2>1, <3>1, NobodyJoinsIsSealed DEF TypeOK, ManagerTypeOK
  <2> QED
    BY <2>2, <2>3
<1>7. ASSUME NEW k \in Closer, CloseDrop(k) PROVE SealInv'
  BY <1>7, <1>2 DEF CloseDrop, CloseRoomDrop
<1>8. ASSUME NEW k \in Closer, CloseFinish(k) PROVE SealInv'
  <2>1. /\ closeRoom[k] = "dropping"
        /\ closeRoom' = [closeRoom EXCEPT ![k] = AfterClose(k)]
        /\ UNCHANGED << rooms, pc, restClosed, roomActive >>
    BY <1>8 DEF CloseFinish, CloseRoomEnd
  <2> QED
    BY <2>1, NobodyJoinsIsSealed DEF TypeOK, ManagerTypeOK
<1>9. ASSUME NEW u \in User, NEW c \in Conn, Handshake(u, c) PROVE SealInv'
  BY <1>9, NobodyJoinsIsSealed DEF Handshake, Goto, Joined, TypeOK, ManagerTypeOK
<1>10. ASSUME NEW c \in Conn, Accept(c) PROVE SealInv'
  <2>1. /\ rooms' = [rooms EXCEPT ![owner[c]] = c]
        /\ pc' = [pc EXCEPT ![c] = "loading"]
        /\ UNCHANGED << restClosed, roomActive, closeRoom >>
    BY <1>10 DEF Accept, Connect, Goto
  <2> QED
    BY <2>1, NobodyJoinsIsSealed DEF Joined, TypeOK, ManagerTypeOK
<1>11. ASSUME NEW c \in Conn, LoadRoom(c) PROVE SealInv'
  <2>1. /\ UNCHANGED << rooms, restClosed, roomActive, closeRoom >>
        /\ restClosed => pc' = [pc EXCEPT ![c] = "refused"]
    BY <1>11 DEF LoadRoom, Goto, SealInv
  <2> QED
    BY <2>1, NobodyJoinsIsSealed DEF Joined, TypeOK, ManagerTypeOK
<1>12. ASSUME NEW c \in Conn,
              \/ Join(c) \/ Announce(c) \/ SocketGone(c) \/ StaleFrame(c)
              \/ LoopError(c) \/ StartGrace(c) \/ HandlerFault(c)
       PROVE  SealInv'
  <2>1. /\ UNCHANGED << rooms, restClosed, roomActive, closeRoom >>
        /\ \E label \in Handler : Goto(c, label) /\ (label \in Joined => pc[c] \in Joined)
    BY <1>12 DEF Join, Announce, SocketGone, StaleFrame, LoopError, StartGrace,
                 HandlerFault, Handler, Joined
  <2> QED
    BY <2>1, NobodyJoinsIsSealed DEF Goto, TypeOK, ManagerTypeOK
<1>13. ASSUME NEW c \in Conn, Refuse(c) \/ Finally(c) PROVE SealInv'
  <2>1. /\ UNCHANGED << restClosed, roomActive, closeRoom >>
        /\ rooms' = rooms \/ rooms' = [rooms EXCEPT ![owner[c]] = None]
        /\ \E label \in Handler \ Joined : Goto(c, label)
    BY <1>13 DEF Refuse, Finally, Disconnect, Without, Handler, Joined
  <2> QED
    BY <2>1, NobodyJoinsIsSealed DEF Goto, TypeOK, ManagerTypeOK
<1>14. CASE HostTimeout
  <2>1. /\ closeRoom["timeout"] = "idle"
        /\ \E phase \in CloseRoomState : closeRoom' = [closeRoom EXCEPT !["timeout"] = phase]
        /\ UNCHANGED << rooms, pc, restClosed, roomActive >>
    BY <1>14 DEF HostTimeout, CloseRoomBegin, AfterClose, CloseRoomState
  <2> QED
    BY <2>1, NobodyJoinsIsSealed DEF TypeOK, ManagerTypeOK
<1>15. CASE HostTimeoutPersist
  <2>1. /\ closeRoom["timeout"] = "persisting"
        /\ closeRoom' = [closeRoom EXCEPT !["timeout"] = "idle"]
        /\ roomActive' = FALSE
        /\ UNCHANGED << rooms, pc, restClosed >>
    BY <1>15 DEF HostTimeoutPersist
  <2> QED
    BY <2>1, NobodyJoinsIsSealed DEF TypeOK, ManagerTypeOK
<1>16. ASSUME NEW u \in User,
              \/ JoinRoom(u) \/ IssueTicket(u) \/ ExpireTicket(u) \/ Leave(u)
              \/ RejectHandshake(u) \/ ParticipantTimeout(u)
              \/ ParticipantTimeoutPersist(u) \/ ParticipantTimeoutEnd(u)
       PROVE  SealInv'
  BY <1>16, <1>1 DEF JoinRoom, IssueTicket, ExpireTicket, Leave, RejectHandshake,
     ParticipantTimeout, ParticipantTimeoutPersist, ParticipantTimeoutEnd
<1>17. ASSUME NEW c \in Conn, DropSocket(c) PROVE SealInv'
  BY <1>17, <1>1 DEF DropSocket
<1>18. CASE Restart
  BY <1>18, <1>2 DEF Restart
<1>19. CASE UNCHANGED vars
  BY <1>19, <1>1 DEF vars
<1> QED
  BY <1>3, <1>4, <1>5, <1>6, <1>7, <1>8, <1>9, <1>10, <1>11, <1>12, <1>13, <1>14, <1>15,
     <1>16, <1>17, <1>18, <1>19
  DEF Next, HandlerStep, TimerStep, RestStep, ClientStep

\* After POST /leave by the host or DELETE has run close_room to its end, nobody is
\* registered in the message loop or on the way into it.
THEOREM RestCloseSeals == Spec => []RestClosedRoomIsSealed
<1>1. Init => SealInv
  BY DEF Init, SealInv
<1>2. SealInv => RestClosedRoomIsSealed
  BY DEF SealInv, RestClosedRoomIsSealed, Joined
<1> QED
  BY <1>1, <1>2, TypeCorrect, NextSealInv, PTL DEF Spec

-----------------------------------------------------------------------------
(* An occupied active room has its state and its heartbeat.                *)

Equipped == heartbeat /\ roomState # "none"

\* The inductive form: only the host's timer can tear down an active room that is
\* occupied again, and it deactivates the room before it is done.
EquipInv ==
    /\ \A k \in {"leave", "delete"} : closeRoom[k] # "idle" => ~roomActive
    /\ closeRoom["timeout"] # "called"
    /\ roomActive /\ rooms # NoConnection /\ closeRoom["timeout"] = "idle" => Equipped

\* Steps that close nothing and keep an occupied room equipped preserve it.
LEMMA KeepingIsEquipped ==
    ASSUME EquipInv,
           UNCHANGED << closeRoom, roomActive >>,
           \/ rooms' = NoConnection
           \/ Equipped'
           \/ rooms # NoConnection /\ (Equipped => Equipped')
    PROVE  EquipInv'
BY DEF EquipInv, NoConnection

LEMMA NextEquipInv == TypeOK /\ EquipInv /\ [Next]_vars => EquipInv'
<1> SUFFICES ASSUME TypeOK, EquipInv, [Next]_vars PROVE EquipInv'
  OBVIOUS
<1> USE NoneAssumption DEF handlerVars, databaseVars, counters, managerVars
<1>1. ASSUME UNCHANGED << rooms, heartbeat, roomState, roomActive, closeRoom >>
      PROVE  EquipInv'
  BY <1>1 DEF EquipInv, Equipped, NoConnection
<1>2. ASSUME ~roomActive', closeRoom'["timeout"] # "called" PROVE EquipInv'
  BY <1>2 DEF EquipInv
<1>3. ASSUME NEW u \in User, LeaveNotify(u) PROVE EquipInv'
  <2>1. /\ rooms' = [rooms EXCEPT ![u] = None]
        /\ UNCHANGED << heartbeat, roomState, roomActive, closeRoom >>
    BY <1>3 DEF LeaveNotify, CloseUserBegin
  <2>2. rooms = NoConnection => rooms' = NoConnection
    BY <2>1 DEF NoConnection
  <2> QED
    BY <2>1, <2>2, KeepingIsEquipped DEF Equipped
<1>4. ASSUME NEW u \in User, LeaveFinish(u) PROVE EquipInv'
  <2>1. UNCHANGED << closeRoom, roomActive >>
    BY <1>4 DEF LeaveFinish, CloseUserEnd
  <2>2. \/ rooms' = NoConnection
        \/ UNCHANGED << rooms, heartbeat, roomState >>
    BY <1>4 DEF LeaveFinish, CloseUserEnd
  <2> QED
    BY <2>1, <2>2, <1>1, KeepingIsEquipped
<1>5. ASSUME NEW k \in Closer, CloseByHost(k) PROVE EquipInv'
  <2>1. closeRoom'["timeout"] = closeRoom["timeout"] /\ ~roomActive'
    BY <1>5 DEF CloseByHost, Closer, TypeOK, ManagerTypeOK
  <2> QED
    BY <2>1, <1>2 DEF EquipInv
<1>6. ASSUME NEW k \in Closer, CloseStart(k) PROVE EquipInv'
  <2>1. k \in {"leave", "delete"} /\ ~roomActive
    BY <1>6 DEF CloseStart, Closer, EquipInv
  <2>2. /\ ~roomActive'
        /\ closeRoom'["timeout"] = closeRoom["timeout"]
    BY <1>6, <2>1 DEF CloseStart, CloseRoomBegin, Closer, TypeOK, ManagerTypeOK
  <2> QED
    BY <2>2, <1>2 DEF EquipInv
<1>7. ASSUME NEW k \in Closer, CloseDrop(k) PROVE EquipInv'
  <2>1. /\ rooms' = NoConnection
        /\ closeRoom[k] = "announcing"
        /\ closeRoom' = [closeRoom EXCEPT ![k] = "dropping"]
        /\ UNCHANGED roomActive
    BY <1>7 DEF CloseDrop, CloseRoomDrop
  <2> QED
    BY <2>1 DEF EquipInv, Closer, NoConnection, TypeOK, ManagerTypeOK
<1>8. ASSUME NEW k \in Closer, CloseFinish(k) PROVE EquipInv'
  <2>1. /\ closeRoom[k] = "dropping"
        /\ closeRoom' = [closeRoom EXCEPT ![k] = AfterClose(k)]
        /\ UNCHANGED << rooms, roomActive >>
    BY <1>8 DEF CloseFinish, CloseRoomEnd
  <2>2. CASE k = "timeout"
    BY <2>1, <2>2 DEF EquipInv, AfterClose, Closer, TypeOK, ManagerTypeOK
  <2>3. CASE k # "timeout"
    BY <2>1, <2>3, <1>2 DEF EquipInv, AfterClose, Closer, TypeOK, ManagerTypeOK
  <2> QED
    BY <2>2, <2>3
<1>9. ASSUME NEW c \in Conn, Accept(c) PROVE EquipInv'
  <2>1. /\ heartbeat' = TRUE /\ roomState' # "none"
        /\ UNCHANGED << closeRoom, roomActive >>
    BY <1>9 DEF Accept, Connect
  <2> QED
    BY <2>1, KeepingIsEquipped DEF Equipped
<1>10. ASSUME NEW c \in Conn, Refuse(c) \/ Finally(c) PROVE EquipInv'
  <2>1. UNCHANGED << closeRoom, roomActive >>
    BY <1>10 DEF Refuse, Finally
  <2>2. CASE ~Registered(owner[c], c)
    <3>1. UNCHANGED << rooms, heartbeat, roomState >>
      BY <1>10, <2>2 DEF Refuse, Finally
    <3> QED
      BY <2>1, <3>1, <1>1
  <2>3. CASE Registered(owner[c], c) /\ Without(owner[c]) = NoConnection
    <3>1. rooms' = NoConnection
      BY <1>10, <2>3 DEF Refuse, Finally, Disconnect
    <3> QED
      BY <2>1, <3>1, KeepingIsEquipped
  <2>4. CASE Registered(owner[c], c) /\ Without(owner[c]) # NoConnection
    <3>1. rooms # NoConnection
      BY <2>4 DEF Registered, NoConnection, TypeOK
    <3>2. /\ heartbeat' = heartbeat
          /\ roomState # "none" => roomState' # "none"
      BY <1>10, <2>4 DEF Refuse, Finally, Disconnect, StateWithout
    <3> QED
      BY <2>1, <3>1, <3>2, KeepingIsEquipped DEF Equipped
  <2> QED
    BY <2>2, <2>3, <2>4
<1>11. ASSUME NEW c \in Conn, Join(c) PROVE EquipInv'
  <2>1. /\ roomState # "none" => roomState' # "none"
        /\ UNCHANGED << rooms, heartbeat, closeRoom, roomActive >>
    BY <1>11 DEF Join
  <2> QED
    BY <2>1, KeepingIsEquipped DEF Equipped
<1>12. CASE HostTimeout
  <2>1. /\ closeRoom["timeout"] = "idle"
        /\ \E phase \in {"announcing", "persisting"} :
              closeRoom' = [closeRoom EXCEPT !["timeout"] = phase]
        /\ UNCHANGED roomActive
    BY <1>12 DEF HostTimeout, CloseRoomBegin, AfterClose
  <2> QED
    BY <2>1 DEF EquipInv, Closer, TypeOK, ManagerTypeOK
<1>13. CASE HostTimeoutPersist
  <2>1. ~roomActive' /\ closeRoom' = [closeRoom EXCEPT !["timeout"] = "idle"]
    BY <1>13 DEF HostTimeoutPersist
  <2> QED
    BY <2>1, <1>2 DEF Closer, TypeOK, ManagerTypeOK
<1>14. ASSUME NEW u \in User, ParticipantTimeoutEnd(u) PROVE EquipInv'
  <2>1. HasGraceTimers
    BY <1>14 DEF ParticipantTimeoutEnd, HasGraceTimers
  <2> QED
    BY <1>14, <2>1, <1>1 DEF ParticipantTimeoutEnd
<1>15. CASE Restart
  BY <1>15 DEF Restart, EquipInv, Closer, NoConnection
<1>16. ASSUME NEW c \in Conn,
              \/ LoadRoom(c) \/ Announce(c) \/ SocketGone(c) \/ StaleFrame(c) \/ LoopError(c)
              \/ StartGrace(c) \/ HandlerFault(c) \/ DropSocket(c)
              \/ \E u \in User : Handshake(u, c)
       PROVE  EquipInv'
  BY <1>16, <1>1 DEF LoadRoom, Announce, SocketGone, StaleFrame, LoopError, StartGrace,
     HandlerFault, DropSocket, Handshake
<1>17. ASSUME NEW u \in User,
              \/ JoinRoom(u) \/ IssueTicket(u) \/ ExpireTicket(u) \/ Leave(u)
              \/ RejectHandshake(u) \/ ParticipantTimeout(u) \/ ParticipantTimeoutPersist(u)
       PROVE  EquipInv'
  BY <1>17, <1>1 DEF JoinRoom, IssueTicket, ExpireTicket, Leave, RejectHandshake,
     ParticipantTimeout, ParticipantTimeoutPersist
<1>18. CASE UNCHANGED vars
  BY <1>18, <1>1 DEF vars
<1> QED
  BY <1>3, <1>4, <1>5, <1>6, <1>7, <1>8, <1>9, <1>10, <1>11, <1>12, <1>13, <1>14, <1>15,
     <1>16, <1>17, <1>18
  DEF Next, HandlerStep, TimerStep, RestStep, ClientStep

\* An active room with connections has a RoomState and a heartbeat whenever no
\* close_room is in progress.
THEOREM OccupiedRoomsAreEquipped == Spec => []OccupiedRoomIsEquipped
<1>1. Init => EquipInv
  BY DEF Init, ManagerInit, EquipInv, NoConnection, Closer
<1>2. EquipInv => OccupiedRoomIsEquipped
  BY DEF EquipInv, Equipped, OccupiedRoomIsEquipped, Closer
<1> QED
  BY <1>1, <1>2, TypeCorrect, NextEquipInv, PTL DEF Spec
=============================================================================
