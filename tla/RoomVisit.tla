------------------------------ MODULE RoomVisit ------------------------------
(***************************************************************************)
(* One browser tab: which page the router shows, the socket that the room  *)
(* page keeps open (hooks/useWebSocket.ts), and every request in flight    *)
(* whose answer navigates: the dashboard's joins, POST /leave and the      *)
(* WebSocket ticket.                                                       *)
(*                                                                         *)
(* React reuses one RoomPage when the router goes from one room straight   *)
(* to another: the hook's refs then outlive the visit they were set in.    *)
(* `mount' is mountIdRef, counted over the whole session; the visits since *)
(* `born' share one RoomPage, and with it one set of refs.                 *)
(*                                                                         *)
(* Not covered: the length of the back-off (only that a timer runs), the   *)
(* numbers of messages (RoomStream) and what is on the page (Player, Chat).*)
(***************************************************************************)
EXTENDS Naturals, FiniteSets

CONSTANTS Room,         \* the rooms of the user
          Hosted,       \* those the user is the host of
          Home,         \* the dashboard
          Attempt,      \* identities of connection attempts
          NoSocket,     \* wsRef.current = null
          MaxMounts     \* bound: visits of a room page in a session

ASSUME VisitAssumption ==
    /\ Hosted \subseteq Room
    /\ Home \notin Room
    /\ NoSocket \notin Attempt
    /\ MaxMounts \in Nat

VARIABLES
    url,            \* where the router is
    shown,          \* whose effects have run: a room, or the dashboard
    mount, born,    \* this visit, and the first one of this RoomPage
    opening,        \* rooms with a join of the dashboard in flight
    asked,          \* the visit the open confirmation was asked in, or 0
    leaving,        \* visits with a POST /leave in flight
    boot, timer,    \* the first connect and the reconnect are scheduled
    should, intentional,    \* shouldReconnectRef, intentionalCloseRef
    ws,             \* wsRef
    connected, reconnecting,    \* what the hook tells the page
    phase, visit    \* of each attempt: how far it is, whose it is

page == <<url, shown, mount, born, opening, asked, leaving>>
flags == <<should, intentional>>
attempts == <<phase, visit>>
vars == <<page, boot, timer, flags, ws, connected, reconnecting, attempts>>

Phase == {"none", "ticket", "connecting", "open", "closing"}

Init ==
    /\ url = Home /\ shown = Home
    /\ mount = 0 /\ born = 0
    /\ opening = {} /\ asked = 0 /\ leaving = {}
    /\ boot = FALSE /\ timer = FALSE
    /\ should = FALSE /\ intentional = TRUE
    /\ ws = NoSocket
    /\ connected = FALSE /\ reconnecting = FALSE
    /\ phase = [a \in Attempt |-> "none"]
    /\ visit = [a \in Attempt |-> 0]

(* The refs of this RoomPage are those attempt a was made with. *)
SameRefs(a) == visit[a] >= born
Current(a) == visit[a] = mount
Live(a) == Current(a) /\ phase[a] \in {"ticket", "connecting", "open"}

Free(a) == /\ phase' = [phase EXCEPT ![a] = "none"]
           /\ visit' = [visit EXCEPT ![a] = 0]
Reaches(a, p) == /\ phase' = [phase EXCEPT ![a] = p]
                 /\ UNCHANGED visit

--------------------------------------------------------------------------
(* The dashboard and the router *)

PendingMounts == IF url \in Room /\ url # shown THEN 1 ELSE 0

(* Open, Join or Create on the dashboard; nothing stops a second click on *)
(* another room while the first join is in flight.                        *)
Open(r) ==
    /\ shown = Home /\ asked = 0
    /\ r \notin opening
    /\ mount + Cardinality(opening) + PendingMounts < MaxMounts
    /\ opening' = opening \cup {r}
    /\ UNCHANGED <<url, shown, mount, born, asked, leaving, boot, timer,
                   flags, ws, connected, reconnecting, attempts>>

(* The answer navigates from wherever the tab is by then. *)
Opened(r) ==
    /\ r \in opening
    /\ opening' = opening \ {r}
    /\ url' \in {r, url}        \* a refused join is a toast
    /\ UNCHANGED <<shown, mount, born, asked, leaving, boot, timer, flags,
                   ws, connected, reconnecting, attempts>>

(* handleLeave of a viewer. *)
Leave ==
    /\ shown \in Room \ Hosted /\ asked = 0
    /\ leaving' = leaving \cup {mount}
    /\ UNCHANGED <<url, shown, mount, born, opening, asked, boot, timer,
                   flags, ws, connected, reconnecting, attempts>>

(* handleLeave of the host waits for a dialog. It belongs to the whole    *)
(* application: it covers the page, and outlives the page that opened it. *)
AskToLeave ==
    /\ shown \in Hosted /\ asked = 0
    /\ asked' = mount
    /\ UNCHANGED <<url, shown, mount, born, opening, leaving, boot, timer,
                   flags, ws, connected, reconnecting, attempts>>

Confirm ==
    /\ asked # 0
    /\ leaving' = leaving \cup {asked}
    /\ asked' = 0
    /\ UNCHANGED <<url, shown, mount, born, opening, boot, timer, flags, ws,
                   connected, reconnecting, attempts>>

(* Escape, the backdrop or the other button. *)
Cancel ==
    /\ asked # 0
    /\ asked' = 0
    /\ UNCHANGED <<url, shown, mount, born, opening, leaving, boot, timer,
                   flags, ws, connected, reconnecting, attempts>>

Left(m) ==
    /\ m \in leaving
    /\ leaving' = leaving \ {m}
    /\ url' = Home
    /\ UNCHANGED <<shown, mount, born, opening, asked, boot, timer, flags,
                   ws, connected, reconnecting, attempts>>

(* The browser's back button. *)
Back ==
    /\ url \in Room
    /\ url' = Home
    /\ UNCHANGED <<shown, mount, born, opening, asked, leaving, boot, timer,
                   flags, ws, connected, reconnecting, attempts>>

\* A clean-up that forgets wsRef without closing it.
SocketLeftOpen == phase

SocketClosed ==
    [a \in Attempt |-> IF a = ws /\ phase[a] \in {"connecting", "open"}
                       THEN "closing" ELSE phase[a]]

(* React renders the new location: the clean-up of the room that was      *)
(* shown, then the effect of the room that is.                            *)
Render ==
    /\ url # shown
    /\ shown' = url
    /\ phase' = SocketClosed
    /\ ws' = NoSocket
    /\ timer' = FALSE
    /\ connected' = FALSE
    /\ reconnecting' = FALSE
    /\ boot' = (url \in Room)
    /\ should' = (url \in Room)
    /\ intentional' = (url = Home)
    /\ mount' = IF url \in Room THEN mount + 1 ELSE mount
    /\ born' = IF url \in Room /\ shown = Home THEN mount + 1 ELSE born
    /\ UNCHANGED <<url, opening, asked, leaving, visit>>

--------------------------------------------------------------------------
(* useWebSocket *)

(* connect, up to its await. *)
Connect ==
    IF should /\ ~intentional
    THEN \E a \in Attempt :
            /\ phase[a] = "none"
            /\ phase' = [phase EXCEPT ![a] = "ticket"]
            /\ visit' = [visit EXCEPT ![a] = mount]
    ELSE UNCHANGED attempts

Boot ==
    /\ boot
    /\ boot' = FALSE
    /\ Connect
    /\ UNCHANGED <<page, timer, flags, ws, connected, reconnecting>>

TimerFires ==
    /\ timer
    /\ timer' = FALSE
    /\ Connect
    /\ UNCHANGED <<page, boot, flags, ws, connected, reconnecting>>

\* Only a connection that was up is tried again.
ScheduleOnce ==
    IF should /\ ~intentional /\ connected
    THEN timer' = TRUE /\ reconnecting' = (reconnecting \/ ~timer)
    ELSE UNCHANGED <<timer, reconnecting>>

ScheduleReconnect ==
    IF should /\ ~intentional
    THEN timer' = TRUE /\ reconnecting' = (reconnecting \/ ~timer)
    ELSE UNCHANGED <<timer, reconnecting>>

(* The ticket arrives. Whether to go on is asked again after the await. *)
TicketGranted(a) ==
    /\ phase[a] = "ticket"
    /\ IF should /\ ~intentional /\ Current(a)
       THEN Reaches(a, "connecting") /\ ws' = a
       ELSE Free(a) /\ UNCHANGED ws
    /\ UNCHANGED <<page, boot, timer, flags, connected, reconnecting>>

(* 4xx but 401 and 429: no membership, no room. Unlike the way on, the    *)
(* way out does not ask whether the visit is still the same.              *)
TicketRefused(a) ==
    /\ phase[a] = "ticket"
    /\ Free(a)
    /\ IF SameRefs(a)
       THEN /\ should' = FALSE /\ intentional' = TRUE
            /\ connected' = FALSE /\ reconnecting' = FALSE
       ELSE UNCHANGED <<flags, connected, reconnecting>>
    /\ url' = Home
    /\ UNCHANGED <<shown, mount, born, opening, asked, leaving, boot, timer,
                   ws>>

(* A network error, 5xx, 401 or 429. *)
TicketFailed(a) ==
    /\ phase[a] = "ticket"
    /\ Free(a)
    /\ IF SameRefs(a)
       THEN connected' = FALSE /\ ScheduleReconnect
       ELSE UNCHANGED <<connected, timer, reconnecting>>
    /\ UNCHANGED <<page, boot, flags, ws>>

Opens(a) ==
    /\ phase[a] = "connecting"
    /\ Reaches(a, "open")
    /\ IF SameRefs(a)
       THEN connected' = TRUE /\ reconnecting' = FALSE
       ELSE UNCHANGED <<connected, reconnecting>>
    /\ UNCHANGED <<page, boot, timer, flags, ws>>

\* onerror schedules the reconnect that onclose schedules again.
DropsAndSchedules(a) ==
    /\ phase[a] \in {"connecting", "open"}
    /\ Reaches(a, "closing")
    /\ ScheduleReconnect
    /\ UNCHANGED <<page, boot, flags, ws, connected>>

(* The network or the server ends the connection; the close event is due. *)
Drops(a) ==
    /\ phase[a] \in {"connecting", "open"}
    /\ Reaches(a, "closing")
    /\ UNCHANGED <<page, boot, timer, flags, ws, connected, reconnecting>>

(* onclose, which may be of a socket that was closed some visits ago. *)
Closed(a) ==
    /\ phase[a] = "closing"
    /\ Free(a)
    /\ ws' = IF ws = a THEN NoSocket ELSE ws
    /\ IF SameRefs(a)
       THEN /\ connected' = FALSE
            /\ IF should /\ ~intentional /\ Current(a)
               THEN ScheduleReconnect
               ELSE reconnecting' = FALSE /\ UNCHANGED timer
       ELSE UNCHANGED <<connected, timer, reconnecting>>
    /\ UNCHANGED <<page, boot, flags>>

(* The server prefers a newer connection of this user (error              *)
(* tab_replaced) and closes this one.                                     *)
Replaced(a) ==
    /\ phase[a] = "open"
    /\ Reaches(a, "closing")
    /\ intentional' = (intentional \/ SameRefs(a))
    /\ url' = Home
    /\ UNCHANGED <<shown, mount, born, opening, asked, leaving, boot, timer,
                   should, ws, connected, reconnecting>>

(* room_closed or room_gone: the page navigates, the socket is left to    *)
(* the clean-up or to the server.                                         *)
RoomGone(a) ==
    /\ phase[a] = "open"
    /\ url' = Home
    /\ UNCHANGED <<shown, mount, born, opening, asked, leaving, boot, timer,
                   flags, ws, connected, reconnecting, attempts>>

--------------------------------------------------------------------------
Next ==
    \/ \E r \in Room : Open(r) \/ Opened(r)
    \/ Leave \/ AskToLeave \/ Confirm \/ Cancel
    \/ (\E m \in leaving : Left(m)) \/ Back \/ Render
    \/ Boot \/ TimerFires
    \/ \E a \in Attempt : \/ TicketGranted(a) \/ TicketRefused(a)
                          \/ TicketFailed(a) \/ Opens(a) \/ Drops(a)
                          \/ Closed(a) \/ Replaced(a) \/ RoomGone(a)

Spec == Init /\ [][Next]_vars

(* Renders and timers run, every request is answered and every closed     *)
(* socket reported; a server that is asked again and again grants a       *)
(* ticket and accepts a socket in the end.                                *)
FairSpec ==
    /\ Spec
    /\ WF_vars(Render) /\ WF_vars(Boot) /\ WF_vars(TimerFires)
    /\ \A a \in Attempt :
          /\ WF_vars(TicketGranted(a) \/ TicketRefused(a) \/ TicketFailed(a))
          /\ WF_vars(Closed(a))
          /\ SF_vars(TicketGranted(a)) /\ SF_vars(Opens(a))

--------------------------------------------------------------------------
(* Every variable keeps its type. *)
TypeOK ==
    /\ url \in Room \cup {Home} /\ shown \in Room \cup {Home}
    /\ mount \in Nat /\ born \in 0..mount
    /\ opening \subseteq Room
    /\ asked \in 0..mount /\ leaving \subseteq 0..mount
    /\ boot \in BOOLEAN /\ timer \in BOOLEAN
    /\ should \in BOOLEAN /\ intentional \in BOOLEAN
    /\ ws \in Attempt \cup {NoSocket}
    /\ connected \in BOOLEAN /\ reconnecting \in BOOLEAN
    /\ phase \in [Attempt -> Phase]
    /\ visit \in [Attempt -> 0..mount]

(* The hook of a page that wants a connection is never idle: the first    *)
(* connect or a reconnect is scheduled, or an attempt of this visit is    *)
(* under way, or one has ended whose close event is due. Whatever is left *)
(* over from earlier visits may fire, fail or close in between.           *)
NeverGivesUp ==
    should /\ ~intentional =>
        boot \/ timer \/ \E a \in Attempt : Current(a) /\ phase[a] # "none"

(* While a page has been shown for one room only, it never holds two      *)
(* lifelines: two timers, two attempts or a timer beside an attempt would *)
(* end in two sockets, and the server would replace one by the other.     *)
SingleLifeline ==
    born = mount =>
        /\ ~(boot /\ timer)
        /\ \A a \in Attempt : Live(a) => ~boot /\ ~timer
        /\ \A a, b \in Attempt : Live(a) /\ Live(b) => a = b

(* While a page has been shown for one room only, the indicator, the gate *)
(* of the file restore and the ready announcement can trust isConnected:  *)
(* its open socket is the one that send() uses and that is reported, and  *)
(* none survives the page.                                                *)
ConnectedIsTrue ==
    born = mount =>
        /\ \A a \in Attempt :
              SameRefs(a) /\ phase[a] \in {"connecting", "open"} =>
                /\ shown \in Room /\ ws = a
                /\ phase[a] = "open" => connected
        /\ connected => ws # NoSocket /\ phase[ws] \in {"open", "closing"}

(* Unless the hook was told to stop, the socket of a room that stays on   *)
(* the screen opens in the end.                                           *)
Recovers ==
    \A r \in Room :
        shown = r /\ url = r /\ should /\ ~intentional ~>
            \/ url # r
            \/ \E a \in Attempt : Current(a) /\ phase[a] = "open"
=============================================================================
