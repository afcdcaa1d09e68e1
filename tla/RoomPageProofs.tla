---------------------------- MODULE RoomPageProofs ----------------------------
(***************************************************************************)
(* Proofs about what the room's page holds together: its visits and their  *)
(* connections (RoomVisit), the player's controls (Stage) and the chat     *)
(* (Chat).                                                                 *)
(*                                                                         *)
(* RoomVisit, for any set of rooms, any number of overlapping connection   *)
(* attempts and any number of visits: its types, that the hook never gives *)
(* up, that a page of one visit has one lifeline, and that isConnected is  *)
(* true of it.                                                             *)
(*                                                                         *)
(* Stage: that a paused film has its controls, that the bar over a playing *)
(* one is on its way out, and that the scrubber is let go.                 *)
(*                                                                         *)
(* Chat, for any size of a page, any number of messages and of requests:   *)
(* that no message is listed twice and that scrolling up leaves no hole.   *)
(***************************************************************************)
EXTENDS RoomVisit, Stage, Chat, FiniteSetTheorems, TLAPS

--------------------------------------------------------------------------
(* RoomVisit: its connections *)

\* What is left of a visit on its way to the next connection.
Lifeline(a) == Current(a) /\ phase[a] # "none"

\* Stronger than SingleLifeline: an attempt whose close event is due counts too,
\* as the event schedules the next one.
LoneLifeline ==
    born = mount =>
        /\ ~(boot /\ timer)
        /\ \A a \in Attempt : Lifeline(a) => ~boot /\ ~timer
        /\ \A a, b \in Attempt : Lifeline(a) /\ Lifeline(b) => a = b

\* Only the page of a room wants a connection.
WantedInRooms == should => shown \in Room

\* Stronger than ConnectedIsTrue: the reported socket is one of this visit.
ConnectedIsMine ==
    born = mount =>
        /\ \A a \in Attempt :
              Current(a) /\ phase[a] \in {"connecting", "open"} =>
                /\ shown \in Room /\ ws = a
                /\ phase[a] = "open" => connected
        /\ connected => /\ ws \in Attempt /\ Current(ws)
                        /\ phase[ws] \in {"open", "closing"}

--------------------------------------------------------------------------
(* Types *)

\* The variables that are true or false.
Switches ==
    /\ boot \in BOOLEAN /\ timer \in BOOLEAN
    /\ should \in BOOLEAN /\ intentional \in BOOLEAN
    /\ connected \in BOOLEAN /\ reconnecting \in BOOLEAN

\* The others.
Places ==
    /\ url \in Room \cup {Home} /\ shown \in Room \cup {Home}
    /\ mount \in Nat /\ born \in 0..mount
    /\ opening \subseteq Room
    /\ asked \in 0..mount /\ leaving \subseteq 0..mount
    /\ ws \in Attempt \cup {NoSocket}
    /\ phase \in [Attempt -> Phase]
    /\ visit \in [Attempt -> 0..mount]

LEMMA TypeParts == TypeOK <=> Switches /\ Places
  BY DEF TypeOK, Switches, Places

LEMMA InitTypeOK == Init => TypeOK
<1> SUFFICES ASSUME Init PROVE TypeOK
  OBVIOUS
<1>1. Switches
  BY DEF Init, Switches
<1>2. Places
  BY DEF Init, Places, Phase
<1> QED
  BY <1>1, <1>2, TypeParts

\* Every step leaves the switches on or off.
LEMMA NextSwitches == TypeOK /\ [Next]_vars => Switches'
<1> SUFFICES ASSUME TypeOK, [Next]_vars PROVE Switches'
  OBVIOUS
<1> USE TypeParts DEF Switches, flags
<1>1. ASSUME NEW r \in Room, Open(r) \/ Opened(r) PROVE Switches'
  BY <1>1 DEF Open, Opened
<1>2. ASSUME Leave \/ AskToLeave \/ Confirm \/ Cancel \/ Back PROVE Switches'
  BY <1>2 DEF Leave, AskToLeave, Confirm, Cancel, Back
<1>3. ASSUME NEW m \in leaving, Left(m) PROVE Switches'
  BY <1>3 DEF Left
<1>4. ASSUME Render PROVE Switches'
  <2>1. boot' \in BOOLEAN /\ should' \in BOOLEAN /\ intentional' \in BOOLEAN
    <3>1. (url \in Room) \in BOOLEAN /\ (url = Home) \in BOOLEAN
      OBVIOUS
    <3> QED
      BY <1>4, <3>1 DEF Render
  <2>2. timer' \in BOOLEAN /\ connected' \in BOOLEAN /\ reconnecting' \in BOOLEAN
    BY <1>4 DEF Render
  <2> QED
    BY <2>1, <2>2
<1>5. ASSUME Boot \/ TimerFires PROVE Switches'
  BY <1>5 DEF Boot, TimerFires
<1>6. ASSUME NEW a \in Attempt, TicketGranted(a) \/ TicketRefused(a) PROVE Switches'
  BY <1>6 DEF TicketGranted, TicketRefused
<1>7. ASSUME NEW a \in Attempt, TicketFailed(a) \/ Closed(a) PROVE Switches'
  BY <1>7 DEF TicketFailed, Closed, ScheduleReconnect
<1>8. ASSUME NEW a \in Attempt, Opens(a) \/ Drops(a) \/ RoomGone(a) PROVE Switches'
  BY <1>8 DEF Opens, Drops, RoomGone
<1>9. ASSUME NEW a \in Attempt, Replaced(a) PROVE Switches'
  BY <1>9 DEF Replaced, SameRefs
<1>10. CASE UNCHANGED vars
  BY <1>10 DEF vars
<1> QED
  BY <1>1, <1>2, <1>3, <1>4, <1>5, <1>6, <1>7, <1>8, <1>9, <1>10 DEF Next

\* Every step leaves the other variables in their ranges.
LEMMA NextPlaces == TypeOK /\ [Next]_vars => Places'
<1> SUFFICES ASSUME TypeOK, [Next]_vars PROVE Places'
  OBVIOUS
<1> USE TypeParts DEF Places, Phase, attempts
<1>1. ASSUME NEW r \in Room, Open(r) \/ Opened(r) PROVE Places'
  BY <1>1 DEF Open, Opened
<1>2. ASSUME Leave \/ AskToLeave \/ Back PROVE Places'
  BY <1>2 DEF Leave, AskToLeave, Back
<1>3. ASSUME Confirm \/ Cancel PROVE Places'
  BY <1>3 DEF Confirm, Cancel
<1>4. ASSUME NEW m \in leaving, Left(m) PROVE Places'
  BY <1>4 DEF Left
<1>5. ASSUME Render PROVE Places'
  <2>1. phase' \in [Attempt -> Phase]
    BY <1>5 DEF Render, SocketClosed
  <2>2. mount' \in Nat /\ mount <= mount' /\ born' \in 0..mount'
    BY <1>5 DEF Render
  <2>3. 0..mount \subseteq 0..mount'
    BY <2>2
  <2>4. UNCHANGED <<asked, leaving, visit>>
    BY <1>5 DEF Render
  <2>5. /\ asked' \in 0..mount' /\ leaving' \subseteq 0..mount'
        /\ visit' \in [Attempt -> 0..mount']
    BY <2>3, <2>4
  <2>6. /\ url' \in Room \cup {Home} /\ shown' \in Room \cup {Home}
        /\ opening' \subseteq Room /\ ws' \in Attempt \cup {NoSocket}
    BY <1>5 DEF Render
  <2> QED
    BY <2>1, <2>2, <2>5, <2>6
<1>6. ASSUME Connect PROVE phase' \in [Attempt -> Phase] /\ visit' \in [Attempt -> 0..mount]
  BY <1>6 DEF Connect
<1>7. ASSUME Boot \/ TimerFires PROVE Places'
  BY <1>7, <1>6 DEF Boot, TimerFires, page
<1>8. ASSUME NEW a \in Attempt, TicketGranted(a) PROVE Places'
  <2>1. phase' \in [Attempt -> Phase] /\ visit' \in [Attempt -> 0..mount]
    BY <1>8 DEF TicketGranted, Reaches, Free
  <2>2. UNCHANGED page /\ ws' \in Attempt \cup {NoSocket}
    BY <1>8 DEF TicketGranted
  <2> QED
    BY <2>1, <2>2 DEF page
<1>9. ASSUME NEW a \in Attempt, TicketRefused(a) PROVE Places'
  BY <1>9 DEF TicketRefused, Free
<1>10. ASSUME NEW a \in Attempt, TicketFailed(a) PROVE Places'
  BY <1>10 DEF TicketFailed, Free, page
<1>11. ASSUME NEW a \in Attempt, Opens(a) \/ Drops(a) PROVE Places'
  BY <1>11 DEF Opens, Drops, Reaches, page
<1>12. ASSUME NEW a \in Attempt, Closed(a) PROVE Places'
  <2>1. phase' \in [Attempt -> Phase] /\ visit' \in [Attempt -> 0..mount]
    BY <1>12 DEF Closed, Free
  <2>2. UNCHANGED page /\ ws' \in Attempt \cup {NoSocket}
    BY <1>12 DEF Closed
  <2> QED
    BY <2>1, <2>2 DEF page
<1>13. ASSUME NEW a \in Attempt, Replaced(a) \/ RoomGone(a) PROVE Places'
  BY <1>13 DEF Replaced, RoomGone, Reaches
<1>14. CASE UNCHANGED vars
  BY <1>14 DEF vars, page
<1> QED
  BY <1>1, <1>2, <1>3, <1>4, <1>5, <1>7, <1>8, <1>9, <1>10, <1>11, <1>12, <1>13, <1>14
     DEF Next

LEMMA NextTypeOK == TypeOK /\ [Next]_vars => TypeOK'
<1>1. TypeOK' <=> (Switches /\ Places)'
  BY DEF TypeOK, Switches, Places
<1> QED
  BY <1>1, NextSwitches, NextPlaces

\* The tab is well typed, whatever the user, the server and the timers do.
THEOREM TypeCorrect == Spec => []TypeOK
  BY InitTypeOK, NextTypeOK, PTL DEF Spec

--------------------------------------------------------------------------
(* Lifelines *)

\* What the hook and its page consist of.
hook == <<shown, mount, born, boot, timer, should, intentional, ws, connected, phase,
          visit>>

Alive == NeverGivesUp /\ LoneLifeline /\ WantedInRooms

\* The dashboard, the dialog and the router do not touch the hook.
LEMMA OutsideTheHook ==
    ASSUME \/ \E r \in Room : Open(r) \/ Opened(r)
           \/ Leave \/ AskToLeave \/ Confirm \/ Cancel \/ Back
           \/ \E m \in leaving : Left(m)
           \/ \E a \in Attempt : RoomGone(a)
           \/ UNCHANGED vars
    PROVE  UNCHANGED hook
<1> USE DEF hook, flags, attempts
<1>1. ASSUME NEW r \in Room, Open(r) \/ Opened(r) PROVE UNCHANGED hook
  BY <1>1 DEF Open, Opened
<1>2. ASSUME Leave \/ AskToLeave \/ Confirm \/ Cancel \/ Back PROVE UNCHANGED hook
  BY <1>2 DEF Leave, AskToLeave, Confirm, Cancel, Back
<1>3. ASSUME NEW m \in leaving, Left(m) PROVE UNCHANGED hook
  BY <1>3 DEF Left
<1>4. ASSUME NEW a \in Attempt, RoomGone(a) PROVE UNCHANGED hook
  BY <1>4 DEF RoomGone
<1>5. CASE UNCHANGED vars
  BY <1>5 DEF vars, page
<1> QED
  BY <1>1, <1>2, <1>3, <1>4, <1>5

LEMMA InitAlive == Init => Alive
  BY DEF Init, Alive, NeverGivesUp, LoneLifeline, WantedInRooms, Lifeline

\* No step takes the last way to a connection away.
LEMMA NextNeverGivesUp == TypeOK /\ Alive /\ [Next]_vars => NeverGivesUp'
<1> SUFFICES ASSUME TypeOK, NeverGivesUp, [Next]_vars PROVE NeverGivesUp'
  BY DEF Alive
<1> USE DEF TypeOK, NeverGivesUp, Current, flags, attempts
<1>1. CASE UNCHANGED hook
  BY <1>1 DEF hook
<1>2. CASE Render
  BY <1>2 DEF Render
<1>3. ASSUME Connect, should, ~intentional, mount' = mount
      PROVE  \E a \in Attempt : Current(a)' /\ phase'[a] # "none"
  BY <1>3 DEF Connect
<1>4. CASE Boot
  BY <1>3, <1>4 DEF Boot, page
<1>5. CASE TimerFires
  BY <1>3, <1>5 DEF TimerFires, page
<1>6. ASSUME NEW a \in Attempt, TicketGranted(a) PROVE NeverGivesUp'
  BY <1>6 DEF TicketGranted, Reaches, Free, page
<1>7. ASSUME NEW a \in Attempt, TicketRefused(a) PROVE NeverGivesUp'
  <2>1. CASE SameRefs(a)
    BY <1>7, <2>1 DEF TicketRefused
  <2>2. CASE ~SameRefs(a)
    <3>1. visit[a] # mount
      BY <2>2 DEF SameRefs
    <3>2. UNCHANGED <<boot, timer, should, intentional, mount>>
      BY <1>7, <2>2 DEF TicketRefused
    <3>3. \A c \in Attempt : c # a => phase'[c] = phase[c] /\ visit'[c] = visit[c]
      BY <1>7 DEF TicketRefused, Free
    <3> QED
      BY <3>1, <3>2, <3>3
  <2> QED
    BY <2>1, <2>2
<1>8. ASSUME NEW a \in Attempt, TicketFailed(a) PROVE NeverGivesUp'
  BY <1>8 DEF TicketFailed, ScheduleReconnect, Free, SameRefs, page
<1>9. ASSUME NEW a \in Attempt, Opens(a) \/ Drops(a) PROVE NeverGivesUp'
  BY <1>9 DEF Opens, Drops, Reaches, page
<1>10. ASSUME NEW a \in Attempt, Closed(a) PROVE NeverGivesUp'
  BY <1>10 DEF Closed, ScheduleReconnect, Free, SameRefs, page
<1>11. ASSUME NEW a \in Attempt, Replaced(a) PROVE NeverGivesUp'
  BY <1>11 DEF Replaced, Reaches
<1> QED
  BY <1>1, <1>2, <1>4, <1>5, <1>6, <1>7, <1>8, <1>9, <1>10, <1>11, OutsideTheHook DEF Next

\* Only the page of a room wants a connection.
LEMMA NextWantedInRooms == TypeOK /\ Alive /\ [Next]_vars => WantedInRooms'
<1> SUFFICES ASSUME WantedInRooms, [Next]_vars PROVE WantedInRooms'
  BY DEF Alive
<1> USE DEF WantedInRooms, flags, page
<1>1. CASE UNCHANGED hook
  BY <1>1 DEF hook
<1>2. CASE Render
  BY <1>2 DEF Render
<1>3. CASE Boot \/ TimerFires
  BY <1>3 DEF Boot, TimerFires
<1>4. ASSUME NEW a \in Attempt, TicketGranted(a) \/ TicketFailed(a) \/ Opens(a) PROVE WantedInRooms'
  BY <1>4 DEF TicketGranted, TicketFailed, Opens
<1>5. ASSUME NEW a \in Attempt, Drops(a) \/ Closed(a) \/ Replaced(a) PROVE WantedInRooms'
  BY <1>5 DEF Drops, Closed, Replaced
<1>6. ASSUME NEW a \in Attempt, TicketRefused(a) PROVE WantedInRooms'
  BY <1>6 DEF TicketRefused
<1> QED
  BY <1>1, <1>2, <1>3, <1>4, <1>5, <1>6, OutsideTheHook DEF Next

\* No step gives a page of one visit a second lifeline.
LEMMA NextLoneLifeline == TypeOK /\ Alive /\ [Next]_vars => LoneLifeline'
<1> SUFFICES ASSUME TypeOK, LoneLifeline, [Next]_vars, born' = mount'
             PROVE  /\ ~(boot' /\ timer')
                    /\ \A a \in Attempt : Lifeline(a)' => ~boot' /\ ~timer'
                    /\ \A a, b \in Attempt : Lifeline(a)' /\ Lifeline(b)' => a = b
  BY DEF Alive, LoneLifeline
<1> DEFINE Lone == /\ ~(boot /\ timer)
                   /\ \A a \in Attempt : Lifeline(a) => ~boot /\ ~timer
                   /\ \A a, b \in Attempt : Lifeline(a) /\ Lifeline(b) => a = b
<1> USE DEF TypeOK, LoneLifeline, Lifeline, Current, flags, attempts
<1>1. CASE UNCHANGED hook
  BY <1>1 DEF hook
<1>2. CASE Render
  <2>1. CASE url \in Room
    <3>1. \A a \in Attempt : ~Lifeline(a)'
      BY <1>2, <2>1 DEF Render
    <3> QED
      BY <1>2, <3>1 DEF Render
  <2>2. CASE url \notin Room
    <3>1. mount' = mount /\ born = mount /\ ~boot' /\ ~timer'
      BY <1>2, <2>2 DEF Render
    <3>2. \A a \in Attempt : Lifeline(a)' => Lifeline(a)
      BY <1>2, <3>1 DEF Render, SocketClosed
    <3> QED
      BY <3>1, <3>2
  <2> QED
    BY <2>1, <2>2
<1>3. CASE Boot
  BY <1>3 DEF Boot, Connect, page
<1>4. CASE TimerFires
  BY <1>4 DEF TimerFires, Connect, page
<1>5. ASSUME NEW a \in Attempt, TicketGranted(a) PROVE Lone'
  BY <1>5 DEF TicketGranted, Reaches, Free, page
<1>6. ASSUME NEW a \in Attempt, TicketRefused(a) PROVE Lone'
  BY <1>6 DEF TicketRefused, Free
<1>7. ASSUME NEW a \in Attempt, TicketFailed(a) PROVE Lone'
  BY <1>7 DEF TicketFailed, ScheduleReconnect, Free, SameRefs, page
<1>8. ASSUME NEW a \in Attempt, Opens(a) \/ Drops(a) PROVE Lone'
  BY <1>8 DEF Opens, Drops, Reaches, page
<1>9. ASSUME NEW a \in Attempt, Closed(a) PROVE Lone'
  BY <1>9 DEF Closed, ScheduleReconnect, Free, SameRefs, page
<1>10. ASSUME NEW a \in Attempt, Replaced(a) PROVE Lone'
  BY <1>10 DEF Replaced, Reaches
<1> QED
  BY <1>1, <1>2, <1>3, <1>4, <1>5, <1>6, <1>7, <1>8, <1>9, <1>10, OutsideTheHook DEF Next

LEMMA NextAlive == TypeOK /\ Alive /\ [Next]_vars => Alive'
  BY NextNeverGivesUp, NextLoneLifeline, NextWantedInRooms DEF Alive

LEMMA AlwaysAlive == Spec => [](TypeOK /\ Alive)
  BY InitTypeOK, NextTypeOK, InitAlive, NextAlive, PTL DEF Spec

\* Whatever is left over from earlier visits may fire, fail or close in between: a hook
\* that was not told to stop always has a way to its next connection.
THEOREM HookNeverGivesUp == Spec => []NeverGivesUp
<1>1. Alive => NeverGivesUp
  BY DEF Alive
<1> QED
  BY <1>1, AlwaysAlive, PTL

\* A page of one visit never has two timers, two attempts or a timer beside an attempt.
THEOREM LifelineIsSingle == Spec => []SingleLifeline
<1>1. TypeOK /\ Alive => SingleLifeline
  BY DEF Alive, LoneLifeline, Lifeline, SingleLifeline, Live
<1> QED
  BY <1>1, AlwaysAlive, PTL

--------------------------------------------------------------------------
(* The indicator *)

LEMMA InitConnected == Init => ConnectedIsMine
  BY DEF Init, ConnectedIsMine

\* Only the socket of this visit is reported, by its own events.
LEMMA NextConnected == TypeOK /\ Alive /\ ConnectedIsMine /\ [Next]_vars => ConnectedIsMine'
<1> DEFINE Mine ==
      /\ \A a \in Attempt :
            Current(a) /\ phase[a] \in {"connecting", "open"} =>
                /\ shown \in Room /\ ws = a
                /\ phase[a] = "open" => connected
      /\ connected => /\ ws \in Attempt /\ Current(ws)
                      /\ phase[ws] \in {"open", "closing"}
<1> SUFFICES ASSUME TypeOK, LoneLifeline, WantedInRooms, ConnectedIsMine, [Next]_vars,
                    born' = mount'
             PROVE  Mine'
  BY DEF Alive, ConnectedIsMine
<1> USE VisitAssumption
        DEF TypeOK, LoneLifeline, WantedInRooms, ConnectedIsMine, Lifeline, Current, flags,
            attempts
<1>1. CASE UNCHANGED hook
  BY <1>1 DEF hook
<1>2. CASE Render
  <2>1. \A a \in Attempt : ~(Current(a)' /\ phase'[a] \in {"connecting", "open"})
    <3>1. CASE url \in Room
      BY <1>2, <3>1 DEF Render
    <3>2. CASE url \notin Room
      BY <1>2, <3>2 DEF Render, SocketClosed
    <3> QED
      BY <3>1, <3>2
  <2> QED
    BY <1>2, <2>1 DEF Render
<1>3. CASE Boot
  BY <1>3 DEF Boot, Connect, page
<1>4. CASE TimerFires
  BY <1>4 DEF TimerFires, Connect, page
<1>5. ASSUME NEW a \in Attempt, TicketGranted(a) PROVE Mine'
  BY <1>5 DEF TicketGranted, Reaches, Free, page
<1>6. ASSUME NEW a \in Attempt, TicketRefused(a) PROVE Mine'
  BY <1>6 DEF TicketRefused, Free, SameRefs
<1>7. ASSUME NEW a \in Attempt, TicketFailed(a) PROVE Mine'
  BY <1>7 DEF TicketFailed, Free, SameRefs, page
<1>8. ASSUME NEW a \in Attempt, Opens(a) PROVE Mine'
  BY <1>8 DEF Opens, Reaches, SameRefs, page
<1>9. ASSUME NEW a \in Attempt, Drops(a) PROVE Mine'
  BY <1>9 DEF Drops, Reaches, page
<1>10. ASSUME NEW a \in Attempt, Closed(a) PROVE Mine'
  BY <1>10 DEF Closed, Free, SameRefs, page
<1>11. ASSUME NEW a \in Attempt, Replaced(a) PROVE Mine'
  BY <1>11 DEF Replaced, Reaches
<1> QED
  BY <1>1, <1>2, <1>3, <1>4, <1>5, <1>6, <1>7, <1>8, <1>9, <1>10, <1>11, OutsideTheHook
     DEF Next

\* On a page of one visit isConnected tells the truth about the socket that send() uses.
THEOREM ConnectedTellsTruth == Spec => []ConnectedIsTrue
<1>1. TypeOK /\ ConnectedIsMine => ConnectedIsTrue
  BY VisitAssumption
     DEF TypeOK, ConnectedIsMine, ConnectedIsTrue, SameRefs, Current
<1>2. Spec => []ConnectedIsMine
  BY AlwaysAlive, InitConnected, NextConnected, PTL DEF Spec
<1> QED
  BY <1>1, <1>2, AlwaysAlive, PTL

--------------------------------------------------------------------------
(* Stage: fullscreen and the bar *)

SeenByARender == [full : BOOLEAN, playing : BOOLEAN, visible : BOOLEAN,
           control : BOOLEAN]

Flags ==
    /\ native \in BOOLEAN /\ file \in BOOLEAN /\ control \in BOOLEAN
    /\ paused \in BOOLEAN /\ fullscreen \in BOOLEAN
    /\ isPlaying \in BOOLEAN /\ visible \in BOOLEAN /\ hide \in BOOLEAN
    /\ seeking \in BOOLEAN /\ late \in BOOLEAN /\ loose \in BOOLEAN

Modes ==
    /\ due \subseteq {"play", "pause"}
    /\ request \in {"none", "enter", "exit"}
    /\ pointer \in {"mouse", "touch"} /\ click \subseteq SeenByARender
    /\ hands \subseteq Hand

StageTypes == Flags /\ Modes

\* Only the Fullscreen API waits for the browser, and to enter from outside.
RequestsInPlace ==
    /\ ~native => request = "none"
    /\ request = "enter" => ~fullscreen

\* A pause the bar has heard of.
KnownPause == file /\ paused /\ "pause" \notin due

\* VideoArea knows as much of the element as its events have told.
PauseIsHeard == KnownPause => ~isPlaying

\* The countdown runs over a film that plays in fullscreen.
CountdownInPlace == hide /\ ~late => fullscreen /\ isPlaying

\* Without a player there is nothing to click, and fullscreen is on its way
\* out, unless it was granted to a player that had gone.
WithoutFile ==
    ~file => /\ click = {}
             /\ fullscreen /\ request # "exit" => late

\* Whoever asks for fullscreen takes the bar along.
BarComesAlong == request = "enter" /\ ~late => visible

\* Stronger than PausedHasControls: a `play' that is due does not matter.
PausedIsPinned ==
    KnownPause /\ fullscreen /\ request # "exit" /\ ~late => visible

BarInv ==
    /\ RequestsInPlace /\ PauseIsHeard /\ CountdownInPlace
    /\ WithoutFile /\ BarComesAlong /\ PausedIsPinned

\* The last hand that is heard to let go ends the gesture, whatever became of
\* the host; whatever else leaves isSeeking behind is on record.
ScrubberInv == hands = {} /\ ~loose => ~seeking

\* What ClickTimerFires does with the closure r.
ClickOver(r) ==
    /\ click' = {}
    /\ IF pointer = "touch"
       THEN VideoTap(r)
       ELSE TogglePlayback(r.control) /\ UNCHANGED <<visible, hide, late>>
    /\ UNCHANGED <<native, control, file, screen, isPlaying, pointer,
                   scrubber>>

LEMMA InitStage ==
    StageInit => StageTypes /\ BarInv /\ IdleBarHides /\ ScrubberInv
  BY DEF StageInit, StageTypes, Flags, Modes, BarInv, RequestsInPlace,
         KnownPause, PauseIsHeard, CountdownInPlace, WithoutFile,
         BarComesAlong, PausedIsPinned, IdleBarHides, ScrubberInv

\* Every flag stays one, whatever a closure remembers.
LEMMA FlagsStep ==
    ASSUME StageTypes, [StageNext]_stageVars
    PROVE  Flags'
<1> USE DEF StageTypes, Flags, Modes, SeenByARender, media, screen, bar,
            taps, scrubber
<1>1. CASE MouseMove
  BY <1>1 DEF MouseMove, Reveal, ThisRender
<1>2. CASE HideTimerFires
  BY <1>2 DEF HideTimerFires
<1>3. CASE RoomDrives
  BY <1>3 DEF RoomDrives, Plays, Pauses
<1>4. CASE Space
  BY <1>4 DEF Space, TogglePlayback, Plays, Pauses
<1>5. CASE PlayEvent
  BY <1>5 DEF PlayEvent, Rearm
<1>6. CASE PauseEvent
  BY <1>6 DEF PauseEvent, Rearm
<1>7. CASE VideoReady
  BY <1>7 DEF VideoReady, Rearm
<1>8. CASE PressFullscreen
  BY <1>8 DEF PressFullscreen, ToggleFullscreen, Rearm, Forgets
<1>9. CASE Entered
  BY <1>9 DEF Entered, Rearm
<1>10. CASE Refused
  BY <1>10 DEF Refused
<1>11. CASE Exited
  BY <1>11 DEF Exited, Rearm, Forgets
<1>12. ASSUME NEW p \in {"mouse", "touch"}, PointerDown(p)
     PROVE  Flags'
  BY <1>12 DEF PointerDown
<1>13. CASE Click
  BY <1>13 DEF Click, ThisRender
<1>14. CASE DoubleClick
  BY <1>14 DEF DoubleClick, ToggleFullscreen, Rearm, Forgets
<1>15. CASE ClickTimerFires
  <2>1. PICK r \in click : ClickOver(r)
    BY <1>15 DEF ClickTimerFires, ClickOver
  <2>2. r \in SeenByARender
    BY StageTypes
  <2>3. CASE pointer = "touch"
    BY <2>1, <2>2, <2>3 DEF ClickOver, VideoTap, Reveal
  <2>4. CASE pointer # "touch"
    <3>1. /\ paused' \in BOOLEAN
          /\ UNCHANGED <<visible, hide, late>>
      BY <2>1, <2>4 DEF ClickOver, TogglePlayback, Plays, Pauses
    <3>2. UNCHANGED <<native, file, control, screen, isPlaying, scrubber>>
      BY <2>1 DEF ClickOver
    <3> QED
      BY <3>1, <3>2
  <2> QED
    BY <2>3, <2>4
<1>16. ASSUME NEW h \in Hand,
            SeekStart(h) \/ Release(h) \/ ReleaseUnheard(h)
     PROVE  Flags'
  <2>1. CASE SeekStart(h)
    BY <2>1 DEF SeekStart
  <2>2. CASE Release(h)
    BY <2>2 DEF Release, SeekEnd
  <2>3. CASE ReleaseUnheard(h)
    BY <2>3 DEF ReleaseUnheard
  <2> QED
    BY <1>16, <2>1, <2>2, <2>3
<1>17. CASE SeekChange
  BY <1>17 DEF SeekChange
<1>18. CASE Blur
  BY <1>18 DEF Blur, SeekEnd
<1>19. CASE HostComesOrGoes
  BY <1>19 DEF HostComesOrGoes
<1>20. CASE FileDropped
  BY <1>20 DEF FileDropped, Exit, Rearm, Forgets
<1>21. CASE FileLoaded
  BY <1>21 DEF FileLoaded, Rearm
<1>22. CASE UNCHANGED stageVars
  BY <1>22 DEF stageVars
<1> QED
  BY <1>1, <1>2, <1>3, <1>4, <1>5, <1>6, <1>7, <1>8, <1>9, <1>10, <1>11,
     <1>12, <1>13, <1>14, <1>15, <1>16, <1>17, <1>18, <1>19, <1>20, <1>21,
     <1>22 DEF StageNext

\* So do the other variables.
LEMMA ModesStep ==
    ASSUME StageTypes, [StageNext]_stageVars
    PROVE  Modes'
<1> USE DEF StageTypes, Flags, Modes, SeenByARender, media, screen, bar,
            taps, scrubber
<1>1. CASE MouseMove
  BY <1>1 DEF MouseMove, Reveal, ThisRender
<1>2. CASE HideTimerFires
  BY <1>2 DEF HideTimerFires
<1>3. CASE RoomDrives
  BY <1>3 DEF RoomDrives, Plays, Pauses
<1>4. CASE Space
  BY <1>4 DEF Space, TogglePlayback, Plays, Pauses
<1>5. CASE PlayEvent
  BY <1>5 DEF PlayEvent, Rearm
<1>6. CASE PauseEvent
  BY <1>6 DEF PauseEvent, Rearm
<1>7. CASE VideoReady
  BY <1>7 DEF VideoReady, Rearm
<1>8. CASE PressFullscreen
  BY <1>8 DEF PressFullscreen, ToggleFullscreen, Rearm, Forgets
<1>9. CASE Entered
  BY <1>9 DEF Entered, Rearm
<1>10. CASE Refused
  BY <1>10 DEF Refused
<1>11. CASE Exited
  BY <1>11 DEF Exited, Rearm, Forgets
<1>12. ASSUME NEW p \in {"mouse", "touch"}, PointerDown(p)
     PROVE  Modes'
  BY <1>12 DEF PointerDown
<1>13. CASE Click
  BY <1>13 DEF Click, ThisRender
<1>14. CASE DoubleClick
  BY <1>14 DEF DoubleClick, ToggleFullscreen, Rearm, Forgets
<1>15. CASE ClickTimerFires
  <2>1. PICK r \in click : ClickOver(r)
    BY <1>15 DEF ClickTimerFires, ClickOver
  <2>2. r \in SeenByARender
    BY StageTypes
  <2>3. CASE pointer = "touch"
    BY <2>1, <2>2, <2>3 DEF ClickOver, VideoTap, Reveal
  <2>4. CASE pointer # "touch"
    BY <2>1, <2>2, <2>4 DEF ClickOver, TogglePlayback, Plays, Pauses
  <2> QED
    BY <2>3, <2>4
<1>16. ASSUME NEW h \in Hand,
            SeekStart(h) \/ Release(h) \/ ReleaseUnheard(h)
     PROVE  Modes'
  <2>1. CASE SeekStart(h)
    BY <2>1 DEF SeekStart
  <2>2. CASE Release(h)
    BY <2>2 DEF Release, SeekEnd
  <2>3. CASE ReleaseUnheard(h)
    BY <2>3 DEF ReleaseUnheard
  <2> QED
    BY <1>16, <2>1, <2>2, <2>3
<1>17. CASE SeekChange
  BY <1>17 DEF SeekChange
<1>18. CASE Blur
  BY <1>18 DEF Blur, SeekEnd
<1>19. CASE HostComesOrGoes
  BY <1>19 DEF HostComesOrGoes
<1>20. CASE FileDropped
  BY <1>20 DEF FileDropped, Exit, Rearm, Forgets
<1>21. CASE FileLoaded
  BY <1>21 DEF FileLoaded, Rearm
<1>22. CASE UNCHANGED stageVars
  BY <1>22 DEF stageVars
<1> QED
  BY <1>1, <1>2, <1>3, <1>4, <1>5, <1>6, <1>7, <1>8, <1>9, <1>10, <1>11,
     <1>12, <1>13, <1>14, <1>15, <1>16, <1>17, <1>18, <1>19, <1>20, <1>21,
     <1>22 DEF StageNext

\* Every variable of Stage keeps its type, and a click what it captured.
THEOREM StageTyped == StageSpec => []StageTypes
<1>1. StageInit => StageTypes
  BY InitStage
<1>2. StageTypes /\ [StageNext]_stageVars => StageTypes'
  BY FlagsStep, ModesStep DEF StageTypes
<1> QED
  BY <1>1, <1>2, PTL DEF StageSpec

\* Every handler keeps the bar in step with what it knows.
LEMMA BarStep ==
    ASSUME StageTypes, BarInv, [StageNext]_stageVars
    PROVE  BarInv'
<1> USE DEF StageTypes, Flags, Modes, SeenByARender, BarInv,
            RequestsInPlace, KnownPause, PauseIsHeard, CountdownInPlace,
            WithoutFile, BarComesAlong, PausedIsPinned, media, screen, bar,
            taps, scrubber
<1>1. CASE MouseMove
  BY <1>1 DEF MouseMove, Reveal, ThisRender
<1>2. CASE HideTimerFires
  BY <1>2 DEF HideTimerFires
<1>3. CASE RoomDrives
  BY <1>3 DEF RoomDrives, Plays, Pauses
<1>4. CASE Space
  BY <1>4 DEF Space, TogglePlayback, Plays, Pauses
<1>5. CASE PlayEvent
  BY <1>5 DEF PlayEvent, Rearm
<1>6. CASE PauseEvent
  BY <1>6 DEF PauseEvent, Rearm
<1>7. CASE VideoReady
  BY <1>7 DEF VideoReady, Rearm
<1>8. CASE PressFullscreen
  BY <1>8 DEF PressFullscreen, ToggleFullscreen, Rearm, Forgets
<1>9. CASE Entered
  BY <1>9 DEF Entered, Rearm
<1>10. CASE Refused
  BY <1>10 DEF Refused
<1>11. CASE Exited
  BY <1>11 DEF Exited, Rearm, Forgets
<1>12. ASSUME NEW p \in {"mouse", "touch"}, PointerDown(p)
     PROVE  BarInv'
  BY <1>12 DEF PointerDown
<1>13. CASE Click
  BY <1>13 DEF Click, ThisRender
<1>14. CASE DoubleClick
  BY <1>14 DEF DoubleClick, ToggleFullscreen, Rearm, Forgets
<1>15. CASE ClickTimerFires
  <2>1. PICK r \in click : ClickOver(r)
    BY <1>15 DEF ClickTimerFires, ClickOver
  <2>2. r \in SeenByARender
    BY StageTypes
  <2>3. CASE pointer = "touch"
    BY <2>1, <2>2, <2>3 DEF ClickOver, VideoTap, Reveal
  <2>4. CASE pointer # "touch"
    BY <2>1, <2>2, <2>4 DEF ClickOver, TogglePlayback, Plays, Pauses
  <2> QED
    BY <2>3, <2>4
<1>16. ASSUME NEW h \in Hand,
            SeekStart(h) \/ Release(h) \/ ReleaseUnheard(h)
     PROVE  BarInv'
  <2>1. CASE SeekStart(h)
    BY <2>1 DEF SeekStart
  <2>2. CASE Release(h)
    BY <2>2 DEF Release, SeekEnd
  <2>3. CASE ReleaseUnheard(h)
    BY <2>3 DEF ReleaseUnheard
  <2> QED
    BY <1>16, <2>1, <2>2, <2>3
<1>17. CASE SeekChange
  BY <1>17 DEF SeekChange
<1>18. CASE Blur
  BY <1>18 DEF Blur, SeekEnd
<1>19. CASE HostComesOrGoes
  BY <1>19 DEF HostComesOrGoes
<1>20. CASE FileDropped
  BY <1>20 DEF FileDropped, Exit, Rearm, Forgets
<1>21. CASE FileLoaded
  BY <1>21 DEF FileLoaded, Rearm
<1>22. CASE UNCHANGED stageVars
  BY <1>22 DEF stageVars
<1> QED
  BY <1>1, <1>2, <1>3, <1>4, <1>5, <1>6, <1>7, <1>8, <1>9, <1>10, <1>11,
     <1>12, <1>13, <1>14, <1>15, <1>16, <1>17, <1>18, <1>19, <1>20, <1>21,
     <1>22 DEF StageNext

LEMMA BarAlways == StageSpec => []BarInv
<1>1. StageInit => BarInv
  BY InitStage
<1>2. StageTypes /\ BarInv /\ [StageNext]_stageVars => BarInv'
  BY BarStep
<1> QED
  BY <1>1, <1>2, StageTyped, PTL DEF StageSpec

\* Whoever looks at a paused film in fullscreen has the controls, unless
\* something overtaken ran in this fullscreen: the pinned bar, the idle
\* countdown, the toggle and the answers of the browser agree.
THEOREM PausedFilmHasControls == StageSpec => []PausedHasControls
<1>1. StageTypes /\ BarInv => PausedHasControls
  BY DEF StageTypes, Flags, Modes, BarInv, PausedIsPinned, KnownPause,
         PausedHasControls, ControlsShown
<1> QED
  BY <1>1, StageTyped, BarAlways, PTL

\* A step that shows the bar, or starts film or fullscreen, counts down.
LEMMA IdleBarStep ==
    ASSUME StageTypes, RequestsInPlace, IdleBarHides, [StageNext]_stageVars
    PROVE  IdleBarHides'
<1> USE DEF StageTypes, Flags, Modes, SeenByARender, RequestsInPlace,
            IdleBarHides, ControlsShown, media, screen, bar, taps, scrubber
<1>1. CASE MouseMove
  BY <1>1 DEF MouseMove, Reveal, ThisRender
<1>2. CASE HideTimerFires
  BY <1>2 DEF HideTimerFires
<1>3. CASE RoomDrives
  BY <1>3 DEF RoomDrives, Plays, Pauses
<1>4. CASE Space
  BY <1>4 DEF Space, TogglePlayback, Plays, Pauses
<1>5. CASE PlayEvent
  BY <1>5 DEF PlayEvent, Rearm
<1>6. CASE PauseEvent
  BY <1>6 DEF PauseEvent, Rearm
<1>7. CASE VideoReady
  BY <1>7 DEF VideoReady, Rearm
<1>8. CASE PressFullscreen
  BY <1>8 DEF PressFullscreen, ToggleFullscreen, Rearm, Forgets
<1>9. CASE Entered
  BY <1>9 DEF Entered, Rearm
<1>10. CASE Refused
  BY <1>10 DEF Refused
<1>11. CASE Exited
  BY <1>11 DEF Exited, Rearm, Forgets
<1>12. ASSUME NEW p \in {"mouse", "touch"}, PointerDown(p)
     PROVE  IdleBarHides'
  BY <1>12 DEF PointerDown
<1>13. CASE Click
  BY <1>13 DEF Click, ThisRender
<1>14. CASE DoubleClick
  BY <1>14 DEF DoubleClick, ToggleFullscreen, Rearm, Forgets
<1>15. CASE ClickTimerFires
  <2>1. PICK r \in click : ClickOver(r)
    BY <1>15 DEF ClickTimerFires, ClickOver
  <2>2. r \in SeenByARender
    BY StageTypes
  <2>3. CASE pointer = "touch"
    BY <2>1, <2>2, <2>3 DEF ClickOver, VideoTap, Reveal
  <2>4. CASE pointer # "touch"
    BY <2>1, <2>2, <2>4 DEF ClickOver, TogglePlayback, Plays, Pauses
  <2> QED
    BY <2>3, <2>4
<1>16. ASSUME NEW h \in Hand,
            SeekStart(h) \/ Release(h) \/ ReleaseUnheard(h)
     PROVE  IdleBarHides'
  <2>1. CASE SeekStart(h)
    BY <2>1 DEF SeekStart
  <2>2. CASE Release(h)
    BY <2>2 DEF Release, SeekEnd
  <2>3. CASE ReleaseUnheard(h)
    BY <2>3 DEF ReleaseUnheard
  <2> QED
    BY <1>16, <2>1, <2>2, <2>3
<1>17. CASE SeekChange
  BY <1>17 DEF SeekChange
<1>18. CASE Blur
  BY <1>18 DEF Blur, SeekEnd
<1>19. CASE HostComesOrGoes
  BY <1>19 DEF HostComesOrGoes
<1>20. CASE FileDropped
  BY <1>20 DEF FileDropped, Exit, Rearm, Forgets
<1>21. CASE FileLoaded
  BY <1>21 DEF FileLoaded, Rearm
<1>22. CASE UNCHANGED stageVars
  BY <1>22 DEF stageVars
<1> QED
  BY <1>1, <1>2, <1>3, <1>4, <1>5, <1>6, <1>7, <1>8, <1>9, <1>10, <1>11,
     <1>12, <1>13, <1>14, <1>15, <1>16, <1>17, <1>18, <1>19, <1>20, <1>21,
     <1>22 DEF StageNext

\* A bar over a film that plays in fullscreen has its idle countdown running,
\* unless something overtaken showed it.
THEOREM IdleBarGoesAway == StageSpec => []IdleBarHides
<1>1. StageInit => IdleBarHides
  BY InitStage
<1>2. StageTypes /\ RequestsInPlace /\ IdleBarHides /\ [StageNext]_stageVars
         => IdleBarHides'
  BY IdleBarStep
<1>3. BarInv => RequestsInPlace
  BY DEF BarInv
<1> QED
  BY <1>1, <1>2, <1>3, StageTyped, BarAlways, PTL DEF StageSpec

\* A gesture ends with the last hand that is heard to let go, or is loose.
LEMMA ScrubberStep ==
    ASSUME StageTypes, ScrubberInv, [StageNext]_stageVars
    PROVE  ScrubberInv'
<1> USE DEF StageTypes, Flags, Modes, ScrubberInv, media, screen, bar,
            taps, scrubber
<1>1. CASE MouseMove
  BY <1>1 DEF MouseMove, Reveal, ThisRender
<1>2. CASE HideTimerFires
  BY <1>2 DEF HideTimerFires
<1>3. CASE RoomDrives
  BY <1>3 DEF RoomDrives, Plays, Pauses
<1>4. CASE Space
  BY <1>4 DEF Space, TogglePlayback, Plays, Pauses
<1>5. CASE PlayEvent
  BY <1>5 DEF PlayEvent, Rearm
<1>6. CASE PauseEvent
  BY <1>6 DEF PauseEvent, Rearm
<1>7. CASE VideoReady
  BY <1>7 DEF VideoReady, Rearm
<1>8. CASE PressFullscreen
  BY <1>8 DEF PressFullscreen, ToggleFullscreen, Rearm, Forgets
<1>9. CASE Entered
  BY <1>9 DEF Entered, Rearm
<1>10. CASE Refused
  BY <1>10 DEF Refused
<1>11. CASE Exited
  BY <1>11 DEF Exited, Rearm, Forgets
<1>12. ASSUME NEW p \in {"mouse", "touch"}, PointerDown(p)
     PROVE  ScrubberInv'
  BY <1>12 DEF PointerDown
<1>13. CASE Click
  BY <1>13 DEF Click, ThisRender
<1>14. CASE DoubleClick
  BY <1>14 DEF DoubleClick, ToggleFullscreen, Rearm, Forgets
<1>15. CASE ClickTimerFires
  BY <1>15
     DEF ClickTimerFires, VideoTap, Reveal, TogglePlayback, Plays, Pauses
<1>16. ASSUME NEW h \in Hand,
            SeekStart(h) \/ Release(h) \/ ReleaseUnheard(h)
     PROVE  ScrubberInv'
  <2>1. CASE SeekStart(h)
    BY <2>1 DEF SeekStart
  <2>2. CASE Release(h)
    BY <2>2 DEF Release, SeekEnd
  <2>3. CASE ReleaseUnheard(h)
    BY <2>3 DEF ReleaseUnheard
  <2> QED
    BY <1>16, <2>1, <2>2, <2>3
<1>17. CASE SeekChange
  BY <1>17 DEF SeekChange
<1>18. CASE Blur
  BY <1>18 DEF Blur, SeekEnd
<1>19. CASE HostComesOrGoes
  BY <1>19 DEF HostComesOrGoes
<1>20. CASE FileDropped
  BY <1>20 DEF FileDropped, Exit, Rearm, Forgets
<1>21. CASE FileLoaded
  BY <1>21 DEF FileLoaded, Rearm
<1>22. CASE UNCHANGED stageVars
  BY <1>22 DEF stageVars
<1> QED
  BY <1>1, <1>2, <1>3, <1>4, <1>5, <1>6, <1>7, <1>8, <1>9, <1>10, <1>11,
     <1>12, <1>13, <1>14, <1>15, <1>16, <1>17, <1>18, <1>19, <1>20, <1>21,
     <1>22 DEF StageNext

\* A scrubber nobody holds follows the film again, unless the input did not
\* hear the last hand let go or was moved with no hand on it: after a drag, a
\* touch or an arrow key, whatever the host did meanwhile.
THEOREM ScrubberIsFree == StageSpec => []ScrubberFollows
<1>1. StageInit => ScrubberInv
  BY InitStage
<1>2. StageTypes /\ ScrubberInv /\ [StageNext]_stageVars => ScrubberInv'
  BY ScrubberStep
<1>3. ScrubberInv => ScrubberFollows
  BY DEF ScrubberInv, ScrubberFollows, Follows
<1> QED
  BY <1>1, <1>2, <1>3, StageTyped, PTL DEF StageSpec

--------------------------------------------------------------------------
(* Chat: answers on their way *)

\* Every message of S is among the rows of the page or below its cursor.
Covers(p, S) == \A m \in S : m \in ToSet(p.rows) \/ m < p.next

\* What an answer of the history looks like: no message twice, and the cursor
\* leaves nothing out that the query has read.
PageOfHistory ==
    {p \in [rows : Seq(Nat), next : Nat, read : SUBSET Nat] :
        IsInjective(p.rows) /\ Covers(p, p.read)}

Asked ==
    {r \in [kind : {"none", "retry", "more"}, before : Nat,
            served : BOOLEAN, page : PageOfHistory] :
        r.kind = "more" => r.before # 0}

\* The table and the socket.
ServerTypes ==
    /\ begun \in Nat /\ saved \subseteq 1..begun /\ unsent \subseteq Nat
    /\ net \in Seq(Nat)

\* The store, and what the load that filled it has read.
StoreTypes ==
    /\ messages \in Seq(Nat) /\ cursor \in Nat
    /\ loaded \subseteq Nat /\ outdated \subseteq Request
    /\ crossed \in BOOLEAN

\* Answers on their way.
AnswerTypes ==
    /\ first \in PageOfHistory
    /\ requests \in [Request -> Asked]

ChatTypes == ServerTypes /\ StoreTypes /\ AnswerTypes

--------------------------------------------------------------------------
(* Pages and what is put before what *)

\* Sequences are the functions on an initial segment of the numbers.
LEMMA SequencesAreFunctions ==
    \A S : Seq(S) = UNION {[1..n -> S] : n \in Nat}
  OBVIOUS

\* The rows of a query: no message twice, the oldest first.
LEMMA ListingsAreSequences ==
    ASSUME NEW S \in SUBSET Nat, IsFiniteSet(S), NEW s \in Listings(S)
    PROVE  /\ s \in Seq(Nat) /\ IsInjective(s) /\ ToSet(s) = S
           /\ \A i, j \in 1..Len(s) : i < j => s[i] < s[j]
<1>1. Cardinality(S) \in Nat
  BY FS_CardinalityType
<1>2. s \in [1..Cardinality(S) -> S] /\ s \in [1..Cardinality(S) -> Nat]
  BY DEF Listings
<1>3. s \in Seq(Nat) /\ Len(s) = Cardinality(S)
  BY <1>1, <1>2, SequencesAreFunctions
<1>4. \A i, j \in DOMAIN s : i < j => s[i] < s[j]
  BY DEF Listings
<1>5. IsInjective(s)
  <2>1. ASSUME NEW i \in DOMAIN s, NEW j \in DOMAIN s, i # j
        PROVE  s[i] # s[j]
    <3>1. i \in Nat /\ j \in Nat /\ s[i] \in Nat /\ s[j] \in Nat
      BY <1>1, <1>2
    <3>2. i < j => s[i] < s[j]
      BY <1>4
    <3>3. j < i => s[j] < s[i]
      BY <1>4
    <3> QED
      BY <2>1, <3>1, <3>2, <3>3
  <2> QED
    BY <2>1 DEF IsInjective
<1>6. ToSet(s) = S
  BY DEF Listings
<1> QED
  BY <1>2, <1>3, <1>4, <1>5, <1>6

\* The rows that are kept have no repetition, and what is not kept is older
\* than the cursor.
LEMMA AnswersAreAPage ==
    ASSUME NEW s \in Seq(Nat), IsInjective(s),
           \A i, j \in 1..Len(s) : i < j => s[i] < s[j]
    PROVE  Answer(s) \in PageOfHistory /\ Answer(s).read = ToSet(s)
<1> DEFINE n == Len(s)
           k == n - Page + 1
           kept == SubSeq(s, k, n)
<1>1. n \in Nat /\ s \in [1..n -> Nat]
  OBVIOUS
<1>2. ToSet(s) \subseteq Nat
  BY <1>1 DEF ToSet
<1>3. CASE n > Page
  <2>1. k \in 1..n /\ n - k + 1 = Page /\ Page \in Nat
    BY <1>1, <1>3, ChatAssumption
  <2>2. /\ kept \in Seq(Nat) /\ Len(kept) = Page
        /\ \A i \in 1..Page : kept[i] = s[k + i - 1]
    BY <1>1, <2>1
  <2>3. s[k] \in Nat
    BY <1>1, <2>1
  <2>4. Answer(s) = [rows |-> kept, next |-> s[k], read |-> ToSet(s)]
    BY <1>3 DEF Answer, NextCursor
  <2>5. \A i \in 1..Page : k + i - 1 \in 1..n
    BY <1>1, <2>1
  <2> HIDE DEF kept, k, n
  <2>6. IsInjective(kept)
    <3>1. ASSUME NEW i \in 1..Page, NEW j \in 1..Page, kept[i] = kept[j]
          PROVE  i = j
      <4>1. s[k + i - 1] = s[k + j - 1]
        BY <2>2, <3>1
      <4>2. k + i - 1 = k + j - 1
        BY <1>1, <2>5, <4>1 DEF IsInjective
      <4> QED
        BY <1>1, <2>1, <4>2
    <3> QED
      BY <2>2, <3>1 DEF IsInjective
  <2>7. ASSUME NEW m \in ToSet(s) PROVE m \in ToSet(kept) \/ m < s[k]
    <3>1. PICK j \in 1..n : m = s[j]
      BY <1>1 DEF ToSet
    <3>2. CASE j < k
      BY <2>1, <3>1, <3>2 DEF n
    <3>3. CASE ~(j < k)
      <4>1. j - k + 1 \in 1..Page /\ k + (j - k + 1) - 1 = j
        BY <1>1, <2>1, <3>3
      <4>2. kept[j - k + 1] = m
        BY <2>2, <3>1, <4>1
      <4>3. DOMAIN kept = 1..Page
        BY <2>2
      <4> QED
        BY <4>1, <4>2, <4>3 DEF ToSet
    <3> QED
      BY <3>2, <3>3
  <2> QED
    BY <1>2, <2>2, <2>3, <2>4, <2>6, <2>7 DEF PageOfHistory, Covers
<1>4. CASE ~(n > Page)
  <2>1. Answer(s) = [rows |-> s, next |-> 0, read |-> ToSet(s)]
    BY <1>4 DEF Answer
  <2> QED
    BY <1>2, <2>1 DEF PageOfHistory, Covers
<1> QED
  BY <1>3, <1>4

LEMMA FinitelyManySaved ==
    ASSUME NEW n \in Nat, NEW S \in SUBSET (1..n)
    PROVE  IsFiniteSet(S) /\ S \subseteq Nat
<1>1. IsFiniteSet(1..n)
  BY FS_Interval
<1>2. S \subseteq Nat
  OBVIOUS
<1> QED
  BY <1>1, <1>2, FS_Subset

\* The history answers with a page of what is in the table below the cursor.
LEMMA HistoryAnswers ==
    ASSUME ServerTypes, NEW before \in Nat, NEW p \in GetHistory(before)
    PROVE  /\ p \in PageOfHistory
           /\ p.read = {m \in saved : before = 0 \/ m < before}
<1> DEFINE below == {m \in saved : before = 0 \/ m < before}
<1>1. PICK s \in Listings(below) : p = Answer(s)
  BY DEF GetHistory
<1>2. begun \in Nat /\ below \in SUBSET (1..begun)
  BY DEF ServerTypes
<1> HIDE DEF below
<1>3. /\ s \in Seq(Nat) /\ IsInjective(s) /\ ToSet(s) = below
      /\ \A i, j \in 1..Len(s) : i < j => s[i] < s[j]
  BY <1>2, FinitelyManySaved, ListingsAreSequences
<1>4. p \in PageOfHistory /\ p.read = below
  BY <1>1, <1>3, AnswersAreAPage
<1> QED
  BY <1>4 DEF below

LEMMA AppendKeepsInjective ==
    ASSUME NEW s \in Seq(Nat), IsInjective(s), NEW m \in Nat, m \notin ToSet(s)
    PROVE  IsInjective(Append(s, m))
  BY DEF IsInjective, ToSet

LEMMA AppendAdds ==
    ASSUME NEW s \in Seq(Nat), NEW m \in Nat
    PROVE  ToSet(s) \subseteq ToSet(Append(s, m))
  BY DEF ToSet

\* The two parts of a concatenation, place by place.
LEMMA ConcatPlaces ==
    ASSUME NEW s \in Seq(Nat), NEW t \in Seq(Nat)
    PROVE  /\ s \o t \in Seq(Nat) /\ Len(s \o t) = Len(s) + Len(t)
           /\ \A i \in 1..Len(s) : (s \o t)[i] = s[i]
           /\ \A i \in 1..Len(t) : (s \o t)[Len(s) + i] = t[i]
  OBVIOUS

LEMMA ConcatHasBoth ==
    ASSUME NEW s \in Seq(Nat), NEW t \in Seq(Nat)
    PROVE  ToSet(s) \cup ToSet(t) \subseteq ToSet(s \o t)
<1>1. ASSUME NEW i \in DOMAIN s PROVE s[i] \in ToSet(s \o t)
  <2>1. i \in 1..Len(s) /\ i \in 1..Len(s \o t)
    BY ConcatPlaces
  <2> QED
    BY <2>1, ConcatPlaces DEF ToSet
<1>2. ASSUME NEW i \in DOMAIN t PROVE t[i] \in ToSet(s \o t)
  <2>1. Len(s) + i \in 1..Len(s \o t)
    BY ConcatPlaces
  <2> QED
    BY <2>1, ConcatPlaces DEF ToSet
<1> QED
  BY <1>1, <1>2 DEF ToSet

LEMMA ConcatKeepsInjective ==
    ASSUME NEW s \in Seq(Nat), NEW t \in Seq(Nat),
           IsInjective(s), IsInjective(t), ToSet(s) \cap ToSet(t) = {}
    PROVE  IsInjective(s \o t)
<1> DEFINE n == Len(s)
           c == s \o t
<1>1. /\ n \in Nat /\ Len(t) \in Nat /\ Len(c) = n + Len(t)
      /\ DOMAIN c = 1..Len(c) /\ DOMAIN s = 1..n /\ DOMAIN t = 1..Len(t)
  BY ConcatPlaces
<1>2. \A i \in 1..n : c[i] = s[i]
  BY ConcatPlaces
<1>3. ASSUME NEW i \in DOMAIN c, i \notin 1..n
      PROVE  i - n \in DOMAIN t /\ c[i] = t[i - n]
  <2>1. i - n \in 1..Len(t) /\ n + (i - n) = i
    BY <1>1, <1>3
  <2> QED
    BY <1>1, <2>1, ConcatPlaces
<1> HIDE DEF n, c
<1>4. ASSUME NEW i \in DOMAIN c, NEW j \in DOMAIN c, c[i] = c[j]
      PROVE  i = j
  <2>1. CASE i \in 1..n /\ j \in 1..n
    BY <1>1, <1>2, <1>4, <2>1 DEF IsInjective
  <2>2. CASE i \notin 1..n /\ j \notin 1..n
    <3>1. i - n = j - n
      BY <1>3, <1>4, <2>2 DEF IsInjective
    <3> QED
      BY <1>1, <3>1
  <2>3. ASSUME NEW k \in 1..n, NEW l \in DOMAIN c, l \notin 1..n
        PROVE  c[k] # c[l]
    <3>1. c[k] \in ToSet(s)
      BY <1>1, <1>2 DEF ToSet
    <3>2. c[l] \in ToSet(t)
      BY <1>3, <2>3 DEF ToSet
    <3> QED
      BY <3>1, <3>2
  <2> QED
    BY <1>4, <2>1, <2>2, <2>3
<1>5. IsInjective(c)
  BY <1>4 DEF IsInjective
<1> QED
  BY <1>5 DEF c

--------------------------------------------------------------------------
(* Types *)

LEMMA FinitelyManyRows ==
    ASSUME NEW s \in Seq(Nat)
    PROVE  IsFiniteSet(ToSet(s)) /\ ToSet(s) \subseteq Nat
<1> DEFINE n == Len(s)
<1>1. n \in Nat /\ s \in [1..n -> Nat]
  OBVIOUS
<1> HIDE DEF n
<1>2. IsFiniteSet(1..n)
  BY <1>1, FS_Interval
<1>3. s \in Surjection(1..n, ToSet(s))
  BY <1>1 DEF Surjection, ToSet
<1> QED
  BY <1>1, <1>2, <1>3, FS_Surjection DEF ToSet

\* What handleLoadMoreChat puts before the list: the rows it lacks, once each.
LEMMA OlderRows ==
    ASSUME ChatTypes, NEW q \in Request, MoreApplied(q)
    PROVE  \E s \in Seq(Nat) :
              /\ messages' = s \o messages /\ IsInjective(s)
              /\ ToSet(s) = ToSet(requests[q].page.rows) \ ToSet(messages)
<1> DEFINE rows == requests[q].page.rows
           lacking == ToSet(rows) \ ToSet(messages)
<1>1. rows \in Seq(Nat) /\ IsInjective(rows)
  BY DEF ChatTypes, AnswerTypes, Asked, PageOfHistory
<1>2. PICK s \in Listings(lacking) : messages' = s \o messages
  BY DEF MoreApplied
<1> HIDE DEF rows
<1>3. IsFiniteSet(ToSet(rows)) /\ ToSet(rows) \subseteq Nat
  BY <1>1, FinitelyManyRows
<1>4. IsFiniteSet(lacking) /\ lacking \in SUBSET Nat
  BY <1>3, FS_Subset
<1> HIDE DEF lacking
<1>5. s \in Seq(Nat) /\ IsInjective(s) /\ ToSet(s) = lacking
  BY <1>4, ListingsAreSequences
<1> QED
  BY <1>2, <1>5 DEF lacking, rows

LEMMA NoMessages == <<>> \in Seq(Nat)
  OBVIOUS

LEMMA NothingIsAPage == NoAnswer \in PageOfHistory
  BY NoMessages DEF NoAnswer, PageOfHistory, Covers, IsInjective

LEMMA IdleIsTyped == Idle \in Asked
  BY NothingIsAPage DEF Idle, Asked

LEMMA InitChat ==
    ChatInit => ChatTypes /\ NoDuplicates /\ OlderAreReachable
<1> SUFFICES ASSUME ChatInit PROVE ChatTypes /\ NoDuplicates /\ OlderAreReachable
  OBVIOUS
<1>1. ChatTypes
  BY NothingIsAPage, IdleIsTyped, NoMessages
     DEF ChatInit, ChatTypes, ServerTypes, StoreTypes, AnswerTypes
<1> QED
  BY <1>1 DEF ChatInit, NoDuplicates, OlderAreReachable, IsInjective

LEMMA AskIsTyped ==
    ASSUME AnswerTypes, StoreTypes, NEW q \in Request,
           NEW kind \in {"retry", "more"},
           NEW before \in Nat, kind = "more" => before # 0,
           Asks(q, kind, before)
    PROVE  requests' \in [Request -> Asked] /\ outdated' \subseteq Request
<1>1. [kind |-> kind, before |-> before, served |-> FALSE,
       page |-> NoAnswer] \in Asked
  BY NothingIsAPage DEF Asked
<1> QED
  BY <1>1 DEF Asks, AnswerTypes, StoreTypes

LEMMA EndIsTyped ==
    ASSUME AnswerTypes, NEW q \in Request, Ends(q)
    PROVE  requests' \in [Request -> Asked]
  BY IdleIsTyped DEF Ends, AnswerTypes

LEMMA ReplaceIsTyped ==
    ASSUME NEW p \in PageOfHistory, Replaces(p)
    PROVE  StoreTypes'
<1>1. p.rows \in Seq(Nat) /\ p.next \in Nat /\ p.read \subseteq Nat
  BY DEF PageOfHistory
<1> QED
  BY <1>1 DEF Replaces, StoreTypes, UnderWay

LEMMA ChatTypesStep ==
    ASSUME ChatTypes, [ChatNext]_chatVars
    PROVE  ChatTypes'
<1> USE DEF ChatTypes, ServerTypes, StoreTypes, AnswerTypes, table, socket,
            firstLoad, store, history
<1>1. CASE SaveBegins
  BY <1>1 DEF SaveBegins
<1>2. ASSUME NEW m \in 1..begun, SaveCommits(m) \/ Broadcast(m)
      PROVE  ChatTypes'
  <2>1. CASE SaveCommits(m)
    BY <2>1 DEF SaveCommits
  <2>2. CASE Broadcast(m)
    BY <2>2 DEF Broadcast
  <2> QED
    BY <1>2, <2>1, <2>2
<1>3. CASE Enter \/ RoomLoaded \/ SwitchTabs
  BY <1>3 DEF Enter, RoomLoaded, SwitchTabs
<1>4. CASE FirstServed
  BY <1>4, HistoryAnswers DEF FirstServed
<1>5. CASE FirstApplied
  BY <1>5, NothingIsAPage, ReplaceIsTyped DEF FirstApplied
<1>6. CASE FirstFailed
  BY <1>6, NothingIsAPage DEF FirstFailed
<1>7. CASE LeavePage
  BY <1>7, NothingIsAPage, NoMessages DEF LeavePage
<1>8. CASE ConnectOrDrop
  BY <1>8 DEF ConnectOrDrop
<1>9. CASE Receive
  BY <1>9 DEF Receive, Adds
<1>10. ASSUME NEW q \in Request, Retry(q) PROVE ChatTypes'
  <2>1. requests' \in [Request -> Asked] /\ outdated' \subseteq Request
    BY <1>10, AskIsTyped DEF Retry
  <2> QED
    BY <1>10, <2>1 DEF Retry
<1>11. ASSUME NEW q \in Request, LoadMore(q) PROVE ChatTypes'
  <2>1. requests' \in [Request -> Asked] /\ outdated' \subseteq Request
    BY <1>11, AskIsTyped DEF LoadMore
  <2> QED
    BY <1>11, <2>1 DEF LoadMore
<1>12. ASSUME NEW q \in Request, Served(q) PROVE ChatTypes'
  <2>1. requests[q] \in Asked /\ requests[q].before \in Nat
    BY DEF Asked
  <2>2. PICK p \in GetHistory(requests[q].before) :
           requests' = [requests EXCEPT ![q].served = TRUE, ![q].page = p]
    BY <1>12 DEF Served
  <2>3. p \in PageOfHistory
    BY <2>1, HistoryAnswers
  <2>4. [requests[q] EXCEPT !.served = TRUE, !.page = p] \in Asked
    BY <2>1, <2>3 DEF Asked
  <2>5. requests' \in [Request -> Asked]
    BY <2>2, <2>4
  <2> QED
    BY <1>12, <2>5 DEF Served
<1>13. ASSUME NEW q \in Request, RetryApplied(q) PROVE ChatTypes'
  <2>1. requests[q].page \in PageOfHistory
    BY DEF Asked
  <2>2. StoreTypes'
    BY <1>13, <2>1, ReplaceIsTyped DEF RetryApplied
  <2>3. requests' \in [Request -> Asked]
    BY <1>13, EndIsTyped DEF RetryApplied
  <2> QED
    BY <1>13, <2>2, <2>3 DEF RetryApplied
<1>14. ASSUME NEW q \in Request, MoreApplied(q) PROVE ChatTypes'
  <2>1. requests[q].page.next \in Nat
    BY DEF Asked, PageOfHistory
  <2>2. PICK s \in Seq(Nat) : messages' = s \o messages
    BY <1>14, OlderRows
  <2>3. messages' \in Seq(Nat)
    BY <2>2, ConcatPlaces
  <2>4. requests' \in [Request -> Asked]
    BY <1>14, EndIsTyped DEF MoreApplied
  <2> QED
    BY <1>14, <2>1, <2>3, <2>4 DEF MoreApplied
<1>15. ASSUME NEW q \in Request, RequestFailed(q) PROVE ChatTypes'
  <2>1. requests' \in [Request -> Asked]
    BY <1>15, EndIsTyped DEF RequestFailed
  <2> QED
    BY <1>15, <2>1 DEF RequestFailed
<1>16. CASE UNCHANGED chatVars
  BY <1>16 DEF chatVars
<1> QED
  BY <1>1, <1>2, <1>3, <1>4, <1>5, <1>6, <1>7, <1>8, <1>9, <1>10, <1>11, <1>12,
     <1>13, <1>14, <1>15, <1>16 DEF ChatNext

\* Every variable of Chat keeps its type: an answer lists no message twice,
\* and its cursor leaves nothing out that the query has read.
THEOREM ChatTyped == ChatSpec => []ChatTypes
  BY InitChat, ChatTypesStep, PTL DEF ChatSpec

--------------------------------------------------------------------------
(* The list of messages *)

\* The handlers that write to the store, the others being told apart once.
LEMMA WhoWritesTheList ==
    ASSUME [ChatNext]_chatVars
    PROVE  \/ UNCHANGED <<messages, cursor, loaded, crossed>>
           \/ FirstApplied \/ LeavePage \/ Receive
           \/ \E q \in Request : RetryApplied(q) \/ MoreApplied(q)
  BY DEF ChatNext, chatVars, table, socket, firstLoad, store, history, Asks,
         SaveBegins, SaveCommits, Broadcast, Enter, RoomLoaded, FirstServed, FirstFailed, ConnectOrDrop,
         SwitchTabs, Retry, LoadMore, Served, RequestFailed

LEMMA NoDuplicatesStep ==
    ASSUME ChatTypes, NoDuplicates, [ChatNext]_chatVars
    PROVE  NoDuplicates'
<1> USE DEF NoDuplicates
<1>1. CASE UNCHANGED <<messages, cursor, loaded, crossed>>
  BY <1>1 DEF IsInjective
<1>2. ASSUME NEW p \in PageOfHistory, Replaces(p) PROVE NoDuplicates'
  BY <1>2 DEF Replaces, PageOfHistory
<1>3. CASE FirstApplied
  BY <1>2, <1>3 DEF FirstApplied, ChatTypes, AnswerTypes
<1>4. CASE LeavePage
  BY <1>4 DEF LeavePage, IsInjective
<1>5. CASE Receive
  <2>1. Head(net) \in Nat
    BY <1>5 DEF Receive, ChatTypes, ServerTypes
  <2> QED
    BY <1>5, <2>1, AppendKeepsInjective
       DEF Receive, Adds, ChatTypes, StoreTypes
<1>6. ASSUME NEW q \in Request, RetryApplied(q) PROVE NoDuplicates'
  <2>1. requests[q].page \in PageOfHistory
    BY DEF ChatTypes, AnswerTypes, Asked
  <2> QED
    BY <1>2, <1>6, <2>1 DEF RetryApplied
<1>7. ASSUME NEW q \in Request, MoreApplied(q) PROVE NoDuplicates'
  <2>1. PICK s \in Seq(Nat) :
           /\ messages' = s \o messages /\ IsInjective(s)
           /\ ToSet(s) = ToSet(requests[q].page.rows) \ ToSet(messages)
    BY <1>7, OlderRows
  <2>2. ToSet(s) \cap ToSet(messages) = {}
    BY <2>1
  <2>3. messages \in Seq(Nat)
    BY DEF ChatTypes, StoreTypes
  <2> QED
    BY <2>1, <2>2, <2>3, ConcatKeepsInjective
<1> QED
  BY <1>1, <1>3, <1>4, <1>5, <1>6, <1>7, WhoWritesTheList

\* No message is shown twice, whatever the history, older pages and the socket
\* deliver, for any size of a page, any number of requests at a time and any
\* order in which messages are committed.
THEOREM ShownOnce == ChatSpec => []NoDuplicates
<1>1. ChatInit => NoDuplicates
  BY InitChat
<1>2. ChatTypes /\ NoDuplicates /\ [ChatNext]_chatVars => NoDuplicates'
  BY NoDuplicatesStep
<1> QED
  BY <1>1, <1>2, ChatTyped, PTL DEF ChatSpec

--------------------------------------------------------------------------
(* The history up to the last full load *)

\* What a query has read was in the table, and stays there.
ReadsAreSaved ==
    /\ loaded \subseteq saved /\ first.read \subseteq saved
    /\ \A q \in Request : requests[q].page.read \subseteq saved

LEMMA ReadsAreSavedStep ==
    ASSUME ChatTypes, ReadsAreSaved, [ChatNext]_chatVars
    PROVE  ReadsAreSaved'
<1> USE DEF ReadsAreSaved, table, firstLoad, store, history
<1>0. NoAnswer.read = {} /\ Idle.page.read = {}
  BY DEF NoAnswer, Idle
<1>1. CASE SaveBegins
  BY <1>1 DEF SaveBegins
<1>2. ASSUME NEW m \in 1..begun, SaveCommits(m) \/ Broadcast(m)
      PROVE  ReadsAreSaved'
  BY <1>2 DEF SaveCommits, Broadcast
<1>3. CASE Enter \/ RoomLoaded \/ SwitchTabs \/ ConnectOrDrop \/ Receive
  BY <1>3 DEF Enter, RoomLoaded, SwitchTabs, ConnectOrDrop, Receive
<1>4. CASE FirstServed
  <2>1. first' \in GetHistory(0)
    BY <1>4 DEF FirstServed
  <2>2. first'.read \subseteq saved
    BY <2>1, HistoryAnswers DEF ChatTypes
  <2> QED
    BY <1>4, <2>2 DEF FirstServed
<1>5. CASE FirstApplied
  BY <1>0, <1>5 DEF FirstApplied, Replaces
<1>6. CASE FirstFailed \/ LeavePage
  BY <1>0, <1>6 DEF FirstFailed, LeavePage
<1>7. ASSUME NEW q \in Request, Retry(q) \/ LoadMore(q)
      PROVE  ReadsAreSaved'
  BY <1>0, <1>7 DEF Retry, LoadMore, Asks, ChatTypes, AnswerTypes
<1>8. ASSUME NEW q \in Request, Served(q) PROVE ReadsAreSaved'
  <2>1. requests[q].before \in Nat
    BY DEF ChatTypes, AnswerTypes, Asked
  <2>2. PICK p \in GetHistory(requests[q].before) :
           requests' = [requests EXCEPT ![q].served = TRUE, ![q].page = p]
    BY <1>8 DEF Served
  <2>3. p.read \subseteq saved
    BY <2>1, HistoryAnswers DEF ChatTypes
  <2>4. \A u \in Request :
           requests'[u].page = IF u = q THEN p ELSE requests[u].page
    BY <2>2 DEF ChatTypes, AnswerTypes, Asked
  <2> QED
    BY <1>8, <2>3, <2>4 DEF Served
<1>9. ASSUME NEW q \in Request, Ends(q)
      PROVE  \A u \in Request : requests'[u].page.read \subseteq saved
  BY <1>0, <1>9 DEF Ends, ChatTypes, AnswerTypes
<1>10. ASSUME NEW q \in Request,
              RetryApplied(q) \/ MoreApplied(q) \/ RequestFailed(q)
       PROVE  ReadsAreSaved'
  BY <1>9, <1>10 DEF RetryApplied, MoreApplied, RequestFailed, Replaces
<1>11. CASE UNCHANGED chatVars
  BY <1>11 DEF chatVars
<1> QED
  BY <1>1, <1>2, <1>3, <1>4, <1>5, <1>6, <1>7, <1>8, <1>10, <1>11 DEF ChatNext

\* A load-more that is about the present list starts where the list, or what
\* has joined it since, begins; its answer leaves nothing of the full load out.
Adjoins(q) ==
    requests[q].kind = "more" /\ q \notin outdated =>
        /\ \A m \in loaded : m \in ToSet(messages) \/ m < requests[q].before
        /\ requests[q].served =>
              Covers(requests[q].page,
                     {m \in loaded : m < requests[q].before})

Adjoining == ~crossed => \A q \in Request : Adjoins(q)

ReachInv == OlderAreReachable /\ Adjoining

LEMMA InitReach == ChatInit => ReadsAreSaved /\ ReachInv
  BY DEF ChatInit, ReadsAreSaved, ReachInv, OlderAreReachable, Adjoining,
         Adjoins, NoAnswer, Idle

\* What is loaded anew can be reached, and what is under way is about the
\* list that was there before.
LEMMA ReplaceReaches ==
    ASSUME NEW p \in PageOfHistory, Replaces(p),
           \A q \in Request :
              requests'[q] = requests[q] \/ requests'[q] = Idle
    PROVE  ReachInv'
<1>1. OlderAreReachable'
  BY DEF OlderAreReachable, Replaces, PageOfHistory, Covers
<1>2. ASSUME NEW q \in Request PROVE Adjoins(q)'
  <2>1. requests'[q].kind = "more" => requests'[q] # Idle
    BY DEF Idle
  <2> QED
    BY <2>1 DEF Adjoins, Replaces, UnderWay
<1> QED
  BY <1>1, <1>2 DEF ReachInv, Adjoining

\* A list that grows, and requests that stay or end, disturb nothing.
LEMMA GrowthReaches ==
    ASSUME ReachInv, UNCHANGED <<cursor, loaded, outdated, crossed>>,
           ToSet(messages) \subseteq ToSet(messages'),
           \A q \in Request :
              requests'[q] = requests[q] \/ requests'[q] = Idle
    PROVE  ReachInv'
<1>1. OlderAreReachable'
  BY DEF ReachInv, OlderAreReachable
<1>2. ASSUME NEW q \in Request, ~crossed PROVE Adjoins(q)'
  <2>1. CASE requests'[q] = requests[q]
    BY <1>2, <2>1 DEF ReachInv, Adjoining, Adjoins
  <2>2. CASE requests'[q] = Idle
    BY <2>2 DEF Adjoins, Idle
  <2> QED
    BY <2>1, <2>2
<1> QED
  BY <1>1, <1>2 DEF ReachInv, Adjoining

LEMMA AskReaches ==
    ASSUME ChatTypes, ReachInv, NEW q \in Request, Retry(q) \/ LoadMore(q)
    PROVE  ReachInv'
<1>1. /\ UNCHANGED <<messages, cursor, loaded, crossed>>
      /\ outdated' = outdated \ {q}
      /\ \A u \in Request \ {q} : requests'[u] = requests[u]
      /\ requests'[q].kind = "more" => requests'[q].before = cursor
      /\ requests'[q].served = FALSE
  BY DEF Retry, LoadMore, Asks, store, ChatTypes, AnswerTypes
<1>2. OlderAreReachable'
  BY <1>1 DEF ReachInv, OlderAreReachable, ToSet
<1>3. ASSUME NEW u \in Request, ~crossed PROVE Adjoins(u)'
  <2>1. CASE u = q
    BY <1>1, <1>3, <2>1 DEF ReachInv, OlderAreReachable, Adjoins
  <2>2. CASE u # q
    BY <1>1, <1>3, <2>2 DEF ReachInv, Adjoining, Adjoins
  <2> QED
    BY <2>1, <2>2
<1> QED
  BY <1>1, <1>2, <1>3 DEF ReachInv, Adjoining

\* A query reads whatever the full load has read.
LEMMA ServedReaches ==
    ASSUME ChatTypes, ReadsAreSaved, ReachInv, NEW q \in Request, Served(q)
    PROVE  ReachInv'
<1>1. requests[q].before \in Nat
  BY DEF ChatTypes, AnswerTypes, Asked
<1>2. PICK p \in GetHistory(requests[q].before) :
         requests' = [requests EXCEPT ![q].served = TRUE, ![q].page = p]
  BY DEF Served
<1>3. /\ UNCHANGED <<messages, cursor, loaded, outdated, crossed>>
      /\ \A u \in Request \ {q} : requests'[u] = requests[u]
      /\ requests'[q].kind = requests[q].kind
      /\ requests'[q].before = requests[q].before /\ requests'[q].page = p
  BY <1>2 DEF Served, store, history, ChatTypes, AnswerTypes, Asked
<1>4. Covers(p, {m \in loaded : m < requests[q].before})
  BY <1>1, <1>2, HistoryAnswers
     DEF ChatTypes, ReadsAreSaved, PageOfHistory, Covers
<1>5. OlderAreReachable'
  BY <1>3 DEF ReachInv, OlderAreReachable, ToSet
<1>6. ASSUME NEW u \in Request, ~crossed PROVE Adjoins(u)'
  <2>1. CASE u = q
    BY <1>3, <1>4, <1>6, <2>1 DEF ReachInv, Adjoining, Adjoins
  <2>2. CASE u # q
    BY <1>3, <1>6, <2>2 DEF ReachInv, Adjoining, Adjoins
  <2> QED
    BY <2>1, <2>2
<1> QED
  BY <1>3, <1>5, <1>6 DEF ReachInv, Adjoining

\* A page in front joins what is shown to what is below its cursor.
LEMMA MoreReaches ==
    ASSUME ChatTypes, ReachInv, NEW q \in Request, MoreApplied(q)
    PROVE  ReachInv'
<1> DEFINE r == requests[q]
<1>1. PICK s \in Seq(Nat) :
         /\ messages' = s \o messages
         /\ ToSet(s) = ToSet(r.page.rows) \ ToSet(messages)
  BY OlderRows
<1>2. ToSet(r.page.rows) \cup ToSet(messages) \subseteq ToSet(messages')
  <2>1. ToSet(s) \cup ToSet(messages) \subseteq ToSet(messages')
    BY <1>1, ConcatHasBoth DEF ChatTypes, StoreTypes
  <2> QED
    BY <1>1, <2>1
<1>3. /\ UNCHANGED <<loaded, outdated>> /\ cursor' = r.page.next
      /\ ~crossed' => ~crossed /\ q \notin outdated
      /\ r.kind = "more" /\ r.served
      /\ \A u \in Request : requests'[u] = requests[u] \/ requests'[u] = Idle
  BY DEF MoreApplied, Ends, ChatTypes, AnswerTypes
<1>4. ASSUME ~crossed', NEW m \in loaded
      PROVE  m \in ToSet(messages') \/ m < r.page.next
  <2>1. Adjoins(q)
    BY <1>3, <1>4 DEF ReachInv, Adjoining
  <2>2. m \in ToSet(messages) \/ m < r.before
    BY <1>3, <1>4, <2>1 DEF Adjoins
  <2>3. m < r.before => m \in ToSet(r.page.rows) \/ m < r.page.next
    BY <1>3, <1>4, <2>1 DEF Adjoins, Covers
  <2> QED
    BY <1>2, <2>2, <2>3
<1>5. OlderAreReachable'
  BY <1>3, <1>4 DEF OlderAreReachable
<1>6. ASSUME NEW u \in Request, ~crossed' PROVE Adjoins(u)'
  <2>1. CASE requests'[u] = requests[u]
    BY <1>2, <1>3, <1>6, <2>1 DEF ReachInv, Adjoining, Adjoins
  <2>2. CASE requests'[u] = Idle
    BY <2>2 DEF Adjoins, Idle
  <2> QED
    BY <1>3, <2>1, <2>2
<1> QED
  BY <1>5, <1>6 DEF ReachInv, Adjoining

LEMMA ReachStep ==
    ASSUME ChatTypes, ReadsAreSaved, ReachInv, [ChatNext]_chatVars
    PROVE  ReachInv'
<1> USE DEF table, socket, firstLoad, store, history
<1>1. CASE SaveBegins \/ Enter \/ RoomLoaded \/ FirstServed \/ FirstFailed
           \/ ConnectOrDrop \/ SwitchTabs \/ UNCHANGED chatVars
  <2>1. UNCHANGED <<messages, cursor, loaded, outdated, crossed, requests>>
    BY <1>1 DEF SaveBegins, Enter, RoomLoaded, FirstServed, FirstFailed,
                ConnectOrDrop, SwitchTabs, chatVars
  <2> QED
    BY <2>1, GrowthReaches DEF ToSet
<1>2. ASSUME NEW m \in 1..begun, SaveCommits(m) \/ Broadcast(m)
      PROVE  ReachInv'
  <2>1. UNCHANGED <<messages, cursor, loaded, outdated, crossed, requests>>
    BY <1>2 DEF SaveCommits, Broadcast
  <2> QED
    BY <2>1, GrowthReaches DEF ToSet
<1>3. CASE FirstApplied
  BY <1>3, ReplaceReaches DEF FirstApplied, ChatTypes, AnswerTypes
<1>4. CASE LeavePage
  BY <1>4 DEF LeavePage, ReachInv, OlderAreReachable, Adjoining, Adjoins,
              Covers
<1>5. CASE Receive
  <2>1. Head(net) \in Nat
    BY <1>5 DEF Receive, ChatTypes, ServerTypes
  <2>2. ToSet(messages) \subseteq ToSet(messages')
    BY <1>5, <2>1, AppendAdds DEF Receive, Adds, ChatTypes, StoreTypes
  <2>3. UNCHANGED <<cursor, loaded, outdated, crossed, requests>>
    BY <1>5 DEF Receive
  <2> QED
    BY <2>2, <2>3, GrowthReaches
<1>6. ASSUME NEW q \in Request, Retry(q) \/ LoadMore(q) PROVE ReachInv'
  BY <1>6, AskReaches
<1>7. ASSUME NEW q \in Request, Served(q) PROVE ReachInv'
  BY <1>7, ServedReaches
<1>8. ASSUME NEW q \in Request, Ends(q)
      PROVE  \A u \in Request :
                requests'[u] = requests[u] \/ requests'[u] = Idle
  BY <1>8 DEF Ends, ChatTypes, AnswerTypes
<1>9. ASSUME NEW q \in Request, RetryApplied(q) PROVE ReachInv'
  <2>1. requests[q].page \in PageOfHistory
    BY DEF ChatTypes, AnswerTypes, Asked
  <2> QED
    BY <1>8, <1>9, <2>1, ReplaceReaches DEF RetryApplied
<1>10. ASSUME NEW q \in Request, MoreApplied(q) PROVE ReachInv'
  BY <1>10, MoreReaches
<1>11. ASSUME NEW q \in Request, RequestFailed(q) PROVE ReachInv'
  <2>1. UNCHANGED <<messages, cursor, loaded, outdated, crossed>>
    BY <1>11 DEF RequestFailed
  <2> QED
    BY <1>8, <1>11, <2>1, GrowthReaches DEF RequestFailed, ToSet
<1> QED
  BY <1>1, <1>2, <1>3, <1>4, <1>5, <1>6, <1>7, <1>9, <1>10, <1>11 DEF ChatNext

\* Scrolling up leaves no hole: every message that was in the table when the
\* last full load read it is on the screen or below the cursor, unless a page
\* asked for before that load was put in front of it. Messages are numbered
\* when their transactions begin and may commit in any order.
THEOREM NoHoleInTheHistory == ChatSpec => []OlderAreReachable
<1>1. ChatInit => ReadsAreSaved /\ ReachInv
  BY InitReach
<1>2. ChatTypes /\ ReadsAreSaved /\ [ChatNext]_chatVars => ReadsAreSaved'
  BY ReadsAreSavedStep
<1>3. ChatTypes /\ ReadsAreSaved /\ ReachInv /\ [ChatNext]_chatVars => ReachInv'
  BY ReachStep
<1>4. ReachInv => OlderAreReachable
  BY DEF ReachInv
<1> QED
  BY <1>1, <1>2, <1>3, <1>4, ChatTyped, PTL DEF ChatSpec
=============================================================================
