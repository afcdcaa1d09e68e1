-------------------------------- MODULE Stage --------------------------------
(***************************************************************************)
(* The player as the user handles it: fullscreen (hooks/useFullscreen.ts), *)
(* the control bar that hides itself (VideoArea.tsx), clicks and taps that *)
(* wait for a possible second one (VideoPlayer.tsx), the keyboard and the  *)
(* scrubber (PlaybackControls.tsx), while the room, the host and the       *)
(* browser go on with theirs.                                              *)
(*                                                                         *)
(* React renders between two events, but a handler that a timer calls is   *)
(* the one of the render in which the timer was set, and the element fires *)
(* `play' and `pause' some time after it has changed.                      *)
(*                                                                         *)
(* Not covered: positions and volume, the hint's wording, and whether a    *)
(* command reaches the room (Player).                                      *)
(***************************************************************************)
EXTENDS Naturals

VARIABLES
    native,         \* the browser has a Fullscreen API for the stage
    file,           \* a file is loaded: the player is on the page
    control,        \* canControl, while there is a file: the host is not away
    paused, due,    \* the element, and the events it has yet to fire
    fullscreen,     \* pseudo or real
    request,        \* asked of the browser: to enter or to leave
    isPlaying,      \* what VideoArea was told by the element's events
    visible,        \* controlsVisible
    hide,           \* hideTimerRef: the idle countdown runs
    pointer,        \* lastPointerTypeRef
    click,          \* the debounced click, as the set of its closure
    hands, seeking, \* what holds the scrubber; isSeeking
    late,           \* something ran in this fullscreen that had been overtaken
    loose           \* isSeeking was left with nothing that would end it

media == <<file, paused, due>>
screen == <<fullscreen, request>>
bar == <<isPlaying, visible, hide, late>>
taps == <<pointer, click>>
scrubber == <<hands, seeking, loose>>
stageVars == <<native, control, media, screen, bar, taps, scrubber>>

StageInit ==
    /\ native \in BOOLEAN
    /\ file = FALSE /\ control = TRUE
    /\ paused = TRUE /\ due = {}
    /\ fullscreen = FALSE /\ request = "none"
    /\ isPlaying = FALSE /\ visible = TRUE /\ hide = FALSE
    /\ pointer = "mouse" /\ click = {}
    /\ hands = {} /\ seeking = FALSE
    /\ late = FALSE /\ loose = FALSE

--------------------------------------------------------------------------
(* The control bar *)

\* A countdown that starts with the playback only.
RearmOnPlay ==
    IF isPlaying' # isPlaying
    THEN hide' = (fullscreen' /\ isPlaying')
    ELSE hide' = (hide /\ fullscreen')

(* The effect on isFullscreen and isPlaying. *)
Rearm ==
    IF fullscreen' # fullscreen \/ isPlaying' # isPlaying
    THEN hide' = (fullscreen' /\ isPlaying')
    ELSE UNCHANGED hide

(* revealControls in the closure of render r. *)
Reveal(r) ==
    /\ visible' = TRUE
    /\ hide' = (hide \/ (r.full /\ r.playing))

(* The controls are on the page with the player, and fade in fullscreen. *)
ControlsShown == file /\ (fullscreen => visible)

(* What the handlers of the present render see. *)
ThisRender ==
    [full |-> fullscreen, playing |-> isPlaying, visible |-> visible,
     control |-> control]

MouseMove ==
    /\ fullscreen
    /\ Reveal(ThisRender)
    /\ UNCHANGED <<native, control, media, screen, isPlaying, late, taps,
                   scrubber>>

HideTimerFires ==
    /\ hide
    /\ hide' = FALSE /\ visible' = FALSE
    /\ UNCHANGED <<native, control, media, screen, isPlaying, late, taps,
                   scrubber>>

--------------------------------------------------------------------------
(* The element *)

Plays ==
    /\ file /\ paused
    /\ paused' = FALSE /\ due' = due \cup {"play"}

Pauses ==
    /\ file /\ ~paused
    /\ paused' = TRUE /\ due' = due \cup {"pause"}

(* The room's state is applied, or the film ends. *)
RoomDrives ==
    /\ Plays \/ Pauses
    /\ UNCHANGED <<native, control, file, screen, bar, taps, scrubber>>

(* A click or Space, with the socket up or down. *)
TogglePlayback(allowed) ==
    IF allowed
    THEN Plays \/ Pauses \/ UNCHANGED <<paused, due>>
    ELSE UNCHANGED <<paused, due>>  \* a hint that a file is needed

Space ==
    /\ file
    /\ TogglePlayback(control)
    /\ UNCHANGED <<native, control, file, screen, bar, taps, scrubber>>

PlayEvent ==
    /\ "play" \in due
    /\ due' = due \ {"play"}
    /\ isPlaying' = ~paused
    /\ UNCHANGED screen /\ Rearm
    /\ UNCHANGED <<native, control, file, paused, visible, late, taps,
                   scrubber>>

\* Without showBar.
PauseEventOnly ==
    /\ "pause" \in due
    /\ due' = due \ {"pause"}
    /\ isPlaying' = ~paused
    /\ UNCHANGED screen /\ Rearm
    /\ UNCHANGED <<native, control, file, paused, visible, late, taps,
                   scrubber>>

(* It pins the bar, though the element may play again by now. *)
PauseEvent ==
    /\ "pause" \in due
    /\ due' = due \ {"pause"}
    /\ isPlaying' = ~paused
    /\ visible' = TRUE
    /\ UNCHANGED screen /\ Rearm
    /\ late' = (late \/ (fullscreen /\ isPlaying /\ ~paused))
    /\ UNCHANGED <<native, control, file, paused, taps, scrubber>>

(* canplay: the effect on videoReady asks the element again. *)
VideoReady ==
    /\ file
    /\ isPlaying' = ~paused
    /\ UNCHANGED screen /\ Rearm
    /\ UNCHANGED <<native, control, media, visible, late, taps, scrubber>>

--------------------------------------------------------------------------
(* Fullscreen *)

(* What is late in one fullscreen is forgotten in the next. *)
Forgets == late' = (late /\ (fullscreen' \/ ~fullscreen))

ToggleFullscreen ==
    /\ visible' = TRUE
    /\ IF native
       THEN /\ request' = IF fullscreen THEN "exit" ELSE "enter"
            /\ UNCHANGED fullscreen
       ELSE /\ fullscreen' = ~fullscreen
            /\ UNCHANGED request
    /\ UNCHANGED isPlaying
    /\ Rearm /\ Forgets

(* KeyF or the button. *)
PressFullscreen ==
    /\ file
    /\ ToggleFullscreen
    /\ UNCHANGED <<native, control, media, taps, scrubber>>

(* The browser grants a request; it may be one of a player that is gone. *)
Entered ==
    /\ request = "enter"
    /\ request' = "none" /\ fullscreen' = TRUE
    /\ UNCHANGED isPlaying
    /\ Rearm
    /\ late' = (late \/ ~file)
    /\ UNCHANGED <<native, control, media, visible, taps, scrubber>>

Refused ==
    /\ request = "enter"
    /\ request' = "none"
    /\ UNCHANGED <<native, control, media, fullscreen, bar, taps, scrubber>>

(* exitFullscreen is done, or the user presses Escape. *)
Exited ==
    /\ fullscreen
    /\ fullscreen' = FALSE /\ request' = "none"
    /\ UNCHANGED isPlaying
    /\ Rearm /\ Forgets
    /\ UNCHANGED <<native, control, media, visible, taps, scrubber>>

--------------------------------------------------------------------------
(* Clicks and taps *)

PointerDown(p) ==
    /\ file
    /\ pointer' = p
    /\ UNCHANGED <<native, control, media, screen, bar, click, scrubber>>

Click ==
    /\ file
    /\ click' = {ThisRender}
    /\ UNCHANGED <<native, control, media, screen, bar, pointer, scrubber>>

DoubleClick ==
    /\ click # {}
    /\ click' = {}
    /\ ToggleFullscreen
    /\ UNCHANGED <<native, control, media, pointer, scrubber>>

(* handleVideoTap in the closure of render r. *)
VideoTap(r) ==
    /\ IF r.full /\ r.visible /\ r.playing
       THEN hide' = FALSE /\ visible' = FALSE
       ELSE Reveal(r)
    /\ late' = (late \/ r.full # fullscreen \/ r.playing # isPlaying)
    /\ UNCHANGED <<paused, due>>

(* The 220 ms are over. *)
ClickTimerFires ==
    \E r \in click :
       /\ click' = {}
       /\ IF pointer = "touch"
          THEN VideoTap(r)
          ELSE TogglePlayback(r.control) /\ UNCHANGED <<visible, hide, late>>
       /\ UNCHANGED <<native, control, file, screen, isPlaying, pointer,
                      scrubber>>

--------------------------------------------------------------------------
(* The scrubber *)

Hand == {"pointer", "touch", "key"}

(* handleSeekStart: on a disabled input React calls the touch handlers     *)
(* only, and the browser sends it no keys.                                 *)
Heard(h) == control \/ h = "touch"

SeekStart(h) ==
    /\ file /\ h \notin hands /\ Heard(h)
    /\ hands' = hands \cup {h} /\ seeking' = TRUE
    /\ UNCHANGED <<native, control, media, screen, bar, taps, loose>>

(* handleSeekChange: a gesture goes on after a blur, or after another hand *)
(* let go; an assistive technology moves the scrubber without a gesture.   *)
SeekChange ==
    /\ file /\ control
    /\ seeking' = TRUE
    /\ loose' = (loose \/ hands = {})
    /\ UNCHANGED <<native, control, media, screen, bar, taps, hands>>

\* The refusal of a seek comes first.
SeekEndIfAllowed ==
    /\ seeking' = (seeking /\ ~control)
    /\ loose' = FALSE

(* handleSeekEnd: committed or taken back, it is over. *)
SeekEnd ==
    /\ seeking' = FALSE
    /\ loose' = FALSE

(* syncState copies the element's position. *)
Follows == ~seeking

(* mouseup, touchend or keyup. *)
Release(h) ==
    /\ h \in hands /\ Heard(h)
    /\ hands' = hands \ {h}
    /\ SeekEnd
    /\ UNCHANGED <<native, control, media, screen, bar, taps>>

(* The input was disabled meanwhile, or the browser took the gesture away: *)
(* nothing listens to touchcancel.                                         *)
ReleaseUnheard(h) ==
    /\ h \in hands
    /\ hands' = hands \ {h}
    /\ loose' = seeking
    /\ UNCHANGED <<native, control, media, screen, bar, taps, seeking>>

Blur ==
    /\ seeking
    /\ SeekEnd
    /\ UNCHANGED <<native, control, media, screen, bar, taps, hands>>

--------------------------------------------------------------------------
(* The host and the file *)

HostComesOrGoes ==
    /\ control' = ~control
    /\ UNCHANGED <<native, media, screen, bar, taps, scrubber>>

(* The surface is about to disappear: exit(). A request that is still     *)
(* waiting has no fullscreen element yet.                                 *)
Exit ==
    IF native
    THEN /\ request' = IF fullscreen THEN "exit" ELSE request
         /\ UNCHANGED fullscreen
    ELSE fullscreen' = FALSE /\ UNCHANGED request

(* Player and controls are unmounted; VideoArea keeps its own state. *)
FileDropped ==
    /\ file
    /\ file' = FALSE /\ paused' = TRUE /\ due' = {}
    /\ click' = {}
    /\ hands' = {} /\ seeking' = FALSE /\ loose' = FALSE
    /\ Exit
    /\ UNCHANGED isPlaying
    /\ Rearm /\ Forgets
    /\ UNCHANGED <<native, control, visible, pointer>>

FileLoaded ==
    /\ ~file
    /\ file' = TRUE
    /\ isPlaying' = FALSE
    /\ UNCHANGED fullscreen
    /\ Rearm
    /\ UNCHANGED <<native, control, paused, due, request, visible, late,
                   taps, scrubber>>

--------------------------------------------------------------------------
StageNext ==
    \/ MouseMove \/ HideTimerFires
    \/ RoomDrives \/ Space \/ PlayEvent \/ PauseEvent \/ VideoReady
    \/ PressFullscreen \/ Entered \/ Refused \/ Exited
    \/ (\E p \in {"mouse", "touch"} : PointerDown(p))
    \/ Click \/ DoubleClick \/ ClickTimerFires
    \/ (\E h \in Hand : SeekStart(h) \/ Release(h) \/ ReleaseUnheard(h))
    \/ SeekChange \/ Blur
    \/ HostComesOrGoes \/ FileDropped \/ FileLoaded

StageSpec == StageInit /\ [][StageNext]_stageVars

--------------------------------------------------------------------------
(* Whoever looks at a paused film in fullscreen has the controls, unless  *)
(* a tap was overtaken by a pause within its 220 ms or the stage became   *)
(* fullscreen for a player that had gone: showBar, the idle countdown and *)
(* the toggle must agree in whatever order the room, the host, the        *)
(* browser and the user act.                                              *)
PausedHasControls ==
    file /\ fullscreen /\ request # "exit" /\ paused /\ due = {} /\ ~late =>
        ControlsShown

(* A bar over a film that plays in fullscreen goes away by itself, unless *)
(* what showed it had been overtaken: its countdown runs.                 *)
IdleBarHides ==
    fullscreen /\ request # "exit" /\ isPlaying /\ ControlsShown /\ ~late =>
        hide

(* A scrubber nobody holds follows the film again, after a drag, a touch   *)
(* or an arrow key, and whatever the host did meanwhile: unless the input  *)
(* did not hear the last hand let go (it was disabled, or the browser took *)
(* the gesture away) or it was moved with no hand on it, until it is       *)
(* used or left the next time.                                             *)
ScrubberFollows == hands = {} /\ ~loose => Follows
=============================================================================
