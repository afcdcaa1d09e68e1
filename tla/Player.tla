-------------------------------- MODULE Player --------------------------------
(***************************************************************************)
(* The video element of one participant and the shared playback state:     *)
(* useVideoSync, the play controls of RoomPage and PlaybackControls, and   *)
(* the part of the server that answers them.                               *)
(*                                                                         *)
(* The promises that play() returns settle later than the call; pausing or *)
(* unloading the element rejects those that are still pending.             *)
(*                                                                         *)
(* Left out: positions; the end of the film; media keys, which reach the   *)
(* element without the page.  Broadcasts arrive in order (RoomStream).  A  *)
(* file is loaded as LocalFile says; the ticket, the grace periods and the *)
(* membership are in RoomSession.                                          *)
(***************************************************************************)
EXTENDS Naturals, Sequences

CONSTANTS MaxVersion,   \* bound: file versions of the room
          MaxMessages   \* bound: messages on their way, both directions

ASSUME BoundsAssumption == MaxVersion \in Nat \ {0} /\ MaxMessages \in Nat

VARIABLES
    roomPlaying, roomVersion, closing,  \* RoomState
    verified, isReady,      \* verified_users, room_participants.is_ready
    socket, hasConnected, commands, inbox,
    video,                  \* the element: none, or what it has of the file
    paused,                 \* video.paused
    pending,                \* whose promises of play() are pending
    aborted,                \* the rejection of a sync's promise is on its way
    nudged, nudgeTimer,     \* playbackRate is not 1, nudgeTimerRef is set
    fileVersion,            \* of the page
    snapshot,               \* lastSyncSnapshotRef; isRoomPlayingRef with it
    autoplayBlocked,
    hostDisconnected,
    refused,                \* history: a command was dropped, no sync since
    unheard                 \* history: an announcement was, no later one heard

room == <<roomPlaying, roomVersion, closing>>
member == <<verified, isReady>>
link == <<socket, hasConnected>>
net == <<link, commands, inbox>>
element == <<video, paused, pending, aborted>>
nudge == <<nudged, nudgeTimer>>
page == <<fileVersion, snapshot, hostDisconnected>>
client == <<element, nudge, page, autoplayBlocked>>
lost == <<refused, unheard>>
vars == <<room, member, net, client, lost>>

Init ==
    /\ roomPlaying \in BOOLEAN /\ roomVersion = 1 /\ closing = FALSE
    /\ verified = FALSE /\ isReady = FALSE
    /\ socket = FALSE /\ hasConnected = FALSE
    /\ commands = <<>> /\ inbox = <<>>
    /\ video = "none" /\ paused = TRUE /\ pending = {} /\ aborted = FALSE
    /\ nudged = FALSE /\ nudgeTimer = FALSE
    /\ fileVersion = 0 /\ snapshot = [playing |-> FALSE, version |-> 0]
    /\ autoplayBlocked = FALSE /\ hostDisconnected = FALSE
    /\ refused = FALSE /\ unheard = FALSE

--------------------------------------------------------------------------
(* Messages *)

Message(kind) ==
    [kind |-> kind, playing |-> roomPlaying', version |-> roomVersion',
     away |-> closing']
Space == Len(commands) + Len(inbox) < MaxMessages

\* send() of useWebSocket.
Sends(kind, version) ==
    /\ socket => Space
    /\ commands' = IF socket THEN Append(commands, <<kind, version>>)
                   ELSE commands

\* A message of the server to this participant, in the state after the step.
Tells(kinds) ==
    inbox' = IF socket
             THEN inbox \o [i \in DOMAIN kinds |-> Message(kinds[i])]
             ELSE inbox

--------------------------------------------------------------------------
(* The element *)

Loaded == video # "none"
CanControl == Loaded /\ ~hostDisconnected

\* video.pause(), which does nothing to a paused element.
Pauses ==
    /\ paused' = TRUE
    /\ aborted' = (aborted \/ "sync" \in pending)
    /\ pending' = {}

\* video.play(), allowed by the browser.
Plays(who) ==
    /\ paused' = FALSE
    /\ pending' = pending \cup {who}
    /\ UNCHANGED aborted

AppliesSilently(playing) ==
    \/ playing = ~paused /\ UNCHANGED <<paused, pending, aborted, autoplayBlocked>>
    \/ playing /\ paused /\ Plays("sync") /\ UNCHANGED autoplayBlocked
    \/ playing /\ UNCHANGED <<paused, pending, aborted, autoplayBlocked>>
    \/ ~playing /\ Pauses /\ autoplayBlocked' = FALSE

\* A sync state is applied to the element: by the message, or again by the
\* canplay event.  Without a user gesture the browser may refuse to play.
Applies(playing) ==
    \/ playing /\ ~paused /\ UNCHANGED <<paused, pending, aborted, autoplayBlocked>>
    \/ playing /\ paused /\ Plays("sync") /\ UNCHANGED autoplayBlocked
    \/ /\ playing /\ paused
       /\ autoplayBlocked' = TRUE
       /\ UNCHANGED <<paused, pending, aborted>>
    \/ ~playing /\ Pauses /\ autoplayBlocked' = FALSE

\* setFileUrl(null): the element goes, and rejects like a paused one.
DropsVideo ==
    /\ video' = "none" /\ paused' = TRUE /\ pending' = {}
    /\ aborted' = (aborted \/ "sync" \in pending)
    /\ nudged' = FALSE

--------------------------------------------------------------------------
(* The user *)

\* Space, the button or a click on the picture.
TogglePlay ==
    /\ CanControl /\ socket
    /\ IF paused THEN Sends("play", fileVersion) /\ Plays("user")
       ELSE Sends("pause", fileVersion) /\ Pauses
    /\ UNCHANGED <<room, member, link, inbox, video, nudge, page,
                   autoplayBlocked, lost>>

SkipBy ==
    /\ CanControl /\ socket
    /\ Sends("seek", fileVersion)
    /\ UNCHANGED <<room, member, link, inbox, client, lost>>

\* The button of the overlay: a paused room only takes the overlay away.
ResumePlayback ==
    /\ Loaded /\ autoplayBlocked
    /\ IF snapshot.playing
       THEN Plays("resume") /\ UNCHANGED autoplayBlocked
       ELSE autoplayBlocked' = FALSE /\ UNCHANGED <<paused, pending, aborted>>
    /\ UNCHANGED <<room, member, net, video, nudge, page, lost>>

--------------------------------------------------------------------------
(* The browser *)

\* then(): the overlay goes, but a user's own play() does not take it away.
PromiseResolves ==
    /\ video = "ready" /\ pending # {}
    /\ pending' = {}
    /\ autoplayBlocked' = (autoplayBlocked /\ pending = {"user"})
    /\ UNCHANGED <<room, member, net, video, paused, aborted, nudge, page,
                   lost>>

\* catch() of a sync.
PromiseRejects ==
    /\ aborted
    /\ aborted' = FALSE
    /\ autoplayBlocked' = TRUE
    /\ UNCHANGED <<room, member, net, video, paused, pending, nudge, page,
                   lost>>

Load ==
    /\ ~Loaded /\ fileVersion > 0
    /\ video' = "loading"
    /\ verified' = (verified \/ fileVersion = roomVersion)
    /\ UNCHANGED <<room, isReady, net, paused, pending, aborted, nudge, page,
                   autoplayBlocked, lost>>

\* handleVideoCanPlay: announces the file, then applies the snapshot again.
CanPlay ==
    /\ video = "loading"
    /\ video' = "ready"
    /\ Sends("ready", fileVersion)
    /\ IF snapshot.version = fileVersion
       THEN Applies(snapshot.playing)
       ELSE UNCHANGED <<paused, pending, aborted, autoplayBlocked>>
    /\ UNCHANGED <<room, member, link, inbox, nudge, page, lost>>

\* A seek, or an empty buffer: canplay comes again.
Stall ==
    /\ video = "ready"
    /\ video' = "loading"
    /\ UNCHANGED <<room, member, net, paused, pending, aborted, nudge, page,
                   autoplayBlocked, lost>>

NudgeTimerForgets ==
    /\ nudgeTimer
    /\ nudgeTimer' = FALSE
    /\ UNCHANGED <<room, member, net, element, nudged, page, autoplayBlocked,
                   lost>>

NudgeTimerFires ==
    /\ nudgeTimer
    /\ nudgeTimer' = FALSE /\ nudged' = FALSE
    /\ UNCHANGED <<room, member, net, element, page, autoplayBlocked,
                   lost>>

--------------------------------------------------------------------------
(* The messages of the server *)

Receives(kind) ==
    /\ inbox # <<>> /\ Head(inbox).kind = kind
    /\ inbox' = Tail(inbox)

SyncState ==
    /\ Receives("state")
    /\ LET m == Head(inbox)
           mine == Loaded /\ m.version = fileVersion IN
        /\ snapshot' = [playing |-> m.playing, version |-> m.version]
        /\ refused' = (refused /\ ~mine)
        /\ IF mine THEN Applies(m.playing)
           ELSE UNCHANGED <<paused, pending, aborted, autoplayBlocked>>
    /\ UNCHANGED <<room, member, link, commands, video, nudge, fileVersion,
                   hostDisconnected, unheard>>

\* The version of the message is compared with that of the last render.
RoomSnapshot ==
    /\ Receives("room")
    /\ LET m == Head(inbox)
           mine == Loaded /\ m.version = fileVersion IN
        /\ fileVersion' = m.version
        /\ hostDisconnected' = m.away
        /\ snapshot' = [playing |-> m.playing, version |-> m.version]
        /\ refused' = (refused /\ ~mine)
        /\ IF mine THEN Applies(m.playing) /\ UNCHANGED <<video, nudged>>
           ELSE /\ IF fileVersion > 0 /\ m.version # fileVersion
                   THEN DropsVideo ELSE UNCHANGED <<element, nudged>>
                /\ UNCHANGED autoplayBlocked
    /\ UNCHANGED <<room, member, link, commands, nudgeTimer, unheard>>

FileChanged ==
    /\ Receives("changed")
    /\ fileVersion' = Head(inbox).version
    /\ DropsVideo
    /\ UNCHANGED <<room, member, link, commands, nudgeTimer, snapshot,
                   hostDisconnected, autoplayBlocked, lost>>

HostNotice ==
    /\ Receives("away") \/ Receives("back")
    /\ hostDisconnected' = (Head(inbox).kind = "away")
    /\ UNCHANGED <<room, member, link, commands, element, nudge, fileVersion,
                   snapshot, autoplayBlocked, lost>>

\* sync_check: the report says whether the element can be corrected.
Report ==
    /\ Receives("check")
    /\ commands' = IF Loaded
                   THEN Append(commands,
                               <<IF autoplayBlocked \/ (video = "loading" /\ ~paused)
                                 THEN "cannot" ELSE "report", 0>>)
                   ELSE commands
    /\ UNCHANGED <<room, member, link, client, lost>>

PlaybackRate ==
    /\ Receives("rate")
    /\ IF Loaded THEN nudged' = TRUE /\ nudgeTimer' = TRUE ELSE UNCHANGED nudge
    /\ UNCHANGED <<room, member, link, commands, element, page,
                   autoplayBlocked, lost>>

--------------------------------------------------------------------------
(* The server and the other participants *)

Serves(kinds) ==
    /\ commands # <<>> /\ Head(commands)[1] \in kinds
    /\ commands' = Tail(commands)

\* apply_play, apply_pause, apply_seek, and the broadcast to everybody.
Control ==
    /\ Serves({"play", "pause", "seek"})
    /\ ~closing /\ Head(commands)[2] = roomVersion
    /\ roomPlaying' = CASE Head(commands)[1] = "play" -> TRUE
                        [] Head(commands)[1] = "pause" -> FALSE
                        [] OTHER -> roomPlaying
    /\ UNCHANGED <<roomVersion, closing>>
    /\ Tells(<<"state">>)
    /\ UNCHANGED <<member, link, client, lost>>

\* A limiter, the grace window or the version stops the command: nobody is
\* told where the room stands.
RefuseControl ==
    /\ Serves({"play", "pause", "seek"})
    /\ refused' = (refused \/ Head(commands)[1] # "seek")
    /\ UNCHANGED <<room, member, link, inbox, client, unheard>>

\* _msg_limiter: over the cap a message is dropped without a word, whatever it
\* is. Nobody sends it again, nor what it would have been answered with: the
\* state of the file that is announced.
DropsMessage ==
    /\ commands # <<>>
    /\ commands' = Tail(commands)
    /\ LET kind == Head(commands)[1]
           awaited == kind = "ready" /\ snapshot.version # fileVersion IN
        /\ refused' = (refused \/ kind \in {"play", "pause"} \/ awaited)
        /\ unheard' = (unheard \/ kind = "ready")
    /\ UNCHANGED <<room, member, link, inbox, client>>

Ready ==
    /\ Serves({"ready"})
    /\ UNCHANGED room
    /\ IF Head(commands)[2] = roomVersion /\ verified
       THEN isReady' = TRUE /\ unheard' = FALSE /\ Tells(<<"state">>)
       ELSE UNCHANGED <<isReady, unheard, inbox>>
    /\ UNCHANGED <<verified, link, client, refused>>

\* evaluate_drift; sync_correction moves the position only.
EvaluateDrift ==
    /\ Serves({"report", "cannot"})
    /\ UNCHANGED room
    /\ \/ UNCHANGED inbox
       \/ roomPlaying /\ Head(commands)[1] = "report" /\ Tells(<<"rate">>)
    /\ UNCHANGED <<member, link, client, lost>>

\* The message sent when the socket opens.
Reconnect ==
    /\ Serves({"reconnect"})
    /\ UNCHANGED room
    /\ IF Head(commands)[2] # roomVersion THEN Tells(<<"state">>)
       ELSE UNCHANGED inbox
    /\ UNCHANGED <<member, link, client, lost>>

Others ==
    /\ Space
    /\ ~closing
    /\ roomPlaying' \in BOOLEAN
    /\ UNCHANGED <<roomVersion, closing>>
    /\ Tells(<<"state">>)
    /\ UNCHANGED <<member, link, commands, client, lost>>

HostChangesFile ==
    /\ Space
    /\ ~closing /\ roomVersion < MaxVersion
    /\ roomVersion' = roomVersion + 1 /\ roomPlaying' = FALSE
    /\ verified' = FALSE /\ isReady' = FALSE
    /\ UNCHANGED closing
    /\ Tells(<<"changed">>)
    /\ UNCHANGED <<link, commands, client, lost>>

\* The autopause is broadcast before the notice.
HostLeaves ==
    /\ Space
    /\ ~closing
    /\ closing' = TRUE /\ roomPlaying' = FALSE
    /\ UNCHANGED roomVersion
    /\ Tells(<<"state", "away">>)
    /\ UNCHANGED <<member, link, commands, client, lost>>

HostReturns ==
    /\ Space
    /\ closing
    /\ closing' = FALSE
    /\ UNCHANGED <<roomPlaying, roomVersion>>
    /\ Tells(<<"back">>)
    /\ UNCHANGED <<member, link, commands, client, lost>>

Heartbeat ==
    /\ Space
    /\ roomPlaying
    /\ UNCHANGED room
    /\ Tells(<<"check">>)
    /\ UNCHANGED <<member, link, commands, client, lost>>

--------------------------------------------------------------------------
(* The connection *)

Drop ==
    /\ socket
    /\ socket' = FALSE /\ commands' = <<>> /\ inbox' = <<>>
    /\ UNCHANGED <<room, member, hasConnected, client, lost>>

\* room_states is lost; is_ready and file_version are in the database.
ServerRestarts ==
    /\ socket' = FALSE /\ commands' = <<>> /\ inbox' = <<>>
    /\ roomPlaying' = FALSE /\ closing' = FALSE /\ verified' = FALSE
    /\ UNCHANGED <<roomVersion, isReady, hasConnected, client, lost>>

\* Sent by every socket but the first.
Again == IF hasConnected THEN <<<<"reconnect", fileVersion>>>> ELSE <<>>

ConnectSilently ==
    /\ ~socket
    /\ socket' = TRUE /\ hasConnected' = TRUE
    /\ UNCHANGED room
    /\ inbox' = <<Message("room")>>
    /\ commands' = Again
    /\ UNCHANGED <<member, client, lost>>

\* The page announces a file that is loaded already.
Connect ==
    /\ ~socket
    /\ socket' = TRUE /\ hasConnected' = TRUE
    /\ UNCHANGED room
    /\ inbox' = <<Message("room")>>
    /\ commands' = Again \o
                   (IF video = "ready" THEN <<<<"ready", fileVersion>>>> ELSE <<>>)
    /\ UNCHANGED <<member, client, lost>>

--------------------------------------------------------------------------

Next ==
    \/ TogglePlay \/ SkipBy \/ ResumePlayback
    \/ PromiseResolves \/ PromiseRejects \/ Load \/ CanPlay \/ Stall
    \/ NudgeTimerFires
    \/ SyncState \/ RoomSnapshot \/ FileChanged \/ HostNotice \/ Report
    \/ PlaybackRate
    \/ Control \/ RefuseControl \/ DropsMessage \/ Ready \/ EvaluateDrift \/ Reconnect
    \/ Others \/ HostChangesFile \/ HostLeaves \/ HostReturns \/ Heartbeat
    \/ Drop \/ ServerRestarts \/ Connect

Spec == Init /\ [][Next]_vars

--------------------------------------------------------------------------

Version == 0..MaxVersion
MessageType ==
    [kind : {"state", "room", "changed", "check", "rate", "away", "back"},
     playing : BOOLEAN, version : Version, away : BOOLEAN]
CommandType ==
    {"play", "pause", "seek", "ready", "report", "cannot", "reconnect"} \X Version

TypeOK ==
    /\ {roomPlaying, closing, verified, isReady, socket, hasConnected} \subseteq BOOLEAN
    /\ roomVersion \in Version \ {0}
    /\ commands \in Seq(CommandType) /\ inbox \in Seq(MessageType)
    /\ video \in {"none", "loading", "ready"}
    /\ {paused, aborted, nudged, nudgeTimer} \subseteq BOOLEAN
    /\ pending \subseteq {"sync", "user", "resume"}
    /\ fileVersion \in Version
    /\ snapshot \in [playing : BOOLEAN, version : Version]
    /\ {autoplayBlocked, hostDisconnected, refused, unheard} \subseteq BOOLEAN

\* Nothing is on its way between the server, the page and the element.
Quiet ==
    /\ socket /\ commands = <<>> /\ inbox = <<>>
    /\ pending = {} /\ ~aborted
Shows == video = "ready" /\ fileVersion = roomVersion

(* When everything has arrived, the picture runs exactly when the room     *)
(* does, or the user is asked to start it - unless the server has dropped  *)
(* a command of this participant, or the announcement that asks for the    *)
(* state of a new file, and nobody has commanded since.                    *)
InStep ==
    Quiet /\ Shows /\ ~refused =>
        ~paused = roomPlaying \/ (roomPlaying /\ autoplayBlocked)

(* When everything has arrived, a participant whose verified file can play *)
(* counts as ready at the server, whatever the socket and the room's file  *)
(* went through - unless the message cap has swallowed an announcement and *)
(* no later one has been accepted.                                         *)
AnnouncedIsReady == Quiet /\ Shows /\ verified /\ ~unheard => isReady

(* A nudge ends: while the playback rate is not 1 the timer that resets it *)
(* runs, whichever element it was set on.                                  *)
NudgesEnd == nudged => Loaded /\ nudgeTimer

(* A paused room does not ask its viewers to resume.                       *)
NoPromptWhenPaused ==
    Quiet /\ Shows /\ ~refused /\ ~roomPlaying => ~autoplayBlocked
=============================================================================
