---------------------------- MODULE PlayerProofs ----------------------------
(***************************************************************************)
(* Proofs about Player for any number of file versions and of messages:    *)
(* its types, that a nudge ends, that the server counts a participant      *)
(* whose file can play as ready, through every loss of the connection, and *)
(* that the picture follows the room.                                      *)
(***************************************************************************)
EXTENDS Player, TLAPS

--------------------------------------------------------------------------
(* Types *)

RoomOK ==
    /\ roomPlaying \in BOOLEAN /\ closing \in BOOLEAN
    /\ verified \in BOOLEAN /\ isReady \in BOOLEAN
    /\ roomVersion \in Version \ {0}

NetOK ==
    /\ socket \in BOOLEAN /\ hasConnected \in BOOLEAN
    /\ commands \in Seq(CommandType) /\ inbox \in Seq(MessageType)

ElementOK ==
    /\ video \in {"none", "loading", "ready"}
    /\ paused \in BOOLEAN /\ aborted \in BOOLEAN
    /\ pending \subseteq {"sync", "user", "resume"}
    /\ autoplayBlocked \in BOOLEAN

PageOK ==
    /\ nudged \in BOOLEAN /\ nudgeTimer \in BOOLEAN
    /\ fileVersion \in Version
    /\ snapshot \in [playing : BOOLEAN, version : Version]
    /\ hostDisconnected \in BOOLEAN
    /\ refused \in BOOLEAN /\ unheard \in BOOLEAN

TypeInv == RoomOK /\ NetOK /\ ElementOK /\ PageOK

LEMMA TypeInvTypes == TypeInv => TypeOK
  BY DEF TypeInv, TypeOK, RoomOK, NetOK, ElementOK, PageOK

LEMMA VersionFacts == 0 \in Version /\ 1 \in Version \ {0}
  BY BoundsAssumption DEF Version

\* Facts on sequences, without the Booleans of the state.
LEMMA SequencesGrow ==
    ASSUME NEW S, NEW s \in Seq(S), NEW e \in S
    PROVE  Append(s, e) \in Seq(S)
  OBVIOUS

LEMMA SequencesJoin ==
    ASSUME NEW S, NEW s \in Seq(S), NEW t \in Seq(S)
    PROVE  s \o t \in Seq(S)
  OBVIOUS

LEMMA ShortSequences ==
    ASSUME NEW S, NEW d \in S, NEW e \in S
    PROVE  <<>> \in Seq(S) /\ <<e>> \in Seq(S) /\ <<d, e>> \in Seq(S)
  OBVIOUS

LEMMA EmptySequence == ASSUME NEW S PROVE <<>> \in Seq(S)
  OBVIOUS

LEMMA InitTypeInv == Init => TypeInv
<1> SUFFICES ASSUME Init PROVE TypeInv
  OBVIOUS
<1> USE VersionFacts DEF Init
<1>1. RoomOK
  BY DEF RoomOK
<1>2. NetOK
  <2>1. commands \in Seq(CommandType) /\ inbox \in Seq(MessageType)
    BY EmptySequence
  <2> QED
    BY <2>1 DEF NetOK
<1>3. ElementOK /\ PageOK
  BY DEF ElementOK, PageOK
<1> QED
  BY <1>1, <1>2, <1>3 DEF TypeInv

Kind == {"state", "room", "changed", "check", "rate", "away", "back"}

\* What the server tells is well formed.
LEMMA TellsType ==
    ASSUME NetOK, RoomOK', NEW kinds \in Seq(Kind), Tells(kinds)
    PROVE  inbox' \in Seq(MessageType)
<1>1. \A k \in Kind : Message(k) \in MessageType
  BY DEF Message, MessageType, RoomOK, Kind
<1>2. DOMAIN kinds = 1..Len(kinds) /\ Len(kinds) \in Nat /\ \A i \in DOMAIN kinds : kinds[i] \in Kind
  OBVIOUS
<1>3. [i \in DOMAIN kinds |-> Message(kinds[i])] \in [1..Len(kinds) -> MessageType]
  BY <1>1, <1>2
<1>4. [i \in DOMAIN kinds |-> Message(kinds[i])] \in Seq(MessageType)
  BY <1>2, <1>3
<1>5. PICK s \in Seq(MessageType) : s = [i \in DOMAIN kinds |-> Message(kinds[i])]
  BY <1>4
<1>6. inbox' = inbox \o s \/ inbox' = inbox
  BY <1>5 DEF Tells
<1>7. inbox \in Seq(MessageType)
  BY DEF NetOK
<1> QED
  BY <1>5, <1>6, <1>7, SequencesJoin

\* One message or two.
LEMMA OneKind == \A k \in Kind : <<k>> \in Seq(Kind)
  OBVIOUS

LEMMA TwoKinds == \A k, l \in Kind : <<k, l>> \in Seq(Kind)
  OBVIOUS

\* What the page sends is well formed.
LEMMA SendsType ==
    ASSUME NetOK, NEW k \in {"play", "pause", "seek", "ready"}, NEW v \in Version, Sends(k, v)
    PROVE  commands' \in Seq(CommandType)
<1>1. <<k, v>> \in CommandType
  BY DEF CommandType
<1>2. commands' = Append(commands, <<k, v>>) \/ commands' = commands
  BY DEF Sends
<1>3. commands \in Seq(CommandType)
  BY DEF NetOK
<1> QED
  BY <1>1, <1>2, <1>3, SequencesGrow

LEMMA TailTypes ==
    ASSUME NetOK
    PROVE  /\ commands # <<>> => Head(commands) \in CommandType /\ Tail(commands) \in Seq(CommandType)
           /\ inbox # <<>> => Head(inbox) \in MessageType /\ Tail(inbox) \in Seq(MessageType)
  BY DEF NetOK

\* A sync state on the element.
LEMMA AppliesTypes ==
    ASSUME ElementOK, NEW playing, Applies(playing), UNCHANGED video
    PROVE  ElementOK'
  BY DEF ElementOK, Applies, Plays, Pauses

\* The element goes with the file.
LEMMA DropsTypes ==
    ASSUME ElementOK, DropsVideo, UNCHANGED autoplayBlocked
    PROVE  ElementOK'
  BY DEF ElementOK, DropsVideo

LEMMA NextTypeInv == TypeInv /\ [Next]_vars => TypeInv'
<1> SUFFICES ASSUME TypeInv, [Next]_vars PROVE TypeInv'
  OBVIOUS
<1> USE DEF room, member, link, net, element, nudge, page, client, lost
<1>0. RoomOK /\ NetOK /\ ElementOK /\ PageOK
  BY DEF TypeInv
<1>1. ASSUME TogglePlay PROVE TypeInv'
  <2>1. commands' \in Seq(CommandType)
    BY <1>0, <1>1, SendsType DEF TogglePlay, PageOK
  <2>2. ElementOK'
    BY <1>0, <1>1 DEF TogglePlay, ElementOK, Plays, Pauses
  <2> QED
    BY <1>0, <1>1, <2>1, <2>2 DEF TogglePlay, TypeInv, RoomOK, NetOK, PageOK
<1>2. ASSUME SkipBy PROVE TypeInv'
  <2>1. commands' \in Seq(CommandType)
    BY <1>0, <1>2, SendsType DEF SkipBy, PageOK
  <2> QED
    BY <1>0, <1>2, <2>1 DEF SkipBy, TypeInv, RoomOK, NetOK, ElementOK, PageOK
<1>3. ASSUME ResumePlayback \/ PromiseResolves \/ PromiseRejects \/ Stall PROVE TypeInv'
  <2>1. ElementOK'
    <3>1. CASE ResumePlayback
      BY <1>0, <3>1 DEF ResumePlayback, ElementOK, Plays
    <3>2. CASE PromiseResolves
      <4>1. (autoplayBlocked /\ pending = {"user"}) \in BOOLEAN
        OBVIOUS
      <4> QED
        BY <1>0, <3>2, <4>1 DEF PromiseResolves, ElementOK
    <3>3. CASE PromiseRejects \/ Stall
      BY <1>0, <3>3 DEF PromiseRejects, Stall, ElementOK
    <3> QED
      BY <1>3, <3>1, <3>2, <3>3
  <2> QED
    BY <1>0, <1>3, <2>1 DEF ResumePlayback, PromiseResolves, PromiseRejects, Stall, TypeInv,
       RoomOK, NetOK, PageOK
<1>4. ASSUME Load PROVE TypeInv'
  <2>1. verified' \in BOOLEAN
    BY <1>4 DEF Load
  <2> QED
    BY <1>0, <1>4, <2>1 DEF Load, TypeInv, RoomOK, NetOK, ElementOK, PageOK
<1>5. ASSUME CanPlay PROVE TypeInv'
  <2>1. commands' \in Seq(CommandType)
    BY <1>0, <1>5, SendsType DEF CanPlay, PageOK
  <2>2. ElementOK'
    BY <1>0, <1>5 DEF CanPlay, ElementOK, Applies, Plays, Pauses
  <2> QED
    BY <1>0, <1>5, <2>1, <2>2 DEF CanPlay, TypeInv, RoomOK, NetOK, PageOK
<1>6. ASSUME NudgeTimerFires PROVE TypeInv'
  <2>1. PageOK'
    BY <1>0, <1>6 DEF NudgeTimerFires, PageOK
  <2> QED
    BY <1>0, <1>6, <2>1 DEF NudgeTimerFires, TypeInv, RoomOK, NetOK, ElementOK
<1>7. ASSUME SyncState PROVE TypeInv'
  <2>1. PICK m \in MessageType : m = Head(inbox)
    BY <1>0, <1>7, TailTypes DEF SyncState, Receives
  <2>2. inbox' \in Seq(MessageType)
    BY <1>0, <1>7, TailTypes DEF SyncState, Receives
  <2>3. m.playing \in BOOLEAN /\ m.version \in Version
    BY DEF MessageType
  <2>4. /\ snapshot' = [playing |-> m.playing, version |-> m.version]
        /\ refused' = (refused /\ ~(Loaded /\ m.version = fileVersion))
    BY <1>7, <2>1 DEF SyncState
  <2>5. snapshot' \in [playing : BOOLEAN, version : Version] /\ refused' \in BOOLEAN
    BY <2>3, <2>4
  <2>6. ElementOK'
    BY <1>0, <1>7, AppliesTypes DEF SyncState, ElementOK
  <2> QED
    BY <1>0, <1>7, <2>2, <2>5, <2>6 DEF SyncState, TypeInv, RoomOK, NetOK, PageOK
<1>8. ASSUME RoomSnapshot PROVE TypeInv'
  <2>1. PICK m \in MessageType : m = Head(inbox)
    BY <1>0, <1>8, TailTypes DEF RoomSnapshot, Receives
  <2>2. inbox' \in Seq(MessageType)
    BY <1>0, <1>8, TailTypes DEF RoomSnapshot, Receives
  <2>3. m.playing \in BOOLEAN /\ m.version \in Version /\ m.away \in BOOLEAN
    BY DEF MessageType
  <2>4. /\ snapshot' = [playing |-> m.playing, version |-> m.version]
        /\ fileVersion' = m.version /\ hostDisconnected' = m.away
        /\ refused' = (refused /\ ~(Loaded /\ m.version = fileVersion))
    BY <1>8, <2>1 DEF RoomSnapshot
  <2>5. snapshot' \in [playing : BOOLEAN, version : Version] /\ refused' \in BOOLEAN
    BY <2>3, <2>4
  <2>6. ElementOK'
    BY <1>0, <1>8, AppliesTypes, DropsTypes DEF RoomSnapshot, ElementOK
  <2>7. nudged' \in BOOLEAN
    BY <1>0, <1>8 DEF RoomSnapshot, DropsVideo, PageOK
  <2> QED
    BY <1>0, <1>8, <2>2, <2>3, <2>4, <2>5, <2>6, <2>7 DEF RoomSnapshot, TypeInv, RoomOK, NetOK, PageOK
<1>9. ASSUME FileChanged PROVE TypeInv'
  <2>1. inbox' \in Seq(MessageType) /\ Head(inbox) \in MessageType
    BY <1>0, <1>9, TailTypes DEF FileChanged, Receives
  <2>2. fileVersion' \in Version
    BY <1>9, <2>1 DEF FileChanged, MessageType
  <2>3. ElementOK' /\ nudged' \in BOOLEAN
    BY <1>0, <1>9, DropsTypes DEF FileChanged, DropsVideo
  <2> QED
    BY <1>0, <1>9, <2>1, <2>2, <2>3 DEF FileChanged, TypeInv, RoomOK, NetOK, PageOK
<1>10. ASSUME HostNotice PROVE TypeInv'
  <2>1. inbox' \in Seq(MessageType)
    BY <1>0, <1>10, TailTypes DEF HostNotice, Receives
  <2>2. hostDisconnected' \in BOOLEAN
    BY <1>10 DEF HostNotice
  <2> QED
    BY <1>0, <1>10, <2>1, <2>2 DEF HostNotice, TypeInv, RoomOK, NetOK, ElementOK, PageOK
<1>11. ASSUME Report PROVE TypeInv'
  <2>1. inbox' \in Seq(MessageType)
    BY <1>0, <1>11, TailTypes DEF Report, Receives
  <2>2. <<"cannot", 0>> \in CommandType /\ <<"report", 0>> \in CommandType
    BY VersionFacts DEF CommandType
  <2>3. commands' \in {commands, Append(commands, <<"cannot", 0>>), Append(commands, <<"report", 0>>)}
    BY <1>11 DEF Report
  <2>4. commands \in Seq(CommandType)
    BY <1>0 DEF NetOK
  <2>5. commands' \in Seq(CommandType)
    BY <2>2, <2>3, <2>4, SequencesGrow
  <2> QED
    BY <1>0, <1>11, <2>1, <2>5 DEF Report, TypeInv, RoomOK, NetOK, ElementOK, PageOK
<1>12. ASSUME PlaybackRate PROVE TypeInv'
  <2>1. inbox' \in Seq(MessageType)
    BY <1>0, <1>12, TailTypes DEF PlaybackRate, Receives
  <2>2. nudged' \in BOOLEAN /\ nudgeTimer' \in BOOLEAN
    BY <1>0, <1>12 DEF PlaybackRate, PageOK
  <2> QED
    BY <1>0, <1>12, <2>1, <2>2 DEF PlaybackRate, TypeInv, RoomOK, NetOK, ElementOK, PageOK
<1>13. ASSUME RoomOK', UNCHANGED <<link, client>>, refused' \in BOOLEAN, unheard' \in BOOLEAN,
              commands' \in {commands, Tail(commands)}, commands' = commands \/ commands # <<>>,
              UNCHANGED inbox \/ (\E kinds \in Seq(Kind) : Tells(kinds))
       PROVE  TypeInv'
  <2>1. inbox' \in Seq(MessageType)
    BY <1>0, <1>13, TellsType DEF NetOK
  <2>2. commands' \in Seq(CommandType)
    BY <1>0, <1>13, TailTypes DEF NetOK
  <2> QED
    BY <1>0, <1>13, <2>1, <2>2 DEF TypeInv, NetOK, ElementOK, PageOK
<1>14. /\ <<"state">> \in Seq(Kind) /\ <<"changed">> \in Seq(Kind) /\ <<"rate">> \in Seq(Kind)
       /\ <<"back">> \in Seq(Kind) /\ <<"check">> \in Seq(Kind) /\ <<"state", "away">> \in Seq(Kind)
  BY OneKind, TwoKinds DEF Kind
<1>15. refused \in BOOLEAN /\ unheard \in BOOLEAN
  BY <1>0 DEF PageOK
<1>16. ASSUME Control PROVE TypeInv'
  <2>1. RoomOK'
    <3>1. roomPlaying' \in BOOLEAN
      BY <1>0, <1>16 DEF Control, RoomOK
    <3> QED
      BY <1>0, <1>16, <3>1 DEF Control, RoomOK
  <2> QED
    BY <1>13, <1>14, <1>15, <1>16, <2>1 DEF Control, Serves
<1>17. ASSUME RefuseControl PROVE TypeInv'
  <2>1. RoomOK' /\ refused' \in BOOLEAN
    BY <1>0, <1>17 DEF RefuseControl, RoomOK
  <2> QED
    BY <1>13, <1>15, <1>17, <2>1 DEF RefuseControl, Serves
<1>25. ASSUME DropsMessage PROVE TypeInv'
  <2>1. RoomOK' /\ refused' \in BOOLEAN /\ unheard' \in BOOLEAN
    BY <1>0, <1>25 DEF DropsMessage, RoomOK
  <2> QED
    BY <1>13, <1>25, <2>1 DEF DropsMessage
<1>18. ASSUME Ready PROVE TypeInv'
  <2>1. RoomOK'
    BY <1>0, <1>18 DEF Ready, RoomOK
  <2> QED
    BY <1>13, <1>14, <1>15, <1>18, <2>1 DEF Ready, Serves
<1>19. ASSUME EvaluateDrift \/ Reconnect PROVE TypeInv'
  <2>1. RoomOK'
    BY <1>0, <1>19 DEF EvaluateDrift, Reconnect, RoomOK
  <2> QED
    BY <1>13, <1>14, <1>15, <1>19, <2>1 DEF EvaluateDrift, Reconnect, Serves
<1>20. ASSUME Others \/ HostLeaves \/ HostReturns \/ Heartbeat PROVE TypeInv'
  <2>1. RoomOK'
    BY <1>0, <1>20 DEF Others, HostLeaves, HostReturns, Heartbeat, RoomOK
  <2> QED
    BY <1>13, <1>14, <1>15, <1>20, <2>1 DEF Others, HostLeaves, HostReturns, Heartbeat
<1>21. ASSUME HostChangesFile PROVE TypeInv'
  <2>1. roomVersion' \in Version \ {0}
    BY <1>0, <1>21, BoundsAssumption DEF HostChangesFile, RoomOK, Version
  <2>2. RoomOK'
    BY <1>0, <1>21, <2>1 DEF HostChangesFile, RoomOK
  <2> QED
    BY <1>13, <1>14, <1>15, <1>21, <2>2 DEF HostChangesFile
<1>22. ASSUME Drop \/ ServerRestarts PROVE TypeInv'
  <2>0. commands' \in Seq(CommandType) /\ inbox' \in Seq(MessageType)
    BY <1>22, EmptySequence DEF Drop, ServerRestarts
  <2>1. NetOK'
    BY <1>0, <1>22, <2>0 DEF Drop, ServerRestarts, NetOK
  <2>2. RoomOK'
    BY <1>0, <1>22 DEF Drop, ServerRestarts, RoomOK
  <2> QED
    BY <1>0, <1>22, <2>1, <2>2 DEF Drop, ServerRestarts, TypeInv, ElementOK, PageOK
<1>23. ASSUME Connect PROVE TypeInv'
  <2>1. RoomOK'
    BY <1>0, <1>23 DEF Connect, RoomOK
  <2>2. Message("room") \in MessageType
    BY <2>1 DEF Message, MessageType, RoomOK
  <2>3. inbox' \in Seq(MessageType)
    BY <1>23, <2>2, ShortSequences DEF Connect
  <2>4. PICK v \in Version : v = fileVersion
    BY <1>0 DEF PageOK
  <2>5. <<"reconnect", v>> \in CommandType /\ <<"ready", v>> \in CommandType
    BY DEF CommandType
  <2>6. PICK a, b : a = Again /\ b = IF video = "ready" THEN <<<<"ready", v>>>> ELSE <<>>
    OBVIOUS
  <2>7. a \in Seq(CommandType) /\ b \in Seq(CommandType)
    BY <2>4, <2>5, <2>6, ShortSequences DEF Again
  <2>8. commands' = a \o b
    BY <1>23, <2>4, <2>6 DEF Connect
  <2>9. commands' \in Seq(CommandType)
    BY <2>7, <2>8, SequencesJoin
  <2> QED
    BY <1>0, <1>23, <2>1, <2>3, <2>9 DEF Connect, TypeInv, NetOK, ElementOK, PageOK
<1>24. CASE UNCHANGED vars
  BY <1>0, <1>24 DEF vars, TypeInv, RoomOK, NetOK, ElementOK, PageOK
<1> QED
  BY <1>1, <1>2, <1>3, <1>4, <1>5, <1>6, <1>7, <1>8, <1>9, <1>10, <1>11, <1>12, <1>16, <1>17,
     <1>18, <1>19, <1>20, <1>21, <1>22, <1>23, <1>24, <1>25 DEF Next

LEMMA TypesHold == Spec => []TypeInv
  BY InitTypeInv, NextTypeInv, PTL DEF Spec

\* The player and the messages are well typed, whatever comes when.
THEOREM TypeCorrect == Spec => []TypeOK
  BY TypesHold, TypeInvTypes, PTL

--------------------------------------------------------------------------
(* Nudges *)

LEMMA NextNudgesEnd == NudgesEnd /\ [Next]_vars => NudgesEnd'
<1> SUFFICES ASSUME NudgesEnd, [Next]_vars PROVE NudgesEnd'
  OBVIOUS
<1> USE DEF NudgesEnd, Loaded, room, member, link, net, element, nudge, page, client, lost
<1>1. ASSUME UNCHANGED <<nudged, nudgeTimer, video>> PROVE NudgesEnd'
  BY <1>1
<1>2. ASSUME \/ TogglePlay \/ SkipBy \/ ResumePlayback \/ PromiseResolves \/ PromiseRejects
             \/ SyncState \/ HostNotice \/ Report \/ Control \/ RefuseControl \/ DropsMessage \/ Ready
             \/ EvaluateDrift \/ Reconnect
      PROVE  UNCHANGED <<nudged, nudgeTimer, video>>
  BY <1>2 DEF TogglePlay, SkipBy, ResumePlayback, PromiseResolves, PromiseRejects, SyncState,
     HostNotice, Report, Control, RefuseControl, DropsMessage, Ready, EvaluateDrift, Reconnect
<1>3. ASSUME Others \/ HostChangesFile \/ HostLeaves \/ HostReturns \/ Heartbeat \/ Drop
             \/ ServerRestarts \/ Connect \/ UNCHANGED vars
      PROVE  UNCHANGED <<nudged, nudgeTimer, video>>
  BY <1>3 DEF Others, HostChangesFile, HostLeaves, HostReturns, Heartbeat, Drop, ServerRestarts,
     Connect, vars
<1>4. ASSUME Load \/ CanPlay \/ Stall PROVE NudgesEnd'
  BY <1>4 DEF Load, CanPlay, Stall
<1>5. ASSUME NudgeTimerFires \/ PlaybackRate PROVE NudgesEnd'
  BY <1>5 DEF NudgeTimerFires, PlaybackRate
<1>6. ASSUME RoomSnapshot \/ FileChanged PROVE NudgesEnd'
  BY <1>6 DEF RoomSnapshot, FileChanged, DropsVideo
<1> QED
  BY <1>1, <1>2, <1>3, <1>4, <1>5, <1>6 DEF Next

\* The rate is never left at a nudge without the timer that resets it.
THEOREM NudgesAreReset == Spec => []NudgesEnd
<1>1. Init => NudgesEnd
  BY DEF Init, NudgesEnd
<1> QED
  BY <1>1, NextNudgesEnd, PTL DEF Spec

--------------------------------------------------------------------------
(* Who can play is ready *)

\* The announcement of the file on the screen is on its way.
Announced == \E i \in 1..Len(commands) : commands[i] = <<"ready", fileVersion>>

AnnounceInv ==
    /\ Loaded => fileVersion # 0
    /\ socket /\ Shows /\ verified => isReady \/ Announced \/ unheard

LEMMA InitAnnounceInv == Init => AnnounceInv
  BY DEF Init, AnnounceInv, Loaded

\* A command that is not the announcement comes or goes.
LEMMA AppendAnnounced ==
    ASSUME NetOK, NEW c, commands' = Append(commands, c), UNCHANGED fileVersion, Announced
    PROVE  Announced'
<1>1. PICK i \in 1..Len(commands) : commands[i] = <<"ready", fileVersion>>
  BY DEF Announced
<1>2. commands \in Seq(CommandType)
  BY DEF NetOK
<1>3. i \in 1..Len(commands') /\ commands'[i] = commands[i]
  BY <1>2
<1> QED
  BY <1>1, <1>3 DEF Announced

LEMMA SentAnnounced ==
    ASSUME NetOK, commands' = Append(commands, <<"ready", fileVersion>>), UNCHANGED fileVersion
    PROVE  Announced'
<1>1. commands \in Seq(CommandType)
  BY DEF NetOK
<1>2. Len(commands') \in 1..Len(commands') /\ commands'[Len(commands')] = <<"ready", fileVersion>>
  BY <1>1
<1> QED
  BY <1>2 DEF Announced

LEMMA ServedAnnounced ==
    ASSUME NetOK, commands # <<>>, commands' = Tail(commands), UNCHANGED fileVersion, Announced,
           Head(commands) # <<"ready", fileVersion>>
    PROVE  Announced'
<1>1. PICK i \in 1..Len(commands) : commands[i] = <<"ready", fileVersion>>
  BY DEF Announced
<1>2. commands \in Seq(CommandType)
  BY DEF NetOK
<1>3. i # 1
  BY <1>1, <1>2
<1>4. i - 1 \in 1..Len(commands') /\ commands'[i - 1] = commands[i]
  BY <1>1, <1>2, <1>3
<1> QED
  BY <1>1, <1>4 DEF Announced

\* The screen, the file and what the server knows of them stay.
LEMMA AnnounceKept ==
    ASSUME AnnounceInv, UNCHANGED <<video, fileVersion, roomVersion, verified, isReady, socket>>,
           unheard => unheard', Announced => Announced' \/ unheard'
    PROVE  AnnounceInv'
  BY DEF AnnounceInv, Shows, Loaded

LEMMA NextAnnounceInv == TypeInv /\ AnnounceInv /\ [Next]_vars => AnnounceInv'
<1> SUFFICES ASSUME TypeInv, AnnounceInv, [Next]_vars PROVE AnnounceInv'
  OBVIOUS
<1> USE DEF room, member, link, net, element, nudge, page, client, lost
<1>0. RoomOK /\ NetOK /\ ElementOK /\ PageOK
  BY DEF TypeInv
<1>1. ASSUME UNCHANGED <<video, fileVersion, roomVersion, verified, isReady, unheard, socket, commands>>
      PROVE  AnnounceInv'
  <2>1. Announced => Announced'
    BY <1>1 DEF Announced
  <2> QED
    BY <1>1, <2>1, AnnounceKept
<1>2. ASSUME TogglePlay \/ SkipBy PROVE AnnounceInv'
  <2>1. PICK k : k \in {"play", "pause", "seek"} /\ Sends(k, fileVersion)
    BY <1>2 DEF TogglePlay, SkipBy
  <2>2. UNCHANGED commands \/ commands' = Append(commands, <<k, fileVersion>>)
    BY <2>1 DEF Sends
  <2>3. UNCHANGED <<video, fileVersion, roomVersion, verified, isReady, unheard, socket>>
    BY <1>2 DEF TogglePlay, SkipBy
  <2>4. CASE UNCHANGED commands
    BY <1>1, <2>3, <2>4
  <2>5. CASE commands' = Append(commands, <<k, fileVersion>>)
    BY <1>0, <2>3, <2>5, AnnounceKept, AppendAnnounced
  <2> QED
    BY <2>2, <2>4, <2>5
<1>3. ASSUME \/ ResumePlayback \/ PromiseResolves \/ PromiseRejects \/ NudgeTimerFires
             \/ SyncState \/ HostNotice \/ PlaybackRate \/ Others \/ HostLeaves \/ HostReturns
             \/ Heartbeat \/ UNCHANGED vars
      PROVE  AnnounceInv'
  BY <1>1, <1>3 DEF ResumePlayback, PromiseResolves, PromiseRejects, NudgeTimerFires, SyncState,
     HostNotice, PlaybackRate, Others, HostLeaves, HostReturns, Heartbeat, vars
<1>4. ASSUME Load \/ Stall PROVE AnnounceInv'
  <2>1. video' = "loading" /\ UNCHANGED fileVersion /\ fileVersion # 0
    BY <1>0, <1>4 DEF Load, Stall, AnnounceInv, Loaded, PageOK, Version
  <2> QED
    BY <2>1 DEF AnnounceInv, Shows, Loaded
<1>5. ASSUME CanPlay PROVE AnnounceInv'
  <2>1. /\ fileVersion # 0 /\ UNCHANGED <<fileVersion, roomVersion, verified, isReady, unheard, socket>>
        /\ Sends("ready", fileVersion)
    BY <1>5 DEF CanPlay, AnnounceInv, Loaded
  <2>2. CASE socket
    <3>1. commands' = Append(commands, <<"ready", fileVersion>>)
      BY <2>1, <2>2 DEF Sends
    <3>2. Announced'
      BY <1>0, <2>1, <3>1, SentAnnounced
    <3> QED
      BY <2>1, <3>2 DEF AnnounceInv
  <2>3. CASE ~socket
    BY <2>1, <2>3 DEF AnnounceInv
  <2> QED
    BY <2>2, <2>3
<1>6. ASSUME RoomSnapshot PROVE AnnounceInv'
  <2>1. PICK m \in MessageType : m = Head(inbox)
    BY <1>0, <1>6, TailTypes DEF RoomSnapshot, Receives
  <2>2. fileVersion' = m.version /\ UNCHANGED <<roomVersion, verified, isReady, unheard, socket, commands>>
    BY <1>6, <2>1 DEF RoomSnapshot
  <2>3. CASE Loaded /\ m.version = fileVersion
    <3>1. UNCHANGED <<video, fileVersion>>
      BY <1>6, <2>1, <2>2, <2>3 DEF RoomSnapshot
    <3> QED
      BY <1>1, <2>2, <3>1
  <2>4. CASE Loaded /\ m.version # fileVersion
    <3>1. fileVersion > 0
      BY <1>0, <2>4, BoundsAssumption DEF AnnounceInv, PageOK, Version
    <3>2. video' = "none"
      BY <1>6, <2>1, <2>4, <3>1 DEF RoomSnapshot, DropsVideo
    <3> QED
      BY <3>2 DEF AnnounceInv, Shows, Loaded
  <2>5. CASE ~Loaded
    <3>1. video' = "none"
      BY <1>6, <2>1, <2>5 DEF RoomSnapshot, DropsVideo, Loaded
    <3> QED
      BY <3>1 DEF AnnounceInv, Shows, Loaded
  <2> QED
    BY <2>3, <2>4, <2>5
<1>7. ASSUME FileChanged PROVE AnnounceInv'
  <2>1. video' = "none"
    BY <1>7 DEF FileChanged, DropsVideo
  <2> QED
    BY <2>1 DEF AnnounceInv, Shows, Loaded
<1>8. ASSUME Report PROVE AnnounceInv'
  <2>1. UNCHANGED <<video, fileVersion, roomVersion, verified, isReady, unheard, socket>>
    BY <1>8 DEF Report
  <2>2. PICK c : UNCHANGED commands \/ commands' = Append(commands, c)
    BY <1>8 DEF Report
  <2>3. CASE UNCHANGED commands
    BY <1>1, <2>1, <2>3
  <2>4. CASE commands' = Append(commands, c)
    BY <1>0, <2>1, <2>4, AnnounceKept, AppendAnnounced
  <2> QED
    BY <2>2, <2>3, <2>4
<1>9. ASSUME Control \/ RefuseControl \/ EvaluateDrift \/ Reconnect PROVE AnnounceInv'
  <2>1. /\ UNCHANGED <<video, fileVersion, roomVersion, verified, isReady, unheard, socket>>
        /\ commands # <<>> /\ commands' = Tail(commands) /\ Head(commands)[1] # "ready"
    BY <1>9 DEF Control, RefuseControl, EvaluateDrift, Reconnect, Serves
  <2>2. Head(commands) # <<"ready", fileVersion>>
    BY <2>1
  <2> QED
    BY <1>0, <2>1, <2>2, AnnounceKept, ServedAnnounced
<1>10. ASSUME Ready PROVE AnnounceInv'
  <2>1. /\ UNCHANGED <<video, fileVersion, roomVersion, verified, socket>>
        /\ commands # <<>> /\ commands' = Tail(commands)
    BY <1>10 DEF Ready, Serves
  <2>2. CASE Head(commands)[2] = roomVersion /\ verified
    <3>1. isReady'
      BY <1>10, <2>2 DEF Ready
    <3> QED
      BY <2>1, <3>1 DEF AnnounceInv, Loaded
  <2>3. CASE ~(Head(commands)[2] = roomVersion /\ verified)
    <3>1. UNCHANGED <<isReady, unheard>>
      BY <1>10, <2>3 DEF Ready
    <3>2. CASE Head(commands) = <<"ready", fileVersion>>
      <4>1. ~(Shows' /\ verified')
        BY <2>1, <2>3, <3>2 DEF Shows
      <4> QED
        BY <2>1, <4>1 DEF AnnounceInv, Loaded
    <3>3. CASE Head(commands) # <<"ready", fileVersion>>
      BY <1>0, <2>1, <3>1, <3>3, AnnounceKept, ServedAnnounced
    <3> QED
      BY <3>2, <3>3
  <2> QED
    BY <2>2, <2>3
<1>11. ASSUME HostChangesFile PROVE AnnounceInv'
  <2>1. verified' = FALSE /\ UNCHANGED <<video, fileVersion>>
    BY <1>11 DEF HostChangesFile
  <2> QED
    BY <2>1 DEF AnnounceInv, Loaded
<1>12. ASSUME Drop \/ ServerRestarts PROVE AnnounceInv'
  <2>1. socket' = FALSE /\ UNCHANGED <<video, fileVersion>>
    BY <1>12 DEF Drop, ServerRestarts
  <2> QED
    BY <2>1 DEF AnnounceInv, Loaded
<1>13. ASSUME Connect PROVE AnnounceInv'
  <2>1. UNCHANGED <<video, fileVersion, roomVersion, verified, isReady, unheard>>
    BY <1>13 DEF Connect
  <2>2. CASE video = "ready"
    <3>1. PICK a : a = Again
      OBVIOUS
    <3>2. a = <<>> \/ a = <<<<"reconnect", fileVersion>>>>
      BY <3>1 DEF Again
    <3>3. commands' = a \o <<<<"ready", fileVersion>>>>
      BY <1>13, <2>2, <3>1 DEF Connect
    <3>4. Len(commands') \in 1..Len(commands') /\ commands'[Len(commands')] = <<"ready", fileVersion>>
      BY <3>2, <3>3
    <3>5. Announced'
      BY <2>1, <3>4 DEF Announced
    <3> QED
      BY <2>1, <3>5 DEF AnnounceInv, Loaded
  <2>3. CASE video # "ready"
    BY <2>1, <2>3 DEF AnnounceInv, Loaded, Shows
  <2> QED
    BY <2>2, <2>3
<1>14. ASSUME DropsMessage PROVE AnnounceInv'
  <2>1. /\ UNCHANGED <<video, fileVersion, roomVersion, verified, isReady, socket>>
        /\ commands # <<>> /\ commands' = Tail(commands)
        /\ unheard' = (unheard \/ Head(commands)[1] = "ready")
    BY <1>14 DEF DropsMessage
  <2>2. CASE Head(commands)[1] = "ready"
    BY <2>1, <2>2, AnnounceKept
  <2>3. CASE Head(commands)[1] # "ready"
    <3>1. Head(commands) # <<"ready", fileVersion>>
      BY <2>3
    <3> QED
      BY <1>0, <2>1, <3>1, AnnounceKept, ServedAnnounced
  <2> QED
    BY <2>2, <2>3
<1> QED
  BY <1>2, <1>3, <1>4, <1>5, <1>6, <1>7, <1>8, <1>9, <1>10, <1>11, <1>12, <1>13, <1>14
  DEF Next

\* A participant whose verified file can play is ready, or about to be - unless the
\* message cap has swallowed the announcement.
THEOREM CanPlayIsReady == Spec => []AnnouncedIsReady
<1>1. AnnounceInv => AnnouncedIsReady
  BY DEF AnnounceInv, AnnouncedIsReady, Announced, Quiet
<1> QED
  BY <1>1, TypesHold, InitAnnounceInv, NextAnnounceInv, PTL DEF Spec

--------------------------------------------------------------------------
(* The picture and the room *)

\* Messages that move the page to a file, and those that say how the room plays.
Moves == {"room", "changed"}
News == Moves \cup {"state"}

\* A socket begins with the room's state; what follows is in the order of versions.
Ordered(q) ==
    /\ \A i \in 1..Len(q) : q[i].kind = "room" => i = 1
    /\ \A i, k \in 1..Len(q) :
          i < k /\ q[i].kind \in News /\ q[k].kind \in News =>
              /\ q[i].version <= q[k].version
              /\ q[k].kind = "changed" => q[i].version < q[k].version

\* A message moves a page with file f forward, at most to the room's version r; a state
\* is for the file that the page has when it comes to it.
Forward(q, f, r) ==
    \A i \in 1..Len(q) :
        /\ q[i].kind \in News => q[i].version <= r
        /\ q[i].kind = "changed" => q[i].playing = FALSE
        /\ q[i].kind \in Moves => f <= q[i].version
        /\ q[i].kind = "changed" /\ q[1].kind # "room" => f < q[i].version
        /\ q[i].kind = "state" /\ q[i].version # f =>
              \E j \in 1..Len(q) :
                  j < i /\ q[j].kind \in Moves /\ q[j].version = q[i].version

\* The last word is what the room is: whether it plays, p, and its version.
LastWord(q, p, r) ==
    \A i \in 1..Len(q) :
        q[i].kind \in News /\ (\A k \in 1..Len(q) : q[k].kind \in News => k <= i) =>
            q[i].playing = p /\ q[i].version = r

Silent(q) == \A i \in 1..Len(q) : q[i].kind \notin News

\* What a page with snapshot s knows when it has read everything.
Known(q, f, p, r, s) ==
    /\ f <= r
    /\ f # r => \E i \in 1..Len(q) : q[i].kind \in Moves /\ q[i].version = r
    /\ q = <<>> \/ q[1].kind # "room" => s.version <= f
    /\ Silent(q) => p = IF s.version = f THEN s.playing ELSE FALSE

Mail(q, f, p, r, s) ==
    Ordered(q) /\ Forward(q, f, r) /\ LastWord(q, p, r) /\ Known(q, f, p, r, s)

Snapshot == [playing : BOOLEAN, version : Version]

\* What a message is.
LEMMA MessageFacts ==
    ASSUME NEW m \in MessageType
    PROVE  m.kind \in Kind /\ m.playing \in BOOLEAN /\ m.version \in Nat
  BY BoundsAssumption DEF MessageType, Kind, Version

LEMMA MailFacts ==
    ASSUME NEW q \in Seq(MessageType)
    PROVE  /\ Len(q) \in Nat
           /\ \A i \in 1..Len(q) : q[i].version \in Nat
           /\ q = <<>> <=> Len(q) = 0
<1>1. \A i \in 1..Len(q) : q[i] \in MessageType
  OBVIOUS
<1>2. \A i \in 1..Len(q) : q[i].version \in Nat
  BY <1>1, MessageFacts
<1> QED
  BY <1>2

\* a is q with the message m after it.
Extends(a, q, m) ==
    /\ Len(a) = Len(q) + 1 /\ a[Len(a)] = m
    /\ \A i \in 1..Len(q) : a[i] = q[i]

\* A message that carries no news.
LEMMA MailGetsNotice ==
    ASSUME NEW q \in Seq(MessageType), NEW a \in Seq(MessageType), NEW m \in MessageType,
           NEW f \in Nat, NEW p \in BOOLEAN, NEW r \in Nat, NEW s \in Snapshot,
           Extends(a, q, m), m.kind \notin News, Mail(q, f, p, r, s)
    PROVE  Mail(a, f, p, r, s) /\ (Silent(a) <=> Silent(q))
<1> DEFINE n == Len(q)
<1>1. n \in Nat /\ Len(a) = n + 1 /\ a[n + 1].kind \notin News /\ a[n + 1].kind \notin Moves
  BY MailFacts DEF Extends, News
<1>2. \A i \in 1..n : a[i] = q[i] /\ q[i].version \in Nat
  BY MailFacts DEF Extends
<1>3. "room" \in News /\ "changed" \in News /\ "state" \in News /\ Moves \subseteq News
  BY DEF News, Moves
<1>4. \A i \in 1..Len(a) : a[i].kind \in News => i \in 1..n
  BY <1>1
<1> HIDE DEF n
<1>5. Ordered(a)
  <2>1. \A i \in 1..Len(a) : a[i].kind = "room" => i = 1
    BY <1>2, <1>3, <1>4 DEF Mail, Ordered, n
  <2>2. ASSUME NEW i \in 1..Len(a), NEW k \in 1..Len(a), i < k, a[i].kind \in News, a[k].kind \in News
        PROVE  a[i].version <= a[k].version /\ (a[k].kind = "changed" => a[i].version < a[k].version)
    <3>1. i \in 1..Len(q) /\ k \in 1..Len(q) /\ a[i] = q[i] /\ a[k] = q[k]
      BY <1>2, <1>4, <2>2 DEF n
    <3> QED
      BY <2>2, <3>1 DEF Mail, Ordered
  <2> QED
    BY <2>1, <2>2 DEF Ordered
<1>6. Forward(a, f, r)
  <2> SUFFICES ASSUME NEW i \in 1..Len(a), a[i].kind \in News
               PROVE  /\ a[i].version <= r
                      /\ a[i].kind = "changed" => a[i].playing = FALSE
                      /\ a[i].kind \in Moves => f <= a[i].version
                      /\ a[i].kind = "changed" /\ a[1].kind # "room" => f < a[i].version
                      /\ a[i].kind = "state" /\ a[i].version # f =>
                            \E j \in 1..Len(a) :
                                j < i /\ a[j].kind \in Moves /\ a[j].version = a[i].version
    BY <1>3 DEF Forward
  <2>1. i \in 1..Len(q) /\ a[i] = q[i] /\ 1 \in 1..Len(q) /\ a[1] = q[1]
    BY <1>1, <1>2, <1>4 DEF n
  <2>2. \A j \in 1..Len(q) : j \in 1..Len(a) /\ a[j] = q[j]
    BY <1>1, <1>2 DEF n
  <2> QED
    BY <2>1, <2>2 DEF Mail, Forward
<1>7. LastWord(a, p, r)
  <2> SUFFICES ASSUME NEW i \in 1..Len(a), a[i].kind \in News,
                      \A k \in 1..Len(a) : a[k].kind \in News => k <= i
               PROVE  a[i].playing = p /\ a[i].version = r
    BY DEF LastWord
  <2>1. i \in 1..Len(q) /\ a[i] = q[i]
    BY <1>2, <1>4 DEF n
  <2>2. \A k \in 1..Len(q) : q[k].kind \in News => k <= i
    BY <1>1, <1>2 DEF n
  <2> QED
    BY <2>1, <2>2 DEF Mail, LastWord
<1>8. Silent(a) <=> Silent(q)
  BY <1>1, <1>2, <1>4 DEF Silent, n
<1>9. Known(a, f, p, r, s)
  <2>1. f # r => \E i \in 1..Len(a) : a[i].kind \in Moves /\ a[i].version = r
    BY <1>1, <1>2 DEF Mail, Known, n
  <2>2. a # <<>> /\ (a[1].kind # "room" => q = <<>> \/ q[1].kind # "room")
    BY <1>1, <1>2, MailFacts DEF n
  <2> QED
    BY <1>8, <2>1, <2>2 DEF Mail, Known
<1> QED
  BY <1>5, <1>6, <1>7, <1>8, <1>9 DEF Mail

\* A state of the room, which may play or stop with it.
LEMMA MailGetsState ==
    ASSUME NEW q \in Seq(MessageType), NEW a \in Seq(MessageType), NEW m \in MessageType,
           NEW f \in Nat, NEW p \in BOOLEAN, NEW r \in Nat, NEW s \in Snapshot,
           Extends(a, q, m), m.kind = "state", m.version = r, Mail(q, f, p, r, s)
    PROVE  Mail(a, f, m.playing, r, s) /\ ~Silent(a)
<1> DEFINE n == Len(q)
<1>1. n \in Nat /\ Len(a) = n + 1 /\ a[n + 1] = m
  BY MailFacts DEF Extends
<1>2. \A i \in 1..n : i \in 1..Len(a) /\ a[i] = q[i] /\ q[i].version \in Nat
  BY MailFacts DEF Extends
<1>3. "room" \in News /\ "changed" \in News /\ "state" \in News /\ Moves \subseteq News
      /\ "state" \notin Moves
  BY DEF News, Moves
<1>4. \A i \in 1..Len(a) : i \in 1..n \/ i = n + 1
  BY <1>1
<1>5. n + 1 \in 1..Len(a) /\ \A i \in 1..Len(a) : i <= n + 1
  BY <1>1
<1> HIDE DEF n
<1>6. Ordered(a)
  <2>1. \A i \in 1..Len(a) : a[i].kind = "room" => i = 1
    BY <1>1, <1>2, <1>4 DEF Mail, Ordered, n
  <2>2. ASSUME NEW i \in 1..Len(a), NEW k \in 1..Len(a), i < k, a[i].kind \in News, a[k].kind \in News
        PROVE  a[i].version <= a[k].version /\ (a[k].kind = "changed" => a[i].version < a[k].version)
    <3>1. i \in 1..Len(q) /\ a[i] = q[i] /\ q[i].version <= r
      BY <1>1, <1>2, <1>4, <1>5, <2>2 DEF Mail, Forward, n
    <3>2. CASE k = n + 1
      BY <1>1, <3>1, <3>2
    <3>3. CASE k \in 1..n
      BY <1>2, <2>2, <3>1, <3>3 DEF Mail, Ordered, n
    <3> QED
      BY <1>4, <3>2, <3>3
  <2> QED
    BY <2>1, <2>2 DEF Ordered
<1>7. Forward(a, f, r)
  <2> SUFFICES ASSUME NEW i \in 1..Len(a)
               PROVE  /\ a[i].kind \in News => a[i].version <= r
                      /\ a[i].kind = "changed" => a[i].playing = FALSE
                      /\ a[i].kind \in Moves => f <= a[i].version
                      /\ a[i].kind = "changed" /\ a[1].kind # "room" => f < a[i].version
                      /\ a[i].kind = "state" /\ a[i].version # f =>
                            \E j \in 1..Len(a) :
                                j < i /\ a[j].kind \in Moves /\ a[j].version = a[i].version
    BY DEF Forward
  <2>1. CASE i = n + 1
    <3>1. f # r => \E j \in 1..n : q[j].kind \in Moves /\ q[j].version = r
      BY DEF Mail, Known, n
    <3>2. f # r => \E j \in 1..Len(a) : j < i /\ a[j].kind \in Moves /\ a[j].version = r
      BY <1>1, <1>2, <2>1, <3>1
    <3> QED
      BY <1>1, <1>3, <2>1, <3>2
  <2>2. CASE i \in 1..n
    <3>1. a[i] = q[i] /\ i \in 1..Len(q) /\ a[1] = q[1]
      BY <1>1, <1>2, <2>2 DEF n
    <3>2. \A j \in 1..Len(q) : j \in 1..Len(a) /\ a[j] = q[j]
      BY <1>2 DEF n
    <3> QED
      BY <3>1, <3>2 DEF Mail, Forward
  <2> QED
    BY <1>4, <2>1, <2>2
<1>8. LastWord(a, m.playing, r)
  <2> SUFFICES ASSUME NEW i \in 1..Len(a), a[i].kind \in News,
                      \A k \in 1..Len(a) : a[k].kind \in News => k <= i
               PROVE  a[i].playing = m.playing /\ a[i].version = r
    BY DEF LastWord
  <2>1. i = n + 1
    BY <1>1, <1>3, <1>4, <1>5
  <2> QED
    BY <1>1, <2>1
<1>9. ~Silent(a)
  BY <1>1, <1>3, <1>5 DEF Silent
<1>10. Known(a, f, m.playing, r, s)
  <2>1. f <= r /\ (f # r => \E i \in 1..Len(a) : a[i].kind \in Moves /\ a[i].version = r)
    BY <1>2 DEF Mail, Known, n
  <2>2. a # <<>> /\ (a[1].kind # "room" => q = <<>> \/ q[1].kind # "room")
    BY <1>1, <1>2, MailFacts DEF n
  <2> QED
    BY <1>9, <2>1, <2>2 DEF Mail, Known
<1> QED
  BY <1>6, <1>7, <1>8, <1>9, <1>10 DEF Mail

\* The next file: the room stops.
LEMMA MailGetsFile ==
    ASSUME NEW q \in Seq(MessageType), NEW a \in Seq(MessageType), NEW m \in MessageType,
           NEW f \in Nat, NEW p \in BOOLEAN, NEW r \in Nat, NEW s \in Snapshot,
           Extends(a, q, m), m.kind = "changed", m.version = r + 1, m.playing = FALSE,
           Mail(q, f, p, r, s)
    PROVE  Mail(a, f, FALSE, r + 1, s) /\ ~Silent(a)
<1> DEFINE n == Len(q)
<1>1. n \in Nat /\ Len(a) = n + 1 /\ a[n + 1] = m
  BY MailFacts DEF Extends
<1>2. \A i \in 1..n : i \in 1..Len(a) /\ a[i] = q[i] /\ q[i].version \in Nat
  BY MailFacts DEF Extends
<1>3. "room" \in News /\ "changed" \in News /\ "state" \in News /\ Moves \subseteq News
      /\ "changed" \in Moves
  BY DEF News, Moves
<1>4. \A i \in 1..Len(a) : i \in 1..n \/ i = n + 1
  BY <1>1
<1>5. n + 1 \in 1..Len(a) /\ \A i \in 1..Len(a) : i <= n + 1
  BY <1>1
<1> HIDE DEF n
<1>6. Ordered(a)
  <2>1. \A i \in 1..Len(a) : a[i].kind = "room" => i = 1
    BY <1>1, <1>2, <1>4 DEF Mail, Ordered, n
  <2>2. ASSUME NEW i \in 1..Len(a), NEW k \in 1..Len(a), i < k, a[i].kind \in News, a[k].kind \in News
        PROVE  a[i].version <= a[k].version /\ (a[k].kind = "changed" => a[i].version < a[k].version)
    <3>1. i \in 1..Len(q) /\ a[i] = q[i] /\ q[i].version <= r /\ q[i].version \in Nat
      BY <1>1, <1>2, <1>4, <1>5, <2>2 DEF Mail, Forward, n
    <3>2. CASE k = n + 1
      BY <1>1, <3>1, <3>2
    <3>3. CASE k \in 1..n
      BY <1>2, <2>2, <3>1, <3>3 DEF Mail, Ordered, n
    <3> QED
      BY <1>4, <3>2, <3>3
  <2> QED
    BY <2>1, <2>2 DEF Ordered
<1>7. f <= r
  BY DEF Mail, Known
<1>8. Forward(a, f, r + 1)
  <2> SUFFICES ASSUME NEW i \in 1..Len(a)
               PROVE  /\ a[i].kind \in News => a[i].version <= r + 1
                      /\ a[i].kind = "changed" => a[i].playing = FALSE
                      /\ a[i].kind \in Moves => f <= a[i].version
                      /\ a[i].kind = "changed" /\ a[1].kind # "room" => f < a[i].version
                      /\ a[i].kind = "state" /\ a[i].version # f =>
                            \E j \in 1..Len(a) :
                                j < i /\ a[j].kind \in Moves /\ a[j].version = a[i].version
    BY DEF Forward
  <2>1. CASE i = n + 1
    BY <1>1, <1>7, <2>1
  <2>2. CASE i \in 1..n
    <3>1. a[i] = q[i] /\ i \in 1..Len(q) /\ a[1] = q[1] /\ q[i].version \in Nat
      BY <1>1, <1>2, <2>2 DEF n
    <3>2. \A j \in 1..Len(q) : j \in 1..Len(a) /\ a[j] = q[j]
      BY <1>2 DEF n
    <3> QED
      BY <3>1, <3>2 DEF Mail, Forward
  <2> QED
    BY <1>4, <2>1, <2>2
<1>9. LastWord(a, FALSE, r + 1)
  <2> SUFFICES ASSUME NEW i \in 1..Len(a), a[i].kind \in News,
                      \A k \in 1..Len(a) : a[k].kind \in News => k <= i
               PROVE  a[i].playing = FALSE /\ a[i].version = r + 1
    BY DEF LastWord
  <2>1. i = n + 1
    BY <1>1, <1>3, <1>4, <1>5
  <2> QED
    BY <1>1, <2>1
<1>10. ~Silent(a)
  BY <1>1, <1>3, <1>5 DEF Silent
<1>11. Known(a, f, FALSE, r + 1, s)
  <2>1. f <= r + 1 /\ \E i \in 1..Len(a) : a[i].kind \in Moves /\ a[i].version = r + 1
    BY <1>1, <1>3, <1>5, <1>7
  <2>2. a # <<>> /\ (a[1].kind # "room" => q = <<>> \/ q[1].kind # "room")
    BY <1>1, <1>2, MailFacts DEF n
  <2> QED
    BY <1>10, <2>1, <2>2 DEF Mail, Known
<1> QED
  BY <1>6, <1>8, <1>9, <1>10, <1>11 DEF Mail

\* A socket begins with one message.
LEMMA MailBegins ==
    ASSUME NEW a \in Seq(MessageType), NEW m \in MessageType, Len(a) = 1, a[1] = m,
           m.kind = "room", NEW f \in Nat, f <= m.version, NEW s \in Snapshot
    PROVE  Mail(a, f, m.playing, m.version, s) /\ ~Silent(a)
<1>1. 1 \in 1..Len(a) /\ (\A i \in 1..Len(a) : i = 1) /\ a # <<>>
  <2>1. 1 \in 1..1 /\ \A i \in 1..1 : i = 1
    OBVIOUS
  <2>2. Len(<<>>) # 1
    OBVIOUS
  <2>3. a # <<>>
    BY <2>2
  <2> QED
    BY <2>1, <2>3
<1>2. m.version \in Nat
  BY MessageFacts
<1>3. Ordered(a) /\ LastWord(a, m.playing, m.version)
  BY <1>1 DEF Ordered, LastWord
<1>4. Forward(a, f, m.version)
  BY <1>1, <1>2 DEF Forward, Moves
<1>5. ~Silent(a) /\ Known(a, f, m.playing, m.version, s)
  BY <1>1 DEF Silent, Known, News, Moves
<1> QED
  BY <1>3, <1>4, <1>5 DEF Mail

\* What the page makes of a message: its file and its snapshot.
FileAfter(m, f) == IF m.kind \in Moves THEN m.version ELSE f
SnapshotAfter(m, s) ==
    IF m.kind \in {"room", "state"} THEN [playing |-> m.playing, version |-> m.version]
    ELSE s

\* The page takes the first message.
LEMMA MailShrinks ==
    ASSUME NEW q \in Seq(MessageType), q # <<>>, NEW f \in Nat, NEW p \in BOOLEAN,
           NEW r \in Nat, NEW s \in Snapshot, Mail(q, f, p, r, s),
           NEW a \in Seq(MessageType), Len(a) = Len(q) - 1,
           \A i \in 1..Len(a) : a[i] = q[i + 1]
    PROVE  Mail(a, FileAfter(q[1], f), p, r, SnapshotAfter(q[1], s))
<1> DEFINE n == Len(a)
           g == FileAfter(q[1], f)
           t == SnapshotAfter(q[1], s)
<1>1. /\ n \in Nat /\ Len(q) = n + 1 /\ 1 \in 1..Len(q)
      /\ \A i \in 1..n : i + 1 \in 1..Len(q) /\ a[i] = q[i + 1] /\ a[i].version \in Nat
      /\ \A i \in 1..Len(q) : q[i].version \in Nat
      /\ \A i \in 1..Len(q) : i # 1 => i - 1 \in 1..n /\ a[i - 1] = q[i] /\ i > 1
  BY MailFacts
<1>2. "room" \in News /\ "changed" \in News /\ "state" \in News /\ Moves \subseteq News
      /\ "state" \notin Moves /\ "room" \in Moves /\ "changed" \in Moves
      /\ News = {"room", "changed", "state"} /\ Moves = {"room", "changed"}
  BY DEF News, Moves
<1>3. \A i \in 1..n : a[i].kind # "room"
  BY <1>1 DEF Mail, Ordered
<1>4. Ordered(a)
  <2>1. ASSUME NEW i \in 1..n, NEW k \in 1..n, i < k, a[i].kind \in News, a[k].kind \in News
        PROVE  a[i].version <= a[k].version /\ (a[k].kind = "changed" => a[i].version < a[k].version)
    <3>1. i + 1 \in 1..Len(q) /\ k + 1 \in 1..Len(q) /\ i + 1 < k + 1
          /\ a[i] = q[i + 1] /\ a[k] = q[k + 1]
      BY <1>1, <2>1
    <3> QED
      BY <2>1, <3>1 DEF Mail, Ordered
  <2> QED
    BY <1>3, <2>1 DEF Ordered
<1>5. /\ g \in Nat /\ f <= g /\ g <= r /\ f <= r
      /\ q[1].kind = "changed" => f < g
      /\ q[1].kind \in Moves => g = q[1].version
      /\ q[1].kind \notin Moves => g = f
  <2>1. f <= r /\ (q[1].kind \in Moves => f <= q[1].version /\ q[1].version <= r)
        /\ (q[1].kind = "changed" => f < q[1].version)
    BY <1>1, <1>2 DEF Mail, Forward, Known
  <2>2. q[1].version \in Nat
    BY <1>1
  <2> QED
    BY <1>2, <2>1, <2>2 DEF FileAfter
<1> HIDE DEF g
<1>6. ASSUME NEW i \in 1..n, a[i].kind \in News
      PROVE  /\ a[i].version <= r /\ f <= a[i].version
             /\ q[1].kind \in Moves => g <= a[i].version
             /\ q[1].kind \in Moves /\ a[i].kind = "changed" => g < a[i].version
  <2>1. i + 1 \in 1..Len(q) /\ a[i] = q[i + 1] /\ 1 < i + 1 /\ a[i].version \in Nat
    BY <1>1
  <2>2. a[i].version <= r
    BY <1>6, <2>1 DEF Mail, Forward
  <2>3. q[1].kind \in Moves => g <= a[i].version /\ (a[i].kind = "changed" => g < a[i].version)
    BY <1>1, <1>2, <1>5, <1>6, <2>1 DEF Mail, Ordered
  <2>4. a[i].kind \in Moves => f <= a[i].version
    BY <2>1 DEF Mail, Forward
  <2>5. a[i].kind = "state" => f <= a[i].version
    <3>1. CASE a[i].version = f
      BY <3>1
    <3>2. CASE a[i].kind = "state" /\ a[i].version # f
      <4>1. PICK j \in 1..Len(q) : q[j].kind \in Moves /\ q[j].version = a[i].version
        BY <2>1, <3>2 DEF Mail, Forward
      <4> QED
        BY <4>1 DEF Mail, Forward
    <3> QED
      BY <3>1, <3>2
  <2> QED
    BY <1>2, <1>6, <2>2, <2>3, <2>4, <2>5
<1>7. Forward(a, g, r)
  <2> SUFFICES ASSUME NEW i \in 1..n
               PROVE  /\ a[i].kind \in News => a[i].version <= r
                      /\ a[i].kind = "changed" => a[i].playing = FALSE
                      /\ a[i].kind \in Moves => g <= a[i].version
                      /\ a[i].kind = "changed" /\ a[1].kind # "room" => g < a[i].version
                      /\ a[i].kind = "state" /\ a[i].version # g =>
                            \E j \in 1..n :
                                j < i /\ a[j].kind \in Moves /\ a[j].version = a[i].version
    BY DEF Forward
  <2>1. i + 1 \in 1..Len(q) /\ a[i] = q[i + 1] /\ a[i].version \in Nat
    BY <1>1
  <2>2. a[i].kind = "changed" => a[i].playing = FALSE
    BY <2>1 DEF Mail, Forward
  <2>3. a[i].kind \in Moves => g <= a[i].version
    BY <1>2, <1>5, <1>6
  <2>4. a[i].kind = "changed" => g < a[i].version
    <3>1. CASE q[1].kind \in Moves
      BY <1>2, <1>6, <3>1
    <3>2. CASE q[1].kind \notin Moves
      <4>1. q[1].kind # "room"
        BY <1>2, <3>2
      <4> QED
        BY <1>5, <2>1, <3>2, <4>1 DEF Mail, Forward
    <3> QED
      BY <3>1, <3>2
  <2>5. ASSUME a[i].kind = "state", a[i].version # g
        PROVE  \E j \in 1..n : j < i /\ a[j].kind \in Moves /\ a[j].version = a[i].version
    <3>1. a[i].version # f
      <4>1. CASE q[1].kind \in Moves
        <5>1. g <= a[i].version /\ f <= g
          BY <1>2, <1>5, <1>6, <2>5, <4>1
        <5> QED
          BY <1>5, <2>1, <2>5, <5>1
      <4>2. CASE q[1].kind \notin Moves
        BY <1>5, <2>5, <4>2
      <4> QED
        BY <4>1, <4>2
    <3>2. PICK j \in 1..Len(q) : j < i + 1 /\ q[j].kind \in Moves /\ q[j].version = a[i].version
      BY <2>1, <2>5, <3>1 DEF Mail, Forward
    <3>3. j # 1
      BY <1>5, <2>5, <3>2
    <3>4. j - 1 \in 1..n /\ a[j - 1] = q[j] /\ j - 1 < i
      BY <1>1, <3>2, <3>3
    <3> QED
      BY <3>2, <3>4
  <2> QED
    BY <1>6, <2>2, <2>3, <2>4, <2>5
<1>8. LastWord(a, p, r)
  <2> SUFFICES ASSUME NEW i \in 1..n, a[i].kind \in News,
                      \A k \in 1..n : a[k].kind \in News => k <= i
               PROVE  a[i].playing = p /\ a[i].version = r
    BY DEF LastWord
  <2>1. i + 1 \in 1..Len(q) /\ a[i] = q[i + 1]
    BY <1>1
  <2>2. ASSUME NEW k \in 1..Len(q), q[k].kind \in News PROVE k <= i + 1
    <3>1. CASE k = 1
      BY <3>1
    <3>2. CASE k # 1
      <4>1. k - 1 \in 1..n /\ a[k - 1] = q[k]
        BY <1>1, <3>2
      <4>2. k - 1 <= i
        BY <2>2, <4>1
      <4> QED
        BY <4>2
    <3> QED
      BY <3>1, <3>2
  <2> QED
    BY <2>1, <2>2 DEF Mail, LastWord
<1>9. Known(a, g, p, r, t)
  <2>1. g # r => \E i \in 1..n : a[i].kind \in Moves /\ a[i].version = r
    <3> SUFFICES ASSUME g # r PROVE \E i \in 1..n : a[i].kind \in Moves /\ a[i].version = r
      OBVIOUS
    <3>1. f # r
      BY <1>5
    <3>2. PICK i \in 1..Len(q) : q[i].kind \in Moves /\ q[i].version = r
      BY <3>1 DEF Mail, Known
    <3>3. i # 1
      BY <1>5, <3>2
    <3> QED
      BY <1>1, <3>2, <3>3
  <2>2. /\ s.version \in Nat
        /\ q[1].kind = "room" => t.version = q[1].version /\ t.playing = q[1].playing
        /\ q[1].kind = "state" => t.version = q[1].version /\ t.playing = q[1].playing
        /\ q[1].kind \notin {"room", "state"} => t = s
    BY BoundsAssumption DEF Snapshot, Version, SnapshotAfter
  <2> HIDE DEF t
  <2>3. q[1].kind = "state" => q[1].version = f
    BY <1>1 DEF Mail, Forward
  <2>4. q[1].kind # "room" => s.version <= f
    BY <1>1 DEF Mail, Known
  <2>5. t.version <= g
    BY <1>2, <1>5, <2>2, <2>3, <2>4
  <2>6. ASSUME Silent(a) PROVE p = IF t.version = g THEN t.playing ELSE FALSE
    <3>1. \A i \in 1..Len(q) : q[i].kind \in News => i = 1
      BY <1>1, <2>6 DEF Silent
    <3>2. CASE q[1].kind \in News
      <4>1. q[1].playing = p /\ q[1].version = r
        BY <1>1, <3>1, <3>2 DEF Mail, LastWord
      <4>2. CASE q[1].kind = "room"
        BY <1>2, <1>5, <2>2, <4>1, <4>2
      <4>3. CASE q[1].kind = "state"
        BY <1>2, <1>5, <2>2, <2>3, <4>1, <4>3
      <4>4. CASE q[1].kind = "changed"
        <5>1. p = FALSE
          BY <1>1, <4>1, <4>4 DEF Mail, Forward
        <5>2. t.version # g
          BY <1>5, <2>2, <2>4, <4>4
        <5> QED
          BY <5>1, <5>2
      <4> QED
        BY <1>2, <3>2, <4>2, <4>3, <4>4
    <3>3. CASE q[1].kind \notin News
      <4>1. Silent(q)
        BY <3>1, <3>3 DEF Silent
      <4>2. g = f /\ t = s
        BY <1>2, <1>5, <2>2, <3>3
      <4> QED
        BY <4>1, <4>2 DEF Mail, Known
    <3> QED
      BY <3>2, <3>3
  <2>7. a = <<>> \/ a[1].kind # "room" => t.version <= g
    BY <2>5
  <2> QED
    BY <1>5, <2>1, <2>6, <2>7 DEF Known
<1> QED
  BY <1>4, <1>7, <1>8, <1>9 DEF Mail, g

\* The messages lead from what the page has to what the room is.
MailInv ==
    /\ fileVersion <= roomVersion
    /\ ~socket => inbox = <<>>
    /\ socket => Mail(inbox, fileVersion, roomPlaying, roomVersion, snapshot)

LEMMA InitMailInv == Init => MailInv
  BY DEF Init, MailInv

\* The numbers and messages among the types.
LEMMA PageFacts ==
    ASSUME TypeInv
    PROVE  /\ inbox \in Seq(MessageType) /\ commands \in Seq(CommandType)
           /\ fileVersion \in Nat /\ roomVersion \in Nat
           /\ roomPlaying \in BOOLEAN /\ snapshot \in Snapshot
<1>1. Version \subseteq Nat
  BY BoundsAssumption DEF Version
<1> QED
  BY <1>1 DEF TypeInv, NetOK, PageOK, RoomOK, Snapshot

\* What stands in two sequences that are joined.
LEMMA Joined ==
    ASSUME NEW S, NEW T, NEW q \in Seq(S), NEW t \in Seq(T)
    PROVE  /\ Len(q \o t) = Len(q) + Len(t)
           /\ \A i \in 1..Len(q) : (q \o t)[i] = q[i]
           /\ \A j \in 1..Len(t) : (q \o t)[Len(q) + j] = t[j]
  OBVIOUS

\* What Tells appends.
LEMMA TellsGrows ==
    ASSUME inbox \in Seq(MessageType), socket, NEW kinds \in Seq(Kind), Tells(kinds)
    PROVE  /\ Len(inbox') = Len(inbox) + Len(kinds)
           /\ \A i \in 1..Len(inbox) : inbox'[i] = inbox[i]
           /\ \A j \in 1..Len(kinds) : inbox'[Len(inbox) + j] = Message(kinds[j])
<1>1. PICK s : s = [i \in DOMAIN kinds |-> Message(kinds[i])]
  OBVIOUS
<1>2. DOMAIN kinds = 1..Len(kinds) /\ Len(kinds) \in Nat
  OBVIOUS
<1>3. PICK M : M = {Message(kinds[i]) : i \in DOMAIN kinds}
  OBVIOUS
<1>4. s \in [1..Len(kinds) -> M]
  BY <1>1, <1>2, <1>3
<1>5. s \in Seq(M) /\ Len(s) = Len(kinds)
  BY <1>2, <1>4
<1>6. inbox' = inbox \o s
  BY <1>1 DEF Tells
<1>7. /\ Len(inbox \o s) = Len(inbox) + Len(s)
      /\ \A i \in 1..Len(inbox) : (inbox \o s)[i] = inbox[i]
      /\ \A j \in 1..Len(s) : (inbox \o s)[Len(inbox) + j] = s[j]
  <2>1. PICK q \in Seq(MessageType), t \in Seq(M) : q = inbox /\ t = s
    BY <1>5
  <2>2. /\ Len(q \o t) = Len(q) + Len(t)
        /\ \A i \in 1..Len(q) : (q \o t)[i] = q[i]
        /\ \A j \in 1..Len(t) : (q \o t)[Len(q) + j] = t[j]
    BY Joined
  <2> QED
    BY <2>1, <2>2
<1> QED
  BY <1>1, <1>2, <1>5, <1>6, <1>7

\* One message, and two.
LEMMA TellsOne ==
    ASSUME NetOK, RoomOK', socket, NEW k \in Kind, Tells(<<k>>)
    PROVE  /\ inbox' \in Seq(MessageType) /\ Message(k) \in MessageType
           /\ Extends(inbox', inbox, Message(k))
<1>1. inbox \in Seq(MessageType)
  BY DEF NetOK
<1>2. PICK kinds : kinds = <<k>>
  OBVIOUS
<1>3. kinds \in Seq(Kind) /\ Len(kinds) = 1 /\ kinds[1] = k /\ 1 \in 1..1 /\ Tells(kinds)
  BY <1>2, OneKind
<1>4. inbox' \in Seq(MessageType)
  BY <1>3, TellsType
<1>5. Message(k) \in MessageType
  BY DEF Message, MessageType, RoomOK, Kind
<1>6. /\ Len(inbox') = Len(inbox) + 1 /\ inbox'[Len(inbox) + 1] = Message(k)
      /\ \A i \in 1..Len(inbox) : inbox'[i] = inbox[i]
  BY <1>1, <1>3, TellsGrows
<1> QED
  BY <1>4, <1>5, <1>6 DEF Extends

LEMMA TellsTwo ==
    ASSUME NetOK, RoomOK', socket, NEW k \in Kind, NEW l \in Kind, Tells(<<k, l>>)
    PROVE  /\ inbox' \in Seq(MessageType)
           /\ Message(k) \in MessageType /\ Message(l) \in MessageType
           /\ \E a \in Seq(MessageType) :
                 Extends(a, inbox, Message(k)) /\ Extends(inbox', a, Message(l))
<1>1. inbox \in Seq(MessageType)
  BY DEF NetOK
<1>2. PICK kinds : kinds = <<k, l>>
  OBVIOUS
<1>3. /\ kinds \in Seq(Kind) /\ Len(kinds) = 2 /\ kinds[1] = k /\ kinds[2] = l
      /\ 1 \in 1..2 /\ 2 \in 1..2 /\ Tells(kinds)
  BY <1>2, TwoKinds
<1>4. inbox' \in Seq(MessageType)
  BY <1>3, TellsType
<1>5. Message(k) \in MessageType /\ Message(l) \in MessageType
  BY DEF Message, MessageType, RoomOK, Kind
<1>6. /\ Len(inbox') = Len(inbox) + 2
      /\ inbox'[Len(inbox) + 1] = Message(k) /\ inbox'[Len(inbox) + 2] = Message(l)
      /\ \A i \in 1..Len(inbox) : inbox'[i] = inbox[i]
  BY <1>1, <1>3, TellsGrows
<1>7. PICK m : m = Message(k)
  OBVIOUS
<1>8. PICK a : a = Append(inbox, m)
  OBVIOUS
<1>9. /\ a \in Seq(MessageType) /\ Len(a) = Len(inbox) + 1 /\ a[Len(inbox) + 1] = m
      /\ \A i \in 1..Len(inbox) : a[i] = inbox[i]
  BY <1>1, <1>5, <1>7, <1>8
<1>10. Len(inbox) \in Nat
  BY <1>1
<1>11. Extends(a, inbox, Message(k))
  BY <1>7, <1>9 DEF Extends
<1>12. \A i \in 1..Len(a) : i \in 1..Len(inbox) \/ i = Len(inbox) + 1
  BY <1>9, <1>10
<1>13. Extends(inbox', a, Message(l))
  BY <1>6, <1>7, <1>9, <1>10, <1>12 DEF Extends
<1> QED
  BY <1>4, <1>5, <1>9, <1>11, <1>13

\* What the first message is.
LEMMA FirstMessage ==
    ASSUME TypeInv, NEW kind, Receives(kind)
    PROVE  /\ inbox # <<>> /\ Head(inbox) = inbox[1] /\ inbox[1] \in MessageType
           /\ inbox[1].kind = kind
           /\ inbox' \in Seq(MessageType) /\ Len(inbox') = Len(inbox) - 1
           /\ \A i \in 1..Len(inbox') : inbox'[i] = inbox[i + 1]
  BY DEF Receives, TypeInv, NetOK

\* Every step preserves MailInv.
LEMMA NextMailInv == TypeInv /\ TypeInv' /\ MailInv /\ [Next]_vars => MailInv'
<1> SUFFICES ASSUME TypeInv, TypeInv', MailInv, [Next]_vars PROVE MailInv'
  OBVIOUS
<1> USE DEF room, member, link, net, element, nudge, page, client, lost
<1>0. NetOK /\ RoomOK' /\ NetOK'
  BY DEF TypeInv
<1>1. ASSUME UNCHANGED <<roomPlaying, roomVersion, socket, inbox, fileVersion, snapshot>>
      PROVE  MailInv'
  BY <1>1 DEF MailInv
<1>2. ASSUME \/ TogglePlay \/ SkipBy \/ ResumePlayback \/ PromiseResolves \/ PromiseRejects
             \/ Load \/ CanPlay \/ Stall \/ NudgeTimerFires \/ RefuseControl \/ DropsMessage \/ UNCHANGED vars
      PROVE  MailInv'
  BY <1>1, <1>2 DEF TogglePlay, SkipBy, ResumePlayback, PromiseResolves, PromiseRejects,
     Load, CanPlay, Stall, NudgeTimerFires, RefuseControl, DropsMessage, vars
<1>3. ASSUME NEW kind, Receives(kind), UNCHANGED <<roomPlaying, roomVersion, socket>>,
             fileVersion' = FileAfter(inbox[1], fileVersion),
             snapshot' = SnapshotAfter(inbox[1], snapshot)
      PROVE  MailInv'
  <2>1. socket
    BY <1>3 DEF Receives, MailInv
  <2>2. Mail(inbox', fileVersion', roomPlaying, roomVersion, snapshot')
    BY <1>3, <2>1, PageFacts, FirstMessage, MailShrinks DEF MailInv
  <2> QED
    BY <1>3, <2>1, <2>2 DEF MailInv, Mail, Known
<1>4. ASSUME SyncState PROVE MailInv'
  <2>1. Receives("state") /\ UNCHANGED <<roomPlaying, roomVersion, socket, fileVersion>>
    BY <1>4 DEF SyncState
  <2>2. snapshot' = [playing |-> inbox[1].playing, version |-> inbox[1].version]
    BY <1>4, <2>1, FirstMessage DEF SyncState
  <2>3. inbox[1].kind = "state"
    BY <2>1, FirstMessage
  <2> QED
    BY <1>3, <2>1, <2>2, <2>3 DEF FileAfter, SnapshotAfter, Moves
<1>5. ASSUME RoomSnapshot PROVE MailInv'
  <2>1. Receives("room") /\ UNCHANGED <<roomPlaying, roomVersion, socket>>
    BY <1>5 DEF RoomSnapshot
  <2>2. /\ fileVersion' = inbox[1].version
        /\ snapshot' = [playing |-> inbox[1].playing, version |-> inbox[1].version]
    BY <1>5, <2>1, FirstMessage DEF RoomSnapshot
  <2>3. inbox[1].kind = "room"
    BY <2>1, FirstMessage
  <2> QED
    BY <1>3, <2>1, <2>2, <2>3 DEF FileAfter, SnapshotAfter, Moves
<1>6. ASSUME FileChanged PROVE MailInv'
  <2>1. Receives("changed") /\ UNCHANGED <<roomPlaying, roomVersion, socket, snapshot>>
    BY <1>6 DEF FileChanged
  <2>2. fileVersion' = inbox[1].version
    BY <1>6, <2>1, FirstMessage DEF FileChanged
  <2>3. inbox[1].kind = "changed"
    BY <2>1, FirstMessage
  <2> QED
    BY <1>3, <2>1, <2>2, <2>3 DEF FileAfter, SnapshotAfter, Moves
<1>7. ASSUME HostNotice \/ Report \/ PlaybackRate PROVE MailInv'
  <2>1. PICK kind \in {"away", "back", "check", "rate"} : Receives(kind)
    BY <1>7 DEF HostNotice, Report, PlaybackRate
  <2>2. UNCHANGED <<roomPlaying, roomVersion, socket, fileVersion, snapshot>>
    BY <1>7 DEF HostNotice, Report, PlaybackRate
  <2>3. inbox[1].kind = kind
    BY <2>1, FirstMessage
  <2> QED
    BY <1>3, <2>1, <2>2, <2>3 DEF FileAfter, SnapshotAfter, Moves
<1>8. ASSUME NEW k \in {"check", "rate", "back"}, Tells(<<k>>),
             UNCHANGED <<roomPlaying, roomVersion, socket, fileVersion, snapshot>>
      PROVE  MailInv'
  <2>1. CASE socket
    <3>1. /\ inbox' \in Seq(MessageType) /\ Message(k) \in MessageType
          /\ Extends(inbox', inbox, Message(k))
      BY <1>0, <1>8, <2>1, TellsOne DEF Kind
    <3>2. Message(k).kind \notin News
      BY DEF Message, News, Moves
    <3>3. Mail(inbox', fileVersion, roomPlaying, roomVersion, snapshot)
      BY <2>1, <3>1, <3>2, PageFacts, MailGetsNotice DEF MailInv
    <3> QED
      BY <1>8, <2>1, <3>3 DEF MailInv
  <2>2. CASE ~socket
    BY <1>1, <1>8, <2>2 DEF Tells
  <2> QED
    BY <2>1, <2>2
<1>9. ASSUME Tells(<<"state">>), UNCHANGED <<roomVersion, socket, fileVersion, snapshot>>
      PROVE  MailInv'
  <2>1. CASE socket
    <3>1. /\ inbox' \in Seq(MessageType) /\ Message("state") \in MessageType
          /\ Extends(inbox', inbox, Message("state"))
      BY <1>0, <1>9, <2>1, TellsOne DEF Kind
    <3>2. /\ Message("state").kind = "state" /\ Message("state").version = roomVersion
          /\ Message("state").playing = roomPlaying'
      BY <1>9 DEF Message
    <3>3. Mail(inbox', fileVersion, Message("state").playing, roomVersion, snapshot)
      BY <2>1, <3>1, <3>2, PageFacts, MailGetsState DEF MailInv
    <3> QED
      BY <1>9, <2>1, <3>2, <3>3 DEF MailInv
  <2>2. CASE ~socket
    BY <1>9, <2>2 DEF Tells, MailInv
  <2> QED
    BY <2>1, <2>2
<1>10. ASSUME Control \/ Others PROVE MailInv'
  BY <1>9, <1>10 DEF Control, Others
<1>11. ASSUME Ready \/ EvaluateDrift \/ Reconnect PROVE MailInv'
  <2>1. UNCHANGED <<roomPlaying, roomVersion, socket, fileVersion, snapshot>>
    BY <1>11 DEF Ready, EvaluateDrift, Reconnect
  <2>2. UNCHANGED inbox \/ Tells(<<"state">>) \/ Tells(<<"rate">>)
    BY <1>11 DEF Ready, EvaluateDrift, Reconnect
  <2> QED
    BY <1>1, <1>8, <1>9, <2>1, <2>2
<1>12. ASSUME HostChangesFile PROVE MailInv'
  <2>1. /\ roomVersion' = roomVersion + 1 /\ roomPlaying' = FALSE /\ Tells(<<"changed">>)
        /\ UNCHANGED <<socket, fileVersion, snapshot>>
    BY <1>12 DEF HostChangesFile
  <2>2. fileVersion' <= roomVersion'
    BY <2>1, PageFacts DEF MailInv
  <2>3. CASE socket
    <3>1. /\ inbox' \in Seq(MessageType) /\ Message("changed") \in MessageType
          /\ Extends(inbox', inbox, Message("changed"))
      BY <1>0, <2>1, <2>3, TellsOne DEF Kind
    <3>2. /\ Message("changed").kind = "changed" /\ Message("changed").version = roomVersion + 1
          /\ Message("changed").playing = FALSE
      BY <2>1 DEF Message
    <3>3. Mail(inbox', fileVersion, FALSE, roomVersion + 1, snapshot)
      BY <2>3, <3>1, <3>2, PageFacts, MailGetsFile DEF MailInv
    <3> QED
      BY <2>1, <2>2, <2>3, <3>3 DEF MailInv
  <2>4. CASE ~socket
    BY <2>1, <2>2, <2>4 DEF Tells, MailInv
  <2> QED
    BY <2>3, <2>4
<1>13. ASSUME HostLeaves PROVE MailInv'
  <2>1. /\ roomPlaying' = FALSE /\ Tells(<<"state", "away">>)
        /\ UNCHANGED <<roomVersion, socket, fileVersion, snapshot>>
    BY <1>13 DEF HostLeaves
  <2>2. CASE socket
    <3>1. /\ inbox' \in Seq(MessageType)
          /\ Message("state") \in MessageType /\ Message("away") \in MessageType
          /\ \E a \in Seq(MessageType) :
                Extends(a, inbox, Message("state")) /\ Extends(inbox', a, Message("away"))
      BY <1>0, <2>1, <2>2, TellsTwo DEF Kind
    <3>2. PICK a \in Seq(MessageType) :
              Extends(a, inbox, Message("state")) /\ Extends(inbox', a, Message("away"))
      BY <3>1
    <3>3. /\ Message("state").kind = "state" /\ Message("state").version = roomVersion
          /\ Message("state").playing = FALSE
      BY <2>1 DEF Message
    <3>4. Mail(a, fileVersion, Message("state").playing, roomVersion, snapshot)
      BY <2>2, <3>1, <3>2, <3>3, PageFacts, MailGetsState DEF MailInv
    <3>5. Message("away").kind \notin News
      BY DEF Message, News, Moves
    <3>6. Mail(inbox', fileVersion, FALSE, roomVersion, snapshot)
      BY <3>1, <3>2, <3>3, <3>4, <3>5, PageFacts, MailGetsNotice
    <3> QED
      BY <2>1, <2>2, <3>6 DEF MailInv
  <2>3. CASE ~socket
    BY <2>1, <2>3 DEF Tells, MailInv
  <2> QED
    BY <2>2, <2>3
<1>14. ASSUME HostReturns \/ Heartbeat PROVE MailInv'
  BY <1>8, <1>14 DEF HostReturns, Heartbeat
<1>15. ASSUME Drop \/ ServerRestarts PROVE MailInv'
  <2>1. socket' = FALSE /\ inbox' = <<>> /\ UNCHANGED <<roomVersion, fileVersion>>
    BY <1>15 DEF Drop, ServerRestarts
  <2> QED
    BY <2>1 DEF MailInv
<1>16. ASSUME Connect PROVE MailInv'
  <2>1. PICK m : m = Message("room")
    OBVIOUS
  <2>2. /\ m \in MessageType /\ m.kind = "room" /\ m.version = roomVersion'
        /\ m.playing = roomPlaying'
    BY <1>0, <2>1 DEF Message, MessageType, RoomOK
  <2>3. inbox' = <<m>> /\ UNCHANGED <<roomPlaying, roomVersion, fileVersion, snapshot>>
    BY <1>16, <2>1 DEF Connect
  <2>4. Len(inbox') = 1 /\ inbox'[1] = m /\ inbox' \in Seq(MessageType)
    BY <2>2, <2>3, ShortSequences
  <2>5. fileVersion <= m.version /\ m.version = roomVersion /\ m.playing = roomPlaying
    BY <2>2, <2>3 DEF MailInv
  <2>6. Mail(inbox', fileVersion, m.playing, m.version, snapshot)
    BY <2>2, <2>4, <2>5, PageFacts, MailBegins
  <2>7. socket'
    BY <1>16 DEF Connect
  <2> QED
    BY <2>3, <2>5, <2>6, <2>7 DEF MailInv
<1> QED
  BY <1>2, <1>4, <1>5, <1>6, <1>7, <1>10, <1>11, <1>12, <1>13, <1>14, <1>15, <1>16 DEF Next

\* The page has yet to hear how the room plays.
Told == ~Silent(inbox)

\* A command of the participant is on its way.
Commanded == \E i \in 1..Len(commands) : commands[i][1] \in {"play", "pause"}

\* The element does what the last snapshot says, or has asked the user for it.
Agrees == IF snapshot.playing THEN ~paused \/ autoplayBlocked ELSE paused

\* Whatever the element does otherwise, something is on its way that will settle it: a
\* snapshot for another file means that the file is announced, whose answer is a state.
PictureInv ==
    /\ pending # {} => ~paused
    /\ socket /\ Loaded /\ snapshot.version # fileVersion => Told \/ verified
    /\ socket /\ video = "ready" =>
          \/ Told \/ Commanded \/ refused
          \/ snapshot.version = fileVersion /\ Agrees
          \/ snapshot.version # fileVersion /\ Announced

LEMMA InitPictureInv == Init => PictureInv
  BY DEF Init, PictureInv

\* News on their way stay there while the server adds to them, and notices are read.
LEMMA ToldKept ==
    ASSUME NetOK, NEW kinds \in Seq(Kind), Tells(kinds), Told
    PROVE  Told'
<1>1. inbox \in Seq(MessageType)
  BY DEF NetOK
<1>2. PICK i \in 1..Len(inbox) : inbox[i].kind \in News
  BY DEF Told, Silent
<1>3. CASE socket
  <2>1. Len(kinds) \in Nat /\ Len(inbox) \in Nat
    BY <1>1
  <2>2. Len(inbox') = Len(inbox) + Len(kinds) /\ inbox'[i] = inbox[i]
    BY <1>1, <1>3, TellsGrows
  <2>3. i \in 1..Len(inbox')
    BY <2>1, <2>2
  <2> QED
    BY <1>2, <2>2, <2>3 DEF Told, Silent
<1>4. CASE ~socket
  BY <1>4 DEF Tells, Told
<1> QED
  BY <1>3, <1>4

LEMMA ToldAnew ==
    ASSUME NetOK, socket, NEW kinds \in Seq(Kind), Tells(kinds), Len(kinds) > 0,
           kinds[1] \in {"state", "changed"}
    PROVE  Told'
<1>1. inbox \in Seq(MessageType)
  BY DEF NetOK
<1>2. Len(inbox) \in Nat /\ Len(kinds) \in Nat /\ 1 \in 1..Len(kinds)
  BY <1>1
<1>3. Len(inbox') = Len(inbox) + Len(kinds) /\ inbox'[Len(inbox) + 1] = Message(kinds[1])
  BY <1>1, <1>2, TellsGrows
<1>4. Message(kinds[1]).kind \in News
  BY DEF Message, News, Moves
<1>5. Len(inbox) + 1 \in 1..Len(inbox')
  BY <1>2, <1>3
<1> QED
  BY <1>3, <1>4, <1>5 DEF Told, Silent

LEMMA ToldAfterNotice ==
    ASSUME TypeInv, NEW kind \in Kind \ News, Receives(kind), Told
    PROVE  Told'
<1>1. /\ Len(inbox') = Len(inbox) - 1 /\ inbox[1].kind = kind
      /\ \A i \in 1..Len(inbox') : inbox'[i] = inbox[i + 1]
  BY FirstMessage
<1>2. PICK i \in 1..Len(inbox) : inbox[i].kind \in News
  BY DEF Told, Silent
<1>3. i # 1 /\ Len(inbox) \in Nat
  BY <1>1, <1>2, PageFacts
<1>4. i - 1 \in 1..Len(inbox') /\ inbox'[i - 1] = inbox[i]
  BY <1>1, <1>3
<1> QED
  BY <1>2, <1>4 DEF Told, Silent

\* The participant's commands, as they are added and served.
LEMMA AppendCommanded ==
    ASSUME NetOK, NEW c, commands' = Append(commands, c), Commanded
    PROVE  Commanded'
<1>1. PICK i \in 1..Len(commands) : commands[i][1] \in {"play", "pause"}
  BY DEF Commanded
<1>2. commands \in Seq(CommandType)
  BY DEF NetOK
<1>3. i \in 1..Len(commands') /\ commands'[i] = commands[i]
  BY <1>2
<1> QED
  BY <1>1, <1>3 DEF Commanded

LEMMA SentCommanded ==
    ASSUME NetOK, NEW k \in {"play", "pause"}, NEW v, commands' = Append(commands, <<k, v>>)
    PROVE  Commanded'
<1>1. commands \in Seq(CommandType)
  BY DEF NetOK
<1>2. Len(commands') \in 1..Len(commands') /\ commands'[Len(commands')] = <<k, v>>
  BY <1>1
<1> QED
  BY <1>2 DEF Commanded

LEMMA ServedCommanded ==
    ASSUME NetOK, commands # <<>>, commands' = Tail(commands), Commanded,
           Head(commands)[1] \notin {"play", "pause"}
    PROVE  Commanded'
<1>1. PICK i \in 1..Len(commands) : commands[i][1] \in {"play", "pause"}
  BY DEF Commanded
<1>2. commands \in Seq(CommandType)
  BY DEF NetOK
<1>3. i # 1
  BY <1>1, <1>2
<1>4. i - 1 \in 1..Len(commands') /\ commands'[i - 1] = commands[i]
  BY <1>1, <1>2, <1>3
<1> QED
  BY <1>1, <1>4 DEF Commanded

\* Once a state is applied the element does what it says.
LEMMA AppliedAgrees ==
    ASSUME pending # {} => ~paused, NEW playing \in BOOLEAN, Applies(playing)
    PROVE  /\ pending' # {} => ~paused'
           /\ IF playing THEN ~paused' \/ autoplayBlocked' ELSE paused'
<1>1. CASE playing /\ ~paused /\ UNCHANGED <<paused, pending, aborted, autoplayBlocked>>
  BY <1>1
<1>2. CASE playing /\ paused /\ Plays("sync") /\ UNCHANGED autoplayBlocked
  BY <1>2 DEF Plays
<1>3. CASE /\ playing /\ paused /\ autoplayBlocked' = TRUE
           /\ UNCHANGED <<paused, pending, aborted>>
  BY <1>3
<1>4. CASE ~playing /\ Pauses /\ autoplayBlocked' = FALSE
  BY <1>4 DEF Pauses
<1> QED
  BY <1>1, <1>2, <1>3, <1>4 DEF Applies

\* The page, the element and what the server has verified stay.
LEMMA PictureKept ==
    ASSUME PictureInv, UNCHANGED <<video, fileVersion, snapshot, socket>>,
           verified => verified', pending' # {} => ~paused', Agrees => Agrees',
           refused => refused', Told => Told', Commanded => Commanded', Announced => Announced'
    PROVE  PictureInv'
  BY DEF PictureInv, Loaded

\* Every step preserves PictureInv.
LEMMA NextPictureInv ==
    TypeInv /\ MailInv /\ AnnounceInv /\ PictureInv /\ [Next]_vars => PictureInv'
<1> SUFFICES ASSUME TypeInv, MailInv, AnnounceInv, PictureInv, [Next]_vars PROVE PictureInv'
  OBVIOUS
<1> USE DEF room, member, link, net, element, nudge, page, client, lost
<1>0. RoomOK /\ NetOK /\ ElementOK /\ PageOK
  BY DEF TypeInv
<1>1. ASSUME UNCHANGED <<video, fileVersion, snapshot, socket, verified, refused, inbox, commands>>,
             pending' # {} => ~paused', Agrees => Agrees'
      PROVE  PictureInv'
  <2>1. (Told => Told') /\ (Commanded => Commanded') /\ (Announced => Announced')
    BY <1>1 DEF Told, Commanded, Announced
  <2> QED
    BY <1>1, <2>1, PictureKept
<1>2. ASSUME UNCHANGED <<video, fileVersion, snapshot, socket, verified, refused, paused, pending,
                         autoplayBlocked>>,
             Told => Told', Commanded => Commanded', Announced => Announced'
      PROVE  PictureInv'
  <2>1. (pending' # {} => ~paused') /\ (Agrees => Agrees')
    BY <1>2 DEF Agrees, PictureInv
  <2> QED
    BY <1>2, <2>1, PictureKept
<1>3. ASSUME TogglePlay PROVE PictureInv'
  <2>1. PICK k \in {"play", "pause"} : Sends(k, fileVersion)
    BY <1>3 DEF TogglePlay
  <2>2. commands' = Append(commands, <<k, fileVersion>>)
    BY <1>3, <2>1 DEF TogglePlay, Sends
  <2>3. Commanded'
    BY <1>0, <2>2, SentCommanded
  <2>4. pending' # {} => ~paused'
    BY <1>3 DEF TogglePlay, Plays, Pauses
  <2>5. UNCHANGED <<video, fileVersion, snapshot, socket, verified, inbox>>
    BY <1>3 DEF TogglePlay
  <2> QED
    BY <2>3, <2>4, <2>5 DEF PictureInv, Loaded, Told
<1>4. ASSUME SkipBy PROVE PictureInv'
  <2>1. /\ commands' = Append(commands, <<"seek", fileVersion>>)
        /\ UNCHANGED <<video, fileVersion, snapshot, socket, verified, refused, paused, pending,
                       autoplayBlocked, inbox>>
    BY <1>4 DEF SkipBy, Sends
  <2>2. (Commanded => Commanded') /\ (Announced => Announced')
    BY <1>0, <2>1, AppendCommanded, AppendAnnounced
  <2> QED
    BY <1>2, <2>1, <2>2 DEF Told
<1>5. ASSUME ResumePlayback PROVE PictureInv'
  <2>1. /\ UNCHANGED <<video, fileVersion, snapshot, socket, verified, refused, inbox, commands>>
        /\ autoplayBlocked
    BY <1>5 DEF ResumePlayback
  <2>2. CASE snapshot.playing
    <3>1. paused' = FALSE
      BY <1>5, <2>2 DEF ResumePlayback, Plays
    <3> QED
      BY <1>1, <2>1, <2>2, <3>1 DEF Agrees
  <2>3. CASE ~snapshot.playing
    <3>1. UNCHANGED <<paused, pending>>
      BY <1>5, <2>3 DEF ResumePlayback
    <3> QED
      BY <1>1, <2>1, <2>3, <3>1 DEF Agrees, PictureInv
  <2> QED
    BY <2>2, <2>3
<1>6. ASSUME PromiseResolves PROVE PictureInv'
  <2>1. /\ UNCHANGED <<video, fileVersion, snapshot, socket, verified, refused, inbox, commands,
                       paused>>
        /\ ~paused /\ pending' = {}
    BY <1>6 DEF PromiseResolves, PictureInv
  <2> QED
    BY <1>1, <2>1 DEF Agrees
<1>7. ASSUME PromiseRejects PROVE PictureInv'
  <2>1. /\ UNCHANGED <<video, fileVersion, snapshot, socket, verified, refused, inbox, commands,
                       paused, pending>>
        /\ autoplayBlocked' = TRUE
    BY <1>7 DEF PromiseRejects
  <2> QED
    BY <1>1, <2>1 DEF Agrees, PictureInv
<1>8. ASSUME Load PROVE PictureInv'
  <2>1. /\ UNCHANGED <<fileVersion, snapshot, socket, inbox, roomVersion, pending, paused>>
        /\ video' = "loading" /\ (fileVersion = roomVersion => verified')
    BY <1>8 DEF Load
  <2>2. socket /\ fileVersion # roomVersion => Told
    <3> SUFFICES ASSUME socket, fileVersion # roomVersion PROVE Told
      OBVIOUS
    <3>1. PICK i \in 1..Len(inbox) : inbox[i].kind \in Moves
      BY DEF MailInv, Mail, Known
    <3> QED
      BY <3>1 DEF Told, Silent, News
  <2> QED
    BY <2>1, <2>2 DEF PictureInv, Told
<1>9. ASSUME CanPlay PROVE PictureInv'
  <2>1. /\ UNCHANGED <<fileVersion, snapshot, socket, inbox, verified>> /\ Loaded
        /\ Sends("ready", fileVersion)
    BY <1>9 DEF CanPlay, Loaded
  <2>2. socket => Announced'
    BY <1>0, <2>1, SentAnnounced DEF Sends
  <2>3. CASE snapshot.version = fileVersion
    <3>1. Applies(snapshot.playing) /\ snapshot.playing \in BOOLEAN
      BY <1>0, <1>9, <2>3 DEF CanPlay, PageOK
    <3>2. pending # {} => ~paused
      BY DEF PictureInv
    <3>3. /\ pending' # {} => ~paused'
          /\ IF snapshot.playing THEN ~paused' \/ autoplayBlocked' ELSE paused'
      BY <3>1, <3>2, AppliedAgrees
    <3>4. Agrees'
      BY <2>1, <3>3 DEF Agrees
    <3> QED
      BY <2>1, <2>3, <3>3, <3>4 DEF PictureInv
  <2>4. CASE snapshot.version # fileVersion
    <3>1. UNCHANGED <<paused, pending>>
      BY <1>9, <2>4 DEF CanPlay
    <3> QED
      BY <2>1, <2>2, <2>4, <3>1 DEF PictureInv, Told
  <2> QED
    BY <2>3, <2>4
<1>10. ASSUME Stall PROVE PictureInv'
  <2>1. /\ UNCHANGED <<fileVersion, snapshot, socket, inbox, verified, paused, pending>>
        /\ video = "ready" /\ video' = "loading"
    BY <1>10 DEF Stall
  <2> QED
    BY <2>1 DEF PictureInv, Told, Loaded
<1>11. ASSUME NudgeTimerFires \/ UNCHANGED vars PROVE PictureInv'
  <2>1. UNCHANGED <<video, fileVersion, snapshot, socket, verified, refused, inbox, commands,
                    paused, pending, autoplayBlocked>>
    BY <1>11 DEF NudgeTimerFires, vars
  <2> QED
    BY <1>2, <2>1 DEF Told, Commanded, Announced
<1>12. ASSUME SyncState PROVE PictureInv'
  <2>1. PICK m \in MessageType : m = Head(inbox) /\ m = inbox[1]
    BY <1>12, FirstMessage DEF SyncState
  <2>2. /\ snapshot'.playing = m.playing /\ snapshot'.version = m.version
        /\ UNCHANGED <<video, fileVersion, socket, verified>>
    BY <1>12, <2>1 DEF SyncState
  <2>3. m.version = fileVersion
    <3>1. socket /\ inbox \in Seq(MessageType) /\ inbox # <<>> /\ inbox[1].kind = "state"
      BY <1>12, PageFacts, FirstMessage DEF SyncState, MailInv
    <3>2. 1 \in 1..Len(inbox)
      BY <3>1, MailFacts
    <3>3. ~(\E j \in 1..Len(inbox) : j < 1)
      BY <3>1
    <3> QED
      BY <2>1, <3>1, <3>2, <3>3 DEF MailInv, Mail, Forward
  <2>4. CASE Loaded
    <3>1. Applies(m.playing) /\ m.playing \in BOOLEAN
      BY <1>12, <2>1, <2>3, <2>4, MessageFacts DEF SyncState
    <3>2. pending # {} => ~paused
      BY DEF PictureInv
    <3>3. /\ pending' # {} => ~paused'
          /\ IF m.playing THEN ~paused' \/ autoplayBlocked' ELSE paused'
      BY <3>1, <3>2, AppliedAgrees
    <3>4. Agrees'
      BY <2>2, <3>3 DEF Agrees
    <3> QED
      BY <2>2, <2>3, <3>3, <3>4 DEF PictureInv
  <2>5. CASE ~Loaded
    <3>1. UNCHANGED <<paused, pending>>
      BY <1>12, <2>5 DEF SyncState
    <3> QED
      BY <2>2, <2>3, <2>5, <3>1 DEF PictureInv, Loaded
  <2> QED
    BY <2>4, <2>5
<1>13. ASSUME RoomSnapshot PROVE PictureInv'
  <2>1. PICK m \in MessageType : m = Head(inbox)
    BY <1>13, FirstMessage DEF RoomSnapshot
  <2>2. /\ snapshot'.playing = m.playing /\ snapshot'.version = m.version
        /\ fileVersion' = m.version
    BY <1>13, <2>1 DEF RoomSnapshot
  <2>3. CASE Loaded /\ m.version = fileVersion
    <3>1. Applies(m.playing) /\ m.playing \in BOOLEAN
      BY <1>13, <2>1, <2>3, MessageFacts DEF RoomSnapshot
    <3>2. pending # {} => ~paused
      BY DEF PictureInv
    <3>3. /\ pending' # {} => ~paused'
          /\ IF m.playing THEN ~paused' \/ autoplayBlocked' ELSE paused'
      BY <3>1, <3>2, AppliedAgrees
    <3>4. Agrees'
      BY <2>2, <3>3 DEF Agrees
    <3> QED
      BY <2>2, <3>3, <3>4 DEF PictureInv
  <2>4. CASE Loaded /\ m.version # fileVersion
    <3>1. fileVersion > 0
      BY <1>0, <2>4, BoundsAssumption DEF AnnounceInv, PageOK, Version
    <3>2. video' = "none" /\ pending' = {}
      BY <1>13, <2>1, <2>4, <3>1 DEF RoomSnapshot, DropsVideo
    <3> QED
      BY <3>2 DEF PictureInv, Loaded
  <2>5. CASE ~Loaded
    <3>1. video' = "none" /\ (pending' = {} \/ UNCHANGED <<pending, paused>>)
      BY <1>13, <2>1, <2>5 DEF RoomSnapshot, DropsVideo, Loaded
    <3> QED
      BY <3>1 DEF PictureInv, Loaded
  <2> QED
    BY <2>3, <2>4, <2>5
<1>14. ASSUME FileChanged PROVE PictureInv'
  <2>1. video' = "none" /\ pending' = {}
    BY <1>14 DEF FileChanged, DropsVideo
  <2> QED
    BY <2>1 DEF PictureInv, Loaded
<1>15. ASSUME HostNotice \/ PlaybackRate \/ Report PROVE PictureInv'
  <2>1. PICK kind \in Kind \ News : Receives(kind)
    BY <1>15 DEF HostNotice, PlaybackRate, Report, Kind, News, Moves
  <2>2. UNCHANGED <<video, fileVersion, snapshot, socket, verified, refused, paused, pending,
                    autoplayBlocked>>
    BY <1>15 DEF HostNotice, PlaybackRate, Report
  <2>3. PICK c : UNCHANGED commands \/ commands' = Append(commands, c)
    BY <1>15 DEF HostNotice, PlaybackRate, Report
  <2>4. Told => Told'
    BY <2>1, ToldAfterNotice
  <2>5. (Commanded => Commanded') /\ (Announced => Announced')
    <3>1. CASE UNCHANGED commands
      BY <2>2, <3>1 DEF Commanded, Announced
    <3>2. CASE commands' = Append(commands, c)
      BY <1>0, <2>2, <3>2, AppendCommanded, AppendAnnounced
    <3> QED
      BY <2>3, <3>1, <3>2
  <2> QED
    BY <1>2, <2>2, <2>4, <2>5
<1>16. ASSUME NEW kinds \in Seq(Kind), Tells(kinds), Len(kinds) > 0,
              kinds[1] \in {"state", "changed"}, pending' # {} => ~paused'
       PROVE  UNCHANGED socket => PictureInv'
  <2>1. socket => Told'
    BY <1>0, <1>16, ToldAnew
  <2> QED
    BY <1>16, <2>1 DEF PictureInv
<1>17. <<"state">> \in Seq(Kind) /\ <<"rate">> \in Seq(Kind) /\ <<"changed">> \in Seq(Kind)
       /\ <<"check">> \in Seq(Kind) /\ <<"back">> \in Seq(Kind) /\ <<"state", "away">> \in Seq(Kind)
  BY OneKind, TwoKinds DEF Kind
<1>18. ASSUME Control \/ Others \/ HostChangesFile \/ HostLeaves PROVE PictureInv'
  <2>1. UNCHANGED <<socket, paused, pending>>
    BY <1>18 DEF Control, Others, HostChangesFile, HostLeaves
  <2>2. Tells(<<"state">>) \/ Tells(<<"changed">>) \/ Tells(<<"state", "away">>)
    BY <1>18 DEF Control, Others, HostChangesFile, HostLeaves
  <2>3. pending' # {} => ~paused'
    BY <2>1 DEF PictureInv
  <2>4. /\ Len(<<"state">>) > 0 /\ <<"state">>[1] \in {"state", "changed"}
        /\ Len(<<"changed">>) > 0 /\ <<"changed">>[1] \in {"state", "changed"}
        /\ Len(<<"state", "away">>) > 0 /\ <<"state", "away">>[1] \in {"state", "changed"}
    OBVIOUS
  <2>5. CASE Tells(<<"state">>)
    BY <1>16, <1>17, <2>1, <2>3, <2>4, <2>5
  <2>6. CASE Tells(<<"changed">>)
    BY <1>16, <1>17, <2>1, <2>3, <2>4, <2>6
  <2>7. CASE Tells(<<"state", "away">>)
    BY <1>16, <1>17, <2>1, <2>3, <2>4, <2>7
  <2> QED
    BY <2>2, <2>5, <2>6, <2>7
<1>19. ASSUME HostReturns \/ Heartbeat PROVE PictureInv'
  <2>1. UNCHANGED <<video, fileVersion, snapshot, socket, verified, refused, paused, pending,
                    autoplayBlocked, commands>>
    BY <1>19 DEF HostReturns, Heartbeat
  <2>2. Tells(<<"back">>) \/ Tells(<<"check">>)
    BY <1>19 DEF HostReturns, Heartbeat
  <2>3. Told => Told'
    BY <1>0, <1>17, <2>2, ToldKept
  <2> QED
    BY <1>2, <2>1, <2>3 DEF Commanded, Announced
<1>20. ASSUME RefuseControl PROVE PictureInv'
  <2>1. /\ UNCHANGED <<video, fileVersion, snapshot, socket, verified, paused, pending,
                       autoplayBlocked, inbox>>
        /\ commands # <<>> /\ commands' = Tail(commands)
        /\ Head(commands)[1] \in {"play", "pause", "seek"}
        /\ (refused => refused') /\ (Head(commands)[1] # "seek" => refused')
    BY <1>20 DEF RefuseControl, Serves
  <2>2. CASE Head(commands)[1] # "seek"
    BY <2>1, <2>2 DEF PictureInv, Loaded, Told
  <2>3. CASE Head(commands)[1] = "seek"
    <3>1. Head(commands) # <<"ready", fileVersion>>
      BY <2>3
    <3>2. (Commanded => Commanded') /\ (Announced => Announced')
      BY <1>0, <2>1, <2>3, <3>1, ServedCommanded, ServedAnnounced
    <3>3. (pending' # {} => ~paused') /\ (Agrees => Agrees') /\ (Told => Told')
      BY <2>1 DEF Agrees, PictureInv, Told
    <3> QED
      BY <2>1, <3>2, <3>3, PictureKept
  <2> QED
    BY <2>2, <2>3
<1>21. ASSUME EvaluateDrift \/ Reconnect PROVE PictureInv'
  <2>1. /\ UNCHANGED <<video, fileVersion, snapshot, socket, verified, refused, paused, pending,
                       autoplayBlocked>>
        /\ commands # <<>> /\ commands' = Tail(commands)
        /\ Head(commands)[1] \in {"report", "cannot", "reconnect"}
    BY <1>21 DEF EvaluateDrift, Reconnect, Serves
  <2>2. Head(commands) # <<"ready", fileVersion>> /\ Head(commands)[1] \notin {"play", "pause"}
    BY <2>1
  <2>3. (Commanded => Commanded') /\ (Announced => Announced')
    BY <1>0, <2>1, <2>2, ServedCommanded, ServedAnnounced
  <2>4. UNCHANGED inbox \/ Tells(<<"state">>) \/ Tells(<<"rate">>)
    BY <1>21 DEF EvaluateDrift, Reconnect
  <2>5. Told => Told'
    BY <1>0, <1>17, <2>4, ToldKept DEF Told
  <2> QED
    BY <1>2, <2>1, <2>3, <2>5
<1>22. ASSUME Ready PROVE PictureInv'
  <2>1. /\ UNCHANGED <<video, fileVersion, snapshot, socket, verified, refused, paused, pending,
                       autoplayBlocked>>
        /\ commands # <<>> /\ commands' = Tail(commands) /\ Head(commands)[1] = "ready"
    BY <1>22 DEF Ready, Serves
  <2>2. pending' # {} => ~paused'
    BY <2>1 DEF PictureInv
  <2>3. CASE Head(commands)[2] = roomVersion /\ verified
    <3>1. Tells(<<"state">>)
      BY <1>22, <2>3 DEF Ready
    <3>2. Len(<<"state">>) > 0 /\ <<"state">>[1] = "state"
      OBVIOUS
    <3> QED
      BY <1>16, <1>17, <2>1, <2>2, <3>1, <3>2
  <2>4. CASE ~(Head(commands)[2] = roomVersion /\ verified)
    <3>1. UNCHANGED inbox
      BY <1>22, <2>4 DEF Ready
    <3>2. Commanded => Commanded'
      BY <1>0, <2>1, ServedCommanded
    <3>3. (Agrees => Agrees') /\ (Told => Told')
      BY <2>1, <3>1 DEF Agrees, Told
    <3>4. CASE Head(commands) # <<"ready", fileVersion>>
      <4>1. Announced => Announced'
        BY <1>0, <2>1, <3>4, ServedAnnounced
      <4> QED
        BY <1>2, <2>1, <3>2, <3>3, <4>1
    <3>5. CASE Head(commands) = <<"ready", fileVersion>>
      <4>1. socket /\ fileVersion # roomVersion => Told
        <5> SUFFICES ASSUME socket, fileVersion # roomVersion PROVE Told
          OBVIOUS
        <5>1. PICK i \in 1..Len(inbox) : inbox[i].kind \in Moves
          BY DEF MailInv, Mail, Known
        <5> QED
          BY <5>1 DEF Told, Silent, News
      <4>2. socket /\ Loaded /\ snapshot.version # fileVersion => Told
        BY <2>4, <3>5, <4>1 DEF PictureInv
      <4>3. video = "ready" => Loaded
        BY DEF Loaded
      <4> QED
        BY <2>1, <2>2, <3>2, <3>3, <4>2, <4>3 DEF PictureInv, Loaded
    <3> QED
      BY <3>4, <3>5
  <2> QED
    BY <2>3, <2>4
<1>23. ASSUME Drop \/ ServerRestarts PROVE PictureInv'
  <2>1. socket' = FALSE /\ UNCHANGED <<pending, paused>>
    BY <1>23 DEF Drop, ServerRestarts
  <2> QED
    BY <2>1 DEF PictureInv
<1>24. ASSUME Connect PROVE PictureInv'
  <2>1. PICK m : m = Message("room")
    OBVIOUS
  <2>2. m.kind \in News
    BY <2>1 DEF Message, News, Moves
  <2>3. inbox' = <<m>> /\ UNCHANGED <<pending, paused>>
    BY <1>24, <2>1 DEF Connect
  <2>4. 1 \in 1..Len(inbox') /\ inbox'[1] = m
    BY <2>3
  <2>5. Told'
    BY <2>2, <2>4 DEF Told, Silent
  <2> QED
    BY <2>3, <2>5 DEF PictureInv
<1>25. ASSUME DropsMessage PROVE PictureInv'
  <2>1. /\ UNCHANGED <<video, fileVersion, snapshot, socket, verified, inbox, paused, pending,
                       autoplayBlocked>>
        /\ commands # <<>> /\ commands' = Tail(commands) /\ (refused => refused')
    BY <1>25 DEF DropsMessage
  <2>2. CASE refused'
    BY <2>1, <2>2 DEF PictureInv, Loaded, Told
  <2>3. CASE ~refused'
    <3>1. /\ Head(commands)[1] \notin {"play", "pause"}
          /\ Head(commands)[1] = "ready" => snapshot.version = fileVersion
      BY <1>25, <2>3 DEF DropsMessage
    <3>2. Commanded => Commanded'
      BY <1>0, <2>1, <3>1, ServedCommanded
    <3>3. snapshot.version # fileVersion /\ Announced => Announced'
      <4> SUFFICES ASSUME snapshot.version # fileVersion, Announced PROVE Announced'
        OBVIOUS
      <4>1. Head(commands) # <<"ready", fileVersion>>
        BY <3>1
      <4> QED
        BY <1>0, <2>1, <4>1, ServedAnnounced
    <3>4. (Told => Told') /\ (Agrees => Agrees')
      BY <2>1 DEF Told, Agrees
    <3> QED
      BY <2>1, <2>3, <3>2, <3>3, <3>4 DEF PictureInv, Loaded
  <2> QED
    BY <2>2, <2>3
<1> QED
  BY <1>3, <1>4, <1>5, <1>6, <1>7, <1>8, <1>9, <1>10, <1>11, <1>12, <1>13, <1>14, <1>15, <1>18,
     <1>19, <1>20, <1>21, <1>22, <1>23, <1>24, <1>25 DEF Next

\* When everything has arrived, the picture runs exactly when the room does, or the user
\* is asked to start it, unless a command of this participant was dropped, or the
\* announcement that asks for the state of a new file.
THEOREM PictureIsInStep == Spec => []InStep
<1>1. TypeInv /\ MailInv /\ PictureInv => InStep
  <2> SUFFICES ASSUME TypeInv, MailInv, PictureInv, Quiet, Shows, ~refused
               PROVE  ~paused = roomPlaying \/ (roomPlaying /\ autoplayBlocked)
    BY DEF InStep
  <2>1. socket /\ inbox = <<>> /\ commands = <<>> /\ video = "ready"
    BY DEF Quiet, Shows
  <2>2. Len(<<>>) = 0 /\ 1..0 = {}
    OBVIOUS
  <2>3. Silent(inbox) /\ ~Told /\ ~Commanded /\ ~Announced
    BY <2>1, <2>2 DEF Silent, Told, Commanded, Announced
  <2>4. snapshot.version = fileVersion /\ Agrees
    BY <2>1, <2>3 DEF PictureInv
  <2>5. roomPlaying = snapshot.playing
    BY <2>1, <2>3, <2>4 DEF MailInv, Mail, Known
  <2>6. paused \in BOOLEAN /\ roomPlaying \in BOOLEAN
    BY DEF TypeInv, ElementOK, RoomOK
  <2>7. IF roomPlaying THEN ~paused \/ autoplayBlocked ELSE paused
    BY <2>4, <2>5 DEF Agrees
  <2>8. CASE roomPlaying = TRUE
    BY <2>6, <2>7, <2>8
  <2>9. CASE roomPlaying = FALSE
    BY <2>6, <2>7, <2>9
  <2> QED
    BY <2>6, <2>8, <2>9
<1> QED
  BY <1>1, TypesHold, InitAnnounceInv, NextAnnounceInv, InitMailInv, NextMailInv, InitPictureInv,
     NextPictureInv, PTL DEF Spec
=============================================================================
