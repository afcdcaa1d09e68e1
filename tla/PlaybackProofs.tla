---------------------------- MODULE PlaybackProofs ----------------------------
(***************************************************************************)
(* Proofs about PlaybackControl for any set of users and any number of     *)
(* file versions: its types, that the status it shows is true, that        *)
(* nothing plays without a file, and that it implements RoomStatus.        *)
(***************************************************************************)
EXTENDS PlaybackControl, TLAPS

\* Dropping the RoomState leaves well-typed values, whatever it was.
LEMMA DropStateTypes ==
    ASSUME DropState
    PROVE  /\ present' \in BOOLEAN /\ status' \in Status
           /\ saved' \in Status \cup {"none"} /\ playing' \in BOOLEAN
           /\ version' \in 0..MaxVersion
           /\ holder' \in SUBSET User
<1>1. 0 \in 0..MaxVersion
  BY BoundsAssumption
<1>2. status' \in Status /\ saved' \in Status \cup {"none"} /\ holder' \in SUBSET User
  BY DEF DropState, Status
<1>3. present' \in BOOLEAN /\ playing' \in BOOLEAN
  BY DEF DropState
<1> QED
  BY <1>1, <1>2, <1>3 DEF DropState

\* Every step preserves the types.
LEMMA NextTypeOK == TypeOK /\ [Next]_vars => TypeOK'
<1> SUFFICES ASSUME TypeOK, [Next]_vars PROVE TypeOK'
  OBVIOUS
<1> USE HostAssumption, BoundsAssumption
    DEF TypeOK, Status, Command, HandlerState, roomState, presence, handler, Goto
<1>1. ASSUME NEW u \in User, Connect(u) PROVE TypeOK'
  BY <1>1 DEF Connect
<1>2. ASSUME NEW u \in User, LoadRoomInfo(u) PROVE TypeOK'
  BY <1>2 DEF LoadRoomInfo
<1>3. ASSUME NEW u \in User, Refuse(u) PROVE TypeOK'
  BY <1>3, DropStateTypes DEF Refuse
<1>4. ASSUME NEW u \in User, Resume(u) PROVE TypeOK'
  BY <1>4 DEF Resume
<1>5. ASSUME NEW u \in User, NEW c \in Command, CheckControl(u, c) PROVE TypeOK'
  BY <1>5 DEF CheckControl
<1>6. ASSUME NEW u \in User, RejectControl(u) PROVE TypeOK'
  BY <1>6 DEF RejectControl
<1>7. ASSUME NEW u \in User, ApplyControl(u) PROVE TypeOK'
  BY <1>7 DEF ApplyControl, Played, Paused
<1>8. ASSUME NEW u \in User, Drop(u) PROVE TypeOK'
  BY <1>8 DEF Drop
<1>9. ASSUME NEW u \in User, Disconnect(u) PROVE TypeOK'
  <2>1. /\ present' \in BOOLEAN /\ status' \in Status
        /\ saved' \in Status \cup {"none"} /\ playing' \in BOOLEAN
        /\ version' \in 0..MaxVersion
        /\ holder' \in SUBSET User
    BY <1>9, DropStateTypes DEF Disconnect, AutoPause, Paused
  <2>2. /\ online' \in SUBSET User /\ keys' \in SUBSET User /\ hostRecord' \in BOOLEAN
        /\ pc' \in [User -> HandlerState]
    BY <1>9 DEF Disconnect, StartGrace
  <2> QED
    BY <1>9, <2>1, <2>2 DEF Disconnect
<1>10. ASSUME NEW u \in User, EndNotify(u) PROVE TypeOK'
  BY <1>10 DEF EndNotify, StartGrace
<1>11. ASSUME NEW u \in User, IssueTicket(u) PROVE TypeOK'
  BY <1>11 DEF IssueTicket
<1>12. ASSUME NEW u \in User, CloseUser(u) PROVE TypeOK'
  BY <1>12, DropStateTypes DEF CloseUser
<1>13. ASSUME RequestChange PROVE TypeOK'
  BY <1>13 DEF RequestChange
<1>14. ASSUME CommitChange PROVE TypeOK'
  BY <1>14 DEF CommitChange
<1>15. ASSUME PublishChange PROVE TypeOK'
  BY <1>15 DEF PublishChange
<1>16. ASSUME CloseRoom PROVE TypeOK'
  BY <1>16, DropStateTypes DEF CloseRoom
<1>17. CASE UNCHANGED vars
  BY <1>17 DEF vars
<1> QED
  BY <1>1, <1>2, <1>3, <1>4, <1>5, <1>6, <1>7, <1>8, <1>9, <1>10, <1>11, <1>12,
     <1>13, <1>14, <1>15, <1>16, <1>17 DEF Next, HandlerStep

\* PlaybackControl is well typed.
THEOREM TypeCorrect == Spec => []TypeOK
<1>1. ASSUME Init PROVE TypeOK
  <2>1. /\ dbVersion \in 0..MaxVersion /\ version \in 0..MaxVersion
        /\ seen \in [User -> 0..MaxVersion]
    BY <1>1, BoundsAssumption DEF Init
  <2>2. /\ active \in BOOLEAN /\ present \in BOOLEAN /\ playing \in BOOLEAN
        /\ hostRecord \in BOOLEAN
    BY <1>1 DEF Init
  <2>3. /\ status \in Status /\ saved \in Status \cup {"none"}
        /\ online \in SUBSET User /\ keys \in SUBSET User /\ holder \in SUBSET User
        /\ pc \in [User -> HandlerState] /\ command \in [User -> Command]
    BY <1>1 DEF Init, Status, Command, HandlerState
  <2> QED
    BY <2>1, <2>2, <2>3 DEF TypeOK
<1>2. TypeOK /\ [Next]_vars => TypeOK'
  BY NextTypeOK
<1> QED
  BY <1>1, <1>2, PTL DEF Spec

-----------------------------------------------------------------------------
(* The status of the room is true.                                         *)

\* PlayingStatusIsTrue is inductive for well-typed states: the status saved by the
\* autopause is resumable because a room that says it is playing was playing.
LEMMA NextPlayingStatus ==
    TypeOK /\ PlayingStatusIsTrue /\ [Next]_vars => PlayingStatusIsTrue'
<1> SUFFICES ASSUME TypeOK, PlayingStatusIsTrue, [Next]_vars
             PROVE  PlayingStatusIsTrue'
  OBVIOUS
<1> USE DEF TypeOK, Status, PlayingStatusIsTrue, roomState
<1>1. ASSUME NEW u \in User, Connect(u) PROVE PlayingStatusIsTrue'
  BY <1>1 DEF Connect
<1>2. ASSUME NEW u \in User, LoadRoomInfo(u) PROVE PlayingStatusIsTrue'
  BY <1>2 DEF LoadRoomInfo
<1>3. ASSUME NEW u \in User, Refuse(u) PROVE PlayingStatusIsTrue'
  BY <1>3 DEF Refuse, DropState
<1>4. ASSUME NEW u \in User, Resume(u) PROVE PlayingStatusIsTrue'
  BY <1>4 DEF Resume
<1>5. ASSUME NEW u \in User, NEW c \in Command, CheckControl(u, c)
      PROVE  PlayingStatusIsTrue'
  BY <1>5 DEF CheckControl
<1>6. ASSUME NEW u \in User, RejectControl(u) PROVE PlayingStatusIsTrue'
  BY <1>6 DEF RejectControl
<1>7. ASSUME NEW u \in User, ApplyControl(u) PROVE PlayingStatusIsTrue'
  BY <1>7 DEF ApplyControl, Played, Paused
<1>8. ASSUME NEW u \in User, Drop(u) PROVE PlayingStatusIsTrue'
  BY <1>8 DEF Drop
<1>9. ASSUME NEW u \in User, Disconnect(u) PROVE PlayingStatusIsTrue'
  <2>1. CASE DropState
    BY <2>1 DEF DropState
  <2>2. CASE AutoPause
    BY <2>2 DEF AutoPause, Paused
  <2>3. CASE UNCHANGED << status, saved, playing >>
    BY <2>3
  <2> QED
    BY <1>9, <2>1, <2>2, <2>3 DEF Disconnect
<1>10. ASSUME NEW u \in User, EndNotify(u) PROVE PlayingStatusIsTrue'
  BY <1>10 DEF EndNotify
<1>11. ASSUME NEW u \in User, IssueTicket(u) PROVE PlayingStatusIsTrue'
  BY <1>11 DEF IssueTicket
<1>12. ASSUME NEW u \in User, CloseUser(u) PROVE PlayingStatusIsTrue'
  BY <1>12 DEF CloseUser, DropState
<1>13. ASSUME RequestChange PROVE PlayingStatusIsTrue'
  BY <1>13 DEF RequestChange
<1>14. ASSUME CommitChange PROVE PlayingStatusIsTrue'
  BY <1>14 DEF CommitChange
<1>15. ASSUME PublishChange PROVE PlayingStatusIsTrue'
  BY <1>15 DEF PublishChange
<1>16. ASSUME CloseRoom PROVE PlayingStatusIsTrue'
  BY <1>16 DEF CloseRoom, DropState
<1>17. CASE UNCHANGED vars
  BY <1>17 DEF vars
<1> QED
  BY <1>1, <1>2, <1>3, <1>4, <1>5, <1>6, <1>7, <1>8, <1>9, <1>10, <1>11, <1>12,
     <1>13, <1>14, <1>15, <1>16, <1>17 DEF Next, HandlerStep

\* A room that says it is playing plays, and is saved as resumable when its host
\* drops.
THEOREM PlayingStatusHolds == Spec => []PlayingStatusIsTrue
<1>1. Init => PlayingStatusIsTrue
  BY DEF Init, PlayingStatusIsTrue
<1>2. TypeOK /\ PlayingStatusIsTrue /\ [Next]_vars => PlayingStatusIsTrue'
  BY NextPlayingStatus
<1> QED
  BY <1>1, <1>2, TypeCorrect, PTL DEF Spec

-----------------------------------------------------------------------------
(* Nothing plays without a reference file.                                 *)

\* The strengthening of PlaybackNeedsFile that is inductive: a room saved as paused
\* has a file, and so has a RoomState that a control command captured; and a change
\* about to be published has a version.
FileInv ==
    /\ PlaybackNeedsFile
    /\ status = "closing" /\ saved = "paused" => version > 0
    /\ holder # {} => version > 0
    /\ pc[Host] = "changed" => seen[Host] > 0

\* FileInv is preserved by every step.
LEMMA NextFileInv ==
    TypeOK /\ PlayingStatusIsTrue /\ FileInv /\ [Next]_vars => FileInv'
<1> SUFFICES ASSUME TypeOK, PlayingStatusIsTrue, FileInv, [Next]_vars
             PROVE  FileInv'
  OBVIOUS
<1> USE HostAssumption, BoundsAssumption
    DEF TypeOK, Status, PlayingStatusIsTrue, PlaybackNeedsFile, FileInv, roomState, Goto
<1>1. ASSUME NEW u \in User, Connect(u) PROVE FileInv'
  BY <1>1 DEF Connect
<1>2. ASSUME NEW u \in User, LoadRoomInfo(u) PROVE FileInv'
  BY <1>2 DEF LoadRoomInfo
<1>3. ASSUME NEW u \in User, Refuse(u) PROVE FileInv'
  BY <1>3 DEF Refuse, DropState
<1>4. ASSUME NEW u \in User, Resume(u) PROVE FileInv'
  BY <1>4 DEF Resume
<1>5. ASSUME NEW u \in User, NEW c \in Command, CheckControl(u, c) PROVE FileInv'
  BY <1>5 DEF CheckControl
<1>6. ASSUME NEW u \in User, RejectControl(u) PROVE FileInv'
  BY <1>6 DEF RejectControl
<1>7. ASSUME NEW u \in User, ApplyControl(u) PROVE FileInv'
  BY <1>7 DEF ApplyControl, Played, Paused
<1>8. ASSUME NEW u \in User, Drop(u) PROVE FileInv'
  BY <1>8 DEF Drop
<1>9. ASSUME NEW u \in User, Disconnect(u) PROVE FileInv'
  <2>1. pc'[Host] = "changed" => seen'[Host] > 0
    BY <1>9 DEF Disconnect
  <2>2. CASE DropState
    BY <2>1, <2>2 DEF DropState
  <2>3. CASE AutoPause /\ UNCHANGED << version, holder >>
    BY <2>1, <2>3 DEF AutoPause, Paused
  <2>4. CASE UNCHANGED << status, saved, playing, version, holder >>
    BY <2>1, <2>4
  <2> QED
    BY <1>9, <2>2, <2>3, <2>4 DEF Disconnect
<1>10. ASSUME NEW u \in User, EndNotify(u) PROVE FileInv'
  BY <1>10 DEF EndNotify
<1>11. ASSUME NEW u \in User, IssueTicket(u) PROVE FileInv'
  BY <1>11 DEF IssueTicket, handler
<1>12. ASSUME NEW u \in User, CloseUser(u) PROVE FileInv'
  BY <1>12 DEF CloseUser, DropState
<1>13. ASSUME RequestChange PROVE FileInv'
  BY <1>13 DEF RequestChange
<1>14. ASSUME CommitChange PROVE FileInv'
  BY <1>14 DEF CommitChange
<1>15. ASSUME PublishChange PROVE FileInv'
  BY <1>15 DEF PublishChange
<1>16. ASSUME CloseRoom PROVE FileInv'
  BY <1>16 DEF CloseRoom, DropState
<1>17. CASE UNCHANGED vars
  BY <1>17 DEF vars, handler
<1> QED
  BY <1>1, <1>2, <1>3, <1>4, <1>5, <1>6, <1>7, <1>8, <1>9, <1>10, <1>11, <1>12,
     <1>13, <1>14, <1>15, <1>16, <1>17 DEF Next, HandlerStep

\* Nothing plays, or is paused, in a room without a reference file.
THEOREM NoPlaybackWithoutFile == Spec => []PlaybackNeedsFile
<1>1. Init => FileInv
  BY HostAssumption DEF Init, FileInv, PlaybackNeedsFile
<1>2. TypeOK /\ PlayingStatusIsTrue /\ FileInv /\ [Next]_vars => FileInv'
  BY NextFileInv
<1>3. FileInv => PlaybackNeedsFile
  BY DEF FileInv
<1> QED
  BY <1>1, <1>2, <1>3, TypeCorrect, PlayingStatusHolds, PTL DEF Spec

-----------------------------------------------------------------------------
(* PlaybackControl implements RoomStatus.                                  *)

\* Every step of the handlers is a step of the life cycle, or changes no status.
LEMMA NextCycle ==
    TypeOK /\ PlayingStatusIsTrue /\ [Next]_vars => [Cycle!Next]_<< status, saved >>
<1> SUFFICES ASSUME TypeOK, PlayingStatusIsTrue, [Next]_vars
             PROVE  Cycle!Next \/ UNCHANGED << status, saved >>
  OBVIOUS
<1> USE DEF TypeOK, Status, PlayingStatusIsTrue, roomState
<1>1. DropState => Cycle!Forget
  BY DEF DropState, Cycle!Forget
<1>2. ASSUME NEW u \in User, Connect(u) \/ LoadRoomInfo(u) \/ RejectControl(u) \/ Drop(u)
                             \/ EndNotify(u) \/ IssueTicket(u)
      PROVE  UNCHANGED << status, saved >>
  BY <1>2 DEF Connect, LoadRoomInfo, RejectControl, Drop, EndNotify, IssueTicket
<1>3. ASSUME NEW u \in User, Refuse(u) \/ CloseUser(u)
      PROVE  Cycle!Forget \/ UNCHANGED << status, saved >>
  BY <1>1, <1>3 DEF Refuse, CloseUser
<1>4. ASSUME NEW u \in User, Resume(u)
      PROVE  Cycle!NewFile \/ Cycle!HostReturns \/ UNCHANGED << status, saved >>
  BY <1>4 DEF Resume, Cycle!NewFile, Cycle!HostReturns
<1>5. ASSUME NEW u \in User, NEW c \in Command, CheckControl(u, c)
      PROVE  UNCHANGED << status, saved >>
  BY <1>5 DEF CheckControl
<1>6. ASSUME NEW u \in User, ApplyControl(u)
      PROVE  Cycle!Play \/ Cycle!Pause \/ UNCHANGED << status, saved >>
  BY <1>6 DEF ApplyControl, Played, Paused, Cycle!Play, Cycle!Pause
<1>7. ASSUME NEW u \in User, Disconnect(u)
      PROVE  Cycle!Forget \/ Cycle!HostLeaves \/ UNCHANGED << status, saved >>
  <2>1. CASE DropState
    BY <1>1, <2>1
  <2>2. CASE AutoPause
    BY <2>2 DEF AutoPause, Paused, Cycle!HostLeaves, Cycle!Open
  <2>3. CASE UNCHANGED << status, saved, playing >>
    BY <2>3
  <2> QED
    BY <1>7, <2>1, <2>2, <2>3 DEF Disconnect
<1>8. ASSUME RequestChange \/ CommitChange PROVE UNCHANGED << status, saved >>
  BY <1>8 DEF RequestChange, CommitChange
<1>9. ASSUME PublishChange PROVE Cycle!NewFile \/ UNCHANGED << status, saved >>
  BY <1>9 DEF PublishChange, Cycle!NewFile
<1>10. CASE CloseRoom
  BY <1>1, <1>10 DEF CloseRoom, Cycle!Next
<1>11. CASE UNCHANGED vars
  BY <1>11 DEF vars
<1> QED
  BY <1>2, <1>3, <1>4, <1>5, <1>6, <1>7, <1>8, <1>9, <1>10, <1>11
     DEF Next, HandlerStep, Cycle!Next

\* The room_status of the server goes through the documented life cycle only.
THEOREM Refinement == Spec => ImplementsRoomStatus
<1>1. Init => Cycle!Init
  BY DEF Init, Cycle!Init
<1>2. TypeOK /\ PlayingStatusIsTrue /\ [Next]_vars => [Cycle!Next]_<< status, saved >>
  BY NextCycle
<1> QED
  BY <1>1, <1>2, TypeCorrect, PlayingStatusHolds, PTL
     DEF Spec, ImplementsRoomStatus, Cycle!Spec
=============================================================================
