---------------------------- MODULE FileGateProofs ----------------------------
(***************************************************************************)
(* Proofs about FileGate for any set of users and files and any bounds:    *)
(* its types, and that nobody is ready who never proved to have a file;    *)
(* with one tab of the host, that file versions only grow; with one tab of *)
(* everybody, that the RoomState follows the database and that the host's  *)
(* readiness is for the current file.                                      *)
(***************************************************************************)
EXTENDS FileGate, TLAPS

\* A session is a numbered tab of a user.
LEMMA SessionType == \A s \in Session : Owner(s) \in User /\ s[2] \in Nat
  BY HostAssumption, BoundsAssumption DEF Session, Owner

\* Unregistering a user leaves well-typed values.
LEMMA UnregisterTypes ==
    ASSUME TypeOK, NEW u \in User, NEW pending, NEW kept \in SUBSET User,
           Unregister(u, pending, kept)
    PROVE  /\ live' \in [User -> Nat] /\ verified' \in SUBSET User
           /\ present' \in BOOLEAN /\ version' \in 0..MaxVersion
           /\ holder' \in SUBSET Session
<1>1. live' \in [User -> Nat]
  BY DEF Unregister, TypeOK
<1>2. CASE Occupied(u) \/ pending
  BY <1>1, <1>2 DEF Unregister, TypeOK
<1>3. CASE ~(Occupied(u) \/ pending)
  <2>1. present' = FALSE /\ version' = 0 /\ verified' = {} /\ holder' = {}
    BY <1>3 DEF Unregister
  <2>2. 0 \in 0..MaxVersion
    BY BoundsAssumption
  <2> QED
    BY <1>1, <2>1, <2>2
<1> QED
  BY <1>2, <1>3

\* The types, and what keeps the file version within its bound between the two
\* halves of update_file_info.
TypeInv ==
    /\ TypeOK
    /\ \A s \in Session : pc[s] = "changeLoaded" => seen[s] < MaxVersion

\* Every step preserves TypeInv.
LEMMA NextTypeInv == TypeInv /\ [Next]_vars => TypeInv'
<1> SUFFICES ASSUME TypeInv, [Next]_vars PROVE TypeInv'
  OBVIOUS
<1> USE HostAssumption, FileAssumption, BoundsAssumption, SessionType
    DEF TypeInv, TypeOK, HandlerState, database, memory, presence, handler, rest,
        history, Goto
<1>1. ASSUME NEW s \in Session, Connect(s) PROVE TypeInv'
  BY <1>1 DEF Connect
<1>2. ASSUME NEW s \in Session, LoadRoomInfo(s) PROVE TypeInv'
  BY <1>2 DEF LoadRoomInfo
<1>3. ASSUME NEW s \in Session, Resume(s) PROVE TypeInv'
  BY <1>3 DEF Resume
<1>4. ASSUME NEW s \in Session, RestoreReady(s) PROVE TypeInv'
  BY <1>4 DEF RestoreReady, SetReady
<1>5. ASSUME NEW s \in Session, RestoreVerified(s) PROVE TypeInv'
  BY <1>5 DEF RestoreVerified
<1>6. ASSUME NEW s \in Session, Drop(s) PROVE TypeInv'
  BY <1>6 DEF Drop
<1>7. ASSUME NEW s \in Session, ReadWasReady(s) PROVE TypeInv'
  BY <1>7 DEF ReadWasReady
<1>8. ASSUME NEW s \in Session, Disconnect(s) PROVE TypeInv'
  <2> DEFINE u == Owner(s)
  <2>1. u \in User
    OBVIOUS
  <2>2. CASE live[u] = s[2]
    <3>1. /\ live' \in [User -> Nat] /\ verified' \in SUBSET User
          /\ present' \in BOOLEAN /\ version' \in 0..MaxVersion
          /\ holder' \in SUBSET Session
      BY <1>8, <2>1, <2>2, UnregisterTypes DEF Disconnect
    <3>2. /\ timer' \in [User -> {"none", "sleeping", "fired", "marked", "done"}]
          /\ record' \in [User -> {"none", "ready", "notReady"}]
          /\ wasReady' \in SUBSET Session
          /\ pc' \in [Session -> HandlerState]
          /\ \A t \in Session : pc'[t] = "changeLoaded" => pc[t] = "changeLoaded"
      BY <1>8, <2>1, <2>2 DEF Disconnect, StartGracePeriod
    <3> QED
      BY <1>8, <3>1, <3>2 DEF Disconnect
  <2>3. CASE live[u] # s[2]
    BY <1>8, <2>3 DEF Disconnect
  <2> QED
    BY <2>2, <2>3
<1>9. ASSUME NEW s \in Session, StartGrace(s) PROVE TypeInv'
  BY <1>9 DEF StartGrace, StartGracePeriod
<1>10. ASSUME NEW s \in Session, NEW f \in File, VerifyRequest(s, f) PROVE TypeInv'
  BY <1>10 DEF VerifyRequest, Serving
<1>11. ASSUME NEW s \in Session, ChangeLoad(s) PROVE TypeInv'
  BY <1>11 DEF ChangeLoad
<1>12. ASSUME NEW s \in Session, ChangeCommit(s) PROVE TypeInv'
  BY <1>12 DEF ChangeCommit
<1>13. ASSUME NEW s \in Session, ChangePublish(s) PROVE TypeInv'
  BY <1>13 DEF ChangePublish
<1>14. ASSUME NEW s \in Session, Confirm(s) PROVE TypeInv'
  BY <1>14 DEF Confirm, AddVerified
<1>15. ASSUME NEW s \in Session, Match(s) PROVE TypeInv'
  BY <1>15 DEF Match, AddVerified
<1>16. ASSUME NEW s \in Session, Ready(s) PROVE TypeInv'
  BY <1>16 DEF Ready, Serving
<1>17. ASSUME NEW s \in Session, ReadyLoad(s) PROVE TypeInv'
  BY <1>17 DEF ReadyLoad
<1>18. ASSUME NEW s \in Session, ReadyCommit(s) PROVE TypeInv'
  BY <1>18 DEF ReadyCommit, SetReady
<1>19. ASSUME NEW s \in Session, NotReady(s) PROVE TypeInv'
  BY <1>19 DEF NotReady, Serving
<1>20. ASSUME NEW s \in Session, NotReadyCommit(s) PROVE TypeInv'
  BY <1>20 DEF NotReadyCommit
<1>21. ASSUME NEW u \in User, IssueTicket(u) PROVE TypeInv'
  BY <1>21 DEF IssueTicket
<1>22. ASSUME NEW u \in User, GraceFires(u) PROVE TypeInv'
  BY <1>22 DEF GraceFires
<1>23. ASSUME NEW u \in User, GracePersists(u) PROVE TypeInv'
  BY <1>23 DEF GracePersists, RowGone
<1>24. ASSUME NEW u \in User, GraceForgets(u) PROVE TypeInv'
  BY <1>24 DEF GraceForgets
<1>25. ASSUME NEW u \in User, Leave(u) PROVE TypeInv'
  BY <1>25 DEF Leave, RowGone
<1>26. ASSUME NEW u \in User, CloseUser(u) PROVE TypeInv'
  <2>1. /\ live' \in [User -> Nat] /\ verified' \in SUBSET User
        /\ present' \in BOOLEAN /\ version' \in 0..MaxVersion
        /\ holder' \in SUBSET Session
    <3>1. CASE live[u] # 0
      BY <1>26, <3>1, UnregisterTypes DEF CloseUser
    <3>2. CASE live[u] = 0
      BY <1>26, <3>2 DEF CloseUser
    <3> QED
      BY <3>1, <3>2
  <2> QED
    BY <1>26, <2>1 DEF CloseUser
<1>27. ASSUME NEW u \in User, Rejoin(u) PROVE TypeInv'
  BY <1>27 DEF Rejoin
<1>28. CASE UNCHANGED vars
  BY <1>28 DEF vars
<1> QED
  BY <1>1, <1>2, <1>3, <1>4, <1>5, <1>6, <1>7, <1>8, <1>9, <1>10, <1>11, <1>12,
     <1>13, <1>14, <1>15, <1>16, <1>17, <1>18, <1>19, <1>20, <1>21, <1>22, <1>23,
     <1>24, <1>25, <1>26, <1>27, <1>28
     DEF Next, HandlerStep, UserStep

\* FileGate is well typed.
THEOREM TypeCorrect == Spec => []TypeOK
<1>1. ASSUME Init PROVE TypeInv
  <2>1. /\ dbVersion \in 0..MaxVersion /\ version \in 0..MaxVersion
        /\ seen \in [Session -> 0..MaxVersion] /\ leaves \in 0..MaxLeaves
        /\ provedAt \in [User -> 0..MaxVersion] /\ readyFor \in [User -> 0..MaxVersion]
    BY <1>1, BoundsAssumption DEF Init
  <2>2. /\ dbFile \in File \cup {NoFile} /\ present \in BOOLEAN
        /\ member \in SUBSET User /\ ready \in SUBSET User /\ verified \in SUBSET User
        /\ wasReady \in SUBSET Session /\ holder \in SUBSET Session
        /\ leaving \in SUBSET User
    BY <1>1 DEF Init
  <2>3. /\ live \in [User -> Nat]
        /\ timer \in [User -> {"none", "sleeping", "fired", "marked", "done"}]
        /\ record \in [User -> {"none", "ready", "notReady"}]
        /\ pc \in [Session -> HandlerState]
        /\ want \in [Session -> File \cup {NoFile}]
        /\ rows \in [Session -> SUBSET User]
    BY <1>1 DEF Init, HandlerState
  <2>4. \A s \in Session : pc[s] # "changeLoaded"
    BY <1>1 DEF Init
  <2> QED
    BY <2>1, <2>2, <2>3, <2>4 DEF TypeInv, TypeOK
<1>2. TypeInv /\ [Next]_vars => TypeInv'
  BY NextTypeInv
<1>3. TypeInv => TypeOK
  BY DEF TypeInv
<1> QED
  BY <1>1, <1>2, <1>3, PTL DEF Spec

-----------------------------------------------------------------------------
(* Nobody is ready who never proved to have a file.                        *)

\* Handlers that are past the gate, or on the way to restore what was behind it.
PastGate == {"readying", "readyLoaded", "restoring", "restored"}

\* The strengthening of ReadyWasProved that is inductive: everything is_ready can be
\* restored or set from belongs to users who proved a file, and a file that is
\* compared with has a version.
ProvedInv ==
    /\ \A u \in User : u \in ready \cup verified \/ record[u] = "ready" => provedAt[u] > 0
    /\ \A s \in Session : pc[s] \in PastGate \/ s \in wasReady => provedAt[Owner(s)] > 0
    /\ \A s \in Session : pc[s] = "readyLoaded" => rows[s] \subseteq {Owner(s)}
    /\ \A s \in Session : pc[s] \in {"confirming", "matching", "changed"} => seen[s] > 0
    /\ dbFile \in File => dbVersion > 0

\* Every step preserves ProvedInv.
LEMMA NextProvedInv == TypeOK /\ ProvedInv /\ [Next]_vars => ProvedInv'
<1> SUFFICES ASSUME TypeOK, ProvedInv, [Next]_vars PROVE ProvedInv'
  OBVIOUS
<1> USE HostAssumption, FileAssumption, BoundsAssumption, SessionType
    DEF ProvedInv, PastGate, TypeOK, HandlerState, database, memory, presence, handler,
        rest, history, Goto
<1>1. ASSUME NEW s \in Session, Connect(s) PROVE ProvedInv'
  BY <1>1 DEF Connect
<1>2. ASSUME NEW s \in Session, LoadRoomInfo(s) PROVE ProvedInv'
  BY <1>2 DEF LoadRoomInfo
<1>3. ASSUME NEW s \in Session, Resume(s) PROVE ProvedInv'
  BY <1>3 DEF Resume
<1>4. ASSUME NEW s \in Session, RestoreReady(s) PROVE ProvedInv'
  BY <1>4 DEF RestoreReady, SetReady
<1>5. ASSUME NEW s \in Session, RestoreVerified(s) PROVE ProvedInv'
  BY <1>5 DEF RestoreVerified
<1>6. ASSUME NEW s \in Session, Drop(s) PROVE ProvedInv'
  BY <1>6 DEF Drop
<1>7. ASSUME NEW s \in Session, ReadWasReady(s) PROVE ProvedInv'
  BY <1>7 DEF ReadWasReady
<1>8. ASSUME NEW s \in Session, Disconnect(s) PROVE ProvedInv'
  BY <1>8 DEF Disconnect, Unregister, StartGracePeriod
<1>9. ASSUME NEW s \in Session, StartGrace(s) PROVE ProvedInv'
  BY <1>9 DEF StartGrace, StartGracePeriod
<1>10. ASSUME NEW s \in Session, NEW f \in File, VerifyRequest(s, f) PROVE ProvedInv'
  BY <1>10 DEF VerifyRequest, Serving
<1>11. ASSUME NEW s \in Session, ChangeLoad(s) PROVE ProvedInv'
  BY <1>11 DEF ChangeLoad
<1>12. ASSUME NEW s \in Session, ChangeCommit(s) PROVE ProvedInv'
  BY <1>12 DEF ChangeCommit
<1>13. ASSUME NEW s \in Session, ChangePublish(s) PROVE ProvedInv'
  BY <1>13 DEF ChangePublish
<1>14. ASSUME NEW s \in Session, Confirm(s) PROVE ProvedInv'
  BY <1>14 DEF Confirm, AddVerified
<1>15. ASSUME NEW s \in Session, Match(s) PROVE ProvedInv'
  BY <1>15 DEF Match, AddVerified
<1>16. ASSUME NEW s \in Session, Ready(s) PROVE ProvedInv'
  BY <1>16 DEF Ready, Serving
<1>17. ASSUME NEW s \in Session, ReadyLoad(s) PROVE ProvedInv'
  BY <1>17 DEF ReadyLoad
<1>18. ASSUME NEW s \in Session, ReadyCommit(s) PROVE ProvedInv'
  BY <1>18 DEF ReadyCommit, SetReady
<1>19. ASSUME NEW s \in Session, NotReady(s) PROVE ProvedInv'
  BY <1>19 DEF NotReady, Serving
<1>20. ASSUME NEW s \in Session, NotReadyCommit(s) PROVE ProvedInv'
  BY <1>20 DEF NotReadyCommit
<1>21. ASSUME NEW u \in User, IssueTicket(u) PROVE ProvedInv'
  BY <1>21 DEF IssueTicket
<1>22. ASSUME NEW u \in User, GraceFires(u) PROVE ProvedInv'
  BY <1>22 DEF GraceFires
<1>23. ASSUME NEW u \in User, GracePersists(u) PROVE ProvedInv'
  BY <1>23 DEF GracePersists, RowGone
<1>24. ASSUME NEW u \in User, GraceForgets(u) PROVE ProvedInv'
  BY <1>24 DEF GraceForgets
<1>25. ASSUME NEW u \in User, Leave(u) PROVE ProvedInv'
  BY <1>25 DEF Leave, RowGone
<1>26. ASSUME NEW u \in User, CloseUser(u) PROVE ProvedInv'
  BY <1>26 DEF CloseUser, Unregister
<1>27. ASSUME NEW u \in User, Rejoin(u) PROVE ProvedInv'
  BY <1>27 DEF Rejoin
<1>28. CASE UNCHANGED vars
  BY <1>28 DEF vars
<1> QED
  BY <1>1, <1>2, <1>3, <1>4, <1>5, <1>6, <1>7, <1>8, <1>9, <1>10, <1>11, <1>12,
     <1>13, <1>14, <1>15, <1>16, <1>17, <1>18, <1>19, <1>20, <1>21, <1>22, <1>23,
     <1>24, <1>25, <1>26, <1>27, <1>28
     DEF Next, HandlerStep, UserStep

\* Nobody is ready who never proved to have a reference file, through whatever
\* reconnections, restores, leaves and rejoins.
THEOREM ReadyUsersProved == Spec => []ReadyWasProved
<1>1. Init => ProvedInv
  BY FileAssumption DEF Init, ProvedInv, PastGate
<1>2. TypeOK /\ ProvedInv /\ [Next]_vars => ProvedInv'
  BY NextProvedInv
<1>3. TypeOK /\ ProvedInv => ReadyWasProved
  BY DEF TypeOK, ProvedInv, ReadyWasProved
<1> QED
  BY <1>1, <1>2, <1>3, TypeCorrect, PTL DEF Spec

-----------------------------------------------------------------------------
(* One tab of the host: versions only grow.                                *)

\* Only the host's handler confirms or changes the file, and between the two
\* halves of a change what it has read or written is the current version.
ChangersInv ==
    /\ \A s \in Session :
          /\ pc[s] \in {"confirming", "changing", "changeLoaded", "changed"} =>
                Owner(s) = Host
          /\ pc[s] \in {"changeLoaded", "changed"} => seen[s] = dbVersion
          /\ seen[s] <= dbVersion
    /\ version <= dbVersion

\* With one tab of the host there is one handler that changes the file.
LEMMA OneChanger ==
    HostTabs = 1 => \A s, t \in Session : Owner(s) = Host /\ Owner(t) = Host => s = t
  BY DEF Session, Owner

\* Every step preserves ChangersInv.
LEMMA NextChangersInv ==
    HostTabs = 1 /\ TypeOK /\ ChangersInv /\ [Next]_vars => ChangersInv'
<1> SUFFICES ASSUME HostTabs = 1, TypeOK, ChangersInv, [Next]_vars PROVE ChangersInv'
  OBVIOUS
<1> USE HostAssumption, FileAssumption, BoundsAssumption, SessionType, OneChanger
    DEF ChangersInv, TypeOK, HandlerState, database, memory, presence, handler,
        rest, history, Goto
<1>1. ASSUME NEW s \in Session, Connect(s) PROVE ChangersInv'
  BY <1>1 DEF Connect
<1>2. ASSUME NEW s \in Session, LoadRoomInfo(s) PROVE ChangersInv'
  BY <1>2 DEF LoadRoomInfo
<1>3. ASSUME NEW s \in Session, Resume(s) PROVE ChangersInv'
  BY <1>3 DEF Resume
<1>4. ASSUME NEW s \in Session, RestoreReady(s) PROVE ChangersInv'
  BY <1>4 DEF RestoreReady, SetReady
<1>5. ASSUME NEW s \in Session, RestoreVerified(s) PROVE ChangersInv'
  BY <1>5 DEF RestoreVerified
<1>6. ASSUME NEW s \in Session, Drop(s) PROVE ChangersInv'
  BY <1>6 DEF Drop
<1>7. ASSUME NEW s \in Session, ReadWasReady(s) PROVE ChangersInv'
  BY <1>7 DEF ReadWasReady
<1>8. ASSUME NEW s \in Session, Disconnect(s) PROVE ChangersInv'
  BY <1>8 DEF Disconnect, Unregister, Occupied, StartGracePeriod
<1>9. ASSUME NEW s \in Session, StartGrace(s) PROVE ChangersInv'
  BY <1>9 DEF StartGrace, StartGracePeriod
<1>10. ASSUME NEW s \in Session, NEW f \in File, VerifyRequest(s, f) PROVE ChangersInv'
  BY <1>10 DEF VerifyRequest, Serving
<1>11. ASSUME NEW s \in Session, ChangeLoad(s) PROVE ChangersInv'
  BY <1>11 DEF ChangeLoad
<1>12. ASSUME NEW s \in Session, ChangeCommit(s) PROVE ChangersInv'
  BY <1>12 DEF ChangeCommit
<1>13. ASSUME NEW s \in Session, ChangePublish(s) PROVE ChangersInv'
  BY <1>13 DEF ChangePublish
<1>14. ASSUME NEW s \in Session, Confirm(s) PROVE ChangersInv'
  BY <1>14 DEF Confirm, AddVerified
<1>15. ASSUME NEW s \in Session, Match(s) PROVE ChangersInv'
  BY <1>15 DEF Match, AddVerified
<1>16. ASSUME NEW s \in Session, Ready(s) PROVE ChangersInv'
  BY <1>16 DEF Ready, Serving
<1>17. ASSUME NEW s \in Session, ReadyLoad(s) PROVE ChangersInv'
  BY <1>17 DEF ReadyLoad
<1>18. ASSUME NEW s \in Session, ReadyCommit(s) PROVE ChangersInv'
  BY <1>18 DEF ReadyCommit, SetReady
<1>19. ASSUME NEW s \in Session, NotReady(s) PROVE ChangersInv'
  BY <1>19 DEF NotReady, Serving
<1>20. ASSUME NEW s \in Session, NotReadyCommit(s) PROVE ChangersInv'
  BY <1>20 DEF NotReadyCommit
<1>21. ASSUME NEW u \in User, IssueTicket(u) PROVE ChangersInv'
  BY <1>21 DEF IssueTicket
<1>22. ASSUME NEW u \in User, GraceFires(u) PROVE ChangersInv'
  BY <1>22 DEF GraceFires
<1>23. ASSUME NEW u \in User, GracePersists(u) PROVE ChangersInv'
  BY <1>23 DEF GracePersists, RowGone
<1>24. ASSUME NEW u \in User, GraceForgets(u) PROVE ChangersInv'
  BY <1>24 DEF GraceForgets
<1>25. ASSUME NEW u \in User, Leave(u) PROVE ChangersInv'
  BY <1>25 DEF Leave, RowGone
<1>26. ASSUME NEW u \in User, CloseUser(u) PROVE ChangersInv'
  BY <1>26 DEF CloseUser, Unregister, Occupied
<1>27. ASSUME NEW u \in User, Rejoin(u) PROVE ChangersInv'
  BY <1>27 DEF Rejoin
<1>28. CASE UNCHANGED vars
  BY <1>28 DEF vars
<1> QED
  BY <1>1, <1>2, <1>3, <1>4, <1>5, <1>6, <1>7, <1>8, <1>9, <1>10, <1>11, <1>12,
     <1>13, <1>14, <1>15, <1>16, <1>17, <1>18, <1>19, <1>20, <1>21, <1>22, <1>23,
     <1>24, <1>25, <1>26, <1>27, <1>28
     DEF Next, HandlerStep, UserStep

\* A step that does not lose the RoomState does not lower its version.
LEMMA StepKeepsVersion ==
    HostTabs = 1 /\ TypeOK /\ ChangersInv /\ [Next]_vars
        => (present /\ present' => version' >= version)
<1> SUFFICES ASSUME HostTabs = 1, TypeOK, ChangersInv, [Next]_vars, present, present'
             PROVE  version' >= version
  OBVIOUS
<1> USE HostAssumption, BoundsAssumption, SessionType
    DEF ChangersInv, TypeOK, database, memory, presence, handler, rest, history
<1>1. ASSUME NEW s \in Session, Connect(s) PROVE version' >= version
  BY <1>1 DEF Connect
<1>2. ASSUME NEW s \in Session, LoadRoomInfo(s) PROVE version' >= version
  BY <1>2 DEF LoadRoomInfo
<1>3. ASSUME NEW s \in Session, Resume(s) PROVE version' >= version
  BY <1>3 DEF Resume
<1>4. ASSUME NEW s \in Session, RestoreReady(s) PROVE version' >= version
  BY <1>4 DEF RestoreReady, SetReady
<1>5. ASSUME NEW s \in Session, RestoreVerified(s) PROVE version' >= version
  BY <1>5 DEF RestoreVerified
<1>6. ASSUME NEW s \in Session, Drop(s) PROVE version' >= version
  BY <1>6 DEF Drop
<1>7. ASSUME NEW s \in Session, ReadWasReady(s) PROVE version' >= version
  BY <1>7 DEF ReadWasReady
<1>8. ASSUME NEW s \in Session, Disconnect(s) PROVE version' >= version
  BY <1>8 DEF Disconnect, Unregister, Occupied, StartGracePeriod
<1>9. ASSUME NEW s \in Session, StartGrace(s) PROVE version' >= version
  BY <1>9 DEF StartGrace, StartGracePeriod
<1>10. ASSUME NEW s \in Session, NEW f \in File, VerifyRequest(s, f) PROVE version' >= version
  BY <1>10 DEF VerifyRequest, Serving
<1>11. ASSUME NEW s \in Session, ChangeLoad(s) PROVE version' >= version
  BY <1>11 DEF ChangeLoad
<1>12. ASSUME NEW s \in Session, ChangeCommit(s) PROVE version' >= version
  BY <1>12 DEF ChangeCommit
<1>13. ASSUME NEW s \in Session, ChangePublish(s) PROVE version' >= version
  BY <1>13 DEF ChangePublish
<1>14. ASSUME NEW s \in Session, Confirm(s) PROVE version' >= version
  BY <1>14 DEF Confirm, AddVerified
<1>15. ASSUME NEW s \in Session, Match(s) PROVE version' >= version
  BY <1>15 DEF Match, AddVerified
<1>16. ASSUME NEW s \in Session, Ready(s) PROVE version' >= version
  BY <1>16 DEF Ready, Serving
<1>17. ASSUME NEW s \in Session, ReadyLoad(s) PROVE version' >= version
  BY <1>17 DEF ReadyLoad
<1>18. ASSUME NEW s \in Session, ReadyCommit(s) PROVE version' >= version
  BY <1>18 DEF ReadyCommit, SetReady
<1>19. ASSUME NEW s \in Session, NotReady(s) PROVE version' >= version
  BY <1>19 DEF NotReady, Serving
<1>20. ASSUME NEW s \in Session, NotReadyCommit(s) PROVE version' >= version
  BY <1>20 DEF NotReadyCommit
<1>21. ASSUME NEW u \in User, IssueTicket(u) PROVE version' >= version
  BY <1>21 DEF IssueTicket
<1>22. ASSUME NEW u \in User, GraceFires(u) PROVE version' >= version
  BY <1>22 DEF GraceFires
<1>23. ASSUME NEW u \in User, GracePersists(u) PROVE version' >= version
  BY <1>23 DEF GracePersists, RowGone
<1>24. ASSUME NEW u \in User, GraceForgets(u) PROVE version' >= version
  BY <1>24 DEF GraceForgets
<1>25. ASSUME NEW u \in User, Leave(u) PROVE version' >= version
  BY <1>25 DEF Leave, RowGone
<1>26. ASSUME NEW u \in User, CloseUser(u) PROVE version' >= version
  BY <1>26 DEF CloseUser, Unregister, Occupied
<1>27. ASSUME NEW u \in User, Rejoin(u) PROVE version' >= version
  BY <1>27 DEF Rejoin
<1>28. CASE UNCHANGED vars
  BY <1>28 DEF vars
<1> QED
  BY <1>1, <1>2, <1>3, <1>4, <1>5, <1>6, <1>7, <1>8, <1>9, <1>10, <1>11, <1>12,
     <1>13, <1>14, <1>15, <1>16, <1>17, <1>18, <1>19, <1>20, <1>21, <1>22, <1>23,
     <1>24, <1>25, <1>26, <1>27, <1>28
     DEF Next, HandlerStep, UserStep

\* With one tab of the host, whatever tabs the others have and whoever leaves, a
\* RoomState never goes back to an older file.
THEOREM VersionsOnlyGrow == HostTabs = 1 => (Spec => VersionNeverRegresses)
<1> SUFFICES ASSUME HostTabs = 1 PROVE Spec => VersionNeverRegresses
  OBVIOUS
<1>1. Init => ChangersInv
  BY DEF Init, ChangersInv
<1>2. TypeOK /\ ChangersInv /\ [Next]_vars => ChangersInv'
  BY NextChangersInv
<1>3. TypeOK /\ ChangersInv /\ [Next]_vars
        => [present /\ present' => version' >= version]_vars
  BY StepKeepsVersion
<1> QED
  BY <1>1, <1>2, <1>3, TypeCorrect, PTL DEF Spec, VersionNeverRegresses

-----------------------------------------------------------------------------
(* One tab for each user, until somebody leaves over REST.                 *)

OneTab == HostTabs = 1 /\ ViewerTabs = 1

LEMMA OneHandler ==
    OneTab => /\ \A s, t \in Session : Owner(s) = Owner(t) => s = t
              /\ \A s \in Session : s[2] = 1
              /\ \A u \in User : <<u, 1>> \in Session /\ Owner(<<u, 1>>) = u
  BY HostAssumption DEF OneTab, Session, Owner

\* Where a handler is that is not registered, or has not met the RoomState yet.
Away == {"off", "notifying"}
Arriving == {"connecting", "loaded"}

\* Who is registered, and that a RoomState is there for them.
PresenceInv ==
    /\ leaving = {}
    /\ \A s \in Session : live[Owner(s)] = IF pc[s] \in Away THEN 0 ELSE 1
    /\ ~present =>
          version = 0 /\ verified = {} /\ \A s \in Session : pc[s] \in Away

\* Every step but a leave preserves PresenceInv.
LEMMA NextPresenceInv ==
    OneTab /\ TypeOK /\ PresenceInv /\ [Next]_vars /\ leaves' = 0 => PresenceInv'
<1> SUFFICES ASSUME OneTab, TypeOK, PresenceInv, [Next]_vars, leaves' = 0
             PROVE  PresenceInv'
  OBVIOUS
<1> USE HostAssumption, FileAssumption, BoundsAssumption, SessionType, OneHandler
    DEF PresenceInv, Away, TypeOK, HandlerState, database, memory, presence, handler,
        rest, history, Goto
<1>1. ASSUME NEW s \in Session, Connect(s) PROVE PresenceInv'
  BY <1>1 DEF Connect
<1>2. ASSUME NEW s \in Session, LoadRoomInfo(s) PROVE PresenceInv'
  BY <1>2 DEF LoadRoomInfo
<1>3. ASSUME NEW s \in Session, Resume(s) PROVE PresenceInv'
  BY <1>3 DEF Resume
<1>4. ASSUME NEW s \in Session, RestoreReady(s) PROVE PresenceInv'
  BY <1>4 DEF RestoreReady, SetReady
<1>5. ASSUME NEW s \in Session, RestoreVerified(s) PROVE PresenceInv'
  BY <1>5 DEF RestoreVerified
<1>6. ASSUME NEW s \in Session, Drop(s) PROVE PresenceInv'
  BY <1>6 DEF Drop
<1>7. ASSUME NEW s \in Session, ReadWasReady(s) PROVE PresenceInv'
  BY <1>7 DEF ReadWasReady
<1>8. ASSUME NEW s \in Session, Disconnect(s) PROVE PresenceInv'
  BY <1>8 DEF Disconnect, Unregister, Occupied, StartGracePeriod
<1>9. ASSUME NEW s \in Session, StartGrace(s) PROVE PresenceInv'
  BY <1>9 DEF StartGrace, StartGracePeriod
<1>10. ASSUME NEW s \in Session, NEW f \in File, VerifyRequest(s, f) PROVE PresenceInv'
  BY <1>10 DEF VerifyRequest, Serving
<1>11. ASSUME NEW s \in Session, ChangeLoad(s) PROVE PresenceInv'
  BY <1>11 DEF ChangeLoad
<1>12. ASSUME NEW s \in Session, ChangeCommit(s) PROVE PresenceInv'
  BY <1>12 DEF ChangeCommit
<1>13. ASSUME NEW s \in Session, ChangePublish(s) PROVE PresenceInv'
  BY <1>13 DEF ChangePublish
<1>14. ASSUME NEW s \in Session, Confirm(s) PROVE PresenceInv'
  BY <1>14 DEF Confirm, AddVerified
<1>15. ASSUME NEW s \in Session, Match(s) PROVE PresenceInv'
  BY <1>15 DEF Match, AddVerified
<1>16. ASSUME NEW s \in Session, Ready(s) PROVE PresenceInv'
  BY <1>16 DEF Ready, Serving
<1>17. ASSUME NEW s \in Session, ReadyLoad(s) PROVE PresenceInv'
  BY <1>17 DEF ReadyLoad
<1>18. ASSUME NEW s \in Session, ReadyCommit(s) PROVE PresenceInv'
  BY <1>18 DEF ReadyCommit, SetReady
<1>19. ASSUME NEW s \in Session, NotReady(s) PROVE PresenceInv'
  BY <1>19 DEF NotReady, Serving
<1>20. ASSUME NEW s \in Session, NotReadyCommit(s) PROVE PresenceInv'
  BY <1>20 DEF NotReadyCommit
<1>21. ASSUME NEW u \in User, IssueTicket(u) PROVE PresenceInv'
  BY <1>21 DEF IssueTicket
<1>22. ASSUME NEW u \in User, GraceFires(u) PROVE PresenceInv'
  BY <1>22 DEF GraceFires
<1>23. ASSUME NEW u \in User, GracePersists(u) PROVE PresenceInv'
  BY <1>23 DEF GracePersists, RowGone
<1>24. ASSUME NEW u \in User, GraceForgets(u) PROVE PresenceInv'
  BY <1>24 DEF GraceForgets
<1>25. ASSUME NEW u \in User, Leave(u) PROVE PresenceInv'
  BY <1>25 DEF Leave, RowGone
<1>26. ASSUME NEW u \in User, CloseUser(u) PROVE PresenceInv'
  BY <1>26 DEF CloseUser, Unregister, Occupied
<1>27. ASSUME NEW u \in User, Rejoin(u) PROVE PresenceInv'
  BY <1>27 DEF Rejoin
<1>28. CASE UNCHANGED vars
  BY <1>28 DEF vars
<1> QED
  BY <1>1, <1>2, <1>3, <1>4, <1>5, <1>6, <1>7, <1>8, <1>9, <1>10, <1>11, <1>12,
     <1>13, <1>14, <1>15, <1>16, <1>17, <1>18, <1>19, <1>20, <1>21, <1>22, <1>23,
     <1>24, <1>25, <1>26, <1>27, <1>28
     DEF Next, HandlerStep, UserStep

\* The RoomState has the version of the database unless a change is about to be
\* published, or nobody has brought the version to a fresh one; then everyone who
\* could do so has the current one.
SyncInv ==
    (\A s \in Session : pc[s] # "changed") =>
        /\ \/ version = dbVersion
           \/ version = 0 /\ \A s \in Session : pc[s] \in Away \cup Arriving
        /\ version = 0 =>
              \A s \in Session : pc[s] = "loaded" => seen[s] = dbVersion

\* Every step but a leave preserves SyncInv.
LEMMA NextSyncInv ==
    OneTab /\ TypeOK /\ ChangersInv /\ PresenceInv /\ SyncInv /\ [Next]_vars
        /\ leaves' = 0 => SyncInv'
<1> SUFFICES ASSUME OneTab, TypeOK, ChangersInv, PresenceInv, SyncInv, [Next]_vars,
                    leaves' = 0
             PROVE  SyncInv'
  OBVIOUS
<1> USE HostAssumption, FileAssumption, BoundsAssumption, SessionType, OneHandler
    DEF SyncInv, ChangersInv, PresenceInv, Away, Arriving, TypeOK, HandlerState, database, memory, presence, handler,
        rest, history, Goto
<1>1. ASSUME NEW s \in Session, Connect(s) PROVE SyncInv'
  BY <1>1 DEF Connect
<1>2. ASSUME NEW s \in Session, LoadRoomInfo(s) PROVE SyncInv'
  BY <1>2 DEF LoadRoomInfo
<1>3. ASSUME NEW s \in Session, Resume(s) PROVE SyncInv'
  BY <1>3 DEF Resume
<1>4. ASSUME NEW s \in Session, RestoreReady(s) PROVE SyncInv'
  BY <1>4 DEF RestoreReady, SetReady
<1>5. ASSUME NEW s \in Session, RestoreVerified(s) PROVE SyncInv'
  BY <1>5 DEF RestoreVerified
<1>6. ASSUME NEW s \in Session, Drop(s) PROVE SyncInv'
  BY <1>6 DEF Drop
<1>7. ASSUME NEW s \in Session, ReadWasReady(s) PROVE SyncInv'
  BY <1>7 DEF ReadWasReady
<1>8. ASSUME NEW s \in Session, Disconnect(s) PROVE SyncInv'
  BY <1>8 DEF Disconnect, Unregister, Occupied, StartGracePeriod
<1>9. ASSUME NEW s \in Session, StartGrace(s) PROVE SyncInv'
  BY <1>9 DEF StartGrace, StartGracePeriod
<1>10. ASSUME NEW s \in Session, NEW f \in File, VerifyRequest(s, f) PROVE SyncInv'
  BY <1>10 DEF VerifyRequest, Serving
<1>11. ASSUME NEW s \in Session, ChangeLoad(s) PROVE SyncInv'
  BY <1>11 DEF ChangeLoad
<1>12. ASSUME NEW s \in Session, ChangeCommit(s) PROVE SyncInv'
  BY <1>12 DEF ChangeCommit
<1>13. ASSUME NEW s \in Session, ChangePublish(s) PROVE SyncInv'
  BY <1>13 DEF ChangePublish
<1>14. ASSUME NEW s \in Session, Confirm(s) PROVE SyncInv'
  BY <1>14 DEF Confirm, AddVerified
<1>15. ASSUME NEW s \in Session, Match(s) PROVE SyncInv'
  BY <1>15 DEF Match, AddVerified
<1>16. ASSUME NEW s \in Session, Ready(s) PROVE SyncInv'
  BY <1>16 DEF Ready, Serving
<1>17. ASSUME NEW s \in Session, ReadyLoad(s) PROVE SyncInv'
  BY <1>17 DEF ReadyLoad
<1>18. ASSUME NEW s \in Session, ReadyCommit(s) PROVE SyncInv'
  BY <1>18 DEF ReadyCommit, SetReady
<1>19. ASSUME NEW s \in Session, NotReady(s) PROVE SyncInv'
  BY <1>19 DEF NotReady, Serving
<1>20. ASSUME NEW s \in Session, NotReadyCommit(s) PROVE SyncInv'
  BY <1>20 DEF NotReadyCommit
<1>21. ASSUME NEW u \in User, IssueTicket(u) PROVE SyncInv'
  BY <1>21 DEF IssueTicket
<1>22. ASSUME NEW u \in User, GraceFires(u) PROVE SyncInv'
  BY <1>22 DEF GraceFires
<1>23. ASSUME NEW u \in User, GracePersists(u) PROVE SyncInv'
  BY <1>23 DEF GracePersists, RowGone
<1>24. ASSUME NEW u \in User, GraceForgets(u) PROVE SyncInv'
  BY <1>24 DEF GraceForgets
<1>25. ASSUME NEW u \in User, Leave(u) PROVE SyncInv'
  BY <1>25 DEF Leave, RowGone
<1>26. ASSUME NEW u \in User, CloseUser(u) PROVE SyncInv'
  BY <1>26 DEF CloseUser, Unregister, Occupied
<1>27. ASSUME NEW u \in User, Rejoin(u) PROVE SyncInv'
  BY <1>27 DEF Rejoin
<1>28. CASE UNCHANGED vars
  BY <1>28 DEF vars
<1> QED
  BY <1>1, <1>2, <1>3, <1>4, <1>5, <1>6, <1>7, <1>8, <1>9, <1>10, <1>11, <1>12,
     <1>13, <1>14, <1>15, <1>16, <1>17, <1>18, <1>19, <1>20, <1>21, <1>22, <1>23,
     <1>24, <1>25, <1>26, <1>27, <1>28
     DEF Next, HandlerStep, UserStep

\* What the host's handler reads stays true while it uses it.
Trusting ==
    {"loaded", "restoring", "restored", "confirming", "readying", "readyLoaded"}

\* Everything that leads to the host's readiness rests on the current file.
HostInv ==
    \A s \in Session : Owner(s) = Host =>
        /\ pc[s] \in Trusting => seen[s] = dbVersion
        /\ pc[s] = "changeLoaded" /\ Host \in ready => Host \in rows[s]
        /\ pc[s] \notin {"off"} \cup Arriving => record[Host] # "ready"
        /\ s \in wasReady => pc[s] \in {"removing", "notifying"}
        /\ Host \in ready => readyFor[Host] = dbVersion
        /\ \/ record[Host] = "ready" \/ s \in wasReady \/ Host \in ready
           \/ pc[s] \in PastGate
           \/ present /\ Host \in verified /\ pc[s] # "changed"
           => provedAt[Host] = dbVersion
\* The file of a matching participant is not the host's, and a handler that is about
\* to write is_ready writes the row of its own user.
OwnInv ==
    \A s \in Session :
        /\ pc[s] = "matching" => Owner(s) # Host
        /\ pc[s] = "readyLoaded" => rows[s] \subseteq {Owner(s)}

\* Every step preserves OwnInv.
LEMMA NextOwnInv == TypeOK /\ OwnInv /\ [Next]_vars => OwnInv'
<1> SUFFICES ASSUME TypeOK, OwnInv, [Next]_vars PROVE OwnInv'
  OBVIOUS
<1> USE HostAssumption, FileAssumption, BoundsAssumption, SessionType
    DEF OwnInv, TypeOK, HandlerState, database, memory, presence, handler,
        rest, history, Goto
<1>1. ASSUME NEW s \in Session, Connect(s) PROVE OwnInv'
  BY <1>1 DEF Connect
<1>2. ASSUME NEW s \in Session, LoadRoomInfo(s) PROVE OwnInv'
  BY <1>2 DEF LoadRoomInfo
<1>3. ASSUME NEW s \in Session, Resume(s) PROVE OwnInv'
  BY <1>3 DEF Resume
<1>4. ASSUME NEW s \in Session, RestoreReady(s) PROVE OwnInv'
  BY <1>4 DEF RestoreReady, SetReady
<1>5. ASSUME NEW s \in Session, RestoreVerified(s) PROVE OwnInv'
  BY <1>5 DEF RestoreVerified
<1>6. ASSUME NEW s \in Session, Drop(s) PROVE OwnInv'
  BY <1>6 DEF Drop
<1>7. ASSUME NEW s \in Session, ReadWasReady(s) PROVE OwnInv'
  BY <1>7 DEF ReadWasReady
<1>8. ASSUME NEW s \in Session, Disconnect(s) PROVE OwnInv'
  BY <1>8 DEF Disconnect, Unregister, Occupied, StartGracePeriod
<1>9. ASSUME NEW s \in Session, StartGrace(s) PROVE OwnInv'
  BY <1>9 DEF StartGrace, StartGracePeriod
<1>10. ASSUME NEW s \in Session, NEW f \in File, VerifyRequest(s, f) PROVE OwnInv'
  BY <1>10 DEF VerifyRequest, Serving
<1>11. ASSUME NEW s \in Session, ChangeLoad(s) PROVE OwnInv'
  BY <1>11 DEF ChangeLoad
<1>12. ASSUME NEW s \in Session, ChangeCommit(s) PROVE OwnInv'
  BY <1>12 DEF ChangeCommit
<1>13. ASSUME NEW s \in Session, ChangePublish(s) PROVE OwnInv'
  BY <1>13 DEF ChangePublish
<1>14. ASSUME NEW s \in Session, Confirm(s) PROVE OwnInv'
  BY <1>14 DEF Confirm, AddVerified
<1>15. ASSUME NEW s \in Session, Match(s) PROVE OwnInv'
  BY <1>15 DEF Match, AddVerified
<1>16. ASSUME NEW s \in Session, Ready(s) PROVE OwnInv'
  BY <1>16 DEF Ready, Serving
<1>17. ASSUME NEW s \in Session, ReadyLoad(s) PROVE OwnInv'
  BY <1>17 DEF ReadyLoad
<1>18. ASSUME NEW s \in Session, ReadyCommit(s) PROVE OwnInv'
  BY <1>18 DEF ReadyCommit, SetReady
<1>19. ASSUME NEW s \in Session, NotReady(s) PROVE OwnInv'
  BY <1>19 DEF NotReady, Serving
<1>20. ASSUME NEW s \in Session, NotReadyCommit(s) PROVE OwnInv'
  BY <1>20 DEF NotReadyCommit
<1>21. ASSUME NEW u \in User, IssueTicket(u) PROVE OwnInv'
  BY <1>21 DEF IssueTicket
<1>22. ASSUME NEW u \in User, GraceFires(u) PROVE OwnInv'
  BY <1>22 DEF GraceFires
<1>23. ASSUME NEW u \in User, GracePersists(u) PROVE OwnInv'
  BY <1>23 DEF GracePersists, RowGone
<1>24. ASSUME NEW u \in User, GraceForgets(u) PROVE OwnInv'
  BY <1>24 DEF GraceForgets
<1>25. ASSUME NEW u \in User, Leave(u) PROVE OwnInv'
  BY <1>25 DEF Leave, RowGone
<1>26. ASSUME NEW u \in User, CloseUser(u) PROVE OwnInv'
  BY <1>26 DEF CloseUser, Unregister, Occupied
<1>27. ASSUME NEW u \in User, Rejoin(u) PROVE OwnInv'
  BY <1>27 DEF Rejoin
<1>28. CASE UNCHANGED vars
  BY <1>28 DEF vars
<1> QED
  BY <1>1, <1>2, <1>3, <1>4, <1>5, <1>6, <1>7, <1>8, <1>9, <1>10, <1>11, <1>12,
     <1>13, <1>14, <1>15, <1>16, <1>17, <1>18, <1>19, <1>20, <1>21, <1>22, <1>23,
     <1>24, <1>25, <1>26, <1>27, <1>28
     DEF Next, HandlerStep, UserStep

\* Every step but a leave preserves HostInv.
LEMMA NextHostInv ==
    OneTab /\ TypeOK /\ ChangersInv /\ PresenceInv /\ SyncInv /\ OwnInv /\ HostInv
        /\ [Next]_vars /\ leaves' = 0 => HostInv'
<1> SUFFICES ASSUME OneTab, TypeOK, ChangersInv, PresenceInv, SyncInv, OwnInv, HostInv,
                    [Next]_vars, leaves' = 0
             PROVE  HostInv'
  OBVIOUS
<1> USE HostAssumption, FileAssumption, BoundsAssumption, SessionType, OneHandler
    DEF HostInv, OwnInv, SyncInv, ChangersInv, PresenceInv, Away, Arriving,
        Trusting, PastGate, TypeOK, HandlerState, database, memory, presence, handler,
        rest, history, Goto
<1>1. ASSUME NEW s \in Session, Connect(s) PROVE HostInv'
  BY <1>1 DEF Connect
<1>2. ASSUME NEW s \in Session, LoadRoomInfo(s) PROVE HostInv'
  BY <1>2 DEF LoadRoomInfo
<1>3. ASSUME NEW s \in Session, Resume(s) PROVE HostInv'
  BY <1>3 DEF Resume
<1>4. ASSUME NEW s \in Session, RestoreReady(s) PROVE HostInv'
  BY <1>4 DEF RestoreReady, SetReady
<1>5. ASSUME NEW s \in Session, RestoreVerified(s) PROVE HostInv'
  BY <1>5 DEF RestoreVerified
<1>6. ASSUME NEW s \in Session, Drop(s) PROVE HostInv'
  BY <1>6 DEF Drop
<1>7. ASSUME NEW s \in Session, ReadWasReady(s) PROVE HostInv'
  BY <1>7 DEF ReadWasReady
<1>8. ASSUME NEW s \in Session, Disconnect(s) PROVE HostInv'
  BY <1>8 DEF Disconnect, Unregister, Occupied, StartGracePeriod
<1>9. ASSUME NEW s \in Session, StartGrace(s) PROVE HostInv'
  BY <1>9 DEF StartGrace, StartGracePeriod
<1>10. ASSUME NEW s \in Session, NEW f \in File, VerifyRequest(s, f) PROVE HostInv'
  BY <1>10 DEF VerifyRequest, Serving
<1>11. ASSUME NEW s \in Session, ChangeLoad(s) PROVE HostInv'
  BY <1>11 DEF ChangeLoad
<1>12. ASSUME NEW s \in Session, ChangeCommit(s) PROVE HostInv'
  BY <1>12 DEF ChangeCommit
<1>13. ASSUME NEW s \in Session, ChangePublish(s) PROVE HostInv'
  BY <1>13 DEF ChangePublish
<1>14. ASSUME NEW s \in Session, Confirm(s) PROVE HostInv'
  BY <1>14 DEF Confirm, AddVerified
<1>15. ASSUME NEW s \in Session, Match(s) PROVE HostInv'
  BY <1>15 DEF Match, AddVerified
<1>16. ASSUME NEW s \in Session, Ready(s) PROVE HostInv'
  BY <1>16 DEF Ready, Serving
<1>17. ASSUME NEW s \in Session, ReadyLoad(s) PROVE HostInv'
  BY <1>17 DEF ReadyLoad
<1>18. ASSUME NEW s \in Session, ReadyCommit(s) PROVE HostInv'
  BY <1>18 DEF ReadyCommit, SetReady
<1>19. ASSUME NEW s \in Session, NotReady(s) PROVE HostInv'
  BY <1>19 DEF NotReady, Serving
<1>20. ASSUME NEW s \in Session, NotReadyCommit(s) PROVE HostInv'
  BY <1>20 DEF NotReadyCommit
<1>21. ASSUME NEW u \in User, IssueTicket(u) PROVE HostInv'
  BY <1>21 DEF IssueTicket
<1>22. ASSUME NEW u \in User, GraceFires(u) PROVE HostInv'
  BY <1>22 DEF GraceFires
<1>23. ASSUME NEW u \in User, GracePersists(u) PROVE HostInv'
  BY <1>23 DEF GracePersists, RowGone
<1>24. ASSUME NEW u \in User, GraceForgets(u) PROVE HostInv'
  BY <1>24 DEF GraceForgets
<1>25. ASSUME NEW u \in User, Leave(u) PROVE HostInv'
  BY <1>25 DEF Leave, RowGone
<1>26. ASSUME NEW u \in User, CloseUser(u) PROVE HostInv'
  BY <1>26 DEF CloseUser, Unregister, Occupied
<1>27. ASSUME NEW u \in User, Rejoin(u) PROVE HostInv'
  BY <1>27 DEF Rejoin
<1>28. CASE UNCHANGED vars
  BY <1>28 DEF vars
<1> QED
  BY <1>1, <1>2, <1>3, <1>4, <1>5, <1>6, <1>7, <1>8, <1>9, <1>10, <1>11, <1>12,
     <1>13, <1>14, <1>15, <1>16, <1>17, <1>18, <1>19, <1>20, <1>21, <1>22, <1>23,
     <1>24, <1>25, <1>26, <1>27, <1>28
     DEF Next, HandlerStep, UserStep

\* Nobody takes a leave back.
LEMMA LeavesGrow ==
    ASSUME TypeOK, [Next]_vars, leaves' = 0 PROVE leaves = 0
<1> USE DEF TypeOK, rest
<1>1. ASSUME NEW s \in Session, Connect(s) PROVE leaves = 0
  BY <1>1 DEF Connect
<1>2. ASSUME NEW s \in Session, LoadRoomInfo(s) PROVE leaves = 0
  BY <1>2 DEF LoadRoomInfo
<1>3. ASSUME NEW s \in Session, Resume(s) PROVE leaves = 0
  BY <1>3 DEF Resume
<1>4. ASSUME NEW s \in Session, RestoreReady(s) PROVE leaves = 0
  BY <1>4 DEF RestoreReady, SetReady
<1>5. ASSUME NEW s \in Session, RestoreVerified(s) PROVE leaves = 0
  BY <1>5 DEF RestoreVerified
<1>6. ASSUME NEW s \in Session, Drop(s) PROVE leaves = 0
  BY <1>6 DEF Drop
<1>7. ASSUME NEW s \in Session, ReadWasReady(s) PROVE leaves = 0
  BY <1>7 DEF ReadWasReady
<1>8. ASSUME NEW s \in Session, Disconnect(s) PROVE leaves = 0
  BY <1>8 DEF Disconnect, Unregister, Occupied, StartGracePeriod
<1>9. ASSUME NEW s \in Session, StartGrace(s) PROVE leaves = 0
  BY <1>9 DEF StartGrace, StartGracePeriod
<1>10. ASSUME NEW s \in Session, NEW f \in File, VerifyRequest(s, f) PROVE leaves = 0
  BY <1>10 DEF VerifyRequest, Serving
<1>11. ASSUME NEW s \in Session, ChangeLoad(s) PROVE leaves = 0
  BY <1>11 DEF ChangeLoad
<1>12. ASSUME NEW s \in Session, ChangeCommit(s) PROVE leaves = 0
  BY <1>12 DEF ChangeCommit
<1>13. ASSUME NEW s \in Session, ChangePublish(s) PROVE leaves = 0
  BY <1>13 DEF ChangePublish
<1>14. ASSUME NEW s \in Session, Confirm(s) PROVE leaves = 0
  BY <1>14 DEF Confirm, AddVerified
<1>15. ASSUME NEW s \in Session, Match(s) PROVE leaves = 0
  BY <1>15 DEF Match, AddVerified
<1>16. ASSUME NEW s \in Session, Ready(s) PROVE leaves = 0
  BY <1>16 DEF Ready, Serving
<1>17. ASSUME NEW s \in Session, ReadyLoad(s) PROVE leaves = 0
  BY <1>17 DEF ReadyLoad
<1>18. ASSUME NEW s \in Session, ReadyCommit(s) PROVE leaves = 0
  BY <1>18 DEF ReadyCommit, SetReady
<1>19. ASSUME NEW s \in Session, NotReady(s) PROVE leaves = 0
  BY <1>19 DEF NotReady, Serving
<1>20. ASSUME NEW s \in Session, NotReadyCommit(s) PROVE leaves = 0
  BY <1>20 DEF NotReadyCommit
<1>21. ASSUME NEW u \in User, IssueTicket(u) PROVE leaves = 0
  BY <1>21 DEF IssueTicket
<1>22. ASSUME NEW u \in User, GraceFires(u) PROVE leaves = 0
  BY <1>22 DEF GraceFires
<1>23. ASSUME NEW u \in User, GracePersists(u) PROVE leaves = 0
  BY <1>23 DEF GracePersists, RowGone
<1>24. ASSUME NEW u \in User, GraceForgets(u) PROVE leaves = 0
  BY <1>24 DEF GraceForgets
<1>25. ASSUME NEW u \in User, Leave(u) PROVE leaves = 0
  BY <1>25 DEF Leave, RowGone
<1>26. ASSUME NEW u \in User, CloseUser(u) PROVE leaves = 0
  BY <1>26 DEF CloseUser, Unregister, Occupied
<1>27. ASSUME NEW u \in User, Rejoin(u) PROVE leaves = 0
  BY <1>27 DEF Rejoin
<1>28. CASE UNCHANGED vars
  BY <1>28 DEF vars
<1> QED
  BY <1>1, <1>2, <1>3, <1>4, <1>5, <1>6, <1>7, <1>8, <1>9, <1>10, <1>11, <1>12,
     <1>13, <1>14, <1>15, <1>16, <1>17, <1>18, <1>19, <1>20, <1>21, <1>22, <1>23,
     <1>24, <1>25, <1>26, <1>27, <1>28
     DEF Next, HandlerStep, UserStep

OneTabInv ==
    /\ ChangersInv /\ OwnInv
    /\ leaves = 0 => PresenceInv /\ SyncInv /\ HostInv

LEMMA OneTabInvHolds == OneTab => (Spec => [](TypeOK /\ OneTabInv))
<1> SUFFICES ASSUME OneTab PROVE Spec => [](TypeOK /\ OneTabInv)
  OBVIOUS
<1>1. Init => OneTabInv
  BY BoundsAssumption, SessionType
     DEF Init, OneTabInv, ChangersInv, OwnInv, PresenceInv, SyncInv, HostInv, Away,
         Arriving, Trusting, PastGate
<1>2. TypeOK /\ OneTabInv /\ [Next]_vars => OneTabInv'
  <2> SUFFICES ASSUME TypeOK, OneTabInv, [Next]_vars PROVE OneTabInv'
    OBVIOUS
  <2>1. ChangersInv' /\ OwnInv'
    BY NextChangersInv, NextOwnInv DEF OneTabInv, OneTab
  <2>2. leaves' = 0 => leaves = 0
    BY LeavesGrow
  <2> QED
    BY <2>1, <2>2, NextPresenceInv, NextSyncInv, NextHostInv DEF OneTabInv
<1> QED
  BY <1>1, <1>2, TypeCorrect, PTL DEF Spec

\* With one tab for each user and until somebody leaves over REST, the RoomState
\* knows the file_version of the database.
THEOREM RoomStateFollows == OneTab => (Spec => []MemoryFollowsDatabase)
<1> SUFFICES ASSUME OneTab PROVE Spec => []MemoryFollowsDatabase
  OBVIOUS
<1>1. TypeOK /\ OneTabInv => MemoryFollowsDatabase
  <2> SUFFICES ASSUME TypeOK, OneTabInv, leaves = 0, ~ChangeInProgress,
                      version # dbVersion, NEW u \in User, live[u] # 0
               PROVE  version = 0 /\ pc[<<u, live[u]>>] \in {"connecting", "loaded"}
    BY DEF MemoryFollowsDatabase, OneTabInv, SyncInv, ChangeInProgress
  <2>1. <<u, 1>> \in Session /\ Owner(<<u, 1>>) = u
    BY OneHandler
  <2>2. live[u] = 1 /\ pc[<<u, 1>>] \notin Away
    BY <2>1 DEF OneTabInv, PresenceInv
  <2>3. version = 0 /\ \A s \in Session : pc[s] \in Away \cup Arriving
    BY DEF OneTabInv, SyncInv, ChangeInProgress
  <2> QED
    BY <2>1, <2>2, <2>3 DEF Arriving
<1> QED
  BY <1>1, OneTabInvHolds, PTL

\* Under the same conditions the host is past the gate for the current file only.
THEOREM HostGateHolds == OneTab => (Spec => []HostGateIsCurrent)
<1> SUFFICES ASSUME OneTab PROVE Spec => []HostGateIsCurrent
  OBVIOUS
<1>1. TypeOK /\ OneTabInv => HostGateIsCurrent
  <2> SUFFICES ASSUME TypeOK, OneTabInv, leaves = 0, ~ChangeInProgress
               PROVE  /\ Host \in ready => readyFor[Host] = dbVersion
                      /\ present /\ Host \in verified => provedAt[Host] = dbVersion
    BY DEF HostGateIsCurrent
  <2>1. <<Host, 1>> \in Session /\ Owner(<<Host, 1>>) = Host
    BY OneHandler, HostAssumption
  <2> QED
    BY <2>1 DEF OneTabInv, HostInv, ChangeInProgress
<1> QED
  BY <1>1, OneTabInvHolds, PTL
=============================================================================
