------------------------------ MODULE FileGate ------------------------------
(***************************************************************************)
(* The reference file of a room and the gate in front of "ready":          *)
(* file_verify_request, ready and not_ready of backend/app/ws/handler.py,  *)
(* update_file_info, and what a disconnection, a reconnection, a leave and *)
(* an expired grace period do to verification and readiness.               *)
(*                                                                         *)
(* Two copies of the truth are involved: the database rows (file,          *)
(* file_version, is_ready) and the in-memory RoomState (file_version,      *)
(* verified_users).  A handler reads one, awaits, and writes the other, so *)
(* every handler below is split where the code awaits.                     *)
(*                                                                         *)
(* Not covered here: the playback fields of RoomState, the closing of the  *)
(* room and the await inside close_user (both are in RoomSession), the     *)
(* tickets themselves (a client may hold one from before it dropped), and  *)
(* the rejection of malformed metadata, which changes nothing.             *)
(***************************************************************************)
EXTENDS Integers, FiniteSets

CONSTANTS
    User,        \* the accounts of the room
    Host,        \* the user who may set the reference file
    File,        \* file identities: equal hash, size and duration
    NoFile,      \* no reference file has been set
    HostTabs,    \* bound: connections with a handler running, for the host
    ViewerTabs,  \* and for each other user
    MaxVersion,  \* bound: file versions
    MaxLeaves    \* bound: POST /leave by participants

ASSUME HostAssumption == Host \in User
ASSUME FileAssumption == NoFile \notin File
ASSUME BoundsAssumption ==
    /\ HostTabs \in Nat /\ ViewerTabs \in Nat
    /\ MaxVersion \in Nat /\ MaxLeaves \in Nat

\* A handler is that of one tab of one user; its connection_id is the pair.
Session == ({Host} \X (1..HostTabs)) \cup ((User \ {Host}) \X (1..ViewerTabs))

Owner(s) == s[1]

VARIABLES
    dbVersion, dbFile,  \* rooms.file_version and the file columns
    member,             \* users with an active participant row
    ready,              \* users whose active row has is_ready
    present,            \* whether room_states has a RoomState for the room
    version, verified,  \* RoomState.file_version and verified_users
    live,               \* the tab registered for each user, 0 for none
    timer,              \* _grace_timers: what the task under each key does
    record,             \* disconnected_users: what was_ready was
    pc,                 \* where the handler of each session is
    want,               \* the file of the request a handler is serving
    seen,               \* the version a handler has read or written
    rows,               \* the active participant rows a handler is about to write
    wasReady,           \* handlers whose finally block has read was_ready = True
    holder,             \* handlers that captured the RoomState that exists now
    leaving,            \* users between leave_room and close_user
    leaves,             \* counter of the bounded event
    provedAt, readyFor   \* history, see Init

database == << dbVersion, dbFile, member, ready >>
memory == << present, version, verified >>
presence == << live, timer, record >>
handler == << pc, want, seen, rows, wasReady, holder >>
rest == << leaving, leaves >>
history == << provedAt, readyFor >>
vars == << database, memory, presence, handler, rest, history >>

HandlerState ==
    {"off", "connecting", "loaded", "restoring", "restored", "loop",
     "changing", "changeLoaded", "changed", "confirming", "matching",
     "readying", "readyLoaded", "unreadying", "ending", "removing", "notifying"}

TypeOK ==
    /\ dbVersion \in 0..MaxVersion
    /\ dbFile \in File \cup {NoFile}
    /\ member \in SUBSET User
    /\ ready \in SUBSET User
    /\ present \in BOOLEAN
    /\ version \in 0..MaxVersion
    /\ verified \in SUBSET User
    /\ live \in [User -> Nat]
    /\ timer \in [User -> {"none", "sleeping", "fired", "marked", "done"}]
    /\ record \in [User -> {"none", "ready", "notReady"}]
    /\ pc \in [Session -> HandlerState]
    /\ want \in [Session -> File \cup {NoFile}]
    /\ seen \in [Session -> 0..MaxVersion]
    /\ rows \in [Session -> SUBSET User]
    /\ wasReady \in SUBSET Session
    /\ holder \in SUBSET Session
    /\ leaving \in SUBSET User
    /\ leaves \in 0..MaxLeaves
    /\ provedAt \in [User -> 0..MaxVersion]
    /\ readyFor \in [User -> 0..MaxVersion]

Init ==
    /\ dbVersion = 0 /\ dbFile = NoFile
    /\ member = User /\ ready = {}
    /\ present = FALSE /\ version = 0 /\ verified = {}
    /\ live = [u \in User |-> 0]
    /\ timer = [u \in User |-> "none"]
    /\ record = [u \in User |-> "none"]
    /\ pc = [s \in Session |-> "off"]
    /\ want = [s \in Session |-> NoFile]
    /\ seen = [s \in Session |-> 0]
    /\ rows = [s \in Session |-> {}]
    /\ wasReady = {} /\ holder = {} /\ leaving = {} /\ leaves = 0
    /\ provedAt = [u \in User |-> 0]         \* the version they last proved
    /\ readyFor = [u \in User |-> 0]         \* the version is_ready was last set for

Goto(s, label) == pc' = [pc EXCEPT ![s] = label]

\* verified_users.add on the RoomState that exists now, if any, for a file that
\* was compared with the reference of version v.
AddVerified(s, v) ==
    LET u == Owner(s) IN
    /\ verified' = IF present THEN verified \cup {u} ELSE verified
    /\ provedAt' = [provedAt EXCEPT ![u] = v]
    /\ UNCHANGED readyFor

\* A frame is served only on the connection that is registered.
Serving(s) == pc[s] = "loop" /\ live[Owner(s)] = s[2]

\* is_ready is set on the rows given, for the version the handler has seen.
SetReady(s, those) ==
    /\ ready' = ready \cup those
    /\ readyFor' = [u \in User |-> IF u \in those THEN seen[s] ELSE readyFor[u]]

\* The row of u is no longer active: who loaded it will write it in vain.
RowGone(u) ==
    /\ member' = member \ {u}
    /\ ready' = ready \ {u}
    /\ rows' = [s \in Session |-> rows[s] \ {u}]

-----------------------------------------------------------------------------
(* Connecting and disconnecting.                                           *)

\* POST /ws-ticket cancels the grace timer and pops the record.
IssueTicket(u) ==
    /\ u \in member
    /\ timer' = [timer EXCEPT ![u] = "none"]
    /\ record' = [record EXCEPT ![u] = "none"]
    /\ UNCHANGED << database, memory, live, handler, rest, history >>

\* The handshake, with a ticket issued at any earlier time.
Connect(s) ==
    LET u == Owner(s) IN
    /\ pc[s] = "off"
    /\ u \in member
    /\ present' = TRUE
    /\ live' = [live EXCEPT ![u] = s[2]]
    /\ timer' = [timer EXCEPT ![u] = "none"]
    /\ Goto(s, "connecting")
    /\ UNCHANGED << database, version, verified, record, want, seen, rows, wasReady, holder,
                    rest, history >>

\* The database snapshot of the handshake.
LoadRoomInfo(s) ==
    /\ pc[s] = "connecting"
    /\ seen' = [seen EXCEPT ![s] = dbVersion]
    /\ Goto(s, "loaded")
    /\ UNCHANGED << database, memory, presence, want, rows, wasReady, holder, rest, history >>

\* A handshake that takes over the snapshot whatever the RoomState says.
ResumeFromSnapshot(s) ==
    /\ pc[s] = "loaded"
    /\ version' = IF present THEN seen[s] ELSE version
    /\ record' = [record EXCEPT ![Owner(s)] = "none"]
    /\ Goto(s, "loop")
    /\ UNCHANGED << database, present, verified, live, timer,
                    want, seen, rows, wasReady, holder, rest, history >>

\* A fresh RoomState takes its version from the snapshot; then the grace record is
\* consumed, and readiness is restored if both versions agree.
Resume(s) ==
    LET u == Owner(s)
        synced == IF version = 0 THEN seen[s] ELSE version
        current == IF present THEN synced ELSE 0
    IN
    /\ pc[s] = "loaded"
    /\ version' = IF present THEN synced ELSE version
    /\ record' = [record EXCEPT ![u] = "none"]
    /\ IF record[u] = "ready" /\ current = seen[s]
       THEN Goto(s, "restoring") /\ holder' = IF present THEN holder \cup {s} ELSE holder
       ELSE Goto(s, "loop") /\ UNCHANGED holder
    /\ UNCHANGED << database, present, verified, live, timer,
                    want, seen, rows, wasReady, rest, history >>

\* is_ready is set again ...
RestoreReady(s) ==
    /\ pc[s] = "restoring"
    /\ SetReady(s, member \cap {Owner(s)})
    /\ Goto(s, "restored")
    /\ UNCHANGED << dbVersion, dbFile, member, memory, presence,
                    want, seen, rows, wasReady, holder, rest, provedAt >>

\* ... and the gate reopened, in the RoomState captured before that query.
RestoreVerified(s) ==
    /\ pc[s] = "restored"
    /\ verified' = IF s \in holder THEN verified \cup {Owner(s)} ELSE verified
    /\ holder' = holder \ {s}
    /\ Goto(s, "loop")
    /\ UNCHANGED << database, present, version, presence, want, seen, rows, wasReady, rest, history >>

\* The socket is gone, or the connection was replaced or closed: the loop ends.
Drop(s) ==
    /\ pc[s] = "loop"
    /\ Goto(s, "ending")
    /\ UNCHANGED << database, memory, presence, want, seen, rows, wasReady, holder, rest, history >>

\* The finally block reads is_ready,
ReadWasReady(s) ==
    /\ pc[s] = "ending"
    /\ wasReady' = IF Owner(s) \in ready THEN wasReady \cup {s} ELSE wasReady
    /\ Goto(s, "removing")
    /\ UNCHANGED << database, memory, presence, want, seen, rows, holder, rest, history >>

\* The entry of u goes.  The RoomState goes with the last connection unless
\* somebody else has a key in _grace_timers.
Occupied(u) == \E w \in User \ {u} : live[w] # 0

Unregister(u, pending, kept) ==
    /\ live' = [live EXCEPT ![u] = 0]
    /\ IF Occupied(u) \/ pending
       THEN verified' = kept /\ UNCHANGED << present, version, holder >>
       ELSE present' = FALSE /\ version' = 0 /\ verified' = {} /\ holder' = {}

StartGracePeriod(s) ==
    LET u == Owner(s) IN
    /\ timer' = [timer EXCEPT ![u] = "sleeping"]
    /\ record' = [record EXCEPT ![u] = IF s \in wasReady THEN "ready" ELSE "notReady"]
    /\ wasReady' = wasReady \ {s}

\* disconnects if this connection is still registered, and tells the others,
Disconnect(s) ==
    LET u == Owner(s) IN
    /\ pc[s] = "removing"
    /\ IF live[u] = s[2]
       THEN /\ Unregister(u, \E w \in User : timer[w] # "none", verified)
            /\ IF Occupied(u)
               THEN Goto(s, "notifying") /\ UNCHANGED << timer, record, wasReady >>
               ELSE Goto(s, "off") /\ StartGracePeriod(s)
       ELSE /\ Goto(s, "off")
            /\ wasReady' = wasReady \ {s}
            /\ UNCHANGED << memory, presence, holder >>
    /\ UNCHANGED << database, want, seen, rows, rest, history >>

\* and starts the grace period.
StartGrace(s) ==
    /\ pc[s] = "notifying"
    /\ StartGracePeriod(s)
    /\ Goto(s, "off")
    /\ UNCHANGED << database, memory, live, want, seen, rows, holder, rest, history >>

\* The grace period of a participant ends: the record is popped,
GraceFires(u) ==
    /\ u # Host
    /\ timer[u] = "sleeping"
    /\ timer' = [timer EXCEPT ![u] = "fired"]
    /\ record' = [record EXCEPT ![u] = "none"]
    /\ UNCHANGED << database, memory, live, handler, rest, history >>

\* left_at is set,
GracePersists(u) ==
    /\ timer[u] = "fired"
    /\ timer' = [timer EXCEPT ![u] = "marked"]
    /\ RowGone(u)
    /\ UNCHANGED << dbVersion, dbFile, memory, live, record,
                    pc, want, seen, wasReady, holder, rest, history >>

\* and the verified flag dropped.  The key stays in _grace_timers, so the RoomState
\* is not cleaned up.
GraceForgets(u) ==
    /\ timer[u] = "marked"
    /\ timer' = [timer EXCEPT ![u] = "done"]
    /\ verified' = verified \ {u}
    /\ UNCHANGED << database, present, version, live, record, handler, rest, history >>

\* POST /leave by a participant commits left_at,
Leave(u) ==
    /\ u # Host
    /\ u \in member
    /\ leaves < MaxLeaves
    /\ leaves' = leaves + 1
    /\ leaving' = leaving \cup {u}
    /\ RowGone(u)
    /\ UNCHANGED << dbVersion, dbFile, memory, presence,
                    pc, want, seen, wasReady, holder, provedAt, readyFor >>

\* and close_user forgets the user.
CloseUser(u) ==
    /\ u \in leaving
    /\ leaving' = leaving \ {u}
    /\ timer' = [timer EXCEPT ![u] = "none"]
    /\ record' = [record EXCEPT ![u] = "none"]
    /\ IF live[u] # 0
       THEN Unregister(u, \E w \in User \ {u} : timer[w] # "none", verified \ {u})
       ELSE verified' = verified \ {u} /\ UNCHANGED << live, present, version, holder >>
    /\ UNCHANGED << database, pc, want, seen, rows, wasReady, leaves, history >>

\* join_room inserts a fresh participant row.
Rejoin(u) ==
    /\ u \notin member
    /\ member' = member \cup {u}
    /\ UNCHANGED << dbVersion, dbFile, ready, memory, presence, handler, rest, history >>

-----------------------------------------------------------------------------
(* file_verify_request.                                                    *)

\* The reference is read and the request compared with it; what happens next is
\* decided by what was read.
VerifyRequest(s, f) ==
    /\ Serving(s)
    /\ Owner(s) = Host /\ dbFile # f => dbVersion < MaxVersion
    /\ want' = [want EXCEPT ![s] = f]
    /\ seen' = [seen EXCEPT ![s] = dbVersion]
    /\ Goto(s, IF Owner(s) = Host
               THEN IF dbFile = f THEN "confirming" ELSE "changing"
               ELSE IF dbFile = f THEN "matching" ELSE "loop")
    /\ UNCHANGED << database, memory, presence, rows, wasReady, holder, rest, history >>

\* update_file_info loads the room with its participants ...
ChangeLoad(s) ==
    /\ pc[s] = "changing"
    /\ dbVersion < MaxVersion
    /\ seen' = [seen EXCEPT ![s] = dbVersion]
    /\ rows' = [rows EXCEPT ![s] = ready]
    /\ Goto(s, "changeLoaded")
    /\ UNCHANGED << database, memory, presence, want, wasReady, holder, rest, history >>

\* An update_file_info that does not reset the readiness of the participants.
ChangeKeepsReady(s) ==
    /\ pc[s] = "changeLoaded"
    /\ dbVersion' = seen[s] + 1
    /\ dbFile' = want[s]
    /\ seen' = [seen EXCEPT ![s] = @ + 1]
    /\ rows' = [rows EXCEPT ![s] = {}]
    /\ Goto(s, "changed")
    /\ UNCHANGED << member, ready, memory, presence, want, wasReady, holder, rest, history >>

\* An update_file_info that counts the version down.
ChangeCountsDown(s) ==
    /\ pc[s] = "changeLoaded"
    /\ dbVersion' = seen[s] - 1
    /\ dbFile' = want[s]
    /\ ready' = ready \ rows[s]
    /\ seen' = [seen EXCEPT ![s] = @ - 1]
    /\ rows' = [rows EXCEPT ![s] = {}]
    /\ Goto(s, "changed")
    /\ UNCHANGED << member, memory, presence, want, wasReady, holder, rest, history >>

\* ... and commits.  The session writes only what differs from what it loaded: the
\* incremented version, and is_ready of the rows that were loaded as ready.
ChangeCommit(s) ==
    /\ pc[s] = "changeLoaded"
    /\ dbVersion' = seen[s] + 1
    /\ dbFile' = want[s]
    /\ ready' = ready \ rows[s]
    /\ seen' = [seen EXCEPT ![s] = @ + 1]
    /\ rows' = [rows EXCEPT ![s] = {}]
    /\ Goto(s, "changed")
    /\ UNCHANGED << member, memory, presence, want, wasReady, holder, rest, history >>

\* A handler that resets the gate but leaves the version of the RoomState behind.
PublishKeepsVersion(s) ==
    /\ pc[s] = "changed"
    /\ verified' = IF present THEN {Owner(s)} ELSE verified
    /\ provedAt' = [provedAt EXCEPT ![Owner(s)] = seen[s]]
    /\ Goto(s, "loop")
    /\ UNCHANGED << database, present, version, presence, want, seen, rows, wasReady, holder,
                    rest, readyFor >>

\* Then the RoomState follows.
ChangePublish(s) ==
    /\ pc[s] = "changed"
    /\ version' = IF present THEN seen[s] ELSE version
    /\ verified' = IF present THEN {Owner(s)} ELSE verified
    /\ provedAt' = [provedAt EXCEPT ![Owner(s)] = seen[s]]
    /\ Goto(s, "loop")
    /\ UNCHANGED << database, present, presence, want, seen, rows, wasReady, holder, rest, readyFor >>

\* The host selected the reference file again.
Confirm(s) ==
    /\ pc[s] = "confirming"
    /\ AddVerified(s, seen[s])
    /\ Goto(s, "loop")
    /\ UNCHANGED << database, present, version, presence, want, seen, rows, wasReady, holder, rest >>

\* A participant's file matched the reference that was read.
Match(s) ==
    /\ pc[s] = "matching"
    /\ AddVerified(s, seen[s])
    /\ Goto(s, "loop")
    /\ UNCHANGED << database, present, version, presence, want, seen, rows, wasReady, holder, rest >>

-----------------------------------------------------------------------------
(* ready and not_ready.                                                    *)

\* A gate that checks the version of the message only.
ReadyUnverified(s) ==
    /\ Serving(s)
    /\ present
    /\ seen' = [seen EXCEPT ![s] = version]
    /\ Goto(s, "readying")
    /\ UNCHANGED << database, memory, presence, want, rows, wasReady, holder, rest, history >>

\* The gate: the message's version is the current one and the sender is verified.
Ready(s) ==
    /\ Serving(s)
    /\ present
    /\ Owner(s) \in verified
    /\ seen' = [seen EXCEPT ![s] = version]
    /\ Goto(s, "readying")
    /\ UNCHANGED << database, memory, presence, want, rows, wasReady, holder, rest, history >>

\* The sender's row is loaded; a row that is ready already will not be written.
ReadyLoad(s) ==
    /\ pc[s] = "readying"
    /\ rows' = [rows EXCEPT ![s] = {Owner(s)} \cap (member \ ready)]
    /\ Goto(s, "readyLoaded")
    /\ UNCHANGED << database, memory, presence, want, seen, wasReady, holder, rest, history >>

\* The row is written; if the user has left it since, it no longer counts.
ReadyCommit(s) ==
    /\ pc[s] = "readyLoaded"
    /\ SetReady(s, rows[s])
    /\ rows' = [rows EXCEPT ![s] = {}]
    /\ Goto(s, "loop")
    /\ UNCHANGED << dbVersion, dbFile, member, memory, presence,
                    want, seen, wasReady, holder, rest, provedAt >>

NotReady(s) ==
    /\ Serving(s)
    /\ present
    /\ Goto(s, "unreadying")
    /\ UNCHANGED << database, memory, presence, want, seen, rows, wasReady, holder, rest, history >>

NotReadyCommit(s) ==
    /\ pc[s] = "unreadying"
    /\ ready' = ready \ {Owner(s)}
    /\ Goto(s, "loop")
    /\ UNCHANGED << dbVersion, dbFile, member, memory, presence,
                    want, seen, rows, wasReady, holder, rest, history >>

-----------------------------------------------------------------------------

HandlerStep(s) ==
    \/ Connect(s) \/ LoadRoomInfo(s) \/ Resume(s) \/ RestoreReady(s) \/ RestoreVerified(s)
    \/ Drop(s) \/ ReadWasReady(s) \/ Disconnect(s) \/ StartGrace(s)
    \/ \E f \in File : VerifyRequest(s, f)
    \/ ChangeLoad(s) \/ ChangeCommit(s) \/ ChangePublish(s)
    \/ Confirm(s) \/ Match(s)
    \/ Ready(s) \/ ReadyLoad(s) \/ ReadyCommit(s) \/ NotReady(s) \/ NotReadyCommit(s)

UserStep(u) ==
    \/ IssueTicket(u) \/ GraceFires(u) \/ GracePersists(u) \/ GraceForgets(u)
    \/ Leave(u) \/ CloseUser(u) \/ Rejoin(u)

Next ==
    \/ \E s \in Session : HandlerStep(s)
    \/ \E u \in User : UserStep(u)

Spec == Init /\ [][Next]_vars

-----------------------------------------------------------------------------
(* Properties.                                                             *)

\* Some handler has loaded or written a new version and not yet published it.
ChangeInProgress == \E s \in Session : pc[s] \in {"changeLoaded", "changed"}

\* The RoomState knows the file_version of the database, so that `ready` and the
\* playback controls of clients that hold the current file are accepted ("Otherwise
\* play/pause/seek/ready would be rejected as file_version_mismatch"): it lags only
\* while a change is on its way, or until the first handshake on a fresh RoomState
\* has synced it.  It holds for one host tab as long as nobody has left over REST:
\* a leave may drop the RoomState under a handshake that holds an older snapshot.
MemoryFollowsDatabase ==
    leaves = 0 /\ present /\ ~ChangeInProgress =>
        \/ version = dbVersion
        \/ version = 0 /\ \A u \in User : live[u] # 0 =>
               pc[<<u, live[u]>>] \in {"connecting", "loaded"}

\* A RoomState never goes back to an older file: while it exists its file_version
\* only grows, whatever stale snapshots handshakes carry.
VersionNeverRegresses == [][present /\ present' => version' >= version]_vars

\* The host can be ready or verified only for the current file: disconnecting,
\* reconnecting with restored readiness and changing the file never leave the host
\* past the gate on the strength of an older file.  Like the above, it needs that
\* nobody has left over REST.
HostGateIsCurrent ==
    leaves = 0 /\ ~ChangeInProgress =>
        /\ Host \in ready => readyFor[Host] = dbVersion
        /\ present /\ Host \in verified => provedAt[Host] = dbVersion

\* Nobody is ready who never proved to have a reference file, through whatever
\* sequence of reconnections, restored readiness, leaves and rejoins.
ReadyWasProved == \A u \in ready : provedAt[u] > 0

-----------------------------------------------------------------------------
(* What the repository says of the program, and the code does not do.      *)

\* file_changed "resets every participant's is_ready to false and forces re-verify":
\* a `ready` for some file that is committed is for the current one.
ReadyIsForCurrentFile ==
    [][\A s \in Session :
           /\ pc[s] = "readyLoaded" /\ pc'[s] = "loop"
           /\ rows[s] # {} /\ seen[s] # 0
           => ChangeInProgress \/ seen[s] = dbVersion]_vars

\* "Their is_ready state is restored on reconnect if file_version still matches":
\* the version they were ready for is the one they are ready for again.
RestoredForSameFile ==
    [][\A s \in Session :
           pc[s] = "restoring" /\ pc'[s] = "restored" /\ Owner(s) \in member =>
               readyFor[Owner(s)] = seen[s]]_vars
=============================================================================
