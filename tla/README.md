# TLA+ models of SyncWatch

SyncWatch lets a few people watch the same local video file together. Each of
them keeps their own copy of the file; a FastAPI server keeps the room, checks
that everybody selected the same file, and relays play, pause and seek over one
WebSocket per person. This directory models the parts of the system where the
order of things matters. On the server: who is connected, who is remembered after
a drop, who has proved to hold the current file, and whether the room plays. In the
browser: what a client comes to believe of it, which socket it keeps, which file it
holds, what its video element does, and how its session is renewed.

The server is one asyncio event loop. Nothing runs in parallel, but every
`await` hands the loop to another coroutine: a second tab's handler, a REST
endpoint, a grace timer. Nearly everything that is hard in this code is a
coroutine that reads state, awaits, and acts on what it read. The client is
JavaScript with the same hazard: promises, timers and socket callbacks that come
back to a page, a ref or a store that has moved on.

## 1. Inventory

Paths are relative to `src/`; `B` is `backend/app`, `F` is `frontend/src`.

| Component | State | Operations | Talks to |
|---|---|---|---|
| **ConnectionManager** `B/ws/manager.py` | `rooms` (room, user -> socket), `room_states`, `_heartbeat_tasks`, `_grace_timers`, `disconnected_users`, `_seq` | `connect`, `disconnect`, `close_user`, `close_room`, `start_grace_period`, `broadcast`, `send_to_user`, the heartbeat and grace tasks | called by the handler, the REST endpoints, the ticket endpoint; calls the timers' callbacks |
| **WebSocket handler** `B/ws/handler.py` | one coroutine per connection with its captured `RoomState`, snapshot and `connection_id` | handshake, reconnect, `file_verify_request`, `ready`, `not_ready`, `play`, `pause`, `seek`, `chat_send`, `sync_report`, the finally block, `_host_timeout`, `_participant_timeout` | manager, database, sync |
| **Playback state** `B/ws/sync.py` | `room_status`, `is_playing`, position, playing since | `apply_play`, `apply_pause`, `apply_seek`, `get_current_time_ms`, `evaluate_drift` | called by the handler and the heartbeat |
| **Rooms and membership** `B/api/rooms.py`, `B/services/room_service.py` | tables `rooms`, `room_participants` | create, join, leave, delete, list, `update_file_info` | `leave` and `delete` call the manager |
| **Authentication and tickets** `B/api/auth.py`, `B/core/security.py`, `B/services/auth_service.py` | users, in-memory WebSocket tickets, used refresh tokens | register, login, refresh, `ws-ticket` | `ws-ticket` changes the manager's grace state |
| **Rate limiting** `B/core/rate_limit.py` | a window of times per key | `check`, `release` | REST endpoints, handler |
| **Chat** `B/services/chat_service.py` | table `chat_messages` | insert, keyset pages | handler, REST |
| **Application life cycle** `B/main.py` | the clean-up task | start, periodic clean-up, shutdown | manager, tickets |
| **Client socket** `F/hooks/useWebSocket.ts` | socket, mount number, retry timer and count, last `seq` | connect, back-off, drop of old `seq`, intentional close | ticket endpoint, handler, router |
| **Client room state** `F/hooks/useRoomWsHandler.ts`, `F/store/*` | the zustand stores | one handler per server message | client socket, video |
| **Client playback** `F/hooks/useVideoSync.ts`, `F/pages/RoomPage.tsx`, `F/components/room/VideoPlayer.tsx` | the video element, pending `play()` promises, the nudge timer, the last snapshot | apply `sync_state`, nudge, toggle, skip, announce ready | client socket |
| **File selection** `F/components/room/FileSelector.tsx`, `F/utils/persistentFileHandle.ts` | the chosen file, object URLs, two IndexedDB stores | hash, verify, restore, remember, change, leave | client socket, room store |
| **Stage** `F/hooks/useFullscreen.ts`, `F/components/room/VideoArea.tsx`, `F/components/room/PlaybackControls.tsx` | fullscreen, control bar, debounced click, scrubber | keys, clicks, taps, drags, idle countdown | the video element |
| **Client session** `F/api/client.ts`, `F/contexts/AuthContext.tsx`, `F/components/auth/AuthModal.tsx` | token pair in `localStorage`, the refresh in flight, user, dialog | login, logout, retry after 401, single-flight refresh | auth endpoints |
| **Client user interface** `F/App.tsx`, `F/components/home/*`, `F/i18n`, `F/components/ui` | the route, the dashboard's list, dialogs, toasts | join, leave, navigate, render | all of the above |

What makes each correct, and what is hard in it:

- **Connections.** A connection that is registered will be removed again, by its
  own handler, whichever tab replaced it and whoever closed the room meanwhile.
  A room with people in it has a `RoomState` and a heartbeat; a room that was
  closed over REST keeps nobody. Hard: `close_user` and `close_room` await in
  the middle; `disconnect` and `start_grace_period` are two steps.
- **Grace periods.** Somebody who dropped is, in the end, back or forgotten. Hard:
  the ticket endpoint, the handshake, a leave, a close and the timer itself all
  consume the same record.
- **Files and readiness.** "Ready" means: proved to hold the current reference
  file. The truth is held twice, in the rows (`file_version`, `is_ready`) and in
  the `RoomState` (`file_version`, `verified_users`). Hard: every handler reads
  one, awaits, and writes the other; a `RoomState` comes and goes with the
  connections.
- **Playback.** `room_status` tells the truth about `is_playing`, and goes
  through the documented life cycle. Hard: commands are checked, await a query,
  and are then applied.
- **Broadcasts and the client.** Each client ends up believing what the server
  holds. Hard: `seq` is assigned before awaited sends and the client drops what
  is older than what it has seen; a snapshot crosses broadcasts.
- **The client's socket.** One tab keeps one socket to the room on the screen, and
  keeps trying until it has one. Hard: React reuses a page, with its refs, for
  another room; tickets, timers and close events of earlier visits are still due.
- **The session.** One refresh for many 401s, no token presented twice by a page,
  nobody waiting for a refresh that is not under way. Hard: answers of old tokens,
  logins and logouts cross, and tabs share the storage.
- **The file.** Object URLs are released, and only when nobody uses them; what plays
  or is remembered was accepted for that version. Hard: hashing and IndexedDB are
  awaited while the file changes or the page goes away.
- **The element.** The picture follows the room. Hard: `play()` is refused, aborted
  or resolved later than what follows it; the element is replaced under a timer.
- **The stage.** Somebody who looks at a paused film can reach the controls. Hard:
  timers call the closures of an earlier render; the element reports late.
- **Chat.** Each message once, and none out of reach. Hard: pages, a reload and the
  socket deliver the same messages in any order, and an older message can be committed
  after a newer one.
- **Limits.** Participants per room, events per window, keys per limiter.

`PROJECT.json` lists each hazard at its line, with the properties that cover it, or
with the reason why none does.

## 2. Modules

| Module | What it is |
|---|---|
| `ConnectionManager` | the manager's methods as operators, one per await-free stretch, for one room |
| `RoomSession` | the handlers, REST endpoints, tickets and timers over it: joins, leaves, closes, reconnections, faults, restarts |
| `FileGate` | the reference file: verification, readiness, file changes, and what disconnecting and reconnecting does to them |
| `RoomStatus` | abstract: the life cycle of `room_status` the documents promise |
| `PlaybackControl` | play, pause, seek, autopause, reopening and file changes on the `RoomState`; implements `RoomStatus` |
| `RoomStream` | numbered messages, their way over the sockets, the client's filter of old numbers, and the file version and playback it believes in |
| `RoomVisit` | one tab: the router, the dashboard's joins, the leave dialog, and the socket hook through any number of visits |
| `ClientSession` | one browser: the token pair its tabs share, the interceptors, the provider, the sign-in form and the route guard |
| `LocalFile` | one user's file: the selector, its hashing runs and object URLs, IndexedDB, verification |
| `Player` | one participant's video element against the room |
| `Stage` | fullscreen, control bar, taps, keyboard and scrubber |
| `Chat` | messages, history pages and the client's store |
| `MCRoomSession`, `MCFileGate`, `MCPlaybackControl`, `MCChat` | the symmetry sets of the TLC runs |
| `RoomSessionProofs`, `FileGateProofs`, `PlaybackProofs`, `RoomStreamProofs`, `ClientSessionProofs`, `LocalFileProofs`, `PlayerProofs` | theorems, one module per component |
| `RoomPageProofs` | theorems about `RoomVisit`, `Stage` and `Chat`, which the room's page holds together |

On the server one room is enough: the manager's dicts are all keyed by room and no
operation touches two rooms. `RoomVisit` is the module that needs two, as the
client's hazard is to go from one to the other.

The modules meet at a few interfaces. `ConnectionManager` is extended by `RoomSession`;
`FileGate`, `PlaybackControl` and `RoomStream` each have as much of the connections as
they need, with `RoomSession` behind it. `RoomStream` shows in which order messages
reach a client (in the order of numbers, or dropped); `Player`, `LocalFile` and `Chat`
start from there and take one client's connection as an ordered channel that breaks
and comes back. `RoomVisit` shows that there is one such channel at a time, and
`LocalFile` which file the `Player` is given.

**Granularity.** A step is what runs between two awaits. Where the last thing a
coroutine awaits before it acts is one database query, query and act are one
step, as nothing can come between the answer and the act. Where more awaits
follow, the value read is kept (`seen`, `rows`, `wasReady`, `holder`, or the
handler's `pc`) and used later. A handler that captured a `RoomState` which is
popped meanwhile writes to an object without readers; `holder` says which
handlers still hold the registered one. An ORM session writes only the columns
that differ from what it loaded; `rows` keeps what a handler is about to write.
A broadcast to an empty room does not suspend, which is why `Finally` and
`Disconnect` start the grace period at once when nobody is left.

**ConnectionManager and RoomSession.** `rooms[u]` is the connection registered
for `u`; the tab dedup of `connect` closes the socket it replaces. `graceTimer[u]`
is the task under `u`'s key, `"done"` included, because a key stays in
`_grace_timers` until somebody cancels it. `closeUser` and `closeRoom` are the
program counters of calls in progress, and say whether the dict a `close_user`
captured still is the registered one. `pc[c]` is the handler of connection `c`.
`HandlerFault` is an exception outside the `try` of the message loop: it ends the
handler without `disconnect`. `Restart` empties the memory and keeps the rows.

**FileGate.** A session is a tab of a user. `RestoreReady` and `NotReadyCommit`
merge the load and the commit of one row, which only that user's handlers
write. `VerifyRequest` decides by the reference it read, like the code: the rest
of the handler never looks again. `provedAt` and `readyFor` are history: the
version a user last proved, and the one `is_ready` was last set for.

**PlaybackControl.** The commands `play`, `pause` and `seek` are `CheckControl`
(before the membership query) and `ApplyControl` or `RejectControl` (after it).
`close_user` and `close_room` are one step here: their awaits are in RoomSession.
Positions are left out, as no check depends on them. The refinement maps the
status and the saved status to those of `RoomStatus`; everything else (handlers,
versions, who is connected) is hidden.

**RoomStream.** `broadcast` takes a number and writes to the first recipient in one
step (`Broadcast`), then to one recipient per step in the order of the dict
(`SendNext`); `sending[s]` is what coroutine `s` still has to write, and to whom.
A handler does nothing else until its broadcast is over. `link[u]` is the order in
which the client will see the messages, `Accepts` the filter of `onmessage`, `Apply`
what the client keeps of a message. `BelievesPlaying` is what the video does once
the room's file is loaded: it follows the last snapshot if that carries the file's
version (`resyncToLastState`). Everything that takes a number and says nothing of
version or playback (chat, readiness, presence, keep-alive) is a `Nothing` message
of the heartbeat's coroutine or of the handler that is named. A user has one
connection at a time here, and the next begins when the old handler is through;
overlaps are in RoomSession. A verification is two steps: `VerifyRead` reads the row, and
after the awaits the handler answers (`VerifyMatch`, `VerifyMismatch`); a host that selects
the file of the room again is answered like a viewer. A match names the version that was
read, which the client adopts. A host's new file is one step up to its commit
(`ChangeCommit`): only this handler changes the file, so what it read is still true there.
When the last connection goes, whether the state and the counter go too is left open: it
depends on the grace timers of RoomSession.
`hydrated`, `missed`, `late` and `torn` are history: who has taken a `room_state` on the
current socket, whose filter has dropped something on it, whose last message about the
file was an answer that named another version than the `RoomState` has, and whether one
of the known tears happened (a file change inside a handshake or told by an answer before
it was published, a play applied in a closing room).

**RoomVisit.** `url` is where the router is and `shown` the page whose effects have
run; `Render` brings the second to the first: clean-up of the old page, effects of the
new one. `mount` is `mountIdRef`, counted over the session; the visits from `born` on
share one RoomPage and so one set of refs, because React keeps the component when
only the room in the path changes. An `Attempt` is one call of `connect`: `ticket`
(the request is out), `connecting`, `open`, `closing` (closed, the event is due). It
knows the visit it was made in, and each callback checks what the code checks, which
differs from one callback to the next. `boot` and `timer` are the scheduled first
connect and the reconnect timer. Joins of the dashboard (`opening`), the leave dialog
(`asked`) and `POST /leave` (`leaving`) are here because their answers navigate.

**ClientSession.** A token pair is a number in the order of issue; `stored` is
`localStorage`, which every tab reads and writes. `req` and `bearer` follow each request:
sent with some access token, waiting for the refresh, sent again. `asked`, `asking` and
`answer` are `refreshPromise`: no refresh, one on its way to the server, one answered.
The server refuses a token in `spent`, as `mark_refresh_used` does. `presented` is history:
how often this page load has sent each refresh token.

**LocalFile.** A `Job` is one run of `processSelectedFile` and names the URL it creates;
`current` is the run that `requestNonce` still accepts, `pending` the file whose answer
is awaited. Requests, the server's work and messages are three stages, so a file
change can come before, between and after. `orphan` is history: runs that a picker
started after the selector had been unmounted. The two IndexedDB stores are `saved`.

**Player.** `video` is the element (none, loading, ready), `pending` whose `play()`
promises are open: the sync's, the toggle's, the resume button's. `Pauses` and
`DropsVideo` reject them, as browsers do. The room's half (`roomPlaying`, `closing`, `verified`,
`isReady`) is what the handlers do to this participant; `Others` are the commands of
everybody else. `DropsMessage` is the cap on all messages of a user: whatever is next on
the socket is gone, without an answer. `refused` and `unheard` are history: the server
dropped a command of this participant and nothing has been synchronised since; it dropped
an announcement and has accepted none since.

**Stage.** Its specification is `StageSpec`, as that of `Chat` is `ChatSpec`: the two are
proved about next to `RoomVisit` and share no names with it. No constants. `due` are the `play` and `pause` events the element has yet
to fire; `click` is the debounced click with what its closure captured; `request` is a
fullscreen change the browser has not answered. `hands` is what holds the scrubber: the
mouse, a finger, an arrow key, or several of them. A disabled input hears touches only
(`Heard`); `ReleaseUnheard` is a hand that lets go without its event. `SeekChange` needs no
hand. `late` and `loose` are history: they mark the overtaken handlers, and a gesture left
with nothing that would end it, which the properties except (section 5).

**Chat.** Messages are numbered when their transactions begin (`SaveBegins`), because
`created_at` is `now()` of the transaction: this is the order of the keyset. They are seen
when they have committed (`SaveCommits`), in any order. A query answers with the rows that
are committed, and the cursor is a number. `load` is the first load of the page, which
leaving cancels; `requests` are retries and load-mores, which it does not. `loaded` (what
the last full load has read), `outdated` (requests made before it was applied) and `crossed`
(one of them was applied after it) are history. Lists are stated without recursion: the
ascending sequence of a set (`Listings`).

## 3. Runs

All use two workers and finish within about three minutes.

| Run | Shows | Bounds |
|---|---|---|
| `RoomSession` | connections are served, records backed, occupied rooms equipped, closed rooms sealed | 2 users, 2 connections, 1 ticket each, 1 leave, 1 fault, 1 restart |
| `RoomSession_live` | every grace record resolves; a room closed over REST drains | 2 users, 2 connections, no leave, fault or restart |
| `HostReturn` | the finding of section 5 | 2 users, 3 connections, 1 ticket each |
| `FileGate` | the `RoomState` follows the database, versions never go back, nobody is ready without proof, the host is past the gate for the current file only | 2 users, 1 tab each with any number of reconnections, 2 files, 2 changes, 1 leave |
| `Playback` | status truthful, nothing plays without a file, refinement of `RoomStatus` | 3 users, 2 changes, any number of commands and drops |
| `RoomStream` | fresh sockets hydrate, the counter stays ahead, a client that dropped nothing and got no late answer agrees when all is quiet | 2 users, 2 versions, 7 messages between two drains, 1 unread message per socket, 1 lost connection or 1 verification (5 777 781 states) |
| `RoomVisit` | the hook never gives up, has one lifeline, tells the truth about its connection, and its socket opens in the end | 2 rooms (1 hosted), 2 attempts at a time, 3 visits (110 884 states) |
| `ClientSession` | a page presents a token once, waiting means a refresh, spinners end, a lost session is noticed | 2 tabs, 1 call beside the two `/auth/me`, 2 token pairs |
| `LocalFile` | URLs neither leaked nor lost, `verifying` means a file, what plays and is remembered was accepted | 2 files, 2 runs at a time, 2 versions, 2 messages each way (1 092 614 states) |
| `Player` | element and room agree when quiet, playable files are announced, nudges end | 2 versions, 3 messages on their way (3 101 005 states) |
| `Stage` | a paused film has controls, an idle bar hides, a released scrubber follows | none: the whole state space (444 452 states) |
| `Chat` | no message twice, none that was loaded out of reach | 3 messages in any order of commits, pages of 1, 2 requests (2 959 833 states) |

The bounds are enough for what is asked. Two connections are two users at once or
a user's tab and its replacement, and the invariants of `RoomSession` are proved
for any number. Two file changes give an old, a current and a next version, and
two files let a change go back to the first. Connections in `RoomSession` are
used once; in the other modules a handler returns to `"off"` and starts again, so
there the number of reconnections is not bounded, except in `RoomStream`, where each
loss restarts a client and one is enough for a client that remembers older numbers.
There a loss and a verification share a bound (`MaxEvents`): the late answer needs no
loss, and both together, in any number, are covered by the proofs (`EverybodyAgrees`).
Seven messages cover two handshakes (`room_state` and `user_joined` each), a file
change, a command or an answer to a verification, and a heartbeat crossing them: the answer
that names an old version after the news of the new one is number seven. One unread message still lets
broadcasts overtake each other, as that happens between the coroutines and not on
the socket.

Of the client's modules, `Stage` has no bound. In `RoomVisit` three visits are two of
one page with a third on either side, and attempts are used again when their last
callback is through: two at a time are the current one and one left over. In
`ClientSession` two pairs are an expired and a fresh one, which is what a late 401 and a
second tab need; requests, logins, logouts and reloads are not bounded. The third
request of a tab (and any number of them) is covered by the proofs. In `LocalFile` runs
are used again too; two files and two versions give an answer about the other file and
an answer about the older version. Three messages in `Player` are a command, its
broadcast and one crossing them. Three messages and pages of one give the chat a
history of three pages, with a message in the middle that may commit last; new messages
shift them. Four messages and pages of two give two full pages as well, and with any order
of commits more states than a run can take: the size of a page is left to the proof.

The types of `RoomVisit`, `ClientSession`, `LocalFile`, `Player`, `Stage` and `Chat` are
proved, and so no run checks them.

Each property has a mutant in `PROJECT.json`: one definition of the module replaced
by a form with a plausible bug (a dropped check of the mount number, a nonce that is not
renewed, a timer that is not cleared), under which TLC finds the property violated in the
same configuration. It shows that the property depends on the code and that the bounds
are wide enough for the case to happen.

`RegisteredIsServed` and `GraceRecordBacked` are stated for runs without a fault:
an error outside the loop really leaves an entry behind. `GraceRecordBacked`
names the one exception to "a record has a timer", the handshake that has
cancelled the timer and has yet to consume the record. `HostGateIsCurrent` and
`MemoryFollowsDatabase` are stated for one tab per user and until somebody leaves
over REST: beyond that the model shows the opposite (section 5).
`ClientsAgree` makes four exceptions: a client whose filter has dropped a message
(`OnlyDuplicatesAreDropped`, section 5), a client whose verification was answered with an
older version after the news of the newer one (`late`: without it TLC finds the
counterexample), a handshake or an answer that read the file's row on one side
of a change and the `RoomState` on the other, and a play applied in a closing room
(`ClosingRoomIsPaused`; the next autopause is then announced but not carried out:
without this exception TLC finds a counterexample with 11 messages and two losses of
the host).

`SingleLifeline` and `ConnectedIsTrue` are stated while the RoomPage has been shown for
one room only (`born = mount`); `InStep` and `AnnouncedIsReady` except a command or an
announcement the server dropped,
`UrlsAreHeld` and `LoadedWasAccepted` the runs started after an unmount, the properties of
`Stage` a handler that was overtaken or an end of a gesture that was not heard, and
`OlderAreReachable` a page that was asked for before the last full load.
Each exception is a variable set by the one step that causes it (`born`, or history), and what
happens there is in section 5.

**Fairness.** `FairSpec` of `RoomSession` assumes that the event loop runs each coroutine that can
run (`HandlerStep`, the steps of `close_user` and `close_room`) and each timer
that is due. asyncio's ready queue is first in, first out, and every await of
those coroutines is a query, a send or a sleep that ends. Nothing is assumed of
clients: no reconnection, no leave, no drop ever has to happen, which is why a
room that nobody closes is allowed to live for ever.

`FairSpec` of `RoomVisit` assumes weak fairness of what the browser does by itself:
React renders, due timers fire, a ticket request is answered in one way or another,
and a socket that was closed reports it. That a request is granted and a socket opens is
assumed strongly: of infinitely many tries one succeeds. Nothing weaker can do, as a
server that refuses for ever is never reached; nothing is assumed of the user, who may
leave, and of the server, which may refuse any number of times first. `Recovers` says that
the hook turns this into an open socket, unless it was told to stop (by an answer
4xx, by `tab_replaced`, or because the page was left).

`CHECK_DEADLOCK FALSE` is in every configuration where the system may stop: a room ends
for good when everybody has gone and the bounds are used up, a user may do nothing
more, and a client waits for a server that is out of messages.

## 4. What is proved

Every theorem holds for every value of the constants. The assumptions are those
stated with the constants: the host is a user, "no connection" is no connection,
"no file" is no file, the dashboard is no room, the two uses of `/auth/me` are two
requests, a page of the history has at least one message, and the bounds are natural
numbers (they may be as large as one likes). No
finiteness is assumed, neither of users nor of tabs, attempts, files or runs. Three theorems
of `FileGate` have a premise on the number of tabs besides: with more of them the
properties are false (section 5), in the code as in the model.

**RoomSessionProofs.**
- `TypeCorrect`: the type invariant.
- `RegisteredConnectionsAreServed`: each registered connection belongs to its user
  and has a handler that has yet to run `disconnect`. Inductive together with the
  types: `Accept` registers while serving, and each step that leaves the serving
  states removes the entry or finds that it is not the registered one.
- `GraceRecordsAreBacked`: whoever cancels a timer consumes the record, or is the
  handshake that will.
- `RestCloseSeals`: needs the strengthening that, once a REST close has been
  committed and no `close_room` is pending, nobody who read the room as active is
  still registered; whoever connects later reads it as inactive.
- `OccupiedRoomsAreEquipped`: needs that a registered dict of an active room comes
  with its heartbeat and state, except from the first step of a `close_room` on.

**FileGateProofs.**
- `TypeCorrect`, over an invariant that also bounds the version of a handler in
  the middle of a change.
- `ReadyUsersProved`: nobody is ready who never proved a file, for any number of
  tabs, users, leaves and changes. The invariant also covers everything readiness
  can be set from: `verified_users`, the restored record, the rows a handler is
  about to write and the `was_ready` of a finally block; and that a host whose
  reference file was read has a version above zero.
- `VersionsOnlyGrow`, with one tab of the host, any number of viewers' tabs and leaves:
  only the handler of the host's tab changes the file, so what it read stays true until it
  writes, and nobody else has seen more than the database holds (`ChangersInv`). A
  `RoomState` that had taken a version from ahead of the database could go back.
- `RoomStateFollows`, with one tab per user (`OneTab`): a user is registered exactly while
  the one handler is in its room, and no state means no handler (`PresenceInv`). Unless a
  change is about to be published, the version is the database's or zero, and it is
  zero only until the first handshake has synchronised it, with a snapshot that is
  still good: a change needs a connected host, hence a version (`SyncInv`).
- `HostGateHolds`, with `OneTab`: everything the host's readiness can come from
  (the record, `was_ready`, `verified_users`, a confirmation under way) rests on a
  proof of the current file, and a change takes each of them away or waits for it
  (`HostInv`, which needs the three before, and that a handler writes the row
  of its own user, `OwnInv`).

**PlaybackProofs.**
- `TypeCorrect`, `PlayingStatusHolds` (inductive as it stands), and
  `NoPlaybackWithoutFile` (with: a command in flight on the live `RoomState`, or a
  change about to be published, implies a file).
- `Refinement`: PlaybackControl implements RoomStatus. Each action maps to a step
  of the life cycle or to a stutter; the step "the host returns" needs
  `PlayingStatusHolds` for the saved status.

**RoomStreamProofs.**
- `TypeCorrect`, and `CounterStaysAhead`: no client has seen a number above the
  counter. The invariant extends this to every message on a socket and every
  broadcast under way (`Numbered`), and needs that both end with the socket and that
  open sockets are registered (`Attached`): that is why the counter can be dropped
  with the last entry, and only then.
- `SocketsHydrate`: a served client that has read everything has taken its
  `room_state`. `send_to_user` numbers and writes in one step, so the message stands
  on the socket with nothing of a higher number in front of it (`GreetingUnderway`);
  reading moves it to the front and the filter lets it through. For a broadcast to
  several recipients the same argument fails, as `OnlyDuplicatesAreDropped` shows.
- `EverybodyAgrees`: a client that has dropped nothing agrees with the server when all is
  quiet. A client's belief is the last word of each kind: of the messages it has still to
  get (on its socket, or in a broadcast that has not reached it), the one with the highest
  number that says something of the file, and of playback, and if there is none what it
  believes already (`FileSettles`, `PlaySettles`). `Settled` says that this is what the
  `RoomState` holds, at any time and for whoever was greeted: a broadcast is numbered in the
  step that changes the state, so it is the last word from then on. A file change is the
  hard part, because version and announcement are steps apart; in between, nobody can have
  heard of the new version, and nothing that plays can be taken for it (`Heard`, `Unheard`,
  `Whole`). The answer to a verification that names another version breaks `Settled` for its
  user until the next message about the file mends it: that is `late`, and `Told` says so.
  `Versions` and `Handlers` say what the handlers have read, and that one that is
  between two awaits is not broadcasting.

**RoomPageProofs**, of `RoomVisit`:
- `TypeCorrect`.
- `HookNeverGivesUp`: each callback that ends an attempt of this visit schedules the
  next one or has set a flag that says to stop; a callback of another visit only adds.
- `LifelineIsSingle`: from `LoneLifeline`, in which an attempt whose close event is due
  counts too (the event schedules the next one), and `WantedInRooms` (only the page of a
  room wants a connection), under `born = mount`: as long as nobody else writes the
  refs, whoever schedules has found nothing scheduled.
- `ConnectedTellsTruth`: from `ConnectedIsMine`, which says that the socket of this visit is
  the one in `wsRef` and the one that is reported.

of `Stage`:
- `StageTyped`, its types.
- `PausedFilmHasControls`: while the element is paused and no `pause` event is due, the
  bar knows that nothing plays (`PauseIsHeard`), and so whatever could hide it does nothing
  (`CountdownInPlace`, `PausedIsPinned`). The same has to hold for the ways into fullscreen:
  who asks for it takes the bar along (`BarComesAlong`), and without a file it is on its way
  out (`WithoutFile`).
- `IdleBarGoesAway`: with `RequestsInPlace`, every step that shows the bar over a film that
  plays arms the countdown in the same step.
- `ScrubberIsFree`: each end of a gesture that is heard ends it, whichever hand it is, so a
  gesture without a hand is one whose last hand was not heard, or that never had one
  (`ScrubberInv`).

of `Chat`:
- `ChatTyped`, its types and those of the answers on their way.
- `ShownOnce`: each of the three ways into the store (a full load, a page in front, a
  message behind) adds what is not there, and what it adds has no repetitions: lemmas about
  sequences that are joined (`ConcatKeepsInjective`, `OlderRows`, `RowsAreAPage`).
- `NoHoleInTheHistory`: what a query has read is among its rows or below its cursor
  (`Covers`), and what was committed stays in the table (`ReadsAreSaved`). So the answer to a
  load-more that is applied holds what the last full load had read below the cursor it was
  asked with (`Adjoining`); only a request that is older than that load need not.

**ClientSessionProofs.**
- `TypeCorrect`: needs that a refresh that is asked is asked with a token.
- `TokensArePresentedOnce`: the stored token has been presented only in a refresh
  that is under way (`StoredIsFresh`), so that a refresh, which begins only when none is,
  takes one that is fresh. That stays so when an answer is stored, because a pair on its
  way to a tab has been presented by nobody (`AnswersAreNew`), as nothing is presented
  before it is issued (`NotBeforeIssued`).
- `WaitersAreServed` and `SpinnersAreRequests` are inductive together: the login's
  `/auth/me` waits only while the form does.
- `SignInIsAsked`, an action property: from what each page shows (`Shows`), each step
  that takes the user away opens the dialog, begins a start-up or leaves the page.

**LocalFileProofs.**
- `TypeCorrect`.
- `UrlsAreNeitherLeakedNorLost` and `VerifyingIsOfAFile`: inductive together with:
  while the run that the nonce accepts is hashing, the selector says so
  (`CurrentHashes`); a run that is not over has made no URL (`HashingIsNotLive`); and
  while a file is on the screen the selector has neither a run nor a URL
  (`GoneIsIdle`).
- `RecordsWereAccepted`: every "match", in the making, on the socket or in the store,
  names a file and a version that were accepted (`AnswersAreTrue`), and a record is
  written from such an answer.
- `WhatPlaysWasAccepted`: the file that plays was accepted for the version the client
  announces. The danger is an answer to an earlier request, which moves `fileVersion` under
  a file it is not about. A selection that is given up leaves its request behind, so the
  file that is verified must have the last word (`LastWord`): behind each request for it, as
  far as it has come (asked, being answered, answered, on the page), only repetitions of it
  follow. Repetitions exist: a file that is being restored can be chosen once more, in a
  dialog that was open before, and the first answer serves both requests. What they leave
  in flight can meet a selector that is back and restores again. So the invariant also says
  what can be restored (`Restorable`, `OnlyKept`: a version is one file, and so the two stores
  cannot offer two), and that a run behind an open dialog is a restore of just that
  (`RestoreUnderChooser`). It holds until a run of a selector that is gone has sent a request
  (`NothingFromUnmounted`), which is the exception of the property.

**PlayerProofs.**
- `TypeCorrect`, and `NudgesAreReset`, which is inductive: whatever drops or replaces the
  element clears the timer and the rate in the same step.
- `CanPlayIsReady`: while the socket is open and the verified file of the room can
  play, the server counts the participant, or the announcement of that version is among
  the commands on their way, or one was swallowed (`AnnounceInv`). Whatever takes the readiness away (a
  restart, another file, a reconnection) also takes one of the premises, and what brings
  it back sends the announcement.
- `PictureIsInStep`: two invariants meet. `MailInv` says what the messages on a socket are:
  ordered by version, each at or ahead of the page, a state always for the file that the page
  will have when it comes to it, and the last of them the room as it is (`MailGetsNotice`,
  `MailGetsState`, `MailGetsFile`, `MailBegins` and `MailShrinks`, for sequences of any
  length). So a page that has read everything knows whether the room plays. `PictureInv` says
  that an element which can play does what the last snapshot says (or asks for it), or that
  something is on its way that settles it: news, a command of this participant, or the
  announcement of a file that the snapshot is not for, which the server answers with a
  state, because it has verified the file or news of another one are on their way, or that
  announcement was swallowed (`refused`).

Only model-checked: liveness (`GraceRecordResolves`, `RestCloseDrains`, `Recovers`), which
the prover does not handle under fairness. Every other property of a run is proved. That
the mutants break the properties, and that the exceptions they make are needed, is TLC's too.

## 5. Findings

The run `HostReturn` checks what `docs/ARCHITECTURE.md:146` promises, that the room of a
host who comes back in time can play again, and TLC finds a counterexample:
`POST /ws-ticket` pops the grace record, so the handshake of the returning host finds
none and the room stays `closing`; controls are ignored until the file is changed.

More statements of the repository fail in the same way. They are definitions of the
modules that no run checks; adding one to the configuration named (INVARIANT, or
PROPERTY where noted) reproduces the counterexample.

| Property | Configuration | Says | What happens |
|---|---|---|---|
| `NeverEvictConnected` (PROPERTY) | `HostReturn.cfg`: three connections | `B/ws/manager.py:67` "Cancel grace timer if reconnecting" | The finally block starts the grace period after its broadcasts; a user who reconnected meanwhile is removed 30 s later although connected. |
| `GraceKeepsState` | `RoomSession.cfg` | `B/ws/manager.py:92` "Only clean up state if no grace timers pending (someone may reconnect)" | `disconnect` looks for timers before the dropping user's own timer exists; alone in the room, their `RoomState` goes at once. |
| `ReadyIsForCurrentFile` (PROPERTY) | `FileGate.cfg` | `docs/WS_PROTOCOL.md:60`: a change of the file resets everybody's readiness | A `ready` that passed the gate is committed after a file change has reset everybody. |
| `RestoredForSameFile` (PROPERTY) | `FileGate.cfg` | `docs/ARCHITECTURE.md:149` "restored on reconnect if `file_version` still matches" | The record keeps no version: readiness is restored although the file was changed meanwhile. |
| `ClosingRoomIsPaused` | `Playback.cfg` | `B/ws/handler.py:554`: a closing room is autopaused | A play that was checked before the host dropped starts the playback of a closing room. The same gap lets it be applied after a file change. |
| `OnlyDuplicatesAreDropped` | `RoomStream.cfg` | `B/ws/manager.py:190`, `F/hooks/useWebSocket.ts:124`: the filter removes duplicates | Two broadcasts reach a client in the other order than they were numbered, and its filter drops the first one though the client never had it. |
| `NothingFromUnmounted` | `LocalFile.cfg` | `F/components/room/FileSelector.tsx:78` "so a late resume can't createObjectURL / setState / send a verify from an unmounted selector (leaking the URL)" | The clean-up renews the nonce, but a file picker that is still open starts a new run with the new nonce: it hashes, creates a URL and asks for verification. |
| `NoPromptWhenPaused` | `Player.cfg` | `F/hooks/useVideoSync.ts:131` "Always clear the autoplay overlay even if the local video was never started" | The pause rejects the promise of a `play()` still pending, and the rejection, which comes after the overlay was cleared, puts the prompt over a paused room. |

The models also have these behaviours, which no run of their own states:
- A finished timer's key stays in `_grace_timers`, so "no more grace timers" is never
  true in its own callback: the `RoomState` and the counter of an emptied room stay.
- `_host_timeout` closes the room before it clears `is_active`; whoever connects in
  between sits in a deactivated room.
- `file_changed` and the host's confirmation leave the client's playback snapshot
  alone. Somebody whose handshake read the new version before the change was
  published can be left with a snapshot that says "playing" for the new file.
- Two tabs of the host can commit two different files under one `file_version`
  (`ChangeLoad`, `ChangeLoad`, `ChangeCommit`, `ChangeCommit` with `HostTabs = 2`).
- A handshake holding an old snapshot initialises a fresh `RoomState` with it,
  when the room emptied in between (by a leave, or by a replaced tab), and nothing
  corrects it afterwards.
- A verification in flight while its user leaves, or while the file changes, adds
  the user to `verified_users` all the same.
- `close_user` drops the dict that is registered when its awaits end, even if it
  is not the one that it found empty.
- A user who fetches a ticket during the grace period and never connects has no
  timer left; if that is the host, the room stays closing.
- Any participant can play, pause and seek; `docs/WS_PROTOCOL.md` says the host
  only, `docs/ARCHITECTURE.md` says anyone.

The client's modules have these, too. Where a property excepts one, the exception
is named.

*Socket and router* (`SingleLifeline` and `ConnectedIsTrue` are for `born = mount`):
- When the router goes from one room straight to another, `useWebSocket.ts:164-180` does
  not compare the mount number: a 4xx answer to the old visit's ticket request
  stops the new visit's hook, and any other failure schedules a second connect, which
  ends in two sockets. A late close event of the old one says "not connected".
- The answer to a leave that was confirmed in an earlier visit navigates out of the
  room that is shown by then.

*Session* (the models allow it; no document promises otherwise except where quoted):
- A logout while a refresh is in flight: the answer stores tokens again.
- The provider can have a user while the session is dead, unlike the comment at
  `F/contexts/AuthContext.tsx:56-59`. The failing `/auth/me` of a start-up removes the tokens
  of a login that came first, and one tab's failed refresh removes another tab's.
- A refresh whose answer is lost has used up the token (`docs/API.md:57`): the next one is
  refused and the user has to sign in.

*File*:
- A verification the server does not answer (the rate limit) leaves the selector
  `verifying` until the file is changed or the page left.
- The restore is tried once per version, also if it was not allowed to finish. A handle
  saved for another version clears a matching blob with it. Cancelling the picker
  opens the input's chooser.

*Broadcasts* (`ClientsAgree` excepts `missed`, `late` and `torn`):
- A viewer's verification reads the file's version, and its answer is sent some awaits
  later (`handler.py:354`, `:460`). If the host's change falls in between, the viewer gets
  `file_changed` first and then a match that names the old version, which
  `useRoomWsHandler.ts:173-176` adopts: the client stays at a file the room has left, until
  the next message about the file. An answer that names a version before it is published is
  ahead of the room for a moment.

*Playback* (`InStep` excepts `refused`, `AnnouncedIsReady` `unheard`):
- Over 200 messages in ten seconds the server drops whatever comes, without an answer
  (`handler.py:294`). A `ready` among them is lost: `announcedReadyVersionRef` is set, and
  until the next `canplay` or connection nobody announces the file again.
- The page applies a command before the server has accepted it; one that is refused (no
  file, a closing room, a limit) leaves this participant ahead of the room until the
  next synchronisation.
- Space under the autoplay prompt toggles the room's playback.

*Stage* (`PausedHasControls` and `IdleBarHides` except `late`, `ScrubberFollows` `loose`):
- A tap waits 220 ms for a second one and then acts as it was rendered: if a pause
  came meanwhile it hides the bar of a paused fullscreen, where `VideoArea.tsx:136-137`
  says a tap "can't strand a paused fullscreen player with no controls".
- A touch followed by a mouse press within the 220 ms pauses the room instead of
  showing the bar. A `pause` event that comes after the element plays again leaves the
  bar up without a countdown. Fullscreen granted after the file has gone shows no player.
- The mouse or the arrow key released on a scrubber that was disabled meanwhile is not
  heard, and a touch that the browser takes away ends in a `touchcancel` that nothing listens
  to (`PlaybackControls.tsx:282-296`). A change with no hand on the scrubber (an assistive
  technology, or a drag that goes on after a blur or after another hand let go) begins a
  gesture that only a blur or the next release ends. In each case the scrubber stops
  following the film until it is used or left.

*Chat* (`OlderAreReachable` excepts `crossed`):
- The answer to the first load replaces what the socket has delivered since it was
  asked. What is said between that answer and the opening of the socket, or during a
  reconnection, is not shown until a reload.
- A retry or a load-more that is answered after its page was left writes to the
  store of the next visit. A page asked for before a full load and applied after it
  leaves a hole between the two.
- `created_at` is the time a transaction begins (`models/chat_message.py:24-26`), and its
  row is seen when it commits. A message that commits after a newer one was read is on no
  page above the cursor that the reader holds, and reaches the screen by its broadcast
  only; it is shown out of order then, and if the broadcast is missed or overwritten by the first
  load, a reload shows it.

## 6. Not modelled

- **Positions and time.** `get_current_time_ms`, the drift thresholds of `evaluate_drift`, the
  buffer limit and the length of the back-off: the models have "a nudge or none" and
  "a timer runs". The state space would be that of the clocks, and no property here depends on
  more.
- **Capacity.** `join_room` counts and inserts under a row lock; with the lock it is one
  step, and one step cannot go wrong here. `file_version += 1` as an unlocked
  read-modify-write is in `FileGate`.
- **Rate limiting.** Sliding windows of time stamps; elsewhere a limited request is one
  that is refused, dropped or not made, which the models allow at any time.
- **Hashing.** A file's hash is the file: equal samples of different files and a file that
  changes on disk are left out.
- **Two clients of one user sharing IndexedDB**, the registration half of the form, accounts
  (all tabs use the same one), the text of messages and the format of the cursor.
- **Decoding**: unsupported formats and media errors end in a toast and a `playback_error`
  message, which the server answers with a broadcast and no change of its state.
- **Schema, migrations, configuration, icons, wording, toasts, styles, volume**: no behaviour of
  their own. The dashboard is modelled as far as it navigates; its list is fetched and
  shown (a slow answer can show a room that was deleted meanwhile).
- **Shutdown and clean-up** (`B/main.py`): shutdown is `close_room` for each room, after which
  nothing runs; the periodic clean-up removes what has expired and is unreachable already.

What would come next: a composition of `Player` with `RoomStream` instead of an ordered
channel; the limiter's window against a reference definition.
