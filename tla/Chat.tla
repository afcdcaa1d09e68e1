-------------------------------- MODULE Chat --------------------------------
(***************************************************************************)
(* The chat of a room as one of its clients sees it: messages that are     *)
(* saved and then broadcast, the pages of the history that the room page   *)
(* asks for when it is opened, on a retry and on scrolling up, and the     *)
(* store that all of them write to.                                        *)
(*                                                                         *)
(* Messages are numbered in the order (created_at, id) of the history's    *)
(* keyset. created_at is the beginning of the transaction that inserts the *)
(* message, and others see the row when it has committed: an older message *)
(* may turn up after a newer one. An answer is taken when the server reads *)
(* the table and applied later. Leaving the page cancels the first load    *)
(* and no other: their answers meet whatever the store holds by then.      *)
(*                                                                         *)
(* Not covered: other rooms (a late answer may be one of another room),    *)
(* rate limits and the length of a message.                                *)
(***************************************************************************)
EXTENDS Naturals, Sequences, SequencesExt

CONSTANTS Request,      \* identities of load-more and retry requests
          Page,         \* the limit of a page
          MaxMessages   \* bound: messages in the room

ASSUME ChatAssumption == Page \in Nat \ {0} /\ MaxMessages \in Nat

VARIABLES
    begun,          \* messages whose transaction has begun: 1..begun
    saved,          \* the committed ones, which a query sees
    unsent,         \* those of them whose broadcast is due
    up, net,        \* the client's socket, and what is on its way
    load,           \* the first load: none, room, asked, served, done
    first,          \* its answer
    messages, cursor, error,    \* the store
    requests,       \* what each request is doing
    loading,        \* loadingMore of this ChatPanel
    loaded,         \* history: the messages that the last full load has read
    outdated,       \* history: requests made before it was applied
    crossed         \* history: one of them was applied after it

table == <<begun, saved, unsent>>
socket == <<up, net>>
firstLoad == <<load, first>>
store == <<messages, cursor, error>>
history == <<loaded, outdated, crossed>>
chatVars == <<table, socket, firstLoad, store, requests, loading, history>>

NoAnswer == [rows |-> <<>>, next |-> 0, read |-> {}]
Idle == [kind |-> "none", before |-> 0, served |-> FALSE, page |-> NoAnswer]

ChatInit ==
    /\ begun = 0 /\ saved = {} /\ unsent = {}
    /\ up = FALSE /\ net = <<>>
    /\ load = "none" /\ first = NoAnswer
    /\ messages = <<>> /\ cursor = 0 /\ error = FALSE
    /\ requests = [q \in Request |-> Idle]
    /\ loading = {}
    /\ loaded = {} /\ outdated = {} /\ crossed = FALSE

--------------------------------------------------------------------------
(* The server *)

(* save_message: the transaction begins, which numbers the message; those *)
(* of several users overlap.                                              *)
SaveBegins ==
    /\ begun < MaxMessages
    /\ begun' = begun + 1
    /\ UNCHANGED <<saved, unsent, socket, firstLoad, store, requests, loading,
                   history>>

(* Its commit. *)
SaveCommits(m) ==
    /\ m \in 1..begun \ saved
    /\ saved' = saved \cup {m}
    /\ unsent' = unsent \cup {m}
    /\ UNCHANGED <<begun, socket, firstLoad, store, requests, loading,
                   history>>

Broadcast(m) ==
    /\ m \in unsent
    /\ unsent' = unsent \ {m}
    /\ net' = IF up THEN Append(net, m) ELSE net
    /\ UNCHANGED <<begun, saved, up, firstLoad, store, requests, loading,
                   history>>

(* The set of messages S as a list, the oldest first. *)
Listings(S) ==
    {s \in [1..Cardinality(S) -> S] :
        ToSet(s) = S /\ \A i, j \in DOMAIN s : i < j => s[i] < s[j]}

\* The cursor of the extra row: the next page starts below it.
CursorOfExtraRow(s) == s[Len(s) - Page]

(* The cursor of the oldest row that is kept. *)
NextCursor(s) == s[Len(s) - Page + 1]

(* What is kept of the rows s below the cursor: the Page newest, and a     *)
(* cursor if there are more.                                               *)
Answer(s) ==
    [rows |-> IF Len(s) > Page THEN SubSeq(s, Len(s) - Page + 1, Len(s)) ELSE s,
     next |-> IF Len(s) > Page THEN NextCursor(s) ELSE 0,
     read |-> ToSet(s)]

(* get_history: below the cursor, 0 being no cursor. There is one answer. *)
GetHistory(before) ==
    {Answer(s) : s \in Listings({m \in saved : before = 0 \/ m < before})}

--------------------------------------------------------------------------
(* Opening and leaving the page *)

Enter ==
    /\ load = "none"
    /\ load' = "room"
    /\ UNCHANGED <<table, socket, first, store, requests, loading, history>>

(* GET /rooms/{id} and then the history; a refusal leads away (LeavePage). *)
RoomLoaded ==
    /\ load = "room"
    /\ load' = "asked"
    /\ UNCHANGED <<table, socket, first, store, requests, loading, history>>

FirstServed ==
    /\ load = "asked"
    /\ load' = "served"
    /\ first' \in GetHistory(0)
    /\ UNCHANGED <<table, socket, store, requests, loading, history>>

UnderWay == {q \in Request : requests[q] # Idle}

(* setMessages, setChatCursor, setChatLoadError after a full load. *)
Replaces(page) ==
    /\ messages' = page.rows /\ cursor' = page.next /\ error' = FALSE
    /\ loaded' = page.read /\ outdated' = UnderWay /\ crossed' = FALSE

FirstApplied ==
    /\ load = "served"
    /\ load' = "done" /\ first' = NoAnswer
    /\ Replaces(first)
    /\ UNCHANGED <<table, socket, requests, loading>>

FirstFailed ==
    /\ load \in {"asked", "served"}
    /\ load' = "done" /\ first' = NoAnswer
    /\ error' = TRUE
    /\ UNCHANGED <<table, socket, messages, cursor, requests, loading,
                   history>>

(* The clean-ups: the load is cancelled, the socket closed, the store     *)
(* reset.                                                                 *)
LeavePage ==
    /\ load # "none"
    /\ load' = "none" /\ first' = NoAnswer
    /\ up' = FALSE /\ net' = <<>>
    /\ messages' = <<>> /\ cursor' = 0 /\ error' = FALSE
    /\ loading' = {}
    /\ loaded' = {} /\ outdated' = {} /\ crossed' = FALSE
    /\ UNCHANGED <<table, requests>>

--------------------------------------------------------------------------
(* The socket *)

ConnectOrDrop ==
    /\ load # "none"
    /\ up' = ~up /\ net' = <<>>
    /\ UNCHANGED <<table, firstLoad, store, requests, loading, history>>

\* A store that trusts the socket not to repeat the history.
Appends(m) == messages' = Append(messages, m)

(* addMessage *)
Adds(m) ==
    messages' = IF m \in ToSet(messages) THEN messages ELSE Append(messages, m)

Receive ==
    /\ net # <<>>
    /\ Adds(Head(net))
    /\ net' = Tail(net)
    /\ UNCHANGED <<table, up, firstLoad, cursor, error, requests, loading,
                   history>>

--------------------------------------------------------------------------
(* Retry and load more *)

Asks(q, kind, before) ==
    /\ requests[q] = Idle
    /\ requests' = [requests EXCEPT ![q] =
           [kind |-> kind, before |-> before, served |-> FALSE,
            page |-> NoAnswer]]
    /\ outdated' = outdated \ {q}

(* The button of the error; nothing keeps it from a second click. *)
Retry(q) ==
    /\ load \notin {"none", "room"} /\ error
    /\ Asks(q, "retry", 0)
    /\ UNCHANGED <<table, socket, firstLoad, store, loading, loaded, crossed>>

(* handleScroll near the top: once at a time, as far as this panel knows. *)
LoadMore(q) ==
    /\ load \notin {"none", "room"}
    /\ cursor # 0 /\ loading = {}
    /\ Asks(q, "more", cursor)
    /\ loading' = {q}
    /\ UNCHANGED <<table, socket, firstLoad, store, loaded, crossed>>

(* The other tab and back: a new ChatPanel. *)
SwitchTabs ==
    /\ loading # {}
    /\ loading' = {}
    /\ UNCHANGED <<table, socket, firstLoad, store, requests, history>>

Served(q) ==
    /\ requests[q] # Idle /\ ~requests[q].served
    /\ \E page \in GetHistory(requests[q].before) :
          requests' = [requests EXCEPT ![q].served = TRUE, ![q].page = page]
    /\ UNCHANGED <<table, socket, firstLoad, store, loading, history>>

Ends(q) ==
    /\ requests' = [requests EXCEPT ![q] = Idle]
    /\ loading' = loading \ {q}

RetryApplied(q) ==
    /\ requests[q].kind = "retry" /\ requests[q].served
    /\ Replaces(requests[q].page)
    /\ Ends(q)
    /\ UNCHANGED <<table, socket, firstLoad>>

(* What is shown already is not put before itself. *)
MoreApplied(q) ==
    /\ requests[q].kind = "more" /\ requests[q].served
    /\ \E older \in Listings(ToSet(requests[q].page.rows) \ ToSet(messages)) :
          messages' = older \o messages
    /\ cursor' = requests[q].page.next /\ error' = FALSE
    /\ crossed' = (crossed \/ q \in outdated)
    /\ Ends(q)
    /\ UNCHANGED <<table, socket, firstLoad, loaded, outdated>>

RequestFailed(q) ==
    /\ requests[q] # Idle
    /\ error' = TRUE
    /\ Ends(q)
    /\ UNCHANGED <<table, socket, firstLoad, messages, cursor, history>>

--------------------------------------------------------------------------
ChatNext ==
    \/ SaveBegins \/ (\E m \in 1..begun : SaveCommits(m) \/ Broadcast(m))
    \/ Enter \/ RoomLoaded \/ FirstServed \/ FirstApplied \/ FirstFailed
    \/ LeavePage \/ ConnectOrDrop \/ Receive \/ SwitchTabs
    \/ \E q \in Request :
          Retry(q) \/ LoadMore(q) \/ Served(q) \/ RetryApplied(q)
          \/ MoreApplied(q) \/ RequestFailed(q)

ChatSpec == ChatInit /\ [][ChatNext]_chatVars

--------------------------------------------------------------------------
(* No message is shown twice, though the history, the pages before it and *)
(* the socket all deliver it and a page can be asked for twice.           *)
NoDuplicates == IsInjective(messages)

(* No hole in the history: every message that was in the table when the   *)
(* last full load read it is on the screen or below the cursor, where     *)
(* scrolling finds it, unless a page asked for before that load was put   *)
(* in front of what it brought. (A message that commits after a newer one *)
(* was read reaches the screen by its broadcast only.)                    *)
OlderAreReachable ==
    ~crossed => \A m \in loaded : m \in ToSet(messages) \/ m < cursor
=============================================================================
