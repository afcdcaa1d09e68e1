------------------------------ MODULE LocalFile ------------------------------
(***************************************************************************)
(* The local video file of one user: the chooser (FileSelector), what it   *)
(* remembers in IndexedDB (persistentFileHandle), the file that the room   *)
(* page plays, and the verification by the server.                         *)
(*                                                                         *)
(* A job is one run of processSelectedFile and names the object URL that   *)
(* the run creates.  The selector is mounted while the page shows no file. *)
(* A message and the renders it causes are one step, but the render of an  *)
(* answer and its zero timeout are a later one (AnswerApplied).            *)
(*                                                                         *)
(* Not covered: two tabs sharing the IndexedDB, a file that changes on the *)
(* disk, the temporary URL that getVideoDurationMs revokes itself.         *)
(***************************************************************************)
EXTENDS Naturals, Sequences

CONSTANTS File,         \* contents, told apart by their hash
          Job,          \* runs of processSelectedFile
          NoFile, NoJob,
          MaxVersion,   \* bound: file versions of the room
          MaxMessages   \* bound: messages in each direction

ASSUME FileAssumption ==
    /\ NoFile \notin File /\ NoJob \notin Job
    /\ MaxVersion \in Nat /\ MaxMessages \in Nat

Store == {"handle", "blob"}     \* the two object stores of the room
NoRecord == <<0, NoFile>>
NoResult == <<"none", NoFile, 0>>

VARIABLES
    isHost,                 \* whose client this is
    page, socket,           \* the room page is mounted, the socket is open
    status,                 \* of the mounted selector
    chooser,                \* the file dialog, and whose it is
    current, pending,       \* requestNonce's run, pendingFile
    orphan,                 \* history: jobs started after the unmount
    restoredKey,            \* restoredFileKeyRef
    stage, content, origin, \* of each job: how far, which file, from where
    live,                   \* object URLs not revoked
    fileUrl, fileVersion,   \* room store
    reference,              \* referenceFile: its version, 0 for none
    result,                 \* verifyResult
    changing,               \* handleChangeFile awaits the IndexedDB
    saved,                  \* IndexedDB
    asked, verdict, inbox,  \* requests, the answer in the making, messages
    refFile, refVersion,    \* the server's reference file
    accepted                \* history: what the server has accepted

selector == <<status, chooser, current, pending, orphan, restoredKey>>
jobs == <<stage, content, origin>>
store == <<fileUrl, fileVersion, reference, result, changing>>
net == <<socket, asked, verdict, inbox>>
server == <<refFile, refVersion, accepted>>
vars == <<isHost, page, selector, jobs, live, store, saved, net, server>>

Init ==
    /\ isHost \in BOOLEAN
    /\ page = TRUE /\ socket = FALSE
    /\ status = "idle" /\ chooser = "none"
    /\ current = NoJob /\ pending = NoJob
    /\ orphan = {} /\ restoredKey = 0
    /\ stage = [j \in Job |-> "none"]
    /\ content = [j \in Job |-> NoFile]
    /\ origin = [j \in Job |-> "blob"]
    /\ live = {}
    /\ fileUrl = NoJob /\ fileVersion = 0 /\ reference = 0
    /\ result = NoResult /\ changing = FALSE
    /\ saved = [s \in Store |-> NoRecord]
    /\ asked = <<>> /\ verdict = NoResult /\ inbox = <<>>
    /\ refFile = NoFile /\ refVersion = 0 /\ accepted = {}

Mounted == page /\ fileUrl = NoJob
Busy == status \in {"hashing", "verifying"}

--------------------------------------------------------------------------
(* Helpers *)

(* A selector that is unmounted revokes the URL it holds and forgets its  *)
(* runs; the one that is mounted next starts idle.                        *)
SelectorReset ==
    /\ status' = "idle" /\ restoredKey' = 0
    /\ current' = NoJob /\ pending' = NoJob

(* setFileUrl(null): the URL of the store is revoked and the selector     *)
(* comes back, if it was not there already.                               *)
DropsFile ==
    /\ live' = live \ {fileUrl}
    /\ fileUrl' = NoJob
    /\ UNCHANGED <<selector>>

(* clearPersistedRoomFile *)
Forgets == saved' = [s \in Store |-> NoRecord]

(* processSelectedFile, up to its await: a newer run replaces an older.   *)
Processes(j, f, from) ==
    /\ stage[j] = "none" /\ j \notin live \cup orphan
    /\ live' = live \ {pending}
    /\ pending' = NoJob
    /\ content' = [content EXCEPT ![j] = f]
    /\ origin' = [origin EXCEPT ![j] = from]
    /\ \/ /\ status' = "hashing"
          /\ stage' = [stage EXCEPT ![j] = "hashing"]
          /\ current' = j
          /\ UNCHANGED saved
       \/ /\ status' = "not_video"
          /\ Forgets
          /\ current' = NoJob
          /\ UNCHANGED stage

--------------------------------------------------------------------------
(* The chooser *)

OpenChooser ==
    /\ Mounted /\ chooser = "none" /\ ~Busy
    /\ chooser' \in {"picker", "input"}
    /\ UNCHANGED <<isHost, page, status, current, pending, orphan,
                   restoredKey, jobs, live, store, saved, net, server>>

(* Without a file the picker falls back to the input, which goes away.    *)
CancelChooser ==
    /\ chooser # "none"
    /\ chooser' = IF chooser = "picker" THEN "input" ELSE "none"
    /\ UNCHANGED <<isHost, page, status, current, pending, orphan,
                   restoredKey, jobs, live, store, saved, net, server>>

Pick(j, f) ==
    /\ Mounted /\ chooser \in {"picker", "input"}
    /\ Processes(j, f, IF chooser = "picker" THEN "handle" ELSE "blob")
    /\ chooser' = "none"
    /\ UNCHANGED <<isHost, page, orphan, restoredKey, store, net, server>>

(* The picker was opened by a selector that is gone: its promise resolves *)
(* all the same, and the run of the dead instance counts itself in.       *)
LatePick(j, f) ==
    /\ page /\ chooser = "late"
    /\ stage[j] = "none" /\ j \notin live \cup orphan \cup {current}
    /\ chooser' = "none"
    /\ stage' = [stage EXCEPT ![j] = "hashing"]
    /\ content' = [content EXCEPT ![j] = f]
    /\ origin' = [origin EXCEPT ![j] = "handle"]
    /\ orphan' = orphan \cup {j}
    /\ UNCHANGED <<isHost, page, status, current, pending, restoredKey, live,
                   store, saved, net, server>>

\* Any run that ends is taken for the latest one.
IsLatestAlways(j) == Mounted

IsLatest(j) == j = current

RunEnds(j) == stage' = [stage EXCEPT ![j] = "none"]

(* The hash and the duration are there: the URL is created and the server *)
(* asked, unless a newer run or an unmount has taken over.                *)
Hashed(j) ==
    /\ stage[j] = "hashing"
    /\ RunEnds(j)
    /\ IF IsLatest(j) \/ j \in orphan
       THEN /\ result' = NoResult           \* handleVerifyRequest
            /\ IF socket
               THEN /\ Len(asked) < MaxMessages
                    /\ asked' = Append(asked, content[j])
                    /\ live' = live \cup {j}
                    /\ IF j \in orphan
                       THEN UNCHANGED <<status, pending>>
                       ELSE status' = "verifying" /\ pending' = j
               ELSE /\ status' = IF j \in orphan THEN status ELSE "idle"
                    /\ UNCHANGED <<asked, live, pending>>
       ELSE UNCHANGED <<result, asked, live, status, pending>>
    /\ orphan' = IF socket THEN orphan ELSE orphan \ {j}
    /\ UNCHANGED <<isHost, page, chooser, current, restoredKey,
                   content, origin, fileUrl, fileVersion, reference, changing,
                   saved, socket, verdict, inbox, server>>

Unreadable(j) ==
    /\ stage[j] = "hashing"
    /\ RunEnds(j)
    /\ status' = IF j = current THEN "error" ELSE status
    /\ orphan' = orphan \ {j}
    /\ UNCHANGED <<isHost, page, chooser, current, pending, restoredKey,
                   content, origin, live, store, saved, net,
                   server>>

\* Whatever the server accepted, this selector was waiting for it.
AnyAnswer == result[1] # "none"

AnswerIsMine == result[1] # "none" /\ result[2] = content[pending]

\* Under the version of referenceFile, which an answer does not move.
RecordOfReference == <<reference, content[pending]>>

Record == <<result[3], content[pending]>>

(* The effect on verifyResult and its timeout. *)
AnswerApplied ==
    /\ Mounted /\ status = "verifying" /\ AnswerIsMine
    /\ pending' = NoJob
    /\ IF result[1] = "match"
       THEN /\ saved' = [saved EXCEPT ![origin[pending]] = Record]
            /\ fileUrl' = pending           \* handleFileVerified
            /\ chooser' = IF chooser = "picker" THEN "late" ELSE "none"
            /\ status' = "idle" /\ restoredKey' = 0 /\ current' = NoJob
            /\ UNCHANGED live
       ELSE /\ status' = IF result[1] = "no reference" THEN "idle"
                         ELSE "mismatch"
            /\ Forgets
            /\ live' = live \ {pending}
            /\ UNCHANGED <<fileUrl, chooser, restoredKey, current>>
    /\ UNCHANGED <<isHost, page, orphan, jobs, fileVersion,
                   reference, result, changing, net, server>>

(* The one-shot restore of the remembered file; a handle without          *)
(* permission leaves the blob.                                            *)
Restore(j) ==
    /\ Mounted /\ socket /\ status = "idle"
    /\ reference > 0 /\ restoredKey # reference
    /\ \E s \in Store :
        /\ saved[s][1] = reference
        /\ s = "blob" => saved["handle"][1] \in {0, reference}
        /\ Processes(j, saved[s][2], s)
    /\ restoredKey' = reference
    /\ UNCHANGED <<isHost, page, chooser, orphan, store, net, server>>

(* A record of another version, or a handle that cannot be read, clears   *)
(* both stores, a matching blob included.                                 *)
RestoreClears ==
    /\ Mounted /\ socket /\ status = "idle"
    /\ reference > 0 /\ restoredKey # reference
    /\ saved["handle"][1] # 0 \/ saved["blob"][1] \notin {0, reference}
    /\ Forgets
    /\ UNCHANGED <<isHost, page, selector, jobs, live, store, net, server>>

--------------------------------------------------------------------------
(* The room page *)

(* The host wants another file: first forget the old one, *)
ChangeFile ==
    /\ page /\ isHost /\ fileUrl # NoJob /\ ~changing
    /\ changing' = TRUE
    /\ Forgets
    /\ UNCHANGED <<isHost, page, selector, jobs, live, fileUrl, fileVersion,
                   reference, result, net, server>>

(* then drop it from the page, whichever page that is by now. *)
FileChanged ==
    /\ changing
    /\ changing' = FALSE
    /\ result' = NoResult
    /\ DropsFile
    /\ UNCHANGED <<isHost, page, jobs, fileVersion, reference, saved, net,
                   server>>

(* The page goes, and with it the selector, the socket and the store's    *)
(* file; a picker that is still open finds no socket later.               *)
Leave ==
    /\ page
    /\ page' = FALSE
    /\ live' = live \ {pending, fileUrl}
    /\ SelectorReset
    /\ chooser' = "none" /\ orphan' = orphan \cap live
    /\ stage' = [j \in Job |-> "none"]
    /\ fileUrl' = NoJob /\ fileVersion' = 0 /\ reference' = 0
    /\ result' = NoResult
    /\ socket' = FALSE /\ asked' = <<>> /\ verdict' = NoResult
    /\ inbox' = <<>>
    /\ UNCHANGED <<isHost, content, origin, changing, saved, server>>

Enter ==
    /\ ~page
    /\ page' = TRUE
    /\ UNCHANGED <<isHost, selector, jobs, live, store, saved, net, server>>

Connect ==
    /\ page /\ ~socket
    /\ socket' = TRUE
    /\ inbox' = << <<"state", NoFile, refVersion>> >>
    /\ UNCHANGED <<isHost, page, selector, jobs, live, store, saved, asked,
                   verdict, server>>

Drop ==
    /\ socket
    /\ socket' = FALSE /\ asked' = <<>> /\ verdict' = NoResult
    /\ inbox' = <<>>
    /\ UNCHANGED <<isHost, page, selector, jobs, live, store, saved, server>>

\* file_changed leaves the file of the old version on the screen.
KeepsFile == UNCHANGED <<live, fileUrl>>

VersionMoved == live' = live \ {fileUrl} /\ fileUrl' = NoJob

Receive ==
    /\ inbox # <<>>
    /\ inbox' = Tail(inbox)
    /\ LET m == Head(inbox) IN
       \/ /\ m[1] = "state"
          /\ fileVersion' = m[3] /\ reference' = m[3]
          /\ IF fileVersion > 0 /\ m[3] # fileVersion
             THEN VersionMoved /\ result' = NoResult
             ELSE UNCHANGED <<live, fileUrl, result>>
       \/ /\ m[1] = "changed"
          /\ fileVersion' = m[3] /\ reference' = m[3]
          /\ VersionMoved /\ result' = NoResult
       \/ /\ m[1] \notin {"state", "changed"}
          /\ result' = m
          /\ fileVersion' = IF m[1] = "match" THEN m[3] ELSE fileVersion
          /\ UNCHANGED <<live, fileUrl, reference>>
    /\ UNCHANGED <<isHost, page, selector, jobs, changing, saved, socket,
                   asked, verdict, server>>

--------------------------------------------------------------------------
(* The server *)

(* file_verify_request: the host sets the reference, a viewer is compared *)
(* with it; a request over the limit gets no answer at all.               *)
Verify ==
    /\ asked # <<>> /\ verdict = NoResult
    /\ asked' = Tail(asked)
    /\ LET f == Head(asked) IN
       \/ UNCHANGED <<verdict, server>>
       \/ /\ isHost
          /\ refFile # f => refVersion < MaxVersion
          /\ refFile' = f
          /\ refVersion' = IF refFile = f THEN refVersion ELSE refVersion + 1
          /\ accepted' = accepted \cup {<<f, refVersion'>>}
          /\ verdict' = <<"match", f, refVersion'>>
       \/ /\ ~isHost
          /\ verdict' = IF refVersion = 0 THEN <<"no reference", f, 0>>
                        ELSE IF refFile = f THEN <<"match", f, refVersion>>
                        ELSE <<"mismatch", f, refVersion>>
          /\ UNCHANGED server
    /\ UNCHANGED <<isHost, page, selector, jobs, live, store, saved, socket,
                   inbox>>

Answer ==
    /\ verdict # NoResult /\ Len(inbox) < MaxMessages
    /\ inbox' = Append(inbox, verdict)
    /\ verdict' = NoResult
    /\ UNCHANGED <<isHost, page, selector, jobs, live, store, saved, socket,
                   asked, server>>

(* Another client, the host's, sets the reference file. *)
HostSets(f) ==
    /\ ~isHost /\ f # refFile /\ refVersion < MaxVersion
    /\ refFile' = f /\ refVersion' = refVersion + 1
    /\ accepted' = accepted \cup {<<f, refVersion'>>}
    /\ IF socket
       THEN /\ Len(inbox) < MaxMessages
            /\ inbox' = Append(inbox, <<"changed", NoFile, refVersion'>>)
       ELSE UNCHANGED inbox
    /\ UNCHANGED <<isHost, page, selector, jobs, live, store, saved, socket,
                   asked, verdict>>

--------------------------------------------------------------------------
Next ==
    \/ OpenChooser \/ CancelChooser
    \/ \E j \in Job : \/ \E f \in File : Pick(j, f) \/ LatePick(j, f)
                      \/ Hashed(j) \/ Unreadable(j) \/ Restore(j)
    \/ AnswerApplied \/ RestoreClears
    \/ ChangeFile \/ FileChanged \/ Leave \/ Enter \/ Connect \/ Drop
    \/ Receive \/ Verify \/ Answer
    \/ \E f \in File : HostSets(f)

Spec == Init /\ [][Next]_vars

--------------------------------------------------------------------------
Result == {"none", "match", "mismatch", "no reference"} \X
          (File \cup {NoFile}) \X (0..MaxVersion)

(* Every variable keeps its type. *)
TypeOK ==
    /\ isHost \in BOOLEAN /\ page \in BOOLEAN /\ socket \in BOOLEAN
    /\ status \in {"idle", "hashing", "verifying", "mismatch", "error",
                   "not_video"}
    /\ chooser \in {"none", "picker", "input", "late"}
    /\ current \in Job \cup {NoJob} /\ pending \in Job \cup {NoJob}
    /\ orphan \subseteq Job /\ live \subseteq Job
    /\ restoredKey \in 0..MaxVersion
    /\ stage \in [Job -> {"none", "hashing"}]
    /\ content \in [Job -> File \cup {NoFile}] /\ origin \in [Job -> Store]
    /\ fileUrl \in Job \cup {NoJob}
    /\ fileVersion \in 0..MaxVersion /\ reference \in 0..MaxVersion
    /\ result \in Result /\ verdict \in Result
    /\ changing \in BOOLEAN
    /\ saved \in [Store -> (0..MaxVersion) \X (File \cup {NoFile})]
    /\ refFile \in File \cup {NoFile} /\ refVersion \in 0..MaxVersion

(* However selections, restores, answers, changes of the file and         *)
(* unmounts follow one another, a URL that was not revoked is the one on  *)
(* the screen or the one being verified, and these two are never revoked. *)
(* The runs that a late picker starts are the exception (see              *)
(* NothingFromUnmounted).                                                 *)
UrlsAreHeld == live \ orphan = {fileUrl, pending} \ {NoJob}

(* The selector says "verifying" exactly while it holds a file to verify. *)
VerifyingHoldsAFile == status = "verifying" <=> pending # NoJob

(* What plays was accepted by the server for the version that this client *)
(* announces itself ready with and sends its commands for.                *)
LoadedWasAccepted ==
    fileUrl # NoJob /\ orphan = {} =>
        <<content[fileUrl], fileVersion>> \in accepted

(* A file is remembered under the version the server accepted it for,     *)
(* also when that answer comes after the news of a later version: what is *)
(* restored after a reload is not refused for a reason the user cannot    *)
(* see.                                                                   *)
RememberedWasAccepted ==
    \A s \in Store : saved[s] # NoRecord =>
        <<saved[s][2], saved[s][1]>> \in accepted

(* "... so a late resume can't createObjectURL / setState / send a verify *)
(* from an unmounted selector (leaking the URL)".                         *)
NothingFromUnmounted == live \cap orphan = {}
=============================================================================
