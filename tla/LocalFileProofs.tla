--------------------------- MODULE LocalFileProofs ---------------------------
(***************************************************************************)
(* Proofs about LocalFile for any number of files, of runs, of versions    *)
(* and of messages: its types, that the selector verifies exactly the file *)
(* it holds, that no object URL leaks or is revoked in use, that what is   *)
(* remembered was accepted by the server for that version, and that what   *)
(* plays was accepted for the version the client announces.                *)
(***************************************************************************)
EXTENDS LocalFile, TLAPS

--------------------------------------------------------------------------
(* Types *)

AnyFile == File \cup {NoFile}
Version == 0..MaxVersion

Message ==
    {"state", "changed", "none", "match", "mismatch", "no reference"} \X AnyFile \X Version

SelectorOK ==
    /\ status \in {"idle", "hashing", "verifying", "mismatch", "error", "not_video"}
    /\ chooser \in {"none", "picker", "input", "late"}
    /\ current \in Job \cup {NoJob} /\ pending \in Job \cup {NoJob}
    /\ orphan \subseteq Job
    /\ restoredKey \in Version

JobsOK ==
    /\ stage \in [Job -> {"none", "hashing"}]
    /\ content \in [Job -> AnyFile] /\ origin \in [Job -> Store]
    /\ live \subseteq Job
    /\ saved \in [Store -> Version \X AnyFile]

PageOK ==
    /\ isHost \in BOOLEAN /\ page \in BOOLEAN /\ socket \in BOOLEAN
    /\ changing \in BOOLEAN
    /\ fileUrl \in Job \cup {NoJob}
    /\ fileVersion \in Version /\ reference \in Version
    /\ result \in Result

NetOK ==
    /\ verdict \in Result
    /\ asked \in Seq(AnyFile) /\ inbox \in Seq(Message)
    /\ refFile \in AnyFile /\ refVersion \in Version

TypeInv == SelectorOK /\ JobsOK /\ PageOK /\ NetOK

LEMMA TypeInvTypes == TypeInv => TypeOK
  BY DEF TypeInv, TypeOK, SelectorOK, JobsOK, PageOK, NetOK, AnyFile, Version

LEMMA NoResultType == NoResult \in Result
<1>1. 0 \in 0..MaxVersion
  BY FileAssumption
<1> QED
  BY <1>1 DEF NoResult, Result

LEMMA InitTypeInv == Init => TypeInv
<1> SUFFICES ASSUME Init PROVE TypeInv
  OBVIOUS
<1> USE FileAssumption DEF Init, AnyFile, Version, NoRecord
<1>1. 0 \in 0..MaxVersion
  OBVIOUS
<1>2. SelectorOK
  BY <1>1 DEF SelectorOK
<1>3. JobsOK
  BY <1>1 DEF JobsOK, Store
<1>4. PageOK /\ NetOK
  <2>1. result \in Result /\ verdict \in Result
    BY NoResultType
  <2>2. PageOK
    BY <1>1, <2>1 DEF PageOK
  <2>3. asked \in Seq(AnyFile) /\ inbox \in Seq(Message)
    OBVIOUS
  <2> QED
    BY <1>1, <2>1, <2>2, <2>3 DEF NetOK
<1> QED
  BY <1>2, <1>3, <1>4 DEF TypeInv

LEMMA ForgetsType == Forgets => saved' \in [Store -> Version \X AnyFile]
  BY FileAssumption DEF Forgets, NoRecord, Version, AnyFile

\* The selector starts a run on a file of the chooser or of the IndexedDB.
LEMMA ProcessesTypes ==
    ASSUME TypeInv, NEW j \in Job, NEW f \in AnyFile, NEW from \in Store, Processes(j, f, from)
    PROVE  /\ JobsOK'
           /\ status' \in {"hashing", "not_video"}
           /\ current' \in Job \cup {NoJob} /\ pending' \in Job \cup {NoJob}
<1>1. saved' \in [Store -> Version \X AnyFile]
  BY ForgetsType DEF Processes, TypeInv, JobsOK
<1>2. stage' \in [Job -> {"none", "hashing"}]
  BY DEF Processes, TypeInv, JobsOK
<1>3. content' \in [Job -> AnyFile] /\ origin' \in [Job -> Store] /\ live' \subseteq Job
  BY DEF Processes, TypeInv, JobsOK
<1>4. /\ status' \in {"hashing", "not_video"}
      /\ current' \in Job \cup {NoJob} /\ pending' \in Job \cup {NoJob}
  BY DEF Processes
<1> QED
  BY <1>1, <1>2, <1>3, <1>4 DEF JobsOK

LEMMA NextTypeInv == TypeInv /\ [Next]_vars => TypeInv'
<1> SUFFICES ASSUME TypeInv, [Next]_vars PROVE TypeInv'
  OBVIOUS
<1> USE DEF selector, jobs, store, net, server
<1>0. /\ SelectorOK /\ JobsOK /\ PageOK /\ NetOK
      /\ File \subseteq AnyFile /\ NoFile \in AnyFile
      /\ 0 \in Version /\ MaxVersion \in Nat
      /\ "handle" \in Store /\ "blob" \in Store
  BY FileAssumption DEF TypeInv, AnyFile, Version, Store
<1>1. ASSUME OpenChooser \/ CancelChooser PROVE TypeInv'
  BY <1>1 DEF OpenChooser, CancelChooser, TypeInv, SelectorOK, JobsOK, PageOK, NetOK
<1>2. ASSUME NEW j \in Job, NEW f \in File, Pick(j, f) PROVE TypeInv'
  <2>1. PICK from \in Store : from = IF chooser = "picker" THEN "handle" ELSE "blob"
    BY <1>0
  <2>2. Processes(j, f, from)
    BY <1>2, <2>1 DEF Pick
  <2>3. f \in AnyFile
    BY <1>0
  <2>4. /\ JobsOK' /\ status' \in {"hashing", "not_video"}
        /\ current' \in Job \cup {NoJob} /\ pending' \in Job \cup {NoJob}
    BY <2>2, <2>3, ProcessesTypes
  <2> QED
    BY <1>0, <1>2, <2>4 DEF Pick, TypeInv, SelectorOK, PageOK, NetOK
<1>3. ASSUME NEW j \in Job, NEW f \in File, LatePick(j, f) PROVE TypeInv'
  <2>1. JobsOK'
    BY <1>0, <1>3 DEF LatePick, JobsOK
  <2>2. SelectorOK'
    BY <1>0, <1>3 DEF LatePick, SelectorOK
  <2> QED
    BY <1>0, <1>3, <2>1, <2>2 DEF LatePick, TypeInv, PageOK, NetOK
<1>4. ASSUME NEW j \in Job, Hashed(j) PROVE TypeInv'
  <2>1. /\ UNCHANGED <<isHost, page, chooser, current, restoredKey, content, origin, fileUrl,
                       fileVersion, reference, changing, saved, socket, verdict, inbox, server>>
        /\ stage' = [stage EXCEPT ![j] = "none"]
        /\ orphan' \in {orphan, orphan \ {j}}
    BY <1>4 DEF Hashed, RunEnds
  <2>2. /\ status' \in {status, "verifying", "idle"} /\ pending' \in {pending, j}
        /\ live' \in {live, live \cup {j}} /\ result' \in {result, NoResult}
        /\ asked' \in {asked, Append(asked, content[j])}
    BY <1>4 DEF Hashed
  <2>3. JobsOK'
    BY <1>0, <2>1, <2>2 DEF JobsOK
  <2>4. SelectorOK'
    BY <1>0, <2>1, <2>2 DEF SelectorOK
  <2>5. PageOK'
    BY <1>0, <2>1, <2>2, NoResultType DEF PageOK
  <2>6. NetOK'
    <3>1. content[j] \in AnyFile
      BY <1>0 DEF JobsOK
    <3>2. asked' \in Seq(AnyFile)
      BY <1>0, <2>2, <3>1 DEF NetOK
    <3> QED
      BY <1>0, <2>1, <3>2 DEF NetOK
  <2> QED
    BY <2>3, <2>4, <2>5, <2>6 DEF TypeInv
<1>5. ASSUME NEW j \in Job, Unreadable(j) PROVE TypeInv'
  <2>1. JobsOK'
    BY <1>0, <1>5 DEF Unreadable, RunEnds, JobsOK
  <2>2. SelectorOK'
    BY <1>0, <1>5 DEF Unreadable, SelectorOK
  <2> QED
    BY <1>0, <1>5, <2>1, <2>2 DEF Unreadable, TypeInv, PageOK, NetOK
<1>6. ASSUME NEW j \in Job, Restore(j) PROVE TypeInv'
  <2>1. PICK s \in Store : Processes(j, saved[s][2], s)
    BY <1>6 DEF Restore
  <2>2. PICK f \in AnyFile : f = saved[s][2]
    BY <1>0 DEF JobsOK
  <2>3. Processes(j, f, s)
    BY <2>1, <2>2
  <2>4. /\ JobsOK' /\ status' \in {"hashing", "not_video"}
        /\ current' \in Job \cup {NoJob} /\ pending' \in Job \cup {NoJob}
    BY <2>3, ProcessesTypes
  <2>5. restoredKey' \in Version
    BY <1>0, <1>6 DEF Restore, PageOK
  <2> QED
    BY <1>0, <1>6, <2>4, <2>5 DEF Restore, TypeInv, SelectorOK, PageOK, NetOK
<1>7. ASSUME AnswerApplied PROVE TypeInv'
  <2>0. /\ UNCHANGED <<isHost, page, orphan, jobs, fileVersion, reference, result, changing, net,
                       server>>
        /\ pending \in Job \/ status # "verifying" \/ pending = NoJob
        /\ pending' = NoJob /\ status = "verifying"
    BY <1>0, <1>7 DEF AnswerApplied, SelectorOK
  <2>1. CASE result[1] # "match"
    <3>1. /\ Forgets /\ live' = live \ {pending} /\ status' \in {"idle", "mismatch"}
          /\ UNCHANGED <<fileUrl, chooser, restoredKey, current>>
      BY <1>7, <2>1 DEF AnswerApplied
    <3>2. saved' \in [Store -> Version \X AnyFile]
      BY <3>1, ForgetsType
    <3>3. JobsOK'
      BY <1>0, <2>0, <3>1, <3>2 DEF JobsOK
    <3> QED
      BY <1>0, <2>0, <3>1, <3>3 DEF TypeInv, SelectorOK, PageOK, NetOK
  <2>2. CASE result[1] = "match"
    <3>1. /\ saved' = [saved EXCEPT ![origin[pending]] = Record]
          /\ fileUrl' = pending /\ status' = "idle" /\ restoredKey' = 0 /\ current' = NoJob
          /\ chooser' \in {"late", "none"} /\ UNCHANGED live
      BY <1>7, <2>2 DEF AnswerApplied
    <3>2. content[pending] = result[2]
      BY <1>7 DEF AnswerApplied, AnswerIsMine
    <3>3. result[2] \in AnyFile /\ result[3] \in Version
      BY <1>0 DEF PageOK, Result, AnyFile, Version
    <3>4. Record \in Version \X AnyFile
      BY <3>2, <3>3 DEF Record
    <3>5. saved' \in [Store -> Version \X AnyFile]
      BY <1>0, <3>1, <3>4 DEF JobsOK
    <3>6. JobsOK'
      BY <1>0, <2>0, <3>1, <3>5 DEF JobsOK
    <3>7. SelectorOK'
      BY <1>0, <2>0, <3>1 DEF SelectorOK
    <3>8. PageOK'
      BY <1>0, <2>0, <3>1 DEF PageOK, SelectorOK
    <3> QED
      BY <1>0, <2>0, <3>6, <3>7, <3>8 DEF TypeInv, NetOK
  <2> QED
    BY <2>1, <2>2
<1>8. ASSUME RestoreClears \/ ChangeFile PROVE TypeInv'
  <2>1. Forgets /\ changing' \in {changing, TRUE}
        /\ UNCHANGED <<isHost, page, selector, jobs, live, fileUrl, fileVersion, reference, result,
                       net, server>>
    BY <1>8 DEF RestoreClears, ChangeFile
  <2>2. JobsOK'
    BY <1>0, <2>1, ForgetsType DEF JobsOK
  <2> QED
    BY <1>0, <2>1, <2>2 DEF TypeInv, SelectorOK, PageOK, NetOK
<1>9. ASSUME FileChanged PROVE TypeInv'
  <2>1. JobsOK'
    BY <1>0, <1>9 DEF FileChanged, DropsFile, JobsOK
  <2>2. PageOK'
    BY <1>0, <1>9, NoResultType DEF FileChanged, DropsFile, PageOK
  <2> QED
    BY <1>0, <1>9, <2>1, <2>2 DEF FileChanged, DropsFile, TypeInv, SelectorOK, NetOK
<1>10. ASSUME Leave PROVE TypeInv'
  <2>1. JobsOK'
    BY <1>0, <1>10 DEF Leave, JobsOK
  <2>2. SelectorOK'
    BY <1>0, <1>10 DEF Leave, SelectorReset, SelectorOK
  <2>3. PageOK'
    BY <1>0, <1>10, NoResultType DEF Leave, PageOK
  <2>4. NetOK'
    BY <1>0, <1>10, NoResultType DEF Leave, NetOK
  <2> QED
    BY <2>1, <2>2, <2>3, <2>4 DEF TypeInv
<1>11. ASSUME Enter PROVE TypeInv'
  BY <1>0, <1>11 DEF Enter, TypeInv, SelectorOK, JobsOK, PageOK, NetOK
<1>12. ASSUME Connect PROVE TypeInv'
  <2>1. <<"state", NoFile, refVersion>> \in Message
    BY <1>0 DEF Message, NetOK
  <2>2. inbox' \in Seq(Message)
    BY <1>12, <2>1 DEF Connect
  <2> QED
    BY <1>0, <1>12, <2>2 DEF Connect, TypeInv, SelectorOK, JobsOK, PageOK, NetOK
<1>13. ASSUME Drop PROVE TypeInv'
  <2>1. NetOK'
    BY <1>0, <1>13, NoResultType DEF Drop, NetOK
  <2> QED
    BY <1>0, <1>13, <2>1 DEF Drop, TypeInv, SelectorOK, JobsOK, PageOK
<1>14. ASSUME Receive PROVE TypeInv'
  <2>0. PICK m : m = Head(inbox)
    OBVIOUS
  <2>1. m \in Message /\ inbox' \in Seq(Message)
    BY <1>0, <1>14, <2>0 DEF Receive, NetOK
  <2>2. m[3] \in Version /\ (m[1] \notin {"state", "changed"} => m \in Result)
    BY <2>1 DEF Message, Result, AnyFile, Version
  <2>3. /\ fileVersion' \in {fileVersion, m[3]} /\ reference' \in {reference, m[3]}
        /\ live' \in {live, live \ {fileUrl}} /\ fileUrl' \in {fileUrl, NoJob}
        /\ \/ result' \in {result, NoResult}
           \/ m[1] \notin {"state", "changed"} /\ result' = m
    BY <1>14, <2>0 DEF Receive, VersionMoved
  <2>4. UNCHANGED <<isHost, page, selector, jobs, changing, saved, socket, asked, verdict, server>>
    BY <1>14 DEF Receive
  <2>5. JobsOK'
    BY <1>0, <2>3, <2>4 DEF JobsOK
  <2>6. PageOK'
    BY <1>0, <2>2, <2>3, <2>4, NoResultType DEF PageOK
  <2> QED
    BY <1>0, <2>1, <2>4, <2>5, <2>6 DEF TypeInv, SelectorOK, NetOK
<1>15. ASSUME Verify PROVE TypeInv'
  <2>0. PICK f : f = Head(asked)
    OBVIOUS
  <2>1. f \in AnyFile /\ asked' \in Seq(AnyFile)
    <3>1. asked \in Seq(AnyFile)
      BY <1>0 DEF NetOK
    <3>2. asked # <<>> /\ asked' = Tail(asked)
      BY <1>15 DEF Verify
    <3> QED
      BY <2>0, <3>1, <3>2
  <2>2. UNCHANGED <<isHost, page, selector, jobs, live, store, saved, socket, inbox>>
    BY <1>15 DEF Verify
  <2>3. verdict' \in Result /\ refFile' \in AnyFile /\ refVersion' \in Version
    <3>1. CASE UNCHANGED <<verdict, server>>
      BY <1>0, <3>1 DEF NetOK
    <3>2. CASE /\ refFile # f => refVersion < MaxVersion
               /\ refFile' = f
               /\ refVersion' = IF refFile = f THEN refVersion ELSE refVersion + 1
               /\ verdict' = <<"match", f, refVersion'>>
      <4>1. refVersion' \in Version
        BY <1>0, <3>2 DEF NetOK, Version
      <4> QED
        BY <2>1, <3>2, <4>1 DEF Result, AnyFile, Version
    <3>3. CASE /\ verdict' = IF refVersion = 0 THEN <<"no reference", f, 0>>
                             ELSE IF refFile = f THEN <<"match", f, refVersion>>
                             ELSE <<"mismatch", f, refVersion>>
               /\ UNCHANGED server
      BY <1>0, <2>1, <3>3 DEF NetOK, Result, AnyFile, Version
    <3> QED
      BY <1>15, <2>0, <3>1, <3>2, <3>3 DEF Verify
  <2> QED
    BY <1>0, <2>1, <2>2, <2>3 DEF TypeInv, SelectorOK, JobsOK, PageOK, NetOK
<1>16. ASSUME Answer PROVE TypeInv'
  <2>1. verdict \in Message
    BY <1>0 DEF NetOK, Result, Message, AnyFile, Version
  <2>2. NetOK'
    BY <1>0, <1>16, <2>1, NoResultType DEF Answer, NetOK
  <2> QED
    BY <1>0, <1>16, <2>2 DEF Answer, TypeInv, SelectorOK, JobsOK, PageOK
<1>17. ASSUME NEW f \in File, HostSets(f) PROVE TypeInv'
  <2>1. refVersion' \in Version
    BY <1>0, <1>17 DEF HostSets, NetOK, Version
  <2>2. PICK m : m = <<"changed", NoFile, refVersion'>>
    OBVIOUS
  <2>3. m \in Message
    BY <1>0, <2>1, <2>2 DEF Message
  <2>4. inbox' \in {inbox, Append(inbox, m)}
    BY <1>17, <2>2 DEF HostSets
  <2>5. inbox' \in Seq(Message)
    BY <1>0, <2>3, <2>4 DEF NetOK
  <2> QED
    BY <1>0, <1>17, <2>1, <2>5 DEF HostSets, TypeInv, SelectorOK, JobsOK, PageOK, NetOK
<1>18. CASE UNCHANGED vars
  BY <1>0, <1>18 DEF vars, TypeInv, SelectorOK, JobsOK, PageOK, NetOK
<1> QED
  BY <1>1, <1>2, <1>3, <1>4, <1>5, <1>6, <1>7, <1>8, <1>9, <1>10, <1>11, <1>12, <1>13, <1>14,
     <1>15, <1>16, <1>17, <1>18 DEF Next

LEMMA TypesHold == Spec => []TypeInv
  BY InitTypeInv, NextTypeInv, PTL DEF Spec

\* The client and the server are well typed, whatever the user picks.
THEOREM TypeCorrect == Spec => []TypeOK
  BY TypesHold, TypeInvTypes, PTL

--------------------------------------------------------------------------
(* Object URLs *)

\* The run that counts is the selector's own, and while it hashes the
\* selector says so.
CurrentHashes ==
    current # NoJob =>
        /\ current \notin orphan
        /\ stage[current] = "hashing" => status = "hashing"

\* A run that is not over has not created its URL.
HashingIsNotLive == \A j \in Job : stage[j] = "hashing" => j \notin live

\* The selector that is gone has left neither a run nor a URL behind.
GoneIsIdle == fileUrl # NoJob => current = NoJob /\ pending = NoJob /\ status = "idle"

UrlInv ==
    /\ CurrentHashes /\ HashingIsNotLive /\ GoneIsIdle
    /\ VerifyingHoldsAFile /\ UrlsAreHeld

UrlState == <<status, current, pending, orphan, stage, live, fileUrl>>

LEMMA InitUrlInv == Init => UrlInv
  BY DEF Init, UrlInv, CurrentHashes, HashingIsNotLive, GoneIsIdle, VerifyingHoldsAFile,
         UrlsAreHeld

LEMMA UrlStateKept == UrlInv /\ UNCHANGED UrlState => UrlInv'
  BY DEF UrlInv, UrlState, CurrentHashes, HashingIsNotLive, GoneIsIdle, VerifyingHoldsAFile,
         UrlsAreHeld

\* A new run revokes the URL that was being verified.
LEMMA ProcessesUrls ==
    ASSUME TypeInv, UrlInv, Mounted, NEW j \in Job, NEW f, NEW from, Processes(j, f, from),
           UNCHANGED <<fileUrl, orphan>>
    PROVE  UrlInv'
<1>1. /\ j \notin live \cup orphan /\ live' = live \ {pending} /\ pending' = NoJob
      /\ \/ /\ status' = "hashing" /\ current' = j
            /\ stage' = [stage EXCEPT ![j] = "hashing"]
         \/ /\ status' = "not_video" /\ current' = NoJob /\ UNCHANGED stage
  BY DEF Processes
<1>2. stage \in [Job -> {"none", "hashing"}] /\ fileUrl = NoJob
  BY DEF TypeInv, JobsOK, Mounted
<1>3. CurrentHashes'
  BY <1>1 DEF CurrentHashes
<1>4. HashingIsNotLive'
  BY <1>1, <1>2 DEF UrlInv, HashingIsNotLive
<1>5. VerifyingHoldsAFile' /\ GoneIsIdle'
  BY <1>1, <1>2 DEF VerifyingHoldsAFile, GoneIsIdle
<1>6. UrlsAreHeld'
  BY <1>1, <1>2 DEF UrlInv, UrlsAreHeld
<1> QED
  BY <1>3, <1>4, <1>5, <1>6 DEF UrlInv

\* The page drops the file it plays, if it plays one.
LEMMA DroppedUrls ==
    ASSUME TypeInv, UrlInv, live' = live \ {fileUrl}, fileUrl' = NoJob,
           UNCHANGED <<status, current, pending, orphan, stage>>
    PROVE  UrlInv'
<1>1. live \subseteq Job /\ NoJob \notin Job
  BY FileAssumption DEF TypeInv, JobsOK
<1>2. UrlsAreHeld'
  BY <1>1 DEF UrlInv, UrlsAreHeld, GoneIsIdle
<1>3. HashingIsNotLive'
  BY DEF UrlInv, HashingIsNotLive
<1> QED
  BY <1>2, <1>3 DEF UrlInv, CurrentHashes, GoneIsIdle, VerifyingHoldsAFile

LEMMA NextUrlInv == TypeInv /\ UrlInv /\ [Next]_vars => UrlInv'
<1> SUFFICES ASSUME TypeInv, UrlInv, [Next]_vars PROVE UrlInv'
  OBVIOUS
<1> USE DEF selector, jobs, store, net, server
<1>0. /\ stage \in [Job -> {"none", "hashing"}]
      /\ live \subseteq Job /\ orphan \subseteq Job /\ NoJob \notin Job
      /\ CurrentHashes /\ HashingIsNotLive /\ GoneIsIdle /\ VerifyingHoldsAFile /\ UrlsAreHeld
  BY FileAssumption DEF TypeInv, JobsOK, SelectorOK, UrlInv
<1>1. ASSUME UNCHANGED UrlState PROVE UrlInv'
  BY <1>1, UrlStateKept
<1>2. ASSUME \/ OpenChooser \/ CancelChooser \/ RestoreClears \/ ChangeFile \/ Enter
             \/ Connect \/ Drop \/ Verify \/ Answer \/ UNCHANGED vars
             \/ \E f \in File : HostSets(f)
      PROVE  UrlInv'
  BY <1>1, <1>2 DEF OpenChooser, CancelChooser, RestoreClears, ChangeFile, Enter, Connect, Drop,
     Verify, Answer, HostSets, vars, UrlState
<1>3. ASSUME NEW j \in Job, NEW f \in File, Pick(j, f) PROVE UrlInv'
  <2>1. PICK from : from = IF chooser = "picker" THEN "handle" ELSE "blob"
    OBVIOUS
  <2>2. Processes(j, f, from) /\ Mounted /\ UNCHANGED <<fileUrl, orphan>>
    BY <1>3, <2>1 DEF Pick
  <2> QED
    BY <2>2, ProcessesUrls
<1>4. ASSUME NEW j \in Job, Restore(j) PROVE UrlInv'
  <2>1. PICK s \in Store : Processes(j, saved[s][2], s)
    BY <1>4 DEF Restore
  <2>2. PICK f : f = saved[s][2]
    OBVIOUS
  <2>3. Processes(j, f, s) /\ Mounted /\ UNCHANGED <<fileUrl, orphan>>
    BY <1>4, <2>1, <2>2 DEF Restore
  <2> QED
    BY <2>3, ProcessesUrls
<1>5. ASSUME NEW j \in Job, NEW f \in File, LatePick(j, f) PROVE UrlInv'
  <2>1. /\ j \notin live \cup orphan \cup {current} /\ orphan' = orphan \cup {j}
        /\ stage' = [stage EXCEPT ![j] = "hashing"]
        /\ UNCHANGED <<status, current, pending, live, fileUrl>>
    BY <1>5 DEF LatePick
  <2>2. CurrentHashes'
    BY <1>0, <2>1 DEF CurrentHashes
  <2>3. HashingIsNotLive'
    BY <1>0, <2>1 DEF HashingIsNotLive
  <2>4. UrlsAreHeld'
    BY <1>0, <2>1 DEF UrlsAreHeld
  <2> QED
    BY <1>0, <2>1, <2>2, <2>3, <2>4 DEF UrlInv, GoneIsIdle, VerifyingHoldsAFile
<1>6. ASSUME NEW j \in Job, Hashed(j) PROVE UrlInv'
  <2>0. /\ stage[j] = "hashing" /\ j \notin live /\ j # NoJob
        /\ stage' = [stage EXCEPT ![j] = "none"] /\ stage'[j] = "none"
        /\ \A k \in Job \ {j} : stage'[k] = stage[k]
        /\ UNCHANGED <<current, fileUrl>>
        /\ orphan' = IF socket THEN orphan ELSE orphan \ {j}
    BY <1>0, <1>6 DEF Hashed, RunEnds, HashingIsNotLive
  <2>1. CASE j \in orphan /\ UNCHANGED <<status, pending>> /\ (IF socket THEN live' = live \cup {j} ELSE UNCHANGED live)
    <3>1. j # current
      BY <1>0, <2>0, <2>1 DEF CurrentHashes
    <3>2. CurrentHashes' /\ HashingIsNotLive'
      BY <1>0, <2>0, <2>1, <3>1 DEF CurrentHashes, HashingIsNotLive
    <3>3. UrlsAreHeld'
      BY <1>0, <2>0, <2>1 DEF UrlsAreHeld
    <3> QED
      BY <1>0, <2>0, <2>1, <3>2, <3>3 DEF UrlInv, GoneIsIdle, VerifyingHoldsAFile
  <2>2. CASE j \notin orphan /\ j = current
    <3>1. status = "hashing" /\ pending = NoJob /\ fileUrl = NoJob
      BY <1>0, <2>0, <2>2 DEF CurrentHashes, VerifyingHoldsAFile, GoneIsIdle
    <3>2. \/ socket /\ live' = live \cup {j} /\ status' = "verifying" /\ pending' = j
          \/ ~socket /\ status' = "idle" /\ UNCHANGED <<live, pending>>
      BY <1>6, <2>2 DEF Hashed, IsLatest
    <3>3. CurrentHashes' /\ HashingIsNotLive'
      BY <1>0, <2>0, <2>2, <3>2 DEF CurrentHashes, HashingIsNotLive
    <3>4. UrlsAreHeld'
      BY <1>0, <2>0, <2>2, <3>1, <3>2 DEF UrlsAreHeld
    <3>5. VerifyingHoldsAFile' /\ GoneIsIdle'
      BY <2>0, <3>1, <3>2 DEF VerifyingHoldsAFile, GoneIsIdle
    <3> QED
      BY <3>3, <3>4, <3>5 DEF UrlInv
  <2>3. CASE j \notin orphan /\ j # current
    <3>1. UNCHANGED <<status, pending, live, orphan>>
      BY <1>6, <2>0, <2>3 DEF Hashed, IsLatest
    <3>2. CurrentHashes' /\ HashingIsNotLive'
      BY <1>0, <2>0, <2>3, <3>1 DEF CurrentHashes, HashingIsNotLive
    <3> QED
      BY <1>0, <2>0, <3>1, <3>2 DEF UrlInv, UrlsAreHeld, GoneIsIdle, VerifyingHoldsAFile
  <2>4. CASE j \in orphan
    BY <1>6, <2>1, <2>4 DEF Hashed
  <2> QED
    BY <2>2, <2>3, <2>4
<1>7. ASSUME NEW j \in Job, Unreadable(j) PROVE UrlInv'
  <2>0. /\ stage[j] = "hashing" /\ j \notin live /\ j # NoJob
        /\ stage' = [stage EXCEPT ![j] = "none"] /\ stage'[j] = "none"
        /\ \A k \in Job \ {j} : stage'[k] = stage[k]
        /\ UNCHANGED <<current, pending, live, fileUrl>> /\ orphan' = orphan \ {j}
        /\ status' = IF j = current THEN "error" ELSE status
    BY <1>0, <1>7 DEF Unreadable, RunEnds, HashingIsNotLive
  <2>1. CurrentHashes' /\ HashingIsNotLive'
    BY <1>0, <2>0 DEF CurrentHashes, HashingIsNotLive
  <2>2. VerifyingHoldsAFile' /\ GoneIsIdle'
    BY <1>0, <2>0 DEF CurrentHashes, VerifyingHoldsAFile, GoneIsIdle
  <2>3. UrlsAreHeld'
    BY <1>0, <2>0 DEF UrlsAreHeld
  <2> QED
    BY <2>1, <2>2, <2>3 DEF UrlInv
<1>8. ASSUME AnswerApplied PROVE UrlInv'
  <2>1. /\ fileUrl = NoJob /\ status = "verifying" /\ pending # NoJob /\ pending' = NoJob
        /\ UNCHANGED <<orphan, stage>>
    BY <1>0, <1>8 DEF AnswerApplied, Mounted, VerifyingHoldsAFile
  <2>2. \/ /\ fileUrl' = pending /\ status' = "idle" /\ current' = NoJob /\ UNCHANGED live
        \/ /\ status' \in {"idle", "mismatch"} /\ live' = live \ {pending}
           /\ UNCHANGED <<fileUrl, current>>
    BY <1>8 DEF AnswerApplied
  <2>3. CurrentHashes' /\ HashingIsNotLive'
    BY <1>0, <2>1, <2>2 DEF CurrentHashes, HashingIsNotLive
  <2>4. VerifyingHoldsAFile' /\ GoneIsIdle'
    BY <2>1, <2>2 DEF VerifyingHoldsAFile, GoneIsIdle
  <2>5. UrlsAreHeld'
    BY <1>0, <2>1, <2>2 DEF UrlsAreHeld
  <2> QED
    BY <2>3, <2>4, <2>5 DEF UrlInv
<1>9. ASSUME FileChanged PROVE UrlInv'
  BY <1>9, DroppedUrls DEF FileChanged, DropsFile
<1>10. ASSUME Leave PROVE UrlInv'
  <2>1. /\ live' = live \ {pending, fileUrl} /\ status' = "idle" /\ current' = NoJob
        /\ pending' = NoJob /\ fileUrl' = NoJob /\ orphan' = orphan \cap live
        /\ \A j \in Job : stage'[j] = "none"
    BY <1>10 DEF Leave, SelectorReset
  <2>2. UrlsAreHeld'
    BY <1>0, <2>1 DEF UrlsAreHeld
  <2>3. CurrentHashes' /\ HashingIsNotLive' /\ GoneIsIdle' /\ VerifyingHoldsAFile'
    BY <2>1 DEF CurrentHashes, HashingIsNotLive, GoneIsIdle, VerifyingHoldsAFile
  <2> QED
    BY <2>2, <2>3 DEF UrlInv
<1>11. ASSUME Receive PROVE UrlInv'
  <2>1. /\ UNCHANGED <<status, current, pending, orphan, stage>>
        /\ \/ live' = live \ {fileUrl} /\ fileUrl' = NoJob
           \/ UNCHANGED <<live, fileUrl>>
    BY <1>11 DEF Receive, VersionMoved
  <2> QED
    BY <1>1, <2>1, DroppedUrls DEF UrlState
<1> QED
  BY <1>2, <1>3, <1>4, <1>5, <1>6, <1>7, <1>8, <1>9, <1>10, <1>11 DEF Next

LEMMA UrlInvHolds == Spec => []UrlInv
  BY TypesHold, InitUrlInv, NextUrlInv, PTL DEF Spec

\* Neither a leaked URL nor one that is revoked while it plays.
THEOREM UrlsAreNeitherLeakedNorLost == Spec => []UrlsAreHeld
<1>1. UrlInv => UrlsAreHeld
  BY DEF UrlInv
<1> QED
  BY <1>1, UrlInvHolds, PTL

\* The selector shows the spinner of a verification for a file it holds.
THEOREM VerifyingIsOfAFile == Spec => []VerifyingHoldsAFile
<1>1. UrlInv => VerifyingHoldsAFile
  BY DEF UrlInv
<1> QED
  BY <1>1, UrlInvHolds, PTL

--------------------------------------------------------------------------
(* What is remembered *)

\* An answer that says "match" names what the server accepted.
Says(m) == m[1] = "match" => <<m[2], m[3]>> \in accepted

AnswersAreTrue ==
    /\ Says(result) /\ Says(verdict)
    /\ \A i \in 1..Len(inbox) : Says(inbox[i])
    /\ refVersion # 0 => <<refFile, refVersion>> \in accepted

RememberInv == AnswersAreTrue /\ RememberedWasAccepted

LEMMA InitRememberInv == Init => RememberInv
  BY DEF Init, RememberInv, AnswersAreTrue, Says, RememberedWasAccepted, NoResult, Store, NoRecord

\* What was accepted stays accepted.
LEMMA SaysStays ==
    ASSUME NEW m, Says(m), accepted \subseteq accepted'
    PROVE  m[1] = "match" => <<m[2], m[3]>> \in accepted'
  BY DEF Says

LEMMA SavedOrForgotten ==
    ASSUME RememberedWasAccepted, accepted \subseteq accepted', Forgets \/ UNCHANGED saved
    PROVE  RememberedWasAccepted'
  BY DEF RememberedWasAccepted, Forgets

\* Steps of the page that leave the server and the messages alone.
LEMMA PageKeepsAnswers ==
    ASSUME RememberInv, result' \in {result, NoResult}, UNCHANGED <<verdict, inbox, server>>
    PROVE  AnswersAreTrue'
  BY DEF RememberInv, AnswersAreTrue, Says, NoResult, server

\* A message is appended.
LEMMA InboxGrows ==
    ASSUME TypeInv, RememberInv, NEW m \in Message, Len(inbox') = Len(inbox) + 1, inbox' = Append(inbox, m),
           m[1] = "match" => <<m[2], m[3]>> \in accepted', accepted \subseteq accepted'
    PROVE  \A i \in 1..Len(inbox') : inbox'[i][1] = "match" => <<inbox'[i][2], inbox'[i][3]>> \in accepted'
<1> SUFFICES ASSUME NEW i \in 1..Len(inbox')
             PROVE  inbox'[i][1] = "match" => <<inbox'[i][2], inbox'[i][3]>> \in accepted'
  OBVIOUS
<1>1. inbox \in Seq(Message)
  BY DEF TypeInv, NetOK
<1>2. CASE i \in 1..Len(inbox)
  BY <1>1, <1>2 DEF RememberInv, AnswersAreTrue, Says
<1>3. CASE i = Len(inbox) + 1
  BY <1>1, <1>3
<1>4. Len(inbox) \in Nat /\ Len(inbox') = Len(inbox) + 1
  BY <1>1
<1>5. i \in 1..Len(inbox) \/ i = Len(inbox) + 1
  BY <1>4
<1> QED
  BY <1>2, <1>3, <1>5

LEMMA NextRememberInv == TypeInv /\ RememberInv /\ [Next]_vars => RememberInv'
<1> SUFFICES ASSUME TypeInv, RememberInv, [Next]_vars PROVE AnswersAreTrue' /\ RememberedWasAccepted'
  BY DEF RememberInv
<1> USE DEF selector, jobs, store, net, server
<1>0. /\ RememberedWasAccepted /\ AnswersAreTrue
      /\ inbox \in Seq(Message) /\ verdict \in Result /\ saved \in [Store -> Version \X AnyFile]
      /\ MaxVersion \in Nat /\ refVersion \in Version
  BY FileAssumption DEF RememberInv, TypeInv, JobsOK, NetOK
<1>1. ASSUME result' \in {result, NoResult}, UNCHANGED <<verdict, inbox, server>>,
             Forgets \/ UNCHANGED saved
      PROVE  AnswersAreTrue' /\ RememberedWasAccepted'
  BY <1>0, <1>1, PageKeepsAnswers, SavedOrForgotten
<1>2. ASSUME NEW j \in Job, NEW f, NEW from, Processes(j, f, from) PROVE Forgets \/ UNCHANGED saved
  BY <1>2 DEF Processes
<1>3. ASSUME OpenChooser \/ CancelChooser \/ RestoreClears \/ ChangeFile \/ FileChanged \/ Enter
             \/ UNCHANGED vars
      PROVE  AnswersAreTrue' /\ RememberedWasAccepted'
  BY <1>1, <1>3 DEF OpenChooser, CancelChooser, RestoreClears, ChangeFile, FileChanged, Enter, vars
<1>4. ASSUME NEW j \in Job, NEW f \in File, Pick(j, f)
      PROVE  AnswersAreTrue' /\ RememberedWasAccepted'
  <2>1. PICK from : from = IF chooser = "picker" THEN "handle" ELSE "blob"
    OBVIOUS
  <2>2. Processes(j, f, from) /\ UNCHANGED <<result, verdict, inbox, server>>
    BY <1>4, <2>1 DEF Pick
  <2> QED
    BY <1>1, <1>2, <2>2
<1>5. ASSUME NEW j \in Job, Restore(j) PROVE AnswersAreTrue' /\ RememberedWasAccepted'
  <2>1. PICK s \in Store : Processes(j, saved[s][2], s)
    BY <1>5 DEF Restore
  <2>2. PICK f : f = saved[s][2]
    OBVIOUS
  <2>3. Processes(j, f, s) /\ UNCHANGED <<result, verdict, inbox, server>>
    BY <1>5, <2>1, <2>2 DEF Restore
  <2> QED
    BY <1>1, <1>2, <2>3
<1>6. ASSUME NEW j \in Job, (\E f \in File : LatePick(j, f)) \/ Hashed(j) \/ Unreadable(j)
      PROVE  AnswersAreTrue' /\ RememberedWasAccepted'
  BY <1>1, <1>6 DEF LatePick, Hashed, Unreadable
<1>7. ASSUME AnswerApplied PROVE AnswersAreTrue' /\ RememberedWasAccepted'
  <2>1. UNCHANGED <<result, verdict, inbox, server>>
    BY <1>7 DEF AnswerApplied
  <2>2. CASE Forgets
    BY <1>1, <2>1, <2>2
  <2>3. CASE result[1] = "match" /\ saved' = [saved EXCEPT ![origin[pending]] = Record]
    <3>1. result[2] = content[pending] /\ <<result[2], result[3]>> \in accepted
      BY <1>0, <1>7, <2>3 DEF AnswerApplied, AnswerIsMine, AnswersAreTrue, Says
    <3>2. Record = <<result[3], result[2]>>
      BY <3>1 DEF Record
    <3>3. \A s \in Store : saved'[s] = saved[s] \/ saved'[s] = Record
      BY <1>0, <2>3
    <3>4. RememberedWasAccepted'
      BY <1>0, <2>1, <3>1, <3>2, <3>3 DEF RememberedWasAccepted
    <3> QED
      BY <1>0, <2>1, <3>4, PageKeepsAnswers
  <2> QED
    BY <1>7, <2>2, <2>3 DEF AnswerApplied
<1>8. ASSUME Leave \/ Drop PROVE AnswersAreTrue' /\ RememberedWasAccepted'
  <2>1. /\ result' \in {result, NoResult} /\ verdict' = NoResult /\ inbox' = <<>>
        /\ UNCHANGED <<saved, server>>
    BY <1>8 DEF Leave, Drop
  <2>2. AnswersAreTrue'
    BY <1>0, <2>1 DEF AnswersAreTrue, Says, NoResult
  <2> QED
    BY <1>0, <2>1, <2>2, SavedOrForgotten
<1>9. ASSUME Connect PROVE AnswersAreTrue' /\ RememberedWasAccepted'
  <2>1. /\ UNCHANGED <<result, verdict, saved, server>>
        /\ inbox' = << <<"state", NoFile, refVersion>> >>
    BY <1>9 DEF Connect
  <2>2. \A i \in 1..Len(inbox') : inbox'[i][1] # "match"
    BY <2>1
  <2>3. AnswersAreTrue'
    BY <1>0, <2>1, <2>2 DEF AnswersAreTrue, Says
  <2> QED
    BY <1>0, <2>1, <2>3, SavedOrForgotten
<1>10. ASSUME Receive PROVE AnswersAreTrue' /\ RememberedWasAccepted'
  <2>1. /\ inbox # <<>> /\ inbox' = Tail(inbox) /\ UNCHANGED <<saved, verdict, server>>
        /\ result' \in {result, NoResult, Head(inbox)}
    BY <1>10 DEF Receive
  <2>2. Says(Head(inbox))
    BY <1>0, <2>1 DEF AnswersAreTrue
  <2>3. Says(result) /\ Says(NoResult) /\ Says(verdict)
    BY <1>0 DEF AnswersAreTrue, Says, NoResult
  <2>4. result'[1] = "match" => <<result'[2], result'[3]>> \in accepted
    BY <2>1, <2>2, <2>3 DEF Says
  <2>5. \A i \in 1..Len(inbox') : inbox'[i] = inbox[i + 1] /\ i + 1 \in 1..Len(inbox)
    BY <1>0, <2>1
  <2>6. \A i \in 1..Len(inbox') : inbox'[i][1] = "match" => <<inbox'[i][2], inbox'[i][3]>> \in accepted
    BY <1>0, <2>5 DEF AnswersAreTrue, Says
  <2>7. AnswersAreTrue'
    BY <1>0, <2>1, <2>3, <2>4, <2>6 DEF AnswersAreTrue, Says
  <2> QED
    BY <1>0, <2>1, <2>7, SavedOrForgotten
<1>11. ASSUME Verify PROVE AnswersAreTrue' /\ RememberedWasAccepted'
  <2>0. PICK f : f = Head(asked)
    OBVIOUS
  <2>1. /\ UNCHANGED <<result, inbox, saved>> /\ accepted \subseteq accepted'
    BY <1>11 DEF Verify
  <2>2. refVersion' # 0 => <<refFile', refVersion'>> \in accepted'
    BY <1>0, <1>11, <2>0 DEF Verify, AnswersAreTrue
  <2>3. verdict'[1] = "match" => <<verdict'[2], verdict'[3]>> \in accepted'
    <3>1. CASE UNCHANGED verdict
      BY <1>0, <2>1, <3>1 DEF AnswersAreTrue, Says
    <3>2. CASE verdict' = <<"match", f, refVersion'>> /\ accepted' = accepted \cup {<<f, refVersion'>>}
      BY <3>2
    <3>3. CASE /\ verdict' = IF refVersion = 0 THEN <<"no reference", f, 0>>
                             ELSE IF refFile = f THEN <<"match", f, refVersion>>
                             ELSE <<"mismatch", f, refVersion>>
               /\ UNCHANGED accepted
      BY <1>0, <3>3 DEF AnswersAreTrue
    <3> QED
      BY <1>11, <2>0, <3>1, <3>2, <3>3 DEF Verify
  <2>4. AnswersAreTrue'
    BY <1>0, <2>1, <2>2, <2>3 DEF AnswersAreTrue, Says
  <2> QED
    BY <1>0, <2>1, <2>4, SavedOrForgotten
<1>12. ASSUME Answer PROVE AnswersAreTrue' /\ RememberedWasAccepted'
  <2>1. /\ inbox' = Append(inbox, verdict) /\ verdict' = NoResult
        /\ UNCHANGED <<result, saved, server>>
    BY <1>12 DEF Answer
  <2>2. PICK m \in Message : m = verdict
    BY <1>0 DEF Result, Message, AnyFile, Version
  <2>3. \A i \in 1..Len(inbox') : inbox'[i][1] = "match" => <<inbox'[i][2], inbox'[i][3]>> \in accepted'
    <3>1. Len(inbox') = Len(inbox) + 1 /\ inbox' = Append(inbox, m)
      BY <1>0, <2>1, <2>2
    <3>2. m[1] = "match" => <<m[2], m[3]>> \in accepted'
      BY <1>0, <2>1, <2>2 DEF AnswersAreTrue, Says
    <3> QED
      BY <2>1, <3>1, <3>2, InboxGrows
  <2>4. AnswersAreTrue'
    BY <1>0, <2>1, <2>3 DEF AnswersAreTrue, Says, NoResult
  <2> QED
    BY <1>0, <2>1, <2>4, SavedOrForgotten
<1>13. ASSUME NEW f \in File, HostSets(f) PROVE AnswersAreTrue' /\ RememberedWasAccepted'
  <2>1. /\ UNCHANGED <<result, verdict, saved>> /\ accepted' = accepted \cup {<<f, refVersion'>>}
        /\ refFile' = f /\ refVersion' = refVersion + 1
    BY <1>13 DEF HostSets
  <2>2. PICK m : m = <<"changed", NoFile, refVersion'>>
    OBVIOUS
  <2>3. refVersion' \in Version
    BY <1>0, <1>13, <2>1 DEF HostSets, Version
  <2>4. m \in Message
    BY <2>2, <2>3 DEF Message, AnyFile
  <2>5. \A i \in 1..Len(inbox') : inbox'[i][1] = "match" => <<inbox'[i][2], inbox'[i][3]>> \in accepted'
    <3>1. CASE UNCHANGED inbox
      BY <1>0, <2>1, <3>1 DEF AnswersAreTrue, Says
    <3>2. CASE inbox' = Append(inbox, m)
      <4>1. Len(inbox') = Len(inbox) + 1 /\ m[1] # "match"
        BY <1>0, <2>2, <2>4, <3>2
      <4> QED
        BY <2>1, <2>4, <3>2, <4>1, InboxGrows
    <3> QED
      BY <1>13, <2>2, <3>1, <3>2 DEF HostSets
  <2>6. AnswersAreTrue'
    BY <1>0, <2>1, <2>5 DEF AnswersAreTrue, Says
  <2> QED
    BY <1>0, <2>1, <2>6, SavedOrForgotten
<1> QED
  BY <1>3, <1>4, <1>5, <1>6, <1>7, <1>8, <1>9, <1>10, <1>11, <1>12, <1>13 DEF Next

\* A file is remembered for the version the server accepted it for.
THEOREM RecordsWereAccepted == Spec => []RememberedWasAccepted
<1>1. RememberInv => RememberedWasAccepted
  BY DEF RememberInv
<1> QED
  BY <1>1, TypesHold, InitRememberInv, NextRememberInv, PTL DEF Spec
--------------------------------------------------------------------------
(* The ground *)

\* Nothing is on its way without a socket, and no socket without a page.
SocketCarriesAll ==
    /\ ~page => ~socket
    /\ ~socket => asked = <<>> /\ verdict = NoResult /\ inbox = <<>>

\* A version is one file, and the server's own the latest of them.
VersionIsOneFile ==
    /\ \A a \in accepted : a[1] \in File /\ a[2] \in Nat /\ a[2] > 0
                           /\ a[2] <= refVersion
    /\ \A a, b \in accepted : a[2] = b[2] => a[1] = b[1]
    /\ refVersion = 0 => refFile = NoFile

\* Only files that were chosen are hashed and asked for.
OnlyFilesAreAsked ==
    /\ \A i \in 1..Len(asked) : asked[i] \in File
    /\ \A j \in Job : stage[j] = "hashing" => content[j] \in File

\* The file the selector holds or hashes is that of its latest run.
LatestRunIsHeld ==
    /\ status = "hashing" => current \in Job /\ stage[current] = "hashing"
    /\ status = "verifying" => pending = current

\* Nothing has moved the version since the answer that is still displayed.
MatchIsOfVersion == result[1] = "match" => fileVersion = result[3]

Ground ==
    /\ SocketCarriesAll /\ VersionIsOneFile /\ OnlyFilesAreAsked
    /\ LatestRunIsHeld /\ MatchIsOfVersion

LEMMA InitGround == Init => Ground
  BY DEF Init, Ground, SocketCarriesAll, VersionIsOneFile, OnlyFilesAreAsked,
         LatestRunIsHeld, MatchIsOfVersion, NoResult

LEMMA SocketStep ==
    ASSUME SocketCarriesAll, [Next]_vars PROVE SocketCarriesAll'
<1> USE DEF SocketCarriesAll, selector, jobs, store, net, server
<1>1. ASSUME UNCHANGED <<page, net>> PROVE SocketCarriesAll'
  BY <1>1
<1>2. ASSUME \/ OpenChooser \/ CancelChooser \/ AnswerApplied \/ RestoreClears
             \/ ChangeFile \/ FileChanged \/ UNCHANGED vars
      PROVE  SocketCarriesAll'
  BY <1>1, <1>2 DEF OpenChooser, CancelChooser, AnswerApplied, RestoreClears,
     ChangeFile, FileChanged, vars
<1>3. ASSUME NEW j \in Job, NEW f \in File,
             Pick(j, f) \/ LatePick(j, f)
      PROVE  SocketCarriesAll'
  BY <1>1, <1>3 DEF Pick, LatePick
<1>4. ASSUME NEW j \in Job, Hashed(j) PROVE SocketCarriesAll'
  BY <1>4 DEF Hashed
<1>5. ASSUME Leave \/ Enter \/ Connect \/ Drop PROVE SocketCarriesAll'
  BY <1>5 DEF Leave, Enter, Connect, Drop
<1>6. ASSUME Receive \/ Verify \/ Answer PROVE SocketCarriesAll'
  BY <1>6 DEF Receive, Verify, Answer
<1>7. ASSUME NEW f \in File, HostSets(f) PROVE SocketCarriesAll'
  BY <1>7 DEF HostSets
<1>8. ASSUME NEW j \in Job, Unreadable(j) \/ Restore(j) PROVE SocketCarriesAll'
  BY <1>1, <1>8 DEF Unreadable, Restore
<1> QED
  BY <1>2, <1>3, <1>4, <1>5, <1>6, <1>7, <1>8 DEF Next

\* The server numbers what it accepts.
LEMMA NewVersion ==
    ASSUME TypeInv, VersionIsOneFile, NEW f \in File, f # refFile,
           refFile' = f, refVersion' = refVersion + 1,
           accepted' = accepted \cup {<<f, refVersion + 1>>}
    PROVE  VersionIsOneFile'
<1>1. refVersion \in Nat
  BY DEF TypeInv, NetOK, Version
<1>2. \A a \in accepted' :
         a \in accepted \/ (a[1] = f /\ a[2] = refVersion + 1)
  OBVIOUS
<1>3. \A a \in accepted : a[2] \in Nat /\ a[2] # refVersion + 1
  BY <1>1 DEF VersionIsOneFile
<1>4. \A a, b \in accepted' : a[2] = b[2] => a[1] = b[1]
  BY <1>2, <1>3 DEF VersionIsOneFile
<1>5. \A a \in accepted' : a[1] \in File /\ a[2] \in Nat /\ a[2] > 0
                           /\ a[2] <= refVersion'
  BY <1>1, <1>2 DEF VersionIsOneFile
<1> QED
  BY <1>1, <1>4, <1>5 DEF VersionIsOneFile

LEMMA VersionStep ==
    ASSUME TypeInv, AnswersAreTrue, OnlyFilesAreAsked, VersionIsOneFile,
           [Next]_vars
    PROVE  VersionIsOneFile'
<1> USE DEF selector, jobs, store, net, server
<1>1. ASSUME UNCHANGED server PROVE VersionIsOneFile'
  BY <1>1 DEF VersionIsOneFile
<1>2. ASSUME Verify PROVE VersionIsOneFile'
  <2>1. PICK f : f = Head(asked)
    OBVIOUS
  <2>2. f \in File
    <3>1. asked \in Seq(AnyFile) /\ asked # <<>>
      BY <1>2 DEF Verify, TypeInv, NetOK
    <3>2. 1 \in 1..Len(asked) /\ Head(asked) = asked[1]
      BY <3>1
    <3> QED
      BY <2>1, <3>2 DEF OnlyFilesAreAsked
  <2>3. CASE /\ refFile' = f
             /\ refVersion' = IF refFile = f THEN refVersion ELSE refVersion + 1
             /\ accepted' = accepted \cup {<<f, refVersion'>>}
    <3>1. CASE refFile = f
      <4>1. refVersion # 0
        BY <2>2, <3>1, FileAssumption DEF VersionIsOneFile
      <4>2. <<f, refVersion>> \in accepted
        BY <3>1, <4>1 DEF AnswersAreTrue
      <4>3. UNCHANGED server
        BY <2>3, <3>1, <4>2
      <4> QED
        BY <1>1, <4>3
    <3>2. CASE refFile # f
      BY <2>2, <2>3, <3>2, NewVersion
    <3> QED
      BY <3>1, <3>2
  <2> QED
    BY <1>1, <1>2, <2>1, <2>3 DEF Verify
<1>3. ASSUME NEW f \in File, HostSets(f) PROVE VersionIsOneFile'
  BY <1>3, NewVersion DEF HostSets
<1>4. \/ UNCHANGED server \/ Verify \/ \E f \in File : HostSets(f)
  BY DEF Next, vars, OpenChooser, CancelChooser, Pick, LatePick, Hashed,
     Unreadable, Restore, AnswerApplied, RestoreClears, ChangeFile,
     FileChanged, Leave, Enter, Connect, Drop, Receive, Answer
<1> QED
  BY <1>1, <1>2, <1>3, <1>4

\* A record that can be restored is one of a file.
LEMMA RecordIsAFile ==
    ASSUME TypeInv, RememberInv, VersionIsOneFile, NEW s \in Store,
           saved[s][1] # 0
    PROVE  saved[s][2] \in File /\ <<saved[s][2], saved[s][1]>> \in accepted
<1>1. saved[s] # NoRecord
  BY DEF NoRecord
<1>2. <<saved[s][2], saved[s][1]>> \in accepted
  BY <1>1 DEF RememberInv, RememberedWasAccepted
<1> QED
  BY <1>2 DEF VersionIsOneFile

\* Nothing else starts to be hashed.
LEMMA HashedAreFiles ==
    ASSUME TypeInv, OnlyFilesAreAsked, NEW j \in Job, NEW f \in File,
           content' = [content EXCEPT ![j] = f],
           stage' = [stage EXCEPT ![j] = "hashing"] \/ UNCHANGED stage,
           UNCHANGED asked
    PROVE  OnlyFilesAreAsked'
<1>1. /\ content \in [Job -> AnyFile] /\ stage \in [Job -> {"none", "hashing"}]
  BY DEF TypeInv, JobsOK
<1>2. \A k \in Job : content'[k] = f \/ (k # j /\ content'[k] = content[k] /\ stage'[k] = stage[k])
  BY <1>1
<1> QED
  BY <1>2 DEF OnlyFilesAreAsked

LEMMA OnlyFilesStep ==
    ASSUME TypeInv, RememberInv, VersionIsOneFile, OnlyFilesAreAsked,
           [Next]_vars
    PROVE  OnlyFilesAreAsked'
<1> USE DEF selector, jobs, store, net, server
<1>0. /\ stage \in [Job -> {"none", "hashing"}] /\ asked \in Seq(AnyFile)
      /\ content \in [Job -> AnyFile]
  BY DEF TypeInv, JobsOK, NetOK
<1>1. ASSUME UNCHANGED <<stage, content, asked>> PROVE OnlyFilesAreAsked'
  BY <1>1 DEF OnlyFilesAreAsked
<1>2. ASSUME NEW j \in Job, NEW f \in File, Pick(j, f) \/ LatePick(j, f)
      PROVE  OnlyFilesAreAsked'
  BY <1>2, HashedAreFiles DEF Pick, LatePick, Processes
<1>3. ASSUME NEW j \in Job, Restore(j) PROVE OnlyFilesAreAsked'
  <2>1. PICK s \in Store : saved[s][1] = reference
                           /\ Processes(j, saved[s][2], s)
    BY <1>3 DEF Restore
  <2>2. saved[s][1] # 0 /\ UNCHANGED asked
    BY <1>3, <2>1 DEF Restore
  <2>3. saved[s][2] \in File
    BY <2>2, RecordIsAFile
  <2> QED
    BY <2>1, <2>2, <2>3, HashedAreFiles DEF Processes
<1>4. ASSUME NEW j \in Job, Hashed(j) PROVE OnlyFilesAreAsked'
  <2>1. /\ stage[j] = "hashing" /\ stage' = [stage EXCEPT ![j] = "none"]
        /\ asked' \in {asked, Append(asked, content[j])} /\ UNCHANGED content
    BY <1>4 DEF Hashed, RunEnds
  <2>2. content[j] \in File
    BY <2>1 DEF OnlyFilesAreAsked
  <2>3. \A i \in 1..Len(asked') : asked'[i] \in File
    BY <1>0, <2>1, <2>2 DEF OnlyFilesAreAsked
  <2> QED
    BY <1>0, <2>1, <2>3 DEF OnlyFilesAreAsked
<1>5. ASSUME NEW j \in Job, Unreadable(j) PROVE OnlyFilesAreAsked'
  BY <1>0, <1>5 DEF Unreadable, RunEnds, OnlyFilesAreAsked
<1>6. ASSUME Leave PROVE OnlyFilesAreAsked'
  BY <1>6 DEF Leave, OnlyFilesAreAsked
<1>7. ASSUME Drop PROVE OnlyFilesAreAsked'
  BY <1>7 DEF Drop, OnlyFilesAreAsked
<1>8. ASSUME Verify PROVE OnlyFilesAreAsked'
  <2>1. \A i \in 1..Len(asked') : asked'[i] = asked[i + 1] /\ i + 1 \in 1..Len(asked)
    <3>1. asked # <<>> /\ asked' = Tail(asked)
      BY <1>8 DEF Verify
    <3> QED
      BY <1>0, <3>1
  <2> QED
    BY <1>8, <2>1 DEF Verify, OnlyFilesAreAsked
<1>9. ASSUME \/ OpenChooser \/ CancelChooser \/ AnswerApplied \/ RestoreClears
             \/ ChangeFile \/ FileChanged \/ Enter \/ Connect \/ Receive
             \/ Answer \/ UNCHANGED vars \/ \E f \in File : HostSets(f)
      PROVE  OnlyFilesAreAsked'
  BY <1>1, <1>9 DEF OpenChooser, CancelChooser, AnswerApplied, RestoreClears,
     ChangeFile, FileChanged, Enter, Connect, Receive, Answer, HostSets, vars
<1> QED
  BY <1>2, <1>3, <1>4, <1>5, <1>6, <1>7, <1>8, <1>9 DEF Next

\* A run that starts is the latest.
LEMMA ProcessesLatest ==
    ASSUME TypeInv, NEW j \in Job, NEW f, NEW from, Processes(j, f, from)
    PROVE  LatestRunIsHeld'
  BY DEF Processes, TypeInv, JobsOK, LatestRunIsHeld

LEMMA LatestRunStep ==
    ASSUME TypeInv, UrlInv, LatestRunIsHeld, [Next]_vars
    PROVE  LatestRunIsHeld'
<1> USE DEF selector, jobs, store, net, server
<1>0. /\ stage \in [Job -> {"none", "hashing"}] /\ NoJob \notin Job
  BY FileAssumption DEF TypeInv, JobsOK
<1>1. ASSUME UNCHANGED <<status, current, pending, stage>>
      PROVE  LatestRunIsHeld'
  BY <1>1 DEF LatestRunIsHeld
<1>2. ASSUME NEW j \in Job, NEW f \in File, Pick(j, f) PROVE LatestRunIsHeld'
  <2>1. PICK from : from = IF chooser = "picker" THEN "handle" ELSE "blob"
    OBVIOUS
  <2> QED
    BY <1>2, <2>1, ProcessesLatest DEF Pick
<1>3. ASSUME NEW j \in Job, Restore(j) PROVE LatestRunIsHeld'
  <2>1. PICK s \in Store : Processes(j, saved[s][2], s)
    BY <1>3 DEF Restore
  <2>2. PICK f : f = saved[s][2]
    OBVIOUS
  <2> QED
    BY <2>1, <2>2, ProcessesLatest
<1>4. ASSUME NEW j \in Job, NEW f \in File, LatePick(j, f)
      PROVE  LatestRunIsHeld'
  BY <1>0, <1>4 DEF LatePick, LatestRunIsHeld
<1>5. ASSUME NEW j \in Job, Hashed(j) PROVE LatestRunIsHeld'
  <2>1. /\ stage[j] = "hashing" /\ stage' = [stage EXCEPT ![j] = "none"]
        /\ UNCHANGED current
    BY <1>5 DEF Hashed, RunEnds
  <2>2. CASE j = current
    <3>1. j \notin orphan /\ status = "hashing"
      BY <1>0, <2>1, <2>2 DEF UrlInv, CurrentHashes
    <3>2. \/ status' = "verifying" /\ pending' = j
          \/ status' = "idle"
      BY <1>5, <2>2, <3>1 DEF Hashed, IsLatest
    <3> QED
      BY <2>1, <2>2, <3>2 DEF LatestRunIsHeld
  <2>3. CASE j # current
    <3>1. /\ UNCHANGED <<status, pending>>
          /\ current \in Job => stage'[current] = stage[current]
      BY <1>0, <1>5, <2>1, <2>3 DEF Hashed, IsLatest
    <3> QED
      BY <2>1, <3>1 DEF LatestRunIsHeld
  <2> QED
    BY <2>2, <2>3
<1>6. ASSUME NEW j \in Job, Unreadable(j) PROVE LatestRunIsHeld'
  <2>1. j = current => status' = "error"
    BY <1>6 DEF Unreadable
  <2>2. j # current =>
           /\ UNCHANGED status
           /\ current \in Job => stage'[current] = stage[current]
    BY <1>0, <1>6 DEF Unreadable, RunEnds
  <2>3. UNCHANGED <<current, pending>>
    BY <1>6 DEF Unreadable
  <2> QED
    BY <2>1, <2>2, <2>3 DEF LatestRunIsHeld
<1>7. ASSUME AnswerApplied PROVE LatestRunIsHeld'
  BY <1>7 DEF AnswerApplied, LatestRunIsHeld
<1>8. ASSUME Leave PROVE LatestRunIsHeld'
  BY <1>8 DEF Leave, SelectorReset, LatestRunIsHeld
<1>9. ASSUME \/ OpenChooser \/ CancelChooser \/ RestoreClears \/ ChangeFile
             \/ FileChanged \/ Enter \/ Connect \/ Drop \/ Receive \/ Verify
             \/ Answer \/ UNCHANGED vars \/ \E f \in File : HostSets(f)
      PROVE  LatestRunIsHeld'
  BY <1>1, <1>9 DEF OpenChooser, CancelChooser, RestoreClears, ChangeFile,
     FileChanged, DropsFile, Enter, Connect, Drop, Receive, Verify, Answer,
     HostSets, vars
<1> QED
  BY <1>2, <1>3, <1>4, <1>5, <1>6, <1>7, <1>8, <1>9 DEF Next

LEMMA MatchStep ==
    ASSUME TypeInv, AnswersAreTrue, VersionIsOneFile, MatchIsOfVersion,
           [Next]_vars
    PROVE  MatchIsOfVersion'
<1> USE DEF selector, jobs, store, net, server
<1>1. ASSUME result' \in {result, NoResult}, UNCHANGED fileVersion
      PROVE  MatchIsOfVersion'
  BY <1>1 DEF MatchIsOfVersion, NoResult
<1>2. ASSUME Leave PROVE MatchIsOfVersion'
  BY <1>2 DEF Leave, MatchIsOfVersion, NoResult
<1>3. ASSUME Receive PROVE MatchIsOfVersion'
  <2>1. PICK m : m = Head(inbox)
    OBVIOUS
  <2>2. CASE m[1] \notin {"state", "changed"}
    BY <1>3, <2>1, <2>2 DEF Receive, MatchIsOfVersion
  <2>3. CASE m[1] \in {"state", "changed"} /\ result' = NoResult
    BY <2>3 DEF MatchIsOfVersion, NoResult
  <2>4. CASE /\ m[1] = "state" /\ UNCHANGED result /\ fileVersion' = m[3]
             /\ ~(fileVersion > 0 /\ m[3] # fileVersion)
    <3>1. result[1] = "match" => result[3] > 0
      BY DEF AnswersAreTrue, Says, VersionIsOneFile
    <3> QED
      BY <2>4, <3>1 DEF MatchIsOfVersion
  <2> QED
    BY <1>3, <2>1, <2>2, <2>3, <2>4 DEF Receive
<1>4. ASSUME NEW j \in Job,
             (\E f \in File : Pick(j, f) \/ LatePick(j, f)) \/ Hashed(j)
             \/ Unreadable(j) \/ Restore(j)
      PROVE  MatchIsOfVersion'
  BY <1>1, <1>4 DEF Pick, LatePick, Hashed, Unreadable, Restore
<1>5. ASSUME \/ OpenChooser \/ CancelChooser \/ AnswerApplied \/ RestoreClears
             \/ ChangeFile \/ FileChanged \/ Enter \/ Connect \/ Drop
             \/ Verify \/ Answer \/ UNCHANGED vars
             \/ \E f \in File : HostSets(f)
      PROVE  MatchIsOfVersion'
  BY <1>1, <1>5 DEF OpenChooser, CancelChooser, AnswerApplied, RestoreClears,
     ChangeFile, FileChanged, Enter, Connect, Drop, Verify, Answer, HostSets,
     vars
<1> QED
  BY <1>2, <1>3, <1>4, <1>5 DEF Next

LEMMA GroundHolds == Spec => []Ground
<1>1. TypeInv /\ UrlInv /\ RememberInv /\ Ground /\ [Next]_vars => Ground'
  BY SocketStep, VersionStep, OnlyFilesStep, LatestRunStep, MatchStep
     DEF Ground, RememberInv
<1>2. Spec => []RememberInv
  BY TypesHold, InitRememberInv, NextRememberInv, PTL DEF Spec
<1> QED
  BY <1>1, <1>2, TypesHold, UrlInvHolds, InitGround, PTL DEF Spec
--------------------------------------------------------------------------
(* What plays *)

\* A message of the inbox that answers a request.
IsAnswer(m) == m[1] \notin {"state", "changed"}

\* The files of the requests behind the k-th, of the answer in the making
\* and of the answers behind the k-th.
AskedAfter(k) == {asked[i] : i \in (k + 1)..Len(asked)}
BeingAnswered == IF verdict = NoResult THEN {} ELSE {verdict[2]}
AnsweredAfter(k) ==
    {inbox[i][2] : i \in {n \in (k + 1)..Len(inbox) : IsAnswer(inbox[n])}}

\* The files whose verification is on its way.
InFlight == AskedAfter(0) \cup BeingAnswered \cup AnsweredAfter(0)

\* A record that can be restored, under one reference or another.
Restorable(s) ==
    /\ saved[s][1] # 0
    /\ s = "blob" => saved["handle"][1] \in {0, saved["blob"][1]}

\* Nothing else than f can be restored.
OnlyKept(f) == \A s \in Store : Restorable(s) => saved[s][2] = f

\* Whatever follows f only repeats it, and was restored.
Repeats(f, S) == \A g \in S : g = f /\ OnlyKept(f)

\* Behind a request for f, however far it has got, are only repetitions.
LastWord(f) ==
    /\ \A i \in 1..Len(asked) : asked[i] = f => Repeats(f, AskedAfter(i))
    /\ f \in BeingAnswered => Repeats(f, AskedAfter(0))
    /\ \A i \in 1..Len(inbox) :
          IsAnswer(inbox[i]) /\ inbox[i][2] = f =>
              Repeats(f, AskedAfter(0) \cup BeingAnswered \cup AnsweredAfter(i))
    /\ result[1] # "none" /\ result[2] = f => Repeats(f, InFlight)

ChooserIsOpen == chooser \in {"picker", "input"}

\* What an earlier run or file has left in flight is one file and the only
\* one that can be restored;
LeftOvers == status # "verifying" => \A f \in InFlight : Repeats(f, InFlight)

\* a run that goes on behind an open chooser is a restore of that file;
RestoreUnderChooser ==
    ChooserIsOpen /\ Busy => /\ InFlight \subseteq {content[current]}
                             /\ OnlyKept(content[current])

\* the file that the selector verifies has the last word;
VerifiesLast == status = "verifying" => LastWord(content[pending])

\* and so nothing contradicts a file that plays.
LoadedStays ==
    fileUrl # NoJob => /\ InFlight \subseteq {content[fileUrl]}
                       /\ <<content[fileUrl], fileVersion>> \in accepted

FlightInv == LeftOvers /\ RestoreUnderChooser /\ VerifiesLast /\ LoadedStays

\* Until a run of a selector that is gone has sent a request, too.
PlaysInv == NothingFromUnmounted => FlightInv

\* What the proof of a step needs to know.
Known == TypeInv /\ UrlInv /\ RememberInv /\ Ground

LEMMA RepeatsFewer ==
    ASSUME NEW f, NEW S, NEW T, Repeats(f, S), T \subseteq S
    PROVE  Repeats(f, T)
  BY DEF Repeats

LEMMA AskedFewer ==
    ASSUME NEW i \in Nat PROVE AskedAfter(i) \subseteq AskedAfter(0)
  BY DEF AskedAfter

LEMMA AnsweredFewer ==
    ASSUME NEW i \in Nat PROVE AnsweredAfter(i) \subseteq AnsweredAfter(0)
  BY DEF AnsweredAfter

\* The pipeline is empty.
LEMMA NothingInFlight ==
    ASSUME asked = <<>>, verdict = NoResult,
           \A i \in 1..Len(inbox) : ~IsAnswer(inbox[i])
    PROVE  InFlight = {}
<1>1. AskedAfter(0) = {}
  BY DEF AskedAfter
<1>2. AnsweredAfter(0) = {}
  BY DEF AnsweredAfter
<1> QED
  BY <1>1, <1>2 DEF InFlight, BeingAnswered

LEMMA NothingToRepeat ==
    ASSUME InFlight = {}, NEW f PROVE LastWord(f)
<1>1. AskedAfter(0) = {} /\ BeingAnswered = {} /\ AnsweredAfter(0) = {}
  BY DEF InFlight
<1>2. \A i \in 1..Len(asked) : AskedAfter(i) = {}
  BY <1>1, AskedFewer
<1>3. \A i \in 1..Len(inbox) : AnsweredAfter(i) = {}
  BY <1>1, AnsweredFewer
<1> QED
  BY <1>1, <1>2, <1>3 DEF LastWord, Repeats, InFlight

\* Without records nothing else can be restored.
LEMMA ForgottenIsKept ==
    ASSUME Forgets, NEW f PROVE OnlyKept(f)'
  BY DEF Forgets, OnlyKept, Restorable, NoRecord

\* The step leaves the requests and answers alone.
Calm == /\ UNCHANGED <<asked, verdict, inbox>>
        /\ result' \in {result, NoResult}
        /\ Forgets \/ UNCHANGED saved

LEMMA CalmFlight == 
    ASSUME UNCHANGED <<asked, verdict, inbox>>
    PROVE  /\ InFlight' = InFlight /\ BeingAnswered' = BeingAnswered
           /\ \A i \in Nat : AskedAfter(i)' = AskedAfter(i)
           /\ \A i \in Nat : AnsweredAfter(i)' = AnsweredAfter(i)
<1>1. \A i \in Nat : AskedAfter(i)' = AskedAfter(i)
  BY DEF AskedAfter
<1>2. \A i \in Nat : AnsweredAfter(i)' = AnsweredAfter(i)
  BY DEF AnsweredAfter, IsAnswer
<1>3. BeingAnswered' = BeingAnswered
  BY DEF BeingAnswered
<1> QED
  BY <1>1, <1>2, <1>3 DEF InFlight

LEMMA CalmKept ==
    ASSUME Forgets \/ UNCHANGED saved, NEW f, OnlyKept(f) PROVE OnlyKept(f)'
  BY ForgottenIsKept DEF OnlyKept, Restorable

LEMMA CalmRepeats ==
    ASSUME Forgets \/ UNCHANGED saved, NEW f, NEW S, Repeats(f, S)
    PROVE  Repeats(f, S)'
  BY CalmKept DEF Repeats

LEMMA CalmLastWord ==
    ASSUME Calm, NEW f, LastWord(f) PROVE LastWord(f)'
<1> USE DEF Calm
<1>1. \A S : Repeats(f, S) => Repeats(f, S)'
  BY CalmRepeats
<1>2. Len(asked)' = Len(asked) /\ Len(inbox)' = Len(inbox)
  OBVIOUS
<1> QED
  BY <1>1, <1>2, CalmFlight DEF LastWord, NoResult, IsAnswer

\* The selector and the page go on with the same files.
LEMMA CalmStep ==
    ASSUME FlightInv, Calm, accepted \subseteq accepted',
           status' = "verifying" => status = "verifying" /\ pending' = pending
                                    /\ content'[pending] = content[pending],
           status = "verifying" => status' = "verifying",
           ChooserIsOpen' /\ Busy' =>
               ChooserIsOpen /\ Busy /\ current' = current
               /\ content'[current] = content[current],
           fileUrl' # NoJob => fileUrl' = fileUrl /\ fileVersion' = fileVersion
                               /\ content'[fileUrl] = content[fileUrl]
    PROVE  FlightInv'
<1>1. InFlight' = InFlight
  BY CalmFlight DEF Calm
<1>2. LeftOvers'
  <2>1. ASSUME status' # "verifying", NEW f \in InFlight
        PROVE  Repeats(f, InFlight)'
    <3>1. Repeats(f, InFlight)
      BY <2>1 DEF FlightInv, LeftOvers
    <3>2. PICK S : S = InFlight
      OBVIOUS
    <3>3. Repeats(f, S)'
      BY <3>1, <3>2, CalmRepeats DEF Calm
    <3> QED
      BY <1>1, <3>2, <3>3 DEF Repeats
  <2> QED
    BY <1>1, <2>1 DEF LeftOvers
<1>3. RestoreUnderChooser'
  <2>1. SUFFICES ASSUME ChooserIsOpen', Busy'
                 PROVE  /\ InFlight' \subseteq {content'[current']}
                        /\ OnlyKept(content[current])'
    BY DEF RestoreUnderChooser
  <2>2. PICK f : f = content[current]
    OBVIOUS
  <2>3. InFlight \subseteq {f} /\ OnlyKept(f) /\ content'[current'] = f
    BY <2>1, <2>2 DEF FlightInv, RestoreUnderChooser
  <2>4. OnlyKept(f)'
    BY <2>3, CalmKept DEF Calm
  <2> QED
    BY <1>1, <2>3, <2>4 DEF OnlyKept
<1>4. VerifiesLast'
  <2>1. SUFFICES ASSUME status' = "verifying"
                 PROVE  LastWord(content[pending])'
    BY DEF VerifiesLast
  <2>2. PICK f : f = content[pending]
    OBVIOUS
  <2>3. LastWord(f) /\ content'[pending'] = f
    BY <2>1, <2>2 DEF FlightInv, VerifiesLast
  <2>4. LastWord(f)'
    BY <2>3, CalmLastWord
  <2> QED
    BY <2>3, <2>4 DEF LastWord, Repeats, OnlyKept
<1>5. LoadedStays'
  BY <1>1 DEF FlightInv, LoadedStays
<1> QED
  BY <1>2, <1>3, <1>4, <1>5 DEF FlightInv

\* The URLs of the selector and of the page are not those of orphans.
LEMMA HeldAreNotOrphans ==
    ASSUME Known
    PROVE  /\ fileUrl # NoJob => fileUrl \in live /\ fileUrl \notin orphan
           /\ pending # NoJob => pending \in live /\ pending \notin orphan
           /\ status = "verifying" => pending = current /\ pending # NoJob
           /\ status = "hashing" => current # NoJob
           /\ NoJob \notin Job /\ NoJob \notin live
  BY FileAssumption
     DEF Known, UrlInv, UrlsAreHeld, VerifyingHoldsAFile, Ground, LatestRunIsHeld,
         TypeInv, JobsOK

LEMMA CalmActions ==
    ASSUME Known, PlaysInv,
           \/ OpenChooser \/ CancelChooser \/ RestoreClears \/ ChangeFile
           \/ FileChanged \/ Enter \/ UNCHANGED vars
           \/ \E j \in Job : \/ \E f \in File : LatePick(j, f)
                             \/ Unreadable(j)
    PROVE  PlaysInv'
<1> USE DEF selector, jobs, store, net, server
<1>0. SUFFICES ASSUME NothingFromUnmounted' PROVE FlightInv'
  BY DEF PlaysInv
<1>1. \/ NothingFromUnmounted
  <2>1. CASE \/ OpenChooser \/ CancelChooser \/ RestoreClears \/ ChangeFile
             \/ Enter \/ UNCHANGED vars
    BY <1>0, <2>1 DEF OpenChooser, CancelChooser, RestoreClears, ChangeFile,
       Enter, vars, NothingFromUnmounted
  <2>2. CASE FileChanged
    BY <1>0, <2>2, HeldAreNotOrphans
       DEF FileChanged, DropsFile, NothingFromUnmounted, Known, TypeInv, JobsOK
  <2>3. ASSUME NEW j \in Job, NEW f \in File, LatePick(j, f)
        PROVE  NothingFromUnmounted
    BY <1>0, <2>3 DEF LatePick, NothingFromUnmounted
  <2>4. ASSUME NEW j \in Job, Unreadable(j) PROVE NothingFromUnmounted
    BY <1>0, <2>4
       DEF Unreadable, NothingFromUnmounted, Known, UrlInv, HashingIsNotLive
  <2> QED
    BY <2>1, <2>2, <2>3, <2>4
<1>2. FlightInv
  BY <1>1 DEF PlaysInv
<1>3. CASE CancelChooser \/ RestoreClears \/ ChangeFile \/ Enter \/ UNCHANGED vars
  <2>1. Calm /\ accepted \subseteq accepted'
    BY <1>3 DEF CancelChooser, RestoreClears, ChangeFile, Enter, vars, Calm
  <2>2. /\ UNCHANGED <<status, current, pending, fileUrl, fileVersion, content>>
        /\ ChooserIsOpen' => ChooserIsOpen
    BY <1>3 DEF CancelChooser, RestoreClears, ChangeFile, Enter, vars,
       ChooserIsOpen
  <2> QED
    BY <1>2, <2>1, <2>2, CalmStep DEF Busy
<1>4. CASE OpenChooser
  <2>1. Calm /\ accepted \subseteq accepted'
    BY <1>4 DEF OpenChooser, Calm
  <2>2. /\ UNCHANGED <<status, current, pending, fileUrl, fileVersion, content>>
        /\ ~Busy'
    BY <1>4 DEF OpenChooser, Busy
  <2> QED
    BY <1>2, <2>1, <2>2, CalmStep
<1>5. CASE FileChanged
  <2>1. Calm /\ accepted \subseteq accepted'
    BY <1>5 DEF FileChanged, DropsFile, Calm
  <2>2. /\ UNCHANGED <<status, current, pending, chooser, content>>
        /\ fileUrl' = NoJob
    BY <1>5 DEF FileChanged, DropsFile
  <2> QED
    BY <1>2, <2>1, <2>2, CalmStep DEF Busy, ChooserIsOpen
<1>6. ASSUME NEW j \in Job, NEW f \in File, LatePick(j, f) PROVE FlightInv'
  <2>1. Calm /\ accepted \subseteq accepted'
    BY <1>6 DEF LatePick, Calm
  <2>2. /\ UNCHANGED <<status, current, pending, fileUrl, fileVersion>>
        /\ ~ChooserIsOpen' /\ content' = [content EXCEPT ![j] = f]
        /\ j \notin live /\ j # current
    BY <1>6 DEF LatePick, ChooserIsOpen
  <2>3. \A k \in Job : k # j => content'[k] = content[k]
    BY <2>2 DEF Known, TypeInv, JobsOK
  <2>4. live \subseteq Job
    BY DEF Known, TypeInv, JobsOK
  <2>5. status = "verifying" => content'[pending] = content[pending]
    BY <2>2, <2>3, <2>4, HeldAreNotOrphans
  <2>6. fileUrl # NoJob => content'[fileUrl] = content[fileUrl]
    BY <2>2, <2>3, <2>4, HeldAreNotOrphans
  <2> QED
    BY <1>2, <2>1, <2>2, <2>5, <2>6, CalmStep
<1>7. ASSUME NEW j \in Job, Unreadable(j) PROVE FlightInv'
  <2>1. Calm /\ accepted \subseteq accepted'
    BY <1>7 DEF Unreadable, Calm
  <2>2. /\ UNCHANGED <<current, pending, chooser, fileUrl, fileVersion, content>>
        /\ status' = IF j = current THEN "error" ELSE status
    BY <1>7 DEF Unreadable
  <2>3. j = current => status = "hashing"
    BY <1>7, HeldAreNotOrphans DEF Unreadable, Known, UrlInv, CurrentHashes
  <2> QED
    BY <1>2, <2>1, <2>2, <2>3, CalmStep DEF Busy, ChooserIsOpen
<1> QED
  BY <1>3, <1>4, <1>5, <1>6, <1>7

--------------------------------------------------------------------------
(* Runs of the selector *)

\* A run that starts leaves what is in flight to the runs before it.
LEMMA StartedRun ==
    ASSUME NEW j \in Job, NEW f, NEW from, Processes(j, f, from),
           UNCHANGED <<fileUrl, asked, verdict, inbox>>, fileUrl = NoJob,
           \A g \in InFlight : Repeats(g, InFlight),
           ~ChooserIsOpen' \/ (InFlight \subseteq {f} /\ OnlyKept(f)),
           TypeInv
    PROVE  FlightInv'
<1>0. /\ status' \in {"hashing", "not_video"}
      /\ Forgets \/ UNCHANGED saved
      /\ content' = [content EXCEPT ![j] = f]
      /\ status' = "hashing" => current' = j
  BY DEF Processes
<1>1. InFlight' = InFlight
  BY CalmFlight
<1>2. LeftOvers'
  <2>1. ASSUME NEW g \in InFlight PROVE Repeats(g, InFlight)'
    <3>1. PICK S : S = InFlight
      OBVIOUS
    <3>2. Repeats(g, S)'
      BY <1>0, <3>1, CalmRepeats
    <3> QED
      BY <1>1, <3>1, <3>2 DEF Repeats
  <2> QED
    BY <1>1, <2>1 DEF LeftOvers
<1>3. RestoreUnderChooser'
  <2>1. SUFFICES ASSUME ChooserIsOpen', Busy'
                 PROVE  /\ InFlight' \subseteq {content'[current']}
                        /\ OnlyKept(content[current])'
    BY DEF RestoreUnderChooser
  <2>2. content'[current'] = f
    BY <1>0, <2>1 DEF Busy, TypeInv, JobsOK
  <2>3. OnlyKept(f)'
    BY <1>0, <2>1, CalmKept
  <2> QED
    BY <1>1, <2>1, <2>2, <2>3 DEF OnlyKept
<1> QED
  BY <1>0, <1>2, <1>3 DEF FlightInv, VerifiesLast, LoadedStays

LEMMA PickPlays ==
    ASSUME Known, PlaysInv, NEW j \in Job, NEW f \in File, Pick(j, f)
    PROVE  PlaysInv'
<1> USE DEF store, net, server
<1>1. PICK from : from = IF chooser = "picker" THEN "handle" ELSE "blob"
  OBVIOUS
<1>2. /\ Processes(j, f, from) /\ fileUrl = NoJob /\ ChooserIsOpen
      /\ ~ChooserIsOpen' /\ UNCHANGED <<fileUrl, asked, verdict, inbox, orphan>>
  BY <1>1 DEF Pick, Mounted, ChooserIsOpen
<1>3. SUFFICES ASSUME NothingFromUnmounted' PROVE FlightInv'
  BY DEF PlaysInv
<1>4. NothingFromUnmounted
  BY <1>2, <1>3, HeldAreNotOrphans DEF Processes, NothingFromUnmounted
<1>5. \A g \in InFlight : Repeats(g, InFlight)
  <2>1. CASE Busy
    <3>1. InFlight \subseteq {content[current]} /\ OnlyKept(content[current])
      BY <1>2, <1>4, <2>1 DEF PlaysInv, FlightInv, RestoreUnderChooser
    <3> QED
      BY <3>1 DEF Repeats
  <2>2. CASE ~Busy
    BY <1>4, <2>2 DEF PlaysInv, FlightInv, LeftOvers, Busy
  <2> QED
    BY <2>1, <2>2
<1> QED
  BY <1>2, <1>5, StartedRun DEF Known

\* Only one file can be restored.
LEMMA RestoredIsKept ==
    ASSUME Known, NEW s \in Store, Restorable(s)
    PROVE  OnlyKept(saved[s][2])
<1> SUFFICES ASSUME NEW t \in Store, Restorable(t)
             PROVE  saved[t][2] = saved[s][2]
  BY DEF OnlyKept
<1>1. saved[s][1] # 0 /\ saved[t][1] # 0
  BY DEF Restorable
<1>2. /\ <<saved[s][2], saved[s][1]>> \in accepted
      /\ <<saved[t][2], saved[t][1]>> \in accepted
  BY <1>1, RecordIsAFile DEF Known, Ground
<1>3. saved[s][1] = saved[t][1]
  BY <1>1 DEF Restorable, Store
<1> QED
  BY <1>2, <1>3 DEF Known, Ground, VersionIsOneFile

LEMMA RestorePlays ==
    ASSUME Known, PlaysInv, NEW j \in Job, Restore(j)
    PROVE  PlaysInv'
<1> USE DEF store, net, server
<1>1. PICK s \in Store :
         /\ saved[s][1] = reference
         /\ s = "blob" => saved["handle"][1] \in {0, reference}
         /\ Processes(j, saved[s][2], s)
  BY DEF Restore
<1>2. /\ fileUrl = NoJob /\ status = "idle" /\ reference > 0
      /\ UNCHANGED <<fileUrl, asked, verdict, inbox, orphan>>
  BY DEF Restore, Mounted
<1>3. SUFFICES ASSUME NothingFromUnmounted' PROVE FlightInv'
  BY DEF PlaysInv
<1>4. NothingFromUnmounted
  BY <1>1, <1>2, <1>3, HeldAreNotOrphans DEF Processes, NothingFromUnmounted
<1>5. \A g \in InFlight : Repeats(g, InFlight)
  BY <1>2, <1>4 DEF PlaysInv, FlightInv, LeftOvers
<1>6. Restorable(s)
  BY <1>1, <1>2 DEF Restorable
<1>7. PICK f : f = saved[s][2]
  OBVIOUS
<1>8. OnlyKept(f)
  BY <1>6, <1>7, RestoredIsKept
<1>9. \A g \in InFlight : g = f
  BY <1>5, <1>6, <1>7 DEF Repeats, OnlyKept
<1> QED
  BY <1>1, <1>2, <1>5, <1>7, <1>8, <1>9, StartedRun DEF Known

\* The run of the selector asks for its file behind what it found in flight.
LEMMA AskedBehind ==
    ASSUME TypeInv, NEW f, asked' = Append(asked, f), UNCHANGED <<verdict, inbox>>
    PROVE  /\ \A i \in Nat : AskedAfter(i)' \subseteq AskedAfter(0) \cup {f}
           /\ \A i \in Nat : i = Len(asked') => AskedAfter(i)' = {}
           /\ BeingAnswered' = BeingAnswered
           /\ \A i \in Nat : AnsweredAfter(i)' = AnsweredAfter(i)
           /\ InFlight' \subseteq InFlight \cup {f}
           /\ \A i \in 1..Len(asked') :
                 i = Len(asked') \/ (asked'[i] = asked[i] /\ asked[i] \in AskedAfter(0))
<1>1. /\ asked \in Seq(AnyFile) /\ Len(asked) \in Nat
      /\ Len(asked') = Len(asked) + 1
      /\ \A i \in 1..Len(asked) : asked'[i] = asked[i]
      /\ asked'[Len(asked) + 1] = f
  BY DEF TypeInv, NetOK
<1>2. \A i \in 1..Len(asked') :
         i = Len(asked') \/ (asked'[i] = asked[i] /\ asked[i] \in AskedAfter(0))
  BY <1>1 DEF AskedAfter
<1>3. asked'[Len(asked')] = f
  BY <1>1
<1>4. \A i \in Nat : AskedAfter(i)' \subseteq AskedAfter(0) \cup {f}
  <2>1. SUFFICES ASSUME NEW i \in Nat, NEW k \in (i + 1)..Len(asked')
                 PROVE  asked'[k] \in AskedAfter(0) \cup {f}
    BY DEF AskedAfter
  <2>2. k \in 1..Len(asked')
    BY <1>1
  <2> QED
    BY <1>2, <1>3, <2>2
<1>5. \A i \in Nat : i = Len(asked') => AskedAfter(i)' = {}
  BY <1>1 DEF AskedAfter
<1>6. BeingAnswered' = BeingAnswered
  BY DEF BeingAnswered
<1>7. \A i \in Nat : AnsweredAfter(i)' = AnsweredAfter(i)
  BY DEF AnsweredAfter, IsAnswer
<1>8. InFlight' \subseteq InFlight \cup {f}
  BY <1>4, <1>6, <1>7 DEF InFlight
<1> QED
  BY <1>2, <1>4, <1>5, <1>6, <1>7, <1>8

\* If what was in flight is of one file, the request that joins it is the
\* last word.
LEMMA JoinedLastWord ==
    ASSUME TypeInv, NEW f, asked' = Append(asked, f),
           UNCHANGED <<verdict, inbox, saved>>, result' = NoResult,
           \A g \in InFlight : Repeats(g, InFlight)
    PROVE  LastWord(f)'
<1>1. ASSUME f \in InFlight, NEW S, S \subseteq InFlight \cup {f}
      PROVE  Repeats(f, S)'
  <2>1. Repeats(f, InFlight) /\ OnlyKept(f)
    BY <1>1 DEF Repeats
  <2>2. Repeats(f, S)
    BY <1>1, <2>1 DEF Repeats
  <2> QED
    BY <2>2, CalmRepeats
<1>2. /\ AskedAfter(0) \subseteq InFlight /\ BeingAnswered \subseteq InFlight
      /\ AnsweredAfter(0) \subseteq InFlight
  BY DEF InFlight
<1>3. ASSUME NEW i \in 1..Len(asked'), asked'[i] = f
      PROVE  Repeats(f, AskedAfter(i))'
  <2>1. CASE i = Len(asked')
    <3>1. AskedAfter(i)' = {}
      BY <2>1, AskedBehind
    <3> QED
      BY <3>1 DEF Repeats
  <2>2. CASE i # Len(asked')
    <3>1. f \in InFlight
      BY <1>2, <1>3, <2>2, AskedBehind
    <3>2. PICK S : S = AskedAfter(i)'
      OBVIOUS
    <3>3. S \subseteq InFlight \cup {f}
      BY <1>2, <3>2, AskedBehind
    <3> QED
      BY <1>1, <3>1, <3>2, <3>3 DEF Repeats
  <2> QED
    BY <2>1, <2>2
<1>4. ASSUME f \in BeingAnswered' PROVE Repeats(f, AskedAfter(0))'
  <2>1. f \in InFlight
    BY <1>2, <1>4, AskedBehind
  <2>2. PICK S : S = AskedAfter(0)'
    OBVIOUS
  <2>3. S \subseteq InFlight \cup {f}
    BY <1>2, <2>2, AskedBehind
  <2> QED
    BY <1>1, <2>1, <2>2, <2>3 DEF Repeats
<1>5. ASSUME NEW i \in 1..Len(inbox), IsAnswer(inbox[i]), inbox[i][2] = f
      PROVE  Repeats(f, AskedAfter(0) \cup BeingAnswered \cup AnsweredAfter(i))'
  <2>1. f \in InFlight
    BY <1>2, <1>5 DEF AnsweredAfter
  <2>2. PICK S : S = (AskedAfter(0) \cup BeingAnswered \cup AnsweredAfter(i))'
    OBVIOUS
  <2>3. AnsweredAfter(i) \subseteq AnsweredAfter(0)
    BY AnsweredFewer
  <2>4. /\ AskedAfter(0)' \subseteq AskedAfter(0) \cup {f}
        /\ BeingAnswered' = BeingAnswered /\ AnsweredAfter(i)' = AnsweredAfter(i)
    BY AskedBehind
  <2>5. S \subseteq InFlight \cup {f}
    BY <1>2, <2>2, <2>3, <2>4
  <2> QED
    BY <1>1, <2>1, <2>2, <2>5 DEF Repeats
<1>6. result'[1] = "none"
  BY DEF NoResult
<1>7. inbox' = inbox
  OBVIOUS
<1> QED
  BY <1>3, <1>4, <1>5, <1>6, <1>7 DEF LastWord, IsAnswer

LEMMA HashedPlays ==
    ASSUME Known, PlaysInv, NEW j \in Job, Hashed(j)
    PROVE  PlaysInv'
<1> USE DEF server
<1>0. SUFFICES ASSUME NothingFromUnmounted' PROVE FlightInv'
  BY DEF PlaysInv
<1>1. /\ stage[j] = "hashing" /\ j \notin live /\ j # NoJob
      /\ UNCHANGED <<chooser, current, content, fileUrl, fileVersion, saved, verdict,
                     inbox, accepted>>
      /\ result' \in {result, NoResult}
      /\ orphan' = IF socket THEN orphan ELSE orphan \ {j}
  BY HeldAreNotOrphans DEF Hashed, Known, UrlInv, HashingIsNotLive
<1>2. CASE j \in orphan /\ socket
  <2>1. j \in live' /\ j \in orphan'
    BY <1>1, <1>2 DEF Hashed
  <2> QED
    BY <1>0, <2>1 DEF NothingFromUnmounted
<1>3. CASE (j \in orphan /\ ~socket) \/ (j \notin orphan /\ j # current)
  <2>1. UNCHANGED <<status, pending, live, asked>>
    BY <1>3 DEF Hashed, IsLatest
  <2>2. NothingFromUnmounted
    BY <1>0, <1>1, <2>1 DEF NothingFromUnmounted
  <2>3. FlightInv
    BY <2>2 DEF PlaysInv
  <2>4. Calm
    BY <1>1, <2>1 DEF Calm
  <2> QED
    BY <1>1, <2>1, <2>3, <2>4, CalmStep DEF Busy, ChooserIsOpen
<1>4. CASE j \notin orphan /\ j = current
  <2>1. status = "hashing" /\ fileUrl = NoJob /\ Busy
    BY <1>1, <1>4, HeldAreNotOrphans
       DEF Known, UrlInv, CurrentHashes, GoneIsIdle, Busy
  <2>2. /\ result' = NoResult
        /\ \/ /\ socket /\ asked' = Append(asked, content[j])
              /\ live' = live \cup {j} /\ status' = "verifying" /\ pending' = j
           \/ ~socket /\ status' = "idle" /\ UNCHANGED <<asked, live, pending>>
    BY <1>4 DEF Hashed, IsLatest
  <2>3. NothingFromUnmounted
    BY <1>0, <1>1, <1>4, <2>2 DEF NothingFromUnmounted
  <2>4. FlightInv
    BY <2>3 DEF PlaysInv
  <2>5. CASE ~socket
    <3>1. Calm /\ status' = "idle"
      BY <1>1, <2>2, <2>5 DEF Calm
    <3> QED
      BY <1>1, <2>1, <2>4, <3>1, CalmStep DEF Busy
  <2>6. CASE socket
    <3>1. /\ asked' = Append(asked, content[j]) /\ status' = "verifying"
          /\ pending' = j
      BY <2>2, <2>6
    <3>2. \A g \in InFlight : Repeats(g, InFlight)
      BY <2>1, <2>4 DEF FlightInv, LeftOvers
    <3>3. PICK f : f = content[j]
      OBVIOUS
    <3>4. LastWord(f)'
      BY <1>1, <2>2, <3>1, <3>2, <3>3, JoinedLastWord DEF Known
    <3>5. VerifiesLast'
      <4>1. content'[pending'] = f
        BY <1>1, <3>1, <3>3
      <4> QED
        BY <3>4, <4>1 DEF VerifiesLast, LastWord, Repeats, OnlyKept
    <3>6. RestoreUnderChooser'
      <4>1. SUFFICES ASSUME ChooserIsOpen'
                     PROVE  /\ InFlight' \subseteq {content'[current']}
                            /\ OnlyKept(content[current])'
        BY DEF RestoreUnderChooser
      <4>2. ChooserIsOpen
        BY <1>1, <4>1 DEF ChooserIsOpen
      <4>3. InFlight \subseteq {f} /\ OnlyKept(f)
        BY <1>4, <2>1, <2>4, <3>3, <4>2 DEF FlightInv, RestoreUnderChooser
      <4>4. OnlyKept(f)'
        BY <1>1, <4>3, CalmKept
      <4>5. InFlight' \subseteq InFlight \cup {f}
        BY <1>1, <3>1, <3>3, AskedBehind DEF Known
      <4>6. content'[current'] = f
        BY <1>1, <1>4, <3>3
      <4> QED
        BY <4>3, <4>4, <4>5, <4>6 DEF OnlyKept
    <3> QED
      BY <1>1, <2>1, <3>1, <3>5, <3>6 DEF FlightInv, LeftOvers, LoadedStays
  <2> QED
    BY <2>5, <2>6
<1> QED
  BY <1>2, <1>3, <1>4

--------------------------------------------------------------------------
(* Answers *)

\* What was accepted is remembered, and nothing else can be restored if it
\* repeats what was restored before.
LEMMA RecordedIsKept ==
    ASSUME Known, NEW o \in Store, NEW f, NEW v, <<f, v>> \in accepted,
           saved' = [saved EXCEPT ![o] = <<v, f>>], OnlyKept(f)
    PROVE  OnlyKept(f)'
<1>1. SUFFICES ASSUME NEW s \in Store, Restorable(s)'
               PROVE  saved'[s][2] = f
  BY DEF OnlyKept
<1>2. saved'[o] = <<v, f>> /\ \A t \in Store \ {o} : saved'[t] = saved[t]
  BY DEF Known, TypeInv, JobsOK
<1>3. v > 0 /\ v \in Nat
  BY DEF Known, Ground, VersionIsOneFile
<1>4. CASE s = o
  BY <1>2, <1>4
<1>5. CASE s = "handle" /\ o = "blob"
  <2>1. Restorable(s) /\ saved'[s] = saved[s]
    BY <1>1, <1>2, <1>5 DEF Restorable
  <2> QED
    BY <2>1 DEF OnlyKept
<1>6. CASE s = "blob" /\ o = "handle"
  <2>1. saved[s][1] # 0 /\ saved'[s] = saved[s] /\ saved[s][1] = v
    BY <1>1, <1>2, <1>3, <1>6 DEF Restorable
  <2>2. <<saved[s][2], v>> \in accepted
    BY <2>1, RecordIsAFile DEF Known, Ground
  <2> QED
    BY <2>1, <2>2 DEF Known, Ground, VersionIsOneFile
<1> QED
  BY <1>4, <1>5, <1>6 DEF Store

LEMMA AppliedPlays ==
    ASSUME Known, PlaysInv, AnswerApplied
    PROVE  PlaysInv'
<1> USE DEF jobs, net, server
<1>0. SUFFICES ASSUME NothingFromUnmounted' PROVE FlightInv'
  BY DEF PlaysInv
<1>1. /\ fileUrl = NoJob /\ status = "verifying" /\ result[1] # "none"
      /\ result[2] = content[pending] /\ pending \in Job
      /\ UNCHANGED <<orphan, content, origin, fileVersion, asked, verdict, inbox,
                     accepted>>
  BY HeldAreNotOrphans
     DEF AnswerApplied, AnswerIsMine, Mounted, Known, TypeInv, SelectorOK
<1>2. status' \in {"idle", "mismatch"} /\ ~Busy'
  BY DEF AnswerApplied, Busy
<1>3. NothingFromUnmounted
  <2>1. live' \in {live, live \ {pending}}
    BY DEF AnswerApplied
  <2> QED
    BY <1>0, <1>1, <2>1, HeldAreNotOrphans DEF NothingFromUnmounted
<1>4. PICK f : f = content[pending]
  OBVIOUS
<1>5. Repeats(f, InFlight)
  BY <1>1, <1>3, <1>4 DEF PlaysInv, FlightInv, VerifiesLast, LastWord
<1>6. InFlight' = InFlight
  BY <1>1, CalmFlight
<1>7. ASSUME OnlyKept(f) => OnlyKept(f)' PROVE LeftOvers'
  BY <1>5, <1>6, <1>7 DEF LeftOvers, Repeats
<1>8. CASE result[1] = "match"
  <2>1. saved' = [saved EXCEPT ![origin[pending]] = <<result[3], f>>]
        /\ fileUrl' = pending
    BY <1>4, <1>8 DEF AnswerApplied, Record
  <2>2. PICK v : v = result[3]
    OBVIOUS
  <2>3. <<f, v>> \in accepted
    BY <1>1, <1>4, <1>8, <2>2 DEF Known, RememberInv, AnswersAreTrue, Says
  <2>4. PICK o \in Store : o = origin[pending]
    BY <1>1 DEF Known, TypeInv, JobsOK
  <2>5. OnlyKept(f) => OnlyKept(f)'
    BY <2>1, <2>2, <2>3, <2>4, RecordedIsKept
  <2>6. LoadedStays'
    <3>1. fileVersion = v
      BY <1>8, <2>2 DEF Known, Ground, MatchIsOfVersion
    <3>2. InFlight \subseteq {f}
      BY <1>5 DEF Repeats
    <3> QED
      BY <1>1, <1>4, <1>6, <2>1, <2>3, <3>1, <3>2 DEF LoadedStays
  <2> QED
    BY <1>2, <1>7, <2>5, <2>6 DEF FlightInv, RestoreUnderChooser, VerifiesLast
<1>9. CASE result[1] # "match"
  <2>1. Forgets /\ fileUrl' = NoJob
    BY <1>1, <1>9 DEF AnswerApplied
  <2> QED
    BY <1>2, <1>7, <2>1, ForgottenIsKept
       DEF FlightInv, RestoreUnderChooser, VerifiesLast, LoadedStays
<1> QED
  BY <1>8, <1>9
--------------------------------------------------------------------------
(* The way of a request *)

\* The pipeline moves on under a selector and a page that stay.
LEMMA PipelineStep ==
    ASSUME FlightInv, InFlight' \subseteq InFlight,
           \A f : LastWord(f) => LastWord(f)',
           UNCHANGED <<saved, status, chooser, current, pending, content>>,
           fileUrl' # NoJob =>
               fileUrl' = fileUrl /\ <<content[fileUrl], fileVersion'>> \in accepted'
    PROVE  FlightInv'
<1>1. \A f, S : Repeats(f, S) => Repeats(f, S)'
  BY CalmRepeats
<1>2. LeftOvers'
  <2>1. ASSUME status # "verifying", NEW f \in InFlight'
        PROVE  Repeats(f, InFlight)'
    <3>1. PICK S : S = InFlight
      OBVIOUS
    <3>2. Repeats(f, S)
      BY <2>1, <3>1 DEF FlightInv, LeftOvers
    <3> QED
      BY <1>1, <3>1, <3>2 DEF Repeats
  <2> QED
    BY <2>1 DEF LeftOvers
<1>3. RestoreUnderChooser'
  <2>1. SUFFICES ASSUME ChooserIsOpen', Busy'
                 PROVE  /\ InFlight' \subseteq {content'[current']}
                        /\ OnlyKept(content[current])'
    BY DEF RestoreUnderChooser
  <2>2. PICK f : f = content[current]
    OBVIOUS
  <2>3. InFlight \subseteq {f} /\ OnlyKept(f) /\ content'[current'] = f
    BY <2>1, <2>2 DEF FlightInv, RestoreUnderChooser, ChooserIsOpen, Busy
  <2>4. OnlyKept(f)'
    BY <2>3, CalmKept
  <2> QED
    BY <2>3, <2>4 DEF OnlyKept
<1>4. VerifiesLast'
  <2>1. SUFFICES ASSUME status' = "verifying"
                 PROVE  LastWord(content[pending])'
    BY DEF VerifiesLast
  <2>2. PICK f : f = content[pending]
    OBVIOUS
  <2>3. LastWord(f) /\ content'[pending'] = f
    BY <2>1, <2>2 DEF FlightInv, VerifiesLast
  <2>4. LastWord(f)'
    BY <2>3
  <2> QED
    BY <2>3, <2>4 DEF LastWord, Repeats, OnlyKept
<1>5. LoadedStays'
  BY DEF FlightInv, LoadedStays
<1> QED
  BY <1>2, <1>3, <1>4, <1>5 DEF FlightInv

LEMMA DisconnectPlays ==
    ASSUME Known, PlaysInv, Leave \/ Drop \/ Connect
    PROVE  PlaysInv'
<1> USE DEF selector, jobs, store, server
<1>0. SUFFICES ASSUME NothingFromUnmounted' PROVE FlightInv'
  BY DEF PlaysInv
<1>1. InFlight' = {}
  <2>1. asked' = <<>> /\ verdict' = NoResult
    BY DEF Leave, Drop, Connect, Known, Ground, SocketCarriesAll
  <2>2. inbox' = <<>> \/ inbox' = << <<"state", NoFile, refVersion>> >>
    BY DEF Leave, Drop, Connect
  <2>3. \A i \in 1..Len(inbox') : inbox'[i][1] \in {"state", "changed"}
    BY <2>2
  <2>4. AskedAfter(0)' = {} /\ BeingAnswered' = {}
    BY <2>1 DEF AskedAfter, BeingAnswered, NoResult
  <2>5. AnsweredAfter(0)' = {}
    BY <2>3 DEF AnsweredAfter, IsAnswer
  <2> QED
    BY <2>4, <2>5 DEF InFlight
<1>2. ASSUME NEW f PROVE LastWord(f)'
  <2>1. /\ \A i \in Nat : AskedAfter(i)' \subseteq AskedAfter(0)'
        /\ \A i \in Nat : AnsweredAfter(i)' \subseteq AnsweredAfter(0)'
    BY DEF AskedAfter, AnsweredAfter
  <2>2. /\ AskedAfter(0)' = {} /\ BeingAnswered' = {}
        /\ \A i \in Nat : AskedAfter(i)' = {} /\ AnsweredAfter(i)' = {}
    BY <1>1, <2>1 DEF InFlight
  <2> QED
    BY <1>1, <2>2 DEF LastWord, Repeats
<1>3. CASE Leave
  <2>1. status' = "idle" /\ fileUrl' = NoJob /\ chooser' = "none"
    BY <1>3 DEF Leave, SelectorReset
  <2> QED
    BY <1>1, <2>1
       DEF FlightInv, LeftOvers, RestoreUnderChooser, VerifiesLast, LoadedStays,
           ChooserIsOpen
<1>4. CASE Drop \/ Connect
  <2>1. UNCHANGED <<saved, status, chooser, current, pending, content, live, orphan,
                    fileUrl, fileVersion, accepted>>
    BY <1>4 DEF Drop, Connect
  <2>2. NothingFromUnmounted
    BY <1>0, <2>1 DEF NothingFromUnmounted
  <2>3. FlightInv
    BY <2>2 DEF PlaysInv
  <2>4. fileUrl' # NoJob => <<content[fileUrl], fileVersion'>> \in accepted'
    BY <2>1, <2>3 DEF FlightInv, LoadedStays
  <2>5. InFlight' \subseteq InFlight /\ \A f : LastWord(f) => LastWord(f)'
    BY <1>1, <1>2
  <2> QED
    BY <2>1, <2>3, <2>4, <2>5, PipelineStep
<1> QED
  BY <1>3, <1>4

\* The server takes the oldest request.
LEMMA VerifyPipeline ==
    ASSUME TypeInv, Verify
    PROVE  /\ InFlight' \subseteq InFlight
           /\ \A f : LastWord(f) => LastWord(f)'
<1> USE DEF store
<1>1. /\ asked \in Seq(AnyFile) /\ asked # <<>> /\ asked' = Tail(asked)
      /\ verdict = NoResult /\ UNCHANGED <<inbox, saved, result>>
  BY DEF Verify, TypeInv, NetOK
<1>2. /\ Len(asked) \in Nat \ {0} /\ Len(asked') = Len(asked) - 1
      /\ \A i \in 1..Len(asked') : asked'[i] = asked[i + 1] /\ i + 1 \in 1..Len(asked)
      /\ 1 \in 1..Len(asked) /\ Head(asked) = asked[1]
  BY <1>1
<1>3. \A i \in Nat : AskedAfter(i)' \subseteq AskedAfter(i + 1)
  <2>1. SUFFICES ASSUME NEW i \in Nat, NEW k \in (i + 1)..Len(asked')
                 PROVE  asked'[k] \in AskedAfter(i + 1)
    BY DEF AskedAfter
  <2>2. /\ k \in 1..Len(asked') /\ asked'[k] = asked[k + 1]
        /\ k + 1 \in (i + 1 + 1)..Len(asked)
    BY <1>2
  <2> QED
    BY <2>2 DEF AskedAfter
<1>4. BeingAnswered' \subseteq {asked[1]}
  <2>1. PICK f : f = Head(asked)
    OBVIOUS
  <2>2. verdict' = NoResult \/ verdict'[2] = f
    <3>1. CASE UNCHANGED <<verdict, server>>
      BY <1>1, <3>1
    <3>2. CASE verdict' = <<"match", f, refVersion'>>
      BY <3>2
    <3>3. CASE verdict' = IF refVersion = 0 THEN <<"no reference", f, 0>>
                          ELSE IF refFile = f THEN <<"match", f, refVersion>>
                          ELSE <<"mismatch", f, refVersion>>
      BY <3>3
    <3> QED
      BY <2>1, <3>1, <3>2, <3>3 DEF Verify
  <2> QED
    BY <1>2, <2>1, <2>2 DEF BeingAnswered
<1>5. asked[1] \in AskedAfter(0) /\ AskedAfter(1) \subseteq AskedAfter(0)
  BY <1>2, AskedFewer DEF AskedAfter
<1>6. AskedAfter(0)' \subseteq AskedAfter(1)
  BY <1>3
<1>7. \A i \in Nat : AnsweredAfter(i)' = AnsweredAfter(i)
  BY <1>1 DEF AnsweredAfter, IsAnswer
<1>8. InFlight' \subseteq InFlight
  BY <1>4, <1>5, <1>6, <1>7 DEF InFlight
<1>9. ASSUME NEW f, LastWord(f) PROVE LastWord(f)'
  <2>1. \A S, T : Repeats(f, S) /\ T \subseteq S => Repeats(f, T)'
    BY <1>1, RepeatsFewer, CalmRepeats
  <2>2. ASSUME NEW i \in 1..Len(asked'), asked'[i] = f
        PROVE  Repeats(f, AskedAfter(i))'
    <3>1. Repeats(f, AskedAfter(i + 1))
      BY <1>2, <1>9, <2>2 DEF LastWord
    <3>2. PICK T : T = AskedAfter(i)'
      OBVIOUS
    <3>3. T \subseteq AskedAfter(i + 1)
      BY <1>3, <3>2
    <3> QED
      BY <2>1, <3>1, <3>2, <3>3 DEF Repeats
  <2>3. ASSUME f \in BeingAnswered' PROVE Repeats(f, AskedAfter(0))'
    <3>1. Repeats(f, AskedAfter(1))
      BY <1>2, <1>4, <1>9, <2>3 DEF LastWord
    <3>2. PICK T : T = AskedAfter(0)'
      OBVIOUS
    <3> QED
      BY <1>6, <2>1, <3>1, <3>2 DEF Repeats
  <2>4. ASSUME NEW i \in 1..Len(inbox), IsAnswer(inbox[i]), inbox[i][2] = f
        PROVE  Repeats(f, AskedAfter(0) \cup BeingAnswered \cup AnsweredAfter(i))'
    <3>1. Repeats(f, AskedAfter(0) \cup BeingAnswered \cup AnsweredAfter(i))
      BY <1>9, <2>4 DEF LastWord
    <3>2. PICK T : T = (AskedAfter(0) \cup BeingAnswered \cup AnsweredAfter(i))'
      OBVIOUS
    <3>3. T \subseteq AskedAfter(0) \cup BeingAnswered \cup AnsweredAfter(i)
      BY <1>4, <1>5, <1>6, <1>7, <3>2
    <3> QED
      BY <2>1, <3>1, <3>2, <3>3 DEF Repeats
  <2>5. ASSUME result[1] # "none", result[2] = f PROVE Repeats(f, InFlight)'
    <3>1. Repeats(f, InFlight)
      BY <1>9, <2>5 DEF LastWord
    <3>2. PICK T : T = InFlight'
      OBVIOUS
    <3> QED
      BY <1>8, <2>1, <3>1, <3>2 DEF Repeats
  <2> QED
    BY <1>1, <2>2, <2>3, <2>4, <2>5 DEF LastWord, IsAnswer
<1> QED
  BY <1>8, <1>9

\* A message joins the inbox; an answer was being made.
LEMMA DeliveredPipeline ==
    ASSUME TypeInv, NEW m \in Message, inbox' = Append(inbox, m),
           UNCHANGED <<asked, saved, result>>,
           IF IsAnswer(m) THEN verdict = m /\ verdict # NoResult /\ verdict' = NoResult
                          ELSE UNCHANGED verdict
    PROVE  /\ InFlight' \subseteq InFlight
           /\ \A f : LastWord(f) => LastWord(f)'
<1> DEFINE new == IF IsAnswer(m) THEN {m[2]} ELSE {}
<1>1. /\ Len(inbox) \in Nat /\ Len(inbox') = Len(inbox) + 1
      /\ \A i \in 1..Len(inbox) : inbox'[i] = inbox[i]
      /\ inbox'[Len(inbox) + 1] = m
  BY DEF TypeInv, NetOK
<1>2. \A i \in Nat : AskedAfter(i)' = AskedAfter(i)
  BY DEF AskedAfter
<1>3. BeingAnswered' \cup new = BeingAnswered
  BY DEF BeingAnswered
<1>4. \A i \in Nat : AnsweredAfter(i)' \subseteq AnsweredAfter(i) \cup new
  <2>1. SUFFICES ASSUME NEW i \in Nat, NEW k \in (i + 1)..Len(inbox'),
                        IsAnswer(inbox'[k])
                 PROVE  inbox'[k][2] \in AnsweredAfter(i) \cup new
    BY DEF AnsweredAfter, IsAnswer
  <2>2. CASE k = Len(inbox) + 1
    BY <1>1, <2>1, <2>2
  <2>3. CASE k # Len(inbox) + 1
    <3>1. k \in (i + 1)..Len(inbox) /\ k \in 1..Len(inbox)
      BY <1>1, <2>3
    <3> QED
      BY <1>1, <2>1, <3>1 DEF AnsweredAfter
  <2> QED
    BY <2>2, <2>3
<1>5. \A i \in Nat : i = Len(inbox) + 1 => AnsweredAfter(i)' = {}
  BY <1>1 DEF AnsweredAfter
<1> HIDE DEF new
<1>6. InFlight' \subseteq InFlight
  BY <1>2, <1>3, <1>4 DEF InFlight
<1>7. ASSUME NEW f, LastWord(f) PROVE LastWord(f)'
  <2>1. \A S, T : Repeats(f, S) /\ T \subseteq S => Repeats(f, T)'
    BY RepeatsFewer, CalmRepeats
  <2>2. ASSUME NEW i \in 1..Len(asked), asked[i] = f
        PROVE  Repeats(f, AskedAfter(i))'
    <3>1. Repeats(f, AskedAfter(i)) /\ AskedAfter(i)' = AskedAfter(i)
      BY <1>2, <1>7, <2>2 DEF LastWord
    <3>2. PICK T : T = AskedAfter(i)
      OBVIOUS
    <3> QED
      BY <2>1, <3>1, <3>2 DEF Repeats
  <2>3. ASSUME f \in BeingAnswered PROVE Repeats(f, AskedAfter(0))'
    <3>1. Repeats(f, AskedAfter(0)) /\ AskedAfter(0)' = AskedAfter(0)
      BY <1>2, <1>7, <2>3 DEF LastWord
    <3>2. PICK T : T = AskedAfter(0)
      OBVIOUS
    <3> QED
      BY <2>1, <3>1, <3>2 DEF Repeats
  <2>4. BeingAnswered' \subseteq BeingAnswered
    BY <1>3
  <2>5. ASSUME NEW i \in 1..Len(inbox'), IsAnswer(inbox'[i]), inbox'[i][2] = f
        PROVE  Repeats(f, AskedAfter(0) \cup BeingAnswered \cup AnsweredAfter(i))'
    <3>1. PICK T : T = (AskedAfter(0) \cup BeingAnswered \cup AnsweredAfter(i))'
      OBVIOUS
    <3>2. CASE i = Len(inbox) + 1
      <4>1. f \in BeingAnswered /\ BeingAnswered' = {}
        BY <1>1, <2>5, <3>2 DEF BeingAnswered
      <4>2. T = AskedAfter(0)'
        BY <1>5, <3>1, <3>2, <4>1
      <4> QED
        BY <2>3, <3>1, <4>1, <4>2 DEF Repeats
    <3>3. CASE i # Len(inbox) + 1
      <4>1. i \in 1..Len(inbox) /\ inbox'[i] = inbox[i]
        BY <1>1, <3>3
      <4>2. Repeats(f, AskedAfter(0) \cup BeingAnswered \cup AnsweredAfter(i))
        BY <1>7, <2>5, <4>1 DEF LastWord
      <4>3. T \subseteq AskedAfter(0) \cup BeingAnswered \cup AnsweredAfter(i)
        BY <1>2, <1>3, <1>4, <3>1
      <4>4. Repeats(f, T)'
        BY <2>1, <4>2, <4>3
      <4> QED
        BY <3>1, <4>4 DEF Repeats
    <3> QED
      BY <3>2, <3>3
  <2>6. ASSUME result[1] # "none", result[2] = f PROVE Repeats(f, InFlight)'
    <3>1. Repeats(f, InFlight)
      BY <1>7, <2>6 DEF LastWord
    <3>2. PICK T : T = InFlight'
      OBVIOUS
    <3> QED
      BY <1>6, <2>1, <3>1, <3>2 DEF Repeats
  <2> QED
    BY <2>2, <2>3, <2>4, <2>5, <2>6 DEF LastWord, IsAnswer
<1> QED
  BY <1>6, <1>7

LEMMA ServerPlays ==
    ASSUME Known, PlaysInv, Verify \/ Answer \/ (\E f \in File : HostSets(f))
    PROVE  PlaysInv'
<1> USE DEF selector, jobs, store
<1>0. SUFFICES ASSUME NothingFromUnmounted' PROVE FlightInv'
  BY DEF PlaysInv
<1>1. /\ UNCHANGED <<saved, status, chooser, current, pending, content, live,
                     orphan, fileUrl, fileVersion, result>>
      /\ accepted \subseteq accepted'
  BY DEF Verify, Answer, HostSets, server
<1>2. NothingFromUnmounted
  BY <1>0, <1>1 DEF NothingFromUnmounted
<1>3. FlightInv
  BY <1>2 DEF PlaysInv
<1>4. fileUrl' # NoJob => <<content[fileUrl], fileVersion'>> \in accepted'
  BY <1>1, <1>3 DEF FlightInv, LoadedStays
<1>5. InFlight' \subseteq InFlight /\ \A f : LastWord(f) => LastWord(f)'
  <2>1. CASE Verify
    BY <2>1, VerifyPipeline DEF Known
  <2>2. CASE Answer
    <3>1. /\ verdict # NoResult /\ verdict' = NoResult
          /\ inbox' = Append(inbox, verdict) /\ UNCHANGED asked
      BY <2>2 DEF Answer
    <3>2. PICK m : m = verdict
      OBVIOUS
    <3>3. m \in Message /\ IsAnswer(m)
      BY <3>2 DEF Known, TypeInv, NetOK, Result, Message, AnyFile, Version, IsAnswer
    <3> QED
      BY <1>1, <3>1, <3>2, <3>3, DeliveredPipeline DEF Known
  <2>3. ASSUME NEW f \in File, HostSets(f)
        PROVE  InFlight' \subseteq InFlight /\ \A g : LastWord(g) => LastWord(g)'
    <3>1. PICK m : m = <<"changed", NoFile, refVersion'>>
      OBVIOUS
    <3>2. refVersion' \in Version
      <4>1. refVersion \in Version /\ MaxVersion \in Nat
        BY FileAssumption DEF Known, TypeInv, NetOK
      <4> QED
        BY <2>3, <4>1 DEF HostSets, Version
    <3>3. m \in Message /\ ~IsAnswer(m)
      BY <3>1, <3>2 DEF Message, AnyFile, IsAnswer
    <3>4. UNCHANGED <<asked, verdict>>
      BY <2>3 DEF HostSets
    <3>5. CASE inbox' = Append(inbox, m)
      BY <1>1, <3>3, <3>4, <3>5, DeliveredPipeline DEF Known
    <3>6. CASE UNCHANGED inbox
      <4>1. Calm
        BY <1>1, <3>4, <3>6 DEF Calm
      <4> QED
        BY <4>1, CalmFlight, CalmLastWord DEF Calm
    <3> QED
      BY <2>3, <3>1, <3>5, <3>6 DEF HostSets
  <2> QED
    BY <2>1, <2>2, <2>3
<1> QED
  BY <1>1, <1>3, <1>4, <1>5, PipelineStep

\* The client takes the oldest message.
LEMMA ReceivedPipeline ==
    ASSUME TypeInv, NEW m, inbox # <<>>, m = inbox[1], inbox' = Tail(inbox),
           UNCHANGED <<asked, verdict, saved>>,
           \/ IsAnswer(m) /\ result' = m
           \/ result' \in {result, NoResult}
    PROVE  /\ InFlight' \subseteq InFlight
           /\ \A f : LastWord(f) => LastWord(f)'
<1>1. /\ Len(inbox) \in Nat \ {0} /\ Len(inbox') = Len(inbox) - 1
      /\ \A i \in 1..Len(inbox') : inbox'[i] = inbox[i + 1] /\ i + 1 \in 1..Len(inbox)
      /\ 1 \in 1..Len(inbox)
  BY DEF TypeInv, NetOK
<1>2. \A i \in Nat : AskedAfter(i)' = AskedAfter(i)
  BY DEF AskedAfter
<1>3. BeingAnswered' = BeingAnswered
  BY DEF BeingAnswered
<1>4. \A i \in Nat : AnsweredAfter(i)' \subseteq AnsweredAfter(i + 1)
  <2>1. SUFFICES ASSUME NEW i \in Nat, NEW k \in (i + 1)..Len(inbox'),
                        IsAnswer(inbox'[k])
                 PROVE  inbox'[k][2] \in AnsweredAfter(i + 1)
    BY DEF AnsweredAfter, IsAnswer
  <2>2. /\ k \in 1..Len(inbox') /\ inbox'[k] = inbox[k + 1]
        /\ k + 1 \in (i + 1 + 1)..Len(inbox)
    BY <1>1
  <2>3. IsAnswer(inbox[k + 1])
    BY <2>1, <2>2
  <2> QED
    BY <2>2, <2>3 DEF AnsweredAfter
<1>5. AnsweredAfter(0)' \subseteq AnsweredAfter(1)
  BY <1>4
<1>6. InFlight' \subseteq AskedAfter(0) \cup BeingAnswered \cup AnsweredAfter(1)
  BY <1>2, <1>3, <1>5 DEF InFlight
<1>7. InFlight' \subseteq InFlight
  BY <1>6, AnsweredFewer DEF InFlight
<1>8. ASSUME NEW f, LastWord(f) PROVE LastWord(f)'
  <2>1. \A S, T : Repeats(f, S) /\ T \subseteq S => Repeats(f, T)'
    BY RepeatsFewer, CalmRepeats
  <2>2. ASSUME NEW i \in 1..Len(asked), asked[i] = f
        PROVE  Repeats(f, AskedAfter(i))'
    <3>1. Repeats(f, AskedAfter(i)) /\ AskedAfter(i)' = AskedAfter(i)
      BY <1>2, <1>8, <2>2 DEF LastWord
    <3>2. PICK T : T = AskedAfter(i)
      OBVIOUS
    <3> QED
      BY <2>1, <3>1, <3>2 DEF Repeats
  <2>3. ASSUME f \in BeingAnswered PROVE Repeats(f, AskedAfter(0))'
    <3>1. Repeats(f, AskedAfter(0)) /\ AskedAfter(0)' = AskedAfter(0)
      BY <1>2, <1>8, <2>3 DEF LastWord
    <3>2. PICK T : T = AskedAfter(0)
      OBVIOUS
    <3> QED
      BY <2>1, <3>1, <3>2 DEF Repeats
  <2>4. ASSUME NEW i \in 1..Len(inbox'), IsAnswer(inbox'[i]), inbox'[i][2] = f
        PROVE  Repeats(f, AskedAfter(0) \cup BeingAnswered \cup AnsweredAfter(i))'
    <3>1. IsAnswer(inbox[i + 1]) /\ inbox[i + 1][2] = f /\ i + 1 \in 1..Len(inbox)
      BY <1>1, <2>4
    <3>2. Repeats(f, AskedAfter(0) \cup BeingAnswered \cup AnsweredAfter(i + 1))
      BY <1>8, <3>1 DEF LastWord
    <3>3. PICK T : T = (AskedAfter(0) \cup BeingAnswered \cup AnsweredAfter(i))'
      OBVIOUS
    <3>4. T \subseteq AskedAfter(0) \cup BeingAnswered \cup AnsweredAfter(i + 1)
      BY <1>2, <1>3, <1>4, <3>3
    <3>5. Repeats(f, T)'
      BY <2>1, <3>2, <3>4
    <3> QED
      BY <3>3, <3>5 DEF Repeats
  <2>5. ASSUME result'[1] # "none", result'[2] = f PROVE Repeats(f, InFlight)'
    <3>1. PICK T : T = InFlight'
      OBVIOUS
    <3>2. CASE result' = result
      <4>1. Repeats(f, InFlight)
        BY <1>8, <2>5, <3>2 DEF LastWord
      <4>2. Repeats(f, T)'
        BY <1>7, <2>1, <3>1, <4>1
      <4> QED
        BY <3>1, <4>2 DEF Repeats
    <3>3. CASE IsAnswer(m) /\ result' = m
      <4>1. Repeats(f, AskedAfter(0) \cup BeingAnswered \cup AnsweredAfter(1))
        BY <1>1, <1>8, <2>5, <3>3 DEF LastWord
      <4>2. Repeats(f, T)'
        BY <1>6, <2>1, <3>1, <4>1
      <4> QED
        BY <3>1, <4>2 DEF Repeats
    <3>4. result' # NoResult
      BY <2>5 DEF NoResult
    <3> QED
      BY <3>2, <3>3, <3>4
  <2>6. \A i \in 1..Len(asked) : asked'[i] = asked[i]
    OBVIOUS
  <2> QED
    BY <1>3, <2>2, <2>3, <2>4, <2>5, <2>6 DEF LastWord, IsAnswer
<1> QED
  BY <1>7, <1>8

LEMMA ReceivePlays ==
    ASSUME Known, PlaysInv, Receive
    PROVE  PlaysInv'
<1> USE DEF selector, jobs, store, server
<1>0. SUFFICES ASSUME NothingFromUnmounted' PROVE FlightInv'
  BY DEF PlaysInv
<1>1. PICK m : m = Head(inbox)
  OBVIOUS
<1>2. /\ inbox # <<>> /\ inbox' = Tail(inbox)
      /\ UNCHANGED <<saved, status, chooser, current, pending, content, orphan,
                     asked, verdict, accepted>>
  BY DEF Receive
<1>3. /\ m \in Message /\ m = inbox[1] /\ 1 \in 1..Len(inbox)
  BY <1>1, <1>2 DEF Known, TypeInv, NetOK
<1>4. \/ IsAnswer(m) /\ result' = m
      \/ result' \in {result, NoResult}
  BY <1>1 DEF Receive, IsAnswer
<1>5. \/ UNCHANGED <<live, fileUrl>>
      \/ live' = live \ {fileUrl} /\ fileUrl' = NoJob
  BY DEF Receive, VersionMoved
<1>6. NothingFromUnmounted
  BY <1>0, <1>2, <1>5, HeldAreNotOrphans DEF NothingFromUnmounted
<1>7. FlightInv
  BY <1>6 DEF PlaysInv
<1>8. InFlight' \subseteq InFlight /\ \A f : LastWord(f) => LastWord(f)'
  BY <1>2, <1>3, <1>4, ReceivedPipeline DEF Known
<1>9. ASSUME fileUrl' # NoJob
      PROVE  fileUrl' = fileUrl /\ <<content[fileUrl], fileVersion'>> \in accepted'
  <2>1. /\ fileUrl' = fileUrl /\ InFlight \subseteq {content[fileUrl]}
        /\ <<content[fileUrl], fileVersion>> \in accepted
    BY <1>5, <1>7, <1>9 DEF FlightInv, LoadedStays
  <2>2. fileVersion > 0
    BY <2>1 DEF Known, Ground, VersionIsOneFile
  <2>3. CASE UNCHANGED fileVersion
    BY <1>2, <2>1, <2>3
  <2>4. CASE /\ m[1] \notin {"state", "changed"}
             /\ fileVersion' = IF m[1] = "match" THEN m[3] ELSE fileVersion
    <3>1. CASE m[1] = "match"
      <4>1. m[2] \in AnsweredAfter(0)
        BY <1>3, <2>4 DEF AnsweredAfter, IsAnswer
      <4>2. m[2] = content[fileUrl]
        BY <2>1, <4>1 DEF InFlight
      <4>3. <<m[2], m[3]>> \in accepted
        BY <1>3, <3>1 DEF Known, RememberInv, AnswersAreTrue, Says
      <4> QED
        BY <1>2, <2>1, <2>4, <3>1, <4>2, <4>3
    <3> QED
      BY <1>2, <2>1, <2>4, <3>1
  <2>5. CASE /\ fileVersion' = m[3]
             /\ IF fileVersion > 0 /\ m[3] # fileVersion
                THEN fileUrl' = NoJob ELSE UNCHANGED fileUrl
    <3>1. m[3] = fileVersion
      BY <1>9, <2>2, <2>5
    <3> QED
      BY <2>1, <1>2, <2>5, <3>1
  <2> QED
    BY <1>1, <1>9, <2>3, <2>4, <2>5 DEF Receive, VersionMoved
<1> QED
  BY <1>2, <1>7, <1>8, <1>9, PipelineStep

--------------------------------------------------------------------------
(* Together *)

LEMMA InitPlaysInv == Init => PlaysInv
<1> SUFFICES ASSUME Init PROVE FlightInv
  BY DEF PlaysInv
<1>1. asked = <<>> /\ verdict = NoResult /\ inbox = <<>>
  BY DEF Init
<1>2. InFlight = {}
  BY <1>1, NothingInFlight
<1>3. status = "idle" /\ fileUrl = NoJob /\ ~Busy
  BY DEF Init, Busy
<1> QED
  BY <1>2, <1>3 DEF FlightInv, LeftOvers, RestoreUnderChooser, VerifiesLast, LoadedStays

LEMMA NextPlaysInv == Known /\ PlaysInv /\ [Next]_vars => PlaysInv'
  BY CalmActions, PickPlays, RestorePlays, HashedPlays, AppliedPlays,
     DisconnectPlays, ServerPlays, ReceivePlays DEF Next

\* What plays was accepted by the server for the version this client
\* announces: however picks, restores, late answers, changes of the file and
\* lost connections follow one another, no answer to an earlier run moves the
\* version under the file of a later one (the verify effect of FileSelector,
\* file_verify_result and file_changed in useRoomWsHandler).
THEOREM WhatPlaysWasAccepted == Spec => []LoadedWasAccepted
<1>1. Known /\ PlaysInv => LoadedWasAccepted
  BY DEF PlaysInv, NothingFromUnmounted, FlightInv, LoadedStays, LoadedWasAccepted
<1>2. Spec => []RememberInv
  BY TypesHold, InitRememberInv, NextRememberInv, PTL DEF Spec
<1>3. Known <=> TypeInv /\ UrlInv /\ RememberInv /\ Ground
  BY DEF Known
<1> QED
  BY <1>1, <1>2, <1>3, TypesHold, UrlInvHolds, GroundHolds, InitPlaysInv, NextPlaysInv,
     PTL DEF Spec
=============================================================================
