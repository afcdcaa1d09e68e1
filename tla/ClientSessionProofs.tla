-------------------------- MODULE ClientSessionProofs --------------------------
(***************************************************************************)
(* Proofs about ClientSession for any number of tabs, of API requests and  *)
(* of token pairs: its types, that a page presents a refresh token once,   *)
(* that who waits has a refresh under way, that no spinner outlives its    *)
(* request, and that who is signed out is asked to sign in.                *)
(***************************************************************************)
EXTENDS ClientSession, TLAPS

--------------------------------------------------------------------------
(* Types *)

\* What the pages show.
PageOK ==
    /\ user \in [Tab -> BOOLEAN] /\ loading \in [Tab -> BOOLEAN]
    /\ modal \in [Tab -> BOOLEAN] /\ guarded \in [Tab -> BOOLEAN]
    /\ form \in [Tab -> {"idle", "login", "me"}]
    /\ dead \in [Tab -> BOOLEAN]

\* Tokens, refreshes and requests.
TokensOK ==
    /\ stored \in 0..issued /\ issued \in 0..MaxPair
    /\ spent \subseteq 1..issued /\ expired \subseteq 1..issued
    /\ asked \in [Tab -> {"no", "sent", "served"}]
    /\ asking \in [Tab -> 0..issued] /\ answer \in [Tab -> 0..issued]
    /\ req \in [Tab -> [Request -> Stage]]
    /\ bearer \in [Tab -> [Request -> 0..issued]]
    /\ presented \in [Tab -> [Pair -> Nat]]
    /\ \A t \in Tab : asked[t] # "no" => asking[t] # 0

\* A refresh is asked with a token: without that a step could spend none.
TypeInv == PageOK /\ TokensOK

LEMMA TypeParts == TypeInv <=> PageOK /\ TokensOK
  BY DEF TypeInv

LEMMA TypeInvTypes == TypeInv => TypeOK
  BY DEF TypeInv, TypeOK, PageOK, TokensOK

LEMMA InitTypeInv == Init => TypeInv
<1> SUFFICES ASSUME Init PROVE TypeInv
  OBVIOUS
<1>1. PageOK
  BY DEF Init, PageOK
<1>2. TokensOK
  BY SessionAssumption DEF Init, TokensOK, NoPair, Stage, Pair
<1> QED
  BY <1>1, <1>2, TypeParts

\* A tab that shows a user and a spinner or not.
LEMMA ShowsTypes ==
    ASSUME PageOK, NEW t \in Tab, NEW u \in BOOLEAN, NEW l \in BOOLEAN, Shows(t, u, l)
    PROVE  /\ user' \in [Tab -> BOOLEAN] /\ loading' \in [Tab -> BOOLEAN]
           /\ modal' \in [Tab -> BOOLEAN]
  BY DEF PageOK, Shows, AsksToSignIn

LEMMA FormAfterTypes ==
    ASSUME PageOK, NEW t \in Tab, NEW R, FormAfter(t, R)
    PROVE  form' \in [Tab -> {"idle", "login", "me"}]
  BY DEF PageOK, FormAfter

\* Requests that move keep their types.
LEMMA MovesTypes ==
    ASSUME TokensOK, NEW t \in Tab, NEW R \in SUBSET Request, NEW s \in Stage,
           issued' \in 0..MaxPair, issued <= issued', NEW p \in 0..issued', Moves(t, R, s, p)
    PROVE  req' \in [Tab -> [Request -> Stage]] /\ bearer' \in [Tab -> [Request -> 0..issued']]
<1>1. 0..issued \subseteq 0..issued'
  BY DEF TokensOK
<1> QED
  BY <1>1, SessionAssumption DEF TokensOK, Moves

LEMMA RejectsTypes ==
    ASSUME TypeInv, NEW t \in Tab, NEW R \in SUBSET Request, NEW u \in BOOLEAN,
           NEW p \in 0..issued, Rejects(t, R, u, p), UNCHANGED issued
    PROVE  /\ user' \in [Tab -> BOOLEAN] /\ loading' \in [Tab -> BOOLEAN]
           /\ modal' \in [Tab -> BOOLEAN]
           /\ form' \in [Tab -> {"idle", "login", "me"}]
           /\ stored' \in 0..issued
           /\ req' \in [Tab -> [Request -> Stage]]
           /\ bearer' \in [Tab -> [Request -> 0..issued]]
<1> USE TypeParts
<1>1. (loading[t] /\ BootMe \notin R) \in BOOLEAN
  OBVIOUS
<1>2. Shows(t, u, loading[t] /\ BootMe \notin R)
  BY DEF Rejects
<1>3. /\ user' \in [Tab -> BOOLEAN] /\ loading' \in [Tab -> BOOLEAN]
      /\ modal' \in [Tab -> BOOLEAN]
  BY <1>1, <1>2, ShowsTypes
<1>4. form' \in [Tab -> {"idle", "login", "me"}]
  BY FormAfterTypes DEF Rejects
<1>5. stored' \in 0..issued
  BY DEF Rejects, NoPair, TokensOK
<1>6. req' \in [Tab -> [Request -> Stage]] /\ bearer' \in [Tab -> [Request -> 0..issued]]
  <2>1. Moves(t, R, "none", 0)
    BY DEF Rejects, NoPair
  <2>2. issued' \in 0..MaxPair /\ issued <= issued' /\ 0 \in 0..issued' /\ "none" \in Stage
    BY SessionAssumption DEF TokensOK, Stage
  <2> QED
    BY <2>1, <2>2, MovesTypes
<1> QED
  BY <1>3, <1>4, <1>5, <1>6

\* Every step leaves the pages well typed.
LEMMA NextPageOK == TypeInv /\ [Next]_vars => PageOK'
<1> SUFFICES ASSUME TypeInv, [Next]_vars PROVE PageOK'
  OBVIOUS
<1> USE TypeParts, SessionAssumption DEF PageOK, calls
<1>1. ASSUME NEW t \in Tab, NEW c \in Call, CallApi(t, c) PROVE PageOK'
  BY <1>1 DEF CallApi
<1>2. ASSUME NEW t \in Tab, Navigate(t) PROVE PageOK'
  BY <1>2 DEF Navigate
<1>3. ASSUME NEW t \in Tab, ToggleModal(t) PROVE PageOK'
  BY <1>3 DEF ToggleModal
<1>4. ASSUME NEW t \in Tab, Submit(t) \/ LoginGranted(t) \/ LoginRefused(t) PROVE PageOK'
  BY <1>4 DEF Submit, LoginGranted, LoginRefused
<1>5. ASSUME NEW t \in Tab, Logout(t) PROVE PageOK'
  BY <1>5 DEF Logout
<1>6. ASSUME NEW t \in Tab, Reload(t) PROVE PageOK'
  <2>1. (stored # NoPair) \in BOOLEAN /\ (guarded[t] /\ stored = NoPair) \in BOOLEAN
    OBVIOUS
  <2> QED
    BY <1>6, <2>1 DEF Reload
<1>7. ASSUME NEW t \in Tab, NEW r \in Request, Accepted(t, r) PROVE PageOK'
  <2>1. (user[t] \/ r \in {BootMe, LoginMe}) \in BOOLEAN /\ (loading[t] /\ r # BootMe) \in BOOLEAN
    OBVIOUS
  <2>2. /\ user' \in [Tab -> BOOLEAN] /\ loading' \in [Tab -> BOOLEAN]
        /\ modal' \in [Tab -> BOOLEAN]
    BY <1>7, <2>1, ShowsTypes DEF Accepted
  <2>3. form' \in [Tab -> {"idle", "login", "me"}]
    BY <1>7, FormAfterTypes DEF Accepted
  <2> QED
    BY <1>7, <2>2, <2>3 DEF Accepted
<1>8. ASSUME NEW t \in Tab, NEW R \in SUBSET Request, NEW u \in BOOLEAN, NEW p \in 0..issued,
             Rejects(t, R, u, p), UNCHANGED <<issued, guarded>>, dead' \in [Tab -> BOOLEAN]
      PROVE  PageOK'
  BY <1>8, RejectsTypes
<1>9. stored \in 0..issued /\ 0 \in 0..issued
  BY DEF TokensOK
<1>10. ASSUME NEW t \in Tab, NEW r \in Request, Failed(t, r) PROVE PageOK'
  <2>1. PICK u \in BOOLEAN, p \in 0..issued : u = user[t] /\ p = stored
    BY <1>9
  <2>2. Rejects(t, {r}, u, p)
    BY <1>10, <2>1 DEF Failed
  <2> QED
    BY <1>10, <2>2, <1>8 DEF Failed, server
<1>11. ASSUME NEW t \in Tab, NEW r \in Request, Unauthorized(t, r) PROVE PageOK'
  <2> USE <1>9 DEF server
  <2>1. CASE Rejects(t, {r}, user[t], stored) /\ UNCHANGED dead
    <3>1. PICK u \in BOOLEAN, p \in 0..issued : u = user[t] /\ p = stored
      BY <1>9
    <3>2. Rejects(t, {r}, u, p)
      BY <2>1, <3>1
    <3> QED
      BY <1>11, <2>1, <3>2, <1>8 DEF Unauthorized
  <2>2. CASE Rejects(t, {r}, FALSE, NoPair) /\ dead' = [dead EXCEPT ![t] = TRUE]
    BY <1>11, <2>2, <1>8 DEF Unauthorized, NoPair
  <2>3. CASE UNCHANGED <<user, loading, modal, form, dead>>
    BY <1>11, <2>3 DEF Unauthorized
  <2> QED
    BY <1>11, <2>1, <2>2, <2>3 DEF Unauthorized
<1>12. ASSUME NEW t \in Tab, RefreshServed(t) \/ Refreshed(t) PROVE PageOK'
  BY <1>12 DEF RefreshServed, Refreshed
<1>13. ASSUME NEW t \in Tab, RefreshFailed(t) PROVE PageOK'
  BY <1>13, <1>8, <1>9 DEF RefreshFailed, AfterLogout, NoPair, Waiting, server
<1>14. ASSUME NEW p \in Pair, Expire(p) PROVE PageOK'
  BY <1>14 DEF Expire
<1>15. CASE UNCHANGED vars
  BY <1>15 DEF vars
<1> QED
  BY <1>1, <1>2, <1>3, <1>4, <1>5, <1>6, <1>7, <1>10, <1>11, <1>12, <1>13, <1>14, <1>15
     DEF Next

LEMMA CountedType ==
    ASSUME NEW T, NEW P, NEW f \in [T -> [P -> Nat]], NEW t \in T, NEW p \in P
    PROVE  [f EXCEPT ![t][p] = @ + 1] \in [T -> [P -> Nat]]
<1>1. f[t] \in [P -> Nat] /\ f[t][p] + 1 \in Nat
  OBVIOUS
<1>2. [f[t] EXCEPT ![p] = @ + 1] \in [P -> Nat]
  BY <1>1
<1> QED
  BY <1>2

\* Every step leaves tokens, refreshes and requests well typed.
LEMMA NextTokensOK == TypeInv /\ [Next]_vars => TokensOK'
<1> SUFFICES ASSUME TypeInv, [Next]_vars PROVE TokensOK'
  OBVIOUS
<1> USE TypeParts, SessionAssumption DEF NoPair, Pair, Stage, server, refresh, calls
<1>1. ASSUME NEW t \in Tab, NEW c \in Call, CallApi(t, c) PROVE TokensOK'
  <2>1. c \in Request /\ stored \in 0..issued /\ issued <= issued
    BY DEF Request, TokensOK
  <2>2. req' \in [Tab -> [Request -> Stage]] /\ bearer' \in [Tab -> [Request -> 0..issued']]
    BY <1>1, <2>1, MovesTypes DEF CallApi, TokensOK
  <2> QED
    BY <1>1, <2>2 DEF CallApi, TokensOK
<1>2. ASSUME NEW t \in Tab,
             Navigate(t) \/ ToggleModal(t) \/ Submit(t) \/ LoginRefused(t)
      PROVE  TokensOK'
  BY <1>2 DEF Navigate, ToggleModal, Submit, LoginRefused, TokensOK
<1>3. ASSUME NEW t \in Tab, LoginGranted(t) PROVE TokensOK'
  <2>1. issued' \in 0..MaxPair /\ issued <= issued' /\ stored' \in 0..issued'
    BY <1>3 DEF LoginGranted, TokensOK
  <2>2. LoginMe \in Request
    BY DEF Request
  <2>3. req' \in [Tab -> [Request -> Stage]] /\ bearer' \in [Tab -> [Request -> 0..issued']]
    BY <1>3, <2>1, <2>2, MovesTypes DEF LoginGranted, Sends
  <2>4. 0..issued \subseteq 0..issued' /\ 1..issued \subseteq 1..issued'
    BY <2>1 DEF TokensOK
  <2> QED
    BY <1>3, <2>1, <2>3, <2>4 DEF LoginGranted, TokensOK
<1>4. ASSUME NEW t \in Tab, Logout(t) PROVE TokensOK'
  BY <1>4 DEF Logout, TokensOK
<1>5. ASSUME NEW t \in Tab, Reload(t) PROVE TokensOK'
  <2>1. asked[t] = "sent" => asking[t] \in 1..issued
    BY DEF TokensOK
  <2>2. /\ spent' \subseteq 1..issued /\ UNCHANGED <<stored, issued, expired>>
        /\ presented' = [presented EXCEPT ![t] = [p \in Pair |-> 0]]
        /\ asked' = [asked EXCEPT ![t] = "no"]
    BY <1>5, <2>1 DEF Reload, TokensOK
  <2>3. presented' \in [Tab -> [Pair -> Nat]]
    BY <2>2 DEF TokensOK
  <2>4. /\ asked' \in [Tab -> {"no", "sent", "served"}]
        /\ asking' \in [Tab -> 0..issued] /\ answer' \in [Tab -> 0..issued]
        /\ \A u \in Tab : asked'[u] # "no" => asking'[u] # 0
    BY <1>5 DEF Reload, TokensOK
  <2>5. req' \in [Tab -> [Request -> Stage]]
    BY <1>5 DEF Reload, TokensOK
  <2>6. bearer' \in [Tab -> [Request -> 0..issued]]
    BY <1>5 DEF Reload, TokensOK
  <2> QED
    BY <2>2, <2>3, <2>4, <2>5, <2>6 DEF TokensOK
<1>6. ASSUME NEW t \in Tab, NEW r \in Request, Accepted(t, r) PROVE TokensOK'
  <2>1. Moves(t, {r}, "none", 0) /\ UNCHANGED <<stored, server, refresh>>
    BY <1>6 DEF Accepted
  <2>2. /\ 0 \in 0..issued' /\ issued' \in 0..MaxPair /\ issued <= issued'
        /\ {r} \in SUBSET Request /\ "none" \in Stage
    BY <2>1 DEF TokensOK
  <2>3. req' \in [Tab -> [Request -> Stage]] /\ bearer' \in [Tab -> [Request -> 0..issued']]
    BY <2>1, <2>2, MovesTypes
  <2> QED
    BY <2>1, <2>3 DEF TokensOK
<1>7. ASSUME NEW t \in Tab, NEW R \in SUBSET Request, NEW u \in BOOLEAN, NEW p \in 0..issued,
             Rejects(t, R, u, p), UNCHANGED server,
             asked' \in [Tab -> {"no", "sent", "served"}],
             asking' \in [Tab -> 0..issued], answer' \in [Tab -> 0..issued],
             \A v \in Tab : asked'[v] # "no" => asking'[v] # 0, UNCHANGED presented
      PROVE  TokensOK'
  <2>1. /\ stored' \in 0..issued /\ req' \in [Tab -> [Request -> Stage]]
        /\ bearer' \in [Tab -> [Request -> 0..issued]]
    BY <1>7, RejectsTypes
  <2> QED
    BY <1>7, <2>1 DEF TokensOK
<1>8. /\ stored \in 0..issued /\ 0 \in 0..issued /\ asked \in [Tab -> {"no", "sent", "served"}]
      /\ asking \in [Tab -> 0..issued] /\ answer \in [Tab -> 0..issued]
      /\ \A v \in Tab : asked[v] # "no" => asking[v] # 0
  BY DEF TokensOK
<1>9. ASSUME NEW t \in Tab, NEW r \in Request, Failed(t, r) PROVE TokensOK'
  <2>1. PICK u \in BOOLEAN, p \in 0..issued : u = user[t] /\ p = stored
    BY <1>8 DEF PageOK
  <2>2. Rejects(t, {r}, u, p)
    BY <1>9, <2>1 DEF Failed
  <2> QED
    BY <1>9, <2>2, <1>7, <1>8 DEF Failed
<1>10. ASSUME NEW t \in Tab, NEW r \in Request, Unauthorized(t, r) PROVE TokensOK'
  <2>1. CASE Rejects(t, {r}, user[t], stored) /\ UNCHANGED refresh
    <3>1. PICK u \in BOOLEAN, p \in 0..issued : u = user[t] /\ p = stored
      BY <1>8 DEF PageOK
    <3>2. Rejects(t, {r}, u, p)
      BY <2>1, <3>1
    <3> QED
      BY <1>10, <2>1, <3>2, <1>7, <1>8 DEF Unauthorized
  <2>2. CASE Rejects(t, {r}, FALSE, NoPair) /\ UNCHANGED refresh
    BY <1>10, <2>2, <1>7, <1>8 DEF Unauthorized
  <2>3. CASE /\ Moves(t, {r}, "waiting", NoPair) /\ ~(NoRefreshYet(t) /\ stored = NoPair)
             /\ IF NoRefreshYet(t)
                THEN /\ asked' = [asked EXCEPT ![t] = "sent"]
                     /\ asking' = [asking EXCEPT ![t] = stored]
                     /\ presented' = [presented EXCEPT ![t][stored] = @ + 1]
                ELSE UNCHANGED <<asked, asking, presented>>
             /\ UNCHANGED <<stored, answer>>
    <3>1. /\ UNCHANGED server /\ issued' \in 0..MaxPair /\ issued <= issued' /\ 0 \in 0..issued'
          /\ {r} \in SUBSET Request /\ "waiting" \in Stage
      BY <1>10 DEF Unauthorized, TokensOK
    <3>2. req' \in [Tab -> [Request -> Stage]] /\ bearer' \in [Tab -> [Request -> 0..issued']]
      BY <2>3, <3>1, MovesTypes
    <3>3. /\ asked' \in [Tab -> {"no", "sent", "served"}] /\ asking' \in [Tab -> 0..issued']
          /\ answer' \in [Tab -> 0..issued'] /\ stored' \in 0..issued'
          /\ \A v \in Tab : asked'[v] # "no" => asking'[v] # 0
      BY <2>3, <3>1, <1>8
    <3>4. presented' \in [Tab -> [Pair -> Nat]]
      <4>1. CASE NoRefreshYet(t)
        <5>1. stored \in Pair
          BY <2>3, <4>1, <1>8 DEF TokensOK
        <5>2. presented \in [Tab -> [Pair -> Nat]]
          BY DEF TokensOK
        <5>3. PICK p \in Pair : p = stored
          BY <5>1
        <5>4. presented' = [presented EXCEPT ![t][p] = @ + 1]
          BY <2>3, <4>1, <5>3
        <5>5. [presented EXCEPT ![t][p] = @ + 1] \in [Tab -> [Pair -> Nat]]
          BY <5>2, CountedType
        <5> QED
          BY <5>4, <5>5
      <4>2. CASE ~NoRefreshYet(t)
        BY <2>3, <4>2 DEF TokensOK
      <4> QED
        BY <4>1, <4>2
    <3> QED
      BY <3>1, <3>2, <3>3, <3>4 DEF TokensOK
  <2> QED
    BY <1>10, <2>1, <2>2, <2>3 DEF Unauthorized
<1>11. ASSUME NEW t \in Tab, RefreshServed(t) PROVE TokensOK'
  <2>1. CASE asking[t] \in spent
    BY <1>11, <2>1 DEF RefreshServed, TokensOK
  <2>2. CASE asking[t] \notin spent
    <3>1. issued' = issued + 1 /\ issued' \in 0..MaxPair
      BY <1>11, <2>2 DEF RefreshServed, TokensOK
    <3>2. 0..issued \subseteq 0..issued' /\ 1..issued \subseteq 1..issued'
      BY <3>1 DEF TokensOK
    <3>3. answer' = [answer EXCEPT ![t] = issued'] /\ asking[t] \in 1..issued
      BY <1>11, <2>2 DEF RefreshServed, TokensOK
    <3>4. spent' \subseteq 1..issued' /\ expired' \subseteq 1..issued' /\ stored' \in 0..issued'
      BY <1>11, <2>2, <3>2, <3>3 DEF RefreshServed, TokensOK
    <3>5. issued' \in 0..issued'
      BY <3>1
    <3>6. asking' \in [Tab -> 0..issued'] /\ answer' \in [Tab -> 0..issued']
      BY <1>11, <3>2, <3>3, <3>5, <1>8 DEF RefreshServed
    <3>7. asked' \in [Tab -> {"no", "sent", "served"}] /\ \A v \in Tab : asked'[v] # "no" => asking'[v] # 0
      BY <1>11, <1>8 DEF RefreshServed
    <3>8. req' \in [Tab -> [Request -> Stage]] /\ bearer' \in [Tab -> [Request -> 0..issued']]
      BY <1>11, <3>2 DEF RefreshServed, TokensOK
    <3> QED
      BY <1>11, <3>1, <3>4, <3>6, <3>7, <3>8 DEF RefreshServed, TokensOK
  <2> QED
    BY <2>1, <2>2
<1>12. ASSUME NEW t \in Tab, RefreshIsOver(t)
       PROVE  /\ asked' \in [Tab -> {"no", "sent", "served"}]
              /\ asking' \in [Tab -> 0..issued] /\ answer' \in [Tab -> 0..issued]
              /\ \A v \in Tab : asked'[v] # "no" => asking'[v] # 0
              /\ UNCHANGED presented
  BY <1>12, <1>8 DEF RefreshIsOver
<1>13. ASSUME NEW t \in Tab, Refreshed(t) PROVE TokensOK'
  <2>1. PICK p \in 0..issued : p = answer[t]
    BY <1>8
  <2>2. Moves(t, Waiting(t), "resent", p) /\ UNCHANGED server /\ stored' = p
    BY <1>13, <2>1 DEF Refreshed
  <2>3. PICK R \in SUBSET Request : R = Waiting(t)
    BY DEF Waiting
  <2>4. Moves(t, R, "resent", p)
    BY <2>2, <2>3
  <2>5. issued' \in 0..MaxPair /\ issued <= issued' /\ p \in 0..issued'
    BY <2>2 DEF TokensOK
  <2>6. req' \in [Tab -> [Request -> Stage]] /\ bearer' \in [Tab -> [Request -> 0..issued']]
    BY <2>4, <2>5, MovesTypes
  <2> QED
    BY <1>13, <2>2, <2>5, <2>6, <1>12 DEF Refreshed, TokensOK
<1>14. ASSUME NEW t \in Tab, RefreshFailed(t) PROVE TokensOK'
  <2>1. PICK R \in SUBSET Request : R = Waiting(t)
    BY DEF Waiting
  <2>2. Rejects(t, R, FALSE, 0) /\ UNCHANGED server /\ RefreshIsOver(t)
    BY <1>14, <2>1 DEF RefreshFailed, AfterLogout
  <2> QED
    BY <2>2, <1>7, <1>8, <1>12
<1>15. ASSUME NEW p \in Pair, Expire(p) PROVE TokensOK'
  BY <1>15 DEF Expire, TokensOK
<1>16. CASE UNCHANGED vars
  BY <1>16 DEF vars, TokensOK
<1> QED
  BY <1>1, <1>2, <1>3, <1>4, <1>5, <1>6, <1>9, <1>10, <1>11, <1>13, <1>14, <1>15, <1>16
     DEF Next

LEMMA NextTypeInv == TypeInv /\ [Next]_vars => TypeInv'
<1>1. TypeInv' <=> PageOK' /\ TokensOK'
  BY DEF TypeInv
<1> QED
  BY <1>1, NextPageOK, NextTokensOK

LEMMA TypesHold == Spec => []TypeInv
  BY InitTypeInv, NextTypeInv, PTL DEF Spec

\* The browser is well typed, whatever its tabs and the server do.
THEOREM TypeCorrect == Spec => []TypeOK
  BY TypesHold, TypeInvTypes, PTL

--------------------------------------------------------------------------
(* Who waits, and for what *)

\* Where the requests of a tab are after R of them have moved.
LEMMA MovesWhere ==
    ASSUME TypeInv, NEW t \in Tab, NEW R \in SUBSET Request, NEW s \in Stage, NEW p,
           Moves(t, R, s, p), NEW v \in Tab, NEW r \in Request
    PROVE  req'[v][r] = IF v = t /\ r \in R THEN s ELSE req[v][r]
  BY TypeParts DEF TokensOK, Moves

LEMMA OneMoves ==
    ASSUME TypeInv, NEW t \in Tab, NEW q \in Request, NEW s \in Stage, NEW p,
           Moves(t, {q}, s, p), NEW v \in Tab, NEW r \in Request
    PROVE  req'[v][r] = IF v = t /\ r = q THEN s ELSE req[v][r]
<1>1. PICK R \in SUBSET Request : R = {q}
  OBVIOUS
<1>2. Moves(t, R, s, p)
  BY <1>1
<1>3. req'[v][r] = IF v = t /\ r \in R THEN s ELSE req[v][r]
  BY <1>2, MovesWhere
<1> QED
  BY <1>1, <1>3

WaitInv == SpinnersEnd /\ WaitersHaveARefresh

\* A step that moves no request to or from the waiting ones.
LEMMA NobodyWaitsAnew ==
    ASSUME WaitersHaveARefresh, UNCHANGED asked,
           \A v \in Tab, r \in Request : req'[v][r] = "waiting" <=> req[v][r] = "waiting"
    PROVE  WaitersHaveARefresh'
  BY DEF WaitersHaveARefresh

LEMMA SpinnersUnchanged ==
    ASSUME SpinnersEnd, UNCHANGED <<loading, form, req>>
    PROVE  SpinnersEnd'
  BY DEF SpinnersEnd

\* A rejection takes the spinners of the requests it ends.
LEMMA RejectsSpinners ==
    ASSUME TypeInv, SpinnersEnd, NEW t \in Tab, NEW R \in SUBSET Request, NEW u \in BOOLEAN,
           NEW p, Rejects(t, R, u, p)
    PROVE  SpinnersEnd'
<1>1. Moves(t, R, "none", 0) /\ "none" \in Stage
  BY DEF Rejects, NoPair, Stage
<1>2. \A v \in Tab, r \in Request : req'[v][r] = IF v = t /\ r \in R THEN "none" ELSE req[v][r]
  BY <1>1, MovesWhere
<1>3. /\ loading' = [loading EXCEPT ![t] = loading[t] /\ BootMe \notin R]
      /\ form' = [form EXCEPT ![t] = IF LoginMe \in R THEN "idle" ELSE @]
  BY DEF Rejects, Shows, FormAfter
<1>4. /\ BootMe \in Request /\ LoginMe \in Request
      /\ loading \in [Tab -> BOOLEAN] /\ form \in [Tab -> {"idle", "login", "me"}]
  BY TypeParts DEF Request, PageOK
<1>5. ASSUME NEW v \in Tab PROVE loading'[v] <=> req'[v][BootMe] # "none"
  BY <1>2, <1>3, <1>4 DEF SpinnersEnd
<1>6. ASSUME NEW v \in Tab PROVE form'[v] = "me" <=> req'[v][LoginMe] # "none"
  BY <1>2, <1>3, <1>4 DEF SpinnersEnd
<1> QED
  BY <1>5, <1>6 DEF SpinnersEnd

LEMMA InitWaitInv == Init => WaitInv
  BY DEF Init, WaitInv, SpinnersEnd, WaitersHaveARefresh, Request

\* Every step, and the two properties together: a login needs the first.
LEMMA NextWaitInv == TypeInv /\ WaitInv /\ [Next]_vars => WaitInv'
<1> SUFFICES ASSUME TypeInv, SpinnersEnd, WaitersHaveARefresh, [Next]_vars
             PROVE  SpinnersEnd' /\ WaitersHaveARefresh'
  BY DEF WaitInv
<1> USE SessionAssumption DEF NoPair, calls, refresh
<1>0. /\ BootMe \in Request /\ LoginMe \in Request /\ Call \subseteq Request
      /\ "none" \in Stage /\ "sent" \in Stage /\ "waiting" \in Stage /\ "resent" \in Stage
      /\ loading \in [Tab -> BOOLEAN] /\ form \in [Tab -> {"idle", "login", "me"}]
      /\ asked \in [Tab -> {"no", "sent", "served"}]
  BY TypeParts DEF Request, Stage, PageOK, TokensOK
<1>1. ASSUME NEW t \in Tab, NEW c \in Call, CallApi(t, c)
      PROVE  SpinnersEnd' /\ WaitersHaveARefresh'
  <2>1. PICK p : p = stored
    OBVIOUS
  <2>2. \A v \in Tab, r \in Request :
            req'[v][r] = IF v = t /\ r = c THEN "sent" ELSE req[v][r]
    <3>1. Moves(t, {c}, "sent", p) /\ c \in Request
      BY <1>1, <1>0, <2>1 DEF CallApi
    <3> QED
      BY <3>1, TypeParts DEF TokensOK, Moves
  <2>3. SpinnersEnd'
    BY <1>1, <1>0, <2>2 DEF CallApi, SpinnersEnd
  <2> QED
    BY <1>1, <2>2, <2>3, NobodyWaitsAnew DEF CallApi
<1>2. ASSUME NEW t \in Tab, Navigate(t) \/ ToggleModal(t) \/ Logout(t)
      PROVE  SpinnersEnd' /\ WaitersHaveARefresh'
  BY <1>2, SpinnersUnchanged, NobodyWaitsAnew DEF Navigate, ToggleModal, Logout
<1>3. ASSUME NEW t \in Tab, Submit(t) \/ LoginRefused(t)
      PROVE  SpinnersEnd' /\ WaitersHaveARefresh'
  <2>1. UNCHANGED <<loading, req, asked>> /\ form[t] # "me"
    BY <1>3 DEF Submit, LoginRefused
  <2>2. form' = [form EXCEPT ![t] = "login"] \/ form' = [form EXCEPT ![t] = "idle"]
    BY <1>3 DEF Submit, LoginRefused
  <2>3. SpinnersEnd'
    BY <1>0, <2>1, <2>2 DEF SpinnersEnd
  <2> QED
    BY <2>1, <2>3, NobodyWaitsAnew
<1>4. ASSUME NEW t \in Tab, LoginGranted(t) PROVE SpinnersEnd' /\ WaitersHaveARefresh'
  <2>1. PICK p : p = stored'
    OBVIOUS
  <2>2. Moves(t, {LoginMe}, "sent", p)
    BY <1>4, <1>0, <2>1 DEF LoginGranted, Sends
  <2>3. \A v \in Tab, r \in Request :
            req'[v][r] = IF v = t /\ r = LoginMe THEN "sent" ELSE req[v][r]
    BY <2>2, <1>0, OneMoves
  <2>4. req[t][LoginMe] = "none"
    BY <1>4 DEF LoginGranted, SpinnersEnd
  <2>5. UNCHANGED <<loading, asked>> /\ form' = [form EXCEPT ![t] = "me"]
    BY <1>4 DEF LoginGranted
  <2>6. SpinnersEnd'
    BY <1>0, <2>3, <2>5 DEF SpinnersEnd
  <2> QED
    BY <2>3, <2>4, <2>5, <2>6, NobodyWaitsAnew
<1>5. ASSUME NEW t \in Tab, Reload(t) PROVE SpinnersEnd' /\ WaitersHaveARefresh'
  <2>1. req' = [req EXCEPT ![t] = [r \in Request |->
                    IF r = BootMe /\ stored # NoPair THEN "sent" ELSE "none"]]
    BY <1>5 DEF Reload
  <2>2. /\ loading' = [loading EXCEPT ![t] = stored # NoPair]
        /\ form' = [form EXCEPT ![t] = "idle"] /\ asked' = [asked EXCEPT ![t] = "no"]
    BY <1>5 DEF Reload
  <2>3. req \in [Tab -> [Request -> Stage]]
    BY TypeParts DEF TokensOK
  <2>4. \A r \in Request :
            req'[t][r] = IF r = BootMe /\ stored # NoPair THEN "sent" ELSE "none"
    BY <2>1, <2>3
  <2>5. \A v \in Tab \ {t} : req'[v] = req[v]
    BY <2>1, <2>3
  <2>6. ASSUME NEW v \in Tab
        PROVE  (loading'[v] <=> req'[v][BootMe] # "none") /\ (form'[v] = "me" <=> req'[v][LoginMe] # "none")
    BY <1>0, <2>2, <2>4, <2>5 DEF SpinnersEnd
  <2>7. ASSUME NEW v \in Tab PROVE (\E r \in Request : req'[v][r] = "waiting") <=> asked'[v] # "no"
    BY <1>0, <2>2, <2>4, <2>5 DEF WaitersHaveARefresh
  <2> QED
    BY <2>6, <2>7 DEF SpinnersEnd, WaitersHaveARefresh
<1>6. ASSUME NEW t \in Tab, NEW r \in Request, Moves(t, {r}, "none", 0), req[t][r] # "waiting",
             UNCHANGED asked
      PROVE  WaitersHaveARefresh'
  <2>1. \A v \in Tab, q \in Request :
            req'[v][q] = IF v = t /\ q = r THEN "none" ELSE req[v][q]
    BY <1>6, <1>0, OneMoves
  <2> QED
    BY <1>6, <2>1, NobodyWaitsAnew
<1>7. ASSUME NEW t \in Tab, NEW r \in Request, Accepted(t, r)
      PROVE  SpinnersEnd' /\ WaitersHaveARefresh'
  <2>1. Moves(t, {r}, "none", 0) /\ req[t][r] # "waiting" /\ UNCHANGED asked
    BY <1>7 DEF Accepted
  <2>2. \A v \in Tab, q \in Request :
            req'[v][q] = IF v = t /\ q = r THEN "none" ELSE req[v][q]
    BY <2>1, <1>0, OneMoves
  <2>3. /\ loading' = [loading EXCEPT ![t] = loading[t] /\ r # BootMe]
        /\ form' = [form EXCEPT ![t] = IF r = LoginMe THEN "idle" ELSE @]
    BY <1>7 DEF Accepted, Shows, FormAfter
  <2>4. ASSUME NEW v \in Tab
        PROVE  (loading'[v] <=> req'[v][BootMe] # "none") /\ (form'[v] = "me" <=> req'[v][LoginMe] # "none")
    BY <1>0, <2>2, <2>3 DEF SpinnersEnd
  <2> QED
    BY <2>1, <2>4, <1>6 DEF SpinnersEnd
<1>8. ASSUME NEW t \in Tab, NEW r \in Request, NEW u \in BOOLEAN, NEW p,
             Rejects(t, {r}, u, p), req[t][r] # "waiting", UNCHANGED asked
      PROVE  SpinnersEnd' /\ WaitersHaveARefresh'
  <2>1. Moves(t, {r}, "none", 0) /\ {r} \in SUBSET Request
    BY <1>8 DEF Rejects
  <2> QED
    BY <1>8, <2>1, <1>6, RejectsSpinners
<1>9. ASSUME NEW t \in Tab, NEW r \in Request, Rejects(t, {r}, user[t], stored),
             req[t][r] # "waiting", UNCHANGED asked
      PROVE  SpinnersEnd' /\ WaitersHaveARefresh'
  <2>1. PICK u \in BOOLEAN : u = user[t]
    BY TypeParts DEF PageOK
  <2>2. PICK p : p = stored
    OBVIOUS
  <2>3. Rejects(t, {r}, u, p)
    BY <1>9, <2>1, <2>2
  <2> QED
    BY <1>9, <2>3, <1>8
<1>10. ASSUME NEW t \in Tab, NEW r \in Request, Failed(t, r)
       PROVE  SpinnersEnd' /\ WaitersHaveARefresh'
  BY <1>10, <1>9 DEF Failed
<1>11. ASSUME NEW t \in Tab, NEW r \in Request, Unauthorized(t, r)
       PROVE  SpinnersEnd' /\ WaitersHaveARefresh'
  <2>0. req[t][r] \in {"sent", "resent"}
    BY <1>11 DEF Unauthorized
  <2>1. CASE Rejects(t, {r}, user[t], stored) /\ UNCHANGED refresh
    BY <2>0, <2>1, <1>9
  <2>2. CASE Rejects(t, {r}, FALSE, NoPair) /\ UNCHANGED refresh
    BY <2>0, <2>2, <1>8
  <2>3. CASE /\ Moves(t, {r}, "waiting", NoPair)
             /\ IF NoRefreshYet(t) THEN asked' = [asked EXCEPT ![t] = "sent"] ELSE UNCHANGED asked
             /\ UNCHANGED <<loading, form>>
    <3>1. \A v \in Tab, q \in Request :
              req'[v][q] = IF v = t /\ q = r THEN "waiting" ELSE req[v][q]
      BY <2>3, TypeParts DEF TokensOK, Moves
    <3>2. SpinnersEnd'
      BY <1>0, <2>0, <2>3, <3>1 DEF SpinnersEnd
    <3>3. asked'[t] # "no" /\ \A v \in Tab \ {t} : asked'[v] = asked[v]
      BY <1>0, <2>3 DEF NoRefreshYet
    <3>4. ASSUME NEW v \in Tab
          PROVE  (\E q \in Request : req'[v][q] = "waiting") <=> asked'[v] # "no"
      BY <3>1, <3>3 DEF WaitersHaveARefresh
    <3> QED
      BY <3>2, <3>4 DEF WaitersHaveARefresh
  <2> QED
    BY <1>11, <2>1, <2>2, <2>3 DEF Unauthorized
<1>12. ASSUME NEW t \in Tab, RefreshServed(t) PROVE SpinnersEnd' /\ WaitersHaveARefresh'
  <2>1. /\ asked[t] # "no" /\ asked' = [asked EXCEPT ![t] = "served"]
        /\ UNCHANGED <<loading, form, req>>
    BY <1>12 DEF RefreshServed
  <2> QED
    BY <1>0, <2>1, SpinnersUnchanged DEF WaitersHaveARefresh
<1>13. ASSUME NEW t \in Tab, Refreshed(t) PROVE SpinnersEnd' /\ WaitersHaveARefresh'
  <2>0. PICK p : p = answer[t]
    OBVIOUS
  <2>1. PICK R \in SUBSET Request : R = Waiting(t)
    BY DEF Waiting
  <2>2. Moves(t, R, "resent", p) /\ UNCHANGED <<loading, form>> /\ asked' = [asked EXCEPT ![t] = "no"]
    BY <1>13, <2>0, <2>1 DEF Refreshed, RefreshIsOver
  <2>3. \A v \in Tab, r \in Request :
            req'[v][r] = IF v = t /\ r \in R THEN "resent" ELSE req[v][r]
    BY <2>2, <1>0, MovesWhere
  <2>4. \A v \in Tab, r \in Request : req'[v][r] = "none" <=> req[v][r] = "none"
    BY <2>1, <2>3 DEF Waiting
  <2>5. SpinnersEnd'
    BY <1>0, <2>2, <2>4 DEF SpinnersEnd
  <2>6. \A r \in Request : req'[t][r] # "waiting"
    BY <2>1, <2>3 DEF Waiting
  <2>7. ASSUME NEW v \in Tab
        PROVE  (\E r \in Request : req'[v][r] = "waiting") <=> asked'[v] # "no"
    BY <1>0, <2>2, <2>3, <2>6 DEF WaitersHaveARefresh
  <2> QED
    BY <2>5, <2>7 DEF WaitersHaveARefresh
<1>14. ASSUME NEW t \in Tab, RefreshFailed(t) PROVE SpinnersEnd' /\ WaitersHaveARefresh'
  <2>1. PICK R \in SUBSET Request : R = Waiting(t)
    BY DEF Waiting
  <2>2. Rejects(t, R, FALSE, 0) /\ asked' = [asked EXCEPT ![t] = "no"]
    BY <1>14, <2>1 DEF RefreshFailed, AfterLogout, RefreshIsOver
  <2>3. Moves(t, R, "none", 0)
    BY <2>2 DEF Rejects
  <2>4. \A v \in Tab, r \in Request :
            req'[v][r] = IF v = t /\ r \in R THEN "none" ELSE req[v][r]
    BY <2>3, <1>0, MovesWhere
  <2>5. SpinnersEnd'
    BY <2>2, RejectsSpinners
  <2>6. \A r \in Request : req'[t][r] # "waiting"
    BY <2>1, <2>4 DEF Waiting
  <2>7. ASSUME NEW v \in Tab
        PROVE  (\E r \in Request : req'[v][r] = "waiting") <=> asked'[v] # "no"
    BY <1>0, <2>2, <2>4, <2>6 DEF WaitersHaveARefresh
  <2> QED
    BY <2>5, <2>7 DEF WaitersHaveARefresh
<1>15. ASSUME UNCHANGED <<loading, form, req, asked>> PROVE SpinnersEnd' /\ WaitersHaveARefresh'
  BY <1>15, SpinnersUnchanged, NobodyWaitsAnew
<1>16. ASSUME NEW p \in Pair, Expire(p) PROVE SpinnersEnd' /\ WaitersHaveARefresh'
  BY <1>15, <1>16 DEF Expire
<1>17. CASE UNCHANGED vars
  BY <1>15, <1>17 DEF vars
<1> QED
  BY <1>1, <1>2, <1>3, <1>4, <1>5, <1>7, <1>10, <1>11, <1>12, <1>13, <1>14, <1>16, <1>17
     DEF Next

LEMMA WaitInvHolds == Spec => []WaitInv
  BY TypesHold, InitWaitInv, NextWaitInv, PTL DEF Spec

\* A spinner stands for a request under way, through every 401 and refresh.
THEOREM SpinnersAreRequests == Spec => []SpinnersEnd
<1>1. WaitInv => SpinnersEnd
  BY DEF WaitInv
<1> QED
  BY <1>1, WaitInvHolds, PTL

\* Nobody is left waiting for a refresh that nobody makes.
THEOREM WaitersAreServed == Spec => []WaitersHaveARefresh
<1>1. WaitInv => WaitersHaveARefresh
  BY DEF WaitInv
<1> QED
  BY <1>1, WaitInvHolds, PTL

--------------------------------------------------------------------------
(* A refresh token is presented once *)

\* The stored token has been presented only in the refresh under way.
StoredIsFresh ==
    \A t \in Tab :
        stored # 0 /\ presented[t][stored] # 0 => asked[t] # "no" /\ asking[t] = stored

\* A pair on its way to a tab is new to everyone.
AnswersAreNew ==
    \A t \in Tab : answer[t] # 0 =>
        /\ asked[t] = "served" /\ answer[t] # stored
        /\ \A v \in Tab : presented[v][answer[t]] = 0
        /\ \A v \in Tab : answer[v] = answer[t] => v = t

\* Nobody presents a token before it is issued.
NotBeforeIssued == \A t \in Tab, p \in Pair : p > issued => presented[t][p] = 0

OnceInv == StoredIsFresh /\ AnswersAreNew /\ NotBeforeIssued /\ RefreshesOnce

LEMMA InitOnceInv == Init => OnceInv
  BY DEF Init, OnceInv, StoredIsFresh, AnswersAreNew, NotBeforeIssued, RefreshesOnce, NoPair, Pair

LEMMA IssuedArePairs == TypeInv => \A p \in 0..issued : p # 0 => p \in Pair
  BY TypeParts, SessionAssumption DEF TokensOK, Pair

\* Steps that leave the refreshes alone, and the storage or empty it.
LEMMA OthersKeepOnce ==
    ASSUME TypeInv, OnceInv, UNCHANGED <<issued, asked, asking, answer, presented>>,
           stored' \in {stored, 0}
    PROVE  OnceInv'
<1>1. StoredIsFresh'
  BY DEF OnceInv, StoredIsFresh
<1>2. AnswersAreNew'
  BY DEF OnceInv, AnswersAreNew
<1> QED
  BY <1>1, <1>2 DEF OnceInv, NotBeforeIssued, RefreshesOnce

\* A refresh that ends, with the pair of its answer or with none.
LEMMA EndKeepsOnce ==
    ASSUME TypeInv, OnceInv, NEW t \in Tab, RefreshIsOver(t), UNCHANGED issued,
           stored' \in {answer[t], 0}, answer[t] # 0 \/ stored' = 0
    PROVE  OnceInv'
<1>1. /\ asked' = [asked EXCEPT ![t] = "no"] /\ asking' = [asking EXCEPT ![t] = 0]
      /\ answer' = [answer EXCEPT ![t] = 0] /\ UNCHANGED presented
  BY DEF RefreshIsOver, NoPair
<1>2. answer \in [Tab -> 0..issued] /\ asked \in [Tab -> {"no", "sent", "served"}]
  BY TypeParts DEF TokensOK
<1>3. StoredIsFresh'
  BY <1>1 DEF OnceInv, AnswersAreNew, StoredIsFresh
<1>4. AnswersAreNew'
  BY <1>1, <1>2 DEF OnceInv, AnswersAreNew
<1> QED
  BY <1>1, <1>3, <1>4 DEF OnceInv, NotBeforeIssued, RefreshesOnce

LEMMA NextOnceInv == TypeInv /\ OnceInv /\ [Next]_vars => OnceInv'
<1> SUFFICES ASSUME TypeInv, OnceInv, [Next]_vars PROVE OnceInv'
  OBVIOUS
<1> USE SessionAssumption DEF NoPair, server, refresh, calls
<1>0. /\ stored \in 0..issued /\ issued \in 0..MaxPair
      /\ asked \in [Tab -> {"no", "sent", "served"}] /\ asking \in [Tab -> 0..issued]
      /\ answer \in [Tab -> 0..issued] /\ presented \in [Tab -> [Pair -> Nat]]
  BY TypeParts DEF TokensOK
<1>1. ASSUME NEW t \in Tab, NEW c \in Call, CallApi(t, c) PROVE OnceInv'
  BY <1>1, OthersKeepOnce DEF CallApi
<1>2. ASSUME NEW t \in Tab,
             Navigate(t) \/ ToggleModal(t) \/ Submit(t) \/ LoginRefused(t) \/ Logout(t)
      PROVE  OnceInv'
  BY <1>2, OthersKeepOnce DEF Navigate, ToggleModal, Submit, LoginRefused, Logout
<1>3. ASSUME NEW t \in Tab, LoginGranted(t) PROVE OnceInv'
  <2>1. /\ issued' = issued + 1 /\ stored' = issued + 1 /\ issued + 1 \in Pair
        /\ UNCHANGED <<asked, asking, answer, presented>>
    BY <1>3, <1>0 DEF LoginGranted, Pair
  <2>2. \A v \in Tab : presented[v][issued + 1] = 0
    BY <1>0, <2>1 DEF OnceInv, NotBeforeIssued
  <2>3. \A v \in Tab : answer[v] # issued + 1
    BY <1>0
  <2>4. StoredIsFresh'
    BY <2>1, <2>2 DEF StoredIsFresh
  <2>5. AnswersAreNew'
    BY <2>1, <2>3 DEF OnceInv, AnswersAreNew
  <2>6. NotBeforeIssued'
    BY <1>0, <2>1 DEF OnceInv, NotBeforeIssued, Pair
  <2> QED
    BY <2>1, <2>4, <2>5, <2>6 DEF OnceInv, RefreshesOnce
<1>4. ASSUME NEW t \in Tab, Reload(t) PROVE OnceInv'
  <2>1. /\ UNCHANGED <<stored, issued>> /\ answer' = [answer EXCEPT ![t] = 0]
        /\ asked' = [asked EXCEPT ![t] = "no"] /\ asking' = [asking EXCEPT ![t] = 0]
        /\ presented' = [presented EXCEPT ![t] = [p \in Pair |-> 0]]
    BY <1>4 DEF Reload
  <2>2. \A v \in Tab, p \in Pair : presented'[v][p] = IF v = t THEN 0 ELSE presented[v][p]
    BY <1>0, <2>1
  <2>3. \A p \in 0..issued : p # 0 => p \in Pair
    BY IssuedArePairs
  <2>4. StoredIsFresh'
    BY <1>0, <2>1, <2>2, <2>3 DEF OnceInv, StoredIsFresh
  <2>5. AnswersAreNew'
    <3> SUFFICES ASSUME NEW v \in Tab, answer'[v] # 0
                 PROVE  /\ asked'[v] = "served" /\ answer'[v] # stored'
                        /\ \A w \in Tab : presented'[w][answer'[v]] = 0
                        /\ \A w \in Tab : answer'[w] = answer'[v] => w = v
      BY DEF AnswersAreNew
    <3>1. v # t /\ answer'[v] = answer[v] /\ answer[v] \in Pair
      BY <1>0, <2>1, <2>3
    <3>2. /\ asked[v] = "served" /\ answer[v] # stored
          /\ \A w \in Tab : presented[w][answer[v]] = 0
          /\ \A w \in Tab : answer[w] = answer[v] => w = v
      BY <3>1 DEF OnceInv, AnswersAreNew
    <3>3. \A w \in Tab : presented'[w][answer[v]] = 0
      BY <2>2, <3>1, <3>2
    <3>4. \A w \in Tab : answer'[w] = answer'[v] => w = v
      BY <1>0, <2>1, <3>1, <3>2
    <3> QED
      BY <1>0, <2>1, <3>1, <3>2, <3>3, <3>4
  <2> QED
    BY <2>1, <2>2, <2>4, <2>5 DEF OnceInv, NotBeforeIssued, RefreshesOnce
<1>5. ASSUME NEW t \in Tab, NEW r \in Request, Accepted(t, r) \/ Failed(t, r) PROVE OnceInv'
  BY <1>5, OthersKeepOnce DEF Accepted, Failed, Rejects
<1>6. ASSUME NEW t \in Tab, NEW r \in Request, Unauthorized(t, r) PROVE OnceInv'
  <2>0. UNCHANGED issued
    BY <1>6 DEF Unauthorized
  <2>1. CASE stored' \in {stored, 0} /\ UNCHANGED refresh
    BY <2>0, <2>1, OthersKeepOnce
  <2>2. CASE /\ asked[t] = "no" /\ stored # 0 /\ UNCHANGED <<stored, answer>>
             /\ asked' = [asked EXCEPT ![t] = "sent"] /\ asking' = [asking EXCEPT ![t] = stored]
             /\ presented' = [presented EXCEPT ![t][stored] = @ + 1]
    <3>1. stored \in Pair
      BY <1>0, <2>2, IssuedArePairs
    <3>2. \A v \in Tab, p \in Pair :
              presented'[v][p] = IF v = t /\ p = stored THEN presented[t][stored] + 1
                                                       ELSE presented[v][p]
      BY <1>0, <2>2, <3>1
    <3>3. presented[t][stored] = 0
      BY <2>2 DEF OnceInv, StoredIsFresh
    <3>4. /\ asked'[t] = "sent" /\ asking'[t] = stored
          /\ \A v \in Tab \ {t} : asked'[v] = asked[v] /\ asking'[v] = asking[v]
      BY <1>0, <2>2
    <3>5. StoredIsFresh'
      <4> SUFFICES ASSUME NEW v \in Tab, presented'[v][stored] # 0
                   PROVE  asked'[v] # "no" /\ asking'[v] = stored
        BY <2>2 DEF StoredIsFresh
      <4> QED
        BY <2>2, <3>1, <3>2, <3>4 DEF OnceInv, StoredIsFresh
    <3>6. AnswersAreNew'
      <4> SUFFICES ASSUME NEW v \in Tab, answer[v] # 0
                   PROVE  /\ asked'[v] = "served" /\ answer[v] # stored
                          /\ \A w \in Tab : presented'[w][answer[v]] = 0
                          /\ \A w \in Tab : answer[w] = answer[v] => w = v
        BY <2>2 DEF AnswersAreNew
      <4>1. /\ asked[v] = "served" /\ answer[v] # stored
            /\ \A w \in Tab : presented[w][answer[v]] = 0
            /\ \A w \in Tab : answer[w] = answer[v] => w = v
        BY DEF OnceInv, AnswersAreNew
      <4>2. answer[v] \in Pair
        BY <1>0, IssuedArePairs
      <4>3. \A w \in Tab : presented'[w][answer[v]] = 0
        BY <3>2, <4>1, <4>2
      <4> QED
        BY <2>2, <3>4, <4>1, <4>3
    <3>7. NotBeforeIssued'
      BY <1>0, <2>0, <3>2 DEF OnceInv, NotBeforeIssued
    <3>8. RefreshesOnce'
      BY <3>2, <3>3 DEF OnceInv, RefreshesOnce
    <3> QED
      BY <3>5, <3>6, <3>7, <3>8 DEF OnceInv
  <2> QED
    BY <1>6, <2>1, <2>2 DEF Unauthorized, Rejects, NoRefreshYet
<1>7. ASSUME NEW t \in Tab, RefreshServed(t) PROVE OnceInv'
  <2>0. /\ asked[t] = "sent" /\ asked' = [asked EXCEPT ![t] = "served"]
        /\ UNCHANGED <<stored, asking, presented>>
    BY <1>7 DEF RefreshServed
  <2>1. StoredIsFresh'
    BY <1>0, <2>0 DEF OnceInv, StoredIsFresh
  <2>2. CASE UNCHANGED <<issued, answer>>
    <3>1. AnswersAreNew'
      BY <1>0, <2>0, <2>2 DEF OnceInv, AnswersAreNew
    <3> QED
      BY <2>0, <2>1, <2>2, <3>1 DEF OnceInv, NotBeforeIssued, RefreshesOnce
  <2>3. CASE issued' = issued + 1 /\ issued < MaxPair /\ answer' = [answer EXCEPT ![t] = issued']
    <3>1. issued + 1 \in Pair /\ issued + 1 # 0 /\ issued + 1 # stored
      BY <1>0, <2>3 DEF Pair
    <3>2. \A v \in Tab : presented[v][issued + 1] = 0
      BY <1>0, <3>1 DEF OnceInv, NotBeforeIssued
    <3>3. \A v \in Tab : answer[v] # issued + 1
      BY <1>0
    <3>4. AnswersAreNew'
      <4>1. ASSUME NEW v \in Tab, v # t, answer'[v] # 0
            PROVE  /\ asked'[v] = "served" /\ answer'[v] # stored'
                   /\ \A w \in Tab : presented'[w][answer'[v]] = 0
                   /\ \A w \in Tab : answer'[w] = answer'[v] => w = v
        BY <1>0, <2>0, <2>3, <3>3, <4>1 DEF OnceInv, AnswersAreNew
      <4>2. /\ asked'[t] = "served" /\ answer'[t] # stored'
            /\ \A w \in Tab : presented'[w][answer'[t]] = 0
            /\ \A w \in Tab : answer'[w] = answer'[t] => w = t
        BY <1>0, <2>0, <2>3, <3>1, <3>2, <3>3
      <4> QED
        BY <4>1, <4>2 DEF AnswersAreNew
    <3>5. NotBeforeIssued'
      BY <1>0, <2>0, <2>3 DEF OnceInv, NotBeforeIssued, Pair
    <3> QED
      BY <2>0, <2>1, <3>4, <3>5 DEF OnceInv, RefreshesOnce
  <2> QED
    BY <1>7, <2>2, <2>3 DEF RefreshServed
<1>8. ASSUME NEW t \in Tab, Refreshed(t) \/ RefreshFailed(t) PROVE OnceInv'
  BY <1>8, EndKeepsOnce DEF Refreshed, RefreshFailed, Rejects, AfterLogout
<1>9. ASSUME NEW p \in Pair, Expire(p) PROVE OnceInv'
  BY <1>9, OthersKeepOnce DEF Expire
<1>10. CASE UNCHANGED vars
  BY <1>10, OthersKeepOnce DEF vars
<1> QED
  BY <1>1, <1>2, <1>3, <1>4, <1>5, <1>6, <1>7, <1>8, <1>9, <1>10 DEF Next

\* However many requests answer 401, a page presents a refresh token once.
THEOREM TokensArePresentedOnce == Spec => []RefreshesOnce
<1>1. OnceInv => RefreshesOnce
  BY DEF OnceInv
<1> QED
  BY <1>1, TypesHold, InitOnceInv, NextOnceInv, PTL DEF Spec

--------------------------------------------------------------------------
(* Who is signed out is asked to sign in *)

LEMMA ShowsAsks ==
    ASSUME TypeInv, NEW t \in Tab, NEW u \in BOOLEAN, NEW l \in BOOLEAN, Shows(t, u, l),
           NEW v \in Tab, guarded[v], user[v], ~user'[v]
    PROVE  modal'[v] \/ loading'[v]
<1>1. v = t
  BY TypeParts DEF Shows, PageOK
<1>2. ~u
  BY <1>1, TypeParts DEF Shows, PageOK
<1>3. CASE l
  BY <1>1, <1>3, TypeParts DEF Shows, PageOK
<1>4. CASE ~l
  BY <1>1, <1>2, <1>4, TypeParts DEF Shows, PageOK, AsksToSignIn
<1> QED
  BY <1>3, <1>4

LEMMA NextAsks ==
    ASSUME TypeInv, [Next]_vars, NEW v \in Tab, guarded[v], user[v], ~user'[v]
    PROVE  modal'[v] \/ loading'[v] \/ ~guarded'[v]
<1> USE TypeParts DEF PageOK
<1>1. ASSUME NEW t \in Tab, Logout(t) PROVE ~guarded'[v]
  BY <1>1 DEF Logout
<1>2. ASSUME NEW t \in Tab, Reload(t) PROVE modal'[v] \/ loading'[v]
  <2>1. t = v
    BY <1>2 DEF Reload
  <2> QED
    BY <1>2, <2>1 DEF Reload
<1>3. ASSUME NEW t \in Tab, NEW r \in Request, Accepted(t, r) PROVE modal'[v] \/ loading'[v]
  <2>1. PICK u \in BOOLEAN, l \in BOOLEAN :
            u = (user[t] \/ r \in {BootMe, LoginMe}) /\ l = (loading[t] /\ r # BootMe)
    OBVIOUS
  <2>2. Shows(t, u, l)
    BY <1>3, <2>1 DEF Accepted
  <2> QED
    BY <2>2, ShowsAsks
<1>4. ASSUME NEW t \in Tab, NEW R, NEW u \in BOOLEAN, NEW p, Rejects(t, R, u, p)
      PROVE  modal'[v] \/ loading'[v]
  <2>1. PICK l \in BOOLEAN : l = (loading[t] /\ BootMe \notin R)
    OBVIOUS
  <2>2. Shows(t, u, l)
    BY <1>4, <2>1 DEF Rejects
  <2> QED
    BY <2>2, ShowsAsks
<1>5. ASSUME NEW t \in Tab, NEW r \in Request, Rejects(t, {r}, user[t], stored)
      PROVE  modal'[v] \/ loading'[v]
  <2>1. PICK u \in BOOLEAN : u = user[t]
    OBVIOUS
  <2>2. PICK p : p = stored
    OBVIOUS
  <2>3. Rejects(t, {r}, u, p)
    BY <1>5, <2>1, <2>2
  <2> QED
    BY <2>3, <1>4
<1>6. ASSUME NEW t \in Tab, NEW r \in Request, Failed(t, r) PROVE modal'[v] \/ loading'[v]
  BY <1>5, <1>6 DEF Failed
<1>7. ASSUME NEW t \in Tab, NEW r \in Request, Unauthorized(t, r) PROVE modal'[v] \/ loading'[v]
  <2>1. CASE Rejects(t, {r}, user[t], stored)
    BY <1>5, <2>1
  <2>2. CASE Rejects(t, {r}, FALSE, NoPair)
    BY <1>4, <2>2 DEF NoPair
  <2>3. CASE UNCHANGED user
    BY <2>3
  <2> QED
    BY <1>7, <2>1, <2>2, <2>3 DEF Unauthorized
<1>8. ASSUME NEW t \in Tab, RefreshFailed(t) PROVE modal'[v] \/ loading'[v]
  <2>1. PICK R : R = Waiting(t)
    OBVIOUS
  <2>2. Rejects(t, R, FALSE, 0)
    BY <1>8, <2>1 DEF RefreshFailed, AfterLogout, NoPair
  <2> QED
    BY <2>2, <1>4
<1>9. ~UNCHANGED user
  OBVIOUS
<1>10. ASSUME NEW t \in Tab PROVE /\ ~Navigate(t) /\ ~ToggleModal(t) /\ ~Submit(t)
                                 /\ ~LoginGranted(t) /\ ~LoginRefused(t)
                                 /\ ~RefreshServed(t) /\ ~Refreshed(t)
                                 /\ \A c \in Call : ~CallApi(t, c)
  BY <1>9 DEF Navigate, ToggleModal, Submit, LoginGranted, LoginRefused, RefreshServed,
             Refreshed, CallApi
<1>11. ~UNCHANGED vars /\ \A p \in Pair : ~Expire(p)
  BY <1>9 DEF vars, Expire
<1> QED
  BY <1>1, <1>2, <1>3, <1>6, <1>7, <1>8, <1>10, <1>11 DEF Next

\* Whichever answer takes the session, the page asks for a new one at once.
THEOREM SignInIsAsked == Spec => SignedOutIsAsked
<1>1. TypeInv /\ [Next]_vars =>
          [\A t \in Tab : guarded[t] /\ user[t] /\ ~user'[t] =>
              modal'[t] \/ loading'[t] \/ ~guarded'[t]]_vars
  BY NextAsks
<1> QED
  BY <1>1, TypesHold, PTL DEF Spec, SignedOutIsAsked
=============================================================================
