---------------------------- MODULE ClientSession ----------------------------
(***************************************************************************)
(* The session of one browser: the token pair in localStorage, which every *)
(* tab reads and writes, and in each tab the axios interceptors of         *)
(* api/client.ts, the AuthProvider, the sign-in form and ProtectedRoute.   *)
(*                                                                         *)
(* A token pair is a number, in the order the server issues them; both     *)
(* halves are stored and removed together.  An answer and the microtasks   *)
(* that follow it (the refresh promise, everyone who awaits it) are one    *)
(* step; so are a state change and the effects React runs for it.          *)
(*                                                                         *)
(* Not covered: accounts (all tabs use the same one), the texts of the     *)
(* form and its registration half, which leaves the session alone.         *)
(***************************************************************************)
EXTENDS Naturals

CONSTANTS Tab,
          Call,             \* the API requests of a tab's pages
          BootMe, LoginMe,  \* its two uses of GET /auth/me
          MaxPair           \* bound: token pairs the server issues

Request == Call \cup {BootMe, LoginMe}
Pair == 1..MaxPair
NoPair == 0

ASSUME SessionAssumption ==
    /\ BootMe \notin Call \cup {LoginMe}
    /\ LoginMe \notin Call
    /\ MaxPair \in Nat

VARIABLES
    stored,             \* the pair in localStorage
    issued, spent,      \* server: the last pair, the refresh tokens used
    expired,            \* pairs whose access token has expired
    user, loading,      \* AuthProvider: is there a user, isLoading
    modal, form,        \* the sign-in dialog, and what its submit awaits
    guarded,            \* the tab shows a route under ProtectedRoute
    dead,               \* sessionDead
    asked, asking,      \* refreshPromise: how far it is, with which token
    answer,             \* the pair granted, NoPair when refused
    req, bearer,        \* of each request: how far it is, its access token
    presented           \* history: how often this page has sent each refresh token

server == <<issued, spent, expired>>
refresh == <<asked, asking, answer, presented>>
calls == <<req, bearer>>
vars == <<stored, server, user, loading, modal, form, guarded, dead, refresh,
          calls>>

Stage == {"none", "sent", "waiting", "resent"}

Init ==
    /\ stored = NoPair /\ issued = 0
    /\ spent = {} /\ expired = {}
    /\ user = [t \in Tab |-> FALSE]
    /\ loading = [t \in Tab |-> FALSE]
    /\ modal = [t \in Tab |-> FALSE]
    /\ form = [t \in Tab |-> "idle"]
    /\ guarded = [t \in Tab |-> FALSE]
    /\ dead = [t \in Tab |-> FALSE]
    /\ asked = [t \in Tab |-> "no"]
    /\ asking = [t \in Tab |-> NoPair]
    /\ answer = [t \in Tab |-> NoPair]
    /\ req = [t \in Tab |-> [r \in Request |-> "none"]]
    /\ bearer = [t \in Tab |-> [r \in Request |-> NoPair]]
    /\ presented = [t \in Tab |-> [p \in Pair |-> 0]]

--------------------------------------------------------------------------
(* Helpers *)

\* The first /auth/me is not among those who wait.
WaitingCalls(t) == {r \in Request \ {BootMe} : req[t][r] = "waiting"}

Waiting(t) == {r \in Request : req[t][r] = "waiting"}

\* ProtectedRoute asks only when it has waited for the first /auth/me.
AskAfterBoot(t, u, l) == guarded[t] /\ ~u /\ loading[t] /\ ~l

(* ProtectedRoute's effect runs when isAuthenticated or isLoading change. *)
AsksToSignIn(t, u, l) ==
    guarded[t] /\ ~u /\ ~l /\ (user[t] \/ loading[t])

(* What the tab shows with user u and isLoading l; the dialog closes      *)
(* itself for a user.                                                     *)
Shows(t, u, l) ==
    /\ user' = [user EXCEPT ![t] = u]
    /\ loading' = [loading EXCEPT ![t] = l]
    /\ modal' = [modal EXCEPT ![t] = ~u /\ (@ \/ AsksToSignIn(t, u, l))]

\* Only a successful login() brings the button back.
FormAfterSuccess(t, R) ==
    form' = [form EXCEPT ![t] = IF LoginMe \in R /\ req[t][LoginMe] # "waiting"
                                THEN "idle" ELSE @]

(* login() is over when its GET /auth/me is. *)
FormAfter(t, R) ==
    form' = [form EXCEPT ![t] = IF LoginMe \in R THEN "idle" ELSE @]

(* Requests R leave the tab or get to stage s with the stored token p. *)
Moves(t, R, s, p) ==
    /\ req' = [req EXCEPT ![t] = [r \in Request |->
                  IF r \in R THEN s ELSE @[r]]]
    /\ bearer' = [bearer EXCEPT ![t] = [r \in Request |->
                  IF r \in R THEN p ELSE @[r]]]

Sends(t, r) == Moves(t, {r}, "sent", stored')

--------------------------------------------------------------------------
(* The user *)

(* A page calls the API. *)
CallApi(t, c) ==
    /\ user[t] /\ req[t][c] = "none"
    /\ Moves(t, {c}, "sent", stored)
    /\ UNCHANGED <<stored, server, user, loading, modal, form, guarded, dead,
                   refresh>>

(* The user opens or leaves a room; the route asks a guest to sign in. *)
Navigate(t) ==
    /\ guarded' = [guarded EXCEPT ![t] = ~@]
    /\ modal' = [modal EXCEPT ![t] =
                    @ \/ (~guarded[t] /\ ~user[t] /\ ~loading[t])]
    /\ UNCHANGED <<stored, server, user, loading, form, dead, refresh, calls>>

(* The dialog's open buttons; Escape, the backdrop and the cross. *)
ToggleModal(t) ==
    /\ ~user[t]
    /\ modal' = [modal EXCEPT ![t] = ~@]
    /\ UNCHANGED <<stored, server, user, loading, form, guarded, dead,
                   refresh, calls>>

(* The submit button is disabled while a submit is under way, and stays   *)
(* so when the dialog is closed and opened again.                         *)
Submit(t) ==
    /\ modal[t] /\ form[t] = "idle"
    /\ form' = [form EXCEPT ![t] = "login"]
    /\ UNCHANGED <<stored, server, user, loading, modal, guarded, dead,
                   refresh, calls>>

LoginGranted(t) ==
    /\ form[t] = "login" /\ issued < MaxPair
    /\ issued' = issued + 1
    /\ stored' = issued'
    /\ dead' = [dead EXCEPT ![t] = FALSE]
    /\ form' = [form EXCEPT ![t] = "me"]
    /\ Sends(t, LoginMe)
    /\ UNCHANGED <<spent, expired, user, loading, modal, guarded, refresh>>

LoginRefused(t) ==
    /\ form[t] = "login"
    /\ form' = [form EXCEPT ![t] = "idle"]
    /\ UNCHANGED <<stored, server, user, loading, modal, guarded, dead,
                   refresh, calls>>

(* Log out, and on to the landing page. *)
Logout(t) ==
    /\ user[t]
    /\ stored' = NoPair
    /\ user' = [user EXCEPT ![t] = FALSE]
    /\ guarded' = [guarded EXCEPT ![t] = FALSE]
    /\ UNCHANGED <<server, loading, modal, form, dead, refresh, calls>>

(* The page is loaded again. A refresh in flight may still reach the      *)
(* server; nobody is there for its answer.                                *)
Reload(t) ==
    /\ spent' \in {spent, IF asked[t] = "sent" THEN spent \cup {asking[t]}
                          ELSE spent}
    /\ user' = [user EXCEPT ![t] = FALSE]
    /\ loading' = [loading EXCEPT ![t] = stored # NoPair]
    /\ modal' = [modal EXCEPT ![t] = guarded[t] /\ stored = NoPair]
    /\ form' = [form EXCEPT ![t] = "idle"]
    /\ dead' = [dead EXCEPT ![t] = FALSE]
    /\ asked' = [asked EXCEPT ![t] = "no"]
    /\ asking' = [asking EXCEPT ![t] = NoPair]
    /\ answer' = [answer EXCEPT ![t] = NoPair]
    /\ presented' = [presented EXCEPT ![t] = [p \in Pair |-> 0]]
    /\ req' = [req EXCEPT ![t] = [r \in Request |->
                  IF r = BootMe /\ stored # NoPair THEN "sent" ELSE "none"]]
    /\ bearer' = [bearer EXCEPT ![t] = [r \in Request |->
                  IF r = BootMe THEN stored ELSE NoPair]]
    /\ UNCHANGED <<stored, issued, expired, guarded>>

--------------------------------------------------------------------------
(* Answers *)

Expire(p) ==
    /\ p \in 1..issued
    /\ expired' = expired \cup {p}
    /\ UNCHANGED <<stored, issued, spent, user, loading, modal, form, guarded,
                   dead, refresh, calls>>

Accepted(t, r) ==
    /\ req[t][r] \in {"sent", "resent"}
    /\ bearer[t][r] \notin expired \cup {NoPair}
    /\ Moves(t, {r}, "none", NoPair)
    /\ Shows(t, user[t] \/ r \in {BootMe, LoginMe}, loading[t] /\ r # BootMe)
    /\ FormAfter(t, {r})
    /\ UNCHANGED <<stored, server, guarded, dead, refresh>>

(* The rejection reaches the callers of requests R, the user being u. The *)
(* first /auth/me clears the storage whatever the error was.              *)
Rejects(t, R, u, p) ==
    /\ Moves(t, R, "none", NoPair)
    /\ stored' = IF BootMe \in R THEN NoPair ELSE p
    /\ Shows(t, u, loading[t] /\ BootMe \notin R)
    /\ FormAfter(t, R)

(* Any error but 401. *)
Failed(t, r) ==
    /\ req[t][r] \in {"sent", "resent"}
    /\ Rejects(t, {r}, user[t], stored)
    /\ UNCHANGED <<server, guarded, dead, refresh>>

\* Every 401 starts a refresh of its own.
NoRefreshYetAlways(t) == TRUE

NoRefreshYet(t) == asked[t] = "no"

(* 401: the request waits for the one refresh of its tab. *)
Unauthorized(t, r) ==
    /\ req[t][r] \in {"sent", "resent"}
    /\ bearer[t][r] \in expired \cup {NoPair}
    /\ \/ /\ req[t][r] = "resent" \/ dead[t]
          /\ Rejects(t, {r}, user[t], stored)
          /\ UNCHANGED <<dead, refresh>>
       \/ /\ req[t][r] = "sent" /\ ~dead[t]
          /\ NoRefreshYet(t) /\ stored = NoPair
          /\ Rejects(t, {r}, FALSE, NoPair)     \* signalAuthLogout
          /\ dead' = [dead EXCEPT ![t] = TRUE]
          /\ UNCHANGED refresh
       \/ /\ req[t][r] = "sent" /\ ~dead[t]
          /\ ~(NoRefreshYet(t) /\ stored = NoPair)
          /\ Moves(t, {r}, "waiting", NoPair)
          /\ IF NoRefreshYet(t)
             THEN /\ asked' = [asked EXCEPT ![t] = "sent"]
                  /\ asking' = [asking EXCEPT ![t] = stored]
                  /\ presented' = [presented EXCEPT ![t][stored] = @ + 1]
             ELSE UNCHANGED <<asked, asking, presented>>
          /\ UNCHANGED <<stored, user, loading, modal, form, dead, answer>>
    /\ UNCHANGED <<server, guarded>>

(* The server: a refresh token is good for one pair. *)
RefreshServed(t) ==
    /\ asked[t] = "sent"
    /\ asked' = [asked EXCEPT ![t] = "served"]
    /\ IF asking[t] \in spent
       THEN UNCHANGED <<issued, spent, answer>>
       ELSE /\ issued < MaxPair
            /\ issued' = issued + 1
            /\ spent' = spent \cup {asking[t]}
            /\ answer' = [answer EXCEPT ![t] = issued']
    /\ UNCHANGED <<stored, expired, user, loading, modal, form, guarded, dead,
                   asking, presented, calls>>

RefreshIsOver(t) ==
    /\ asked' = [asked EXCEPT ![t] = "no"]
    /\ asking' = [asking EXCEPT ![t] = NoPair]
    /\ answer' = [answer EXCEPT ![t] = NoPair]
    /\ UNCHANGED presented

(* The new pair is stored; whoever waited is sent again with it. *)
Refreshed(t) ==
    /\ asked[t] = "served" /\ answer[t] # NoPair
    /\ stored' = answer[t]
    /\ dead' = [dead EXCEPT ![t] = FALSE]
    /\ Moves(t, Waiting(t), "resent", answer[t])
    /\ RefreshIsOver(t)
    /\ UNCHANGED <<server, user, loading, modal, form, guarded>>

(* What signalAuthLogout leaves in localStorage. *)
AfterLogout == NoPair

(* Refused, failed or lost: the session ends for everyone who waited, and *)
(* in localStorage for the other tabs too.                                *)
RefreshFailed(t) ==
    /\ asked[t] # "no"
    /\ Rejects(t, Waiting(t), FALSE, AfterLogout)
    /\ dead' = [dead EXCEPT ![t] = TRUE]
    /\ RefreshIsOver(t)
    /\ UNCHANGED <<server, guarded>>

--------------------------------------------------------------------------
Next ==
    \/ \E t \in Tab :
          \/ \E c \in Call : CallApi(t, c)
          \/ Navigate(t) \/ ToggleModal(t) \/ Submit(t) \/ LoginGranted(t)
          \/ LoginRefused(t) \/ Logout(t) \/ Reload(t)
          \/ \E r \in Request : Accepted(t, r) \/ Failed(t, r)
                                \/ Unauthorized(t, r)
          \/ RefreshServed(t) \/ Refreshed(t) \/ RefreshFailed(t)
    \/ \E p \in Pair : Expire(p)

Spec == Init /\ [][Next]_vars

--------------------------------------------------------------------------
(* Every variable keeps its type. *)
TypeOK ==
    /\ stored \in 0..issued /\ issued \in 0..MaxPair
    /\ spent \subseteq 1..issued /\ expired \subseteq 1..issued
    /\ user \in [Tab -> BOOLEAN] /\ loading \in [Tab -> BOOLEAN]
    /\ modal \in [Tab -> BOOLEAN] /\ guarded \in [Tab -> BOOLEAN]
    /\ form \in [Tab -> {"idle", "login", "me"}]
    /\ dead \in [Tab -> BOOLEAN]
    /\ asked \in [Tab -> {"no", "sent", "served"}]
    /\ asking \in [Tab -> 0..issued] /\ answer \in [Tab -> 0..issued]
    /\ req \in [Tab -> [Request -> Stage]]
    /\ bearer \in [Tab -> [Request -> 0..issued]]
    /\ presented \in [Tab -> [Pair -> Nat]]

(* However many requests come back with 401, and in whatever order, a     *)
(* page sends a refresh token once.  The server would answer the second   *)
(* use by ending the session that the first one had renewed.              *)
RefreshesOnce == \A t \in Tab, p \in Pair : presented[t][p] <= 1

(* Nobody waits for a refresh that is not under way, and no refresh is    *)
(* under way that nobody waits for.                                       *)
WaitersHaveARefresh ==
    \A t \in Tab :
        (\E r \in Request : req[t][r] = "waiting") <=> asked[t] # "no"

(* The start-up spinner and the disabled submit button stand for a        *)
(* request that is under way: neither stays when its request has failed,  *)
(* been refused or waited for a refresh that failed.                      *)
SpinnersEnd ==
    \A t \in Tab :
        /\ loading[t] <=> req[t][BootMe] # "none"
        /\ form[t] = "me" <=> req[t][LoginMe] # "none"

(* A page that needs a session and sees its user taken away asks to sign  *)
(* in there and then, whichever request did it. (What one tab does to the *)
(* stored tokens another tab notices by its own next 401, and this is the *)
(* step of that tab in which it does.)                                    *)
SignedOutIsAsked ==
    [][\A t \in Tab :
          guarded[t] /\ user[t] /\ ~user'[t] =>
              modal'[t] \/ loading'[t] \/ ~guarded'[t]]_vars
=============================================================================
