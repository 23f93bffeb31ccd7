------------------------------ MODULE Session ------------------------------
(***************************************************************************)
(* The browser's session: AuthProvider (src/contexts/AuthContext.tsx), the *)
(* interceptors of src/lib/api.ts and ProtectedRoute, in tabs of one       *)
(* browser that share localStorage.  A handler runs up to its next await   *)
(* in one step; responses arrive in any order.                             *)
(*                                                                         *)
(* Values are told apart by what the code can do with them: a token that   *)
(* the server issued, or the word "undefined" that setItem(undefined)      *)
(* stores; an account, or the array the response interceptor makes of it.  *)
(***************************************************************************)
EXTENDS Naturals, FiniteSets

CONSTANTS
    Tabs,
    SignIns,    \* the handlers that sign in, alike but for what is answered
    MaxLoads,   \* bound: loads of a tab that no redirect asks for
    MaxCalls    \* bound: handlers the user starts while others of the tab run

ASSUME SignInsAssumption == SignIns \subseteq {"login", "register", "googleLogin"}
ASSUME SessionBoundsAssumption == MaxLoads \in Nat /\ MaxCalls \in Nat

VARIABLES
    storage,  \* localStorage: the items "authToken" and "user"
    tab,      \* tab[t]: the reducer's state, and what React and the browser do next
    call,     \* call[t][k]: the call of handler k under way, by the token it carries
    loads     \* loads[t]: loads that no redirect asked for

vars == <<storage, tab, call, loads>>

\* The handlers that send a request.  "changePassword" stands for every call
\* whose result changes nothing here, as those of the administration pages.
Kinds == SignIns \union {"checkAuth", "logout", "updateProfile", "changePassword"}

Tokens == {"absent", "undefined", "issued"}
Stored == [token : Tokens, user : {"absent", "undefined", "account", "array"}]

\* "mounted": the effect has run; "dirty": a dispatch waits to be rendered;
\* "leaving": the document is about to be replaced by "/auth".
Tab == [open : BOOLEAN, user : {"null", "undefined", "account", "array"},
        auth : BOOLEAN, loading : BOOLEAN,
        mounted : BOOLEAN, dirty : BOOLEAN, leaving : BOOLEAN]

\* "clicked": the handler waits before it sends.
CallState == {"idle", "clicked"} \union Tokens

NoItems == [token |-> "absent", user |-> "absent"]
Idle == [k \in Kinds |-> "idle"]
SignedOut == [open |-> TRUE, user |-> "null", auth |-> FALSE, loading |-> FALSE,
              mounted |-> FALSE, dirty |-> FALSE, leaving |-> FALSE]

\* A browser is new, or has a session from before responses were wrapped
\* (DEPLOYMENT_FIXES.md, "API Response Validation").
Init ==
    /\ storage \in {NoItems, [token |-> "issued", user |-> "account"]}
    /\ tab = [t \in Tabs |-> [SignedOut EXCEPT !.open = FALSE]]
    /\ call = [t \in Tabs |-> Idle]
    /\ loads = [t \in Tabs |-> 0]

-----------------------------------------------------------------------------
(***************************************************************************)
(* getInitialState(), which is called on every render of AuthProvider, not *)
(* only on the first.                                                      *)
(***************************************************************************)
Readable == storage.token # "absent" /\ storage.user # "absent"

\* JSON.parse rejects the word "undefined", and both items are removed.
Swept == IF Readable /\ storage.user = "undefined" THEN NoItems ELSE storage

\* The state a page starts with.
InitialState ==
    IF Readable /\ storage.user # "undefined"
    THEN [SignedOut EXCEPT !.user = storage.user, !.auth = TRUE]
    ELSE SignedOut

\* The tab is opened or reloaded, or follows a redirect.  Handlers under way
\* end with the old document.
Load(t) ==
    /\ \/ tab[t].leaving /\ UNCHANGED loads
       \/ loads[t] < MaxLoads /\ loads' = [loads EXCEPT ![t] = @ + 1]
    /\ tab' = [tab EXCEPT ![t] = InitialState]
    /\ call' = [call EXCEPT ![t] = Idle]
    /\ storage' = Swept

\* React renders what was dispatched.
Render(t) ==
    /\ tab[t].dirty
    /\ tab' = [tab EXCEPT ![t].dirty = FALSE]
    /\ storage' = Swept
    /\ UNCHANGED <<call, loads>>

-----------------------------------------------------------------------------
(***************************************************************************)
(* The reducer: the actions that sign in, fail or sign out.                *)
(***************************************************************************)
AuthStart(s) == [s EXCEPT !.loading = TRUE, !.dirty = TRUE]
AuthSuccess(s, u) ==
    [s EXCEPT !.user = u, !.auth = TRUE, !.loading = FALSE, !.dirty = TRUE]
\* Mutant of AuthEnd: the user is left behind.
AuthEndKeepsUser(s) == [s EXCEPT !.auth = FALSE, !.loading = FALSE, !.dirty = TRUE]

\* AUTH_FAILURE and AUTH_LOGOUT differ in the error message.
AuthEnd(s) ==
    [s EXCEPT !.user = "null", !.auth = FALSE, !.loading = FALSE, !.dirty = TRUE]
UpdateUser(s, u) == [s EXCEPT !.user = u, !.dirty = TRUE]

(***************************************************************************)
(* The interceptors.                                                       *)
(***************************************************************************)

\* The request carries the token that is stored when it is sent.
Send(t, k) == call' = [call EXCEPT ![t][k] = storage.token]
Returns(t, k) == call' = [call EXCEPT ![t][k] = "idle"]

\* A response under /api/ whose body is an object is put in an array.
Wrapped(body) == IF body = "object" THEN "array" ELSE body

\* Mutant of UserIn: a missing user is stored as null.
UserInNull(data) == IF data = "object" THEN "account" ELSE "null"

\* What "const { user, token } = response.data" finds.
TokenIn(data) == IF data = "object" THEN "issued" ELSE "undefined"
UserIn(data) == IF data = "object" THEN "account" ELSE "undefined"

\* What response.data is as the user of updateProfile().
AsUser(data) == IF data = "object" THEN "account" ELSE "array"

\* register() has no 401, and google_login() finds no id_token in a request
\* that names it token.  jwt_required answers 401 unless the token is one the
\* server issued; with one it may (expired, suspended).  GET /auth/profile
\* never succeeds: jsonify() rejects the ObjectId of the document.
Answers(k, carried) ==
    CASE k = "googleLogin" -> {"error"}
      [] k = "register" -> {"ok", "error"}
      [] k = "login" -> {"ok", "401", "error"}
      [] k = "checkAuth" -> {"401", "error"}
      [] OTHER -> IF carried = "issued" THEN {"ok", "401", "error"} ELSE {"401", "error"}

\* Bound: one call of a handler at a time, and MaxCalls of a tab.
MayStart(t, k) ==
    /\ call[t][k] = "idle"
    /\ Cardinality({h \in Kinds : call[t][h] # "idle"}) < MaxCalls

UnderWay(t, k) == call[t][k] \in Tokens

\* The error interceptor: on 401 the items go and the page is left.
Intercepted(answer) == IF answer = "401" THEN NoItems ELSE storage
Leaving(s, answer) == [s EXCEPT !.leaving = @ \/ answer = "401"]

-----------------------------------------------------------------------------
(***************************************************************************)
(* The handlers.                                                           *)
(***************************************************************************)

\* The effect of AuthProvider starts checkAuth(), which ends at once if no
\* token is stored.
Mount(t) ==
    /\ tab[t].open /\ ~tab[t].mounted
    /\ IF storage.token = "absent"
       THEN /\ tab' = [tab EXCEPT ![t] = [AuthEnd(@) EXCEPT !.mounted = TRUE]]
            /\ UNCHANGED call
       ELSE /\ tab' = [tab EXCEPT ![t].mounted = TRUE]
            /\ Send(t, "checkAuth")
    /\ UNCHANGED <<storage, loads>>

\* Mutant of CheckAuthFailed: only the items are removed.
CheckAuthFailedSilent(t) ==
    /\ UnderWay(t, "checkAuth")
    /\ \E a \in Answers("checkAuth", call[t]["checkAuth"]) :
         tab' = [tab EXCEPT ![t] = Leaving(@, a)]
    /\ storage' = NoItems
    /\ Returns(t, "checkAuth")
    /\ UNCHANGED loads

\* checkAuth() gets no profile.
CheckAuthFailed(t) ==
    /\ UnderWay(t, "checkAuth")
    /\ \E a \in Answers("checkAuth", call[t]["checkAuth"]) :
         tab' = [tab EXCEPT ![t] = AuthEnd(Leaving(@, a))]
    /\ storage' = NoItems
    /\ Returns(t, "checkAuth")
    /\ UNCHANGED loads

\* The sign-in forms are shown unless AuthPage has a user to send on.
SignIn(t, k) ==
    /\ tab[t].open /\ MayStart(t, k)
    /\ ~(tab[t].auth /\ tab[t].user \in {"account", "array"})
    /\ tab' = [tab EXCEPT ![t] = AuthStart(@)]
    /\ Send(t, k)
    /\ UNCHANGED <<storage, loads>>

SignInOk(t, k) ==
    /\ UnderWay(t, k)
    /\ "ok" \in Answers(k, call[t][k])
    /\ LET data == Wrapped("object")
       IN /\ storage' = [token |-> TokenIn(data), user |-> UserIn(data)]
          /\ tab' = [tab EXCEPT ![t] = AuthSuccess(@, UserIn(data))]
    /\ Returns(t, k)
    /\ UNCHANGED loads

\* Mutant of SignInFailed: nothing is dispatched.
SignInFailedSilent(t, k) ==
    /\ UnderWay(t, k)
    /\ \E a \in Answers(k, call[t][k]) \ {"ok"} :
         /\ storage' = Intercepted(a)
         /\ tab' = [tab EXCEPT ![t] = Leaving(@, a)]
    /\ Returns(t, k)
    /\ UNCHANGED loads

SignInFailed(t, k) ==
    /\ UnderWay(t, k)
    /\ \E a \in Answers(k, call[t][k]) \ {"ok"} :
         /\ storage' = Intercepted(a)
         /\ tab' = [tab EXCEPT ![t] = AuthEnd(Leaving(@, a))]
    /\ Returns(t, k)
    /\ UNCHANGED loads

\* The button is shown while isAuthenticated.
Logout(t) ==
    /\ tab[t].open /\ tab[t].auth /\ MayStart(t, "logout")
    /\ Send(t, "logout")
    /\ UNCHANGED <<storage, tab, loads>>

\* Mutant of LogoutDone: the user goes and the token stays.
LogoutDoneHalf(t) ==
    /\ UnderWay(t, "logout")
    /\ \E a \in Answers("logout", call[t]["logout"]) :
         tab' = [tab EXCEPT ![t] = AuthEnd(Leaving(@, a))]
    /\ storage' = [storage EXCEPT !.user = "absent"]
    /\ Returns(t, "logout")
    /\ UNCHANGED loads

\* Whatever the server answers, the tab signs out.
LogoutDone(t) ==
    /\ UnderWay(t, "logout")
    /\ \E a \in Answers("logout", call[t]["logout"]) :
         tab' = [tab EXCEPT ![t] = AuthEnd(Leaving(@, a))]
    /\ storage' = NoItems
    /\ Returns(t, "logout")
    /\ UNCHANGED loads

\* The profile and subscription pages need a user when they are used; an
\* upgrade then waits two seconds before it sends.
ClickUpdate(t) ==
    /\ tab[t].auth /\ tab[t].user \in {"account", "array"}
    /\ MayStart(t, "updateProfile")
    /\ call' = [call EXCEPT ![t]["updateProfile"] = "clicked"]
    /\ UNCHANGED <<storage, tab, loads>>

UpdateProfile(t) ==
    /\ call[t]["updateProfile"] = "clicked"
    /\ Send(t, "updateProfile")
    /\ UNCHANGED <<storage, tab, loads>>

UpdateProfileOk(t) ==
    /\ UnderWay(t, "updateProfile")
    /\ "ok" \in Answers("updateProfile", call[t]["updateProfile"])
    /\ LET u == AsUser(Wrapped("object"))
       IN /\ storage' = [storage EXCEPT !.user = u]
          /\ tab' = [tab EXCEPT ![t] = UpdateUser(@, u)]
    /\ Returns(t, "updateProfile")
    /\ UNCHANGED loads

ChangePassword(t) ==
    /\ tab[t].auth /\ tab[t].user \in {"account", "array"}
    /\ MayStart(t, "changePassword")
    /\ Send(t, "changePassword")
    /\ UNCHANGED <<storage, tab, loads>>

\* The handlers that leave the session alone: only the interceptor acts.
CallFailed(t, k) ==
    /\ UnderWay(t, k)
    /\ \E a \in Answers(k, call[t][k]) \ {"ok"} :
         /\ storage' = Intercepted(a)
         /\ tab' = [tab EXCEPT ![t] = Leaving(@, a)]
    /\ Returns(t, k)
    /\ UNCHANGED loads

ChangePasswordOk(t) ==
    /\ UnderWay(t, "changePassword")
    /\ "ok" \in Answers("changePassword", call[t]["changePassword"])
    /\ Returns(t, "changePassword")
    /\ UNCHANGED <<storage, tab, loads>>

-----------------------------------------------------------------------------
Respond(t, k) ==
    \/ k = "checkAuth" /\ CheckAuthFailed(t)
    \/ k \in SignIns /\ (SignInOk(t, k) \/ SignInFailed(t, k))
    \/ k = "logout" /\ LogoutDone(t)
    \/ k = "updateProfile" /\ (UpdateProfileOk(t) \/ CallFailed(t, k))
    \/ k = "changePassword" /\ (ChangePasswordOk(t) \/ CallFailed(t, k))

Next ==
    \E t \in Tabs :
      \/ Load(t) \/ Render(t) \/ Mount(t)
      \/ \E k \in SignIns : SignIn(t, k)
      \/ Logout(t) \/ ClickUpdate(t) \/ UpdateProfile(t) \/ ChangePassword(t)
      \/ \E k \in Kinds : Respond(t, k)

Spec == Init /\ [][Next]_vars

(***************************************************************************)
(* React runs effects and renders, timers fire, a request is answered or   *)
(* fails, and a redirect is followed.  Nothing is assumed of the user.     *)
(***************************************************************************)
Fairness ==
    \A t \in Tabs :
      /\ WF_vars(Mount(t)) /\ WF_vars(Render(t)) /\ WF_vars(UpdateProfile(t))
      /\ WF_vars(tab[t].leaving /\ Load(t))
      /\ \A k \in Kinds : WF_vars(Respond(t, k))

FairSpec == Spec /\ Fairness

-----------------------------------------------------------------------------
TypeOK ==
    /\ storage \in Stored
    /\ tab \in [Tabs -> Tab]
    /\ call \in [Tabs -> [Kinds -> CallState]]
    /\ loads \in [Tabs -> 0..MaxLoads]

\* App shows the administration links by the user alone (line 20).  Still,
\* no answer that comes late brings them back to a tab that signed out.
AdminLinks(t) == tab[t].user = "account"
AdminLinksSignedIn == \A t \in Tabs : AdminLinks(t) => tab[t].auth

\* Whichever tab stores or removes the items, a token the server issued is
\* never left without a user, so that no page starts signed out with it.
TokenHasUser == storage.token = "issued" => storage.user \in {"account", "array"}

\* The spinner of ProtectedRoute is shown only while a sign-in of this tab
\* waits for its answer, though all handlers share one flag.  It is what
\* LoadingEnds needs besides fairness.
SpinnerHasSignIn ==
    \A t \in Tabs : tab[t].loading => \E k \in SignIns : UnderWay(t, k)

\* In a browser with one tab: as long as a page shows an account, its token
\* is in storage, unless the page is about to be left.
AccountHasToken ==
    \A t \in Tabs :
      tab[t].user = "account" /\ ~tab[t].leaving => storage.token = "issued"

\* The spinner of ProtectedRoute ends, however sign-ins overlap.
LoadingEnds == \A t \in Tabs : tab[t].loading ~> ~tab[t].loading

\* Tokens live 24 hours (docs/AUTHENTICATION.md line 76): before the server
\* refuses one with 401, only a sign-out takes a stored one away.  The code
\* takes it away whenever checkAuth() fails, and checkAuth() never succeeds.
StoredTokenLasts ==
    [][ storage.token = "issued" /\ storage'.token = "absent" =>
          \E t \in Tabs :
            \/ LogoutDone(t)
            \/ tab'[t].leaving /\ \E k \in Kinds : call[t][k] = "issued" /\ Returns(t, k)
      ]_vars

\* "Token Storage" follows the sign-in (docs/AUTHENTICATION.md line 56).
\* The code stores the word "undefined".
SignInStoresToken ==
    [][ \A t \in Tabs : \A k \in SignIns :
          SignInOk(t, k) => storage'.token = "issued" ]_vars
=============================================================================
