--------------------------- MODULE SessionProofs ---------------------------
(***************************************************************************)
(* Theorems about Session, for any tabs, sign-in handlers and bounds.      *)
(***************************************************************************)
EXTENDS Session, TLAPS

-----------------------------------------------------------------------------
(***************************************************************************)
(* Types.                                                                  *)
(***************************************************************************)
LEMMA Shapes ==
  ASSUME TypeOK
  PROVE  /\ storage \in Stored /\ Swept \in Stored /\ NoItems \in Stored
         /\ InitialState \in Tab
         /\ Idle \in [Kinds -> CallState]
         /\ \A t \in Tabs : tab[t] \in Tab
         /\ \A a : Intercepted(a) \in Stored
<1>1. storage \in Stored /\ NoItems \in Stored
  BY DEF TypeOK, NoItems, Stored, Tokens
<1>2. Swept \in Stored /\ \A a : Intercepted(a) \in Stored
  BY <1>1 DEF Swept, Intercepted
<1>3. InitialState \in Tab
  <2>1. CASE Readable /\ storage.user # "undefined"
    <3>1. storage.user \in {"account", "array"}
      BY <1>1, <2>1 DEF Readable, Stored
    <3> QED
      BY <2>1, <3>1 DEF InitialState, SignedOut, Tab
  <2>2. CASE ~(Readable /\ storage.user # "undefined")
    BY <2>2 DEF InitialState, SignedOut, Tab
  <2> QED
    BY <2>1, <2>2
<1>4. Idle \in [Kinds -> CallState]
  BY DEF Idle, CallState
<1> QED
  BY <1>1, <1>2, <1>3, <1>4 DEF TypeOK

\* What the reducer and the interceptor make of the state of a tab.
LEMMA Reduced ==
  ASSUME NEW s \in Tab
  PROVE  /\ AuthStart(s) \in Tab /\ AuthEnd(s) \in Tab
         /\ AuthSuccess(s, "undefined") \in Tab /\ UpdateUser(s, "array") \in Tab
         /\ \A a : Leaving(s, a) \in Tab /\ AuthEnd(Leaving(s, a)) \in Tab
         /\ AuthStart(s).user = s.user /\ AuthStart(s).auth = s.auth
         /\ AuthStart(s).loading = TRUE
         /\ AuthEnd(s).user = "null"
         /\ AuthSuccess(s, "undefined").user = "undefined"
         /\ UpdateUser(s, "array").user = "array"
         /\ \A a : /\ AuthEnd(Leaving(s, a)).user = "null"
                   /\ Leaving(s, a).user = s.user /\ Leaving(s, a).auth = s.auth
                   /\ Leaving(s, a).loading = s.loading
BY DEF AuthStart, AuthEnd, AuthSuccess, UpdateUser, Leaving, Tab

\* Responses are wrapped before the handlers look into them.
LEMMA NothingFound ==
  /\ TokenIn(Wrapped("object")) = "undefined"
  /\ UserIn(Wrapped("object")) = "undefined"
  /\ AsUser(Wrapped("object")) = "array"
BY DEF Wrapped, TokenIn, UserIn, AsUser

LEMMA OneTab ==
  ASSUME TypeOK, NEW t \in Tabs, NEW d \in Tab, tab' = [tab EXCEPT ![t] = d]
  PROVE  /\ tab' \in [Tabs -> Tab] /\ tab'[t] = d
         /\ \A u \in Tabs : u # t => tab'[u] = tab[u]
BY DEF TypeOK

LEMMA OneCall ==
  ASSUME TypeOK, NEW t \in Tabs, NEW k \in Kinds, NEW c \in CallState,
         call' = [call EXCEPT ![t][k] = c]
  PROVE  call' \in [Tabs -> [Kinds -> CallState]]
BY DEF TypeOK

LEMMA CallTypes ==
  ASSUME TypeOK, NEW t \in Tabs, NEW k \in Kinds
  PROVE  Send(t, k) \/ Returns(t, k) => call' \in [Tabs -> [Kinds -> CallState]]
<1>1. storage.token \in CallState /\ "idle" \in CallState
  BY DEF TypeOK, Stored, CallState
<1>2. CASE Send(t, k)
  BY <1>1, <1>2, OneCall DEF Send
<1>3. CASE Returns(t, k)
  BY <1>1, <1>3, OneCall DEF Returns
<1> QED
  BY <1>2, <1>3

-----------------------------------------------------------------------------
(***************************************************************************)
(* Every step leaves a tab's user in place, takes it away, or loads the    *)
(* page; and storage only ever loses the token the server issued.          *)
(***************************************************************************)
Kept(t) ==
    /\ tab'[t].user = tab[t].user /\ tab'[t].auth = tab[t].auth
    /\ tab[t].loading => tab'[t].loading
Lost(t) == tab'[t].user # "account"
Reloaded(t) == Load(t) /\ tab'[t] = InitialState

Word == [token |-> "undefined", user |-> "undefined"]
StorageStep ==
    \/ storage' \in {storage, Swept, NoItems, Word}
    \/ storage' = [storage EXCEPT !.user = "array"]

Effect ==
    /\ tab' \in [Tabs -> Tab]
    /\ call' \in [Tabs -> [Kinds -> CallState]]
    /\ loads' \in [Tabs -> 0..MaxLoads]
    /\ StorageStep
    /\ \A t \in Tabs : Kept(t) \/ Lost(t) \/ Reloaded(t)

LEMMA KindsOf ==
  /\ "checkAuth" \in Kinds /\ "logout" \in Kinds
  /\ "updateProfile" \in Kinds /\ "changePassword" \in Kinds
  /\ SignIns \subseteq Kinds
BY DEF Kinds

\* The other tabs, and all of them where only calls change.
LEMMA Others ==
  ASSUME TypeOK, NEW t \in Tabs, \A u \in Tabs : u # t => tab'[u] = tab[u],
         Kept(t) \/ Lost(t) \/ Reloaded(t)
  PROVE  \A u \in Tabs : Kept(u) \/ Lost(u) \/ Reloaded(u)
BY DEF Kept

LEMMA LoadEffect ==
  ASSUME TypeOK, NEW t \in Tabs, Load(t)
  PROVE  Effect
<1>1. InitialState \in Tab /\ Idle \in [Kinds -> CallState]
  BY Shapes
<1>2. /\ tab' \in [Tabs -> Tab] /\ tab'[t] = InitialState
      /\ \A u \in Tabs : u # t => tab'[u] = tab[u]
  BY <1>1, OneTab DEF Load
<1>3. call' \in [Tabs -> [Kinds -> CallState]]
  BY <1>1 DEF Load, TypeOK
<1>4. loads' \in [Tabs -> 0..MaxLoads]
  BY SessionBoundsAssumption DEF Load, TypeOK
<1>5. \A u \in Tabs : Kept(u) \/ Lost(u) \/ Reloaded(u)
  BY <1>2, Others DEF Reloaded
<1> QED
  BY <1>2, <1>3, <1>4, <1>5 DEF Effect, StorageStep, Load

LEMMA RenderEffect ==
  ASSUME TypeOK, NEW t \in Tabs, Render(t)
  PROVE  Effect
<1> DEFINE d == [tab[t] EXCEPT !.dirty = FALSE]
<1>1. d \in Tab /\ d.user = tab[t].user /\ d.auth = tab[t].auth /\ d.loading = tab[t].loading
  BY Shapes DEF Tab
<1>2. tab' = [tab EXCEPT ![t] = d]
  BY DEF Render
<1> HIDE DEF d
<1>3. /\ tab' \in [Tabs -> Tab] /\ tab'[t] = d
      /\ \A u \in Tabs : u # t => tab'[u] = tab[u]
  BY <1>1, <1>2, OneTab
<1>4. \A u \in Tabs : Kept(u) \/ Lost(u) \/ Reloaded(u)
  BY <1>1, <1>3, Others DEF Kept
<1> QED
  BY <1>3, <1>4 DEF Effect, StorageStep, Render, TypeOK

LEMMA MountEffect ==
  ASSUME TypeOK, NEW t \in Tabs, Mount(t)
  PROVE  Effect
<1>0. tab[t] \in Tab /\ UNCHANGED <<storage, loads>>
  BY Shapes DEF Mount
<1>1. CASE storage.token = "absent"
  <2> DEFINE e == AuthEnd(tab[t])
             d == [e EXCEPT !.mounted = TRUE]
  <2>1. e \in Tab /\ e.user = "null"
    BY <1>0, Reduced
  <2>2. tab' = [tab EXCEPT ![t] = d] /\ UNCHANGED call
    BY <1>1 DEF Mount
  <2> HIDE DEF e
  <2>3. d \in Tab /\ d.user = "null"
    BY <2>1 DEF Tab
  <2> HIDE DEF d
  <2>4. /\ tab' \in [Tabs -> Tab] /\ tab'[t] = d
        /\ \A u \in Tabs : u # t => tab'[u] = tab[u]
    BY <2>2, <2>3, OneTab
  <2>5. \A u \in Tabs : Kept(u) \/ Lost(u) \/ Reloaded(u)
    BY <2>3, <2>4, Others DEF Lost
  <2> QED
    BY <1>0, <2>2, <2>4, <2>5 DEF Effect, StorageStep, TypeOK
<1>2. CASE storage.token # "absent"
  <2> DEFINE d == [tab[t] EXCEPT !.mounted = TRUE]
  <2>1. d \in Tab /\ d.user = tab[t].user /\ d.auth = tab[t].auth /\ d.loading = tab[t].loading
    BY <1>0 DEF Tab
  <2>2. tab' = [tab EXCEPT ![t] = d] /\ Send(t, "checkAuth")
    BY <1>2 DEF Mount
  <2> HIDE DEF d
  <2>3. /\ tab' \in [Tabs -> Tab] /\ tab'[t] = d
        /\ \A u \in Tabs : u # t => tab'[u] = tab[u]
    BY <2>1, <2>2, OneTab
  <2>4. \A u \in Tabs : Kept(u) \/ Lost(u) \/ Reloaded(u)
    BY <2>1, <2>3, Others DEF Kept
  <2>5. call' \in [Tabs -> [Kinds -> CallState]]
    BY <2>2, CallTypes, KindsOf
  <2> QED
    BY <1>0, <2>3, <2>4, <2>5 DEF Effect, StorageStep, TypeOK
<1> QED
  BY <1>1, <1>2

\* A handler changes the state of its tab and its own call.
LEMMA HandlerEffect ==
  ASSUME TypeOK, NEW t \in Tabs, NEW k \in Kinds, NEW d \in Tab,
         tab' = [tab EXCEPT ![t] = d],
         \/ d.user # "account"
         \/ /\ d.user = tab[t].user /\ d.auth = tab[t].auth
            /\ tab[t].loading => d.loading,
         Send(t, k) \/ Returns(t, k),
         StorageStep, UNCHANGED loads
  PROVE  Effect
<1>1. /\ tab' \in [Tabs -> Tab] /\ tab'[t] = d
      /\ \A u \in Tabs : u # t => tab'[u] = tab[u]
  BY OneTab
<1>2. Kept(t) \/ Lost(t)
  BY <1>1 DEF Kept, Lost
<1>3. \A u \in Tabs : Kept(u) \/ Lost(u) \/ Reloaded(u)
  BY <1>1, <1>2, Others
<1> QED
  BY <1>1, <1>3, CallTypes DEF Effect, TypeOK

\* Only a call changes.
LEMMA CallEffect ==
  ASSUME TypeOK, NEW t \in Tabs, NEW k \in Kinds, NEW c \in CallState,
         call' = [call EXCEPT ![t][k] = c], UNCHANGED <<storage, tab, loads>>
  PROVE  Effect
<1>1. call' \in [Tabs -> [Kinds -> CallState]]
  BY OneCall
<1>2. \A u \in Tabs : Kept(u)
  BY DEF Kept
<1> QED
  BY <1>1, <1>2 DEF Effect, StorageStep, TypeOK

LEMMA UserSteps ==
  ASSUME TypeOK, NEW t \in Tabs,
         \/ \E k \in SignIns : SignIn(t, k)
         \/ Logout(t) \/ ClickUpdate(t) \/ UpdateProfile(t) \/ ChangePassword(t)
  PROVE  Effect
<1>0. tab[t] \in Tab /\ storage.token \in CallState /\ "clicked" \in CallState
  BY Shapes DEF Stored, CallState
<1>1. ASSUME NEW k \in SignIns, SignIn(t, k)
      PROVE  Effect
  <2> DEFINE d == AuthStart(tab[t])
  <2>1. d \in Tab /\ d.user = tab[t].user /\ d.auth = tab[t].auth /\ d.loading = TRUE
    BY <1>0, Reduced
  <2>2. tab' = [tab EXCEPT ![t] = d] /\ Send(t, k) /\ UNCHANGED <<storage, loads>>
    BY <1>1 DEF SignIn
  <2> HIDE DEF d
  <2> QED
    BY <2>1, <2>2, KindsOf, HandlerEffect DEF StorageStep
<1>2. CASE Logout(t)
  BY <1>0, <1>2, KindsOf, CallEffect DEF Logout, Send
<1>3. CASE ClickUpdate(t)
  BY <1>0, <1>3, KindsOf, CallEffect DEF ClickUpdate
<1>4. CASE UpdateProfile(t)
  BY <1>0, <1>4, KindsOf, CallEffect DEF UpdateProfile, Send
<1>5. CASE ChangePassword(t)
  BY <1>0, <1>5, KindsOf, CallEffect DEF ChangePassword, Send
<1> QED
  BY <1>1, <1>2, <1>3, <1>4, <1>5

\* An answer that ends the session of the tab, whatever is stored then.
LEMMA EndEffect ==
  ASSUME TypeOK, NEW t \in Tabs, NEW k \in Kinds, NEW a,
         tab' = [tab EXCEPT ![t] = AuthEnd(Leaving(tab[t], a))],
         Returns(t, k), storage' \in {storage, NoItems}, UNCHANGED loads
  PROVE  Effect
<1> DEFINE d == AuthEnd(Leaving(tab[t], a))
<1>1. d \in Tab /\ d.user = "null"
  BY Shapes, Reduced
<1>2. tab' = [tab EXCEPT ![t] = d]
  OBVIOUS
<1> HIDE DEF d
<1> QED
  BY <1>1, <1>2, HandlerEffect DEF StorageStep

LEMMA Responses ==
  ASSUME TypeOK, NEW t \in Tabs, NEW k \in Kinds, Respond(t, k)
  PROVE  Effect
<1>0. tab[t] \in Tab
  BY Shapes
<1>1. CASE k = "checkAuth" /\ CheckAuthFailed(t)
  BY <1>1, EndEffect DEF CheckAuthFailed
<1>2. CASE SignInOk(t, k)
  <2> DEFINE d == AuthSuccess(tab[t], "undefined")
  <2>1. d \in Tab /\ d.user = "undefined"
    BY <1>0, Reduced
  <2>2. tab' = [tab EXCEPT ![t] = d] /\ storage' = Word
        /\ Returns(t, k) /\ UNCHANGED loads
    BY <1>2, NothingFound DEF SignInOk, Word
  <2> HIDE DEF d
  <2> QED
    BY <2>1, <2>2, HandlerEffect DEF StorageStep
<1>3. CASE SignInFailed(t, k)
  BY <1>3, EndEffect DEF SignInFailed, Intercepted
<1>4. CASE k = "logout" /\ LogoutDone(t)
  BY <1>4, EndEffect DEF LogoutDone
<1>5. CASE k = "updateProfile" /\ UpdateProfileOk(t)
  <2> DEFINE d == UpdateUser(tab[t], "array")
  <2>1. d \in Tab /\ d.user = "array"
    BY <1>0, Reduced
  <2>2. tab' = [tab EXCEPT ![t] = d] /\ storage' = [storage EXCEPT !.user = "array"]
        /\ Returns(t, k) /\ UNCHANGED loads
    BY <1>5, NothingFound DEF UpdateProfileOk
  <2> HIDE DEF d
  <2> QED
    BY <2>1, <2>2, HandlerEffect DEF StorageStep
<1>6. CASE CallFailed(t, k)
  <2>1. PICK a : /\ storage' = Intercepted(a)
                 /\ tab' = [tab EXCEPT ![t] = Leaving(tab[t], a)]
                 /\ Returns(t, k) /\ UNCHANGED loads
    BY <1>6 DEF CallFailed
  <2> DEFINE d == Leaving(tab[t], a)
  <2>2. d \in Tab /\ d.user = tab[t].user /\ d.auth = tab[t].auth
        /\ d.loading = tab[t].loading
    BY <1>0 DEF Leaving, Tab
  <2>3. tab' = [tab EXCEPT ![t] = d] /\ StorageStep
    BY <2>1 DEF StorageStep, Intercepted
  <2> HIDE DEF d
  <2> QED
    BY <2>1, <2>2, <2>3, HandlerEffect
<1>7. CASE k = "changePassword" /\ ChangePasswordOk(t)
  <2>1. "idle" \in CallState
    BY DEF CallState
  <2> QED
    BY <1>7, <2>1, CallEffect DEF ChangePasswordOk, Returns
<1> QED
  BY <1>1, <1>2, <1>3, <1>4, <1>5, <1>6, <1>7 DEF Respond

LEMMA Effects ==
  ASSUME TypeOK, [Next]_vars
  PROVE  Effect
<1>1. CASE UNCHANGED vars
  BY <1>1 DEF vars, Effect, StorageStep, Kept, TypeOK
<1>2. CASE Next
  BY <1>2, LoadEffect, RenderEffect, MountEffect, UserSteps, Responses DEF Next
<1> QED
  BY <1>1, <1>2

-----------------------------------------------------------------------------
\* The items, the tabs and the calls keep their shape.
THEOREM TypeCorrect == Spec => []TypeOK
<1>1. Init => TypeOK
  <2> SUFFICES ASSUME Init PROVE TypeOK
    OBVIOUS
  <2>1. storage \in Stored
    BY DEF Init, NoItems, Stored, Tokens
  <2>2. tab \in [Tabs -> Tab]
    BY DEF Init, SignedOut, Tab
  <2>3. call \in [Tabs -> [Kinds -> CallState]]
    BY DEF Init, Idle, CallState
  <2>4. loads \in [Tabs -> 0..MaxLoads]
    BY SessionBoundsAssumption DEF Init
  <2> QED
    BY <2>1, <2>2, <2>3, <2>4 DEF TypeOK
<1>2. TypeOK /\ [Next]_vars => TypeOK'
  <2> SUFFICES ASSUME TypeOK, [Next]_vars PROVE TypeOK'
    OBVIOUS
  <2>1. Effect
    BY Effects
  <2>2. storage' \in Stored
    <3>1. CASE storage' \in {storage, Swept, NoItems, Word}
      BY <3>1, Shapes DEF Word, Stored, Tokens
    <3>2. CASE storage' = [storage EXCEPT !.user = "array"]
      BY <3>2, Shapes DEF Stored
    <3> QED
      BY <2>1, <3>1, <3>2 DEF Effect, StorageStep
  <2> QED
    BY <2>1, <2>2 DEF TypeOK, Effect
<1> QED
  BY <1>1, <1>2, PTL DEF Spec

\* The administration links are shown to no tab that is signed out.
THEOREM LinksOnlySignedIn == Spec => []AdminLinksSignedIn
<1>1. Init => AdminLinksSignedIn
  BY DEF Init, AdminLinksSignedIn, AdminLinks, SignedOut
<1>2. TypeOK /\ AdminLinksSignedIn /\ [Next]_vars => AdminLinksSignedIn'
  <2> SUFFICES ASSUME TypeOK, AdminLinksSignedIn, [Next]_vars,
                      NEW t \in Tabs, tab'[t].user = "account"
               PROVE  tab'[t].auth
    BY DEF AdminLinksSignedIn, AdminLinks
  <2>1. Kept(t) \/ Lost(t) \/ Reloaded(t)
    BY Effects DEF Effect
  <2>2. CASE Kept(t)
    BY <2>2 DEF Kept, AdminLinksSignedIn, AdminLinks
  <2>3. CASE Reloaded(t)
    <3>1. tab'[t] = InitialState
      BY <2>3 DEF Reloaded
    <3>2. InitialState.user = "account" => InitialState.auth
      BY DEF InitialState, SignedOut
    <3> QED
      BY <3>1, <3>2
  <2> QED
    BY <2>1, <2>2, <2>3 DEF Lost
<1> QED
  BY <1>1, <1>2, TypeCorrect, PTL DEF Spec

\* A token the server issued is never stored without a user.
THEOREM IssuedTokenHasUser == Spec => []TokenHasUser
<1>1. Init => TokenHasUser
  BY DEF Init, TokenHasUser, NoItems
<1>2. TypeOK /\ TokenHasUser /\ [Next]_vars => TokenHasUser'
  <2> SUFFICES ASSUME TypeOK, TokenHasUser, StorageStep PROVE TokenHasUser'
    BY Effects DEF Effect
  <2>1. storage \in Stored
    BY Shapes
  <2>2. CASE storage' \in {storage, Swept, NoItems, Word}
    BY <2>1, <2>2 DEF Swept, NoItems, Word, TokenHasUser
  <2>3. CASE storage' = [storage EXCEPT !.user = "array"]
    BY <2>1, <2>3 DEF TokenHasUser, Stored
  <2> QED
    BY <2>2, <2>3 DEF StorageStep
<1> QED
  BY <1>1, <1>2, TypeCorrect, PTL DEF Spec

-----------------------------------------------------------------------------
(***************************************************************************)
(* What a step of one tab does to what the invariants below relate: its    *)
(* account and the stored token, its spinner and the sign-ins, its mounted *)
(* page and checkAuth().                                                   *)
(***************************************************************************)
AccountStep(t) ==
    tab'[t].user = "account" /\ ~tab'[t].leaving =>
      \/ tab'[t] = InitialState /\ storage' = Swept
      \/ tab[t].user = "account" /\ ~tab[t].leaving /\ storage' \in {storage, Swept}

SpinnerStep(t) ==
    tab'[t].loading =>
      \/ \E k \in SignIns : call'[t][k] \in Tokens
      \/ tab[t].loading /\ \A k \in SignIns : call'[t][k] = call[t][k]

CheckStep(t) ==
    tab'[t].mounted /\ storage'.token = "issued" =>
      \/ call'[t]["checkAuth"] \in Tokens
      \/ tab[t].mounted /\ call'[t]["checkAuth"] = call[t]["checkAuth"]

Acts(t) ==
    /\ \A u \in Tabs : u # t => tab'[u] = tab[u] /\ call'[u] = call[u]
    /\ AccountStep(t) /\ SpinnerStep(t) /\ CheckStep(t)

LEMMA OneCallOnly ==
  ASSUME TypeOK, NEW t \in Tabs, NEW k \in Kinds, NEW c,
         call' = [call EXCEPT ![t][k] = c]
  PROVE  /\ call'[t][k] = c
         /\ \A h \in Kinds : h # k => call'[t][h] = call[t][h]
         /\ \A u \in Tabs : u # t => call'[u] = call[u]
BY DEF TypeOK

LEMMA NotSignIns ==
  /\ "checkAuth" \notin SignIns /\ "logout" \notin SignIns
  /\ "updateProfile" \notin SignIns /\ "changePassword" \notin SignIns
BY SignInsAssumption

\* A step of a handler, by the state d it leaves its tab in and the value c
\* that its own call takes.
LEMMA HandlerActs ==
  ASSUME TypeOK, NEW t \in Tabs, NEW k \in Kinds, NEW c, NEW d \in Tab,
         tab' = [tab EXCEPT ![t] = d], call' = [call EXCEPT ![t][k] = c],
         d.user = "account" /\ ~d.leaving =>
           tab[t].user = "account" /\ ~tab[t].leaving /\ storage' = storage,
         d.loading => IF k \in SignIns THEN c \in Tokens ELSE tab[t].loading,
         d.mounted /\ storage'.token = "issued" =>
           IF k = "checkAuth" THEN c \in Tokens ELSE tab[t].mounted
  PROVE  Acts(t)
<1>1. tab'[t] = d /\ \A u \in Tabs : u # t => tab'[u] = tab[u]
  BY OneTab
<1>2. /\ call'[t][k] = c
      /\ \A h \in Kinds : h # k => call'[t][h] = call[t][h]
      /\ \A u \in Tabs : u # t => call'[u] = call[u]
  BY OneCallOnly
<1>3. AccountStep(t)
  BY <1>1 DEF AccountStep
<1>4. SpinnerStep(t)
  BY <1>1, <1>2, KindsOf DEF SpinnerStep
<1>5. CheckStep(t)
  BY <1>1, <1>2, KindsOf DEF CheckStep
<1> QED
  BY <1>1, <1>2, <1>3, <1>4, <1>5 DEF Acts

\* Only a call changes, to a value a request carries unless it is no sign-in.
LEMMA CallActs ==
  ASSUME TypeOK, NEW t \in Tabs, NEW k \in Kinds, NEW c,
         call' = [call EXCEPT ![t][k] = c], UNCHANGED <<storage, tab>>,
         k \in SignIns \union {"checkAuth"} => c \in Tokens
  PROVE  Acts(t)
<1>1. /\ call'[t][k] = c
      /\ \A h \in Kinds : h # k => call'[t][h] = call[t][h]
      /\ \A u \in Tabs : u # t => call'[u] = call[u]
  BY OneCallOnly
<1>2. AccountStep(t)
  BY DEF AccountStep
<1>3. SpinnerStep(t)
  BY <1>1, KindsOf DEF SpinnerStep
<1>4. CheckStep(t)
  BY <1>1, KindsOf DEF CheckStep
<1> QED
  BY <1>1, <1>2, <1>3, <1>4 DEF Acts

LEMMA LoadActs ==
  ASSUME TypeOK, NEW t \in Tabs, Load(t)
  PROVE  Acts(t)
<1>1. /\ tab'[t] = InitialState
      /\ \A u \in Tabs : u # t => tab'[u] = tab[u]
  BY Shapes, OneTab DEF Load
<1>2. \A u \in Tabs : u # t => call'[u] = call[u]
  BY DEF Load, TypeOK
<1>3. ~InitialState.loading /\ ~InitialState.mounted
  BY DEF InitialState, SignedOut
<1> QED
  BY <1>1, <1>2, <1>3 DEF Load, Acts, AccountStep, SpinnerStep, CheckStep

LEMMA RenderActs ==
  ASSUME TypeOK, NEW t \in Tabs, Render(t)
  PROVE  Acts(t)
<1> DEFINE d == [tab[t] EXCEPT !.dirty = FALSE]
<1>1. /\ d \in Tab /\ d.user = tab[t].user /\ d.leaving = tab[t].leaving
      /\ d.loading = tab[t].loading /\ d.mounted = tab[t].mounted
  BY Shapes DEF Tab
<1>2. tab' = [tab EXCEPT ![t] = d]
  BY DEF Render
<1> HIDE DEF d
<1>3. /\ tab'[t] = d /\ call' = call /\ storage' = Swept
      /\ \A u \in Tabs : u # t => tab'[u] = tab[u]
  BY <1>1, <1>2, OneTab DEF Render
<1>4. AccountStep(t)
  BY <1>1, <1>3 DEF AccountStep
<1>5. SpinnerStep(t)
  BY <1>1, <1>3 DEF SpinnerStep
<1>6. CheckStep(t)
  BY <1>1, <1>3 DEF CheckStep
<1> QED
  BY <1>3, <1>4, <1>5, <1>6 DEF Acts

LEMMA MountActs ==
  ASSUME TypeOK, NEW t \in Tabs, Mount(t)
  PROVE  Acts(t)
<1>0. tab[t] \in Tab /\ storage \in Stored /\ UNCHANGED storage
  BY Shapes DEF Mount
<1>1. CASE storage.token = "absent"
  <2> DEFINE e == AuthEnd(tab[t])
             d == [e EXCEPT !.mounted = TRUE]
  <2>1. e \in Tab /\ e.user = "null" /\ ~e.loading
    BY <1>0 DEF AuthEnd, Tab
  <2>2. tab' = [tab EXCEPT ![t] = d] /\ call' = call
    BY <1>1 DEF Mount
  <2> HIDE DEF e
  <2>3. d \in Tab /\ d.user = "null" /\ ~d.loading
    BY <2>1 DEF Tab
  <2> HIDE DEF d
  <2>4. tab'[t] = d /\ \A u \in Tabs : u # t => tab'[u] = tab[u]
    BY <2>2, <2>3, OneTab
  <2> QED
    BY <1>0, <1>1, <2>2, <2>3, <2>4
    DEF Acts, AccountStep, SpinnerStep, CheckStep
<1>2. CASE storage.token # "absent"
  <2> DEFINE d == [tab[t] EXCEPT !.mounted = TRUE]
  <2>1. /\ d \in Tab /\ d.user = tab[t].user /\ d.leaving = tab[t].leaving
        /\ d.loading = tab[t].loading
    BY <1>0 DEF Tab
  <2>2. /\ tab' = [tab EXCEPT ![t] = d]
        /\ call' = [call EXCEPT ![t]["checkAuth"] = storage.token]
    BY <1>2 DEF Mount, Send
  <2> HIDE DEF d
  <2>3. storage.token \in Tokens
    BY <1>0 DEF Stored
  <2> QED
    BY <1>0, <2>1, <2>2, <2>3, NotSignIns, KindsOf, HandlerActs
<1> QED
  BY <1>1, <1>2

LEMMA UserActs ==
  ASSUME TypeOK, NEW t \in Tabs,
         \/ \E k \in SignIns : SignIn(t, k)
         \/ Logout(t) \/ ClickUpdate(t) \/ UpdateProfile(t) \/ ChangePassword(t)
  PROVE  Acts(t)
<1>0. tab[t] \in Tab /\ storage.token \in Tokens
  BY Shapes DEF Stored
<1>1. ASSUME NEW k \in SignIns, SignIn(t, k)
      PROVE  Acts(t)
  <2> DEFINE d == AuthStart(tab[t])
  <2>1. /\ d \in Tab /\ d.user = tab[t].user /\ d.leaving = tab[t].leaving
        /\ d.mounted = tab[t].mounted
    BY <1>0 DEF AuthStart, Tab
  <2>2. /\ tab' = [tab EXCEPT ![t] = d] /\ UNCHANGED storage
        /\ call' = [call EXCEPT ![t][k] = storage.token]
    BY <1>1 DEF SignIn, Send
  <2> HIDE DEF d
  <2> QED
    BY <1>0, <2>1, <2>2, NotSignIns, KindsOf, HandlerActs
<1>2. CASE Logout(t)
  BY <1>0, <1>2, KindsOf, CallActs DEF Logout, Send
<1>3. CASE ClickUpdate(t)
  BY <1>3, KindsOf, NotSignIns, CallActs DEF ClickUpdate
<1>4. CASE UpdateProfile(t)
  BY <1>0, <1>4, KindsOf, CallActs DEF UpdateProfile, Send
<1>5. CASE ChangePassword(t)
  BY <1>0, <1>5, KindsOf, CallActs DEF ChangePassword, Send
<1> QED
  BY <1>1, <1>2, <1>3, <1>4, <1>5

\* An answer that ends the session of the tab.  Where checkAuth() ends so,
\* nothing is left in storage.
LEMMA EndActs ==
  ASSUME TypeOK, NEW t \in Tabs, NEW k \in Kinds, NEW a,
         tab' = [tab EXCEPT ![t] = AuthEnd(Leaving(tab[t], a))],
         Returns(t, k), k = "checkAuth" => storage' = NoItems
  PROVE  Acts(t)
<1> DEFINE d == AuthEnd(Leaving(tab[t], a))
<1>1. d \in Tab /\ d.user = "null" /\ ~d.loading /\ d.mounted = tab[t].mounted
  <2>1. Leaving(tab[t], a) \in Tab /\ Leaving(tab[t], a).mounted = tab[t].mounted
    BY Shapes DEF Leaving, Tab
  <2> QED
    BY <2>1 DEF AuthEnd, Tab
<1>2. tab' = [tab EXCEPT ![t] = d] /\ call' = [call EXCEPT ![t][k] = "idle"]
  BY DEF Returns
<1> HIDE DEF d
<1>3. k = "checkAuth" => storage'.token # "issued"
  BY DEF NoItems
<1> QED
  BY <1>1, <1>2, <1>3, HandlerActs

LEMMA ResponseActs ==
  ASSUME TypeOK, NEW t \in Tabs, NEW k \in Kinds, Respond(t, k)
  PROVE  Acts(t)
<1>0. tab[t] \in Tab /\ storage \in Stored
  BY Shapes
<1>1. CASE k = "checkAuth" /\ CheckAuthFailed(t)
  BY <1>1, EndActs DEF CheckAuthFailed
<1>2. CASE k \in SignIns /\ SignInOk(t, k)
  <2> DEFINE d == AuthSuccess(tab[t], "undefined")
  <2>1. d \in Tab /\ d.user = "undefined" /\ ~d.loading /\ d.mounted = tab[t].mounted
    BY <1>0 DEF AuthSuccess, Tab
  <2>2. tab' = [tab EXCEPT ![t] = d] /\ call' = [call EXCEPT ![t][k] = "idle"]
    BY <1>2, NothingFound DEF SignInOk, Returns
  <2> HIDE DEF d
  <2> QED
    BY <1>2, <2>1, <2>2, NotSignIns, HandlerActs
<1>3. CASE k \in SignIns /\ SignInFailed(t, k)
  BY <1>3, NotSignIns, EndActs DEF SignInFailed
<1>4. CASE k = "logout" /\ LogoutDone(t)
  BY <1>4, EndActs DEF LogoutDone
<1>5. CASE k = "updateProfile" /\ UpdateProfileOk(t)
  <2> DEFINE d == UpdateUser(tab[t], "array")
  <2>1. /\ d \in Tab /\ d.user = "array" /\ d.loading = tab[t].loading
        /\ d.mounted = tab[t].mounted
    BY <1>0 DEF UpdateUser, Tab
  <2>2. tab' = [tab EXCEPT ![t] = d] /\ call' = [call EXCEPT ![t][k] = "idle"]
    BY <1>5, NothingFound DEF UpdateProfileOk, Returns
  <2> HIDE DEF d
  <2> QED
    BY <1>5, <2>1, <2>2, NotSignIns, HandlerActs
<1>6. CASE k \in {"updateProfile", "changePassword"} /\ CallFailed(t, k)
  <2>1. PICK a : /\ storage' = Intercepted(a)
                 /\ tab' = [tab EXCEPT ![t] = Leaving(tab[t], a)]
                 /\ Returns(t, k)
    BY <1>6 DEF CallFailed
  <2> DEFINE d == Leaving(tab[t], a)
  <2>2. /\ d \in Tab /\ d.user = tab[t].user /\ d.loading = tab[t].loading
        /\ d.mounted = tab[t].mounted
        /\ ~d.leaving => ~tab[t].leaving /\ a # "401"
    BY <1>0 DEF Leaving, Tab
  <2>3. a # "401" => storage' = storage
    BY <2>1 DEF Intercepted
  <2>4. tab' = [tab EXCEPT ![t] = d] /\ call' = [call EXCEPT ![t][k] = "idle"]
    BY <2>1 DEF Returns
  <2> HIDE DEF d
  <2> QED
    BY <1>6, <2>2, <2>3, <2>4, NotSignIns, HandlerActs
<1>7. CASE k = "changePassword" /\ ChangePasswordOk(t)
  BY <1>7, NotSignIns, CallActs DEF ChangePasswordOk, Returns
<1> QED
  BY <1>1, <1>2, <1>3, <1>4, <1>5, <1>6, <1>7 DEF Respond

LEMMA SomeTabActs ==
  ASSUME TypeOK, Next
  PROVE  \E t \in Tabs : Acts(t)
BY LoadActs, RenderActs, MountActs, UserActs, ResponseActs DEF Next

-----------------------------------------------------------------------------
\* An account in storage has a token there: no handler stores one alone.
StoredAccountHasToken == storage.user = "account" => storage.token = "issued"

LEMMA StoredAccount == Spec => []StoredAccountHasToken
<1>1. Init => StoredAccountHasToken
  BY DEF Init, StoredAccountHasToken, NoItems
<1>2. TypeOK /\ StoredAccountHasToken /\ [Next]_vars => StoredAccountHasToken'
  <2> SUFFICES ASSUME TypeOK, StoredAccountHasToken, StorageStep
               PROVE  StoredAccountHasToken'
    BY Effects DEF Effect
  <2>1. storage \in Stored
    BY Shapes
  <2>2. CASE storage' \in {storage, Swept, NoItems, Word}
    BY <2>1, <2>2 DEF Swept, NoItems, Word, StoredAccountHasToken
  <2>3. CASE storage' = [storage EXCEPT !.user = "array"]
    BY <2>1, <2>3 DEF StoredAccountHasToken, Stored
  <2> QED
    BY <2>2, <2>3 DEF StorageStep
<1> QED
  BY <1>1, <1>2, TypeCorrect, PTL DEF Spec

\* In a browser with one tab, while a page shows an account its token is
\* stored, unless the page is about to be left: whatever takes the token away
\* takes the account away too, or leaves the page.
SingleTab == \A t, u \in Tabs : t = u

THEOREM ShownAccountHasToken == SingleTab => (Spec => []AccountHasToken)
<1> SUFFICES ASSUME SingleTab PROVE Spec => []AccountHasToken
  OBVIOUS
<1>1. Init => AccountHasToken
  BY DEF Init, AccountHasToken, SignedOut
<1>2. TypeOK /\ TokenHasUser /\ StoredAccountHasToken /\ AccountHasToken /\ [Next]_vars
      => AccountHasToken'
  <2> SUFFICES ASSUME TypeOK, TokenHasUser, StoredAccountHasToken, AccountHasToken,
                      [Next]_vars, NEW t \in Tabs,
                      tab'[t].user = "account", ~tab'[t].leaving
               PROVE  storage'.token = "issued"
    BY DEF AccountHasToken
  <2>1. CASE UNCHANGED vars
    BY <2>1 DEF vars, AccountHasToken
  <2>2. CASE Next
    <3>1. AccountStep(t)
      BY <2>2, SomeTabActs DEF SingleTab, Acts
    <3>2. storage.token = "issued" => Swept = storage
      BY DEF Swept, TokenHasUser
    <3>3. CASE tab'[t] = InitialState /\ storage' = Swept
      <4>1. storage.user = "account"
        BY <3>3 DEF InitialState, SignedOut
      <4> QED
        BY <3>2, <3>3, <4>1 DEF StoredAccountHasToken
    <3>4. CASE /\ tab[t].user = "account" /\ ~tab[t].leaving
               /\ storage' \in {storage, Swept}
      BY <3>2, <3>4 DEF AccountHasToken
    <3> QED
      BY <3>1, <3>3, <3>4 DEF AccountStep
  <2> QED
    BY <2>1, <2>2
<1> QED
  BY <1>1, <1>2, TypeCorrect, IssuedTokenHasUser, StoredAccount, PTL DEF Spec

LEMMA TokensEnd ==
  ASSUME TypeOK, [Next]_vars, storage'.token = "issued"
  PROVE  storage.token = "issued"
<1>1. storage \in Stored /\ StorageStep
  BY Shapes, Effects DEF Effect
<1>2. CASE storage' \in {storage, Swept, NoItems, Word}
  BY <1>2 DEF Swept, NoItems, Word
<1>3. CASE storage' = [storage EXCEPT !.user = "array"]
  BY <1>1, <1>3 DEF Stored
<1> QED
  BY <1>1, <1>2, <1>3 DEF StorageStep

\* A page shows the spinner only while one of its own sign-ins is under way:
\* whichever of them ends, the handlers that share the flag agree about it.
THEOREM SpinnersHaveSignIns == Spec => []SpinnerHasSignIn
<1>1. Init => SpinnerHasSignIn
  BY DEF Init, SpinnerHasSignIn, SignedOut
<1>2. TypeOK /\ SpinnerHasSignIn /\ [Next]_vars => SpinnerHasSignIn'
  <2> SUFFICES ASSUME TypeOK, SpinnerHasSignIn, [Next]_vars, NEW t \in Tabs, tab'[t].loading
               PROVE  \E k \in SignIns : call'[t][k] \in Tokens
    BY DEF SpinnerHasSignIn, UnderWay
  <2>1. tab[t].loading => \E k \in SignIns : call[t][k] \in Tokens
    BY DEF SpinnerHasSignIn, UnderWay
  <2>2. CASE UNCHANGED vars
    BY <2>1, <2>2 DEF vars
  <2>3. CASE Next
    BY <2>1, <2>3, SomeTabActs DEF Acts, SpinnerStep
  <2> QED
    BY <2>2, <2>3
<1> QED
  BY <1>1, <1>2, TypeCorrect, PTL DEF Spec

\* A stored token that was issued is being checked by every tab whose effect
\* has run.  No tab that has heard from checkAuth() lives on beside a stored
\* session, since every failure of checkAuth() removes it.
StoredTokenIsChecked ==
    \A t \in Tabs :
      tab[t].mounted /\ storage.token = "issued" => UnderWay(t, "checkAuth")

THEOREM StoredTokensAreChecked == Spec => []StoredTokenIsChecked
<1>1. Init => StoredTokenIsChecked
  BY DEF Init, StoredTokenIsChecked, SignedOut
<1>2. TypeOK /\ StoredTokenIsChecked /\ [Next]_vars => StoredTokenIsChecked'
  <2> SUFFICES ASSUME TypeOK, StoredTokenIsChecked, [Next]_vars, NEW t \in Tabs,
                      tab'[t].mounted, storage'.token = "issued"
               PROVE  call'[t]["checkAuth"] \in Tokens
    BY DEF StoredTokenIsChecked, UnderWay
  <2>1. tab[t].mounted /\ storage.token = "issued" => call[t]["checkAuth"] \in Tokens
    BY DEF StoredTokenIsChecked, UnderWay
  <2>2. storage.token = "issued"
    BY TokensEnd
  <2>3. CASE UNCHANGED vars
    BY <2>1, <2>3 DEF vars
  <2>4. CASE Next
    BY <2>1, <2>2, <2>4, SomeTabActs DEF Acts, CheckStep
  <2> QED
    BY <2>3, <2>4
<1> QED
  BY <1>1, <1>2, TypeCorrect, PTL DEF Spec

\* No step of any tab stores a token that the server issued: whatever sign-ins
\* succeed, the only token there ever is is one stored before.
TokenNeverStored == [][ storage'.token = "issued" => storage.token = "issued" ]_vars

THEOREM NoTokenIsStored == Spec => TokenNeverStored
<1>1. TypeOK /\ [Next]_vars => [ storage'.token = "issued" => storage.token = "issued" ]_vars
  BY TokensEnd
<1> QED
  BY <1>1, TypeCorrect, PTL DEF Spec, TokenNeverStored

\* Once no page shows an account and none is stored, none is ever shown again:
\* this client cannot sign anyone in.
NoAccount == storage.user # "account" /\ \A t \in Tabs : tab[t].user # "account"

THEOREM NobodySignsIn == Spec => [](NoAccount => []NoAccount)
<1>1. TypeOK /\ NoAccount /\ [Next]_vars => NoAccount'
  <2> SUFFICES ASSUME TypeOK, NoAccount, [Next]_vars PROVE NoAccount'
    OBVIOUS
  <2>1. storage \in Stored /\ Effect
    BY Shapes, Effects
  <2>2. storage'.user # "account"
    <3>1. CASE storage' \in {storage, Swept, NoItems, Word}
      BY <3>1 DEF Swept, NoItems, Word, NoAccount
    <3>2. CASE storage' = [storage EXCEPT !.user = "array"]
      BY <2>1, <3>2 DEF Stored
    <3> QED
      BY <2>1, <3>1, <3>2 DEF Effect, StorageStep
  <2>3. InitialState.user # "account"
    BY DEF InitialState, SignedOut, NoAccount
  <2>4. ASSUME NEW t \in Tabs PROVE tab'[t].user # "account"
    BY <2>1, <2>3 DEF Effect, Kept, Lost, Reloaded, NoAccount
  <2> QED
    BY <2>2, <2>4 DEF NoAccount
<1> QED
  BY <1>1, TypeCorrect, PTL DEF Spec
=============================================================================
