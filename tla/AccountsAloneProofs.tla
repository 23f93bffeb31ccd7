------------------------- MODULE AccountsAloneProofs ------------------------
(***************************************************************************)
(* Theorems about Accounts with a single worker, which is how the Procfile *)
(* starts the server: addresses and ids are unique, a token names the      *)
(* account it was issued for, and the handlers implement the directory of  *)
(* atomic operations (AccountDirectory).                                   *)
(***************************************************************************)
EXTENDS AccountsProofs

-----------------------------------------------------------------------------
(***************************************************************************)
(* The collection and the tokens, by kind of write.                        *)
(***************************************************************************)
UniqueHolds == DistinctEmails(users) /\ DistinctIds(users) /\ TokenNamesItsAccount

\* The first document with the id of an account is the account.
LEMMA AccountIsFirst ==
  ASSUME TypeOK, CollectionHolds, DistinctIds(users),
         NEW i \in DOMAIN users, users[i].email # None
  PROVE  IsFirst(i, WithId(users, users[i].id))
<1>1. users[i].id # NoId
  BY DEF CollectionHolds
<1>2. \A j \in WithId(users, users[i].id) : j = i
  BY <1>1 DEF WithId, DistinctIds
<1> QED
  BY <1>2, LenProperties DEF IsFirst, WithId, TypeOK

LEMMA UniqueKeeps ==
  ASSUME TypeOK, TypeOK', UniqueHolds, Grows, Len(users') = Len(users),
         tokens' \subseteq tokens
  PROVE  UniqueHolds'
<1>1. DOMAIN users' = DOMAIN users
  BY Domains
<1>2. DistinctEmails(users')
  BY <1>1 DEF UniqueHolds, DistinctEmails, Grows, SameAccount
<1>3. DistinctIds(users')
  BY <1>1 DEF UniqueHolds, DistinctIds, Grows, SameAccount
<1>4. TokenNamesItsAccount'
  BY FirstStays DEF UniqueHolds, TokenNamesItsAccount
<1> QED
  BY <1>2, <1>3, <1>4 DEF UniqueHolds

LEMMA UniqueInserts ==
  ASSUME TypeOK, TypeOK', CollectionHolds, UniqueHolds, NEW d \in Doc,
         users' = Append(users, d), UNCHANGED tokens,
         d.email # None => WithEmail(users, d.email) = {},
         d.id # NoId => d.id = Len(users) + 1
  PROVE  UniqueHolds'
<1>1. /\ DOMAIN users' = 1 .. Len(users) + 1
      /\ \A i \in 1 .. Len(users) : users'[i] = users[i]
      /\ users'[Len(users) + 1] = d
  BY InsertDoc DEF TypeOK
<1>2. DOMAIN users = 1 .. Len(users) /\ Len(users) \in Nat
  BY Domains
<1>3. DistinctEmails(users')
  BY <1>1, <1>2 DEF UniqueHolds, DistinctEmails, WithEmail
<1>4. \A i \in DOMAIN users : users[i].id # Len(users) + 1
  <2>1. \A i \in DOMAIN users : users[i].id \in Nat /\ users[i].id <= i
    BY CopyTyped DEF CollectionHolds, IdsBehind, Doc
  <2> QED
    BY <1>2, <2>1
<1>5. DistinctIds(users')
  BY <1>1, <1>2, <1>4 DEF UniqueHolds, DistinctIds
<1>6. TokenNamesItsAccount'
  BY FirstStays, GrowsByInsert DEF UniqueHolds, TokenNamesItsAccount
<1> QED
  BY <1>3, <1>5, <1>6 DEF UniqueHolds

LEMMA UniqueSigns ==
  ASSUME TypeOK, TypeOK', CollectionHolds, UniqueHolds, NEW w \in Workers,
         NEW status, FoundHolds(w), pc[w] \in Signing, Sign(w, status)
  PROVE  UniqueHolds'
<1>1. IsFirst(found[w].at, WithId(users, found[w].id))
  BY AccountIsFirst DEF FoundHolds, UniqueHolds
<1>2. users' = users
  BY DEF Sign
<1>3. TokenNamesItsAccount'
  BY <1>1, <1>2 DEF Sign, TokenNamesItsAccount, UniqueHolds
<1> QED
  BY <1>2, <1>3 DEF UniqueHolds

-----------------------------------------------------------------------------
(***************************************************************************)
(* The steps of the only worker.                                           *)
(***************************************************************************)
LEMMA IdleUndisturbed ==
  ASSUME NEW w \in Workers, pc'[w] = "idle"
  PROVE  UndisturbedSince(w)'
BY DEF UndisturbedSince, Creating, Inserting, Editing

LEMMA StoreUnique ==
  ASSUME TypeOK, TypeOK', UniqueHolds, UNCHANGED store
  PROVE  UniqueHolds'
BY UniqueKeeps, GrowsByNothing DEF store

AlonePreserves(w) == UniqueHolds' /\ UndisturbedSince(w)'

LEMMA AnswerAlone ==
  ASSUME TypeOK, TypeOK', AloneInv, NEW w \in Workers, NEW status,
         Answer(w, status), UNCHANGED store
  PROVE  AlonePreserves(w)
<1>1. pc'[w] = "idle"
  BY DEF Answer, TypeOK
<1> QED
  BY <1>1, StoreUnique, IdleUndisturbed DEF AlonePreserves, AloneInv, UniqueHolds

LEMMA SignAlone ==
  ASSUME TypeOK, TypeOK', HandlersInv, AloneInv, NEW w \in Workers, NEW status,
         pc[w] \in Signing, Sign(w, status)
  PROVE  AlonePreserves(w)
<1>1. pc'[w] = "idle"
  BY DEF Sign, Answer, TypeOK
<1>2. UniqueHolds'
  BY UniqueSigns DEF HandlersInv, AloneInv, UniqueHolds
<1> QED
  BY <1>1, <1>2, IdleUndisturbed DEF AlonePreserves

\* A step that only goes on, to a label that needs no new fact.
LEMMA GotoAlone ==
  ASSUME TypeOK, TypeOK', AloneInv, NEW w \in Workers, NEW label,
         UNCHANGED store, Goto(w, label),
         label \in Creating => WithEmail(users, req[w].email) = {},
         label \in Inserting => nid'[w] = Len(users) + 1,
         label \in {"jwt"} \union Editing =>
           IsFirst(req[w].token.holder, WithId(users, req[w].token.user_id)),
         label = "pw_write" => users[req[w].token.holder].password_hash = req[w].password
  PROVE  AlonePreserves(w)
<1>1. pc'[w] = label /\ req'[w] = req[w] /\ users' = users
  BY DEF Goto, TypeOK, store
<1>2. UndisturbedSince(w)'
  BY <1>1 DEF UndisturbedSince
<1> QED
  BY <1>2, StoreUnique DEF AlonePreserves, AloneInv, UniqueHolds

LEMMA ReceiveAlone ==
  ASSUME TypeOK, TypeOK', HandlersInv, AloneInv, NEW w \in Workers, Receive(w)
  PROVE  AlonePreserves(w)
<1>1. ASSUME NEW status, AnswerAtOnce(w, status)
      PROVE  AlonePreserves(w)
  BY <1>1, StoreUnique, IdleUndisturbed DEF AnswerAtOnce, store, AlonePreserves, AloneInv,
     UniqueHolds
<1>2. ASSUME NEW r, NEW label \in {"reg_find", "login_find", "goo_find"},
             Accept(w, r, label)
      PROVE  AlonePreserves(w)
  <2>1. pc'[w] = label
    BY <1>2 DEF Accept, TypeOK
  <2>2. UndisturbedSince(w)'
    BY <2>1 DEF UndisturbedSince, Creating, Inserting, Editing
  <2> QED
    BY <1>2, <2>2, StoreUnique DEF Accept, store, AlonePreserves, AloneInv, UniqueHolds
<1>3. CASE Register(w) \/ Login(w) \/ GoogleLogin(w) \/ NoTokenPresented(w) \/ Refresh(w)
  <2>1. CASE Register(w)
    BY <1>1, <1>2, <2>1 DEF Register
  <2>2. CASE Login(w)
    BY <1>1, <1>2, <2>2 DEF Login
  <2>3. CASE GoogleLogin(w)
    BY <1>1, <1>2, <2>3 DEF GoogleLogin
  <2>4. CASE NoTokenPresented(w) \/ Refresh(w)
    BY <1>1, <2>4 DEF NoTokenPresented, Refresh
  <2> QED
    BY <1>3, <2>1, <2>2, <2>3, <2>4
<1>4. CASE Present(w)
  <2>1. PICK t \in tokens, r \in Request : Presents(w, t, r)
    BY <1>4, PresentedRequest
  <2>2. pc'[w] = "jwt" /\ req'[w].token = t /\ UNCHANGED store
    BY <2>1 DEF Presents, Accept, TypeOK, store
  <2>3. IsFirst(t.holder, WithId(users, t.user_id))
    BY DEF AloneInv, TokenNamesItsAccount
  <2>4. UndisturbedSince(w)'
    BY <2>2, <2>3 DEF UndisturbedSince, store, Creating, Inserting, Editing
  <2> QED
    BY <2>2, <2>4, StoreUnique DEF AlonePreserves, AloneInv, UniqueHolds
<1>5. CASE CreateUser(w)
  <2> DEFINE d == [id |-> NoId, email |-> None, password_hash |-> None,
                   user_type |-> None, is_active |-> TRUE, profile |-> None,
                   avatar_url |-> None, via |-> "never"]
  <2>1. d \in Doc /\ d.id = NoId /\ d.email = None
    BY DEF Doc, Via, NoId
  <2>2. users' = Append(users, d) /\ tokens' = tokens /\ pc'[w] = "idle"
    BY <1>5 DEF CreateUser
  <2> HIDE DEF d
  <2> QED
    BY <2>1, <2>2, UniqueInserts, IdleUndisturbed DEF AlonePreserves, AloneInv,
       UniqueHolds, HandlersInv
<1> QED
  BY <1>1, <1>3, <1>4, <1>5 DEF Receive

LEMMA RegisterAlone ==
  ASSUME TypeOK, TypeOK', HandlersInv, AloneInv, NEW w \in Workers,
         \/ RegisterFind(w) \/ RegisterCount(w)
         \/ RegisterInsert(w) \/ RegisterToken(w)
  PROVE  AlonePreserves(w)
<1>1. CASE RegisterFind(w)
  BY <1>1, AnswerAlone, GotoAlone DEF RegisterFind, Creating, Inserting, Editing
<1>2. CASE RegisterCount(w)
  <2>1. WithEmail(users, req[w].email) = {}
    BY <1>2 DEF RegisterCount, AloneInv, UndisturbedSince, Creating
  <2>2. nid'[w] = Len(users) + 1
    BY <1>2 DEF RegisterCount, TypeOK
  <2> QED
    BY <1>2, <2>1, <2>2, GotoAlone DEF RegisterCount, store, Editing
<1>3. CASE RegisterInsert(w)
  <2> DEFINE d == [id |-> nid[w], email |-> req[w].email,
                   password_hash |-> req[w].password,
                   user_type |-> req[w].user_type, is_active |-> TRUE,
                   profile |-> req[w].profile, avatar_url |-> None, via |-> "never"]
  <2>1. d \in Doc /\ d.id = nid[w] /\ d.email = req[w].email
    BY DEF TypeOK, Request, Doc, Via
  <2>2. users' = Append(users, d) /\ tokens' = tokens
    BY <1>3 DEF RegisterInsert
  <2>3. WithEmail(users, req[w].email) = {} /\ nid[w] = Len(users) + 1
    BY <1>3 DEF RegisterInsert, AloneInv, UndisturbedSince, Creating, Inserting
  <2> HIDE DEF d
  <2>4. UniqueHolds'
    BY <2>1, <2>2, <2>3, UniqueInserts DEF AloneInv, UniqueHolds, HandlersInv
  <2>5. pc'[w] = "reg_token"
    BY <1>3 DEF RegisterInsert, Goto, TypeOK
  <2>6. UndisturbedSince(w)'
    BY <2>5 DEF UndisturbedSince, Creating, Inserting, Editing
  <2> QED
    BY <2>4, <2>6 DEF AlonePreserves
<1>4. CASE RegisterToken(w)
  BY <1>4, SignAlone DEF RegisterToken, Signing
<1> QED
  BY <1>1, <1>2, <1>3, <1>4

\* The $set of last_login and of the Google identity.
LEMMA TouchAlone ==
  ASSUME TypeOK, TypeOK', HandlersInv, AloneInv, Grows, NEW w \in Workers,
         LoginTouch(w) \/ GoogleUpdate(w)
  PROVE  AlonePreserves(w)
<1>1. found[w].at \in DOMAIN users
  BY DEF LoginTouch, GoogleUpdate, HandlersInv, FoundHolds, Signing
<1>2. Len(users') = Len(users) /\ tokens' = tokens
  <2>1. CASE LoginTouch(w)
    BY <1>1, <2>1, Domains DEF LoginTouch
  <2>2. CASE GoogleUpdate(w)
    BY <1>1, <2>2, Domains DEF GoogleUpdate
  <2> QED
    BY <2>1, <2>2
<1>3. UniqueHolds'
  BY <1>2, UniqueKeeps DEF AloneInv, UniqueHolds
<1>4. pc'[w] \in {"login_token", "goo_token"}
  BY DEF LoginTouch, GoogleUpdate, Goto, TypeOK
<1>5. UndisturbedSince(w)'
  BY <1>4 DEF UndisturbedSince, Creating, Inserting, Editing
<1> QED
  BY <1>3, <1>5 DEF AlonePreserves

LEMMA LoginAlone ==
  ASSUME TypeOK, TypeOK', HandlersInv, AloneInv, Grows, NEW w \in Workers,
         LoginFind(w) \/ LoginTouch(w) \/ LoginToken(w)
  PROVE  AlonePreserves(w)
<1>1. CASE LoginFind(w)
  BY <1>1, AnswerAlone, GotoAlone DEF LoginFind, Creating, Inserting, Editing
<1>2. CASE LoginTouch(w)
  BY <1>2, TouchAlone
<1>3. CASE LoginToken(w)
  BY <1>3, SignAlone DEF LoginToken, Signing
<1> QED
  BY <1>1, <1>2, <1>3

LEMMA GoogleAlone ==
  ASSUME TypeOK, TypeOK', HandlersInv, AloneInv, Grows, NEW w \in Workers,
         \/ GoogleFind(w) \/ GoogleUpdate(w)
         \/ GoogleCount(w) \/ GoogleInsert(w) \/ GoogleToken(w)
  PROVE  AlonePreserves(w)
<1>1. CASE GoogleFind(w)
  <2>1. CASE Goto(w, "goo_update")
    BY <1>1, <2>1, GotoAlone DEF GoogleFind, store, Creating, Inserting, Editing
  <2>2. CASE WithEmail(users, req[w].email) = {} /\ Goto(w, "goo_count")
    BY <1>1, <2>2, GotoAlone DEF GoogleFind, store, Inserting, Editing
  <2> QED
    BY <1>1, <2>1, <2>2 DEF GoogleFind
<1>2. CASE GoogleUpdate(w)
  BY <1>2, TouchAlone
<1>3. CASE GoogleCount(w)
  <2>1. WithEmail(users, req[w].email) = {}
    BY <1>3 DEF GoogleCount, AloneInv, UndisturbedSince, Creating
  <2>2. nid'[w] = Len(users) + 1
    BY <1>3 DEF GoogleCount, TypeOK
  <2> QED
    BY <1>3, <2>1, <2>2, GotoAlone DEF GoogleCount, store, Editing
<1>4. CASE GoogleInsert(w)
  <2> DEFINE d == [id |-> nid[w], email |-> req[w].email, password_hash |-> None,
                   user_type |-> "user", is_active |-> TRUE,
                   profile |-> req[w].profile, avatar_url |-> req[w].avatar_url,
                   via |-> "google"]
  <2>1. d \in Doc /\ d.id = nid[w] /\ d.email = req[w].email
    BY UserTypesAssumption DEF TypeOK, Request, Doc, Via
  <2>2. users' = Append(users, d) /\ tokens' = tokens
    BY <1>4 DEF GoogleInsert
  <2>3. WithEmail(users, req[w].email) = {} /\ nid[w] = Len(users) + 1
    BY <1>4 DEF GoogleInsert, AloneInv, UndisturbedSince, Creating, Inserting
  <2> HIDE DEF d
  <2>4. UniqueHolds'
    BY <2>1, <2>2, <2>3, UniqueInserts DEF AloneInv, UniqueHolds, HandlersInv
  <2>5. pc'[w] = "goo_token"
    BY <1>4 DEF GoogleInsert, Goto, TypeOK
  <2>6. UndisturbedSince(w)'
    BY <2>5 DEF UndisturbedSince, Creating, Inserting, Editing
  <2> QED
    BY <2>4, <2>6 DEF AlonePreserves
<1>5. CASE GoogleToken(w)
  BY <1>5, SignAlone DEF GoogleToken, Signing
<1> QED
  BY <1>1, <1>2, <1>3, <1>4, <1>5

\* In a protected handler the token's holder is the current user.
LEMMA HolderIsCurrent ==
  ASSUME TypeOK, AloneInv, NEW w \in Workers, pc[w] \in {"jwt"} \union Editing
  PROVE  /\ Current(w, req[w].token.holder)
         /\ \A i : Current(w, i) => i = req[w].token.holder
<1>1. Current(w, req[w].token.holder)
  BY DEF AloneInv, UndisturbedSince, Current
<1> QED
  BY <1>1, CurrentUnique

LEMMA ProtectedAlone ==
  ASSUME TypeOK, TypeOK', HandlersInv, AloneInv, Grows, NEW w \in Workers,
         \/ JwtRefuse(w) \/ GetProfile(w) \/ Logout(w) \/ AdminCall(w)
         \/ UpdateProfile(w) \/ ProfileWrite(w) \/ ProfileRead(w)
         \/ ChangePassword(w) \/ PasswordFind(w) \/ PasswordWrite(w)
  PROVE  AlonePreserves(w)
<1>1. CASE JwtRefuse(w) \/ GetProfile(w) \/ Logout(w) \/ AdminCall(w) \/ ProfileRead(w)
  BY <1>1, AnswerAlone DEF JwtRefuse, GetProfile, Logout, AdminCall, ProfileRead
<1>2. ASSUME NEW label \in {"prof_write", "pw_find"},
             pc[w] = "jwt", Goto(w, label), UNCHANGED store
      PROVE  AlonePreserves(w)
  BY <1>2, HolderIsCurrent, GotoAlone DEF Current, Creating, Inserting
<1>3. CASE UpdateProfile(w) \/ ChangePassword(w)
  BY <1>2, <1>3, AnswerAlone DEF UpdateProfile, ChangePassword, Authenticated
<1>4. CASE ProfileWrite(w)
  <2>1. pc[w] = "prof_write" /\ pc'[w] = "prof_read" /\ req'[w] = req[w]
    BY <1>4 DEF ProfileWrite, Goto, TypeOK
  <2>2. Len(users') = Len(users) /\ tokens' = tokens
    <3>1. DOMAIN users' = DOMAIN users /\ tokens' = tokens
      BY <1>4 DEF ProfileWrite
    <3> QED
      BY <3>1, Domains
  <2>3. IsFirst(req[w].token.holder, WithId(users', req[w].token.user_id))
    BY <2>1, HolderIsCurrent, FirstStays DEF Current, Editing
  <2>4. UndisturbedSince(w)'
    BY <2>1, <2>3 DEF UndisturbedSince, Creating, Inserting
  <2> QED
    BY <2>2, <2>4, UniqueKeeps DEF AlonePreserves, AloneInv, UniqueHolds
<1>5. CASE PasswordFind(w)
  <2>1. pc[w] = "pw_find" /\ pc[w] \in Editing /\ UNCHANGED store
    BY <1>5 DEF PasswordFind, Editing
  <2>2. CASE \E status \in {401, 500} : Answer(w, status)
    BY <2>1, <2>2, AnswerAlone
  <2>3. CASE /\ \E i \in DOMAIN users :
                  Current(w, i) /\ users[i].password_hash = req[w].password
             /\ Goto(w, "pw_write")
    BY <2>1, <2>3, HolderIsCurrent, GotoAlone DEF Current, Creating, Inserting
  <2> QED
    BY <1>5, <2>2, <2>3 DEF PasswordFind
<1>6. CASE PasswordWrite(w)
  <2>1. Len(users') = Len(users) /\ tokens' = tokens
    BY <1>6, Domains DEF PasswordWrite
  <2>2. pc'[w] = "idle"
    BY <1>6 DEF PasswordWrite, Answer, TypeOK
  <2> QED
    BY <2>1, <2>2, UniqueKeeps, IdleUndisturbed DEF AlonePreserves, AloneInv, UniqueHolds
<1> QED
  BY <1>1, <1>3, <1>4, <1>5, <1>6

-----------------------------------------------------------------------------
(***************************************************************************)
(* The inductive invariant of a single worker, and what follows.           *)
(***************************************************************************)
LEMMA AloneInit == Init => AloneInv
BY InitCollectionsAssumption DEF Init, AloneInv, TokenNamesItsAccount, UndisturbedSince,
   Creating, Inserting, Editing

LEMMA AloneStep ==
  ASSUME Alone, TypeOK, TypeOK', HandlersInv, AloneInv, [Next]_vars
  PROVE  AloneInv'
<1>1. Grows
  BY HandlersStep
<1>2. CASE UNCHANGED vars \/ Expire
  <2>1. UniqueHolds'
    BY <1>1, <1>2, UniqueKeeps DEF vars, Expire, AloneInv, UniqueHolds
  <2>2. \A w \in Workers : UndisturbedSince(w)'
    BY <1>2 DEF vars, Expire, AloneInv, UndisturbedSince
  <2> QED
    BY <2>1, <2>2 DEF AloneInv, UniqueHolds
<1>3. ASSUME NEW w \in Workers, Receive(w) \/ Step(w) \/ Crash(w)
      PROVE  AloneInv'
  <2>1. AlonePreserves(w)
    <3>1. CASE Receive(w)
      BY <3>1, ReceiveAlone
    <3>2. CASE Step(w)
      BY <1>1, <3>2, RegisterAlone, LoginAlone, GoogleAlone, ProtectedAlone DEF Step
    <3>3. CASE Crash(w)
      <4>1. pc'[w] = "idle" /\ UNCHANGED store
        BY <3>3 DEF Crash, Answer, TypeOK
      <4> QED
        BY <4>1, StoreUnique, IdleUndisturbed DEF AlonePreserves, AloneInv, UniqueHolds
    <3> QED
      BY <1>3, <3>1, <3>2, <3>3
  <2>2. \A v \in Workers : v = w
    BY DEF Alone
  <2> QED
    BY <2>1, <2>2 DEF AlonePreserves, AloneInv, UniqueHolds
<1> QED
  BY <1>2, <1>3 DEF Next

\* With one worker, what a handler checked in one round trip is the case in
\* the next, and no two accounts share an address or an id.
THEOREM AloneCorrect ==
  ASSUME Alone
  PROVE  Spec => []AloneInv
<1>1. TypeOK /\ TypeOK' /\ HandlersInv /\ AloneInv /\ [Next]_vars => AloneInv'
  BY AloneStep
<1> QED
  BY <1>1, TypeCorrect, HandlersCorrect, AloneInit, PTL DEF Spec

\* docs/AUTHENTICATION.md line 41, "Email (required, unique)": with one
\* worker the check in register() and google_login() achieves it.
THEOREM EmailsAreUnique ==
  ASSUME Alone
  PROVE  Spec => []UniqueEmails
<1>1. AloneInv => UniqueEmails
  BY DEF AloneInv, UniqueEmails
<1> QED
  BY <1>1, AloneCorrect, PTL

\* With one worker jwt_required resolves a token to the account it was
\* issued for.
THEOREM TokensNameTheirAccounts ==
  ASSUME Alone
  PROVE  Spec => []TokenNamesItsAccount
<1>1. AloneInv => TokenNamesItsAccount
  BY DEF AloneInv
<1> QED
  BY <1>1, AloneCorrect, PTL

-----------------------------------------------------------------------------
(***************************************************************************)
(* Who changes what.                                                       *)
(***************************************************************************)
\* update_profile() and change_password() write to the document of the
\* token's holder.
LEMMA EditsHolder ==
  ASSUME TypeOK, HandlersInv, AloneInv, NEW w \in Workers
  PROVE  LET i == req[w].token.holder
         IN  /\ ProfileWrite(w) =>
                  /\ i \in DOMAIN users /\ users[i].is_active /\ users[i].id # NoId
                  /\ SetsProfile(i, req[w].profile, req[w].avatar_url)
                  /\ req[w].profile \in Profiles \union {None}
                  /\ req[w].avatar_url \in Avatars \union {None}
             /\ PasswordWrite(w) =>
                  /\ i \in DOMAIN users /\ users[i].is_active
                  /\ users' = [users EXCEPT ![i].password_hash = req[w].new_password]
                  /\ users[i].password_hash = req[w].password
                  /\ req[w].password \in Passwords /\ req[w].new_password \in Passwords
<1>1. ASSUME ProfileWrite(w)
      PROVE  /\ req[w].token.holder \in DOMAIN users
             /\ users[req[w].token.holder].is_active
             /\ users[req[w].token.holder].id # NoId
             /\ SetsProfile(req[w].token.holder, req[w].profile, req[w].avatar_url)
             /\ req[w].profile \in Profiles \union {None}
             /\ req[w].avatar_url \in Avatars \union {None}
  <2>1. pc[w] = "prof_write" /\ pc[w] \in Editing
    BY <1>1 DEF ProfileWrite, Editing
  <2>2. PICK i \in DOMAIN users :
          Current(w, i) /\ SetsProfile(i, req[w].profile, req[w].avatar_url)
    BY <1>1 DEF ProfileWrite, SetsProfile
  <2>3. i = req[w].token.holder
    BY <2>1, <2>2, HolderIsCurrent
  <2>4. users[i].is_active /\ users[i].id # NoId
    BY <2>1, <2>2, EditorHolds
  <2>5. /\ req[w].profile \in Profiles \union {None}
        /\ req[w].avatar_url \in Avatars \union {None}
    BY DEF TypeOK, Request
  <2> QED
    BY <2>2, <2>3, <2>4, <2>5
<1>2. ASSUME PasswordWrite(w)
      PROVE  /\ req[w].token.holder \in DOMAIN users
             /\ users[req[w].token.holder].is_active
             /\ users' = [users EXCEPT ![req[w].token.holder].password_hash
                                          = req[w].new_password]
             /\ users[req[w].token.holder].password_hash = req[w].password
             /\ req[w].password \in Passwords /\ req[w].new_password \in Passwords
  <2>1. pc[w] = "pw_write" /\ pc[w] \in Editing
    BY <1>2 DEF PasswordWrite, Editing
  <2>2. PICK i \in DOMAIN users :
          /\ Current(w, i)
          /\ users' = [users EXCEPT ![i].password_hash = req[w].new_password]
    BY <1>2 DEF PasswordWrite
  <2>3. i = req[w].token.holder
    BY <2>1, <2>2, HolderIsCurrent
  <2>4. users[i].is_active
    BY <2>1, <2>2, EditorHolds
  <2>5. req[w].password \in Passwords /\ req[w].new_password \in Passwords
    BY <2>1 DEF HandlersInv, RequestHolds
  <2>6. users[i].password_hash = req[w].password
    BY <2>1, <2>3 DEF AloneInv, UndisturbedSince
  <2> QED
    BY <2>2, <2>3, <2>4, <2>5, <2>6
<1> QED
  BY <1>1, <1>2

OwnersChange ==
    \A i \in DOMAIN users :
      /\ users'[i].password_hash # users[i].password_hash =>
           \E w \in Workers : /\ req[w].token.holder = i
                              /\ req[w].password = users[i].password_hash
                              /\ req[w].new_password = users'[i].password_hash
      /\ users'[i].profile # users[i].profile =>
           \E w \in Workers : /\ req[w].token.holder = i
                              /\ req[w].profile = users'[i].profile
      /\ users'[i].avatar_url # users[i].avatar_url =>
           \E w \in Workers : \/ GoogleBrings(w, i)
                              \/ /\ req[w].token.holder = i
                                 /\ req[w].avatar_url = users'[i].avatar_url

LEMMA SignInsOwn ==
  ASSUME TypeOK, HandlersInv, NEW w \in Workers, LoginTouch(w) \/ GoogleUpdate(w)
  PROVE  OwnersChange
<1>1. found[w].at \in DOMAIN users
  BY TouchesFound DEF LoginTouch, GoogleUpdate, Signing
<1>2. CASE LoginTouch(w)
  <2>1. users' = [users EXCEPT ![found[w].at].via = "password"]
    BY <1>2 DEF LoginTouch
  <2> QED
    BY <1>1, <2>1, ViaOnly DEF OwnersChange
<1>3. CASE GoogleUpdate(w)
  <2>1. /\ SetsPicture(found[w].at, req[w].avatar_url)
        /\ req[w].avatar_url \in Avatars \union {None}
    BY <1>3 DEF GoogleUpdate, SetsPicture, TypeOK, Request
  <2>2. req[w].op = "google" /\ req[w].email = users[found[w].at].email
    BY <1>3, TouchesFound DEF GoogleUpdate, Signing, HandlersInv, RequestHolds
  <2>3. ASSUME NEW i \in DOMAIN users
        PROVE  /\ users'[i].password_hash = users[i].password_hash
               /\ users'[i].profile = users[i].profile
               /\ users'[i].avatar_url # users[i].avatar_url => GoogleBrings(w, i)
    BY <1>1, <2>1, <2>2, PictureOnly DEF GoogleBrings
  <2> QED
    BY <2>3 DEF OwnersChange
<1> QED
  BY <1>2, <1>3

LEMMA EditsOwn ==
  ASSUME TypeOK, HandlersInv, AloneInv, NEW w \in Workers,
         ProfileWrite(w) \/ PasswordWrite(w)
  PROVE  OwnersChange
<1>1. CASE ProfileWrite(w)
  <2>1. PICK i \in DOMAIN users :
          /\ i = req[w].token.holder
          /\ SetsProfile(i, req[w].profile, req[w].avatar_url)
          /\ req[w].profile \in Profiles \union {None}
          /\ req[w].avatar_url \in Avatars \union {None}
    BY <1>1, EditsHolder
  <2>2. ASSUME NEW j \in DOMAIN users
        PROVE  /\ users'[j].password_hash = users[j].password_hash
               /\ users'[j].profile # users[j].profile =>
                    j = i /\ req[w].profile = users'[j].profile
               /\ users'[j].avatar_url # users[j].avatar_url =>
                    j = i /\ req[w].avatar_url = users'[j].avatar_url
    BY <2>1, ProfileOnly DEF Given
  <2> QED
    BY <2>1, <2>2 DEF OwnersChange
<1>2. CASE PasswordWrite(w)
  <2>1. PICK i \in DOMAIN users :
          /\ i = req[w].token.holder
          /\ users' = [users EXCEPT ![i].password_hash = req[w].new_password]
          /\ users[i].password_hash = req[w].password
    BY <1>2, EditsHolder
  <2>2. /\ users'[i].password_hash = req[w].new_password
        /\ \A j \in DOMAIN users :
             /\ users'[j].profile = users[j].profile
             /\ users'[j].avatar_url = users[j].avatar_url
             /\ j # i => users'[j].password_hash = users[j].password_hash
    BY <2>1, CopyTyped DEF Doc
  <2> QED
    BY <2>1, <2>2 DEF OwnersChange
<1> QED
  BY <1>1, <1>2

LEMMA OwnersStep ==
  ASSUME Alone, TypeOK, HandlersInv, AloneInv, [Next]_vars
  PROVE  OwnersChange
<1>1. CASE UNCHANGED users
  BY <1>1 DEF OwnersChange
<1>2. ASSUME NEW w \in Workers, Writes(w)
      PROVE  OwnersChange
  <2>1. CASE RegisterInsert(w) \/ GoogleInsert(w) \/ CreateUser(w)
    BY <2>1, InsertKeeps DEF RegisterInsert, GoogleInsert, CreateUser, OwnersChange
  <2>2. CASE LoginTouch(w) \/ GoogleUpdate(w)
    BY <2>2, SignInsOwn
  <2>3. CASE ProfileWrite(w) \/ PasswordWrite(w)
    BY <2>3, EditsOwn
  <2>4. CASE RegisterToken(w) \/ LoginToken(w) \/ GoogleToken(w)
    BY <1>1, <2>4 DEF RegisterToken, LoginToken, GoogleToken, Sign
  <2> QED
    BY <1>2, <2>1, <2>2, <2>3, <2>4 DEF Writes
<1>3. ASSUME NEW w \in Workers, Receive(w) \/ Step(w) \/ Crash(w), ~Writes(w)
      PROVE  OwnersChange
  BY <1>1, <1>3, OtherStepsOnlyRead DEF store
<1>4. CASE UNCHANGED vars \/ Expire
  BY <1>1, <1>4 DEF vars, Expire
<1> QED
  BY <1>2, <1>3, <1>4 DEF Next

\* With one worker only the holder of an account's token changes its names
\* or its password, and the password only from the named value; its picture
\* changes by a Google sign-in with its address as well.
THEOREM OnlyOwnersChange ==
  ASSUME Alone
  PROVE  Spec => OwnerChangesOnly
<1>1. TypeOK /\ HandlersInv /\ AloneInv /\ [Next]_vars => [OwnersChange]_users
  BY OwnersStep
<1> QED
  BY <1>1, TypeCorrect, HandlersCorrect, AloneCorrect, PTL
     DEF Spec, OwnerChangesOnly, OwnersChange

-----------------------------------------------------------------------------
(***************************************************************************)
(* The refinement: with one worker every step of a handler is an operation *)
(* of the directory or none.                                               *)
(***************************************************************************)
LEMMA DirectoryInit == Init => Directory!Init
BY DEF Init, Directory!Init

LEMMA CreateIsNext ==
  ASSUME NEW e \in Emails, NEW p \in Passwords \union {None}, NEW t \in UserTypes,
         NEW n \in Profiles, NEW a \in Avatars \union {None},
         NEW v \in {"never", "google"}, Directory!Create(e, p, t, n, a, v)
  PROVE  Directory!Next
BY DEF Directory!Next

LEMMA InsertIsCreate ==
  ASSUME TypeOK, HandlersInv, AloneInv, NEW w \in Workers,
         RegisterInsert(w) \/ GoogleInsert(w)
  PROVE  Directory!Next
<1>1. /\ WithEmail(users, req[w].email) = {}
      /\ nid[w] = Len(users) + 1
      /\ req[w].email \in Emails
      /\ req[w].profile \in Profiles
      /\ GoogleInsert(w) => req[w].avatar_url \in Avatars
  BY DEF RegisterInsert, GoogleInsert, HandlersInv, AloneInv, UndisturbedSince,
     RequestHolds, Creating, Inserting
<1>2. CASE RegisterInsert(w)
  <2>1. /\ req[w].password \in Passwords \union {None}
        /\ req[w].user_type \in UserTypes
        /\ None \in Avatars \union {None} /\ "never" \in {"never", "google"}
    BY <1>2 DEF RegisterInsert, HandlersInv, RequestHolds
  <2>2. Directory!Create(req[w].email, req[w].password, req[w].user_type,
                         req[w].profile, None, "never")
    BY <1>1, <1>2 DEF RegisterInsert, Directory!Create, Directory!WithEmail, WithEmail
  <2> QED
    BY <1>1, <2>1, <2>2, CreateIsNext
<1>3. CASE GoogleInsert(w)
  <2>1. Directory!Create(req[w].email, None, "user", req[w].profile,
                         req[w].avatar_url, "google")
    BY <1>1, <1>3 DEF GoogleInsert, Directory!Create, Directory!WithEmail, WithEmail
  <2> QED
    BY <1>1, <1>3, <2>1, UserTypesAssumption, CreateIsNext
<1> QED
  BY <1>2, <1>3

LEMMA TouchIsSignIn ==
  ASSUME TypeOK, HandlersInv, NEW w \in Workers, LoginTouch(w) \/ GoogleUpdate(w)
  PROVE  Directory!Next
<1>1. found[w].at \in DOMAIN users
  BY TouchesFound DEF LoginTouch, GoogleUpdate, Signing
<1>2. CASE LoginTouch(w)
  <2>1. Directory!SignIn(found[w].at)
    BY <1>2, TouchesFound DEF LoginTouch, Signing, Directory!SignIn
  <2> QED
    BY <1>1, <2>1 DEF Directory!Next
<1>3. CASE GoogleUpdate(w)
  <2>1. Directory!GoogleSignIn(found[w].at, req[w].avatar_url)
    BY <1>3, TouchesFound DEF GoogleUpdate, Signing, Directory!GoogleSignIn
  <2>2. req[w].avatar_url \in Avatars
    BY <1>3 DEF GoogleUpdate, HandlersInv, RequestHolds
  <2> QED
    BY <1>1, <2>1, <2>2 DEF Directory!Next
<1> QED
  BY <1>2, <1>3

LEMMA SignIsIssue ==
  ASSUME TypeOK, HandlersInv, NEW w \in Workers, NEW status,
         pc[w] \in {"reg_token", "login_token", "goo_token"}, Sign(w, status)
  PROVE  Directory!Next
<1>1. pc[w] \in Signing
  BY DEF Signing
<1>2. Directory!Issue(found[w].at)
  BY <1>1, TouchesFound DEF Sign, Directory!Issue
<1>3. found[w].at \in DOMAIN users
  BY <1>1, TouchesFound
<1> QED
  BY <1>2, <1>3 DEF Directory!Next

LEMMA DirectoryStep ==
  ASSUME Alone, TypeOK, HandlersInv, AloneInv, [Next]_vars
  PROVE  [Directory!Next]_<<users, tokens>>
<1>1. ASSUME NEW w \in Workers, Writes(w)
      PROVE  Directory!Next
  <2>1. CASE RegisterInsert(w) \/ GoogleInsert(w)
    BY <2>1, InsertIsCreate
  <2>2. CASE CreateUser(w)
    BY <2>2 DEF CreateUser, Directory!Next, Directory!CreateRecord, NoId, Directory!NoId
  <2>3. CASE LoginTouch(w) \/ GoogleUpdate(w)
    BY <2>3, TouchIsSignIn
  <2>4. CASE ProfileWrite(w)
    <3>1. Directory!SetProfile(req[w].token.holder, req[w].profile, req[w].avatar_url)
      BY <2>4, EditsHolder DEF ProfileWrite, SetsProfile, Directory!SetProfile, Given,
         Directory!Given, NoId, Directory!NoId
    <3> QED
      BY <2>4, <3>1, EditsHolder DEF Directory!Next
  <2>5. CASE PasswordWrite(w)
    <3>1. Directory!SetPassword(req[w].token.holder, req[w].password, req[w].new_password)
      BY <2>5, EditsHolder DEF PasswordWrite, Directory!SetPassword
    <3> QED
      BY <2>5, <3>1, EditsHolder DEF Directory!Next
  <2>6. CASE RegisterToken(w) \/ LoginToken(w) \/ GoogleToken(w)
    BY <2>6, SignIsIssue DEF RegisterToken, LoginToken, GoogleToken
  <2> QED
    BY <1>1, <2>1, <2>2, <2>3, <2>4, <2>5, <2>6 DEF Writes
<1>2. ASSUME NEW w \in Workers, Receive(w) \/ Step(w) \/ Crash(w), ~Writes(w)
      PROVE  UNCHANGED <<users, tokens>>
  BY <1>2, OtherStepsOnlyRead DEF store
<1>3. CASE Expire
  BY <1>3 DEF Expire, Directory!Next, Directory!Expire
<1>4. CASE UNCHANGED vars
  BY <1>4 DEF vars
<1> QED
  BY <1>1, <1>2, <1>3, <1>4 DEF Next

\* With one worker the handlers, each a series of round trips that may end
\* at any point, implement the directory of atomic operations.
THEOREM ImplementsDirectory ==
  ASSUME Alone
  PROVE  Spec => DirectorySpec
<1>1. TypeOK /\ HandlersInv /\ AloneInv /\ [Next]_vars
        => [Directory!Next]_<<users, tokens>>
  BY DirectoryStep
<1> QED
  BY <1>1, DirectoryInit, TypeCorrect, HandlersCorrect, AloneCorrect, PTL
     DEF Spec, DirectorySpec, Directory!Spec

-----------------------------------------------------------------------------
(***************************************************************************)
(* What the directory itself promises: that its operations are atomic is   *)
(* enough for the addresses, the ids and the tokens.                       *)
(***************************************************************************)
\* An address and an id have one account, and a token names an account, with
\* the claims it was signed with; one for a suspended account is Google's.
DirectoryHolds ==
    /\ users \in Seq(Doc)
    /\ IdsBehind(users) /\ DistinctEmails(users) /\ DistinctIds(users)
    /\ \A i \in DOMAIN users : users[i].email # None => users[i].id # NoId
    /\ \A t \in tokens :
         /\ t.holder \in DOMAIN users
         /\ t.user_id = users[t.holder].id
         /\ t.user_type = users[t.holder].user_type
         /\ users[t.holder].email # None
         /\ users[t.holder].is_active \/ users[t.holder].via = "google"

LEMMA DirectoryDomain ==
  ASSUME DirectoryHolds
  PROVE  /\ DOMAIN users = 1 .. Len(users) /\ Len(users) \in Nat
         /\ \A i \in DOMAIN users : users[i] \in Doc
BY LenProperties, ElementOfSeq DEF DirectoryHolds

LEMMA DirectoryAdds ==
  ASSUME DirectoryHolds, NEW d \in Doc, users' = Append(users, d), UNCHANGED tokens,
         \/ d.email # None /\ d.id = Len(users) + 1 /\ WithEmail(users, d.email) = {}
         \/ d.email = None /\ d.id = NoId
  PROVE  DirectoryHolds'
<1>1. /\ users' \in Seq(Doc) /\ DOMAIN users' = 1 .. Len(users) + 1
      /\ \A i \in 1 .. Len(users) : users'[i] = users[i]
      /\ users'[Len(users) + 1] = d
  BY InsertDoc DEF DirectoryHolds
<1>2. /\ DOMAIN users = 1 .. Len(users) /\ Len(users) \in Nat
      /\ \A i \in DOMAIN users : users[i].id \in Nat /\ users[i].id <= i
  BY DirectoryDomain DEF DirectoryHolds, IdsBehind, Doc
<1>3. IdsBehind(users')
  BY <1>1, <1>2 DEF IdsBehind, NoId
<1>4. DistinctEmails(users')
  BY <1>1, <1>2 DEF DirectoryHolds, DistinctEmails, WithEmail
<1>5. DistinctIds(users')
  <2>1. \A i \in DOMAIN users : users[i].id # Len(users) + 1
    BY <1>2
  <2> QED
    BY <1>1, <1>2, <2>1 DEF DirectoryHolds, DistinctIds
<1>6. \A i \in DOMAIN users' : users'[i].email # None => users'[i].id # NoId
  BY <1>1, <1>2 DEF DirectoryHolds, NoId
<1>7. \A t \in tokens : t.holder \in DOMAIN users' /\ users'[t.holder] = users[t.holder]
  BY <1>1, <1>2 DEF DirectoryHolds
<1> QED
  BY <1>1, <1>3, <1>4, <1>5, <1>6, <1>7 DEF DirectoryHolds

LEMMA DirectoryEdits ==
  ASSUME DirectoryHolds, NEW i \in DOMAIN users, NEW d \in Doc,
         users' = [users EXCEPT ![i] = d], UNCHANGED tokens,
         d.id = users[i].id, d.email = users[i].email,
         d.user_type = users[i].user_type, d.is_active = users[i].is_active,
         d.is_active \/ d.via \in {users[i].via, "google"}
  PROVE  DirectoryHolds'
<1>1. /\ users' \in Seq(Doc) /\ DOMAIN users' = DOMAIN users
      /\ \A j \in DOMAIN users : users'[j] = IF j = i THEN d ELSE users[j]
  BY UpdateDoc, LenProperties DEF DirectoryHolds
<1>2. \A j \in DOMAIN users :
        /\ users'[j].id = users[j].id /\ users'[j].email = users[j].email
        /\ users'[j].user_type = users[j].user_type
        /\ users'[j].is_active = users[j].is_active
        /\ users'[j].is_active \/ users'[j].via \in {users[j].via, "google"}
  BY <1>1
<1>3. IdsBehind(users') /\ DistinctEmails(users') /\ DistinctIds(users')
  BY <1>1, <1>2 DEF DirectoryHolds, IdsBehind, DistinctEmails, DistinctIds
<1> QED
  BY <1>1, <1>2, <1>3 DEF DirectoryHolds

LEMMA DirectoryKept ==
  ASSUME DirectoryHolds, [Directory!Next]_<<users, tokens>>
  PROVE  DirectoryHolds'
<1>1. ASSUME NEW e \in Emails, NEW p \in Passwords \union {None}, NEW t \in UserTypes,
             NEW n \in Profiles, NEW a \in Avatars \union {None},
             NEW v \in {"never", "google"}, Directory!Create(e, p, t, n, a, v)
      PROVE  DirectoryHolds'
  <2> DEFINE d == [id |-> Len(users) + 1, email |-> e, password_hash |-> p,
                   user_type |-> t, is_active |-> TRUE, profile |-> n,
                   avatar_url |-> a, via |-> v]
  <2>1. d \in Doc /\ d.id = Len(users) + 1 /\ d.email = e
    BY DirectoryDomain DEF Doc, Via
  <2>2. e # None /\ WithEmail(users, e) = {}
    BY <1>1, NoneAssumption DEF Directory!Create, Directory!WithEmail, WithEmail
  <2>3. users' = Append(users, d) /\ UNCHANGED tokens
    BY <1>1 DEF Directory!Create
  <2> HIDE DEF d
  <2> QED
    BY <2>1, <2>2, <2>3, DirectoryAdds
<1>2. CASE Directory!CreateRecord
  <2> DEFINE d == [id |-> NoId, email |-> None, password_hash |-> None,
                   user_type |-> None, is_active |-> TRUE, profile |-> None,
                   avatar_url |-> None, via |-> "never"]
  <2>1. d \in Doc /\ d.id = NoId /\ d.email = None
    BY DEF Doc, Via, NoId
  <2>2. users' = Append(users, d) /\ UNCHANGED tokens
    BY <1>2 DEF Directory!CreateRecord, Directory!NoId, NoId
  <2> HIDE DEF d
  <2> QED
    BY <2>1, <2>2, DirectoryAdds
<1>3. ASSUME NEW i \in DOMAIN users, Directory!SignIn(i)
      PROVE  DirectoryHolds'
  <2> DEFINE d == [users[i] EXCEPT !.via = "password"]
  <2>1. users[i] \in Doc
    BY DirectoryDomain
  <2>2. /\ d \in Doc /\ d.id = users[i].id /\ d.email = users[i].email
        /\ d.user_type = users[i].user_type /\ d.is_active = users[i].is_active
    BY <2>1 DEF Doc, Via
  <2>3. /\ users' = [users EXCEPT ![i] = d] /\ UNCHANGED tokens
        /\ users[i].is_active
    BY <1>3 DEF Directory!SignIn
  <2> HIDE DEF d
  <2> QED
    BY <2>2, <2>3, DirectoryEdits
<1>4. ASSUME NEW i \in DOMAIN users, NEW a \in Avatars, Directory!GoogleSignIn(i, a)
      PROVE  DirectoryHolds'
  <2> DEFINE d == WithPicture(users[i], a)
  <2>1. users[i] \in Doc
    BY DirectoryDomain
  <2>2. /\ d \in Doc /\ d.id = users[i].id /\ d.email = users[i].email
        /\ d.user_type = users[i].user_type /\ d.is_active = users[i].is_active
        /\ d.via = "google"
    BY <2>1, WithPictureIs
  <2>3. users' = [users EXCEPT ![i] = d] /\ UNCHANGED tokens
    BY <1>4 DEF Directory!GoogleSignIn, WithPicture
  <2> HIDE DEF d
  <2> QED
    BY <2>2, <2>3, DirectoryEdits
<1>9. ASSUME NEW i \in DOMAIN users, NEW n \in Profiles \union {None},
             NEW a \in Avatars \union {None}, Directory!SetProfile(i, n, a)
      PROVE  DirectoryHolds'
  <2> DEFINE d == WithProfile(users[i], n, a)
  <2>1. users[i] \in Doc
    BY DirectoryDomain
  <2>2. /\ d \in Doc /\ d.id = users[i].id /\ d.email = users[i].email
        /\ d.user_type = users[i].user_type /\ d.is_active = users[i].is_active
        /\ d.via = users[i].via
    BY <2>1, WithProfileIs
  <2>3. [users[i] EXCEPT !.profile = Given(n, users[i].profile)].avatar_url
          = users[i].avatar_url
    BY <2>1 DEF Doc
  <2>4. users' = [users EXCEPT ![i] = d] /\ UNCHANGED tokens
    BY <1>9, <2>3 DEF Directory!SetProfile, Directory!Given, Given, WithProfile
  <2> HIDE DEF d
  <2> QED
    BY <2>2, <2>4, DirectoryEdits
<1>5. ASSUME NEW i \in DOMAIN users, NEW old \in Passwords, NEW new \in Passwords,
             Directory!SetPassword(i, old, new)
      PROVE  DirectoryHolds'
  <2> DEFINE d == [users[i] EXCEPT !.password_hash = new]
  <2>1. users[i] \in Doc
    BY DirectoryDomain
  <2>2. /\ d \in Doc /\ d.id = users[i].id /\ d.email = users[i].email
        /\ d.user_type = users[i].user_type /\ d.is_active = users[i].is_active
        /\ d.via = users[i].via
    BY <2>1 DEF Doc
  <2>3. users' = [users EXCEPT ![i] = d] /\ UNCHANGED tokens
    BY <1>5 DEF Directory!SetPassword
  <2> HIDE DEF d
  <2> QED
    BY <2>2, <2>3, DirectoryEdits
<1>6. ASSUME NEW i \in DOMAIN users, Directory!Issue(i) PROVE DirectoryHolds'
  BY <1>6 DEF Directory!Issue, DirectoryHolds
<1>7. ASSUME NEW t \in tokens, Directory!Expire(t) PROVE DirectoryHolds'
  BY <1>7 DEF Directory!Expire, DirectoryHolds
<1>8. CASE UNCHANGED <<users, tokens>>
  BY <1>8 DEF DirectoryHolds
<1> QED
  BY <1>1, <1>2, <1>3, <1>4, <1>5, <1>6, <1>7, <1>8, <1>9 DEF Directory!Next

\* Whatever implements the directory keeps these promises: with
\* ImplementsDirectory, so do the handlers of a single worker.
THEOREM DirectoryIsSafe == DirectorySpec => []DirectoryHolds
<1>1. Directory!Init => DirectoryHolds
  BY InitCollectionsAssumption DEF Directory!Init, DirectoryHolds
<1>2. DirectoryHolds /\ [Directory!Next]_<<users, tokens>> => DirectoryHolds'
  BY DirectoryKept
<1> QED
  BY <1>1, <1>2, PTL DEF DirectorySpec, Directory!Spec
=============================================================================
