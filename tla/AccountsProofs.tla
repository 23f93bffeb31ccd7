--------------------------- MODULE AccountsProofs ---------------------------
(***************************************************************************)
(* Theorems about Accounts, for any sets of addresses, passwords, ...      *)
(***************************************************************************)
EXTENDS AccountsInvariants, SequenceTheorems, TLAPS

-----------------------------------------------------------------------------
(***************************************************************************)
(* The two ways a handler writes the collection: insert_one and the $set   *)
(* of update_one.                                                          *)
(***************************************************************************)
LEMMA InsertDoc ==
  ASSUME NEW docs \in Seq(Doc), NEW d \in Doc
  PROVE  /\ Append(docs, d) \in Seq(Doc)
         /\ Len(Append(docs, d)) = Len(docs) + 1
         /\ DOMAIN Append(docs, d) = 1 .. Len(docs) + 1
         /\ \A i \in 1 .. Len(docs) : Append(docs, d)[i] = docs[i]
         /\ Append(docs, d)[Len(docs) + 1] = d
  OBVIOUS

LEMMA UpdateDoc ==
  ASSUME NEW docs \in Seq(Doc), NEW i \in DOMAIN docs, NEW d \in Doc
  PROVE  /\ [docs EXCEPT ![i] = d] \in Seq(Doc)
         /\ Len([docs EXCEPT ![i] = d]) = Len(docs)
         /\ DOMAIN [docs EXCEPT ![i] = d] = DOMAIN docs
         /\ \A j \in DOMAIN docs :
              [docs EXCEPT ![i] = d][j] = IF j = i THEN d ELSE docs[j]
<1>1. DOMAIN docs = 1 .. Len(docs)
  BY LenProperties
<1>2. i \in 1 .. Len(docs)
  BY <1>1
<1> QED
  BY <1>1, <1>2, ExceptSeq, LenProperties

LEMMA WritesKeepDoc ==
  ASSUME NEW d \in Doc
  PROVE  /\ \A v \in Via : [d EXCEPT !.via = v] \in Doc
         /\ \A a \in Avatars \union {None} : [d EXCEPT !.avatar_url = a] \in Doc
         /\ \A n \in Profiles \union {None} : [d EXCEPT !.profile = n] \in Doc
         /\ \A p \in Passwords \union {None} : [d EXCEPT !.password_hash = p] \in Doc
  BY DEF Doc

-----------------------------------------------------------------------------
(***************************************************************************)
(* Type correctness.                                                       *)
(***************************************************************************)

\* What the handlers have in common keeps the registers' types.
LEMMA AcceptTypes ==
  ASSUME TypeOK, NEW w \in Workers, NEW r \in Request, NEW label \in Labels,
         Accept(w, r, label)
  PROVE  TypeOK'
BY DEF Accept, TypeOK, Reply

LEMMA AnswerTypes ==
  ASSUME TypeOK, NEW w \in Workers, NEW status \in Reply, Answer(w, status)
  PROVE  /\ pc' \in [Workers -> Labels]
         /\ req' \in [Workers -> Request]
         /\ found' \in [Workers -> Snapshot]
         /\ nid' \in [Workers -> Nat]
         /\ reply' \in Reply
<1>1. Blank \in Request
  BY DEF Blank, Request, Ops, NoToken, Token
<1>2. NoDoc \in Snapshot
  BY DEF NoDoc, Snapshot, NoId
<1> QED
  BY <1>1, <1>2 DEF Answer, TypeOK, Labels

LEMMA BlankTyped == Blank \in Request
BY DEF Blank, Request, Ops, NoToken, Token

\* Each kind of request is typed.
LEMMA RegisterTyped ==
  ASSUME NEW e \in Emails, NEW p \in Passwords, NEW t \in UserTypes, NEW n \in Profiles
  PROVE  [Blank EXCEPT !.op = "register", !.email = e, !.password = p,
                       !.user_type = t, !.profile = n] \in Request
BY BlankTyped DEF Request, Ops

LEMMA LoginTyped ==
  ASSUME NEW e \in Emails, NEW p \in Passwords
  PROVE  [Blank EXCEPT !.op = "login", !.email = e, !.password = p] \in Request
BY BlankTyped DEF Request, Ops

LEMMA GoogleTyped ==
  ASSUME NEW e \in Emails, NEW n \in Profiles, NEW a \in Avatars
  PROVE  [Blank EXCEPT !.op = "google", !.email = e, !.profile = n,
                       !.avatar_url = a] \in Request
BY BlankTyped DEF Request, Ops

LEMMA PresentTyped ==
  ASSUME NEW t \in Token, NEW op \in {"get_profile", "logout", "admin"}
  PROVE  [Blank EXCEPT !.op = op, !.token = t] \in Request
BY BlankTyped DEF Request, Ops

LEMMA UpdateTyped ==
  ASSUME NEW t \in Token, NEW n \in Profiles \union {None},
         NEW a \in Avatars \union {None}
  PROVE  [Blank EXCEPT !.op = "update_profile", !.token = t, !.profile = n,
                       !.avatar_url = a] \in Request
BY BlankTyped DEF Request, Ops

LEMMA ChangeTyped ==
  ASSUME NEW t \in Token, NEW p \in Passwords \union {None}, NEW q \in Passwords
  PROVE  [Blank EXCEPT !.op = "change_password", !.token = t, !.password = p,
                       !.new_password = q] \in Request
BY BlankTyped DEF Request, Ops

\* Whatever a client asks for with a token, the request carries the token.
Presents(w, t, r) ==
    /\ Accept(w, r, "jwt")
    /\ r.token = t
    /\ r.op = "change_password" => r.new_password \in Passwords

LEMMA PresentedRequest ==
  ASSUME TypeOK, NEW w \in Workers, Present(w)
  PROVE  \E t \in tokens, r \in Request : Presents(w, t, r)
<1>1. PICK t \in tokens :
        \/ \E op \in {"get_profile", "logout", "admin"} :
             Accept(w, [Blank EXCEPT !.op = op, !.token = t], "jwt")
        \/ \E n \in Profiles \union {None}, a \in Avatars \union {None} :
             Accept(w, [Blank EXCEPT !.op = "update_profile", !.token = t,
                                     !.profile = n, !.avatar_url = a], "jwt")
        \/ \E p \in Passwords \union {None}, q \in Passwords :
             Accept(w, [Blank EXCEPT !.op = "change_password", !.token = t,
                                     !.password = p, !.new_password = q], "jwt")
  BY DEF Present
<1>2. t \in Token
  BY DEF TypeOK
<1>3. CASE \E op \in {"get_profile", "logout", "admin"} :
             Accept(w, [Blank EXCEPT !.op = op, !.token = t], "jwt")
  BY <1>2, <1>3, PresentTyped DEF Presents, Blank
<1>4. CASE \E n \in Profiles \union {None}, a \in Avatars \union {None} :
             Accept(w, [Blank EXCEPT !.op = "update_profile", !.token = t,
                                     !.profile = n, !.avatar_url = a], "jwt")
  BY <1>2, <1>4, UpdateTyped DEF Presents, Blank
<1>5. CASE \E p \in Passwords \union {None}, q \in Passwords :
             Accept(w, [Blank EXCEPT !.op = "change_password", !.token = t,
                                     !.password = p, !.new_password = q], "jwt")
  BY <1>2, <1>5, ChangeTyped DEF Presents, Blank
<1> QED
  BY <1>1, <1>3, <1>4, <1>5

LEMMA GotoTypes ==
  ASSUME TypeOK, NEW w \in Workers, NEW label \in Labels, Goto(w, label)
  PROVE  /\ pc' \in [Workers -> Labels]
         /\ req' \in [Workers -> Request]
         /\ reply' \in Reply
BY DEF Goto, TypeOK, Reply

LEMMA ReceiveTypes ==
  ASSUME TypeOK, NEW w \in Workers, Receive(w)
  PROVE  TypeOK'
<1>1. \A s \in Spellings : Normal[s] \in Emails
  BY SpellingsAssumption
<1>2. ASSUME NEW status \in {400, 401}, AnswerAtOnce(w, status)
      PROVE  TypeOK'
  BY <1>2 DEF AnswerAtOnce, TypeOK, Reply
<1>3. CASE Register(w)
  <2>1. CASE AnswerAtOnce(w, 400)
    BY <1>2, <2>1
  <2>2. ASSUME NEW s \in Spellings, NEW p \in Passwords, NEW t \in UserTypes,
               NEW n \in Profiles,
               Accept(w, [Blank EXCEPT !.op = "register", !.email = Normal[s],
                                       !.password = p, !.user_type = t,
                                       !.profile = n], "reg_find")
        PROVE  TypeOK'
    <3> DEFINE r == [Blank EXCEPT !.op = "register", !.email = Normal[s],
                                  !.password = p, !.user_type = t, !.profile = n]
    <3>1. r \in Request
      BY <1>1, RegisterTyped
    <3>2. Accept(w, r, "reg_find") /\ "reg_find" \in Labels
      BY <2>2 DEF Labels
    <3> QED
      BY <3>1, <3>2, AcceptTypes
  <2> QED
    BY <1>3, <2>1, <2>2 DEF Register
<1>4. CASE Login(w)
  <2>1. CASE AnswerAtOnce(w, 400)
    BY <1>2, <2>1
  <2>2. ASSUME NEW s \in Spellings, NEW p \in Passwords,
               Accept(w, [Blank EXCEPT !.op = "login", !.email = Normal[s],
                                       !.password = p], "login_find")
        PROVE  TypeOK'
    <3> DEFINE r == [Blank EXCEPT !.op = "login", !.email = Normal[s],
                                  !.password = p]
    <3>1. r \in Request
      BY <1>1, LoginTyped
    <3>2. Accept(w, r, "login_find") /\ "login_find" \in Labels
      BY <2>2 DEF Labels
    <3> QED
      BY <3>1, <3>2, AcceptTypes
  <2> QED
    BY <1>4, <2>1, <2>2 DEF Login
<1>5. CASE GoogleLogin(w)
  <2>1. CASE AnswerAtOnce(w, 400)
    BY <1>2, <2>1
  <2>2. ASSUME NEW s \in Spellings, NEW n \in Profiles, NEW a \in Avatars,
               Accept(w, [Blank EXCEPT !.op = "google", !.email = Normal[s],
                                       !.profile = n, !.avatar_url = a], "goo_find")
        PROVE  TypeOK'
    <3> DEFINE r == [Blank EXCEPT !.op = "google", !.email = Normal[s],
                                  !.profile = n, !.avatar_url = a]
    <3>1. r \in Request
      BY <1>1, GoogleTyped
    <3>2. Accept(w, r, "goo_find") /\ "goo_find" \in Labels
      BY <2>2 DEF Labels
    <3> QED
      BY <3>1, <3>2, AcceptTypes
  <2> QED
    BY <1>5, <2>1, <2>2 DEF GoogleLogin
<1>6. CASE NoTokenPresented(w)
  BY <1>2, <1>6 DEF NoTokenPresented
<1>7. CASE Present(w)
  <2>1. "jwt" \in Labels
    BY DEF Labels
  <2> QED
    BY <1>7, <2>1, PresentedRequest, AcceptTypes DEF Presents
<1>8. CASE Refresh(w)
  BY <1>2, <1>8 DEF Refresh
<1>9. CASE CreateUser(w)
  <2>1. [id |-> NoId, email |-> None, password_hash |-> None,
         user_type |-> None, is_active |-> TRUE, profile |-> None,
         avatar_url |-> None, via |-> "never"] \in Doc
    BY DEF Doc, Via, NoId
  <2> QED
    BY <1>9, <2>1, InsertDoc DEF CreateUser, TypeOK, Reply
<1> QED
  BY <1>3, <1>4, <1>5, <1>6, <1>7, <1>8, <1>9 DEF Receive

\* Signing and answering.
LEMMA SignTypes ==
  ASSUME TypeOK, NEW w \in Workers, NEW status \in {200, 201}, Sign(w, status)
  PROVE  TypeOK'
<1>1. [user_id |-> found[w].id, user_type |-> found[w].user_type,
       holder |-> found[w].at] \in Token
  BY DEF TypeOK, Snapshot, Token
<1>2. tokens' \subseteq Token /\ users' \in Seq(Doc)
  BY <1>1 DEF Sign, TypeOK
<1>3. Answer(w, status) /\ status \in Reply
  BY DEF Sign, Reply
<1> QED
  BY <1>2, <1>3, AnswerTypes DEF TypeOK

\* A step that only answers, or only goes on, and leaves the store alone.
LEMMA QuietTypes ==
  ASSUME TypeOK, NEW w \in Workers, UNCHANGED store,
         \/ \E status \in Reply : Answer(w, status)
         \/ \E label \in Labels : Goto(w, label) /\ UNCHANGED registers
  PROVE  TypeOK'
<1>1. users' \in Seq(Doc) /\ tokens' \subseteq Token
  BY DEF store, TypeOK
<1>2. CASE \E status \in Reply : Answer(w, status)
  BY <1>1, <1>2, AnswerTypes DEF TypeOK
<1>3. CASE \E label \in Labels : Goto(w, label) /\ UNCHANGED registers
  <2>1. found' \in [Workers -> Snapshot] /\ nid' \in [Workers -> Nat]
    BY <1>3 DEF registers, TypeOK
  <2> QED
    BY <1>1, <1>3, <2>1, GotoTypes DEF TypeOK
<1> QED
  BY <1>2, <1>3

\* A step that goes on to another round trip, with typed data.
LEMMA GotoOnTypes ==
  ASSUME TypeOK, NEW w \in Workers, NEW label \in Labels, Goto(w, label),
         users' \in Seq(Doc), UNCHANGED tokens,
         found' \in [Workers -> Snapshot], nid' \in [Workers -> Nat]
  PROVE  TypeOK'
BY GotoTypes DEF TypeOK

LEMMA CopyTyped ==
  ASSUME TypeOK, NEW i \in DOMAIN users
  PROVE  /\ users[i] \in Doc
         /\ Copy(i) \in Snapshot
<1>1. i \in 1 .. Len(users) /\ i \in Nat
  BY LenProperties DEF TypeOK
<1>2. users[i] \in Doc
  BY <1>1, ElementOfSeq DEF TypeOK
<1> QED
  BY <1>1, <1>2 DEF Copy, Snapshot, Doc

\* The documents that google_login() and update_profile() leave.
WithPicture(d, a) == [d EXCEPT !.via = "google", !.avatar_url = a]
WithProfile(d, n, a) ==
    [d EXCEPT !.profile = Given(n, d.profile), !.avatar_url = Given(a, d.avatar_url)]

LEMMA WithPictureIs ==
  ASSUME NEW d \in Doc, NEW a \in Avatars \union {None}
  PROVE  /\ WithPicture(d, a) \in Doc
         /\ WithPicture(d, a).via = "google"
         /\ WithPicture(d, a).avatar_url = a
         /\ WithPicture(d, a).id = d.id
         /\ WithPicture(d, a).email = d.email
         /\ WithPicture(d, a).user_type = d.user_type
         /\ WithPicture(d, a).is_active = d.is_active
         /\ WithPicture(d, a).password_hash = d.password_hash
         /\ WithPicture(d, a).profile = d.profile
BY DEF WithPicture, Doc, Via

LEMMA WithProfileIs ==
  ASSUME NEW d \in Doc, NEW n \in Profiles \union {None},
         NEW a \in Avatars \union {None}
  PROVE  /\ WithProfile(d, n, a) \in Doc
         /\ WithProfile(d, n, a).profile = Given(n, d.profile)
         /\ WithProfile(d, n, a).avatar_url = Given(a, d.avatar_url)
         /\ WithProfile(d, n, a).id = d.id
         /\ WithProfile(d, n, a).email = d.email
         /\ WithProfile(d, n, a).user_type = d.user_type
         /\ WithProfile(d, n, a).is_active = d.is_active
         /\ WithProfile(d, n, a).password_hash = d.password_hash
         /\ WithProfile(d, n, a).via = d.via
<1>1. Given(n, d.profile) \in Profiles \union {None}
  BY DEF Given, Doc
<1>2. Given(a, d.avatar_url) \in Avatars \union {None}
  BY DEF Given, Doc
<1> QED
  BY <1>1, <1>2 DEF WithProfile, Doc

\* What google_login() and update_profile() write is one document.
SetsPicture(i, a) == users' = [users EXCEPT ![i].via = "google", ![i].avatar_url = a]
SetsProfile(i, n, a) ==
    users' = [users EXCEPT ![i].profile = Given(n, @), ![i].avatar_url = Given(a, @)]

LEMMA GoogleWrites ==
  ASSUME TypeOK, NEW i \in DOMAIN users, NEW a \in Avatars \union {None},
         SetsPicture(i, a)
  PROVE  /\ users' = [users EXCEPT ![i] = WithPicture(users[i], a)]
         /\ WithPicture(users[i], a) \in Doc
<1>1. users[i] \in Doc
  BY CopyTyped
<1>2. users' = [users EXCEPT ![i] = WithPicture(users[i], a)]
  BY DEF WithPicture, SetsPicture
<1> QED
  BY <1>1, <1>2, WithPictureIs

LEMMA ProfileWrites ==
  ASSUME TypeOK, NEW i \in DOMAIN users, NEW n \in Profiles \union {None},
         NEW a \in Avatars \union {None},
         SetsProfile(i, n, a)
  PROVE  /\ users' = [users EXCEPT ![i] = WithProfile(users[i], n, a)]
         /\ WithProfile(users[i], n, a) \in Doc
<1>1. users[i] \in Doc
  BY CopyTyped
<1>2. [users[i] EXCEPT !.profile = Given(n, users[i].profile)].avatar_url
        = users[i].avatar_url
  BY <1>1 DEF Doc
<1>3. users' = [users EXCEPT ![i] = WithProfile(users[i], n, a)]
  BY <1>2 DEF WithProfile, SetsProfile
<1> QED
  BY <1>1, <1>3, WithProfileIs

\* The $set of update_one, on the first document a filter matches.
LEMMA SetField ==
  ASSUME TypeOK, NEW i,
         \/ \E v \in Via : users' = [users EXCEPT ![i].via = v]
         \/ \E a \in Avatars \union {None} :
              SetsPicture(i, a)
         \/ \E n \in Profiles \union {None}, a \in Avatars \union {None} :
              SetsProfile(i, n, a)
         \/ \E p \in Passwords \union {None} :
              users' = [users EXCEPT ![i].password_hash = p]
  PROVE  users' \in Seq(Doc)
<1>1. CASE i \in DOMAIN users
  <2>1. users[i] \in Doc
    BY <1>1, CopyTyped
  <2>2. PICK d \in Doc : users' = [users EXCEPT ![i] = d]
    BY <1>1, <2>1, WritesKeepDoc, GoogleWrites, ProfileWrites
  <2> QED
    BY <1>1, <2>2, UpdateDoc DEF TypeOK
<1>2. CASE i \notin DOMAIN users
  <2>1. users' = users
    BY <1>2, LenProperties DEF TypeOK, SetsPicture, SetsProfile
  <2> QED
    BY <2>1 DEF TypeOK
<1> QED
  BY <1>1, <1>2

LEMMA RegisterTypes ==
  ASSUME TypeOK, NEW w \in Workers,
         \/ RegisterFind(w) \/ RegisterCount(w)
         \/ RegisterInsert(w) \/ RegisterToken(w)
  PROVE  TypeOK'
<1>1. CASE RegisterFind(w)
  BY <1>1, QuietTypes DEF RegisterFind, Labels, Reply
<1>2. CASE RegisterCount(w)
  <2>1. nid' \in [Workers -> Nat]
    BY <1>2, LenProperties DEF RegisterCount, TypeOK
  <2> QED
    BY <1>2, <2>1, GotoOnTypes DEF RegisterCount, TypeOK, Labels
<1>3. CASE RegisterInsert(w)
  <2>1. [id |-> nid[w], email |-> req[w].email, password_hash |-> req[w].password,
         user_type |-> req[w].user_type, is_active |-> TRUE,
         profile |-> req[w].profile, avatar_url |-> None, via |-> "never"] \in Doc
    BY DEF TypeOK, Request, Doc, Via
  <2>2. users' \in Seq(Doc)
    BY <1>3, <2>1, InsertDoc DEF RegisterInsert, TypeOK
  <2>3. found' \in [Workers -> Snapshot]
    BY <1>3, LenProperties DEF RegisterInsert, TypeOK, Snapshot, Request
  <2> QED
    BY <1>3, <2>2, <2>3, GotoOnTypes DEF RegisterInsert, TypeOK, Labels
<1>4. CASE RegisterToken(w)
  BY <1>4, SignTypes DEF RegisterToken
<1> QED
  BY <1>1, <1>2, <1>3, <1>4

LEMMA LoginTypes ==
  ASSUME TypeOK, NEW w \in Workers,
         LoginFind(w) \/ LoginTouch(w) \/ LoginToken(w)
  PROVE  TypeOK'
<1>1. CASE LoginFind(w)
  <2>1. CASE \E status \in {401, 500} : Answer(w, status)
    BY <1>1, <2>1, QuietTypes DEF LoginFind, Reply
  <2>2. CASE \E i \in DOMAIN users : /\ found' = [found EXCEPT ![w] = Copy(i)]
                                     /\ Goto(w, "login_touch")
                                     /\ UNCHANGED nid
    <3>1. found' \in [Workers -> Snapshot]
      BY <2>2, CopyTyped DEF TypeOK
    <3> QED
      BY <1>1, <2>2, <3>1, GotoOnTypes DEF LoginFind, TypeOK, Labels, store
  <2> QED
    BY <1>1, <2>1, <2>2 DEF LoginFind
<1>2. CASE LoginTouch(w)
  <2>1. users' \in Seq(Doc)
    BY <1>2, SetField DEF LoginTouch, Via
  <2> QED
    BY <1>2, <2>1, GotoOnTypes DEF LoginTouch, TypeOK, Labels
<1>3. CASE LoginToken(w)
  BY <1>3, SignTypes DEF LoginToken
<1> QED
  BY <1>1, <1>2, <1>3

LEMMA GoogleTypes ==
  ASSUME TypeOK, NEW w \in Workers,
         \/ GoogleFind(w) \/ GoogleUpdate(w)
         \/ GoogleCount(w) \/ GoogleInsert(w) \/ GoogleToken(w)
  PROVE  TypeOK'
<1>1. CASE GoogleFind(w)
  <2>1. found' \in [Workers -> Snapshot]
    BY <1>1, CopyTyped DEF GoogleFind, TypeOK
  <2> QED
    BY <1>1, <2>1, GotoOnTypes DEF GoogleFind, TypeOK, Labels
<1>2. CASE GoogleUpdate(w)
  <2>1. /\ SetsPicture(found[w].at, req[w].avatar_url)
        /\ req[w].avatar_url \in Avatars \union {None}
    BY <1>2 DEF GoogleUpdate, SetsPicture, TypeOK, Request
  <2>2. users' \in Seq(Doc)
    BY <2>1, SetField
  <2> QED
    BY <1>2, <2>2, GotoOnTypes DEF GoogleUpdate, TypeOK, Labels
<1>3. CASE GoogleCount(w)
  <2>1. nid' \in [Workers -> Nat]
    BY <1>3, LenProperties DEF GoogleCount, TypeOK
  <2> QED
    BY <1>3, <2>1, GotoOnTypes DEF GoogleCount, TypeOK, Labels
<1>4. CASE GoogleInsert(w)
  <2>1. [id |-> nid[w], email |-> req[w].email, password_hash |-> None,
         user_type |-> "user", is_active |-> TRUE,
         profile |-> req[w].profile, avatar_url |-> req[w].avatar_url,
         via |-> "google"] \in Doc
    BY UserTypesAssumption DEF TypeOK, Request, Doc, Via
  <2>2. users' \in Seq(Doc)
    BY <1>4, <2>1, InsertDoc DEF GoogleInsert, TypeOK
  <2>3. found' \in [Workers -> Snapshot]
    BY <1>4, LenProperties, UserTypesAssumption DEF GoogleInsert, TypeOK, Snapshot
  <2> QED
    BY <1>4, <2>2, <2>3, GotoOnTypes DEF GoogleInsert, TypeOK, Labels
<1>5. CASE GoogleToken(w)
  BY <1>5, SignTypes DEF GoogleToken
<1> QED
  BY <1>1, <1>2, <1>3, <1>4, <1>5

LEMMA ProtectedTypes ==
  ASSUME TypeOK, NEW w \in Workers,
         \/ JwtRefuse(w) \/ GetProfile(w) \/ Logout(w) \/ AdminCall(w)
         \/ UpdateProfile(w) \/ ProfileWrite(w) \/ ProfileRead(w)
         \/ ChangePassword(w) \/ PasswordFind(w) \/ PasswordWrite(w)
  PROVE  TypeOK'
<1>1. CASE JwtRefuse(w) \/ GetProfile(w) \/ Logout(w) \/ AdminCall(w) \/ ProfileRead(w)
  BY <1>1, QuietTypes DEF JwtRefuse, GetProfile, Logout, AdminCall, ProfileRead, Reply
<1>2. CASE UpdateProfile(w) \/ ChangePassword(w)
  BY <1>2, QuietTypes DEF UpdateProfile, ChangePassword, Labels, Reply
<1>3. CASE PasswordFind(w)
  BY <1>3, QuietTypes DEF PasswordFind, Labels, Reply
<1>4. CASE ProfileWrite(w)
  <2>1. /\ req[w].profile \in Profiles \union {None}
        /\ req[w].avatar_url \in Avatars \union {None}
    BY DEF TypeOK, Request
  <2>2. \E i \in DOMAIN users : SetsProfile(i, req[w].profile, req[w].avatar_url)
    BY <1>4 DEF ProfileWrite, SetsProfile
  <2>3. users' \in Seq(Doc)
    BY <2>1, <2>2, SetField
  <2> QED
    BY <1>4, <2>3, GotoOnTypes DEF ProfileWrite, TypeOK, Labels
<1>5. CASE PasswordWrite(w)
  <2>1. req[w].new_password \in Passwords \union {None}
    BY DEF TypeOK, Request
  <2>2. users' \in Seq(Doc)
    BY <1>5, <2>1, SetField DEF PasswordWrite
  <2> QED
    BY <1>5, <2>2, AnswerTypes DEF PasswordWrite, TypeOK, Reply
<1> QED
  BY <1>1, <1>2, <1>3, <1>4, <1>5

LEMMA TypeStep == TypeOK /\ [Next]_vars => TypeOK'
<1> SUFFICES ASSUME TypeOK, [Next]_vars PROVE TypeOK'
  OBVIOUS
<1>1. CASE UNCHANGED vars
  BY <1>1 DEF vars, TypeOK
<1>2. CASE Expire
  BY <1>2 DEF Expire, TypeOK, Reply
<1>3. ASSUME NEW w \in Workers, Receive(w)
      PROVE  TypeOK'
  BY <1>3, ReceiveTypes
<1>4. ASSUME NEW w \in Workers, Step(w)
      PROVE  TypeOK'
  BY <1>4, RegisterTypes, LoginTypes, GoogleTypes, ProtectedTypes DEF Step
<1>5. ASSUME NEW w \in Workers, Crash(w)
      PROVE  TypeOK'
  <2>1. NoReply \in Reply
    BY DEF Reply
  <2> QED
    BY <1>5, <2>1, AnswerTypes DEF Crash, store, TypeOK
<1> QED
  BY <1>1, <1>2, <1>3, <1>4, <1>5 DEF Next

LEMMA TypeInit == Init => TypeOK
<1> SUFFICES ASSUME Init PROVE TypeOK
  OBVIOUS
<1>1. users \in Seq(Doc)
  BY InitCollectionsAssumption DEF Init
<1>2. NoDoc \in Snapshot
  BY DEF NoDoc, Snapshot, NoId
<1> QED
  BY <1>1, <1>2, BlankTyped DEF Init, TypeOK, Labels, Reply

\* Every value the handlers store, keep in registers or send has its type.
THEOREM TypeCorrect == Spec => []TypeOK
<1> QED
  BY TypeInit, TypeStep, PTL DEF Spec

-----------------------------------------------------------------------------
(***************************************************************************)
(* What any step does to the collection: documents are added at the end,   *)
(* and those that are there keep what identifies them.                     *)
(***************************************************************************)
SameAccount(d, e) ==
    /\ e.id = d.id
    /\ e.email = d.email
    /\ e.user_type = d.user_type
    /\ e.is_active = d.is_active
    /\ e.password_hash = None <=> d.password_hash = None
    /\ ~d.is_active => /\ e.profile = d.profile
                       /\ e.password_hash = d.password_hash
                       /\ d.via = "google" => e.via = "google"

Grows ==
    /\ Len(users) <= Len(users')
    /\ \A i \in DOMAIN users : SameAccount(users[i], users'[i])

LEMMA GrowsByNothing == TypeOK /\ UNCHANGED users => Grows
BY LenProperties DEF Grows, SameAccount, TypeOK

LEMMA GrowsByInsert ==
  ASSUME TypeOK, NEW d \in Doc, users' = Append(users, d)
  PROVE  Grows
<1>1. DOMAIN users = 1 .. Len(users) /\ Len(users) \in Nat
  BY LenProperties DEF TypeOK
<1> QED
  BY <1>1, InsertDoc DEF Grows, SameAccount, TypeOK

LEMMA GrowsByUpdate ==
  ASSUME TypeOK, NEW i \in DOMAIN users, NEW d \in Doc,
         users' = [users EXCEPT ![i] = d], SameAccount(users[i], d)
  PROVE  Grows
<1>1. Len(users) \in Nat /\ Len(users') = Len(users)
  BY UpdateDoc, LenProperties DEF TypeOK
<1>2. \A j \in DOMAIN users : users'[j] = IF j = i THEN d ELSE users[j]
  BY UpdateDoc DEF TypeOK
<1> QED
  BY <1>1, <1>2 DEF Grows, SameAccount

LEMMA GrowsByVia ==
  ASSUME TypeOK, NEW i \in DOMAIN users, NEW v \in Via,
         users' = [users EXCEPT ![i].via = v],
         users[i].is_active \/ v = "google"
  PROVE  Grows
<1> DEFINE d == [users[i] EXCEPT !.via = v]
<1>1. users[i] \in Doc /\ d \in Doc
  BY CopyTyped, WritesKeepDoc
<1>2. SameAccount(users[i], d)
  BY <1>1 DEF SameAccount, Doc
<1>3. users' = [users EXCEPT ![i] = d]
  OBVIOUS
<1> HIDE DEF d
<1> QED
  BY <1>1, <1>2, <1>3, GrowsByUpdate

LEMMA GrowsByGoogle ==
  ASSUME TypeOK, NEW i \in DOMAIN users, NEW a \in Avatars \union {None},
         SetsPicture(i, a)
  PROVE  Grows
<1> DEFINE d == WithPicture(users[i], a)
<1>1. users' = [users EXCEPT ![i] = d] /\ d \in Doc
  BY GoogleWrites
<1>2. SameAccount(users[i], d)
  BY CopyTyped, WithPictureIs DEF SameAccount
<1> HIDE DEF d
<1> QED
  BY <1>1, <1>2, GrowsByUpdate

LEMMA GrowsByProfile ==
  ASSUME TypeOK, NEW i \in DOMAIN users, NEW n \in Profiles \union {None},
         NEW a \in Avatars \union {None},
         SetsProfile(i, n, a),
         users[i].is_active
  PROVE  Grows
<1> DEFINE d == WithProfile(users[i], n, a)
<1>1. users' = [users EXCEPT ![i] = d] /\ d \in Doc
  BY ProfileWrites
<1>2. SameAccount(users[i], d)
  BY CopyTyped, WithProfileIs DEF SameAccount
<1> HIDE DEF d
<1> QED
  BY <1>1, <1>2, GrowsByUpdate

LEMMA GrowsByPassword ==
  ASSUME TypeOK, NEW i \in DOMAIN users, NEW p \in Passwords,
         users' = [users EXCEPT ![i].password_hash = p],
         users[i].is_active, users[i].password_hash # None
  PROVE  Grows
<1> DEFINE d == [users[i] EXCEPT !.password_hash = p]
<1>1. users[i] \in Doc /\ d \in Doc
  BY CopyTyped, WritesKeepDoc
<1>2. SameAccount(users[i], d)
  BY <1>1, NoneAssumption DEF SameAccount, Doc
<1>3. users' = [users EXCEPT ![i] = d]
  OBVIOUS
<1> HIDE DEF d
<1> QED
  BY <1>1, <1>2, <1>3, GrowsByUpdate

\* The first match of a filter on ids stays the first.
LEMMA FirstStays ==
  ASSUME TypeOK, TypeOK', Grows, NEW k, NEW i, IsFirst(i, WithId(users, k))
  PROVE  IsFirst(i, WithId(users', k))
<1>1. /\ DOMAIN users = 1 .. Len(users) /\ Len(users) \in Nat
      /\ DOMAIN users' = 1 .. Len(users') /\ Len(users') \in Nat
  BY LenProperties DEF TypeOK
<1>2. i \in DOMAIN users /\ users[i].id = k
  BY DEF IsFirst, WithId
<1>3. i \in WithId(users', k)
  BY <1>1, <1>2 DEF Grows, SameAccount, WithId
<1>4. ASSUME NEW j \in WithId(users', k)
      PROVE  i <= j
  <2>1. CASE j \in DOMAIN users
    BY <2>1, <1>4 DEF Grows, SameAccount, WithId, IsFirst
  <2>2. CASE j \notin DOMAIN users
    BY <2>2, <1>1, <1>2, <1>4 DEF WithId
  <2> QED
    BY <2>1, <2>2
<1> QED
  BY <1>3, <1>4 DEF IsFirst

-----------------------------------------------------------------------------
(***************************************************************************)
(* The facts about one worker, and the steps of the others.                *)
(***************************************************************************)
WorkerHolds(w) == RequestHolds(w) /\ PendingIdHolds(w) /\ FoundHolds(w) /\ CurrentHolds(w)

Rests(w) ==
    /\ pc'[w] = pc[w]
    /\ req'[w] = req[w]
    /\ found'[w] = found[w]
    /\ nid'[w] = nid[w]

LEMMA OthersHold ==
  ASSUME TypeOK, TypeOK', Grows, NEW w \in Workers, Rests(w), WorkerHolds(w)
  PROVE  WorkerHolds(w)'
<1>1. /\ DOMAIN users = 1 .. Len(users) /\ Len(users) \in Nat
      /\ DOMAIN users' = 1 .. Len(users') /\ Len(users') \in Nat
      /\ Len(users) <= Len(users')
      /\ nid[w] \in Nat
  BY LenProperties DEF TypeOK, Grows
<1>2. DOMAIN users \subseteq DOMAIN users'
  BY <1>1
<1>3. RequestHolds(w)'
  BY DEF WorkerHolds, RequestHolds, Rests
<1>4. PendingIdHolds(w)'
  BY <1>1 DEF WorkerHolds, PendingIdHolds, Rests
<1>5. FoundHolds(w)'
  BY <1>2 DEF WorkerHolds, FoundHolds, Rests, Grows, SameAccount
<1>6. CurrentHolds(w)'
  <2> SUFFICES ASSUME pc[w] \in Editing
               PROVE  \E i \in DOMAIN users' :
                        /\ IsFirst(i, WithId(users', req[w].token.user_id))
                        /\ users'[i].is_active
                        /\ pc[w] = "pw_write" => users'[i].password_hash # None
    BY DEF CurrentHolds, Current, Rests
  <2>1. PICK i \in DOMAIN users :
          /\ IsFirst(i, WithId(users, req[w].token.user_id))
          /\ users[i].is_active
          /\ pc[w] = "pw_write" => users[i].password_hash # None
    BY DEF WorkerHolds, CurrentHolds, Current
  <2>2. IsFirst(i, WithId(users', req[w].token.user_id))
    BY <2>1, FirstStays
  <2> QED
    BY <1>2, <2>1, <2>2 DEF Grows, SameAccount
<1> QED
  BY <1>3, <1>4, <1>5, <1>6 DEF WorkerHolds

\* A step of worker w changes no registers but w's.
LEMMA StepOfOne ==
  ASSUME TypeOK, NEW w \in Workers, Receive(w) \/ Step(w) \/ Crash(w),
         NEW v \in Workers, v # w
  PROVE  Rests(v)
<1> USE DEF TypeOK, Rests
<1>1. ASSUME NEW r, NEW label, Accept(w, r, label) PROVE Rests(v)
  BY <1>1 DEF Accept
<1>2. ASSUME NEW status, AnswerAtOnce(w, status) PROVE Rests(v)
  BY <1>2 DEF AnswerAtOnce
<1>4. ASSUME NEW status, Answer(w, status) PROVE Rests(v)
  BY <1>4 DEF Answer
<1>5. ASSUME NEW label, Goto(w, label),
             \/ UNCHANGED registers
             \/ UNCHANGED nid /\ \E s : found' = [found EXCEPT ![w] = s]
             \/ UNCHANGED found /\ \E n : nid' = [nid EXCEPT ![w] = n]
      PROVE  Rests(v)
  BY <1>5 DEF Goto, registers
<1>6. CASE Receive(w)
  <2>1. CASE Register(w)
    BY <1>1, <1>2, <2>1 DEF Register
  <2>2. CASE Login(w)
    BY <1>1, <1>2, <2>2 DEF Login
  <2>3. CASE GoogleLogin(w)
    BY <1>1, <1>2, <2>3 DEF GoogleLogin
  <2>4. CASE NoTokenPresented(w) \/ Refresh(w)
    BY <1>2, <2>4 DEF NoTokenPresented, Refresh
  <2>5. CASE Present(w)
    BY <1>1, <2>5 DEF Present
  <2>6. CASE CreateUser(w)
    BY <1>2, <2>6 DEF CreateUser
  <2> QED
    BY <1>6, <2>1, <2>2, <2>3, <2>4, <2>5, <2>6 DEF Receive
<1>7. CASE Crash(w)
  BY <1>4, <1>7 DEF Crash
<1>8. CASE Step(w)
  <2>1. CASE RegisterFind(w) \/ RegisterCount(w) \/ RegisterInsert(w) \/ RegisterToken(w)
    BY <1>4, <1>5, <2>1 DEF RegisterFind, RegisterCount, RegisterInsert, RegisterToken,
         Sign, registers
  <2>2. CASE LoginFind(w) \/ LoginTouch(w) \/ LoginToken(w)
    BY <1>4, <1>5, <2>2 DEF LoginFind, LoginTouch, LoginToken, Sign, registers
  <2>3. CASE \/ GoogleFind(w) \/ GoogleUpdate(w)
             \/ GoogleCount(w) \/ GoogleInsert(w) \/ GoogleToken(w)
    BY <1>4, <1>5, <2>3 DEF GoogleFind, GoogleUpdate, GoogleCount, GoogleInsert,
         GoogleToken, Sign, registers
  <2>4. CASE JwtRefuse(w) \/ GetProfile(w) \/ Logout(w) \/ AdminCall(w)
    BY <1>4, <2>4 DEF JwtRefuse, GetProfile, Logout, AdminCall
  <2>5. CASE UpdateProfile(w) \/ ProfileWrite(w) \/ ProfileRead(w)
    BY <1>4, <1>5, <2>5 DEF UpdateProfile, ProfileWrite, ProfileRead, registers
  <2>6. CASE ChangePassword(w) \/ PasswordFind(w) \/ PasswordWrite(w)
    BY <1>4, <1>5, <2>6 DEF ChangePassword, PasswordFind, PasswordWrite, registers
  <2> QED
    BY <1>8, <2>1, <2>2, <2>3, <2>4, <2>5, <2>6 DEF Step
<1> QED
  BY <1>6, <1>7, <1>8

-----------------------------------------------------------------------------
(***************************************************************************)
(* The facts about the collection and the tokens, by kind of write.        *)
(***************************************************************************)
LEMMA Domains ==
  ASSUME TypeOK, TypeOK'
  PROVE  /\ DOMAIN users = 1 .. Len(users) /\ Len(users) \in Nat
         /\ DOMAIN users' = 1 .. Len(users') /\ Len(users') \in Nat
BY LenProperties DEF TypeOK

LEMMA CollectionKeeps ==
  ASSUME TypeOK, TypeOK', CollectionHolds, Grows, Len(users') = Len(users)
  PROVE  CollectionHolds'
<1>1. DOMAIN users' = DOMAIN users
  BY Domains
<1> QED
  BY <1>1 DEF CollectionHolds, IdsBehind, Grows, SameAccount

LEMMA CollectionInserts ==
  ASSUME TypeOK, TypeOK', CollectionHolds, NEW d \in Doc,
         users' = Append(users, d), d.id <= Len(users) + 1,
         d.email # None => d.id # NoId
  PROVE  CollectionHolds'
<1>1. /\ DOMAIN users' = 1 .. Len(users) + 1
      /\ \A i \in 1 .. Len(users) : users'[i] = users[i]
      /\ users'[Len(users) + 1] = d
  BY InsertDoc DEF TypeOK
<1>2. DOMAIN users = 1 .. Len(users) /\ Len(users) \in Nat
  BY Domains
<1>3. ASSUME NEW i \in DOMAIN users'
      PROVE  users'[i].id <= i /\ (users'[i].email # None => users'[i].id # NoId)
  <2>1. CASE i \in DOMAIN users
    BY <1>1, <1>2, <2>1 DEF CollectionHolds, IdsBehind
  <2>2. CASE i = Len(users) + 1
    BY <1>1, <2>2
  <2> QED
    BY <1>1, <1>2, <2>1, <2>2
<1> QED
  BY <1>3 DEF CollectionHolds, IdsBehind

LEMMA TokensKeep ==
  ASSUME TypeOK, TypeOK', TokensHold, Grows, tokens' \subseteq tokens
  PROVE  TokensHold'
<1>1. DOMAIN users \subseteq DOMAIN users'
  BY Domains DEF Grows
<1> QED
  BY <1>1 DEF TokensHold, Grows, SameAccount

\* The document a token is signed for is active, or its Google identity has
\* just been written.
LEMMA TokensSign ==
  ASSUME TypeOK, TypeOK', TokensHold, NEW w \in Workers, NEW status,
         WorkerHolds(w), pc[w] \in {"reg_token", "login_token", "goo_token"},
         Sign(w, status)
  PROVE  TokensHold'
<1>1. users' = users
  BY DEF Sign
<1>2. /\ found[w].at \in DOMAIN users
      /\ found[w].id = users[found[w].at].id
      /\ found[w].user_type = users[found[w].at].user_type
      /\ users[found[w].at].email # None
      /\ users[found[w].at].is_active \/ users[found[w].at].via = "google"
  BY DEF WorkerHolds, FoundHolds, Signing
<1>3. tokens' = tokens \union {[user_id   |-> found[w].id,
                                user_type |-> found[w].user_type,
                                holder    |-> found[w].at]}
  BY DEF Sign
<1> QED
  BY <1>1, <1>2, <1>3 DEF TokensHold

\* A worker that is idle again remembers nothing.
LEMMA IdleHolds ==
  ASSUME TypeOK, TypeOK', NEW w \in Workers, pc'[w] = "idle", nid'[w] = 0
  PROVE  WorkerHolds(w)'
BY Domains DEF WorkerHolds, RequestHolds, PendingIdHolds, FoundHolds, CurrentHolds,
     Inserting, Creating, Signing, Editing

LEMMA AnswerHolds ==
  ASSUME TypeOK, TypeOK', NEW w \in Workers, NEW status, Answer(w, status)
  PROVE  WorkerHolds(w)'
<1>1. pc'[w] = "idle" /\ nid'[w] = 0
  BY DEF Answer, TypeOK
<1> QED
  BY <1>1, IdleHolds

(***************************************************************************)
(* What a step of worker w is to preserve, besides the others' facts.      *)
(***************************************************************************)
Preserves(w) == Grows /\ CollectionHolds' /\ TokensHold' /\ WorkerHolds(w)'

LEMMA StoreKept ==
  ASSUME TypeOK, TypeOK', HandlersInv, UNCHANGED store
  PROVE  Grows /\ CollectionHolds' /\ TokensHold'
<1>1. Grows
  BY GrowsByNothing DEF store
<1> QED
  BY <1>1, CollectionKeeps, TokensKeep DEF store, HandlersInv

LEMMA AnswerPreserves ==
  ASSUME TypeOK, TypeOK', HandlersInv, NEW w \in Workers, NEW status,
         Answer(w, status), UNCHANGED store
  PROVE  Preserves(w)
BY StoreKept, AnswerHolds DEF Preserves

LEMMA SignPreserves ==
  ASSUME TypeOK, TypeOK', HandlersInv, NEW w \in Workers, NEW status,
         pc[w] \in {"reg_token", "login_token", "goo_token"}, Sign(w, status)
  PROVE  Preserves(w)
<1>1. Grows /\ CollectionHolds'
  <2>1. Grows
    BY GrowsByNothing DEF Sign
  <2> QED
    BY <2>1, CollectionKeeps DEF Sign, HandlersInv
<1>2. TokensHold'
  BY TokensSign DEF HandlersInv, WorkerHolds
<1>3. WorkerHolds(w)'
  BY AnswerHolds DEF Sign
<1> QED
  BY <1>1, <1>2, <1>3 DEF Preserves

LEMMA AcceptPreserves ==
  ASSUME TypeOK, TypeOK', HandlersInv, NEW w \in Workers, NEW r \in Request,
         NEW label \in {"reg_find", "login_find", "goo_find", "jwt"},
         Accept(w, r, label),
         label # "jwt" => r.email \in Emails,
         label = "reg_find" => /\ r.password \in Passwords
                               /\ r.user_type \in UserTypes
                               /\ r.profile \in Profiles,
         label = "login_find" => r.password \in Passwords,
         label = "goo_find" => /\ r.profile \in Profiles
                               /\ r.op = "google" /\ r.avatar_url \in Avatars,
         label = "jwt" => /\ r.token.user_id # NoId
                          /\ r.op = "change_password" => r.new_password \in Passwords
  PROVE  Preserves(w)
<1>1. Grows /\ CollectionHolds' /\ TokensHold'
  BY StoreKept DEF Accept, store
<1>2. pc'[w] = label /\ req'[w] = r /\ nid'[w] = nid[w]
  BY DEF Accept, TypeOK
<1>3. RequestHolds(w)'
  BY <1>2 DEF RequestHolds, Creating, Inserting, Editing
<1>4. PendingIdHolds(w)'
  BY <1>2 DEF Accept, HandlersInv, PendingIdHolds, Inserting
<1>5. FoundHolds(w)' /\ CurrentHolds(w)'
  BY <1>2 DEF FoundHolds, CurrentHolds, Signing, Editing
<1> QED
  BY <1>1, <1>3, <1>4, <1>5 DEF Preserves, WorkerHolds

LEMMA ReceivePreserves ==
  ASSUME TypeOK, TypeOK', HandlersInv, NEW w \in Workers, Receive(w)
  PROVE  Preserves(w)
<1>1. \A s \in Spellings : Normal[s] \in Emails
  BY SpellingsAssumption
<1>2. ASSUME NEW status, AnswerAtOnce(w, status)
      PROVE  Preserves(w)
  <2>1. Grows /\ CollectionHolds' /\ TokensHold'
    BY <1>2, StoreKept DEF AnswerAtOnce, store
  <2>2. Rests(w) /\ WorkerHolds(w)
    BY <1>2 DEF AnswerAtOnce, Rests, HandlersInv, WorkerHolds
  <2> QED
    BY <2>1, <2>2, OthersHold DEF Preserves
<1>3. CASE Register(w)
  <2>1. ASSUME NEW s \in Spellings, NEW p \in Passwords, NEW t \in UserTypes,
               NEW n \in Profiles,
               Accept(w, [Blank EXCEPT !.op = "register", !.email = Normal[s],
                                       !.password = p, !.user_type = t,
                                       !.profile = n], "reg_find")
        PROVE  Preserves(w)
    <3> DEFINE r == [Blank EXCEPT !.op = "register", !.email = Normal[s],
                                  !.password = p, !.user_type = t, !.profile = n]
    <3>1. r \in Request
      BY <1>1, RegisterTyped
    <3>2. r.email \in Emails /\ r.password = p /\ r.user_type = t /\ r.profile = n
      BY <1>1 DEF Blank
    <3>3. Accept(w, r, "reg_find")
      BY <2>1
    <3> HIDE DEF r
    <3> QED
      BY <3>1, <3>2, <3>3, AcceptPreserves
  <2> QED
    BY <1>2, <1>3, <2>1 DEF Register
<1>4. CASE Login(w)
  <2>1. ASSUME NEW s \in Spellings, NEW p \in Passwords,
               Accept(w, [Blank EXCEPT !.op = "login", !.email = Normal[s],
                                       !.password = p], "login_find")
        PROVE  Preserves(w)
    <3> DEFINE r == [Blank EXCEPT !.op = "login", !.email = Normal[s],
                                  !.password = p]
    <3>1. r \in Request
      BY <1>1, LoginTyped
    <3>2. r.email \in Emails /\ r.password = p
      BY <1>1 DEF Blank
    <3>3. Accept(w, r, "login_find")
      BY <2>1
    <3> HIDE DEF r
    <3> QED
      BY <3>1, <3>2, <3>3, AcceptPreserves
  <2> QED
    BY <1>2, <1>4, <2>1 DEF Login
<1>5. CASE GoogleLogin(w)
  <2>1. ASSUME NEW s \in Spellings, NEW n \in Profiles, NEW a \in Avatars,
               Accept(w, [Blank EXCEPT !.op = "google", !.email = Normal[s],
                                       !.profile = n, !.avatar_url = a], "goo_find")
        PROVE  Preserves(w)
    <3> DEFINE r == [Blank EXCEPT !.op = "google", !.email = Normal[s],
                                  !.profile = n, !.avatar_url = a]
    <3>1. r \in Request
      BY <1>1, GoogleTyped
    <3>2. r.email \in Emails /\ r.profile = n /\ r.op = "google" /\ r.avatar_url = a
      BY <1>1 DEF Blank
    <3>3. Accept(w, r, "goo_find")
      BY <2>1
    <3> HIDE DEF r
    <3> QED
      BY <3>1, <3>2, <3>3, AcceptPreserves
  <2> QED
    BY <1>2, <1>5, <2>1 DEF GoogleLogin
<1>6. CASE Present(w)
  <2>1. PICK t \in tokens, r \in Request : Presents(w, t, r)
    BY <1>6, PresentedRequest
  <2>2. t \in Token /\ t.user_id # NoId
    BY DEF TypeOK, HandlersInv, TokensHold, CollectionHolds
  <2> QED
    BY <2>1, <2>2, AcceptPreserves DEF Presents
<1>7. CASE NoTokenPresented(w) \/ Refresh(w)
  BY <1>2, <1>7 DEF NoTokenPresented, Refresh
<1>8. CASE CreateUser(w)
  <2> DEFINE d == [id |-> NoId, email |-> None, password_hash |-> None,
                   user_type |-> None, is_active |-> TRUE, profile |-> None,
                   avatar_url |-> None, via |-> "never"]
  <2>1. d \in Doc /\ d.id = 0 /\ d.email = None
    BY DEF Doc, Via, NoId
  <2>2. users' = Append(users, d) /\ tokens' = tokens /\ Rests(w)
    BY <1>8 DEF CreateUser, Rests
  <2> HIDE DEF d
  <2>3. Grows
    BY <2>1, <2>2, GrowsByInsert
  <2>4. CollectionHolds'
    BY <2>1, <2>2, Domains, CollectionInserts DEF HandlersInv
  <2>5. TokensHold' /\ WorkerHolds(w)'
    BY <2>2, <2>3, TokensKeep, OthersHold DEF HandlersInv, WorkerHolds
  <2> QED
    BY <2>3, <2>4, <2>5 DEF Preserves
<1> QED
  BY <1>3, <1>4, <1>5, <1>6, <1>7, <1>8 DEF Receive

LEMMA RegisterPreserves ==
  ASSUME TypeOK, TypeOK', HandlersInv, NEW w \in Workers,
         \/ RegisterFind(w) \/ RegisterCount(w)
         \/ RegisterInsert(w) \/ RegisterToken(w)
  PROVE  Preserves(w)
<1>1. WorkerHolds(w)
  BY DEF HandlersInv, WorkerHolds
<1>2. CASE RegisterFind(w)
  <2>1. CASE Answer(w, 409)
    BY <1>2, <2>1, AnswerPreserves DEF RegisterFind
  <2>2. CASE Goto(w, "reg_count") /\ UNCHANGED registers
    <3>1. Grows /\ CollectionHolds' /\ TokensHold'
      BY <1>2, StoreKept DEF RegisterFind
    <3>2. /\ pc[w] = "reg_find" /\ pc'[w] = "reg_count"
          /\ req'[w] = req[w] /\ nid'[w] = nid[w] /\ users' = users
      BY <1>2, <2>2 DEF RegisterFind, Goto, TypeOK, registers, store
    <3>3. WorkerHolds(w)'
      BY <1>1, <3>2 DEF WorkerHolds, RequestHolds, PendingIdHolds, FoundHolds,
           CurrentHolds, Creating, Inserting, Signing, Editing
    <3> QED
      BY <3>1, <3>3 DEF Preserves
  <2> QED
    BY <1>2, <2>1, <2>2 DEF RegisterFind
<1>3. CASE RegisterCount(w)
  <2>1. Grows /\ CollectionHolds' /\ TokensHold'
    BY <1>3, StoreKept DEF RegisterCount, store
  <2>2. /\ pc[w] = "reg_count" /\ pc'[w] = "reg_insert"
        /\ req'[w] = req[w] /\ nid'[w] = Len(users) + 1 /\ users' = users
    BY <1>3 DEF RegisterCount, Goto, TypeOK
  <2>3. WorkerHolds(w)'
    BY <1>1, <2>2, Domains DEF WorkerHolds, RequestHolds, PendingIdHolds, FoundHolds,
         CurrentHolds, Creating, Inserting, Signing, Editing, NoId
  <2> QED
    BY <2>1, <2>3 DEF Preserves
<1>4. CASE RegisterInsert(w)
  <2> DEFINE d == [id |-> nid[w], email |-> req[w].email,
                   password_hash |-> req[w].password,
                   user_type |-> req[w].user_type, is_active |-> TRUE,
                   profile |-> req[w].profile, avatar_url |-> None, via |-> "never"]
  <2>1. /\ d \in Doc
        /\ d.id = nid[w] /\ d.email = req[w].email
        /\ d.user_type = req[w].user_type /\ d.is_active
    BY DEF TypeOK, Request, Doc, Via
  <2>2. users' = Append(users, d)
    BY <1>4 DEF RegisterInsert
  <2>3. req[w].email # None /\ nid[w] # NoId /\ nid[w] <= Len(users) + 1
    BY <1>1, <1>4, NoneAssumption DEF RegisterInsert, WorkerHolds, RequestHolds,
         PendingIdHolds, Creating, Inserting
  <2> HIDE DEF d
  <2>4. Grows /\ CollectionHolds'
    BY <2>1, <2>2, <2>3, GrowsByInsert, CollectionInserts DEF HandlersInv
  <2>5. TokensHold'
    BY <1>4, <2>4, TokensKeep DEF RegisterInsert, HandlersInv
  <2>6. /\ Len(users) + 1 \in DOMAIN users'
        /\ users'[Len(users) + 1] = d
        /\ Len(users') = Len(users) + 1
    BY <2>1, <2>2, InsertDoc, Domains DEF TypeOK
  <2>7. /\ pc'[w] = "reg_token" /\ nid'[w] = nid[w]
        /\ found'[w] = [at |-> Len(users) + 1, id |-> nid[w],
                        user_type |-> req[w].user_type]
    BY <1>4 DEF RegisterInsert, Goto, TypeOK
  <2>8. WorkerHolds(w)'
    BY <2>1, <2>3, <2>6, <2>7, Domains DEF WorkerHolds, RequestHolds, PendingIdHolds,
         FoundHolds, CurrentHolds, Creating, Inserting, Signing, Editing, TypeOK
  <2> QED
    BY <2>4, <2>5, <2>8 DEF Preserves
<1>5. CASE RegisterToken(w)
  BY <1>5, SignPreserves DEF RegisterToken
<1> QED
  BY <1>2, <1>3, <1>4, <1>5

LEMMA LoginPreserves ==
  ASSUME TypeOK, TypeOK', HandlersInv, NEW w \in Workers,
         LoginFind(w) \/ LoginTouch(w) \/ LoginToken(w)
  PROVE  Preserves(w)
<1>1. WorkerHolds(w)
  BY DEF HandlersInv, WorkerHolds
<1>2. CASE LoginFind(w)
  <2>1. CASE \E status \in {401, 500} : Answer(w, status)
    BY <1>2, <2>1, AnswerPreserves DEF LoginFind
  <2>2. CASE \E i \in DOMAIN users :
               /\ IsFirst(i, WithEmail(users, req[w].email))
               /\ users[i].password_hash = req[w].password
               /\ users[i].is_active
               /\ found' = [found EXCEPT ![w] = Copy(i)]
               /\ Goto(w, "login_touch")
               /\ UNCHANGED nid
    <3>1. PICK i \in DOMAIN users :
               /\ IsFirst(i, WithEmail(users, req[w].email))
               /\ users[i].password_hash = req[w].password
               /\ users[i].is_active
               /\ found' = [found EXCEPT ![w] = Copy(i)]
               /\ Goto(w, "login_touch")
               /\ UNCHANGED nid
      BY <2>2
    <3>2. Grows /\ CollectionHolds' /\ TokensHold'
      BY <1>2, StoreKept DEF LoginFind
    <3>3. users[i].email # None /\ users[i].password_hash # None
      BY <1>1, <1>2, <3>1, NoneAssumption DEF LoginFind, IsFirst, WithEmail,
           WorkerHolds, RequestHolds
    <3>4. /\ pc'[w] = "login_touch" /\ nid'[w] = nid[w] /\ users' = users
          /\ found'[w].at = i /\ found'[w].id = users[i].id
          /\ found'[w].user_type = users[i].user_type
      BY <1>2, <3>1 DEF LoginFind, Goto, TypeOK, Copy, store
    <3>5. WorkerHolds(w)'
      BY <1>1, <3>1, <3>3, <3>4 DEF WorkerHolds, RequestHolds, PendingIdHolds,
           FoundHolds, CurrentHolds, Creating, Inserting, Signing, Editing
    <3> QED
      BY <3>2, <3>5 DEF Preserves
  <2> QED
    BY <1>2, <2>1, <2>2 DEF LoginFind
<1>3. CASE LoginTouch(w)
  <2> DEFINE i == found[w].at
  <2>1. /\ i \in DOMAIN users
        /\ found[w].id = users[i].id
        /\ found[w].user_type = users[i].user_type
        /\ users[i].email # None
        /\ users[i].is_active
    BY <1>1, <1>3 DEF LoginTouch, WorkerHolds, FoundHolds, Signing
  <2>2. users' = [users EXCEPT ![i].via = "password"] /\ "password" \in Via
    BY <1>3 DEF LoginTouch, Via
  <2>3. Grows
    BY <2>1, <2>2, GrowsByVia
  <2>4. Len(users') = Len(users)
    BY <2>1, <2>2, Domains
  <2>5. CollectionHolds' /\ TokensHold'
    BY <1>3, <2>3, <2>4, CollectionKeeps, TokensKeep DEF LoginTouch, HandlersInv
  <2>6. /\ pc'[w] = "login_token" /\ nid'[w] = nid[w] /\ found'[w] = found[w]
    BY <1>3 DEF LoginTouch, Goto, TypeOK
  <2>7. i \in DOMAIN users'
    BY <2>1, <2>4, Domains
  <2>8. WorkerHolds(w)'
    BY <1>1, <2>1, <2>3, <2>4, <2>6, <2>7 DEF WorkerHolds, RequestHolds,
         PendingIdHolds, FoundHolds, CurrentHolds, Creating, Inserting, Signing,
         Editing, Grows, SameAccount
  <2> QED
    BY <2>3, <2>5, <2>8 DEF Preserves
<1>4. CASE LoginToken(w)
  BY <1>4, SignPreserves DEF LoginToken
<1> QED
  BY <1>2, <1>3, <1>4

LEMMA GooglePreserves ==
  ASSUME TypeOK, TypeOK', HandlersInv, NEW w \in Workers,
         \/ GoogleFind(w) \/ GoogleUpdate(w)
         \/ GoogleCount(w) \/ GoogleInsert(w) \/ GoogleToken(w)
  PROVE  Preserves(w)
<1>1. WorkerHolds(w)
  BY DEF HandlersInv, WorkerHolds
<1>2. CASE GoogleFind(w)
  <2>1. Grows /\ CollectionHolds' /\ TokensHold'
    BY <1>2, StoreKept DEF GoogleFind, store
  <2>2. pc[w] = "goo_find" /\ nid'[w] = nid[w] /\ users' = users /\ req'[w] = req[w]
    BY <1>2 DEF GoogleFind, Goto
  <2>3. CASE pc'[w] = "goo_count"
    BY <1>1, <2>1, <2>2, <2>3 DEF WorkerHolds, RequestHolds, PendingIdHolds, FoundHolds,
         CurrentHolds, Creating, Inserting, Signing, Editing, Preserves
  <2>4. CASE \E i \in DOMAIN users :
               /\ IsFirst(i, WithEmail(users, req[w].email))
               /\ found' = [found EXCEPT ![w] = Copy(i)]
               /\ Goto(w, "goo_update")
    <3>1. PICK i \in DOMAIN users :
               /\ IsFirst(i, WithEmail(users, req[w].email))
               /\ found' = [found EXCEPT ![w] = Copy(i)]
               /\ Goto(w, "goo_update")
      BY <2>4
    <3>2. users[i].email # None /\ req[w].email = users[i].email
      BY <1>1, <2>2, <3>1, NoneAssumption DEF IsFirst, WithEmail, WorkerHolds,
           RequestHolds
    <3>3. /\ pc'[w] = "goo_update"
          /\ found'[w].at = i /\ found'[w].id = users[i].id
          /\ found'[w].user_type = users[i].user_type
      BY <3>1 DEF Goto, TypeOK, Copy
    <3>4. WorkerHolds(w)'
      BY <1>1, <2>2, <3>2, <3>3 DEF WorkerHolds, RequestHolds, PendingIdHolds,
           FoundHolds, CurrentHolds, Creating, Inserting, Signing, Editing
    <3> QED
      BY <2>1, <3>4 DEF Preserves
  <2> QED
    BY <1>2, <2>3, <2>4 DEF GoogleFind, Goto, TypeOK
<1>3. CASE GoogleUpdate(w)
  <2> DEFINE i == found[w].at
  <2>1. /\ i \in DOMAIN users
        /\ found[w].id = users[i].id
        /\ found[w].user_type = users[i].user_type
        /\ users[i].email # None
    BY <1>1, <1>3 DEF GoogleUpdate, WorkerHolds, FoundHolds, Signing
  <2>2. /\ SetsPicture(i, req[w].avatar_url)
        /\ req[w].avatar_url \in Avatars \union {None}
    BY <1>3 DEF GoogleUpdate, SetsPicture, TypeOK, Request
  <2>3. Grows
    BY <2>1, <2>2, GrowsByGoogle
  <2>4. Len(users') = Len(users) /\ users'[i].via = "google"
    BY <2>1, <2>2, GoogleWrites, UpdateDoc, WithPictureIs, CopyTyped DEF TypeOK
  <2>5. CollectionHolds' /\ TokensHold'
    BY <1>3, <2>3, <2>4, CollectionKeeps, TokensKeep DEF GoogleUpdate, HandlersInv
  <2>6. /\ pc'[w] = "goo_token" /\ nid'[w] = nid[w] /\ found'[w] = found[w]
    BY <1>3 DEF GoogleUpdate, Goto, TypeOK
  <2>7. i \in DOMAIN users'
    BY <2>1, <2>4, Domains
  <2>8. WorkerHolds(w)'
    BY <1>1, <2>1, <2>3, <2>4, <2>6, <2>7 DEF WorkerHolds, RequestHolds,
         PendingIdHolds, FoundHolds, CurrentHolds, Creating, Inserting, Signing,
         Editing, Grows, SameAccount
  <2> QED
    BY <2>3, <2>5, <2>8 DEF Preserves
<1>4. CASE GoogleCount(w)
  <2>1. Grows /\ CollectionHolds' /\ TokensHold'
    BY <1>4, StoreKept DEF GoogleCount, store
  <2>2. /\ pc[w] = "goo_count" /\ pc'[w] = "goo_insert"
        /\ req'[w] = req[w] /\ nid'[w] = Len(users) + 1 /\ users' = users
    BY <1>4 DEF GoogleCount, Goto, TypeOK
  <2>3. WorkerHolds(w)'
    BY <1>1, <2>2, Domains DEF WorkerHolds, RequestHolds, PendingIdHolds, FoundHolds,
         CurrentHolds, Creating, Inserting, Signing, Editing, NoId
  <2> QED
    BY <2>1, <2>3 DEF Preserves
<1>5. CASE GoogleInsert(w)
  <2> DEFINE d == [id |-> nid[w], email |-> req[w].email, password_hash |-> None,
                   user_type |-> "user", is_active |-> TRUE,
                   profile |-> req[w].profile, avatar_url |-> req[w].avatar_url,
                   via |-> "google"]
  <2>1. /\ d \in Doc
        /\ d.id = nid[w] /\ d.email = req[w].email
        /\ d.user_type = "user" /\ d.is_active
    BY UserTypesAssumption DEF TypeOK, Request, Doc, Via
  <2>2. users' = Append(users, d)
    BY <1>5 DEF GoogleInsert
  <2>3. req[w].email # None /\ nid[w] # NoId /\ nid[w] <= Len(users) + 1
    BY <1>1, <1>5, NoneAssumption DEF GoogleInsert, WorkerHolds, RequestHolds,
         PendingIdHolds, Creating, Inserting
  <2> HIDE DEF d
  <2>4. Grows /\ CollectionHolds'
    BY <2>1, <2>2, <2>3, GrowsByInsert, CollectionInserts DEF HandlersInv
  <2>5. TokensHold'
    BY <1>5, <2>4, TokensKeep DEF GoogleInsert, HandlersInv
  <2>6. /\ Len(users) + 1 \in DOMAIN users'
        /\ users'[Len(users) + 1] = d
        /\ Len(users') = Len(users) + 1
    BY <2>1, <2>2, InsertDoc, Domains DEF TypeOK
  <2>7. /\ pc'[w] = "goo_token" /\ nid'[w] = nid[w]
        /\ found'[w] = [at |-> Len(users) + 1, id |-> nid[w], user_type |-> "user"]
    BY <1>5 DEF GoogleInsert, Goto, TypeOK
  <2>8. WorkerHolds(w)'
    BY <2>1, <2>3, <2>6, <2>7, Domains DEF WorkerHolds, RequestHolds, PendingIdHolds,
         FoundHolds, CurrentHolds, Creating, Inserting, Signing, Editing, TypeOK
  <2> QED
    BY <2>4, <2>5, <2>8 DEF Preserves
<1>6. CASE GoogleToken(w)
  BY <1>6, SignPreserves DEF GoogleToken
<1> QED
  BY <1>2, <1>3, <1>4, <1>5, <1>6

\* Two first matches are one.
LEMMA CurrentUnique ==
  ASSUME TypeOK, NEW w \in Workers, NEW i, NEW j, Current(w, i), Current(w, j)
  PROVE  i = j
BY Domains, LenProperties DEF Current, IsFirst, WithId, TypeOK

LEMMA EditorHolds ==
  ASSUME TypeOK, HandlersInv, NEW w \in Workers, pc[w] \in Editing,
         NEW i \in DOMAIN users, Current(w, i)
  PROVE  /\ users[i].is_active
         /\ users[i].id # NoId
         /\ pc[w] = "pw_write" => users[i].password_hash # None
BY CurrentUnique DEF HandlersInv, CurrentHolds, RequestHolds, Current, IsFirst, WithId

\* A protected handler goes on to its first round trip after jwt_required.
LEMMA EnterPreserves ==
  ASSUME TypeOK, TypeOK', HandlersInv, NEW w \in Workers, NEW i \in DOMAIN users,
         NEW op \in {"update_profile", "change_password"}, Authenticated(w, i, op),
         NEW label \in {"prof_write", "pw_find"},
         Goto(w, label), UNCHANGED <<registers, store>>,
         label = "pw_find" => op = "change_password" /\ req[w].password # None
  PROVE  Preserves(w)
<1>1. Grows /\ CollectionHolds' /\ TokensHold'
  BY StoreKept
<1>2. RequestHolds(w) /\ PendingIdHolds(w)
  BY DEF HandlersInv
<1>3. /\ pc[w] = "jwt" /\ pc'[w] = label /\ req'[w] = req[w]
      /\ nid'[w] = nid[w] /\ users' = users
  BY DEF Authenticated, Goto, TypeOK, registers, store
<1>4. RequestHolds(w)'
  BY <1>2, <1>3 DEF RequestHolds, Creating, Inserting, Editing, Authenticated, TypeOK,
       Request
<1>5. PendingIdHolds(w)' /\ FoundHolds(w)'
  BY <1>2, <1>3 DEF PendingIdHolds, FoundHolds, Inserting, Signing
<1>6. CurrentHolds(w)'
  BY <1>3 DEF CurrentHolds, Authenticated, Current
<1> QED
  BY <1>1, <1>4, <1>5, <1>6 DEF Preserves, WorkerHolds

LEMMA ProtectedPreserves ==
  ASSUME TypeOK, TypeOK', HandlersInv, NEW w \in Workers,
         \/ JwtRefuse(w) \/ GetProfile(w) \/ Logout(w) \/ AdminCall(w)
         \/ UpdateProfile(w) \/ ProfileWrite(w) \/ ProfileRead(w)
         \/ ChangePassword(w) \/ PasswordFind(w) \/ PasswordWrite(w)
  PROVE  Preserves(w)
<1>1. WorkerHolds(w)
  BY DEF HandlersInv, WorkerHolds
<1>2. CASE JwtRefuse(w) \/ GetProfile(w) \/ Logout(w) \/ AdminCall(w) \/ ProfileRead(w)
  BY <1>2, AnswerPreserves DEF JwtRefuse, GetProfile, Logout, AdminCall, ProfileRead
<1>3. CASE UpdateProfile(w)
  BY <1>3, AnswerPreserves, EnterPreserves DEF UpdateProfile
<1>4. CASE ChangePassword(w)
  BY <1>4, AnswerPreserves, EnterPreserves DEF ChangePassword
<1>5. CASE ProfileWrite(w)
  <2>1. PICK i \in DOMAIN users :
          /\ Current(w, i)
          /\ SetsProfile(i, req[w].profile, req[w].avatar_url)
    BY <1>5 DEF ProfileWrite, SetsProfile
  <2>2. pc[w] = "prof_write" /\ users[i].is_active
    BY <1>5, <2>1, EditorHolds DEF ProfileWrite, Editing
  <2>3. Grows
    BY <2>1, <2>2, GrowsByProfile DEF TypeOK, Request
  <2>4. Len(users') = Len(users)
    BY <2>1, Domains DEF SetsProfile
  <2>5. CollectionHolds' /\ TokensHold'
    BY <1>5, <2>3, <2>4, CollectionKeeps, TokensKeep DEF ProfileWrite, HandlersInv
  <2>6. pc'[w] = "prof_read" /\ req'[w] = req[w] /\ nid'[w] = nid[w]
    BY <1>5 DEF ProfileWrite, Goto, TypeOK
  <2>7. IsFirst(i, WithId(users', req[w].token.user_id))
    BY <2>1, <2>3, FirstStays DEF Current
  <2>8. i \in DOMAIN users' /\ users'[i].is_active
    BY <2>2, <2>3, <2>4, Domains DEF Grows, SameAccount
  <2>9. WorkerHolds(w)'
    BY <1>1, <2>2, <2>4, <2>6, <2>7, <2>8 DEF WorkerHolds, RequestHolds,
         PendingIdHolds, FoundHolds, CurrentHolds, Current, Creating, Inserting,
         Signing, Editing
  <2> QED
    BY <2>3, <2>5, <2>9 DEF Preserves
<1>6. CASE PasswordFind(w)
  <2>1. CASE \E status \in {401, 500} : Answer(w, status)
    BY <1>6, <2>1, AnswerPreserves DEF PasswordFind
  <2>2. CASE /\ \E i \in DOMAIN users :
                  Current(w, i) /\ users[i].password_hash = req[w].password
             /\ Goto(w, "pw_write")
             /\ UNCHANGED registers
    <3>1. PICK i \in DOMAIN users :
            Current(w, i) /\ users[i].password_hash = req[w].password
      BY <2>2
    <3>2. /\ pc[w] = "pw_find" /\ pc'[w] = "pw_write" /\ req'[w] = req[w]
          /\ nid'[w] = nid[w] /\ users' = users
      BY <1>6, <2>2 DEF PasswordFind, Goto, TypeOK, registers, store
    <3>3. users[i].is_active /\ users[i].password_hash # None
      BY <1>1, <3>1, <3>2, EditorHolds, NoneAssumption DEF WorkerHolds, RequestHolds,
           Editing
    <3>4. CurrentHolds(w)'
      BY <3>1, <3>2, <3>3 DEF CurrentHolds, Current
    <3>5. WorkerHolds(w)'
      BY <1>1, <3>2, <3>4 DEF WorkerHolds, RequestHolds, PendingIdHolds, FoundHolds,
           Creating, Inserting, Signing, Editing
    <3> QED
      BY <1>6, <3>5, StoreKept DEF PasswordFind, Preserves
  <2> QED
    BY <1>6, <2>1, <2>2 DEF PasswordFind
<1>7. CASE PasswordWrite(w)
  <2>1. PICK i \in DOMAIN users :
          /\ Current(w, i)
          /\ users' = [users EXCEPT ![i].password_hash = req[w].new_password]
    BY <1>7 DEF PasswordWrite
  <2>2. /\ pc[w] = "pw_write" /\ users[i].is_active /\ users[i].password_hash # None
        /\ req[w].new_password \in Passwords
    BY <1>1, <1>7, <2>1, EditorHolds DEF PasswordWrite, Editing, WorkerHolds,
         RequestHolds
  <2>3. Grows
    BY <2>1, <2>2, GrowsByPassword
  <2>4. Len(users') = Len(users)
    BY <2>1, Domains
  <2>5. CollectionHolds' /\ TokensHold'
    BY <1>7, <2>3, <2>4, CollectionKeeps, TokensKeep DEF PasswordWrite, HandlersInv
  <2>6. WorkerHolds(w)'
    BY <1>7, AnswerHolds DEF PasswordWrite
  <2> QED
    BY <2>3, <2>5, <2>6 DEF Preserves
<1> QED
  BY <1>2, <1>3, <1>4, <1>5, <1>6, <1>7

-----------------------------------------------------------------------------
(***************************************************************************)
(* The inductive invariant, and what follows from it.                      *)
(***************************************************************************)
LEMMA HandlersInit == Init => HandlersInv
<1> SUFFICES ASSUME Init PROVE HandlersInv
  OBVIOUS
<1>1. CollectionHolds
  BY InitCollectionsAssumption DEF Init, CollectionHolds
<1>2. TokensHold
  BY DEF Init, TokensHold
<1>3. Len(users) \in Nat
  BY TypeInit, LenProperties DEF TypeOK
<1>4. ASSUME NEW w \in Workers
      PROVE  RequestHolds(w) /\ PendingIdHolds(w) /\ FoundHolds(w) /\ CurrentHolds(w)
  BY <1>3 DEF Init, RequestHolds, PendingIdHolds, FoundHolds, CurrentHolds, Inserting,
     Creating, Signing, Editing
<1> QED
  BY <1>1, <1>2, <1>4 DEF HandlersInv

LEMMA HandlersStep ==
  ASSUME TypeOK, TypeOK', HandlersInv, [Next]_vars
  PROVE  HandlersInv' /\ Grows
<1>1. CASE UNCHANGED vars \/ Expire
  <2>1. Grows /\ tokens' \subseteq tokens /\ Len(users') = Len(users)
    BY <1>1, GrowsByNothing DEF vars, Expire
  <2>2. \A w \in Workers : Rests(w) /\ WorkerHolds(w)
    BY <1>1 DEF vars, Expire, Rests, HandlersInv, WorkerHolds
  <2> QED
    BY <2>1, <2>2, CollectionKeeps, TokensKeep, OthersHold DEF HandlersInv, WorkerHolds
<1>2. ASSUME NEW w \in Workers, Receive(w) \/ Step(w) \/ Crash(w)
      PROVE  HandlersInv' /\ Grows
  <2>1. Preserves(w)
    <3>1. CASE Receive(w)
      BY <3>1, ReceivePreserves
    <3>2. CASE Step(w)
      BY <3>2, RegisterPreserves, LoginPreserves, GooglePreserves, ProtectedPreserves
         DEF Step
    <3>3. CASE Crash(w)
      BY <3>3, AnswerPreserves DEF Crash
    <3> QED
      BY <1>2, <3>1, <3>2, <3>3
  <2>2. ASSUME NEW v \in Workers, v # w
        PROVE  WorkerHolds(v)'
    BY <1>2, <2>1, <2>2, StepOfOne, OthersHold DEF HandlersInv, WorkerHolds, Preserves
  <2> QED
    BY <2>1, <2>2 DEF HandlersInv, WorkerHolds, Preserves
<1> QED
  BY <1>1, <1>2 DEF Next

\* What a handler read in one round trip still holds in the next, however
\* the steps of the other workers, crashes and expiries come in between.
THEOREM HandlersCorrect == Spec => []HandlersInv
<1>1. TypeOK /\ TypeOK' /\ HandlersInv /\ [Next]_vars => HandlersInv'
  BY HandlersStep
<1> QED
  BY <1>1, TypeCorrect, HandlersInit, PTL DEF Spec

\* count_documents({}) + 1 is an id no document has, for any number of
\* workers and after any crash.
THEOREM NextIdIsUnused == Spec => []NextIdUnused
<1>1. HandlersInv => NextIdUnused
  BY DEF HandlersInv, CollectionHolds, NextIdUnused
<1> QED
  BY <1>1, HandlersCorrect, PTL

\* jwt.encode never signs claims that its document does not have.
THEOREM TokenClaimsAreTrue == Spec => []TokenClaimsHold
<1>1. HandlersInv => TokenClaimsHold
  BY DEF HandlersInv, TokensHold, TokenClaimsHold
<1> QED
  BY <1>1, HandlersCorrect, PTL

\* Only google_login() issues a token for a suspended account.
THEOREM SuspendedSignInOnlyByGoogle == Spec => []SuspendedOnlyByGoogle
<1>1. HandlersInv => SuspendedOnlyByGoogle
  BY DEF HandlersInv, TokensHold, SuspendedOnlyByGoogle
<1> QED
  BY <1>1, HandlersCorrect, PTL

\* No handler removes a document, moves it or changes what identifies it.
THEOREM IdentityIsImmutable == Spec => IdentityImmutable
<1> DEFINE Kept == \A i \in DOMAIN users :
          /\ i \in DOMAIN users'
          /\ users'[i].id = users[i].id
          /\ users'[i].email = users[i].email
          /\ users'[i].user_type = users[i].user_type
          /\ users'[i].is_active = users[i].is_active
          /\ users'[i].password_hash = None <=> users[i].password_hash = None
<1>1. TypeOK /\ TypeOK' /\ HandlersInv /\ [Next]_vars => [Kept]_users
  <2> SUFFICES ASSUME TypeOK, TypeOK', HandlersInv, [Next]_vars PROVE Kept
    OBVIOUS
  <2>1. Grows
    BY HandlersStep
  <2> QED
    BY <2>1, Domains DEF Grows, SameAccount
<1> QED
  BY <1>1, TypeCorrect, HandlersCorrect, PTL DEF Spec, IdentityImmutable

-----------------------------------------------------------------------------
(***************************************************************************)
(* The steps that write.                                                   *)
(***************************************************************************)
Writes(w) ==
    \/ RegisterInsert(w) \/ GoogleInsert(w) \/ CreateUser(w)
    \/ LoginTouch(w) \/ GoogleUpdate(w)
    \/ ProfileWrite(w) \/ PasswordWrite(w)
    \/ RegisterToken(w) \/ LoginToken(w) \/ GoogleToken(w)

LEMMA OtherStepsOnlyRead ==
  ASSUME NEW w \in Workers, Receive(w) \/ Step(w) \/ Crash(w), ~Writes(w)
  PROVE  UNCHANGED store
<1> USE DEF Writes, store
<1>1. CASE Receive(w)
  BY <1>1 DEF Receive, Register, Login, GoogleLogin, NoTokenPresented, Present, Refresh,
     Accept, AnswerAtOnce
<1>2. CASE Crash(w)
  BY <1>2 DEF Crash
<1>3. CASE Step(w)
  BY <1>3 DEF Step, RegisterFind, RegisterCount, LoginFind, GoogleFind, GoogleCount,
     JwtRefuse, GetProfile, Logout, AdminCall, UpdateProfile, ProfileRead,
     ChangePassword, PasswordFind
<1> QED
  BY <1>1, <1>2, <1>3

\* found[w].at is the document login() and google_login() write to.
LEMMA TouchesFound ==
  ASSUME HandlersInv, NEW w \in Workers, pc[w] \in Signing
  PROVE  /\ found[w].at \in DOMAIN users
         /\ found[w].id = users[found[w].at].id
         /\ found[w].user_type = users[found[w].at].user_type
         /\ users[found[w].at].email # None
         /\ pc[w] \in {"login_touch", "login_token", "reg_token"} =>
              users[found[w].at].is_active
         /\ pc[w] = "login_touch" => users[found[w].at].password_hash # None
         /\ pc[w] = "goo_update" => req[w].email = users[found[w].at].email
         /\ pc[w] = "goo_token" =>
              users[found[w].at].is_active \/ users[found[w].at].via = "google"
BY DEF HandlersInv, FoundHolds

\* A password sign-in leaves the password, the names and the picture alone;
\* a Google sign-in all but the picture; PUT /auth/profile the password.
LEMMA ViaOnly ==
  ASSUME TypeOK, NEW i \in DOMAIN users, NEW v, users' = [users EXCEPT ![i].via = v],
         NEW j \in DOMAIN users
  PROVE  /\ users'[j].password_hash = users[j].password_hash
         /\ users'[j].profile = users[j].profile
         /\ users'[j].avatar_url = users[j].avatar_url
BY CopyTyped DEF Doc

LEMMA PictureOnly ==
  ASSUME TypeOK, NEW i \in DOMAIN users, NEW a \in Avatars \union {None},
         SetsPicture(i, a),
         NEW j \in DOMAIN users
  PROVE  /\ users'[j].password_hash = users[j].password_hash
         /\ users'[j].profile = users[j].profile
         /\ users'[j].avatar_url = IF j = i THEN a ELSE users[j].avatar_url
<1>1. /\ users' = [users EXCEPT ![i] = WithPicture(users[i], a)]
      /\ WithPicture(users[i], a) \in Doc
  BY GoogleWrites
<1>2. users'[j] = IF j = i THEN WithPicture(users[i], a) ELSE users[j]
  BY <1>1, UpdateDoc DEF TypeOK
<1> QED
  BY <1>2, CopyTyped, WithPictureIs

LEMMA ProfileOnly ==
  ASSUME TypeOK, NEW i \in DOMAIN users, NEW n \in Profiles \union {None},
         NEW a \in Avatars \union {None},
         SetsProfile(i, n, a),
         NEW j \in DOMAIN users
  PROVE  /\ users'[j].password_hash = users[j].password_hash
         /\ users'[j].profile = IF j = i THEN Given(n, users[j].profile)
                                         ELSE users[j].profile
         /\ users'[j].avatar_url = IF j = i THEN Given(a, users[j].avatar_url)
                                            ELSE users[j].avatar_url
<1>1. /\ users' = [users EXCEPT ![i] = WithProfile(users[i], n, a)]
      /\ WithProfile(users[i], n, a) \in Doc
  BY ProfileWrites
<1>2. users'[j] = IF j = i THEN WithProfile(users[i], n, a) ELSE users[j]
  BY <1>1, UpdateDoc DEF TypeOK
<1> QED
  BY <1>2, CopyTyped, WithProfileIs

LEMMA InsertKeeps ==
  ASSUME TypeOK, NEW d, users' = Append(users, d), NEW i \in DOMAIN users
  PROVE  users'[i] = users[i]
BY LenProperties DEF TypeOK

-----------------------------------------------------------------------------
(***************************************************************************)
(* Whose account a request changes, with any number of workers.            *)
(***************************************************************************)
Presented == {"jwt"} \union Editing

\* The token of a request was issued for a document that has its user_id.
TokensPresented ==
    \A w \in Workers :
      pc[w] \in Presented =>
        req[w].token.holder \in WithId(users, req[w].token.user_id)

\* A handler keeps the token of its request, or it is idle and accepts one.
LEMMA TokenOfRequest ==
  ASSUME TypeOK, NEW w \in Workers, Receive(w) \/ Step(w) \/ Crash(w),
         pc'[w] \in Presented
  PROVE  \/ pc[w] \in Presented /\ req'[w] = req[w]
         \/ req'[w].token \in tokens
<1>0. /\ "jwt" \in Presented /\ "idle" \notin Presented
      /\ \A label \in Labels : label \in Presented <=>
           label \in {"jwt", "prof_write", "prof_read", "pw_find", "pw_write"}
  BY DEF Presented, Editing
<1>1. ASSUME NEW status, AnswerAtOnce(w, status)
      PROVE  pc[w] \in Presented /\ req'[w] = req[w]
  BY <1>1 DEF AnswerAtOnce
<1>3. ASSUME NEW status, Answer(w, status) PROVE FALSE
  BY <1>0, <1>3 DEF Answer, TypeOK
<1>4. ASSUME NEW label, Goto(w, label)
      PROVE  label \in Presented /\ req'[w] = req[w]
  BY <1>4 DEF Goto, TypeOK
<1>5. ASSUME NEW r, NEW label, Accept(w, r, label) PROVE pc'[w] = label
  BY <1>5 DEF Accept, TypeOK
<1>6. CASE Receive(w)
  <2>1. CASE Register(w)
    <3>1. AnswerAtOnce(w, 400) \/ pc'[w] = "reg_find"
      BY <1>5, <2>1 DEF Register
    <3> QED
      BY <1>1, <3>1 DEF Presented, Editing
  <2>2. CASE Login(w)
    <3>1. AnswerAtOnce(w, 400) \/ pc'[w] = "login_find"
      BY <1>5, <2>2 DEF Login
    <3> QED
      BY <1>1, <3>1 DEF Presented, Editing
  <2>3. CASE GoogleLogin(w)
    <3>1. AnswerAtOnce(w, 400) \/ pc'[w] = "goo_find"
      BY <1>5, <2>3 DEF GoogleLogin
    <3> QED
      BY <1>1, <3>1 DEF Presented, Editing
  <2>4. CASE NoTokenPresented(w) \/ Refresh(w)
    BY <1>1, <2>4 DEF NoTokenPresented, Refresh
  <2>5. CASE Present(w)
    <3>1. PICK t \in tokens, r \in Request : Presents(w, t, r)
      BY <2>5, PresentedRequest
    <3> QED
      BY <3>1 DEF Presents, Accept, TypeOK
  <2>6. CASE CreateUser(w)
    BY <2>6 DEF CreateUser
  <2> QED
    BY <1>6, <2>1, <2>2, <2>3, <2>4, <2>5, <2>6 DEF Receive
<1>7. CASE Crash(w)
  BY <1>3, <1>7 DEF Crash
<1>8. CASE Step(w)
  <2>1. CASE RegisterFind(w) \/ RegisterCount(w) \/ RegisterInsert(w) \/ RegisterToken(w)
    BY <1>3, <1>4, <2>1 DEF RegisterFind, RegisterCount, RegisterInsert, RegisterToken,
         Sign, Presented, Editing
  <2>2. CASE LoginFind(w) \/ LoginTouch(w) \/ LoginToken(w)
    BY <1>3, <1>4, <2>2 DEF LoginFind, LoginTouch, LoginToken, Sign, Presented,
         Editing
  <2>3. CASE \/ GoogleFind(w) \/ GoogleUpdate(w)
             \/ GoogleCount(w) \/ GoogleInsert(w) \/ GoogleToken(w)
    BY <1>3, <1>4, <2>3 DEF GoogleFind, GoogleUpdate, GoogleCount, GoogleInsert,
         GoogleToken, Sign, Presented, Editing
  <2>4. CASE JwtRefuse(w) \/ GetProfile(w) \/ Logout(w) \/ AdminCall(w) \/ ProfileRead(w)
    BY <1>3, <2>4 DEF JwtRefuse, GetProfile, Logout, AdminCall, ProfileRead
  <2>5. CASE UpdateProfile(w) \/ ChangePassword(w)
    BY <1>3, <1>4, <2>5 DEF UpdateProfile, ChangePassword, Authenticated, Presented
  <2>6. CASE ProfileWrite(w) \/ PasswordFind(w) \/ PasswordWrite(w)
    BY <1>3, <1>4, <2>6 DEF ProfileWrite, PasswordFind, PasswordWrite, Presented, Editing
  <2> QED
    BY <1>8, <2>1, <2>2, <2>3, <2>4, <2>5, <2>6 DEF Step
<1> QED
  BY <1>6, <1>7, <1>8

LEMMA PresentedStep ==
  ASSUME TypeOK, TypeOK', HandlersInv, TokensPresented, [Next]_vars
  PROVE  TokensPresented'
<1>1. Grows
  BY HandlersStep
<1>2. ASSUME NEW k PROVE WithId(users, k) \subseteq WithId(users', k)
  BY <1>1, Domains DEF Grows, SameAccount, WithId
<1>3. ASSUME NEW v \in Workers, pc'[v] \in Presented,
             \/ pc[v] \in Presented /\ req'[v] = req[v]
             \/ req'[v].token \in tokens
      PROVE  req'[v].token.holder \in WithId(users', req'[v].token.user_id)
  <2>1. CASE pc[v] \in Presented /\ req'[v] = req[v]
    BY <1>2, <2>1 DEF TokensPresented
  <2>2. CASE req'[v].token \in tokens
    <3>1. req'[v].token.holder \in WithId(users, req'[v].token.user_id)
      BY <2>2 DEF HandlersInv, TokensHold, WithId
    <3> QED
      BY <1>2, <3>1
  <2> QED
    BY <1>3, <2>1, <2>2
<1>4. ASSUME NEW v \in Workers, pc'[v] \in Presented
      PROVE  \/ pc[v] \in Presented /\ req'[v] = req[v]
             \/ req'[v].token \in tokens
  <2>1. ASSUME NEW w \in Workers, Receive(w) \/ Step(w) \/ Crash(w)
        PROVE  \/ pc[v] \in Presented /\ req'[v] = req[v]
               \/ req'[v].token \in tokens
    <3>1. CASE v = w
      BY <1>4, <2>1, <3>1, TokenOfRequest
    <3>2. CASE v # w
      BY <1>4, <2>1, <3>2, StepOfOne DEF Rests
    <3> QED
      BY <3>1, <3>2
  <2>2. CASE Expire \/ UNCHANGED vars
    BY <1>4, <2>2 DEF Expire, vars
  <2> QED
    BY <2>1, <2>2 DEF Next
<1>5. Presented' = Presented
  BY DEF Presented, Editing
<1> QED
  BY <1>3, <1>4, <1>5 DEF TokensPresented

\* Another handler may insert, touch or edit while the request is served:
\* the token's document keeps its id.
THEOREM PresentedTokensHold == Spec => []TokensPresented
<1>1. Init => TokensPresented
  BY DEF Init, TokensPresented, Presented, Editing
<1>2. TypeOK /\ TypeOK' /\ HandlersInv /\ TokensPresented /\ [Next]_vars
        => TokensPresented'
  BY PresentedStep
<1> QED
  BY <1>1, <1>2, TypeCorrect, HandlersCorrect, PTL DEF Spec

\* A step that changes the picture of a suspended account is a Google
\* sign-in's.
PicturesOfActive ==
    \A i \in DOMAIN users :
      users'[i].avatar_url # users[i].avatar_url =>
        users[i].is_active \/ \E w \in Workers : GoogleBrings(w, i)

LEMMA NothingChanges ==
  ASSUME UNCHANGED users
  PROVE  NamesakesChange /\ PicturesOfActive
BY DEF NamesakesChange, PicturesOfActive

LEMMA SignInChanges ==
  ASSUME TypeOK, HandlersInv, NEW w \in Workers, LoginTouch(w) \/ GoogleUpdate(w)
  PROVE  NamesakesChange /\ PicturesOfActive
<1>1. found[w].at \in DOMAIN users
  BY TouchesFound DEF LoginTouch, GoogleUpdate, Signing
<1>2. CASE LoginTouch(w)
  <2>1. users' = [users EXCEPT ![found[w].at].via = "password"]
    BY <1>2 DEF LoginTouch
  <2> QED
    BY <1>1, <2>1, ViaOnly DEF NamesakesChange, PicturesOfActive
<1>3. CASE GoogleUpdate(w)
  <2>1. /\ SetsPicture(found[w].at, req[w].avatar_url)
        /\ req[w].avatar_url \in Avatars \union {None}
    BY <1>3 DEF GoogleUpdate, SetsPicture, TypeOK, Request
  <2>2. req[w].op = "google" /\ req[w].email = users[found[w].at].email
    BY <1>3, TouchesFound DEF GoogleUpdate, Signing, HandlersInv, RequestHolds
  <2>3. ASSUME NEW i \in DOMAIN users
        PROVE  /\ users'[i].password_hash = users[i].password_hash
               /\ users'[i].profile = users[i].profile
               /\ users'[i].avatar_url # users[i].avatar_url => GoogleBrings(w, i)
    BY <1>1, <2>1, <2>2, PictureOnly DEF GoogleBrings
  <2> QED
    BY <2>3 DEF NamesakesChange, PicturesOfActive
<1> QED
  BY <1>2, <1>3

\* A handler behind jwt_required changes the current user, which its token
\* names.
LEMMA EditorChanges ==
  ASSUME TypeOK, HandlersInv, TokensPresented, NEW w \in Workers,
         ProfileWrite(w) \/ PasswordWrite(w)
  PROVE  NamesakesChange /\ PicturesOfActive
<1>1. pc[w] \in Editing /\ pc[w] \in Presented
  BY DEF ProfileWrite, PasswordWrite, Editing, Presented
<1>2. ASSUME NEW i \in DOMAIN users, Current(w, i)
      PROVE  NamesakePresents(w, i) /\ users[i].is_active
  BY <1>1, <1>2, EditorHolds DEF TokensPresented, Current, IsFirst, WithId,
     NamesakePresents
<1>3. CASE ProfileWrite(w)
  <2>1. PICK i \in DOMAIN users :
          /\ Current(w, i)
          /\ SetsProfile(i, req[w].profile, req[w].avatar_url)
    BY <1>3 DEF ProfileWrite, SetsProfile
  <2>2. /\ req[w].profile \in Profiles \union {None}
        /\ req[w].avatar_url \in Avatars \union {None}
    BY DEF TypeOK, Request
  <2>3. ASSUME NEW j \in DOMAIN users
        PROVE  /\ users'[j].password_hash = users[j].password_hash
               /\ users'[j].profile # users[j].profile =>
                    j = i /\ req[w].profile = users'[j].profile
               /\ users'[j].avatar_url # users[j].avatar_url =>
                    j = i /\ req[w].avatar_url = users'[j].avatar_url
    BY <2>1, <2>2, ProfileOnly DEF Given
  <2> QED
    BY <1>2, <2>1, <2>3 DEF NamesakesChange, PicturesOfActive
<1>4. CASE PasswordWrite(w)
  <2>1. PICK i \in DOMAIN users :
          /\ Current(w, i)
          /\ users' = [users EXCEPT ![i].password_hash = req[w].new_password]
    BY <1>4 DEF PasswordWrite
  <2>2. /\ users'[i].password_hash = req[w].new_password
        /\ \A j \in DOMAIN users :
             /\ users'[j].profile = users[j].profile
             /\ users'[j].avatar_url = users[j].avatar_url
             /\ j # i => users'[j].password_hash = users[j].password_hash
    BY <2>1, CopyTyped DEF Doc
  <2> QED
    BY <1>2, <2>1, <2>2 DEF NamesakesChange, PicturesOfActive
<1> QED
  BY <1>3, <1>4

LEMMA NamesakesStep ==
  ASSUME TypeOK, HandlersInv, TokensPresented, [Next]_vars
  PROVE  NamesakesChange /\ PicturesOfActive
<1>1. ASSUME NEW w \in Workers, Writes(w)
      PROVE  NamesakesChange /\ PicturesOfActive
  <2>1. CASE RegisterInsert(w) \/ GoogleInsert(w) \/ CreateUser(w)
    BY <2>1, InsertKeeps DEF RegisterInsert, GoogleInsert, CreateUser, NamesakesChange,
       PicturesOfActive
  <2>2. CASE LoginTouch(w) \/ GoogleUpdate(w)
    BY <2>2, SignInChanges
  <2>3. CASE ProfileWrite(w) \/ PasswordWrite(w)
    BY <2>3, EditorChanges
  <2>4. CASE RegisterToken(w) \/ LoginToken(w) \/ GoogleToken(w)
    BY <2>4, NothingChanges DEF RegisterToken, LoginToken, GoogleToken, Sign
  <2> QED
    BY <1>1, <2>1, <2>2, <2>3, <2>4 DEF Writes
<1>2. ASSUME NEW w \in Workers, Receive(w) \/ Step(w) \/ Crash(w), ~Writes(w)
      PROVE  NamesakesChange /\ PicturesOfActive
  BY <1>2, NothingChanges, OtherStepsOnlyRead DEF store
<1>3. CASE UNCHANGED vars \/ Expire
  BY <1>3, NothingChanges DEF vars, Expire
<1> QED
  BY <1>1, <1>2, <1>3 DEF Next

\* The current user that a handler looks up again in each round trip is the
\* token's account or an older one with its id, never one without it; what
\* else changes is the picture of an account with the address that Google
\* vouches for.
THEOREM OnlyNamesakesChangeAccounts == Spec => OnlyNamesakesChange
<1>1. TypeOK /\ HandlersInv /\ TokensPresented /\ [Next]_vars => [NamesakesChange]_users
  BY NamesakesStep
<1> QED
  BY <1>1, TypeCorrect, HandlersCorrect, PresentedTokensHold, PTL
     DEF Spec, OnlyNamesakesChange

\* No handler changes the names or the password of a suspended account, and
\* none but google_login() its picture.
THEOREM SuspendedIsFrozen == Spec => SuspendedFrozen
<1> DEFINE Frozen == \A i \in DOMAIN users :
          ~users[i].is_active =>
            /\ users'[i].profile = users[i].profile
            /\ users'[i].password_hash = users[i].password_hash
            /\ users'[i].avatar_url # users[i].avatar_url =>
                 \E w \in Workers : GoogleBrings(w, i)
<1>1. TypeOK /\ TypeOK' /\ HandlersInv /\ TokensPresented /\ [Next]_vars
        => [Frozen]_users
  <2> SUFFICES ASSUME TypeOK, TypeOK', HandlersInv, TokensPresented, [Next]_vars
               PROVE  Frozen
    OBVIOUS
  <2>1. Grows
    BY HandlersStep
  <2>2. PicturesOfActive
    BY NamesakesStep
  <2> QED
    BY <2>1, <2>2 DEF Grows, SameAccount, PicturesOfActive
<1> QED
  BY <1>1, TypeCorrect, HandlersCorrect, PresentedTokensHold, PTL
     DEF Spec, SuspendedFrozen

\* The account that a sign-in with an address finds, and the one that a
\* request with an id reaches, stays the same for good, whatever overlapping
\* handlers insert behind it.
FirstAccountStays ==
    [][\A i \in DOMAIN users :
         /\ \A e \in Emails : IsFirst(i, WithEmail(users, e)) => IsFirst(i, WithEmail(users', e))
         /\ \A k \in Nat : IsFirst(i, WithId(users, k)) => IsFirst(i, WithId(users', k))]_users

LEMMA FirstAddressStays ==
  ASSUME TypeOK, TypeOK', Grows, NEW e, NEW i, IsFirst(i, WithEmail(users, e))
  PROVE  IsFirst(i, WithEmail(users', e))
<1>1. i \in DOMAIN users /\ users[i].email = e
  BY DEF IsFirst, WithEmail
<1>2. i \in WithEmail(users', e)
  BY <1>1, Domains DEF Grows, SameAccount, WithEmail
<1>3. ASSUME NEW j \in WithEmail(users', e) PROVE i <= j
  <2>1. CASE j \in DOMAIN users
    BY <1>3, <2>1 DEF Grows, SameAccount, WithEmail, IsFirst
  <2>2. CASE j \notin DOMAIN users
    BY <1>1, <1>3, <2>2, Domains DEF WithEmail
  <2> QED
    BY <2>1, <2>2
<1> QED
  BY <1>2, <1>3 DEF IsFirst

THEOREM OldestAccountIsUsed == Spec => FirstAccountStays
<1> DEFINE Stays ==
      \A i \in DOMAIN users :
        /\ \A e \in Emails : IsFirst(i, WithEmail(users, e)) => IsFirst(i, WithEmail(users', e))
        /\ \A k \in Nat : IsFirst(i, WithId(users, k)) => IsFirst(i, WithId(users', k))
<1>1. TypeOK /\ TypeOK' /\ HandlersInv /\ [Next]_vars => [Stays]_users
  <2> SUFFICES ASSUME TypeOK, TypeOK', HandlersInv, [Next]_vars PROVE Stays
    OBVIOUS
  <2>1. Grows
    BY HandlersStep
  <2> QED
    BY <2>1, FirstStays, FirstAddressStays
<1> QED
  BY <1>1, TypeCorrect, HandlersCorrect, PTL DEF Spec, FirstAccountStays
=============================================================================
