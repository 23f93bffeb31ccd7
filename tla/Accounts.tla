------------------------------ MODULE Accounts ------------------------------
(***************************************************************************)
(* The account endpoints (server/app/routes/auth.py, users.py) as the      *)
(* server runs them: every worker process serves one request at a time,    *)
(* all workers share the MongoDB collection "users", and each round trip   *)
(* to MongoDB is one atomic step.  What a handler read in one round trip   *)
(* it keeps in registers and uses in the next, when the collection may     *)
(* have changed.  The collection has no unique index.                      *)
(***************************************************************************)
EXTENDS AccountTypes, FiniteSets

CONSTANTS
    Workers,    \* server processes: one by Procfile, two in docker-compose.prod
    Spellings,  \* addresses as clients type them
    Normal,     \* email.lower().strip()
    MaxUsers    \* bound: no creating request is accepted beyond it

ASSUME SpellingsAssumption == Normal \in [Spellings -> Emails]
ASSUME MaxUsersAssumption == MaxUsers \in Nat
ASSUME WorkersAssumption == IsFiniteSet(Workers) /\ Workers # {}

VARIABLES
    users,   \* the collection, in natural order
    tokens,  \* tokens issued and not yet expired
    pc,      \* pc[w]: the round trip worker w makes next
    req,     \* req[w]: the request worker w serves
    found,   \* found[w]: what its last find_one or insert_one left it
    nid,     \* nid[w]: the id it computed from count_documents
    reply    \* the status of the response the last step sent, if it sent one

store == <<users, tokens>>
registers == <<found, nid>>
vars == <<users, tokens, pc, req, found, nid, reply>>

Ops == {"none", "register", "login", "google", "get_profile", "update_profile",
        "change_password", "logout", "admin"}

Labels == {"idle", "reg_find", "reg_count", "reg_insert", "reg_token",
           "login_find", "login_touch", "login_token",
           "goo_find", "goo_update", "goo_count", "goo_insert", "goo_token",
           "jwt", "prof_write", "prof_read", "pw_find", "pw_write"}

NoToken == [user_id |-> 0, user_type |-> None, holder |-> 0]

Request == [op           : Ops,
            email        : Emails \union {None},
            password     : Passwords \union {None},
            new_password : Passwords \union {None},
            user_type    : UserTypes \union {None},
            profile      : Profiles \union {None},
            avatar_url   : Avatars \union {None},
            token        : Token]

Blank == [op |-> "none", email |-> None, password |-> None,
          new_password |-> None, user_type |-> None, profile |-> None,
          avatar_url |-> None, token |-> NoToken]

\* The part of a document the handlers use after the round trip: its _id
\* (here the position), its id and its user_type.
Snapshot == [at : Nat, id : Nat, user_type : UserTypes \union {None}]
NoDoc == [at |-> 0, id |-> NoId, user_type |-> None]
Copy(i) == [at |-> i, id |-> users[i].id, user_type |-> users[i].user_type]

NoReply == 0
Reply == {NoReply, 200, 201, 400, 401, 403, 409, 500}

Init ==
    /\ users \in InitCollections
    /\ tokens = {}
    /\ pc = [w \in Workers |-> "idle"]
    /\ req = [w \in Workers |-> Blank]
    /\ found = [w \in Workers |-> NoDoc]
    /\ nid = [w \in Workers |-> 0]
    /\ reply = NoReply

-----------------------------------------------------------------------------
(***************************************************************************)
(* What the handlers have in common.                                       *)
(***************************************************************************)
Accept(w, r, label) ==
    /\ pc[w] = "idle"
    /\ pc' = [pc EXCEPT ![w] = label]
    /\ req' = [req EXCEPT ![w] = r]
    /\ reply' = NoReply
    /\ UNCHANGED <<users, tokens, found, nid>>

Goto(w, label) ==
    /\ pc' = [pc EXCEPT ![w] = label]
    /\ reply' = NoReply
    /\ UNCHANGED req

\* The response leaves the worker, which forgets the request.
Answer(w, status) ==
    /\ pc' = [pc EXCEPT ![w] = "idle"]
    /\ req' = [req EXCEPT ![w] = Blank]
    /\ found' = [found EXCEPT ![w] = NoDoc]
    /\ nid' = [nid EXCEPT ![w] = 0]
    /\ reply' = status

\* A response that needs no round trip.
AnswerAtOnce(w, status) ==
    /\ pc[w] = "idle"
    /\ reply' = status
    /\ UNCHANGED <<users, tokens, pc, req, found, nid>>

\* jwt.encode for the document in found[w], then the success response.
Sign(w, status) ==
    /\ tokens' = tokens \union {[user_id   |-> found[w].id,
                                 user_type |-> found[w].user_type,
                                 holder    |-> found[w].at]}
    /\ Answer(w, status)
    /\ UNCHANGED users

Room == Len(users) < MaxUsers

-----------------------------------------------------------------------------
(***************************************************************************)
(* POST /auth/register                                                     *)
(***************************************************************************)
Register(w) ==
    \/ AnswerAtOnce(w, 400)
    \/ /\ Room
       /\ \E s \in Spellings, p \in Passwords, t \in UserTypes, n \in Profiles :
            Accept(w, [Blank EXCEPT !.op = "register", !.email = Normal[s],
                                    !.password = p, !.user_type = t,
                                    !.profile = n], "reg_find")

\* Mutant of RegisterFind: the check for an existing account is dropped.
RegisterFindUnchecked(w) ==
    /\ pc[w] = "reg_find"
    /\ Goto(w, "reg_count")
    /\ UNCHANGED <<users, tokens, found, nid>>

RegisterFind(w) ==
    /\ pc[w] = "reg_find"
    /\ \/ /\ WithEmail(users, req[w].email) # {}
          /\ Answer(w, 409)
       \/ /\ WithEmail(users, req[w].email) = {}
          /\ Goto(w, "reg_count")
          /\ UNCHANGED registers
    /\ UNCHANGED store

\* Mutants of RegisterCount: the id is the count, or skips one.
RegisterCountOff(w) ==
    /\ pc[w] = "reg_count"
    /\ nid' = [nid EXCEPT ![w] = Len(users)]
    /\ Goto(w, "reg_insert")
    /\ UNCHANGED <<users, tokens, found>>

RegisterCountSkip(w) ==
    /\ pc[w] = "reg_count"
    /\ nid' = [nid EXCEPT ![w] = Len(users) + 2]
    /\ Goto(w, "reg_insert")
    /\ UNCHANGED <<users, tokens, found>>

RegisterCount(w) ==
    /\ pc[w] = "reg_count"
    /\ nid' = [nid EXCEPT ![w] = Len(users) + 1]
    /\ Goto(w, "reg_insert")
    /\ UNCHANGED <<users, tokens, found>>

RegisterInsert(w) ==
    /\ pc[w] = "reg_insert"
    /\ users' = Append(users, [id |-> nid[w], email |-> req[w].email,
                               password_hash |-> req[w].password,
                               user_type |-> req[w].user_type,
                               is_active |-> TRUE, profile |-> req[w].profile,
                               avatar_url |-> None, via |-> "never"])
    /\ found' = [found EXCEPT ![w] = [at |-> Len(users) + 1, id |-> nid[w],
                                      user_type |-> req[w].user_type]]
    /\ Goto(w, "reg_token")
    /\ UNCHANGED <<tokens, nid>>

\* Mutant of RegisterToken: the id is computed again, from a new count.
RegisterTokenRecount(w) ==
    /\ pc[w] = "reg_token"
    /\ tokens' = tokens \union {[user_id   |-> Len(users),
                                 user_type |-> found[w].user_type,
                                 holder    |-> found[w].at]}
    /\ Answer(w, 201)
    /\ UNCHANGED users

RegisterToken(w) == pc[w] = "reg_token" /\ Sign(w, 201)

(***************************************************************************)
(* POST /auth/login                                                        *)
(***************************************************************************)
Login(w) ==
    \/ AnswerAtOnce(w, 400)
    \/ \E s \in Spellings, p \in Passwords :
         Accept(w, [Blank EXCEPT !.op = "login", !.email = Normal[s],
                                 !.password = p], "login_find")

\* Mutant of LoginFind: a suspended account is not refused.
LoginFindSuspended(w) ==
    /\ pc[w] = "login_find"
    /\ \E i \in DOMAIN users :
         /\ IsFirst(i, WithEmail(users, req[w].email))
         /\ users[i].password_hash = req[w].password
         /\ found' = [found EXCEPT ![w] = Copy(i)]
    /\ Goto(w, "login_touch")
    /\ UNCHANGED <<users, tokens, nid>>

\* A Google account has no password_hash: the subscript raises KeyError.
LoginFind(w) ==
    /\ pc[w] = "login_find"
    /\ \/ /\ WithEmail(users, req[w].email) = {}
          /\ Answer(w, 401)
       \/ \E i \in DOMAIN users :
            /\ IsFirst(i, WithEmail(users, req[w].email))
            /\ \/ /\ users[i].password_hash = None
                  /\ Answer(w, 500)
               \/ /\ users[i].password_hash # None
                  /\ users[i].password_hash # req[w].password \/ ~users[i].is_active
                  /\ Answer(w, 401)
               \/ /\ users[i].password_hash = req[w].password
                  /\ users[i].is_active
                  /\ found' = [found EXCEPT ![w] = Copy(i)]
                  /\ Goto(w, "login_touch")
                  /\ UNCHANGED nid
    /\ UNCHANGED store

LoginTouch(w) ==
    /\ pc[w] = "login_touch"
    /\ users' = [users EXCEPT ![found[w].at].via = "password"]
    /\ Goto(w, "login_token")
    /\ UNCHANGED <<tokens, found, nid>>

LoginToken(w) == pc[w] = "login_token" /\ Sign(w, 200)

(***************************************************************************)
(* POST /auth/google                                                       *)
(***************************************************************************)
GoogleLogin(w) ==
    \/ AnswerAtOnce(w, 400)
    \/ \E s \in Spellings, n \in Profiles, a \in Avatars :
         /\ Room \/ WithEmail(users, Normal[s]) # {}
         /\ Accept(w, [Blank EXCEPT !.op = "google", !.email = Normal[s],
                                    !.profile = n, !.avatar_url = a], "goo_find")

\* The account found is not checked for is_active.
GoogleFind(w) ==
    /\ pc[w] = "goo_find"
    /\ \/ \E i \in DOMAIN users :
            /\ IsFirst(i, WithEmail(users, req[w].email))
            /\ found' = [found EXCEPT ![w] = Copy(i)]
            /\ Goto(w, "goo_update")
       \/ /\ WithEmail(users, req[w].email) = {}
          /\ Goto(w, "goo_count")
          /\ UNCHANGED found
    /\ UNCHANGED <<users, tokens, nid>>

\* Mutant of GoogleUpdate: the names that Google knows are stored, too.
GoogleUpdateNames(w) ==
    /\ pc[w] = "goo_update"
    /\ users' = [users EXCEPT ![found[w].at].via = "google",
                              ![found[w].at].profile = req[w].profile]
    /\ Goto(w, "goo_token")
    /\ UNCHANGED <<tokens, found, nid>>

\* The picture is stored whoever set the one before.
GoogleUpdate(w) ==
    /\ pc[w] = "goo_update"
    /\ users' = [users EXCEPT ![found[w].at].via = "google",
                              ![found[w].at].avatar_url = req[w].avatar_url]
    /\ Goto(w, "goo_token")
    /\ UNCHANGED <<tokens, found, nid>>

\* Mutant of GoogleCount: the id is the count.
GoogleCountOff(w) ==
    /\ pc[w] = "goo_count"
    /\ nid' = [nid EXCEPT ![w] = Len(users)]
    /\ Goto(w, "goo_insert")
    /\ UNCHANGED <<users, tokens, found>>

GoogleCount(w) ==
    /\ pc[w] = "goo_count"
    /\ nid' = [nid EXCEPT ![w] = Len(users) + 1]
    /\ Goto(w, "goo_insert")
    /\ UNCHANGED <<users, tokens, found>>

GoogleInsert(w) ==
    /\ pc[w] = "goo_insert"
    /\ users' = Append(users, [id |-> nid[w], email |-> req[w].email,
                               password_hash |-> None, user_type |-> "user",
                               is_active |-> TRUE, profile |-> req[w].profile,
                               avatar_url |-> req[w].avatar_url, via |-> "google"])
    /\ found' = [found EXCEPT ![w] = [at |-> Len(users) + 1, id |-> nid[w],
                                      user_type |-> "user"]]
    /\ Goto(w, "goo_token")
    /\ UNCHANGED <<tokens, nid>>

GoogleToken(w) == pc[w] = "goo_token" /\ Sign(w, 200)

-----------------------------------------------------------------------------
(***************************************************************************)
(* The handlers behind @jwt_required.  A missing, malformed or expired     *)
(* token is refused before the first round trip.                           *)
(***************************************************************************)
NoTokenPresented(w) == AnswerAtOnce(w, 401)

Present(w) ==
    \E t \in tokens :
      \/ \E op \in {"get_profile", "logout", "admin"} :
           Accept(w, [Blank EXCEPT !.op = op, !.token = t], "jwt")
      \/ \E n \in Profiles \union {None}, a \in Avatars \union {None} :
           Accept(w, [Blank EXCEPT !.op = "update_profile", !.token = t,
                                   !.profile = n, !.avatar_url = a], "jwt")
      \/ \E p \in Passwords \union {None}, q \in Passwords :
           Accept(w, [Blank EXCEPT !.op = "change_password", !.token = t,
                                   !.password = p, !.new_password = q], "jwt")

\* The first document with the token's user_id is the current user.
Current(w, i) == IsFirst(i, WithId(users, req[w].token.user_id))

\* Mutant of Authenticated: jwt_required does not look at is_active.
AuthenticatedSuspended(w, i, op) ==
    /\ pc[w] = "jwt"
    /\ req[w].op = op
    /\ Current(w, i)

Authenticated(w, i, op) ==
    /\ pc[w] = "jwt"
    /\ req[w].op = op
    /\ Current(w, i)
    /\ users[i].is_active

JwtRefuse(w) ==
    /\ pc[w] = "jwt"
    /\ ~ \E i \in DOMAIN users : Authenticated(w, i, req[w].op)
    /\ Answer(w, 401)
    /\ UNCHANGED store

\* jsonify cannot serialise the ObjectId in current_user: TypeError, 500.
GetProfile(w) ==
    /\ \E i \in DOMAIN users : Authenticated(w, i, "get_profile")
    /\ Answer(w, 500)
    /\ UNCHANGED store

\* Nothing is revoked.
Logout(w) ==
    /\ \E i \in DOMAIN users : Authenticated(w, i, "logout")
    /\ Answer(w, 200)
    /\ UNCHANGED store

\* admin_required lets admins through; user_type is the document's.
IsAdmin(i) == users[i].user_type = "admin"

\* Mutant of AdminCall: the answer is a status the handlers do not have.
AdminCallUndocumented(w) ==
    /\ \E i \in DOMAIN users :
         /\ Authenticated(w, i, "admin")
         /\ \E s \in (IF IsAdmin(i) THEN {400, 501} ELSE {403}) : Answer(w, s)
    /\ UNCHANGED store

\* admin.py tests "if mongo_db:", which pymongo's Database refuses to
\* answer (NotImplementedError): no admin handler reads or writes a user.
\* upgrade_user() may reject its payload before that, with 400.
\* Those of admin_influencers.py do not take the current_user they are called
\* with (TypeError).
AdminCall(w) ==
    /\ \E i \in DOMAIN users :
         /\ Authenticated(w, i, "admin")
         /\ \E s \in (IF IsAdmin(i) THEN {400, 500} ELSE {403}) : Answer(w, s)
    /\ UNCHANGED store

UpdateProfile(w) ==
    /\ \E i \in DOMAIN users : Authenticated(w, i, "update_profile")
    /\ \/ /\ req[w].profile = None /\ req[w].avatar_url = None
          /\ Answer(w, 400)
       \/ /\ req[w].profile # None \/ req[w].avatar_url # None
          /\ Goto(w, "prof_write")
          /\ UNCHANGED registers
    /\ UNCHANGED store

ProfileWrite(w) ==
    /\ pc[w] = "prof_write"
    /\ \E i \in DOMAIN users :
         /\ Current(w, i)
         /\ users' = [users EXCEPT ![i].profile = Given(req[w].profile, @),
                                   ![i].avatar_url = Given(req[w].avatar_url, @)]
    /\ Goto(w, "prof_read")
    /\ UNCHANGED <<tokens, found, nid>>

ProfileRead(w) ==
    /\ pc[w] = "prof_read"
    /\ \E i \in DOMAIN users : Current(w, i)
    /\ Answer(w, 200)
    /\ UNCHANGED store

ChangePassword(w) ==
    /\ \E i \in DOMAIN users : Authenticated(w, i, "change_password")
    /\ \/ /\ req[w].password = None
          /\ Answer(w, 400)
       \/ /\ req[w].password # None
          /\ Goto(w, "pw_find")
          /\ UNCHANGED registers
    /\ UNCHANGED store

\* Mutant of PasswordFind: the current password is not compared.
PasswordFindUnchecked(w) ==
    /\ pc[w] = "pw_find"
    /\ \E i \in DOMAIN users : Current(w, i) /\ users[i].password_hash # None
    /\ Goto(w, "pw_write")
    /\ UNCHANGED <<users, tokens, found, nid>>

PasswordFind(w) ==
    /\ pc[w] = "pw_find"
    /\ \E i \in DOMAIN users :
         /\ Current(w, i)
         /\ \/ /\ users[i].password_hash = None
               /\ Answer(w, 500)
            \/ /\ users[i].password_hash # None
               /\ users[i].password_hash # req[w].password
               /\ Answer(w, 401)
            \/ /\ users[i].password_hash = req[w].password
               /\ Goto(w, "pw_write")
               /\ UNCHANGED registers
    /\ UNCHANGED store

\* Mutant of PasswordWrite: the update clears the other account fields.
PasswordWriteReset(w) ==
    /\ pc[w] = "pw_write"
    /\ \E i \in DOMAIN users :
         /\ Current(w, i)
         /\ users' = [users EXCEPT ![i].password_hash = None]
    /\ Answer(w, 200)
    /\ UNCHANGED tokens

PasswordWrite(w) ==
    /\ pc[w] = "pw_write"
    /\ \E i \in DOMAIN users :
         /\ Current(w, i)
         /\ users' = [users EXCEPT ![i].password_hash = req[w].new_password]
    /\ Answer(w, 200)
    /\ UNCHANGED tokens

-----------------------------------------------------------------------------
(***************************************************************************)
(* The other writers and the environment.                                  *)
(***************************************************************************)

Refresh(w) == AnswerAtOnce(w, 401)

\* POST /api/users: the document is stored, then jsonify(doc) meets the
\* ObjectId that insert_one added and the response is a 500.
CreateUser(w) ==
    /\ pc[w] = "idle"
    /\ Room
    /\ users' = Append(users, [id |-> NoId, email |-> None,
                               password_hash |-> None, user_type |-> None,
                               is_active |-> TRUE, profile |-> None,
                               avatar_url |-> None, via |-> "never"])
    /\ reply' = 500
    /\ UNCHANGED <<tokens, pc, req, found, nid>>

\* A worker dies between two round trips (gunicorn timeout, redeployment):
\* the client gets no response, what the worker wrote stays.
Crash(w) ==
    /\ pc[w] # "idle"
    /\ Answer(w, NoReply)
    /\ UNCHANGED store

\* "exp" passes, 24 hours after the token was issued.
Expire ==
    \E t \in tokens :
      /\ tokens' = tokens \ {t}
      /\ reply' = NoReply
      /\ UNCHANGED <<users, pc, req, found, nid>>

Step(w) ==
    \/ RegisterFind(w) \/ RegisterCount(w) \/ RegisterInsert(w) \/ RegisterToken(w)
    \/ LoginFind(w) \/ LoginTouch(w) \/ LoginToken(w)
    \/ GoogleFind(w) \/ GoogleUpdate(w)
    \/ GoogleCount(w) \/ GoogleInsert(w) \/ GoogleToken(w)
    \/ JwtRefuse(w) \/ GetProfile(w) \/ Logout(w) \/ AdminCall(w)
    \/ UpdateProfile(w) \/ ProfileWrite(w) \/ ProfileRead(w)
    \/ ChangePassword(w) \/ PasswordFind(w) \/ PasswordWrite(w)

Receive(w) ==
    \/ Register(w) \/ Login(w) \/ GoogleLogin(w)
    \/ NoTokenPresented(w) \/ Present(w)
    \/ Refresh(w) \/ CreateUser(w)

Next ==
    \/ \E w \in Workers : Receive(w) \/ Step(w) \/ Crash(w)
    \/ Expire

Spec == Init /\ [][Next]_vars
-----------------------------------------------------------------------------
(***************************************************************************)
(* Properties that hold whatever the number of workers.                    *)
(***************************************************************************)

TypeOK ==
    /\ users \in Seq(Doc)
    /\ tokens \subseteq Token
    /\ pc \in [Workers -> Labels]
    /\ req \in [Workers -> Request]
    /\ found \in [Workers -> Snapshot]
    /\ nid \in [Workers -> Nat]
    /\ reply \in Reply

\* The id register() and google_login() compute, count_documents({}) + 1,
\* is never taken when it is computed: ids do not run ahead of the count,
\* not even after overlapping inserts or a crash between two round trips.
NextIdUnused == IdsBehind(users)

\* The claims of an unexpired token are those of the document it was
\* issued for, although the handler read them round trips before signing.
TokenClaimsHold ==
    \A t \in tokens :
      /\ t.holder \in DOMAIN users
      /\ t.user_id = users[t.holder].id
      /\ t.user_type = users[t.holder].user_type

\* login() refuses a suspended account, so a token for one comes from
\* google_login(), which does not look at is_active.
SuspendedOnlyByGoogle ==
    \A t \in tokens :
      ~users[t.holder].is_active => users[t.holder].via = "google"

\* What overlapping check-then-insert requests can do at worst: each worker
\* passes the email check, and computes an id, once before it inserts.
CopiesBoundedByWorkers ==
    /\ \A e \in Emails : Cardinality(WithEmail(users, e)) <= Cardinality(Workers)
    /\ \A i \in DOMAIN users :
         users[i].id # NoId =>
           Cardinality(WithId(users, users[i].id)) <= Cardinality(Workers)

\* No request removes or reorders documents, or changes what identifies
\* one: id, email, user_type, is_active, and whether it has a password.
IdentityImmutable ==
    [][ \A i \in DOMAIN users :
          /\ i \in DOMAIN users'
          /\ users'[i].id = users[i].id
          /\ users'[i].email = users[i].email
          /\ users'[i].user_type = users[i].user_type
          /\ users'[i].is_active = users[i].is_active
          /\ users'[i].password_hash = None <=> users[i].password_hash = None ]_users

\* What a Google sign-in with the address of account i brings.
GoogleBrings(w, i) ==
    /\ req[w].op = "google" /\ req[w].email = users[i].email
    /\ req[w].avatar_url = users'[i].avatar_url

\* jwt_required refuses a suspended account whatever token it presents, so
\* neither its names nor its password change.  Its picture does, but only
\* by google_login(), which does not look at is_active.
SuspendedFrozen ==
    [][ \A i \in DOMAIN users :
          ~users[i].is_active =>
            /\ users'[i].profile = users[i].profile
            /\ users'[i].password_hash = users[i].password_hash
            /\ users'[i].avatar_url # users[i].avatar_url =>
                 \E w \in Workers : GoogleBrings(w, i) ]_users

\* However many workers there are, only a request with the token of an
\* account changes its password, its names or its picture, to the value it
\* names, or one with the token of a newer account that was given the same
\* id; a picture changes by a Google sign-in with the address as well.
NamesakePresents(w, i) ==
    /\ req[w].token.holder \in WithId(users, users[i].id)
    /\ i <= req[w].token.holder

NamesakesChange ==
    \A i \in DOMAIN users :
      /\ users'[i].password_hash # users[i].password_hash =>
           \E w \in Workers : /\ NamesakePresents(w, i)
                              /\ req[w].new_password = users'[i].password_hash
      /\ users'[i].profile # users[i].profile =>
           \E w \in Workers : /\ NamesakePresents(w, i)
                              /\ req[w].profile = users'[i].profile
      /\ users'[i].avatar_url # users[i].avatar_url =>
           \E w \in Workers : \/ GoogleBrings(w, i)
                              \/ /\ NamesakePresents(w, i)
                                 /\ req[w].avatar_url = users'[i].avatar_url
OnlyNamesakesChange == [][NamesakesChange]_users

-----------------------------------------------------------------------------
(***************************************************************************)
(* Properties that need requests served one at a time: a single worker.    *)
(***************************************************************************)

\* An address, however it is spelled, has one account (docs/AUTHENTICATION.md
\* line 41: "Email (required, unique)").
UniqueEmails == DistinctEmails(users)

\* find_one({"id": user_id}) in jwt_required finds the account the token
\* was issued for and no other.
TokenNamesItsAccount ==
    \A t \in tokens : IsFirst(t.holder, WithId(users, t.user_id))

\* A password changes only by a request of the account's own token holder
\* that named the password it replaces, the names only by the holder's, and
\* the picture by the holder's or by a Google sign-in with the address.
OwnerChangesOnly ==
    [][ \A i \in DOMAIN users :
          /\ users'[i].password_hash # users[i].password_hash =>
               \E w \in Workers : /\ req[w].token.holder = i
                                  /\ req[w].password = users[i].password_hash
                                  /\ req[w].new_password = users'[i].password_hash
          /\ users'[i].profile # users[i].profile =>
               \E w \in Workers : /\ req[w].token.holder = i
                                  /\ req[w].profile = users'[i].profile
          /\ users'[i].avatar_url # users[i].avatar_url =>
               \E w \in Workers : \/ GoogleBrings(w, i)
                                  \/ /\ req[w].token.holder = i
                                     /\ req[w].avatar_url = users'[i].avatar_url ]_users

\* The handlers implement the directory of atomic operations.
Directory == INSTANCE AccountDirectory
DirectorySpec == Directory!Spec
=============================================================================
