------------------------- MODULE AccountsInvariants -------------------------
(***************************************************************************)
(* What holds between the round trips of a handler: the facts about the    *)
(* registers of a worker that make the invariants of Accounts inductive.   *)
(***************************************************************************)
EXTENDS Accounts

\* The labels at which a handler has passed the check for an existing
\* account, has a document to sign a token for, or acts for current_user.
Inserting == {"reg_insert", "goo_insert"}
Creating  == {"reg_count", "goo_count"} \union Inserting
Signing   == {"reg_token", "login_touch", "login_token", "goo_update", "goo_token"}
Editing   == {"prof_write", "prof_read", "pw_find", "pw_write"}

-----------------------------------------------------------------------------
(***************************************************************************)
(* Any number of workers.                                                  *)
(***************************************************************************)

\* The fields a handler validated are there as long as it needs them.
RequestHolds(w) ==
    /\ pc[w] \in {"reg_find", "login_find", "goo_find"} \union Creating =>
         req[w].email \in Emails
    /\ pc[w] \in {"reg_find", "reg_count", "reg_insert"} =>
         /\ req[w].password \in Passwords
         /\ req[w].user_type \in UserTypes
         /\ req[w].profile \in Profiles
    /\ pc[w] = "login_find" => req[w].password \in Passwords
    /\ pc[w] \in {"goo_find", "goo_count", "goo_insert"} =>
         req[w].profile \in Profiles
    /\ pc[w] \in {"goo_find", "goo_update", "goo_count", "goo_insert"} =>
         req[w].op = "google" /\ req[w].avatar_url \in Avatars
    /\ pc[w] = "jwt" /\ req[w].op = "change_password" =>
         req[w].new_password \in Passwords
    /\ pc[w] \in {"pw_find", "pw_write"} =>
         req[w].password \in Passwords /\ req[w].new_password \in Passwords
    /\ pc[w] \in {"jwt"} \union Editing => req[w].token.user_id # NoId

\* A computed id is not ahead of the collection.
PendingIdHolds(w) ==
    /\ nid[w] <= Len(users) + 1
    /\ pc[w] \in Inserting => nid[w] # NoId

\* The document a token will be signed for is still what was read.
FoundHolds(w) ==
    pc[w] \in Signing =>
      /\ found[w].at \in DOMAIN users
      /\ found[w].id = users[found[w].at].id
      /\ found[w].user_type = users[found[w].at].user_type
      /\ users[found[w].at].email # None
      /\ pc[w] \in {"login_touch", "login_token", "reg_token"} =>
           users[found[w].at].is_active
      /\ pc[w] = "login_touch" => users[found[w].at].password_hash # None
      /\ pc[w] = "goo_update" => req[w].email = users[found[w].at].email
      /\ pc[w] = "goo_token" =>
           users[found[w].at].is_active \/ users[found[w].at].via = "google"

\* The current user is still there, and active.
CurrentHolds(w) ==
    pc[w] \in Editing =>
      \E i \in DOMAIN users :
        /\ Current(w, i)
        /\ users[i].is_active
        /\ pc[w] = "pw_write" => users[i].password_hash # None

CollectionHolds ==
    /\ IdsBehind(users)
    /\ \A i \in DOMAIN users : users[i].email # None => users[i].id # NoId

TokensHold ==
    \A t \in tokens :
      /\ t.holder \in DOMAIN users
      /\ t.user_id = users[t.holder].id
      /\ t.user_type = users[t.holder].user_type
      /\ users[t.holder].email # None
      /\ users[t.holder].is_active \/ users[t.holder].via = "google"

\* What a handler read in one round trip still holds in the next, and every
\* token is that of an account, whatever the other workers do in between.
HandlersInv ==
    /\ CollectionHolds
    /\ TokensHold
    /\ \A w \in Workers : /\ RequestHolds(w)
                          /\ PendingIdHolds(w)
                          /\ FoundHolds(w)
                          /\ CurrentHolds(w)

-----------------------------------------------------------------------------
(***************************************************************************)
(* A single worker.                                                        *)
(***************************************************************************)
Alone == \A v, w \in Workers : v = w

\* No other handler ran since the check for an existing account, the count,
\* or the comparison of the current password.
UndisturbedSince(w) ==
    /\ pc[w] \in Creating => WithEmail(users, req[w].email) = {}
    /\ pc[w] \in Inserting => nid[w] = Len(users) + 1
    /\ pc[w] \in {"jwt"} \union Editing =>
         IsFirst(req[w].token.holder, WithId(users, req[w].token.user_id))
    /\ pc[w] = "pw_write" =>
         users[req[w].token.holder].password_hash = req[w].password

\* With one worker no two accounts share an address or an id, and what a
\* handler checked in one round trip is the case in the next.
AloneInv ==
    /\ DistinctEmails(users)
    /\ DistinctIds(users)
    /\ TokenNamesItsAccount
    /\ \A w \in Workers : UndisturbedSince(w)
=============================================================================
