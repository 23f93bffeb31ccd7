-------------------------- MODULE AccountDirectory --------------------------
(***************************************************************************)
(* What the account endpoints promise their clients: a directory in which  *)
(* an address belongs to one account, an account is created with a fresh   *)
(* id in one step, a password changes only from the value the requester    *)
(* named, and a token names an existing account.  Every operation is one   *)
(* atomic step; Accounts, where an operation is a series of round trips to *)
(* MongoDB, implements this with a single worker.                          *)
(***************************************************************************)
EXTENDS AccountTypes

VARIABLES users, tokens

Init == users \in InitCollections /\ tokens = {}

\* A new account takes the next id and a free address.
Create(e, p, t, n, a, v) ==
    /\ WithEmail(users, e) = {}
    /\ users' = Append(users, [id |-> Len(users) + 1, email |-> e,
                               password_hash |-> p, user_type |-> t,
                               is_active |-> TRUE, profile |-> n,
                               avatar_url |-> a, via |-> v])
    /\ UNCHANGED tokens

\* A subscriber record of the USSD side: neither id nor address.
CreateRecord ==
    /\ users' = Append(users, [id |-> NoId, email |-> None,
                               password_hash |-> None, user_type |-> None,
                               is_active |-> TRUE, profile |-> None,
                               avatar_url |-> None, via |-> "never"])
    /\ UNCHANGED tokens

\* A password sign-in needs an active account that has a password.
SignIn(i) ==
    /\ users[i].email # None
    /\ users[i].is_active /\ users[i].password_hash # None
    /\ users' = [users EXCEPT ![i].via = "password"]
    /\ UNCHANGED tokens

\* A Google sign-in needs neither, and brings a picture.
GoogleSignIn(i, a) ==
    /\ users[i].email # None
    /\ users' = [users EXCEPT ![i].via = "google", ![i].avatar_url = a]
    /\ UNCHANGED tokens

\* The names, the picture or both.
SetProfile(i, n, a) ==
    /\ users[i].is_active
    /\ users[i].id # NoId
    /\ users' = [users EXCEPT ![i].profile = Given(n, @),
                              ![i].avatar_url = Given(a, @)]
    /\ UNCHANGED tokens

\* Compare and set: the old password is checked against the current one.
SetPassword(i, old, new) ==
    /\ users[i].is_active
    /\ users[i].password_hash = old
    /\ users' = [users EXCEPT ![i].password_hash = new]
    /\ UNCHANGED tokens

\* A suspended account gets a token only through its Google identity.
Issue(i) ==
    /\ users[i].email # None
    /\ users[i].is_active \/ users[i].via = "google"
    /\ tokens' = tokens \union {[user_id   |-> users[i].id,
                                 user_type |-> users[i].user_type,
                                 holder    |-> i]}
    /\ UNCHANGED users

Expire(t) ==
    /\ tokens' = tokens \ {t}
    /\ UNCHANGED users

Next ==
    \/ \E e \in Emails, p \in Passwords \union {None}, t \in UserTypes,
          n \in Profiles, a \in Avatars \union {None}, v \in {"never", "google"} :
         Create(e, p, t, n, a, v)
    \/ CreateRecord
    \/ \E i \in DOMAIN users :
         \/ SignIn(i)
         \/ \E a \in Avatars : GoogleSignIn(i, a)
         \/ \E n \in Profiles \union {None}, a \in Avatars \union {None} :
              SetProfile(i, n, a)
         \/ \E old, new \in Passwords : SetPassword(i, old, new)
         \/ Issue(i)
    \/ \E t \in tokens : Expire(t)

Spec == Init /\ [][Next]_<<users, tokens>>
=============================================================================
