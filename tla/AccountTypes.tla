---------------------------- MODULE AccountTypes ----------------------------
(***************************************************************************)
(* The documents of the MongoDB collection "users" and the session tokens  *)
(* that server/app/routes/auth.py issues for them, with the lookups both   *)
(* Accounts (the handlers) and AccountDirectory (what they promise) use.   *)
(***************************************************************************)
EXTENDS Naturals, Sequences

CONSTANTS
    Emails,     \* normalised addresses: what email.lower().strip() yields
    Passwords,
    UserTypes,  \* values of "user_type"; the register payload may name any
    Profiles,   \* names: first_name, last_name and username together
    Avatars,    \* values of "avatar_url"
    InitCollections, \* what the collection may hold at the first start
    None        \* a field the document or the request does not have

(***************************************************************************)
(* POST /api/users stores documents without "id": no lookup by id finds    *)
(* them, because ids start at count_documents({}) + 1 >= 1.                *)
(***************************************************************************)
NoId == 0

(***************************************************************************)
(* "via" abstracts last_login and google_id: the kind of the sign-in that  *)
(* last wrote the document.  "profile" is what only PUT /auth/profile sets *)
(* after the account was created; "avatar_url" a Google sign-in sets too.  *)
(* A password is its own hash.                                             *)
(***************************************************************************)
Via == {"never", "password", "google"}

Doc == [id            : Nat,
        email         : Emails \union {None},
        password_hash : Passwords \union {None},
        user_type     : UserTypes \union {None},
        is_active     : BOOLEAN,
        profile       : Profiles \union {None},
        avatar_url    : Avatars \union {None},
        via           : Via]

(***************************************************************************)
(* A JWT carries user_id and user_type.  "holder" is a history field: the  *)
(* position of the document the token was issued for.                      *)
(***************************************************************************)
Token == [user_id : Nat, user_type : UserTypes \union {None}, holder : Nat]

\* What a filter {"email": e} or {"id": k} matches, as positions.
WithEmail(docs, e) == {i \in DOMAIN docs : docs[i].email = e}
WithId(docs, k) == {i \in DOMAIN docs : docs[i].id = k}

(***************************************************************************)
(* find_one and update_one take the first match in natural order, which is *)
(* insertion order: no route of the running server removes a document.     *)
(***************************************************************************)
IsFirst(i, matches) == i \in matches /\ \A j \in matches : i <= j

\* A field that the payload lacks keeps its value.
Given(x, old) == IF x = None THEN old ELSE x

IdsBehind(docs) == \A i \in DOMAIN docs : docs[i].id <= i

\* No two documents with an address share it; likewise for ids.
DistinctEmails(docs) ==
    \A i, j \in DOMAIN docs :
        docs[i].email # None /\ docs[i].email = docs[j].email => i = j
DistinctIds(docs) ==
    \A i, j \in DOMAIN docs :
        docs[i].id # NoId /\ docs[i].id = docs[j].id => i = j

(***************************************************************************)
(* The assumptions on the constants.  The collection a deployment finds    *)
(* is one this code could have left with one worker: the ids never exceed  *)
(* the positions, and ids and addresses are distinct.                      *)
(***************************************************************************)
ASSUME NoneAssumption ==
    None \notin Emails \union Passwords \union UserTypes \union Profiles \union Avatars

ASSUME UserTypesAssumption == "user" \in UserTypes

ASSUME InitCollectionsAssumption ==
    \A docs \in InitCollections :
      /\ docs \in Seq(Doc)
      /\ IdsBehind(docs)
      /\ DistinctEmails(docs)
      /\ DistinctIds(docs)
      /\ \A i \in DOMAIN docs : docs[i].email # None => docs[i].id # NoId
=============================================================================
