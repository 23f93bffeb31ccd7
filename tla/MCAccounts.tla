----------------------------- MODULE MCAccounts -----------------------------
(***************************************************************************)
(* Instances of Accounts for TLC: three addresses, one of them typed in    *)
(* two spellings, and a collection that holds one suspended account (in    *)
(* the seed data, guest@example.com), with a password or a Google identity.*)
(***************************************************************************)
EXTENDS AccountsInvariants, TLC

CONSTANTS ann, Ann, bob, cid, p1, p2, n1, n2, a1

MCEmails == {ann, bob, cid}
MCSpellings == {ann, Ann, bob, cid}
MCNormal == [s \in MCSpellings |-> IF s = Ann THEN ann ELSE s]
SameSpelling == [s \in Spellings |-> s]

Suspended(p) == [id |-> 1, email |-> bob, password_hash |-> p,
                 user_type |-> "user", is_active |-> FALSE, profile |-> None,
                 avatar_url |-> None, via |-> "never"]

SuspendedGoogleUser == {<<Suspended(None)>>}
SuspendedPasswordUser == {<<>>} \union {<<Suspended(p)>> : p \in Passwords}

\* Sound where the initial collection names no password, no profile and
\* neither ann nor cid: a state holds addresses only as Normal yields them,
\* and Normal yields all three.
DataSymmetry ==
    {p @@ n @@ e : p \in Permutations(Passwords), n \in Permutations(Profiles),
                   e \in Permutations({ann, cid})}

\* Sound where the initial collections name all passwords alike.
ReplicaSymmetry == {w @@ p : w \in Permutations(Workers), p \in Permutations(Passwords)}
=============================================================================
