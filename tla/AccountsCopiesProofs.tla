------------------------ MODULE AccountsCopiesProofs ------------------------
(***************************************************************************)
(* How often an address or an id is given away by Accounts: at most once   *)
(* for each worker.  The copies in the collection and the workers that     *)
(* are about to add another are counted together.                          *)
(***************************************************************************)
EXTENDS AccountsProofs, FiniteSetTheorems

\* The workers that found no account with address e, and those that have
\* computed the id n.
Waiting(e) == {w \in Workers : pc[w] \in Creating /\ req[w].email = e}
Numbered(n) == {w \in Workers : pc[w] \in Inserting /\ nid[w] = n}

CopiesInv ==
    /\ \A e \in Emails :
         Cardinality(WithEmail(users, e)) + Cardinality(Waiting(e)) <= Cardinality(Workers)
    /\ \A n \in Nat \ {NoId} :
         Cardinality(WithId(users, n)) + Cardinality(Numbered(n)) <= Cardinality(Workers)

-----------------------------------------------------------------------------
(***************************************************************************)
(* Counting.                                                               *)
(***************************************************************************)
LEMMA WorkerSets ==
  /\ Cardinality(Workers) \in Nat \ {0}
  /\ \A P : P \subseteq Workers =>
       /\ IsFiniteSet(P) /\ Cardinality(P) \in Nat
       /\ Cardinality(P) <= Cardinality(Workers)
<1>1. Cardinality(Workers) \in Nat /\ Cardinality(Workers) # 0
  BY WorkersAssumption, FS_CardinalityType, FS_EmptySet
<1>2. ASSUME NEW P, P \subseteq Workers
      PROVE  /\ IsFiniteSet(P) /\ Cardinality(P) \in Nat
             /\ Cardinality(P) <= Cardinality(Workers)
  <2>1. IsFiniteSet(P) /\ Cardinality(P) <= Cardinality(Workers)
    BY <1>2, WorkersAssumption, FS_Subset
  <2> QED
    BY <2>1, FS_CardinalityType
<1> QED
  BY <1>1, <1>2

\* D are the copies, P the workers about to add one: none is added, there is
\* none, or worker w adds one.
LEMMA Counting ==
  ASSUME NEW D, NEW P, NEW D2, NEW P2, IsFiniteSet(D),
         P \subseteq Workers, P2 \subseteq Workers,
         Cardinality(D) + Cardinality(P) <= Cardinality(Workers),
         \/ D2 = D /\ P2 \subseteq P
         \/ D2 = {}
         \/ \E w \in P : \E p : D2 = D \union {p} /\ P2 \subseteq P \ {w}
  PROVE  Cardinality(D2) + Cardinality(P2) <= Cardinality(Workers)
<1>1. /\ Cardinality(D) \in Nat /\ Cardinality(P) \in Nat /\ Cardinality(P2) \in Nat
      /\ Cardinality(P2) <= Cardinality(Workers) /\ Cardinality(Workers) \in Nat
      /\ IsFiniteSet(P)
  BY WorkerSets, FS_CardinalityType
<1>2. CASE D2 = D /\ P2 \subseteq P
  <2>1. Cardinality(P2) <= Cardinality(P)
    BY <1>1, <1>2, FS_Subset
  <2> QED
    BY <1>1, <1>2, <2>1
<1>3. CASE D2 = {}
  BY <1>1, <1>3, FS_EmptySet
<1>4. CASE \E w \in P : \E p : D2 = D \union {p} /\ P2 \subseteq P \ {w}
  <2>1. PICK w \in P : \E p : D2 = D \union {p} /\ P2 \subseteq P \ {w}
    BY <1>4
  <2>2. PICK p : D2 = D \union {p} /\ P2 \subseteq P \ {w}
    BY <2>1
  <2>3. Cardinality(D2) <= Cardinality(D) + 1
    <3>1. Cardinality(D \union {p}) = IF p \in D THEN Cardinality(D) ELSE Cardinality(D) + 1
      BY FS_AddElement
    <3> QED
      BY <1>1, <2>2, <3>1
  <2>4. IsFiniteSet(P \ {w}) /\ Cardinality(P \ {w}) = Cardinality(P) - 1
    BY <1>1, FS_RemoveElement
  <2>5. Cardinality(P2) <= Cardinality(P) - 1
    BY <2>2, <2>4, FS_Subset
  <2>6. Cardinality(D2) \in Nat
    BY <2>2, FS_AddElement, FS_CardinalityType
  <2> QED
    BY <1>1, <2>3, <2>5, <2>6
<1> QED
  BY <1>2, <1>3, <1>4

LEMMA CopiesFinite ==
  ASSUME TypeOK
  PROVE  /\ \A e : IsFiniteSet(WithEmail(users, e))
         /\ \A n : IsFiniteSet(WithId(users, n))
<1>1. DOMAIN users = 1 .. Len(users) /\ Len(users) \in Nat
  BY LenProperties DEF TypeOK
<1>2. IsFiniteSet(DOMAIN users)
  BY <1>1, FS_Interval
<1>3. \A e : WithEmail(users, e) \in SUBSET DOMAIN users
  BY DEF WithEmail
<1>4. \A n : WithId(users, n) \in SUBSET DOMAIN users
  BY DEF WithId
<1> QED
  BY <1>2, <1>3, <1>4, FS_Subset

-----------------------------------------------------------------------------
(***************************************************************************)
(* What a step of worker w is, as far as copies are concerned.             *)
(***************************************************************************)
Passes(w) == Len(users') = Len(users) /\ pc'[w] \notin Creating

Checks(w) ==
    /\ users' = users /\ req'[w] = req[w]
    /\ WithEmail(users, req[w].email) = {}
    /\ pc'[w] \notin Inserting

Counts(w) ==
    /\ users' = users /\ req'[w] = req[w]
    /\ pc[w] \in Creating /\ nid'[w] = Len(users) + 1

Inserts(w) ==
    /\ pc[w] \in Inserting /\ pc'[w] \notin Creating
    /\ \E d \in Doc : /\ users' = Append(users, d)
                      /\ d.email = req[w].email /\ d.id = nid[w]

Records(w) ==
    /\ Rests(w)
    /\ \E d \in Doc : users' = Append(users, d) /\ d.email = None /\ d.id = NoId

Copying(w) == Passes(w) \/ Checks(w) \/ Counts(w) \/ Inserts(w) \/ Records(w)

LEMMA PassesByAnswer ==
  ASSUME TypeOK, NEW w \in Workers, NEW status, Answer(w, status), Len(users') = Len(users)
  PROVE  Passes(w)
BY DEF Answer, Passes, Creating, Inserting, TypeOK

LEMMA PassesByGoto ==
  ASSUME TypeOK, NEW w \in Workers, NEW label, Goto(w, label), label \notin Creating,
         Len(users') = Len(users)
  PROVE  Passes(w)
BY DEF Goto, Passes, TypeOK

LEMMA PassesAtOnce ==
  ASSUME TypeOK, NEW w \in Workers, NEW status, AnswerAtOnce(w, status)
  PROVE  Passes(w)
BY DEF AnswerAtOnce, Passes, Creating, Inserting

LEMMA PassesByAccept ==
  ASSUME TypeOK, NEW w \in Workers, NEW r, NEW label, Accept(w, r, label),
         label \notin Creating
  PROVE  Passes(w)
BY DEF Accept, Passes, TypeOK

\* A write to a field of a document does not change the length.
LEMMA SameLength ==
  ASSUME TypeOK, TypeOK', NEW w \in Workers,
         LoginTouch(w) \/ GoogleUpdate(w) \/ ProfileWrite(w) \/ PasswordWrite(w)
  PROVE  Len(users') = Len(users)
<1>1. DOMAIN users' = DOMAIN users
  BY DEF LoginTouch, GoogleUpdate, ProfileWrite, PasswordWrite
<1> QED
  BY <1>1, Domains

LEMMA ReceiveCopies ==
  ASSUME TypeOK, NEW w \in Workers, Receive(w)
  PROVE  Copying(w)
<1>1. {"reg_find", "login_find", "goo_find", "jwt"} \intersect Creating = {}
  BY DEF Creating, Inserting
<1>2. CASE Register(w)
  BY <1>1, <1>2, PassesAtOnce, PassesByAccept DEF Register, Copying
<1>3. CASE Login(w)
  BY <1>1, <1>3, PassesAtOnce, PassesByAccept DEF Login, Copying
<1>4. CASE GoogleLogin(w)
  BY <1>1, <1>4, PassesAtOnce, PassesByAccept DEF GoogleLogin, Copying
<1>5. CASE NoTokenPresented(w) \/ Refresh(w)
  BY <1>5, PassesAtOnce DEF NoTokenPresented, Refresh, Copying
<1>6. CASE Present(w)
  BY <1>1, <1>6, PassesByAccept DEF Present, Copying
<1>7. CASE CreateUser(w)
  <2> DEFINE d == [id |-> NoId, email |-> None, password_hash |-> None,
                   user_type |-> None, is_active |-> TRUE, profile |-> None,
                   avatar_url |-> None, via |-> "never"]
  <2>1. d \in Doc /\ d.email = None /\ d.id = NoId
    BY DEF Doc, Via, NoId
  <2>2. users' = Append(users, d) /\ Rests(w)
    BY <1>7 DEF CreateUser, Rests
  <2> HIDE DEF d
  <2> QED
    BY <2>1, <2>2 DEF Copying, Records
<1> QED
  BY <1>2, <1>3, <1>4, <1>5, <1>6, <1>7 DEF Receive

LEMMA RegisterCopies ==
  ASSUME TypeOK, TypeOK', HandlersInv, NEW w \in Workers,
         \/ RegisterFind(w) \/ RegisterCount(w)
         \/ RegisterInsert(w) \/ RegisterToken(w)
  PROVE  Copying(w)
<1>1. CASE RegisterFind(w)
  <2>1. users' = users
    BY <1>1 DEF RegisterFind, store
  <2>2. CASE Answer(w, 409)
    BY <2>1, <2>2, PassesByAnswer DEF Copying
  <2>3. CASE WithEmail(users, req[w].email) = {} /\ Goto(w, "reg_count")
    BY <2>1, <2>3 DEF Goto, Checks, Copying, Inserting, TypeOK
  <2> QED
    BY <1>1, <2>2, <2>3 DEF RegisterFind
<1>2. CASE RegisterCount(w)
  BY <1>2 DEF RegisterCount, Goto, Counts, Copying, Creating, TypeOK
<1>3. CASE RegisterInsert(w)
  <2> DEFINE d == [id |-> nid[w], email |-> req[w].email,
                   password_hash |-> req[w].password,
                   user_type |-> req[w].user_type,
                   is_active |-> TRUE, profile |-> req[w].profile,
                   avatar_url |-> None, via |-> "never"]
  <2>1. d \in Doc /\ d.email = req[w].email /\ d.id = nid[w]
    BY DEF Doc, Via, TypeOK, Request
  <2>2. users' = Append(users, d)
    BY <1>3 DEF RegisterInsert
  <2>3. pc[w] \in Inserting /\ pc'[w] \notin Creating
    BY <1>3 DEF RegisterInsert, Goto, Creating, Inserting, TypeOK
  <2> HIDE DEF d
  <2> QED
    BY <2>1, <2>2, <2>3 DEF Copying, Inserts
<1>4. CASE RegisterToken(w)
  BY <1>4, PassesByAnswer DEF RegisterToken, Sign, Copying
<1> QED
  BY <1>1, <1>2, <1>3, <1>4

LEMMA LoginCopies ==
  ASSUME TypeOK, TypeOK', NEW w \in Workers,
         LoginFind(w) \/ LoginTouch(w) \/ LoginToken(w)
  PROVE  Copying(w)
<1>1. {"login_touch", "login_token"} \intersect Creating = {}
  BY DEF Creating, Inserting
<1>2. CASE LoginFind(w)
  <2>1. users' = users
    BY <1>2 DEF LoginFind, store
  <2>2. (\E status : Answer(w, status)) \/ Goto(w, "login_touch")
    BY <1>2 DEF LoginFind
  <2> QED
    BY <1>1, <2>1, <2>2, PassesByAnswer, PassesByGoto DEF Copying
<1>3. CASE LoginTouch(w)
  <2>1. Len(users') = Len(users)
    BY <1>3, SameLength
  <2> QED
    BY <1>1, <1>3, <2>1, PassesByGoto DEF LoginTouch, Copying
<1>4. CASE LoginToken(w)
  BY <1>4, PassesByAnswer DEF LoginToken, Sign, Copying
<1> QED
  BY <1>2, <1>3, <1>4

LEMMA GoogleCopies ==
  ASSUME TypeOK, TypeOK', HandlersInv, NEW w \in Workers,
         \/ GoogleFind(w) \/ GoogleUpdate(w)
         \/ GoogleCount(w) \/ GoogleInsert(w) \/ GoogleToken(w)
  PROVE  Copying(w)
<1>1. {"goo_update", "goo_token"} \intersect Creating = {}
  BY DEF Creating, Inserting
<1>2. CASE GoogleFind(w)
  <2>1. users' = users
    BY <1>2 DEF GoogleFind
  <2>2. CASE Goto(w, "goo_update")
    BY <1>1, <2>1, <2>2, PassesByGoto DEF Copying
  <2>3. CASE WithEmail(users, req[w].email) = {} /\ Goto(w, "goo_count")
    BY <2>1, <2>3 DEF Goto, Checks, Copying, Inserting, TypeOK
  <2> QED
    BY <1>2, <2>2, <2>3 DEF GoogleFind
<1>3. CASE GoogleUpdate(w)
  <2>1. Len(users') = Len(users)
    BY <1>3, SameLength
  <2> QED
    BY <1>1, <1>3, <2>1, PassesByGoto DEF GoogleUpdate, Copying
<1>4. CASE GoogleCount(w)
  BY <1>4 DEF GoogleCount, Goto, Counts, Copying, Creating, TypeOK
<1>5. CASE GoogleInsert(w)
  <2> DEFINE d == [id |-> nid[w], email |-> req[w].email,
                   password_hash |-> None, user_type |-> "user",
                   is_active |-> TRUE, profile |-> req[w].profile,
                   avatar_url |-> req[w].avatar_url, via |-> "google"]
  <2>1. d \in Doc /\ d.email = req[w].email /\ d.id = nid[w]
    BY UserTypesAssumption DEF Doc, Via, TypeOK, Request
  <2>2. users' = Append(users, d)
    BY <1>5 DEF GoogleInsert
  <2>3. pc[w] \in Inserting /\ pc'[w] \notin Creating
    BY <1>5 DEF GoogleInsert, Goto, Creating, Inserting, TypeOK
  <2> HIDE DEF d
  <2> QED
    BY <2>1, <2>2, <2>3 DEF Copying, Inserts
<1>6. CASE GoogleToken(w)
  BY <1>6, PassesByAnswer DEF GoogleToken, Sign, Copying
<1> QED
  BY <1>2, <1>3, <1>4, <1>5, <1>6

LEMMA ProtectedCopies ==
  ASSUME TypeOK, TypeOK', NEW w \in Workers,
         \/ JwtRefuse(w) \/ GetProfile(w) \/ Logout(w) \/ AdminCall(w)
         \/ UpdateProfile(w) \/ ProfileWrite(w) \/ ProfileRead(w)
         \/ ChangePassword(w) \/ PasswordFind(w) \/ PasswordWrite(w)
  PROVE  Copying(w)
<1>1. {"prof_write", "prof_read", "pw_find", "pw_write"} \intersect Creating = {}
  BY DEF Creating, Inserting
<1>2. CASE JwtRefuse(w) \/ GetProfile(w) \/ Logout(w) \/ AdminCall(w) \/ ProfileRead(w)
  <2>1. users' = users /\ \E status : Answer(w, status)
    BY <1>2 DEF JwtRefuse, GetProfile, Logout, AdminCall, ProfileRead, store
  <2> QED
    BY <2>1, PassesByAnswer DEF Copying
<1>3. CASE UpdateProfile(w) \/ ChangePassword(w) \/ PasswordFind(w)
  <2>1. users' = users
    BY <1>3 DEF UpdateProfile, ChangePassword, PasswordFind, store
  <2>2. \/ \E status : Answer(w, status)
        \/ \E label \in {"prof_write", "pw_find", "pw_write"} : Goto(w, label)
    BY <1>3 DEF UpdateProfile, ChangePassword, PasswordFind
  <2> QED
    BY <1>1, <2>1, <2>2, PassesByAnswer, PassesByGoto DEF Copying
<1>4. CASE ProfileWrite(w)
  <2>1. Len(users') = Len(users)
    BY <1>4, SameLength
  <2> QED
    BY <1>1, <1>4, <2>1, PassesByGoto DEF ProfileWrite, Copying
<1>5. CASE PasswordWrite(w)
  <2>1. Len(users') = Len(users)
    BY <1>5, SameLength
  <2> QED
    BY <1>5, <2>1, PassesByAnswer DEF PasswordWrite, Copying
<1> QED
  BY <1>2, <1>3, <1>4, <1>5

LEMMA StepCopies ==
  ASSUME TypeOK, TypeOK', HandlersInv, NEW w \in Workers,
         Receive(w) \/ Step(w) \/ Crash(w)
  PROVE  Copying(w)
<1>1. CASE Crash(w)
  BY <1>1, PassesByAnswer DEF Crash, store, Copying
<1> QED
  BY <1>1, ReceiveCopies, RegisterCopies, LoginCopies, GoogleCopies, ProtectedCopies DEF Step

-----------------------------------------------------------------------------
(***************************************************************************)
(* The copies and the workers, by kind of step.                            *)
(***************************************************************************)

\* Documents that are there keep their address and id; one may be added.
LEMMA SameCopies ==
  ASSUME TypeOK, TypeOK', Grows, Len(users') = Len(users)
  PROVE  /\ \A e : WithEmail(users', e) = WithEmail(users, e)
         /\ \A n : WithId(users', n) = WithId(users, n)
<1>1. DOMAIN users' = DOMAIN users
  BY Domains
<1> QED
  BY <1>1 DEF Grows, SameAccount, WithEmail, WithId

LEMMA OneMoreCopy ==
  ASSUME TypeOK, NEW d \in Doc, users' = Append(users, d)
  PROVE  /\ \A e : WithEmail(users', e) =
              IF d.email = e THEN WithEmail(users, e) \union {Len(users) + 1}
                             ELSE WithEmail(users, e)
         /\ \A n : WithId(users', n) =
              IF d.id = n THEN WithId(users, n) \union {Len(users) + 1}
                          ELSE WithId(users, n)
<1>1. DOMAIN users = 1 .. Len(users) /\ Len(users) \in Nat
  BY LenProperties DEF TypeOK
<1>2. /\ DOMAIN users' = 1 .. Len(users) + 1
      /\ \A i \in 1 .. Len(users) : users'[i] = users[i]
      /\ users'[Len(users) + 1] = d
  BY InsertDoc DEF TypeOK
<1>3. DOMAIN users' = DOMAIN users \union {Len(users) + 1}
  BY <1>1, <1>2
<1>4. \A i \in DOMAIN users : users'[i] = users[i]
  BY <1>1, <1>2
<1>5. Len(users) + 1 \notin DOMAIN users
  BY <1>1
<1> QED
  BY <1>2, <1>3, <1>4, <1>5 DEF WithEmail, WithId

LEMMA EmailCounts ==
  ASSUME TypeOK, TypeOK', Grows, NEW w \in Workers, Copying(w),
         \A v \in Workers : v # w => Rests(v), NEW e \in Emails,
         Cardinality(WithEmail(users, e)) + Cardinality(Waiting(e)) <= Cardinality(Workers)
  PROVE  Cardinality(WithEmail(users', e)) + Cardinality(Waiting(e)') <= Cardinality(Workers)
<1>1. Waiting(e) \subseteq Workers /\ Waiting(e)' \subseteq Workers
  BY DEF Waiting
<1>2. Waiting(e)' \subseteq Waiting(e) \union {w}
  BY DEF Waiting, Rests
<1>3. pc'[w] \notin Creating => Waiting(e)' \subseteq Waiting(e) \ {w}
  BY DEF Waiting, Rests
<1>4. \/ WithEmail(users', e) = WithEmail(users, e) /\ Waiting(e)' \subseteq Waiting(e)
      \/ WithEmail(users', e) = {}
      \/ \E v \in Waiting(e) : \E p :
           /\ WithEmail(users', e) = WithEmail(users, e) \union {p}
           /\ Waiting(e)' \subseteq Waiting(e) \ {v}
  <2>1. CASE Passes(w)
    BY <1>3, <2>1, SameCopies DEF Passes
  <2>2. CASE Checks(w)
    <3>1. CASE e = req[w].email
      BY <2>2, <3>1 DEF Checks
    <3>2. CASE e # req[w].email
      <4>1. w \notin Waiting(e)'
        BY <2>2, <3>2 DEF Checks, Waiting
      <4> QED
        BY <1>2, <2>2, <4>1 DEF Checks
    <3> QED
      BY <3>1, <3>2
  <2>3. CASE Counts(w)
    <3>1. w \in Waiting(e)' => w \in Waiting(e)
      BY <2>3 DEF Counts, Waiting
    <3> QED
      BY <1>2, <2>3, <3>1 DEF Counts
  <2>4. CASE Inserts(w)
    <3>1. PICK d \in Doc : users' = Append(users, d) /\ d.email = req[w].email
      BY <2>4 DEF Inserts
    <3>2. Waiting(e)' \subseteq Waiting(e) \ {w}
      BY <1>3, <2>4 DEF Inserts
    <3>3. CASE e = req[w].email
      <4>1. w \in Waiting(e)
        BY <2>4, <3>3 DEF Inserts, Waiting, Creating
      <4>2. WithEmail(users', e) = WithEmail(users, e) \union {Len(users) + 1}
        BY <3>1, <3>3, OneMoreCopy
      <4> QED
        BY <3>2, <4>1, <4>2
    <3>4. CASE e # req[w].email
      <4>1. WithEmail(users', e) = WithEmail(users, e)
        BY <3>1, <3>4, OneMoreCopy
      <4> QED
        BY <3>2, <4>1
    <3> QED
      BY <3>3, <3>4
  <2>5. CASE Records(w)
    <3>1. PICK d \in Doc : users' = Append(users, d) /\ d.email = None
      BY <2>5 DEF Records
    <3>2. WithEmail(users', e) = WithEmail(users, e)
      BY <3>1, OneMoreCopy, NoneAssumption
    <3>3. Waiting(e)' \subseteq Waiting(e)
      BY <2>5 DEF Records, Rests, Waiting
    <3> QED
      BY <3>2, <3>3
  <2> QED
    BY <2>1, <2>2, <2>3, <2>4, <2>5 DEF Copying
<1>5. IsFiniteSet(WithEmail(users, e))
  BY CopiesFinite
<1> QED
  BY <1>1, <1>4, <1>5, Counting

LEMMA IdCounts ==
  ASSUME TypeOK, TypeOK', CollectionHolds, Grows, NEW w \in Workers, Copying(w),
         \A v \in Workers : v # w => Rests(v), NEW n \in Nat \ {NoId},
         Cardinality(WithId(users, n)) + Cardinality(Numbered(n)) <= Cardinality(Workers)
  PROVE  Cardinality(WithId(users', n)) + Cardinality(Numbered(n)') <= Cardinality(Workers)
<1>1. Numbered(n) \subseteq Workers /\ Numbered(n)' \subseteq Workers
  BY DEF Numbered
<1>2. Numbered(n)' \subseteq Numbered(n) \union {w}
  BY DEF Numbered, Rests
<1>3. pc'[w] \notin Inserting => Numbered(n)' \subseteq Numbered(n) \ {w}
  BY DEF Numbered, Rests
<1>4. \/ WithId(users', n) = WithId(users, n) /\ Numbered(n)' \subseteq Numbered(n)
      \/ WithId(users', n) = {}
      \/ \E v \in Numbered(n) : \E p :
           /\ WithId(users', n) = WithId(users, n) \union {p}
           /\ Numbered(n)' \subseteq Numbered(n) \ {v}
  <2>1. CASE Passes(w)
    BY <1>3, <2>1, SameCopies DEF Passes, Creating
  <2>2. CASE Checks(w)
    BY <1>3, <2>2 DEF Checks
  <2>3. CASE Counts(w)
    <3>1. CASE n = Len(users) + 1
      <4>1. WithId(users, n) = {}
        BY <3>1, Domains DEF CollectionHolds, IdsBehind, WithId
      <4> QED
        BY <2>3, <4>1 DEF Counts
    <3>2. CASE n # Len(users) + 1
      <4>1. w \notin Numbered(n)'
        BY <2>3, <3>2 DEF Counts, Numbered
      <4> QED
        BY <1>2, <2>3, <4>1 DEF Counts
    <3> QED
      BY <3>1, <3>2
  <2>4. CASE Inserts(w)
    <3>1. PICK d \in Doc : users' = Append(users, d) /\ d.id = nid[w]
      BY <2>4 DEF Inserts
    <3>2. Numbered(n)' \subseteq Numbered(n) \ {w}
      BY <1>3, <2>4 DEF Inserts, Creating
    <3>3. CASE n = nid[w]
      <4>1. w \in Numbered(n)
        BY <2>4, <3>3 DEF Inserts, Numbered
      <4>2. WithId(users', n) = WithId(users, n) \union {Len(users) + 1}
        BY <3>1, <3>3, OneMoreCopy
      <4> QED
        BY <3>2, <4>1, <4>2
    <3>4. CASE n # nid[w]
      <4>1. WithId(users', n) = WithId(users, n)
        BY <3>1, <3>4, OneMoreCopy
      <4> QED
        BY <3>2, <4>1
    <3> QED
      BY <3>3, <3>4
  <2>5. CASE Records(w)
    <3>1. PICK d \in Doc : users' = Append(users, d) /\ d.id = NoId
      BY <2>5 DEF Records
    <3>2. WithId(users', n) = WithId(users, n)
      BY <3>1, OneMoreCopy
    <3>3. Numbered(n)' \subseteq Numbered(n)
      BY <2>5 DEF Records, Rests, Numbered
    <3> QED
      BY <3>2, <3>3
  <2> QED
    BY <2>1, <2>2, <2>3, <2>4, <2>5 DEF Copying
<1>5. IsFiniteSet(WithId(users, n))
  BY CopiesFinite
<1> QED
  BY <1>1, <1>4, <1>5, Counting

-----------------------------------------------------------------------------
LEMMA CopiesStep ==
  ASSUME TypeOK, TypeOK', HandlersInv, CopiesInv, [Next]_vars
  PROVE  CopiesInv'
<1>1. CASE UNCHANGED vars \/ Expire
  BY <1>1 DEF vars, Expire, CopiesInv, Waiting, Numbered
<1>2. ASSUME NEW w \in Workers, Receive(w) \/ Step(w) \/ Crash(w)
      PROVE  CopiesInv'
  <2>1. Grows /\ CollectionHolds /\ Copying(w)
    BY <1>2, HandlersStep, StepCopies DEF HandlersInv
  <2>2. \A v \in Workers : v # w => Rests(v)
    BY <1>2, StepOfOne
  <2>3. \A e \in Emails :
          Cardinality(WithEmail(users', e)) + Cardinality(Waiting(e)') <= Cardinality(Workers)
    BY <2>1, <2>2, EmailCounts DEF CopiesInv
  <2>4. \A n \in Nat \ {NoId} :
          Cardinality(WithId(users', n)) + Cardinality(Numbered(n)') <= Cardinality(Workers)
    BY <2>1, <2>2, IdCounts DEF CopiesInv
  <2> QED
    BY <2>3, <2>4 DEF CopiesInv
<1> QED
  BY <1>1, <1>2 DEF Next

LEMMA AtMostOneElement ==
  ASSUME NEW S, \A x, y \in S : x = y
  PROVE  IsFiniteSet(S) /\ Cardinality(S) <= 1
<1>1. CASE S = {}
  BY <1>1, FS_EmptySet
<1>2. CASE S # {}
  <2>1. PICK x : S = {x}
    BY <1>2
  <2>2. IsFiniteSet({x}) /\ Cardinality({x}) = 1
    BY FS_Singleton
  <2> QED
    BY <2>1, <2>2
<1> QED
  BY <1>1, <1>2

LEMMA CopiesInit == Init => CopiesInv
<1> SUFFICES ASSUME Init PROVE CopiesInv
  OBVIOUS
<1>1. DistinctEmails(users) /\ DistinctIds(users)
  BY InitCollectionsAssumption DEF Init
<1>2. \A e : Waiting(e) = {} /\ Numbered(e) = {}
  BY DEF Init, Waiting, Numbered, Creating, Inserting
<1>3. Cardinality(Workers) \in Nat \ {0}
  BY WorkerSets
<1>4. ASSUME NEW e \in Emails PROVE Cardinality(WithEmail(users, e)) <= 1
  <2>1. \A i, j \in WithEmail(users, e) : i = j
    BY <1>1, NoneAssumption DEF DistinctEmails, WithEmail
  <2> QED
    BY <2>1, AtMostOneElement
<1>5. ASSUME NEW n \in Nat \ {NoId} PROVE Cardinality(WithId(users, n)) <= 1
  <2>1. \A i, j \in WithId(users, n) : i = j
    BY <1>1 DEF DistinctIds, WithId
  <2> QED
    BY <2>1, AtMostOneElement
<1>6. /\ \A e \in Emails : Cardinality(WithEmail(users, e)) \in Nat
      /\ \A n : Cardinality(WithId(users, n)) \in Nat
  BY TypeInit, CopiesFinite, FS_CardinalityType
<1>7. \A e : Cardinality(Waiting(e)) = 0 /\ Cardinality(Numbered(e)) = 0
  BY <1>2, FS_EmptySet
<1>8. ASSUME NEW e \in Emails
      PROVE  Cardinality(WithEmail(users, e)) + Cardinality(Waiting(e)) <= Cardinality(Workers)
  <2>1. Cardinality(WithEmail(users, e)) <= 1 /\ Cardinality(Waiting(e)) = 0
    BY <1>4, <1>7
  <2> QED
    BY <1>3, <1>6, <2>1
<1>9. ASSUME NEW n \in Nat \ {NoId}
      PROVE  Cardinality(WithId(users, n)) + Cardinality(Numbered(n)) <= Cardinality(Workers)
  <2>1. Cardinality(WithId(users, n)) <= 1 /\ Cardinality(Numbered(n)) = 0
    BY <1>5, <1>7
  <2> QED
    BY <1>3, <1>6, <2>1
<1> QED
  BY <1>8, <1>9 DEF CopiesInv

\* Whatever the workers' check-then-insert requests do to each other: an
\* address, or an id, is in at most as many documents as there are workers.
THEOREM CopiesAreBounded == Spec => []CopiesBoundedByWorkers
<1>1. TypeOK /\ TypeOK' /\ HandlersInv /\ CopiesInv /\ [Next]_vars => CopiesInv'
  BY CopiesStep
<1>2. TypeOK /\ CopiesInv => CopiesBoundedByWorkers
  <2> SUFFICES ASSUME TypeOK, CopiesInv PROVE CopiesBoundedByWorkers
    OBVIOUS
  <2>1. \A e \in Emails : /\ Cardinality(WithEmail(users, e)) \in Nat
                          /\ Cardinality(Waiting(e)) \in Nat
    BY CopiesFinite, FS_CardinalityType, WorkerSets DEF Waiting
  <2>2. \A n : /\ Cardinality(WithId(users, n)) \in Nat
               /\ Cardinality(Numbered(n)) \in Nat
    BY CopiesFinite, FS_CardinalityType, WorkerSets DEF Numbered
  <2>3. Cardinality(Workers) \in Nat
    BY WorkerSets
  <2>4. \A i \in DOMAIN users : users[i].id \in Nat
    BY CopyTyped DEF Doc
  <2>5. ASSUME NEW e \in Emails
        PROVE  Cardinality(WithEmail(users, e)) <= Cardinality(Workers)
    <3>1. Cardinality(WithEmail(users, e)) + Cardinality(Waiting(e)) <= Cardinality(Workers)
      BY DEF CopiesInv
    <3> QED
      BY <2>1, <2>3, <3>1
  <2>6. ASSUME NEW n \in Nat \ {NoId}
        PROVE  Cardinality(WithId(users, n)) <= Cardinality(Workers)
    <3>1. Cardinality(WithId(users, n)) + Cardinality(Numbered(n)) <= Cardinality(Workers)
      BY DEF CopiesInv
    <3> QED
      BY <2>2, <2>3, <3>1
  <2> QED
    BY <2>4, <2>5, <2>6 DEF CopiesBoundedByWorkers
<1> QED
  BY <1>1, <1>2, TypeCorrect, HandlersCorrect, CopiesInit, PTL DEF Spec
=============================================================================
