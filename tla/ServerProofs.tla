---------------------------- MODULE ServerProofs ----------------------------
(***************************************************************************)
(* Theorems about Server, for any builds, samples, addresses and bounds.   *)
(***************************************************************************)
EXTENDS Server, SequenceTheorems, FiniteSetTheorems, TLAPS

-----------------------------------------------------------------------------
(***************************************************************************)
(* The steps of create_app().                                              *)
(***************************************************************************)
LEMMA StepsOrder ==
  /\ Len(Steps) = 11 /\ DOMAIN Steps = 1 .. 11
  /\ \A i \in DOMAIN Steps : Steps[i] = "init_mongodb" <=> i = 1
<1>1. Len(Steps) = 11 /\ DOMAIN Steps = 1 .. 11
  BY DEF Steps, Routes
<1>2. Steps[1] = "init_mongodb"
  BY DEF Steps, Routes
<1>3. ASSUME NEW i \in 2 .. 11 PROVE Steps[i] # "init_mongodb"
  BY DEF Steps, Routes
<1> QED
  BY <1>1, <1>2, <1>3

LEMMA ProcessIs ==
  Process = [next : 0..12, mongo : BOOLEAN, loaded : SUBSET Modules, sees : SUBSET Modules,
             list : {"none", "shared", "own"}, serves : SUBSET {"api_bp", "webhooks"}]
BY StepsOrder DEF Process

LEMMA AProcess ==
  ASSUME NEW q \in Process, NEW n \in 0 .. 12
  PROVE  /\ \A v \in SUBSET {"api_bp", "webhooks"} :
              [q EXCEPT !.next = n, !.serves = v] \in Process
         /\ \A b \in BOOLEAN : [q EXCEPT !.next = n, !.mongo = b] \in Process
BY ProcessIs

-----------------------------------------------------------------------------
(***************************************************************************)
(* What a step of one replica makes of its process.                        *)
(***************************************************************************)
Becomes(r, p) ==
    /\ image' = image
    /\ proc' = [q \in DOMAIN proc |-> proc'[q]]
    /\ \A q \in DOMAIN proc : proc'[q] = IF q = r THEN p ELSE proc[q]

LEMMA Imported ==
  ASSUME BootTypeOK, NEW r \in Replicas, NEW m \in Modules, proc[r].next \in DOMAIN Steps,
         Import(r, m), image' = image
  PROVE  \E p \in Process :
           /\ Becomes(r, p)
           /\ p.next = proc[r].next + 1
           /\ p.mongo = proc[r].mongo
           /\ p.loaded = proc[r].loaded \union Loads(m)
           /\ p.sees = proc[r].sees \union
                (IF proc[r].mongo THEN (Loads(m) \ proc[r].loaded) \intersect MongoUsers ELSE {})
           /\ p.list = IF "influencers_simple" \in Loads(m) \ proc[r].loaded
                       THEN ListFrom ELSE proc[r].list
           /\ p.serves = IF m = "webhooks" /\ m \in Loads(m) \ proc[r].loaded
                         THEN proc[r].serves \union {m} ELSE proc[r].serves
<1> DEFINE new == Loads(m) \ proc[r].loaded
           p == [next |-> proc[r].next + 1, mongo |-> proc[r].mongo,
                 loaded |-> proc[r].loaded \union new,
                 sees |-> proc[r].sees \union
                   (IF proc[r].mongo THEN new \intersect MongoUsers ELSE {}),
                 list |-> IF "influencers_simple" \in new THEN ListFrom ELSE proc[r].list,
                 serves |-> IF m = "webhooks" /\ m \in new
                            THEN proc[r].serves \union {m} ELSE proc[r].serves]
<1>1. proc \in [Replicas -> Process] /\ proc[r] \in Process
  BY DEF BootTypeOK
<1>2. Loads(m) \subseteq Modules
  BY DEF Loads, Needs, Modules, Routes
<1>3. ListFrom \in {"none", "shared", "own"}
  BY DEF ListFrom
<1>4. p.next \in 0 .. Len(Steps) + 1
  BY <1>1, StepsOrder DEF Process
<1>5. p \in Process
  BY <1>1, <1>2, <1>3, <1>4 DEF Process
<1>6. \A q \in Replicas \ {r} : proc'[q] = proc[q]
  BY <1>1 DEF Import
<1>7. proc'[r] = [proc[r] EXCEPT !.next = p.next, !.loaded = p.loaded, !.sees = p.sees,
                                 !.list = p.list, !.serves = p.serves]
  BY <1>1 DEF Import
<1>8. proc'[r] = p
  BY <1>1, <1>7 DEF Process
<1>9. proc' = [q \in Replicas |-> proc'[q]]
  BY <1>1 DEF Import
<1> QED
  BY <1>1, <1>5, <1>6, <1>8, <1>9 DEF Becomes

\* The modules that an import may load, and what their being loaded says.
LEMMA LoadsWhat ==
  ASSUME NEW m
  PROVE  /\ "admin_influencers" \in Loads(m) => Ends("admin_influencers") = "ok"
         /\ "influencers_simple" \in Loads(m) => m = "influencers_simple"
BY DEF Loads, Needs, ListFrom

\* What is known of a process.  "mongo" does not change once a module has
\* been loaded.
ProcessHolds(p) ==
    /\ p.loaded # {} => p.next > 1
    /\ p.sees \subseteq p.loaded
    /\ \A m \in p.loaded \intersect MongoUsers : m \in p.sees <=> p.mongo
    /\ "admin_influencers" \in p.loaded => Ends("admin_influencers") = "ok"
    /\ "influencers_simple" \in p.loaded => p.list = ListFrom

BootInv == BootTypeOK /\ \A r \in Replicas : ProcessHolds(proc[r])

LEMMA DownHolds == Down \in Process /\ ProcessHolds(Down)
BY StepsOrder DEF Down, Process, ProcessHolds

LEMMA BecomesHolds ==
  ASSUME BootInv, NEW r \in Replicas, NEW p \in Process, Becomes(r, p), ProcessHolds(p)
  PROVE  BootInv'
<1>1. image \in Images /\ proc \in [Replicas -> Process]
  BY DEF BootInv, BootTypeOK
<1>2. /\ image' \in Images /\ proc' = [q \in Replicas |-> proc'[q]]
      /\ \A q \in Replicas : proc'[q] = IF q = r THEN p ELSE proc[q]
  BY <1>1 DEF Becomes
<1>3. BootTypeOK'
  BY <1>1, <1>2 DEF BootTypeOK
<1>4. image' = image
  BY DEF Becomes
<1>5. \A q \in Replicas : ProcessHolds(proc'[q])
  BY <1>2 DEF BootInv
<1>6. \A q \in Replicas : ProcessHolds(proc[q])'
  BY <1>4, <1>5 DEF ProcessHolds, Ends, ListFrom
<1> QED
  BY <1>3, <1>6 DEF BootInv

LEMMA ImportHolds ==
  ASSUME BootInv, NEW r \in Replicas, NEW m \in Modules, proc[r].next \in DOMAIN Steps,
         Steps[proc[r].next] # "init_mongodb", Import(r, m), image' = image
  PROVE  BootInv'
<1>1. PICK p \in Process :
           /\ Becomes(r, p)
           /\ p.next = proc[r].next + 1
           /\ p.mongo = proc[r].mongo
           /\ p.loaded = proc[r].loaded \union Loads(m)
           /\ p.sees = proc[r].sees \union
                (IF proc[r].mongo THEN (Loads(m) \ proc[r].loaded) \intersect MongoUsers ELSE {})
           /\ p.list = IF "influencers_simple" \in Loads(m) \ proc[r].loaded
                       THEN ListFrom ELSE proc[r].list
           /\ p.serves = IF m = "webhooks" /\ m \in Loads(m) \ proc[r].loaded
                         THEN proc[r].serves \union {m} ELSE proc[r].serves
  BY Imported DEF BootInv
<1>2. ProcessHolds(proc[r])
  BY DEF BootInv
<1>3. proc[r].next \in 2 .. 11
  BY StepsOrder
<1>4. p.next > 1
  BY <1>1, <1>3
<1>5. p.sees \subseteq p.loaded
  BY <1>1, <1>2 DEF ProcessHolds
<1>6. \A n \in p.loaded \intersect MongoUsers : n \in p.sees <=> p.mongo
  BY <1>1, <1>2 DEF ProcessHolds
<1>7. "admin_influencers" \in p.loaded => Ends("admin_influencers") = "ok"
  BY <1>1, <1>2, LoadsWhat DEF ProcessHolds
<1>8. "influencers_simple" \in p.loaded => p.list = ListFrom
  BY <1>1, <1>2 DEF ProcessHolds
<1> QED
  BY <1>1, <1>4, <1>5, <1>6, <1>7, <1>8, BecomesHolds DEF ProcessHolds

LEMMA BootHolds ==
  ASSUME BootInv, NEW r \in Replicas, BootStep(r) \/ End(r)
  PROVE  BootInv'
<1>1. proc \in [Replicas -> Process] /\ proc[r] \in Process /\ ProcessHolds(proc[r])
  BY DEF BootInv, BootTypeOK
<1>2. CASE Start(r)
  <2> DEFINE p == [proc[r] EXCEPT !.next = 1]
  <2>1. p \in Process /\ ProcessHolds(p)
    BY <1>1, <1>2, StepsOrder DEF Start, Process, ProcessHolds
  <2>2. Becomes(r, p)
    BY <1>1, <1>2 DEF Start, Becomes, Process
  <2> HIDE DEF p
  <2> QED
    BY <2>1, <2>2, BecomesHolds
<1>3. CASE InitMongodb(r)
  <2>1. PICK usable \in BOOLEAN :
          proc' = [proc EXCEPT ![r].next = @ + 1, ![r].mongo = usable]
    BY <1>3 DEF InitMongodb
  <2> DEFINE p == [proc[r] EXCEPT !.next = proc[r].next + 1, !.mongo = usable]
  <2>2. proc[r].next = 1
    BY <1>3, StepsOrder DEF InitMongodb, At
  <2>3. proc[r].loaded = {} /\ proc[r].sees = {}
    BY <1>1, <2>2 DEF ProcessHolds
  <2>4. p \in Process
    <3>1. proc[r].next + 1 \in 0 .. 12
      BY <2>2
    <3> QED
      BY <1>1, <3>1, AProcess
  <2>5. ProcessHolds(p)
    BY <1>1, <2>2, <2>3 DEF Process, ProcessHolds
  <2>6. Becomes(r, p)
    BY <1>1, <1>3, <2>1 DEF InitMongodb, Becomes, Process
  <2> HIDE DEF p
  <2> QED
    BY <2>4, <2>5, <2>6, BecomesHolds
<1>4. CASE ImportRoutes(r)
  <2>1. PICK i \in DOMAIN Routes : At(r, Routes[i]) /\ Import(r, Routes[i])
    BY <1>4 DEF ImportRoutes
  <2>2. Routes[i] \in Modules /\ Routes[i] # "init_mongodb"
    BY DEF Routes, Modules
  <2> QED
    BY <1>4, <2>1, <2>2, ImportHolds DEF At, ImportRoutes
<1>5. CASE RegisterApi(r)
  <2> DEFINE p == [proc[r] EXCEPT !.next = proc[r].next + 1,
                                !.serves = proc[r].serves \union {"api_bp"}]
  <2>1. proc[r].next \in 2 .. 11
    BY <1>5, StepsOrder DEF RegisterApi, At
  <2>2. /\ proc[r].next + 1 \in 0 .. 12
        /\ proc[r].serves \union {"api_bp"} \in SUBSET {"api_bp", "webhooks"}
    BY <1>1, <2>1 DEF Process
  <2>3. p \in Process
    BY <1>1, <2>2, AProcess
  <2>4. ProcessHolds(p)
    BY <1>1, <2>1 DEF Process, ProcessHolds
  <2>5. Becomes(r, p)
    BY <1>1, <1>5 DEF RegisterApi, Becomes, Process
  <2> HIDE DEF p
  <2> QED
    BY <2>3, <2>4, <2>5, BecomesHolds
<1>6. CASE RegisterWebhooks(r)
  <2>1. "webhooks" \in Modules
    BY DEF Modules
  <2> QED
    BY <1>6, <2>1, ImportHolds DEF At, RegisterWebhooks
<1>7. CASE End(r)
  BY <1>7, DownHolds, BecomesHolds DEF End, Becomes
<1> QED
  BY <1>2, <1>3, <1>4, <1>5, <1>6, <1>7 DEF BootStep

-----------------------------------------------------------------------------
(***************************************************************************)
(* The lists of influencers.                                               *)
(***************************************************************************)
\* What populate-demo makes of the list it starts from.
Full == Initially \union {[id |-> i + 1, phone |-> Samples[i]] : i \in DOMAIN Samples}

LEMMA FullIs ==
  /\ Initially \subseteq Influencer /\ Full \subseteq Influencer
  /\ Initially # {} /\ Full # {}
  /\ \A x, y \in Full : x.id = y.id => x.phone = y.phone
<1>1. /\ DOMAIN Samples \subseteq Nat \ {0} /\ \A i \in DOMAIN Samples : Samples[i] \in Phones
      /\ First \in Phones
  BY SamplesAssumption
<1>2. /\ [id |-> 1, phone |-> First] \in Influencer
      /\ \A i \in DOMAIN Samples : [id |-> i + 1, phone |-> Samples[i]] \in Influencer
  BY <1>1 DEF Influencer
<1>3. \A x \in Full : \/ x = [id |-> 1, phone |-> First]
                      \/ \E i \in DOMAIN Samples : x = [id |-> i + 1, phone |-> Samples[i]]
  BY DEF Full, Initially
<1>4. ASSUME NEW x \in Full, NEW y \in Full, x.id = y.id PROVE x.phone = y.phone
  BY <1>1, <1>3, <1>4
<1> QED
  BY <1>2, <1>3, <1>4 DEF Full, Initially

LEMMA NoneMissing ==
  ASSUME NEW r, influencers[r] = Full
  PROVE  Missing(r) = {}
<1>1. SUFFICES ASSUME NEW i \in DOMAIN Samples PROVE \E x \in influencers[r] : x.phone = Samples[i]
  BY DEF Missing
<1>2. [id |-> i + 1, phone |-> Samples[i]] \in influencers[r]
  BY DEF Full
<1> QED
  BY <1>2

LEMMA IdsFollow ==
  ASSUME NEW r, influencers[r] = Initially
  PROVE  /\ Missing(r) = DOMAIN Samples
         /\ \A i \in DOMAIN Samples : NextId(r, i) = i + 1
<1>1. Missing(r) = DOMAIN Samples
  <2>1. \A i \in DOMAIN Samples : Samples[i] # First
    BY SamplesAssumption
  <2>2. \A x \in influencers[r] : x.phone = First
    BY DEF Initially
  <2> QED
    BY <2>1, <2>2 DEF Missing
<1>2. ASSUME NEW i \in DOMAIN Samples PROVE Cardinality({j \in Missing(r) : j <= i}) = i
  <2>1. DOMAIN Samples = 1 .. Len(Samples) /\ Len(Samples) \in Nat
    BY SamplesAssumption
  <2>2. i \in Nat /\ 1 \in Int /\ i \in Int /\ 1 <= i /\ i <= Len(Samples)
    BY <2>1
  <2>3. {j \in Missing(r) : j <= i} = 1 .. i
    BY <1>1, <2>1, <2>2
  <2>4. Cardinality(1 .. i) = i
    <3>1. Cardinality(1 .. i) = IF 1 > i THEN 0 ELSE i - 1 + 1
      BY <2>2, FS_Interval
    <3>2. ~(1 > i) /\ i - 1 + 1 = i
      BY <2>2
    <3> QED
      BY <3>1, <3>2
  <2> QED
    BY <2>3, <2>4
<1>3. {x.id : x \in influencers[r]} = {1}
  BY DEF Initially
<1>4. (CHOOSE n \in {x.id : x \in influencers[r]} : \A x \in influencers[r] : x.id <= n) = 1
  <2>1. \A x \in influencers[r] : x.id <= 1
    BY DEF Initially
  <2> QED
    BY <1>3, <2>1
<1>5. ASSUME NEW i \in DOMAIN Samples PROVE NextId(r, i) = 1 + i
  BY <1>2, <1>4 DEF NextId
<1>6. \A i \in DOMAIN Samples : 1 + i = i + 1
  BY SamplesAssumption
<1> QED
  BY <1>1, <1>5, <1>6

\* Every list is one of two, so an id says the same in all of them.
ListsHold ==
    /\ influencers \in [Replicas -> {Initially, Full}]
    /\ listed \subseteq Full

LEMMA Populated ==
  ASSUME ListsHold, NEW r \in Replicas, PopulateDemo(r)
  PROVE  ListsHold'
<1>1. influencers[r] \in {Initially, Full}
  BY DEF ListsHold
<1>2. influencers[r] \union {[id |-> NextId(r, i), phone |-> Samples[i]] : i \in Missing(r)} = Full
  <2>1. CASE influencers[r] = Initially
    BY <2>1, IdsFollow DEF Full
  <2>2. CASE influencers[r] = Full
    BY <2>2, NoneMissing
  <2> QED
    BY <1>1, <2>1, <2>2
<1>3. influencers' = [influencers EXCEPT ![r] = Full]
  BY <1>2 DEF PopulateDemo
<1>4. listed' = listed
  BY DEF PopulateDemo
<1> QED
  BY <1>3, <1>4 DEF ListsHold

-----------------------------------------------------------------------------
(***************************************************************************)
(* The demo accounts.  What is said of one list, for every replica.        *)
(***************************************************************************)
Namesakes(s) ==
    \A i, j \in DOMAIN s : i < j /\ s[i].email = s[j].email =>
      /\ \A k \in DOMAIN s : s[k].user_type = "admin" => j <= k
      /\ s[j].user_type = "admin" /\ s[j].seen = FALSE

UsersHold ==
    /\ users \in [Replicas -> Seq(User)]
    /\ \A r \in Replicas : Len(users[r]) <= MaxUsers /\ Namesakes(users[r])

LEMMA NamesakesIs ==
  ASSUME \A r \in Replicas : Namesakes(users[r])
  PROVE  NamesakeIsFirstAdmin
BY DEF Namesakes, NamesakeIsFirstAdmin, Admins

\* One list changes.
LEMMA ListReplaced ==
  ASSUME UsersHold, NEW r \in Replicas, NEW s \in Seq(User), Len(s) <= MaxUsers, Namesakes(s),
         users' = [users EXCEPT ![r] = s]
  PROVE  UsersHold'
<1>1. users' \in [Replicas -> Seq(User)]
  BY DEF UsersHold
<1>2. \A q \in Replicas : users'[q] = IF q = r THEN s ELSE users[q]
  BY DEF UsersHold
<1>3. \A q \in Replicas : Len(users'[q]) <= MaxUsers /\ Namesakes(users'[q])
  BY <1>2 DEF UsersHold
<1> QED
  BY <1>1, <1>3 DEF UsersHold, Namesakes

\* An account is added whose address is new, or which is the first
\* administrator.
LEMMA AccountAdded ==
  ASSUME UsersHold, NEW r \in Replicas, NEW e \in Spellings, NEW t \in UserTypes,
         AddUser(r, e, t), With(r, e) = {} \/ (t = "admin" /\ Admins(r) = {})
  PROVE  UsersHold'
<1> DEFINE s == users[r]
           u == [email |-> e, user_type |-> t, seen |-> FALSE]
           a == Append(s, u)
<1>1. s \in Seq(User) /\ Len(s) \in Nat /\ DOMAIN s = 1 .. Len(s) /\ Namesakes(s)
  BY DEF UsersHold
<1>2. u \in User
  BY DEF User
<1>3. a \in Seq(User) /\ Len(a) = Len(s) + 1
  BY <1>1, <1>2, AppendProperties
<1>4. /\ DOMAIN a = 1 .. Len(s) + 1
      /\ \A i \in 1 .. Len(s) : a[i] = s[i]
      /\ a[Len(s) + 1] = u
  BY <1>1, <1>2, <1>3, AppendProperties
<1>5. Len(a) <= MaxUsers
  BY <1>1, <1>3, MaxUsersAssumption DEF AddUser
<1>6. Namesakes(a)
  <2>1. SUFFICES ASSUME NEW i \in DOMAIN a, NEW j \in DOMAIN a, i < j, a[i].email = a[j].email
                 PROVE  /\ \A k \in DOMAIN a : a[k].user_type = "admin" => j <= k
                        /\ a[j].user_type = "admin" /\ a[j].seen = FALSE
    BY DEF Namesakes
  <2> HIDE DEF a
  <2>2. i \in 1 .. Len(s) /\ a[i] = s[i] /\ i \in DOMAIN s
    BY <1>1, <1>4, <2>1
  <2>3. CASE j \in 1 .. Len(s)
    <3>1. /\ \A k \in DOMAIN s : s[k].user_type = "admin" => j <= k
          /\ s[j].user_type = "admin" /\ s[j].seen = FALSE
      BY <1>1, <1>4, <2>1, <2>2, <2>3 DEF Namesakes
    <3>2. ASSUME NEW k \in DOMAIN a, a[k].user_type = "admin" PROVE j <= k
      <4>1. CASE k \in 1 .. Len(s)
        BY <1>1, <1>4, <3>1, <3>2, <4>1
      <4>2. CASE k = Len(s) + 1
        BY <1>1, <2>3, <4>2
      <4> QED
        BY <1>1, <1>4, <4>1, <4>2
    <3> QED
      BY <1>4, <2>3, <3>1, <3>2
  <2>4. CASE j = Len(s) + 1
    <3>1. s[i].email = e
      BY <1>4, <2>1, <2>2, <2>4
    <3>2. t = "admin" /\ Admins(r) = {}
      BY <2>2, <3>1 DEF With
    <3>3. \A k \in 1 .. Len(s) : s[k].user_type # "admin"
      BY <1>1, <3>2 DEF Admins
    <3>4. ASSUME NEW k \in DOMAIN a, a[k].user_type = "admin" PROVE j <= k
      BY <1>1, <1>4, <2>4, <3>3, <3>4
    <3> QED
      BY <1>4, <2>4, <3>2, <3>4
  <2>5. j \in 1 .. Len(s) \/ j = Len(s) + 1
    <3>1. j \in 1 .. Len(s) + 1
      BY <1>4
    <3> QED
      BY <1>1, <3>1
  <2> QED
    BY <2>3, <2>4, <2>5
<1>7. users' = [users EXCEPT ![r] = a]
  BY DEF AddUser
<1> HIDE DEF a
<1> QED
  BY <1>3, <1>5, <1>6, <1>7, ListReplaced

\* The first account of an address signs in.
LEMMA SignedIn ==
  ASSUME UsersHold, NEW r \in Replicas, NEW e, NEW i \in With(r, e),
         \A j \in With(r, e) : i <= j, users' = [users EXCEPT ![r][i].seen = TRUE]
  PROVE  UsersHold'
<1> DEFINE s == users[r]
           a == [s EXCEPT ![i].seen = TRUE]
<1>1. /\ s \in Seq(User) /\ Len(s) \in Nat /\ Len(s) <= MaxUsers /\ DOMAIN s = 1 .. Len(s)
      /\ Namesakes(s) /\ i \in DOMAIN s /\ s[i].email = e
  BY DEF UsersHold, With
<1>2. \A j \in DOMAIN s : s[j] \in User
  BY <1>1
<1>3. /\ DOMAIN a = 1 .. Len(s)
      /\ \A j \in DOMAIN s : a[j] = IF j = i THEN [s[j] EXCEPT !.seen = TRUE] ELSE s[j]
  BY <1>1
<1>4. \A j \in DOMAIN s : [s[j] EXCEPT !.seen = TRUE] \in User
  BY <1>2 DEF User
<1>5. a \in Seq(User) /\ Len(a) = Len(s)
  BY <1>1, <1>4, ExceptSeq
<1>6. \A j \in DOMAIN s : /\ a[j].email = s[j].email /\ a[j].user_type = s[j].user_type
                          /\ j # i => a[j].seen = s[j].seen
  BY <1>2, <1>3 DEF User
<1>7. users' = [users EXCEPT ![r] = a]
  OBVIOUS
<1> HIDE DEF a
<1>8. Namesakes(a)
  <2>1. SUFFICES ASSUME NEW h \in DOMAIN a, NEW j \in DOMAIN a, h < j, a[h].email = a[j].email
                 PROVE  /\ \A k \in DOMAIN a : a[k].user_type = "admin" => j <= k
                        /\ a[j].user_type = "admin" /\ a[j].seen = FALSE
    BY DEF Namesakes
  <2>2. DOMAIN a = DOMAIN s
    BY <1>1, <1>3
  <2>3. s[h].email = s[j].email
    BY <1>6, <2>1, <2>2
  <2>4. /\ \A k \in DOMAIN s : s[k].user_type = "admin" => j <= k
        /\ s[j].user_type = "admin" /\ s[j].seen = FALSE
    BY <1>1, <2>1, <2>2, <2>3 DEF Namesakes
  <2>5. ASSUME j = i PROVE FALSE
    <3>1. h \in With(r, e)
      BY <1>1, <2>2, <2>3, <2>5 DEF With
    <3>2. i <= h /\ h \in Nat /\ i \in Nat
      BY <1>1, <2>2, <3>1
    <3> QED
      BY <2>1, <2>5, <3>2
  <2>6. \A k \in DOMAIN a : a[k].user_type = "admin" => j <= k
    BY <1>6, <2>2, <2>4
  <2>7. a[j].user_type = "admin" /\ a[j].seen = FALSE
    BY <1>6, <2>2, <2>4, <2>5
  <2> QED
    BY <2>6, <2>7
<1> QED
  BY <1>1, <1>5, <1>7, <1>8, ListReplaced

-----------------------------------------------------------------------------
(***************************************************************************)
(* The steps, part by part.                                                *)
(***************************************************************************)
RestHolds ==
    /\ callback \in [Callbacks -> {"unsent", "sent", "failed", "acknowledged"}]
    /\ reply \in {"none", "200", "201", "409", "500"}

LEMMA BootKept ==
  ASSUME BootInv, [Next]_vars
  PROVE  BootInv'
<1>1. ASSUME UNCHANGED bootVars PROVE BootInv'
  BY <1>1 DEF bootVars, BootInv, BootTypeOK, ProcessHolds, Ends, ListFrom
<1>2. ASSUME NEW r \in Replicas, Boots(r) \/ Stops(r) PROVE BootInv'
  BY <1>2, BootHolds DEF Boots, Stops
<1>3. ASSUME NEW r \in Replicas, Serving(r) PROVE UNCHANGED bootVars
  BY <1>3 DEF Serving, ListInfluencers, CreateInfluencer, PopulateDemo, AdminCreate,
              SimpleRegister, SimpleLogin, CreateAdmin, AddUser, Answer, MpesaCallback
<1>4. ASSUME NEW c \in Callbacks, Send(c) PROVE UNCHANGED bootVars
  BY <1>4 DEF Send
<1>5. ASSUME UNCHANGED vars PROVE UNCHANGED bootVars
  BY <1>5 DEF vars
<1> QED
  BY <1>1, <1>2, <1>3, <1>4, <1>5 DEF Next, Steady

LEMMA ListsKept ==
  ASSUME ListsHold, [Next]_vars
  PROVE  ListsHold'
<1>1. ASSUME UNCHANGED <<influencers, listed>> PROVE ListsHold'
  BY <1>1 DEF ListsHold
<1>2. ASSUME NEW r \in Replicas, ListInfluencers(r) PROVE ListsHold'
  <2>1. influencers[r] \subseteq Full
    BY FullIs DEF ListsHold, Full
  <2> QED
    BY <1>2, <2>1 DEF ListInfluencers, ListsHold
<1>3. ASSUME NEW r \in Replicas, Stops(r) PROVE ListsHold'
  BY <1>3 DEF Stops, ListsHold
<1>4. ASSUME NEW r \in Replicas, Serving(r), ~ListInfluencers(r), ~PopulateDemo(r)
      PROVE  UNCHANGED <<influencers, listed>>
  BY <1>4 DEF Serving, CreateInfluencer, AdminCreate, SimpleRegister, SimpleLogin,
              CreateAdmin, AddUser, Answer, MpesaCallback
<1>5. ASSUME NEW r \in Replicas, Boots(r) PROVE UNCHANGED <<influencers, listed>>
  BY <1>5 DEF Boots
<1>6. ASSUME NEW c \in Callbacks, Send(c) PROVE UNCHANGED <<influencers, listed>>
  BY <1>6 DEF Send
<1>7. ASSUME UNCHANGED vars PROVE UNCHANGED <<influencers, listed>>
  BY <1>7 DEF vars
<1> QED
  BY <1>1, <1>2, <1>3, <1>4, <1>5, <1>6, <1>7, Populated DEF Next, Steady

LEMMA UsersKept ==
  ASSUME UsersHold, [Next]_vars
  PROVE  UsersHold'
<1>1. ASSUME UNCHANGED users PROVE UsersHold'
  BY <1>1 DEF UsersHold, Namesakes
<1>2. ASSUME NEW r \in Replicas, NEW s \in Spellings, NEW t \in UserTypes,
             SimpleRegister(r, s, t)
      PROVE  UsersHold'
  <2>1. Normal[s] \in Spellings
    BY NormalAssumption
  <2>2. CASE With(r, Normal[s]) = {} /\ AddUser(r, Normal[s], t)
    BY <2>1, <2>2, AccountAdded
  <2>3. CASE Answer("409")
    BY <1>1, <2>3 DEF Answer
  <2> QED
    BY <1>2, <2>2, <2>3 DEF SimpleRegister
<1>3. ASSUME NEW r \in Replicas, NEW s \in Spellings, SimpleLogin(r, s) PROVE UsersHold'
  <2>1. PICK i \in With(r, Normal[s]) :
          /\ \A j \in With(r, Normal[s]) : i <= j
          /\ users' = [users EXCEPT ![r][i].seen = TRUE]
    BY <1>3 DEF SimpleLogin
  <2> QED
    BY <2>1, SignedIn
<1>4. ASSUME NEW r \in Replicas, NEW s \in Spellings, CreateAdmin(r, s) PROVE UsersHold'
  <2>1. CASE Admins(r) = {} /\ AddUser(r, s, "admin")
    <3>1. "admin" \in UserTypes
      BY DEF UserTypes
    <3> QED
      BY <2>1, <3>1, AccountAdded
  <2>2. CASE Answer("200")
    BY <1>1, <2>2 DEF Answer
  <2> QED
    BY <1>4, <2>1, <2>2 DEF CreateAdmin
<1>5. ASSUME NEW r \in Replicas, Stops(r) PROVE UsersHold'
  <2>1. <<>> \in Seq(User) /\ Len(<<>>) <= MaxUsers /\ Namesakes(<<>>)
    BY MaxUsersAssumption DEF Namesakes
  <2>2. users' = [users EXCEPT ![r] = <<>>]
    BY <1>5 DEF Stops
  <2> QED
    BY <2>1, <2>2, ListReplaced
<1>6. ASSUME NEW r \in Replicas,
             \/ ListInfluencers(r) \/ CreateInfluencer(r) \/ PopulateDemo(r) \/ AdminCreate(r)
             \/ \E c \in Callbacks : MpesaCallback(r, c)
             \/ Boots(r)
      PROVE  UNCHANGED users
  BY <1>6 DEF ListInfluencers, CreateInfluencer, PopulateDemo, AdminCreate, MpesaCallback, Boots
<1>7. ASSUME NEW c \in Callbacks, Send(c) PROVE UNCHANGED users
  BY <1>7 DEF Send
<1>8. ASSUME UNCHANGED vars PROVE UNCHANGED users
  BY <1>8 DEF vars
<1> QED
  BY <1>1, <1>2, <1>3, <1>4, <1>5, <1>6, <1>7, <1>8 DEF Next, Steady, Serving

LEMMA RestKept ==
  ASSUME RestHolds, [Next]_vars
  PROVE  RestHolds'
<1>1. ASSUME UNCHANGED callback, reply' \in {reply, "200", "201", "409", "500"} PROVE RestHolds'
  BY <1>1 DEF RestHolds
<1>2. ASSUME NEW r \in Replicas, NEW c \in Callbacks, MpesaCallback(r, c) PROVE RestHolds'
  BY <1>2 DEF RestHolds, MpesaCallback
<1>3. ASSUME NEW c \in Callbacks, Send(c) PROVE RestHolds'
  BY <1>3 DEF RestHolds, Send
<1>4. ASSUME NEW r \in Replicas,
             \/ ListInfluencers(r) \/ CreateInfluencer(r) \/ PopulateDemo(r) \/ AdminCreate(r)
             \/ \E s \in Spellings, t \in UserTypes : SimpleRegister(r, s, t)
             \/ \E s \in Spellings : SimpleLogin(r, s) \/ CreateAdmin(r, s)
      PROVE  UNCHANGED callback /\ reply' \in {"200", "201", "409", "500"}
  BY <1>4 DEF ListInfluencers, CreateInfluencer, PopulateDemo, AdminCreate, SimpleRegister,
              SimpleLogin, CreateAdmin, AddUser, Answer
<1>5. ASSUME NEW r \in Replicas, Boots(r) \/ Stops(r) PROVE UNCHANGED <<callback, reply>>
  BY <1>5 DEF Boots, Stops
<1>6. ASSUME UNCHANGED vars PROVE UNCHANGED <<callback, reply>>
  BY <1>6 DEF vars
<1> QED
  BY <1>1, <1>2, <1>3, <1>4, <1>5, <1>6 DEF Next, Steady, Serving

-----------------------------------------------------------------------------
(***************************************************************************)
(* The theorems.                                                           *)
(***************************************************************************)
ServerInv == BootInv /\ ListsHold /\ UsersHold /\ RestHolds

\* The inductive invariant: how far each process has come says what it has
\* loaded and seen, each list is one of two, and each list of demo accounts
\* repeats an address for its first administrator at most.
THEOREM ServerInvariant == Spec => []ServerInv
<1>1. ASSUME Init PROVE ServerInv
  <2>1. BootInv
    <3>1. image \in Images /\ proc = [r \in Replicas |-> Down]
      BY <1>1 DEF Init, BootInit
    <3> QED
      BY <3>1, DownHolds DEF BootInv, BootTypeOK
  <2>2. ListsHold
    BY <1>1 DEF Init, ListsHold
  <2>3. UsersHold
    <3>1. users = [r \in Replicas |-> <<>>]
      BY <1>1 DEF Init
    <3>2. <<>> \in Seq(User) /\ Len(<<>>) <= MaxUsers /\ Namesakes(<<>>)
      BY MaxUsersAssumption DEF Namesakes
    <3> QED
      BY <3>1, <3>2 DEF UsersHold
  <2>4. RestHolds
    BY <1>1 DEF Init, RestHolds
  <2> QED
    BY <2>1, <2>2, <2>3, <2>4 DEF ServerInv
<1>2. ServerInv /\ [Next]_vars => ServerInv'
  BY BootKept, ListsKept, UsersKept, RestKept DEF ServerInv
<1> QED
  BY <1>1, <1>2, PTL DEF Spec

\* Every variable keeps its type; what populate-demo stores has ids.
THEOREM TypeCorrect == Spec => []TypeOK
<1>1. ASSUME ServerInv PROVE TypeOK
  <2>1. \A r \in Replicas : influencers[r] \in SUBSET Influencer /\ influencers[r] # {}
    BY <1>1, FullIs DEF ServerInv, ListsHold
  <2>2. influencers \in [Replicas -> SUBSET Influencer]
    BY <1>1, <2>1 DEF ServerInv, ListsHold
  <2>3. listed \subseteq Influencer
    BY <1>1, FullIs DEF ServerInv, ListsHold
  <2> QED
    BY <1>1, <2>1, <2>2, <2>3 DEF ServerInv, BootInv, UsersHold, RestHolds, TypeOK
<1> QED
  BY <1>1, ServerInvariant, PTL

\* Whichever imports fail, the public list and the administration endpoints
\* of a process that serves both work on one list.
THEOREM OneList == Spec => []SharedList
<1>1. ASSUME ServerInv PROVE SharedList
  <2>1. SUFFICES ASSUME NEW r \in Replicas,
                        Serves(r, "influencers_simple"), Serves(r, "admin_influencers")
                 PROVE  proc[r].list = "shared"
    BY DEF SharedList
  <2>2. "influencers_simple" \in proc[r].loaded /\ "admin_influencers" \in proc[r].loaded
    BY <2>1 DEF Serves
  <2>3. proc[r].list = ListFrom /\ Ends("admin_influencers") = "ok"
    BY <1>1, <2>2 DEF ServerInv, BootInv, ProcessHolds
  <2> QED
    BY <2>3 DEF ListFrom
<1> QED
  BY <1>1, ServerInvariant, PTL

\* No module that answers has missed the connection the process opened.
THEOREM NoneMissedMongo == Spec => []MongoSeen
<1>1. ASSUME ServerInv PROVE MongoSeen
  <2>1. SUFFICES ASSUME NEW r \in Replicas, NEW m \in MongoUsers, Serves(r, m)
                 PROVE  m \in proc[r].sees <=> proc[r].mongo
    BY DEF MongoSeen
  <2>2. m \in proc[r].loaded \intersect MongoUsers
    BY <2>1 DEF Serves
  <2> QED
    BY <1>1, <2>2 DEF ServerInv, BootInv, ProcessHolds
<1> QED
  BY <1>1, ServerInvariant, PTL

\* An id the list ever answered denotes one influencer, across processes,
\* restarts and calls of populate-demo.
THEOREM IdsAreStable == Spec => []InfluencerIdsStable
<1>1. ASSUME ServerInv PROVE InfluencerIdsStable
  BY <1>1, FullIs DEF ServerInv, ListsHold, InfluencerIdsStable
<1> QED
  BY <1>1, ServerInvariant, PTL

\* The lists that the processes hold now, and every list they answered, are
\* parts of one numbering: an id has one influencer and an influencer one id,
\* although each process numbers its own list, and again after a restart.
OneNumbering ==
    \A x, y \in listed \union UNION {influencers[r] : r \in Replicas} :
      x.id = y.id <=> x.phone = y.phone

LEMMA FullNumbers == \A x, y \in Full : x.id = y.id <=> x.phone = y.phone
<1>1. /\ \A x \in Full : \/ x.id = 1 /\ x.phone = First
                         \/ \E i \in DOMAIN Samples : x.id = i + 1 /\ x.phone = Samples[i]
      /\ DOMAIN Samples \subseteq Nat \ {0}
  BY SamplesAssumption DEF Full, Initially
<1> SUFFICES ASSUME NEW x \in Full, NEW y \in Full PROVE x.id = y.id <=> x.phone = y.phone
  OBVIOUS
<1>2. CASE x.id = 1 /\ x.phone = First
  BY <1>1, <1>2, SamplesAssumption
<1>3. ASSUME NEW i \in DOMAIN Samples, x.id = i + 1, x.phone = Samples[i]
      PROVE  x.id = y.id <=> x.phone = y.phone
  BY <1>1, <1>3, SamplesAssumption
<1> QED
  BY <1>1, <1>2, <1>3

\* populate-demo gives a process the ids it gives every other, and none twice.
THEOREM ReplicasNumberAlike == Spec => []OneNumbering
<1>1. ASSUME ServerInv PROVE OneNumbering
  <2>1. listed \union UNION {influencers[r] : r \in Replicas} \subseteq Full
    BY <1>1 DEF ServerInv, ListsHold, Full
  <2> QED
    BY <2>1, FullNumbers DEF OneNumbering
<1> QED
  BY <1>1, ServerInvariant, PTL

\* A demo account shares its address with an older one only if create-admin
\* made it, first of the administrators, and login has never reached it.
THEOREM NamesakesAreAdmins == Spec => []NamesakeIsFirstAdmin
<1>1. ASSUME ServerInv PROVE NamesakeIsFirstAdmin
  BY <1>1, NamesakesIs DEF ServerInv, UsersHold
<1> QED
  BY <1>1, ServerInvariant, PTL

-----------------------------------------------------------------------------
(***************************************************************************)
(* What a process serves is settled by its build and by how far it has     *)
(* come, whatever MongoDB did meanwhile.                                   *)
(***************************************************************************)
\* What the imports among the first n - 1 steps of create_app() load.
LoadedBefore ==
    [n \in 0 .. 12 |->
       UNION {Loads(Steps[i]) : i \in {j \in DOMAIN Steps : j < n /\ Steps[j] \in Modules}}]

AsBuilt(p) ==
    /\ p.loaded = LoadedBefore[p.next]
    /\ p.list = IF "influencers_simple" \in p.loaded THEN ListFrom ELSE "none"
    /\ "api_bp" \in p.serves <=> p.next > 10
    /\ "webhooks" \in p.serves <=> "webhooks" \in p.loaded

BuiltInv == \A r \in Replicas : AsBuilt(proc[r])

LEMMA StepsAre ==
  /\ \A i \in DOMAIN Steps : Steps[i] = "api_bp" <=> i = 10
  /\ \A i \in DOMAIN Steps : i \notin {1, 10} => Steps[i] \in Modules
  /\ "init_mongodb" \notin Modules /\ "api_bp" \notin Modules
<1>1. \A i \in 1 .. 8 : Routes[i] \in Modules /\ Routes[i] \notin {"init_mongodb", "api_bp"}
  BY DEF Routes, Modules
<1>2. Steps[1] = "init_mongodb" /\ Steps[10] = "api_bp" /\ Steps[11] = "webhooks"
  BY DEF Steps, Routes
<1>3. \A i \in 2 .. 9 : Steps[i] = Routes[i - 1]
  BY DEF Steps, Routes
<1>4. "init_mongodb" \notin Modules /\ "api_bp" \notin Modules /\ "webhooks" \in Modules
  BY DEF Modules, Routes
<1>5. ASSUME NEW i \in 2 .. 9 PROVE Steps[i] \in Modules /\ Steps[i] # "api_bp"
  <2>1. i - 1 \in 1 .. 8
    OBVIOUS
  <2> QED
    BY <1>1, <1>3, <2>1
<1>6. DOMAIN Steps = 1 .. 11
  BY StepsOrder
<1>7. \A i \in 1 .. 11 : i \in {1, 10, 11} \/ i \in 2 .. 9
  OBVIOUS
<1> QED
  BY <1>2, <1>4, <1>5, <1>6, <1>7

LEMMA LoadedFirst == LoadedBefore[0] = {} /\ LoadedBefore[1] = {}
<1>1. \A n \in {0, 1} : {j \in DOMAIN Steps : j < n /\ Steps[j] \in Modules} = {}
  BY StepsOrder
<1> QED
  BY <1>1 DEF LoadedBefore

LEMMA LoadedNext ==
  ASSUME NEW n \in 1 .. 11
  PROVE  /\ Steps[n] \in Modules =>
              LoadedBefore[n + 1] = LoadedBefore[n] \union Loads(Steps[n])
         /\ Steps[n] \notin Modules => LoadedBefore[n + 1] = LoadedBefore[n]
<1> DEFINE Done(k) == {j \in DOMAIN Steps : j < k /\ Steps[j] \in Modules}
<1>1. n \in 0 .. 12 /\ n + 1 \in 0 .. 12 /\ n \in DOMAIN Steps
  BY StepsOrder
<1>2. /\ LoadedBefore[n] = UNION {Loads(Steps[i]) : i \in Done(n)}
      /\ LoadedBefore[n + 1] = UNION {Loads(Steps[i]) : i \in Done(n + 1)}
  BY <1>1 DEF LoadedBefore
<1>3. \A j \in DOMAIN Steps : j < n + 1 <=> j < n \/ j = n
  BY StepsOrder
<1>4. Steps[n] \in Modules => Done(n + 1) = Done(n) \union {n}
  BY <1>1, <1>3
<1>5. Steps[n] \notin Modules => Done(n + 1) = Done(n)
  BY <1>3
<1> HIDE DEF Done
<1> QED
  BY <1>2, <1>4, <1>5

LEMMA BuildKept ==
  ASSUME image' = image
  PROVE  LoadedBefore' = LoadedBefore /\ ListFrom' = ListFrom
<1>1. \A m : Loads(m)' = Loads(m)
  BY DEF Loads, Ends, Needs, ListFrom
<1>2. ListFrom' = ListFrom
  BY DEF ListFrom, Ends
<1> QED
  BY <1>1, <1>2 DEF LoadedBefore

LEMMA BecomesBuilt ==
  ASSUME BootInv, BuiltInv, NEW r \in Replicas, NEW p \in Process, Becomes(r, p), AsBuilt(p)
  PROVE  BuiltInv'
<1>1. proc \in [Replicas -> Process]
  BY DEF BootInv, BootTypeOK
<1>2. image' = image /\ \A q \in Replicas : proc'[q] = IF q = r THEN p ELSE proc[q]
  BY <1>1 DEF Becomes
<1>3. \A q \in Replicas : AsBuilt(proc'[q])
  BY <1>2 DEF BuiltInv
<1>4. LoadedBefore' = LoadedBefore /\ ListFrom' = ListFrom
  BY <1>2, BuildKept
<1>5. \A q \in Replicas : AsBuilt(proc[q])'
  BY <1>3, <1>4 DEF AsBuilt
<1> QED
  BY <1>5 DEF BuiltInv

\* Webhooks are registered by the step that imports them, and by no other.
LEMMA LoadsWebhooks ==
  ASSUME NEW m
  PROVE  "webhooks" \in Loads(m) => m = "webhooks"
BY DEF Loads, Needs

LEMMA ImportBuilt ==
  ASSUME BootInv, BuiltInv, NEW r \in Replicas, NEW i \in DOMAIN Steps,
         proc[r].next = i, Steps[i] \in Modules, Import(r, Steps[i]), image' = image
  PROVE  BuiltInv'
<1> DEFINE m == Steps[i]
<1>1. PICK p \in Process :
           /\ Becomes(r, p)
           /\ p.next = proc[r].next + 1
           /\ p.mongo = proc[r].mongo
           /\ p.loaded = proc[r].loaded \union Loads(m)
           /\ p.sees = proc[r].sees \union
                (IF proc[r].mongo THEN (Loads(m) \ proc[r].loaded) \intersect MongoUsers ELSE {})
           /\ p.list = IF "influencers_simple" \in Loads(m) \ proc[r].loaded
                       THEN ListFrom ELSE proc[r].list
           /\ p.serves = IF m = "webhooks" /\ m \in Loads(m) \ proc[r].loaded
                         THEN proc[r].serves \union {m} ELSE proc[r].serves
  BY Imported DEF BootInv
<1>2. AsBuilt(proc[r])
  BY DEF BuiltInv
<1>3. i \in 1 .. 11 /\ i # 10
  BY StepsOrder, StepsAre
<1>4. p.loaded = LoadedBefore[p.next]
  <2>1. LoadedBefore[i + 1] = LoadedBefore[i] \union Loads(m)
    BY <1>3, LoadedNext
  <2>2. proc[r].loaded = LoadedBefore[i]
    BY <1>2 DEF AsBuilt
  <2> QED
    BY <1>1, <2>1, <2>2
<1>5. p.list = IF "influencers_simple" \in p.loaded THEN ListFrom ELSE "none"
  BY <1>1, <1>2 DEF AsBuilt
<1>6. "api_bp" \in p.serves <=> p.next > 10
  <2>1. "api_bp" \in p.serves <=> "api_bp" \in proc[r].serves
    BY <1>1
  <2>2. i > 10 <=> i + 1 > 10
    BY <1>3
  <2> QED
    BY <1>1, <1>2, <2>1, <2>2 DEF AsBuilt
<1>7. "webhooks" \in p.serves <=> "webhooks" \in p.loaded
  BY <1>1, <1>2, LoadsWebhooks DEF AsBuilt
<1> QED
  BY <1>1, <1>4, <1>5, <1>6, <1>7, BecomesBuilt DEF AsBuilt

LEMMA BuiltStep ==
  ASSUME BootInv, BuiltInv, NEW r \in Replicas, BootStep(r) \/ End(r)
  PROVE  BuiltInv'
<1>1. proc \in [Replicas -> Process] /\ proc[r] \in Process /\ AsBuilt(proc[r])
  BY DEF BootInv, BootTypeOK, BuiltInv
<1>2. CASE Start(r)
  <2> DEFINE p == [proc[r] EXCEPT !.next = 1]
  <2>1. /\ p \in Process /\ p.next = 1 /\ p.loaded = proc[r].loaded
        /\ p.list = proc[r].list /\ p.serves = proc[r].serves
    BY <1>1, ProcessIs
  <2>2. proc[r].next = 0 /\ Becomes(r, p)
    BY <1>1, <1>2 DEF Start, Becomes, Process
  <2> HIDE DEF p
  <2>3. AsBuilt(p)
    BY <1>1, <2>1, <2>2, LoadedFirst DEF AsBuilt
  <2> QED
    BY <2>1, <2>2, <2>3, BecomesBuilt
<1>3. CASE InitMongodb(r)
  <2>1. PICK usable \in BOOLEAN :
          proc' = [proc EXCEPT ![r].next = @ + 1, ![r].mongo = usable]
    BY <1>3 DEF InitMongodb
  <2> DEFINE p == [proc[r] EXCEPT !.next = proc[r].next + 1, !.mongo = usable]
  <2>2. proc[r].next = 1
    BY <1>3, StepsOrder DEF InitMongodb, At
  <2>3. p \in Process
    <3>1. proc[r].next + 1 \in 0 .. 12
      BY <2>2
    <3> QED
      BY <1>1, <3>1, AProcess
  <2>4. Becomes(r, p)
    BY <1>1, <1>3, <2>1 DEF InitMongodb, Becomes, Process
  <2>5. /\ p.next = 2 /\ p.loaded = proc[r].loaded
        /\ p.list = proc[r].list /\ p.serves = proc[r].serves
    BY <1>1, <2>2 DEF Process
  <2> HIDE DEF p
  <2>6. LoadedBefore[2] = LoadedBefore[1]
    BY LoadedNext, StepsOrder, StepsAre
  <2>7. AsBuilt(p)
    BY <1>1, <2>2, <2>5, <2>6 DEF AsBuilt
  <2> QED
    BY <2>3, <2>4, <2>7, BecomesBuilt
<1>4. CASE ImportRoutes(r)
  <2>1. PICK i \in DOMAIN Routes : At(r, Routes[i]) /\ Import(r, Routes[i])
    BY <1>4 DEF ImportRoutes
  <2>2. Routes[i] \in Modules
    BY DEF Modules
  <2> QED
    BY <1>4, <2>1, <2>2, ImportBuilt DEF At, ImportRoutes
<1>5. CASE RegisterApi(r)
  <2> DEFINE p == [proc[r] EXCEPT !.next = proc[r].next + 1,
                                !.serves = proc[r].serves \union {"api_bp"}]
  <2>1. proc[r].next = 10
    BY <1>5, StepsAre DEF RegisterApi, At
  <2>2. /\ proc[r].next + 1 \in 0 .. 12
        /\ proc[r].serves \union {"api_bp"} \in SUBSET {"api_bp", "webhooks"}
    BY <1>1, <2>1 DEF Process
  <2>3. p \in Process
    BY <1>1, <2>2, AProcess
  <2>4. Becomes(r, p)
    BY <1>1, <1>5 DEF RegisterApi, Becomes, Process
  <2>5. /\ p.next = 11 /\ p.loaded = proc[r].loaded /\ p.list = proc[r].list
        /\ p.serves = proc[r].serves \union {"api_bp"}
    BY <1>1, <2>1 DEF Process
  <2> HIDE DEF p
  <2>6. LoadedBefore[11] = LoadedBefore[10]
    BY LoadedNext, StepsOrder, StepsAre
  <2>7. AsBuilt(p)
    BY <1>1, <2>1, <2>5, <2>6 DEF AsBuilt
  <2> QED
    BY <2>3, <2>4, <2>7, BecomesBuilt
<1>6. CASE RegisterWebhooks(r)
  <2>1. "webhooks" \in Modules
    BY DEF Modules
  <2> QED
    BY <1>6, <2>1, ImportBuilt DEF At, RegisterWebhooks
<1>7. CASE End(r)
  <2>1. Down \in Process /\ Becomes(r, Down)
    BY <1>1, <1>7, DownHolds DEF End, Becomes
  <2>2. AsBuilt(Down)
    BY LoadedFirst DEF AsBuilt, Down
  <2> QED
    BY <2>1, <2>2, BecomesBuilt
<1> QED
  BY <1>2, <1>3, <1>4, <1>5, <1>6, <1>7 DEF BootStep

LEMMA BuiltKept ==
  ASSUME BootInv, BuiltInv, [Next]_vars
  PROVE  BuiltInv'
<1>1. ASSUME UNCHANGED bootVars PROVE BuiltInv'
  <2>1. LoadedBefore' = LoadedBefore /\ ListFrom' = ListFrom /\ proc' = proc
    BY <1>1, BuildKept DEF bootVars
  <2> QED
    BY <2>1 DEF BuiltInv, AsBuilt
<1>2. ASSUME NEW r \in Replicas, Boots(r) \/ Stops(r) PROVE BuiltInv'
  BY <1>2, BuiltStep DEF Boots, Stops
<1>3. ASSUME NEW r \in Replicas, Serving(r) PROVE UNCHANGED bootVars
  BY <1>3 DEF Serving, ListInfluencers, CreateInfluencer, PopulateDemo, AdminCreate,
              SimpleRegister, SimpleLogin, CreateAdmin, AddUser, Answer, MpesaCallback
<1>4. ASSUME NEW c \in Callbacks, Send(c) PROVE UNCHANGED bootVars
  BY <1>4 DEF Send
<1>5. ASSUME UNCHANGED vars PROVE UNCHANGED bootVars
  BY <1>5 DEF vars
<1> QED
  BY <1>1, <1>2, <1>3, <1>4, <1>5 DEF Next, Steady

\* What a process has loaded, registered and chosen as its list is a function
\* of the build and of the step it is at; MongoDB has no say in it.
THEOREM BuildsDecide == Spec => []BuiltInv
<1>1. ASSUME Init PROVE BuiltInv
  <2>1. proc = [r \in Replicas |-> Down]
    BY <1>1 DEF Init, BootInit
  <2>2. AsBuilt(Down)
    BY LoadedFirst DEF AsBuilt, Down
  <2> QED
    BY <2>1, <2>2 DEF BuiltInv
<1>2. ServerInv /\ BuiltInv /\ [Next]_vars => BuiltInv'
  BY BuiltKept DEF ServerInv
<1> QED
  BY <1>1, <1>2, ServerInvariant, PTL DEF Spec

\* Processes that are up answer the same requests, and their lists of
\* influencers are of the same kind: the load balancer may pick either.
ReplicasAgree ==
    \A r, q \in Replicas :
      Up(r) /\ Up(q) =>
        /\ \A m \in Modules : Serves(r, m) <=> Serves(q, m)
        /\ proc[r].list = proc[q].list

THEOREM ReplicasServeAlike == Spec => []ReplicasAgree
<1>1. ASSUME ServerInv, BuiltInv PROVE ReplicasAgree
  <2>1. SUFFICES ASSUME NEW r \in Replicas, NEW q \in Replicas, Up(r), Up(q)
                 PROVE  /\ \A m \in Modules : Serves(r, m) <=> Serves(q, m)
                        /\ proc[r].list = proc[q].list
    BY DEF ReplicasAgree
  <2>2. AsBuilt(proc[r]) /\ AsBuilt(proc[q]) /\ proc[r].next = proc[q].next
    BY <1>1, <2>1 DEF BuiltInv, Up
  <2>3. /\ proc[r].loaded = proc[q].loaded /\ proc[r].list = proc[q].list
        /\ "api_bp" \in proc[r].serves <=> "api_bp" \in proc[q].serves
        /\ "webhooks" \in proc[r].serves <=> "webhooks" \in proc[q].serves
    BY <2>2 DEF AsBuilt
  <2> QED
    BY <2>1, <2>3 DEF Serves
<1> QED
  BY <1>1, ServerInvariant, BuildsDecide, PTL

LEMMA LoadsSound ==
  ASSUME NEW n \in Modules, NEW m \in Loads(n)
  PROVE  image[m] = "ok" /\ \A k \in Needs(m) : k \in Loads(n)
<1>1. \A k : Ends(k) = "ok" => image[k] = "ok" /\ (Needs(k) # {} => image["auth"] = "ok")
  BY DEF Ends
<1>2. \A k : Needs(k) \in {{}, {"auth"}}
  BY DEF Needs
<1>3. Needs("auth") = {} /\ Needs("influencers_simple") = {}
      /\ Needs("admin_influencers") = {"auth"}
  BY DEF Needs
<1>4. CASE n # "influencers_simple"
  <2>1. Ends(n) = "ok" /\ Loads(n) = {n} \union Needs(n)
    BY <1>4 DEF Loads
  <2>2. image[n] = "ok" /\ (Needs(n) # {} => image["auth"] = "ok")
    BY <1>1, <2>1
  <2>3. CASE m = n
    BY <2>1, <2>2, <2>3
  <2>4. CASE m \in Needs(n)
    BY <1>2, <1>3, <2>2, <2>4
  <2> QED
    BY <2>1, <2>3, <2>4
<1>5. CASE n = "influencers_simple"
  <2>1. image[n] = "ok"
    BY <1>5 DEF Loads
  <2>2. \/ Loads(n) = {n}
        \/ /\ Ends("admin_influencers") = "ok"
           /\ Loads(n) = {n, "admin_influencers", "auth"}
    BY <1>5 DEF Loads, ListFrom
  <2>3. CASE Loads(n) = {n}
    BY <1>3, <1>5, <2>1, <2>3
  <2>4. CASE /\ Ends("admin_influencers") = "ok"
             /\ Loads(n) = {n, "admin_influencers", "auth"}
    <3>1. image["admin_influencers"] = "ok" /\ image["auth"] = "ok"
      BY <1>1, <1>3, <2>4
    <3> QED
      BY <1>3, <1>5, <2>1, <2>4, <3>1
  <2> QED
    BY <2>2, <2>3, <2>4
<1> QED
  BY <1>4, <1>5

\* Whichever imports fail, an endpoint that answers has its file and its
\* decorators: what is loaded is what the build can load to the end.
THEOREM AnswersAreNotPartial == Spec => []AnswersAreWhole
<1>1. ASSUME ServerInv, BuiltInv PROVE AnswersAreWhole
  <2>1. SUFFICES ASSUME NEW r \in Replicas, NEW m \in Modules, Serves(r, m)
                 PROVE  /\ image[m] = "ok" /\ m # "admin_setup"
                        /\ \A n \in Needs(m) : Serves(r, n)
    BY DEF AnswersAreWhole
  <2>2. proc[r].loaded = LoadedBefore[12] /\ m \in proc[r].loaded /\ Up(r)
    BY <1>1, <2>1, StepsOrder DEF BuiltInv, AsBuilt, Serves, Up
  <2>3. PICK i \in DOMAIN Steps : Steps[i] \in Modules /\ m \in Loads(Steps[i])
    BY <2>2 DEF LoadedBefore
  <2>4. Loads(Steps[i]) \subseteq proc[r].loaded
    <3>1. i < 12
      BY StepsOrder
    <3> QED
      BY <2>2, <2>3, <3>1 DEF LoadedBefore
  <2>5. image[m] = "ok" /\ \A k \in Needs(m) : k \in proc[r].loaded
    BY <2>3, <2>4, LoadsSound
  <2>6. m # "admin_setup"
    BY <1>1, <2>5, ImagesAssumption DEF ServerInv, BootInv, BootTypeOK
  <2>7. ASSUME NEW k \in Needs(m) PROVE Serves(r, k)
    <3>1. k = "auth" /\ m \in {"admin", "admin_influencers"}
      BY <2>7 DEF Needs
    <3>2. "api_bp" \in proc[r].serves
      BY <2>1, <3>1 DEF Serves
    <3> QED
      BY <2>2, <2>5, <2>7, <3>1, <3>2 DEF Serves
  <2> QED
    BY <2>5, <2>6, <2>7
<1> QED
  BY <1>1, ServerInvariant, BuildsDecide, PTL

\* A callback is acknowledged only by a process that never opened the
\* database, which therefore cannot have stored it; the others raise.
AcknowledgedWithoutMongo ==
    [][ \A c \in Callbacks :
          callback[c] # "acknowledged" /\ callback'[c] = "acknowledged" =>
            \E r \in Replicas : Serves(r, "webhooks") /\ ~proc[r].mongo ]_vars

THEOREM AcknowledgedOnlyWithoutMongo == Spec => AcknowledgedWithoutMongo
<1>1. ASSUME ServerInv, [Next]_vars, NEW c \in Callbacks,
             callback[c] # "acknowledged", callback'[c] = "acknowledged"
      PROVE  \E r \in Replicas : Serves(r, "webhooks") /\ ~proc[r].mongo
  <2>1. callback \in [Callbacks -> {"unsent", "sent", "failed", "acknowledged"}]
    BY <1>1 DEF ServerInv, RestHolds
  <2>2. ASSUME NEW r \in Replicas, NEW d \in Callbacks, MpesaCallback(r, d)
        PROVE  Serves(r, "webhooks") /\ ~proc[r].mongo
    <3>1. Serves(r, "webhooks") /\ "webhooks" \notin proc[r].sees
      BY <1>1, <2>1, <2>2 DEF MpesaCallback
    <3>2. "webhooks" \in proc[r].loaded \intersect MongoUsers
      BY <3>1 DEF Serves, MongoUsers
    <3> QED
      BY <1>1, <3>1, <3>2 DEF ServerInv, BootInv, ProcessHolds
  <2>3. ASSUME NEW d \in Callbacks, Send(d) PROVE FALSE
    BY <1>1, <2>1, <2>3 DEF Send
  <2>4. ASSUME NEW r \in Replicas,
               \/ ListInfluencers(r) \/ CreateInfluencer(r) \/ PopulateDemo(r) \/ AdminCreate(r)
               \/ \E s \in Spellings, t \in UserTypes : SimpleRegister(r, s, t)
               \/ \E s \in Spellings : SimpleLogin(r, s) \/ CreateAdmin(r, s)
               \/ Boots(r) \/ Stops(r)
        PROVE  UNCHANGED callback
    BY <2>4 DEF ListInfluencers, CreateInfluencer, PopulateDemo, AdminCreate, SimpleRegister,
                SimpleLogin, CreateAdmin, AddUser, Answer, Boots, Stops
  <2>5. ASSUME UNCHANGED vars PROVE UNCHANGED callback
    BY <2>5 DEF vars
  <2> QED
    BY <1>1, <2>2, <2>3, <2>4, <2>5 DEF Next, Steady, Serving
<1>2. ServerInv /\ [Next]_vars
      => [ \A c \in Callbacks :
             callback[c] # "acknowledged" /\ callback'[c] = "acknowledged" =>
               \E r \in Replicas : Serves(r, "webhooks") /\ ~proc[r].mongo ]_vars
  BY <1>1
<1> QED
  BY <1>2, ServerInvariant, PTL DEF Spec, AcknowledgedWithoutMongo
=============================================================================
