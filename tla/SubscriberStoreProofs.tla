------------------------ MODULE SubscriberStoreProofs -----------------------
(***************************************************************************)
(* Theorems about SubscriberStore, for any samples and bounds.             *)
(***************************************************************************)
EXTENDS SubscriberStore, SequenceTheorems, FiniteSetTheorems, TLAPS

-----------------------------------------------------------------------------
(***************************************************************************)
(* What each operation makes of the list, position by position.            *)
(***************************************************************************)
LEMMA AppendedEntry ==
  ASSUME TypeOK, NEW d \in Subscription, subs' = Append(subs, d)
  PROVE  /\ subs' \in Seq(Subscription)
         /\ DOMAIN subs = 1 .. Len(subs) /\ Len(subs) \in Nat
         /\ DOMAIN subs' = 1 .. Len(subs) + 1 /\ Len(subs') = Len(subs) + 1
         /\ \A i \in DOMAIN subs : subs'[i] = subs[i]
         /\ subs'[Len(subs) + 1] = d
BY LenProperties DEF TypeOK

LEMMA Entries ==
  ASSUME TypeOK
  PROVE  /\ DOMAIN subs = 1 .. Len(subs) /\ Len(subs) \in Nat
         /\ \A i \in DOMAIN subs : subs[i] \in Subscription
         /\ \A i \in DOMAIN subs : subs[i].id \in Nat /\ subs[i].serial \in Nat
<1>1. DOMAIN subs = 1 .. Len(subs) /\ Len(subs) \in Nat
  BY LenProperties DEF TypeOK
<1>2. \A i \in DOMAIN subs : subs[i] \in Subscription
  BY <1>1, ElementOfSeq DEF TypeOK
<1> QED
  BY <1>1, <1>2 DEF Subscription

LEMMA ReplacedEntry ==
  ASSUME NEW s \in Seq(Subscription), NEW i \in 1 .. Len(s), NEW d \in Subscription
  PROVE  /\ [s EXCEPT ![i] = d] \in Seq(Subscription)
         /\ Len([s EXCEPT ![i] = d]) = Len(s)
         /\ \A j \in 1 .. Len(s) : [s EXCEPT ![i] = d][j] = IF j = i THEN d ELSE s[j]
BY ExceptSeq

LEMMA UpdatedEntry ==
  ASSUME TypeOK, NEW i \in DOMAIN subs, NEW a \in Amounts, NEW q \in Frequencies,
         NEW v \in BOOLEAN,
         subs' = [subs EXCEPT ![i].amount = a, ![i].frequency = q, ![i].is_active = v]
  PROVE  /\ subs' \in Seq(Subscription)
         /\ DOMAIN subs = 1 .. Len(subs) /\ Len(subs) \in Nat
         /\ DOMAIN subs' = DOMAIN subs /\ Len(subs') = Len(subs)
         /\ \A j \in DOMAIN subs : /\ subs'[j].id = subs[j].id
                                   /\ subs'[j].serial = subs[j].serial
                                   /\ subs'[j].demo = subs[j].demo
                                   /\ j # i => subs'[j] = subs[j]
<1> DEFINE d == [subs[i] EXCEPT !.amount = a, !.frequency = q, !.is_active = v]
<1>1. DOMAIN subs = 1 .. Len(subs) /\ Len(subs) \in Nat
  BY LenProperties DEF TypeOK
<1>2. subs[i] \in Subscription
  BY <1>1, ElementOfSeq DEF TypeOK
<1>3. d \in Subscription /\ d.id = subs[i].id /\ d.serial = subs[i].serial
                         /\ d.demo = subs[i].demo
  BY <1>2 DEF Subscription
<1>4. subs' = [subs EXCEPT ![i] = d]
  BY <1>1, <1>2, LenProperties DEF TypeOK, Subscription
<1> HIDE DEF d
<1>5. /\ subs' \in Seq(Subscription)
      /\ Len(subs') = Len(subs)
      /\ \A j \in 1 .. Len(subs) : subs'[j] = IF j = i THEN d ELSE subs[j]
  <2>1. subs \in Seq(Subscription) /\ i \in 1 .. Len(subs)
    BY <1>1 DEF TypeOK
  <2> QED
    BY <1>3, <1>4, <2>1, ReplacedEntry
<1>6. DOMAIN subs' = DOMAIN subs
  BY <1>1, <1>5, LenProperties
<1> QED
  BY <1>1, <1>3, <1>5, <1>6

\* Deletion shifts the entries behind it by one position.
LEMMA RemovedEntry ==
  ASSUME TypeOK, NEW i \in DOMAIN subs, subs' = RemoveAt(subs, i)
  PROVE  /\ subs' \in Seq(Subscription)
         /\ DOMAIN subs = 1 .. Len(subs) /\ Len(subs) \in Nat
         /\ DOMAIN subs' = 1 .. Len(subs) - 1 /\ Len(subs') = Len(subs) - 1
         /\ \A j \in DOMAIN subs' : subs'[j] = IF j < i THEN subs[j] ELSE subs[j + 1]
<1>1. DOMAIN subs = 1 .. Len(subs) /\ Len(subs) \in Nat /\ i \in 1 .. Len(subs)
  BY LenProperties DEF TypeOK
<1> DEFINE s1 == SubSeq(subs, 1, i - 1)
           s2 == SubSeq(subs, i + 1, Len(subs))
<1>2. \A j \in 1 .. Len(subs) : subs[j] \in Subscription
  BY ElementOfSeq DEF TypeOK
<1>3. /\ s1 \in Seq(Subscription) /\ Len(s1) = i - 1
      /\ \A j \in 1 .. i - 1 : s1[j] = subs[j]
  BY <1>1, <1>2, SubSeqProperties
<1>4. /\ s2 \in Seq(Subscription) /\ Len(s2) = Len(subs) - i
      /\ \A j \in 1 .. Len(subs) - i : s2[j] = subs[i + j]
  BY <1>1, <1>2, SubSeqProperties
<1>5. subs' = s1 \o s2
  BY DEF RemoveAt
<1> HIDE DEF s1, s2
<1>6. /\ subs' \in Seq(Subscription) /\ Len(subs') = Len(subs) - 1
      /\ \A j \in 1 .. Len(subs) - 1 :
           subs'[j] = IF j <= i - 1 THEN s1[j] ELSE s2[j - (i - 1)]
  <2>1. /\ s1 \o s2 \in Seq(Subscription)
        /\ Len(s1 \o s2) = Len(s1) + Len(s2)
        /\ \A j \in 1 .. Len(s1) + Len(s2) :
             (s1 \o s2)[j] = IF j <= Len(s1) THEN s1[j] ELSE s2[j - Len(s1)]
    BY <1>3, <1>4, ConcatProperties
  <2>2. Len(s1) = i - 1 /\ Len(s1) + Len(s2) = Len(subs) - 1
    BY <1>1, <1>3, <1>4
  <2> QED
    BY <1>5, <2>1, <2>2
<1>7. DOMAIN subs' = 1 .. Len(subs) - 1
  BY <1>6, LenProperties
<1>8. ASSUME NEW j \in DOMAIN subs'
      PROVE  subs'[j] = IF j < i THEN subs[j] ELSE subs[j + 1]
  <2>1. CASE j < i
    BY <1>1, <1>3, <1>6, <1>7, <2>1
  <2>2. CASE ~(j < i)
    <3>1. j - (i - 1) \in 1 .. Len(subs) - i /\ i + (j - (i - 1)) = j + 1
      BY <1>1, <1>7, <2>2
    <3>2. subs'[j] = s2[j - (i - 1)]
      BY <1>1, <1>6, <1>7, <2>2
    <3> QED
      BY <1>4, <2>2, <3>1, <3>2
  <2> QED
    BY <2>1, <2>2
<1> QED
  BY <1>1, <1>6, <1>7, <1>8

LEMMA AppendedDemo ==
  ASSUME TypeOK, NEW m \in Nat, subs' = subs \o DemoEntries(m)
  PROVE  /\ subs' \in Seq(Subscription)
         /\ DOMAIN subs = 1 .. Len(subs) /\ Len(subs) \in Nat /\ Len(Demo) \in Nat
         /\ DOMAIN subs' = 1 .. Len(subs) + Len(Demo)
         /\ Len(subs') = Len(subs) + Len(Demo)
         /\ \A i \in DOMAIN subs : subs'[i] = subs[i]
         /\ \A i \in DOMAIN subs' \ DOMAIN subs :
              /\ subs'[i].id = m + (i - Len(subs))
              /\ subs'[i].serial = serial + (i - Len(subs))
              /\ subs'[i].demo
<1>1. /\ DOMAIN subs = 1 .. Len(subs) /\ Len(subs) \in Nat
      /\ DOMAIN Demo = 1 .. Len(Demo) /\ Len(Demo) \in Nat
  BY LenProperties, DemoAssumption DEF TypeOK
<1>2. \A j \in 1 .. Len(Demo) : Demo[j] \in Sample
  BY DemoAssumption, ElementOfSeq
<1> DEFINE s == DemoEntries(m)
<1>3. /\ DOMAIN s = 1 .. Len(Demo)
      /\ \A j \in 1 .. Len(Demo) : /\ s[j] \in Subscription
                                   /\ s[j].id = m + j
                                   /\ s[j].serial = serial + j
                                   /\ s[j].demo
  BY <1>1, <1>2 DEF DemoEntries, Sample, Subscription, TypeOK
<1>4. s \in Seq(Subscription) /\ Len(s) = Len(Demo)
  BY <1>1, <1>3 DEF DemoEntries
<1> HIDE DEF s
<1>5. /\ subs' \in Seq(Subscription)
      /\ Len(subs') = Len(subs) + Len(Demo)
      /\ \A i \in 1 .. Len(subs) + Len(Demo) :
           subs'[i] = IF i <= Len(subs) THEN subs[i] ELSE s[i - Len(subs)]
  BY <1>4, ConcatProperties DEF TypeOK, s
<1>6. DOMAIN subs' = 1 .. Len(subs) + Len(Demo)
  BY <1>5, LenProperties
<1>7. ASSUME NEW i \in DOMAIN subs' \ DOMAIN subs
      PROVE  i - Len(subs) \in 1 .. Len(Demo) /\ subs'[i] = s[i - Len(subs)]
  BY <1>1, <1>5, <1>6
<1> QED
  BY <1>1, <1>3, <1>5, <1>6, <1>7

-----------------------------------------------------------------------------
(***************************************************************************)
(* Type correctness, and the steps an inductive argument distinguishes.    *)
(***************************************************************************)

\* What a client's create appends.
LEMMA EntryTyped ==
  ASSUME TypeOK, NEW k \in Nat, NEW f \in Fans, NEW a \in Amounts,
         NEW q \in Frequencies, NEW v \in BOOLEAN
  PROVE  [id |-> k, serial |-> serial + 1, demo |-> FALSE, fan |-> f, amount |-> a,
          frequency |-> q, is_active |-> v] \in Subscription
BY DEF TypeOK, Subscription

\* POST appends one entry that is not of populate-demo.
Creates ==
    \E d \in Subscription :
      /\ subs' = Append(subs, d)
      /\ d.id = Len(subs) + 1
      /\ d.serial = serial + 1
      /\ ~d.demo
      /\ serial' = serial + 1
      /\ deleted' = deleted

\* PUT leaves every entry but the first with the id alone, and of that one
\* what identifies it.
Updates ==
    /\ subs' \in Seq(Subscription)
    /\ DOMAIN subs' = DOMAIN subs /\ Len(subs') = Len(subs)
    /\ \E i \in DOMAIN subs :
         /\ \A j \in DOMAIN subs : /\ subs'[j].id = subs[j].id
                                   /\ subs'[j].serial = subs[j].serial
                                   /\ subs'[j].demo = subs[j].demo
                                   /\ j # i => subs'[j] = subs[j]
         /\ \A j \in DOMAIN subs : subs[j].id = subs[i].id => i <= j
    /\ UNCHANGED <<serial, deleted>>

Deletes ==
    \E i \in DOMAIN subs :
      /\ subs' = RemoveAt(subs, i)
      /\ \A j \in DOMAIN subs : subs[j].id = subs[i].id => i <= j
      /\ deleted'
      /\ serial' = serial

AppendsDemo ==
    \E m \in Nat :
      /\ IsMaxId(m)
      /\ subs' = subs \o DemoEntries(m)
      /\ serial' = serial + Len(Demo)
      /\ deleted' = deleted

LEMMA StepKinds ==
  ASSUME TypeOK, [Next]_vars
  PROVE  Creates \/ Updates \/ Deletes \/ AppendsDemo \/ Restart \/ UNCHANGED vars
<1>1. ASSUME NEW f \in Fans, NEW a \in Amounts, NEW q \in Frequencies,
             NEW v \in BOOLEAN, Create(f, a, q, v)
      PROVE  Creates
  <2> DEFINE d == [id |-> Len(subs) + 1, serial |-> serial + 1, demo |-> FALSE,
                   fan |-> f, amount |-> a, frequency |-> q, is_active |-> v]
  <2>1. Len(subs) + 1 \in Nat
    BY LenProperties DEF TypeOK
  <2>2. d \in Subscription
    BY <2>1, EntryTyped
  <2>3. d.id = Len(subs) + 1 /\ d.serial = serial + 1 /\ d.demo = FALSE
    OBVIOUS
  <2>4. subs' = Append(subs, d) /\ serial' = serial + 1 /\ deleted' = deleted
    BY <1>1 DEF Create, AppendEntry
  <2> HIDE DEF d
  <2> QED
    BY <2>2, <2>3, <2>4 DEF Creates
<1>2. ASSUME NEW k \in Ids, NEW a \in Amounts, NEW q \in Frequencies,
             NEW v \in BOOLEAN, Update(k, a, q, v)
      PROVE  Updates
  <2>1. PICK i \in DOMAIN subs :
          /\ IsFirst(i, k)
          /\ subs' = [subs EXCEPT ![i].amount = a, ![i].frequency = q,
                                  ![i].is_active = v]
          /\ UNCHANGED <<serial, deleted>>
    BY <1>2 DEF Update
  <2>2. \A j \in DOMAIN subs : subs[j].id = subs[i].id => i <= j
    BY <2>1 DEF IsFirst, WithId
  <2> QED
    BY <2>1, <2>2, UpdatedEntry DEF Updates
<1>3. ASSUME NEW k \in Ids, Delete(k)
      PROVE  Deletes
  BY <1>3 DEF Delete, IsFirst, WithId, Deletes
<1>4. CASE PopulateDemo
  BY <1>4, BoundsAssumption DEF PopulateDemo, AppendDemo, AppendsDemo
<1> QED
  BY <1>1, <1>2, <1>3, <1>4 DEF Next

LEMMA NoEntries == << >> \in Seq(Subscription)
OBVIOUS

LEMMA TypeStep == TypeOK /\ [Next]_vars => TypeOK'
<1> SUFFICES ASSUME TypeOK, [Next]_vars PROVE TypeOK'
  OBVIOUS
<1>1. CASE Creates
  <2>1. subs' \in Seq(Subscription)
    BY <1>1, AppendedEntry DEF Creates
  <2> QED
    BY <1>1, <2>1 DEF Creates, TypeOK
<1>2. CASE Updates
  BY <1>2 DEF Updates, TypeOK
<1>3. CASE Deletes
  <2>1. subs' \in Seq(Subscription)
    BY <1>3, RemovedEntry DEF Deletes
  <2> QED
    BY <1>3, <2>1 DEF Deletes, TypeOK
<1>4. CASE AppendsDemo
  <2>1. subs' \in Seq(Subscription) /\ Len(Demo) \in Nat
    BY <1>4, AppendedDemo DEF AppendsDemo
  <2> QED
    BY <1>4, <2>1 DEF AppendsDemo, TypeOK
<1>5. CASE Restart
  BY <1>5, NoEntries DEF Restart, TypeOK
<1>6. CASE UNCHANGED vars
  BY <1>6 DEF vars, TypeOK
<1> QED
  BY <1>1, <1>2, <1>3, <1>4, <1>5, <1>6, StepKinds

\* SUBSCRIBERS_DB is a list of complete subscriptions.
THEOREM TypeCorrect == Spec => []TypeOK
<1>1. Init => TypeOK
  <2>1. 0 \in Nat /\ FALSE \in BOOLEAN
    OBVIOUS
  <2> QED
    BY <2>1, NoEntries, Zenon DEF Init, TypeOK
<1>2. TypeOK /\ [Next]_vars => TypeOK'
  BY TypeStep
<1> QED
  BY <1>1, <1>2, PTL DEF Spec

-----------------------------------------------------------------------------
(***************************************************************************)
(* The numbering of the subscriptions.                                     *)
(***************************************************************************)

\* Ids stay below the history: POST numbers by the length, which is at most
\* the number of subscriptions made, and populate-demo by the largest id.
THEOREM IdsBounded == Spec => []IdsAtMostSerial
<1>1. Init => IdsAtMostSerial
  BY LenProperties, NoEntries DEF Init, IdsAtMostSerial
<1>2. ASSUME TypeOK, IdsAtMostSerial, [Next]_vars
      PROVE  IdsAtMostSerial'
  <2>0. /\ DOMAIN subs = 1 .. Len(subs) /\ Len(subs) \in Nat /\ serial \in Nat
        /\ \A i \in DOMAIN subs : subs[i].id \in Nat /\ subs[i].serial \in Nat
    BY <1>2, Entries DEF TypeOK
  <2>1. CASE Creates
    <3>1. PICK d \in Subscription :
            /\ subs' = Append(subs, d)
            /\ d.id = Len(subs) + 1
            /\ d.serial = serial + 1
            /\ serial' = serial + 1
      BY <2>1 DEF Creates
    <3>2. /\ DOMAIN subs' = 1 .. Len(subs) + 1 /\ Len(subs') = Len(subs) + 1
          /\ \A i \in DOMAIN subs : subs'[i] = subs[i]
          /\ subs'[Len(subs) + 1] = d
      BY <1>2, <3>1, AppendedEntry
    <3> QED
      BY <1>2, <2>0, <3>1, <3>2 DEF IdsAtMostSerial
  <2>2. CASE Updates
    BY <1>2, <2>2 DEF Updates, IdsAtMostSerial
  <2>3. CASE Deletes
    <3>1. PICK i \in DOMAIN subs : subs' = RemoveAt(subs, i) /\ serial' = serial
      BY <2>3 DEF Deletes
    <3>2. /\ DOMAIN subs' = 1 .. Len(subs) - 1 /\ Len(subs') = Len(subs) - 1
          /\ \A j \in DOMAIN subs' : subs'[j] = IF j < i THEN subs[j] ELSE subs[j + 1]
      BY <1>2, <3>1, RemovedEntry
    <3>3. \A j \in DOMAIN subs' : j \in DOMAIN subs /\ j + 1 \in DOMAIN subs
      BY <2>0, <3>2
    <3> QED
      BY <1>2, <2>0, <3>1, <3>2, <3>3 DEF IdsAtMostSerial
  <2>4. CASE AppendsDemo
    <3>1. PICK m \in Nat : /\ IsMaxId(m)
                           /\ subs' = subs \o DemoEntries(m)
                           /\ serial' = serial + Len(Demo)
      BY <2>4 DEF AppendsDemo
    <3>2. m <= serial
      BY <1>2, <2>0, <3>1 DEF IsMaxId, IdsAtMostSerial
    <3>3. /\ DOMAIN subs' = 1 .. Len(subs) + Len(Demo) /\ Len(Demo) \in Nat
          /\ Len(subs') = Len(subs) + Len(Demo)
          /\ \A i \in DOMAIN subs : subs'[i] = subs[i]
          /\ \A i \in DOMAIN subs' \ DOMAIN subs :
               /\ subs'[i].id = m + (i - Len(subs))
               /\ subs'[i].serial = serial + (i - Len(subs))
      BY <1>2, <3>1, AppendedDemo
    <3> QED
      BY <1>2, <2>0, <3>1, <3>2, <3>3 DEF IdsAtMostSerial
  <2>5. CASE Restart
    BY <2>5, LenProperties, NoEntries DEF Restart, IdsAtMostSerial
  <2>6. CASE UNCHANGED vars
    BY <1>2, <2>6 DEF vars, IdsAtMostSerial
  <2> QED
    BY <1>2, <2>1, <2>2, <2>3, <2>4, <2>5, <2>6, StepKinds
<1> QED
  BY <1>1, <1>2, TypeCorrect, PTL DEF Spec

\* Before the first delete POST's numbering by the length and populate-demo's
\* by the largest id give the same number, so ids are positions.
THEOREM IdsArePositions == Spec => []IdsArePositionsUntilDelete
<1>1. Init => IdsArePositionsUntilDelete
  BY DEF Init, IdsArePositionsUntilDelete
<1>2. ASSUME TypeOK, IdsArePositionsUntilDelete, [Next]_vars
      PROVE  IdsArePositionsUntilDelete'
  <2>0. DOMAIN subs = 1 .. Len(subs) /\ Len(subs) \in Nat
    BY <1>2, LenProperties DEF TypeOK
  <2>1. CASE Creates
    <3>1. PICK d \in Subscription : /\ subs' = Append(subs, d)
                                    /\ d.id = Len(subs) + 1
                                    /\ deleted' = deleted
      BY <2>1 DEF Creates
    <3>2. /\ DOMAIN subs' = 1 .. Len(subs) + 1
          /\ \A i \in DOMAIN subs : subs'[i] = subs[i]
          /\ subs'[Len(subs) + 1] = d
      BY <1>2, <3>1, AppendedEntry
    <3> QED
      BY <1>2, <2>0, <3>1, <3>2 DEF IdsArePositionsUntilDelete
  <2>2. CASE Updates
    BY <1>2, <2>2 DEF Updates, IdsArePositionsUntilDelete
  <2>3. CASE Deletes
    BY <2>3 DEF Deletes, IdsArePositionsUntilDelete
  <2>4. CASE AppendsDemo
    <3>1. PICK m \in Nat : /\ IsMaxId(m)
                           /\ subs' = subs \o DemoEntries(m)
                           /\ deleted' = deleted
      BY <2>4 DEF AppendsDemo
    <3>2. /\ DOMAIN subs' = 1 .. Len(subs) + Len(Demo) /\ Len(Demo) \in Nat
          /\ \A i \in DOMAIN subs : subs'[i] = subs[i]
          /\ \A i \in DOMAIN subs' \ DOMAIN subs :
               subs'[i].id = m + (i - Len(subs))
      BY <1>2, <3>1, AppendedDemo
    <3>3. ~deleted => m = Len(subs)
      <4>1. CASE subs = << >>
        BY <3>1, <4>1, LenProperties, NoEntries DEF IsMaxId
      <4>2. CASE subs # << >>
        <5>1. Len(subs) \in DOMAIN subs
          BY <1>2, <2>0, <4>2, EmptySeq DEF TypeOK
        <5>2. PICK i \in DOMAIN subs : subs[i].id = m
          BY <3>1, <4>2 DEF IsMaxId
        <5>3. subs[Len(subs)].id <= m
          BY <3>1, <5>1 DEF IsMaxId
        <5> HAVE ~deleted
        <5>4. subs[i].id = i /\ subs[Len(subs)].id = Len(subs)
          BY <1>2, <5>1 DEF IdsArePositionsUntilDelete
        <5> QED
          BY <2>0, <3>1, <5>2, <5>3, <5>4
      <4> QED
        BY <4>1, <4>2
    <3> QED
      BY <1>2, <2>0, <3>1, <3>2, <3>3 DEF IdsArePositionsUntilDelete
  <2>5. CASE Restart
    BY <2>5 DEF Restart, IdsArePositionsUntilDelete
  <2>6. CASE UNCHANGED vars
    BY <1>2, <2>6 DEF vars, IdsArePositionsUntilDelete
  <2> QED
    BY <1>2, <2>1, <2>2, <2>3, <2>4, <2>5, <2>6, StepKinds
<1> QED
  BY <1>1, <1>2, TypeCorrect, PTL DEF Spec

\* An entry of populate-demo is numbered above every entry before it, and no
\* later request changes the order of the ids that are left.
THEOREM DemoIdsExceedEarlierOnes == Spec => []DemoIdsAscend
<1>1. Init => DemoIdsAscend
  BY DEF Init, DemoIdsAscend
<1>2. ASSUME TypeOK, DemoIdsAscend, [Next]_vars
      PROVE  DemoIdsAscend'
  <2>0. /\ DOMAIN subs = 1 .. Len(subs) /\ Len(subs) \in Nat
        /\ \A i \in DOMAIN subs : subs[i].id \in Nat
    BY <1>2, Entries
  <2>1. CASE Creates
    <3>1. PICK d \in Subscription : subs' = Append(subs, d) /\ ~d.demo
      BY <2>1 DEF Creates
    <3>2. /\ DOMAIN subs' = 1 .. Len(subs) + 1
          /\ \A i \in DOMAIN subs : subs'[i] = subs[i]
          /\ subs'[Len(subs) + 1] = d
      BY <1>2, <3>1, AppendedEntry
    <3> QED
      BY <1>2, <2>0, <3>1, <3>2 DEF DemoIdsAscend
  <2>2. CASE Updates
    BY <1>2, <2>2 DEF Updates, DemoIdsAscend
  <2>3. CASE Deletes
    <3>1. PICK k \in DOMAIN subs : subs' = RemoveAt(subs, k)
      BY <2>3 DEF Deletes
    <3>2. /\ DOMAIN subs' = 1 .. Len(subs) - 1
          /\ \A j \in DOMAIN subs' : subs'[j] = IF j < k THEN subs[j] ELSE subs[j + 1]
      BY <1>2, <3>1, RemovedEntry
    <3>3. ASSUME NEW i \in DOMAIN subs', NEW j \in DOMAIN subs', i < j, subs'[j].demo
          PROVE  subs'[i].id < subs'[j].id
      <4>1. PICK a \in DOMAIN subs : subs'[i] = subs[a] /\ a = IF i < k THEN i ELSE i + 1
        BY <2>0, <3>2
      <4>2. PICK b \in DOMAIN subs : subs'[j] = subs[b] /\ b = IF j < k THEN j ELSE j + 1
        BY <2>0, <3>2
      <4>3. a < b
        BY <2>0, <3>2, <3>3, <4>1, <4>2
      <4> QED
        BY <1>2, <3>3, <4>1, <4>2, <4>3 DEF DemoIdsAscend
    <3> QED
      BY <3>3 DEF DemoIdsAscend
  <2>4. CASE AppendsDemo
    <3>1. PICK m \in Nat : IsMaxId(m) /\ subs' = subs \o DemoEntries(m)
      BY <2>4 DEF AppendsDemo
    <3>2. /\ DOMAIN subs' = 1 .. Len(subs) + Len(Demo) /\ Len(Demo) \in Nat
          /\ \A i \in DOMAIN subs : subs'[i] = subs[i]
          /\ \A i \in DOMAIN subs' \ DOMAIN subs :
               subs'[i].id = m + (i - Len(subs))
      BY <1>2, <3>1, AppendedDemo
    <3>3. \A i \in DOMAIN subs : subs[i].id <= m
      BY <3>1 DEF IsMaxId
    <3>4. ASSUME NEW i \in DOMAIN subs', NEW j \in DOMAIN subs', i < j, subs'[j].demo
          PROVE  subs'[i].id < subs'[j].id
      <4>1. CASE j \in DOMAIN subs
        BY <1>2, <2>0, <3>2, <3>4, <4>1 DEF DemoIdsAscend
      <4>2. CASE i \in DOMAIN subs /\ j \notin DOMAIN subs
        BY <2>0, <3>1, <3>2, <3>3, <4>2
      <4>3. CASE i \notin DOMAIN subs /\ j \notin DOMAIN subs
        BY <2>0, <3>1, <3>2, <3>4, <4>3
      <4> QED
        BY <2>0, <3>2, <3>4, <4>1, <4>2, <4>3
    <3> QED
      BY <3>4 DEF DemoIdsAscend
  <2>5. CASE Restart
    BY <2>5 DEF Restart, DemoIdsAscend
  <2>6. CASE UNCHANGED vars
    BY <1>2, <2>6 DEF vars, DemoIdsAscend
  <2> QED
    BY <1>2, <2>1, <2>2, <2>3, <2>4, <2>5, <2>6, StepKinds
<1> QED
  BY <1>1, <1>2, TypeCorrect, PTL DEF Spec

\* next(s for s in SUBSCRIBERS_DB if s["id"] == k) is the oldest owner of k:
\* no request reaches an entry with an older namesake.
THEOREM OnlyTheOldestIsReached == Spec => NamesakesShielded
<1> DEFINE Shielded ==
      \A j \in DOMAIN subs :
        (\E i \in 1..j-1 : subs[i].id = subs[j].id) =>
          \/ subs' = << >>
          \/ \E i \in DOMAIN subs' : subs'[i] = subs[j]
<1>1. ASSUME TypeOK, [Next]_vars
      PROVE  [Shielded]_subs
  <2> SUFFICES ASSUME NEW j \in DOMAIN subs,
                      NEW i \in 1..j-1, subs[i].id = subs[j].id,
                      subs' # << >>, subs' # subs
               PROVE  \E k \in DOMAIN subs' : subs'[k] = subs[j]
    OBVIOUS
  <2>0. DOMAIN subs = 1 .. Len(subs) /\ Len(subs) \in Nat /\ i \in DOMAIN subs /\ i < j
    BY <1>1, Entries
  <2>1. CASE Creates
    <3>1. PICK d \in Subscription : subs' = Append(subs, d)
      BY <2>1 DEF Creates
    <3>2. /\ DOMAIN subs' = 1 .. Len(subs) + 1
          /\ \A l \in DOMAIN subs : subs'[l] = subs[l]
      BY <1>1, <3>1, AppendedEntry
    <3>3. j \in DOMAIN subs'
      BY <2>0, <3>2
    <3> QED
      BY <3>2, <3>3
  <2>2. CASE Updates
    <3>1. PICK k \in DOMAIN subs :
            /\ \A l \in DOMAIN subs : l # k => subs'[l] = subs[l]
            /\ \A l \in DOMAIN subs : subs[l].id = subs[k].id => k <= l
      BY <2>2 DEF Updates
    <3>2. j # k
      BY <2>0, <3>1
    <3> QED
      BY <2>2, <3>1, <3>2 DEF Updates
  <2>3. CASE Deletes
    <3>1. PICK k \in DOMAIN subs :
            /\ subs' = RemoveAt(subs, k)
            /\ \A l \in DOMAIN subs : subs[l].id = subs[k].id => k <= l
      BY <2>3 DEF Deletes
    <3>2. /\ DOMAIN subs' = 1 .. Len(subs) - 1
          /\ \A l \in DOMAIN subs' : subs'[l] = IF l < k THEN subs[l] ELSE subs[l + 1]
      BY <1>1, <3>1, RemovedEntry
    <3>3. j # k
      BY <2>0, <3>1
    <3>4. CASE j < k
      BY <2>0, <3>1, <3>2, <3>4
    <3>5. CASE j > k
      <4>1. j - 1 \in DOMAIN subs' /\ ~(j - 1 < k) /\ (j - 1) + 1 = j
        BY <2>0, <3>1, <3>2, <3>5
      <4> QED
        BY <3>2, <4>1
    <3> QED
      BY <2>0, <3>1, <3>3, <3>4, <3>5
  <2>4. CASE AppendsDemo
    <3>1. PICK m \in Nat : subs' = subs \o DemoEntries(m)
      BY <2>4 DEF AppendsDemo
    <3>2. /\ DOMAIN subs' = 1 .. Len(subs) + Len(Demo) /\ Len(Demo) \in Nat
          /\ \A l \in DOMAIN subs : subs'[l] = subs[l]
      BY <1>1, <3>1, AppendedDemo
    <3>3. j \in DOMAIN subs'
      BY <2>0, <3>2
    <3> QED
      BY <3>2, <3>3
  <2> QED
    BY <1>1, <2>1, <2>2, <2>3, <2>4, StepKinds DEF Restart, vars
<1> QED
  BY <1>1, TypeCorrect, PTL DEF Spec, NamesakesShielded

-----------------------------------------------------------------------------
(***************************************************************************)
(* How many owners an id can have.                                         *)
(***************************************************************************)
Owners(s, k) == {i \in DOMAIN s : s[i].id = k}

LEMMA OwnersFinite ==
  ASSUME NEW s \in Seq(Subscription), NEW k
  PROVE  /\ IsFiniteSet(Owners(s, k))
         /\ Cardinality(Owners(s, k)) \in Nat
         /\ Cardinality(Owners(s, k)) <= Len(s)
<1> DEFINE all == 1 .. Len(s)
<1>1. Owners(s, k) \in SUBSET all /\ Len(s) \in Nat
  BY LenProperties DEF Owners
<1>2. IsFiniteSet(all) /\ Cardinality(all) = Len(s)
  <2>1. 1 \in Int /\ Len(s) \in Int
    BY <1>1
  <2>2. IsFiniteSet(all) /\ Cardinality(all) = IF 1 > Len(s) THEN 0 ELSE Len(s) - 1 + 1
    BY <2>1, FS_Interval
  <2> QED
    BY <1>1, <2>2
<1> HIDE DEF all
<1>3. IsFiniteSet(Owners(s, k)) /\ Cardinality(Owners(s, k)) <= Cardinality(all)
  BY <1>1, <1>2, FS_Subset
<1> QED
  BY <1>2, <1>3, FS_CardinalityType

LEMMA AtMostOne ==
  ASSUME NEW x, NEW S \in SUBSET {x}
  PROVE  Cardinality(S) \in Nat /\ Cardinality(S) <= 1
<1>1. IsFiniteSet({x}) /\ Cardinality({x}) = 1
  BY FS_Singleton
<1>2. IsFiniteSet(S) /\ Cardinality(S) <= Cardinality({x})
  BY <1>1, FS_Subset
<1> QED
  BY <1>1, <1>2, FS_CardinalityType

\* A delete only shifts the other owners of an id.
LEMMA OwnersAfterDelete ==
  ASSUME TypeOK, NEW k \in Nat, NEW i \in DOMAIN subs, subs' = RemoveAt(subs, i)
  PROVE  Cardinality(Owners(subs', k)) <= Cardinality(Owners(subs, k))
<1> DEFINE f == [j \in Owners(subs', k) |-> IF j < i THEN j ELSE j + 1]
<1>1. /\ DOMAIN subs = 1 .. Len(subs) /\ Len(subs) \in Nat /\ i \in 1 .. Len(subs)
      /\ DOMAIN subs' = 1 .. Len(subs) - 1
      /\ \A j \in DOMAIN subs' : subs'[j] = IF j < i THEN subs[j] ELSE subs[j + 1]
  BY RemovedEntry
<1>2. \A j \in Owners(subs', k) : j \in DOMAIN subs' /\ subs'[j].id = k
  BY DEF Owners
<1>3. \A j \in Owners(subs', k) : j \in Nat /\ f[j] \in Owners(subs, k)
  BY <1>1, <1>2 DEF Owners
<1>4. \A a, b \in Owners(subs', k) : f[a] = f[b] => a = b
  BY <1>1, <1>3
<1>5. f \in [Owners(subs', k) -> Owners(subs, k)]
  BY <1>3
<1> HIDE DEF f
<1>6. f \in Injection(Owners(subs', k), Owners(subs, k))
  BY <1>4, <1>5 DEF Injection, IsInjective
<1>7. IsFiniteSet(Owners(subs, k))
  BY OwnersFinite DEF TypeOK
<1> QED
  BY <1>6, <1>7, FS_Injection

\* POST may hand out id k again after deletes, but only when k - 1 entries are
\* left; populate-demo never does.  So id k never has more than k owners.
THEOREM OwnersBounded == Spec => []CopiesAtMostId
<1>1. Init => CopiesAtMostId
  <2> SUFFICES ASSUME Init, NEW k \in Ids PROVE Cardinality(Owners(subs, k)) <= k
    BY DEF CopiesAtMostId, WithId, Owners
  <2>1. Owners(subs, k) = {}
    BY DEF Init, Owners
  <2> QED
    BY <2>1, FS_EmptySet, BoundsAssumption DEF Ids
<1>2. ASSUME TypeOK, CopiesAtMostId, [Next]_vars
      PROVE  CopiesAtMostId'
  <2> SUFFICES ASSUME NEW k \in Ids PROVE Cardinality(Owners(subs', k)) <= k
    BY DEF CopiesAtMostId, Ids, WithId, Owners
  <2>0. k \in Nat /\ 1 <= k /\ Cardinality(Owners(subs, k)) <= k
    BY <1>2, BoundsAssumption DEF Ids, CopiesAtMostId, WithId, Owners
  <2>1. CASE Creates
    <3>1. PICK d \in Subscription : subs' = Append(subs, d) /\ d.id = Len(subs) + 1
      BY <2>1 DEF Creates
    <3>2. /\ DOMAIN subs = 1 .. Len(subs) /\ Len(subs) \in Nat
          /\ subs' \in Seq(Subscription)
          /\ DOMAIN subs' = 1 .. Len(subs) + 1 /\ Len(subs') = Len(subs) + 1
          /\ \A i \in DOMAIN subs : subs'[i] = subs[i]
          /\ subs'[Len(subs) + 1] = d
      BY <1>2, <3>1, AppendedEntry
    <3>3. CASE k = Len(subs) + 1
      <4>1. Cardinality(Owners(subs', k)) <= Len(subs')
        BY <3>2, OwnersFinite
      <4> QED
        BY <3>2, <3>3, <4>1
    <3>4. CASE k # Len(subs) + 1
      <4>1. Owners(subs', k) = Owners(subs, k)
        BY <3>1, <3>2, <3>4 DEF Owners
      <4> QED
        BY <2>0, <4>1
    <3> QED
      BY <3>3, <3>4
  <2>2. CASE Updates
    <3>1. Owners(subs', k) = Owners(subs, k)
      BY <2>2 DEF Updates, Owners
    <3> QED
      BY <2>0, <3>1
  <2>3. CASE Deletes
    <3>1. PICK i \in DOMAIN subs : subs' = RemoveAt(subs, i)
      BY <2>3 DEF Deletes
    <3>2. Cardinality(Owners(subs', k)) <= Cardinality(Owners(subs, k))
      BY <1>2, <2>0, <3>1, OwnersAfterDelete
    <3>3. subs \in Seq(Subscription) /\ subs' \in Seq(Subscription)
      BY <1>2, TypeStep DEF TypeOK
    <3>4. Cardinality(Owners(subs, k)) \in Nat /\ Cardinality(Owners(subs', k)) \in Nat
      BY <3>3, OwnersFinite
    <3> QED
      BY <2>0, <3>2, <3>4
  <2>4. CASE AppendsDemo
    <3>1. PICK m \in Nat : IsMaxId(m) /\ subs' = subs \o DemoEntries(m)
      BY <2>4 DEF AppendsDemo
    <3>2. /\ DOMAIN subs = 1 .. Len(subs) /\ Len(subs) \in Nat
          /\ DOMAIN subs' = 1 .. Len(subs) + Len(Demo) /\ Len(Demo) \in Nat
          /\ \A i \in DOMAIN subs : subs'[i] = subs[i]
          /\ \A i \in DOMAIN subs' \ DOMAIN subs :
               subs'[i].id = m + (i - Len(subs))
      BY <1>2, <3>1, AppendedDemo
    <3>3. CASE k <= m
      <4>1. Owners(subs', k) = Owners(subs, k)
        BY <2>0, <3>1, <3>2, <3>3 DEF Owners
      <4> QED
        BY <2>0, <4>1
    <3>4. CASE k > m
      <4>1. \A i \in DOMAIN subs : subs[i].id \in Nat /\ subs[i].id # k
        BY <1>2, <2>0, <3>1, <3>4, Entries DEF IsMaxId
      <4>2. ASSUME NEW i \in DOMAIN subs', subs'[i].id = k
            PROVE  i = Len(subs) + (k - m)
        <5>1. i \notin DOMAIN subs
          BY <3>2, <4>1, <4>2
        <5>2. k = m + (i - Len(subs)) /\ i \in Nat
          BY <3>2, <4>2, <5>1
        <5> QED
          BY <2>0, <3>1, <3>2, <5>2
      <4>3. Owners(subs', k) \in SUBSET {Len(subs) + (k - m)}
        BY <4>2 DEF Owners
      <4>4. Cardinality(Owners(subs', k)) \in Nat /\ Cardinality(Owners(subs', k)) <= 1
        BY <4>3, AtMostOne
      <4> QED
        BY <2>0, <4>4
    <3> QED
      BY <2>0, <3>1, <3>3, <3>4
  <2>5. CASE Restart
    <3>1. Owners(subs', k) = {}
      BY <2>5 DEF Restart, Owners
    <3> QED
      BY <2>0, <3>1, FS_EmptySet
  <2>6. CASE UNCHANGED vars
    <3>1. Owners(subs', k) = Owners(subs, k)
      BY <2>6 DEF vars, Owners
    <3> QED
      BY <2>0, <3>1
  <2> QED
    BY <1>2, <2>1, <2>2, <2>3, <2>4, <2>5, <2>6, StepKinds
<1> QED
  BY <1>1, <1>2, TypeCorrect, PTL DEF Spec
=============================================================================
