-------------------------- MODULE SubscriberStore ---------------------------
(***************************************************************************)
(* The subscription endpoints of server/app/routes/subscribers_simple.py   *)
(* in one backend process, which keeps the list SUBSCRIBERS_DB in memory.  *)
(* A handler does no I/O between reading and writing the list, so under    *)
(* gunicorn's sync worker it is one step.  Responses that leave the list   *)
(* alone (both GETs, a field missing or zero, an amount that float()       *)
(* rejects, an unknown id) are no steps.                                   *)
(***************************************************************************)
EXTENDS Naturals, Sequences, FiniteSets, SequencesExt

CONSTANTS
    Fans,         \* who subscribes to whom: influencer_id and fan_phone
    Amounts,      \* amounts that float() converts
    Frequencies,
    Demo,         \* the sample subscribers of populate-demo
    MaxLen,       \* bound: length of the list
    MaxSerial     \* bound: subscriptions made between two restarts

\* What populate-demo copies into a new entry besides the id.
Sample == [fan : Fans, amount : Amounts, frequency : Frequencies, is_active : BOOLEAN]

ASSUME DemoAssumption == Demo \in Seq(Sample)
ASSUME BoundsAssumption == MaxLen \in Nat /\ MaxSerial \in Nat

VARIABLES
    subs,     \* SUBSCRIBERS_DB
    serial,   \* history: number of subscriptions the process has made
    deleted   \* history: whether it deleted one

vars == <<subs, serial, deleted>>

\* "id" is what clients see; "serial" (history) tells subscriptions apart
\* for good, "demo" (history) says that populate-demo made it.
Subscription == [id : Nat, serial : Nat, demo : BOOLEAN,
                 fan : Fans, amount : Amounts, frequency : Frequencies,
                 is_active : BOOLEAN]

WithId(k) == {i \in DOMAIN subs : subs[i].id = k}

\* next((s for s in SUBSCRIBERS_DB if s['id'] == k), None)
IsFirst(i, k) == i \in WithId(k) /\ \A j \in WithId(k) : i <= j

\* Bound on the ids clients name: no id exceeds the serial.
Ids == 1..MaxSerial + 1

Room(n) == Len(subs) + n <= MaxLen /\ serial + n <= MaxSerial

Init ==
    /\ subs = <<>>
    /\ serial = 0
    /\ deleted = FALSE

-----------------------------------------------------------------------------
\* Append a subscription of a client under id k.
AppendEntry(k, f, a, q, v) ==
    /\ Room(1)
    /\ subs' = Append(subs, [id |-> k, serial |-> serial + 1, demo |-> FALSE,
                             fan |-> f, amount |-> a, frequency |-> q,
                             is_active |-> v])
    /\ serial' = serial + 1
    /\ UNCHANGED deleted

\* Mutants of Create: the id is the length; the id counts the active
\* subscriptions only; the amount is stored as it came, without float().
CreateOffByOne(f, a, q, v) == AppendEntry(Len(subs), f, a, q, v)
CreateCountingActive(f, a, q, v) ==
    AppendEntry(1 + Len(SelectSeq(subs, LAMBDA e : e.is_active)), f, a, q, v)
CreateUnconverted(f, a, q, v) == AppendEntry(Len(subs) + 1, f, "text", q, v)

\* POST /subscribers: the id is one more than the length of the list.
Create(f, a, q, v) == AppendEntry(Len(subs) + 1, f, a, q, v)

\* PUT /subscribers/<id>: the first entry with the id gets the fields the
\* payload has and keeps the others.
Update(k, a, q, v) ==
    \E i \in DOMAIN subs :
      /\ IsFirst(i, k)
      /\ subs' = [subs EXCEPT ![i].amount = a, ![i].frequency = q,
                              ![i].is_active = v]
      /\ UNCHANGED <<serial, deleted>>

\* Mutant of Delete: the list is filtered by the id.
DeleteAll(k) ==
    /\ WithId(k) # {}
    /\ subs' = SelectSeq(subs, LAMBDA e : e.id # k)
    /\ deleted' = TRUE
    /\ UNCHANGED serial

\* DELETE /subscribers/<id>: list.remove drops the first entry equal to the
\* one next() found, which is that one.
Delete(k) ==
    \E i \in DOMAIN subs :
      /\ IsFirst(i, k)
      /\ subs' = RemoveAt(subs, i)
      /\ deleted' = TRUE
      /\ UNCHANGED serial

\* m is max(s["id"] for s in SUBSCRIBERS_DB), or 0 for the empty list.
IsMaxId(m) ==
    /\ subs = <<>> => m = 0
    /\ subs # <<>> => \E i \in DOMAIN subs : subs[i].id = m
    /\ \A i \in DOMAIN subs : subs[i].id <= m

\* The samples as entries numbered from m + 1.
DemoEntries(m) ==
    [j \in DOMAIN Demo |->
       [id |-> m + j, serial |-> serial + j, demo |-> TRUE,
        fan |-> Demo[j].fan, amount |-> Demo[j].amount,
        frequency |-> Demo[j].frequency, is_active |-> Demo[j].is_active]]

AppendDemo(m) ==
    /\ Room(Len(Demo))
    /\ subs' = subs \o DemoEntries(m)
    /\ serial' = serial + Len(Demo)
    /\ UNCHANGED deleted

\* Mutants of PopulateDemo: the ids continue the length, as those of POST
\* do; they start two above the largest.
PopulateDemoByLength == AppendDemo(Len(subs))
PopulateDemoSkip == \E m \in 0..MaxSerial : IsMaxId(m) /\ AppendDemo(m + 1)

\* POST /subscribers/populate-demo: the samples are appended on every call,
\* each with one more than the largest id so far.
PopulateDemo == \E m \in 0..MaxSerial : IsMaxId(m) /\ AppendDemo(m)

\* The process ends and is started again.
Restart ==
    /\ subs' = <<>>
    /\ serial' = 0
    /\ deleted' = FALSE

Next ==
    \/ \E f \in Fans, a \in Amounts, q \in Frequencies, v \in BOOLEAN :
         Create(f, a, q, v)
    \/ \E k \in Ids, a \in Amounts, q \in Frequencies, v \in BOOLEAN :
         Update(k, a, q, v)
    \/ \E k \in Ids : Delete(k)
    \/ PopulateDemo
    \/ Restart

Spec == Init /\ [][Next]_vars

-----------------------------------------------------------------------------
TypeOK ==
    /\ subs \in Seq(Subscription)
    /\ serial \in Nat
    /\ deleted \in BOOLEAN

\* Until the process deletes, both ways to number a subscription agree: ids
\* are positions, hence distinct, however POST and populate-demo are mixed.
IdsArePositionsUntilDelete ==
    ~deleted => \A i \in DOMAIN subs : subs[i].id = i

\* What deletes can do at worst: POST hands out an id again, but id k has at
\* most k owners, since the list that is given id k then has k entries.
CopiesAtMostId == \A k \in Ids : Cardinality(WithId(k)) <= k

\* In the list as it is now, an entry of populate-demo has a larger id than
\* every entry before it, though POST numbers by the length.  The id of an
\* entry that was deleted may be handed out again.
DemoIdsAscend ==
    \A i, j \in DOMAIN subs :
      i < j /\ subs[j].demo => subs[i].id < subs[j].id

\* One request never reaches past the oldest owner of its id: an entry that
\* has an older namesake is neither changed nor dropped, but by a restart.
NamesakesShielded ==
    [][ \A j \in DOMAIN subs :
          (\E i \in 1..j-1 : subs[i].id = subs[j].id) =>
            \/ subs' = <<>>
            \/ \E i \in DOMAIN subs' : subs'[i] = subs[j] ]_subs

\* No id ever exceeds the number of subscriptions made, so the ids cannot
\* run away however deletes, POST and populate-demo alternate.
IdsAtMostSerial ==
    /\ Len(subs) <= serial
    /\ \A i \in DOMAIN subs :
         subs[i].id <= subs[i].serial /\ subs[i].serial <= serial

\* "Get a specific subscription by ID" (subscribers_simple.py line 59): an id
\* denotes one subscription.  The code breaks this after a delete.
IdsDistinct ==
    \A i, j \in DOMAIN subs : subs[i].id = subs[j].id => i = j
=============================================================================
