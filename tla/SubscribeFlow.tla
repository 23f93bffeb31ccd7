---------------------------- MODULE SubscribeFlow ---------------------------
(***************************************************************************)
(* The subscribe forms (src/components/SubscribeForm.tsx) of the fans'     *)
(* browsers, and the backend replicas they reach.  Each submission of a    *)
(* form looks the PIN up with one request and subscribes with a second;    *)
(* nothing stops the fan from submitting again while they run.  Requests   *)
(* and responses may be lost, and a request the client has given up may    *)
(* still be served.  The PINs are in the MongoDB collection "users", which *)
(* the replicas share; every replica has a SUBSCRIBERS_DB of its own.      *)
(***************************************************************************)
EXTENDS Naturals, Sequences, FiniteSets

CONSTANTS
    Forms,           \* form instances: a fan, an influencer, an amount
    Replicas,        \* backend processes
    MaxSubmissions,  \* bound: submissions of all forms together
    MaxSerial        \* bound of SubscriberStore: its list and its serial

ASSUME FlowBoundsAssumption == MaxSubmissions \in Nat /\ MaxSerial \in Nat
ASSUME ReplicasAssumption == IsFiniteSet(Replicas)

VARIABLES
    records,     \* the forms whose phone and PIN are in the collection
    step,        \* step[f]: "phone", "pin" or "confirmation"
    pin,         \* pin[f]: the PIN field: empty, as registered, or another
    subms,       \* the submissions, in the order the forms made them
    store        \* store[r]: SUBSCRIBERS_DB of r and its history

vars == <<records, step, pin, subms, store>>

Steps == {"phone", "pin", "confirmation"}
PinField == {"empty", "right", "wrong"}

(***************************************************************************)
(* What a submission is waiting for.  The lookup is on its way, or has     *)
(* matched, or has not; the subscription is on its way, or was created;    *)
(* "given_up" is a POST under way after its client saw an error.           *)
(***************************************************************************)
Phases == {"lookup", "matched", "unmatched", "post", "created", "given_up", "over"}

\* "attached": the form that submitted is still on the page.  "stored"
\* (history): a replica has made its subscription.
Submission == [form : Forms, pin : PinField, phase : Phases,
               attached : BOOLEAN, stored : BOOLEAN]

Entry == [id : Nat, serial : Nat, demo : BOOLEAN, fan : Forms,
          amount : {"amount"}, frequency : {"frequency"}, is_active : BOOLEAN]
Contents == [subs : Seq(Entry), serial : Nat, deleted : BOOLEAN]
Empty == [subs |-> <<>>, serial |-> 0, deleted |-> FALSE]

Init ==
    /\ records \in SUBSET Forms
    /\ step = [f \in Forms |-> "phone"]
    /\ pin = [f \in Forms |-> "empty"]
    /\ subms = <<>>
    /\ store = [r \in Replicas |-> Empty]

-----------------------------------------------------------------------------
(***************************************************************************)
(* The form.                                                               *)
(***************************************************************************)

\* handleSubmit() with the phone number.
Continue(f) ==
    /\ step[f] = "phone"
    /\ step' = [step EXCEPT ![f] = "pin"]
    /\ UNCHANGED <<records, pin, subms, store>>

Type(f, p) ==
    /\ step[f] = "pin"
    /\ pin' = [pin EXCEPT ![f] = p]
    /\ UNCHANGED <<records, step, subms, store>>

\* handleSubmit() with the PIN, which the field requires.  The handler keeps
\* the PIN of its render, and no earlier submission keeps it from running.
Submit(f) ==
    /\ step[f] = "pin"
    /\ pin[f] # "empty"
    /\ Len(subms) < MaxSubmissions
    /\ subms' = Append(subms, [form |-> f, pin |-> pin[f], phase |-> "lookup",
                               attached |-> TRUE, stored |-> FALSE])
    /\ UNCHANGED <<records, step, pin, store>>

\* setPin(''), which reaches the form only while it is on the page.
ClearPin(s) ==
    pin' = IF subms[s].attached THEN [pin EXCEPT ![subms[s].form] = "empty"]
                                ELSE pin

Advance(s, phase) == subms' = [subms EXCEPT ![s].phase = phase]

\* Mutant of LookupMatched: the result of verifyPin() is not awaited.
LookupIgnored(s) ==
    /\ subms[s].phase \in {"matched", "unmatched"}
    /\ Advance(s, "post")
    /\ UNCHANGED <<records, step, pin, store>>

\* verifyPin() returns true and handleSubscribe() posts.
LookupMatched(s) ==
    /\ subms[s].phase = "matched"
    /\ Advance(s, "post")
    /\ UNCHANGED <<records, step, pin, store>>

\* No record matches, or the lookup failed: the alert, then an empty field.
LookupFailed(s) ==
    /\ subms[s].phase \in {"lookup", "matched", "unmatched"}
    /\ Advance(s, "over")
    /\ ClearPin(s)
    /\ UNCHANGED <<records, step, store>>

\* Mutant of Confirmed: the confirmation is shown when the POST is sent.
ConfirmedEarly(s) ==
    /\ subms[s].phase \in {"post", "created"}
    /\ Advance(s, "over")
    /\ step' = IF subms[s].attached
               THEN [step EXCEPT ![subms[s].form] = "confirmation"] ELSE step
    /\ UNCHANGED <<records, pin, store>>

Confirmed(s) ==
    /\ subms[s].phase = "created"
    /\ Advance(s, "over")
    /\ step' = IF subms[s].attached
               THEN [step EXCEPT ![subms[s].form] = "confirmation"] ELSE step
    /\ UNCHANGED <<records, pin, store>>

\* Mutant of SubscribeFailed: the POST is sent again.
SubscribeFailedRetry(s) ==
    /\ subms[s].phase \in {"post", "created"}
    /\ Advance(s, "post")
    /\ UNCHANGED <<records, step, pin, store>>

\* The POST fails for the client, which stays at the PIN.  The request may
\* have been lost, may have been served, or may be served later.
SubscribeFailed(s) ==
    /\ \/ /\ subms[s].phase \in {"post", "created"}
          /\ Advance(s, "over")
       \/ /\ subms[s].phase = "post"
          /\ Advance(s, "given_up")
    /\ UNCHANGED <<records, step, pin, store>>

\* The form leaves the page and a new one takes its place: the handlers go
\* on, without a form to change.
Remount(f) ==
    /\ step[f] # "phone"
    /\ step' = [step EXCEPT ![f] = "phone"]
    /\ pin' = [pin EXCEPT ![f] = "empty"]
    /\ subms' = [s \in DOMAIN subms |->
                   IF subms[s].form = f THEN [subms[s] EXCEPT !.attached = FALSE]
                                        ELSE subms[s]]
    /\ UNCHANGED <<records, store>>

\* The page is loaded anew: the handlers are gone, a POST under way is not.
Reload(f) ==
    /\ step[f] # "phone"
    /\ step' = [step EXCEPT ![f] = "phone"]
    /\ pin' = [pin EXCEPT ![f] = "empty"]
    /\ subms' = [s \in DOMAIN subms |->
                   IF subms[s].form = f
                   THEN [subms[s] EXCEPT
                           !.attached = FALSE,
                           !.phase = IF @ \in {"post", "given_up"} THEN "given_up"
                                                                   ELSE "over"]
                   ELSE subms[s]]
    /\ UNCHANGED <<records, store>>

-----------------------------------------------------------------------------
(***************************************************************************)
(* The servers.                                                            *)
(***************************************************************************)

\* Mutant of ServeLookup: the PIN is left out of the filter.
ServeLookupByPhone(s) ==
    /\ subms[s].phase = "lookup"
    /\ Advance(s, IF subms[s].form \in records THEN "matched" ELSE "unmatched")
    /\ UNCHANGED <<records, step, pin, store>>

\* GET /api/users: the documents with this phone and PIN.
ServeLookup(s) ==
    /\ subms[s].phase = "lookup"
    /\ Advance(s, IF subms[s].pin = "right" /\ subms[s].form \in records
                  THEN "matched" ELSE "unmatched")
    /\ UNCHANGED <<records, step, pin, store>>

\* Mutant of NewEntry: the payload is stored without is_active.
NewEntryPartial(c, f) ==
    [id |-> Len(c.subs) + 1, serial |-> c.serial + 1, demo |-> FALSE, fan |-> f,
     amount |-> "amount", frequency |-> "frequency"]

\* The entry POST /api/subscribers makes of the form's payload.
NewEntry(c, f) ==
    [id |-> Len(c.subs) + 1, serial |-> c.serial + 1, demo |-> FALSE, fan |-> f,
     amount |-> "amount", frequency |-> "frequency", is_active |-> TRUE]

Added(c, f) == [c EXCEPT !.subs = Append(@, NewEntry(c, f)), !.serial = @ + 1]

\* The POST is served, and its response is sent where a client waits for it.
Served(s) ==
    subms' = [subms EXCEPT ![s].phase = IF @ = "post" THEN "created" ELSE "over",
                           ![s].stored = TRUE]

\* Bound: it never refuses a request while MaxSubmissions <= MaxSerial.
Fits(c) == Len(c.subs) < MaxSerial /\ c.serial < MaxSerial

\* Mutant of ServePost: every entry is numbered 1.
ServePostUnnumbered(s, r) ==
    /\ subms[s].phase \in {"post", "given_up"}
    /\ Fits(store[r])
    /\ store' = [store EXCEPT ![r].subs =
                   Append(@, [NewEntry(store[r], subms[s].form) EXCEPT !.id = 1]),
                              ![r].serial = @ + 1]
    /\ Served(s)
    /\ UNCHANGED <<records, step, pin>>

\* POST /api/subscribers reaches one of the replicas.
ServePost(s, r) ==
    /\ subms[s].phase \in {"post", "given_up"}
    /\ Fits(store[r])
    /\ store' = [store EXCEPT ![r] = Added(@, subms[s].form)]
    /\ Served(s)
    /\ UNCHANGED <<records, step, pin>>

\* A request nobody waits for is lost.
LosePost(s) ==
    /\ subms[s].phase = "given_up"
    /\ Advance(s, "over")
    /\ UNCHANGED <<records, step, pin, store>>

\* POST /api/users by someone who registers the fan: no route removes it.
Enrol(f) ==
    /\ records' = records \union {f}
    /\ UNCHANGED <<step, pin, subms, store>>

\* A replica ends and is started again, with an empty list.
Restart(r) ==
    /\ store' = [store EXCEPT ![r] = Empty]
    /\ UNCHANGED <<records, step, pin, subms>>

-----------------------------------------------------------------------------
Settle(s) ==
    \/ LookupMatched(s) \/ LookupFailed(s) \/ Confirmed(s) \/ SubscribeFailed(s)
    \/ ServeLookup(s) \/ LosePost(s)
    \/ \E r \in Replicas : ServePost(s, r)

Next ==
    \/ \E f \in Forms : \/ Continue(f) \/ Submit(f) \/ Remount(f) \/ Reload(f)
                        \/ Enrol(f)
                        \/ \E p \in {"right", "wrong"} : Type(f, p)
    \/ \E s \in DOMAIN subms : Settle(s)
    \/ \E r \in Replicas : Restart(r)

Spec == Init /\ [][Next]_vars

(***************************************************************************)
(* A request is served, or its connection fails: the worker serves one     *)
(* request after the other and no handler waits for another.               *)
(***************************************************************************)
Fairness ==
    \A s \in 1..MaxSubmissions : WF_vars(s \in DOMAIN subms /\ Settle(s))

FairSpec == Spec /\ Fairness

-----------------------------------------------------------------------------
TypeOK ==
    /\ records \subseteq Forms
    /\ step \in [Forms -> Steps]
    /\ pin \in [Forms -> PinField]
    /\ subms \in Seq(Submission)
    /\ store \in [Replicas -> Contents]

EntriesOf(f) ==
    {e \in Replicas \X (1..MaxSerial) :
       e[2] \in DOMAIN store[e[1]].subs /\ store[e[1]].subs[e[2]].fan = f}
StoredBy(f) == {s \in DOMAIN subms : subms[s].form = f /\ subms[s].stored}

\* Whatever is lost, repeated or served late, a submission subscribes at most
\* once: a fan who submitted once has at most one subscription, on whichever
\* replica.
OnceForEachSubmission ==
    \A f \in Forms : Cardinality(EntriesOf(f)) <= Cardinality(StoredBy(f))

\* A subscription is for a fan whose phone and PIN are registered, and whose
\* form submitted that PIN, although nothing ties the POST to the lookup.
OnlyRegisteredFans ==
    \A r \in Replicas : \A i \in DOMAIN store[r].subs :
      \E s \in DOMAIN subms : /\ subms[s].form = store[r].subs[i].fan
                              /\ subms[s].pin = "right"
                              /\ subms[s].form \in records

\* "Wait for M-PESA PIN!" is shown to a fan only if a replica stored a
\* subscription that this form, and not one it has replaced, submitted.
ConfirmedIsStored ==
    \A f \in Forms :
      step[f] = "confirmation" =>
        \E s \in StoredBy(f) : subms[s].attached /\ subms[s].phase = "over"

(***************************************************************************)
(* The inductive invariant: what a submission waits for tells what has     *)
(* been found and stored for it.                                           *)
(***************************************************************************)
SubmissionHolds(s) ==
    /\ subms[s].phase \in {"lookup", "matched", "unmatched", "post", "given_up"} =>
         ~subms[s].stored
    /\ subms[s].phase = "created" => subms[s].stored
    /\ subms[s].phase \in {"matched", "post", "given_up"} \/ subms[s].stored =>
         subms[s].pin = "right" /\ subms[s].form \in records

FlowInv ==
    /\ \A s \in DOMAIN subms : SubmissionHolds(s)
    /\ \A r \in Replicas : \A i \in DOMAIN store[r].subs :
         StoredBy(store[r].subs[i].fan) # {}
    /\ ConfirmedIsStored

\* No submission hangs: the fan sees the confirmation, the alert or the form
\* again, and a POST given up is served or lost.
SubmissionsSettle ==
    \A s \in 1..MaxSubmissions :
      (s \in DOMAIN subms) ~> (s \in DOMAIN subms /\ subms[s].phase = "over")
=============================================================================
