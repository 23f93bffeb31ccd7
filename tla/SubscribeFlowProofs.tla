------------------------- MODULE SubscribeFlowProofs ------------------------
(***************************************************************************)
(* Theorems about SubscribeFlow, for any forms, replicas and bounds.       *)
(***************************************************************************)
EXTENDS SubscribeReplica, SequenceTheorems, FiniteSetTheorems, TLAPS

-----------------------------------------------------------------------------
(***************************************************************************)
(* What the steps make of the submissions, one by one.                     *)
(***************************************************************************)
LEMMA NoEntries == ASSUME NEW X PROVE <<>> \in Seq(X)
OBVIOUS

LEMMA Submissions ==
  ASSUME TypeOK
  PROVE  /\ DOMAIN subms = 1 .. Len(subms) /\ Len(subms) \in Nat
         /\ \A s \in DOMAIN subms : subms[s] \in Submission
<1>1. DOMAIN subms = 1 .. Len(subms) /\ Len(subms) \in Nat
  BY LenProperties DEF TypeOK
<1> QED
  BY <1>1, ElementOfSeq DEF TypeOK

LEMMA ReplacedSubmission ==
  ASSUME NEW q \in Seq(Submission), NEW s \in 1 .. Len(q), NEW d \in Submission
  PROVE  /\ [q EXCEPT ![s] = d] \in Seq(Submission)
         /\ DOMAIN [q EXCEPT ![s] = d] = DOMAIN q
         /\ \A j \in DOMAIN q : [q EXCEPT ![s] = d][j] = IF j = s THEN d ELSE q[j]
BY ExceptSeq

\* Advance() changes the phase of one submission and nothing else.
LEMMA AdvanceEffect ==
  ASSUME TypeOK, NEW s \in DOMAIN subms, NEW ph \in Phases, Advance(s, ph)
  PROVE  /\ subms' \in Seq(Submission)
         /\ DOMAIN subms' = DOMAIN subms
         /\ \A j \in DOMAIN subms :
              /\ subms'[j].form = subms[j].form
              /\ subms'[j].pin = subms[j].pin
              /\ subms'[j].attached = subms[j].attached
              /\ subms'[j].stored = subms[j].stored
              /\ subms'[j].phase = IF j = s THEN ph ELSE subms[j].phase
<1> DEFINE d == [subms[s] EXCEPT !.phase = ph]
<1>1. subms \in Seq(Submission) /\ s \in 1 .. Len(subms) /\ subms[s] \in Submission
  BY Submissions DEF TypeOK
<1>2. /\ d \in Submission
      /\ d.form = subms[s].form /\ d.pin = subms[s].pin
      /\ d.attached = subms[s].attached /\ d.stored = subms[s].stored
      /\ d.phase = ph
  BY <1>1 DEF Submission
<1>3. subms' = [subms EXCEPT ![s] = d]
  BY DEF Advance
<1> HIDE DEF d
<1> QED
  BY <1>1, <1>2, <1>3, ReplacedSubmission

\* A POST is served: its submission is stored.
LEMMA ServedEffect ==
  ASSUME TypeOK, NEW s \in DOMAIN subms, Served(s)
  PROVE  /\ subms' \in Seq(Submission)
         /\ DOMAIN subms' = DOMAIN subms
         /\ \A j \in DOMAIN subms :
              /\ subms'[j].form = subms[j].form
              /\ subms'[j].pin = subms[j].pin
              /\ subms'[j].attached = subms[j].attached
              /\ subms'[j].stored = (j = s \/ subms[j].stored)
              /\ subms'[j].phase = IF j = s THEN IF subms[j].phase = "post" THEN "created"
                                                                            ELSE "over"
                                            ELSE subms[j].phase
<1> DEFINE ph == IF subms[s].phase = "post" THEN "created" ELSE "over"
           d == [subms[s] EXCEPT !.phase = ph, !.stored = TRUE]
<1>1. /\ subms \in Seq(Submission) /\ s \in 1 .. Len(subms)
      /\ \A j \in DOMAIN subms : subms[j] \in Submission
  BY Submissions DEF TypeOK
<1>2. /\ d \in Submission
      /\ d.form = subms[s].form /\ d.pin = subms[s].pin
      /\ d.attached = subms[s].attached /\ d.stored = TRUE
      /\ d.phase = ph
  BY <1>1 DEF Submission, Phases
<1>3. subms' = [subms EXCEPT ![s] = d]
  BY <1>1 DEF Served, Submission
<1>4. \A j \in DOMAIN subms : subms[j].stored \in BOOLEAN
  BY <1>1 DEF Submission
<1> HIDE DEF d
<1> QED
  BY <1>1, <1>2, <1>3, <1>4, ReplacedSubmission

\* A form that leaves the page, whether its handlers go on or not.
LEMMA DetachEffect ==
  ASSUME TypeOK, NEW f \in Forms, Remount(f) \/ Reload(f)
  PROVE  /\ subms' \in Seq(Submission)
         /\ DOMAIN subms' = DOMAIN subms
         /\ \A j \in DOMAIN subms :
              /\ subms'[j].form = subms[j].form
              /\ subms'[j].pin = subms[j].pin
              /\ subms[j].form # f => subms'[j] = subms[j]
              /\ subms'[j].stored = subms[j].stored
              /\ \/ subms'[j].phase = subms[j].phase
                 \/ subms[j].phase = "post" /\ subms'[j].phase = "given_up"
                 \/ subms'[j].phase = "over"
<1>1. /\ DOMAIN subms = 1 .. Len(subms) /\ Len(subms) \in Nat
      /\ \A j \in DOMAIN subms : subms[j] \in Submission
  BY Submissions
<1> DEFINE M(j) == IF subms[j].form = f THEN [subms[j] EXCEPT !.attached = FALSE]
                                        ELSE subms[j]
           L(j) == IF subms[j].form = f
                   THEN [subms[j] EXCEPT
                           !.attached = FALSE,
                           !.phase = IF @ \in {"post", "given_up"} THEN "given_up"
                                                                   ELSE "over"]
                   ELSE subms[j]
<1>2. CASE Remount(f)
  <2>1. subms' = [j \in 1 .. Len(subms) |-> M(j)]
    BY <1>1, <1>2 DEF Remount
  <2>2. \A j \in DOMAIN subms : M(j) \in Submission
    BY <1>1 DEF Submission
  <2>3. subms' \in Seq(Submission) /\ DOMAIN subms' = DOMAIN subms
    BY <1>1, <2>1, <2>2, IsASeq
  <2>4. \A j \in DOMAIN subms :
          /\ M(j).form = subms[j].form /\ M(j).pin = subms[j].pin
          /\ M(j).stored = subms[j].stored /\ M(j).phase = subms[j].phase
          /\ subms[j].form # f => M(j) = subms[j]
    BY <1>1 DEF Submission
  <2>5. \A j \in DOMAIN subms : subms'[j] = M(j)
    BY <1>1, <2>1
  <2> QED
    BY <2>3, <2>4, <2>5
<1>3. CASE Reload(f)
  <2>1. subms' = [j \in 1 .. Len(subms) |-> L(j)]
    BY <1>1, <1>3 DEF Reload
  <2>2. \A j \in DOMAIN subms : L(j) \in Submission
    BY <1>1 DEF Submission, Phases
  <2>3. subms' \in Seq(Submission) /\ DOMAIN subms' = DOMAIN subms
    <3> HIDE DEF L
    <3> QED
      BY <1>1, <2>1, <2>2, IsASeq
  <2>4. ASSUME NEW j \in DOMAIN subms
        PROVE  /\ L(j).form = subms[j].form /\ L(j).pin = subms[j].pin
               /\ L(j).stored = subms[j].stored
               /\ subms[j].form # f => L(j) = subms[j]
               /\ \/ L(j).phase = subms[j].phase
                  \/ subms[j].phase = "post" /\ L(j).phase = "given_up"
                  \/ L(j).phase = "over"
    <3>1. CASE subms[j].phase \in {"post", "given_up"}
      BY <1>1, <3>1 DEF Submission
    <3>2. CASE subms[j].phase \notin {"post", "given_up"}
      BY <1>1, <3>2 DEF Submission
    <3> QED
      BY <3>1, <3>2
  <2>5. \A j \in DOMAIN subms : subms'[j] = L(j)
    BY <1>1, <2>1
  <2> QED
    BY <2>3, <2>4, <2>5
<1> QED
  BY <1>2, <1>3

LEMMA SubmitEffect ==
  ASSUME TypeOK, NEW f \in Forms, Submit(f)
  PROVE  /\ subms' \in Seq(Submission)
         /\ DOMAIN subms = 1 .. Len(subms) /\ Len(subms) \in Nat
         /\ DOMAIN subms' = 1 .. Len(subms) + 1
         /\ \A j \in DOMAIN subms : subms'[j] = subms[j]
         /\ subms'[Len(subms) + 1] =
              [form |-> f, pin |-> pin[f], phase |-> "lookup",
               attached |-> TRUE, stored |-> FALSE]
<1> DEFINE d == [form |-> f, pin |-> pin[f], phase |-> "lookup",
                 attached |-> TRUE, stored |-> FALSE]
<1>1. subms \in Seq(Submission) /\ DOMAIN subms = 1 .. Len(subms) /\ Len(subms) \in Nat
  BY Submissions DEF TypeOK
<1>2. d \in Submission
  BY DEF TypeOK, Submission, Phases
<1>3. subms' = Append(subms, d)
  BY DEF Submit
<1> HIDE DEF d
<1>4. /\ subms' \in Seq(Submission)
      /\ DOMAIN subms' = 1 .. Len(subms) + 1
      /\ \A j \in DOMAIN subms : subms'[j] = subms[j]
      /\ subms'[Len(subms) + 1] = d
  BY <1>1, <1>2, <1>3, LenProperties
<1> QED
  BY <1>1, <1>4 DEF d

\* The list of the replica that serves a POST gets one entry.
LEMMA StoreEffect ==
  ASSUME TypeOK, NEW s \in DOMAIN subms, NEW r \in Replicas, ServePost(s, r)
  PROVE  /\ store' \in [Replicas -> Contents]
         /\ \A q \in Replicas : q # r => store'[q] = store[q]
         /\ store'[r] = Added(store[r], subms[s].form)
         /\ DOMAIN store[r].subs = 1 .. Len(store[r].subs)
         /\ Len(store[r].subs) \in Nat
         /\ store'[r].subs = Append(store[r].subs, NewEntry(store[r], subms[s].form))
         /\ DOMAIN store'[r].subs = 1 .. Len(store[r].subs) + 1
         /\ \A i \in DOMAIN store[r].subs : store'[r].subs[i] = store[r].subs[i]
         /\ store'[r].subs[Len(store[r].subs) + 1] = NewEntry(store[r], subms[s].form)
<1> DEFINE c == store[r]
           d == NewEntry(c, subms[s].form)
<1>1. subms[s].form \in Forms
  BY Submissions DEF Submission
<1>2. c \in Contents /\ c.subs \in Seq(Entry) /\ c.serial \in Nat
  BY DEF TypeOK, Contents
<1>3. DOMAIN c.subs = 1 .. Len(c.subs) /\ Len(c.subs) \in Nat
  BY <1>2, LenProperties
<1>4. d \in Entry
  BY <1>1, <1>2, <1>3 DEF NewEntry, Entry
<1> DEFINE q == Append(c.subs, d)
<1>5. /\ q \in Seq(Entry)
      /\ DOMAIN q = 1 .. Len(c.subs) + 1
      /\ \A i \in DOMAIN c.subs : q[i] = c.subs[i]
      /\ q[Len(c.subs) + 1] = d
  <2> HIDE DEF d, c
  <2> QED
    BY <1>2, <1>3, <1>4, LenProperties
<1>6. store' = [store EXCEPT ![r] = Added(c, subms[s].form)]
  BY DEF ServePost
<1>7. Added(c, subms[s].form) = [c EXCEPT !.subs = q, !.serial = c.serial + 1]
  BY DEF Added
<1> HIDE DEF q, d
<1>8. Added(c, subms[s].form) \in Contents /\ Added(c, subms[s].form).subs = q
  <2> DEFINE a == Added(c, subms[s].form)
  <2> HIDE DEF c, a
  <2>1. a = [c EXCEPT !.subs = q, !.serial = c.serial + 1]
    BY <1>7 DEF a
  <2>2. c.serial + 1 \in Nat /\ c.deleted \in BOOLEAN
    BY <1>2 DEF Contents
  <2>3. a = [subs |-> q, serial |-> c.serial + 1, deleted |-> c.deleted]
    BY <1>2, <2>1 DEF Contents
  <2>4. a \in Contents /\ a.subs = q
    BY <1>5, <2>2, <2>3 DEF Contents
  <2> QED
    BY <2>4 DEF a
<1>9. /\ store' \in [Replicas -> Contents]
      /\ \A p \in Replicas : p # r => store'[p] = store[p]
      /\ store'[r] = Added(c, subms[s].form)
  BY <1>6, <1>8 DEF TypeOK
<1>10. store'[r].subs = q
  BY <1>8, <1>9
<1> QED
  BY <1>3, <1>5, <1>9, <1>10 DEF q, d

-----------------------------------------------------------------------------
(***************************************************************************)
(* Types.                                                                  *)
(***************************************************************************)

\* The steps of a submission that change no list and advance its phase.
AdvancesTo(s, ph) == Advance(s, ph) /\ UNCHANGED <<records, store>>

LEMMA AdvanceSteps ==
  ASSUME TypeOK, NEW s \in DOMAIN subms,
         \/ LookupMatched(s) \/ LookupFailed(s) \/ Confirmed(s)
         \/ SubscribeFailed(s) \/ ServeLookup(s) \/ LosePost(s)
  PROVE  /\ \E ph \in Phases : AdvancesTo(s, ph)
         /\ step' \in [Forms -> Steps]
         /\ pin' \in [Forms -> PinField]
<1>1. /\ step \in [Forms -> Steps] /\ pin \in [Forms -> PinField]
      /\ subms[s].form \in Forms
  BY Submissions DEF TypeOK, Submission
<1>2. /\ "post" \in Phases /\ "over" \in Phases /\ "given_up" \in Phases
      /\ "matched" \in Phases /\ "unmatched" \in Phases
  BY DEF Phases
<1>3. CASE LookupMatched(s)
  BY <1>1, <1>2, <1>3 DEF LookupMatched, AdvancesTo
<1>4. CASE LookupFailed(s)
  <2>1. pin' \in [Forms -> PinField]
    BY <1>1, <1>4 DEF LookupFailed, ClearPin, PinField
  <2> QED
    BY <1>1, <1>2, <1>4, <2>1 DEF LookupFailed, AdvancesTo
<1>5. CASE Confirmed(s)
  <2>1. step' \in [Forms -> Steps]
    BY <1>1, <1>5 DEF Confirmed, Steps
  <2> QED
    BY <1>1, <1>2, <1>5, <2>1 DEF Confirmed, AdvancesTo
<1>6. CASE SubscribeFailed(s)
  BY <1>1, <1>2, <1>6 DEF SubscribeFailed, AdvancesTo
<1>7. CASE ServeLookup(s)
  <2> DEFINE ph == IF subms[s].pin = "right" /\ subms[s].form \in records
                   THEN "matched" ELSE "unmatched"
  <2>1. ph \in Phases
    BY <1>2
  <2>2. AdvancesTo(s, ph)
    BY <1>7 DEF ServeLookup, AdvancesTo
  <2>3. UNCHANGED <<step, pin>>
    BY <1>7 DEF ServeLookup
  <2> HIDE DEF ph
  <2> QED
    BY <1>1, <2>1, <2>2, <2>3
<1>8. CASE LosePost(s)
  BY <1>1, <1>2, <1>8 DEF LosePost, AdvancesTo
<1> QED
  BY <1>3, <1>4, <1>5, <1>6, <1>7, <1>8

LEMMA StepKinds ==
  ASSUME [Next]_vars
  PROVE  \/ \E f \in Forms : \/ Continue(f) \/ Enrol(f)
                             \/ \E p \in {"right", "wrong"} : Type(f, p)
         \/ \E f \in Forms : Submit(f)
         \/ \E f \in Forms : Remount(f) \/ Reload(f)
         \/ \E s \in DOMAIN subms :
              \/ LookupMatched(s) \/ LookupFailed(s) \/ Confirmed(s)
              \/ SubscribeFailed(s) \/ ServeLookup(s) \/ LosePost(s)
         \/ \E s \in DOMAIN subms, r \in Replicas : ServePost(s, r)
         \/ \E r \in Replicas : Restart(r)
         \/ UNCHANGED vars
BY DEF Next, Settle

LEMMA EmptyIsContents == Empty \in Contents
<1>1. <<>> \in Seq(Entry)
  BY NoEntries
<1> QED
  BY <1>1 DEF Empty, Contents

LEMMA TypeStep ==
  ASSUME TypeOK, [Next]_vars
  PROVE  TypeOK'
<1>0. /\ records \subseteq Forms /\ step \in [Forms -> Steps]
      /\ pin \in [Forms -> PinField] /\ subms \in Seq(Submission)
      /\ store \in [Replicas -> Contents]
  BY DEF TypeOK
<1>1. ASSUME NEW f \in Forms,
             \/ Continue(f) \/ Enrol(f) \/ \E p \in {"right", "wrong"} : Type(f, p)
      PROVE  TypeOK'
  BY <1>0, <1>1 DEF Continue, Enrol, Type, TypeOK, Steps, PinField
<1>2. ASSUME NEW f \in Forms, Submit(f)
      PROVE  TypeOK'
  <2>1. subms' \in Seq(Submission)
    BY <1>2, SubmitEffect
  <2> QED
    BY <1>0, <1>2, <2>1 DEF Submit, TypeOK
<1>3. ASSUME NEW f \in Forms, Remount(f) \/ Reload(f)
      PROVE  TypeOK'
  <2>1. subms' \in Seq(Submission)
    BY <1>3, DetachEffect
  <2>2. /\ step' = [step EXCEPT ![f] = "phone"] /\ pin' = [pin EXCEPT ![f] = "empty"]
        /\ UNCHANGED <<records, store>>
    BY <1>3 DEF Remount, Reload
  <2>3. step' \in [Forms -> Steps] /\ pin' \in [Forms -> PinField]
    BY <1>0, <2>2 DEF Steps, PinField
  <2> QED
    BY <1>0, <2>1, <2>2, <2>3 DEF TypeOK
<1>4. ASSUME NEW s \in DOMAIN subms,
             \/ LookupMatched(s) \/ LookupFailed(s) \/ Confirmed(s)
             \/ SubscribeFailed(s) \/ ServeLookup(s) \/ LosePost(s)
      PROVE  TypeOK'
  <2>1. PICK ph \in Phases : AdvancesTo(s, ph)
    BY <1>4, AdvanceSteps
  <2>2. step' \in [Forms -> Steps] /\ pin' \in [Forms -> PinField]
    BY <1>4, AdvanceSteps
  <2>3. subms' \in Seq(Submission)
    BY <2>1, AdvanceEffect DEF AdvancesTo
  <2> QED
    BY <1>0, <2>1, <2>2, <2>3 DEF TypeOK, AdvancesTo
<1>5. ASSUME NEW s \in DOMAIN subms, NEW r \in Replicas, ServePost(s, r)
      PROVE  TypeOK'
  <2>1. subms' \in Seq(Submission)
    BY <1>5, ServedEffect DEF ServePost
  <2>2. store' \in [Replicas -> Contents]
    BY <1>5, StoreEffect
  <2> QED
    BY <1>0, <1>5, <2>1, <2>2 DEF ServePost, TypeOK
<1>6. ASSUME NEW r \in Replicas, Restart(r)
      PROVE  TypeOK'
  BY <1>0, <1>6, EmptyIsContents DEF Restart, TypeOK
<1>7. CASE UNCHANGED vars
  BY <1>0, <1>7 DEF vars, TypeOK
<1> QED
  BY <1>1, <1>2, <1>3, <1>4, <1>5, <1>6, <1>7, StepKinds

\* Every form, submission and list keeps its shape: in particular each entry
\* is a complete subscription of a form's fan.
THEOREM TypeCorrect == Spec => []TypeOK
<1>1. Init => TypeOK
  BY NoEntries, EmptyIsContents DEF Init, TypeOK, Steps, PinField
<1>2. TypeOK /\ [Next]_vars => TypeOK'
  BY TypeStep
<1> QED
  BY <1>1, <1>2, PTL DEF Spec

-----------------------------------------------------------------------------
(***************************************************************************)
(* The inductive invariant.                                                *)
(***************************************************************************)

\* The phase a submission moves to is one that fits what is known of it.
LEMMA AdvanceFits ==
  ASSUME TypeOK, FlowInv, NEW s \in DOMAIN subms,
         \/ LookupMatched(s) \/ LookupFailed(s) \/ Confirmed(s)
         \/ SubscribeFailed(s) \/ ServeLookup(s) \/ LosePost(s)
  PROVE  \E ph \in Phases :
           /\ AdvancesTo(s, ph)
           /\ subms[s].phase # "over"
           /\ ph \in {"matched", "unmatched", "post", "given_up"} => ~subms[s].stored
           /\ ph # "created" /\ ph # "lookup"
           /\ ph \in {"matched", "post", "given_up"} =>
                subms[s].pin = "right" /\ subms[s].form \in records
<1>1. SubmissionHolds(s)
  BY DEF FlowInv
<1>2. /\ "post" \in Phases /\ "over" \in Phases /\ "given_up" \in Phases
      /\ "matched" \in Phases /\ "unmatched" \in Phases
  BY DEF Phases
<1>3. CASE LookupMatched(s)
  BY <1>1, <1>2, <1>3 DEF LookupMatched, AdvancesTo, SubmissionHolds
<1>4. CASE LookupFailed(s)
  BY <1>1, <1>2, <1>4 DEF LookupFailed, AdvancesTo, SubmissionHolds
<1>5. CASE Confirmed(s)
  BY <1>1, <1>2, <1>5 DEF Confirmed, AdvancesTo, SubmissionHolds
<1>6. CASE SubscribeFailed(s)
  BY <1>1, <1>2, <1>6 DEF SubscribeFailed, AdvancesTo, SubmissionHolds
<1>7. CASE ServeLookup(s)
  <2>1. CASE subms[s].pin = "right" /\ subms[s].form \in records
    <3>1. AdvancesTo(s, "matched")
      BY <1>7, <2>1 DEF ServeLookup, AdvancesTo
    <3> QED
      BY <1>1, <1>2, <1>7, <2>1, <3>1 DEF ServeLookup, SubmissionHolds
  <2>2. CASE ~(subms[s].pin = "right" /\ subms[s].form \in records)
    <3>1. AdvancesTo(s, "unmatched")
      BY <1>7, <2>2 DEF ServeLookup, AdvancesTo
    <3> QED
      BY <1>1, <1>2, <1>7, <3>1 DEF ServeLookup, SubmissionHolds
  <2> QED
    BY <2>1, <2>2
<1>8. CASE LosePost(s)
  BY <1>1, <1>2, <1>8 DEF LosePost, AdvancesTo, SubmissionHolds
<1> QED
  BY <1>3, <1>4, <1>5, <1>6, <1>7, <1>8

\* Submissions keep their form and PIN, and what is stored or registered
\* stays so.
LEMMA NothingForgotten ==
  ASSUME TypeOK, [Next]_vars
  PROVE  /\ DOMAIN subms \subseteq DOMAIN subms'
         /\ records \subseteq records'
         /\ \A j \in DOMAIN subms :
              /\ subms'[j].form = subms[j].form
              /\ subms'[j].pin = subms[j].pin
              /\ subms[j].stored => subms'[j].stored
<1>1. CASE \E f \in Forms : \/ Continue(f) \/ Enrol(f)
                            \/ \E p \in {"right", "wrong"} : Type(f, p)
  BY <1>1 DEF Continue, Enrol, Type
<1>2. ASSUME NEW f \in Forms, Submit(f)
      PROVE  /\ DOMAIN subms \subseteq DOMAIN subms'
             /\ records \subseteq records'
             /\ \A j \in DOMAIN subms : subms'[j] = subms[j]
  BY <1>2, SubmitEffect DEF Submit
<1>3. ASSUME NEW f \in Forms, Remount(f) \/ Reload(f)
      PROVE  /\ DOMAIN subms \subseteq DOMAIN subms'
             /\ records \subseteq records'
             /\ \A j \in DOMAIN subms :
                  /\ subms'[j].form = subms[j].form
                  /\ subms'[j].pin = subms[j].pin
                  /\ subms[j].stored => subms'[j].stored
  BY <1>3, DetachEffect DEF Remount, Reload
<1>4. ASSUME NEW s \in DOMAIN subms,
             \/ LookupMatched(s) \/ LookupFailed(s) \/ Confirmed(s)
             \/ SubscribeFailed(s) \/ ServeLookup(s) \/ LosePost(s)
      PROVE  /\ DOMAIN subms \subseteq DOMAIN subms'
             /\ records \subseteq records'
             /\ \A j \in DOMAIN subms :
                  /\ subms'[j].form = subms[j].form
                  /\ subms'[j].pin = subms[j].pin
                  /\ subms[j].stored => subms'[j].stored
  <2>1. PICK ph \in Phases : AdvancesTo(s, ph)
    BY <1>4, AdvanceSteps
  <2> QED
    BY <2>1, AdvanceEffect DEF AdvancesTo
<1>5. ASSUME NEW s \in DOMAIN subms, NEW r \in Replicas, ServePost(s, r)
      PROVE  /\ DOMAIN subms \subseteq DOMAIN subms'
             /\ records \subseteq records'
             /\ \A j \in DOMAIN subms :
                  /\ subms'[j].form = subms[j].form
                  /\ subms'[j].pin = subms[j].pin
                  /\ subms[j].stored => subms'[j].stored
  BY <1>5, ServedEffect DEF ServePost
<1>6. CASE \E r \in Replicas : Restart(r)
  BY <1>6 DEF Restart
<1>7. CASE UNCHANGED vars
  BY <1>7 DEF vars
<1> QED
  BY <1>1, <1>2, <1>3, <1>4, <1>5, <1>6, <1>7, StepKinds

\* What a submission waits for tells what is known of it, after each step.
LEMMA HoldsStep ==
  ASSUME TypeOK, FlowInv, [Next]_vars
  PROVE  \A j \in DOMAIN subms' : SubmissionHolds(j)'
<1>0. \A j \in DOMAIN subms : SubmissionHolds(j)
  BY DEF FlowInv
<1>1. CASE \E f \in Forms : \/ Continue(f) \/ Enrol(f)
                            \/ \E p \in {"right", "wrong"} : Type(f, p)
  BY <1>0, <1>1 DEF Continue, Enrol, Type, SubmissionHolds
<1>2. ASSUME NEW f \in Forms, Submit(f), NEW j \in DOMAIN subms'
      PROVE  SubmissionHolds(j)'
  <2>1. UNCHANGED records
    BY <1>2 DEF Submit
  <2>2. CASE j \in DOMAIN subms
    <3>1. subms'[j] = subms[j] /\ SubmissionHolds(j)
      BY <1>0, <1>2, <2>2, SubmitEffect
    <3> QED
      BY <2>1, <3>1 DEF SubmissionHolds
  <2>3. CASE j = Len(subms) + 1
    <3>1. subms'[j] = [form |-> f, pin |-> pin[f], phase |-> "lookup",
                       attached |-> TRUE, stored |-> FALSE]
      BY <1>2, <2>3, SubmitEffect
    <3>2. subms'[j].phase = "lookup" /\ subms'[j].stored = FALSE
      BY <3>1
    <3> QED
      BY <3>2 DEF SubmissionHolds
  <2>4. /\ DOMAIN subms = 1 .. Len(subms) /\ Len(subms) \in Nat
        /\ DOMAIN subms' = 1 .. Len(subms) + 1
    BY <1>2, SubmitEffect
  <2>5. j \in DOMAIN subms \/ j = Len(subms) + 1
    BY <2>4
  <2> QED
    BY <2>2, <2>3, <2>5
<1>3. ASSUME NEW f \in Forms, Remount(f) \/ Reload(f), NEW j \in DOMAIN subms'
      PROVE  SubmissionHolds(j)'
  <2>1. UNCHANGED records
    BY <1>3 DEF Remount, Reload
  <2>2. j \in DOMAIN subms /\ SubmissionHolds(j)
    BY <1>0, <1>3, DetachEffect
  <2>3. /\ subms'[j].form = subms[j].form /\ subms'[j].pin = subms[j].pin
        /\ subms'[j].stored = subms[j].stored
        /\ \/ subms'[j].phase = subms[j].phase
           \/ subms[j].phase = "post" /\ subms'[j].phase = "given_up"
           \/ subms'[j].phase = "over"
    BY <1>3, <2>2, DetachEffect
  <2> QED
    BY <2>1, <2>2, <2>3 DEF SubmissionHolds
<1>4. ASSUME NEW s \in DOMAIN subms,
             \/ LookupMatched(s) \/ LookupFailed(s) \/ Confirmed(s)
             \/ SubscribeFailed(s) \/ ServeLookup(s) \/ LosePost(s),
             NEW j \in DOMAIN subms'
      PROVE  SubmissionHolds(j)'
  <2>1. PICK ph \in Phases :
          /\ AdvancesTo(s, ph)
          /\ subms[s].phase # "over"
          /\ ph \in {"matched", "unmatched", "post", "given_up"} => ~subms[s].stored
          /\ ph # "created" /\ ph # "lookup"
          /\ ph \in {"matched", "post", "given_up"} =>
               subms[s].pin = "right" /\ subms[s].form \in records
    BY <1>4, AdvanceFits
  <2>2. Advance(s, ph) /\ UNCHANGED records
    BY <2>1 DEF AdvancesTo
  <2>3. j \in DOMAIN subms /\ SubmissionHolds(j)
    BY <1>0, <2>2, AdvanceEffect
  <2>4. /\ subms'[j].form = subms[j].form /\ subms'[j].pin = subms[j].pin
        /\ subms'[j].stored = subms[j].stored
        /\ subms'[j].phase = IF j = s THEN ph ELSE subms[j].phase
    BY <2>2, <2>3, AdvanceEffect
  <2> QED
    BY <2>1, <2>2, <2>3, <2>4 DEF SubmissionHolds
<1>5. ASSUME NEW s \in DOMAIN subms, NEW r \in Replicas, ServePost(s, r),
             NEW j \in DOMAIN subms'
      PROVE  SubmissionHolds(j)'
  <2>1. /\ Served(s) /\ UNCHANGED records
        /\ subms[s].phase \in {"post", "given_up"}
    BY <1>5 DEF ServePost
  <2>2. j \in DOMAIN subms /\ SubmissionHolds(j)
    BY <1>0, <2>1, ServedEffect
  <2>3. /\ subms'[j].form = subms[j].form /\ subms'[j].pin = subms[j].pin
        /\ subms'[j].stored = (j = s \/ subms[j].stored)
        /\ subms'[j].phase = IF j = s THEN IF subms[j].phase = "post" THEN "created"
                                                                      ELSE "over"
                                      ELSE subms[j].phase
    BY <2>1, <2>2, ServedEffect
  <2> QED
    BY <2>1, <2>2, <2>3 DEF SubmissionHolds
<1>6. CASE \E r \in Replicas : Restart(r)
  BY <1>0, <1>6 DEF Restart, SubmissionHolds
<1>7. CASE UNCHANGED vars
  BY <1>0, <1>7 DEF vars, SubmissionHolds
<1> QED
  BY <1>1, <1>2, <1>3, <1>4, <1>5, <1>6, <1>7, StepKinds

\* Every entry of a list is a fan's whose submission was stored.
EntriesOwned ==
    \A r \in Replicas : \A i \in DOMAIN store[r].subs :
      StoredBy(store[r].subs[i].fan) # {}

LEMMA StoredGrows ==
  ASSUME TypeOK, [Next]_vars, NEW f
  PROVE  StoredBy(f) \subseteq StoredBy(f)'
BY NothingForgotten DEF StoredBy

LEMMA EntriesOwnedStep ==
  ASSUME TypeOK, EntriesOwned, [Next]_vars
  PROVE  EntriesOwned'
<1>1. CASE UNCHANGED store
  <2> SUFFICES ASSUME NEW r \in Replicas, NEW i \in DOMAIN store'[r].subs
               PROVE  (StoredBy(store[r].subs[i].fan) # {})'
    BY DEF EntriesOwned
  <2> DEFINE f == store[r].subs[i].fan
  <2>1. store'[r].subs[i].fan = f /\ StoredBy(f) # {}
    BY <1>1 DEF EntriesOwned
  <2>2. StoredBy(f) \subseteq {s \in DOMAIN subms' : subms'[s].form = f /\ subms'[s].stored}
    BY NothingForgotten DEF StoredBy
  <2>3. {s \in DOMAIN subms' : subms'[s].form = f /\ subms'[s].stored} # {}
    BY <2>1, <2>2
  <2> QED
    BY <1>1, <2>3 DEF StoredBy
<1>2. ASSUME NEW s \in DOMAIN subms, NEW q \in Replicas, ServePost(s, q)
      PROVE  EntriesOwned'
  <2> SUFFICES ASSUME NEW r \in Replicas, NEW i \in DOMAIN store'[r].subs
               PROVE  \E t \in DOMAIN subms' : /\ subms'[t].form = store'[r].subs[i].fan
                                               /\ subms'[t].stored
    BY DEF EntriesOwned, StoredBy
  <2>1. CASE r # q \/ i \in DOMAIN store[r].subs
    <3>1. i \in DOMAIN store[r].subs /\ store'[r].subs[i] = store[r].subs[i]
      BY <1>2, <2>1, StoreEffect
    <3>2. PICK t \in DOMAIN subms : /\ subms[t].form = store[r].subs[i].fan
                                    /\ subms[t].stored
      BY <3>1 DEF EntriesOwned, StoredBy
    <3>3. t \in DOMAIN subms' /\ subms'[t].form = subms[t].form /\ subms'[t].stored
      BY <3>2, NothingForgotten
    <3> QED
      BY <3>1, <3>2, <3>3
  <2>2. CASE r = q /\ i \notin DOMAIN store[r].subs
    <3>1. /\ DOMAIN store[r].subs = 1 .. Len(store[r].subs)
          /\ Len(store[r].subs) \in Nat
          /\ DOMAIN store'[r].subs = 1 .. Len(store[r].subs) + 1
      BY <1>2, <2>2, StoreEffect
    <3>2. i = Len(store[r].subs) + 1
      BY <2>2, <3>1
    <3>3. store'[r].subs[i] = NewEntry(store[r], subms[s].form)
      BY <1>2, <2>2, <3>2, StoreEffect
    <3>4. store'[r].subs[i].fan = subms[s].form
      BY <3>3 DEF NewEntry
    <3>5. s \in DOMAIN subms' /\ subms'[s].form = subms[s].form /\ subms'[s].stored
      BY <1>2, ServedEffect DEF ServePost
    <3> QED
      BY <3>4, <3>5
  <2> QED
    BY <2>1, <2>2
<1>3. ASSUME NEW q \in Replicas, Restart(q)
      PROVE  EntriesOwned'
  <2>1. /\ store' = [store EXCEPT ![q] = Empty] /\ UNCHANGED subms
        /\ store \in [Replicas -> Contents]
    BY <1>3 DEF Restart, TypeOK
  <2>2. \A r \in Replicas : store'[r] = IF r = q THEN Empty ELSE store[r]
    BY <2>1
  <2>3. DOMAIN Empty.subs = {}
    BY DEF Empty
  <2>4. \A r \in Replicas : \A i \in DOMAIN store'[r].subs :
          r # q /\ store'[r] = store[r]
    BY <2>2, <2>3
  <2> QED
    BY <2>1, <2>4 DEF EntriesOwned, StoredBy
<1>4. \/ UNCHANGED store
      \/ \E s \in DOMAIN subms, q \in Replicas : ServePost(s, q)
      \/ \E q \in Replicas : Restart(q)
  BY DEF Next, Settle, Continue, Type, Submit, Remount, Reload, Enrol, vars,
         LookupMatched, LookupFailed, Confirmed, SubscribeFailed, ServeLookup, LosePost
<1> QED
  BY <1>1, <1>2, <1>3, <1>4

\* While a form shows the confirmation, its finished submissions stay as
\* they are.
LEMMA FinishedStays ==
  ASSUME TypeOK, FlowInv, [Next]_vars,
         NEW f \in Forms, step'[f] = "confirmation",
         NEW t \in DOMAIN subms,
         subms[t].form = f, subms[t].phase = "over", subms[t].attached
  PROVE  subms'[t].phase = "over" /\ subms'[t].attached
<1>1. CASE \E g \in Forms : \/ Continue(g) \/ Enrol(g)
                            \/ \E p \in {"right", "wrong"} : Type(g, p)
  BY <1>1 DEF Continue, Enrol, Type
<1>2. ASSUME NEW g \in Forms, Submit(g)
      PROVE  subms'[t].phase = "over" /\ subms'[t].attached
  BY <1>2, SubmitEffect
<1>3. ASSUME NEW g \in Forms, Remount(g) \/ Reload(g)
      PROVE  subms'[t].phase = "over" /\ subms'[t].attached
  <2>1. step'[g] = "phone"
    BY <1>3 DEF Remount, Reload, TypeOK
  <2>2. subms[t].form # g
    BY <2>1
  <2> QED
    BY <1>3, <2>2, DetachEffect
<1>4. ASSUME NEW s \in DOMAIN subms,
             \/ LookupMatched(s) \/ LookupFailed(s) \/ Confirmed(s)
             \/ SubscribeFailed(s) \/ ServeLookup(s) \/ LosePost(s)
      PROVE  subms'[t].phase = "over" /\ subms'[t].attached
  <2>1. PICK ph \in Phases : AdvancesTo(s, ph) /\ subms[s].phase # "over"
    BY <1>4, AdvanceFits
  <2>2. t # s
    BY <2>1
  <2> QED
    BY <2>1, <2>2, AdvanceEffect DEF AdvancesTo
<1>5. ASSUME NEW s \in DOMAIN subms, NEW r \in Replicas, ServePost(s, r)
      PROVE  subms'[t].phase = "over" /\ subms'[t].attached
  <2>1. Served(s) /\ t # s
    BY <1>5 DEF ServePost
  <2> QED
    BY <2>1, ServedEffect
<1>6. CASE \E r \in Replicas : Restart(r)
  BY <1>6 DEF Restart
<1>7. CASE UNCHANGED vars
  BY <1>7 DEF vars
<1> QED
  BY <1>1, <1>2, <1>3, <1>4, <1>5, <1>6, <1>7, StepKinds

\* Only Confirmed() shows the confirmation.
LEMMA WhoConfirms ==
  ASSUME TypeOK, [Next]_vars, NEW f \in Forms, step'[f] = "confirmation"
  PROVE  \/ step[f] = "confirmation"
         \/ \E s \in DOMAIN subms : /\ Confirmed(s) /\ subms[s].attached
                                    /\ subms[s].form = f
<1>1. ASSUME NEW g \in Forms, Continue(g) \/ Remount(g) \/ Reload(g)
      PROVE  step[f] = "confirmation"
  BY <1>1 DEF Continue, Remount, Reload, TypeOK
<1>2. ASSUME NEW s \in DOMAIN subms, Confirmed(s)
      PROVE  \/ step[f] = "confirmation"
             \/ subms[s].attached /\ subms[s].form = f
  <2>1. CASE subms[s].attached
    BY <1>2, <2>1 DEF Confirmed, TypeOK
  <2>2. CASE ~subms[s].attached
    BY <1>2, <2>2 DEF Confirmed
  <2> QED
    BY <2>1, <2>2
<1>3. \/ UNCHANGED step
      \/ \E g \in Forms : Continue(g) \/ Remount(g) \/ Reload(g)
      \/ \E s \in DOMAIN subms : Confirmed(s)
  BY DEF Next, Settle, Type, Submit, Enrol, Restart, vars, LookupMatched, LookupFailed,
         SubscribeFailed, ServeLookup, LosePost, ServePost
<1> QED
  BY <1>1, <1>2, <1>3

LEMMA ConfirmedStep ==
  ASSUME TypeOK, FlowInv, [Next]_vars
  PROVE  ConfirmedIsStored'
<1> SUFFICES ASSUME NEW f \in Forms, step'[f] = "confirmation"
             PROVE  \E t \in DOMAIN subms' :
                      /\ subms'[t].form = f /\ subms'[t].stored
                      /\ subms'[t].attached /\ subms'[t].phase = "over"
  BY DEF ConfirmedIsStored, StoredBy
<1>1. CASE step[f] = "confirmation"
  <2>1. PICK t \in DOMAIN subms :
          /\ subms[t].form = f /\ subms[t].stored
          /\ subms[t].attached /\ subms[t].phase = "over"
    BY <1>1 DEF FlowInv, ConfirmedIsStored, StoredBy
  <2>2. t \in DOMAIN subms' /\ subms'[t].form = f /\ subms'[t].stored
    BY <2>1, NothingForgotten
  <2>3. subms'[t].attached /\ subms'[t].phase = "over"
    BY <2>1, FinishedStays
  <2> QED
    BY <2>2, <2>3
<1>2. ASSUME NEW s \in DOMAIN subms, Confirmed(s), subms[s].attached, subms[s].form = f
      PROVE  \E t \in DOMAIN subms' :
               /\ subms'[t].form = f /\ subms'[t].stored
               /\ subms'[t].attached /\ subms'[t].phase = "over"
  <2>1. Advance(s, "over") /\ subms[s].phase = "created" /\ "over" \in Phases
    BY <1>2 DEF Confirmed, Phases
  <2>2. subms[s].stored
    BY <2>1 DEF FlowInv, SubmissionHolds
  <2>3. /\ s \in DOMAIN subms' /\ subms'[s].form = f /\ subms'[s].stored = subms[s].stored
        /\ subms'[s].attached = subms[s].attached /\ subms'[s].phase = "over"
    BY <1>2, <2>1, AdvanceEffect
  <2> QED
    BY <1>2, <2>2, <2>3
<1> QED
  BY <1>1, <1>2, WhoConfirms

\* What a submission waits for agrees with what the servers found and stored
\* for it, every entry has a submission, and every confirmation an entry.
THEOREM FlowCorrect == Spec => []FlowInv
<1>1. Init => FlowInv
  <2> SUFFICES ASSUME Init PROVE FlowInv
    OBVIOUS
  <2>1. DOMAIN subms = {} /\ \A r \in Replicas : DOMAIN store[r].subs = {}
    BY DEF Init, Empty
  <2>2. ConfirmedIsStored
    BY DEF Init, ConfirmedIsStored
  <2> QED
    BY <2>1, <2>2 DEF FlowInv
<1>2. TypeOK /\ FlowInv /\ [Next]_vars => FlowInv'
  <2> SUFFICES ASSUME TypeOK, FlowInv, [Next]_vars PROVE FlowInv'
    OBVIOUS
  <2>1. EntriesOwned
    BY DEF FlowInv, EntriesOwned
  <2>2. EntriesOwned'
    BY <2>1, EntriesOwnedStep
  <2> QED
    BY <2>2, HoldsStep, ConfirmedStep DEF FlowInv, EntriesOwned
<1> QED
  BY <1>1, <1>2, TypeCorrect, PTL DEF Spec

\* The confirmation is shown only for a subscription some replica stored for
\* that very form.
THEOREM ConfirmationIsTrue == Spec => []ConfirmedIsStored
<1>1. FlowInv => ConfirmedIsStored
  BY DEF FlowInv
<1> QED
  BY <1>1, FlowCorrect, PTL

\* Only fans whose phone and PIN are registered subscribe, although the POST
\* does not carry the PIN.
THEOREM FansAreRegistered == Spec => []OnlyRegisteredFans
<1>1. FlowInv => OnlyRegisteredFans
  BY DEF FlowInv, OnlyRegisteredFans, SubmissionHolds, StoredBy
<1> QED
  BY <1>1, FlowCorrect, PTL

-----------------------------------------------------------------------------
(***************************************************************************)
(* Each replica is a SubscriberStore.                                      *)
(***************************************************************************)

\* A POST is Create there, a restart is Restart, and the rest is not seen.
THEOREM ReplicaImplementsStore == Spec => ReplicaIsStore
<1>1. Init => Store!Init
  BY ChosenAssumption DEF Init, Store!Init, Empty
<1>2. TypeOK /\ [Next]_vars => [Store!Next]_Store!vars
  <2> SUFFICES ASSUME TypeOK, [Next]_vars PROVE [Store!Next]_Store!vars
    OBVIOUS
  <2>1. CASE UNCHANGED store
    BY <2>1 DEF Store!vars
  <2>2. ASSUME NEW s \in DOMAIN subms, NEW r \in Replicas, ServePost(s, r)
        PROVE  [Store!Next]_Store!vars
    <3>1. CASE r # Chosen
      BY <2>2, <3>1, StoreEffect, ChosenAssumption DEF Store!vars
    <3>2. CASE r = Chosen
      <4> DEFINE c == store[Chosen]
                 f == subms[s].form
      <4>1. f \in Forms /\ c \in Contents
        BY <2>2, <3>2, Submissions DEF Submission, TypeOK
      <4>2. c.subs \in Seq(Entry) /\ c.serial \in Nat /\ Len(c.subs) \in Nat
        BY <4>1, LenProperties DEF Contents
      <4>3. store'[Chosen] = Added(c, f)
        BY <2>2, <3>2, StoreEffect
      <4>4. Fits(c)
        BY <2>2, <3>2 DEF ServePost
      <4>5. /\ store'[Chosen].subs = Append(c.subs, NewEntry(c, f))
            /\ store'[Chosen].serial = c.serial + 1
            /\ store'[Chosen].deleted = c.deleted
        BY <4>1, <4>3 DEF Added, Contents
      <4>6. Store!Room(1)
        BY <4>2, <4>4, FlowBoundsAssumption DEF Fits, Store!Room
      <4>7. Store!Create(f, "amount", "frequency", TRUE)
        BY <4>5, <4>6 DEF Store!Create, Store!AppendEntry, NewEntry
      <4> QED
        BY <4>1, <4>7 DEF Store!Next
    <3> QED
      BY <3>1, <3>2
  <2>3. ASSUME NEW r \in Replicas, Restart(r)
        PROVE  [Store!Next]_Store!vars
    <3>1. store \in [Replicas -> Contents] /\ store' = [store EXCEPT ![r] = Empty]
      BY <2>3 DEF Restart, TypeOK
    <3>2. CASE r # Chosen
      BY <3>1, <3>2, ChosenAssumption DEF Store!vars
    <3>3. CASE r = Chosen
      BY <3>1, <3>3 DEF Store!Next, Store!Restart, Empty
    <3> QED
      BY <3>2, <3>3
  <2>4. \/ UNCHANGED store
        \/ \E s \in DOMAIN subms, r \in Replicas : ServePost(s, r)
        \/ \E r \in Replicas : Restart(r)
    BY DEF Next, Settle, Continue, Type, Submit, Remount, Reload, Enrol, vars,
           LookupMatched, LookupFailed, Confirmed, SubscribeFailed, ServeLookup, LosePost
  <2> QED
    BY <2>1, <2>2, <2>3, <2>4
<1> QED
  BY <1>1, <1>2, TypeCorrect, PTL DEF Spec, ReplicaIsStore, Store!Spec

-----------------------------------------------------------------------------
(***************************************************************************)
(* Counting subscriptions and submissions.                                 *)
(***************************************************************************)
LEMMA CountsAreFinite ==
  ASSUME TypeOK, NEW f
  PROVE  /\ IsFiniteSet(EntriesOf(f)) /\ Cardinality(EntriesOf(f)) \in Nat
         /\ IsFiniteSet(StoredBy(f)) /\ Cardinality(StoredBy(f)) \in Nat
<1>1. IsFiniteSet(1 .. MaxSerial)
  BY FlowBoundsAssumption, FS_Interval
<1>2. IsFiniteSet(Replicas \X (1 .. MaxSerial))
  BY <1>1, ReplicasAssumption, FS_Product
<1>3. EntriesOf(f) \in SUBSET (Replicas \X (1 .. MaxSerial))
  BY DEF EntriesOf
<1>4. DOMAIN subms = 1 .. Len(subms) /\ Len(subms) \in Int
  BY Submissions
<1>5. IsFiniteSet(1 .. Len(subms))
  BY <1>4, FS_Interval
<1>6. StoredBy(f) \in SUBSET (1 .. Len(subms))
  BY <1>4 DEF StoredBy
<1>7. IsFiniteSet(EntriesOf(f)) /\ IsFiniteSet(StoredBy(f))
  BY <1>2, <1>3, <1>5, <1>6, FS_Subset
<1> QED
  BY <1>7, FS_CardinalityType

LEMMA MoreElements ==
  ASSUME NEW S, NEW T, IsFiniteSet(T), S \subseteq T
  PROVE  /\ IsFiniteSet(S) /\ Cardinality(S) \in Nat /\ Cardinality(T) \in Nat
         /\ Cardinality(S) <= Cardinality(T)
<1>1. S \in SUBSET T
  OBVIOUS
<1> QED
  BY <1>1, FS_Subset, FS_CardinalityType

LEMMA OneMoreElement ==
  ASSUME NEW S, NEW x, IsFiniteSet(S)
  PROVE  /\ IsFiniteSet(S \union {x})
         /\ Cardinality(S \union {x}) =
              IF x \in S THEN Cardinality(S) ELSE Cardinality(S) + 1
BY FS_AddElement

\* Only the POST of a submission of f gives f an entry, and one only.
LEMMA EntriesStep ==
  ASSUME TypeOK, [Next]_vars, NEW f
  PROVE  \/ EntriesOf(f)' \subseteq EntriesOf(f)
         \/ \E s \in DOMAIN subms, r \in Replicas :
              /\ ServePost(s, r) /\ subms[s].form = f
              /\ EntriesOf(f)' \subseteq
                   EntriesOf(f) \union {<<r, Len(store[r].subs) + 1>>}
<1>1. CASE UNCHANGED store
  BY <1>1 DEF EntriesOf
<1>2. ASSUME NEW s \in DOMAIN subms, NEW r \in Replicas, ServePost(s, r)
      PROVE  \/ EntriesOf(f)' \subseteq EntriesOf(f)
             \/ /\ subms[s].form = f
                /\ EntriesOf(f)' \subseteq
                     EntriesOf(f) \union {<<r, Len(store[r].subs) + 1>>}
  <2> DEFINE n == Len(store[r].subs)
  <2>1. /\ DOMAIN store[r].subs = 1 .. n /\ n \in Nat
        /\ DOMAIN store'[r].subs = 1 .. n + 1
    BY <1>2, StoreEffect
  <2>2. store'[r].subs[n + 1].fan = subms[s].form
    <3>1. store'[r].subs[n + 1] = NewEntry(store[r], subms[s].form)
      BY <1>2, StoreEffect
    <3> QED
      BY <3>1 DEF NewEntry
  <2>3. ASSUME NEW e \in EntriesOf(f)', e \notin EntriesOf(f)
        PROVE  e = <<r, n + 1>> /\ subms[s].form = f
    <3>1. /\ e \in Replicas \X (1 .. MaxSerial)
          /\ e[2] \in DOMAIN store'[e[1]].subs
          /\ store'[e[1]].subs[e[2]].fan = f
      BY <2>3 DEF EntriesOf
    <3>2. e[1] \in Replicas /\ e = <<e[1], e[2]>>
      BY <3>1
    <3>3. CASE e[1] # r
      BY <1>2, <2>3, <3>1, <3>2, <3>3, StoreEffect DEF EntriesOf
    <3>4. CASE e[1] = r /\ e[2] \in DOMAIN store[r].subs
      BY <1>2, <2>3, <3>1, <3>2, <3>4, StoreEffect DEF EntriesOf
    <3>5. CASE e[1] = r /\ e[2] \notin DOMAIN store[r].subs
      <4>1. e[2] = n + 1
        BY <2>1, <3>1, <3>5
      <4> QED
        BY <2>2, <3>1, <3>2, <3>5, <4>1
    <3> QED
      BY <3>3, <3>4, <3>5
  <2> HIDE DEF n
  <2>4. CASE subms[s].form = f
    <3>1. EntriesOf(f)' \subseteq EntriesOf(f) \union {<<r, n + 1>>}
      BY <2>3
    <3> QED
      BY <2>4, <3>1 DEF n
  <2>5. CASE subms[s].form # f
    BY <2>3, <2>5
  <2> QED
    BY <2>4, <2>5
<1>3. ASSUME NEW q \in Replicas, Restart(q)
      PROVE  EntriesOf(f)' \subseteq EntriesOf(f)
  <2>1. store' = [store EXCEPT ![q] = Empty] /\ store \in [Replicas -> Contents]
    BY <1>3 DEF Restart, TypeOK
  <2>2. \A r \in Replicas : store'[r] = IF r = q THEN Empty ELSE store[r]
    BY <2>1
  <2>3. DOMAIN Empty.subs = {}
    BY DEF Empty
  <2>4. ASSUME NEW e \in EntriesOf(f)'
        PROVE  e \in EntriesOf(f)
    <3>1. /\ e \in Replicas \X (1 .. MaxSerial)
          /\ e[2] \in DOMAIN store'[e[1]].subs
          /\ store'[e[1]].subs[e[2]].fan = f
      BY <2>4 DEF EntriesOf
    <3>2. store'[e[1]] = store[e[1]]
      BY <2>2, <2>3, <3>1
    <3> QED
      BY <3>1, <3>2 DEF EntriesOf
  <2> QED
    BY <2>4
<1>4. \/ UNCHANGED store
      \/ \E s \in DOMAIN subms, r \in Replicas : ServePost(s, r)
      \/ \E r \in Replicas : Restart(r)
  BY DEF Next, Settle, Continue, Type, Submit, Remount, Reload, Enrol, vars,
         LookupMatched, LookupFailed, Confirmed, SubscribeFailed, ServeLookup, LosePost
<1> QED
  BY <1>1, <1>2, <1>3, <1>4

\* A submission subscribes at most once, whatever is lost or served late.
THEOREM SubscribesAtMostOnce == Spec => []OnceForEachSubmission
<1>1. Init => OnceForEachSubmission
  <2> SUFFICES ASSUME Init, NEW f \in Forms
               PROVE  Cardinality(EntriesOf(f)) <= Cardinality(StoredBy(f))
    BY DEF OnceForEachSubmission
  <2>1. EntriesOf(f) = {} /\ StoredBy(f) = {}
    BY DEF Init, Empty, EntriesOf, StoredBy
  <2> QED
    BY <2>1, FS_EmptySet
<1>2. /\ TypeOK /\ FlowInv /\ OnceForEachSubmission /\ [Next]_vars /\ TypeOK'
      => OnceForEachSubmission'
  <2> SUFFICES ASSUME TypeOK, FlowInv, OnceForEachSubmission, [Next]_vars, TypeOK',
                      NEW f \in Forms
               PROVE  Cardinality(EntriesOf(f)') <= Cardinality(StoredBy(f)')
    BY DEF OnceForEachSubmission
  <2>1. /\ IsFiniteSet(EntriesOf(f)) /\ Cardinality(EntriesOf(f)) \in Nat
        /\ IsFiniteSet(StoredBy(f)) /\ Cardinality(StoredBy(f)) \in Nat
        /\ Cardinality(EntriesOf(f)) <= Cardinality(StoredBy(f))
    BY CountsAreFinite DEF OnceForEachSubmission
  <2>2. DOMAIN subms' = 1 .. Len(subms') /\ Len(subms') \in Int
    BY LenProperties DEF TypeOK
  <2>3. IsFiniteSet(StoredBy(f)')
    <3>1. IsFiniteSet(1 .. Len(subms'))
      BY <2>2, FS_Interval
    <3>2. StoredBy(f)' \subseteq 1 .. Len(subms')
      BY <2>2 DEF StoredBy
    <3> QED
      BY <3>1, <3>2, MoreElements
  <2>4. CASE EntriesOf(f)' \subseteq EntriesOf(f)
    <3>1. /\ Cardinality(EntriesOf(f)') \in Nat
          /\ Cardinality(EntriesOf(f)') <= Cardinality(EntriesOf(f))
      BY <2>1, <2>4, MoreElements
    <3>2. StoredBy(f) \subseteq StoredBy(f)'
      BY StoredGrows
    <3>3. /\ Cardinality(StoredBy(f)') \in Nat
          /\ Cardinality(StoredBy(f)) <= Cardinality(StoredBy(f)')
      BY <2>3, <3>2, MoreElements
    <3> QED
      BY <2>1, <3>1, <3>3
  <2>5. ASSUME NEW s \in DOMAIN subms, NEW r \in Replicas,
               ServePost(s, r), subms[s].form = f,
               EntriesOf(f)' \subseteq
                 EntriesOf(f) \union {<<r, Len(store[r].subs) + 1>>}
        PROVE  Cardinality(EntriesOf(f)') <= Cardinality(StoredBy(f)')
    <3> DEFINE x == <<r, Len(store[r].subs) + 1>>
    <3>0. EntriesOf(f)' \subseteq EntriesOf(f) \union {x}
      BY <2>5
    <3> HIDE DEF x
    <3>1. /\ IsFiniteSet(EntriesOf(f) \union {x})
          /\ Cardinality(EntriesOf(f) \union {x}) =
               IF x \in EntriesOf(f) THEN Cardinality(EntriesOf(f))
                                     ELSE Cardinality(EntriesOf(f)) + 1
      BY <2>1, OneMoreElement
    <3>2. /\ Cardinality(EntriesOf(f)') \in Nat
          /\ Cardinality(EntriesOf(f)') <= Cardinality(EntriesOf(f) \union {x})
      BY <3>0, <3>1, MoreElements
    <3>3. s \notin StoredBy(f)
      BY <2>5 DEF ServePost, FlowInv, SubmissionHolds, StoredBy
    <3>4. StoredBy(f) \union {s} \subseteq StoredBy(f)'
      <4>1. s \in DOMAIN subms' /\ subms'[s].form = f /\ subms'[s].stored
        BY <2>5, ServedEffect DEF ServePost
      <4> QED
        BY <4>1, StoredGrows DEF StoredBy
    <3>5. Cardinality(StoredBy(f) \union {s}) = Cardinality(StoredBy(f)) + 1
      BY <2>1, <3>3, OneMoreElement
    <3>6. /\ Cardinality(StoredBy(f)') \in Nat
          /\ Cardinality(StoredBy(f) \union {s}) <= Cardinality(StoredBy(f)')
      BY <2>3, <3>4, MoreElements
    <3> QED
      BY <2>1, <3>1, <3>2, <3>5, <3>6
  <2> QED
    BY <2>4, <2>5, EntriesStep
<1> QED
  BY <1>1, <1>2, TypeCorrect, FlowCorrect, PTL DEF Spec

-----------------------------------------------------------------------------
(***************************************************************************)
(* Late answers.                                                           *)
(***************************************************************************)
\* A submission that is settled stays settled: no request of it is served
\* later, and no answer to it changes it.
SettledIsFinal ==
    [][\A s \in DOMAIN subms :
         subms[s].phase = "over" =>
           /\ s \in DOMAIN subms' /\ subms'[s].phase = "over"
           /\ subms'[s].stored = subms[s].stored]_vars

LEMMA SettledStep ==
  ASSUME TypeOK, FlowInv, [Next]_vars, NEW t \in DOMAIN subms, subms[t].phase = "over"
  PROVE  /\ t \in DOMAIN subms' /\ subms'[t].phase = "over"
         /\ subms'[t].stored = subms[t].stored
<1>0. t \in DOMAIN subms'
  BY NothingForgotten
<1>1. CASE \E g \in Forms : \/ Continue(g) \/ Enrol(g)
                            \/ \E p \in {"right", "wrong"} : Type(g, p)
  BY <1>1 DEF Continue, Enrol, Type
<1>2. ASSUME NEW g \in Forms, Submit(g) PROVE subms'[t] = subms[t]
  BY <1>2, SubmitEffect
<1>3. ASSUME NEW g \in Forms, Remount(g) \/ Reload(g)
      PROVE  subms'[t].phase = "over" /\ subms'[t].stored = subms[t].stored
  BY <1>3, DetachEffect
<1>4. ASSUME NEW s \in DOMAIN subms,
             \/ LookupMatched(s) \/ LookupFailed(s) \/ Confirmed(s)
             \/ SubscribeFailed(s) \/ ServeLookup(s) \/ LosePost(s)
      PROVE  subms'[t].phase = "over" /\ subms'[t].stored = subms[t].stored
  <2>1. PICK ph \in Phases : AdvancesTo(s, ph) /\ subms[s].phase # "over"
    BY <1>4, AdvanceFits
  <2>2. t # s
    BY <2>1
  <2> QED
    BY <2>1, <2>2, AdvanceEffect DEF AdvancesTo
<1>5. ASSUME NEW s \in DOMAIN subms, NEW r \in Replicas, ServePost(s, r)
      PROVE  subms'[t].phase = "over" /\ subms'[t].stored = subms[t].stored
  <2>1. Served(s) /\ t # s
    BY <1>5 DEF ServePost
  <2>2. subms[t].stored \in BOOLEAN
    BY Submissions DEF Submission
  <2> QED
    BY <2>1, <2>2, ServedEffect
<1>6. CASE \E r \in Replicas : Restart(r)
  BY <1>6 DEF Restart
<1>7. CASE UNCHANGED vars
  BY <1>7 DEF vars
<1> QED
  BY <1>0, <1>1, <1>2, <1>3, <1>4, <1>5, <1>6, <1>7, StepKinds

\* A POST is served at most once, and never after its client was answered or
\* the request was lost.
THEOREM SettledSubmissionsStay == Spec => SettledIsFinal
<1>1. TypeOK /\ FlowInv /\ [Next]_vars =>
        [\A s \in DOMAIN subms :
           subms[s].phase = "over" =>
             /\ s \in DOMAIN subms' /\ subms'[s].phase = "over"
             /\ subms'[s].stored = subms[s].stored]_vars
  BY SettledStep
<1> QED
  BY <1>1, TypeCorrect, FlowCorrect, PTL DEF Spec, SettledIsFinal

\* A form that asks for the phone has an empty PIN field, and what an earlier
\* form in its place submitted no longer reaches it.
PhoneFormIsFresh ==
    \A f \in Forms :
      step[f] = "phone" =>
        /\ pin[f] = "empty"
        /\ \A s \in DOMAIN subms : subms[s].form = f => ~subms[s].attached

LEMMA DetachUnhooks ==
  ASSUME TypeOK, NEW f \in Forms, Remount(f) \/ Reload(f), NEW j \in DOMAIN subms,
         subms[j].form = f
  PROVE  ~subms'[j].attached
<1>1. subms[j] \in Submission
  BY Submissions
<1>2. CASE Remount(f)
  <2>1. subms'[j] = [subms[j] EXCEPT !.attached = FALSE]
    BY <1>2 DEF Remount
  <2> QED
    BY <1>1, <2>1 DEF Submission
<1>3. CASE Reload(f)
  <2> DEFINE ph == IF subms[j].phase \in {"post", "given_up"} THEN "given_up" ELSE "over"
  <2>1. subms'[j] = [subms[j] EXCEPT !.attached = FALSE, !.phase = ph]
    BY <1>1, <1>3 DEF Reload, Submission
  <2> HIDE DEF ph
  <2> QED
    BY <1>1, <2>1 DEF Submission
<1> QED
  BY <1>2, <1>3

LEMMA FreshStep ==
  ASSUME TypeOK, PhoneFormIsFresh, [Next]_vars
  PROVE  PhoneFormIsFresh'
<1> SUFFICES ASSUME NEW f \in Forms, step'[f] = "phone"
             PROVE  /\ pin'[f] = "empty"
                    /\ \A s \in DOMAIN subms' : subms'[s].form = f => ~subms'[s].attached
  BY DEF PhoneFormIsFresh
<1> DEFINE Goal == /\ pin'[f] = "empty"
                   /\ \A s \in DOMAIN subms' : subms'[s].form = f => ~subms'[s].attached
<1>0. step \in [Forms -> Steps] /\ pin \in [Forms -> PinField]
  BY DEF TypeOK
<1>1. step[f] = "phone" =>
        /\ pin[f] = "empty"
        /\ \A s \in DOMAIN subms : subms[s].form = f => ~subms[s].attached
  BY DEF PhoneFormIsFresh
<1>2. ASSUME NEW g \in Forms, Continue(g) \/ Enrol(g) \/ \E p \in {"right", "wrong"} : Type(g, p)
      PROVE  Goal
  BY <1>0, <1>1, <1>2 DEF Continue, Enrol, Type
<1>3. ASSUME NEW g \in Forms, Submit(g) PROVE Goal
  <2>1. /\ step' = step /\ pin' = pin /\ step[g] = "pin"
        /\ \A s \in DOMAIN subms' : \/ s \in DOMAIN subms /\ subms'[s] = subms[s]
                                    \/ subms'[s].form = g
    BY <1>3, SubmitEffect DEF Submit
  <2> QED
    BY <1>1, <2>1
<1>4. ASSUME NEW g \in Forms, Remount(g) \/ Reload(g) PROVE Goal
  <2>1. /\ step' = [step EXCEPT ![g] = "phone"] /\ pin' = [pin EXCEPT ![g] = "empty"]
        /\ DOMAIN subms' = DOMAIN subms
        /\ \A s \in DOMAIN subms : /\ subms'[s].form = subms[s].form
                                   /\ subms[s].form # g => subms'[s] = subms[s]
    BY <1>4, DetachEffect DEF Remount, Reload
  <2>2. CASE f = g
    BY <1>0, <1>4, <2>1, <2>2, DetachUnhooks
  <2>3. CASE f # g
    BY <1>0, <1>1, <2>1, <2>3
  <2> QED
    BY <2>2, <2>3
<1>5. ASSUME NEW s \in DOMAIN subms,
             \/ LookupMatched(s) \/ LookupFailed(s) \/ Confirmed(s)
             \/ SubscribeFailed(s) \/ ServeLookup(s) \/ LosePost(s)
      PROVE  Goal
  <2>1. PICK ph \in Phases : AdvancesTo(s, ph)
    BY <1>5, AdvanceSteps
  <2>2. DOMAIN subms' = DOMAIN subms
        /\ \A j \in DOMAIN subms : /\ subms'[j].form = subms[j].form
                                   /\ subms'[j].attached = subms[j].attached
    BY <2>1, AdvanceEffect DEF AdvancesTo
  <2>3. step[f] = "phone"
    BY <1>0, <1>5 DEF LookupMatched, LookupFailed, Confirmed, SubscribeFailed,
       ServeLookup, LosePost
  <2>4. pin'[f] = "empty"
    BY <1>0, <1>1, <1>5, <2>3 DEF LookupMatched, LookupFailed, ClearPin, Confirmed,
       SubscribeFailed, ServeLookup, LosePost
  <2> QED
    BY <1>1, <2>2, <2>3, <2>4
<1>6. ASSUME NEW s \in DOMAIN subms, NEW r \in Replicas, ServePost(s, r) PROVE Goal
  <2>1. Served(s) /\ UNCHANGED <<step, pin>>
    BY <1>6 DEF ServePost
  <2>2. DOMAIN subms' = DOMAIN subms
        /\ \A j \in DOMAIN subms : /\ subms'[j].form = subms[j].form
                                   /\ subms'[j].attached = subms[j].attached
    BY <2>1, ServedEffect
  <2> QED
    BY <1>1, <2>1, <2>2
<1>7. CASE UNCHANGED vars \/ \E r \in Replicas : Restart(r)
  BY <1>1, <1>7 DEF vars, Restart
<1> QED
  BY <1>2, <1>3, <1>4, <1>5, <1>6, <1>7, StepKinds

THEOREM PhoneFormsAreFresh == Spec => []PhoneFormIsFresh
<1>1. Init => PhoneFormIsFresh
  BY DEF Init, PhoneFormIsFresh
<1> QED
  BY <1>1, FreshStep, TypeCorrect, PTL DEF Spec

\* A form that still asks for the phone is moved by no answer, whatever the
\* forms before it submitted: it only goes on to an empty PIN field.
NoLateConfirmation ==
    [][\A f \in Forms : step[f] = "phone" /\ step'[f] # step[f] =>
                          step'[f] = "pin" /\ pin'[f] = "empty"]_vars

THEOREM LateAnswersMoveNoForm == Spec => NoLateConfirmation
<1>1. ASSUME TypeOK, PhoneFormIsFresh, [Next]_vars,
             NEW f \in Forms, step[f] = "phone", step'[f] # step[f]
      PROVE  step'[f] = "pin" /\ pin'[f] = "empty"
  <2>0. /\ step \in [Forms -> Steps] /\ pin[f] = "empty"
        /\ \A s \in DOMAIN subms : subms[s].form = f => ~subms[s].attached
    BY <1>1 DEF TypeOK, PhoneFormIsFresh
  <2>1. ASSUME NEW g \in Forms, Continue(g) PROVE step'[f] = "pin" /\ pin'[f] = "empty"
    BY <1>1, <2>0, <2>1 DEF Continue
  <2>2. ASSUME NEW g \in Forms, Remount(g) \/ Reload(g) PROVE step'[f] = step[f]
    BY <1>1, <2>0, <2>2 DEF Remount, Reload
  <2>3. ASSUME NEW s \in DOMAIN subms, Confirmed(s) PROVE step'[f] = step[f]
    BY <2>0, <2>3 DEF Confirmed
  <2>4. \/ UNCHANGED step
        \/ \E g \in Forms : Continue(g) \/ Remount(g) \/ Reload(g)
        \/ \E s \in DOMAIN subms : Confirmed(s)
    BY <1>1 DEF Next, Settle, Type, Submit, Enrol, Restart, vars, LookupMatched, LookupFailed,
           SubscribeFailed, ServeLookup, LosePost, ServePost
  <2> QED
    BY <1>1, <2>1, <2>2, <2>3, <2>4
<1>2. TypeOK /\ PhoneFormIsFresh /\ [Next]_vars =>
        [\A f \in Forms : step[f] = "phone" /\ step'[f] # step[f] =>
                            step'[f] = "pin" /\ pin'[f] = "empty"]_vars
  BY <1>1
<1> QED
  BY <1>2, TypeCorrect, PhoneFormsAreFresh, PTL DEF Spec, NoLateConfirmation

-----------------------------------------------------------------------------
(***************************************************************************)
(* The ids the forms are given.                                            *)
(***************************************************************************)
\* While clients only subscribe, an id is a position in the list of its
\* replica: no replica gives an id away twice between two restarts.
IdsArePositions ==
    \A r \in Replicas :
      /\ store[r].serial = Len(store[r].subs) /\ ~store[r].deleted
      /\ \A i \in DOMAIN store[r].subs :
           store[r].subs[i].id = i /\ store[r].subs[i].serial = i

LEMMA PositionsStep ==
  ASSUME TypeOK, IdsArePositions, [Next]_vars
  PROVE  IdsArePositions'
<1>1. CASE UNCHANGED store
  BY <1>1 DEF IdsArePositions
<1>2. ASSUME NEW s \in DOMAIN subms, NEW q \in Replicas, ServePost(s, q)
      PROVE  IdsArePositions'
  <2> DEFINE c == store[q]
             n == Len(c.subs)
             d == NewEntry(c, subms[s].form)
  <2>1. /\ store'[q] = Added(c, subms[s].form) /\ n \in Nat
        /\ DOMAIN c.subs = 1 .. n /\ DOMAIN store'[q].subs = 1 .. n + 1
        /\ \A i \in DOMAIN c.subs : store'[q].subs[i] = c.subs[i]
        /\ store'[q].subs[n + 1] = d
        /\ store'[q].subs = Append(c.subs, d)
    BY <1>2, StoreEffect
  <2>2. /\ c.serial = n /\ ~c.deleted /\ c \in Contents
        /\ \A i \in 1 .. n : c.subs[i].id = i /\ c.subs[i].serial = i
    BY <2>1 DEF IdsArePositions, TypeOK
  <2>3. d.id = n + 1 /\ d.serial = n + 1
    BY <2>2 DEF NewEntry
  <2>4. store'[q].serial = n + 1 /\ ~store'[q].deleted
    BY <2>1, <2>2 DEF Added, Contents
  <2>5. Len(store'[q].subs) = n + 1
    <3>1. c.subs \in Seq(Entry)
      BY <2>2 DEF Contents
    <3> QED
      BY <2>1, <3>1, LenProperties
  <2> HIDE DEF d
  <2>6. \A i \in DOMAIN store'[q].subs :
          store'[q].subs[i].id = i /\ store'[q].subs[i].serial = i
    BY <2>1, <2>2, <2>3
  <2>7. \A r \in Replicas : r # q => store'[r] = store[r]
    BY <1>2, StoreEffect
  <2> QED
    BY <2>4, <2>5, <2>6, <2>7 DEF IdsArePositions
<1>3. ASSUME NEW q \in Replicas, Restart(q) PROVE IdsArePositions'
  <2>1. \A r \in Replicas : store'[r] = IF r = q THEN Empty ELSE store[r]
    BY <1>3 DEF Restart, TypeOK
  <2>2. Empty.serial = Len(Empty.subs) /\ ~Empty.deleted /\ DOMAIN Empty.subs = {}
    BY DEF Empty
  <2> QED
    BY <2>1, <2>2 DEF IdsArePositions
<1>4. \/ UNCHANGED store
      \/ \E s \in DOMAIN subms, q \in Replicas : ServePost(s, q)
      \/ \E q \in Replicas : Restart(q)
  BY DEF Next, Settle, Continue, Type, Submit, Remount, Reload, Enrol, vars,
         LookupMatched, LookupFailed, Confirmed, SubscribeFailed, ServeLookup, LosePost
<1> QED
  BY <1>1, <1>2, <1>3, <1>4

\* That ids are given away twice takes a deletion: whatever the forms submit
\* and whichever replica restarts, the ids of a list are different.
THEOREM FormsGetDistinctIds == Spec => []IdsArePositions
<1>1. Init => IdsArePositions
  <2>1. Empty.serial = Len(Empty.subs) /\ ~Empty.deleted /\ DOMAIN Empty.subs = {}
    BY DEF Empty
  <2> QED
    BY <2>1 DEF Init, IdsArePositions
<1> QED
  BY <1>1, PositionsStep, TypeCorrect, PTL DEF Spec
=============================================================================
