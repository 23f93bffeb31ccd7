------------------------------- MODULE Server -------------------------------
(***************************************************************************)
(* What a process started as in Boot keeps in memory and answers: the      *)
(* list of influencers (influencers_simple.py, admin_influencers.py), the  *)
(* demo accounts (auth_simple.py) and the M-Pesa callback (webhooks.py).   *)
(* A handler is one step: none waits between reading and writing a list.   *)
(***************************************************************************)
EXTENDS Boot, FiniteSets

CONSTANTS
    Phones,     \* phone numbers of influencers
    First,      \* the phone of the influencer both lists begin with
    Samples,    \* the phones of the sample influencers, in their order
    Spellings,  \* addresses as clients type them
    Normal,     \* Normal[s]: s in lower case, without spaces around it
    Callbacks,  \* M-Pesa callbacks
    MaxUsers    \* bound: length of USERS_DB

ASSUME SamplesAssumption ==
    /\ Samples \in Seq(Phones) /\ First \in Phones
    /\ \A i, j \in DOMAIN Samples :
         Samples[i] # First /\ (Samples[i] = Samples[j] => i = j)
ASSUME NormalAssumption ==
    Normal \in [Spellings -> Spellings] /\ \A s \in Spellings : Normal[Normal[s]] = Normal[s]
ASSUME MaxUsersAssumption == MaxUsers \in Nat

VARIABLES
    influencers,  \* influencers[r]: INFLUENCERS_DB of the process of r
    users,        \* users[r]: its USERS_DB
    callback,     \* callback[c]: how far the provider is with c
    listed,       \* history: what GET /influencers ever answered
    reply         \* status of the last response

vars == <<bootVars, influencers, users, callback, listed, reply>>

Influencer == [id : Nat, phone : Phones]

\* A register stores the user_type it is sent: "other" stands for null and for
\* all but the two the code knows.  "seen" stands for last_login.  A position
\* in the list is the id.
UserTypes == {"user", "admin", "other"}
User == [email : Spellings, user_type : UserTypes, seen : BOOLEAN]

\* The list as the module that defines it leaves it.
Initially == {[id |-> 1, phone |-> First]}

Init ==
    /\ BootInit
    /\ influencers = [r \in Replicas |-> Initially]
    /\ users = [r \in Replicas |-> <<>>]
    /\ callback = [c \in Callbacks |-> "unsent"]
    /\ listed = {}
    /\ reply = "none"

-----------------------------------------------------------------------------
\* GET /influencers
ListInfluencers(r) ==
    /\ Serves(r, "influencers_simple")
    /\ listed' = listed \union influencers[r]
    /\ reply' = "200"
    /\ UNCHANGED <<bootVars, influencers, users, callback>>

\* POST /influencers answers with id 999 and stores nothing.
CreateInfluencer(r) ==
    /\ Serves(r, "influencers_simple")
    /\ reply' = "201"
    /\ UNCHANGED <<bootVars, influencers, users, callback, listed>>

\* The samples whose phone the list does not have.
Missing(r) == {i \in DOMAIN Samples : \A x \in influencers[r] : x.phone # Samples[i]}

\* Mutant of NextId: the ids are counted from the length of the sample list.
NextIdRestarting(r, i) == Cardinality({j \in Missing(r) : j <= i})

\* The id of sample i: one more than the largest before it.
NextId(r, i) ==
    (CHOOSE n \in {x.id : x \in influencers[r]} : \A x \in influencers[r] : x.id <= n)
    + Cardinality({j \in Missing(r) : j <= i})

\* Mutant of PopulateDemo: the samples are added without an id.
PopulateDemoUnnumbered(r) ==
    /\ Serves(r, "influencers_simple")
    /\ influencers' = [influencers EXCEPT ![r] = @ \union
         {[phone |-> Samples[i]] : i \in Missing(r)}]
    /\ reply' = "200"
    /\ UNCHANGED <<bootVars, users, callback, listed>>

\* POST /influencers/populate-demo
PopulateDemo(r) ==
    /\ Serves(r, "influencers_simple")
    /\ influencers' = [influencers EXCEPT ![r] = @ \union
         {[id |-> NextId(r, i), phone |-> Samples[i]] : i \in Missing(r)}]
    /\ reply' = "200"
    /\ UNCHANGED <<bootVars, users, callback, listed>>

\* POST /admin/influencers, by an administrator: admin_required calls the
\* handler with an argument it does not take.  So do GET, PUT and DELETE.
AdminCreate(r) ==
    /\ Serves(r, "admin_influencers")
    /\ reply' = "500"
    /\ UNCHANGED <<bootVars, influencers, users, callback, listed>>

-----------------------------------------------------------------------------
With(r, e) == {i \in DOMAIN users[r] : users[r][i].email = e}
Admins(r) == {i \in DOMAIN users[r] : users[r][i].user_type = "admin"}

AddUser(r, e, t) ==
    /\ Len(users[r]) < MaxUsers
    /\ users' = [users EXCEPT ![r] = Append(@, [email |-> e, user_type |-> t, seen |-> FALSE])]
    /\ reply' = "201"
    /\ UNCHANGED <<bootVars, influencers, callback, listed>>

Answer(status) ==
    /\ reply' = status
    /\ UNCHANGED <<bootVars, influencers, users, callback, listed>>

\* POST /auth/simple/register
SimpleRegister(r, s, t) ==
    /\ Serves(r, "auth_simple")
    /\ \/ With(r, Normal[s]) = {} /\ AddUser(r, Normal[s], t)
       \/ With(r, Normal[s]) # {} /\ Answer("409")

\* Mutant of SimpleLogin: the newest account of the address signs in.
SimpleLoginNewest(r, s) ==
    /\ Serves(r, "auth_simple")
    /\ \E i \in With(r, Normal[s]) :
         /\ \A j \in With(r, Normal[s]) : j <= i
         /\ users' = [users EXCEPT ![r][i].seen = TRUE]
    /\ reply' = "200"
    /\ UNCHANGED <<bootVars, influencers, callback, listed>>

\* POST /auth/simple/login, with the password of the first account that has
\* the address; every other password is turned away.
SimpleLogin(r, s) ==
    /\ Serves(r, "auth_simple")
    /\ \E i \in With(r, Normal[s]) :
         /\ \A j \in With(r, Normal[s]) : i <= j
         /\ users' = [users EXCEPT ![r][i].seen = TRUE]
    /\ reply' = "200"
    /\ UNCHANGED <<bootVars, influencers, callback, listed>>

\* POST /auth/simple/create-admin: the address is stored as it came.
CreateAdmin(r, s) ==
    /\ Serves(r, "auth_simple")
    /\ \/ Admins(r) = {} /\ AddUser(r, s, "admin")
       \/ Admins(r) # {} /\ Answer("200")

-----------------------------------------------------------------------------
\* The provider posts a callback.
Send(c) ==
    /\ callback[c] \in {"unsent", "failed"}
    /\ callback' = [callback EXCEPT ![c] = "sent"]
    /\ UNCHANGED <<bootVars, influencers, users, listed, reply>>

\* POST /webhooks/mpesa: the truth value of a Database raises, None is false.
MpesaCallback(r, c) ==
    /\ Serves(r, "webhooks") /\ callback[c] = "sent"
    /\ IF "webhooks" \in proc[r].sees
       THEN /\ callback' = [callback EXCEPT ![c] = "failed"]
            /\ reply' = "500"
       ELSE /\ callback' = [callback EXCEPT ![c] = "acknowledged"]
            /\ reply' = "200"
    /\ UNCHANGED <<bootVars, influencers, users, listed>>

-----------------------------------------------------------------------------
Boots(r) == BootStep(r) /\ UNCHANGED <<influencers, users, callback, listed, reply>>

\* The lists end with the process.
Stops(r) ==
    /\ End(r)
    /\ influencers' = [influencers EXCEPT ![r] = Initially]
    /\ users' = [users EXCEPT ![r] = <<>>]
    /\ UNCHANGED <<callback, listed, reply>>

Serving(r) ==
    \/ ListInfluencers(r) \/ CreateInfluencer(r) \/ PopulateDemo(r) \/ AdminCreate(r)
    \/ \E s \in Spellings, t \in UserTypes : SimpleRegister(r, s, t)
    \/ \E s \in Spellings : SimpleLogin(r, s) \/ CreateAdmin(r, s)
    \/ \E c \in Callbacks : MpesaCallback(r, c)

\* Every process, once started, goes on.
Steady == (\E c \in Callbacks : Send(c)) \/ (\E r \in Replicas : Boots(r) \/ Serving(r))

Next == Steady \/ \E r \in Replicas : Stops(r)

Spec == Init /\ [][Next]_vars

\* Processes start and go on, the provider repeats a callback that failed,
\* and the server answers it.
SteadySpec ==
    /\ Init /\ [][Steady]_vars
    /\ \A r \in Replicas : WF_vars(Boots(r))
    /\ \A c \in Callbacks : WF_vars(callback[c] = "failed" /\ Send(c))
    /\ \A c \in Callbacks : WF_vars(\E r \in Replicas : MpesaCallback(r, c))

-----------------------------------------------------------------------------
TypeOK ==
    /\ BootTypeOK
    /\ influencers \in [Replicas -> SUBSET Influencer]
    /\ \A r \in Replicas : influencers[r] # {}
    /\ users \in [Replicas -> Seq(User)]
    /\ \A r \in Replicas : Len(users[r]) <= MaxUsers
    /\ callback \in [Callbacks -> {"unsent", "sent", "failed", "acknowledged"}]
    /\ listed \subseteq Influencer
    /\ reply \in {"none", "200", "201", "409", "500"}

\* An id that GET /influencers ever answered, by any process, before or after
\* a restart, denotes one influencer: subscriptions keep it as influencer_id.
InfluencerIdsStable ==
    \A x, y \in listed : x.id = y.id => x.phone = y.phone

\* Two demo accounts share an address only if create-admin made the newer,
\* the first administrator; login does not reach that one.
NamesakeIsFirstAdmin ==
    \A r \in Replicas : \A i, j \in DOMAIN users[r] :
      i < j /\ users[r][i].email = users[r][j].email =>
        /\ \A k \in Admins(r) : j <= k
        /\ j \in Admins(r) /\ ~users[r][j].seen

\* A callback the provider has posted is acknowledged in the end.
CallbackAcknowledged ==
    \A c \in Callbacks : callback[c] = "sent" ~> callback[c] = "acknowledged"
=============================================================================
