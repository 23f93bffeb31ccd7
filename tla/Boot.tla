-------------------------------- MODULE Boot --------------------------------
(***************************************************************************)
(* How a backend process starts: create_app() (server/app/__init__.py),    *)
(* init_mongodb() (extensions.py) and the imports of routes/__init__.py,   *)
(* each of which swallows its failure.  Which endpoints a process serves,  *)
(* with which database and which list of influencers, is settled here.     *)
(***************************************************************************)
EXTENDS Naturals, Sequences

CONSTANTS
    Replicas,
    Images   \* builds: how each file loads; one that fails, fails at its top

Outcomes == {"ok", "ImportError", "other"}

\* The imports of routes/__init__.py, in their order.
Routes == <<"influencers_simple", "subscribers_simple", "users", "auth",
            "admin", "admin_influencers", "admin_setup", "auth_simple">>
Modules == {Routes[i] : i \in DOMAIN Routes} \union {"webhooks"}

\* The modules that bind mongo_db when they are imported.
MongoUsers == {"users", "auth", "admin", "admin_setup", "webhooks"}

\* admin_setup.py does not compile.
ASSUME ImagesAssumption ==
    /\ Images \subseteq [Modules -> Outcomes]
    /\ \A f \in Images : f["admin_setup"] = "other"

VARIABLES
    image,  \* the build all replicas run
    proc    \* proc[r]: the process of replica r

bootVars == <<image, proc>>

\* Mutant of Steps: the database is opened after the routes are imported.
StepsMongoLater == Routes \o <<"init_mongodb", "api_bp", "webhooks">>

\* What create_app() does.
Steps == <<"init_mongodb">> \o Routes \o <<"api_bp", "webhooks">>

\* "next" is a position in Steps, 0 while the process is down.  "list" is what
\* INFLUENCERS_DB of influencers_simple is: the list of admin_influencers, or
\* one of its own.
Process == [next : 0..Len(Steps) + 1, mongo : BOOLEAN, loaded : SUBSET Modules,
            sees : SUBSET Modules, list : {"none", "shared", "own"},
            serves : SUBSET {"api_bp", "webhooks"}]

Down == [next |-> 0, mongo |-> FALSE, loaded |-> {}, sees |-> {},
         list |-> "none", serves |-> {}]

BootInit ==
    /\ image \in Images
    /\ proc = [r \in Replicas |-> Down]

At(r, step) == proc[r].next \in DOMAIN Steps /\ Steps[proc[r].next] = step
Up(r) == proc[r].next = Len(Steps) + 1

\* An endpoint of module m answers.
Serves(r, m) ==
    /\ Up(r) /\ m \in proc[r].loaded
    /\ (IF m = "webhooks" THEN "webhooks" ELSE "api_bp") \in proc[r].serves

-----------------------------------------------------------------------------
\* The modules of the package that m imports without a guard.
Needs(m) == IF m \in {"admin", "admin_influencers"} THEN {"auth"} ELSE {}

\* Mutant of Ends: what m imports is not looked at.
EndsAlone(m) == image[m]

\* How "import m" ends, but for influencers_simple.
Ends(m) ==
    IF image[m] # "ok" \/ Needs(m) = {} THEN image[m] ELSE image["auth"]

\* Mutant of ListFrom: influencers_simple copies the list it imports.
ListFromCopied == IF Ends("admin_influencers") = "other" THEN "none" ELSE "own"

\* influencers_simple falls back to a list of its own on an ImportError; any
\* other exception ends its own import.
ListFrom ==
    CASE Ends("admin_influencers") = "ok" -> "shared"
      [] Ends("admin_influencers") = "ImportError" -> "own"
      [] OTHER -> "none"

\* The modules that "import m" leaves in sys.modules.
Loads(m) ==
    CASE m # "influencers_simple" /\ Ends(m) = "ok" -> {m} \union Needs(m)
      [] m = "influencers_simple" /\ image[m] = "ok" /\ ListFrom = "own" -> {m}
      [] m = "influencers_simple" /\ image[m] = "ok" /\ ListFrom = "shared" ->
           {m, "admin_influencers", "auth"}
      [] OTHER -> {}

\* A module runs once, and takes the value mongo_db has then.
Import(r, m) ==
    LET new == Loads(m) \ proc[r].loaded
    IN proc' = [proc EXCEPT
         ![r].next = @ + 1,
         ![r].loaded = @ \union new,
         ![r].sees = @ \union (IF proc[r].mongo THEN new \intersect MongoUsers ELSE {}),
         ![r].list = IF "influencers_simple" \in new THEN ListFrom ELSE @,
         ![r].serves = IF m = "webhooks" /\ m \in new THEN @ \union {m} ELSE @]

-----------------------------------------------------------------------------
Start(r) ==
    /\ proc[r].next = 0
    /\ proc' = [proc EXCEPT ![r].next = 1]
    /\ UNCHANGED image

\* MongoClient() raises for a MONGO_URI it cannot use; the handle stays None.
InitMongodb(r) ==
    /\ At(r, "init_mongodb")
    /\ \E usable \in BOOLEAN :
         proc' = [proc EXCEPT ![r].next = @ + 1, ![r].mongo = usable]
    /\ UNCHANGED image

ImportRoutes(r) ==
    /\ \E i \in DOMAIN Routes : At(r, Routes[i]) /\ Import(r, Routes[i])
    /\ UNCHANGED image

RegisterApi(r) ==
    /\ At(r, "api_bp")
    /\ proc' = [proc EXCEPT ![r].next = @ + 1, ![r].serves = @ \union {"api_bp"}]
    /\ UNCHANGED image

RegisterWebhooks(r) ==
    /\ At(r, "webhooks")
    /\ Import(r, "webhooks")
    /\ UNCHANGED image

BootStep(r) ==
    \/ Start(r) \/ InitMongodb(r) \/ ImportRoutes(r)
    \/ RegisterApi(r) \/ RegisterWebhooks(r)

\* The process ends; what starts later is the same build.
End(r) ==
    /\ proc[r].next # 0
    /\ proc' = [proc EXCEPT ![r] = Down]
    /\ UNCHANGED image

-----------------------------------------------------------------------------
BootTypeOK ==
    /\ image \in Images
    /\ proc \in [Replicas -> Process]

\* Whichever imports fail: where both sets of endpoints answer, the public
\* list of influencers is the one the administration endpoints keep.
SharedList ==
    \A r \in Replicas :
      Serves(r, "influencers_simple") /\ Serves(r, "admin_influencers") =>
        proc[r].list = "shared"

\* An endpoint answers only if its file loads and the file of the decorators
\* it uses answers too: no swallowed import leaves an endpoint without its
\* checks.  The endpoints of admin_setup, which never loads, never answer.
AnswersAreWhole ==
    \A r \in Replicas : \A m \in Modules :
      Serves(r, m) =>
        /\ image[m] = "ok" /\ m # "admin_setup"
        /\ \A n \in Needs(m) : Serves(r, n)

\* mongo_db is copied into each module when it is imported: no module that
\* answers has missed the connection that the process opened.
MongoSeen ==
    \A r \in Replicas : \A m \in MongoUsers :
      Serves(r, m) => (m \in proc[r].sees <=> proc[r].mongo)
=============================================================================
