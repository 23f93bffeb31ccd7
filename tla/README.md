# A verification development for ussd-credit

ussd-credit lets fans subscribe to influencers: a Flask API (`server/app`), a
React client (`src/`), MongoDB for accounts and in-memory lists for
subscriptions and influencers. These modules specify its core in TLA+, check it
with TLC on small instances, and prove theorems about it with TLAPS for every
value of the constants. Paths below are relative to the repository.

## 1. Inventory

| Component | State | Operations | What is hard |
|---|---|---|---|
| Account endpoints: `server/app/routes/auth.py`, `users.py`, behind them `admin.py` | the MongoDB collection `users` (no unique index), JWTs in the clients' hands | register, login, Google sign-in, profile, password, logout, refresh; `POST /api/users` | every handler is a series of round trips to MongoDB; several workers interleave; a worker dies between two round trips |
| Subscription list: `subscribers_simple.py` | `SUBSCRIBERS_DB`, one list per process | create, update, delete, populate-demo, two reads | two ways to number entries, deletes, restarts |
| Subscribe form: `src/components/SubscribeForm.tsx` | step, phone, PIN | look the PIN up, then post the subscription | nothing stops a second submission; a lost response; replicas with a list each |
| Browser session: `AuthContext.tsx`, `lib/api.ts`, `ProtectedRoute.tsx` | reducer state, `localStorage` | checkAuth on mount, login, register, logout, profile | checkAuth races login; a late 401 clears the storage; the interceptor rewrites responses |
| Demo sign-in: `auth_simple.py` | `USERS_DB` | register, login, list, create-admin | create-admin does not look the address up |
| Influencer list: `influencers_simple.py`, `admin_influencers.py` | `INFLUENCERS_DB` | list, create (stores nothing), populate-demo; the admin handlers raise | the module borrows the list of `admin_influencers.py` if it can import it; ids survive in subscriptions, the list does not |
| Influencer registry: `influencers.py` | none in the running server, which does not import it | | not modelled: see 6 |
| Administration pages | lists fetched from the API | toggles, status changes | none of their calls changes anything on the server: see 6 |
| Webhooks: `webhooks.py` | the collection `payments` | USSD menu, M-Pesa callback | the callback raises before it stores or acknowledges |
| Start: `server/app/__init__.py`, `routes/__init__.py`, `extensions.py` | which routes exist, `mongo_db` | init_mongodb, imports | swallowed import failures, import order |

How they interact. The client calls the API over HTTP. Route modules share the
`mongo_db` handle and, in `admin.py` and `admin_influencers.py`, the decorators
of `auth.py`. gunicorn serves requests with one sync worker (`Procfile`,
`server/Dockerfile`), so a process handles one request at a time; two processes
run where `docker-compose.prod.yml` starts `replicas: 2`, and overlap during a
redeployment. All processes share MongoDB (`server/.env` is loaded into each)
and share nothing else: every in-memory list exists once per process.

What makes each correct: an address and an id belong to one account; a token
names the account it was issued for and says nothing outdated about it; a
password changes only from the value its owner named; a suspended account
changes nothing but the picture a Google sign-in brings; a subscription's id
finds that subscription; a submission that is lost or late never subscribes
twice; the browser's session and the stored token agree; an endpoint that
answers has its checks. The `hazards` of `PROJECT.json` list where each of these
can go wrong, by line.

## 2. Plan

| # | Module | Models | Composes | Status |
|---|---|---|---|---|
| 1 | `AccountTypes`, `Accounts`, `AccountsInvariants` | the account endpoints, any number of workers | | done |
| 2 | `AccountDirectory` | what they promise, as atomic operations | `Accounts` implements it | done |
| 3 | `AccountsProofs`, `AccountsAloneProofs` | theorems about 1 and 2 | | done |
| 4 | `SubscriberStore`, `SubscriberStoreProofs` | the subscription list of one process | | done |
| 5 | `SubscribeFlow`, `SubscribeReplica`, `SubscribeFlowProofs` | forms with overlapping submissions, lost and late requests, one list per replica | each replica implements `SubscriberStore` | done |
| 6 | `Session`, `SessionProofs` | reducer, storage, interceptors, several tabs | | done |
| 7 | `Boot` | create_app(), the database connection and the guarded imports | | done |
| 8 | `Server`, `ServerProofs` | the influencer list, the demo accounts and the M-Pesa callback of started processes | `Boot` and what its processes serve | done |
| 9 | `AccountsCopiesProofs` | how often an address or id of 1 is given away | | done |

Abstract specifications: `AccountDirectory`, which `Accounts` implements with
one worker, and `SubscriberStore`, which every replica of `SubscribeFlow` is.
What the plan leaves open would need the code to change first: the influencer
registry and the SQL routes if the server came to import them, and the
administration pages if their endpoints came to answer.

## 3. Modules

**`AccountTypes`** declares the constants, the documents of the collection
`users` and the tokens. Documents keep what the properties distinguish: `id`,
`email`, `password_hash` (a password is its own hash), `user_type`,
`is_active`, `avatar_url`; `profile` stands for the fields that only
`PUT /auth/profile` changes (`first_name`, `last_name`, `username`) and `via` for
`last_login` and `google_id`. `avatar_url` is kept apart because two handlers
write it: `PUT /auth/profile` for the holder of a token, and `google_login()`,
which asks for none and does not look at `is_active`. Position in the sequence
is MongoDB's natural order and stands for `_id`. A token carries `user_id` and
`user_type`, and as a history field the document it was issued for.

**`Accounts`** gives every worker a program counter `pc`, the request `req` and
the registers `found` and `nid`; each round trip to MongoDB is one action:
`register()` is `RegisterFind`, `RegisterCount`, `RegisterInsert`,
`RegisterToken`, and so on for `login()`, `google_login()`, `update_profile()`
and `change_password()`. `jwt_required` is the label `jwt`, taken together with
the part of the handler up to its next round trip. `Crash` ends a worker between
two round trips; `Expire` ends a token. `reply` is the status of the last
response. Consequences of library behaviour that the model has as code paths:
`jsonify(current_user)` fails on the ObjectId in it, so `GET /auth/profile`
answers 500; `if mongo_db:` raises in pymongo, so each handler of `admin.py`
answers 500 to an administrator and no account is ever suspended or removed by
the running server; the handlers of `admin_influencers.py` do not accept the
user the decorator passes; `check_password_hash(user_doc['password_hash'], ...)`
raises for an account that Google created. Without `MONGO_URI` every account
request is answered with 500; that branch is not modelled.

**`AccountDirectory`** is the abstract specification: the same collection and
tokens with one atomic step per operation.

**`AccountsInvariants`** states what holds between two round trips:
`HandlersInv` for any number of workers, `AloneInv` for one.

**`SubscriberStore`** models one process's `SUBSCRIBERS_DB`. A handler performs
no I/O between reading and writing the list, so each is one action. `serial`,
`demo` and `deleted` are history.

**`SubscribeFlow`** puts subscribe forms in front of several replicas. A
submission is one run of `handleSubmit()` with the PIN; `phase` is the `await` it
is at, and its request on the way. `ServeLookup` and `ServePost` are the two
endpoints; the responses are `LookupMatched`, `LookupFailed`, `Confirmed` and
`SubscribeFailed`. A form may submit again while requests run, as nothing in the
component prevents it. `SubscribeFailed` leaves a request behind that may still
be served (`given_up`) or is lost; `Remount` takes the form away from handlers
that go on, `Reload` stops them. The PIN records are shared through MongoDB;
each replica has its own list and may restart. `attached` and `stored` are what
the handlers' closures and the server's log would tell.

**`SubscribeReplica`** looks at one replica, an arbitrary constant `Chosen`, and
states that it is a `SubscriberStore`. There the clients subscribe only through
the form, which neither updates nor deletes.

**`Session`** is the browser's side of the accounts: `AuthProvider`, the
interceptors of `lib/api.ts` and the flag behind the spinner of
`ProtectedRoute`, in tabs that share `storage`. `tab` holds the reducer's state of each tab and what React and the
browser do next: `mounted` (the effect with `checkAuth()` has run), `dirty` (a
dispatch waits to be rendered), `leaving` (the interceptor has assigned
`window.location`). `call[t][k]` is the request of handler k, with the token its
header carried. A handler runs up to its `await` in one step (`SignIn`,
`Logout`, `Mount`, ...) and goes on when the response arrives (`SignInOk`,
`LogoutDone`, `CheckAuthFailed`, ...). Values are kept apart by what the code
makes of them: the response interceptor wraps every object in an array, in which
`SignInOk` finds neither token nor user, and whose text `getInitialState()`
can parse or not. `getInitialState()` is an argument of `useReducer`, evaluated
by every `Render`; it then removes the items of a session it cannot parse. A
browser may start with a session from before responses were wrapped (that change
is reported in `DEPLOYMENT_FIXES.md`), the only way an account gets into
storage. `GET /auth/profile` never succeeds (`GetProfile` in `Accounts`), so
`checkAuth()` has no success here. Nor has `googleLogin()`: the client posts
`token` where `google_login()` looks for `id_token`, and is answered 400.
`AdminLinks` are what `App.tsx` shows by the user alone.

**`Boot`** starts a backend process. `Steps` is what `create_app()` does in
order: `init_mongodb()`, the guarded imports of `routes/__init__.py`, the
registration of `api_bp`, and the guarded import of `webhooks.py`. A build
(`image`) says of every file whether it loads, raises `ImportError` or something
else; a failure is at the top of the file, before its first endpoint. One such
build is real: `schemas/basic.py` imports marshmallow, which
`server/requirements.txt` does not list, so that where nothing else installs it
`users.py` raises `ImportError`. `admin_setup.py` never loads, since it does not
parse. `proc[r].sees` are the modules that were imported while `mongo_db` had a
value (`from app.extensions import mongo_db` copies it), and `list` tells
whether `influencers_simple.py` got the list of `admin_influencers.py` or, on an
`ImportError`, made its own.

**`Server`** is what such processes do. `influencers[r]` and `users[r]` are the
lists `INFLUENCERS_DB` and `USERS_DB` of a process, lost when it `Stops`.
`simple_register()` stores whatever `user_type` it is sent; "other" stands for
null and for every value the code does not compare with. A handler is one step,
as none of them waits. The ids of demo accounts are positions, because nothing
is ever removed. `MpesaCallback` raises where `webhooks.py` sees a database (`if
mongo_db:`), and the provider, an external party, repeats what was not
acknowledged. `listed` is history: what `GET /influencers` ever answered.
`Steady` leaves `Stops` out, for the run about callbacks.

The modules whose names begin with `MC` give the constants values for TLC; those
that end in `Proofs` hold the theorems. Definitions commented "Mutant of X" are
not part of any specification: each is what X would be with a plausible bug, and
replaces it to see that a property notices.

## 4. Runs

| Run | Question | Result |
|---|---|---|
| `accounts_one` | Do the handlers of one worker implement the directory? | yes: types, unique addresses, tokens, ownership of changes, `AloneInv`, `DirectorySpec` |
| `accounts_replicas` | What is left with two workers on one collection? | `HandlersInv`, free ids, true claims, at most two copies, immutable identities, suspended accounts that change only their picture, changes only by the holders of an id or, for the picture, by Google |
| `accounts_duplicate` | Are addresses unique with two workers? | no: both pass the check of `register()` before either inserts |
| `subscribers` | What does the numbering of the list guarantee? | positions until the first delete, at most k owners of id k, demo ids above those before them, ids bounded by the number of creates, older namesakes shield newer ones |
| `subscribe_flow` | What can a fan rely on while submissions overlap and requests are lost or late? | one subscription at most per submission, only for registered fans, a confirmation only for a stored subscription, every submission settles, each replica is a `SubscriberStore` |
| `subscriber_ids` | Does an id denote one subscription? | no: a create after a delete repeats one |
| `session` | Does a tab agree with the storage, and does it come to rest? | a shown account has its token, a spinner belongs to a sign-in under way and ends |
| `session_tabs` | What can tabs with one storage do to each other? | no administration links come back to a tab that signed out, no token is left without a user |
| `session_sign_in` | Does a sign-in store the token? | no: it stores the word "undefined", because the response was wrapped |
| `session_kept` | Does a stored token last until a sign-out or a 401? | no: `checkAuth()` removes it after every failure, and `GET /auth/profile` fails with a valid token too |
| `server` | Does what a process serves fit together, whatever file fails to load? | one list of influencers, no endpoint without the file of its decorators or without the connection, ids of influencers keep their meaning across restarts, demo accounts share an address only with a first administrator |
| `mpesa_acknowledged` | Is a callback acknowledged in the end? | no: with MongoDB every repetition raises |

Bounds. `accounts_one` has three addresses (one in two spellings), two
passwords, two user types, two profiles, one picture, and starts from a
collection with a suspended Google account; `MaxUsers` = 3 lets two more
accounts or records be created, which is what uniqueness and shared ids need.
`accounts_replicas` has one address, so that every pair of requests contends for
it, and starts empty or with a suspended account that has either password; two
workers and two documents are enough for both to pass a check, to compute the
same id, and to be overtaken between reading and writing. Symmetry is over
passwords, profiles and two of the addresses in the first (the initial
collection names none of them, and a state holds addresses only as `Normal`
yields them) and over workers and passwords in the second (the initial
collections treat both passwords alike). In the `subscribers` runs the list
holds up to four entries and six subscriptions are made between restarts: enough
for two calls of populate-demo, for deletes at either end, and for an id to be
repeated twice. populate-demo is reduced to two samples, since the four differ
only in data. `subscribe_flow` has two forms, two replicas and two submissions,
of one form or of both: a second submission that overlaps the first, one that
follows it, and one after a remount or a reload, each served by either replica.
`MaxSerial` = 3 never refuses a request there. It uses no symmetry, because it
checks liveness. `session` has two ways to sign in, one of which never succeeds,
so that two sign-ins overlap with each other and with everything else; five of a
tab's six calls run at once (`MaxCalls`); a tab is loaded twice (`MaxLoads`) and
as often as redirects ask. `session_tabs` has two tabs, which are symmetric,
each loaded once and with two calls at a time: an answer that comes late needs
one call that waits and one that overtakes it. `session_sign_in` and
`session_kept` are smaller instances of the first. `server` has one replica, as
replicas share nothing of what is modelled there and a restart stands for
another process, and every build in which at most one file fails besides
`admin_setup.py`, in each way. Two of the seven samples show the numbering; two
addresses, one of them in two spellings, and three demo accounts are enough for
an administrator to take an address before or after a user does.
`mpesa_acknowledged` is the same with the build that loads and one callback.
Deadlock is checked in every run.

Fairness. `subscribe_flow` assumes weak fairness of the steps of each
submission: a request is served or its connection fails, since the worker serves
one request after the other, no handler waits for another, and a client that
gets no response sees an error in the end. Nothing is assumed of the fan, of
restarts, or of which replica serves. `session` assumes that React runs effects
and renders what was dispatched, that a timer fires, that a request is answered
or fails, and that the browser follows a redirect: weak fairness of each, since
none waits for another. Nothing is assumed of the user. `mpesa_acknowledged`
(`SteadySpec`) assumes that processes start and are not stopped, that the
provider repeats a failed callback and that the server answers it: more than the
code promises, so that only the handler is left to blame. The other components
have no loop and no queue; no liveness is stated for them and no fairness is
assumed.

## 5. Theorems

All are proved for any constants that satisfy the assumptions named in the
modules that declare them. The assumptions say that the collection a deployment
starts from is one that the code could have left behind (ids not ahead of
positions, no shared address or id), that `Normal` maps spellings to addresses,
that `None` is not a value, that the bounds are numbers and that the replicas
and the workers are finitely many; of `Session`, that the handlers that sign in
are among `login`, `register` and `googleLogin`; of `Boot`, that
`admin_setup.py` does not load; of `Server`, that the samples have phones that
differ from each other and from that of the first influencer, as the seven in
the source do.

`AccountsProofs` (any number of workers). After `TypeCorrect`, the inductive
invariant `HandlersInv`: the registers of a worker that is about to insert, sign
or write still describe the collection, whatever the other workers did since. It
is needed because none of the properties is inductive: that ids stay at or below
positions rests on a pending `nid` being at most `Len(users) + 1`, and that
claims are true rests on the document found being unchanged in the fields a
token copies. From it follow `NextIdIsUnused`, `TokenClaimsAreTrue`,
`SuspendedSignInOnlyByGoogle`, `IdentityIsImmutable` and `SuspendedIsFrozen`.
Two results say what is left of the single-worker properties when there are
more. `OldestAccountIsUsed`: the account that a sign-in with an address finds,
and the one that a request with an id reaches, stays the same for good.
`OnlyNamesakesChangeAccounts`: a password or the names change only in a request
with a token of that account or of a newer one that was given the same id, the
picture also in a Google sign-in with the address. It needs that the token
presented is one that was issued (`TokensPresented`) and that what a worker
found is the first document with the id. That the old password was compared with
the one it replaces is claimed for one worker only (`OnlyOwnersChange`): with
two, it can change between the comparison and the write.

`AccountsAloneProofs` (assuming `Alone`, one worker). `AloneInv` adds that
nothing happened since a check: the address is still free, `nid` is still
`Len(users) + 1`, the password compared is still the stored one. From it follow
`EmailsAreUnique`, `TokensNameTheirAccounts`, `OnlyOwnersChange` and
`ImplementsDirectory`, the refinement: the initial states agree, each of the
actions maps to an operation of the directory or to a stutter. `DirectoryIsSafe`
is about the abstract specification alone: addresses and ids stay distinct and
every token names the account it was issued for. With the refinement, a reader
can take the directory as what one worker promises.

`AccountsCopiesProofs` (any number of workers) proves `CopiesBoundedByWorkers`.
The number of accounts with an address is not inductive: two workers that both
found it free add to it later. `CopiesInv` counts the accounts together with the
workers past their check, and likewise the ids together with the workers that
have computed one; a check that finds nothing resets the sum to at most the
number of workers, and every later step moves one worker from one side to the
other.

`SubscriberStoreProofs` reduces every step to one of five kinds (`StepKinds`),
with a lemma for what each makes of the list position by position. `IdsBounded`,
`IdsArePositions` and `DemoIdsExceedEarlierOnes` are inductive as they stand;
`OnlyTheOldestIsReached` follows from the kinds of steps; `OwnersBounded`
counts: a create hands out k only to a list of k entries, a delete shifts the
owners left (an injection), and populate-demo uses ids nobody has.

`SubscribeFlowProofs` first states what each kind of step makes of the
submissions and the lists. The inductive invariant `FlowInv` ties the phase of a
submission to what the servers know of it: a POST is under way only for a PIN
that matched, and only for a submission not stored yet. `OnlyRegisteredFans` and
`ConfirmedIsStored` follow; neither is inductive, since nothing in the POST
names the PIN and nothing in the form names the entry. `SubscribesAtMostOnce`
counts: the only step that gives a fan an entry also marks a submission as
stored that was not. `FormsGetDistinctIds`: whatever these forms submit and
whichever replica restarts, the ids of a list are its positions, so that two
entries of a list with one id take a deletion. `SettledSubmissionsStay` says
that nothing moves a submission on once it has settled. `LateAnswersMoveNoForm`:
no answer moves a form that still asks for the phone number, which goes on from
there only to an empty PIN field, whatever the form before it submitted.
It rests on `PhoneFormIsFresh`: nothing that was submitted before is still
attached to such a form. `ReplicaImplementsStore` maps `ServePost` to `Create`
and `Restart` to `Restart`; as `Chosen` is any replica, it holds of all.

`SessionProofs` (any tabs, any ways to sign in). The lemma `Effects` says what
any step makes of the session: each tab keeps its user, loses the account or is
loaded anew from storage, and storage keeps its items or loses the issued token.
`LinksOnlySignedIn` and `IssuedTokenHasUser` follow by induction. The lemma
rests on `NothingFound`, that no response that was wrapped holds a user or a
token. `ShownAccountHasToken` assumes one tab (`SingleTab`), and is false of
two. It needs that a stored user comes with a token (`StoredAccountHasToken`),
since a reload shows what is stored; the lemma `SomeTabActs` says what a step of
one tab does to both. `SpinnersHaveSignIns` is what `LoadingEnds` needs besides
fairness: a spinner has a sign-in of its tab under way.
`StoredTokensAreChecked`: every tab whose effect has run is checking an issued
token that is still stored, so that none lives on beside one; it is the other
side of the finding of `session_kept`. `NoTokenIsStored`: no step of any tab
stores an issued token, so the only one there ever is was stored before.
`NobodySignsIn`: once no page shows an account and none is stored, no sequence
of clicks, answers and reloads leads to one.

`ServerProofs` (any builds, samples, addresses and replicas). `ServerInv` has a
part for each thing a process holds. `ProcessHolds` ties what is loaded to how
far the process has come: nothing is loaded before the connection is opened, so
no module can have missed it (`NoneMissedMongo`), and who loaded
`influencers_simple.py` fixed its list by how `admin_influencers.py` ended
(`OneList`). `ListsHold` says that a list of influencers is one of two, the
initial one or `Full`: populate-demo turns the first into the second
(`IdsFollow` computes the ids) and leaves the second alone (`NoneMissing`), from
which `IdsAreStable` follows. `Namesakes` is inductive with the types
(`NamesakesAreAdmins`).

`BuildsDecide` strengthens `ProcessHolds`: what a process loaded and serves is a
function of the build and of how far the process has come (`BuiltInv`). Two
results follow. `ReplicasServeAlike`: processes that are up answer the same
requests. `AnswersAreNotPartial`: an endpoint answers only if its file loads and
the file of its decorators answers too, so that no swallowed import leaves an
endpoint without its checks. `ReplicasNumberAlike`: the lists held now and every
list answered are parts of one numbering, although each process numbers its own
and begins again after a restart. `AcknowledgedOnlyWithoutMongo`: a callback is
acknowledged only by a process that never opened the database, and so cannot
have stored it. It is the safety side of the finding that `mpesa_acknowledged`
shows.

Only model-checked: `SubmissionsSettle` and `LoadingEnds`, because liveness
under fairness is out of the prover's reach, as is ENABLED.

## 6. Not modelled

Password hashing, JWT signatures, validation messages, CORS, paging, the JSON
shapes of list endpoints, styling, endpoints that only read.

The administration pages and the subscriber dashboard. Nothing they do changes
what the server or the browser keeps. `GET /api/admin/users` answers 500, so
the page of users never has a row to toggle. The page of influencers sends its
updates, deletions and status changes to `/api/influencers/<id>`, which the
running server does not have, and its create to one that stores nothing. The
dashboard compares fields of a response that the interceptor has wrapped, and
shows at most one row without an id. What these pages would do on a server that
answered them is not behaviour of this code.

The influencer registry (`influencers.py`): `routes/__init__.py` does not import
it, so the running server has none of its endpoints and no state of it. What
`ADMIN_INFLUENCER_MANAGEMENT.md` says of shortcodes is said of endpoints that do
not answer.

The branches and routes for SQLAlchemy (`models/`, `subscribers.py`): the server
takes them only without `MONGO_URI`, which has a default, or never imports them.
The scripts that create administrators read `mongo_db` before it is set and end
without effect. The USSD menu computes its answer from the text of the request
and keeps nothing.

Of the session: error messages, `clearError()`, the success of `checkAuth()`,
what `ProtectedRoute` shows but for its spinner, StrictMode's second effect; one
issued token is not told from another.

The vendored trees (`.venv`, `postgresql-15.6`, `lib`, `usr`): third-party code
of which the application calls what its own lines show.
