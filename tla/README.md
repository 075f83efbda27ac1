# Verification of the CCT review service

The CCT review service shows an analyst the Mw,coda magnitudes that the CCT software
computes, and lets the analyst accept or reject each of them. The backend
(`src/backend`, C++, Boost.Beast, soci) serves a React page (`src/frontend`). This
directory holds TLA+ models of the backend and of the page, the TLC runs that check them
and the TLAPS proofs about them.

## Inventory

| Part | State | Operations | Interacts with |
|---|---|---|---|
| `CCTPostgresService`, `Events` | `mEventsMap` (copy of `<schema>.event`), `mLastUpdateMap` (watermark), `mRunning`, `mMutex`, one `PostgreSQL` connection | constructor (`initialQuery`), `start`/`run`/`stop` (poller), `updateQuery`, `haveEvent`/`getEvent`/`*ToString`, `acceptEvent`/`rejectEvent` | CCT database; called by `Callback` on io threads |
| `AQMSPostgresClient` | rows of `event`, `netmag`, `eventprefmag`, `credit` in AQMS; one connection | `mwCodaMagnitudeExists`, `getMwCodaMagnitudeIdentifier`, `getPreferred*Identifier`, `insert`/`update`/`deleteNetworkMagnitude` | AQMS database, changed by other programs too |
| `Callback` | shared pointers to the above and to the authenticator | authenticate, authorize, permission check, seven request types | all of the above |
| `PostgreSQL` | connection settings, one soci session | `connect`, `isConnected`, `disconnect` | both database clients |
| `IAuthenticator`, `LDAP`, permissions | map of user to key and credentials, LDAP handle | `authenticate`, `add`, `find`, `authorize`, `remove` | `Callback`, LDAP server |
| `server.hpp`, exceptions | per-connection buffers and queue | read, `handleRequest`, write, close, timeout | `Callback` |
| `Listener`, `main` | acceptor, io threads | accept loop, start-up | sessions |
| `unpackCCTJSON` | none | JSON to event details | `CCTPostgresService` |
| Review page | React state: events, selected event, schema, request flags | poll, select, change schema, accept, reject | HTTP API |

What is hard, and what makes each part correct:

* **Cache.** The poller and the io threads run `updateQuery` at once. Each reads the
  watermark without a lock, selects the rows above it, stores them one at a time under
  the mutex and writes the watermark back without a lock. An accept reads its time stamp
  before it asks for the mutex. Correct: no committed row is passed over for a reason
  nobody knows of, no event disappears, the reviewer sees the decision, every decision
  is answered, `stop()` returns.
* **Two databases.** An accept or reject is a chain of queries, a transaction in AQMS
  and an `UPDATE` in the CCT database, with no common transaction; any call may fail,
  the process may die, other programs change AQMS in between. Correct: the answer tells
  what was done, AQMS goes first, a repeated request repairs what a failed one left, one
  Mw,coda magnitude per origin.
* **Access.** The LDAP handle is shared by io threads without a lock; the key that signs
  tokens is lost with the process; a user may hold several tokens. Correct: a token
  opens the gate only for a user LDAP has accepted, until its time is over and no
  longer, every token that was answered does, and the handle is not freed twice.
* **HTTP.** Messages may be pipelined, clients stall or break, the deadline runs on
  while the callback works, descriptors run out. Correct: no executed request goes
  unanswered without a reason or waits for ever, nothing is executed behind a success, a
  session whose client falls silent ends, the listener accepts again.
* **Page.** Answers arrive in any order, for a schema no longer shown, to closures of an
  earlier render. Correct: the page settles on the chosen schema, keeps the selection,
  gives the buttons back and notices an expired token.

`PROJECT.json` lists the hazards at their lines.

## Modules

| Module | Models | Built on |
|---|---|---|
| `CCTPostgresService` | the event cache of one schema, its poller, its io threads, the CCT software as the other writer | |
| `CCTPostgresService_proofs` | theorems about it | `CCTPostgresService`, `TLAPS` |
| `EventService` | what the cache promises its callers, without poller, watermark, lock or connection | |
| `CCTPromise_proofs` | the proof that `CCTPostgresService` implements it | `CCTPostgresService_proofs` |
| `CCTDecision_proofs` | the proof of `DecisionShown` for one io thread | `CCTPostgresService_proofs` |
| `MCCCTPostgresService` | its TLC instances | `CCTPostgresService` |
| `AQMSPostgresClient` | one event's magnitudes in AQMS and the operations on them | |
| `Review` | the accept and reject requests over AQMS and the CCT table | `AQMSPostgresClient` |
| `Review_proofs` | theorems about it | `Review`, `TLAPS` |
| `ReviewService` | what a request does to the two databases, without the queries that lead to it | |
| `ReviewPromise_proofs` | the proof that `Review` implements it | `Review_proofs` |
| `MCReview` | its TLC instances | `Review` |
| `Server` | the listener, the HTTP sessions, the io threads and the clients | |
| `Server_proofs`, `MCServer` | theorems about it, its TLC instance | `Server` |
| `Access` | the gate of the callback, tokens, LDAP logins | |
| `Access_proofs`, `MCAccess` | theorems about it, its TLC instance | `Access` |
| `CCTReview` | the review page and its requests | |
| `CCTReview_proofs`, `MCCCTReview` | theorems about it, its TLC instance | `CCTReview` |

The modules meet in the callback, each with an abstraction of its neighbour: `Server`
takes the callback as one long handler with any outcome (`Outcomes`); `Access` gives
those outcomes for logins and requests; `Review` is the callback's accept and reject
branch, with `DecideCCT` for the promise that `EventService` states; the page sees of
all of them a request that succeeds, fails or is never answered well.

Operators named after a faulty variant (`FinishAtNow`, `AbortKeepsLock`, ...) and marked
`Mutant` are used by no specification. Each is put in the place of one definition to see
that a property notices.

### CCTPostgresService

| Variable | Code |
|---|---|
| `db` | the rows of `<schema>.event` |
| `cache` | `mEventsMap.at(schema)` |
| `mLastUpdate` | `mLastUpdateMap[schema]`; `Lowest` is `numeric_limits<double>::lowest()`, or no entry |
| `mRunning`, `mMutex` | the same; `mMutex` only where it is held from one step to the next |
| `pc`, `request`, `query` | position and locals of `run`, `acceptRejectEvent` and `updateQuery` per thread |
| `clock`, `writes` | the time all stamps are read from; the number of rows the CCT software has written |
| `late`, `regressed` | history: which rows were committed with a stamp already passed, and which copies were overwritten by older ones |

`updateQuery` is five actions, because other threads may run between them:
`ReadWatermark` (lines 118-132), `Fetch` (133-140), `ApplyRow` or `SkipRow` for each row
(143-194), `Finish` (195-198). `QueryFails` is every way to leave it early.
`acceptRejectEvent` is `BeginDecision` (the stamp, 301-304), `LockMutex`, then one of
`CommitDecision`, `UpdateFails` and `AbortDecision` with the mutex held, then
`updateQuery` again. `Init` is the constructor: `LoadRows` after any set of rows the
`LIMIT` may select, `LoadNothing` when the connection is lost.

Abstractions:

* One schema. Schemas share the connection and the mutex and nothing else. A lock held
  for the other schema only delays.
* A row is its review status, its stamp, whether `unpackCCTJSON` can parse it, and
  `data`, which stands for all other columns.
* Stamps are microseconds. `std::to_string` prints six decimals and the doubles involved
  (about 1.7e9 seconds) keep every microsecond, so stamps compare as they do in the
  database.
* A call on the session is atomic or fails. Concurrent calls on one soci session are not
  defined by this code; no model can say more about them. The unlocked double in
  `mLastUpdateMap` is read and written whole.
* Rows are applied in any order; the code's order (`load_date`) is one of them.
* The hash that clients poll is recomputed in the section that stores a row and is a
  function of `cache`.

`EventService` is what a caller may rely on: a request is committed at most once,
success is told only of a committed one, and what is served of an event is a version the
table had, never a decision that was not made. `KeepsPromise` states that
`CCTPostgresService` implements it: `call` is what an io thread's request still owes its
caller (`CallOf`), the rows and the cache are their own image. Reading the stamp,
waiting for the mutex, fetching and finishing are stutters.

### AQMSPostgresClient and Review

`AQMSPostgresClient` has the state of one event (`prefor`, `prefmag`, the origin of each
Mw,coda magnitude, `eventprefmag`). A query is a set of answers, wider when
`QueriesFail`; a transaction is one step, since `soci::transaction` commits or rolls
back. `Foreign` stands for every magnitude of another type. `magpref` may choose any
magnitude. `Review` runs a request of an io thread through its calls (`pc`) with what it
learned (`call`). `DecideCCT` is the promise of `CCTPostgresService` to its caller:
committed and told so, committed with the answer lost, or not committed. The CCT
software, which may write the row anew and unreviewed, does so in `CCTPostgresService`
only: what `Review` says of `cct` is what requests have made of it. `Crash` kills the
process. A relocation (`AQMSMoves`) may come between any two calls; in `CalmSpec` it
comes only while no request is under way. Callback.cpp passes `updatePrefMag = false`
only; the other value is not modelled.

`ReviewService` is what the two branches do to the databases: a request is asked,
recorded in AQMS by one transaction that changes one magnitude at most, decided in the
CCT table, and answered; it may be given up at any point. Only a reject may be decided
without a transaction. `WritesInOrder` states that `Review` implements it; `RequestOf`
maps a request, whose queries are stutters.

### Server

| Variable | Code |
|---|---|
| `usable`, `accepting` | the constructor of `Listener` got to `listen`; an `async_accept` is outstanding |
| `descriptors`, `backlog` | what the kernel has: descriptors left for connections, connections not accepted yet |
| `client`, `unread` | the client's end and the messages in the socket or in `mBuffer` |
| `stage`, `deadline`, `answer` | the session's object, which is what its outstanding operation is; the timer of its stream; the response being written |
| `owed`, `success` | history: requests the callback was called with and whose answer is not written, and successes, by connection |

A handler is one action, as Asio runs it to its end. `CallbackEnds` is apart from
`Execute`, which calls the callback, because the other handlers run in between on other
threads, the clients go on, and the deadline passes. `Parse` takes one message out of
the buffer and is followed by `AnswerAtOnce` (OPTIONS, a method not known) or `Execute`.
`Drop` is the destruction of a session, after `doClose` or when no handler holds it. The
deadline that `doRead` sets runs on through callback and write, since nothing sets it
anew. An SSL session gets as far as its handshake: `main.cpp:246-260` gives the context
no certificate, so the handshake ends in an error, and what follows it is not reached.

### Access

| Variable | Code |
|---|---|
| `mUserKeysMap` | the table of `IAuthenticator`, a token per user |
| `started` | the second that the signing key `mKey` is made from |
| `mLDAP`, `mBound`, `opened` | the handle, the flag, and which handles libldap has allocated |
| `pc`, `login` | the callback of each io thread, with what its login holds |
| `held`, `stale` | tokens answered by this process and by earlier ones |
| `validated`, `overlapped` | history: users LDAP has accepted, logins at once |

A login is one step for each read or write of `mLDAP` and `mBound` (`TestBound`,
`FreeHandle`, `ClearBound`, `Initialize`, `SetBound`, `Bind`), because another io thread
may come between. The table is under a mutex: `Add` and the lookups are atomic. A token
is the record of what is signed and the key; forging is left out. The verifier's leeway
and the lifetime are constants. `createCredentials` gives every user `ReadWrite`, so the
refusals of `callback.cpp:457-469` for less are not reached; `Requests`, `Complete`,
`Mistyped` and `Replies` have the other ones. `HandleSound` holds while no two logins
overlap, which one io thread ensures (the default). With two, a second login may free
the handle between the first one's `Initialize` and `Bind`; `overlapped` says so in the
property.

### CCTReview

| Variable | Code |
|---|---|
| `authenticated`, `expired` | the state of `App`, the time in the token |
| `schema`, `events`, `eventIdentifier` | `settings.schema` and the React state; `events` remembers the schema it came from |
| `timer`, `due` | the closure that `setInterval` holds, and that its interval is over |
| `acceptRequested`, `rejectRequested` | the buttons of `TableFit` that are loading |
| `requests` | the `fetch` calls under way, with the closure each will go on with |
| `actions`, `rejectFailed` | bound of the user, history |

A handler runs to its end, then React renders. A closure (`Closure`) is what
`handleGetEvents` saw of its render, but `handleUpdateEventIdentifier` and
`handleUpdateSettings` assign to variables of their own render, so closures of that
render follow (`Clicked`; `seen` in `Switch`). `ofRender` and `ofSettings` say whether a
closure still shares them with the page; `astray` is history. Each render starts the
interval anew (`Rerender`). `Slots` bounds the requests under way.

## Runs

| Run | Instance | Shows |
|---|---|---|
| `MCCCTCache` | 1 event, 2 io threads, poller | `CacheInvariant`, which holds `NothingLost`, and `NeverForgets` with three refreshes overlapping; `KeepsPromise`, the refinement of `EventService` |
| `MCCCTOneWorker` | 2 events, 1 io thread (the default), poller | `NothingLost` and `CacheBehindTable` with rows competing for the watermark and a `LIMIT` that leaves one out; `DecisionShown`; `ColdStaysCold` |
| `MCCCTLiveness` | 1 event, 1 io thread, poller, stop | `EventuallyFresh`, `DecisionsEnd`, `StopEnds` |
| `MCCCTRefreshFailure` | the same | violation: a refresh that fails after a decision matters (`cctPostgresService.cpp:338`) |
| `MCReview` | 2 origins, requests one after another, two changes by other programs between them | `OneMagnitudePerOrigin`, `PreferredExists`, `CCTLast`, `RejectSettled` under failures and crashes |
| `MCReviewMoves` | and two changes by other programs at any time | `AcceptRecorded`, `RequestsEnd`; `WritesInOrder`, the refinement of `ReviewService` |
| `MCReviewDuplicate` | and one change by another program at any time | violation: a second magnitude on one origin (`aqmsPostgresClient.cpp:214`) |
| `MCReviewAccept` | and queries that throw | violation: an accept succeeds without a magnitude (`aqmsPostgresClient.cpp:894`) |
| `MCReviewReject` | as `MCReview` | violation: a failed reject is answered with success (`callback.cpp:850`) |
| `MCServer` | 2 connections, 1 or 2 descriptors, 1 io thread, 2 messages unread on each | `AnsweredOrExplained`, `SuccessIsLast`; `AnswersEnd`; `SessionsEnd`, `ClientsAccepted` unless a client sends for ever |
| `MCAccess` | 1 user, 2 io threads, 2 handles, a restart | `AuthorizedHonest`, `TokensKeepWorking`, `LoginHonest`, `HandleSound` |
| `MCCCTReview` | 2 schemas, 2 events, 2 requests under way, 3 user actions | `AcceptOnce`, `SelectionKept`; `ShowsChosenSchema`, `ButtonsReturn`, `ExpiryNoticed` |

In `MCReview` other programs change the event only between requests (`CalmSpec`),
because `PreferredExists` fails otherwise: when one makes the magnitude preferred after
`deleteNetworkMagnitude` has read `prefmag` (`aqmsPostgresClient.cpp:732`) and before
its transaction, the row is deleted and stays preferred, unless a constraint of the AQMS
schema, which this repository does not contain, forbids it. `CCTLast` and
`RejectSettled` fail then too, as a consequence of the duplicate that
`MCReviewDuplicate` shows: a delete removes one magnitude of the origin. With two io
threads, two accepts that both find no magnitude make the same duplicate; the default is
one, and `Review` is checked for it.

In `MCReviewAccept` the update of magnitude 0 changes no row of `netmag`. When the event
has no preferred magnitude nothing else mentions the identifier but the credit row;
otherwise `eventprefmag` receives it, which a constraint of the schema may refuse.

**What `NothingLost` says.** The code loses rows in known ways, so "the cache equals the
table" is false. `Dependable` names the ways: the row does not parse; it was committed
with a stamp a query in flight or the watermark had already passed, or the initial
`LIMIT` left it out (`late`); an older copy was stored over it by an overlapping query
(`regressed`). `NothingLost` says there is no other way: any other row is served, or
lies above the watermark, so that the next `SELECT` returns it.

**Bounds.** A lost row takes a commit, a query in flight and a second query or a second
stamp: two io threads and the poller give three queries on one event, and the second run
gives two rows with distinct stamps. `MaxClock` 2 gives three stamps and 3 four, enough
for one below, one at and one above the watermark, with equal readings of the clock
allowed; at the bound the clock stands still and time stamps stay equal, which the code
allows. `MaxWrites` 1 lets the CCT software write once besides the initial rows and the
decisions, which are not bounded. `InitialLimit` 1 is below the number of events in
`MCCCTOneWorker`. The first two runs cut states after `stop()` and rejected rows
(`Running`); a rejection differs from an acceptance in the value stored. The liveness
runs have no such cut and no symmetry. In `Review`, three magnitudes are one more than a
duplicate needs; requests and crashes are not bounded.

In `Server`, two connections compete for one descriptor and for the io thread; two
messages unread on each let a client pipeline two behind the one that is executed, and
how many it sends in all is not bounded. Connections share nothing else, and the proofs
are for any number. In `Access`, two io threads are what an overlap takes, and two
handles what a leak takes; `Lifetime` 1, `Leeway` 0 and three seconds let a token
expire, be signed twice in a second and twice in different seconds; one restart makes
tokens stale, in the same second or a later one. Users meet only in the handle, which
`HandleSound` covers: two make the run too long and the proofs are for any number. In
the page, two requests overtake each other; three actions let the user select, switch
and decide, or switch there and back, while they do.

**What `SessionsEnd` and `ClientsAccepted` except.** Each answer that keeps the
connection returns to `doRead` (`server.hpp:503-511`), which starts the 30 seconds again
(`:430`). So a client that keeps sending OPTIONS, or requests that fail and ask to keep
the connection, holds its session and its descriptor for as long as it likes, and one
that holds the last descriptor keeps every later client waiting, while `onAccept`
(`listener.cpp:95-118`) fails and tries again. No limit on requests per connection or on
the age of a session is in the code. `Talkative(c)` is such a client. `SessionsEnd`
excepts its own session only, `ClientsAccepted` holds when there is no such client;
without the exception TLC finds both violated, by a client that sends a request that
keeps the connection after each answer. `AnswersEnd` has no exception: from the call of
the callback to the end of the write nothing starts the 30 seconds again.

**Fairness.** A thread keeps running (`WF` of the poller's loop). A thread that asks for
the mutex again and again gets it (`SF` of a worker's steps and of the poller's): every
holder gives it up after one call, but each call may come between. The poller asks every
minute for ever, and liveness of the cache needs that the database is not down for ever
(`SF` of its `ReadWatermark` and `Fetch`); a worker gets no such promise, its calls may
all fail. In `Review` each handler runs on: no call blocks for ever, as
`connect_timeout=10` and the exceptions of soci provide.

In `Server`, an io thread takes ready handlers in the order of the `io_context`'s queue,
so one that is ready again and again runs (`SF` of `Accept` and of `Expire`, which may
wait for a thread that a callback holds). Each callback ends (`WF` of `CallbackEnds`).
Time passes over a session that stays in one stage (`WF` of `Elapse`, for each stage): a
session that keeps moving may be back in `doRead`, which starts the 30 seconds again
(`server.hpp:430`), before they are over. Nothing is assumed of clients: one may send
for ever (see above). `Access` states no liveness. In the page, the timer and every
request make progress (`WF`: a `fetch` is answered or fails), and a backend that is
asked for the chosen schema's events again and again answers well at last (`SF`);
without this the page would show the old schema for ever. User actions are bounded by
`MaxActions`, and must be: a render starts the interval anew (`CCTReview.jsx:113-117`),
so a user who clicks more often than every interval holds the poll off.

## Proofs

`CCTPostgresService_proofs` proves for every set of events and io threads, every `LIMIT`
and every bound, from `ConstantsAssumption` only (identifiers are distinct from the null
value, the numbers are naturals):

* `TypeCorrect`: `Spec => []TypeOK`.
* `InvariantHolds`: `Spec => []CacheInvariant`, the inductive invariant.
* `NothingIsLost`, `CacheStaysBehind`: two of its parts.
* `CacheNeverForgets`: `Spec => NeverForgets`. `ColdForEver`: `Spec => ColdStaysCold`.

`NothingLost` is not inductive: a query in flight may write a watermark. `QueriesCover`
says what each query owes: if the watermark it may record passes the row of a dependable
event, the row is served or is still in its hands. A commit is `late` exactly when some
query could pass its stamp (`CommitCovers`). `Fetch` takes every row above its bound and
the rest was covered by `NothingLost` (`FetchCovers`). `ApplyRow` turns a row in hand
into a served one (`ApplyRowCovers`). `Finish` writes a watermark that passes only what
its query has covered (`FinishCovers`). These need `StagesFit`, what a thread holds at
each stage, and `CacheBehindTable`. `ColdForEver` needs `ColdQueries` besides: no query
gets past a bound of `lowest()`.

`CCTPromise_proofs`, from the same assumption: `PromiseKept`, `Spec => KeepsPromise`.
That the cache is not newer than the table does not keep a decision out of it that was
never made, so the invariant is strengthened by `RowsServable` (whatever is cached or in
the hands of a query is a row the table has had) and `IdleAsksNothing`. Each action is
shown to be a step of `EventService` or a stutter.

`CCTDecision_proofs` adds the assumption `OneThread`, one io thread, which is the
default: `DecisionIsShown`, `Spec => []DecisionShown`. `CacheInvariant` lets a query
record a watermark past a decision that is served later; what is added is that the query
of the request itself has the decided row in its hands or is past its stamp
(`DecisionsInHand`), and that a thread that is not idle has a request
(`BusyHasRequest`). The poller and the CCT software run at any time. A second io thread
that decides the same event with the same stamp, between this one's commit and its
query, would void the argument.

`Review_proofs`, from `AQMSAssumption` and `ReviewAssumption` (the null value and
`Foreign` are no identifiers, the bounds are naturals), for any number of io threads:
`TypeCorrect`. The other theorems add `Reliable`, one io thread and no query that throws
on a live connection; `MCReviewAccept` shows what breaks without the second, and two io
threads make a duplicate as said above. They hold for any origins, any number of
magnitudes, of relocations, of failures and of crashes.

* `AcceptIsRecorded` (`AcceptRecorded`) holds with relocations at any time, from
  `RequestsFit`: what a request knows of the magnitude at each stage.
* `OneMagnitude` (`OneMagnitudePerOrigin`), `PreferredStays` (`PreferredExists`),
  `RejectIsSettled` (`RejectSettled`) and `CCTIsLast` (`CCTLast`) are theorems of
  `CalmSpec`. `MCReviewDuplicate` shows that they need it. To `RequestsFit` the
  invariant adds that what a request has read is what AQMS still has (`CallsCalm`) and
  the two properties of AQMS themselves (`AQMSFits`): an insert needs the origin to be
  empty since its check, a delete needs the origin to have one magnitude only, or it
  would leave one behind.

`ReviewPromise_proofs`, without `Reliable`: `OrderKept`, `Spec => WritesInOrder`, for
any number of io threads, relocations at any time and queries that throw. It needs
little (`OrderInvariant`): an accept comes to the CCT table with a magnitude, an insert
has an origin, and the next value of `magseq` is not in use. So whatever else goes wrong
in those runs, no request writes twice or in the wrong order.

`Server_proofs`, from `ServerAssumption` (messages have a kind; thread and descriptor
numbers are positive), for any number of connections, io threads and messages:
`TypeCorrect`, `SuccessEnds` (`SuccessIsLast`), `AnswersGiven` (`AnsweredOrExplained`).
The inductive invariant `ServerInvariant` adds to them `BacklogFits`, a connection is in
the backlog once and has no session yet, and `AnswersFit`, an answer that is owed is
being made or written, and one after a success closes the connection. Without the
second, a session could be dropped with an answer owed.

`Access_proofs`, from `AccessAssumption` (numbers are naturals; the null value is no
user, handle or token), for any number of users, io threads and restarts: `TypeCorrect`,
`GateHonest` (`AuthorizedHonest`), `TokensWork` (`TokensKeepWorking`), `LoginsHonest`
(`LoginHonest`), from `TokenInvariant`: the table holds only tokens this process signed
for users LDAP accepted (`TableHonest`), every token answered has its user in the table
(`AnsweredKnown`), a login holds what its stage says (`LoginsFit`), and the token that
is about to be added is not older than a login of its user under way (`TokensRecent`).
`HandleIsSound` (`HandleSound`) needs `HandleFits`, where the one login under way stands
between freeing, clearing and opening.

`CCTReview_proofs`, from `PageAssumption` (the production schema is one, the null value
is no request), for any number of events, schemas and requests: `TypeCorrect`,
`OneAccept` (`AcceptOnce`), `SelectionStays` (`SelectionKept`), from `PageInvariant`: a
closure that is not astray knows the selected event (`ClosuresKnow`), and an accept
under way has its button loading until a reject fails (`AcceptHeld`).

Only model-checked: the liveness properties, which the prover cannot treat
(`EventuallyFresh`, `DecisionsEnd`, `StopEnds`, `RequestsEnd`, `AnswersEnd`,
`SessionsEnd`, `ClientsAccepted`, `ShowsChosenSchema`, `ButtonsReturn`,
`ExpiryNoticed`). Every safety property of a passing run is a theorem.

## Plan

1. `CCTPostgresService`, its runs and proofs: done.
2. `AQMSPostgresClient`, `Review`, their runs and proofs: done.
3. `EventService`, `ReviewService` and their refinements, as runs and as theorems: done.
4. The server: listener, sessions, status of each exception: done, with proofs.
5. The gate, tokens and LDAP: done, with proofs.
6. The page: done, with proofs.
7. Left: `DecideCCT` of `Review` as a step of `EventService`, which is stated in the
   comments and not proved.

## Not modelled

* **The PostgreSQL connection** as an object of its own. Its calls are part of the
  action of the client that makes them: they succeed, or throw. Several io threads on
  one soci session are not defined by this repository, so there is nothing to translate.
* **An SSL session after its handshake**, which is not reached (see Server). Its code is
  a copy of the plain one's with a `shutdown`.
* **Permissions less than `ReadWrite`**, which nothing makes. The test at
  `callback.cpp:463` joins two inequalities of the method with `||` and would refuse a
  read-only user everything. `remove()`, which is called by nobody. A failure of
  `ldap_set_option`, whose options are constants.
* **The status of `BadRequestException`.** It "should result in a 400 Bad Request error"
  (`exceptions.hpp:27`), but is no `std::invalid_argument`, so the last catch
  (`server.hpp:385`) answers 500. `ServiceAnswer` has it so; no run is spent on it, as
  it is read off the types.
* **Pure parts**: distance, azimuth and gap in `callback.cpp`, the guards of `NetMag`,
  the loops of `unpackCCTJSON.hpp`. They compute a value from one row and keep no state;
  their arithmetic is on doubles, which TLA+ has none of. A row that does not parse is a
  case of `CCTPostgresService`.
* **Of the page**: the login form and a second login in the same window, the downloads,
  rendering, and what a request does when it returns after the page was left. A call
  that notices the expiry logs out and still sends its request
  (`getLightWeightDataFromAPI.js:12`, `acceptFromAPI.js:12`, `rejectFromAPI.js:12`); its
  answer finds no page, so `Leave` drops it with the others, and what the backend makes
  of the expired token is in `Access`.
* `base64.hpp` is third-party; command line, environment and TLS set-up are I/O.
