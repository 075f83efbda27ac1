------------------------- MODULE CCTPostgresService -------------------------
(***************************************************************************)
(* The cache of CCT events (src/backend/src/cctPostgresService.cpp): one   *)
(* schema's table <schema>.event, the copy of its rows that every request  *)
(* is answered from, the watermark mLastUpdateMap[schema], the poller      *)
(* thread, and the request threads that accept or reject an event.         *)
(*                                                                         *)
(* Schemas share the connection and the mutex and nothing else, so one     *)
(* schema is modelled.  A row carries what the properties tell apart: the  *)
(* review status, the last_update stamp, whether unpackCCTJSON can parse   *)
(* it, and `data', which stands for every other column.                    *)
(*                                                                         *)
(* Every call on the session is atomic or fails.  A lost connection is a   *)
(* call that fails, and the reconnection belongs to the call that needs    *)
(* it, so the state of the connection is not a variable.                   *)
(***************************************************************************)
EXTENDS Integers, FiniteSets

CONSTANTS
    Events,         \* identifiers that may appear in the table
    Workers,        \* io threads: each may run acceptEvent or rejectEvent
    Poller,         \* the thread that executes run()
    None,           \* no row, no request
    InitialLimit,   \* LIMIT of the initial query (50 in the code)
    MaxClock,       \* bound on time stamps
    MaxWrites       \* bound on rows written by the CCT software

Threads == Workers \cup {Poller}

\* A stamp is the number of microseconds read from a clock.
Stamps == 0 .. MaxClock
\* std::numeric_limits<double>::lowest(), below every stamp
Lowest == -1

Rows == [data : 0 .. MaxWrites, parses : BOOLEAN,
         review : {"U", "A", "R"}, lastUpdate : Stamps]

Tables == [Events -> Rows \cup {None}]

Requests == [event : Events, review : {"A", "R"}, stamp : Stamps,
             success : BOOLEAN]

\* What the caller of acceptEvent or rejectEvent can still expect.
Calls == [event : Events, review : {"A", "R"}, open : BOOLEAN, success : BOOLEAN]

\* The local variables of updateQuery: newestUpdate, updated, and the
\* fetched rows that are still to be unpacked.
Queries == [newest : Stamps \cup {Lowest}, updated : BOOLEAN, rows : Tables]

ASSUME ConstantsAssumption ==
    /\ Poller \notin Workers /\ None \notin Threads
    /\ None \notin Rows /\ None \notin Requests /\ None \notin Calls
    /\ InitialLimit \in Nat /\ MaxClock \in Nat \ {0} /\ MaxWrites \in Nat

VARIABLES
    db,             \* <schema>.event: the row of each event, or None
    clock,          \* the clock all stamps are read from
    writes,         \* rows written so far by the CCT software (bound, names data)
    cache,          \* mEventsMap.at(schema)
    mLastUpdate,    \* mLastUpdateMap[schema], the watermark
    mRunning,       \* keeps run() looping
    mMutex,         \* the thread that holds mMutex across two steps, or None
    pc,             \* where each thread stands
    request,        \* acceptRejectEvent's arguments and locals, per worker
    query,          \* updateQuery's locals, per thread
    late,           \* history: events whose row was committed with a stamp
                    \*   that a thread had already read past, or that the
                    \*   initial LIMIT left out with a stamp read past
    regressed       \* history: events whose current copy was overwritten
                    \*   by an older one

external == <<db, clock, writes>>
service  == <<cache, mLastUpdate, mRunning>>
threads  == <<pc, request, query>>
history  == <<late, regressed>>
vars == <<external, service, mMutex, threads, history>>

-----------------------------------------------------------------------------
(* Clock and table *)

\* A clock read returns the time of the previous read or the next instant:
\* two reads may return the same microsecond.
ClockReads == {s \in {clock, clock + 1} : s \in Stamps}

EmptyTable == [e \in Events |-> None]

Larger(a, b) == IF a > b THEN a ELSE b

\* A thread that has read the watermark and not yet returned from updateQuery.
InFlight(t) == pc[t] \in {"fetch", "apply"}

\* Thread t will record a watermark at or above s, or may do so.
MayRecord(t, s) ==
    \/ s <= query[t].newest
    \/ \E e \in Events : /\ query[t].rows[e] # None
                         /\ query[t].rows[e].parses
                         /\ s <= query[t].rows[e].lastUpdate

\* No later SELECT is sure to ask for a row stamped s.
ReadPast(s) ==
    \/ s <= mLastUpdate
    \/ \E t \in Threads : InFlight(t) /\ MayRecord(t, s)

\* Event e gets the row r in the table.
Commit(e, r) ==
    /\ db' = [db EXCEPT ![e] = r]
    /\ late' = IF ReadPast(r.lastUpdate) THEN late \cup {e} ELSE late \ {e}
    /\ regressed' = regressed \ {e}

\* Mutant: rows of events that are cached already are not updated.
StoreInsertsOnly(e, r) ==
    /\ cache' = IF cache[e] = None THEN [cache EXCEPT ![e] = r] ELSE cache
    /\ late' = IF r = db[e] THEN late \ {e} ELSE late
    /\ regressed' = IF r = db[e] THEN regressed \ {e}
                    ELSE IF cache[e] = db[e] THEN regressed \cup {e}
                    ELSE regressed

\* cache[e] becomes the fetched row r: insert or update of events.hpp.
Store(e, r) ==
    /\ cache' = [cache EXCEPT ![e] = r]
    /\ late' = IF r = db[e] THEN late \ {e} ELSE late
    /\ regressed' = IF r = db[e] THEN regressed \ {e}
                    ELSE IF cache[e] = db[e] THEN regressed \cup {e}
                    ELSE regressed

-----------------------------------------------------------------------------
(* The constructor and start() *)

\* The LIMIT keeps the rows loaded last, whatever their stamps are.
Loadable == {e \in Events : db[e] # None}

InitialSelections ==
    {L \in SUBSET Loadable :
        \/ L = Loadable /\ Cardinality(L) <= InitialLimit
        \/ Cardinality(Loadable) > InitialLimit /\ Cardinality(L) = InitialLimit}

\* initialQuery: the selected rows that parse are inserted, and the newest of
\* their stamps becomes the watermark, lowest() when there are none.
LoadRows ==
    /\ \E L \in InitialSelections :
          cache = [e \in Events |->
                     IF e \in L /\ db[e].parses THEN db[e] ELSE None]
    /\ mLastUpdate \in {Lowest} \cup
          {cache[e].lastUpdate : e \in {x \in Events : cache[x] # None}}
    /\ \A e \in Events :
          cache[e] # None => cache[e].lastUpdate <= mLastUpdate

\* The connection is lost again before the query: nothing is inserted, not even
\* a watermark.  updateQuery throws for want of one as it does on lowest().
LoadNothing == cache = EmptyTable /\ mLastUpdate = Lowest

InitialQuery == LoadRows \/ LoadNothing

NoQuery == [newest |-> Lowest, updated |-> FALSE, rows |-> EmptyTable]

Init ==
    /\ clock = 1 /\ writes = 0
    /\ db \in Tables
    /\ \A e \in Events :
          db[e] # None => db[e].data = 0 /\ db[e].lastUpdate <= clock
    /\ InitialQuery
    /\ late = {e \in Events : /\ db[e] # None /\ cache[e] = None
                              /\ db[e].lastUpdate <= mLastUpdate}
    /\ regressed = {}
    /\ mRunning = TRUE /\ mMutex = None
    /\ pc = [t \in Threads |-> IF t = Poller THEN "sleep" ELSE "idle"]
    /\ request = [t \in Threads |-> None]
    /\ query = [t \in Threads |-> NoQuery]

-----------------------------------------------------------------------------
(* updateQuery, executed by the poller and by the workers *)

\* updateQuery returns or throws; both callers catch.  The poller sleeps, the
\* worker answers.
Leave(t) ==
    /\ pc' = [pc EXCEPT ![t] = IF t = Poller THEN "sleep" ELSE "idle"]
    /\ query' = [query EXCEPT ![t] = NoQuery]
    /\ request' = [request EXCEPT ![t] = None]

\* The connection is there, or is made anew; the watermark is read, with no lock.
ReadWatermark(t) ==
    /\ pc[t] = "refresh"
    /\ pc' = [pc EXCEPT ![t] = "fetch"]
    /\ query' = [query EXCEPT ![t] = [NoQuery EXCEPT !.newest = mLastUpdate]]
    /\ UNCHANGED <<external, service, mMutex, request, history>>

\* Mutant: lowest() is taken for a time before all others.
FetchFromLowest(t) ==
    /\ pc[t] = "fetch"
    /\ pc' = [pc EXCEPT ![t] = "apply"]
    /\ query' = [query EXCEPT ![t].rows = [e \in Events |->
                    IF db[e] # None /\ db[e].lastUpdate > query[t].newest
                    THEN db[e] ELSE None]]
    /\ UNCHANGED <<external, service, mMutex, request, history>>

\* SELECT ... WHERE last_update > TO_TIMESTAMP(newestUpdate).  lowest() is
\* not a timestamp: the database refuses the statement.  The client holds the
\* whole result when the SELECT returns: unpacking it asks nothing more.
Fetch(t) ==
    /\ pc[t] = "fetch" /\ query[t].newest # Lowest
    /\ pc' = [pc EXCEPT ![t] = "apply"]
    /\ query' = [query EXCEPT ![t].rows = [e \in Events |->
                    IF db[e] # None /\ db[e].lastUpdate > query[t].newest
                    THEN db[e] ELSE None]]
    /\ UNCHANGED <<external, service, mMutex, request, history>>

\* Mutant: run() does not catch, and the exception ends the poller.
QueryFailsUncaught(t) ==
    /\ pc[t] \in {"refresh", "fetch"}
    /\ pc' = [pc EXCEPT ![t] = IF t = Poller THEN "done" ELSE "idle"]
    /\ query' = [query EXCEPT ![t] = NoQuery]
    /\ request' = [request EXCEPT ![t] = None]
    /\ UNCHANGED <<external, service, mMutex, history>>

\* The connection cannot be made, or the SELECT throws.
QueryFails(t) ==
    /\ pc[t] \in {"refresh", "fetch"}
    /\ Leave(t)
    /\ UNCHANGED <<external, service, mMutex, history>>

\* One row of the loop that parses: insert or update under the lock, then the
\* local maximum.
ApplyRow(t, e) ==
    LET r == query[t].rows[e] IN
    /\ pc[t] = "apply" /\ r # None
    /\ r.parses
    /\ mMutex = None
    /\ Store(e, r)
    /\ query' = [query EXCEPT ![t] =
                   [newest |-> Larger(r.lastUpdate, query[t].newest),
                    updated |-> TRUE,
                    rows |-> [query[t].rows EXCEPT ![e] = None]]]
    /\ UNCHANGED <<external, mLastUpdate, mRunning, mMutex, pc, request>>

\* Mutant: a row that does not parse takes its event out of the cache.
SkipRowForgets(t, e) ==
    LET r == query[t].rows[e] IN
    /\ pc[t] = "apply" /\ r # None
    /\ ~ r.parses
    /\ query' = [query EXCEPT ![t].rows[e] = None]
    /\ cache' = [cache EXCEPT ![e] = None]
    /\ UNCHANGED <<external, mLastUpdate, mRunning, mMutex, pc, request, history>>

\* One row that does not parse: the exception is caught in the loop.
SkipRow(t, e) ==
    LET r == query[t].rows[e] IN
    /\ pc[t] = "apply" /\ r # None
    /\ ~ r.parses
    /\ query' = [query EXCEPT ![t].rows[e] = None]
    /\ UNCHANGED <<external, service, mMutex, pc, request, history>>

\* Mutant: the watermark is moved one past the newest row.
FinishOnePast(t) ==
    /\ pc[t] = "apply" /\ query[t].rows = EmptyTable
    /\ mLastUpdate' =
          IF query[t].updated THEN query[t].newest + 1 ELSE mLastUpdate
    /\ Leave(t)
    /\ UNCHANGED <<external, cache, mRunning, mMutex, history>>

\* Mutant: the watermark is set to the present time.
FinishAtNow(t) ==
    /\ pc[t] = "apply" /\ query[t].rows = EmptyTable
    /\ mLastUpdate' = IF query[t].updated THEN clock ELSE mLastUpdate
    /\ Leave(t)
    /\ UNCHANGED <<external, cache, mRunning, mMutex, history>>

\* After the loop, with no lock: the watermark becomes the local maximum.
Finish(t) ==
    /\ pc[t] = "apply" /\ query[t].rows = EmptyTable
    /\ mLastUpdate' = IF query[t].updated THEN query[t].newest ELSE mLastUpdate
    /\ Leave(t)
    /\ UNCHANGED <<external, cache, mRunning, mMutex, history>>

UpdateQuery(t) ==
    \/ ReadWatermark(t) \/ Fetch(t) \/ QueryFails(t) \/ Finish(t)
    \/ \E e \in Events : ApplyRow(t, e) \/ SkipRow(t, e)

-----------------------------------------------------------------------------
(* run() and stop() *)

\* Mutant: the loop does not look at mRunning.
WakeAlways ==
    /\ pc[Poller] = "sleep"
    /\ pc' = [pc EXCEPT ![Poller] = "refresh"]
    /\ UNCHANGED <<external, service, mMutex, request, query, history>>

\* The interval has passed and mRunning was read as true.
Wake ==
    /\ pc[Poller] = "sleep" /\ mRunning
    /\ pc' = [pc EXCEPT ![Poller] = "refresh"]
    /\ UNCHANGED <<external, service, mMutex, request, query, history>>

Exit ==
    /\ pc[Poller] = "sleep" /\ ~ mRunning
    /\ pc' = [pc EXCEPT ![Poller] = "done"]
    /\ UNCHANGED <<external, service, mMutex, request, query, history>>

\* stop() sets the flag, then joins the thread: the join ends with Exit.
Stop ==
    /\ mRunning
    /\ mRunning' = FALSE
    /\ UNCHANGED <<external, cache, mLastUpdate, mMutex, threads, history>>

-----------------------------------------------------------------------------
(* acceptRejectEvent, executed by a worker *)

\* haveEvent has found the event under the lock; the stamp of the decision is
\* read before the lock is asked for again.
BeginDecision(w, e, review) ==
    /\ pc[w] = "idle" /\ mMutex = None
    /\ cache[e] # None
    /\ \E s \in ClockReads :
          /\ clock' = s
          /\ request' = [request EXCEPT ![w] =
                [event |-> e, review |-> review, stamp |-> s, success |-> FALSE]]
    /\ pc' = [pc EXCEPT ![w] = "lock"]
    /\ UNCHANGED <<db, writes, service, mMutex, query, history>>

LockMutex(w) ==
    /\ pc[w] = "lock" /\ mMutex = None
    /\ mMutex' = w
    /\ pc' = [pc EXCEPT ![w] = "execute"]
    /\ UNCHANGED <<external, service, request, query, history>>

\* Mutant: the exception leaves the function with the mutex locked.
AbortKeepsLock(w) ==
    /\ pc[w] = "execute"
    /\ Leave(w)
    /\ UNCHANGED <<external, service, mMutex, history>>

\* No connection, or prepare throws: the caller gets false or the exception,
\* and the cache is not refreshed.
AbortDecision(w) ==
    /\ pc[w] = "execute"
    /\ mMutex' = None
    /\ Leave(w)
    /\ UNCHANGED <<external, service, history>>

\* Mutant: the whole row is written back from the cache.
CommitCachedRow(w) ==
    LET q == request[w] IN
    /\ pc[w] = "execute"
    /\ Commit(q.event, [cache[q.event] EXCEPT !.review = q.review,
                                              !.lastUpdate = q.stamp])
    /\ \E answered \in BOOLEAN :
          request' = [request EXCEPT ![w].success = answered]
    /\ mMutex' = None
    /\ pc' = [pc EXCEPT ![w] = "refresh"]
    /\ UNCHANGED <<clock, writes, service, query>>

\* Mutant: a decision whose answer was lost is executed again.
CommitDecisionRetries(w) ==
    LET q == request[w] IN
    /\ pc[w] = "execute"
    /\ Commit(q.event, [db[q.event] EXCEPT !.review = q.review,
                                           !.lastUpdate = q.stamp])
    /\ \E answered \in BOOLEAN :
          /\ request' = [request EXCEPT ![w].success = answered]
          /\ pc' = [pc EXCEPT ![w] = IF answered THEN "refresh" ELSE "lock"]
    /\ mMutex' = None
    /\ UNCHANGED <<clock, writes, service, query>>

\* The UPDATE is committed.  The answer may still be lost: execute() throws
\* and the request is reported as failed.
CommitDecision(w) ==
    LET q == request[w] IN
    /\ pc[w] = "execute"
    /\ Commit(q.event, [db[q.event] EXCEPT !.review = q.review,
                                           !.lastUpdate = q.stamp])
    /\ \E answered \in BOOLEAN :
          request' = [request EXCEPT ![w].success = answered]
    /\ mMutex' = None
    /\ pc' = [pc EXCEPT ![w] = "refresh"]
    /\ UNCHANGED <<clock, writes, service, query>>

\* Mutant: an UPDATE that failed is tried again.
UpdateFailsRetries(w) ==
    /\ pc[w] = "execute"
    /\ mMutex' = None
    /\ pc' = [pc EXCEPT ![w] = "lock"]
    /\ UNCHANGED <<external, service, request, query, history>>

\* execute() throws and nothing is committed; the refresh is done all the same.
UpdateFails(w) ==
    /\ pc[w] = "execute"
    /\ mMutex' = None
    /\ pc' = [pc EXCEPT ![w] = "refresh"]
    /\ UNCHANGED <<external, service, request, query, history>>

ExecuteDecision(w) ==
    LockMutex(w) \/ AbortDecision(w) \/ CommitDecision(w) \/ UpdateFails(w)

-----------------------------------------------------------------------------
(* The CCT software, which the backend only sees through the table *)

\* The row of an event is inserted or written again, unreviewed.
CCTWrite(e, parses) ==
    /\ writes < MaxWrites
    /\ writes' = writes + 1
    /\ \E s \in ClockReads :
          /\ clock' = s
          /\ Commit(e, [data |-> writes + 1, parses |-> parses,
                        review |-> "U", lastUpdate |-> s])
    /\ UNCHANGED <<service, mMutex, threads>>

-----------------------------------------------------------------------------

\* The service is stopped and no request is being answered.
Stopped ==
    /\ pc[Poller] = "done" /\ \A w \in Workers : pc[w] = "idle"
    /\ UNCHANGED vars

Next ==
    \/ Wake \/ Exit \/ Stop \/ Stopped
    \/ \E t \in Threads : UpdateQuery(t)
    \/ \E w \in Workers, e \in Events, review \in {"A", "R"} :
          BeginDecision(w, e, review)
    \/ \E w \in Workers : ExecuteDecision(w)
    \/ \E e \in Events, parses \in BOOLEAN : CCTWrite(e, parses)

Spec == Init /\ [][Next]_vars

\* Each thread keeps running, and one that asks for the mutex again and again
\* gets it.  A database that the poller asks again and again answers at last.
Fairness ==
    /\ WF_vars(Wake \/ Exit)
    /\ SF_vars(UpdateQuery(Poller))
    /\ SF_vars(ReadWatermark(Poller)) /\ SF_vars(Fetch(Poller))
    /\ \A w \in Workers : SF_vars(ExecuteDecision(w) \/ UpdateQuery(w))

FairSpec == Spec /\ Fairness

-----------------------------------------------------------------------------
(* The promise that this service keeps *)

\* The call of worker w: its decision is open until acceptRejectEvent has left the section that executes it.
CallOf(w) ==
    IF request[w] = None THEN None
    ELSE [event |-> request[w].event, review |-> request[w].review,
          open |-> pc[w] \in {"lock", "execute"},
          success |-> request[w].success]

Promise == INSTANCE EventService WITH call <- [w \in Workers |-> CallOf(w)]

-----------------------------------------------------------------------------
(* Properties *)

Stages == {"sleep", "done", "idle", "lock", "execute", "refresh", "fetch",
           "apply"}

\* Every variable keeps its type.
TypeOK ==
    /\ db \in Tables /\ clock \in Stamps /\ writes \in 0 .. MaxWrites
    /\ cache \in Tables /\ mLastUpdate \in Stamps \cup {Lowest}
    /\ mRunning \in BOOLEAN
    /\ mMutex \in Workers \cup {None}
    /\ pc \in [Threads -> Stages]
    /\ request \in [Threads -> Requests \cup {None}]
    /\ query \in [Threads -> Queries]
    /\ late \in SUBSET Events /\ regressed \in SUBSET Events

\* Event e is served as the table has it.
Fresh(e) == cache[e] = db[e]

\* None of the known reasons for serving something else applies to event e.
Dependable(e) ==
    db[e] # None /\ db[e].parses /\ e \notin late \cup regressed

\* The cache is wrong about an event only for one of the reasons the code
\* leaves open: its row does not parse, its row was committed with a stamp
\* the service had read past, or an older copy was stored over the current
\* one.  A row of any other event is served, or is still above the watermark
\* and the next SELECT (updateQuery:133-140) returns it.
NothingLost ==
    \A e \in Events :
        Dependable(e) => Fresh(e) \/ db[e].lastUpdate > mLastUpdate

\* What a query in flight owes to an event: if the watermark it will record
\* may pass over the event's row, the row is served or is still in its hands.
Covered(t, e) ==
    Dependable(e) => \/ Fresh(e)
                     \/ query[t].rows[e] = db[e]
                     \/ ~ MayRecord(t, db[e].lastUpdate)

QueriesCover ==
    \A t \in Threads, e \in Events : InFlight(t) => Covered(t, e)

\* No row of the table is served that was not there: a cached or fetched row
\* is of an event the table has, and not of a later version than the table's.
CacheBehindTable ==
    \A e \in Events :
        /\ db[e] # None => db[e].data <= writes
        /\ cache[e] # None => db[e] # None /\ cache[e].data <= db[e].data
        /\ \A t \in Threads : query[t].rows[e] # None =>
              db[e] # None /\ query[t].rows[e].data <= db[e].data

\* What is served or in the hands of a query may be out of date, but no
\* decision appears in it that was not made on the version it shows.
RowsServable ==
    \A e \in Events :
        /\ cache[e] # None => Promise!Servable(cache[e], db[e])
        /\ \A t \in Threads :
              LET r == query[t].rows[e] IN
              r # None /\ r.parses => Promise!Servable(r, db[e])

\* A thread's stage fits what it holds: rows only while they are unpacked, a
\* request from BeginDecision to the answer, the mutex from LockMutex to
\* the end of the UPDATE.
StagesFit ==
    /\ \A t \in Threads : pc[t] # "apply" => query[t].rows = EmptyTable
    /\ \A w \in Workers : /\ pc[w] \in {"lock", "execute"} => request[w] # None
                          /\ (mMutex = w) <=> (pc[w] = "execute")
    /\ \A t \in Threads : request[t] # None =>
          /\ cache[request[t].event] # None
          /\ request[t].stamp <= clock
    /\ pc[Poller] \notin {"idle", "lock", "execute"}

\* The invariant that is inductive: NothingLost needs what the queries in
\* flight owe, and they need that a thread's stage fits what it holds.
CacheInvariant ==
    /\ TypeOK /\ StagesFit /\ CacheBehindTable /\ QueriesCover /\ NothingLost

\* With one io thread (the default), the reviewer who is told of success sees
\* the decision: when the refresh that follows a committed UPDATE
\* (acceptRejectEvent:339-342) reaches its end, and the row is still the one
\* the request committed, the row is served, unless a reason given at
\* NothingLost applies.
DecisionShown ==
    \A w \in Workers :
        LET q == request[w] IN
        (/\ pc[w] = "apply" /\ query[w].rows = EmptyTable /\ q.success
         /\ db[q.event].review = q.review /\ db[q.event].lastUpdate = q.stamp
         /\ Dependable(q.event))
            => Fresh(q.event)

\* The cache never forgets an event.  Every haveEvent followed by getEvent
\* (two locked sections, cctPostgresService.cpp:438-455) relies on it.
NeverForgets ==
    [][\A e \in Events : cache[e] # None => cache'[e] # None]_vars

\* Poller, refreshes and requests together do what EventService promises:
\* a request is committed at most once, on the row the table has then
\* (acceptRejectEvent:320-336), success is told only of a committed one, and
\* no decision is served that was not made, whatever fails in between.
KeepsPromise == Promise!Spec

\* A watermark of lowest() keeps every query from reaching its rows.
ColdQueries ==
    /\ \A t \in Threads : pc[t] = "apply" => query[t].newest # Lowest
    /\ mLastUpdate = Lowest =>
          \A t \in Threads : /\ pc[t] # "apply"
                             /\ pc[t] = "fetch" => query[t].newest = Lowest

\* A service that started on a table with no row that parses never loads one:
\* the SELECT's lower bound lowest() is refused by the database for ever.
ColdStaysCold ==
    [][mLastUpdate = Lowest => mLastUpdate' = Lowest /\ cache' = cache]_vars

\* While the poller runs and the service is not cold, an event that the cache
\* is wrong about, for none of the reasons given at NothingLost, does not
\* stay so.
EventuallyFresh ==
    \A e \in Events :
        []<>(\/ Fresh(e) \/ e \in late \cup regressed \/ ~ db[e].parses
             \/ mLastUpdate = Lowest \/ ~ mRunning)

\* Every accept or reject that began is answered.
DecisionsEnd ==
    \A w \in Workers : request[w] # None ~> request[w] = None

\* A decision whose refresh is about to fetch its row (the watermark read is
\* below the stamp) is served sooner or later even if that refresh fails, as
\* the comment at acceptRejectEvent:338 says, unless the CCT software writes
\* the row again.
RefreshFailureHarmless ==
    \A w \in Workers, e \in Events :
        (/\ pc[w] = "fetch" /\ request[w] # None
         /\ request[w].event = e /\ request[w].success
         /\ query[w].newest < request[w].stamp
         /\ db[e].lastUpdate = request[w].stamp)
            ~> (\/ Fresh(e) \/ e \in regressed \/ ~ db[e].parses
                \/ db[e].review = "U" \/ ~ mRunning)

\* stop() returns: the poller leaves run() once the flag is down.
StopEnds == ~ mRunning ~> pc[Poller] = "done"

=============================================================================
