------------------------- MODULE CCTPromise_proofs -------------------------
(***************************************************************************)
(* CCTPostgresService implements EventService: proofs checked by TLAPS.    *)
(*                                                                         *)
(* The invariant of the cache says that what is served is not newer than   *)
(* the table.  A decision that was never made could still appear in it, so *)
(* RowsServable is added, and that an idle thread holds no request.        *)
(***************************************************************************)
EXTENDS CCTPostgresService_proofs

IdleAsksNothing == \A w \in Workers : pc[w] = "idle" => request[w] = None

-----------------------------------------------------------------------------
(* The invariant *)

\* What the service starts with is the table's own rows.
LEMMA ServableInit == Init => RowsServable /\ IdleAsksNothing
  <1> SUFFICES ASSUME Init PROVE RowsServable /\ IdleAsksNothing
    OBVIOUS
  <1> USE ConstantsAssumption
  <1>1. \A e \in Events : cache[e] # None => cache[e].parses
    BY DEF Init, InitialQuery, LoadRows, LoadNothing, EmptyTable
  <1>2. \A e \in Events : cache[e] # None => Promise!Servable(cache[e], db[e])
    BY <1>1, LoadedFromTable DEF Promise!Servable
  <1>3. \A t \in Threads, e \in Events : query[t].rows[e] = None
    BY DEF Init, NoQuery, EmptyTable
  <1>4. RowsServable
    BY <1>2, <1>3 DEF RowsServable
  <1>5. IdleAsksNothing
    BY DEF Init, IdleAsksNothing, Threads
  <1> QED
    BY <1>4, <1>5

\* Rows stay servable when the table does not change and every copy is one
\* that was there before.
LEMMA ServableFrame ==
    ASSUME RowsServable, UNCHANGED db,
           \A e \in Events : \/ cache'[e] = cache[e]
                             \/ \E t \in Threads :
                                   /\ cache'[e] = query[t].rows[e]
                                   /\ query[t].rows[e] # None
                                   /\ query[t].rows[e].parses,
           \A t \in Threads, e \in Events :
              query'[t].rows[e] \in {query[t].rows[e], None}
    PROVE  RowsServable'
  <1>1. ASSUME NEW e \in Events, cache'[e] # None
        PROVE  Promise!Servable(cache'[e], db[e])
    BY <1>1 DEF RowsServable
  <1>2. ASSUME NEW e \in Events, NEW t \in Threads,
               query'[t].rows[e] # None, query'[t].rows[e].parses
        PROVE  Promise!Servable(query'[t].rows[e], db[e])
    BY <1>2 DEF RowsServable
  <1>3. \A e \in Events :
          /\ cache'[e] # None => Promise!Servable(cache'[e], db[e])
          /\ \A t \in Threads :
               query'[t].rows[e] # None /\ query'[t].rows[e].parses
                 => Promise!Servable(query'[t].rows[e], db[e])
    BY <1>1, <1>2
  <1> QED
    BY <1>3 DEF RowsServable, Promise!Servable

\* They stay servable when the row of one event is replaced by a later
\* version, or by a decision on the same one.
LEMMA ServableCommit ==
    ASSUME TypeOK, CacheBehindTable, RowsServable,
           NEW e \in Events, NEW r \in Rows, Commit(e, r),
           UNCHANGED <<cache, query>>,
           db[e] # None => \/ r.data > db[e].data
                           \/ r.data = db[e].data /\ r.review # "U"
    PROVE  RowsServable'
  <1> USE ConstantsAssumption
  <1>1. db' = [db EXCEPT ![e] = r] /\ db \in Tables
    BY DEF Commit, TypeOK
  <1>2. ASSUME NEW x \in Rows, db[e] # None, x.data <= db[e].data,
               Promise!Servable(x, db[e])
        PROVE  Promise!Servable(x, r)
    <2>1. db[e] \in Rows
      BY <1>1, <1>2 DEF Tables
    <2>2. x.data \in Nat /\ r.data \in Nat /\ db[e].data \in Nat
      BY <2>1 DEF Rows
    <2> QED
      BY <1>2, <2>2 DEF Promise!Servable
  <1>3. ASSUME NEW f \in Events, cache[f] # None
        PROVE  Promise!Servable(cache[f], db'[f])
    <2>1. cache[f] \in Rows /\ db[f] # None /\ cache[f].data <= db[f].data
      BY <1>3 DEF TypeOK, Tables, CacheBehindTable
    <2>2. Promise!Servable(cache[f], db[f])
      BY <1>3 DEF RowsServable
    <2>3. db'[f] = IF f = e THEN r ELSE db[f]
      BY <1>1 DEF Tables
    <2> QED
      BY <1>2, <2>1, <2>2, <2>3
  <1>4. ASSUME NEW f \in Events, NEW t \in Threads,
               query[t].rows[f] # None, query[t].rows[f].parses
        PROVE  Promise!Servable(query[t].rows[f], db'[f])
    <2>1. query[t].rows[f] \in Rows
      BY <1>4 DEF TypeOK, Queries, Tables
    <2>2. db[f] # None /\ query[t].rows[f].data <= db[f].data
      BY <1>4 DEF CacheBehindTable
    <2>3. Promise!Servable(query[t].rows[f], db[f])
      BY <1>4 DEF RowsServable
    <2>4. db'[f] = IF f = e THEN r ELSE db[f]
      BY <1>1 DEF Tables
    <2> QED
      BY <1>2, <2>1, <2>2, <2>3, <2>4
  <1>5. \A f \in Events :
          /\ cache'[f] # None => Promise!Servable(cache'[f], db'[f])
          /\ \A t \in Threads :
               query'[t].rows[f] # None /\ query'[t].rows[f].parses
                 => Promise!Servable(query'[t].rows[f], db'[f])
    BY <1>3, <1>4
  <1> QED
    BY <1>5 DEF RowsServable, Promise!Servable

\* The row a decision commits: the table's, with the review of the request.
LEMMA DecidedRow ==
    ASSUME TypeOK, StagesFit, CacheBehindTable, NEW w \in Workers,
           pc[w] = "execute",
           NEW r, r = [db[request[w].event] EXCEPT !.review = request[w].review,
                                                   !.lastUpdate = request[w].stamp]
    PROVE  /\ request[w] \in Requests /\ request[w] # None
           /\ db[request[w].event] \in Rows /\ db[request[w].event] # None
           /\ r \in Rows /\ r.review = request[w].review /\ r.review # "U"
           /\ r.data = db[request[w].event].data
           /\ r.parses = db[request[w].event].parses
  <1> USE ConstantsAssumption
  <1>1. request[w] \in Requests /\ request[w] # None
    BY DEF TypeOK, StagesFit, Threads
  <1>2. /\ request[w].event \in Events /\ request[w].stamp \in Stamps
        /\ request[w].review \in {"A", "R"}
    BY <1>1 DEF Requests
  <1>3. cache[request[w].event] # None
    BY <1>1 DEF StagesFit, Threads
  <1>4. db[request[w].event] \in Rows /\ db[request[w].event] # None
    BY <1>2, <1>3 DEF TypeOK, Tables, CacheBehindTable
  <1> QED
    BY <1>1, <1>2, <1>4 DEF Rows

\* The row the CCT software writes is a version the table never had.
LEMMA WrittenRow ==
    ASSUME TypeOK, CacheBehindTable, NEW e \in Events, NEW parses \in BOOLEAN,
           CCTWrite(e, parses)
    PROVE  \E r \in Rows : /\ Commit(e, r) /\ r.review = "U"
                           /\ db[e] # None => r.data > db[e].data
  <1> USE ConstantsAssumption
  <1>1. PICK s \in ClockReads :
           Commit(e, [data |-> writes + 1, parses |-> parses,
                      review |-> "U", lastUpdate |-> s])
    BY DEF CCTWrite
  <1> DEFINE r == [data |-> writes + 1, parses |-> parses,
                   review |-> "U", lastUpdate |-> s]
  <1>2. writes + 1 \in 0 .. MaxWrites /\ writes \in Nat
    BY DEF CCTWrite, TypeOK
  <1>3. r \in Rows
    BY <1>2 DEF Rows, ClockReads
  <1>4. db[e] # None => r.data > db[e].data
    <2>1. db[e] # None => db[e].data \in Nat
      BY DEF TypeOK, Tables, Rows
    <2> QED
      BY <1>2, <2>1 DEF CacheBehindTable
  <1> QED
    BY <1>1, <1>3, <1>4

LEMMA ServableStep ==
    ASSUME TypeOK, StagesFit, CacheBehindTable, RowsServable, [Next]_vars
    PROVE  RowsServable'
  <1> USE ConstantsAssumption DEF external, service, threads, history
  <1>1. CASE UNCHANGED <<db, cache, query>>
    BY <1>1, ServableFrame
  <1>2. ASSUME NEW t \in Threads, Leave(t), UNCHANGED <<db, cache>>
        PROVE  RowsServable'
    <2>1. \A u \in Threads, e \in Events :
             query'[u].rows[e] \in {query[u].rows[e], None}
      BY <1>2 DEF Leave, NoQuery, EmptyTable, TypeOK
    <2> QED
      BY <1>2, <2>1, ServableFrame
  <1>3. ASSUME NEW t \in Threads, ReadWatermark(t)
        PROVE  RowsServable'
    <2>1. [NoQuery EXCEPT !.newest = mLastUpdate].rows = EmptyTable
      BY DEF NoQuery
    <2>2. \A u \in Threads, e \in Events :
             query'[u].rows[e] \in {query[u].rows[e], None}
      BY <1>3, <2>1 DEF ReadWatermark, EmptyTable, TypeOK
    <2>3. UNCHANGED <<db, cache>>
      BY <1>3 DEF ReadWatermark
    <2> QED
      BY <2>2, <2>3, ServableFrame
  <1>4. ASSUME NEW t \in Threads, Fetch(t)
        PROVE  RowsServable'
    <2>1. \A e \in Events : query'[t].rows[e] \in {db[e], None}
      BY <1>4 DEF Fetch, TypeOK, Queries
    <2>2. \A u \in Threads : u # t => query'[u] = query[u]
      BY <1>4 DEF Fetch, TypeOK
    <2>3. UNCHANGED <<db, cache>>
      BY <1>4 DEF Fetch
    <2>4. \A e \in Events : \A u \in Threads :
             query'[u].rows[e] # None /\ query'[u].rows[e].parses
                => Promise!Servable(query'[u].rows[e], db[e])
      BY <2>1, <2>2 DEF RowsServable, Promise!Servable
    <2> QED
      BY <2>3, <2>4 DEF RowsServable, Promise!Servable
  <1>5. ASSUME NEW t \in Threads, NEW e \in Events, ApplyRow(t, e)
        PROVE  RowsServable'
    <2>1. \A x \in Events : \/ cache'[x] = cache[x]
                            \/ /\ cache'[x] = query[t].rows[x]
                               /\ query[t].rows[x] # None
                               /\ query[t].rows[x].parses
      BY <1>5 DEF ApplyRow, Store, TypeOK, Tables
    <2>2. \A u \in Threads, x \in Events :
             query'[u].rows[x] \in {query[u].rows[x], None}
      BY <1>5 DEF ApplyRow, TypeOK, Queries, Tables
    <2>3. UNCHANGED db
      BY <1>5 DEF ApplyRow
    <2> QED
      BY <2>1, <2>2, <2>3, ServableFrame
  <1>6. ASSUME NEW t \in Threads, NEW e \in Events, SkipRow(t, e)
        PROVE  RowsServable'
    <2>1. \A u \in Threads, x \in Events :
             query'[u].rows[x] \in {query[u].rows[x], None}
      BY <1>6 DEF SkipRow, TypeOK, Queries, Tables
    <2>2. UNCHANGED <<db, cache>>
      BY <1>6 DEF SkipRow
    <2> QED
      BY <2>1, <2>2, ServableFrame
  <1>7. ASSUME NEW w \in Workers, CommitDecision(w)
        PROVE  RowsServable'
    <2> DEFINE q == request[w]
               r == [db[q.event] EXCEPT !.review = q.review, !.lastUpdate = q.stamp]
    <2>1. pc[w] = "execute" /\ Commit(q.event, r) /\ UNCHANGED <<cache, query>>
      BY <1>7 DEF CommitDecision
    <2>2. /\ q \in Requests /\ r \in Rows /\ r.review # "U"
          /\ r.data = db[q.event].data
      BY <2>1, DecidedRow
    <2>3. q.event \in Events
      BY <2>2 DEF Requests
    <2> HIDE DEF r, q
    <2> QED
      BY <2>1, <2>2, <2>3, ServableCommit
  <1>8. ASSUME NEW e \in Events, NEW parses \in BOOLEAN, CCTWrite(e, parses)
        PROVE  RowsServable'
    <2>1. PICK r \in Rows : /\ Commit(e, r)
                            /\ db[e] # None => r.data > db[e].data
      BY <1>8, WrittenRow
    <2>2. UNCHANGED <<cache, query>>
      BY <1>8 DEF CCTWrite
    <2> QED
      BY <2>1, <2>2, ServableCommit
  <1>9. ASSUME NEW t \in Threads, QueryFails(t) \/ Finish(t)
        PROVE  RowsServable'
    BY <1>2, <1>9 DEF QueryFails, Finish
  <1>10. ASSUME NEW w \in Workers, ExecuteDecision(w)
         PROVE  RowsServable'
    <2>1. CASE CommitDecision(w)
      BY <1>7, <2>1
    <2>2. CASE AbortDecision(w)
      BY <1>2, <2>2 DEF AbortDecision, Threads
    <2>3. CASE LockMutex(w) \/ UpdateFails(w)
      BY <1>1, <2>3 DEF LockMutex, UpdateFails
    <2> QED
      BY <1>10, <2>1, <2>2, <2>3 DEF ExecuteDecision
  <1>11. ASSUME NEW w \in Workers, NEW e \in Events, NEW review \in {"A", "R"},
                BeginDecision(w, e, review)
         PROVE  RowsServable'
    BY <1>1, <1>11 DEF BeginDecision
  <1>12. CASE Wake \/ Exit \/ Stop \/ Stopped
    BY <1>1, <1>12 DEF Wake, Exit, Stop, Stopped, vars
  <1>13. CASE UNCHANGED vars
    BY <1>1, <1>13 DEF vars
  <1>14. ASSUME NEW t \in Threads, UpdateQuery(t)
         PROVE  RowsServable'
    BY <1>3, <1>4, <1>5, <1>6, <1>9, <1>14 DEF UpdateQuery
  <1> QED
    BY <1>8, <1>10, <1>11, <1>12, <1>13, <1>14 DEF Next

LEMMA IdleStep ==
    ASSUME TypeOK, IdleAsksNothing, [Next]_vars
    PROVE  IdleAsksNothing'
  <1> USE ConstantsAssumption DEF external, service, threads, history
  <1>1. CASE UNCHANGED <<pc, request>>
    BY <1>1 DEF IdleAsksNothing
  <1>2. ASSUME NEW t \in Threads, Leave(t)
        PROVE  IdleAsksNothing'
    BY <1>2 DEF Leave, TypeOK, IdleAsksNothing, Threads
  <1>3. ASSUME NEW t \in Threads, pc'[t] # "idle",
               \A u \in Threads : u # t => pc'[u] = pc[u] /\ request'[u] = request[u]
        PROVE  IdleAsksNothing'
    BY <1>3 DEF IdleAsksNothing, Threads
  <1>4. CASE Wake \/ Exit
    BY <1>3, <1>4 DEF Wake, Exit, TypeOK, Threads
  <1>5. CASE Stop \/ Stopped \/ UNCHANGED vars
    BY <1>1, <1>5 DEF Stop, Stopped, vars
  <1>6. ASSUME NEW t \in Threads, UpdateQuery(t)
        PROVE  IdleAsksNothing'
    BY <1>1, <1>2, <1>3, <1>6
    DEF UpdateQuery, ReadWatermark, Fetch, QueryFails, Finish, ApplyRow, SkipRow, TypeOK
  <1>7. ASSUME NEW w \in Workers, NEW e \in Events, NEW review \in {"A", "R"},
               BeginDecision(w, e, review)
        PROVE  IdleAsksNothing'
    BY <1>3, <1>7 DEF BeginDecision, TypeOK, Threads
  <1>8. ASSUME NEW w \in Workers, ExecuteDecision(w)
        PROVE  IdleAsksNothing'
    BY <1>2, <1>3, <1>8
    DEF ExecuteDecision, LockMutex, AbortDecision, CommitDecision, UpdateFails,
        TypeOK, Threads
  <1>9. ASSUME NEW e \in Events, NEW parses \in BOOLEAN, CCTWrite(e, parses)
        PROVE  IdleAsksNothing'
    BY <1>1, <1>9 DEF CCTWrite
  <1> QED
    BY <1>4, <1>5, <1>6, <1>7, <1>8, <1>9 DEF Next

LEMMA PromiseInvariantHolds == Spec => [](RowsServable /\ IdleAsksNothing)
  <1>1. Init => RowsServable /\ IdleAsksNothing
    BY ServableInit
  <1>2. /\ CacheInvariant
        /\ RowsServable /\ IdleAsksNothing
        /\ [Next]_vars
        => (RowsServable /\ IdleAsksNothing)'
    BY ServableStep, IdleStep DEF CacheInvariant
  <1> QED
    BY <1>1, <1>2, InvariantHolds, PTL DEF Spec

-----------------------------------------------------------------------------
(* The steps *)

CallMap == [w \in Workers |-> CallOf(w)]

\* The call of a worker that holds a request, with a Boolean for its openness.
LEMMA CallFacts ==
    ASSUME TypeOK, NEW w \in Workers, request[w] # None,
           NEW b \in BOOLEAN, b <=> pc[w] \in {"lock", "execute"}
    PROVE  /\ CallOf(w) = [event |-> request[w].event, review |-> request[w].review,
                           open |-> b, success |-> request[w].success]
           /\ CallOf(w) \in Calls /\ CallOf(w) # None
  <1>1. request[w] \in Requests
    BY DEF TypeOK, Threads
  <1>2. b = (pc[w] \in {"lock", "execute"})
    BY Zenon
  <1>3. CallOf(w) = [event |-> request[w].event, review |-> request[w].review,
                     open |-> b, success |-> request[w].success]
    BY <1>2, Zenon DEF CallOf
  <1>4. [event |-> request[w].event, review |-> request[w].review,
         open |-> b, success |-> request[w].success] \in Calls
    BY <1>1 DEF Requests, Calls
  <1> QED
    BY <1>3, <1>4, ConstantsAssumption

\* A step that leaves a worker's request and the openness of its decision
\* alone leaves its call alone.
LEMMA SameCall ==
    ASSUME NEW w \in Workers, request'[w] = request[w],
           request[w] # None =>
              (pc'[w] \in {"lock", "execute"} <=> pc[w] \in {"lock", "execute"})
    PROVE  CallOf(w)' = CallOf(w)
  BY DEF CallOf

LEMMA CallsStutter ==
    ASSUME UNCHANGED <<db, cache>>,
           \A w \in Workers : CallOf(w)' = CallOf(w)
    PROVE  UNCHANGED Promise!promise
  BY DEF Promise!promise

\* Leaving answers the worker, if it had a call.
LEMMA LeaveReturns ==
    ASSUME TypeOK, NEW t \in Threads, Leave(t), UNCHANGED <<db, cache>>
    PROVE  [Promise!Next]_(Promise!promise)
  <1> USE ConstantsAssumption
  <1>1. \A w \in Workers : w # t => CallOf(w)' = CallOf(w)
    BY SameCall DEF Leave, TypeOK, Threads
  <1>2. t \in Workers => CallOf(t)' = None
    BY DEF Leave, CallOf, TypeOK, Threads
  <1>3. CASE t \in Workers /\ CallOf(t) # None
    <2>1. CallMap' = [CallMap EXCEPT ![t] = None]
      BY <1>1, <1>2, <1>3 DEF CallMap
    <2>2. Promise!Return(t)
      BY <1>3, <2>1 DEF Promise!Return, CallMap
    <2> QED
      BY <1>3, <2>2 DEF Promise!Next
  <1>4. CASE ~ (t \in Workers /\ CallOf(t) # None)
    BY <1>1, <1>2, <1>4, CallsStutter
  <1> QED
    BY <1>3, <1>4

LEMMA PromiseStep ==
    ASSUME TypeOK, StagesFit, CacheBehindTable, RowsServable, IdleAsksNothing,
           [Next]_vars
    PROVE  [Promise!Next]_(Promise!promise)
  <1> USE ConstantsAssumption DEF external, service, threads, history
  <1>1. CASE Wake \/ Exit
    <2>1. \A w \in Workers : pc'[w] = pc[w] /\ request'[w] = request[w]
      BY <1>1 DEF Wake, Exit, TypeOK, Threads
    <2>2. UNCHANGED <<db, cache>>
      BY <1>1 DEF Wake, Exit
    <2> QED
      BY <2>1, <2>2, SameCall, CallsStutter
  <1>2. CASE Stop \/ Stopped \/ UNCHANGED vars
    <2>1. UNCHANGED <<db, cache, pc, request>>
      BY <1>2 DEF Stop, Stopped, vars
    <2> QED
      BY <2>1, SameCall, CallsStutter
  <1>3. ASSUME NEW t \in Threads, ReadWatermark(t) \/ Fetch(t)
        PROVE  [Promise!Next]_(Promise!promise)
    <2>1. /\ UNCHANGED <<db, cache, request>>
          /\ \A w \in Workers : pc'[w] \in {"lock", "execute"}
                                  <=> pc[w] \in {"lock", "execute"}
      BY <1>3 DEF ReadWatermark, Fetch, TypeOK, Threads
    <2> QED
      BY <2>1, SameCall, CallsStutter
  <1>4. ASSUME NEW t \in Threads, QueryFails(t) \/ Finish(t)
        PROVE  [Promise!Next]_(Promise!promise)
    BY <1>4, LeaveReturns DEF QueryFails, Finish
  <1>5. ASSUME NEW t \in Threads, NEW e \in Events, SkipRow(t, e)
        PROVE  [Promise!Next]_(Promise!promise)
    <2>1. UNCHANGED <<db, cache, pc, request>>
      BY <1>5 DEF SkipRow
    <2> QED
      BY <2>1, SameCall, CallsStutter
  <1>6. ASSUME NEW t \in Threads, NEW e \in Events, ApplyRow(t, e)
        PROVE  [Promise!Next]_(Promise!promise)
    <2> DEFINE r == query[t].rows[e]
    <2>1. r \in Rows /\ r # None /\ r.parses
      BY <1>6 DEF ApplyRow, TypeOK, Queries, Tables
    <2>2. db[e] # None /\ Promise!Servable(r, db[e])
      BY <1>6, <2>1 DEF RowsServable, CacheBehindTable
    <2>3. cache' = [cache EXCEPT ![e] = r] /\ UNCHANGED <<db, pc, request>>
      BY <1>6 DEF ApplyRow, Store
    <2>4. \A w \in Workers : CallOf(w)' = CallOf(w)
      BY <2>3, SameCall
    <2>5. Promise!Serve(e, r)
      BY <2>2, <2>3, <2>4 DEF Promise!Serve
    <2> QED
      BY <2>1, <2>5 DEF Promise!Next
  <1>7. ASSUME NEW w \in Workers, NEW e \in Events, NEW review \in {"A", "R"},
               BeginDecision(w, e, review)
        PROVE  [Promise!Next]_(Promise!promise)
    <2>1. PICK s \in ClockReads :
             request' = [request EXCEPT ![w] =
                [event |-> e, review |-> review, stamp |-> s, success |-> FALSE]]
      BY <1>7 DEF BeginDecision
    <2> DEFINE q == [event |-> e, review |-> review, stamp |-> s, success |-> FALSE]
    <2>2. q # None /\ request'[w] = q /\ pc'[w] = "lock"
      <3>1. q \in Requests
        BY DEF Requests, ClockReads
      <3> QED
        BY <1>7, <2>1, <3>1 DEF BeginDecision, TypeOK, Threads
    <2>3. CallOf(w) = None
      BY <1>7 DEF BeginDecision, IdleAsksNothing, CallOf
    <2>4. CallOf(w)' = [event |-> e, review |-> review,
                        open |-> TRUE, success |-> FALSE]
      <3>1. (pc'[w] \in {"lock", "execute"}) = TRUE
        BY <2>2
      <3>2. CallOf(w)' = [event |-> q.event, review |-> q.review,
                          open |-> TRUE, success |-> q.success]
        BY <2>2, <3>1, Zenon DEF CallOf
      <3> QED
        BY <3>2
    <2>5. \A v \in Workers : v # w => CallOf(v)' = CallOf(v)
      BY <1>7, <2>1, SameCall DEF BeginDecision, TypeOK, Threads
    <2>6. CallMap' = [CallMap EXCEPT ![w] = [event |-> e, review |-> review,
                                         open |-> TRUE, success |-> FALSE]]
      BY <2>4, <2>5 DEF CallMap
    <2>7. Promise!Ask(w, e, review)
      BY <1>7, <2>3, <2>6 DEF Promise!Ask, BeginDecision, CallMap
    <2> QED
      BY <2>7 DEF Promise!Next
  <1>8. ASSUME NEW w \in Workers, LockMutex(w)
        PROVE  [Promise!Next]_(Promise!promise)
    <2>1. /\ UNCHANGED <<db, cache, request>>
          /\ \A v \in Workers : pc'[v] \in {"lock", "execute"}
                                  <=> pc[v] \in {"lock", "execute"}
      BY <1>8 DEF LockMutex, TypeOK, Threads
    <2> QED
      BY <2>1, SameCall, CallsStutter
  <1>9. ASSUME NEW w \in Workers, AbortDecision(w)
        PROVE  [Promise!Next]_(Promise!promise)
    BY <1>9, LeaveReturns DEF AbortDecision, Threads
  <1>10. ASSUME NEW w \in Workers, UpdateFails(w)
         PROVE  [Promise!Next]_(Promise!promise)
    <2>1. /\ request[w] # None /\ pc[w] = "execute" /\ pc'[w] = "refresh"
          /\ UNCHANGED <<db, cache, request>>
      BY <1>10 DEF UpdateFails, StagesFit, TypeOK, Threads
    <2>2. CallOf(w) = [event |-> request[w].event, review |-> request[w].review,
                       open |-> TRUE, success |-> request[w].success]
          /\ CallOf(w) # None
      BY <2>1, CallFacts
    <2>3. CallOf(w)' = [event |-> request[w].event, review |-> request[w].review,
                        open |-> FALSE, success |-> request[w].success]
      <3>1. (pc'[w] \in {"lock", "execute"}) = FALSE
        BY <2>1
      <3> QED
        BY <2>1, <3>1, Zenon DEF CallOf
    <2>4. \A v \in Workers : v # w => CallOf(v)' = CallOf(v)
      BY <1>10, SameCall DEF UpdateFails, TypeOK, Threads
    <2>5. CallMap' = [CallMap EXCEPT ![w] = Promise!Closed(CallMap[w], CallMap[w].success)]
      <3>1. /\ CallMap[w].event = request[w].event
            /\ CallMap[w].review = request[w].review
            /\ CallMap[w].success = request[w].success
        BY <2>2 DEF CallMap
      <3>2. Promise!Closed(CallMap[w], CallMap[w].success) = CallOf(w)'
        BY <2>3, <3>1, Zenon DEF Promise!Closed
      <3>3. CallMap' = [CallMap EXCEPT ![w] = CallOf(w)']
        BY <2>4 DEF CallMap
      <3> QED
        BY <3>2, <3>3, Zenon
    <2>6. Promise!Refuse(w)
      BY <2>1, <2>2, <2>5 DEF Promise!Refuse, CallMap
    <2> QED
      BY <2>6 DEF Promise!Next
  <1>11. ASSUME NEW w \in Workers, CommitDecision(w)
         PROVE  [Promise!Next]_(Promise!promise)
    <2> DEFINE q == request[w]
               r == [db[q.event] EXCEPT !.review = q.review, !.lastUpdate = q.stamp]
    <2>1. /\ pc[w] = "execute" /\ pc'[w] = "refresh"
          /\ Commit(q.event, r) /\ UNCHANGED cache
      BY <1>11 DEF CommitDecision, TypeOK, Threads
    <2>2. /\ q \in Requests /\ q # None /\ db[q.event] # None /\ r \in Rows
          /\ r.review = q.review /\ r.data = db[q.event].data
          /\ r.parses = db[q.event].parses
      BY <2>1, DecidedRow
    <2>3. PICK answered \in BOOLEAN : request' = [request EXCEPT ![w].success = answered]
      BY <1>11 DEF CommitDecision
    <2> DEFINE told == [event |-> q.event, review |-> q.review, stamp |-> q.stamp,
                        success |-> answered]
    <2>4. request'[w] = told /\ told # None
      BY <2>2, <2>3 DEF TypeOK, Threads, Requests
    <2>5. CallOf(w) = [event |-> q.event, review |-> q.review,
                       open |-> TRUE, success |-> q.success]
          /\ CallOf(w) # None
      BY <2>1, <2>2, CallFacts
    <2>6. CallOf(w)' = [event |-> q.event, review |-> q.review,
                        open |-> FALSE, success |-> answered]
      <3>1. (pc'[w] \in {"lock", "execute"}) = FALSE
        BY <2>1
      <3>2. CallOf(w)' = [event |-> told.event, review |-> told.review,
                          open |-> FALSE, success |-> told.success]
        BY <2>4, <3>1, Zenon DEF CallOf
      <3> QED
        BY <3>2
    <2>7. \A v \in Workers : v # w => CallOf(v)' = CallOf(v)
      BY <1>11, <2>3, SameCall DEF CommitDecision, TypeOK, Threads
    <2>8. CallMap' = [CallMap EXCEPT ![w] = Promise!Closed(CallMap[w], answered)]
      <3>1. /\ CallMap[w].event = q.event
            /\ CallMap[w].review = q.review
            /\ CallMap[w].success = q.success
        BY <2>5 DEF CallMap
      <3>2. Promise!Closed(CallMap[w], answered) = CallOf(w)'
        BY <2>6, <3>1, Zenon DEF Promise!Closed
      <3>3. CallMap' = [CallMap EXCEPT ![w] = CallOf(w)']
        BY <2>7 DEF CallMap
      <3> QED
        BY <3>2, <3>3, Zenon
    <2>9. /\ CallMap[w] = CallOf(w) /\ CallMap[w].event = q.event
          /\ CallMap[w].open /\ CallMap[w].review = q.review
      BY <2>5 DEF CallMap
    <2>10. db' = [db EXCEPT ![q.event] = r]
      BY <2>1 DEF Commit
    <2>11. Promise!Decide(w, r)
      <3> HIDE DEF r, q
      <3> QED
        BY <2>1, <2>2, <2>5, <2>8, <2>9, <2>10 DEF Promise!Decide, CallMap
    <2> QED
      BY <2>2, <2>11 DEF Promise!Next
  <1>12. ASSUME NEW e \in Events, NEW parses \in BOOLEAN, CCTWrite(e, parses)
         PROVE  [Promise!Next]_(Promise!promise)
    <2>1. PICK r \in Rows : Commit(e, r) /\ r.review = "U"
      BY <1>12, WrittenRow
    <2>2. UNCHANGED <<cache, pc, request>>
      BY <1>12 DEF CCTWrite
    <2>3. \A w \in Workers : CallOf(w)' = CallOf(w)
      BY <2>2, SameCall
    <2>4. Promise!Upsert(e, r)
      BY <2>1, <2>2, <2>3 DEF Promise!Upsert, Commit
    <2> QED
      BY <2>4 DEF Promise!Next
  <1>13. ASSUME NEW t \in Threads, UpdateQuery(t)
         PROVE  [Promise!Next]_(Promise!promise)
    BY <1>3, <1>4, <1>5, <1>6, <1>13 DEF UpdateQuery
  <1>14. ASSUME NEW w \in Workers, ExecuteDecision(w)
         PROVE  [Promise!Next]_(Promise!promise)
    BY <1>8, <1>9, <1>10, <1>11, <1>14 DEF ExecuteDecision
  <1> QED
    BY <1>1, <1>2, <1>7, <1>12, <1>13, <1>14 DEF Next

\* The service starts with rows of the table, and nobody has asked anything.
LEMMA PromiseInit == Init => Promise!Init
  <1> SUFFICES ASSUME Init PROVE Promise!Init
    OBVIOUS
  <1> USE ConstantsAssumption
  <1>1. db \in [Events -> Rows \cup {None}]
    BY DEF Init, Tables
  <1>2. \A e \in Events : cache[e] # None => cache[e] = db[e] /\ db[e].parses
    BY DEF Init, InitialQuery, LoadRows, LoadNothing, EmptyTable
  <1>3. cache \in [Events -> Rows \cup {None}]
    BY <1>1 DEF Init, InitialQuery, LoadRows, LoadNothing, EmptyTable
  <1>4. \A w \in Workers : CallOf(w) = None
    BY DEF Init, CallOf, Threads
  <1> QED
    BY <1>1, <1>2, <1>3, <1>4 DEF Promise!Init

\* The service implements EventService: whatever the threads do in whatever
\* order (updateQuery, acceptRejectEvent, run), and whichever calls fail, a
\* decision is committed at most once, on the table's own row, success is told
\* only of a committed one, and no row is served with a decision not made on it.
THEOREM PromiseKept == Spec => KeepsPromise
  <1>1. CacheInvariant /\ RowsServable /\ IdleAsksNothing /\ [Next]_vars
          => [Promise!Next]_(Promise!promise)
    BY PromiseStep DEF CacheInvariant
  <1> QED
    BY <1>1, PromiseInit, InvariantHolds, PromiseInvariantHolds, PTL
    DEF Spec, KeepsPromise, Promise!Spec

=============================================================================
