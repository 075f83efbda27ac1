--------------------- MODULE CCTPostgresService_proofs ---------------------
(***************************************************************************)
(* Proofs about the event cache, for every set of events and workers and   *)
(* every bound.  The inductive invariant is CacheInvariant.                *)
(***************************************************************************)
EXTENDS CCTPostgresService, TLAPS

(* The stamp order *)

\* The local maximum of updateQuery is one of the two values, above both.
LEMMA LargerFacts ==
    ASSUME NEW a \in Int, NEW b \in Int
    PROVE  /\ Larger(a, b) \in {a, b}
           /\ Larger(a, b) >= a /\ Larger(a, b) >= b
  BY DEF Larger

\* Stamps and the watermark are integers, and no stamp is as low as lowest().
LEMMA StampFacts ==
    /\ Stamps \cup {Lowest} \subseteq Int
    /\ \A s \in Stamps : s > Lowest
  BY ConstantsAssumption DEF Stamps, Lowest

-----------------------------------------------------------------------------
(* Type correctness *)

\* Every initial state is well typed.
LEMMA TypeInit == Init => TypeOK
  <1> SUFFICES ASSUME Init PROVE TypeOK
    OBVIOUS
  <1> USE ConstantsAssumption
  <1>1. db \in Tables /\ clock \in Stamps /\ writes \in 0 .. MaxWrites
    BY DEF Init, Stamps
  <1>2. cache \in Tables
    BY <1>1 DEF Init, InitialQuery, LoadRows, LoadNothing, EmptyTable, Tables
  <1>3. mLastUpdate \in Stamps \cup {Lowest}
    BY <1>2 DEF Init, InitialQuery, LoadRows, LoadNothing, Tables, Rows
  <1>4. mRunning \in BOOLEAN /\ mMutex \in Workers \cup {None}
    BY DEF Init
  <1>5. pc \in [Threads -> Stages]
    BY DEF Init, Stages
  <1>6. request \in [Threads -> Requests \cup {None}]
    BY DEF Init
  <1>7. query \in [Threads -> Queries]
    BY DEF Init, NoQuery, EmptyTable, Queries, Tables
  <1>8. late \in SUBSET Events /\ regressed \in SUBSET Events
    BY DEF Init
  <1> QED
    BY <1>1, <1>2, <1>3, <1>4, <1>5, <1>6, <1>7, <1>8 DEF TypeOK

\* Leaving updateQuery keeps the types of what it resets.
LEMMA LeaveType ==
    ASSUME TypeOK, NEW t \in Threads, Leave(t)
    PROVE  /\ pc' \in [Threads -> Stages]
           /\ query' \in [Threads -> Queries]
           /\ request' \in [Threads -> Requests \cup {None}]
  <1>1. NoQuery \in Queries
    BY DEF NoQuery, EmptyTable, Queries, Tables
  <1> QED
    BY <1>1 DEF TypeOK, Leave, Stages

\* A commit of a well-formed row keeps the table and the history well formed.
LEMMA CommitType ==
    ASSUME TypeOK, NEW e \in Events, NEW r \in Rows, Commit(e, r)
    PROVE  /\ db' \in Tables
           /\ late' \in SUBSET Events /\ regressed' \in SUBSET Events
  BY DEF TypeOK, Commit, Tables

\* Every step keeps the types.
LEMMA TypeStep ==
    ASSUME TypeOK, StagesFit, CacheBehindTable, [Next]_vars
    PROVE  TypeOK'
  <1> USE ConstantsAssumption DEF external, service, threads, history
  <1>1. CASE Wake
    BY <1>1 DEF Wake, TypeOK, Stages, Threads
  <1>2. CASE Exit
    BY <1>2 DEF Exit, TypeOK, Stages, Threads
  <1>3. CASE Stop
    BY <1>3 DEF Stop, TypeOK
  <1>4. ASSUME NEW t \in Threads, ReadWatermark(t)
        PROVE  TypeOK'
    <2>1. [NoQuery EXCEPT !.newest = mLastUpdate] \in Queries
      BY DEF TypeOK, NoQuery, EmptyTable, Queries, Tables
    <2> QED
      BY <1>4, <2>1 DEF ReadWatermark, TypeOK, Stages
  <1>5. ASSUME NEW t \in Threads, Fetch(t)
        PROVE  TypeOK'
    <2> DEFINE found == [e \in Events |->
                   IF db[e] # None /\ db[e].lastUpdate > query[t].newest
                   THEN db[e] ELSE None]
    <2>1. found \in Tables
      BY DEF TypeOK, Tables
    <2>2. [query[t] EXCEPT !.rows = found] \in Queries
      BY <2>1 DEF TypeOK, Queries
    <2>3. query' = [query EXCEPT ![t] = [query[t] EXCEPT !.rows = found]]
      BY <1>5 DEF Fetch
    <2> HIDE DEF found
    <2> QED
      BY <1>5, <2>2, <2>3 DEF Fetch, TypeOK, Stages
  <1>6. ASSUME NEW t \in Threads, QueryFails(t)
        PROVE  TypeOK'
    BY <1>6, LeaveType DEF QueryFails, TypeOK
  <1>7. ASSUME NEW t \in Threads, NEW e \in Events, ApplyRow(t, e)
        PROVE  TypeOK'
    <2> DEFINE r == query[t].rows[e]
    <2>1. /\ r \in Rows /\ r.lastUpdate \in Stamps
          /\ query[t].newest \in Stamps \cup {Lowest}
      BY <1>7 DEF ApplyRow, TypeOK, Queries, Tables, Rows
    <2>2. Larger(r.lastUpdate, query[t].newest) \in Stamps \cup {Lowest}
      BY <2>1, StampFacts, LargerFacts
    <2>3. cache' \in Tables /\ late' \in SUBSET Events /\ regressed' \in SUBSET Events
      BY <1>7, <2>1 DEF ApplyRow, Store, TypeOK, Tables
    <2>4. [query[t].rows EXCEPT ![e] = None] \in Tables
      BY DEF TypeOK, Queries, Tables
    <2>5. query' \in [Threads -> Queries]
      BY <1>7, <2>2, <2>4 DEF ApplyRow, TypeOK, Queries
    <2> QED
      BY <1>7, <2>3, <2>5 DEF ApplyRow, TypeOK
  <1>8. ASSUME NEW t \in Threads, NEW e \in Events, SkipRow(t, e)
        PROVE  TypeOK'
    <2>1. [query[t].rows EXCEPT ![e] = None] \in Tables
      BY DEF TypeOK, Queries, Tables
    <2>2. query' \in [Threads -> Queries]
      BY <1>8, <2>1 DEF SkipRow, TypeOK, Queries
    <2> QED
      BY <1>8, <2>2 DEF SkipRow, TypeOK
  <1>9. ASSUME NEW t \in Threads, Finish(t)
        PROVE  TypeOK'
    <2>1. mLastUpdate' \in Stamps \cup {Lowest}
      BY <1>9 DEF Finish, TypeOK, Queries
    <2> QED
      BY <1>9, <2>1, LeaveType DEF Finish, TypeOK
  <1>10. ASSUME NEW w \in Workers, NEW e \in Events, NEW review \in {"A", "R"},
                BeginDecision(w, e, review)
         PROVE  TypeOK'
    <2>1. PICK s \in ClockReads :
             /\ clock' = s
             /\ request' = [request EXCEPT ![w] =
                   [event |-> e, review |-> review, stamp |-> s, success |-> FALSE]]
      BY <1>10 DEF BeginDecision
    <2>2. s \in Stamps
      BY DEF ClockReads
    <2> QED
      BY <1>10, <2>1, <2>2 DEF BeginDecision, TypeOK, Requests, Stages, Threads
  <1>11. ASSUME NEW w \in Workers, LockMutex(w)
         PROVE  TypeOK'
    BY <1>11 DEF LockMutex, TypeOK, Stages
  <1>12. ASSUME NEW w \in Workers, AbortDecision(w)
         PROVE  TypeOK'
    BY <1>12, LeaveType DEF AbortDecision, TypeOK, Threads
  <1>13. ASSUME NEW w \in Workers, CommitDecision(w)
         PROVE  TypeOK'
    <2> DEFINE q == request[w]
               r == [db[q.event] EXCEPT !.review = q.review, !.lastUpdate = q.stamp]
    <2>1. q \in Requests /\ db[q.event] # None
      BY <1>13 DEF CommitDecision, TypeOK, StagesFit, CacheBehindTable, Threads, Requests
    <2>2. r \in Rows /\ q.event \in Events
      BY <2>1 DEF TypeOK, Tables, Rows, Requests
    <2>3. Commit(q.event, r)
      BY <1>13 DEF CommitDecision
    <2>4. db' \in Tables /\ late' \in SUBSET Events /\ regressed' \in SUBSET Events
      BY <2>2, <2>3, CommitType
    <2>5. request' \in [Threads -> Requests \cup {None}]
      BY <1>13, <2>1 DEF CommitDecision, TypeOK, Requests, Threads
    <2> QED
      BY <1>13, <2>4, <2>5 DEF CommitDecision, TypeOK, Stages, Threads
  <1>14. ASSUME NEW w \in Workers, UpdateFails(w)
         PROVE  TypeOK'
    BY <1>14 DEF UpdateFails, TypeOK, Stages, Threads
  <1>15. ASSUME NEW e \in Events, NEW parses \in BOOLEAN, CCTWrite(e, parses)
         PROVE  TypeOK'
    <2>1. PICK s \in ClockReads :
             /\ clock' = s
             /\ Commit(e, [data |-> writes + 1, parses |-> parses,
                           review |-> "U", lastUpdate |-> s])
      BY <1>15 DEF CCTWrite
    <2>2. s \in Stamps /\ writes + 1 \in 0 .. MaxWrites
      BY <1>15 DEF ClockReads, CCTWrite, TypeOK
    <2>3. [data |-> writes + 1, parses |-> parses,
           review |-> "U", lastUpdate |-> s] \in Rows
      BY <2>2 DEF Rows
    <2>4. db' \in Tables /\ late' \in SUBSET Events /\ regressed' \in SUBSET Events
      BY <2>1, <2>3, CommitType
    <2> QED
      BY <1>15, <2>1, <2>2, <2>4 DEF CCTWrite, TypeOK
  <1>16. CASE UNCHANGED vars
    BY <1>16 DEF vars, TypeOK
  <1> QED
    BY <1>1, <1>2, <1>3, <1>4, <1>5, <1>6, <1>7, <1>8, <1>9, <1>10, <1>11,
       <1>12, <1>13, <1>14, <1>15, <1>16
    DEF Next, UpdateQuery, ExecuteDecision, Stopped

-----------------------------------------------------------------------------
(* Stages and versions *)

\* The initial query serves an event as the table has it, or not at all.
LEMMA LoadedFromTable ==
    ASSUME Init, NEW e \in Events, cache[e] # None
    PROVE  db[e] # None /\ cache[e] = db[e]
  <1> USE ConstantsAssumption
  <1>1. CASE LoadNothing
    BY <1>1 DEF LoadNothing, EmptyTable
  <1>2. CASE LoadRows
    <2>1. PICK L \in InitialSelections :
             cache = [x \in Events |->
                        IF x \in L /\ db[x].parses THEN db[x] ELSE None]
      BY <1>2 DEF LoadRows
    <2> QED
      BY <2>1 DEF InitialSelections, Loadable
  <1> QED
    BY <1>1, <1>2 DEF Init, InitialQuery

\* Initially no thread holds anything, and the cache was read from the table.
LEMMA StagesInit == Init => StagesFit /\ CacheBehindTable
  <1> SUFFICES ASSUME Init PROVE StagesFit /\ CacheBehindTable
    OBVIOUS
  <1> USE ConstantsAssumption
  <1>1. StagesFit
    BY DEF Init, StagesFit, NoQuery, EmptyTable, Threads
  <1>3. ASSUME NEW e \in Events, cache[e] # None
        PROVE  db[e] # None /\ cache[e] = db[e]
    BY <1>3, LoadedFromTable
  <1>4. \A e \in Events : db[e] # None => db[e].data = 0
    BY DEF Init
  <1>5. \A t \in Threads, e \in Events : query[t].rows[e] = None
    BY DEF Init, NoQuery, EmptyTable
  <1>6. writes = 0
    BY DEF Init
  <1> QED
    BY <1>1, <1>3, <1>4, <1>5, <1>6 DEF CacheBehindTable

\* A thread that leaves updateQuery holds nothing any more.
LEMMA LeaveStages ==
    ASSUME TypeOK, StagesFit, NEW t \in Threads, Leave(t),
           UNCHANGED <<cache, clock>>,
           \/ pc[t] \in {"refresh", "fetch", "apply"} /\ UNCHANGED mMutex
           \/ t # Poller /\ pc[t] = "execute" /\ mMutex' = None
    PROVE  StagesFit'
  BY ConstantsAssumption
  DEF TypeOK, StagesFit, Leave, NoQuery, Threads

\* Every step moves a thread to a stage that fits what it holds.
LEMMA StagesStep ==
    ASSUME TypeOK, StagesFit, CacheBehindTable, [Next]_vars
    PROVE  StagesFit'
  <1> USE ConstantsAssumption DEF external, service, threads, history
  <1>1. CASE Wake
    BY <1>1 DEF Wake, TypeOK, StagesFit, Threads
  <1>2. CASE Exit
    BY <1>2 DEF Exit, TypeOK, StagesFit, Threads
  <1>3. CASE Stop
    BY <1>3 DEF Stop, TypeOK, StagesFit
  <1>4. ASSUME NEW t \in Threads, ReadWatermark(t)
        PROVE  StagesFit'
    <2>1. [NoQuery EXCEPT !.newest = mLastUpdate].rows = EmptyTable
      BY DEF NoQuery
    <2> QED
      BY <1>4, <2>1 DEF ReadWatermark, TypeOK, StagesFit, Threads
  <1>5. ASSUME NEW t \in Threads, Fetch(t)
        PROVE  StagesFit'
    BY <1>5 DEF Fetch, TypeOK, StagesFit, Threads
  <1>6. ASSUME NEW t \in Threads, QueryFails(t)
        PROVE  StagesFit'
    BY <1>6, LeaveStages DEF QueryFails
  <1>7. ASSUME NEW t \in Threads, NEW e \in Events, ApplyRow(t, e)
        PROVE  StagesFit'
    <2>1. \A x \in Events : cache[x] # None => cache'[x] # None
      BY <1>7 DEF ApplyRow, Store, TypeOK, Tables
    <2>2. \A u \in Threads : request[u] # None => request[u].event \in Events
      BY DEF TypeOK, Requests
    <2>3. \A u \in Threads : pc[u] # "apply" => query'[u] = query[u]
      BY <1>7 DEF ApplyRow, TypeOK
    <2> QED
      BY <1>7, <2>1, <2>2, <2>3 DEF ApplyRow, StagesFit
  <1>8. ASSUME NEW t \in Threads, NEW e \in Events, SkipRow(t, e)
        PROVE  StagesFit'
    <2>1. \A u \in Threads : pc[u] # "apply" => query'[u] = query[u]
      BY <1>8 DEF SkipRow, TypeOK
    <2> QED
      BY <1>8, <2>1 DEF SkipRow, StagesFit
  <1>9. ASSUME NEW t \in Threads, Finish(t)
        PROVE  StagesFit'
    BY <1>9, LeaveStages DEF Finish
  <1>10. ASSUME NEW w \in Workers, NEW e \in Events, NEW review \in {"A", "R"},
                BeginDecision(w, e, review)
         PROVE  StagesFit'
    <2>1. PICK s \in ClockReads :
             /\ clock' = s
             /\ request' = [request EXCEPT ![w] =
                   [event |-> e, review |-> review, stamp |-> s, success |-> FALSE]]
      BY <1>10 DEF BeginDecision
    <2>2. s \in Int /\ clock \in Int /\ s >= clock
      BY StampFacts DEF ClockReads, TypeOK
    <2>3. \A t \in Threads : request[t] # None => request[t].stamp \in Int
      BY StampFacts DEF TypeOK, Requests
    <2>4. \A t \in Threads : request'[t] # None =>
             cache[request'[t].event] # None /\ request'[t].stamp <= clock'
      BY <1>10, <2>1, <2>2, <2>3 DEF BeginDecision, TypeOK, StagesFit
    <2>5. request'[w] # None
      <3>1. s \in Stamps
        BY DEF ClockReads
      <3>2. [event |-> e, review |-> review, stamp |-> s, success |-> FALSE]
               \in Requests
        BY <3>1 DEF Requests
      <3>3. request'[w] =
               [event |-> e, review |-> review, stamp |-> s, success |-> FALSE]
        BY <2>1 DEF TypeOK, Threads
      <3> QED
        BY <3>2, <3>3
    <2> QED
      BY <1>10, <2>1, <2>4, <2>5 DEF BeginDecision, TypeOK, StagesFit, Threads
  <1>11. ASSUME NEW w \in Workers, LockMutex(w)
         PROVE  StagesFit'
    BY <1>11 DEF LockMutex, TypeOK, StagesFit, Threads
  <1>12. ASSUME NEW w \in Workers, AbortDecision(w)
         PROVE  StagesFit'
    BY <1>12, LeaveStages DEF AbortDecision, Threads
  <1>13. ASSUME NEW w \in Workers, CommitDecision(w)
         PROVE  StagesFit'
    <2>1. PICK answered \in BOOLEAN :
             request' = [request EXCEPT ![w].success = answered]
      BY <1>13 DEF CommitDecision
    <2>2. request[w] \in Requests
      BY <1>13 DEF CommitDecision, StagesFit, TypeOK, Threads
    <2>3. /\ request'[w] # None
          /\ request'[w].event = request[w].event
          /\ request'[w].stamp = request[w].stamp
      BY <2>1, <2>2 DEF TypeOK, Requests, Threads
    <2> QED
      BY <1>13, <2>1, <2>2, <2>3 DEF CommitDecision, TypeOK, StagesFit, Threads
  <1>14. ASSUME NEW w \in Workers, UpdateFails(w)
         PROVE  StagesFit'
    BY <1>14 DEF UpdateFails, TypeOK, StagesFit, Threads
  <1>15. ASSUME NEW e \in Events, NEW parses \in BOOLEAN, CCTWrite(e, parses)
         PROVE  StagesFit'
    <2>1. clock' \in Int /\ clock \in Int /\ clock' >= clock
      BY <1>15, StampFacts DEF CCTWrite, ClockReads, TypeOK
    <2>2. \A t \in Threads : request[t] # None => request[t].stamp \in Int
      BY StampFacts DEF TypeOK, Requests
    <2> QED
      BY <1>15, <2>1, <2>2 DEF CCTWrite, TypeOK, StagesFit
  <1>16. CASE UNCHANGED vars
    BY <1>16 DEF vars, StagesFit
  <1> QED
    BY <1>1, <1>2, <1>3, <1>4, <1>5, <1>6, <1>7, <1>8, <1>9, <1>10, <1>11,
       <1>12, <1>13, <1>14, <1>15, <1>16
    DEF Next, UpdateQuery, ExecuteDecision, Stopped

\* A committed row that is not of an older version leaves no copy ahead.
LEMMA CommitVersions ==
    ASSUME TypeOK, CacheBehindTable, NEW e \in Events, NEW r \in Rows,
           Commit(e, r), UNCHANGED <<cache, query>>,
           writes' \in Nat, writes' >= writes, r.data <= writes',
           db[e] # None => r.data >= db[e].data
    PROVE  CacheBehindTable'
  <1> USE ConstantsAssumption
  <1>1. db' = [db EXCEPT ![e] = r]
    BY DEF Commit
  <1>2. r # None /\ r.data \in Nat /\ writes \in Nat
    BY DEF Rows, TypeOK
  <1>3. \A x \in Events : /\ db[x] # None => db[x].data \in Nat
                          /\ cache[x] # None => cache[x].data \in Nat
                          /\ \A t \in Threads : query[t].rows[x] # None =>
                                query[t].rows[x].data \in Nat
    BY DEF TypeOK, Tables, Queries, Rows
  <1>4. \A x \in Events : /\ db'[x] = IF x = e THEN r ELSE db[x]
                          /\ db[x] # None => db'[x].data >= db[x].data
                          /\ db'[x] # None => db'[x].data \in Nat
    BY <1>1, <1>2, <1>3 DEF TypeOK, Tables
  <1>5. \A x \in Events :
           /\ db'[x] # None => db'[x].data <= writes'
           /\ db[x] # None => db'[x] # None
    BY <1>2, <1>3, <1>4 DEF CacheBehindTable
  <1> QED
    BY <1>3, <1>4, <1>5 DEF CacheBehindTable

\* Every step keeps the cache and the fetched rows behind the table.
LEMMA VersionsStep ==
    ASSUME TypeOK, StagesFit, CacheBehindTable, [Next]_vars
    PROVE  CacheBehindTable'
  <1> USE ConstantsAssumption DEF external, service, threads, history
  <1>1. CASE UNCHANGED <<db, writes, cache, query>>
    BY <1>1 DEF CacheBehindTable
  <1>2. ASSUME NEW t \in Threads, Leave(t), UNCHANGED <<db, writes, cache>>
        PROVE  CacheBehindTable'
    BY <1>2 DEF Leave, NoQuery, EmptyTable, TypeOK, CacheBehindTable
  <1>3. ASSUME NEW t \in Threads, ReadWatermark(t)
        PROVE  CacheBehindTable'
    <2>1. [NoQuery EXCEPT !.newest = mLastUpdate].rows = EmptyTable
      BY DEF NoQuery
    <2> QED
      BY <1>3, <2>1 DEF ReadWatermark, TypeOK, CacheBehindTable, EmptyTable
  <1>4. ASSUME NEW t \in Threads, Fetch(t)
        PROVE  CacheBehindTable'
    <2>1. \A x \in Events : query'[t].rows[x] \in {db[x], None}
      BY <1>4 DEF Fetch, TypeOK, Queries
    <2>2. \A x \in Events : db[x] # None => db[x].data \in Nat
      BY DEF TypeOK, Tables, Rows
    <2>3. \A u \in Threads : u # t => query'[u] = query[u]
      BY <1>4 DEF Fetch, TypeOK
    <2>4. UNCHANGED <<db, writes, cache>>
      BY <1>4 DEF Fetch
    <2>5. \A x \in Events : query'[t].rows[x] # None =>
             db[x] # None /\ query'[t].rows[x].data <= db[x].data
      BY <2>1, <2>2
    <2> QED
      BY <2>3, <2>4, <2>5 DEF CacheBehindTable
  <1>5. ASSUME NEW t \in Threads, NEW e \in Events, ApplyRow(t, e)
        PROVE  CacheBehindTable'
    <2>1. \A x \in Events : cache'[x] \in {cache[x], query[t].rows[x]}
      BY <1>5 DEF ApplyRow, Store, TypeOK, Tables
    <2>2. \A u \in Threads, x \in Events :
             query'[u].rows[x] \in {query[u].rows[x], None}
      BY <1>5 DEF ApplyRow, TypeOK, Queries, Tables
    <2> QED
      BY <1>5, <2>1, <2>2 DEF ApplyRow, CacheBehindTable
  <1>6. ASSUME NEW t \in Threads, NEW e \in Events, SkipRow(t, e)
        PROVE  CacheBehindTable'
    <2>1. \A u \in Threads, x \in Events :
             query'[u].rows[x] \in {query[u].rows[x], None}
      BY <1>6 DEF SkipRow, TypeOK, Queries, Tables
    <2> QED
      BY <1>6, <2>1 DEF SkipRow, CacheBehindTable
  <1>7. ASSUME NEW w \in Workers, CommitDecision(w)
        PROVE  CacheBehindTable'
    <2> DEFINE q == request[w]
               r == [db[q.event] EXCEPT !.review = q.review, !.lastUpdate = q.stamp]
    <2>1. q \in Requests /\ db[q.event] # None
      BY <1>7 DEF CommitDecision, TypeOK, StagesFit, CacheBehindTable, Threads, Requests
    <2>2. /\ r \in Rows /\ q.event \in Events
          /\ r.data = db[q.event].data /\ r.data \in Nat
      <3>1. q.event \in Events /\ q.review \in {"A", "R"} /\ q.stamp \in Stamps
        BY <2>1 DEF Requests
      <3>2. db[q.event] \in Rows
        BY <2>1, <3>1 DEF TypeOK, Tables
      <3>3. r \in Rows /\ r.data = db[q.event].data
        BY <3>1, <3>2 DEF Rows
      <3>4. r.data \in Nat
        BY <3>2, <3>3 DEF Rows
      <3> QED
        BY <3>1, <3>3, <3>4
    <2>3. Commit(q.event, r) /\ UNCHANGED <<cache, query, writes>>
      BY <1>7 DEF CommitDecision
    <2>4. writes \in Nat /\ r.data <= writes
      BY <2>1, <2>2 DEF TypeOK, CacheBehindTable
    <2> HIDE DEF r, q
    <2> QED
      BY <2>2, <2>3, <2>4, CommitVersions
  <1>8. ASSUME NEW e \in Events, NEW parses \in BOOLEAN, CCTWrite(e, parses)
        PROVE  CacheBehindTable'
    <2>1. PICK s \in ClockReads :
             Commit(e, [data |-> writes + 1, parses |-> parses,
                        review |-> "U", lastUpdate |-> s])
      BY <1>8 DEF CCTWrite
    <2> DEFINE r == [data |-> writes + 1, parses |-> parses,
                     review |-> "U", lastUpdate |-> s]
    <2>2. r \in Rows /\ r.data = writes + 1 /\ writes \in Nat
      BY <1>8 DEF ClockReads, CCTWrite, TypeOK, Rows
    <2>3. db[e] # None => db[e].data \in Nat /\ r.data >= db[e].data
      BY <2>2 DEF TypeOK, Tables, Rows, CacheBehindTable
    <2>4. UNCHANGED <<cache, query>> /\ writes' = writes + 1
      BY <1>8 DEF CCTWrite
    <2> QED
      BY <2>1, <2>2, <2>3, <2>4, CommitVersions
  <1> QED
    BY <1>1, <1>2, <1>3, <1>4, <1>5, <1>6, <1>7, <1>8
    DEF Next, UpdateQuery, ExecuteDecision, Stopped, Wake, Exit, Stop, vars,
        QueryFails, Finish, BeginDecision, LockMutex, AbortDecision,
        UpdateFails, Threads

-----------------------------------------------------------------------------
(* What a query may record *)

\* Unpacking a row, whether it parses or not, adds nothing a query may record.
LEMMA MayRecordShrinks ==
    ASSUME TypeOK, NEW t \in Threads, NEW e \in Events, NEW s \in Stamps,
           ApplyRow(t, e) \/ SkipRow(t, e), NEW u \in Threads,
           MayRecord(u, s)'
    PROVE  MayRecord(u, s)
  <1> DEFINE r == query[t].rows[e]
  <1>1. CASE u # t
    BY <1>1 DEF MayRecord, ApplyRow, SkipRow, TypeOK
  <1>2. CASE u = t /\ SkipRow(t, e)
    BY <1>2 DEF MayRecord, SkipRow, TypeOK, Queries, Tables
  <1>3. CASE u = t /\ ApplyRow(t, e)
    <2>1. /\ r # None /\ r.parses
          /\ query'[t].newest = Larger(r.lastUpdate, query[t].newest)
          /\ \A x \in Events : query'[t].rows[x] # None =>
                query'[t].rows[x] = query[t].rows[x]
      BY <1>3 DEF ApplyRow, TypeOK, Queries, Tables
    <2>2. query'[t].newest \in {r.lastUpdate, query[t].newest}
      BY <2>1 DEF Larger
    <2> QED
      BY <1>3, <2>1, <2>2 DEF MayRecord
  <1> QED
    BY <1>1, <1>2, <1>3

-----------------------------------------------------------------------------
(* Nothing is lost *)

\* What initialQuery leaves out and the watermark passes is late.
LEMMA CoverInit == Init => QueriesCover /\ NothingLost
  <1> SUFFICES ASSUME Init PROVE QueriesCover /\ NothingLost
    OBVIOUS
  <1> USE ConstantsAssumption
  <1>1. QueriesCover
    BY DEF Init, QueriesCover, InFlight
  <1>3. ASSUME NEW e \in Events, Dependable(e)
        PROVE  Fresh(e) \/ db[e].lastUpdate > mLastUpdate
    <2>1. CASE cache[e] # None
      BY <2>1, LoadedFromTable DEF Fresh
    <2>2. CASE cache[e] = None
      <3>1. ~ (db[e].lastUpdate <= mLastUpdate)
        BY <1>3, <2>2 DEF Init, Dependable
      <3>2. db[e].lastUpdate \in Int /\ mLastUpdate \in Int
        BY <1>3, TypeInit, StampFacts DEF TypeOK, Tables, Rows, Dependable
      <3> QED
        BY <3>1, <3>2
    <2> QED
      BY <2>1, <2>2
  <1> QED
    BY <1>1, <1>3 DEF NothingLost

\* A commit owes nothing to a row stamped above every watermark in use, and
\* any other row is late.
LEMMA CommitCovers ==
    ASSUME TypeOK, QueriesCover, NothingLost,
           NEW e \in Events, NEW r \in Rows, Commit(e, r),
           UNCHANGED <<cache, mLastUpdate, query>>,
           \A t \in Threads : InFlight(t)' => InFlight(t)
    PROVE  QueriesCover' /\ NothingLost'
  <1>1. db' = [db EXCEPT ![e] = r]
    BY DEF Commit
  <1>2. ASSUME NEW x \in Events, Dependable(x)'
        PROVE  /\ Fresh(x)' \/ db'[x].lastUpdate > mLastUpdate'
               /\ \A t \in Threads : InFlight(t)' => Covered(t, x)'
    <2>1. CASE x # e
      <3>1. db'[x] = db[x]
        BY <1>1, <2>1 DEF TypeOK, Tables
      <3>2. Dependable(x)
        BY <1>2, <2>1, <3>1 DEF Dependable, Commit
      <3>3. Fresh(x)' <=> Fresh(x)
        BY <3>1 DEF Fresh
      <3>4. \A t \in Threads :
               MayRecord(t, db[x].lastUpdate)' <=> MayRecord(t, db[x].lastUpdate)
        BY <3>1 DEF MayRecord
      <3> QED
        BY <3>1, <3>2, <3>3, <3>4 DEF NothingLost, QueriesCover, Covered, MayRecord
    <2>2. CASE x = e
      <3>1. db'[x] = r
        BY <1>1, <2>2 DEF TypeOK, Tables
      <3>2. ~ ReadPast(r.lastUpdate)
        BY <1>2, <2>2 DEF Dependable, Commit
      <3>3. r.lastUpdate \in Int /\ mLastUpdate \in Int
        BY StampFacts DEF TypeOK, Rows
      <3>4. r.lastUpdate > mLastUpdate
        BY <3>2, <3>3 DEF ReadPast
      <3>5. \A t \in Threads : InFlight(t) => ~ MayRecord(t, r.lastUpdate)
        BY <3>2 DEF ReadPast
      <3> QED
        BY <3>1, <3>4, <3>5 DEF Covered, MayRecord
    <2> QED
      BY <2>1, <2>2
  <1>3. NothingLost'
    BY <1>2 DEF NothingLost
  <1>4. QueriesCover'
    <2> SUFFICES ASSUME NEW t \in Threads, NEW x \in Events, InFlight(t)'
                 PROVE  Covered(t, x)'
      BY DEF QueriesCover
    <2> QED
      BY <1>2 DEF Covered
  <1> QED
    BY <1>3, <1>4

\* A step that leaves the table, the cache, the watermark and every query in
\* flight alone keeps what is owed.
LEMMA CoverFrame ==
    ASSUME QueriesCover, NothingLost,
           UNCHANGED <<db, cache, mLastUpdate, late, regressed>>,
           \A t \in Threads : InFlight(t)' => InFlight(t) /\ query'[t] = query[t]
    PROVE  QueriesCover' /\ NothingLost'
  <1>1. \A e \in Events : /\ Dependable(e)' <=> Dependable(e)
                          /\ Fresh(e)' <=> Fresh(e)
    BY DEF Dependable, Fresh
  <1>2. NothingLost'
    BY <1>1 DEF NothingLost
  <1>3. ASSUME NEW t \in Threads, NEW e \in Events, InFlight(t)'
        PROVE  Covered(t, e)'
    <2>1. InFlight(t) /\ query'[t] = query[t] /\ Covered(t, e)
      BY <1>3 DEF QueriesCover
    <2>2. MayRecord(t, db[e].lastUpdate)' <=> MayRecord(t, db[e].lastUpdate)
      BY <2>1 DEF MayRecord
    <2> QED
      BY <1>1, <2>1, <2>2 DEF Covered
  <1> QED
    BY <1>2, <1>3 DEF QueriesCover

\* ReadWatermark: the query starts from the watermark, which passes over
\* nothing that is owed.
LEMMA ReadWatermarkCovers ==
    ASSUME TypeOK, QueriesCover, NothingLost, NEW t \in Threads, ReadWatermark(t)
    PROVE  QueriesCover' /\ NothingLost'
  <1>1. /\ UNCHANGED <<db, cache, mLastUpdate, late, regressed>>
        /\ pc' = [pc EXCEPT ![t] = "fetch"]
        /\ \A u \in Threads : u # t => query'[u] = query[u]
    BY DEF ReadWatermark, external, service, history, TypeOK
  <1>2. query'[t].newest = mLastUpdate /\ query'[t].rows = EmptyTable
    <2>1. query'[t] = [NoQuery EXCEPT !.newest = mLastUpdate]
      BY DEF ReadWatermark, TypeOK
    <2> QED
      BY <2>1 DEF NoQuery
  <1>3. \A e \in Events : /\ Dependable(e)' <=> Dependable(e)
                          /\ Fresh(e)' <=> Fresh(e)
    BY <1>1 DEF Dependable, Fresh
  <1>4. NothingLost'
    BY <1>1, <1>3 DEF NothingLost
  <1>5. ASSUME NEW u \in Threads, NEW e \in Events, InFlight(u)', Dependable(e)'
        PROVE  Covered(u, e)'
    <2>1. CASE u = t
      <3>1. Fresh(e) \/ db[e].lastUpdate > mLastUpdate
        BY <1>3, <1>5 DEF NothingLost
      <3>2. MayRecord(t, db[e].lastUpdate)' => db[e].lastUpdate <= mLastUpdate
        BY <1>1, <1>2 DEF MayRecord, EmptyTable
      <3>3. db[e].lastUpdate \in Int /\ mLastUpdate \in Int
        BY <1>3, <1>5, StampFacts DEF TypeOK, Tables, Rows, Dependable
      <3> QED
        BY <1>3, <2>1, <3>1, <3>2, <3>3 DEF Covered
    <2>2. CASE u # t
      <3>1. InFlight(u) /\ query'[u] = query[u]
        BY <1>1, <1>5, <2>2 DEF InFlight, TypeOK
      <3>2. MayRecord(u, db[e].lastUpdate)' <=> MayRecord(u, db[e].lastUpdate)
        BY <1>1, <3>1 DEF MayRecord
      <3> QED
        BY <1>1, <1>3, <3>1, <3>2 DEF QueriesCover, Covered
    <2> QED
      BY <2>1, <2>2
  <1> QED
    BY <1>4, <1>5 DEF QueriesCover, Covered

\* Fetch: a row above the lower bound is in the query's hands, and a row at or
\* below it was covered before.
LEMMA FetchCovers ==
    ASSUME TypeOK, StagesFit, QueriesCover, NothingLost,
           NEW t \in Threads, Fetch(t)
    PROVE  QueriesCover' /\ NothingLost'
  <1>1. /\ UNCHANGED <<db, cache, mLastUpdate, late, regressed>>
        /\ pc' = [pc EXCEPT ![t] = "apply"]
        /\ \A u \in Threads : u # t => query'[u] = query[u]
    BY DEF Fetch, external, service, history, TypeOK
  <1>2. /\ query'[t].newest = query[t].newest
        /\ query'[t].rows = [e \in Events |->
                   IF db[e] # None /\ db[e].lastUpdate > query[t].newest
                   THEN db[e] ELSE None]
    BY DEF Fetch, TypeOK, Queries
  <1>3. \A e \in Events : /\ Dependable(e)' <=> Dependable(e)
                          /\ Fresh(e)' <=> Fresh(e)
    BY <1>1 DEF Dependable, Fresh
  <1>4. NothingLost'
    BY <1>1, <1>3 DEF NothingLost
  <1>5. ASSUME NEW u \in Threads, NEW e \in Events, InFlight(u)', Dependable(e)'
        PROVE  Covered(u, e)'
    <2>1. CASE u = t
      <3>1. CASE db[e].lastUpdate > query[t].newest
        BY <1>1, <1>2, <1>3, <1>5, <2>1, <3>1 DEF Covered, Dependable
      <3>2. CASE ~ (db[e].lastUpdate > query[t].newest)
        <4>1. query[t].rows = EmptyTable /\ InFlight(t)
          BY DEF StagesFit, Fetch, InFlight
        <4>2. db[e].lastUpdate \in Int /\ query[t].newest \in Int
          BY <1>3, <1>5, StampFacts DEF TypeOK, Tables, Rows, Queries, Dependable
        <4>3. MayRecord(t, db[e].lastUpdate) /\ db[e] # None
          BY <1>3, <1>5, <3>2, <4>2 DEF MayRecord, Dependable
        <4>4. query[t].rows[e] = None
          BY <4>1 DEF EmptyTable
        <4>5. Fresh(e)
          BY <1>3, <1>5, <4>1, <4>3, <4>4 DEF QueriesCover, Covered
        <4> QED
          BY <1>3, <2>1, <4>5 DEF Covered
      <3> QED
        BY <3>1, <3>2
    <2>2. CASE u # t
      <3>1. InFlight(u) /\ query'[u] = query[u]
        BY <1>1, <1>5, <2>2 DEF InFlight, TypeOK
      <3>2. MayRecord(u, db[e].lastUpdate)' <=> MayRecord(u, db[e].lastUpdate)
        BY <1>1, <3>1 DEF MayRecord
      <3> QED
        BY <1>1, <1>3, <3>1, <3>2 DEF QueriesCover, Covered
    <2> QED
      BY <2>1, <2>2
  <1> QED
    BY <1>4, <1>5 DEF QueriesCover, Covered

\* ApplyRow: an older row stored over the current one makes its event
\* regressed; the query's maximum stays below the rows it does not hold.
LEMMA ApplyRowCovers ==
    ASSUME TypeOK, QueriesCover, NothingLost,
           NEW t \in Threads, NEW e \in Events, ApplyRow(t, e)
    PROVE  QueriesCover' /\ NothingLost'
  <1> DEFINE r == query[t].rows[e]
  <1>1. /\ UNCHANGED <<db, mLastUpdate, pc>>
        /\ pc[t] = "apply"
        /\ cache' = [cache EXCEPT ![e] = r]
        /\ \A u \in Threads : u # t => query'[u] = query[u]
        /\ \A x \in Events : x # e => query'[t].rows[x] = query[t].rows[x]
    BY DEF ApplyRow, Store, external, TypeOK, Queries, Tables
  <1>2. ASSUME NEW x \in Events, Dependable(x)', ~ Fresh(x)'
        PROVE  Dependable(x) /\ ~ Fresh(x) /\ (x = e => r # db[e])
    <2>1. CASE x = e
      <3>1. cache'[e] = r
        BY <1>1 DEF TypeOK, Tables
      <3>2. r # db[e]
        BY <1>1, <1>2, <2>1, <3>1 DEF Fresh
      <3>3. cache[e] # db[e] /\ late' = late /\ regressed' = regressed
        BY <1>2, <2>1, <3>2 DEF ApplyRow, Store, Dependable
      <3> QED
        BY <1>1, <1>2, <2>1, <3>2, <3>3 DEF Dependable, Fresh
    <2>2. CASE x # e
      <3>1. (x \in late' <=> x \in late) /\ (x \in regressed' <=> x \in regressed)
        BY <2>2 DEF ApplyRow, Store
      <3>2. cache'[x] = cache[x]
        BY <1>1, <2>2 DEF TypeOK, Tables
      <3> QED
        BY <1>1, <1>2, <2>2, <3>1, <3>2 DEF Dependable, Fresh
    <2> QED
      BY <2>1, <2>2
  <1>3. NothingLost'
    BY <1>1, <1>2 DEF NothingLost
  <1>4. ASSUME NEW u \in Threads, NEW x \in Events, InFlight(u)',
               Dependable(x)', ~ Fresh(x)', MayRecord(u, db[x].lastUpdate)'
        PROVE  query'[u].rows[x] = db'[x]
    <2>1. InFlight(u) /\ Dependable(x) /\ ~ Fresh(x)
      BY <1>1, <1>2, <1>4 DEF InFlight
    <2>2. db[x].lastUpdate \in Stamps /\ db'[x].lastUpdate = db[x].lastUpdate
      BY <1>1, <2>1 DEF TypeOK, Tables, Rows, Dependable
    <2>3. MayRecord(u, db[x].lastUpdate)
      BY <1>1, <1>4, <2>2, MayRecordShrinks DEF MayRecord
    <2>4. query[u].rows[x] = db[x]
      BY <2>1, <2>3 DEF QueriesCover, Covered
    <2>5. u # t \/ x # e
      BY <1>2, <1>4, <2>4
    <2> QED
      BY <1>1, <2>4, <2>5
  <1> QED
    BY <1>3, <1>4 DEF QueriesCover, Covered

\* SkipRow: the row that is dropped does not parse, so nothing was owed to it.
LEMMA SkipRowCovers ==
    ASSUME TypeOK, QueriesCover, NothingLost,
           NEW t \in Threads, NEW e \in Events, SkipRow(t, e)
    PROVE  QueriesCover' /\ NothingLost'
  <1>1. /\ UNCHANGED <<db, cache, mLastUpdate, late, regressed, pc>>
        /\ ~ query[t].rows[e].parses
        /\ \A u \in Threads : u # t => query'[u] = query[u]
        /\ \A x \in Events : x # e => query'[t].rows[x] = query[t].rows[x]
    BY DEF SkipRow, external, service, history, TypeOK, Queries, Tables
  <1>2. \A x \in Events : /\ Dependable(x)' <=> Dependable(x)
                          /\ Fresh(x)' <=> Fresh(x)
    BY <1>1 DEF Dependable, Fresh
  <1>3. NothingLost'
    BY <1>1, <1>2 DEF NothingLost
  <1>4. ASSUME NEW u \in Threads, NEW x \in Events, InFlight(u)',
               Dependable(x)', ~ Fresh(x)', MayRecord(u, db[x].lastUpdate)'
        PROVE  query'[u].rows[x] = db'[x]
    <2>1. InFlight(u) /\ Dependable(x) /\ ~ Fresh(x)
      BY <1>1, <1>2, <1>4 DEF InFlight
    <2>2. db[x].lastUpdate \in Stamps /\ db'[x].lastUpdate = db[x].lastUpdate
      BY <1>1, <2>1 DEF TypeOK, Tables, Rows, Dependable
    <2>3. MayRecord(u, db[x].lastUpdate)
      BY <1>1, <1>4, <2>2, MayRecordShrinks DEF MayRecord
    <2>4. query[u].rows[x] = db[x] /\ db[x].parses
      BY <2>1, <2>3 DEF QueriesCover, Covered, Dependable
    <2>5. u # t \/ x # e
      BY <1>1, <2>4
    <2> QED
      BY <1>1, <2>4, <2>5
  <1> QED
    BY <1>3, <1>4 DEF QueriesCover, Covered

\* Finish: the watermark becomes the maximum of a query that holds no rows.
LEMMA FinishCovers ==
    ASSUME TypeOK, QueriesCover, NothingLost, NEW t \in Threads, Finish(t)
    PROVE  QueriesCover' /\ NothingLost'
  <1>1. /\ UNCHANGED <<db, cache, late, regressed>>
        /\ InFlight(t) /\ query[t].rows = EmptyTable
        /\ mLastUpdate' \in {mLastUpdate, query[t].newest}
    BY DEF Finish, external, history, InFlight
  <1>2. \A e \in Events : /\ Dependable(e)' <=> Dependable(e)
                          /\ Fresh(e)' <=> Fresh(e)
    BY <1>1 DEF Dependable, Fresh
  <1>3. ASSUME NEW e \in Events, Dependable(e), ~ Fresh(e)
        PROVE  db[e].lastUpdate > query[t].newest
    <2>1. query[t].rows[e] = None /\ db[e] # None
      BY <1>1, <1>3 DEF EmptyTable, Dependable
    <2>2. ~ (db[e].lastUpdate <= query[t].newest)
      BY <1>1, <1>3, <2>1 DEF QueriesCover, Covered, MayRecord
    <2>3. db[e].lastUpdate \in Int /\ query[t].newest \in Int
      BY <2>1, StampFacts DEF TypeOK, Tables, Rows, Queries
    <2> QED
      BY <2>2, <2>3
  <1>4. NothingLost'
    BY <1>1, <1>2, <1>3 DEF NothingLost
  <1>5. \A u \in Threads : InFlight(u)' => InFlight(u) /\ query'[u] = query[u]
    BY DEF Finish, Leave, InFlight, TypeOK
  <1>6. ASSUME NEW u \in Threads, NEW e \in Events, InFlight(u)'
        PROVE  Covered(u, e)'
    <2>1. InFlight(u) /\ query'[u] = query[u] /\ Covered(u, e)
      BY <1>5, <1>6 DEF QueriesCover
    <2>2. MayRecord(u, db[e].lastUpdate)' <=> MayRecord(u, db[e].lastUpdate)
      BY <1>1, <2>1 DEF MayRecord
    <2> QED
      BY <1>1, <1>2, <2>1, <2>2 DEF Covered
  <1> QED
    BY <1>4, <1>6 DEF QueriesCover

\* Every step keeps what queries owe and loses no row.
LEMMA CoverStep ==
    ASSUME CacheInvariant, [Next]_vars
    PROVE  QueriesCover' /\ NothingLost'
  <1> USE ConstantsAssumption
  <1> USE DEF CacheInvariant
  <1>1. CASE Wake \/ Exit
    BY <1>1, CoverFrame
    DEF Wake, Exit, InFlight, TypeOK, external, service, history
  <1>2. CASE Stop
    BY <1>2, CoverFrame DEF Stop, InFlight, external, threads, history
  <1>3. ASSUME NEW t \in Threads, QueryFails(t)
        PROVE  QueriesCover' /\ NothingLost'
    BY <1>3, CoverFrame
    DEF QueryFails, Leave, InFlight, TypeOK, external, service, history
  <1>4. ASSUME NEW w \in Workers, NEW e \in Events, NEW review \in {"A", "R"},
               BeginDecision(w, e, review)
        PROVE  QueriesCover' /\ NothingLost'
    BY <1>4, CoverFrame DEF BeginDecision, InFlight, TypeOK, service, history
  <1>5. ASSUME NEW w \in Workers, LockMutex(w) \/ UpdateFails(w)
        PROVE  QueriesCover' /\ NothingLost'
    BY <1>5, CoverFrame
    DEF LockMutex, UpdateFails, InFlight, TypeOK, external, service, history
  <1>6. ASSUME NEW w \in Workers, AbortDecision(w)
        PROVE  QueriesCover' /\ NothingLost'
    BY <1>6, CoverFrame
    DEF AbortDecision, Leave, InFlight, TypeOK, external, service, history
  <1>7. ASSUME NEW w \in Workers, CommitDecision(w)
        PROVE  QueriesCover' /\ NothingLost'
    <2> DEFINE q == request[w]
               r == [db[q.event] EXCEPT !.review = q.review, !.lastUpdate = q.stamp]
    <2>1. q \in Requests /\ db[q.event] # None
      BY <1>7 DEF CommitDecision, TypeOK, StagesFit, CacheBehindTable, Threads, Requests
    <2>2. r \in Rows /\ q.event \in Events
      BY <2>1 DEF TypeOK, Tables, Rows, Requests
    <2>3. Commit(q.event, r) /\ UNCHANGED <<cache, mLastUpdate, query>>
      BY <1>7 DEF CommitDecision, service
    <2>4. \A t \in Threads : InFlight(t)' => InFlight(t)
      BY <1>7 DEF CommitDecision, InFlight, TypeOK
    <2> HIDE DEF r, q
    <2> QED
      BY <2>2, <2>3, <2>4, CommitCovers
  <1>8. ASSUME NEW e \in Events, NEW parses \in BOOLEAN, CCTWrite(e, parses)
        PROVE  QueriesCover' /\ NothingLost'
    <2>1. PICK s \in ClockReads :
             Commit(e, [data |-> writes + 1, parses |-> parses,
                        review |-> "U", lastUpdate |-> s])
      BY <1>8 DEF CCTWrite
    <2>2. [data |-> writes + 1, parses |-> parses,
           review |-> "U", lastUpdate |-> s] \in Rows
      BY <1>8 DEF ClockReads, CCTWrite, TypeOK, Rows
    <2>3. /\ UNCHANGED <<cache, mLastUpdate, query>>
          /\ \A t \in Threads : InFlight(t)' => InFlight(t)
      BY <1>8 DEF CCTWrite, InFlight, service, threads
    <2> QED
      BY <2>1, <2>2, <2>3, CommitCovers
  <1>9. CASE UNCHANGED vars
    BY <1>9, CoverFrame
    DEF vars, external, service, threads, history, InFlight
  <1> QED
    BY <1>1, <1>2, <1>3, <1>4, <1>5, <1>6, <1>7, <1>8, <1>9, ReadWatermarkCovers,
       FetchCovers, ApplyRowCovers, SkipRowCovers, FinishCovers
    DEF Next, UpdateQuery, ExecuteDecision, Stopped

-----------------------------------------------------------------------------
(* Theorems *)

\* The invariant of the cache holds in every state, whatever the threads, the
\* database and the CCT software do.
THEOREM InvariantHolds == Spec => []CacheInvariant
  <1>1. Init => CacheInvariant
    BY TypeInit, StagesInit, CoverInit DEF CacheInvariant
  <1>2. CacheInvariant /\ [Next]_vars => CacheInvariant'
    BY TypeStep, StagesStep, VersionsStep, CoverStep DEF CacheInvariant
  <1> QED
    BY <1>1, <1>2, PTL DEF Spec

\* Every variable keeps its type.
THEOREM TypeCorrect == Spec => []TypeOK
  <1>1. CacheInvariant => TypeOK
    BY DEF CacheInvariant
  <1> QED
    BY <1>1, InvariantHolds, PTL

\* The service loses a committed row only for the reasons Dependable excludes:
\* every other row is served, or the next SELECT returns it.
THEOREM NothingIsLost == Spec => []NothingLost
  <1>1. CacheInvariant => NothingLost
    BY DEF CacheInvariant
  <1> QED
    BY <1>1, InvariantHolds, PTL

\* The service never serves an event that the table does not have, nor a
\* later version of it.
THEOREM CacheStaysBehind == Spec => []CacheBehindTable
  <1>1. CacheInvariant => CacheBehindTable
    BY DEF CacheInvariant
  <1> QED
    BY <1>1, InvariantHolds, PTL

\* No step takes an event out of the cache.
THEOREM CacheNeverForgets == Spec => NeverForgets
  <1>1. TypeOK /\ [Next]_vars =>
           [\A e \in Events : cache[e] # None => cache'[e] # None]_vars
    <2> SUFFICES ASSUME TypeOK, Next
                 PROVE  \A e \in Events : cache[e] # None => cache'[e] # None
      OBVIOUS
    <2>1. CASE UNCHANGED cache
      BY <2>1
    <2>2. ASSUME NEW t \in Threads, NEW x \in Events, ApplyRow(t, x)
          PROVE  \A e \in Events : cache[e] # None => cache'[e] # None
      BY <2>2 DEF ApplyRow, Store, TypeOK, Tables
    <2> QED
      BY <2>1, <2>2
      DEF Next, Wake, Exit, Stop, Stopped, UpdateQuery, ReadWatermark, Fetch,
          QueryFails, SkipRow, Finish, ExecuteDecision, BeginDecision, LockMutex,
          AbortDecision, CommitDecision, UpdateFails, CCTWrite, service, vars
  <1> QED
    BY <1>1, TypeCorrect, PTL DEF Spec, NeverForgets

\* Without a watermark no query reaches its rows, and none is recorded.
LEMMA ColdStep ==
    ASSUME TypeOK, StagesFit, ColdQueries, [Next]_vars
    PROVE  ColdQueries'
  <1> USE ConstantsAssumption DEF external, service, threads, history
  <1>1. ASSUME UNCHANGED mLastUpdate, NEW t \in Threads,
               \A u \in Threads : u # t => pc'[u] = pc[u] /\ query'[u] = query[u],
               pc'[t] \notin {"fetch", "apply"}
        PROVE  ColdQueries'
    BY <1>1 DEF ColdQueries
  <1>2. ASSUME UNCHANGED <<mLastUpdate, pc, query>>
        PROVE  ColdQueries'
    BY <1>2 DEF ColdQueries
  <1>3. ASSUME NEW t \in Threads, ReadWatermark(t)
        PROVE  ColdQueries'
    <2>1. query'[t].newest = mLastUpdate /\ pc'[t] = "fetch"
      <3>1. query'[t] = [NoQuery EXCEPT !.newest = mLastUpdate]
        BY <1>3 DEF ReadWatermark, TypeOK
      <3> QED
        BY <1>3, <3>1 DEF NoQuery, ReadWatermark, TypeOK
    <2> QED
      BY <1>3, <2>1 DEF ReadWatermark, TypeOK, ColdQueries
  <1>4. ASSUME NEW t \in Threads, Fetch(t)
        PROVE  ColdQueries'
    <2>1. mLastUpdate # Lowest /\ query'[t].newest = query[t].newest
      BY <1>4 DEF Fetch, TypeOK, Queries, ColdQueries
    <2> QED
      BY <1>4, <2>1 DEF Fetch, TypeOK, ColdQueries
  <1>5. ASSUME NEW t \in Threads, NEW e \in Events, ApplyRow(t, e)
        PROVE  ColdQueries'
    <2> DEFINE r == query[t].rows[e]
    <2>1. r.lastUpdate \in Stamps /\ query[t].newest \in Stamps \cup {Lowest}
      BY <1>5 DEF ApplyRow, TypeOK, Queries, Tables, Rows
    <2>2. query'[t].newest = Larger(r.lastUpdate, query[t].newest)
      BY <1>5 DEF ApplyRow, TypeOK
    <2>3. query'[t].newest # Lowest
      <3>1. r.lastUpdate \in Int /\ r.lastUpdate > Lowest /\ Lowest \in Int
        BY <2>1, StampFacts
      <3>2. query'[t].newest >= r.lastUpdate /\ query'[t].newest \in Int
        BY <2>1, <2>2, StampFacts, LargerFacts
      <3> QED
        BY <3>1, <3>2
    <2> QED
      BY <1>5, <2>3 DEF ApplyRow, TypeOK, ColdQueries
  <1>6. ASSUME NEW t \in Threads, NEW e \in Events, SkipRow(t, e)
        PROVE  ColdQueries'
    <2>1. \A u \in Threads : query'[u].newest = query[u].newest
      BY <1>6 DEF SkipRow, TypeOK, Queries
    <2> QED
      BY <1>6, <2>1 DEF SkipRow, ColdQueries
  <1>7. ASSUME NEW t \in Threads, Finish(t)
        PROVE  ColdQueries'
    <2>1. mLastUpdate # Lowest /\ mLastUpdate' # Lowest
      BY <1>7 DEF Finish, ColdQueries
    <2> QED
      BY <1>7, <2>1 DEF Finish, Leave, TypeOK, ColdQueries
  <1>8. CASE Wake \/ Exit
    BY <1>1, <1>8 DEF Wake, Exit, TypeOK, Threads
  <1>9. ASSUME NEW t \in Threads, QueryFails(t)
        PROVE  ColdQueries'
    BY <1>1, <1>9 DEF QueryFails, Leave, TypeOK
  <1>10. ASSUME NEW w \in Workers, NEW e \in Events, NEW review \in {"A", "R"},
                BeginDecision(w, e, review)
         PROVE  ColdQueries'
    BY <1>1, <1>10 DEF BeginDecision, TypeOK, Threads
  <1>11. ASSUME NEW w \in Workers, ExecuteDecision(w)
         PROVE  ColdQueries'
    BY <1>1, <1>11
    DEF ExecuteDecision, LockMutex, AbortDecision, CommitDecision, UpdateFails,
        Leave, TypeOK, Threads
  <1> QED
    BY <1>2, <1>3, <1>4, <1>5, <1>6, <1>7, <1>8, <1>9, <1>10, <1>11
    DEF Next, UpdateQuery, Stop, Stopped, CCTWrite, vars

\* A service that started without a watermark never gets one, and its cache
\* never changes.
THEOREM ColdForEver == Spec => ColdStaysCold
  <1>1. Init => ColdQueries
    BY ConstantsAssumption DEF Init, ColdQueries, Threads
  <1>2. CacheInvariant /\ ColdQueries /\ [Next]_vars => ColdQueries'
    BY ColdStep DEF CacheInvariant
  <1>3. ColdQueries /\ [Next]_vars =>
           [mLastUpdate = Lowest => mLastUpdate' = Lowest /\ cache' = cache]_vars
    <2> SUFFICES ASSUME ColdQueries, Next, mLastUpdate = Lowest
                 PROVE  mLastUpdate' = Lowest /\ cache' = cache
      OBVIOUS
    <2> QED
      BY DEF ColdQueries, Next, Wake, Exit, Stop, Stopped, UpdateQuery,
          ReadWatermark, Fetch, QueryFails, ApplyRow, SkipRow, Finish,
          ExecuteDecision, BeginDecision, LockMutex, AbortDecision,
          CommitDecision, UpdateFails, CCTWrite, service, vars, Threads
  <1> QED
    BY <1>1, <1>2, <1>3, InvariantHolds, PTL DEF Spec, ColdStaysCold

=============================================================================
