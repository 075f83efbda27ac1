------------------------ MODULE CCTDecision_proofs ------------------------
(***************************************************************************)
(* With one io thread, the default, whoever accepts or rejects an event    *)
(* sees the decision when the request is answered: DecisionShown.          *)
(*                                                                         *)
(* The cache's own invariant covers a query that may record a watermark    *)
(* past the decision's stamp.  What is missing is that the query of the    *)
(* request itself does so: it has the decided row in its hands, or has     *)
(* gone past its stamp.  Another io thread that decides the same event in  *)
(* the same microsecond breaks this.                                       *)
(***************************************************************************)
EXTENDS CCTPostgresService_proofs

OneThread == \A v, w \in Workers : v = w

\* A worker that is not idle works for a request.
BusyHasRequest == \A w \in Workers : pc[w] # "idle" => request[w] # None

\* The row of the request's event is the one the request committed, and parses.
Decided(w) ==
    LET q == request[w] IN
    /\ db[q.event].parses
    /\ db[q.event].review = q.review /\ db[q.event].lastUpdate = q.stamp

\* The query that follows a decision has its row, or is past its stamp.
InHand(w) ==
    LET q == request[w] IN
    pc[w] = "apply" /\ Decided(w) =>
        \/ query[w].rows[q.event] = db[q.event]
        \/ q.stamp <= query[w].newest

DecisionsInHand == \A w \in Workers : InHand(w)

-----------------------------------------------------------------------------

\* Nothing is asked of the workers before the service runs.
LEMMA DecisionInit == Init => BusyHasRequest /\ DecisionsInHand
  BY ConstantsAssumption DEF Init, Threads, BusyHasRequest, DecisionsInHand, InHand

\* A request stays until its worker is idle.
LEMMA BusyStep ==
    ASSUME TypeOK, StagesFit, BusyHasRequest, [Next]_vars
    PROVE  BusyHasRequest'
  <1>. USE ConstantsAssumption DEF external, service, threads, history
  <1>1. ASSUME NEW t \in Threads, \A u \in Threads \ {t} : pc'[u] = pc[u] /\ request'[u] = request[u],
               t \in Workers => pc'[t] = "idle" \/ request'[t] # None
        PROVE  BusyHasRequest'
    BY <1>1 DEF BusyHasRequest, Threads
  <1>2. CASE Wake \/ Exit
    BY <1>1, <1>2 DEF Wake, Exit, TypeOK, Threads
  <1>3. CASE Stop \/ UNCHANGED vars
    BY <1>3 DEF Stop, vars, BusyHasRequest
  <1>4. ASSUME NEW t \in Threads, Leave(t)
        PROVE  BusyHasRequest'
    BY <1>1, <1>4 DEF Leave, TypeOK, Threads
  <1>5. ASSUME NEW t \in Threads, ReadWatermark(t) \/ Fetch(t)
        PROVE  BusyHasRequest'
    BY <1>1, <1>5 DEF ReadWatermark, Fetch, TypeOK, BusyHasRequest
  <1>6. ASSUME NEW t \in Threads, NEW e \in Events, ApplyRow(t, e) \/ SkipRow(t, e)
        PROVE  BusyHasRequest'
    BY <1>6 DEF ApplyRow, SkipRow, BusyHasRequest
  <1>7. ASSUME NEW w \in Workers, NEW e \in Events, NEW review \in {"A", "R"},
               BeginDecision(w, e, review)
        PROVE  BusyHasRequest'
    <2>1. PICK s \in ClockReads :
             request' = [request EXCEPT ![w] =
                [event |-> e, review |-> review, stamp |-> s, success |-> FALSE]]
      BY <1>7 DEF BeginDecision
    <2>2. [event |-> e, review |-> review, stamp |-> s, success |-> FALSE] \in Requests
      BY DEF Requests, ClockReads
    <2>. QED
      BY <1>1, <1>7, <2>1, <2>2 DEF BeginDecision, TypeOK, Threads
  <1>8. ASSUME NEW w \in Workers, LockMutex(w) \/ UpdateFails(w)
        PROVE  BusyHasRequest'
    BY <1>1, <1>8 DEF LockMutex, UpdateFails, TypeOK, BusyHasRequest, Threads
  <1>9. ASSUME NEW w \in Workers, CommitDecision(w)
        PROVE  BusyHasRequest'
    <2>1. PICK answered \in BOOLEAN : request' = [request EXCEPT ![w].success = answered]
      BY <1>9 DEF CommitDecision
    <2>2. request[w] \in Requests
      BY <1>9 DEF CommitDecision, TypeOK, StagesFit, Threads
    <2>3. request'[w] \in Requests
      BY <2>1, <2>2 DEF TypeOK, Requests, Threads
    <2>. QED
      BY <1>1, <1>9, <2>1, <2>3 DEF CommitDecision, TypeOK, Threads
  <1>10. ASSUME NEW e \in Events, NEW parses \in BOOLEAN, CCTWrite(e, parses)
         PROVE  BusyHasRequest'
    BY <1>10 DEF CCTWrite, BusyHasRequest
  <1>11. ASSUME NEW t \in Threads, UpdateQuery(t)
         PROVE  BusyHasRequest'
    BY <1>4, <1>5, <1>6, <1>11 DEF UpdateQuery, QueryFails, Finish
  <1>12. ASSUME NEW w \in Workers, ExecuteDecision(w)
         PROVE  BusyHasRequest'
    BY <1>4, <1>8, <1>9, <1>12 DEF ExecuteDecision, AbortDecision, Threads
  <1>. QED
    BY <1>2, <1>3, <1>7, <1>10, <1>11, <1>12 DEF Next, Stopped

\* A step that leaves the table, the request and the query of a worker alone,
\* and does not bring it to the loop over its rows.
LEMMA InHandFrame ==
    ASSUME NEW w \in Workers, InHand(w), UNCHANGED db,
           \/ pc'[w] # "apply"
           \/ pc'[w] = pc[w] /\ request'[w] = request[w] /\ query'[w] = query[w]
    PROVE  InHand(w)'
  BY DEF InHand, Decided

\* A query starts on the rows above its watermark.
LEMMA FetchInHand ==
    ASSUME TypeOK, CacheBehindTable, StagesFit, BusyHasRequest,
           NEW w \in Workers, Fetch(w)
    PROVE  InHand(w)'
  <1>. DEFINE q == request[w]
  <1>1. q \in Requests /\ q.event \in Events /\ q.stamp \in Stamps
    BY ConstantsAssumption DEF Fetch, TypeOK, BusyHasRequest, Threads, Requests
  <1>2. db[q.event] \in Rows
    <2>1. q # None /\ w \in Threads
      BY <1>1, ConstantsAssumption DEF Threads
    <2>2. cache[q.event] # None
      BY <2>1 DEF StagesFit
    <2>. QED
      BY <1>1, <2>2 DEF TypeOK, CacheBehindTable, Tables
  <1>3. /\ query[w] \in Queries
        /\ query'[w] = [query[w] EXCEPT !.rows = [e \in Events |->
              IF db[e] # None /\ db[e].lastUpdate > query[w].newest THEN db[e] ELSE None]]
    BY DEF Fetch, TypeOK, Threads
  <1>4. /\ query'[w].newest = query[w].newest
        /\ query'[w].rows[q.event] = IF db[q.event].lastUpdate > query[w].newest
                                     THEN db[q.event] ELSE None
    BY <1>1, <1>2, <1>3, ConstantsAssumption DEF Queries
  <1>5. query[w].newest \in Int /\ db[q.event].lastUpdate \in Int
    BY <1>2, <1>3, ConstantsAssumption DEF Queries, Rows, Stamps, Lowest
  <1>6. request' = request /\ db' = db
    BY DEF Fetch, external
  <1>. QED
    BY <1>4, <1>5, <1>6 DEF InHand, Decided

\* A row that parses leaves the hands for a watermark that is not below it.
LEMMA ApplyRowInHand ==
    ASSUME TypeOK, BusyHasRequest, NEW w \in Workers, InHand(w),
           NEW e \in Events, ApplyRow(w, e)
    PROVE  InHand(w)'
  <1>. DEFINE q == request[w]
              r == query[w].rows[e]
  <1>1. q \in Requests /\ q.event \in Events /\ q.stamp \in Int
    BY ConstantsAssumption DEF ApplyRow, TypeOK, BusyHasRequest, Threads, Requests, Stamps
  <1>2. /\ query[w] \in Queries /\ r \in Rows
        /\ query[w].newest \in Int /\ r.lastUpdate \in Int
    BY ConstantsAssumption DEF ApplyRow, TypeOK, Threads, Queries, Tables, Rows, Stamps, Lowest
  <1>3. query'[w] = [newest |-> Larger(r.lastUpdate, query[w].newest), updated |-> TRUE,
                     rows |-> [query[w].rows EXCEPT ![e] = None]]
    BY DEF ApplyRow, TypeOK, Threads
  <1>4. /\ query[w].newest <= query'[w].newest /\ r.lastUpdate <= query'[w].newest
        /\ query'[w].newest \in Int
    BY <1>2, <1>3 DEF Larger
  <1>5. q.event # e => query'[w].rows[q.event] = query[w].rows[q.event]
    BY <1>1, <1>2, <1>3 DEF Queries, Tables
  <1>6. request' = request /\ db' = db /\ pc[w] = "apply"
    BY DEF ApplyRow, external
  <1>7. ASSUME Decided(w)
        PROVE  \/ query'[w].rows[q.event] = db[q.event]
               \/ q.stamp <= query'[w].newest
    <2>1. CASE q.stamp <= query[w].newest
      BY <1>1, <1>2, <1>4, <2>1
    <2>2. CASE query[w].rows[q.event] = db[q.event]
      <3>1. q.event = e => r.lastUpdate = q.stamp
        BY <1>7, <2>2 DEF Decided
      <3>. QED
        BY <1>4, <1>5, <2>2, <3>1
    <2>. QED
      BY <1>6, <1>7, <2>1, <2>2 DEF InHand
  <1>. QED
    BY <1>6, <1>7 DEF InHand, Decided

\* A row that does not parse is not the decided one.
LEMMA SkipRowInHand ==
    ASSUME TypeOK, BusyHasRequest, NEW w \in Workers, InHand(w),
           NEW e \in Events, SkipRow(w, e)
    PROVE  InHand(w)'
  <1>. DEFINE q == request[w]
  <1>1. q \in Requests /\ q.event \in Events
    BY ConstantsAssumption DEF SkipRow, TypeOK, BusyHasRequest, Threads, Requests
  <1>2. /\ query[w] \in Queries
        /\ query'[w] = [query[w] EXCEPT !.rows[e] = None]
    BY DEF SkipRow, TypeOK, Threads
  <1>3. /\ query'[w].newest = query[w].newest
        /\ q.event # e => query'[w].rows[q.event] = query[w].rows[q.event]
    BY <1>1, <1>2 DEF Queries, Tables
  <1>4. /\ request' = request /\ db' = db /\ pc[w] = "apply"
        /\ ~ query[w].rows[e].parses
    BY DEF SkipRow, external
  <1>. QED
    BY <1>3, <1>4 DEF InHand, Decided

\* The CCT software writes the event unreviewed.
LEMMA WriteInHand ==
    ASSUME TypeOK, BusyHasRequest, NEW w \in Workers, InHand(w),
           NEW e \in Events, NEW parses \in BOOLEAN, CCTWrite(e, parses)
    PROVE  InHand(w)'
  <1>. SUFFICES ASSUME pc[w] = "apply" PROVE InHand(w)'
    BY DEF CCTWrite, threads, InHand
  <1>1. request[w] \in Requests
    BY DEF TypeOK, BusyHasRequest, Threads
  <1>2. request[w].review # "U" /\ request[w].event \in Events
    BY <1>1 DEF Requests
  <1>3. UNCHANGED <<pc, request, query>>
    BY DEF CCTWrite, threads
  <1>4. /\ \A x \in Events \ {e} : db'[x] = db[x]
        /\ db'[e].review = "U"
    BY DEF CCTWrite, Commit, TypeOK, Tables
  <1>. QED
    BY <1>2, <1>3, <1>4 DEF InHand, Decided

\* Every step keeps it: the one worker does not decide while it refreshes.
LEMMA DecisionStep ==
    ASSUME OneThread, CacheInvariant, BusyHasRequest, DecisionsInHand, [Next]_vars
    PROVE  DecisionsInHand'
  <1>. USE ConstantsAssumption DEF external, service, threads, history, CacheInvariant
  <1>. SUFFICES ASSUME NEW w \in Workers
                PROVE  InHand(w)'
    BY DEF DecisionsInHand
  <1>1. InHand(w) /\ w \in Threads /\ w # Poller
    BY DEF DecisionsInHand, Threads
  <1>2. CASE Wake \/ Exit \/ Stop \/ UNCHANGED vars
    BY <1>1, <1>2, InHandFrame DEF Wake, Exit, Stop, vars, TypeOK
  <1>3. ASSUME NEW t \in Threads, UpdateQuery(t)
        PROVE  InHand(w)'
    <2>1. CASE t # w
      BY <1>1, <1>3, <2>1, InHandFrame DEF UpdateQuery, ReadWatermark, Fetch, QueryFails, Finish,
         ApplyRow, SkipRow, Leave, TypeOK
    <2>2. CASE ReadWatermark(w) \/ QueryFails(w) \/ Finish(w)
      BY <1>1, <2>2, InHandFrame DEF ReadWatermark, QueryFails, Finish, Leave, TypeOK
    <2>3. CASE Fetch(w) \/ \E e \in Events : ApplyRow(w, e) \/ SkipRow(w, e)
      BY <1>1, <2>3, FetchInHand, ApplyRowInHand, SkipRowInHand
    <2>. QED
      BY <1>3, <2>1, <2>2, <2>3 DEF UpdateQuery
  <1>4. ASSUME NEW v \in Workers,
               \/ \E e \in Events, review \in {"A", "R"} : BeginDecision(v, e, review)
               \/ ExecuteDecision(v)
        PROVE  InHand(w)'
    <2>1. v = w
      BY DEF OneThread
    <2>2. pc'[w] # "apply"
      BY <1>1, <1>4, <2>1 DEF BeginDecision, ExecuteDecision, LockMutex, AbortDecision,
         CommitDecision, UpdateFails, Leave, TypeOK
    <2>. QED
      BY <2>2 DEF InHand
  <1>5. ASSUME NEW e \in Events, NEW parses \in BOOLEAN, CCTWrite(e, parses)
        PROVE  InHand(w)'
    BY <1>1, <1>5, WriteInHand
  <1>. QED
    BY <1>2, <1>3, <1>4, <1>5 DEF Next, Stopped

\* Whoever decides sees the decision, for one io thread (acceptRejectEvent:
\* 339-342): the query that follows it does not end without the decided row.
THEOREM DecisionIsShown == ASSUME OneThread PROVE Spec => []DecisionShown
  <1>1. Init => BusyHasRequest /\ DecisionsInHand
    BY DecisionInit
  <1>2. CacheInvariant /\ BusyHasRequest /\ DecisionsInHand /\ [Next]_vars
          => BusyHasRequest' /\ DecisionsInHand'
    BY BusyStep, DecisionStep DEF CacheInvariant
  <1>3. CacheInvariant /\ BusyHasRequest /\ DecisionsInHand => DecisionShown
    <2>. SUFFICES ASSUME CacheInvariant, BusyHasRequest, DecisionsInHand, NEW w \in Workers,
                         pc[w] = "apply", query[w].rows = EmptyTable,
                         db[request[w].event].review = request[w].review,
                         db[request[w].event].lastUpdate = request[w].stamp,
                         Dependable(request[w].event)
                  PROVE  Fresh(request[w].event)
      BY DEF DecisionShown
    <2>. DEFINE e == request[w].event
    <2>1. e \in Events /\ request[w].stamp \in Int /\ w \in Threads
      BY ConstantsAssumption
         DEF CacheInvariant, TypeOK, BusyHasRequest, Threads, Requests, Stamps
    <2>2. query[w].rows[e] = None /\ db[e] # None /\ db[e].parses
      BY <2>1 DEF EmptyTable, Dependable
    <2>3. db[e].lastUpdate <= query[w].newest
      BY <2>2 DEF DecisionsInHand, InHand, Decided
    <2>4. Covered(w, e)
      BY <2>1 DEF CacheInvariant, QueriesCover, InFlight
    <2>. QED
      BY <2>2, <2>3, <2>4 DEF Covered, MayRecord
  <1>. QED
    BY <1>1, <1>2, <1>3, InvariantHolds, PTL DEF Spec

=============================================================================
