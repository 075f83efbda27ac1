------------------------ MODULE ReviewPromise_proofs ------------------------
(***************************************************************************)
(* Review implements ReviewService: for any number of io threads, whatever *)
(* other AQMS programs do, whichever query throws and whenever the process *)
(* dies, a request changes AQMS once and by one magnitude, then the CCT    *)
(* table once.                                                             *)
(*                                                                         *)
(* Little of what a request knows is needed: that an accept comes to the   *)
(* CCT table with a magnitude, and that the next identifier of magseq is   *)
(* not in use.                                                             *)
(***************************************************************************)
EXTENDS Review_proofs

\* What request w has in hand when it writes.
WriteFits(w) ==
    LET c == call[w] IN
    /\ pc[w] # "idle" => c.kind \in {"accept", "reject"}
    /\ pc[w] = "origin" => c.kind = "accept"
    /\ c.kind = "accept" /\ pc[w] \in Searching => c.origin \in Origins
    /\ c.kind = "accept" /\ pc[w] = "cct" => c.magid # None
    /\ c.kind = "reject" /\ pc[w] \in {"exists", "existsAgain"} => c.magid = None

WritesFit == \A w \in Workers : WriteFits(w)

\* The identifiers magseq has not given are not in use.
FreshIds == \A m \in MagIds : m >= nextMag => netmag[m] = None

OrderInvariant == TypeOK /\ WritesFit /\ FreshIds

-----------------------------------------------------------------------------
(* The invariant *)

\* A step of one io thread leaves the others where they are.
LEMMA OthersWait ==
    ASSUME TypeOK, NEW w \in Workers, BeginAccept(w) \/ BeginReject(w) \/ Step(w)
    PROVE  \A v \in Workers : v # w => pc'[v] = pc[v] /\ call'[v] = call[v]
  <1>1. \A s, c : \A v \in Workers : v # w =>
          /\ Goto(w, s) => pc'[v] = pc[v]
          /\ Learn(w, c) => call'[v] = call[v]
    BY DEF TypeOK, Goto, Learn
  <1>2. Throw(w) => \A v \in Workers : v # w => pc'[v] = pc[v] /\ call'[v] = call[v]
    BY <1>1 DEF Throw
  <1>3. CASE BeginAccept(w) \/ BeginReject(w) \/ ReadOrigin(w) \/ Answer(w)
    BY <1>1, <1>3 DEF BeginAccept, BeginReject, ReadOrigin, Answer
  <1>4. CASE AcceptExists(w) \/ AcceptIdentifier(w) \/ CheckAgain(w)
    BY <1>1, <1>2, <1>4 DEF AcceptExists, AcceptIdentifier, CheckAgain
  <1>5. CASE RejectExists(w) \/ RejectIdentifier(w) \/ ReadPreferred(w)
    BY <1>1, <1>5 DEF RejectExists, RejectIdentifier, ReadPreferred
  <1>6. CASE CommitInsert(w) \/ CommitUpdate(w) \/ CommitDelete(w)
    BY <1>1, <1>6 DEF CommitInsert, CommitUpdate, CommitDelete
  <1>7. CASE AcceptRefused(w) \/ AQMSFails(w) \/ DecideCCT(w)
    BY <1>1, <1>2, <1>7 DEF AcceptRefused, AQMSFails, DecideCCT
  <1>. QED
    BY <1>3, <1>4, <1>5, <1>6, <1>7 DEF Step

\* Only an insert brings an identifier into use, and takes it from magseq.
LEMMA FreshStep ==
    ASSUME OrderInvariant, [Next]_vars
    PROVE  FreshIds'
  <1>. USE AQMSAssumption DEF OrderInvariant
  <1>1. CASE UNCHANGED <<netmag, nextMag>>
    BY <1>1 DEF FreshIds
  <1>2. ASSUME NEW w \in Workers, CommitInsert(w)
        PROVE  FreshIds'
    <2>1. /\ nextMag' = nextMag + 1 /\ nextMag \in Int
          /\ netmag' = [netmag EXCEPT ![nextMag] = call[w].origin]
      BY <1>2 DEF CommitInsert, InsertTransaction, MagIds
    <2>2. ASSUME NEW m \in MagIds, m >= nextMag'
          PROVE  netmag'[m] = None
      <3>1. m \in Int /\ m >= nextMag /\ m # nextMag
        BY <2>1, <2>2 DEF MagIds
      <3>. QED
        BY <2>1, <3>1 DEF FreshIds, TypeOK, AQMSTypeOK
    <2>. QED
      BY <2>2 DEF FreshIds
  <1>3. ASSUME NEW w \in Workers, CommitDelete(w)
        PROVE  FreshIds'
    BY <1>3 DEF CommitDelete, DeleteTransaction, FreshIds
  <1>4. ASSUME NEW w \in Workers, BeginAccept(w) \/ BeginReject(w) \/ Step(w),
               ~ CommitInsert(w), ~ CommitDelete(w)
        PROVE  UNCHANGED <<netmag, nextMag>>
    BY <1>4 DEF BeginAccept, BeginReject, Step, ReadOrigin, AcceptRefused, AcceptExists,
       AcceptIdentifier, CheckAgain, RejectExists, RejectIdentifier, ReadPreferred,
       CommitUpdate, UpdateTransaction, AQMSFails, DecideCCT, Answer, aqms
  <1>5. CASE AQMSMoves \/ Crash \/ UNCHANGED vars
    BY <1>1, <1>5 DEF AQMSMoves, Crash, vars, aqms
  <1>. QED
    BY <1>1, <1>2, <1>3, <1>4, <1>5 DEF Next

\* What a request has in hand after a step of its own.
LEMMA WriteStep ==
    ASSUME TypeOK, NEW w \in Workers, WriteFits(w),
           BeginAccept(w) \/ BeginReject(w) \/ Step(w)
    PROVE  WriteFits(w)'
  <1>1. call[w] \in Calls /\ prefor \in Origins
    BY DEF TypeOK, AQMSTypeOK
  <1>2. Throw(w) /\ pc[w] # "idle" => WriteFits(w)'
    <2>1. Throw(w) => pc'[w] = "answer" /\ call'[w].kind = call[w].kind
      BY <1>1, ThrowTyped DEF Calls
    <2>. QED
      BY <2>1 DEF WriteFits, Searching
  <1>3. CASE BeginAccept(w)
    <2>1. pc'[w] = "origin" /\ call'[w] = [NoCall EXCEPT !.kind = "accept"]
      BY <1>3, Moved DEF BeginAccept
    <2>. QED
      BY <2>1 DEF WriteFits, NoCall, Searching
  <1>4. CASE BeginReject(w)
    <2>1. pc'[w] = "exists" /\ call'[w] = [NoCall EXCEPT !.kind = "reject"]
      BY <1>4, Moved DEF BeginReject
    <2>. QED
      BY <2>1 DEF WriteFits, NoCall, Searching
  <1>5. CASE Answer(w)
    <2>1. pc'[w] = "idle" /\ call'[w] = NoCall
      BY <1>5, Moved DEF Answer
    <2>. QED
      BY <2>1 DEF WriteFits, NoCall
  <1>6. CASE ReadOrigin(w)
    <2>1. pc'[w] = "exists" /\ call'[w] = [call[w] EXCEPT !.origin = prefor]
      BY <1>6, Moved DEF ReadOrigin
    <2>. QED
      BY <1>1, <1>6, <2>1 DEF ReadOrigin, WriteFits, Calls
  <1>7. CASE AcceptRefused(w) \/ AQMSFails(w)
    BY <1>2, <1>7 DEF AcceptRefused, AQMSFails
  <1>8. CASE AcceptExists(w)
    <2>1. pc'[w] \in {"identifier", "insert"} /\ call'[w] = call[w]
      BY <1>8, Moved DEF AcceptExists
    <2>. QED
      BY <1>8, <2>1 DEF AcceptExists, At, WriteFits, Searching
  <1>9. CASE AcceptIdentifier(w)
    <2>1. PICK m \in IdentifierAnswers :
             /\ pc'[w] \in {"insert", "update"}
             /\ call'[w] = [call[w] EXCEPT !.magid = m]
      BY <1>9, Moved DEF AcceptIdentifier
    <2>. QED
      BY <1>1, <1>9, <2>1 DEF AcceptIdentifier, At, WriteFits, Calls, Searching
  <1>10. CASE CheckAgain(w)
    <2>1. Goto(w, "preferred") /\ UNCHANGED call => WriteFits(w)'
      <3>1. Goto(w, "preferred") /\ UNCHANGED call =>
               pc'[w] = "preferred" /\ call'[w] = call[w]
        BY Moved
      <3>. QED
        BY <1>10, <3>1 DEF CheckAgain, WriteFits, Searching
    <2>. QED
      BY <1>2, <1>10, <2>1 DEF CheckAgain
  <1>11. CASE RejectExists(w)
    <2>1. /\ pc'[w] \in {"cct", "existsAgain", "identifier"}
          /\ call'[w] = [call[w] EXCEPT !.origin = prefor]
      BY <1>11, Moved DEF RejectExists
    <2>. QED
      BY <1>1, <1>11, <2>1 DEF RejectExists, WriteFits, Calls
  <1>12. CASE RejectIdentifier(w)
    <2>1. PICK m \in IdentifierAnswers :
             /\ pc'[w] \in {"cct", "preferred"}
             /\ call'[w] = [call[w] EXCEPT !.magid = m, !.origin = prefor]
      BY <1>12, Moved DEF RejectIdentifier
    <2>. QED
      BY <1>1, <1>12, <2>1 DEF RejectIdentifier, At, WriteFits, Calls
  <1>13. CASE ReadPreferred(w)
    <2>1. PICK m : /\ pc'[w] = "transaction"
                   /\ call'[w] = [call[w] EXCEPT !.current = m]
      BY <1>13, Moved DEF ReadPreferred
    <2>. QED
      BY <1>1, <1>13, <2>1 DEF ReadPreferred, WriteFits, Calls, Searching
  <1>14. CASE CommitInsert(w)
    <2>1. /\ pc'[w] = "cct" /\ nextMag # None
          /\ call'[w] = [call[w] EXCEPT !.magid = nextMag, !.recorded = TRUE]
      BY <1>14, Moved, AQMSAssumption DEF CommitInsert, InsertTransaction
    <2>. QED
      BY <1>1, <1>14, <2>1 DEF CommitInsert, At, WriteFits, Calls, Searching
  <1>15. CASE CommitUpdate(w) \/ CommitDelete(w)
    <2>1. PICK r : pc'[w] = "cct" /\ call'[w] = [call[w] EXCEPT !.recorded = r]
      BY <1>15, Moved DEF CommitUpdate, CommitDelete
    <2>. QED
      BY <1>1, <1>15, <2>1 DEF CommitUpdate, CommitDelete, At, WriteFits, Calls, Searching
  <1>16. CASE DecideCCT(w)
    <2>1. ASSUME Goto(w, "answer"),
                 Learn(w, [call[w] EXCEPT !.status = StatusAfter(call[w].kind, FALSE)])
          PROVE  WriteFits(w)'
      <3>1. pc'[w] = "answer" /\ call'[w].kind = call[w].kind
        BY <1>1, <2>1, Moved DEF Calls
      <3>. QED
        BY <1>16, <3>1 DEF DecideCCT, WriteFits, Searching
    <2>. QED
      BY <1>2, <1>16, <2>1 DEF DecideCCT
  <1>. QED
    BY <1>3, <1>4, <1>5, <1>6, <1>7, <1>8, <1>9, <1>10, <1>11, <1>12, <1>13, <1>14, <1>15,
       <1>16 DEF Step

\* The invariant holds whatever other threads and programs do.
LEMMA OrderStep == OrderInvariant /\ [Next]_vars => OrderInvariant'
  <1>. SUFFICES ASSUME OrderInvariant, [Next]_vars
                PROVE  OrderInvariant'
    OBVIOUS
  <1>1. TypeOK /\ WritesFit
    BY DEF OrderInvariant
  <1>2. TypeOK'
    BY <1>1, StepTyped, OthersTyped DEF Next
  <1>3. ASSUME NEW w \in Workers, BeginAccept(w) \/ BeginReject(w) \/ Step(w)
        PROVE  WritesFit'
    <2>1. WriteFits(w)'
      BY <1>1, <1>3, WriteStep DEF WritesFit
    <2>2. ASSUME NEW v \in Workers, v # w
          PROVE  WriteFits(v)'
      BY <1>1, <1>3, <2>2, OthersWait DEF WritesFit, WriteFits
    <2>. QED
      BY <2>1, <2>2 DEF WritesFit
  <1>4. UNCHANGED <<pc, call>> => WritesFit'
    BY <1>1 DEF WritesFit, WriteFits
  <1>5. Crash => WritesFit'
    BY DEF Crash, WritesFit, WriteFits, NoCall
  <1>6. WritesFit'
    BY <1>3, <1>4, <1>5 DEF Next, vars
  <1>. QED
    BY <1>2, <1>6, FreshStep DEF OrderInvariant

\* Nothing is in use and nobody asks when the backend starts.
LEMMA OrderInit == Init => OrderInvariant
  BY InitTyped DEF Init, AQMSInit, OrderInvariant, WritesFit, WriteFits, NoCall, FreshIds

LEMMA OrderHolds == Spec => []OrderInvariant
  BY OrderInit, OrderStep, PTL DEF Spec

-----------------------------------------------------------------------------
(* The refinement *)

RequestMap == [w \in Workers |-> RequestOf(w)]

\* What ReviewService sees of a request under way.
LEMMA RequestFacts ==
    ASSUME NEW w \in Workers, pc[w] # "idle"
    PROVE  /\ RequestMap[w] = RequestOf(w)
           /\ RequestOf(w).kind = call[w].kind /\ RequestOf(w).status = call[w].status
           /\ pc[w] = "answer" => RequestOf(w).stage = "closed"
           /\ pc[w] # "answer" => RequestOf(w).stage \in {"asked", "recorded"}
           /\ pc[w] \notin {"answer", "cct"} => RequestOf(w).stage = "asked"
           /\ pc[w] = "cct" /\ call[w].magid # None => RequestOf(w).stage = "recorded"
           /\ pc[w] = "cct" /\ call[w].magid = None => RequestOf(w).stage = "asked"
  BY DEF RequestMap, RequestOf

\* A step of one io thread changes its own request only.
LEMMA RequestMoves ==
    ASSUME TypeOK, NEW w \in Workers, BeginAccept(w) \/ BeginReject(w) \/ Step(w)
    PROVE  RequestMap' = [RequestMap EXCEPT ![w] = RequestOf(w)']
  <1>1. ASSUME NEW v \in Workers, v # w
        PROVE  RequestOf(v)' = RequestOf(v)
    BY <1>1, OthersWait DEF RequestOf
  <1>. QED
    BY <1>1 DEF RequestMap

\* A step that leaves what is seen of a request alone is a stutter.
LEMMA RequestWaits ==
    ASSUME TypeOK, NEW w \in Workers, BeginAccept(w) \/ BeginReject(w) \/ Step(w),
           UNCHANGED <<netmag, cct>>, RequestOf(w)' = RequestOf(w)
    PROVE  UNCHANGED Service!stores
  <1>1. RequestMap' = RequestMap
    BY RequestMoves DEF RequestMap
  <1>. QED
    BY <1>1 DEF Service!stores, RequestMap

\* What is seen of a request after a step that closes or records it.
LEMMA RequestGoes ==
    ASSUME TypeOK, NEW w \in Workers, Step(w), NEW stage, NEW status,
           pc[w] # "idle", pc'[w] # "idle", call'[w].kind = call[w].kind,
           RequestOf(w)'.stage = stage, call'[w].status = status
    PROVE  Service!Moves(w, stage, status)
  <1>1. RequestOf(w)' = [kind |-> call[w].kind, stage |-> stage, status |-> status]
    BY DEF RequestOf
  <1>2. RequestMap[w].kind = call[w].kind
    BY RequestFacts
  <1>3. RequestMap' = [RequestMap EXCEPT ![w] =
                         [kind |-> RequestMap[w].kind, stage |-> stage, status |-> status]]
    BY <1>1, <1>2, RequestMoves
  <1>. QED
    BY <1>3 DEF Service!Moves, RequestMap

\* An exception gives a request up.
LEMMA ThrowGivesUp ==
    ASSUME TypeOK, NEW w \in Workers, WriteFits(w), Step(w), Throw(w),
           pc[w] \notin {"idle", "answer"}, UNCHANGED <<netmag, cct>>
    PROVE  \E status \in {"success", "failure"} : Service!GiveUp(w, status)
  <1>. DEFINE status == StatusAfter(call[w].kind, TRUE)
  <1>1. call[w] \in Calls
    BY DEF TypeOK
  <1>2. /\ pc'[w] = "answer" /\ call'[w].kind = call[w].kind
        /\ call'[w].status = status
    BY <1>1, ThrowTyped DEF Calls
  <1>3. RequestOf(w)'.stage = "closed"
    BY <1>2 DEF RequestOf
  <1>4. status \in {"success", "failure"} /\ (call[w].kind = "accept" => status = "failure")
    BY DEF StatusAfter
  <1>. HIDE DEF status
  <1>5. Service!Moves(w, "closed", status)
    BY <1>2, <1>3, RequestGoes
  <1>6. RequestMap[w].stage \in {"asked", "recorded"} /\ RequestMap[w].kind = call[w].kind
    BY RequestFacts
  <1>. QED
    BY <1>4, <1>5, <1>6 DEF Service!GiveUp, RequestMap

\* A new request.
LEMMA BeginAsks ==
    ASSUME TypeOK, NEW w \in Workers, BeginAccept(w) \/ BeginReject(w)
    PROVE  \E kind \in {"accept", "reject"} : Service!Ask(w, kind)
  <1>1. ASSUME NEW kind \in {"accept", "reject"}, NEW stage \in {"origin", "exists"},
               pc[w] = "idle", Goto(w, stage), Learn(w, [NoCall EXCEPT !.kind = kind]),
               UNCHANGED <<aqms, cct>>
        PROVE  Service!Ask(w, kind)
    <2>1. pc'[w] = stage /\ call'[w] = [NoCall EXCEPT !.kind = kind]
      BY <1>1, Moved
    <2>2. RequestOf(w)' = [kind |-> kind, stage |-> "asked", status |-> "failure"]
      BY <2>1 DEF RequestOf, NoCall
    <2>3. RequestMap[w] = Service!NoRequest
      BY <1>1 DEF RequestMap, RequestOf, Service!NoRequest
    <2>. QED
      BY <1>1, <2>2, <2>3, RequestMoves DEF Service!Ask, RequestMap, aqms
  <1>. QED
    BY <1>1 DEF BeginAccept, BeginReject

\* A request that asks and moves on is seen as before.
LEMMA AskedStays ==
    ASSUME TypeOK, NEW w \in Workers, BeginAccept(w) \/ BeginReject(w) \/ Step(w),
           UNCHANGED <<netmag, cct>>, pc[w] \notin {"idle", "answer", "cct"},
           pc'[w] \notin {"idle", "answer"}, pc'[w] = "cct" => call'[w].magid = None,
           call'[w].kind = call[w].kind, call'[w].status = call[w].status
    PROVE  UNCHANGED Service!stores
  <1>1. RequestOf(w)' = RequestOf(w)
    BY DEF RequestOf
  <1>. QED
    BY <1>1, RequestWaits

\* The questions of an accept are not seen, or end it.
LEMMA AcceptAsks ==
    ASSUME TypeOK, NEW w \in Workers, WriteFits(w), Step(w),
           \/ ReadOrigin(w) \/ AcceptRefused(w) \/ AcceptExists(w)
           \/ AcceptIdentifier(w) \/ CheckAgain(w)
    PROVE  \/ UNCHANGED Service!stores
           \/ \E status \in {"success", "failure"} : Service!GiveUp(w, status)
  <1>1. call[w] \in Calls
    BY DEF TypeOK
  <1>2. UNCHANGED <<netmag, cct>>
    BY DEF ReadOrigin, AcceptRefused, AcceptExists, AcceptIdentifier, CheckAgain, aqms
  <1>3. CASE ReadOrigin(w)
    <2>1. pc[w] = "origin" /\ pc'[w] = "exists"
          /\ call'[w] = [call[w] EXCEPT !.origin = prefor]
      BY <1>3, Moved DEF ReadOrigin
    <2>. QED
      BY <1>1, <1>2, <2>1, AskedStays DEF Calls
  <1>4. CASE AcceptRefused(w)
    BY <1>2, <1>4, ThrowGivesUp DEF AcceptRefused
  <1>5. CASE AcceptExists(w)
    <2>1. pc[w] = "exists" /\ pc'[w] \in {"identifier", "insert"} /\ call'[w] = call[w]
      BY <1>5, Moved DEF AcceptExists, At
    <2>. QED
      BY <1>2, <2>1, AskedStays
  <1>6. CASE AcceptIdentifier(w)
    <2>1. PICK m \in IdentifierAnswers :
             /\ pc[w] = "identifier" /\ pc'[w] \in {"insert", "update"}
             /\ call'[w] = [call[w] EXCEPT !.magid = m]
      BY <1>6, Moved DEF AcceptIdentifier, At
    <2>. QED
      BY <1>1, <1>2, <2>1, AskedStays DEF Calls
  <1>7. CASE CheckAgain(w)
    <2>1. /\ pc[w] \in {"insert", "update"}
          /\ \/ Goto(w, "preferred") /\ UNCHANGED call
             \/ Throw(w)
      BY <1>7 DEF CheckAgain
    <2>2. ASSUME Goto(w, "preferred"), UNCHANGED call
          PROVE  UNCHANGED Service!stores
      <3>1. pc'[w] = "preferred" /\ call'[w] = call[w]
        BY <2>2, Moved
      <3>. QED
        BY <1>2, <2>1, <3>1, AskedStays
    <2>. QED
      BY <1>2, <2>1, <2>2, ThrowGivesUp
  <1>. QED
    BY <1>3, <1>4, <1>5, <1>6, <1>7

\* Nor are those of a reject, or the last one of both.
LEMMA RejectAsks ==
    ASSUME TypeOK, NEW w \in Workers, WriteFits(w), Step(w),
           RejectExists(w) \/ RejectIdentifier(w) \/ ReadPreferred(w)
    PROVE  UNCHANGED Service!stores
  <1>1. call[w] \in Calls
    BY DEF TypeOK
  <1>2. UNCHANGED <<netmag, cct>>
    BY DEF RejectExists, RejectIdentifier, ReadPreferred, aqms
  <1>3. CASE RejectExists(w)
    <2>1. /\ pc[w] \in {"exists", "existsAgain"} /\ call[w].kind = "reject"
          /\ pc'[w] \in {"cct", "existsAgain", "identifier"}
          /\ call'[w] = [call[w] EXCEPT !.origin = prefor]
      BY <1>3, Moved DEF RejectExists
    <2>2. call'[w].magid = None
      BY <1>1, <2>1 DEF WriteFits, Calls
    <2>. QED
      BY <1>1, <1>2, <2>1, <2>2, AskedStays DEF Calls
  <1>4. CASE RejectIdentifier(w)
    <2>1. PICK m \in IdentifierAnswers :
             /\ pc[w] = "identifier" /\ pc'[w] = IF m = None THEN "cct" ELSE "preferred"
             /\ call'[w] = [call[w] EXCEPT !.magid = m, !.origin = prefor]
      BY <1>4, Moved DEF RejectIdentifier, At
    <2>2. /\ call'[w].magid = m /\ call'[w].kind = call[w].kind
          /\ call'[w].status = call[w].status
      BY <1>1, <2>1 DEF Calls
    <2>. QED
      BY <1>2, <2>1, <2>2, AskedStays
  <1>5. CASE ReadPreferred(w)
    <2>1. PICK m \in PreferredAnswers :
             /\ pc[w] = "preferred" /\ pc'[w] = "transaction"
             /\ call'[w] = [call[w] EXCEPT !.current = m]
      BY <1>5, Moved DEF ReadPreferred
    <2>. QED
      BY <1>1, <1>2, <2>1, AskedStays DEF Calls
  <1>. QED
    BY <1>3, <1>4, <1>5

\* A transaction changes one magnitude, or none, and the request comes to the
\* CCT table with it.
LEMMA TransactionRecords ==
    ASSUME OrderInvariant, NEW w \in Workers, Step(w),
           CommitInsert(w) \/ CommitUpdate(w) \/ CommitDelete(w)
    PROVE  Service!Record(w) \/ UNCHANGED Service!stores
  <1>1. /\ TypeOK /\ call[w] \in Calls /\ WriteFits(w)
        /\ netmag \in [MagIds -> Origins \cup {None}]
    BY DEF OrderInvariant, TypeOK, AQMSTypeOK, WritesFit
  <1>2. /\ pc[w] = "transaction" /\ pc'[w] = "cct" /\ UNCHANGED cct
        /\ RequestMap[w].stage = "asked" /\ RequestMap[w].kind = call[w].kind
        /\ RequestMap[w].status = call[w].status
    <2>1. pc[w] = "transaction" /\ pc'[w] = "cct" /\ UNCHANGED cct
      BY <1>1, Moved DEF CommitInsert, CommitUpdate, CommitDelete, At
    <2>. QED
      BY <2>1, RequestFacts
  <1>3. ASSUME call'[w].kind = call[w].kind, call'[w].status = call[w].status,
               call'[w].magid # None
        PROVE  Service!Moves(w, "recorded", RequestMap[w].status)
    <2>1. RequestOf(w)'.stage = "recorded"
      BY <1>2, <1>3 DEF RequestOf
    <2>. QED
      BY <1>1, <1>2, <1>3, <2>1, RequestGoes
  <1>4. CASE CommitInsert(w)
    <2>1. /\ call[w].kind = "accept" /\ nextMag \in MagIds
          /\ netmag' = [netmag EXCEPT ![nextMag] = call[w].origin]
          /\ call'[w] = [call[w] EXCEPT !.magid = nextMag, !.recorded = TRUE]
      BY <1>1, <1>4, Moved DEF CommitInsert, InsertTransaction, At
    <2>2. /\ call'[w].kind = call[w].kind /\ call'[w].status = call[w].status
          /\ call'[w].magid # None
      BY <1>1, <2>1, AQMSAssumption DEF Calls
    <2>3. nextMag >= nextMag
      BY <2>1 DEF MagIds
    <2>4. netmag[nextMag] = None
      BY <2>1, <2>3 DEF OrderInvariant, FreshIds
    <2>5. call[w].origin \in Origins
      BY <1>1, <1>2, <2>1 DEF WriteFits, Searching
    <2>. QED
      BY <1>2, <1>3, <2>1, <2>2, <2>4, <2>5 DEF Service!Record, RequestMap
  <1>5. ASSUME CommitUpdate(w) \/ CommitDelete(w)
        PROVE  /\ call'[w].kind = call[w].kind /\ call'[w].status = call[w].status
               /\ call'[w].magid = call[w].magid
    <2>1. PICK r : call'[w] = [call[w] EXCEPT !.recorded = r]
      BY <1>1, <1>5, Moved DEF CommitUpdate, CommitDelete
    <2>. QED
      BY <1>1, <2>1 DEF Calls
  <1>6. CASE CommitUpdate(w)
    <2>1. UNCHANGED netmag /\ call[w].magid # None
      BY <1>6 DEF CommitUpdate, UpdateTransaction
    <2>. QED
      BY <1>2, <1>3, <1>5, <1>6, <2>1 DEF Service!Record, RequestMap
  <1>7. CASE CommitDelete(w)
    <2>. DEFINE m == call[w].magid
    <2>1. /\ call[w].kind = "reject"
          /\ netmag' = [x \in MagIds |-> IF x = m THEN None ELSE netmag[x]]
      BY <1>7 DEF CommitDelete, DeleteTransaction, At
    <2>2. m \notin MagIds => netmag' = netmag
      BY <1>1, <2>1
    <2>3. m \in MagIds => netmag' = [netmag EXCEPT ![m] = None]
      BY <1>1, <2>1
    <2>4. CASE m = None
      <3>1. UNCHANGED netmag
        BY <2>2, <2>4, AQMSAssumption
      <3>2. RequestOf(w)' = RequestOf(w)
        BY <1>2, <1>5, <1>7, <2>4 DEF RequestOf
      <3>. QED
        BY <1>1, <1>2, <3>1, <3>2, RequestWaits
    <2>5. CASE m # None
      <3>1. Service!Moves(w, "recorded", RequestMap[w].status)
        BY <1>3, <1>5, <1>7, <2>5
      <3>. QED
        BY <1>2, <2>1, <2>2, <2>3, <3>1 DEF Service!Record, RequestMap
    <2>. QED
      BY <2>4, <2>5
  <1>. QED
    BY <1>4, <1>6, <1>7

\* The CCT table is changed, or not, and the request is closed.
LEMMA DecideCloses ==
    ASSUME TypeOK, NEW w \in Workers, WriteFits(w), Step(w), DecideCCT(w)
    PROVE  \E status \in {"success", "failure"} :
              Service!Decide(w, status) \/ Service!GiveUp(w, status)
  <1>. DEFINE decision == IF call[w].kind = "accept" THEN "A" ELSE "R"
  <1>1. call[w] \in Calls /\ pc[w] = "cct" /\ UNCHANGED netmag
    BY DEF TypeOK, DecideCCT, aqms
  <1>2. /\ RequestMap[w].kind = call[w].kind
        /\ \/ RequestMap[w].stage = "recorded"
           \/ RequestMap[w].stage = "asked" /\ call[w].kind = "reject"
    BY <1>1, RequestFacts DEF WriteFits
  <1>3. ASSUME NEW status \in {"success", "failure"}, pc'[w] = "answer", cct' = decision,
               call'[w].kind = call[w].kind, call'[w].status = status
        PROVE  Service!Decide(w, status)
    <2>1. RequestOf(w)'.stage = "closed"
      BY <1>3 DEF RequestOf
    <2>2. Service!Moves(w, "closed", status)
      BY <1>1, <1>3, <2>1, RequestGoes
    <2>. QED
      BY <1>1, <1>2, <1>3, <2>2 DEF Service!Decide, RequestMap
  <1>4. CASE /\ cct' = decision /\ Goto(w, "answer")
             /\ Learn(w, [call[w] EXCEPT !.status = StatusAfter(call[w].kind, FALSE)])
    <2>1. StatusAfter(call[w].kind, FALSE) = "success"
      BY DEF StatusAfter
    <2>2. /\ pc'[w] = "answer" /\ call'[w].kind = call[w].kind
          /\ call'[w].status = "success"
      BY <1>1, <1>4, <2>1, Moved DEF Calls
    <2>. QED
      BY <1>3, <1>4, <2>2
  <1>5. CASE cct' = decision /\ Throw(w)
    <2>1. StatusAfter(call[w].kind, TRUE) \in {"success", "failure"}
      BY DEF StatusAfter
    <2>2. /\ pc'[w] = "answer" /\ call'[w].kind = call[w].kind
          /\ call'[w].status = StatusAfter(call[w].kind, TRUE)
      BY <1>1, <1>5, ThrowTyped DEF Calls
    <2>. QED
      BY <1>3, <1>5, <2>1, <2>2
  <1>6. CASE cct' = cct /\ Throw(w)
    BY <1>1, <1>6, ThrowGivesUp
  <1>. QED
    BY <1>4, <1>5, <1>6 DEF DecideCCT

\* The answer ends the request.
LEMMA AnswerReplies ==
    ASSUME TypeOK, NEW w \in Workers, Step(w), Answer(w)
    PROVE  Service!Reply(w)
  <1>1. pc[w] = "answer" /\ pc'[w] = "idle" /\ UNCHANGED <<netmag, cct>>
    BY Moved DEF Answer, aqms
  <1>2. RequestMap[w].stage = "closed"
    BY <1>1, RequestFacts
  <1>3. RequestOf(w)' = Service!NoRequest
    BY <1>1 DEF RequestOf, Service!NoRequest
  <1>. QED
    BY <1>1, <1>2, <1>3, RequestMoves DEF Service!Reply, RequestMap

\* Every step of a request is one of ReviewService, or a stutter.
LEMMA RequestServed ==
    ASSUME OrderInvariant, NEW w \in Workers, Step(w)
    PROVE  [Service!Next]_(Service!stores)
  <1>1. TypeOK /\ WriteFits(w)
    BY DEF OrderInvariant, WritesFit
  <1>2. CASE \/ ReadOrigin(w) \/ AcceptRefused(w) \/ AcceptExists(w)
             \/ AcceptIdentifier(w) \/ CheckAgain(w)
    BY <1>1, <1>2, AcceptAsks DEF Service!Next
  <1>3. CASE RejectExists(w) \/ RejectIdentifier(w) \/ ReadPreferred(w)
    BY <1>1, <1>3, RejectAsks
  <1>4. CASE CommitInsert(w) \/ CommitUpdate(w) \/ CommitDelete(w)
    BY <1>4, TransactionRecords DEF Service!Next
  <1>5. CASE AQMSFails(w)
    <2>1. UNCHANGED <<netmag, cct>> /\ pc[w] \notin {"idle", "answer"} /\ Throw(w)
      BY <1>5 DEF AQMSFails, aqms
    <2>. QED
      BY <1>1, <2>1, ThrowGivesUp DEF Service!Next
  <1>6. CASE DecideCCT(w)
    BY <1>1, <1>6, DecideCloses DEF Service!Next
  <1>7. CASE Answer(w)
    BY <1>1, <1>7, AnswerReplies DEF Service!Next
  <1>. QED
    BY <1>2, <1>3, <1>4, <1>5, <1>6, <1>7 DEF Step

LEMMA ServiceStep == OrderInvariant /\ [Next]_vars => [Service!Next]_(Service!stores)
  <1>. SUFFICES ASSUME OrderInvariant, [Next]_vars
                PROVE  [Service!Next]_(Service!stores)
    OBVIOUS
  <1>1. ASSUME NEW w \in Workers, BeginAccept(w) \/ BeginReject(w)
        PROVE  [Service!Next]_(Service!stores)
    BY <1>1, BeginAsks DEF OrderInvariant, Service!Next
  <1>2. ASSUME UNCHANGED <<netmag, cct, pc, call>>
        PROVE  [Service!Next]_(Service!stores)
    BY <1>2 DEF Service!stores, RequestOf
  <1>3. CASE Crash
    <2>1. \A w \in Workers : RequestOf(w)' = Service!NoRequest
      BY <1>3 DEF Crash, RequestOf, Service!NoRequest
    <2>2. Service!Die
      BY <1>3, <2>1 DEF Crash, Service!Die, aqms
    <2>. QED
      BY <2>2 DEF Service!Next
  <1>. QED
    BY <1>1, <1>2, <1>3, RequestServed DEF Next, AQMSMoves, vars, aqms

LEMMA ServiceInit == Init => Service!Init
  BY DEF Init, AQMSInit, Service!Init, RequestOf, Service!NoRequest

\* The accept and reject branches implement ReviewService (callback.cpp:705-774,
\* 823-850): a request changes AQMS once, by one magnitude, then the CCT table
\* once, and no accept that met an exception is told success.  For any number of
\* io threads, with other programs at any time and queries that throw.
THEOREM OrderKept == Spec => WritesInOrder
  <1>1. OrderInvariant /\ [Next]_vars => [Service!Next]_(Service!stores)
    BY ServiceStep
  <1>. QED
    BY <1>1, ServiceInit, OrderHolds, PTL DEF Spec, WritesInOrder, Service!Spec

=============================================================================
