--------------------------- MODULE Review_proofs ---------------------------
(***************************************************************************)
(* Proofs about Review: types for any number of io threads, and, for the   *)
(* one that is the default, what an accept and a reject leave in the two   *)
(* databases, whatever fails and whenever the process dies.                *)
(*                                                                         *)
(* Two parts of the inductive invariant are kept apart.  RequestsFit holds *)
(* whatever other AQMS programs do.  CalmFits holds while they change the  *)
(* event only between requests (CalmSpec): then what a request has read    *)
(* is what AQMS still has.                                                 *)
(***************************************************************************)
EXTENDS Review, TLAPS

\* One io thread (--n_threads is 1 by default), and no query that throws on a
\* live connection: MCReviewAccept and MCReviewDuplicate show what breaks
\* without these.
Reliable == QueriesFail = FALSE /\ \A v, w \in Workers : v = w

\* Where an accept still has to write AQMS.
Searching == {"exists", "identifier", "insert", "update", "preferred", "transaction"}

\* What a request knows of the magnitude at each stage.
RequestFits(w) ==
    LET c == call[w] IN
    /\ pc[w] # "idle" => c.kind \in {"accept", "reject"}
    /\ pc[w] \in {"origin", "insert", "update"} => c.kind = "accept"
    /\ pc[w] = "existsAgain" => c.kind = "reject"
    /\ c.kind = "accept" =>
          /\ pc[w] \in Searching => c.origin \in Origins
          /\ pc[w] \in {"origin", "exists", "identifier", "insert"} => c.magid = None
          /\ pc[w] = "update" => c.magid \in Live
          /\ pc[w] \in {"preferred", "transaction"} => c.magid \in Live \cup {None}
          /\ pc[w] = "cct" => c.recorded /\ c.magid \in Live
          /\ pc[w] \notin {"idle", "answer"} => c.status = "failure"
          /\ pc[w] = "answer" /\ c.status = "success" =>
                c.recorded /\ c.magid \in Live /\ cct = "A"

RequestsFit == \A w \in Workers : RequestFits(w)

\* What a request has read is what AQMS has, when nobody else writes.
CalmFits(w) ==
    LET c == call[w] IN
    /\ c.kind = "accept" =>
          /\ pc[w] \in Searching => c.origin = prefor
          /\ pc[w] \in {"preferred", "transaction"} /\ c.magid = None => OnOrigin(c.origin) = {}
    /\ c.kind = "reject" =>
          /\ pc[w] \in {"preferred", "transaction"} => c.magid \in Live \cap OnOrigin(c.origin)
          /\ pc[w] = "cct" => OnOrigin(c.origin) = {}
          /\ pc[w] = "answer" /\ ~ c.failed => cct = "R" /\ OnOrigin(c.origin) = {}
    /\ pc[w] = "transaction" => c.current = prefmag

CallsCalm == \A w \in Workers : CalmFits(w)

\* AQMS as the requests keep it.
AQMSFits == OneMagnitudePerOrigin /\ PreferredExists

\* The inductive invariant, with and without other programs during a request.
ReviewInvariant == TypeOK /\ RequestsFit

CalmInvariant == ReviewInvariant /\ CallsCalm /\ AQMSFits

-----------------------------------------------------------------------------
(* Types, for any number of io threads and all constants *)

\* An io thread goes to another stage with what it has learnt.
LEMMA MoveTyped ==
    ASSUME TypeOK, NEW w \in Workers, NEW s \in Stages, NEW c \in Calls,
           Goto(w, s), Learn(w, c)
    PROVE  /\ pc' \in [Workers -> Stages] /\ call' \in [Workers -> Calls]
           /\ pc'[w] = s /\ call'[w] = c
  BY DEF TypeOK, Goto, Learn

\* Whether something is in a set is a truth value.
LEMMA MembershipBoolean == ASSUME NEW x, NEW S PROVE (x \in S) \in BOOLEAN
  OBVIOUS

\* NoCall, and what the actions make of a call, are calls.
LEMMA CallsTyped ==
    /\ NoCall \in Calls
    /\ \A kind \in {"accept", "reject"} : [NoCall EXCEPT !.kind = kind] \in Calls
    /\ \A c \in Calls :
          /\ \A o \in Origins : [c EXCEPT !.origin = o] \in Calls
          /\ \A m \in MagIds \cup {0, None} : [c EXCEPT !.magid = m] \in Calls
          /\ \A m \in MagIds \cup {0, None}, o \in Origins :
                [c EXCEPT !.magid = m, !.origin = o] \in Calls
          /\ \A m \in MagIds \cup {Foreign, None} : [c EXCEPT !.current = m] \in Calls
          /\ \A r \in BOOLEAN : [c EXCEPT !.recorded = r] \in Calls
          /\ \A r \in BOOLEAN, m \in MagIds \cup {0, None} :
                [c EXCEPT !.magid = m, !.recorded = r] \in Calls
          /\ \A st \in {"success", "failure"} :
                /\ [c EXCEPT !.status = st] \in Calls
                /\ [c EXCEPT !.failed = TRUE, !.status = st] \in Calls
  <1>1. NoCall \in Calls /\ \A kind \in {"accept", "reject"} : [NoCall EXCEPT !.kind = kind] \in Calls
    BY DEF NoCall, Calls
  <1>2. ASSUME NEW c \in Calls
        PROVE  /\ \A o \in Origins : [c EXCEPT !.origin = o] \in Calls
               /\ \A m \in MagIds \cup {0, None} : [c EXCEPT !.magid = m] \in Calls
               /\ \A m \in MagIds \cup {Foreign, None} : [c EXCEPT !.current = m] \in Calls
               /\ \A r \in BOOLEAN : [c EXCEPT !.recorded = r] \in Calls
               /\ [c EXCEPT !.failed = TRUE] \in Calls
               /\ \A st \in {"success", "failure"} : [c EXCEPT !.status = st] \in Calls
    BY DEF Calls
  <1>. QED
    BY <1>1, <1>2

\* An exception ends a request with a status.
LEMMA ThrowTyped ==
    ASSUME TypeOK, NEW w \in Workers, Throw(w)
    PROVE  /\ pc' \in [Workers -> Stages] /\ call' \in [Workers -> Calls]
           /\ pc'[w] = "answer"
           /\ call'[w] = [call[w] EXCEPT !.failed = TRUE,
                                         !.status = StatusAfter(call[w].kind, TRUE)]
  <1>1. call[w] \in Calls /\ StatusAfter(call[w].kind, TRUE) \in {"success", "failure"}
    BY DEF TypeOK, StatusAfter
  <1>2. [call[w] EXCEPT !.failed = TRUE, !.status = StatusAfter(call[w].kind, TRUE)] \in Calls
    BY <1>1, CallsTyped
  <1>. QED
    BY <1>2, MoveTyped DEF Throw, Stages

\* The answers of the queries are of their types.
LEMMA AnswersTyped ==
    ASSUME TypeOK
    PROVE  /\ ExistsAnswers \subseteq BOOLEAN
           /\ IdentifierAnswers \subseteq MagIds \cup {0, None}
           /\ PreferredAnswers \subseteq MagIds \cup {Foreign, None}
  BY DEF TypeOK, AQMSTypeOK, ExistsAnswers, IdentifierAnswers, PreferredAnswers, OnOrigin

\* The transactions keep the types of AQMS.
LEMMA TransactionsTyped ==
    ASSUME AQMSTypeOK, NEW m \in MagIds \cup {0, None},
           NEW current \in MagIds \cup {Foreign, None}, NEW o \in Origins \cup {None},
           \/ InsertTransaction(o, current)
           \/ m # None /\ UpdateTransaction(m, current)
           \/ DeleteTransaction(m, current)
    PROVE  AQMSTypeOK'
  <1>. USE AQMSAssumption DEF AQMSTypeOK
  <1>1. Candidates' \subseteq MagIds \cup {Foreign}
    BY DEF Candidates, Live
  <1>2. KeepPreferred(current) => prefmag' \in MagIds \cup {Foreign, None}
    BY <1>1 DEF KeepPreferred
  <1>3. CASE InsertTransaction(o, current)
    BY <1>2, <1>3 DEF InsertTransaction, MagIds
  <1>4. CASE m # None /\ UpdateTransaction(m, current)
    BY <1>2, <1>4 DEF UpdateTransaction
  <1>5. CASE DeleteTransaction(m, current)
    <2>1. netmag' \in [MagIds -> Origins \cup {None}]
      BY <1>5 DEF DeleteTransaction
    <2>2. prefmag' \in MagIds \cup {Foreign, None}
      BY <1>1, <1>5 DEF DeleteTransaction
    <2>. QED
      BY <1>5, <2>1, <2>2 DEF DeleteTransaction
  <1>. QED
    BY <1>3, <1>4, <1>5

\* The steps of a request.
LEMMA StepTyped ==
    ASSUME TypeOK, NEW w \in Workers, BeginAccept(w) \/ BeginReject(w) \/ Step(w)
    PROVE  TypeOK'
  <1>. USE CallsTyped, AnswersTyped, MoveTyped, ThrowTyped
  <1>1. call[w] \in Calls /\ AQMSTypeOK /\ prefor \in Origins
    BY DEF TypeOK, AQMSTypeOK
  <1>2. aqms' = aqms => AQMSTypeOK'
    BY <1>1 DEF AQMSTypeOK, aqms
  <1>3. CASE BeginAccept(w)
    BY <1>2, <1>3 DEF BeginAccept, TypeOK, Stages
  <1>4. CASE BeginReject(w)
    BY <1>2, <1>4 DEF BeginReject, TypeOK, Stages
  <1>5. CASE ReadOrigin(w)
    BY <1>1, <1>2, <1>5 DEF ReadOrigin, TypeOK, Stages
  <1>6. CASE AcceptRefused(w)
    BY <1>2, <1>6 DEF AcceptRefused, TypeOK
  <1>7. CASE AcceptExists(w)
    BY <1>2, <1>7 DEF AcceptExists, Goto, TypeOK, Stages
  <1>8. CASE AcceptIdentifier(w)
    <2>1. PICK m \in IdentifierAnswers : /\ Goto(w, IF m = None THEN "insert" ELSE "update")
                                         /\ Learn(w, [call[w] EXCEPT !.magid = m])
      BY <1>8 DEF AcceptIdentifier
    <2>2. [call[w] EXCEPT !.magid = m] \in Calls
      BY <1>1
    <2>. QED
      BY <1>2, <1>8, <2>1, <2>2 DEF AcceptIdentifier, TypeOK, Stages
  <1>9. CASE CheckAgain(w)
    <2>1. CASE Goto(w, "preferred") /\ UNCHANGED call
      BY <1>2, <1>9, <2>1 DEF CheckAgain, Goto, TypeOK, Stages
    <2>2. CASE Throw(w)
      BY <1>2, <1>9, <2>2 DEF CheckAgain, TypeOK
    <2>. QED
      BY <1>9, <2>1, <2>2 DEF CheckAgain
  <1>10. CASE RejectExists(w)
    <2>1. [call[w] EXCEPT !.origin = prefor] \in Calls
      BY <1>1
    <2>. QED
      BY <1>2, <1>10, <2>1 DEF RejectExists, TypeOK, Stages
  <1>11. CASE RejectIdentifier(w)
    <2>1. PICK m \in IdentifierAnswers :
             /\ Goto(w, IF m = None THEN "cct" ELSE "preferred")
             /\ Learn(w, [call[w] EXCEPT !.magid = m, !.origin = prefor])
      BY <1>11 DEF RejectIdentifier
    <2>2. [call[w] EXCEPT !.magid = m, !.origin = prefor] \in Calls
      BY <1>1
    <2>. QED
      BY <1>2, <1>11, <2>1, <2>2 DEF RejectIdentifier, TypeOK, Stages
  <1>12. CASE ReadPreferred(w)
    <2>1. PICK current \in PreferredAnswers : Learn(w, [call[w] EXCEPT !.current = current])
      BY <1>12 DEF ReadPreferred
    <2>2. [call[w] EXCEPT !.current = current] \in Calls
      BY <1>1
    <2>. QED
      BY <1>2, <1>12, <2>1, <2>2 DEF ReadPreferred, TypeOK, Stages
  <1>13. CASE CommitInsert(w)
    <2>1. call[w].origin \in Origins \cup {None} /\ call[w].current \in MagIds \cup {Foreign, None}
      BY <1>1 DEF Calls
    <2>2. AQMSTypeOK'
      BY <1>1, <1>13, <2>1, TransactionsTyped DEF CommitInsert
    <2>3. nextMag \in MagIds
      BY <1>13 DEF CommitInsert, InsertTransaction
    <2>4. [call[w] EXCEPT !.magid = nextMag, !.recorded = TRUE] \in Calls
      BY <1>1, <2>3
    <2>. QED
      BY <1>13, <2>2, <2>4 DEF CommitInsert, TypeOK, Stages
  <1>14. CASE CommitUpdate(w) \/ CommitDelete(w)
    <2>1. /\ call[w].magid \in MagIds \cup {0, None}
          /\ call[w].current \in MagIds \cup {Foreign, None}
      BY <1>1 DEF Calls
    <2>2. AQMSTypeOK'
      BY <1>1, <1>14, <2>1, TransactionsTyped DEF CommitUpdate, CommitDelete
    <2>3. \A r \in BOOLEAN : [call[w] EXCEPT !.recorded = r] \in Calls
      BY <1>1
    <2>4. [call[w] EXCEPT !.recorded = call[w].magid \in Live] \in Calls
      <3>. DEFINE r == call[w].magid \in Live
      <3>1. r \in BOOLEAN
        BY MembershipBoolean
      <3>. HIDE DEF r
      <3>2. [call[w] EXCEPT !.recorded = r] \in Calls
        BY <2>3, <3>1
      <3>. QED
        BY <3>2 DEF r
    <2>. QED
      BY <1>14, <2>2, <2>4 DEF CommitUpdate, CommitDelete, TypeOK, Stages
  <1>15. CASE AQMSFails(w)
    BY <1>2, <1>15 DEF AQMSFails, TypeOK
  <1>16. CASE DecideCCT(w)
    <2>1. cct' \in {"U", "A", "R"}
      BY <1>16 DEF DecideCCT, TypeOK
    <2>2. [call[w] EXCEPT !.status = StatusAfter(call[w].kind, FALSE)] \in Calls
      BY <1>1 DEF StatusAfter
    <2>. QED
      BY <1>2, <1>16, <2>1, <2>2 DEF DecideCCT, TypeOK, Stages
  <1>17. CASE Answer(w)
    BY <1>2, <1>17 DEF Answer, TypeOK, Stages
  <1>. QED
    BY <1>3, <1>4, <1>5, <1>6, <1>7, <1>8, <1>9, <1>10, <1>11, <1>12, <1>13, <1>14, <1>15,
       <1>16, <1>17 DEF Step

\* The other steps: other programs, a crash, a stutter.
LEMMA OthersTyped ==
    ASSUME TypeOK,
           \/ AQMSMoves /\ UNCHANGED <<cct, pc, call>>
           \/ Crash
           \/ UNCHANGED vars
    PROVE  TypeOK'
  <1>1. CASE AQMSMoves /\ UNCHANGED <<cct, pc, call>>
    BY <1>1, AQMSAssumption DEF AQMSMoves, TypeOK, AQMSTypeOK, Candidates, Live
  <1>2. CASE Crash
    BY <1>2, CallsTyped DEF Crash, TypeOK, AQMSTypeOK, aqms, Stages
  <1>3. CASE UNCHANGED vars
    BY <1>3 DEF TypeOK, AQMSTypeOK, aqms, vars
  <1>. QED
    BY <1>1, <1>2, <1>3

\* Both databases start within their types.
LEMMA InitTyped == Init => TypeOK
  <1>. SUFFICES ASSUME Init PROVE TypeOK
    OBVIOUS
  <1>1. AQMSTypeOK
    BY AQMSAssumption DEF Init, AQMSInit, AQMSTypeOK, MagIds
  <1>2. call \in [Workers -> Calls]
    BY CallsTyped DEF Init
  <1>. QED
    BY <1>1, <1>2 DEF Init, TypeOK, Stages

\* Every variable keeps its type, for any number of io threads.
THEOREM TypeCorrect == Spec => []TypeOK
  <1>1. TypeOK /\ [Next]_vars => TypeOK'
    BY StepTyped, OthersTyped DEF Next
  <1>. QED
    BY <1>1, InitTyped, PTL DEF Spec

-----------------------------------------------------------------------------
(* What a request knows *)

\* Where an io thread stands after its step, and what it has learnt.
LEMMA Moved ==
    ASSUME TypeOK, NEW w \in Workers, NEW s, NEW c
    PROVE  /\ Goto(w, s) => pc'[w] = s
           /\ Learn(w, c) => call'[w] = c
  BY DEF TypeOK, Goto, Learn

\* The request of the only io thread is every request.
LEMMA OnlyThread ==
    ASSUME Reliable, NEW w \in Workers
    PROVE  /\ RequestFits(w)' => RequestsFit'
           /\ CalmFits(w)' => CallsCalm'
  BY DEF Reliable, RequestsFit, CallsCalm

\* A query on a live connection that does not throw answers what is there.
LEMMA AnswersTrue ==
    ASSUME Reliable, TypeOK
    PROVE  /\ \A found \in ExistsAnswers : found <=> OnOrigin(prefor) # {}
           /\ \A m \in IdentifierAnswers :
                 IF OnOrigin(prefor) = {} THEN m = None ELSE m \in OnOrigin(prefor)
           /\ \A m \in PreferredAnswers : m = prefmag
           /\ OnOrigin(prefor) \subseteq Live
           /\ None \notin OnOrigin(prefor)
  BY AQMSAssumption DEF Reliable, ExistsAnswers, IdentifierAnswers, PreferredAnswers, OnOrigin, Live,
         TypeOK, AQMSTypeOK

\* An exception leaves an accept with a failure.
LEMMA ThrowFits ==
    ASSUME TypeOK, NEW w \in Workers, RequestFits(w), pc[w] # "idle", Throw(w)
    PROVE  RequestFits(w)' /\ CalmFits(w)'
  <1>1. call[w] \in Calls
    BY DEF TypeOK
  <1>2. /\ call'[w].kind = call[w].kind /\ call'[w].failed = TRUE
        /\ call'[w].status = StatusAfter(call[w].kind, TRUE)
    BY <1>1, ThrowTyped DEF Calls
  <1>3. call'[w].kind = "accept" => call'[w].status = "failure"
    BY <1>2 DEF StatusAfter
  <1>. QED
    BY <1>2, <1>3, ThrowTyped DEF RequestFits, CalmFits, Searching

\* A new request knows nothing.
LEMMA BeginFits ==
    ASSUME TypeOK, NEW w \in Workers, BeginAccept(w) \/ BeginReject(w)
    PROVE  RequestFits(w)' /\ CalmFits(w)'
  <1>1. CASE BeginAccept(w)
    <2>1. pc'[w] = "origin" /\ call'[w] = [NoCall EXCEPT !.kind = "accept"]
      BY <1>1, Moved DEF BeginAccept
    <2>. QED
      BY <2>1 DEF RequestFits, CalmFits, NoCall, Searching
  <1>2. CASE BeginReject(w)
    <2>1. pc'[w] = "exists" /\ call'[w] = [NoCall EXCEPT !.kind = "reject"]
      BY <1>2, Moved DEF BeginReject
    <2>. QED
      BY <2>1 DEF RequestFits, CalmFits, NoCall, Searching
  <1>. QED
    BY <1>1, <1>2

\* The search for the magnitude of an accept.
LEMMA AcceptSearchFits ==
    ASSUME Reliable, TypeOK, NEW w \in Workers, RequestFits(w),
           \/ ReadOrigin(w) \/ AcceptRefused(w) \/ AcceptExists(w)
           \/ AcceptIdentifier(w) \/ CheckAgain(w)
    PROVE  RequestFits(w)'
  <1>1. call[w] \in Calls /\ prefor \in Origins
    BY DEF TypeOK, AQMSTypeOK
  <1>2. Live' = Live
    BY DEF ReadOrigin, AcceptRefused, AcceptExists, AcceptIdentifier, CheckAgain, aqms, Live
  <1>3. CASE ReadOrigin(w)
    <2>1. pc'[w] = "exists" /\ call'[w] = [call[w] EXCEPT !.origin = prefor]
      BY <1>3, Moved DEF ReadOrigin
    <2>. QED
      BY <1>1, <1>3, <2>1 DEF ReadOrigin, RequestFits, Calls, Searching
  <1>4. CASE AcceptRefused(w)
    BY <1>4, ThrowFits DEF AcceptRefused
  <1>5. CASE AcceptExists(w)
    <2>1. pc'[w] \in {"identifier", "insert"} /\ call'[w] = call[w]
      BY <1>5, Moved DEF AcceptExists
    <2>. QED
      BY <1>5, <2>1 DEF AcceptExists, At, RequestFits, Searching
  <1>6. CASE AcceptIdentifier(w)
    <2>1. PICK m \in IdentifierAnswers :
             /\ pc'[w] = IF m = None THEN "insert" ELSE "update"
             /\ call'[w] = [call[w] EXCEPT !.magid = m]
      BY <1>6, Moved DEF AcceptIdentifier
    <2>2. m = None \/ m \in Live
      BY AnswersTrue
    <2>. QED
      BY <1>1, <1>2, <1>6, <2>1, <2>2 DEF AcceptIdentifier, At, RequestFits, Calls, Searching
  <1>7. CASE CheckAgain(w)
    <2>1. CASE Goto(w, "preferred") /\ UNCHANGED call
      <3>1. pc'[w] = "preferred" /\ call'[w] = call[w]
        BY <2>1, Moved
      <3>. QED
        BY <1>2, <1>7, <3>1 DEF CheckAgain, RequestFits, Searching
    <2>2. CASE Throw(w)
      BY <1>7, <2>2, ThrowFits DEF CheckAgain
    <2>. QED
      BY <1>7, <2>1, <2>2 DEF CheckAgain
  <1>. QED
    BY <1>3, <1>4, <1>5, <1>6, <1>7

\* The questions of a reject, and the last one of both before a transaction.
LEMMA QuestionsFit ==
    ASSUME TypeOK, NEW w \in Workers, RequestFits(w),
           RejectExists(w) \/ RejectIdentifier(w) \/ ReadPreferred(w)
    PROVE  RequestFits(w)'
  <1>1. call[w] \in Calls
    BY DEF TypeOK
  <1>2. Live' = Live
    BY DEF RejectExists, RejectIdentifier, ReadPreferred, aqms, Live
  <1>3. CASE RejectExists(w)
    <2>1. pc'[w] \in {"cct", "existsAgain", "identifier"} /\ call'[w] = [call[w] EXCEPT !.origin = prefor]
      BY <1>3, Moved DEF RejectExists
    <2>. QED
      BY <1>1, <1>3, <2>1 DEF RejectExists, RequestFits, Calls
  <1>4. CASE RejectIdentifier(w)
    <2>1. PICK m \in IdentifierAnswers :
             /\ pc'[w] \in {"cct", "preferred"}
             /\ call'[w] = [call[w] EXCEPT !.magid = m, !.origin = prefor]
      BY <1>4, Moved DEF RejectIdentifier
    <2>. QED
      BY <1>1, <1>4, <2>1 DEF RejectIdentifier, At, RequestFits, Calls
  <1>5. CASE ReadPreferred(w)
    <2>1. PICK current \in PreferredAnswers :
             pc'[w] = "transaction" /\ call'[w] = [call[w] EXCEPT !.current = current]
      BY <1>5, Moved DEF ReadPreferred
    <2>. QED
      BY <1>1, <1>2, <1>5, <2>1 DEF ReadPreferred, RequestFits, Calls, Searching
  <1>. QED
    BY <1>3, <1>4, <1>5

\* A transaction that commits leaves the magnitude of an accept in AQMS.
LEMMA TransactionsFit ==
    ASSUME TypeOK, NEW w \in Workers, RequestFits(w),
           CommitInsert(w) \/ CommitUpdate(w) \/ CommitDelete(w)
    PROVE  RequestFits(w)'
  <1>1. call[w] \in Calls
    BY DEF TypeOK
  <1>2. CASE CommitInsert(w)
    <2>1. pc'[w] = "cct" /\ call'[w] = [call[w] EXCEPT !.magid = nextMag, !.recorded = TRUE]
      BY <1>2, Moved DEF CommitInsert
    <2>2. call[w].origin \in Origins
      BY <1>2 DEF CommitInsert, At, RequestFits, Searching
    <2>3. nextMag \in Live'
      BY <1>2, <2>2, AQMSAssumption DEF CommitInsert, InsertTransaction, Live, TypeOK, AQMSTypeOK
    <2>. QED
      BY <1>1, <1>2, <2>1, <2>3 DEF CommitInsert, At, RequestFits, Calls, Searching
  <1>3. CASE CommitUpdate(w)
    <2>1. pc'[w] = "cct" /\ call'[w] = [call[w] EXCEPT !.recorded = call[w].magid \in Live]
      BY <1>3, Moved DEF CommitUpdate
    <2>2. call[w].magid \in Live /\ Live' = Live
      BY <1>3 DEF CommitUpdate, UpdateTransaction, At, RequestFits, Live
    <2>. QED
      BY <1>1, <1>3, <2>1, <2>2 DEF CommitUpdate, At, RequestFits, Calls, Searching
  <1>4. CASE CommitDelete(w)
    <2>1. pc'[w] = "cct" /\ call'[w] = [call[w] EXCEPT !.recorded = call[w].magid \in Live]
      BY <1>4, Moved DEF CommitDelete
    <2>. QED
      BY <1>1, <1>4, <2>1 DEF CommitDelete, At, RequestFits, Calls
  <1>. QED
    BY <1>2, <1>3, <1>4

\* The CCT table and the answer.
LEMMA EndFits ==
    ASSUME TypeOK, NEW w \in Workers, RequestFits(w),
           AQMSFails(w) \/ DecideCCT(w) \/ Answer(w)
    PROVE  RequestFits(w)'
  <1>1. call[w] \in Calls
    BY DEF TypeOK
  <1>2. CASE AQMSFails(w)
    BY <1>2, ThrowFits DEF AQMSFails
  <1>3. CASE DecideCCT(w)
    <2>1. CASE Throw(w)
      BY <1>3, <2>1, ThrowFits DEF DecideCCT
    <2>2. CASE /\ cct' = IF call[w].kind = "accept" THEN "A" ELSE "R"
               /\ Goto(w, "answer")
               /\ Learn(w, [call[w] EXCEPT !.status = StatusAfter(call[w].kind, FALSE)])
      <3>1. /\ pc'[w] = "answer"
            /\ call'[w] = [call[w] EXCEPT !.status = StatusAfter(call[w].kind, FALSE)]
        BY <2>2, Moved
      <3>2. Live' = Live
        BY <1>3 DEF DecideCCT, aqms, Live
      <3>. QED
        BY <1>1, <1>3, <2>2, <3>1, <3>2 DEF DecideCCT, RequestFits, Calls, Searching
    <2>. QED
      BY <1>3, <2>1, <2>2 DEF DecideCCT
  <1>4. CASE Answer(w)
    <2>1. pc'[w] = "idle" /\ call'[w] = NoCall
      BY <1>4, Moved DEF Answer
    <2>. QED
      BY <2>1 DEF RequestFits, NoCall, Searching
  <1>. QED
    BY <1>2, <1>3, <1>4

\* What an io thread knows is not disturbed by what is not its own step.
LEMMA OthersFit ==
    ASSUME TypeOK, RequestsFit,
           \/ AQMSMoves /\ UNCHANGED <<cct, pc, call>>
           \/ Crash
           \/ UNCHANGED vars
    PROVE  RequestsFit'
  <1>1. CASE Crash
    <2>1. \A w \in Workers : pc'[w] = "idle" /\ call'[w] = NoCall
      BY <1>1 DEF Crash
    <2>. QED
      BY <2>1 DEF RequestsFit, RequestFits, NoCall, Searching
  <1>2. CASE UNCHANGED <<netmag, cct, pc, call>>
    BY <1>2 DEF RequestsFit, RequestFits, Live
  <1>. QED
    BY <1>1, <1>2 DEF AQMSMoves, vars, aqms

\* The invariant holds, whatever other programs do.
LEMMA ReviewStep ==
    ASSUME Reliable
    PROVE  ReviewInvariant /\ [Next]_vars => ReviewInvariant'
  <1>. SUFFICES ASSUME ReviewInvariant, [Next]_vars
                PROVE  ReviewInvariant'
    OBVIOUS
  <1>. USE DEF ReviewInvariant
  <1>1. TypeOK'
    BY StepTyped, OthersTyped DEF Next
  <1>2. ASSUME NEW w \in Workers, BeginAccept(w) \/ BeginReject(w) \/ Step(w)
        PROVE  RequestsFit'
    <2>1. RequestFits(w)
      BY DEF RequestsFit
    <2>2. RequestFits(w)'
      BY <1>2, <2>1, BeginFits, AcceptSearchFits, QuestionsFit, TransactionsFit, EndFits DEF Step
    <2>. QED
      BY <2>2, OnlyThread
  <1>3. RequestsFit'
    BY <1>2, OthersFit DEF Next
  <1>. QED
    BY <1>1, <1>3

\* No request is under way when the backend starts.
LEMMA InitFits == Init => ReviewInvariant
  BY InitTyped DEF Init, ReviewInvariant, RequestsFit, RequestFits, NoCall, Searching

LEMMA InvariantHolds == ASSUME Reliable PROVE Spec => []ReviewInvariant
  <1>1. Init => ReviewInvariant
    BY InitFits
  <1>2. ReviewInvariant /\ [Next]_vars => ReviewInvariant'
    BY ReviewStep
  <1>. QED
    BY <1>1, <1>2, PTL DEF Spec

\* An accept that is answered with success is in both databases
\* (callback.cpp:705-760), also when the event is relocated while it runs.
THEOREM AcceptIsRecorded == ASSUME Reliable PROVE Spec => []AcceptRecorded
  <1>1. ReviewInvariant => AcceptRecorded
    BY DEF ReviewInvariant, RequestsFit, RequestFits, AcceptRecorded, At
  <1>2. Spec => []ReviewInvariant
    BY InvariantHolds
  <1>. QED
    BY <1>1, <1>2, PTL

-----------------------------------------------------------------------------
(* Other programs between the requests only *)

\* The search for the magnitude of an accept: what it has read is still so.
LEMMA AcceptSearchCalm ==
    ASSUME Reliable, TypeOK, NEW w \in Workers, RequestFits(w), CalmFits(w),
           \/ ReadOrigin(w) \/ AcceptRefused(w) \/ AcceptExists(w)
           \/ AcceptIdentifier(w) \/ CheckAgain(w)
    PROVE  CalmFits(w)'
  <1>1. call[w] \in Calls
    BY DEF TypeOK
  <1>2. prefor' = prefor /\ \A o : OnOrigin(o)' = OnOrigin(o)
    BY DEF ReadOrigin, AcceptRefused, AcceptExists, AcceptIdentifier, CheckAgain, aqms, OnOrigin
  <1>3. CASE ReadOrigin(w)
    <2>1. pc'[w] = "exists" /\ call'[w] = [call[w] EXCEPT !.origin = prefor]
      BY <1>3, Moved DEF ReadOrigin
    <2>. QED
      BY <1>1, <1>2, <1>3, <2>1 DEF ReadOrigin, RequestFits, CalmFits, Calls
  <1>4. CASE AcceptRefused(w)
    BY <1>4, ThrowFits DEF AcceptRefused
  <1>5. CASE AcceptExists(w)
    <2>1. pc'[w] \in {"identifier", "insert"} /\ call'[w] = call[w]
      BY <1>5, Moved DEF AcceptExists
    <2>. QED
      BY <1>2, <1>5, <2>1 DEF AcceptExists, At, CalmFits, Searching
  <1>6. CASE AcceptIdentifier(w)
    <2>1. PICK m \in IdentifierAnswers :
             /\ pc'[w] \in {"insert", "update"}
             /\ call'[w] = [call[w] EXCEPT !.magid = m]
      BY <1>6, Moved DEF AcceptIdentifier
    <2>. QED
      BY <1>1, <1>2, <1>6, <2>1 DEF AcceptIdentifier, At, CalmFits, Calls, Searching
  <1>7. CASE CheckAgain(w)
    <2>1. ASSUME NEW found \in ExistsAnswers, found = (pc[w] = "update"),
                 Goto(w, "preferred"), UNCHANGED call
          PROVE  CalmFits(w)'
      <3>1. pc'[w] = "preferred" /\ call'[w] = call[w]
        BY <2>1, Moved
      <3>2. call[w].kind = "accept" /\ call[w].origin = prefor
        BY <1>7 DEF CheckAgain, RequestFits, CalmFits, Searching
      <3>3. CASE pc[w] = "update"
        <4>1. call[w].magid # None
          BY <3>2, <3>3, AQMSAssumption DEF RequestFits, Live
        <4>. QED
          BY <1>2, <3>1, <3>2, <4>1 DEF CalmFits
      <3>4. CASE pc[w] = "insert"
        <4>1. OnOrigin(prefor) = {}
          BY <2>1, <3>4, AnswersTrue
        <4>. QED
          BY <1>2, <3>1, <3>2, <4>1 DEF CalmFits
      <3>. QED
        BY <1>7, <3>3, <3>4 DEF CheckAgain
    <2>2. CASE Throw(w)
      BY <1>7, <2>2, ThrowFits DEF CheckAgain
    <2>. QED
      BY <1>7, <2>1, <2>2 DEF CheckAgain
  <1>. QED
    BY <1>3, <1>4, <1>5, <1>6, <1>7

\* The questions of a reject, and the last one of both before a transaction.
LEMMA QuestionsCalm ==
    ASSUME Reliable, TypeOK, NEW w \in Workers, RequestFits(w), CalmFits(w),
           RejectExists(w) \/ RejectIdentifier(w) \/ ReadPreferred(w)
    PROVE  CalmFits(w)'
  <1>1. call[w] \in Calls
    BY DEF TypeOK
  <1>2. /\ prefor' = prefor /\ prefmag' = prefmag /\ Live' = Live
        /\ \A o : OnOrigin(o)' = OnOrigin(o)
    BY DEF RejectExists, RejectIdentifier, ReadPreferred, aqms, OnOrigin, Live
  <1>3. CASE RejectExists(w)
    <2>1. PICK found \in ExistsAnswers :
             Goto(w, IF ~ found THEN "cct"
                     ELSE IF pc[w] = "exists" THEN "existsAgain" ELSE "identifier")
      BY <1>3 DEF RejectExists
    <2>2. /\ pc'[w] = IF ~ found THEN "cct"
                      ELSE IF pc[w] = "exists" THEN "existsAgain" ELSE "identifier"
          /\ call'[w] = [call[w] EXCEPT !.origin = prefor]
      BY <1>3, <2>1, Moved DEF RejectExists
    <2>3. ~ found => OnOrigin(prefor) = {}
      BY AnswersTrue
    <2>. QED
      BY <1>1, <1>2, <1>3, <2>2, <2>3 DEF RejectExists, CalmFits, Calls
  <1>4. CASE RejectIdentifier(w)
    <2>1. PICK m \in IdentifierAnswers :
             /\ Goto(w, IF m = None THEN "cct" ELSE "preferred")
             /\ Learn(w, [call[w] EXCEPT !.magid = m, !.origin = prefor])
      BY <1>4 DEF RejectIdentifier
    <2>2. /\ pc'[w] = IF m = None THEN "cct" ELSE "preferred"
          /\ call'[w] = [call[w] EXCEPT !.magid = m, !.origin = prefor]
      BY <2>1, Moved
    <2>3. IF m = None THEN OnOrigin(prefor) = {} ELSE m \in Live \cap OnOrigin(prefor)
      BY AnswersTrue
    <2>. QED
      BY <1>1, <1>2, <1>4, <2>2, <2>3 DEF RejectIdentifier, At, CalmFits, Calls
  <1>5. CASE ReadPreferred(w)
    <2>1. PICK current \in PreferredAnswers :
             pc'[w] = "transaction" /\ call'[w] = [call[w] EXCEPT !.current = current]
      BY <1>5, Moved DEF ReadPreferred
    <2>2. current = prefmag
      BY AnswersTrue
    <2>. QED
      BY <1>1, <1>2, <1>5, <2>1, <2>2 DEF ReadPreferred, CalmFits, Calls, Searching
  <1>. QED
    BY <1>3, <1>4, <1>5

\* What is no transaction leaves AQMS as the requests keep it.
LEMMA NoTransactionKeeps ==
    ASSUME AQMSFits, UNCHANGED <<netmag, prefmag, eventprefmag>>
    PROVE  AQMSFits'
  BY DEF AQMSFits, OneMagnitudePerOrigin, PreferredExists, Live, Candidates

\* The insert finds the origin without a magnitude.
LEMMA InsertCalm ==
    ASSUME TypeOK, NEW w \in Workers, RequestFits(w), CalmFits(w), AQMSFits, CommitInsert(w)
    PROVE  AQMSFits' /\ CalmFits(w)'
  <1>1. /\ call[w] \in Calls /\ At(w, "accept", "transaction") /\ call[w].magid = None
        /\ InsertTransaction(call[w].origin, call[w].current)
    BY DEF CommitInsert, TypeOK
  <1>2. /\ call[w].origin \in Origins /\ OnOrigin(call[w].origin) = {}
        /\ call[w].current = prefmag
    BY <1>1 DEF At, RequestFits, CalmFits, Searching
  <1>3. /\ nextMag \in MagIds /\ netmag' = [netmag EXCEPT ![nextMag] = call[w].origin]
        /\ netmag \in [MagIds -> Origins \cup {None}]
    BY <1>1 DEF InsertTransaction, TypeOK, AQMSTypeOK
  <1>4. Live' = Live \cup {nextMag}
    BY <1>2, <1>3, AQMSAssumption DEF Live
  <1>5. OneMagnitudePerOrigin'
    BY <1>2, <1>3 DEF AQMSFits, OneMagnitudePerOrigin, Live, OnOrigin
  <1>6. PreferredExists'
    BY <1>1, <1>2, <1>4
       DEF AQMSFits, PreferredExists, InsertTransaction, KeepPreferred, Candidates
  <1>7. pc'[w] = "cct" /\ call'[w] = [call[w] EXCEPT !.magid = nextMag, !.recorded = TRUE]
    BY Moved DEF CommitInsert
  <1>8. CalmFits(w)'
    BY <1>1, <1>7 DEF At, CalmFits, Calls, Searching
  <1>. QED
    BY <1>5, <1>6, <1>8 DEF AQMSFits

\* The update changes a magnitude that is there.
LEMMA UpdateCalm ==
    ASSUME TypeOK, NEW w \in Workers, RequestFits(w), CalmFits(w), AQMSFits, CommitUpdate(w)
    PROVE  AQMSFits' /\ CalmFits(w)'
  <1>1. /\ call[w] \in Calls /\ At(w, "accept", "transaction")
        /\ UpdateTransaction(call[w].magid, call[w].current)
    BY DEF CommitUpdate, TypeOK
  <1>2. call[w].magid \in Live /\ call[w].current = prefmag
    BY DEF CommitUpdate, At, RequestFits, CalmFits
  <1>3. netmag' = netmag /\ Live' = Live
    BY <1>1 DEF UpdateTransaction, Live
  <1>4. OneMagnitudePerOrigin'
    BY <1>3 DEF AQMSFits, OneMagnitudePerOrigin
  <1>5. PreferredExists'
    BY <1>1, <1>2, <1>3
       DEF AQMSFits, PreferredExists, UpdateTransaction, KeepPreferred, Candidates
  <1>6. pc'[w] = "cct" /\ call'[w] = [call[w] EXCEPT !.recorded = call[w].magid \in Live]
    BY Moved DEF CommitUpdate
  <1>7. CalmFits(w)'
    BY <1>1, <1>6 DEF At, CalmFits, Calls, Searching
  <1>. QED
    BY <1>4, <1>5, <1>7 DEF AQMSFits

\* The delete takes the only magnitude of the origin.
LEMMA DeleteCalm ==
    ASSUME TypeOK, NEW w \in Workers, CalmFits(w), AQMSFits, CommitDelete(w)
    PROVE  AQMSFits' /\ CalmFits(w)'
  <1>. DEFINE m == call[w].magid
              o == call[w].origin
  <1>1. /\ call[w] \in Calls /\ At(w, "reject", "transaction")
        /\ DeleteTransaction(m, call[w].current)
    BY DEF CommitDelete, TypeOK
  <1>2. m \in Live /\ netmag[m] = o /\ o # None /\ call[w].current = prefmag
    BY <1>1 DEF At, CalmFits, Live, OnOrigin
  <1>3. /\ netmag' = [x \in MagIds |-> IF x = m THEN None ELSE netmag[x]]
        /\ Live' = Live \ {m}
    BY <1>1 DEF DeleteTransaction, Live
  <1>4. OneMagnitudePerOrigin'
    BY <1>3 DEF AQMSFits, OneMagnitudePerOrigin, Live
  <1>5. PreferredExists'
    BY <1>1, <1>2, <1>3, AQMSAssumption
       DEF AQMSFits, PreferredExists, DeleteTransaction, Candidates, Live
  <1>6. {x \in MagIds : netmag'[x] = o} = {}
    BY <1>2, <1>3 DEF AQMSFits, OneMagnitudePerOrigin, Live
  <1>7. pc'[w] = "cct" /\ call'[w] = [call[w] EXCEPT !.recorded = m \in Live]
    BY Moved DEF CommitDelete
  <1>8. call'[w].kind = "reject" /\ call'[w].origin = o
    BY <1>1, <1>7 DEF At, Calls
  <1>9. CalmFits(w)'
    BY <1>6, <1>7, <1>8 DEF CalmFits, OnOrigin
  <1>. QED
    BY <1>4, <1>5, <1>9 DEF AQMSFits

\* The CCT table and the answer.
LEMMA EndCalm ==
    ASSUME TypeOK, NEW w \in Workers, RequestFits(w), CalmFits(w),
           AQMSFails(w) \/ DecideCCT(w) \/ Answer(w)
    PROVE  CalmFits(w)'
  <1>1. call[w] \in Calls
    BY DEF TypeOK
  <1>2. CASE AQMSFails(w)
    BY <1>2, ThrowFits DEF AQMSFails
  <1>3. CASE DecideCCT(w)
    <2>1. CASE Throw(w)
      BY <1>3, <2>1, ThrowFits DEF DecideCCT
    <2>2. CASE /\ cct' = IF call[w].kind = "accept" THEN "A" ELSE "R"
               /\ Goto(w, "answer")
               /\ Learn(w, [call[w] EXCEPT !.status = StatusAfter(call[w].kind, FALSE)])
      <3>1. /\ pc'[w] = "answer"
            /\ call'[w] = [call[w] EXCEPT !.status = StatusAfter(call[w].kind, FALSE)]
        BY <2>2, Moved
      <3>2. \A o : OnOrigin(o)' = OnOrigin(o)
        BY <1>3 DEF DecideCCT, aqms, OnOrigin
      <3>. QED
        BY <1>1, <1>3, <2>2, <3>1, <3>2 DEF DecideCCT, CalmFits, Calls, Searching
    <2>. QED
      BY <1>3, <2>1, <2>2 DEF DecideCCT
  <1>4. CASE Answer(w)
    <2>1. pc'[w] = "idle" /\ call'[w] = NoCall
      BY <1>4, Moved DEF Answer
    <2>. QED
      BY <2>1 DEF CalmFits, NoCall, Searching
  <1>. QED
    BY <1>2, <1>3, <1>4

\* A step of a request keeps the calm invariant.
LEMMA RequestCalm ==
    ASSUME Reliable, CalmInvariant, NEW w \in Workers,
           BeginAccept(w) \/ BeginReject(w) \/ Step(w)
    PROVE  CallsCalm' /\ AQMSFits'
  <1>1. TypeOK /\ RequestFits(w) /\ CalmFits(w) /\ AQMSFits
    BY DEF CalmInvariant, ReviewInvariant, RequestsFit, CallsCalm
  <1>2. CASE CommitInsert(w) \/ CommitUpdate(w) \/ CommitDelete(w)
    BY <1>1, <1>2, InsertCalm, UpdateCalm, DeleteCalm, OnlyThread
  <1>3. CASE BeginAccept(w) \/ BeginReject(w)
    <2>1. UNCHANGED aqms
      BY <1>3 DEF BeginAccept, BeginReject
    <2>. QED
      BY <1>1, <1>3, <2>1, BeginFits, NoTransactionKeeps, OnlyThread DEF aqms
  <1>4. CASE \/ ReadOrigin(w) \/ AcceptRefused(w) \/ AcceptExists(w)
             \/ AcceptIdentifier(w) \/ CheckAgain(w)
    <2>1. UNCHANGED aqms
      BY <1>4 DEF ReadOrigin, AcceptRefused, AcceptExists, AcceptIdentifier, CheckAgain
    <2>. QED
      BY <1>1, <1>4, <2>1, AcceptSearchCalm, NoTransactionKeeps, OnlyThread DEF aqms
  <1>5. CASE RejectExists(w) \/ RejectIdentifier(w) \/ ReadPreferred(w)
    <2>1. UNCHANGED aqms
      BY <1>5 DEF RejectExists, RejectIdentifier, ReadPreferred
    <2>. QED
      BY <1>1, <1>5, <2>1, QuestionsCalm, NoTransactionKeeps, OnlyThread DEF aqms
  <1>6. CASE AQMSFails(w) \/ DecideCCT(w) \/ Answer(w)
    <2>1. UNCHANGED aqms
      BY <1>6 DEF AQMSFails, DecideCCT, Answer
    <2>. QED
      BY <1>1, <1>6, <2>1, EndCalm, NoTransactionKeeps, OnlyThread DEF aqms
  <1>. QED
    BY <1>2, <1>3, <1>4, <1>5, <1>6 DEF Step

\* Other programs between requests, and a crash, keep it.
LEMMA OthersCalm ==
    ASSUME CalmInvariant,
           \/ /\ \A w \in Workers : pc[w] = "idle"
              /\ AQMSMoves /\ UNCHANGED <<cct, pc, call>>
           \/ Crash
           \/ UNCHANGED vars
    PROVE  CallsCalm' /\ AQMSFits'
  <1>. USE DEF CalmInvariant, ReviewInvariant
  <1>1. CASE /\ \A w \in Workers : pc[w] = "idle"
             /\ AQMSMoves /\ UNCHANGED <<cct, pc, call>>
    <2>1. CallsCalm'
      BY <1>1 DEF CallsCalm, CalmFits, Searching
    <2>2. AQMSFits'
      BY <1>1 DEF AQMSMoves, AQMSFits, OneMagnitudePerOrigin, PreferredExists, Live, Candidates
    <2>. QED
      BY <2>1, <2>2
  <1>2. CASE Crash
    <2>1. \A w \in Workers : pc'[w] = "idle" /\ call'[w] = NoCall
      BY <1>2 DEF Crash
    <2>2. CallsCalm'
      BY <2>1 DEF CallsCalm, CalmFits, NoCall, Searching
    <2>. QED
      BY <1>2, <2>2, NoTransactionKeeps DEF Crash, aqms
  <1>3. CASE UNCHANGED vars
    <2>1. CallsCalm'
      BY <1>3 DEF CallsCalm, CalmFits, Live, OnOrigin, vars, aqms
    <2>. QED
      BY <1>3, <2>1, NoTransactionKeeps DEF vars, aqms
  <1>. QED
    BY <1>1, <1>2, <1>3

\* A calm step is a step.
LEMMA CalmIsNext == CalmNext => Next
  BY DEF CalmNext, Next

\* The calm invariant is inductive.
LEMMA CalmStep ==
    ASSUME Reliable
    PROVE  CalmInvariant /\ [CalmNext]_vars => CalmInvariant'
  <1>. SUFFICES ASSUME CalmInvariant, [CalmNext]_vars
                PROVE  CalmInvariant'
    OBVIOUS
  <1>1. ReviewInvariant'
    BY CalmIsNext, ReviewStep DEF CalmInvariant
  <1>2. CallsCalm' /\ AQMSFits'
    BY RequestCalm, OthersCalm DEF CalmNext
  <1>. QED
    BY <1>1, <1>2 DEF CalmInvariant

\* AQMS has no Mw,coda magnitude of the event when the service first runs.
LEMMA InitCalm == Init => CalmInvariant
  <1>. SUFFICES ASSUME Init PROVE CalmInvariant
    OBVIOUS
  <1>1. Live = {} /\ AQMSFits
    BY DEF Init, AQMSInit, AQMSFits, OneMagnitudePerOrigin, PreferredExists, Candidates, Live
  <1>2. CallsCalm
    BY DEF Init, CallsCalm, CalmFits, NoCall, Searching
  <1>. QED
    BY <1>1, <1>2, InitFits DEF CalmInvariant

LEMMA CalmHolds == ASSUME Reliable PROVE CalmSpec => []CalmInvariant
  <1>1. CalmInvariant /\ [CalmNext]_vars => CalmInvariant'
    BY CalmStep
  <1>. QED
    BY <1>1, InitCalm, PTL DEF CalmSpec

\* No origin ever has two Mw,coda magnitudes, through failures and crashes, as
\* long as the event is not relocated while a request is under way
\* (aqmsPostgresClient.cpp:214-218).
THEOREM OneMagnitude == ASSUME Reliable PROVE CalmSpec => []OneMagnitudePerOrigin
  <1>1. CalmInvariant => OneMagnitudePerOrigin
    BY DEF CalmInvariant, AQMSFits
  <1>2. CalmSpec => []CalmInvariant
    BY CalmHolds
  <1>. QED
    BY <1>1, <1>2, PTL

\* No deleted magnitude stays preferred or listed (deleteNetworkMagnitude asks
\* magpref anew).
THEOREM PreferredStays == ASSUME Reliable PROVE CalmSpec => []PreferredExists
  <1>1. CalmInvariant => PreferredExists
    BY DEF CalmInvariant, AQMSFits
  <1>2. CalmSpec => []CalmInvariant
    BY CalmHolds
  <1>. QED
    BY <1>1, <1>2, PTL

\* A reject that met no exception is in both databases (callback.cpp:823-834).
THEOREM RejectIsSettled == ASSUME Reliable PROVE CalmSpec => []RejectSettled
  <1>1. CalmInvariant => RejectSettled
    BY DEF CalmInvariant, ReviewInvariant, CallsCalm, CalmFits, RequestsFit, RequestFits,
           RejectSettled, At
  <1>2. CalmSpec => []CalmInvariant
    BY CalmHolds
  <1>. QED
    BY <1>1, <1>2, PTL

\* The CCT table is decided only when AQMS agrees (callback.cpp:731-759, 823-834).
THEOREM CCTIsLast == ASSUME Reliable PROVE CalmSpec => CCTLast
  <1>. DEFINE Ordered == \A w \in Workers : pc[w] = "cct" /\ cct' # cct =>
          /\ cct' = "A" => Live # {}
          /\ cct' = "R" => OnOrigin(call[w].origin) = {}
  <1>1. ASSUME CalmInvariant, CalmNext, NEW w \in Workers, pc[w] = "cct", cct' # cct
        PROVE  /\ cct' = "A" => Live # {}
               /\ cct' = "R" => OnOrigin(call[w].origin) = {}
    <2>1. RequestFits(w) /\ CalmFits(w)
      BY <1>1 DEF CalmInvariant, ReviewInvariant, RequestsFit, CallsCalm
    <2>2. PICK v \in Workers : BeginAccept(v) \/ BeginReject(v) \/ Step(v)
      BY <1>1 DEF CalmNext, Crash
    <2>3. DecideCCT(v)
      BY <1>1, <2>2 DEF BeginAccept, BeginReject, Step, ReadOrigin, AcceptRefused, AcceptExists,
         AcceptIdentifier, CheckAgain, RejectExists, RejectIdentifier, ReadPreferred,
         CommitInsert, CommitUpdate, CommitDelete, AQMSFails, Answer
    <2>4. cct' = IF call[w].kind = "accept" THEN "A" ELSE "R"
      BY <1>1, <2>3 DEF Reliable, DecideCCT
    <2>. QED
      BY <1>1, <2>1, <2>4 DEF RequestFits, CalmFits
  <1>2. CalmInvariant /\ [CalmNext]_vars => [Ordered]_vars
    BY <1>1
  <1>3. CalmSpec => []CalmInvariant
    BY CalmHolds
  <1>. HIDE DEF Ordered
  <1>4. CalmSpec => [][Ordered]_vars
    BY <1>2, <1>3, PTL DEF CalmSpec
  <1>. QED
    BY <1>4 DEF Ordered, CCTLast

=============================================================================
