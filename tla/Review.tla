------------------------------- MODULE Review -------------------------------
(***************************************************************************)
(* The accept and reject requests of src/backend/src/callback.cpp, which   *)
(* write two databases that share no transaction: AQMS first, then the     *)
(* CCT table.  One event; every request finds it in the cache.             *)
(*                                                                         *)
(* The magnitude of an accept may be unusable (no Mw in the details, so    *)
(* setMagnitude throws); it shares AcceptRefused with a failing origin     *)
(* query.  The CCT side is what CCTPostgresService promises: the UPDATE is *)
(* committed or not, and the caller is told success or failure.            *)
(* Rows that the CCT software writes anew are in that module only.         *)
(***************************************************************************)
EXTENDS AQMSPostgresClient

CONSTANTS Workers   \* io threads

ASSUME ReviewAssumption == None \notin Workers

VARIABLES
    cct,            \* review_status of the event in the CCT table
    pc,             \* where each worker stands
    call            \* what each worker knows

vars == <<aqms, cct, pc, call>>

\* origin: the origin read for an accept, or that a reject last asked about.
\* magid: the magnitude found or created; current: prefmag as it was read.
\* recorded: the transaction wrote or removed a row.  failed: an exception
\* reached the callback.  status: what is answered.
NoCall == [kind |-> "none", origin |-> None, magid |-> None, current |-> None,
           recorded |-> FALSE, failed |-> FALSE, status |-> "failure"]

Calls == [kind : {"none", "accept", "reject"}, origin : Origins \cup {None},
          magid : MagIds \cup {0, None}, current : MagIds \cup {Foreign, None},
          recorded : BOOLEAN, failed : BOOLEAN, status : {"success", "failure"}]

Init ==
    /\ AQMSInit
    /\ cct = "U"
    /\ pc = [w \in Workers |-> "idle"]
    /\ call = [w \in Workers |-> NoCall]

At(w, kind, stage) == pc[w] = stage /\ call[w].kind = kind

Goto(w, stage) == pc' = [pc EXCEPT ![w] = stage]

Learn(w, c) == call' = [call EXCEPT ![w] = c]

\* Mutant: both branches set "success" after their catch.
StatusAfterSuccess(kind, failed) == "success"

\* The status of a request that ended without and with an exception.  The reject
\* branch sets "success" once more after its catch.
StatusAfter(kind, failed) ==
    IF failed /\ kind = "accept" THEN "failure" ELSE "success"

\* An exception reaches the callback's catch.
Throw(w) ==
    /\ Goto(w, "answer")
    /\ Learn(w, [call[w] EXCEPT !.failed = TRUE,
                                !.status = StatusAfter(call[w].kind, TRUE)])

-----------------------------------------------------------------------------
(* accept: which magnitude is there? *)

BeginAccept(w) ==
    /\ pc[w] = "idle"
    /\ Goto(w, "origin")
    /\ Learn(w, [NoCall EXCEPT !.kind = "accept"])
    /\ UNCHANGED <<aqms, cct>>

ReadOrigin(w) ==
    /\ pc[w] = "origin"
    /\ Goto(w, "exists")
    /\ Learn(w, [call[w] EXCEPT !.origin = prefor])
    /\ UNCHANGED <<aqms, cct>>

\* The origin query fails or the magnitude is out of range.
AcceptRefused(w) ==
    /\ pc[w] = "origin"
    /\ Throw(w)
    /\ UNCHANGED <<aqms, cct>>

\* getMwCodaMagnitudeIdentifier asks whether there is one; false: none.
AcceptExists(w) ==
    /\ At(w, "accept", "exists")
    /\ \E found \in ExistsAnswers :
          Goto(w, IF found THEN "identifier" ELSE "insert")
    /\ UNCHANGED <<aqms, cct, call>>

AcceptIdentifier(w) ==
    /\ At(w, "accept", "identifier")
    /\ \E m \in IdentifierAnswers :
          /\ Goto(w, IF m = None THEN "insert" ELSE "update")
          /\ Learn(w, [call[w] EXCEPT !.magid = m])
    /\ UNCHANGED <<aqms, cct>>

\* insertNetworkMagnitude and updateNetworkMagnitude ask again: the first
\* throws if there is one, the second if there is none.
CheckAgain(w) ==
    /\ pc[w] \in {"insert", "update"}
    /\ \E found \in ExistsAnswers :
          IF found = (pc[w] = "update")
          THEN Goto(w, "preferred") /\ UNCHANGED call
          ELSE Throw(w)
    /\ UNCHANGED <<aqms, cct>>

-----------------------------------------------------------------------------
(* reject: is there a magnitude to delete? *)

\* The callback's own question, then the same one in getMwCodaMagnitudeIdentifier.
BeginReject(w) ==
    /\ pc[w] = "idle"
    /\ Goto(w, "exists")
    /\ Learn(w, [NoCall EXCEPT !.kind = "reject"])
    /\ UNCHANGED <<aqms, cct>>

RejectExists(w) ==
    /\ call[w].kind = "reject" /\ pc[w] \in {"exists", "existsAgain"}
    /\ \E found \in ExistsAnswers :
          Goto(w, IF ~ found THEN "cct"
                  ELSE IF pc[w] = "exists" THEN "existsAgain" ELSE "identifier")
    /\ Learn(w, [call[w] EXCEPT !.origin = prefor])
    /\ UNCHANGED <<aqms, cct>>

RejectIdentifier(w) ==
    /\ At(w, "reject", "identifier")
    /\ \E m \in IdentifierAnswers :
          /\ Goto(w, IF m = None THEN "cct" ELSE "preferred")
          /\ Learn(w, [call[w] EXCEPT !.magid = m, !.origin = prefor])
    /\ UNCHANGED <<aqms, cct>>

-----------------------------------------------------------------------------
(* Both: the AQMS transaction, then the CCT table *)

ReadPreferred(w) ==
    /\ pc[w] = "preferred"
    /\ Goto(w, "transaction")
    /\ \E current \in PreferredAnswers :
          Learn(w, [call[w] EXCEPT !.current = current])
    /\ UNCHANGED <<aqms, cct>>

\* Mutant: the transaction is not committed, and its destructor rolls it back.
CommitInsertRolledBack(w) ==
    LET c == call[w] IN
    /\ At(w, "accept", "transaction") /\ c.magid = None
    /\ Goto(w, "cct")
    /\ Learn(w, [c EXCEPT !.magid = nextMag, !.recorded = TRUE])
    /\ UNCHANGED <<aqms, cct>>

CommitInsert(w) ==
    LET c == call[w] IN
    /\ At(w, "accept", "transaction") /\ c.magid = None
    /\ InsertTransaction(c.origin, c.current)
    /\ Goto(w, "cct")
    /\ Learn(w, [c EXCEPT !.magid = nextMag, !.recorded = TRUE])
    /\ UNCHANGED cct

CommitUpdate(w) ==
    LET c == call[w] IN
    /\ At(w, "accept", "transaction") /\ c.magid # None
    /\ UpdateTransaction(c.magid, c.current)
    /\ Goto(w, "cct")
    /\ Learn(w, [c EXCEPT !.recorded = c.magid \in Live])
    /\ UNCHANGED cct

\* Mutant: magnitudes are deleted until none is left.
CommitDeleteAgain(w) ==
    LET c == call[w] IN
    /\ At(w, "reject", "transaction")
    /\ DeleteTransaction(c.magid, c.current)
    /\ Goto(w, "existsAgain")
    /\ Learn(w, [c EXCEPT !.recorded = c.magid \in Live])
    /\ UNCHANGED cct

CommitDelete(w) ==
    LET c == call[w] IN
    /\ At(w, "reject", "transaction")
    /\ DeleteTransaction(c.magid, c.current)
    /\ Goto(w, "cct")
    /\ Learn(w, [c EXCEPT !.recorded = c.magid \in Live])
    /\ UNCHANGED cct

\* Mutant: a call that fails is tried again.
AQMSFailsRetries(w) ==
    /\ pc[w] \in {"exists", "existsAgain", "insert", "update", "preferred",
                  "transaction"}
    /\ Goto(w, "exists")
    /\ UNCHANGED <<aqms, cct, call>>

\* The connection is broken, or a statement of the transaction throws and the
\* transaction is rolled back.
AQMSFails(w) ==
    /\ pc[w] \in {"exists", "existsAgain", "insert", "update", "preferred",
                  "transaction"}
    /\ Throw(w)
    /\ UNCHANGED <<aqms, cct>>

\* acceptEvent or rejectEvent: the UPDATE is committed and told so, committed
\* with its answer lost, or not committed.
DecideCCT(w) ==
    LET decision == IF call[w].kind = "accept" THEN "A" ELSE "R" IN
    /\ pc[w] = "cct"
    /\ \/ /\ cct' = decision
          /\ Goto(w, "answer")
          /\ Learn(w, [call[w] EXCEPT !.status = StatusAfter(call[w].kind, FALSE)])
       \/ cct' \in {cct, decision} /\ Throw(w)
    /\ UNCHANGED aqms

Answer(w) ==
    /\ pc[w] = "answer"
    /\ Goto(w, "idle")
    /\ Learn(w, NoCall)
    /\ UNCHANGED <<aqms, cct>>

\* The backend is killed and started again; open transactions are rolled back.
Crash ==
    /\ \E w \in Workers : pc[w] # "idle"
    /\ pc' = [w \in Workers |-> "idle"]
    /\ call' = [w \in Workers |-> NoCall]
    /\ UNCHANGED <<aqms, cct>>

Step(w) ==
    \/ ReadOrigin(w) \/ AcceptRefused(w) \/ AcceptExists(w) \/ AcceptIdentifier(w)
    \/ CheckAgain(w) \/ RejectExists(w) \/ RejectIdentifier(w)
    \/ ReadPreferred(w) \/ CommitInsert(w) \/ CommitUpdate(w) \/ CommitDelete(w)
    \/ AQMSFails(w) \/ DecideCCT(w) \/ Answer(w)

Next ==
    \/ \E w \in Workers : BeginAccept(w) \/ BeginReject(w) \/ Step(w)
    \/ AQMSMoves /\ UNCHANGED <<cct, pc, call>>
    \/ Crash

Spec == Init /\ [][Next]_vars

\* The other AQMS programs change the event only while no request is under way.
CalmNext ==
    \/ \E w \in Workers : BeginAccept(w) \/ BeginReject(w) \/ Step(w)
    \/ /\ \A w \in Workers : pc[w] = "idle"
       /\ AQMSMoves /\ UNCHANGED <<cct, pc, call>>
    \/ Crash

CalmSpec == Init /\ [][CalmNext]_vars

\* Every handler runs to its end: no call of it blocks for ever (10 s connection
\* timeout, a failing statement throws).
FairSpec == Spec /\ \A w \in Workers : WF_vars(Step(w))

-----------------------------------------------------------------------------
(* The two databases as ReviewService sees them change *)

\* The request of worker w: recorded when it comes to the CCT table with a
\* magnitude.
RequestOf(w) ==
    IF pc[w] = "idle" THEN [kind |-> "none", stage |-> "idle", status |-> "failure"]
    ELSE [kind |-> call[w].kind,
          stage |-> IF pc[w] = "answer" THEN "closed"
                    ELSE IF pc[w] = "cct" /\ call[w].magid # None THEN "recorded"
                    ELSE "asked",
          status |-> call[w].status]

Service == INSTANCE ReviewService WITH request <- [w \in Workers |-> RequestOf(w)]

-----------------------------------------------------------------------------
(* Properties *)

Stages == {"idle", "origin", "exists", "existsAgain", "identifier", "insert",
           "update", "preferred", "transaction", "cct", "answer"}

\* Every variable keeps its type.
TypeOK ==
    /\ AQMSTypeOK
    /\ cct \in {"U", "A", "R"}
    /\ pc \in [Workers -> Stages]
    /\ call \in [Workers -> Calls]

\* No origin has two Mw,coda magnitudes: what insertNetworkMagnitude guards
\* with "Mw,Coda netmag already exists" (aqmsPostgresClient.cpp:214-218).
OneMagnitudePerOrigin ==
    \A m, n \in Live : netmag[m] = netmag[n] => m = n

\* The preferred magnitude and every listed one exist.
PreferredExists == prefmag \in Candidates \cup {None} /\ eventprefmag \subseteq Live

\* The CCT table is decided last: it never says accepted while AQMS has no
\* magnitude of the event, nor is it told rejected while the origin that was
\* asked about still has one (callback.cpp:731-759, 823-834).
CCTLast ==
    [][\A w \in Workers : pc[w] = "cct" /\ cct' # cct =>
          /\ cct' = "A" => Live # {}
          /\ cct' = "R" => OnOrigin(call[w].origin) = {}]_vars

\* An accept that is answered with success has written the magnitude to AQMS
\* and the decision to the CCT table, whatever an earlier request that failed
\* between the two had left behind.
AcceptRecorded ==
    \A w \in Workers :
        At(w, "accept", "answer") /\ call[w].status = "success" =>
            call[w].recorded /\ call[w].magid \in Live /\ cct = "A"

\* A reject that met no exception leaves the event rejected and no magnitude
\* on the origin it asked about, whatever was left behind before.
RejectSettled ==
    \A w \in Workers :
        At(w, "reject", "answer") /\ ~ call[w].failed =>
            cct = "R" /\ OnOrigin(call[w].origin) = {}

\* A request changes AQMS by one magnitude at most, and once; only then does it
\* change the CCT table, once; no accept that met an exception is told success.
\* Whatever other requests and other programs do, and whenever the process dies
\* (callback.cpp:705-774, 823-850).
WritesInOrder == Service!Spec

\* A reject that is answered with success has been written to the CCT table.
RejectHonest ==
    \A w \in Workers :
        At(w, "reject", "answer") /\ call[w].status = "success" => cct = "R"

\* Every request is answered, or lost with the process.
RequestsEnd == \A w \in Workers : pc[w] # "idle" ~> pc[w] = "idle"

=============================================================================
