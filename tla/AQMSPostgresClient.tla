------------------------- MODULE AQMSPostgresClient -------------------------
(***************************************************************************)
(* The AQMS database as src/backend/src/aqmsPostgresClient.cpp reads and   *)
(* writes it, for one event: its preferred origin and magnitude, and the   *)
(* Mw,coda magnitudes (magtype w, algorithm LLNLCCT) of its origins.       *)
(*                                                                         *)
(* A query is one statement.  A transaction either commits or is rolled    *)
(* back by the destructor of soci::transaction, so it is one step.  The    *)
(* value of a magnitude, the credit row and the version bump, which each   *)
(* transaction writes together with what is modelled, are left out.        *)
(***************************************************************************)
EXTENDS Integers, FiniteSets

CONSTANTS
    Origins,        \* origins the event may have
    None,
    MaxMagnitudes,  \* bound on the magnitudes insertNetMag creates
    Foreign,        \* the preferred magnitude of another type, when there is one
    QueriesFail,    \* whether a query on a live connection may throw
    MaxMoves        \* bound on the changes other AQMS programs make

\* Identifiers of the magseq sequence.
MagIds == 1 .. MaxMagnitudes

ASSUME AQMSAssumption ==
    /\ MaxMagnitudes \in Nat /\ MaxMoves \in Nat /\ QueriesFail \in BOOLEAN
    /\ Foreign \notin MagIds \cup {0} /\ Foreign # None
    /\ None \notin MagIds \cup {0} /\ None \notin Origins

VARIABLES
    prefor,         \* event.prefor
    prefmag,        \* event.prefmag, None for NULL
    netmag,         \* the origin of each Mw,coda magnitude, or None
    eventprefmag,   \* the Mw,coda magnitudes eventprefmag lists
    nextMag,        \* the next value of magseq
    moves           \* changes made so far by other programs

aqms == <<prefor, prefmag, netmag, eventprefmag, nextMag, moves>>

-----------------------------------------------------------------------------

Live == {m \in MagIds : netmag[m] # None}

\* The magnitudes magpref may choose from.
Candidates == Live \cup {Foreign}

OnOrigin(o) == {m \in MagIds : netmag[m] = o}

AQMSInit ==
    /\ prefor \in Origins
    /\ prefmag \in {None, Foreign}
    /\ netmag = [m \in MagIds |-> None]
    /\ eventprefmag = {}
    /\ nextMag = 1 /\ moves = 0

-----------------------------------------------------------------------------
(* Queries: the sets of answers they may give *)

\* Mutant: only the preferred magnitude is looked for.
ExistsAnswersPreferred == {prefmag \in OnOrigin(prefor)}

\* mwCodaMagnitudeExists: the count on the preferred origin, and false when
\* the query throws.
ExistsAnswers ==
    {OnOrigin(prefor) # {}} \cup (IF QueriesFail THEN {FALSE} ELSE {})

\* The second half of getMwCodaMagnitudeIdentifier: LIMIT 1 picks any of the
\* preferred origin's magnitudes, no row leaves the optional empty, and a query
\* that throws returns false, which is the identifier 0.
IdentifierAnswers ==
    (IF OnOrigin(prefor) = {} THEN {None} ELSE OnOrigin(prefor))
        \cup (IF QueriesFail THEN {0} ELSE {})

\* getPreferredMagnitudeIdentifier: empty for NULL and when the query throws.
PreferredAnswers == {prefmag} \cup (IF QueriesFail THEN {None} ELSE {})

-----------------------------------------------------------------------------
(* Transactions *)

\* Mutant: the optional is used without a look whether it holds a value.
KeepPreferredUnchecked(current) ==
    prefmag' = IF current = None THEN 0 ELSE current

\* The preferred magnitude after an insert or update: magpref chooses one when
\* there was none, and is told to keep the one that was read otherwise.
KeepPreferred(current) ==
    IF current = None THEN prefmag' \in Candidates' ELSE prefmag' = current

\* insertNetworkMagnitude: a new magnitude on the given origin, listed in
\* eventprefmag whether or not magpref was asked to choose.
InsertTransaction(origin, current) ==
    /\ nextMag \in MagIds
    /\ netmag' = [netmag EXCEPT ![nextMag] = origin]
    /\ eventprefmag' = eventprefmag \cup {nextMag}
    /\ nextMag' = nextMag + 1
    /\ KeepPreferred(current)
    /\ UNCHANGED <<prefor, moves>>

\* updateNetworkMagnitude: the row of magid m, if there is one, gets the new
\* values; m is listed unless magpref was asked to choose.
UpdateTransaction(m, current) ==
    /\ eventprefmag' = IF current = None THEN eventprefmag
                       ELSE eventprefmag \cup {m}
    /\ UNCHANGED <<prefor, netmag, nextMag, moves>>
    /\ KeepPreferred(current)

\* Mutant: magpref is not asked again when the preferred magnitude goes.
DeleteTransactionKeeps(m, current) ==
    /\ netmag' = [x \in MagIds |-> IF x = m THEN None ELSE netmag[x]]
    /\ eventprefmag' = eventprefmag \ {m}
    /\ UNCHANGED <<prefor, prefmag, nextMag, moves>>

\* Mutant: the row goes only if it is preferred.
DeleteTransactionPreferred(m, current) ==
    /\ netmag' = [x \in MagIds |-> IF x = m /\ current = m THEN None ELSE netmag[x]]
    /\ eventprefmag' = eventprefmag \ {m}
    /\ IF current \in {None, m} THEN prefmag' \in Candidates' \cup {None}
       ELSE UNCHANGED prefmag
    /\ UNCHANGED <<prefor, nextMag, moves>>

\* deleteNetworkMagnitude: the row of magid m and its listing go; magpref
\* chooses anew if m was read as preferred, or nothing was.
DeleteTransaction(m, current) ==
    /\ netmag' = [x \in MagIds |-> IF x = m THEN None ELSE netmag[x]]
    /\ eventprefmag' = eventprefmag \ {m}
    /\ IF current \in {None, m} THEN prefmag' \in Candidates' \cup {None}
       ELSE UNCHANGED prefmag
    /\ UNCHANGED <<prefor, nextMag, moves>>

\* Another AQMS program relocates the event or changes its preferred magnitude.
AQMSMoves ==
    /\ moves < MaxMoves /\ moves' = moves + 1
    /\ \/ prefor' \in Origins /\ UNCHANGED prefmag
       \/ prefmag' \in Candidates /\ UNCHANGED prefor
    /\ UNCHANGED <<netmag, eventprefmag, nextMag>>

AQMSTypeOK ==
    /\ prefor \in Origins
    /\ prefmag \in MagIds \cup {Foreign, None}
    /\ netmag \in [MagIds -> Origins \cup {None}]
    /\ eventprefmag \in SUBSET (MagIds \cup {0})
    /\ nextMag \in 1 .. MaxMagnitudes + 1
    /\ moves \in 0 .. MaxMoves

=============================================================================
