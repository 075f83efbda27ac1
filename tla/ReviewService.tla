--------------------------- MODULE ReviewService ---------------------------
(***************************************************************************)
(* What the accept and reject branches of src/backend/src/callback.cpp do  *)
(* to the two databases, without the queries that lead to it: a request    *)
(* changes the magnitudes in AQMS at most once, and by one magnitude, then *)
(* the CCT table at most once, and is answered.  It may be given up at any *)
(* point, and the process may die at any point.                            *)
(***************************************************************************)
EXTENDS Integers

CONSTANTS
    Workers,        \* io threads
    Origins, MagIds, None

VARIABLES
    netmag,         \* the origin of each Mw,coda magnitude, or None
    cct,            \* review_status in the CCT table
    request         \* the request of each worker

stores == <<netmag, cct, request>>

NoRequest == [kind |-> "none", stage |-> "idle", status |-> "failure"]

Init ==
    /\ netmag = [m \in MagIds |-> None]
    /\ cct = "U"
    /\ request = [w \in Workers |-> NoRequest]

Moves(w, stage, status) ==
    request' = [request EXCEPT ![w] =
                   [kind |-> request[w].kind, stage |-> stage, status |-> status]]

Ask(w, kind) ==
    /\ request[w] = NoRequest
    /\ request' = [request EXCEPT ![w] =
                      [kind |-> kind, stage |-> "asked", status |-> "failure"]]
    /\ UNCHANGED <<netmag, cct>>

\* The AQMS transaction.  An accept adds a magnitude or finds one to update; a
\* reject removes one, if it is still there.
Record(w) ==
    /\ request[w].stage = "asked"
    /\ Moves(w, "recorded", request[w].status)
    /\ \/ UNCHANGED netmag
       \/ \E m \in MagIds, o \in Origins :
             /\ request[w].kind = "accept" /\ netmag[m] = None
             /\ netmag' = [netmag EXCEPT ![m] = o]
       \/ \E m \in MagIds :
             /\ request[w].kind = "reject"
             /\ netmag' = [netmag EXCEPT ![m] = None]
    /\ UNCHANGED cct

\* The CCT table is changed.  Only a reject may come here without a transaction
\* in AQMS, when there was nothing to remove.
Decide(w, status) ==
    /\ \/ request[w].stage = "recorded"
       \/ request[w].stage = "asked" /\ request[w].kind = "reject"
    /\ cct' = IF request[w].kind = "accept" THEN "A" ELSE "R"
    /\ Moves(w, "closed", status)
    /\ UNCHANGED netmag

\* An exception, here or in the CCT table.  No accept is told success then.
GiveUp(w, status) ==
    /\ request[w].stage \in {"asked", "recorded"}
    /\ request[w].kind = "accept" => status = "failure"
    /\ Moves(w, "closed", status)
    /\ UNCHANGED <<netmag, cct>>

\* The answer is sent.
Reply(w) ==
    /\ request[w].stage = "closed"
    /\ request' = [request EXCEPT ![w] = NoRequest]
    /\ UNCHANGED <<netmag, cct>>

\* The process dies, with every request.
Die ==
    /\ request' = [w \in Workers |-> NoRequest]
    /\ UNCHANGED <<netmag, cct>>

Next ==
    \/ \E w \in Workers, kind \in {"accept", "reject"} : Ask(w, kind)
    \/ \E w \in Workers, status \in {"success", "failure"} :
          Decide(w, status) \/ GiveUp(w, status)
    \/ \E w \in Workers : Record(w) \/ Reply(w)
    \/ Die

Spec == Init /\ [][Next]_stores

=============================================================================
