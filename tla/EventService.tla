---------------------------- MODULE EventService ----------------------------
(***************************************************************************)
(* What CCTPostgresService (src/backend/src/cctPostgresService.hpp)        *)
(* promises to the callback and to the readers of its cache, without       *)
(* poller, watermark, lock or connection.                                  *)
(*                                                                         *)
(* A request is committed at most once, on the row the table has then, and *)
(* its caller is told of success only if it was.  What is served of an     *)
(* event may be out of date, never invented: a decision that was not made  *)
(* on the version served is not shown.                                     *)
(***************************************************************************)
EXTENDS Integers

CONSTANTS
    Events, Workers, None,
    Rows            \* records with fields data, parses, review and lastUpdate

VARIABLES
    db,             \* the row of each event, or None
    cache,          \* the row served of each event, or None
    call            \* the request of each worker, or None

promise == <<db, cache, call>>

\* Row r may be served while the table has row s: an earlier version, or the
\* same version before or after a decision.  Nothing comes before the first.
Servable(r, s) ==
    /\ r.parses
    /\ \/ r.data < s.data
       \/ r.data = s.data /\ (s.review = "U" => r = s)

Init ==
    /\ db \in [Events -> Rows \cup {None}]
    /\ cache \in [Events -> Rows \cup {None}]
    /\ \A e \in Events : cache[e] # None => cache[e] = db[e] /\ db[e].parses
    /\ call = [w \in Workers |-> None]

\* The CCT software writes a row, unreviewed.
Upsert(e, r) ==
    /\ r.review = "U"
    /\ db' = [db EXCEPT ![e] = r]
    /\ UNCHANGED <<cache, call>>

Serve(e, r) ==
    /\ db[e] # None /\ Servable(r, db[e])
    /\ cache' = [cache EXCEPT ![e] = r]
    /\ UNCHANGED <<db, call>>

Ask(w, e, review) ==
    /\ call[w] = None /\ cache[e] # None
    /\ call' = [call EXCEPT ![w] = [event |-> e, review |-> review,
                                    open |-> TRUE, success |-> FALSE]]
    /\ UNCHANGED <<db, cache>>

\* Call c when its decision lies behind it, with what its caller will be told.
Closed(c, told) ==
    [event |-> c.event, review |-> c.review, open |-> FALSE, success |-> told]

\* The decision is committed; it leaves the result as the table has it.  The
\* caller may not learn of it.
Decide(w, r) ==
    LET e == call[w].event IN
    /\ call[w] # None /\ call[w].open /\ db[e] # None
    /\ r.review = call[w].review
    /\ r.data = db[e].data /\ r.parses = db[e].parses
    /\ db' = [db EXCEPT ![e] = r]
    /\ \E told \in BOOLEAN :
          call' = [call EXCEPT ![w] = Closed(call[w], told)]
    /\ UNCHANGED cache

\* The decision is given up.
Refuse(w) ==
    /\ call[w] # None /\ call[w].open
    /\ call' = [call EXCEPT ![w] = Closed(call[w], call[w].success)]
    /\ UNCHANGED <<db, cache>>

\* The caller is told call[w].success.
Return(w) ==
    /\ call[w] # None
    /\ call' = [call EXCEPT ![w] = None]
    /\ UNCHANGED <<db, cache>>

Next ==
    \/ \E e \in Events, r \in Rows : Upsert(e, r) \/ Serve(e, r)
    \/ \E w \in Workers, e \in Events, review \in {"A", "R"} : Ask(w, e, review)
    \/ \E w \in Workers, r \in Rows : Decide(w, r)
    \/ \E w \in Workers : Refuse(w) \/ Return(w)

Spec == Init /\ [][Next]_promise

=============================================================================
