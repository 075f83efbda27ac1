----------------------------- MODULE CCTReview -----------------------------
(***************************************************************************)
(* The review page (src/frontend/src/components/CCTReview.jsx, TableFit.jsx*)
(* and SettingsDialog.jsx), from a login to the logout.                    *)
(*                                                                         *)
(* A handler runs to its end, and React renders the page anew before the   *)
(* next one.  Every render makes a new handleGetEvents, which reads the    *)
(* eventIdentifier and the settings of its render.  The timer has the one  *)
(* of the last render; a request under way has the one of the render it    *)
(* was made in, which a click or a change of settings on that same render  *)
(* still changes.  Answers come in any order, or never well.               *)
(*                                                                         *)
(* graphData is the row of eventIdentifier, and follows from it.           *)
(***************************************************************************)
EXTENDS Integers, FiniteSets

CONSTANTS
    Events,         \* event identifiers: a schema has some of them
    Schemas, Production,
    Slots,          \* bound on the requests that are under way at once
    None,
    MaxActions      \* bound on what the user does

\* What a handleGetEvents sees of its render, and a request under way.
Closures == [schema : Schemas, eventIdentifier : Events \cup {None},
             ofRender : BOOLEAN, ofSettings : BOOLEAN, astray : BOOLEAN]

Request == [kind : {"events", "accept", "reject"}, schema : Schemas, closure : Closures]

ASSUME PageAssumption ==
    Production \in Schemas /\ MaxActions \in Nat /\ None \notin Request

VARIABLES
    authenticated,  \* App shows this page
    expired,        \* the token of the user has expired
    schema,         \* settings.schema
    events,         \* the table: its rows, and the schema they came from
    eventIdentifier,
    timer,          \* what the handleGetEvents of the timer sees
    due,            \* the interval of the timer is over
    acceptRequested, rejectRequested,
    requests,       \* the requests under way
    actions,        \* number of things the user has done (bound)
    rejectFailed    \* history: a reject has ended in an error

table == <<schema, events, eventIdentifier>>
buttons == <<acceptRequested, rejectRequested, rejectFailed>>
vars == <<authenticated, expired, table, timer, due, buttons, requests, actions>>

-----------------------------------------------------------------------------
(* Renders and closures *)

\* What handleGetEvents sees of the last render.  A closure is ofRender while
\* its render is the last, and ofSettings while its settings object is the
\* state; astray (history) when the selection changed since, but not by a
\* click on its own render.
Closure == [schema |-> schema, eventIdentifier |-> eventIdentifier,
            ofRender |-> TRUE, ofSettings |-> TRUE, astray |-> FALSE]

\* The requests rs with their closures changed by f.
WithClosures(rs, f(_)) ==
    [s \in Slots |-> IF rs[s] = None THEN None
                     ELSE [rs[s] EXCEPT !.closure = f(@)]]

\* Mutant: the effect of the timer has no dependencies.
RerenderKeepsTimer(rs) ==
    /\ requests' = WithClosures(rs, LAMBDA c : [c EXCEPT !.ofRender = FALSE])
    /\ timer' = [timer EXCEPT !.ofRender = FALSE]
    /\ due' = FALSE

\* A render after one of events, eventIdentifier and settings changed: the
\* closures of rs belong to an earlier one, and the timer starts again.
Rerender(rs) ==
    /\ requests' = WithClosures(rs, LAMBDA c : [c EXCEPT !.ofRender = FALSE])
    /\ timer' = Closure'
    /\ due' = FALSE

\* The request that handleGetEvents makes with closure c.
GetEvents(c) == [kind |-> "events", schema |-> c.schema, closure |-> c]

\* The slot a request takes, if there is one.
Free == {s \in Slots : requests[s] = None /\ s = CHOOSE t \in Slots : requests[t] = None}

Send(s, r) == [requests EXCEPT ![s] = r]

\* The page is mounted: it asks for events at once.
Init ==
    /\ authenticated = TRUE /\ expired = FALSE
    /\ schema = Production
    /\ events = [rows |-> {}, from |-> None] /\ eventIdentifier = None
    /\ timer = Closure /\ due = FALSE
    /\ acceptRequested = FALSE /\ rejectRequested = FALSE
    /\ LET first == CHOOSE s \in Slots : TRUE
       IN requests = [s \in Slots |-> IF s = first THEN GetEvents(Closure) ELSE None]
    /\ actions = 0 /\ rejectFailed = FALSE

\* App shows the login again.  What is under way finds no page, and neither does
\* the request that a call which notices the expiry goes on to send: requests
\* has only those whose answers reach the page.
Leave ==
    /\ authenticated' = FALSE
    /\ requests' = [s \in Slots |-> None]
    /\ due' = FALSE
    /\ acceptRequested' = FALSE /\ rejectRequested' = FALSE
    /\ UNCHANGED <<expired, table, timer, rejectFailed>>

-----------------------------------------------------------------------------
(* The timer *)

Expire ==
    /\ authenticated /\ ~ expired
    /\ expired' = TRUE
    /\ UNCHANGED <<authenticated, table, timer, due, buttons, requests, actions>>

Tick ==
    /\ authenticated /\ ~ due
    /\ due' = TRUE
    /\ UNCHANGED <<authenticated, expired, table, timer, buttons, requests, actions>>

\* Mutant: the poller does not look at the token.
PollUnchecked ==
    /\ authenticated /\ due
    /\ \E s \in Free : requests' = Send(s, GetEvents(timer))
    /\ due' = FALSE
    /\ UNCHANGED <<authenticated, expired, table, timer, buttons, actions>>

\* The interval is over: the events are asked for.  Every call looks at the
\* token first; one that has expired ends the page.
Poll ==
    /\ authenticated /\ due
    /\ \E s \in Free :
        /\ \/ /\ expired
              /\ Leave
           \/ /\ ~ expired
              /\ requests' = Send(s, GetEvents(timer))
              /\ due' = FALSE
              /\ UNCHANGED <<authenticated, expired, table, timer, buttons>>
    /\ UNCHANGED actions

-----------------------------------------------------------------------------
(* What the user does *)

Act == authenticated /\ actions < MaxActions /\ actions' = actions + 1

\* Mutant: the click is only told to React.
ClickedStateOnly(c, e) == [c EXCEPT !.astray = ~ c.ofRender \/ @]

\* The click assigns to the eventIdentifier of its own render.
Clicked(c, e) ==
    IF c.ofRender THEN [c EXCEPT !.eventIdentifier = e]
                  ELSE [c EXCEPT !.astray = TRUE]

\* handleUpdateEventIdentifier, with the identifier of another row.
Select(e) ==
    /\ Act
    /\ e \in events.rows /\ e # eventIdentifier
    /\ eventIdentifier' = e
    /\ UNCHANGED <<authenticated, expired, schema, events, buttons>>
    /\ Rerender(WithClosures(requests, LAMBDA c : Clicked(c, e)))

\* handleUpdateSettings assigns to the settings of its render before it asks
\* for events; the state becomes a new object.
Switch(x) ==
    /\ Act
    /\ x # schema
    /\ \E s \in Free :
        /\ \/ /\ expired
              /\ Leave
           \/ /\ ~ expired
              /\ schema' = x
              /\ UNCHANGED <<authenticated, expired, events, eventIdentifier, buttons>>
              /\ LET sent == Send(s, GetEvents([Closure EXCEPT !.schema = x]))
                     seen(c) == [c EXCEPT !.schema = IF c.ofSettings THEN x ELSE @,
                                          !.ofSettings = FALSE]
                 IN Rerender(WithClosures(sent, seen))

\* Mutant: the button is not disabled while the request is under way.
DecideAgain(kind) ==
    /\ Act
    /\ \E s \in Free :
        /\ requests' = Send(s, [kind |-> kind, schema |-> schema, closure |-> Closure])
    /\ UNCHANGED <<authenticated, expired, table, timer, due, buttons>>

\* acceptMagnitude and rejectMagnitude: a button that is not loading is
\* pressed.  With no event in the table the request names none.
Decide(kind) ==
    /\ Act
    /\ \/ kind = "accept" /\ ~ acceptRequested
       \/ kind = "reject" /\ ~ rejectRequested
    /\ \E s \in Free :
        /\ \/ /\ expired
              /\ Leave
           \/ /\ ~ expired
              /\ requests' = Send(s, [kind |-> kind, schema |-> schema,
                                      closure |-> Closure])
              /\ acceptRequested' = (kind = "accept" \/ acceptRequested)
              /\ rejectRequested' = (kind = "reject" \/ rejectRequested)
              /\ UNCHANGED <<authenticated, expired, table, timer, due, rejectFailed>>

Logout == Act /\ Leave

-----------------------------------------------------------------------------
(* Answers *)

\* Mutant: an empty answer leaves the selection.
EventsArriveEmpty(s, rows) ==
    LET r == requests[s]
        known == r.closure.eventIdentifier
    IN
    /\ r # None /\ r.kind = "events"
    /\ events' = [rows |-> rows, from |-> r.schema]
    /\ eventIdentifier' \in IF known \in rows THEN {known}
                            ELSE IF rows = {} THEN {eventIdentifier} ELSE rows
    /\ UNCHANGED <<authenticated, expired, schema, buttons, actions>>
    /\ LET seen(c) == [c EXCEPT !.astray = @ \/ eventIdentifier' # eventIdentifier]
       IN Rerender(WithClosures(Send(s, None), seen))

\* The events of an answer replace those of the table.  The event that the
\* closure of the request knows is selected, or the newest.
EventsArrive(s, rows) ==
    LET r == requests[s]
        known == r.closure.eventIdentifier
    IN
    /\ r # None /\ r.kind = "events"
    /\ events' = [rows |-> rows, from |-> r.schema]
    /\ eventIdentifier' \in IF known \in rows THEN {known}
                            ELSE IF rows = {} THEN {None} ELSE rows
    /\ UNCHANGED <<authenticated, expired, schema, buttons, actions>>
    /\ LET seen(c) == [c EXCEPT !.astray = @ \/ eventIdentifier' # eventIdentifier]
       IN Rerender(WithClosures(Send(s, None), seen))

\* The request for events ends in an error: the page stays as it is.
EventsFail(s) ==
    /\ requests[s] # None /\ requests[s].kind = "events"
    /\ requests' = Send(s, None)
    /\ UNCHANGED <<authenticated, expired, table, timer, due, buttons, actions>>

\* The decision is answered.  After a success the events are asked for, with
\* what the closure of the decision sees.
DecisionAnswered(s, status) ==
    LET r == requests[s] IN
    /\ r # None /\ r.kind \in {"accept", "reject"}
    /\ \/ /\ status = "success" /\ expired
          /\ Leave
       \/ /\ status = "success" => ~ expired
          /\ requests' = Send(s, IF status = "success" THEN GetEvents(r.closure)
                                                       ELSE None)
          /\ acceptRequested' = (acceptRequested /\ r.kind # "accept")
          /\ rejectRequested' = (rejectRequested /\ r.kind # "reject")
          /\ UNCHANGED <<authenticated, expired, table, timer, due, rejectFailed>>
    /\ UNCHANGED actions

\* Mutant: an accept that ends in an error leaves its button loading.
DecisionFailsSilently(s) ==
    LET r == requests[s] IN
    /\ r # None /\ r.kind \in {"accept", "reject"}
    /\ requests' = Send(s, None)
    /\ rejectFailed' = (rejectFailed \/ r.kind = "reject")
    /\ UNCHANGED <<authenticated, expired, table, timer, due, acceptRequested,
                   rejectRequested, actions>>

\* The decision ends in an error.  Both handlers reset the accept button.
DecisionFails(s) ==
    LET r == requests[s] IN
    /\ r # None /\ r.kind \in {"accept", "reject"}
    /\ requests' = Send(s, None)
    /\ acceptRequested' = FALSE
    /\ rejectFailed' = (rejectFailed \/ r.kind = "reject")
    /\ UNCHANGED <<authenticated, expired, table, timer, due, rejectRequested, actions>>

Ends(s) ==
    \/ \E rows \in SUBSET Events : EventsArrive(s, rows)
    \/ EventsFail(s)
    \/ \E status \in {"success", "failure"} : DecisionAnswered(s, status)
    \/ DecisionFails(s)

-----------------------------------------------------------------------------

Next ==
    \/ Expire \/ Tick \/ Poll \/ Logout
    \/ \E e \in Events : Select(e)
    \/ \E x \in Schemas : Switch(x)
    \/ \E kind \in {"accept", "reject"} : Decide(kind)
    \/ \E s \in Slots : Ends(s)

Spec == Init /\ [][Next]_vars

\* The interval passes and the timer fires, every request is answered or
\* fails, and a backend that is asked for the events of the schema again and
\* again answers at last.  The user need not do anything.
Fairness ==
    /\ WF_vars(Tick) /\ WF_vars(Poll)
    /\ \A s \in Slots : WF_vars(Ends(s))
    /\ SF_vars(\E s \in Slots, rows \in SUBSET Events :
                  EventsArrive(s, rows) /\ requests[s].schema = schema)

FairSpec == Spec /\ Fairness

-----------------------------------------------------------------------------
(* Properties *)

\* Every variable keeps its type, and a row is selected when there is one.
TypeOK ==
    /\ authenticated \in BOOLEAN /\ expired \in BOOLEAN
    /\ schema \in Schemas
    /\ events \in [rows : SUBSET Events, from : Schemas \cup {None}]
    /\ IF events.rows = {} THEN eventIdentifier = None
                           ELSE eventIdentifier \in events.rows
    /\ timer \in Closures /\ due \in BOOLEAN
    /\ acceptRequested \in BOOLEAN /\ rejectRequested \in BOOLEAN
    /\ requests \in [Slots -> Request \cup {None}]
    /\ actions \in 0 .. MaxActions /\ rejectFailed \in BOOLEAN

\* Answers for a schema that is no longer chosen may come late and fill the
\* table (CCTReview.jsx:24-56), but they do not stay: once the user leaves the
\* settings alone, the page shows the events of the chosen schema for good.
ShowsChosenSchema ==
    <>[](authenticated => events.from = schema)

\* An answer leaves the user at the selected event, if it has it: also when
\* the event was selected while the request was under way, by a click on the
\* page that made it (the assignment at CCTReview.jsx:64).  Only a closure
\* that is astray takes the selection back to an earlier event.
SelectionKept ==
    [][\A s \in Slots :
          (/\ requests[s] # None /\ requests'[s] = None
           /\ requests[s].kind = "events" /\ ~ requests[s].closure.astray
           /\ eventIdentifier \in events'.rows)
             => eventIdentifier' = eventIdentifier]_vars

\* A button that is loading comes back (TableFit.jsx:260-315), but for the
\* reject button after an error, which nothing resets.
ButtonsReturn ==
    /\ acceptRequested ~> ~ acceptRequested
    /\ rejectRequested ~> (~ rejectRequested \/ rejectFailed)

\* Two accepts are under way at once only after a reject has failed, which
\* resets the accept button (TableFit.jsx:311) whatever that one waits for.
AcceptOnce ==
    \/ rejectFailed
    \/ Cardinality({s \in Slots : requests[s] # None /\ requests[s].kind = "accept"}) <= 1

\* A user whose token has expired is asked to log in, without doing anything.
ExpiryNoticed == expired ~> ~ authenticated

=============================================================================
