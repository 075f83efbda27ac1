-------------------------- MODULE CCTReview_proofs --------------------------
(***************************************************************************)
(* Proofs about CCTReview: types, the selection and the accept button, for *)
(* any number of events, schemas and requests under way.                   *)
(***************************************************************************)
EXTENDS CCTReview, FiniteSetTheorems, TLAPS

\* A closure that is not astray knows the event that is selected.
ClosuresKnow ==
    /\ timer.eventIdentifier = eventIdentifier /\ ~ timer.astray
    /\ \A s \in Slots : requests[s] # None =>
          requests[s].closure.astray \/ requests[s].closure.eventIdentifier = eventIdentifier

\* An accept under way has its button loading, until a reject fails.
AcceptHeld ==
    rejectFailed \/
        \A s \in Slots : requests[s] # None /\ requests[s].kind = "accept" =>
            /\ acceptRequested
            /\ \A t \in Slots : requests[t] # None /\ requests[t].kind = "accept" => t = s

\* The inductive invariant.
PageInvariant == TypeOK /\ ClosuresKnow /\ AcceptHeld

-----------------------------------------------------------------------------
(* Renders and closures *)

\* What a render makes of the requests under way: their closures are no longer
\* of the last one.
LEMMA RerenderRequests ==
    ASSUME NEW rs \in [Slots -> Request \cup {None}], Rerender(rs)
    PROVE  /\ requests' \in [Slots -> Request \cup {None}]
           /\ \A s \in Slots : requests'[s] # None =>
                 /\ rs[s] # None
                 /\ requests'[s].kind = rs[s].kind
                 /\ requests'[s].closure.eventIdentifier = rs[s].closure.eventIdentifier
                 /\ requests'[s].closure.astray = rs[s].closure.astray
  <1>1. requests' = [s \in Slots |-> IF rs[s] = None THEN None
                       ELSE [rs[s] EXCEPT !.closure = [rs[s].closure EXCEPT !.ofRender = FALSE]]]
    BY DEF Rerender, WithClosures
  <1>. QED
    BY <1>1 DEF Request, Closures

\* After a render everything under way knows the selected event, if the
\* closures of rs do.
LEMMA RerenderFits ==
    ASSUME NEW rs \in [Slots -> Request \cup {None}], Rerender(rs),
           schema' \in Schemas, eventIdentifier' \in Events \cup {None},
           \A s \in Slots : rs[s] # None =>
              rs[s].closure.astray \/ rs[s].closure.eventIdentifier = eventIdentifier'
    PROVE  /\ ClosuresKnow'
           /\ requests' \in [Slots -> Request \cup {None}]
           /\ timer' \in Closures /\ due' \in BOOLEAN
           /\ \A s \in Slots : requests'[s] # None =>
                 rs[s] # None /\ requests'[s].kind = rs[s].kind
  <1>1. timer' = [schema |-> schema', eventIdentifier |-> eventIdentifier',
                  ofRender |-> TRUE, ofSettings |-> TRUE, astray |-> FALSE]
    BY DEF Rerender, Closure
  <1>2. due' = FALSE
    BY DEF Rerender
  <1>3. timer' \in Closures /\ timer'.eventIdentifier = eventIdentifier' /\ ~ timer'.astray
    BY <1>1 DEF Closures
  <1>4. \A s \in Slots : requests'[s] # None =>
          requests'[s].closure.astray \/ requests'[s].closure.eventIdentifier = eventIdentifier'
    BY RerenderRequests
  <1>. QED
    BY <1>2, <1>3, <1>4, RerenderRequests DEF ClosuresKnow

\* Sending one more request, or ending one, in slot s.
LEMMA SendFits ==
    ASSUME TypeOK, NEW s \in Slots, NEW r \in Request \cup {None}
    PROVE  /\ Send(s, r) \in [Slots -> Request \cup {None}]
           /\ Send(s, r)[s] = r
           /\ \A t \in Slots \ {s} : Send(s, r)[t] = requests[t]
  BY DEF TypeOK, Send, Request

\* A request for events (getLightWeightDataFromAPI.js:16-42).
LEMMA GetEventsFits ==
    ASSUME NEW c \in Closures
    PROVE  /\ GetEvents(c) \in Request /\ GetEvents(c).kind = "events"
           /\ GetEvents(c).closure = c
  BY DEF GetEvents, Request, Closures

\* The closure of the last render.
LEMMA ClosureFits ==
    ASSUME TypeOK
    PROVE  /\ Closure \in Closures
           /\ Closure.eventIdentifier = eventIdentifier /\ Closure.astray = FALSE
  BY DEF TypeOK, Closure, Closures

\* The page is mounted.
LEMMA PageInit == Init => PageInvariant
  <1>. SUFFICES ASSUME Init PROVE PageInvariant
    OBVIOUS
  <1>1. Closure \in Closures /\ Closure.eventIdentifier = None /\ Closure.astray = FALSE
    BY PageAssumption DEF Init, Closure, Closures
  <1>2. \A s \in Slots : requests[s] # None => requests[s] = GetEvents(Closure)
    BY DEF Init
  <1>3. requests \in [Slots -> Request \cup {None}]
    BY <1>1, GetEventsFits DEF Init
  <1>4. \A s \in Slots : requests[s] # None =>
          requests[s].kind = "events" /\ requests[s].closure.eventIdentifier = None
    BY <1>1, <1>2, GetEventsFits
  <1>5. TypeOK
    <2>1. /\ authenticated \in BOOLEAN /\ expired \in BOOLEAN /\ due \in BOOLEAN
          /\ acceptRequested \in BOOLEAN /\ rejectRequested \in BOOLEAN
          /\ rejectFailed \in BOOLEAN
      BY DEF Init
    <2>2. actions \in 0 .. MaxActions
      BY PageAssumption DEF Init
    <2>3. /\ events \in [rows : SUBSET Events, from : Schemas \cup {None}]
          /\ events.rows = {} /\ eventIdentifier = None
      BY DEF Init
    <2>4. timer \in Closures /\ schema \in Schemas
      BY <1>1, PageAssumption DEF Init
    <2>. QED
      BY <1>3, <2>1, <2>2, <2>3, <2>4 DEF TypeOK, Request
  <1>6. ClosuresKnow
    BY <1>1, <1>4 DEF Init, ClosuresKnow
  <1>7. AcceptHeld
    BY <1>4 DEF AcceptHeld
  <1>. QED
    BY <1>5, <1>6, <1>7 DEF PageInvariant

-----------------------------------------------------------------------------
(* Every step keeps the invariant *)

\* No accept is sent, and the button of one under way stays as it is.
LEMMA NoNewAccept ==
    ASSUME AcceptHeld, acceptRequested' = acceptRequested, rejectFailed => rejectFailed',
           \A s \in Slots : requests'[s] # None /\ requests'[s].kind = "accept" =>
              requests[s] # None /\ requests[s].kind = "accept"
    PROVE  AcceptHeld'
  BY DEF AcceptHeld

\* What the user may still do.
LEMMA ActCounts == TypeOK /\ Act => actions' \in 0 .. MaxActions
  BY PageAssumption DEF TypeOK, Act

\* App shows the login again (App.jsx:90-121).
LEMMA LeaveKeeps ==
    ASSUME PageInvariant, Leave, actions' \in 0 .. MaxActions
    PROVE  PageInvariant'
  <1>. USE DEF PageInvariant, Leave, table
  <1>1. \A s \in Slots : requests'[s] = None
    OBVIOUS
  <1>2. TypeOK'
    <2>1. authenticated' \in BOOLEAN /\ due' \in BOOLEAN
          /\ acceptRequested' \in BOOLEAN /\ rejectRequested' \in BOOLEAN
      OBVIOUS
    <2>. QED
      BY <2>1 DEF TypeOK
  <1>. QED
    BY <1>1, <1>2 DEF ClosuresKnow, AcceptHeld

\* The clock.
LEMMA ClockKeeps ==
    ASSUME PageInvariant, Expire \/ Tick
    PROVE  PageInvariant'
  <1>. USE DEF PageInvariant, table, buttons
  <1>1. UNCHANGED <<authenticated, table, timer, buttons, requests, actions>>
    BY DEF Expire, Tick
  <1>2. expired' \in BOOLEAN /\ due' \in BOOLEAN
    <2>1. CASE Expire
      BY <2>1 DEF Expire, TypeOK
    <2>2. CASE Tick
      BY <2>2 DEF Tick, TypeOK
    <2>. QED
      BY <2>1, <2>2
  <1>. QED
    BY <1>1, <1>2 DEF TypeOK, ClosuresKnow, AcceptHeld

\* The interval of the timer is over (getLightWeightDataFromAPI.js:4-42).
LEMMA PollKeeps ==
    ASSUME PageInvariant, Poll
    PROVE  PageInvariant'
  <1>. USE DEF PageInvariant
  <1>1. actions' \in 0 .. MaxActions
    BY DEF Poll, TypeOK
  <1>2. ASSUME NEW s \in Free, requests' = Send(s, GetEvents(timer)), due' = FALSE,
               UNCHANGED <<authenticated, expired, table, timer, buttons, actions>>
        PROVE  PageInvariant'
    <2>. USE DEF table, buttons
    <2>1. /\ s \in Slots /\ timer \in Closures /\ GetEvents(timer) \in Request
          /\ GetEvents(timer).kind = "events" /\ GetEvents(timer).closure = timer
      BY <1>2, GetEventsFits DEF Free, TypeOK
    <2>2. /\ requests' \in [Slots -> Request \cup {None}]
          /\ requests'[s] = GetEvents(timer)
          /\ \A t \in Slots \ {s} : requests'[t] = requests[t]
      BY <1>2, <2>1, SendFits
    <2>3. TypeOK'
      <3>1. due' \in BOOLEAN
        BY <1>2
      <3>. QED
        BY <1>2, <2>2, <3>1 DEF TypeOK, Request
    <2>4. ClosuresKnow'
      BY <1>2, <2>1, <2>2 DEF ClosuresKnow
    <2>5. AcceptHeld'
      BY <1>2, <2>1, <2>2, NoNewAccept
    <2>. QED
      BY <2>3, <2>4, <2>5
  <1>. QED
    BY <1>1, <1>2, LeaveKeeps DEF Poll

\* A row is selected (CCTReview.jsx:58-70).
LEMMA SelectKeeps ==
    ASSUME PageInvariant, NEW e \in Events, Select(e)
    PROVE  PageInvariant'
  <1>. USE DEF PageInvariant
  <1>. DEFINE rs == WithClosures(requests, LAMBDA c : Clicked(c, e))
  <1>1. /\ actions' \in 0 .. MaxActions /\ e \in events.rows
        /\ eventIdentifier' = e /\ eventIdentifier' \in Events \cup {None}
        /\ UNCHANGED <<authenticated, expired, schema, events, buttons>>
        /\ Rerender(rs)
    BY ActCounts DEF Select
  <1>2. rs = [s \in Slots |-> IF requests[s] = None THEN None
                ELSE [requests[s] EXCEPT !.closure = Clicked(requests[s].closure, e)]]
    BY DEF WithClosures
  <1>3. \A c \in Closures : /\ Clicked(c, e) \in Closures
                            /\ Clicked(c, e).astray \/ Clicked(c, e).eventIdentifier = e
    BY DEF Clicked, Closures
  <1>4. requests \in [Slots -> Request \cup {None}]
    BY DEF TypeOK, Request
  <1>5. ASSUME NEW s \in Slots
        PROVE  /\ rs[s] \in Request \cup {None}
               /\ rs[s] # None =>
                     /\ requests[s] # None /\ rs[s].kind = requests[s].kind
                     /\ rs[s].closure.astray \/ rs[s].closure.eventIdentifier = e
    <2>1. CASE requests[s] = None
      BY <1>2, <2>1
    <2>2. CASE requests[s] # None
      <3>1. requests[s] \in Request /\ requests[s].closure \in Closures
        BY <1>4, <2>2 DEF Request
      <3>2. rs[s] = [requests[s] EXCEPT !.closure = Clicked(requests[s].closure, e)]
        BY <1>2, <2>2
      <3>3. /\ rs[s] \in Request /\ rs[s].kind = requests[s].kind
            /\ rs[s].closure = Clicked(requests[s].closure, e)
        BY <1>3, <3>1, <3>2 DEF Request
      <3>. QED
        BY <1>3, <2>2, <3>1, <3>3
    <2>. QED
      BY <2>1, <2>2
  <1>6. rs \in [Slots -> Request \cup {None}]
    BY <1>2, <1>5
  <1>. HIDE DEF rs
  <1>7. /\ ClosuresKnow'
        /\ requests' \in [Slots -> Request \cup {None}]
        /\ timer' \in Closures /\ due' \in BOOLEAN
        /\ \A s \in Slots : requests'[s] # None =>
              rs[s] # None /\ requests'[s].kind = rs[s].kind
    BY <1>1, <1>5, <1>6, RerenderFits DEF TypeOK
  <1>8. TypeOK'
    BY <1>1, <1>7 DEF TypeOK, Request, buttons
  <1>9. AcceptHeld'
    BY <1>1, <1>5, <1>7, NoNewAccept DEF buttons
  <1>. QED
    BY <1>7, <1>8, <1>9

\* Another schema is chosen (CCTReview.jsx:72-105).
LEMMA SwitchKeeps ==
    ASSUME PageInvariant, NEW x \in Schemas, Switch(x)
    PROVE  PageInvariant'
  <1>. USE DEF PageInvariant
  <1>1. actions' \in 0 .. MaxActions
    BY ActCounts DEF Switch
  <1>. DEFINE mine == [Closure EXCEPT !.schema = x]
              seen(c) == [c EXCEPT !.schema = IF c.ofSettings THEN x ELSE @,
                                   !.ofSettings = FALSE]
              sent(s) == Send(s, GetEvents(mine))
              rs(s) == WithClosures(sent(s), seen)
  <1>2. ASSUME NEW s \in Free, schema' = x, Rerender(rs(s)),
               UNCHANGED <<authenticated, expired, events, eventIdentifier, buttons>>
        PROVE  PageInvariant'
    <2>1. /\ mine \in Closures /\ mine.eventIdentifier = eventIdentifier
          /\ s \in Slots
      BY ClosureFits DEF Closures, Free
    <2>2. /\ sent(s) \in [Slots -> Request \cup {None}]
          /\ sent(s)[s] = GetEvents(mine) /\ GetEvents(mine).kind = "events"
          /\ GetEvents(mine).closure = mine
          /\ \A t \in Slots \ {s} : sent(s)[t] = requests[t]
      <3>. HIDE DEF mine
      <3>1. GetEvents(mine) \in Request /\ GetEvents(mine).kind = "events"
            /\ GetEvents(mine).closure = mine
        BY <2>1, GetEventsFits
      <3>. DEFINE g == GetEvents(mine)
      <3>. HIDE DEF g
      <3>2. /\ Send(s, g) \in [Slots -> Request \cup {None}]
            /\ Send(s, g)[s] = g
            /\ \A t \in Slots \ {s} : Send(s, g)[t] = requests[t]
        BY <2>1, <3>1, SendFits DEF g
      <3>. QED
        BY <3>1, <3>2 DEF g
    <2>3. \A c \in Closures : /\ seen(c) \in Closures
                              /\ seen(c).astray = c.astray
                              /\ seen(c).eventIdentifier = c.eventIdentifier
      BY DEF Closures
    <2>4. rs(s) = [t \in Slots |-> IF sent(s)[t] = None THEN None
                     ELSE [sent(s)[t] EXCEPT !.closure = seen(sent(s)[t].closure)]]
      BY DEF WithClosures
    <2>5. eventIdentifier \in Events \cup {None}
      BY DEF TypeOK
    <2>6. \A t \in Slots : sent(s)[t] # None =>
            /\ sent(s)[t].closure.astray \/ sent(s)[t].closure.eventIdentifier = eventIdentifier
            /\ sent(s)[t].kind = "accept" => requests[t] # None /\ requests[t].kind = "accept"
      BY <2>1, <2>2 DEF ClosuresKnow
    <2>. HIDE DEF mine, seen, sent
    <2>7. ASSUME NEW t \in Slots
          PROVE  /\ rs(s)[t] \in Request \cup {None}
                 /\ rs(s)[t] # None =>
                       /\ sent(s)[t] # None /\ rs(s)[t].kind = sent(s)[t].kind
                       /\ \/ rs(s)[t].closure.astray
                          \/ rs(s)[t].closure.eventIdentifier = eventIdentifier
      <3>1. CASE sent(s)[t] = None
        BY <2>4, <3>1
      <3>2. CASE sent(s)[t] # None
        <4>1. sent(s)[t] \in Request /\ sent(s)[t].closure \in Closures
          BY <2>2, <3>2 DEF Request
        <4>2. rs(s)[t] = [sent(s)[t] EXCEPT !.closure = seen(sent(s)[t].closure)]
          BY <2>4, <3>2
        <4>3. /\ rs(s)[t] \in Request /\ rs(s)[t].kind = sent(s)[t].kind
              /\ rs(s)[t].closure = seen(sent(s)[t].closure)
          BY <2>3, <4>1, <4>2 DEF Request
        <4>. QED
          BY <2>3, <2>6, <3>2, <4>1, <4>3
      <3>. QED
        BY <3>1, <3>2
    <2>8. rs(s) \in [Slots -> Request \cup {None}]
      BY <2>4, <2>7
    <2>. HIDE DEF rs
    <2>9. /\ ClosuresKnow'
          /\ requests' \in [Slots -> Request \cup {None}]
          /\ timer' \in Closures /\ due' \in BOOLEAN
          /\ \A t \in Slots : requests'[t] # None =>
                rs(s)[t] # None /\ requests'[t].kind = rs(s)[t].kind
      BY <1>2, <2>5, <2>7, <2>8, RerenderFits
    <2>10. TypeOK'
      BY <1>1, <1>2, <2>9 DEF TypeOK, Request, buttons
    <2>11. AcceptHeld'
      BY <1>2, <2>6, <2>7, <2>9, NoNewAccept DEF buttons
    <2>. QED
      BY <2>9, <2>10, <2>11
  <1>. QED
    BY <1>1, <1>2, LeaveKeeps DEF Switch

\* acceptMagnitude and rejectMagnitude (TableFit.jsx:260-315).
LEMMA DecideKeeps ==
    ASSUME PageInvariant, NEW kind \in {"accept", "reject"}, Decide(kind)
    PROVE  PageInvariant'
  <1>. USE DEF PageInvariant
  <1>1. actions' \in 0 .. MaxActions
    BY ActCounts DEF Decide
  <1>. DEFINE r == [kind |-> kind, schema |-> schema, closure |-> Closure]
  <1>2. ASSUME NEW s \in Free, requests' = Send(s, r),
               acceptRequested' = (kind = "accept" \/ acceptRequested),
               rejectRequested' = (kind = "reject" \/ rejectRequested),
               kind = "accept" => ~ acceptRequested,
               UNCHANGED <<authenticated, expired, table, timer, due, rejectFailed>>
        PROVE  PageInvariant'
    <2>. USE DEF table
    <2>1. /\ s \in Slots /\ r \in Request /\ r.kind = kind
          /\ r.closure.eventIdentifier = eventIdentifier
      BY ClosureFits DEF Free, Request, TypeOK
    <2>. HIDE DEF r
    <2>2. /\ requests' \in [Slots -> Request \cup {None}]
          /\ requests'[s] = r
          /\ \A t \in Slots \ {s} : requests'[t] = requests[t]
      BY <1>2, <2>1, SendFits
    <2>3. acceptRequested' \in BOOLEAN /\ rejectRequested' \in BOOLEAN
      BY <1>2
    <2>4. TypeOK'
      BY <1>1, <1>2, <2>2, <2>3 DEF TypeOK, Request
    <2>5. ClosuresKnow'
      BY <1>2, <2>1, <2>2 DEF ClosuresKnow
    <2>6. AcceptHeld'
      BY <1>2, <2>1, <2>2 DEF AcceptHeld
    <2>. QED
      BY <2>4, <2>5, <2>6
  <1>3. \/ Leave
        \/ \E s \in Free :
              /\ requests' = Send(s, r)
              /\ acceptRequested' = (kind = "accept" \/ acceptRequested)
              /\ rejectRequested' = (kind = "reject" \/ rejectRequested)
              /\ kind = "accept" => ~ acceptRequested
              /\ UNCHANGED <<authenticated, expired, table, timer, due, rejectFailed>>
    BY DEF Decide
  <1>. QED
    BY <1>1, <1>2, <1>3, LeaveKeeps

\* A request for events ends in an error (CCTReview.jsx:53-56).
LEMMA EventsFailKeeps ==
    ASSUME PageInvariant, NEW s \in Slots, EventsFail(s)
    PROVE  PageInvariant'
  <1>. USE DEF PageInvariant, EventsFail, table, buttons
  <1>1. /\ requests' \in [Slots -> Request \cup {None}]
        /\ requests'[s] = None
        /\ \A t \in Slots \ {s} : requests'[t] = requests[t]
    BY SendFits
  <1>2. TypeOK'
    BY <1>1 DEF TypeOK, Request
  <1>3. ClosuresKnow'
    BY <1>1 DEF ClosuresKnow
  <1>4. AcceptHeld'
    BY <1>1, NoNewAccept
  <1>. QED
    BY <1>2, <1>3, <1>4

\* The events of an answer fill the table (CCTReview.jsx:24-52).
LEMMA EventsArriveKeeps ==
    ASSUME PageInvariant, NEW s \in Slots, NEW rows \in SUBSET Events, EventsArrive(s, rows)
    PROVE  PageInvariant'
  <1>. USE DEF PageInvariant
  <1>. DEFINE moved == eventIdentifier' # eventIdentifier
              seen(c) == [c EXCEPT !.astray = @ \/ eventIdentifier' # eventIdentifier]
              sent == Send(s, None)
              rs == WithClosures(sent, seen)
  <1>1. /\ requests[s] \in Request
        /\ events' = [rows |-> rows, from |-> requests[s].schema]
        /\ UNCHANGED <<authenticated, expired, schema, buttons, actions>>
        /\ Rerender(rs)
    BY DEF EventsArrive, TypeOK, Request
  <1>2. eventIdentifier' \in Events \cup {None}
        /\ IF rows = {} THEN eventIdentifier' = None ELSE eventIdentifier' \in rows
    BY DEF EventsArrive
  <1>3. events' \in [rows : SUBSET Events, from : Schemas \cup {None}] /\ events'.rows = rows
    BY <1>1 DEF Request
  <1>4. /\ sent \in [Slots -> Request \cup {None}] /\ sent[s] = None
        /\ \A t \in Slots \ {s} : sent[t] = requests[t]
    BY SendFits
  <1>5. \A c \in Closures : /\ seen(c) \in Closures
                            /\ seen(c).eventIdentifier = c.eventIdentifier
                            /\ seen(c).astray = (c.astray \/ eventIdentifier' # eventIdentifier)
    BY DEF Closures
  <1>6. rs = [t \in Slots |-> IF sent[t] = None THEN None
                 ELSE [sent[t] EXCEPT !.closure = seen(sent[t].closure)]]
    BY DEF WithClosures
  <1>. HIDE DEF seen, sent
  <1>7. ASSUME NEW t \in Slots
        PROVE  /\ rs[t] \in Request \cup {None}
               /\ rs[t] # None =>
                     /\ requests[t] # None /\ rs[t].kind = requests[t].kind
                     /\ \/ rs[t].closure.astray
                        \/ rs[t].closure.eventIdentifier = eventIdentifier'
    <2>1. CASE sent[t] = None
      BY <1>6, <2>1
    <2>2. CASE sent[t] # None
      <3>1. /\ sent[t] \in Request /\ sent[t].closure \in Closures
            /\ sent[t] = requests[t]
        BY <1>4, <2>2 DEF Request
      <3>2. rs[t] = [sent[t] EXCEPT !.closure = seen(sent[t].closure)]
        BY <1>6, <2>2
      <3>3. /\ rs[t] \in Request /\ rs[t].kind = sent[t].kind
            /\ rs[t].closure = seen(sent[t].closure)
        BY <1>5, <3>1, <3>2 DEF Request
      <3>4. sent[t].closure.astray \/ sent[t].closure.eventIdentifier = eventIdentifier
        BY <2>2, <3>1 DEF ClosuresKnow
      <3>5. seen(sent[t].closure).astray \/
            seen(sent[t].closure).eventIdentifier = eventIdentifier'
        BY <1>5, <3>1, <3>4
      <3>. QED
        BY <2>2, <3>1, <3>3, <3>5
    <2>. QED
      BY <2>1, <2>2
  <1>8. rs \in [Slots -> Request \cup {None}]
    BY <1>6, <1>7
  <1>. HIDE DEF rs
  <1>9. /\ ClosuresKnow'
        /\ requests' \in [Slots -> Request \cup {None}]
        /\ timer' \in Closures /\ due' \in BOOLEAN
        /\ \A t \in Slots : requests'[t] # None =>
              rs[t] # None /\ requests'[t].kind = rs[t].kind
    BY <1>1, <1>2, <1>7, <1>8, RerenderFits DEF TypeOK
  <1>10. TypeOK'
    BY <1>1, <1>2, <1>3, <1>9 DEF TypeOK, Request, buttons
  <1>11. AcceptHeld'
    BY <1>1, <1>7, <1>9, NoNewAccept DEF buttons
  <1>. QED
    BY <1>9, <1>10, <1>11

\* A decision is answered (TableFit.jsx:263-309).
LEMMA DecisionAnsweredKeeps ==
    ASSUME PageInvariant, NEW s \in Slots, NEW status, DecisionAnswered(s, status)
    PROVE  PageInvariant'
  <1>. USE DEF PageInvariant
  <1>. DEFINE r == requests[s]
  <1>1. /\ r \in Request /\ r # None /\ r.kind \in {"accept", "reject"}
        /\ r.closure \in Closures
    BY DEF DecisionAnswered, TypeOK, Request
  <1>2. actions' \in 0 .. MaxActions
    BY DEF DecisionAnswered, TypeOK
  <1>. DEFINE g == IF status = "success" THEN GetEvents(r.closure) ELSE None
  <1>3. /\ g \in Request \cup {None}
        /\ g # None => g.kind = "events" /\ g.closure = r.closure
    BY <1>1, GetEventsFits
  <1>4. CASE /\ requests' = Send(s, g)
             /\ acceptRequested' = (acceptRequested /\ r.kind # "accept")
             /\ rejectRequested' = (rejectRequested /\ r.kind # "reject")
             /\ UNCHANGED <<authenticated, expired, table, timer, due, rejectFailed>>
    <2>. USE DEF table
    <2>. HIDE DEF g
    <2>1. /\ requests' \in [Slots -> Request \cup {None}]
          /\ requests'[s] = g
          /\ \A t \in Slots \ {s} : requests'[t] = requests[t]
      BY <1>3, <1>4, SendFits
    <2>2. acceptRequested' \in BOOLEAN /\ rejectRequested' \in BOOLEAN
      BY <1>4
    <2>3. TypeOK'
      BY <1>2, <1>4, <2>1, <2>2 DEF TypeOK, Request
    <2>4. ClosuresKnow'
      BY <1>1, <1>3, <1>4, <2>1 DEF ClosuresKnow
    <2>5. AcceptHeld'
      BY <1>1, <1>3, <1>4, <2>1 DEF AcceptHeld
    <2>. QED
      BY <2>3, <2>4, <2>5
  <1>5. CASE Leave
    BY <1>2, <1>5, LeaveKeeps
  <1>. QED
    BY <1>4, <1>5 DEF DecisionAnswered

\* A decision ends in an error (TableFit.jsx:279-283, 310-313).
LEMMA DecisionFailsKeeps ==
    ASSUME PageInvariant, NEW s \in Slots, DecisionFails(s)
    PROVE  PageInvariant'
  <1>. USE DEF PageInvariant
  <1>1. /\ requests[s] # None /\ requests[s].kind \in {"accept", "reject"}
        /\ requests' = Send(s, None)
        /\ acceptRequested' = FALSE
        /\ rejectFailed' = (rejectFailed \/ requests[s].kind = "reject")
        /\ UNCHANGED <<authenticated, expired, table, timer, due, rejectRequested, actions>>
    BY DEF DecisionFails
  <1>2. /\ requests' \in [Slots -> Request \cup {None}]
        /\ requests'[s] = None
        /\ \A t \in Slots \ {s} : requests'[t] = requests[t]
    BY <1>1, SendFits
  <1>3. acceptRequested' \in BOOLEAN /\ rejectFailed' \in BOOLEAN
    BY <1>1
  <1>4. TypeOK'
    BY <1>1, <1>2, <1>3 DEF TypeOK, Request, table
  <1>5. ClosuresKnow'
    BY <1>1, <1>2 DEF ClosuresKnow, table
  <1>6. AcceptHeld'
    BY <1>1, <1>2 DEF AcceptHeld
  <1>. QED
    BY <1>4, <1>5, <1>6

\* Every step keeps the invariant.
LEMMA PageStep == PageInvariant /\ [Next]_vars => PageInvariant'
  <1>. SUFFICES ASSUME PageInvariant, [Next]_vars
                PROVE  PageInvariant'
    OBVIOUS
  <1>1. CASE Expire \/ Tick
    BY <1>1, ClockKeeps
  <1>2. CASE Poll
    BY <1>2, PollKeeps
  <1>3. CASE Logout
    BY <1>3, ActCounts, LeaveKeeps DEF Logout, PageInvariant
  <1>4. CASE \E e \in Events : Select(e)
    BY <1>4, SelectKeeps
  <1>5. CASE \E x \in Schemas : Switch(x)
    BY <1>5, SwitchKeeps
  <1>6. CASE \E kind \in {"accept", "reject"} : Decide(kind)
    BY <1>6, DecideKeeps
  <1>7. ASSUME NEW s \in Slots, Ends(s)
        PROVE  PageInvariant'
    BY <1>7, EventsArriveKeeps, EventsFailKeeps, DecisionAnsweredKeeps, DecisionFailsKeeps DEF Ends
  <1>8. CASE UNCHANGED vars
    BY <1>8 DEF vars, table, buttons, PageInvariant, TypeOK, ClosuresKnow, AcceptHeld
  <1>. QED
    BY <1>1, <1>2, <1>3, <1>4, <1>5, <1>6, <1>7, <1>8 DEF Next

\* The invariant holds in every reachable state.
THEOREM InvariantHolds == Spec => []PageInvariant
  BY PageInit, PageStep, PTL DEF Spec

\* Every variable keeps its type, and a row is selected when there is one.
THEOREM TypeCorrect == Spec => []TypeOK
  <1>1. PageInvariant => TypeOK
    BY DEF PageInvariant
  <1>. QED
    BY <1>1, InvariantHolds, PTL

\* One accept at a time, until a reject fails (TableFit.jsx:311).
THEOREM OneAccept == Spec => []AcceptOnce
  <1>1. PageInvariant => AcceptOnce
    <2>. SUFFICES ASSUME PageInvariant, ~ rejectFailed
                  PROVE  AcceptOnce
      BY DEF AcceptOnce
    <2>. DEFINE under == {s \in Slots : requests[s] # None /\ requests[s].kind = "accept"}
    <2>1. under = {} \/ \E s \in Slots : under = {s}
      BY DEF PageInvariant, AcceptHeld
    <2>2. CASE under = {}
      <3>1. Cardinality(under) = 0
        BY <2>2, FS_EmptySet
      <3>. QED
        BY <3>1 DEF AcceptOnce
    <2>3. ASSUME NEW s \in Slots, under = {s}
          PROVE  AcceptOnce
      <3>1. Cardinality(under) = 1
        BY <2>3, FS_Singleton
      <3>. QED
        BY <3>1 DEF AcceptOnce
    <2>. QED
      BY <2>1, <2>2, <2>3
  <1>. QED
    BY <1>1, InvariantHolds, PTL

\* A render ends no request.
LEMMA RenderEndsNothing ==
    ASSUME NEW rs \in [Slots -> Request \cup {None}], Rerender(rs),
           NEW s \in Slots, rs[s] # None
    PROVE  requests'[s] # None
  <1>1. requests'[s] = [rs[s] EXCEPT !.closure = [rs[s].closure EXCEPT !.ofRender = FALSE]]
    BY DEF Rerender, WithClosures
  <1>2. rs[s] \in Request /\ rs[s].closure \in Closures
    BY DEF Request
  <1>3. [rs[s].closure EXCEPT !.ofRender = FALSE] \in Closures
    BY <1>2 DEF Closures
  <1>4. requests'[s] \in Request
    BY <1>1, <1>2, <1>3 DEF Request
  <1>. QED
    BY <1>4, PageAssumption

\* The answer to one request ends no other one.
LEMMA AnswerEndsOne ==
    ASSUME TypeOK, NEW t \in Slots, NEW rows \in SUBSET Events, EventsArrive(t, rows),
           NEW s \in Slots \ {t}, requests[s] # None
    PROVE  requests'[s] # None
  <1>. DEFINE sent == Send(t, None)
              seen(c) == [c EXCEPT !.astray = @ \/ eventIdentifier' # eventIdentifier]
              rs == WithClosures(sent, seen)
  <1>1. sent \in [Slots -> Request \cup {None}] /\ sent[s] # None
    BY SendFits
  <1>2. Rerender(rs)
    BY DEF EventsArrive
  <1>3. rs = [z \in Slots |-> IF sent[z] = None THEN None
                ELSE [sent[z] EXCEPT !.closure = seen(sent[z].closure)]]
    BY DEF WithClosures
  <1>4. \A c \in Closures : seen(c) \in Closures
    BY DEF Closures
  <1>. HIDE DEF sent, seen
  <1>5. ASSUME NEW z \in Slots, sent[z] # None
        PROVE  rs[z] \in Request
    <2>1. sent[z] \in Request /\ sent[z].closure \in Closures
      BY <1>1, <1>5 DEF Request
    <2>. QED
      BY <1>3, <1>5, <1>4, <2>1 DEF Request
  <1>6. rs \in [Slots -> Request \cup {None}]
    BY <1>3, <1>5
  <1>7. rs[s] # None
    BY <1>1, <1>5, PageAssumption
  <1>. HIDE DEF rs
  <1>. QED
    BY <1>2, <1>6, <1>7, RenderEndsNothing

\* An answer leaves the selection, unless its closure is astray
\* (CCTReview.jsx:33-45, 64).
THEOREM SelectionStays == Spec => SelectionKept
  <1>. DEFINE Kept == \A s \in Slots :
          (/\ requests[s] # None /\ requests'[s] = None
           /\ requests[s].kind = "events" /\ ~ requests[s].closure.astray
           /\ eventIdentifier \in events'.rows)
             => eventIdentifier' = eventIdentifier
  <1>1. ASSUME PageInvariant, Next, NEW s \in Slots,
               requests[s] # None, requests'[s] = None,
               requests[s].kind = "events", ~ requests[s].closure.astray,
               eventIdentifier \in events'.rows
        PROVE  eventIdentifier' = eventIdentifier
    <2>. TypeOK
      BY <1>1 DEF PageInvariant
    <2>1. requests[s].closure.eventIdentifier = eventIdentifier
      BY <1>1 DEF PageInvariant, ClosuresKnow
    <2>2. ASSUME NEW t \in Slots, NEW rows \in SUBSET Events, EventsArrive(t, rows)
          PROVE  eventIdentifier' = eventIdentifier
      <3>1. t = s
        BY <1>1, <2>2, AnswerEndsOne
      <3>2. events'.rows = rows
        BY <2>2 DEF EventsArrive
      <3>. QED
        BY <1>1, <2>1, <2>2, <3>1, <3>2 DEF EventsArrive
    <2>3. ASSUME NEW e \in Events, Select(e)
          PROVE  FALSE
      <3>. DEFINE f(c) == Clicked(c, e)
                  rs == WithClosures(requests, f)
      <3>1. Rerender(rs)
        BY <2>3 DEF Select
      <3>2. \A z \in Slots : requests[z] # None => rs[z] \in Request
        BY DEF TypeOK, WithClosures, Clicked, Request, Closures
      <3>3. rs \in [Slots -> Request \cup {None}]
        BY <3>2 DEF WithClosures
      <3>4. rs[s] # None
        BY <1>1, <3>2, PageAssumption
      <3>. HIDE DEF rs
      <3>. QED
        BY <1>1, <3>1, <3>3, <3>4, RenderEndsNothing
    <2>4. ASSUME NEW x \in Schemas, Switch(x)
          PROVE  eventIdentifier' = eventIdentifier
      BY <2>4 DEF Switch, Leave, table
    <2>5. ASSUME NEW kind \in {"accept", "reject"}, Decide(kind)
          PROVE  eventIdentifier' = eventIdentifier
      BY <2>5 DEF Decide, Leave, table
    <2>6. CASE Expire \/ Tick \/ Poll \/ Logout
      BY <2>6 DEF Expire, Tick, Poll, Logout, Leave, table
    <2>7. ASSUME NEW t \in Slots,
                 \/ EventsFail(t)
                 \/ \E status \in {"success", "failure"} : DecisionAnswered(t, status)
                 \/ DecisionFails(t)
          PROVE  eventIdentifier' = eventIdentifier
      BY <2>7 DEF EventsFail, DecisionAnswered, DecisionFails, Leave, table
    <2>. QED
      BY <1>1, <2>2, <2>3, <2>4, <2>5, <2>6, <2>7 DEF Next, Ends
  <1>2. PageInvariant /\ [Next]_vars => [Kept]_vars
    BY <1>1
  <1>. HIDE DEF Kept
  <1>3. Spec => [][Kept]_vars
    BY <1>2, InvariantHolds, PTL DEF Spec
  <1>. QED
    BY <1>3 DEF Kept, SelectionKept

=============================================================================
