--------------------------- MODULE Server_proofs ---------------------------
(***************************************************************************)
(* Proofs about Server: types, and what a client may rely on, for any      *)
(* number of connections, threads, descriptors and messages.               *)
(***************************************************************************)
EXTENDS Server, TLAPS

\* A connection waits in the backlog at most once, and has no session yet.
BacklogFits ==
    /\ \A c \in Connections : client[c] = "away" =>
          stage[c] = "none" /\ \A i \in DOMAIN backlog : backlog[i] # c
    /\ \A i, j \in DOMAIN backlog : backlog[i] = backlog[j] => i = j

\* An answer that is owed is being made or written, or never will be, and
\* after a success the answer that is written closes the connection.
AnswersFit ==
    /\ \A c \in owed : stage[c] \in {"handling", "writing", "gone"}
    /\ \A c \in success : \/ stage[c] = "writing" /\ answer[c].keepAlive = FALSE
                          \/ stage[c] = "gone"

\* The inductive invariant.
ServerInvariant == TypeOK /\ BacklogFits /\ AnswersFit

Stages == {"none", "detecting", "shaking", "reading", "handling", "writing", "gone"}

Answers == [status : Statuses \cup {"none"}, keepAlive : BOOLEAN]

-----------------------------------------------------------------------------

\* handleRequest gives every request an answer (server.hpp:158-392).
LEMMA AnswersTyped ==
    ASSUME NEW m \in [kind : Kinds, keepAlive : BOOLEAN], NEW outcome \in Outcomes
    PROVE  /\ ServiceAnswer(m, outcome) \in Answers
           /\ optionsHandler(m) \in Answers /\ badRequest(m) \in Answers
  BY DEF ServiceAnswer, Payload, forbidden, unimplemented, badRequest, serverError,
         optionsHandler, Answers, Statuses, Outcomes

\* The server starts in the invariant.
LEMMA InvariantInit == Init => ServerInvariant
  BY ServerAssumption DEF Init, ServerInvariant, TypeOK, BacklogFits, AnswersFit,
         NoAnswer, Open, Statuses

-----------------------------------------------------------------------------
(* Every step keeps the invariant *)

\* A handler that gives a session another stage, deadline and answer leaves
\* the backlog in order.
LEMMA SessionFits ==
    ASSUME TypeOK, BacklogFits, NEW c \in Connections,
           NEW s \in Stages \ {"none"}, NEW d \in {"none", "running", "passed"},
           NEW a \in Answers,
           stage[c] # "none", d = "none" => s = "gone",
           UNCHANGED <<listener, client>>,
           stage' = [stage EXCEPT ![c] = s],
           deadline' = [deadline EXCEPT ![c] = d],
           answer' = [answer EXCEPT ![c] = a],
           unread' \in [Connections -> Nat],
           owed' \subseteq Connections, success' \subseteq Connections
    PROVE  TypeOK' /\ BacklogFits'
  <1>1. BacklogFits'
    BY DEF TypeOK, BacklogFits, listener
  <1>2. \A i \in DOMAIN backlog' : stage'[backlog'[i]] = "none"
    BY DEF TypeOK, listener
  <1>3. \A x \in Connections : stage'[x] \notin {"none", "gone"} => deadline'[x] # "none"
    BY DEF TypeOK, Open
  <1>. QED
    BY <1>1, <1>2, <1>3 DEF TypeOK, listener, Stages, Answers, Open

\* A session enters a stage that gives it 30 seconds.
LEMMA EnterFits ==
    ASSUME TypeOK, BacklogFits, NEW c \in Connections,
           NEW s \in Stages \ {"none"}, stage[c] # "none", Enter(c, s),
           UNCHANGED <<listener, client>>, unread' \in [Connections -> Nat],
           owed' \subseteq Connections, success' \subseteq Connections
    PROVE  TypeOK' /\ BacklogFits'
  <1>1. NoAnswer \in Answers
    BY DEF NoAnswer, Answers
  <1>. QED
    BY <1>1, SessionFits DEF Enter

\* A session is dropped.
LEMMA DropFits ==
    ASSUME TypeOK, BacklogFits, NEW c \in Connections, stage[c] # "none", Drop(c),
           UNCHANGED <<listener, client>>, unread' \in [Connections -> Nat],
           owed' \subseteq Connections, success' \subseteq Connections
    PROVE  TypeOK' /\ BacklogFits'
  <1>1. NoAnswer \in Answers
    BY DEF NoAnswer, Answers
  <1>. QED
    BY <1>1, SessionFits DEF Drop, Stages

\* Listener::onAccept (listener.cpp:95-118).
LEMMA AcceptKeeps ==
    ASSUME ServerInvariant, Accept
    PROVE  ServerInvariant'
  <1>1. /\ backlog \in Seq(Connections) /\ backlog # <<>>
        /\ backlog' = Tail(backlog)
    BY DEF ServerInvariant, TypeOK, Accept
  <1>2. PICK n \in Nat \ {0}, c \in Connections :
          /\ DOMAIN backlog = 1 .. n
          /\ c = backlog[1] /\ Head(backlog) = c
          /\ backlog' \in Seq(Connections)
          /\ DOMAIN backlog' = 1 .. n - 1
          /\ \A i \in 1 .. n - 1 : backlog'[i] = backlog[i + 1]
    <2>1. /\ Len(backlog) \in Nat \ {0} /\ Head(backlog) = backlog[1]
          /\ backlog[1] \in Connections
          /\ DOMAIN backlog = 1 .. Len(backlog)
      BY <1>1
    <2>2. /\ backlog' \in Seq(Connections)
          /\ DOMAIN backlog' = 1 .. Len(backlog) - 1
          /\ \A i \in 1 .. Len(backlog) - 1 : backlog'[i] = backlog[i + 1]
      BY <1>1
    <2>. QED
      BY <2>1, <2>2
  <1>3. /\ 1 \in DOMAIN backlog /\ stage[c] = "none"
        /\ client[c] # "away"
    <2>1. 1 \in DOMAIN backlog
      BY <1>2
    <2>2. \A i \in DOMAIN backlog : stage[backlog[i]] = "none"
      BY DEF ServerInvariant, TypeOK
    <2>3. \A x \in Connections : client[x] = "away" => \A i \in DOMAIN backlog : backlog[i] # x
      BY DEF ServerInvariant, BacklogFits
    <2>. QED
      BY <1>2, <2>1, <2>2, <2>3
  <1>4. \A i \in DOMAIN backlog' : i + 1 \in DOMAIN backlog /\ backlog'[i] = backlog[i + 1]
    BY <1>2
  <1>5. \A i \in DOMAIN backlog' : backlog'[i] # c /\ stage[backlog'[i]] = "none"
    <2>1. \A i \in DOMAIN backlog' : i + 1 # 1
      BY <1>2
    <2>2. ASSUME NEW i \in DOMAIN backlog'
          PROVE  backlog[i + 1] # backlog[1] /\ stage[backlog[i + 1]] = "none"
      BY <1>3, <1>4, <2>1 DEF ServerInvariant, TypeOK, BacklogFits
    <2>. QED
      BY <1>2, <1>4, <2>2
  <1>6. \A i, j \in DOMAIN backlog' : backlog'[i] = backlog'[j] => i = j
    <2>1. \A i, j \in DOMAIN backlog : backlog[i] = backlog[j] => i = j
      BY DEF ServerInvariant, BacklogFits
    <2>2. ASSUME NEW i \in DOMAIN backlog', NEW j \in DOMAIN backlog', backlog'[i] = backlog'[j]
          PROVE  i = j
      <3>1. i + 1 = j + 1
        BY <1>4, <2>1, <2>2
      <3>. QED
        BY <1>2, <3>1
    <2>. QED
      BY <2>2
  <1>7. \A i \in DOMAIN backlog : backlog[i] \in Connections
    BY <1>1
  <1>. USE DEF ServerInvariant, TypeOK, Accept, Enter, clients, history
  <1>8. TypeOK'
    <2>1. \A i \in DOMAIN backlog' : backlog'[i] \in Connections
      BY <1>2, <1>4, <1>7
    <2>2. \A i \in DOMAIN backlog' : stage'[backlog'[i]] = "none"
      BY <1>2, <1>5, <2>1
    <2>3. \A x \in Open' : deadline'[x] # "none"
      BY <1>2 DEF Open
    <2>. QED
      BY <1>2, <2>2, <2>3 DEF NoAnswer
  <1>9. BacklogFits'
    BY <1>2, <1>3, <1>4, <1>6 DEF BacklogFits
  <1>10. AnswersFit'
    BY <1>2, <1>3 DEF AnswersFit
  <1>. QED
    BY <1>8, <1>9, <1>10

\* Connect (a client of the outside).
LEMMA ConnectKeeps ==
    ASSUME ServerInvariant, NEW c \in Connections, Connect(c)
    PROVE  ServerInvariant'
  <1>1. PICK n \in Nat :
          /\ DOMAIN backlog = 1 .. n
          /\ backlog' \in Seq(Connections)
          /\ DOMAIN backlog' = 1 .. n + 1
          /\ backlog'[n + 1] = c
          /\ \A i \in 1 .. n : backlog'[i] = backlog[i]
    <2>1. backlog \in Seq(Connections) /\ backlog' = Append(backlog, c)
      BY DEF ServerInvariant, TypeOK, Connect
    <2>2. Len(backlog) \in Nat /\ DOMAIN backlog = 1 .. Len(backlog)
      BY <2>1
    <2>3. /\ backlog' \in Seq(Connections) /\ DOMAIN backlog' = 1 .. Len(backlog) + 1
          /\ backlog'[Len(backlog) + 1] = c
          /\ \A i \in 1 .. Len(backlog) : backlog'[i] = backlog[i]
      BY <2>1
    <2>. QED
      BY <2>2, <2>3
  <1>. USE DEF ServerInvariant, TypeOK, Connect, sessions, history
  <1>2. /\ stage[c] = "none"
        /\ \A i \in DOMAIN backlog : backlog[i] # c
    BY DEF BacklogFits
  <1>3. \A i \in DOMAIN backlog' : i = n + 1 \/ i \in DOMAIN backlog
    BY <1>1
  <1>4. \A i, j \in DOMAIN backlog : backlog[i] = backlog[j] => i = j
    BY DEF BacklogFits
  <1>5. ASSUME NEW i \in DOMAIN backlog', NEW j \in DOMAIN backlog', backlog'[i] = backlog'[j]
        PROVE  i = j
    BY <1>1, <1>2, <1>3, <1>4, <1>5
  <1>6. \A i \in DOMAIN backlog' : stage[backlog'[i]] = "none"
    BY <1>1, <1>2, <1>3
  <1>7. TypeOK'
    BY <1>1, <1>6 DEF Open
  <1>8. \A x \in Connections : client'[x] = "away" =>
          stage[x] = "none" /\ \A i \in DOMAIN backlog' : backlog'[i] # x
    BY <1>1, <1>3 DEF BacklogFits
  <1>9. BacklogFits' /\ AnswersFit'
    BY <1>5, <1>8 DEF BacklogFits, AnswersFit
  <1>. QED
    BY <1>7, <1>9

\* Send, Quit and Elapse: a client acts, or time passes.
LEMMA OutsideKeeps ==
    ASSUME ServerInvariant, NEW c \in Connections, NEW how \in {"finished", "broken"},
           Send(c) \/ Quit(c, how) \/ Elapse(c)
    PROVE  ServerInvariant'
  <1>. USE DEF ServerInvariant, TypeOK, BacklogFits, AnswersFit,
               listener, sessions, history, Open
  <1>1. CASE Send(c)
    BY <1>1 DEF Send
  <1>2. CASE Quit(c, how)
    BY <1>2 DEF Quit
  <1>3. CASE Elapse(c)
    BY <1>3 DEF Elapse, clients
  <1>. QED
    BY <1>1, <1>2, <1>3

\* A parser takes messages out of the buffer (server.hpp:423-464).
LEMMA ParseTakes ==
    ASSUME TypeOK, NEW c \in Connections, NEW m, Parse(c, m)
    PROVE  unread' \in [Connections -> Nat]
  <1>1. unread[c] - 1 \in Nat
    BY DEF TypeOK, Parse
  <1>. QED
    BY <1>1 DEF TypeOK, Parse

\* The handlers of a session that end it or let it read: DetectSession and the
\* errors of Session.
LEMMA EndsKeep ==
    ASSUME ServerInvariant, NEW c \in Connections, NEW m,
           Detect(c) \/ HandshakeFails(c) \/ ReadFails(c) \/ WriteFails(c)
              \/ Expire(c) \/ CannotParse(c, m)
    PROVE  ServerInvariant'
  <1>1. /\ stage[c] \in {"detecting", "shaking", "reading", "writing"}
        /\ \/ Drop(c)
           \/ stage[c] = "detecting" /\ \E s \in {"shaking", "reading"} : Enter(c, s)
        /\ UNCHANGED <<listener, client, history>>
    BY DEF Detect, HandshakeFails, ReadFails, WriteFails, Expire, CannotParse, Parse,
           doRead, clients
  <1>2. unread' \in [Connections -> Nat]
    <2>1. CASE CannotParse(c, m)
      BY <2>1, ParseTakes DEF CannotParse, ServerInvariant, TypeOK
    <2>2. CASE unread' = unread
      BY <2>2 DEF ServerInvariant, TypeOK
    <2>. QED
      BY <2>1, <2>2 DEF Detect, HandshakeFails, ReadFails, WriteFails, Expire, clients
  <1>3. owed' \subseteq Connections /\ success' \subseteq Connections
    BY <1>1 DEF ServerInvariant, TypeOK, history
  <1>4. TypeOK' /\ BacklogFits'
    <2>1. CASE Drop(c)
      BY <2>1, <1>1, <1>2, <1>3, DropFits DEF ServerInvariant
    <2>2. ASSUME NEW s \in {"shaking", "reading"}, Enter(c, s)
          PROVE  TypeOK' /\ BacklogFits'
      BY <2>2, <1>1, <1>2, <1>3, EnterFits DEF ServerInvariant, Stages
    <2>. QED
      BY <1>1, <2>1, <2>2
  <1>5. AnswersFit'
    <2>. USE DEF ServerInvariant, TypeOK, AnswersFit, history
    <2>1. CASE Drop(c)
      BY <1>1, <2>1 DEF Drop
    <2>2. ASSUME NEW s \in {"shaking", "reading"}, stage[c] = "detecting", Enter(c, s)
          PROVE  AnswersFit'
      BY <1>1, <2>2 DEF Enter
    <2>. QED
      BY <1>1, <2>1, <2>2
  <1>. QED
    BY <1>4, <1>5 DEF ServerInvariant

\* onRead with a request that is answered at once (server.hpp:330-349).
LEMMA AnswerAtOnceKeeps ==
    ASSUME ServerInvariant, NEW c \in Connections, NEW m \in Messages, AnswerAtOnce(c, m)
    PROVE  ServerInvariant'
  <1>1. PICK a \in Answers : /\ stage' = [stage EXCEPT ![c] = "writing"]
                             /\ answer' = [answer EXCEPT ![c] = a]
                             /\ deadline' = deadline
    <2>1. m \in [kind : Kinds, keepAlive : BOOLEAN] /\ "payload" \in Outcomes
      BY ServerAssumption DEF Outcomes
    <2>. QED
      BY <2>1, AnswersTyped DEF AnswerAtOnce, sendResponse
  <1>2. /\ stage[c] = "reading" /\ deadline[c] \in {"running", "passed"}
        /\ deadline' = [deadline EXCEPT ![c] = deadline[c]]
        /\ unread' \in [Connections -> Nat]
    <2>1. stage[c] = "reading" /\ deadline[c] \in {"running", "passed"}
      BY DEF ServerInvariant, TypeOK, AnswerAtOnce, Parse, Open
    <2>2. deadline' = [deadline EXCEPT ![c] = deadline[c]]
      BY <1>1 DEF ServerInvariant, TypeOK
    <2>3. unread' \in [Connections -> Nat]
      BY ParseTakes DEF AnswerAtOnce, ServerInvariant, TypeOK
    <2>. QED
      BY <2>1, <2>2, <2>3
  <1>3. /\ UNCHANGED <<listener, client, owed, success>>
        /\ owed' \subseteq Connections /\ success' \subseteq Connections
    BY DEF ServerInvariant, TypeOK, AnswerAtOnce, history
  <1>4. TypeOK' /\ BacklogFits'
    BY <1>1, <1>2, <1>3, SessionFits DEF ServerInvariant, Stages
  <1>5. AnswersFit'
    BY <1>1, <1>2, <1>3 DEF ServerInvariant, TypeOK, AnswersFit
  <1>. QED
    BY <1>4, <1>5 DEF ServerInvariant

\* onRead calls the callback (server.hpp:444-471).
LEMMA ExecuteKeeps ==
    ASSUME ServerInvariant, NEW c \in Connections, NEW m \in Messages, Execute(c, m)
    PROVE  ServerInvariant'
  <1>1. PICK a \in Answers : answer' = [answer EXCEPT ![c] = a]
    <2>1. m.keepAlive \in BOOLEAN /\ answer[c] \in Answers
      BY ServerAssumption DEF ServerInvariant, TypeOK, Answers
    <2>2. [answer[c] EXCEPT !.keepAlive = m.keepAlive] \in Answers
      BY <2>1 DEF Answers
    <2>. QED
      BY <2>2 DEF Execute
  <1>2. /\ stage[c] = "reading" /\ deadline[c] \in {"running", "passed"}
        /\ stage' = [stage EXCEPT ![c] = "handling"]
        /\ deadline' = [deadline EXCEPT ![c] = deadline[c]]
    BY DEF ServerInvariant, TypeOK, Execute, Parse, Open
  <1>3. /\ UNCHANGED <<listener, client, success>> /\ success' \subseteq Connections
        /\ owed' = owed \cup {c} /\ owed' \subseteq Connections
    BY DEF ServerInvariant, TypeOK, Execute
  <1>4. unread' \in [Connections -> Nat]
    BY ParseTakes DEF ServerInvariant, Execute
  <1>5. TypeOK' /\ BacklogFits'
    BY <1>1, <1>2, <1>3, <1>4, SessionFits DEF ServerInvariant, Stages
  <1>6. AnswersFit'
    BY <1>1, <1>2, <1>3 DEF ServerInvariant, TypeOK, AnswersFit
  <1>. QED
    BY <1>5, <1>6 DEF ServerInvariant

\* The callback returns or throws (server.hpp:351-392).
LEMMA CallbackEndsKeeps ==
    ASSUME ServerInvariant, NEW c \in Connections, NEW outcome \in Outcomes,
           CallbackEnds(c, outcome)
    PROVE  ServerInvariant'
  <1>1. PICK a \in Answers : /\ stage' = [stage EXCEPT ![c] = "writing"]
                             /\ answer' = [answer EXCEPT ![c] = a]
                             /\ deadline' = deadline
                             /\ outcome = "payload" => a.keepAlive = FALSE
    <2>. DEFINE m == [keepAlive |-> answer[c].keepAlive]
                a == ServiceAnswer(m, outcome)
    <2>1. m.keepAlive \in BOOLEAN
      BY DEF ServerInvariant, TypeOK
    <2>2. a \in Answers
      <3>. HIDE DEF m
      <3>. QED
        BY <2>1 DEF ServiceAnswer, Payload, forbidden, unimplemented, badRequest,
                    serverError, Answers, Statuses, Outcomes
    <2>3. outcome = "payload" => a.keepAlive = FALSE
      BY DEF ServiceAnswer, Payload
    <2>4. /\ stage' = [stage EXCEPT ![c] = "writing"]
          /\ answer' = [answer EXCEPT ![c] = a]
          /\ deadline' = deadline
      BY DEF CallbackEnds, sendResponse
    <2>. QED
      BY <2>2, <2>3, <2>4
  <1>2. /\ stage[c] = "handling" /\ deadline[c] \in {"running", "passed"}
        /\ deadline' = [deadline EXCEPT ![c] = deadline[c]]
    BY <1>1 DEF ServerInvariant, TypeOK, CallbackEnds, Open
  <1>3. /\ UNCHANGED <<listener, client, unread, owed>>
        /\ success' = IF outcome = "payload" THEN success \cup {c} ELSE success
        /\ unread' \in [Connections -> Nat]
        /\ owed' \subseteq Connections /\ success' \subseteq Connections
    BY DEF ServerInvariant, TypeOK, CallbackEnds, clients
  <1>4. TypeOK' /\ BacklogFits'
    BY <1>1, <1>2, <1>3, SessionFits DEF ServerInvariant, Stages
  <1>5. AnswersFit'
    <2>1. c \notin success
      BY <1>2 DEF ServerInvariant, AnswersFit
    <2>. QED
      BY <1>1, <1>2, <1>3, <2>1 DEF ServerInvariant, TypeOK, AnswersFit
  <1>. QED
    BY <1>4, <1>5 DEF ServerInvariant

\* onWrite (server.hpp:487-512).
LEMMA WriteEndsKeeps ==
    ASSUME ServerInvariant, NEW c \in Connections, WriteEnds(c)
    PROVE  ServerInvariant'
  <1>1. /\ stage[c] = "writing"
        /\ IF answer[c].keepAlive THEN Enter(c, "reading") ELSE Drop(c)
        /\ owed' = owed \ {c}
        /\ UNCHANGED <<listener, client, unread, success>>
    BY DEF WriteEnds, doRead, clients
  <1>2. /\ unread' \in [Connections -> Nat]
        /\ owed' \subseteq Connections /\ success' \subseteq Connections
    BY <1>1 DEF ServerInvariant, TypeOK
  <1>3. TypeOK' /\ BacklogFits'
    <2>1. CASE Enter(c, "reading")
      BY <2>1, <1>1, <1>2, EnterFits DEF ServerInvariant, Stages
    <2>2. CASE Drop(c)
      BY <2>2, <1>1, <1>2, DropFits DEF ServerInvariant
    <2>. QED
      BY <1>1, <2>1, <2>2
  <1>4. AnswersFit'
    <2>. USE DEF ServerInvariant, TypeOK, AnswersFit
    <2>1. CASE Drop(c)
      BY <1>1, <2>1 DEF Drop
    <2>2. CASE answer[c].keepAlive /\ Enter(c, "reading")
      <3>1. c \notin success
        BY <1>1, <2>2
      <3>. QED
        BY <1>1, <2>2, <3>1 DEF Enter
    <2>. QED
      BY <1>1, <2>1, <2>2
  <1>. QED
    BY <1>3, <1>4 DEF ServerInvariant

\* Every step keeps the invariant.
LEMMA InvariantStep == ServerInvariant /\ [Next]_vars => ServerInvariant'
  <1>. SUFFICES ASSUME ServerInvariant, [Next]_vars
                PROVE  ServerInvariant'
    OBVIOUS
  <1>1. CASE Accept
    BY <1>1, AcceptKeeps
  <1>2. CASE AcceptFails
    BY <1>2 DEF AcceptFails, ServerInvariant, TypeOK, BacklogFits, AnswersFit,
                clients, sessions, history, Open
  <1>3. ASSUME NEW c \in Connections, Handler(c)
        PROVE  ServerInvariant'
    <2>1. CASE \E m \in Messages : CannotParse(c, m)
      BY <2>1, EndsKeep
    <2>2. CASE Detect(c) \/ HandshakeFails(c) \/ ReadFails(c) \/ WriteFails(c) \/ Expire(c)
      BY <2>2, EndsKeep
    <2>3. CASE \E m \in Messages : AnswerAtOnce(c, m)
      BY <2>3, AnswerAtOnceKeeps
    <2>4. CASE \E m \in Messages : Execute(c, m)
      BY <2>4, ExecuteKeeps
    <2>5. CASE WriteEnds(c)
      BY <2>5, WriteEndsKeeps
    <2>. QED
      BY <1>3, <2>1, <2>2, <2>3, <2>4, <2>5 DEF Handler
  <1>4. ASSUME NEW c \in Connections, Elapse(c) \/ Send(c)
        PROVE  ServerInvariant'
    BY <1>4, OutsideKeeps
  <1>5. ASSUME NEW c \in Connections, NEW how \in {"finished", "broken"}, Quit(c, how)
        PROVE  ServerInvariant'
    BY <1>5, OutsideKeeps
  <1>6. ASSUME NEW c \in Connections, NEW outcome \in Outcomes, CallbackEnds(c, outcome)
        PROVE  ServerInvariant'
    BY <1>6, CallbackEndsKeeps
  <1>7. ASSUME NEW c \in Connections, Connect(c)
        PROVE  ServerInvariant'
    BY <1>7, ConnectKeeps
  <1>8. CASE UNCHANGED vars
    BY <1>8 DEF vars, ServerInvariant, TypeOK, BacklogFits, AnswersFit,
                listener, clients, sessions, history, Open
  <1>. QED
    BY <1>1, <1>2, <1>3, <1>4, <1>5, <1>6, <1>7, <1>8 DEF Next

\* The invariant holds in every reachable state.
THEOREM InvariantHolds == Spec => []ServerInvariant
  BY InvariantInit, InvariantStep, PTL DEF Spec

\* Every variable keeps its type, and every session has a deadline (430, 645
\* and 741 of server.hpp).
THEOREM TypeCorrect == Spec => []TypeOK
  <1>1. ServerInvariant => TypeOK
    BY DEF ServerInvariant
  <1>. QED
    BY <1>1, InvariantHolds, PTL

-----------------------------------------------------------------------------
(* What a step may never do *)

\* After a success no other request of its connection is executed: the answer
\* closes it (server.hpp:368), whatever is pipelined behind.
THEOREM SuccessEnds == Spec => SuccessIsLast
  <1>1. ServerInvariant => \A c \in success, m \in Messages : ~ Execute(c, m)
    <2>. SUFFICES ASSUME ServerInvariant, NEW c \in success, NEW m \in Messages, Execute(c, m)
                  PROVE  FALSE
      OBVIOUS
    <2>1. stage[c] \in {"writing", "gone"}
      BY DEF ServerInvariant, AnswersFit
    <2>2. stage[c] = "reading"
      BY DEF Execute, Parse
    <2>. QED
      BY <2>1, <2>2
  <1>2. ServerInvariant /\ [Next]_vars => [\A c \in success, m \in Messages : ~ Execute(c, m)]_vars
    BY <1>1
  <1>. QED
    BY <1>2, InvariantHolds, PTL DEF Spec, SuccessIsLast

\* A request that was executed is answered, unless its client broke the
\* connection or the time set before it was read is over (server.hpp:430).
THEOREM AnswersGiven == Spec => AnsweredOrExplained
  <1>. DEFINE Explained == \A c \in owed : c \in Open /\ stage'[c] = "gone" =>
                              c \notin owed' \/ client[c] = "broken" \/ deadline[c] = "passed"
  <1>1. ASSUME ServerInvariant, [Next]_vars, NEW c \in owed,
               c \in Open, stage'[c] = "gone", c \in owed',
               client[c] # "broken", deadline[c] # "passed"
        PROVE  FALSE
    <2>1. stage[c] \in {"handling", "writing"} /\ c \in Connections
      BY <1>1 DEF ServerInvariant, TypeOK, AnswersFit, Open
    <2>. USE <1>1, <2>1 DEF ServerInvariant, TypeOK
    <2>2. CASE Accept
      <3>1. Head(backlog) # c
        <4>1. Head(backlog) = backlog[1] /\ 1 \in DOMAIN backlog
          BY <2>2 DEF Accept
        <4>. QED
          BY <4>1
      <3>. QED
        BY <2>2, <3>1 DEF Accept, Enter
    <2>3. CASE UNCHANGED stage
      BY <2>3
    <2>4. ASSUME NEW x \in Connections, Handler(x)
          PROVE  FALSE
      <3>1. CASE \E m \in Messages : AnswerAtOnce(x, m) \/ Execute(x, m) \/ CannotParse(x, m)
        BY <3>1 DEF AnswerAtOnce, Execute, CannotParse, Parse, Drop, sendResponse
      <3>2. CASE Detect(x) \/ HandshakeFails(x) \/ ReadFails(x)
        BY <3>2 DEF Detect, HandshakeFails, ReadFails, Drop, Enter, doRead
      <3>3. CASE WriteEnds(x)
        <4>1. x # c
          BY <3>3 DEF WriteEnds
        <4>2. \E s : stage' = [stage EXCEPT ![x] = s]
          BY <3>3 DEF WriteEnds, Drop, Enter, doRead
        <4>. QED
          BY <4>1, <4>2
      <3>4. CASE WriteFails(x) \/ Expire(x)
        BY <3>4 DEF WriteFails, Expire, Drop
      <3>. QED
        BY <2>4, <3>1, <3>2, <3>3, <3>4 DEF Handler
    <2>5. ASSUME NEW x \in Connections, NEW outcome \in Outcomes, CallbackEnds(x, outcome)
          PROVE  FALSE
      BY <2>5 DEF CallbackEnds, sendResponse
    <2>. QED
      BY <2>2, <2>3, <2>4, <2>5
         DEF Next, vars, sessions, AcceptFails, Elapse, Connect, Send, Quit
  <1>2. ServerInvariant /\ [Next]_vars => [Explained]_vars
    BY <1>1
  <1>. QED
    BY <1>2, InvariantHolds, PTL DEF Spec, AnsweredOrExplained

=============================================================================
