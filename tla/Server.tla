------------------------------- MODULE Server -------------------------------
(***************************************************************************)
(* The HTTP server: the listener (src/backend/src/listener.cpp), the       *)
(* sessions (src/backend/src/server.hpp) and the io threads that run their *)
(* handlers (main.cpp:243-281).                                            *)
(*                                                                         *)
(* A handler runs to its end on one io thread.  All are short but onRead,  *)
(* which calls the service's callback: it holds its thread while LDAP and  *)
(* the databases answer.  A message is what the code tells apart of it:    *)
(* its kind and whether it asks to keep the connection.  Which message was *)
(* sent is chosen when it is parsed: nothing depends on it before.         *)
(*                                                                         *)
(* main() gives the TLS context no certificate, so a handshake ends in an  *)
(* error: what SSLSession does after a handshake is not reached.           *)
(***************************************************************************)
EXTENDS Integers, Sequences, FiniteSets

CONSTANTS
    Connections,    \* one TCP connection each, used once
    Messages,       \* what a client may send: records [kind, keepAlive]
    NThreads,       \* --n_threads (1 by default)
    MaxOpen,        \* bound on the descriptors left for connections
    MaxUnread       \* bound on the messages a connection holds unread: what
                    \*   the socket and mBuffer take before the client blocks

\* "service" is a GET, PUT or POST, "other" any other method but OPTIONS.  An
\* "unreadable" one is malformed or has a body beyond body_limit.
Kinds == {"options", "service", "other", "unreadable"}

\* What the callback does: it returns, or throws one of these.
Outcomes == {"payload", "InvalidPermissionException", "UnimplementedException",
             "invalid_argument", "exception"}

Statuses == {"ok", "no_content", "bad_request", "forbidden",
             "not_implemented", "internal_server_error"}

ASSUME ServerAssumption ==
    /\ Messages \subseteq [kind : Kinds, keepAlive : BOOLEAN]
    /\ NThreads \in Nat \ {0} /\ MaxOpen \in Nat \ {0} /\ MaxUnread \in Nat

VARIABLES
    usable,         \* the constructor of Listener brought mAcceptor to listen
    descriptors,    \* what the files and databases leave for connections
    accepting,      \* an async_accept is outstanding
    backlog,        \* the kernel's queue of connections to accept
    client,         \* each client's end: "away", "open", "finished" or "broken"
    unread,         \* number of messages sent that no parser has consumed
    stage,          \* the session of each connection
    deadline,       \* the timer of its stream: "none", "running" or "passed"
    answer,         \* the message being written
    owed,           \* history: connections on which the callback was called
                    \*   and its answer was not written in full
    success         \* history: connections on which the callback returned

listener == <<usable, descriptors, accepting, backlog>>
clients == <<client, unread>>
sessions == <<stage, deadline, answer>>
history == <<owed, success>>
vars == <<listener, clients, sessions, history>>

-----------------------------------------------------------------------------
(* The answers of handleRequest *)

badRequest(m) == [status |-> "bad_request", keepAlive |-> m.keepAlive]
forbidden(m) == [status |-> "forbidden", keepAlive |-> m.keepAlive]
unimplemented(m) == [status |-> "not_implemented", keepAlive |-> m.keepAlive]
serverError(m) == [status |-> "internal_server_error", keepAlive |-> m.keepAlive]

\* "Connection: close" is set first and undone by keep_alive().
optionsHandler(m) == [status |-> "no_content", keepAlive |-> m.keepAlive]

\* Mutant: the answer keeps the connection as the request asks.
PayloadKeeps(m) == [status |-> "ok", keepAlive |-> m.keepAlive]

\* Success closes the connection, whatever the request asks.
Payload(m) == [status |-> "ok", keepAlive |-> FALSE]

\* The answer to a message that the callback is called with.
ServiceAnswer(m, outcome) ==
    CASE outcome = "payload"                    -> Payload(m)
      [] outcome = "InvalidPermissionException" -> forbidden(m)
      [] outcome = "UnimplementedException"     -> unimplemented(m)
      [] outcome = "invalid_argument"           -> badRequest(m)
      [] outcome = "exception"                  -> serverError(m)

NoAnswer == [status |-> "none", keepAlive |-> FALSE]

-----------------------------------------------------------------------------
(* Threads, descriptors and deadlines *)

Open == {c \in Connections : stage[c] \notin {"none", "gone"}}

\* An io thread is free to run a handler.
ThreadFree == Cardinality({c \in Connections : stage[c] = "handling"}) < NThreads

Init ==
    /\ usable \in BOOLEAN /\ accepting = TRUE /\ backlog = <<>>
    /\ descriptors \in 1 .. MaxOpen
    /\ client = [c \in Connections |-> "away"]
    /\ unread = [c \in Connections |-> 0]
    /\ stage = [c \in Connections |-> "none"]
    /\ deadline = [c \in Connections |-> "none"]
    /\ answer = [c \in Connections |-> NoAnswer]
    /\ owed = {} /\ success = {}

\* The last reference to the session is dropped, and the socket with it.
Drop(c) ==
    /\ stage' = [stage EXCEPT ![c] = "gone"]
    /\ answer' = [answer EXCEPT ![c] = NoAnswer]
    /\ deadline' = [deadline EXCEPT ![c] = "none"]

\* The session enters a stage with its stream to expire after 30 seconds.
Enter(c, s) ==
    /\ stage' = [stage EXCEPT ![c] = s]
    /\ deadline' = [deadline EXCEPT ![c] = "running"]
    /\ answer' = [answer EXCEPT ![c] = NoAnswer]

\* Mutant: the stream of a plain session is given no time to expire.
doReadForEver(c) ==
    /\ stage' = [stage EXCEPT ![c] = "reading"]
    /\ deadline' = [deadline EXCEPT ![c] = "none"]
    /\ answer' = [answer EXCEPT ![c] = NoAnswer]

doRead(c) == Enter(c, "reading")

-----------------------------------------------------------------------------
(* Listener *)

\* A connection waits and the process has no descriptor left for it.
NoDescriptor == backlog # <<>> /\ Cardinality(Open) >= descriptors

\* Mutant: the handler returns on an error.
AcceptFailsAndReturns ==
    /\ ThreadFree /\ accepting
    /\ ~ usable \/ NoDescriptor
    /\ accepting' = FALSE
    /\ UNCHANGED <<usable, descriptors, backlog, clients, sessions, history>>

\* onAccept with an error, at once tried again: the acceptor never listened,
\* or no descriptor is left for the next connection.
AcceptFails ==
    /\ ThreadFree /\ accepting
    /\ ~ usable \/ NoDescriptor
    /\ accepting' = TRUE
    /\ UNCHANGED <<usable, descriptors, backlog, clients, sessions, history>>

\* onAccept with a socket: a DetectSession is run.
Accept ==
    /\ ThreadFree /\ accepting
    /\ usable /\ backlog # <<>> /\ ~ NoDescriptor
    /\ Enter(Head(backlog), "detecting")
    /\ backlog' = Tail(backlog)
    /\ accepting' = TRUE
    /\ UNCHANGED <<usable, descriptors, clients, history>>

-----------------------------------------------------------------------------
(* DetectSession and SSLSession *)

\* onDetect: the first bytes tell TLS from plain HTTP.
Detect(c) ==
    /\ ThreadFree /\ stage[c] = "detecting" /\ unread[c] > 0
    /\ Enter(c, "shaking") \/ doRead(c)
    /\ UNCHANGED <<listener, clients, history>>

\* onHandshake: the server has no certificate to show.
HandshakeFails(c) ==
    /\ ThreadFree /\ stage[c] = "shaking"
    /\ Drop(c)
    /\ UNCHANGED <<listener, clients, history>>

-----------------------------------------------------------------------------
(* Session *)

\* async_read has parsed the next message out of the buffer.
Parse(c, m) ==
    /\ ThreadFree /\ stage[c] = "reading" /\ unread[c] > 0
    /\ m \in Messages
    /\ unread' = [unread EXCEPT ![c] = @ - 1]

\* Mutant: the write of an answer may take for ever.
sendResponseForEver(c, a) ==
    /\ stage' = [stage EXCEPT ![c] = "writing"]
    /\ answer' = [answer EXCEPT ![c] = a]
    /\ deadline' = [deadline EXCEPT ![c] = "none"]

\* sendResponse: no new deadline is set, the one of doRead keeps running.
sendResponse(c, a) ==
    /\ stage' = [stage EXCEPT ![c] = "writing"]
    /\ answer' = [answer EXCEPT ![c] = a]
    /\ UNCHANGED deadline

\* onRead with an OPTIONS request or another method that is not served.
AnswerAtOnce(c, m) ==
    /\ Parse(c, m)
    /\ m.kind \in {"options", "other"}
    /\ sendResponse(c, IF m.kind = "options" THEN optionsHandler(m)
                                             ELSE badRequest(m))
    /\ UNCHANGED <<listener, client, history>>

\* onRead calls the callback; what is needed of the message stays in answer.
Execute(c, m) ==
    /\ Parse(c, m)
    /\ m.kind = "service"
    /\ stage' = [stage EXCEPT ![c] = "handling"]
    /\ answer' = [answer EXCEPT ![c].keepAlive = m.keepAlive]
    /\ owed' = owed \cup {c}
    /\ UNCHANGED <<listener, client, deadline, success>>

\* onRead with an error: the message is malformed or too long.
CannotParse(c, m) ==
    /\ Parse(c, m)
    /\ m.kind = "unreadable"
    /\ Drop(c)
    /\ UNCHANGED <<listener, client, history>>

\* Mutant: a connection that is not kept is closed before the answer is written.
CallbackEndsClosing(c, outcome) ==
    LET a == ServiceAnswer([keepAlive |-> answer[c].keepAlive], outcome) IN
    /\ stage[c] = "handling"
    /\ IF a.keepAlive THEN sendResponse(c, a) ELSE Drop(c)
    /\ success' = IF outcome = "payload" THEN success \cup {c} ELSE success
    /\ UNCHANGED <<listener, clients, owed>>

\* The callback returns or throws on its thread.
CallbackEnds(c, outcome) ==
    /\ stage[c] = "handling"
    /\ sendResponse(c, ServiceAnswer([keepAlive |-> answer[c].keepAlive], outcome))
    /\ success' = IF outcome = "payload" THEN success \cup {c} ELSE success
    /\ UNCHANGED <<listener, clients, owed>>

\* onRead or onDetect with an error: the client has finished or is lost.
ReadFails(c) ==
    /\ ThreadFree /\ stage[c] \in {"reading", "detecting"}
    /\ \/ client[c] = "broken"
       \/ client[c] = "finished" /\ unread[c] = 0
    /\ Drop(c)
    /\ UNCHANGED <<listener, clients, history>>

\* onWrite: the answer is on its way; the session is closed or reads again.
WriteEnds(c) ==
    /\ ThreadFree /\ stage[c] = "writing"
    /\ IF answer[c].keepAlive THEN doRead(c) ELSE Drop(c)
    /\ owed' = owed \ {c}
    /\ UNCHANGED <<listener, clients, success>>

\* onWrite with an error.
WriteFails(c) ==
    /\ ThreadFree /\ stage[c] = "writing" /\ client[c] = "broken"
    /\ Drop(c)
    /\ UNCHANGED <<listener, clients, history>>

\* The time set with expires_after passes.
Elapse(c) ==
    /\ c \in Open /\ deadline[c] = "running"
    /\ deadline' = [deadline EXCEPT ![c] = "passed"]
    /\ UNCHANGED <<listener, clients, stage, answer, history>>

\* The timer of the stream closes the socket under the read or write that is
\* outstanding, unless that completes first.
Expire(c) ==
    /\ ThreadFree /\ deadline[c] = "passed"
    /\ stage[c] \in {"detecting", "shaking", "reading", "writing"}
    /\ Drop(c)
    /\ UNCHANGED <<listener, clients, history>>

-----------------------------------------------------------------------------
(* Clients *)

Connect(c) ==
    /\ usable /\ client[c] = "away"
    /\ client' = [client EXCEPT ![c] = "open"]
    /\ backlog' = Append(backlog, c)
    /\ UNCHANGED <<usable, descriptors, accepting, unread, sessions, history>>

\* The client may send before it is accepted, and again before it is answered,
\* for as long as its answers keep the connection.
Send(c) ==
    /\ client[c] = "open" /\ stage[c] # "gone" /\ unread[c] < MaxUnread
    /\ unread' = [unread EXCEPT ![c] = @ + 1]
    /\ UNCHANGED <<listener, client, sessions, history>>

\* The client has no more to send, or is lost.
Quit(c, how) ==
    /\ client[c] = "open" /\ stage[c] # "gone"
    /\ client' = [client EXCEPT ![c] = how]
    /\ UNCHANGED <<listener, unread, sessions, history>>

-----------------------------------------------------------------------------

Handler(c) ==
    \/ Detect(c) \/ HandshakeFails(c)
    \/ \E m \in Messages : AnswerAtOnce(c, m) \/ Execute(c, m) \/ CannotParse(c, m)
    \/ ReadFails(c) \/ WriteEnds(c) \/ WriteFails(c) \/ Expire(c)

Next ==
    \/ Accept \/ AcceptFails
    \/ \E c \in Connections :
        \/ Handler(c) \/ Elapse(c)
        \/ \E outcome \in Outcomes : CallbackEnds(c, outcome)
        \/ Connect(c)
        \/ Send(c)
        \/ \E how \in {"finished", "broken"} : Quit(c, how)

Spec == Init /\ [][Next]_vars

\* A thread takes the handlers in the order they became ready, so one that is
\* ready again and again runs.  The callback ends: LDAP and the databases
\* answer or fail.  The 30 seconds pass over a session that stays in one stage;
\* one that keeps moving may be back in doRead, which starts them again,
\* before they are over, each time and for ever.
Fairness ==
    /\ SF_vars(Accept)
    /\ \A c \in Connections :
        /\ \A s \in {"detecting", "shaking", "reading", "writing"} :
              WF_vars(stage[c] = s /\ Elapse(c))
        /\ SF_vars(Expire(c))
        /\ WF_vars(\E outcome \in Outcomes : CallbackEnds(c, outcome))

FairSpec == Spec /\ Fairness
-----------------------------------------------------------------------------
(* Properties *)

\* Every variable keeps its type; a connection waits in the backlog or has a
\* session, and every session has a stream that expires.
TypeOK ==
    /\ usable \in BOOLEAN /\ accepting \in BOOLEAN
    /\ descriptors \in 1 .. MaxOpen
    /\ backlog \in Seq(Connections)
    /\ client \in [Connections -> {"away", "open", "finished", "broken"}]
    /\ unread \in [Connections -> Nat]
    /\ stage \in [Connections -> {"none", "detecting", "shaking", "reading",
                                  "handling", "writing", "gone"}]
    /\ deadline \in [Connections -> {"none", "running", "passed"}]
    /\ answer \in [Connections -> [status : Statuses \cup {"none"},
                                   keepAlive : BOOLEAN]]
    /\ owed \subseteq Connections /\ success \subseteq Connections
    /\ \A i \in DOMAIN backlog : stage[backlog[i]] = "none"
    /\ \A c \in Open : deadline[c] # "none"

\* A request that was executed goes unanswered only if the client broke the
\* connection, or the 30 seconds of doRead:430, which run on while the
\* callback and the write (sendResponse:473-485) do their work, were over.
AnsweredOrExplained ==
    [][\A c \in owed : c \in Open /\ stage'[c] = "gone" =>
          c \notin owed' \/ client[c] = "broken" \/ deadline[c] = "passed"]_vars

\* After a success no other request of the connection is executed, whatever the
\* client has pipelined behind it (server.hpp:368, onWrite:503-508).
SuccessIsLast ==
    [][\A c \in success, m \in Messages : ~ Execute(c, m)]_vars

\* A request that was executed is answered, or its session is closed, in the
\* end: also when the client never reads the answer and when it keeps sending,
\* because the deadline of doRead:430 is not set again before the answer is
\* written (sendResponse:473-485), and however busy the other clients are.
AnswersEnd ==
    \A c \in Connections : c \in owed ~> c \notin owed \/ c \notin Open

\* The client of this connection never stops sending.
Talkative(c) == []<><<Send(c)>>_vars

\* A session ends unless its client never stops sending: a silent client, one
\* that never reads its answer, or one that never finishes a handshake loses
\* the connection (expires_after at 430, 645 and 741).  A client that keeps
\* sending requests whose answers keep the connection (onWrite:511) starts the
\* 30 seconds again with each, and holds its session for as long as it likes.
SessionsEnd ==
    \A c \in Connections : Talkative(c) \/ (c \in Open ~> c \notin Open)

\* Every client that connects is accepted unless some client never stops
\* sending, also after the listener ran out of descriptors (onAccept:95-118
\* accepts again after an error).  A talkative client may hold the descriptor.
ClientsAccepted ==
    \/ \E d \in Connections : Talkative(d)
    \/ \A c \in Connections : client[c] # "away" ~> stage[c] # "none"

=============================================================================
