------------------------------- MODULE Access -------------------------------
(***************************************************************************)
(* Who may ask what: the gate of the callback                              *)
(* (src/backend/src/callback.cpp:413-638), the login against LDAP          *)
(* (src/backend/src/ldap.cpp) and the tokens it yields                     *)
(* (src/backend/src/authenticator.cpp).                                    *)
(*                                                                         *)
(* All io threads share one LDAP handle with no lock, so a login is        *)
(* modelled in the steps that read or write the handle or mBound, the flag *)
(* that it is open.  The table of users has a lock.  A token is a record   *)
(* of what is signed and of the key; the key is made from the second in    *)
(* which the process started, and is lost with the process.                *)
(*                                                                         *)
(* Every user in the table may read and write: createCredentials knows no  *)
(* other permission, so the refusals for lack of one are not reached.      *)
(***************************************************************************)
EXTENDS Integers, FiniteSets

CONSTANTS
    Users, Workers, Handles, None,
    Lifetime,       \* mExpirationDuration
    Leeway,         \* of the verifier
    MaxClock,       \* bound on the clock, in seconds
    MaxRestarts     \* bound on the restarts of the process

Times == 0 .. MaxClock

Tokens == [user : Users, issued : Times, key : Times]

ASSUME AccessAssumption ==
    /\ Lifetime \in Nat \ {0} /\ Leeway \in Nat
    /\ MaxClock \in Nat /\ MaxRestarts \in Nat
    /\ None \notin Users \cup Handles \cup Tokens

VARIABLES
    clock,
    started,        \* the second mKey is made from
    restarts,       \* number of restarts (bound)
    mUserKeysMap,   \* the token of each user, or None
    mLDAP,          \* the handle the pointer points to, or None
    mBound,
    opened,         \* handles that are initialized and not freed
    pc,             \* each io thread's stage: how the callback ended last,
                    \*   or where it stands
    login,          \* what the login of each io thread holds
    held,           \* tokens answered by this process
    stale,          \* tokens answered before the last restart
    validated,      \* history: users LDAP has accepted for this process
    overlapped      \* history: two logins of this process were under way at once

time == <<clock, started, restarts>>
ldap == <<mLDAP, mBound, opened>>
tokens == <<mUserKeysMap, held, stale>>
threads == <<pc, login>>
history == <<validated, overlapped>>
vars == <<time, ldap, tokens, threads, history>>

NoLogin == [user |-> None, accepted |-> FALSE, handle |-> None,
            since |-> 0, token |-> None]

\* How the callback ends.
Outcomes == {"none", "token", "payload", "InvalidPermissionException",
             "UnimplementedException", "BadRequestException",
             "invalid_argument", "exception"}

Ready(w) == pc[w] \in Outcomes

LoggingIn == {w \in Workers : ~ Ready(w) /\ pc[w] # "granted"}

-----------------------------------------------------------------------------
(* The process starts *)

\* The constructor of LDAP opens the handle and closes it again.
Fresh ==
    /\ mUserKeysMap' = [u \in Users |-> None]
    /\ mLDAP' = None /\ mBound' = FALSE /\ opened' = {}
    /\ pc' = [w \in Workers |-> "none"]
    /\ login' = [w \in Workers |-> NoLogin]
    /\ validated' = {} /\ overlapped' = FALSE

Init ==
    /\ clock = 0 /\ started = 0 /\ restarts = 0
    /\ mUserKeysMap = [u \in Users |-> None]
    /\ mLDAP = None /\ mBound = FALSE /\ opened = {}
    /\ pc = [w \in Workers |-> "none"]
    /\ login = [w \in Workers |-> NoLogin]
    /\ held = {} /\ stale = {}
    /\ validated = {} /\ overlapped = FALSE

\* Mutant: the key is the name of the host alone.
SameKey == 0

\* The key of this process: two starts in one second make the same.
mKey == started

\* The process ends, whatever it was doing, and is started again.
Restart ==
    /\ restarts < MaxRestarts
    /\ restarts' = restarts + 1 /\ started' = clock
    /\ Fresh
    /\ stale' = stale \cup held /\ held' = {}
    /\ UNCHANGED clock

Tick ==
    /\ clock < MaxClock
    /\ clock' = clock + 1
    /\ UNCHANGED <<started, restarts, ldap, tokens, threads, history>>

-----------------------------------------------------------------------------
(* The login: Callback::authenticate and LDAP::authenticate *)

Goto(w, stage) == pc' = [pc EXCEPT ![w] = stage]

\* The callback returns, or throws the exception named.
Answer(w, what) ==
    /\ pc' = [pc EXCEPT ![w] = what]
    /\ login' = [login EXCEPT ![w] = NoLogin]

\* The first of a set of times.
Earliest(times) == {t \in times : \A other \in times : t <= other}

\* When the logins of u that are under way began, and one that begins now.
Beginnings(u) ==
    {clock} \cup {login[v].since : v \in {x \in LoggingIn : login[x].user = u}}

\* "Basic" with a user and a password.  since (history) is the beginning of
\* the first login of the user that this one overlaps.
BeginLogin(w, u) ==
    /\ Ready(w)
    /\ Goto(w, "unbind")
    /\ \E since \in Earliest(Beginnings(u)) :
          login' = [login EXCEPT ![w] = [user |-> u, accepted |-> FALSE,
                       handle |-> None, since |-> since, token |-> None]]
    /\ overlapped' = (overlapped \/ LoggingIn # {})
    /\ UNCHANGED <<time, ldap, tokens, validated>>

\* "Basic" without one: the value has no ":", or nothing before it, or is no
\* base64 (from_base64 throws a runtime_error).
RefuseLogin(w) ==
    /\ Ready(w)
    /\ \E what \in {"BadRequestException", "invalid_argument", "exception"} :
          Answer(w, what)
    /\ UNCHANGED <<time, ldap, tokens, history>>

\* LDAPImpl::unbind, called before the handle is opened and after LDAP has
\* accepted the user: it does nothing unless mBound is set.
AfterUnbind(w) == IF login[w].accepted THEN "create" ELSE "initialize"

TestBound(w) ==
    /\ pc[w] = "unbind"
    /\ Goto(w, IF mBound THEN "free" ELSE AfterUnbind(w))
    /\ UNCHANGED <<time, ldap, tokens, login, history>>

\* ldap_unbind_ext frees the handle.  To free it twice is undefined: the
\* process may survive or end (Restart).
FreeHandle(w) ==
    /\ pc[w] = "free"
    /\ opened' = opened \ {mLDAP}
    /\ Goto(w, "clear")
    /\ UNCHANGED <<time, mLDAP, mBound, tokens, login, history>>

\* Mutant: unbind leaves mBound set.
ClearNothing(w) ==
    /\ pc[w] = "clear"
    /\ Goto(w, AfterUnbind(w))
    /\ UNCHANGED <<time, ldap, tokens, login, history>>

ClearBound(w) ==
    /\ pc[w] = "clear"
    /\ mBound' = FALSE
    /\ Goto(w, AfterUnbind(w))
    /\ UNCHANGED <<time, mLDAP, opened, tokens, login, history>>

\* ldap_initialize makes a new handle, at any address that is free.
Initialize(w) ==
    /\ pc[w] = "initialize"
    /\ \E h \in Handles \ opened : mLDAP' = h /\ opened' = opened \cup {h}
    /\ Goto(w, "initialized")
    /\ UNCHANGED <<time, mBound, tokens, login, history>>

\* ldap_initialize makes none.
InitializeFails(w) ==
    /\ pc[w] = "initialize"
    /\ mBound' = FALSE
    /\ Goto(w, "test")
    /\ UNCHANGED <<time, mLDAP, opened, tokens, login, history>>

SetBound(w) ==
    /\ pc[w] = "initialized"
    /\ mBound' = TRUE
    /\ Goto(w, "test")
    /\ UNCHANGED <<time, mLDAP, opened, tokens, login, history>>

\* "No LDAP connection" if mBound is not set; otherwise ldap_sasl_bind_s is
\* called with the handle of this moment.
Bind(w) ==
    /\ pc[w] = "test"
    /\ IF mBound
       THEN /\ Goto(w, "bind")
            /\ login' = [login EXCEPT ![w].handle = mLDAP]
       ELSE Answer(w, "exception")
    /\ UNCHANGED <<time, ldap, tokens, history>>

\* ldap_sasl_bind_s returns.  A refusal leaves the handle open until the next
\* login.  On a handle that was freed the call is undefined: it may end the
\* process (Restart), or return what it would have.
BindEnds(w, result) ==
    /\ pc[w] = "bind"
    /\ IF result = "LDAP_SUCCESS"
       THEN /\ login' = [login EXCEPT ![w].accepted = TRUE]
            /\ Goto(w, "unbind")
       ELSE Answer(w, "InvalidPermissionException")
    /\ validated' = IF result = "LDAP_SUCCESS"
                    THEN validated \cup {login[w].user} ELSE validated
    /\ UNCHANGED <<time, ldap, tokens, overlapped>>

\* Mutant: the answer does not wait for the token to be added.
CreateAndAnswer(w) ==
    /\ pc[w] = "create"
    /\ login' = [login EXCEPT ![w].token =
                   [user |-> login[w].user, issued |-> clock, key |-> mKey]]
    /\ Goto(w, "answer")
    /\ UNCHANGED <<time, ldap, tokens, history>>

\* createCredentials: the token is signed before the lock is asked for.
Create(w) ==
    /\ pc[w] = "create"
    /\ login' = [login EXCEPT ![w].token =
                   [user |-> login[w].user, issued |-> clock, key |-> mKey]]
    /\ Goto(w, "add")
    /\ UNCHANGED <<time, ldap, tokens, history>>

\* Mutant: the token of a user who has one is kept.
AddInsertsOnly(w) ==
    /\ pc[w] = "add"
    /\ mUserKeysMap' = IF mUserKeysMap[login[w].user] = None
          THEN [mUserKeysMap EXCEPT ![login[w].user] = login[w].token]
          ELSE mUserKeysMap
    /\ Goto(w, "answer")
    /\ UNCHANGED <<time, ldap, held, stale, login, history>>

\* The token is inserted, or replaces the one the user had, under the lock.
Add(w) ==
    /\ pc[w] = "add"
    /\ mUserKeysMap' = [mUserKeysMap EXCEPT ![login[w].user] = login[w].token]
    /\ Goto(w, "answer")
    /\ UNCHANGED <<time, ldap, held, stale, login, history>>

\* getCredentials: the answer is the token the user has now.
AnswerLogin(w) ==
    /\ pc[w] = "answer"
    /\ held' = held \cup {mUserKeysMap[login[w].user]}
    /\ Answer(w, "token")
    /\ UNCHANGED <<time, ldap, mUserKeysMap, stale, history>>

Login(w) ==
    \/ TestBound(w) \/ FreeHandle(w) \/ ClearBound(w)
    \/ Initialize(w) \/ InitializeFails(w) \/ SetBound(w) \/ Bind(w)
    \/ \E result \in {"LDAP_SUCCESS", "LDAP_INVALID_CREDENTIALS",
                      "LDAP_OTHER"} : BindEnds(w, result)
    \/ Create(w) \/ Add(w) \/ AnswerLogin(w)

-----------------------------------------------------------------------------
(* Every other request: Callback::authorize, then the request itself *)

Verified(t) == t.key = mKey /\ clock <= t.issued + Lifetime + Leeway

\* Mutant: a token is good only until the user logs in again.
OnlyLastToken(t) == Verified(t) /\ mUserKeysMap[t.user] = t

\* IAuthenticator::authorize: the signature and the expiry, then the user.
\* The table is read once, under the lock.
Authorized(t) == Verified(t) /\ mUserKeysMap[t.user] # None

\* "Bearer" with a token that some process answered.
Grant(w, t) ==
    /\ Ready(w) /\ t \in held \cup stale
    /\ Authorized(t)
    /\ Goto(w, "granted")
    /\ UNCHANGED <<time, ldap, tokens, login, history>>

\* Whatever authorize throws becomes an InvalidPermissionException.
Deny(w, t) ==
    /\ Ready(w) /\ t \in held \cup stale
    /\ ~ Authorized(t)
    /\ Answer(w, "InvalidPermissionException")
    /\ UNCHANGED <<time, ldap, tokens, history>>

\* "Bearer" with anything else, another scheme, half a header or none.
RefuseHeader(w) ==
    /\ Ready(w)
    /\ \E what \in {"InvalidPermissionException", "UnimplementedException",
                    "BadRequestException"} : Answer(w, what)
    /\ UNCHANGED <<time, ldap, tokens, history>>

\* What a message holds: its body, the type asked for, and how the two other
\* fields are filled in.  Accepting and rejecting are modelled in Review.
Requests ==
    [body   : {"empty", "garbled", "json"},
     type   : {None, "number", "availableSchemas", "hash", "cctData",
               "eventData", "envelopeData", "other"},
     schema : {None, "number", "unknown", "known"},
     event  : {None, "number", "empty", "unknown", "cached"}]

AsksForEvent(q) == q.type \in {"eventData", "envelopeData"}

Complete(q) ==
    /\ q.body = "json" /\ q.type \notin {None, "number", "other"}
    /\ q.type # "availableSchemas" => q.schema = "known"
    /\ AsksForEvent(q) => q.event = "cached"

\* A field is read as a string and is none (type_error): the type first; with
\* the fields that are asked for in place, the event and then the schema.
Mistyped(q) ==
    /\ q.body = "json"
    /\ \/ q.type = "number"
       \/ q.type \in {"hash", "cctData"} /\ q.schema = "number"
       \/ AsksForEvent(q) /\ q.schema # None /\ q.event = "number"
       \/ AsksForEvent(q) /\ q.schema = "number" /\ q.event \notin {None, "empty"}

\* The envelope is read from the database, and the query may fail.
Replies(q) ==
    IF q.body = "garbled" \/ Mistyped(q) THEN {"exception"}
    ELSE IF ~ Complete(q) THEN {"BadRequestException"}
    ELSE {"payload"} \cup
         (IF q.type = "envelopeData" THEN {"BadRequestException"} ELSE {})

\* The callback reads the message and answers.
Process(w, q) ==
    /\ pc[w] = "granted"
    /\ \E what \in Replies(q) : Answer(w, what)
    /\ UNCHANGED <<time, ldap, tokens, history>>

-----------------------------------------------------------------------------

Next ==
    \/ Tick \/ Restart
    \/ \E w \in Workers :
        \/ \E u \in Users : BeginLogin(w, u)
        \/ RefuseLogin(w) \/ Login(w) \/ RefuseHeader(w)
        \/ \E t \in held \cup stale : Grant(w, t) \/ Deny(w, t)
        \/ \E q \in Requests : Process(w, q)

Spec == Init /\ [][Next]_vars

-----------------------------------------------------------------------------
(* Properties *)

LoginStages == {"unbind", "free", "clear", "initialize", "initialized", "test",
                "bind", "create", "add", "answer"}

\* Every variable keeps its type.
TypeOK ==
    /\ clock \in Times /\ started \in 0 .. clock
    /\ restarts \in 0 .. MaxRestarts
    /\ mUserKeysMap \in [Users -> Tokens \cup {None}]
    /\ mLDAP \in Handles \cup {None} /\ mBound \in BOOLEAN
    /\ opened \subseteq Handles
    /\ pc \in [Workers -> Outcomes \cup LoginStages \cup {"granted"}]
    /\ login \in [Workers ->
          [user : Users \cup {None}, accepted : BOOLEAN,
           handle : Handles \cup {None}, since : Times,
           token : Tokens \cup {None}]]
    /\ held \subseteq Tokens /\ stale \subseteq Tokens
    /\ validated \subseteq Users /\ overlapped \in BOOLEAN

\* A token opens the gate (authenticator.cpp:164-218) only for a user whom
\* LDAP has accepted since the process started, only if it was signed in the
\* second in which the process started or later, and not beyond its time.
AuthorizedHonest ==
    \A t \in held \cup stale :
        Authorized(t) => /\ t.user \in validated
                         /\ t.issued >= started
                         /\ clock <= t.issued + Lifetime + Leeway

\* A token this process has answered opens the gate until its time is over,
\* also when its user logs in again and the table (add:83-101) holds another.
TokensKeepWorking ==
    \A t \in held : clock <= t.issued + Lifetime + Leeway => Authorized(t)

\* A login succeeds (callback.cpp:294-309) only for a user LDAP has accepted,
\* with a token of that user that is no older than the logins of the user
\* that were under way with it: never with one that is about to expire.
LoginHonest ==
    [][\A w \in Workers :
          pc[w] = "answer" /\ pc'[w] = "token" =>
             LET u == login[w].user
                 t == mUserKeysMap[u] IN
             /\ u \in validated
             /\ t.user = u /\ t.issued >= login[w].since]_vars

\* As long as no two logins of the process overlap, which one io thread (the
\* default) ensures, the handle is never freed twice, never used after it was
\* freed, and none is lost: mBound tells whether there is one to free.
HandleSound ==
    \/ overlapped
    \/ /\ opened \subseteq {mLDAP}
       /\ LoggingIn = {} => mBound = (opened # {})
       /\ \A w \in LoggingIn :
             /\ pc[w] = "free" => mLDAP \in opened
             /\ pc[w] = "bind" => login[w].handle \in opened

=============================================================================
