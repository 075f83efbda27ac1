--------------------------- MODULE Access_proofs ---------------------------
(***************************************************************************)
(* Proofs about Access: what tokens open the gate, what a login answers,   *)
(* and the LDAP handle while logins do not overlap, for any number of      *)
(* users, io threads, handles and restarts.                                *)
(***************************************************************************)
EXTENDS Access, TLAPS

\* The token of the table is one this process signed, for a user LDAP accepted.
TableHonest ==
    \A u \in Users :
        mUserKeysMap[u] # None => /\ mUserKeysMap[u].user = u
                                  /\ mUserKeysMap[u].key = started
                                  /\ mUserKeysMap[u].issued >= started
                                  /\ u \in validated

\* A token that was answered has its user in the table until the next restart,
\* and none is older than its key.
AnsweredKnown ==
    /\ \A t \in held : t.key = started /\ mUserKeysMap[t.user] # None
    /\ \A t \in held \cup stale : t.issued >= t.key

\* What a login under way holds at each stage.
LoginsFit ==
    \A w \in Workers : pc[w] \in LoginStages =>
        /\ login[w].user \in Users /\ login[w].since <= clock
        /\ (login[w].accepted \/ pc[w] \in {"create", "add", "answer"}) =>
              login[w].user \in validated
        /\ pc[w] = "add" => /\ login[w].token \in Tokens
                            /\ login[w].token.user = login[w].user
                            /\ login[w].token.key = started
                            /\ login[w].token.issued >= started
        /\ pc[w] = "answer" => mUserKeysMap[login[w].user] # None

\* No token that is about to be added, or was, is older than a login of its
\* user that is still under way.
TokensRecent ==
    \A w \in Workers : pc[w] \in LoginStages =>
        /\ pc[w] = "answer" => mUserKeysMap[login[w].user].issued >= login[w].since
        /\ \A v \in Workers : pc[v] = "add" /\ login[v].user = login[w].user =>
              login[v].token.issued >= login[w].since

\* The inductive invariant of the tokens.
TokenInvariant ==
    TypeOK /\ TableHonest /\ AnsweredKnown /\ LoginsFit /\ TokensRecent

-----------------------------------------------------------------------------

\* An io thread that does nothing holds nothing.
LEMMA NoLoginTyped ==
    NoLogin \in [user : Users \cup {None}, accepted : BOOLEAN,
                 handle : Handles \cup {None}, since : Times, token : Tokens \cup {None}]
  BY AccessAssumption DEF NoLogin, Times

\* The process starts with no token.
LEMMA TokenInit == Init => TokenInvariant
  <1>. SUFFICES ASSUME Init PROVE TokenInvariant
    OBVIOUS
  <1>1. TypeOK
    <2>1. mBound \in BOOLEAN /\ overlapped \in BOOLEAN
      BY DEF Init
    <2>2. clock \in Times /\ started \in 0 .. clock /\ restarts \in 0 .. MaxRestarts
      BY AccessAssumption DEF Init, Times
    <2>3. login \in [Workers -> [user : Users \cup {None}, accepted : BOOLEAN,
                 handle : Handles \cup {None}, since : Times, token : Tokens \cup {None}]]
      BY NoLoginTyped DEF Init
    <2>. QED
      BY <2>1, <2>2, <2>3 DEF Init, TypeOK, Outcomes
  <1>2. TableHonest /\ AnsweredKnown
    BY DEF Init, TableHonest, AnsweredKnown
  <1>3. \A w \in Workers : pc[w] \notin LoginStages
    BY DEF Init, LoginStages
  <1>. QED
    BY <1>1, <1>2, <1>3 DEF TokenInvariant, LoginsFit, TokensRecent

\* A restart loses the table, and time passes: neither makes a token good.
LEMMA RestartKeeps == TokenInvariant /\ (Restart \/ Tick) => TokenInvariant'
  <1>. SUFFICES ASSUME TokenInvariant, Restart \/ Tick PROVE TokenInvariant'
    OBVIOUS
  <1>1. CASE Restart
    <2>1. /\ restarts \in Nat /\ clock \in Nat /\ restarts' = restarts + 1
          /\ restarts < MaxRestarts /\ clock' = clock /\ started' = clock
      BY <1>1, AccessAssumption DEF Restart, TokenInvariant, TypeOK, Times
    <2>2. TypeOK'
      <3>1. mBound' \in BOOLEAN /\ overlapped' \in BOOLEAN
        BY <1>1 DEF Restart, Fresh
      <3>2. clock' \in Times /\ started' \in 0 .. clock' /\ restarts' \in 0 .. MaxRestarts
        BY <2>1, AccessAssumption DEF TokenInvariant, TypeOK
      <3>3. login' \in [Workers -> [user : Users \cup {None}, accepted : BOOLEAN,
                   handle : Handles \cup {None}, since : Times, token : Tokens \cup {None}]]
        BY <1>1, NoLoginTyped DEF Restart, Fresh
      <3>. QED
        BY <1>1, <3>1, <3>2, <3>3 DEF Restart, Fresh, TokenInvariant, TypeOK, Outcomes
    <2>3. TableHonest' /\ AnsweredKnown'
      BY <1>1 DEF Restart, Fresh, TokenInvariant, TableHonest, AnsweredKnown
    <2>4. \A w \in Workers : pc'[w] \notin LoginStages
      BY <1>1 DEF Restart, Fresh, LoginStages
    <2>. QED
      BY <2>2, <2>3, <2>4 DEF TokenInvariant, LoginsFit, TokensRecent
  <1>2. CASE Tick
    BY <1>2, AccessAssumption DEF Tick, ldap, tokens, threads, history, TokenInvariant, TypeOK,
        TableHonest, AnsweredKnown, LoginsFit, TokensRecent, Times
  <1>. QED
    BY <1>1, <1>2

\* The steps of a login that touch the LDAP handle leave the tokens alone.
LEMMA HandleStepsKeep ==
    ASSUME TokenInvariant, NEW w \in Workers,
           \/ TestBound(w) \/ FreeHandle(w) \/ ClearBound(w) \/ Initialize(w)
           \/ InitializeFails(w) \/ SetBound(w)
    PROVE  TokenInvariant'
  <1>. USE DEF TokenInvariant, TypeOK, time, tokens, history
  <1>1. /\ \E stage \in LoginStages \ {"add", "answer"} :
              /\ pc' = [pc EXCEPT ![w] = stage]
              /\ stage = "create" => login[w].accepted
        /\ pc[w] \in LoginStages
        /\ UNCHANGED <<time, tokens, login, history>>
    BY DEF TestBound, FreeHandle, ClearBound, Initialize, InitializeFails, SetBound,
           Goto, AfterUnbind, LoginStages
  <1>2. mLDAP' \in Handles \cup {None} /\ mBound' \in BOOLEAN /\ opened' \subseteq Handles
    <2>1. CASE TestBound(w) \/ FreeHandle(w)
      BY <2>1 DEF TestBound, FreeHandle, ldap
    <2>2. CASE ClearBound(w) \/ InitializeFails(w) \/ SetBound(w)
      BY <2>2 DEF ClearBound, InitializeFails, SetBound
    <2>3. CASE Initialize(w)
      BY <2>3 DEF Initialize
    <2>. QED
      BY <2>1, <2>2, <2>3
  <1>3. TypeOK'
    BY <1>1, <1>2
  <1>4. TableHonest' /\ AnsweredKnown'
    BY <1>1 DEF TableHonest, AnsweredKnown
  <1>5. LoginsFit' /\ TokensRecent'
    BY <1>1 DEF LoginsFit, TokensRecent
  <1>. QED
    BY <1>3, <1>4, <1>5

\* The record of a login, as TypeOK has it.
Held == [user : Users \cup {None}, accepted : BOOLEAN,
         handle : Handles \cup {None}, since : Times, token : Tokens \cup {None}]

\* A thread whose callback ends has no login under way, and none of the others
\* is touched.
LEMMA AnswerFits ==
    ASSUME TokenInvariant, NEW w \in Workers, NEW what \in Outcomes, Answer(w, what),
           UNCHANGED <<time, mUserKeysMap, stale, validated>>,
           held' \subseteq Tokens,
           \A t \in held' : t.key = started /\ mUserKeysMap[t.user] # None /\ t.issued >= t.key,
           mLDAP' \in Handles \cup {None}, mBound' \in BOOLEAN, opened' \subseteq Handles,
           overlapped' \in BOOLEAN
    PROVE  TokenInvariant'
  <1>. USE DEF TokenInvariant, time
  <1>1. /\ pc' = [pc EXCEPT ![w] = what] /\ what \notin LoginStages
        /\ pc \in [Workers -> Outcomes \cup LoginStages \cup {"granted"}]
        /\ login' = [login EXCEPT ![w] = NoLogin] /\ NoLogin \in Held /\ login \in [Workers -> Held]
    BY NoLoginTyped DEF Answer, Outcomes, LoginStages, Held, TypeOK
  <1>2. TypeOK'
    <2>1. pc' \in [Workers -> Outcomes \cup LoginStages \cup {"granted"}]
      BY <1>1
    <2>2. login' \in [Workers -> Held]
      BY <1>1
    <2>. QED
      BY <2>1, <2>2 DEF TypeOK, Held
  <1>3. TableHonest' /\ AnsweredKnown'
    BY DEF TableHonest, AnsweredKnown
  <1>4. LoginsFit' /\ TokensRecent'
    <2>1. \A v \in Workers : pc'[v] \in LoginStages => v # w /\ pc'[v] = pc[v] /\ login'[v] = login[v]
      BY <1>1
    <2>2. "add" \in LoginStages
      BY DEF LoginStages
    <2>. QED
      BY <1>1, <2>1, <2>2 DEF LoginsFit, TokensRecent
  <1>. QED
    BY <1>2, <1>3, <1>4

\* Callback::authenticate begins (callback.cpp:275-309).
LEMMA BeginLoginKeeps ==
    ASSUME TokenInvariant, NEW w \in Workers, NEW u \in Users, BeginLogin(w, u)
    PROVE  TokenInvariant'
  <1>. USE DEF TokenInvariant
  <1>1. PICK since \in Earliest(Beginnings(u)) :
          login' = [login EXCEPT ![w] = [user |-> u, accepted |-> FALSE,
                       handle |-> None, since |-> since, token |-> None]]
    BY DEF BeginLogin
  <1>2. /\ pc' = [pc EXCEPT ![w] = "unbind"] /\ pc[w] \in Outcomes
        /\ UNCHANGED <<time, ldap, tokens, validated>>
    BY DEF BeginLogin, Goto, Ready
  <1>3. /\ since \in Times /\ since <= clock
        /\ \A v \in Workers : pc[v] = "add" /\ login[v].user = u => since <= login[v].since
    <2>1. clock \in Times /\ \A v \in Workers : login[v].since \in Times
      BY DEF TypeOK
    <2>2. \A v \in Workers : pc[v] = "add" => v \in LoggingIn
      BY DEF LoggingIn, Ready, Outcomes
    <2>3. clock \in Beginnings(u)
      BY DEF Beginnings
    <2>4. \A v \in Workers : pc[v] = "add" /\ login[v].user = u => login[v].since \in Beginnings(u)
      BY <2>2 DEF Beginnings
    <2>5. Beginnings(u) \subseteq Times
      BY <2>1 DEF Beginnings, LoggingIn
    <2>. QED
      BY <2>3, <2>4, <2>5 DEF Earliest
  <1>4. TypeOK'
    <2>1. [user |-> u, accepted |-> FALSE, handle |-> None, since |-> since, token |-> None] \in Held
      BY <1>3 DEF Held
    <2>2. login' \in [Workers -> Held]
      BY <1>1, <2>1 DEF TypeOK, Held
    <2>3. overlapped' \in BOOLEAN
      BY DEF BeginLogin
    <2>. QED
      BY <1>2, <2>2, <2>3 DEF TypeOK, Held, time, ldap, tokens, LoginStages
  <1>5. TableHonest' /\ AnsweredKnown'
    BY <1>2 DEF TableHonest, AnsweredKnown, time, tokens
  <1>6. \A v \in Workers \ {w} : pc'[v] = pc[v] /\ login'[v] = login[v]
    BY <1>1, <1>2 DEF TypeOK
  <1>7. /\ pc'[w] = "unbind" /\ login'[w].user = u /\ login'[w].since = since
        /\ login'[w].accepted = FALSE
    BY <1>1, <1>2 DEF TypeOK
  <1>8. LoginsFit'
    BY <1>2, <1>3, <1>6, <1>7 DEF LoginsFit, time, tokens
  <1>9. TokensRecent'
    <2>1. \A v \in Workers : pc[v] = "add" /\ login[v].user = u => login[v].token.issued >= since
      <3>1. \A v \in Workers : pc[v] = "add" => /\ login[v].since \in Times
                                               /\ login[v].token \in Tokens
                                               /\ login[v].token.issued >= login[v].since
        BY DEF TypeOK, LoginsFit, TokensRecent, LoginStages
      <3>. QED
        BY <1>3, <3>1 DEF Times, Tokens
    <2>. QED
      BY <1>2, <1>6, <1>7, <2>1 DEF TokensRecent, tokens
  <1>. QED
    BY <1>4, <1>5, <1>8, <1>9

\* ldap_sasl_bind_s begins and ends (ldap.cpp:199-229).
LEMMA BindKeeps ==
    ASSUME TokenInvariant, NEW w \in Workers, NEW result,
           Bind(w) \/ BindEnds(w, result)
    PROVE  TokenInvariant'
  <1>. USE DEF TokenInvariant
  <1>1. CASE \E what \in Outcomes : Answer(w, what) /\ UNCHANGED <<time, ldap, tokens, history>>
    BY <1>1, AnswerFits DEF TypeOK, AnsweredKnown, ldap, tokens, history
  <1>2. CASE /\ pc[w] \in LoginStages
             /\ \E h \in Handles \cup {None} : login' = [login EXCEPT ![w].handle = h]
             /\ pc' = [pc EXCEPT ![w] = "bind"]
             /\ UNCHANGED <<time, ldap, tokens, history>>
    <2>. USE <1>2 DEF time, ldap, tokens, history, TypeOK
    <2>1. TypeOK'
      BY DEF LoginStages
    <2>2. \A v \in Workers : /\ login'[v].user = login[v].user
                             /\ login'[v].since = login[v].since
                             /\ login'[v].accepted = login[v].accepted
                             /\ login'[v].token = login[v].token
      OBVIOUS
    <2>3. \A v \in Workers : v # w => pc'[v] = pc[v]
      OBVIOUS
    <2>4. pc'[w] = "bind"
      OBVIOUS
    <2>. QED
      BY <2>1, <2>2, <2>3, <2>4 DEF TableHonest, AnsweredKnown, LoginsFit, TokensRecent
  <1>3. CASE /\ pc[w] = "bind"
             /\ login' = [login EXCEPT ![w].accepted = TRUE]
             /\ pc' = [pc EXCEPT ![w] = "unbind"]
             /\ validated' = validated \cup {login[w].user}
             /\ UNCHANGED <<time, ldap, tokens, overlapped>>
    <2>. USE <1>3 DEF time, ldap, tokens, history
    <2>0. login[w].user \in Users
      BY DEF LoginsFit, LoginStages
    <2>1. TypeOK'
      BY <2>0 DEF TypeOK, LoginStages
    <2>2. \A v \in Workers : /\ login'[v].user = login[v].user
                             /\ login'[v].since = login[v].since
                             /\ login'[v].token = login[v].token
                             /\ v # w => login'[v].accepted = login[v].accepted
      BY DEF TypeOK
    <2>3. \A v \in Workers : v # w => pc'[v] = pc[v]
      BY DEF TypeOK
    <2>4. pc'[w] = "unbind" /\ pc[w] \in LoginStages
      BY DEF TypeOK, LoginStages
    <2>5. LoginsFit'
      BY <2>2, <2>3, <2>4 DEF LoginsFit
    <2>. QED
      BY <2>1, <2>2, <2>3, <2>4, <2>5 DEF TableHonest, AnsweredKnown, TokensRecent
  <1>4. Bind(w) => mLDAP \in Handles \cup {None} /\ pc[w] \in LoginStages
    BY DEF Bind, TypeOK, LoginStages
  <1>5. \A what \in {"exception", "InvalidPermissionException"} : what \in Outcomes
    BY DEF Outcomes
  <1>6. CASE Bind(w)
    BY <1>1, <1>2, <1>4, <1>5, <1>6 DEF Bind, Goto
  <1>7. CASE BindEnds(w, result)
    BY <1>1, <1>3, <1>5, <1>7 DEF BindEnds, Goto, history
  <1>. QED
    BY <1>6, <1>7

\* createCredentials signs a token (authenticator.cpp:40-64).
LEMMA CreateKeeps ==
    ASSUME TokenInvariant, NEW w \in Workers, Create(w)
    PROVE  TokenInvariant'
  <1>. USE DEF TokenInvariant, time, ldap, tokens, history
  <1>. DEFINE t == [user |-> login[w].user, issued |-> clock, key |-> started]
  <1>1. /\ pc[w] = "create" /\ pc' = [pc EXCEPT ![w] = "add"]
        /\ login' = [login EXCEPT ![w].token = t]
        /\ UNCHANGED <<time, ldap, tokens, history>>
        /\ pc[w] \in LoginStages
    BY DEF Create, Goto, mKey, LoginStages
  <1>2. /\ login[w].user \in Users /\ login[w].user \in validated
        /\ clock \in Times /\ started \in Times /\ started <= clock
    BY <1>1, AccessAssumption DEF LoginsFit, TypeOK, Times
  <1>3. t \in Tokens /\ t.user = login[w].user /\ t.key = started /\ t.issued = clock
    BY <1>2 DEF Tokens
  <1>. HIDE DEF t
  <1>4. TypeOK'
    BY <1>1, <1>3 DEF TypeOK, LoginStages
  <1>5. \A v \in Workers : /\ login'[v].user = login[v].user
                           /\ login'[v].since = login[v].since
                           /\ login'[v].accepted = login[v].accepted
                           /\ v # w => login'[v].token = login[v].token /\ pc'[v] = pc[v]
    BY <1>1 DEF TypeOK
  <1>6. login'[w].token = t /\ pc'[w] = "add"
    BY <1>1 DEF TypeOK
  <1>7. LoginsFit'
    BY <1>1, <1>2, <1>3, <1>5, <1>6 DEF LoginsFit
  <1>8. TokensRecent'
    <2>1. \A v \in Workers : pc'[v] \in LoginStages => pc[v] \in LoginStages
      BY <1>1, <1>5
    <2>. QED
      BY <1>1, <1>3, <1>5, <1>6, <2>1 DEF LoginsFit, TokensRecent
  <1>. QED
    BY <1>1, <1>4, <1>7, <1>8 DEF TableHonest, AnsweredKnown

\* add replaces the token of the user (authenticator.cpp:83-105).
LEMMA AddKeeps ==
    ASSUME TokenInvariant, NEW w \in Workers, Add(w)
    PROVE  TokenInvariant'
  <1>. USE DEF TokenInvariant, time, ldap, tokens, history
  <1>. DEFINE u == login[w].user
              t == login[w].token
  <1>1. /\ pc[w] = "add" /\ pc' = [pc EXCEPT ![w] = "answer"]
        /\ mUserKeysMap' = [mUserKeysMap EXCEPT ![u] = t]
        /\ UNCHANGED <<time, ldap, held, stale, login, history>>
        /\ pc[w] \in LoginStages
    BY DEF Add, Goto, LoginStages
  <1>2. /\ u \in Users /\ u \in validated /\ t \in Tokens /\ t # None
        /\ t.user = u /\ t.key = started /\ t.issued >= started
    BY <1>1, AccessAssumption DEF LoginsFit
  <1>3. /\ mUserKeysMap'[u] = t
        /\ \A x \in Users \ {u} : mUserKeysMap'[x] = mUserKeysMap[x]
    BY <1>1, <1>2 DEF TypeOK
  <1>4. TypeOK'
    BY <1>1, <1>2 DEF TypeOK, LoginStages
  <1>5. \A v \in Workers \ {w} : pc'[v] = pc[v]
    BY <1>1 DEF TypeOK
  <1>6. pc'[w] = "answer"
    BY <1>1 DEF TypeOK
  <1>7. TableHonest' /\ AnsweredKnown'
    <2>1. \A x \in held : x.user \in Users
      BY DEF TypeOK, Tokens
    <2>. QED
      BY <1>1, <1>2, <1>3, <2>1 DEF TableHonest, AnsweredKnown
  <1>8. LoginsFit'
    BY <1>1, <1>2, <1>3, <1>5, <1>6 DEF LoginsFit
  <1>9. TokensRecent'
    <2>1. \A v \in Workers : pc'[v] \in LoginStages => pc[v] \in LoginStages /\ login[v].user \in Users
      BY <1>1, <1>5 DEF LoginsFit
    <2>2. \A v \in Workers : pc[v] \in LoginStages /\ login[v].user = u => t.issued >= login[v].since
      BY <1>1 DEF TokensRecent
    <2>3. ASSUME NEW v \in Workers, pc'[v] = "answer"
          PROVE  mUserKeysMap'[login[v].user].issued >= login[v].since
      <3>1. pc'[v] \in LoginStages
        BY <2>3 DEF LoginStages
      <3>2. CASE login[v].user = u
        BY <1>3, <2>1, <2>2, <3>1, <3>2
      <3>3. CASE login[v].user # u
        BY <1>1, <1>3, <1>5, <2>1, <2>3, <3>1, <3>3 DEF TokensRecent
      <3>. QED
        BY <3>2, <3>3
    <2>4. \A x \in Workers : pc'[x] = "add" => pc[x] = "add"
      BY <1>5, <1>6
    <2>. QED
      BY <1>1, <2>1, <2>3, <2>4 DEF TokensRecent
  <1>. QED
    BY <1>4, <1>7, <1>8, <1>9

\* getCredentials answers the token of the table (authenticator.cpp:119-133).
LEMMA AnswerLoginKeeps ==
    ASSUME TokenInvariant, NEW w \in Workers, AnswerLogin(w)
    PROVE  TokenInvariant'
  <1>. USE DEF TokenInvariant
  <1>. DEFINE t == mUserKeysMap[login[w].user]
  <1>1. /\ Answer(w, "token") /\ "token" \in Outcomes /\ held' = held \cup {t}
        /\ UNCHANGED <<time, ldap, mUserKeysMap, stale, history>>
    BY DEF AnswerLogin, Outcomes
  <1>2. login[w].user \in Users /\ t # None
    BY DEF AnswerLogin, LoginsFit, LoginStages
  <1>3. t \in Tokens /\ t.user = login[w].user /\ t.key = started /\ t.issued >= t.key
    BY <1>2 DEF TypeOK, TableHonest
  <1>. HIDE DEF t
  <1>4. \A x \in held' : x \in Tokens /\ x.key = started
                          /\ mUserKeysMap[x.user] # None /\ x.issued >= x.key
    <2>1. mUserKeysMap[t.user] # None
      BY <1>2, <1>3 DEF t
    <2>. QED
      BY <1>1, <1>3, <2>1 DEF TypeOK, AnsweredKnown
  <1>. QED
    BY <1>1, <1>4, AnswerFits DEF TypeOK, ldap, history

\* Requests that bring a token, and those that bring nothing of use
\* (callback.cpp:413-638).
LEMMA RequestsKeep ==
    ASSUME TokenInvariant, NEW w \in Workers, NEW t, NEW q,
           RefuseLogin(w) \/ RefuseHeader(w) \/ Grant(w, t) \/ Deny(w, t) \/ Process(w, q)
    PROVE  TokenInvariant'
  <1>. USE DEF TokenInvariant
  <1>1. CASE \E what \in Outcomes : Answer(w, what) /\ UNCHANGED <<time, ldap, tokens, history>>
    BY <1>1, AnswerFits DEF TypeOK, AnsweredKnown, ldap, tokens, history
  <1>2. CASE Grant(w, t)
    <2>1. /\ pc' = [pc EXCEPT ![w] = "granted"] /\ "granted" \notin LoginStages
          /\ UNCHANGED <<time, ldap, tokens, login, history>>
      BY <1>2 DEF Grant, Goto, LoginStages
    <2>2. TypeOK'
      BY <2>1 DEF TypeOK, time, ldap, tokens, history
    <2>3. \A v \in Workers : pc'[v] \in LoginStages => pc'[v] = pc[v]
      BY <2>1 DEF TypeOK
    <2>4. "add" \in LoginStages
      BY DEF LoginStages
    <2>. QED
      BY <2>1, <2>2, <2>3, <2>4
         DEF TableHonest, AnsweredKnown, LoginsFit, TokensRecent, time, tokens, history
  <1>3. Replies(q) \subseteq Outcomes
    BY DEF Replies, Outcomes
  <1>4. {"BadRequestException", "invalid_argument", "exception", "InvalidPermissionException",
         "UnimplementedException"} \subseteq Outcomes
    BY DEF Outcomes
  <1>5. CASE RefuseLogin(w) \/ RefuseHeader(w) \/ Deny(w, t)
    BY <1>1, <1>4, <1>5 DEF RefuseLogin, RefuseHeader, Deny
  <1>6. CASE Process(w, q)
    BY <1>1, <1>3, <1>6 DEF Process
  <1>. QED
    BY <1>2, <1>5, <1>6

\* Every step keeps the invariant of the tokens.
LEMMA TokenStep == TokenInvariant /\ [Next]_vars => TokenInvariant'
  <1>. SUFFICES ASSUME TokenInvariant, [Next]_vars
                PROVE  TokenInvariant'
    OBVIOUS
  <1>1. CASE Tick \/ Restart
    BY <1>1, RestartKeeps
  <1>2. ASSUME NEW w \in Workers, NEW u \in Users, BeginLogin(w, u)
        PROVE  TokenInvariant'
    BY <1>2, BeginLoginKeeps
  <1>3. ASSUME NEW w \in Workers, Login(w)
        PROVE  TokenInvariant'
    <2>1. CASE \/ TestBound(w) \/ FreeHandle(w) \/ ClearBound(w) \/ Initialize(w)
               \/ InitializeFails(w) \/ SetBound(w)
      BY <2>1, HandleStepsKeep
    <2>2. CASE Bind(w) \/ \E result \in {"LDAP_SUCCESS", "LDAP_INVALID_CREDENTIALS",
                                          "LDAP_OTHER"} : BindEnds(w, result)
      BY <2>2, BindKeeps
    <2>3. CASE Create(w)
      BY <2>3, CreateKeeps
    <2>4. CASE Add(w)
      BY <2>4, AddKeeps
    <2>5. CASE AnswerLogin(w)
      BY <2>5, AnswerLoginKeeps
    <2>. QED
      BY <1>3, <2>1, <2>2, <2>3, <2>4, <2>5 DEF Login
  <1>4. ASSUME NEW w \in Workers, NEW t, NEW q,
               RefuseLogin(w) \/ RefuseHeader(w) \/ Grant(w, t) \/ Deny(w, t) \/ Process(w, q)
        PROVE  TokenInvariant'
    BY <1>4, RequestsKeep
  <1>5. CASE UNCHANGED vars
    BY <1>5 DEF vars, time, ldap, tokens, threads, history, TokenInvariant, TypeOK,
        TableHonest, AnsweredKnown, LoginsFit, TokensRecent
  <1>. QED
    BY <1>1, <1>2, <1>3, <1>4, <1>5 DEF Next

\* The invariant holds in every reachable state.
THEOREM TokenInvariantHolds == Spec => []TokenInvariant
  BY TokenInit, TokenStep, PTL DEF Spec

\* Every variable keeps its type.
THEOREM TypeCorrect == Spec => []TypeOK
  <1>1. TokenInvariant => TypeOK
    BY DEF TokenInvariant
  <1>. QED
    BY <1>1, TokenInvariantHolds, PTL

\* The gate (authenticator.cpp:164-218) opens only for tokens that were signed
\* since the process started, for users LDAP has accepted.
THEOREM GateHonest == Spec => []AuthorizedHonest
  <1>1. ASSUME TokenInvariant, NEW t \in held \cup stale, Authorized(t)
        PROVE  /\ t.user \in validated /\ t.issued >= started
               /\ clock <= t.issued + Lifetime + Leeway
    <2>1. t.user \in Users /\ mUserKeysMap[t.user] # None
      BY <1>1 DEF TokenInvariant, TypeOK, Tokens, Authorized
    <2>2. t.user \in validated
      BY <1>1, <2>1 DEF TokenInvariant, TableHonest
    <2>3. t.issued >= started /\ clock <= t.issued + Lifetime + Leeway
      BY <1>1 DEF TokenInvariant, AnsweredKnown, Authorized, Verified, mKey
    <2>. QED
      BY <2>2, <2>3
  <1>2. TokenInvariant => AuthorizedHonest
    BY <1>1 DEF AuthorizedHonest
  <1>. QED
    BY <1>2, TokenInvariantHolds, PTL

\* A token that was answered works until its time is over, whatever its user
\* and others do (authenticator.cpp:83-105).
THEOREM TokensWork == Spec => []TokensKeepWorking
  <1>1. TokenInvariant => TokensKeepWorking
    BY DEF TokenInvariant, AnsweredKnown, TokensKeepWorking, Authorized, Verified, mKey
  <1>. QED
    BY <1>1, TokenInvariantHolds, PTL

\* A login is answered with a token of its user that is no older than the
\* logins of the user it overlaps (callback.cpp:294-309).
THEOREM LoginsHonest == Spec => LoginHonest
  <1>. DEFINE Honest == \A w \in Workers :
                pc[w] = "answer" /\ pc'[w] = "token" =>
                   LET u == login[w].user
                       t == mUserKeysMap[u] IN
                   /\ u \in validated
                   /\ t.user = u /\ t.issued >= login[w].since
  <1>1. ASSUME TokenInvariant, NEW w \in Workers, pc[w] = "answer"
        PROVE  LET u == login[w].user
                   t == mUserKeysMap[u] IN
               u \in validated /\ t.user = u /\ t.issued >= login[w].since
    <2>1. pc[w] \in LoginStages
      BY <1>1 DEF LoginStages
    <2>2. /\ login[w].user \in Users /\ login[w].user \in validated
          /\ mUserKeysMap[login[w].user] # None
      BY <1>1, <2>1 DEF TokenInvariant, LoginsFit
    <2>3. mUserKeysMap[login[w].user].issued >= login[w].since
      BY <1>1, <2>1 DEF TokenInvariant, TokensRecent
    <2>. QED
      BY <1>1, <2>2, <2>3 DEF TokenInvariant, TableHonest
  <1>2. TokenInvariant => Honest
    BY <1>1
  <1>3. TokenInvariant /\ [Next]_vars => [Honest]_vars
    BY <1>2
  <1>. QED
    BY <1>3, TokenInvariantHolds, PTL DEF Spec, LoginHonest

-----------------------------------------------------------------------------
(* The LDAP handle, while logins do not overlap *)

\* What the one login that is under way has made of the handle: mBound tells
\* whether it is open, but between ldap_unbind_ext or ldap_initialize and the
\* assignment that follows.
HandleFits ==
    ~ overlapped =>
        /\ \A v, w \in LoggingIn : v = w
        /\ opened \subseteq {mLDAP}
        /\ LoggingIn = {} => (mBound <=> opened # {})
        /\ \A w \in LoggingIn :
              /\ pc[w] \in {"unbind", "test", "create", "add", "answer"} =>
                    (mBound <=> opened # {})
              /\ pc[w] = "free" => mLDAP \in opened
              /\ pc[w] = "clear" => opened = {}
              /\ pc[w] = "initialize" => opened = {} /\ ~ mBound
              /\ pc[w] = "initialized" => mLDAP \in opened
              /\ pc[w] = "bind" => mBound /\ mLDAP \in opened /\ login[w].handle = mLDAP

\* Ready threads and granted requests are not logging in.
LEMMA LoggingInStages ==
    ASSUME TypeOK
    PROVE  LoggingIn = {w \in Workers : pc[w] \in LoginStages}
  BY DEF TypeOK, LoggingIn, Ready, Outcomes, LoginStages

\* The one login under way stays within what HandleFits says of its stage.
LEMMA LoginFits ==
    ASSUME TypeOK, TypeOK', HandleFits, NEW w \in Workers, Login(w)
    PROVE  HandleFits'
  <1>. SUFFICES ASSUME ~ overlapped'
                PROVE  HandleFits'
    BY DEF HandleFits
  <1>. USE DEF TypeOK, ldap, tokens, history, time, Goto
  <1>1. /\ pc[w] \in LoginStages /\ overlapped' = overlapped
        /\ \E s \in Outcomes \cup LoginStages : pc' = [pc EXCEPT ![w] = s]
    BY DEF Login, TestBound, FreeHandle, ClearBound, Initialize, InitializeFails, SetBound,
           Bind, BindEnds, Create, Add, AnswerLogin, Answer, AfterUnbind, LoginStages, Outcomes
  <1>2. LoggingIn = {w} /\ LoggingIn' = {v \in Workers : pc'[v] \in LoginStages}
    BY <1>1, LoggingInStages DEF HandleFits, LoggingIn, Ready, Outcomes, LoginStages
  <1>3. LoggingIn' = IF pc'[w] \in LoginStages THEN {w} ELSE {}
    BY <1>1, <1>2, LoggingInStages
  <1>4. /\ opened \subseteq {mLDAP}
        /\ pc[w] \in {"unbind", "test", "create", "add", "answer"} => (mBound <=> opened # {})
        /\ pc[w] = "free" => mLDAP \in opened
        /\ pc[w] = "clear" => opened = {}
        /\ pc[w] = "initialize" => opened = {} /\ ~ mBound
        /\ pc[w] = "initialized" => mLDAP \in opened
        /\ pc[w] = "bind" => mBound /\ mLDAP \in opened /\ login[w].handle = mLDAP
    BY <1>1, <1>2 DEF HandleFits
  <1>5. SUFFICES
        /\ opened' \subseteq {mLDAP'}
        /\ pc'[w] \notin LoginStages \/ pc'[w] \in {"unbind", "test", "create", "add", "answer"}
              => (mBound' <=> opened' # {})
        /\ pc'[w] = "free" => mLDAP' \in opened'
        /\ pc'[w] = "clear" => opened' = {}
        /\ pc'[w] = "initialize" => opened' = {} /\ ~ mBound'
        /\ pc'[w] = "initialized" => mLDAP' \in opened'
        /\ pc'[w] = "bind" => mBound' /\ mLDAP' \in opened' /\ login'[w].handle = mLDAP'
    BY <1>3 DEF HandleFits
  <1>6. \A s : pc' = [pc EXCEPT ![w] = s] => pc'[w] = s
    OBVIOUS
  <1>7. CASE TestBound(w)
    BY <1>4, <1>6, <1>7 DEF TestBound, AfterUnbind, LoginStages
  <1>8. CASE FreeHandle(w) \/ ClearBound(w)
    BY <1>4, <1>6, <1>8 DEF FreeHandle, ClearBound, AfterUnbind, LoginStages
  <1>9. CASE Initialize(w) \/ InitializeFails(w) \/ SetBound(w)
    BY <1>4, <1>6, <1>9 DEF Initialize, InitializeFails, SetBound, LoginStages
  <1>10. CASE Bind(w)
    <2>1. CASE mBound
      <3>1. login'[w].handle = mLDAP
        BY <1>10, <2>1 DEF Bind
      <3>. QED
        BY <1>4, <1>6, <1>10, <2>1, <3>1 DEF Bind, LoginStages
    <2>2. CASE ~ mBound
      BY <1>4, <1>6, <1>10, <2>2 DEF Bind, Answer, LoginStages
    <2>. QED
      BY <2>1, <2>2
  <1>11. CASE \E result : BindEnds(w, result)
    BY <1>4, <1>6, <1>11 DEF BindEnds, Answer, LoginStages
  <1>12. CASE Create(w) \/ Add(w) \/ AnswerLogin(w)
    BY <1>4, <1>6, <1>12 DEF Create, Add, AnswerLogin, Answer, LoginStages
  <1>. QED
    BY <1>7, <1>8, <1>9, <1>10, <1>11, <1>12 DEF Login

\* Every step keeps the handle as the login under way has it.
LEMMA HandleStep == TypeOK /\ TypeOK' /\ HandleFits /\ [Next]_vars => HandleFits'
  <1>. SUFFICES ASSUME TypeOK, TypeOK', HandleFits, [Next]_vars
                PROVE  HandleFits'
    OBVIOUS
  <1>. USE DEF TypeOK
  <1>1. LoggingIn' = {w \in Workers : pc'[w] \in LoginStages}
    BY DEF LoggingIn, Ready, Outcomes, LoginStages
  <1>2. CASE Restart
    BY <1>1, <1>2 DEF Restart, Fresh, HandleFits, LoginStages
  <1>3. ASSUME UNCHANGED <<ldap, history>>, LoggingIn' = LoggingIn,
               \A w \in LoggingIn : pc'[w] = pc[w] /\ login'[w] = login[w]
        PROVE  HandleFits'
    BY <1>3 DEF HandleFits, ldap, history
  <1>4. CASE Tick \/ UNCHANGED vars
    <2>1. UNCHANGED <<ldap, history, pc, login>>
      BY <1>4 DEF Tick, vars, threads
    <2>2. LoggingIn' = LoggingIn
      BY <2>1 DEF LoggingIn, Ready
    <2>. QED
      BY <1>3, <2>1, <2>2
  <1>5. ASSUME NEW w \in Workers, NEW u \in Users, BeginLogin(w, u), ~ overlapped'
        PROVE  HandleFits'
    <2>1. /\ LoggingIn = {} /\ ~ overlapped /\ pc' = [pc EXCEPT ![w] = "unbind"]
          /\ UNCHANGED ldap
      BY <1>5 DEF BeginLogin, Goto
    <2>2. LoggingIn' = {w} /\ pc'[w] = "unbind"
      BY <1>1, <2>1, LoggingInStages DEF LoginStages
    <2>3. opened \subseteq {mLDAP} /\ (mBound <=> opened # {})
      BY <2>1 DEF HandleFits
    <2>. QED
      BY <2>1, <2>2, <2>3 DEF HandleFits, ldap
  <1>6. ASSUME NEW w \in Workers, pc[w] \notin LoginStages,
               NEW s \in Outcomes \cup {"granted"}, pc' = [pc EXCEPT ![w] = s],
               \/ UNCHANGED login
               \/ login' = [login EXCEPT ![w] = NoLogin],
               UNCHANGED <<ldap, history>>
        PROVE  HandleFits'
    <2>1. s \notin LoginStages
      BY DEF Outcomes, LoginStages
    <2>2. \A v \in Workers : v # w => pc'[v] = pc[v] /\ login'[v] = login[v]
      BY <1>6
    <2>3. LoggingIn' = LoggingIn /\ w \notin LoggingIn
      BY <1>1, <1>6, <2>1, <2>2, LoggingInStages
    <2>4. \A v \in LoggingIn : v \in Workers
      BY DEF LoggingIn
    <2>. QED
      BY <1>3, <1>6, <2>2, <2>3, <2>4
  <1>7. ASSUME NEW w \in Workers, NEW t, NEW q,
               RefuseLogin(w) \/ RefuseHeader(w) \/ Grant(w, t) \/ Deny(w, t) \/ Process(w, q)
        PROVE  HandleFits'
    <2>1. pc[w] \notin LoginStages
      BY <1>7 DEF RefuseLogin, RefuseHeader, Grant, Deny, Process, Ready, Outcomes, LoginStages
    <2>2. CASE \E s \in Outcomes : Answer(w, s) /\ UNCHANGED <<ldap, history>>
      BY <1>6, <2>1, <2>2 DEF Answer
    <2>3. CASE Grant(w, t)
      BY <1>6, <2>1, <2>3 DEF Grant, Goto
    <2>4. Replies(q) \subseteq Outcomes
      BY DEF Replies, Outcomes
    <2>5. {"BadRequestException", "invalid_argument", "exception", "InvalidPermissionException",
           "UnimplementedException"} \subseteq Outcomes
      BY DEF Outcomes
    <2>. QED
      BY <1>7, <2>2, <2>3, <2>4, <2>5 DEF RefuseLogin, RefuseHeader, Deny, Process
  <1>8. ASSUME NEW w \in Workers, Login(w)
        PROVE  HandleFits'
    BY <1>8, LoginFits
  <1>9. overlapped' => HandleFits'
    BY DEF HandleFits
  <1>. QED
    BY <1>2, <1>4, <1>5, <1>7, <1>8, <1>9 DEF Next

\* While logins do not overlap, the handle is not freed twice, not used after
\* it was freed, and not lost (ldap.cpp:41-94, 183-244).
THEOREM HandleIsSound == Spec => []HandleSound
  <1>1. Init => HandleFits
    BY LoggingInStages, TokenInit DEF Init, HandleFits, LoggingIn, Ready, Outcomes
  <1>2. TypeOK /\ TypeOK' /\ HandleFits /\ [Next]_vars => HandleFits'
    BY HandleStep
  <1>3. TypeOK /\ HandleFits => HandleSound
    <2>. SUFFICES ASSUME TypeOK, HandleFits, ~ overlapped
                  PROVE  HandleSound
      BY DEF HandleSound
    <2>1. LoggingIn = {} => mBound = (opened # {})
      BY DEF HandleFits, TypeOK
    <2>2. /\ opened \subseteq {mLDAP}
          /\ \A w \in LoggingIn : /\ pc[w] = "free" => mLDAP \in opened
                                  /\ pc[w] = "bind" => login[w].handle \in opened
      BY DEF HandleFits
    <2>. QED
      BY <2>1, <2>2 DEF HandleSound
  <1>. QED
    BY <1>1, <1>2, <1>3, TypeCorrect, PTL DEF Spec

=============================================================================
