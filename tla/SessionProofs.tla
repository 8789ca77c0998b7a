--------------------------- MODULE SessionProofs ----------------------------
(***************************************************************************)
(* Proofs about Sessions, for any accounts, browsers and sessions and any  *)
(* number of concurrent requests.                                          *)
(***************************************************************************)
EXTENDS Sessions, TLAPS

Entering == Payload({"login", "register"}, Email, Password, {None})
Holding(op) == Payload({op}, {None}, {None}, {None})
Forgetting == Payload({"forgot"}, Email, {None}, {None})
Choosing == Payload({"reset"}, {None}, Password, TokenId)

\* What a handler's label says of its request and of the rows it has found.
CallFits(r) ==
    /\ pc[r] \in {"find_user", "find_email", "insert_user", "insert_session"} =>
        call[r] \in Entering
    /\ pc[r] \in {"find_session", "rotate"} =>
        call[r] \in Holding("refresh") /\ held[r] \in SessionId
    /\ pc[r] \in {"find_own_session", "revoke"} =>
        call[r] \in Holding("logout") /\ held[r] \in SessionId
    /\ pc[r] = "rotate" => session[held[r]] # None
    /\ pc[r] \in {"find_account", "insert_token", "send_mail"} => call[r] \in Forgetting
    /\ pc[r] \in {"find_token", "select_sessions", "sweep", "commit_reset"} =>
        call[r] \in Choosing
    /\ pc[r] \in {"select_sessions", "sweep", "commit_reset"} =>
        token[call[r].token] # None
    /\ answer[r] # None => pc[r] \in {"answered", "done"}
    /\ pc[r] \in {"answered", "done"} => call[r] \in Call

\* Rows are made once: a request that has made none yet finds its id free.
Fresh(r) ==
    /\ session[r] # None => pc[r] \in {"answered", "done"}
    /\ token[r] # None => pc[r] \in {"send_mail", "answered", "done"}

Control == \A r \in Request : CallFits(r) /\ Fresh(r)

-----------------------------------------------------------------------------
USE DEF Location

LEMMA RequestIds ==
    /\ Request \subseteq SessionId /\ Request \subseteq TokenId
    /\ None \notin SessionId /\ None \notin TokenId /\ None \notin Email
    /\ None \notin Password
BY SeedAssumption DEF SessionId, TokenId

LEMMA CallForms ==
    ASSUME NEW c \in Call
    PROVE  /\ c.browser \in Browser
           /\ c.op \in {"login", "register", "refresh", "logout", "forgot", "reset"}
           /\ c.op \in {"login", "register"} => c \in Entering
           /\ c.op = "refresh" => c \in Holding("refresh")
           /\ c.op = "logout" => c \in Holding("logout")
           /\ c.op = "forgot" => c \in Forgetting
           /\ c.op = "reset" => c \in Choosing
BY DEF Call, Payload, Entering, Holding, Forgetting, Choosing

LEMMA FormFields ==
    /\ \A c \in Entering : /\ c.email \in Email /\ c.password \in Password
                           /\ c.op \in {"login", "register"} /\ c \in Call
    /\ \A c \in Holding("refresh") : c.op = "refresh" /\ c \in Call
    /\ \A c \in Holding("logout") : c.op = "logout" /\ c \in Call
    /\ \A c \in Forgetting : c.email \in Email /\ c.op = "forgot" /\ c \in Call
    /\ \A c \in Choosing : /\ c.password \in Password /\ c.token \in TokenId
                           /\ c.op = "reset" /\ c \in Call
BY DEF Call, Payload, Entering, Holding, Forgetting, Choosing

\* The actions that only read.
Reading(r) ==
    \/ FindEmail(r) \/ FindUser(r) \/ FindSession(r) \/ FindOwnSession(r)
    \/ FindAccount(r) \/ FindToken(r) \/ SelectSessions(r) \/ Sweep(r)

LEMMA TypeStep == ASSUME TypeOK, Control, [Next]_vars PROVE TypeOK'
<1> USE DEF TypeOK, GoTo, Answer, rows, browsers, resetting
<1>1. ASSUME NEW r \in Request, Send(r) PROVE TypeOK'
  <2>1. PICK c \in Calls :
          /\ call' = [call EXCEPT ![r] = c]
          /\ held' = [held EXCEPT ![r] = cookie[c.browser]]
          /\ \/ /\ GoTo(r, "answered")
                /\ answer' = [answer EXCEPT ![r] =
                      IF c.op = "refresh" THEN "refused" ELSE "ok"]
             \/ GoTo(r, FirstStatement[c.op]) /\ UNCHANGED answer
    BY <1>1 DEF Send
  <2>2. c \in Call /\ c.browser \in Browser /\ FirstStatement[c.op] \in Location
    BY <2>1, CallForms, CallsAssumption DEF FirstStatement
  <2> QED
    BY <1>1, <2>1, <2>2 DEF Send
<1>2. ASSUME NEW r \in Request, Reading(r) PROVE TypeOK'
  <2>0. CallFits(r)
    BY DEF Control
  <2>1. CASE FindEmail(r) \/ FindToken(r)
    BY <2>1 DEF FindEmail, FindToken, Look
  <2>5. CASE FindOwnSession(r) \/ FindAccount(r)
    BY <2>5 DEF FindOwnSession, FindAccount
  <2>6. CASE Sweep(r)
    BY <2>6 DEF Sweep
  <2>2. CASE FindUser(r)
    BY <2>0, <2>2, FormFields DEF FindUser, Look, Knows, CallFits
  <2>3. CASE FindSession(r)
    <3>1. Valid(held[r]) => session[held[r]] \in SessionRow
      BY <2>0, <2>3 DEF FindSession, CallFits, Valid
    <3> QED
      BY <2>3, <3>1 DEF FindSession, Look, Knows, SessionRow
  <2>4. CASE SelectSessions(r)
    BY <2>4 DEF SelectSessions, Live
  <2> QED
    BY <1>2, <2>1, <2>2, <2>3, <2>4, <2>5, <2>6 DEF Reading
<1>3. ASSUME NEW r \in Request, InsertUser(r) \/ InsertSession(r) PROVE TypeOK'
  <2>0. call[r] \in Entering
    BY <1>3 DEF Control, CallFits, InsertUser, InsertSession
  <2>1. CASE InsertUser(r)
    BY <2>0, <2>1, FormFields DEF InsertUser, Knows
  <2>2. CASE InsertSession(r)
    BY <2>0, <2>2, FormFields DEF InsertSession, NewSession, SessionRow, ResetRuns
  <2> QED
    BY <1>3, <2>1, <2>2
<1>4. ASSUME NEW r \in Request, Rotate(r) PROVE TypeOK'
  <2>1. held[r] \in SessionId /\ session[held[r]] \in SessionRow
    BY <1>4 DEF Rotate, Control, CallFits
  <2>2. [session[held[r]] EXCEPT !.raced =
            @ \/ known[r] # resets[session[held[r]].user]
              \/ ResetRuns(session[held[r]].user)] \in SessionRow
    BY <2>1 DEF SessionRow, ResetRuns
  <2> QED
    BY <1>4, <2>1, <2>2 DEF Rotate, NewSession
<1>5. ASSUME NEW r \in Request, Revoke(r) PROVE TypeOK'
  BY <1>5 DEF Revoke, Control, CallFits
<1>6. ASSUME NEW r \in Request, InsertToken(r) \/ SendMail(r) PROVE TypeOK'
  <2>1. call[r] \in Forgetting
    BY <1>6 DEF Control, CallFits, InsertToken, SendMail
  <2> QED
    BY <1>6, <2>1, FormFields, RequestIds DEF InsertToken, SendMail
<1>7. ASSUME NEW r \in Request, CommitReset(r) PROVE TypeOK'
  <2>1. call[r] \in Choosing /\ token[call[r].token] # None
    BY <1>7 DEF CommitReset, Control, CallFits
  <2>2. /\ call[r].password \in Password /\ call[r].token \in TokenId
        /\ token[call[r].token] \in Email
    BY <2>1, FormFields
  <2> QED
    BY <1>7, <2>2 DEF CommitReset
<1>8. ASSUME NEW r \in Request, Deliver(r) \/ Lose(r) PROVE TypeOK'
  BY <1>8, RequestIds DEF Deliver, Lose
<1>9. CASE (\E x \in Expirable : Expire(x)) \/ AllDone \/ UNCHANGED vars
  BY <1>9 DEF Expire, AllDone, vars
<1>10. QED
  BY <1>1, <1>2, <1>3, <1>4, <1>5, <1>6, <1>7, <1>8, <1>9 DEF Next, Handle, Reading

-----------------------------------------------------------------------------
(* A step of one request *)

\* Rows stay as they are once made, revocations are final, and the other
\* requests keep where they are and what they know.
LEMMA Frame ==
    ASSUME TypeOK, Control, NEW r \in Request, Send(r) \/ Handle(r) \/ Deliver(r) \/ Lose(r)
    PROVE  /\ \A s \in SessionId : session[s] # None \/ s # r => session'[s] = session[s]
           /\ \A t \in TokenId : token[t] # None \/ t # r => token'[t] = token[t]
           /\ revoked \subseteq revoked'
           /\ \A q \in Request : q # r =>
                /\ pc'[q] = pc[q] /\ call'[q] = call[q] /\ held'[q] = held[q]
                /\ targets'[q] = targets[q] /\ swept'[q] = swept[q]
                /\ answer'[q] = answer[q] /\ known'[q] = known[q]
<1> USE RequestIds DEF TypeOK, GoTo, Answer, rows, browsers, resetting
<1>0. Fresh(r)
  BY DEF Control
<1>1. CASE Send(r) \/ Deliver(r) \/ Lose(r)
  BY <1>1 DEF Send, Deliver, Lose
<1>2. CASE FindEmail(r) \/ FindUser(r) \/ FindSession(r) \/ FindToken(r)
  BY <1>2 DEF FindEmail, FindUser, FindSession, FindToken, Look, Knows
<1>3. CASE FindOwnSession(r) \/ FindAccount(r) \/ SelectSessions(r) \/ Sweep(r)
  BY <1>3 DEF FindOwnSession, FindAccount, SelectSessions, Sweep
<1>4. CASE InsertUser(r) \/ Revoke(r) \/ SendMail(r)
  BY <1>4 DEF InsertUser, Revoke, SendMail, Knows
<1>5. CASE InsertSession(r) \/ Rotate(r)
  <2>1. session[r] = None
    BY <1>0, <1>5 DEF Fresh, InsertSession, Rotate
  <2>2. CASE InsertSession(r)
    BY <2>1, <2>2 DEF InsertSession, NewSession
  <2>3. CASE Rotate(r)
    BY <2>1, <2>3 DEF Rotate, NewSession
  <2> QED
    BY <1>5, <2>2, <2>3
<1>6. CASE InsertToken(r)
  <2>1. token[r] = None
    BY <1>0, <1>6 DEF Fresh, InsertToken
  <2> QED
    BY <1>6, <2>1 DEF InsertToken
<1>7. CASE CommitReset(r)
  BY <1>7 DEF CommitReset
<1>8. QED
  BY <1>1, <1>2, <1>3, <1>4, <1>5, <1>6, <1>7 DEF Handle

LEMMA OwnControl ==
    ASSUME TypeOK, Control, NEW r \in Request, Send(r) \/ Handle(r) \/ Deliver(r) \/ Lose(r)
    PROVE  CallFits(r)' /\ Fresh(r)'
<1> USE RequestIds DEF TypeOK, GoTo, Answer, rows, browsers, resetting
<1>0. CallFits(r) /\ Fresh(r)
  BY DEF Control
<1>1. CASE Send(r)
  <2>1. PICK c \in Calls :
          /\ pc[r] = "idle"
          /\ call' = [call EXCEPT ![r] = c]
          /\ held' = [held EXCEPT ![r] = cookie[c.browser]]
          /\ \/ /\ GoTo(r, "answered")
                /\ answer' = [answer EXCEPT ![r] =
                      IF c.op = "refresh" THEN "refused" ELSE "ok"]
             \/ /\ c.op \in {"refresh", "logout"} => cookie[c.browser] # None
                /\ GoTo(r, FirstStatement[c.op]) /\ UNCHANGED answer
          /\ UNCHANGED rows
    BY <1>1 DEF Send
  <2>2. c \in Call
    BY <2>1, CallsAssumption
  <2>3. CASE pc'[r] = "answered"
    BY <1>0, <2>1, <2>2, <2>3 DEF CallFits, Fresh
  <2>4. CASE pc'[r] # "answered"
    <3>1. pc'[r] = FirstStatement[c.op] /\ answer'[r] = None
      BY <1>0, <2>1, <2>4 DEF CallFits
    <3>2. c.op \in {"refresh", "logout"} => held'[r] \in SessionId
      BY <2>1, <2>2, <2>4, CallForms
    <3>3. call'[r] = c
      BY <2>1
    <3>4. Fresh(r)'
      BY <1>0, <2>1 DEF Fresh
    <3> QED
      BY <2>2, <3>1, <3>2, <3>3, <3>4, CallForms DEF CallFits, FirstStatement
  <2> QED
    BY <2>3, <2>4
<1>2. CASE FindEmail(r) \/ FindUser(r)
  BY <1>0, <1>2, FormFields DEF FindEmail, FindUser, Look, CallFits, Fresh
<1>3. CASE FindSession(r)
  BY <1>0, <1>3, FormFields DEF FindSession, Look, Valid, CallFits, Fresh
<1>4. CASE FindToken(r)
  BY <1>0, <1>4, FormFields DEF FindToken, Look, ValidToken, CallFits, Fresh
<1>5. CASE FindOwnSession(r) \/ Revoke(r)
  BY <1>0, <1>5, FormFields DEF FindOwnSession, Revoke, CallFits, Fresh
<1>6. CASE FindAccount(r) \/ SendMail(r)
  BY <1>0, <1>6, FormFields DEF FindAccount, SendMail, CallFits, Fresh
<1>7. CASE SelectSessions(r) \/ Sweep(r)
  BY <1>0, <1>7, FormFields DEF SelectSessions, Sweep, CallFits, Fresh
<1>8. CASE InsertUser(r)
  BY <1>0, <1>8, FormFields DEF InsertUser, CallFits, Fresh
<1>9. CASE InsertSession(r) \/ Rotate(r)
  BY <1>0, <1>9, FormFields DEF InsertSession, Rotate, CallFits, Fresh
<1>10. CASE InsertToken(r)
  BY <1>0, <1>10, FormFields DEF InsertToken, CallFits, Fresh
<1>11. CASE CommitReset(r)
  BY <1>0, <1>11, FormFields DEF CommitReset, CallFits, Fresh
<1>12. CASE Deliver(r) \/ Lose(r)
  BY <1>0, <1>12 DEF Deliver, Lose, CallFits, Fresh
<1>13. QED
  BY <1>1, <1>2, <1>3, <1>4, <1>5, <1>6, <1>7, <1>8, <1>9, <1>10, <1>11, <1>12 DEF Handle

LEMMA ControlStep == ASSUME TypeOK, Control, [Next]_vars PROVE Control'
<1>1. ASSUME NEW r \in Request, Send(r) \/ Handle(r) \/ Deliver(r) \/ Lose(r)
      PROVE  Control'
  <2>1. ASSUME NEW q \in Request, q # r PROVE CallFits(q)' /\ Fresh(q)'
    <3>1. CallFits(q) /\ Fresh(q)
      BY DEF Control
    <3>2. /\ pc'[q] = pc[q] /\ call'[q] = call[q] /\ held'[q] = held[q]
          /\ answer'[q] = answer[q]
          /\ session'[q] = session[q] /\ token'[q] = token[q]
      BY <1>1, <2>1, Frame, RequestIds
    <3>3. pc[q] = "rotate" => session'[held[q]] = session[held[q]]
      BY <1>1, <3>1, Frame DEF CallFits
    <3>4. pc[q] \in {"select_sessions", "sweep", "commit_reset"} =>
            token'[call[q].token] = token[call[q].token]
      BY <1>1, <3>1, Frame, FormFields DEF CallFits
    <3>5. CallFits(q)'
      BY <3>1, <3>2, <3>3, <3>4 DEF CallFits
    <3> QED
      BY <3>1, <3>2, <3>5 DEF Fresh
  <2>2. CallFits(r)' /\ Fresh(r)'
    BY <1>1, OwnControl
  <2> QED
    BY <2>1, <2>2 DEF Control
<1>2. CASE (\E x \in Expirable : Expire(x)) \/ AllDone \/ UNCHANGED vars
  BY <1>2 DEF Expire, AllDone, vars, rows, resetting, Control, CallFits, Fresh
<1>3. QED
  BY <1>1, <1>2 DEF Next

-----------------------------------------------------------------------------
(* What a reset ends *)

\* Alive, and made while no reset ran.
Steady(s) == session[s] # None /\ s \notin revoked /\ ~session[s].raced

\* A steady session goes back to a password check since the last reset.
SteadyIsFresh == \A s \in SessionId : Steady(s) => session[s].resets = resets[session[s].user]

\* A rotation knows how many resets there were when the session was steady.
RotationFits(r) ==
    pc[r] = "rotate" /\ ~session[held[r]].raced => session[held[r]].resets = known[r]

\* A reset that has selected its sessions misses no steady one, and has locked
\* them when it is about to commit.
SweepFits(r) ==
    \A s \in SessionId :
        Steady(s) /\ pc[r] \in {"sweep", "commit_reset"}
            /\ session[s].user = token[call[r].token]
        => s \in targets[r] /\ (pc[r] = "commit_reset" => s \in swept[r])

Endings == SteadyIsFresh /\ \A r \in Request : RotationFits(r) /\ SweepFits(r)

LEMMA RowTypes ==
    ASSUME TypeOK, NEW s \in SessionId, session[s] # None
    PROVE  /\ session[s] \in SessionRow /\ session[s].user \in Email
           /\ session[s].resets \in Nat /\ session[s].raced \in BOOLEAN
           /\ resets[session[s].user] \in Nat
BY DEF TypeOK, SessionRow

\* A step that makes no session and commits no reset makes none steady.
LEMMA NoNewSteady ==
    ASSUME TypeOK, Control, NEW r \in Request,
           Send(r) \/ Handle(r) \/ Deliver(r) \/ Lose(r), session' = session
    PROVE  \A s \in SessionId : Steady(s)' => Steady(s)
BY Frame DEF Steady

\* What the requests that do not move keep, if the rows and the steady
\* sessions stay.
LEMMA OthersKeep ==
    ASSUME TypeOK, Control, Endings, NEW r \in Request,
           Send(r) \/ Handle(r) \/ Deliver(r) \/ Lose(r),
           \A s \in SessionId : Steady(s)' => Steady(s),
           NEW q \in Request, q # r
    PROVE  RotationFits(q)' /\ SweepFits(q)'
<1>1. CallFits(q) /\ RotationFits(q) /\ SweepFits(q)
  BY DEF Control, Endings
<1>2. /\ pc'[q] = pc[q] /\ call'[q] = call[q] /\ held'[q] = held[q]
      /\ targets'[q] = targets[q] /\ swept'[q] = swept[q] /\ known'[q] = known[q]
  BY Frame
<1>3. \A s \in SessionId : session[s] # None => session'[s] = session[s]
  BY Frame
<1>4. RotationFits(q)'
  BY <1>1, <1>2, <1>3 DEF RotationFits, CallFits
<1>5. pc[q] \in {"sweep", "commit_reset"} => token'[call[q].token] = token[call[q].token]
  BY <1>1, Frame, FormFields DEF CallFits
<1>6. SweepFits(q)'
  BY <1>1, <1>2, <1>3, <1>5 DEF SweepFits, Steady
<1>7. QED
  BY <1>4, <1>6

LEMMA EndingsStep == ASSUME TypeOK, Control, Endings, [Next]_vars PROVE Endings'
<1> USE DEF TypeOK, GoTo, Answer, rows, browsers, resetting
\* Reading statements, and writing ones that concern neither sessions nor resets.
<1>1. ASSUME NEW r \in Request,
             \/ Send(r) \/ FindEmail(r) \/ InsertUser(r) \/ FindUser(r)
             \/ FindOwnSession(r) \/ Revoke(r) \/ FindAccount(r) \/ InsertToken(r)
             \/ SendMail(r) \/ FindToken(r) \/ Deliver(r) \/ Lose(r)
      PROVE  Endings'
  <2>1. /\ session' = session /\ resets' = resets
        /\ pc'[r] \notin {"rotate", "sweep", "commit_reset"}
    BY <1>1, CallForms, CallsAssumption
       DEF Send, FirstStatement, FindEmail, InsertUser, FindUser, Look,
           FindOwnSession, Revoke, FindAccount, InsertToken, SendMail, FindToken,
           Deliver, Lose
  <2>2. \A s \in SessionId : Steady(s)' => Steady(s)
    BY <1>1, <2>1, NoNewSteady DEF Handle
  <2>3. RotationFits(r)' /\ SweepFits(r)'
    BY <2>1 DEF RotationFits, SweepFits
  <2>4. SteadyIsFresh'
    BY <2>1, <2>2 DEF Endings, SteadyIsFresh
  <2> QED
    BY <1>1, <2>2, <2>3, <2>4, OthersKeep DEF Endings, Handle
<1>2. ASSUME NEW r \in Request, FindSession(r) PROVE Endings'
  <2>1. /\ session' = session /\ resets' = resets /\ held' = held /\ revoked' = revoked
        /\ pc'[r] \notin {"sweep", "commit_reset"}
        /\ pc'[r] = "rotate" => Valid(held[r]) /\ known'[r] = resets[session[held[r]].user]
    BY <1>2 DEF FindSession, Look, Knows
  <2>2. \A s \in SessionId : Steady(s)' => Steady(s)
    BY <1>2, <2>1, NoNewSteady DEF Handle
  <2>3. held[r] \in SessionId
    BY <1>2 DEF Control, CallFits, FindSession
  <2>4. RotationFits(r)'
    BY <2>1, <2>3 DEF RotationFits, Endings, SteadyIsFresh, Steady, Valid
  <2>5. SweepFits(r)'
    BY <2>1 DEF SweepFits
  <2>6. SteadyIsFresh'
    BY <2>1, <2>2 DEF Endings, SteadyIsFresh
  <2> QED
    BY <1>2, <2>2, <2>4, <2>5, <2>6, OthersKeep DEF Endings, Handle
\* A new session is steady only if no reset has come between or is running.
<1>3. ASSUME NEW r \in Request, InsertSession(r) \/ Rotate(r) PROVE Endings'
  <2>1. /\ resets' = resets /\ token' = token /\ revoked \subseteq revoked'
        /\ pc'[r] = "answered"
    <3>1. call[r].op \notin {"forgot", "reset"}
      BY <1>3, FormFields DEF InsertSession, Rotate, Control, CallFits
    <3> QED
      BY <1>3, <3>1 DEF InsertSession, Rotate
  <2>2. /\ \A s \in SessionId : s # r => session'[s] = session[s]
        /\ \A s \in SessionId : s # r /\ Steady(s)' => Steady(s)
    BY <1>3, <2>1, Frame DEF Handle, Steady
  <2>3. Steady(r)' => /\ session'[r].resets = resets[session'[r].user]
                      /\ ~ResetRuns(session'[r].user)
    <3>1. CASE InsertSession(r)
      BY <3>1, RequestIds DEF InsertSession, NewSession, Steady
    <3>2. CASE Rotate(r)
      <4>1. held[r] \in SessionId /\ session[held[r]] \in SessionRow
        BY <3>2 DEF Control, CallFits, Rotate
      <4>2. ~session[held[r]].raced => session[held[r]].resets = known[r]
        BY <3>2 DEF Endings, RotationFits, Rotate
      <4>3. session'[r] = [session[held[r]] EXCEPT !.raced =
                @ \/ known[r] # resets[session[held[r]].user]
                  \/ ResetRuns(session[held[r]].user)]
        BY <3>2, RequestIds DEF Rotate, NewSession
      <4>4. /\ session'[r].user = session[held[r]].user
            /\ session'[r].resets = session[held[r]].resets
            /\ session'[r].raced = (\/ session[held[r]].raced
                                    \/ known[r] # resets[session[held[r]].user]
                                    \/ ResetRuns(session[held[r]].user))
        BY <4>1, <4>3 DEF SessionRow
      <4> QED
        BY <4>2, <4>4 DEF Steady
    <3> QED
      BY <1>3, <3>1, <3>2
  <2>4. SteadyIsFresh'
    BY <2>1, <2>2, <2>3 DEF Endings, SteadyIsFresh
  <2>5. RotationFits(r)' /\ SweepFits(r)'
    BY <2>1 DEF RotationFits, SweepFits
  <2>6. ASSUME NEW q \in Request, q # r PROVE RotationFits(q)' /\ SweepFits(q)'
    <3>1. CallFits(q) /\ RotationFits(q) /\ SweepFits(q)
      BY DEF Control, Endings
    <3>2. /\ pc'[q] = pc[q] /\ call'[q] = call[q] /\ held'[q] = held[q]
          /\ targets'[q] = targets[q] /\ swept'[q] = swept[q] /\ known'[q] = known[q]
      BY <1>3, <2>6, Frame DEF Handle
    <3>3. \A s \in SessionId : session[s] # None => session'[s] = session[s]
      BY <1>3, Frame DEF Handle
    <3>4. RotationFits(q)'
      BY <3>1, <3>2, <3>3 DEF RotationFits, CallFits
    <3>5. Steady(r)' /\ pc[q] \in {"sweep", "commit_reset"}
            => session'[r].user # token[call[q].token]
      BY <2>3 DEF ResetRuns
    <3>6. SweepFits(q)'
      BY <2>1, <2>2, <3>1, <3>2, <3>5 DEF SweepFits
    <3> QED
      BY <3>4, <3>6
  <2> QED
    BY <2>4, <2>5, <2>6 DEF Endings
<1>4. ASSUME NEW r \in Request, SelectSessions(r) \/ Sweep(r) PROVE Endings'
  <2>1. /\ session' = session /\ resets' = resets /\ revoked' = revoked
        /\ token' = token /\ call' = call /\ pc'[r] # "rotate"
    BY <1>4 DEF SelectSessions, Sweep
  <2>2. \A s \in SessionId : Steady(s)' => Steady(s)
    BY <2>1 DEF Steady
  <2>3. SteadyIsFresh' /\ RotationFits(r)'
    BY <2>1, <2>2 DEF Endings, SteadyIsFresh, RotationFits
  <2>4. CASE SelectSessions(r)
    <3>1. pc'[r] = "sweep" /\ targets'[r] = Live(token[call[r].token])
      BY <2>4 DEF SelectSessions
    <3>2. SweepFits(r)'
      BY <2>1, <3>1 DEF SweepFits, Steady, Live
    <3> QED
      BY <1>4, <2>2, <2>3, <3>2, OthersKeep DEF Endings, Handle
  <2>5. CASE Sweep(r)
    <3>1. pc[r] = "sweep" /\ targets' = targets /\ swept'[r] = targets[r] \ revoked
      BY <2>5 DEF Sweep
    <3>2. SweepFits(r)
      BY DEF Endings
    <3>3. SweepFits(r)'
      BY <2>1, <3>1, <3>2 DEF SweepFits, Steady
    <3> QED
      BY <1>4, <2>2, <2>3, <3>3, OthersKeep DEF Endings, Handle
  <2> QED
    BY <1>4, <2>4, <2>5
\* A committing reset leaves no steady session of its account alive.
<1>5. ASSUME NEW r \in Request, CommitReset(r) PROVE Endings'
  <2> DEFINE e == token[call[r].token]
  <2>1. call[r] \in Choosing /\ e # None
    BY <1>5 DEF Control, CallFits, CommitReset
  <2>2. call[r].op = "reset" /\ e \in Email
    BY <2>1, FormFields
  <2>3. /\ session' = session /\ pc[r] = "commit_reset" /\ pc'[r] = "done"
        /\ resets' = [resets EXCEPT ![e] = @ + 1]
        /\ revoked' = revoked \cup swept[r]
    BY <1>5, <2>2 DEF CommitReset
  <2>4. \A s \in SessionId : Steady(s)' => Steady(s)
    BY <2>3 DEF Steady
  <2>5. ASSUME NEW s \in SessionId, Steady(s)' PROVE session[s].user # e
    <3>1. Steady(s) /\ s \notin swept[r]
      BY <2>3, <2>4, <2>5 DEF Steady
    <3>2. SweepFits(r)
      BY DEF Endings
    <3> QED
      BY <2>3, <3>1, <3>2 DEF SweepFits
  <2>6. SteadyIsFresh'
    BY <2>2, <2>3, <2>4, <2>5, RowTypes DEF Endings, SteadyIsFresh, Steady
  <2>7. RotationFits(r)' /\ SweepFits(r)'
    BY <2>3 DEF RotationFits, SweepFits
  <2> QED
    BY <1>5, <2>4, <2>6, <2>7, OthersKeep DEF Endings, Handle
<1>6. CASE (\E x \in Expirable : Expire(x)) \/ AllDone \/ UNCHANGED vars
  BY <1>6 DEF Expire, AllDone, vars, Endings, SteadyIsFresh, RotationFits, SweepFits,
              Steady
<1>7. QED
  BY <1>1, <1>2, <1>3, <1>4, <1>5, <1>6 DEF Next, Handle

IInv == TypeOK /\ Control /\ Endings

LEMMA Inductive == (Init => IInv) /\ (IInv /\ [Next]_vars => IInv')
<1>1. Init => TypeOK
  <2>1. SeedSession \subseteq SessionId /\ SeedToken \subseteq TokenId
    BY DEF SessionId, TokenId
  <2> QED
    BY <2>1, SeedAssumption DEF Init, TypeOK, SessionRow
<1>2. Init => Control
  <2>1. \A r \in Request : r \in SessionId /\ r \in TokenId
                         /\ r \notin SeedSession /\ r \notin SeedToken
    BY SeedAssumption, RequestIds
  <2> QED
    BY <2>1 DEF Init, Control, CallFits, Fresh
<1>3. Init => Endings
  BY SeedAssumption DEF Init, Endings, SteadyIsFresh, RotationFits, SweepFits, Steady
<1>4. QED
  BY <1>1, <1>2, <1>3, TypeStep, ControlStep, EndingsStep DEF IInv

-----------------------------------------------------------------------------

\* Rows, browsers and handlers hold what they may hold.
THEOREM SessionTypes == Spec => []TypeOK
<1>1. IInv => TypeOK
  BY DEF IInv
<1>2. QED
  BY Inductive, <1>1, PTL DEF Spec

\* What a reset leaves alive of older password checks has raced with it.
THEOREM ResetsEnd == Spec => []ResetEndsSessions
<1>1. IInv => ResetEndsSessions
  BY RowTypes DEF IInv, Endings, SteadyIsFresh, Steady, ResetEndsSessions
<1>2. QED
  BY Inductive, <1>1, PTL DEF Spec

-----------------------------------------------------------------------------
(* What the browsers hold *)

\* A cookie that b may hold or have sent: what it began with, or the answer of
\* a request of its own that was delivered.
Owns(b, s) ==
    IF s \in Request THEN pc[s] = "done" /\ call[s].browser = b ELSE s = SeedCookie[b]

\* A request that ended the session it was sent with.
Replaces(r) == answer[r] = "ok" /\ call[r].op \in {"refresh", "logout"}

BrowserFits(b) ==
    /\ cookie[b] # None => Owns(b, cookie[b])
    /\ cookie[b] = None => b \in left \/ SeedCookie[b] = None

\* A browser does not come back to a cookie once the answer that replaces it is
\* delivered.
RequestFits(r) ==
    pc[r] # "idle" =>
        /\ call[r].op = "logout" => call[r].browser \in left
        /\ held[r] # None => Owns(call[r].browser, held[r])
        /\ pc[r] = "done" /\ Replaces(r) /\ held[r] # None
                /\ call[r].browser \notin lost
             => cookie[call[r].browser] # held[r]

Untouched == \A e \in Email : resets[e] = 0

\* Unless an account was reset, requests have ended all that is revoked.
EndedByRequests ==
    Untouched => \A s \in revoked : \E r \in Request :
        pc[r] \in {"answered", "done"} /\ Replaces(r) /\ held[r] = s

Cookies ==
    /\ \A b \in Browser : BrowserFits(b)
    /\ \A r \in Request : RequestFits(r)
    /\ EndedByRequests

LEMMA Asked ==
    ASSUME TypeOK, Control, NEW r \in Request, pc[r] # "idle"
    PROVE  call[r] \in Call /\ call[r].browser \in Browser
<1>1. CallFits(r) /\ pc[r] \in Location
  BY DEF Control, TypeOK
<1>2. call[r] \in Call
  BY <1>1, FormFields DEF CallFits
<1> QED
  BY <1>2, CallForms

\* A delivered answer stays delivered.
LEMMA OwnsStays ==
    ASSUME TypeOK, Control, NEW r \in Request,
           Send(r) \/ Handle(r) \/ Deliver(r) \/ Lose(r),
           NEW b, NEW s, Owns(b, s)
    PROVE  Owns(b, s)'
<1>1. CASE s \in Request
  <2>1. pc[r] # "done"
    BY DEF Send, Handle, Deliver, Lose, FindEmail, InsertUser, FindUser, InsertSession,
       FindSession, Rotate, FindOwnSession, Revoke, FindAccount, InsertToken, SendMail,
       FindToken, SelectSessions, Sweep, CommitReset
  <2>2. s # r
    BY <1>1, <2>1 DEF Owns
  <2> QED
    BY <1>1, <2>2, Frame DEF Owns
<1>2. CASE s \notin Request
  BY <1>2 DEF Owns
<1> QED
  BY <1>1, <1>2

\* What the requests that do not move keep, if the cookie does not come back.
LEMMA OthersOwn ==
    ASSUME TypeOK, Control, Cookies, NEW r \in Request,
           Send(r) \/ Handle(r) \/ Deliver(r) \/ Lose(r),
           left \subseteq left', lost \subseteq lost',
           NEW q \in Request, q # r,
           \/ cookie' = cookie
           \/ held[q] # None => cookie'[call[q].browser] # held[q]
    PROVE  RequestFits(q)'
<1>1. RequestFits(q)
  BY DEF Cookies
<1>2. pc'[q] = pc[q] /\ call'[q] = call[q] /\ held'[q] = held[q] /\ answer'[q] = answer[q]
  BY Frame
<1>3. pc[q] # "idle" /\ held[q] # None => Owns(call[q].browser, held[q])'
  BY <1>1, <1>2, OwnsStays DEF RequestFits
<1> QED
  BY <1>1, <1>2, <1>3 DEF RequestFits, Replaces

\* Revocations other than those of resets are those of requests.
LEMMA EndedStays ==
    ASSUME TypeOK, Control, Cookies, NEW r \in Request,
           Send(r) \/ Handle(r) \/ Deliver(r) \/ Lose(r),
           resets' = resets,
           pc[r] = "answered" => pc'[r] = "done" /\ answer' = answer /\ call' = call
                                 /\ held' = held,
           pc[r] # "done",
           \/ revoked' = revoked
           \/ /\ revoked' = revoked \cup {held[r]} /\ held'[r] = held[r]
              /\ pc'[r] = "answered" /\ Replaces(r)'
    PROVE  EndedByRequests'
<1> SUFFICES ASSUME Untouched', NEW s \in revoked'
             PROVE  \E q \in Request : pc'[q] \in {"answered", "done"} /\ Replaces(q)'
                                       /\ held'[q] = s
  BY DEF EndedByRequests
<1>1. CASE s \in revoked
  <2>1. Untouched
    BY DEF Untouched
  <2>2. PICK q \in Request : pc[q] \in {"answered", "done"} /\ Replaces(q) /\ held[q] = s
    BY <1>1, <2>1 DEF Cookies, EndedByRequests
  <2>3. CASE q # r
    BY <2>2, <2>3, Frame DEF Replaces
  <2>4. CASE q = r
    BY <2>2, <2>4 DEF Replaces
  <2> QED
    BY <2>3, <2>4
<1>2. CASE s \notin revoked
  BY <1>2
<1> QED
  BY <1>1, <1>2

LEMMA CookiesStep == ASSUME TypeOK, Control, Cookies, [Next]_vars PROVE Cookies'
<1> USE DEF TypeOK, GoTo, Answer, rows, browsers, resetting
<1>1. ASSUME NEW r \in Request, Handle(r) PROVE Cookies'
  <2>1. /\ UNCHANGED browsers /\ pc[r] \notin {"idle", "answered", "done"}
        /\ held' = held /\ call' = call /\ pc'[r] # "idle"
        /\ pc'[r] = "done" => call[r].op \in {"forgot", "reset"}
    <3>1. CallFits(r)
      BY DEF Control
    <3>2. CASE FindEmail(r) \/ FindUser(r) \/ FindSession(r) \/ FindToken(r)
      BY <3>1, <3>2 DEF FindEmail, FindUser, FindSession, FindToken, Look
    <3>3. CASE InsertUser(r) \/ InsertSession(r) \/ Rotate(r) \/ FindOwnSession(r)
               \/ Revoke(r) \/ FindAccount(r)
      BY <3>1, <3>3 DEF InsertUser, InsertSession, Rotate, FindOwnSession, Revoke,
         FindAccount
    <3>4. CASE InsertToken(r) \/ SendMail(r) \/ SelectSessions(r) \/ Sweep(r)
               \/ CommitReset(r)
      BY <3>1, <3>4 DEF InsertToken, SendMail, SelectSessions, Sweep, CommitReset
    <3> QED
      BY <1>1, <3>2, <3>3, <3>4 DEF Handle
  <2>2. ASSUME NEW b \in Browser PROVE BrowserFits(b)'
    BY <1>1, <2>1, <2>2, OwnsStays DEF Cookies, BrowserFits
  <2>3. ASSUME NEW q \in Request, q # r PROVE RequestFits(q)'
    BY <1>1, <2>1, <2>3, OthersOwn
  <2>4. RequestFits(r)'
    <3>1. RequestFits(r)
      BY DEF Cookies
    <3>2. held[r] # None => Owns(call[r].browser, held[r])'
      BY <1>1, <2>1, <3>1, OwnsStays DEF RequestFits
    <3> QED
      BY <2>1, <3>1, <3>2 DEF RequestFits, Replaces
  <2>5. CASE CommitReset(r)
    <3>1. CallFits(r)
      BY DEF Control
    <3>2. token[call[r].token] \in Email
      BY <2>5, <3>1, FormFields DEF CommitReset, CallFits
    <3>3. resets'[token[call[r].token]] # 0
      BY <2>5, <3>2 DEF CommitReset
    <3>4. EndedByRequests'
      BY <3>2, <3>3 DEF EndedByRequests, Untouched
    <3> QED
      BY <2>2, <2>3, <2>4, <3>4 DEF Cookies
  <2>6. ~CommitReset(r) => EndedByRequests'
    <3>0. SUFFICES ASSUME ~CommitReset(r) PROVE EndedByRequests'
      OBVIOUS
    <3>1. CASE Rotate(r) \/ Revoke(r)
      <4>1. CallFits(r)
        BY DEF Control
      <4>2. resets' = resets /\ revoked' = revoked \cup {held[r]} /\ pc'[r] = "answered"
            /\ Replaces(r)'
        BY <3>1, <4>1, FormFields DEF Rotate, Revoke, CallFits, Replaces
      <4> QED
        BY <1>1, <2>1, <4>2, EndedStays
    <3>2. CASE ~Rotate(r) /\ ~Revoke(r)
      <4>1. resets' = resets /\ revoked' = revoked
        BY <1>1, <3>0, <3>2 DEF Handle, FindEmail, InsertUser, FindUser, InsertSession,
           FindSession, FindOwnSession, FindAccount, InsertToken, SendMail, FindToken,
           SelectSessions, Sweep, Look
      <4> QED
        BY <1>1, <2>1, <4>1, EndedStays
    <3> QED
      BY <3>1, <3>2
  <2> QED
    BY <2>2, <2>3, <2>4, <2>5, <2>6 DEF Cookies
<1>2. ASSUME NEW r \in Request, Send(r) PROVE Cookies'
  <2>1. PICK c \in Calls :
          /\ pc[r] = "idle" /\ pc'[r] # "done"
          /\ call' = [call EXCEPT ![r] = c]
          /\ held' = [held EXCEPT ![r] = cookie[c.browser]]
          /\ left' = left \cup {d \in {c.browser} : c.op = "logout"}
          /\ UNCHANGED <<revoked, cookie, lost, resets>>
    <3>1. PICK c \in Calls :
            /\ pc[r] = "idle"
            /\ pc'[r] \in {"answered", FirstStatement[c.op]}
            /\ call' = [call EXCEPT ![r] = c]
            /\ held' = [held EXCEPT ![r] = cookie[c.browser]]
            /\ left' = left \cup {d \in {c.browser} : c.op = "logout"}
            /\ UNCHANGED <<revoked, cookie, lost, resets>>
      BY <1>2 DEF Send
    <3>2. FirstStatement[c.op] # "done"
      BY <3>1, CallsAssumption, CallForms DEF FirstStatement
    <3> QED
      BY <3>1, <3>2
  <2>2. c.browser \in Browser
    BY <2>1, CallsAssumption, CallForms
  <2>3. ASSUME NEW b \in Browser PROVE BrowserFits(b)'
    BY <1>2, <2>1, <2>3, OwnsStays DEF Cookies, BrowserFits
  <2>4. ASSUME NEW q \in Request, q # r PROVE RequestFits(q)'
    BY <1>2, <2>1, <2>4, OthersOwn
  <2>5. RequestFits(r)'
    <3>1. cookie[c.browser] # None => Owns(c.browser, cookie[c.browser])'
      BY <1>2, <2>1, <2>2, OwnsStays DEF Cookies, BrowserFits
    <3> QED
      BY <2>1, <3>1 DEF RequestFits
  <2>6. EndedByRequests'
    BY <1>2, <2>1, EndedStays
  <2> QED
    BY <2>3, <2>4, <2>5, <2>6 DEF Cookies
<1>3. ASSUME NEW r \in Request, Deliver(r) PROVE Cookies'
  <2> DEFINE b == call[r].browser
  <2>1. /\ pc[r] = "answered" /\ pc'[r] = "done" /\ b \in Browser
        /\ UNCHANGED <<revoked, lost, left, call, held, answer, resets>>
    BY <1>3, Asked DEF Deliver
  <2>2. \/ SetsCookie(r) /\ cookie' = [cookie EXCEPT ![b] = r]
        \/ ClearsCookie(r) /\ cookie' = [cookie EXCEPT ![b] = None]
        \/ ~SetsCookie(r) /\ ~ClearsCookie(r) /\ cookie' = cookie
    BY <1>3 DEF Deliver
  <2>3. r # None /\ RequestFits(r)
    BY RequestIds DEF Cookies
  <2>4. Owns(b, r)'
    BY <2>1 DEF Owns
  <2>5. ASSUME NEW d \in Browser PROVE BrowserFits(d)'
    <3>1. BrowserFits(d)
      BY DEF Cookies
    <3>2. CASE cookie'[d] = cookie[d]
      BY <1>3, <2>1, <3>1, <3>2, OwnsStays DEF BrowserFits
    <3>3. CASE d = b /\ SetsCookie(r)
      BY <2>1, <2>2, <2>3, <2>4, <3>3 DEF BrowserFits, ClearsCookie, SetsCookie
    <3>4. CASE d = b /\ ClearsCookie(r)
      BY <2>1, <2>2, <2>3, <3>4 DEF BrowserFits, ClearsCookie, SetsCookie, RequestFits
    <3> QED
      BY <2>1, <2>2, <3>2, <3>3, <3>4
  \* The new cookie was never sent: its request was not delivered before.
  <2>6. \A q \in Request : pc[q] # "idle" => held[q] # r
    <3> SUFFICES ASSUME NEW q \in Request, pc[q] # "idle", held[q] = r PROVE FALSE
      OBVIOUS
    <3>1. Owns(call[q].browser, r)
      BY <2>3 DEF Cookies, RequestFits
    <3> QED
      BY <2>1, <3>1 DEF Owns
  <2>7. ASSUME NEW q \in Request, q # r PROVE RequestFits(q)'
    <3>1. CASE pc[q] = "idle"
      BY <1>3, <2>7, <3>1, Frame DEF RequestFits
    <3>2. CASE pc[q] # "idle"
      <4>1. CASE cookie'[call[q].browser] = cookie[call[q].browser]
        <5>1. RequestFits(q) /\ pc'[q] = pc[q]
          BY <1>3, <2>7, Frame DEF Cookies
        <5>2. held[q] # None => Owns(call[q].browser, held[q])'
          BY <1>3, <2>1, <3>2, <5>1, OwnsStays DEF RequestFits
        <5> QED
          BY <2>1, <4>1, <5>1, <5>2 DEF RequestFits, Replaces
      <4>2. CASE cookie'[call[q].browser] # cookie[call[q].browser]
        <5>1. cookie'[call[q].browser] \in {r, None}
          BY <2>1, <2>2, <4>2, <3>2, Asked
        <5> QED
          BY <1>3, <2>1, <2>6, <2>7, <3>2, <5>1, OthersOwn
      <4> QED
        BY <4>1, <4>2
    <3> QED
      BY <3>1, <3>2
  <2>8. RequestFits(r)'
    <3>1. held[r] # None => Owns(b, held[r])'
      BY <1>3, <2>1, <2>3, OwnsStays DEF RequestFits
    <3>2. Replaces(r) => cookie'[b] \in {r, None}
      BY <2>1, <2>2 DEF Replaces, SetsCookie, ClearsCookie
    <3> QED
      BY <2>1, <2>3, <2>6, <3>1, <3>2 DEF RequestFits, Replaces
  <2>9. EndedByRequests'
    BY <1>3, <2>1, EndedStays
  <2> QED
    BY <2>5, <2>7, <2>8, <2>9 DEF Cookies
<1>4. ASSUME NEW r \in Request, Lose(r) PROVE Cookies'
  <2>1. /\ pc[r] = "answered" /\ pc'[r] = "done"
        /\ UNCHANGED <<revoked, cookie, left, call, held, answer, resets>>
        /\ lost' = lost \cup {call[r].browser}
    BY <1>4 DEF Lose
  <2>2. ASSUME NEW b \in Browser PROVE BrowserFits(b)'
    BY <1>4, <2>1, <2>2, OwnsStays DEF Cookies, BrowserFits
  <2>3. ASSUME NEW q \in Request, q # r PROVE RequestFits(q)'
    BY <1>4, <2>1, <2>3, OthersOwn
  <2>4. RequestFits(r)'
    <3>1. RequestFits(r)
      BY DEF Cookies
    <3>2. held[r] # None => Owns(call[r].browser, held[r])'
      BY <1>4, <2>1, <3>1, OwnsStays DEF RequestFits
    <3> QED
      BY <2>1, <3>1, <3>2 DEF RequestFits
  <2>5. EndedByRequests'
    BY <1>4, <2>1, EndedStays
  <2> QED
    BY <2>2, <2>3, <2>4, <2>5 DEF Cookies
<1>5. CASE (\E x \in Expirable : Expire(x)) \/ AllDone \/ UNCHANGED vars
  BY <1>5 DEF Expire, AllDone, vars, Cookies, BrowserFits, RequestFits, EndedByRequests,
     Untouched, Owns, Replaces
<1> QED
  BY <1>1, <1>2, <1>3, <1>4, <1>5 DEF Next

\* Whatever order answers arrive in, a browser that has got them all holds a
\* session that none of its own requests has replaced.
THEOREM CookiesLive == Spec => []CookieLive
<1>1. Init => Cookies
  <2> SUFFICES ASSUME Init PROVE Cookies
    OBVIOUS
  <2>1. ASSUME NEW b \in Browser PROVE BrowserFits(b)
    BY SeedAssumption DEF Init, BrowserFits, Owns
  <2> QED
    BY <2>1 DEF Init, Cookies, RequestFits, EndedByRequests
<1>2. IInv /\ Cookies /\ [Next]_vars => Cookies'
  BY CookiesStep DEF IInv
<1>3. IInv /\ Cookies => CookieLive
  <2> SUFFICES ASSUME IInv, Cookies, Untouched, NEW b \in Browser, Quiet(b), b \notin lost,
                      cookie[b] # None, cookie[b] \in revoked
               PROVE  FALSE
    BY DEF CookieLive, Untouched, Cookies, BrowserFits
  <2>1. PICK r \in Request : pc[r] \in {"answered", "done"} /\ Replaces(r)
                            /\ held[r] = cookie[b]
    BY DEF Cookies, EndedByRequests
  <2>2. Owns(b, held[r]) /\ Owns(call[r].browser, held[r]) /\ call[r].browser \in Browser
    BY <2>1, Asked DEF IInv, Cookies, BrowserFits, RequestFits
  <2>3. call[r].browser = b
    BY <2>1, <2>2, CookieAssumption DEF Owns
  <2>4. pc[r] = "done"
    BY <2>1, <2>3 DEF Quiet
  <2> QED
    BY <2>1, <2>3, <2>4 DEF Cookies, RequestFits
<1> QED
  BY Inductive, <1>1, <1>2, <1>3, PTL DEF Spec

-----------------------------------------------------------------------------
(* Refinement: the two kinds of tokens are one-time tokens *)

Rotating == {r \in Request : pc[r] = "rotate"}

\* A step in which no refresh starts or ends leaves the pairs as they are.
LEMMA RotationsKeep ==
    ASSUME TypeOK, Control, NEW r \in Request,
           Send(r) \/ Handle(r) \/ Deliver(r) \/ Lose(r),
           pc[r] # "rotate", pc'[r] # "rotate",
           r \in Successful("refresh")' <=> r \in Successful("refresh"),
           pc[r] = "idle" \/ held'[r] = held[r]
    PROVE  /\ HeldPairs(Rotating)' = HeldPairs(Rotating)
           /\ HeldPairs(Successful("refresh"))' = HeldPairs(Successful("refresh"))
<1>1. \A q \in Request : q # r =>
        pc'[q] = pc[q] /\ call'[q] = call[q] /\ held'[q] = held[q] /\ answer'[q] = answer[q]
  BY Frame
<1>2. Rotating' = Rotating /\ \A q \in Rotating : held'[q] = held[q]
  BY <1>1 DEF Rotating
<1>3. \A q \in Request : q \in Successful("refresh")' <=> q \in Successful("refresh")
  BY <1>1 DEF Successful
<1>4. r \in Successful("refresh") => held'[r] = held[r]
  BY SeedAssumption DEF Control, CallFits, Successful
<1>5. Successful("refresh")' = Successful("refresh")
      /\ \A q \in Successful("refresh") : held'[q] = held[q]
  BY <1>1, <1>3, <1>4 DEF Successful
<1>6. QED
  BY <1>2, <1>5 DEF HeldPairs

\* Every step of the handlers is one of a one-time token, or none, where the
\* token is a session, checked by the lookup of a refresh and used by a
\* revocation.
LEMMA RotationsStep ==
    ASSUME TypeOK, TypeOK', Control, [Next]_vars
    PROVE  [Rotations!Next]_Rotations!vars
<1> USE DEF TypeOK, GoTo, Answer, rows, browsers, resetting
<1> DEFINE A == Successful("refresh")
<1>0. revoked' \subseteq SessionId
  OBVIOUS
\* Steps that neither start nor end a refresh: at most they revoke.
<1>1. ASSUME NEW r \in Request,
             \/ Send(r) \/ FindEmail(r) \/ InsertUser(r) \/ FindUser(r)
             \/ InsertSession(r) \/ FindOwnSession(r) \/ Revoke(r) \/ FindAccount(r)
             \/ InsertToken(r) \/ SendMail(r) \/ FindToken(r) \/ SelectSessions(r)
             \/ Sweep(r) \/ CommitReset(r) \/ Deliver(r) \/ Lose(r)
      PROVE  Rotations!Withdraw
  <2>1. CallFits(r)
    BY DEF Control
  <2>2. pc[r] # "rotate" /\ pc'[r] # "rotate"
    BY <1>1, CallForms, CallsAssumption
       DEF Send, FirstStatement, FindEmail, InsertUser, FindUser, InsertSession, Look,
           FindOwnSession, Revoke, FindAccount, InsertToken, SendMail, FindToken,
           SelectSessions, Sweep, CommitReset, Deliver, Lose
  <2>3. pc[r] = "idle" \/ held'[r] = held[r]
    BY <1>1 DEF Send, FindEmail, InsertUser, FindUser, InsertSession, Look,
           FindOwnSession, Revoke, FindAccount, InsertToken, SendMail, FindToken,
           SelectSessions, Sweep, CommitReset, Deliver, Lose
  <2>4. (answer'[r] = "ok" /\ call'[r].op = "refresh")
            <=> (answer[r] = "ok" /\ call[r].op = "refresh")
    <3>1. CASE Send(r)
      BY <2>1, <3>1, SeedAssumption DEF Send, CallFits
    <3>2. CASE Deliver(r) \/ Lose(r) \/ SelectSessions(r) \/ Sweep(r)
      BY <3>2 DEF Deliver, Lose, SelectSessions, Sweep
    <3>3. CASE FindEmail(r) \/ InsertUser(r) \/ FindUser(r) \/ InsertSession(r)
      BY <2>1, <3>3, FormFields, SeedAssumption
         DEF FindEmail, InsertUser, FindUser, InsertSession, Look, CallFits
    <3>4. CASE FindOwnSession(r) \/ Revoke(r)
      BY <2>1, <3>4, FormFields, SeedAssumption DEF FindOwnSession, Revoke, CallFits
    <3>5. CASE FindAccount(r) \/ InsertToken(r) \/ SendMail(r)
      BY <2>1, <3>5, FormFields, SeedAssumption
         DEF FindAccount, InsertToken, SendMail, CallFits
    <3>6. CASE FindToken(r) \/ CommitReset(r)
      BY <2>1, <3>6, FormFields, SeedAssumption DEF FindToken, Look, CommitReset, CallFits
    <3> QED
      BY <1>1, <3>1, <3>2, <3>3, <3>4, <3>5, <3>6
  <2>5. /\ HeldPairs(Rotating)' = HeldPairs(Rotating)
        /\ HeldPairs(A)' = HeldPairs(A)
    BY <1>1, <2>2, <2>3, <2>4, RotationsKeep DEF Handle, Successful
  <2>6. revoked \subseteq revoked'
    BY <1>1, Frame DEF Handle
  <2> QED
    BY <1>0, <2>5, <2>6 DEF Rotations!Withdraw, Rotating
<1>2. ASSUME NEW r \in Request, FindSession(r) PROVE [Rotations!Next]_Rotations!vars
  <2>1. CallFits(r) /\ pc[r] = "find_session" /\ answer[r] # "ok"
    BY <1>2, SeedAssumption DEF Control, CallFits, FindSession
  <2>2. /\ held' = held /\ revoked' = revoked /\ call' = call /\ answer'[r] # "ok"
        /\ \A q \in Request : q # r => answer'[q] = answer[q] /\ pc'[q] = pc[q]
    BY <1>2, <2>1, FormFields DEF FindSession, Look, CallFits
  <2>3. HeldPairs(A)' = HeldPairs(A)
    BY <2>1, <2>2 DEF Successful, HeldPairs
  <2>4. CASE Valid(held[r])
    <3>1. pc'[r] = "rotate"
      BY <1>2, <2>4 DEF FindSession, Look
    <3>2. Rotating' = Rotating \cup {r}
      BY <2>2, <3>1 DEF Rotating
    <3>3. HeldPairs(Rotating)' = HeldPairs(Rotating) \cup {<<r, held[r]>>}
      BY <2>2, <3>2 DEF HeldPairs
    <3>4. Rotations!Check(r, held[r])
      BY <2>2, <2>3, <2>4, <3>3 DEF Rotations!Check, Valid, Rotating
    <3> QED
      BY <2>1, <3>4 DEF Rotations!Next, CallFits
  <2>5. CASE ~Valid(held[r])
    <3>1. Rotating' = Rotating
      BY <1>2, <2>2, <2>5 DEF FindSession, Look, Rotating
    <3> QED
      BY <2>2, <2>3, <3>1 DEF Rotations!vars, HeldPairs, Rotating
  <2> QED
    BY <2>4, <2>5
<1>3. ASSUME NEW r \in Request, Rotate(r) PROVE [Rotations!Next]_Rotations!vars
  <2>1. CallFits(r) /\ pc[r] = "rotate" /\ call[r].op = "refresh"
    BY <1>3, FormFields DEF Control, CallFits, Rotate
  <2>2. /\ held' = held /\ call' = call /\ revoked' = revoked \cup {held[r]}
        /\ answer'[r] = "ok" /\ pc'[r] = "answered"
        /\ \A q \in Request : q # r => answer'[q] = answer[q] /\ pc'[q] = pc[q]
    BY <1>3, <2>1 DEF Rotate
  <2>3. Rotating' = Rotating \ {r} /\ r \in Rotating
    BY <2>1, <2>2 DEF Rotating
  <2>4. Successful("refresh")' = Successful("refresh") \cup {r}
    BY <2>1, <2>2 DEF Successful
  <2>5. /\ HeldPairs(Rotating)' = HeldPairs(Rotating) \ {<<r, held[r]>>}
        /\ HeldPairs(A)' = HeldPairs(A) \cup {<<r, held[r]>>}
        /\ <<r, held[r]>> \in HeldPairs(Rotating)
    BY <2>2, <2>3, <2>4 DEF HeldPairs
  <2>6. Rotations!Act(r, held[r])
    BY <2>2, <2>5 DEF Rotations!Act, Rotating
  <2> QED
    BY <2>1, <2>6 DEF Rotations!Next, CallFits
<1>4. CASE (\E x \in Expirable : Expire(x)) \/ AllDone \/ UNCHANGED vars
  BY <1>4 DEF Expire, AllDone, vars, Rotations!vars, HeldPairs, Successful
<1>5. QED
  BY <1>1, <1>2, <1>3, <1>4 DEF Next, Handle, Rotations!Next

Resetting == {r \in Request : pc[r] \in {"select_sessions", "sweep", "commit_reset"}}

\* A step of a request that neither starts nor ends a reset.
LEMMA ResetsKeep ==
    ASSUME TypeOK, Control, NEW r \in Request,
           Send(r) \/ Handle(r) \/ Deliver(r) \/ Lose(r),
           r \in Resetting' <=> r \in Resetting,
           r \in Successful("reset")' <=> r \in Successful("reset"),
           pc[r] = "idle" \/ call'[r] = call[r]
    PROVE  /\ TokenPairs(Resetting)' = TokenPairs(Resetting)
           /\ TokenPairs(Successful("reset"))' = TokenPairs(Successful("reset"))
<1>1. \A q \in Request : q # r =>
        pc'[q] = pc[q] /\ call'[q] = call[q] /\ answer'[q] = answer[q]
  BY Frame
<1>2. r \in Successful("reset") => call'[r] = call[r]
  BY SeedAssumption DEF Control, CallFits, Successful
<1>3. Resetting' = Resetting /\ \A q \in Resetting : call'[q] = call[q]
  BY <1>1 DEF Resetting
<1>4. Successful("reset")' = Successful("reset")
      /\ \A q \in Successful("reset") : call'[q] = call[q]
  BY <1>1, <1>2 DEF Successful
<1>5. QED
  BY <1>3, <1>4 DEF TokenPairs

\* The same of reset tokens, checked by the lookup and used by the commit of a
\* reset.
LEMMA ResetsStep ==
    ASSUME TypeOK, TypeOK', Control, [Next]_vars
    PROVE  [Resets!Next]_Resets!vars
<1> USE DEF TypeOK, GoTo, Answer, rows, browsers, resetting
<1> DEFINE A == Successful("reset")
<1>1. ASSUME NEW r \in Request,
             \/ Send(r) \/ FindEmail(r) \/ InsertUser(r) \/ FindUser(r)
             \/ InsertSession(r) \/ FindSession(r) \/ Rotate(r) \/ FindOwnSession(r)
             \/ Revoke(r) \/ FindAccount(r) \/ InsertToken(r) \/ SendMail(r)
             \/ SelectSessions(r) \/ Sweep(r) \/ Deliver(r) \/ Lose(r)
      PROVE  UNCHANGED Resets!vars
  <2>1. CallFits(r)
    BY DEF Control
  <2>2. used' = used
    BY <1>1 DEF Send, FindEmail, InsertUser, FindUser, InsertSession, FindSession,
           Rotate, FindOwnSession, Revoke, FindAccount, InsertToken, SendMail, Look,
           SelectSessions, Sweep, Deliver, Lose
  <2>3. pc[r] = "idle" \/ call'[r] = call[r]
    BY <1>1 DEF Send, FindEmail, InsertUser, FindUser, InsertSession, FindSession,
           Rotate, FindOwnSession, Revoke, FindAccount, InsertToken, SendMail, Look,
           SelectSessions, Sweep, Deliver, Lose
  <2>4. /\ r \in Resetting' <=> r \in Resetting
        /\ r \in A' <=> r \in A
    <3> USE DEF Resetting, Successful
    <3>1. CASE Send(r)
      BY <2>1, <3>1, CallForms, CallsAssumption, SeedAssumption
         DEF Send, FirstStatement, CallFits
    <3>2. CASE Deliver(r) \/ Lose(r) \/ SelectSessions(r) \/ Sweep(r)
      BY <3>2 DEF Deliver, Lose, SelectSessions, Sweep
    <3>3. CASE FindEmail(r) \/ InsertUser(r) \/ FindUser(r) \/ InsertSession(r)
      BY <2>1, <3>3, FormFields, SeedAssumption
         DEF FindEmail, InsertUser, FindUser, InsertSession, Look, CallFits
    <3>4. CASE FindOwnSession(r) \/ Revoke(r)
      BY <2>1, <3>4, FormFields, SeedAssumption DEF FindOwnSession, Revoke, CallFits
    <3>5. CASE FindAccount(r) \/ InsertToken(r) \/ SendMail(r)
      BY <2>1, <3>5, FormFields, SeedAssumption
         DEF FindAccount, InsertToken, SendMail, CallFits
    <3>6. CASE FindSession(r) \/ Rotate(r)
      BY <2>1, <3>6, FormFields, SeedAssumption DEF FindSession, Look, Rotate, CallFits
    <3> QED
      BY <1>1, <3>1, <3>2, <3>3, <3>4, <3>5, <3>6
  <2>5. TokenPairs(Resetting)' = TokenPairs(Resetting) /\ TokenPairs(A)' = TokenPairs(A)
    BY <1>1, <2>3, <2>4, ResetsKeep DEF Handle
  <2> QED
    BY <2>2, <2>5 DEF Resets!vars, Resetting
<1>2. ASSUME NEW r \in Request, FindToken(r) PROVE [Resets!Next]_Resets!vars
  <2>1. /\ call[r].token \in TokenId /\ pc[r] = "find_token" /\ answer[r] # "ok"
    BY <1>2, FormFields, SeedAssumption DEF Control, CallFits, FindToken
  <2>2. /\ used' = used /\ call' = call /\ answer'[r] # "ok"
        /\ \A q \in Request : q # r => answer'[q] = answer[q] /\ pc'[q] = pc[q]
    BY <1>2, <2>1 DEF FindToken, Look
  <2>3. TokenPairs(A)' = TokenPairs(A)
    BY <2>1, <2>2 DEF Successful, TokenPairs
  <2>4. CASE ValidToken(call[r].token)
    <3>1. pc'[r] = "select_sessions"
      BY <1>2, <2>4 DEF FindToken, Look
    <3>2. Resetting' = Resetting \cup {r}
      BY <2>2, <3>1 DEF Resetting
    <3>3. TokenPairs(Resetting)' = TokenPairs(Resetting) \cup {<<r, call[r].token>>}
      BY <2>2, <3>2 DEF TokenPairs
    <3>4. Resets!Check(r, call[r].token)
      BY <2>2, <2>3, <2>4, <3>3 DEF Resets!Check, ValidToken, Resetting
    <3> QED
      BY <2>1, <3>4 DEF Resets!Next
  <2>5. CASE ~ValidToken(call[r].token)
    <3>1. pc'[r] \in {"answered", "done"}
      BY <1>2, <2>5 DEF FindToken, Look
    <3>2. Resetting' = Resetting
      BY <2>1, <2>2, <3>1 DEF Resetting
    <3> QED
      BY <2>2, <2>3, <3>2 DEF Resets!vars, TokenPairs, Resetting
  <2> QED
    BY <2>4, <2>5
<1>3. ASSUME NEW r \in Request, CommitReset(r) PROVE [Resets!Next]_Resets!vars
  <2>1. /\ call[r].token \in TokenId /\ pc[r] = "commit_reset" /\ call[r].op = "reset"
    BY <1>3, FormFields DEF Control, CallFits, CommitReset
  <2>2. /\ call' = call /\ used' = used \cup {call[r].token}
        /\ answer'[r] = "ok" /\ pc'[r] = "done"
        /\ \A q \in Request : q # r => answer'[q] = answer[q] /\ pc'[q] = pc[q]
    BY <1>3, <2>1 DEF CommitReset
  <2>3. Resetting' = Resetting \ {r} /\ r \in Resetting
    BY <2>1, <2>2 DEF Resetting
  <2>4. Successful("reset")' = Successful("reset") \cup {r}
    BY <2>1, <2>2 DEF Successful
  <2>5. /\ TokenPairs(Resetting)' = TokenPairs(Resetting) \ {<<r, call[r].token>>}
        /\ TokenPairs(A)' = TokenPairs(A) \cup {<<r, call[r].token>>}
        /\ <<r, call[r].token>> \in TokenPairs(Resetting)
    BY <2>2, <2>3, <2>4 DEF TokenPairs
  <2>6. Resets!Act(r, call[r].token)
    BY <2>2, <2>5 DEF Resets!Act, Resetting
  <2> QED
    BY <2>1, <2>6 DEF Resets!Next
<1>4. CASE (\E x \in Expirable : Expire(x)) \/ AllDone \/ UNCHANGED vars
  BY <1>4 DEF Expire, AllDone, vars, Resets!vars, TokenPairs, Successful
<1>5. QED
  BY <1>1, <1>2, <1>3, <1>4 DEF Next, Handle

\* A session is rotated only by requests that found it valid before it was
\* revoked: the handlers implement a one-time token.
THEOREM SessionsAreOneTime == Spec => RotatedWhileValid
<1>1. Init => Rotations!Init
  BY SeedAssumption DEF Init, Rotations!Init, HeldPairs, Successful
<1>2. IInv /\ IInv' /\ [Next]_vars => [Rotations!Next]_Rotations!vars
  BY RotationsStep DEF IInv
<1>3. QED
  BY <1>1, <1>2, Inductive, PTL DEF Spec, RotatedWhileValid, Rotations!Spec

\* A reset token is consumed only by requests that found it unused before it
\* was first consumed.
THEOREM ResetTokensAreOneTime == Spec => ResetWhileUnused
<1>1. Init => Resets!Init
  BY SeedAssumption DEF Init, Resets!Init, TokenPairs, Successful
<1>2. IInv /\ IInv' /\ [Next]_vars => [Resets!Next]_Resets!vars
  BY ResetsStep DEF IInv
<1>3. QED
  BY <1>1, <1>2, Inductive, PTL DEF Spec, ResetWhileUnused, Resets!Spec

=============================================================================
