------------------------------ MODULE Sessions ------------------------------
(***************************************************************************)
(* Accounts, refresh-token sessions and password resets                    *)
(* (services/auth_service.py, routes/auth.py), and the browsers that hold  *)
(* the refresh cookie.                                                     *)
(*                                                                         *)
(* A handler is a series of statements of READ COMMITTED transactions.     *)
(* The session of SQLAlchemy does not flush by itself, so what a handler   *)
(* assigns to rows is written by its commit; only the bulk update that     *)
(* ends the sessions of an account is a statement of its own, which first  *)
(* selects its rows and then waits for each to be unlocked.                *)
(* A browser captures its cookie when it sends a request; answers arrive   *)
(* in any order, or never.                                                 *)
(***************************************************************************)
EXTENDS Naturals

CONSTANTS
    Request,        \* a session or a token has the id of the request adding it
    Browser, Email, Password,
    SeedSession,    \* sessions of User that exist at the start
    SeedToken,      \* reset tokens mailed to User before
    User,           \* the address registered at the start
    FirstPassword,  \* and its password
    SeedCookie,     \* what the browsers hold
    Expirable,      \* the sessions and tokens that may expire
    Calls,          \* what requests may ask
    None

SessionId == SeedSession \cup Request
TokenId == SeedToken \cup Request

ASSUME SeedAssumption ==
    /\ User \in Email /\ FirstPassword \in Password
    /\ SeedCookie \in [Browser -> SeedSession \cup {None}]
    /\ (SeedSession \cup SeedToken) \cap Request = {}
    /\ None \notin SessionId \cup TokenId \cup Email \cup Password
    /\ None \notin {"ok", "refused", "conflict"}

\* The requests, each with what it needs of an address, a password and a token.
Payload(ops, emails, passwords, tokens) ==
    [op : ops, browser : Browser, email : emails, password : passwords, token : tokens]

Call == Payload({"login", "register"}, Email, Password, {None})
        \cup Payload({"refresh", "logout"}, {None}, {None}, {None})
        \cup Payload({"forgot"}, Email, {None}, {None})
        \cup Payload({"reset"}, {None}, Password, TokenId)

\* A cookie is sent to one browser.
ASSUME CookieAssumption ==
    \A b, c \in Browser : SeedCookie[b] = SeedCookie[c] => b = c \/ SeedCookie[b] = None

ASSUME CallsAssumption == Calls \subseteq Call

\* user_sessions.  History: resets is the number of resets of the account that
\* the password check knew of which the session goes back to, raced whether a
\* reset ran while it, or the session it was rotated from, was made.
SessionRow == [user : Email, resets : Nat, raced : BOOLEAN]

VARIABLES
    password,   \* per account; None where there is no account
    session,    \* per id its row; None where there is none
    revoked,    \* sessions with revoked_at
    token,      \* per id the account of a reset token; None where there is none
    used,       \* tokens with used_at
    expired,    \* sessions and tokens with expires_at in the past
    mailed,     \* tokens whose mail arrived
    cookie,     \* per browser
    pc, call,
    held,       \* the cookie that a request was sent with
    targets,    \* the sessions that a reset's bulk update has selected
    swept,      \* and those that it has locked and will revoke
    answer,
    resets,     \* history: the committed resets per account
    known,      \*   their number when a request last checked
    lost,       \*   browsers that lost an answer
    left        \*   browsers that asked for a logout

rows == <<password, session, revoked, token, used>>
resetting == <<targets, swept>>
browsers == <<cookie, lost, left>>
vars == <<rows, expired, mailed, browsers, pc, call, held, resetting, answer,
          resets, known>>

Init ==
    /\ password = [e \in Email |-> IF e = User THEN FirstPassword ELSE None]
    /\ session = [s \in SessionId |->
          IF s \in SeedSession THEN [user |-> User, resets |-> 0, raced |-> FALSE]
          ELSE None]
    /\ token = [t \in TokenId |-> IF t \in SeedToken THEN User ELSE None]
    /\ revoked = {} /\ used = {} /\ expired = {} /\ mailed = SeedToken
    /\ cookie = SeedCookie /\ lost = {} /\ left = {}
    /\ pc = [r \in Request |-> "idle"]
    /\ call = [r \in Request |-> None]
    /\ held = [r \in Request |-> None]
    /\ targets = [r \in Request |-> {}]
    /\ swept = [r \in Request |-> {}]
    /\ answer = [r \in Request |-> None]
    /\ resets = [e \in Email |-> 0]
    /\ known = [r \in Request |-> 0]

GoTo(r, label) == pc' = [pc EXCEPT ![r] = label]

\* The answers about passwords do not concern a browser's cookie.
Answer(r, a) ==
    /\ GoTo(r, IF call[r].op \in {"forgot", "reset"} THEN "done" ELSE "answered")
    /\ answer' = [answer EXCEPT ![r] = a]

FirstStatement ==
    [login |-> "find_user", register |-> "find_email", refresh |-> "find_session",
     logout |-> "find_own_session", forgot |-> "find_account", reset |-> "find_token"]

\* A browser sends a request.  A token is one that was mailed; a refresh or a
\* logout without a cookie ends at once, and the first is refused.
Send(r) ==
    /\ pc[r] = "idle"
    /\ \E c \in Calls :
        /\ c.op = "reset" => c.token \in mailed
        /\ call' = [call EXCEPT ![r] = c]
        /\ held' = [held EXCEPT ![r] = cookie[c.browser]]
        /\ left' = left \cup {d \in {c.browser} : c.op = "logout"}
        /\ IF c.op \in {"refresh", "logout"} /\ cookie[c.browser] = None
           THEN /\ GoTo(r, "answered")
                /\ answer' = [answer EXCEPT ![r] =
                      IF c.op = "refresh" THEN "refused" ELSE "ok"]
           ELSE GoTo(r, FirstStatement[c.op]) /\ UNCHANGED answer
    /\ UNCHANGED <<rows, expired, mailed, cookie, lost, resetting, resets, known>>

\* A statement that only reads: the request goes on if ok, or is refused.
Look(r, ok, label) ==
    /\ \/ ok /\ GoTo(r, label) /\ UNCHANGED answer
       \/ ~ok /\ Answer(r, "refused")
    /\ UNCHANGED <<rows, expired, mailed, browsers, call, held, swept, resets>>

Knows(r, e) == known' = [known EXCEPT ![r] = resets[e]]

-----------------------------------------------------------------------------
(* The row locks of the bulk update, and what a reset races with *)

Locked(s) == \E q \in Request : pc[q] = "commit_reset" /\ s \in swept[q]

ResetRuns(e) ==
    \E q \in Request : pc[q] \in {"sweep", "commit_reset"} /\ token[call[q].token] = e

NewSession(r, row) == session' = [session EXCEPT ![r] = row]

-----------------------------------------------------------------------------
(* register and login *)

FindEmail(r) ==
    /\ pc[r] = "find_email"
    /\ Look(r, password[call[r].email] = None, "insert_user")
    /\ UNCHANGED <<targets, known>>

\* The account and its tenant are committed before the session is made.  An
\* address registered meanwhile makes the insertion fail.
InsertUser(r) ==
    /\ pc[r] = "insert_user"
    /\ LET e == call[r].email IN
        \/ password[e] # None /\ Answer(r, "conflict") /\ UNCHANGED <<password, known>>
        \/ /\ password[e] = None
           /\ password' = [password EXCEPT ![e] = call[r].password]
           /\ Knows(r, e)
           /\ GoTo(r, "insert_session")
           /\ UNCHANGED answer
    /\ UNCHANGED <<session, revoked, token, used, expired, mailed, browsers, call,
                   held, resetting, resets>>

\* authenticate; no handler deactivates an account.
FindUser(r) ==
    /\ pc[r] = "find_user"
    /\ Look(r, password[call[r].email] = call[r].password, "insert_session")
    /\ Knows(r, call[r].email)
    /\ UNCHANGED targets

InsertSession(r) ==
    /\ pc[r] = "insert_session"
    /\ LET e == call[r].email IN
        NewSession(r, [user |-> e, resets |-> known[r],
                       raced |-> known[r] # resets[e] \/ ResetRuns(e)])
    /\ Answer(r, "ok")
    /\ UNCHANGED <<password, revoked, token, used, expired, mailed, browsers, call,
                   held, resetting, resets, known>>

-----------------------------------------------------------------------------
(* refresh and logout *)

\* Mutant: a session that is revoked may still be rotated.
ValidAnyTime(s) == session[s] # None /\ s \notin expired

Valid(s) == session[s] # None /\ s \notin revoked /\ s \notin expired

FindSession(r) ==
    /\ pc[r] = "find_session"
    /\ Look(r, Valid(held[r]), "rotate")
    /\ IF Valid(held[r]) THEN Knows(r, session[held[r]].user) ELSE UNCHANGED known
    /\ UNCHANGED targets

\* The assignments and the insertion are committed together.  The update is by
\* key, so that it also succeeds on a session revoked meanwhile.
Rotate(r) ==
    /\ pc[r] = "rotate"
    /\ ~Locked(held[r])
    /\ revoked' = revoked \cup {held[r]}
    /\ LET old == session[held[r]] IN
        NewSession(r, [old EXCEPT !.raced =
            @ \/ known[r] # resets[old.user] \/ ResetRuns(old.user)])
    /\ Answer(r, "ok")
    /\ UNCHANGED <<password, token, used, expired, mailed, browsers, call, held,
                   resetting, resets, known>>

\* A logout answers the same whether it finds a session to end or none.
FindOwnSession(r) ==
    /\ pc[r] = "find_own_session"
    /\ \/ held[r] \notin revoked /\ GoTo(r, "revoke") /\ UNCHANGED answer
       \/ held[r] \in revoked /\ Answer(r, "ok")
    /\ UNCHANGED <<rows, expired, mailed, browsers, call, held, resetting, resets,
                   known>>

Revoke(r) ==
    /\ pc[r] = "revoke"
    /\ ~Locked(held[r])
    /\ revoked' = revoked \cup {held[r]}
    /\ Answer(r, "ok")
    /\ UNCHANGED <<password, session, token, used, expired, mailed, browsers, call,
                   held, resetting, resets, known>>

-----------------------------------------------------------------------------
(* request_password_reset and reset_password *)

\* The answer never tells whether there is an account.
FindAccount(r) ==
    /\ pc[r] = "find_account"
    /\ \/ password[call[r].email] # None /\ GoTo(r, "insert_token") /\ UNCHANGED answer
       \/ password[call[r].email] = None /\ Answer(r, "ok")
    /\ UNCHANGED <<rows, expired, mailed, browsers, call, held, resetting, resets,
                   known>>

InsertToken(r) ==
    /\ pc[r] = "insert_token"
    /\ token' = [token EXCEPT ![r] = call[r].email]
    /\ GoTo(r, "send_mail")
    /\ UNCHANGED <<password, session, revoked, used, expired, mailed, browsers, call,
                   held, resetting, answer, resets, known>>

\* A failure to deliver is swallowed.
SendMail(r) ==
    /\ pc[r] = "send_mail"
    /\ mailed' \in {mailed, mailed \cup {r}}
    /\ Answer(r, "ok")
    /\ UNCHANGED <<rows, expired, browsers, call, held, resetting, resets, known>>

\* Mutant: nobody looks at used_at.
ValidTokenAgain(t) == token[t] # None /\ t \notin expired

ValidToken(t) == token[t] # None /\ t \notin used /\ t \notin expired

FindToken(r) ==
    /\ pc[r] = "find_token"
    /\ Look(r, ValidToken(call[r].token), "select_sessions")
    /\ UNCHANGED <<targets, known>>

\* Mutant: the update names the account where it means the sessions.
LiveAccount(e) ==
    {session[s].user : s \in {x \in SessionId : x \notin revoked /\ session[x] # None}}

Live(e) == {s \in SessionId : s \notin revoked /\ session[s] # None /\ session[s].user = e}

\* The bulk update sees the sessions committed when it starts ...
SelectSessions(r) ==
    /\ pc[r] = "select_sessions"
    /\ targets' = [targets EXCEPT ![r] = Live(token[call[r].token])]
    /\ GoTo(r, "sweep")
    /\ UNCHANGED <<rows, expired, mailed, browsers, call, held, swept, answer, resets,
                   known>>

\* Mutant: only one session is ended.
SweepOne(r) ==
    /\ pc[r] = "sweep"
    /\ \A s \in targets[r] : ~Locked(s)
    /\ \E s \in targets[r] \ revoked : swept' = [swept EXCEPT ![r] = {s}]
    /\ GoTo(r, "commit_reset")
    /\ UNCHANGED <<rows, expired, mailed, browsers, call, held, targets, answer, resets,
                   known>>

\* ... waits for those that another reset has locked, and looks at them anew.
Sweep(r) ==
    /\ pc[r] = "sweep"
    /\ \A s \in targets[r] : ~Locked(s)
    /\ swept' = [swept EXCEPT ![r] = targets[r] \ revoked]
    /\ GoTo(r, "commit_reset")
    /\ UNCHANGED <<rows, expired, mailed, browsers, call, held, targets, answer, resets,
                   known>>

CommitReset(r) ==
    /\ pc[r] = "commit_reset"
    /\ LET t == call[r].token
           e == token[t] IN
        /\ password' = [password EXCEPT ![e] = call[r].password]
        /\ used' = used \cup {t}
        /\ resets' = [resets EXCEPT ![e] = @ + 1]
    /\ revoked' = revoked \cup swept[r]
    /\ Answer(r, "ok")
    /\ UNCHANGED <<session, token, expired, mailed, browsers, call, held, resetting,
                   known>>

-----------------------------------------------------------------------------
(* The world outside *)

SetsCookie(r) == answer[r] = "ok" /\ call[r].op \in {"login", "register", "refresh"}

\* Mutant: a refused refresh deletes the cookie, as its handler means to.
ClearsRefused(r) ==
    \/ answer[r] = "ok" /\ call[r].op = "logout"
    \/ answer[r] = "refused" /\ call[r].op = "refresh"

ClearsCookie(r) == answer[r] = "ok" /\ call[r].op = "logout"

\* An answer arrives.  Only an answer of success carries the cookie that the
\* handler has set: the one a refused refresh deletes is dropped, because the
\* exception that refuses it makes a response of its own.
Deliver(r) ==
    /\ pc[r] = "answered"
    /\ GoTo(r, "done")
    /\ cookie' = IF SetsCookie(r) THEN [cookie EXCEPT ![call[r].browser] = r]
                 ELSE IF ClearsCookie(r) THEN [cookie EXCEPT ![call[r].browser] = None]
                 ELSE cookie
    /\ UNCHANGED <<rows, expired, mailed, lost, left, call, held, resetting, answer,
                   resets, known>>

Lose(r) ==
    /\ pc[r] = "answered"
    /\ SetsCookie(r) \/ ClearsCookie(r)
    /\ GoTo(r, "done")
    /\ lost' = lost \cup {call[r].browser}
    /\ UNCHANGED <<rows, expired, mailed, cookie, left, call, held, resetting, answer,
                   resets, known>>

Expire(x) ==
    /\ x \in Expirable \ expired
    /\ expired' = expired \cup {x}
    /\ UNCHANGED <<rows, mailed, browsers, pc, call, held, resetting, answer, resets,
                   known>>

-----------------------------------------------------------------------------

Handle(r) ==
    \/ FindEmail(r) \/ InsertUser(r) \/ FindUser(r) \/ InsertSession(r)
    \/ FindSession(r) \/ Rotate(r) \/ FindOwnSession(r) \/ Revoke(r)
    \/ FindAccount(r) \/ InsertToken(r) \/ SendMail(r)
    \/ FindToken(r) \/ SelectSessions(r) \/ Sweep(r) \/ CommitReset(r)

AllDone ==
    /\ \A r \in Request : pc[r] = "done"
    /\ UNCHANGED vars

Next ==
    \/ \E r \in Request : Send(r) \/ Handle(r) \/ Deliver(r) \/ Lose(r)
    \/ \E x \in Expirable : Expire(x)
    \/ AllDone

Spec == Init /\ [][Next]_vars

-----------------------------------------------------------------------------
(* Properties *)

Location == {"idle", "find_user", "find_email", "insert_user", "insert_session",
             "find_session", "rotate", "find_own_session", "revoke",
             "find_account", "insert_token", "send_mail", "find_token",
             "select_sessions", "sweep", "commit_reset", "answered", "done"}

\* Rows, browsers and handlers hold what they may hold; in particular a
\* session belongs to an account.
TypeOK ==
    /\ password \in [Email -> Password \cup {None}]
    /\ session \in [SessionId -> SessionRow \cup {None}]
    /\ revoked \in SUBSET SessionId
    /\ token \in [TokenId -> Email \cup {None}]
    /\ used \in SUBSET TokenId
    /\ mailed \in SUBSET TokenId
    /\ cookie \in [Browser -> SessionId \cup {None}]
    /\ pc \in [Request -> Location]
    /\ call \in [Request -> Call \cup {None}]
    /\ held \in [Request -> SessionId \cup {None}]
    /\ targets \in [Request -> SUBSET SessionId]
    /\ swept \in [Request -> SUBSET SessionId]
    /\ answer \in [Request -> {None, "ok", "refused", "conflict"}]
    /\ resets \in [Email -> Nat]
    /\ known \in [Request -> Nat]

\* A password reset ends the sessions of its account.  One that is alive
\* although the account was reset since its password check was itself made
\* while a reset ran, or was rotated from such a one: the handler had looked
\* before the reset and committed after the reset had selected what to end
\* (reset_password, rotate_session, create_session).
ResetEndsSessions ==
    \A s \in SessionId :
        session[s] # None /\ s \notin revoked
            /\ session[s].resets < resets[session[s].user]
        => session[s].raced

Quiet(b) == \A r \in Request : pc[r] \in {"idle", "done"} \/ call[r].browser # b

\* Whatever order the answers of overlapping logins, refreshes and logouts
\* arrive in, a browser that waits for none and has lost none holds a session
\* that can be refreshed, or has asked for a logout: it never ends up with a
\* session that another of its own requests has replaced, or with none
\* (refresh, logout, _token_response).  Resets and expiry, which end sessions
\* on purpose, are left out of account.
CookieLive ==
    expired \cap SessionId = {} /\ (\A e \in Email : resets[e] = 0) =>
        \A b \in Browser : Quiet(b) /\ b \notin lost =>
            IF cookie[b] = None THEN b \in left \/ SeedCookie[b] = None
            ELSE cookie[b] \notin revoked

Successful(op) == {r \in Request : answer[r] = "ok" /\ call[r].op = op}

\* A reset token is used by one request only.
TokenConsumedOnce ==
    \A r, q \in Successful("reset") : call[r].token = call[q].token => r = q

\* Refresh tokens: several refreshes may rotate one session, but only such as
\* had all found it valid before it was first revoked (rotate_session).
HeldPairs(S) == {<<r, held[r]>> : r \in S}

Rotations == INSTANCE OneTimeToken WITH
    Token <- SessionId, Holder <- Request, used <- revoked,
    checked <- HeldPairs({r \in Request : pc[r] = "rotate"}),
    acted <- HeldPairs(Successful("refresh"))

RotatedWhileValid == Rotations!Spec

\* Reset tokens: several requests may reset with one token, but only such as
\* had all found it unused before the first of them committed
\* (reset_password).
TokenPairs(S) == {<<r, call[r].token>> : r \in S}

Resets == INSTANCE OneTimeToken WITH
    Token <- TokenId, Holder <- Request,
    checked <- TokenPairs({r \in Request :
                   pc[r] \in {"select_sessions", "sweep", "commit_reset"}}),
    acted <- TokenPairs(Successful("reset"))

ResetWhileUnused == Resets!Spec

=============================================================================
