------------------------------- MODULE Sessions -------------------------------
(***************************************************************************)
(* Login sessions of one tenant: rotating refresh tokens, one-time codes,  *)
(* the suspension of accounts, and the browser that keeps one session.     *)
(*                                                                         *)
(* A handler is one transaction at READ COMMITTED.  It is cut where        *)
(* another one can make a difference: at its unlocked reads, at the one    *)
(* UPDATE that holds its locks until the commit, at the commit, and where  *)
(* its answer reaches the browser.                                         *)
(***************************************************************************)
EXTENDS Naturals, Sequences, FiniteSets

CONSTANTS
    Users,
    Administrators,     \* the users with the role Administrator
    Managers,           \* the users with the permission user:manage
    Requested,          \* the statuses that are asked for
    Handlers,           \* request handlers of the backend
    Tabs,               \* tabs of the one browser
    None,               \* no user, no tab
    StatusLabelled,     \* a stored status has the label the router reads
    Alone,              \* kinds of request of which two never overlap
    MaxRequests,        \* bound on the requests of a behaviour
    MaxStep             \* bound on the time steps of one-time codes

ASSUME SessionsAssumption ==
    /\ IsFiniteSet(Users)
    /\ Administrators \subseteq Managers /\ Managers \subseteq Users
    /\ Requested \subseteq {"invited", "active", "disabled"}
    /\ None \notin Users /\ None \notin Tabs
    /\ StatusLabelled \in BOOLEAN
    /\ Alone \subseteq {"status", "mfa"}
    /\ MaxRequests \in Nat /\ MaxStep \in Nat \ {0}

VARIABLES
    users,      \* committed rows: status, second factor
    tokens,     \* committed refresh tokens, in commit order
    request,    \* what each handler is doing
    tab,        \* what the script of each tab holds
    cookie,     \* the browser's refresh cookie: a token, or 0
    now,        \* the time step of one-time codes
    asked,      \* requests so far
    minted,     \* secrets so far
    accepted    \* history: the codes accepted by committed requests

vars == <<users, tokens, request, tab, cookie, now, asked, minted, accepted>>

Status == {"invited", "active", "disabled"}
Code == [secret : 0..MaxRequests + 1, step : 0..MaxStep + 1]
User == [status : Status, secret : 0..MaxRequests + 1, enabled : BOOLEAN,
         step : 0..MaxStep + 1]                 \* step 0: none verified yet

\* family and late are history: the login a token descends from, and whether
\* a suspension could not see it.
Token == [user : Users, revoked : BOOLEAN, family : Nat, late : BOOLEAN]

Issuing == {"login", "verify", "refresh"}
Enrolment == {"enroll", "confirm", "disable"}
Operation == Issuing \cup Enrolment \cup {"logout", "status"}

Kind(op) == CASE op = "status" -> "status"
              [] op \in {"verify"} \cup Enrolment -> "mfa"
              [] OTHER -> "session"

Idle == [op |-> "none", phase |-> "idle", user |-> None, tab |-> None,
         token |-> 0, code |-> [secret |-> 0, step |-> 0], status |-> "active",
         holds |-> FALSE, late |-> FALSE]

Live(t) == ~tokens[t].revoked
LiveOf(u) == {t \in DOMAIN tokens : tokens[t].user = u /\ Live(t)}

TypeOK ==
    /\ users \in [Users -> User]
    /\ tokens \in Seq(Token)
    /\ request \in [Handlers ->
           [op : Operation \cup {"none"},
            phase : {"idle", "begun", "live", "reused", "ready", "written", "challenged",
                     "answered", "refused"},
            user : Users \cup {None}, tab : Tabs \cup {None}, token : Nat,
            code : Code, status : Status, holds : BOOLEAN, late : BOOLEAN]]
    /\ tab \in [Tabs -> [promise : BOOLEAN, waiting : 0..2, access : BOOLEAN,
                         challenge : Users \cup {None}]]
    /\ cookie \in 0..Len(tokens)
    /\ now \in 1..MaxStep /\ asked \in 0..MaxRequests
    /\ minted \in 0..MaxRequests + 1
    /\ accepted \in Seq([user : Users, code : Code])

Init ==
    /\ \E enrolled \in SUBSET Users :
           users = [u \in Users |->
                       [status |-> "active", secret |-> IF u \in enrolled THEN 1 ELSE 0,
                        enabled |-> u \in enrolled, step |-> 0]]
    /\ tokens = <<>> /\ cookie = 0 /\ accepted = <<>>
    /\ request = [h \in Handlers |-> Idle]
    /\ tab = [t \in Tabs |-> [promise |-> FALSE, waiting |-> 0, access |-> FALSE,
                              challenge |-> None]]
    /\ now = 1 /\ asked = 0 /\ minted = 1

(***************************************************************************)
(* Requests arrive.                                                        *)
(***************************************************************************)

Free(h, op) ==
    /\ request[h] = Idle
    /\ asked < MaxRequests
    /\ Kind(op) \in Alone =>
           \A g \in Handlers : request[g].op \in Operation => Kind(request[g].op) # Kind(op)

Begin(h, r) ==
    /\ Free(h, r.op)
    /\ request' = [request EXCEPT ![h] = r]
    /\ asked' = asked + 1

\* authenticated: get_active_current_user in a transaction of its own
Active(u) == users[u].status = "active"

\* POST /auth/login: the password is right; a second factor is asked for.
Login(h, t, u) ==
    /\ users[u].status # "disabled"
    /\ users[u].enabled \/ Active(u)
    /\ Begin(h, [Idle EXCEPT !.op = "login", !.user = u, !.tab = t,
                     !.phase = IF users[u].enabled THEN "challenged" ELSE "ready"])
    /\ UNCHANGED <<users, tokens, tab, cookie, now, minted, accepted>>

\* Mutant: the last time step is good for one more code.
MatchesAgain(row, code) ==
    /\ code.secret = row.secret /\ row.secret # 0
    /\ code.step + 1 >= now /\ code.step <= now + 1
    /\ code.step >= row.step

\* verify_mfa_code_once on a row as it was read
Matches(row, code) ==
    /\ code.secret = row.secret /\ row.secret # 0
    /\ code.step + 1 >= now /\ code.step <= now + 1
    /\ code.step > row.step

\* POST /auth/mfa/verify with the challenge the tab was given
Verify(h, t, code) ==
    LET u == tab[t].challenge IN
    /\ u # None
    /\ users[u].enabled /\ Matches(users[u], code) /\ Active(u)
    /\ Begin(h, [Idle EXCEPT !.op = "verify", !.user = u, !.tab = t, !.code = code,
                     !.phase = "ready"])
    /\ UNCHANGED <<users, tokens, tab, cookie, now, minted, accepted>>

\* Mutant: every call refreshes for itself.
RefreshEach(h, t) ==
    /\ tab' = [tab EXCEPT ![t].waiting = 1, ![t].promise = TRUE]
    /\ Begin(h, [Idle EXCEPT !.op = "refresh", !.tab = t, !.token = cookie,
                     !.phase = IF cookie = 0 THEN "refused" ELSE "begun"])
    /\ UNCHANGED <<users, tokens, cookie, now, minted, accepted>>

\* A call of the tab is answered 401 and starts a refresh (tryRefresh), which
\* is refused without a cookie ...
Refresh(h, t) ==
    /\ ~tab[t].promise
    /\ tab' = [tab EXCEPT ![t].waiting = @ + 1, ![t].promise = TRUE]
    /\ Begin(h, [Idle EXCEPT !.op = "refresh", !.tab = t, !.token = cookie,
                     !.phase = IF cookie = 0 THEN "refused" ELSE "begun"])
    /\ UNCHANGED <<users, tokens, cookie, now, minted, accepted>>

\* ... or waits for the one in flight.
JoinRefresh(t) ==
    /\ tab[t].promise /\ tab[t].waiting < 2
    /\ tab' = [tab EXCEPT ![t].waiting = @ + 1]
    /\ UNCHANGED <<users, tokens, request, cookie, now, asked, minted, accepted>>

\* refresh_tokens reads the token row ...
ReadToken(h) ==
    LET r == request[h] IN
    /\ r.op = "refresh" /\ r.phase = "begun"
    /\ request' = [request EXCEPT
           ![h].user = tokens[r.token].user,
           ![h].phase = IF Live(r.token) THEN "live" ELSE "reused"]
    /\ UNCHANGED <<users, tokens, tab, cookie, now, asked, minted, accepted>>

\* ... and, for a token already used, revokes its user's sessions and raises:
\* the exception leaves admin_session by its rollback.
ReuseDetected(h) ==
    /\ request[h].phase = "reused"
    /\ request' = [request EXCEPT ![h].phase = "refused"]
    /\ UNCHANGED <<users, tokens, tab, cookie, now, asked, minted, accepted>>

\* Mutant: the user's status is not looked at again.
ReadUserUnchecked(h) ==
    /\ request[h].phase = "live"
    /\ request' = [request EXCEPT ![h].phase = "ready"]
    /\ UNCHANGED <<users, tokens, tab, cookie, now, asked, minted, accepted>>

\* refresh_tokens reads the user after the token.
ReadUser(h) ==
    /\ request[h].phase = "live"
    /\ Active(request[h].user)
    /\ request' = [request EXCEPT ![h].phase = "ready"]
    /\ UNCHANGED <<users, tokens, tab, cookie, now, asked, minted, accepted>>

\* POST /auth/logout reads the token of the cookie.
Logout(h, t) ==
    /\ Begin(h, [Idle EXCEPT !.op = "logout", !.tab = t, !.token = cookie,
                     !.phase = IF cookie # 0 /\ Live(cookie) THEN "ready" ELSE "answered"])
    /\ UNCHANGED <<users, tokens, tab, cookie, now, minted, accepted>>

\* /auth/mfa/{enroll,confirm,disable}: the row is read, its guards checked.
Enrol(h, u, op, code) ==
    LET row == users[u] IN
    /\ Active(u)
    /\ CASE op = "enroll"  -> ~row.enabled
         [] op = "confirm" -> Matches(row, code)
         [] op = "disable" -> row.enabled /\ Matches(row, code)
    /\ Begin(h, [Idle EXCEPT !.op = op, !.user = u, !.phase = "ready",
                     !.code = IF op = "enroll" THEN [secret |-> minted + 1, step |-> 0]
                                               ELSE code])
    /\ minted' = IF op = "enroll" THEN minted + 1 ELSE minted
    /\ UNCHANGED <<users, tokens, tab, cookie, now, accepted>>

\* PATCH /users/{id}/status: the permission is checked in a transaction of its own.
SetStatus(h, actor, u, status) ==
    /\ Active(actor) /\ actor \in Managers
    /\ status = "disabled" => u # actor
    /\ Begin(h, [Idle EXCEPT !.op = "status", !.user = u, !.status = status,
                     !.phase = "begun"])
    /\ UNCHANGED <<users, tokens, tab, cookie, now, minted, accepted>>

ActiveAdministrators == {u \in Administrators : Active(u)}

\* Mutant: nobody is left when the last one goes.
DecideUncounted(h) ==
    LET r == request[h] IN
    /\ r.op = "status" /\ r.phase = "begun" /\ StatusLabelled
    /\ request' = [request EXCEPT ![h].phase = "ready",
                                  ![h].holds = users[r.user].status # r.status]
    /\ UNCHANGED <<users, tokens, tab, cookie, now, asked, minted, accepted>>

\* The target is read, first by the router for the label of its status (a
\* column of plain text loads without one), and the administrators left are
\* counted.
Decide(h) ==
    LET r == request[h] IN
    /\ r.op = "status" /\ r.phase = "begun" /\ StatusLabelled
    /\ r.status = "disabled" /\ r.user \in ActiveAdministrators
           => Cardinality(ActiveAdministrators) > 1
    /\ request' = [request EXCEPT ![h].phase = "ready",
                                  ![h].holds = users[r.user].status # r.status]
    /\ UNCHANGED <<users, tokens, tab, cookie, now, asked, minted, accepted>>

(***************************************************************************)
(* Writes and commits.                                                     *)
(***************************************************************************)

\* A status update that has written holds the user's row, if it changes it,
\* and, when it disables the user, the tokens its UPDATE has revoked.
Writing(u) == {g \in Handlers : request[g].phase = "written" /\ request[g].user = u}
RowFree(u) == \A g \in Writing(u) : ~request[g].holds
TokenFree(t) ==
    \A g \in Writing(tokens[t].user) : request[g].status = "disabled" => t > request[g].token

\* The UPDATEs of update_user_status; token remembers what was there to revoke.
StatusWrite(h) ==
    LET r == request[h] IN
    /\ r.op = "status" /\ r.phase = "ready"
    /\ Writing(r.user) = {}
    /\ request' = [request EXCEPT ![h].phase = "written", ![h].token = Len(tokens)]
    /\ UNCHANGED <<users, tokens, tab, cookie, now, asked, minted, accepted>>

StatusCommit(h) ==
    LET r == request[h]
        Passed(g) == request[g].op \in Issuing /\ request[g].phase = "ready"
                     /\ request[g].user = r.user
    IN
    /\ r.phase = "written"
    /\ users' = IF r.holds THEN [users EXCEPT ![r.user].status = r.status] ELSE users
    /\ tokens' = [t \in DOMAIN tokens |->
                     IF r.status = "disabled" /\ t <= r.token /\ tokens[t].user = r.user
                     THEN [tokens[t] EXCEPT !.revoked = TRUE] ELSE tokens[t]]
    /\ request' = [g \in Handlers |->
                     IF g = h THEN [r EXCEPT !.phase = "answered"]
                     ELSE [request[g] EXCEPT !.late = @ \/ Passed(g)]]
    /\ UNCHANGED <<tab, cookie, now, asked, minted, accepted>>

\* issue_tokens, and the commit of a login, a verified code or a rotation
IssueCommit(h) ==
    LET r == request[h]
        family == IF r.op = "refresh" THEN tokens[r.token].family ELSE Len(tokens) + 1
        rotated == IF r.op = "refresh" THEN [tokens EXCEPT ![r.token].revoked = TRUE]
                                       ELSE tokens
    IN
    /\ r.op \in Issuing /\ r.phase = "ready"
    /\ IF r.op = "refresh" THEN TokenFree(r.token) ELSE RowFree(r.user)
    /\ tokens' = Append(rotated,
           [user |-> r.user, revoked |-> FALSE, family |-> family,
            late |-> r.late \/ Writing(r.user) # {}])
    /\ users' = IF r.op = "verify" THEN [users EXCEPT ![r.user].step = r.code.step] ELSE users
    /\ accepted' = IF r.op = "verify" THEN Append(accepted, [user |-> r.user, code |-> r.code])
                                      ELSE accepted
    /\ request' = [request EXCEPT ![h].phase = "answered", ![h].token = Len(tokens) + 1]
    /\ UNCHANGED <<tab, cookie, now, asked, minted>>

LogoutCommit(h) ==
    LET r == request[h] IN
    /\ r.op = "logout" /\ r.phase = "ready"
    /\ TokenFree(r.token)
    /\ tokens' = [tokens EXCEPT ![r.token].revoked = TRUE]
    /\ request' = [request EXCEPT ![h].phase = "answered"]
    /\ UNCHANGED <<users, tab, cookie, now, asked, minted, accepted>>

\* The commit writes the columns the handler has changed, and only those.
EnrolCommit(h) ==
    LET r == request[h]
        row == users[r.user]
    IN
    /\ r.op \in Enrolment /\ r.phase = "ready"
    /\ RowFree(r.user)
    /\ users' = [users EXCEPT ![r.user] =
           CASE r.op = "enroll"  -> [row EXCEPT !.secret = r.code.secret, !.step = 0]
             [] r.op = "confirm" -> [row EXCEPT !.enabled = TRUE, !.step = r.code.step]
             [] r.op = "disable" -> [row EXCEPT !.enabled = FALSE, !.secret = 0, !.step = 0]]
    /\ accepted' = IF r.op = "enroll" THEN accepted
                   ELSE Append(accepted, [user |-> r.user, code |-> r.code])
    /\ request' = [request EXCEPT ![h].phase = "answered"]
    /\ UNCHANGED <<tokens, tab, cookie, now, asked, minted>>

\* A guard raises, the connection or the process fails: rollback.
Fail(h) ==
    /\ request[h].phase \in {"begun", "live", "ready", "written"}
    /\ request' = [request EXCEPT ![h].phase = "refused"]
    /\ UNCHANGED <<users, tokens, tab, cookie, now, asked, minted, accepted>>

(***************************************************************************)
(* Answers reach the browser, or are lost.                                 *)
(***************************************************************************)

\* Mutant: the shared refresh is forgotten only when it succeeds.
SettledOnSuccess(r, arrives) ==
    LET t == r.tab
        good == arrives /\ r.phase = "answered"
        over == good /\ r.op = "refresh"
        fresh == good /\ r.op \in Issuing
    IN
    [tab EXCEPT
        ![t].promise = IF over THEN FALSE ELSE @,
        ![t].waiting = IF over THEN 0 ELSE @,
        ![t].access = IF r.op = "logout" THEN FALSE ELSE @ \/ fresh,
        ![t].challenge = IF arrives /\ r.phase = "challenged" THEN r.user
                         ELSE IF fresh THEN None ELSE @]

\* What the script does with the answer of a request of tab t.
Settled(r, arrives) ==
    LET t == r.tab
        good == arrives /\ r.phase = "answered"
        fresh == good /\ r.op \in Issuing
    IN
    [tab EXCEPT
        ![t].promise = IF r.op = "refresh" THEN FALSE ELSE @,
        ![t].waiting = IF r.op = "refresh" THEN 0 ELSE @,
        ![t].access = IF r.op = "logout" THEN FALSE ELSE @ \/ fresh,
        ![t].challenge = IF arrives /\ r.phase = "challenged" THEN r.user
                         ELSE IF fresh THEN None ELSE @]

Answer(h, arrives) ==
    LET r == request[h] IN
    /\ r.phase \in {"answered", "refused", "challenged"}
    /\ request' = [request EXCEPT ![h] = Idle]
    /\ tab' = IF r.tab = None THEN tab ELSE Settled(r, arrives)
    /\ cookie' = CASE ~arrives \/ r.phase # "answered" -> cookie
                   [] r.op \in Issuing -> r.token
                   [] r.op = "logout" -> 0
                   [] OTHER -> cookie
    /\ UNCHANGED <<users, tokens, now, asked, minted, accepted>>

Deliver(h) == Answer(h, TRUE)
Lose(h) == request[h].tab # None /\ Answer(h, FALSE)

Tick ==
    /\ now < MaxStep
    /\ now' = now + 1
    /\ UNCHANGED <<users, tokens, request, tab, cookie, asked, minted, accepted>>

\* what a handler does next, if nothing goes wrong
Advance(h) ==
    \/ ReadToken(h) \/ ReuseDetected(h) \/ ReadUser(h) \/ Decide(h)
    \/ StatusWrite(h) \/ StatusCommit(h)
    \/ IssueCommit(h) \/ LogoutCommit(h) \/ EnrolCommit(h)

Step(h) ==
    \/ Advance(h) \/ Fail(h) \/ Deliver(h) \/ Lose(h)

Arrive(h) ==
    \/ \E t \in Tabs : Refresh(h, t) \/ Logout(h, t)
    \/ \E t \in Tabs, u \in Users : Login(h, t, u)
    \/ \E t \in Tabs, c \in Code : Verify(h, t, c)
    \/ \E u \in Users, op \in Enrolment, c \in Code :
           (op = "enroll" => c = Idle.code) /\ Enrol(h, u, op, c)
    \/ \E a, u \in Users, st \in Requested : SetStatus(h, a, u, st)

Next ==
    \/ Tick
    \/ \E t \in Tabs : JoinRefresh(t)
    \/ \E h \in Handlers : Arrive(h) \/ Step(h)

Spec == Init /\ [][Next]_vars

\* A handler goes on or fails (its client has a timeout), and the browser learns of it.
Fairness == \A h \in Handlers : WF_vars(Step(h))
FairSpec == Spec /\ Fairness

(***************************************************************************)
(* Properties.                                                             *)
(***************************************************************************)

\* A login has one token that refreshes it, however refreshes, logouts, lost
\* answers and suspensions fall together: the refresh in flight is shared by
\* the calls of a tab, and a rotation revokes what it rotates
\* (api.ts tryRefresh, service.refresh_tokens).  It is the browser that sees to
\* it: with one tab, and answers lost once their handler has ended.  The
\* token's row is read without a lock.
FamilyLinear ==
    \A s, t \in DOMAIN tokens :
        Live(s) /\ Live(t) /\ tokens[s].family = tokens[t].family => s = t

\* What is live of a disabled user's tokens, the suspension could not see: it
\* was issued on a status read before the suspension had committed
\* (service.update_user_status).
SuspensionReaches ==
    \A t \in DOMAIN tokens :
        Live(t) /\ users[tokens[t].user].status = "disabled" => tokens[t].late

\* An administrator stays active, whoever may manage users (the count of
\* service.update_user_status), as long as one request at a time changes a
\* status and none asks for "invited", which the count does not look at.
AdministratorLeft ==
    "status" \in Alone /\ "invited" \notin Requested => ActiveAdministrators # {}

\* No code is accepted twice, none older than the last, across logins and
\* enrolments (service.verify_mfa_code_once), as long as one request at a time
\* verifies; and a second factor in force is one of which a code was accepted
\* or which was in force from the start.
CodesAdvance ==
    "mfa" \in Alone =>
        /\ \A i, j \in DOMAIN accepted :
               i < j /\ accepted[i].user = accepted[j].user
                     /\ accepted[i].code.secret = accepted[j].code.secret
                   => accepted[i].code.step < accepted[j].code.step
        /\ \A u \in Users :
               users[u].enabled => users[u].secret = 1
                   \/ \E i \in DOMAIN accepted : accepted[i].user = u
                                               /\ accepted[i].code.secret = users[u].secret

\* A refresh that finds its token already used leaves its user no session.
ReuseRevokes ==
    [][\A h \in Handlers :
          request[h].phase = "reused" /\ request'[h].phase # "reused"
              => \A t \in LiveOf(request[h].user) : tokens'[t].revoked]_vars

\* Calls that wait for a refresh are answered, whatever becomes of it.
CallersAnswered ==
    \A t \in Tabs : tab[t].waiting > 0 ~> tab[t].waiting = 0
===============================================================================
