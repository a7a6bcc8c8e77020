----------------------------- MODULE SessionsProofs -----------------------------
(***************************************************************************)
(* What TLAPS proves of Sessions, for any users, roles, handlers, tabs,    *)
(* requests and time steps.                                                *)
(***************************************************************************)
EXTENDS Sessions, SequenceTheorems, FiniteSetTheorems, TLAPS

(***************************************************************************)
(* Type correctness, with what a request carries at each step of its way.  *)
(***************************************************************************)
Phases == {"idle", "begun", "live", "reused", "ready", "written", "challenged",
           "answered", "refused"}

Request == [op : Operation \cup {"none"}, phase : Phases, user : Users \cup {None},
            tab : Tabs \cup {None}, token : Nat, code : Code, status : Status,
            holds : BOOLEAN, late : BOOLEAN]

TabState == [promise : BOOLEAN, waiting : 0..2, access : BOOLEAN,
             challenge : Users \cup {None}]

Formed(r, n) ==
    /\ r.op = "none" => r = Idle
    /\ r.phase = "idle" => r.op = "none"
    /\ r.phase = "begun" => r.op \in {"refresh", "status"}
    /\ r.phase \in {"live", "reused"} => r.op = "refresh"
    /\ r.phase = "written" => r.op = "status"
    /\ r.phase = "challenged" => r.op = "login"
    /\ r.op \in {"login", "verify", "status"} \cup Enrolment => r.user \in Users
    /\ r.op \in Issuing \cup {"logout"} => r.tab \in Tabs
    /\ r.op = "refresh" /\ r.phase \in {"live", "reused", "ready"} => r.user \in Users
    /\ r.op = "refresh" /\ r.phase \in {"begun", "live", "reused", "ready"}
           => r.token \in 1..n
    /\ r.op = "logout" /\ r.phase = "ready" => r.token \in 1..n
    /\ r.token \in 0..n

TypeInvariant ==
    /\ TypeOK
    /\ minted <= asked + 1
    /\ \A t \in Tabs : ~tab[t].promise => tab[t].waiting = 0
    /\ \A h \in Handlers : Formed(request[h], Len(tokens))

LEMMA RequestTyped ==
  ASSUME TypeOK, NEW h \in Handlers
  PROVE  request[h] \in Request
BY DEF TypeOK, Request, Phases

LEMMA IdleTyped ==
  Idle \in Request
BY SessionsAssumption DEF Idle, Request, Phases, Operation, Code, Status

LEMMA Vocabulary ==
  /\ Issuing \subseteq Operation /\ Enrolment \subseteq Operation
  /\ "login" \in Operation /\ "verify" \in Operation /\ "refresh" \in Operation
  /\ "logout" \in Operation /\ "status" \in Operation
  /\ "begun" \in Phases /\ "live" \in Phases /\ "reused" \in Phases /\ "ready" \in Phases
  /\ "written" \in Phases /\ "challenged" \in Phases /\ "answered" \in Phases
  /\ "refused" \in Phases
BY DEF Operation, Issuing, Enrolment, Phases

LEMMA Kinds ==
  /\ Kind("status") = "status"
  /\ \A op \in {"verify"} \cup Enrolment : Kind(op) = "mfa"
BY DEF Kind, Enrolment

LEMMA TokenTyped ==
  ASSUME TypeOK, NEW t \in 1..Len(tokens)
  PROVE  tokens[t] \in Token
BY ElementOfSeq DEF TypeOK

\* A handler that begins, goes on or fails, and writes nothing but its request.
LEMMA RequestStep ==
  ASSUME TypeInvariant, NEW h \in Handlers, NEW r \in Request, Formed(r, Len(tokens)),
         request' = [request EXCEPT ![h] = r],
         UNCHANGED <<users, tokens, cookie, now, accepted>>,
         tab' \in [Tabs -> TabState],
         \A t \in Tabs : ~tab'[t].promise => tab'[t].waiting = 0,
         asked' \in 0..MaxRequests, minted' \in 0..MaxRequests + 1,
         minted' <= asked' + 1
  PROVE  TypeInvariant'
<1>1. request' \in [Handlers -> Request]
  BY RequestTyped DEF TypeInvariant, TypeOK
<1>2. TypeOK'
  BY <1>1 DEF TypeInvariant, TypeOK, Request, Phases, TabState
<1>3. ASSUME NEW g \in Handlers
      PROVE  Formed(request[g], Len(tokens))'
  <2>1. CASE g = h
    <3>1. request'[g] = r
      BY <2>1 DEF TypeInvariant, TypeOK
    <3>2. QED
      BY <3>1 DEF Formed
  <2>2. CASE g # h
    <3>1. request'[g] = request[g]
      BY <2>2 DEF TypeInvariant, TypeOK
    <3>2. Formed(request[g], Len(tokens))
      BY DEF TypeInvariant
    <3>3. QED
      BY <3>1, <3>2 DEF Formed
  <2>3. QED
    BY <2>1, <2>2
<1>4. QED
  BY <1>2, <1>3 DEF TypeInvariant
LEMMA Beginning ==
  ASSUME TypeInvariant, NEW h \in Handlers, NEW r \in Request, Formed(r, Len(tokens)),
         Begin(h, r), UNCHANGED <<users, tokens, cookie, now, accepted>>,
         tab' \in [Tabs -> TabState],
         \A t \in Tabs : ~tab'[t].promise => tab'[t].waiting = 0,
         minted' = minted \/ minted' = minted + 1
  PROVE  TypeInvariant'
<1>1. /\ request' = [request EXCEPT ![h] = r]
      /\ asked' = asked + 1 /\ asked < MaxRequests
  BY DEF Begin, Free
<1>2. /\ minted' <= asked' + 1 /\ minted' \in 0..MaxRequests + 1
      /\ asked' \in 0..MaxRequests
  BY <1>1, SessionsAssumption DEF TypeInvariant, TypeOK
<1>3. QED
  BY <1>1, <1>2, RequestStep

LEMMA TabsTyped ==
  ASSUME TypeInvariant
  PROVE  /\ tab \in [Tabs -> TabState]
         /\ \A t \in Tabs : ~tab[t].promise => tab[t].waiting = 0
BY DEF TypeInvariant, TypeOK, TabState

LEMMA ArriveTyped ==
  ASSUME TypeInvariant, NEW h \in Handlers, Arrive(h)
  PROVE  TypeInvariant'
<1>0. TypeOK
  BY DEF TypeInvariant
<1>1. CASE \E t \in Tabs : Refresh(h, t)
  <2>1. PICK t \in Tabs : Refresh(h, t)
    BY <1>1
  <2> DEFINE r == [Idle EXCEPT !.op = "refresh", !.tab = t, !.token = cookie,
                       !.phase = IF cookie = 0 THEN "refused" ELSE "begun"]
  <2>2. cookie \in 0..Len(tokens) /\ cookie \in Nat /\ Len(tokens) \in Nat
    BY <1>0 DEF TypeOK
  <2>3. r \in Request
    BY <2>2, IdleTyped, Vocabulary DEF Request
  <2>4. Formed(r, Len(tokens))
    BY <2>2 DEF Formed, Idle, Issuing, Enrolment
  <2>5. /\ tab' \in [Tabs -> TabState]
        /\ \A s \in Tabs : ~tab'[s].promise => tab'[s].waiting = 0
    BY <2>1, TabsTyped DEF Refresh, TabState
  <2>6. QED
    BY <2>1, <2>3, <2>4, <2>5, Beginning DEF Refresh
<1>2. CASE \E t \in Tabs : Logout(h, t)
  <2>1. PICK t \in Tabs : Logout(h, t)
    BY <1>2
  <2> DEFINE r == [Idle EXCEPT !.op = "logout", !.tab = t, !.token = cookie,
                       !.phase = IF cookie # 0 /\ Live(cookie) THEN "ready" ELSE "answered"]
  <2>2. cookie \in 0..Len(tokens) /\ cookie \in Nat /\ Len(tokens) \in Nat
    BY <1>0 DEF TypeOK
  <2>3. r \in Request
    BY <2>2, IdleTyped, Vocabulary DEF Request
  <2>4. Formed(r, Len(tokens))
    BY <2>2 DEF Formed, Idle, Issuing, Enrolment
  <2>5. QED
    BY <2>1, <2>3, <2>4, TabsTyped, Beginning DEF Logout
<1>3. CASE \E t \in Tabs, u \in Users : Login(h, t, u)
  <2>1. PICK t \in Tabs, u \in Users : Login(h, t, u)
    BY <1>3
  <2> DEFINE r == [Idle EXCEPT !.op = "login", !.user = u, !.tab = t,
                       !.phase = IF users[u].enabled THEN "challenged" ELSE "ready"]
  <2>2. Len(tokens) \in Nat
    BY <1>0 DEF TypeOK
  <2>3. r \in Request
    BY <2>2, IdleTyped, Vocabulary DEF Request
  <2>4. Formed(r, Len(tokens))
    BY <2>2 DEF Formed, Idle, Issuing, Enrolment
  <2>5. QED
    BY <2>1, <2>3, <2>4, TabsTyped, Beginning DEF Login
<1>4. CASE \E t \in Tabs, c \in Code : Verify(h, t, c)
  <2>1. PICK t \in Tabs, c \in Code : Verify(h, t, c)
    BY <1>4
  <2> DEFINE u == tab[t].challenge
             r == [Idle EXCEPT !.op = "verify", !.user = u, !.tab = t, !.code = c,
                       !.phase = "ready"]
  <2>2. u \in Users /\ Len(tokens) \in Nat
    BY <1>0, <2>1 DEF TypeOK, Verify
  <2> HIDE DEF u
  <2>3. r \in Request
    BY <2>2, IdleTyped, Vocabulary DEF Request
  <2>4. Formed(r, Len(tokens))
    BY <2>2 DEF Formed, Idle, Issuing, Enrolment
  <2>5. QED
    BY <2>1, <2>3, <2>4, TabsTyped, Beginning DEF Verify, u
<1>5. CASE \E u \in Users, op \in Enrolment, c \in Code :
               (op = "enroll" => c = Idle.code) /\ Enrol(h, u, op, c)
  <2>1. PICK u \in Users, op \in Enrolment, c \in Code :
               (op = "enroll" => c = Idle.code) /\ Enrol(h, u, op, c)
    BY <1>5
  <2> DEFINE k == IF op = "enroll" THEN [secret |-> minted + 1, step |-> 0] ELSE c
             r == [Idle EXCEPT !.op = op, !.user = u, !.phase = "ready", !.code = k]
  <2>2. Len(tokens) \in Nat
    BY <1>0 DEF TypeOK
  <2>3. k \in Code
    BY <2>1, SessionsAssumption DEF Code, TypeInvariant, TypeOK, Enrol, Begin, Free
  <2> HIDE DEF k
  <2>4. r \in Request
    BY <2>3, IdleTyped, Vocabulary DEF Request
  <2>5. Formed(r, Len(tokens))
    BY <2>2 DEF Formed, Idle, Issuing, Enrolment
  <2>6. QED
    BY <2>1, <2>4, <2>5, TabsTyped, Beginning DEF Enrol, k
<1>6. CASE \E a, u \in Users, st \in Requested : SetStatus(h, a, u, st)
  <2>1. PICK a \in Users, u \in Users, st \in Requested : SetStatus(h, a, u, st)
    BY <1>6
  <2> DEFINE r == [Idle EXCEPT !.op = "status", !.user = u, !.status = st, !.phase = "begun"]
  <2>2. Len(tokens) \in Nat /\ st \in Status
    BY <1>0, SessionsAssumption DEF TypeOK, Status
  <2>3. r \in Request
    BY <2>2, IdleTyped, Vocabulary DEF Request
  <2>4. Formed(r, Len(tokens))
    BY <2>2 DEF Formed, Idle, Issuing, Enrolment
  <2>5. QED
    BY <2>1, <2>3, <2>4, TabsTyped, Beginning DEF SetStatus
<1>7. QED
  BY <1>1, <1>2, <1>3, <1>4, <1>5, <1>6 DEF Arrive

LEMMA ProgressTyped ==
  ASSUME TypeInvariant, NEW h \in Handlers,
         \/ ReadToken(h) \/ ReuseDetected(h) \/ ReadUser(h) \/ Decide(h)
         \/ StatusWrite(h) \/ Fail(h)
  PROVE  TypeInvariant'
<1>1. TypeOK /\ Formed(request[h], Len(tokens)) /\ request[h] \in Request /\ Len(tokens) \in Nat
  BY RequestTyped DEF TypeInvariant, TypeOK
<1>2. /\ asked \in 0..MaxRequests /\ minted \in 0..MaxRequests + 1 /\ minted <= asked + 1
  BY DEF TypeInvariant, TypeOK
<1>3. ASSUME NEW r \in Request, Formed(r, Len(tokens)), request' = [request EXCEPT ![h] = r],
             UNCHANGED <<users, tokens, tab, cookie, now, asked, minted, accepted>>
      PROVE  TypeInvariant'
  BY <1>2, <1>3, TabsTyped, RequestStep
<1>4. CASE ReadToken(h)
  <2> DEFINE u == tokens[request[h].token].user
             r == [request[h] EXCEPT !.user = u,
                      !.phase = IF Live(request[h].token) THEN "live" ELSE "reused"]
  <2>1. u \in Users
    BY <1>1, <1>4, TokenTyped DEF ReadToken, Formed, Token
  <2> HIDE DEF u
  <2>2. r \in Request
    BY <1>1, <2>1, Vocabulary DEF Request
  <2>3. Formed(r, Len(tokens))
    BY <1>1, <1>4, <2>1 DEF ReadToken, Formed, Issuing, Enrolment, Request
  <2>4. request' = [request EXCEPT ![h] = r]
    BY <1>4 DEF ReadToken, u
  <2>5. QED
    BY <1>3, <1>4, <2>2, <2>3, <2>4 DEF ReadToken
<1>5. CASE ReuseDetected(h) \/ Fail(h)
  <2> DEFINE r == [request[h] EXCEPT !.phase = "refused"]
  <2>1. r \in Request
    BY <1>1, Vocabulary DEF Request
  <2>2. Formed(r, Len(tokens))
    BY <1>1, <1>5 DEF ReuseDetected, Fail, Formed, Request, Idle
  <2>3. QED
    BY <1>3, <1>5, <2>1, <2>2 DEF ReuseDetected, Fail
<1>6. CASE ReadUser(h)
  <2> DEFINE r == [request[h] EXCEPT !.phase = "ready"]
  <2>1. r \in Request
    BY <1>1, Vocabulary DEF Request
  <2>2. Formed(r, Len(tokens))
    BY <1>1, <1>6 DEF ReadUser, Formed, Request, Idle
  <2>3. QED
    BY <1>3, <1>6, <2>1, <2>2 DEF ReadUser
<1>7. CASE Decide(h)
  <2> DEFINE held == users[request[h].user].status # request[h].status
             r == [request[h] EXCEPT !.phase = "ready", !.holds = held]
  <2>1. held \in BOOLEAN
    OBVIOUS
  <2> HIDE DEF held
  <2>2. r \in Request
    BY <1>1, <2>1, Vocabulary DEF Request
  <2>3. Formed(r, Len(tokens))
    BY <1>1, <1>7 DEF Decide, Formed, Request, Idle
  <2>4. request' = [request EXCEPT ![h] = r]
    BY <1>7 DEF Decide, held
  <2>5. QED
    BY <1>3, <1>7, <2>2, <2>3, <2>4 DEF Decide
<1>8. CASE StatusWrite(h)
  <2> DEFINE r == [request[h] EXCEPT !.phase = "written", !.token = Len(tokens)]
  <2>1. r \in Request
    BY <1>1, Vocabulary DEF Request
  <2>2. Formed(r, Len(tokens))
    BY <1>1, <1>8 DEF StatusWrite, Formed, Request, Idle, Issuing
  <2>3. QED
    BY <1>3, <1>8, <2>1, <2>2 DEF StatusWrite
<1>9. QED
  BY <1>4, <1>5, <1>6, <1>7, <1>8

LEMMA MoreTokens ==
  ASSUME NEW n \in Nat, NEW m \in Nat, n <= m, NEW r \in Request, Formed(r, n)
  PROVE  Formed(r, m)
BY DEF Formed

\* A commit: one request is answered, and no token row is ever removed.
LEMMA CommitStep ==
  ASSUME TypeInvariant, NEW h \in Handlers, NEW r \in Request,
         request' = [request EXCEPT ![h] = r], Formed(r, Len(tokens')),
         users' \in [Users -> User],
         tokens' \in Seq(Token), Len(tokens') >= Len(tokens),
         accepted' \in Seq([user : Users, code : Code]),
         UNCHANGED <<tab, cookie, now, asked, minted>>
  PROVE  TypeInvariant'
<1>1. request' \in [Handlers -> Request]
  BY RequestTyped DEF TypeInvariant, TypeOK
<1>2. Len(tokens) \in Nat /\ Len(tokens') \in Nat
  BY DEF TypeInvariant, TypeOK
<1>3. TypeOK'
  BY <1>1, <1>2 DEF TypeInvariant, TypeOK, Request, Phases, TabState
<1>4. ASSUME NEW g \in Handlers
      PROVE  Formed(request'[g], Len(tokens'))
  <2>1. CASE g = h
    BY <2>1 DEF TypeInvariant, TypeOK
  <2>2. CASE g # h
    <3>1. request'[g] = request[g]
      BY <2>2 DEF TypeInvariant, TypeOK
    <3>2. QED
      BY <1>2, <3>1, MoreTokens, RequestTyped DEF TypeInvariant
  <2>3. QED
    BY <2>1, <2>2
<1>5. QED
  BY <1>3, <1>4 DEF TypeInvariant

LEMMA IssueTyped ==
  ASSUME TypeInvariant, NEW h \in Handlers, IssueCommit(h)
  PROVE  TypeInvariant'
<1> DEFINE r == request[h]
           next == [r EXCEPT !.phase = "answered", !.token = Len(tokens) + 1]
           family == IF r.op = "refresh" THEN tokens[r.token].family ELSE Len(tokens) + 1
           rotated == IF r.op = "refresh" THEN [tokens EXCEPT ![r.token].revoked = TRUE]
                                          ELSE tokens
           issued == [user |-> r.user, revoked |-> FALSE, family |-> family,
                      late |-> r.late \/ Writing(r.user) # {}]
<1>1. TypeOK /\ Formed(r, Len(tokens)) /\ r \in Request /\ Len(tokens) \in Nat
  BY RequestTyped DEF TypeInvariant, TypeOK
<1>2. r.op \in Issuing /\ r.phase = "ready" /\ r.user \in Users
  BY <1>1 DEF IssueCommit, Formed, Issuing
<1>3. r.op = "refresh" => r.token \in 1..Len(tokens) /\ tokens[r.token] \in Token
  BY <1>1, <1>2, TokenTyped DEF Formed
<1>4. family \in Nat
  BY <1>1, <1>3 DEF Token
<1>5. (r.late \/ Writing(r.user) # {}) \in BOOLEAN
  OBVIOUS
<1>6. issued \in Token
  BY <1>2, <1>4, <1>5 DEF Token
<1>7. rotated \in Seq(Token) /\ Len(rotated) = Len(tokens)
  <2>1. CASE r.op = "refresh"
    <3> DEFINE used == [tokens[r.token] EXCEPT !.revoked = TRUE]
    <3>1. used \in Token
      BY <1>3, <2>1 DEF Token
    <3>2. rotated = [tokens EXCEPT ![r.token] = used]
      BY <2>1
    <3>3. QED
      BY <1>1, <1>3, <2>1, <3>1, <3>2, ExceptSeq DEF TypeOK
  <2>2. CASE r.op # "refresh"
    BY <1>1, <2>2 DEF TypeOK
  <2>3. QED
    BY <2>1, <2>2
<1>8. tokens' = Append(rotated, issued)
  BY DEF IssueCommit
<1> HIDE DEF rotated, issued
<1>9. tokens' \in Seq(Token) /\ Len(tokens') = Len(tokens) + 1
  BY <1>6, <1>7, <1>8, AppendProperties
<1>10. users' \in [Users -> User]
  <2> DEFINE row == [users[r.user] EXCEPT !.step = r.code.step]
  <2>1. r.code.step \in 0..MaxStep + 1
    BY <1>1 DEF Request, Code
  <2>2. users[r.user] \in User
    BY <1>1, <1>2 DEF TypeOK
  <2>3. row \in User
    BY <2>1, <2>2 DEF User
  <2>4. users' = users \/ users' = [users EXCEPT ![r.user] = row]
    BY DEF IssueCommit
  <2> HIDE DEF row
  <2>5. QED
    BY <1>1, <1>2, <2>3, <2>4 DEF TypeOK
<1>11. accepted' \in Seq([user : Users, code : Code])
  <2>1. [user |-> r.user, code |-> r.code] \in [user : Users, code : Code]
    BY <1>1, <1>2 DEF Request
  <2>2. QED
    BY <1>1, <2>1, AppendProperties DEF IssueCommit, TypeOK
<1>12. next \in Request
  <2>1. Len(tokens) + 1 \in Nat
    BY <1>1
  <2>2. QED
    BY <1>1, <2>1, Vocabulary DEF Request
<1>13. Formed(next, Len(tokens) + 1)
  BY <1>1, <1>2 DEF Formed, Request, Idle, Issuing
<1>14. request' = [request EXCEPT ![h] = next]
  BY DEF IssueCommit
<1>15. Formed(next, Len(tokens')) /\ Len(tokens') >= Len(tokens)
  BY <1>1, <1>9, <1>13
<1>16. UNCHANGED <<tab, cookie, now, asked, minted>>
  BY DEF IssueCommit
<1> HIDE DEF next
<1>17. QED
  BY <1>9, <1>10, <1>11, <1>12, <1>14, <1>15, <1>16, CommitStep

LEMMA LogoutTyped ==
  ASSUME TypeInvariant, NEW h \in Handlers, LogoutCommit(h)
  PROVE  TypeInvariant'
<1> DEFINE r == request[h]
           next == [r EXCEPT !.phase = "answered"]
           used == [tokens[r.token] EXCEPT !.revoked = TRUE]
<1>1. TypeOK /\ Formed(r, Len(tokens)) /\ r \in Request /\ Len(tokens) \in Nat
  BY RequestTyped DEF TypeInvariant, TypeOK
<1>2. r.token \in 1..Len(tokens) /\ tokens[r.token] \in Token
  BY <1>1, TokenTyped DEF LogoutCommit, Formed
<1>3. used \in Token
  BY <1>2 DEF Token
<1>4. tokens' = [tokens EXCEPT ![r.token] = used]
  BY DEF LogoutCommit
<1>5. tokens' \in Seq(Token) /\ Len(tokens') = Len(tokens)
  BY <1>1, <1>2, <1>3, <1>4, ExceptSeq DEF TypeOK
<1>6. next \in Request
  BY <1>1, Vocabulary DEF Request
<1>7. Formed(next, Len(tokens'))
  BY <1>1, <1>5 DEF LogoutCommit, Formed, Request, Idle
<1>8. /\ users' \in [Users -> User] /\ accepted' \in Seq([user : Users, code : Code])
      /\ request' = [request EXCEPT ![h] = next]
      /\ UNCHANGED <<tab, cookie, now, asked, minted>>
      /\ Len(tokens') >= Len(tokens)
  BY <1>1, <1>5 DEF LogoutCommit, TypeOK
<1> HIDE DEF next
<1>9. QED
  BY <1>5, <1>6, <1>7, <1>8, CommitStep

LEMMA EnrolTyped ==
  ASSUME TypeInvariant, NEW h \in Handlers, EnrolCommit(h)
  PROVE  TypeInvariant'
<1> DEFINE r == request[h]
           next == [r EXCEPT !.phase = "answered"]
           row == users[r.user]
           written ==
             CASE r.op = "enroll"  -> [row EXCEPT !.secret = r.code.secret, !.step = 0]
               [] r.op = "confirm" -> [row EXCEPT !.enabled = TRUE, !.step = r.code.step]
               [] r.op = "disable" -> [row EXCEPT !.enabled = FALSE, !.secret = 0, !.step = 0]
<1>1. TypeOK /\ Formed(r, Len(tokens)) /\ r \in Request /\ Len(tokens) \in Nat
  BY RequestTyped DEF TypeInvariant, TypeOK
<1>2. r.user \in Users /\ r.code \in Code
  BY <1>1 DEF EnrolCommit, Formed, Request
<1>3. row \in User
  BY <1>1, <1>2 DEF TypeOK
<1>4. written \in User
  <2>1. /\ r.code.secret \in 0..MaxRequests + 1 /\ r.code.step \in 0..MaxStep + 1
        /\ 0 \in 0..MaxRequests + 1 /\ 0 \in 0..MaxStep + 1
    BY <1>2, SessionsAssumption DEF Code
  <2>2. /\ [row EXCEPT !.secret = r.code.secret, !.step = 0] \in User
        /\ [row EXCEPT !.enabled = TRUE, !.step = r.code.step] \in User
        /\ [row EXCEPT !.enabled = FALSE, !.secret = 0, !.step = 0] \in User
    BY <1>3, <2>1 DEF User
  <2>3. r.op \in {"enroll", "confirm", "disable"}
    BY DEF EnrolCommit, Enrolment
  <2>4. QED
    BY <2>2, <2>3
<1>5. users' = [users EXCEPT ![r.user] = written]
  BY DEF EnrolCommit
<1> HIDE DEF written
<1>6. users' \in [Users -> User]
  BY <1>1, <1>4, <1>5 DEF TypeOK
<1>7. accepted' \in Seq([user : Users, code : Code])
  BY <1>1, <1>2, AppendProperties DEF EnrolCommit, TypeOK
<1>8. next \in Request
  BY <1>1, Vocabulary DEF Request
<1>9. Formed(next, Len(tokens))
  BY <1>1 DEF EnrolCommit, Formed, Request, Idle, Enrolment
<1>10. /\ tokens' = tokens /\ Len(tokens') >= Len(tokens)
       /\ tokens' \in Seq(Token)
       /\ request' = [request EXCEPT ![h] = next]
       /\ UNCHANGED <<tab, cookie, now, asked, minted>>
  BY <1>1 DEF EnrolCommit, TypeOK
<1> HIDE DEF next
<1>11. QED
  BY <1>6, <1>7, <1>8, <1>9, <1>10, CommitStep

\* What a suspension writes of the tokens.
Revoked(r, t) ==
    IF r.status = "disabled" /\ t <= r.token /\ tokens[t].user = r.user
    THEN [tokens[t] EXCEPT !.revoked = TRUE] ELSE tokens[t]

LEMMA StatusCommitTokens ==
  ASSUME TypeInvariant, NEW h \in Handlers, StatusCommit(h)
  PROVE  /\ tokens' \in Seq(Token) /\ Len(tokens') = Len(tokens)
         /\ \A t \in 1..Len(tokens) : tokens'[t] = Revoked(request[h], t)
<1>1. Len(tokens) \in Nat /\ DOMAIN tokens = 1..Len(tokens)
  BY DEF TypeInvariant, TypeOK
<1>2. \A t \in 1..Len(tokens) : Revoked(request[h], t) \in Token
  BY TokenTyped DEF TypeInvariant, Revoked, Token
<1>3. tokens' = [t \in 1..Len(tokens) |-> Revoked(request[h], t)]
  BY <1>1 DEF StatusCommit, Revoked
<1> DEFINE rows == [t \in 1..Len(tokens) |-> Revoked(request[h], t)]
<1>4. rows \in [1..Len(tokens) -> Token]
  BY <1>2
<1>5. rows \in Seq(Token)
  BY <1>1, <1>4, SeqDef
<1>6. QED
  BY <1>1, <1>3, <1>4, <1>5, LenProperties

LEMMA StatusCommitRequests ==
  ASSUME TypeInvariant, NEW h \in Handlers, StatusCommit(h)
  PROVE  \E late \in [Handlers -> BOOLEAN] :
           /\ request' = [g \in Handlers |->
                            IF g = h THEN [request[h] EXCEPT !.phase = "answered"]
                                     ELSE [request[g] EXCEPT !.late = late[g]]]
           /\ \A g \in Handlers :
                /\ request[g].late => late[g]
                /\ request[g].op = "none" => late[g] = request[g].late
                /\ request[g].op \in Issuing /\ request[g].phase = "ready"
                   /\ request[g].user = request[h].user => late[g]
<1> DEFINE mark == [g \in Handlers |->
                      \/ request[g].late
                      \/ /\ request[g].op \in Issuing /\ request[g].phase = "ready"
                         /\ request[g].user = request[h].user]
<1>1. \A g \in Handlers : request[g].late \in BOOLEAN
  BY RequestTyped DEF TypeInvariant, Request
<1>2. mark \in [Handlers -> BOOLEAN]
  BY <1>1
<1>3. request' = [g \in Handlers |->
                    IF g = h THEN [request[h] EXCEPT !.phase = "answered"]
                             ELSE [request[g] EXCEPT !.late = mark[g]]]
  BY <1>1 DEF StatusCommit
<1>4. \A g \in Handlers :
        /\ request[g].late => mark[g]
        /\ request[g].op = "none" => mark[g] = request[g].late
        /\ request[g].op \in Issuing /\ request[g].phase = "ready"
           /\ request[g].user = request[h].user => mark[g]
  BY <1>1 DEF Issuing
<1> HIDE DEF mark
<1>5. QED
  BY <1>2, <1>3, <1>4

LEMMA StatusTyped ==
  ASSUME TypeInvariant, NEW h \in Handlers, StatusCommit(h)
  PROVE  TypeInvariant'
<1> DEFINE r == request[h]
           row == [users[r.user] EXCEPT !.status = r.status]
<1>1. TypeOK /\ Formed(r, Len(tokens)) /\ r \in Request /\ Len(tokens) \in Nat
  BY RequestTyped DEF TypeInvariant, TypeOK
<1>2. r.user \in Users /\ r.op = "status" /\ r.phase = "written"
  BY <1>1 DEF StatusCommit, Formed
<1>3. users' \in [Users -> User]
  <2>1. users[r.user] \in User /\ r.status \in Status
    BY <1>1, <1>2 DEF TypeOK, Request
  <2>2. row \in User
    BY <2>1 DEF User
  <2>3. users' = users \/ users' = [users EXCEPT ![r.user] = row]
    BY DEF StatusCommit
  <2> HIDE DEF row
  <2>4. QED
    BY <1>1, <1>2, <2>2, <2>3 DEF TypeOK
<1>4. tokens' \in Seq(Token) /\ Len(tokens') = Len(tokens)
  BY StatusCommitTokens
<1>5. PICK late \in [Handlers -> BOOLEAN] :
        /\ request' = [g \in Handlers |->
                         IF g = h THEN [r EXCEPT !.phase = "answered"]
                                  ELSE [request[g] EXCEPT !.late = late[g]]]
        /\ \A g \in Handlers : request[g].op = "none" => late[g] = request[g].late
  BY StatusCommitRequests
<1>6. ASSUME NEW g \in Handlers
      PROVE  request'[g] \in Request /\ Formed(request'[g], Len(tokens))
  <2>1. CASE g = h
    <3>1. request'[g] = [r EXCEPT !.phase = "answered"]
      BY <1>5, <2>1
    <3>2. [r EXCEPT !.phase = "answered"] \in Request
      BY <1>1, Vocabulary DEF Request
    <3>3. Formed([r EXCEPT !.phase = "answered"], Len(tokens))
      BY <1>1, <1>2 DEF Formed, Request
    <3>4. QED
      BY <3>1, <3>2, <3>3
  <2>2. CASE g # h
    <3> DEFINE q == request[g]
               next == [q EXCEPT !.late = late[g]]
    <3>1. q \in Request /\ Formed(q, Len(tokens)) /\ late[g] \in BOOLEAN
      BY <1>5, RequestTyped DEF TypeInvariant
    <3>2. request'[g] = next
      BY <1>5, <2>2
    <3>3. next \in Request
      BY <3>1 DEF Request
    <3>4. q.op = "none" => next = q
      BY <1>5, <3>1 DEF Request
    <3>5. Formed(next, Len(tokens))
      BY <3>1, <3>4 DEF Formed, Request
    <3>6. QED
      BY <3>2, <3>3, <3>5
  <2>3. QED
    BY <2>1, <2>2
<1>7. request' \in [Handlers -> Request]
  BY <1>5, <1>6
<1>8. TypeOK'
  BY <1>1, <1>3, <1>4, <1>7 DEF StatusCommit, TypeOK, Request, Phases
<1>9. QED
  BY <1>4, <1>6, <1>8 DEF StatusCommit, TypeInvariant

LEMMA AnswerTyped ==
  ASSUME TypeInvariant, NEW h \in Handlers, Deliver(h) \/ Lose(h)
  PROVE  TypeInvariant'
<1> DEFINE r == request[h]
<1>1. TypeOK /\ Formed(r, Len(tokens)) /\ r \in Request /\ Len(tokens) \in Nat
  BY RequestTyped DEF TypeInvariant, TypeOK
<1>2. PICK arrives \in BOOLEAN : Answer(h, arrives)
  BY DEF Deliver, Lose
<1>3. cookie' \in 0..Len(tokens)
  BY <1>1, <1>2 DEF Answer, Formed, TypeOK, Request
<1>4. /\ tab' \in [Tabs -> TabState]
      /\ \A t \in Tabs : ~tab'[t].promise => tab'[t].waiting = 0
  <2>1. CASE r.tab = None
    BY <1>2, <2>1, TabsTyped DEF Answer
  <2>2. CASE r.tab # None
    <3>1. r.tab \in Tabs /\ r.user \in Users \cup {None}
      BY <1>1, <2>2 DEF Request
    <3>2. tab' = Settled(r, arrives)
      BY <1>2, <2>2 DEF Answer
    <3> DEFINE was == tab[r.tab]
               over == r.op = "refresh"
               fresh == arrives /\ r.phase = "answered" /\ r.op \in Issuing
               promise == IF over THEN FALSE ELSE was.promise
               waiting == IF over THEN 0 ELSE was.waiting
               access == IF r.op = "logout" THEN FALSE ELSE was.access \/ fresh
               challenge == IF arrives /\ r.phase = "challenged" THEN r.user
                            ELSE IF fresh THEN None ELSE was.challenge
               now1 == [was EXCEPT !.promise = promise, !.waiting = waiting,
                                   !.access = access, !.challenge = challenge]
    <3>3. was \in TabState /\ (~was.promise => was.waiting = 0)
      BY <3>1, TabsTyped
    <3>4. /\ promise \in BOOLEAN /\ waiting \in 0..2 /\ access \in BOOLEAN
          /\ challenge \in Users \cup {None} /\ (~promise => waiting = 0)
      <4>1. /\ was.promise \in BOOLEAN /\ was.waiting \in 0..2 /\ was.access \in BOOLEAN
            /\ was.challenge \in Users \cup {None}
        BY <3>3 DEF TabState
      <4>2. fresh \in BOOLEAN
        BY DEF Issuing
      <4> HIDE DEF fresh
      <4>3. access \in BOOLEAN
        BY <4>1, <4>2
      <4>4. promise \in BOOLEAN /\ waiting \in 0..2 /\ (~promise => waiting = 0)
        <5>1. CASE over
          BY <5>1
        <5>2. CASE ~over
          BY <3>3, <4>1, <5>2
        <5>3. QED
          BY <5>1, <5>2
      <4>5. challenge \in Users \cup {None}
        BY <3>1, <4>1
      <4>6. QED
        BY <4>3, <4>4, <4>5
    <3>5. tab' = [tab EXCEPT ![r.tab] = now1]
      BY <3>2 DEF Settled
    <3> HIDE DEF promise, waiting, access, challenge
    <3>6. now1 \in TabState /\ (~now1.promise => now1.waiting = 0)
      BY <3>3, <3>4 DEF TabState
    <3> HIDE DEF now1
    <3>7. QED
      BY <3>1, <3>5, <3>6, TabsTyped
  <2>3. QED
    BY <2>1, <2>2
<1>5. Formed(Idle, Len(tokens))
  BY <1>1 DEF Formed, Idle, Issuing, Enrolment
<1>6. request' = [request EXCEPT ![h] = Idle]
  BY <1>2 DEF Answer
<1>7. request' \in [Handlers -> Request]
  BY <1>6, IdleTyped, RequestTyped DEF TypeInvariant, TypeOK
<1>8. TypeOK'
  BY <1>1, <1>2, <1>3, <1>4, <1>7 DEF Answer, TypeOK, Request, Phases, TabState
<1>9. \A g \in Handlers : Formed(request'[g], Len(tokens'))
  BY <1>2, <1>5, <1>6 DEF Answer, TypeInvariant, TypeOK
<1>10. QED
  BY <1>2, <1>4, <1>8, <1>9 DEF Answer, TypeInvariant

LEMMA TypeInit ==
  Init => TypeInvariant
<1> SUFFICES ASSUME Init
             PROVE  TypeInvariant
  OBVIOUS
<1>1. PICK enrolled \in SUBSET Users :
        users = [u \in Users |->
                   [status |-> "active", secret |-> IF u \in enrolled THEN 1 ELSE 0,
                    enabled |-> u \in enrolled, step |-> 0]]
  BY DEF Init
<1>2. users \in [Users -> User]
  BY <1>1, SessionsAssumption DEF User, Status
<1>3. request \in [Handlers -> Request] /\ \A h \in Handlers : request[h] = Idle
  BY IdleTyped DEF Init
<1>4. tokens \in Seq(Token) /\ Len(tokens) = 0 /\ accepted \in Seq([user : Users, code : Code])
  BY DEF Init
<1>5. Formed(Idle, 0)
  BY DEF Formed, Idle, Issuing, Enrolment
<1>6. TypeOK
  BY <1>2, <1>3, <1>4, SessionsAssumption DEF Init, TypeOK, Request, Phases
<1>7. QED
  BY <1>3, <1>4, <1>5, <1>6, SessionsAssumption DEF Init, TypeInvariant

LEMMA TypeStep ==
  TypeInvariant /\ [Next]_vars => TypeInvariant'
<1> SUFFICES ASSUME TypeInvariant, [Next]_vars
             PROVE  TypeInvariant'
  OBVIOUS
<1>1. CASE Tick
  BY <1>1, SessionsAssumption DEF Tick, TypeInvariant, TypeOK
<1>2. CASE \E t \in Tabs : JoinRefresh(t)
  <2>1. PICK t \in Tabs : JoinRefresh(t)
    BY <1>2
  <2>2. /\ tab' \in [Tabs -> TabState]
        /\ \A s \in Tabs : ~tab'[s].promise => tab'[s].waiting = 0
    BY <2>1, TabsTyped DEF JoinRefresh, TabState
  <2>3. QED
    BY <2>1, <2>2 DEF JoinRefresh, TypeInvariant, TypeOK, TabState
<1>3. CASE \E h \in Handlers : Arrive(h)
  BY <1>3, ArriveTyped
<1>4. CASE \E h \in Handlers : Step(h)
  BY <1>4, ProgressTyped, StatusTyped, IssueTyped, LogoutTyped, EnrolTyped, AnswerTyped
  DEF Step, Advance
<1>5. CASE UNCHANGED vars
  BY <1>5 DEF vars, TypeInvariant, TypeOK, Formed
<1>6. QED
  BY <1>1, <1>2, <1>3, <1>4, <1>5 DEF Next

\* Every reachable state is well-typed, and every request carries what its step
\* needs: a rotation its token row and user, a logout its token, an answer to a
\* tab the tab it goes to (identity/service.py, frontend api.ts).
THEOREM SessionsTypeCorrect == Spec => []TypeInvariant
<1>1. Init => TypeInvariant
  BY TypeInit
<1>2. TypeInvariant /\ [Next]_vars => TypeInvariant'
  BY TypeStep
<1>3. QED
  BY <1>1, <1>2, PTL DEF Spec

(***************************************************************************)
(* What an arriving request is: the guards its handler has checked.        *)
(***************************************************************************)
Arrived(r) ==
    /\ r.op \in Operation /\ ~r.late
    /\ r.phase \in {"begun", "ready", "challenged", "answered", "refused"}
    /\ r.op = "refresh" =>
           /\ r.phase \in {"begun", "refused"} /\ ~tab[r.tab].promise
           /\ tab' = [tab EXCEPT ![r.tab].waiting = @ + 1, ![r.tab].promise = TRUE]
    /\ r.op # "refresh" => tab' = tab
    /\ r.op \in Issuing /\ r.phase = "ready" => Active(r.user)
    /\ r.op = "status" => r.phase = "begun" /\ r.status \in Requested
    /\ r.op = "enroll" =>
           /\ minted' = minted + 1 /\ r.code = [secret |-> minted + 1, step |-> 0]
           /\ ~users[r.user].enabled
    /\ r.op # "enroll" => minted' = minted
    /\ r.op \in {"verify", "confirm", "disable"} => Matches(users[r.user], r.code)

LEMMA Arrivals ==
  ASSUME TypeInvariant, NEW h \in Handlers, Arrive(h)
  PROVE  \E r \in Request :
           /\ request' = [request EXCEPT ![h] = r] /\ Free(h, r.op) /\ Arrived(r)
           /\ UNCHANGED <<users, tokens, cookie, now, accepted>>
<1>1. TypeInvariant' /\ h \in Handlers
  BY ArriveTyped
<1>2. request'[h] \in Request
  BY <1>1 DEF TypeInvariant, TypeOK, Request, Phases
<1>3. ASSUME NEW r, Begin(h, r)
      PROVE  r \in Request /\ request' = [request EXCEPT ![h] = r] /\ Free(h, r.op)
  <2>1. request' = [request EXCEPT ![h] = r] /\ Free(h, r.op)
    BY <1>3 DEF Begin
  <2>2. request'[h] = r
    BY <2>1 DEF TypeInvariant, TypeOK
  <2>3. QED
    BY <1>2, <2>1, <2>2
<1>4. CASE \E t \in Tabs : Refresh(h, t)
  <2>1. PICK t \in Tabs : Refresh(h, t)
    BY <1>4
  <2> DEFINE r == [Idle EXCEPT !.op = "refresh", !.tab = t, !.token = cookie,
                       !.phase = IF cookie = 0 THEN "refused" ELSE "begun"]
  <2>2. /\ r.op = "refresh" /\ r.phase \in {"begun", "refused"} /\ r.tab = t /\ ~r.late
    BY DEF Idle
  <2>3. Begin(h, r)
    BY <2>1 DEF Refresh
  <2> HIDE DEF r
  <2>4. Arrived(r)
    BY <2>1, <2>2 DEF Refresh, Arrived, Operation, Issuing
  <2>5. QED
    BY <1>3, <2>1, <2>3, <2>4 DEF Refresh
<1>5. CASE \E t \in Tabs : Logout(h, t)
  <2>1. PICK t \in Tabs : Logout(h, t)
    BY <1>5
  <2> DEFINE r == [Idle EXCEPT !.op = "logout", !.tab = t, !.token = cookie,
                       !.phase = IF cookie # 0 /\ Live(cookie) THEN "ready" ELSE "answered"]
  <2>2. /\ r.op = "logout" /\ r.phase \in {"ready", "answered"} /\ ~r.late
    BY DEF Idle
  <2>3. Begin(h, r)
    BY <2>1 DEF Logout
  <2> HIDE DEF r
  <2>4. Arrived(r)
    BY <2>1, <2>2 DEF Logout, Arrived, Operation, Issuing
  <2>5. QED
    BY <1>3, <2>1, <2>3, <2>4 DEF Logout
<1>6. CASE \E t \in Tabs, u \in Users : Login(h, t, u)
  <2>1. PICK t \in Tabs, u \in Users : Login(h, t, u)
    BY <1>6
  <2> DEFINE r == [Idle EXCEPT !.op = "login", !.user = u, !.tab = t,
                       !.phase = IF users[u].enabled THEN "challenged" ELSE "ready"]
  <2>2. /\ r.op = "login" /\ r.phase \in {"ready", "challenged"} /\ r.user = u /\ ~r.late
        /\ r.phase = "ready" => Active(u)
    BY <2>1 DEF Idle, Login
  <2>3. Begin(h, r)
    BY <2>1 DEF Login
  <2> HIDE DEF r
  <2>4. Arrived(r)
    BY <2>1, <2>2 DEF Login, Arrived, Operation, Issuing
  <2>5. QED
    BY <1>3, <2>1, <2>3, <2>4 DEF Login
<1>7. CASE \E t \in Tabs, c \in Code : Verify(h, t, c)
  <2>1. PICK t \in Tabs, c \in Code : Verify(h, t, c)
    BY <1>7
  <2> DEFINE r == [Idle EXCEPT !.op = "verify", !.user = tab[t].challenge, !.tab = t,
                       !.code = c, !.phase = "ready"]
  <2>2. /\ r.op = "verify" /\ r.phase = "ready" /\ ~r.late
        /\ r.user = tab[t].challenge /\ r.code = c
    BY DEF Idle
  <2>3. Begin(h, r)
    BY <2>1 DEF Verify
  <2> HIDE DEF r
  <2>4. Arrived(r)
    BY <2>1, <2>2 DEF Verify, Arrived, Operation, Issuing
  <2>5. QED
    BY <1>3, <2>1, <2>3, <2>4 DEF Verify
<1>8. CASE \E u \in Users, op \in Enrolment, c \in Code :
               (op = "enroll" => c = Idle.code) /\ Enrol(h, u, op, c)
  <2>1. PICK u \in Users, op \in Enrolment, c \in Code :
               (op = "enroll" => c = Idle.code) /\ Enrol(h, u, op, c)
    BY <1>8
  <2> DEFINE k == IF op = "enroll" THEN [secret |-> minted + 1, step |-> 0] ELSE c
             r == [Idle EXCEPT !.op = op, !.user = u, !.phase = "ready", !.code = k]
  <2>2. /\ r.op = op /\ r.phase = "ready" /\ ~r.late /\ r.user = u /\ r.code = k
    BY DEF Idle
  <2>3. Begin(h, r)
    BY <2>1 DEF Enrol
  <2> HIDE DEF r
  <2>4. Arrived(r)
    <3>1. CASE op = "enroll"
      BY <2>1, <2>2, <3>1 DEF Enrol, Arrived, Operation, Issuing, Enrolment
    <3>2. CASE op \in {"confirm", "disable"}
      BY <2>1, <2>2, <3>2 DEF Enrol, Arrived, Operation, Issuing, Enrolment
    <3>3. QED
      BY <3>1, <3>2 DEF Enrolment
  <2>5. QED
    BY <1>3, <2>1, <2>3, <2>4 DEF Enrol
<1>9. CASE \E a, u \in Users, st \in Requested : SetStatus(h, a, u, st)
  <2>1. PICK a \in Users, u \in Users, st \in Requested : SetStatus(h, a, u, st)
    BY <1>9
  <2> DEFINE r == [Idle EXCEPT !.op = "status", !.user = u, !.status = st, !.phase = "begun"]
  <2>2. /\ r.op = "status" /\ r.phase = "begun" /\ ~r.late /\ r.status = st
    BY DEF Idle
  <2>3. Begin(h, r)
    BY <2>1 DEF SetStatus
  <2> HIDE DEF r
  <2>4. Arrived(r)
    BY <2>1, <2>2 DEF SetStatus, Arrived, Operation, Issuing
  <2>5. QED
    BY <1>3, <2>1, <2>3, <2>4 DEF SetStatus
<1>10. QED
  BY <1>4, <1>5, <1>6, <1>7, <1>8, <1>9 DEF Arrive

(***************************************************************************)
(* What the commits do to the rows, and what a step leaves alone.          *)
(***************************************************************************)
LEMMA TokensDomain ==
  ASSUME TypeInvariant
  PROVE  /\ Len(tokens) \in Nat /\ DOMAIN tokens = 1..Len(tokens)
         /\ \A t \in 1..Len(tokens) : tokens[t] \in Token
BY TokenTyped DEF TypeInvariant, TypeOK

LEMMA IssueEffect ==
  ASSUME TypeInvariant, NEW h \in Handlers, IssueCommit(h)
  PROVE  LET r == request[h]
             n == Len(tokens) + 1
         IN
         /\ r.op \in Issuing /\ r.phase = "ready" /\ r.user \in Users
         /\ r.op = "refresh" => r.token \in 1..Len(tokens)
         /\ Len(tokens') = n /\ DOMAIN tokens' = 1..n
         /\ tokens'[n] = [user |-> r.user, revoked |-> FALSE,
                          family |-> IF r.op = "refresh" THEN tokens[r.token].family ELSE n,
                          late |-> r.late \/ Writing(r.user) # {}]
         /\ \A t \in 1..Len(tokens) :
              tokens'[t] = IF r.op = "refresh" /\ t = r.token
                           THEN [tokens[t] EXCEPT !.revoked = TRUE] ELSE tokens[t]
         /\ \A u \in Users : users'[u].status = users[u].status
         /\ \A g \in Handlers : g # h => request'[g] = request[g]
         /\ request'[h].op = r.op /\ request'[h].tab = r.tab /\ request'[h].phase = "answered"
<1> DEFINE r == request[h]
           n == Len(tokens) + 1
           issued == [user |-> r.user, revoked |-> FALSE,
                      family |-> IF r.op = "refresh" THEN tokens[r.token].family ELSE n,
                      late |-> r.late \/ Writing(r.user) # {}]
           rotated == IF r.op = "refresh" THEN [tokens EXCEPT ![r.token].revoked = TRUE]
                                          ELSE tokens
<1>1. TypeOK /\ Formed(r, Len(tokens)) /\ r \in Request /\ Len(tokens) \in Nat
      /\ tokens \in Seq(Token) /\ DOMAIN tokens = 1..Len(tokens)
  BY RequestTyped, TokensDomain DEF TypeInvariant, TypeOK
<1>2. r.op \in Issuing /\ r.phase = "ready" /\ r.user \in Users
  BY <1>1 DEF IssueCommit, Formed, Issuing
<1>3. r.op = "refresh" => r.token \in 1..Len(tokens) /\ tokens[r.token] \in Token
  BY <1>1, <1>2, TokenTyped DEF Formed
<1>4. rotated \in Seq(Token) /\ Len(rotated) = Len(tokens)
      /\ \A t \in 1..Len(tokens) :
           rotated[t] = IF r.op = "refresh" /\ t = r.token
                        THEN [tokens[t] EXCEPT !.revoked = TRUE] ELSE tokens[t]
  <2>1. CASE r.op = "refresh"
    <3> DEFINE used == [tokens[r.token] EXCEPT !.revoked = TRUE]
    <3>1. used \in Token
      BY <1>3, <2>1 DEF Token
    <3>2. rotated = [tokens EXCEPT ![r.token] = used]
      BY <2>1
    <3>3. rotated \in Seq(Token) /\ Len(rotated) = Len(tokens)
      BY <1>1, <1>3, <2>1, <3>1, <3>2, ExceptSeq
    <3>4. QED
      BY <1>1, <1>3, <2>1, <3>2, <3>3
  <2>2. CASE r.op # "refresh"
    BY <1>1, <2>2
  <2>3. QED
    BY <2>1, <2>2
<1>5. issued \in Token
  <2>1. (r.late \/ Writing(r.user) # {}) \in BOOLEAN
    OBVIOUS
  <2>2. (IF r.op = "refresh" THEN tokens[r.token].family ELSE n) \in Nat
    BY <1>1, <1>3 DEF Token
  <2>3. QED
    BY <1>2, <2>1, <2>2 DEF Token
<1>6. tokens' = Append(rotated, issued)
  BY DEF IssueCommit
<1>7. \A g \in Handlers : request'[g] =
        IF g = h THEN [r EXCEPT !.phase = "answered", !.token = n] ELSE request[g]
  BY <1>1 DEF IssueCommit, TypeOK
<1>8. \A u \in Users : users'[u].status = users[u].status
  <2>1. \A u \in Users : users[u] \in User
    BY <1>1 DEF TypeOK
  <2> DEFINE row == [users[r.user] EXCEPT !.step = r.code.step]
  <2>2. users' = users \/ users' = [users EXCEPT ![r.user] = row]
    BY DEF IssueCommit
  <2>3. row.status = users[r.user].status
    BY <1>2, <2>1 DEF User
  <2> HIDE DEF row
  <2>4. QED
    BY <1>1, <2>2, <2>3 DEF TypeOK
<1> HIDE DEF rotated, issued
<1>9. /\ Len(tokens') = n /\ DOMAIN tokens' = 1..n /\ tokens'[n] = issued
      /\ \A t \in 1..Len(tokens) : tokens'[t] = rotated[t]
  BY <1>1, <1>4, <1>5, <1>6, AppendProperties, LenProperties
<1>10. request'[h].op = r.op /\ request'[h].tab = r.tab /\ request'[h].phase = "answered"
  BY <1>1, <1>7 DEF Request
<1>11. QED
  BY <1>2, <1>3, <1>4, <1>7, <1>8, <1>9, <1>10 DEF issued

LEMMA LogoutEffect ==
  ASSUME TypeInvariant, NEW h \in Handlers, LogoutCommit(h)
  PROVE  /\ Len(tokens') = Len(tokens) /\ DOMAIN tokens' = 1..Len(tokens)
         /\ \A t \in 1..Len(tokens) :
              tokens'[t] = IF t = request[h].token THEN [tokens[t] EXCEPT !.revoked = TRUE]
                           ELSE tokens[t]
<1> DEFINE k == request[h].token
<1>1. k \in 1..Len(tokens)
  BY DEF LogoutCommit, TypeInvariant, Formed
<1>2. tokens' = [tokens EXCEPT ![k] = [tokens[k] EXCEPT !.revoked = TRUE]]
  BY DEF LogoutCommit
<1>3. [tokens[k] EXCEPT !.revoked = TRUE] \in Token
  BY <1>1, TokensDomain DEF Token
<1>4. Len(tokens') = Len(tokens) /\ DOMAIN tokens' = DOMAIN tokens
  BY <1>1, <1>2, <1>3, ExceptSeq DEF TypeInvariant, TypeOK
<1>5. QED
  BY <1>1, <1>2, <1>4, TokensDomain

LEMMA StepFrame ==
  ASSUME TypeInvariant, NEW h \in Handlers, Step(h)
  PROVE  \A g \in Handlers :
           \/ g = h /\ request'[g] = Idle
           \/ /\ request'[g].op = request[g].op /\ request'[g].code = request[g].code
              /\ request'[g].status = request[g].status
              /\ request[g].op # "refresh" => request'[g].user = request[g].user
              /\ g # h => request'[g].phase = request[g].phase
<1>1. TypeOK /\ \A g \in Handlers : request[g] \in Request
  BY RequestTyped DEF TypeInvariant
<1>2. CASE StatusCommit(h)
  <2>1. PICK late \in [Handlers -> BOOLEAN] :
          request' = [g \in Handlers |->
                        IF g = h THEN [request[h] EXCEPT !.phase = "answered"]
                                 ELSE [request[g] EXCEPT !.late = late[g]]]
    BY <1>2, StatusCommitRequests
  <2>2. QED
    BY <1>1, <2>1 DEF Request
<1>3. CASE Deliver(h) \/ Lose(h)
  BY <1>1, <1>3 DEF Deliver, Lose, Answer, TypeOK
<1>4. CASE ReadToken(h)
  BY <1>1, <1>4 DEF ReadToken, TypeOK, Request
<1>5. CASE ReuseDetected(h) \/ ReadUser(h) \/ Fail(h)
  BY <1>1, <1>5 DEF ReuseDetected, ReadUser, Fail, TypeOK, Request
<1>6. CASE Decide(h)
  BY <1>1, <1>6 DEF Decide, TypeOK, Request
<1>7. CASE StatusWrite(h)
  BY <1>1, <1>7 DEF StatusWrite, TypeOK, Request
<1>8. CASE IssueCommit(h)
  BY <1>1, <1>8 DEF IssueCommit, TypeOK, Request
<1>9. CASE LogoutCommit(h) \/ EnrolCommit(h)
  BY <1>1, <1>9 DEF LogoutCommit, EnrolCommit, TypeOK, Request
<1>10. QED
  BY <1>2, <1>3, <1>4, <1>5, <1>6, <1>7, <1>8, <1>9 DEF Step, Advance

LEMMA StatusesKept ==
  ASSUME TypeInvariant, NEW h \in Handlers, Step(h), ~StatusCommit(h)
  PROVE  \A u \in Users : users'[u].status = users[u].status
<1>1. CASE IssueCommit(h)
  BY <1>1, IssueEffect
<1>2. CASE EnrolCommit(h)
  <2> DEFINE row == users[request[h].user]
  <2>1. request[h].user \in Users /\ row \in User
    BY <1>2 DEF EnrolCommit, TypeInvariant, TypeOK, Formed
  <2>2. PICK new :
          /\ users' = [users EXCEPT ![request[h].user] = new]
          /\ \/ new = [row EXCEPT !.secret = request[h].code.secret, !.step = 0]
             \/ new = [row EXCEPT !.enabled = TRUE, !.step = request[h].code.step]
             \/ new = [row EXCEPT !.enabled = FALSE, !.secret = 0, !.step = 0]
    BY <1>2 DEF EnrolCommit, Enrolment
  <2>3. new.status = row.status
    BY <2>1, <2>2 DEF User
  <2>4. QED
    BY <2>1, <2>2, <2>3 DEF TypeInvariant, TypeOK
<1>3. QED
  BY <1>1, <1>2 DEF Step, Advance, ReadToken, ReuseDetected, ReadUser, Decide, StatusWrite,
     LogoutCommit, Fail, Deliver, Lose, Answer

(***************************************************************************)
(* A suspension.  Three things can happen to a token around one: it is     *)
(* there when the UPDATE runs and is revoked; it comes between the UPDATE  *)
(* and the commit; or its request has read an active user and commits      *)
(* after the suspension has.                                               *)
(***************************************************************************)
LateInFlight ==
    \A h \in Handlers :
        request[h].op \in Issuing /\ request[h].phase = "ready" /\ ~request[h].late
            => users[request[h].user].status # "disabled"

LateBehindUpdate ==
    \A h \in Handlers : \A t \in 1..Len(tokens) :
        request[h].phase = "written" /\ request[h].status = "disabled"
            /\ t > request[h].token /\ tokens[t].user = request[h].user
            => tokens[t].late

SuspensionInvariant ==
    TypeInvariant /\ SuspensionReaches /\ LateInFlight /\ LateBehindUpdate

\* One request goes on and touches no row.
LEMMA SuspensionProgress ==
  ASSUME SuspensionInvariant, NEW h \in Handlers, NEW r \in Request,
         request' = [request EXCEPT ![h] = r], UNCHANGED <<users, tokens>>,
         r.op \in Issuing /\ r.phase = "ready" /\ ~r.late
             => users[r.user].status # "disabled",
         r.phase = "written" => r.token = Len(tokens)
  PROVE  SuspensionReaches' /\ LateInFlight' /\ LateBehindUpdate'
<1>1. \A g \in Handlers : request'[g] = IF g = h THEN r ELSE request[g]
  BY DEF SuspensionInvariant, TypeInvariant, TypeOK
<1>2. Len(tokens) \in Nat
  BY TokensDomain DEF SuspensionInvariant
<1>3. SuspensionReaches'
  BY DEF SuspensionInvariant, SuspensionReaches, Live
<1>4. LateInFlight'
  BY <1>1 DEF SuspensionInvariant, LateInFlight
<1>5. LateBehindUpdate'
  BY <1>1, <1>2 DEF SuspensionInvariant, LateBehindUpdate
<1>6. QED
  BY <1>3, <1>4, <1>5

LEMMA SuspensionArrive ==
  ASSUME SuspensionInvariant, NEW h \in Handlers, Arrive(h)
  PROVE  SuspensionReaches' /\ LateInFlight' /\ LateBehindUpdate'
<1>1. PICK r \in Request :
        /\ request' = [request EXCEPT ![h] = r] /\ Arrived(r)
        /\ UNCHANGED <<users, tokens, cookie, now, accepted>>
  BY Arrivals DEF SuspensionInvariant
<1>2. /\ r.phase # "written"
      /\ r.op \in Issuing /\ r.phase = "ready" => users[r.user].status # "disabled"
  BY <1>1 DEF Arrived, Active
<1>3. QED
  BY <1>1, <1>2, SuspensionProgress

LEMMA SuspensionStep ==
  ASSUME SuspensionInvariant, NEW h \in Handlers,
         \/ ReadToken(h) \/ ReuseDetected(h) \/ ReadUser(h) \/ Decide(h)
         \/ StatusWrite(h) \/ Fail(h) \/ Deliver(h) \/ Lose(h)
  PROVE  SuspensionReaches' /\ LateInFlight' /\ LateBehindUpdate'
<1>1. TypeInvariant /\ TypeInvariant'
  BY ProgressTyped, AnswerTyped DEF SuspensionInvariant
<1>2. request[h] \in Request /\ request'[h] \in Request /\ Formed(request[h], Len(tokens))
  BY <1>1, RequestTyped DEF TypeInvariant, TypeOK, Request, Phases
<1>3. CASE ReadToken(h) \/ ReuseDetected(h) \/ Fail(h)
  <2>1. PICK r : /\ request' = [request EXCEPT ![h] = r]
                 /\ r.phase \in {"live", "reused", "refused"}
    <3>1. CASE ReadToken(h)
      <4> DEFINE r == [request[h] EXCEPT !.user = tokens[request[h].token].user,
                           !.phase = IF Live(request[h].token) THEN "live" ELSE "reused"]
      <4>1. request' = [request EXCEPT ![h] = r] /\ r.phase \in {"live", "reused"}
        BY <1>2, <3>1 DEF ReadToken, Request
      <4>2. QED
        BY <4>1
    <3>2. CASE ReuseDetected(h) \/ Fail(h)
      <4> DEFINE r == [request[h] EXCEPT !.phase = "refused"]
      <4>1. request' = [request EXCEPT ![h] = r] /\ r.phase = "refused"
        BY <1>2, <3>2 DEF ReuseDetected, Fail, Request
      <4>2. QED
        BY <4>1
    <3>3. QED
      BY <1>3, <3>1, <3>2
  <2>2. r = request'[h]
    BY <1>1, <2>1 DEF TypeInvariant, TypeOK
  <2>3. UNCHANGED <<users, tokens>>
    BY <1>3 DEF ReadToken, ReuseDetected, Fail
  <2>4. QED
    BY <1>2, <2>1, <2>2, <2>3, SuspensionProgress
<1>4. CASE ReadUser(h)
  <2> DEFINE r == [request[h] EXCEPT !.phase = "ready"]
  <2>1. /\ request' = [request EXCEPT ![h] = r] /\ UNCHANGED <<users, tokens>>
        /\ r.phase = "ready" /\ users[r.user].status = "active"
    BY <1>2, <1>4 DEF ReadUser, Active, Request
  <2>2. r \in Request
    BY <1>2, Vocabulary DEF Request
  <2>3. QED
    BY <2>1, <2>2, SuspensionProgress
<1>5. CASE Decide(h)
  <2> DEFINE held == users[request[h].user].status # request[h].status
             r == [request[h] EXCEPT !.phase = "ready", !.holds = held]
  <2>1. /\ request' = [request EXCEPT ![h] = r] /\ UNCHANGED <<users, tokens>>
        /\ r.phase = "ready" /\ r.op = "status"
    BY <1>2, <1>5 DEF Decide, Request
  <2>2. r = request'[h]
    BY <1>1, <2>1 DEF TypeInvariant, TypeOK
  <2>3. QED
    BY <1>2, <2>1, <2>2, SuspensionProgress DEF Issuing
<1>6. CASE StatusWrite(h)
  <2> DEFINE r == [request[h] EXCEPT !.phase = "written", !.token = Len(tokens)]
  <2>1. /\ request' = [request EXCEPT ![h] = r] /\ UNCHANGED <<users, tokens>>
        /\ r.phase = "written" /\ r.token = Len(tokens)
    BY <1>2, <1>6 DEF StatusWrite, Request
  <2>2. r = request'[h]
    BY <1>1, <2>1 DEF TypeInvariant, TypeOK
  <2>3. QED
    BY <1>2, <2>1, <2>2, SuspensionProgress
<1>7. CASE Deliver(h) \/ Lose(h)
  <2>1. request' = [request EXCEPT ![h] = Idle] /\ UNCHANGED <<users, tokens>>
    BY <1>7 DEF Deliver, Lose, Answer
  <2>2. Idle.phase = "idle"
    BY DEF Idle
  <2>3. QED
    BY <2>1, <2>2, IdleTyped, SuspensionProgress
<1>8. QED
  BY <1>3, <1>4, <1>5, <1>6, <1>7

LEMMA SuspensionCommit ==
  ASSUME SuspensionInvariant, NEW h \in Handlers, StatusCommit(h)
  PROVE  SuspensionReaches' /\ LateInFlight' /\ LateBehindUpdate'
<1> DEFINE r == request[h]
<1>1. TypeInvariant /\ TypeOK
  BY DEF SuspensionInvariant, TypeInvariant
<1>2. r \in Request /\ r.user \in Users /\ r.phase = "written" /\ Len(tokens) \in Nat
  BY <1>1, RequestTyped, TokensDomain DEF StatusCommit, TypeInvariant, Formed
<1>3. PICK late \in [Handlers -> BOOLEAN] :
        /\ request' = [g \in Handlers |->
                         IF g = h THEN [r EXCEPT !.phase = "answered"]
                                  ELSE [request[g] EXCEPT !.late = late[g]]]
        /\ \A g \in Handlers :
             /\ request[g].late => late[g]
             /\ request[g].op \in Issuing /\ request[g].phase = "ready"
                /\ request[g].user = r.user => late[g]
  BY <1>1, StatusCommitRequests
<1>4. \A g \in Handlers :
        /\ request'[g].user = request[g].user /\ request'[g].op = request[g].op
        /\ request'[g].status = request[g].status /\ request'[g].token = request[g].token
        /\ g = h => request'[g].phase = "answered"
        /\ g # h => request'[g].phase = request[g].phase /\ request'[g].late = late[g]
  BY <1>1, <1>3, RequestTyped DEF Request
<1>5. /\ Len(tokens') = Len(tokens) /\ DOMAIN tokens' = 1..Len(tokens)
      /\ \A t \in 1..Len(tokens) :
           /\ tokens[t] \in Token
           /\ tokens'[t] = Revoked(r, t)
           /\ tokens'[t].user = tokens[t].user /\ tokens'[t].late = tokens[t].late
           /\ ~tokens'[t].revoked => ~tokens[t].revoked
           /\ r.status = "disabled" /\ t <= r.token /\ tokens[t].user = r.user
                => tokens'[t].revoked
  BY <1>1, <1>2, StatusCommitTokens, TokenTyped DEF Revoked, Token
<1>6. \A u \in Users :
        /\ u # r.user => users'[u].status = users[u].status
        /\ users'[u].status = IF u = r.user /\ r.holds THEN r.status ELSE users[u].status
  BY <1>1, <1>2 DEF StatusCommit, TypeOK, User
<1>7. SuspensionReaches'
  <2> SUFFICES ASSUME NEW t \in 1..Len(tokens), ~tokens'[t].revoked,
                      users'[tokens'[t].user].status = "disabled"
               PROVE  tokens'[t].late
    BY <1>5 DEF SuspensionReaches, Live
  <2>1. tokens[t].user \in Users /\ ~tokens[t].revoked /\ DOMAIN tokens = 1..Len(tokens)
    BY <1>1, <1>5, TokensDomain DEF Token
  <2>2. CASE users[tokens[t].user].status = "disabled"
    BY <1>5, <2>1, <2>2 DEF SuspensionInvariant, SuspensionReaches, Live
  <2>3. CASE users[tokens[t].user].status # "disabled"
    <3>1. tokens[t].user = r.user /\ r.status = "disabled"
      BY <1>5, <1>6, <2>1, <2>3
    <3>2. t > r.token
      BY <1>2, <1>5, <3>1 DEF Request
    <3>3. tokens[t].late
      BY <1>2, <3>1, <3>2 DEF SuspensionInvariant, LateBehindUpdate
    <3>4. QED
      BY <1>5, <3>3
  <2>4. QED
    BY <2>2, <2>3
<1>8. LateInFlight'
  <2> SUFFICES ASSUME NEW g \in Handlers, request'[g].op \in Issuing,
                      request'[g].phase = "ready", ~request'[g].late
               PROVE  users'[request'[g].user].status # "disabled"
    BY DEF LateInFlight
  <2>1. g # h /\ request[g].op \in Issuing /\ request[g].phase = "ready"
        /\ ~request[g].late /\ request[g].user # r.user
    BY <1>3, <1>4
  <2>2. request[g].user \in Users
    BY <1>1, <2>1 DEF TypeInvariant, Formed, Issuing
  <2>3. QED
    BY <1>4, <1>6, <2>1, <2>2 DEF SuspensionInvariant, LateInFlight
<1>9. LateBehindUpdate'
  BY <1>4, <1>5 DEF SuspensionInvariant, LateBehindUpdate
<1>10. QED
  BY <1>7, <1>8, <1>9

LEMMA SuspensionIssue ==
  ASSUME SuspensionInvariant, NEW h \in Handlers, IssueCommit(h)
  PROVE  SuspensionReaches' /\ LateInFlight' /\ LateBehindUpdate'
<1> DEFINE r == request[h]
           n == Len(tokens) + 1
<1>1. TypeInvariant /\ TypeInvariant'
  BY IssueTyped DEF SuspensionInvariant
<1>2. /\ r.op \in Issuing /\ r.phase = "ready" /\ r.user \in Users
      /\ Len(tokens) \in Nat /\ Len(tokens') = n /\ DOMAIN tokens' = 1..n
      /\ \A t \in 1..Len(tokens) : tokens[t] \in Token
      /\ DOMAIN tokens = 1..Len(tokens)
  BY <1>1, IssueEffect, TokensDomain
<1>3. /\ tokens'[n].user = r.user /\ (r.late \/ Writing(r.user) # {} => tokens'[n].late)
      /\ \A t \in 1..Len(tokens) :
           /\ tokens'[t].user = tokens[t].user /\ tokens'[t].late = tokens[t].late
           /\ ~tokens'[t].revoked => ~tokens[t].revoked
  <2> DEFINE late == r.late \/ Writing(r.user) # {}
             family == IF r.op = "refresh" THEN tokens[r.token].family ELSE n
  <2>1. /\ tokens'[n] = [user |-> r.user, revoked |-> FALSE, family |-> family, late |-> late]
        /\ \A t \in 1..Len(tokens) :
             \/ tokens'[t] = [tokens[t] EXCEPT !.revoked = TRUE]
             \/ tokens'[t] = tokens[t]
    BY <1>1, IssueEffect
  <2>2. late = (r.late \/ Writing(r.user) # {})
    OBVIOUS
  <2> HIDE DEF late, family
  <2>3. tokens'[n].user = r.user /\ tokens'[n].late = late
    BY <2>1
  <2>4. ASSUME NEW t \in 1..Len(tokens)
        PROVE  /\ tokens'[t].user = tokens[t].user /\ tokens'[t].late = tokens[t].late
               /\ ~tokens'[t].revoked => ~tokens[t].revoked
    BY <1>2, <2>1 DEF Token
  <2>5. QED
    BY <2>2, <2>3, <2>4
<1>4. /\ \A u \in Users : users'[u].status = users[u].status
      /\ \A g \in Handlers : g # h => request'[g] = request[g]
      /\ request'[h].phase = "answered"
  BY <1>1, IssueEffect
<1>5. SuspensionReaches'
  <2> SUFFICES ASSUME NEW t \in 1..n, ~tokens'[t].revoked,
                      users'[tokens'[t].user].status = "disabled"
               PROVE  tokens'[t].late
    BY <1>2 DEF SuspensionReaches, Live
  <2>1. CASE t = n
    <3>1. users[r.user].status = "disabled"
      BY <1>2, <1>3, <1>4, <2>1
    <3>2. r.late
      BY <1>2, <3>1 DEF SuspensionInvariant, LateInFlight
    <3>3. QED
      BY <1>3, <2>1, <3>2
  <2>2. CASE t \in 1..Len(tokens)
    <3>1. tokens[t].user \in Users
      BY <1>2, <2>2 DEF Token
    <3>2. QED
      BY <1>2, <1>3, <1>4, <2>2, <3>1 DEF SuspensionInvariant, SuspensionReaches, Live
  <2>3. QED
    BY <1>2, <2>1, <2>2
<1>6. LateInFlight'
  <2> SUFFICES ASSUME NEW g \in Handlers, request'[g].op \in Issuing,
                      request'[g].phase = "ready", ~request'[g].late
               PROVE  users'[request'[g].user].status # "disabled"
    BY DEF LateInFlight
  <2>1. g # h /\ request'[g] = request[g]
    BY <1>4
  <2>2. request[g].user \in Users
    BY <1>1, <2>1 DEF TypeInvariant, Formed, Issuing
  <2>3. QED
    BY <1>4, <2>1, <2>2 DEF SuspensionInvariant, LateInFlight
<1>7. LateBehindUpdate'
  <2> SUFFICES ASSUME NEW g \in Handlers, NEW t \in 1..n, request'[g].phase = "written",
                      request'[g].status = "disabled", t > request'[g].token,
                      tokens'[t].user = request'[g].user
               PROVE  tokens'[t].late
    BY <1>2 DEF LateBehindUpdate
  <2>1. g # h /\ request'[g] = request[g]
    BY <1>4
  <2>2. CASE t = n
    <3>1. g \in Writing(r.user)
      BY <1>3, <2>1, <2>2 DEF Writing
    <3>2. QED
      BY <1>3, <2>2, <3>1
  <2>3. CASE t \in 1..Len(tokens)
    BY <1>3, <2>1, <2>3 DEF SuspensionInvariant, LateBehindUpdate
  <2>4. QED
    BY <1>2, <2>2, <2>3
<1>8. QED
  BY <1>5, <1>6, <1>7

\* A commit that changes no status and issues nothing.
LEMMA SuspensionOther ==
  ASSUME SuspensionInvariant, NEW h \in Handlers, LogoutCommit(h) \/ EnrolCommit(h)
  PROVE  SuspensionReaches' /\ LateInFlight' /\ LateBehindUpdate'
<1>1. TypeInvariant /\ TypeOK /\ TypeInvariant'
  BY LogoutTyped, EnrolTyped DEF SuspensionInvariant, TypeInvariant
<1>2. Len(tokens) \in Nat /\ DOMAIN tokens = 1..Len(tokens)
      /\ \A t \in 1..Len(tokens) : tokens[t] \in Token
  BY <1>1, TokensDomain
<1>3. /\ \A g \in Handlers : g # h => request'[g] = request[g]
      /\ request'[h].phase = "answered"
  <2>1. request' = [request EXCEPT ![h].phase = "answered"] /\ request[h] \in Request
    BY <1>1, RequestTyped DEF LogoutCommit, EnrolCommit
  <2>2. QED
    BY <1>1, <2>1 DEF TypeOK, Request
<1>4. \A u \in Users : users'[u].status = users[u].status
  <2>1. Step(h) /\ ~StatusCommit(h)
    <3>1. request[h].phase = "ready"
      BY DEF LogoutCommit, EnrolCommit
    <3>2. QED
      BY <3>1 DEF Step, Advance, StatusCommit
  <2>2. QED
    BY <1>1, <2>1, StatusesKept
<1>5. /\ Len(tokens') = Len(tokens) /\ DOMAIN tokens' = 1..Len(tokens)
      /\ \A t \in 1..Len(tokens) :
           /\ tokens'[t].user = tokens[t].user /\ tokens'[t].late = tokens[t].late
           /\ ~tokens'[t].revoked => ~tokens[t].revoked
  <2>1. CASE EnrolCommit(h)
    BY <1>2, <2>1 DEF EnrolCommit
  <2>2. CASE LogoutCommit(h)
    BY <1>1, <1>2, <2>2, LogoutEffect DEF Token
  <2>3. QED
    BY <2>1, <2>2
<1>6. SuspensionReaches'
  <2> SUFFICES ASSUME NEW t \in 1..Len(tokens), ~tokens'[t].revoked,
                      users'[tokens'[t].user].status = "disabled"
               PROVE  tokens'[t].late
    BY <1>5 DEF SuspensionReaches, Live
  <2>1. tokens[t].user \in Users
    BY <1>2 DEF Token
  <2>2. QED
    BY <1>2, <1>4, <1>5, <2>1 DEF SuspensionInvariant, SuspensionReaches, Live
<1>7. LateInFlight'
  <2> SUFFICES ASSUME NEW g \in Handlers, request'[g].op \in Issuing,
                      request'[g].phase = "ready", ~request'[g].late
               PROVE  users'[request'[g].user].status # "disabled"
    BY DEF LateInFlight
  <2>1. g # h /\ request'[g] = request[g]
    BY <1>3
  <2>2. request[g].user \in Users
    BY <1>1, <2>1 DEF TypeInvariant, Formed, Issuing
  <2>3. QED
    BY <1>4, <2>1, <2>2 DEF SuspensionInvariant, LateInFlight
<1>8. LateBehindUpdate'
  BY <1>3, <1>5 DEF SuspensionInvariant, LateBehindUpdate
<1>9. QED
  BY <1>6, <1>7, <1>8

\* However logins, rotations, one-time codes and suspensions interleave, what is
\* live of a disabled user's tokens was issued on a status read before the
\* suspension had committed (service.update_user_status, refresh_tokens).
THEOREM SuspensionsReach == Spec => []SuspensionReaches
<1>1. Init => SuspensionInvariant
  <2> SUFFICES ASSUME Init
               PROVE  SuspensionInvariant
    OBVIOUS
  <2>1. tokens = <<>> /\ \A h \in Handlers : request[h].phase = "idle"
    BY DEF Init, Idle
  <2>2. QED
    BY <2>1, TypeInit
    DEF SuspensionInvariant, SuspensionReaches, LateInFlight, LateBehindUpdate
<1>2. SuspensionInvariant /\ [Next]_vars => SuspensionInvariant'
  <2> SUFFICES ASSUME SuspensionInvariant, [Next]_vars
               PROVE  SuspensionReaches' /\ LateInFlight' /\ LateBehindUpdate'
    BY TypeStep DEF SuspensionInvariant
  <2>1. CASE UNCHANGED <<users, tokens, request>>
    BY <2>1
    DEF SuspensionInvariant, SuspensionReaches, LateInFlight, LateBehindUpdate, Live
  <2>2. CASE \E h \in Handlers : Arrive(h) \/ Step(h)
    BY <2>2, SuspensionArrive, SuspensionStep, SuspensionCommit, SuspensionIssue,
       SuspensionOther DEF Step, Advance
  <2>3. QED
    BY <2>1, <2>2 DEF Next, Tick, JoinRefresh, vars
<1>3. SuspensionInvariant => SuspensionReaches
  BY DEF SuspensionInvariant
<1>4. QED
  BY <1>1, <1>2, <1>3, PTL DEF Spec

(***************************************************************************)
(* A login's tokens, with one tab.  Its calls share one refresh, so a      *)
(* rotation that has read a live token is the only one under way, and what *)
(* it read is still the only token its family can have.                    *)
(***************************************************************************)
OneTab == \A s, t \in Tabs : s = t

Refreshing(h) == request[h].op = "refresh"

FamiliesBounded == \A t \in 1..Len(tokens) : tokens[t].family \in 1..t

RefreshShared ==
    /\ \A h \in Handlers : Refreshing(h) => tab[request[h].tab].promise
    /\ \A g, h \in Handlers : Refreshing(g) /\ Refreshing(h) => g = h

\* k is the only token of its family that may be live.
Newest(k) ==
    \A t \in 1..Len(tokens) : Live(t) /\ tokens[t].family = tokens[k].family => t = k

RotatesNewest ==
    \A h \in Handlers :
        Refreshing(h) /\ request[h].phase \in {"live", "ready"} => Newest(request[h].token)

FamilyInvariant ==
    TypeInvariant /\ FamilyLinear /\ FamiliesBounded /\ RefreshShared /\ RotatesNewest

LEMMA FamilyRequest ==
  ASSUME FamilyInvariant, NEW h \in Handlers, NEW r \in Request,
         request' = [request EXCEPT ![h] = r], tokens' = tokens,
         r.op = "refresh" => \A g \in Handlers : Refreshing(g) => g = h,
         \A g \in Handlers : Refreshing(g)' => tab'[request'[g].tab].promise,
         r.op = "refresh" /\ r.phase \in {"live", "ready"} => Newest(r.token)
  PROVE  FamilyLinear' /\ FamiliesBounded' /\ RefreshShared' /\ RotatesNewest'
<1>1. \A g \in Handlers : request'[g] = IF g = h THEN r ELSE request[g]
  BY DEF FamilyInvariant, TypeInvariant, TypeOK
<1>2. FamilyLinear' /\ FamiliesBounded'
  BY DEF FamilyInvariant, FamilyLinear, FamiliesBounded, Live
<1>3. RefreshShared'
  BY <1>1 DEF FamilyInvariant, RefreshShared, Refreshing
<1>4. RotatesNewest'
  <2> SUFFICES ASSUME NEW g \in Handlers, request'[g].op = "refresh",
                      request'[g].phase \in {"live", "ready"}
               PROVE  Newest(request'[g].token)
    BY DEF RotatesNewest, Newest, Refreshing, Live
  <2>1. QED
    BY <1>1 DEF FamilyInvariant, RotatesNewest, Refreshing
<1>5. QED
  BY <1>2, <1>3, <1>4

LEMMA FamilyArrive ==
  ASSUME OneTab, FamilyInvariant, NEW h \in Handlers, Arrive(h)
  PROVE  FamilyLinear' /\ FamiliesBounded' /\ RefreshShared' /\ RotatesNewest'
<1>1. TypeInvariant /\ TypeInvariant'
  BY ArriveTyped DEF FamilyInvariant
<1>2. PICK r \in Request :
        /\ request' = [request EXCEPT ![h] = r] /\ Arrived(r) /\ Free(h, r.op)
        /\ UNCHANGED <<users, tokens, cookie, now, accepted>>
  BY <1>1, Arrivals
<1>3. \A g \in Handlers : request'[g] = IF g = h THEN r ELSE request[g]
  BY <1>1, <1>2 DEF TypeInvariant, TypeOK
<1>4. /\ \A g \in Handlers : Refreshing(g) => request[g].tab \in Tabs
      /\ r.op = "refresh" => r.tab \in Tabs
  <2>1. /\ \A g \in Handlers : Formed(request[g], Len(tokens))
        /\ Formed(request'[h], Len(tokens'))
    BY <1>1 DEF TypeInvariant
  <2>2. QED
    BY <1>3, <2>1 DEF Formed, Refreshing, Issuing
<1>5. ASSUME r.op = "refresh"
      PROVE  \A g \in Handlers : ~Refreshing(g)
  BY <1>2, <1>4, <1>5 DEF OneTab, Arrived, FamilyInvariant, RefreshShared
<1>6. ASSUME NEW g \in Handlers, Refreshing(g)'
      PROVE  tab'[request'[g].tab].promise
  <2>1. CASE r.op = "refresh"
    <3>1. g = h /\ request'[g].tab = r.tab /\ r.tab \in Tabs
      BY <1>3, <1>4, <1>5, <1>6, <2>1 DEF Refreshing
    <3>2. tab' = [tab EXCEPT ![r.tab].waiting = @ + 1, ![r.tab].promise = TRUE]
      BY <1>2, <2>1 DEF Arrived
    <3>3. tab \in [Tabs -> TabState]
      BY <1>1, TabsTyped
    <3>4. QED
      BY <3>1, <3>2, <3>3 DEF TabState
  <2>2. CASE r.op # "refresh"
    <3>1. g # h /\ request'[g] = request[g] /\ tab' = tab
      BY <1>2, <1>3, <1>6, <2>2 DEF Refreshing, Arrived
    <3>2. Refreshing(g)
      BY <1>6, <3>1 DEF Refreshing
    <3>3. QED
      BY <3>1, <3>2 DEF FamilyInvariant, RefreshShared
  <2>3. QED
    BY <2>1, <2>2
<1>7. r.op = "refresh" => r.phase \notin {"live", "ready"}
  BY <1>2 DEF Arrived
<1>8. QED
  BY <1>2, <1>5, <1>6, <1>7, FamilyRequest

LEMMA FamilyStep ==
  ASSUME OneTab, FamilyInvariant, NEW h \in Handlers,
         \/ ReadToken(h) \/ ReuseDetected(h) \/ ReadUser(h) \/ Decide(h)
         \/ StatusWrite(h) \/ Fail(h)
  PROVE  FamilyLinear' /\ FamiliesBounded' /\ RefreshShared' /\ RotatesNewest'
<1> DEFINE q == request[h]
           r == request'[h]
<1>1. TypeInvariant /\ TypeInvariant'
  BY ProgressTyped DEF FamilyInvariant
<1>2. q \in Request /\ r \in Request /\ Formed(q, Len(tokens))
  BY <1>1, RequestTyped DEF TypeInvariant, TypeOK, Request, Phases
<1>3. request' = [request EXCEPT ![h] = r] /\ tokens' = tokens /\ tab' = tab
  BY <1>1 DEF ReadToken, ReuseDetected, ReadUser, Decide, StatusWrite, Fail,
     TypeInvariant, TypeOK
<1>4. /\ r.op = q.op /\ r.tab = q.tab
      /\ q.op = "refresh" => r.token = q.token
      /\ q.op = "refresh" /\ r.phase \in {"live", "ready"} =>
           \/ q.phase = "begun" /\ Live(q.token)
           \/ q.phase = "live"
  <2> USE <1>1, <1>2
  <2>1. CASE ReadToken(h)
    BY <2>1 DEF ReadToken, TypeInvariant, TypeOK, Request
  <2>2. CASE ReuseDetected(h)
    BY <2>2 DEF ReuseDetected, TypeInvariant, TypeOK, Request
  <2>3. CASE ReadUser(h)
    BY <2>3 DEF ReadUser, TypeInvariant, TypeOK, Request
  <2>4. CASE Decide(h)
    BY <2>4 DEF Decide, TypeInvariant, TypeOK, Request
  <2>5. CASE StatusWrite(h)
    BY <2>5 DEF StatusWrite, TypeInvariant, TypeOK, Request
  <2>6. CASE Fail(h)
    BY <2>6 DEF Fail, TypeInvariant, TypeOK, Request
  <2>7. QED
    BY <2>1, <2>2, <2>3, <2>4, <2>5, <2>6
<1>5. \A g \in Handlers : Refreshing(g)' => Refreshing(g) /\ request'[g].tab = request[g].tab
  BY <1>1, <1>3, <1>4 DEF Refreshing, TypeInvariant, TypeOK
<1>6. \A g \in Handlers : Refreshing(g)' => tab'[request'[g].tab].promise
  BY <1>3, <1>5 DEF FamilyInvariant, RefreshShared
<1>7. r.op = "refresh" => \A g \in Handlers : Refreshing(g) => g = h
  BY <1>4 DEF FamilyInvariant, RefreshShared, Refreshing
<1>8. ASSUME r.op = "refresh", r.phase \in {"live", "ready"}
      PROVE  Newest(r.token)
  <2>1. CASE q.phase = "live"
    BY <1>4, <1>8, <2>1 DEF FamilyInvariant, RotatesNewest, Refreshing
  <2>2. CASE q.phase = "begun" /\ Live(q.token)
    <3>1. q.token \in 1..Len(tokens)
      BY <1>2, <1>4, <1>8, <2>2 DEF Formed
    <3>2. DOMAIN tokens = 1..Len(tokens)
      BY <1>1, TokensDomain
    <3>3. QED
      BY <1>4, <1>8, <2>2, <3>1, <3>2 DEF FamilyInvariant, FamilyLinear, Newest
  <2>3. QED
    BY <1>4, <1>8, <2>1, <2>2
<1> HIDE DEF r
<1>9. QED
  BY <1>2, <1>3, <1>6, <1>7, <1>8, FamilyRequest

LEMMA FamilyAnswer ==
  ASSUME OneTab, FamilyInvariant, NEW h \in Handlers, Deliver(h) \/ Lose(h)
  PROVE  FamilyLinear' /\ FamiliesBounded' /\ RefreshShared' /\ RotatesNewest'
<1> DEFINE r == request[h]
<1>1. TypeInvariant /\ r \in Request
  BY RequestTyped DEF FamilyInvariant, TypeInvariant
<1>2. PICK arrives \in BOOLEAN : Answer(h, arrives)
  BY DEF Deliver, Lose
<1>3. request' = [request EXCEPT ![h] = Idle] /\ tokens' = tokens
  BY <1>2 DEF Answer
<1>4. Idle.op = "none" /\ Idle.phase = "idle"
  BY DEF Idle
<1>5. ASSUME NEW g \in Handlers, Refreshing(g)'
      PROVE  tab'[request'[g].tab].promise
  <2>1. g # h /\ request'[g] = request[g] /\ Refreshing(g)
    BY <1>1, <1>3, <1>4, <1>5 DEF Refreshing, TypeInvariant, TypeOK
  <2>2. r.op # "refresh"
    BY <2>1 DEF FamilyInvariant, RefreshShared, Refreshing
  <2>3. request[g].tab \in Tabs /\ tab \in [Tabs -> TabState]
    BY <1>1, <2>1, TabsTyped DEF TypeInvariant, Formed, Refreshing, Issuing
  <2>4. tab'[request[g].tab].promise = tab[request[g].tab].promise
    <3>1. CASE r.tab = None
      BY <1>2, <3>1 DEF Answer
    <3>2. CASE r.tab # None
      <4>1. tab' = Settled(r, arrives) /\ r.tab \in Tabs
        BY <1>1, <1>2, <3>2 DEF Answer, Request
      <4> DEFINE was == tab[r.tab]
                 fresh == arrives /\ r.phase = "answered" /\ r.op \in Issuing
                 access == IF r.op = "logout" THEN FALSE ELSE was.access \/ fresh
                 challenge == IF arrives /\ r.phase = "challenged" THEN r.user
                              ELSE IF fresh THEN None ELSE was.challenge
                 new == [was EXCEPT !.promise = was.promise, !.waiting = was.waiting,
                                    !.access = access, !.challenge = challenge]
      <4>2. tab' = [tab EXCEPT ![r.tab] = new]
        BY <2>2, <4>1 DEF Settled
      <4> HIDE DEF access, challenge
      <4>3. new.promise = was.promise
        BY <2>3, <4>1 DEF TabState
      <4> HIDE DEF new
      <4>4. QED
        BY <2>3, <4>1, <4>2, <4>3
    <3>3. QED
      BY <3>1, <3>2
  <2>5. QED
    BY <2>1, <2>4 DEF FamilyInvariant, RefreshShared
<1>6. QED
  BY <1>3, <1>4, <1>5, IdleTyped, FamilyRequest

\* Requests keep what they ask for, and rows are revoked, never revived.
LEMMA FamilyRevokes ==
  ASSUME FamilyInvariant,
         TypeInvariant', tab' = tab, Len(tokens') = Len(tokens),
         \A t \in 1..Len(tokens) :
            /\ tokens'[t].family = tokens[t].family
            /\ ~tokens'[t].revoked => ~tokens[t].revoked,
         \A g \in Handlers :
            /\ request'[g].op = request[g].op /\ request'[g].tab = request[g].tab
            /\ request'[g].token = request[g].token
            /\ request'[g].phase \in {request[g].phase, "answered"}
  PROVE  FamilyLinear' /\ FamiliesBounded' /\ RefreshShared' /\ RotatesNewest'
<1>1. TypeInvariant /\ DOMAIN tokens = 1..Len(tokens) /\ Len(tokens) \in Nat
  BY TokensDomain DEF FamilyInvariant
<1>2. DOMAIN tokens' = 1..Len(tokens)
  BY DEF TypeInvariant, TypeOK
<1>3. FamilyLinear'
  BY <1>1, <1>2 DEF FamilyInvariant, FamilyLinear, Live
<1>4. FamiliesBounded' /\ RefreshShared'
  BY DEF FamilyInvariant, FamiliesBounded, RefreshShared, Refreshing
<1>5. RotatesNewest'
  <2> SUFFICES ASSUME NEW g \in Handlers, request'[g].op = "refresh",
                      request'[g].phase \in {"live", "ready"},
                      NEW t \in 1..Len(tokens), ~tokens'[t].revoked,
                      tokens'[t].family = tokens'[request'[g].token].family
               PROVE  t = request'[g].token
    BY DEF RotatesNewest, Newest, Refreshing, Live
  <2>1. Refreshing(g) /\ request[g].phase \in {"live", "ready"}
    BY DEF Refreshing
  <2>2. request[g].token \in 1..Len(tokens)
    BY <1>1, <2>1 DEF TypeInvariant, Formed, Refreshing
  <2>3. QED
    BY <2>1, <2>2 DEF FamilyInvariant, RotatesNewest, Newest, Live
<1>6. QED
  BY <1>3, <1>4, <1>5

LEMMA FamilyCommit ==
  ASSUME FamilyInvariant, NEW h \in Handlers,
         StatusCommit(h) \/ LogoutCommit(h) \/ EnrolCommit(h)
  PROVE  FamilyLinear' /\ FamiliesBounded' /\ RefreshShared' /\ RotatesNewest'
<1>1. TypeInvariant /\ TypeOK /\ TypeInvariant' /\ tab' = tab
  BY StatusTyped, LogoutTyped, EnrolTyped
  DEF FamilyInvariant, TypeInvariant, StatusCommit, LogoutCommit, EnrolCommit
<1>2. Len(tokens) \in Nat /\ DOMAIN tokens = 1..Len(tokens)
      /\ \A t \in 1..Len(tokens) : tokens[t] \in Token
  BY <1>1, TokensDomain
<1>3. /\ Len(tokens') = Len(tokens)
      /\ \A t \in 1..Len(tokens) :
           /\ tokens'[t].family = tokens[t].family
           /\ ~tokens'[t].revoked => ~tokens[t].revoked
  <2>1. CASE StatusCommit(h)
    BY <1>1, <1>2, <2>1, StatusCommitTokens DEF Revoked, Token
  <2>2. CASE LogoutCommit(h)
    BY <1>1, <1>2, <2>2, LogoutEffect DEF Token
  <2>3. CASE EnrolCommit(h)
    BY <2>3 DEF EnrolCommit
  <2>4. QED
    BY <2>1, <2>2, <2>3
<1>4. \A g \in Handlers :
        /\ request'[g].op = request[g].op /\ request'[g].tab = request[g].tab
        /\ request'[g].token = request[g].token
        /\ request'[g].phase \in {request[g].phase, "answered"}
  <2>1. CASE StatusCommit(h)
    <3>1. PICK late \in [Handlers -> BOOLEAN] :
            request' = [g \in Handlers |->
                          IF g = h THEN [request[h] EXCEPT !.phase = "answered"]
                                   ELSE [request[g] EXCEPT !.late = late[g]]]
      BY <1>1, <2>1, StatusCommitRequests
    <3>2. QED
      BY <1>1, <3>1, RequestTyped DEF Request
  <2>2. CASE LogoutCommit(h) \/ EnrolCommit(h)
    <3>1. request' = [request EXCEPT ![h] = [request[h] EXCEPT !.phase = "answered"]]
      BY <2>2 DEF LogoutCommit, EnrolCommit
    <3>2. \A g \in Handlers : request[g] \in Request
      BY <1>1, RequestTyped
    <3>3. QED
      BY <1>1, <3>1, <3>2 DEF TypeOK, Request
  <2>3. QED
    BY <2>1, <2>2
<1>5. QED
  BY <1>1, <1>3, <1>4, FamilyRevokes

LEMMA FamilyIssue ==
  ASSUME FamilyInvariant, NEW h \in Handlers, IssueCommit(h)
  PROVE  FamilyLinear' /\ FamiliesBounded' /\ RefreshShared' /\ RotatesNewest'
<1> DEFINE r == request[h]
           n == Len(tokens) + 1
           family == IF r.op = "refresh" THEN tokens[r.token].family ELSE n
<1>1. TypeInvariant /\ TypeInvariant' /\ tab' = tab
  BY IssueTyped DEF FamilyInvariant, IssueCommit
<1>2. /\ Len(tokens) \in Nat /\ DOMAIN tokens = 1..Len(tokens)
      /\ \A t \in 1..Len(tokens) : tokens[t] \in Token
      /\ Len(tokens') = n /\ DOMAIN tokens' = 1..n
      /\ r.phase = "ready" /\ (r.op = "refresh" => r.token \in 1..Len(tokens))
  BY <1>1, IssueEffect, TokensDomain
<1>3. /\ tokens'[n].family = family
      /\ \A t \in 1..Len(tokens) :
           /\ tokens'[t].family = tokens[t].family
           /\ ~tokens'[t].revoked => ~tokens[t].revoked
      /\ r.op = "refresh" => tokens'[r.token].revoked
  <2>1. PICK late :
          tokens'[n] = [user |-> r.user, revoked |-> FALSE, family |-> family, late |-> late]
    BY <1>1, IssueEffect
  <2>2. \A t \in 1..Len(tokens) :
          tokens'[t] = IF r.op = "refresh" /\ t = r.token
                       THEN [tokens[t] EXCEPT !.revoked = TRUE] ELSE tokens[t]
    BY <1>1, IssueEffect
  <2> HIDE DEF family
  <2>3. tokens'[n].family = family
    BY <2>1
  <2>4. QED
    BY <1>2, <2>2, <2>3 DEF Token
<1>4. /\ \A g \in Handlers : g # h => request'[g] = request[g]
      /\ request'[h].op = r.op /\ request'[h].tab = r.tab /\ request'[h].phase = "answered"
  BY <1>1, IssueEffect
<1>5. r.op = "refresh" => Newest(r.token)
  BY <1>2 DEF FamilyInvariant, RotatesNewest, Refreshing
<1>6. ASSUME NEW t \in 1..Len(tokens), ~tokens'[t].revoked, tokens'[t].family = family
      PROVE  FALSE
  <2>1. CASE r.op = "refresh"
    BY <1>2, <1>3, <1>5, <1>6, <2>1 DEF Newest, Live
  <2>2. CASE r.op # "refresh"
    BY <1>2, <1>3, <1>6, <2>2 DEF FamilyInvariant, FamiliesBounded
  <2>3. QED
    BY <2>1, <2>2
<1>7. FamilyLinear'
  <2> SUFFICES ASSUME NEW s \in 1..n, NEW t \in 1..n, ~tokens'[s].revoked,
                      ~tokens'[t].revoked, tokens'[s].family = tokens'[t].family
               PROVE  s = t
    BY <1>2 DEF FamilyLinear, Live
  <2>1. CASE s \in 1..Len(tokens) /\ t \in 1..Len(tokens)
    BY <1>2, <1>3, <2>1 DEF FamilyInvariant, FamilyLinear, Live
  <2>2. CASE s = n /\ t \in 1..Len(tokens)
    BY <1>3, <1>6, <2>2
  <2>3. CASE s \in 1..Len(tokens) /\ t = n
    BY <1>3, <1>6, <2>3
  <2>4. QED
    BY <1>2, <2>1, <2>2, <2>3
<1>8. FamiliesBounded'
  <2>1. family \in 1..n
    BY <1>2 DEF FamilyInvariant, FamiliesBounded
  <2> HIDE DEF family
  <2>2. ASSUME NEW t \in 1..n
        PROVE  tokens'[t].family \in 1..t
    <3>1. CASE t = n
      BY <1>3, <2>1, <3>1
    <3>2. CASE t \in 1..Len(tokens)
      BY <1>3, <3>2 DEF FamilyInvariant, FamiliesBounded
    <3>3. QED
      BY <1>2, <3>1, <3>2
  <2>3. QED
    BY <1>2, <2>2 DEF FamiliesBounded
<1>9. RefreshShared'
  <2>1. \A g \in Handlers : request'[g].op = request[g].op /\ request'[g].tab = request[g].tab
    BY <1>4
  <2>2. QED
    BY <1>1, <2>1 DEF FamilyInvariant, RefreshShared, Refreshing
<1>10. RotatesNewest'
  <2> SUFFICES ASSUME NEW g \in Handlers, request'[g].op = "refresh",
                      request'[g].phase \in {"live", "ready"},
                      NEW t \in 1..n, ~tokens'[t].revoked,
                      tokens'[t].family = tokens'[request'[g].token].family
               PROVE  t = request'[g].token
    BY <1>2 DEF RotatesNewest, Newest, Refreshing, Live
  <2>1. g # h /\ request'[g] = request[g] /\ Refreshing(g)
    BY <1>4 DEF Refreshing
  <2>2. r.op # "refresh"
    BY <2>1 DEF FamilyInvariant, RefreshShared, Refreshing
  <2>3. request[g].token \in 1..Len(tokens)
    BY <1>1, <2>1 DEF TypeInvariant, Formed, Refreshing
  <2>4. Newest(request[g].token)
    BY <2>1 DEF FamilyInvariant, RotatesNewest
  <2>5. CASE t = n
    BY <1>2, <1>3, <2>1, <2>2, <2>3, <2>5 DEF FamilyInvariant, FamiliesBounded
  <2>6. CASE t \in 1..Len(tokens)
    BY <1>3, <2>1, <2>3, <2>4, <2>6 DEF Newest, Live
  <2>7. QED
    BY <1>2, <2>5, <2>6
<1>11. QED
  BY <1>7, <1>8, <1>9, <1>10

\* With one tab a login has one token that refreshes it, however refreshes,
\* logouts, failures, lost answers and suspensions fall together: a rotation
\* revokes what it rotates, and the tab's calls share the refresh in flight
\* (service.refresh_tokens, api.ts tryRefresh).
THEOREM FamiliesAreLinear == OneTab /\ Spec => []FamilyLinear
<1> SUFFICES ASSUME OneTab
             PROVE  Spec => []FamilyLinear
  OBVIOUS
<1>1. Init => FamilyInvariant
  <2> SUFFICES ASSUME Init
               PROVE  FamilyInvariant
    OBVIOUS
  <2>1. tokens = <<>> /\ \A h \in Handlers : request[h].op = "none"
    BY DEF Init, Idle
  <2>2. QED
    BY <2>1, TypeInit
    DEF FamilyInvariant, FamilyLinear, FamiliesBounded, RefreshShared, RotatesNewest,
        Refreshing
<1>2. FamilyInvariant /\ [Next]_vars => FamilyInvariant'
  <2> SUFFICES ASSUME FamilyInvariant, [Next]_vars
               PROVE  FamilyLinear' /\ FamiliesBounded' /\ RefreshShared' /\ RotatesNewest'
    BY TypeStep DEF FamilyInvariant
  <2>1. CASE UNCHANGED <<tokens, request, tab>>
    BY <2>1
    DEF FamilyInvariant, FamilyLinear, FamiliesBounded, RefreshShared, RotatesNewest,
        Refreshing, Newest, Live
  <2>2. CASE \E t \in Tabs : JoinRefresh(t)
    <3>1. PICK t \in Tabs : JoinRefresh(t)
      BY <2>2
    <3>2. /\ UNCHANGED <<tokens, request>>
          /\ \A s \in Tabs : tab'[s].promise = tab[s].promise
      BY <3>1, TabsTyped DEF FamilyInvariant, JoinRefresh, TabState
    <3>3. \A h \in Handlers : Refreshing(h) => request[h].tab \in Tabs
      BY DEF FamilyInvariant, TypeInvariant, Formed, Refreshing, Issuing
    <3>4. QED
      BY <3>2, <3>3
      DEF FamilyInvariant, FamilyLinear, FamiliesBounded, RefreshShared, RotatesNewest,
          Refreshing, Newest, Live
  <2>3. CASE \E h \in Handlers : Arrive(h) \/ Step(h)
    BY <2>3, FamilyArrive, FamilyStep, FamilyAnswer, FamilyCommit, FamilyIssue
    DEF Step, Advance
  <2>4. QED
    BY <2>1, <2>2, <2>3 DEF Next, Tick, vars
<1>3. FamilyInvariant => FamilyLinear
  BY DEF FamilyInvariant
<1>4. QED
  BY <1>1, <1>2, <1>3, PTL DEF Spec

(***************************************************************************)
(* The last administrator.  One request at a time changes a status, so     *)
(* the administrator a suspension counted on is still active when it       *)
(* commits.                                                                *)
(***************************************************************************)
AnotherAdministrator(u) == \E a \in ActiveAdministrators : a # u

DecidedSafely ==
    \A h \in Handlers :
        request[h].op = "status" /\ request[h].phase \in {"ready", "written"}
            /\ request[h].status = "disabled"
            => AnotherAdministrator(request[h].user)

OneStatusRequest ==
    /\ \A g, h \in Handlers : request[g].op = "status" /\ request[h].op = "status" => g = h
    /\ \A h \in Handlers : request[h].op = "status" => request[h].status \in Requested

AdministratorInvariant ==
    TypeInvariant /\ ActiveAdministrators # {} /\ OneStatusRequest /\ DecidedSafely

LEMMA AdministratorKept ==
  ASSUME AdministratorInvariant,
         \A u \in Users : users'[u].status = users[u].status,
         \A g \in Handlers : request'[g].op = "status" =>
            /\ request[g].op = "status" /\ request'[g].user = request[g].user
            /\ request'[g].status = request[g].status
            /\ request'[g].phase \in {"ready", "written"} =>
                 request[g].phase \in {"ready", "written"}
  PROVE  ActiveAdministrators' # {} /\ OneStatusRequest' /\ DecidedSafely'
<1>1. ActiveAdministrators' = ActiveAdministrators
  BY SessionsAssumption DEF ActiveAdministrators, Active
<1>2. QED
  BY <1>1
  DEF AdministratorInvariant, OneStatusRequest, DecidedSafely, AnotherAdministrator

LEMMA AdministratorArrive ==
  ASSUME "status" \in Alone, AdministratorInvariant, NEW h \in Handlers, Arrive(h)
  PROVE  ActiveAdministrators' # {} /\ OneStatusRequest' /\ DecidedSafely'
<1>1. PICK r \in Request :
        /\ request' = [request EXCEPT ![h] = r] /\ Free(h, r.op) /\ Arrived(r)
        /\ UNCHANGED <<users, tokens, cookie, now, accepted>>
  BY Arrivals DEF AdministratorInvariant
<1>2. \A g \in Handlers : request'[g] = IF g = h THEN r ELSE request[g]
  BY <1>1 DEF AdministratorInvariant, TypeInvariant, TypeOK
<1>3. ActiveAdministrators' = ActiveAdministrators
  BY <1>1 DEF ActiveAdministrators, Active
<1>4. r.op = "status" => r.phase = "begun" /\ r.status \in Requested
  BY <1>1 DEF Arrived
<1>5. ASSUME r.op = "status", NEW g \in Handlers
      PROVE  request[g].op # "status"
  BY <1>1, <1>5, Kinds, Vocabulary DEF Free
<1>6. OneStatusRequest'
  BY <1>2, <1>4, <1>5 DEF AdministratorInvariant, OneStatusRequest
<1>7. DecidedSafely'
  BY <1>2, <1>3, <1>4 DEF AdministratorInvariant, DecidedSafely, AnotherAdministrator
<1>8. QED
  BY <1>3, <1>6, <1>7 DEF AdministratorInvariant

LEMMA AdministratorDecide ==
  ASSUME AdministratorInvariant, NEW h \in Handlers, Decide(h)
  PROVE  ActiveAdministrators' # {} /\ OneStatusRequest' /\ DecidedSafely'
<1> DEFINE r == request[h]
<1>1. TypeInvariant /\ r \in Request
  BY RequestTyped DEF AdministratorInvariant, TypeInvariant
<1>2. /\ users' = users
      /\ \A g \in Handlers :
           /\ g # h => request'[g] = request[g]
           /\ request'[g].op = request[g].op /\ request'[g].user = request[g].user
           /\ request'[g].status = request[g].status
  BY <1>1 DEF Decide, TypeInvariant, TypeOK, Request
<1>3. ActiveAdministrators' = ActiveAdministrators
  BY <1>2 DEF ActiveAdministrators, Active
<1>4. ASSUME r.status = "disabled"
      PROVE  AnotherAdministrator(r.user)
  <2>1. CASE r.user \notin ActiveAdministrators
    BY <2>1 DEF AdministratorInvariant, AnotherAdministrator
  <2>2. CASE r.user \in ActiveAdministrators
    <3>1. Cardinality(ActiveAdministrators) > 1
      BY <1>4, <2>2 DEF Decide
    <3>2. SUFFICES ASSUME ActiveAdministrators = {r.user}
                   PROVE  FALSE
      BY <2>2 DEF AnotherAdministrator
    <3>3. Cardinality(ActiveAdministrators) = 1
      BY <3>2, FS_Singleton
    <3>4. QED
      BY <3>1, <3>3
  <2>3. QED
    BY <2>1, <2>2
<1>5. OneStatusRequest'
  BY <1>2 DEF AdministratorInvariant, OneStatusRequest
<1>6. DecidedSafely'
  BY <1>2, <1>3, <1>4 DEF AdministratorInvariant, DecidedSafely, AnotherAdministrator
<1>7. QED
  BY <1>3, <1>5, <1>6 DEF AdministratorInvariant

LEMMA AdministratorCommit ==
  ASSUME "invited" \notin Requested, AdministratorInvariant,
         NEW h \in Handlers, StatusCommit(h)
  PROVE  ActiveAdministrators' # {} /\ OneStatusRequest' /\ DecidedSafely'
<1> DEFINE r == request[h]
<1>1. TypeInvariant /\ r \in Request /\ Step(h)
  BY RequestTyped DEF AdministratorInvariant, TypeInvariant, Step, Advance
<1>2. r.op = "status" /\ r.phase = "written" /\ r.user \in Users
  BY <1>1 DEF StatusCommit, TypeInvariant, Formed
<1>3. r.status \in {"active", "disabled"}
  BY <1>2, SessionsAssumption DEF AdministratorInvariant, OneStatusRequest
<1>4. \A u \in Users :
        /\ users'[u].status = users[u].status \/ (u = r.user /\ users'[u].status = r.status)
  BY <1>1, <1>2 DEF StatusCommit, TypeInvariant, TypeOK, User
<1>5. ActiveAdministrators' # {}
  <2>1. PICK a \in ActiveAdministrators : r.status = "disabled" => a # r.user
    BY <1>2 DEF AdministratorInvariant, DecidedSafely, AnotherAdministrator
  <2>2. a \in Users
    BY SessionsAssumption DEF ActiveAdministrators
  <2>3. a \in ActiveAdministrators'
    BY <1>3, <1>4, <2>1, <2>2 DEF ActiveAdministrators, Active
  <2>4. QED
    BY <2>3
<1>6. \A g \in Handlers :
        /\ request'[g].op = request[g].op /\ request'[g].status = request[g].status
        /\ request[g].op = "status" => g = h
  <2>1. request'[h].phase = "answered"
    BY <1>1 DEF StatusCommit, TypeInvariant, TypeOK, Request
  <2>2. Idle.phase = "idle"
    BY DEF Idle
  <2>3. QED
    BY <1>1, <1>2, <2>1, <2>2, StepFrame DEF AdministratorInvariant, OneStatusRequest
<1>7. request'[h].phase = "answered"
  BY <1>1 DEF StatusCommit, TypeInvariant, TypeOK, Request
<1>8. OneStatusRequest' /\ DecidedSafely'
  BY <1>6, <1>7 DEF AdministratorInvariant, OneStatusRequest, DecidedSafely
<1>9. QED
  BY <1>5, <1>8

LEMMA AdministratorStep ==
  ASSUME AdministratorInvariant, NEW h \in Handlers, Step(h),
         ~StatusCommit(h), ~Decide(h)
  PROVE  ActiveAdministrators' # {} /\ OneStatusRequest' /\ DecidedSafely'
<1>1. TypeInvariant /\ request[h] \in Request /\ Idle.op = "none"
  BY RequestTyped DEF AdministratorInvariant, TypeInvariant, Idle
<1>2. \A u \in Users : users'[u].status = users[u].status
  BY <1>1, StatusesKept
<1>3. ASSUME request'[h].op = "status", request'[h].phase \in {"ready", "written"}
      PROVE  request[h].phase \in {"ready", "written"}
  <2> USE <1>1, <1>3 DEF TypeInvariant, TypeOK, Request
  <2>1. CASE ReadToken(h) \/ ReadUser(h)
    <3>1. request[h].op = "refresh"
      BY <2>1 DEF ReadToken, ReadUser, Formed
    <3>2. QED
      BY <3>1, StepFrame
  <2>2. CASE StatusWrite(h)
    BY <2>2 DEF StatusWrite
  <2>3. CASE ReuseDetected(h) \/ Fail(h)
    BY <2>3 DEF ReuseDetected, Fail
  <2>4. CASE IssueCommit(h) \/ LogoutCommit(h) \/ EnrolCommit(h)
    BY <2>4 DEF IssueCommit, LogoutCommit, EnrolCommit
  <2>5. CASE Deliver(h) \/ Lose(h)
    BY <2>5 DEF Deliver, Lose, Answer
  <2>6. QED
    BY <2>1, <2>2, <2>3, <2>4, <2>5 DEF Step, Advance
<1>4. ASSUME NEW g \in Handlers, request'[g].op = "status"
      PROVE  /\ request[g].op = "status" /\ request'[g].user = request[g].user
             /\ request'[g].status = request[g].status
             /\ request'[g].phase \in {"ready", "written"} =>
                  request[g].phase \in {"ready", "written"}
  BY <1>1, <1>3, <1>4, StepFrame
<1>5. QED
  BY <1>2, <1>4, AdministratorKept

\* An administrator stays active, whoever may manage users and whatever else
\* goes on, as long as status requests do not overlap and none asks for
\* "invited" (the count of service.update_user_status).
THEOREM AnAdministratorIsLeft == Administrators # {} /\ Spec => []AdministratorLeft
<1> SUFFICES ASSUME Administrators # {}
             PROVE  Spec => []AdministratorLeft
  OBVIOUS
<1>1. CASE "status" \in Alone /\ "invited" \notin Requested
  <2>1. Init => AdministratorInvariant
    <3> SUFFICES ASSUME Init
                 PROVE  AdministratorInvariant
      OBVIOUS
    <3>1. \A h \in Handlers : request[h].op = "none"
      BY DEF Init, Idle
    <3>2. \A u \in Users : users[u].status = "active"
      BY DEF Init
    <3>3. ActiveAdministrators # {}
      BY <3>2, SessionsAssumption DEF ActiveAdministrators, Active
    <3>4. QED
      BY <3>1, <3>3, TypeInit DEF AdministratorInvariant, OneStatusRequest, DecidedSafely
  <2>2. AdministratorInvariant /\ [Next]_vars => AdministratorInvariant'
    <3> SUFFICES ASSUME AdministratorInvariant, [Next]_vars
                 PROVE  ActiveAdministrators' # {} /\ OneStatusRequest' /\ DecidedSafely'
      BY TypeStep DEF AdministratorInvariant
    <3>1. CASE UNCHANGED <<users, request>>
      BY <3>1, AdministratorKept
    <3>2. CASE \E h \in Handlers : Arrive(h)
      BY <1>1, <3>2, AdministratorArrive
    <3>3. CASE \E h \in Handlers : Step(h)
      BY <1>1, <3>3, AdministratorStep, AdministratorDecide, AdministratorCommit
    <3>4. QED
      BY <3>1, <3>2, <3>3 DEF Next, Tick, JoinRefresh, vars
  <2>3. AdministratorInvariant => AdministratorLeft
    BY DEF AdministratorInvariant, AdministratorLeft
  <2>4. QED
    BY <2>1, <2>2, <2>3, PTL DEF Spec
<1>2. CASE ~("status" \in Alone /\ "invited" \notin Requested)
  <2>1. AdministratorLeft
    BY <1>2 DEF AdministratorLeft
  <2>2. QED
    BY <2>1, PTL
<1>3. QED
  BY <1>1, <1>2

(***************************************************************************)
(* One-time codes.  One request at a time verifies or enrols, so the step  *)
(* and the secret it has read are still the row's when it commits.         *)
(***************************************************************************)
Verifying(h) == request[h].op \in {"verify"} \cup Enrolment

AcceptedInOrder ==
    \A i, j \in 1..Len(accepted) :
        i < j /\ accepted[i].user = accepted[j].user
              /\ accepted[i].code.secret = accepted[j].code.secret
            => accepted[i].code.step < accepted[j].code.step

FactorProven ==
    \A u \in Users :
        users[u].enabled => users[u].secret = 1
            \/ \E i \in 1..Len(accepted) : accepted[i].user = u
                                         /\ accepted[i].code.secret = users[u].secret

\* The row remembers the last step accepted with its secret.
StepRemembered ==
    \A i \in 1..Len(accepted) :
        accepted[i].code.secret = users[accepted[i].user].secret
            => accepted[i].code.step <= users[accepted[i].user].step

SecretsMinted ==
    /\ minted >= 1
    /\ \A u \in Users : users[u].secret <= minted
    /\ \A i \in 1..Len(accepted) : accepted[i].code.secret \in 1..minted

OneVerifying == \A g, h \in Handlers : Verifying(g) /\ Verifying(h) => g = h

CodeStillGood ==
    \A h \in Handlers :
        request[h].op \in {"verify", "confirm", "disable"} /\ request[h].phase = "ready" =>
            /\ request[h].code.secret = users[request[h].user].secret
            /\ request[h].code.secret # 0
            /\ request[h].code.step > users[request[h].user].step

SecretStillFresh ==
    \A h \in Handlers :
        request[h].op = "enroll" /\ request[h].phase = "ready" =>
            /\ ~users[request[h].user].enabled
            /\ request[h].code.secret <= minted
            /\ \A i \in 1..Len(accepted) : accepted[i].code.secret # request[h].code.secret

CodesFacts ==
    /\ AcceptedInOrder /\ FactorProven /\ StepRemembered /\ SecretsMinted
    /\ OneVerifying /\ CodeStillGood /\ SecretStillFresh

CodesInvariant == TypeInvariant /\ CodesFacts

LEMMA RowsTyped ==
  ASSUME TypeInvariant
  PROVE  /\ \A u \in Users : /\ users[u] \in User /\ users[u].secret \in Nat
                             /\ users[u].step \in Nat
         /\ minted \in Nat
         /\ accepted \in Seq([user : Users, code : Code])
         /\ Len(accepted) \in Nat /\ DOMAIN accepted = 1..Len(accepted)
         /\ \A i \in 1..Len(accepted) :
              /\ accepted[i].user \in Users /\ accepted[i].code \in Code
              /\ accepted[i].code.secret \in Nat /\ accepted[i].code.step \in Nat
         /\ \A h \in Handlers : request[h].code.secret \in Nat /\ request[h].code.step \in Nat
<1>1. TypeOK /\ \A h \in Handlers : request[h] \in Request
  BY RequestTyped DEF TypeInvariant
<1>2. \A c \in Code : c.secret \in Nat /\ c.step \in Nat
  BY SessionsAssumption DEF Code
<1>3. \A u \in Users : users[u] \in User
  BY <1>1 DEF TypeOK
<1>4. \A u \in Users : users[u].secret \in Nat /\ users[u].step \in Nat
  BY <1>3, SessionsAssumption DEF User
<1>5. accepted \in Seq([user : Users, code : Code]) /\ minted \in Nat
  BY <1>1, SessionsAssumption DEF TypeOK
<1>6. \A i \in 1..Len(accepted) : accepted[i] \in [user : Users, code : Code]
  BY <1>5, ElementOfSeq
<1>7. QED
  BY <1>1, <1>2, <1>3, <1>4, <1>5, <1>6 DEF Request

LEMMA CodesKept ==
  ASSUME CodesInvariant, accepted' = accepted, minted' = minted,
         \A u \in Users :
            /\ users'[u].secret = users[u].secret /\ users'[u].enabled = users[u].enabled
            /\ users'[u].step = users[u].step,
         \A g \in Handlers : Verifying(g)' =>
            /\ request'[g].op = request[g].op /\ request'[g].user = request[g].user
            /\ request'[g].code = request[g].code
            /\ request'[g].phase = "ready" => request[g].phase = "ready"
  PROVE  CodesFacts'
<1>1. TypeInvariant /\ CodesFacts
  BY DEF CodesInvariant
<1>2. \A i \in 1..Len(accepted) : accepted[i].user \in Users
  BY <1>1, RowsTyped
<1>3. AcceptedInOrder' /\ FactorProven' /\ StepRemembered' /\ SecretsMinted'
  BY <1>1, <1>2 DEF CodesFacts, AcceptedInOrder, FactorProven, StepRemembered, SecretsMinted
<1>4. OneVerifying'
  BY <1>1 DEF CodesFacts, OneVerifying, Verifying
<1>5. \A g \in Handlers : Verifying(g) => request[g].user \in Users
  BY <1>1 DEF TypeInvariant, Formed, Verifying, Enrolment
<1>6. CodeStillGood'
  BY <1>1, <1>5 DEF CodesFacts, CodeStillGood, Verifying, Enrolment
<1>7. SecretStillFresh'
  BY <1>1, <1>5 DEF CodesFacts, SecretStillFresh, Verifying, Enrolment
<1>8. QED
  BY <1>3, <1>4, <1>6, <1>7 DEF CodesFacts

LEMMA CodesArrive ==
  ASSUME "mfa" \in Alone, CodesInvariant, NEW h \in Handlers, Arrive(h)
  PROVE  CodesFacts'
<1>1. TypeInvariant /\ CodesFacts
  BY DEF CodesInvariant
<1>2. PICK r \in Request :
        /\ request' = [request EXCEPT ![h] = r] /\ Free(h, r.op) /\ Arrived(r)
        /\ UNCHANGED <<users, tokens, cookie, now, accepted>>
  BY <1>1, Arrivals
<1>3. \A g \in Handlers : request'[g] = IF g = h THEN r ELSE request[g]
  BY <1>1, <1>2 DEF TypeInvariant, TypeOK
<1>4. CASE r.op \notin {"verify"} \cup Enrolment
  <2>1. minted' = minted
    BY <1>2, <1>4 DEF Arrived, Enrolment
  <2>2. QED
    BY <1>2, <1>3, <1>4, <2>1, CodesKept DEF Verifying
<1>5. CASE r.op \in {"verify"} \cup Enrolment
  <2>1. ASSUME NEW g \in Handlers, Verifying(g)
        PROVE  FALSE
    <3>1. Kind(r.op) = "mfa" /\ Kind(request[g].op) = "mfa" /\ request[g].op \in Operation
      BY <1>5, <2>1, Kinds DEF Verifying, Operation, Issuing
    <3>2. QED
      BY <1>2, <3>1 DEF Free
  <2>2. minted \in Nat /\ minted' \in {minted, minted + 1}
    BY <1>1, <1>2, RowsTyped DEF Arrived
  <2>3. \A i \in 1..Len(accepted) : accepted[i].code.secret \in Nat
    BY <1>1, RowsTyped
  <2>4. \A u \in Users : users[u].secret \in Nat
    BY <1>1, RowsTyped
  <2>5. AcceptedInOrder' /\ FactorProven' /\ StepRemembered'
    BY <1>1, <1>2 DEF CodesFacts, AcceptedInOrder, FactorProven, StepRemembered
  <2>6. SecretsMinted'
    BY <1>1, <1>2, <2>2, <2>3, <2>4 DEF CodesFacts, SecretsMinted
  <2>7. OneVerifying'
    BY <1>3, <2>1 DEF OneVerifying, Verifying
  <2>8. CodeStillGood'
    <3> SUFFICES ASSUME NEW g \in Handlers, request'[g].op \in {"verify", "confirm", "disable"}
                 PROVE  /\ request'[g].code.secret = users[request'[g].user].secret
                        /\ request'[g].code.secret # 0
                        /\ request'[g].code.step > users[request'[g].user].step
      BY <1>2 DEF CodeStillGood
    <3>1. request'[g] = r
      BY <1>3, <2>1 DEF Verifying, Enrolment
    <3>2. Matches(users[r.user], r.code)
      BY <1>2, <3>1 DEF Arrived
    <3>3. QED
      BY <3>1, <3>2 DEF Matches
  <2>9. SecretStillFresh'
    <3> SUFFICES ASSUME NEW g \in Handlers, request'[g].op = "enroll"
                 PROVE  /\ ~users[request'[g].user].enabled
                        /\ request'[g].code.secret <= minted'
                        /\ \A i \in 1..Len(accepted) :
                             accepted[i].code.secret # request'[g].code.secret
      BY <1>2 DEF SecretStillFresh
    <3>1. request'[g] = r
      BY <1>3, <2>1 DEF Verifying, Enrolment
    <3>2. /\ minted' = minted + 1 /\ r.code.secret = minted + 1 /\ ~users[r.user].enabled
      BY <1>2, <3>1 DEF Arrived
    <3>3. QED
      BY <1>1, <2>2, <2>3, <3>1, <3>2 DEF CodesFacts, SecretsMinted
  <2>10. QED
    BY <2>5, <2>6, <2>7, <2>8, <2>9 DEF CodesFacts
<1>6. QED
  BY <1>4, <1>5

\* A verification, a confirmation or a disabling commits with its code.
LEMMA CodesAccept ==
  ASSUME CodesInvariant, NEW h \in Handlers,
         request[h].op \in {"verify", "confirm", "disable"}, request[h].phase = "ready",
         request'[h].phase = "answered", request'[h].op = request[h].op,
         \A g \in Handlers : g # h => request'[g].op = request[g].op,
         minted' = minted,
         accepted' = Append(accepted, [user |-> request[h].user, code |-> request[h].code]),
         \A u \in Users : u # request[h].user => users'[u] = users[u],
         \/ /\ users'[request[h].user].secret = users[request[h].user].secret
            /\ users'[request[h].user].step = request[h].code.step
         \/ /\ users'[request[h].user].secret = 0
            /\ ~users'[request[h].user].enabled
  PROVE  CodesFacts'
<1> DEFINE r == request[h]
           u == r.user
           m == Len(accepted) + 1
<1>1. TypeInvariant /\ CodesFacts
  BY DEF CodesInvariant
<1>2. /\ u \in Users /\ r.code.secret \in Nat /\ r.code.step \in Nat
      /\ minted \in Nat /\ Len(accepted) \in Nat
      /\ \A v \in Users : users[v].secret \in Nat /\ users[v].step \in Nat
      /\ \A i \in 1..Len(accepted) :
           /\ accepted[i].user \in Users
           /\ accepted[i].code.secret \in Nat /\ accepted[i].code.step \in Nat
  BY <1>1, RowsTyped DEF TypeInvariant, Formed, Enrolment
<1>3. /\ Len(accepted') = m
      /\ accepted'[m].user = u /\ accepted'[m].code = r.code
      /\ \A i \in 1..Len(accepted) : accepted'[i] = accepted[i]
  <2>1. [user |-> u, code |-> r.code] \in [user : Users, code : Code]
    BY <1>1, <1>2, RequestTyped DEF Request, TypeInvariant
  <2>2. accepted \in Seq([user : Users, code : Code])
    BY <1>1, RowsTyped
  <2>3. accepted'[m] = [user |-> u, code |-> r.code]
    BY <2>1, <2>2, AppendProperties
  <2>4. QED
    BY <2>1, <2>2, <2>3, AppendProperties
<1>4. /\ r.code.secret = users[u].secret /\ r.code.secret # 0 /\ r.code.step > users[u].step
  BY <1>1 DEF CodesFacts, CodeStillGood
<1>5. \A i \in 1..Len(accepted) :
        accepted[i].user = u /\ accepted[i].code.secret = r.code.secret
          => accepted[i].code.step < r.code.step
  BY <1>1, <1>2, <1>4 DEF CodesFacts, StepRemembered
<1>6. \A i \in 1..m : i = m \/ i \in 1..Len(accepted)
  BY <1>2
<1>7. AcceptedInOrder'
  <2> SUFFICES ASSUME NEW i \in 1..m, NEW j \in 1..m, i < j,
                      accepted'[i].user = accepted'[j].user,
                      accepted'[i].code.secret = accepted'[j].code.secret
               PROVE  accepted'[i].code.step < accepted'[j].code.step
    BY <1>3 DEF AcceptedInOrder
  <2>1. i \in 1..Len(accepted)
    BY <1>2, <1>6
  <2>2. CASE j = m
    BY <1>3, <1>5, <2>1, <2>2
  <2>3. CASE j \in 1..Len(accepted)
    BY <1>1, <1>3, <2>1, <2>3 DEF CodesFacts, AcceptedInOrder
  <2>4. QED
    BY <1>6, <2>2, <2>3
<1>8. FactorProven'
  <2> SUFFICES ASSUME NEW v \in Users, users'[v].enabled, users'[v].secret # 1
               PROVE  \E i \in 1..m : accepted'[i].user = v
                                    /\ accepted'[i].code.secret = users'[v].secret
    BY <1>3 DEF FactorProven
  <2>1. CASE v = u
    BY <1>2, <1>3, <1>4, <2>1
  <2>2. CASE v # u
    <3>1. PICK i \in 1..Len(accepted) : accepted[i].user = v
                                      /\ accepted[i].code.secret = users[v].secret
      BY <1>1, <2>2 DEF CodesFacts, FactorProven
    <3>2. QED
      BY <1>2, <1>3, <2>2, <3>1
  <2>3. QED
    BY <2>1, <2>2
<1>9. StepRemembered'
  <2> SUFFICES ASSUME NEW i \in 1..m,
                      accepted'[i].code.secret = users'[accepted'[i].user].secret
               PROVE  accepted'[i].code.step <= users'[accepted'[i].user].step
    BY <1>3 DEF StepRemembered
  <2>1. CASE i = m
    BY <1>2, <1>3, <1>4, <2>1
  <2>2. CASE i \in 1..Len(accepted) /\ accepted[i].user = u
    <3>1. accepted[i].code.secret # 0
      BY <1>1, <2>2 DEF CodesFacts, SecretsMinted
    <3>2. QED
      BY <1>2, <1>3, <1>4, <1>5, <2>2, <3>1
  <2>3. CASE i \in 1..Len(accepted) /\ accepted[i].user # u
    <3>1. users'[accepted[i].user] = users[accepted[i].user]
      BY <1>2, <2>3
    <3>2. QED
      BY <1>1, <1>3, <2>3, <3>1 DEF CodesFacts, StepRemembered
  <2>4. QED
    BY <1>6, <2>1, <2>2, <2>3
<1>10. SecretsMinted'
  <2>1. r.code.secret \in 1..minted
    BY <1>1, <1>2, <1>4 DEF CodesFacts, SecretsMinted
  <2>2. \A v \in Users : users'[v].secret <= minted
    BY <1>1, <1>2 DEF CodesFacts, SecretsMinted
  <2>3. \A i \in 1..m : accepted'[i].code.secret \in 1..minted
    BY <1>1, <1>3, <1>6, <2>1 DEF CodesFacts, SecretsMinted
  <2>4. QED
    BY <1>1, <1>3, <2>2, <2>3 DEF CodesFacts, SecretsMinted
<1>11. \A g \in Handlers : Verifying(g)' => g = h
  <2>1. Verifying(h)
    BY DEF Verifying, Enrolment
  <2>2. \A g \in Handlers : g # h => ~Verifying(g)
    BY <1>1, <2>1 DEF CodesFacts, OneVerifying
  <2>3. QED
    BY <2>2 DEF Verifying
<1>12. OneVerifying' /\ CodeStillGood' /\ SecretStillFresh'
  BY <1>11 DEF OneVerifying, CodeStillGood, SecretStillFresh, Verifying, Enrolment
<1>13. QED
  BY <1>7, <1>8, <1>9, <1>10, <1>12 DEF CodesFacts

LEMMA CodesEnroll ==
  ASSUME CodesInvariant, NEW h \in Handlers, request[h].op = "enroll", EnrolCommit(h)
  PROVE  CodesFacts'
<1> DEFINE r == request[h]
           u == r.user
<1>1. TypeInvariant /\ CodesFacts /\ TypeOK
  BY DEF CodesInvariant, TypeInvariant
<1>2. /\ r \in Request /\ r.phase = "ready" /\ u \in Users /\ users[u] \in User
      /\ accepted' = accepted /\ minted' = minted
      /\ users' = [users EXCEPT ![u] = [users[u] EXCEPT !.secret = r.code.secret, !.step = 0]]
      /\ request' = [request EXCEPT ![h] = [r EXCEPT !.phase = "answered"]]
  BY <1>1, RequestTyped DEF EnrolCommit, TypeInvariant, TypeOK, Formed, Enrolment
<1>3. /\ users'[u].secret = r.code.secret /\ users'[u].enabled = users[u].enabled
      /\ \A v \in Users : v # u => users'[v] = users[v]
  BY <1>1, <1>2 DEF TypeOK, User
<1>4. /\ ~users[u].enabled /\ r.code.secret <= minted
      /\ \A i \in 1..Len(accepted) : accepted[i].code.secret # r.code.secret
  BY <1>1, <1>2 DEF CodesFacts, SecretStillFresh
<1>5. \A i \in 1..Len(accepted) : accepted[i].user \in Users
  BY <1>1, RowsTyped
<1>6. /\ request'[h].phase = "answered" /\ request'[h].op = r.op
      /\ \A g \in Handlers : g # h => request'[g] = request[g]
  BY <1>1, <1>2 DEF TypeOK, Request
<1>7. \A g \in Handlers : Verifying(g)' => g = h
  <2>1. Verifying(h)
    BY DEF Verifying, Enrolment
  <2>2. \A g \in Handlers : g # h => ~Verifying(g)
    BY <1>1, <2>1 DEF CodesFacts, OneVerifying
  <2>3. QED
    BY <1>6, <2>2 DEF Verifying
<1>8. AcceptedInOrder' /\ SecretsMinted'
  BY <1>1, <1>2, <1>3, <1>4 DEF CodesFacts, AcceptedInOrder, SecretsMinted
<1>9. FactorProven'
  BY <1>1, <1>2, <1>3, <1>4 DEF CodesFacts, FactorProven
<1>10. StepRemembered'
  BY <1>1, <1>2, <1>3, <1>4, <1>5 DEF CodesFacts, StepRemembered
<1>11. OneVerifying' /\ CodeStillGood' /\ SecretStillFresh'
  BY <1>6, <1>7 DEF OneVerifying, CodeStillGood, SecretStillFresh, Verifying, Enrolment
<1>12. QED
  BY <1>8, <1>9, <1>10, <1>11 DEF CodesFacts

LEMMA CodesVerify ==
  ASSUME CodesInvariant, NEW h \in Handlers, request[h].op = "verify", IssueCommit(h)
  PROVE  CodesFacts'
<1> DEFINE r == request[h]
           u == r.user
<1>1. TypeInvariant /\ TypeOK
  BY DEF CodesInvariant, TypeInvariant
<1>2. /\ r.phase = "ready" /\ u \in Users /\ users[u] \in User
      /\ users' = [users EXCEPT ![u] = [users[u] EXCEPT !.step = r.code.step]]
      /\ accepted' = Append(accepted, [user |-> u, code |-> r.code]) /\ minted' = minted
  BY <1>1 DEF IssueCommit, TypeInvariant, TypeOK, Formed
<1>3. /\ users'[u].secret = users[u].secret /\ users'[u].step = r.code.step
      /\ \A v \in Users : v # u => users'[v] = users[v]
  BY <1>1, <1>2 DEF TypeOK, User
<1>4. /\ \A g \in Handlers : g # h => request'[g].op = request[g].op
      /\ request'[h].op = r.op /\ request'[h].phase = "answered"
  BY <1>1, IssueEffect
<1>5. QED
  BY <1>2, <1>3, <1>4, CodesAccept

LEMMA CodesEnrolment ==
  ASSUME CodesInvariant, NEW h \in Handlers, request[h].op # "enroll", EnrolCommit(h)
  PROVE  CodesFacts'
<1> DEFINE r == request[h]
           u == r.user
<1>1. TypeInvariant /\ TypeOK
  BY DEF CodesInvariant, TypeInvariant
<1>2. /\ r \in Request /\ r.phase = "ready" /\ u \in Users /\ users[u] \in User
      /\ r.op \in {"confirm", "disable"}
      /\ accepted' = Append(accepted, [user |-> u, code |-> r.code]) /\ minted' = minted
      /\ request' = [request EXCEPT ![h] = [r EXCEPT !.phase = "answered"]]
  BY <1>1, RequestTyped DEF EnrolCommit, TypeInvariant, TypeOK, Formed, Enrolment
<1>3. PICK row :
        /\ users' = [users EXCEPT ![u] = row]
        /\ \/ row = [users[u] EXCEPT !.enabled = TRUE, !.step = r.code.step]
           \/ row = [users[u] EXCEPT !.enabled = FALSE, !.secret = 0, !.step = 0]
  BY <1>2 DEF EnrolCommit
<1>4. \/ row.secret = users[u].secret /\ row.step = r.code.step
      \/ row.secret = 0 /\ ~row.enabled
  BY <1>2, <1>3 DEF User
<1>5. users'[u] = row /\ \A v \in Users : v # u => users'[v] = users[v]
  BY <1>1, <1>2, <1>3 DEF TypeOK
<1>6. /\ \A g \in Handlers : g # h => request'[g].op = request[g].op
      /\ request'[h].op = r.op /\ request'[h].phase = "answered"
  BY <1>1, <1>2 DEF TypeOK, Request
<1>7. QED
  BY <1>2, <1>4, <1>5, <1>6, CodesAccept

LEMMA CodesStep ==
  ASSUME CodesInvariant, NEW h \in Handlers, Step(h), ~EnrolCommit(h),
         ~(IssueCommit(h) /\ request[h].op = "verify")
  PROVE  CodesFacts'
<1>1. TypeInvariant /\ TypeOK /\ request[h] \in Request /\ Idle.op = "none"
  BY RequestTyped DEF CodesInvariant, TypeInvariant, Idle
<1>2. accepted' = accepted /\ minted' = minted
  BY DEF Step, Advance, ReadToken, ReuseDetected, ReadUser, Decide, StatusWrite, StatusCommit,
     IssueCommit, LogoutCommit, Fail, Deliver, Lose, Answer
<1>3. \A u \in Users :
        /\ users'[u].secret = users[u].secret /\ users'[u].enabled = users[u].enabled
        /\ users'[u].step = users[u].step
  <2>1. CASE StatusCommit(h)
    <3> DEFINE v == request[h].user
               row == [users[v] EXCEPT !.status = request[h].status]
    <3>1. v \in Users /\ users[v] \in User
      BY <1>1, <2>1 DEF StatusCommit, TypeInvariant, TypeOK, Formed
    <3>2. users' = users \/ users' = [users EXCEPT ![v] = row]
      BY <2>1 DEF StatusCommit
    <3>3. /\ row.secret = users[v].secret /\ row.enabled = users[v].enabled
          /\ row.step = users[v].step
      BY <3>1 DEF User
    <3> HIDE DEF row
    <3>4. QED
      BY <1>1, <3>1, <3>2, <3>3 DEF TypeOK
  <2>2. CASE ~StatusCommit(h)
    BY <2>2 DEF Step, Advance, ReadToken, ReuseDetected, ReadUser, Decide, StatusWrite,
       IssueCommit, LogoutCommit, Fail, Deliver, Lose, Answer
  <2>3. QED
    BY <2>1, <2>2
<1>4. ASSUME NEW g \in Handlers, Verifying(g)'
      PROVE  /\ request'[g].op = request[g].op /\ request'[g].user = request[g].user
             /\ request'[g].code = request[g].code
             /\ request'[g].phase = "ready" => request[g].phase = "ready"
  <2>1. /\ request'[g].op = request[g].op /\ request'[g].code = request[g].code
        /\ request[g].op # "refresh" => request'[g].user = request[g].user
        /\ g # h => request'[g].phase = request[g].phase
    BY <1>1, <1>4, StepFrame DEF Verifying, Enrolment
  <2>2. request[g].op \notin {"refresh", "status"}
    BY <1>4, <2>1 DEF Verifying, Enrolment
  <2>3. ASSUME g = h, request'[h].phase = "ready"
        PROVE  request[h].phase = "ready"
    <3>1. ~ReadUser(h) /\ ~Decide(h)
      BY <1>1, <2>2, <2>3 DEF ReadUser, Decide, TypeInvariant, Formed
    <3>2. CASE StatusCommit(h)
      BY <1>1, <2>3, <3>2 DEF StatusCommit, TypeOK, Request
    <3>3. CASE ReadToken(h) \/ ReuseDetected(h) \/ Fail(h)
      BY <1>1, <2>3, <3>3 DEF ReadToken, ReuseDetected, Fail, TypeOK, Request
    <3>4. CASE StatusWrite(h) \/ IssueCommit(h) \/ LogoutCommit(h)
      BY <1>1, <2>3, <3>4 DEF StatusWrite, IssueCommit, LogoutCommit
    <3>5. CASE Deliver(h) \/ Lose(h)
      <4>1. request'[h] = Idle
        BY <1>1, <3>5 DEF Deliver, Lose, Answer, TypeOK
      <4>2. Idle.phase = "idle"
        BY DEF Idle
      <4>3. QED
        BY <2>3, <4>1, <4>2
    <3>6. QED
      BY <3>1, <3>2, <3>3, <3>4, <3>5 DEF Step, Advance
  <2>4. QED
    BY <2>1, <2>2, <2>3
<1>5. QED
  BY <1>2, <1>3, <1>4, CodesKept

\* No code is accepted twice, none older than the last, across logins and
\* enrolments, and a second factor in force is one of which a code was accepted
\* or which was in force from the start, as long as requests that verify do not
\* overlap (service.verify_mfa_code_once, router mfa_enroll to mfa_disable).
THEOREM CodesOnlyAdvance == Spec => []CodesAdvance
<1>1. CASE "mfa" \in Alone
  <2>1. Init => CodesInvariant
    <3> SUFFICES ASSUME Init
                 PROVE  CodesInvariant
      OBVIOUS
    <3>1. /\ \A h \in Handlers : request[h].op = "none"
          /\ accepted = <<>> /\ minted = 1
          /\ \A u \in Users : /\ users[u].secret \in {0, 1}
                              /\ users[u].enabled => users[u].secret = 1
      <4>1. PICK enrolled \in SUBSET Users :
              users = [u \in Users |->
                         [status |-> "active", secret |-> IF u \in enrolled THEN 1 ELSE 0,
                          enabled |-> u \in enrolled, step |-> 0]]
        BY DEF Init
      <4>2. QED
        BY <4>1 DEF Init, Idle
    <3>2. QED
      BY <3>1, TypeInit
      DEF CodesInvariant, CodesFacts, AcceptedInOrder, FactorProven, StepRemembered,
          SecretsMinted, OneVerifying, CodeStillGood, SecretStillFresh, Verifying, Enrolment
  <2>2. CodesInvariant /\ [Next]_vars => CodesInvariant'
    <3> SUFFICES ASSUME CodesInvariant, [Next]_vars
                 PROVE  CodesFacts'
      BY TypeStep DEF CodesInvariant
    <3>1. CASE UNCHANGED <<users, request, minted, accepted>>
      BY <3>1, CodesKept
    <3>2. CASE \E h \in Handlers : Arrive(h)
      BY <1>1, <3>2, CodesArrive
    <3>3. CASE \E h \in Handlers : Step(h)
      BY <3>3, CodesStep, CodesEnroll, CodesEnrolment, CodesVerify
    <3>4. QED
      BY <3>1, <3>2, <3>3 DEF Next, Tick, JoinRefresh, vars
  <2>3. CodesInvariant => CodesAdvance
    <3> SUFFICES ASSUME CodesInvariant
                 PROVE  CodesAdvance
      OBVIOUS
    <3>1. DOMAIN accepted = 1..Len(accepted)
      BY RowsTyped DEF CodesInvariant
    <3>2. QED
      BY <3>1 DEF CodesInvariant, CodesFacts, AcceptedInOrder, FactorProven, CodesAdvance
  <2>4. QED
    BY <2>1, <2>2, <2>3, PTL DEF Spec
<1>2. CASE "mfa" \notin Alone
  <2>1. CodesAdvance
    BY <1>2 DEF CodesAdvance
  <2>2. QED
    BY <2>1, PTL
<1>3. QED
  BY <1>1, <1>2

===============================================================================
