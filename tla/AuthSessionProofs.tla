-------------------------- MODULE AuthSessionProofs --------------------------
(***************************************************************************)
(* Proofs about AuthSession for any number of tabs, calls, users, sessions *)
(* and tokens.  A thread of a tab has one message under way while it waits *)
(* (Lone), a signed-out browser has nothing under way that could bring a   *)
(* token back (SignedOut), and as long as no login or logout overlapped    *)
(* with another request, all tokens of the browser and its messages belong *)
(* to one session (OneSession).  LossInv adds where the last token of a    *)
(* session is while nothing disturbs its renewals.  And about AccountPages,*)
(* for any number of names, passwords and requests.                        *)
(***************************************************************************)
EXTENDS AuthSession, AccountPages, FiniteSetTheorems, TLAPS

LoginArgs == [user : Users, remember : BOOLEAN]
AllRequests == [type : {"request"}, th : Threads, op : Ops, arg : LoginArgs \cup {None},
                jar : Jars, live : BOOLEAN]
AllResponses == [type : {"response"}, th : Threads, op : Ops, status : {200, 401, 500},
                 cookies : Jars \cup {None}, user : Users \cup {None}]
SignsIn(m) == m.op \in {"login", "google"}

\* What the threads of a tab send.
OpOK(m) ==
    /\ m.th[2] = "session" => m.op \in {"me", "login", "google", "logout"}
    /\ m.th[2] = "refresh" => m.op = "refresh"
    /\ m.th[2] \in Calls => m.op \in {"me", "api", "logout"}
    /\ m.type = "request" /\ SignsIn(m) => m.arg \in LoginArgs

\* What the route handlers answer.
AnswerOK(m) ==
    /\ m.op = "logout" /\ m.status = 200 => m.cookies = Empty
    /\ m.op = "api" => m.cookies = None
    /\ SignsIn(m) /\ m.status # 200 => m.cookies = None
    /\ SignsIn(m) /\ m.status = 200 =>
          /\ m.cookies \in Jars /\ m.cookies.access = m.cookies.refresh
          /\ m.cookies.refresh \in Tokens /\ owner[m.cookies.refresh[1]] = m.user
          /\ m.user \in Users

NetOK ==
    /\ net \subseteq AllRequests \cup AllResponses
    /\ \A m \in net : OpOK(m)
    /\ \A m \in net : m.type = "response" => AnswerOK(m)

\* A thread waits for one message, if it waits at all.
Alive(m) == m.type = "request" => m.live
Waits(th) == pc[th] \notin {Idle, "await"}
Lone ==
    \A th \in Threads :
       /\ ~Waits(th) => \A m \in net : m.th = th => ~Alive(m)
       /\ Waits(th) => \E m \in net : /\ m.th = th /\ Alive(m)
                                      /\ \A k \in net : k.th = th /\ Alive(k) => k = m

StateOK ==
    /\ jar \in Jars
    /\ pc \in [Threads -> {Idle, "first", "await", "retry", "quit", "session", "refresh"}]
    /\ \A th \in Threads :
          /\ th[2] = "session" => pc[th] \in {Idle, "session"}
          /\ th[2] = "refresh" => pc[th] \in {Idle, "refresh"}
          /\ th[2] \in Calls => pc[th] \in {Idle, "first", "await", "retry", "quit"}
    /\ user \in [Tabs -> Users \cup {None}]
    /\ owner \in [Sessions -> Users \cup {None}]
    /\ gen \in [Sessions -> 0..MaxGen]
    /\ ended \subseteq Sessions /\ stale \subseteq Tokens
    /\ faults \in 0..MaxFaults
    /\ asked \subseteq Sessions /\ torn \subseteq Sessions /\ sure \subseteq Tabs
    /\ out \in BOOLEAN /\ murky \in BOOLEAN
    \* Sessions are opened in the order of their numbers.
    /\ \E k \in 0..MaxSessions : Opened = 1..k

\* Nothing under way brings a token to a browser that is signed out, but a login.
SignedOut ==
    out =>
       /\ jar = Empty
       /\ \A m \in net :
             /\ m.type = "request" /\ Acts(m) => m.jar = Empty
             /\ m.type = "response" => m.cookies \in {None, Empty} \/ (SignsIn(m) /\ m.status = 200)

\* The tokens of a jar, and those the browser holds or may be given, but by a login.
InJar(j) == {j.access, j.refresh} \ {None}
Held ==
    {x \in Tokens :
        \/ x \in InJar(jar)
        \/ \E m \in net : m.type = "request" /\ x \in InJar(m.jar)
        \/ \E m \in net : /\ m.type = "response" /\ ~SignsIn(m) /\ m.cookies # None
                          /\ x \in InJar(m.cookies)}

OneSession ==
    ~murky =>
       \A x \in Held :
          /\ \A y \in Held : x[1] = y[1]
          /\ owner[x[1]] # None
          /\ \A t \in sure : user[t] \in {None, owner[x[1]]}
          /\ \A m \in Responses : m.op = "me" /\ m.status = 200 => m.user \in {None, owner[x[1]]}

SessInv == StateOK /\ NetOK /\ Lone /\ SignedOut /\ OneSession

-----------------------------------------------------------------------------
(* Where the messages of the next state come from.                         *)

\* A page sends a request with the cookies of the browser.
Sent(m) == m \in AllRequests /\ OpOK(m) /\ m.jar = jar'

\* A route handler, or nobody, answers k.
Answers(k, m) ==
    /\ m \in AllResponses /\ OpOK(m) /\ m.th = k.th /\ m.op = k.op
    /\ m.op = "logout" /\ m.status = 200 => m.cookies = Empty
    /\ m.op = "api" => m.cookies = None
    /\ SignsIn(m) /\ m.status # 200 => m.cookies = None
    /\ SignsIn(m) /\ m.status = 200 =>
          /\ m.cookies \in Jars /\ m.cookies.access = m.cookies.refresh
          /\ m.cookies.refresh \in Tokens /\ owner'[m.cookies.refresh[1]] = m.user
          /\ m.user \in Users
    /\ ~SignsIn(m) /\ m.cookies \notin {None, Empty} =>
          /\ k.type = "request" /\ k.jar.refresh # None
          /\ m.cookies.access = m.cookies.refresh /\ m.cookies.refresh \in Tokens
          /\ m.cookies.refresh[1] = k.jar.refresh[1]
    /\ m.op = "me" /\ m.status = 200 =>
          /\ k.type = "request"
          /\ \E x \in InJar(k.jar) : m.user = owner[x[1]]

Comes(m) ==
    \/ m \in net
    \/ Sent(m)
    \/ \E k \in net : k.type = "request" /\ m = [k EXCEPT !.live = FALSE]
    \/ \E k \in net : Answers(k, m)

LEMMA NoneFacts ==
    /\ None \notin Tokens /\ None \notin Jars /\ None \notin Users
    /\ Empty \in Jars /\ Empty.access = None /\ Empty.refresh = None /\ Empty # None
    /\ "session" \notin Calls /\ "refresh" \notin Calls /\ InJar(Empty) = {}
<1>1. None \notin Tokens /\ None \notin Jars /\ None \notin Users
  BY AuthAssumption
<1>2. Empty \in Jars /\ Empty.access = None /\ Empty.refresh = None
  BY DEF Empty, Jars
<1>3. "session" \notin Calls /\ "refresh" \notin Calls
  BY AuthAssumption
<1> QED BY <1>1, <1>2, <1>3 DEF InJar

LEMMA InJarFacts ==
    ASSUME NEW j \in Jars
    PROVE  InJar(j) \subseteq Tokens
  BY DEF Jars, InJar

LEMMA JarIsHeld ==
    ASSUME StateOK
    PROVE  InJar(jar) \subseteq Held
  BY InJarFacts DEF Held, StateOK

LEMMA ThreadFacts ==
    ASSUME NEW t \in Tabs
    PROVE  /\ <<t, "session">> \in Threads /\ <<t, "refresh">> \in Threads
           /\ \A a \in Calls : <<t, a>> \in Threads /\ Route(a) \in {"me", "api"}
  BY DEF Threads, Route

\* A request that a page sends.
LEMMA RequestIsSent ==
    ASSUME NEW th \in Threads, NEW op \in Ops, NEW arg \in LoginArgs \cup {None}, jar' \in Jars,
           OpOK(Request(th, op, arg, jar'))
    PROVE  Sent(Request(th, op, arg, jar'))
  BY DEF Request, Sent, AllRequests

\* The mount effect of AuthProvider and the pages loaded anew.
LEMMA MountsAreSent ==
    ASSUME NEW T \in SUBSET Tabs, jar' \in Jars
    PROVE  \A m \in Mounts(T, jar') : Sent(m)
<1>1. SUFFICES ASSUME NEW t \in T PROVE Sent(Request(<<t, "session">>, "me", None, jar'))
  BY DEF Mounts
<1>2. OpOK(Request(<<t, "session">>, "me", None, jar'))
  BY NoneFacts DEF OpOK, Request, SignsIn
<1> QED BY <1>2, RequestIsSent, ThreadFacts DEF Ops

LEMMA ReloadComes ==
    ASSUME NEW T \in SUBSET Tabs, NEW n \in SUBSET net, jar' \in Jars, Reload(T, n, jar')
    PROVE  \A m \in net' : Comes(m)
  BY MountsAreSent DEF Reload, Comes

LEMMA ActComes ==
    ASSUME NEW t \in Tabs, NEW op \in {"me", "login", "google", "logout"},
           NEW arg \in LoginArgs \cup {None}, op \in {"login", "google"} => arg \in LoginArgs,
           jar \in Jars, Act(t, op, arg)
    PROVE  \A m \in net' : Comes(m)
<1>1. jar' = jar /\ net' = net \cup {Request(<<t, "session">>, op, arg, jar')}
  BY DEF Act, Send
<1>2. OpOK(Request(<<t, "session">>, op, arg, jar'))
  BY NoneFacts DEF OpOK, Request, SignsIn
<1>3. Sent(Request(<<t, "session">>, op, arg, jar'))
  BY <1>1, <1>2, RequestIsSent, ThreadFacts DEF Ops
<1> QED BY <1>1, <1>3 DEF Comes

LEMMA CallComes ==
    ASSUME NEW t \in Tabs, NEW a \in Calls, jar \in Jars, Call(t, a)
    PROVE  \A m \in net' : Comes(m)
<1>1. jar' = jar /\ net' = net \cup {Request(<<t, a>>, Route(a), None, jar')}
  BY DEF Call, Send
<1>2. OpOK(Request(<<t, a>>, Route(a), None, jar'))
  BY NoneFacts, ThreadFacts DEF OpOK, Request, SignsIn
<1>3. Sent(Request(<<t, a>>, Route(a), None, jar'))
  BY <1>1, <1>2, RequestIsSent, ThreadFacts DEF Ops
<1> QED BY <1>1, <1>3 DEF Comes

\* What the provider makes of a refresh token belongs to its session.
LEMMA RenewalFacts ==
    ASSUME gen \in [Sessions -> 0..MaxGen], NEW token \in Tokens \cup {None},
           NEW r \in Renewals(token)
    PROVE  /\ r # None => /\ r \in Tokens /\ token \in Tokens
                          /\ r[1] = token[1] /\ r[1] \in Sessions /\ r[2] \in 1..MaxGen
           /\ r = None \/ r \in Tokens
<1>1. CASE token = None \/ token[1] \in ended
  BY <1>1 DEF Renewals
<1>2. CASE ~(token = None \/ token[1] \in ended)
  <2>1. token \in Tokens /\ token[1] \in Sessions /\ token[2] \in 1..MaxGen
    BY <1>2 DEF Tokens
  <2>2. gen[token[1]] \in 0..MaxGen /\ MaxGen \in Nat
    BY <2>1, AuthAssumption
  <2>3. \/ r = None
        \/ r = <<token[1], token[2] + 1>> /\ token[2] < MaxGen
        \/ r = <<token[1], gen[token[1]]>> /\ token[2] = gen[token[1]] - 1
    <3>1. CASE token[2] = gen[token[1]]
      BY <1>2, <3>1 DEF Renewals
    <3>2. CASE token[2] # gen[token[1]]
      BY <1>2, <3>2 DEF Renewals
    <3> QED BY <3>1, <3>2
  <2>4. r # None => r = <<token[1], r[2]>> /\ r[2] \in 1..MaxGen
    BY <2>1, <2>2, <2>3
  <2> QED BY <2>1, <2>4 DEF Tokens
<1> QED BY <1>1, <1>2

LEMMA RequestFacts ==
    ASSUME NetOK, NEW m \in net, m.type = "request"
    PROVE  /\ m \in AllRequests /\ OpOK(m) /\ m.th \in Threads /\ m.op \in Ops
           /\ m.jar \in Jars /\ m.live \in BOOLEAN
           /\ m.jar.access \in Tokens \cup {None} /\ m.jar.refresh \in Tokens \cup {None}
           /\ SignsIn(m) => m.arg.user \in Users /\ m.arg.remember \in BOOLEAN
  BY DEF NetOK, AllRequests, AllResponses, OpOK, LoginArgs, Jars

\* A response that stores no cookies and does not bring a profile.
LEMMA BareAnswer ==
    ASSUME NetOK, NEW k \in net, NEW status \in {200, 401, 500}, NEW cookies \in {None, Empty},
           k.op = "logout" /\ status = 200 => cookies = Empty,
           k.op \in {"api", "login", "google"} => cookies = None,
           k.op \in {"me", "login", "google"} => status # 200
    PROVE  Answers(k, Response(k, status, cookies, None))
<1> DEFINE r == Response(k, status, cookies, None)
<1>1. k.th \in Threads /\ k.op \in Ops /\ OpOK(k)
  BY DEF NetOK, AllRequests, AllResponses
<1>2. r \in AllResponses
  BY <1>1, NoneFacts DEF Response, AllResponses
<1>3. r.th = k.th /\ r.op = k.op /\ r.type = "response" /\ r.status = status /\ r.cookies = cookies
  BY DEF Response
<1>4. OpOK(r)
  BY <1>1, <1>3 DEF OpOK
<1> HIDE DEF r
<1>5. Answers(k, r)
  BY <1>2, <1>3, <1>4 DEF Answers, SignsIn
<1> QED BY <1>5 DEF r

LEMMA AnswerComes ==
    ASSUME NEW m, NEW status, NEW cookies, NEW u, m \in net, Answer(m, status, cookies, u),
           Answers(m, Response(m, status, cookies, u))
    PROVE  \A k \in net' : Comes(k)
  BY DEF Answer, Comes

LEMMA RefreshComes ==
    ASSUME StateOK, NetOK, NEW m \in net, m.type = "request", ServeRefresh(m)
    PROVE  \A k \in net' : Comes(k)
<1>1. m.op \in {"me", "refresh"} /\ owner' = owner
  BY DEF ServeRefresh
<1>2. PICK r \in Renewals(m.jar.refresh) :
          IF r = None THEN Answer(m, 401, Empty, None)
          ELSE Answer(m, 200, Cookies(r, TRUE), owner[r[1]])
  BY DEF ServeRefresh
<1>3. CASE r = None
  <2>1. Answers(m, Response(m, 401, Empty, None))
    BY <1>1, BareAnswer
  <2> QED BY <1>2, <1>3, <2>1, AnswerComes
<1>4. CASE r # None
  <2>1. r \in Tokens /\ r[1] \in Sessions /\ m.jar.refresh \in Tokens /\ r[1] = m.jar.refresh[1]
    BY <1>4, RenewalFacts, RequestFacts DEF StateOK
  <2> DEFINE a == Response(m, 200, Cookies(r, TRUE), owner[r[1]])
  <2>2. Cookies(r, TRUE) \in Jars /\ Cookies(r, TRUE).access = r /\ Cookies(r, TRUE).refresh = r
    BY <2>1 DEF Cookies, Jars
  <2>3. owner[r[1]] \in Users \cup {None}
    BY <2>1 DEF StateOK
  <2>4. a \in AllResponses
    BY <2>2, <2>3, RequestFacts DEF Response, AllResponses
  <2>5. /\ a.th = m.th /\ a.op = m.op /\ a.type = "response" /\ a.status = 200
        /\ a.cookies = Cookies(r, TRUE) /\ a.user = owner[r[1]]
    BY DEF Response
  <2> HIDE DEF a
  <2>6. OpOK(a)
    <3>1. OpOK(m)
      BY RequestFacts
    <3> QED BY <2>5, <3>1 DEF OpOK
  <2>7. m.jar.refresh \in InJar(m.jar) /\ owner[r[1]] = owner[m.jar.refresh[1]]
    BY <2>1, NoneFacts DEF InJar
  <2>8. Answers(m, a)
    <3>1. m.jar.refresh # None
      BY <2>1, NoneFacts
    <3>2. a.op \in {"me", "refresh"} /\ a.cookies.access = r /\ a.cookies.refresh = r
      BY <1>1, <2>2, <2>5
    <3>3. \E x \in InJar(m.jar) : a.user = owner[x[1]]
      BY <2>5, <2>7
    <3> QED BY <2>1, <2>4, <2>5, <2>6, <3>1, <3>2, <3>3 DEF Answers, SignsIn
  <2> QED BY <1>2, <1>4, <2>8, AnswerComes DEF a
<1> QED BY <1>3, <1>4

LEMMA MeComes ==
    ASSUME StateOK, NetOK, NEW m \in net, m.type = "request", ServeMe(m)
    PROVE  \A k \in net' : Comes(k)
<1> DEFINE x == m.jar.access
           a == Response(m, 200, None, owner[x[1]])
<1>1. m.op = "me" /\ x # None /\ Answer(m, 200, None, owner[x[1]])
  BY DEF ServeMe, Valid
<1>2. x \in Tokens /\ x[1] \in Sessions /\ x \in InJar(m.jar)
  BY <1>1, RequestFacts DEF Tokens, InJar
<1>3. owner[x[1]] \in Users \cup {None}
  BY <1>2 DEF StateOK
<1>4. a \in AllResponses
  BY <1>3, RequestFacts DEF Response, AllResponses
<1>5. /\ a.th = m.th /\ a.op = m.op /\ a.type = "response" /\ a.status = 200
      /\ a.cookies = None /\ a.user = owner[x[1]]
  BY DEF Response
<1> HIDE DEF a
<1>6. OpOK(a)
  <2>1. OpOK(m)
    BY RequestFacts
  <2> QED BY <1>5, <2>1 DEF OpOK
<1>7. Answers(m, a)
  BY <1>1, <1>2, <1>4, <1>5, <1>6 DEF Answers, SignsIn
<1> QED BY <1>1, <1>7, AnswerComes DEF a

LEMMA LoginComes ==
    ASSUME StateOK, NetOK, NEW m \in net, m.type = "request", ServeLogin(m)
    PROVE  \A k \in net' : Comes(k)
<1>1. SignsIn(m) /\ m.arg.user \in Users /\ m.arg.remember \in BOOLEAN
  BY RequestFacts DEF ServeLogin, SignsIn
<1>2. CASE Answer(m, 401, None, None)
  <2>1. Answers(m, Response(m, 401, None, None))
    BY <1>1, BareAnswer DEF SignsIn
  <2> QED BY <1>2, <2>1, AnswerComes
<1>3. ASSUME NEW s \in Sessions, owner' = [owner EXCEPT ![s] = m.arg.user],
             Answer(m, 200, Cookies(<<s, 1>>, m.arg.remember), m.arg.user)
      PROVE  \A k \in net' : Comes(k)
  <2> DEFINE c == Cookies(<<s, 1>>, m.arg.remember)
             a == Response(m, 200, c, m.arg.user)
  <2>1. <<s, 1>> \in Tokens
    BY <1>3, AuthAssumption DEF Tokens
  <2>2. c \in Jars /\ c.access = <<s, 1>> /\ c.refresh = <<s, 1>>
    BY <1>1, <2>1 DEF Cookies, Jars
  <2>3. owner'[s] = m.arg.user
    BY <1>3 DEF StateOK
  <2> HIDE DEF c
  <2>4. a \in AllResponses
    BY <1>1, <2>2, RequestFacts DEF Response, AllResponses
  <2>5. /\ a.th = m.th /\ a.op = m.op /\ a.type = "response" /\ a.status = 200
        /\ a.cookies = c /\ a.user = m.arg.user
    BY DEF Response
  <2> HIDE DEF a
  <2>6. OpOK(a)
    <3>1. OpOK(m)
      BY RequestFacts
    <3> QED BY <2>5, <3>1 DEF OpOK
  <2>7. Answers(m, a)
    BY <1>1, <2>1, <2>2, <2>3, <2>4, <2>5, <2>6 DEF Answers, SignsIn
  <2> QED BY <1>3, <2>7, AnswerComes DEF a, c
<1> QED BY <1>2, <1>3 DEF ServeLogin

LEMMA ServeComes ==
    ASSUME StateOK, NetOK, NEW m \in net, Serve(m)
    PROVE  \A k \in net' : Comes(k)
<1>1. m.type = "request"
  BY DEF Serve, Requests
<1>2. CASE ServeLogout(m)
  <2>1. m.op = "logout" /\ Answer(m, 200, Empty, None)
    BY <1>2 DEF ServeLogout
  <2>2. Answers(m, Response(m, 200, Empty, None))
    BY <2>1, BareAnswer
  <2> QED BY <2>1, <2>2, AnswerComes
<1>3. CASE ServeProxy(m)
  <2>1. PICK status \in {200, 401} : m.op = "api" /\ Answer(m, status, None, None)
    BY <1>3 DEF ServeProxy
  <2>2. Answers(m, Response(m, status, None, None))
    BY <2>1, BareAnswer
  <2> QED BY <2>1, <2>2, AnswerComes
<1> QED BY <1>1, <1>2, <1>3, RefreshComes, MeComes, LoginComes DEF Serve

LEMMA FailComes ==
    ASSUME StateOK, NetOK, NEW m \in net, ServeFails(m)
    PROVE  \A k \in net' : Comes(k)
<1>1. m.type = "request"
  BY DEF ServeFails, Requests
<1>2. CASE m.op = "logout" /\ Answer(m, 200, Empty, None)
  <2>1. Answers(m, Response(m, 200, Empty, None))
    BY <1>2, BareAnswer
  <2> QED BY <1>2, <2>1, AnswerComes
<1>3. ASSUME NEW status \in {200, 401, 500}, m.op \in {"me", "refresh"}, m.op = "me" => status # 200,
             Answer(m, status, Empty, None)
      PROVE  \A k \in net' : Comes(k)
  <2>1. Answers(m, Response(m, status, Empty, None))
    BY <1>3, BareAnswer
  <2> QED BY <1>3, <2>1, AnswerComes
<1> QED BY <1>2, <1>3 DEF ServeFails

LEMMA LoseComes ==
    ASSUME NetOK, NEW m \in net, Lose(m)
    PROVE  \A k \in net' : Comes(k)
<1>1. net' = (net \ {m}) \cup {Response(m, 500, None, None)}
  BY DEF Lose
<1>2. Answers(m, Response(m, 500, None, None))
  BY BareAnswer
<1> QED BY <1>1, <1>2 DEF Comes

LEMMA RestartComes ==
    ASSUME jar \in Jars, Restart
    PROVE  \A k \in net' : Comes(k)
<1>1. jar' \in Jars /\ Reload(Tabs, net, jar')
  BY NoneFacts DEF Restart
<1> QED BY <1>1, ReloadComes

-----------------------------------------------------------------------------
(* What the browser receives.                                              *)

LEMMA ResponseFacts ==
    ASSUME NetOK, NEW m \in net, m.type = "response"
    PROVE  /\ m \in AllResponses /\ OpOK(m) /\ AnswerOK(m) /\ m.th \in Threads /\ m.op \in Ops
           /\ m.status \in {200, 401, 500} /\ m.cookies \in Jars \cup {None}
           /\ m.user \in Users \cup {None} /\ m.th[1] \in Tabs
  BY DEF NetOK, AllRequests, AllResponses, Threads

LEMMA ReceivedJar ==
    ASSUME StateOK, NetOK, NEW m \in net, Receive(m)
    PROVE  /\ m.type = "response" /\ jar' \in Jars
           /\ jar' = IF m.cookies = None THEN jar ELSE m.cookies
           /\ \/ ReceiveSession(m, net \ {m}, jar') \/ ReceiveGoogle(m, net \ {m}, jar')
              \/ ReceiveFirst(m, net \ {m}, jar') \/ ReceiveRefresh(m, net \ {m}, jar')
              \/ ReceiveRetry(m, net \ {m}, jar') \/ ReceiveQuit(m, net \ {m}, jar')
<1>1. m.type = "response"
  BY DEF Receive, Responses
<1>2. jar' = IF m.cookies = None THEN jar ELSE m.cookies
  BY DEF Receive
<1>3. jar' \in Jars
  BY <1>1, <1>2, ResponseFacts DEF StateOK
<1> QED BY <1>1, <1>2, <1>3 DEF Receive

\* A thread with pc first, retry or quit is a call; refresh threads await nothing.
LEMMA CallThreads ==
    ASSUME StateOK, NEW th \in Threads, pc[th] \in {"first", "retry", "quit", "await"}
    PROVE  th[2] \in Calls /\ th[1] \in Tabs
<1>1. th[1] \in Tabs /\ (th[2] = "session" \/ th[2] = "refresh" \/ th[2] \in Calls)
  BY DEF Threads
<1>2. /\ th[2] = "session" => pc[th] \in {"idle", "session"}
      /\ th[2] = "refresh" => pc[th] \in {"idle", "refresh"}
  BY DEF StateOK, Idle
<1>3. th[2] # "session" /\ th[2] # "refresh"
  BY <1>2
<1> QED BY <1>1, <1>3

LEMMA ReceiveComes ==
    ASSUME StateOK, NetOK, NEW m \in net, Receive(m)
    PROVE  \A k \in net' : Comes(k)
<1> DEFINE t == m.th[1]
<1>1. m.type = "response" /\ jar' \in Jars /\ m.th \in Threads /\ t \in Tabs
  <2>1. m.type = "response" /\ jar' \in Jars
    BY ReceivedJar
  <2> QED BY <2>1, ResponseFacts
<1>2. CASE ReceiveSession(m, net \ {m}, jar')
  BY <1>2 DEF ReceiveSession, Comes
<1>3. CASE Reload({t}, net \ {m}, jar')
  BY <1>1, <1>3, ReloadComes
<1>4. ASSUME NEW th \in Threads, NEW op \in {"me", "api", "logout", "refresh"},
             th[2] \in Calls => op # "refresh", th[2] # "session",
             th[2] = "refresh" => op = "refresh"
      PROVE  Sent(Request(th, op, None, jar'))
  <2>1. OpOK(Request(th, op, None, jar'))
    BY <1>4 DEF OpOK, Request, SignsIn
  <2> QED BY <1>1, <2>1, RequestIsSent DEF Ops
<1>5. CASE ReceiveFirst(m, net \ {m}, jar')
  <2>1. Sent(Request(<<t, "refresh">>, "refresh", None, jar'))
    BY <1>1, <1>4, ThreadFacts, NoneFacts
  <2> QED BY <1>5, <2>1 DEF ReceiveFirst, Comes
<1>6. CASE ReceiveRefresh(m, net \ {m}, jar')
  <2>1. ASSUME NEW th \in Waiting(t), NEW op \in {Route(th[2]), "logout"}
        PROVE  Sent(Request(th, op, None, jar'))
    <3>1. th \in Threads /\ th[2] \in Calls /\ th[2] # "session" /\ th[2] # "refresh"
      BY CallThreads, NoneFacts DEF Waiting
    <3>2. op \in {"me", "api", "logout"}
      BY <3>1 DEF Route
    <3> QED BY <1>4, <3>1, <3>2
  <2> QED BY <1>6, <2>1 DEF ReceiveRefresh, Comes
<1>7. CASE ReceiveRetry(m, net \ {m}, jar')
  <2>1. m.th[2] \in Calls /\ m.th[2] # "session" /\ m.th[2] # "refresh"
    BY <1>1, <1>7, CallThreads, NoneFacts DEF ReceiveRetry
  <2>2. Sent(Request(m.th, "logout", None, jar'))
    BY <1>1, <1>4, <2>1
  <2> QED BY <1>7, <2>2 DEF ReceiveRetry, Comes
<1> QED BY <1>2, <1>3, <1>5, <1>6, <1>7, ReceivedJar DEF ReceiveGoogle, ReceiveQuit

THEOREM Messages ==
    ASSUME SessInv, [Next]_vars
    PROVE  \A k \in net' : Comes(k)
<1>1. StateOK /\ NetOK /\ jar \in Jars
  BY DEF SessInv, StateOK
<1>2. CASE UNCHANGED vars
  BY <1>2 DEF vars, browserVars, Comes
<1>3. ASSUME NEW t \in Tabs, Refresh(t) \/ Logout(t)
             \/ \E op \in {"login", "google"}, u \in Users, remember \in BOOLEAN :
                   Login(t, op, u, remember)
      PROVE  \A k \in net' : Comes(k)
  <2>1. PICK op \in {"me", "login", "google", "logout"}, arg \in LoginArgs \cup {None} :
           Act(t, op, arg) /\ (op \in {"login", "google"} => arg \in LoginArgs)
    <3>1. CASE Refresh(t) \/ Logout(t)
      BY <3>1 DEF Refresh, Logout
    <3>2. ASSUME NEW op \in {"login", "google"}, NEW u \in Users, NEW remember \in BOOLEAN,
                 Login(t, op, u, remember)
          PROVE  Act(t, op, [user |-> u, remember |-> remember])
                 /\ [user |-> u, remember |-> remember] \in LoginArgs
      BY <3>2 DEF Login, LoginArgs
    <3> QED BY <1>3, <3>1, <3>2
  <2> QED BY <1>1, <2>1, ActComes
<1>4. ASSUME NEW token \in Tokens, Expire(token) PROVE \A k \in net' : Comes(k)
  BY <1>4 DEF Expire, Comes
<1>5. ASSUME NEW s \in Sessions, EndSession(s) PROVE \A k \in net' : Comes(k)
  BY <1>5 DEF EndSession, browserVars, Comes
<1> QED BY <1>1, <1>2, <1>3, <1>4, <1>5, CallComes, ServeComes, FailComes, LoseComes,
           ReceiveComes, RestartComes DEF Next

-----------------------------------------------------------------------------
(* What the messages bring.                                                *)

\* A login opens a session that was not.
LEMMA LoginOpens ==
    ASSUME StateOK, NEW s \in Sessions, s = Cardinality({i \in Sessions : owner[i] # None}) + 1
    PROVE  owner[s] = None
<1>1. PICK k \in 0..MaxSessions : Opened = 1..k
  BY DEF StateOK
<1>2. k \in Nat
  BY AuthAssumption
<1>3. Cardinality(Opened) = k
  BY <1>1, <1>2, FS_Interval
<1>4. s = k + 1
  BY <1>3 DEF Opened
<1>5. s \notin Opened
  BY <1>1, <1>2, <1>4
<1> QED BY <1>5 DEF Opened

\* An account, once it is known, stays the account of its session.
LEMMA OwnerIsKept ==
    ASSUME SessInv, [Next]_vars
    PROVE  \A s \in Sessions : owner[s] # None => owner'[s] = owner[s]
<1>1. StateOK /\ owner \in [Sessions -> Users \cup {None}]
  BY DEF SessInv, StateOK
<1>2. ASSUME NEW m \in net, ServeLogin(m)
      PROVE  \A s \in Sessions : owner[s] # None => owner'[s] = owner[s]
  <2>1. CASE UNCHANGED providerVars
    BY <2>1 DEF providerVars
  <2>2. ASSUME NEW s \in Sessions, s = Cardinality({i \in Sessions : owner[i] # None}) + 1,
               owner' = [owner EXCEPT ![s] = m.arg.user]
        PROVE  owner[s] = None
    BY <1>1, <2>2, LoginOpens
  <2> QED BY <1>1, <1>2, <2>1, <2>2 DEF ServeLogin
<1>3. ASSUME NEW m \in net, Serve(m)
      PROVE  \A s \in Sessions : owner[s] # None => owner'[s] = owner[s]
  BY <1>2, <1>3 DEF Serve, ServeRefresh, ServeMe, ServeLogout, ServeProxy, providerVars
<1>4. CASE UNCHANGED owner
  BY <1>4
<1>5. ASSUME NEW m \in net, ServeFails(m) \/ Lose(m) \/ Receive(m)
      PROVE  UNCHANGED owner
  BY <1>5 DEF ServeFails, Lose, Receive, providerVars
<1>6. ASSUME NEW t \in Tabs, NEW op, NEW arg, Act(t, op, arg) PROVE UNCHANGED owner
  BY <1>6 DEF Act, providerVars
<1>7. ASSUME NEW t \in Tabs, NEW a \in Calls, Call(t, a) PROVE UNCHANGED owner
  BY <1>7 DEF Call, providerVars
<1>8. CASE Restart
  BY <1>4, <1>8 DEF Restart, providerVars
<1>9. ASSUME NEW token \in Tokens, Expire(token) PROVE UNCHANGED owner
  BY <1>9 DEF Expire
<1>10. ASSUME NEW s \in Sessions, EndSession(s) PROVE UNCHANGED owner
  BY <1>10 DEF EndSession
<1>11. CASE UNCHANGED vars
  BY <1>4, <1>11 DEF vars, providerVars
<1> QED BY <1>3, <1>4, <1>5, <1>6, <1>7, <1>8, <1>9, <1>10, <1>11
        DEF Next, Refresh, Logout, Login

LEMMA NetStep ==
    ASSUME SessInv, [Next]_vars
    PROVE  NetOK'
<1>1. NetOK /\ \A k \in net' : Comes(k)
  BY Messages DEF SessInv
<1>2. ASSUME NEW m \in net'
      PROVE  /\ m \in AllRequests \cup AllResponses /\ OpOK(m)
             /\ m.type = "response" => AnswerOK(m)'
  <2>1. CASE m \in net
    <3>1. m \in AllRequests \cup AllResponses /\ OpOK(m)
      BY <1>1, <2>1 DEF NetOK
    <3>2. ASSUME m.type = "response" PROVE AnswerOK(m)'
      <4>1. AnswerOK(m)
        BY <1>1, <2>1, <3>2 DEF NetOK
      <4>2. SignsIn(m) /\ m.status = 200 => owner'[m.cookies.refresh[1]] = m.user
        BY <4>1, OwnerIsKept, NoneFacts DEF AnswerOK, Tokens
      <4> QED BY <4>1, <4>2 DEF AnswerOK
    <3> QED BY <3>1, <3>2
  <2>2. CASE Sent(m)
    BY <2>2 DEF Sent, AllRequests
  <2>3. ASSUME NEW k \in net, k.type = "request", m = [k EXCEPT !.live = FALSE]
        PROVE  m \in AllRequests /\ OpOK(m)
    <3>1. k \in AllRequests /\ OpOK(k) /\ k.type = "request"
      BY <1>1, <2>3, RequestFacts
    <3>2. m \in AllRequests /\ m.th = k.th /\ m.op = k.op /\ m.arg = k.arg /\ m.type = "request"
      BY <2>3, <3>1 DEF AllRequests
    <3> QED BY <3>1, <3>2 DEF OpOK, SignsIn
  <2>4. ASSUME NEW k \in net, Answers(k, m)
        PROVE  m \in AllResponses /\ OpOK(m) /\ AnswerOK(m)'
    BY <2>4 DEF Answers, AnswerOK
  <2> QED BY <1>1, <2>1, <2>2, <2>3, <2>4 DEF Comes, AllRequests
<1> QED BY <1>2 DEF NetOK

\* A login is accepted.
SignIn(m) == Receive(m) /\ SignsIn(m) /\ m.status = 200

\* What the messages bring to a browser that is signed out.
Quiet ==
    \A m \in net :
       /\ m.type = "request" /\ Acts(m) => m.jar = Empty
       /\ m.type = "response" => m.cookies \in {None, Empty} \/ (SignsIn(m) /\ m.status = 200)

\* The user a tab shows is the one it showed, or comes with a profile.
Profiled(t) ==
    \/ user'[t] = None
    \/ t \in sure /\ user'[t] = user[t]
    \/ \E m \in net : m.type = "response" /\ m.op = "me" /\ m.status = 200 /\ user'[t] = m.user

Steady ==
    /\ InJar(jar') \subseteq Held
    /\ murky => murky'
    /\ out' => jar' = Empty /\ Quiet
    /\ \A t \in sure' : Profiled(t)

LEMMA SteadyIfSame ==
    ASSUME StateOK, SignedOut, UNCHANGED <<jar, out, murky, sure, user>>
    PROVE  Steady
<1>1. InJar(jar') \subseteq Held
  BY JarIsHeld
<1>2. out' => jar' = Empty /\ Quiet
  BY DEF SignedOut, Quiet
<1>3. \A t \in sure' : Profiled(t)
  BY DEF Profiled
<1> QED BY <1>1, <1>2, <1>3 DEF Steady

LEMMA ReceiveIsSteady ==
    ASSUME StateOK, NetOK, SignedOut, NEW m \in net, Receive(m), ~SignIn(m)
    PROVE  Steady
<1>1. m.type = "response" /\ jar' = IF m.cookies = None THEN jar ELSE m.cookies
  BY ReceivedJar
<1>2. AnswerOK(m) /\ OpOK(m) /\ m.th \in Threads /\ m.cookies \in Jars \cup {None}
  BY <1>1, ResponseFacts
<1>3. SignsIn(m) => m.cookies = None
  BY <1>2 DEF SignIn, AnswerOK
<1>4. InJar(jar') \subseteq Held
  <2>1. CASE m.cookies = None
    BY <1>1, <2>1, JarIsHeld
  <2>2. CASE m.cookies # None
    <3> QED BY <1>1, <1>2, <1>3, <2>2, InJarFacts DEF Held
  <2> QED BY <2>1, <2>2
<1>5. murky => murky'
  BY DEF Receive
<1>6. out' => jar' = Empty /\ Quiet
  <2>1. CASE out
    <3>1. jar = Empty /\ Quiet
      BY <2>1 DEF SignedOut, Quiet
    <3>2. m.cookies \in {None, Empty}
      BY <1>1, <1>3, <3>1 DEF Quiet
    <3> QED BY <1>1, <3>1, <3>2
  <2>2. CASE ~out
    <3>1. SUFFICES ASSUME out' PROVE jar' = Empty /\ Quiet
      OBVIOUS
    <3>2. m.op = "logout" /\ m.status = 200 /\ \A k \in net \ {m} : ~Acts(k)
      BY <2>2, <3>1 DEF Receive
    <3>3. m.cookies = Empty
      BY <1>2, <3>2 DEF AnswerOK
    <3>4. ASSUME NEW k \in net, k.type = "response" PROVE k = m \/ k.cookies = None
      BY <3>2, <3>4, ResponseFacts DEF Acts, AnswerOK
    <3>5. Quiet
      BY <1>1, <3>2, <3>3, <3>4 DEF Quiet
    <3> QED BY <1>1, <3>3, <3>5, NoneFacts
  <2> QED BY <2>1, <2>2
<1>7. \A t \in sure' : Profiled(t)
  <2> DEFINE s == m.th[1]
  <2>1. sure' = IF m.th[2] = "session" /\ m.op = "me" THEN sure \cup {s} ELSE sure
    BY DEF Receive, SignIn, SignsIn
  <2>2. CASE ReceiveSession(m, net \ {m}, jar')
    <3>1. /\ s \in Tabs /\ user \in [Tabs -> Users \cup {None}]
          /\ m.op \in {"me", "login", "logout"} /\ m.status \in {200, 401, 500}
          /\ m.op = "login" => m.status # 200
      BY <1>1, <1>2, <2>2, ResponseFacts DEF ReceiveSession, OpOK, SignIn, SignsIn, StateOK
    <3>2. \A t \in Tabs : t # s => user'[t] = user[t]
      BY <2>2, <3>1 DEF ReceiveSession
    <3>3. user'[s] = None \/ (user'[s] = user[s] /\ m.op # "me")
          \/ (m.op = "me" /\ m.status = 200 /\ user'[s] = m.user)
      BY <2>2, <3>1 DEF ReceiveSession
    <3> QED BY <1>1, <2>1, <3>2, <3>3 DEF Profiled, StateOK
  <2>3. CASE Reload({s}, net \ {m}, jar')
    <3>1. \A t \in Tabs : user'[t] = None \/ (t # s /\ user'[t] = user[t])
      BY <2>3 DEF Reload
    <3>2. sure' \subseteq Tabs
      BY <1>1, <2>1, ResponseFacts DEF StateOK
    <3> QED BY <2>1, <3>1, <3>2 DEF Profiled
  <2>4. CASE m.th[2] # "session" /\ UNCHANGED user
    BY <2>1, <2>4 DEF Profiled
  <2>5. CASE pc[m.th] \in {"first", "retry"} /\ UNCHANGED user
    <3>1. m.th[2] # "session"
      BY <1>2, <2>5, CallThreads, NoneFacts
    <3> QED BY <2>4, <2>5, <3>1
  <2>6. \/ ReceiveSession(m, net \ {m}, jar') \/ Reload({s}, net \ {m}, jar')
        \/ (m.th[2] # "session" /\ UNCHANGED user)
        \/ (pc[m.th] \in {"first", "retry"} /\ UNCHANGED user)
    BY ReceivedJar DEF ReceiveGoogle, ReceiveFirst, ReceiveRefresh, ReceiveRetry, ReceiveQuit
  <2> QED BY <2>2, <2>3, <2>4, <2>5, <2>6
<1> QED BY <1>4, <1>5, <1>6, <1>7 DEF Steady

LEMMA StepIsSteady ==
    ASSUME SessInv, [Next]_vars, \A m \in net : ~SignIn(m)
    PROVE  Steady
<1>1. StateOK /\ NetOK /\ SignedOut
  BY DEF SessInv
<1>2. CASE UNCHANGED vars
  BY <1>1, <1>2, SteadyIfSame DEF vars, browserVars, historyVars
<1>3. ASSUME NEW t \in Tabs, NEW op, NEW arg, Act(t, op, arg) PROVE Steady
  BY <1>1, <1>3, SteadyIfSame DEF Act
<1>4. ASSUME NEW t \in Tabs, NEW a \in Calls, Call(t, a) PROVE Steady
  BY <1>1, <1>4, SteadyIfSame DEF Call
<1>5. ASSUME NEW m \in net, Serve(m) \/ ServeFails(m) \/ Lose(m) PROVE Steady
  <2>1. UNCHANGED <<jar, out, murky, sure, user>>
    BY <1>5 DEF Serve, ServeFails, Lose
  <2> QED BY <1>1, <2>1, SteadyIfSame
<1>6. ASSUME NEW m \in net, Receive(m) PROVE Steady
  BY <1>1, <1>6, ReceiveIsSteady
<1>7. ASSUME NEW token \in Tokens, Expire(token) PROVE Steady
  <2>1. jar' = IF jar.access = token /\ jar.keep THEN [jar EXCEPT !.access = None] ELSE jar
    BY <1>7 DEF Expire
  <2>2. UNCHANGED <<out, murky, sure, user>>
    BY <1>7 DEF Expire, historyVars
  <2>3. jar \in Jars
    BY <1>1 DEF StateOK
  <2>4. InJar(jar') \subseteq InJar(jar)
    BY <2>1, <2>3 DEF Jars, InJar
  <2>5. out => jar' = Empty
    BY <1>1, <2>1, NoneFacts DEF SignedOut
  <2> QED BY <1>1, <2>2, <2>4, <2>5, JarIsHeld DEF Steady, SignedOut, Quiet, Profiled
<1>8. ASSUME NEW s \in Sessions, EndSession(s) PROVE Steady
  BY <1>1, <1>8, SteadyIfSame DEF EndSession, browserVars, historyVars
<1>9. CASE Restart
  <2>1. jar' = (IF jar.keep THEN jar ELSE Empty) /\ UNCHANGED <<out, murky, sure>>
    BY <1>9 DEF Restart
  <2>2. \A t \in Tabs : user'[t] = None
    BY <1>9 DEF Restart, Reload
  <2>3. InJar(jar') \subseteq InJar(jar)
    BY <2>1, NoneFacts
  <2>4. out => jar' = Empty
    BY <1>1, <2>1 DEF SignedOut
  <2> QED BY <1>1, <2>1, <2>2, <2>3, <2>4, JarIsHeld DEF Steady, SignedOut, Quiet, Profiled, StateOK
<1> QED BY <1>2, <1>3, <1>4, <1>5, <1>6, <1>7, <1>8, <1>9 DEF Next, Refresh, Logout, Login

LEMMA SignedOutStep ==
    ASSUME SessInv, [Next]_vars
    PROVE  SignedOut'
<1>1. CASE \E m \in net : SignIn(m)
  <2>1. ~out'
    BY <1>1 DEF SignIn, Receive, SignsIn
  <2> QED BY <2>1 DEF SignedOut
<1>2. CASE \A m \in net : ~SignIn(m)
  <2>1. SUFFICES ASSUME out' PROVE SignedOut'
    BY DEF SignedOut
  <2>2. jar' = Empty /\ Quiet
    BY <1>2, <2>1, StepIsSteady DEF Steady
  <2>3. NetOK /\ \A m \in net' : Comes(m)
    BY Messages DEF SessInv
  <2>4. ASSUME NEW m \in net'
        PROVE  /\ m.type = "request" /\ Acts(m) => m.jar = Empty
               /\ m.type = "response" => \/ m.cookies \in {None, Empty}
                                         \/ SignsIn(m) /\ m.status = 200
    <3>1. CASE m \in net
      BY <2>2, <3>1 DEF Quiet
    <3>2. CASE Sent(m)
      BY <2>2, <3>2 DEF Sent, AllRequests
    <3>3. ASSUME NEW k \in net, k.type = "request", m = [k EXCEPT !.live = FALSE]
          PROVE  m.type = "request" /\ m.op = k.op /\ m.jar = k.jar
      BY <2>3, <3>3, RequestFacts DEF AllRequests
    <3>4. ASSUME NEW k \in net, Answers(k, m)
          PROVE  m.type = "response" /\ (m.cookies \in {None, Empty} \/ (SignsIn(m) /\ m.status = 200))
      <4>1. m.type = "response" /\ (m.op = "api" => m.cookies = None) /\ m.op = k.op
        BY <3>4 DEF Answers, AllResponses
      <4>2. CASE ~SignsIn(m) /\ m.cookies \notin {None, Empty}
        <5>1. k.type = "request" /\ k.jar.refresh # None
          BY <3>4, <4>2 DEF Answers
        <5>2. Acts(k)
          BY <4>1, <4>2 DEF Acts
        <5> QED BY <2>2, <5>1, <5>2, NoneFacts DEF Quiet
      <4>3. CASE SignsIn(m) /\ m.status # 200
        BY <3>4, <4>1, <4>3 DEF Answers
      <4> QED BY <4>1, <4>2, <4>3
    <3> QED BY <2>2, <2>3, <3>1, <3>2, <3>3, <3>4 DEF Comes, Quiet, Acts
  <2> QED BY <2>2, <2>4 DEF SignedOut
<1> QED BY <1>1, <1>2

-----------------------------------------------------------------------------
(* One session.                                                            *)

LEMMA HeldStep ==
    ASSUME SessInv, [Next]_vars, InJar(jar') \subseteq Held, NEW y \in Held'
    PROVE  \E x \in Held : x[1] = y[1]
<1>1. NetOK /\ \A k \in net' : Comes(k)
  BY Messages DEF SessInv
<1>2. \/ y \in InJar(jar')
      \/ \E m \in net' : m.type = "request" /\ y \in InJar(m.jar)
      \/ \E m \in net' : /\ m.type = "response" /\ ~SignsIn(m) /\ m.cookies # None
                         /\ y \in InJar(m.cookies)
  BY DEF Held
<1>3. ASSUME NEW m \in net', m.type = "request", y \in InJar(m.jar)
      PROVE  y \in Held
  <2> y \in Tokens
    BY DEF Held
  <2>1. CASE m \in net
    BY <1>3, <2>1 DEF Held
  <2>2. CASE Sent(m)
    BY <1>3, <2>2 DEF Sent
  <2>3. ASSUME NEW k \in net, k.type = "request", m = [k EXCEPT !.live = FALSE]
        PROVE  y \in InJar(k.jar)
    <3>1. m.jar = k.jar
      BY <1>1, <2>3, RequestFacts DEF AllRequests
    <3> QED BY <1>3, <3>1
  <2>4. ASSUME NEW k \in net, Answers(k, m) PROVE FALSE
    BY <1>3, <2>4 DEF Answers, AllResponses
  <2> QED BY <1>1, <2>1, <2>2, <2>3, <2>4 DEF Comes, Held
<1>4. ASSUME NEW m \in net', m.type = "response", ~SignsIn(m), m.cookies # None,
             y \in InJar(m.cookies)
      PROVE  \E x \in Held : x[1] = y[1]
  <2> y \in Tokens
    BY DEF Held
  <2>1. CASE m \in net
    BY <1>4, <2>1 DEF Held
  <2>2. CASE Sent(m)
    BY <1>4, <2>2 DEF Sent, AllRequests
  <2>3. ASSUME NEW k \in net, k.type = "request", m = [k EXCEPT !.live = FALSE] PROVE FALSE
    <3>1. m.type = k.type
      BY <1>1, <2>3, RequestFacts DEF AllRequests
    <3> QED BY <1>4, <2>3, <3>1
  <2>4. ASSUME NEW k \in net, Answers(k, m) PROVE \E x \in Held : x[1] = y[1]
    <3>1. m.cookies \notin {None, Empty}
      BY <1>4, NoneFacts
    <3>2. /\ k.type = "request" /\ k.jar.refresh # None /\ m.cookies.access = m.cookies.refresh
          /\ m.cookies.refresh[1] = k.jar.refresh[1]
      BY <1>4, <2>4, <3>1 DEF Answers
    <3>3. y = m.cookies.refresh /\ k.jar.refresh \in InJar(k.jar)
      BY <1>4, <3>2 DEF InJar
    <3>4. k.jar.refresh \in Held
      BY <1>1, <3>2, <3>3, RequestFacts DEF Held
    <3> QED BY <3>2, <3>3, <3>4
  <2> QED BY <1>1, <2>1, <2>2, <2>3, <2>4 DEF Comes
<1> QED BY <1>2, <1>3, <1>4

LEMMA HeldTokens ==
    ASSUME NEW x \in Held
    PROVE  x \in Tokens /\ x[1] \in Sessions
  BY DEF Held, Tokens

LEMMA SignInIsAlone ==
    ASSUME SessInv, [Next]_vars, ~murky', NEW m \in net, SignIn(m)
    PROVE  OneSession'
<1>1. StateOK /\ NetOK /\ Receive(m) /\ m.status = 200 /\ m.op \in {"login", "google"}
  BY DEF SessInv, SignIn, SignsIn
<1>2. net \ {m} = {} /\ sure' = {m.th[1]} \ {t \in Tabs : m.op = "google"}
  BY <1>1 DEF Receive
<1>3. m.type = "response" /\ AnswerOK(m) /\ OpOK(m) /\ m.th \in Threads /\ m.th[1] \in Tabs
  <2>1. m.type = "response"
    BY <1>1, ReceivedJar
  <2> QED BY <1>1, <2>1, ResponseFacts
<1>4. m.th[2] = "session"
  BY <1>1, <1>3, NoneFacts DEF OpOK, Threads
<1> DEFINE x == m.cookies.refresh
<1>5. /\ m.cookies \in Jars /\ m.cookies.access = x /\ x \in Tokens /\ m.user \in Users
      /\ owner[x[1]] = m.user
  BY <1>1, <1>3 DEF AnswerOK, SignsIn
<1>6. jar' = m.cookies /\ owner' = owner
  BY <1>1, <1>5, ReceivedJar, NoneFacts DEF Receive, providerVars
<1>7. \A k \in net' : k.type = "request" /\ k.jar = jar'
  <2>1. CASE ReceiveSession(m, net \ {m}, jar')
    BY <1>2, <2>1 DEF ReceiveSession
  <2>2. CASE ReceiveGoogle(m, net \ {m}, jar')
    BY <1>2, <2>2 DEF ReceiveGoogle, Reload, Mounts, Request
  <2>3. pc[m.th] \in {Idle, "session"} /\ "session" # "refresh"
    BY <1>1, <1>3, <1>4 DEF StateOK
  <2> QED BY <1>1, <1>4, <2>1, <2>2, <2>3, ReceivedJar
          DEF ReceiveFirst, ReceiveRefresh, ReceiveRetry, ReceiveQuit, Idle
<1>8. \A y \in Held' : y = x
  BY <1>5, <1>6, <1>7 DEF Held, InJar
<1>9. \A t \in sure' : user'[t] = m.user
  <2>1. CASE m.op = "google"
    BY <1>2, <1>3, <2>1
  <2>2. CASE m.op = "login"
    <3>1. ReceiveSession(m, net \ {m}, jar')
      <4>1. pc[m.th] \in {Idle, "session"}
        BY <1>1, <1>3, <1>4 DEF StateOK
      <4> QED BY <1>1, <1>4, <2>2, <4>1, ReceivedJar
              DEF ReceiveGoogle, ReceiveFirst, ReceiveRefresh, ReceiveRetry, ReceiveQuit, Idle
    <3>2. user'[m.th[1]] = m.user
      BY <1>1, <1>3, <2>2, <3>1 DEF ReceiveSession, StateOK
    <3> QED BY <1>2, <3>2
  <2> QED BY <1>1, <2>1, <2>2
<1>10. Responses' = {}
  BY <1>7 DEF Responses
<1> QED BY <1>5, <1>6, <1>8, <1>9, <1>10, NoneFacts DEF OneSession

LEMMA OneSessionStep ==
    ASSUME SessInv, [Next]_vars
    PROVE  OneSession'
<1>1. StateOK /\ NetOK /\ OneSession /\ \A k \in net' : Comes(k)
  BY Messages DEF SessInv
<1>2. SUFFICES ASSUME ~murky' PROVE OneSession'
  BY DEF OneSession
<1>3. CASE \E m \in net : SignIn(m)
  BY <1>2, <1>3, SignInIsAlone
<1>4. CASE \A m \in net : ~SignIn(m)
  <2>1. Steady /\ ~murky
    BY <1>2, <1>4, StepIsSteady DEF Steady
  <2>2. ASSUME NEW y \in Held'
        PROVE  \E x \in Held : x[1] = y[1]
    BY <2>1, <2>2, HeldStep DEF Steady
  <2>3. ASSUME NEW y \in Held', NEW x \in Held, x[1] = y[1]
        PROVE  /\ \A z \in Held' : y[1] = z[1]
               /\ owner'[y[1]] # None
               /\ \A t \in sure' : user'[t] \in {None, owner'[y[1]]}
               /\ \A m \in Responses' : m.op = "me" /\ m.status = 200 => m.user \in {None, owner'[y[1]]}
    <3>1. /\ \A z \in Held : x[1] = z[1]
          /\ owner[x[1]] # None
          /\ \A t \in sure : user[t] \in {None, owner[x[1]]}
          /\ \A m \in net : m.type = "response" /\ m.op = "me" /\ m.status = 200
                               => m.user \in {None, owner[x[1]]}
      BY <1>1, <2>1 DEF OneSession, Responses
    <3>2. owner'[y[1]] = owner[x[1]] /\ owner'[y[1]] # None
      BY <2>3, <3>1, HeldTokens, OwnerIsKept
    <3>3. \A z \in Held' : y[1] = z[1]
      BY <2>2, <2>3, <3>1
    <3>4. \A t \in sure' : user'[t] \in {None, owner'[y[1]]}
      BY <2>1, <3>1, <3>2 DEF Steady, Profiled
    <3>5. ASSUME NEW m \in net', m.type = "response", m.op = "me", m.status = 200
          PROVE  m.user \in {None, owner'[y[1]]}
      <4>1. CASE m \in net
        BY <3>1, <3>2, <3>5, <4>1
      <4>2. CASE Sent(m)
        BY <3>5, <4>2 DEF Sent, AllRequests
      <4>3. ASSUME NEW k \in net, k.type = "request", m = [k EXCEPT !.live = FALSE] PROVE FALSE
        <5>1. m.type = k.type
          BY <1>1, <4>3, RequestFacts DEF AllRequests
        <5> QED BY <3>5, <4>3, <5>1
      <4>4. ASSUME NEW k \in net, Answers(k, m) PROVE m.user = owner[x[1]]
        <5>1. PICK z \in InJar(k.jar) : m.user = owner[z[1]]
          BY <3>5, <4>4 DEF Answers
        <5>2. k.type = "request"
          BY <3>5, <4>4 DEF Answers
        <5>3. z \in Held
          BY <1>1, <5>1, <5>2, RequestFacts, InJarFacts DEF Held
        <5> QED BY <3>1, <5>1, <5>3
      <4> QED BY <1>1, <3>2, <4>1, <4>2, <4>3, <4>4 DEF Comes
    <3> QED BY <3>2, <3>3, <3>4, <3>5 DEF Responses
  <2>4. \A y \in Held' :
           /\ \A z \in Held' : y[1] = z[1]
           /\ owner'[y[1]] # None
           /\ \A t \in sure' : user'[t] \in {None, owner'[y[1]]}
           /\ \A m \in Responses' : m.op = "me" /\ m.status = 200 => m.user \in {None, owner'[y[1]]}
    BY <2>2, <2>3
  <2> QED BY <2>4 DEF OneSession
<1> QED BY <1>3, <1>4

-----------------------------------------------------------------------------
(* A thread waits for one message.                                         *)

LoneAt(th, w, n) ==
    /\ ~w => \A m \in n : m.th = th => ~Alive(m)
    /\ w => \E m \in n : /\ m.th = th /\ Alive(m)
                         /\ \A k \in n : k.th = th /\ Alive(k) => k = m

LEMMA LoneIsAt == Lone <=> \A th \in Threads : LoneAt(th, Waits(th), net)
  BY DEF Lone, LoneAt

LEMMA LoneAtStep ==
    ASSUME \A th \in Threads : LoneAt(th, Waits(th)', net')
    PROVE  Lone'
  BY DEF Lone, LoneAt

\* A thread that is not waiting sends a request.
LEMMA LoneSend ==
    ASSUME NEW th, NEW n, LoneAt(th, FALSE, n), NEW op, NEW arg, NEW j
    PROVE  LoneAt(th, TRUE, n \cup {Request(th, op, arg, j)})
<1> DEFINE r == Request(th, op, arg, j)
<1>1. r.th = th /\ Alive(r)
  BY DEF Request, Alive
<1> HIDE DEF r
<1>2. LoneAt(th, TRUE, n \cup {r})
  BY <1>1 DEF LoneAt
<1> QED BY <1>2 DEF r

\* The messages of the other threads do not matter.
LEMMA LoneOthers ==
    ASSUME NEW th, NEW w \in BOOLEAN, NEW n, NEW o, LoneAt(th, w, n),
           \A m : m.th = th /\ Alive(m) => (m \in n <=> m \in o)
    PROVE  LoneAt(th, w, o)
  BY DEF LoneAt

LEMMA LoneAnswer ==
    ASSUME NetOK, Lone, NEW m \in net, NEW r, r.th = m.th, r.type = "response", Alive(m),
           net' = (net \ {m}) \cup {r}, pc' = pc
    PROVE  Lone'
<1>1. m.th \in Threads /\ Alive(r)
  BY DEF NetOK, AllRequests, AllResponses, Alive
<1>2. SUFFICES ASSUME NEW th \in Threads PROVE LoneAt(th, Waits(th), net')
  BY LoneAtStep DEF Waits
<1>3. LoneAt(th, Waits(th), net) /\ Waits(th) \in BOOLEAN
  BY LoneIsAt DEF Waits
<1>4. CASE th # m.th
  BY <1>3, <1>4 DEF LoneAt
<1>5. CASE th = m.th
  <2>1. Waits(th) /\ \A k \in net : k.th = th /\ Alive(k) => k = m
    BY <1>3, <1>5 DEF LoneAt
  <2> QED BY <1>1, <1>5, <2>1 DEF LoneAt
<1> QED BY <1>4, <1>5

LEMMA LoneDrop ==
    ASSUME Lone, NEW m \in net, ~Alive(m), net' = net \ {m}, pc' = pc
    PROVE  Lone'
<1>1. SUFFICES ASSUME NEW th \in Threads PROVE LoneAt(th, Waits(th), net')
  BY LoneAtStep DEF Waits
<1>2. LoneAt(th, Waits(th), net)
  BY LoneIsAt
<1> QED BY <1>2 DEF LoneAt

LEMMA LoneAnswered ==
    ASSUME NetOK, Lone, NEW m \in net, m.type = "request", NEW status, NEW cookies, NEW u,
           Answer(m, status, cookies, u), pc' = pc
    PROVE  Lone'
<1>1. CASE m.live
  <2> DEFINE r == Response(m, status, cookies, u)
  <2>1. r.th = m.th /\ r.type = "response"
    BY DEF Response
  <2>2. net' = (net \ {m}) \cup {r} /\ Alive(m)
    BY <1>1 DEF Answer, Alive
  <2> HIDE DEF r
  <2> QED BY <2>1, <2>2, LoneAnswer
<1>2. CASE ~m.live
  <2>1. net' = net \ {m} /\ ~Alive(m)
    BY <1>2 DEF Answer, Alive
  <2> QED BY <2>1, LoneDrop
<1> QED BY <1>1, <1>2

\* The tabs T load a page; n is what is left of the messages.
LEMMA LoneReload ==
    ASSUME NetOK, Lone, NEW T \in SUBSET Tabs, NEW n \in SUBSET net, NEW j,
           \A k \in net \ n : k.th[1] \in T, Reload(T, n, j)
    PROVE  Lone'
<1>1. SUFFICES ASSUME NEW th \in Threads PROVE LoneAt(th, Waits(th)', net')
  BY LoneAtStep
<1>2. LoneAt(th, Waits(th), net)
  BY LoneIsAt
<1>3. pc'[th] = IF th[1] \notin T THEN pc[th]
                ELSE IF th[2] = "session" THEN "session" ELSE Idle
  BY DEF Reload
<1> DEFINE dead == {[m EXCEPT !.live = FALSE] :
                      m \in {m \in n : m.th[1] \in T /\ m.type = "request" /\ Acts(m)}}
<1>4. net' = {m \in n : m.th[1] \notin T} \cup Mounts(T, j) \cup dead
  BY DEF Reload
<1>5. \A m \in dead : ~Alive(m)
  <2>1. SUFFICES ASSUME NEW m \in n, m.type = "request" PROVE ~Alive([m EXCEPT !.live = FALSE])
    OBVIOUS
  <2>2. m \in AllRequests
    BY <2>1, RequestFacts
  <2> QED BY <2>2 DEF AllRequests, Alive
<1> HIDE DEF dead
<1>6. \A m \in Mounts(T, j) : /\ m.th[1] \in T /\ m.th[2] = "session" /\ Alive(m)
                              /\ m = Request(<<m.th[1], "session">>, "me", None, j)
                              /\ m.th = <<m.th[1], "session">>
  BY DEF Mounts, Request, Alive
<1>7. CASE th[1] \notin T
  <2>1. Waits(th)' = Waits(th)
    BY <1>3, <1>7 DEF Waits
  <2>2. \A m : m.th = th /\ Alive(m) => (m \in net <=> m \in net')
    BY <1>4, <1>5, <1>6, <1>7
  <2> QED BY <1>2, <2>1, <2>2 DEF LoneAt
<1>8. CASE th[1] \in T /\ th[2] # "session"
  <2>1. ~Waits(th)'
    BY <1>3, <1>8 DEF Waits
  <2>2. \A m \in net' : m.th = th => ~Alive(m)
    BY <1>4, <1>5, <1>6, <1>8
  <2> QED BY <2>1, <2>2 DEF LoneAt
<1>9. CASE th[1] \in T /\ th[2] = "session"
  <2> DEFINE r == Request(<<th[1], "session">>, "me", None, j)
  <2>1. Waits(th)'
    BY <1>3, <1>9 DEF Waits, Idle
  <2>2. th = <<th[1], "session">> /\ r.th = th /\ Alive(r)
    BY <1>9 DEF Threads, Request, Alive
  <2>3. r \in Mounts(T, j)
    BY <1>9 DEF Mounts
  <2> HIDE DEF r
  <2>4. \A k \in net' : k.th = th /\ Alive(k) => k = r
    BY <1>4, <1>5, <1>6, <1>9 DEF r
  <2> QED BY <1>4, <2>1, <2>2, <2>3, <2>4 DEF LoneAt
<1> QED BY <1>7, <1>8, <1>9

\* The thread s sends a request, and waits; the others do as before.
LEMMA LoneStart ==
    ASSUME NEW n, NEW s \in Threads, NEW op, NEW arg, NEW j, LoneAt(s, FALSE, n), Waits(s)',
           \A th \in Threads : th # s => LoneAt(th, Waits(th)', n),
           net' = n \cup {Request(s, op, arg, j)}
    PROVE  Lone'
<1>1. SUFFICES ASSUME NEW th \in Threads PROVE LoneAt(th, Waits(th)', net')
  BY LoneAtStep
<1>2. CASE th = s
  <2>1. LoneAt(s, TRUE, net')
    BY LoneSend
  <2> QED BY <1>2, <2>1 DEF LoneAt
<1>3. CASE th # s
  <2> DEFINE r == Request(s, op, arg, j)
  <2>1. r.th = s
    BY DEF Request
  <2> HIDE DEF r
  <2>2. LoneAt(th, Waits(th)', n) /\ net' = n \cup {r}
    BY <1>3 DEF r
  <2> QED BY <1>3, <2>1, <2>2 DEF LoneAt
<1> QED BY <1>2, <1>3

LEMMA LoneAct ==
    ASSUME StateOK, Lone, NEW t \in Tabs, NEW op, NEW arg, Act(t, op, arg)
    PROVE  Lone'
<1> DEFINE s == <<t, "session">>
<1>1. /\ s \in Threads /\ pc[s] = Idle /\ pc' = [pc EXCEPT ![s] = "session"]
      /\ net' = net \cup {Request(s, op, arg, jar)}
  BY ThreadFacts DEF Act, Send
<1>2. LoneAt(s, FALSE, net)
  BY <1>1, LoneIsAt DEF Waits, LoneAt
<1>3. Waits(s)' /\ \A th \in Threads : th # s => Waits(th)' = Waits(th)
  BY <1>1 DEF StateOK, Waits, Idle
<1>4. \A th \in Threads : th # s => LoneAt(th, Waits(th)', net)
  BY <1>3, LoneIsAt
<1> QED BY <1>1, <1>2, <1>3, <1>4, LoneStart

LEMMA LoneCall ==
    ASSUME StateOK, Lone, NEW t \in Tabs, NEW a \in Calls, Call(t, a)
    PROVE  Lone'
<1> DEFINE s == <<t, a>>
<1>1. /\ s \in Threads /\ pc[s] = Idle /\ pc' = [pc EXCEPT ![s] = "first"]
      /\ net' = net \cup {Request(s, Route(a), None, jar)}
  BY ThreadFacts DEF Call, Send
<1>2. LoneAt(s, FALSE, net)
  BY <1>1, LoneIsAt DEF Waits, LoneAt
<1>3. Waits(s)' /\ \A th \in Threads : th # s => Waits(th)' = Waits(th)
  BY <1>1 DEF StateOK, Waits, Idle
<1>4. \A th \in Threads : th # s => LoneAt(th, Waits(th)', net)
  BY <1>3, LoneIsAt
<1> QED BY <1>1, <1>2, <1>3, <1>4, LoneStart

LEMMA RefreshAnswers ==
    ASSUME NEW m, ServeRefresh(m)
    PROVE  \E status, cookies, u : Answer(m, status, cookies, u)
<1>1. PICK r : IF r = None THEN Answer(m, 401, Empty, None)
               ELSE Answer(m, 200, Cookies(r, TRUE), owner[r[1]])
  BY DEF ServeRefresh
<1>2. CASE r = None
  BY <1>1, <1>2
<1>3. CASE r # None
  BY <1>1, <1>3
<1> QED BY <1>2, <1>3

LEMMA LoginAnswers ==
    ASSUME NEW m, ServeLogin(m)
    PROVE  \E status, cookies, u : Answer(m, status, cookies, u)
<1>1. CASE Answer(m, 401, None, None)
  BY <1>1
<1>2. ASSUME NEW s, Answer(m, 200, Cookies(<<s, 1>>, m.arg.remember), m.arg.user)
      PROVE  \E status, cookies, u : Answer(m, status, cookies, u)
  BY <1>2
<1> QED BY <1>1, <1>2 DEF ServeLogin

LEMMA LoneServe ==
    ASSUME NetOK, Lone, NEW m \in net, Serve(m) \/ ServeFails(m)
    PROVE  Lone'
<1>1. m.type = "request" /\ pc' = pc
  BY DEF Serve, ServeFails, Requests
<1>2. \E status, cookies, u : Answer(m, status, cookies, u)
  <2>1. CASE ServeRefresh(m)
    BY <2>1, RefreshAnswers
  <2>2. CASE ServeLogin(m)
    BY <2>2, LoginAnswers
  <2>3. CASE ServeMe(m)
    BY <2>3 DEF ServeMe
  <2>4. CASE ServeLogout(m)
    BY <2>4 DEF ServeLogout
  <2>5. CASE ServeProxy(m)
    BY <2>5 DEF ServeProxy
  <2>6. CASE ServeFails(m)
    BY <2>6 DEF ServeFails
  <2> QED BY <2>1, <2>2, <2>3, <2>4, <2>5, <2>6 DEF Serve
<1> QED BY <1>1, <1>2, LoneAnswered

LEMMA LoneLose ==
    ASSUME NetOK, Lone, NEW m \in net, Lose(m)
    PROVE  Lone'
<1> DEFINE r == Response(m, 500, None, None)
<1>1. r.th = m.th /\ r.type = "response"
  BY DEF Response
<1>2. net' = (net \ {m}) \cup {r} /\ Alive(m) /\ pc' = pc
  BY DEF Lose, Alive, Responses, Requests
<1> HIDE DEF r
<1> QED BY <1>1, <1>2, LoneAnswer

LEMMA LoneReceive ==
    ASSUME StateOK, NetOK, Lone, NEW m \in net, Receive(m)
    PROVE  Lone'
<1> DEFINE s == m.th
           n == net \ {m}
           r == <<m.th[1], "refresh">>
<1>1. m.type = "response"
  BY ReceivedJar
<1>2. s \in Threads /\ s[1] \in Tabs /\ r \in Threads /\ Alive(m) /\ OpOK(m)
  <2>1. s \in Threads /\ s[1] \in Tabs /\ OpOK(m)
    BY <1>1, ResponseFacts
  <2> QED BY <1>1, <2>1, ThreadFacts DEF Alive
<1>3. LoneAt(s, FALSE, n)
  BY <1>2, LoneIsAt DEF LoneAt
<1>4. \A th \in Threads : th # s => LoneAt(th, Waits(th), n)
  BY LoneIsAt DEF LoneAt
<1> HIDE DEF n
<1>5. CASE pc' = [pc EXCEPT ![s] = Idle] /\ net' = n
  <2>1. ~Waits(s)' /\ \A th \in Threads : th # s => Waits(th)' = Waits(th)
    BY <1>2, <1>5 DEF StateOK, Waits
  <2>2. ASSUME NEW th \in Threads PROVE LoneAt(th, Waits(th)', net')
    <3>1. CASE th = s
      BY <1>3, <1>5, <2>1, <3>1 DEF LoneAt
    <3>2. CASE th # s
      BY <1>4, <1>5, <2>1, <3>2
    <3> QED BY <3>1, <3>2
  <2> QED BY <2>2, LoneAtStep
<1>6. CASE Reload({s[1]}, n, jar')
  BY <1>2, <1>6, LoneReload DEF n
<1>7. CASE ReceiveFirst(m, n, jar')
  <2>1. s # r /\ pc[s] = "first"
    BY <1>2, <1>7, CallThreads, NoneFacts DEF ReceiveFirst
  <2>2. CASE m.status # 401
    BY <1>5, <1>7, <2>2 DEF ReceiveFirst
  <2>3. CASE m.status = 401
    <3>1. pc' = [pc EXCEPT ![s] = "await", ![r] = "refresh"]
      BY <1>7, <2>3 DEF ReceiveFirst
    <3>2. ~Waits(s)' /\ Waits(r)' /\ \A th \in Threads : th \notin {s, r} => Waits(th)' = Waits(th)
      BY <1>2, <2>1, <3>1 DEF StateOK, Waits, Idle
    <3>3. LoneAt(s, Waits(s)', n)
      BY <1>3, <3>2 DEF LoneAt
    <3>4. CASE pc[r] = "refresh"
      <4>1. net' = n /\ Waits(r)
        BY <1>7, <2>3, <3>4 DEF ReceiveFirst, Waits, Idle
      <4>2. LoneAt(r, Waits(r), n)
        BY <1>2, <1>4, <2>1
      <4>3. LoneAt(r, Waits(r)', n)
        BY <3>2, <4>1, <4>2 DEF LoneAt
      <4>4. \A th \in Threads : LoneAt(th, Waits(th)', net')
        BY <1>4, <3>2, <3>3, <4>1, <4>3
      <4> QED BY <4>4, LoneAtStep
    <3>5. CASE pc[r] # "refresh"
      <4>1. net' = n \cup {Request(r, "refresh", None, jar')}
        BY <1>7, <2>3, <3>5 DEF ReceiveFirst
      <4>2. pc[r] = Idle
        BY <1>2, <3>5 DEF StateOK
      <4>3. LoneAt(r, FALSE, n)
        BY <1>2, <1>4, <2>1, <4>2 DEF Waits, LoneAt
      <4>4. \A th \in Threads : th # r => LoneAt(th, Waits(th)', n)
        BY <1>4, <3>2, <3>3
      <4> QED BY <1>2, <3>2, <4>1, <4>3, <4>4, LoneStart
    <3> QED BY <3>4, <3>5
  <2> QED BY <2>2, <2>3
<1>8. CASE ReceiveRetry(m, n, jar')
  <2>1. CASE m.status = 401
    <3>1. pc' = [pc EXCEPT ![s] = "quit"] /\ net' = n \cup {Request(s, "logout", None, jar')}
      BY <1>8, <2>1 DEF ReceiveRetry
    <3>2. Waits(s)' /\ \A th \in Threads : th # s => Waits(th)' = Waits(th)
      BY <1>2, <3>1 DEF StateOK, Waits, Idle
    <3>3. \A th \in Threads : th # s => LoneAt(th, Waits(th)', n)
      BY <1>4, <3>2
    <3> QED BY <1>2, <1>3, <3>1, <3>2, <3>3, LoneStart
  <2>2. CASE m.status # 401
    BY <1>5, <1>8, <2>2 DEF ReceiveRetry
  <2> QED BY <2>1, <2>2
<1>9. CASE ReceiveRefresh(m, n, jar')
  <2> DEFINE W == Waiting(s[1])
             op(th) == IF m.status = 200 THEN Route(th[2]) ELSE "logout"
             New == {Request(th, op(th), None, jar') : th \in W}
  <2>1. /\ s[2] = "refresh" /\ net' = n \cup New
        /\ pc' = [th \in Threads |-> IF th = s THEN Idle
                                     ELSE IF th \notin W THEN pc[th]
                                     ELSE IF m.status = 200 THEN "retry" ELSE "quit"]
    BY <1>9 DEF ReceiveRefresh
  <2>2. s \notin W /\ W \subseteq Threads /\ \A th \in W : pc[th] = "await"
    BY <1>2, <2>1, CallThreads, NoneFacts DEF Waiting
  <2>3. \A k \in New : k.th \in W /\ k = Request(k.th, op(k.th), None, jar') /\ Alive(k)
    BY DEF Request, Alive
  <2>4. \A th \in W : Request(th, op(th), None, jar') \in New
                      /\ Request(th, op(th), None, jar').th = th
    BY DEF Request
  <2> HIDE DEF W, New, op
  <2>5. ASSUME NEW th \in Threads PROVE LoneAt(th, Waits(th)', net')
    <3>1. CASE th \in W
      <4>1. Waits(th)' /\ LoneAt(th, FALSE, n)
        BY <1>4, <2>1, <2>2, <3>1 DEF Waits, LoneAt, Idle
      <4>2. \A k \in net' : k.th = th /\ Alive(k) => k = Request(th, op(th), None, jar')
        BY <2>1, <2>3, <4>1 DEF LoneAt
      <4>3. Request(th, op(th), None, jar') \in New /\ Request(th, op(th), None, jar').th = th
        BY <2>4, <3>1
      <4>4. Alive(Request(th, op(th), None, jar'))
        BY <2>3, <4>3
      <4> QED BY <2>1, <4>1, <4>2, <4>3, <4>4 DEF LoneAt
    <3>2. CASE th \notin W
      <4>1. LoneAt(th, Waits(th)', n)
        <5>1. CASE th = s
          BY <1>3, <2>1, <5>1 DEF Waits, LoneAt
        <5>2. CASE th # s
          <6>1. Waits(th)' = Waits(th)
            BY <2>1, <3>2, <5>2 DEF Waits
          <6> QED BY <1>4, <5>2, <6>1
        <5> QED BY <5>1, <5>2
      <4>2. \A k \in New : k.th # th
        BY <2>3, <3>2
      <4> QED BY <2>1, <4>1, <4>2 DEF LoneAt
    <3> QED BY <3>1, <3>2
  <2> QED BY <2>5, LoneAtStep
<1>10. CASE ReceiveSession(m, n, jar')
  BY <1>5, <1>10 DEF ReceiveSession
<1>11. \/ ReceiveSession(m, n, jar') \/ ReceiveGoogle(m, n, jar') \/ ReceiveFirst(m, n, jar')
       \/ ReceiveRefresh(m, n, jar') \/ ReceiveRetry(m, n, jar') \/ ReceiveQuit(m, n, jar')
  BY ReceivedJar DEF n
<1>12. CASE ReceiveGoogle(m, n, jar') \/ ReceiveQuit(m, n, jar')
  BY <1>6, <1>12 DEF ReceiveGoogle, ReceiveQuit
<1> QED BY <1>7, <1>8, <1>9, <1>10, <1>11, <1>12

LEMMA LoneStep ==
    ASSUME SessInv, [Next]_vars
    PROVE  Lone'
<1>1. StateOK /\ NetOK /\ Lone
  BY DEF SessInv
<1>2. CASE UNCHANGED <<net, pc>>
  BY <1>1, <1>2 DEF Lone, Waits
<1>3. CASE Restart
  <2>1. Reload(Tabs, net, jar')
    BY <1>3 DEF Restart
  <2> QED BY <1>1, <2>1, LoneReload
<1>4. ASSUME NEW token \in Tokens, Expire(token) PROVE Lone'
  BY <1>2, <1>4 DEF Expire
<1>5. ASSUME NEW x \in Sessions, EndSession(x) PROVE Lone'
  BY <1>2, <1>5 DEF EndSession, browserVars
<1>6. CASE UNCHANGED vars
  BY <1>2, <1>6 DEF vars, browserVars
<1>7. ASSUME NEW t \in Tabs, Refresh(t) \/ Logout(t)
             \/ (\E op \in {"login", "google"}, u \in Users, remember \in BOOLEAN :
                   Login(t, op, u, remember))
      PROVE  Lone'
  BY <1>1, <1>7, LoneAct DEF Refresh, Logout, Login
<1>8. ASSUME NEW t \in Tabs, NEW a \in Calls, Call(t, a) PROVE Lone'
  BY <1>1, <1>8, LoneCall
<1>9. ASSUME NEW m \in net, Serve(m) \/ ServeFails(m) \/ Lose(m) \/ Receive(m) PROVE Lone'
  BY <1>1, <1>9, LoneServe, LoneLose, LoneReceive
<1> QED BY <1>3, <1>4, <1>5, <1>6, <1>7, <1>8, <1>9 DEF Next

-----------------------------------------------------------------------------
(* The types.                                                              *)

LEMMA OpenedStep ==
    ASSUME SessInv, [Next]_vars
    PROVE  owner' \in [Sessions -> Users \cup {None}] /\ \E k \in 0..MaxSessions : Opened' = 1..k
<1>1. StateOK /\ NetOK
  BY DEF SessInv
<1>2. CASE UNCHANGED owner
  BY <1>1, <1>2 DEF StateOK, Opened
<1>3. ASSUME NEW m \in net, m.type = "request", ServeLogin(m)
      PROVE  owner' \in [Sessions -> Users \cup {None}] /\ \E k \in 0..MaxSessions : Opened' = 1..k
  <2>1. CASE UNCHANGED providerVars
    BY <1>2, <2>1 DEF providerVars
  <2>2. ASSUME NEW s \in Sessions, s = Cardinality({i \in Sessions : owner[i] # None}) + 1,
               owner' = [owner EXCEPT ![s] = m.arg.user]
        PROVE  owner' \in [Sessions -> Users \cup {None}] /\ \E k \in 0..MaxSessions : Opened' = 1..k
    <3>1. PICK k \in 0..MaxSessions : Opened = 1..k
      BY <1>1 DEF StateOK
    <3>2. k \in Nat /\ MaxSessions \in Nat
      BY AuthAssumption
    <3>3. Cardinality(Opened) = k
      BY <3>1, <3>2, FS_Interval
    <3>4. s = k + 1 /\ k + 1 \in 0..MaxSessions
      BY <2>2, <3>2, <3>3 DEF Opened, Sessions
    <3>5. m.arg.user \in Users /\ m.arg.user # None
      BY <1>1, <1>3, RequestFacts, NoneFacts DEF ServeLogin, SignsIn
    <3>6. owner' \in [Sessions -> Users \cup {None}]
      BY <1>1, <2>2, <3>5 DEF StateOK
    <3>7. Opened' = Opened \cup {s}
      BY <1>1, <2>2, <3>5 DEF Opened, StateOK
    <3>8. Opened' = 1..(k + 1)
      BY <3>1, <3>2, <3>4, <3>7
    <3> QED BY <3>4, <3>6, <3>8
  <2> QED BY <1>3, <2>1, <2>2 DEF ServeLogin
<1>4. ASSUME NEW m \in net, Serve(m)
      PROVE  owner' \in [Sessions -> Users \cup {None}] /\ \E k \in 0..MaxSessions : Opened' = 1..k
  <2>1. m.type = "request"
    BY <1>4 DEF Serve, Requests
  <2>2. CASE ~ServeLogin(m)
    BY <1>2, <1>4, <2>2 DEF Serve, ServeRefresh, ServeMe, ServeLogout, ServeProxy, providerVars
  <2> QED BY <1>3, <2>1, <2>2
<1>5. CASE UNCHANGED vars
  BY <1>2, <1>5 DEF vars, providerVars
<1>6. ASSUME NEW m \in net, ServeFails(m) \/ Lose(m) \/ Receive(m)
      PROVE  UNCHANGED owner
  BY <1>6 DEF ServeFails, Lose, Receive, providerVars
<1>7. ASSUME NEW t \in Tabs, NEW op, NEW arg, Act(t, op, arg) PROVE UNCHANGED owner
  BY <1>7 DEF Act, providerVars
<1>8. ASSUME NEW t \in Tabs, NEW a \in Calls, Call(t, a) PROVE UNCHANGED owner
  BY <1>8 DEF Call, providerVars
<1>9. CASE Restart
  BY <1>2, <1>9 DEF Restart, providerVars
<1>10. ASSUME NEW token \in Tokens, Expire(token) PROVE UNCHANGED owner
  BY <1>10 DEF Expire
<1>11. ASSUME NEW s \in Sessions, EndSession(s) PROVE UNCHANGED owner
  BY <1>11 DEF EndSession
<1> QED BY <1>2, <1>4, <1>5, <1>6, <1>7, <1>8, <1>9, <1>10, <1>11
        DEF Next, Refresh, Logout, Login

PcOK ==
    /\ pc \in [Threads -> {Idle, "first", "await", "retry", "quit", "session", "refresh"}]
    /\ \A th \in Threads :
          /\ th[2] = "session" => pc[th] \in {Idle, "session"}
          /\ th[2] = "refresh" => pc[th] \in {Idle, "refresh"}
          /\ th[2] \in Calls => pc[th] \in {Idle, "first", "await", "retry", "quit"}

BrowserOK == jar \in Jars /\ PcOK /\ user \in [Tabs -> Users \cup {None}]
ProviderOK == gen \in [Sessions -> 0..MaxGen] /\ ended \subseteq Sessions /\ stale \subseteq Tokens
HistoryOK ==
    /\ faults \in 0..MaxFaults
    /\ asked \subseteq Sessions /\ torn \subseteq Sessions /\ sure \subseteq Tabs
    /\ out \in BOOLEAN /\ murky \in BOOLEAN

LEMMA StateParts ==
    StateOK <=> /\ BrowserOK /\ ProviderOK /\ HistoryOK
                /\ owner \in [Sessions -> Users \cup {None}]
                /\ \E k \in 0..MaxSessions : Opened = 1..k
  BY DEF StateOK, BrowserOK, PcOK, ProviderOK, HistoryOK

\* One thread moves on.
LEMMA PcSet ==
    ASSUME PcOK, NEW s \in Threads, NEW v, pc' = [pc EXCEPT ![s] = v],
           \/ v = Idle
           \/ v = "session" /\ s[2] = "session"
           \/ v \in {"first", "await", "retry", "quit"} /\ s[2] \in Calls
    PROVE  PcOK'
<1>1. s[2] \in Calls => s[2] # "session" /\ s[2] # "refresh"
  BY NoneFacts
<1>2. pc' \in [Threads -> {Idle, "first", "await", "retry", "quit", "session", "refresh"}]
  BY DEF PcOK
<1>3. ASSUME NEW th \in Threads
      PROVE  /\ th[2] = "session" => pc'[th] \in {Idle, "session"}
             /\ th[2] = "refresh" => pc'[th] \in {Idle, "refresh"}
             /\ th[2] \in Calls => pc'[th] \in {Idle, "first", "await", "retry", "quit"}
  <2>1. CASE th = s
    <3>1. pc'[th] = v
      BY <2>1 DEF PcOK
    <3> QED BY <1>1, <2>1, <3>1, NoneFacts
  <2>2. CASE th # s
    <3>1. pc'[th] = pc[th]
      BY <2>2 DEF PcOK
    <3> QED BY <3>1 DEF PcOK
  <2> QED BY <2>1, <2>2
<1> QED BY <1>2, <1>3 DEF PcOK

LEMMA ReloadBrowser ==
    ASSUME PcOK, user \in [Tabs -> Users \cup {None}], NEW T, NEW n, NEW j, Reload(T, n, j)
    PROVE  PcOK' /\ user' \in [Tabs -> Users \cup {None}]
<1>1. user' \in [Tabs -> Users \cup {None}]
  BY DEF Reload
<1>2. pc' = [th \in Threads |-> IF th[1] \notin T THEN pc[th]
                                ELSE IF th[2] = "session" THEN "session" ELSE Idle]
  BY DEF Reload
<1>3. PcOK'
  BY <1>2, NoneFacts DEF PcOK
<1> QED BY <1>1, <1>3

LEMMA ReceiveBrowser ==
    ASSUME StateOK, NetOK, NEW m \in net, Receive(m)
    PROVE  BrowserOK'
<1> DEFINE s == m.th
           r == <<m.th[1], "refresh">>
<1>1. PcOK /\ user \in [Tabs -> Users \cup {None}]
  BY StateParts DEF BrowserOK
<1>2. jar' \in Jars /\ m.type = "response"
  BY ReceivedJar
<1>3. s \in Threads /\ s[1] \in Tabs /\ OpOK(m) /\ m.user \in Users \cup {None}
  BY <1>2, ResponseFacts
<1>4. r \in Threads
  BY <1>3, ThreadFacts
<1>5. CASE ReceiveSession(m, net \ {m}, jar')
  <2>1. PcOK'
    BY <1>1, <1>3, <1>5, PcSet DEF ReceiveSession
  <2>2. m.op \in {"me", "login", "logout"}
    BY <1>3, <1>5 DEF ReceiveSession, OpOK
  <2>3. user' \in [Tabs -> Users \cup {None}]
    BY <1>1, <1>3, <1>5, <2>2 DEF ReceiveSession
  <2> QED BY <1>2, <2>1, <2>3 DEF BrowserOK
<1>6. CASE Reload({s[1]}, net \ {m}, jar')
  BY <1>1, <1>2, <1>6, ReloadBrowser DEF BrowserOK
<1>7. CASE ReceiveFirst(m, net \ {m}, jar')
  <2>1. s[2] \in Calls /\ user' = user
    BY <1>3, <1>7, CallThreads DEF ReceiveFirst
  <2>2. CASE m.status # 401
    <3>1. PcOK'
      BY <1>1, <1>3, <1>7, <2>2, PcSet DEF ReceiveFirst
    <3> QED BY <1>1, <1>2, <2>1, <3>1 DEF BrowserOK
  <2>3. CASE m.status = 401
    <3>1. pc' = [pc EXCEPT ![s] = "await", ![r] = "refresh"]
      BY <1>7, <2>3 DEF ReceiveFirst
    <3>2. PcOK'
      BY <1>1, <1>3, <1>4, <2>1, <3>1, NoneFacts DEF PcOK
    <3> QED BY <1>1, <1>2, <2>1, <3>2 DEF BrowserOK
  <2> QED BY <2>2, <2>3
<1>8. CASE ReceiveRefresh(m, net \ {m}, jar')
  <2>1. \A th \in Waiting(s[1]) : th[2] \in Calls /\ th[2] # "session" /\ th[2] # "refresh"
    BY CallThreads, NoneFacts DEF Waiting
  <2>2. user' = user /\ pc' = [th \in Threads |->
                                 IF th = s THEN Idle ELSE IF th \notin Waiting(s[1]) THEN pc[th]
                                 ELSE IF m.status = 200 THEN "retry" ELSE "quit"]
    BY <1>8 DEF ReceiveRefresh
  <2>3. PcOK'
    BY <1>1, <2>1, <2>2 DEF PcOK
  <2> QED BY <1>1, <1>2, <2>2, <2>3 DEF BrowserOK
<1>9. CASE ReceiveRetry(m, net \ {m}, jar')
  <2>1. s[2] \in Calls /\ user' = user
    BY <1>3, <1>9, CallThreads DEF ReceiveRetry
  <2>2. pc' = [pc EXCEPT ![s] = "quit"] \/ pc' = [pc EXCEPT ![s] = Idle]
    BY <1>9 DEF ReceiveRetry
  <2>3. PcOK'
    BY <1>1, <1>3, <2>1, <2>2, PcSet
  <2> QED BY <1>1, <1>2, <2>1, <2>3 DEF BrowserOK
<1>10. CASE ReceiveGoogle(m, net \ {m}, jar') \/ ReceiveQuit(m, net \ {m}, jar')
  BY <1>6, <1>10 DEF ReceiveGoogle, ReceiveQuit
<1> QED BY <1>5, <1>7, <1>8, <1>9, <1>10, ReceivedJar

LEMMA TearOK ==
    ASSUME HistoryOK, NEW S, S \subseteq Sessions, Tear(S)
    PROVE  torn' \subseteq Sessions
  BY DEF Tear, Contended, HistoryOK

LEMMA RenewOK ==
    ASSUME ProviderOK, NEW token \in Tokens \cup {None}, NEW r \in Renewals(token) \cup {None},
           Renew(r)
    PROVE  gen' \in [Sessions -> 0..MaxGen]
<1>1. r = None \/ (r[1] \in Sessions /\ r[2] \in 1..MaxGen)
  BY RenewalFacts DEF ProviderOK
<1>2. gen' = IF r = None THEN gen ELSE [gen EXCEPT ![r[1]] = r[2]]
  BY DEF Renew
<1>3. MaxGen \in Nat
  BY AuthAssumption
<1> QED BY <1>1, <1>2, <1>3 DEF ProviderOK

LEMMA ServeProvider ==
    ASSUME StateOK, NetOK, NEW m \in net, m.type = "request",
           \/ ServeRefresh(m) \/ ServeMe(m) \/ ServeLogin(m) \/ ServeLogout(m) \/ ServeProxy(m)
    PROVE  ProviderOK' /\ asked' \subseteq Sessions
<1>1. ProviderOK /\ asked \subseteq Sessions
  BY StateParts DEF HistoryOK
<1>2. /\ m.jar.refresh \in Tokens \cup {None}
      /\ Valid(m.jar.access) => m.jar.access[1] \in Sessions
  BY RequestFacts DEF Valid, Tokens
<1>3. CASE ServeRefresh(m)
  <2>1. PICK r \in Renewals(m.jar.refresh) : Renew(r)
    BY <1>3 DEF ServeRefresh
  <2>2. ended' \subseteq Sessions /\ stale' = stale /\ asked' = asked
    BY <1>1, <1>3 DEF ServeRefresh, Spent, ProviderOK
  <2> QED BY <1>1, <1>2, <2>1, <2>2, RenewOK DEF ProviderOK
<1>4. CASE ServeMe(m) \/ ServeProxy(m)
  BY <1>1, <1>4 DEF ServeMe, ServeProxy, providerVars, ProviderOK
<1>5. CASE ServeLogin(m)
  <2>1. CASE UNCHANGED <<providerVars, asked>>
    BY <1>1, <2>1 DEF providerVars, ProviderOK
  <2>2. ASSUME NEW s \in Sessions, gen' = [gen EXCEPT ![s] = 1],
               asked' = IF m.arg.remember THEN asked \cup {s} ELSE asked,
               UNCHANGED <<ended, stale>>
        PROVE  ProviderOK' /\ asked' \subseteq Sessions
    <3>1. 1 \in 0..MaxGen
      BY AuthAssumption
    <3> QED BY <1>1, <2>2, <3>1 DEF ProviderOK
  <2> QED BY <1>5, <2>1, <2>2 DEF ServeLogin
<1>6. CASE ServeLogout(m)
  BY <1>1, <1>2, <1>6 DEF ServeLogout, ProviderOK
<1> QED BY <1>3, <1>4, <1>5, <1>6

LEMMA StrikeOK ==
    ASSUME HistoryOK, Strike
    PROVE  faults' \in 0..MaxFaults
  BY AuthAssumption DEF HistoryOK, Strike

LEMMA StateStep ==
    ASSUME SessInv, [Next]_vars
    PROVE  StateOK'
<1>1. StateOK /\ NetOK /\ BrowserOK /\ ProviderOK /\ HistoryOK
  BY StateParts DEF SessInv
<1>2. SUFFICES BrowserOK' /\ ProviderOK' /\ HistoryOK'
  BY StateParts, OpenedStep DEF StateOK, BrowserOK, PcOK, ProviderOK, HistoryOK
<1>3. ASSUME UNCHANGED <<jar, pc, user>> PROVE BrowserOK'
  BY <1>1, <1>3 DEF BrowserOK, PcOK
<1>4. ASSUME UNCHANGED <<gen, ended, stale>> PROVE ProviderOK'
  BY <1>1, <1>4 DEF ProviderOK
<1>5. ASSUME UNCHANGED <<faults, asked, out, sure, murky>>, NEW S, S \subseteq Sessions, Tear(S)
      PROVE  HistoryOK'
  BY <1>1, <1>5, TearOK DEF HistoryOK
<1>6. ASSUME NEW t \in Tabs, NEW op, NEW arg, Act(t, op, arg)
      PROVE  BrowserOK' /\ ProviderOK' /\ HistoryOK'
  <2>1. pc' = [pc EXCEPT ![<<t, "session">>] = "session"] /\ UNCHANGED <<jar, user>>
    BY <1>6 DEF Act
  <2>2. BrowserOK'
    BY <1>1, <2>1, PcSet, ThreadFacts DEF BrowserOK
  <2> QED BY <1>4, <1>5, <1>6, <2>2 DEF Act, providerVars
<1>7. ASSUME NEW t \in Tabs, NEW a \in Calls, Call(t, a)
      PROVE  BrowserOK' /\ ProviderOK' /\ HistoryOK'
  <2>1. pc' = [pc EXCEPT ![<<t, a>>] = "first"] /\ UNCHANGED <<jar, user>>
    BY <1>7 DEF Call
  <2>2. BrowserOK'
    BY <1>1, <2>1, PcSet, ThreadFacts DEF BrowserOK
  <2> QED BY <1>4, <1>5, <1>7, <2>2 DEF Call, providerVars
<1>8. Opened \subseteq Sessions /\ \A n : Brought(n) \subseteq Sessions
  BY DEF Opened, Brought
<1>9. ASSUME NEW m \in net, Serve(m)
      PROVE  BrowserOK' /\ ProviderOK' /\ HistoryOK'
  <2>1. ProviderOK' /\ asked' \subseteq Sessions
    BY <1>1, <1>9, ServeProvider DEF Serve, Requests
  <2>2. torn' \subseteq Sessions
    BY <1>1, <1>8, <1>9, TearOK DEF Serve
  <2>3. HistoryOK'
    BY <1>1, <1>9, <2>1, <2>2 DEF Serve, HistoryOK
  <2> QED BY <1>3, <1>9, <2>1, <2>3 DEF Serve
<1>10. ASSUME NEW m \in net, Lose(m)
       PROVE  BrowserOK' /\ ProviderOK' /\ HistoryOK'
  <2>1. torn' \subseteq Sessions /\ faults' \in 0..MaxFaults
    BY <1>1, <1>8, <1>10, TearOK, StrikeOK DEF Lose
  <2>2. HistoryOK'
    BY <1>1, <1>10, <2>1 DEF Lose, HistoryOK
  <2> QED BY <1>3, <1>4, <1>10, <2>2 DEF Lose, providerVars
<1>11. ASSUME NEW m \in net, ServeFails(m)
       PROVE  BrowserOK' /\ ProviderOK' /\ HistoryOK'
  <2>1. torn' \subseteq Sessions /\ faults' \in 0..MaxFaults
    BY <1>1, <1>8, <1>11, TearOK, StrikeOK DEF ServeFails
  <2>2. HistoryOK'
    BY <1>1, <1>11, <2>1 DEF ServeFails, HistoryOK
  <2>3. m.jar.refresh \in Tokens \cup {None}
    BY <1>1, <1>11, RequestFacts DEF ServeFails, Requests
  <2>4. gen' \in [Sessions -> 0..MaxGen]
    <3>1. CASE UNCHANGED gen
      BY <1>1, <3>1 DEF ProviderOK
    <3>2. CASE \E r \in Renewals(m.jar.refresh) \cup {None} : Renew(r)
      BY <1>1, <2>3, <3>2, RenewOK
    <3> QED BY <1>11, <3>1, <3>2 DEF ServeFails
  <2>5. ProviderOK'
    BY <1>1, <1>11, <2>4 DEF ServeFails, ProviderOK
  <2> QED BY <1>3, <1>11, <2>2, <2>5 DEF ServeFails
<1>12. ASSUME NEW m \in net, Receive(m)
       PROVE  BrowserOK' /\ ProviderOK' /\ HistoryOK'
  <2>1. BrowserOK'
    BY <1>1, <1>12, ReceiveBrowser
  <2>2. m.th[1] \in Tabs
    <3>1. m.type = "response"
      BY <1>12 DEF Receive, Responses
    <3> QED BY <1>1, <3>1, ResponseFacts
  <2>3. torn' \subseteq Sessions
    BY <1>1, <1>8, <1>12, TearOK DEF Receive
  <2>4. sure' \subseteq Tabs
    BY <1>1, <1>12, <2>2 DEF Receive, HistoryOK
  <2>5. out' \in BOOLEAN /\ murky' \in BOOLEAN
    BY <1>12 DEF Receive
  <2>6. HistoryOK'
    BY <1>1, <1>12, <2>3, <2>4, <2>5 DEF Receive, HistoryOK
  <2> QED BY <1>4, <1>12, <2>1, <2>6 DEF Receive, providerVars
<1>13. ASSUME NEW token \in Tokens, Expire(token)
       PROVE  BrowserOK' /\ ProviderOK' /\ HistoryOK'
  <2>1. jar' \in Jars
    <3>1. jar' = IF jar.access = token /\ jar.keep THEN [jar EXCEPT !.access = None] ELSE jar
      BY <1>13 DEF Expire
    <3> QED BY <1>1, <3>1 DEF BrowserOK, Jars
  <2>2. BrowserOK'
    BY <1>1, <1>13, <2>1 DEF Expire, BrowserOK, PcOK
  <2> QED BY <1>1, <1>13, <2>2 DEF Expire, ProviderOK, HistoryOK, historyVars
<1>14. ASSUME NEW s \in Sessions, EndSession(s)
       PROVE  BrowserOK' /\ ProviderOK' /\ HistoryOK'
  <2>1. ProviderOK' /\ HistoryOK'
    BY <1>1, <1>14 DEF EndSession, ProviderOK, HistoryOK, historyVars
  <2> QED BY <1>3, <1>14, <2>1 DEF EndSession, browserVars
<1>15. CASE Restart
  <2>1. torn' \subseteq Sessions /\ faults' \in 0..MaxFaults
    BY <1>1, <1>8, <1>15, TearOK, StrikeOK DEF Restart
  <2>2. HistoryOK'
    BY <1>1, <1>15, <2>1 DEF Restart, HistoryOK
  <2>3. jar' \in Jars
    BY <1>1, <1>15, NoneFacts DEF Restart, BrowserOK
  <2>4. PcOK' /\ user' \in [Tabs -> Users \cup {None}]
    BY <1>1, <1>15, ReloadBrowser DEF Restart, BrowserOK
  <2> QED BY <1>4, <1>15, <2>2, <2>3, <2>4 DEF Restart, providerVars, BrowserOK
<1>16. CASE UNCHANGED vars
  BY <1>1, <1>3, <1>4, <1>16 DEF vars, browserVars, providerVars, historyVars, HistoryOK
<1> QED BY <1>6, <1>7, <1>9, <1>10, <1>11, <1>12, <1>13, <1>14, <1>15, <1>16
        DEF Next, Refresh, Logout, Login

-----------------------------------------------------------------------------
(* The theorems.                                                           *)

LEMMA InitSessInv ==
    ASSUME Init
    PROVE  SessInv
<1>1. net = Mounts(Tabs, Empty) /\ jar = Empty
  BY DEF Init
<1>2. \A m \in net : /\ m \in AllRequests /\ m.type = "request" /\ m.jar = Empty /\ m.op = "me"
                     /\ Alive(m) /\ m.th[1] \in Tabs /\ m.th = <<m.th[1], "session">>
                     /\ m = Request(m.th, "me", None, Empty)
  <2>1. SUFFICES ASSUME NEW t \in Tabs, NEW m, m = Request(<<t, "session">>, "me", None, Empty)
                 PROVE  /\ m \in AllRequests /\ m.type = "request" /\ m.jar = Empty /\ m.op = "me"
                        /\ Alive(m) /\ m.th[1] \in Tabs /\ m.th = <<m.th[1], "session">>
                        /\ m = Request(m.th, "me", None, Empty)
    BY <1>1 DEF Mounts
  <2>2. <<t, "session">> \in Threads /\ Empty \in Jars
    BY ThreadFacts, NoneFacts
  <2> QED BY <2>1, <2>2 DEF Request, AllRequests, Ops, Alive
<1>3. NetOK
  BY <1>2, NoneFacts DEF NetOK, OpOK, SignsIn
<1>4. StateOK
  <2>1. PcOK
    <3>1. pc = [th \in Threads |-> IF th[2] = "session" THEN "session" ELSE Idle]
      BY DEF Init
    <3> QED BY <3>1, NoneFacts DEF PcOK
  <2>2. BrowserOK
    BY <2>1, <1>1, NoneFacts DEF BrowserOK, Init
  <2>3. ProviderOK /\ HistoryOK
    <3>1. 0 \in 0..MaxGen /\ 0 \in 0..MaxFaults
      BY AuthAssumption
    <3>2. ProviderOK
      BY <3>1 DEF ProviderOK, Init
    <3> QED BY <3>1, <3>2 DEF HistoryOK, Init
  <2>4. owner \in [Sessions -> Users \cup {None}] /\ Opened = 1..0 /\ 0 \in 0..MaxSessions
    BY AuthAssumption DEF Init, Opened
  <2> QED BY <2>2, <2>3, <2>4, StateParts
<1>5. Lone
  <2>1. SUFFICES ASSUME NEW th \in Threads PROVE LoneAt(th, Waits(th), net)
    BY LoneIsAt
  <2>2. pc[th] = IF th[2] = "session" THEN "session" ELSE Idle
    BY DEF Init
  <2>3. CASE th[2] = "session"
    <3>1. Waits(th) /\ th[1] \in Tabs /\ th = <<th[1], "session">>
      BY <2>2, <2>3 DEF Waits, Idle, Threads
    <3>2. Request(th, "me", None, Empty) \in net
      BY <1>1, <3>1 DEF Mounts
    <3> QED BY <1>2, <3>1, <3>2 DEF LoneAt, Request
  <2>4. CASE th[2] # "session"
    <3>1. ~Waits(th)
      BY <2>2, <2>4 DEF Waits
    <3> QED BY <1>2, <2>4, <3>1 DEF LoneAt
  <2> QED BY <2>3, <2>4
<1>6. SignedOut
  BY <1>1, <1>2 DEF SignedOut
<1>7. Held = {}
  BY <1>1, <1>2, NoneFacts DEF Held
<1>8. OneSession
  BY <1>7 DEF OneSession
<1> QED BY <1>3, <1>4, <1>5, <1>6, <1>8 DEF SessInv

LEMMA SessInvHolds == Spec => []SessInv
<1>1. Init => SessInv
  BY InitSessInv
<1>2. SessInv /\ [Next]_vars => SessInv'
  BY StateStep, NetStep, LoneStep, SignedOutStep, OneSessionStep DEF SessInv
<1> QED BY <1>1, <1>2, PTL DEF Spec

LEMMA OneMessage ==
    ASSUME Lone, NEW th \in Threads
    PROVE  Cardinality({m \in net : m.th = th /\ (m.type = "request" => m.live)}) =
              IF pc[th] \in {Idle, "await"} THEN 0 ELSE 1
<1> DEFINE A == {m \in net : m.th = th /\ (m.type = "request" => m.live)}
<1>1. CASE ~Waits(th)
  <2>1. A = {}
    BY <1>1 DEF Lone, Alive
  <2>2. Cardinality(A) = 0
    BY <2>1, FS_EmptySet
  <2> QED BY <1>1, <2>2 DEF Waits
<1>2. CASE Waits(th)
  <2>1. PICK m \in net : /\ m.th = th /\ Alive(m)
                         /\ \A k \in net : k.th = th /\ Alive(k) => k = m
    BY <1>2 DEF Lone
  <2>2. A = {m}
    BY <2>1 DEF Alive
  <2>3. Cardinality(A) = 1
    BY <2>2, FS_Singleton
  <2> QED BY <1>2, <2>3 DEF Waits
<1> QED BY <1>1, <1>2

\* Whatever the tabs send and the network loses, a thread of a tab waits for one
\* answer at a time, and once the user signed out while nothing else was under
\* way, nothing gives the browser a token again but a login.
THEOREM SigningOutIsFinal == Spec => []SessionInv
<1>1. SessInv => SessionInv
  <2>1. SUFFICES ASSUME SessInv PROVE SessionInv
    OBVIOUS
  <2>2. StateOK /\ NetOK /\ Lone /\ SignedOut
    BY <2>1 DEF SessInv
  <2>3. \A m \in net : m.th \in Threads /\ m.op \in Ops
    BY <2>2 DEF NetOK, AllRequests, AllResponses
  <2>4. \A m \in Requests : m.jar \in Jars
    BY <2>2, RequestFacts DEF Requests
  <2>5. \A m \in Responses : m.status \in {200, 401, 500} /\ m.cookies \in Jars \cup {None}
    BY <2>2, ResponseFacts DEF Responses
  <2>6. TypeOK
    BY <2>2, <2>3, <2>4, <2>5, OneMessage DEF TypeOK, StateOK
  <2> QED BY <2>2, <2>6 DEF SessionInv, LogoutIsFinal, SignedOut
<1> QED BY <1>1, SessInvHolds, PTL

\* As long as no login or logout overlapped with another request, the account a
\* tab shows is the one its requests act for, and the two cookies are of one session.
THEOREM TabsShowTheirAccount == Spec => []ShownIsActing
<1>1. SessInv => ShownIsActing
  <2>1. SUFFICES ASSUME SessInv, ~murky, jar.refresh # None
                 PROVE  /\ \A t \in sure : user[t] \in {None, owner[jar.refresh[1]]}
                        /\ jar.access # None => jar.access[1] = jar.refresh[1]
    BY DEF ShownIsActing
  <2>2. jar.refresh \in Held /\ (jar.access # None => jar.access \in Held)
    BY <2>1, JarIsHeld DEF SessInv, InJar
  <2> QED BY <2>1, <2>2 DEF SessInv, OneSession
<1> QED BY <1>1, SessInvHolds, PTL

-----------------------------------------------------------------------------
(* Nobody is signed out for nothing.                                       *)

\* Requests that may renew the session, and those whose page is there.
Renews(m) == m.op \in {"me", "refresh"}
Renewing(m) == m.type = "request" /\ m.live /\ Renews(m)
Carries(j, s) == j.refresh # None /\ j.refresh[1] = s

\* Sessions that are over, or whose renewal was disturbed.
Over == ended \cup torn

\* The cookies that the route handlers set.
Baked ==
    \A m \in net : m.type = "response" =>
       /\ m.cookies \in {None, Empty} \/ (/\ m.cookies.refresh \in Tokens
                                          /\ m.cookies.access = m.cookies.refresh)
       /\ m.op = "logout" /\ m.cookies # None => m.status = 200
       /\ m.op = "me" /\ m.status = 200 => m.cookies # Empty
       /\ m.op = "refresh" /\ m.status = 200 => m.cookies # None

\* Refresh tokens, wherever they are, are of sessions that were opened; the
\* tokens that expired were given.
Known ==
    /\ jar.refresh # None => owner[jar.refresh[1]] # None
    /\ \A m \in net :
          /\ m.type = "request" /\ m.jar.refresh # None => owner[m.jar.refresh[1]] # None
          /\ m.type = "response" /\ m.cookies \notin {None, Empty} =>
                owner[m.cookies.refresh[1]] # None
    /\ \A s \in Sessions : owner[s] = None => gen[s] = 0
    /\ \A x \in stale : x[2] <= gen[x[1]]

\* As long as nothing disturbs the renewals of a session, the browser has its
\* last token, or is about to get it while no request is under way to renew it.
FreshAt(s) ==
    /\ \A k \in net : Renewing(k) /\ Carries(k.jar, s) =>
          k.jar.refresh = <<s, gen[s]>> /\ \A m \in net : ~Brings(m, s)
    /\ Carries(jar, s) /\ (\A m \in net : ~Brings(m, s)) => jar.refresh = <<s, gen[s]>>
    /\ \A m \in net : Brings(m, s) => m.cookies.refresh = <<s, gen[s]>> /\ <<s, gen[s]>> \notin stale

Fresh == \A s \in Opened \ Over : FreshAt(s)

\* The messages that end, or are about to end, in the loss of the cookies.
Refused(m) ==
    \/ m.type = "response" /\ Renews(m) /\ (m.status # 200 \/ m.cookies = Empty)
    \/ m.type = "response" /\ pc[m.th] = "retry" /\ m.status = 401
    \/ m.op = "logout" /\ m.th[2] \in Calls /\ Alive(m)
    \/ Renewing(m) /\ m.jar.refresh = None
    \/ m.type = "request" /\ m.live /\ pc[m.th] = "retry" /\ m.op = "api" /\ ~Valid(m.jar.access)

\* There is a reason for a refusal, and for what is still under way of a session
\* when the browser has lost its cookies.
Reasons ==
    ~murky =>
       /\ jar.refresh # None /\ (\E m \in net : Refused(m)) => jar.refresh[1] \in Over
       /\ jar.refresh = None => \A m \in net, s \in Sessions :
             (Renews(m) /\ Brings(m, s)) \/ (Renewing(m) /\ Carries(m.jar, s)) => s \in Over

LossInv == Baked /\ Known /\ Fresh /\ Reasons

\* What the route handlers, or nobody, answer.
LEMMA BakedServe ==
    ASSUME StateOK, NetOK, Baked, NEW m \in net, Serve(m) \/ ServeFails(m) \/ Lose(m)
    PROVE  Baked'
<1> DEFINE Good(a) == /\ a.cookies \in {None, Empty} \/ (/\ a.cookies.refresh \in Tokens
                                                         /\ a.cookies.access = a.cookies.refresh)
                      /\ a.op = "logout" /\ a.cookies # None => a.status = 200
                      /\ a.op = "me" /\ a.status = 200 => a.cookies # Empty
                      /\ a.op = "refresh" /\ a.status = 200 => a.cookies # None
<1>1. \A a \in net : a.type = "response" => Good(a)
  BY DEF Baked
<1>2. SUFFICES \A a \in net' \ net : Good(a)
  BY <1>1 DEF Baked
<1>3. ASSUME NEW status, NEW cookies, NEW u,
             net' = (net \ {m}) \cup {Response(m, status, cookies, u)}
                \/ Answer(m, status, cookies, u),
             \/ cookies = None /\ (m.op = "refresh" => status # 200)
             \/ cookies = Empty /\ (m.op = "logout" => status = 200) /\ (m.op = "me" => status # 200)
             \/ /\ cookies # Empty /\ cookies # None /\ cookies.refresh \in Tokens
                /\ cookies.access = cookies.refresh /\ m.op # "logout"
      PROVE  \A a \in net' \ net : Good(a)
  <2> DEFINE r == Response(m, status, cookies, u)
  <2>1. r.cookies = cookies /\ r.op = m.op /\ r.status = status
    BY DEF Response
  <2>2. \A a \in net' \ net : a = r
    BY <1>3 DEF Answer
  <2> HIDE DEF r
  <2>3. Good(r)
    BY <1>3, <2>1, NoneFacts DEF Renews
  <2> QED BY <2>2, <2>3
<1> HIDE DEF Good
<1>4. ASSUME NEW x \in Tokens, NEW remember \in BOOLEAN
      PROVE  /\ Cookies(x, remember) # Empty /\ Cookies(x, remember) # None
             /\ Cookies(x, remember).refresh \in Tokens
             /\ Cookies(x, remember).access = Cookies(x, remember).refresh
  <2> DEFINE c == Cookies(x, remember)
  <2>1. c \in Jars /\ c.refresh = x /\ c.access = x
    BY DEF Cookies, Jars
  <2> HIDE DEF c
  <2>2. c # Empty /\ c # None
    BY <2>1, NoneFacts
  <2>3. c # Empty /\ c # None /\ c.refresh \in Tokens /\ c.access = c.refresh
    BY <2>1, <2>2
  <2> QED BY <2>3 DEF c
<1>5. CASE Lose(m)
  <2>1. net' = (net \ {m}) \cup {Response(m, 500, None, None)}
    BY <1>5 DEF Lose
  <2> QED BY <1>3, <2>1
<1>6. CASE ServeFails(m)
  <2>1. CASE m.op = "logout" /\ Answer(m, 200, Empty, None)
    BY <1>3, <2>1 DEF Renews
  <2>2. ASSUME NEW status \in {200, 401, 500}, Answer(m, status, Empty, None),
               m.op # "logout", m.op = "me" => status # 200
        PROVE  \A a \in net' \ net : Good(a)
    BY <1>3, <2>2
  <2> QED BY <1>6, <2>1, <2>2 DEF ServeFails
<1>7. CASE Serve(m)
  <2>1. m.type = "request"
    BY <1>7 DEF Serve, Requests
  <2>2. CASE ServeRefresh(m)
    <3>1. PICK r \in Renewals(m.jar.refresh) :
             IF r = None THEN Answer(m, 401, Empty, None)
             ELSE Answer(m, 200, Cookies(r, TRUE), owner[r[1]])
      BY <2>2 DEF ServeRefresh
    <3>2. m.op # "logout"
      BY <2>2 DEF ServeRefresh
    <3>3. CASE r = None
      BY <1>3, <3>1, <3>2, <3>3
    <3>4. CASE r # None
      <4>1. r \in Tokens
        BY <2>1, <3>4, RenewalFacts, RequestFacts DEF StateOK
      <4>2. Answer(m, 200, Cookies(r, TRUE), owner[r[1]])
        BY <3>1, <3>4
      <4> DEFINE c == Cookies(r, TRUE)
      <4>3. c # Empty /\ c # None /\ c.refresh \in Tokens /\ c.access = c.refresh
        BY <1>4, <4>1
      <4> HIDE DEF c
      <4>4. Answer(m, 200, c, owner[r[1]])
        BY <4>2 DEF c
      <4> QED BY <1>3, <3>2, <4>3, <4>4
    <3> QED BY <3>3, <3>4
  <2>3. CASE ServeMe(m)
    <3>1. m.op = "me" /\ Answer(m, 200, None, owner[m.jar.access[1]])
      BY <2>3 DEF ServeMe
    <3> QED BY <1>3, <3>1
  <2>4. CASE ServeLogin(m)
    <3>1. m.op \in {"login", "google"}
      BY <2>4 DEF ServeLogin
    <3>2. CASE Answer(m, 401, None, None)
      BY <1>3, <3>1, <3>2
    <3>3. ASSUME NEW s \in Sessions, Answer(m, 200, Cookies(<<s, 1>>, m.arg.remember), m.arg.user)
          PROVE  \A a \in net' \ net : Good(a)
      <4>1. <<s, 1>> \in Tokens /\ m.arg.remember \in BOOLEAN
        BY <2>1, <3>1, RequestFacts, AuthAssumption DEF Tokens, SignsIn
      <4> DEFINE c == Cookies(<<s, 1>>, m.arg.remember)
      <4>2. c # Empty /\ c # None /\ c.refresh \in Tokens /\ c.access = c.refresh
        BY <1>4, <4>1
      <4> HIDE DEF c
      <4>3. Answer(m, 200, c, m.arg.user)
        BY <3>3 DEF c
      <4> QED BY <1>3, <3>1, <4>2, <4>3
    <3> QED BY <2>4, <3>2, <3>3 DEF ServeLogin
  <2>5. CASE ServeLogout(m)
    <3>1. m.op = "logout" /\ Answer(m, 200, Empty, None)
      BY <2>5 DEF ServeLogout
    <3> QED BY <1>3, <3>1 DEF Renews
  <2>6. CASE ServeProxy(m)
    <3>1. PICK status \in {200, 401} : m.op = "api" /\ Answer(m, status, None, None)
      BY <2>6 DEF ServeProxy
    <3> QED BY <1>3, <3>1
  <2> QED BY <1>7, <2>2, <2>3, <2>4, <2>5, <2>6 DEF Serve
<1> QED BY <1>5, <1>6, <1>7

\* What a page sends while the cookies are jar': never a second refresh while the
\* answer to the first is on its way to the same tab.
PageSends(m) ==
    /\ m.type = "request"
    /\ m.live => /\ m.jar = jar' /\ m.th \in Threads
                 /\ m.op = "refresh" => \A k \in net \cap net' :
                       k.op = "refresh" /\ k.type = "response" => k.th[1] # m.th[1]

LEMMA RefreshThread ==
    ASSUME NetOK, NEW m \in net, m.op = "refresh"
    PROVE  m.th = <<m.th[1], "refresh">> /\ m.th \in Threads
<1>1. m.th \in Threads /\ OpOK(m)
  BY DEF NetOK, AllRequests, AllResponses
<1>2. m.th[2] \notin {"session"} \cup Calls
  BY <1>1, NoneFacts DEF OpOK
<1> QED BY <1>1, <1>2 DEF Threads

LEMMA ReloadSends ==
    ASSUME NetOK, NEW T \in SUBSET Tabs, NEW n \in SUBSET net, Reload(T, n, jar')
    PROVE  \A m \in net' : \/ m \in n /\ m.th[1] \notin T
                           \/ /\ PageSends(m)
                              /\ m.live => m.op = "me" /\ m.th[2] = "session" /\ m.th[1] \in T
<1>1. ASSUME NEW t \in T
      PROVE  /\ PageSends(Request(<<t, "session">>, "me", None, jar'))
             /\ Request(<<t, "session">>, "me", None, jar').op = "me"
             /\ Request(<<t, "session">>, "me", None, jar').th = <<t, "session">>
  BY ThreadFacts DEF Request, PageSends
<1>2. ASSUME NEW k \in n, k.type = "request"
      PROVE  PageSends([k EXCEPT !.live = FALSE]) /\ ~[k EXCEPT !.live = FALSE].live
  <2>1. k \in AllRequests
    BY <1>2, RequestFacts
  <2> QED BY <2>1 DEF AllRequests, PageSends
<1>3. ASSUME NEW m \in net'
      PROVE  \/ m \in n /\ m.th[1] \notin T
             \/ /\ PageSends(m)
                /\ m.live => m.op = "me" /\ m.th[2] = "session" /\ m.th[1] \in T
  <2>1. \/ m \in n /\ m.th[1] \notin T
        \/ m \in Mounts(T, jar')
        \/ \E k \in n : k.type = "request" /\ m = [k EXCEPT !.live = FALSE]
    BY DEF Reload
  <2>2. CASE m \in Mounts(T, jar')
    <3>1. PICK t \in T : m = Request(<<t, "session">>, "me", None, jar')
      BY <2>2 DEF Mounts
    <3>2. PageSends(m) /\ m.op = "me" /\ m.th = <<t, "session">>
      BY <1>1, <3>1
    <3> QED BY <3>2
  <2>3. CASE \E k \in n : k.type = "request" /\ m = [k EXCEPT !.live = FALSE]
    BY <1>2, <2>3
  <2> QED BY <2>1, <2>2, <2>3
<1> QED BY <1>3

LEMMA ReceiveSends ==
    ASSUME StateOK, NetOK, Lone, NEW m \in net, Receive(m)
    PROVE  \A a \in net' : a \in net \ {m} \/ PageSends(a)
<1> DEFINE t == m.th[1]
           n == net \ {m}
<1>1. m.type = "response" /\ jar' \in Jars
  BY ReceivedJar
<1>2. m.th \in Threads /\ t \in Tabs
  BY <1>1, ResponseFacts
<1>3. ASSUME NEW th \in Threads, NEW op, op # "refresh"
      PROVE  PageSends(Request(th, op, None, jar'))
  BY <1>3 DEF Request, PageSends
<1>4. CASE Reload({t}, n, jar')
  BY <1>2, <1>4, ReloadSends
<1>5. CASE ReceiveSession(m, n, jar')
  BY <1>5 DEF ReceiveSession
<1>6. CASE ReceiveFirst(m, n, jar')
  <2> DEFINE r == <<t, "refresh">>
             a == Request(r, "refresh", None, jar')
  <2>1. net' = n \/ (net' = n \cup {a} /\ pc[r] # "refresh")
    BY <1>6 DEF ReceiveFirst
  <2>2. ASSUME pc[r] # "refresh" PROVE PageSends(a)
    <3>1. r \in Threads /\ r[2] = "refresh"
      BY <1>2, ThreadFacts
    <3>2. pc[r] = Idle
      BY <2>2, <3>1 DEF StateOK
    <3>3. \A k \in net : k.th = r => ~Alive(k)
      BY <3>1, <3>2 DEF Lone, Waits
    <3>4. \A k \in net : k.op = "refresh" /\ k.type = "response" => k.th[1] # t
      BY <3>3, RefreshThread DEF Alive
    <3>5. a.type = "request" /\ a.jar = jar' /\ a.th = r
      BY DEF Request
    <3> QED BY <3>1, <3>4, <3>5 DEF PageSends
  <2> QED BY <2>1, <2>2
<1>7. CASE ReceiveRefresh(m, n, jar')
  <2>1. ASSUME NEW th \in Waiting(t), NEW op \in {Route(th[2]), "logout"}
        PROVE  PageSends(Request(th, op, None, jar'))
    <3>1. th \in Threads /\ op # "refresh"
      BY DEF Waiting, Route
    <3> QED BY <1>3, <3>1
  <2> QED BY <1>7, <2>1 DEF ReceiveRefresh
<1>8. CASE ReceiveRetry(m, n, jar')
  BY <1>2, <1>3, <1>8 DEF ReceiveRetry
<1> QED BY <1>4, <1>5, <1>6, <1>7, <1>8, ReceivedJar DEF ReceiveGoogle, ReceiveQuit

\* A page starts a request of thread th.
Starts(th, op) ==
    /\ th \in Threads /\ pc[th] = Idle /\ op # "refresh"
    /\ \E v \in {"session", "first"} : pc' = [pc EXCEPT ![th] = v]
    /\ \E arg : net' = net \cup {Request(th, op, arg, jar)}
    /\ th[2] \in Calls => op # "logout"
    /\ UNCHANGED <<jar, providerVars, murky, faults>> /\ Tear({})

LEMMA Starting ==
    ASSUME NEW t \in Tabs,
           \/ Refresh(t) \/ Logout(t)
           \/ \E op \in {"login", "google"}, u \in Users, remember \in BOOLEAN :
                 Login(t, op, u, remember)
           \/ \E a \in Calls : Call(t, a)
    PROVE  \E th, op : Starts(th, op)
<1>1. ASSUME NEW op, NEW arg, Act(t, op, arg), op # "refresh"
      PROVE  Starts(<<t, "session">>, op)
  <2>1. <<t, "session">> \in Threads /\ <<t, "session">>[2] \notin Calls
    BY ThreadFacts, NoneFacts
  <2> QED BY <1>1, <2>1 DEF Act, Send, Starts
<1>2. ASSUME NEW a \in Calls, Call(t, a)
      PROVE  Starts(<<t, a>>, Route(a))
  <2>1. <<t, a>> \in Threads /\ Route(a) \notin {"refresh", "logout"}
    BY ThreadFacts
  <2> QED BY <1>2, <2>1 DEF Call, Send, Starts
<1> QED BY <1>1, <1>2 DEF Refresh, Logout, Login

LEMMA StartSends ==
    ASSUME NEW th, NEW op, Starts(th, op)
    PROVE  \A m \in net' : m \in net \/ PageSends(m)
<1>1. PICK arg : net' = net \cup {Request(th, op, arg, jar')}
  BY DEF Starts
<1>2. PageSends(Request(th, op, arg, jar'))
  BY DEF Request, PageSends, Starts
<1> QED BY <1>1, <1>2

LEMMA RestartSends ==
    ASSUME NetOK, Restart
    PROVE  \A m \in net' : PageSends(m) /\ (m.live => m.op = "me" /\ m.th[2] = "session")
<1>1. Reload(Tabs, net, jar')
  BY DEF Restart
<1>2. \A m \in net : m.th[1] \in Tabs
  BY DEF NetOK, AllRequests, AllResponses, Threads
<1> QED BY <1>1, <1>2, ReloadSends

\* The kinds of steps.
LEMMA Kinds ==
    ASSUME [Next]_vars
    PROVE  \/ \E th, op : Starts(th, op)
           \/ \E m \in net : Serve(m)
           \/ \E m \in net : ServeFails(m) \/ Lose(m)
           \/ \E m \in net : Receive(m)
           \/ \E token \in Tokens : Expire(token)
           \/ \E s \in Sessions : EndSession(s)
           \/ Restart
           \/ UNCHANGED vars
  BY Starting DEF Next

\* Only an answer is a new response.
LEMMA OnlyAnswers ==
    ASSUME StateOK, NetOK, Lone, [Next]_vars,
           \A m \in net : ~(Serve(m) \/ ServeFails(m) \/ Lose(m))
    PROVE  \A m \in net' : m \in net \/ PageSends(m)
<1>1. CASE UNCHANGED net
  BY <1>1
<1>2. ASSUME NEW token \in Tokens, Expire(token) PROVE UNCHANGED net
  BY <1>2 DEF Expire
<1>3. ASSUME NEW s \in Sessions, EndSession(s) PROVE UNCHANGED net
  BY <1>3 DEF EndSession, browserVars
<1>4. CASE UNCHANGED vars
  BY <1>1, <1>4 DEF vars, browserVars
<1> QED BY <1>1, <1>2, <1>3, <1>4, Kinds, StartSends, ReceiveSends, RestartSends

LEMMA BakedStep ==
    ASSUME SessInv, Baked, [Next]_vars
    PROVE  Baked'
<1>1. StateOK /\ NetOK /\ Lone
  BY DEF SessInv
<1>2. CASE \A m \in net : ~(Serve(m) \/ ServeFails(m) \/ Lose(m))
  BY <1>1, <1>2, OnlyAnswers DEF Baked, PageSends
<1> QED BY <1>1, <1>2, BakedServe

LEMMA BringsFacts ==
    ASSUME NetOK, Baked, NEW m \in net, NEW s, Brings(m, s)
    PROVE  /\ m.type = "response" /\ m.cookies \in Jars /\ m.cookies.refresh \in Tokens
           /\ m.cookies.refresh[1] = s /\ m.cookies.access = m.cookies.refresh /\ s \in Sessions
<1>1. m.type = "response" /\ m.cookies \notin {None, Empty} /\ m.cookies.refresh[1] = s
  BY DEF Brings
<1>2. m.cookies \in Jars /\ m.cookies.refresh \in Tokens /\ m.cookies.access = m.cookies.refresh
  BY <1>1, ResponseFacts DEF Baked
<1> QED BY <1>1, <1>2 DEF Tokens

\* A renewal gives the next token, or the last one again.
LEMMA RenewalIsNext ==
    ASSUME gen \in [Sessions -> 0..MaxGen], NEW token \in Tokens \cup {None},
           NEW r \in Renewals(token), r # None
    PROVE  /\ r[2] = gen[r[1]] \/ (r[2] = gen[r[1]] + 1 /\ token[2] = gen[r[1]])
           /\ token[1] \notin ended
<1>1. token # None /\ token[1] \notin ended
  BY DEF Renewals
<1>2. token[1] \in Sessions /\ token[2] \in 1..MaxGen /\ gen[token[1]] \in 0..MaxGen /\ MaxGen \in Nat
  BY <1>1, AuthAssumption DEF Tokens
<1>3. CASE token[2] = gen[token[1]]
  <2>1. r = <<token[1], token[2] + 1>>
    BY <1>1, <1>3 DEF Renewals
  <2>2. r[1] = token[1] /\ r[2] = token[2] + 1
    BY <2>1
  <2> QED BY <1>1, <1>3, <2>2
<1>4. CASE token[2] # gen[token[1]]
  <2>1. r = <<token[1], gen[token[1]]>>
    BY <1>1, <1>4 DEF Renewals
  <2>2. r[1] = token[1] /\ r[2] = gen[token[1]]
    BY <2>1
  <2> QED BY <1>1, <2>2
<1> QED BY <1>3, <1>4

\* The provider only goes on, and gives tokens of open sessions only.
LEMMA GenStep ==
    ASSUME SessInv, Known, [Next]_vars
    PROVE  \A s \in Sessions : gen'[s] = gen[s] \/ (gen'[s] = gen[s] + 1 /\ owner'[s] # None)
<1>1. StateOK /\ NetOK /\ gen \in [Sessions -> 0..MaxGen]
  BY DEF SessInv, StateOK
<1>2. CASE gen' = gen
  BY <1>2
<1>3. ASSUME NEW m \in net, m.type = "request", NEW r \in Renewals(m.jar.refresh), Renew(r)
      PROVE  \A s \in Sessions : gen'[s] = gen[s] \/ (gen'[s] = gen[s] + 1 /\ owner'[s] # None)
  <2>1. CASE r = None
    BY <1>2, <1>3, <2>1 DEF Renew
  <2>2. CASE r # None
    <3>1. m.jar.refresh \in Tokens \cup {None}
      BY <1>1, <1>3, RequestFacts
    <3>2. r[1] = m.jar.refresh[1] /\ m.jar.refresh \in Tokens /\ r[1] \in Sessions
      BY <1>1, <1>3, <2>2, <3>1, RenewalFacts
    <3>3. r[2] = gen[r[1]] \/ r[2] = gen[r[1]] + 1
      BY <1>1, <1>3, <2>2, <3>1, RenewalIsNext
    <3>4. owner[r[1]] # None
      BY <1>3, <3>2, NoneFacts DEF Known
    <3>5. owner'[r[1]] # None
      BY <3>2, <3>4, OwnerIsKept
    <3>6. gen' = [gen EXCEPT ![r[1]] = r[2]]
      BY <1>3, <2>2 DEF Renew
    <3> QED BY <1>1, <3>2, <3>3, <3>5, <3>6
  <2> QED BY <2>1, <2>2
<1>4. ASSUME NEW m \in net, m.type = "request", ServeLogin(m)
      PROVE  \A s \in Sessions : gen'[s] = gen[s] \/ (gen'[s] = gen[s] + 1 /\ owner'[s] # None)
  <2>1. CASE UNCHANGED providerVars
    BY <1>2, <2>1 DEF providerVars
  <2>2. ASSUME NEW s \in Sessions, s = Cardinality({i \in Sessions : owner[i] # None}) + 1,
               owner' = [owner EXCEPT ![s] = m.arg.user], gen' = [gen EXCEPT ![s] = 1]
        PROVE  \A x \in Sessions : gen'[x] = gen[x] \/ (gen'[x] = gen[x] + 1 /\ owner'[x] # None)
    <3>1. gen[s] = 0
      BY <1>1, <2>2, LoginOpens DEF Known
    <3>2. m.arg.user # None
      BY <1>1, <1>4, RequestFacts, NoneFacts DEF ServeLogin, SignsIn
    <3>3. owner'[s] # None
      BY <1>1, <2>2, <3>2 DEF StateOK
    <3> QED BY <1>1, <2>2, <3>1, <3>3
  <2> QED BY <1>4, <2>1, <2>2 DEF ServeLogin
<1>5. ASSUME NEW m \in net, Serve(m)
      PROVE  \A s \in Sessions : gen'[s] = gen[s] \/ (gen'[s] = gen[s] + 1 /\ owner'[s] # None)
  <2>1. m.type = "request"
    BY <1>5 DEF Serve, Requests
  <2>2. CASE ServeRefresh(m)
    BY <1>3, <2>1, <2>2 DEF ServeRefresh
  <2>3. CASE ~ServeRefresh(m) /\ ~ServeLogin(m)
    BY <1>2, <1>5, <2>3 DEF Serve, ServeMe, ServeLogout, ServeProxy, providerVars
  <2> QED BY <1>4, <2>1, <2>2, <2>3
<1>6. ASSUME NEW m \in net, ServeFails(m)
      PROVE  \A s \in Sessions : gen'[s] = gen[s] \/ (gen'[s] = gen[s] + 1 /\ owner'[s] # None)
  <2>1. m.type = "request"
    BY <1>6 DEF ServeFails, Requests
  <2>2. CASE \E r \in Renewals(m.jar.refresh) : Renew(r)
    BY <1>3, <2>1, <2>2
  <2>3. CASE UNCHANGED gen \/ Renew(None)
    BY <1>2, <2>3 DEF Renew
  <2> QED BY <1>6, <2>2, <2>3 DEF ServeFails
<1>7. ASSUME NEW m \in net, Lose(m) \/ Receive(m) PROVE UNCHANGED gen
  BY <1>7 DEF Lose, Receive, providerVars
<1>8. ASSUME NEW th, NEW op, Starts(th, op) PROVE UNCHANGED gen
  BY <1>8 DEF Starts, providerVars
<1>9. ASSUME NEW token \in Tokens, Expire(token) PROVE UNCHANGED gen
  BY <1>9 DEF Expire
<1>10. ASSUME NEW s \in Sessions, EndSession(s) PROVE UNCHANGED gen
  BY <1>10 DEF EndSession
<1>11. CASE Restart \/ UNCHANGED vars
  BY <1>2, <1>11 DEF Restart, vars, providerVars
<1> QED BY <1>2, <1>5, <1>6, <1>7, <1>8, <1>9, <1>10, <1>11, Kinds

LEMMA OverGrows ==
    ASSUME [Next]_vars
    PROVE  ended \subseteq ended' /\ torn \subseteq torn' /\ (murky => murky')
<1>1. ASSUME NEW m \in net, Serve(m)
      PROVE  ended \subseteq ended' /\ torn \subseteq torn' /\ murky' = murky
  BY <1>1 DEF Serve, ServeRefresh, ServeMe, ServeLogin, ServeLogout, ServeProxy, providerVars, Tear
<1>2. ASSUME NEW m \in net, ServeFails(m) \/ Lose(m)
      PROVE  ended \subseteq ended' /\ torn \subseteq torn' /\ murky' = murky
  BY <1>2 DEF ServeFails, Lose, providerVars, Tear
<1>3. ASSUME NEW m \in net, Receive(m)
      PROVE  ended \subseteq ended' /\ torn \subseteq torn' /\ (murky => murky')
  BY <1>3 DEF Receive, providerVars, Tear
<1>4. ASSUME NEW th, NEW op, Starts(th, op)
      PROVE  ended \subseteq ended' /\ torn \subseteq torn' /\ murky' = murky
  BY <1>4 DEF Starts, providerVars, Tear
<1>5. ASSUME NEW token \in Tokens, Expire(token)
      PROVE  ended \subseteq ended' /\ torn \subseteq torn' /\ murky' = murky
  BY <1>5 DEF Expire, historyVars
<1>6. ASSUME NEW s \in Sessions, EndSession(s)
      PROVE  ended \subseteq ended' /\ torn \subseteq torn' /\ murky' = murky
  BY <1>6 DEF EndSession, historyVars
<1>7. CASE Restart
  BY <1>7 DEF Restart, providerVars, Tear
<1>8. CASE UNCHANGED vars
  BY <1>8 DEF vars, providerVars, historyVars
<1> QED BY <1>1, <1>2, <1>3, <1>4, <1>5, <1>6, <1>7, <1>8, Kinds

\* The refresh token of the browser changes only with a response.
LEMMA JarStep ==
    ASSUME StateOK, [Next]_vars
    PROVE  \/ jar'.refresh = jar.refresh
           \/ Restart /\ ~jar.keep /\ jar' = Empty
           \/ \E m \in net : Receive(m) /\ m.cookies # None /\ jar' = m.cookies
<1>1. ASSUME NEW m \in net, Serve(m) \/ ServeFails(m) \/ Lose(m) PROVE jar' = jar
  BY <1>1 DEF Serve, ServeFails, Lose
<1>2. ASSUME NEW m \in net, Receive(m) PROVE jar' = IF m.cookies = None THEN jar ELSE m.cookies
  BY <1>2 DEF Receive
<1>3. ASSUME NEW th, NEW op, Starts(th, op) PROVE jar' = jar
  BY <1>3 DEF Starts
<1>4. ASSUME NEW token \in Tokens, Expire(token) PROVE jar'.refresh = jar.refresh
  <2>1. jar' = IF jar.access = token /\ jar.keep THEN [jar EXCEPT !.access = None] ELSE jar
    BY <1>4 DEF Expire
  <2> QED BY <2>1 DEF StateOK, Jars
<1>5. ASSUME NEW s \in Sessions, EndSession(s) PROVE jar' = jar
  BY <1>5 DEF EndSession, browserVars
<1>6. CASE Restart
  BY <1>6 DEF Restart
<1>7. CASE UNCHANGED vars
  BY <1>7 DEF vars, browserVars
<1> QED BY <1>1, <1>2, <1>3, <1>4, <1>5, <1>6, <1>7, Kinds

LEMMA KnownStep ==
    ASSUME SessInv, Baked, Known, [Next]_vars
    PROVE  Known'
<1>1. StateOK /\ NetOK /\ \A k \in net' : Comes(k)
  BY Messages DEF SessInv
<1>2. \A x \in Tokens : owner[x[1]] # None => owner'[x[1]] # None
  BY OwnerIsKept DEF Tokens
<1>3. jar'.refresh # None => owner'[jar'.refresh[1]] # None
  <2>1. jar.refresh \in Tokens \cup {None}
    BY <1>1 DEF StateOK, Jars
  <2>2. CASE jar'.refresh = jar.refresh
    BY <1>2, <2>1, <2>2 DEF Known
  <2>3. ASSUME NEW m \in net, Receive(m), m.cookies # None, jar' = m.cookies, jar'.refresh # None
        PROVE  owner'[jar'.refresh[1]] # None
    <3>1. m.type = "response" /\ m.cookies # Empty
      BY <2>3, NoneFacts DEF Receive, Responses
    <3>2. m.cookies.refresh \in Tokens /\ owner[m.cookies.refresh[1]] # None
      BY <2>3, <3>1 DEF Baked, Known
    <3> QED BY <1>2, <2>3, <3>2
  <2> QED BY <1>1, <2>2, <2>3, JarStep, NoneFacts
<1>4. ASSUME NEW m \in net', m.type = "request", m.jar.refresh # None
      PROVE  owner'[m.jar.refresh[1]] # None
  <2>1. CASE m \in net
    <3>1. m.jar.refresh \in Tokens
      BY <1>1, <1>4, <2>1, RequestFacts
    <3> QED BY <1>2, <1>4, <2>1, <3>1 DEF Known
  <2>2. CASE Sent(m)
    BY <1>3, <1>4, <2>2 DEF Sent
  <2>3. ASSUME NEW k \in net, k.type = "request", m = [k EXCEPT !.live = FALSE]
        PROVE  owner'[m.jar.refresh[1]] # None
    <3>1. m.jar = k.jar /\ k.jar.refresh \in Tokens \cup {None}
      BY <1>1, <2>3, RequestFacts DEF AllRequests
    <3> QED BY <1>2, <1>4, <2>3, <3>1 DEF Known
  <2>4. ASSUME NEW k \in net, Answers(k, m) PROVE FALSE
    BY <1>4, <2>4 DEF Answers, AllResponses
  <2> QED BY <1>1, <2>1, <2>2, <2>3, <2>4 DEF Comes
<1>5. ASSUME NEW m \in net', m.type = "response", m.cookies \notin {None, Empty}
      PROVE  owner'[m.cookies.refresh[1]] # None
  <2>1. CASE m \in net
    <3>1. m.cookies.refresh \in Tokens /\ owner[m.cookies.refresh[1]] # None
      BY <1>5, <2>1 DEF Baked, Known
    <3> QED BY <1>2, <3>1
  <2>2. CASE Sent(m)
    BY <1>5, <2>2 DEF Sent, AllRequests
  <2>3. ASSUME NEW k \in net, k.type = "request", m = [k EXCEPT !.live = FALSE] PROVE FALSE
    <3>1. m.type = k.type
      BY <1>1, <2>3, RequestFacts DEF AllRequests
    <3> QED BY <1>5, <2>3, <3>1
  <2>4. ASSUME NEW k \in net, Answers(k, m) PROVE owner'[m.cookies.refresh[1]] # None
    <3>1. CASE SignsIn(m)
      <4>1. m.status = 200
        BY <1>5, <2>4, <3>1 DEF Answers
      <4>2. owner'[m.cookies.refresh[1]] = m.user /\ m.user \in Users
        BY <2>4, <3>1, <4>1 DEF Answers
      <4> QED BY <4>2, NoneFacts
    <3>2. CASE ~SignsIn(m)
      <4>1. k.type = "request" /\ k.jar.refresh # None /\ m.cookies.refresh[1] = k.jar.refresh[1]
        BY <1>5, <2>4, <3>2 DEF Answers
      <4>2. k.jar.refresh \in Tokens /\ owner[k.jar.refresh[1]] # None
        BY <1>1, <4>1, RequestFacts DEF Known
      <4> QED BY <1>2, <4>1, <4>2
    <3> QED BY <3>1, <3>2
  <2> QED BY <1>1, <2>1, <2>2, <2>3, <2>4 DEF Comes
<1>6. gen \in [Sessions -> 0..MaxGen] /\ MaxGen \in Nat /\ stale \subseteq Tokens
  BY <1>1, AuthAssumption DEF StateOK
<1>7. \A s \in Sessions : owner'[s] = None => gen'[s] = 0
  BY GenStep, OwnerIsKept DEF Known
<1>8. ASSUME NEW x \in stale'
      PROVE  x[2] <= gen'[x[1]]
  <2>1. x \in Tokens /\ x[2] <= gen[x[1]]
    <3>1. CASE x \in stale
      BY <1>6, <3>1 DEF Known
    <3>2. CASE x \notin stale
      <4>1. Expire(x) /\ x \in Tokens
        <5>1. ASSUME NEW m \in net, Serve(m) PROVE stale' = stale
          BY <5>1 DEF Serve, ServeRefresh, ServeMe, ServeLogin, ServeLogout, ServeProxy, providerVars
        <5>2. ASSUME NEW m \in net, ServeFails(m) \/ Lose(m) \/ Receive(m) PROVE stale' = stale
          BY <5>2 DEF ServeFails, Lose, Receive, providerVars
        <5>3. ASSUME NEW th, NEW op, Starts(th, op) PROVE stale' = stale
          BY <5>3 DEF Starts, providerVars
        <5>4. ASSUME NEW s \in Sessions, EndSession(s) PROVE stale' = stale
          BY <5>4 DEF EndSession
        <5>5. CASE Restart \/ UNCHANGED vars
          BY <3>2, <5>5 DEF Restart, vars, providerVars
        <5>6. ASSUME NEW token \in Tokens, Expire(token) PROVE x = token
          BY <3>2, <5>6 DEF Expire
        <5> QED BY <3>2, <5>1, <5>2, <5>3, <5>4, <5>5, <5>6, Kinds
      <4>2. x[2] \in 1..gen[x[1]] /\ x[1] \in Sessions
        BY <4>1 DEF Expire, Tokens
      <4> QED BY <1>6, <4>1, <4>2
    <3> QED BY <3>1, <3>2
  <2>2. x[1] \in Sessions /\ x[2] \in Nat
    BY <2>1 DEF Tokens
  <2>3. gen[x[1]] \in Nat /\ gen[x[1]] <= gen'[x[1]] /\ gen'[x[1]] \in Nat
    BY <1>6, <2>2, GenStep
  <2> QED BY <2>1, <2>2, <2>3
<1> QED BY <1>3, <1>4, <1>5, <1>7, <1>8 DEF Known

\* Nothing is known of a session before it is opened.
LEMMA NewSession ==
    ASSUME StateOK, NetOK, Known, NEW s \in Sessions, owner[s] = None
    PROVE  /\ ~Carries(jar, s) /\ gen[s] = 0 /\ <<s, 1>> \notin stale
           /\ \A m \in net : ~Brings(m, s) /\ (m.type = "request" => ~Carries(m.jar, s))
<1>1. gen[s] = 0 /\ ~Carries(jar, s)
  BY DEF Known, Carries
<1>2. <<s, 1>> \notin stale
  BY <1>1 DEF Known
<1>3. \A m \in net : ~Brings(m, s) /\ (m.type = "request" => ~Carries(m.jar, s))
  BY DEF Known, Brings, Carries
<1> QED BY <1>1, <1>2, <1>3

LEMMA FreshOpened ==
    ASSUME SessInv, Known, NEW m \in net, m.type = "request", ServeLogin(m), jar' = jar,
           NEW s \in Sessions, owner[s] = None, owner'[s] # None
    PROVE  FreshAt(s)'
<1>1. StateOK /\ NetOK
  BY DEF SessInv
<1>2. /\ owner' = [owner EXCEPT ![s] = m.arg.user] /\ gen' = [gen EXCEPT ![s] = 1] /\ stale' = stale
      /\ Answer(m, 200, Cookies(<<s, 1>>, m.arg.remember), m.arg.user)
  <2>1. ~UNCHANGED providerVars
    BY <1>1 DEF providerVars
  <2>2. PICK x \in Sessions :
           /\ owner' = [owner EXCEPT ![x] = m.arg.user] /\ gen' = [gen EXCEPT ![x] = 1]
           /\ Answer(m, 200, Cookies(<<x, 1>>, m.arg.remember), m.arg.user) /\ stale' = stale
    BY <2>1 DEF ServeLogin
  <2>3. x = s
    BY <1>1, <2>2 DEF StateOK
  <2> QED BY <2>2, <2>3
<1>3. gen'[s] = 1
  BY <1>1, <1>2 DEF StateOK
<1> DEFINE a == Response(m, 200, Cookies(<<s, 1>>, m.arg.remember), m.arg.user)
<1>4. a.type = "response" /\ a.cookies.refresh = <<s, 1>>
  BY DEF Response, Cookies
<1>5. \A k \in net' : k \in net \/ k = a
  BY <1>2 DEF Answer
<1> HIDE DEF a
<1>6. ~Carries(jar', s) /\ \A k \in net' : ~(Renewing(k) /\ Carries(k.jar, s))
  BY <1>1, <1>4, <1>5, NewSession DEF Renewing
<1>7. \A k \in net' : Brings(k, s) => k.cookies.refresh = <<s, 1>> /\ <<s, 1>> \notin stale'
  BY <1>1, <1>2, <1>4, <1>5, NewSession
<1> QED BY <1>3, <1>6, <1>7 DEF FreshAt

\* The pages send: with the last token, or the renewals are disturbed.
LEMMA FreshSends ==
    ASSUME NEW s \in Sessions, FreshAt(s), UNCHANGED <<gen, stale>>,
           Contended(net') \subseteq torn', s \notin torn',
           \A m \in net' : m \in net \/ PageSends(m),
           Carries(jar', s) /\ (\A m \in net' : ~Brings(m, s)) => jar'.refresh = <<s, gen[s]>>
    PROVE  FreshAt(s)'
<1>1. \A m \in net' : Brings(m, s) => m \in net
  BY DEF PageSends, Brings
<1>2. ASSUME NEW k \in net', Renewing(k), Carries(k.jar, s)
      PROVE  k.jar.refresh = <<s, gen[s]>> /\ \A m \in net' : ~Brings(m, s)
  <2>1. CASE k \in net
    BY <1>1, <1>2, <2>1 DEF FreshAt
  <2>2. CASE k \notin net
    <3>1. PageSends(k) /\ k.jar = jar' /\ k.type = "request" /\ k.op \in {"me", "refresh"}
      BY <1>2, <2>2 DEF PageSends, Renewing, Renews
    <3>2. ASSUME NEW m \in net', Brings(m, s) PROVE FALSE
      <4>1. m \in net /\ m.type = "response"
        BY <1>1, <3>2 DEF Brings
      <4>2. ~(m.op = "refresh" /\ k.op = "refresh" /\ m.th[1] = k.th[1])
        BY <1>2, <3>1, <4>1 DEF PageSends, Renewing
      <4>3. s \in Contended(net')
        BY <1>2, <3>1, <3>2, <4>2 DEF Contended, Carries
      <4> QED BY <4>3
    <3> QED BY <1>2, <3>1, <3>2
  <2> QED BY <2>1, <2>2
<1>3. \A m \in net' : Brings(m, s) => m.cookies.refresh = <<s, gen[s]>> /\ <<s, gen[s]>> \notin stale
  BY <1>1 DEF FreshAt
<1> QED BY <1>2, <1>3 DEF FreshAt

\* A request is served whose answer brings nothing of the session.
LEMMA FreshAside ==
    ASSUME NEW s \in Sessions, FreshAt(s), gen'[s] = gen[s], UNCHANGED <<jar, stale>>,
           NEW m \in net, m.type = "request", NEW a, a.type = "response", ~Brings(a, s),
           net' = (net \ {m}) \cup {a}
    PROVE  FreshAt(s)'
<1>1. \A k \in net' : Brings(k, s) => k \in net
  OBVIOUS
<1>2. \A k \in net : Brings(k, s) => k \in net'
  BY DEF Brings
<1>3. \A k \in net' : Renewing(k) => k \in net
  BY DEF Renewing
<1> QED BY <1>1, <1>2, <1>3 DEF FreshAt

\* The session is renewed.
LEMMA FreshRenewed ==
    ASSUME SessInv, Known, NEW s \in Sessions, FreshAt(s), jar' = jar, stale' = stale,
           Contended(net') \subseteq torn', s \notin torn',
           NEW m \in net, Renewing(m), NEW r \in Renewals(m.jar.refresh), r # None, r[1] = s,
           Renew(r), NEW a, a.type = "response", a.th = m.th, a.op = m.op, a.cookies = Cookies(r, TRUE),
           net' = (net \ {m}) \cup {a}
    PROVE  FreshAt(s)'
<1>1. StateOK /\ NetOK /\ Lone /\ gen \in [Sessions -> 0..MaxGen]
  BY DEF SessInv, StateOK
<1>2. m.type = "request" /\ Alive(m) /\ m.jar.refresh \in Tokens \cup {None} /\ m.th \in Threads
  BY <1>1, RequestFacts DEF Renewing, Alive
<1>3. /\ r \in Tokens /\ m.jar.refresh \in Tokens /\ r[1] = m.jar.refresh[1]
      /\ r[2] = gen[s] \/ (r[2] = gen[s] + 1 /\ m.jar.refresh[2] = gen[s])
  BY <1>1, <1>2, RenewalFacts, RenewalIsNext
<1>4. Carries(m.jar, s)
  BY <1>3, NoneFacts DEF Carries
<1>5. m.jar.refresh = <<s, gen[s]>> /\ \A k \in net : ~Brings(k, s)
  BY <1>4 DEF FreshAt
<1>6. gen[s] \in Nat /\ MaxGen \in Nat /\ r[2] \in Nat
  BY <1>1, <1>3, AuthAssumption DEF Tokens
<1>7. r[2] = gen[s] + 1
  <2>1. m.jar.refresh[2] = gen[s]
    BY <1>5
  <2>2. r \in {<<s, gen[s] + 1>>, None}
    <3>1. m.jar.refresh # None /\ m.jar.refresh[1] = s
      BY <1>4 DEF Carries
    <3> QED BY <2>1, <3>1 DEF Renewals
  <2>3. r = <<s, gen[s] + 1>>
    BY <2>2
  <2> QED BY <2>3
<1>8. gen'[s] = gen[s] + 1 /\ r = <<s, gen'[s]>>
  <2>1. gen' = [gen EXCEPT ![r[1]] = r[2]]
    BY DEF Renew
  <2>2. gen'[s] = r[2]
    BY <1>1, <2>1
  <2>3. r = <<r[1], r[2]>>
    BY <1>3 DEF Tokens
  <2> QED BY <1>7, <2>2, <2>3
<1>9. a.cookies.refresh = r /\ a.cookies \notin {None, Empty}
  <2> DEFINE c == Cookies(r, TRUE)
  <2>1. c.refresh = r /\ c \in Jars
    BY <1>3 DEF Cookies, Jars
  <2> HIDE DEF c
  <2>2. c \notin {None, Empty}
    BY <1>3, <2>1, NoneFacts
  <2>3. a.cookies = c
    BY DEF c
  <2> QED BY <2>1, <2>2, <2>3
<1>10. Brings(a, s)
  BY <1>9 DEF Brings
<1>11. ASSUME NEW k \in net', Renewing(k), Carries(k.jar, s)
       PROVE  FALSE
  <2>1. k \in net /\ k # m /\ k.type = "request" /\ k.op \in {"me", "refresh"}
    BY <1>11 DEF Renewing, Renews
  <2>2. a.op = "refresh" /\ k.op = "refresh" /\ a.th[1] = k.th[1]
    BY <1>10, <1>11, <2>1 DEF Contended, Carries
  <2>3. k.th = m.th
    BY <1>1, <2>1, <2>2, RefreshThread
  <2>4. Alive(k)
    BY <1>11 DEF Renewing, Alive
  <2> QED BY <1>1, <1>2, <2>1, <2>3, <2>4 DEF Lone
<1>12. ASSUME NEW k \in net', Brings(k, s)
       PROVE  k.cookies.refresh = <<s, gen'[s]>> /\ <<s, gen'[s]>> \notin stale'
  <2>1. k = a
    BY <1>5, <1>12
  <2>2. gen'[s] = gen[s] + 1
    BY <1>8
  <2>3. <<s, gen'[s]>> \notin stale
    <3>1. ASSUME <<s, gen'[s]>> \in stale PROVE FALSE
      <4>1. gen'[s] <= gen[s]
        BY <3>1 DEF Known
      <4> QED BY <1>6, <2>2, <4>1
    <3> QED BY <3>1
  <2> QED BY <1>8, <1>9, <2>1, <2>3
<1>13. a \in net'
  OBVIOUS
<1> QED BY <1>10, <1>11, <1>12, <1>13 DEF FreshAt

LEMMA FreshServe ==
    ASSUME SessInv, Known, NEW s \in Opened, FreshAt(s), s \notin torn', NEW m \in net, Serve(m)
    PROVE  FreshAt(s)'
<1>1. /\ StateOK /\ NetOK /\ gen \in [Sessions -> 0..MaxGen] /\ m.type = "request"
      /\ s \in Sessions /\ owner[s] # None
  BY DEF SessInv, StateOK, Serve, Requests, Opened
<1>2. Contended(net') \subseteq torn' /\ jar' = jar /\ m.live
  BY DEF Serve, Tear
<1>3. ASSUME NEW status, NEW cookies, NEW u, Answer(m, status, cookies, u),
             gen'[s] = gen[s], stale' = stale,
             cookies \in {None, Empty} \/ cookies.refresh[1] # s
      PROVE  FreshAt(s)'
  <2> DEFINE a == Response(m, status, cookies, u)
  <2>1. a.type = "response" /\ ~Brings(a, s)
    BY <1>3 DEF Response, Brings
  <2>2. net' = (net \ {m}) \cup {a}
    BY <1>2, <1>3 DEF Answer
  <2> HIDE DEF a
  <2> QED BY <1>1, <1>2, <1>3, <2>1, <2>2, FreshAside
<1>4. CASE ServeRefresh(m)
  <2>1. PICK r \in Renewals(m.jar.refresh) :
           /\ Renew(r)
           /\ IF r = None THEN Answer(m, 401, Empty, None)
              ELSE Answer(m, 200, Cookies(r, TRUE), owner[r[1]])
    BY <1>4 DEF ServeRefresh
  <2>2. stale' = stale
    BY <1>4 DEF ServeRefresh
  <2>3. CASE r = None
    <3>1. gen' = gen /\ Answer(m, 401, Empty, None)
      BY <2>1, <2>3 DEF Renew
    <3> QED BY <1>3, <2>2, <3>1
  <2>4. CASE r # None /\ r[1] # s
    <3>1. r \in Tokens
      BY <1>1, <2>4, RenewalFacts, RequestFacts
    <3>2. gen'[s] = gen[s]
      BY <1>1, <2>1, <2>4 DEF Renew
    <3> DEFINE c == Cookies(r, TRUE)
    <3>3. c.refresh[1] # s
      BY <2>4 DEF Cookies
    <3>4. Answer(m, 200, c, owner[r[1]])
      BY <2>1, <2>4
    <3> HIDE DEF c
    <3> QED BY <1>3, <2>2, <3>2, <3>3, <3>4
  <2>5. CASE r # None /\ r[1] = s
    <3> DEFINE a == Response(m, 200, Cookies(r, TRUE), owner[r[1]])
    <3>1. a.type = "response" /\ a.th = m.th /\ a.op = m.op /\ a.cookies = Cookies(r, TRUE)
      BY DEF Response
    <3>2. net' = (net \ {m}) \cup {a}
      BY <1>2, <2>1, <2>5 DEF Answer
    <3>3. Renewing(m)
      BY <1>1, <1>2, <1>4 DEF Renewing, Renews, ServeRefresh
    <3> HIDE DEF a
    <3> QED BY <1>1, <1>2, <2>1, <2>2, <2>5, <3>1, <3>2, <3>3, FreshRenewed
  <2> QED BY <2>3, <2>4, <2>5
<1>5. CASE ServeMe(m)
  BY <1>3, <1>5 DEF ServeMe, providerVars
<1>6. CASE ServeLogin(m)
  <2>1. CASE Answer(m, 401, None, None) /\ UNCHANGED providerVars
    BY <1>3, <2>1 DEF providerVars
  <2>2. ASSUME NEW x \in Sessions, x = Cardinality({i \in Sessions : owner[i] # None}) + 1,
               gen' = [gen EXCEPT ![x] = 1], stale' = stale,
               Answer(m, 200, Cookies(<<x, 1>>, m.arg.remember), m.arg.user)
        PROVE  FreshAt(s)'
    <3>1. x # s
      BY <1>1, <2>2, LoginOpens
    <3>2. gen'[s] = gen[s]
      BY <1>1, <2>2, <3>1
    <3> DEFINE c == Cookies(<<x, 1>>, m.arg.remember)
    <3>3. c.refresh[1] # s
      BY <3>1 DEF Cookies
    <3>4. Answer(m, 200, c, m.arg.user)
      BY <2>2
    <3> HIDE DEF c
    <3> QED BY <1>3, <2>2, <3>2, <3>3, <3>4
  <2> QED BY <1>6, <2>1, <2>2 DEF ServeLogin
<1>7. CASE ServeLogout(m)
  BY <1>3, <1>7 DEF ServeLogout
<1>8. CASE ServeProxy(m)
  BY <1>3, <1>8 DEF ServeProxy, providerVars
<1> QED BY <1>4, <1>5, <1>6, <1>7, <1>8 DEF Serve

LEMMA FreshReceive ==
    ASSUME SessInv, NEW s \in Opened, FreshAt(s), s \notin torn', NEW m \in net, Receive(m)
    PROVE  FreshAt(s)'
<1>1. StateOK /\ NetOK /\ Lone /\ s \in Sessions
  BY DEF SessInv, Opened
<1>2. /\ UNCHANGED <<gen, stale>> /\ Contended(net') \subseteq torn' /\ m.type = "response"
      /\ Brought((net \ {m}) \ net') \subseteq torn'
      /\ jar' = IF m.cookies = None THEN jar ELSE m.cookies
  BY DEF Receive, providerVars, Tear, Responses
<1>3. \A k \in net' : k \in net \/ PageSends(k)
  BY <1>1, ReceiveSends
<1>4. ASSUME Carries(jar', s), \A k \in net' : ~Brings(k, s)
      PROVE  jar'.refresh = <<s, gen[s]>>
  <2>1. CASE m.cookies = None
    <3>1. ~Brings(m, s) /\ jar' = jar
      BY <1>2, <2>1 DEF Brings
    <3>2. ASSUME NEW k \in net, Brings(k, s) PROVE FALSE
      <4>1. k \in (net \ {m}) \ net'
        BY <1>4, <3>1, <3>2
      <4>2. s \in Brought((net \ {m}) \ net')
        BY <1>1, <3>2, <4>1 DEF Brought
      <4> QED BY <1>2, <4>2
    <3> QED BY <1>4, <3>1, <3>2 DEF FreshAt
  <2>2. CASE m.cookies # None
    <3>1. Brings(m, s)
      BY <1>2, <1>4, <2>2, NoneFacts DEF Brings, Carries
    <3> QED BY <1>2, <2>2, <3>1 DEF FreshAt
  <2> QED BY <2>1, <2>2
<1> QED BY <1>1, <1>2, <1>3, <1>4, FreshSends

LEMMA FreshStep ==
    ASSUME SessInv, Baked, Known, Fresh, [Next]_vars
    PROVE  Fresh'
<1>1. StateOK /\ NetOK /\ Lone
  BY DEF SessInv
<1>2. SUFFICES ASSUME NEW s \in Opened' \ Over' PROVE FreshAt(s)'
  BY DEF Fresh
<1>3. s \in Sessions /\ s \notin Over /\ s \notin torn' /\ owner'[s] # None
  BY OverGrows DEF Over, Opened
<1>4. CASE owner[s] = None
  <2>1. \E m \in net : Serve(m) /\ ServeLogin(m)
    <3>1. ASSUME NEW m \in net, Serve(m), ~ServeLogin(m) PROVE owner' = owner
      BY <3>1 DEF Serve, ServeRefresh, ServeMe, ServeLogout, ServeProxy, providerVars
    <3>2. ASSUME NEW m \in net, ServeFails(m) \/ Lose(m) \/ Receive(m) PROVE owner' = owner
      BY <3>2 DEF ServeFails, Lose, Receive, providerVars
    <3>3. ASSUME NEW th, NEW op, Starts(th, op) PROVE owner' = owner
      BY <3>3 DEF Starts, providerVars
    <3>4. ASSUME NEW token \in Tokens, Expire(token) PROVE owner' = owner
      BY <3>4 DEF Expire
    <3>5. ASSUME NEW x \in Sessions, EndSession(x) PROVE owner' = owner
      BY <3>5 DEF EndSession
    <3>6. CASE Restart \/ UNCHANGED vars
      BY <1>3, <1>4, <3>6 DEF Restart, vars, providerVars
    <3> QED BY <1>3, <1>4, <3>1, <3>2, <3>3, <3>4, <3>5, <3>6, Kinds
  <2>2. PICK m \in net : Serve(m) /\ ServeLogin(m)
    BY <2>1
  <2>3. m.type = "request" /\ jar' = jar
    BY <2>2 DEF Serve, Requests
  <2> QED BY <1>3, <1>4, <2>2, <2>3, FreshOpened
<1>5. CASE owner[s] # None
  <2>1. s \in Opened /\ FreshAt(s)
    BY <1>3, <1>5 DEF Opened, Fresh
  <2>2. ASSUME NEW th, NEW op, Starts(th, op) PROVE FreshAt(s)'
    <3>1. /\ UNCHANGED <<jar, gen, stale>> /\ Contended(net') \subseteq torn' /\ net \subseteq net'
      BY <2>2 DEF Starts, providerVars, Tear
    <3>2. Carries(jar', s) /\ (\A m \in net' : ~Brings(m, s)) => jar'.refresh = <<s, gen[s]>>
      BY <2>1, <3>1 DEF FreshAt
    <3> QED BY <1>3, <2>1, <2>2, <3>1, <3>2, StartSends, FreshSends
  <2>3. ASSUME NEW m \in net, ServeFails(m) \/ Lose(m) PROVE FALSE
    BY <1>3, <2>1, <2>3 DEF ServeFails, Lose, Tear
  <2>4. ASSUME NEW token \in Tokens, Expire(token) PROVE FreshAt(s)'
    <3>1. /\ UNCHANGED <<net, gen>> /\ stale' = stale \cup {token}
          /\ \A m \in net : m.type = "response" /\ m.cookies # None => m.cookies.access # token
      BY <2>4 DEF Expire, Responses
    <3>3. jar'.refresh = jar.refresh
      <4>1. jar' = IF jar.access = token /\ jar.keep THEN [jar EXCEPT !.access = None] ELSE jar
        BY <2>4 DEF Expire
      <4> QED BY <1>1, <4>1 DEF StateOK, Jars
    <3>4. ASSUME NEW m \in net, Brings(m, s)
          PROVE  m.cookies.refresh = <<s, gen[s]>> /\ <<s, gen[s]>> \notin stale'
      <4>1. m.cookies.refresh = <<s, gen[s]>> /\ <<s, gen[s]>> \notin stale
        BY <2>1, <3>4 DEF FreshAt
      <4>2. m.cookies.access = m.cookies.refresh /\ m.type = "response" /\ m.cookies # None
        BY <1>1, <3>4, BringsFacts, NoneFacts
      <4> QED BY <3>1, <4>1, <4>2
    <3> QED BY <2>1, <3>1, <3>3, <3>4 DEF FreshAt, Carries
  <2>5. ASSUME NEW x \in Sessions, EndSession(x) PROVE FreshAt(s)'
    BY <2>1, <2>5 DEF EndSession, browserVars, FreshAt
  <2>6. CASE Restart
    <3>1. /\ UNCHANGED <<gen, stale>> /\ Contended(net') \subseteq torn' /\ Brought(net) \subseteq torn'
          /\ jar' = IF jar.keep THEN jar ELSE Empty
      BY <2>6 DEF Restart, providerVars, Tear
    <3>2. \A m \in net : ~Brings(m, s)
      BY <1>3, <3>1 DEF Brought
    <3>3. Carries(jar', s) => jar'.refresh = <<s, gen[s]>>
      BY <2>1, <3>1, <3>2, NoneFacts DEF FreshAt, Carries
    <3> QED BY <1>1, <1>3, <2>1, <2>6, <3>1, <3>3, RestartSends, FreshSends
  <2>7. CASE UNCHANGED vars
    BY <2>1, <2>7 DEF vars, browserVars, providerVars, FreshAt
  <2> QED BY <1>3, <2>1, <2>2, <2>3, <2>4, <2>5, <2>6, <2>7, Kinds, FreshServe, FreshReceive
<1> QED BY <1>4, <1>5

\* As long as no login or logout overlapped with another request.
LEMMA SameSession ==
    ASSUME SessInv, ~murky, NEW x \in Held, NEW y \in Held
    PROVE  x[1] = y[1] /\ owner[x[1]] # None
  BY DEF SessInv, OneSession

LEMMA RenewalsAreHeld ==
    ASSUME StateOK, NetOK, Baked
    PROVE  /\ jar.refresh # None => jar.refresh \in Held
           /\ \A m \in net : m.type = "request" /\ m.jar.refresh # None => m.jar.refresh \in Held
           /\ \A m \in net, s \in Sessions : Renews(m) /\ Brings(m, s) => m.cookies.refresh \in Held
<1>1. jar.refresh # None => jar.refresh \in Held
  BY JarIsHeld DEF InJar
<1>2. ASSUME NEW m \in net, m.type = "request", m.jar.refresh # None
      PROVE  m.jar.refresh \in Held
  BY <1>2, RequestFacts DEF Held, InJar
<1>3. ASSUME NEW m \in net, NEW s \in Sessions, Renews(m), Brings(m, s)
      PROVE  m.cookies.refresh \in Held
  <2>1. /\ m.type = "response" /\ m.cookies \in Jars /\ m.cookies.refresh \in Tokens
    BY <1>3, BringsFacts
  <2>2. ~SignsIn(m) /\ m.cookies # None /\ m.cookies.refresh \in InJar(m.cookies)
    BY <1>3, <2>1, NoneFacts DEF Renews, SignsIn, InJar
  <2> QED BY <2>1, <2>2 DEF Held
<1> QED BY <1>1, <1>2, <1>3

\* What a response of each kind does to the cookies.
LEMMA CookieFacts ==
    ASSUME NetOK, Baked, NEW m \in net, m.type = "response", m.cookies # None
    PROVE  /\ m.op \in {"me", "refresh", "logout", "login", "google"}
           /\ m.op = "logout" => m.cookies = Empty /\ m.status = 200
           /\ SignsIn(m) => m.status = 200 /\ m.cookies.refresh \in Tokens
           /\ m.cookies # Empty => /\ m.cookies.refresh \in Tokens
                                   /\ m.cookies.access = m.cookies.refresh
                                   /\ Brings(m, m.cookies.refresh[1])
           /\ m.cookies = Empty => m.op = "logout" \/ Renews(m)
<1>1. AnswerOK(m) /\ m.op \in Ops
  BY ResponseFacts
<1>2. /\ m.op \in {"me", "refresh", "logout", "login", "google"}
      /\ SignsIn(m) => m.status = 200 /\ m.cookies.refresh \in Tokens
  BY <1>1 DEF AnswerOK, Ops
<1>3. m.op = "logout" => m.cookies = Empty /\ m.status = 200
  BY <1>1 DEF AnswerOK, Baked
<1>4. m.cookies # Empty => /\ m.cookies.refresh \in Tokens
                           /\ m.cookies.access = m.cookies.refresh
                           /\ Brings(m, m.cookies.refresh[1])
  BY DEF Baked, Brings
<1>5. m.cookies = Empty => m.op = "logout" \/ Renews(m)
  BY <1>2, NoneFacts DEF Baked, SignsIn, Renews
<1> QED BY <1>2, <1>3, <1>4, <1>5

\* A message that was not refused becomes so only when its thread begins a retry.
LEMMA RefusedLater ==
    ASSUME NEW m \in net, ~Refused(m), Refused(m)', stale' = stale
    PROVE  Alive(m) /\ pc'[m.th] = "retry" /\ pc[m.th] # "retry"
  BY DEF Refused, Renewing, Alive, Valid

\* Requests for the profile are not refused while the browser has its cookies.
LEMMA MountNotRefused ==
    ASSUME NEW m, PageSends(m), m.live => m.op \in {"me", "refresh"}, jar'.refresh # None
    PROVE  ~Refused(m)'
  BY DEF Refused, PageSends, Renewing, Alive

LEMMA ReloadNotRefused ==
    ASSUME NetOK, \A k \in net : ~Refused(k), stale' = stale, NEW T \in SUBSET Tabs,
           NEW n \in SUBSET net, Reload(T, n, jar'), jar'.refresh # None
    PROVE  \A k \in net' : ~Refused(k)'
<1>1. SUFFICES ASSUME NEW k \in net' PROVE ~Refused(k)'
  OBVIOUS
<1>2. CASE k \in n /\ k.th[1] \notin T
  <2>1. k.th \in Threads
    BY <1>2 DEF NetOK, AllRequests, AllResponses
  <2>2. pc'[k.th] = pc[k.th]
    BY <1>2, <2>1 DEF Reload
  <2> QED BY <1>2, <2>2, RefusedLater
<1> QED BY <1>2, ReloadSends, MountNotRefused

LEMMA ReceiveNotRefused ==
    ASSUME SessInv, Baked, \A k \in net : ~Refused(k), NEW m \in net, Receive(m),
           jar'.refresh # None, m.op = "refresh" => jar'.access # None /\ jar'.access \notin stale
    PROVE  \A k \in net' : ~Refused(k)'
<1> DEFINE t == m.th[1]
           n == net \ {m}
<1>1. StateOK /\ NetOK /\ Lone
  BY DEF SessInv
<1>2. /\ m.type = "response" /\ jar' \in Jars /\ stale' = stale
      /\ m.th \in Threads /\ t \in Tabs
  <2>1. m.type = "response" /\ jar' \in Jars
    BY <1>1, ReceivedJar
  <2>2. stale' = stale
    BY DEF Receive, providerVars
  <2> QED BY <1>1, <2>1, <2>2, ResponseFacts
<1>3. ASSUME NEW k \in net, pc'[k.th] = "retry" /\ Alive(k) => pc[k.th] = "retry"
      PROVE  ~Refused(k)'
  BY <1>2, <1>3, RefusedLater
<1>4. CASE Reload({t}, n, jar')
  BY <1>1, <1>2, <1>4, ReloadNotRefused
<1>5. ASSUME NEW th \in Threads, pc' = [pc EXCEPT ![th] = Idle] \/ pc' = [pc EXCEPT ![th] = "quit"]
      PROVE  \A k \in net : pc'[k.th] = "retry" => pc[k.th] = "retry"
  <2>1. \A k \in net : k.th \in Threads
    BY <1>1 DEF NetOK, AllRequests, AllResponses
  <2> QED BY <1>1, <1>5, <2>1 DEF StateOK, Idle
<1>6. CASE ReceiveSession(m, n, jar')
  BY <1>2, <1>3, <1>5, <1>6 DEF ReceiveSession
<1>7. CASE ReceiveFirst(m, n, jar')
  <2> DEFINE r == <<t, "refresh">>
  <2>1. \A k \in net : pc'[k.th] = "retry" => pc[k.th] = "retry"
    <3>1. CASE m.status # 401
      BY <1>2, <1>5, <1>7, <3>1 DEF ReceiveFirst
    <3>2. CASE m.status = 401
      <4>1. pc' = [pc EXCEPT ![m.th] = "await", ![r] = "refresh"]
        BY <1>7, <3>2 DEF ReceiveFirst
      <4>2. \A k \in net : k.th \in Threads
        BY <1>1 DEF NetOK, AllRequests, AllResponses
      <4> QED BY <1>1, <4>1, <4>2 DEF StateOK
    <3> QED BY <3>1, <3>2
  <2>2. ASSUME NEW k, k = Request(r, "refresh", None, jar') PROVE ~Refused(k)'
    <3>1. k.type = "request" /\ k.op = "refresh" /\ k.jar = jar'
      BY <2>2 DEF Request
    <3> QED BY <3>1 DEF Refused, Renewing
  <2>3. \A k \in net' : k \in n \/ k = Request(r, "refresh", None, jar')
    BY <1>7 DEF ReceiveFirst
  <2> QED BY <1>3, <2>1, <2>2, <2>3
<1>8. CASE ReceiveRefresh(m, n, jar')
  <2>1. m.op = "refresh" /\ m.th[2] = "refresh"
    <3>1. m.th[2] = "refresh" /\ OpOK(m)
      BY <1>1, <1>2, <1>8, ResponseFacts DEF ReceiveRefresh
    <3> QED BY <3>1 DEF OpOK
  <2>2. m.status = 200
    BY <1>2, <2>1 DEF Refused, Renews
  <2>3. /\ net' = n \cup {Request(th, Route(th[2]), None, jar') : th \in Waiting(t)}
        /\ pc' = [th \in Threads |-> IF th = m.th THEN Idle
                                     ELSE IF th \notin Waiting(t) THEN pc[th] ELSE "retry"]
    BY <1>8, <2>2 DEF ReceiveRefresh
  <2>4. ASSUME NEW k \in n PROVE ~Refused(k)'
    <3>1. k.th \in Threads
      BY <1>1 DEF NetOK, AllRequests, AllResponses
    <3>2. CASE k.th \in Waiting(t)
      <4>1. ~Waits(k.th)
        BY <3>2 DEF Waiting, Waits
      <4>2. ~Alive(k)
        BY <1>1, <3>1, <4>1 DEF Lone
      <4> QED BY <1>3, <4>2
    <3>3. CASE k.th \notin Waiting(t)
      <4>1. pc'[k.th] = "retry" => pc[k.th] = "retry"
        BY <2>3, <3>1, <3>3 DEF Idle
      <4> QED BY <1>3, <4>1
    <3> QED BY <3>2, <3>3
  <2>5. ASSUME NEW k, NEW th \in Waiting(t), k = Request(th, Route(th[2]), None, jar')
        PROVE  ~Refused(k)'
    <3>1. k.type = "request" /\ k.op \in {"me", "api"} /\ k.jar = jar'
      BY <2>5 DEF Request, Route
    <3>2. jar'.access # None /\ jar'.access \notin stale'
      BY <1>2, <2>1
    <3> QED BY <3>1, <3>2 DEF Refused, Renewing, Renews, Valid
  <2> QED BY <2>3, <2>4, <2>5
<1>9. CASE ReceiveRetry(m, n, jar')
  <2>1. m.status # 401
    BY <1>2, <1>9 DEF ReceiveRetry, Refused
  <2>2. pc' = [pc EXCEPT ![m.th] = Idle] /\ net' = n
    BY <1>9, <2>1 DEF ReceiveRetry
  <2> QED BY <1>2, <1>3, <1>5, <2>2
<1> QED BY <1>1, <1>4, <1>6, <1>7, <1>8, <1>9, ReceivedJar DEF ReceiveGoogle, ReceiveQuit

\* The route handlers refuse nothing while the session lasts and its renewals
\* are not disturbed.
LEMMA ServeNotRefused ==
    ASSUME SessInv, Baked, Fresh, ~murky, jar.refresh # None, jar.refresh[1] \notin Over',
           \A k \in net : ~Refused(k), [Next]_vars, NEW m \in net, Serve(m)
    PROVE  \A k \in net' : ~Refused(k)'
<1> DEFINE s == jar.refresh[1]
<1>1. /\ StateOK /\ NetOK /\ gen \in [Sessions -> 0..MaxGen]
      /\ m.type = "request" /\ pc' = pc
      /\ ended' \subseteq Over'
  BY DEF SessInv, StateOK, Serve, Requests, Over
<1>2. m \in AllRequests /\ OpOK(m) /\ m.th \in Threads /\ m.jar.refresh \in Tokens \cup {None}
  BY <1>1, RequestFacts
<1>3. stale' = stale
  BY DEF Serve, ServeRefresh, ServeMe, ServeLogin, ServeLogout, ServeProxy, providerVars
<1>4. \A k \in net : ~Refused(k)'
  BY <1>1, <1>3, RefusedLater
<1>5. ASSUME NEW status, NEW cookies, NEW u, Answer(m, status, cookies, u),
             m.live => /\ Renews(m) => status = 200 /\ cookies # Empty
                       /\ pc[m.th] = "retry" => status # 401
                       /\ ~(m.op = "logout" /\ m.th[2] \in Calls)
      PROVE  \A k \in net' : ~Refused(k)'
  <2>1. ASSUME NEW k, k = Response(m, status, cookies, u), m.live PROVE ~Refused(k)'
    <3>1. /\ k.type = "response" /\ k.status = status /\ k.cookies = cookies
          /\ k.op = m.op /\ k.th = m.th
      BY <2>1 DEF Response
    <3> QED BY <1>1, <1>5, <2>1, <3>1 DEF Refused, Renewing, Renews
  <2>2. \A k \in net' : k \in net \/ (m.live /\ k = Response(m, status, cookies, u))
    BY <1>5 DEF Answer
  <2> QED BY <1>4, <2>1, <2>2
<1>6. CASE ServeRefresh(m)
  <2>1. PICK r \in Renewals(m.jar.refresh) :
           IF r = None THEN Answer(m, 401, Empty, None)
           ELSE Answer(m, 200, Cookies(r, TRUE), owner[r[1]])
    BY <1>6 DEF ServeRefresh
  <2>2. Renews(m) /\ ended' = ended \cup Spent(m.jar.refresh)
    BY <1>6 DEF ServeRefresh, Renews
  <2>3. CASE r # None
    <3> DEFINE c == Cookies(r, TRUE)
    <3>1. Answer(m, 200, c, owner[r[1]]) /\ m.op # "logout"
      BY <2>1, <2>2, <2>3 DEF Renews
    <3>2. c.refresh # None
      BY <2>3 DEF Cookies
    <3>3. c # Empty
      BY <3>2, NoneFacts
    <3> HIDE DEF c
    <3> QED BY <1>5, <3>1, <3>3
  <2>4. ASSUME r = None, m.live PROVE FALSE
    <3>1. Renewing(m) /\ m.jar.refresh # None
      BY <1>1, <2>2, <2>4 DEF Refused, Renewing
    <3>2. m.jar.refresh \in Held /\ jar.refresh \in Held
      BY <1>1, <3>1, RenewalsAreHeld
    <3>3. m.jar.refresh[1] = s /\ owner[s] # None /\ s \in Sessions
      BY <3>2, SameSession, HeldTokens
    <3>4. s \notin Over /\ s \notin ended'
      BY <1>1, OverGrows DEF Over
    <3>5. FreshAt(s)
      BY <3>3, <3>4 DEF Fresh, Opened
    <3>6. m.jar.refresh = <<s, gen[s]>>
      BY <3>1, <3>3, <3>5 DEF FreshAt, Carries
    <3>7. s \notin ended
      BY <3>4, OverGrows
    <3>8. ASSUME gen[s] < MaxGen PROVE FALSE
      <4>1. Renewals(m.jar.refresh) = {<<s, gen[s] + 1>>}
        BY <3>1, <3>3, <3>6, <3>7, <3>8 DEF Renewals
      <4>2. <<s, gen[s] + 1>> \in Tokens
        BY <1>1, <3>3, <3>8, AuthAssumption DEF Tokens
      <4>3. r \in Tokens
        BY <4>1, <4>2
      <4> QED BY <2>4, <4>3, NoneFacts
    <3>9. gen[s] = MaxGen
      BY <1>1, <3>3, <3>8, AuthAssumption
    <3>10. s \in Spent(m.jar.refresh)
      BY <3>3, <3>6, <3>9 DEF Spent
    <3> QED BY <2>2, <3>4, <3>10
  <2>5. CASE r = None
    <3>1. Answer(m, 401, Empty, None) /\ ~m.live
      BY <2>1, <2>4, <2>5
    <3> QED BY <1>5, <3>1
  <2> QED BY <2>3, <2>5
<1>7. CASE ServeMe(m)
  <2>1. m.op = "me" /\ Answer(m, 200, None, owner[m.jar.access[1]])
    BY <1>7 DEF ServeMe
  <2> QED BY <1>5, <2>1, NoneFacts
<1>8. CASE ServeLogin(m)
  <2>1. m.op \in {"login", "google"} /\ m.th[2] = "session"
    BY <1>2, <1>8, NoneFacts DEF ServeLogin, OpOK, Threads
  <2>2. pc[m.th] # "retry"
    BY <1>1, <1>2, <2>1 DEF StateOK, Idle
  <2>3. PICK status, cookies, u : Answer(m, status, cookies, u)
    BY <1>8, LoginAnswers
  <2>4. ~Renews(m) /\ m.op # "logout"
    BY <2>1 DEF Renews
  <2> QED BY <1>5, <2>2, <2>3, <2>4
<1>9. CASE ServeLogout(m)
  <2>1. m.op = "logout" /\ Answer(m, 200, Empty, None)
    BY <1>9 DEF ServeLogout
  <2>2. m.live => m.th[2] \notin Calls
    BY <2>1 DEF Refused, Alive
  <2> QED BY <1>5, <2>1, <2>2 DEF Renews
<1>10. CASE ServeProxy(m)
  <2>1. m.op = "api" /\ Answer(m, IF Valid(m.jar.access) THEN 200 ELSE 401, None, None)
    BY <1>10 DEF ServeProxy
  <2>2. m.live /\ pc[m.th] = "retry" => Valid(m.jar.access)
    BY <1>1, <2>1 DEF Refused
  <2> DEFINE status == IF Valid(m.jar.access) THEN 200 ELSE 401
  <2>3. Answer(m, status, None, None) /\ (m.live /\ pc[m.th] = "retry" => status # 401)
    BY <2>1, <2>2
  <2> HIDE DEF status
  <2> QED BY <1>5, <2>1, <2>3 DEF Renews
<1> QED BY <1>6, <1>7, <1>8, <1>9, <1>10 DEF Serve

LEMMA NotRefusedStep ==
    ASSUME SessInv, Baked, Fresh, ~murky, jar.refresh # None, [Next]_vars,
           \A k \in net : ~Refused(k), jar'.refresh # None, jar'.refresh[1] = jar.refresh[1],
           jar.refresh[1] \notin Over'
    PROVE  \A k \in net' : ~Refused(k)'
<1> DEFINE s == jar.refresh[1]
<1>1. StateOK /\ NetOK
  BY DEF SessInv
<1>2. s \in Opened /\ s \notin Over /\ FreshAt(s) /\ s \notin torn'
  <2>1. jar.refresh \in Held
    BY <1>1, RenewalsAreHeld
  <2>2. owner[s] # None /\ s \in Sessions
    BY <2>1, SameSession, HeldTokens
  <2> QED BY <2>2, OverGrows DEF Over, Opened, Fresh
<1>3. ASSUME NEW th, NEW op, Starts(th, op) PROVE \A k \in net' : ~Refused(k)'
  <2>1. PICK v \in {"session", "first"} : pc' = [pc EXCEPT ![th] = v]
    BY <1>3 DEF Starts
  <2>2. PICK arg : net' = net \cup {Request(th, op, arg, jar)}
    BY <1>3 DEF Starts
  <2>3. stale' = stale /\ jar' = jar /\ th \in Threads /\ (th[2] \in Calls => op # "logout")
    BY <1>3 DEF Starts, providerVars
  <2>4. ASSUME NEW k \in net PROVE ~Refused(k)'
    <3>1. k.th \in Threads
      BY <1>1 DEF NetOK, AllRequests, AllResponses
    <3>2. pc'[k.th] = "retry" => pc[k.th] = "retry"
      BY <1>1, <2>1, <3>1 DEF StateOK
    <3> QED BY <2>3, <3>2, RefusedLater
  <2>5. ASSUME NEW k, k = Request(th, op, arg, jar) PROVE ~Refused(k)'
    <3>1. k.type = "request" /\ k.op = op /\ k.jar = jar /\ k.th = th
      BY <2>5 DEF Request
    <3>2. pc'[th] # "retry"
      BY <1>1, <2>1, <2>3 DEF StateOK
    <3> QED BY <2>3, <3>1, <3>2 DEF Refused, Renewing
  <2> QED BY <2>2, <2>4, <2>5
<1>4. ASSUME NEW m \in net, ServeFails(m) \/ Lose(m) PROVE FALSE
  BY <1>2, <1>4 DEF ServeFails, Lose, Tear
<1>5. ASSUME NEW m \in net, Receive(m) PROVE \A k \in net' : ~Refused(k)'
  <2>1. ASSUME m.op = "refresh" PROVE jar'.access # None /\ jar'.access \notin stale
    <3>1. m.type = "response" /\ jar' = IF m.cookies = None THEN jar ELSE m.cookies
      BY <1>5 DEF Receive, Responses
    <3>2. m.status = 200 /\ m.cookies # Empty
      BY <2>1, <3>1 DEF Refused, Renews
    <3>3. m.cookies # None
      BY <2>1, <3>1, <3>2 DEF Baked
    <3>4. jar' = m.cookies /\ jar'.access = jar'.refresh /\ jar'.refresh \in Tokens /\ Brings(m, s)
      BY <1>1, <3>1, <3>2, <3>3, CookieFacts
    <3>5. jar'.refresh = <<s, gen[s]>> /\ <<s, gen[s]>> \notin stale
      BY <1>2, <3>4 DEF FreshAt
    <3> QED BY <3>4, <3>5, NoneFacts
  <2> QED BY <1>5, <2>1, ReceiveNotRefused
<1>6. ASSUME NEW token \in Tokens, Expire(token) PROVE \A k \in net' : ~Refused(k)'
  <2>1. /\ UNCHANGED <<net, pc>> /\ stale' = stale \cup {token}
        /\ \A m \in net : m.type = "request" /\ pc[m.th] = "retry" => m.jar.access # token
    BY <1>6 DEF Expire, Requests
  <2> QED BY <2>1 DEF Refused, Renewing, Alive, Valid
<1>7. ASSUME NEW x \in Sessions, EndSession(x) PROVE \A k \in net' : ~Refused(k)'
  BY <1>7, RefusedLater DEF EndSession, browserVars
<1>8. CASE Restart
  BY <1>1, <1>8, RestartSends, MountNotRefused
<1>9. CASE UNCHANGED vars
  BY <1>9, RefusedLater DEF vars, browserVars, providerVars
<1> QED BY <1>3, <1>4, <1>5, <1>6, <1>7, <1>8, <1>9, Kinds, ServeNotRefused

\* The reasons for what is refused.
LEMMA RefusalsHaveReasons ==
    ASSUME SessInv, LossInv, [Next]_vars, ~murky', jar'.refresh # None,
           NEW m \in net', Refused(m)'
    PROVE  jar'.refresh[1] \in Over'
<1> DEFINE s == jar'.refresh[1]
<1>1. StateOK /\ NetOK /\ Baked /\ Known /\ Fresh /\ Reasons /\ ~murky
  BY OverGrows DEF SessInv, LossInv
<1>2. Over \subseteq Over'
  BY OverGrows DEF Over
<1>3. ASSUME NEW k \in net, SignIn(k) PROVE FALSE
  <2>1. k.op \in {"login", "google"} /\ k.status = 200 /\ k.type = "response" /\ Receive(k)
    BY <1>3 DEF SignIn, SignsIn, Receive, Responses
  <2>2. net \ {k} = {}
    BY <2>1 DEF Receive
  <2>3. \A x \in net : ~Refused(x)
    BY <2>1, <2>2 DEF Refused, Renewing, Renews
  <2>4. \A x \in net' : ~Refused(x)'
    BY <1>1, <2>1, <2>3, ReceiveNotRefused
  <2> QED BY <2>4
<1>4. CASE jar.refresh = None
  <2>1. PICK k \in net : Receive(k) /\ k.cookies # None /\ jar' = k.cookies
    BY <1>1, <1>4, JarStep, NoneFacts
  <2>2. k.type = "response" /\ ~SignsIn(k)
    <3>1. k.type = "response"
      BY <2>1 DEF Receive, Responses
    <3> QED BY <1>1, <1>3, <2>1, <3>1, CookieFacts DEF SignIn
  <2>3. k.cookies # Empty
    BY <2>1, NoneFacts
  <2>4. Renews(k) /\ Brings(k, s) /\ s \in Sessions
    <3>1. Brings(k, s) /\ k.op # "logout" /\ Renews(k)
      BY <1>1, <2>1, <2>2, <2>3, CookieFacts DEF Renews, SignsIn
    <3> QED BY <1>1, <3>1, BringsFacts
  <2>5. s \in Over
    BY <1>1, <1>4, <2>4 DEF Reasons
  <2> QED BY <1>2, <2>5
<1>5. CASE jar.refresh # None
  <2>1. Steady
    BY <1>3, StepIsSteady
  <2>2. jar' \in Jars
    BY StateStep DEF StateOK
  <2>3. jar'.refresh \in Held /\ jar.refresh \in Held
    BY <1>1, <1>5, <2>1, <2>2, RenewalsAreHeld DEF Steady, InJar
  <2>4. s = jar.refresh[1]
    BY <1>1, <2>3, SameSession
  <2>5. CASE jar.refresh[1] \in Over
    BY <1>2, <2>4, <2>5
  <2>6. CASE jar.refresh[1] \notin Over
    <3>1. \A k \in net : ~Refused(k)
      BY <1>1, <1>5, <2>6 DEF Reasons
    <3> QED BY <1>1, <1>5, <2>4, <3>1, NotRefusedStep
  <2> QED BY <2>5, <2>6
<1> QED BY <1>4, <1>5

\* What a route handler brings was asked for by a request that renews.
LEMMA ServedBrings ==
    ASSUME StateOK, NetOK, NEW m \in net, Serve(m) \/ ServeFails(m) \/ Lose(m),
           NEW a \in net' \ net, NEW s \in Sessions, Renews(a)
    PROVE  a.type = "response" /\ (Brings(a, s) => Renewing(m) /\ Carries(m.jar, s))
<1>1. ASSUME NEW status, NEW cookies, NEW u, cookies \in {None, Empty},
             Answer(m, status, cookies, u)
                \/ net' = (net \ {m}) \cup {Response(m, status, cookies, u)}
      PROVE  a.type = "response" /\ ~Brings(a, s)
  <2>1. a = Response(m, status, cookies, u)
    BY <1>1 DEF Answer
  <2> QED BY <1>1, <2>1 DEF Response, Brings
<1>2. CASE Lose(m)
  BY <1>1, <1>2 DEF Lose
<1>3. CASE ServeFails(m)
  BY <1>1, <1>3 DEF ServeFails
<1>4. CASE Serve(m) /\ ServeRefresh(m)
  <2>1. PICK r \in Renewals(m.jar.refresh) :
           IF r = None THEN Answer(m, 401, Empty, None)
           ELSE Answer(m, 200, Cookies(r, TRUE), owner[r[1]])
    BY <1>4 DEF ServeRefresh
  <2>2. m.type = "request" /\ Renews(m)
    BY <1>4 DEF Serve, Requests, ServeRefresh, Renews
  <2>3. CASE r = None
    BY <1>1, <2>1, <2>3
  <2>4. CASE r # None
    <3>1. a = Response(m, 200, Cookies(r, TRUE), owner[r[1]]) /\ m.live
      BY <2>1, <2>4 DEF Answer
    <3>2. a.type = "response" /\ a.cookies.refresh = r
      BY <3>1 DEF Response, Cookies
    <3>3. m.jar.refresh \in Tokens /\ r[1] = m.jar.refresh[1]
      BY <2>2, <2>4, RenewalFacts, RequestFacts DEF StateOK
    <3>4. m.jar.refresh # None /\ Renewing(m)
      BY <2>2, <3>1, <3>3, NoneFacts DEF Renewing
    <3>5. Brings(a, s) => r[1] = s
      BY <3>2 DEF Brings
    <3> QED BY <3>2, <3>3, <3>4, <3>5 DEF Carries
  <2> QED BY <2>3, <2>4
<1>5. CASE Serve(m) /\ (ServeMe(m) \/ ServeLogout(m) \/ ServeProxy(m))
  BY <1>1, <1>5 DEF ServeMe, ServeLogout, ServeProxy
<1>6. CASE Serve(m) /\ ServeLogin(m)
  <2>1. PICK status, cookies, u : Answer(m, status, cookies, u)
    BY <1>6, LoginAnswers
  <2>2. a = Response(m, status, cookies, u)
    BY <2>1 DEF Answer
  <2>3. a.op = m.op
    BY <2>2 DEF Response
  <2> QED BY <1>6, <2>3 DEF ServeLogin, Renews
<1> QED BY <1>2, <1>3, <1>4, <1>5, <1>6 DEF Serve

\* What is under way when the browser has lost its cookies.
LEMMA LeftoversHaveReasons ==
    ASSUME SessInv, LossInv, [Next]_vars, ~murky', jar'.refresh = None,
           NEW m \in net', NEW s \in Sessions,
           (Renews(m) /\ Brings(m, s)) \/ (Renewing(m) /\ Carries(m.jar, s))
    PROVE  s \in Over'
<1>1. StateOK /\ NetOK /\ Lone /\ Baked /\ Reasons /\ ~murky
  BY OverGrows DEF SessInv, LossInv
<1>2. Over \subseteq Over'
  BY OverGrows DEF Over
<1>3. ~PageSends(m)
  BY DEF PageSends, Brings, Renewing, Carries
<1>4. CASE jar.refresh = None
  <2>1. \A k \in net : (Renews(k) /\ Brings(k, s)) \/ (Renewing(k) /\ Carries(k.jar, s)) => s \in Over
    BY <1>1, <1>4 DEF Reasons
  <2>2. CASE m \in net
    BY <1>2, <2>1, <2>2
  <2>3. ASSUME NEW k \in net, Serve(k) \/ ServeFails(k) \/ Lose(k), m \notin net
        PROVE  Renewing(k) /\ Carries(k.jar, s)
    BY <1>1, <2>3, ServedBrings DEF Renewing
  <2> QED BY <1>1, <1>2, <1>3, <2>1, <2>2, <2>3, OnlyAnswers
<1>5. CASE jar.refresh # None
  <2>1. ASSUME NEW k \in net, Receive(k), k.cookies # None, jar' = k.cookies
        PROVE  s \in Over'
    <3>1. k.type = "response"
      BY <2>1 DEF Receive, Responses
    <3>2. k.cookies = Empty /\ (k.op = "logout" => k.status = 200)
          /\ (k.op = "logout" \/ Renews(k))
      BY <1>1, <2>1, <3>1, CookieFacts, NoneFacts
    <3>3. m \in net \ {k}
      BY <1>1, <1>3, <2>1, ReceiveSends
    <3>4. k.op # "logout"
      BY <2>1, <3>2, <3>3 DEF Receive
    <3>5. jar.refresh[1] \in Over
      BY <1>1, <1>5, <3>1, <3>2, <3>4 DEF Refused, Reasons
    <3>6. s = jar.refresh[1]
      <4>1. jar.refresh \in Held
        BY <1>1, <1>5, RenewalsAreHeld
      <4>2. CASE Renews(m) /\ Brings(m, s)
        <5>1. m.cookies.refresh \in Held /\ m.cookies.refresh[1] = s
          BY <1>1, <3>3, <4>2, RenewalsAreHeld DEF Brings
        <5> QED BY <1>1, <4>1, <5>1, SameSession
      <4>3. CASE Renewing(m) /\ Carries(m.jar, s)
        <5>1. m.jar.refresh \in Held /\ m.jar.refresh[1] = s
          BY <1>1, <3>3, <4>3, RenewalsAreHeld DEF Renewing, Carries
        <5> QED BY <1>1, <4>1, <5>1, SameSession
      <4> QED BY <4>2, <4>3
    <3> QED BY <1>2, <3>5, <3>6
  <2>2. CASE Restart
    BY <1>1, <1>3, <2>2, RestartSends
  <2> QED BY <1>1, <1>5, <2>1, <2>2, JarStep
<1> QED BY <1>4, <1>5

LEMMA ReasonsStep ==
    ASSUME SessInv, LossInv, [Next]_vars
    PROVE  Reasons'
<1>1. ~murky' /\ jar'.refresh # None => \A m \in net' : Refused(m)' => jar'.refresh[1] \in Over'
  BY RefusalsHaveReasons
<1>2. ~murky' /\ jar'.refresh = None => \A m \in net', s \in Sessions :
         (Renews(m) /\ Brings(m, s)) \/ (Renewing(m) /\ Carries(m.jar, s)) => s \in Over'
  BY LeftoversHaveReasons
<1> QED BY <1>1, <1>2 DEF Reasons

LEMMA InitLossInv ==
    ASSUME Init
    PROVE  LossInv
<1>1. \A m \in net : /\ m.type = "request" /\ m.jar = Empty /\ m.op = "me"
                     /\ m.th[2] = "session"
  BY DEF Init, Mounts, Request
<1>2. jar = Empty /\ stale = {} /\ \A s \in Sessions : owner[s] = None /\ gen[s] = 0
  BY DEF Init
<1>3. Baked
  BY <1>1 DEF Baked
<1>4. Known
  BY <1>1, <1>2, NoneFacts DEF Known
<1>5. Fresh
  BY <1>2 DEF Fresh, Opened
<1>6. Reasons
  BY <1>1, <1>2, NoneFacts DEF Reasons, Brings, Carries
<1> QED BY <1>3, <1>4, <1>5, <1>6 DEF LossInv

LEMMA LossInvHolds == Spec => [](SessInv /\ LossInv)
<1>1. Init => SessInv /\ LossInv
  BY InitSessInv, InitLossInv
<1>2. SessInv /\ LossInv /\ [Next]_vars => LossInv'
  BY BakedStep, KnownStep, FreshStep, ReasonsStep DEF LossInv
<1>3. SessInv /\ LossInv /\ [Next]_vars => SessInv'
  BY StateStep, NetStep, LoneStep, SignedOutStep, OneSessionStep DEF SessInv
<1> QED BY <1>1, <1>2, <1>3, PTL DEF Spec

LEMMA LossStep ==
    ASSUME SessInv, LossInv, [Next]_vars, jar.refresh # None, jar'.refresh = None, ~murky
    PROVE  \/ jar.refresh[1] \in ended \cup torn
           \/ \E m \in net \ net' : m.op = "logout" /\ m.th[2] = "session"
           \/ ~jar.keep /\ faults' # faults
<1>1. StateOK /\ NetOK /\ Lone /\ Baked /\ Reasons
  BY DEF SessInv, LossInv
<1>2. CASE Restart /\ ~jar.keep
  <2>1. faults' = faults + 1 /\ faults \in Nat
    BY <1>1, <1>2, AuthAssumption DEF Restart, Strike, StateOK
  <2> QED BY <1>2, <2>1
<1>3. ASSUME NEW m \in net, Receive(m), m.cookies # None, jar' = m.cookies
      PROVE  \/ jar.refresh[1] \in ended \cup torn
             \/ \E k \in net \ net' : k.op = "logout" /\ k.th[2] = "session"
  <2>1. m.type = "response" /\ Alive(m)
    BY <1>3 DEF Receive, Responses, Alive
  <2>2. m.cookies = Empty
    BY <1>1, <1>3, <2>1, CookieFacts, NoneFacts
  <2>3. CASE Refused(m)
    BY <1>1, <2>3 DEF Reasons, Over
  <2>4. CASE ~Refused(m)
    <3>1. m.op = "logout" /\ m.th[2] \notin Calls
      BY <1>1, <1>3, <2>1, <2>2, <2>4, CookieFacts DEF Refused
    <3>2. m.th[2] = "session"
      <4>1. OpOK(m) /\ m.th \in Threads
        BY <1>1, <2>1, ResponseFacts
      <4>2. m.th[2] # "refresh"
        BY <3>1, <4>1 DEF OpOK
      <4> QED BY <3>1, <4>1, <4>2 DEF Threads
    <3>3. m \notin net'
      <4>1. \A k \in net' : k \in net \ {m} \/ PageSends(k)
        BY <1>1, <1>3, ReceiveSends
      <4>2. ~PageSends(m)
        BY <2>1 DEF PageSends
      <4> QED BY <4>1, <4>2
    <3> QED BY <3>1, <3>2, <3>3
  <2> QED BY <2>3, <2>4
<1> QED BY <1>1, <1>2, <1>3, JarStep

\* The refresh token leaves the browser only when the user signs out, the session
\* is over, an unremembered browser is closed or the renewals were disturbed: the
\* calls of one tab that are refused together never spend the same token twice.
THEOREM SessionsAreKept == Spec => NobodyIsSignedOutForNothing
<1>1. SessInv /\ LossInv /\ [Next]_vars =>
         [ jar.refresh # None /\ jar'.refresh = None /\ ~murky =>
             LET s == jar.refresh[1] IN
             \/ s \in ended \cup torn
             \/ \E m \in net \ net' : m.op = "logout" /\ m.th[2] = "session"
             \/ ~jar.keep /\ faults' # faults ]_vars
  BY LossStep
<1> QED BY <1>1, LossInvHolds, PTL DEF Spec, NobodyIsSignedOutForNothing

-----------------------------------------------------------------------------
(* The pages of the account.                                               *)

Goals == [to : Routes, next : {"home", "account"}]
Fields ==
    [on : {"login", "forgot", "reset"}, mode : {"login", "register"}, password : Passwords,
     confirmPassword : Passwords, isSubmitting : BOOLEAN,
     errorMessage : {"none", "mismatch"} \cup FormCalls, done : BOOLEAN, verifying : BOOLEAN,
     accessToken : BOOLEAN, switched : BOOLEAN]
CardFields ==
    [on : {TRUE}, editing : BOOLEAN, draft : DisplayNames, saving : BOOLEAN, nameError : BOOLEAN,
     reset : {"idle", "sending", "sent", "error"}]
AccountCalls ==
    [n : Nat, fn : Identity \cup FormCalls \cup InCards \cup {"verify"}, here : BOOLEAN,
     goal : Goals \cup {Nowhere}, name : DisplayNames \cup {Nobody},
     phase : {"sent", "ok", "failed", "refused"}]
SignIns == {"login", "register"}

AccountTypes ==
    /\ route \in Routes /\ nextPath \in {"home", "account"} /\ heading \in Goals \cup {Nowhere}
    /\ shownUser \in DisplayNames \cup {Nobody} /\ storedName \in DisplayNames
    /\ isLoading \in BOOLEAN /\ session \in BOOLEAN /\ lapsed \in BOOLEAN /\ muddled \in BOOLEAN
    /\ requested \in 0..MaxRequests
    /\ form \in Fields \cup {NoFields} /\ form.on = IF HasForm(route) THEN route ELSE "none"
    /\ cards \in CardFields \cup {NoCards} /\ (cards.on <=> SeesCards(route, shownUser, isLoading))
    /\ requests \subseteq AccountCalls

\* What is asked for, where it is awaited, and where its handler will go.
CallOfItsPage(c) ==
    /\ c.here /\ c.fn \in SignIns =>
          form.on = "login" /\ (form.switched \/ c.fn = form.mode)
    /\ c.here /\ c.fn = "forgot" => form.on = "forgot"
    /\ c.here /\ c.fn \in {"reset", "verify"} => form.on = "reset"
    /\ c.here /\ c.fn \in FormCalls => form.isSubmitting
    /\ c.here /\ c.fn = "verify" => form.verifying
    /\ c.here /\ c.fn \in InCards => cards.on
    /\ c.here /\ c.fn = "save" => cards.saving /\ cards.editing /\ cards.draft = c.name
    /\ c.here /\ c.fn = "mail" => cards.reset = "sending"
NamedCall(c) ==
    /\ c.fn \in SignIns => c.goal \in {To("home"), To("account")} /\ c.name # Nobody
    /\ c.fn = "logout" => c.goal \in {To("home"), To("login")}
    /\ c.fn = "save" => c.name # Nobody
    /\ c.fn \in {"me", "refresh"} /\ c.phase = "ok" => c.name # Nobody
    /\ c.phase = "refused" => c.fn = "save"
CallsHaveTheirPage == \A c \in requests : CallOfItsPage(c) /\ NamedCall(c)

\* The converse: what turns awaits a call, and one of each sort.
SpinnersAwait ==
    /\ isLoading => \E c \in requests : c.fn \in {"me", "refresh"}
    /\ form.on # "none" /\ form.isSubmitting => \E c \in requests : c.here /\ c.fn \in FormCalls
    /\ form.on # "none" /\ form.verifying => \E c \in requests : c.here /\ c.fn = "verify"
    /\ cards.on /\ cards.saving => \E c \in requests : c.here /\ c.fn = "save"
    /\ cards.on /\ cards.reset = "sending" => \E c \in requests : c.here /\ c.fn = "mail"
OneOfASort ==
    \A fns \in {FormCalls, {"verify"}, {"save"}, {"mail"}} : \A c, d \in requests :
        c.here /\ d.here /\ c.fn \in fns /\ d.fn \in fns => c = d

\* Who must leave a page is on the way to another one.
OnTheWay ==
    /\ route = "login" /\ ~isLoading /\ shownUser # Nobody /\ ~form.isSubmitting =>
          heading # Nowhere /\ heading.to # "login"
    /\ route = "account" /\ ~isLoading /\ shownUser = Nobody =>
          heading # Nowhere /\ heading.to # "account"

\* What is shown is stored; and what each request about the user leaves of that.
Genuine(u) == u = storedName /\ (session \/ lapsed)
WillBeGenuine(c) ==
    /\ c.fn \in {"me", "refresh"} \cup SignIns /\ c.phase = "ok" => Genuine(c.name)
    /\ c.fn \in SignIns => shownUser = Nobody
    /\ c.fn = "logout" => shownUser \in {Nobody, storedName}
    /\ c.fn = "logout" /\ c.phase # "ok" => shownUser = Nobody \/ Genuine(shownUser)
    /\ c.fn = "save" /\ c.phase \in {"sent", "failed"} => shownUser = Nobody \/ Genuine(shownUser)
UserIsGenuine ==
    ~muddled =>
        /\ \A c, d \in requests : c.fn \in Identity /\ d.fn \in Identity => c = d
        /\ \A c \in requests : c.fn \in Identity => WillBeGenuine(c)
        /\ (\A c \in requests : c.fn \notin Identity) => shownUser = Nobody \/ Genuine(shownUser)

AccountIInv ==
    /\ AccountTypes /\ CallsHaveTheirPage /\ SpinnersAwait /\ OneOfASort /\ OnTheWay
    /\ UserIsGenuine /\ ErrorIsOfTheForm

\* The request that is left behind by its page.
LeftCall(c, fns) == [c EXCEPT !.here = c.here /\ c.fn \notin fns]

LEMMA LeftCalls ==
    ASSUME NEW S, S \subseteq AccountCalls, NEW fns
    PROVE  /\ Left(S, fns) = {LeftCall(c, fns) : c \in S}
           /\ \A c \in S :
                 /\ LeftCall(c, fns) \in AccountCalls
                 /\ LeftCall(c, fns).fn = c.fn /\ LeftCall(c, fns).goal = c.goal
                 /\ LeftCall(c, fns).name = c.name /\ LeftCall(c, fns).phase = c.phase
                 /\ LeftCall(c, fns).here = (c.here /\ c.fn \notin fns)
                 /\ c.fn \notin fns => LeftCall(c, fns) = c
                 /\ LeftCall(c, fns).here => LeftCall(c, fns) = c
<1>1. Left(S, fns) = {LeftCall(c, fns) : c \in S}
  BY DEF Left, LeftCall
<1>2. ASSUME NEW c \in S
      PROVE  /\ LeftCall(c, fns) \in AccountCalls
             /\ LeftCall(c, fns).fn = c.fn /\ LeftCall(c, fns).goal = c.goal
             /\ LeftCall(c, fns).name = c.name /\ LeftCall(c, fns).phase = c.phase
             /\ LeftCall(c, fns).here = (c.here /\ c.fn \notin fns)
             /\ LeftCall(c, fns).n = c.n
  <2>1. c \in AccountCalls
    OBVIOUS
  <2>2. (c.here /\ c.fn \notin fns) \in BOOLEAN
    OBVIOUS
  <2> QED BY <2>1, <2>2 DEF LeftCall, AccountCalls
<1>3. ASSUME NEW c \in S, LeftCall(c, fns).here = c.here PROVE LeftCall(c, fns) = c
  <2>1. c \in AccountCalls /\ LeftCall(c, fns) \in AccountCalls
    BY <1>2
  <2> QED BY <1>2, <1>3, <2>1 DEF AccountCalls
<1>4. ASSUME NEW c \in S PROVE c.here \in BOOLEAN
  BY DEF AccountCalls
<1>5. ASSUME NEW c \in S, c.fn \notin fns PROVE LeftCall(c, fns) = c
  BY <1>2, <1>3, <1>4, <1>5
<1>6. ASSUME NEW c \in S, LeftCall(c, fns).here PROVE LeftCall(c, fns) = c
  BY <1>2, <1>3, <1>4, <1>6
<1> QED BY <1>1, <1>2, <1>5, <1>6

LEMMA NewRequestIsACall ==
    ASSUME NEW n \in Nat, NEW fn \in Identity \cup FormCalls \cup InCards \cup {"verify"},
           NEW goal \in Goals \cup {Nowhere}, NEW name \in DisplayNames \cup {Nobody}
    PROVE  /\ NewRequest(n, fn, goal, name) \in AccountCalls
           /\ NewRequest(n, fn, goal, name).fn = fn /\ NewRequest(n, fn, goal, name).here
           /\ NewRequest(n, fn, goal, name).goal = goal /\ NewRequest(n, fn, goal, name).name = name
           /\ NewRequest(n, fn, goal, name).phase = "sent"
BY DEF NewRequest, AccountCalls

LEMMA PlacesAreGoals ==
    /\ \A r \in Routes : To(r) \in Goals /\ To(r).to = r /\ To(r) # Nowhere /\ To(r).next = "home"
    /\ \A r \in {"home", "account"} : LoginFor(r) \in Goals /\ LoginFor(r).to = "login" /\ LoginFor(r) # Nowhere
    /\ \A g \in Goals : g.to \in Routes /\ g.next \in {"home", "account"} /\ g # Nowhere
BY DEF To, LoginFor, Goals, Routes, Nowhere

LEMMA FormsAndCards ==
    /\ NoFields.on = "none" /\ NoCards.on = FALSE
    /\ \A f \in Fields : f.on # "none" /\ f.on \in {"login", "forgot", "reset"}
    /\ \A k \in CardFields : k.on
    /\ \A r \in {"login", "forgot", "reset"} :
          /\ NewForm(r) \in Fields /\ NewForm(r).on = r /\ ~NewForm(r).isSubmitting /\ ~NewForm(r).verifying
          /\ NewForm(r).errorMessage = "none"
    /\ \A u \in DisplayNames :
          NewCards(u) \in CardFields /\ ~NewCards(u).saving /\ NewCards(u).reset = "idle"
<1>1. NoFields.on = "none" /\ NoCards.on = FALSE
  BY DEF NoFields, NoCards
<1>2. \A f \in Fields : f.on # "none" /\ f.on \in {"login", "forgot", "reset"}
  BY DEF Fields
<1>3. \A k \in CardFields : k.on
  BY DEF CardFields
<1>4. ASSUME NEW r \in {"login", "forgot", "reset"}
      PROVE  /\ NewForm(r) \in Fields /\ NewForm(r).on = r /\ ~NewForm(r).isSubmitting /\ ~NewForm(r).verifying
             /\ NewForm(r).errorMessage = "none"
  <2>1. "" \in Passwords
    BY AccountAssumption
  <2> QED BY <2>1 DEF NewForm, Fields
<1>5. ASSUME NEW u \in DisplayNames
      PROVE  NewCards(u) \in CardFields /\ ~NewCards(u).saving /\ NewCards(u).reset = "idle"
  BY DEF NewCards, CardFields
<1> QED BY <1>1, <1>2, <1>3, <1>4, <1>5

\* A click, a field, a switch: no request and nobody's answer.
LEMMA Clicked ==
    ASSUME AccountIInv, NEW target \in Goals, Click(target),
           target.to = "login" => shownUser = Nobody \/ isLoading \/ route # "login",
           target.to = "account" => shownUser # Nobody \/ isLoading \/ route # "account"
    PROVE  AccountIInv'
<1>1. /\ heading' = target
      /\ UNCHANGED <<route, nextPath, provider, form, cards, requests, requested, backend, muddled>>
  BY DEF Click
<1> USE DEF AccountIInv
<1>2. target # Nowhere
  BY PlacesAreGoals
<1>3. AccountTypes'
  BY <1>1 DEF AccountTypes, HasForm, SeesCards, provider, backend
<1>4. CallsHaveTheirPage'
  BY <1>1 DEF CallsHaveTheirPage, CallOfItsPage, NamedCall
<1>5. SpinnersAwait' /\ OneOfASort'
  BY <1>1 DEF SpinnersAwait, OneOfASort, provider
<1>6. OnTheWay'
  BY <1>1, <1>2 DEF OnTheWay, provider
<1>7. UserIsGenuine' /\ ErrorIsOfTheForm'
  BY <1>1 DEF UserIsGenuine, WillBeGenuine, Genuine, provider, backend, ErrorIsOfTheForm
<1> QED BY <1>3, <1>4, <1>5, <1>6, <1>7

LEMMA FormMoves ==
    ASSUME AccountIInv, NEW f \in Fields, FormIs(f), Quietly,
           form.on # "none", f.on = form.on, f.isSubmitting = form.isSubmitting, f.verifying = form.verifying,
           f.isSubmitting /\ ~f.switched => ~form.switched /\ f.mode = form.mode,
           f.on = "login" /\ ~f.switched => f.errorMessage \in {"none", "mismatch", f.mode}
    PROVE  AccountIInv'
<1>1. /\ form' = f
      /\ UNCHANGED <<route, nextPath, heading, shownUser, isLoading, cards, session, storedName, lapsed,
                     requests, requested, muddled>>
  BY DEF FormIs, Quietly, place, provider, backend
<1> USE DEF AccountIInv
<1>2. form \in Fields
  BY FormsAndCards DEF AccountTypes
<1>3. AccountTypes'
  BY <1>1 DEF AccountTypes, HasForm, SeesCards
<1>4. ASSUME NEW c \in requests PROVE CallOfItsPage(c)' /\ NamedCall(c)'
  <2>1. CallOfItsPage(c) /\ NamedCall(c)
    BY DEF CallsHaveTheirPage
  <2>2. NamedCall(c)'
    BY <1>1, <2>1 DEF NamedCall
  <2>3. c.here /\ c.fn \in SignIns => f.on = "login" /\ (f.switched \/ c.fn = f.mode)
    <3>1. c.fn \in SignIns => c.fn \in FormCalls
      BY DEF SignIns, FormCalls
    <3> QED BY <2>1, <3>1 DEF CallOfItsPage
  <2> QED BY <1>1, <2>1, <2>2, <2>3 DEF CallOfItsPage
<1>5. CallsHaveTheirPage'
  BY <1>1, <1>4 DEF CallsHaveTheirPage
<1>6. SpinnersAwait' /\ OneOfASort'
  BY <1>1 DEF SpinnersAwait, OneOfASort
<1>7. OnTheWay'
  BY <1>1 DEF OnTheWay
<1>8. UserIsGenuine'
  BY <1>1 DEF UserIsGenuine, WillBeGenuine, Genuine
<1>9. ErrorIsOfTheForm'
  BY <1>1 DEF ErrorIsOfTheForm
<1> QED BY <1>3, <1>5, <1>6, <1>7, <1>8, <1>9

LEMMA CardsMove ==
    ASSUME AccountIInv, NEW k \in CardFields, CardsAre(k), Quietly,
           cards.on, k.saving = cards.saving, k.reset = cards.reset,
           k.saving => k.editing = cards.editing /\ k.draft = cards.draft
    PROVE  AccountIInv'
<1>1. /\ cards' = k
      /\ UNCHANGED <<route, nextPath, heading, shownUser, isLoading, form, session, storedName, lapsed,
                     requests, requested, muddled>>
  BY DEF CardsAre, Quietly, place, provider, backend
<1> USE DEF AccountIInv
<1>2. cards \in CardFields /\ k.on
  BY FormsAndCards DEF AccountTypes
<1>3. AccountTypes'
  BY <1>1, <1>2 DEF AccountTypes, HasForm, SeesCards
<1>4. ASSUME NEW c \in requests PROVE CallOfItsPage(c)' /\ NamedCall(c)'
  <2>1. CallOfItsPage(c) /\ NamedCall(c)
    BY DEF CallsHaveTheirPage
  <2> QED BY <1>1, <1>2, <2>1 DEF CallOfItsPage, NamedCall
<1>5. CallsHaveTheirPage'
  BY <1>1, <1>4 DEF CallsHaveTheirPage
<1>6. SpinnersAwait' /\ OneOfASort'
  BY <1>1, <1>2 DEF SpinnersAwait, OneOfASort
<1>7. OnTheWay'
  BY <1>1 DEF OnTheWay
<1>8. UserIsGenuine' /\ ErrorIsOfTheForm'
  BY <1>1 DEF UserIsGenuine, WillBeGenuine, Genuine, ErrorIsOfTheForm
<1> QED BY <1>3, <1>5, <1>6, <1>7, <1>8

LEMMA SessionEndsInv == AccountIInv /\ SessionEnds => AccountIInv'
<1> SUFFICES ASSUME AccountIInv, SessionEnds PROVE AccountIInv'
  OBVIOUS
<1>1. /\ session' = FALSE /\ lapsed' = TRUE
      /\ UNCHANGED <<route, nextPath, heading, shownUser, isLoading, form, cards, storedName,
                     requests, requested, muddled>>
  BY DEF SessionEnds, Tab, place, provider
<1> USE DEF AccountIInv
<1>2. AccountTypes'
  BY <1>1 DEF AccountTypes, HasForm, SeesCards
<1>3. CallsHaveTheirPage'
  BY <1>1 DEF CallsHaveTheirPage, CallOfItsPage, NamedCall
<1>4. SpinnersAwait' /\ OneOfASort' /\ OnTheWay' /\ ErrorIsOfTheForm'
  BY <1>1 DEF SpinnersAwait, OneOfASort, OnTheWay, ErrorIsOfTheForm
<1>5. UserIsGenuine'
  BY <1>1 DEF UserIsGenuine, WillBeGenuine, Genuine
<1> QED BY <1>2, <1>3, <1>4, <1>5

\* A request of the visitor, as far as the form and the cards do not matter.
LEMMA Asked ==
    ASSUME AccountIInv, NEW fn \in Identity \cup FormCalls \cup InCards, NEW goal \in Goals \cup {Nowhere},
           NEW name \in DisplayNames \cup {Nobody}, AskFor(fn, goal, name),
           UNCHANGED <<provider, backend>>,
           fn \notin {"me", "refresh"}, fn \in SignIns => shownUser = Nobody,
           NamedCall(NewRequest(requested + 1, fn, goal, name))
    PROVE  /\ requested' \in 0..MaxRequests /\ requests' \subseteq AccountCalls /\ muddled' \in BOOLEAN
           /\ NewRequest(requested + 1, fn, goal, name) \in AccountCalls
           /\ NewRequest(requested + 1, fn, goal, name).fn = fn /\ NewRequest(requested + 1, fn, goal, name).here
           /\ NewRequest(requested + 1, fn, goal, name).name = name
           /\ requests' = requests \cup {NewRequest(requested + 1, fn, goal, name)}
           /\ \A c \in requests' : NamedCall(c)'
           /\ UserIsGenuine'
<1> PICK new : new = NewRequest(requested + 1, fn, goal, name)
  OBVIOUS
<1> USE DEF AccountIInv
<1>1. requested + 1 \in Nat /\ requested' \in 0..MaxRequests
  <2>1. MaxRequests \in Nat
    BY AccountAssumption
  <2> QED BY <2>1 DEF AskFor, AccountTypes
<1>2. new \in AccountCalls /\ new.fn = fn /\ new.here /\ new.name = name /\ new.phase = "sent"
  BY <1>1, NewRequestIsACall
<1>3. requests' = requests \cup {new} /\ muddled' = (muddled \/ (fn \in Identity /\ \E c \in requests : c.fn \in Identity))
  BY DEF AskFor
<1>4. UNCHANGED <<shownUser, isLoading, session, storedName, lapsed>>
  BY DEF provider, backend
<1>5. requests' \subseteq AccountCalls /\ muddled' \in BOOLEAN
  BY <1>2, <1>3 DEF AccountTypes
<1>6. ASSUME NEW c \in requests' PROVE NamedCall(c)'
  <2>1. NamedCall(c)
    BY <1>3 DEF CallsHaveTheirPage
  <2> QED BY <2>1 DEF NamedCall
<1>7. UserIsGenuine'
  <2>1. SUFFICES ASSUME ~muddled' PROVE UserIsGenuine'
    BY DEF UserIsGenuine
  <2>2. ~muddled /\ (fn \in Identity => \A c \in requests : c.fn \notin Identity)
    BY <1>3, <2>1
  <2>3. \A c, d \in requests' : c.fn \in Identity /\ d.fn \in Identity => c = d
    BY <1>2, <1>3, <2>2 DEF UserIsGenuine
  <2>4. \A c \in requests : c.fn \in Identity => WillBeGenuine(c)'
    BY <1>4, <2>2 DEF UserIsGenuine, WillBeGenuine, Genuine
  <2>5. fn \in Identity => WillBeGenuine(new)'
    BY <1>2, <1>4, <2>2 DEF UserIsGenuine, WillBeGenuine, Genuine
  <2>6. (\A c \in requests' : c.fn \notin Identity) => shownUser' = Nobody \/ Genuine(shownUser)'
    BY <1>3, <1>4, <2>2 DEF UserIsGenuine, Genuine
  <2> QED BY <1>2, <1>3, <2>3, <2>4, <2>5, <2>6 DEF UserIsGenuine
<1> QED BY <1>1, <1>2, <1>3, <1>5, <1>6, <1>7

\* A form is sent that was not under way.
LEMMA FormSent ==
    ASSUME AccountIInv, form \in Fields, ~form.isSubmitting, FormIs(Submitted),
           NEW fn \in FormCalls, NEW goal \in Goals \cup {Nowhere}, NEW name \in DisplayNames \cup {Nobody},
           AskFor(fn, goal, name),
           fn \in SignIns => form.on = "login" /\ fn = form.mode /\ shownUser = Nobody,
           fn \in {"forgot", "reset"} => form.on = fn,
           fn \in SignIns => goal \in {To("home"), To("account")} /\ name # Nobody
    PROVE  AccountIInv'
<1> PICK new : new = NewRequest(requested + 1, fn, goal, name)
  OBVIOUS
<1> USE DEF AccountIInv
<1>1. /\ form' = Submitted
      /\ UNCHANGED <<route, nextPath, heading, shownUser, isLoading, cards, session, storedName, lapsed>>
  BY DEF FormIs, place, provider, backend
<1>2. /\ Submitted \in Fields /\ Submitted.on = form.on /\ Submitted.isSubmitting
      /\ Submitted.errorMessage = "none" /\ Submitted.verifying = form.verifying
      /\ Submitted.mode = form.mode /\ Submitted.switched = FALSE
  BY DEF Submitted, Fields
<1>3. fn \notin {"me", "refresh", "logout", "save", "mail", "verify"} /\ (fn \in SignIns \/ fn \in {"forgot", "reset"})
  BY DEF FormCalls, SignIns
<1>4. /\ requested' \in 0..MaxRequests /\ requests' \subseteq AccountCalls /\ muddled' \in BOOLEAN
      /\ new \in AccountCalls /\ new.fn = fn /\ new.here /\ new.name = name
      /\ requests' = requests \cup {new}
      /\ \A c \in requests' : NamedCall(c)'
      /\ UserIsGenuine'
  <2>1. requested + 1 \in Nat
    <3>1. MaxRequests \in Nat
      BY AccountAssumption
    <3> QED BY <3>1 DEF AccountTypes
  <2>2. fn \in Identity \cup FormCalls \cup InCards \cup {"verify"}
    OBVIOUS
  <2>3. new.fn = fn /\ new.goal = goal /\ new.name = name /\ new.phase = "sent"
    BY <2>1, <2>2, NewRequestIsACall
  <2>4. NamedCall(new)
    BY <1>3, <2>3 DEF NamedCall
  <2>5. UNCHANGED <<provider, backend>>
    BY <1>1 DEF provider, backend
  <2> QED BY <1>3, <2>4, <2>5, Asked
<1>5. AccountTypes'
  BY <1>1, <1>2, <1>4 DEF AccountTypes, HasForm, SeesCards
<1>6. \A c \in requests : c.here => c.fn \notin FormCalls
  BY DEF CallsHaveTheirPage, CallOfItsPage
<1>7. CallsHaveTheirPage'
  <2>1. ASSUME NEW c \in requests PROVE CallOfItsPage(c)'
    <3>1. CallOfItsPage(c)
      BY DEF CallsHaveTheirPage
    <3>2. c.here => c.fn \notin SignIns /\ c.fn \notin {"forgot", "reset"} /\ c.fn \notin FormCalls
      BY <1>6 DEF SignIns, FormCalls
    <3> QED BY <1>1, <1>2, <3>1, <3>2 DEF CallOfItsPage
  <2>2. CallOfItsPage(new)'
    BY <1>1, <1>2, <1>3, <1>4 DEF CallOfItsPage, InCards
  <2> QED BY <1>4, <2>1, <2>2 DEF CallsHaveTheirPage
<1>8. SpinnersAwait'
  BY <1>1, <1>2, <1>4 DEF SpinnersAwait
<1>9. OneOfASort'
  <2>1. SUFFICES ASSUME NEW fns \in {FormCalls, {"verify"}, {"save"}, {"mail"}},
                        NEW c \in requests', NEW d \in requests', c.here, d.here, c.fn \in fns, d.fn \in fns
                 PROVE  c = d
    BY DEF OneOfASort
  <2>2. CASE c \in requests /\ d \in requests
    BY <2>1, <2>2 DEF OneOfASort
  <2>3. fns # FormCalls => fn \notin fns
    BY <1>3, <2>1
  <2> QED BY <1>4, <1>6, <2>1, <2>2, <2>3
<1>10. OnTheWay' /\ ErrorIsOfTheForm'
  BY <1>1, <1>2 DEF OnTheWay, ErrorIsOfTheForm
<1> QED BY <1>4, <1>5, <1>7, <1>8, <1>9, <1>10

\* A card sends what it had not sent.
LEMMA CardSent ==
    ASSUME AccountIInv, cards.on, NEW k \in CardFields, CardsAre(k), NEW fn \in InCards,
           NEW name \in DisplayNames \cup {Nobody}, AskFor(fn, Nowhere, name),
           fn = "save" => /\ name # Nobody /\ ~cards.saving /\ k.saving /\ k.editing /\ k.draft = name
                          /\ k.reset = cards.reset,
           fn = "mail" => /\ cards.reset # "sending" /\ k.reset = "sending" /\ k.saving = cards.saving
                          /\ k.editing = cards.editing /\ k.draft = cards.draft
    PROVE  AccountIInv'
<1> PICK new : new = NewRequest(requested + 1, fn, Nowhere, name)
  OBVIOUS
<1> USE DEF AccountIInv
<1>1. /\ cards' = k /\ k.on
      /\ UNCHANGED <<route, nextPath, heading, shownUser, isLoading, form, session, storedName, lapsed>>
  BY FormsAndCards DEF CardsAre, place, provider, backend
<1>3. fn \in {"save", "mail"} /\ fn \notin FormCalls /\ fn \notin SignIns /\ fn \notin {"me", "refresh", "logout", "verify"}
  BY DEF FormCalls, SignIns, InCards
<1>4. /\ requested' \in 0..MaxRequests /\ requests' \subseteq AccountCalls /\ muddled' \in BOOLEAN
      /\ new \in AccountCalls /\ new.fn = fn /\ new.here /\ new.name = name
      /\ requests' = requests \cup {new}
      /\ \A c \in requests' : NamedCall(c)'
      /\ UserIsGenuine'
  <2>1. requested + 1 \in Nat
    <3>1. MaxRequests \in Nat
      BY AccountAssumption
    <3> QED BY <3>1 DEF AccountTypes
  <2>2. fn \in Identity \cup FormCalls \cup InCards \cup {"verify"}
    OBVIOUS
  <2>3. new.fn = fn /\ new.name = name /\ new.phase = "sent"
    BY <2>1, <2>2, NewRequestIsACall
  <2>4. NamedCall(new)
    BY <1>3, <2>3 DEF NamedCall
  <2>5. UNCHANGED <<provider, backend>>
    BY <1>1 DEF provider, backend
  <2> QED BY <1>3, <2>4, <2>5, Asked
<1>5. AccountTypes'
  BY <1>1, <1>4 DEF AccountTypes, HasForm, SeesCards
<1>6. \A c \in requests : c.here => c.fn # fn
  BY <1>3 DEF CallsHaveTheirPage, CallOfItsPage
<1>7. CallsHaveTheirPage'
  <2>1. ASSUME NEW c \in requests PROVE CallOfItsPage(c)'
    <3>1. CallOfItsPage(c) /\ (c.here => c.fn # fn)
      BY <1>6 DEF CallsHaveTheirPage
    <3>2. c.here /\ c.fn \in InCards => c.fn \in {"save", "mail"}
      BY DEF InCards
    <3>3. CASE fn = "save"
      BY <1>1, <1>3, <3>1, <3>2, <3>3 DEF CallOfItsPage
    <3>4. CASE fn = "mail"
      BY <1>1, <1>3, <3>1, <3>2, <3>4 DEF CallOfItsPage
    <3> QED BY <1>3, <3>3, <3>4
  <2>2. CallOfItsPage(new)'
    BY <1>1, <1>3, <1>4 DEF CallOfItsPage
  <2> QED BY <1>4, <2>1, <2>2 DEF CallsHaveTheirPage
<1>8. SpinnersAwait'
  BY <1>1, <1>3, <1>4 DEF SpinnersAwait
<1>9. OneOfASort'
  <2>1. SUFFICES ASSUME NEW fns \in {FormCalls, {"verify"}, {"save"}, {"mail"}},
                        NEW c \in requests', NEW d \in requests', c.here, d.here, c.fn \in fns, d.fn \in fns
                 PROVE  c = d
    BY DEF OneOfASort
  <2>2. CASE c \in requests /\ d \in requests
    BY <2>1, <2>2 DEF OneOfASort
  <2>3. fns # {fn} => fn \notin fns
    BY <1>3, <2>1
  <2> QED BY <1>4, <1>6, <2>1, <2>2, <2>3
<1>10. OnTheWay' /\ ErrorIsOfTheForm'
  BY <1>1 DEF OnTheWay, ErrorIsOfTheForm
<1> QED BY <1>4, <1>5, <1>7, <1>8, <1>9, <1>10

LEMMA SignOutInv == AccountIInv /\ SignOut => AccountIInv'
<1> SUFFICES ASSUME AccountIInv, SignOut PROVE AccountIInv'
  OBVIOUS
<1> USE DEF AccountIInv
<1>1. PICK goal \in {To("home"), To("login")} : AskFor("logout", goal, Nobody)
  BY DEF SignOut
<1> PICK new : new = NewRequest(requested + 1, "logout", goal, Nobody)
  OBVIOUS
<1>2. UNCHANGED <<route, nextPath, heading, shownUser, isLoading, form, cards, session, storedName, lapsed>>
  BY DEF SignOut, place, provider, backend
<1>4. /\ requested' \in 0..MaxRequests /\ requests' \subseteq AccountCalls /\ muddled' \in BOOLEAN
      /\ new \in AccountCalls /\ new.fn = "logout"
      /\ requests' = requests \cup {new}
      /\ \A c \in requests' : NamedCall(c)'
      /\ UserIsGenuine'
  <2>1. requested + 1 \in Nat
    <3>1. MaxRequests \in Nat
      BY AccountAssumption
    <3> QED BY <3>1 DEF AccountTypes
  <2>2. goal \in Goals
    BY PlacesAreGoals DEF Routes
  <2>3. "logout" \in Identity /\ "logout" \notin SignIns
    BY DEF Identity, SignIns
  <2>4. new.fn = "logout" /\ new.goal = goal /\ new.phase = "sent"
    BY <2>1, <2>2, <2>3, NewRequestIsACall
  <2>5. NamedCall(new)
    BY <2>3, <2>4 DEF NamedCall
  <2>6. UNCHANGED <<provider, backend>>
    BY <1>2 DEF provider, backend
  <2> QED BY <1>1, <2>2, <2>3, <2>5, <2>6, Asked
<1>5. AccountTypes'
  BY <1>2, <1>4 DEF AccountTypes, HasForm, SeesCards
<1>6. "logout" \notin FormCalls \cup InCards \cup SignIns \cup {"verify"}
  BY DEF FormCalls, InCards, SignIns
<1>7. CallsHaveTheirPage'
  <2>1. ASSUME NEW c \in requests PROVE CallOfItsPage(c)'
    BY <1>2 DEF CallOfItsPage, CallsHaveTheirPage
  <2>2. CallOfItsPage(new)'
    BY <1>4, <1>6 DEF CallOfItsPage
  <2> QED BY <1>4, <2>1, <2>2 DEF CallsHaveTheirPage
<1>8. SpinnersAwait'
  BY <1>2, <1>4 DEF SpinnersAwait
<1>9. OneOfASort'
  BY <1>4, <1>6 DEF OneOfASort, InCards
<1>10. OnTheWay' /\ ErrorIsOfTheForm'
  BY <1>2 DEF OnTheWay, ErrorIsOfTheForm
<1> QED BY <1>4, <1>5, <1>7, <1>8, <1>9, <1>10

LEMMA FollowLinkInv == AccountIInv /\ FollowLink => AccountIInv'
<1> SUFFICES ASSUME AccountIInv, FollowLink PROVE AccountIInv'
  OBVIOUS
<1>1. PICK r \in {"home", "account", "login", "forgot"} :
          /\ Click(To(r))
          /\ r = "login" => shownUser = Nobody \/ isLoading \/ route # "login"
          /\ r = "account" => shownUser # Nobody \/ isLoading \/ route # "account"
  BY DEF FollowLink
<1>2. To(r) \in Goals /\ To(r).to = r
  BY PlacesAreGoals DEF Routes
<1> QED BY <1>1, <1>2, Clicked

LEMMA FormInv ==
    ASSUME AccountIInv,
           \/ \E m \in {"login", "register"} : SwitchMode(m)
           \/ \E p \in Passwords : TypePassword(p) \/ TypeConfirmPassword(p)
           \/ SubmitLogin \/ SubmitForgot \/ SubmitReset
    PROVE  AccountIInv'
<1> USE DEF AccountIInv
<1>1. form \in Fields /\ form.on = route /\ form.on # "none"
  <2>1. HasForm(route) /\ route # "none"
    BY DEF SwitchMode, TypePassword, TypeConfirmPassword, FieldsShown, LoginShown, SubmitLogin, SubmitForgot,
       SubmitReset, HasForm
  <2> QED BY <2>1, FormsAndCards DEF AccountTypes
<1>2. form.on = "login" /\ ~form.switched => form.errorMessage \in {"none", "mismatch", form.mode}
  BY DEF ErrorIsOfTheForm
<1>3. ASSUME NEW m \in {"login", "register"}, SwitchMode(m) PROVE AccountIInv'
  <2> PICK f : f = [form EXCEPT !.mode = m, !.errorMessage = "none", !.password = "", !.confirmPassword = "",
                                !.switched = form.isSubmitting /\ (form.switched \/ m # form.mode)]
    OBVIOUS
  <2>1. "" \in Passwords
    BY AccountAssumption
  <2>2. (form.isSubmitting /\ (form.switched \/ m # form.mode)) \in BOOLEAN
    OBVIOUS
  <2>3. /\ f \in Fields /\ f.on = form.on /\ f.isSubmitting = form.isSubmitting /\ f.verifying = form.verifying
        /\ f.mode = m /\ f.errorMessage = "none"
        /\ f.switched = (form.isSubmitting /\ (form.switched \/ m # form.mode))
    BY <1>1, <2>1, <2>2 DEF Fields
  <2>4. FormIs(f) /\ Quietly
    BY <1>3 DEF SwitchMode
  <2> QED BY <1>1, <2>3, <2>4, FormMoves
<1>4. ASSUME NEW p \in Passwords, TypePassword(p) \/ TypeConfirmPassword(p) PROVE AccountIInv'
  <2>1. PICK f \in {[form EXCEPT !.password = p], [form EXCEPT !.confirmPassword = p]} : FormIs(f) /\ Quietly
    BY <1>4 DEF TypePassword, TypeConfirmPassword
  <2>2. /\ f \in Fields /\ f.on = form.on /\ f.isSubmitting = form.isSubmitting /\ f.verifying = form.verifying
        /\ f.mode = form.mode /\ f.errorMessage = form.errorMessage /\ f.switched = form.switched
    BY <1>1, <2>1 DEF Fields
  <2> QED BY <1>1, <1>2, <2>1, <2>2, FormMoves
<1>5. ASSUME FormIs([form EXCEPT !.errorMessage = "mismatch"]), Quietly PROVE AccountIInv'
  <2> PICK f : f = [form EXCEPT !.errorMessage = "mismatch"]
    OBVIOUS
  <2>1. /\ f \in Fields /\ f.on = form.on /\ f.isSubmitting = form.isSubmitting /\ f.verifying = form.verifying
        /\ f.mode = form.mode /\ f.errorMessage = "mismatch" /\ f.switched = form.switched
    BY <1>1 DEF Fields
  <2> QED BY <1>1, <1>5, <2>1, FormMoves
<1>6. CASE SubmitLogin
  <2>1. CASE form.mode = "register" /\ form.password # form.confirmPassword
    BY <1>5, <1>6, <2>1 DEF SubmitLogin
  <2>2. CASE ~(form.mode = "register" /\ form.password # form.confirmPassword)
    <3>1. FormIs(Submitted) /\ route = "login" /\ shownUser = Nobody /\ ~form.isSubmitting
      BY <1>6, <2>2 DEF SubmitLogin, LoginShown
    <3>2. PICK name \in DisplayNames, goal \in {To(nextPath), To("home")} : AskFor(form.mode, goal, name)
      BY <1>6, <2>2 DEF SubmitLogin
    <3>3. goal \in Goals /\ goal \in {To("home"), To("account")}
      BY <3>2, PlacesAreGoals DEF AccountTypes, Routes
    <3>4. form.mode \in SignIns /\ form.mode \in FormCalls /\ form.mode \notin {"forgot", "reset"}
      BY <1>1 DEF Fields, SignIns, FormCalls
    <3>5. name # Nobody
      BY AccountAssumption
    <3> QED BY <1>1, <3>1, <3>2, <3>3, <3>4, <3>5, FormSent
  <2> QED BY <2>1, <2>2
<1>7. CASE SubmitForgot
  <2>1. FormIs(Submitted) /\ AskFor("forgot", Nowhere, Nobody) /\ form.on = "forgot" /\ ~form.isSubmitting
    BY <1>1, <1>7 DEF SubmitForgot
  <2>2. "forgot" \in FormCalls /\ "forgot" \notin SignIns
    BY DEF FormCalls, SignIns
  <2> QED BY <1>1, <2>1, <2>2, FormSent
<1>8. CASE SubmitReset
  <2>1. CASE form.password # form.confirmPassword
    BY <1>5, <1>8, <2>1 DEF SubmitReset
  <2>2. CASE form.password = form.confirmPassword
    <3>1. FormIs(Submitted) /\ AskFor("reset", Nowhere, Nobody) /\ form.on = "reset" /\ ~form.isSubmitting
      BY <1>1, <1>8, <2>2 DEF SubmitReset
    <3>2. "reset" \in FormCalls /\ "reset" \notin SignIns
      BY DEF FormCalls, SignIns
    <3> QED BY <1>1, <3>1, <3>2, FormSent
  <2> QED BY <2>1, <2>2
<1> QED BY <1>3, <1>4, <1>6, <1>7, <1>8

LEMMA CardsInv ==
    ASSUME AccountIInv,
           \/ EditName \/ CommitName \/ CancelName \/ ChangePassword
           \/ \E name \in DisplayNames : TypeName(name)
    PROVE  AccountIInv'
<1> USE DEF AccountIInv
<1>1. cards \in CardFields /\ cards.on
  <2>1. cards.on
    BY DEF EditName, CommitName, CancelName, ChangePassword, TypeName
  <2> QED BY <2>1, FormsAndCards DEF AccountTypes
<1>2. shownUser \in DisplayNames
  BY <1>1 DEF AccountTypes, SeesCards
<1>3. cards.saving \in BOOLEAN /\ cards.editing \in BOOLEAN /\ cards.draft \in DisplayNames
  BY <1>1 DEF CardFields
<1>4. ASSUME NEW k, CardsAre(k), Quietly,
             \/ k = [cards EXCEPT !.editing = TRUE] /\ ~cards.editing
             \/ k = [cards EXCEPT !.editing = FALSE] /\ ~cards.saving
             \/ k = [cards EXCEPT !.draft = shownUser, !.editing = FALSE, !.nameError = FALSE] /\ ~cards.saving
             \/ \E name \in DisplayNames : k = [cards EXCEPT !.draft = name] /\ ~cards.saving
      PROVE  AccountIInv'
  <2>1. cards.saving => cards.editing
    BY <1>1 DEF CallsHaveTheirPage, CallOfItsPage, SpinnersAwait
  <2>2. k \in CardFields /\ k.saving = cards.saving /\ k.reset = cards.reset
    BY <1>1, <1>2, <1>4 DEF CardFields
  <2>3. ~k.saving
    BY <1>4, <2>1, <2>2
  <2> QED BY <1>1, <1>4, <2>2, <2>3, CardsMove
<1>5. CASE EditName \/ CancelName \/ \E name \in DisplayNames : TypeName(name)
  BY <1>4, <1>5 DEF EditName, CancelName, TypeName
<1>6. CASE CommitName
  <2>1. CASE cards.draft = shownUser
    BY <1>4, <1>6, <2>1 DEF CommitName
  <2>2. CASE cards.draft # shownUser
    <3> PICK k : k = [cards EXCEPT !.saving = TRUE, !.nameError = FALSE]
      OBVIOUS
    <3>1. CardsAre(k) /\ AskFor("save", Nowhere, cards.draft) /\ ~cards.saving /\ cards.editing
      BY <1>6, <2>2 DEF CommitName
    <3>2. /\ k \in CardFields /\ k.saving /\ k.editing = cards.editing /\ k.draft = cards.draft
          /\ k.reset = cards.reset
      BY <1>1 DEF CardFields
    <3>3. cards.draft # Nobody /\ "save" \in InCards
      BY <1>3, AccountAssumption DEF InCards
    <3> QED BY <1>1, <1>3, <3>1, <3>2, <3>3, CardSent
  <2> QED BY <2>1, <2>2
<1>7. CASE ChangePassword
  <2> PICK k : k = [cards EXCEPT !.reset = "sending"]
    OBVIOUS
  <2>1. CardsAre(k) /\ AskFor("mail", Nowhere, Nobody) /\ cards.reset # "sending"
    BY <1>7 DEF ChangePassword
  <2>2. /\ k \in CardFields /\ k.saving = cards.saving /\ k.editing = cards.editing /\ k.draft = cards.draft
        /\ k.reset = "sending"
    BY <1>1 DEF CardFields
  <2>3. "mail" \in InCards
    BY DEF InCards
  <2> QED BY <1>1, <2>1, <2>2, <2>3, CardSent
<1> QED BY <1>5, <1>6, <1>7

\* A new page has its own form and cards, and awaits nothing.
LEMMA ArriveInv == AccountIInv /\ Arrive => AccountIInv'
<1> SUFFICES ASSUME AccountIInv, Arrive PROVE AccountIInv'
  OBVIOUS
<1> USE DEF AccountIInv
<1>1. /\ heading \in Goals /\ route' = heading.to /\ nextPath' = heading.next
      /\ heading.to \in Routes /\ heading.next \in {"home", "account"}
      /\ UNCHANGED <<shownUser, isLoading, requested, session, storedName, lapsed, muddled>>
  BY PlacesAreGoals DEF Arrive, AccountTypes, provider, backend
<1>2. heading' \in Goals \cup {Nowhere}
  <2>1. To(heading.next) \in Goals /\ LoginFor("account") \in Goals
    BY <1>1, PlacesAreGoals DEF Routes
  <2> QED BY <2>1 DEF Arrive
<1>3. CASE heading.to = route
  <2>1. UNCHANGED <<route, form, cards, requests>>
    BY <1>1, <1>3 DEF Arrive
  <2>2. AccountTypes'
    BY <1>1, <1>2, <2>1 DEF AccountTypes, HasForm, SeesCards
  <2>3. CallsHaveTheirPage' /\ SpinnersAwait' /\ OneOfASort' /\ ErrorIsOfTheForm'
    BY <1>1, <2>1 DEF CallsHaveTheirPage, CallOfItsPage, NamedCall, SpinnersAwait, OneOfASort, ErrorIsOfTheForm
  <2>4. OnTheWay'
    BY <1>1, <1>3, <2>1 DEF OnTheWay
  <2>5. UserIsGenuine'
    BY <1>1, <2>1 DEF UserIsGenuine, WillBeGenuine, Genuine
  <2> QED BY <2>2, <2>3, <2>4, <2>5
<1>4. CASE heading.to # route
  <2> PICK fns : fns = FormCalls \cup {"verify"} \cup InCards
    OBVIOUS
  <2>1. /\ form' = FormAt(heading.to)
        /\ cards' = IF SeesCards(heading.to, shownUser, isLoading) THEN NewCards(shownUser) ELSE NoCards
        /\ requests' = Left(requests, fns)
    BY <1>4 DEF Arrive
  <2>2. requests \subseteq AccountCalls
    BY DEF AccountTypes
  <2>3. /\ requests' = {LeftCall(c, fns) : c \in requests}
        /\ \A c \in requests :
              /\ LeftCall(c, fns) \in AccountCalls
              /\ LeftCall(c, fns).fn = c.fn /\ LeftCall(c, fns).goal = c.goal
              /\ LeftCall(c, fns).name = c.name /\ LeftCall(c, fns).phase = c.phase
              /\ LeftCall(c, fns).here = (c.here /\ c.fn \notin fns)
    <3>1. Left(requests, fns) = {LeftCall(c, fns) : c \in requests}
      BY DEF Left, LeftCall
    <3>2. \A c \in requests :
              /\ LeftCall(c, fns) \in AccountCalls
              /\ LeftCall(c, fns).fn = c.fn /\ LeftCall(c, fns).goal = c.goal
              /\ LeftCall(c, fns).name = c.name /\ LeftCall(c, fns).phase = c.phase
              /\ LeftCall(c, fns).here = (c.here /\ c.fn \notin fns)
      BY <2>2, LeftCalls
    <3> QED BY <2>1, <3>1, <3>2
  <2>4. /\ form' \in Fields \cup {NoFields} /\ form'.on = IF HasForm(route') THEN route' ELSE "none"
        /\ form'.on # "none" => ~form'.isSubmitting /\ ~form'.verifying /\ form'.errorMessage = "none"
    BY <1>1, <2>1, FormsAndCards DEF FormAt, HasForm
  <2>5. /\ cards' \in CardFields \cup {NoCards} /\ (cards'.on <=> SeesCards(route, shownUser, isLoading)')
        /\ cards'.on => ~cards'.saving /\ cards'.reset = "idle"
    BY <1>1, <2>1, FormsAndCards DEF AccountTypes, SeesCards
  <2>6. AccountTypes'
    BY <1>1, <1>2, <2>3, <2>4, <2>5 DEF AccountTypes
  <2>7. CallsHaveTheirPage'
    <3>1. ASSUME NEW c \in requests PROVE CallOfItsPage(LeftCall(c, fns))' /\ NamedCall(LeftCall(c, fns))'
      <4> PICK d : d = LeftCall(c, fns)
        OBVIOUS
      <4>1. /\ d.fn = c.fn /\ d.goal = c.goal /\ d.name = c.name /\ d.phase = c.phase
            /\ d.here => d.fn \notin fns
        BY <2>3
      <4>2. NamedCall(c)
        BY DEF CallsHaveTheirPage
      <4>3. NamedCall(d)'
        BY <4>1, <4>2 DEF NamedCall
      <4>4. CallOfItsPage(d)'
        BY <4>1 DEF CallOfItsPage, SignIns, FormCalls, InCards
      <4> QED BY <4>3, <4>4 DEF LeftCall
    <3> QED BY <2>3, <3>1 DEF CallsHaveTheirPage
  <2>8. SpinnersAwait'
    <3>1. isLoading => \E c \in requests' : c.fn \in {"me", "refresh"}
      <4>1. SUFFICES ASSUME isLoading PROVE \E c \in requests' : c.fn \in {"me", "refresh"}
        OBVIOUS
      <4>2. PICK c \in requests : c.fn \in {"me", "refresh"}
        BY <4>1 DEF SpinnersAwait
      <4>3. LeftCall(c, fns) \in requests' /\ LeftCall(c, fns).fn = c.fn
        BY <2>3
      <4> QED BY <4>2, <4>3
    <3> QED BY <1>1, <2>4, <2>5, <3>1 DEF SpinnersAwait
  <2>9. OneOfASort'
    <3>1. \A F \in {FormCalls, {"verify"}, {"save"}, {"mail"}} : F \subseteq fns
      BY DEF InCards
    <3>2. \A c \in requests' : c.here => c.fn \notin fns
      BY <2>3
    <3> QED BY <3>1, <3>2 DEF OneOfASort
  <2>10. OnTheWay'
    <3>1. CASE heading.to = "login"
      <4>1. ~isLoading /\ shownUser # Nobody /\ ~form'.isSubmitting => heading' = To(heading.next)
        BY <1>4, <3>1 DEF Arrive
      <4>2. To(heading.next) # Nowhere /\ To(heading.next).to \in {"home", "account"}
        BY <1>1, PlacesAreGoals DEF Routes
      <4> QED BY <1>1, <3>1, <4>1, <4>2 DEF OnTheWay
    <3>2. CASE heading.to = "account"
      <4>1. ~isLoading /\ shownUser = Nobody => heading' = LoginFor("account")
        BY <1>4, <3>2 DEF Arrive
      <4> QED BY <1>1, <3>2, <4>1, PlacesAreGoals DEF OnTheWay
    <3> QED BY <1>1, <3>1, <3>2 DEF OnTheWay
  <2>11. UserIsGenuine'
    <3>1. SUFFICES ASSUME ~muddled PROVE UserIsGenuine'
      BY <1>1 DEF UserIsGenuine
    <3>2. ASSUME NEW c \in requests, c.fn \in Identity PROVE WillBeGenuine(LeftCall(c, fns))'
      <4> PICK d : d = LeftCall(c, fns)
        OBVIOUS
      <4>1. d.fn = c.fn /\ d.name = c.name /\ d.phase = c.phase
        BY <2>3
      <4>2. WillBeGenuine(d)'
        BY <1>1, <3>1, <3>2, <4>1 DEF UserIsGenuine, WillBeGenuine, Genuine
      <4> QED BY <4>2 DEF LeftCall
    <3>3. ASSUME NEW c \in requests', NEW d \in requests', c.fn \in Identity, d.fn \in Identity PROVE c = d
      <4>1. PICK a \in requests, b \in requests : c = LeftCall(a, fns) /\ d = LeftCall(b, fns)
        BY <2>3
      <4>2. a.fn \in Identity /\ b.fn \in Identity
        BY <2>3, <3>3, <4>1
      <4>3. a = b
        BY <3>1, <4>2 DEF UserIsGenuine
      <4> QED BY <4>1, <4>3
    <3>4. \A c \in requests' : c.fn \in Identity => WillBeGenuine(c)'
      BY <2>3, <3>2
    <3>5. (\A c \in requests' : c.fn \notin Identity) => shownUser' = Nobody \/ Genuine(shownUser)'
      BY <1>1, <2>3, <3>1 DEF UserIsGenuine, Genuine
    <3> QED BY <3>3, <3>4, <3>5 DEF UserIsGenuine
  <2>12. ErrorIsOfTheForm'
    BY <2>4 DEF ErrorIsOfTheForm
  <2> QED BY <2>6, <2>7, <2>8, <2>9, <2>10, <2>11, <2>12
<1> QED BY <1>3, <1>4

\* The server works on a request, or it fails on its way.
LEMMA Changed ==
    ASSUME AccountIInv, NEW c \in requests, NEW d \in AccountCalls, Becomes(c, d),
           d.fn = c.fn, d.here = c.here, c.fn = "save" => d.name = c.name, NamedCall(d),
           UNCHANGED Tab,
           session' \in BOOLEAN, lapsed' \in BOOLEAN, muddled' \in BOOLEAN, storedName' \in DisplayNames,
           ~muddled' => ~muddled,
           c.fn \notin Identity => UNCHANGED backend,
           c.fn \in Identity /\ ~muddled' /\ WillBeGenuine(c) => WillBeGenuine(d)'
    PROVE  AccountIInv'
<1> USE DEF AccountIInv
<1>1. /\ requests' = (requests \ {c}) \cup {d}
      /\ UNCHANGED <<route, nextPath, heading, shownUser, isLoading, form, cards, requested>>
  BY DEF Becomes, Tab, place, provider
<1>2. AccountTypes'
  BY <1>1 DEF AccountTypes, HasForm, SeesCards
<1>3. CallsHaveTheirPage'
  <2>1. ASSUME NEW e \in requests PROVE CallOfItsPage(e)' /\ NamedCall(e)'
    BY <1>1 DEF CallsHaveTheirPage, CallOfItsPage, NamedCall
  <2>2. CallOfItsPage(c)
    BY DEF CallsHaveTheirPage
  <2>3. CallOfItsPage(d)'
    BY <1>1, <2>2 DEF CallOfItsPage, InCards
  <2>4. NamedCall(d)'
    BY DEF NamedCall
  <2> QED BY <1>1, <2>1, <2>3, <2>4 DEF CallsHaveTheirPage
<1>4. SpinnersAwait'
  <2>1. \A e \in requests : \E f \in requests' : f.fn = e.fn /\ f.here = e.here
    BY <1>1
  <2>2. ASSUME NEW fns, \E e \in requests : e.fn \in fns PROVE \E e \in requests' : e.fn \in fns
    BY <2>1, <2>2
  <2>3. ASSUME NEW fns, \E e \in requests : e.here /\ e.fn \in fns PROVE \E e \in requests' : e.here /\ e.fn \in fns
    BY <2>1, <2>3
  <2>4. isLoading' => \E e \in requests' : e.fn \in {"me", "refresh"}
    BY <1>1, <2>2 DEF SpinnersAwait
  <2>5. form'.on # "none" /\ form'.isSubmitting => \E e \in requests' : e.here /\ e.fn \in FormCalls
    BY <1>1, <2>3 DEF SpinnersAwait
  <2>6. form'.on # "none" /\ form'.verifying => \E e \in requests' : e.here /\ e.fn = "verify"
    BY <1>1, <2>1 DEF SpinnersAwait
  <2>7. cards'.on /\ cards'.saving => \E e \in requests' : e.here /\ e.fn = "save"
    BY <1>1, <2>1 DEF SpinnersAwait
  <2>8. cards'.on /\ cards'.reset = "sending" => \E e \in requests' : e.here /\ e.fn = "mail"
    BY <1>1, <2>1 DEF SpinnersAwait
  <2> QED BY <2>4, <2>5, <2>6, <2>7, <2>8 DEF SpinnersAwait
<1>5. OneOfASort'
  <2>1. SUFFICES ASSUME NEW fns \in {FormCalls, {"verify"}, {"save"}, {"mail"}},
                        NEW e \in requests', NEW f \in requests', e.here, f.here, e.fn \in fns, f.fn \in fns
                 PROVE  e = f
    BY DEF OneOfASort
  <2>2. \A a, b \in requests : a.here /\ b.here /\ a.fn \in fns /\ b.fn \in fns => a = b
    BY <2>1 DEF OneOfASort
  <2>3. e = d => \A a \in requests : a.here /\ a.fn \in fns => a = c
    BY <2>1, <2>2
  <2>4. f = d => \A a \in requests : a.here /\ a.fn \in fns => a = c
    BY <2>1, <2>2
  <2> QED BY <1>1, <2>1, <2>2, <2>3, <2>4
<1>6. OnTheWay' /\ ErrorIsOfTheForm'
  BY <1>1 DEF OnTheWay, ErrorIsOfTheForm
<1>7. UserIsGenuine'
  <2>1. SUFFICES ASSUME ~muddled' PROVE UserIsGenuine'
    BY DEF UserIsGenuine
  <2>2. /\ \A a, b \in requests : a.fn \in Identity /\ b.fn \in Identity => a = b
        /\ \A a \in requests : a.fn \in Identity => WillBeGenuine(a)
        /\ (\A a \in requests : a.fn \notin Identity) => shownUser = Nobody \/ Genuine(shownUser)
    BY <2>1 DEF UserIsGenuine
  <2>3. CASE c.fn \in Identity
    <3>1. \A a \in requests' : a.fn \in Identity => a = d
      BY <1>1, <2>2, <2>3
    <3>2. WillBeGenuine(d)'
      BY <2>1, <2>2, <2>3
    <3>3. d \in requests' /\ d.fn \in Identity
      BY <1>1, <2>3
    <3> QED BY <3>1, <3>2, <3>3 DEF UserIsGenuine
  <2>4. CASE c.fn \notin Identity
    <3>1. UNCHANGED <<session, storedName, lapsed>>
      BY <2>4 DEF backend
    <3>2. \A a \in requests' : a.fn \in Identity => a \in requests /\ WillBeGenuine(a)'
      BY <1>1, <2>2, <2>4, <3>1 DEF WillBeGenuine, Genuine
    <3>3. (\A a \in requests' : a.fn \notin Identity) => shownUser' = Nobody \/ Genuine(shownUser)'
      BY <1>1, <2>2, <2>4, <3>1 DEF Genuine
    <3> QED BY <2>2, <3>2, <3>3 DEF UserIsGenuine
  <2> QED BY <2>3, <2>4
<1> QED BY <1>2, <1>3, <1>4, <1>5, <1>6, <1>7

\* The request that was answered.
Became(c, phase, name) == [c EXCEPT !.phase = phase, !.name = name]

LEMMA ServerInv ==
    ASSUME AccountIInv, NEW c \in requests, ServerAnswers(c) \/ Fail(c)
    PROVE  AccountIInv'
<1> USE DEF AccountIInv
<1>1. c \in AccountCalls /\ NamedCall(c)
  BY DEF AccountTypes, CallsHaveTheirPage
<1>2. /\ storedName \in DisplayNames /\ storedName # Nobody
      /\ session \in BOOLEAN /\ lapsed \in BOOLEAN /\ muddled \in BOOLEAN
  BY AccountAssumption DEF AccountTypes
<1>3. ASSUME NEW phase \in {"sent", "ok", "failed", "refused"}, NEW name \in DisplayNames \cup {Nobody}
      PROVE  /\ Became(c, phase, name) \in AccountCalls
             /\ Became(c, phase, name).fn = c.fn /\ Became(c, phase, name).here = c.here
             /\ Became(c, phase, name).goal = c.goal
             /\ Became(c, phase, name).phase = phase /\ Became(c, phase, name).name = name
  BY <1>1 DEF Became, AccountCalls
<1>4. c.fn \in {"me", "refresh"} => c.fn \notin SignIns \cup {"logout", "save"}
  BY DEF SignIns
<1>5. c.fn \in SignIns => c.fn \notin {"logout", "save"} /\ c.fn \in {"login", "register"}
  BY DEF SignIns
<1>6. CASE ServerAnswers(c)
  <2>1. c.phase = "sent" /\ UNCHANGED <<Tab, muddled>> /\ shownUser' = shownUser
    BY <1>6 DEF ServerAnswers, Tab, provider
  <2>2. CASE AnswerMe(c)
    <3>1. UNCHANGED backend /\ UNCHANGED <<session, storedName, lapsed>> /\ c.fn \in {"me", "refresh"}
      BY <2>2 DEF AnswerMe, backend
    <3>2. PICK phase \in {"ok", "failed"}, name \in DisplayNames \cup {Nobody} :
              /\ AnswerIs(c, phase, name)
              /\ phase = "ok" => session /\ name = storedName
      BY <1>2, <2>2 DEF AnswerMe
    <3> PICK d : d = Became(c, phase, name)
      OBVIOUS
    <3>3. d \in AccountCalls /\ d.fn = c.fn /\ d.here = c.here /\ d.phase = phase /\ d.name = name
      BY <1>3
    <3>6. Becomes(c, d)
      BY <3>2 DEF AnswerIs, Became
    <3>4. NamedCall(d)
      BY <1>2, <1>4, <3>1, <3>2, <3>3 DEF NamedCall
    <3>5. WillBeGenuine(d)'
      BY <1>4, <3>1, <3>2, <3>3 DEF WillBeGenuine, Genuine
    <3> QED BY <1>2, <1>4, <2>1, <3>1, <3>3, <3>4, <3>5, <3>6, Changed
  <2>3. CASE AnswerLogin(c)
    <3>1. session' = TRUE /\ lapsed' = FALSE /\ c.fn \in SignIns /\ c.fn \in Identity
      BY <2>3 DEF AnswerLogin, SignIns, Identity
    <3>2. storedName' \in DisplayNames
      BY <1>1, <1>2, <2>3, <3>1 DEF AnswerLogin, NamedCall, AccountCalls
    <3> PICK name \in DisplayNames : name = storedName'
      BY <3>2
    <3> PICK d : d = Became(c, "ok", name)
      OBVIOUS
    <3>3. /\ d \in AccountCalls /\ d.fn = c.fn /\ d.here = c.here /\ d.goal = c.goal
          /\ d.phase = "ok" /\ d.name = name
      BY <1>3
    <3>4. Becomes(c, d)
      BY <2>3 DEF AnswerLogin, AnswerIs, Became
    <3>5. NamedCall(d) /\ name # Nobody
      BY <1>1, <1>5, <3>1, <3>3, AccountAssumption DEF NamedCall
    <3>6. WillBeGenuine(c) => WillBeGenuine(d)'
      BY <1>5, <2>1, <3>1, <3>3 DEF WillBeGenuine, Genuine
    <3> QED BY <1>2, <1>5, <2>1, <3>1, <3>2, <3>3, <3>4, <3>5, <3>6, Changed
  <2>4. CASE AnswerLogout(c)
    <3>1. c.fn = "logout" /\ c.fn \in Identity /\ c.fn \notin SignIns /\ session' = FALSE
          /\ UNCHANGED <<storedName, lapsed>>
      BY <2>4 DEF AnswerLogout, SignIns, Identity
    <3> PICK d : d = Became(c, "ok", Nobody)
      OBVIOUS
    <3>2. /\ d \in AccountCalls /\ d.fn = c.fn /\ d.here = c.here /\ d.goal = c.goal
          /\ d.phase = "ok" /\ d.name = Nobody
      BY <1>3
    <3>3. Becomes(c, d)
      BY <2>4 DEF AnswerLogout, AnswerIs, Became
    <3>4. NamedCall(d)
      BY <1>1, <3>1, <3>2 DEF NamedCall
    <3>5. WillBeGenuine(c) => WillBeGenuine(d)'
      BY <2>1, <3>1, <3>2 DEF WillBeGenuine
    <3> QED BY <1>2, <2>1, <3>1, <3>2, <3>3, <3>4, <3>5, Changed
  <2>5. CASE AnswerSave(c)
    <3>1. c.fn = "save" /\ c.fn \in Identity /\ c.fn \notin SignIns /\ UNCHANGED <<session, lapsed>>
      BY <2>5 DEF AnswerSave, SignIns, Identity
    <3>2. c.name \in DisplayNames
      BY <1>1, <3>1 DEF NamedCall, AccountCalls
    <3>3. PICK phase \in {"ok", "refused"} : AnswerIs(c, phase, c.name)
      BY <2>5 DEF AnswerSave
    <3>4. storedName' \in DisplayNames
      BY <1>2, <2>5, <3>2 DEF AnswerSave
    <3> PICK d : d = Became(c, phase, c.name)
      OBVIOUS
    <3>5. /\ d \in AccountCalls /\ d.fn = c.fn /\ d.here = c.here /\ d.goal = c.goal
          /\ d.phase = phase /\ d.name = c.name
      BY <1>3, <3>2
    <3>6. Becomes(c, d)
      BY <3>3 DEF AnswerIs, Became
    <3>7. NamedCall(d)
      BY <1>1, <3>1, <3>5 DEF NamedCall
    <3>8. WillBeGenuine(d)'
      BY <3>1, <3>5 DEF WillBeGenuine
    <3> QED BY <1>2, <2>1, <3>1, <3>4, <3>5, <3>6, <3>7, <3>8, Changed
  <2>6. CASE AnswerOther(c)
    <3>1. c.fn \in {"forgot", "mail", "verify", "reset"} /\ c.fn \notin Identity /\ c.fn \notin SignIns
          /\ UNCHANGED backend /\ UNCHANGED <<session, storedName, lapsed>>
      BY <2>6 DEF AnswerOther, SignIns, Identity, backend
    <3> PICK d : d = Became(c, "ok", Nobody)
      OBVIOUS
    <3>2. /\ d \in AccountCalls /\ d.fn = c.fn /\ d.here = c.here /\ d.goal = c.goal
          /\ d.phase = "ok" /\ d.name = Nobody
      BY <1>3
    <3>3. Becomes(c, d)
      BY <2>6 DEF AnswerOther, AnswerIs, Became
    <3>4. NamedCall(d)
      BY <3>1, <3>2 DEF NamedCall
    <3> QED BY <1>2, <2>1, <3>1, <3>2, <3>3, <3>4, Changed
  <2> QED BY <1>6, <2>2, <2>3, <2>4, <2>5, <2>6 DEF ServerAnswers
<1>7. CASE Fail(c)
  <2>1. /\ c.phase \in {"sent", "ok"} /\ UNCHANGED Tab /\ UNCHANGED <<shownUser, session, storedName>>
        /\ lapsed' = (lapsed \/ (c.phase = "ok" /\ c.fn = "logout"))
        /\ muddled' = (muddled \/ (c.phase = "ok" /\ c.fn = "save"))
    BY <1>7 DEF Fail, Tab, provider
  <2> PICK d : d = [c EXCEPT !.phase = "failed"]
    OBVIOUS
  <2>2. /\ d \in AccountCalls /\ d.fn = c.fn /\ d.here = c.here /\ d.goal = c.goal
        /\ d.phase = "failed" /\ d.name = c.name
    BY <1>1 DEF AccountCalls
  <2>3. Becomes(c, d)
    BY <1>7 DEF Fail
  <2>4. NamedCall(d)
    BY <1>1, <2>2 DEF NamedCall
  <2>5. ~muddled' /\ WillBeGenuine(c) => WillBeGenuine(d)'
    <3>1. SUFFICES ASSUME ~muddled', WillBeGenuine(c) PROVE WillBeGenuine(d)'
      OBVIOUS
    <3>2. CASE c.fn = "logout"
      <4>1. shownUser' \in {Nobody, storedName'} /\ (shownUser' = Nobody \/ Genuine(shownUser)')
        BY <2>1, <3>1, <3>2 DEF WillBeGenuine, Genuine
      <4> QED BY <2>2, <3>2, <4>1 DEF WillBeGenuine, SignIns
    <3>3. CASE c.fn = "save"
      <4>1. shownUser' = Nobody \/ Genuine(shownUser)'
        BY <2>1, <3>1, <3>3 DEF WillBeGenuine, Genuine
      <4> QED BY <2>2, <3>3, <4>1 DEF WillBeGenuine, SignIns
    <3>4. CASE c.fn \notin {"logout", "save"}
      BY <2>1, <2>2, <3>1, <3>4 DEF WillBeGenuine
    <3> QED BY <3>2, <3>3, <3>4
  <2>6. c.fn \notin Identity => UNCHANGED backend
    BY <1>2, <2>1 DEF Identity, backend
  <2> QED BY <1>2, <2>1, <2>2, <2>3, <2>4, <2>5, <2>6, Changed
<1> QED BY <1>6, <1>7

\* What an answer about the user renders, and where the visitor is sent by it.
LEMMA Rendered ==
    ASSUME AccountIInv, NEW u \in DisplayNames \cup {Nobody}, NEW busy \in BOOLEAN,
           NEW goal \in Goals \cup {Nowhere}, UNCHANGED <<route, nextPath>>,
           form' \in Fields \cup {NoFields}, form'.on = form.on,
           route = "login" => RenderLogin(u, busy, goal, form'.isSubmitting),
           route # "login" => Render(u, busy, goal),
           \/ goal = heading
           \/ goal \in Goals /\ (u # Nobody => goal.to # "login") /\ (u = Nobody => goal.to # "account")
    PROVE  /\ shownUser' = u /\ isLoading' = busy
           /\ heading' \in Goals \cup {Nowhere} /\ OnTheWay'
           /\ cards' \in CardFields \cup {NoCards} /\ (cards'.on <=> SeesCards(route, u, busy))
           /\ cards.on /\ cards'.on =>
                 /\ cards'.saving = cards.saving /\ cards'.reset = cards.reset
                 /\ cards.editing => cards' = cards
           /\ ~cards.on /\ cards'.on => ~cards'.saving /\ cards'.reset = "idle"
<1> USE DEF AccountIInv
<1>1. shownUser' = u /\ isLoading' = busy
  BY DEF Render, RenderLogin
<1>2. nextPath \in {"home", "account"} /\ To(nextPath) \in Goals /\ To(nextPath).to = nextPath
      /\ LoginFor("account") \in Goals /\ LoginFor("account").to = "login"
  BY PlacesAreGoals DEF AccountTypes, Routes
<1>3. \A g \in Goals : g # Nowhere
  BY PlacesAreGoals
<1>4. heading' \in Goals \cup {Nowhere}
  <2>1. heading' \in {To(nextPath), LoginFor("account"), goal}
    BY DEF Render, RenderLogin
  <2> QED BY <1>2, <2>1
<1>5. OnTheWay'
  <2>1. CASE route = "login"
    <3>1. SUFFICES ASSUME ~busy, u # Nobody, ~form'.isSubmitting
                   PROVE  heading' # Nowhere /\ heading'.to # "login"
      BY <1>1, <2>1 DEF OnTheWay
    <3>2. form \in Fields /\ form' \in Fields
      BY <2>1, FormsAndCards DEF AccountTypes, HasForm
    <3>3. form.isSubmitting \in BOOLEAN /\ form'.isSubmitting \in BOOLEAN /\ isLoading \in BOOLEAN
      BY <3>2 DEF Fields, AccountTypes
    <3>4. CASE isLoading \/ shownUser = Nobody \/ form.isSubmitting
      <4>1. <<u # Nobody, busy, form'.isSubmitting>> # <<shownUser # Nobody, isLoading, form.isSubmitting>>
        BY <3>1, <3>3, <3>4
      <4>2. heading' = To(nextPath)
        BY <2>1, <3>1, <4>1 DEF RenderLogin
      <4> QED BY <1>2, <1>3, <4>2
    <3>5. CASE ~isLoading /\ shownUser # Nobody /\ ~form.isSubmitting
      <4>1. heading # Nowhere /\ heading.to # "login"
        BY <2>1, <3>5 DEF OnTheWay
      <4>2. heading' \in {goal, To(nextPath)}
        BY <2>1 DEF RenderLogin
      <4> QED BY <1>2, <1>3, <3>1, <4>1, <4>2
    <3> QED BY <3>4, <3>5
  <2>2. CASE route = "account"
    <3>1. SUFFICES ASSUME ~busy, u = Nobody
                   PROVE  heading' # Nowhere /\ heading'.to # "account"
      BY <1>1, <2>2 DEF OnTheWay
    <3>2. isLoading \in BOOLEAN
      BY DEF AccountTypes
    <3>3. CASE isLoading \/ shownUser # Nobody
      <4>1. <<u # Nobody, busy>> # <<shownUser # Nobody, isLoading>>
        BY <3>1, <3>2, <3>3
      <4>2. heading' = LoginFor("account")
        BY <2>2, <3>1, <4>1 DEF Render
      <4> QED BY <1>2, <1>3, <4>2
    <3>4. CASE ~isLoading /\ shownUser = Nobody
      <4>1. heading # Nowhere /\ heading.to # "account"
        BY <2>2, <3>4 DEF OnTheWay
      <4>2. heading' \in {goal, LoginFor("account")}
        BY <2>2 DEF Render
      <4> QED BY <1>2, <1>3, <3>1, <4>1, <4>2
    <3> QED BY <3>3, <3>4
  <2>3. CASE route \notin {"login", "account"}
    BY <2>3 DEF OnTheWay
  <2> QED BY <2>1, <2>2, <2>3
<1>6. cards' = CardsFor(route, u, busy)
  <2>1. CASE route = "login"
    BY <2>1 DEF RenderLogin, CardsFor, SeesCards
  <2> QED BY <2>1 DEF Render
<1>7. CASE ~SeesCards(route, u, busy)
  <2>1. cards' = NoCards
    BY <1>6, <1>7 DEF CardsFor
  <2> QED BY <1>1, <1>4, <1>5, <1>7, <2>1, FormsAndCards
<1>8. CASE SeesCards(route, u, busy) /\ ~cards.on
  <2>1. cards' = NewCards(u) /\ u \in DisplayNames
    BY <1>6, <1>8 DEF CardsFor, SeesCards
  <2> QED BY <1>1, <1>4, <1>5, <1>8, <2>1, FormsAndCards
<1>9. CASE SeesCards(route, u, busy) /\ cards.on
  <2>1. u \in DisplayNames /\ cards \in CardFields
    BY <1>9, FormsAndCards DEF SeesCards, AccountTypes
  <2>2. cards' = IF cards.editing THEN cards ELSE [cards EXCEPT !.draft = u]
    BY <1>6, <1>9 DEF CardsFor
  <2>3. cards' \in CardFields /\ cards'.saving = cards.saving /\ cards'.reset = cards.reset
        /\ (cards.editing => cards' = cards)
    BY <2>1, <2>2 DEF CardFields
  <2> QED BY <1>1, <1>4, <1>5, <1>9, <2>3, FormsAndCards
<1> QED BY <1>7, <1>8, <1>9

\* An answer is received: its request is gone, and those of cards that are gone
\* are awaited no longer.
LEMMA Remaining ==
    ASSUME AccountIInv, NEW c \in requests,
           requests' \in {requests \ {c}, Left(requests \ {c}, InCards)}
    PROVE  /\ requests' \subseteq AccountCalls
           /\ \A e \in requests' : e.here => e \in requests \ {c}
           /\ \A e \in requests \ {c} : e.fn \notin InCards => e \in requests'
           /\ \A e \in requests' : \E a \in requests \ {c} :
                 e.fn = a.fn /\ e.goal = a.goal /\ e.name = a.name /\ e.phase = a.phase
           /\ \A e \in requests \ {c} : \E a \in requests' : e.fn = a.fn
           /\ requests' = Left(requests \ {c}, InCards) => \A e \in requests' : e.here => e.fn \notin InCards
<1> DEFINE S == requests \ {c}
<1>1. requests \subseteq AccountCalls /\ S \subseteq AccountCalls
  BY DEF AccountIInv, AccountTypes
<1>2. CASE requests' = S /\ requests' # Left(S, InCards)
  BY <1>1, <1>2
<1>3. CASE requests' = Left(S, InCards)
  <2>1. requests' = {LeftCall(e, InCards) : e \in S}
    BY <1>3 DEF Left, LeftCall
  <2>2. \A e \in S :
            /\ LeftCall(e, InCards) \in AccountCalls
            /\ LeftCall(e, InCards).fn = e.fn /\ LeftCall(e, InCards).goal = e.goal
            /\ LeftCall(e, InCards).name = e.name /\ LeftCall(e, InCards).phase = e.phase
            /\ LeftCall(e, InCards).here = (e.here /\ e.fn \notin InCards)
            /\ e.fn \notin InCards => LeftCall(e, InCards) = e
            /\ LeftCall(e, InCards).here => LeftCall(e, InCards) = e
    BY <1>1, LeftCalls
  <2> HIDE DEF S
  <2>3. requests' \subseteq AccountCalls
    BY <2>1, <2>2
  <2>4. \A e \in requests' : e.here => e \in S /\ e.fn \notin InCards
    BY <2>1, <2>2
  <2>5. \A e \in S : e.fn \notin InCards => e \in requests'
    BY <2>1, <2>2
  <2>6. ASSUME NEW e \in requests'
        PROVE  \E a \in S : e.fn = a.fn /\ e.goal = a.goal /\ e.name = a.name /\ e.phase = a.phase
    <3>1. PICK a \in S : e = LeftCall(a, InCards)
      BY <2>1
    <3> QED BY <2>2, <3>1
  <2>7. ASSUME NEW e \in S PROVE \E a \in requests' : e.fn = a.fn
    <3>1. LeftCall(e, InCards) \in requests' /\ LeftCall(e, InCards).fn = e.fn
      BY <2>1, <2>2
    <3> QED BY <3>1
  <2> QED BY <2>3, <2>4, <2>5, <2>6, <2>7 DEF S
<1> QED BY <1>2, <1>3

LEMMA Received ==
    ASSUME AccountIInv, NEW c \in requests,
           requests' \in {requests \ {c}, Left(requests \ {c}, InCards)},
           form' \in Fields \cup {NoFields}, form'.on = form.on,
           form.on # "none" =>
              /\ form'.mode = form.mode /\ form'.switched = form.switched
              /\ form'.isSubmitting <=> form.isSubmitting /\ ~(c.here /\ c.fn \in FormCalls)
              /\ form'.verifying <=> form.verifying /\ ~(c.here /\ c.fn = "verify"),
           cards' \in CardFields \cup {NoCards},
           cards.on /\ ~cards'.on => requests' = Left(requests \ {c}, InCards),
           cards'.on => requests' = requests \ {c},
           cards.on /\ cards'.on =>
              /\ cards'.saving <=> cards.saving /\ ~(c.here /\ c.fn = "save")
              /\ cards'.saving /\ cards.editing => cards'.editing /\ cards'.draft = cards.draft
              /\ cards'.reset = "sending" <=> cards.reset = "sending" /\ ~(c.here /\ c.fn = "mail"),
           ~cards.on /\ cards'.on => ~cards'.saving /\ cards'.reset # "sending",
           isLoading' => isLoading /\ c.fn \notin {"me", "refresh"}
    PROVE  CallsHaveTheirPage' /\ SpinnersAwait' /\ OneOfASort'
<1> USE DEF AccountIInv
<1>0. /\ "save" \in InCards /\ "mail" \in InCards /\ FormCalls \cap InCards = {}
      /\ "verify" \notin InCards \cup FormCalls /\ SignIns \subseteq FormCalls
      /\ "forgot" \in FormCalls /\ "reset" \in FormCalls /\ InCards = {"save", "mail"}
      /\ "me" \notin InCards /\ "refresh" \notin InCards
  BY DEF FormCalls, InCards, SignIns
<1>1. /\ \A e \in requests' : e.here => e \in requests \ {c}
      /\ \A e \in requests \ {c} : e.fn \notin InCards => e \in requests'
      /\ \A e \in requests' : \E a \in requests \ {c} :
            e.fn = a.fn /\ e.goal = a.goal /\ e.name = a.name /\ e.phase = a.phase
      /\ requests' = Left(requests \ {c}, InCards) => \A e \in requests' : e.here => e.fn \notin InCards
  BY Remaining
<1>2. \A fns \in {FormCalls, {"verify"}, {"save"}, {"mail"}} : \A a, b \in requests :
          a.here /\ b.here /\ a.fn \in fns /\ b.fn \in fns => a = b
  BY DEF OneOfASort
<1>3. \A a, b \in requests : a.here /\ b.here =>
          /\ a.fn \in FormCalls /\ b.fn \in FormCalls => a = b
          /\ a.fn = "verify" /\ b.fn = "verify" => a = b
          /\ a.fn = "save" /\ b.fn = "save" => a = b
          /\ a.fn = "mail" /\ b.fn = "mail" => a = b
  BY <1>2
<1>4. ASSUME NEW e \in requests' PROVE CallOfItsPage(e)' /\ NamedCall(e)'
  <2>1. NamedCall(e)'
    <3>1. PICK a \in requests : e.fn = a.fn /\ e.goal = a.goal /\ e.name = a.name /\ e.phase = a.phase
      BY <1>1
    <3>2. NamedCall(a)
      BY DEF CallsHaveTheirPage
    <3> QED BY <3>1, <3>2 DEF NamedCall
  <2>2. CASE ~e.here
    BY <2>1, <2>2 DEF CallOfItsPage
  <2>3. CASE e.here
    <3>1. e \in requests /\ e # c /\ CallOfItsPage(e)
      BY <1>1, <2>3 DEF CallsHaveTheirPage
    <3>2. e.fn \in FormCalls \cup {"verify"} => form.on # "none"
      BY <2>3, <3>1 DEF CallOfItsPage, FormCalls, SignIns
    <3>3. /\ e.fn \in FormCalls => ~(c.here /\ c.fn \in FormCalls)
          /\ e.fn = "verify" => ~(c.here /\ c.fn = "verify")
          /\ e.fn = "save" => ~(c.here /\ c.fn = "save")
          /\ e.fn = "mail" => ~(c.here /\ c.fn = "mail")
      BY <1>3, <2>3, <3>1
    <3>4. /\ e.fn \in SignIns => form'.on = "login" /\ (form'.switched \/ e.fn = form'.mode)
          /\ e.fn = "forgot" => form'.on = "forgot"
          /\ e.fn \in {"reset", "verify"} => form'.on = "reset"
          /\ e.fn \in FormCalls => form'.isSubmitting
          /\ e.fn = "verify" => form'.verifying
      BY <1>0, <2>3, <3>1, <3>2, <3>3 DEF CallOfItsPage
    <3>5. e.fn \in InCards => cards.on /\ cards'.on
      <4>1. SUFFICES ASSUME e.fn \in InCards PROVE cards.on /\ cards'.on
        OBVIOUS
      <4>2. cards.on
        BY <2>3, <3>1, <4>1 DEF CallOfItsPage
      <4>3. requests' # Left(requests \ {c}, InCards)
        BY <1>1, <2>3, <4>1
      <4> QED BY <4>2, <4>3
    <3>6. /\ e.fn = "save" => cards'.saving /\ cards'.editing /\ cards'.draft = e.name
          /\ e.fn = "mail" => cards'.reset = "sending"
      BY <1>0, <2>3, <3>1, <3>3, <3>5 DEF CallOfItsPage
    <3>7. e.fn \in InCards => cards'.on
      BY <3>5
    <3> QED BY <2>1, <3>4, <3>6, <3>7 DEF CallOfItsPage
  <2> QED BY <2>2, <2>3
<1>5. SpinnersAwait'
  <2>1. isLoading' => \E e \in requests' : e.fn \in {"me", "refresh"}
    <3>1. SUFFICES ASSUME isLoading' PROVE \E e \in requests' : e.fn \in {"me", "refresh"}
      OBVIOUS
    <3>2. PICK e \in requests : e.fn \in {"me", "refresh"}
      BY <3>1 DEF SpinnersAwait
    <3>3. e # c /\ e.fn \notin InCards
      BY <1>0, <3>1, <3>2
    <3> QED BY <1>1, <3>2, <3>3
  <2>2. form'.on # "none" /\ form'.isSubmitting => \E e \in requests' : e.here /\ e.fn \in FormCalls
    <3>1. SUFFICES ASSUME form'.on # "none", form'.isSubmitting
                   PROVE  \E e \in requests' : e.here /\ e.fn \in FormCalls
      OBVIOUS
    <3>2. form.on # "none" /\ form.isSubmitting /\ ~(c.here /\ c.fn \in FormCalls)
      BY <3>1
    <3>3. PICK e \in requests : e.here /\ e.fn \in FormCalls
      BY <3>2 DEF SpinnersAwait
    <3>4. e # c /\ e.fn \notin InCards
      BY <1>0, <3>2, <3>3
    <3> QED BY <1>1, <3>3, <3>4
  <2>3. form'.on # "none" /\ form'.verifying => \E e \in requests' : e.here /\ e.fn = "verify"
    <3>1. SUFFICES ASSUME form'.on # "none", form'.verifying
                   PROVE  \E e \in requests' : e.here /\ e.fn = "verify"
      OBVIOUS
    <3>2. form.on # "none" /\ form.verifying /\ ~(c.here /\ c.fn = "verify")
      BY <3>1
    <3>3. PICK e \in requests : e.here /\ e.fn = "verify"
      BY <3>2 DEF SpinnersAwait
    <3>4. e # c /\ e.fn \notin InCards
      BY <1>0, <3>2, <3>3
    <3> QED BY <1>1, <3>3, <3>4
  <2>4. cards'.on /\ cards'.saving => \E e \in requests' : e.here /\ e.fn = "save"
    <3>1. SUFFICES ASSUME cards'.on, cards'.saving PROVE \E e \in requests' : e.here /\ e.fn = "save"
      OBVIOUS
    <3>2. cards.on /\ cards.saving /\ ~(c.here /\ c.fn = "save") /\ requests' = requests \ {c}
      BY <3>1
    <3>3. PICK e \in requests : e.here /\ e.fn = "save"
      BY <3>2 DEF SpinnersAwait
    <3> QED BY <3>2, <3>3
  <2>5. cards'.on /\ cards'.reset = "sending" => \E e \in requests' : e.here /\ e.fn = "mail"
    <3>1. SUFFICES ASSUME cards'.on, cards'.reset = "sending" PROVE \E e \in requests' : e.here /\ e.fn = "mail"
      OBVIOUS
    <3>2. cards.on /\ cards.reset = "sending" /\ ~(c.here /\ c.fn = "mail") /\ requests' = requests \ {c}
      BY <3>1
    <3>3. PICK e \in requests : e.here /\ e.fn = "mail"
      BY <3>2 DEF SpinnersAwait
    <3> QED BY <3>2, <3>3
  <2> QED BY <2>1, <2>2, <2>3, <2>4, <2>5 DEF SpinnersAwait
<1>6. OneOfASort'
  <2>1. \A a, b \in requests' : a.here /\ b.here => a \in requests /\ b \in requests
    BY <1>1
  <2> QED BY <1>2, <2>1 DEF OneOfASort
<1> QED BY <1>4, <1>5, <1>6 DEF CallsHaveTheirPage

LEMMA ReceivedGenuine ==
    ASSUME AccountIInv, NEW c \in requests,
           requests' \in {requests \ {c}, Left(requests \ {c}, InCards)},
           UNCHANGED muddled, UNCHANGED backend,
           c.fn \notin Identity => UNCHANGED shownUser,
           c.fn \in Identity /\ ~muddled /\ WillBeGenuine(c) => shownUser' = Nobody \/ Genuine(shownUser')
    PROVE  UserIsGenuine'
<1> USE DEF AccountIInv
<1>1. UNCHANGED <<session, storedName, lapsed>>
  BY DEF backend
<1>2. SUFFICES ASSUME ~muddled PROVE UserIsGenuine'
  BY DEF UserIsGenuine
<1>3. /\ \A a, b \in requests : a.fn \in Identity /\ b.fn \in Identity => a = b
      /\ \A a \in requests : a.fn \in Identity => WillBeGenuine(a)
      /\ (\A a \in requests : a.fn \notin Identity) => shownUser = Nobody \/ Genuine(shownUser)
  BY <1>2 DEF UserIsGenuine
<1>4. /\ \A e \in requests' : \E a \in requests \ {c} :
            e.fn = a.fn /\ e.goal = a.goal /\ e.name = a.name /\ e.phase = a.phase
      /\ \A e \in requests \ {c} : \E a \in requests' : e.fn = a.fn
  BY Remaining
<1>5. CASE c.fn \in Identity
  <2>1. \A e \in requests' : e.fn \notin Identity
    BY <1>3, <1>4, <1>5
  <2>2. shownUser' = Nobody \/ Genuine(shownUser)'
    BY <1>1, <1>2, <1>3, <1>5 DEF Genuine
  <2> QED BY <2>1, <2>2 DEF UserIsGenuine
<1>6. CASE c.fn \notin Identity
  <2>1. ASSUME NEW e \in requests', e.fn \in Identity PROVE WillBeGenuine(e)'
    <3>1. PICK a \in requests : e.fn = a.fn /\ e.name = a.name /\ e.phase = a.phase
      BY <1>4
    <3>2. WillBeGenuine(a)
      BY <1>3, <2>1, <3>1
    <3> QED BY <1>1, <1>6, <3>1, <3>2 DEF WillBeGenuine, Genuine
  <2>2. (\A e \in requests' : e.fn \notin Identity) => shownUser' = Nobody \/ Genuine(shownUser)'
    BY <1>1, <1>3, <1>4, <1>6 DEF Genuine
  <2>3. ASSUME NEW e \in requests', NEW f \in requests', e.fn \in Identity, f.fn \in Identity PROVE e = f
    <3>1. CASE requests' = requests \ {c}
      BY <1>3, <2>3, <3>1
    <3>2. CASE requests' = Left(requests \ {c}, InCards)
      <4>1. PICK a \in requests, b \in requests : e = LeftCall(a, InCards) /\ f = LeftCall(b, InCards)
        BY <3>2 DEF Left, LeftCall
      <4>2. LeftCall(a, InCards).fn = a.fn /\ LeftCall(b, InCards).fn = b.fn
        BY LeftCalls DEF AccountTypes
      <4>3. a = b
        BY <1>3, <2>3, <4>1, <4>2
      <4> QED BY <4>1, <4>3
    <3> QED BY <3>1, <3>2
  <2> QED BY <2>1, <2>2, <2>3 DEF UserIsGenuine
<1> QED BY <1>5, <1>6

LEMMA ReceiveUserInv ==
    ASSUME AccountIInv, NEW c \in requests, ReceiveMe(c) \/ ReceiveLogout(c)
    PROVE  AccountIInv'
<1> USE DEF AccountIInv
<1>1. c \in AccountCalls /\ NamedCall(c) /\ isLoading \in BOOLEAN /\ shownUser \in DisplayNames \cup {Nobody}
      /\ heading \in Goals \cup {Nowhere} /\ form \in Fields \cup {NoFields} /\ cards \in CardFields \cup {NoCards}
      /\ (cards.on <=> SeesCards(route, shownUser, isLoading))
  BY DEF AccountTypes, CallsHaveTheirPage
<1>2. /\ UNCHANGED <<route, nextPath, form, requested, backend, muddled>>
      /\ UNCHANGED <<session, storedName, lapsed>>
      /\ requests' = IF cards.on /\ ~cards'.on THEN Left(requests \ {c}, InCards) ELSE requests \ {c}
      /\ c.fn \in {"me", "refresh", "logout"} /\ c.fn \in Identity
      /\ c.fn \notin FormCalls \cup InCards \cup SignIns \cup {"verify"}
  BY DEF ReceiveMe, ReceiveLogout, backend, Identity, FormCalls, InCards, SignIns
<1>3. /\ shownUser' \in DisplayNames \cup {Nobody} /\ isLoading' \in BOOLEAN
      /\ heading' \in Goals \cup {Nowhere} /\ OnTheWay'
      /\ cards' \in CardFields \cup {NoCards} /\ (cards'.on <=> SeesCards(route, shownUser', isLoading'))
      /\ cards.on /\ cards'.on =>
            /\ cards'.saving = cards.saving /\ cards'.reset = cards.reset
            /\ cards.editing => cards' = cards
      /\ ~cards.on /\ cards'.on => ~cards'.saving /\ cards'.reset = "idle"
      /\ isLoading' => isLoading /\ c.fn \notin {"me", "refresh"}
      /\ ~muddled /\ WillBeGenuine(c) => shownUser' = Nobody \/ Genuine(shownUser')
  <2>1. ASSUME NEW u \in DisplayNames \cup {Nobody}, NEW busy \in BOOLEAN, NEW goal \in Goals \cup {Nowhere},
               Renders(u, busy, goal), goal = heading \/ (goal \in Goals /\ u = Nobody /\ goal.to # "account")
        PROVE  /\ shownUser' = u /\ isLoading' = busy
               /\ heading' \in Goals \cup {Nowhere} /\ OnTheWay'
               /\ cards' \in CardFields \cup {NoCards} /\ (cards'.on <=> SeesCards(route, u, busy))
               /\ cards.on /\ cards'.on =>
                     /\ cards'.saving = cards.saving /\ cards'.reset = cards.reset
                     /\ cards.editing => cards' = cards
               /\ ~cards.on /\ cards'.on => ~cards'.saving /\ cards'.reset = "idle"
    <3>1. /\ route = "login" => RenderLogin(u, busy, goal, form'.isSubmitting)
          /\ route # "login" => Render(u, busy, goal)
      BY <1>2, <2>1 DEF Renders
    <3>2. \/ goal = heading
          \/ goal \in Goals /\ (u # Nobody => goal.to # "login") /\ (u = Nobody => goal.to # "account")
      BY <2>1
    <3>3. UNCHANGED <<route, nextPath>> /\ form' \in Fields \cup {NoFields} /\ form'.on = form.on
      BY <1>1, <1>2
    <3> QED BY <3>1, <3>2, <3>3, Rendered
  <2>2. CASE ReceiveMe(c)
    <3> PICK u : u = IF c.phase = "ok" THEN c.name ELSE Nobody
      OBVIOUS
    <3>1. u \in DisplayNames \cup {Nobody} /\ Renders(u, FALSE, heading) /\ c.fn \in {"me", "refresh"}
      BY <1>1, <2>2 DEF ReceiveMe, AccountCalls
    <3>2. WillBeGenuine(c) => u = Nobody \/ Genuine(u)
      BY <3>1 DEF WillBeGenuine
    <3> QED BY <1>1, <2>1, <3>1, <3>2
  <2>3. CASE ReceiveLogout(c) /\ c.phase = "ok"
    <3>1. Renders(Nobody, isLoading, c.goal) /\ c.fn = "logout"
      BY <2>3 DEF ReceiveLogout
    <3>2. c.goal \in Goals /\ c.goal.to # "account"
      BY <1>1, <3>1, PlacesAreGoals DEF NamedCall, Routes
    <3>3. c.fn \notin {"me", "refresh"}
      BY <3>1
    <3> QED BY <1>1, <2>1, <3>1, <3>2, <3>3
  <2>4. CASE ReceiveLogout(c) /\ c.phase # "ok"
    <3>1. UNCHANGED <<heading, shownUser, isLoading, cards>> /\ c.fn = "logout" /\ c.phase # "ok"
      BY <2>4 DEF ReceiveLogout, provider
    <3>2. OnTheWay'
      BY <1>2, <3>1 DEF OnTheWay
    <3>3. WillBeGenuine(c) => shownUser' = Nobody \/ Genuine(shownUser')
      BY <3>1 DEF WillBeGenuine
    <3>4. /\ heading' \in Goals \cup {Nowhere} /\ cards' \in CardFields \cup {NoCards}
          /\ shownUser' \in DisplayNames \cup {Nobody} /\ isLoading' \in BOOLEAN
          /\ (cards'.on <=> SeesCards(route, shownUser', isLoading'))
      BY <1>1, <3>1
    <3> QED BY <3>1, <3>2, <3>3, <3>4
  <2> QED BY <2>2, <2>3, <2>4
<1>4. requests' \in {requests \ {c}, Left(requests \ {c}, InCards)}
  BY <1>2
<1>5. requests' \subseteq AccountCalls
  BY <1>4, Remaining
<1>6. AccountTypes'
  BY <1>2, <1>3, <1>5 DEF AccountTypes
<1>7. CallsHaveTheirPage' /\ SpinnersAwait' /\ OneOfASort'
  BY <1>1, <1>2, <1>3, <1>4, Received
<1>8. UserIsGenuine'
  BY <1>2, <1>3, <1>4, ReceivedGenuine
<1>9. ErrorIsOfTheForm'
  BY <1>2 DEF ErrorIsOfTheForm
<1> QED BY <1>3, <1>6, <1>7, <1>8, <1>9

LEMMA ReceiveLoginInv ==
    ASSUME AccountIInv, NEW c \in requests, ReceiveLogin(c)
    PROVE  AccountIInv'
<1> USE DEF AccountIInv
<1>1. c \in AccountCalls /\ NamedCall(c) /\ isLoading \in BOOLEAN /\ shownUser \in DisplayNames \cup {Nobody}
      /\ heading \in Goals \cup {Nowhere} /\ form \in Fields \cup {NoFields} /\ cards \in CardFields \cup {NoCards}
      /\ (cards.on <=> SeesCards(route, shownUser, isLoading)) /\ CallOfItsPage(c)
  BY DEF AccountTypes, CallsHaveTheirPage
<1>2. /\ UNCHANGED <<route, nextPath, requested, backend, muddled>>
      /\ UNCHANGED <<session, storedName, lapsed>>
      /\ requests' = requests \ {c}
      /\ c.fn \in SignIns /\ c.fn \in Identity /\ c.fn \in FormCalls
      /\ c.fn \notin InCards \cup {"verify", "me", "refresh"}
  BY DEF ReceiveLogin, backend, Identity, FormCalls, InCards, SignIns
<1> PICK u, goal : /\ u = IF c.phase = "ok" THEN c.name ELSE shownUser
                   /\ goal = IF c.phase = "ok" THEN c.goal ELSE heading
  OBVIOUS
<1>3. /\ u \in DisplayNames \cup {Nobody} /\ goal \in Goals \cup {Nowhere}
      /\ shownUser # Nobody => u # Nobody
      /\ c.phase = "ok" => u = c.name /\ u # Nobody
      /\ c.phase # "ok" => u = shownUser
  BY <1>1, <1>2 DEF AccountCalls, NamedCall
<1>4. \/ goal = heading
      \/ goal \in Goals /\ (u # Nobody => goal.to # "login") /\ (u = Nobody => goal.to # "account")
  <2>1. c.goal \in Goals /\ c.goal.to # "login"
    BY <1>1, <1>2, PlacesAreGoals DEF NamedCall, Routes
  <2> QED BY <1>3, <2>1
<1> PICK error : error = IF c.phase = "ok" THEN form.errorMessage ELSE c.fn
  OBVIOUS
<1>5. /\ form' = IF c.here THEN [form EXCEPT !.isSubmitting = FALSE, !.errorMessage = error] ELSE form
      /\ route = "login" => RenderLogin(u, isLoading, goal, form'.isSubmitting)
      /\ route # "login" => Render(u, isLoading, goal)
  BY DEF ReceiveLogin, Attempted
<1>6. c.here => form \in Fields /\ form.on = "login" /\ (form.switched \/ c.fn = form.mode)
  BY <1>1, <1>2, FormsAndCards DEF CallOfItsPage
<1>7. /\ form' \in Fields \cup {NoFields} /\ form'.on = form.on
      /\ form.on # "none" =>
            /\ form'.mode = form.mode /\ form'.switched = form.switched
            /\ form'.isSubmitting <=> form.isSubmitting /\ ~(c.here /\ c.fn \in FormCalls)
            /\ form'.verifying <=> form.verifying /\ ~(c.here /\ c.fn = "verify")
  <2>1. CASE c.here
    <3>1. error \in {"none", "mismatch"} \cup FormCalls
      BY <1>2, <1>6, <2>1 DEF Fields
    <3>2. /\ form' \in Fields /\ form'.on = form.on /\ form'.mode = form.mode /\ form'.switched = form.switched
          /\ form'.isSubmitting = FALSE /\ form'.verifying = form.verifying
      BY <1>5, <1>6, <2>1, <3>1 DEF Fields
    <3> QED BY <1>2, <2>1, <3>2
  <2>2. CASE ~c.here
    BY <1>1, <1>5, <2>2
  <2> QED BY <2>1, <2>2
<1>8. /\ shownUser' = u /\ isLoading' = isLoading
      /\ heading' \in Goals \cup {Nowhere} /\ OnTheWay'
      /\ cards' \in CardFields \cup {NoCards} /\ (cards'.on <=> SeesCards(route, u, isLoading))
      /\ cards.on /\ cards'.on =>
            /\ cards'.saving = cards.saving /\ cards'.reset = cards.reset
            /\ cards.editing => cards' = cards
      /\ ~cards.on /\ cards'.on => ~cards'.saving /\ cards'.reset = "idle"
  <2>1. UNCHANGED <<route, nextPath>> /\ form' \in Fields \cup {NoFields} /\ form'.on = form.on
    BY <1>2, <1>7
  <2> QED BY <1>1, <1>3, <1>4, <1>5, <2>1, Rendered
<1>9. cards.on => cards'.on
  BY <1>1, <1>3, <1>8 DEF SeesCards
<1>10. requests' \subseteq AccountCalls
  BY <1>2 DEF AccountTypes
<1>11. AccountTypes'
  BY <1>2, <1>3, <1>7, <1>8, <1>10 DEF AccountTypes
<1>12. CallsHaveTheirPage' /\ SpinnersAwait' /\ OneOfASort'
  <2>1. /\ requests' \in {requests \ {c}, Left(requests \ {c}, InCards)}
        /\ cards.on /\ ~cards'.on => requests' = Left(requests \ {c}, InCards)
        /\ cards'.on => requests' = requests \ {c}
    BY <1>2, <1>9
  <2>2. c.fn # "save" /\ c.fn # "mail" /\ c.fn \notin {"me", "refresh"}
    BY <1>2 DEF InCards
  <2>3. /\ cards' \in CardFields \cup {NoCards}
        /\ cards.on /\ cards'.on =>
              /\ cards'.saving <=> cards.saving /\ ~(c.here /\ c.fn = "save")
              /\ cards'.saving /\ cards.editing => cards'.editing /\ cards'.draft = cards.draft
              /\ cards'.reset = "sending" <=> cards.reset = "sending" /\ ~(c.here /\ c.fn = "mail")
        /\ ~cards.on /\ cards'.on => ~cards'.saving /\ cards'.reset # "sending"
        /\ isLoading' => isLoading /\ c.fn \notin {"me", "refresh"}
    BY <1>8, <2>2
  <2> QED BY <1>7, <2>1, <2>3, Received
<1>13. UserIsGenuine'
  <2>1. WillBeGenuine(c) => u = Nobody \/ Genuine(u)
    BY <1>2, <1>3 DEF WillBeGenuine
  <2> QED BY <1>2, <1>8, <2>1, ReceivedGenuine
<1>14. ErrorIsOfTheForm'
  <2>1. CASE c.here /\ c.phase # "ok"
    <3>1. form'.errorMessage = c.fn /\ form'.switched = form.switched /\ form'.mode = form.mode
      BY <1>5, <1>6, <2>1 DEF Fields
    <3> QED BY <1>6, <2>1, <3>1 DEF ErrorIsOfTheForm
  <2>2. CASE c.here /\ c.phase = "ok"
    <3>1. /\ form'.errorMessage = form.errorMessage /\ form'.switched = form.switched
          /\ form'.mode = form.mode /\ form'.on = form.on
      BY <1>5, <1>6, <2>2 DEF Fields
    <3> QED BY <3>1 DEF ErrorIsOfTheForm
  <2>3. CASE ~c.here
    BY <1>5, <2>3 DEF ErrorIsOfTheForm
  <2> QED BY <2>1, <2>2, <2>3
<1> QED BY <1>8, <1>11, <1>12, <1>13, <1>14

LEMMA ReceiveFormInv ==
    ASSUME AccountIInv, NEW c \in requests, ReceiveForm(c) \/ ReceiveVerify(c)
    PROVE  AccountIInv'
<1> USE DEF AccountIInv
<1>1. c \in AccountCalls /\ CallOfItsPage(c) /\ form \in Fields \cup {NoFields}
  BY DEF AccountTypes, CallsHaveTheirPage
<1>2. /\ UNCHANGED <<route, nextPath, heading, shownUser, isLoading, cards, requested, backend, muddled>>
      /\ UNCHANGED <<session, storedName, lapsed>>
      /\ requests' = requests \ {c}
      /\ c.fn \in {"forgot", "reset", "verify"} /\ c.fn \notin Identity
      /\ c.fn \notin InCards \cup {"me", "refresh"}
      /\ c.fn \in {"forgot", "reset"} <=> c.fn \in FormCalls
  BY DEF ReceiveForm, ReceiveVerify, place, provider, backend, Identity, FormCalls, InCards
<1>3. c.here => form \in Fields /\ form.on \in {"forgot", "reset"}
  BY <1>1, <1>2, FormsAndCards DEF CallOfItsPage
<1>4. /\ form' \in Fields \cup {NoFields} /\ form'.on = form.on
      /\ form.on # "none" =>
            /\ form'.mode = form.mode /\ form'.switched = form.switched
            /\ form'.isSubmitting <=> form.isSubmitting /\ ~(c.here /\ c.fn \in FormCalls)
            /\ form'.verifying <=> form.verifying /\ ~(c.here /\ c.fn = "verify")
  <2>1. CASE ~c.here
    <3>1. form' = form
      BY <2>1 DEF ReceiveForm, ReceiveVerify, Attempted
    <3> QED BY <1>1, <2>1, <3>1
  <2>2. CASE c.here /\ ReceiveForm(c)
    <3>1. form' \in {[form EXCEPT !.isSubmitting = FALSE, !.done = TRUE],
                     [form EXCEPT !.isSubmitting = FALSE, !.errorMessage = c.fn]}
      BY <2>2 DEF ReceiveForm, Attempted
    <3>2. c.fn \in FormCalls /\ c.fn # "verify"
      BY <1>2, <2>2 DEF ReceiveForm
    <3>3. /\ form' \in Fields /\ form'.on = form.on /\ form'.mode = form.mode /\ form'.switched = form.switched
          /\ form'.isSubmitting = FALSE /\ form'.verifying = form.verifying
      BY <1>3, <2>2, <3>1, <3>2 DEF Fields
    <3> QED BY <2>2, <3>2, <3>3
  <2>3. CASE c.here /\ ReceiveVerify(c)
    <3>1. form' = [form EXCEPT !.verifying = FALSE, !.accessToken = c.phase = "ok"]
      BY <2>3 DEF ReceiveVerify
    <3>2. c.fn = "verify" /\ c.fn \notin FormCalls /\ (c.phase = "ok") \in BOOLEAN
      BY <2>3 DEF ReceiveVerify, FormCalls
    <3>3. /\ form' \in Fields /\ form'.on = form.on /\ form'.mode = form.mode /\ form'.switched = form.switched
          /\ form'.isSubmitting = form.isSubmitting /\ form'.verifying = FALSE
      BY <1>3, <2>3, <3>1, <3>2 DEF Fields
    <3> QED BY <2>3, <3>2, <3>3
  <2> QED BY <2>1, <2>2, <2>3
<1>5. requests' \subseteq AccountCalls
  BY <1>2 DEF AccountTypes
<1>6. AccountTypes'
  BY <1>2, <1>4, <1>5 DEF AccountTypes, SeesCards
<1>7. CallsHaveTheirPage' /\ SpinnersAwait' /\ OneOfASort'
  <2>1. /\ cards' \in CardFields \cup {NoCards} /\ cards' = cards
        /\ c.fn # "save" /\ c.fn # "mail" /\ requests' \in {requests \ {c}, Left(requests \ {c}, InCards)}
    BY <1>2 DEF AccountTypes
  <2> QED BY <1>2, <1>4, <2>1, Received
<1>8. UserIsGenuine'
  BY <1>2, ReceivedGenuine
<1>9. OnTheWay'
  <2>1. route = "login" => form' = form
    <3>1. SUFFICES ASSUME route = "login" PROVE form' = form
      OBVIOUS
    <3>2. form.on = "login"
      BY <3>1 DEF AccountTypes, HasForm
    <3>3. ~c.here
      BY <1>3, <3>2
    <3> QED BY <3>3 DEF ReceiveForm, ReceiveVerify, Attempted
  <2> QED BY <1>2, <2>1 DEF OnTheWay
<1>10. ErrorIsOfTheForm'
  <2>1. CASE ~c.here
    <3>1. form' = form
      BY <2>1 DEF ReceiveForm, ReceiveVerify, Attempted
    <3> QED BY <3>1 DEF ErrorIsOfTheForm
  <2>2. CASE c.here
    BY <1>3, <1>4, <2>2 DEF ErrorIsOfTheForm
  <2> QED BY <2>1, <2>2
<1> QED BY <1>6, <1>7, <1>8, <1>9, <1>10

LEMMA ReceiveCardInv ==
    ASSUME AccountIInv, NEW c \in requests, SaveFails(c) \/ ReceiveMail(c)
    PROVE  AccountIInv'
<1> USE DEF AccountIInv
<1>1. c \in AccountCalls /\ CallOfItsPage(c) /\ cards \in CardFields \cup {NoCards}
  BY DEF AccountTypes, CallsHaveTheirPage
<1>2. /\ UNCHANGED <<route, nextPath, heading, shownUser, isLoading, form, requested, backend, muddled>>
      /\ UNCHANGED <<session, storedName, lapsed>>
      /\ requests' = requests \ {c}
      /\ c.fn \in {"save", "mail"} /\ c.fn \in InCards
      /\ c.fn \notin FormCalls \cup {"me", "refresh", "verify"}
      /\ c.fn = "save" => c.phase = "failed"
      /\ c.fn = "mail" => c.fn \notin Identity
  BY DEF SaveFails, ReceiveMail, place, provider, backend, Identity, FormCalls, InCards
<1>3. c.here => cards \in CardFields /\ cards.on
  BY <1>1, <1>2, FormsAndCards DEF CallOfItsPage
<1>4. /\ cards' \in CardFields \cup {NoCards} /\ cards'.on = cards.on
      /\ cards.on =>
            /\ cards'.saving <=> cards.saving /\ ~(c.here /\ c.fn = "save")
            /\ cards'.editing = cards.editing /\ cards'.draft = cards.draft
            /\ cards'.reset = "sending" <=> cards.reset = "sending" /\ ~(c.here /\ c.fn = "mail")
  <2>1. CASE ~c.here
    <3>1. cards' = cards
      BY <2>1 DEF SaveFails, ReceiveMail
    <3> QED BY <1>1, <2>1, <3>1
  <2>2. CASE c.here /\ SaveFails(c)
    <3>1. cards' = [cards EXCEPT !.saving = FALSE, !.nameError = TRUE] /\ c.fn = "save"
      BY <2>2 DEF SaveFails
    <3>2. /\ cards' \in CardFields /\ cards'.on = cards.on /\ cards'.saving = FALSE /\ cards'.reset = cards.reset
          /\ cards'.editing = cards.editing /\ cards'.draft = cards.draft
      BY <1>3, <2>2, <3>1 DEF CardFields
    <3> QED BY <2>2, <3>1, <3>2
  <2>3. CASE c.here /\ ReceiveMail(c)
    <3>1. PICK r \in {"sent", "error"} : cards' = [cards EXCEPT !.reset = r]
      BY <2>3 DEF ReceiveMail
    <3>2. /\ cards' \in CardFields /\ cards'.on = cards.on /\ cards'.saving = cards.saving /\ cards'.reset = r
          /\ cards'.editing = cards.editing /\ cards'.draft = cards.draft
      BY <1>3, <2>3, <3>1 DEF CardFields
    <3>3. c.fn = "mail" /\ r # "sending"
      BY <2>3 DEF ReceiveMail
    <3> QED BY <2>3, <3>2, <3>3
  <2> QED BY <2>1, <2>2, <2>3
<1>5. requests' \subseteq AccountCalls
  BY <1>2 DEF AccountTypes
<1>6. AccountTypes'
  BY <1>2, <1>4, <1>5 DEF AccountTypes, SeesCards
<1>7. CallsHaveTheirPage' /\ SpinnersAwait' /\ OneOfASort'
  <2>1. /\ form' \in Fields \cup {NoFields} /\ form' = form
        /\ c.fn # "verify" /\ c.fn \notin FormCalls /\ requests' \in {requests \ {c}, Left(requests \ {c}, InCards)}
    BY <1>2 DEF AccountTypes
  <2> QED BY <1>2, <1>4, <2>1, Received
<1>8. UserIsGenuine'
  <2>1. c.fn \in Identity /\ WillBeGenuine(c) => shownUser' = Nobody \/ Genuine(shownUser')
    BY <1>2 DEF WillBeGenuine
  <2> QED BY <1>2, <2>1, ReceivedGenuine
<1>9. OnTheWay' /\ ErrorIsOfTheForm'
  BY <1>2 DEF OnTheWay, ErrorIsOfTheForm
<1> QED BY <1>6, <1>7, <1>8, <1>9

\* The profile is read again: every card is gone, and one more request is there.
LEMMA ReceiveSaveInv ==
    ASSUME AccountIInv, NEW c \in requests, ReceiveSave(c)
    PROVE  AccountIInv'
<1> USE DEF AccountIInv
<1> PICK r : r = [c EXCEPT !.fn = "refresh", !.phase = "sent", !.name = Nobody]
  OBVIOUS
<1> PICK S : S = (requests \ {c}) \cup {r}
  OBVIOUS
<1>1. c \in AccountCalls /\ requests \subseteq AccountCalls /\ form \in Fields \cup {NoFields}
  BY DEF AccountTypes
<1>2. /\ UNCHANGED <<route, nextPath, form, requested>> /\ UNCHANGED <<session, storedName, lapsed>>
      /\ requests' = Left(S, InCards) /\ c.fn = "save"
      /\ muddled' = (\E d \in requests \ {c} : d.fn \in Identity)
  BY DEF ReceiveSave, backend
<1>3. r \in AccountCalls /\ r.fn = "refresh" /\ r.phase = "sent" /\ r.goal = c.goal
  BY <1>1 DEF AccountCalls, Identity
<1>4. S \subseteq AccountCalls
  BY <1>1, <1>3
<1>5. /\ requests' = {LeftCall(e, InCards) : e \in S}
      /\ \A e \in S :
            /\ LeftCall(e, InCards) \in AccountCalls
            /\ LeftCall(e, InCards).fn = e.fn /\ LeftCall(e, InCards).goal = e.goal
            /\ LeftCall(e, InCards).name = e.name /\ LeftCall(e, InCards).phase = e.phase
            /\ LeftCall(e, InCards).here = (e.here /\ e.fn \notin InCards)
            /\ e.fn \notin InCards => LeftCall(e, InCards) = e
            /\ LeftCall(e, InCards).here => LeftCall(e, InCards) = e
  <2>1. requests' = {LeftCall(e, InCards) : e \in S}
    BY <1>2 DEF Left, LeftCall
  <2> QED BY <1>4, <2>1, LeftCalls
<1>6. /\ InCards = {"save", "mail"} /\ FormCalls \cap InCards = {} /\ "verify" \notin InCards
      /\ "refresh" \notin InCards \cup FormCalls \cup SignIns \cup {"verify", "save", "mail"}
  BY DEF InCards, FormCalls, SignIns
<1>7. r \in requests'
  <2>1. r \in S /\ r.fn \notin InCards
    BY <1>3, <1>6
  <2>2. LeftCall(r, InCards) = r
    BY <1>5, <2>1
  <2>3. LeftCall(r, InCards) \in requests'
    BY <1>5, <2>1
  <2> QED BY <2>2, <2>3
<1>8. ASSUME NEW e \in requests', e.here PROVE e.fn \notin InCards /\ (e = r \/ e \in requests)
  <2>1. PICK a \in S : e = LeftCall(a, InCards)
    BY <1>5
  <2>2. e = a
    BY <1>5, <1>8, <2>1
  <2>3. a.fn \notin InCards
    BY <1>5, <1>8, <2>1
  <2> QED BY <2>1, <2>2, <2>3
<1>9. ASSUME NEW e \in requests, e.fn \notin InCards PROVE e \in requests'
  <2>1. e # c
    BY <1>2, <1>6, <1>9
  <2>2. e \in S
    BY <2>1
  <2>3. LeftCall(e, InCards) = e
    BY <1>5, <1>9, <2>2
  <2> QED BY <1>5, <2>2, <2>3
<1>10. /\ shownUser' = shownUser /\ isLoading' = TRUE /\ cards'.on = FALSE
       /\ cards' \in CardFields \cup {NoCards} /\ (cards'.on <=> SeesCards(route, shownUser', isLoading'))
       /\ heading' \in Goals \cup {Nowhere} /\ OnTheWay'
  <2>1. shownUser \in DisplayNames \cup {Nobody} /\ heading \in Goals \cup {Nowhere}
    BY DEF AccountTypes
  <2>2. /\ route = "login" => RenderLogin(shownUser, TRUE, heading, form'.isSubmitting)
        /\ route # "login" => Render(shownUser, TRUE, heading)
    BY <1>2 DEF ReceiveSave, Renders
  <2>3. UNCHANGED <<route, nextPath>> /\ form' \in Fields \cup {NoFields} /\ form'.on = form.on
    BY <1>1, <1>2
  <2>4. ~SeesCards(route, shownUser, TRUE)
    BY DEF SeesCards
  <2>5. /\ shownUser' = shownUser /\ isLoading' = TRUE
        /\ heading' \in Goals \cup {Nowhere} /\ OnTheWay'
        /\ cards' \in CardFields \cup {NoCards} /\ (cards'.on <=> SeesCards(route, shownUser, TRUE))
    BY <2>1, <2>2, <2>3, Rendered
  <2>6. cards'.on \in BOOLEAN
    BY <2>5, FormsAndCards
  <2> QED BY <2>4, <2>5, <2>6
<1>11. AccountTypes'
  <2>1. requests' \subseteq AccountCalls
    BY <1>5
  <2>2. muddled' \in BOOLEAN
    BY <1>2
  <2> QED BY <1>2, <1>10, <2>1, <2>2 DEF AccountTypes
<1>12. CallsHaveTheirPage'
  <2>1. ASSUME NEW e \in requests' PROVE CallOfItsPage(e)' /\ NamedCall(e)'
    <3>1. PICK a \in S : e.fn = a.fn /\ e.goal = a.goal /\ e.name = a.name /\ e.phase = a.phase
      BY <1>5
    <3>2. NamedCall(e)'
      <4>1. CASE a = r
        BY <1>3, <1>6, <3>1, <4>1 DEF NamedCall
      <4>2. CASE a \in requests
        <5>1. NamedCall(a)
          BY <4>2 DEF CallsHaveTheirPage
        <5> QED BY <3>1, <5>1 DEF NamedCall
      <4> QED BY <4>1, <4>2
    <3>3. CallOfItsPage(e)'
      <4>1. CASE ~e.here
        BY <4>1 DEF CallOfItsPage
      <4>2. CASE e.here /\ e = r
        BY <1>3, <1>6, <4>2 DEF CallOfItsPage
      <4>3. CASE e.here /\ e \in requests
        <5>1. CallOfItsPage(e) /\ e.fn \notin InCards
          BY <1>8, <4>3 DEF CallsHaveTheirPage
        <5> QED BY <1>2, <1>6, <4>3, <5>1 DEF CallOfItsPage
      <4> QED BY <1>8, <4>1, <4>2, <4>3
    <3> QED BY <3>2, <3>3
  <2> QED BY <2>1 DEF CallsHaveTheirPage
<1>13. SpinnersAwait'
  <2>1. isLoading' => \E e \in requests' : e.fn \in {"me", "refresh"}
    BY <1>3, <1>7
  <2>2. form'.on # "none" /\ form'.isSubmitting => \E e \in requests' : e.here /\ e.fn \in FormCalls
    BY <1>2, <1>6, <1>9 DEF SpinnersAwait
  <2>3. form'.on # "none" /\ form'.verifying => \E e \in requests' : e.here /\ e.fn = "verify"
    BY <1>2, <1>6, <1>9 DEF SpinnersAwait
  <2> QED BY <1>10, <2>1, <2>2, <2>3 DEF SpinnersAwait
<1>14. OneOfASort'
  <2>1. \A e \in requests' : e.here /\ e.fn # "refresh" => e \in requests
    BY <1>3, <1>8
  <2>2. \A fns \in {FormCalls, {"verify"}, {"save"}, {"mail"}} : "refresh" \notin fns
    BY <1>6
  <2> QED BY <2>1, <2>2 DEF OneOfASort
<1>15. UserIsGenuine'
  <2>1. SUFFICES ASSUME ~muddled' PROVE UserIsGenuine'
    BY DEF UserIsGenuine
  <2>2. \A e \in requests \ {c} : e.fn \notin Identity
    BY <1>2, <2>1
  <2>3. \A e \in requests' : e.fn \in Identity => e = r
    <3>1. SUFFICES ASSUME NEW a \in S, LeftCall(a, InCards).fn \in Identity PROVE LeftCall(a, InCards) = r
      BY <1>5
    <3>2. a = r
      BY <1>5, <2>2, <3>1
    <3> QED BY <1>3, <1>5, <1>6, <3>2
  <2>4. WillBeGenuine(r)'
    BY <1>3, <1>6 DEF WillBeGenuine
  <2>5. r.fn \in Identity
    BY <1>3 DEF Identity
  <2> QED BY <1>7, <2>3, <2>4, <2>5 DEF UserIsGenuine
<1>16. ErrorIsOfTheForm'
  BY <1>2 DEF ErrorIsOfTheForm
<1> QED BY <1>10, <1>11, <1>12, <1>13, <1>14, <1>15, <1>16

\* A page that is loaded anew asks who is signed in, and that is all.
FreshTab ==
    /\ \E n \in Nat : requests = {NewRequest(n, "me", Nowhere, Nobody)}
    /\ route \in Routes /\ nextPath \in {"home", "account"} /\ heading = Nowhere
    /\ shownUser = Nobody /\ isLoading = TRUE /\ cards = NoCards
    /\ form \in Fields \cup {NoFields} /\ form.on = IF HasForm(route) THEN route ELSE "none"
    /\ form.on # "none" => ~form.isSubmitting /\ ~form.verifying /\ form.errorMessage = "none"
    /\ requested \in 0..MaxRequests /\ storedName \in DisplayNames
    /\ session \in BOOLEAN /\ lapsed \in BOOLEAN /\ muddled \in BOOLEAN

LEMMA FreshTabInv == FreshTab => AccountIInv
<1> SUFFICES ASSUME FreshTab PROVE AccountIInv
  OBVIOUS
<1> USE DEF FreshTab
<1> PICK n \in Nat : requests = {NewRequest(n, "me", Nowhere, Nobody)}
  OBVIOUS
<1> PICK me : me = NewRequest(n, "me", Nowhere, Nobody)
  OBVIOUS
<1>1. "me" \in Identity /\ "me" \notin FormCalls \cup InCards \cup SignIns
  BY DEF Identity, FormCalls, InCards, SignIns
<1>2. me \in AccountCalls /\ me.fn = "me" /\ me.phase = "sent" /\ requests = {me}
  BY <1>1, NewRequestIsACall
<1>3. AccountTypes
  <2>1. NoCards.on = FALSE /\ ~SeesCards(route, shownUser, isLoading)
    BY FormsAndCards DEF SeesCards
  <2> QED BY <1>2, <2>1 DEF AccountTypes
<1>4. CallsHaveTheirPage
  BY <1>1, <1>2 DEF CallsHaveTheirPage, CallOfItsPage, NamedCall
<1>5. SpinnersAwait
  BY <1>2, FormsAndCards DEF SpinnersAwait
<1>6. OneOfASort /\ OnTheWay /\ ErrorIsOfTheForm
  <2>1. form.on = "login" => form.errorMessage = "none"
    OBVIOUS
  <2> QED BY <1>2, <2>1 DEF OneOfASort, OnTheWay, ErrorIsOfTheForm
<1>7. UserIsGenuine
  BY <1>1, <1>2 DEF UserIsGenuine, WillBeGenuine
<1> QED BY <1>3, <1>4, <1>5, <1>6, <1>7 DEF AccountIInv

LEMMA LoadLoginPageInv ==
    ASSUME AccountIInv, NEW c \in requests, LoadLoginPage(c)
    PROVE  AccountIInv'
<1>1. FreshTab'
  <2>1. c.n \in Nat
    BY DEF AccountIInv, AccountTypes, AccountCalls
  <2>2. \E n \in Nat : requests' = {NewRequest(n, "me", Nowhere, Nobody)}
    BY <2>1 DEF LoadLoginPage
  <2>3. /\ route' = "login" /\ route' \in Routes /\ nextPath' \in {"home", "account"} /\ heading' = Nowhere
        /\ shownUser' = Nobody /\ isLoading' = TRUE /\ cards' = NoCards
        /\ form' = NewForm("login") /\ session' = FALSE /\ muddled' = FALSE
        /\ UNCHANGED <<requested, storedName, lapsed>>
    BY DEF LoadLoginPage, Routes
  <2>4. /\ form' \in Fields \cup {NoFields} /\ form'.on = IF HasForm(route') THEN route' ELSE "none"
        /\ form'.on # "none" => ~form'.isSubmitting /\ ~form'.verifying /\ form'.errorMessage = "none"
    BY <2>3, FormsAndCards DEF HasForm
  <2>5. requested \in 0..MaxRequests /\ storedName \in DisplayNames /\ lapsed \in BOOLEAN
    BY DEF AccountIInv, AccountTypes
  <2> QED BY <2>2, <2>3, <2>4, <2>5 DEF FreshTab
<1>2. FreshTab' => AccountIInv'
  BY FreshTabInv, PTL
<1> QED BY <1>1, <1>2

LEMMA AccountInitInv == AccountInit => AccountIInv
<1> SUFFICES ASSUME AccountInit PROVE AccountIInv
  OBVIOUS
<1>1. PICK link \in {"hash", "fragment", "none"} :
          /\ route # "reset" => link = "none"
          /\ form = IF route = "reset"
                    THEN [NewForm(route) EXCEPT !.verifying = link = "hash", !.accessToken = link = "fragment"]
                    ELSE FormAt(route)
          /\ requests = {NewRequest(0, "me", Nowhere, Nobody)}
                        \cup (IF link = "hash" THEN {NewRequest(0, "verify", Nowhere, Nobody)} ELSE {})
  BY DEF AccountInit
<1>2. /\ route \in Routes /\ nextPath \in {"home", "account"} /\ heading = Nowhere
      /\ shownUser = Nobody /\ isLoading = TRUE /\ cards = NoCards /\ requested = 0
      /\ session \in BOOLEAN /\ storedName \in DisplayNames /\ lapsed = FALSE /\ muddled = FALSE
  BY DEF AccountInit
<1>3. requested \in 0..MaxRequests
  <2>1. MaxRequests \in Nat
    BY AccountAssumption
  <2> QED BY <1>2, <2>1
<1>4. CASE route # "reset"
  <2>1. form = FormAt(route) /\ requests = {NewRequest(0, "me", Nowhere, Nobody)}
    BY <1>1, <1>4
  <2>2. /\ form \in Fields \cup {NoFields} /\ form.on = IF HasForm(route) THEN route ELSE "none"
        /\ form.on # "none" => ~form.isSubmitting /\ ~form.verifying /\ form.errorMessage = "none"
    BY <2>1, FormsAndCards DEF FormAt, HasForm
  <2>3. \E n \in Nat : requests = {NewRequest(n, "me", Nowhere, Nobody)}
    BY <2>1
  <2> QED BY <1>2, <1>3, <2>2, <2>3, FreshTabInv DEF FreshTab
<1>5. CASE route = "reset"
  <2>1. /\ form = [NewForm("reset") EXCEPT !.verifying = link = "hash", !.accessToken = link = "fragment"]
        /\ NewForm("reset") \in Fields /\ NewForm("reset").on = "reset" /\ ~NewForm("reset").isSubmitting
        /\ NewForm("reset").errorMessage = "none"
    BY <1>1, <1>5, FormsAndCards
  <2>2. (link = "hash") \in BOOLEAN /\ (link = "fragment") \in BOOLEAN
    OBVIOUS
  <2>3. /\ form \in Fields /\ form.on = "reset" /\ ~form.isSubmitting /\ (form.verifying <=> link = "hash")
        /\ form.errorMessage = "none"
    BY <2>1, <2>2 DEF Fields
  <2> PICK me, verify : /\ me = NewRequest(0, "me", Nowhere, Nobody)
                        /\ verify = NewRequest(0, "verify", Nowhere, Nobody)
    OBVIOUS
  <2>4. /\ me \in AccountCalls /\ me.fn = "me" /\ me.phase = "sent"
        /\ verify \in AccountCalls /\ verify.fn = "verify" /\ verify.phase = "sent" /\ verify.here
    BY NewRequestIsACall DEF Identity
  <2>5. requests = {me} \cup (IF link = "hash" THEN {verify} ELSE {})
    BY <1>1
  <2>6. /\ "me" \in Identity /\ "verify" \notin Identity
        /\ {"me", "verify"} \cap (FormCalls \cup InCards \cup SignIns) = {}
    BY DEF Identity, FormCalls, InCards, SignIns
  <2>7. AccountTypes
    <3>1. NoCards.on = FALSE /\ ~SeesCards(route, shownUser, isLoading)
      BY <1>2, FormsAndCards DEF SeesCards
    <3>2. requests \subseteq AccountCalls
      BY <2>4, <2>5
    <3> QED BY <1>2, <1>3, <1>5, <2>3, <3>1, <3>2 DEF AccountTypes, HasForm
  <2>8. CallsHaveTheirPage
    BY <2>3, <2>4, <2>5, <2>6 DEF CallsHaveTheirPage, CallOfItsPage, NamedCall
  <2>9. SpinnersAwait
    BY <1>2, <2>3, <2>4, <2>5, FormsAndCards DEF SpinnersAwait
  <2>10. OneOfASort
    <3>1. \A e, f \in requests : e.fn = f.fn => e = f
      BY <2>4, <2>5
    <3>2. \A fns \in {FormCalls, {"verify"}, {"save"}, {"mail"}} : \A e \in requests :
              e.fn \in fns => e.fn = "verify"
      BY <2>4, <2>5, <2>6
    <3> QED BY <3>1, <3>2 DEF OneOfASort
  <2>11. OnTheWay /\ ErrorIsOfTheForm
    BY <1>2, <2>3 DEF OnTheWay, ErrorIsOfTheForm
  <2>12. UserIsGenuine
    BY <2>4, <2>5, <2>6 DEF UserIsGenuine, WillBeGenuine
  <2> QED BY <2>7, <2>8, <2>9, <2>10, <2>11, <2>12 DEF AccountIInv
<1> QED BY <1>4, <1>5

LEMMA AccountStep == AccountIInv /\ [AccountNext]_accountVars => AccountIInv'
<1> SUFFICES ASSUME AccountIInv, [AccountNext]_accountVars PROVE AccountIInv'
  OBVIOUS
<1>1. CASE FollowLink
  BY <1>1, FollowLinkInv
<1>2. CASE Arrive
  BY <1>2, ArriveInv
<1>3. CASE \/ \E m \in {"login", "register"} : SwitchMode(m)
           \/ \E p \in Passwords : TypePassword(p) \/ TypeConfirmPassword(p)
           \/ SubmitLogin \/ SubmitForgot \/ SubmitReset
  BY <1>3, FormInv
<1>4. CASE \/ EditName \/ CommitName \/ CancelName \/ ChangePassword
           \/ \E name \in DisplayNames : TypeName(name)
  BY <1>4, CardsInv
<1>5. CASE SignOut
  BY <1>5, SignOutInv
<1>6. CASE \E c \in requests : ServerAnswers(c) \/ Fail(c)
  BY <1>6, ServerInv
<1>7. ASSUME NEW c \in requests, Answered(c) PROVE AccountIInv'
  BY <1>7, ReceiveUserInv, ReceiveLoginInv, ReceiveSaveInv, ReceiveCardInv, LoadLoginPageInv, ReceiveFormInv
     DEF Answered
<1>8. CASE SessionEnds
  BY <1>8, SessionEndsInv
<1>9. CASE UNCHANGED accountVars
  <2>1. UNCHANGED <<route, nextPath, heading, shownUser, isLoading, form, cards, requests, requested,
                    session, storedName, lapsed, muddled>>
    BY <1>9 DEF accountVars, place, provider, backend
  <2> USE DEF AccountIInv
  <2>2. AccountTypes'
    BY <2>1 DEF AccountTypes, HasForm, SeesCards
  <2>3. CallsHaveTheirPage' /\ SpinnersAwait' /\ OneOfASort'
    BY <2>1 DEF CallsHaveTheirPage, CallOfItsPage, NamedCall, SpinnersAwait, OneOfASort
  <2>4. OnTheWay' /\ ErrorIsOfTheForm'
    BY <2>1 DEF OnTheWay, ErrorIsOfTheForm
  <2>5. UserIsGenuine'
    BY <2>1 DEF UserIsGenuine, WillBeGenuine, Genuine
  <2> QED BY <2>2, <2>3, <2>4, <2>5
<1> QED BY <1>1, <1>2, <1>3, <1>4, <1>5, <1>6, <1>7, <1>8, <1>9 DEF AccountNext

\* A visitor ends where a visitor of his kind must be, sees the name and the
\* session that the server has, no button of the account turns for nothing, and
\* an error is about the form that is shown.
THEOREM AccountPagesAgree == AccountSpec => []AccountInv
<1>1. AccountIInv => AccountInv
  <2> SUFFICES ASSUME AccountIInv PROVE AccountInv
    OBVIOUS
  <2> USE DEF AccountIInv
  <2>1. AccountTypeOK
    <3>1. Goals \cup {Nowhere} \subseteq Destinations
      BY DEF Goals, Nowhere, Destinations
    <3> QED BY <3>1 DEF AccountTypes, AccountTypeOK
  <2>2. SentAway
    BY DEF OnTheWay, SentAway
  <2>3. ShownIsStored
    BY DEF UserIsGenuine, Genuine, ShownIsStored
  <2>4. AccountSpinnersAreBacked
    <3>1. isLoading => \E c \in requests : c.fn \in {"me", "refresh"}
      BY DEF SpinnersAwait
    <3>2. form.on = "none" => Awaited(FormCalls \cup {"verify"}) = {}
      BY DEF CallsHaveTheirPage, CallOfItsPage, Awaited, FormCalls, SignIns
    <3>3. form.on # "none" =>
              /\ Awaited(FormCalls) = {} <=> ~form.isSubmitting
              /\ Awaited({"verify"}) = {} <=> ~form.verifying
      BY DEF CallsHaveTheirPage, CallOfItsPage, SpinnersAwait, Awaited
    <3>4. ~cards.on => Awaited(InCards) = {}
      BY DEF CallsHaveTheirPage, CallOfItsPage, Awaited
    <3>5. cards.on =>
              /\ Awaited({"save"}) = {} <=> ~cards.saving
              /\ Awaited({"mail"}) = {} <=> cards.reset # "sending"
              /\ \A c \in Awaited({"save"}) : cards.editing /\ cards.draft = c.name
      BY DEF CallsHaveTheirPage, CallOfItsPage, SpinnersAwait, Awaited
    <3>6. \A fns \in {FormCalls, {"save"}, {"mail"}} : \A c, d \in Awaited(fns) : c = d
      BY DEF OneOfASort, Awaited
    <3> QED BY <3>1, <3>2, <3>3, <3>4, <3>5, <3>6 DEF AccountSpinnersAreBacked
  <2> QED BY <2>1, <2>2, <2>3, <2>4 DEF AccountInv
<1> QED BY <1>1, AccountInitInv, AccountStep, PTL DEF AccountSpec
=============================================================================
