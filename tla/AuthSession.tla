----------------------------- MODULE AuthSession -----------------------------
(***************************************************************************)
(* The session of one browser: the two cookies, the tabs that use them     *)
(* (AuthProvider and the retry logic of lib/api.ts), the route handlers    *)
(* that read and write them (app/api/auth, app/api/proxy) and, behind      *)
(* them, the auth service of the backend.                                  *)
(*                                                                         *)
(* A request carries the cookies of the moment it is sent; a response      *)
(* carries the cookies to store, if any.  In between, other tabs and other *)
(* calls of the same tab send and receive.  A route handler makes at most  *)
(* one call that changes anything behind it, so it is one step.            *)
(*                                                                         *)
(* The identity provider is external: a refresh token is used once and     *)
(* gives the next one of its session; a token that was used already is     *)
(* refused, or, if it is the last one used, may be answered once more; a   *)
(* session may end at any time.  An access token is valid until it expires,*)
(* whatever becomes of its session: the backend checks its signature only. *)
(***************************************************************************)
EXTENDS Integers, FiniteSets, FiniteSetsExt

CONSTANTS
    Tabs,
    Apis,           \* calls of api.auth through the proxy, in one tab at a time
    Patches,        \* calls of api.auth to PATCH /api/auth/me, likewise
    Users,
    None,
    MaxSessions,    \* bound on the logins
    MaxGen,         \* bound on the tokens of a session, which then ends
    MaxFaults       \* bound on failures and restarts of the browser

Sessions == 1..MaxSessions
Tokens == Sessions \X (1..MaxGen)
Calls == Apis \cup Patches
Threads == Tabs \X ({"session", "refresh"} \cup Calls)

Jars == [access : Tokens \cup {None}, refresh : Tokens \cup {None}, keep : BOOLEAN]

ASSUME AuthAssumption ==
    /\ MaxSessions \in Nat /\ MaxGen \in Nat \ {0} /\ MaxFaults \in Nat
    /\ None \notin Users \cup Tokens \cup Jars
    /\ {"session", "refresh"} \cap Calls = {} /\ Apis \cap Patches = {}

VARIABLES
    jar,        \* the two cookies, and whether they have a maxAge
    net,        \* requests and responses
    pc,         \* what each thread of a tab waits for
    user,       \* AuthProvider's user in each tab
    owner,      \* provider: the account of a session, once it is opened
    gen,        \* provider: the number of the session's last token
    ended,      \* provider: sessions that are over
    stale,      \* access tokens that expired
    faults,
    asked,      \* history: sessions opened with "Remember me", or by Google
    torn,       \* history: sessions whose renewal was disturbed
    out,        \* history: the user signed out, and nothing was under way
    sure,       \* history: tabs that learnt the user after the last login
    murky       \* history: a login or logout overlapped with another request

browserVars == <<jar, net, pc, user>>
providerVars == <<owner, gen, ended, stale>>
historyVars == <<asked, torn, out, sure, murky>>
vars == <<browserVars, providerVars, faults, historyVars>>

Empty == [access |-> None, refresh |-> None, keep |-> FALSE]
Ops == {"me", "login", "google", "logout", "refresh", "api"}
Idle == "idle"

\* A request sent while the cookies are j; live says that its page is there.
Request(th, op, arg, j) ==
    [type |-> "request", th |-> th, op |-> op, arg |-> arg, jar |-> j, live |-> TRUE]
\* A response to m: whether it is ok, 401 or another failure, the cookies it
\* sets (None: none) and the profile in its body.
Response(m, status, cookies, u) ==
    [type |-> "response", th |-> m.th, op |-> m.op, status |-> status,
     cookies |-> cookies, user |-> u]

Requests == {m \in net : m.type = "request"}
Responses == {m \in net : m.type = "response"}

TypeOK ==
    /\ jar \in Jars
    /\ \A m \in net : m.th \in Threads /\ m.op \in Ops
    \* A thread waits for one answer, if it waits at all.
    /\ \A th \in Threads :
          Cardinality({m \in net : m.th = th /\ (m.type = "request" => m.live)}) =
             IF pc[th] \in {Idle, "await"} THEN 0 ELSE 1
    /\ \A m \in Requests : m.jar \in Jars
    /\ \A m \in Responses : m.status \in {200, 401, 500} /\ m.cookies \in Jars \cup {None}
    /\ pc \in [Threads -> {Idle, "first", "await", "retry", "quit", "session", "refresh"}]
    /\ user \in [Tabs -> Users \cup {None}]
    /\ owner \in [Sessions -> Users \cup {None}]
    /\ gen \in [Sessions -> 0..MaxGen]
    /\ ended \subseteq Sessions /\ stale \subseteq Tokens
    /\ faults \in 0..MaxFaults
    /\ asked \cup torn \subseteq Sessions /\ sure \subseteq Tabs
    /\ {out, murky} \subseteq BOOLEAN

\* AuthProvider's mount effect: one GET /api/auth/me for the tab.
Mounts(T, j) == {Request(<<t, "session">>, "me", None, j) : t \in T}

Init ==
    /\ jar = Empty
    /\ net = Mounts(Tabs, Empty)
    /\ pc = [th \in Threads |-> IF th[2] = "session" THEN "session" ELSE Idle]
    /\ user = [t \in Tabs |-> None]
    /\ owner = [s \in Sessions |-> None]
    /\ gen = [s \in Sessions |-> 0]
    /\ ended = {} /\ stale = {} /\ faults = 0
    /\ asked = {} /\ torn = {} /\ sure = {}
    /\ out = TRUE /\ murky = FALSE

-----------------------------------------------------------------------------
(* What the history variables record.                                      *)

\* Messages that may change the cookies.
Acts(m) == m.op # "api"
Opened == {s \in Sessions : owner[s] # None}

\* A response that brings a token of session s.
Brings(m, s) ==
    m.type = "response" /\ m.cookies \notin {None, Empty} /\ m.cookies.refresh[1] = s

\* Sessions of which a new token is on its way to the browser while another
\* request with an old one is under way.  Two refreshes of lib/api.ts in one
\* tab are no excuse: the tab makes one at a time.
Contended(n) ==
    {s \in Sessions : \E m, k \in n :
        /\ Brings(m, s)
        /\ k.type = "request" /\ k.op \in {"me", "refresh"}
        /\ k.jar.refresh # None /\ k.jar.refresh[1] = s
        /\ ~(m.op = "refresh" /\ k.op = "refresh" /\ m.th[1] = k.th[1])}

\* Sessions of which a token is in one of the messages n.
Brought(n) == {s \in Sessions : \E m \in n : Brings(m, s)}

Tear(S) == torn' = torn \cup S \cup Contended(net')

-----------------------------------------------------------------------------
(* The pages.                                                              *)

Send(th, op, arg) == net' = net \cup {Request(th, op, arg, jar)}

\* AuthProvider is free in tab t, and sends a request.
Act(t, op, arg) ==
    LET th == <<t, "session">> IN
    /\ pc[th] = Idle
    /\ pc' = [pc EXCEPT ![th] = "session"]
    /\ Send(th, op, arg)
    /\ UNCHANGED <<jar, user, providerVars, faults, asked, out, sure, murky>>
    /\ Tear({})

\* AuthProvider.refresh, from the account page.
Refresh(t) == user[t] # None /\ Act(t, "me", None)

\* The login page is for visitors only.  Signing up differs in that the account
\* is new; with Google the tab leaves, and returns to google-callback.
Login(t, op, u, remember) ==
    /\ user[t] = None
    /\ op = "google" => remember
    /\ Act(t, op, [user |-> u, remember |-> remember])

Logout(t) == user[t] # None /\ Act(t, "logout", None)

Route(a) == IF a \in Patches THEN "me" ELSE "api"

\* A page that requires a user calls api.auth.
Call(t, a) ==
    LET th == <<t, a>> IN
    /\ user[t] # None
    /\ pc[th] = Idle
    /\ pc' = [pc EXCEPT ![th] = "first"]
    /\ Send(th, Route(a), None)
    /\ UNCHANGED <<jar, user, providerVars, faults, asked, out, sure, murky>>
    /\ Tear({})

\* The tabs T load a page anew.  Of their messages, requests that change
\* something behind the route handlers may still be served.
Reload(T, n, j) ==
    /\ pc' = [th \in Threads |-> IF th[1] \notin T THEN pc[th]
                                 ELSE IF th[2] = "session" THEN "session" ELSE Idle]
    /\ user' = [t \in Tabs |-> IF t \in T THEN None ELSE user[t]]
    /\ net' = {m \in n : m.th[1] \notin T} \cup Mounts(T, j)
              \cup {[m EXCEPT !.live = FALSE] :
                      m \in {m \in n : m.th[1] \in T /\ m.type = "request" /\ Acts(m)}}

-----------------------------------------------------------------------------
(* The route handlers and the backend.                                     *)

Valid(token) == token # None /\ token \notin stale

Answer(m, status, cookies, u) ==
    net' = (net \ {m}) \cup IF m.live THEN {Response(m, status, cookies, u)} ELSE {}

\* What the provider may make of a refresh token: the next token of the
\* session, or None if it is refused.
Renewals(token) ==
    IF token = None \/ token[1] \in ended THEN {None}
    ELSE LET s == token[1]
             n == token[2]
         IN  IF n = gen[s] THEN {IF n < MaxGen THEN <<s, n + 1>> ELSE None}
             ELSE {None} \cup {r \in {<<s, gen[s]>>} : n = gen[s] - 1}

\* With its last token a session ends.
Spent(token) == {s \in Sessions : token = <<s, MaxGen>>}

Renew(r) == gen' = IF r = None THEN gen ELSE [gen EXCEPT ![r[1]] = r[2]]

\* setSessionCookies.
Cookies(r, remember) == [access |-> r, refresh |-> r, keep |-> remember]

\* handleRefresh, and the refresh within handleMe.
ServeRefresh(m) ==
    /\ m.op = "refresh" \/ (m.op = "me" /\ ~Valid(m.jar.access))
    /\ \E r \in Renewals(m.jar.refresh) :
          /\ Renew(r)
          /\ IF r = None THEN Answer(m, 401, Empty, None)
             ELSE Answer(m, 200, Cookies(r, TRUE), owner[r[1]])
    /\ ended' = ended \cup Spent(m.jar.refresh)
    /\ UNCHANGED <<owner, stale, asked>>

\* handleMe with an access token that the backend accepts.
ServeMe(m) ==
    /\ m.op = "me" /\ Valid(m.jar.access)
    /\ Answer(m, 200, None, owner[m.jar.access[1]])
    /\ UNCHANGED <<providerVars, asked>>

\* Variant for a mutation: a login that is not to be remembered sets no cookies.
ServeLoginUnkept(m) ==
    /\ m.op \in {"login", "google"}
    /\ \/ \E s \in Sessions :
             /\ s = Cardinality({i \in Sessions : owner[i] # None}) + 1
             /\ owner' = [owner EXCEPT ![s] = m.arg.user]
             /\ gen' = [gen EXCEPT ![s] = 1]
             /\ asked' = IF m.arg.remember THEN asked \cup {s} ELSE asked
             /\ Answer(m, 200, IF m.arg.remember THEN Cookies(<<s, 1>>, TRUE) ELSE None,
                       m.arg.user)
             /\ UNCHANGED <<ended, stale>>
       \/ Answer(m, 401, None, None) /\ UNCHANGED <<providerVars, asked>>

\* handleSessionLogin and handleGoogleCallback: accepted, or not.
ServeLogin(m) ==
    /\ m.op \in {"login", "google"}
    /\ \/ \E s \in Sessions :
             /\ s = Cardinality({i \in Sessions : owner[i] # None}) + 1
             /\ owner' = [owner EXCEPT ![s] = m.arg.user]
             /\ gen' = [gen EXCEPT ![s] = 1]
             /\ asked' = IF m.arg.remember THEN asked \cup {s} ELSE asked
             /\ Answer(m, 200, Cookies(<<s, 1>>, m.arg.remember), m.arg.user)
             /\ UNCHANGED <<ended, stale>>
       \/ Answer(m, 401, None, None) /\ UNCHANGED <<providerVars, asked>>

\* Variant for a mutation: only the access cookie is cleared.
LogoutKeepsRefresh(m) ==
    /\ m.op = "logout"
    /\ ended' = IF Valid(m.jar.access) THEN ended \cup {m.jar.access[1]} ELSE ended
    /\ Answer(m, 200, [m.jar EXCEPT !.access = None], None)
    /\ UNCHANGED <<owner, gen, stale, asked>>

\* handleLogout.  Without a valid access token the provider hears nothing.
ServeLogout(m) ==
    /\ m.op = "logout"
    /\ ended' = IF Valid(m.jar.access) THEN ended \cup {m.jar.access[1]} ELSE ended
    /\ Answer(m, 200, Empty, None)
    /\ UNCHANGED <<owner, gen, stale, asked>>

\* The proxy adds the access token to the request and changes nothing.
ServeProxy(m) ==
    /\ m.op = "api"
    /\ Answer(m, IF Valid(m.jar.access) THEN 200 ELSE 401, None, None)
    /\ UNCHANGED <<providerVars, asked>>

Serve(m) ==
    /\ m \in Requests
    /\ ServeRefresh(m) \/ ServeMe(m) \/ ServeLogin(m) \/ ServeLogout(m) \/ ServeProxy(m)
    /\ UNCHANGED <<jar, pc, user, faults, out, sure, murky>>
    /\ Tear(IF m.live THEN {} ELSE Opened)

Strike == faults < MaxFaults /\ faults' = faults + 1

\* Nobody behind the page answers, or the response is lost.
Lose(m) ==
    /\ m \in Responses \cup {k \in Requests : k.live}
    /\ Strike
    /\ net' = (net \ {m}) \cup {Response(m, 500, None, None)}
    /\ UNCHANGED <<jar, pc, user, providerVars, asked, out, sure, murky>>
    /\ Tear(Opened)

\* The backend fails.  A failed refresh clears the cookies, even if the
\* provider renewed the session before its profile could be read; so does
\* handleMe when it fails after the refresh; handleLogout does not mind.  If the
\* backend's 200 cannot be read, handleRefresh answers with that status, and
\* handleMe, as of any failed refresh, with 401.
ServeFails(m) ==
    /\ m \in Requests /\ m.live
    /\ Strike
    /\ \/ /\ m.op = "refresh" \/ (m.op = "me" /\ ~Valid(m.jar.access) /\ m.jar.refresh # None)
          /\ \E r \in Renewals(m.jar.refresh) \cup {None} : Renew(r)
          /\ \E status \in {401, 500} \cup {s \in {200} : m.op = "refresh"} :
                Answer(m, status, Empty, None)
       \/ /\ m.op = "logout"
          /\ Answer(m, 200, Empty, None)
          /\ UNCHANGED gen
    /\ UNCHANGED <<jar, pc, user, owner, ended, stale, asked, out, sure, murky>>
    /\ Tear(Opened)

-----------------------------------------------------------------------------
(* The browser receives a response: it stores the cookies, and the script  *)
(* goes on.                                                                *)

\* AuthProvider: the mount effect, syncSession, login, logout.
ReceiveSession(m, rest, j) ==
    LET t == m.th[1] IN
    /\ m.th[2] = "session" /\ m.op # "google"
    /\ pc' = [pc EXCEPT ![m.th] = Idle]
    /\ user' = [user EXCEPT ![t] =
                   CASE m.op = "logout" -> IF m.status = 200 THEN None ELSE @
                     [] m.op = "login"  -> IF m.status = 200 THEN m.user ELSE @
                     [] m.op = "me"     -> IF m.status = 200 THEN m.user ELSE None]
    /\ net' = rest

\* The redirect of google-callback loads a page.
ReceiveGoogle(m, rest, j) ==
    /\ m.op = "google"
    /\ Reload({m.th[1]}, rest, j)

\* Variant for a mutation: a refresh of its own for every refused call; the first
\* to settle resumes them all.
RefreshEach(m, rest, j) ==
    LET r == <<m.th[1], "refresh">> IN
    /\ pc[m.th] = "first"
    /\ IF m.status # 401
       THEN pc' = [pc EXCEPT ![m.th] = Idle] /\ net' = rest
       ELSE /\ pc' = [pc EXCEPT ![m.th] = "await", ![r] = "refresh"]
            /\ net' = rest \cup {Request(r, "refresh", m.th, j)}
    /\ UNCHANGED user

\* sendRequest after the first response: on a 401, wait for the refresh under
\* way in this tab, or start one.
ReceiveFirst(m, rest, j) ==
    LET r == <<m.th[1], "refresh">> IN
    /\ pc[m.th] = "first"
    /\ IF m.status # 401
       THEN pc' = [pc EXCEPT ![m.th] = Idle] /\ net' = rest
       ELSE /\ pc' = [pc EXCEPT ![m.th] = "await", ![r] = "refresh"]
            /\ net' = IF pc[r] = "refresh" THEN rest
                      ELSE rest \cup {Request(r, "refresh", None, j)}
    /\ UNCHANGED user

Waiting(t) == {th \in Threads : th[1] = t /\ pc[th] = "await"}

\* Variant for a mutation: a failed refresh settles nothing.
RefreshForgets(m, rest, j) ==
    LET W == Waiting(m.th[1]) IN
    /\ m.th[2] = "refresh"
    /\ pc' = [th \in Threads |-> IF th = m.th THEN Idle
                                 ELSE IF th \in W /\ m.status = 200 THEN "retry" ELSE pc[th]]
    /\ net' = rest \cup {Request(th, Route(th[2]), None, j) : th \in {w \in W : m.status = 200}}
    /\ UNCHANGED user

\* refreshInFlight settles: the calls that waited are sent again, or give up.
ReceiveRefresh(m, rest, j) ==
    LET W  == Waiting(m.th[1])
        ok == m.status = 200
    IN  /\ m.th[2] = "refresh"
        /\ pc' = [th \in Threads |-> IF th = m.th THEN Idle
                                     ELSE IF th \notin W THEN pc[th]
                                     ELSE IF ok THEN "retry" ELSE "quit"]
        /\ net' = rest \cup {Request(th, IF ok THEN Route(th[2]) ELSE "logout", None, j) : th \in W}
        /\ UNCHANGED user

\* sendRequest after the second response.
ReceiveRetry(m, rest, j) ==
    /\ pc[m.th] = "retry"
    /\ IF m.status = 401
       THEN /\ pc' = [pc EXCEPT ![m.th] = "quit"]
            /\ net' = rest \cup {Request(m.th, "logout", None, j)}
       ELSE pc' = [pc EXCEPT ![m.th] = Idle] /\ net' = rest
    /\ UNCHANGED user

\* clearSessionAndRedirect: whatever became of the logout, the tab goes to the
\* login page.
ReceiveQuit(m, rest, j) ==
    /\ pc[m.th] = "quit"
    /\ Reload({m.th[1]}, rest, j)

Receive(m) ==
    LET rest  == net \ {m}
        j     == IF m.cookies = None THEN jar ELSE m.cookies
        login == m.op \in {"login", "google"} /\ m.status = 200
        bye   == m.op = "logout" /\ m.status = 200
        alone == \A k \in rest : ~Acts(k)
    IN  /\ m \in Responses
        /\ jar' = j
        /\ \/ ReceiveSession(m, rest, j) \/ ReceiveGoogle(m, rest, j)
           \/ ReceiveFirst(m, rest, j) \/ ReceiveRefresh(m, rest, j)
           \/ ReceiveRetry(m, rest, j) \/ ReceiveQuit(m, rest, j)
        /\ out' = ((out \/ (bye /\ alone)) /\ ~login)
        /\ murky' = (murky \/ ((login \/ bye) /\ rest # {}))
        /\ sure' = IF login THEN {m.th[1]} \ {t \in Tabs : m.op = "google"}
                   ELSE IF m.th[2] = "session" /\ m.op = "me" THEN sure \cup {m.th[1]} ELSE sure
        /\ UNCHANGED <<providerVars, faults, asked>>
        /\ Tear(Brought(rest \ net'))

-----------------------------------------------------------------------------
(* The rest of the world.                                                  *)

\* An access token expires, and with it a cookie that has a maxAge.  It is
\* taken to outlive the response that brings it and the retry it is meant for.
Expire(token) ==
    /\ token[2] \in 1..gen[token[1]] /\ token \notin stale
    /\ \A m \in Responses : m.cookies # None => m.cookies.access # token
    /\ \A m \in Requests : pc[m.th] = "retry" => m.jar.access # token
    /\ stale' = stale \cup {token}
    /\ jar' = IF jar.access = token /\ jar.keep THEN [jar EXCEPT !.access = None] ELSE jar
    /\ UNCHANGED <<net, pc, user, owner, gen, ended, faults, historyVars>>

\* The provider ends a session.
EndSession(s) ==
    /\ s \in Opened \ ended
    /\ ended' = ended \cup {s}
    /\ UNCHANGED <<browserVars, owner, gen, stale, faults, historyVars>>

\* The browser is closed and opened again, with the same tabs.
Restart ==
    /\ Strike
    /\ jar' = IF jar.keep THEN jar ELSE Empty
    /\ Reload(Tabs, net, jar')
    /\ Tear(Brought(net))
    /\ UNCHANGED <<providerVars, asked, out, sure, murky>>

Next ==
    \/ \E t \in Tabs :
          \/ Refresh(t) \/ Logout(t)
          \/ \E op \in {"login", "google"}, u \in Users, remember \in BOOLEAN :
                Login(t, op, u, remember)
          \/ \E a \in Calls : Call(t, a)
    \/ \E m \in net : Serve(m) \/ ServeFails(m) \/ Lose(m) \/ Receive(m)
    \/ \E token \in Tokens : Expire(token)
    \/ \E s \in Sessions : EndSession(s)
    \/ Restart

Spec == Init /\ [][Next]_vars

\* Every request is answered, or fails, and the browser reads the response.
FairSpec ==
    /\ Spec
    /\ \A th \in Threads :
          WF_vars(\E m \in net : m.th = th /\ (Serve(m) \/ ServeFails(m) \/ Lose(m) \/ Receive(m)))

-----------------------------------------------------------------------------

\* Signing out is final: once the response has arrived while nothing else was
\* under way, no request brings a token back until somebody signs in.
LogoutIsFinal == out => jar = Empty

\* The user that a tab shows is the one its requests act for, if the tab learnt
\* it after the last login and no other request was under way at a login or logout.
ShownIsActing ==
    ~murky /\ jar.refresh # None =>
       /\ \A t \in sure : user[t] \in {None, owner[jar.refresh[1]]}
       /\ jar.access # None => jar.access[1] = jar.refresh[1]

\* Nobody is signed out for nothing.  The refresh token leaves the browser only
\* when the user signs out, the session is over, an unremembered browser is
\* closed, the renewal was disturbed (by a failure, or by a request that another
\* tab or AuthProvider sent meanwhile), or a login or logout overlapped with another
\* request.  In particular the calls
\* of one tab never spend the same refresh token twice.
NobodyIsSignedOutForNothing ==
    [][ jar.refresh # None /\ jar'.refresh = None /\ ~murky =>
          LET s == jar.refresh[1] IN
          \/ s \in ended \cup torn
          \/ \E m \in net \ net' : m.op = "logout" /\ m.th[2] = "session"
          \/ ~jar.keep /\ faults' # faults ]_vars

\* A call of api.auth never waits for ever, neither for the refresh nor for the
\* sign-out that follows a refusal.
CallsEnd == \A th \in Tabs \X Calls : pc[th] # Idle ~> pc[th] = Idle

\* "If you select 'Remember me' during login, your session persists across
\* browser restarts; otherwise, session cookies expire when you close your
\* browser" (client/messages/en.json:759).  Refuted: the first refresh stores
\* the cookies with a maxAge, whatever was selected.
KeptOnlyIfAsked == jar.refresh # None /\ jar.keep => jar.refresh[1] \in asked

\* The states of the browser and its tabs are as the code leaves them, and after
\* a logout nothing restores the session.
SessionInv == TypeOK /\ LogoutIsFinal
=============================================================================
