---------------------------- MODULE AdminQueries ----------------------------
(***************************************************************************)
(* What is read of the stored events: the ranking of the tools             *)
(* (routes/system.py) and the lists and series of the administration       *)
(* (routes/admin.py).  A request comes with the tables it reads:           *)
(*    users    [id, mail, role, state, created]                            *)
(*    events   [id, name, path, user, at, ok]   (metric_events)            *)
(*    days     [user, day]                      (user_activity_daily)      *)
(*    jobs     [user, kept]     whether the output is stored and current   *)
(*    charges  the jobs of today, by user       (tool_request_counters)    *)
(* The path of an event also stands for what the queries group runs and    *)
(* requests by: slug and name of the tool, or path and method.  An average *)
(* is the pair <<sum, number>>; averages and percentiles of durations are  *)
(* left out.  A date has two instants here, and the window of a series     *)
(* begins at request.from.                                                 *)
(* Rows that ORDER BY does not tell apart come in any order, in each       *)
(* request anew.                                                           *)
(***************************************************************************)
EXTENDS Sheets

DateOf(t) == t \div 2
Named(events, name) == {e \in events : e.name = name}
Good(events) == {e \in events : e.ok}
Rate(events) == <<Cardinality(Good(events)), Cardinality(events)>>

\* Every way of listing the rows by Rank, highest first.
Listings(rows, Rank(_)) ==
    {l \in SetToAllKPermutations(rows) :
        /\ Len(l) = Cardinality(rows)
        /\ \A i, j \in DOMAIN l : i < j => Rank(l[i]) >= Rank(l[j])}

\* Variant for a mutation: the first page is skipped.
OffsetAfter(page, size) == page * size

\* The rows before a page; pages are counted from 1.
Offset(page, size) == (page - 1) * size

\* OFFSET and LIMIT.
PageOf(list, offset, limit) == SubSeq(list, offset + 1, Min({offset + limit, Len(list)}))

\* require_admin reads the role of each request's caller, before FastAPI looks at
\* the bounds of the query.
AsAdmin(a) == Require(request.role = "admin", 403, a)

-----------------------------------------------------------------------------
(* GET /tools/popular.                                                     *)

LastPart(path) == path[Len(path)]
Uses(events, path) == Cardinality({e \in Good(Named(events, "tool_usage")) : e.path = path})
FirstOfEach(s) ==
    FoldLeft(LAMBDA seen, x : IF \E i \in DOMAIN seen : seen[i] = x THEN seen ELSE Append(seen, x), <<>>, s)

\* Variant for a mutation: the limit counts paths, the answer tools.
RankedThenDistinct(list, limit) ==
    FirstOfEach([i \in DOMAIN PageOf(list, 0, limit) |-> LastPart(list[i])])

\* The loop over the rows: each slug where it comes first, then the limit.
Ranked(list, limit) == PageOf(FirstOfEach([i \in DOMAIN list |-> LastPart(list[i])]), 0, limit)

PopularTools ==
    /\ Asked("popular")
    /\ LET used == {e.path : e \in Good(Named(request.events, "tool_usage"))} \ {<<>>}
       IN  \E list \in Listings(used, LAMBDA p : Uses(request.events, p)) :
              Reply(Require(request.limit \in 1..50, 422, Done(Ranked(list, request.limit))))

-----------------------------------------------------------------------------
(* GET /admin/overview/trend and /overview/kpi-trends.                     *)

Since(rows, t, When(_)) == {r \in rows : When(r) >= t}
\* GROUP BY day: the days that have a row.
DaysOf(rows, When(_)) == {DateOf(When(r)) : r \in rows}
On(rows, day, When(_)) == {r \in rows : DateOf(When(r)) = day}
At(e) == e.at
CreatedAt(u) == u.created
Dated(days, Row(_)) == LET list == SetToSortSeq(days, LAMBDA a, b : a < b)
                       IN  [i \in DOMAIN list |-> Row(list[i])]

OverviewTrend ==
    LET runs == Since(Named(request.events, "tool_usage"), request.from, At)
    IN  /\ Asked("trend")
        /\ Reply(AsAdmin(Done(Dated(DaysOf(runs, At),
                LAMBDA d : [date |-> d, count |-> Cardinality(On(runs, d, At))]))))

\* all_dates.
SeriesDays(runs, users, uploads) ==
    DaysOf(runs, At) \cup DaysOf(users, CreatedAt) \cup DaysOf(uploads, At)

OverviewKpiTrends ==
    LET runs    == Since(Named(request.events, "tool_usage"), request.from, At)
        uploads == Since(Named(request.events, "file_upload"), request.from, At)
        users   == Since(request.users, request.from, CreatedAt)
    IN  /\ Asked("kpi")
        /\ Reply(AsAdmin(Done(Dated(SeriesDays(runs, users, uploads),
             LAMBDA d : [date    |-> d,
                         users   |-> Cardinality(On(users, d, CreatedAt)),
                         uses    |-> Cardinality(On(runs, d, At)),
                         rate    |-> Rate(On(runs, d, At)),
                         errors  |-> Cardinality(On(runs, d, At) \ Good(runs)),
                         uploads |-> Cardinality(On(uploads, d, At))]))))

\* GET /admin/users: sign-ups count from an instant, active users from its day.
UserNumbers ==
    LET users == Since(request.users, request.from, CreatedAt)
        days  == {r \in request.days : r.day >= DateOf(request.from)}
    IN  /\ Asked("users")
        /\ Reply(AsAdmin(Done(
             [total   |-> Cardinality(request.users),
              signups |-> Dated(DaysOf(users, CreatedAt),
                            LAMBDA d : [date |-> d, count |-> Cardinality(On(users, d, CreatedAt))]),
              active  |-> Dated({r.day : r \in days},
                            LAMBDA d : [date |-> d, count |-> Cardinality({r.user : r \in {x \in days : x.day = d}})])])))

-----------------------------------------------------------------------------
(* GET /admin/tools and /admin/performance: one row for each group.        *)

GroupsOf(events) == {[path |-> p, events |-> {e \in events : e.path = p}] : p \in {e.path : e \in events}}
SizeOf(g) == Cardinality(g.events)

ToolsUsed ==
    /\ Asked("tools")
    /\ \E list \in Listings(GroupsOf(Named(request.events, "tool_usage")), SizeOf) :
          Reply(AsAdmin(Done([i \in DOMAIN list |->
             [path |-> list[i].path, uses |-> SizeOf(list[i]), rate |-> Rate(list[i].events),
              last |-> Max({e.at : e \in list[i].events})]])))

Performance ==
    /\ Asked("performance")
    /\ \E list \in Listings(GroupsOf(Named(request.events, "endpoint_performance")), SizeOf) :
          Reply(AsAdmin(Done([i \in DOMAIN list |->
             [path |-> list[i].path, uses |-> SizeOf(list[i]), rate |-> Rate(list[i].events),
              recent |-> Cardinality(Since(list[i].events, request.from, At))]])))

-----------------------------------------------------------------------------
(* GET /admin/users/list and /admin/activity.                              *)

LowerLetter(x) == IF x \in {"A", "a"} THEN "a" ELSE x
Lower(t) == [i \in DOMAIN t |-> LowerLetter(t[i])]

\* LIKE '%needle%': % stands for any text, _ for any letter, in the needle too.
LikeAt[n \in Seq(STRING), t \in Seq(STRING)] ==
    \/ n = <<>>
    \/ n # <<>> /\ n[1] = "%" /\ \E i \in 1..(Len(t) + 1) : LikeAt[Tail(n), SubSeq(t, i, Len(t))]
    \/ n # <<>> /\ n[1] # "%" /\ t # <<>> /\ n[1] \in {"_", t[1]} /\ LikeAt[Tail(n), Tail(t)]
Like(t, needle) == \E i \in 1..(Len(t) + 1) : LikeAt[needle, SubSeq(t, i, Len(t))]

\* The filter of the search; an empty one holds of every address.
Found(mail, search) == Like(Lower(mail), Lower(Strip(search)))

ChosenUsers(users) ==
    {u \in users : /\ Found(u.mail, request.search)
                   /\ request.onlyRole \in {"", u.role}
                   /\ request.onlyState \in {"", u.state}}

\* The three joins are outer ones: a user without events, outputs or charges
\* has a row with zeros.
UserRow(u) ==
    [user |-> u,
     uses |-> Cardinality({e \in Named(request.events, "tool_usage") : e.user = u.id}),
     kept |-> Cardinality({j \in request.jobs : j.user = u.id /\ j.kept}),
     today |-> IF u.id \in DOMAIN request.charges THEN request.charges[u.id] ELSE 0]

UsersList ==
    /\ Asked("users-list")
    /\ \E list \in Listings(ChosenUsers(request.users), CreatedAt) :
          Reply(AsAdmin(Require(request.page >= 1 /\ request.size \in 1..100, 422, Done(
             [total |-> Cardinality(ChosenUsers(request.users)),
              rows  |-> LET page == PageOf(list, Offset(request.page, request.size), request.size)
                        IN  [i \in DOMAIN page |-> UserRow(page[i])]]))))

ShownRuns(events) ==
    {e \in Named(events, "tool_usage") :
        /\ request.success = "any" \/ e.ok = (request.success = "yes")
        /\ request.path \in {<<>>, e.path}}

ActivityList ==
    /\ Asked("activity")
    /\ \E list \in Listings(ShownRuns(request.events), At) :
          Reply(AsAdmin(Require(request.limit \in 1..200, 422,
             Done([rows |-> PageOf(list, request.offset, request.limit)]))))

QueryNext ==
    \/ PopularTools \/ OverviewTrend \/ OverviewKpiTrends \/ UserNumbers
    \/ ToolsUsed \/ Performance \/ UsersList \/ ActivityList

-----------------------------------------------------------------------------

\* The ranking names each tool once, is as long as the limit and the tools used
\* with success allow, and no tool it leaves out, or puts behind, has a path
\* with more uses than every path of the one before.
PopularIsPopular ==
    Answered("popular") =>
        LET list  == answer.result
            paths == {e.path : e \in Good(Named(request.events, "tool_usage"))} \ {<<>>}
            tools == {LastPart(p) : p \in paths}
            best  == [t \in tools |-> Max({Uses(request.events, p) : p \in {q \in paths : LastPart(q) = t}})]
        IN  /\ IsInjective(list)
            /\ Len(list) = Min({request.limit, Cardinality(tools)})
            /\ ToSet(list) \subseteq tools
            /\ \A i \in DOMAIN list, t \in tools :
                  t \notin {list[k] : k \in 1..i} => best[list[i]] >= best[t]

\* The days of the series add up to what the other tables of the page count: no
\* sign-up, upload, use or failure of the window falls between two of its days,
\* and the failures of a day are what its success rate leaves.
SeriesAddsUp ==
    Answered("kpi") =>
        LET days  == answer.result
            Sum(f(_)) == FoldLeft(LAMBDA n, d : n + f(d), 0, days)
            Count(name) == Cardinality({e \in Named(request.events, name) : e.at >= request.from})
        IN  /\ Sum(LAMBDA d : d.users) = Cardinality({u \in request.users : u.created >= request.from})
            /\ Sum(LAMBDA d : d.uses) = Count("tool_usage")
            /\ Sum(LAMBDA d : d.uploads) = Count("file_upload")
            /\ \A i \in DOMAIN days : days[i].errors = days[i].uses - days[i].rate[1]
            /\ \A i, j \in DOMAIN days : i < j => days[i].date < days[j].date

\* The other tables of the pages add up to the rows they count: the days of a
\* trend ascend, none is empty, and together they have every run, sign-up or
\* active user of the window; the groups of tools and of endpoints, the most used
\* first, together have every run or request and every success among them, each
\* has its last use, and "recent" counts the instants of the window alone.
NumbersAddUp ==
    answer.status = 200 =>
        LET TotalOf(rows, f(_)) == FoldLeft(LAMBDA n, r : n + f(r), 0, rows)
            Series(rows, n) ==
                /\ TotalOf(rows, LAMBDA r : r.count) = n
                /\ \A i \in DOMAIN rows : rows[i].count > 0
                /\ \A i, j \in DOMAIN rows : i < j => rows[i].date < rows[j].date
            Groups(rows, events) ==
                /\ TotalOf(rows, LAMBDA r : r.uses) = Cardinality(events)
                /\ TotalOf(rows, LAMBDA r : r.rate[1]) = Cardinality({e \in events : e.ok})
                /\ \A i, j \in DOMAIN rows :
                      i < j => rows[i].uses >= rows[j].uses /\ rows[i].path # rows[j].path
                /\ \A i \in DOMAIN rows : rows[i].uses > 0 /\ rows[i].rate[2] = rows[i].uses
            runs == Named(request.events, "tool_usage")
            timings == Named(request.events, "endpoint_performance")
        IN  CASE request.tool = "trend" ->
                   Series(answer.result, Cardinality({e \in runs : e.at >= request.from}))
              [] request.tool = "users" ->
                   /\ Series(answer.result.signups,
                             Cardinality({u \in request.users : u.created >= request.from}))
                   /\ Series(answer.result.active,
                             Cardinality({r \in request.days : r.day >= DateOf(request.from)}))
              [] request.tool = "tools" ->
                   /\ Groups(answer.result, runs)
                   /\ \A e \in runs : \E i \in DOMAIN answer.result :
                         answer.result[i].path = e.path /\ answer.result[i].last >= e.at
                   /\ \A i \in DOMAIN answer.result : \E e \in runs :
                         e.path = answer.result[i].path /\ e.at = answer.result[i].last
              [] request.tool = "performance" ->
                   /\ Groups(answer.result, timings)
                   /\ TotalOf(answer.result, LAMBDA r : r.recent) =
                         Cardinality({e \in timings : e.at >= request.from})
              [] OTHER -> TRUE

\* A list has one row for each place, the newest first, and place k is on page
\* (k - 1) \div size + 1 of the users and, of the runs, in the answer whose offset
\* it exceeds by at most the limit.  A page is full unless the list ends, descends,
\* repeats no row, and has the rows of its places: a row whose instant no other
\* row has is there if and only if its place is.  Rows of one instant share their
\* places, as ORDER BY does not tell them apart: such a row is there if all its
\* places are, not there if none is, and at a border of two pages either, so that
\* between two requests it can be lost or doubled, which nothing excludes.
PagesFollowOneAnother ==
    request.tool \in {"users-list", "activity"} /\ answer.status = 200 =>
        LET users == request.tool = "users-list"
            When(r) == IF users THEN r.created ELSE r.at
            listed == IF users THEN ChosenUsers(request.users) ELSE ShownRuns(request.events)
            shown == [i \in DOMAIN answer.result.rows |->
                         IF users THEN answer.result.rows[i].user ELSE answer.result.rows[i]]
            OnPage(k) == IF users THEN (k - 1) \div request.size + 1 = request.page
                         ELSE request.offset < k /\ k <= request.offset + request.limit
            Places(r) == (Cardinality({x \in listed : When(x) > When(r)}) + 1)
                            .. Cardinality({x \in listed : When(x) >= When(r)})
        IN  /\ Len(shown) = Cardinality({k \in 1..Cardinality(listed) : OnPage(k)})
            /\ IsInjective(shown)
            /\ \A i, j \in DOMAIN shown : i < j => When(shown[i]) >= When(shown[j])
            /\ {r \in listed : \A k \in Places(r) : OnPage(k)} \subseteq ToSet(shown)
            /\ ToSet(shown) \subseteq {r \in listed : \E k \in Places(r) : OnPage(k)}
            /\ users => answer.result.total = Cardinality(listed)

\* A user whose address contains the text that was searched, in any case, is
\* counted: whatever the text, the wildcards of LIKE only add to the answer.
SearchFindsTheMail ==
    Answered("users-list") /\ request.onlyRole = "" /\ request.onlyState = "" =>
        LET Holds(u) == \E i \in 0..Len(u.mail) :
                            LET n == Strip(request.search)
                            IN  i + Len(n) <= Len(u.mail)
                                /\ Lower(SubSeq(u.mail, i + 1, i + Len(n))) = Lower(n)
        IN  answer.result.total >= Cardinality({u \in request.users : Holds(u)})

\* Rankings, series, pages and searches against what they are asked for.
QueryInv ==
    PopularIsPopular /\ SeriesAddsUp /\ NumbersAddUp /\ PagesFollowOneAnother /\ SearchFindsTheMail
=============================================================================
