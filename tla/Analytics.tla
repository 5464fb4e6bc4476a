------------------------------ MODULE Analytics ------------------------------
(***************************************************************************)
(* The analytics of production: the middleware sees every request end and  *)
(* spawns up to three tasks (middleware/analytics.py), each of which is    *)
(* one transaction on the event, point and activity tables, or is lost     *)
(* (analytics_service.py); the administrator's overview (routes/admin.py)  *)
(* reads these tables, one statement after the other, while tasks go on    *)
(* committing.                                                             *)
(***************************************************************************)
EXTENDS Integers, FiniteSets, FiniteSetsExt

CONSTANTS
    Hits,           \* requests
    Plan,           \* Plan[h]: the kind and user of a request
    Accounts,       \* signed-in users
    Nobody,
    DayLength,      \* instants in a day
    MaxInstant      \* bound on the clock

\* Health checks, documentation, administration and GET /auth/me are skipped;
\* paging a sheet and the ranking are GET requests below /api/v1/tools/ and no
\* runs; a multipart run is an upload.
RequestKinds == {"skipped", "other", "run", "upload"}

ASSUME AnalyticsAssumption ==
    /\ DayLength \in Nat \ {0} /\ MaxInstant \in Nat /\ Nobody \notin Accounts
    /\ \A h \in Hits : Plan[h].kind \in RequestKinds /\ Plan[h].user \in Accounts \cup {Nobody}

VARIABLES
    instant,
    profiles,       \* accounts that have a row in users
    hit,            \* each request: its start and outcome
    tasks,          \* spawned tasks that have not ended: <<event name, request>>
    metrics,        \* metric_events, likewise
    daily,          \* user_activity_daily, by account and day
    report,         \* the overview that is being computed, or is done
    late            \* history: failures of runs committed since its count of the runs

analyticsVars == <<instant, profiles, hit, tasks, metrics, daily, report, late>>

Fresh == [state |-> "fresh", since |-> 0, ok |-> TRUE]
User(h) == Plan[h].user
NoReport == [next |-> "none", since |-> 0, uses |-> 0, done |-> 0, today |-> 0,
             errors |-> 0, errorsToday |-> 0]
Day(t) == t \div DayLength
EventNames == {"endpoint_performance", "tool_usage", "file_upload"}

AnalyticsTypeOK ==
    /\ instant \in 0..MaxInstant
    /\ profiles \subseteq Accounts
    /\ \A h \in Hits :
          hit[h].state \in {"fresh", "running", "over"} /\ hit[h].since \in 0..instant
    /\ tasks \cup metrics \subseteq EventNames \X Hits
    \* A task is gone once its event is stored.
    /\ tasks \cap metrics = {}
    /\ DOMAIN daily \subseteq Accounts \X (0..Day(instant))
    /\ report.next \in {"none", "uses", "errors", "today", "over"}

AnalyticsInit ==
    /\ instant = 0
    /\ profiles \in SUBSET Accounts
    /\ hit = [h \in Hits |-> Fresh]
    /\ tasks = {} /\ metrics = {}
    /\ daily = << >>
    /\ report = NoReport /\ late = 0

-----------------------------------------------------------------------------
(* The middleware.                                                         *)

\* dispatch, up to call_next: the time of a request is that of its start.
BeginHit(h) ==
    /\ hit[h].state = "fresh"
    /\ hit' = [hit EXCEPT ![h] = [state |-> "running", since |-> instant, ok |-> TRUE]]
    /\ UNCHANGED <<instant, profiles, tasks, metrics, daily, report, late>>

Tracked(kind) ==
    CASE kind = "skipped" -> {}
      [] kind = "other"   -> {"endpoint_performance"}
      [] kind = "run"     -> {"endpoint_performance", "tool_usage"}
      [] kind = "upload"  -> EventNames

\* dispatch, after the response: whatever it is, the tasks are spawned, and the
\* response does not wait for them.
EndHit(h, ok) ==
    /\ hit[h].state = "running"
    /\ hit' = [hit EXCEPT ![h].state = "over", ![h].ok = ok]
    /\ tasks' = tasks \cup Tracked(Plan[h].kind) \X {h}
    /\ UNCHANGED <<instant, profiles, metrics, daily, report, late>>

-----------------------------------------------------------------------------
(* The service.                                                            *)

\* Variant for a mutation: the last event is the one that came last.
WithActivityInOrder(day, t) ==
    IF day = <<>> THEN [count |-> 1, first |-> t, last |-> t]
    ELSE [day EXCEPT !.count = @ + 1, !.last = t]

\* _touch_user_activity: INSERT ... ON CONFLICT DO UPDATE with least and greatest.
WithActivity(day, t) ==
    IF day = <<>> THEN [count |-> 1, first |-> t, last |-> t]
    ELSE [count |-> day.count + 1,
          first |-> Min({day.first, t}), last |-> Max({day.last, t})]

Activity(u, d) == IF <<u, d>> \in DOMAIN daily THEN daily[<<u, d>>] ELSE <<>>
\* The row of key k is r from now on.
WithRow(table, k, r) == [x \in DOMAIN table \cup {k} |-> IF x = k THEN r ELSE table[x]]

\* _persist_...: event, points and the activity of the day in which the request
\* started, in one transaction.  The tables refer to users, so that an account
\* without a profile has no events.
Commit(task) ==
    LET h == hit[task[2]]
        u == User(task[2])
        k == <<u, Day(h.since)>>
    IN
    /\ task \in tasks
    /\ u \in profiles \cup {Nobody}
    /\ tasks' = tasks \ {task}
    /\ metrics' = metrics \cup {task}
    /\ daily' = IF u = Nobody THEN daily
                ELSE WithRow(daily, k, WithActivity(Activity(u, k[2]), h.since))
    /\ late' = IF task[1] = "tool_usage" /\ ~h.ok /\ report.next = "errors" THEN late + 1 ELSE late
    /\ UNCHANGED <<instant, profiles, hit, report>>

\* _guard: an error of the database is logged, the transaction rolled back.
LoseTask(task) ==
    /\ task \in tasks
    /\ tasks' = tasks \ {task}
    /\ UNCHANGED <<instant, profiles, hit, metrics, daily, report, late>>

\* The process stops: its requests and tasks are gone.
Crash ==
    /\ tasks # {} \/ \E h \in Hits : hit[h].state = "running"
    /\ tasks' = {}
    /\ hit' = [h \in Hits |-> IF hit[h].state = "running" THEN Fresh ELSE hit[h]]
    /\ report' = NoReport /\ late' = 0
    /\ UNCHANGED <<instant, profiles, metrics, daily>>

\* The first profile row of an account (_ensure_profile).
AddProfile(u) ==
    /\ u \notin profiles /\ profiles' = profiles \cup {u}
    /\ UNCHANGED <<instant, hit, tasks, metrics, daily, report, late>>

PassInstant ==
    /\ instant < MaxInstant /\ instant' = instant + 1
    /\ UNCHANGED <<profiles, hit, tasks, metrics, daily, report, late>>

-----------------------------------------------------------------------------
(* GET /admin/overview: `now` is taken once, then one statement after the  *)
(* other.                                                                  *)

Runs == {h \in Hits : <<"tool_usage", h>> \in metrics}
Failed(S) == {h \in S : ~hit[h].ok}
SinceDay(S, d) == {h \in S : Day(hit[h].since) >= d}

BeginReport ==
    /\ report = NoReport
    /\ report' = [NoReport EXCEPT !.next = "uses", !.since = Day(instant)]
    /\ UNCHANGED <<instant, profiles, hit, tasks, metrics, daily, late>>

\* The statement with the totals and the success rate.
CountUses ==
    /\ report.next = "uses"
    /\ report' = [report EXCEPT !.next = "errors", !.uses = Cardinality(Runs),
                                !.done = Cardinality(Runs \ Failed(Runs)),
                                !.today = Cardinality(SinceDay(Runs, report.since))]
    /\ late' = 0
    /\ UNCHANGED <<instant, profiles, hit, tasks, metrics, daily>>

CountErrors ==
    /\ report.next = "errors"
    /\ report' = [report EXCEPT !.next = "today", !.errors = Cardinality(Failed(Runs))]
    /\ UNCHANGED <<instant, profiles, hit, tasks, metrics, daily, late>>

CountErrorsToday ==
    /\ report.next = "today"
    /\ report' = [report EXCEPT !.next = "over",
                    !.errorsToday = Cardinality(SinceDay(Failed(Runs), report.since))]
    /\ UNCHANGED <<instant, profiles, hit, tasks, metrics, daily, late>>

AnalyticsNext ==
    \/ \E h \in Hits :
          \/ BeginHit(h)
          \/ \E ok \in BOOLEAN : EndHit(h, ok)
    \/ \E task \in tasks : Commit(task) \/ LoseTask(task)
    \/ \E u \in Accounts : AddProfile(u)
    \/ Crash \/ PassInstant
    \/ BeginReport \/ CountUses \/ CountErrors \/ CountErrorsToday

AnalyticsSpec == AnalyticsInit /\ [][AnalyticsNext]_analyticsVars

-----------------------------------------------------------------------------

\* The activity of a day agrees with the events that are stored, in whatever
\* order the tasks commit and whichever of them are lost, midnight included: its
\* count is theirs (a run counts for its request, its tool and its upload), its
\* first and last time are the bounds of theirs.
ActivityAddsUp ==
    \A u \in Accounts, d \in 0..Day(MaxInstant) :
       LET stored == {e \in metrics : User(e[2]) = u /\ Day(hit[e[2]].since) = d}
           times == {hit[e[2]].since : e \in stored}
       IN  IF stored = {} THEN Activity(u, d) = <<>>
           ELSE Activity(u, d) = [count |-> Cardinality(stored),
                                  first |-> Min(times), last |-> Max(times)]

\* The numbers of an overview agree up to what was committed while it was being
\* computed: the errors are the failures among the runs it counted and those
\* that came between the two statements.
OverviewAddsUp ==
    report.next \in {"today", "over"} => report.errors = report.uses - report.done + late

\* The three tables agree with each other, and the overview with them, in
\* whatever order the tasks commit and whichever of them are lost.
AnalyticsInv == AnalyticsTypeOK /\ ActivityAddsUp /\ OverviewAddsUp
=============================================================================
