----------------------------- MODULE Dashboard -----------------------------
(***************************************************************************)
(* The administrators' dashboard (admin/AdminDashboard.tsx): the tab is    *)
(* kept in the URL, which follows a click after a while; each tab that     *)
(* becomes active is loaded, and so is the trend of another period; the    *)
(* spinners and the error are shared by all tabs, and nothing that was     *)
(* asked for is cancelled.                                                 *)
(***************************************************************************)
EXTENDS Naturals, FiniteSets

CONSTANTS
    Tabs, NoTab,        \* "overview", "users", "activity", ...
    Periods,            \* the days of a trend
    MaxFetches            \* bound on the fetches

VARIABLES
    activeTab, going, pendingTab,  \* the tab of the URL, the one the URL is to have, and the one clicked
    period, trend,              \* the days chosen; the call and the days of the trend on the screen
    loaded, failing,             \* the tabs whose data is there; the error
    loadingTab, refreshing,
    fetches, made, trends,        \* fetches in flight; how many were made; the last one for a trend
    wanted                      \* history: the tab clicked last

dashVars == <<activeTab, going, pendingTab, period, trend, loaded, failing, loadingTab, refreshing,
              fetches, made, trends, wanted>>

ASSUME DashboardAssumption ==
    /\ "overview" \in Tabs /\ NoTab \notin Tabs /\ "period" \notin Tabs
    /\ 30 \in Periods /\ MaxFetches \in Nat

visibleTab == IF pendingTab = NoTab THEN activeTab ELSE pendingTab

DashTypeOK ==
    /\ activeTab \in Tabs /\ going \in Tabs \cup {NoTab} /\ loaded \subseteq Tabs
    /\ pendingTab # activeTab
    /\ \A c \in fetches : c.of \in Tabs \cup {"period"} /\ c.of # "activity"

\* A call of loadTab, with periodDaysRef.current, or of handlePeriodChange.
Fetch(of, days) ==
    /\ made < MaxFetches
    /\ made' = made + 1
    /\ fetches' = fetches \cup {[n |-> made + 1, of |-> of, days |-> days]}
    /\ trends' = IF of \in {"overview", "period"} THEN made + 1 ELSE trends

DashInit ==
    /\ activeTab \in Tabs \ {"activity"}
    /\ going = NoTab /\ pendingTab = NoTab /\ wanted = activeTab
    /\ period = 30 /\ trend = [n |-> 0, days |-> 30]
    /\ loaded = {} /\ failing = FALSE
    /\ loadingTab = TRUE /\ refreshing = FALSE
    /\ fetches = {[n |-> 1, of |-> activeTab, days |-> 30]}
    /\ made = 1 /\ trends = (IF activeTab = "overview" THEN 1 ELSE 0)

\* Variant for a mutation: the period is the one loadTab was made with.
LoadTabAtFirst(tab, background) ==
    /\ failing' = FALSE
    /\ IF tab = "activity"
       THEN loadingTab' = FALSE /\ UNCHANGED <<refreshing, fetches, made, trends>>
       ELSE /\ Fetch(tab, 30)
            /\ IF background THEN refreshing' = TRUE /\ UNCHANGED loadingTab
                             ELSE loadingTab' = TRUE /\ UNCHANGED refreshing

\* loadTab; the activity loads itself.
LoadTab(tab, background) ==
    /\ failing' = FALSE
    /\ IF tab = "activity"
       THEN loadingTab' = FALSE /\ UNCHANGED <<refreshing, fetches, made, trends>>
       ELSE /\ Fetch(tab, period)
            /\ IF background THEN refreshing' = TRUE /\ UNCHANGED loadingTab
                             ELSE loadingTab' = TRUE /\ UNCHANGED refreshing

\* setActiveTab, and the effect that clears a pending tab which the URL has.
\* A later navigation takes the place of one that has not ended.
ClickTab(tab) ==
    /\ wanted' = tab
    /\ IF tab = visibleTab THEN UNCHANGED <<pendingTab, going>>
       ELSE /\ pendingTab' = IF tab = activeTab THEN NoTab ELSE tab
            /\ going' = tab
    /\ UNCHANGED <<activeTab, period, trend, loaded, failing, loadingTab, refreshing, fetches, made, trends>>

\* The URL has caught up: the tab is active and is loaded.
UrlFollows ==
    /\ going # NoTab /\ going' = NoTab
    /\ activeTab' = going
    /\ pendingTab' = IF pendingTab = going THEN NoTab ELSE pendingTab
    /\ IF going = activeTab THEN UNCHANGED <<failing, loadingTab, refreshing, fetches, made, trends>>
       ELSE LoadTab(going, FALSE)
    /\ UNCHANGED <<period, trend, loaded, wanted>>

\* The button of the header, and the one of the error.
RefreshTab ==
    /\ \/ ~loadingTab /\ ~refreshing /\ LoadTab(activeTab, TRUE)
       \/ failing /\ LoadTab(activeTab, FALSE)
    /\ UNCHANGED <<activeTab, going, pendingTab, period, trend, loaded, wanted>>

\* handlePeriodChange: the error that is shown stays.
ChangePeriod(days) ==
    /\ visibleTab = "overview" /\ "overview" \in loaded /\ ~loadingTab /\ ~failing
    /\ period' = days
    /\ Fetch("period", days) /\ refreshing' = TRUE
    /\ UNCHANGED <<activeTab, going, pendingTab, trend, loaded, failing, loadingTab, wanted>>

Stops(c) ==
    /\ refreshing' = FALSE
    /\ loadingTab' = (c.of = "period" /\ loadingTab)
    /\ fetches' = fetches \ {c}

TabComes(c) ==
    /\ Stops(c)
    /\ loaded' = loaded \cup ({c.of} \cap Tabs)
    /\ trend' = IF c.of \in {"overview", "period"} THEN [n |-> c.n, days |-> c.days] ELSE trend
    /\ UNCHANGED <<activeTab, going, pendingTab, period, failing, made, trends, wanted>>

TabFails(c) ==
    /\ Stops(c) /\ failing' = TRUE
    /\ UNCHANGED <<activeTab, going, pendingTab, period, trend, loaded, made, trends, wanted>>

DashNext ==
    \/ \E tab \in Tabs : ClickTab(tab)
    \/ UrlFollows \/ RefreshTab
    \/ \E days \in Periods : ChangePeriod(days)
    \/ \E c \in fetches : TabComes(c) \/ TabFails(c)

DashSpec == DashInit /\ [][DashNext]_dashVars

-----------------------------------------------------------------------------

\* The tab on the screen is the one clicked last, before and after the URL has
\* it, and the URL ends with it.
VisibleIsWanted ==
    /\ visibleTab = wanted
    /\ going = NoTab => activeTab = wanted

\* When the trend asked for last is the one on the screen, it is of the period
\* that is chosen, though loadTab was made before the period was.
TrendIsOfThePeriod == trend.n = trends => trend.days = period

\* Once all fetches have ended the active tab has data, or the error is shown,
\* whichever tab's call failed first or last.
TabIsLoaded == fetches = {} /\ ~failing /\ activeTab # "activity" => activeTab \in loaded

\* The dashboard spins only while a call is in flight.
DashSpinnerIsBacked == loadingTab \/ refreshing => fetches # {}

\* The tab that is wanted is shown, loaded, and for the period that is chosen.
DashInv == DashTypeOK /\ VisibleIsWanted /\ TrendIsOfThePeriod /\ TabIsLoaded
=============================================================================
