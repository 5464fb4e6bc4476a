# Verification of XLSXWorld

XLSXWorld is a web application of spreadsheet tools: a FastAPI server (`server/`), with PostgreSQL
for accounts, history and counters and Supabase for authentication and object storage, and a Next.js
client (`client/`). This directory holds TLA+ models of the parts in which several actors, two stores
or several requests in flight have to agree, and of what the tools compute; TLC configurations that check
them; and TLAPS proofs.

## Inventory

| part | state | operations | hard behaviour | what makes it correct |
|---|---|---|---|---|
| Job history (`services/jobs_service.py`, `storage_service.py`, `routes/me.py`, `tools/_recording.py`, `cli/cleanup_expired_jobs.py`) | `tool_jobs` rows; encrypted objects in a bucket | record (background task), list, download, delete, cleanup pass (own process) | two stores without a common transaction, failures between their steps, overlapping passes, deletes during downloads, crashes | no object without a row, no offered job without an object, deletes are final, retention is met |
| File encryption (`services/file_encryption.py`) | none; the key of the process | pack, open | a restart with another key in between | what was sealed is opened, or refused |
| Daily quota (`core/quota_guard.py`, `services/quota_service.py`, `core/limits.py`, admin reset) | one counter per key and UTC day | charge, refuse, reset, report | races on a counter, resets and midnight in between, key outage | no more than the limit admitted, nobody refused early, exact counter |
| Token verification (`core/security.py`) | cached key set with expiry and lock | verify, refresh | concurrent refresh, rotation of keys, outage | one fetch at a time, no stale key after its lifetime, checks end |
| Accounts (`services/auth_service.py`, `routes/auth.py`) | profile rows | sign up, sign in, profile upsert, update | upserts race each other, suspension, promotion and changes of address | roles are the operators', names stay, addresses settle, answers were rows |
| Browser session (`client/app/api`, `client/lib/api.ts`, `AuthProvider`) | cookies, account shown, refresh in flight | login, proxy, refresh and retry, logout | rotation of refresh tokens, several tabs and calls, lost answers | one refresh per tab, no session lost without cause, calls end, logout is final |
| Workbook store (`tools/inspect/`) | dictionary of parsed workbooks with time of use and size | preview (upload), page | two budgets, eviction, sliding lifetime | budgets kept, recently used workbooks stay, expired ones do not return |
| Inspect page (`InspectSheets.tsx`) | workbook shown, active tab, loaded rows, loading flags; search, sort, switches, sizes, gesture under way | upload, select tab, load more, load all; search, sort, switch, resize, pan, reset | responses in flight across tabs and uploads, closures with flags of an older render; gestures of two pointers | the table is a prefix of the active sheet, flags are cleared; every row that matches is shown once and in order, the reset is offered and complete |
| Analytics (`middleware/analytics.py`, `services/analytics_service.py`) | events, points, daily activity | fire-and-forget tasks; the overview | order of tasks, midnight, lost tasks, reports computed meanwhile | the tables agree with each other, and the overview with them |
| Contact (`services/contact_delivery.py`, both forms) | none; the form's status and captcha token | rate limit, captcha, webhook, then Telegram | second channel fails after the first, lost answers, tokens used once | what is shown as sent was delivered, duplicates are explained |
| Spreadsheet tools (`tools/clean, data, merge, split, validate, analyze, format`) | none | one answer per request | name collisions, ties, ragged rows, two implementations of one tool | agree with a reference definition |
| Conversion, protection, workbook reading and editing | none | one answer per request | naming, typing, quoting | everything is converted, and what this program wrote it reads again |
| Administration (`routes/admin.py`, `routes/system.py`) | none | rankings, series, lists, search | ordering against limits, ties, pages | lists are what they are asked for |
| Tool pages (30 pages with a form) | file, preview, selection, result, spinners | pick, preview, select, run | answers overtake each other, the dropzone is never disabled | what is shown and sent is of the chosen file |
| Lists: history, users, activity | rows, filter, page, spinners, pending delete | load, filter, search, more, turn, delete | lists and deletes in flight together | the list is the filter's, without gaps; deleted rows stay off |
| Dashboard (`AdminDashboard.tsx`) | tab, period, data of tabs | click, load, change period, refresh | navigation, loads and trends overtake each other | the tab wanted is shown and loaded |
| Account pages (`login`, `forgot-password`, `reset-password`, `my-account`, `ProfileHeader`, `SecurityCard`, `useRequireAuth`) | form or cards of the page, user of the provider, navigation under way | sign in and up, recover, set a password, rename, sign out, redirect | answers that find another page, redirects against navigations, a card unmounted by its own request | nobody stays on a page that is not theirs, the name shown is the one stored, nothing stays disabled, errors are of the form |
| Rate limiter, application factory, configuration, schemas, header and marketing pages, messages | - | - | - | not modelled, see below |

How they interact: a tool request passes `enforce_quota` (which resolves the optional principal and
charges a counter), runs a tool, and `record_and_respond` hands a signed-in run to the recorder, a
background task that runs after the response; the middleware spawns the tasks of analytics for the same
request. The history handlers and the cleaner process work on what recorders leave. Inspect requests are
not charged for pages; the Inspect page reads the workbook store by token. The pages call the API through
the proxy with the cookies of the browser session; a call refused with 401 refreshes the session once and
is sent again; the server verifies each token against the cached key set and keeps the profile row in
step with its claims. The administrator's queries read what analytics and the history wrote.

## Modules

| module | what it is |
|---|---|
| `JobHistory` | rows, objects and the three kinds of actor that change them |
| `JobLifecycle` | abstract specification of one job's life; `JobHistory` implements it (`Lifecycle`, an `INSTANCE` with the phase of a job computed from both stores) |
| `JobHistoryProofs` | theorems about `JobHistory`, for all constants |
| `QuotaGuard` | a tool request from the guard to its answer, counters, resets, midnight |
| `QuotaBook` | abstract specification of the counters: entry and verdict at one instant; `QuotaGuard` implements it (`Book`) |
| `QuotaGuardProofs` | theorems about `QuotaGuard`, for all constants |
| `JwksCache` | the key set, its lock and the verifications that wait for it |
| `JwksCacheProofs` | theorems about `JwksCache` |
| `UserProfile` | the row of one person under concurrent requests, operators and the provider |
| `UserProfileProofs` | theorems about `UserProfile` |
| `AuthSession` | the cookies of one browser, its tabs, the route handlers and the retry of refused calls |
| `AuthSessionProofs` | theorems about `AuthSession` and `AccountPages` |
| `InspectStore` | the token store of parsed workbooks |
| `InspectStoreProofs` | theorems about `InspectStore` |
| `InspectViewer` | the React page that reads it |
| `TableView` | the table of that page: rows shown, order, sizes, gestures |
| `AccountPages` | the pages of an account and the redirects between them |
| `Analytics` | requests, their tasks, the three tables and the overview |
| `ContactDelivery` | the two forms, the rate limit, the captcha and the two channels |
| `DeliveryProofs` | theorems about `ContactDelivery` and `Analytics` |
| `Sheets` | cells, texts and workbooks; upload gate, readers, choice of sheets and columns, titles |
| `CleanTools`, `TableTools`, `ReportTools`, `FileTools`, `ConvertTools` | the endpoints of the tools over `Sheets`, each an operator from form to answer |
| `AdminQueries` | rankings, series, lists and searches over small tables |
| `ToolPages`, `ListPages`, `Dashboard` | the pages that have several requests in flight |
| `Picking` | `Array.prototype.filter`, as the first two use it |
| `PageProofs` | theorems about these, `InspectViewer` and `TableView`, and about all pages together |
| `MCServer`, `MCPages`, `MCAccount` | the instances of the modules that share no state, one of them per behaviour (`part`) |
| `MCProgress` | the parts of `MCPages` and the history of jobs, with the fairness of each |
| other `MC...` | the constants of the model-checked instances |

A definition called a *variant for a mutation* is not part of a specification: it is what an operator
would be with a plausible mistake, and putting it in the operator's place makes the named property fail
(`PROJECT.json`, "mutants").

### JobHistory

Every `await` on storage or the database ends an action, so actors interleave where the code can be
suspended. `record_authenticated_job` is `Schedule`, `Upload`, `Insert` and, after a database error,
`Compensate`; a download is `Download` (read the row: 404, 410 or go on) and `FetchObject`; a delete is
`Delete`, `Unlink` (the object) and `Erase` (the row); a cleaner pass is `StartPass` (select the expired
rows), one `Sweep` per row in any order (the query has no ORDER BY) and `CommitPass` (storage paths set
to NULL and ancient rows pruned, in the one transaction that `run_cleanup` commits). Each call has its
failing forms: *refused* is an HTTP status >= 400, which the code catches as `StorageServiceError`;
*broken* is an exception of httpx, which it does not catch in `delete_for_user` and `cleanup_expired`.
A failed call may or may not have had its effect. `ApiCrash` loses tasks and handlers, `PassLost` a
cleaner, `StalePass` is SQLAlchemy's StaleDataError when a row of the pass was deleted meanwhile.

History variables: `hit`, the jobs with a fault in an operation *of their own*; `acked`, the jobs with a
delete answered 204. The properties are stated relative to `hit`, so that they say something about
faulty runs too: a fault on one job never harms another.

Abstractions: one object name per job id (`_object_path` contains it); columns no property reads are
dropped; `expires_at` and `created_at` are the same instant plus a constant; time is in ticks.

### QuotaGuard

`enforce_quota` reads the principal and the date in `Enter`; `Charge` is the upsert, its commit and the
comparison. `ResolveDegraded` is the outage of the signing keys, which `get_current_user_optional` turns
into an anonymous caller; FastAPI caches the dependency, so guard and handler see the same principal.
An administrator's reset is `ResetReads` and `ResetWrites`, with anything in between. History variables
`charged`, `period` and `resets` tell which requests paid on a counter between which two resets. They are
also what maps `QuotaGuard` to `QuotaBook`: the book of a counter is the set of those who paid since its last
reset (`OnBook`), the verdict is read off answer and progress (`Verdicts`). The code charges first, with no
check before, and compares after its commit; the refinement says that this is as good as a check and an
entry at one instant. A request that failed after its commit is `lost`, and stays in the book.

### InspectStore

The lock is never held across an `await`, so every request's work on the dictionary is one step. Two
uses never have the same time, so of the times the model keeps their order, `later[t]`, the tokens used
after `t`, and, on a coarser clock, the distance to the present, for the time-to-live. `MovedLast` is a
use, and `EvictFor` what `_evict_expired` and the eviction by either budget leave: a set that contains
with an entry all entries used later. A page request refreshes the entry (the lifetime is
sliding, although the page says "Token expires after 15 minutes", client/messages/en.json:422). An
expired workbook stays in the dictionary until the next request, of whatever token, evicts it;
`DeadStaysDead` says that it is never served again.

### InspectViewer

One step per user event with the render and effects it triggers, and per continuation of an async
handler. `Enter` is the load effect of a tab: its `loadPage(false)` closes over `pagingLoading` of the
render, while the reset effect of the same commit clears that flag only for the next one. `mixed` is a
history variable: the view may hold responses of an earlier tab or workbook.

### TableView

What of the rows at hand the table shows is an operator of its state (`TableRows`): the rows that match the
search, without the empty ones if they are hidden, in the order `Before`. The rows change under it as
`InspectViewer` lets them (`RowsCome`, `ChooseSheetTab`, `WorkbookComes`, with any table). A gesture is a
reference (`resizeState`, `panPointer`) and a flag of the render; handlers read the one and effects the other.
`null` and the empty text are both cells without a value, and differ for the duplicates only (`EmptyText`).
Texts are tokens with their lower case, the texts they contain and their rank in the order of `localeCompare`.
A sheet of a mixed column with negative numbers is left out: there the comparator of `Array.sort` is not
transitive, and the order is the engine's.

### AccountPages

One tab, one account and the page that is mounted (`route`). A navigation (`heading`) is asked for by a link,
by a handler or by an effect, the last one wins, and `Arrive` ends it; `Render` and `RenderLogin` are the
effects of `useRequireAuth` and of the login page, which run when what they depend on has changed. A request
remembers whether the page or card that waits for it is still mounted (`here`): its handler goes on either way,
sets the user of the provider and navigates, but changes no state of what is gone. Of the session the pages
see only that there is one; `AuthSession` is how it is kept. History variables: `lapsed`, the session began or
ended without an answer to this tab; `muddled`, requests about the user overlapped.

### AuthSession

`jar` holds the two cookies and whether they have a `maxAge`; `net` the requests, each with the cookies
of the moment it was sent, and the responses, each with the cookies it sets. A tab has one thread for
`AuthProvider` (mount effect, login, logout, refresh), one for the shared `refreshInFlight` of
`lib/api.ts`, and one per call of `api.auth`; `pc` says what each waits for. A route handler changes at
most one thing behind it, so `Serve` is one step: `ServeRefresh` is `handleRefresh` and the refresh
within `handleMe`, `ServeMe`, `ServeLogin`, `ServeLogout` and `ServeProxy` the others; `ServeFails` is a
failure of the backend, which clears the cookies of a refresh even if the provider has renewed the
session or the route handler cannot read its 200 (the tab then takes the refresh for a success and is refused
on the retry), and `Lose` a request or response that gets lost. `Receive` stores the cookies and runs the
script up to its next `await`: `ReceiveFirst`, `ReceiveRefresh`, `ReceiveRetry` and `ReceiveQuit` are
the awaits of `sendRequest` and `clearSessionAndRedirect`, the last of which loads a page. Requests of a
page that is gone may still be served.

The identity provider is external: refresh tokens are used once and rotate; the last one used may be
answered once more (its reuse interval) or not; a session may end at any time. An access token is valid
until it expires, whatever becomes of its session, since the backend checks its signature only.
`Expire` assumes that an access token outlives the response that brings it and the retry that follows.
The 30 days after which a browser drops a kept refresh cookie are left out: in the model only answers and the
end of a browser session remove it.

History variables: `asked`, the sessions opened with "Remember me"; `torn`, those whose renewal a
failure or a competing request disturbed; `out`, the user signed out with nothing under way; `sure`, the
tabs that learnt the account after the last login; `murky`, a login or logout overlapped with another
request. They carry the exceptions of the properties: the code makes no provision for a refresh answered
after a logout, or for two tabs that refresh at once, and the properties say what holds otherwise.

### JwksCache

One step per suspension of `verify_access_token`: `StartCheck` reads the clock and the cached set,
`TakeLock` is the acquisition of the lock and the second look at the expiry (with the time of before the
wait), `Provide` the provider's answer, `StoreKeys` and `FetchFails` the end of the fetch. Waiters are
served in order, as asyncio does. The provider is external: it publishes and withdraws keys at any time.
`AcceptedKeysAreFresh` bounds how long a withdrawn key is still accepted, `RefusedKeysAreNew` how long a
published one is refused, `FetchesAreNeeded` says that nobody fetches while the set is valid; `ChecksEnd`
is the liveness of the lock.

### UserProfile

Every statement is its own transaction, so each is a step: `ReadRow`, `UpsertRow` and `ReloadRow` for the
upsert of a sign-in, refresh or `GET /auth/me`, `WriteRow` and `RefreshRow` for `PATCH /auth/me`,
`CreateUser` and `SignIn` for a sign-up. The surroundings change the address at the provider, expire
tokens with the old one, take the address with another row (it is unique), suspend and promote. The
session does not expire its objects at a commit, so `ReloadRow` may return the row as it was read first:
`AnswersWereRows` says no more than that the answer was the row at some moment of the call.
`SuspensionEndsWithARequest` says what the code does, not what an operator may expect: the next request
with a valid token makes a suspended profile active again.

### Analytics

`BeginHit` and `EndHit` are the middleware around a request, `Commit` a task in its own session,
`LoseTask` and `Crash` its failure. `WithActivity` is the upsert of the day's activity, with the earlier
and the later of the times, whatever the order of the commits. The overview is several statements
(`BeginReport`, `CountUses`, `CountErrors`, `CountErrorsToday`), and `late` counts what came in between.

### ContactDelivery

`Write`, `Solve`, `Submit`, `Receive` and `Lose` are the form, `CountRequest`, `CheckCaptcha` and `Post`
the server. Writing leaves the status as it is, a success empties the form (`filled`) but not the captcha's
token, and a contact form submitted without a field or a token is an error that sends nothing. `told` are
the messages the visitor was told are sent. Turnstile accepts a token once. A channel may have taken a
message without answering. (A success also empties name and address of a signed-in visitor, whose fields
are disabled, `ContactForm.tsx:72`, `:118`: they stay empty until the user is read again. The model has one
form and one kind of visitor.)

### Sheets and the tools

A text is a sequence of tokens, a cell a kind, a text and a number, a workbook a sequence of sheets. A
tool keeps nothing between requests, so a request is answered in one step by an operator of its fields
(`TrimSpacesAnswer`, ...), which makes the checks of the handler in their order (`Require`, `Then`) and
computes what it sends back; parsers, printers and ciphers are external and modelled by what is read from
and given to them. `MCServer` enumerates the forms and workbooks; each is an initial state, and the
properties compare the answer with a definition of another kind: the sort with the order it should have,
the split with the join, the conversion with the way back, the edit in place with the rebuild, the list of
changes with the patch.

`AdminQueries` turns page and page size into an offset (`Offset`) after the bounds of the query are checked,
which comes after `require_admin`. `PagesFollowOneAnother` counts places, not offsets: place `k` is on page
`(k - 1) \div size + 1`. Rows of one instant have no order of their own (`ORDER BY created_at`, `occurred_at`,
without a further column), so PostgreSQL may list them differently in each request: between two requests one of
them can be lost or doubled at a border. The model has that (`Listings`, anew in each request), and the property
says which rows it may happen to. `NumbersAddUp` is about the other tables of the administration. Averages and
percentiles of durations are left out.

### ToolPages, ListPages, Dashboard

A page is the record of what tells it from the others (what it selects, from what the selection starts,
whether picking a file clears the preview, how many spinners it has, when it runs). One step per user
event, per answer and per failure; answers come in any order, nothing is cancelled. History variables
(`past`, `calm`, `source`, `confirmed`, `wanted`) carry the exceptions: what the page promises holds
unless two uploads crossed, a list changed under its pages, and so on, and the properties say which. In
`ListPages` the server is in the model: rows are recorded and deleted while lists are on their way.
`Picking` writes a filtered list by the places of the members that stay (`Only`), since the prover has no
facts about `SelectSeq`.

## Runs

| run | instance | shows |
|---|---|---|
| `account` | the history of 1 job, 2 users, 2 handlers, 2 cleaners, retentions 1 and 2, clock to 3, 1 fault; the account pages with 2 names, 2 passwords and 2 requests of the visitor; 3 tool requests of one account, limit 2, a reset, a midnight, a fault | the four safety properties and `RemovalIsJustified` under every interleaving; the pages show whom and what the server says; limit, refusals, counter, who pays for a history entry, and the refinement of `QuotaBook` |
| `history_deleted` | 1 job | refutes "hard-deletes the file immediately" |
| `quota_keys` | 2 requests | refutes "signed-in users are keyed by account" |
| `server` | five workbooks against 2 entries and 3 units of bytes; 2 requests of a person; 2 messages to two channels; 2 requests of analytics over a midnight; some 86 000 forms and tables | see the next table |
| `server_blanks` | the forms of `server` that rearrange tables | refutes "None always sorts last" |
| `server_chunks` | the same | refutes "Max rows per chunk (including header)" |
| `progress` | two workbooks; three tables and four events; two files on 18 pages; 4 rows on three lists; three tabs; two checks of tokens; the history of 2 jobs, 1 handler, 1 fair cleaner, clock to 2, 2 faults | see the next table; the inductive invariant of the history (`StoresAgree`), the refinement of `JobLifecycle`, and that every expired object is removed in the end (`ExpiredIsErased`) |
| `viewer_tabs` | 2 responses in flight | refutes "preview one sheet at a time" |
| `session_calls` | 1 tab, 2 calls, 1 session of 2 tokens, 1 fault or restart | only a stated cause ends a session, the refresh is shared, logout is final, one answer per waiting thread |
| `session_tabs` | 2 tabs, 2 accounts, 2 sessions of 2 tokens | the account shown is the one acted for |
| `session_ends` | 1 tab, a proxied call and a profile update, fair answers | calls end |
| `session_remember` | 1 tab, 1 call | refutes "session cookies expire when you close your browser" |

The properties of `server`, of the pages in `progress` and of the account pages are conjunctions of named parts:

| property | says |
|---|---|
| `StoreInv`, `DeadStaysDead` | budgets, eviction of the least recently used, expiry for good |
| `ProfileInv`, `ProfileSteps` | roles and addresses; answers, suspensions, names and errors |
| `ContactInv` | sent is delivered; twice only after a failure; a captcha token pays once |
| `AnalyticsInv` | activity and overview add up |
| `QueryInv` | the popular tools are the popular ones; every series has all days and every table all its rows; pages follow one another; a search finds what contains the text |
| `CleanInv` | the edit in place and the rebuild give the same cells; only chosen text changes; trimming keeps the words; one of each duplicate stays; only empty rows go |
| `TableInv` | sort, split column, transpose, merge, append, split sheet and split workbook against their definitions (where blanks stand in a descending key, and what the size of a part counts, are the refuted claims) |
| `ReportInv` | the comparison rebuilds the second workbook; blanks, statuses, statistics and errors are those of the cells |
| `FormatInv` | widths, protection and its removal, encrypted objects (`FileInv`); CSV, JSON, SQL, XML and PDF: everything is there, and comes back (`ConvertInv`) |
| `ViewerInv`, `LoadAllEnds` | the table is a prefix of its sheet; load-all ends |
| `TableViewInv` | every row that matches is shown, once and in order; the reset is offered and restores; the statistics add up; one gesture at a time |
| `ChoicesInv` | what is selected is listed, and once (`PageInv`); further rows follow the former ones without gaps (`ListInv`) |
| `PageFollowsFile` | preview and result are of the chosen file; one run at a time |
| `DeletedStaysOff` | deleted rows stay off |
| `ScreenInv` | the list is the filter's, the number under it is its page's, a delete is not sent twice |
| `DashInv` | tab, trend and data |
| `EverySpinnerIsBacked` | on every page a spinner has a request in flight |
| `KeysKept`, `ChecksEnd` | the key set; checks end |
| `AccountInv` | redirects end where they must; the name and the session shown are the stored ones; spinners are backed; errors are of the form shown |

Why the bounds are enough. The interesting cases of the history need one job, two requests on it, and
two passes of which one works from an old selection; the clock runs past both retentions, and the two
retentions differ in one run and coincide in others. Two faults reach every branch (a compensation fails
only after an insert did); the proofs cover the rest. A quota limit of 2 with three requests has the
last admitted, the first refused and races among them; a reset and a midnight may come anywhere. Five
workbooks against two entries and three units of bytes evict by each budget, evict two at once, and
exceed the byte budget alone. `GuardLimit` 2 against a sheet of three pages ends the loop by the guard,
by the last page and by an empty sheet. Two calls of a tab are refused together, one after the other, or
one during the other's refresh, and the second token is the one that a superfluous refresh would lose;
two tabs and two sessions have every order of login, logout and page load. The models of the session
with two tabs leave out the calls of `api.auth`, which concern one tab's shared refresh and the same
cookies, and the failures, which `session_calls` has. `MCUndisturbed` cuts the states in which
`ShownIsActing` is excused for good. Two requests of a person have every pair of statements in every
order, with one change by the provider or an operator before, between or after them. Two
messages and two widget tokens have a retry of a delivered message and a token used twice. A midnight lies
between any two steps of analytics, and three instants tell first, last and between apart. Titles of the
tools' workbooks are at most as long as `MaxTitle` 4 allows and one longer, widths reach both limits, pages
of the PDF hold up to four columns; sheets have up to ten rows where parts are counted and up to four where
keys and ties are. Three calls of a tool page are a preview, a run and one that overtakes; three lists are
a first one, further rows and a filter's. `KeyTTL` 2 and `FetchTime` 1 on a clock to 4 have a set expire
during a fetch and between a look and the lock. Four events on a table have a search, a sort in either
direction, a resize and a pan around a change of tab or workbook; its tables have numbers, texts, ties, blanks
and rows of different lengths. Two requests on the account pages, besides the one of the mount, have each kind
overlap with each other and with every navigation; two names and two passwords tell old from new and a mismatch
from a match. `server` uses the symmetry of equal workbooks and equal
requests, `account` that of equal handlers, names and passwords, and the runs of the session that of equal
calls, tabs and accounts where they check no liveness; `progress` and `session_ends` use none.

The session repeats without bound, so there is no deadlock to allow for. In `account` a tool request is made
once, in `server` a form is answered and that is all, and in `progress` the bounds on calls and events end
every behaviour of a page: these runs, and `quota_keys`, do not check deadlock.

Fairness. `progress` assumes for `ExpiredIsErased` that the scheduler keeps starting passes and
that a pass goes on (`CleanerFairness`): the command is meant for a daily job. Faults are bounded,
everything else may stop. Besides, `progress` and `session_ends` assume only that each request of the browser is
answered or fails and that the browser reads the answer (`WF` of `Respond(c)` and of the steps of the
session), and that a check of a token goes on: the fetch has a timeout, and asyncio resumes the waiters of
a lock (`WF` of `CheckStep(c)`). Nobody is assumed to click.

## What the checks found

* A delete answered with 204 can leave the encrypted file in the bucket for ever: storage refuses, the
  row goes anyway, and the cleaner finds objects through rows only (`DeletedMeansGone`).
* During an outage of the signing keys a signed-in request is anonymous: charged to its address, with
  the anonymous limit, and not in the history (`SignedInIsKeyedByAccount`). `HistoryIsPaidFor` shows that
  it is so consistently.
* Selecting a tab while a page loads leaves the new tab with the old tab's rows
  (`OneSheetAtATime`). While nothing is in flight the page is right (`RowsAreAPrefix`).
* A login without "Remember me" becomes persistent at its first refresh: the renewed cookies are stored
  with the default `remember = true` (`KeptOnlyIfAsked`).
* A descending sort puts blanks first, since `reverse=True` turns their bucket with the others; the docstring
  of the sort key says that None always sorts last (`BlanksSortLast`).
* A part of a split sheet has `chunk_size` rows besides its header; the description of the field
  (`split_sheet.py:87`) and the page's estimate (`SplitSheet.tsx:135`) count the header among them
  (`ChunksCountTheHeader`).

Other places where the code does not do what its text says, or what one would expect, and the models do
what the code does:

* A text that starts with "=" comes out of the JSON, SQL, XML and CSV conversions as a formula (`Stored`), since
  `ws.append` takes it for one; the ways back are stated with that.
* Custom tokens are split at new lines by the page (`SplitSheet.tsx:163`) and at commas by the server.
* In place, columns that a sheet lacks are dropped from the key of Remove Duplicates and a formula's key is
  its text; rebuilt, the request is refused and the key is the saved value (`remove_duplicates.py:80`,
  `:90`). The agreement of the two (`PathsAgree`, a part of `CleanInv`) is stated for workbooks in which neither occurs.
* A modified sheet titled "summary" in another case makes Compare Workbooks fail with 500
  (`compare_workbooks.py:265`), and so does an all-empty sheet in the PDF conversion
  (`xlsx_to_pdf.py:268`).
* An INSERT statement ends at the first `);`, also inside a text (`sql_to_xlsx.py:28`); two sheets may get
  one table name (`xlsx_to_sql.py:140`); a JSON object with members `headers` and `rows` is one sheet
  (`json_to_xlsx.py:146`).
* `removeEmptyRows` calls `fetch` without the refresh and retry of `api.ts` (`clean.ts:88`).
* Some tool pages keep the preview of the former file while the next one is read
  (`PasswordProtect.tsx:27`), so that a run in between sends the new file with the old selection;
  `PageFollowsFile` has this as an exception (`past`).
* `previous_count` of a quota reset is read before the reset (`admin.py:568`); a charge in between makes it
  wrong, on the administrator's screen only.

* After a sign-up `login/page.tsx:93` goes to `/?welcome=1`, but the effect of line 54, which runs once the user
  is set, replaces that by the next path. Signing out on the account page ends on `/login?next=/my-account`
  wherever the handler went, since `useRequireAuth` comes last. A login answered after its page was left still
  navigates.
* Storing a name reads the profile again with `isLoading`, which unmounts every card of the page; if that
  request fails, the visitor is shown as signed out while the session lives (`ShownIsStored` is about the other
  direction). An unchanged name closes the editor and keeps the error of the attempt before.
* On the Inspect page a row's height belongs to its place, whatever row a sort puts there
  (`InspectSheets.tsx:1733`); sizes stay when the tab changes; search and sort stay when another workbook comes
  and its first tab was active before; switching the width mode there and back leaves a width for every column,
  so that the reset is still offered.

## Proofs

Everything is proved from the named assumptions of the modules, for any sets and numbers. They say
that the parameters have their types (numbers are natural, a budget or a page size is not 0, a null value
is none of the values) and, beyond types, only what the constants of the code satisfy: the retention of
objects is at most that of rows (`RetentionAssumption`), a fetch of keys takes less than their lifetime
(`JwksAssumption`: a timeout of seconds, a lifetime of minutes), accounts and addresses are different
keys (`CallersAssumption`), the requests to the quota are finitely many, sheet 0 exists
(`ViewerAssumption`), and a workbook has no two sheets of one name, nor the page's list of a sheet's columns
a name twice (`ToolPagesAssumption`: Excel's rule, and what `getSheetColumnNames` does). TLC evaluates all of them on the instances.

| module | theorems | state |
|---|---|---|
| `JobHistoryProofs` | the four safety properties, `RemovalIsJustified`, `ImplementsLifecycle` | `StoresAgree` |
| `QuotaGuardProofs` | limit, refusals, counter, history, `ImplementsBook` | `QuotaInv` |
| `JwksCacheProofs` | `KeysAreKept`: `KeysKept` | `KeysInv` |
| `InspectStoreProofs` | `StoreCorrect`: `StoreInv`; `DeadTokensStayDead`: `DeadStaysDead` | `IInv` |
| `UserProfileProofs` | `ProfileIsKept`: `ProfileInv`; `RequestsAreHonest`: `ProfileSteps` | `UserInv` |
| `DeliveryProofs` | `MessagesArrive`: `ContactInv`; `TablesAgree`: `AnalyticsInv` | `MailInv`, `EventsInv` |
| `AuthSessionProofs` | `SigningOutIsFinal`: `SessionInv`; `TabsShowTheirAccount`: `ShownIsActing`; `SessionsAreKept`: `NobodyIsSignedOutForNothing`; `AccountPagesAgree`: `AccountInv` | `SessInv`, `LossInv`, `AccountIInv` |
| `PageProofs` | `DashInv`, `ScreenInv`, `PageFollowsFile`, `ViewerInv`, `TableViewInv`, `DeletedStaysOff`, and `EverySpinnerIsBacked` and `ChoicesInv` of all pages | one per page; `ChoiceIInv`, `RowsIInv` |

The last column names the inductive invariant. Each was checked by TLC before it was proved, and each has
one lemma per action, or per group of actions that change the same variables.

`JobHistoryProofs`. None of the four safety properties is inductive. `StoresAgree` adds what the actors
leave to each other between their steps: only recorded jobs are touched by anybody but their recorder;
what a pass has selected or emptied is expired by the pass's own cutoff; a path is NULL only in expired
rows; and whoever has given up the last reference to an object (a nulled path, a handler about to erase,
a pass that has swept) has removed it, or a fault struck the job. The last part also says that a running
pass still has every expired object of a row on its list, which is why its prune strands nothing: this
is where `Retention <= RowRetention` is needed. The step is one lemma for the recorder, one for the
handlers, one for the cleaner and one for crash and clock, each with a step per action and conjunct. The
same invariant gives `RemovalIsJustified` and the step of the refinement (`...Follows` lemmas: every
step moves every job along an arrow of `JobLifecycle` or not at all).

`QuotaGuardProofs`. `TicketsAreSerial` says that the counts returned between two resets of a counter are
1, 2, 3, ... each once, and the counter stands at the last; `RequestsAreInStep` that where a request is
tells what happened to it. The limit follows because admitted requests map injectively into 1..limit
(the pigeonhole fact of `FiniteSetTheorems`). For the refinement each action is a lemma (`RequestIsAbstract`,
`CrashIsAbstract`, `ResetIsAbstract`): an increment is one entry in one book, and the number it returns is
the size of that book (`OneEntry`, from `CounterIsExact`), so the comparison that follows the commit decides
as `HasRoom` would have decided before it; a reset opens an empty book because nobody has yet paid in the
period it begins.

`JwksCacheProofs`. What is promised of a verdict is about the past: the key was published at some time
within the lifetime. `KeysAreDated` carries it from the provider to the verdict: the keys of an answer
were published after the fetch began, those of the set not earlier than a lifetime before it expires.
That a fetch is needed rests on the lock: a check that loads is the only one (`HolderFetches`), and the
lock is passed on in order (`LockPasses`).

`InspectStoreProofs`. `UsesAreOrdered` says that `later` is a strict linear order of the tokens handed
out. The budgets need that a finite set so ordered has an oldest element (`OldestExists`, by the
well-foundedness of finite sets), since the code evicts the oldest until the rest fits; sums of sizes
are cardinalities of sets of bytes (`BytesAdd`). `EvictedHasNoRoom` is why a workbook that was used lately is
missing only if those used since leave no room for it.

`UserProfileProofs`. Statements of different requests interleave; `CallsInStep` says what a request has
seen of the row at each of its statements, `LoneCalls` why the address settles: what a request writes that
overlaps with no other address is its own address, and it stays. The five parts of `ProfileSteps` are
lemmas on one step (`AnswersStep`, `ErrorsStep`, `ChosenNameStep` and others).

`DeliveryProofs`. `FirstAttempt` is what makes a second copy impossible before a failure was shown;
`PaidOnce` that no two requests got past the captcha with one token. `DailyAddsUp` says that the row of a
day has the number, the first and the last time of the stored events of that day, in whatever order they
were stored; `FailuresAddUp` follows the overview through its statements.

`AuthSessionProofs`. `Lone`: a thread that waits has exactly one message under way, so an answer finds the
state it was asked in. `SignedOut`: nothing under way brings a token to a browser signed out, but a login.
`OneSession`: all tokens of the jar, of the requests and of the answers belong to one session, whose owner
every tab shows that is sure, until a login or logout overlapped with something (`murky`). Every step is
a way in which a message comes about (`Messages` says where each comes from), and the parts are lemmas about
these.

That nobody is signed out for nothing takes a second invariant, `LossInv`, beside `SessInv`. It says of every
session that is open and whose renewals nothing disturbed where its last token is (`Fresh`): the browser has
it, or one answer brings it, and then no request is under way that would renew with an older one. So a
renewal of such a session is refused only when the provider has no further token, which ends it; a refresh
that fails, a retry that is refused, or the sign-out that follows (`Refused`) is never without a reason, and
once the cookies are gone, what is left under way has one too (`Reasons`). `Baked` and `Known` say which
cookies the route handlers set and that all tokens are of sessions the provider opened. One case is worth
naming: two refreshes of one tab, which `Contended` does not excuse, cannot meet because `Lone` gives the
refresh thread one message at a time.

The pages of the account need four things more than `AccountInv` says. `OnTheWay`: who must leave a
page has a navigation under way that does not lead back to it. `UserIsGenuine`: while nothing overlapped
there is one request about the user at most, and each sort of it leaves the name shown, stored or
answered right at every phase. `CallsHaveTheirPage` and `SpinnersAwait` are the two directions of "what
turns awaits a request made where it turns", with `OneOfASort` for its uniqueness.

`PageProofs`. All pages have the same argument: requests are numbered in their order, what is shown is the
answer to the last one or another one is under way, and that one asks for what is chosen now; the
exceptions are the history variables of the properties. `NoSpinnerIsLeftOn` puts them together. The table
of the Inspect page is a function of its controls, so `TableFollowsItsControls` is mostly about that
function: in a finite set with a strict linear order the places are 1, 2, 3, ... each taken once
(`PlacesCount`), and the comparator is such an order, because two cells compare as their ranks do, blanks
last and ties by row (`OrderIsRank`, `BeforeIsAnOrder`). Here the assumption on the data is needed that
`localeCompare` orders the numbers that occur as numbers (`TableViewAssumption`); it holds of whole
numbers that are not negative, not of every number a sheet may hold.

`ChoicesInv` and `DeletedStaysOff` are about lists that are filtered, joined, moved about and sorted. The
lemmas come first: what stays of a filtered list comes from places of its own, in the order of the list
(`OnlyPlaces`, again by counting places), and each way the pages change a list keeps its members and has none
twice (`OnlyKeeps`, `RemoveAtKeeps`, `MovedKeeps` and others). For the pages of the tools (`ChoiceIInv`) what
is selected has to be of the preview at every moment, not only when a run sends it (`Current`), and a page
that clears its preview has none while it reads (`ClearedFirst`). For the lists (`RowsIInv`) an answer is what
the server would answer now, unless the rows changed since (`StillTrue`), and a row whose delete was confirmed
is gone from the server (`Gone`): so an answer that brings it back is an old one. `MoreIsContinuous` needs to
know what is in flight: further rows are asked for from where the screen ends, and whoever changed the filter
has a list of it on its way (`Continuous`), so the only list in flight, if it is for further rows, is of the
filter on the screen.

`TypeOK` of the modules is part of these invariants or proved with them.

Only model-checked:

* the liveness properties (`ExpiredIsErased`, `LoadAllEnds`, `ChecksEnd`, `CallsEnd`), which are out of the
  prover's reach;
* the tools (`QueryInv`, `CleanInv`, `TableInv`, `ReportInv`, `FormatInv`): functions of their
  input, computed with folds over sequences; what they give for every input would need induction over data,
  which the prover does not do.

## What is left

Not modelled: the rate limiter of slowapi beyond its count in `ContactDelivery`, the application factory and
its middleware order, configuration and schemas; the header, the quota pill and marketing pages; styling of
reports and drawing of PDF pages; references inside formulas when rows are removed; the two tools' progress
estimates; messages and layout. Third-party libraries (openpyxl, calamine, reportlab, the identity provider,
the object store) are modelled by how the code uses them. See "components" in `PROJECT.json`.
