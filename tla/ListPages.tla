----------------------------- MODULE ListPages -----------------------------
(***************************************************************************)
(* The pages that list rows of the server: the history of a visitor        *)
(* (my-account/history/HistoryClient.tsx), the users and the activity of   *)
(* the administrators (admin/tabs/UsersTab.tsx, ActivityTab.tsx).  A page   *)
(* asks for a list when its filter changes, when it is refreshed and when  *)
(* a further page is wanted; nothing is cancelled, lists are answered and  *)
(* come back in any order, and the end of any of them stops the spinners.  *)
(* Meanwhile rows are recorded, and deleted here or in another tab.        *)
(***************************************************************************)
EXTENDS Naturals, Picking

CONSTANTS
    Views,          \* "history", "users", "activity": the pages that are opened
    Searches,       \* what is searched for; "": nothing
    Plan,           \* the rows in the order in which they are recorded: [name, ok]
    AtFirst,        \* how many of them there are when the page is opened
    PageSize,       \* rows of a list
    MaxAsked,       \* bound on the lists and deletes asked for
    MaxRemoved      \* bound on the rows removed when one is deleted elsewhere

Statuses == {"all", "success", "error"}

VARIABLES
    listPage,
    logged, removed,        \* the server: rows 1..logged are recorded, some removed since
    ready,                  \* the page knows who is signed in
    typed, filter,          \* what the search box shows, and what is asked for
    items, total, more, pageNo,
    loading, aside,         \* the spinners: of the list, and of a refresh or of further rows
    failed,
    lists, asked,           \* lists in flight, and how many were asked for
    pending,                \* pendingDeleteId; 0: none
    deletes, clicked,       \* deletes in flight, and how many were clicked
    source,                 \* history: the list that came last
    confirmed,              \* history: rows whose delete was confirmed
    calm                    \* history: the rows were not changed and no lists crossed since the first page

server == <<logged, removed>>
screen == <<items, total, more, pageNo, source>>
boxes == <<typed, filter>>
spinners == <<loading, aside, failed>>
deleting == <<pending, deletes, clicked, confirmed>>
listVars == <<listPage, server, ready, boxes, screen, spinners, lists, asked, deleting, calm>>

ASSUME ListPagesAssumption ==
    /\ "" \in Searches /\ AtFirst \in 0..Len(Plan)
    /\ PageSize \in Nat \ {0} /\ MaxAsked \in Nat /\ MaxRemoved \in Nat

Matches(f, r) ==
    /\ f.search \in {"", Plan[r].name}
    /\ f.status = "all" \/ Plan[r].ok = (f.status = "success")

\* What the server lists: newest first, without what was deleted.
Listing(f) == Only(Reverse([r \in 1..logged |-> r]), {r \in 1..logged : r \notin removed /\ Matches(f, r)})

\* LIMIT and OFFSET.
Window(s, from) ==
    [i \in 1..Cardinality({k \in 1..PageSize : from + k \in DOMAIN s}) |-> s[from + i]]

ListTypeOK ==
    /\ listPage \in Views /\ ready \in BOOLEAN
    /\ filter \in [search : Searches, status : Statuses] /\ typed \in Searches
    /\ ToSet(items) \subseteq 1..logged
    /\ pageNo \in Nat \ {0}
    /\ pending = 0 \/ \E d \in deletes : d.row = pending
    /\ \A l \in lists : Len(l.reply) <= PageSize /\ l.n \in 1..asked

Everything == [search |-> "", status |-> "all"]
Request(n, f, from, p) ==
    [n |-> n, filter |-> f, from |-> from, page |-> p,
     answered |-> FALSE, reply |-> <<>>, total |-> 0, changed |-> FALSE]

ListInit ==
    /\ listPage \in Views
    /\ logged = AtFirst /\ removed = {}
    /\ ready = (listPage # "history")
    /\ typed = "" /\ filter = Everything
    /\ items = <<>> /\ total = 0 /\ more = FALSE /\ pageNo = 1
    /\ loading = TRUE /\ aside = FALSE /\ failed = FALSE
    /\ lists = (IF ready THEN {Request(1, filter, 0, 1)} ELSE {})
    /\ asked = Cardinality(lists)
    /\ pending = 0 /\ deletes = {} /\ clicked = 0 /\ confirmed = {}
    /\ source = [n |-> 0, filter |-> Everything, page |-> 1]
    /\ calm = FALSE

-----------------------------------------------------------------------------
(* Asking: `load` of the three pages, which sends the filter in force.      *)

AskList(f, from, p) ==
    /\ asked + clicked < MaxAsked
    /\ asked' = asked + 1
    /\ lists' = lists \cup {Request(asked + 1, f, from, p)}
    /\ failed' = FALSE

\* The effect that loads the list anew.
Load(f) == AskList(f, 0, 1) /\ loading' = TRUE /\ UNCHANGED aside

\* The session is known to be there: the first list.
SignedIn ==
    /\ ~ready /\ ready' = TRUE
    /\ Load(filter)
    /\ UNCHANGED <<listPage, server, boxes, screen, deleting, calm>>

\* A new filter in force makes a new `load`, and the effect calls it.
FilterBy(f) ==
    /\ ready /\ f # filter
    /\ filter' = f
    /\ Load(f)
    /\ UNCHANGED <<listPage, server, ready, screen, deleting, calm>>

ChooseStatus(s) == FilterBy([filter EXCEPT !.status = s]) /\ UNCHANGED typed

\* The tool of ActivityTab takes effect at once; a search 300 ms after its last letter.
ChooseTool(s) == listPage = "activity" /\ FilterBy([filter EXCEPT !.search = s]) /\ typed' = s
Debounced == FilterBy([filter EXCEPT !.search = typed]) /\ UNCHANGED typed
TypeSearch(s) ==
    /\ ready /\ listPage # "activity" /\ s # typed
    /\ typed' = s
    /\ UNCHANGED <<listPage, server, ready, filter, screen, spinners, lists, asked, deleting, calm>>

\* The button of the history, the timer of the activity, and the button of the
\* dashboard, which gives UsersTab and ActivityTab a new refreshToken.
RefreshList ==
    /\ ready
    /\ \/ /\ listPage = "history" /\ ~loading /\ ~aside
          /\ AskList(filter, 0, 1) /\ aside' = TRUE /\ UNCHANGED loading
       \/ /\ listPage = "activity"
          /\ AskList(filter, 0, 1) /\ UNCHANGED <<loading, aside>>
       \/ listPage # "history" /\ Load(filter)
    /\ UNCHANGED <<listPage, server, ready, boxes, screen, deleting, calm>>

\* Variant for a mutation: further rows are asked for by the number of the page.
LoadMoreRowsByPage ==
    /\ listPage = "activity" /\ more /\ ~loading /\ ~aside /\ ~failed /\ items # <<>>
    /\ AskList(filter, PageSize, 1) /\ aside' = TRUE
    /\ UNCHANGED <<listPage, server, ready, boxes, screen, loading, deleting, calm>>

\* ActivityTab: the rows after those on the screen.
LoadMoreRows ==
    /\ listPage = "activity" /\ more /\ ~loading /\ ~aside /\ ~failed /\ items # <<>>
    /\ AskList(filter, Len(items), 1) /\ aside' = TRUE
    /\ UNCHANGED <<listPage, server, ready, boxes, screen, loading, deleting, calm>>

\* Variant for a mutation: the number of the page changes with the click.
TurnAtOnce(p) ==
    /\ listPage = "users" /\ items # <<>>
    /\ p \in {pageNo - 1, pageNo + 1} /\ p >= 1 /\ PageSize * (p - 1) < total
    /\ AskList(filter, PageSize * (p - 1), p) /\ loading' = TRUE
    /\ pageNo' = p
    /\ UNCHANGED <<listPage, server, ready, boxes, items, total, more, source, aside, deleting, calm>>

\* UserTable: the page before or after, while others are in flight, too.
Turn(p) ==
    /\ listPage = "users" /\ items # <<>>
    /\ p \in {pageNo - 1, pageNo + 1} /\ p >= 1 /\ PageSize * (p - 1) < total
    /\ AskList(filter, PageSize * (p - 1), p) /\ loading' = TRUE
    /\ UNCHANGED <<listPage, server, ready, boxes, screen, aside, deleting, calm>>

-----------------------------------------------------------------------------
(* The server, and what happens elsewhere.                                 *)

AnswerList(l) ==
    /\ ~l.answered
    /\ LET all == Listing(l.filter)
       IN  lists' = (lists \ {l}) \cup
               {[l EXCEPT !.answered = TRUE, !.total = Len(all),
                          !.reply = Window(all, l.from)]}
    /\ UNCHANGED <<listPage, server, ready, boxes, screen, spinners, asked, deleting, calm>>

RowsChange ==
    /\ lists' = {[l EXCEPT !.changed = l.answered] : l \in lists}
    /\ calm' = FALSE
    /\ UNCHANGED <<listPage, ready, boxes, screen, spinners, asked, pending, clicked, confirmed>>

Record == logged < Len(Plan) /\ logged' = logged + 1 /\ RowsChange /\ UNCHANGED <<removed, deletes>>

DeletedElsewhere(r) ==
    /\ listPage = "history" /\ r \notin removed /\ Cardinality(removed) < MaxRemoved
    /\ removed' = removed \cup {r}
    /\ RowsChange /\ UNCHANGED <<logged, deletes>>

-----------------------------------------------------------------------------
(* A list comes back, or its failure.                                      *)

ListArrives(l) ==
    /\ l.answered
    /\ lists' = lists \ {l}
    /\ items' = IF l.from > 0 /\ listPage = "activity" THEN items \o l.reply ELSE l.reply
    /\ more' = (Len(l.reply) = PageSize)
    /\ total' = l.total /\ pageNo' = l.page
    /\ source' = [n |-> l.n, filter |-> l.filter, page |-> l.page]
    /\ loading' = FALSE /\ aside' = FALSE
    /\ calm' = (lists = {l} /\ ~l.changed /\ l.filter = filter /\ (l.from > 0 => calm))
    /\ UNCHANGED <<listPage, server, ready, boxes, failed, asked, deleting>>

\* Variant for a mutation: a failure returns before the spinner stops.
ListFailsSpinning(l) ==
    /\ lists' = lists \ {l}
    /\ loading' = FALSE /\ failed' = (listPage # "users")
    /\ calm' = (calm /\ (l.from = 0 => l.filter = source.filter))
    /\ UNCHANGED <<listPage, server, ready, boxes, screen, aside, asked, deleting>>

\* UsersTab shows no failure; all keep the rows they have.
ListFails(l) ==
    /\ lists' = lists \ {l}
    /\ loading' = FALSE /\ aside' = FALSE /\ failed' = (listPage # "users")
    /\ calm' = (calm /\ (l.from = 0 => l.filter = source.filter))
    /\ UNCHANGED <<listPage, server, ready, boxes, screen, asked, deleting>>

-----------------------------------------------------------------------------
(* Deleting a job of the history.                                          *)

\* pendingDeleteId holds one job: another click enables the button of the first.
ClickDelete(r) ==
    /\ listPage = "history" /\ ~loading /\ Contains(items, r) /\ pending # r
    /\ asked + clicked < MaxAsked /\ clicked' = clicked + 1
    /\ pending' = r
    /\ deletes' = {[d EXCEPT !.alone = FALSE] : d \in {e \in deletes : e.row # r}}
                  \cup {d \in deletes : d.row = r}
                  \cup {[n |-> clicked + 1, row |-> r, phase |-> "sent", alone |-> TRUE]}
    /\ failed' = FALSE
    /\ UNCHANGED <<listPage, server, ready, boxes, screen, loading, aside, lists, asked, confirmed, calm>>

\* The server deletes the job, or finds it gone.
ServeDelete(d) ==
    /\ d.phase = "sent"
    /\ deletes' = (deletes \ {d}) \cup
                      {[d EXCEPT !.phase = IF d.row \in removed THEN "missing" ELSE "gone"]}
    /\ removed' = removed \cup {d.row}
    /\ IF d.row \in removed
       THEN UNCHANGED <<listPage, logged, ready, boxes, screen, spinners, lists, asked, pending, clicked, confirmed, calm>>
       ELSE RowsChange /\ UNCHANGED logged

EndsDelete(d) ==
    /\ deletes' = {[e EXCEPT !.alone = FALSE] : e \in deletes \ {d}}
    /\ pending' = 0
    /\ UNCHANGED <<listPage, server, ready, boxes, loading, aside, lists, asked, clicked, calm>>

\* Variant for a mutation: the row of the delete clicked last is taken off.
DeleteConfirmedOfPending(d) ==
    /\ d.phase = "gone" /\ EndsDelete(d)
    /\ items' = Without(items, pending)
    /\ confirmed' = confirmed \cup {d.row}
    /\ UNCHANGED <<total, more, pageNo, source, failed>>

DeleteConfirmed(d) ==
    /\ d.phase = "gone" /\ EndsDelete(d)
    /\ items' = Without(items, d.row)
    /\ confirmed' = confirmed \cup {d.row}
    /\ UNCHANGED <<total, more, pageNo, source, failed>>

\* Not found, or the answer was lost.
DeleteFails(d) ==
    /\ EndsDelete(d)
    /\ failed' = TRUE
    /\ UNCHANGED <<screen, confirmed>>

ListNext ==
    \/ SignedIn
    \/ \E s \in Statuses : ChooseStatus(s)
    \/ \E s \in Searches : ChooseTool(s) \/ TypeSearch(s)
    \/ Debounced \/ RefreshList \/ LoadMoreRows
    \/ \E p \in 1..Len(Plan) : Turn(p)
    \/ \E l \in lists : AnswerList(l) \/ ListArrives(l) \/ ListFails(l)
    \/ Record
    \/ \E r \in 1..logged : DeletedElsewhere(r) \/ ClickDelete(r)
    \/ \E d \in deletes : ServeDelete(d) \/ DeleteConfirmed(d) \/ DeleteFails(d)

ListSpec == ListInit /\ [][ListNext]_listVars

-----------------------------------------------------------------------------

\* A page spins only while a list is in flight, or before it is known who is
\* signed in.
ListSpinnerIsBacked == loading \/ aside => lists # {} \/ ~ready

\* When the list asked for last is the one on the screen, it is filtered as the
\* page says: an older list on the screen is one that came after it.
FilterIsShown == source.n = asked => source.filter = filter

\* The rows of ActivityTab are those of the server, newest first, none twice and
\* none skipped, and without "load more" they are all, unless rows were recorded
\* or lists crossed since the first were loaded.
MoreIsContinuous ==
    listPage = "activity" /\ calm =>
        /\ IsPrefix(items, Listing(source.filter))
        /\ ~more => items = Listing(source.filter)

\* The number under the table of UsersTab is that of the page in the table,
\* whatever pages are in flight or failed.
PageIsOfTheRows == listPage = "users" => pageNo = source.page

\* A job whose delete was confirmed leaves the screen; it comes back only with a
\* list that was answered before it was deleted.
DeletedStaysOff ==
    [][\A r \in confirmed' : Contains(items', r) =>
          \/ r \in confirmed /\ Contains(items, r)
          \/ \E l \in lists \ lists' : l.changed /\ Contains(l.reply, r)]_listVars

\* Two deletes of a job are in flight at once only after a delete of another one
\* was clicked, or had its answer, in between.
DeletedOnce ==
    \A d, e \in deletes : d.row = e.row /\ d.n < e.n => ~d.alone

\* The rows of a list are those of the server, without gaps.
ListInv == ListTypeOK /\ MoreIsContinuous

\* A list shows the filter that is set, under its page number, and the buttons
\* of its rows ask once, in whatever order the answers come.
ScreenInv == FilterIsShown /\ PageIsOfTheRows /\ DeletedOnce
=============================================================================
