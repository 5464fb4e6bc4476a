--------------------------- MODULE InspectViewer ---------------------------
(***************************************************************************)
(* The Inspect Sheets page (InspectSheets.tsx): a workbook preview with    *)
(* tabs, and the rows of the active tab, which arrive by pages.            *)
(*                                                                         *)
(* A user event, with the render and the effects it triggers, is one step; *)
(* so is the code between two awaits of an async handler.  The responses   *)
(* in flight are a bag of continuations: each remembers the tab that was   *)
(* active when it was called, and may come back in any order, or fail.     *)
(*                                                                         *)
(* Rows are counted in pages: <<w, s, i>> is the i-th page of sheet s of   *)
(* workbook w, and page_sheet answers an offset with one page, or with no  *)
(* rows past the last.                                                     *)
(***************************************************************************)
EXTENDS Integers, Sequences, SequencesExt, Bags

CONSTANTS
    Workbooks,  \* uploaded workbooks (tokens; one out of use stands for a new one)
    None,       \* no preview
    Sheets,     \* indices of their tabs, 0 among them
    Pages,      \* Pages[w][s]: pages of a sheet
    GuardLimit, \* the pages one loadAllRows asks for (200 in the code)
    MaxCalls    \* bound on the responses in flight

ASSUME ViewerAssumption ==
    /\ None \notin Workbooks
    /\ 0 \in Sheets
    /\ Pages \in [Workbooks -> [Sheets -> Nat]]
    /\ GuardLimit \in Nat \ {0} /\ MaxCalls \in Nat \ {0}

VARIABLES
    preview,    \* the workbook shown, or None
    active,     \* activeSheetIndex
    view,       \* pagedRows, pagedDone, pagingLoading, loadingAllRows, hasLoadedPageData
    calls,      \* continuations of loadPage and loadAllRows awaiting a response
    uploads,    \* uploads in flight
    mixed       \* history: the view may hold pages of an earlier one

vars == <<preview, active, view, calls, uploads, mixed>>

Fresh == [rows |-> <<>>, done |-> FALSE, paging |-> FALSE, all |-> FALSE, loaded |-> FALSE]

PageCall(w, s, off, append) ==
    [fn |-> "loadPage", book |-> w, sheet |-> s, next |-> off, append |-> append]
AllCall(w, s, off, guard) ==
    [fn |-> "loadAllRows", book |-> w, sheet |-> s, next |-> off, guard |-> guard]

InFlight == BagToSet(calls)
Offsets == 0..(MaxCalls * GuardLimit)    \* bound on the calls that FairSpec names

TypeOK ==
    /\ preview \in Workbooks \cup {None}
    /\ active \in Sheets
    /\ view.rows \in Seq(Workbooks \X Sheets \X (Nat \ {0}))
    /\ view \in [rows : {view.rows}, done : BOOLEAN, paging : BOOLEAN, all : BOOLEAN,
                 loaded : BOOLEAN]
    /\ IsABag(calls)
    /\ \A c \in InFlight : c.book \in Workbooks /\ c.sheet \in Sheets /\ c.next \in Nat
    /\ uploads \subseteq Workbooks
    /\ mixed \in BOOLEAN

Init ==
    /\ preview = None /\ active = 0
    /\ view = Fresh
    /\ calls = EmptyBag
    /\ uploads = {}
    /\ mixed = FALSE

-----------------------------------------------------------------------------

Ask(c) == BagCardinality(calls) < MaxCalls /\ calls' = calls (+) SetToBag({c})

\* The load effect, after a reset or not: loadPage(FALSE) of the render that
\* changed the tab.  It returns early if pagingLoading was set in that render,
\* whatever the reset effect stored meanwhile.
Enter(w, s, v) ==
    \/ /\ view.paging
       /\ view' = v
       /\ UNCHANGED calls
    \/ /\ ~view.paging
       /\ view' = [v EXCEPT !.paging = TRUE]
       /\ Ask(PageCall(w, s, 0, FALSE))

\* The user clicks a tab.
SelectTab(s) ==
    /\ preview # None /\ s # active
    /\ active' = s
    /\ Enter(preview, s, Fresh)
    /\ mixed' = (calls # EmptyBag)
    /\ UNCHANGED <<preview, uploads>>

\* onFile.
ChooseFile(w) ==
    /\ w \notin uploads \cup {preview} \cup {c.book : c \in InFlight}
    /\ uploads' = uploads \cup {w}
    /\ UNCHANGED <<preview, active, view, calls, mixed>>

\* The upload succeeds.  The reset effect runs only if the tab index changes.
ShowWorkbook(w) ==
    /\ w \in uploads
    /\ uploads' = uploads \ {w}
    /\ preview' = w /\ active' = 0
    /\ Enter(w, 0, IF active # 0 THEN Fresh ELSE view)
    /\ mixed' = (calls # EmptyBag \/ (active = 0 /\ view # Fresh))

UploadFails(w) ==
    /\ w \in uploads
    /\ uploads' = uploads \ {w}
    /\ preview' = None
    /\ UNCHANGED <<active, view, calls, mixed>>

\* Variant for a mutation: the buttons stay enabled while all rows are loading.
EnabledDuringAll == preview # None /\ ~view.paging /\ ~view.done /\ view.loaded

\* Both buttons are disabled while a page is loading and once all are there.
Enabled == preview # None /\ ~view.paging /\ ~view.all /\ ~view.done /\ view.loaded

LoadMore ==
    /\ Enabled
    /\ view' = [view EXCEPT !.paging = TRUE]
    /\ Ask(PageCall(preview, active, Len(view.rows), TRUE))
    /\ UNCHANGED <<preview, active, uploads, mixed>>

LoadAll ==
    /\ Enabled
    /\ view' = [view EXCEPT !.all = TRUE]
    /\ Ask(AllCall(preview, active, Len(view.rows), 1))
    /\ UNCHANGED <<preview, active, uploads, mixed>>

-----------------------------------------------------------------------------

\* page_sheet's answer to c.
Fetched(c) ==
    IF c.next < Pages[c.book][c.sheet] THEN << <<c.book, c.sheet, c.next + 1>> >> ELSE <<>>
LastPage(c) == c.next + Len(Fetched(c)) >= Pages[c.book][c.sheet]

OfThisTab(c) == c.book = preview /\ c.sheet = active

\* The continuation of loadPage.  A first page that arrives last puts an end
\* to any mixture of views.
PageArrives(c) ==
    /\ c \in InFlight /\ c.fn = "loadPage"
    /\ view' = [view EXCEPT !.rows = IF c.append THEN @ \o Fetched(c) ELSE Fetched(c),
                            !.done = LastPage(c), !.loaded = TRUE, !.paging = FALSE]
    /\ calls' = calls (-) SetToBag({c})
    /\ mixed' = (mixed /\ ~(~c.append /\ OfThisTab(c) /\ calls' = EmptyBag))
    /\ UNCHANGED <<preview, active, uploads>>

\* One round of the loop of loadAllRows.
AllArrives(c) ==
    /\ c \in InFlight /\ c.fn = "loadAllRows"
    /\ LET last == LastPage(c) \/ Fetched(c) = <<>> \/ c.guard >= GuardLimit
           rest == calls (-) SetToBag({c})
       IN  /\ view' = [view EXCEPT !.rows = @ \o Fetched(c), !.done = LastPage(c),
                                   !.loaded = TRUE, !.all = @ /\ ~last]
           /\ calls' = IF last THEN rest
                       ELSE rest (+) SetToBag({AllCall(c.book, c.sheet, c.next + 1, c.guard + 1)})
    /\ UNCHANGED <<preview, active, uploads, mixed>>

\* Variant for a mutation: a failure of loadAllRows leaves its flag set.
CallFailsFlagged(c) ==
    /\ c \in InFlight
    /\ view' = IF c.fn = "loadPage" THEN [view EXCEPT !.paging = FALSE] ELSE view
    /\ calls' = calls (-) SetToBag({c})
    /\ UNCHANGED <<preview, active, uploads, mixed>>

\* Either call fails: the error is shown and the flag of the call cleared.
CallFails(c) ==
    /\ c \in InFlight
    /\ view' = IF c.fn = "loadPage" THEN [view EXCEPT !.paging = FALSE]
               ELSE [view EXCEPT !.all = FALSE]
    /\ calls' = calls (-) SetToBag({c})
    /\ UNCHANGED <<preview, active, uploads, mixed>>

Respond(c) == PageArrives(c) \/ AllArrives(c) \/ CallFails(c)

Next ==
    \/ \E s \in Sheets : SelectTab(s)
    \/ \E w \in Workbooks : ChooseFile(w) \/ ShowWorkbook(w) \/ UploadFails(w)
    \/ LoadMore \/ LoadAll
    \/ \E c \in InFlight : Respond(c)

Spec == Init /\ [][Next]_vars

\* Every request to the server is answered or fails in the end.
AllCalls == {AllCall(w, s, off, g) : w \in Workbooks, s \in Sheets, off \in Offsets,
                                     g \in 1..GuardLimit}
FairSpec == Spec /\ \A c \in AllCalls : WF_vars(Respond(c))

-----------------------------------------------------------------------------

\* Unless a response of an earlier tab or workbook was in flight when this one
\* was opened, the table is the beginning of the sheet, each page once and in
\* order, whichever of the two buttons loaded it and whatever failed; and
\* "All rows loaded" (pagedDone) is shown only when they are.
RowsAreAPrefix ==
    preview # None /\ ~mixed =>
       /\ \A i \in DOMAIN view.rows : view.rows[i] = <<preview, active, i>>
       /\ view.done => Len(view.rows) = Pages[preview][active]

\* A loading flag, which disables the buttons, always has a response to come
\* that will clear it, through any mixture of tabs and failures.
SpinnersAreBacked ==
    /\ view.paging => \E c \in InFlight : c.fn = "loadPage"
    /\ view.all => \E c \in InFlight : c.fn = "loadAllRows"

\* "Load all rows" comes to an end: the loop is left after the last page, a
\* failure, or GuardLimit pages.
LoadAllEnds == view.all ~> ~view.all

\* "Select a tab to preview one sheet at a time" (client/messages/en.json:543):
\* when no response is awaited, the rows shown are those of the active tab.
\* Refuted: a tab opened while a page is loading is not loaded itself, since
\* its effect sees the flag of the page of the tab before, and that page is
\* then stored as the new tab's rows.
OneSheetAtATime ==
    preview # None /\ calls = EmptyBag =>
       \A i \in DOMAIN view.rows : view.rows[i][1] = preview /\ view.rows[i][2] = active

\* The table of a sheet in every state of its requests.
ViewerInv == TypeOK /\ RowsAreAPrefix
=============================================================================
