----------------------------- MODULE ToolPages -----------------------------
(***************************************************************************)
(* The pages of the tools (client/app/[locale]/tools/[slug]).  A visitor   *)
(* drops a file, most pages upload it for a preview of its sheets, the     *)
(* visitor selects sheets or columns of the preview, and the run sends the *)
(* file again with the selection.  The dropzone is never disabled, no call *)
(* is ever cancelled, and answers come in any order.                       *)
(***************************************************************************)
EXTENDS Naturals, Picking

CONSTANTS
    Files,
    NoFile,
    Book,           \* Book[f]: the sheets of f, each [name, columns]
    Kinds,          \* the pages that are opened
    Collation,      \* the names of sheets and files in the order of localeCompare
    MaxSent         \* bound on the calls

(* A page: what is selected and from what the selection starts, whether    *)
(* picking a file clears the preview of the last one, whether the upload   *)
(* has a spinner of its own, whether a run needs a selection (of at most   *)
(* `most` columns), whether the result is shown on the page, which files   *)
(* it takes and when it runs.                                              *)
Preview(selects, starts, clears) ==
    [selects |-> selects, starts |-> starts, clears |-> clears, spinners |-> 1, needs |-> TRUE, most |-> 0,
     shows |-> FALSE, slots |-> 1, runs |-> "asked", ordered |-> FALSE, fetches |-> FALSE, options |-> "none"]

MergeSheetsPage == [Preview("sheets", "all", TRUE) EXCEPT !.spinners = 2, !.ordered = TRUE]
SplitWorkbookPage == [Preview("sheets", "all", TRUE) EXCEPT !.spinners = 2]
ConvertXlsxToCsvPage == Preview("sheets", "first", TRUE)
ConvertXlsxToJsonPage == Preview("sheets", "first", TRUE)
ConvertXlsxToSqlPage == Preview("sheets", "first", TRUE)
ConvertXlsxToXmlPage == Preview("sheets", "first", TRUE)
ConvertXlsxToPdfPage == Preview("sheets", "first", TRUE)
RemoveEmptyRowsPage == [Preview("sheets", "all", FALSE) EXCEPT !.shows = TRUE]
PasswordProtectPage == [Preview("sheets", "all", FALSE) EXCEPT !.needs = FALSE]
TrimSpacesPage == [Preview("columns", "all", TRUE) EXCEPT !.needs = FALSE, !.options = "both"]
FindReplacePage == [Preview("columns", "all", TRUE) EXCEPT !.needs = FALSE, !.options = "all"]
NormalizeCasePage == [Preview("columns", "all", TRUE) EXCEPT !.needs = FALSE, !.options = "all"]
RemoveDuplicatesPage == [Preview("columns", "all", TRUE) EXCEPT !.fetches = TRUE]
SortRowsPage == [Preview("keys", "none", FALSE) EXCEPT !.most = 3]
SplitColumnPage == [Preview("keys", "none", FALSE) EXCEPT !.most = 1]
ValidateEmailsPage == [Preview("keys", "none", FALSE) EXCEPT !.most = 1, !.shows = TRUE]
SplitSheetPage == [Preview("one", "none", TRUE) EXCEPT !.spinners = 2, !.needs = FALSE]
TransposeSheetPage == [Preview("one", "none", FALSE) EXCEPT !.needs = FALSE]

Plain(slots, runs, shows) ==
    [Preview("nothing", "none", TRUE) EXCEPT !.needs = FALSE, !.slots = slots, !.runs = runs, !.shows = shows]

ConvertCsvToXlsxPage == Plain(1, "asked", FALSE)
ConvertJsonToXlsxPage == Plain(1, "asked", FALSE)
ConvertSqlToXlsxPage == Plain(1, "asked", FALSE)
ConvertXmlToXlsxPage == Plain(1, "asked", FALSE)
FreezeHeaderPage == Plain(1, "asked", FALSE)
CompareWorkbooksPage == Plain(2, "asked", TRUE)
AutoSizeColumnsPage == Plain(1, "dropped", FALSE)
RemovePasswordPage == Plain(1, "dropped", FALSE)
DetectBlanksPage == Plain(1, "dropped", TRUE)
ScanFormulaErrorsPage == Plain(1, "dropped", TRUE)
SummaryStatsPage == Plain(1, "dropped", TRUE)
AppendWorkbooksPage == [Plain(0, "asked", FALSE) EXCEPT !.selects = "files", !.ordered = TRUE]

AllPages ==
    {MergeSheetsPage, SplitWorkbookPage, ConvertXlsxToCsvPage, ConvertXlsxToJsonPage,
     ConvertXlsxToSqlPage, ConvertXlsxToXmlPage, ConvertXlsxToPdfPage, RemoveEmptyRowsPage,
     PasswordProtectPage, TrimSpacesPage, FindReplacePage, NormalizeCasePage,
     RemoveDuplicatesPage, SortRowsPage, SplitColumnPage, ValidateEmailsPage, SplitSheetPage,
     TransposeSheetPage, ConvertCsvToXlsxPage, ConvertJsonToXlsxPage, ConvertSqlToXlsxPage,
     ConvertXmlToXlsxPage, FreezeHeaderPage, CompareWorkbooksPage, AutoSizeColumnsPage,
     RemovePasswordPage, DetectBlanksPage, ScanFormulaErrorsPage, SummaryStatsPage,
     AppendWorkbooksPage}

VARIABLES
    page,
    picked,         \* the file of each slot
    shown,          \* the file whose preview is shown
    sheetNo,         \* the number of the sheet that is shown
    headers,        \* <<file, sheet>> whose columns are listed; <<>>: those of the preview
    chosen,         \* the selection: sheets, columns or files, in order
    added,          \* AppendWorkbooks: the files in the order in which they came
    everywhere,     \* all sheets
    narrow,         \* TrimSpaces: only the selected columns
    spinning,       \* "read", "run": the spinners
    result,         \* the form of the result that is shown
    waiting,        \* calls in flight: [n, kind, form]
    sent,
    past            \* history: what went wrong or out of turn since the page was opened

pageVars == <<page, picked, shown, sheetNo, headers, chosen, added, everywhere, narrow,
              spinning, result, waiting, sent, past>>

NoForm == [files |-> <<>>]
SheetNames(f) == [i \in DOMAIN Book[f] |-> Book[f][i].name]
\* The names of the columns that can be told apart.
Columns(f, i) == IF i \in DOMAIN Book[f] THEN Book[f][i].columns ELSE <<>>

\* No two sheets of a workbook have one name, and neither have two columns of
\* getSheetColumnNames.
ASSUME ToolPagesAssumption ==
    /\ NoFile \notin Files /\ MaxSent \in Nat /\ Kinds \subseteq AllPages
    /\ Book \in [Files -> Seq([name : ToSet(Collation), columns : Seq(STRING)])]
    /\ \A f \in Files : Len(Book[f]) > 0 /\ IsInjective(SheetNames(f))
    /\ \A f \in Files : \A i \in DOMAIN Book[f] : IsInjective(Columns(f, i))
    /\ Collation \in Seq(STRING) /\ IsInjective(Collation) /\ Files \subseteq ToSet(Collation)

\* The spinner of an upload; most pages have one for the upload and the run.
Spinner(kind) == IF page.spinners = 1 THEN "run" ELSE kind
NoPreview == shown = NoFile
Previews == page.selects \notin {"nothing", "files"}

PageTypeOK ==
    /\ page \in Kinds
    /\ picked \in [1..page.slots -> Files \cup {NoFile}]
    /\ shown \in Files \cup {NoFile}
    /\ sheetNo \in 1..3
    /\ spinning \subseteq {"read", "run"}
    /\ \A c \in waiting : c.kind \in {"read", "run"} /\ c.n \in 1..sent
    /\ past \subseteq {"crossed", "lagged", "unread"}

PageInit ==
    /\ page \in Kinds
    /\ picked = [i \in 1..page.slots |-> NoFile]
    /\ shown = NoFile /\ sheetNo = 1 /\ headers = <<>>
    /\ chosen = <<>> /\ added = <<>>
    /\ everywhere = FALSE /\ narrow = FALSE
    /\ spinning = {} /\ result = NoForm
    /\ waiting = {} /\ sent = 0 /\ past = {}

Send(kind, form) ==
    /\ sent < MaxSent
    /\ sent' = sent + 1
    /\ waiting' = waiting \cup {[n |-> sent + 1, kind |-> kind, form |-> form]}
    /\ spinning' = spinning \cup {Spinner(kind)}

Crossing == IF waiting = {} THEN past ELSE past \cup {"crossed"}

-----------------------------------------------------------------------------
(* Picking a file.                                                         *)

\* What the pages that clear reset at once.
Cleared ==
    /\ shown' = NoFile /\ sheetNo' = 1 /\ headers' = <<>> /\ chosen' = <<>>
    /\ everywhere' = FALSE /\ narrow' = FALSE

\* onFile of a page with a preview.
PickToPreview(f) ==
    /\ Previews
    /\ picked' = [picked EXCEPT ![1] = f]
    /\ IF page.clears THEN Cleared
       ELSE UNCHANGED <<shown, sheetNo, headers, chosen, everywhere, narrow>>
    /\ result' = NoForm
    /\ Send("read", [files |-> <<f>>])
    /\ past' = Crossing \ {"unread"}
    /\ UNCHANGED <<page, added>>

\* Variant for a mutation: the result of the last file stays.
HoldQuietly(slot, f) ==
    /\ page.selects = "nothing" /\ page.runs = "asked"
    /\ picked' = [picked EXCEPT ![slot] = f]
    /\ past' = Crossing
    /\ UNCHANGED <<page, shown, sheetNo, headers, chosen, added, everywhere, narrow,
                   spinning, result, waiting, sent>>

\* onFile of a page without a preview.
Hold(slot, f) ==
    /\ page.selects = "nothing" /\ page.runs = "asked"
    /\ picked' = [picked EXCEPT ![slot] = f]
    /\ result' = NoForm
    /\ past' = Crossing
    /\ UNCHANGED <<page, shown, sheetNo, headers, chosen, added, everywhere, narrow,
                   spinning, waiting, sent>>

\* handleFile: the pages that run as soon as a file is dropped.
RunDropped(f) ==
    /\ page.runs = "dropped"
    /\ picked' = [picked EXCEPT ![1] = f]
    /\ result' = NoForm
    /\ Send("run", [files |-> <<f>>])
    /\ past' = Crossing
    /\ UNCHANGED <<page, shown, sheetNo, headers, chosen, added, everywhere, narrow>>

\* What is selected first in the i-th sheet of f.
Initially(f, i) ==
    CASE page.selects = "sheets" /\ page.starts = "all"   -> SheetNames(f)
      [] page.selects = "sheets" /\ page.starts = "first" -> <<SheetNames(f)[1]>>
      [] page.selects = "columns" -> Columns(f, i)
      [] OTHER -> <<>>

\* uploadForPreview settles.
PreviewComes(c, ok) ==
    /\ c.kind = "read"
    /\ waiting' = waiting \ {c}
    /\ spinning' = spinning \ {Spinner("read")}
    /\ IF ok THEN /\ shown' = c.form.files[1] /\ chosen' = Initially(c.form.files[1], 1)
                  /\ sheetNo' = IF page.clears THEN sheetNo ELSE 1
                  /\ past' = past
             ELSE UNCHANGED <<shown, chosen, sheetNo>> /\ past' = past \cup {"unread"}
    /\ UNCHANGED <<page, picked, headers, added, everywhere, narrow, result, sent>>

-----------------------------------------------------------------------------
(* The selection.                                                          *)

Selected(s) ==
    /\ chosen' = s
    /\ UNCHANGED <<page, picked, shown, sheetNo, headers, added, everywhere, narrow,
                   spinning, result, waiting, sent>>

Toggled(s, x) == IF Contains(s, x) THEN Without(s, x) ELSE Append(s, x)

\* Variant for a mutation: the columns stay selected in another sheet.
ChooseSheetKeeping(i) ==
    /\ page.selects \in {"columns", "keys", "one"} /\ ~NoPreview /\ result = NoForm
    /\ ~everywhere /\ i \in DOMAIN Book[shown]
    /\ sheetNo' = i
    /\ UNCHANGED <<page, picked, shown, headers, chosen, added, everywhere, narrow,
                   spinning, result, waiting, sent, past>>

\* The pill of a sheet.
ChooseSheet(i) ==
    /\ page.selects \in {"columns", "keys", "one"} /\ ~NoPreview /\ result = NoForm
    /\ ~everywhere /\ i \in DOMAIN Book[shown]
    /\ sheetNo' = i /\ chosen' = Initially(shown, i)
    /\ UNCHANGED <<page, picked, shown, headers, added, everywhere, narrow,
                   spinning, result, waiting, sent, past>>

\* RemoveDuplicates lists the columns of the page it fetches of the sheet; an
\* effect that is not the last one is cancelled, but its columns stay until the
\* next page comes, or fails.
HeadersCome(ok) ==
    /\ page.fetches /\ ~NoPreview
    /\ headers' = IF ok THEN <<shown, sheetNo>> ELSE <<>>
    /\ UNCHANGED <<page, picked, shown, sheetNo, chosen, added, everywhere, narrow,
                   spinning, result, waiting, sent, past>>

Listed == IF headers = <<>> THEN Columns(shown, sheetNo) ELSE Columns(headers[1], headers[2])
Lagging == IF headers \in {<<>>, <<shown, sheetNo>>} THEN past ELSE past \cup {"lagged"}

SelectColumns ==
    /\ page.selects = "columns" /\ ~NoPreview
    /\ \/ \E k \in DOMAIN Listed : Selected(Toggled(chosen, Listed[k]))
       \/ Selected(Listed) \/ Selected(<<>>)
    /\ past' = Lagging

\* The keys of a sort and the column of SplitColumn and ValidateEmails.
SelectKeys ==
    /\ page.selects = "keys" /\ ~NoPreview /\ result = NoForm
    /\ \/ \E c \in ToSet(Columns(shown, sheetNo)), k \in 1..page.most :
             k <= Len(chosen) + 1 /\ Selected([i \in 1..(IF k > Len(chosen) THEN k ELSE Len(chosen)) |->
                                                  IF i = k THEN c ELSE chosen[i]])
       \/ \E k \in DOMAIN chosen : Selected(RemoveAt(chosen, k))
    /\ UNCHANGED past

SelectSheets ==
    /\ page.selects = "sheets" /\ ~NoPreview /\ result = NoForm
    /\ \/ \E k \in DOMAIN Book[shown] : Selected(Toggled(chosen, Book[shown][k].name))
       \/ Selected(SheetNames(shown)) \/ Selected(<<>>)
    /\ UNCHANGED past

\* onFiles of AppendWorkbooks: those that are not there yet; and Clear all.
AddFiles ==
    /\ page.selects = "files"
    /\ \/ \E s \in SetToAllKPermutations(Files) \ {<<>>} :
             LET new == Only(s, Files \ ToSet(chosen))
             IN  /\ chosen' = chosen \o new
                 /\ added' = added \o Only(new, Files \ ToSet(added))
       \/ chosen' = <<>> /\ added' = <<>>
    /\ UNCHANGED <<page, picked, shown, sheetNo, headers, everywhere, narrow,
                   spinning, result, waiting, sent, past>>

\* moveSheet and moveFile.
Moved(s, i, j) == [s EXCEPT ![i] = s[j], ![j] = s[i]]

\* dropSheetAt and dropFileAt: out at i, in at j.
Dropped(s, i, j) == InsertAt(RemoveAt(s, i), j, s[i])

\* clearCustomOrder, orderSheetsAsc and orderSheetsDesc: what is selected in the
\* order of the workbook, of the uploads or of the names.
InOrderOf(s, all) == Only(all, ToSet(s))

Reorder ==
    /\ page.ordered /\ (Previews => ~NoPreview)
    /\ \/ \E i, j \in DOMAIN chosen : j \in {i - 1, i + 1} /\ Selected(Moved(chosen, i, j))
       \/ \E i, j \in DOMAIN chosen : i # j /\ Selected(Dropped(chosen, i, j))
       \/ Selected(InOrderOf(chosen, IF page.selects = "files" THEN added ELSE SheetNames(shown)))
       \/ Selected(InOrderOf(chosen, Collation)) \/ Selected(InOrderOf(chosen, Reverse(Collation)))
    /\ UNCHANGED past

\* All sheets or one, and the check box of TrimSpaces.
SetOptions ==
    /\ page.options # "none" /\ ~NoPreview
    /\ \/ everywhere' = ~everywhere /\ UNCHANGED <<narrow, chosen>>
       \/ /\ page.options = "both" /\ narrow' = ~narrow /\ UNCHANGED everywhere
          /\ chosen' = IF ~narrow /\ chosen = <<>> THEN Columns(shown, sheetNo) ELSE chosen
    /\ UNCHANGED <<page, picked, shown, sheetNo, headers, added,
                   spinning, result, waiting, sent, past>>

-----------------------------------------------------------------------------
(* The run.                                                                *)

\* canRun, canConvert, canSplit, isReadyToMerge, canProcess.
CanRun ==
    /\ spinning = {} /\ result = NoForm
    /\ page.runs = "asked"
    /\ Previews => ~NoPreview
    /\ \A i \in DOMAIN picked : picked[i] # NoFile
    /\ page.selects = "files" => Len(chosen) >= 2
    /\ page.needs => chosen # <<>>
    /\ narrow /\ Columns(shown, sheetNo) # <<>> => chosen # <<>>

RunForm ==
    [files  |-> IF page.selects = "files" THEN chosen ELSE picked,
     of     |-> shown,
     sheet  |-> sheetNo,
     all    |-> everywhere,
     names  |-> IF page.options = "both" /\ ~narrow THEN <<>> ELSE chosen]

Run ==
    /\ CanRun
    /\ Send("run", RunForm)
    /\ UNCHANGED <<page, picked, shown, sheetNo, headers, chosen, added, everywhere, narrow, result, past>>

\* The answer: a download, or a result on the page.
RunEnds(c, ok) ==
    /\ c.kind = "run"
    /\ waiting' = waiting \ {c}
    /\ spinning' = spinning \ {"run"}
    /\ result' = IF ok /\ page.shows THEN c.form ELSE result
    /\ UNCHANGED <<page, picked, shown, sheetNo, headers, chosen, added, everywhere, narrow, sent, past>>

PageNext ==
    \/ \E f \in Files :
          \/ PickToPreview(f)
          \/ \E slot \in DOMAIN picked : Hold(slot, f)
          \/ RunDropped(f)
    \/ \E c \in waiting, ok \in BOOLEAN : PreviewComes(c, ok) \/ RunEnds(c, ok)
    \/ \E i \in 1..3 : ChooseSheet(i)
    \/ \E ok \in BOOLEAN : HeadersCome(ok)
    \/ SelectColumns \/ SelectKeys \/ SelectSheets \/ AddFiles \/ Reorder \/ SetOptions
    \/ Run

PageSpec == PageInit /\ [][PageNext]_pageVars

-----------------------------------------------------------------------------

\* The preview on the page is that of the file a run would send, unless a file
\* was dropped while a call was in flight, or the page keeps the last preview
\* while the next file is read and when it cannot be read.
PreviewIsOfTheFile ==
    Previews /\ ~NoPreview /\ shown # picked[1] =>
        \/ "crossed" \in past
        \/ ~page.clears /\ ("unread" \in past \/ \E c \in waiting : c.kind = "read")

\* What a run sends names sheets, or columns of the selected sheet, of the
\* workbook it was selected in, unless an earlier preview came after a later one
\* or the columns were chosen among those of another sheet.
SelectionIsListed ==
    \A c \in waiting :
        c.kind = "run" /\ Previews /\ past \cap {"crossed", "lagged"} = {} =>
            \/ page.selects = "sheets" /\ ToSet(c.form.names) \subseteq ToSet(SheetNames(c.form.of))
            \/ page.selects # "sheets" /\ ToSet(c.form.names) \subseteq ToSet(Columns(c.form.of, c.form.sheet))

\* Two runs are in flight at once only after a file was dropped while the page
\* was busy.
OneRunAtATime ==
    Cardinality({c \in waiting : c.kind = "run"}) > 1 => "crossed" \in past

\* A result on the page is one of the files that are picked, unless a file was
\* dropped while the page was busy.
ResultIsOfTheFile ==
    result # NoForm /\ "crossed" \notin past => result.files = picked

\* No selecting, moving, dropping or sorting loses or doubles what is selected:
\* a sheet, a column or a file is there once, and a list of files holds those
\* that were added.
SelectedOnce ==
    /\ page.selects # "keys" => IsInjective(chosen)
    /\ page.selects = "files" => IsInjective(added) /\ ToSet(chosen) = ToSet(added)

\* The page spins only while a call is in flight.
PageSpinnerIsBacked ==
    \A s \in spinning : \E c \in waiting : Spinner(c.kind) = s

\* What is selected is in the preview, and once.
PageInv == PageTypeOK /\ SelectionIsListed /\ SelectedOnce

\* What a page shows belongs to the file that is chosen, and one run of it is
\* under way, whichever previews and runs are in flight.
PageFollowsFile == PreviewIsOfTheFile /\ ResultIsOfTheFile /\ OneRunAtATime
=============================================================================
