------------------------------- MODULE Sheets -------------------------------
(***************************************************************************)
(* What the tools under server/app/tools share: the upload gate, the two   *)
(* ways of reading a workbook, the choice of sheets and columns, safe and  *)
(* unique names, and the shape of a request and its answer.                *)
(*                                                                         *)
(* A text is a sequence of tokens (words, spaces, separators).  A workbook *)
(* is a sequence of sheets [title, rows] and a row is a sequence of cells. *)
(* A tool keeps no state between two requests, so a request is answered in *)
(* one step by an operator of its fields.                                  *)
(***************************************************************************)
EXTENDS Naturals, Sequences, SequencesExt, FiniteSets, FiniteSetsExt, TLC

CONSTANTS
    MaxTitle,       \* length of the longest sheet title (31)
    AnonMax,        \* ANON_MAX_UPLOAD_BYTES
    FreeMax         \* FREE_MAX_UPLOAD_BYTES

ASSUME SheetsAssumption ==
    MaxTitle \in Nat /\ MaxTitle > 2 /\ AnonMax \in Nat /\ FreeMax \in Nat

VARIABLES
    request,        \* the form of the request, with its file or files
    answer          \* Pending, then what the handler returns

sheetVars == <<request, answer>>

Pending == [status |-> 0]
Refused(status) == [status |-> status]
Done(result) == [status |-> 200, result |-> result]

\* The request of a tool, and its answer.
Asked(tool) == request.tool = tool /\ answer = Pending
Reply(a) == answer' = a /\ UNCHANGED request
Answered(tool) == request.tool = tool /\ answer.status = 200

\* A check of a handler: HTTPException(status) unless ok.
Require(ok, status, rest) == IF ok THEN rest ELSE Refused(status)

\* What a handler goes on to do with what a helper returned, unless it raised.
Then(a, rest(_)) == IF a.status = 200 THEN rest(a.result) ELSE a

-----------------------------------------------------------------------------
(* Cells.  "text" is what str() gives; None has the empty text.  A formula *)
(* carries the value Excel saved with it: a number, 9 for an error, or 0   *)
(* if it was never calculated.                                             *)

None == [kind |-> "none", text |-> <<>>, num |-> 0]
Str(t) == [kind |-> "text", text |-> t, num |-> 0]
Num(n) == [kind |-> "number", text |-> <<ToString(n)>>, num |-> n]
Truth == [kind |-> "bool", text |-> <<"True">>, num |-> 1]
Formula(t, saved) == [kind |-> "formula", text |-> t, num |-> saved]

Saved(c) ==
    CASE c.kind # "formula" -> c
      [] c.kind = "formula" /\ c.num = 0 -> None
      [] c.kind = "formula" /\ c.num = 9 -> Str(<<"#REF!">>)
      [] OTHER -> Num(c.num)

IsText(c) == c.kind = "text"

\* Python's == between cells: True is 1.
Key(c) == IF c.kind = "bool" THEN Num(c.num) ELSE c

\* The value of a formula cell with data_only off, and with data_only on and
\* the formula in the place of a value that was never calculated.
EditValue(c) == IF c.kind = "formula" THEN Str(c.text) ELSE c
DataValue(c) == IF Saved(c) = None THEN EditValue(c) ELSE Saved(c)

MapRows(rows, Op(_)) == [i \in DOMAIN rows |-> [j \in DOMAIN rows[i] |-> Op(rows[i][j])]]
MapBook(book, Op(_)) == [s \in DOMAIN book |-> [book[s] EXCEPT !.rows = Op(@)]]

Titles(book) == [s \in DOMAIN book |-> book[s].title]
Width(rows) == FoldLeft(LAMBDA w, row : IF Len(row) > w THEN Len(row) ELSE w, 0, rows)
Cell(row, j) == IF j \in DOMAIN row THEN row[j] ELSE None

-----------------------------------------------------------------------------
(* Text.                                                                   *)

Strip(t) ==
    LET ink == {i \in DOMAIN t : t[i] # " "}
    IN  IF ink = {} THEN <<>> ELSE SubSeq(t, Min(ink), Max(ink))

\* c is None or str(c).strip() is empty.
Blank(c) == Strip(c.text) = <<>>

SplitBy(t, d) ==
    FoldLeft(LAMBDA parts, x : IF x = d THEN Append(parts, <<>>)
                               ELSE [parts EXCEPT ![Len(parts)] = Append(@, x)], << <<>> >>, t)

Joined(parts, d) ==
    FlattenSeq([i \in DOMAIN parts |-> IF i = 1 THEN parts[i] ELSE d \o parts[i]])

Position(x, s) == CHOOSE i \in DOMAIN s : s[i] = x /\ \A j \in 1..(i - 1) : s[j] # x

\* parse_columns_arg, and each entry of normalize_sheet_selection: the names
\* between the commas, stripped, blank ones dropped.
NamesIn(t) ==
    SelectSeq([i \in DOMAIN SplitBy(t, ",") |-> Strip(SplitBy(t, ",")[i])], LAMBDA n : n # <<>>)

\* normalize_sheet_selection of a list of fields; <<>> is its None.
NormalizeSheetSelection(fields) == FlattenSeq([i \in DOMAIN fields |-> NamesIn(fields[i])])

-----------------------------------------------------------------------------
(* Names.                                                                  *)

CutTo(t, n) == SubSeq(t, 1, IF Len(t) < n THEN Len(t) ELSE n)
Clean(t, bad) == [i \in DOMAIN t |-> IF t[i] \in bad THEN "_" ELSE t[i]]
Unquote(t) ==
    LET ink == {i \in DOMAIN t : t[i] # "'"}
    IN  IF ink = {} THEN <<>> ELSE SubSeq(t, Min(ink), Max(ink))
Or(t, fallback) == IF t = <<>> THEN fallback ELSE t

\* The characters Excel does not take in the title of a sheet.
BadInTitles == {"\\", "/", "*", "?", ":", "[", "]"}

SafeSheetTitle(raw, fallback) ==
    CutTo(Or(Unquote(Clean(Or(Strip(raw), fallback), BadInTitles)), fallback), MaxTitle)

\* The n-th candidate of unique_sheet_title; the suffix has two tokens.
Suffixed(base, n) ==
    CutTo(base, IF MaxTitle - 2 > 1 THEN MaxTitle - 2 ELSE 1) \o <<"_", ToString(n)>>

\* The first candidate that is free.  (After 9 998 taken ones the code falls back
\* to part_n; no workbook here has that many sheets.)
UniqueSheetTitle(base, used) ==
    IF base \notin used THEN base
    ELSE Suffixed(base, Min({n \in 2..(Cardinality(used) + 2) : Suffixed(base, n) \notin used}))

\* unique_sheet_title over a list of titles, in order.
UniqueTitles(bases) ==
    FoldLeft(LAMBDA done, b : Append(done, UniqueSheetTitle(b, ToSet(done))), <<>>, bases)

\* dedupe_headers of cells: stripped, column_i where blank, a number appended to
\* a name that is taken.
DedupeHeaders(cells) ==
    LET base(i) == Or(Strip(cells[i].text), <<"column", "_", ToString(i)>>)
        free(name, used) ==
            IF name \notin used THEN name
            ELSE LET numbered(n) == name \o <<"_", ToString(n)>>
                 IN  numbered(Min({n \in 2..(Len(cells) + 1) : numbered(n) \notin used}))
    IN  FoldLeft(LAMBDA done, i : Append(done, free(base(i), ToSet(done))),
                 <<>>, [i \in DOMAIN cells |-> i])

-----------------------------------------------------------------------------
(* Reading an upload.  A file has an extension, a size, whether its bytes  *)
(* are what the extension says, whether a library fails on its drawings,   *)
(* and the workbook in it.                                                 *)

OpenpyxlExtensions == {"xlsx", "xlsm", "xltx", "xltm", "xlam"}
Supported == OpenpyxlExtensions \cup {"xls", "xlsb"}

\* effective_limits: a caller with a principal is on the free tier.
MaxUploadBytes(principal) == IF principal = "anon" THEN AnonMax ELSE FreeMax

\* A title, ignoring case as Excel does.
Folded(t) ==
    [i \in DOMAIN t |-> CASE t[i] = "A" -> "a" [] t[i] = "B" -> "b" [] t[i] = "Summary" -> "summary"
                          [] t[i] = "Sheet" -> "sheet" [] OTHER -> t[i]]

\* Workbook.create_sheet and Worksheet.title of openpyxl: a title that another
\* one equals in any case gets the next free number, whatever its length.
FreeTitle(titles, t) ==
    LET taken == {Folded(u) : u \in titles}
        numbered(n) == t \o <<ToString(n)>>
    IN  IF Folded(t) \notin taken THEN t
        ELSE numbered(Min({n \in 1..(Cardinality(titles) + 1) : Folded(numbered(n)) \notin taken}))

\* check_excel_file, then read_upload_for_principal.
Gate(file, principal, rest) ==
    Require(file.ext \in Supported, 400,
    Require(file.size <= MaxUploadBytes(principal), 413, rest))

SupportsInplaceEdit(file) == file.ext \in OpenpyxlExtensions

\* _read_openpyxl_values and the two other readers of parse_excel_bytes: xlrd
\* has no blank cells, the rows of pyxlsb end at their last value.
ReadRows(ext, rows) ==
    LET values == MapRows(rows, Saved)
        ink(i) == {j \in DOMAIN values[i] : values[i][j] # None}
    IN  CASE ext = "xls"  -> MapRows(values, LAMBDA c : IF c = None THEN Str(<<>>) ELSE c)
          [] ext = "xlsb" -> [i \in DOMAIN values |-> SubSeq(values[i], 1, Max(ink(i) \cup {0}))]
          [] OTHER        -> MapRows(rows, DataValue)

\* parse_excel_bytes: magic bytes, the reader, once more without the drawings.
ParseExcelBytes(file) ==
    Require(file.genuine, 400, Done(MapBook(file.book, LAMBDA rows : ReadRows(file.ext, rows))))

\* load_workbook_for_edit; the second load, without the drawings, loses them.
LoadForEdit(file) ==
    Require(file.genuine /\ SupportsInplaceEdit(file), 400,
            Done(MapBook(file.book, LAMBDA rows : MapRows(rows, EditValue))))
VisualElementsLost(file) == file.brokenDrawings

\* has_visual_elements: the zip has drawings, charts or media.
HasVisualElements(file) == file.drawings

\* workbook_bytes_from_data: a new workbook, a None is written as "".
Written(c) == IF c = None THEN Str(<<>>) ELSE c
WorkbookFromData(book) ==
    IF book = <<>> THEN << [title |-> <<"Sheet1">>, rows |-> <<>>] >>
    ELSE [s \in DOMAIN book |-> [title |-> CutTo(Or(book[s].title, <<"Sheet">>), MaxTitle),
                                 rows |-> MapRows(book[s].rows, Written)]]

-----------------------------------------------------------------------------
(* Choosing sheets and columns.                                            *)

\* resolve_target_sheets, resolve_target_sheet_titles.
TargetSheets(book, r) ==
    LET named == {s \in DOMAIN book : book[s].title = Strip(r.sheet)} IN
    IF r.allSheets THEN Done(DOMAIN book)
    ELSE Require(Strip(r.sheet) # <<>>, 400, Require(named # {}, 404, Done(named)))

HeaderNames(row) == [j \in DOMAIN row |-> Strip(row[j].text)]

\* For every selected name that the header has, the first column of that name.
Matches(names, selected) ==
    LET found == SelectSeq(selected, LAMBDA c : c \in ToSet(names))
    IN  [i \in DOMAIN found |-> Position(found[i], names)]

\* Variant for a mutation: the header cells are compared unstripped.
DataColumnsExact(header, selected) ==
    IF selected = <<>> THEN [j \in DOMAIN header |-> j]
    ELSE Matches([j \in DOMAIN header |-> header[j].text], selected)

\* resolve_column_indexes: without a selection every column, blank names too.
DataColumns(header, selected) ==
    IF selected = <<>> THEN [j \in DOMAIN header |-> j] ELSE Matches(HeaderNames(header), selected)

\* header_index_map: without a selection the columns with a name.
EditColumns(header, selected) ==
    IF selected = <<>>
    THEN SelectSeq([j \in DOMAIN header |-> j], LAMBDA j : HeaderNames(header)[j] # <<>>)
    ELSE Matches(HeaderNames(header), selected)

AllFound(header, selected) == ToSet(selected) \subseteq ToSet(HeaderNames(header))

\* "if sheet not in workbook_data: 404".
OnSheet(book, title, rest(_)) ==
    LET named == {s \in DOMAIN book : book[s].title = title}
    IN  Require(named # {}, 404, rest(CHOOSE s \in named : TRUE))

\* Reading the workbook, for the tools that only have this path.
WithData(r, rest(_)) == Gate(r.file, r.principal, Then(ParseExcelBytes(r.file), rest))

\* str(h): a blank header cell is the text None.
HeaderText(c) == IF c = None THEN <<"None">> ELSE c.text

\* The columns that split_column and validate_emails look for.
ColumnsNamed(header, column) ==
    {j \in DOMAIN header : Strip(HeaderText(header[j])) = Strip(column)}
=============================================================================
